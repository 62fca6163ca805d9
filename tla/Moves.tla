-------------------------------- MODULE Moves --------------------------------
(***************************************************************************)
(* Deleting, archiving and moving messages of one IMAP account.            *)
(*                                                                         *)
(*   the server     folders of numbered messages, some flagged \Deleted    *)
(*   table messages the cached rows, hidden while pending_action is set    *)
(*   commands       delete_message, archive_message(s), move_message(s),   *)
(*                  clear_folder, each a run of IMAP commands that may fail *)
(*                  or lose their answer one by one                        *)
(*   the rest       polls, other clients, a crash                          *)
(*                                                                         *)
(* What a poll does while a command runs is the subject of FolderSync; here *)
(* a completed poll is one step.                                           *)
(***************************************************************************)
EXTENDS Integers, FiniteSets

CONSTANTS
  Folder,    \* the folders of the account
  Trash,     \* pick_trash_folder: a folder, or None
  Archive,   \* pick_archive_folder: a folder, or None
  None,
  Letter,    \* the messages
  User,      \* the commands that may run at once
  MaxUid,    \* bound: uids a folder hands out
  MaxOps,    \* bound: commands started
  MaxFails,  \* bound: failures, crashes and acts of other clients
  Hazards    \* what may happen, see HazardKind

\* fail: a command fails or its answer is lost; crash: the program restarts;
\* others: other clients flag and expunge; twice: a message is acted on from two
\* windows; plain: the server has no UID EXPUNGE.
HazardKind == {"fail", "crash", "others", "twice", "plain"}

Uid == 1..MaxUid
MaybeFolder == Folder \cup {None}

ASSUME MovesAssumption ==
  /\ MaxUid \in Nat /\ MaxOps \in Nat /\ MaxFails \in Nat
  /\ Folder # {} /\ None \notin Folder /\ IsFiniteSet(User)
  /\ Trash \in MaybeFolder /\ Archive \in MaybeFolder
  /\ Hazards \subseteq HazardKind

VARIABLES
  box,       \* the server's copies: <<folder, uid, letter>>
  flagged,   \* those flagged \Deleted: <<folder, uid>>
  uidnext,   \* [Folder -> the next uid]
  rows,      \* the cached envelopes: <<folder, uid, letter>>
  hidden,    \* those with a pending_action: <<folder, uid>>
  op,        \* [User -> the command]
  ops, fails, \* commands and failures so far
  \* For the properties only:
  arrived,   \* letters the account has received
  wanted,    \* letters the user asked to destroy
  others,    \* letters another client flagged or expunged
  extra      \* [Letter -> copies left behind by a failure]

server == <<box, flagged, uidnext>>
cache == <<rows, hidden>>
counts == <<ops, fails>>
history == <<arrived, wanted, others, extra>>
vars == <<server, cache, op, counts, history>>

\* connect: the row is hidden, the server not yet asked; failed, clean: the
\* server has answered, the cache is still to be told.
PC == {"idle", "connect", "probe", "copy", "store", "expunge", "failed", "clean"}
Kind == {"move", "destroy", "clear"}
Op == [pc: PC, kind: Kind, from: Folder, uids: SUBSET Uid, to: MaybeFolder]
Idle == [pc |-> "idle", kind |-> "move", from |-> CHOOSE f \in Folder : TRUE,
         uids |-> {}, to |-> None]

\* A uid names one message, and is not handed out again; pending_action is a
\* column, so that no tombstone outlives its row.
TypeOK ==
  /\ box \subseteq Folder \X Uid \X Letter
  /\ flagged \subseteq Folder \X Uid
  /\ uidnext \in [Folder -> 1..MaxUid + 1]
  /\ rows \subseteq Folder \X Uid \X Letter
  /\ hidden \subseteq Folder \X Uid
  /\ op \in [User -> Op]
  /\ ops \in 0..MaxOps /\ fails \in 0..MaxFails
  /\ arrived \subseteq Letter /\ wanted \subseteq Letter /\ others \subseteq Letter
  /\ extra \in [Letter -> Nat]
  /\ \A c \in box : c[2] < uidnext[c[1]]
  /\ \A c, d \in box : c[1] = d[1] /\ c[2] = d[2] => c = d
  /\ \A p \in hidden : \E c \in rows : p = <<c[1], c[2]>>

Init ==
  /\ box = {} /\ flagged = {} /\ uidnext = [f \in Folder |-> 1]
  /\ rows = {} /\ hidden = {}
  /\ op = [u \in User |-> Idle]
  /\ ops = 0 /\ fails = 0
  /\ arrived = {} /\ wanted = {} /\ others = {}
  /\ extra = [m \in Letter |-> 0]

Hazard(h) == h \in Hazards
Spend(h) == Hazard(h) /\ fails < MaxFails /\ fails' = fails + 1

\* The letters of a set of copies, and those of some uids of a folder.
Letters(copies) == {c[3] : c \in copies}
InFolder(copies, f) == {c \in copies : c[1] = f}
Among(copies, f, xs) == {c \in copies : c[1] = f /\ c[2] \in xs}
Places(f, xs) == {f} \X xs

-----------------------------------------------------------------------------
(* The server, the other clients and the polls. *)

Deliver(m, f) ==
  /\ m \notin arrived /\ uidnext[f] <= MaxUid
  /\ arrived' = arrived \cup {m}
  /\ box' = box \cup {<<f, uidnext[f], m>>}
  /\ uidnext' = [uidnext EXCEPT ![f] = @ + 1]
  /\ UNCHANGED <<flagged, cache, op, counts, wanted, others, extra>>

OtherFlags(c) ==
  /\ Spend("others") /\ c \in box
  /\ flagged' = flagged \cup {<<c[1], c[2]>>}
  /\ others' = others \cup {c[3]}
  /\ UNCHANGED <<box, uidnext, cache, op, ops, arrived, wanted, extra>>
OtherExpunges(c) ==
  /\ Spend("others") /\ c \in box
  /\ box' = box \ {c} /\ flagged' = flagged \ {<<c[1], c[2]>>}
  /\ others' = others \cup {c[3]}
  /\ UNCHANGED <<uidnext, cache, op, ops, arrived, wanted, extra>>

\* poll_folder: the rows become the server's, and those kept stay hidden; an empty
\* list changes nothing.
Sync(f) ==
  LET live == InFolder(box, f) IN
  /\ live # {}
  /\ rows' = (rows \ InFolder(rows, f)) \cup live
  /\ hidden' = {p \in hidden : p[1] # f \/ p[2] \in {c[2] : c \in live}}
  /\ UNCHANGED <<server, op, counts, history>>

-----------------------------------------------------------------------------
(* The commands: what they do before the server is asked. *)

\* A row the user sees, and may act on.
Offered(f, x) ==
  /\ \E c \in rows : c[1] = f /\ c[2] = x
  /\ <<f, x>> \notin hidden \/ Hazard("twice")

\* Copies that no expunge may follow.
LeaveBehind(copies) ==
  extra' = [m \in Letter |-> extra[m] + Cardinality({c \in copies : c[3] = m})]

\* A second copy is to be expected of a message another command works on.
Start(u, kind, f, xs, to) ==
  LET again == {c \in Among(box, f, xs) :
                 \E v \in User : op[v].pc # "idle" /\ op[v].from = f /\ c[2] \in op[v].uids} IN
  /\ op[u].pc = "idle" /\ ops < MaxOps
  /\ ops' = ops + 1
  /\ \A x \in xs : Offered(f, x)
  /\ hidden' = IF kind = "clear" THEN hidden ELSE hidden \cup Places(f, xs)
  /\ op' = [op EXCEPT ![u] = [pc |-> "connect", kind |-> kind, from |-> f, uids |-> xs,
                              to |-> to]]
  /\ wanted' = IF kind = "destroy" THEN wanted \cup Letters(Among(rows, f, xs)) ELSE wanted
  /\ LeaveBehind(again)
  /\ UNCHANGED <<server, rows, fails, arrived, others>>

\* To the trash, and from there, or without one, for good.
DeleteMessage(u, f, x) ==
  IF Trash # None /\ f # Trash
    THEN Start(u, "move", f, {x}, Trash)
    ELSE Start(u, "destroy", f, {x}, None)

ArchiveMessage(u, f, x) ==
  Archive # None /\ f # Archive /\ Start(u, "move", f, {x}, Archive)
MoveMessage(u, f, x, to) == to # f /\ Start(u, "move", f, {x}, to)
MoveMessages(u, f, xs, to) == to # f /\ xs # {} /\ Start(u, "move", f, xs, to)
ArchiveMessages(u, f, xs) ==
  Archive # None /\ f # Archive /\ xs # {} /\ Start(u, "move", f, xs, Archive)

ClearFolder(u, f) == Start(u, "clear", f, {}, None)

-----------------------------------------------------------------------------
(* The commands: the IMAP session. *)

Goto(u, pc) == op' = [op EXCEPT ![u].pc = pc]

\* No copy before the source is flagged: the mutant of FirstOf.
FirstStore == [move |-> "store", destroy |-> "probe", clear |-> "store"]

\* The first command of each session.
FirstOf == [move |-> "copy", destroy |-> "probe", clear |-> "store"]
Connect(u) ==
  /\ op[u].pc = "connect"
  /\ Goto(u, FirstOf[op[u].kind])
  /\ UNCHANGED <<server, cache, counts, history>>

\* The moves between their copy and their expunge, with the copies to remove.
Unfinished ==
  {w \in User \X box :
     /\ op[w[1]].kind = "move" /\ op[w[1]].pc \in {"store", "expunge"}
     /\ w[2] \in Among(box, op[w[1]].from, op[w[1]].uids)}
OwnUnfinished(u) == {w[2] : w \in {v \in Unfinished : v[1] = u}}

\* A step that was answered, or whose answer was lost.
Answered(u, pc, copied) ==
  \/ Goto(u, pc) /\ UNCHANGED <<counts, extra>>
  \/ /\ Spend("fail") /\ Goto(u, "failed")
     /\ LeaveBehind(copied)
     /\ UNCHANGED ops

\* ImapClient::delete_message looks whether the message is there.
Probe(u) ==
  LET there == Among(box, op[u].from, op[u].uids) # {} IN
  /\ op[u].pc = "probe"
  /\ Goto(u, IF there THEN "store" ELSE "clean")
  /\ UNCHANGED <<server, cache, counts, history>>

\* The uids the server may give to copies, and what becomes of the copies: they
\* keep their flags.
Numbering(source, low) ==
  {new \in [source -> low..low + Cardinality(source) - 1] :
     \A c, d \in source : c # d => new[c] # new[d]}
Add(source, to, new) ==
  /\ box' = box \cup {<<to, new[c], c[3]>> : c \in source}
  /\ flagged' = flagged \cup {<<to, new[c]>> :
                                c \in {d \in source : <<d[1], d[2]>> \in flagged}}

\* UID COPY.
Copy(u) ==
  LET source == Among(box, op[u].from, op[u].uids)
      to == op[u].to IN
  /\ op[u].pc = "copy"
  /\ uidnext[to] + Cardinality(source) <= MaxUid + 1
  /\ uidnext' = [uidnext EXCEPT ![to] = @ + Cardinality(source)]
  /\ \E new \in Numbering(source, uidnext[to]) : Add(source, to, new)
  /\ Answered(u, "store", source)
  /\ UNCHANGED <<cache, arrived, wanted, others>>

\* No expunge after the flags: the mutant of Store.
StoreOnly(u) ==
  LET target == IF op[u].kind = "clear" THEN InFolder(box, op[u].from)
                ELSE Among(box, op[u].from, op[u].uids) IN
  /\ op[u].pc = "store"
  /\ flagged' = flagged \cup {<<c[1], c[2]>> : c \in target}
  /\ wanted' = IF op[u].kind = "clear" THEN wanted \cup Letters(target) ELSE wanted
  /\ Goto(u, "clean")
  /\ UNCHANGED <<box, uidnext, cache, counts, arrived, others, extra>>

\* UID STORE +FLAGS (\Deleted), of 1:* to clear a folder.
Store(u) ==
  LET target == IF op[u].kind = "clear" THEN InFolder(box, op[u].from)
                ELSE Among(box, op[u].from, op[u].uids) IN
  /\ op[u].pc = "store"
  /\ flagged' = flagged \cup {<<c[1], c[2]>> : c \in target}
  /\ wanted' = IF op[u].kind = "clear" THEN wanted \cup Letters(target) ELSE wanted
  /\ Answered(u, "expunge", OwnUnfinished(u))
  /\ UNCHANGED <<box, uidnext, cache, arrived, others>>

\* EXPUNGE removes every flagged message of the folder, UID EXPUNGE the one asked
\* for; a message to destroy must have been among them.
Expunge(u) ==
  LET f == op[u].from
      doomed == {c \in InFolder(box, f) : <<f, c[2]>> \in flagged}
      gone == IF op[u].kind = "destroy" /\ ~ Hazard("plain")
              THEN Among(doomed, f, op[u].uids) ELSE doomed IN
  /\ op[u].pc = "expunge"
  /\ box' = box \ gone
  /\ flagged' = flagged \ {<<f, c[2]>> : c \in gone}
  /\ IF op[u].kind = "destroy" /\ gone = {}
       THEN Goto(u, "failed") /\ UNCHANGED <<counts, extra>>
       ELSE Answered(u, "clean", {})
  /\ UNCHANGED <<uidnext, cache, arrived, wanted, others>>

\* A step that did nothing but fail; past the COPY it leaves the copy behind.
Break(u) ==
  /\ Spend("fail")
  /\ op[u].pc \in {"connect", "probe", "copy", "store", "expunge"}
  /\ Goto(u, "failed")
  /\ LeaveBehind(OwnUnfinished(u))
  /\ UNCHANGED <<server, cache, ops, arrived, wanted, others>>

-----------------------------------------------------------------------------
(* The commands: what they do once the server has answered. *)

\* clear_message_pending.
Restore(u) ==
  /\ op[u].pc = "failed"
  /\ hidden' = hidden \ Places(op[u].from, op[u].uids)
  /\ op' = [op EXCEPT ![u] = Idle]
  /\ UNCHANGED <<server, rows, counts, history>>

\* The tombstone left behind: the mutant of Clean.
CleanKeepsMark(u) ==
  LET f == op[u].from
      stale == IF op[u].kind = "clear" THEN InFolder(rows, f)
               ELSE Among(rows, f, op[u].uids) IN
  /\ op[u].pc = "clean"
  /\ rows' = rows \ stale
  /\ op' = [op EXCEPT ![u] = Idle]
  /\ UNCHANGED <<server, hidden, counts, history>>

\* remove_envelope of every message, or empty_folder.
Clean(u) ==
  LET f == op[u].from
      stale == IF op[u].kind = "clear" THEN InFolder(rows, f)
               ELSE Among(rows, f, op[u].uids) IN
  /\ op[u].pc = "clean"
  /\ rows' = rows \ stale
  /\ hidden' = hidden \ {<<c[1], c[2]>> : c \in stale}
  /\ op' = [op EXCEPT ![u] = Idle]
  /\ UNCHANGED <<server, counts, history>>

\* A crash takes the commands with it; the start clears every tombstone.
Crash ==
  /\ Spend("crash")
  /\ op' = [u \in User |-> Idle]
  /\ hidden' = {}
  /\ extra' = [m \in Letter |-> extra[m] + Cardinality({w \in Unfinished : w[2][3] = m})]
  /\ UNCHANGED <<server, rows, ops, arrived, wanted, others>>

ServerStep ==
  \/ \E f \in Folder : Sync(f) \/ \E m \in Letter : Deliver(m, f)
  \/ \E c \in box : OtherFlags(c) \/ OtherExpunges(c)

CommandStep(u) ==
  \/ \E f \in Folder : \/ \E x \in Uid : DeleteMessage(u, f, x)
                       \/ \E x \in Uid, g \in Folder : MoveMessage(u, f, x, g)
                       \/ \E xs \in SUBSET Uid, g \in Folder : MoveMessages(u, f, xs, g)
                       \/ \E x \in Uid : ArchiveMessage(u, f, x)
                       \/ \E xs \in SUBSET Uid : ArchiveMessages(u, f, xs)
                       \/ ClearFolder(u, f)
  \/ Connect(u) \/ Probe(u) \/ Copy(u) \/ Store(u) \/ Expunge(u) \/ Break(u)
  \/ Restore(u) \/ Clean(u)

Next == ServerStep \/ Crash \/ \E u \in User : CommandStep(u)

Spec == Init /\ [][Next]_vars

-----------------------------------------------------------------------------
(* Properties. *)

\* A letter that the user did not ask to destroy and no other client touched is
\* on the server: no order of copies, flags, expunges and failures loses one.
NothingLost == \A m \in arrived : m \in wanted \cup others \cup Letters(box)

\* It is there once, but for the moves that are between their copy and their
\* expunge, and for those that failed there.
CopiesBounded ==
  \A m \in Letter :
    Cardinality({c \in box : c[3] = m})
      <= 1 + extra[m] + Cardinality({w \in Unfinished : w[2][3] = m})
=============================================================================
