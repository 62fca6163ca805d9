----------------------------- MODULE MovesProofs -----------------------------
(***************************************************************************)
(* Proofs about Moves, for any folders, letters, commands, bounds and      *)
(* hazards.                                                                *)
(***************************************************************************)
EXTENDS Moves, FiniteSetTheorems, TLAPS

Copies == Folder \X Uid \X Letter

Typed ==
  /\ box \in SUBSET Copies /\ rows \in SUBSET Copies
  /\ IsFiniteSet(box)
  /\ flagged \in SUBSET (Folder \X Uid)
  /\ uidnext \in [Folder -> 1..MaxUid + 1]
  /\ op \in [User -> Op]

\* A uid names one message, and is not handed out again.
UidsUnique ==
  /\ \A c \in box : c[2] < uidnext[c[1]]
  /\ \A p \in flagged : p[2] < uidnext[p[1]]
  /\ \A c, d \in box : c[1] = d[1] /\ c[2] = d[2] => c = d

\* What the user sees under a uid is what the server has there, if anything.
RowsTrue ==
  \A c \in rows : /\ c[2] < uidnext[c[1]]
                  /\ \A d \in box : c[1] = d[1] /\ c[2] = d[2] => c = d

\* A command names messages that were there when it began, a move has another
\* folder to go to, and what a deletion would flag the user wants destroyed.
OpsSound ==
  \A u \in User : op[u].pc # "idle" =>
    /\ \A x \in op[u].uids : x < uidnext[op[u].from]
    /\ op[u].kind = "move" => op[u].to \in Folder /\ op[u].to # op[u].from
    /\ op[u].pc = "copy" => op[u].kind = "move"
    /\ op[u].pc = "probe" => op[u].kind = "destroy"
    /\ op[u].kind = "destroy" =>
         \A c \in box : c[1] = op[u].from /\ c[2] \in op[u].uids => c[3] \in wanted

\* A copy that no expunge removes and no move is about to flag.
Secure(c) ==
  /\ <<c[1], c[2]>> \notin flagged
  /\ \A u \in User : op[u].kind = "move" /\ op[u].pc = "store"
                       => ~ (c[1] = op[u].from /\ c[2] \in op[u].uids)

\* Every letter still owed has such a copy: that is what makes NothingLost
\* inductive.
Secured ==
  \A m \in arrived : m \in wanted \cup others \/ \E c \in box : c[3] = m /\ Secure(c)

IInv == Typed /\ UidsUnique /\ RowsTrue /\ OpsSound /\ Secured

USE MovesAssumption DEF MovesAssumption

-----------------------------------------------------------------------------

LEMMA CopyParts ==
  ASSUME NEW c \in Copies
  PROVE  /\ c[1] \in Folder /\ c[2] \in Uid /\ c[3] \in Letter
         /\ c = <<c[1], c[2], c[3]>>
BY DEF Copies

LEMMA InitIInv ==
  ASSUME Init
  PROVE  IInv
<1> USE DEF Init
<1>1. Typed
  <2>1. Idle \in Op
    BY DEF Idle, Op, PC, Kind, MaybeFolder
  <2> QED BY <2>1, FS_EmptySet DEF Typed, Uid
<1>2. UidsUnique /\ RowsTrue
  BY DEF UidsUnique, RowsTrue
<1>3. OpsSound
  BY DEF OpsSound, Idle
<1>4. Secured
  BY DEF Secured
<1> QED BY <1>1, <1>2, <1>3, <1>4 DEF IInv

\* A command goes on with the messages it named, and comes to copy or flag only
\* from the step before.
GoesOn(u) ==
  op'[u].pc # "idle" =>
    /\ op[u].pc # "idle"
    /\ op'[u].uids = op[u].uids /\ op'[u].from = op[u].from
    /\ op'[u].kind = op[u].kind /\ op'[u].to = op[u].to
    /\ op'[u].pc = "copy" => op[u].pc = "copy" \/ op[u].kind = "move"
    /\ op'[u].pc = "probe" => op[u].pc = "probe" \/ op[u].kind = "destroy"
    /\ op'[u].pc = "store" => op[u].pc = "store" \/ op[u].kind # "move"

\* Steps that leave the server and the letters alone.
LEMMA Quiet ==
  ASSUME IInv, UNCHANGED <<server, arrived, wanted, others>>,
         rows' \in SUBSET rows, op' \in [User -> Op],
         \A u \in User : GoesOn(u)
  PROVE  IInv'
<1> USE DEF server, IInv, GoesOn
<1>1. Typed'
  BY DEF Typed
<1>2. UidsUnique'
  BY DEF UidsUnique
<1>3. RowsTrue'
  BY DEF RowsTrue
<1>4. OpsSound'
  BY DEF OpsSound
<1>5. \A c \in box : Secure(c) => Secure(c)'
  BY DEF Secure
<1>6. Secured'
  BY <1>5 DEF Secured
<1> QED BY <1>1, <1>2, <1>3, <1>4, <1>6

LEMMA GotoType ==
  ASSUME Typed, NEW u \in User, NEW pc \in PC, Goto(u, pc)
  PROVE  /\ op' \in [User -> Op]
         /\ op'[u].pc = pc
         /\ op'[u].uids = op[u].uids /\ op'[u].from = op[u].from
         /\ op'[u].kind = op[u].kind /\ op'[u].to = op[u].to
         /\ \A v \in User \ {u} : op'[v] = op[v]
<1>1. op \in [User -> Op] /\ op[u] \in Op
  BY DEF Typed
<1> QED BY <1>1 DEF Goto, Op

\* A command that goes where it may.
LEMMA GotoGoesOn ==
  ASSUME IInv, NEW u \in User, NEW pc \in PC, Goto(u, pc), op[u].pc # "idle",
         pc \in {"copy", "probe", "store"} =>
           pc = (IF op[u].kind = "move" THEN "copy" ELSE
                 IF op[u].kind = "destroy" /\ op[u].pc = "connect" THEN "probe" ELSE "store")
  PROVE  op' \in [User -> Op] /\ \A v \in User : GoesOn(v)
<1>1. Typed
  BY DEF IInv
<1> QED BY <1>1, GotoType DEF GoesOn

LEMMA IdleStep ==
  ASSUME IInv, NEW u \in User, op' = [op EXCEPT ![u] = Idle]
  PROVE  op' \in [User -> Op] /\ \A v \in User : GoesOn(v)
<1>1. op \in [User -> Op]
  BY DEF IInv, Typed
<1>2. PICK f \in Folder : TRUE
  BY <1>1 DEF Op
<1>3. Idle \in Op /\ Idle.pc = "idle"
  BY <1>2 DEF Idle, Op, PC, Kind, MaybeFolder
<1> QED BY <1>1, <1>3 DEF GoesOn

\* The steps of a command that only the program takes part in.
LEMMA ProgramStep ==
  ASSUME IInv, NEW u \in User,
         Connect(u) \/ Probe(u) \/ Break(u) \/ Restore(u) \/ Clean(u)
  PROVE  IInv'
<1>0. Typed /\ op[u] \in Op /\ rows \subseteq Copies
  BY DEF IInv, Typed
<1>1. CASE Connect(u)
  <2>1. op[u].kind \in Kind
    BY <1>0 DEF Op
  <2>2. /\ op[u].kind = "move" => FirstOf[op[u].kind] = "copy"
        /\ op[u].kind = "destroy" => FirstOf[op[u].kind] = "probe"
        /\ op[u].kind = "clear" => FirstOf[op[u].kind] = "store"
    BY DEF FirstOf
  <2>3. FirstOf[op[u].kind] \in PC
    BY <2>1, <2>2 DEF Kind, PC
  <2>4. op' \in [User -> Op] /\ \A v \in User : GoesOn(v)
    BY <1>1, <2>1, <2>2, <2>3, GotoGoesOn DEF Connect, Kind
  <2> QED BY <1>1, <2>4, Quiet DEF Connect, cache, history
<1>2. CASE Probe(u)
  <2>1. op[u].kind = "destroy"
    BY <1>2 DEF Probe, IInv, OpsSound
  <2>2. op' \in [User -> Op] /\ \A v \in User : GoesOn(v)
    <3> DEFINE pc == IF Among(box, op[u].from, op[u].uids) # {} THEN "store" ELSE "clean"
    <3>1. Goto(u, pc) /\ op[u].pc = "probe"
      BY <1>2 DEF Probe
    <3>2. pc \in PC /\ (pc \in {"copy", "probe", "store"} => pc = "store")
      BY DEF PC
    <3> HIDE DEF pc
    <3> QED BY <2>1, <3>1, <3>2, GotoGoesOn
  <2> QED BY <1>2, <2>2, Quiet DEF Probe, cache, history
<1>3. CASE Break(u)
  <2>1. "failed" \in PC /\ op[u].pc # "idle" /\ Goto(u, "failed")
    BY <1>3 DEF Break, PC
  <2>2. op' \in [User -> Op] /\ \A v \in User : GoesOn(v)
    BY <2>1, GotoGoesOn
  <2> QED BY <1>3, <2>2, Quiet DEF Break, cache
<1>4. CASE Restore(u)
  BY <1>4, IdleStep, Quiet DEF Restore, history
<1>5. CASE Clean(u)
  <2>1. rows' \in SUBSET rows
    BY <1>5 DEF Clean
  <2> QED BY <1>5, <2>1, IdleStep, Quiet DEF Clean, history
<1> QED BY <1>1, <1>2, <1>3, <1>4, <1>5

LEMMA CrashStep ==
  ASSUME IInv, Crash
  PROVE  IInv'
<1>1. CASE User = {}
  <2>1. op' \in [User -> Op]
    BY <1>1 DEF Crash
  <2> QED BY <1>1, <2>1, Quiet DEF Crash
<1>2. CASE User # {}
  <2>1. PICK u \in User : op[u] \in Op
    BY <1>2 DEF IInv, Typed
  <2>2. Idle \in Op /\ Idle.pc = "idle"
    BY <2>1 DEF Idle, Op, PC, Kind, MaybeFolder
  <2>3. op' \in [User -> Op] /\ \A v \in User : GoesOn(v)
    BY <2>2 DEF Crash, GoesOn
  <2> QED BY <2>3, Quiet DEF Crash
<1> QED BY <1>1, <1>2

-----------------------------------------------------------------------------
\* The server, other clients, polls.

LEMMA DeliverStep ==
  ASSUME IInv, NEW m \in Letter, NEW f \in Folder, Deliver(m, f)
  PROVE  IInv'
<1> USE DEF IInv, Deliver, cache, counts
<1>a. PICK new : new = <<f, uidnext[f], m>>
  OBVIOUS
<1>0. /\ uidnext[f] \in Uid /\ new \in Copies
      /\ new[1] = f /\ new[2] = uidnext[f] /\ new[3] = m
      /\ uidnext' \in [Folder -> 1..MaxUid + 1]
      /\ \A g \in Folder : uidnext[g] <= uidnext'[g] /\ (g = f => uidnext'[g] = uidnext[f] + 1)
      /\ box' = box \cup {new}
  BY <1>a DEF Typed, Copies, Uid
<1>1. Typed'
  BY <1>0, FS_AddElement DEF Typed
<1>2. UidsUnique'
  <2>1. ASSUME NEW c \in box PROVE c[2] < uidnext'[c[1]] /\ ~ (c[1] = f /\ c[2] = uidnext[f])
    <3>1. c[1] \in Folder /\ c[2] \in Uid /\ c[2] < uidnext[c[1]]
      BY CopyParts DEF Typed, UidsUnique
    <3>2. uidnext[c[1]] \in Int /\ uidnext'[c[1]] \in Int
      BY <3>1, <1>0 DEF Typed
    <3> QED BY <3>1, <3>2, <1>0 DEF Uid
  <2>2. ASSUME NEW p \in flagged PROVE p[2] < uidnext'[p[1]]
    <3>1. p[1] \in Folder /\ p[2] \in Uid /\ p[2] < uidnext[p[1]]
      BY DEF Typed, UidsUnique
    <3>2. uidnext[p[1]] \in Int /\ uidnext'[p[1]] \in Int
      BY <3>1, <1>0 DEF Typed
    <3> QED BY <3>1, <3>2, <1>0 DEF Uid
  <2>3. new[2] < uidnext'[new[1]]
    BY <1>0 DEF Uid
  <2> QED BY <2>1, <2>2, <2>3, <1>0 DEF UidsUnique
<1>3. RowsTrue'
  <2>1. ASSUME NEW c \in rows
        PROVE c[2] < uidnext'[c[1]] /\ ~ (c[1] = f /\ c[2] = uidnext[f])
    <3>1. c[1] \in Folder /\ c[2] \in Uid /\ c[2] < uidnext[c[1]]
      BY CopyParts DEF Typed, RowsTrue
    <3>2. uidnext[c[1]] \in Int /\ uidnext'[c[1]] \in Int
      BY <3>1, <1>0 DEF Typed
    <3> QED BY <3>1, <3>2, <1>0 DEF Uid
  <2> QED BY <2>1, <1>0 DEF RowsTrue
<1>4. ASSUME NEW u \in User, op[u].pc # "idle"
      PROVE  /\ \A x \in op[u].uids : x < uidnext'[op[u].from]
             /\ ~ (op[u].from = f /\ uidnext[f] \in op[u].uids)
  <2>1. op[u].from \in Folder /\ op[u].uids \subseteq Uid
    BY DEF Typed, Op
  <2>2. uidnext[op[u].from] \in Int /\ uidnext'[op[u].from] \in Int
    BY <2>1, <1>0 DEF Typed
  <2> QED BY <2>1, <2>2, <1>0, <1>4 DEF OpsSound, Uid
<1>5. OpsSound'
  BY <1>0, <1>4 DEF OpsSound
<1>6. Secure(new)'
  <2>1. \A p \in flagged : p # <<f, uidnext[f]>>
    BY <1>0 DEF UidsUnique, Uid
  <2> QED BY <2>1, <1>0, <1>4 DEF Secure
<1>7. Secured'
  BY <1>0, <1>6 DEF Secured, Secure
<1> QED BY <1>1, <1>2, <1>3, <1>5, <1>7

LEMMA OtherStep ==
  ASSUME IInv, NEW c \in box, OtherFlags(c) \/ OtherExpunges(c)
  PROVE  IInv'
<1> USE DEF IInv, OtherFlags, OtherExpunges, cache
<1>0. c[1] \in Folder /\ c[2] \in Uid
  BY CopyParts DEF Typed
<1>1. /\ box' \in SUBSET box /\ flagged' \in SUBSET (flagged \cup {<<c[1], c[2]>>})
      /\ uidnext' = uidnext /\ rows' = rows /\ op' = op
      /\ arrived' = arrived /\ wanted' = wanted /\ others' = others \cup {c[3]}
      /\ \A d \in box : d # c => d \in box'
  OBVIOUS
<1>2. Typed'
  BY <1>0, <1>1, FS_Subset DEF Typed
<1>3. UidsUnique' /\ RowsTrue' /\ OpsSound'
  BY <1>1 DEF UidsUnique, RowsTrue, OpsSound
<1>4. ASSUME NEW d \in box, d # c, Secure(d)
      PROVE  Secure(d)'
  BY <1>1, <1>4 DEF UidsUnique, Secure
<1>5. Secured'
  BY <1>1, <1>4 DEF Secured
<1> QED BY <1>2, <1>3, <1>5

LEMMA SyncStep ==
  ASSUME IInv, NEW f \in Folder, Sync(f)
  PROVE  IInv'
<1> USE DEF IInv, Sync, server, counts, history
<1>1. rows' \in SUBSET (rows \cup box)
  BY DEF InFolder
<1>2. Typed' /\ UidsUnique' /\ OpsSound'
  BY <1>1 DEF Typed, UidsUnique, OpsSound
<1>3. RowsTrue'
  BY <1>1 DEF RowsTrue, UidsUnique
<1>4. Secured'
  BY DEF Secured, Secure
<1> QED BY <1>2, <1>3, <1>4

-----------------------------------------------------------------------------
\* The commands.

LEMMA StartStep ==
  ASSUME IInv, NEW u \in User, NEW kind \in Kind, NEW f \in Folder,
         NEW xs \in SUBSET Uid, NEW to \in MaybeFolder,
         kind = "move" => to \in Folder /\ to # f,
         Start(u, kind, f, xs, to)
  PROVE  IInv'
<1> USE DEF IInv, Start, server
<1>0. /\ op' \in [User -> Op]
      /\ op'[u].pc = "connect" /\ op'[u].kind = kind /\ op'[u].from = f
      /\ op'[u].uids = xs /\ op'[u].to = to
      /\ \A v \in User \ {u} : op'[v] = op[v]
  BY DEF Typed, Op, PC
<1>1. Typed' /\ UidsUnique' /\ RowsTrue'
  BY <1>0 DEF Typed, UidsUnique, RowsTrue
<1>2. ASSUME NEW x \in xs
      PROVE  /\ x < uidnext[f]
             /\ kind = "destroy" =>
                  \A c \in box : c[1] = f /\ c[2] = x => c[3] \in wanted'
  <2>1. PICK r \in rows : r[1] = f /\ r[2] = x
    BY DEF Offered
  <2>2. x < uidnext[f]
    BY <2>1 DEF RowsTrue
  <2>3. \A c \in box : c[1] = f /\ c[2] = x => c = r
    BY <2>1 DEF RowsTrue
  <2>4. kind = "destroy" => r[3] \in wanted'
    BY <2>1 DEF Letters, Among
  <2> QED BY <2>2, <2>3, <2>4
<1>3. wanted \subseteq wanted' /\ others' = others /\ arrived' = arrived
  OBVIOUS
<1>4. OpsSound'
  BY <1>0, <1>2, <1>3 DEF OpsSound
<1>5. \A c \in box : Secure(c) => Secure(c)'
  BY <1>0 DEF Secure
<1>6. Secured'
  BY <1>3, <1>5 DEF Secured
<1> QED BY <1>1, <1>4, <1>6

LEMMA UserStep ==
  ASSUME IInv, NEW u \in User, NEW f \in Folder,
         \/ \E x \in Uid : DeleteMessage(u, f, x)
         \/ \E x \in Uid, g \in Folder : MoveMessage(u, f, x, g)
         \/ \E xs \in SUBSET Uid, g \in Folder : MoveMessages(u, f, xs, g)
         \/ \E x \in Uid : ArchiveMessage(u, f, x)
         \/ \E xs \in SUBSET Uid : ArchiveMessages(u, f, xs)
         \/ ClearFolder(u, f)
  PROVE  IInv'
<1> USE DEF Kind, MaybeFolder
<1>1. ASSUME NEW x \in Uid, DeleteMessage(u, f, x) PROVE IInv'
  BY <1>1, StartStep DEF DeleteMessage
<1>2. ASSUME NEW x \in Uid, NEW g \in Folder, MoveMessage(u, f, x, g) PROVE IInv'
  BY <1>2, StartStep DEF MoveMessage
<1>3. ASSUME NEW xs \in SUBSET Uid, NEW g \in Folder, MoveMessages(u, f, xs, g) PROVE IInv'
  BY <1>3, StartStep DEF MoveMessages
<1>4. ASSUME NEW xs \in SUBSET Uid, ArchiveMessages(u, f, xs) PROVE IInv'
  BY <1>4, StartStep DEF ArchiveMessages
<1>6. ASSUME NEW x \in Uid, ArchiveMessage(u, f, x) PROVE IInv'
  BY <1>6, StartStep DEF ArchiveMessage
<1>5. CASE ClearFolder(u, f)
  BY <1>5, StartStep DEF ClearFolder
<1> QED BY <1>1, <1>2, <1>3, <1>4, <1>5, <1>6

\* Answered or not, the command goes on or gives up.
LEMMA AnsweredStep ==
  ASSUME IInv, NEW u \in User, NEW pc \in PC, NEW copied, op[u].pc # "idle",
         Answered(u, pc, copied)
  PROVE  /\ op' \in [User -> Op]
         /\ op'[u].pc \in {pc, "failed"}
         /\ op'[u].uids = op[u].uids /\ op'[u].from = op[u].from
         /\ op'[u].kind = op[u].kind /\ op'[u].to = op[u].to
         /\ \A v \in User \ {u} : op'[v] = op[v]
<1>1. Typed
  BY DEF IInv
<1>2. "failed" \in PC
  BY DEF PC
<1>3. Goto(u, pc) \/ Goto(u, "failed")
  BY DEF Answered
<1>4. CASE Goto(u, pc)
  BY <1>1, <1>4, GotoType
<1>5. CASE Goto(u, "failed")
  BY <1>1, <1>2, <1>5, GotoType
<1> QED BY <1>3, <1>4, <1>5

LEMMA StoreStep ==
  ASSUME IInv, NEW u \in User, Store(u)
  PROVE  IInv'
<1> USE DEF IInv, cache
<1> DEFINE target == IF op[u].kind = "clear" THEN InFolder(box, op[u].from)
                     ELSE Among(box, op[u].from, op[u].uids)
<1>0. /\ target \subseteq box
      /\ flagged' = flagged \cup {<<c[1], c[2]>> : c \in target}
      /\ wanted' = (IF op[u].kind = "clear" THEN wanted \cup Letters(target) ELSE wanted)
      /\ op[u].pc = "store"
      /\ UNCHANGED <<box, uidnext, rows, arrived, others>>
  BY DEF Store, InFolder, Among
<1>1. /\ op' \in [User -> Op] /\ op'[u].pc \in {"expunge", "failed"}
      /\ op'[u].uids = op[u].uids /\ op'[u].from = op[u].from
      /\ op'[u].kind = op[u].kind /\ op'[u].to = op[u].to
      /\ \A v \in User \ {u} : op'[v] = op[v]
  BY AnsweredStep DEF Store, PC
<1>2. wanted \subseteq wanted'
  BY <1>0
<1>3. Typed'
  <2>1. \A c \in target : <<c[1], c[2]>> \in Folder \X Uid
    BY <1>0, CopyParts DEF Typed
  <2> QED BY <1>0, <1>1, <2>1 DEF Typed
<1>4. UidsUnique' /\ RowsTrue'
  BY <1>0 DEF UidsUnique, RowsTrue
<1>5. OpsSound'
  BY <1>0, <1>1, <1>2 DEF OpsSound
<1>6. ASSUME NEW c \in box, Secure(c), c[3] \notin wanted'
      PROVE  Secure(c)'
  <2>1. c \notin target
    <3>1. CASE op[u].kind = "clear"
      BY <3>1, <1>0, <1>6 DEF Letters
    <3>2. CASE op[u].kind = "move"
      BY <3>2, <1>0, <1>6 DEF Among, Secure
    <3>3. CASE op[u].kind = "destroy"
      BY <3>3, <1>0, <1>2, <1>6 DEF Among, OpsSound
    <3>4. op[u].kind \in Kind
      BY DEF Typed, Op
    <3> QED BY <3>1, <3>2, <3>3, <3>4 DEF Kind
  <2>2. \A d \in target : <<d[1], d[2]>> # <<c[1], c[2]>>
    BY <1>0, <2>1 DEF UidsUnique
  <2>3. <<c[1], c[2]>> \notin flagged'
    BY <1>0, <1>6, <2>2 DEF Secure
  <2> QED BY <1>1, <1>6, <2>3 DEF Secure
<1>7. Secured'
  BY <1>0, <1>2, <1>6 DEF Secured
<1> QED BY <1>3, <1>4, <1>5, <1>7

LEMMA ExpungeStep ==
  ASSUME IInv, NEW u \in User, Expunge(u)
  PROVE  IInv'
<1> USE DEF IInv, cache
<1>0. /\ box' \in SUBSET box /\ flagged' \in SUBSET flagged
      /\ \A c \in box : <<c[1], c[2]>> \notin flagged => c \in box'
      /\ op[u].pc = "expunge"
      /\ UNCHANGED <<uidnext, rows, arrived, wanted, others>>
  BY DEF Expunge, InFolder, Among
<1>1. /\ op' \in [User -> Op] /\ op'[u].pc \in {"clean", "failed"}
      /\ op'[u].uids = op[u].uids /\ op'[u].from = op[u].from
      /\ op'[u].kind = op[u].kind /\ op'[u].to = op[u].to
      /\ \A v \in User \ {u} : op'[v] = op[v]
  <2>1. "clean" \in PC /\ "failed" \in PC
    BY DEF PC
  <2>2. Goto(u, "failed") \/ Answered(u, "clean", {})
    BY DEF Expunge
  <2> QED BY <1>0, <2>1, <2>2, AnsweredStep, GotoType
<1>2. Typed'
  BY <1>0, <1>1, FS_Subset DEF Typed
<1>3. UidsUnique' /\ RowsTrue'
  BY <1>0 DEF UidsUnique, RowsTrue
<1>4. OpsSound'
  BY <1>0, <1>1 DEF OpsSound
<1>5. \A c \in box : Secure(c) => c \in box' /\ Secure(c)'
  BY <1>0, <1>1 DEF Secure
<1>6. Secured'
  BY <1>0, <1>5 DEF Secured
<1> QED BY <1>2, <1>3, <1>4, <1>6

LEMMA CopyStep ==
  ASSUME IInv, NEW u \in User, Copy(u)
  PROVE  IInv'
<1> USE DEF IInv, cache
<1> DEFINE source == Among(box, op[u].from, op[u].uids)
           from == op[u].from
           to == op[u].to
           low == uidnext[to]
           high == uidnext[to] + Cardinality(source)
<1>a. source = Among(box, op[u].from, op[u].uids)
  OBVIOUS
<1>b. from = op[u].from /\ to = op[u].to
  OBVIOUS
<1>c. low = uidnext[to] /\ high = uidnext[to] + Cardinality(source)
  OBVIOUS
<1>e. PICK new \in Numbering(source, low) : Add(source, to, new)
  BY DEF Copy
<1>f. high = low + Cardinality(source)
  OBVIOUS
<1>0. /\ op[u].pc = "copy" /\ high <= MaxUid + 1
      /\ uidnext' = [uidnext EXCEPT ![to] = high]
      /\ UNCHANGED <<rows, arrived, wanted, others>>
      /\ Answered(u, "store", source)
  BY DEF Copy
<1> HIDE DEF source, from, to, low, high
<1>1. /\ to \in Folder /\ from \in Folder /\ to # from /\ op[u].kind = "move"
  BY <1>0, <1>b DEF OpsSound, Typed, Op
<1>2. source \in SUBSET box /\ IsFiniteSet(source) /\ Cardinality(source) \in Nat
  BY <1>a, FS_Subset, FS_CardinalityType DEF Typed, Among
<1>3. low \in Uid \cup {MaxUid + 1} /\ high \in low..MaxUid + 1 /\ low \in Nat \ {0}
  BY <1>0, <1>1, <1>2, <1>c DEF Typed, Uid
<1>d. /\ new \in [source -> low..high - 1]
      /\ \A c, d \in source : c # d => new[c] # new[d]
      /\ box' = box \cup {<<to, new[c], c[3]>> : c \in source}
      /\ flagged' = flagged \cup {<<to, new[c]>> :
                                    c \in {d \in source : <<d[1], d[2]>> \in flagged}}
  <2>1. /\ new \in [source -> low..low + Cardinality(source) - 1]
        /\ \A c, d \in source : c # d => new[c] # new[d]
    BY <1>e DEF Numbering
  <2>2. low..low + Cardinality(source) - 1 = low..high - 1
    BY <1>f, <1>2, <1>3
  <2>3. Add(source, to, new)
    BY <1>e
  <2>4. new \in [source -> low..high - 1]
    BY <2>1, <2>2, Zenon
  <2>5. /\ box' = box \cup {<<to, new[c], c[3]>> : c \in source}
        /\ flagged' = flagged \cup {<<to, new[c]>> :
                                      c \in {d \in source : <<d[1], d[2]>> \in flagged}}
    BY <2>3, Zenon DEF Add
  <2> QED BY <2>1, <2>4, <2>5, Zenon
<1>4. \A c \in source : new[c] \in Uid /\ low <= new[c] /\ new[c] < high
  BY <1>d, <1>3 DEF Uid
<1>5. /\ uidnext' \in [Folder -> 1..MaxUid + 1]
      /\ uidnext'[to] = high
      /\ \A g \in Folder : g # to => uidnext'[g] = uidnext[g]
      /\ \A g \in Folder : uidnext[g] <= uidnext'[g] /\ uidnext[g] \in Int /\ uidnext'[g] \in Int
  BY <1>0, <1>1, <1>3, <1>c DEF Typed
<1>6. /\ op' \in [User -> Op] /\ op'[u].pc \in {"store", "failed"}
      /\ op'[u].uids = op[u].uids /\ op'[u].from = op[u].from
      /\ op'[u].kind = op[u].kind /\ op'[u].to = op[u].to
      /\ \A v \in User \ {u} : op'[v] = op[v]
  BY <1>0, AnsweredStep DEF PC
<1>7. ASSUME NEW c \in source
      PROVE  /\ c[3] \in Letter
             /\ <<to, new[c], c[3]>> \in Copies
             /\ <<to, new[c]>> \in Folder \X Uid
  BY <1>1, <1>2, <1>4, CopyParts DEF Typed, Copies
<1>8. Typed'
  <2>1. IsFiniteSet(box')
    <3> DEFINE image == {<<to, new[c], c[3]>> : c \in source}
               f == [c \in source |-> <<to, new[c], c[3]>>]
    <3>1. f \in Surjection(source, image)
      BY DEF Surjection
    <3>2. IsFiniteSet(image)
      BY <1>2, <3>1, FS_Surjection
    <3>3. box' = box \cup image
      BY <1>d
    <3>4. IsFiniteSet(box)
      BY DEF Typed
    <3> HIDE DEF image
    <3> QED BY <3>2, <3>3, <3>4, FS_Union
  <2>2. box' \in SUBSET Copies
    BY <1>d, <1>7 DEF Typed
  <2>3. flagged' \in SUBSET (Folder \X Uid)
    BY <1>d, <1>7 DEF Typed
  <2> QED BY <2>1, <2>2, <2>3, <1>0, <1>5, <1>6 DEF Typed
<1>9. ASSUME NEW c \in box
      PROVE  c[1] \in Folder /\ c[2] \in Int /\ c[2] < uidnext[c[1]] /\ c[2] < uidnext'[c[1]]
  <2>1. c[1] \in Folder /\ c[2] \in Uid /\ c[2] < uidnext[c[1]]
    BY CopyParts DEF Typed, UidsUnique
  <2> QED BY <2>1, <1>5 DEF Uid
<1>10. ASSUME NEW p \in flagged
       PROVE  p[1] \in Folder /\ p[2] \in Int /\ p[2] < uidnext[p[1]] /\ p[2] < uidnext'[p[1]]
  <2>1. p[1] \in Folder /\ p[2] \in Uid /\ p[2] < uidnext[p[1]]
    BY DEF Typed, UidsUnique
  <2> QED BY <2>1, <1>5 DEF Uid
<1>11. ASSUME NEW c \in rows
       PROVE  c[1] \in Folder /\ c[2] \in Int /\ c[2] < uidnext[c[1]] /\ c[2] < uidnext'[c[1]]
  <2>1. c[1] \in Folder /\ c[2] \in Uid /\ c[2] < uidnext[c[1]]
    BY CopyParts DEF Typed, RowsTrue
  <2> QED BY <2>1, <1>5 DEF Uid
<1>12. ASSUME NEW d, d[1] \in Folder, d[2] \in Int, d[2] < uidnext[d[1]], NEW c \in source
       PROVE  ~ (d[1] = to /\ d[2] = new[c])
  BY <1>4, <1>c, <1>12, <1>3 DEF Uid
<1>13. \A e \in box' : e \in box \/ \E c \in source : /\ e = <<to, new[c], c[3]>>
                                                     /\ e[1] = to /\ e[2] = new[c] /\ e[3] = c[3]
  <2>1. ASSUME NEW e \in box' PROVE e \in box \/ \E c \in source : e = <<to, new[c], c[3]>>
    BY <1>d, Zenon
  <2>2. ASSUME NEW e, NEW c \in source, e = <<to, new[c], c[3]>>
        PROVE  e[1] = to /\ e[2] = new[c] /\ e[3] = c[3]
    BY <2>2
  <2> QED BY <2>1, <2>2, Zenon
<1>14. UidsUnique'
  <2>1. \A e \in box' : e[2] < uidnext'[e[1]]
    BY <1>4, <1>5, <1>9, <1>13
  <2>2. \A p \in flagged' : p[2] < uidnext'[p[1]]
    <3>1. \A p \in flagged' : p \in flagged \/ \E c \in source : p = <<to, new[c]>>
      BY <1>d, Zenon
    <3> QED BY <3>1, <1>4, <1>5, <1>10
  <2>3. ASSUME NEW c \in box', NEW d \in box', c[1] = d[1], c[2] = d[2]
        PROVE  c = d
    <3>1. CASE c \in box /\ d \in box
      BY <2>3, <3>1 DEF UidsUnique
    <3>2. CASE c \in box /\ d \notin box
      BY <2>3, <3>2, <1>9, <1>12, <1>13
    <3>3. CASE c \notin box /\ d \in box
      BY <2>3, <3>3, <1>9, <1>12, <1>13
    <3>4. CASE c \notin box /\ d \notin box
      <4>1. PICK x \in source : c = <<to, new[x], x[3]>> /\ c[2] = new[x]
        BY <3>4, <1>13
      <4>2. PICK y \in source : d = <<to, new[y], y[3]>> /\ d[2] = new[y]
        BY <3>4, <1>13
      <4>3. x = y
        BY <2>3, <4>1, <4>2, <1>d
      <4> QED BY <4>1, <4>2, <4>3
    <3> QED BY <3>1, <3>2, <3>3, <3>4
  <2> QED BY <2>1, <2>2, <2>3 DEF UidsUnique
<1>15. RowsTrue'
  <2>1. ASSUME NEW c \in rows, NEW d \in box', c[1] = d[1], c[2] = d[2]
        PROVE  c = d
    <3>1. CASE d \in box
      BY <2>1, <3>1 DEF RowsTrue
    <3>2. CASE d \notin box
      BY <2>1, <3>2, <1>11, <1>12, <1>13
    <3> QED BY <3>1, <3>2
  <2> QED BY <2>1, <1>0, <1>11 DEF RowsTrue
<1>16. ASSUME NEW v \in User, op[v].pc # "idle"
       PROVE  /\ op[v].from \in Folder /\ op[v].uids \in SUBSET Uid
              /\ \A x \in op[v].uids : /\ x \in Int /\ x < uidnext'[op[v].from]
                                       /\ x < uidnext[op[v].from]
  <2>1. op[v].from \in Folder /\ op[v].uids \in SUBSET Uid
    BY DEF Typed, Op
  <2>2. \A x \in op[v].uids : x < uidnext[op[v].from]
    BY <1>16 DEF OpsSound
  <2> QED BY <2>1, <2>2, <1>5 DEF Uid
<1>17. ASSUME NEW v \in User, op[v].pc # "idle", NEW c \in source
       PROVE  ~ (op[v].from = to /\ new[c] \in op[v].uids)
  BY <1>16, <1>17, <1>4, <1>c, <1>3 DEF Uid
<1>18. OpsSound'
  <2>1. ASSUME NEW v \in User, op[v].pc # "idle", op[v].kind = "destroy",
               NEW c \in box', c[1] = op[v].from, c[2] \in op[v].uids
        PROVE  c[3] \in wanted
    <3>1. c \in box
      BY <2>1, <1>13, <1>17
    <3> QED BY <2>1, <3>1 DEF OpsSound
  <2>2. ASSUME NEW v \in User, op'[v].pc # "idle"
        PROVE  /\ op[v].pc # "idle"
               /\ op'[v].uids = op[v].uids /\ op'[v].from = op[v].from
               /\ op'[v].kind = op[v].kind /\ op'[v].to = op[v].to
               /\ op'[v].pc \in {"copy", "probe"} => op'[v].pc = op[v].pc
    BY <1>0, <1>6, <2>2
  <2> QED BY <2>1, <2>2, <1>0, <1>16 DEF OpsSound
<1>19. ASSUME NEW c \in box, Secure(c), c \notin source
       PROVE  Secure(c)'
  <2>1. <<c[1], c[2]>> \notin flagged'
    BY <1>19, <1>9, <1>12, <1>d DEF Secure
  <2>2. ~ (c[1] = op[u].from /\ c[2] \in op[u].uids)
    BY <1>19, <1>a DEF Among
  <2> QED BY <1>6, <1>19, <2>1, <2>2 DEF Secure
<1>20. ASSUME NEW c \in source, Secure(c)
       PROVE  \E e \in box' : e[3] = c[3] /\ Secure(e)'
  <2>0. PICK e : e = <<to, new[c], c[3]>>
    OBVIOUS
  <2>1. e = <<to, new[c], c[3]>> /\ e[1] = to /\ e[2] = new[c] /\ e[3] = c[3]
    BY <2>0
  <2>2. e \in box'
    BY <2>1, <1>d
  <2>3. <<to, new[c]>> \notin flagged
    BY <1>10, <1>12
  <2>4. \A d \in source : <<d[1], d[2]>> \in flagged => new[d] # new[c]
    BY <1>20, <1>d DEF Secure
  <2>5. <<to, new[c]>> \notin flagged'
    BY <2>3, <2>4, <1>d
  <2>6. \A v \in User : op'[v].pc = "store" => ~ (op'[v].from = to /\ new[c] \in op'[v].uids)
    BY <1>0, <1>6, <1>17
  <2> QED BY <2>1, <2>2, <2>5, <2>6 DEF Secure
<1>21. Secured'
  <2>1. ASSUME NEW m \in arrived, m \notin wanted \cup others
        PROVE  \E e \in box' : e[3] = m /\ Secure(e)'
    <3>1. PICK c \in box : c[3] = m /\ Secure(c)
      BY <2>1 DEF Secured
    <3>2. CASE c \in source
      BY <3>1, <3>2, <1>20
    <3>3. CASE c \notin source
      BY <3>1, <3>3, <1>19, <1>d
    <3> QED BY <3>2, <3>3
  <2> QED BY <2>1, <1>0 DEF Secured
<1> QED BY <1>8, <1>14, <1>15, <1>18, <1>21

-----------------------------------------------------------------------------

LEMMA StutterStep ==
  ASSUME IInv, UNCHANGED vars
  PROVE  IInv'
<1>1. op \in [User -> Op]
  BY DEF IInv, Typed
<1> QED BY <1>1, Quiet DEF vars, server, cache, history, GoesOn

LEMMA NextStep ==
  ASSUME IInv, Next
  PROVE  IInv'
<1> USE DEF IInv, Typed
<1>1. ASSUME NEW f \in Folder, Sync(f) PROVE IInv'
  BY <1>1, SyncStep
<1>2. ASSUME NEW f \in Folder, NEW m \in Letter, Deliver(m, f) PROVE IInv'
  BY <1>2, DeliverStep
<1>3. ASSUME NEW c \in box, OtherFlags(c) \/ OtherExpunges(c) PROVE IInv'
  BY <1>3, OtherStep
<1>4. ASSUME NEW u \in User, CommandStep(u) PROVE IInv'
  <2>1. CASE \E f \in Folder :
          \/ \E x \in Uid : DeleteMessage(u, f, x)
          \/ \E x \in Uid, g \in Folder : MoveMessage(u, f, x, g)
          \/ \E xs \in SUBSET Uid, g \in Folder : MoveMessages(u, f, xs, g)
          \/ \E x \in Uid : ArchiveMessage(u, f, x)
          \/ \E xs \in SUBSET Uid : ArchiveMessages(u, f, xs)
          \/ ClearFolder(u, f)
    BY <2>1, UserStep
  <2>2. CASE Connect(u) \/ Probe(u) \/ Break(u) \/ Restore(u) \/ Clean(u)
    BY <2>2, ProgramStep
  <2>3. CASE Copy(u) \/ Store(u) \/ Expunge(u)
    BY <2>3, CopyStep, StoreStep, ExpungeStep
  <2> QED BY <1>4, <2>1, <2>2, <2>3 DEF CommandStep
<1>5. CASE Crash
  BY <1>5, CrashStep
<1> QED BY <1>1, <1>2, <1>3, <1>4, <1>5 DEF Next, ServerStep

LEMMA Inductive == Spec => []IInv
<1>1. Init => IInv
  BY InitIInv
<1>2. IInv /\ [Next]_vars => IInv'
  BY NextStep, StutterStep
<1> QED BY <1>1, <1>2, PTL DEF Spec

\* No letter is lost by deleting, archiving, moving and clearing, in any number of
\* folders, however many commands overlap and whatever fails: each letter still owed
\* has an unflagged copy that no move is about to flag.
THEOREM NoLetterLost == Spec => []NothingLost
<1>1. IInv => NothingLost
  BY DEF IInv, Secured, NothingLost, Letters
<1> QED BY <1>1, Inductive, PTL

\* What the user sees under a uid is what a command on that uid acts on, for every
\* instance: no uid is handed out twice.
THEOREM UidsNameOneMessage == Spec => [](UidsUnique /\ RowsTrue)
<1>1. IInv => UidsUnique /\ RowsTrue
  BY DEF IInv
<1> QED BY <1>1, Inductive, PTL
-----------------------------------------------------------------------------
\* How many copies there are.

\* The copies a command names, and the parts of the sums of CopiesBounded: the copies
\* of a letter, the moves of a letter before and past their COPY, and the copies that
\* moves are at work on.
Target(u) == Among(box, op[u].from, op[u].uids)
Held(m) == {c \in box : c[3] = m}
Moving(m, pcs) ==
  {w \in User \X box : /\ op[w[1]].kind = "move" /\ op[w[1]].pc \in pcs
                       /\ w[2] \in Target(w[1]) /\ w[2][3] = m}
Pending(m) == Moving(m, {"connect", "copy"})
Copied(m) == Moving(m, {"store", "expunge"})
Worked(m) == {c \in box : \E u \in User : <<u, c>> \in Pending(m) \cup Copied(m)}

\* A move that is about to expunge has flagged what it moved.
Marked ==
  \A u \in User : op[u].kind = "move" /\ op[u].pc = "expunge" =>
    \A c \in Target(u) : <<c[1], c[2]>> \in flagged

\* A pending move will add a copy, unless it was the first at work on its own: the
\* copies of a letter and the moves to come are at most one, those a failure left
\* behind, and those a move will remove.
Counted ==
  \A m \in Letter :
    Cardinality(Held(m)) + Cardinality(Pending(m)) <= 1 + extra[m] + Cardinality(Worked(m))

\* The parts of TypeOK that Typed does not have.
Counters ==
  /\ ops \in 0..MaxOps /\ fails \in 0..MaxFails
  /\ arrived \in SUBSET Letter /\ wanted \in SUBSET Letter /\ others \in SUBSET Letter
  /\ extra \in [Letter -> Nat]
  /\ Letters(box) \in SUBSET arrived

\* No tombstone outlives its row.
Tombstones == \A p \in hidden : \E c \in rows : p = <<c[1], c[2]>>

CInv == Counters /\ Tombstones /\ Marked /\ Counted

LEMMA InitCInv ==
  ASSUME Init
  PROVE  CInv
<1> USE DEF Init
<1>1. Counters /\ Tombstones
  BY DEF Counters, Tombstones, Letters
<1>2. Marked
  BY DEF Marked, Idle
<1>3. ASSUME NEW m \in Letter
      PROVE  Held(m) = {} /\ Pending(m) = {} /\ Worked(m) = {}
  BY DEF Held, Pending, Worked, Moving
<1>4. Counted
  BY <1>3, FS_EmptySet DEF Counted
<1> QED BY <1>1, <1>2, <1>4 DEF CInv

\* All these sets are finite.
LEMMA SumsFinite ==
  ASSUME Typed, NEW m
  PROVE  /\ IsFiniteSet(Held(m)) /\ Cardinality(Held(m)) \in Nat
         /\ IsFiniteSet(Pending(m)) /\ Cardinality(Pending(m)) \in Nat
         /\ IsFiniteSet(Copied(m)) /\ Cardinality(Copied(m)) \in Nat
         /\ IsFiniteSet(Worked(m)) /\ Cardinality(Worked(m)) \in Nat
<1>1. IsFiniteSet(box) /\ IsFiniteSet(User)
  BY DEF Typed
<1>2. IsFiniteSet(User \X box)
  BY <1>1, FS_Product
<1>3. Held(m) \in SUBSET box /\ Worked(m) \in SUBSET box
  BY DEF Held, Worked
<1>4. Pending(m) \in SUBSET (User \X box) /\ Copied(m) \in SUBSET (User \X box)
  BY DEF Pending, Copied, Moving
<1>5. /\ IsFiniteSet(Held(m)) /\ IsFiniteSet(Worked(m))
      /\ IsFiniteSet(Pending(m)) /\ IsFiniteSet(Copied(m))
  BY <1>1, <1>2, <1>3, <1>4, FS_Subset
<1> QED BY <1>5, FS_CardinalityType

LEMMA SumsFiniteNext ==
  ASSUME Typed', NEW m
  PROVE  /\ IsFiniteSet(Held(m)') /\ Cardinality(Held(m)') \in Nat
         /\ IsFiniteSet(Pending(m)') /\ Cardinality(Pending(m)') \in Nat
         /\ IsFiniteSet(Worked(m)') /\ Cardinality(Worked(m)') \in Nat
<1>1. (/\ IsFiniteSet(Held(m)) /\ Cardinality(Held(m)) \in Nat
       /\ IsFiniteSet(Pending(m)) /\ Cardinality(Pending(m)) \in Nat
       /\ IsFiniteSet(Copied(m)) /\ Cardinality(Copied(m)) \in Nat
       /\ IsFiniteSet(Worked(m)) /\ Cardinality(Worked(m)) \in Nat)'
  BY SumsFinite, PTL
<1> QED BY <1>1

\* What a shrinking set of copies, and a set of those worked on that loses no others
\* but X, have to do with each other.
LEMMA Shrinking ==
  ASSUME NEW H, IsFiniteSet(H), NEW H1 \in SUBSET H,
         NEW W, IsFiniteSet(W), NEW W1, IsFiniteSet(W1),
         NEW X, IsFiniteSet(X), W \ W1 \subseteq (H \ H1) \cup X
  PROVE  Cardinality(H1) + Cardinality(W) <= Cardinality(H) + Cardinality(W1) + Cardinality(X)
<1> DEFINE D == H \ H1
           DX == D \cup X
           U == W1 \cup DX
<1>1. IsFiniteSet(H1) /\ IsFiniteSet(D) /\ Cardinality(D) = Cardinality(H) - Cardinality(H1)
  <2>1. H \cap H1 = H1
    OBVIOUS
  <2>2. IsFiniteSet(H1)
    BY FS_Subset
  <2>3. IsFiniteSet(D) /\ Cardinality(D) = Cardinality(H) - Cardinality(H \cap H1)
    BY FS_Difference
  <2> HIDE DEF D
  <2> QED BY <2>1, <2>2, <2>3
<1>2. /\ IsFiniteSet(DX) /\ Cardinality(DX) = Cardinality(D) + Cardinality(X) - Cardinality(D \cap X)
      /\ Cardinality(D \cap X) \in Nat
  BY <1>1, FS_Union, FS_Intersection, FS_CardinalityType
<1>3. /\ IsFiniteSet(U) /\ Cardinality(U) = Cardinality(W1) + Cardinality(DX) - Cardinality(W1 \cap DX)
      /\ Cardinality(W1 \cap DX) \in Nat
  BY <1>2, FS_Union, FS_Intersection, FS_CardinalityType
<1>4. W \in SUBSET U
  OBVIOUS
<1>5. Cardinality(W) <= Cardinality(U)
  BY <1>3, <1>4, FS_Subset
<1>6. /\ Cardinality(H) \in Nat /\ Cardinality(H1) \in Nat /\ Cardinality(W) \in Nat
      /\ Cardinality(W1) \in Nat /\ Cardinality(X) \in Nat /\ Cardinality(D) \in Nat
      /\ Cardinality(DX) \in Nat /\ Cardinality(U) \in Nat
  BY <1>1, <1>2, <1>3, FS_CardinalityType
<1> HIDE DEF D, DX, U
<1> QED BY <1>1, <1>2, <1>3, <1>5, <1>6

\* One command's share of a letter, and its pairs.
LEMMA PairsOfOne ==
  ASSUME NEW u, NEW X, IsFiniteSet(X)
  PROVE  /\ IsFiniteSet({u} \X X) /\ Cardinality({u} \X X) = Cardinality(X)
         /\ Cardinality(X) \in Nat
<1>1. IsFiniteSet({u}) /\ Cardinality({u}) = 1
  BY FS_Singleton
<1>2. Cardinality(X) \in Nat
  BY FS_CardinalityType
<1>3. IsFiniteSet({u} \X X) /\ Cardinality({u} \X X) = 1 * Cardinality(X)
  BY <1>1, FS_Product
<1> QED BY <1>2, <1>3

Share(u, m) == {c \in Target(u) : c[3] = m}

LEMMA ShareFinite ==
  ASSUME Typed, NEW u, NEW m
  PROVE  IsFiniteSet(Share(u, m)) /\ Cardinality(Share(u, m)) \in Nat
<1>1. Share(u, m) \in SUBSET box /\ IsFiniteSet(box)
  BY DEF Typed, Share, Target, Among
<1> QED BY <1>1, FS_Subset, FS_CardinalityType

LEMMA LeftBehind ==
  ASSUME Typed, Counters, NEW copies \in SUBSET box, LeaveBehind(copies)
  PROVE  /\ extra' \in [Letter -> Nat]
         /\ \A m \in Letter : extra'[m] = extra[m] + Cardinality({c \in copies : c[3] = m})
<1>1. ASSUME NEW m PROVE Cardinality({c \in copies : c[3] = m}) \in Nat
  <2>1. {c \in copies : c[3] = m} \in SUBSET box /\ IsFiniteSet(box)
    BY DEF Typed
  <2> QED BY <2>1, FS_Subset, FS_CardinalityType
<1>2. extra \in [Letter -> Nat]
  BY DEF Counters
<1> DEFINE n(m) == Cardinality({c \in copies : c[3] = m})
<1>3. extra' = [m \in Letter |-> extra[m] + n(m)]
  BY DEF LeaveBehind
<1>4. \A m \in Letter : n(m) \in Nat
  BY <1>1
<1>5. \A m \in Letter : n(m) = Cardinality({c \in copies : c[3] = m})
  OBVIOUS
<1> HIDE DEF n
<1>6. extra' \in [Letter -> Nat] /\ \A m \in Letter : extra'[m] = extra[m] + n(m)
  BY <1>2, <1>3, <1>4
<1> QED BY <1>5, <1>6

\* The copies a move that fails leaves behind: its own, if it made any.
LEMMA OwnShare ==
  ASSUME NEW u \in User
  PROVE  /\ OwnUnfinished(u) \in SUBSET box
         /\ op[u].kind = "move" /\ op[u].pc \in {"store", "expunge"} =>
              \A m : {c \in OwnUnfinished(u) : c[3] = m} = Share(u, m)
         /\ ~ (op[u].kind = "move" /\ op[u].pc \in {"store", "expunge"}) =>
              OwnUnfinished(u) = {}
<1>1. \A c : c \in OwnUnfinished(u) <=>
               /\ op[u].kind = "move" /\ op[u].pc \in {"store", "expunge"}
               /\ c \in Target(u)
  <2>1. ASSUME NEW c \in OwnUnfinished(u)
        PROVE  /\ op[u].kind = "move" /\ op[u].pc \in {"store", "expunge"}
               /\ c \in Target(u)
    BY DEF OwnUnfinished, Unfinished, Target
  <2>2. ASSUME op[u].kind = "move", op[u].pc \in {"store", "expunge"},
               NEW c \in Target(u)
        PROVE  c \in OwnUnfinished(u)
    <3>1. <<u, c>> \in Unfinished
      BY <2>2 DEF Unfinished, Target, Among
    <3>2. <<u, c>>[1] = u /\ <<u, c>>[2] = c
      OBVIOUS
    <3> QED BY <3>1, <3>2 DEF OwnUnfinished
  <2> QED BY <2>1, <2>2
<1>2. Target(u) \subseteq box
  BY DEF Target, Among
<1> QED BY <1>1, <1>2 DEF Share

\* A step in which no copy of a letter appears keeps its count, if it accounts for
\* the copies X that are no longer worked on.
LEMMA StillCounted ==
  ASSUME Typed, Typed', Counters, Counted, NEW m \in Letter, extra'[m] \in Nat,
         Held(m)' \in SUBSET Held(m),
         NEW X, IsFiniteSet(X), Worked(m) \ Worked(m)' \subseteq (Held(m) \ Held(m)') \cup X,
         Cardinality(Pending(m)') + Cardinality(X) + extra[m]
           <= Cardinality(Pending(m)) + extra'[m]
  PROVE  Cardinality(Held(m)') + Cardinality(Pending(m)')
           <= 1 + extra'[m] + Cardinality(Worked(m)')
<1>1. /\ IsFiniteSet(Held(m)) /\ Cardinality(Held(m)) \in Nat
      /\ Cardinality(Pending(m)) \in Nat
      /\ IsFiniteSet(Worked(m)) /\ Cardinality(Worked(m)) \in Nat
  BY SumsFinite
<1>2. /\ IsFiniteSet(Held(m)') /\ Cardinality(Held(m)') \in Nat
      /\ Cardinality(Pending(m)') \in Nat
      /\ IsFiniteSet(Worked(m)') /\ Cardinality(Worked(m)') \in Nat
  BY SumsFiniteNext
<1>3. Cardinality(Held(m)') + Cardinality(Worked(m))
        <= Cardinality(Held(m)) + Cardinality(Worked(m)') + Cardinality(X)
  BY <1>1, <1>2, Shrinking
<1>4. Cardinality(Held(m)) + Cardinality(Pending(m)) <= 1 + extra[m] + Cardinality(Worked(m))
  BY DEF Counted
<1>5. Cardinality(X) \in Nat /\ extra[m] \in Nat
  BY FS_CardinalityType DEF Counters
<1> QED BY <1>1, <1>2, <1>3, <1>4, <1>5

\* One stage of the moves.
Before(u) == op[u].kind = "move" /\ op[u].pc \in {"connect", "copy"}
After(u) == op[u].kind = "move" /\ op[u].pc \in {"store", "expunge"}

\* Membership in the sets of moves, command by command.
Members ==
  /\ \A m, w : w \in Pending(m) <=>
       w \in User \X box /\ Before(w[1]) /\ w[2] \in Target(w[1]) /\ w[2][3] = m
  /\ \A m, w : w \in Copied(m) <=>
       w \in User \X box /\ After(w[1]) /\ w[2] \in Target(w[1]) /\ w[2][3] = m
  /\ \A m, c : c \in Worked(m) <=>
       /\ c \in box /\ c[3] = m
       /\ \E u \in User : c \in Target(u) /\ (Before(u) \/ After(u))
  /\ \A u, c : c \in Target(u) <=> c \in box /\ c[1] = op[u].from /\ c[2] \in op[u].uids

LEMMA MovingParts == Members
<1>1. \A m, w : w \in Pending(m) <=>
        w \in User \X box /\ Before(w[1]) /\ w[2] \in Target(w[1]) /\ w[2][3] = m
  BY DEF Pending, Moving, Before
<1>2. \A m, w : w \in Copied(m) <=>
        w \in User \X box /\ After(w[1]) /\ w[2] \in Target(w[1]) /\ w[2][3] = m
  BY DEF Copied, Moving, After
<1>3. ASSUME NEW m, NEW c
      PROVE  c \in Worked(m) <=>
               /\ c \in box /\ c[3] = m
               /\ \E u \in User : c \in Target(u) /\ (Before(u) \/ After(u))
  <2>1. ASSUME NEW u \in User, c \in box
        PROVE  <<u, c>> \in User \X box /\ <<u, c>>[1] = u /\ <<u, c>>[2] = c
    BY <2>1
  <2>2. ASSUME NEW u \in User, c \in box
        PROVE  <<u, c>> \in Pending(m) \cup Copied(m) <=>
                 (Before(u) \/ After(u)) /\ c \in Target(u) /\ c[3] = m
    BY <1>1, <1>2, <2>1, <2>2
  <2> QED BY <2>2 DEF Worked
<1>4. \A u, c : c \in Target(u) <=> c \in box /\ c[1] = op[u].from /\ c[2] \in op[u].uids
  BY DEF Target, Among
<1> QED BY <1>1, <1>2, <1>3, <1>4 DEF Members

\* A step that moves no command between these stages, and takes no copy away.
LEMMA SameSums ==
  ASSUME Typed, Typed', Counters, Counted, UNCHANGED <<box, extra>>,
         \A u \in User : /\ Before(u)' <=> Before(u)
                         /\ After(u)' <=> After(u)
                         /\ Before(u) \/ After(u) =>
                              op'[u].from = op[u].from /\ op'[u].uids = op[u].uids
  PROVE  Counted'
<1>1. \A u \in User : Before(u) \/ After(u) => \A c : c \in Target(u)' <=> c \in Target(u)
  BY DEF Target, Among
<1>0. Members /\ Members'
  BY MovingParts, PTL
<1>2. ASSUME NEW m \in Letter
      PROVE  Cardinality(Held(m)') + Cardinality(Pending(m)')
               <= 1 + extra'[m] + Cardinality(Worked(m)')
  <2>1. Held(m)' = Held(m)
    BY DEF Held
  <2>2. Pending(m)' = Pending(m)
    <3>1. \A w : w \in Pending(m)' <=> w \in Pending(m)
      BY <1>0, <1>1 DEF Members
    <3> QED BY <3>1 DEF Pending, Moving
  <2>3. Worked(m) \subseteq Worked(m)'
    BY <1>0, <1>1 DEF Members
  <2>4. extra[m] \in Nat /\ extra'[m] = extra[m]
    BY DEF Counters
  <2>5. Cardinality(Pending(m)) \in Nat
    BY SumsFinite
  <2>6. IsFiniteSet({}) /\ Cardinality({}) = 0
    BY FS_EmptySet
  <2>7. Cardinality(Pending(m)') + Cardinality({}) + extra[m]
          <= Cardinality(Pending(m)) + extra'[m]
    BY <2>2, <2>4, <2>5, <2>6
  <2>8. Worked(m) \ Worked(m)' \subseteq (Held(m) \ Held(m)') \cup {}
    BY <2>3
  <2>9. Held(m)' \in SUBSET Held(m) /\ extra'[m] \in Nat
    BY <2>1, <2>4
  <2> QED BY <2>6, <2>7, <2>8, <2>9, StillCounted
<1> QED BY <1>2 DEF Counted

\* A move that leaves the pending ones takes its pairs with it.
LEMMA LeavesPending ==
  ASSUME Typed, NEW u \in User, NEW m, Before(u),
         NEW P1 \in SUBSET Pending(m), \A w \in P1 : w[1] # u
  PROVE  Cardinality(P1) + Cardinality(Share(u, m)) <= Cardinality(Pending(m))
<1>0. Members
  BY MovingParts
<1>1. IsFiniteSet(Pending(m)) /\ Cardinality(Pending(m)) \in Nat
  BY SumsFinite
<1>2. IsFiniteSet(Share(u, m)) /\ Cardinality(Share(u, m)) \in Nat
  BY ShareFinite
<1> DEFINE Pairs == {u} \X Share(u, m)
<1>3. Pairs \in SUBSET Pending(m)
  <2>1. ASSUME NEW c \in Share(u, m) PROVE <<u, c>> \in Pending(m)
    <3>1. c \in box /\ c \in Target(u) /\ c[3] = m
      BY DEF Share, Target, Among
    <3>2. <<u, c>>[1] = u /\ <<u, c>>[2] = c /\ <<u, c>> \in User \X box
      BY <3>1
    <3> QED BY <3>1, <3>2, <1>0 DEF Members
  <2> QED BY <2>1
<1>4. P1 \in SUBSET (Pending(m) \ Pairs)
  OBVIOUS
<1>5. Cardinality(Pairs) = Cardinality(Share(u, m))
  BY <1>2, PairsOfOne
<1> HIDE DEF Pairs
<1>6. Pending(m) \cap Pairs = Pairs
  BY <1>3
<1>7. /\ IsFiniteSet(Pending(m) \ Pairs)
      /\ Cardinality(Pending(m) \ Pairs) = Cardinality(Pending(m)) - Cardinality(Pairs)
  BY <1>6, <1>1, FS_Difference
<1>8. Cardinality(P1) <= Cardinality(Pending(m) \ Pairs) /\ Cardinality(P1) \in Nat
  BY <1>4, <1>7, FS_Subset, FS_CardinalityType
<1> QED BY <1>1, <1>2, <1>5, <1>7, <1>8

\* A move that gives up: before its COPY it will add no copy, past it it leaves its
\* own behind.
LEMMA FailSums ==
  ASSUME Typed, Typed', Counters, Counted, NEW u \in User, UNCHANGED box,
         op'[u].pc = "failed", \A v \in User \ {u} : op'[v] = op[v],
         LeaveBehind(OwnUnfinished(u))
  PROVE  Counted'
<1>0. Members /\ Members'
  BY MovingParts, PTL
<1>1. /\ extra' \in [Letter -> Nat]
      /\ \A m \in Letter : extra'[m] = extra[m] + Cardinality({c \in OwnUnfinished(u) : c[3] = m})
  BY OwnShare, LeftBehind
<1>2. /\ ~ Before(u)' /\ ~ After(u)'
      /\ \A v \in User \ {u} : /\ Before(v)' <=> Before(v)
                               /\ After(v)' <=> After(v)
                               /\ \A c : c \in Target(v)' <=> c \in Target(v)
  BY DEF Before, After, Target, Among
<1>3. ASSUME NEW m \in Letter
      PROVE  Cardinality(Held(m)') + Cardinality(Pending(m)')
               <= 1 + extra'[m] + Cardinality(Worked(m)')
  <2>1. Held(m)' = Held(m) /\ extra'[m] \in Nat /\ extra[m] \in Nat
    BY <1>1 DEF Held, Counters
  <2>2. Pending(m)' \in SUBSET Pending(m)
    BY <1>0, <1>2 DEF Members
  <2>3. IsFiniteSet(Pending(m)) /\ Cardinality(Pending(m)) \in Nat
    BY SumsFinite
  <2>4. Cardinality(Pending(m)') <= Cardinality(Pending(m)) /\ Cardinality(Pending(m)') \in Nat
    BY <2>2, <2>3, FS_Subset, FS_CardinalityType
  <2>5. IsFiniteSet(Share(u, m)) /\ Cardinality(Share(u, m)) \in Nat
    BY ShareFinite
  <2>6. \A c : c \in Worked(m) /\ c \notin Worked(m)' => c \in Share(u, m) /\ (Before(u) \/ After(u))
    <3>1. ASSUME NEW c \in Worked(m), c \notin Worked(m)'
          PROVE  c \in Share(u, m) /\ (Before(u) \/ After(u))
      <4>1. PICK v \in User : c \in Target(v) /\ (Before(v) \/ After(v))
        BY <1>0 DEF Members
      <4>2. c \in box /\ c[3] = m
        BY <1>0 DEF Members
      <4>3. v = u
        BY <3>1, <4>1, <4>2, <1>0, <1>2 DEF Members
      <4> QED BY <4>1, <4>2, <4>3 DEF Share
    <3> QED BY <3>1
  <2>7. IsFiniteSet({}) /\ Cardinality({}) = 0
    BY FS_EmptySet
  <2>8. CASE After(u)
    <3>1. extra'[m] = extra[m] + Cardinality(Share(u, m))
      BY <2>8, <1>1, OwnShare DEF After
    <3>2. Cardinality(Pending(m)') + Cardinality(Share(u, m)) + extra[m]
            <= Cardinality(Pending(m)) + extra'[m]
      BY <3>1, <2>1, <2>3, <2>4, <2>5
    <3> QED BY <3>2, <2>1, <2>5, <2>6, StillCounted
  <2>9. CASE ~ After(u)
    <3>1. {c \in OwnUnfinished(u) : c[3] = m} = {}
      BY <2>9, OwnShare DEF After
    <3>2. extra'[m] = extra[m] + 0
      BY <3>1, <2>7, <1>1
    <3>3. CASE Before(u)
      <4>1. \A w \in Pending(m)' : w[1] # u
        BY <1>0, <1>2 DEF Members
      <4>2. Cardinality(Pending(m)') + Cardinality(Share(u, m)) <= Cardinality(Pending(m))
        BY <4>1, <2>2, <3>3, LeavesPending
      <4>7. Cardinality(Pending(m)') + Cardinality(Share(u, m)) + extra[m]
              <= Cardinality(Pending(m)) + extra'[m]
        BY <4>2, <3>2, <2>1, <2>3, <2>4, <2>5
      <4> QED BY <4>7, <2>1, <2>5, <2>6, StillCounted
    <3>4. CASE ~ Before(u)
      <4>1. Cardinality(Pending(m)') + Cardinality({}) + extra[m]
              <= Cardinality(Pending(m)) + extra'[m]
        BY <3>2, <2>1, <2>3, <2>4, <2>7
      <4>2. Worked(m) \ Worked(m)' \subseteq (Held(m) \ Held(m)') \cup {}
        BY <2>6, <2>9, <3>4
      <4>3. Held(m)' \in SUBSET Held(m)
        BY <2>1
      <4> QED BY <4>1, <4>2, <4>3, <2>1, <2>7, StillCounted
    <3> QED BY <3>3, <3>4
  <2> QED BY <2>8, <2>9
<1> QED BY <1>3 DEF Counted

\* Copies go, and with them all that the commands that finish were at work on.
LEMMA GoneSums ==
  ASSUME Typed, Typed', Counters, Counted, box' \in SUBSET box, UNCHANGED extra,
         \A v \in User : /\ Before(v)' => Before(v)
                         /\ Before(v)' \/ After(v)' =>
                              op'[v].from = op[v].from /\ op'[v].uids = op[v].uids
                         /\ Before(v) \/ After(v) =>
                              \/ Before(v)' \/ After(v)'
                              \/ \A c \in Target(v) : c \notin box'
  PROVE  Counted'
<1>0. Members /\ Members'
  BY MovingParts, PTL
<1>1. ASSUME NEW m \in Letter
      PROVE  Cardinality(Held(m)') + Cardinality(Pending(m)')
               <= 1 + extra'[m] + Cardinality(Worked(m)')
  <2>1. Held(m)' \in SUBSET Held(m)
    BY DEF Held
  <2>2. \A v \in User : Before(v)' \/ After(v)' =>
          \A c : c \in Target(v)' <=> c \in Target(v) /\ c \in box'
    BY DEF Target, Among
  <2>3. Pending(m)' \in SUBSET Pending(m)
    <3>1. ASSUME NEW w \in Pending(m)' PROVE w \in Pending(m)
      <4>1. w \in User \X box' /\ Before(w[1])' /\ w[2] \in Target(w[1])' /\ w[2][3] = m
        BY <1>0 DEF Members
      <4>2. w \in User \X box /\ w[1] \in User
        BY <4>1
      <4> QED BY <4>1, <4>2, <2>2, <1>0 DEF Members
    <3> QED BY <3>1
  <2>4. Worked(m) \ Worked(m)' \subseteq (Held(m) \ Held(m)') \cup {}
    <3>1. ASSUME NEW c \in Worked(m), c \in box' PROVE c \in Worked(m)'
      <4>1. PICK v \in User : c \in Target(v) /\ (Before(v) \/ After(v))
        BY <1>0 DEF Members
      <4>2. Before(v)' \/ After(v)'
        BY <4>1, <3>1
      <4>3. c \in Target(v)'
        BY <4>1, <4>2, <3>1, <2>2
      <4> QED BY <4>2, <4>3, <3>1, <1>0 DEF Members
    <3> QED BY <3>1, <1>0 DEF Members, Held
  <2>5. IsFiniteSet(Pending(m)) /\ Cardinality(Pending(m)) \in Nat
    BY SumsFinite
  <2>6. Cardinality(Pending(m)') <= Cardinality(Pending(m)) /\ Cardinality(Pending(m)') \in Nat
    BY <2>3, <2>5, FS_Subset, FS_CardinalityType
  <2>7. IsFiniteSet({}) /\ Cardinality({}) = 0
    BY FS_EmptySet
  <2>8. extra[m] \in Nat /\ extra'[m] = extra[m]
    BY DEF Counters
  <2>9. Cardinality(Pending(m)') + Cardinality({}) + extra[m]
          <= Cardinality(Pending(m)) + extra'[m]
    BY <2>5, <2>6, <2>7, <2>8
  <2>10. extra'[m] \in Nat
    BY <2>8
  <2> QED BY <2>1, <2>4, <2>7, <2>9, <2>10, StillCounted
<1> QED BY <1>1 DEF Counted

\* Each copy worked on is that of a move.
LEMMA WorkedBounded ==
  ASSUME Typed, NEW m
  PROVE  Cardinality(Worked(m)) <= Cardinality(Pending(m)) + Cardinality(Copied(m))
<1>1. Members
  BY MovingParts
<1>2. /\ IsFiniteSet(Pending(m)) /\ Cardinality(Pending(m)) \in Nat
      /\ IsFiniteSet(Copied(m)) /\ Cardinality(Copied(m)) \in Nat
      /\ IsFiniteSet(Worked(m)) /\ Cardinality(Worked(m)) \in Nat
  BY SumsFinite
<1> DEFINE Moves1 == Pending(m) \cup Copied(m)
           f == [w \in Moves1 |-> w[2]]
<1>3. /\ IsFiniteSet(Moves1)
      /\ Cardinality(Moves1) <= Cardinality(Pending(m)) + Cardinality(Copied(m))
      /\ Cardinality(Moves1) \in Nat
  <2>1. Cardinality(Pending(m) \cap Copied(m)) \in Nat
    BY <1>2, FS_Intersection, FS_CardinalityType
  <2>2. /\ IsFiniteSet(Moves1)
        /\ Cardinality(Moves1) = Cardinality(Pending(m)) + Cardinality(Copied(m))
                                   - Cardinality(Pending(m) \cap Copied(m))
    BY <1>2, FS_Union
  <2>3. Cardinality(Moves1) \in Nat
    BY <2>2, FS_CardinalityType
  <2> HIDE DEF Moves1
  <2> QED BY <2>1, <2>2, <2>3, <1>2
<1>4. f \in Surjection(Moves1, Worked(m))
  <2>1. ASSUME NEW w \in Moves1 PROVE w[2] \in Worked(m)
    <3>1. /\ w \in User \X box /\ (Before(w[1]) \/ After(w[1]))
          /\ w[2] \in Target(w[1]) /\ w[2][3] = m
      BY <1>1 DEF Members
    <3>2. w[1] \in User /\ w[2] \in box
      BY <3>1
    <3> QED BY <3>1, <3>2, <1>1 DEF Members
  <2>2. ASSUME NEW c \in Worked(m) PROVE \E w \in Moves1 : w[2] = c
    <3>1. PICK u \in User : <<u, c>> \in Moves1
      BY DEF Worked
    <3> QED BY <3>1
  <2> HIDE DEF Moves1
  <2>3. f \in [Moves1 -> Worked(m)]
    BY <2>1
  <2>4. \A c \in Worked(m) : \E w \in Moves1 : f[w] = c
    BY <2>2
  <2> QED BY <2>3, <2>4 DEF Surjection
<1> HIDE DEF f, Moves1
<1>5. Cardinality(Worked(m)) <= Cardinality(Moves1)
  BY <1>3, <1>4, FS_Surjection
<1> QED BY <1>2, <1>3, <1>5

\* A crash stops every move.
LEMMA CrashSums ==
  ASSUME Typed, Typed', Counters, Counted, Crash
  PROVE  Counted' /\ extra' \in [Letter -> Nat]
<1>0. Members /\ Members'
  BY MovingParts, PTL
<1>1. /\ extra' = [m \in Letter |-> extra[m] + Cardinality(Copied(m))]
      /\ box' = box
  <2>1. \A m : {w \in Unfinished : w[2][3] = m} = Copied(m)
    BY DEF Unfinished, Copied, Moving, Target
  <2> QED BY <2>1 DEF Crash, server
<1>2. \A m : Cardinality(Copied(m)) \in Nat
  BY SumsFinite
<1>3. /\ extra' \in [Letter -> Nat]
      /\ \A m \in Letter : extra'[m] = extra[m] + Cardinality(Copied(m)) /\ extra[m] \in Nat
  BY <1>1, <1>2 DEF Counters
<1>4. \A u \in User : ~ Before(u)'
  BY DEF Crash, Idle, Before
<1>5. ASSUME NEW m \in Letter
      PROVE  Cardinality(Held(m)') + Cardinality(Pending(m)')
               <= 1 + extra'[m] + Cardinality(Worked(m)')
  <2>1. Pending(m)' = {}
    <3>1. ASSUME NEW w \in Pending(m)' PROVE FALSE
      <4>1. w \in User \X box' /\ Before(w[1])'
        BY <1>0 DEF Members
      <4> QED BY <4>1, <1>4
    <3> QED BY <3>1
  <2>2. /\ IsFiniteSet(Pending(m)) /\ Cardinality(Pending(m)) \in Nat
        /\ IsFiniteSet(Copied(m)) /\ Cardinality(Copied(m)) \in Nat
        /\ IsFiniteSet(Worked(m)) /\ Cardinality(Worked(m)) \in Nat
    BY SumsFinite
  <2>5. Cardinality(Worked(m)) <= Cardinality(Pending(m)) + Cardinality(Copied(m))
    BY WorkedBounded
  <2>6. Cardinality({}) = 0 /\ Held(m)' \in SUBSET Held(m) /\ extra'[m] \in Nat
    BY <1>1, <1>3, FS_EmptySet DEF Held
  <2>7. Cardinality(Pending(m)') + Cardinality(Worked(m)) + extra[m]
          <= Cardinality(Pending(m)) + extra'[m]
    BY <2>1, <2>2, <2>5, <2>6, <1>3
  <2>8. Worked(m) \ Worked(m)' \subseteq (Held(m) \ Held(m)') \cup Worked(m)
    OBVIOUS
  <2> QED BY <2>2, <2>6, <2>7, <2>8, StillCounted
<1> QED BY <1>3, <1>5 DEF Counted

LEMMA DeliverSums ==
  ASSUME IInv, IInv', Counters, Counted, NEW m \in Letter, NEW f \in Folder, Deliver(m, f)
  PROVE  Counted'
<1>0. Members /\ Members' /\ Typed /\ Typed'
  BY MovingParts, PTL DEF IInv
<1>a. PICK new : new = <<f, uidnext[f], m>>
  OBVIOUS
<1>1. /\ box' = box \cup {new} /\ new[1] = f /\ new[2] = uidnext[f] /\ new[3] = m
      /\ UNCHANGED <<op, extra>> /\ m \notin arrived /\ uidnext[f] \in Int
  BY <1>a, <1>0 DEF Deliver, Typed
<1>2. \A u \in User : /\ Before(u)' <=> Before(u)
                      /\ After(u)' <=> After(u)
                      /\ Before(u) \/ After(u) => \A c : c \in Target(u)' <=> c \in Target(u)
  <2>1. ASSUME NEW u \in User, Before(u) \/ After(u)
        PROVE  ~ (op[u].from = f /\ uidnext[f] \in op[u].uids)
    <3>1. op[u].pc # "idle"
      BY <2>1 DEF Before, After
    <3>2. \A x \in op[u].uids : x < uidnext[op[u].from]
      BY <3>1 DEF IInv, OpsSound
    <3> QED BY <3>2, <1>1
  <2>2. \A u \in User : (Before(u)' <=> Before(u)) /\ (After(u)' <=> After(u))
    BY <1>1 DEF Before, After
  <2> QED BY <2>1, <2>2, <1>1, <1>0 DEF Members
<1>3. ASSUME NEW k \in Letter
      PROVE  Cardinality(Held(k)') + Cardinality(Pending(k)')
               <= 1 + extra'[k] + Cardinality(Worked(k)')
  <2>1. Pending(k)' \in SUBSET Pending(k)
    <3>1. ASSUME NEW w \in Pending(k)' PROVE w \in Pending(k)
      <4>1. w \in User \X box' /\ Before(w[1])' /\ w[2] \in Target(w[1])' /\ w[2][3] = k
        BY <1>0 DEF Members
      <4>2. w[1] \in User
        BY <4>1
      <4>3. Before(w[1]) /\ w[2] \in Target(w[1])
        BY <4>1, <4>2, <1>2
      <4>4. w[2] \in box
        BY <4>3, <1>0 DEF Members
      <4>5. w \in User \X box
        BY <4>1, <4>4
      <4> QED BY <4>1, <4>3, <4>5, <1>0 DEF Members
    <3> QED BY <3>1
  <2>2. extra[k] \in Nat /\ extra'[k] = extra[k]
    BY <1>1 DEF Counters
  <2>3. CASE k = m
    <3>1. Held(k) = {}
      BY <2>3, <1>1 DEF Held, Counters, Letters
    <3>2. Pending(k) = {}
      <4>1. ASSUME NEW w \in Pending(k) PROVE FALSE
        BY <3>1, <1>0 DEF Members, Held
      <4> QED BY <4>1
    <3>3. Held(k)' = {new} /\ Pending(k)' = {}
      BY <2>1, <2>3, <3>1, <3>2, <1>1 DEF Held
    <3>4. Cardinality(Held(k)') = 1 /\ Cardinality(Pending(k)') = 0
      BY <3>3, FS_Singleton, FS_EmptySet
    <3>5. Cardinality(Worked(k)') \in Nat
      BY <1>0, SumsFiniteNext
    <3> QED BY <3>4, <3>5, <2>2
  <2>4. CASE k # m
    <3>1. Held(k)' \in SUBSET Held(k)
      BY <2>4, <1>1 DEF Held
    <3>2. Worked(k) \ Worked(k)' \subseteq (Held(k) \ Held(k)') \cup {}
      BY <1>0, <1>1, <1>2 DEF Members
    <3>3. IsFiniteSet(Pending(k)) /\ Cardinality(Pending(k)) \in Nat
      BY <1>0, SumsFinite
    <3>4. Cardinality(Pending(k)') <= Cardinality(Pending(k)) /\ Cardinality(Pending(k)') \in Nat
      BY <2>1, <3>3, FS_Subset, FS_CardinalityType
    <3>5. IsFiniteSet({}) /\ Cardinality({}) = 0
      BY FS_EmptySet
    <3>6. Cardinality(Pending(k)') + Cardinality({}) + extra[k]
            <= Cardinality(Pending(k)) + extra'[k]
      BY <2>2, <3>3, <3>4, <3>5
    <3>7. extra'[k] \in Nat
      BY <2>2
    <3> QED BY <3>1, <3>2, <3>5, <3>6, <3>7, <1>0, StillCounted
  <2> QED BY <2>3, <2>4
<1> QED BY <1>3 DEF Counted

LEMMA CopySums ==
  ASSUME IInv, IInv', Counters, Counted, NEW u \in User, Copy(u)
  PROVE  Counted' /\ extra' \in [Letter -> Nat]
<1>0. Members /\ Members' /\ Typed /\ Typed'
  BY MovingParts, PTL DEF IInv
<1> DEFINE source == Among(box, op[u].from, op[u].uids)
           to == op[u].to
           low == uidnext[to]
<1>1. PICK new \in Numbering(source, low) : Add(source, to, new)
  BY DEF Copy
<1>2. /\ source = Target(u) /\ source \in SUBSET box
      /\ to = op[u].to /\ low = uidnext[to]
  BY DEF Target, Among
<1>3. op[u].pc = "copy" /\ op[u].kind = "move" /\ to \in Folder
  BY DEF Copy, IInv, OpsSound
<1>4. IsFiniteSet(source) /\ Cardinality(source) \in Nat /\ low \in Nat
  BY <1>2, <1>3, <1>0, FS_Subset, FS_CardinalityType DEF Typed
<1>5. Answered(u, "store", source)
  BY DEF Copy
<1> HIDE DEF source, to, low
<1>6. /\ box' = box \cup {<<to, new[c], c[3]>> : c \in source}
      /\ \A c \in source : new[c] \in Int /\ low <= new[c]
  <2>1. new \in [source -> low..low + Cardinality(source) - 1]
    BY <1>1 DEF Numbering
  <2>2. ASSUME NEW c \in source PROVE new[c] \in Int /\ low <= new[c]
    <3>1. new[c] \in low..low + Cardinality(source) - 1
      BY <2>1
    <3> QED BY <3>1, <1>4
  <2>3. box' = box \cup {<<to, new[c], c[3]>> : c \in source}
    BY <1>1, Zenon DEF Add
  <2> QED BY <2>2, <2>3
<1>7. /\ op' \in [User -> Op] /\ op'[u].pc \in {"store", "failed"}
      /\ op'[u].uids = op[u].uids /\ op'[u].from = op[u].from
      /\ op'[u].kind = op[u].kind
      /\ \A v \in User \ {u} : op'[v] = op[v]
  BY <1>3, <1>5, AnsweredStep DEF PC
<1>8. \A e \in box' : e \in box \/ \E c \in source : /\ e = <<to, new[c], c[3]>>
                                                    /\ e[1] = to /\ e[2] = new[c] /\ e[3] = c[3]
  <2>1. ASSUME NEW e \in box' PROVE e \in box \/ \E c \in source : e = <<to, new[c], c[3]>>
    BY <1>6, Zenon
  <2>2. ASSUME NEW e, NEW c \in source, e = <<to, new[c], c[3]>>
        PROVE  e[1] = to /\ e[2] = new[c] /\ e[3] = c[3]
    BY <2>2
  <2> QED BY <2>1, <2>2, Zenon
<1>9. /\ Before(u) /\ ~ After(u) /\ ~ Before(u)' /\ (After(u)' <=> op'[u].pc = "store")
      /\ \A v \in User \ {u} : (Before(v)' <=> Before(v)) /\ (After(v)' <=> After(v))
  BY <1>3, <1>7 DEF Before, After
<1>10. ASSUME NEW v \in User, Before(v) \/ After(v), NEW e
       PROVE  e \in Target(v)' <=> e \in Target(v)
  <2>1. op'[v].from = op[v].from /\ op'[v].uids = op[v].uids
    BY <1>7
  <2>2. box \subseteq box'
    BY <1>6
  <2>3. ASSUME NEW c \in source, e[1] = to, e[2] = new[c], op[v].from = to, e[2] \in op[v].uids
        PROVE  FALSE
    <3>1. op[v].pc # "idle"
      BY <1>10 DEF Before, After
    <3>2. new[c] < low
      BY <2>3, <3>1, <1>2 DEF IInv, OpsSound
    <3> QED BY <3>2, <1>4, <1>6
  <2> QED BY <2>1, <2>2, <2>3, <1>8, <1>0 DEF Members
<1>11. /\ extra' \in [Letter -> Nat]
       /\ \/ After(u)' /\ extra' = extra
          \/ \A m \in Letter : extra'[m] = extra[m] + Cardinality(Share(u, m))
  <2>1. CASE Goto(u, "store") /\ UNCHANGED <<counts, extra>>
    <3>1. op'[u].pc = "store" /\ extra' = extra
      BY <2>1, <1>0, GotoType DEF PC
    <3> QED BY <3>1, <1>9 DEF Counters
  <2>2. CASE LeaveBehind(source)
    <3>1. \A m : {c \in source : c[3] = m} = Share(u, m)
      BY <1>2 DEF Share
    <3> QED BY <2>2, <3>1, <1>0, <1>2, LeftBehind
  <2> QED BY <2>1, <2>2, <1>5 DEF Answered
<1>12. ASSUME NEW m \in Letter
       PROVE  Cardinality(Held(m)') + Cardinality(Pending(m)')
                <= 1 + extra'[m] + Cardinality(Worked(m)')
  <2>1. /\ IsFiniteSet(Held(m)) /\ Cardinality(Held(m)) \in Nat
        /\ IsFiniteSet(Pending(m)) /\ Cardinality(Pending(m)) \in Nat
        /\ IsFiniteSet(Worked(m)) /\ Cardinality(Worked(m)) \in Nat
    BY <1>0, SumsFinite
  <2>2. /\ IsFiniteSet(Held(m)') /\ Cardinality(Held(m)') \in Nat
        /\ Cardinality(Pending(m)') \in Nat
        /\ IsFiniteSet(Worked(m)') /\ Cardinality(Worked(m)') \in Nat
    BY <1>0, SumsFiniteNext
  <2>3. IsFiniteSet(Share(u, m)) /\ Cardinality(Share(u, m)) \in Nat
    BY <1>0, ShareFinite
  <2>4. Cardinality(Held(m)') <= Cardinality(Held(m)) + Cardinality(Share(u, m))
    <3> DEFINE new_m == {<<to, new[c], m>> : c \in Share(u, m)}
               f == [c \in Share(u, m) |-> <<to, new[c], m>>]
    <3>1. f \in Surjection(Share(u, m), new_m)
      BY DEF Surjection
    <3>2. \A e \in Held(m)' : e \in Held(m) \/ \E c \in Share(u, m) : e = <<to, new[c], m>>
      BY <1>2, <1>8 DEF Held, Share
    <3>3. Held(m)' \subseteq Held(m) \cup new_m
      BY <3>2
    <3> HIDE DEF new_m, f
    <3>4. /\ IsFiniteSet(new_m) /\ Cardinality(new_m) <= Cardinality(Share(u, m))
          /\ Cardinality(new_m) \in Nat
      BY <2>3, <3>1, FS_Surjection, FS_CardinalityType
    <3>5. /\ IsFiniteSet(Held(m) \cup new_m)
          /\ Cardinality(Held(m) \cup new_m)
               = Cardinality(Held(m)) + Cardinality(new_m) - Cardinality(Held(m) \cap new_m)
          /\ Cardinality(Held(m) \cap new_m) \in Nat
      BY <2>1, <3>4, FS_Union, FS_Intersection, FS_CardinalityType
    <3>6. Cardinality(Held(m)') <= Cardinality(Held(m) \cup new_m)
      BY <3>3, <3>5, FS_Subset
    <3> QED BY <3>4, <3>5, <3>6, <2>1, <2>2, <2>3
  <2>5. Cardinality(Pending(m)') + Cardinality(Share(u, m)) <= Cardinality(Pending(m))
    <3>1. ASSUME NEW w \in Pending(m)' PROVE w \in Pending(m) /\ w[1] # u
      <4>1. w \in User \X box' /\ Before(w[1])' /\ w[2] \in Target(w[1])' /\ w[2][3] = m
        BY <1>0 DEF Members
      <4>2. w[1] \in User /\ w[1] # u /\ Before(w[1])
        BY <4>1, <1>9
      <4>3. w[2] \in Target(w[1]) /\ w[2] \in box
        BY <4>1, <4>2, <1>10, <1>0 DEF Members
      <4>4. w \in User \X box
        BY <4>1, <4>3
      <4> QED BY <4>1, <4>2, <4>3, <4>4, <1>0 DEF Members
    <3>2. Pending(m)' \in SUBSET Pending(m) /\ \A w \in Pending(m)' : w[1] # u
      BY <3>1
    <3> QED BY <3>2, <1>0, <1>9, LeavesPending
  <2>6. ASSUME NEW c \in Worked(m), c \notin Worked(m)'
        PROVE  c \in Share(u, m) /\ ~ After(u)'
    <3>1. PICK v \in User : c \in Target(v) /\ (Before(v) \/ After(v))
      BY <1>0 DEF Members
    <3>2. c \in box' /\ c[3] = m /\ c \in Target(v)'
      BY <3>1, <1>0, <1>6, <1>10 DEF Members
    <3>3. ~ (Before(v)' \/ After(v)')
      BY <2>6, <3>2, <1>0 DEF Members
    <3>4. v = u
      BY <3>1, <3>3, <1>9
    <3> QED BY <3>1, <3>2, <3>3, <3>4 DEF Share
  <2>7. Cardinality(Held(m)) + Cardinality(Pending(m)) <= 1 + extra[m] + Cardinality(Worked(m))
    BY DEF Counted
  <2>8. extra[m] \in Nat
    BY DEF Counters
  <2>9. CASE After(u)' /\ extra' = extra
    <3>1. Worked(m) \in SUBSET Worked(m)'
      BY <2>6, <2>9
    <3>2. Cardinality(Worked(m)) <= Cardinality(Worked(m)')
      BY <3>1, <2>2, FS_Subset
    <3> QED BY <2>1, <2>2, <2>3, <2>4, <2>5, <2>7, <2>8, <2>9, <3>2
  <2>10. CASE extra'[m] = extra[m] + Cardinality(Share(u, m))
    <3>1. Worked(m) \ Worked(m)' \subseteq ({} \ {}) \cup Share(u, m)
      BY <2>6
    <3>2. IsFiniteSet({}) /\ Cardinality({}) = 0 /\ {} \in SUBSET {}
      BY FS_EmptySet
    <3>3. Cardinality({}) + Cardinality(Worked(m))
            <= Cardinality({}) + Cardinality(Worked(m)') + Cardinality(Share(u, m))
      BY <3>1, <3>2, <2>1, <2>2, <2>3, Shrinking
    <3> QED BY <2>1, <2>2, <2>3, <2>4, <2>5, <2>7, <2>8, <2>10, <3>2, <3>3
  <2> QED BY <2>9, <2>10, <1>11
<1> QED BY <1>11, <1>12 DEF Counted

LEMMA StartSums ==
  ASSUME IInv, IInv', Counters, Counted, NEW u \in User, NEW kind \in Kind, NEW f \in Folder,
         NEW xs \in SUBSET Uid, NEW to \in MaybeFolder, Start(u, kind, f, xs, to)
  PROVE  Counted' /\ extra' \in [Letter -> Nat]
<1>0. Members /\ Members' /\ Typed /\ Typed'
  BY MovingParts, PTL DEF IInv
<1> DEFINE again == {c \in Among(box, f, xs) :
                       \E v \in User : op[v].pc # "idle" /\ op[v].from = f /\ c[2] \in op[v].uids}
<1>1. /\ op[u].pc = "idle" /\ box' = box /\ again \in SUBSET box
      /\ LeaveBehind(again)
  BY DEF Start, server, Among
<1>2. /\ op'[u].pc = "connect" /\ op'[u].kind = kind /\ op'[u].from = f /\ op'[u].uids = xs
      /\ \A v \in User \ {u} : op'[v] = op[v]
  BY <1>0 DEF Start, Typed
<1>3. \A c : c \in again <=> /\ c \in box /\ c[1] = f /\ c[2] \in xs
                             /\ \E v \in User : /\ op[v].pc # "idle" /\ op[v].from = f
                                                /\ c[2] \in op[v].uids
  BY DEF Among
<1> HIDE DEF again
<1>4. /\ extra' \in [Letter -> Nat]
      /\ \A m \in Letter : extra'[m] = extra[m] + Cardinality({c \in again : c[3] = m})
  BY <1>0, <1>1, LeftBehind
<1>5. /\ ~ Before(u) /\ ~ After(u) /\ ~ After(u)' /\ (Before(u)' <=> kind = "move")
      /\ \A v \in User \ {u} : /\ Before(v)' <=> Before(v)
                               /\ After(v)' <=> After(v)
                               /\ \A c : c \in Target(v)' <=> c \in Target(v)
  BY <1>1, <1>2 DEF Before, After, Target, Among
<1>6. ASSUME NEW m \in Letter
      PROVE  Cardinality(Held(m)') + Cardinality(Pending(m)')
               <= 1 + extra'[m] + Cardinality(Worked(m)')
  <2> DEFINE A == {c \in again : c[3] = m}
             S == IF kind = "move" THEN {c \in box : c[1] = f /\ c[2] \in xs /\ c[3] = m} ELSE {}
             N == S \ A
             P == Pending(m) \cup ({u} \X S)
  <2>1. /\ IsFiniteSet(Held(m)) /\ Cardinality(Held(m)) \in Nat
        /\ IsFiniteSet(Pending(m)) /\ Cardinality(Pending(m)) \in Nat
        /\ IsFiniteSet(Worked(m)) /\ Cardinality(Worked(m)) \in Nat
    BY <1>0, SumsFinite
  <2>2. /\ IsFiniteSet(Held(m)') /\ Cardinality(Held(m)') \in Nat
        /\ Cardinality(Pending(m)') \in Nat
        /\ IsFiniteSet(Worked(m)') /\ Cardinality(Worked(m)') \in Nat
    BY <1>0, SumsFiniteNext
  <2>3. /\ IsFiniteSet(A) /\ Cardinality(A) \in Nat
        /\ IsFiniteSet(S) /\ Cardinality(S) \in Nat
        /\ extra'[m] = extra[m] + Cardinality(A) /\ extra[m] \in Nat
    <3>1. A \in SUBSET box /\ S \in SUBSET box /\ IsFiniteSet(box)
      BY <1>0, <1>1 DEF Typed
    <3>2. extra'[m] = extra[m] + Cardinality(A) /\ extra[m] \in Nat
      BY <1>4 DEF Counters
    <3> HIDE DEF A, S
    <3> QED BY <3>1, <3>2, FS_Subset, FS_CardinalityType
  <2>4. Held(m)' = Held(m)
    BY <1>1 DEF Held
  <2>5. Pending(m)' \in SUBSET P
    <3>1. ASSUME NEW w \in Pending(m)' PROVE w \in P
      <4>1. /\ w \in User \X box /\ Before(w[1])' /\ w[2] \in Target(w[1])' /\ w[2][3] = m
            /\ w[1] \in User /\ w[2] \in box
        BY <1>0, <1>1 DEF Members
      <4>2. CASE w[1] = u
        <5>1. w[2] \in S
          BY <4>1, <4>2, <1>0, <1>1, <1>2, <1>5 DEF Members
        <5>2. w = <<u, w[2]>>
          BY <4>1, <4>2
        <5> QED BY <5>1, <5>2
      <4>3. CASE w[1] # u
        BY <4>1, <4>3, <1>0, <1>5 DEF Members
      <4> QED BY <4>2, <4>3
    <3> QED BY <3>1
  <2>6. Worked(m) \cup N \in SUBSET Worked(m)'
    <3>1. ASSUME NEW c \in Worked(m) PROVE c \in Worked(m)'
      BY <1>0, <1>1, <1>5 DEF Members
    <3>2. ASSUME NEW c \in S PROVE c \in Worked(m)'
      <4>1. c \in box /\ c[3] = m /\ c \in Target(u)' /\ Before(u)'
        BY <1>0, <1>1, <1>2, <1>5 DEF Members
      <4> QED BY <4>1, <1>0, <1>1 DEF Members
    <3> QED BY <3>1, <3>2
  <2>7. Worked(m) \cap N = {}
    <3>1. ASSUME NEW c \in Worked(m), c \in S PROVE c \in A
      <4>1. PICK v \in User : c \in Target(v) /\ (Before(v) \/ After(v))
        BY <1>0 DEF Members
      <4>2. op[v].pc # "idle" /\ c[1] = op[v].from /\ c[2] \in op[v].uids
        BY <4>1, <1>0 DEF Members, Before, After
      <4>3. c \in box /\ c[1] = f /\ c[2] \in xs /\ c[3] = m
        BY <3>1
      <4> QED BY <4>2, <4>3, <1>3
    <3> QED BY <3>1
  <2> DEFINE U == Worked(m) \cup N
             SA == S \cap A
  <2>9. /\ Cardinality(N) = Cardinality(S) - Cardinality(SA) /\ IsFiniteSet(N)
        /\ Cardinality(SA) <= Cardinality(A) /\ Cardinality(SA) \in Nat
    <3> HIDE DEF A, S
    <3> QED BY <2>3, FS_Difference, FS_Intersection, FS_CardinalityType
  <2> HIDE DEF A, S, N, SA
  <2>10. Cardinality(P) <= Cardinality(Pending(m)) + Cardinality(S) /\ IsFiniteSet(P)
    <3> DEFINE Q == {u} \X S
    <3>1. IsFiniteSet(Q) /\ Cardinality(Q) = Cardinality(S)
      BY <2>3, PairsOfOne
    <3>2. P = Pending(m) \cup Q
      OBVIOUS
    <3> HIDE DEF P, Q
    <3>3. /\ IsFiniteSet(P)
          /\ Cardinality(P) = Cardinality(Pending(m)) + Cardinality(Q) - Cardinality(Pending(m) \cap Q)
          /\ Cardinality(Pending(m) \cap Q) \in Nat
      BY <2>1, <3>1, <3>2, FS_Union, FS_Intersection, FS_CardinalityType
    <3> QED BY <3>1, <3>3, <2>1, <2>3
  <2> HIDE DEF P
  <2>11. Cardinality(Pending(m)') <= Cardinality(Pending(m)) + Cardinality(S)
    <3>1. Cardinality(Pending(m)') <= Cardinality(P) /\ Cardinality(P) \in Nat
      BY <2>5, <2>10, FS_Subset, FS_CardinalityType
    <3> QED BY <3>1, <2>1, <2>2, <2>3, <2>10
  <2>12. Cardinality(Worked(m)) + Cardinality(N) <= Cardinality(Worked(m)')
    <3>1. Cardinality({}) = 0
      BY FS_EmptySet
    <3>2. Cardinality(U) = Cardinality(Worked(m)) + Cardinality(N) - Cardinality({})
      BY <2>1, <2>7, <2>9, FS_Union
    <3>3. Cardinality(U) <= Cardinality(Worked(m)')
      BY <2>2, <2>6, FS_Subset
    <3>4. Cardinality(N) \in Nat
      BY <2>9, FS_CardinalityType
    <3> HIDE DEF U
    <3> QED BY <3>1, <3>2, <3>3, <3>4, <2>1, <2>2
  <2>13. Cardinality(Held(m)) + Cardinality(Pending(m)) <= 1 + extra[m] + Cardinality(Worked(m))
    BY DEF Counted
  <2> QED BY <2>1, <2>2, <2>3, <2>4, <2>9, <2>11, <2>12, <2>13
<1> QED BY <1>4, <1>6 DEF Counted

\* Copies that appear out of reach of the running commands, and marks that last.
LEMMA MarkedKept ==
  ASSUME Marked,
         \A u \in User : op'[u].kind = "move" /\ op'[u].pc = "expunge" =>
           /\ op[u].kind = "move" /\ op[u].pc = "expunge"
           /\ op'[u].from = op[u].from /\ op'[u].uids = op[u].uids,
         \A c \in box' : \/ c \in box /\ (<<c[1], c[2]>> \in flagged => <<c[1], c[2]>> \in flagged')
                         \/ \A u \in User : op[u].pc # "idle" =>
                              ~ (c[1] = op[u].from /\ c[2] \in op[u].uids)
  PROVE  Marked'
BY DEF Marked, Target, Among

LEMMA ProgramSums ==
  ASSUME IInv, IInv', CInv, NEW u \in User,
         Connect(u) \/ Probe(u) \/ Break(u) \/ Restore(u) \/ Clean(u)
  PROVE  CInv'
<1>0. Typed /\ Typed' /\ Counters /\ Counted /\ Marked /\ Tombstones
  BY DEF IInv, CInv
<1>1. CASE Connect(u)
  <2>1. op[u].kind \in Kind /\ op[u].pc = "connect"
    BY <1>0, <1>1 DEF Typed, Op, Connect
  <2>2. /\ FirstOf[op[u].kind] \in PC
        /\ op[u].kind = "move" => FirstOf[op[u].kind] = "copy"
        /\ FirstOf[op[u].kind] # "expunge"
    BY <2>1 DEF FirstOf, Kind, PC
  <2>3. /\ op'[u].pc = FirstOf[op[u].kind]
        /\ op'[u].uids = op[u].uids /\ op'[u].from = op[u].from /\ op'[u].kind = op[u].kind
        /\ \A v \in User \ {u} : op'[v] = op[v]
    BY <1>0, <1>1, <2>2, GotoType DEF Connect
  <2>4. \A v \in User : Before(v)' <=> Before(v)
    BY <2>1, <2>2, <2>3 DEF Before
  <2>5. \A v \in User : After(v)' <=> After(v)
    BY <2>1, <2>2, <2>3 DEF After
  <2>6. UNCHANGED <<box, flagged, rows, hidden, ops, fails, arrived, wanted, others, extra>>
    BY <1>1 DEF Connect, server, cache, counts, history
  <2>7. Counted'
    BY <1>0, <2>3, <2>4, <2>5, <2>6, SameSums
  <2>8. Marked'
    BY <1>0, <2>2, <2>3, <2>6, MarkedKept
  <2>9. Counters' /\ Tombstones'
    BY <1>0, <2>6 DEF Counters, Tombstones, Letters
  <2> QED BY <2>7, <2>8, <2>9 DEF CInv
<1>2. CASE Probe(u)
  <2>1. op[u].kind = "destroy"
    BY <1>2 DEF Probe, IInv, OpsSound
  <2> DEFINE pc == IF Among(box, op[u].from, op[u].uids) # {} THEN "store" ELSE "clean"
  <2>2. Goto(u, pc) /\ pc \in PC /\ pc # "expunge"
    BY <1>2 DEF Probe, PC
  <2> HIDE DEF pc
  <2>3. /\ op'[u].pc = pc
        /\ op'[u].uids = op[u].uids /\ op'[u].from = op[u].from /\ op'[u].kind = op[u].kind
        /\ \A v \in User \ {u} : op'[v] = op[v]
    BY <1>0, <2>2, GotoType
  <2>4. \A v \in User : (Before(v)' <=> Before(v)) /\ (After(v)' <=> After(v))
    BY <2>1, <2>3 DEF Before, After
  <2>6. UNCHANGED <<box, flagged, rows, hidden, ops, fails, arrived, wanted, others, extra>>
    BY <1>2 DEF Probe, server, cache, counts, history
  <2>7. Counted'
    BY <1>0, <2>3, <2>4, <2>6, SameSums
  <2>8. Marked'
    BY <1>0, <2>2, <2>3, <2>6, MarkedKept
  <2>9. Counters' /\ Tombstones'
    BY <1>0, <2>6 DEF Counters, Tombstones, Letters
  <2> QED BY <2>7, <2>8, <2>9 DEF CInv
<1>3. CASE Break(u)
  <2>1. /\ op'[u].pc = "failed" /\ op'[u].kind = op[u].kind
        /\ \A v \in User \ {u} : op'[v] = op[v]
    BY <1>0, <1>3, GotoType DEF Break, PC
  <2>2. /\ UNCHANGED <<box, flagged, rows, hidden, ops, arrived, wanted, others>>
        /\ LeaveBehind(OwnUnfinished(u)) /\ fails < MaxFails /\ fails' = fails + 1
    BY <1>3 DEF Break, Spend, server, cache
  <2>3. Counted'
    BY <1>0, <2>1, <2>2, FailSums
  <2>4. Marked'
    BY <1>0, <2>1, <2>2, MarkedKept
  <2>5. extra' \in [Letter -> Nat]
    BY <1>0, <2>2, OwnShare, LeftBehind
  <2>6. Counters' /\ Tombstones'
    BY <1>0, <2>2, <2>5 DEF Counters, Tombstones, Letters
  <2> QED BY <2>3, <2>4, <2>6 DEF CInv
<1>4. CASE Restore(u) \/ Clean(u)
  <2>1. /\ op[u].pc \in {"failed", "clean"} /\ op' = [op EXCEPT ![u] = Idle]
        /\ UNCHANGED <<box, flagged, ops, fails, arrived, wanted, others, extra>>
    BY <1>4 DEF Restore, Clean, server, counts, history
  <2>2. op'[u].pc = "idle" /\ \A v \in User \ {u} : op'[v] = op[v]
    BY <1>0, <2>1 DEF Typed, Idle
  <2>3. \A v \in User : (Before(v)' <=> Before(v)) /\ (After(v)' <=> After(v))
    BY <2>1, <2>2 DEF Before, After
  <2>4. Before(u)' \/ After(u)' <=> FALSE
    BY <2>2 DEF Before, After
  <2>5. Counted'
    BY <1>0, <2>1, <2>2, <2>3, <2>4, SameSums
  <2>6. Marked'
    BY <1>0, <2>1, <2>2, MarkedKept
  <2>7. Counters'
    BY <1>0, <2>1 DEF Counters, Letters
  <2>8. CASE Restore(u)
    <3>1. rows' = rows /\ hidden' \subseteq hidden
      BY <2>8 DEF Restore
    <3> QED BY <1>0, <2>5, <2>6, <2>7, <3>1 DEF CInv, Tombstones
  <2>9. CASE Clean(u)
    <3>1. PICK stale \in SUBSET rows :
            rows' = rows \ stale /\ hidden' = hidden \ {<<c[1], c[2]>> : c \in stale}
      BY <2>9 DEF Clean, InFolder, Among
    <3>2. Tombstones'
      BY <1>0, <3>1 DEF Tombstones
    <3> QED BY <2>5, <2>6, <2>7, <3>2 DEF CInv
  <2> QED BY <1>4, <2>8, <2>9
<1> QED BY <1>1, <1>2, <1>3, <1>4

LEMMA ServerSums ==
  ASSUME IInv, IInv', CInv,
         \/ \E f \in Folder : Sync(f) \/ \E m \in Letter : Deliver(m, f)
         \/ \E c \in box : OtherFlags(c) \/ OtherExpunges(c)
  PROVE  CInv'
<1>0. Typed /\ Typed' /\ Counters /\ Counted /\ Marked /\ Tombstones
  BY DEF IInv, CInv
<1>1. ASSUME NEW f \in Folder, NEW m \in Letter, Deliver(m, f) PROVE CInv'
  <2>1. Counted'
    BY <1>0, <1>1, DeliverSums
  <2>2. PICK new : new = <<f, uidnext[f], m>>
    OBVIOUS
  <2>3. /\ box' = box \cup {new} /\ new[1] = f /\ new[2] = uidnext[f] /\ new[3] = m
        /\ arrived' = arrived \cup {m} /\ uidnext[f] \in Int
        /\ UNCHANGED <<flagged, rows, hidden, op, ops, fails, wanted, others, extra>>
    BY <2>2, <1>0, <1>1 DEF Deliver, Typed, cache, counts
  <2>4. \A u \in User : op[u].pc # "idle" => ~ (f = op[u].from /\ uidnext[f] \in op[u].uids)
    BY <2>3 DEF IInv, OpsSound
  <2>5. Marked'
    BY <1>0, <2>3, <2>4, MarkedKept
  <2>6. Counters' /\ Tombstones'
    BY <1>0, <2>3 DEF Counters, Tombstones, Letters
  <2> QED BY <2>1, <2>5, <2>6 DEF CInv
<1>2. ASSUME NEW f \in Folder, Sync(f) PROVE CInv'
  <2>1. UNCHANGED <<box, flagged, op, ops, fails, arrived, wanted, others, extra>>
    BY <1>2 DEF Sync, server, counts, history
  <2>2. Counted'
    BY <1>0, <2>1, SameSums DEF Before, After
  <2>3. Marked'
    BY <1>0, <2>1, MarkedKept
  <2>4. Counters'
    BY <1>0, <2>1 DEF Counters, Letters
  <2>5. Tombstones'
    <3>1. ASSUME NEW p \in hidden' PROVE \E c \in rows' : p = <<c[1], c[2]>>
      <4>1. p \in hidden
        BY <1>2 DEF Sync
      <4>2. PICK r \in rows : p = <<r[1], r[2]>>
        BY <4>1, <1>0 DEF Tombstones
      <4>3. p[1] = r[1] /\ p[2] = r[2]
        BY <4>2
      <4>4. CASE r[1] # f
        BY <4>2, <4>4, <1>2 DEF Sync, InFolder
      <4>5. CASE r[1] = f
        <5>1. PICK d \in InFolder(box, f) : p[2] = d[2]
          BY <4>3, <4>5, <1>2 DEF Sync
        <5>2. d[1] = f /\ d \in rows'
          BY <5>1, <1>2 DEF Sync, InFolder
        <5> QED BY <4>2, <4>3, <4>5, <5>1, <5>2
      <4> QED BY <4>4, <4>5
    <3> QED BY <3>1 DEF Tombstones
  <2> QED BY <2>2, <2>3, <2>4, <2>5 DEF CInv
<1>3. ASSUME NEW c \in box, OtherFlags(c) \/ OtherExpunges(c) PROVE CInv'
  <2>1. /\ box' \in SUBSET box /\ others' = others \cup {c[3]} /\ c[3] \in Letter
        /\ fails < MaxFails /\ fails' = fails + 1
        /\ UNCHANGED <<rows, hidden, op, ops, arrived, wanted, extra>>
    BY <1>0, <1>3, CopyParts DEF OtherFlags, OtherExpunges, Spend, Typed, cache
  <2>2. \A d \in box' : <<d[1], d[2]>> \in flagged => <<d[1], d[2]>> \in flagged'
    <3>1. CASE OtherFlags(c)
      BY <3>1 DEF OtherFlags
    <3>2. CASE OtherExpunges(c)
      <4>1. \A d \in box' : <<d[1], d[2]>> # <<c[1], c[2]>>
        BY <3>2 DEF OtherExpunges, IInv, UidsUnique
      <4> QED BY <3>2, <4>1 DEF OtherExpunges
    <3> QED BY <1>3, <3>1, <3>2
  <2>3. Counted'
    BY <1>0, <2>1, GoneSums DEF Before, After
  <2>4. Marked'
    BY <1>0, <2>1, <2>2, MarkedKept
  <2>5. Counters' /\ Tombstones'
    BY <1>0, <2>1 DEF Counters, Tombstones, Letters
  <2> QED BY <2>3, <2>4, <2>5 DEF CInv
<1> QED BY <1>1, <1>2, <1>3

LEMMA StartCInv ==
  ASSUME IInv, IInv', CInv, NEW u \in User, NEW kind \in Kind, NEW f \in Folder,
         NEW xs \in SUBSET Uid, NEW to \in MaybeFolder, Start(u, kind, f, xs, to)
  PROVE  CInv'
<1>0. Typed /\ Typed' /\ Counters /\ Counted /\ Marked /\ Tombstones
  BY DEF IInv, CInv
<1>1. Counted' /\ extra' \in [Letter -> Nat]
  BY <1>0, StartSums
<1>2. /\ ops < MaxOps /\ ops' = ops + 1 /\ \A x \in xs : Offered(f, x)
      /\ hidden' \subseteq hidden \cup Places(f, xs)
      /\ wanted' \subseteq wanted \cup Letters(Among(rows, f, xs))
      /\ UNCHANGED <<box, flagged, rows, fails, arrived, others>>
  BY DEF Start, server
<1>3. Marked'
  <2>1. op'[u].pc = "connect" /\ \A v \in User \ {u} : op'[v] = op[v]
    BY <1>0 DEF Start, Typed
  <2> QED BY <1>0, <1>2, <2>1, MarkedKept
<1>4. Counters'
  <2>1. \A r \in rows : r[3] \in Letter
    BY <1>0, CopyParts DEF Typed
  <2>2. wanted' \in SUBSET Letter
    BY <1>0, <1>2, <2>1 DEF Counters, Letters, Among
  <2> QED BY <1>0, <1>1, <1>2, <2>2 DEF Counters, Letters
<1>5. Tombstones'
  <2>1. ASSUME NEW p \in hidden' PROVE \E c \in rows : p = <<c[1], c[2]>>
    <3>1. CASE p \in hidden
      BY <3>1, <1>0 DEF Tombstones
    <3>2. CASE p \notin hidden
      <4>1. PICK x \in xs : p = <<f, x>>
        BY <3>2, <1>2 DEF Places
      <4>2. PICK r \in rows : r[1] = f /\ r[2] = x
        BY <1>2 DEF Offered
      <4> QED BY <4>1, <4>2
    <3> QED BY <3>1, <3>2
  <2> QED BY <1>2, <2>1 DEF Tombstones
<1> QED BY <1>1, <1>3, <1>4, <1>5 DEF CInv

LEMMA UserSums ==
  ASSUME IInv, IInv', CInv, NEW u \in User, NEW f \in Folder,
         \/ \E x \in Uid : DeleteMessage(u, f, x)
         \/ \E x \in Uid, g \in Folder : MoveMessage(u, f, x, g)
         \/ \E xs \in SUBSET Uid, g \in Folder : MoveMessages(u, f, xs, g)
         \/ \E x \in Uid : ArchiveMessage(u, f, x)
         \/ \E xs \in SUBSET Uid : ArchiveMessages(u, f, xs)
         \/ ClearFolder(u, f)
  PROVE  CInv'
<1> USE DEF Kind, MaybeFolder
<1>1. ASSUME NEW x \in Uid, DeleteMessage(u, f, x) PROVE CInv'
  BY <1>1, StartCInv DEF DeleteMessage
<1>2. ASSUME NEW x \in Uid, NEW g \in Folder, MoveMessage(u, f, x, g) PROVE CInv'
  BY <1>2, StartCInv DEF MoveMessage
<1>3. ASSUME NEW xs \in SUBSET Uid, NEW g \in Folder, MoveMessages(u, f, xs, g) PROVE CInv'
  BY <1>3, StartCInv DEF MoveMessages
<1>4. ASSUME NEW xs \in SUBSET Uid, ArchiveMessages(u, f, xs) PROVE CInv'
  BY <1>4, StartCInv DEF ArchiveMessages
<1>5. ASSUME NEW x \in Uid, ArchiveMessage(u, f, x) PROVE CInv'
  BY <1>5, StartCInv DEF ArchiveMessage
<1>6. CASE ClearFolder(u, f)
  BY <1>6, StartCInv DEF ClearFolder
<1> QED BY <1>1, <1>2, <1>3, <1>4, <1>5, <1>6

\* An answer changes no count but that of the failures and of what they leave behind.
LEMMA AnsweredCounts ==
  ASSUME Counters, NEW u \in User, NEW pc, NEW copied, Answered(u, pc, copied)
  PROVE  ops' \in 0..MaxOps /\ fails' \in 0..MaxFails
BY DEF Answered, Spend, counts, Counters

LEMMA CopyCInv ==
  ASSUME IInv, IInv', CInv, NEW u \in User, Copy(u)
  PROVE  CInv'
<1>0. Typed /\ Typed' /\ Counters /\ Counted /\ Marked /\ Tombstones
  BY DEF IInv, CInv
<1>1. Counted' /\ extra' \in [Letter -> Nat]
  BY <1>0, CopySums
<1> DEFINE source == Among(box, op[u].from, op[u].uids)
           to == op[u].to
           low == uidnext[to]
<1>2. PICK new \in Numbering(source, low) : Add(source, to, new)
  BY DEF Copy
<1>3. /\ source \in SUBSET box /\ IsFiniteSet(source) /\ Cardinality(source) \in Nat
      /\ low = uidnext[op[u].to] /\ to = op[u].to
  BY <1>0, FS_Subset, FS_CardinalityType DEF Typed, Among
<1>4. op[u].pc = "copy" /\ to \in Folder /\ low \in Nat
  BY <1>0 DEF Copy, IInv, OpsSound, Typed
<1>5. Answered(u, "store", source) /\ UNCHANGED <<rows, hidden, arrived, wanted, others>>
  BY DEF Copy, cache
<1> HIDE DEF source, to, low
<1>6. /\ box' = box \cup {<<to, new[c], c[3]>> : c \in source}
      /\ flagged \subseteq flagged'
      /\ \A c \in source : new[c] \in Int /\ low <= new[c]
  <2>1. new \in [source -> low..low + Cardinality(source) - 1]
    BY <1>2 DEF Numbering
  <2>2. ASSUME NEW c \in source PROVE new[c] \in Int /\ low <= new[c]
    <3>1. new[c] \in low..low + Cardinality(source) - 1
      BY <2>1
    <3> QED BY <3>1, <1>3, <1>4
  <2>3. box' = box \cup {<<to, new[c], c[3]>> : c \in source}
    BY <1>2, Zenon DEF Add
  <2>4. flagged \subseteq flagged'
    BY <1>2 DEF Add
  <2> QED BY <2>2, <2>3, <2>4
<1>7. \A e \in box' : e \in box \/ \E c \in source : /\ e = <<to, new[c], c[3]>>
                                                    /\ e[1] = to /\ e[2] = new[c] /\ e[3] = c[3]
  <2>1. ASSUME NEW e \in box' PROVE e \in box \/ \E c \in source : e = <<to, new[c], c[3]>>
    BY <1>6, Zenon
  <2>2. ASSUME NEW e, NEW c \in source, e = <<to, new[c], c[3]>>
        PROVE  e[1] = to /\ e[2] = new[c] /\ e[3] = c[3]
    BY <2>2
  <2> QED BY <2>1, <2>2, Zenon
<1>8. ASSUME NEW v \in User, op[v].pc # "idle", op[v].from = to, NEW c \in source
      PROVE  new[c] \notin op[v].uids
  <2>1. ASSUME new[c] \in op[v].uids PROVE FALSE
    <3>1. new[c] < low
      BY <1>8, <2>1, <1>3 DEF IInv, OpsSound
    <3> QED BY <3>1, <1>4, <1>6
  <2> QED BY <2>1
<1>9. Marked'
  <2>1. op'[u].pc # "expunge" /\ \A v \in User \ {u} : op'[v] = op[v]
    BY <1>4, <1>5, AnsweredStep DEF PC
  <2>2. \A c \in box' : \/ c \in box /\ (<<c[1], c[2]>> \in flagged => <<c[1], c[2]>> \in flagged')
                        \/ \A v \in User : op[v].pc # "idle" =>
                             ~ (c[1] = op[v].from /\ c[2] \in op[v].uids)
    BY <1>6, <1>7, <1>8
  <2> QED BY <1>0, <2>1, <2>2, MarkedKept
<1>10. Counters'
  <2>1. Letters(box') \in SUBSET arrived
    BY <1>0, <1>3, <1>7 DEF Counters, Letters
  <2> QED BY <1>0, <1>1, <1>5, <2>1, AnsweredCounts DEF Counters, Letters
<1>11. Tombstones'
  BY <1>0, <1>5 DEF Tombstones
<1> QED BY <1>1, <1>9, <1>10, <1>11 DEF CInv

LEMMA StoreSums ==
  ASSUME IInv, IInv', CInv, NEW u \in User, Store(u)
  PROVE  CInv'
<1>0. Typed /\ Typed' /\ Counters /\ Counted /\ Marked /\ Tombstones
  BY DEF IInv, CInv
<1> DEFINE target == IF op[u].kind = "clear" THEN InFolder(box, op[u].from)
                     ELSE Among(box, op[u].from, op[u].uids)
<1>1. /\ target \in SUBSET box /\ (op[u].kind = "move" => target = Target(u))
      /\ flagged' = flagged \cup {<<c[1], c[2]>> : c \in target}
      /\ wanted' \subseteq wanted \cup Letters(target)
      /\ op[u].pc = "store" /\ Answered(u, "expunge", OwnUnfinished(u))
      /\ UNCHANGED <<box, rows, hidden, arrived, others>>
  BY DEF Store, InFolder, Among, Target, cache
<1> HIDE DEF target
<1>2. /\ op'[u].pc \in {"expunge", "failed"}
      /\ op'[u].uids = op[u].uids /\ op'[u].from = op[u].from /\ op'[u].kind = op[u].kind
      /\ \A v \in User \ {u} : op'[v] = op[v]
  BY <1>1, AnsweredStep DEF PC
<1>3. Counted' /\ extra' \in [Letter -> Nat]
  <2>1. CASE Goto(u, "expunge") /\ UNCHANGED <<counts, extra>>
    <3>1. op'[u].pc = "expunge"
      BY <2>1, <1>0, GotoType DEF PC
    <3>2. \A v \in User : (Before(v)' <=> Before(v)) /\ (After(v)' <=> After(v))
      BY <3>1, <1>1, <1>2 DEF Before, After
    <3>3. Counted'
      BY <2>1, <3>2, <1>0, <1>1, <1>2, SameSums
    <3> QED BY <2>1, <3>3, <1>0 DEF Counters
  <2>2. CASE Goto(u, "failed") /\ LeaveBehind(OwnUnfinished(u))
    <3>1. op'[u].pc = "failed"
      BY <2>2, <1>0, GotoType DEF PC
    <3> QED BY <2>2, <3>1, <1>0, <1>1, <1>2, FailSums, OwnShare, LeftBehind
  <2> QED BY <2>1, <2>2, <1>1 DEF Answered
<1>4. Marked'
  <2>1. ASSUME NEW v \in User, op'[v].kind = "move", op'[v].pc = "expunge",
               NEW c \in Target(v)'
        PROVE  <<c[1], c[2]>> \in flagged'
    <3>1. c \in Target(v)
      BY <1>1, <1>2 DEF Target, Among
    <3>2. CASE v = u
      BY <3>1, <3>2, <2>1, <1>1, <1>2
    <3>3. CASE v # u
      BY <3>1, <3>3, <2>1, <1>0, <1>1, <1>2 DEF Marked
    <3> QED BY <3>2, <3>3
  <2> QED BY <2>1 DEF Marked
<1>5. Counters'
  <2>1. wanted' \in SUBSET Letter
    BY <1>0, <1>1 DEF Counters, Letters
  <2> QED BY <1>0, <1>1, <1>3, <2>1, AnsweredCounts DEF Counters, Letters
<1>6. Tombstones'
  BY <1>0, <1>1 DEF Tombstones
<1> QED BY <1>3, <1>4, <1>5, <1>6 DEF CInv

LEMMA ExpungeSums ==
  ASSUME IInv, IInv', CInv, NEW u \in User, Expunge(u)
  PROVE  CInv'
<1>0. Typed /\ Typed' /\ Counters /\ Counted /\ Marked /\ Tombstones
  BY DEF IInv, CInv
<1> DEFINE f == op[u].from
           doomed == {c \in InFolder(box, f) : <<f, c[2]>> \in flagged}
           gone == IF op[u].kind = "destroy" /\ ~ Hazard("plain")
                   THEN Among(doomed, f, op[u].uids) ELSE doomed
<1>1. /\ f = op[u].from /\ gone \in SUBSET box /\ \A c \in gone : c[1] = f
      /\ \A c \in box : op[u].kind = "move" /\ c[1] = f /\ <<f, c[2]>> \in flagged => c \in gone
      /\ op[u].pc = "expunge" /\ box' = box \ gone
      /\ flagged' = flagged \ {<<f, c[2]>> : c \in gone}
      /\ (Goto(u, "failed") /\ UNCHANGED <<counts, extra>>) \/ Answered(u, "clean", {})
      /\ UNCHANGED <<rows, hidden, arrived, wanted, others>>
  BY DEF Expunge, InFolder, Among, cache
<1> HIDE DEF f, doomed, gone
<1>2. /\ op'[u].pc \in {"clean", "failed"}
      /\ \A v \in User \ {u} : op'[v] = op[v]
  <2>1. "clean" \in PC /\ "failed" \in PC
    BY DEF PC
  <2> QED BY <1>0, <1>1, <2>1, AnsweredStep, GotoType
<1>3. extra' = extra /\ ops' \in 0..MaxOps /\ fails' \in 0..MaxFails
  <2>1. CASE UNCHANGED <<counts, extra>>
    BY <2>1, <1>0 DEF counts, Counters
  <2>2. CASE LeaveBehind({}) /\ Answered(u, "clean", {})
    <3>1. extra \in [Letter -> Nat] /\ extra' \in [Letter -> Nat]
      BY <2>2, <1>0, LeftBehind DEF Counters
    <3>2. ASSUME NEW m \in Letter PROVE extra'[m] = extra[m]
      <4>1. extra'[m] = extra[m] + Cardinality({c \in {} : c[3] = m})
        BY <2>2, <1>0, LeftBehind
      <4>2. {c \in {} : c[3] = m} = {}
        OBVIOUS
      <4>3. extra'[m] = extra[m] + 0
        BY <4>1, <4>2, FS_EmptySet
      <4> QED BY <3>1, <4>3
    <3> QED BY <2>2, <3>1, <3>2, <1>0, AnsweredCounts
  <2> QED BY <2>1, <2>2, <1>1 DEF Answered
<1>4. Counted'
  <2>1. ~ Before(u)' /\ ~ After(u)' /\ ~ Before(u)
    BY <1>1, <1>2 DEF Before, After
  <2>2. ASSUME After(u), NEW c \in Target(u) PROVE c \notin box'
    <3>1. op[u].kind = "move" /\ c \in box /\ c[1] = f
      BY <2>2, <1>1 DEF After, Target, Among
    <3>2. <<c[1], c[2]>> \in flagged
      BY <2>2, <3>1, <1>0, <1>1 DEF Marked
    <3> QED BY <3>1, <3>2, <1>1
  <2>3. \A v \in User \ {u} : (Before(v)' <=> Before(v)) /\ (After(v)' <=> After(v))
    BY <1>2 DEF Before, After
  <2> QED BY <1>0, <1>1, <1>2, <1>3, <2>1, <2>2, <2>3, GoneSums
<1>5. Marked'
  <2>1. ASSUME NEW c \in box', <<c[1], c[2]>> \in flagged PROVE <<c[1], c[2]>> \in flagged'
    <3>1. \A d \in gone : <<f, d[2]>> # <<c[1], c[2]>>
      BY <1>1 DEF IInv, UidsUnique
    <3> QED BY <2>1, <3>1, <1>1
  <2>2. \A c \in box' : c \in box
    BY <1>1
  <2> QED BY <1>0, <1>2, <2>1, <2>2, MarkedKept
<1>6. Counters' /\ Tombstones'
  <2>1. Letters(box') \in SUBSET arrived
    BY <1>0, <1>1 DEF Counters, Letters
  <2> QED BY <1>0, <1>1, <1>3, <2>1 DEF Counters, Letters, Tombstones
<1> QED BY <1>4, <1>5, <1>6 DEF CInv

LEMMA NextSums ==
  ASSUME IInv, IInv', CInv, [Next]_vars
  PROVE  CInv'
<1>0. Typed /\ Typed' /\ Counters /\ Counted /\ Marked /\ Tombstones
  BY DEF IInv, CInv
<1>1. CASE ServerStep
  BY <1>1, ServerSums DEF ServerStep
<1>2. CASE Crash
  <2>1. Counted' /\ extra' \in [Letter -> Nat]
    BY <1>0, <1>2, CrashSums
  <2>2. \A u \in User : op'[u].pc = "idle"
    BY <1>2 DEF Crash, Idle
  <2>3. /\ UNCHANGED <<box, flagged, rows, ops, arrived, wanted, others>> /\ hidden' = {}
        /\ fails < MaxFails /\ fails' = fails + 1
    BY <1>2 DEF Crash, Spend, server
  <2>4. Marked'
    BY <1>0, <2>2, <2>3, MarkedKept
  <2>5. Counters' /\ Tombstones'
    BY <1>0, <2>1, <2>3 DEF Counters, Letters, Tombstones
  <2> QED BY <2>1, <2>4, <2>5 DEF CInv
<1>3. ASSUME NEW u \in User, CommandStep(u) PROVE CInv'
  <2>1. CASE \E f \in Folder :
          \/ \E x \in Uid : DeleteMessage(u, f, x)
          \/ \E x \in Uid, g \in Folder : MoveMessage(u, f, x, g)
          \/ \E xs \in SUBSET Uid, g \in Folder : MoveMessages(u, f, xs, g)
          \/ \E x \in Uid : ArchiveMessage(u, f, x)
          \/ \E xs \in SUBSET Uid : ArchiveMessages(u, f, xs)
          \/ ClearFolder(u, f)
    BY <2>1, UserSums
  <2>2. CASE Connect(u) \/ Probe(u) \/ Break(u) \/ Restore(u) \/ Clean(u)
    BY <2>2, ProgramSums
  <2>3. CASE Copy(u) \/ Store(u) \/ Expunge(u)
    BY <2>3, CopyCInv, StoreSums, ExpungeSums
  <2> QED BY <1>3, <2>1, <2>2, <2>3 DEF CommandStep
<1>4. CASE UNCHANGED vars
  <2>1. UNCHANGED <<box, flagged, rows, hidden, op, ops, fails, arrived, wanted, others, extra>>
    BY <1>4 DEF vars, server, cache, counts, history
  <2>2. Counted'
    BY <1>0, <2>1, SameSums DEF Before, After
  <2>3. Marked'
    BY <1>0, <2>1, MarkedKept
  <2>4. Counters' /\ Tombstones'
    BY <1>0, <2>1 DEF Counters, Letters, Tombstones
  <2> QED BY <2>2, <2>3, <2>4 DEF CInv
<1> QED BY <1>1, <1>2, <1>3, <1>4 DEF Next

LEMMA CountsInductive == Spec => []CInv
<1>1. Init => CInv
  BY InitCInv
<1>2. IInv /\ IInv' /\ CInv /\ [Next]_vars => CInv'
  BY NextSums
<1> QED BY <1>1, <1>2, Inductive, PTL DEF Spec

\* The type invariant, for every instance: uids are unique and never handed out
\* again, and no tombstone outlives its row, whatever the polls, the commands and the
\* crashes do to the cache.
THEOREM TypeCorrect == Spec => []TypeOK
<1>1. IInv /\ CInv => TypeOK
  <2> SUFFICES ASSUME IInv, CInv PROVE TypeOK
    OBVIOUS
  <2>1. Tombstones
    BY DEF CInv
  <2>2. \A r \in rows : r[1] \in Folder /\ r[2] \in Uid
    BY CopyParts DEF IInv, Typed
  <2>3. hidden \subseteq Folder \X Uid
    BY <2>1, <2>2 DEF Tombstones
  <2>4. /\ box \subseteq Folder \X Uid \X Letter /\ rows \subseteq Folder \X Uid \X Letter
        /\ flagged \subseteq Folder \X Uid /\ uidnext \in [Folder -> 1..MaxUid + 1]
        /\ op \in [User -> Op]
    BY DEF IInv, Typed, Copies
  <2>5. /\ \A c \in box : c[2] < uidnext[c[1]]
        /\ \A c, d \in box : c[1] = d[1] /\ c[2] = d[2] => c = d
    BY DEF IInv, UidsUnique
  <2>6. Counters
    BY DEF CInv
  <2> QED BY <2>1, <2>3, <2>4, <2>5, <2>6 DEF TypeOK, Counters, Tombstones
<1> QED BY <1>1, Inductive, CountsInductive, PTL

\* However many moves overlap, however often they fail and whoever else expunges, a
\* letter has no more copies than the failures and the moves under way account for:
\* nothing in delete, archive, move and clear copies a message a second time.
THEOREM NoStrayCopies == Spec => []CopiesBounded
<1>1. IInv /\ CInv => CopiesBounded
  <2> SUFFICES ASSUME IInv, CInv, NEW m \in Letter
               PROVE  Cardinality({c \in box : c[3] = m})
                        <= 1 + extra[m] + Cardinality({w \in Unfinished : w[2][3] = m})
    BY DEF CopiesBounded
  <2>0. Members
    BY MovingParts
  <2>1. /\ IsFiniteSet(Held(m)) /\ Cardinality(Held(m)) \in Nat
        /\ IsFiniteSet(Pending(m)) /\ Cardinality(Pending(m)) \in Nat
        /\ IsFiniteSet(Copied(m)) /\ Cardinality(Copied(m)) \in Nat
        /\ IsFiniteSet(Worked(m)) /\ Cardinality(Worked(m)) \in Nat
    BY SumsFinite DEF IInv
  <2>2. Cardinality(Worked(m)) <= Cardinality(Pending(m)) + Cardinality(Copied(m))
    BY WorkedBounded DEF IInv
  <2>3. Cardinality(Held(m)) + Cardinality(Pending(m)) <= 1 + extra[m] + Cardinality(Worked(m))
    BY DEF CInv, Counted
  <2>4. extra[m] \in Nat
    BY DEF CInv, Counters
  <2>5. {w \in Unfinished : w[2][3] = m} = Copied(m)
    BY DEF Unfinished, Copied, Moving, Target
  <2>6. {c \in box : c[3] = m} = Held(m)
    BY DEF Held
  <2>7. Cardinality(Held(m)) <= 1 + extra[m] + Cardinality(Copied(m))
    BY <2>1, <2>2, <2>3, <2>4
  <2> QED BY <2>5, <2>6, <2>7, Zenon
<1> QED BY <1>1, Inductive, CountsInductive, PTL

=============================================================================
