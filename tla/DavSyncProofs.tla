---------------------------- MODULE DavSyncProofs ----------------------------
(***************************************************************************)
(* Proofs about DavSync, for any items, commands, changes and failures.    *)
(***************************************************************************)
EXTENDS DavSync, TLAPS

USE DavAssumption DEF DavAssumption

-----------------------------------------------------------------------------
(* The invariants. *)

\* A sync that has read its bookmark, and one that has the server's answer.
Syncing(c) == cmd[c].pc \in {"report", "fetch", "apply"}
Answered(c) == cmd[c].pc \in {"fetch", "apply"}

\* Nothing is newer than the clock, and what is live has a version.
Numbered ==
  /\ token <= clock
  /\ \A i \in Item : srv[i].v <= clock /\ srv[i].last <= srv[i].v
                     /\ (srv[i].live => srv[i].v > 0)
  /\ \A c \in Command : cmd[c].base <= clock /\ cmd[c].new <= clock

\* The row is right, or the server will tell of the item to who asks with the bookmark.
Tracked(i, bookmark) == row[i] = Live(i) \/ i \in raced \/ srv[i].v > bookmark

BookmarkBehind ==
  /\ \A i \in Item : Tracked(i, token)
  /\ \A c \in Command : Syncing(c) => \A i \in Item : Tracked(i, cmd[c].base)

\* A write that was accepted records what the server has.
RecordTrue ==
  \A c \in Command : cmd[c].pc = "record" =>
    cmd[c].item \in raced \/ cmd[c].etag = Live(cmd[c].item)

\* Nothing of the item is left, in a row or an answer.
Forgotten(i) == row[i] = 0 /\ \A c \in Command : cmd[c].got[i] = 0

\* What an answer says of an item that has not changed since.
Says(c, i) ==
  \/ srv[i].v <= cmd[c].base /\ cmd[c].got[i] = 0 /\ i \notin cmd[c].gone
  \/ cmd[c].got[i] # 0 /\ cmd[c].got[i] = Live(i)
  \/ cmd[c].got[i] = 0 /\ i \in cmd[c].gone /\ Live(i) = 0
  \/ Live(i) = 0 /\ (i \in raced \/ Forgotten(i))

AnswerTrue ==
  \A c \in Command : Answered(c) =>
    \A i \in Item : srv[i].v > cmd[c].new \/ Says(c, i)

Tells == BookmarkBehind /\ RecordTrue /\ AnswerTrue

\* A list of notes tells everything and has no bookmark.
MissInv == Numbered /\ (kind # "note" => Tells)

\* The etag of an editor is that of the text it shows, unless an answer to something
\* else handed it over.
EditorSees ==
  ed.open /\ ed.via = "open" => ed.seen = ed.etag

\* So is the etag the save of a task or a note sends.
CommandSees ==
  \A c \in Command : cmd[c].pc = "put" /\ cmd[c].op = "save" /\ kind \in {"task", "note"} =>
    cmd[c].via = "handed" \/ cmd[c].seen = cmd[c].etag

-----------------------------------------------------------------------------
(* Types. *)

\* A command at rest carries nothing over, a write has an item, and only the write of
\* an event runs a sync on its way.
WellFormed(c) ==
  /\ cmd[c].pc = "idle" => cmd[c] = Idle
  /\ cmd[c].op = "none" => cmd[c].pc = "idle"
  /\ cmd[c].op \notin {"none", "sync"} => cmd[c].item \in Item
  /\ cmd[c].pc \in {"put", "record"} => cmd[c].op \notin {"none", "sync"}
  /\ Syncing(c) => cmd[c].op = "sync" \/ (cmd[c].op \in {"save", "delete"} /\ kind = "event")

Typed ==
  /\ kind \in Kinds
  /\ clock \in Version /\ srv \in [Item -> ServerItem]
  /\ row \in [Item -> Version] /\ token \in Version
  /\ listed \in [Item -> SUBSET (Version \ {0})]
  /\ cmd \in [Command -> CommandState]
  /\ \A c \in Command : WellFormed(c)
  /\ ed \in Editor
  /\ fails \in 0..MaxFails
  /\ raced \in SUBSET Item /\ lost \in SUBSET Via

LEMMA TypedTypeOK == Typed => TypeOK
BY DEF Typed, TypeOK, WellFormed

LEMMA IdleTyped ==
  /\ Idle \in CommandState
  /\ Idle.op = "none" /\ Idle.pc = "idle" /\ Idle.item = None /\ Idle.etag = 0
  /\ Idle.seen = 0 /\ Idle.via = "open" /\ Idle.base = 0 /\ Idle.new = 0
  /\ Idle.got = Nothing /\ Idle.gone = {}
BY DEF Idle, CommandState, Op, Pc, Via, Version, Nothing

LEMMA VersionsTyped ==
  ASSUME Typed
  PROVE  /\ 0 \in Version /\ Nothing \in [Item -> Version] /\ Base \in Version
         /\ Version \subseteq Nat
         /\ \A i \in Item : /\ Live(i) \in Version /\ row[i] \in Version
                            /\ srv[i].v \in Version /\ srv[i].last \in Version
                            /\ srv[i].live \in BOOLEAN
         /\ \A c \in Command : cmd[c].base \in Version /\ cmd[c].new \in Version
                               /\ cmd[c].got \in [Item -> Version]
                               /\ cmd[c].etag \in Version /\ cmd[c].seen \in Version
<1>1. 0 \in Version /\ Version \subseteq Nat /\ Nothing \in [Item -> Version]
  BY DEF Version, Nothing
<1>2. Base \in Version
  BY <1>1 DEF Base, Typed
<1>3. \A i \in Item : /\ srv[i].v \in Version /\ srv[i].last \in Version
                      /\ srv[i].live \in BOOLEAN /\ row[i] \in Version
  BY DEF Typed, ServerItem
<1>4. \A i \in Item : Live(i) \in Version
  BY <1>1, <1>3 DEF Live
<1>5. \A c \in Command : cmd[c].base \in Version /\ cmd[c].new \in Version
                         /\ cmd[c].got \in [Item -> Version]
                         /\ cmd[c].etag \in Version /\ cmd[c].seen \in Version
  BY DEF Typed, CommandState
<1> QED BY <1>1, <1>2, <1>3, <1>4, <1>5

-----------------------------------------------------------------------------
(* What the steps make of the commands. *)

\* The other commands stay as they are.
Only(c) ==
  /\ cmd' \in [Command -> CommandState]
  /\ \A d \in Command \ {c} : cmd'[d] = cmd[d]

\* What does not change while a command runs.
Lasting(c) ==
  /\ cmd'[c].op = cmd[c].op /\ cmd'[c].item = cmd[c].item
  /\ cmd'[c].seen = cmd[c].seen /\ cmd'[c].via = cmd[c].via

LEMMA EndChanges ==
  ASSUME Typed, NEW c \in Command, End(c)
  PROVE  Only(c) /\ cmd'[c] = Idle
BY IdleTyped DEF End, Typed, Only

LEMMA PullChanges ==
  ASSUME Typed, NEW c \in Command, Pull(c)
  PROVE  /\ Only(c) /\ Lasting(c)
         /\ cmd'[c].pc = "report" /\ cmd'[c].base = Base /\ cmd'[c].new = cmd[c].new
         /\ cmd'[c].got = cmd[c].got
<1> DEFINE r == [cmd[c] EXCEPT !.pc = "report", !.base = Base]
<1>1. cmd' = [cmd EXCEPT ![c] = r]
  BY DEF Pull
<1>2. cmd[c] \in CommandState
  BY DEF Typed
<1>3. r \in CommandState
  BY <1>2, VersionsTyped DEF CommandState, Pc
<1>4. /\ r.op = cmd[c].op /\ r.item = cmd[c].item /\ r.seen = cmd[c].seen
      /\ r.via = cmd[c].via /\ r.pc = "report" /\ r.base = Base /\ r.new = cmd[c].new
      /\ r.got = cmd[c].got
  BY <1>2 DEF CommandState
<1> HIDE DEF r
<1> QED BY <1>1, <1>3, <1>4 DEF Typed, Only, Lasting

LEMMA SyncChanges ==
  ASSUME Typed, NEW c \in Command, Sync(c)
  PROVE  /\ Only(c)
         /\ cmd'[c].op = "sync" /\ cmd'[c].pc = "report" /\ cmd'[c].base = Base
         /\ cmd'[c].new = 0 /\ cmd'[c].got = Nothing /\ cmd'[c].via = "open"
<1> DEFINE r == [cmd[c] EXCEPT !.op = "sync", !.pc = "report", !.base = Base]
<1>1. cmd' = [cmd EXCEPT ![c] = r]
  BY DEF Sync
<1>2. cmd[c] = Idle
  BY DEF Typed, WellFormed, Sync
<1>3. r \in CommandState
  BY <1>2, IdleTyped, VersionsTyped DEF CommandState, Pc, Op
<1>4. /\ r.op = "sync" /\ r.pc = "report" /\ r.base = Base /\ r.new = 0 /\ r.got = Nothing
      /\ r.via = "open"
  BY <1>2 DEF Idle
<1> HIDE DEF r
<1> QED BY <1>1, <1>3, <1>4 DEF Typed, Only

LEMMA ReportChanges ==
  ASSUME Typed, NEW c \in Command, Report(c)
  PROVE  /\ Only(c) /\ Lasting(c)
         /\ cmd'[c].pc \in {"fetch", "apply"} /\ cmd'[c].base = cmd[c].base
         /\ cmd'[c].new = clock /\ cmd'[c].gone = Deleted(cmd[c].base)
         /\ \A i \in Item :
              cmd'[c].got[i] = IF i \in Changed(cmd[c].base) THEN srv[i].v ELSE 0
<1> DEFINE pc == IF Changed(cmd[c].base) = {} THEN "apply" ELSE "fetch"
           got == [i \in Item |-> IF i \in Changed(cmd[c].base) THEN srv[i].v ELSE 0]
           r == [cmd[c] EXCEPT !.pc = pc, !.new = clock, !.gone = Deleted(cmd[c].base),
                               !.got = got]
<1>1. cmd' = [cmd EXCEPT ![c] = r]
  BY DEF Report
<1>2. cmd[c] \in CommandState
  BY DEF Typed
<1>3. got \in [Item -> Version] /\ Deleted(cmd[c].base) \in SUBSET Item /\ pc \in {"fetch", "apply"}
  BY VersionsTyped DEF Deleted
<1>4. \A i \in Item : got[i] = IF i \in Changed(cmd[c].base) THEN srv[i].v ELSE 0
  OBVIOUS
<1>5. clock \in Version
  BY DEF Typed
<1> HIDE DEF got, pc
<1>6. r \in CommandState
  BY <1>2, <1>3, <1>5 DEF CommandState, Pc
<1>7. /\ r.op = cmd[c].op /\ r.item = cmd[c].item /\ r.seen = cmd[c].seen
      /\ r.via = cmd[c].via /\ r.pc = pc /\ r.base = cmd[c].base /\ r.new = clock
      /\ r.got = got /\ r.gone = Deleted(cmd[c].base)
  BY <1>2 DEF CommandState
<1> HIDE DEF r
<1> QED BY <1>1, <1>3, <1>4, <1>6, <1>7 DEF Typed, Only, Lasting

LEMMA FetchChanges ==
  ASSUME Typed, NEW c \in Command, Fetch(c)
  PROVE  /\ Only(c) /\ Lasting(c)
         /\ cmd'[c].pc = "apply" /\ cmd'[c].base = cmd[c].base /\ cmd'[c].new = cmd[c].new
         /\ cmd'[c].gone = cmd[c].gone
         /\ \A i \in Item : cmd'[c].got[i] = IF cmd[c].got[i] = 0 THEN 0 ELSE Live(i)
<1> DEFINE got == [i \in Item |-> IF cmd[c].got[i] = 0 THEN 0 ELSE Live(i)]
           r == [cmd[c] EXCEPT !.pc = "apply", !.got = got]
<1>1. cmd' = [cmd EXCEPT ![c] = r]
  BY DEF Fetch
<1>2. cmd[c] \in CommandState
  BY DEF Typed
<1>3. got \in [Item -> Version]
  BY VersionsTyped
<1>4. \A i \in Item : got[i] = IF cmd[c].got[i] = 0 THEN 0 ELSE Live(i)
  OBVIOUS
<1> HIDE DEF got
<1>5. r \in CommandState
  BY <1>2, <1>3 DEF CommandState, Pc
<1>6. /\ r.op = cmd[c].op /\ r.item = cmd[c].item /\ r.seen = cmd[c].seen
      /\ r.via = cmd[c].via /\ r.pc = "apply" /\ r.base = cmd[c].base /\ r.new = cmd[c].new
      /\ r.got = got /\ r.gone = cmd[c].gone
  BY <1>2 DEF CommandState
<1> HIDE DEF r
<1> QED BY <1>1, <1>4, <1>5, <1>6 DEF Typed, Only, Lasting

LEMMA ListChanges ==
  ASSUME Typed, NEW c \in Command, List(c)
  PROVE  /\ Only(c) /\ Lasting(c)
         /\ cmd'[c].pc = "apply" /\ cmd'[c].base = cmd[c].base /\ cmd'[c].new = cmd[c].new
<1> DEFINE got == [i \in Item |-> Live(i)]
           r == [cmd[c] EXCEPT !.pc = "apply", !.got = got]
<1>1. cmd' = [cmd EXCEPT ![c] = r]
  BY DEF List
<1>2. cmd[c] \in CommandState
  BY DEF Typed
<1>3. got \in [Item -> Version]
  BY VersionsTyped
<1> HIDE DEF got
<1>4. r \in CommandState
  BY <1>2, <1>3 DEF CommandState, Pc
<1>5. /\ r.op = cmd[c].op /\ r.item = cmd[c].item /\ r.seen = cmd[c].seen
      /\ r.via = cmd[c].via /\ r.pc = "apply" /\ r.base = cmd[c].base /\ r.new = cmd[c].new
  BY <1>2 DEF CommandState
<1> HIDE DEF r
<1> QED BY <1>1, <1>4, <1>5 DEF Typed, Only, Lasting

LEMMA BeginChanges ==
  ASSUME Typed, NEW c \in Command, NEW op \in Op \ {"none", "sync"}, NEW i \in Item,
         NEW etag \in Version, NEW seen \in Version, NEW via \in Via,
         Begin(c, op, i, etag, seen, via)
  PROVE  /\ Only(c)
         /\ cmd'[c].op = op /\ cmd'[c].pc = "put" /\ cmd'[c].item = i
         /\ cmd'[c].etag = etag /\ cmd'[c].seen = seen /\ cmd'[c].via = via
         /\ cmd'[c].base = 0 /\ cmd'[c].new = 0 /\ cmd'[c].got = Nothing
<1>1. PICK own \in BOOLEAN :
        cmd' = [cmd EXCEPT ![c] = [Idle EXCEPT !.op = op, !.pc = "put", !.item = i,
                                               !.etag = etag, !.seen = seen, !.via = via,
                                               !.own = own]]
  BY DEF Begin
<1> DEFINE r == [Idle EXCEPT !.op = op, !.pc = "put", !.item = i, !.etag = etag,
                             !.seen = seen, !.via = via, !.own = own]
<1>2. r \in CommandState
  BY IdleTyped DEF CommandState, Pc
<1>3. /\ r.op = op /\ r.pc = "put" /\ r.item = i /\ r.etag = etag /\ r.seen = seen
      /\ r.via = via /\ r.base = 0 /\ r.new = 0 /\ r.got = Nothing
  BY DEF Idle
<1>4. cmd' = [cmd EXCEPT ![c] = r]
  BY <1>1
<1> HIDE DEF r
<1> QED BY <1>2, <1>3, <1>4 DEF Typed, Only

\* A request that was carried out, or found nothing left to do.
LEMMA PutChanges ==
  ASSUME Typed, NEW c \in Command, Put(c) \/ AlreadyGone(c)
  PROVE  /\ Only(c) /\ Lasting(c)
         /\ cmd'[c].pc = "record" /\ cmd'[c].base = cmd[c].base /\ cmd'[c].new = cmd[c].new
         /\ cmd'[c].got = cmd[c].got
         /\ Put(c) => cmd'[c].etag = IF cmd[c].op = "delete" THEN 0 ELSE clock + 1
         /\ AlreadyGone(c) => cmd'[c].etag = 0
<1>1. PICK etag \in Version :
        /\ cmd' = [cmd EXCEPT ![c] = [@ EXCEPT !.pc = "record", !.etag = etag]]
        /\ Put(c) => etag = IF cmd[c].op = "delete" THEN 0 ELSE clock + 1
        /\ AlreadyGone(c) => etag = 0
  <2>1. CASE Put(c)
    <3>1. clock + 1 \in Version /\ 0 \in Version
      BY <2>1 DEF Put, Accepted, Typed, Version
    <3>2. cmd[c].pc = "put" /\ cmd'[c].etag = IF cmd[c].op = "delete" THEN 0 ELSE clock + 1
      BY <2>1 DEF Put, Typed, CommandState
    <3>3. AlreadyGone(c) => cmd'[c].etag = 0
      BY DEF AlreadyGone, Typed, CommandState
    <3> QED BY <2>1, <3>1, <3>2, <3>3 DEF Put
  <2>2. CASE AlreadyGone(c)
    <3>1. Put(c) => cmd'[c].etag = IF cmd[c].op = "delete" THEN 0 ELSE clock + 1
      BY DEF Put, Typed, CommandState
    <3>2. cmd'[c].etag = 0 /\ 0 \in Version
      BY <2>2, VersionsTyped DEF AlreadyGone, Typed, CommandState
    <3> QED BY <2>2, <3>1, <3>2 DEF AlreadyGone
  <2> QED BY <2>1, <2>2
<1> DEFINE r == [cmd[c] EXCEPT !.pc = "record", !.etag = etag]
<1>2. cmd[c] \in CommandState
  BY DEF Typed
<1>3. r \in CommandState
  BY <1>2 DEF CommandState, Pc
<1>4. /\ r.op = cmd[c].op /\ r.item = cmd[c].item /\ r.seen = cmd[c].seen
      /\ r.via = cmd[c].via /\ r.pc = "record" /\ r.base = cmd[c].base /\ r.new = cmd[c].new
      /\ r.got = cmd[c].got /\ r.etag = etag
  BY <1>2 DEF CommandState
<1>5. cmd' = [cmd EXCEPT ![c] = r]
  BY <1>1
<1> HIDE DEF r
<1> QED BY <1>1, <1>3, <1>4, <1>5 DEF Typed, Only, Lasting

LEMMA MergedTyped ==
  ASSUME Typed, NEW c \in Command, Apply(c)
  PROVE  /\ row' \in [Item -> Version] /\ token' \in Version
         /\ listed' \in [Item -> SUBSET (Version \ {0})]
<1>1. Merged(c) \in [Item -> Version]
  BY VersionsTyped DEF Merged
<1>2. Bookmark(c) \in Version
  BY VersionsTyped DEF Bookmark
<1>3. listed' \in [Item -> SUBSET (Version \ {0})]
  <2>1. ASSUME NEW i \in Item
        PROVE  listed[i] \cup ({Merged(c)[i]} \ {0}) \in SUBSET (Version \ {0})
    BY <1>1 DEF Typed
  <2> QED BY <2>1 DEF Apply
<1> QED BY <1>1, <1>2, <1>3 DEF Apply, Typed

LEMMA RetryChanges ==
  ASSUME Typed, NEW c \in Command, Retry(c)
  PROVE  /\ Only(c) /\ cmd[c].item \in Item /\ cmd[c].op \in {"save", "delete"}
         /\ \/ cmd'[c] = Idle
            \/ /\ Lasting(c) /\ cmd'[c].pc = "put" /\ cmd'[c].base = 0 /\ cmd'[c].new = 0
               /\ cmd'[c].got = Nothing
<1>1. cmd[c].item \in Item /\ cmd[c].op \in {"save", "delete"}
  BY DEF Retry, At, Typed, WellFormed
<1>2. PICK fresh \in Version :
        fresh = row'[cmd[c].item]
  BY <1>1, MergedTyped DEF Retry
<1>3. CASE fresh = 0
  <2>1. End(c)
    BY <1>2, <1>3 DEF Retry
  <2> QED BY <1>1, <2>1, EndChanges
<1>4. CASE fresh # 0
  <2> DEFINE r == [cmd[c] EXCEPT !.pc = "put", !.retried = TRUE, !.etag = fresh,
                                 !.base = 0, !.new = 0, !.got = Nothing, !.gone = {}]
  <2>1. cmd' = [cmd EXCEPT ![c] = r]
    BY <1>2, <1>4 DEF Retry
  <2>2. cmd[c] \in CommandState
    BY DEF Typed
  <2>3. r \in CommandState
    BY <2>2, VersionsTyped DEF CommandState, Pc
  <2>4. /\ r.op = cmd[c].op /\ r.item = cmd[c].item /\ r.seen = cmd[c].seen
        /\ r.via = cmd[c].via /\ r.pc = "put" /\ r.base = 0 /\ r.new = 0 /\ r.got = Nothing
    BY <2>2 DEF CommandState
  <2> HIDE DEF r
  <2> QED BY <1>1, <2>1, <2>3, <2>4 DEF Typed, Only, Lasting
<1> QED BY <1>3, <1>4

LEMMA CloseChanges ==
  ASSUME Typed, Close
  PROVE  /\ cmd' \in [Command -> CommandState]
         /\ \A c \in Command :
              /\ Lasting(c) /\ cmd'[c].pc = cmd[c].pc /\ cmd'[c].base = cmd[c].base
              /\ cmd'[c].new = cmd[c].new /\ cmd'[c].got = cmd[c].got
              /\ cmd'[c].gone = cmd[c].gone /\ cmd'[c].etag = cmd[c].etag
              /\ cmd[c] = Idle => cmd'[c] = Idle
<1>1. ASSUME NEW c \in Command
      PROVE  /\ cmd'[c] \in CommandState
             /\ Lasting(c) /\ cmd'[c].pc = cmd[c].pc /\ cmd'[c].base = cmd[c].base
             /\ cmd'[c].new = cmd[c].new /\ cmd'[c].got = cmd[c].got
             /\ cmd'[c].gone = cmd[c].gone /\ cmd'[c].etag = cmd[c].etag
             /\ cmd[c] = Idle => cmd'[c] = Idle
  <2>1. cmd[c] \in CommandState
    BY DEF Typed
  <2>2. cmd'[c] = [cmd[c] EXCEPT !.own = FALSE]
    BY DEF Close
  <2>3. cmd'[c] \in CommandState
    BY <2>1, <2>2 DEF CommandState
  <2>4. /\ Lasting(c) /\ cmd'[c].pc = cmd[c].pc /\ cmd'[c].base = cmd[c].base
        /\ cmd'[c].new = cmd[c].new /\ cmd'[c].got = cmd[c].got
        /\ cmd'[c].gone = cmd[c].gone /\ cmd'[c].etag = cmd[c].etag
    BY <2>1, <2>2 DEF CommandState, Lasting
  <2>5. ASSUME cmd[c] = Idle
        PROVE  cmd'[c] = Idle
    <3>1. cmd'[c] = [Idle EXCEPT !.own = FALSE]
      BY <2>2, <2>5
    <3>2. Idle = [Idle EXCEPT !.own = Idle.own] /\ Idle.own = FALSE
      BY ZenonT(20) DEF Idle
    <3> QED BY <3>1, <3>2
  <2> QED BY <2>3, <2>4, <2>5
<1>2. cmd' \in [Command -> CommandState]
  BY <1>1 DEF Close
<1> QED BY <1>1, <1>2

LEMMA EditorFields ==
  ASSUME Typed, ed.open
  PROVE  ed \in [open : {TRUE}, item : Item, seen : Version, etag : Version, via : Via]
<1>1. ed = Closed \/ ed \in [open : {TRUE}, item : Item, seen : Version, etag : Version,
                            via : Via]
  BY DEF Typed, Editor
<1>2. Closed.open = FALSE
  BY DEF Closed
<1> QED BY <1>1, <1>2

LEMMA EditorAfterTyped ==
  ASSUME Typed, NEW c \in Command
  PROVE  EditorAfter(c) \in Editor
<1>1. ed \in Editor /\ Closed \in Editor
  BY DEF Typed, Editor
<1>2. CASE ed.open
  <2>1. cmd[c].etag \in Version
    BY VersionsTyped
  <2>2. [ed EXCEPT !.etag = cmd[c].etag, !.seen = cmd[c].etag] \in Editor
    BY <1>2, <2>1, EditorFields DEF Editor
  <2>3. [ed EXCEPT !.etag = cmd[c].etag, !.via = "handed"] \in Editor
    BY <1>2, <2>1, EditorFields DEF Editor, Via
  <2> QED BY <1>1, <1>2, <2>2, <2>3 DEF EditorAfter
<1>3. CASE ~ ed.open
  BY <1>1, <1>3 DEF EditorAfter
<1> QED BY <1>2, <1>3

\* The fields of what a save sends.
LEMMA SaveTyped ==
  ASSUME Typed, NEW c \in Command, Save(c)
  PROVE  /\ ed.item \in Item /\ SaveEtag \in Version /\ ed.seen \in Version /\ ed.via \in Via
         /\ Begin(c, "save", ed.item, SaveEtag, ed.seen, ed.via)
<1>1. ed.item \in Item /\ ed.seen \in Version /\ ed.via \in Via /\ ed.etag \in Version
  BY EditorFields DEF Save
<1>2. SaveEtag \in Version
  BY <1>1, VersionsTyped DEF SaveEtag
<1> QED BY <1>1, <1>2 DEF Save

\* An accepted request makes the next version of a live or a deleted item.
LEMMA AcceptedTyped ==
  ASSUME Typed, NEW c \in Command, cmd[c].pc = "put", Accepted(c)
  PROVE  /\ clock' \in Version /\ srv' \in [Item -> ServerItem]
         /\ raced' \in SUBSET Item /\ lost' \in SUBSET Via
         /\ cmd[c].item \in Item /\ clock' = clock + 1
         /\ \A i \in Item : i # cmd[c].item => srv'[i] = srv[i]
         /\ srv'[cmd[c].item].v = clock + 1
         /\ srv'[cmd[c].item].live <=> cmd[c].op # "delete"
         /\ srv'[cmd[c].item].last \in {srv[cmd[c].item].last, clock + 1}
         /\ UNCHANGED <<kind, cache, ed>>
         /\ raced \subseteq raced'
         /\ Unrecorded(cmd[c].item) => cmd[c].item \in raced'
<1>1. PICK i \in Item : i = cmd[c].item
  BY DEF Typed, WellFormed
<1>2. clock' = clock + 1 /\ clock' \in Version
  BY DEF Accepted, Typed, Version
<1>3. PICK live \in BOOLEAN, last \in Version :
        /\ srv' = [srv EXCEPT ![i] = [v |-> clock + 1, live |-> live, last |-> last]]
        /\ live <=> cmd[c].op # "delete"
        /\ last \in {srv[i].last, clock + 1}
  <2>1. srv[i].last \in Version
    BY VersionsTyped
  <2> QED BY <1>1, <1>2, <2>1 DEF Accepted
<1>4. [v |-> clock + 1, live |-> live, last |-> last] \in ServerItem
  BY <1>2, <1>3 DEF ServerItem
<1>5. /\ srv' \in [Item -> ServerItem]
      /\ \A j \in Item : j # i => srv'[j] = srv[j]
      /\ srv'[i].v = clock + 1 /\ srv'[i].live = live /\ srv'[i].last = last
  BY <1>3, <1>4 DEF Typed
<1>6. /\ raced' \in SUBSET Item /\ raced \subseteq raced'
      /\ Unrecorded(i) => i \in raced'
  BY <1>1 DEF Accepted, Typed
<1>7. lost' \in SUBSET Via
  <2>1. cmd[c].via \in Via
    BY DEF Typed, CommandState
  <2> QED BY <2>1 DEF Accepted, Unseen, Typed
<1> QED BY <1>1, <1>2, <1>3, <1>5, <1>6, <1>7 DEF Accepted

-----------------------------------------------------------------------------
(* Type correctness. *)

LEMMA WellFormedOthers ==
  ASSUME Typed, NEW c \in Command, Only(c), kind' = kind, WellFormed(c)'
  PROVE  \A d \in Command : WellFormed(d)'
<1>1. \A d \in Command \ {c} : WellFormed(d)'
  BY DEF Typed, WellFormed, Only, Syncing
<1> QED BY <1>1

LEMMA IdleWellFormed ==
  ASSUME NEW c \in Command, cmd'[c] = Idle
  PROVE  WellFormed(c)'
BY IdleTyped DEF WellFormed, Syncing

\* A step that begins or goes on with a sync.
LEMMA SyncingTyped ==
  ASSUME Typed, NEW c \in Command, Sync(c) \/ Report(c) \/ Fetch(c) \/ List(c)
  PROVE  Typed'
<1> USE DEF server, cache, ghosts
<1>1. CASE Sync(c)
  <2>1. WellFormed(c)'
    BY <1>1, SyncChanges DEF WellFormed, Syncing
  <2>2. \A d \in Command : WellFormed(d)'
    BY <1>1, <2>1, SyncChanges, WellFormedOthers DEF Sync
  <2> QED BY <1>1, <2>2, SyncChanges DEF Sync, Typed, Only
<1>2. CASE Report(c)
  <2>1. WellFormed(c)'
    <3>1. Syncing(c) /\ WellFormed(c) /\ kind' = kind
      BY <1>2 DEF Report, Syncing, Typed
    <3>2. cmd'[c].pc \in {"fetch", "apply"} /\ Lasting(c)
      BY <1>2, ReportChanges
    <3> QED BY <3>1, <3>2 DEF WellFormed, Syncing, Lasting
  <2>2. \A d \in Command : WellFormed(d)'
    BY <1>2, <2>1, ReportChanges, WellFormedOthers DEF Report
  <2>3. raced' \in SUBSET Item
    BY <1>2 DEF Report, Unnamed, Typed
  <2> QED BY <1>2, <2>2, <2>3, ReportChanges DEF Report, Typed, Only
<1>3. CASE Fetch(c)
  <2>1. WellFormed(c)'
    <3>1. Syncing(c) /\ WellFormed(c) /\ kind' = kind
      BY <1>3 DEF Fetch, Syncing, Typed
    <3>2. cmd'[c].pc \in {"fetch", "apply"} /\ Lasting(c)
      BY <1>3, FetchChanges
    <3> QED BY <3>1, <3>2 DEF WellFormed, Syncing, Lasting
  <2>2. \A d \in Command : WellFormed(d)'
    BY <1>3, <2>1, FetchChanges, WellFormedOthers DEF Fetch
  <2> QED BY <1>3, <2>2, FetchChanges DEF Fetch, Typed, Only
<1>4. CASE List(c)
  <2>1. WellFormed(c)'
    <3>1. Syncing(c) /\ WellFormed(c) /\ kind' = kind
      BY <1>4 DEF List, Syncing, Typed
    <3>2. cmd'[c].pc \in {"fetch", "apply"} /\ Lasting(c)
      BY <1>4, ListChanges
    <3> QED BY <3>1, <3>2 DEF WellFormed, Syncing, Lasting
  <2>2. \A d \in Command : WellFormed(d)'
    BY <1>4, <2>1, ListChanges, WellFormedOthers DEF List
  <2> QED BY <1>4, <2>2, ListChanges DEF List, Typed, Only
<1> QED BY <1>1, <1>2, <1>3, <1>4

LEMMA ApplyTyped ==
  ASSUME Typed, NEW c \in Command, SyncEnds(c) \/ Retry(c)
  PROVE  Typed'
<1> USE DEF server, cache
<1>1. Apply(c)
  BY DEF SyncEnds, Retry
<1>2. raced' \in SUBSET Item
  BY <1>1 DEF Apply, TurnedBack, Typed
<1>3. Only(c) /\ WellFormed(c)'
  <2>1. CASE SyncEnds(c)
    BY <2>1, EndChanges, IdleWellFormed DEF SyncEnds
  <2>2. CASE Retry(c)
    BY <2>2, RetryChanges, IdleWellFormed DEF WellFormed, Lasting, Syncing
  <2> QED BY <2>1, <2>2
<1>4. \A d \in Command : WellFormed(d)'
  BY <1>1, <1>3, WellFormedOthers DEF Apply
<1> QED BY <1>1, <1>2, <1>3, <1>4, MergedTyped DEF Apply, Typed, Only

LEMMA BegunTyped ==
  ASSUME Typed, NEW c \in Command, NEW op \in Op \ {"none", "sync"}, NEW i \in Item,
         NEW etag \in Version, NEW seen \in Version, NEW via \in Via,
         Begin(c, op, i, etag, seen, via)
  PROVE  Typed'
<1>1. WellFormed(c)'
  BY BeginChanges DEF WellFormed, Syncing
<1>2. \A d \in Command : WellFormed(d)'
  BY <1>1, BeginChanges, WellFormedOthers DEF Begin
<1> QED BY <1>2, BeginChanges DEF Begin, Typed, Only, server, cache, ghosts

\* The writes a user may begin, and what they are begun with.
LEMMA Begun ==
  ASSUME Typed, NEW c \in Command,
         \/ Save(c)
         \/ \E i \in Item : Create(c, i) \/ Delete(c, i)
         \/ \E i \in Item, v \in Version : Toggle(c, i, v)
  PROVE  \E op \in Op \ {"none", "sync"}, i \in Item, etag \in Version, seen \in Version,
            via \in Via :
           /\ Begin(c, op, i, etag, seen, via)
           /\ op = "save" => ed.open /\ etag = SaveEtag /\ seen = ed.seen /\ via = ed.via
<1>1. CASE Save(c)
  <2>1. ed.open
    BY <1>1 DEF Save
  <2>2. "save" \in Op \ {"none", "sync"}
    BY DEF Op
  <2> QED BY <1>1, <2>1, <2>2, SaveTyped
<1>2. ASSUME NEW i \in Item, Create(c, i)
      PROVE  Begin(c, "create", i, 0, 0, "open")
  BY <1>2 DEF Create
<1>3. ASSUME NEW i \in Item, NEW v \in Version, Toggle(c, i, v)
      PROVE  Begin(c, "toggle", i, v, row[i], "open")
  BY <1>3 DEF Toggle
<1>4. ASSUME NEW i \in Item, Delete(c, i)
      PROVE  Begin(c, "delete", i, row[i], row[i], "open")
  BY <1>4 DEF Delete
<1>5. {"create", "toggle", "delete"} \subseteq Op \ {"none", "sync"} /\ "open" \in Via
      /\ 0 \in Version /\ \A i \in Item : row[i] \in Version
  BY VersionsTyped DEF Op, Via
<1> QED BY <1>1, <1>2, <1>3, <1>4, <1>5

LEMMA WriteTyped ==
  ASSUME Typed, NEW c \in Command, Put(c) \/ AlreadyGone(c) \/ Refused(c) \/ Record(c)
  PROVE  Typed'
<1> USE DEF server, cache, ghosts
<1>1. CASE Put(c) \/ AlreadyGone(c)
  <2>1. cmd[c].pc = "put"
    BY <1>1 DEF Put, AlreadyGone, At
  <2>2. WellFormed(c)'
    BY <1>1, <2>1, PutChanges DEF WellFormed, Syncing, Lasting, Typed
  <2>3. kind' = kind
    BY <1>1 DEF Put, AlreadyGone, Accepted
  <2>4. \A d \in Command : WellFormed(d)'
    BY <1>1, <2>2, <2>3, PutChanges, WellFormedOthers
  <2>5. CASE Put(c)
    BY <2>1, <2>4, <2>5, AcceptedTyped, PutChanges DEF Put, Typed, Only
  <2>6. CASE AlreadyGone(c)
    BY <2>4, <2>6, PutChanges DEF AlreadyGone, Typed, Only
  <2> QED BY <1>1, <2>5, <2>6
<1>2. CASE Refused(c)
  <2>1. Only(c) /\ WellFormed(c)'
    <3>1. CASE Retries(c)
      <4>1. Pull(c) /\ cmd[c].pc = "put" /\ kind' = kind
        BY <1>2, <3>1 DEF Refused
      <4> QED BY <3>1, <4>1, PullChanges DEF WellFormed, Syncing, Lasting, Typed, Retries
    <3>2. CASE ~ Retries(c)
      BY <1>2, <3>2, EndChanges, IdleWellFormed DEF Refused
    <3> QED BY <3>1, <3>2
  <2>2. \A d \in Command : WellFormed(d)'
    BY <1>2, <2>1, WellFormedOthers DEF Refused
  <2> QED BY <1>2, <2>1, <2>2 DEF Refused, Typed, Only
<1>3. CASE Record(c)
  <2>1. Only(c) /\ cmd'[c] = Idle
    BY <1>3, EndChanges DEF Record
  <2>2. \A d \in Command : WellFormed(d)'
    BY <1>3, <2>1, IdleWellFormed, WellFormedOthers DEF Record
  <2>3. row' \in [Item -> Version] /\ listed' \in [Item -> SUBSET (Version \ {0})]
    <3>1. cmd[c].etag \in Version
      BY VersionsTyped
    <3> QED BY <1>3, <3>1 DEF Record, WriteRow, Typed
  <2> QED BY <1>3, <2>1, <2>2, <2>3, EditorAfterTyped DEF Record, Typed, Only
<1> QED BY <1>1, <1>2, <1>3

\* A command that fails, or whose answer is lost.
LEMMA FailTyped ==
  ASSUME Typed, NEW c \in Command, Fail(c) \/ AnswerLost(c)
  PROVE  Typed'
<1> USE DEF server, cache, ghosts
<1>1. Only(c) /\ cmd'[c] = Idle
  BY EndChanges DEF Fail, AnswerLost
<1>2. fails' \in 0..MaxFails
  BY DEF Fail, AnswerLost, Typed
<1>3. kind' = kind
  BY DEF Fail, AnswerLost, Accepted
<1>4. \A d \in Command : WellFormed(d)'
  BY <1>1, <1>3, IdleWellFormed, WellFormedOthers
<1>5. CASE Fail(c)
  BY <1>1, <1>2, <1>4, <1>5 DEF Fail, Typed, Only
<1>6. CASE AnswerLost(c)
  <2>1. cmd[c].pc = "put" /\ Accepted(c)
    BY <1>6 DEF AnswerLost
  <2> QED BY <1>1, <1>2, <1>4, <2>1, AcceptedTyped DEF Typed, Only
<1> QED BY <1>5, <1>6

\* The editor, a restart and the other clients.
LEMMA RestTyped ==
  ASSUME Typed,
         \/ Close \/ Restart
         \/ \E i \in Item, v \in Version : Open(i, v)
         \/ \E i \in Item, live \in BOOLEAN : Others(i, live)
  PROVE  Typed'
<1> USE DEF server, cache, ghosts
<1>1. ASSUME NEW i \in Item, NEW v \in Version, Open(i, v)
      PROVE  Typed'
  <2>1. ed' \in Editor
    BY <1>1, VersionsTyped DEF Open, Editor, Via
  <2>2. \A d \in Command : WellFormed(d)'
    BY <1>1 DEF Open, Typed, WellFormed, Syncing
  <2> QED BY <1>1, <2>1, <2>2 DEF Open, Typed
<1>2. CASE Close
  <2>1. \A d \in Command : WellFormed(d)'
    BY <1>2, CloseChanges DEF Close, Typed, WellFormed, Syncing, Lasting
  <2>2. ed' \in Editor
    BY <1>2 DEF Close, Editor
  <2> QED BY <1>2, <2>1, <2>2, CloseChanges DEF Close, Typed
<1>3. CASE Restart
  <2>1. \A d \in Command : cmd'[d] = Idle
    BY <1>3 DEF Restart
  <2>2. \A d \in Command : WellFormed(d)'
    BY <2>1, IdleWellFormed
  <2>3. fails' \in 0..MaxFails /\ ed' \in Editor
    BY <1>3 DEF Restart, Typed, Editor
  <2>4. cmd' \in [Command -> CommandState]
    BY <1>3, IdleTyped DEF Restart
  <2>5. listed' \in [Item -> SUBSET (Version \ {0})]
    BY <1>3 DEF Restart, Typed
  <2> QED BY <1>3, <2>2, <2>3, <2>4, <2>5 DEF Restart, Typed
<1>4. ASSUME NEW i \in Item, NEW live \in BOOLEAN, Others(i, live)
      PROVE  Typed'
  <2>1. clock + 1 \in Version /\ clock' = clock + 1
    BY <1>4 DEF Others, Typed, Version
  <2>2. [v |-> clock + 1, live |-> live, last |-> clock + 1] \in ServerItem
    BY <2>1 DEF ServerItem
  <2>3. srv' \in [Item -> ServerItem] /\ raced' \in SUBSET Item
    BY <1>4, <2>2 DEF Others, Typed
  <2>4. \A d \in Command : WellFormed(d)'
    BY <1>4 DEF Others, Typed, WellFormed, Syncing
  <2> QED BY <1>4, <2>1, <2>3, <2>4 DEF Others, Typed
<1> QED BY <1>1, <1>2, <1>3, <1>4

LEMMA InitTyped ==
  ASSUME Init
  PROVE  Typed
<1>1. 0 \in Version /\ Nothing \in [Item -> Version]
  BY DEF Version, Nothing
<1>2. srv \in [Item -> ServerItem]
  BY <1>1 DEF Init, ServerItem
<1>3. cmd \in [Command -> CommandState] /\ \A c \in Command : WellFormed(c)
  BY IdleTyped DEF Init, WellFormed, Syncing
<1>4. listed \in [Item -> SUBSET (Version \ {0})]
  BY DEF Init
<1> QED BY <1>1, <1>2, <1>3, <1>4 DEF Init, Typed, Editor

LEMMA NextTyped ==
  ASSUME Typed, [Next]_vars
  PROVE  Typed'
<1>1. CASE UNCHANGED vars
  BY <1>1 DEF vars, Typed, WellFormed, Syncing
<1>2. ASSUME NEW c \in Command,
             \/ Save(c)
             \/ \E i \in Item : Create(c, i) \/ Delete(c, i)
             \/ \E i \in Item, v \in Version : Toggle(c, i, v)
      PROVE  Typed'
  BY <1>2, Begun, BegunTyped
<1>3. ASSUME NEW c \in Command, Sync(c) \/ Answers(c) \/ Fail(c) \/ AnswerLost(c)
      PROVE  Typed'
  BY <1>3, SyncingTyped, ApplyTyped, WriteTyped, FailTyped DEF Answers
<1> QED BY <1>1, <1>2, <1>3, RestTyped DEF Next

\* The state keeps its types; a command at rest carries nothing over, and one that
\* puts or records knows its item.
THEOREM TypeCorrect == Spec => []TypeOK
<1>1. Init => Typed
  BY InitTyped
<1>2. Typed /\ [Next]_vars => Typed'
  BY NextTyped
<1>3. Typed => TypeOK
  BY TypedTypeOK
<1> QED BY <1>1, <1>2, <1>3, PTL DEF Spec

-----------------------------------------------------------------------------
(* Versions. *)

\* A step that does nothing to the server.
LEMMA NumberedCommands ==
  ASSUME Typed, Numbered, UNCHANGED server, token' <= clock,
         \A c \in Command : cmd'[c].base <= clock /\ cmd'[c].new <= clock
  PROVE  Numbered'
BY DEF Numbered, server

LEMMA NumberedOne ==
  ASSUME Typed, Numbered, UNCHANGED <<server, token>>, NEW c \in Command, Only(c),
         cmd'[c].base <= clock, cmd'[c].new <= clock
  PROVE  Numbered'
BY NumberedCommands DEF Numbered, Only

\* A step that gives one item the next version.
LEMMA NumberedNext ==
  ASSUME Typed, Numbered, NEW i \in Item, clock' = clock + 1, token' = token,
         \A j \in Item : j # i => srv'[j] = srv[j],
         srv'[i].v = clock + 1, srv'[i].last \in {srv[i].last, clock + 1},
         \A c \in Command : /\ cmd'[c].base \in {0, cmd[c].base}
                            /\ cmd'[c].new \in {0, cmd[c].new}
  PROVE  Numbered'
<1>1. clock \in Nat /\ token \in Nat /\ Version \subseteq Nat
  BY DEF Typed, Version
<1>2. ASSUME NEW j \in Item
      PROVE  /\ srv'[j].v <= clock + 1 /\ srv'[j].last <= srv'[j].v
             /\ srv'[j].live => srv'[j].v > 0
  <2>1. /\ srv[j].v <= clock /\ srv[j].last <= srv[j].v /\ (srv[j].live => srv[j].v > 0)
        /\ srv[j].v \in Nat /\ srv[j].last \in Nat
    BY <1>1, VersionsTyped DEF Numbered
  <2>2. CASE j = i
    BY <1>1, <2>1, <2>2
  <2>3. CASE j # i
    BY <1>1, <2>1, <2>3
  <2> QED BY <2>2, <2>3
<1>3. ASSUME NEW c \in Command
      PROVE  cmd'[c].base <= clock + 1 /\ cmd'[c].new <= clock + 1
  <2>1. /\ cmd[c].base <= clock /\ cmd[c].new <= clock
        /\ cmd[c].base \in Nat /\ cmd[c].new \in Nat
    BY <1>1, VersionsTyped DEF Numbered
  <2> QED BY <1>1, <2>1
<1> QED BY <1>1, <1>2, <1>3 DEF Numbered

LEMMA NextNumbered ==
  ASSUME Typed, Numbered, [Next]_vars
  PROVE  Numbered'
<1> USE DEF server, cache, ghosts
<1>1. clock \in Nat /\ token \in Nat /\ token <= clock /\ Base <= clock /\ 0 <= clock
  BY VersionsTyped DEF Typed, Version, Numbered, Base
<1>a. \A c \in Command : cmd[c].base <= clock /\ cmd[c].new <= clock
  BY DEF Numbered
<1>2. ASSUME NEW c \in Command, Sync(c)
      PROVE  Numbered'
  BY <1>1, <1>2, SyncChanges, NumberedOne DEF Sync
<1>3. ASSUME NEW c \in Command, Report(c)
      PROVE  Numbered'
  <2>1. Only(c) /\ cmd'[c].base <= clock /\ cmd'[c].new <= clock
    BY <1>1, <1>a, <1>3, ReportChanges
  <2> QED BY <1>3, <2>1, NumberedOne DEF Report
<1>4. ASSUME NEW c \in Command, Fetch(c)
      PROVE  Numbered'
  BY <1>a, <1>4, FetchChanges, NumberedOne DEF Fetch
<1>5. ASSUME NEW c \in Command, List(c)
      PROVE  Numbered'
  BY <1>a, <1>5, ListChanges, NumberedOne DEF List
<1>6. ASSUME NEW c \in Command, SyncEnds(c) \/ Retry(c)
      PROVE  Numbered'
  <2>1. Apply(c)
    BY <1>6 DEF SyncEnds, Retry
  <2>2. token' <= clock
    BY <1>1, <1>a, <2>1 DEF Apply, Bookmark
  <2>3. Only(c) /\ cmd'[c].base \in {0, cmd[c].base} /\ cmd'[c].new \in {0, cmd[c].new}
    BY <1>6, EndChanges, RetryChanges, IdleTyped DEF SyncEnds
  <2>4. \A d \in Command : cmd'[d].base <= clock /\ cmd'[d].new <= clock
    BY <1>1, <1>a, <2>3 DEF Only
  <2> QED BY <2>1, <2>2, <2>4, NumberedCommands DEF Apply
<1>7. ASSUME NEW c \in Command,
             \/ Save(c)
             \/ \E i \in Item : Create(c, i) \/ Delete(c, i)
             \/ \E i \in Item, v \in Version : Toggle(c, i, v)
      PROVE  Numbered'
  <2>1. PICK op \in Op \ {"none", "sync"}, i \in Item, etag \in Version, seen \in Version,
             via \in Via : Begin(c, op, i, etag, seen, via)
    BY <1>7, Begun
  <2>2. UNCHANGED <<server, token>>
    BY <2>1 DEF Begin
  <2>3. Only(c) /\ cmd'[c].base = 0 /\ cmd'[c].new = 0
    BY <2>1, BeginChanges
  <2> QED BY <1>1, <2>2, <2>3, NumberedOne
<1>8. ASSUME NEW c \in Command, Put(c) \/ AnswerLost(c)
      PROVE  Numbered'
  <2>1. cmd[c].pc = "put" /\ Accepted(c)
    BY <1>8 DEF Put, AnswerLost
  <2>2. Only(c) /\ cmd'[c].base \in {0, cmd[c].base} /\ cmd'[c].new \in {0, cmd[c].new}
    BY <1>8, PutChanges, EndChanges, IdleTyped DEF AnswerLost
  <2>3. \A d \in Command : /\ cmd'[d].base \in {0, cmd[d].base}
                           /\ cmd'[d].new \in {0, cmd[d].new}
    BY <2>2 DEF Only
  <2> QED BY <2>1, <2>3, AcceptedTyped, NumberedNext
<1>9. ASSUME NEW c \in Command, AlreadyGone(c)
      PROVE  Numbered'
  BY <1>a, <1>9, PutChanges, NumberedOne DEF AlreadyGone
<1>10. ASSUME NEW c \in Command, Refused(c)
       PROVE  Numbered'
  <2>1. Only(c) /\ cmd'[c].base \in {0, Base} /\ cmd'[c].new \in {0, cmd[c].new}
    BY <1>10, PullChanges, EndChanges, IdleTyped DEF Refused
  <2>2. cmd'[c].base <= clock /\ cmd'[c].new <= clock
    BY <1>1, <1>a, <2>1
  <2> QED BY <1>10, <2>1, <2>2, NumberedOne DEF Refused
<1>11. ASSUME NEW c \in Command, Record(c) \/ Fail(c)
       PROVE  Numbered'
  BY <1>1, <1>11, EndChanges, IdleTyped, NumberedOne DEF Record, Fail
<1>12. CASE Close
  BY <1>1, <1>a, <1>12, CloseChanges, NumberedCommands DEF Close
<1>13. CASE Restart
  BY <1>1, <1>13, IdleTyped, NumberedCommands DEF Restart
<1>14. ASSUME NEW i \in Item, NEW live \in BOOLEAN, Others(i, live)
       PROVE  Numbered'
  <2>1. /\ clock' = clock + 1 /\ UNCHANGED <<token, cmd>>
        /\ \A j \in Item : j # i => srv'[j] = srv[j]
        /\ srv'[i].v = clock + 1 /\ srv'[i].last = clock + 1
    BY <1>14 DEF Others, Typed
  <2> QED BY <2>1, NumberedNext
<1>15. CASE (\E i \in Item, v \in Version : Open(i, v)) \/ UNCHANGED vars
  BY <1>1, <1>a, <1>15, NumberedCommands DEF Open, vars
<1> QED BY <1>2, <1>3, <1>4, <1>5, <1>6, <1>7, <1>8, <1>9, <1>10, <1>11, <1>12, <1>13,
           <1>14, <1>15 DEF Next, Answers

LEMMA InitNumbered ==
  ASSUME Init
  PROVE  Numbered
BY IdleTyped DEF Init, Numbered

-----------------------------------------------------------------------------
(* What a write replaces. *)

SeesInv == Typed /\ Numbered /\ EditorSees /\ CommandSees /\ NoBlindWrite

\* What one save sends its user has seen.
Sees(c) ==
  cmd[c].pc = "put" /\ cmd[c].op = "save" /\ kind \in {"task", "note"} =>
    cmd[c].via = "handed" \/ cmd[c].seen = cmd[c].etag

LEMMA SeesOne ==
  ASSUME CommandSees, NEW c \in Command, Only(c), kind' = kind, Sees(c)'
  PROVE  CommandSees'
BY DEF CommandSees, Sees, Only

\* A command that is not about to put keeps what it has.
LEMMA SeesLasting ==
  ASSUME Typed, CommandSees, NEW c \in Command, kind' = kind, Lasting(c),
         cmd[c].pc # "idle", cmd'[c].pc # "put" \/ kind = "event"
  PROVE  Sees(c)'
BY DEF CommandSees, Sees, Lasting

\* An accepted write of a text that has changed since its user looked.
LEMMA AcceptedSees ==
  ASSUME SeesInv, NEW c \in Command, cmd[c].pc = "put", Accepted(c)
  PROVE  NoBlindWrite'
<1>1. CASE ~ Unseen(c)
  BY <1>1 DEF Accepted, SeesInv, NoBlindWrite
<1>2. CASE Unseen(c)
  <2>1. PICK i \in Item : i = cmd[c].item
    BY DEF SeesInv, Typed, WellFormed
  <2>2. lost' = lost \cup {cmd[c].via} /\ kind' = kind /\ cmd[c].op = "save"
    BY <1>2 DEF Accepted, Unseen
  <2>3. /\ srv[i].last \in Nat /\ srv[i].v \in Nat /\ cmd[c].seen \in Nat
        /\ srv[i].last <= srv[i].v /\ srv[i].last > cmd[c].seen
    BY <1>2, <2>1, VersionsTyped DEF Unseen, Older, SeesInv, Numbered
  <2>4. srv[i].v = cmd[c].etag
    BY <2>1, <2>2 DEF Accepted, Matches
  <2>5. cmd[c].seen # cmd[c].etag
    BY <2>3, <2>4
  <2>6. kind \in {"task", "note"} => cmd[c].via = "handed"
    BY <2>2, <2>5 DEF SeesInv, CommandSees
  <2> QED BY <2>2, <2>6 DEF SeesInv, NoBlindWrite
<1> QED BY <1>1, <1>2

LEMMA NextSees ==
  ASSUME SeesInv, [Next]_vars
  PROVE  SeesInv'
<1> USE DEF server, cache, ghosts
<1>1. Typed /\ Numbered /\ EditorSees /\ CommandSees /\ NoBlindWrite /\ Typed' /\ Numbered'
  BY NextTyped, NextNumbered DEF SeesInv
<1>2. ASSUME UNCHANGED <<kind, lost, ed>>, CommandSees'
      PROVE  SeesInv'
  BY <1>1, <1>2 DEF SeesInv, EditorSees, NoBlindWrite
<1>3. ASSUME NEW c \in Command, cmd'[c] = Idle
      PROVE  Sees(c)'
  BY <1>3, IdleTyped DEF Sees
<1>4. ASSUME NEW c \in Command, Sync(c)
      PROVE  SeesInv'
  <2>1. Sees(c)'
    BY <1>1, <1>4, SyncChanges DEF Sees
  <2> QED BY <1>1, <1>2, <1>4, <2>1, SyncChanges, SeesOne DEF Sync
<1>5. ASSUME NEW c \in Command, Report(c) \/ Fetch(c) \/ List(c)
      PROVE  SeesInv'
  <2>1. UNCHANGED <<kind, lost, ed>> /\ cmd[c].pc # "idle"
    BY <1>5 DEF Report, Fetch, List
  <2>2. Only(c) /\ Lasting(c) /\ cmd'[c].pc # "put"
    BY <1>1, <1>5, ReportChanges, FetchChanges, ListChanges
  <2> QED BY <1>1, <1>2, <2>1, <2>2, SeesLasting, SeesOne
<1>6. ASSUME NEW c \in Command, SyncEnds(c) \/ Retry(c)
      PROVE  SeesInv'
  <2>1. UNCHANGED <<kind, lost, ed>>
    BY <1>6 DEF SyncEnds, Retry, Apply
  <2>2. CASE cmd'[c] = Idle /\ Only(c)
    BY <1>1, <1>2, <1>3, <2>1, <2>2, SeesOne
  <2>3. CASE Retry(c) /\ cmd'[c] # Idle
    <3>1. Only(c) /\ Lasting(c)
      BY <1>1, <2>3, RetryChanges
    <3>2. cmd[c].pc # "idle" /\ kind = "event"
      BY <1>1, <2>3 DEF Retry, At, Typed, WellFormed, Syncing
    <3> QED BY <1>1, <1>2, <2>1, <3>1, <3>2, SeesLasting, SeesOne
  <2> QED BY <1>1, <1>6, <2>2, <2>3, EndChanges, RetryChanges DEF SyncEnds
<1>7. ASSUME NEW c \in Command,
             \/ Save(c)
             \/ \E i \in Item : Create(c, i) \/ Delete(c, i)
             \/ \E i \in Item, v \in Version : Toggle(c, i, v)
      PROVE  SeesInv'
  <2>1. PICK op \in Op \ {"none", "sync"}, i \in Item, etag \in Version, seen \in Version,
             via \in Via :
           /\ Begin(c, op, i, etag, seen, via)
           /\ op = "save" => ed.open /\ etag = SaveEtag /\ seen = ed.seen /\ via = ed.via
    BY <1>1, <1>7, Begun
  <2>2. UNCHANGED <<kind, lost, ed>>
    BY <2>1 DEF Begin
  <2>3. /\ Only(c) /\ cmd'[c].op = op /\ cmd'[c].pc = "put" /\ cmd'[c].etag = etag
        /\ cmd'[c].seen = seen /\ cmd'[c].via = via
    BY <1>1, <2>1, BeginChanges
  <2>4. op = "save" /\ kind \in {"task", "note"} => via = "handed" \/ seen = etag
    BY <1>1, <2>1 DEF EditorSees, SaveEtag, Via
  <2>5. Sees(c)'
    BY <2>2, <2>3, <2>4 DEF Sees
  <2> QED BY <1>1, <1>2, <2>2, <2>3, <2>5, SeesOne
<1>8. ASSUME NEW c \in Command, Put(c) \/ AnswerLost(c)
      PROVE  SeesInv'
  <2>1. cmd[c].pc = "put" /\ Accepted(c)
    BY <1>8 DEF Put, AnswerLost
  <2>2. UNCHANGED <<kind, ed>>
    BY <2>1 DEF Accepted
  <2>3. Only(c) /\ (cmd'[c] = Idle \/ (Lasting(c) /\ cmd'[c].pc = "record"))
    BY <1>1, <1>8, PutChanges, EndChanges DEF AnswerLost
  <2>4. Sees(c)'
    BY <1>1, <1>3, <2>1, <2>2, <2>3, SeesLasting
  <2> QED BY <1>1, <2>1, <2>2, <2>3, <2>4, AcceptedSees, SeesOne DEF SeesInv, EditorSees
<1>9. ASSUME NEW c \in Command, AlreadyGone(c)
      PROVE  SeesInv'
  <2>1. UNCHANGED <<kind, lost, ed>> /\ cmd[c].pc # "idle"
    BY <1>9 DEF AlreadyGone, At
  <2> QED BY <1>1, <1>2, <1>9, <2>1, PutChanges, SeesLasting, SeesOne
<1>10. ASSUME NEW c \in Command, Refused(c)
       PROVE  SeesInv'
  <2>1. UNCHANGED <<kind, lost, ed>> /\ cmd[c].pc # "idle"
    BY <1>10 DEF Refused
  <2>2. Only(c) /\ (cmd'[c] = Idle \/ (Lasting(c) /\ cmd'[c].pc = "report"))
    BY <1>1, <1>10, PullChanges, EndChanges DEF Refused
  <2>3. Sees(c)'
    BY <1>1, <1>3, <2>1, <2>2, SeesLasting
  <2> QED BY <1>1, <1>2, <2>1, <2>2, <2>3, SeesOne
<1>11. ASSUME NEW c \in Command, Record(c)
       PROVE  SeesInv'
  <2>1. UNCHANGED <<kind, lost>> /\ ed' = EditorAfter(c) /\ Only(c) /\ cmd'[c] = Idle
    BY <1>1, <1>11, EndChanges DEF Record
  <2>2. CommandSees'
    BY <1>1, <1>3, <2>1, SeesOne
  <2>3. EditorSees'
    <3>1. CASE ed' = ed
      BY <1>1, <2>1, <3>1 DEF EditorSees
    <3>2. CASE ed' = Closed
      BY <3>2 DEF EditorSees, Closed
    <3>3. CASE /\ ed.open /\ kind \notin {"event", "contact"}
               /\ ed' \in {[ed EXCEPT !.etag = cmd[c].etag, !.seen = cmd[c].etag],
                           [ed EXCEPT !.etag = cmd[c].etag, !.via = "handed"]}
      <4>1. ed \in [open : {TRUE}, item : Item, seen : Version, etag : Version, via : Via]
        BY <1>1, <3>3, EditorFields
      <4>2. ed'.via = "handed" \/ ed'.seen = ed'.etag
        BY <3>3, <4>1
      <4> QED BY <2>1, <3>3, <4>2 DEF EditorSees
    <3> QED BY <2>1, <3>1, <3>2, <3>3 DEF EditorAfter
  <2> QED BY <1>1, <2>1, <2>2, <2>3 DEF SeesInv, NoBlindWrite
<1>12. ASSUME NEW c \in Command, Fail(c)
       PROVE  SeesInv'
  <2>1. UNCHANGED <<kind, lost, ed>> /\ Only(c) /\ cmd'[c] = Idle
    BY <1>1, <1>12, EndChanges DEF Fail
  <2> QED BY <1>1, <1>2, <1>3, <2>1, SeesOne
<1>13. CASE Close
  <2>1. CommandSees'
    BY <1>1, <1>13, CloseChanges DEF Close, CommandSees, Lasting
  <2> QED BY <1>1, <1>13, <2>1 DEF Close, SeesInv, EditorSees, Closed, NoBlindWrite
<1>14. CASE Restart
  <2>1. CommandSees'
    BY <1>14, IdleTyped DEF Restart, CommandSees
  <2> QED BY <1>1, <1>14, <2>1 DEF Restart, SeesInv, EditorSees, Closed, NoBlindWrite
<1>15. ASSUME NEW i \in Item, NEW v \in Version, Open(i, v)
       PROVE  SeesInv'
  <2>1. EditorSees'
    BY <1>15 DEF Open, EditorSees
  <2> QED BY <1>1, <1>15, <2>1 DEF Open, SeesInv, CommandSees, NoBlindWrite
<1>16. CASE (\E i \in Item, live \in BOOLEAN : Others(i, live)) \/ UNCHANGED vars
  BY <1>1, <1>2, <1>16 DEF Others, vars, CommandSees
<1> QED BY <1>4, <1>5, <1>6, <1>7, <1>8, <1>9, <1>10, <1>11, <1>12, <1>13, <1>14, <1>15,
           <1>16 DEF Next, Answers, SeesInv

\* No save of a task or a note replaces a text its user has not seen, unless an answer
\* to something else gave the editor its etag: the etag sent is that of the text the
\* editor shows, whichever syncs moved the row in between, so the server refuses it
\* (If-Match) after any change of the text.
THEOREM NoBlindWrites == Spec => []NoBlindWrite
<1>1. Init => SeesInv
  <2>1. Init => EditorSees /\ CommandSees /\ NoBlindWrite
    BY IdleTyped DEF Init, EditorSees, Closed, CommandSees, NoBlindWrite
  <2> QED BY <2>1, InitTyped, InitNumbered DEF SeesInv
<1>2. SeesInv /\ [Next]_vars => SeesInv'
  BY NextSees
<1>3. SeesInv => NoBlindWrite
  BY DEF SeesInv
<1> QED BY <1>1, <1>2, <1>3, PTL DEF Spec

-----------------------------------------------------------------------------
(* What a sync hears of. *)

\* What is known of one command.
TellsOf(c) ==
  /\ Syncing(c) => \A i \in Item : Tracked(i, cmd[c].base)
  /\ cmd[c].pc = "record" => cmd[c].item \in raced \/ cmd[c].etag = Live(cmd[c].item)
  /\ Answered(c) => \A i \in Item : srv[i].v > cmd[c].new \/ Says(c, i)

LEMMA TellsOfAll ==
  Tells <=> (\A i \in Item : Tracked(i, token)) /\ \A c \in Command : TellsOf(c)
BY DEF Tells, BookmarkBehind, RecordTrue, AnswerTrue, TellsOf

LEMMA AnswersAreOfSyncs ==
  ASSUME NEW c \in Command
  PROVE  Answered(c) => Syncing(c)
BY DEF Answered, Syncing

\* What a command has of a sync.
SameSync(c) ==
  /\ cmd'[c].pc = cmd[c].pc /\ cmd'[c].base = cmd[c].base /\ cmd'[c].new = cmd[c].new
  /\ cmd'[c].got = cmd[c].got /\ cmd'[c].gone = cmd[c].gone
  /\ cmd'[c].item = cmd[c].item /\ cmd'[c].etag = cmd[c].etag

\* Rows and server stay, and no command gets an answer it had not.
LEMMA SettlesTells ==
  ASSUME Typed, Tells, UNCHANGED <<srv, row, token>>, raced \subseteq raced',
         \A c \in Command : SameSync(c) \/ (cmd'[c].pc \in {"idle", "put"}),
         \A c \in Command : \A i \in Item : cmd'[c].got[i] \in {0, cmd[c].got[i]}
  PROVE  Tells'
<1>1. \A i \in Item : Live(i)' = Live(i)
  BY DEF Live
<1>2. \A i \in Item : Forgotten(i) => Forgotten(i)'
  BY DEF Forgotten
<1>3. \A i \in Item : Tracked(i, token)'
  BY <1>1, TellsOfAll DEF Tracked
<1>4. ASSUME NEW c \in Command, SameSync(c)
      PROVE  TellsOf(c)'
  <2>1. TellsOf(c)
    BY TellsOfAll
  <2>2. Syncing(c)' => \A i \in Item : Tracked(i, cmd[c].base)'
    BY <1>1, <1>4, <2>1 DEF TellsOf, SameSync, Tracked, Syncing
  <2>3. cmd'[c].item \in Item => Live(cmd[c].item)' = Live(cmd[c].item)
    BY <1>1, <1>4 DEF SameSync
  <2>4. \A i \in Item : Says(c, i) => Says(c, i)'
    BY <1>1, <1>2, <1>4 DEF SameSync, Says
  <2>5. cmd[c].pc = "record" => cmd[c].item \in Item
    BY DEF Typed, WellFormed
  <2> QED BY <1>4, <2>1, <2>2, <2>3, <2>4, <2>5 DEF TellsOf, SameSync, Syncing, Answered
<1>5. ASSUME NEW c \in Command, cmd'[c].pc \in {"idle", "put"}
      PROVE  TellsOf(c)'
  BY <1>5 DEF TellsOf, Syncing, Answered
<1> QED BY <1>3, <1>4, <1>5 DEF Tells, BookmarkBehind, RecordTrue, AnswerTrue, TellsOf

\* One command moves: the others keep what they have been told.
LEMMA OneTells ==
  ASSUME Typed, Tells, UNCHANGED <<srv, row, token>>, raced \subseteq raced',
         NEW c \in Command, Only(c), TellsOf(c)',
         \A i \in Item : Live(i) = 0 /\ Forgotten(i) => cmd'[c].got[i] = 0
  PROVE  Tells'
<1>1. \A i \in Item : Live(i)' = Live(i)
  BY DEF Live
<1>2. \A i \in Item : Live(i) = 0 /\ Forgotten(i) => Forgotten(i)'
  BY DEF Forgotten, Only
<1>3. \A i \in Item : Tracked(i, token)'
  BY <1>1, TellsOfAll DEF Tracked
<1>4. ASSUME NEW d \in Command, d # c
      PROVE  TellsOf(d)'
  <2>1. TellsOf(d) /\ cmd'[d] = cmd[d]
    BY <1>4, TellsOfAll DEF Only
  <2>2. Syncing(d) => \A i \in Item : Tracked(i, cmd[d].base)'
    BY <1>1, <2>1 DEF TellsOf, Tracked
  <2>3. \A i \in Item : Says(d, i) => Says(d, i)'
    BY <1>1, <1>2, <2>1 DEF Says
  <2>4. cmd[d].pc = "record" => cmd[d].item \in Item
    BY DEF Typed, WellFormed
  <2> QED BY <1>1, <2>1, <2>2, <2>3, <2>4 DEF TellsOf, Syncing, Answered
<1> QED BY <1>3, <1>4 DEF Tells, BookmarkBehind, RecordTrue, AnswerTrue, TellsOf

\* A bookmark that was just read.
LEMMA BaseTracked ==
  ASSUME Typed, Numbered, Tells, kind # "note", NEW i \in Item
  PROVE  Tracked(i, Base)
<1>1. CASE Base = token
  BY <1>1, TellsOfAll
<1>2. CASE row = Nothing /\ Base = 0
  <2>1. row[i] = 0
    BY <1>2 DEF Nothing
  <2>2. Live(i) = 0 \/ srv[i].v > 0
    BY DEF Live, Numbered
  <2> QED BY <1>2, <2>1, <2>2 DEF Tracked
<1> QED BY <1>1, <1>2 DEF Base

LEMMA PullTells ==
  ASSUME Typed, Numbered, Tells, kind # "note", NEW c \in Command,
         Sync(c) \/ (Refused(c) /\ Retries(c))
  PROVE  Tells'
<1>1. /\ Only(c) /\ cmd'[c].pc = "report" /\ cmd'[c].base = Base
      /\ cmd'[c].got \in {Nothing, cmd[c].got}
  BY SyncChanges, PullChanges DEF Refused
<1>2. UNCHANGED <<srv, row, token, raced>>
  BY DEF Sync, Refused, server, cache, ghosts
<1>3. PICK base \in Version : base = Base
  BY VersionsTyped
<1>4. TellsOf(c)'
  <2>1. \A i \in Item : Tracked(i, base)'
    BY <1>2, <1>3, BaseTracked DEF Tracked, Live
  <2>2. \A i \in Item : Tracked(i, cmd[c].base)'
    BY <1>1, <1>3, <2>1 DEF Tracked
  <2> QED BY <1>1, <2>2 DEF TellsOf, Answered
<1>5. \A i \in Item : Forgotten(i) => cmd'[c].got[i] = 0
  BY <1>1 DEF Forgotten, Nothing
<1> QED BY <1>1, <1>2, <1>4, <1>5, OneTells

\* The answer to sync-collection names every item that has changed since the bookmark,
\* or, without one, every item that is live.
LEMMA ReportTells ==
  ASSUME Typed, Numbered, Tells, NEW c \in Command, Report(c)
  PROVE  Tells'
<1>1. /\ Only(c) /\ cmd'[c].pc \in {"fetch", "apply"} /\ cmd'[c].base = cmd[c].base
      /\ cmd'[c].new = clock /\ cmd'[c].gone = Deleted(cmd[c].base)
      /\ \A i \in Item :
           cmd'[c].got[i] = IF i \in Changed(cmd[c].base) THEN srv[i].v ELSE 0
  BY ReportChanges
<1>2. UNCHANGED <<srv, row, token>> /\ raced \subseteq raced' /\ cmd[c].pc = "report"
      /\ (cmd[c].base = 0 => Unnamed \subseteq raced')
  BY DEF Report, server, cache
<1>3. \A i \in Item : Live(i)' = Live(i)
  BY <1>2 DEF Live
<1>4. \A i \in Item : Tracked(i, cmd[c].base)'
  <2>1. \A i \in Item : Tracked(i, cmd[c].base)
    BY <1>2, TellsOfAll DEF TellsOf, Syncing
  <2> QED BY <1>1, <1>2, <1>3, <2>1 DEF Tracked
<1>5. ASSUME NEW i \in Item, ~ srv[i].live
      PROVE  cmd'[c].got[i] = 0 /\ Live(i) = 0
  BY <1>1, <1>5 DEF Changed, Live
<1>6. \A i \in Item : Live(i) = 0 /\ Forgotten(i) => cmd'[c].got[i] = 0
  <2>1. \A i \in Item : srv[i].live => Live(i) # 0
    BY VersionsTyped DEF Live, Numbered, Version
  <2> QED BY <1>5, <2>1
<1>7. ASSUME NEW i \in Item
      PROVE  Says(c, i)'
  <2>1. cmd[c].base \in Nat /\ srv[i].v \in Nat
    BY VersionsTyped
  <2>2. CASE srv[i].v <= cmd[c].base
    <3>1. i \notin Changed(cmd[c].base) /\ i \notin Deleted(cmd[c].base)
      BY <2>1, <2>2 DEF Changed, Deleted
    <3> QED BY <1>1, <1>2, <2>2, <3>1 DEF Says
  <2>3. CASE srv[i].v > cmd[c].base /\ srv[i].live
    <3>1. cmd'[c].got[i] = srv[i].v /\ Live(i) = srv[i].v /\ srv[i].v # 0
      BY <1>1, <2>1, <2>3 DEF Changed, Live
    <3> QED BY <1>3, <3>1 DEF Says
  <2>4. CASE srv[i].v > cmd[c].base /\ ~ srv[i].live /\ cmd[c].base # 0
    <3>1. i \in Deleted(cmd[c].base)
      BY <2>4 DEF Deleted
    <3> QED BY <1>1, <1>3, <1>5, <2>4, <3>1 DEF Says
  <2>5. CASE srv[i].v > cmd[c].base /\ ~ srv[i].live /\ cmd[c].base = 0
    <3>1. i \in raced' \/ ~ Held(i)
      BY <1>2, <2>1, <2>5 DEF Unnamed
    <3>2. ~ Held(i) => Forgotten(i)'
      BY <1>1, <1>2, <1>5, <2>5 DEF Held, Forgotten, Only
    <3> QED BY <1>3, <1>5, <2>5, <3>1, <3>2 DEF Says
  <2> QED BY <2>1, <2>2, <2>3, <2>4, <2>5
<1>8. TellsOf(c)'
  BY <1>1, <1>4, <1>7 DEF TellsOf, Syncing, Answered
<1> QED BY <1>1, <1>2, <1>6, <1>8, OneTells

\* The bodies are as new as the answer, or newer.
LEMMA FetchTells ==
  ASSUME Typed, Numbered, Tells, NEW c \in Command, Fetch(c)
  PROVE  Tells'
<1>1. /\ Only(c) /\ cmd'[c].pc = "apply" /\ cmd'[c].base = cmd[c].base
      /\ cmd'[c].new = cmd[c].new /\ cmd'[c].gone = cmd[c].gone
      /\ \A i \in Item : cmd'[c].got[i] = IF cmd[c].got[i] = 0 THEN 0 ELSE Live(i)
  BY FetchChanges
<1>2. UNCHANGED <<srv, row, token, raced>> /\ cmd[c].pc = "fetch"
  BY DEF Fetch, server, cache, ghosts
<1>3. \A i \in Item : Live(i)' = Live(i)
  BY <1>2 DEF Live
<1>4. TellsOf(c)
  BY TellsOfAll
<1>5. \A i \in Item : Tracked(i, cmd[c].base)'
  BY <1>1, <1>2, <1>3, <1>4 DEF TellsOf, Syncing, Tracked
<1>6. \A i \in Item : Forgotten(i) => cmd'[c].got[i] = 0 /\ Forgotten(i)'
  BY <1>1, <1>2 DEF Forgotten, Only
<1>7. \A i \in Item : Says(c, i) => Says(c, i)'
  BY <1>1, <1>2, <1>3, <1>6 DEF Says
<1>8. TellsOf(c)'
  BY <1>1, <1>2, <1>4, <1>5, <1>7 DEF TellsOf, Syncing, Answered
<1> QED BY <1>1, <1>2, <1>6, <1>8, OneTells

\* The server gives an item its next version: every answer is older.
LEMMA ServerTells ==
  ASSUME Typed, Numbered, Tells, NEW i \in Item, clock' = clock + 1, UNCHANGED <<row, token>>,
         \A j \in Item : j # i => srv'[j] = srv[j],
         srv'[i].v = clock + 1, raced \subseteq raced', Unrecorded(i) => i \in raced',
         \A c \in Command : \A j \in Item : cmd'[c].got[j] \in {0, cmd[c].got[j]},
         \A c \in Command :
           \/ SameSync(c)
           \/ cmd'[c].pc = "idle"
           \/ cmd'[c].pc = "record" /\ cmd'[c].item = i
              /\ (i \in raced' \/ cmd'[c].etag = Live(i)')
  PROVE  Tells'
<1>1. clock \in Nat /\ token \in Nat /\ token <= clock
  BY VersionsTyped DEF Typed, Version, Numbered
<1>2. \A j \in Item : j # i => Live(j)' = Live(j)
  BY DEF Live
<1>3. \A j \in Item : Forgotten(j) => Forgotten(j)'
  BY DEF Forgotten
<1>4. ASSUME NEW j \in Item, NEW b \in Nat, b <= clock, Tracked(j, b)
      PROVE  Tracked(j, b)'
  <2>1. CASE j = i
    BY <1>1, <1>4, <2>1 DEF Tracked
  <2>2. CASE j # i
    BY <1>2, <1>4, <2>2 DEF Tracked
  <2> QED BY <2>1, <2>2
<1>5. \A j \in Item : Tracked(j, token)'
  <2>1. PICK b \in Nat : b = token
    BY <1>1
  <2>2. \A j \in Item : Tracked(j, b)'
    BY <1>1, <1>4, <2>1, TellsOfAll
  <2> QED BY <2>1, <2>2 DEF Tracked
<1>6. ASSUME NEW c \in Command, SameSync(c)
      PROVE  TellsOf(c)'
  <2>1. TellsOf(c)
    BY TellsOfAll
  <2>2. PICK b \in Nat, n \in Nat : b = cmd[c].base /\ n = cmd[c].new /\ b <= clock /\ n <= clock
    BY VersionsTyped DEF Numbered
  <2>3. Syncing(c) => \A j \in Item : Tracked(j, b)'
    BY <1>4, <2>1, <2>2 DEF TellsOf
  <2>4. Syncing(c) => \A j \in Item : Tracked(j, cmd[c].base)'
    BY <1>6, <2>2, <2>3 DEF Tracked, SameSync
  <2>5. Answered(c) => \A j \in Item : j # i /\ Says(c, j) => Says(c, j)'
    BY <1>2, <1>3, <1>6 DEF Says, SameSync
  <2>6. Answered(c) => \A j \in Item : srv'[j].v > n \/ Says(c, j)'
    BY <1>1, <2>1, <2>2, <2>5 DEF TellsOf
  <2>7. cmd[c].pc = "record" =>
          cmd[c].item \in raced' \/ cmd[c].etag = Live(cmd[c].item)'
    <3>1. SUFFICES ASSUME cmd[c].pc = "record"
                   PROVE  cmd[c].item \in raced' \/ cmd[c].etag = Live(cmd[c].item)'
      OBVIOUS
    <3>2. PICK k \in Item : k = cmd[c].item
      BY <3>1 DEF Typed, WellFormed
    <3>3. CASE k = i
      BY <3>1, <3>2, <3>3 DEF Unrecorded
    <3>4. CASE k # i
      <4>1. k \in raced \/ cmd[c].etag = Live(k)
        BY <2>1, <3>1, <3>2 DEF TellsOf
      <4>2. Live(k)' = Live(k)
        BY <1>2, <3>4
      <4>3. Live(cmd[c].item)' = Live(k)'
        BY <1>6, <3>2 DEF SameSync
      <4> QED BY <3>2, <4>1, <4>2, <4>3
    <3> QED BY <3>3, <3>4
  <2> QED BY <1>6, <2>2, <2>4, <2>6, <2>7 DEF TellsOf, SameSync, Syncing, Answered
<1>7. ASSUME NEW c \in Command, cmd'[c].pc = "idle"
      PROVE  TellsOf(c)'
  BY <1>7 DEF TellsOf, Syncing, Answered
<1>8. ASSUME NEW c \in Command, cmd'[c].pc = "record", cmd'[c].item = i,
             i \in raced' \/ cmd'[c].etag = Live(i)'
      PROVE  TellsOf(c)'
  BY <1>8 DEF TellsOf, Syncing, Answered, Live
<1>9. \A c \in Command : TellsOf(c)'
  BY <1>6, <1>7, <1>8
<1> QED BY <1>5, <1>9 DEF Tells, BookmarkBehind, RecordTrue, AnswerTrue, TellsOf

LEMMA AcceptedTells ==
  ASSUME Typed, Numbered, Tells, NEW c \in Command, Put(c) \/ AnswerLost(c)
  PROVE  Tells'
<1>1. cmd[c].pc = "put" /\ Accepted(c)
  BY DEF Put, AnswerLost
<1>2. PICK i \in Item : i = cmd[c].item
  BY <1>1, AcceptedTyped
<1>3. /\ clock' = clock + 1 /\ UNCHANGED <<row, token>> /\ raced \subseteq raced'
      /\ Unrecorded(i) => i \in raced'
      /\ \A j \in Item : j # i => srv'[j] = srv[j]
      /\ srv'[i].v = clock + 1 /\ (srv'[i].live <=> cmd[c].op # "delete")
  BY <1>1, <1>2, AcceptedTyped DEF cache
<1>4. Live(i)' = IF cmd[c].op = "delete" THEN 0 ELSE clock + 1
  BY <1>3 DEF Live
<1>5. /\ Only(c)
      /\ \/ cmd'[c] = Idle
         \/ /\ cmd'[c].pc = "record" /\ cmd'[c].item = i /\ cmd'[c].etag = Live(i)'
            /\ cmd'[c].got = cmd[c].got
  BY <1>2, <1>4, PutChanges, EndChanges DEF AnswerLost, Lasting
<1>6. \A d \in Command : \A j \in Item : cmd'[d].got[j] \in {0, cmd[d].got[j]}
  BY <1>5, IdleTyped DEF Only, Nothing
<1>7. \A d \in Command \ {c} : SameSync(d)
  BY <1>5 DEF Only, SameSync
<1>8. \A d \in Command : \/ SameSync(d) \/ cmd'[d].pc = "idle"
                         \/ cmd'[d].pc = "record" /\ cmd'[d].item = i
                            /\ (i \in raced' \/ cmd'[d].etag = Live(i)')
  BY <1>5, <1>7, IdleTyped
<1> QED BY <1>3, <1>6, <1>8, ServerTells

LEMMA OthersTells ==
  ASSUME Typed, Numbered, Tells, NEW i \in Item, NEW live \in BOOLEAN, Others(i, live)
  PROVE  Tells'
<1>1. /\ clock' = clock + 1 /\ UNCHANGED <<row, token, cmd>> /\ raced \subseteq raced'
      /\ Unrecorded(i) => i \in raced'
      /\ \A j \in Item : j # i => srv'[j] = srv[j]
      /\ srv'[i].v = clock + 1
  BY DEF Others, Typed, cache
<1>2. \A c \in Command : SameSync(c)
  BY <1>1 DEF SameSync
<1> QED BY <1>1, <1>2, ServerTells

\* A delete of what is gone records that it is gone.
LEMMA AlreadyGoneTells ==
  ASSUME Typed, Tells, NEW c \in Command, AlreadyGone(c)
  PROVE  Tells'
<1>1. PICK i \in Item : i = cmd[c].item
  BY DEF Typed, WellFormed, AlreadyGone, At
<1>2. UNCHANGED <<srv, row, token, raced>> /\ ~ srv[i].live
  BY <1>1 DEF AlreadyGone, server, cache, ghosts
<1>3. /\ Only(c) /\ cmd'[c].pc = "record" /\ cmd'[c].item = i /\ cmd'[c].etag = 0
      /\ cmd'[c].got = cmd[c].got
  BY <1>1, PutChanges DEF Lasting
<1>4. Live(i)' = 0
  BY <1>2 DEF Live
<1>5. TellsOf(c)'
  BY <1>3, <1>4 DEF TellsOf, Syncing, Answered, Live
<1>6. \A j \in Item : Forgotten(j) => cmd'[c].got[j] = 0
  BY <1>3 DEF Forgotten
<1> QED BY <1>2, <1>3, <1>5, <1>6, OneTells

LEMMA RecordTells ==
  ASSUME Typed, Tells, NEW c \in Command, Record(c)
  PROVE  Tells'
<1>1. PICK k \in Item : k = cmd[c].item
  BY DEF Typed, WellFormed, Record
<1>2. UNCHANGED <<srv, token, raced>> /\ cmd[c].pc = "record"
  BY DEF Record, server, cache, ghosts
<1>3. Only(c) /\ cmd'[c] = Idle
  BY EndChanges DEF Record
<1>4. /\ row'[k] = cmd[c].etag
      /\ \A i \in Item : i # k => row'[i] = row[i]
  BY <1>1 DEF Record, WriteRow, Typed
<1>5. k \in raced \/ row'[k] = Live(k)
  BY <1>1, <1>2, <1>4, TellsOfAll DEF TellsOf
<1>6. \A i \in Item : Live(i)' = Live(i)
  BY <1>2 DEF Live
<1>7. ASSUME NEW i \in Item, NEW b \in Version, Tracked(i, b)
      PROVE  Tracked(i, b)'
  BY <1>2, <1>4, <1>5, <1>6, <1>7 DEF Tracked
<1>8. \A i \in Item : Tracked(i, token)'
  <2>1. PICK b \in Version : b = token
    BY DEF Typed
  <2>2. \A i \in Item : Tracked(i, b)'
    BY <1>7, <2>1, TellsOfAll
  <2> QED BY <1>2, <2>1, <2>2 DEF Tracked
<1>9. TellsOf(c)'
  BY <1>3, IdleTyped DEF TellsOf, Syncing, Answered
<1>10. ASSUME NEW d \in Command, d # c
       PROVE  TellsOf(d)'
  <2>1. TellsOf(d) /\ cmd'[d] = cmd[d]
    BY <1>3, <1>10, TellsOfAll DEF Only
  <2>2. PICK b \in Version : b = cmd[d].base
    BY VersionsTyped
  <2>3. Syncing(d) => \A i \in Item : Tracked(i, b)'
    BY <1>7, <2>1, <2>2 DEF TellsOf
  <2>4. Syncing(d) => \A i \in Item : Tracked(i, cmd[d].base)'
    BY <2>1, <2>2, <2>3 DEF Tracked
  <2>5. \A i \in Item : Live(i) = 0 /\ (i \in raced \/ Forgotten(i)) =>
                          i \in raced' \/ Forgotten(i)'
    BY <1>2, <1>3, <1>4, <1>5, IdleTyped DEF Forgotten, Only, Nothing
  <2>6. \A i \in Item : Says(d, i) => Says(d, i)'
    BY <1>2, <1>6, <2>1, <2>5 DEF Says
  <2>7. cmd[d].pc = "record" => cmd[d].item \in Item
    BY DEF Typed, WellFormed
  <2> QED BY <1>2, <1>6, <2>1, <2>4, <2>6, <2>7 DEF TellsOf, Syncing, Answered
<1> QED BY <1>8, <1>9, <1>10 DEF Tells, BookmarkBehind, RecordTrue, AnswerTrue, TellsOf

\* Rows and bookmark are written together: what was not named has not changed since
\* the old bookmark, and what has changed since the answer is newer than the new one.
LEMMA ApplyTells ==
  ASSUME Typed, Numbered, Tells, kind # "note", NEW c \in Command, SyncEnds(c) \/ Retry(c)
  PROVE  Tells'
<1>1. Apply(c) /\ cmd[c].pc = "apply"
  BY DEF SyncEnds, Retry, At
<1>2. /\ Only(c) /\ cmd'[c].pc \in {"idle", "put"} /\ cmd'[c].got = Nothing
  BY EndChanges, RetryChanges, IdleTyped DEF SyncEnds
<1>3. /\ srv' = srv /\ token' = cmd[c].new /\ raced' = raced \cup TurnedBack(c)
      /\ \A i \in Item : row'[i] = IF cmd[c].got[i] # 0 THEN cmd[c].got[i]
                                   ELSE IF i \in cmd[c].gone THEN 0 ELSE row[i]
  BY <1>1 DEF Apply, Bookmark, Merged, server, cache
<1>4. \A i \in Item : Live(i)' = Live(i)
  BY <1>3 DEF Live
<1>5. TellsOf(c)
  BY TellsOfAll
<1>a. \A i \in Item : srv[i].v \in Nat /\ cmd[c].base \in Nat /\ cmd[c].new \in Nat
  BY VersionsTyped
<1>6. ASSUME NEW i \in Item
      PROVE  row'[i] = Live(i) \/ i \in raced \/ srv[i].v > cmd[c].new
  <2>1. srv[i].v > cmd[c].new \/ Says(c, i)
    BY <1>1, <1>5 DEF TellsOf, Answered
  <2>2. Tracked(i, cmd[c].base)
    BY <1>1, <1>5 DEF TellsOf, Syncing
  <2>3. Forgotten(i) => row'[i] = 0
    BY <1>3 DEF Forgotten
  <2> QED BY <1>3, <1>a, <2>1, <2>2, <2>3 DEF Says, Tracked
<1>7. \A i \in Item : Tracked(i, token)'
  BY <1>3, <1>4, <1>6 DEF Tracked
<1>8. TellsOf(c)'
  BY <1>2 DEF TellsOf, Syncing, Answered
<1>9. ASSUME NEW d \in Command, d # c
      PROVE  TellsOf(d)'
  <2>1. TellsOf(d) /\ cmd'[d] = cmd[d]
    BY <1>2, <1>9, TellsOfAll DEF Only
  <2>2. PICK b \in Version : b = cmd[d].base
    BY VersionsTyped
  <2>3. ASSUME NEW i \in Item, Syncing(d)
        PROVE  Tracked(i, b)'
    <3>1. CASE cmd[c].got[i] = 0 /\ i \notin cmd[c].gone
      BY <1>3, <1>4, <2>1, <2>2, <2>3, <3>1 DEF TellsOf, Tracked
    <3>2. CASE (cmd[c].got[i] # 0 \/ i \in cmd[c].gone) /\ b > cmd[c].new
      BY <1>3, <1>9, <2>2, <2>3, <3>2 DEF TurnedBack, Tracked, Syncing
    <3>3. CASE ~ b > cmd[c].new
      <4>1. b \in Nat
        BY <2>2, VersionsTyped
      <4> QED BY <1>3, <1>4, <1>6, <1>a, <3>3, <4>1 DEF Tracked
    <3> QED BY <3>1, <3>2, <3>3
  <2>4. Syncing(d) => \A i \in Item : Tracked(i, cmd[d].base)'
    BY <2>1, <2>2, <2>3 DEF Tracked
  <2>5. \A i \in Item : Forgotten(i) => Forgotten(i)'
    BY <1>2, <1>3 DEF Forgotten, Only, Nothing
  <2>6. \A i \in Item : Says(d, i) => Says(d, i)'
    BY <1>3, <1>4, <2>1, <2>5 DEF Says
  <2>7. cmd[d].pc = "record" => cmd[d].item \in Item
    BY DEF Typed, WellFormed
  <2> QED BY <1>3, <1>4, <2>1, <2>4, <2>6, <2>7 DEF TellsOf, Syncing, Answered
<1> QED BY <1>7, <1>8, <1>9 DEF Tells, BookmarkBehind, RecordTrue, AnswerTrue, TellsOf

LEMMA NextTells ==
  ASSUME Typed, Numbered, kind # "note", Tells, [Next]_vars
  PROVE  Tells'
<1> USE DEF server, cache, ghosts
<1>1. ASSUME NEW c \in Command, UNCHANGED <<srv, row, token, raced>>, Only(c),
             cmd'[c].pc \in {"idle", "put"}, cmd'[c].got = Nothing
      PROVE  Tells'
  BY <1>1, SettlesTells DEF Only, SameSync, Nothing
<1>2. ASSUME NEW c \in Command,
             \/ Save(c)
             \/ \E i \in Item : Create(c, i) \/ Delete(c, i)
             \/ \E i \in Item, v \in Version : Toggle(c, i, v)
      PROVE  Tells'
  <2>1. PICK op \in Op \ {"none", "sync"}, i \in Item, etag \in Version, seen \in Version,
             via \in Via : Begin(c, op, i, etag, seen, via)
    BY <1>2, Begun
  <2> QED BY <1>1, <2>1, BeginChanges DEF Begin
<1>3. ASSUME NEW c \in Command, Fail(c) \/ (Refused(c) /\ ~ Retries(c))
      PROVE  Tells'
  <2>1. UNCHANGED <<srv, row, token, raced>> /\ Only(c) /\ cmd'[c] = Idle
    BY <1>3, EndChanges DEF Fail, Refused
  <2> QED BY <1>1, <2>1, IdleTyped
<1>4. ASSUME NEW c \in Command, List(c)
      PROVE  FALSE
  BY <1>4 DEF List
<1>5. CASE Close
  BY <1>5, CloseChanges, SettlesTells DEF Close, Lasting, SameSync
<1>6. CASE Restart
  BY <1>6, IdleTyped, SettlesTells DEF Restart, Nothing
<1>7. CASE (\E i \in Item, v \in Version : Open(i, v)) \/ UNCHANGED vars
  BY <1>7, SettlesTells DEF Open, vars, SameSync
<1>8. ASSUME NEW c \in Command, Sync(c) \/ Answers(c) \/ Fail(c) \/ AnswerLost(c)
      PROVE  Tells'
  BY <1>3, <1>4, <1>8, PullTells, ReportTells, FetchTells, ApplyTells, AcceptedTells,
     AlreadyGoneTells, RecordTells DEF Answers
<1> QED BY <1>2, <1>5, <1>6, <1>7, <1>8, OthersTells DEF Next

LEMMA NextMiss ==
  ASSUME Typed, MissInv, [Next]_vars
  PROVE  MissInv'
<1>1. kind' = kind
  BY DEF Next, vars, ghosts, server, cache, Sync, Save, Answers, Fail, AnswerLost, Create, Toggle,
     Delete, Open, Close, Restart, Others, Report, Fetch, List, SyncEnds, Retry, Put,
     AlreadyGone, Refused, Record, Begin, Accepted, Apply
<1>2. Numbered'
  BY NextNumbered DEF MissInv
<1>3. kind # "note" => Tells'
  BY NextTells DEF MissInv
<1> QED BY <1>1, <1>2, <1>3 DEF MissInv

\* A row that is not what the server has is named by the next sync, whatever syncs,
\* writes, failures, restarts and other clients came between, except for the items of
\* the three races.  The bookmark stays behind the rows because both are written in one
\* transaction, and the items a sync names are those newer than the bookmark it read.
\* (Bodies that cannot be parsed, which a sync skips, are not in the model.)
THEOREM NoChangeMissed == Spec => []NoMissedChange
<1>1. Init => Typed /\ MissInv
  <2>1. Init => Tells
    BY IdleTyped DEF Init, Tells, BookmarkBehind, Tracked, Live, RecordTrue, AnswerTrue,
       Syncing, Answered, Nothing
  <2> QED BY <2>1, InitTyped, InitNumbered DEF MissInv
<1>2. Typed /\ MissInv /\ [Next]_vars => (Typed /\ MissInv)'
  BY NextTyped, NextMiss
<1>3. MissInv => NoMissedChange
  BY DEF MissInv, Tells, BookmarkBehind, Tracked, NoMissedChange
<1> QED BY <1>1, <1>2, <1>3, PTL DEF Spec

=============================================================================
