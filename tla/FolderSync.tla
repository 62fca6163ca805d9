------------------------------ MODULE FolderSync ------------------------------
(***************************************************************************)
(* One IMAP folder and its rows in the local cache, and everybody who      *)
(* changes either of them:                                                 *)
(*                                                                         *)
(*   poll_folder   brings the rows up to date: the background loop, the    *)
(*                 "check mail now" command and every folder switch run it *)
(*   the user      reads, marks, deletes and clears, each first in the     *)
(*                 cache or first on the server, with a network round-trip *)
(*                 between the two                                         *)
(*   the server    receives mail, and other clients read and expunge it    *)
(*                                                                         *)
(* A message is its UID.  Of a row only what the list shows is kept:       *)
(* whether it is there, read, or hidden by the tombstone of an operation.  *)
(***************************************************************************)
EXTENDS FiniteSetsExt

CONSTANTS
  Poller,      \* slots for runs of poll_folder
  Checker,     \* the pollers whose caller, check_mail_now_inner, notifies
  User,        \* slots for the user's operations
  MaxUid,      \* bound: UIDs the server assigns
  MaxValidity, \* bound: values of UIDVALIDITY
  MaxOps,      \* bound: operations of the user and of other clients
  Limit,       \* how many messages a full fetch asks for
  Hazards      \* what may happen, see HazardKind

\* poll_fails, op_fails: a round-trip of a poll or of an operation fails, before
\* or after the server acted; db_error: a cache write fails; rotate: the server
\* renumbers the folder; clear: the user empties it; crash: the program dies.
HazardKind == {"poll_fails", "op_fails", "db_error", "rotate", "crash", "clear"}

Uid == 1..MaxUid
MaxBadge == MaxUid + 1

ASSUME FolderAssumption ==
  /\ Checker \subseteq Poller
  /\ MaxUid \in Nat \ {0}
  /\ MaxValidity \in Nat \ {0}
  /\ MaxOps \in Nat
  /\ Limit \in Nat \ {0}
  /\ Hazards \subseteq HazardKind

VARIABLES
  validity, uidnext, \* the server's UIDVALIDITY and next UID
  live,              \* the UIDs in the folder on the server
  seen,              \* those the server has flagged \Seen
  cached,            \* the UIDs with a row in table messages
  read,              \* the rows with is_read = 1
  hidden,            \* the rows with a pending_action
  mark,              \* folder_sync_state: [valid, high], 0 standing for NULL
  badge,             \* folders.unread_count, cut off at MaxBadge
  poll,              \* [Poller -> a run of poll_folder]
  op,                \* [User -> an operation]
  notified,          \* [Uid -> 0..2]: new-mail events sent (history)
  ops,               \* operations so far
  harm               \* the worst that has befallen the folder so far

server == <<validity, uidnext, live, seen>>
rows == <<cached, read, hidden>>
cache == <<rows, mark, badge>>
history == <<notified, harm>>
vars == <<server, cache, poll, op, history, ops>>

\* A cache write failed, the folder was cleared or numbered anew; or else a full fetch
\* was stored and its bookmark was not.
upset == harm = "upset"
torn == harm = "torn"

Mark == [valid: 0..MaxValidity, high: 0..MaxUid]
NoMark == [valid |-> 0, high |-> 0]

PollPC == {"idle", "fetch", "wipe", "refetch", "list", "snapshot", "reconcile",
           "upsert", "advance", "flags"}
Run == [pc: PollPC, prior: Mark, valid: 0..MaxValidity, rotated: BOOLEAN,
        batch: SUBSET Uid, bseen: SUBSET Uid, listed: SUBSET Uid,
        snap: SUBSET Uid, sseen: SUBSET Uid]
NoRun == [pc |-> "idle", prior |-> NoMark, valid |-> 0, rotated |-> FALSE,
          batch |-> {}, bseen |-> {}, listed |-> {}, snap |-> {}, sseen |-> {}]

\* arg is the UID, or what fetch_folders counted.
OpPC == {"idle", "store", "storeall", "expunge", "clean", "restore", "write",
         "evict", "empty", "folders"}
Op == [pc: OpPC, arg: 0..MaxUid, val: BOOLEAN]
NoOp == [pc |-> "idle", arg |-> 0, val |-> FALSE]

TypeOK ==
  /\ validity \in 1..MaxValidity /\ uidnext \in 1..MaxUid + 1
  /\ live \subseteq Uid /\ seen \subseteq live
  /\ cached \subseteq Uid /\ read \subseteq cached /\ hidden \subseteq cached
  /\ mark \in Mark /\ badge \in 0..MaxBadge
  /\ poll \in [Poller -> Run]
  /\ op \in [User -> Op]
  /\ notified \in [Uid -> 0..2]
  /\ ops \in 0..MaxOps /\ harm \in {"none", "torn", "upset"}

Init ==
  /\ validity = 1 /\ uidnext = 1
  /\ live = {} /\ seen = {}
  /\ cached = {} /\ read = {} /\ hidden = {}
  /\ mark = NoMark /\ badge = 0
  /\ poll = [p \in Poller |-> NoRun]
  /\ op = [u \in User |-> NoOp]
  /\ notified = [u \in Uid |-> 0]
  /\ ops = 0 /\ harm = "none"

Hazard(h) == h \in Hazards

-----------------------------------------------------------------------------
(* The cache. *)

\* The newest Limit of a set of messages.
Newest(S) == {u \in S : Cardinality({v \in S : v > u}) < Limit}

\* What get_envelopes returns.
Visible == cached \ hidden

\* A cache write whose error is logged and otherwise ignored, as all of them are.
DbFails == Hazard("db_error") /\ ~upset   \* bound: one such error
Logged(write) ==
  \/ write /\ UNCHANGED harm
  \/ DbFails /\ UNCHANGED cache /\ harm' = "upset"

\* bump_folder_unread without its MAX: the mutant of Count.
CountSigned(delta) == badge' = badge + delta

\* unread_count = MAX(unread_count + delta, 0).
Count(delta) ==
  badge' = IF badge + delta < 0 THEN 0
           ELSE IF badge + delta > MaxBadge THEN MaxBadge ELSE badge + delta

\* remove_envelope, for each of a set of UIDs.
RemoveRows(S) ==
  /\ cached' = cached \ S /\ read' = read \ S /\ hidden' = hidden \ S
  /\ Count(-Cardinality((cached \cap S) \ read))
  /\ UNCHANGED mark

\* INSERT OR REPLACE: the mutant of UpsertRows that loses pending_action.
ReplaceRows(S, unseenS) ==
  /\ cached' = cached \cup S
  /\ read' = (read \cup S) \ unseenS
  /\ hidden' = hidden \ S
  /\ UNCHANGED <<mark, badge>>

\* upsert_envelopes_for_account and upsert_message: neither touches
\* pending_action nor the badge.
UpsertRows(S, unseenS) ==
  /\ cached' = cached \cup S
  /\ read' = (read \cup S) \ unseenS
  /\ UNCHANGED <<hidden, mark, badge>>

\* empty_folder.
EmptyRows ==
  /\ cached' = {} /\ read' = {} /\ hidden' = {}
  /\ mark' = NoMark /\ badge' = 0

-----------------------------------------------------------------------------
(* poll_folder. *)

At(p, pc) == poll[p].pc = pc
Step(p, run) == poll' = [poll EXCEPT ![p] = run]
Done(p) == Step(p, NoRun)

PollStart(p) ==
  /\ At(p, "idle")
  /\ Step(p, [NoRun EXCEPT !.pc = "fetch", !.prior = mark])
  /\ UNCHANGED <<server, cache, op, history, ops>>

\* UID FETCH hi+1:* always returns the newest message as well; without a
\* bookmark the newest Limit messages are fetched.
Fetched(high) ==
  IF high = 0 THEN Newest(live)
  ELSE {u \in live : u > high \/ \A v \in live : v <= u}

\* fetch_envelopes with the bookmark, and the UIDVALIDITY check.
PollFetch(p) ==
  LET run == poll[p]
      rotated == run.prior.valid # 0 /\ run.prior.valid # validity IN
  /\ At(p, "fetch")
  /\ Step(p, [run EXCEPT !.pc = IF rotated THEN "wipe" ELSE "list",
                         !.valid = validity, !.rotated = rotated,
                         !.batch = Fetched(run.prior.high),
                         !.bseen = Fetched(run.prior.high) \cap seen])
  /\ UNCHANGED <<server, cache, op, history, ops>>

\* A failed fetch ends the poll with an error.
PollFail(p) ==
  /\ Hazard("poll_fails")
  /\ poll[p].pc \in {"fetch", "refetch"}
  /\ Done(p)
  /\ UNCHANGED <<server, cache, op, history, ops>>

\* wipe_folder, which leaves the badge alone: two statements, no transaction.
Wipe(p) ==
  /\ At(p, "wipe")
  /\ Step(p, [poll[p] EXCEPT !.pc = "refetch"])
  /\ Logged(/\ cached' = {} /\ read' = {} /\ hidden' = {}
            /\ \/ mark' = NoMark
               \/ Hazard("db_error") /\ UNCHANGED mark
            /\ UNCHANGED badge)
  /\ UNCHANGED <<server, op, notified, ops>>

Refetch(p) ==
  /\ At(p, "refetch")
  /\ Step(p, [poll[p] EXCEPT !.pc = "list", !.valid = validity,
                             !.batch = Newest(live), !.bseen = Newest(live) \cap seen])
  /\ UNCHANGED <<server, cache, op, history, ops>>

\* list_all_uids; an error reads as an empty list.
List(p) ==
  /\ At(p, "list")
  /\ \E listed \in {live} \cup (IF Hazard("poll_fails") THEN {{}} ELSE {}) :
       Step(p, [poll[p] EXCEPT !.pc = "snapshot", !.listed = listed])
  /\ UNCHANGED <<server, cache, op, history, ops>>

\* list_recent_envelope_uids and fetch_flags; an error reads as no flags.
Snapshot(p) ==
  LET recent == IF poll[p].rotated THEN {} ELSE Newest(cached) \cap live IN
  /\ At(p, "snapshot")
  /\ \E snap \in {recent} \cup (IF Hazard("poll_fails") THEN {{}} ELSE {}) :
       Step(p, [poll[p] EXCEPT !.pc = "reconcile", !.snap = snap, !.sseen = snap \cap seen])
  /\ UNCHANGED <<server, cache, op, history, ops>>

\* Without the test for an empty list, and without the pass: mutants of Reconcile.
ReconcileBlindly(p) ==
  /\ At(p, "reconcile")
  /\ Step(p, [poll[p] EXCEPT !.pc = "upsert", !.listed = {}])
  /\ RemoveRows(cached \ poll[p].listed)
  /\ UNCHANGED <<server, op, history, ops>>
ReconcileNever(p) ==
  /\ At(p, "reconcile")
  /\ Step(p, [poll[p] EXCEPT !.pc = "upsert", !.listed = {}])
  /\ UNCHANGED <<server, cache, op, history, ops>>

\* Drop the rows that are not in the list, unless it is empty; each removal may
\* fail by itself.
Reconcile(p) ==
  LET ghosts == IF poll[p].listed = {} /\ ~ poll[p].rotated THEN {}
                ELSE cached \ poll[p].listed IN
  /\ At(p, "reconcile")
  /\ Step(p, [poll[p] EXCEPT !.pc = "upsert", !.listed = {}])
  /\ \E kept \in IF DbFails THEN SUBSET ghosts ELSE {{}} :
       RemoveRows(ghosts \ kept) /\ harm' = IF kept = {} THEN harm ELSE "upset"
  /\ UNCHANGED <<server, op, notified, ops>>

\* Write the batch.
Upsert(p) ==
  /\ At(p, "upsert")
  /\ Step(p, [poll[p] EXCEPT !.pc = "advance"])
  /\ Logged(UpsertRows(poll[p].batch, poll[p].batch \ poll[p].bseen))
  /\ UNCHANGED <<server, op, notified, ops>>

\* With >= for >: the mutant of New.
NewOrLast(run) ==
  IF run.rotated \/ run.prior.high = 0 THEN {}
  ELSE {u \in run.batch : u >= run.prior.high}

\* new_envelopes.
New(run) ==
  IF run.rotated \/ run.prior.high = 0 THEN {}
  ELSE {u \in run.batch : u > run.prior.high}

\* Without the chain, and with the server's newest: mutants of NewHigh.
BatchHigh(run) == Max(run.batch \cup {0})
ServerHigh(run) == Max(live \cup {run.prior.high})

\* The newest UID of the batch and of the bookmark the poll began with.
NewHigh(run) == Max(run.batch \cup {run.prior.high})

\* What a full fetch brought is stored, its bookmark is not.
Unmarked(p) == At(p, "advance") /\ poll[p].prior.high = 0 /\ poll[p].batch # {}

\* bump_folder_unread, then set_sync_state; either may fail by itself.
Advance(p) ==
  LET run == poll[p] IN
  /\ At(p, "advance")
  /\ Step(p, [run EXCEPT !.pc = "flags"])
  /\ \/ Count(Cardinality(New(run) \ run.bseen))
     \/ Hazard("db_error") /\ UNCHANGED badge
  /\ \/ mark' = [valid |-> run.valid, high |-> NewHigh(run)] /\ UNCHANGED harm
     \/ /\ Hazard("db_error") /\ UNCHANGED mark
        /\ harm' = IF Unmarked(p) /\ ~ upset THEN "torn" ELSE harm
  /\ UNCHANGED <<server, rows, op, notified, ops>>

\* reconcile_envelope_flags with the flags fetched before the upsert, and the
\* new-mail events of check_mail_now_inner.
FlagPass(p) ==
  LET run == poll[p]
      known == run.snap \cap cached
      told == IF p \in Checker THEN New(run) ELSE {} IN
  /\ At(p, "flags")
  /\ Done(p)
  /\ Logged(/\ read' = (read \ known) \cup (known \cap run.sseen)
            /\ Count(Cardinality((known \cap read) \ run.sseen)
                       - Cardinality((known \cap run.sseen) \ read))
            /\ UNCHANGED <<cached, hidden, mark>>)
  /\ notified' = [u \in Uid |-> IF u \in told /\ notified[u] < 2 THEN notified[u] + 1
                                ELSE notified[u]]
  /\ UNCHANGED <<server, op, ops>>

PollStep(p) ==
  \/ PollStart(p) \/ PollFetch(p) \/ PollFail(p) \/ Wipe(p) \/ Refetch(p) \/ List(p)
  \/ Snapshot(p) \/ Reconcile(p) \/ Upsert(p) \/ Advance(p) \/ FlagPass(p)

-----------------------------------------------------------------------------
(* The user's operations, on a row that is shown. *)

Spend == ops < MaxOps /\ ops' = ops + 1

Begin(u, pc, arg, val) ==
  /\ Spend
  /\ op[u].pc = "idle"
  /\ op' = [op EXCEPT ![u] = [pc |-> pc, arg |-> arg, val |-> val]]

Doing(u, pc) == op[u].pc = pc
End(u) == op' = [op EXCEPT ![u] = NoOp]
Then(u, pc) == op' = [op EXCEPT ![u].pc = pc]

\* set_message_read: the cache first.
SetRead(u, uid, val) ==
  /\ uid \in Visible
  /\ Begin(u, "store", uid, val)
  /\ Logged(/\ read' = IF val THEN read \cup {uid} ELSE read \ {uid}
            /\ Count(IF val /\ uid \notin read THEN -1
                     ELSE IF ~ val /\ uid \in read THEN 1 ELSE 0)
            /\ UNCHANGED <<cached, hidden, mark>>)
  /\ UNCHANGED <<server, poll, notified>>

\* ... then the server.  An error is returned and the cache left as it is.
Store(u) ==
  /\ Doing(u, "store")
  /\ End(u)
  /\ \/ seen' = IF op[u].val THEN seen \cup ({op[u].arg} \cap live) ELSE seen \ {op[u].arg}
     \/ Hazard("op_fails") /\ UNCHANGED seen
  /\ UNCHANGED <<validity, uidnext, live, cache, poll, history, ops>>

\* mark_folder_read, in the same order.
ReadAll(u) ==
  /\ Begin(u, "storeall", 0, TRUE)
  /\ Logged(read' = cached /\ badge' = 0 /\ UNCHANGED <<cached, hidden, mark>>)
  /\ UNCHANGED <<server, poll, notified>>

StoreAll(u) ==
  /\ Doing(u, "storeall")
  /\ End(u)
  /\ \/ seen' = live
     \/ Hazard("op_fails") /\ UNCHANGED seen
  /\ UNCHANGED <<validity, uidnext, live, cache, poll, history, ops>>

\* delete_message, archive_message and move_message: the tombstone first.
Delete(u, uid) ==
  /\ uid \in Visible
  /\ Begin(u, "expunge", uid, FALSE)
  /\ Logged(hidden' = hidden \cup {uid} /\ UNCHANGED <<cached, read, mark, badge>>)
  /\ UNCHANGED <<server, poll, notified>>

\* The server expunges the UID or no longer has it; or the round-trip fails and
\* nobody knows whether it did.
Expunge(u) ==
  /\ Doing(u, "expunge")
  /\ \/ /\ Then(u, "clean")
        /\ live' = live \ {op[u].arg} /\ seen' = seen \ {op[u].arg}
     \/ /\ Hazard("op_fails")
        /\ Then(u, "restore")
        /\ \/ UNCHANGED <<live, seen>>
           \/ live' = live \ {op[u].arg} /\ seen' = seen \ {op[u].arg}
  /\ UNCHANGED <<validity, uidnext, cache, poll, history, ops>>

\* remove_envelope.
Clean(u) ==
  /\ Doing(u, "clean") \/ Doing(u, "evict")
  /\ End(u)
  /\ Logged(RemoveRows({op[u].arg}))
  /\ UNCHANGED <<server, poll, notified, ops>>

\* clear_message_pending.
Restore(u) ==
  /\ Doing(u, "restore")
  /\ End(u)
  /\ Logged(hidden' = hidden \ {op[u].arg} /\ UNCHANGED <<cached, read, mark, badge>>)
  /\ UNCHANGED <<server, poll, notified, ops>>

\* fetch_message: read the message from the server ...
OpenMail(u, uid) ==
  /\ uid \in Visible
  /\ Begin(u, IF uid \in live THEN "write" ELSE "evict", uid, uid \in seen)
  /\ UNCHANGED <<server, cache, poll, history>>

\* ... and write it through to the cache.
Write(u) ==
  /\ Doing(u, "write")
  /\ End(u)
  /\ Logged(UpsertRows({op[u].arg}, IF op[u].val THEN {} ELSE {op[u].arg}))
  /\ UNCHANGED <<server, poll, notified, ops>>

\* fetch_folders: the STATUS of the folder ...
FetchFolders(u) ==
  /\ Begin(u, "folders", Cardinality(live \ seen), FALSE)
  /\ UNCHANGED <<server, cache, poll, history>>

\* ... and upsert_folders.
CountFolders(u) ==
  /\ Doing(u, "folders")
  /\ End(u)
  /\ Logged(badge' = op[u].arg /\ UNCHANGED <<rows, mark>>)
  /\ UNCHANGED <<server, poll, notified, ops>>

\* clear_folder: the server first; an error leaves the cache as it is.
ClearFolder(u) ==
  /\ Hazard("clear")
  /\ \/ Begin(u, "empty", 0, FALSE)
     \/ Hazard("op_fails") /\ Spend /\ Doing(u, "idle") /\ UNCHANGED op
  /\ live' = {} /\ seen' = {} /\ harm' = "upset"
  /\ UNCHANGED <<validity, uidnext, cache, poll, notified>>

\* ... then empty_folder.
Empty(u) ==
  /\ Doing(u, "empty")
  /\ End(u)
  /\ Logged(EmptyRows)
  /\ UNCHANGED <<server, poll, notified, ops>>

OpStart(u) ==
  \/ \E uid \in Uid :
       \/ \E val \in BOOLEAN : SetRead(u, uid, val)
       \/ Delete(u, uid) \/ OpenMail(u, uid)
  \/ ReadAll(u) \/ FetchFolders(u) \/ ClearFolder(u)
OpStep(u) ==
  \/ Store(u) \/ StoreAll(u) \/ Expunge(u) \/ Clean(u) \/ Restore(u) \/ Write(u)
  \/ CountFolders(u) \/ Empty(u)

-----------------------------------------------------------------------------
(* The server and other clients; crashes. *)

Arrive ==
  /\ uidnext <= MaxUid
  /\ uidnext' = uidnext + 1
  /\ live' = live \cup {uidnext}
  /\ UNCHANGED <<validity, seen, cache, poll, op, history, ops>>

RemoteExpunge(uid) ==
  /\ Spend
  /\ uid \in live
  /\ live' = live \ {uid} /\ seen' = seen \ {uid}
  /\ UNCHANGED <<validity, uidnext, cache, poll, op, history>>

RemoteSeen(uid) ==
  /\ Spend
  /\ uid \in live
  /\ seen' = IF uid \in seen THEN seen \ {uid} ELSE seen \cup {uid}
  /\ UNCHANGED <<validity, uidnext, live, cache, poll, op, history>>

\* The folder gets a new UIDVALIDITY and its messages new UIDs, in their order.
Rotate ==
  LET Place(u) == Cardinality({v \in live : v <= u}) IN
  /\ Hazard("rotate") /\ validity < MaxValidity
  /\ validity' = validity + 1
  /\ uidnext' = Cardinality(live) + 1
  /\ live' = {Place(u) : u \in live}
  /\ seen' = {Place(u) : u \in seen}
  /\ notified' = [u \in Uid |-> 0]
  /\ harm' = "upset"
  /\ UNCHANGED <<cache, poll, op, ops>>

\* Without the sweep: the mutant of Sweep.
NoSweep == UNCHANGED hidden

\* open_with_key clears the tombstones of the run before.
Sweep == hidden' = {}

\* The application dies and is started again.
Crash ==
  /\ Hazard("crash") /\ Spend
  /\ poll' = [p \in Poller |-> NoRun]
  /\ op' = [u \in User |-> NoOp]
  /\ Sweep
  /\ harm' = IF (\E p \in Poller : Unmarked(p)) /\ ~ upset THEN "torn" ELSE harm
  /\ UNCHANGED <<server, cached, read, mark, badge, notified>>

Environment ==
  \/ Arrive
  \/ \E uid \in Uid : RemoteExpunge(uid) \/ RemoteSeen(uid)
  \/ Rotate
  \/ Crash

Next ==
  \/ \E p \in Poller : PollStep(p)
  \/ \E u \in User : OpStart(u) \/ OpStep(u)
  \/ Environment

Spec == Init /\ [][Next]_vars

-----------------------------------------------------------------------------
(* Properties. *)

\* No live mail is out of reach: what is neither cached nor newer than the
\* bookmark is older than every row, where scrolling finds it.  Unless the folder
\* was disturbed, or the first fetch died before it wrote its bookmark: the next
\* one asks for the newest messages again and may leave some out between.
NoGap ==
  ~ upset /\ ~ torn =>
    \A u \in live :
      mark.valid = validity /\ u <= mark.high =>
        u \in cached \/ \A c \in cached : u < c

\* The same of what lasts: with no poll under way, a live mail that the next poll does
\* not ask for is cached or older than every row.
NoGapAtRest ==
  ~ upset /\ ~ torn /\ mark.valid = validity /\ (\A p \in Poller : At(p, "idle")) =>
    \A u \in live \ (cached \cup Fetched(mark.high)) : \A c \in cached : u < c

\* The bookmark never falls back while the folder keeps its numbering.
BookmarkMonotone ==
  [][mark'.valid = mark.valid => mark'.high >= mark.high]_vars

\* The reconciler drops rows of messages that are no longer on the server only.
DropsGhostsOnly ==
  [][\A p \in Poller : Reconcile(p) => (cached \ cached') \cap live = {}]_vars

\* No message is announced as new mail twice.
NotifiedOnce == \A u \in Uid : notified[u] <= 1

\* A message the user deleted is not shown again while its expunge is under way
\* and the server still has it.
HiddenUntilExpunged ==
  \A u \in User : Doing(u, "expunge") /\ op[u].arg \in live => op[u].arg \notin Visible

\* No row stays hidden once the operation that hid it has ended.
TombstoneOwned ==
  \A uid \in hidden :
    \E u \in User : op[u].pc \in {"expunge", "clean", "restore"} /\ op[u].arg = uid

-----------------------------------------------------------------------------
(* Liveness: the background loop polls again and again, every operation of   *)
(* the user ends, and the environment is bounded, so it becomes quiet.       *)

Fairness ==
  /\ \A p \in Poller : WF_vars(PollStep(p))
  /\ \A u \in User : WF_vars(OpStep(u))

LiveSpec == Spec /\ Fairness

\* The cache shows the folder as it is on the server.
Agree == Visible = live /\ read = seen

\* Once the folder is left alone the cache comes to agree with it, unless the
\* folder became empty (poll_folder takes an empty UID list for a failed one), was
\* numbered anew (the bookmark of the old numbering hides new mail) or cleared (a poll
\* under way writes its bookmark over the emptied rows), or a cache write failed.
\* It is about folders that fit one full fetch (MaxUid <= Limit): older mail of a
\* larger one stays on the server until the user scrolls to it.
ConvergesUnlessEmpty == <>[](live = {} \/ upset \/ Agree)
=============================================================================
