--------------------------- MODULE FolderSyncProofs ---------------------------
(***************************************************************************)
(* Proofs about FolderSync, for any number of users, messages and          *)
(* operations; most of them for one poll at a time.                        *)
(***************************************************************************)
EXTENDS FolderSync, FiniteSetTheorems, TLAPS

USE FolderAssumption DEF FolderAssumption

-----------------------------------------------------------------------------
(* Sets of UIDs. *)

\* A bounded set of numbers has a greatest one.
LEMMA Greatest ==
  ASSUME NEW S \in SUBSET Nat, NEW n \in Nat, S # {}, \A s \in S : s <= n
  PROVE  \E m \in S : \A s \in S : s <= m
<1> DEFINE T == {k \in Nat : n - k \in S}
           R == {ss \in Nat \X Nat : ss[1] < ss[2]}
<1>1. IsWellFoundedOn(R, Nat)
  BY NatLessThanWellFounded DEF OpToRel
<1>2. T # {}
  <2>1. PICK s \in S : TRUE
    OBVIOUS
  <2>2. n - s \in Nat /\ n - (n - s) = s
    BY <2>1
  <2> QED BY <2>1, <2>2
<1>3. \E x \in T : \A y \in T : ~ (<<y, x>> \in R)
  <2> HIDE DEF R, T
  <2>1. T \subseteq Nat
    BY DEF T
  <2> QED BY <1>1, <1>2, <2>1, WFMin
<1>4. PICK x \in T : \A y \in T : ~ (y < x)
  BY <1>3
<1>5. ASSUME NEW s \in S
      PROVE  s <= n - x
  <2>1. n - s \in T
    <3>1. n - s \in Nat /\ n - (n - s) = s
      OBVIOUS
    <3> QED BY <3>1
  <2> QED BY <1>4, <2>1
<1> QED BY <1>4, <1>5

\* What Max returns.
LEMMA MaxIsGreatest ==
  ASSUME NEW S \in SUBSET Nat, NEW n \in Nat, S # {}, \A s \in S : s <= n
  PROVE  Max(S) \in S /\ \A s \in S : s <= Max(S)
<1>1. \E m \in S : \A s \in S : m >= s
  BY Greatest
<1> QED BY <1>1 DEF Max

-----------------------------------------------------------------------------
(* The invariants. *)

\* No two polls of the folder at once.
Alone == \A p, q \in Poller : p = q

\* The rows, and those an opened message will be written to again.
Known == cached \cup {c \in Uid : \E u \in User : Doing(u, "write") /\ op[u].arg = c}

\* The steps of a poll with a batch in hand that has not become the bookmark yet.
Fetching == {"list", "snapshot", "reconcile", "upsert", "advance"}
OfUid == OpPC \ {"idle", "storeall", "empty", "folders"}

\* While the folder keeps its numbering every UID in use has been assigned ...
Issued ==
  /\ \A x \in live \cup cached : x < uidnext
  /\ \A u \in User : op[u].pc \in OfUid => op[u].arg \in Uid /\ op[u].arg < uidnext
  /\ mark.high < uidnext
  /\ \A p \in Poller : poll[p].prior.high < uidnext /\ \A x \in poll[p].batch : x < uidnext

\* ... no poll finds it renumbered ...
SameNumbering ==
  /\ mark.valid \in {0, validity}
  /\ \A p \in Poller :
       /\ poll[p].prior.valid \in {0, validity}
       /\ ~ poll[p].rotated
       /\ poll[p].pc \notin {"wipe", "refetch"}
       /\ poll[p].pc \in Fetching => poll[p].valid = validity

\* ... what an operation is about to drop is gone for good ...
Gone == \A u \in User : op[u].pc \in {"clean", "evict"} => op[u].arg \notin live

\* ... and so is what a list does not name.
ListTrue ==
  \A p \in Poller :
    poll[p].pc \in {"snapshot", "reconcile"} =>
      poll[p].listed = {} \/ Known \cap live \subseteq poll[p].listed

Base == Issued /\ SameNumbering /\ Gone /\ ListTrue

\* The bookmark is the one the poll began with, or has been cleared since.
MarkHeld ==
  /\ mark.valid = 0 => mark = NoMark
  /\ \A p \in Poller :
       /\ poll[p].pc \notin {"idle", "flags"} => mark \in {poll[p].prior, NoMark}
       /\ poll[p].pc \in Fetching => poll[p].valid # 0

Calm == ~ upset /\ ~ torn

\* Nobody clears the bookmark of a folder at rest.
MarkKept == \A p \in Poller : poll[p].pc \notin {"idle", "flags"} => mark = poll[p].prior

\* A batch holds whatever is newer than the bookmark up to its own newest message,
\* or the newest messages where there is no bookmark, and nothing that is older than
\* a message the bookmark covers.
BatchWhole ==
  \A p \in Poller :
    poll[p].pc \in Fetching =>
      \A b \in poll[p].batch, u \in live :
        /\ u <= poll[p].prior.high => u <= b
        /\ poll[p].prior.high < u /\ u <= b =>
             \/ u \in poll[p].batch
             \/ poll[p].prior.high = 0 /\ \A c \in poll[p].batch : u < c

\* Until there is a bookmark there are no rows but those of a first batch.
FirstFetch ==
  mark.high = 0 =>
    \A c \in Known : \E p \in Poller : poll[p].pc = "advance" /\ c \in poll[p].batch

\* No gap below a bookmark.
Covered(high) == \A u \in live : u <= high => u \in cached \/ \A c \in Known : u < c

\* A bookmark is written once it covers no gap.
Stored == \A p \in Poller : poll[p].pc = "advance" => Covered(NewHigh(poll[p]))

NoneEmpties == \A u \in User : op[u].pc # "empty"
Whole ==
  /\ Base /\ NoneEmpties /\ MarkKept /\ BatchWhole /\ FirstFetch
  /\ Covered(mark.high) /\ Stored
GapInv == Calm => Whole

\* What has been announced is not above a bookmark, nor above the one a poll is about
\* to write, nor new to a poll.
Heard(high) == \A u \in live : notified[u] > 0 => u <= high
RunHeard(p) ==
  /\ poll[p].pc \notin {"idle", "flags"} /\ poll[p].prior.high # 0 => Heard(poll[p].prior.high)
  /\ poll[p].pc \in Fetching => Heard(NewHigh(poll[p]))
  /\ poll[p].pc \in Fetching \cup {"flags"} => \A u \in New(poll[p]) : notified[u] = 0
  /\ poll[p].pc = "flags" /\ mark.high # 0 => \A u \in New(poll[p]) : u <= mark.high
Announced ==
  /\ \A u \in Uid : notified[u] > 0 => u < uidnext
  /\ mark.high # 0 => Heard(mark.high)
  /\ \A p \in Poller : RunHeard(p)

OnceInv == Base /\ Announced /\ NotifiedOnce

\* The message of a delete under way stays hidden while the server has it, and
\* no second operation deletes it or takes it back.
Deleting(u) == op[u].pc \in {"expunge", "restore"} /\ op[u].arg \in live
HideInv ==
  /\ Base
  /\ NoneEmpties
  /\ \A u \in User : Deleting(u) => op[u].arg \in hidden
  /\ \A u, v \in User : Deleting(u) /\ Deleting(v) /\ op[u].arg = op[v].arg => u = v

-----------------------------------------------------------------------------
(* Types. *)

\* Sets of UIDs are finite, and their sizes can be computed with.
LEMMA UidsCount ==
  ASSUME NEW S \in SUBSET Uid
  PROVE  IsFiniteSet(S) /\ Cardinality(S) \in 0..MaxUid
<1>1. IsFiniteSet(Uid) /\ Cardinality(Uid) = MaxUid
  BY FS_Interval DEF Uid
<1>2. IsFiniteSet(S) /\ Cardinality(S) <= MaxUid
  BY <1>1, FS_Subset
<1> QED BY <1>2, FS_CardinalityType

\* The unread count stays within its bounds.
LEMMA CountTyped ==
  ASSUME badge \in 0..MaxBadge, NEW delta \in Int, Count(delta)
  PROVE  badge' \in 0..MaxBadge
BY DEF Count, MaxBadge

LEMMA NewestWithin == \A S : Newest(S) \subseteq S
BY DEF Newest

\* What the cache and the server are.
CacheTyped ==
  /\ cached \subseteq Uid /\ read \subseteq cached /\ hidden \subseteq cached
  /\ mark \in Mark /\ badge \in 0..MaxBadge
ServerTyped ==
  /\ validity \in 1..MaxValidity /\ uidnext \in 1..MaxUid + 1
  /\ live \subseteq Uid /\ seen \subseteq live

\* Every write of the cache keeps its type.
LEMMA RemoveTyped ==
  ASSUME CacheTyped, NEW S, RemoveRows(S)
  PROVE  CacheTyped'
<1>1. Cardinality((cached \cap S) \ read) \in Int
  BY UidsCount DEF CacheTyped
<1>2. badge' \in 0..MaxBadge
  BY <1>1, CountTyped DEF RemoveRows, CacheTyped
<1> QED BY <1>2 DEF RemoveRows, CacheTyped

LEMMA UpsertTyped ==
  ASSUME CacheTyped, NEW S \in SUBSET Uid, NEW T, UpsertRows(S, T)
  PROVE  CacheTyped'
BY DEF CacheTyped, UpsertRows

LEMMA NoMarkTyped == NoMark \in Mark
BY DEF NoMark, Mark

LEMMA NoRunTyped == NoRun \in Run
BY NoMarkTyped DEF NoRun, Run, PollPC

\* What the bookmark of a run is to be: nothing it fetched or knew is above it.
LEMMA HighOf ==
  ASSUME NEW r \in Run
  PROVE  /\ NewHigh(r) \in 0..MaxUid /\ NewHigh(r) \in r.batch \cup {r.prior.high}
         /\ r.prior.high <= NewHigh(r)
         /\ \A b \in r.batch : b <= NewHigh(r)
<1> DEFINE S == r.batch \cup {r.prior.high}
<1>1. S \in SUBSET Nat /\ S # {} /\ (\A s \in S : s <= MaxUid) /\ S \subseteq 0..MaxUid
  BY DEF Run, Mark, Uid
<1>2. Max(S) \in S /\ \A s \in S : s <= Max(S)
  BY <1>1, MaxIsGreatest
<1> QED BY <1>1, <1>2 DEF NewHigh

\* What each step of a poll makes of its run.  It leaves the other runs alone.
Only(p) == \A q \in Poller \ {p} : poll'[q] = poll[q]
Polls == poll \in [Poller -> Run]

\* The step leaves what the poll brought as it is.
SameBatch(p) ==
  /\ poll'[p].prior = poll[p].prior /\ poll'[p].valid = poll[p].valid
  /\ poll'[p].rotated = poll[p].rotated /\ poll'[p].batch = poll[p].batch

LEMMA StepTo ==
  ASSUME Polls, NEW p \in Poller, NEW r \in Run, Step(p, r)
  PROVE  Polls' /\ Only(p) /\ poll'[p] = r
BY DEF Polls, Only, Step

LEMMA StartRun ==
  ASSUME Polls, mark \in Mark, NEW p \in Poller, PollStart(p)
  PROVE  /\ Polls' /\ Only(p) /\ poll'[p].pc = "fetch" /\ poll'[p].prior = mark
         /\ ~ poll'[p].rotated /\ poll'[p].batch = {}
<1> DEFINE r == [NoRun EXCEPT !.pc = "fetch", !.prior = mark]
<1>1. r \in Run /\ r.pc = "fetch" /\ r.prior = mark /\ ~ r.rotated /\ r.batch = {}
  BY NoRunTyped DEF NoRun, Run, PollPC
<1>2. Step(p, r)
  BY DEF PollStart, At
<1> HIDE DEF r
<1> QED BY <1>1, <1>2, StepTo

LEMMA FetchRun ==
  ASSUME Polls, ServerTyped, NEW p \in Poller, PollFetch(p)
  PROVE  LET rotated == poll[p].prior.valid # 0 /\ poll[p].prior.valid # validity IN
         /\ Polls' /\ Only(p)
         /\ poll[p].pc = "fetch" /\ poll'[p].pc = IF rotated THEN "wipe" ELSE "list"
         /\ poll'[p].prior = poll[p].prior /\ poll'[p].valid = validity
         /\ poll'[p].rotated = rotated /\ poll'[p].batch = Fetched(poll[p].prior.high)
<1> DEFINE rotated == poll[p].prior.valid # 0 /\ poll[p].prior.valid # validity
           pc == IF rotated THEN "wipe" ELSE "list"
           S == Fetched(poll[p].prior.high)
           r == [poll[p] EXCEPT !.pc = pc, !.valid = validity, !.rotated = rotated,
                                !.batch = S, !.bseen = S \cap seen]
<1>1. S \in SUBSET Uid /\ S \cap seen \in SUBSET Uid
  BY NewestWithin DEF Fetched, ServerTyped
<1>2. pc \in PollPC /\ rotated \in BOOLEAN
  BY DEF PollPC
<1>3. poll[p] \in Run /\ validity \in 0..MaxValidity
  BY DEF Polls, ServerTyped
<1>4. poll[p].pc = "fetch" /\ Step(p, r)
  BY DEF PollFetch, At
<1>5. r \in Run /\ r.pc = pc /\ r.prior = poll[p].prior /\ r.valid = validity
      /\ r.rotated = rotated /\ r.batch = S
  <2> HIDE DEF rotated, pc, S
  <2> QED BY <1>1, <1>2, <1>3 DEF Run
<1> HIDE DEF r
<1>6. Polls' /\ Only(p) /\ poll'[p] = r
  BY <1>4, <1>5, StepTo
<1> QED BY <1>4, <1>5, <1>6

LEMMA DoneRun ==
  ASSUME Polls, NEW p \in Poller, Done(p)
  PROVE  Polls' /\ Only(p) /\ poll'[p].pc = "idle" /\ ~ poll'[p].rotated
         /\ poll'[p].prior = NoMark /\ poll'[p].batch = {} /\ poll'[p].listed = {}
BY NoRunTyped, StepTo DEF Done, NoRun

LEMMA WipeRun ==
  ASSUME Polls, NEW p \in Poller, Wipe(p)
  PROVE  Polls' /\ Only(p) /\ poll[p].pc = "wipe" /\ poll'[p].pc = "refetch" /\ SameBatch(p)
<1> DEFINE r == [poll[p] EXCEPT !.pc = "refetch"]
<1>1. r \in Run /\ r.pc = "refetch" /\ r.prior = poll[p].prior /\ r.valid = poll[p].valid
      /\ r.rotated = poll[p].rotated /\ r.batch = poll[p].batch
  BY DEF Polls, Run, PollPC
<1>2. poll[p].pc = "wipe" /\ Step(p, r)
  BY DEF Wipe, At
<1> HIDE DEF r
<1> QED BY <1>1, <1>2, StepTo DEF SameBatch

LEMMA RefetchRun ==
  ASSUME Polls, ServerTyped, NEW p \in Poller, Refetch(p)
  PROVE  /\ Polls' /\ Only(p) /\ poll[p].pc = "refetch" /\ poll'[p].pc = "list"
         /\ poll'[p].prior = poll[p].prior /\ poll'[p].valid = validity
         /\ poll'[p].batch = Newest(live)
<1> DEFINE r == [poll[p] EXCEPT !.pc = "list", !.valid = validity, !.batch = Newest(live),
                                !.bseen = Newest(live) \cap seen]
<1>1. Newest(live) \in SUBSET Uid /\ Newest(live) \cap seen \in SUBSET Uid
  BY NewestWithin DEF ServerTyped
<1>2. poll[p] \in Run /\ validity \in 0..MaxValidity
  BY DEF Polls, ServerTyped
<1>3. r \in Run /\ r.pc = "list" /\ r.prior = poll[p].prior /\ r.valid = validity
      /\ r.batch = Newest(live)
  BY <1>1, <1>2 DEF Run, PollPC
<1>4. poll[p].pc = "refetch" /\ Step(p, r)
  BY DEF Refetch, At
<1> HIDE DEF r
<1> QED BY <1>3, <1>4, StepTo

LEMMA ListRun ==
  ASSUME Polls, ServerTyped, NEW p \in Poller, List(p)
  PROVE  /\ Polls' /\ Only(p) /\ poll[p].pc = "list" /\ poll'[p].pc = "snapshot"
         /\ SameBatch(p) /\ poll'[p].listed \in {live, {}}
<1>1. PICK listed \in {live, {}} :
        Step(p, [poll[p] EXCEPT !.pc = "snapshot", !.listed = listed])
  BY DEF List
<1> DEFINE r == [poll[p] EXCEPT !.pc = "snapshot", !.listed = listed]
<1>2. poll[p] \in Run /\ listed \in SUBSET Uid
  BY DEF Polls, ServerTyped
<1>3. r \in Run /\ r.pc = "snapshot" /\ r.listed = listed /\ r.prior = poll[p].prior /\ r.valid = poll[p].valid
      /\ r.rotated = poll[p].rotated /\ r.batch = poll[p].batch
  BY <1>2 DEF Run, PollPC
<1>4. poll[p].pc = "list" /\ Step(p, r)
  BY <1>1 DEF List, At
<1> HIDE DEF r
<1> QED BY <1>3, <1>4, StepTo DEF SameBatch

LEMMA SnapshotRun ==
  ASSUME Polls, ServerTyped, CacheTyped, NEW p \in Poller, Snapshot(p)
  PROVE  /\ Polls' /\ Only(p) /\ poll[p].pc = "snapshot" /\ poll'[p].pc = "reconcile"
         /\ SameBatch(p) /\ poll'[p].listed = poll[p].listed
<1> DEFINE recent == IF poll[p].rotated THEN {} ELSE Newest(cached) \cap live
<1>1. PICK snap \in {recent, {}} :
        Step(p, [poll[p] EXCEPT !.pc = "reconcile", !.snap = snap, !.sseen = snap \cap seen])
  BY DEF Snapshot
<1> DEFINE r == [poll[p] EXCEPT !.pc = "reconcile", !.snap = snap, !.sseen = snap \cap seen]
<1>2. poll[p] \in Run /\ snap \in SUBSET Uid /\ snap \cap seen \in SUBSET Uid
  BY DEF Polls, ServerTyped
<1>3. r \in Run /\ r.pc = "reconcile" /\ r.listed = poll[p].listed /\ r.prior = poll[p].prior /\ r.valid = poll[p].valid
      /\ r.rotated = poll[p].rotated /\ r.batch = poll[p].batch
  <2> HIDE DEF recent
  <2> QED BY <1>2 DEF Run, PollPC
<1>4. poll[p].pc = "snapshot" /\ Step(p, r)
  BY <1>1 DEF Snapshot, At
<1> HIDE DEF r
<1> QED BY <1>3, <1>4, StepTo DEF SameBatch

LEMMA ReconcileRun ==
  ASSUME Polls, NEW p \in Poller, Reconcile(p)
  PROVE  /\ Polls' /\ Only(p) /\ poll[p].pc = "reconcile" /\ poll'[p].pc = "upsert"
         /\ SameBatch(p)
<1> DEFINE r == [poll[p] EXCEPT !.pc = "upsert", !.listed = {}]
<1>1. r \in Run /\ r.pc = "upsert" /\ r.prior = poll[p].prior /\ r.valid = poll[p].valid
      /\ r.rotated = poll[p].rotated /\ r.batch = poll[p].batch
  BY DEF Polls, Run, PollPC
<1>2. poll[p].pc = "reconcile" /\ Step(p, r)
  BY DEF Reconcile, At
<1> HIDE DEF r
<1> QED BY <1>1, <1>2, StepTo DEF SameBatch

LEMMA UpsertRun ==
  ASSUME Polls, NEW p \in Poller, Upsert(p)
  PROVE  Polls' /\ Only(p) /\ poll[p].pc = "upsert" /\ poll'[p].pc = "advance" /\ SameBatch(p)
<1> DEFINE r == [poll[p] EXCEPT !.pc = "advance"]
<1>1. r \in Run /\ r.pc = "advance" /\ r.prior = poll[p].prior /\ r.valid = poll[p].valid
      /\ r.rotated = poll[p].rotated /\ r.batch = poll[p].batch
  BY DEF Polls, Run, PollPC
<1>2. poll[p].pc = "upsert" /\ Step(p, r)
  BY DEF Upsert, At
<1> HIDE DEF r
<1> QED BY <1>1, <1>2, StepTo DEF SameBatch

LEMMA AdvanceRun ==
  ASSUME Polls, NEW p \in Poller, Advance(p)
  PROVE  Polls' /\ Only(p) /\ poll[p].pc = "advance" /\ poll'[p].pc = "flags" /\ SameBatch(p)
<1> DEFINE r == [poll[p] EXCEPT !.pc = "flags"]
<1>1. r \in Run /\ r.pc = "flags" /\ r.prior = poll[p].prior /\ r.valid = poll[p].valid
      /\ r.rotated = poll[p].rotated /\ r.batch = poll[p].batch
  BY DEF Polls, Run, PollPC
<1>2. poll[p].pc = "advance" /\ Step(p, r)
  BY DEF Advance, At
<1> HIDE DEF r
<1> QED BY <1>1, <1>2, StepTo DEF SameBatch

\* The type invariant in parts.  An operation on a message names one, which is what
\* the type alone does not say.
Ops == /\ op \in [User -> Op]
       /\ \A u \in User : op[u].pc \in OfUid => op[u].arg \in Uid
Histories == /\ notified \in [Uid -> 0..2] /\ ops \in 0..MaxOps
             /\ harm \in {"none", "torn", "upset"}

Typed == ServerTyped /\ CacheTyped /\ Polls /\ Ops /\ Histories

LEMMA TypedIsTyped == Typed => TypeOK
BY DEF Typed, TypeOK, ServerTyped, CacheTyped, Polls, Ops, Histories

LEMMA InitTyped == Init => Typed
<1>1. NoOp \in Op /\ NoOp.pc \notin OfUid
  BY DEF NoOp, Op, OpPC, OfUid
<1>2. Init => Polls /\ Ops
  BY <1>1, NoRunTyped DEF Init, Polls, Ops
<1>3. Init => ServerTyped /\ CacheTyped
  BY NoMarkTyped DEF Init, ServerTyped, CacheTyped, MaxBadge
<1>4. Init => Histories
  <2>1. Init => notified \in [Uid -> 0..2]
    BY DEF Init
  <2>2. Init => ops \in 0..MaxOps
    BY DEF Init
  <2>3. Init => harm \in {"none", "torn", "upset"}
    BY DEF Init
  <2> QED BY <2>1, <2>2, <2>3 DEF Histories
<1> QED BY <1>2, <1>3, <1>4 DEF Typed

\* The steps of a poll.
LEMMA PollCache ==
  ASSUME ServerTyped, CacheTyped, Polls, NEW p \in Poller, PollStep(p)
  PROVE  CacheTyped'
<1>1. CASE UNCHANGED cache
  BY <1>1 DEF cache, rows, CacheTyped
<1>2. CASE Wipe(p)
  BY <1>2, NoMarkTyped DEF Wipe, Logged, CacheTyped, cache, rows
<1>3. CASE Reconcile(p)
  BY <1>3, RemoveTyped DEF Reconcile
<1>4. CASE Upsert(p)
  <2>1. poll[p].batch \in SUBSET Uid
    BY DEF Polls, Run
  <2> QED BY <1>1, <1>4, <2>1, UpsertTyped DEF Upsert, Logged
<1>5. CASE Advance(p)
  <2>1. poll[p] \in Run
    BY DEF Polls
  <2>2. badge' \in 0..MaxBadge
    <3>1. New(poll[p]) \ poll[p].bseen \in SUBSET Uid
      BY <2>1 DEF New, Run
    <3>2. Cardinality(New(poll[p]) \ poll[p].bseen) \in Int
      BY <3>1, UidsCount
    <3> QED BY <1>5, <3>2, CountTyped DEF Advance, CacheTyped
  <2>3. mark' \in Mark
    <3>1. NewHigh(poll[p]) \in 0..MaxUid
      BY <2>1, HighOf
    <3> QED BY <1>5, <2>1, <3>1 DEF Advance, CacheTyped, Mark, Run
  <2> QED BY <1>5, <2>2, <2>3 DEF Advance, rows, CacheTyped
<1>6. CASE FlagPass(p)
  <2> DEFINE known == poll[p].snap \cap cached
             up == (known \cap read) \ poll[p].sseen
             down == (known \cap poll[p].sseen) \ read
  <2>1. up \in SUBSET Uid /\ down \in SUBSET Uid /\ known \subseteq cached
    BY DEF CacheTyped
  <2>2. Cardinality(up) - Cardinality(down) \in Int
    BY <2>1, UidsCount
  <2>3. CASE /\ read' = (read \ known) \cup (known \cap poll[p].sseen)
             /\ Count(Cardinality(up) - Cardinality(down))
             /\ UNCHANGED <<cached, hidden, mark>>
    <3> HIDE DEF up, down, known
    <3>1. badge' \in 0..MaxBadge
      BY <2>2, <2>3, CountTyped DEF CacheTyped
    <3> QED BY <2>1, <2>3, <3>1 DEF CacheTyped
  <2> QED BY <1>1, <1>6, <2>3 DEF FlagPass, Logged
<1> QED BY <1>1, <1>2, <1>3, <1>4, <1>5, <1>6 DEF PollStep, PollStart, PollFetch, PollFail,
        Refetch, List, Snapshot

LEMMA PollRuns ==
  ASSUME ServerTyped, CacheTyped, Polls, NEW p \in Poller, PollStep(p)
  PROVE  Polls' /\ Only(p)
<1>1. mark \in Mark
  BY DEF CacheTyped
<1>2. CASE PollFail(p) \/ FlagPass(p)
  BY <1>2, DoneRun DEF PollFail, FlagPass
<1> QED BY <1>1, <1>2, StartRun, FetchRun, WipeRun, RefetchRun, ListRun, SnapshotRun,
        ReconcileRun, UpsertRun, AdvanceRun DEF PollStep

LEMMA PollTyped ==
  ASSUME Typed, NEW p \in Poller, PollStep(p)
  PROVE  Typed'
<1>1. ServerTyped /\ CacheTyped /\ Polls /\ Ops /\ Histories
  BY DEF Typed
<1>2. UNCHANGED <<server, op, ops>>
  BY DEF PollStep, PollStart, PollFetch, PollFail, Wipe, Refetch, List, Snapshot,
     Reconcile, Upsert, Advance, FlagPass
<1>3. harm' \in {"none", "torn", "upset"}
  BY <1>1 DEF Histories, PollStep, PollStart, PollFetch, PollFail, Wipe, Refetch, List,
     Snapshot, Reconcile, Upsert, Advance, FlagPass, Logged, history
<1>4. notified' \in [Uid -> 0..2]
  <2>1. CASE FlagPass(p)
    BY <1>1, <2>1 DEF FlagPass, Histories
  <2>2. CASE UNCHANGED notified
    BY <1>1, <2>2 DEF Histories
  <2> QED BY <2>1, <2>2 DEF PollStep, PollStart, PollFetch, PollFail, Wipe, Refetch, List,
          Snapshot, Reconcile, Upsert, Advance, history
<1>5. CacheTyped' /\ Polls'
  BY <1>1, PollCache, PollRuns
<1>6. ServerTyped' /\ Ops' /\ Histories'
  BY <1>1, <1>2, <1>3, <1>4 DEF ServerTyped, server, Ops, Histories
<1> QED BY <1>5, <1>6 DEF Typed

\* The user's operations.
OnlyOp(u) == \A v \in User \ {u} : op'[v] = op[v]

LEMMA BeginOp ==
  ASSUME Ops, ops \in 0..MaxOps, NEW u \in User, NEW pc \in OpPC, NEW arg \in 0..MaxUid,
         NEW val \in BOOLEAN, Begin(u, pc, arg, val), pc \in OfUid => arg \in Uid
  PROVE  /\ Ops' /\ OnlyOp(u) /\ op[u].pc = "idle" /\ ops' \in 0..MaxOps
         /\ op'[u].pc = pc /\ op'[u].arg = arg /\ op'[u].val = val
BY DEF Begin, Spend, Ops, Op, OnlyOp

LEMMA EndOp ==
  ASSUME Ops, NEW u \in User, End(u)
  PROVE  Ops' /\ OnlyOp(u) /\ op'[u].pc = "idle"
BY DEF End, Ops, Op, OpPC, NoOp, OnlyOp, OfUid

LEMMA ThenOp ==
  ASSUME Ops, NEW u \in User, NEW pc \in OpPC, Then(u, pc), op[u].pc \in OfUid
  PROVE  Ops' /\ OnlyOp(u) /\ op'[u].pc = pc /\ op'[u].arg = op[u].arg
<1> DEFINE r == [op[u] EXCEPT !.pc = pc]
<1>1. r \in Op /\ r.pc = pc /\ r.arg = op[u].arg
  BY DEF Ops, Op
<1>2. op' = [op EXCEPT ![u] = r]
  BY DEF Then
<1> HIDE DEF r
<1> QED BY <1>1, <1>2 DEF Ops, OnlyOp

\* What begins: an operation on a message that is shown, or on the whole folder.
Begun(u) ==
  /\ Ops' /\ OnlyOp(u) /\ op[u].pc = "idle" /\ ops' \in 0..MaxOps
  /\ op'[u].pc \notin {"clean", "restore"}
  /\ op'[u].pc \in OfUid =>
       op'[u].arg \in Uid /\ op'[u].arg \in cached /\ op'[u].arg \notin hidden
  /\ op'[u].pc = "evict" => op'[u].arg \notin live

LEMMA OpBegins ==
  ASSUME ServerTyped, CacheTyped, Ops, Histories, NEW u \in User, OpStart(u)
  PROVE  Begun(u)
<1>1. ASSUME NEW pc \in OpPC, NEW arg \in 0..MaxUid, NEW val \in BOOLEAN,
             Begin(u, pc, arg, val), pc \notin {"clean", "restore"},
             pc \in OfUid => arg \in Uid /\ arg \in Visible, pc = "evict" => arg \notin live
      PROVE  Begun(u)
  <2>1. /\ Ops' /\ OnlyOp(u) /\ op[u].pc = "idle" /\ ops' \in 0..MaxOps
        /\ op'[u].pc = pc /\ op'[u].arg = arg /\ op'[u].val = val
    BY <1>1, BeginOp DEF Histories
  <2> QED BY <1>1, <2>1 DEF Begun, Visible
<1>2. ASSUME NEW uid \in Uid, NEW val \in BOOLEAN, SetRead(u, uid, val)
      PROVE  Begun(u)
  BY <1>1, <1>2 DEF SetRead, OpPC, Uid
<1>3. ASSUME NEW uid \in Uid, Delete(u, uid)
      PROVE  Begun(u)
  <2>1. "expunge" \in OpPC /\ uid \in 0..MaxUid /\ FALSE \in BOOLEAN
    BY DEF OpPC, Uid
  <2>2. Begin(u, "expunge", uid, FALSE) /\ uid \in Visible
    BY <1>3 DEF Delete
  <2> QED BY <1>1, <2>1, <2>2
<1>4. ASSUME NEW uid \in Uid, OpenMail(u, uid)
      PROVE  Begun(u)
  <2> DEFINE pc == IF uid \in live THEN "write" ELSE "evict"
             val == uid \in seen
  <2>1. val \in BOOLEAN /\ Begin(u, pc, uid, val)
    BY <1>4 DEF OpenMail
  <2>2. pc \in OpPC /\ pc \notin {"clean", "restore"} /\ (pc = "evict" => uid \notin live)
    BY DEF OpPC
  <2>3. uid \in Visible /\ uid \in 0..MaxUid
    BY <1>4 DEF OpenMail, Uid
  <2> HIDE DEF pc, val
  <2> QED BY <1>1, <2>1, <2>2, <2>3
<1>5. CASE ReadAll(u)
  <2>1. "storeall" \in OpPC \ OfUid /\ 0 \in 0..MaxUid /\ TRUE \in BOOLEAN
    BY DEF OpPC, OfUid
  <2>2. Begin(u, "storeall", 0, TRUE)
    BY <1>5 DEF ReadAll
  <2> QED BY <1>1, <2>1, <2>2
<1>6. CASE FetchFolders(u)
  <2>1. Cardinality(live \ seen) \in 0..MaxUid
    BY UidsCount DEF ServerTyped
  <2> QED BY <1>1, <1>6, <2>1 DEF FetchFolders, OpPC, OfUid
<1>7. CASE ClearFolder(u)
  <2>1. CASE Begin(u, "empty", 0, FALSE)
    <3>1. "empty" \in OpPC \ OfUid /\ 0 \in 0..MaxUid /\ FALSE \in BOOLEAN
      BY DEF OpPC, OfUid
    <3> QED BY <1>1, <2>1, <3>1
  <2>2. CASE Spend /\ Doing(u, "idle") /\ UNCHANGED op
    BY <2>2 DEF Begun, Spend, Doing, Ops, OnlyOp, Histories, OfUid
  <2> QED BY <1>7, <2>1, <2>2 DEF ClearFolder
<1> QED BY <1>2, <1>3, <1>4, <1>5, <1>6, <1>7 DEF OpStart

\* What goes on: every step ends the operation, but for the expunge.
LEMMA OpGoesOn ==
  ASSUME Ops, NEW u \in User, OpStep(u)
  PROVE  /\ Ops' /\ OnlyOp(u) /\ op'[u].pc \in {"idle", "clean", "restore"}
         /\ op'[u].pc # "idle" => op[u].pc = "expunge" /\ op'[u].arg = op[u].arg /\ Expunge(u)
<1>1. CASE Expunge(u)
  BY <1>1, ThenOp DEF Expunge, OpPC, Doing, OfUid
<1>2. CASE End(u)
  BY <1>2, EndOp
<1> QED BY <1>1, <1>2 DEF OpStep, Store, StoreAll, Clean, Restore, Write, CountFolders, Empty

LEMMA OpCache ==
  ASSUME ServerTyped, CacheTyped, Ops, NEW u \in User, OpStart(u) \/ OpStep(u)
  PROVE  CacheTyped'
<1>1. CASE UNCHANGED cache
  BY <1>1 DEF cache, rows, CacheTyped
<1>2. ASSUME NEW uid \in Uid, NEW val \in BOOLEAN, SetRead(u, uid, val)
      PROVE  CacheTyped'
  <2>1. CASE /\ read' = IF val THEN read \cup {uid} ELSE read \ {uid}
             /\ Count(IF val /\ uid \notin read THEN -1
                      ELSE IF ~ val /\ uid \in read THEN 1 ELSE 0)
             /\ UNCHANGED <<cached, hidden, mark>>
    <3>1. badge' \in 0..MaxBadge
      BY <2>1, CountTyped DEF CacheTyped
    <3>2. uid \in cached
      BY <1>2 DEF SetRead, Visible
    <3> QED BY <2>1, <3>1, <3>2 DEF CacheTyped
  <2> QED BY <1>1, <1>2, <2>1 DEF SetRead, Logged
<1>3. ASSUME NEW uid \in Uid, Delete(u, uid)
      PROVE  CacheTyped'
  BY <1>1, <1>3 DEF Delete, Logged, Visible, CacheTyped
<1>4. CASE ReadAll(u)
  BY <1>1, <1>4 DEF ReadAll, Logged, CacheTyped, MaxBadge
<1>5. CASE Clean(u)
  BY <1>1, <1>5, RemoveTyped DEF Clean, Logged
<1>6. CASE Restore(u)
  BY <1>1, <1>6 DEF Restore, Logged, CacheTyped
<1>7. CASE Write(u)
  <2>1. op[u].arg \in Uid
    BY <1>7 DEF Write, Doing, Ops, OfUid, OpPC
  <2> QED BY <1>1, <1>7, <2>1, UpsertTyped DEF Write, Logged
<1>8. CASE CountFolders(u)
  BY <1>1, <1>8 DEF CountFolders, Logged, CacheTyped, rows, MaxBadge, Ops, Op
<1>9. CASE Empty(u)
  BY <1>1, <1>9, NoMarkTyped DEF Empty, Logged, EmptyRows, CacheTyped, MaxBadge
<1> QED BY <1>1, <1>2, <1>3, <1>4, <1>5, <1>6, <1>7, <1>8, <1>9 DEF OpStart, OpStep, OpenMail,
        FetchFolders, ClearFolder, Store, StoreAll, Expunge

LEMMA OpTyped ==
  ASSUME Typed, NEW u \in User, OpStart(u) \/ OpStep(u)
  PROVE  Typed'
<1>1. ServerTyped /\ CacheTyped /\ Polls /\ Ops /\ Histories
  BY DEF Typed
<1>2. UNCHANGED <<poll, notified>>
  BY DEF OpStart, SetRead, ReadAll, Delete, OpenMail, FetchFolders, ClearFolder, OpStep, Store,
     StoreAll, Expunge, Clean, Restore, Write, CountFolders, Empty, history
<1>3. harm' \in {"none", "torn", "upset"}
  BY <1>1 DEF Histories, OpStart, SetRead, ReadAll, Delete, OpenMail, FetchFolders, ClearFolder,
     OpStep, Store, StoreAll, Expunge, Clean, Restore, Write, CountFolders, Empty, history,
     Logged
<1>4. Ops' /\ ops' \in 0..MaxOps
  <2>1. CASE OpStart(u)
    BY <1>1, <2>1, OpBegins DEF Begun
  <2>2. CASE OpStep(u)
    <3>1. ops' = ops
      BY <2>2 DEF OpStep, Store, StoreAll, Expunge, Clean, Restore, Write, CountFolders, Empty
    <3> QED BY <1>1, <2>2, <3>1, OpGoesOn DEF Histories
  <2> QED BY <2>1, <2>2
<1>5. ServerTyped'
  BY <1>1 DEF ServerTyped, server, OpStart, SetRead, ReadAll, Delete, OpenMail, FetchFolders,
     ClearFolder, OpStep, Store, StoreAll, Expunge, Clean, Restore, Write, CountFolders, Empty
<1>6. CacheTyped'
  BY <1>1, OpCache
<1> QED BY <1>1, <1>2, <1>3, <1>4, <1>5, <1>6 DEF Typed, Polls, Histories

\* The server and other clients.  Numbering anew maps the messages to 1..n.
LEMMA RotateTyped ==
  ASSUME ServerTyped, Rotate
  PROVE  ServerTyped'
<1> DEFINE Place(u) == Cardinality({v \in live : v <= u})
<1>1. live \in SUBSET Uid
  BY DEF ServerTyped
<1>2. Cardinality(live) \in 0..MaxUid
  BY <1>1, UidsCount
<1>3. ASSUME NEW u \in live
      PROVE  Place(u) \in Uid
  <2>1. {v \in live : v <= u} \in SUBSET Uid /\ u \in {v \in live : v <= u}
    <3>1. u <= u
      BY <1>1 DEF Uid
    <3> QED BY <1>1, <3>1
  <2>2. Place(u) \in 0..MaxUid /\ Place(u) # 0
    BY <2>1, UidsCount, FS_EmptySet
  <2> QED BY <2>2 DEF Uid
<1>4. live' \subseteq Uid /\ seen' \subseteq live'
  <2>1. live' = {Place(u) : u \in live} /\ seen' = {Place(u) : u \in seen}
    BY DEF Rotate
  <2> HIDE DEF Place
  <2> QED BY <1>3, <2>1 DEF ServerTyped
<1>5. validity < MaxValidity /\ validity' = validity + 1 /\ uidnext' = Cardinality(live) + 1
  BY DEF Rotate
<1> QED BY <1>2, <1>4, <1>5 DEF ServerTyped

LEMMA CrashTyped ==
  ASSUME Typed, Crash
  PROVE  Typed'
<1>1. NoOp \in Op /\ NoOp.pc \notin OfUid
  BY DEF NoOp, Op, OpPC, OfUid
<1>2. Polls' /\ Ops'
  BY <1>1, NoRunTyped DEF Crash, Polls, Ops
<1>3. ServerTyped' /\ CacheTyped'
  BY DEF Crash, Sweep, Typed, ServerTyped, CacheTyped, server
<1>4. notified' \in [Uid -> 0..2] /\ ops' \in 0..MaxOps
  BY DEF Crash, Spend, Typed, Histories
<1>5. harm' \in {"none", "torn", "upset"}
  BY DEF Crash, Typed, Histories
<1> QED BY <1>2, <1>3, <1>4, <1>5 DEF Typed, Histories

LEMMA EnvironmentTyped ==
  ASSUME Typed, Environment
  PROVE  Typed'
<1>1. ServerTyped /\ CacheTyped /\ Polls /\ Ops /\ Histories
  BY DEF Typed
<1>2. CASE Crash
  BY <1>2, CrashTyped
<1>3. CASE Rotate
  <2>1. ServerTyped'
    BY <1>1, <1>3, RotateTyped
  <2>2. CacheTyped' /\ Polls' /\ Ops'
    BY <1>1, <1>3 DEF Rotate, cache, rows, CacheTyped, Polls, Ops
  <2>3. Histories'
    <3>1. notified' \in [Uid -> 0..2] /\ ops' \in 0..MaxOps
      BY <1>1, <1>3 DEF Rotate, Histories
    <3>2. harm' \in {"none", "torn", "upset"}
      BY <1>3 DEF Rotate
    <3> QED BY <3>1, <3>2 DEF Histories
  <2> QED BY <2>1, <2>2, <2>3 DEF Typed
<1>4. CASE Arrive \/ \E uid \in Uid : RemoteExpunge(uid) \/ RemoteSeen(uid)
  <2>1. UNCHANGED <<cache, poll, op, history>>
    BY <1>4 DEF Arrive, RemoteExpunge, RemoteSeen
  <2>2. ops' \in 0..MaxOps
    BY <1>1, <1>4 DEF Arrive, RemoteExpunge, RemoteSeen, Spend, Histories
  <2>3. ServerTyped'
    <3>1. CASE Arrive
      <4>1. uidnext \in Uid /\ uidnext' \in 1..MaxUid + 1
        BY <1>1, <3>1 DEF Arrive, ServerTyped, Uid
      <4> QED BY <1>1, <3>1, <4>1 DEF Arrive, ServerTyped
    <3>2. ASSUME NEW uid \in Uid, RemoteExpunge(uid) \/ RemoteSeen(uid)
          PROVE  ServerTyped'
      BY <1>1, <3>2 DEF RemoteExpunge, RemoteSeen, ServerTyped
    <3> QED BY <1>4, <3>1, <3>2
  <2>4. CacheTyped' /\ Polls' /\ Ops' /\ Histories'
    BY <1>1, <2>1, <2>2 DEF cache, rows, history, CacheTyped, Polls, Ops, Histories
  <2> QED BY <2>3, <2>4 DEF Typed
<1> QED BY <1>2, <1>3, <1>4 DEF Environment

LEMMA NextTyped ==
  ASSUME Typed, [Next]_vars
  PROVE  Typed'
<1>1. CASE UNCHANGED vars
  BY <1>1 DEF vars, server, cache, rows, history, Typed, ServerTyped, CacheTyped, Polls, Ops,
     Histories
<1> QED BY <1>1, PollTyped, OpTyped, EnvironmentTyped DEF Next

\* Every variable keeps its type, and its bounds: whatever polls, operations, other
\* clients, renumberings, failures and crashes there are.  The unread badge is the
\* interesting one: bump_folder_unread clips it at zero (cache/mod.rs).
THEOREM TypeCorrect == Spec => []TypeOK
<1>1. Typed /\ [Next]_vars => Typed'
  BY NextTyped
<1> QED BY <1>1, InitTyped, TypedIsTyped, PTL DEF Spec

-----------------------------------------------------------------------------
(* Tombstones. *)

\* The operation that hides a message and has not let go of it.
Owns(u, uid) == op[u].pc \in {"expunge", "clean", "restore"} /\ op[u].arg = uid

LEMMA OwnedPoll ==
  ASSUME TombstoneOwned, NEW p \in Poller, PollStep(p)
  PROVE  TombstoneOwned'
<1>1. hidden' \subseteq hidden
  BY DEF PollStep, PollStart, PollFetch, PollFail, Wipe, Refetch, List, Snapshot, Reconcile,
     Upsert, Advance, FlagPass, Logged, RemoveRows, UpsertRows, cache, rows
<1>2. UNCHANGED op
  BY DEF PollStep, PollStart, PollFetch, PollFail, Wipe, Refetch, List, Snapshot, Reconcile,
     Upsert, Advance, FlagPass
<1> QED BY <1>1, <1>2 DEF TombstoneOwned

LEMMA OwnedOp ==
  ASSUME Typed, TombstoneOwned, "db_error" \notin Hazards,
         NEW u \in User, OpStart(u) \/ OpStep(u)
  PROVE  TombstoneOwned'
<1>1. ServerTyped /\ CacheTyped /\ Ops /\ Histories
  BY DEF Typed
<1>2. ~ DbFails
  BY DEF DbFails, Hazard
<1>3. \A uid \in hidden : \E v \in User : Owns(v, uid)
  BY DEF TombstoneOwned, Owns
<1>4. SUFFICES ASSUME NEW uid \in hidden'
               PROVE  \E v \in User : Owns(v, uid)'
  BY DEF TombstoneOwned, Owns
<1>5. ASSUME NEW v \in User, v # u, Owns(v, uid), OnlyOp(u)
      PROVE  Owns(v, uid)'
  BY <1>5 DEF Owns, OnlyOp
<1>6. CASE OpStart(u)
  <2>1. OnlyOp(u) /\ op[u].pc = "idle" /\ Ops'
    BY <1>1, <1>6, OpBegins DEF Begun
  <2>2. CASE uid \in hidden
    BY <1>3, <1>5, <2>1, <2>2 DEF Owns
  <2>3. CASE Delete(u, uid)
    BY <2>1, <2>3 DEF Delete, Begin, Owns, Ops
  <2>4. ASSUME NEW d \in Uid, Delete(u, d)
        PROVE  uid \in hidden \/ Delete(u, uid)
    BY <1>2, <1>4, <2>4 DEF Delete, Logged
  <2>5. CASE UNCHANGED hidden
    BY <1>4, <2>2, <2>5
  <2> QED BY <1>2, <1>6, <2>2, <2>3, <2>4, <2>5 DEF OpStart, SetRead, ReadAll, OpenMail,
          FetchFolders, ClearFolder, Logged, cache, rows
<1>7. CASE OpStep(u)
  <2>1. /\ OnlyOp(u) /\ op'[u].pc \in {"idle", "clean", "restore"}
        /\ op'[u].pc # "idle" => op[u].pc = "expunge" /\ op'[u].arg = op[u].arg /\ Expunge(u)
    BY <1>1, <1>7, OpGoesOn
  <2>2. uid \in hidden
    BY <1>2, <1>4, <1>7 DEF OpStep, Store, StoreAll, Expunge, Clean, Restore, Write, CountFolders,
       Empty, Logged, RemoveRows, UpsertRows, EmptyRows, cache, rows
  <2>3. PICK v \in User : Owns(v, uid)
    BY <1>3, <2>2
  <2>4. CASE v = u
    <3>1. uid = op[u].arg /\ op[u].pc \in {"expunge", "clean", "restore"}
      BY <2>3, <2>4 DEF Owns
    <3>2. CASE Expunge(u)
      <4>1. Then(u, "clean") \/ Then(u, "restore")
        BY <3>2 DEF Expunge
      <4>2. op'[u].pc \in {"clean", "restore"} /\ op'[u].arg = uid
        BY <1>1, <3>1, <3>2, <4>1, ThenOp DEF Expunge, Doing, OfUid, OpPC
      <4> QED BY <4>2 DEF Owns
    <3>3. CASE ~ Expunge(u)
      <4>1. Clean(u) \/ Restore(u) \/ Empty(u)
        BY <1>7, <3>1, <3>3 DEF OpStep, Store, StoreAll, Write, CountFolders, Doing
      <4>2. uid \notin hidden'
        BY <1>2, <3>1, <4>1 DEF Clean, Restore, Empty, EmptyRows, RemoveRows, Logged
      <4> QED BY <1>4, <4>2
    <3> QED BY <3>2, <3>3
  <2> QED BY <1>5, <2>1, <2>3, <2>4
<1> QED BY <1>6, <1>7

LEMMA NextOwned ==
  ASSUME Typed, TombstoneOwned, [Next]_vars, "db_error" \notin Hazards
  PROVE  TombstoneOwned'
<1>1. CASE UNCHANGED <<hidden, op>>
  BY <1>1 DEF TombstoneOwned
<1>2. CASE Crash
  BY <1>2 DEF Crash, Sweep, TombstoneOwned
<1> QED BY <1>1, <1>2, OwnedPoll, OwnedOp DEF Next, vars, cache, rows, Environment, Arrive,
        RemoteExpunge, RemoteSeen, Rotate

\* A row that is hidden belongs to a delete, archive or move under way: if the cache does
\* what it is told, none of them leaves a tombstone behind, however many run at once,
\* whatever the polls, the renumberings, the clearing and the crashes in between do.
THEOREM TombstonesAreOwned ==
  ASSUME "db_error" \notin Hazards
  PROVE  Spec => []TombstoneOwned
<1>1. Init => Typed /\ TombstoneOwned
  BY InitTyped DEF Init, TombstoneOwned
<1>2. Typed /\ TombstoneOwned /\ [Next]_vars => (Typed /\ TombstoneOwned)'
  BY NextTyped, NextOwned
<1> QED BY <1>1, <1>2, PTL DEF Spec

-----------------------------------------------------------------------------
(* The bookmark, with one poll at a time. *)

\* Steps that leave the run of every poll, the bookmark and the numbering alone.
LEMMA HeldStays ==
  ASSUME MarkHeld, UNCHANGED <<poll, mark>>
  PROVE  MarkHeld'
BY DEF MarkHeld

LEMMA HeldPoll ==
  ASSUME Typed, MarkHeld, Alone, NEW p \in Poller, PollStep(p)
  PROVE  MarkHeld'
<1>1. ServerTyped /\ CacheTyped /\ Polls /\ mark \in Mark /\ validity # 0
  BY DEF Typed, CacheTyped, ServerTyped
<1>2. \A q \in Poller : q = p
  BY DEF Alone
<1>3. /\ mark.valid = 0 => mark = NoMark
      /\ poll[p].pc \notin {"idle", "flags"} => mark \in {poll[p].prior, NoMark}
      /\ poll[p].pc \in Fetching => poll[p].valid # 0
  BY DEF MarkHeld
<1>4. SUFFICES /\ mark'.valid = 0 => mark' = NoMark
               /\ poll'[p].pc \notin {"idle", "flags"} => mark' \in {poll'[p].prior, NoMark}
               /\ poll'[p].pc \in Fetching => poll'[p].valid # 0
  BY <1>2 DEF MarkHeld
<1>5. CASE PollStart(p)
  BY <1>1, <1>3, <1>5, StartRun DEF PollStart, cache, Fetching
<1>6. CASE PollFetch(p)
  BY <1>1, <1>3, <1>6, FetchRun DEF PollFetch, cache
<1>7. CASE PollFail(p) \/ FlagPass(p)
  <2>1. poll'[p].pc = "idle"
    BY <1>1, <1>7, DoneRun DEF PollFail, FlagPass
  <2>2. mark' = mark
    BY <1>7 DEF PollFail, FlagPass, Logged, cache
  <2> QED BY <1>3, <2>1, <2>2 DEF Fetching
<1>8. CASE Wipe(p)
  BY <1>1, <1>3, <1>8, WipeRun DEF Wipe, Logged, cache, SameBatch, Fetching, NoMark
<1>9. CASE Refetch(p)
  BY <1>1, <1>3, <1>9, RefetchRun DEF Refetch, cache
<1>10. CASE List(p)
  BY <1>1, <1>3, <1>10, ListRun DEF List, cache, SameBatch, Fetching
<1>11. CASE Snapshot(p)
  BY <1>1, <1>3, <1>11, SnapshotRun DEF Snapshot, cache, SameBatch, Fetching
<1>12. CASE Reconcile(p)
  BY <1>1, <1>3, <1>12, ReconcileRun DEF Reconcile, RemoveRows, SameBatch, Fetching
<1>13. CASE Upsert(p)
  BY <1>1, <1>3, <1>13, UpsertRun DEF Upsert, UpsertRows, Logged, cache, SameBatch, Fetching
<1>14. CASE Advance(p)
  <2>1. poll[p].pc = "advance" /\ poll'[p].pc = "flags"
    BY <1>1, <1>14, AdvanceRun
  <2>2. poll[p].valid # 0
    BY <1>3, <2>1 DEF Fetching
  <2>3. mark' = mark \/ mark'.valid = poll[p].valid
    BY <1>14 DEF Advance
  <2> QED BY <1>3, <2>1, <2>2, <2>3 DEF Fetching
<1> QED BY <1>5, <1>6, <1>7, <1>8, <1>9, <1>10, <1>11, <1>12, <1>13, <1>14 DEF PollStep

LEMMA NextHeld ==
  ASSUME Typed, MarkHeld, Alone, [Next]_vars
  PROVE  MarkHeld'
<1>1. CASE UNCHANGED <<poll, mark>>
  BY <1>1, HeldStays
<1>2. ASSUME NEW u \in User, Empty(u)
      PROVE  MarkHeld'
  <2>1. UNCHANGED poll /\ mark' \in {mark, NoMark}
    BY <1>2 DEF Empty, Logged, EmptyRows, cache
  <2> QED BY <2>1 DEF MarkHeld, NoMark
<1>3. CASE Crash
  BY <1>3 DEF Crash, MarkHeld, NoRun, Fetching
<1>4. ASSUME NEW u \in User, OpStart(u) \/ OpStep(u)
      PROVE  UNCHANGED <<poll, mark>> \/ Empty(u)
  BY <1>4 DEF OpStart, SetRead, ReadAll, Delete, OpenMail, FetchFolders, ClearFolder, OpStep,
     Store, StoreAll, Expunge, Clean, Restore, Write, CountFolders, Logged, RemoveRows,
     UpsertRows, cache
<1> QED BY <1>1, <1>2, <1>3, <1>4, HeldPoll DEF Next, vars, cache, Environment, Arrive,
        RemoteExpunge, RemoteSeen, Rotate

LEMMA OpMark ==
  ASSUME NEW u \in User, OpStart(u) \/ OpStep(u)
  PROVE  mark' \in {mark, NoMark}
BY DEF OpStart, SetRead, ReadAll, Delete, OpenMail, FetchFolders, ClearFolder, OpStep,
   Store, StoreAll, Expunge, Clean, Restore, Write, CountFolders, Empty, Logged, RemoveRows,
   UpsertRows, EmptyRows, cache

LEMMA HeldMonotone ==
  ASSUME Typed, MarkHeld, Alone, [Next]_vars
  PROVE  mark'.valid = mark.valid => mark'.high >= mark.high
<1>1. mark \in Mark /\ mark.high \in 0..MaxUid
  BY DEF Typed, CacheTyped, Mark
<1>2. CASE mark' = mark
  BY <1>1, <1>2
<1>3. CASE mark' = NoMark
  <2>1. mark.valid = 0 => mark = NoMark
    BY DEF MarkHeld
  <2> QED BY <1>1, <1>3, <2>1 DEF NoMark
<1>4. ASSUME NEW p \in Poller, Advance(p)
      PROVE  mark' = mark \/ mark'.high >= mark.high
  <2>1. poll[p] \in Run /\ poll[p].pc = "advance"
    BY <1>4 DEF Typed, Polls, Advance, At
  <2>2. mark \in {poll[p].prior, NoMark}
    BY <2>1 DEF MarkHeld
  <2>3. mark.high <= NewHigh(poll[p]) /\ NewHigh(poll[p]) \in Nat
    BY <2>1, <2>2, HighOf DEF NoMark
  <2> QED BY <1>1, <1>4, <2>3 DEF Advance
<1>5. ASSUME NEW p \in Poller, PollStep(p), ~ Advance(p)
      PROVE  mark' \in {mark, NoMark}
  BY <1>5 DEF PollStep, PollStart, PollFetch, PollFail, Wipe, Refetch, List, Snapshot,
     Reconcile, Upsert, FlagPass, Logged, RemoveRows, UpsertRows, cache
<1>6. ASSUME NEW u \in User, OpStart(u) \/ OpStep(u)
      PROVE  mark' \in {mark, NoMark}
  BY <1>6, OpMark
<1> QED BY <1>2, <1>3, <1>4, <1>5, <1>6 DEF Next, vars, cache, Environment, Arrive,
        RemoteExpunge, RemoteSeen, Rotate, Crash

\* The bookmark never falls back while the folder keeps its numbering, if polls do not
\* overlap: what failures, crashes, renumberings and clearing leave of it is the bookmark
\* the poll began with or none, and a poll writes no lower one.
THEOREM BookmarkNeverFallsBack ==
  ASSUME Alone
  PROVE  Spec => BookmarkMonotone
<1>1. Init => Typed /\ MarkHeld
  BY InitTyped DEF Init, MarkHeld, NoRun, Fetching
<1>2. Typed /\ MarkHeld /\ [Next]_vars => (Typed /\ MarkHeld)'
  BY NextTyped, NextHeld
<1>3. Typed /\ MarkHeld /\ [Next]_vars =>
        [mark'.valid = mark.valid => mark'.high >= mark.high]_vars
  BY HeldMonotone
<1> QED BY <1>1, <1>2, <1>3, PTL DEF Spec, BookmarkMonotone

-----------------------------------------------------------------------------
(* The numbering: facts of any step that does not renumber the folder. *)

\* Where UIDs on the server come from.
LEMMA LiveGrows ==
  ASSUME Typed, [Next]_vars, validity' = validity
  PROVE  \/ live' \subseteq live /\ uidnext' = uidnext
         \/ Arrive
<1>1. ~ Rotate
  BY DEF Rotate, Typed, ServerTyped
<1>2. ASSUME NEW p \in Poller, PollStep(p)
      PROVE  UNCHANGED <<live, uidnext>>
  BY <1>2 DEF PollStep, PollStart, PollFetch, PollFail, Wipe, Refetch, List, Snapshot,
     Reconcile, Upsert, Advance, FlagPass, server
<1>3. ASSUME NEW u \in User, OpStart(u) \/ OpStep(u)
      PROVE  live' \subseteq live /\ uidnext' = uidnext
  BY <1>3 DEF OpStart, SetRead, ReadAll, Delete, OpenMail, FetchFolders, ClearFolder, OpStep,
     Store, StoreAll, Expunge, Clean, Restore, Write, CountFolders, Empty, server
<1> QED BY <1>1, <1>2, <1>3 DEF Next, vars, server, Environment, RemoteExpunge, RemoteSeen,
        Crash

\* Where rows come from: the batches of polls, and messages that had a row when opened.
LEMMA KnownPoll ==
  ASSUME NEW p \in Poller, PollStep(p)
  PROVE  /\ UNCHANGED op
         /\ cached' \subseteq cached \/ (Upsert(p) /\ cached' \subseteq cached \cup poll[p].batch)
BY DEF PollStep, PollStart, PollFetch, PollFail, Wipe, Refetch, List, Snapshot, Reconcile,
   Upsert, Advance, FlagPass, Logged, RemoveRows, UpsertRows, cache, rows

LEMMA KnownOp ==
  ASSUME Typed, NEW u \in User, OpStart(u) \/ OpStep(u)
  PROVE  Known' \subseteq Known
<1>1. ServerTyped /\ CacheTyped /\ Ops /\ Histories
  BY DEF Typed
<1>2. SUFFICES ASSUME NEW c \in Known'
               PROVE  c \in Known
  OBVIOUS
<1>3. OnlyOp(u) /\ (op'[u].pc = "write" => op'[u].arg \in cached)
  <2>1. CASE OpStart(u)
    BY <1>1, <2>1, OpBegins DEF Begun, OfUid, OpPC
  <2>2. CASE OpStep(u)
    BY <1>1, <2>2, OpGoesOn
  <2> QED BY <2>1, <2>2
<1>4. CASE c \in cached'
  <2>1. c \in cached \/ (Write(u) /\ c = op[u].arg)
    <3>1. ASSUME Write(u)
          PROVE  cached' \subseteq cached \cup {op[u].arg}
      BY <3>1 DEF Write, Logged, UpsertRows, cache, rows
    <3>2. ASSUME OpStart(u)
          PROVE  cached' = cached
      BY <3>2 DEF OpStart, SetRead, ReadAll, Delete, OpenMail, FetchFolders, ClearFolder,
         Logged, cache, rows
    <3>3. ASSUME OpStep(u), ~ Write(u)
          PROVE  cached' \subseteq cached
      BY <3>3 DEF OpStep, Store, StoreAll, Expunge, Clean, Restore, CountFolders, Empty,
         Logged, RemoveRows, EmptyRows, cache, rows
    <3> QED BY <1>4, <3>1, <3>2, <3>3
  <2>2. Write(u) => op[u].arg \in Uid /\ Doing(u, "write")
    BY <1>1 DEF Write, Doing, Ops, OfUid, OpPC
  <2> QED BY <2>1, <2>2 DEF Known
<1>5. ASSUME NEW v \in User, op'[v].pc = "write", op'[v].arg = c, c \in Uid
      PROVE  c \in Known
  BY <1>3, <1>5 DEF OnlyOp, Known, Doing
<1> QED BY <1>2, <1>4, <1>5 DEF Known, Doing

LEMMA KnownGrows ==
  ASSUME Typed, [Next]_vars
  PROVE  \/ Known' \subseteq Known
         \/ \E p \in Poller : Upsert(p) /\ Known' \subseteq Known \cup poll[p].batch
<1>1. CASE UNCHANGED <<cached, op>>
  BY <1>1 DEF Known, Doing
<1>2. ASSUME NEW p \in Poller, PollStep(p)
      PROVE  Known' \subseteq Known \/ (Upsert(p) /\ Known' \subseteq Known \cup poll[p].batch)
  BY <1>2, KnownPoll DEF Known, Doing
<1>3. CASE Crash
  BY <1>3 DEF Crash, NoOp, Known, Doing
<1> QED BY <1>1, <1>2, <1>3, KnownOp DEF Next, vars, cache, rows, Environment, Arrive,
        RemoteExpunge, RemoteSeen, Rotate

\* Operations and the server leave the polls alone.
LEMMA OpPolls ==
  ASSUME NEW u \in User, OpStart(u) \/ OpStep(u)
  PROVE  UNCHANGED poll
BY DEF OpStart, SetRead, ReadAll, Delete, OpenMail, FetchFolders, ClearFolder, OpStep, Store,
   StoreAll, Expunge, Clean, Restore, Write, CountFolders, Empty

\* What a poll holds comes from the bookmark and the server.
LEMMA BatchGrows ==
  ASSUME Typed, [Next]_vars, NEW p \in Poller
  PROVE  /\ poll'[p].prior \in {poll[p].prior, mark, NoMark}
         /\ poll'[p].batch \subseteq poll[p].batch \cup live
<1>1. Polls /\ ServerTyped /\ CacheTyped /\ mark \in Mark
  BY DEF Typed, CacheTyped
<1>2. CASE UNCHANGED poll
  BY <1>2
<1>3. CASE Crash
  BY <1>3 DEF Crash, NoRun
<1>4. ASSUME NEW q \in Poller, q # p, PollStep(q)
      PROVE  UNCHANGED poll[p]
  BY <1>1, <1>4, PollRuns DEF Only
<1>5. ASSUME PollStep(p)
      PROVE  /\ poll'[p].prior \in {poll[p].prior, mark, NoMark}
             /\ poll'[p].batch \subseteq poll[p].batch \cup live
  <2>1. CASE PollStart(p)
    BY <1>1, <2>1, StartRun
  <2>2. CASE PollFetch(p)
    <3>1. Fetched(poll[p].prior.high) \subseteq live
      BY NewestWithin DEF Fetched
    <3> QED BY <1>1, <2>2, <3>1, FetchRun
  <2>3. CASE PollFail(p) \/ FlagPass(p)
    BY <1>1, <2>3, DoneRun DEF PollFail, FlagPass
  <2>4. CASE Refetch(p)
    BY <1>1, <2>4, NewestWithin, RefetchRun
  <2> QED BY <1>1, <1>5, <2>1, <2>2, <2>3, <2>4, WipeRun, ListRun, SnapshotRun, ReconcileRun,
          UpsertRun, AdvanceRun DEF PollStep, SameBatch
<1> QED BY <1>2, <1>3, <1>4, <1>5, OpPolls DEF Next, vars, Environment, Arrive,
        RemoteExpunge, RemoteSeen, Rotate

\* Who writes the bookmark: only the last step of a poll puts one there.
LEMMA MarkGrows ==
  ASSUME [Next]_vars
  PROVE  mark' \in {mark, NoMark} \/ \E p \in Poller : Advance(p)
BY DEF Next, vars, cache, PollStep, PollStart, PollFetch, PollFail, Wipe, Refetch, List,
   Snapshot, Reconcile, Upsert, FlagPass, Logged, RemoveRows, UpsertRows, EmptyRows, OpStart,
   SetRead, ReadAll, Delete, OpenMail, FetchFolders, ClearFolder, OpStep, Store, StoreAll,
   Expunge, Clean, Restore, Write, CountFolders, Empty, Environment, Arrive, RemoteExpunge,
   RemoteSeen, Rotate, Crash

LEMMA OpArgs ==
  ASSUME Typed, [Next]_vars, NEW u \in User, op'[u].pc \in OfUid
  PROVE  \/ op[u].pc \in OfUid /\ op'[u].arg = op[u].arg
         \/ op'[u].arg \in cached
<1>1. ServerTyped /\ CacheTyped /\ Ops /\ Histories
  BY DEF Typed
<1>2. CASE UNCHANGED op
  BY <1>2
<1>3. ASSUME NEW v \in User, OpStart(v) \/ OpStep(v)
      PROVE  \/ UNCHANGED op[u]
             \/ op'[u].arg \in cached
             \/ op[u].pc = "expunge" /\ op'[u].arg = op[u].arg
  <2>1. OnlyOp(v)
    BY <1>1, <1>3, OpBegins, OpGoesOn DEF Begun
  <2>2. CASE v # u
    BY <2>1, <2>2 DEF OnlyOp
  <2>3. CASE v = u
    <3>1. CASE OpStart(u)
      BY <1>1, <2>3, <3>1, OpBegins DEF Begun
    <3>2. CASE OpStep(u)
      BY <1>1, <2>3, <3>2, OpGoesOn DEF OfUid
    <3> QED BY <1>3, <2>3, <3>1, <3>2
  <2> QED BY <2>2, <2>3
<1>4. CASE Crash
  BY <1>4 DEF Crash, NoOp, OfUid
<1>5. ASSUME NEW p \in Poller, PollStep(p)
      PROVE  UNCHANGED op
  BY <1>5, KnownPoll
<1> QED BY <1>2, <1>3, <1>4, <1>5 DEF Next, vars, Environment, Arrive, RemoteExpunge,
        RemoteSeen, Rotate, OfUid, OpPC

LEMMA NextIssued ==
  ASSUME Typed, Issued, [Next]_vars, validity' = validity
  PROVE  Issued'
<1>1. Typed' /\ uidnext \in Nat /\ uidnext' \in Nat /\ live \subseteq Nat /\ live' \subseteq Nat
  BY NextTyped DEF Typed, ServerTyped, Uid
<1>2. (\A x \in live' : x < uidnext') /\ uidnext <= uidnext'
  BY <1>1, LiveGrows DEF Issued, Arrive
<1>3. \A c \in Known : c < uidnext
  BY DEF Issued, Known, Doing, OfUid, OpPC
<1>4. ASSUME NEW x \in cached'
      PROVE  x < uidnext'
  <2>1. x \in Uid
    BY <1>1 DEF Typed, CacheTyped
  <2>2. x \in Known \/ \E p \in Poller : x \in poll[p].batch
    BY KnownGrows DEF Known
  <2>3. x < uidnext
    BY <1>3, <2>2 DEF Issued
  <2> QED BY <1>1, <1>2, <2>1, <2>3 DEF Uid
<1>5. ASSUME NEW u \in User, op'[u].pc \in OfUid
      PROVE  op'[u].arg \in Uid /\ op'[u].arg < uidnext'
  <2>1. op'[u].arg \in Uid
    BY <1>1, <1>5 DEF Typed, Ops
  <2>2. op'[u].arg < uidnext
    BY <1>5, OpArgs DEF Issued
  <2> QED BY <1>1, <1>2, <2>1, <2>2 DEF Uid
<1>6. ASSUME NEW p \in Poller
      PROVE  poll'[p].prior.high < uidnext' /\ \A x \in poll'[p].batch : x < uidnext'
  <2>1. poll'[p].prior.high \in Nat /\ poll'[p].batch \subseteq Nat
    BY <1>1 DEF Typed, Polls, Run, Mark, Uid
  <2>2. NoMark.high < uidnext
    BY DEF Typed, ServerTyped, NoMark
  <2>3. poll'[p].prior.high < uidnext
    BY <2>2, BatchGrows DEF Issued
  <2>4. \A x \in poll'[p].batch : x < uidnext
    BY BatchGrows DEF Issued
  <2> QED BY <1>1, <1>2, <2>1, <2>3, <2>4
<1>7. mark'.high < uidnext'
  <2>1. mark'.high \in Nat
    BY <1>1 DEF Typed, CacheTyped, Mark
  <2>2. NoMark.high < uidnext /\ mark.high < uidnext
    BY DEF Typed, ServerTyped, NoMark, Issued
  <2>3. ASSUME NEW p \in Poller, Advance(p)
        PROVE  mark'.high < uidnext
    <3>1. poll[p] \in Run
      BY DEF Typed, Polls
    <3>2. NewHigh(poll[p]) < uidnext
      BY <3>1, HighOf DEF Issued
    <3> QED BY <2>2, <2>3, <3>2 DEF Advance
  <2>4. mark'.high < uidnext
    BY <2>2, <2>3, MarkGrows
  <2> QED BY <1>1, <1>2, <2>1, <2>4
<1> QED BY <1>2, <1>4, <1>5, <1>6, <1>7 DEF Issued

\* A run in the terms of the numbering.
Numbered(r) ==
  /\ r.prior.valid \in {0, validity}
  /\ ~ r.rotated
  /\ r.pc \notin {"wipe", "refetch"}
  /\ r.pc \in Fetching => r.valid = validity

LEMMA NumberedPoll ==
  ASSUME Typed, mark.valid \in {0, validity}, NEW p \in Poller, Numbered(poll[p]), PollStep(p)
  PROVE  /\ Numbered(poll[p])' \/ validity' # validity
         /\ mark'.valid \in {0, validity}
<1>1. Polls /\ ServerTyped /\ CacheTyped /\ mark \in Mark /\ UNCHANGED validity
  BY DEF Typed, CacheTyped, PollStep, PollStart, PollFetch, PollFail, Wipe, Refetch, List,
     Snapshot, Reconcile, Upsert, Advance, FlagPass, server
<1>2. /\ poll[p].prior.valid \in {0, validity} /\ ~ poll[p].rotated
      /\ poll[p].pc \notin {"wipe", "refetch"}
      /\ poll[p].pc \in Fetching => poll[p].valid = validity
  BY DEF Numbered
<1>3. CASE PollStart(p)
  BY <1>1, <1>2, <1>3, StartRun DEF PollStart, cache, Fetching, Numbered
<1>4. CASE PollFetch(p)
  BY <1>1, <1>2, <1>4, FetchRun DEF PollFetch, cache, Numbered
<1>5. CASE PollFail(p) \/ FlagPass(p)
  <2>1. UNCHANGED mark
    BY <1>5 DEF PollFail, FlagPass, Logged, cache
  <2>2. poll'[p].pc = "idle" /\ ~ poll'[p].rotated /\ poll'[p].prior.valid = 0
    <3>1. Done(p)
      BY <1>5 DEF PollFail, FlagPass
    <3> QED BY <1>1, <3>1, DoneRun DEF NoMark
  <2> QED BY <1>1, <2>1, <2>2 DEF Numbered, Fetching
<1>6. CASE List(p)
  BY <1>1, <1>2, <1>6, ListRun DEF List, cache, SameBatch, Fetching, Numbered
<1>7. CASE Snapshot(p)
  BY <1>1, <1>2, <1>7, SnapshotRun DEF Snapshot, cache, SameBatch, Fetching, Numbered
<1>8. CASE Reconcile(p)
  BY <1>1, <1>2, <1>8, ReconcileRun DEF Reconcile, RemoveRows, SameBatch, Fetching, Numbered
<1>9. CASE Upsert(p)
  BY <1>1, <1>2, <1>9, UpsertRun DEF Upsert, UpsertRows, Logged, cache, SameBatch, Fetching,
     Numbered
<1>10. CASE Advance(p)
  <2>1. mark'.valid \in {0, validity}
    BY <1>2, <1>10 DEF Advance, At, Fetching
  <2>2. Numbered(poll[p])'
    BY <1>1, <1>2, <1>10, AdvanceRun DEF SameBatch, Fetching, Numbered
  <2> QED BY <2>1, <2>2
<1> QED BY <1>2, <1>3, <1>4, <1>5, <1>6, <1>7, <1>8, <1>9, <1>10 DEF PollStep, Wipe, Refetch,
        At

LEMMA NextNumbering ==
  ASSUME Typed, SameNumbering, [Next]_vars, validity' = validity
  PROVE  SameNumbering'
<1>1. mark.valid \in {0, validity} /\ \A p \in Poller : Numbered(poll[p])
  BY DEF SameNumbering, Numbered
<1>2. SUFFICES mark'.valid \in {0, validity} /\ \A p \in Poller : Numbered(poll[p])'
  BY DEF SameNumbering, Numbered
<1>3. CASE UNCHANGED <<poll, mark>>
  BY <1>1, <1>3 DEF Numbered
<1>4. ASSUME NEW p \in Poller, PollStep(p)
      PROVE  mark'.valid \in {0, validity} /\ \A q \in Poller : Numbered(poll[q])'
  <2>1. mark'.valid \in {0, validity} /\ Numbered(poll[p])'
    BY <1>1, <1>4, NumberedPoll
  <2>2. Only(p)
    BY <1>4, PollRuns DEF Typed
  <2>3. ASSUME NEW q \in Poller \ {p}
        PROVE  Numbered(poll[q])'
    BY <1>1, <2>2, <2>3 DEF Only, Numbered
  <2> QED BY <2>1, <2>3
<1>5. ASSUME NEW u \in User, OpStart(u) \/ OpStep(u)
      PROVE  mark'.valid \in {0, validity} /\ \A q \in Poller : Numbered(poll[q])'
  <2>1. mark' \in {mark, NoMark}
    BY <1>5, OpMark
  <2> QED BY <1>1, <1>5, <2>1, OpPolls DEF NoMark, Numbered
<1>6. CASE Crash
  BY <1>1, <1>6 DEF Crash, NoRun, NoMark, Fetching, Numbered
<1> QED BY <1>2, <1>3, <1>4, <1>5, <1>6 DEF Next, vars, cache, Environment, Arrive,
        RemoteExpunge, RemoteSeen, Rotate

LEMMA NextGone ==
  ASSUME Typed, Issued, Gone, [Next]_vars, validity' = validity
  PROVE  Gone'
<1>1. ServerTyped /\ CacheTyped /\ Ops /\ Histories /\ live \subseteq Nat /\ uidnext \in Nat
  BY DEF Typed, ServerTyped, Uid
<1>2. live' \subseteq live \cup {uidnext}
  BY LiveGrows DEF Arrive
<1>3. ASSUME NEW u \in User, op'[u].pc \in {"clean", "evict"}
      PROVE  op'[u].arg \notin live'
  <2>1. ASSUME UNCHANGED op[u]
        PROVE  op'[u].arg \notin live'
    <3>1. op[u].arg \notin live /\ op[u].arg < uidnext /\ op[u].arg \in Uid
      BY <1>3, <2>1 DEF Gone, Issued, OfUid, OpPC
    <3>2. op[u].arg # uidnext
      BY <1>1, <3>1 DEF Uid
    <3> QED BY <1>2, <2>1, <3>1, <3>2
  <2>2. ASSUME NEW v \in User, OpStart(v) \/ OpStep(v)
        PROVE  op'[u].arg \notin live'
    <3>1. OnlyOp(v)
      BY <1>1, <2>2, OpBegins, OpGoesOn DEF Begun
    <3>2. CASE v # u
      BY <2>1, <3>1, <3>2 DEF OnlyOp
    <3>3. CASE v = u /\ OpStart(v)
      <4>1. Begun(u)
        BY <1>1, <3>3, OpBegins
      <4>2. op'[u].arg \notin live
        BY <1>3, <4>1 DEF Begun
      <4>3. live' \subseteq live
        BY <3>3 DEF OpStart, SetRead, ReadAll, Delete, OpenMail, FetchFolders, ClearFolder,
           server
      <4> QED BY <4>2, <4>3
    <3>4. CASE v = u /\ OpStep(v)
      <4>1. Expunge(u) /\ op'[u].arg = op[u].arg /\ op'[u].pc = "clean"
        BY <1>1, <1>3, <3>4, OpGoesOn
      <4>2. Then(u, "clean") \/ Then(u, "restore")
        BY <4>1 DEF Expunge
      <4>3. ~ Then(u, "restore")
        BY <1>1, <4>1, ThenOp DEF Expunge, Doing, OfUid, OpPC
      <4>4. live' = live \ {op[u].arg}
        BY <4>1, <4>3 DEF Expunge
      <4> QED BY <4>1, <4>4
    <3> QED BY <2>2, <3>2, <3>3, <3>4
  <2>3. ASSUME NEW p \in Poller, PollStep(p)
        PROVE  op'[u].arg \notin live'
    BY <2>1, <2>3, KnownPoll
  <2>4. ~ Crash
    BY <1>3 DEF Crash, NoOp
  <2> QED BY <2>1, <2>2, <2>3, <2>4 DEF Next, vars, Environment, Arrive, RemoteExpunge,
          RemoteSeen, Rotate
<1> QED BY <1>3 DEF Gone

LEMMA NextList ==
  ASSUME Typed, Issued, ListTrue, Alone, [Next]_vars, validity' = validity
  PROVE  ListTrue'
<1>1. Polls /\ ServerTyped /\ CacheTyped
  BY DEF Typed
<1>2. ASSUME NEW p \in Poller, poll'[p].pc \in {"snapshot", "reconcile"}, poll'[p].listed # {}
      PROVE  Known' \cap live' \subseteq poll'[p].listed
  <2>1. \A q \in Poller : q = p
    BY DEF Alone
  <2>2. ASSUME Upsert(p)
        PROVE  FALSE
    BY <1>1, <1>2, <2>2, UpsertRun
  <2>3. Known' \subseteq Known
    BY <2>1, <2>2, KnownGrows
  <2>4. Known' \cap live' \subseteq Known \cap live
    <3>1. uidnext \notin Known
      BY <1>1 DEF Issued, Known, Doing, OfUid, OpPC, CacheTyped, ServerTyped, Uid
    <3>2. live' \subseteq live \cup {uidnext}
      BY LiveGrows DEF Arrive
    <3> QED BY <2>3, <3>1, <3>2
  <2>5. CASE UNCHANGED poll
    BY <1>2, <2>4, <2>5 DEF ListTrue
  <2>6. CASE PollStep(p)
    <3>1. ASSUME List(p)
          PROVE  poll'[p].listed = live /\ live' = live
      BY <1>1, <1>2, <3>1, ListRun DEF List, server
    <3>2. ASSUME Snapshot(p)
          PROVE  poll[p].pc = "snapshot" /\ poll'[p].listed = poll[p].listed
      BY <1>1, <3>2, SnapshotRun
    <3>3. ASSUME PollStart(p) \/ PollFetch(p) \/ PollFail(p) \/ Wipe(p) \/ Refetch(p)
                 \/ Reconcile(p) \/ Upsert(p) \/ Advance(p) \/ FlagPass(p)
          PROVE  FALSE
      <4>1. mark \in Mark
        BY <1>1 DEF CacheTyped
      <4>2. ~ Done(p)
        BY <1>1, <1>2, DoneRun
      <4> QED BY <1>1, <1>2, <3>3, <4>1, <4>2, StartRun, FetchRun, WipeRun, RefetchRun,
              ReconcileRun, UpsertRun, AdvanceRun DEF PollFail, FlagPass
    <3>4. CASE List(p)
      BY <2>4, <3>1, <3>4
    <3>5. CASE Snapshot(p)
      BY <1>2, <2>4, <3>2, <3>5 DEF ListTrue
    <3> QED BY <2>6, <3>3, <3>4, <3>5 DEF PollStep
  <2>7. ASSUME Crash
        PROVE  FALSE
    BY <1>2, <2>7 DEF Crash, NoRun
  <2> QED BY <2>1, <2>5, <2>6, <2>7, OpPolls DEF Next, vars, Environment, Arrive,
          RemoteExpunge, RemoteSeen, Rotate
<1> QED BY <1>2 DEF ListTrue

\* Nothing else numbers the folder anew.
LEMMA OnlyRotate ==
  ASSUME [Next]_vars, ~ Rotate
  PROVE  validity' = validity
BY DEF Next, vars, server, PollStep, PollStart, PollFetch, PollFail, Wipe, Refetch, List,
   Snapshot, Reconcile, Upsert, Advance, FlagPass, OpStart, SetRead, ReadAll, Delete,
   OpenMail, FetchFolders, ClearFolder, OpStep, Store, StoreAll, Expunge, Clean, Restore,
   Write, CountFolders, Empty, Environment, Arrive, RemoteExpunge, RemoteSeen, Crash

LEMMA InitBase == Init => Base
BY DEF Init, Base, Issued, SameNumbering, Gone, ListTrue, Known, Doing, NoRun, NoMark, NoOp,
   Fetching, OfUid

LEMMA NextBase ==
  ASSUME Typed, Base, Alone, [Next]_vars, validity' = validity
  PROVE  Base'
BY NextIssued, NextNumbering, NextGone, NextList DEF Base

\* A run of the reconciler drops no row of a message the server still has.
LEMMA GhostsOnly ==
  ASSUME Typed, Base, NEW p \in Poller, Reconcile(p)
  PROVE  (cached \ cached') \cap live = {}
<1> DEFINE ghosts == IF poll[p].listed = {} /\ ~ poll[p].rotated THEN {}
                     ELSE cached \ poll[p].listed
<1>1. \E kept \in SUBSET ghosts : RemoveRows(ghosts \ kept)
  BY DEF Reconcile
<1>2. cached \ cached' \subseteq ghosts
  <2> HIDE DEF ghosts
  <2> QED BY <1>1 DEF RemoveRows
<1>3. poll[p].pc = "reconcile" /\ ~ poll[p].rotated
  BY DEF Reconcile, At, Base, SameNumbering
<1>4. ghosts \cap live = {}
  BY <1>3 DEF Base, ListTrue, Known
<1> QED BY <1>2, <1>4

\* The reconciler drops ghosts only: a message the server has keeps its row, although the
\* list it is compared with was fetched before other clients, the user and new mail went
\* on.  Every row was on the server when the list was fetched, or is gone for good.  That
\* fails when polls overlap, and when the folder is renumbered.
THEOREM OnlyGhostsDropped ==
  ASSUME Alone, "rotate" \notin Hazards
  PROVE  Spec => DropsGhostsOnly
<1>1. [Next]_vars => validity' = validity
  BY OnlyRotate DEF Rotate, Hazard
<1>2. Typed /\ Base /\ [Next]_vars => (Typed /\ Base)'
  BY <1>1, NextTyped, NextBase
<1>3. Typed /\ Base /\ [Next]_vars =>
        [\A p \in Poller : Reconcile(p) => (cached \ cached') \cap live = {}]_vars
  BY GhostsOnly
<1> QED BY <1>2, <1>3, InitTyped, InitBase, PTL DEF Spec, DropsGhostsOnly

\* The hazards under which a row keeps its tombstone: the cache obeys, nobody empties or
\* renumbers the folder.
Orderly == Hazards \cap {"db_error", "rotate", "clear"} = {}

\* Who takes the tombstone of a message the server still has.
LEMMA TombstoneTaken ==
  ASSUME Typed, Base, NoneEmpties, Orderly, [Next]_vars,
         NEW x \in hidden, x \notin hidden', x \in live
  PROVE  Crash \/ \E v \in User : Restore(v) /\ op[v].arg = x
<1>1. ~ DbFails
  BY DEF DbFails, Hazard, Orderly
<1>2. ASSUME NEW p \in Poller, PollStep(p)
      PROVE  FALSE
  <2>1. CASE Reconcile(p)
    <3>1. x \in cached /\ x \in cached'
      BY <2>1, GhostsOnly DEF Typed, CacheTyped
    <3>2. \E S \in {cached \ cached'} : hidden' = hidden \ S
      BY <2>1 DEF Reconcile, RemoveRows, Typed, CacheTyped
    <3> QED BY <3>1, <3>2
  <2>2. ~ Wipe(p)
    BY DEF Wipe, At, Base, SameNumbering
  <2> QED BY <1>1, <1>2, <2>1, <2>2 DEF PollStep, PollStart, PollFetch, PollFail, Refetch, List,
          Snapshot, Upsert, Advance, FlagPass, Logged, UpsertRows, cache, rows
<1>3. ASSUME NEW u \in User, OpStart(u)
      PROVE  FALSE
  BY <1>1, <1>3 DEF OpStart, SetRead, ReadAll, Delete, OpenMail, FetchFolders, ClearFolder,
     Logged, cache, rows
<1>4. ASSUME NEW u \in User, OpStep(u)
      PROVE  Restore(u) /\ op[u].arg = x
  <2>1. ASSUME Clean(u)
        PROVE  FALSE
    <3>1. op[u].arg \notin live
      BY <2>1 DEF Clean, Doing, Base, Gone
    <3>2. hidden' = hidden \ {op[u].arg}
      BY <1>1, <2>1 DEF Clean, Logged, RemoveRows
    <3> QED BY <3>1, <3>2
  <2>2. ASSUME Restore(u)
        PROVE  op[u].arg = x
    BY <1>1, <2>2 DEF Restore, Logged
  <2>3. ~ Empty(u)
    BY DEF Empty, Doing, NoneEmpties
  <2> QED BY <1>1, <1>4, <2>1, <2>2, <2>3 DEF OpStep, Store, StoreAll, Expunge, Write,
          CountFolders, Logged, UpsertRows, cache, rows
<1> QED BY <1>2, <1>3, <1>4 DEF Next, vars, cache, rows, Environment, Arrive, RemoteExpunge,
        RemoteSeen, Rotate

\* Who comes to delete a message.
LEMMA DeletingGrows ==
  ASSUME Typed, Base, Orderly, [Next]_vars, NEW u \in User, Deleting(u)'
  PROVE  \/ Deleting(u) /\ op'[u].arg = op[u].arg
         \/ /\ op[u].pc = "idle"
            /\ op'[u].arg \in cached \ hidden /\ op'[u].arg \in hidden'
            /\ \A v \in User \ {u} : op'[v] = op[v]
<1>1. ServerTyped /\ CacheTyped /\ Ops /\ Histories
  BY DEF Typed
<1>2. ~ Rotate /\ ~ DbFails
  BY DEF Rotate, DbFails, Hazard, Orderly
<1>3. live' \subseteq live \cup {uidnext}
  BY <1>2, LiveGrows, OnlyRotate DEF Arrive
<1>4. ASSUME op[u].pc \in {"expunge", "restore"}, op'[u].arg = op[u].arg
      PROVE  Deleting(u) /\ op'[u].arg = op[u].arg
  <2>1. op[u].arg < uidnext /\ op[u].arg \in Uid /\ uidnext \in Nat
    BY <1>1, <1>4 DEF Base, Issued, OfUid, OpPC, ServerTyped
  <2>2. op[u].arg # uidnext
    BY <2>1 DEF Uid
  <2> QED BY <1>3, <1>4, <2>2 DEF Deleting
<1>5. ASSUME UNCHANGED op[u]
      PROVE  Deleting(u) /\ op'[u].arg = op[u].arg
  BY <1>4, <1>5 DEF Deleting
<1>6. ASSUME NEW v \in User, OpStart(v) \/ OpStep(v)
      PROVE  \/ Deleting(u) /\ op'[u].arg = op[u].arg
             \/ /\ op[u].pc = "idle"
                /\ op'[u].arg \in cached \ hidden /\ op'[u].arg \in hidden'
                /\ \A w \in User \ {u} : op'[w] = op[w]
  <2>1. OnlyOp(v)
    BY <1>1, <1>6, OpBegins, OpGoesOn DEF Begun
  <2>2. CASE v # u
    BY <1>5, <2>1, <2>2 DEF OnlyOp
  <2>3. CASE v = u /\ OpStart(u)
    <3>1. Begun(u)
      BY <1>1, <2>3, OpBegins
    <3>2. op'[u].pc = "expunge"
      BY <3>1 DEF Begun, Deleting
    <3>3. PICK d \in Uid : Delete(u, d)
      <4>1. \A pc, arg, val : Begin(u, pc, arg, val) => op'[u].pc = pc
        BY <1>1 DEF Begin, Ops
      <4> QED BY <2>3, <3>1, <3>2, <4>1 DEF OpStart, SetRead, ReadAll, OpenMail, FetchFolders,
              ClearFolder, Begun
    <3>4. op'[u].arg = d
      BY <1>1, <3>3 DEF Delete, Begin, Ops
    <3> QED BY <1>2, <2>1, <2>3, <3>1, <3>3, <3>4 DEF Delete, Visible, Logged, OnlyOp, Begun
  <2>4. CASE v = u /\ OpStep(u)
    <3>1. op[u].pc = "expunge" /\ op'[u].arg = op[u].arg
      BY <1>1, <2>4, OpGoesOn DEF Deleting
    <3> QED BY <1>4, <3>1
  <2> QED BY <1>6, <2>2, <2>3, <2>4
<1>7. ~ Crash
  BY DEF Crash, NoOp, Deleting
<1>8. ASSUME NEW p \in Poller, PollStep(p)
      PROVE  UNCHANGED op
  BY <1>8, KnownPoll
<1> QED BY <1>5, <1>6, <1>7, <1>8 DEF Next, vars, Environment, Arrive, RemoteExpunge,
        RemoteSeen, Rotate

\* Nobody is about to empty the rows unless the folder was cleared.
LEMMA NextEmpties ==
  ASSUME Typed, NoneEmpties, [Next]_vars, \A v \in User : ~ ClearFolder(v)
  PROVE  NoneEmpties'
<1>1. ServerTyped /\ CacheTyped /\ Ops /\ Histories
  BY DEF Typed
<1>2. ASSUME NEW u \in User
      PROVE  op'[u].pc # "empty"
  <2>1. op[u].pc # "empty"
    BY DEF NoneEmpties
  <2>2. ASSUME NEW v \in User, OpStart(v)
        PROVE  op'[u].pc # "empty"
    <3>1. \A pc, arg, val :
            pc # "empty" /\ Begin(v, pc, arg, val) => op'[u].pc # "empty"
      BY <1>1, <2>1 DEF Begin, Ops
    <3> QED BY <2>2, <3>1 DEF OpStart, SetRead, ReadAll, Delete, OpenMail, FetchFolders
  <2>3. ASSUME NEW v \in User, OpStep(v)
        PROVE  op'[u].pc # "empty"
    BY <1>1, <2>1, <2>3, OpGoesOn DEF OnlyOp
  <2>4. ASSUME Crash
        PROVE  op'[u].pc # "empty"
    BY <2>4 DEF Crash, NoOp
  <2> QED BY <2>1, <2>2, <2>3, <2>4, KnownPoll DEF Next, vars, Environment, Arrive,
          RemoteExpunge, RemoteSeen, Rotate
<1> QED BY <1>2 DEF NoneEmpties

LEMMA NextHide ==
  ASSUME Typed, HideInv, Alone, Orderly, [Next]_vars
  PROVE  HideInv'
<1>1. ServerTyped /\ CacheTyped /\ Ops /\ Histories /\ Base
  BY DEF Typed, HideInv
<1>2. Base'
  BY <1>1, OnlyRotate, NextBase DEF Rotate, Hazard, Orderly
<1>3. NoneEmpties'
  BY <1>1, NextEmpties DEF HideInv, ClearFolder, Hazard, Orderly, Typed
<1>4. ASSUME NEW u \in User, Deleting(u)'
      PROVE  op'[u].arg \in hidden'
  <2>1. CASE Deleting(u) /\ op'[u].arg = op[u].arg
    <3>1. op[u].arg \in hidden /\ op[u].arg \in live
      BY <2>1 DEF HideInv, Deleting
    <3>2. ASSUME Crash
          PROVE  FALSE
      BY <1>4, <3>2 DEF Crash, NoOp, Deleting
    <3>3. ASSUME NEW v \in User, Restore(v), op[v].arg = op[u].arg
          PROVE  FALSE
      <4>1. Deleting(v)
        BY <3>1, <3>3 DEF Restore, Doing, Deleting
      <4>2. u = v
        BY <2>1, <3>3, <4>1 DEF HideInv
      <4>3. op'[u].pc = "idle"
        BY <1>1, <3>3, <4>2, EndOp DEF Restore
      <4> QED BY <1>4, <4>3 DEF Deleting
    <3> QED BY <1>1, <2>1, <3>1, <3>2, <3>3, TombstoneTaken DEF HideInv
  <2> QED BY <1>1, <1>4, <2>1, DeletingGrows
<1>5. ASSUME NEW u \in User, NEW v \in User, Deleting(u)', Deleting(v)',
             op'[u].arg = op'[v].arg, u # v
      PROVE  FALSE
  <2>1. ASSUME NEW a \in User, NEW b \in User, a # b, Deleting(a)', Deleting(b)',
               op'[a].arg = op'[b].arg, op'[a].arg \in cached \ hidden,
               \A w \in User \ {a} : op'[w] = op[w]
        PROVE  FALSE
    <3>1. Deleting(b) /\ op'[b].arg = op[b].arg
      BY <1>1, <2>1, DeletingGrows DEF Deleting
    <3> QED BY <2>1, <3>1 DEF HideInv
  <2>2. CASE Deleting(u) /\ op'[u].arg = op[u].arg /\ Deleting(v) /\ op'[v].arg = op[v].arg
    BY <1>5, <2>2 DEF HideInv
  <2> QED BY <1>1, <1>5, <2>1, <2>2, DeletingGrows
<1> QED BY <1>2, <1>3, <1>4, <1>5 DEF HideInv

\* A message the user deleted is not shown again while the server still has it and the
\* delete is under way: no poll brings its row back, no other operation, of any number of
\* them, takes its tombstone.
THEOREM DeletedStaysHidden ==
  ASSUME Alone, Orderly
  PROVE  Spec => []HiddenUntilExpunged
<1>1. Init => HideInv
  BY InitBase DEF Init, HideInv, Deleting, NoOp, NoneEmpties
<1>2. Typed /\ HideInv /\ [Next]_vars => (Typed /\ HideInv)'
  BY NextTyped, NextHide
<1>3. HideInv => HiddenUntilExpunged
  BY DEF HideInv, HiddenUntilExpunged, Deleting, Doing, Visible
<1> QED BY <1>1, <1>2, <1>3, InitTyped, PTL DEF Spec

-----------------------------------------------------------------------------
(* What a fetch brings. *)

\* The newest messages of a set include the newest one, and leave out none above
\* one they include.
LEMMA NewestCovers ==
  ASSUME NEW S \in SUBSET Uid, NEW u \in S
  PROVE  /\ \E b \in Newest(S) : u <= b
         /\ u \notin Newest(S) => \A b \in Newest(S) : u < b
<1> DEFINE Above(v) == {w \in S : w > v}
<1>1. \A v \in S : Above(v) \in SUBSET Uid
  OBVIOUS
<1>2. \E b \in Newest(S) : u <= b
  <2>1. S \in SUBSET Nat /\ S # {} /\ \A s \in S : s <= MaxUid
    BY DEF Uid
  <2>2. PICK m \in S : \A s \in S : s <= m
    BY <2>1, Greatest
  <2>3. ASSUME NEW w \in S, w > m
        PROVE  FALSE
    BY <2>1, <2>2, <2>3
  <2>4. Cardinality(Above(m)) = 0
    <3>1. Above(m) = {}
      BY <2>3
    <3> QED BY <3>1, FS_EmptySet
  <2>5. m \in Newest(S)
    <3> HIDE DEF Above
    <3>1. Cardinality({w \in S : w > m}) = 0
      BY <2>4 DEF Above
    <3> QED BY <3>1 DEF Newest
  <2> QED BY <2>2, <2>5
<1>3. ASSUME u \notin Newest(S), NEW b \in Newest(S)
      PROVE  u < b
  <2>1. b \in S /\ Cardinality(Above(b)) < Limit /\ ~ (Cardinality(Above(u)) < Limit)
    BY <1>3 DEF Newest
  <2>2. CASE b <= u
    <3>1. Above(u) \subseteq Above(b)
      <4>1. ASSUME NEW w \in S, w > u
            PROVE  w > b
        BY <2>1, <2>2, <4>1 DEF Uid
      <4> QED BY <4>1
    <3>2. IsFiniteSet(Above(b)) /\ Cardinality(Above(b)) \in Nat /\ Cardinality(Above(u)) \in Nat
      BY <1>1, <2>1, UidsCount
    <3>3. Cardinality(Above(u)) <= Cardinality(Above(b))
      <4> HIDE DEF Above
      <4> QED BY <3>1, <3>2, FS_Subset
    <3>4. FALSE
      <4> HIDE DEF Above
      <4> QED BY <2>1, <3>2, <3>3
    <3> QED BY <3>4
  <2> QED BY <2>1, <2>2 DEF Uid
<1> QED BY <1>2, <1>3

\* The batch fetched above a bookmark, or without one.
LEMMA FetchedCovers ==
  ASSUME ServerTyped, NEW high \in 0..MaxUid, NEW u \in live
  PROVE  /\ Fetched(high) \subseteq live
         /\ u <= high \/ \E b \in Fetched(high) : u <= b
         /\ \A b \in Fetched(high) :
              /\ u <= high => u <= b
              /\ high < u /\ u <= b => \/ u \in Fetched(high)
                                       \/ high = 0 /\ \A c \in Fetched(high) : u < c
<1>1. live \in SUBSET Uid
  BY DEF ServerTyped
<1>2. CASE high = 0
  <2>1. Fetched(high) = Newest(live)
    BY <1>2 DEF Fetched
  <2>2. /\ \E b \in Newest(live) : u <= b
        /\ u \notin Newest(live) => \A b \in Newest(live) : u < b
    BY <1>1, NewestCovers
  <2>3. Newest(live) \subseteq live /\ ~ (u <= 0)
    BY <1>1, NewestWithin DEF Uid
  <2> QED BY <1>2, <2>1, <2>2, <2>3
<1>3. CASE high # 0
  <2>1. Fetched(high) = {v \in live : v > high \/ \A w \in live : w <= v}
    BY <1>3 DEF Fetched
  <2>2. ASSUME NEW b \in live, \A w \in live : w <= b
        PROVE  u <= b
    BY <2>2
  <2>3. ASSUME NEW b \in live, b > high, u <= high
        PROVE  u <= b
    BY <1>1, <2>3 DEF Uid
  <2>4. u \in Fetched(high) \/ u <= high
    BY <1>1, <2>1 DEF Uid
  <2>5. ~ (high < u /\ u <= high) /\ u <= u
    BY <1>1 DEF Uid
  <2>6. ASSUME NEW b \in Fetched(high)
        PROVE  /\ u <= high => u <= b
               /\ high < u /\ u <= b => u \in Fetched(high)
    BY <2>1, <2>2, <2>3, <2>4, <2>5, <2>6
  <2> QED BY <2>1, <2>4, <2>5, <2>6
<1> QED BY <1>2, <1>3

-----------------------------------------------------------------------------
(* Announcing new mail. *)

\* The cache obeys and nobody renumbers the folder.
Stable == Hazards \cap {"db_error", "rotate"} = {}

\* What has been heard stays heard: mail that arrives has not been announced.
LEMMA HeardStays ==
  ASSUME Typed, Announced, [Next]_vars, validity' = validity, notified' = notified,
         NEW high, Heard(high)
  PROVE  \A u \in live' : notified'[u] > 0 => u <= high
<1>1. live' \subseteq live \cup {uidnext}
  BY LiveGrows DEF Arrive
<1>2. uidnext \in live' => notified[uidnext] = 0
  <2>1. Typed'
    BY NextTyped
  <2>2. uidnext \in live' => uidnext \in Uid
    BY <2>1 DEF Typed, ServerTyped
  <2> QED BY <2>2 DEF Announced, Typed, Histories, Uid
<1> QED BY <1>1, <1>2 DEF Heard

\* A step of the poll that announces nothing.
LEMMA AnnouncedPoll ==
  ASSUME Typed, Base, Announced, Stable, Alone, NEW p \in Poller, PollStep(p), ~ FlagPass(p)
  PROVE  Announced' /\ notified' = notified
<1>1. /\ Polls /\ ServerTyped /\ CacheTyped /\ mark \in Mark /\ poll[p] \in Run
      /\ UNCHANGED <<live, uidnext, notified>>
  BY DEF Typed, CacheTyped, Polls, PollStep, PollStart, PollFetch, PollFail, Wipe, Refetch, List,
     Snapshot, Reconcile, Upsert, Advance, server, history
<1>2. \A q \in Poller : q = p
  BY DEF Alone
<1>3. ~ DbFails /\ "db_error" \notin Hazards
  BY DEF DbFails, Hazard, Stable
<1>4. /\ poll[p].pc \notin {"idle", "flags"} /\ poll[p].prior.high # 0
           => Heard(poll[p].prior.high)
      /\ poll[p].pc \in Fetching => Heard(NewHigh(poll[p]))
      /\ poll[p].pc \in Fetching \cup {"flags"} => \A u \in New(poll[p]) : notified[u] = 0
      /\ mark.high # 0 => Heard(mark.high)
      /\ ~ poll[p].rotated /\ poll[p].pc \notin {"wipe", "refetch"}
  BY DEF Announced, RunHeard, Base, SameNumbering
<1>5. \A h : Heard(h) => \A u \in live' : notified'[u] > 0 => u <= h
  BY <1>1 DEF Heard
<1>6. SUFFICES /\ mark'.high # 0 => Heard(mark.high)'
               /\ RunHeard(p)'
  BY <1>1, <1>2 DEF Announced
<1>7. CASE PollStart(p)
  <2>1. mark' = mark /\ poll'[p].pc = "fetch" /\ poll'[p].prior = mark
    BY <1>1, <1>7, StartRun DEF PollStart, cache
  <2> QED BY <1>4, <1>5, <2>1 DEF Heard, RunHeard, Fetching
<1>8. CASE PollFetch(p)
  <2> DEFINE h == poll[p].prior.high
  <2>1. /\ mark' = mark /\ poll[p].pc = "fetch" /\ poll'[p] \in Run
        /\ poll'[p].prior = poll[p].prior /\ poll'[p].batch = Fetched(h)
    BY <1>1, <1>8, FetchRun DEF PollFetch, cache, Polls
  <2>2. h \in 0..MaxUid /\ (h # 0 => Heard(h))
    BY <1>1, <1>4, <2>1 DEF Run, Mark
  <2>3. ASSUME NEW u \in live
        PROVE  u <= NewHigh(poll'[p])
    <3>1. u <= h \/ \E b \in Fetched(h) : u <= b
      BY <1>1, <2>2, FetchedCovers
    <3>2. /\ NewHigh(poll'[p]) \in 0..MaxUid /\ h <= NewHigh(poll'[p])
          /\ \A b \in Fetched(h) : b <= NewHigh(poll'[p])
      BY <2>1, HighOf
    <3>3. u \in Nat /\ Fetched(h) \subseteq Nat
      BY <1>1, <2>1, <2>3 DEF ServerTyped, Uid, Run
    <3> QED BY <2>2, <3>1, <3>2, <3>3
  <2>4. ASSUME NEW u \in New(poll'[p])
        PROVE  notified[u] = 0
    <3>1. h # 0 /\ u \in Fetched(h) /\ u > h
      BY <2>1, <2>4 DEF New
    <3>2. u \in live /\ u \in Uid
      BY <1>1, <2>2, <3>1, FetchedCovers DEF Fetched, ServerTyped
    <3>3. ~ (notified[u] > 0)
      BY <2>2, <3>1, <3>2 DEF Heard, Uid
    <3> QED BY <3>2, <3>3 DEF Typed, Histories
  <2>5. \A u \in live' : u <= NewHigh(poll'[p])
    BY <1>1, <2>3
  <2>6. poll'[p].prior.high # 0 => \A u \in live' : notified'[u] > 0 => u <= poll'[p].prior.high
    BY <1>1, <2>1, <2>2 DEF Heard
  <2>7. mark'.high # 0 => \A u \in live' : notified'[u] > 0 => u <= mark'.high
    BY <1>1, <1>4, <2>1 DEF Heard
  <2>8. poll'[p].pc \in {"wipe", "list"}
    BY <1>1, <1>8, FetchRun
  <2>9. RunHeard(p)'
    BY <1>1, <2>4, <2>5, <2>6, <2>8 DEF Heard, RunHeard
  <2> QED BY <2>7, <2>9 DEF Heard
<1>9. CASE PollFail(p)
  <2>1. mark' = mark /\ poll'[p].pc = "idle"
    BY <1>1, <1>9, DoneRun DEF PollFail, cache
  <2> QED BY <1>4, <1>5, <2>1 DEF Heard, RunHeard, Fetching
<1>10. CASE List(p) \/ Snapshot(p) \/ Reconcile(p) \/ Upsert(p)
  <2>1. /\ mark' = mark /\ SameBatch(p)
        /\ poll[p].pc \in Fetching /\ poll'[p].pc \in Fetching
    <3>1. mark' = mark
      BY <1>10 DEF List, Snapshot, Reconcile, Upsert, RemoveRows, UpsertRows, Logged, cache
    <3> QED BY <1>1, <1>10, <3>1, ListRun, SnapshotRun, ReconcileRun, UpsertRun DEF Fetching
  <2>2. New(poll'[p]) = New(poll[p]) /\ NewHigh(poll'[p]) = NewHigh(poll[p])
    BY <2>1 DEF SameBatch, New, NewHigh
  <2>3. /\ mark.high # 0 => Heard(mark.high)
        /\ poll[p].prior.high # 0 => Heard(poll[p].prior.high)
        /\ Heard(NewHigh(poll[p]))
        /\ \A u \in New(poll[p]) : notified[u] = 0
    BY <1>4, <2>1 DEF Fetching
  <2>4. poll'[p].prior = poll[p].prior /\ poll'[p].pc \notin {"idle", "flags"}
    BY <2>1 DEF SameBatch, Fetching
  <2> QED BY <1>1, <2>1, <2>2, <2>3, <2>4 DEF Heard, RunHeard
<1>11. CASE Advance(p)
  <2>1. /\ SameBatch(p) /\ poll[p].pc = "advance" /\ poll'[p].pc = "flags"
        /\ mark'.high = NewHigh(poll[p])
    BY <1>1, <1>3, <1>11, AdvanceRun DEF Advance, Hazard
  <2>2. New(poll'[p]) = New(poll[p])
    BY <2>1 DEF SameBatch, New
  <2>3. Heard(NewHigh(poll[p])) /\ \A u \in New(poll[p]) : notified[u] = 0
    BY <1>4, <2>1 DEF Fetching
  <2>4. \A u \in New(poll[p]) : u <= mark'.high
    BY <1>1, <2>1, HighOf DEF New
  <2> QED BY <1>1, <2>1, <2>2, <2>3, <2>4 DEF Heard, RunHeard, Fetching
<1> QED BY <1>4, <1>7, <1>8, <1>9, <1>10, <1>11 DEF PollStep, Wipe, Refetch, At

\* The step that announces what is new to the poll.
LEMMA AnnouncedFlags ==
  ASSUME Typed, Base, Announced, NotifiedOnce, Alone, NEW p \in Poller, FlagPass(p)
  PROVE  Announced' /\ NotifiedOnce'
<1>1. /\ Polls /\ poll[p] \in Run /\ notified \in [Uid -> 0..2]
      /\ UNCHANGED <<live, uidnext, mark>>
  BY DEF Typed, Polls, Histories, FlagPass, server, Logged, cache
<1>2. \A q \in Poller : q = p
  BY DEF Alone
<1>3. poll[p].pc = "flags" /\ poll'[p].pc = "idle"
  BY <1>1, DoneRun DEF FlagPass, At
<1>4. /\ \A u \in New(poll[p]) : notified[u] = 0
      /\ mark.high # 0 => \A u \in New(poll[p]) : u <= mark.high
      /\ mark.high # 0 => Heard(mark.high)
  BY <1>3 DEF Announced, RunHeard
<1>5. \A u \in New(poll[p]) : u < uidnext
  BY DEF New, Base, Issued
<1>6. ASSUME NEW u \in Uid
      PROVE  notified'[u] = notified[u] \/ (u \in New(poll[p]) /\ notified'[u] = notified[u] + 1)
  BY <1>1 DEF FlagPass
<1>7. NotifiedOnce'
  BY <1>1, <1>4, <1>6 DEF NotifiedOnce
<1>8. \A u \in Uid : notified'[u] > 0 => u < uidnext'
  BY <1>1, <1>5, <1>6 DEF Announced
<1>9. mark'.high # 0 => Heard(mark.high)'
  BY <1>1, <1>4, <1>6 DEF Heard, Typed, ServerTyped
<1> QED BY <1>2, <1>3, <1>7, <1>8, <1>9 DEF Announced, RunHeard, Fetching

\* Every other step announces nothing and leaves the polls alone.
LEMMA AnnouncedElse ==
  ASSUME Typed, Announced, [Next]_vars, validity' = validity, UNCHANGED <<poll, notified>>,
         mark' \in {mark, NoMark}
  PROVE  Announced'
<1>1. uidnext <= uidnext' /\ uidnext \in Nat /\ uidnext' \in Nat
  BY NextTyped, LiveGrows DEF Typed, ServerTyped, Arrive
<1>2. \A u \in Uid : notified'[u] > 0 => u < uidnext'
  BY <1>1 DEF Announced, Uid
<1>3. mark'.high # 0 => Heard(mark.high)'
  BY HeardStays DEF Announced, NoMark, Heard
<1>4. ASSUME NEW p \in Poller
      PROVE  RunHeard(p)'
  <2>1. RunHeard(p)
    BY DEF Announced
  <2>2. NewHigh(poll'[p]) = NewHigh(poll[p]) /\ New(poll'[p]) = New(poll[p])
    OBVIOUS
  <2>3. Heard(NewHigh(poll[p])) => \A u \in live' : notified'[u] > 0 => u <= NewHigh(poll[p])
    BY HeardStays
  <2>4. Heard(poll[p].prior.high)
          => \A u \in live' : notified'[u] > 0 => u <= poll[p].prior.high
    BY HeardStays
  <2>5. mark'.high # 0 => mark' = mark
    BY DEF NoMark
  <2> QED BY <2>1, <2>2, <2>3, <2>4, <2>5 DEF RunHeard, Heard
<1> QED BY <1>2, <1>3, <1>4 DEF Announced

LEMMA NextOnce ==
  ASSUME Typed, OnceInv, Stable, Alone, [Next]_vars
  PROVE  OnceInv'
<1>1. Base /\ Announced /\ NotifiedOnce
  BY DEF OnceInv
<1>2. ~ Rotate
  BY DEF Rotate, Hazard, Stable
<1>3. validity' = validity /\ Base'
  BY <1>1, <1>2, OnlyRotate, NextBase
<1>4. ASSUME UNCHANGED <<poll, notified>>, mark' \in {mark, NoMark}
      PROVE  Announced' /\ NotifiedOnce'
  BY <1>1, <1>3, <1>4, AnnouncedElse DEF NotifiedOnce
<1>5. ASSUME NEW p \in Poller, PollStep(p)
      PROVE  Announced' /\ NotifiedOnce'
  BY <1>1, <1>5, AnnouncedPoll, AnnouncedFlags DEF NotifiedOnce
<1>6. ASSUME Crash
      PROVE  Announced' /\ NotifiedOnce'
  <2>1. UNCHANGED <<live, uidnext, notified, mark>>
    BY <1>6 DEF Crash, server
  <2>2. \A p \in Poller : poll'[p].pc = "idle"
    BY <1>6 DEF Crash, NoRun
  <2>3. \A p \in Poller : RunHeard(p)'
    BY <2>2 DEF RunHeard, Fetching
  <2>4. mark'.high # 0 => Heard(mark.high)'
    BY <1>1, <2>1 DEF Announced, Heard
  <2>5. \A u \in Uid : notified'[u] > 0 => u < uidnext'
    BY <1>1, <2>1 DEF Announced
  <2> QED BY <1>1, <2>1, <2>3, <2>4, <2>5 DEF Announced, NotifiedOnce
<1>7. ASSUME NEW u \in User, OpStart(u) \/ OpStep(u)
      PROVE  UNCHANGED <<poll, notified>> /\ mark' \in {mark, NoMark}
  <2>1. UNCHANGED notified
    BY <1>7 DEF OpStart, SetRead, ReadAll, Delete, OpenMail, FetchFolders, ClearFolder, OpStep,
       Store, StoreAll, Expunge, Clean, Restore, Write, CountFolders, Empty, history
  <2> QED BY <1>7, <2>1, OpPolls, OpMark
<1>8. Announced' /\ NotifiedOnce'
  <2>1. CASE Arrive \/ (\E uid \in Uid : RemoteExpunge(uid) \/ RemoteSeen(uid)) \/ UNCHANGED vars
    <3>1. UNCHANGED <<poll, notified, mark>>
      BY <2>1 DEF vars, cache, history, Arrive, RemoteExpunge, RemoteSeen
    <3> QED BY <1>4, <3>1
  <2>2. CASE \E u \in User : OpStart(u) \/ OpStep(u)
    BY <1>4, <1>7, <2>2
  <2> QED BY <1>2, <1>5, <1>6, <2>1, <2>2 DEF Next, Environment
<1> QED BY <1>3, <1>8 DEF OnceInv

\* No message is announced as new twice: the bookmark a poll writes is not below anything
\* it or an earlier poll announced, so the next poll finds only newer mail new, also where
\* the server answers `hi+1:*` with the newest message it has (client.rs, fetch_envelopes)
\* and where the folder was cleared in between.
THEOREM AnnouncedOnce ==
  ASSUME Alone, Stable
  PROVE  Spec => []NotifiedOnce
<1>1. Init => OnceInv
  BY InitBase DEF Init, OnceInv, Announced, RunHeard, Heard, NotifiedOnce, NoRun, NoMark,
     Fetching
<1>2. Typed /\ OnceInv /\ [Next]_vars => (Typed /\ OnceInv)'
  BY NextTyped, NextOnce
<1>3. OnceInv => NotifiedOnce
  BY DEF OnceInv
<1> QED BY <1>1, <1>2, <1>3, InitTyped, PTL DEF Spec

-----------------------------------------------------------------------------
(* No gap, while the folder is not disturbed. *)

\* What a step does that leaves the folder calm: it renumbers and clears nothing, and a
\* bookmark that is lost is not the first one.
LEMMA CalmStep ==
  ASSUME Typed, Base, NoneEmpties, [Next]_vars, Calm, Calm'
  PROVE  /\ validity' = validity
         /\ \A v \in User : ~ ClearFolder(v) /\ ~ Empty(v)
         /\ \A p \in Poller : ~ Wipe(p)
         /\ Crash => \A p \in Poller : ~ Unmarked(p)
<1>1. ~ Rotate
  BY DEF Rotate, Calm, upset
<1>2. validity' = validity
  BY <1>1, OnlyRotate
<1>3. \A v \in User : ~ ClearFolder(v) /\ ~ Empty(v)
  BY DEF ClearFolder, Empty, Calm, upset, Doing, NoneEmpties
<1>4. \A p \in Poller : ~ Wipe(p)
  BY DEF Wipe, At, Base, SameNumbering
<1>5. Crash => \A p \in Poller : ~ Unmarked(p)
  BY DEF Crash, Calm, upset, torn
<1> QED BY <1>2, <1>3, <1>4, <1>5

\* The bookmark changes at the end of a poll only ...
LEMMA CalmMark ==
  ASSUME Typed, Base, NoneEmpties, [Next]_vars, Calm, Calm'
  PROVE  mark' = mark \/ \E p \in Poller : Advance(p)
<1>1. /\ \A v \in User : ~ ClearFolder(v) /\ ~ Empty(v)
      /\ \A p \in Poller : ~ Wipe(p)
  BY CalmStep
<1>2. ASSUME NEW p \in Poller, PollStep(p), ~ Advance(p)
      PROVE  mark' = mark
  BY <1>1, <1>2 DEF PollStep, PollStart, PollFetch, PollFail, Refetch, List, Snapshot,
     Reconcile, Upsert, FlagPass, Logged, RemoveRows, UpsertRows, cache
<1>3. ASSUME NEW u \in User, OpStart(u) \/ OpStep(u)
      PROVE  mark' = mark
  BY <1>1, <1>3 DEF OpStart, SetRead, ReadAll, Delete, OpenMail, FetchFolders, OpStep, Store,
     StoreAll, Expunge, Clean, Restore, Write, CountFolders, Logged, RemoveRows, UpsertRows,
     cache
<1> QED BY <1>2, <1>3 DEF Next, vars, cache, Environment, Arrive, RemoteExpunge, RemoteSeen,
        Rotate, Crash

\* ... and no live message loses its row.
LEMMA CalmRows ==
  ASSUME Typed, Base, NoneEmpties, [Next]_vars, Calm, Calm'
  PROVE  (cached \ cached') \cap live = {}
<1>1. /\ \A v \in User : ~ ClearFolder(v) /\ ~ Empty(v)
      /\ \A p \in Poller : ~ Wipe(p)
  BY CalmStep
<1>2. ASSUME NEW p \in Poller, PollStep(p), ~ Reconcile(p)
      PROVE  cached \subseteq cached'
  BY <1>1, <1>2 DEF PollStep, PollStart, PollFetch, PollFail, Refetch, List, Snapshot,
     Upsert, Advance, FlagPass, Logged, UpsertRows, cache, rows
<1>3. ASSUME NEW p \in Poller, Reconcile(p)
      PROVE  (cached \ cached') \cap live = {}
  BY <1>3, GhostsOnly
<1>4. ASSUME NEW u \in User, Clean(u)
      PROVE  (cached \ cached') \cap live = {}
  <2>1. op[u].arg \notin live
    BY <1>4 DEF Clean, Doing, Base, Gone
  <2>2. cached \ cached' \subseteq {op[u].arg}
    BY <1>4 DEF Clean, Logged, RemoveRows, cache, rows
  <2> QED BY <2>1, <2>2
<1>5. ASSUME NEW u \in User, OpStart(u)
      PROVE  cached \subseteq cached'
  BY <1>1, <1>5 DEF OpStart, SetRead, ReadAll, Delete, OpenMail, FetchFolders, Logged, cache,
     rows
<1>6. ASSUME NEW u \in User, OpStep(u), ~ Clean(u)
      PROVE  cached \subseteq cached'
  BY <1>1, <1>6 DEF OpStep, Store, StoreAll, Expunge, Restore, Write, CountFolders, Logged,
     UpsertRows, cache, rows
<1> QED BY <1>2, <1>3, <1>4, <1>5, <1>6 DEF Next, vars, cache, rows, Environment, Arrive,
        RemoteExpunge, RemoteSeen, Rotate, Crash

LEMMA NextKept ==
  ASSUME Typed, Whole, Alone, [Next]_vars, Calm, Calm'
  PROVE  MarkKept'
<1>1. Base /\ NoneEmpties /\ Polls /\ mark \in Mark /\ ServerTyped /\ CacheTyped
  BY DEF Whole, Typed, CacheTyped
<1>2. ASSUME NEW p \in Poller, poll'[p].pc \notin {"idle", "flags"}
      PROVE  mark' = poll'[p].prior
  <2>1. \A q \in Poller : q = p
    BY DEF Alone
  <2>2. ~ Advance(p)
    BY <1>1, <1>2, AdvanceRun
  <2>3. mark' = mark
    BY <1>1, <2>1, <2>2, CalmMark
  <2>4. CASE UNCHANGED poll
    BY <1>2, <2>3, <2>4 DEF Whole, MarkKept
  <2>5. CASE PollStep(p)
    <3>1. CASE PollStart(p)
      BY <1>1, <2>3, <3>1, StartRun
    <3>2. CASE poll'[p].prior = poll[p].prior /\ poll[p].pc \notin {"idle", "flags"}
      BY <2>3, <3>2 DEF Whole, MarkKept
    <3>3. ~ Done(p)
      BY <1>1, <1>2, DoneRun
    <3> QED BY <1>1, <2>2, <2>5, <3>1, <3>2, <3>3, FetchRun, WipeRun, RefetchRun, ListRun,
            SnapshotRun, ReconcileRun, UpsertRun DEF PollStep, PollFail, FlagPass, SameBatch
  <2>6. ~ Crash
    BY <1>2 DEF Crash, NoRun
  <2> QED BY <2>1, <2>4, <2>5, <2>6, OpPolls DEF Next, vars, Environment, Arrive,
          RemoteExpunge, RemoteSeen, Rotate
<1> QED BY <1>2 DEF MarkKept

\* A poll with a batch in hand has just fetched it or had it before.
LEMMA BatchStep ==
  ASSUME Typed, Base, Alone, [Next]_vars, NEW p \in Poller, poll'[p].pc \in Fetching
  PROVE  \/ PollFetch(p) /\ UNCHANGED server
         \/ /\ poll[p].pc \in Fetching
            /\ poll'[p].prior = poll[p].prior /\ poll'[p].batch = poll[p].batch
            /\ poll'[p].pc = "advance" => poll[p].pc = "advance" \/ Upsert(p)
<1>1. Polls /\ ServerTyped /\ CacheTyped /\ mark \in Mark
  BY DEF Typed, CacheTyped
<1>2. \A q \in Poller : q = p
  BY DEF Alone
<1>3. ASSUME UNCHANGED poll
      PROVE  /\ poll[p].pc \in Fetching
             /\ poll'[p].prior = poll[p].prior /\ poll'[p].batch = poll[p].batch
             /\ poll'[p].pc = "advance" => poll[p].pc = "advance"
  BY <1>3
<1>4. ASSUME PollStep(p), ~ PollFetch(p)
      PROVE  /\ poll[p].pc \in Fetching
             /\ poll'[p].prior = poll[p].prior /\ poll'[p].batch = poll[p].batch
             /\ poll'[p].pc = "advance" => Upsert(p)
  <2>1. ~ PollStart(p) /\ ~ Wipe(p) /\ ~ Refetch(p)
    BY <1>1, StartRun, WipeRun, RefetchRun DEF Base, SameNumbering, Fetching
  <2>2. ~ PollFail(p) /\ ~ FlagPass(p) /\ ~ Advance(p)
    BY <1>1, DoneRun, AdvanceRun DEF PollFail, FlagPass, Fetching
  <2> QED BY <1>1, <1>4, <2>1, <2>2, ListRun, SnapshotRun, ReconcileRun, UpsertRun
          DEF PollStep, SameBatch, Fetching
<1>5. ~ Crash
  BY DEF Crash, NoRun, Fetching
<1>6. PollFetch(p) => UNCHANGED server
  BY DEF PollFetch
<1> QED BY <1>2, <1>3, <1>4, <1>5, <1>6, OpPolls DEF Next, vars, Environment, Arrive,
        RemoteExpunge, RemoteSeen, Rotate

LEMMA NextBatchWhole ==
  ASSUME Typed, Whole, Alone, [Next]_vars, Calm, Calm'
  PROVE  BatchWhole'
<1>1. Base /\ NoneEmpties /\ Polls /\ mark \in Mark /\ ServerTyped /\ CacheTyped
  BY DEF Whole, Typed, CacheTyped
<1>2. validity' = validity
  BY <1>1, CalmStep
<1>3. ASSUME NEW p \in Poller, poll'[p].pc \in Fetching,
             NEW b \in poll'[p].batch, NEW u \in live'
      PROVE  /\ u <= poll'[p].prior.high => u <= b
             /\ poll'[p].prior.high < u /\ u <= b =>
                  \/ u \in poll'[p].batch
                  \/ poll'[p].prior.high = 0 /\ \A c \in poll'[p].batch : u < c
  <2>1. CASE PollFetch(p) /\ UNCHANGED server
    <3>1. poll'[p].prior = poll[p].prior /\ poll'[p].batch = Fetched(poll[p].prior.high)
      BY <1>1, <2>1, FetchRun
    <3>2. poll[p].prior.high \in 0..MaxUid /\ u \in live
      BY <1>1, <2>1 DEF Polls, Run, Mark, server
    <3> QED BY <1>1, <1>3, <3>1, <3>2, FetchedCovers
  <2>2. ASSUME poll[p].pc \in Fetching, poll'[p].prior = poll[p].prior,
               poll'[p].batch = poll[p].batch
        PROVE  /\ u <= poll'[p].prior.high => u <= b
               /\ poll'[p].prior.high < u /\ u <= b =>
                    \/ u \in poll'[p].batch
                    \/ poll'[p].prior.high = 0 /\ \A c \in poll'[p].batch : u < c
    <3>1. CASE u \in live
      BY <1>3, <2>2, <3>1 DEF Whole, BatchWhole
    <3>2. CASE u \notin live
      <4>1. u = uidnext
        BY <1>2, <1>3, <3>2, LiveGrows DEF Arrive
      <4>2. b < uidnext /\ poll[p].prior.high < uidnext
        BY <1>1, <1>3, <2>2 DEF Base, Issued
      <4>3. b \in Nat /\ uidnext \in Nat /\ poll[p].prior.high \in Nat
        BY <1>1, <1>3, <2>2 DEF Polls, Run, Mark, Uid, ServerTyped
      <4>4. ~ (u <= poll[p].prior.high) /\ ~ (u <= b)
        BY <4>1, <4>2, <4>3
      <4> QED BY <2>2, <4>4
    <3> QED BY <3>1, <3>2
  <2> QED BY <1>1, <1>3, <2>1, <2>2, BatchStep
<1> QED BY <1>3 DEF BatchWhole

LEMMA NextFirst ==
  ASSUME Typed, Whole, Alone, [Next]_vars, Calm, Calm'
  PROVE  FirstFetch'
<1>1. Base /\ NoneEmpties /\ Polls /\ mark \in Mark /\ ServerTyped /\ CacheTyped
  BY DEF Whole, Typed, CacheTyped
<1>2. \A p, q \in Poller : p = q
  BY DEF Alone
<1>3. ASSUME mark'.high = 0, NEW c \in Known', NEW p \in Poller, Advance(p)
      PROVE  FALSE
  <2>1. poll[p].pc = "advance" /\ poll[p] \in Run /\ mark = poll[p].prior
    BY <1>1, <1>3 DEF Advance, At, Polls, Whole, MarkKept
  <2>2. mark.high = 0 /\ poll[p].batch = {}
    <3>1. ASSUME mark' = [valid |-> poll[p].valid, high |-> NewHigh(poll[p])]
          PROVE  mark.high = 0 /\ poll[p].batch = {}
      <4>1. NewHigh(poll[p]) = 0
        BY <1>3, <3>1
      <4>2. poll[p].prior.high <= 0 /\ poll[p].prior.high \in Nat
        BY <2>1, <4>1, HighOf DEF Run, Mark
      <4>3. \A b \in poll[p].batch : b <= 0 /\ b \in Uid
        BY <2>1, <4>1, HighOf DEF Run
      <4> QED BY <2>1, <4>2, <4>3 DEF Uid
    <3>2. ASSUME mark' = mark, harm' = IF Unmarked(p) /\ ~ upset THEN "torn" ELSE harm
          PROVE  mark.high = 0 /\ poll[p].batch = {}
      BY <1>3, <2>1, <3>2 DEF Calm, upset, torn, Unmarked, At
    <3> QED BY <1>3, <3>1, <3>2 DEF Advance
  <2>3. Known' \subseteq Known
    <3>1. ~ Upsert(p)
      BY <2>1 DEF Upsert, At
    <3>2. PollStep(p)
      BY <1>3 DEF PollStep
    <3> QED BY <3>1, <3>2, KnownPoll DEF Known, Doing
  <2> QED BY <1>2, <1>3, <2>2, <2>3 DEF Whole, FirstFetch
<1>4. ASSUME mark.high = 0, NEW c \in Known', NEW p \in Poller, Upsert(p),
             Known' \subseteq Known \cup poll[p].batch
      PROVE  poll'[p].pc = "advance" /\ c \in poll'[p].batch
  <2>1. poll[p].pc = "upsert" /\ poll'[p].pc = "advance" /\ poll'[p].batch = poll[p].batch
    BY <1>1, <1>4, UpsertRun DEF SameBatch
  <2>2. c \notin Known
    BY <1>2, <1>4, <2>1 DEF Whole, FirstFetch
  <2> QED BY <1>4, <2>1, <2>2
<1>5. ASSUME mark.high = 0, Known' \subseteq Known, NEW c \in Known',
             \A p \in Poller : ~ Advance(p)
      PROVE  \E p \in Poller : poll'[p].pc = "advance" /\ c \in poll'[p].batch
  <2>1. PICK p \in Poller : poll[p].pc = "advance" /\ c \in poll[p].batch
    BY <1>5 DEF Whole, FirstFetch
  <2>2. mark = poll[p].prior
    BY <2>1 DEF Whole, MarkKept
  <2>3. Unmarked(p)
    BY <1>5, <2>1, <2>2 DEF Unmarked, At
  <2>4. ~ Crash
    BY <1>1, <2>3, CalmStep
  <2>5. ~ PollStep(p)
    BY <1>5, <2>1 DEF PollStep, PollStart, PollFetch, PollFail, Wipe, Refetch, List, Snapshot,
       Reconcile, Upsert, FlagPass, At
  <2>6. UNCHANGED poll
    BY <1>2, <2>4, <2>5, OpPolls DEF Next, vars, Environment, Arrive, RemoteExpunge,
       RemoteSeen, Rotate
  <2> QED BY <2>1, <2>6
<1>6. mark' = mark \/ \E p \in Poller : Advance(p)
  BY <1>1, CalmMark
<1> QED BY <1>3, <1>4, <1>5, <1>6, KnownGrows DEF FirstFetch

\* What is covered stays covered: mail arrives above it, and no live message that has a
\* row loses it.
LEMMA CoveredStays ==
  ASSUME Typed, Whole, [Next]_vars, Calm, Calm', Known' \subseteq Known,
         NEW h \in Nat, h < uidnext, Covered(h)
  PROVE  Covered(h)'
<1>1. Base /\ NoneEmpties /\ ServerTyped /\ validity' = validity
  BY CalmStep DEF Whole, Typed
<1>2. ASSUME NEW u \in live', u <= h
      PROVE  u \in cached' \/ \A c \in Known' : u < c
  <2>1. u \in live
    BY <1>1, <1>2, LiveGrows DEF Arrive, ServerTyped
  <2>2. u \in cached => u \in cached'
    BY <1>1, <2>1, CalmRows
  <2> QED BY <1>2, <2>1, <2>2 DEF Covered
<1> QED BY <1>2 DEF Covered

\* Once the batch is stored its newest message covers no gap: what is above the old
\* bookmark came with it, and a first batch is all the rows there are.
LEMMA UpsertCovers ==
  ASSUME Typed, Whole, Alone, [Next]_vars, Calm, Calm', NEW p \in Poller, Upsert(p)
  PROVE  Covered(NewHigh(poll[p]))' /\ NewHigh(poll'[p]) = NewHigh(poll[p])
<1>1. Base /\ Polls /\ ServerTyped /\ CacheTyped
  BY DEF Whole, Typed
<1>2. /\ poll[p].pc = "upsert" /\ poll[p] \in Run
      /\ poll'[p].prior = poll[p].prior /\ poll'[p].batch = poll[p].batch
  BY <1>1, UpsertRun DEF SameBatch, Polls
<1>3. mark = poll[p].prior
  BY <1>2 DEF Whole, MarkKept
<1>4. cached' = cached \cup poll[p].batch /\ UNCHANGED <<live, op>>
  BY DEF Upsert, Logged, UpsertRows, Calm, upset, server
<1>5. Known' \subseteq Known \cup poll[p].batch
  BY <1>4 DEF Known, Doing
<1>6. NewHigh(poll'[p]) = NewHigh(poll[p])
  BY <1>2 DEF NewHigh
<1>7. PICK h : h = NewHigh(poll[p])
  OBVIOUS
<1>8. h \in poll[p].batch \cup {poll[p].prior.high}
  BY <1>2, <1>7, HighOf
<1>9. ASSUME NEW u \in live', u <= h
      PROVE  u \in cached' \/ \A c \in Known' : u < c
  <2>1. u \in live /\ live \subseteq Nat /\ poll[p].batch \subseteq Nat
        /\ poll[p].prior.high \in Nat
    BY <1>1, <1>2, <1>4, <1>9 DEF ServerTyped, Run, Mark, Uid
  <2>2. CASE u <= poll[p].prior.high
    <3>1. u \in cached \/ \A c \in Known : u < c
      BY <1>3, <2>1, <2>2 DEF Whole, Covered
    <3>2. \A b \in poll[p].batch : u <= b
      BY <1>2, <2>1, <2>2 DEF Whole, BatchWhole, Fetching
    <3>3. u \in poll[p].batch \/ \A b \in poll[p].batch : u < b
      BY <2>1, <3>2
    <3> QED BY <1>4, <1>5, <3>1, <3>3
  <2>3. CASE poll[p].prior.high < u
    <3>1. h \in poll[p].batch
      BY <1>8, <1>9, <2>1, <2>3
    <3>2. \/ u \in poll[p].batch
          \/ poll[p].prior.high = 0 /\ \A c \in poll[p].batch : u < c
      BY <1>2, <1>9, <2>1, <2>3, <3>1 DEF Whole, BatchWhole, Fetching
    <3>3. poll[p].prior.high = 0 => Known = {}
      BY <1>2, <1>3 DEF Whole, FirstFetch, Alone
    <3> QED BY <1>4, <1>5, <3>2, <3>3
  <2> QED BY <2>1, <2>2, <2>3
<1>10. NewHigh(poll[p])' = h
  BY <1>2, <1>7 DEF NewHigh
<1> QED BY <1>6, <1>9, <1>10 DEF Covered

LEMMA NextCovered ==
  ASSUME Typed, Whole, Alone, [Next]_vars, Calm, Calm'
  PROVE  Covered(mark.high)' /\ Stored'
<1>1. Base /\ NoneEmpties /\ Polls /\ mark \in Mark /\ ServerTyped /\ CacheTyped
  BY DEF Whole, Typed, CacheTyped
<1>2. \A p, q \in Poller : p = q
  BY DEF Alone
<1>3. /\ mark.high \in Nat /\ mark.high < uidnext
      /\ \A p \in Poller : /\ poll[p] \in Run
                           /\ NewHigh(poll[p]) \in Nat /\ NewHigh(poll[p]) < uidnext
  <2>1. mark.high \in Nat /\ mark.high < uidnext
    BY <1>1 DEF Mark, Base, Issued
  <2>2. ASSUME NEW p \in Poller
        PROVE  poll[p] \in Run /\ NewHigh(poll[p]) \in Nat /\ NewHigh(poll[p]) < uidnext
    <3>1. poll[p] \in Run
      BY <1>1 DEF Polls
    <3>2. NewHigh(poll[p]) \in 0..MaxUid /\ NewHigh(poll[p]) \in poll[p].batch \cup {poll[p].prior.high}
      BY <3>1, HighOf
    <3> QED BY <1>1, <3>1, <3>2 DEF Base, Issued
  <2> QED BY <2>1, <2>2
<1>4. ASSUME NEW p \in Poller, Upsert(p)
      PROVE  Covered(mark.high)' /\ Stored'
  <2>1. Covered(NewHigh(poll[p]))' /\ NewHigh(poll'[p]) = NewHigh(poll[p])
    BY <1>4, UpsertCovers
  <2>2. Stored'
    BY <1>2, <2>1 DEF Stored
  <2>3. mark' = mark /\ mark = poll[p].prior /\ UNCHANGED live
    BY <1>4 DEF Upsert, At, Logged, UpsertRows, Calm, upset, Whole, MarkKept, server
  <2>4. mark.high <= NewHigh(poll[p])
    BY <1>3, <2>3, HighOf
  <2>5. PICK h : h = NewHigh(poll[p])
    OBVIOUS
  <2>6. PICK k : k = mark.high
    OBVIOUS
  <2>7. NewHigh(poll[p])' = h /\ mark'.high = k
    BY <2>1, <2>3, <2>5, <2>6 DEF NewHigh
  <2>8. ASSUME NEW u \in live', u <= k
        PROVE  u \in cached' \/ \A c \in Known' : u < c
    <3>1. u <= h
      BY <1>1, <1>3, <2>3, <2>4, <2>5, <2>6, <2>8 DEF ServerTyped, Uid
    <3> QED BY <2>1, <2>7, <2>8, <3>1 DEF Covered
  <2> QED BY <2>2, <2>7, <2>8 DEF Covered
<1>5. ASSUME \A p \in Poller : ~ Upsert(p)
      PROVE  Covered(mark.high)' /\ Stored'
  <2>1. Known' \subseteq Known
    BY <1>5, KnownGrows
  <2>2. ASSUME NEW h \in Nat, h < uidnext, Covered(h)
        PROVE  Covered(h)'
    BY <2>1, <2>2, CoveredStays
  <2>3. Covered(mark.high)'
    <3>1. \/ mark' = mark
          \/ \E p \in Poller : Advance(p) /\ mark'.high = NewHigh(poll[p])
      <4>1. ASSUME NEW p \in Poller, Advance(p)
            PROVE  mark' = mark \/ mark'.high = NewHigh(poll[p])
        BY <4>1 DEF Advance
      <4> QED BY <1>1, <4>1, CalmMark
    <3>2. PICK h : h = mark'.high
      OBVIOUS
    <3>3. h \in Nat /\ h < uidnext /\ Covered(h)
      <4>1. CASE mark' = mark
        BY <1>3, <3>2, <4>1 DEF Whole
      <4>2. ASSUME NEW p \in Poller, Advance(p), mark'.high = NewHigh(poll[p])
            PROVE  h \in Nat /\ h < uidnext /\ Covered(h)
        BY <1>3, <3>2, <4>2 DEF Advance, At, Whole, Stored
      <4> QED BY <3>1, <4>1, <4>2
    <3>4. Covered(h)'
      BY <2>2, <3>3
    <3> QED BY <3>2, <3>4 DEF Covered
  <2>4. ASSUME NEW p \in Poller, poll'[p].pc = "advance"
        PROVE  Covered(NewHigh(poll[p]))'
    <3>1. /\ poll[p].pc = "advance"
          /\ poll'[p].prior = poll[p].prior /\ poll'[p].batch = poll[p].batch
      <4>1. ~ PollFetch(p)
        BY <1>1, <2>4, FetchRun
      <4> QED BY <1>1, <1>5, <2>4, <4>1, BatchStep DEF Fetching
    <3>2. PICK h : h = NewHigh(poll[p])
      OBVIOUS
    <3>3. Covered(h) /\ h \in Nat /\ h < uidnext
      BY <1>3, <3>1, <3>2 DEF Whole, Stored
    <3>4. NewHigh(poll[p])' = h
      BY <3>1, <3>2 DEF NewHigh
    <3>5. Covered(h)'
      BY <2>2, <3>3
    <3> QED BY <3>4, <3>5 DEF Covered
  <2>5. Stored'
    BY <2>4 DEF Stored
  <2> QED BY <2>3, <2>5
<1> QED BY <1>4, <1>5

\* A step that leaves the folder calm found it calm.
LEMMA CalmBefore ==
  ASSUME [Next]_vars, Calm'
  PROVE  Calm
<1>1. ASSUME NEW p \in Poller, PollStep(p)
      PROVE  harm' \in {harm, "torn", "upset"}
  <2>1. CASE Advance(p)
    BY <2>1 DEF Advance
  <2>2. CASE Reconcile(p)
    BY <2>2 DEF Reconcile
  <2>3. CASE Wipe(p) \/ Upsert(p) \/ FlagPass(p)
    BY <2>3 DEF Wipe, Upsert, FlagPass, Logged
  <2>4. CASE PollStart(p) \/ PollFetch(p) \/ PollFail(p) \/ Refetch(p) \/ List(p) \/ Snapshot(p)
    BY <2>4 DEF PollStart, PollFetch, PollFail, Refetch, List, Snapshot, history
  <2> QED BY <1>1, <2>1, <2>2, <2>3, <2>4 DEF PollStep
<1>2. ASSUME NEW u \in User, OpStart(u) \/ OpStep(u)
      PROVE  harm' \in {harm, "upset"}
  BY <1>2 DEF OpStart, SetRead, ReadAll, Delete, OpenMail, FetchFolders, ClearFolder, OpStep,
     Store, StoreAll, Expunge, Clean, Restore, Write, CountFolders, Empty, Logged, history
<1>3. ASSUME Environment \/ UNCHANGED vars
      PROVE  harm' \in {harm, "torn", "upset"}
  BY <1>3 DEF vars, history, Environment, Arrive, RemoteExpunge, RemoteSeen, Rotate, Crash
<1>4. harm' \in {harm, "torn", "upset"}
  BY <1>1, <1>2, <1>3 DEF Next
<1> QED BY <1>4 DEF Calm, upset, torn

LEMMA NextGap ==
  ASSUME Typed, GapInv, Alone, [Next]_vars
  PROVE  GapInv'
<1>1. SUFFICES ASSUME Calm'
               PROVE  Whole'
  BY DEF GapInv
<1>2. Calm /\ Whole /\ Base /\ NoneEmpties
  BY <1>1, CalmBefore DEF GapInv, Whole
<1>3. validity' = validity /\ \A v \in User : ~ ClearFolder(v)
  BY <1>1, <1>2, CalmStep
<1> QED BY <1>1, <1>2, <1>3, NextBase, NextEmpties, NextKept, NextBatchWhole, NextFirst,
        NextCovered DEF Whole

LEMMA InitGap == Init => GapInv
<1>1. ASSUME Init
      PROVE  /\ Base /\ NoneEmpties /\ Known = {} /\ live = {}
             /\ \A p \in Poller : poll[p].pc = "idle"
  BY <1>1, InitBase DEF Init, NoneEmpties, Known, Doing, NoOp, NoRun
<1> QED BY <1>1 DEF GapInv, Whole, MarkKept, BatchWhole, FirstFetch, Covered, Stored, Fetching

\* No live mail is out of reach, if polls do not overlap: whatever fails, a message that
\* has no row is newer than the bookmark, so the next poll fetches it, or older than
\* every row.  The rows and the bookmark are written one after the other, so the theorem
\* rests on what a batch leaves out and on who else may write or drop a row meanwhile.
THEOREM NoMailOutOfReach ==
  ASSUME Alone
  PROVE  Spec => []NoGap
<1>1. Typed /\ GapInv => NoGap
  BY DEF GapInv, Calm, Whole, Covered, Known, NoGap
<1>2. Typed /\ GapInv /\ [Next]_vars => (Typed /\ GapInv)'
  BY NextTyped, NextGap
<1> QED BY <1>1, <1>2, InitTyped, InitGap, PTL DEF Spec

=============================================================================
