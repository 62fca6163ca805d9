----------------------------- MODULE OutboxProofs -----------------------------
(* Theorems about Outbox, for every value of its constants.                  *)
EXTENDS Outbox, TLAPS

USE OutboxAssumption DEF OutboxAssumption

LEMMA IdsInNat == Ids \subseteq Nat /\ 1 \in Ids /\ Free \in Nat
  BY DEF Ids, Free

LEMMA IdleIsDrain == Idle \in Drain
  BY IdsInNat DEF Idle, Drain, PC, Pass

LEMMA AttemptIsDrain ==
  ASSUME NEW id \in Ids, NEW force \in BOOLEAN, NEW pass \in Pass
  PROVE  Attempt(id, force, pass) \in Drain
  BY IdsInNat DEF Attempt, Drain, PC, Pass

LEMMA EnvelopesBound ==
  ASSUME NEW m \in Mail
  PROVE  Envelopes(m.kind) \in 1..MaxEnvelopes
  BY DEF Envelopes

\* The initial state is well typed.
LEMMA InitTypeOK == Init => TypeOK
<1> SUFFICES ASSUME Init PROVE TypeOK
  OBVIOUS
<1> USE DEF Init
<1>1. mail \in [Ids -> Mail]
  <2>1. (CHOOSE a \in Account : TRUE) \in Account
    OBVIOUS
  <2>2. QED BY <2>1 DEF Mail, Kind
<1>2. drain \in [Task -> Drain]
  BY IdleIsDrain
<1>3. delivered \in [Ids -> [1..MaxEnvelopes -> 0..2]]
  OBVIOUS
<1>4. next \in 1..MaxRows + 1 /\ crashes \in 0..MaxCrashes
  OBVIOUS
<1>5. fate \in [Ids -> Fate] /\ age \in [Ids -> 0..Free] /\ window \in [Ids -> Window]
  BY IdsInNat DEF Fate, Window
<1>6. QED BY <1>1, <1>2, <1>3, <1>4, <1>5 DEF TypeOK

\* A spawned drain is well typed.
LEMMA SpawnTyped ==
  ASSUME NEW w \in Task, NEW id \in Ids, NEW force \in BOOLEAN, NEW pass \in Pass,
         drain \in [Task -> Drain], Spawn(w, id, force, pass)
  PROVE  drain' \in [Task -> Drain]
  BY AttemptIsDrain DEF Spawn

LEMMA InsertTyped ==
  ASSUME NEW m \in Mail, TypeOK, Insert(m)
  PROVE  next \in Ids /\ next' \in 1..MaxRows + 1 /\ mail' \in [Ids -> Mail]
         /\ fate' \in [Ids -> Fate]
  BY DEF Insert, TypeOK, Ids, Fate

LEMMA RemoveTyped ==
  ASSUME NEW id \in Ids, NEW how \in Gone, TypeOK, Remove(id, how)
  PROVE  fate' \in [Ids -> Fate]
  BY DEF Remove, TypeOK, Fate, Gone

LEMMA GotoTyped ==
  ASSUME NEW t \in Task, NEW pc \in PC, TypeOK, Goto(t, pc)
  PROVE  drain' \in [Task -> Drain]
  BY DEF Goto, TypeOK, Drain

LEMMA ReturnTyped ==
  ASSUME NEW t \in Task, TypeOK, Return(t)
  PROVE  drain' \in [Task -> Drain]
  BY IdleIsDrain DEF Return, TypeOK

\* A failing statement is counted while the bound allows it.
LEMMA FaultsTyped ==
  ASSUME TypeOK, crashes' = crashes \/ DbError
  PROVE  crashes' \in 0..MaxCrashes
  BY OutboxAssumption DEF TypeOK, DbError

LEMMA FailTyped ==
  ASSUME NEW t \in Task, TypeOK, Fail(t)
  PROVE  /\ drain' \in [Task -> Drain] /\ age' \in [Ids -> 0..Free]
         /\ failed' \subseteq Ids /\ crashes' \in 0..MaxCrashes
<1>1. drain[t].id \in Ids
  BY DEF TypeOK, Drain
<1>2. age \in [Ids -> 0..Free] /\ failed \subseteq Ids /\ 0 \in 0..Free
  BY IdsInNat DEF TypeOK
<1> crashes' \in 0..MaxCrashes
  BY FaultsTyped DEF Fail
<1>3. CASE RecordFailure(drain[t].id)
  <2>1. CASE fate[drain[t].id] = "queued"
    BY <1>1, <1>2, <1>3, <2>1, ReturnTyped DEF Fail, RecordFailure
  <2>2. CASE fate[drain[t].id] # "queued"
    BY <1>2, <1>3, <2>2, ReturnTyped DEF Fail, RecordFailure
  <2>3. QED BY <2>1, <2>2
<1>4. CASE UNCHANGED <<age, failed>>
  BY <1>2, <1>4, ReturnTyped DEF Fail
<1>5. QED BY <1>3, <1>4 DEF Fail

LEMMA DeliverTyped ==
  ASSUME NEW id \in Ids, NEW e, TypeOK, Deliver(id, e)
  PROVE  delivered' \in [Ids -> [1..MaxEnvelopes -> 0..2]]
<1> DEFINE n == IF delivered[id][e] = 0 THEN 1 ELSE 2
<1>1. delivered \in [Ids -> [1..MaxEnvelopes -> 0..2]] /\ n \in 0..2
  BY DEF TypeOK
<1> HIDE DEF n
<1>2. [delivered[id] EXCEPT ![e] = n] \in [1..MaxEnvelopes -> 0..2]
  BY <1>1
<1>3. delivered' = [delivered EXCEPT ![id] = [delivered[id] EXCEPT ![e] = n]]
  BY <1>1 DEF Deliver, n
<1>4. QED BY <1>1, <1>2, <1>3

LEMMA SuspectTyped ==
  ASSUME NEW t \in Task, NEW lost, TypeOK, Suspect(t, lost)
  PROVE  doubt' \subseteq Ids
  BY DEF Suspect, TypeOK, Drain

\* Every step of the user keeps the types.
LEMMA UserTypeOK == TypeOK /\ UserStep => TypeOK'
<1> SUFFICES ASSUME TypeOK, UserStep PROVE TypeOK'
  OBVIOUS
<1>0. Worker \subseteq Task /\ Free \in 0..Free
  BY IdsInNat DEF Task
<1>1. ASSUME NEW w \in Worker, NEW a \in Account, NEW k \in Kinds, NEW p \in Passes,
             SendNew(w, a, k, p)
      PROVE  TypeOK'
  <2>1. next \in Ids
    BY <1>1 DEF SendNew, Insert, TypeOK, Ids
  <2>2. [account |-> a, kind |-> k, root |-> next] \in Mail
    BY <2>1 DEF Mail
  <2>3. next' \in 1..MaxRows + 1 /\ mail' \in [Ids -> Mail] /\ fate' \in [Ids -> Fate]
    BY <1>1, <2>2, InsertTyped DEF SendNew
  <2>4. drain' \in [Task -> Drain]
    BY <1>0, <1>1, <2>1, SpawnTyped DEF SendNew, TypeOK
  <2>5. QED BY <1>1, <2>3, <2>4 DEF SendNew, TypeOK
<1>2. ASSUME NEW id \in Ids, OpenEdit(id) PROVE TypeOK'
  BY <1>2 DEF OpenEdit, TypeOK, Window, rowVars
<1>3. ASSUME NEW id \in Ids, CancelEdit(id) PROVE TypeOK'
  BY <1>3 DEF CancelEdit, TypeOK, Window, Fate, Gone, rowVars
<1>4. ASSUME NEW id \in Ids, ReplaceRemove(id) PROVE TypeOK'
  <2>1. fate' \in [Ids -> Fate]
    BY <1>4, RemoveTyped DEF ReplaceRemove, TypeOK, Gone
  <2>2. crashes' \in 0..MaxCrashes
    BY <1>4, FaultsTyped DEF ReplaceRemove
  <2>3. QED BY <1>4, <2>1, <2>2 DEF ReplaceRemove, TypeOK, Window, rowVars
<1>5. ASSUME NEW id \in Ids, EditEntry(id) PROVE TypeOK'
  <2>1. fate' \in [Ids -> Fate]
    BY <1>5, RemoveTyped DEF EditEntry, Gone
  <2>2. QED BY <1>5, <2>1 DEF EditEntry, TypeOK, Window, rowVars
<1>6. ASSUME NEW id \in Ids, DeleteEntry(id) PROVE TypeOK'
  <2>1. fate' \in [Ids -> Fate]
    BY <1>6, RemoveTyped DEF DeleteEntry, Gone
  <2>2. QED BY <1>6, <2>1 DEF DeleteEntry, TypeOK, rowVars
<1>7. ASSUME NEW id \in Ids, NEW w \in Worker, Retry(id, w) PROVE TypeOK'
  <2>1. drain' \in [Task -> Drain]
    BY <1>0, <1>7, SpawnTyped DEF Retry, TypeOK, Pass
  <2>2. QED BY <1>7, <2>1 DEF Retry, TypeOK, rowVars
<1>8. ASSUME NEW id \in Ids, NEW w \in Worker, NEW p \in Passes, ReplaceInsert(id, w, p)
      PROVE  TypeOK'
  <2>1. mail[id] \in Mail
    BY DEF TypeOK
  <2> crashes' \in 0..MaxCrashes
    BY <1>8, FaultsTyped DEF ReplaceInsert
  <2>2. CASE UNCHANGED <<rowVars, fate, drain>> /\ window' = [window EXCEPT ![id] = "recovered"]
    BY <1>8, <2>2 DEF ReplaceInsert, TypeOK, Window, rowVars
  <2>3. CASE /\ window' = [window EXCEPT ![id] = "closed"]
             /\ Insert(mail[id])
             /\ Spawn(w, next, FALSE, p)
    <3>1. next \in Ids /\ next' \in 1..MaxRows + 1 /\ mail' \in [Ids -> Mail]
          /\ fate' \in [Ids -> Fate]
      BY <2>1, <2>3, InsertTyped
    <3>2. drain' \in [Task -> Drain]
      BY <1>0, <2>3, <3>1, SpawnTyped DEF TypeOK
    <3>3. QED BY <1>8, <2>3, <3>1, <3>2 DEF ReplaceInsert, TypeOK, Window
  <2>4. QED BY <1>8, <2>2, <2>3 DEF ReplaceInsert
<1>9. ASSUME NEW id \in Ids, NEW w \in Worker, NEW p \in Passes, RetryWithPassphrase(id, w, p)
      PROVE  TypeOK'
  <2>1. drain' \in [Task -> Drain]
    BY <1>0, <1>9, SpawnTyped DEF RetryWithPassphrase, TypeOK
  <2>2. QED BY <1>9, <2>1 DEF RetryWithPassphrase, TypeOK, rowVars
<1>10. ASSUME NEW a \in Account, RemoveAccount(a) PROVE TypeOK'
  BY <1>10 DEF RemoveAccount, TypeOK, rowVars
<1>11. QED
  BY <1>1, <1>2, <1>3, <1>4, <1>5, <1>6, <1>7, <1>8, <1>9, <1>10 DEF UserStep

\* Every step of a drain keeps the types.
LEMMA DrainTypeOK ==
  ASSUME NEW t \in Task, TypeOK, Progress, DrainStep(t)
  PROVE  TypeOK'
<1>0. drain[t] \in Drain /\ drain[t].id \in Ids /\ mail[drain[t].id] \in Mail
  BY DEF TypeOK, Drain
<1>1. CASE Claim(t)
  <2>1. drain' \in [Task -> Drain]
    BY <1>1, GotoTyped, ReturnTyped DEF Claim, PC
  <2>2. age' \in [Ids -> 0..Free]
    BY <1>0, <1>1, IdsInNat DEF Claim, TypeOK
  <2>3. crashes' \in 0..MaxCrashes
    BY <1>1, FaultsTyped DEF Claim
  <2>4. doubt' \subseteq Ids
    BY <1>1, SuspectTyped DEF Claim, TypeOK
  <2>5. QED BY <1>1, <2>1, <2>2, <2>3, <2>4 DEF Claim, TypeOK, rowVars
<1>2. CASE Load(t)
  <2>1. drain' \in [Task -> Drain] /\ age' \in [Ids -> 0..Free] /\ failed' \subseteq Ids
    BY <1>2, GotoTyped, ReturnTyped, FailTyped DEF Load, PC, TypeOK
  <2>2. fate' \in [Ids -> Fate]
    BY <1>0, <1>2, RemoveTyped DEF Load, TypeOK, Gone
  <2>3. crashes' \in 0..MaxCrashes
    BY <1>2, FaultsTyped, FailTyped DEF Load
  <2>4. QED BY <1>2, <2>1, <2>2, <2>3 DEF Load, TypeOK, rowVars
<1>3. CASE Refuse(t)
  BY <1>3, FailTyped, SuspectTyped DEF Refuse, TypeOK, rowVars
<1>4. CASE Accept(t)
  <2>1. delivered' \in [Ids -> [1..MaxEnvelopes -> 0..2]]
    BY <1>0, <1>4, DeliverTyped DEF Accept
  <2>2. drain[t].sent + 1 \in 0..MaxEnvelopes
    BY <1>0, <1>4, EnvelopesBound DEF Accept, At, Progress, Drain
  <2>3. drain' \in [Task -> Drain]
    BY <1>0, <1>4, <2>2 DEF Accept, Submitted, TypeOK, Drain, PC
  <2>4. QED BY <1>4, <2>1, <2>3 DEF Accept, TypeOK, rowVars
<1>5. CASE Reject(t)
  BY <1>5, FailTyped, SuspectTyped DEF Reject, TypeOK, rowVars
<1>6. CASE LoseReply(t)
  <2>1. delivered' \in [Ids -> [1..MaxEnvelopes -> 0..2]]
    BY <1>0, <1>6, DeliverTyped DEF LoseReply
  <2>2. QED BY <1>6, <2>1, FailTyped, SuspectTyped DEF LoseReply, TypeOK, rowVars
<1>7. CASE Finish(t)
  <2>1. fate' \in [Ids -> Fate]
    BY <1>0, <1>7, RemoveTyped DEF Finish, TypeOK, Gone
  <2>2. drain' \in [Task -> Drain]
    BY <1>7, ReturnTyped DEF Finish
  <2>3. crashes' \in 0..MaxCrashes
    BY <1>7, FaultsTyped DEF Finish
  <2>4. doubt' \subseteq Ids
    BY <1>7, SuspectTyped DEF Finish, TypeOK
  <2>5. QED BY <1>7, <2>1, <2>2, <2>3, <2>4 DEF Finish, TypeOK, rowVars
<1>8. QED
  BY <1>1, <1>2, <1>3, <1>4, <1>5, <1>6, <1>7 DEF DrainStep

\* The sweep, time and crashes keep the types.
LEMMA RestTypeOK ==
  ASSUME TypeOK, SweepStart \/ SweepNext \/ Tick \/ Crash
  PROVE  TypeOK'
<1>1. CASE SweepStart
  BY <1>1 DEF SweepStart, Queued, TypeOK, rowVars
<1>2. CASE SweepNext
  <2>1. drain' \in [Task -> Drain]
    BY <1>2, SpawnTyped DEF SweepNext, TypeOK, Task, Pass
  <2>2. QED BY <1>2, <2>1 DEF SweepNext, TypeOK, rowVars
<1>3. CASE Tick
  <2>1. age' \in [Ids -> 0..Free]
    BY <1>3, IdsInNat DEF Tick, TypeOK
  <2>2. ASSUME NEW t \in Task
        PROVE  (IF Busy(t) THEN [drain[t] EXCEPT !.age = @ + 1] ELSE drain[t]) \in Drain
    <3>1. drain[t] \in Drain
      BY DEF TypeOK
    <3>2. Busy(t) => drain[t].age + 1 \in 0..MaxSend
      BY <1>3, <3>1 DEF Tick, Drain
    <3>3. QED BY <3>1, <3>2 DEF Drain
  <2>3. drain' \in [Task -> Drain]
    BY <1>3, <2>2 DEF Tick
  <2>4. QED BY <1>3, <2>1, <2>3 DEF Tick, TypeOK, rowVars
<1>4. CASE Crash
  <2>1. drain' \in [Task -> Drain]
    BY <1>4, IdleIsDrain DEF Crash
  <2>2. garbled' \subseteq Ids /\ crashes' \in 0..MaxCrashes
    BY <1>4 DEF Crash, Queued, TypeOK
  <2>3. doubt' \subseteq Ids
    BY <1>4 DEF Crash, TypeOK, Drain
  <2>4. QED BY <1>4, <2>1, <2>2, <2>3 DEF Crash, TypeOK, Window, rowVars
<1>5. QED BY <1>1, <1>2, <1>3, <1>4

-----------------------------------------------------------------------------
(* Issued and Progress are what TypeOK needs to be inductive: Accept keeps   *)
(* the types because an attempt never submits more envelopes than planned,   *)
(* and the plan of an attempt never changes because the attempt names a row  *)
(* already issued.                                                           *)

Typed == TypeOK /\ Issued /\ Progress

\* The content of a row never changes once the row is issued.
LEMMA MailFixed ==
  ASSUME Typed, [Next]_vars, NEW id \in Ids, id < next
  PROVE  mail'[id] = mail[id] /\ id < next'
<1>1. next \in Nat /\ mail \in [Ids -> Mail]
  BY DEF Typed, TypeOK
<1>2. ASSUME NEW m, Insert(m) PROVE mail'[id] = mail[id] /\ id < next'
  BY <1>1, <1>2, IdsInNat DEF Insert, Ids
<1>3. CASE UserStep
  BY <1>2, <1>3 DEF UserStep, SendNew, OpenEdit, CancelEdit, ReplaceRemove, ReplaceInsert,
     EditEntry, DeleteEntry, Retry, RetryWithPassphrase, RemoveAccount, rowVars
<1>4. CASE \E t \in Task : DrainStep(t)
  BY <1>4 DEF DrainStep, Claim, Load, Refuse, Accept, Reject, LoseReply, Finish, rowVars
<1>5. CASE SweepStart \/ SweepNext \/ Tick \/ Crash \/ UNCHANGED vars
  BY <1>5 DEF SweepStart, SweepNext, Tick, Crash, vars, rowVars
<1>6. QED BY <1>3, <1>4, <1>5 DEF Next

\* What a step may do to one task: start it on an issued row, end it, or take it
\* one step further on the row it has.
TaskMove(t) ==
  \/ drain'[t] = drain[t]
  \/ drain'[t] = Idle
  \/ drain'[t].pc = "claim" /\ drain'[t].sent = 0 /\ drain'[t].id < next'
  \/ /\ drain[t].pc # "idle" /\ drain'[t].id = drain[t].id
     /\ drain'[t].pc = drain[t].pc /\ drain'[t].sent = drain[t].sent
  \/ /\ drain[t].pc = "claim" /\ drain'[t].pc = "load"
     /\ drain'[t].id = drain[t].id /\ drain'[t].sent = drain[t].sent
  \/ /\ drain[t].pc = "load" /\ drain'[t].pc = "send"
     /\ drain'[t].id = drain[t].id /\ drain'[t].sent = drain[t].sent
  \/ /\ Accept(t) /\ drain[t].pc = "send" /\ drain'[t].id = drain[t].id
     /\ drain'[t].sent = drain[t].sent + 1
     /\ drain'[t].pc = IF drain'[t].sent = Envelopes(mail[drain[t].id].kind)
                         THEN "sent" ELSE "send"

LEMMA SpawnMove ==
  ASSUME NEW w \in Task, NEW id, NEW force, NEW pass, TypeOK,
         Spawn(w, id, force, pass), id < next', NEW t \in Task
  PROVE  TaskMove(t)
<1>1. CASE t = w
  BY <1>1 DEF Spawn, Attempt, TypeOK, TaskMove
<1>2. CASE t # w
  BY <1>2 DEF Spawn, TypeOK, TaskMove
<1>3. QED BY <1>1, <1>2

LEMMA TasksMove ==
  ASSUME Typed, [Next]_vars, NEW t \in Task
  PROVE  TaskMove(t)
<1>0. TypeOK /\ Worker \subseteq Task /\ Sweeper \in Task /\ next \in Nat /\ Ids \subseteq Nat
  BY IdsInNat DEF Typed, Task, TypeOK
<1>1. CASE UserStep
  <2>1. ASSUME NEW w \in Worker, NEW a \in Account, NEW k \in Kinds, NEW p \in Passes,
               SendNew(w, a, k, p)
        PROVE  TaskMove(t)
    <3>1. next < next'
      BY <1>0, <2>1 DEF SendNew, Insert
    <3>2. QED BY <1>0, <2>1, <3>1, SpawnMove DEF SendNew
  <2>2. ASSUME NEW id \in Ids, NEW w \in Worker, Retry(id, w) PROVE TaskMove(t)
    <3>1. id < next'
      BY <1>0, <2>2 DEF Retry, Typed, Issued, rowVars
    <3>2. QED BY <1>0, <2>2, <3>1, SpawnMove DEF Retry
  <2>3. ASSUME NEW id \in Ids, NEW w \in Worker, NEW p \in Passes, RetryWithPassphrase(id, w, p)
        PROVE  TaskMove(t)
    <3>1. id < next'
      BY <1>0, <2>3 DEF RetryWithPassphrase, Typed, Issued, rowVars
    <3>2. QED BY <1>0, <2>3, <3>1, SpawnMove DEF RetryWithPassphrase
  <2>4. ASSUME NEW id \in Ids, NEW w \in Worker, NEW p \in Passes, ReplaceInsert(id, w, p)
        PROVE  TaskMove(t)
    <3>1. CASE UNCHANGED drain
      BY <3>1 DEF TaskMove
    <3>2. CASE Insert(mail[id]) /\ Spawn(w, next, FALSE, p)
      <4>1. next < next'
        BY <1>0, <3>2 DEF Insert
      <4>2. QED BY <1>0, <3>2, <4>1, SpawnMove
    <3>3. QED BY <2>4, <3>1, <3>2 DEF ReplaceInsert
  <2>5. ASSUME UNCHANGED drain PROVE TaskMove(t)
    BY <2>5 DEF TaskMove
  <2>6. QED
    BY <1>1, <2>1, <2>2, <2>3, <2>4, <2>5
    DEF UserStep, OpenEdit, CancelEdit, ReplaceRemove, EditEntry, DeleteEntry, RemoveAccount
<1>2. ASSUME NEW u \in Task, DrainStep(u) PROVE TaskMove(t)
  <2>1. CASE t # u
    BY <1>0, <1>2, <2>1
    DEF DrainStep, Claim, Load, Refuse, Accept, Reject, LoseReply, Finish, Goto, Return, Fail,
        TypeOK, TaskMove
  <2>2. CASE t = u /\ (Return(u) \/ Fail(u))
    BY <1>0, <2>2 DEF Return, Fail, TypeOK, TaskMove
  <2>3. CASE t = u /\ At(u, "claim") /\ Goto(u, "load")
    BY <1>0, <2>3 DEF Goto, At, TypeOK, Drain, TaskMove
  <2>4. CASE t = u /\ At(u, "load") /\ Goto(u, "send")
    BY <1>0, <2>4 DEF Goto, At, TypeOK, Drain, TaskMove
  <2>5. CASE t = u /\ Accept(u)
    BY <1>0, <2>5 DEF Accept, Submitted, At, TypeOK, Drain, TaskMove
  <2>6. QED
    BY <1>2, <2>1, <2>2, <2>3, <2>4, <2>5
    DEF DrainStep, Claim, Load, Refuse, Reject, LoseReply, Finish
<1>3. CASE SweepNext
  <2>1. PICK id \in sweep : Spawn(Sweeper, id, FALSE, "none")
    BY <1>3 DEF SweepNext
  <2>2. id < next'
    BY <1>3, <2>1 DEF SweepNext, Typed, Issued, rowVars
  <2>3. QED BY <1>0, <2>1, <2>2, SpawnMove
<1>4. CASE Tick
  BY <1>0, <1>4 DEF Tick, Busy, TypeOK, Drain, TaskMove
<1>5. CASE SweepStart \/ Crash \/ UNCHANGED vars
  BY <1>5 DEF SweepStart, Crash, vars, TaskMove
<1>6. QED BY <1>1, <1>2, <1>3, <1>4, <1>5 DEF Next

\* What a step may do to one row: nothing, take it out of the table, or put it in.
RowMove(id) ==
  \/ fate'[id] = fate[id] /\ (next' = next \/ (next' = next + 1 /\ id # next))
  \/ fate[id] \in {"queued", "replaced"} /\ fate'[id] \in Gone /\ next' = next
  \/ id = next /\ next' = next + 1 /\ fate'[id] = "queued"

LEMMA RemoveMove ==
  ASSUME NEW id \in Ids, NEW how \in Gone, TypeOK, Remove(id, how), next' = next, NEW i \in Ids
  PROVE  RowMove(i)
<1>1. CASE i = id
  BY <1>1 DEF Remove, TypeOK, RowMove
<1>2. CASE i # id
  BY <1>2 DEF Remove, TypeOK, RowMove
<1>3. QED BY <1>1, <1>2

LEMMA RowsMove ==
  ASSUME Typed, [Next]_vars, NEW i \in Ids
  PROVE  RowMove(i)
<1>0. TypeOK
  BY DEF Typed
<1>1. ASSUME UNCHANGED <<next, fate>> PROVE RowMove(i)
  BY <1>1 DEF RowMove
<1>2. ASSUME NEW m, Insert(m) PROVE RowMove(i)
  BY <1>0, <1>2 DEF Insert, TypeOK, RowMove
<1>3. CASE UserStep
  <2>1. ASSUME NEW id \in Ids, CancelEdit(id) PROVE RowMove(i)
    BY <1>0, <2>1 DEF CancelEdit, TypeOK, RowMove, Gone, rowVars
  <2>2. ASSUME NEW id \in Ids, ReplaceRemove(id) \/ EditEntry(id) \/ DeleteEntry(id)
        PROVE  RowMove(i)
    BY <1>0, <1>1, <2>2, RemoveMove DEF ReplaceRemove, EditEntry, DeleteEntry, Gone, rowVars
  <2>3. QED
    BY <1>1, <1>2, <1>3, <2>1, <2>2
    DEF UserStep, SendNew, OpenEdit, ReplaceInsert, Retry, RetryWithPassphrase,
        RemoveAccount, rowVars
<1>4. ASSUME NEW t \in Task, DrainStep(t) PROVE RowMove(i)
  <2>1. drain[t].id \in Ids
    BY <1>0 DEF TypeOK, Drain
  <2>2. CASE Load(t)
    BY <1>0, <1>1, <2>1, <2>2, RemoveMove DEF Load, Gone, rowVars
  <2>3. CASE Finish(t)
    BY <1>0, <1>1, <2>1, <2>3, RemoveMove DEF Finish, Gone, rowVars
  <2>4. QED
    BY <1>1, <1>4, <2>2, <2>3 DEF DrainStep, Claim, Refuse, Accept, Reject, LoseReply, rowVars
<1>5. CASE SweepStart \/ SweepNext \/ Tick \/ Crash \/ UNCHANGED vars
  BY <1>1, <1>5 DEF SweepStart, SweepNext, Tick, Crash, vars, rowVars
<1>6. QED BY <1>3, <1>4, <1>5 DEF Next

\* The sweep only ever names rows it found in the table.
LEMMA SweepSubset ==
  ASSUME [Next]_vars, NEW id \in sweep'
  PROVE  id \in sweep \/ (id \in Queued /\ next' = next)
<1>1. CASE SweepStart
  BY <1>1 DEF SweepStart, rowVars
<1>2. CASE SweepNext
  BY <1>2 DEF SweepNext
<1>3. CASE Crash
  BY <1>3 DEF Crash
<1>4. CASE UserStep
  BY <1>4 DEF UserStep, SendNew, OpenEdit, CancelEdit, ReplaceRemove, ReplaceInsert,
     EditEntry, DeleteEntry, Retry, RetryWithPassphrase, RemoveAccount
<1>5. CASE \E t \in Task : DrainStep(t)
  BY <1>5 DEF DrainStep, Claim, Load, Refuse, Accept, Reject, LoseReply, Finish
<1>6. CASE Tick \/ UNCHANGED vars
  BY <1>6 DEF Tick, vars
<1>7. QED BY <1>1, <1>2, <1>3, <1>4, <1>5, <1>6 DEF Next

LEMMA TypedInit == Init => Typed
<1> SUFFICES ASSUME Init PROVE Typed
  OBVIOUS
<1>1. Issued
  BY DEF Init, Issued, Idle, Ids
<1>2. Progress
  BY DEF Init, Progress, Idle
<1>3. QED BY <1>1, <1>2, InitTypeOK DEF Typed

LEMMA TypedNext == Typed /\ [Next]_vars => Typed'
<1> SUFFICES ASSUME Typed, [Next]_vars PROVE Typed'
  OBVIOUS
<1>0. TypeOK /\ Issued /\ Progress
  BY DEF Typed
<1>1. TypeOK'
  BY <1>0, UserTypeOK, DrainTypeOK, RestTypeOK DEF Next, TypeOK, vars
<1>2. next \in Nat /\ next' \in Nat /\ Ids \subseteq Nat
  BY <1>0, <1>1, IdsInNat DEF TypeOK
<1>3. next <= next'
  <2>1. CASE next \in Ids
    BY <1>2, <2>1, RowsMove DEF RowMove
  <2>2. CASE next \notin Ids
    <3>1. ASSUME NEW i \in Ids PROVE next' = next \/ next' = next + 1
      BY <3>1, <2>2, RowsMove DEF RowMove
    <3>2. QED BY <1>2, <3>1, IdsInNat
  <2>3. QED BY <2>1, <2>2
<1>4. Issued'
  <2>1. ASSUME NEW t \in Task, drain'[t].pc # "idle" PROVE drain'[t].id < next'
    <3>1. TaskMove(t)
      BY TasksMove
    <3>2. drain[t].id \in Nat /\ (drain[t].pc # "idle" => drain[t].id < next)
      BY <1>0, <1>2 DEF Issued, TypeOK, Drain
    <3>3. QED BY <1>2, <1>3, <2>1, <3>1, <3>2 DEF TaskMove, Idle
  <2>2. ASSUME NEW id \in sweep' PROVE id < next'
    <3>1. id \in Ids
      BY <1>1, <2>2 DEF TypeOK
    <3>2. CASE id \in sweep
      <4>1. id < next /\ id \in Nat
        BY <1>0, <1>2, <3>1, <3>2 DEF Issued
      <4>2. QED BY <1>2, <1>3, <4>1
    <3>3. CASE id \in Queued /\ next' = next
      BY <1>0, <1>2, <3>1, <3>3 DEF Issued, Queued
    <3>4. QED BY <1>0, <2>2, <3>2, <3>3, SweepSubset
  <2>3. ASSUME NEW id \in Ids PROVE fate'[id] = "unused" <=> next' <= id
    <3>1. RowMove(id) /\ id \in Nat /\ (fate[id] = "unused" <=> next <= id)
      BY <1>0, <1>2, <2>3, RowsMove DEF Issued
    <3>2. CASE fate'[id] = fate[id]
      BY <1>2, <3>1, <3>2 DEF RowMove, Gone
    <3>3. CASE fate'[id] # fate[id]
      BY <1>2, <3>1, <3>3 DEF RowMove, Gone
    <3>4. QED BY <3>2, <3>3
  <2>4. QED BY <2>1, <2>2, <2>3 DEF Issued
<1>5. Progress'
  <2>1. ASSUME NEW t \in Task
        PROVE  LET n == Envelopes(mail'[drain'[t].id].kind) IN
               /\ drain'[t].pc = "send" => drain'[t].sent < n
               /\ drain'[t].pc = "sent" => drain'[t].sent = n
               /\ drain'[t].pc \in {"idle", "claim", "load"} => drain'[t].sent = 0
    <3>1. TaskMove(t) /\ drain'[t] \in Drain /\ drain[t] \in Drain
      BY <1>0, <1>1, TasksMove DEF TypeOK
    <3>2. drain[t].pc # "idle" => mail'[drain[t].id] = mail[drain[t].id]
      BY <1>0, <3>1, MailFixed DEF Issued, Drain
    <3>3. mail[drain[t].id] \in Mail
      BY <1>0, <3>1 DEF TypeOK, Drain
    <3>4. CASE drain'[t] = drain[t] \/ drain'[t] = Idle
      BY <1>0, <3>1, <3>2, <3>4 DEF Progress, Idle, Drain, PC
    <3>5. QED
      BY <1>0, <3>1, <3>2, <3>3, <3>4, EnvelopesBound DEF TaskMove, Progress, Drain, PC
  <2>2. QED BY <2>1 DEF Progress
<1>6. QED BY <1>1, <1>4, <1>5 DEF Typed

\* Every reachable state of the outbox is well typed, whatever the environment does:
\* the counters stay in range and no attempt submits more envelopes than its mail has.
THEOREM TypeCorrect == Spec => []TypeOK
<1>1. Typed => TypeOK
  BY DEF Typed
<1>2. QED BY <1>1, TypedInit, TypedNext, PTL DEF Spec

-----------------------------------------------------------------------------
(* The claim.  Held says what it is worth: the row's claim is never older    *)
(* than an attempt that took it and still runs, so that a drain without      *)
(* force finds the row claimed until that attempt has outlived the TTL.      *)

Held ==
  \A t \in Task :
    Busy(t) /\ fate[drain[t].id] = "queued" => age[drain[t].id] <= drain[t].age

Lease == Held /\ ClaimExclusive

\* A claim that was granted.
Granted(t) ==
  /\ drain[t].pc = "claim"
  /\ CanClaim(drain[t].id, drain[t].force)
  /\ age' = [age EXCEPT ![drain[t].id] = 0]
  /\ drain' = [drain EXCEPT ![t].pc = "load"]
  /\ fate' = fate
  /\ delivered' = delivered
  /\ Suspect(t, Overlaps(t))

\* Any other step but Tick starts no attempt and ages none.
KeepsTask(t) ==
  drain'[t].pc \in {"load", "send", "sent"} =>
    /\ Busy(t) /\ drain'[t].id = drain[t].id /\ drain'[t].age = drain[t].age
    /\ drain'[t].force = drain[t].force

LEMMA SpawnKeeps ==
  ASSUME NEW w \in Task, NEW id, NEW force, NEW pass, TypeOK, Spawn(w, id, force, pass),
         NEW t \in Task
  PROVE  KeepsTask(t)
<1>1. CASE t = w
  BY <1>1 DEF Spawn, Attempt, TypeOK, KeepsTask
<1>2. CASE t # w
  BY <1>2 DEF Spawn, TypeOK, KeepsTask, Busy
<1>3. QED BY <1>1, <1>2

LEMMA ReturnKeeps ==
  ASSUME NEW u \in Task, TypeOK, Return(u), NEW t \in Task
  PROVE  KeepsTask(t)
<1>1. CASE t = u
  BY <1>1 DEF Return, Idle, TypeOK, KeepsTask
<1>2. CASE t # u
  BY <1>2 DEF Return, TypeOK, KeepsTask, Busy
<1>3. QED BY <1>1, <1>2

LEMMA TasksKept ==
  ASSUME TypeOK, [Next]_vars, ~ Tick, NEW t \in Task
  PROVE  KeepsTask(t) \/ Granted(t)
<1>0. Worker \subseteq Task /\ Sweeper \in Task
  BY DEF Task
<1>1. CASE UNCHANGED drain
  BY <1>1 DEF KeepsTask, Busy
<1>2. ASSUME NEW w \in Task, NEW id, NEW force, NEW pass, Spawn(w, id, force, pass)
      PROVE  KeepsTask(t)
  BY <1>2, SpawnKeeps
<1>3. CASE UserStep
  BY <1>0, <1>1, <1>2, <1>3
  DEF UserStep, SendNew, OpenEdit, CancelEdit, ReplaceRemove, ReplaceInsert, EditEntry,
      DeleteEntry, Retry, RetryWithPassphrase, RemoveAccount
<1>4. ASSUME NEW u \in Task, DrainStep(u)
      PROVE  KeepsTask(t) \/ Granted(t)
  <2>1. CASE Return(u) \/ Fail(u)
    BY <2>1, ReturnKeeps DEF Fail
  <2>2. CASE Claim(u) /\ ~ Return(u)
    <3>1. Granted(u)
      BY <2>2 DEF Claim, At, Goto, Granted
    <3>2. CASE t # u
      BY <3>1, <3>2 DEF Granted, TypeOK, KeepsTask, Busy
    <3>4. QED BY <3>1, <3>2
  <2>3. CASE At(u, "load") /\ Goto(u, "send")
    BY <2>3 DEF At, Goto, TypeOK, Drain, KeepsTask, Busy
  <2>4. CASE Accept(u)
    <3>1. CASE t = u
      BY <2>4, <3>1 DEF Accept, At, Submitted, TypeOK, KeepsTask, Busy
    <3>2. CASE t # u
      BY <2>4, <3>2 DEF Accept, TypeOK, KeepsTask, Busy
    <3>3. QED BY <3>1, <3>2
  <2>5. QED
    BY <1>4, <2>1, <2>2, <2>3, <2>4 DEF DrainStep, Load, Refuse, Reject, LoseReply, Finish
<1>5. CASE SweepNext
  BY <1>0, <1>2, <1>5 DEF SweepNext
<1>6. CASE Crash
  BY <1>6 DEF Crash, Idle, KeepsTask
<1>7. CASE SweepStart \/ UNCHANGED vars
  BY <1>1, <1>7 DEF SweepStart, vars
<1>8. QED BY <1>3, <1>4, <1>5, <1>6, <1>7 DEF Next

\* Between ticks a claim is left alone or renewed.
LEMMA ClaimsKept ==
  ASSUME TypeOK, [Next]_vars, ~ Tick, NEW id \in Ids
  PROVE  age'[id] = age[id] \/ age'[id] = 0
<1>1. CASE UNCHANGED age
  BY <1>1
<1>2. ASSUME NEW u \in Task, DrainStep(u) PROVE age'[id] = age[id] \/ age'[id] = 0
  <2>1. CASE RecordFailure(drain[u].id)
    BY <2>1 DEF RecordFailure, TypeOK
  <2>2. CASE Claim(u)
    BY <2>2 DEF Claim, TypeOK
  <2>3. QED
    BY <1>1, <1>2, <2>1, <2>2
    DEF DrainStep, Load, Refuse, Accept, Reject, LoseReply, Finish, Fail
<1>3. CASE UserStep
  BY <1>1, <1>3
  DEF UserStep, SendNew, OpenEdit, CancelEdit, ReplaceRemove, ReplaceInsert, EditEntry,
      DeleteEntry, Retry, RetryWithPassphrase, RemoveAccount
<1>4. CASE SweepStart \/ SweepNext \/ Crash \/ UNCHANGED vars
  BY <1>1, <1>4 DEF SweepStart, SweepNext, Crash, vars
<1>5. QED BY <1>2, <1>3, <1>4 DEF Next

\* A claim that is granted beside another attempt was forced, or that one has outlived
\* its own.
LEMMA GrantedBeside ==
  ASSUME TypeOK, Held, NEW t \in Task, Granted(t),
         NEW u \in Task, u # t, Busy(u), drain[u].id = drain[t].id
  PROVE  Overlaps(t)
<1>1. /\ drain[u].id \in Ids /\ drain[u].age \in Nat /\ age[drain[u].id] \in Nat
      /\ TTL \in Nat
  <2>1. drain[u].id \in Ids /\ drain[u].age \in 0..MaxSend
    BY DEF TypeOK, Drain
  <2>2. age[drain[u].id] \in 0..Free
    BY <2>1 DEF TypeOK
  <2> QED BY <2>1, <2>2, IdsInNat
<1>2. fate[drain[u].id] = "queued" /\ (drain[t].force \/ age[drain[u].id] > TTL)
  BY DEF Granted, CanClaim
<1>3. age[drain[u].id] <= drain[u].age
  BY <1>2 DEF Held
<1>4. drain[t].force \/ drain[u].age > TTL
  BY <1>1, <1>2, <1>3
<1> QED BY <1>4 DEF Overlaps

LEMMA LeaseInit == Init => Lease
<1> SUFFICES ASSUME Init PROVE Lease
  OBVIOUS
<1>1. \A t \in Task : ~ Busy(t)
  BY DEF Init, Idle, Busy
<1>2. QED BY <1>1 DEF Lease, Held, ClaimExclusive

LEMMA LeaseNext ==
  ASSUME Typed, Lease, [Next]_vars
  PROVE  Lease'
<1>0. TypeOK /\ Held /\ ClaimExclusive /\ TTL \in Nat
  BY DEF Typed, Lease
<1>1. ASSUME NEW t \in Task
      PROVE  /\ drain[t] \in Drain /\ drain[t].id \in Ids
             /\ drain[t].age \in Nat
             /\ age[drain[t].id] \in Nat
  <2>1. drain[t] \in Drain
    BY <1>0, <1>1 DEF TypeOK
  <2>2. drain[t].id \in Ids /\ drain[t].age \in 0..MaxSend
    BY <2>1 DEF Drain
  <2>3. age[drain[t].id] \in 0..Free
    BY <1>0, <2>2 DEF TypeOK
  <2>4. QED BY <2>1, <2>2, <2>3, IdsInNat
<1>2. ASSUME NEW t \in Task, Busy(t), fate'[drain[t].id] = "queued"
      PROVE  fate[drain[t].id] = "queued"
  <2>1. drain[t].id < next /\ drain[t].id \in Nat
    BY <1>1, <1>2, IdsInNat DEF Typed, Issued, Busy
  <2>2. RowMove(drain[t].id)
    BY <1>1, RowsMove
  <2>3. next \in Nat
    BY <1>0 DEF TypeOK
  <2>4. QED BY <1>2, <2>1, <2>2, <2>3 DEF RowMove, Gone
<1>3. CASE Tick
  <2>1. ASSUME NEW t \in Task
        PROVE  /\ drain'[t].pc = drain[t].pc /\ drain'[t].id = drain[t].id
               /\ drain'[t].force = drain[t].force
               /\ Busy(t) => drain'[t].age = drain[t].age + 1
    BY <1>1, <1>3, <2>1 DEF Tick, Drain
  <2>2. ClaimExclusive'
    <3>1. SUFFICES ASSUME NEW t \in Task, NEW u \in Task, t # u, Busy(t)', Busy(u)',
                          drain'[t].id = drain'[u].id
                   PROVE  \E v \in {t, u} : drain'[v].force \/ drain'[v].age > TTL
      BY DEF ClaimExclusive
    <3>2. PICK v \in {t, u} : drain[v].force \/ drain[v].age > TTL
      BY <1>0, <2>1, <3>1 DEF ClaimExclusive, Busy
    <3>3. drain'[v].force = drain[v].force /\ drain'[v].age = drain[v].age + 1
      BY <2>1, <3>1 DEF Busy
    <3> QED BY <1>0, <1>1, <3>2, <3>3
  <2>3. ASSUME NEW t \in Task, Busy(t), fate[drain[t].id] = "queued"
        PROVE  age'[drain[t].id] <= drain'[t].age
    <3>1. age[drain[t].id] <= drain[t].age
      BY <1>0, <2>3 DEF Held
    <3>2. age'[drain[t].id] <= age[drain[t].id] + 1
      BY <1>1, <1>3, IdsInNat DEF Tick
    <3>3. age'[drain[t].id] \in Nat
      BY <1>1, <1>3, IdsInNat DEF Tick
    <3>4. QED BY <1>1, <2>1, <2>3, <3>1, <3>2, <3>3
  <2>4. Held'
    BY <1>3, <2>1, <2>3 DEF Held, Busy, Tick
  <2>5. QED BY <2>2, <2>4 DEF Lease
<1>4. CASE ~ Tick
  <2>3. ASSUME NEW t \in Task, Granted(t)
        PROVE  /\ drain'[t].id = drain[t].id /\ drain'[t].force = drain[t].force
               /\ age'[drain[t].id] = 0 /\ drain'[t].age = drain[t].age
               /\ \A u \in Task \ {t} : drain'[u] = drain[u]
    BY <1>0, <1>1, <2>3 DEF Granted, TypeOK
  \* The new claim, beside any attempt that runs on.
  <2>4. ASSUME NEW t \in Task, Granted(t), NEW u \in Task, u # t, Busy(u)',
               drain'[u].id = drain'[t].id
        PROVE  \E v \in {t, u} : drain'[v].force \/ drain'[v].age > TTL
    <3>1. drain'[u] = drain[u] /\ Busy(u) /\ drain[u].id = drain[t].id
      BY <2>3, <2>4 DEF Busy
    <3>2. age[drain[u].id] <= drain[u].age
      BY <1>0, <2>4, <3>1 DEF Held, Granted, CanClaim
    <3>3. drain[t].force \/ age[drain[u].id] > TTL
      BY <2>4, <3>1 DEF Granted, CanClaim
    <3>4. drain'[t].force \/ drain'[u].age > TTL
      BY <1>0, <1>1, <2>3, <2>4, <3>1, <3>2, <3>3
    <3> QED BY <3>4
  <2>5. ClaimExclusive'
    <3>1. SUFFICES ASSUME NEW t \in Task, NEW u \in Task, t # u, Busy(t)', Busy(u)',
                          drain'[t].id = drain'[u].id
                   PROVE  \E v \in {t, u} : drain'[v].force \/ drain'[v].age > TTL
      BY DEF ClaimExclusive
    <3>2. CASE KeepsTask(t) /\ KeepsTask(u)
      <4>1. PICK v \in {t, u} : drain[v].force \/ drain[v].age > TTL
        BY <1>0, <3>1, <3>2 DEF KeepsTask, ClaimExclusive, Busy
      <4> QED BY <3>1, <3>2, <4>1 DEF KeepsTask, Busy
    <3>3. CASE Granted(t)
      BY <2>4, <3>1, <3>3
    <3>4. CASE Granted(u)
      BY <2>4, <3>1, <3>4
    <3>5. QED BY <1>0, <1>4, <3>2, <3>3, <3>4, TasksKept
  <2>6. Held'
    <3>1. SUFFICES ASSUME NEW t \in Task, Busy(t)', fate'[drain'[t].id] = "queued"
                   PROVE  age'[drain'[t].id] <= drain'[t].age
      BY DEF Held
    <3>2. CASE Granted(t)
      BY <1>1, <2>3, <3>2
    <3>3. CASE KeepsTask(t)
      <4>1. Busy(t) /\ drain'[t].id = drain[t].id /\ drain'[t].age = drain[t].age
        BY <3>1, <3>3 DEF KeepsTask, Busy
      <4>2. age[drain[t].id] <= drain[t].age
        BY <1>0, <1>2, <3>1, <4>1 DEF Held
      <4>3. age'[drain[t].id] = age[drain[t].id] \/ age'[drain[t].id] = 0
        BY <1>0, <1>1, <1>4, ClaimsKept
      <4>4. QED BY <1>1, <4>1, <4>2, <4>3
    <3>4. QED BY <1>0, <1>4, <3>2, <3>3, TasksKept
  <2>7. QED BY <2>5, <2>6 DEF Lease
<1>5. QED BY <1>3, <1>4

\* Two drains work on one row only when one of them forced its claim or outlived it, for
\* any number of accounts, rows and drains, however long an attempt takes and whatever
\* crashes or fails.
THEOREM ClaimIsExclusive == Spec => []ClaimExclusive
<1>1. Typed /\ Lease /\ [Next]_vars => (Typed /\ Lease)'
  BY TypedNext, LeaseNext
<1>2. Lease => ClaimExclusive
  BY DEF Lease
<1>3. QED BY <1>1, <1>2, TypedInit, LeaseInit, PTL DEF Spec

-----------------------------------------------------------------------------
(* No mail is submitted twice unless it is in doubt.  The claim alone does   *)
(* not give that: a second attempt, made later, must find a row of which the *)
(* server has nothing.  Untouched says so; an attempt that ends or dies with *)
(* a part submitted leaves its row in doubt.  Alone says that attempts which *)
(* overlap do so on rows in doubt.                                           *)

AllBut(t) ==
  \A e \in 1..MaxEnvelopes : e > drain[t].sent => delivered[drain[t].id][e] = 0
Unsent == \A t \in Task : Busy(t) /\ drain[t].id \notin doubt => AllBut(t)
Untouched ==
  \A id \in Ids \ doubt :
    /\ fate[id] \in {"queued", "unused"}
    /\ \A t \in Task : Busy(t) => drain[t].id # id
    => \A e \in 1..MaxEnvelopes : delivered[id][e] = 0
Alone ==
  \A t, u \in Task :
    t # u /\ Busy(t) /\ Busy(u) /\ drain[t].id = drain[u].id => drain[t].id \in doubt

Once == Unsent /\ Untouched /\ Alone /\ AtMostOnce

\* Doubts are never dispelled.
LEMMA DoubtStays ==
  ASSUME [Next]_vars
  PROVE  doubt \subseteq doubt'
<1>1. CASE UserStep
  BY <1>1 DEF UserStep, SendNew, OpenEdit, CancelEdit, ReplaceRemove, ReplaceInsert, EditEntry,
     DeleteEntry, Retry, RetryWithPassphrase, RemoveAccount
<1>2. CASE \E t \in Task : DrainStep(t)
  BY <1>2 DEF DrainStep, Claim, Load, Refuse, Accept, Reject, LoseReply, Finish, Suspect
<1>3. CASE SweepStart \/ SweepNext \/ Tick \/ Crash \/ UNCHANGED vars
  BY <1>3 DEF SweepStart, SweepNext, Tick, Crash, vars
<1> QED BY <1>1, <1>2, <1>3 DEF Next

SameTask(t) ==
  /\ drain'[t].pc \in {"load", "send", "sent"} <=> Busy(t)
  /\ Busy(t) => drain'[t].id = drain[t].id /\ drain'[t].sent = drain[t].sent

\* What a step does to the deliveries and to who is busy.
Quiet == delivered' = delivered /\ \A t \in Task : SameTask(t)
Leave(u) ==
  /\ Busy(u) /\ Return(u) /\ delivered' = delivered
  /\ drain[u].sent = 0 \/ fate'[drain[u].id] \in Gone \/ drain[u].id \in doubt'
Lose(u) ==
  /\ Busy(u) /\ Return(u) /\ Deliver(drain[u].id, drain[u].sent + 1)
  /\ drain[u].id \in doubt'

LEMMA SpawnQuiet ==
  ASSUME NEW w \in Task, NEW id, NEW force, NEW pass, TypeOK, Spawn(w, id, force, pass),
         delivered' = delivered
  PROVE  Quiet
<1> SUFFICES ASSUME NEW t \in Task PROVE SameTask(t)
  BY DEF Quiet
<1>1. CASE t = w
  BY <1>1 DEF Spawn, Attempt, TypeOK, SameTask, Busy
<1>2. CASE t # w
  BY <1>2 DEF Spawn, TypeOK, SameTask, Busy
<1>3. QED BY <1>1, <1>2

LEMMA ReturnQuiet ==
  ASSUME NEW u \in Task, TypeOK, Return(u), ~ Busy(u), delivered' = delivered
  PROVE  Quiet
<1> SUFFICES ASSUME NEW t \in Task PROVE SameTask(t)
  BY DEF Quiet
<1>1. CASE t = u
  BY <1>1 DEF Return, Idle, TypeOK, SameTask, Busy
<1>2. CASE t # u
  BY <1>2 DEF Return, TypeOK, SameTask, Busy
<1>3. QED BY <1>1, <1>2

LEMMA DrainMoves ==
  ASSUME Typed, NEW u \in Task, DrainStep(u)
  PROVE  Quiet \/ Granted(u) \/ Accept(u) \/ Leave(u) \/ Lose(u)
<1>0. TypeOK /\ Progress /\ drain[u] \in Drain /\ drain[u].id \in Ids /\ drain[u].sent \in Nat
  BY DEF Typed, TypeOK, Drain
<1>1. CASE Claim(u)
  <2>1. CASE Return(u)
    BY <1>0, <1>1, <2>1, ReturnQuiet DEF Claim, At, Busy
  <2>2. CASE ~ Return(u)
    BY <1>1, <2>2 DEF Claim, At, Goto, Granted
  <2>3. QED BY <2>1, <2>2
<1>2. CASE Load(u)
  <2>1. Busy(u) /\ drain[u].sent = 0 /\ delivered' = delivered
    BY <1>0, <1>2 DEF Load, At, Busy, Progress
  <2>2. CASE Return(u)
    BY <2>1, <2>2 DEF Leave
  <2>3. CASE Goto(u, "send")
    <3>1. ASSUME NEW t \in Task PROVE SameTask(t)
      BY <1>0, <2>1, <2>3 DEF Goto, SameTask, Busy, TypeOK, Drain
    <3>2. QED BY <2>1, <3>1 DEF Quiet
  <2>4. QED BY <1>2, <2>2, <2>3 DEF Load, Fail
<1>3. CASE Refuse(u) \/ Reject(u)
  BY <1>0, <1>3 DEF Refuse, Reject, Fail, At, Busy, Suspect, Leave
<1>4. CASE LoseReply(u)
  BY <1>4 DEF LoseReply, Fail, At, Busy, Suspect, Lose
<1>5. CASE Finish(u)
  <2>1. Busy(u) /\ Return(u) /\ delivered' = delivered
    BY <1>5 DEF Finish, At, Busy
  <2>2. CASE Suspect(u, TRUE)
    BY <2>1, <2>2 DEF Suspect, Leave
  <2>3. CASE Remove(drain[u].id, "sent")
    <3>1. drain[u].id < next /\ drain[u].id \in Nat /\ next \in Nat
      <4>1. drain[u].id < next
        BY <2>1 DEF Typed, Issued, Busy
      <4>2. next \in Nat
        BY <1>0 DEF TypeOK
      <4>3. drain[u].id \in Nat
        BY <1>0, IdsInNat
      <4> QED BY <4>1, <4>2, <4>3
    <3>2. fate[drain[u].id] \in Fate /\ fate[drain[u].id] # "unused"
      BY <1>0, <3>1 DEF Typed, Issued, TypeOK
    <3>3. fate'[drain[u].id] \in Gone
      BY <1>0, <2>3, <3>2 DEF Remove, TypeOK, Fate, Gone
    <3> QED BY <2>1, <3>3 DEF Leave
  <2> QED BY <1>5, <2>2, <2>3 DEF Finish
<1>7. QED BY <1>1, <1>2, <1>3, <1>4, <1>5 DEF DrainStep

LEMMA OnceMoves ==
  ASSUME Typed, [Next]_vars
  PROVE  Quiet \/ Crash \/ \E u \in Task : Granted(u) \/ Accept(u) \/ Leave(u) \/ Lose(u)
<1>0. TypeOK /\ Worker \subseteq Task /\ Sweeper \in Task
  BY DEF Typed, Task
<1>1. CASE UNCHANGED <<drain, delivered>>
  BY <1>1 DEF Quiet, SameTask, Busy
<1>2. ASSUME NEW w \in Task, NEW id, NEW force, NEW pass, Spawn(w, id, force, pass),
             delivered' = delivered
      PROVE  Quiet
  BY <1>0, <1>2, SpawnQuiet
<1>3. CASE UserStep
  BY <1>0, <1>1, <1>2, <1>3
  DEF UserStep, SendNew, OpenEdit, CancelEdit, ReplaceRemove, ReplaceInsert, EditEntry,
      DeleteEntry, Retry, RetryWithPassphrase, RemoveAccount
<1>4. CASE \E u \in Task : DrainStep(u)
  BY <1>4, DrainMoves
<1>5. CASE SweepNext
  BY <1>0, <1>2, <1>5 DEF SweepNext
<1>6. CASE Tick
  <2>1. ASSUME NEW t \in Task PROVE SameTask(t)
    <3>1. drain[t] \in Drain
      BY <1>0 DEF TypeOK
    <3>2. QED BY <1>6, <3>1 DEF Tick, SameTask, Busy, Drain
  <2>2. QED BY <1>6, <2>1 DEF Tick, Quiet
<1>7. CASE SweepStart \/ UNCHANGED vars
  BY <1>1, <1>7 DEF SweepStart, vars
<1>8. QED BY <1>3, <1>4, <1>5, <1>6, <1>7 DEF Next

\* What a delivery changes: one envelope of one row, and that is counted once if the
\* server had nothing of it.
LEMMA DeliveredOne ==
  ASSUME TypeOK, NEW r \in Ids, NEW k, Deliver(r, k),
         NEW id \in Ids, NEW e \in 1..MaxEnvelopes
  PROVE  /\ id # r => delivered'[id][e] = delivered[id][e]
         /\ e # k => delivered'[id][e] = delivered[id][e]
         /\ delivered[r][k] = 0 /\ k \in 1..MaxEnvelopes => delivered'[r][k] = 1
<1> DEFINE n == IF delivered[r][k] = 0 THEN 1 ELSE 2
<1>1. delivered \in [Ids -> [1..MaxEnvelopes -> 0..2]]
  BY DEF TypeOK
<1>2. delivered'[id] = IF id = r THEN [delivered[r] EXCEPT ![k] = n] ELSE delivered[id]
  BY <1>1 DEF Deliver
<1>3. delivered'[r] = [delivered[r] EXCEPT ![k] = n]
  BY <1>1 DEF Deliver
<1>4. delivered[r][k] = 0 => n = 1
  OBVIOUS
<1> HIDE DEF n
<1>5. QED BY <1>1, <1>2, <1>3, <1>4

LEMMA OnceInit == Init => Once
<1> SUFFICES ASSUME Init PROVE Once
  OBVIOUS
<1>1. \A t \in Task : ~ Busy(t)
  BY DEF Init, Idle, Busy
<1>2. \A id \in Ids, e \in 1..MaxEnvelopes : delivered[id][e] = 0
  BY DEF Init
<1>3. QED
  BY <1>1, <1>2 DEF Once, Unsent, Untouched, Alone, AtMostOnce

LEMMA OnceNext ==
  ASSUME Typed, Typed', Lease, Once, [Next]_vars
  PROVE  Once'
<1>0. /\ TypeOK /\ TypeOK' /\ Unsent /\ Untouched /\ Alone /\ AtMostOnce
      /\ Progress /\ Held /\ doubt \subseteq doubt'
  BY DoubtStays DEF Typed, Lease, Once
<1>1. ASSUME NEW t \in Task
      PROVE  drain[t] \in Drain /\ drain[t].id \in Ids /\ drain[t].sent \in Nat
             /\ mail[drain[t].id] \in Mail
  BY <1>0 DEF TypeOK, Drain
<1>3. ASSUME NEW id \in Ids, fate'[id] \in {"queued", "unused"}
      PROVE  fate[id] \in {"queued", "unused"}
  <2>1. RowMove(id)
    BY RowsMove
  <2>2. id = next => fate[id] = "unused"
    BY <1>0 DEF Typed, Issued, TypeOK
  <2>3. QED BY <1>3, <2>1, <2>2 DEF RowMove, Gone
<1>4. CASE Quiet
  <2>1. Unsent' /\ AtMostOnce' /\ Alone'
    BY <1>0, <1>4 DEF Quiet, SameTask, Busy, Unsent, AllBut, AtMostOnce, Alone
  <2>3. Untouched'
    BY <1>0, <1>3, <1>4 DEF Quiet, SameTask, Busy, Untouched
  <2>4. QED BY <2>1, <2>3 DEF Once
<1>5. ASSUME NEW u \in Task, Granted(u) PROVE Once'
  <2>1. /\ drain'[u].id = drain[u].id /\ drain'[u].sent = drain[u].sent /\ drain[u].sent = 0
        /\ drain'[u].pc = "load"
        /\ \A t \in Task \ {u} : drain'[t] = drain[t]
        /\ fate[drain[u].id] = "queued" /\ ~ Busy(u) /\ delivered' = delivered
    BY <1>0, <1>1, <1>5 DEF Granted, CanClaim, TypeOK, Drain, Progress, Busy
  <2>2. \A t \in Task \ {u} : Busy(t) /\ drain[t].id = drain[u].id => drain[u].id \in doubt'
    BY <1>0, <1>5, GrantedBeside DEF Granted, Suspect
  <2>3. drain[u].id \notin doubt' =>
          \A e \in 1..MaxEnvelopes : delivered[drain[u].id][e] = 0
    BY <1>0, <1>1, <2>1, <2>2 DEF Untouched
  <2>4. Unsent'
    BY <1>0, <2>1, <2>3 DEF Unsent, AllBut, Busy
  <2>5. Alone'
    <3>1. SUFFICES ASSUME NEW t \in Task, NEW v \in Task, t # v, Busy(t)', Busy(v)',
                          drain'[t].id = drain'[v].id
                   PROVE  drain'[t].id \in doubt'
      BY DEF Alone
    <3>2. CASE t = u \/ v = u
      BY <2>1, <2>2, <3>1, <3>2 DEF Busy
    <3>3. CASE t # u /\ v # u
      BY <1>0, <2>1, <3>1, <3>3 DEF Alone, Busy
    <3> QED BY <3>2, <3>3
  <2>6. Untouched'
    BY <1>0, <1>3, <2>1 DEF Untouched, Busy
  <2>7. AtMostOnce'
    BY <1>0, <2>1 DEF AtMostOnce
  <2>8. QED BY <2>4, <2>5, <2>6, <2>7 DEF Once
<1>6. ASSUME NEW u \in Task, Leave(u) PROVE Once'
  <2>1. /\ drain'[u].pc = "idle" /\ Busy(u) /\ delivered' = delivered
        /\ \A t \in Task \ {u} : drain'[t] = drain[t]
    BY <1>0, <1>6 DEF Leave, Return, Idle, TypeOK
  <2>2. Unsent' /\ AtMostOnce' /\ Alone'
    BY <1>0, <2>1 DEF Unsent, AllBut, AtMostOnce, Alone, Busy
  <2>4. Untouched'
    <3>1. SUFFICES ASSUME NEW id \in Ids \ doubt', fate'[id] \in {"queued", "unused"},
                          \A t \in Task : Busy(t)' => drain'[t].id # id,
                          NEW e \in 1..MaxEnvelopes
                   PROVE  delivered[id][e] = 0
      BY <2>1 DEF Untouched
    <3>2. CASE id = drain[u].id
      <4>1. drain[u].sent = 0
        BY <1>6, <3>1, <3>2 DEF Leave, Gone
      <4>2. QED BY <1>0, <2>1, <3>1, <3>2, <4>1 DEF Unsent, AllBut
    <3>3. CASE id # drain[u].id
      <4>1. \A t \in Task : Busy(t) => drain[t].id # id
        BY <2>1, <3>1, <3>3 DEF Busy
      <4>2. QED BY <1>0, <1>3, <3>1, <4>1 DEF Untouched
    <3>4. QED BY <3>2, <3>3
  <2>5. QED BY <2>2, <2>4 DEF Once
<1>7. ASSUME NEW u \in Task, Lose(u) PROVE Once'
  <2>1. /\ drain'[u].pc = "idle" /\ Busy(u) /\ drain[u].id \in doubt'
        /\ \A t \in Task \ {u} : drain'[t] = drain[t]
    BY <1>0, <1>7 DEF Lose, Return, Idle, TypeOK
  <2>2. \A id \in Ids \ doubt', e \in 1..MaxEnvelopes : delivered'[id][e] = delivered[id][e]
    BY <1>0, <1>1, <1>7, <2>1, DeliveredOne DEF Lose
  <2>3. Unsent' /\ Alone'
    BY <1>0, <1>1, <2>1, <2>2 DEF Unsent, AllBut, Alone, Busy
  <2>4. AtMostOnce'
    BY <1>0, <2>2 DEF AtMostOnce
  <2>5. Untouched'
    <3>1. SUFFICES ASSUME NEW id \in Ids \ doubt', fate'[id] \in {"queued", "unused"},
                          \A t \in Task : Busy(t)' => drain'[t].id # id,
                          NEW e \in 1..MaxEnvelopes
                   PROVE  delivered'[id][e] = 0
      BY DEF Untouched
    <3>2. \A t \in Task : Busy(t) => drain[t].id # id
      BY <2>1, <3>1 DEF Busy
    <3> QED BY <1>0, <1>3, <2>2, <3>1, <3>2 DEF Untouched
  <2> QED BY <2>3, <2>4, <2>5 DEF Once
<1>8. ASSUME NEW u \in Task, Accept(u) PROVE Once'
  <2> DEFINE k == drain[u].sent + 1
             r == drain[u].id
  <2>1. /\ Busy(u) /\ drain'[u].pc \in {"send", "sent"} /\ drain'[u].id = r
        /\ drain'[u].sent = k
        /\ \A t \in Task \ {u} : drain'[t] = drain[t]
    BY <1>0, <1>8 DEF Accept, At, Submitted, TypeOK, Busy
  <2>2. r \in Ids /\ k \in 1..MaxEnvelopes
    BY <1>0, <1>1, <1>8, EnvelopesBound DEF Accept, At, Progress
  <2>3. r \notin doubt' => delivered[r][k] = 0
    BY <1>0, <1>1, <2>1, <2>2 DEF Unsent, AllBut
  <2>4. \A id \in Ids \ doubt', e \in 1..MaxEnvelopes :
          delivered'[id][e] = IF id = r /\ e = k THEN 1 ELSE delivered[id][e]
    BY <1>0, <1>8, <2>2, <2>3, DeliveredOne DEF Accept
  <2>5. r \notin doubt' => \A t \in Task \ {u} : Busy(t) => drain[t].id # r
    BY <1>0, <2>1 DEF Alone
  <2> HIDE DEF k, r
  <2>6. Unsent'
    <3>1. SUFFICES ASSUME NEW t \in Task, Busy(t)', drain'[t].id \notin doubt',
                          NEW e \in 1..MaxEnvelopes, e > drain'[t].sent
                   PROVE  delivered'[drain'[t].id][e] = 0
      BY DEF Unsent, AllBut
    <3>2. CASE t = u
      <4>1. e > k /\ e # k /\ e > drain[u].sent /\ r \notin doubt'
        BY <1>1, <2>1, <2>2, <3>1, <3>2 DEF k
      <4>2. delivered[r][e] = 0
        BY <1>0, <2>1, <4>1 DEF Unsent, AllBut, r
      <4>3. QED BY <2>1, <2>2, <2>4, <3>2, <4>1, <4>2
    <3>3. CASE t # u
      <4>1. drain'[t] = drain[t] /\ Busy(t) /\ drain[t].id \in Ids \ doubt'
        BY <1>1, <2>1, <3>1, <3>3 DEF Busy
      <4>2. drain[t].id # r
        BY <2>5, <3>3, <4>1
      <4>3. delivered[drain[t].id][e] = 0
        BY <1>0, <3>1, <4>1 DEF Unsent, AllBut
      <4> QED BY <2>4, <4>1, <4>2, <4>3
    <3>4. QED BY <3>2, <3>3
  <2>7. Alone'
    BY <1>0, <2>1 DEF Alone, Busy, r
  <2>8. Untouched'
    <3>1. SUFFICES ASSUME NEW id \in Ids \ doubt', fate'[id] \in {"queued", "unused"},
                          \A t \in Task : Busy(t)' => drain'[t].id # id,
                          NEW e \in 1..MaxEnvelopes
                   PROVE  delivered'[id][e] = 0
      BY DEF Untouched
    <3>2. id # r /\ \A t \in Task : Busy(t) => drain[t].id # id
      BY <2>1, <3>1 DEF Busy, r
    <3>3. QED BY <1>0, <1>3, <2>4, <3>1, <3>2 DEF Untouched
  <2>9. AtMostOnce'
    BY <1>0, <2>4 DEF AtMostOnce
  <2>10. QED BY <2>6, <2>7, <2>8, <2>9 DEF Once
\* The process dies: what its attempts had submitted in part, or whole, is in doubt.
<1>9. CASE Crash
  <2>1. delivered' = delivered /\ \A t \in Task : drain'[t] = Idle
    BY <1>9 DEF Crash
  <2>2. \A t \in Task : ~ Busy(t)'
    BY <2>1 DEF Busy, Idle
  <2>3. \A t \in Task : drain[t].id \notin doubt' => drain[t].sent = 0
    BY <1>1, <1>9 DEF Crash
  <2>4. Unsent' /\ Alone' /\ AtMostOnce'
    BY <1>0, <2>1, <2>2 DEF Unsent, Alone, AtMostOnce
  <2>5. Untouched'
    <3>1. SUFFICES ASSUME NEW id \in Ids \ doubt', fate'[id] \in {"queued", "unused"},
                          NEW e \in 1..MaxEnvelopes
                   PROVE  delivered[id][e] = 0
      BY <2>1 DEF Untouched
    <3>2. CASE \A t \in Task : Busy(t) => drain[t].id # id
      BY <1>0, <1>3, <3>1, <3>2 DEF Untouched
    <3>3. ASSUME NEW t \in Task, Busy(t), drain[t].id = id
          PROVE  delivered[id][e] = 0
      BY <1>0, <2>3, <3>1, <3>3 DEF Unsent, AllBut
    <3> QED BY <3>2, <3>3
  <2> QED BY <2>4, <2>5 DEF Once
<1>10. QED
  BY <1>4, <1>5, <1>6, <1>7, <1>8, <1>9, OnceMoves

\* The recipient receives no envelope of a mail twice unless that mail is in doubt, for
\* any number of accounts, rows, drains and envelopes, however long an attempt takes and
\* whatever is forced, lost, crashes or fails.
THEOREM SubmittedAtMostOnce == Spec => []AtMostOnce
<1> DEFINE Inv == Typed /\ Lease /\ Once
<1>1. Init => Inv
  BY TypedInit, LeaseInit, OnceInit
<1>2. Inv /\ [Next]_vars => Inv'
  BY TypedNext, LeaseNext, OnceNext
<1>3. Inv => AtMostOnce
  BY DEF Once
<1>4. QED BY <1>1, <1>2, <1>3, PTL DEF Spec

-----------------------------------------------------------------------------
(* A row that has left the table stays out, whatever the environment does.   *)

\* An attempt starts sending only after it has found its row in the table.
LEMMA SendsQueued ==
  ASSUME TypeOK, [Next]_vars, NEW t \in Task, drain'[t].pc \in {"send", "sent"}
  PROVE  \/ drain[t].pc \in {"send", "sent"} /\ drain'[t].id = drain[t].id
         \/ fate[drain'[t].id] = "queued"
<1>1. CASE UNCHANGED drain
  BY <1>1
<1>2. ASSUME NEW w \in Task, NEW id, NEW force, NEW pass, Spawn(w, id, force, pass)
      PROVE  drain'[t] = drain[t]
  BY <1>2 DEF Spawn, Attempt, TypeOK
<1>3. ASSUME NEW u \in Task, Return(u)
      PROVE  drain'[t] = drain[t]
  BY <1>3 DEF Return, Idle, TypeOK
<1>4. CASE UserStep
  <2>1. Worker \subseteq Task
    BY DEF Task
  <2>2. QED
    BY <1>1, <1>2, <1>4, <2>1
    DEF UserStep, SendNew, OpenEdit, CancelEdit, ReplaceRemove, ReplaceInsert, EditEntry,
        DeleteEntry, Retry, RetryWithPassphrase, RemoveAccount
<1>5. ASSUME NEW u \in Task, DrainStep(u)
      PROVE  \/ drain[t].pc \in {"send", "sent"} /\ drain'[t].id = drain[t].id
             \/ fate[drain'[t].id] = "queued"
  <2>1. CASE Return(u)
    BY <1>3, <2>1
  <2>2. CASE Goto(u, "load")
    BY <2>2 DEF Goto, TypeOK
  <2>3. CASE Goto(u, "send") /\ fate[drain[u].id] = "queued"
    BY <2>3 DEF Goto, TypeOK, Drain
  <2>4. CASE Accept(u)
    BY <2>4 DEF Accept, At, Submitted, TypeOK
  <2>5. QED
    BY <1>5, <2>1, <2>2, <2>3, <2>4
    DEF DrainStep, Claim, Load, Refuse, Reject, LoseReply, Finish, Fail
<1>6. CASE SweepNext
  BY <1>2, <1>6 DEF SweepNext, Task
<1>7. CASE Tick
  BY <1>7 DEF Tick, TypeOK, Busy, Drain
<1>8. CASE SweepStart \/ Crash \/ UNCHANGED vars
  BY <1>1, <1>8 DEF SweepStart, Crash, Idle, vars
<1>9. QED BY <1>4, <1>5, <1>6, <1>7, <1>8 DEF Next

LEMMA GoneStep ==
  ASSUME Typed, [Next]_vars, NEW id \in Ids, fate[id] \in Gone
  PROVE  fate'[id] \in Gone /\ (Sending(id)' => Sending(id))
<1>0. TypeOK /\ next \in Nat /\ id \in Nat
  BY IdsInNat DEF Typed, TypeOK
<1>1. id # next
  BY <1>0 DEF Typed, Issued, Gone
<1>2. fate'[id] \in Gone
  BY <1>1, RowsMove DEF RowMove
<1>3. ASSUME NEW t \in Task, drain'[t].id = id, drain'[t].pc \in {"send", "sent"}
      PROVE  Sending(id)
  BY <1>0, <1>3, SendsQueued DEF Sending, Gone
<1>4. QED BY <1>2, <1>3 DEF Sending

\* No crash, failed statement, lost reply, forced retry or stale snapshot brings a row
\* back into the table or starts sending one that has left it.
THEOREM GoneIsForGood == Spec => GoneForGood
<1> DEFINE Step == \A id \in Ids : fate[id] \in Gone =>
                     /\ fate'[id] \in Gone
                     /\ Sending(id)' => Sending(id)
<1>1. Typed /\ [Next]_vars => [Step]_vars
  BY GoneStep
<1>2. QED BY <1>1, TypedInit, TypedNext, PTL DEF Spec, GoneForGood
-----------------------------------------------------------------------------
(* What has left the table as sent was accepted whole.  Carried says what an *)
(* attempt brings to its end: the server has every envelope it went past.    *)

Carried ==
  \A t \in Task :
    drain[t].pc # "idle" =>
      \A e \in 1..MaxEnvelopes : e <= drain[t].sent => delivered[drain[t].id][e] >= 1

\* What the server has it keeps.
LEMMA DeliveredStays ==
  ASSUME TypeOK, [Next]_vars, NEW id \in Ids, NEW e \in 1..MaxEnvelopes,
         delivered[id][e] >= 1
  PROVE  delivered'[id][e] >= 1
<1>1. delivered \in [Ids -> [1..MaxEnvelopes -> 0..2]]
  BY DEF TypeOK
<1>2. CASE delivered' = delivered
  BY <1>2
<1>3. ASSUME NEW r \in Ids, NEW k, Deliver(r, k)
      PROVE  delivered'[id][e] >= 1
  <2>1. delivered'[id] = IF id = r
          THEN [delivered[r] EXCEPT ![k] = IF delivered[r][k] = 0 THEN 1 ELSE 2]
          ELSE delivered[id]
    BY <1>1, <1>3 DEF Deliver
  <2>2. delivered'[id][e] \in {delivered[id][e], 1, 2}
    BY <1>1, <2>1
  <2> QED BY <2>2
<1>4. ASSUME NEW t \in Task, DrainStep(t)
      PROVE  delivered' = delivered \/ \E k : Deliver(drain[t].id, k)
  BY <1>4 DEF DrainStep, Claim, Load, Refuse, Accept, Reject, LoseReply, Finish
<1>5. \A t \in Task : drain[t].id \in Ids
  BY DEF TypeOK, Drain
<1>6. CASE UserStep
  BY <1>2, <1>6
  DEF UserStep, SendNew, OpenEdit, CancelEdit, ReplaceRemove, ReplaceInsert, EditEntry,
      DeleteEntry, Retry, RetryWithPassphrase, RemoveAccount
<1>7. CASE SweepStart \/ SweepNext \/ Tick \/ Crash \/ UNCHANGED vars
  BY <1>2, <1>7 DEF SweepStart, SweepNext, Tick, Crash, vars
<1> QED BY <1>2, <1>3, <1>4, <1>5, <1>6, <1>7 DEF Next

\* The envelope an attempt goes past is the one the server has just accepted.
LEMMA AcceptDelivers ==
  ASSUME Typed, NEW t \in Task, Accept(t)
  PROVE  /\ drain[t].sent + 1 \in 1..MaxEnvelopes
         /\ delivered'[drain[t].id][drain[t].sent + 1] >= 1
<1>1. drain[t] \in Drain /\ mail[drain[t].id] \in Mail
  BY DEF Typed, TypeOK, Drain
<1>2. drain[t].sent + 1 \in 1..MaxEnvelopes /\ drain[t].id \in Ids
  BY <1>1, EnvelopesBound DEF Accept, At, Typed, Progress, Drain
<1> DEFINE r == drain[t].id
           k == drain[t].sent + 1
           n == IF delivered[r][k] = 0 THEN 1 ELSE 2
<1>3. delivered' = [delivered EXCEPT ![r] = [delivered[r] EXCEPT ![k] = n]]
  BY <1>2 DEF Accept, Deliver, Typed, TypeOK
<1>4. delivered \in [Ids -> [1..MaxEnvelopes -> 0..2]] /\ n >= 1
  BY DEF Typed, TypeOK
<1>5. delivered'[r][k] = n
  <2> HIDE DEF n, r, k
  <2> QED BY <1>2, <1>3, <1>4 DEF r, k
<1> QED BY <1>2, <1>4, <1>5

LEMMA CarriedNext ==
  ASSUME Typed, Typed', Carried, [Next]_vars
  PROVE  Carried'
<1>1. SUFFICES ASSUME NEW t \in Task, drain'[t].pc # "idle",
                      NEW e \in 1..MaxEnvelopes, e <= drain'[t].sent
               PROVE  delivered'[drain'[t].id][e] >= 1
  BY DEF Carried
<1>2. TypeOK /\ TypeOK' /\ drain[t] \in Drain /\ drain'[t] \in Drain
  BY DEF Typed, TypeOK
<1>3. drain[t].id \in Ids /\ drain[t].sent \in Nat
  BY <1>2 DEF Drain
<1>4. CASE drain[t].pc # "idle" /\ drain'[t].id = drain[t].id /\ e <= drain[t].sent
  <2>1. delivered[drain[t].id][e] >= 1
    BY <1>4 DEF Carried
  <2> QED BY <1>2, <1>3, <1>4, <2>1, DeliveredStays
<1>5. CASE drain'[t].sent = 0
  BY <1>1, <1>5
<1>6. ASSUME Accept(t), drain[t].pc = "send", drain'[t].id = drain[t].id,
             drain'[t].sent = drain[t].sent + 1
      PROVE  delivered'[drain'[t].id][e] >= 1
  <2>1. e <= drain[t].sent \/ e = drain[t].sent + 1
    BY <1>1, <1>3, <1>6
  <2> QED BY <1>4, <1>6, <2>1, AcceptDelivers
<1> QED BY <1>1, <1>4, <1>5, <1>6, TasksMove DEF TaskMove, Idle

\* A row leaves the table as sent only at the end of an attempt.
LEMMA SentByFinish ==
  ASSUME TypeOK, [Next]_vars, NEW id \in Ids, fate'[id] = "sent"
  PROVE  fate[id] = "sent" \/ \E t \in Task : At(t, "sent") /\ drain[t].id = id
<1>1. CASE UNCHANGED fate
  BY <1>1
<1>2. ASSUME NEW i \in Ids, NEW how, how # "sent", Remove(i, how)
      PROVE  fate[id] = "sent"
  BY <1>2 DEF Remove, TypeOK
<1>3. ASSUME NEW m, Insert(m)
      PROVE  fate[id] = "sent"
  BY <1>3 DEF Insert, TypeOK
<1>4. CASE UserStep
  <2>1. ASSUME NEW i \in Ids, CancelEdit(i)
        PROVE  fate[id] = "sent"
    BY <2>1 DEF CancelEdit, TypeOK
  <2> QED BY <1>1, <1>2, <1>3, <1>4, <2>1
          DEF UserStep, SendNew, OpenEdit, ReplaceRemove, ReplaceInsert, EditEntry,
              DeleteEntry, Retry, RetryWithPassphrase, RemoveAccount
<1>5. ASSUME NEW t \in Task, DrainStep(t)
      PROVE  fate[id] = "sent" \/ (At(t, "sent") /\ drain[t].id = id)
  <2>1. drain[t].id \in Ids
    BY DEF TypeOK, Drain
  <2>2. CASE Finish(t)
    BY <2>1, <2>2 DEF Finish, Remove, TypeOK
  <2>3. CASE Load(t)
    BY <1>1, <1>2, <2>1, <2>3 DEF Load
  <2> QED BY <1>1, <1>5, <2>2, <2>3 DEF DrainStep, Claim, Refuse, Accept, Reject, LoseReply
<1>6. CASE SweepStart \/ SweepNext \/ Tick \/ Crash \/ UNCHANGED vars
  BY <1>1, <1>6 DEF SweepStart, SweepNext, Tick, Crash, vars
<1> QED BY <1>4, <1>5, <1>6 DEF Next

Whole == Carried /\ SentIsDelivered

LEMMA WholeInit == Init => Whole
BY DEF Init, Idle, Whole, Carried, SentIsDelivered

LEMMA WholeNext ==
  ASSUME Typed, Typed', Whole, [Next]_vars
  PROVE  Whole'
<1>1. TypeOK /\ TypeOK' /\ Carried /\ SentIsDelivered /\ Progress /\ next \in Nat
  BY DEF Typed, Whole, TypeOK
<1>2. ASSUME NEW id \in Ids, fate'[id] = "sent", NEW e \in 1..Envelopes(mail'[id].kind)
      PROVE  delivered'[id][e] >= 1
  <2>1. id < next
    <3>1. fate[id] # "unused" \/ \E t \in Task : At(t, "sent") /\ drain[t].id = id
      BY <1>1, <1>2, SentByFinish
    <3>2. fate[id] # "unused" => id < next
      BY <1>1, IdsInNat DEF Typed, Issued
    <3> QED BY <3>1, <3>2 DEF At, Typed, Issued
  <2>2. mail'[id] = mail[id] /\ mail[id] \in Mail
    BY <1>1, <2>1, MailFixed DEF TypeOK
  <2>3. e \in 1..MaxEnvelopes
    BY <1>2, <2>2, EnvelopesBound
  <2>4. delivered[id][e] >= 1
    <3>1. CASE fate[id] = "sent"
      BY <1>1, <1>2, <2>2, <3>1 DEF SentIsDelivered
    <3>2. ASSUME NEW t \in Task, At(t, "sent"), drain[t].id = id
          PROVE  delivered[id][e] >= 1
      <4>1. drain[t].sent = Envelopes(mail[id].kind)
        BY <1>1, <3>2 DEF At, Progress
      <4>2. e <= drain[t].sent
        BY <1>2, <2>2, <4>1, EnvelopesBound
      <4> QED BY <1>1, <2>3, <3>2, <4>2 DEF At, Carried
    <3> QED BY <1>1, <1>2, <3>1, <3>2, SentByFinish
  <2> QED BY <1>1, <2>3, <2>4, DeliveredStays
<1>3. SentIsDelivered'
  BY <1>2 DEF SentIsDelivered
<1> QED BY <1>1, <1>3, CarriedNext DEF Whole

\* A mail that left the queue as sent was accepted whole, whatever fails, crashes or is
\* forced: an attempt is "sent" after its last envelope only, and no other step takes a
\* row out of the table under that name.
THEOREM SentWhole == Spec => []SentIsDelivered
<1>1. Whole => SentIsDelivered
  BY DEF Whole
<1> QED BY <1>1, TypedInit, TypedNext, WholeInit, WholeNext, PTL DEF Spec

-----------------------------------------------------------------------------
(* Edits.  A mail and its edits share their root.  Until the user withdraws  *)
(* it one of them, and only one, is a row of the table or held by a Compose  *)
(* window.                                                                   *)

Editing(id) == window[id] \in {"replacing", "recovered"}
HasEdit(id) == \E j \in Ids : id < j /\ j < next /\ mail[j].root = mail[id].root

\* What the history of a row keeps about the one that replaced it.
LEMMA EditStays ==
  ASSUME Typed, [Next]_vars, NEW id \in Ids, id < next, HasEdit(id)
  PROVE  HasEdit(id)'
<1>1. PICK j \in Ids : id < j /\ j < next /\ mail[j].root = mail[id].root
  BY DEF HasEdit
<1>2. j < next' /\ mail'[j] = mail[j] /\ mail'[id] = mail[id]
  BY <1>1, MailFixed
<1> QED BY <1>1, <1>2 DEF HasEdit

\* The windows: what a step does to that of a row, a crash apart.
WindowMove(id) ==
  \/ window'[id] = window[id]
  \/ OpenEdit(id) /\ window[id] = "closed" /\ window'[id] = "open"
  \/ CancelEdit(id) /\ window[id] \in {"open", "recovered"} /\ window'[id] = "closed"
  \/ ReplaceRemove(id) /\ window[id] = "open" /\ window'[id] = "replacing"
  \/ /\ \E w \in Worker, p \in Passes : ReplaceInsert(id, w, p)
     /\ Editing(id) /\ window'[id] = "recovered" /\ DbError
  \/ /\ \E w \in Worker, p \in Passes : ReplaceInsert(id, w, p)
     /\ Editing(id) /\ window'[id] = "closed" /\ Insert(mail[id])
  \/ EditEntry(id) /\ window[id] = "closed" /\ window'[id] = "recovered"

LEMMA WindowsMove ==
  ASSUME TypeOK, [Next]_vars, ~ Crash, NEW id \in Ids
  PROVE  WindowMove(id)
<1>1. CASE UNCHANGED window
  BY <1>1 DEF WindowMove
<1>2. ASSUME NEW i \in Ids,
             OpenEdit(i) \/ CancelEdit(i) \/ ReplaceRemove(i) \/ EditEntry(i)
             \/ \E w \in Worker, p \in Passes : ReplaceInsert(i, w, p)
      PROVE  WindowMove(id)
  <2>1. CASE i # id
    BY <1>2, <2>1 DEF OpenEdit, CancelEdit, ReplaceRemove, EditEntry, ReplaceInsert, TypeOK,
       WindowMove
  <2>2. CASE i = id
    <3>1. ASSUME OpenEdit(id) PROVE WindowMove(id)
      <4>1. window[id] = "closed" /\ window'[id] = "open"
        BY <3>1 DEF OpenEdit, TypeOK
      <4> QED BY <3>1, <4>1 DEF WindowMove
    <3>2. ASSUME CancelEdit(id) PROVE WindowMove(id)
      <4>1. window[id] \in {"open", "recovered"} /\ window'[id] = "closed"
        BY <3>2 DEF CancelEdit, TypeOK
      <4> QED BY <3>2, <4>1 DEF WindowMove
    <3>3. ASSUME ReplaceRemove(id) PROVE WindowMove(id)
      <4>1. window[id] = "open" /\ window'[id] = "replacing"
        BY <3>3 DEF ReplaceRemove, TypeOK
      <4> QED BY <3>3, <4>1 DEF WindowMove
    <3>4. ASSUME EditEntry(id) PROVE WindowMove(id)
      <4>1. window[id] = "closed" /\ window'[id] = "recovered"
        BY <3>4 DEF EditEntry, TypeOK
      <4> QED BY <3>4, <4>1 DEF WindowMove
    <3>5. ASSUME NEW w \in Worker, NEW p \in Passes, ReplaceInsert(id, w, p)
          PROVE  WindowMove(id)
      <4>1. Editing(id) /\ (\/ window'[id] = "recovered" /\ DbError
                            \/ window'[id] = "closed" /\ Insert(mail[id]))
        BY <3>5 DEF ReplaceInsert, TypeOK, Editing
      <4> QED BY <3>5, <4>1 DEF WindowMove
    <3> QED BY <1>2, <2>2, <3>1, <3>2, <3>3, <3>4, <3>5
  <2> QED BY <2>1, <2>2
<1>3. CASE UserStep
  BY <1>1, <1>2, <1>3 DEF UserStep, SendNew, DeleteEntry, Retry, RetryWithPassphrase,
     RemoveAccount
<1>4. CASE \E t \in Task : DrainStep(t)
  BY <1>1, <1>4 DEF DrainStep, Claim, Load, Refuse, Accept, Reject, LoseReply, Finish
<1>5. CASE SweepStart \/ SweepNext \/ Tick \/ UNCHANGED vars
  BY <1>1, <1>5 DEF SweepStart, SweepNext, Tick, vars
<1> QED BY <1>3, <1>4, <1>5 DEF Next

\* A row is replaced only by an edit about to be inserted.
LEMMA ReplacedBy ==
  ASSUME TypeOK, [Next]_vars, NEW id \in Ids, fate'[id] = "replaced"
  PROVE  \/ fate[id] = "replaced" /\ (CancelEdit(id) => window[id] # "recovered")
         \/ ReplaceRemove(id)
<1>1. ASSUME NEW i \in Ids, NEW how, how # "replaced", Remove(i, how)
      PROVE  fate[id] = "replaced"
  BY <1>1 DEF Remove, TypeOK
<1>2. ASSUME NEW m, Insert(m)
      PROVE  fate[id] = "replaced"
  BY <1>2 DEF Insert, TypeOK
<1>3. CancelEdit(id) => fate[id] = "replaced" /\ window[id] # "recovered"
  BY DEF CancelEdit, TypeOK
<1>4. ASSUME NEW i \in Ids, i # id, CancelEdit(i) \/ ReplaceRemove(i)
      PROVE  fate[id] = "replaced"
  BY <1>4 DEF CancelEdit, ReplaceRemove, Remove, TypeOK
<1>5. CASE UNCHANGED fate
  BY <1>3, <1>5
<1>6. CASE UserStep
  <2>1. ASSUME NEW w \in Worker, NEW a, NEW k, NEW p, SendNew(w, a, k, p)
        PROVE  fate[id] = "replaced"
    BY <1>2, <2>1 DEF SendNew
  <2>2. ASSUME NEW i \in Ids, NEW w \in Worker, NEW p, ReplaceInsert(i, w, p)
        PROVE  fate[id] = "replaced"
    BY <1>2, <2>2 DEF ReplaceInsert
  <2>3. ASSUME NEW i \in Ids, EditEntry(i) \/ DeleteEntry(i)
        PROVE  fate[id] = "replaced"
    BY <1>1, <2>3 DEF EditEntry, DeleteEntry
  <2> QED BY <1>3, <1>4, <1>5, <1>6, <2>1, <2>2, <2>3
          DEF UserStep, OpenEdit, Retry, RetryWithPassphrase, RemoveAccount
<1>7. ASSUME NEW t \in Task, DrainStep(t)
      PROVE  fate[id] = "replaced"
  <2>1. drain[t].id \in Ids
    BY DEF TypeOK, Drain
  <2>2. CASE Load(t) \/ Finish(t)
    BY <1>1, <2>1, <2>2 DEF Load, Finish
  <2> QED BY <1>7, <2>2 DEF DrainStep, Claim, Refuse, Accept, Reject, LoseReply
<1>8. CASE SweepStart \/ SweepNext \/ Tick \/ Crash \/ UNCHANGED vars
  BY <1>5, <1>8 DEF SweepStart, SweepNext, Tick, Crash, vars
<1> QED BY <1>3, <1>6, <1>7, <1>8 DEF Next

LEMMA LostNext ==
  ASSUME Typed, NoMailLost, "crash" \notin Hazards, [Next]_vars
  PROVE  NoMailLost'
<1>1. TypeOK /\ ~ Crash /\ next \in Nat /\ next <= MaxRows + 1 /\ Ids \subseteq Nat
  BY IdsInNat DEF Typed, TypeOK, Crash
<1>2. ASSUME NEW id \in Ids, fate'[id] = "replaced"
      PROVE  Editing(id)' \/ HasEdit(id)'
  <2>1. CASE ReplaceRemove(id)
    BY <1>1, <2>1 DEF ReplaceRemove, TypeOK, Editing
  <2>2. CASE fate[id] = "replaced" /\ (CancelEdit(id) => window[id] # "recovered")
    <3>1. id < next
      BY <1>1, <2>2, IdsInNat DEF Typed, Issued
    <3>2. Editing(id) \/ HasEdit(id)
      BY <2>2 DEF NoMailLost, Editing, HasEdit
    <3>3. CASE HasEdit(id)
      BY <3>1, <3>3, EditStays
    <3>4. ASSUME Editing(id), Insert(mail[id])
          PROVE  HasEdit(id)'
      <4>1. next \in Ids /\ next < next' /\ mail'[next] = mail[id] /\ mail'[id] = mail[id]
        BY <1>1, <3>1, <3>4 DEF Insert, TypeOK, Ids
      <4> QED BY <3>1, <4>1 DEF HasEdit
    <3>5. CASE Editing(id)
      BY <1>1, <2>2, <3>4, <3>5, WindowsMove DEF WindowMove, Editing
    <3> QED BY <3>2, <3>3, <3>5
  <2> QED BY <1>1, <1>2, <2>1, <2>2, ReplacedBy
<1> QED BY <1>2 DEF NoMailLost, Editing, HasEdit

\* Editing a queued mail loses neither version, as long as the program does not die
\* between the removal of the old row and the insertion of the new one: a failing INSERT
\* leaves the edit in the Compose window.
THEOREM EditKeepsMail ==
  ASSUME "crash" \notin Hazards
  PROVE  Spec => []NoMailLost
<1>1. Init => NoMailLost
  BY DEF Init, NoMailLost
<1> QED BY <1>1, LostNext, TypedInit, TypedNext, PTL DEF Spec

\* Where a version of a mail is: in the table, or in a window that will put it there.
Holds(id) == fate[id] = "queued" \/ window[id] # "closed"
Versions ==
  /\ \A i, j \in Ids : Holds(i) /\ Holds(j) /\ mail[i].root = mail[j].root => i = j
  /\ \A id \in Ids : /\ Editing(id) => fate[id] # "queued"
                     /\ window[id] # "closed" => id < next
                     /\ id < next => mail[id].root <= id

\* A row of the table was there before or has just been inserted, and an inserted row is
\* a new mail or what a window holds.
LEMMA QueuedBefore ==
  ASSUME Typed, [Next]_vars, NEW id \in Ids, fate'[id] = "queued"
  PROVE  \/ fate[id] = "queued" /\ id < next
         \/ /\ id = next /\ next' = next + 1
            /\ \/ mail'[id].root = id /\ UNCHANGED window
               \/ \E s \in Ids : /\ Editing(s) /\ mail'[id] = mail[s]
                                 /\ window' = [window EXCEPT ![s] = "closed"]
<1>1. RowMove(id)
  BY RowsMove
<1>2. TypeOK /\ next \in Nat /\ id \in Nat /\ (fate[id] = "queued" => id < next)
  BY IdsInNat DEF Typed, TypeOK, Issued
<1>3. fate[id] = "queued" \/ (id = next /\ next' = next + 1)
  BY <1>1 DEF RowMove, Gone
<1>4. ASSUME next' = next + 1, id = next
      PROVE  \/ mail'[id].root = id /\ UNCHANGED window
             \/ \E s \in Ids : /\ Editing(s) /\ mail'[id] = mail[s]
                               /\ window' = [window EXCEPT ![s] = "closed"]
  <2>1. next' # next
    BY <1>2, <1>4
  <2>2. CASE UserStep
    <3>1. ASSUME NEW w \in Worker, NEW a \in Account, NEW k \in Kinds, NEW p \in Passes,
                 SendNew(w, a, k, p)
          PROVE  mail'[id].root = id /\ UNCHANGED window
      BY <1>2, <1>4, <3>1 DEF SendNew, Insert, TypeOK
    <3>2. ASSUME NEW s \in Ids, NEW w \in Worker, NEW p \in Passes, ReplaceInsert(s, w, p)
          PROVE  /\ Editing(s) /\ mail'[id] = mail[s]
                 /\ window' = [window EXCEPT ![s] = "closed"]
      BY <1>2, <1>4, <2>1, <3>2 DEF ReplaceInsert, Insert, TypeOK, Editing, rowVars
    <3> QED BY <2>1, <2>2, <3>1, <3>2
            DEF UserStep, OpenEdit, CancelEdit, ReplaceRemove, EditEntry, DeleteEntry, Retry,
                RetryWithPassphrase, RemoveAccount, rowVars
  <2>3. ~ (\E t \in Task : DrainStep(t))
    BY <2>1 DEF DrainStep, Claim, Load, Refuse, Accept, Reject, LoseReply, Finish, rowVars
  <2> QED BY <2>1, <2>2, <2>3 DEF Next, SweepStart, SweepNext, Tick, Crash, vars, rowVars
<1> QED BY <1>2, <1>3, <1>4

LEMMA VersionsNext ==
  ASSUME Typed, Versions, "db_error" \notin Hazards, [Next]_vars
  PROVE  Versions'
<1>1. TypeOK /\ next \in Nat /\ Ids \subseteq Nat /\ ~ DbError /\ mail \in [Ids -> Mail]
  BY IdsInNat DEF Typed, TypeOK, DbError
\* A window opens on a row of the table only, and closes in a crash.
<1>2. ASSUME NEW id \in Ids, window'[id] # "closed"
      PROVE  Holds(id) /\ id < next
  <2>1. fate[id] = "queued" => id < next
    BY <1>1 DEF Typed, Issued
  <2>2. ~ Crash
    BY <1>2 DEF Crash
  <2>3. Holds(id)
    BY <1>1, <1>2, <2>2, WindowsMove DEF WindowMove, Holds, OpenEdit, EditEntry
  <2> QED BY <2>1, <2>3 DEF Holds, Versions
<1>3. ASSUME NEW id \in Ids, Holds(id)'
      PROVE  \/ Holds(id) /\ id < next
             \/ /\ id = next /\ next' = next + 1
                /\ \/ mail'[id].root = id /\ UNCHANGED window
                   \/ \E s \in Ids : /\ Editing(s) /\ mail'[id] = mail[s]
                                     /\ window' = [window EXCEPT ![s] = "closed"]
  <2>1. CASE window'[id] # "closed"
    BY <1>2, <2>1
  <2>2. CASE fate'[id] = "queued"
    BY <2>2, QueuedBefore DEF Holds
  <2> QED BY <1>3, <2>1, <2>2 DEF Holds
\* A row that was there keeps its root; a new one has a root of its own, or that of a
\* version which its window has just given up.
<1>4. ASSUME NEW i \in Ids, Holds(i)', Holds(i), i < next,
             NEW j \in Ids, Holds(j)', j = next, next' = next + 1,
             \/ mail'[j].root = j /\ UNCHANGED window
             \/ \E s \in Ids : /\ Editing(s) /\ mail'[j] = mail[s]
                               /\ window' = [window EXCEPT ![s] = "closed"]
      PROVE  mail'[i].root # mail'[j].root
  <2>1. mail'[i] = mail[i] /\ mail[i].root <= i /\ mail[i].root \in Nat
    BY <1>1, <1>4, MailFixed DEF Versions, Mail
  <2>2. CASE mail'[j].root = j
    BY <1>1, <1>4, <2>1, <2>2
  <2>3. ASSUME NEW s \in Ids, Editing(s), mail'[j] = mail[s],
               window' = [window EXCEPT ![s] = "closed"]
        PROVE  mail'[i].root # mail'[j].root
    <3>1. Holds(s) /\ s < next /\ fate[s] # "queued"
      BY <2>3 DEF Versions, Holds, Editing
    <3>2. ~ Holds(s)'
      <4>1. window'[s] = "closed"
        BY <1>1, <2>3 DEF TypeOK
      <4>2. fate'[s] # "queued"
        BY <1>1, <3>1, QueuedBefore
      <4> QED BY <4>1, <4>2 DEF Holds
    <3>3. i # s
      BY <1>4, <3>2
    <3> QED BY <1>4, <2>1, <2>3, <3>1, <3>3 DEF Versions
  <2> QED BY <1>4, <2>2, <2>3
<1>5. ASSUME NEW i \in Ids, NEW j \in Ids, Holds(i)', Holds(j)', mail'[i].root = mail'[j].root
      PROVE  i = j
  <2>1. CASE Holds(i) /\ i < next /\ Holds(j) /\ j < next
    BY <1>5, <2>1, MailFixed DEF Versions
  <2>2. CASE i = next /\ j = next
    BY <2>2
  <2> QED BY <1>3, <1>4, <1>5, <2>1, <2>2
<1>6. ASSUME NEW id \in Ids
      PROVE  /\ Editing(id)' => fate'[id] # "queued"
             /\ window'[id] # "closed" => id < next'
             /\ id < next' => mail'[id].root <= id
  <2>1. Editing(id)' => fate'[id] # "queued"
    <3>1. SUFFICES ASSUME Editing(id)', fate'[id] = "queued"
                   PROVE  FALSE
      OBVIOUS
    <3>2. window'[id] # "closed" /\ Holds(id) /\ id < next /\ ~ Crash
      BY <1>2, <3>1 DEF Editing, Crash
    <3>3. fate[id] = "queued"
      BY <1>1, <3>1, <3>2, QueuedBefore
    <3>4. ~ Editing(id)
      BY <3>3 DEF Versions
    <3>5. ReplaceRemove(id) \/ EditEntry(id)
      BY <1>1, <3>1, <3>2, <3>4, WindowsMove DEF WindowMove, Editing
    <3>6. fate'[id] # "queued"
      BY <1>1, <3>5 DEF ReplaceRemove, EditEntry, Remove, TypeOK
    <3> QED BY <3>1, <3>6
  <2>2. window'[id] # "closed" => id < next'
    BY <1>2, MailFixed
  <2>3. ASSUME id < next'
        PROVE  mail'[id].root <= id
    <3>1. CASE id < next
      BY <1>1, <3>1, MailFixed DEF Versions
    <3>2. CASE ~ (id < next)
      <4>1. id = next /\ fate'[id] = "queued"
        BY <1>1, <2>3, <3>2, RowsMove DEF RowMove, Typed, Issued
      <4>2. \/ mail'[id].root = id
            \/ \E s \in Ids : s < next /\ mail'[id].root = mail[s].root /\ mail[s].root <= s
        BY <1>1, <3>2, <4>1, QueuedBefore DEF Versions, Editing
      <4>3. \A s \in Ids : mail[s].root \in Nat
        BY <1>1 DEF Mail
      <4> QED BY <1>1, <4>1, <4>2, <4>3
    <3> QED BY <3>1, <3>2
  <2> QED BY <2>1, <2>2, <2>3
<1> QED BY <1>5, <1>6 DEF Versions

\* "The queue holds at most one copy of this message at any moment": an edit and the row
\* it replaces are never both in the table, unless the removal of the old row fails,
\* which send_email logs and passes over.  A crash loses a version but doubles none.
THEOREM OneVersion ==
  ASSUME "db_error" \notin Hazards
  PROVE  Spec => []OneVersionQueued
<1>1. Init => Versions
  <2>1. ASSUME Init, NEW id \in Ids
        PROVE  ~ Holds(id) /\ ~ Editing(id) /\ window[id] = "closed" /\ mail[id].root = id
    BY <2>1 DEF Init, Holds, Editing
  <2>2. ASSUME Init, NEW id \in Ids
        PROVE  mail[id].root <= id
    BY <2>1, <2>2, IdsInNat
  <2> QED BY <2>1, <2>2 DEF Versions
<1>2. Versions => OneVersionQueued
  BY DEF Versions, Holds, OneVersionQueued, Queued
<1> QED BY <1>1, <1>2, VersionsNext, TypedInit, TypedNext, PTL DEF Spec

-----------------------------------------------------------------------------
(* The outbox implements SubmissionQueue.  Whole and Once together say what  *)
(* an attempt may count on, unless its mail is in doubt: the envelope it is  *)
(* about to submit is not with the server, so its row has not been sent.     *)

QueueStep == Queue!QNext \/ UNCHANGED Queue!qvars
Size(id) == Envelopes(mail[id].kind)
Status(id) == IF fate[id] \in Gone \ {"sent"} THEN "withdrawn" ELSE fate[id]

LEMMA QueueInit == Init => Queue!QInit
BY DEF Init, Queue!QInit, Envelopes, Ids, Gone

\* A step that shows nowhere in the queue.
LEMMA QueueSame ==
  ASSUME UNCHANGED <<rowVars, delivered, doubt>>, \A id \in Ids : Status(id)' = Status(id)
  PROVE  QueueStep
<1>1. [id \in Ids |-> Envelopes(mail'[id].kind)] = [id \in Ids |-> Envelopes(mail[id].kind)]
  BY DEF rowVars
<1>2. [id \in Ids |-> IF fate'[id] \in Gone \ {"sent"} THEN "withdrawn" ELSE fate'[id]]
      = [id \in Ids |-> IF fate[id] \in Gone \ {"sent"} THEN "withdrawn" ELSE fate[id]]
  BY DEF Status
<1> QED BY <1>1, <1>2 DEF QueueStep, Queue!qvars, rowVars

LEMMA QueuePut ==
  ASSUME TypeOK, NEW m \in Mail, Insert(m), UNCHANGED <<delivered, doubt>>
  PROVE  QueueStep
<1>1. next \in Ids /\ next <= MaxRows /\ next' = next + 1
  BY DEF TypeOK, Insert, Ids
<1>2. \A id \in Ids : Size(id)' = IF id = next THEN Envelopes(m.kind) ELSE Size(id)
  BY <1>1 DEF TypeOK, Insert, Size
<1>3. \A id \in Ids : Status(id)' = IF id = next THEN "queued" ELSE Status(id)
  BY <1>1 DEF TypeOK, Insert, Status, Gone
<1>4. [id \in Ids |-> Envelopes(mail'[id].kind)]
      = [[id \in Ids |-> Envelopes(mail[id].kind)] EXCEPT ![next] = Envelopes(m.kind)]
  BY <1>1, <1>2 DEF Size
<1>5. [id \in Ids |-> IF fate'[id] \in Gone \ {"sent"} THEN "withdrawn" ELSE fate'[id]]
      = [[id \in Ids |-> IF fate[id] \in Gone \ {"sent"} THEN "withdrawn" ELSE fate[id]]
           EXCEPT ![next] = "queued"]
  BY <1>1, <1>3 DEF Status
<1>6. Envelopes(m.kind) \in 1..MaxEnvelopes
  BY EnvelopesBound
<1> QED BY <1>1, <1>4, <1>5, <1>6 DEF QueueStep, Queue!QNext, Queue!Put

\* A row that leaves the table, other than as sent, is withdrawn.
LEMMA QueueWithdraw ==
  ASSUME TypeOK, NEW id \in Ids, NEW how \in Gone \ {"sent"}, Remove(id, how),
         UNCHANGED <<rowVars, delivered, doubt>>
  PROVE  QueueStep
<1>1. CASE fate[id] # "queued"
  <2>1. \A i \in Ids : Status(i)' = Status(i)
    BY <1>1 DEF Remove, TypeOK, Status
  <2> QED BY <2>1, QueueSame
<1>2. CASE fate[id] = "queued"
  <2>1. \A i \in Ids : Status(i)' = IF i = id THEN "withdrawn" ELSE Status(i)
    BY <1>2 DEF Remove, TypeOK, Status
  <2>2. [i \in Ids |-> IF fate'[i] \in Gone \ {"sent"} THEN "withdrawn" ELSE fate'[i]]
        = [[i \in Ids |-> IF fate[i] \in Gone \ {"sent"} THEN "withdrawn" ELSE fate[i]]
             EXCEPT ![id] = "withdrawn"]
    BY <2>1 DEF Status
  <2>3. [i \in Ids |-> Envelopes(mail'[i].kind)] = [i \in Ids |-> Envelopes(mail[i].kind)]
    BY DEF rowVars
  <2>4. Queue!Withdraw(id)
    BY <1>2, <2>2, <2>3 DEF Queue!Withdraw, rowVars, Gone
  <2> QED BY <2>4 DEF QueueStep, Queue!QNext, Ids
<1> QED BY <1>1, <1>2

\* Rows the queue loses track of.
LEMMA QueueLose ==
  ASSUME Typed, NEW S, S \subseteq Ids, \A id \in S : id < next, doubt' = doubt \cup S,
         UNCHANGED <<rowVars, fate, delivered>>
  PROVE  QueueStep
<1>1. \A id \in S : fate[id] # "unused"
  <2>1. next \in Nat /\ Ids \subseteq Nat
    BY IdsInNat DEF Typed, TypeOK
  <2> QED BY <2>1 DEF Typed, Issued
<1>2. \A id \in S : Status(id) # "unused"
  BY <1>1 DEF Status
<1>3. /\ [id \in Ids |-> Envelopes(mail'[id].kind)] = [id \in Ids |-> Envelopes(mail[id].kind)]
      /\ [id \in Ids |-> IF fate'[id] \in Gone \ {"sent"} THEN "withdrawn" ELSE fate'[id]]
         = [id \in Ids |-> IF fate[id] \in Gone \ {"sent"} THEN "withdrawn" ELSE fate[id]]
  BY DEF rowVars
<1>4. Queue!LoseTrack(S)
  BY <1>2, <1>3 DEF Queue!LoseTrack, Status, rowVars
<1> QED BY <1>4 DEF QueueStep, Queue!QNext, Ids

\* An attempt may put its own row in doubt.
LEMMA QueueSuspect ==
  ASSUME Typed, NEW t \in Task, drain[t].pc # "idle", NEW lost, Suspect(t, lost),
         UNCHANGED <<rowVars, fate, delivered>>
  PROVE  QueueStep
<1>1. drain[t].id \in Ids /\ drain[t].id < next
  BY DEF Typed, TypeOK, Drain, Issued
<1>2. CASE doubt' = doubt
  BY <1>2, QueueSame DEF Status
<1>3. CASE doubt' = doubt \cup {drain[t].id}
  <2> DEFINE S == {drain[t].id}
  <2>1. S \subseteq Ids /\ (\A id \in S : id < next) /\ doubt' = doubt \cup S
    BY <1>1, <1>3
  <2> HIDE DEF S
  <2> QED BY <2>1, QueueLose
<1> QED BY <1>2, <1>3 DEF Suspect

\* An envelope that is accepted was not, and its mail is not complete; or the mail is in
\* doubt.
LEMMA QueueSubmit ==
  ASSUME Typed, Whole, Once, NEW t \in Task, At(t, "send"),
         Deliver(drain[t].id, drain[t].sent + 1),
         doubt' \in {doubt, doubt \cup {drain[t].id}}, UNCHANGED <<rowVars, fate>>
  PROVE  QueueStep
<1>1. TypeOK /\ drain[t] \in Drain /\ drain[t].id \in Ids /\ mail[drain[t].id] \in Mail
  BY DEF Typed, TypeOK, Drain
<1> DEFINE r == drain[t].id
           k == drain[t].sent + 1
<1>2. /\ Busy(t) /\ r \in Ids /\ k \in 1..MaxEnvelopes /\ k <= Size(r)
      /\ k > drain[t].sent
  BY <1>1, EnvelopesBound DEF At, Busy, Typed, Progress, Drain, Size
<1>3. r \notin doubt => delivered[r][k] = 0
  BY <1>2 DEF Once, Unsent, AllBut
<1>4. fate[r] # "unused" /\ (r \notin doubt => fate[r] # "sent")
  <2>1. r < next /\ r \in Nat /\ next \in Nat
    <3>1. r < next
      BY <1>2 DEF Typed, Issued, Busy
    <3>2. r \in Nat
      BY <1>1, IdsInNat
    <3>3. next \in Nat
      BY <1>1 DEF TypeOK
    <3> QED BY <3>1, <3>2, <3>3
  <2>2. fate[r] # "unused"
    BY <1>1, <2>1 DEF Typed, Issued
  <2>3. r \notin doubt => fate[r] # "sent"
    <3>1. k \in 1..Envelopes(mail[r].kind)
      BY <1>1, <1>2, EnvelopesBound DEF Size
    <3> QED BY <1>2, <1>3, <3>1 DEF Whole, SentIsDelivered
  <2> QED BY <2>2, <2>3
<1>5. Status(r) # "unused" /\ (r \notin doubt => Status(r) # "sent")
  BY <1>1, <1>4 DEF Status
<1>6. delivered' = [delivered EXCEPT ![r] = [@ EXCEPT ![k] = IF delivered[r][k] = 0 THEN 1 ELSE 2]]
  BY DEF Deliver
<1>8. /\ [id \in Ids |-> Envelopes(mail'[id].kind)] = [id \in Ids |-> Envelopes(mail[id].kind)]
      /\ [id \in Ids |-> IF fate'[id] \in Gone \ {"sent"} THEN "withdrawn" ELSE fate'[id]]
         = [id \in Ids |-> IF fate[id] \in Gone \ {"sent"} THEN "withdrawn" ELSE fate[id]]
  BY DEF rowVars
<1>9. doubt' \in {doubt, doubt \cup {r}} /\ UNCHANGED rowVars
  OBVIOUS
<1> HIDE DEF r, k
<1>10. Queue!Deliver(r, k)
  BY <1>2, <1>3, <1>5, <1>6, <1>8, <1>9
     DEF Queue!Deliver, Queue!Submit, Size, Status, rowVars
<1> QED BY <1>2, <1>10 DEF QueueStep, Queue!QNext, Ids

\* A mail that is sent is with the server, all of it.
LEMMA QueueComplete ==
  ASSUME Typed, Whole, NEW t \in Task, At(t, "sent"), Remove(drain[t].id, "sent"),
         UNCHANGED <<rowVars, delivered, doubt>>
  PROVE  QueueStep
<1>1. TypeOK /\ drain[t] \in Drain /\ drain[t].id \in Ids /\ mail[drain[t].id] \in Mail
  BY DEF Typed, TypeOK, Drain
<1>2. PICK r \in Ids : r = drain[t].id
  BY <1>1
<1>3. CASE fate[r] # "queued"
  <2>1. \A i \in Ids : Status(i)' = Status(i)
    BY <1>1, <1>2, <1>3 DEF Remove, TypeOK, Status
  <2> QED BY <2>1, QueueSame
<1>4. CASE fate[r] = "queued"
  <2>1. \A i \in Ids : Status(i)' = IF i = r THEN "sent" ELSE Status(i)
    BY <1>1, <1>2, <1>4 DEF Remove, TypeOK, Status
  <2>2. [i \in Ids |-> IF fate'[i] \in Gone \ {"sent"} THEN "withdrawn" ELSE fate'[i]]
        = [[i \in Ids |-> IF fate[i] \in Gone \ {"sent"} THEN "withdrawn" ELSE fate[i]]
             EXCEPT ![r] = "sent"]
    BY <2>1 DEF Status
  <2>3. [i \in Ids |-> Envelopes(mail'[i].kind)] = [i \in Ids |-> Envelopes(mail[i].kind)]
    BY DEF rowVars
  <2>4. \A e \in 1..Size(r) : delivered[r][e] >= 1
    <3>1. SUFFICES ASSUME NEW e \in 1..Size(r)
                   PROVE  delivered[r][e] >= 1
      OBVIOUS
    <3>2. drain[t].sent = Size(r) /\ e \in 1..MaxEnvelopes /\ e <= drain[t].sent
      BY <1>1, <1>2, EnvelopesBound DEF Typed, Progress, At, Size
    <3> QED BY <1>2, <3>2 DEF Whole, Carried, At
  <2>5. Queue!Complete(r)
    BY <1>4, <2>2, <2>3, <2>4 DEF Queue!Complete, rowVars, Gone, Size
  <2> QED BY <2>5 DEF QueueStep, Queue!QNext, Ids
<1> QED BY <1>3, <1>4

LEMMA QueueNext ==
  ASSUME Typed, Whole, Once, [Next]_vars
  PROVE  QueueStep
<1>1. TypeOK /\ mail \in [Ids -> Mail]
  BY DEF Typed, TypeOK
<1>2. ASSUME UNCHANGED <<rowVars, fate, delivered, doubt>>
      PROVE  QueueStep
  BY <1>2, QueueSame DEF Status
<1>3. CASE UserStep
  <2>1. ASSUME NEW w \in Worker, NEW a \in Account, NEW k \in Kinds, NEW p \in Passes,
               SendNew(w, a, k, p)
        PROVE  QueueStep
    <3>1. next \in Ids
      BY <1>1, <2>1 DEF SendNew, Insert, TypeOK, Ids
    <3>2. [account |-> a, kind |-> k, root |-> next] \in Mail
      BY <3>1 DEF Mail
    <3> QED BY <1>1, <2>1, <3>2, QueuePut DEF SendNew
  <2>2. ASSUME NEW id \in Ids, NEW w \in Worker, NEW p \in Passes, ReplaceInsert(id, w, p)
        PROVE  QueueStep
    <3>1. mail[id] \in Mail
      BY <1>1
    <3> QED BY <1>1, <1>2, <2>2, <3>1, QueuePut DEF ReplaceInsert
  <2>3. ASSUME NEW id \in Ids, CancelEdit(id)
        PROVE  QueueStep
    <3>1. \A i \in Ids : Status(i)' = Status(i)
      BY <1>1, <2>3 DEF CancelEdit, TypeOK, Status, Gone
    <3> QED BY <2>3, <3>1, QueueSame DEF CancelEdit
  <2>4. ASSUME NEW id \in Ids, ReplaceRemove(id) \/ EditEntry(id) \/ DeleteEntry(id)
        PROVE  QueueStep
    BY <1>1, <1>2, <2>4, QueueWithdraw DEF ReplaceRemove, EditEntry, DeleteEntry, Gone
  <2> QED BY <1>2, <1>3, <2>1, <2>2, <2>3, <2>4
          DEF UserStep, OpenEdit, Retry, RetryWithPassphrase, RemoveAccount
<1>4. ASSUME NEW t \in Task, DrainStep(t)
      PROVE  QueueStep
  <2>1. drain[t].id \in Ids
    BY <1>1 DEF TypeOK, Drain
  <2>2. CASE Load(t)
    BY <1>1, <1>2, <2>1, <2>2, QueueWithdraw DEF Load, Gone
  <2>3. CASE Finish(t)
    <3>1. CASE Remove(drain[t].id, "sent") /\ UNCHANGED doubt
      BY <2>3, <3>1, QueueComplete DEF Finish
    <3>2. CASE UNCHANGED fate /\ Suspect(t, TRUE)
      BY <2>3, <3>2, QueueSuspect DEF Finish, At
    <3> QED BY <2>3, <3>1, <3>2 DEF Finish
  <2>4. CASE Accept(t) \/ LoseReply(t)
    BY <2>4, QueueSubmit DEF Accept, LoseReply, Suspect
  <2>5. CASE Claim(t)
    <3>1. CASE UNCHANGED doubt
      BY <1>2, <2>5, <3>1 DEF Claim
    <3>2. CASE Suspect(t, Overlaps(t))
      BY <2>5, <3>2, QueueSuspect DEF Claim, At
    <3> QED BY <2>5, <3>1, <3>2 DEF Claim
  <2>6. CASE Refuse(t) \/ Reject(t)
    BY <2>6, QueueSuspect DEF Refuse, Reject, At
  <2> QED BY <1>4, <2>2, <2>3, <2>4, <2>5, <2>6 DEF DrainStep
<1>5. CASE Crash
  <2> DEFINE S == {drain[t].id : t \in {u \in Task : drain[u].sent > 0}}
  <2>1. \A t \in Task : drain[t].sent > 0 => drain[t].id \in Ids /\ drain[t].id < next
    <3>1. ASSUME NEW t \in Task, drain[t].sent > 0
          PROVE  drain[t].id \in Ids /\ drain[t].pc # "idle"
      BY <1>1, <3>1 DEF Typed, TypeOK, Drain, Progress
    <3> QED BY <3>1 DEF Typed, Issued
  <2>2. S \subseteq Ids /\ \A id \in S : id < next
    BY <2>1
  <2>3. doubt' = doubt \cup S /\ UNCHANGED <<rowVars, fate, delivered>>
    BY <1>5 DEF Crash
  <2> HIDE DEF S
  <2> QED BY <2>2, <2>3, QueueLose
<1>6. CASE SweepStart \/ SweepNext \/ Tick \/ UNCHANGED vars
  BY <1>2, <1>6 DEF SweepStart, SweepNext, Tick, vars, rowVars
<1> QED BY <1>3, <1>4, <1>5, <1>6 DEF Next

\* The outbox keeps what SubmissionQueue promises, for any number of rows, drains and
\* envelopes and under every hazard: each of its steps is a step of the queue or none.
\* Each mail is handed over an envelope at a time, none of them twice unless the mail is
\* in doubt, counts as sent when the server has all of it, and never comes back.
THEOREM OutboxIsQueue == Spec => QueueSpec
<1> DEFINE Inv == Typed /\ Lease /\ Once /\ Whole
<1>1. Init => Inv /\ Queue!QInit
  BY TypedInit, LeaseInit, OnceInit, WholeInit, QueueInit
<1>2. Inv /\ [Next]_vars => Inv'
  BY TypedNext, LeaseNext, OnceNext, WholeNext
<1>3. Inv /\ [Next]_vars => [Queue!QNext]_(Queue!qvars)
  BY QueueNext DEF QueueStep
<1> QED BY <1>1, <1>2, <1>3, PTL DEF Spec, QueueSpec, Queue!QSpec

=============================================================================
