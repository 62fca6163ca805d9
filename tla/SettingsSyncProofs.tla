-------------------------- MODULE SettingsSyncProofs --------------------------
(***************************************************************************)
(* Proofs about SettingsSync, for any accounts, bounds and failures.       *)
(***************************************************************************)
EXTENDS SettingsSync, TLAPS

\* What holds when no permit waits in the Notify and no failing read or write of
\* the file dropped a change: what the worker read is still what there is, so it
\* comes to rest only with the latest version backed up or with the file marked.
Fresh ==
  /\ At("wait") /\ file.target # None /\ ~ file.pending
       => backup[file.target] = Current
  /\ worker.pc \in {"push", "ok", "err"} => worker.file = file
  /\ At("push") => worker.bundle = Current
  /\ At("ok") => backup[file.target] = Current

\* Every version was paid for by a change of the user's.
Typed == TypeOK /\ settings + local <= changes

\* The inductive invariant.
IInv == Typed /\ (crashes = 0 /\ ~ permit /\ ~ dropped => Fresh)

USE SettingsAssumption DEF SettingsAssumption

-----------------------------------------------------------------------------
\* Type correctness.

LEMMA InitTyped == Init => Typed
<1> SUFFICES ASSUME Init PROVE Typed
  OBVIOUS
<1> USE DEF Init, Version, Bundle, File
<1>1. 0 \in Version /\ 0 \in 0..MaxChanges /\ 0 \in 0..MaxCrashes /\ 0 \in 0..MaxFaults
  OBVIOUS
<1>2. worker \in Worker /\ worker.pc = "wait"
  BY <1>1 DEF Waiting, Worker
<1>3. backup \in [Nc -> Bundle]
  BY <1>1
<1>4. file \in File /\ unsent \in BOOLEAN /\ permit \in BOOLEAN /\ dropped \in BOOLEAN
  OBVIOUS
<1>5. settings + local <= changes
  OBVIOUS
<1>6. TypeOK
  BY <1>1, <1>2, <1>3, <1>4 DEF TypeOK
<1> QED BY <1>5, <1>6 DEF Typed

\* What the user's commands leave alone keeps its type.
LEMMA UserTyped ==
  ASSUME Typed,
         \/ ChangeSettings \/ ChangeLocal \/ Notify
         \/ \E n \in Nc \cup {None} : SetTarget(n)
  PROVE  Typed'
<1> USE DEF Typed, TypeOK, Version
<1>1. CASE ChangeSettings
  BY <1>1 DEF ChangeSettings, Spend
<1>2. CASE ChangeLocal
  BY <1>2 DEF ChangeLocal, Spend
<1>3. CASE Notify
  BY <1>3 DEF Notify
<1>4. CASE \E n \in Nc \cup {None} : SetTarget(n)
  BY <1>4 DEF SetTarget, Spend, File
<1> QED BY <1>1, <1>2, <1>3, <1>4

LEMMA WorkerTyped ==
  ASSUME Typed, WorkerStep
  PROVE  Typed'
<1> USE DEF Typed, TypeOK
<1>w. Waiting \in Worker
  BY DEF Waiting, Worker, File, Bundle, Version
<1>1. CASE Wake \/ Debounce \/ RetryTick
  BY <1>1 DEF Wake, Debounce, RetryTick, At, Goto, Worker
<1>2. CASE Load
  <2>1. \/ worker' = Waiting
        \/ worker' \in Worker /\ worker'.file.target \in Nc
    BY <1>2 DEF Load, GiveUp, Worker, File, Bundle
  <2>2. Waiting.pc = "wait"
    BY DEF Waiting
  <2>3. file' \in File /\ faults' \in 0..MaxFaults
    <3>1. \/ file' = file
          \/ file.pending /\ file' = [file EXCEPT !.pending = FALSE]
      BY <1>2 DEF Load, Write
    <3>2. file' \in File
      BY <3>1 DEF File
    <3>3. Fault \/ faults' = faults
      BY <1>2 DEF Load, Write
    <3>4. faults' \in 0..MaxFaults
      BY <3>3 DEF Fault
    <3> QED BY <3>2, <3>4
  <2>4. dropped' \in BOOLEAN
    BY <1>2 DEF Load, GiveUp
  <2> QED BY <1>2, <1>w, <2>1, <2>2, <2>3, <2>4 DEF Load
<1>3. CASE Push
  <2>1. worker' \in Worker /\ worker'.file = worker.file
    BY <1>3 DEF Push, Goto, Worker
  <2>2. worker.file.target \in Nc /\ worker.bundle \in Bundle
    BY <1>3 DEF Push, At, Worker
  <2>3. backup' \in [Nc -> Bundle]
    BY <1>3, <2>2 DEF Push
  <2> QED BY <1>3, <2>1, <2>2, <2>3 DEF Push
<1>4. CASE Save
  <2>1. worker' = Waiting /\ Waiting.pc = "wait"
    BY <1>4 DEF Save, GiveUp, Waiting
  <2>2. file' \in File /\ faults' \in 0..MaxFaults
    <3>1. file' = file \/ \E b \in BOOLEAN : file' = [worker.file EXCEPT !.pending = b]
      BY <1>4 DEF Save, Write, At
    <3>2. file' \in File
      BY <3>1 DEF File, Worker
    <3>3. Fault \/ faults' = faults
      BY <1>4 DEF Save, Write
    <3>4. faults' \in 0..MaxFaults
      BY <3>3 DEF Fault
    <3> QED BY <3>2, <3>4
  <2>3. dropped' \in BOOLEAN
    BY <1>4 DEF Save, GiveUp
  <2> QED BY <1>4, <1>w, <2>1, <2>2, <2>3 DEF Save
<1> QED BY <1>1, <1>2, <1>3, <1>4 DEF WorkerStep

LEMMA RestartTyped ==
  ASSUME Typed, Restart
  PROVE  Typed'
<1>1. Waiting \in Worker /\ 0 \in Version
  BY DEF Waiting, Worker, File, Bundle, Version
<1>2. permit' \in BOOLEAN
  BY DEF Restart
<1>3. crashes' \in 0..MaxCrashes /\ faults' \in 0..MaxFaults
  BY DEF Typed, TypeOK, Restart, Fault
<1>4. worker' \in Worker /\ worker'.pc = "wait"
  BY <1>1 DEF Restart, Waiting
<1>5. TypeOK'
  BY <1>1, <1>2, <1>3, <1>4 DEF Typed, TypeOK, Restart
<1> QED BY <1>5 DEF Typed, Restart

LEMMA StepTyped == Typed /\ [Next]_vars => Typed'
<1> SUFFICES ASSUME Typed, [Next]_vars PROVE Typed'
  OBVIOUS
<1>1. CASE UNCHANGED vars
  BY <1>1 DEF Typed, TypeOK, vars
<1> QED BY <1>1, UserTyped, WorkerTyped, RestartTyped DEF Next

\* Every variable keeps its type: the worker pushes to an account only, and no
\* version runs ahead of the user's changes.
THEOREM TypeCorrect == Spec => []TypeOK
<1>1. Typed => TypeOK
  BY DEF Typed
<1> QED BY <1>1, InitTyped, StepTyped, PTL DEF Spec

-----------------------------------------------------------------------------
\* No change is forgotten.

LEMMA InitFresh == Init => IInv
<1> SUFFICES ASSUME Init PROVE Fresh
  BY InitTyped DEF IInv
<1> QED BY DEF Init, Fresh, At, Waiting

\* Whatever the user does that a bundle shows leaves a permit.
LEMMA UserFresh ==
  ASSUME IInv,
         \/ ChangeSettings \/ ChangeLocal \/ Notify
         \/ \E n \in Nc \cup {None} : SetTarget(n)
  PROVE  crashes' = 0 /\ ~ permit' /\ ~ dropped' => Fresh'
<1>1. CASE ChangeSettings \/ Notify \/ \E n \in Nc \cup {None} : SetTarget(n)
  BY <1>1 DEF ChangeSettings, Notify, SetTarget
<1>2. CASE ChangeLocal
  BY <1>2 DEF IInv, Fresh, ChangeLocal, At, Current
<1> QED BY <1>1, <1>2

LEMMA WorkerFresh ==
  ASSUME IInv, WorkerStep, crashes' = 0, ~ permit', ~ dropped'
  PROVE  Fresh'
<1>1. CASE Wake
  BY <1>1 DEF IInv, Typed, TypeOK, Worker, Fresh, Wake, At, Goto
<1>2. CASE Debounce \/ RetryTick
  BY <1>2 DEF IInv, Typed, TypeOK, Worker, Fresh, Debounce, RetryTick, At, Goto
<1>3. CASE Load
  <2>1. CASE worker' = Waiting
    <3>t. file \in File /\ Waiting.pc # "push"
      BY DEF IInv, Typed, TypeOK, Waiting
    <3>1. file'.target # None => file'.pending
      <4>1. CASE file.target = None /\ UNCHANGED file
        BY <4>1
      <4>2. CASE file.target = None /\ file' = [file EXCEPT !.pending = FALSE]
        BY <3>t, <4>2 DEF File
      <4>3. CASE UNCHANGED file /\ GiveUp
        BY <3>t, <4>3 DEF GiveUp, File
      <4> QED BY <1>3, <2>1, <3>t, <4>1, <4>2, <4>3 DEF Load, Write
    <3>2. worker'.pc = "wait"
      BY <2>1 DEF Waiting
    <3> QED BY <3>1, <3>2 DEF Fresh, At
  <2>2. CASE worker' = [pc |-> "push", file |-> file,
                        bundle |-> [settings |-> settings, local |-> told]]
    <3>1. file' = file
      BY <1>3, <2>2 DEF Load, GiveUp, Waiting
    <3>2. settings' = settings /\ told' = told
      BY <1>3 DEF Load
    <3> QED BY <2>2, <3>1, <3>2 DEF Fresh, At, Current
  <2> QED BY <1>3, <2>1, <2>2 DEF Load, GiveUp
<1>4. CASE Push
  BY <1>4 DEF IInv, Typed, TypeOK, Worker, Fresh, Push, At, Goto, Current
<1>5. CASE Save
  <2>t. /\ worker' = Waiting /\ worker'.pc = "wait"
        /\ backup' = backup /\ permit' = permit /\ crashes' = crashes /\ Current' = Current
    BY <1>5 DEF Save, GiveUp, Waiting, Current
  <2>1. CASE At("err")
    <3>1. file'.pending
      BY <1>5, <2>1 DEF Save, GiveUp, IInv, Typed, TypeOK
    <3> QED BY <2>t, <3>1 DEF Fresh, At
  <2>2. CASE At("ok")
    <3>1. ~ At("err") /\ dropped' = dropped
      BY <1>5, <2>2 DEF Save, At
    <3>2. Fresh
      BY <2>t, <3>1 DEF IInv
    <3>3. worker.file = file /\ backup[file.target] = Current /\ file \in File
      BY <2>2, <3>2 DEF Fresh, At, IInv, Typed, TypeOK
    <3>4. file' = file \/ file' = [file EXCEPT !.pending = FALSE]
      BY <1>5, <3>1, <3>3 DEF Save, Write
    <3>5. file'.target = file.target
      BY <3>3, <3>4 DEF File
    <3> QED BY <2>t, <3>3, <3>5 DEF Fresh, At
  <2> QED BY <1>5, <2>1, <2>2 DEF Save
<1> QED BY <1>1, <1>2, <1>3, <1>4, <1>5 DEF WorkerStep

LEMMA StepFresh == IInv /\ [Next]_vars => IInv'
<1> SUFFICES ASSUME IInv, [Next]_vars, crashes' = 0, ~ permit', ~ dropped' PROVE Fresh'
  BY StepTyped DEF IInv
<1>1. CASE UNCHANGED vars
  BY <1>1 DEF IInv, Fresh, At, Current, vars
<1>2. CASE Restart
  BY <1>2 DEF IInv, Typed, TypeOK, Restart
<1> QED BY <1>1, <1>2, UserFresh, WorkerFresh DEF Next

\* While the program runs no change is forgotten: the worker rests with the
\* latest version backed up, or with something that wakes it again.  Only a file
\* that it cannot read, or cannot mark, makes it drop a change.
THEOREM NothingIsForgotten == Spec => []NothingForgotten
<1>1. IInv => NothingForgotten
  BY DEF IInv, Fresh, NothingForgotten
<1> QED BY <1>1, InitFresh, StepFresh, PTL DEF Spec
-----------------------------------------------------------------------------
\* Backups do not fall back.

\* No backup is ahead of the settings or of the bundle about to replace one.
Ahead ==
  \A n \in Nc :
    /\ backup[n].settings <= settings
    /\ At("push") => backup[n].settings <= worker.bundle.settings

Kept == Typed /\ Ahead /\ worker.bundle.settings <= settings

\* One step of a backup.
NoneFallsBack == \A n \in Nc : backup'[n].settings >= backup[n].settings

LEMMA NumbersTyped ==
  ASSUME Typed
  PROVE  /\ settings \in Nat
         /\ worker.bundle.settings \in Nat
         /\ \A n \in Nc : backup[n].settings \in Nat
<1> USE DEF Typed, TypeOK, Version
<1>1. worker.bundle \in Bundle
  BY DEF Worker
<1>2. \A n \in Nc : backup[n] \in Bundle
  OBVIOUS
<1> QED BY <1>1, <1>2 DEF Bundle

LEMMA InitKept == Init => Kept
<1> SUFFICES ASSUME Init PROVE Kept
  OBVIOUS
<1>1. worker.bundle.settings <= settings
  BY DEF Init, Waiting
<1>2. settings = 0 /\ \A n \in Nc : backup[n].settings = 0
  BY DEF Init
<1>3. worker.pc # "push"
  <2>1. Waiting.pc = "wait"
    BY DEF Waiting
  <2> QED BY <2>1 DEF Init
<1>4. Ahead
  <2>1. ASSUME NEW n \in Nc PROVE backup[n].settings <= settings
    BY <1>2, <2>1
  <2> QED BY <1>3, <2>1 DEF Ahead, At
<1> QED BY <1>1, <1>4, InitTyped DEF Kept

LEMMA PushKept ==
  ASSUME Kept, Push
  PROVE  NoneFallsBack /\ Ahead' /\ worker'.bundle.settings <= settings'
<1>t. settings' = settings /\ worker'.bundle = worker.bundle /\ worker'.pc # "push"
  BY DEF Push, Goto, Kept, Typed, TypeOK, Worker
<1>1. CASE backup' = [backup EXCEPT ![worker.file.target] = worker.bundle]
  <2>1. \A n \in Nc : \/ backup'[n] = backup[n]
                      \/ backup'[n] = worker.bundle
    BY <1>1 DEF Kept, Typed, TypeOK
  <2>2. \A n \in Nc : /\ backup'[n].settings >= backup[n].settings
                      /\ backup'[n].settings <= settings
    BY <2>1, NumbersTyped DEF Kept, Ahead, Push
  <2> QED BY <1>t, <2>2 DEF NoneFallsBack, Ahead, At, Kept
<1>2. CASE backup' = backup
  <2>1. NoneFallsBack
    BY <1>2, NumbersTyped DEF NoneFallsBack, Kept
  <2> QED BY <1>t, <1>2, <2>1 DEF Ahead, At, Kept
<1> QED BY <1>1, <1>2 DEF Push

\* Every other step leaves the backups alone.
LEMMA RestKept ==
  ASSUME Kept, [Next]_vars, ~ Push
  PROVE  NoneFallsBack /\ Ahead' /\ worker'.bundle.settings <= settings'
<1>1. backup' = backup
  BY DEF Next, WorkerStep, vars, ChangeSettings, ChangeLocal, Notify, SetTarget, Wake, Debounce,
         RetryTick, Load, Save, Restart
<1>2. NoneFallsBack
  BY <1>1, NumbersTyped DEF NoneFallsBack, Kept
<1>3. settings' \in Nat /\ settings <= settings'
  BY NumbersTyped DEF Kept, Next, WorkerStep, vars, ChangeSettings, ChangeLocal, Notify, SetTarget,
     Wake, Debounce, RetryTick, Load, Save, Restart
<1>4. \/ worker' = worker
      \/ /\ worker'.pc # "push"
         /\ worker'.bundle = worker.bundle \/ worker'.bundle.settings = 0
      \/ Load /\ worker'.bundle.settings = settings /\ settings' = settings
  <2>1. CASE Wake \/ Debounce \/ RetryTick
    BY <2>1 DEF Wake, Debounce, RetryTick, Goto, Kept, Typed, TypeOK, Worker
  <2>2. CASE Load
    BY <2>2 DEF Load, GiveUp, Waiting
  <2>3. CASE Save \/ Restart
    BY <2>3 DEF Save, Restart, GiveUp, Waiting
  <2>4. CASE \/ UNCHANGED vars \/ ChangeSettings \/ ChangeLocal \/ Notify
             \/ \E n \in Nc \cup {None} : SetTarget(n)
    BY <2>4 DEF vars, ChangeSettings, ChangeLocal, Notify, SetTarget
  <2> QED BY <2>1, <2>2, <2>3, <2>4 DEF Next, WorkerStep
<1>5. worker'.bundle.settings <= settings'
  BY <1>3, <1>4, NumbersTyped DEF Kept
<1>6. \A n \in Nc : backup'[n].settings <= settings'
  BY <1>1, <1>3, NumbersTyped DEF Kept, Ahead
<1>7. ASSUME NEW n \in Nc, At("push")'
      PROVE  backup'[n].settings <= worker'.bundle.settings
  BY <1>1, <1>4, <1>7 DEF Kept, Ahead, At
<1> QED BY <1>2, <1>5, <1>6, <1>7 DEF Ahead

LEMMA StepKept == Kept /\ [Next]_vars => Kept' /\ NoneFallsBack
BY PushKept, RestKept, StepTyped DEF Kept

\* No upload puts an older version of the stored settings into a backup, across
\* failures, changes of the account and restarts.
THEOREM BackupsKeepSettings == Spec => BackupKeepsSettings
<1>1. Kept /\ [Next]_vars => [NoneFallsBack]_vars
  BY StepKept
<1>2. Kept /\ [Next]_vars => Kept'
  BY StepKept
<1>3. Spec => [][NoneFallsBack]_vars
  BY <1>1, <1>2, InitKept, PTL DEF Spec
<1> QED BY <1>3 DEF BackupKeepsSettings, NoneFallsBack
=============================================================================
