--------------------------- MODULE RemindersProofs ---------------------------
(***************************************************************************)
(* Proofs about Reminders, for any events, alarms, messages and intervals. *)
(***************************************************************************)
EXTENDS Reminders, TLAPS

USE ReminderAssumption DEF ReminderAssumption

-----------------------------------------------------------------------------
(* The invariants. *)

\* What is closed or muted the user has silenced, and a command under way answers
\* an event.
Silenced ==
  /\ muted \subseteq excused
  /\ \A u \in Uid :
       (IF u \in Meeting THEN "meeting" ELSE "calendar") \notin gate => u \in excused
  /\ cmd.pc # "none" => cmd.uid \in answered
  /\ cmd.pc = "snoozes" \/ cmd.dismiss => cmd.uid \in dismissed

\* The clock stands while a pass runs, and runs at most MaxGap from one to the next.
Clock == /\ pass.pc # "idle" => last = now
         /\ now <= last + MaxGap

\* A pass sees what was silenced and snoozed when it began, unless the user has
\* answered since: that is what AnswerHeeded needs.
SnapshotTrue ==
  \A u \in Uid \ fresh :
    /\ pass.pc \in {"snoozes", "walk"} /\ u \in dismissed => u \in pass.dismissed
    /\ pass.pc = "walk" => snoozes[u] \in {pass.snoozes[u], None}

\* An alarm the user has heard is remembered until its occurrence begins, and not
\* heard of before the window.
Remembered ==
  \A a \in shown :
    /\ a[2] <= now + Window + Tolerance
    /\ a[1] \in answered \cup excused \/ <<a[1], a[3]>> \in fired \/ a[2] <= now
         \/ a[3] <= Tolerance

\* A pass has listed nothing that is not near, and all that is, when it forgets
\* the alarms of what it has not listed.
NearListed ==
  /\ \A o \in pass.todo : o[2] <= now + Window + Tolerance
  /\ pass.pc = "prune" =>
       \A o \in Occurrence :
         /\ o[1] \notin excused
         /\ now - Tolerance <= o[2] /\ o[2] <= now + Window + Tolerance
         => o \in pass.todo

OnceInv == Silenced /\ Clock /\ Remembered /\ NearListed /\ AlarmOnce

\* A reminder about to be cleared has been shown, and one about to be shown is due.
ScanSound ==
  /\ scan.pc = "clear" => scan.at \in Msg /\ promised[scan.at] = None
  /\ \A m \in scan.due : reminder[m] # None => reminder[m] <= now

\* The user still waits for a snooze to end.
Waits(u) == owed[u] # None /\ u \notin dismissed \cup excused

\* Its moment has come and the pass will show it.
InPass(u) ==
  /\ (IF u \in Meeting THEN "meeting" ELSE "calendar") \in pass.gate
  /\ \E o \in pass.todo : o[1] = u /\ now - Tolerance < o[2]
  /\ pass.pc = "walk" => pass.snoozes[u] = owed[u]

\* What the user waits for is in the map, has an occurrence that a pass lists, and
\* is either ahead or about to be shown.
SnoozeInv ==
  /\ \A u \in pass.evict : owed[u] = None
  /\ pass.pc \in {"snoozes", "walk"} => pass.dismissed \subseteq dismissed
  /\ \A u \in Uid : Waits(u) =>
       /\ snoozes[u] = owed[u]
       /\ \E s \in Starts[u] : owed[u] <= s /\ s <= now + Window + Tolerance
       /\ pass.pc = "idle" => last < owed[u]
       /\ pass.pc # "idle" => now < owed[u] \/ InPass(u)

-----------------------------------------------------------------------------
(* Types. *)

LEMMA LeadsAreLeads ==
  ASSUME NEW u \in Uid
  PROVE  Leads[u] \subseteq Lead /\ Leads[u] \subseteq Nat
BY DEF Lead

LEMMA NullsTyped == NoPass \in Pass /\ NoCmd \in Cmd /\ NoScan \in Scan
<1>1. NoPass \in Pass
  BY DEF NoPass, Pass, MaybeTime
<1>2. NoCmd \in Cmd /\ NoScan \in Scan
  BY DEF NoCmd, Cmd, NoScan, Scan
<1> QED BY <1>1, <1>2

\* TypeOK in a form the provers read.
Typed ==
  /\ now \in Time /\ last \in 0..now
  /\ gate \in SUBSET GateKind /\ muted \in SUBSET Uid
  /\ fired \in SUBSET (Uid \X Lead) /\ dismissed \in SUBSET Uid
  /\ snoozes \in [Uid -> MaybeTime]
  /\ pass \in Pass
  /\ cmd \in Cmd
  /\ reminder \in [Msg -> MaybeTime] /\ tombstoned \in SUBSET Msg
  /\ scan \in Scan
  /\ acts \in 0..MaxActs
  /\ again \in SUBSET shown /\ shown \in SUBSET Alarm
  /\ popups \in SUBSET (Occurrence \X (Lead \cup {Snoozed}))
  /\ fresh \in SUBSET Uid /\ answered \in SUBSET Uid /\ excused \in SUBSET Uid
  /\ owed \in [Uid -> MaybeTime] /\ promised \in [Msg -> MaybeTime]

LEMMA TypedIsTypeOK == Typed <=> TypeOK
BY DEF Typed, TypeOK

LEMMA InitTyped ==
  ASSUME Init
  PROVE  Typed
<1> USE DEF Init
<1>1. now \in Time /\ last \in 0..now /\ acts \in 0..MaxActs
  BY DEF Time
<1>2. snoozes \in [Uid -> MaybeTime] /\ owed \in [Uid -> MaybeTime]
      /\ reminder \in [Msg -> MaybeTime] /\ promised \in [Msg -> MaybeTime]
  BY DEF MaybeTime
<1> QED BY <1>1, <1>2, NullsTyped DEF Typed

\* The events and alarms of one turn of a pass are events and alarms.
LEMMA WalkTyped ==
  ASSUME Typed, NEW o \in Occurrence, Walk(o)
  PROVE  Typed'
<1> USE DEF Walk, messages
<1>1. o[1] \in Uid /\ o[2] \in Time /\ o[2] \in Starts[o[1]] /\ o = <<o[1], o[2]>>
  BY DEF Occurrence
<1>2. PICK u \in Uid : u = o[1]
  BY <1>1
<1> DEFINE ended == ~ Skipped(o) /\ pass.snoozes[u] # None
           leads == IF Skipped(o) \/ ended THEN {} ELSE DueLeads(o)
           alarms == {<<u, o[2], l>> : l \in leads}
<1>3. leads \subseteq Leads[u]
  BY <1>2 DEF DueLeads
<1>4. /\ fired' = fired \cup {<<u, l>> : l \in leads}
      /\ shown' = shown \cup alarms /\ again' = again \cup (alarms \cap shown)
      /\ popups' = popups \cup {<<o, l>> : l \in leads}
                          \cup (IF ended THEN {<<o, Snoozed>>} ELSE {})
      /\ owed' = IF ended THEN [owed EXCEPT ![u] = None] ELSE owed
      /\ pass' = [pass EXCEPT !.todo = @ \ {o},
                              !.evict = IF ended THEN @ \cup {u} ELSE @]
  BY <1>2
<1> HIDE DEF ended, leads, Walk
<1>5. fired' \in SUBSET (Uid \X Lead)
  BY <1>3, <1>4, LeadsAreLeads DEF Typed
<1>6. alarms \in SUBSET Alarm
  BY <1>1, <1>2, <1>3, LeadsAreLeads DEF Alarm
<1>7. shown' \in SUBSET Alarm /\ again' \in SUBSET shown'
  BY <1>4, <1>6 DEF Typed
<1>8. popups' \in SUBSET (Occurrence \X (Lead \cup {Snoozed}))
  BY <1>3, <1>4, LeadsAreLeads DEF Typed
<1>9. owed' \in [Uid -> MaybeTime]
  BY <1>4 DEF Typed, MaybeTime
<1>10. pass' \in Pass
  <2>1. PICK evict \in SUBSET Uid :
          pass' = [pass EXCEPT !.todo = @ \ {o}, !.evict = evict]
    BY <1>4 DEF Typed, Pass
  <2> QED BY <2>1 DEF Typed, Pass
<1>11. UNCHANGED <<now, last, settings, dismissed, snoozes, cmd, messages, acts, fresh,
                   answered, excused>>
  BY DEF Walk
<1> QED BY <1>5, <1>7, <1>8, <1>9, <1>10, <1>11 DEF Typed, settings

LEMMA PassStepTyped ==
  ASSUME Typed, PassStep
  PROVE  Typed'
<1> USE DEF messages, settings, memory, history
<1>1. CASE Begin
  <2>1. Listed \in SUBSET Occurrence
    BY DEF Listed
  <2>2. pass' \in Pass
    <3>1. CASE pass' = NoPass
      BY <3>1, NullsTyped
    <3>2. CASE pass' = [NoPass EXCEPT !.pc = "prune", !.gate = gate, !.todo = Listed]
      BY <2>1, <3>2 DEF NoPass, Pass, Typed, MaybeTime
    <3> QED BY <1>1, <3>1, <3>2 DEF Begin
  <2>3. last' \in 0..now /\ popups' = {} /\ fresh' \in SUBSET Uid
    BY <1>1 DEF Begin, Typed, Time
  <2>4. UNCHANGED <<now, settings, memory, cmd, messages, acts, shown, again, answered,
                    excused, owed>>
    BY <1>1 DEF Begin
  <2> QED BY <2>2, <2>3, <2>4 DEF Typed
<1>2. CASE Prune
  <2>1. pass' \in Pass
    BY <1>2 DEF Prune, Typed, Pass
  <2>2. fired' \in SUBSET (Uid \X Lead)
    BY <1>2 DEF Prune, Typed
  <2> QED BY <1>2, <2>1, <2>2 DEF Prune, Typed
<1>3. CASE SnapshotDismissed
  <2>1. pass' \in Pass
    BY <1>3 DEF SnapshotDismissed, Typed, Pass
  <2> QED BY <1>3, <2>1 DEF SnapshotDismissed, Typed
<1>4. CASE SnapshotSnoozes
  <2>1. pass' \in Pass
    BY <1>4 DEF SnapshotSnoozes, Typed, Pass
  <2> QED BY <1>4, <2>1 DEF SnapshotSnoozes, Typed
<1>5. CASE Evict
  <2>1. snoozes' \in [Uid -> MaybeTime]
    BY <1>5 DEF Evict, Typed, MaybeTime
  <2> QED BY <1>5, <2>1, NullsTyped DEF Evict, Typed
<1> QED BY <1>1, <1>2, <1>3, <1>4, <1>5, WalkTyped DEF PassStep

LEMMA SpendTyped ==
  ASSUME Typed, Spend
  PROVE  acts' \in 0..MaxActs
BY DEF Typed, Spend

LEMMA AnswerStepTyped ==
  ASSUME Typed, AnswerStep
  PROVE  Typed'
<1> USE DEF messages, settings, memory, history
<1>1. ASSUME NEW u \in Uid, Dismiss(u)
      PROVE  Typed'
  <2>1. acts' \in 0..MaxActs
    BY <1>1, SpendTyped DEF Dismiss
  <2>2. cmd' \in Cmd /\ owed' \in [Uid -> MaybeTime]
    BY <1>1 DEF Dismiss, Typed, Cmd, MaybeTime
  <2> QED BY <1>1, <2>1, <2>2 DEF Dismiss, Typed
<1>2. ASSUME NEW u \in Uid, NEW t \in Time, Snooze(u, t)
      PROVE  Typed'
  <2>1. acts' \in 0..MaxActs
    BY <1>2, SpendTyped DEF Snooze
  <2>2. cmd' \in Cmd
    BY <1>2 DEF Snooze, Cmd
  <2>3. owed' \in [Uid -> MaybeTime] /\ snoozes' \in [Uid -> MaybeTime]
    BY <1>2 DEF Snooze, Typed, MaybeTime
  <2> QED BY <1>2, <2>1, <2>2, <2>3 DEF Snooze, Typed
<1>3. ASSUME NEW u \in Uid, Mute(u)
      PROVE  Typed'
  <2>1. acts' \in 0..MaxActs
    BY <1>3, SpendTyped DEF Mute
  <2> QED BY <1>3, <2>1 DEF Mute, Typed
<1>4. ASSUME NEW g \in GateKind, SetGate(g)
      PROVE  Typed'
  <2>1. acts' \in 0..MaxActs
    BY <1>4, SpendTyped DEF SetGate
  <2>2. gate' \in SUBSET GateKind /\ excused' \in SUBSET Uid
    BY <1>4 DEF SetGate, Typed
  <2> QED BY <1>4, <2>1, <2>2 DEF SetGate, Typed
<1>5. CASE ForgetFired
  <2>1. cmd' \in Cmd
    BY <1>5, NullsTyped DEF ForgetFired, Typed, Cmd
  <2> QED BY <1>5, <2>1 DEF ForgetFired, Typed
<1>6. CASE ForgetSnooze
  <2>1. snoozes' \in [Uid -> MaybeTime]
    BY <1>6 DEF ForgetSnooze, Typed, MaybeTime
  <2> QED BY <1>6, <2>1, NullsTyped DEF ForgetSnooze, Typed
<1> QED BY <1>1, <1>2, <1>3, <1>4, <1>5, <1>6 DEF AnswerStep

LEMMA ScanStepTyped ==
  ASSUME Typed, ScanStep \/ RowStep
  PROVE  Typed'
<1> USE DEF events, settings, memory, history
<1>1. \A due \in SUBSET Msg : NextRow(due) \in Scan
  BY DEF NextRow, NoScan, Scan
<1>2. CASE ScanDue
  <2>1. scan' \in Scan
    BY <1>2 DEF ScanDue, Due, NoScan, Scan
  <2> QED BY <1>2, <2>1 DEF ScanDue, Typed
<1>3. ASSUME NEW m \in Msg, Emit(m)
      PROVE  Typed'
  <2>1. scan' \in Scan
    BY <1>3 DEF Emit, Typed, Scan
  <2>2. promised' \in [Msg -> MaybeTime]
    BY <1>3 DEF Emit, Typed, MaybeTime
  <2> QED BY <1>3, <2>1, <2>2 DEF Emit, Typed
<1>4. ASSUME NEW m \in Msg, EmitFails(m)
      PROVE  Typed'
  <2>1. acts' \in 0..MaxActs
    BY <1>4, SpendTyped DEF EmitFails
  <2>2. scan' \in Scan
    <3>1. scan.due \ {m} \in SUBSET Msg
      BY DEF Typed, Scan
    <3> QED BY <1>1, <1>4, <3>1 DEF EmitFails
  <2> QED BY <1>4, <2>1, <2>2 DEF EmitFails, Typed
<1>5. CASE Clear \/ ClearFails
  <2>1. scan' \in Scan
    <3>1. scan.due \in SUBSET Msg
      BY DEF Typed, Scan
    <3> QED BY <1>1, <1>5, <3>1 DEF Clear, ClearFails
  <2>2. acts' \in 0..MaxActs
    BY <1>5, SpendTyped DEF Clear, ClearFails, Typed
  <2>3. reminder' \in [Msg -> MaybeTime]
    BY <1>5 DEF Clear, ClearFails, Typed, MaybeTime
  <2> QED BY <1>5, <2>1, <2>2, <2>3 DEF Clear, ClearFails, Typed
<1>6. ASSUME NEW m \in Msg, NEW t \in MaybeTime, SetReminder(m, t)
      PROVE  Typed'
  <2>1. acts' \in 0..MaxActs
    BY <1>6, SpendTyped DEF SetReminder
  <2>2. reminder' \in [Msg -> MaybeTime] /\ promised' \in [Msg -> MaybeTime]
    BY <1>6 DEF SetReminder, Typed
  <2> QED BY <1>6, <2>1, <2>2 DEF SetReminder, Typed
<1>7. ASSUME NEW m \in Msg, Tombstone(m)
      PROVE  Typed'
  <2>1. acts' \in 0..MaxActs
    BY <1>7, SpendTyped DEF Tombstone
  <2> QED BY <1>7, <2>1 DEF Tombstone, Typed
<1> QED BY <1>2, <1>3, <1>4, <1>5, <1>6, <1>7 DEF ScanStep, RowStep

LEMMA NextTyped ==
  ASSUME Typed, [Next]_vars
  PROVE  Typed'
<1> USE DEF events, messages, settings, memory, history
<1>1. CASE Tick
  <2>1. now' \in Time /\ last' \in 0..now'
    BY <1>1 DEF Tick, Typed, Time
  <2> QED BY <1>1, <2>1 DEF Tick, Typed
<1>2. CASE Restart
  <2>1. acts' \in 0..MaxActs
    BY <1>2, SpendTyped DEF Restart
  <2>2. last' \in 0..now' /\ now' \in Time
    BY <1>2 DEF Restart, Typed, Time
  <2>3. snoozes' \in [Uid -> MaybeTime] /\ owed' \in [Uid -> MaybeTime]
    BY <1>2 DEF Restart, MaybeTime
  <2> QED BY <1>2, <2>1, <2>2, <2>3, NullsTyped DEF Restart, Typed
<1>3. CASE UNCHANGED vars
  BY <1>3 DEF vars, Typed
<1> QED BY <1>1, <1>2, <1>3, PassStepTyped, AnswerStepTyped, ScanStepTyped DEF Next

\* The state keeps its types, and no alarm counts as heard twice that was not heard.
THEOREM TypeCorrect == Spec => []TypeOK
<1>1. Init => Typed
  BY InitTyped
<1>2. Typed /\ [Next]_vars => Typed'
  BY NextTyped
<1>3. Typed => TypeOK
  BY TypedIsTypeOK
<1> QED BY <1>1, <1>2, <1>3, PTL DEF Spec

-----------------------------------------------------------------------------
(* Message reminders. *)

KeptInv == Typed /\ ScanSound /\ ReminderKept

\* A step that leaves the rows and the scan alone keeps what is known of them.
LEMMA MessagesKept ==
  ASSUME KeptInv, UNCHANGED messages, now <= now', now' \in Time
  PROVE  ScanSound' /\ ReminderKept'
<1>1. \A m \in Msg : reminder[m] \in MaybeTime /\ now \in Nat /\ now' \in Nat
  BY DEF KeptInv, Typed, Time
<1>2. ScanSound'
  <2>1. scan.pc = "clear" => scan.at \in Msg /\ promised[scan.at] = None
    BY DEF KeptInv, ScanSound
  <2>2. \A m \in scan.due : m \in Msg /\ (reminder[m] # None => reminder[m] <= now')
    BY <1>1 DEF KeptInv, ScanSound, MaybeTime, Time, Typed, Scan
  <2> QED BY <2>1, <2>2 DEF ScanSound, messages
<1>3. ReminderKept'
  BY DEF KeptInv, ReminderKept, messages
<1> QED BY <1>2, <1>3

LEMMA NextKept ==
  ASSUME "meanwhile" \notin Hazards, KeptInv, [Next]_vars
  PROVE  KeptInv'
<1>1. Typed' /\ now \in Nat
  BY NextTyped DEF KeptInv, Typed, Time
<1> USE DEF messages
<1>2. CASE Tick \/ PassStep \/ AnswerStep \/ UNCHANGED vars
  <2>1. UNCHANGED messages
    BY <1>2 DEF Tick, PassStep, AnswerStep, vars, Begin, Prune, SnapshotDismissed,
       SnapshotSnoozes, Evict, Walk, Dismiss, Mute, Snooze, ForgetFired, ForgetSnooze, SetGate
  <2>2. now' = now \/ now' = now + 1
    BY <1>2 DEF Tick, PassStep, AnswerStep, vars, Begin, Prune, SnapshotDismissed,
       SnapshotSnoozes, Evict, Walk, Dismiss, Mute, Snooze, ForgetFired, ForgetSnooze, SetGate
  <2>3. now <= now' /\ now' \in Time
    BY <1>1, <2>2 DEF Typed, Time
  <2> QED BY <1>1, <2>1, <2>3, MessagesKept DEF KeptInv
<1>3. CASE ScanDue
  <2>1. ScanSound'
    BY <1>3 DEF ScanDue, ScanSound, NoScan, Due
  <2> QED BY <1>1, <1>3, <2>1 DEF ScanDue, KeptInv, ReminderKept
<1>4. ASSUME NEW m \in Msg, Emit(m)
      PROVE  ScanSound' /\ ReminderKept'
  <2>1. /\ scan'.pc = "clear" /\ scan'.due = scan.due \ {m} /\ scan'.at = m
        /\ reminder' = reminder /\ now' = now
    BY <1>4 DEF Emit, KeptInv, Typed, Scan
  <2>2. promised[m] # None => promised[m] <= now
    BY <1>4 DEF Emit, KeptInv, ScanSound, ReminderKept
  <2>3. promised'[m] = None /\ \A n \in Msg : n # m => promised'[n] = promised[n]
    BY <1>4, <2>2 DEF Emit, KeptInv, Typed
  <2>4. ScanSound'
    BY <2>1, <2>3 DEF KeptInv, ScanSound
  <2>5. ReminderKept'
    BY <2>1, <2>3 DEF KeptInv, ReminderKept
  <2> QED BY <2>4, <2>5
<1>5. ASSUME NEW m \in Msg, EmitFails(m)
      PROVE  ScanSound' /\ ReminderKept'
  <2>1. scan'.pc # "clear" /\ scan'.due \in SUBSET scan.due
    BY <1>5 DEF EmitFails, NextRow, NoScan
  <2>2. UNCHANGED <<now, reminder, promised>>
    BY <1>5 DEF EmitFails
  <2> QED BY <2>1, <2>2 DEF KeptInv, ScanSound, ReminderKept
<1>6. CASE Clear \/ ClearFails
  <2>a. scan' = NextRow(scan.due) /\ scan.pc = "clear"
    BY <1>6 DEF Clear, ClearFails
  <2>b. scan'.pc # "clear" /\ scan'.due \in SUBSET scan.due
    BY <2>a DEF NextRow, NoScan
  <2>c. scan.at \in Msg /\ promised[scan.at] = None
    BY <2>a DEF KeptInv, ScanSound
  <2>d. scan.due \subseteq Msg
    BY DEF KeptInv, Typed, Scan
  <2>1. /\ scan'.pc # "clear" /\ scan'.due \in SUBSET scan.due
        /\ scan.at \in Msg /\ promised[scan.at] = None /\ scan.due \subseteq Msg
    BY <2>b, <2>c, <2>d
  <2>2. /\ \A m \in Msg : reminder'[m] = reminder[m] \/ (m = scan.at /\ reminder'[m] = None)
        /\ UNCHANGED <<now, promised>>
    BY <1>6 DEF Clear, ClearFails, KeptInv, Typed
  <2>3. ScanSound'
    BY <2>1, <2>2 DEF KeptInv, ScanSound
  <2>4. ReminderKept'
    BY <2>1, <2>2 DEF KeptInv, ReminderKept
  <2> QED BY <1>1, <2>3, <2>4 DEF KeptInv
<1>7. ASSUME NEW m \in Msg, NEW t \in MaybeTime, SetReminder(m, t)
      PROVE  ScanSound' /\ ReminderKept'
  <2>1. m \notin scan.due /\ m # scan.at
    BY <1>7 DEF SetReminder, Hazard
  <2>2. /\ reminder'[m] = t /\ promised'[m] = t
        /\ \A n \in Msg : n # m => reminder'[n] = reminder[n] /\ promised'[n] = promised[n]
        /\ UNCHANGED <<now, scan>>
    BY <1>7 DEF SetReminder, KeptInv, Typed, events
  <2>3. scan.due \subseteq Msg
    BY DEF KeptInv, Typed, Scan
  <2>4. ScanSound'
    BY <2>1, <2>2, <2>3 DEF KeptInv, ScanSound
  <2>5. ReminderKept'
    BY <2>2 DEF KeptInv, ReminderKept
  <2> QED BY <2>4, <2>5
<1>8. ASSUME NEW m \in Msg, Tombstone(m)
      PROVE  ScanSound' /\ ReminderKept'
  BY <1>8 DEF Tombstone, KeptInv, ScanSound, ReminderKept
<1>9. CASE Restart
  BY <1>1, <1>9 DEF Restart, KeptInv, ScanSound, ReminderKept, NoScan
<1> QED BY <1>1, <1>2, <1>3, <1>4, <1>5, <1>6, <1>7, <1>8, <1>9
        DEF Next, ScanStep, RowStep, KeptInv

\* A reminder that has not been shown is still in the column: neither a toast that
\* fails, nor a clearing that fails, nor a restart in the middle of a scan loses one.
\* Excluded is the user who sets one again while a scan is about to clear the row.
THEOREM RemindersKept ==
  ASSUME "meanwhile" \notin Hazards
  PROVE  Spec => []ReminderKept
<1>1. Init => KeptInv
  BY InitTyped DEF Init, KeptInv, ScanSound, ReminderKept, NoScan
<1>2. KeptInv /\ [Next]_vars => KeptInv'
  BY NextKept
<1>3. KeptInv => ReminderKept
  BY DEF KeptInv
<1> QED BY <1>1, <1>2, <1>3, PTL DEF Spec

-----------------------------------------------------------------------------
(* What the user has answered. *)

\* A step that leaves the pass, the user's answers and the record of them alone, or
\* drops a snooze, keeps what the pass knows of them.
LEMMA SnapshotKept ==
  ASSUME SnapshotTrue, UNCHANGED <<pass, dismissed, fresh>>,
         \A u \in Uid : snoozes'[u] \in {snoozes[u], None}
  PROVE  SnapshotTrue'
BY DEF SnapshotTrue

LEMMA NextSnapshot ==
  ASSUME Typed, SnapshotTrue, [Next]_vars
  PROVE  SnapshotTrue'
<1> USE DEF events, messages, settings, memory, history
<1>1. CASE Begin \/ Prune \/ Evict \/ Restart
  <2>1. CASE Begin
    <3>1. pass'.pc \in {"idle", "prune"}
      BY <2>1 DEF Begin, NoPass
    <3> QED BY <3>1 DEF SnapshotTrue
  <2>2. CASE Prune
    <3>1. pass'.pc = "dismissed"
      BY <2>2 DEF Prune, Typed, Pass
    <3> QED BY <3>1 DEF SnapshotTrue
  <2>3. CASE Evict \/ Restart
    <3>1. pass'.pc = "idle"
      BY <2>3 DEF Evict, Restart, NoPass
    <3> QED BY <3>1 DEF SnapshotTrue
  <2> QED BY <1>1, <2>1, <2>2, <2>3
<1>2. CASE SnapshotDismissed
  <2>1. pass'.pc = "snoozes" /\ pass'.dismissed = dismissed /\ dismissed' = dismissed
    BY <1>2 DEF SnapshotDismissed, Typed, Pass
  <2> QED BY <2>1 DEF SnapshotTrue
<1>3. CASE SnapshotSnoozes
  <2>1. /\ pass.pc = "snoozes" /\ pass'.pc = "walk"
        /\ pass'.snoozes = snoozes /\ pass'.dismissed = pass.dismissed
    BY <1>3 DEF SnapshotSnoozes, PassAt, Typed, Pass
  <2>2. UNCHANGED <<dismissed, snoozes, fresh>>
    BY <1>3 DEF SnapshotSnoozes
  <2> QED BY <2>1, <2>2 DEF SnapshotTrue
<1>4. ASSUME NEW o \in Occurrence, Walk(o)
      PROVE  SnapshotTrue'
  <2>1. /\ pass'.pc = pass.pc /\ pass'.snoozes = pass.snoozes
        /\ pass'.dismissed = pass.dismissed
    BY <1>4 DEF Walk, Typed, Pass
  <2>2. UNCHANGED <<dismissed, snoozes, fresh>>
    BY <1>4 DEF Walk
  <2> QED BY <2>1, <2>2 DEF SnapshotTrue
<1>5. ASSUME NEW u \in Uid, Dismiss(u)
      PROVE  SnapshotTrue'
  <2>1. /\ fresh' = fresh \cup {u} /\ dismissed' = dismissed \cup {u}
        /\ UNCHANGED <<pass, snoozes>>
    BY <1>5 DEF Dismiss
  <2> QED BY <2>1 DEF SnapshotTrue
<1>6. ASSUME NEW u \in Uid, NEW t \in Time, Snooze(u, t)
      PROVE  SnapshotTrue'
  <2>1. /\ fresh' = fresh \cup {u} /\ UNCHANGED <<pass, dismissed>>
        /\ \A v \in Uid : v # u => snoozes'[v] = snoozes[v]
    BY <1>6 DEF Snooze, Typed
  <2> QED BY <2>1 DEF SnapshotTrue
<1>7. CASE ForgetSnooze
  <2>1. \A u \in Uid : snoozes'[u] \in {snoozes[u], None}
    BY <1>7 DEF ForgetSnooze, Typed
  <2> QED BY <1>7, <2>1, SnapshotKept DEF ForgetSnooze
<1>8. ASSUME UNCHANGED <<pass, dismissed, fresh, snoozes>>
      PROVE  SnapshotTrue'
  BY <1>8, SnapshotKept
<1>9. CASE \/ Tick \/ ForgetFired \/ (\E g \in GateKind : SetGate(g))
           \/ (\E u \in Uid : Mute(u)) \/ UNCHANGED vars
  BY <1>8, <1>9 DEF Tick, ForgetFired, SetGate, Mute, vars
<1>10. CASE ScanStep \/ RowStep
  BY <1>8, <1>10 DEF ScanStep, RowStep, ScanDue, Clear, ClearFails, Emit, EmitFails,
     SetReminder, Tombstone
<1> QED BY <1>1, <1>2, <1>3, <1>4, <1>5, <1>6, <1>7, <1>9, <1>10
        DEF Next, PassStep, AnswerStep

\* What AnswerHeeded says of a step.
Heeds ==
  \A p \in popups' \ popups :
    LET u == p[1][1] IN
    \/ u \in fresh
    \/ u \notin dismissed /\ (snoozes[u] = None \/ snoozes[u] <= now)

LEMMA WalkHeeds ==
  ASSUME Typed, SnapshotTrue, NEW o \in Occurrence, Walk(o)
  PROVE  Heeds
<1>1. PICK u \in Uid : u = o[1]
  BY DEF Occurrence
<1>2. \A p \in popups' \ popups : p[1] = o /\ ~ Skipped(o)
  BY DEF Walk
<1>3. ASSUME ~ Skipped(o), u \notin fresh
      PROVE  u \notin dismissed /\ (snoozes[u] = None \/ snoozes[u] <= now)
  <2>1. pass.pc = "walk" /\ u \notin pass.dismissed
    BY <1>1, <1>3 DEF Walk, PassAt, Skipped
  <2>2. pass.snoozes[u] = None \/ (pass.snoozes[u] \in Nat /\ pass.snoozes[u] <= now)
    BY <1>1, <1>3 DEF Skipped, Typed, Pass, MaybeTime, Time
  <2> QED BY <1>3, <2>1, <2>2 DEF SnapshotTrue
<1> QED BY <1>1, <1>2, <1>3 DEF Heeds

LEMMA NextHeeds ==
  ASSUME Typed, SnapshotTrue, [Next]_vars
  PROVE  Heeds
<1>1. CASE \E o \in Occurrence : Walk(o)
  BY <1>1, WalkHeeds
<1>2. ASSUME popups' \subseteq popups
      PROVE  Heeds
  BY <1>2 DEF Heeds
<1> USE DEF events, history
<1>3. CASE Begin \/ Prune \/ SnapshotDismissed \/ SnapshotSnoozes \/ Evict
  BY <1>2, <1>3 DEF Begin, Prune, SnapshotDismissed, SnapshotSnoozes, Evict
<1>4. CASE AnswerStep
  BY <1>2, <1>4 DEF AnswerStep, Dismiss, Mute, Snooze, ForgetFired, ForgetSnooze, SetGate
<1>5. CASE ScanStep \/ RowStep
  BY <1>2, <1>5 DEF ScanStep, RowStep, ScanDue, Clear, ClearFails, Emit, EmitFails,
     SetReminder, Tombstone
<1>6. CASE Tick \/ Restart \/ UNCHANGED vars
  BY <1>2, <1>6 DEF Tick, Restart, vars
<1> QED BY <1>1, <1>3, <1>4, <1>5, <1>6 DEF Next, PassStep

\* No pass shows an event that was dismissed, or snoozed until later, before the pass
\* began: dismiss_event_reminder and snooze_event_reminder are heeded although the
\* pass reads the two maps under two locks, and evicts by uid what it has shown.
THEOREM AnswersHeeded == Spec => AnswerHeeded
<1>1. Init => Typed /\ SnapshotTrue
  BY InitTyped DEF Init, SnapshotTrue, NoPass
<1>2. Typed /\ SnapshotTrue /\ [Next]_vars => (Typed /\ SnapshotTrue)'
  BY NextTyped, NextSnapshot
<1>3. Typed /\ SnapshotTrue /\ [Next]_vars => [Heeds]_vars
  BY NextHeeds
<1> QED BY <1>1, <1>2, <1>3, PTL DEF Spec, AnswerHeeded, Heeds

-----------------------------------------------------------------------------
(* Alarms. *)

\* What every command, and every step about messages, leaves of the alarms.
LEMMA AlarmsKept ==
  ASSUME OnceInv, UNCHANGED <<now, last, pass, fired, shown, again>>,
         answered \subseteq answered', excused \subseteq excused'
  PROVE  Clock' /\ Remembered' /\ NearListed' /\ AlarmOnce'
BY DEF OnceInv, Clock, Remembered, NearListed, AlarmOnce

LEMMA BeginOnce ==
  ASSUME Typed, OnceInv, Begin
  PROVE  OnceInv'
<1> USE DEF settings, memory, OnceInv
<1>1. UNCHANGED <<now, gate, muted, fired, dismissed, cmd, shown, again, answered,
                  excused>>
  BY DEF Begin
<1>2. last' = now /\ now \in Nat
  BY DEF Begin, Typed, Time
<1>3. Silenced' /\ Remembered' /\ AlarmOnce' /\ Clock'
  BY <1>1, <1>2 DEF Silenced, Remembered, AlarmOnce, Clock
<1>4. pass' = NoPass \/ (pass'.pc = "prune" /\ pass'.todo = Listed)
  BY DEF Begin, NoPass
<1>5. NearListed'
  BY <1>1, <1>4 DEF NearListed, NoPass, Silenced, Listed
<1> QED BY <1>3, <1>5

LEMMA PruneOnce ==
  ASSUME Typed, OnceInv, Prune
  PROVE  OnceInv'
<1> USE DEF settings, memory, history, OnceInv
<1>1. UNCHANGED <<now, last, gate, muted, dismissed, cmd, shown, again, answered, excused>>
  BY DEF Prune
<1>2. pass.pc = "prune" /\ pass'.pc = "dismissed" /\ pass'.todo = pass.todo
  BY DEF Prune, PassAt, Typed, Pass
<1>3. Silenced' /\ AlarmOnce' /\ Clock' /\ NearListed'
  BY <1>1, <1>2 DEF Silenced, AlarmOnce, Clock, NearListed
<1>4. ASSUME NEW a \in shown, a[1] \notin excused, ~ a[2] <= now,
             <<a[1], a[3]>> \in fired
      PROVE  <<a[1], a[3]>> \in fired'
  <2>1. a[1] \in Uid /\ a[2] \in Time /\ a[2] \in Starts[a[1]]
    BY DEF Typed, Alarm
  <2> DEFINE o == <<a[1], a[2]>>
  <2>2. o \in Occurrence /\ o[1] = a[1] /\ o[2] = a[2]
    BY <2>1 DEF Occurrence
  <2> HIDE DEF o
  <2>3. now \in Nat /\ o[2] \in Nat
    BY <2>1, <2>2 DEF Typed, Time
  <2>4. o \in pass.todo /\ o[2] > now
    BY <1>2, <1>4, <2>2, <2>3 DEF NearListed, Remembered
  <2>5. a[1] \in Active(pass.todo)
    BY <2>2, <2>4 DEF Active
  <2> QED BY <1>4, <2>5 DEF Prune
<1>5. Remembered'
  BY <1>1, <1>4 DEF Remembered
<1> QED BY <1>3, <1>5

\* An alarm is shown a second time only when it leads by no more than the tolerance.
LEMMA WalkOnce ==
  ASSUME Typed, OnceInv, NEW o \in Occurrence, Walk(o)
  PROVE  OnceInv'
<1> USE DEF settings, memory, OnceInv
<1>1. UNCHANGED <<now, last, gate, muted, dismissed, cmd, answered, excused>>
  BY DEF Walk
<1>2. pass.pc = "walk" /\ pass'.pc = "walk" /\ pass'.todo = pass.todo \ {o} /\ o \in pass.todo
  BY DEF Walk, PassAt, Typed, Pass
<1>3. Silenced' /\ Clock' /\ NearListed'
  BY <1>1, <1>2 DEF Silenced, Clock, NearListed
<1>4. PICK u \in Uid, t \in Time : u = o[1] /\ t = o[2]
  BY DEF Occurrence
<1> DEFINE leads == IF Skipped(o) \/ pass.snoozes[u] # None THEN {} ELSE DueLeads(o)
<1>5. /\ leads \subseteq DueLeads(o)
      /\ fired' = fired \cup {<<u, l>> : l \in leads}
      /\ shown' = shown \cup {<<u, t, l>> : l \in leads}
      /\ again' = again \cup ({<<u, t, l>> : l \in leads} \cap shown)
  BY <1>4 DEF Walk
<1> HIDE DEF leads
<1>6. \A l \in leads : l \in Nat /\ now - (t - l) \in 0..Tolerance
  BY <1>4, <1>5, LeadsAreLeads DEF DueLeads
<1>7. now \in Nat /\ t \in Nat
  BY DEF Typed, Time
<1>8. Remembered'
  <2>1. t <= now + Window + Tolerance
    BY <1>2, <1>4 DEF NearListed
  <2>2. \A a \in shown' \ shown : a[2] = t /\ <<a[1], a[3]>> \in fired'
    BY <1>5
  <2>3. fired \subseteq fired'
    BY <1>5
  <2> QED BY <1>1, <2>1, <2>2, <2>3 DEF Remembered
<1>9. ASSUME NEW l \in leads, <<u, t, l>> \in shown,
             u \notin answered \cup excused
      PROVE  l <= Tolerance
  <2>1. <<u, l>> \notin fired
    BY <1>4, <1>5 DEF DueLeads
  <2>2. t <= now \/ l <= Tolerance
    BY <1>9, <2>1 DEF Remembered
  <2> QED BY <1>6, <1>7, <2>2
<1>10. AlarmOnce'
  BY <1>1, <1>5, <1>9 DEF AlarmOnce
<1> QED BY <1>3, <1>8, <1>10

LEMMA AnswerOnce ==
  ASSUME Typed, OnceInv, AnswerStep
  PROVE  OnceInv'
<1> USE DEF settings, memory, history, OnceInv
<1>1. ASSUME NEW u \in Uid, Dismiss(u) \/ (\E t \in Time : Snooze(u, t))
      PROVE  OnceInv'
  <2>1. /\ UNCHANGED <<now, last, pass, fired, gate, muted, shown, again, excused>>
        /\ answered' = answered \cup {u}
        /\ cmd'.uid = u /\ (cmd'.pc = "snoozes" \/ cmd'.dismiss => u \in dismissed')
    BY <1>1 DEF Dismiss, Snooze
  <2>2. Silenced'
    BY <2>1 DEF Silenced
  <2> QED BY <2>1, <2>2, AlarmsKept
<1>2. ASSUME NEW u \in Uid, Mute(u)
      PROVE  OnceInv'
  <2>1. /\ UNCHANGED <<now, last, pass, fired, dismissed, cmd, gate, shown, again, answered>>
        /\ excused' = excused \cup {u} /\ muted' \subseteq muted \cup {u}
    BY <1>2 DEF Mute
  <2>2. Silenced'
    BY <2>1 DEF Silenced
  <2> QED BY <2>1, <2>2, AlarmsKept
<1>3. ASSUME NEW g \in GateKind, SetGate(g)
      PROVE  OnceInv'
  <2>1. /\ UNCHANGED <<now, last, pass, fired, dismissed, cmd, muted, shown, again, answered>>
        /\ excused' = excused \cup {u \in Uid : (u \in Meeting) = (g = "meeting")}
        /\ gate \subseteq gate' \cup {g}
    BY <1>3 DEF SetGate
  <2>2. Silenced'
    BY <2>1 DEF Silenced, GateKind
  <2> QED BY <2>1, <2>2, AlarmsKept
<1>4. CASE ForgetFired
  <2>1. UNCHANGED <<now, last, pass, dismissed, gate, muted, shown, again, answered, excused>>
    BY <1>4 DEF ForgetFired
  <2>2. /\ cmd.pc = "fired" /\ cmd.uid \in answered
        /\ fired' = {k \in fired : k[1] # cmd.uid}
    BY <1>4 DEF ForgetFired, Silenced
  <2>3. cmd' = NoCmd \/ (cmd'.uid = cmd.uid /\ cmd.dismiss)
    BY <1>4 DEF ForgetFired, Typed, Cmd
  <2>4. Silenced'
    BY <2>1, <2>2, <2>3 DEF Silenced, NoCmd
  <2>5. Remembered'
    BY <2>1, <2>2 DEF Remembered
  <2>6. Clock' /\ NearListed' /\ AlarmOnce'
    BY <2>1 DEF Clock, NearListed, AlarmOnce
  <2> QED BY <2>4, <2>5, <2>6
<1>5. CASE ForgetSnooze
  <2>1. UNCHANGED <<now, last, pass, fired, dismissed, gate, muted, shown, again, answered,
                    excused>>
    BY <1>5 DEF ForgetSnooze
  <2>2. Silenced'
    BY <1>5, <2>1 DEF ForgetSnooze, Silenced, NoCmd
  <2> QED BY <2>1, <2>2, AlarmsKept
<1> QED BY <1>1, <1>2, <1>3, <1>4, <1>5 DEF AnswerStep

LEMMA NextOnce ==
  ASSUME Typed, OnceInv, [Next]_vars
  PROVE  OnceInv'
<1> USE DEF events, settings, memory, history, OnceInv
<1>1. CASE Tick
  <2>1. /\ now' = now + 1 /\ now - last < MaxGap /\ pass.pc = "idle" /\ pass' = pass
        /\ UNCHANGED <<last, gate, muted, fired, dismissed, cmd, shown, again, answered,
                       excused>>
    BY <1>1 DEF Tick
  <2>2. now \in Nat /\ last \in Nat
    BY DEF Typed, Time
  <2>3. pass.todo \subseteq Occurrence /\ \A o \in Occurrence : o[2] \in Nat
    BY DEF Typed, Pass, Occurrence, Time
  <2>4. \A a \in shown : a[2] \in Nat
    BY DEF Typed, Alarm, Time
  <2>5. Clock' /\ NearListed'
    BY <2>1, <2>2, <2>3 DEF Clock, NearListed
  <2>6. Remembered'
    <3>1. ASSUME NEW a \in shown, a[2] <= now + Window + Tolerance
          PROVE  a[2] <= now' + Window + Tolerance /\ (a[2] <= now => a[2] <= now')
      BY <2>1, <2>2, <2>4, <3>1
    <3> QED BY <2>1, <3>1 DEF Remembered
  <2>7. Silenced' /\ AlarmOnce'
    BY <2>1 DEF Silenced, AlarmOnce
  <2> QED BY <2>5, <2>6, <2>7
<1>2. CASE SnapshotDismissed \/ SnapshotSnoozes \/ Evict
  <2>1. UNCHANGED <<now, last, gate, muted, fired, dismissed, cmd, shown, again, answered,
                    excused>>
    BY <1>2 DEF SnapshotDismissed, SnapshotSnoozes, Evict
  <2>2. pass.pc # "idle"
    BY <1>2 DEF SnapshotDismissed, SnapshotSnoozes, Evict, PassAt
  <2>a. SnapshotDismissed => pass'.pc = "snoozes" /\ pass'.todo = pass.todo
    BY DEF SnapshotDismissed, Typed, Pass
  <2>b. SnapshotSnoozes => pass'.pc = "walk" /\ pass'.todo = pass.todo
    BY DEF SnapshotSnoozes, Typed, Pass
  <2>c. Evict => pass'.pc = "idle" /\ pass'.todo = {}
    BY DEF Evict, NoPass
  <2>3. pass'.pc # "prune" /\ pass'.todo \subseteq pass.todo
    BY <1>2, <2>a, <2>b, <2>c
  <2> QED BY <2>1, <2>2, <2>3 DEF Silenced, Clock, Remembered, NearListed, AlarmOnce
<1>3. CASE ScanStep \/ RowStep
  <2>1. UNCHANGED <<now, events>>
    BY <1>3 DEF ScanStep, RowStep, ScanDue, Clear, ClearFails, Emit, EmitFails,
       SetReminder, Tombstone
  <2> QED BY <2>1, AlarmsKept DEF Silenced
<1>4. CASE Restart
  <2>1. /\ now' = now /\ last' = now /\ pass' = NoPass /\ cmd' = NoCmd /\ excused' = Uid
        /\ UNCHANGED <<shown, again, muted>>
    BY <1>4 DEF Restart
  <2>2. now \in Nat /\ \A a \in shown : a[1] \in Uid
    BY DEF Typed, Time, Alarm
  <2>3. Silenced'
    BY <2>1 DEF Silenced, NoCmd, Typed
  <2>4. Clock' /\ NearListed'
    BY <2>1, <2>2 DEF Clock, NearListed, NoPass
  <2>5. Remembered' /\ AlarmOnce'
    BY <2>1, <2>2 DEF Remembered, AlarmOnce, Typed
  <2> QED BY <2>3, <2>4, <2>5
<1>5. CASE UNCHANGED vars
  BY <1>5, AlarmsKept DEF vars, Silenced
<1> QED BY <1>1, <1>2, <1>3, <1>4, <1>5, BeginOnce, PruneOnce, WalkOnce, AnswerOnce
        DEF Next, PassStep

\* An alarm that leads by more than the tolerance is shown once, although fired is
\* pruned in every pass: what a pass forgets it has listed nothing of, so nothing of
\* it was near enough to have been shown and is still ahead.
THEOREM AlarmsOnce == Spec => []AlarmOnce
<1>1. Init => OnceInv
  BY DEF Init, OnceInv, Silenced, Clock, Remembered, NearListed, AlarmOnce, NoCmd, NoPass,
     GateKind
<1>2. Init => Typed
  BY InitTyped
<1>3. Typed /\ OnceInv /\ [Next]_vars => (Typed /\ OnceInv)'
  BY NextTyped, NextOnce
<1>4. OnceInv => AlarmOnce
  BY DEF OnceInv
<1> QED BY <1>1, <1>2, <1>3, <1>4, PTL DEF Spec

-----------------------------------------------------------------------------
(* Snoozes. *)

HeardInv == Typed /\ OnceInv /\ SnoozeInv /\ SnoozeHeard

LEMMA TimesAreNumbers ==
  ASSUME Typed
  PROVE  /\ now \in Nat /\ last \in Nat
         /\ \A u \in Uid : owed[u] # None => owed[u] \in Nat
         /\ \A u \in Uid : Starts[u] \subseteq Nat
BY DEF Typed, Time, MaybeTime

\* A step outside the pass that makes nobody wait who did not, and drops only the
\* snoozes nobody waits for.
LEMMA SnoozesKept ==
  ASSUME HeardInv, UNCHANGED <<now, last, pass>>, dismissed \subseteq dismissed',
         \A u \in Uid : owed[u] = None => owed'[u] = None,
         \A u \in Uid : Waits(u)' =>
           Waits(u) /\ owed'[u] = owed[u] /\ snoozes'[u] = snoozes[u]
  PROVE  SnoozeInv' /\ SnoozeHeard'
<1> USE DEF HeardInv
<1>1. \A u \in pass'.evict : owed'[u] = None
  BY DEF SnoozeInv, Typed, Pass
<1>2. pass'.pc \in {"snoozes", "walk"} => pass'.dismissed \subseteq dismissed'
  BY DEF SnoozeInv
<1>3. ASSUME NEW u \in Uid, Waits(u)'
      PROVE  /\ snoozes'[u] = owed'[u]
             /\ \E s \in Starts[u] : owed'[u] <= s /\ s <= now' + Window + Tolerance
             /\ pass'.pc = "idle" => last' < owed'[u]
             /\ pass'.pc # "idle" => now' < owed'[u] \/ InPass(u)'
             /\ now' < owed'[u] + MaxGap
  <2>1. Waits(u) /\ owed'[u] = owed[u] /\ snoozes'[u] = snoozes[u]
    BY <1>3
  <2>2. InPass(u) => InPass(u)'
    BY <2>1 DEF InPass
  <2>3. now < owed[u] + MaxGap
    BY <2>1 DEF SnoozeHeard, Waits
  <2> QED BY <2>1, <2>2, <2>3 DEF SnoozeInv
<1> QED BY <1>1, <1>2, <1>3 DEF SnoozeInv, SnoozeHeard, Waits

\* The pass that begins lists what the user waits for.
LEMMA BeginHeard ==
  ASSUME MaxGap <= Tolerance, HeardInv, Begin
  PROVE  SnoozeInv' /\ SnoozeHeard'
<1> USE DEF HeardInv, settings, memory
<1>1. UNCHANGED <<now, dismissed, snoozes, owed, excused>>
  BY DEF Begin
<1>2. last' = now /\ pass.pc = "idle"
  BY DEF Begin, PassAt
<1>3. \/ pass' = NoPass /\ (gate = {} \/ muted = Uid)
      \/ /\ pass'.pc = "prune" /\ pass'.gate = gate /\ pass'.todo = Listed /\ pass'.evict = {}
  BY DEF Begin, NoPass
<1>4. SnoozeHeard'
  BY <1>1 DEF SnoozeHeard
<1>5. ASSUME NEW u \in Uid, Waits(u)
      PROVE  /\ pass'.pc = "prune" /\ pass'.todo = Listed
             /\ (IF u \in Meeting THEN "meeting" ELSE "calendar") \in pass'.gate
             /\ \E o \in Listed : o[1] = u /\ now - Tolerance < o[2]
  <2>1. /\ u \notin muted
        /\ (IF u \in Meeting THEN "meeting" ELSE "calendar") \in gate
    BY <1>5 DEF OnceInv, Silenced, Waits
  <2>2. PICK s \in Starts[u] : owed[u] <= s /\ s <= now + Window + Tolerance
    BY <1>5 DEF SnoozeInv
  <2>3. now < owed[u] + MaxGap
    BY <1>5 DEF SnoozeHeard, Waits
  <2>4. now - Tolerance < s
    BY <1>5, <2>2, <2>3, TimesAreNumbers DEF Waits
  <2> DEFINE o == <<u, s>>
  <2>5. o \in Listed
    BY <2>1, <2>2, <2>4, TimesAreNumbers DEF Listed, Occurrence
  <2>6. o[1] = u /\ now - Tolerance < o[2]
    BY <2>4
  <2> QED BY <1>3, <2>1, <2>5, <2>6
<1>6. \A u \in Uid : Waits(u)' => Waits(u)
  BY <1>1 DEF Waits
<1>7. \A u \in Uid : Waits(u) => InPass(u)'
  BY <1>1, <1>5 DEF InPass
<1>8. pass'.evict = {} /\ pass'.pc \notin {"snoozes", "walk"}
  BY <1>3 DEF NoPass
<1> QED BY <1>1, <1>4, <1>5, <1>6, <1>7, <1>8 DEF SnoozeInv

\* A pass that goes on to its loop keeps what it has listed.
LEMMA PassHeard ==
  ASSUME HeardInv, Prune \/ SnapshotDismissed \/ SnapshotSnoozes
  PROVE  SnoozeInv' /\ SnoozeHeard'
<1> USE DEF HeardInv, settings, memory, history
<1>1. UNCHANGED <<now, last, dismissed, snoozes, owed, excused>>
  BY DEF Prune, SnapshotDismissed, SnapshotSnoozes
<1>2. /\ pass.pc # "idle" /\ pass'.pc # "idle"
      /\ pass'.gate = pass.gate /\ pass'.todo = pass.todo /\ pass'.evict = pass.evict
      /\ pass'.pc \in {"snoozes", "walk"} => pass'.dismissed \subseteq dismissed
      /\ pass'.pc = "walk" => pass'.snoozes = snoozes
  <2>1. CASE Prune
    BY <2>1 DEF Prune, PassAt, Typed, Pass
  <2>2. CASE SnapshotDismissed
    BY <2>2 DEF SnapshotDismissed, PassAt, Typed, Pass
  <2>3. CASE SnapshotSnoozes
    BY <2>3 DEF SnapshotSnoozes, PassAt, Typed, Pass, SnoozeInv
  <2> QED BY <2>1, <2>2, <2>3
<1>3. \A u \in Uid : Waits(u)' <=> Waits(u)
  BY <1>1 DEF Waits
<1>4. \A u \in Uid : Waits(u) /\ InPass(u) => InPass(u)'
  BY <1>1, <1>2 DEF InPass, SnoozeInv
<1>5. SnoozeHeard'
  BY <1>1 DEF SnoozeHeard
<1> QED BY <1>1, <1>2, <1>3, <1>4, <1>5 DEF SnoozeInv

\* The loop shows an ended snooze at the first occurrence of its event.
LEMMA WalkHeard ==
  ASSUME HeardInv, NEW o \in Occurrence, Walk(o)
  PROVE  SnoozeInv' /\ SnoozeHeard'
<1> USE DEF HeardInv, settings, memory
<1>1. UNCHANGED <<now, last, dismissed, snoozes, excused>>
  BY DEF Walk
<1>2. PICK u \in Uid : u = o[1]
  BY DEF Occurrence
<1> DEFINE ended == ~ Skipped(o) /\ pass.snoozes[u] # None
<1>3. /\ pass.pc = "walk" /\ pass'.pc = "walk" /\ pass'.gate = pass.gate
      /\ pass'.todo = pass.todo \ {o} /\ pass'.dismissed = pass.dismissed
      /\ pass'.snoozes = pass.snoozes
  BY DEF Walk, PassAt, Typed, Pass
<1>4. /\ pass'.evict = IF ended THEN pass.evict \cup {u} ELSE pass.evict
      /\ owed' = IF ended THEN [owed EXCEPT ![u] = None] ELSE owed
  BY <1>2 DEF Walk, Typed, Pass
<1> HIDE DEF ended
<1>5. \A v \in Uid : owed'[v] = owed[v] \/ owed'[v] = None
  BY <1>4 DEF Typed
<1>6. \A v \in pass'.evict : owed'[v] = None
  BY <1>4 DEF Typed, Pass, SnoozeInv
<1>7. ASSUME NEW v \in Uid, Waits(v)'
      PROVE  /\ Waits(v) /\ owed'[v] = owed[v]
             /\ InPass(v) /\ owed[v] <= now => InPass(v)'
  <2>1. Waits(v) /\ owed'[v] = owed[v]
    BY <1>1, <1>5, <1>7 DEF Waits
  <2>2. ASSUME InPass(v), owed[v] <= now
        PROVE  InPass(v)'
    <3>1. PICK p \in pass.todo : p[1] = v /\ now - Tolerance < p[2]
      BY <2>2 DEF InPass
    <3>2. p # o
      <4>1. SUFFICES ASSUME p = o
                     PROVE  FALSE
        OBVIOUS
      <4>2. v = u
        BY <1>2, <3>1, <4>1
      <4>3. pass.snoozes[u] = owed[u] /\ owed[u] # None
        BY <1>3, <2>1, <2>2, <4>2 DEF InPass, Waits
      <4>4. u \notin pass.dismissed
        BY <1>3, <2>1, <4>2 DEF SnoozeInv, Waits
      <4>5. (IF u \in Meeting THEN "meeting" ELSE "calendar") \in pass.gate
        BY <2>2, <4>2 DEF InPass
      <4>6. now \in Nat /\ o[2] \in Nat /\ owed[u] \in Nat
        BY <4>3, TimesAreNumbers DEF Occurrence, Time
      <4>7. ~ Skipped(o)
        BY <1>2, <2>2, <3>1, <4>1, <4>2, <4>3, <4>4, <4>5, <4>6 DEF Skipped
      <4>8. owed'[u] = None
        BY <1>4, <4>3, <4>7 DEF ended, Typed
      <4> QED BY <1>7, <4>2, <4>8 DEF Waits
    <3> QED BY <1>1, <1>3, <2>1, <2>2, <3>1, <3>2 DEF InPass
  <2> QED BY <2>1, <2>2
<1>8. SnoozeHeard'
  <2>1. \A v \in Uid : Waits(v)' => now' < owed'[v] + MaxGap
    BY <1>1, <1>7 DEF SnoozeHeard, Waits
  <2> QED BY <2>1 DEF SnoozeHeard, Waits
<1>9. ASSUME NEW v \in Uid, Waits(v)'
      PROVE  /\ snoozes'[v] = owed'[v]
             /\ \E s \in Starts[v] : owed'[v] <= s /\ s <= now' + Window + Tolerance
             /\ now' < owed'[v] \/ InPass(v)'
  <2>1. Waits(v) /\ owed'[v] = owed[v]
    BY <1>7, <1>9
  <2>2. now < owed[v] \/ InPass(v)
    BY <1>3, <2>1 DEF SnoozeInv
  <2>3. now < owed[v] \/ owed[v] <= now
    BY <2>1, TimesAreNumbers DEF Waits
  <2>4. now' < owed'[v] \/ InPass(v)'
    BY <1>1, <1>7, <1>9, <2>1, <2>2, <2>3
  <2> QED BY <1>1, <2>1, <2>4 DEF SnoozeInv
<1> QED BY <1>1, <1>3, <1>6, <1>8, <1>9 DEF SnoozeInv

\* When a pass ends nothing is left that anyone waits for.
LEMMA EvictHeard ==
  ASSUME HeardInv, Evict
  PROVE  SnoozeInv' /\ SnoozeHeard'
<1> USE DEF HeardInv, history
<1>1. UNCHANGED <<now, last, dismissed, owed, excused>>
  BY DEF Evict
<1>2. pass.pc = "walk" /\ pass.todo = {} /\ pass'.pc = "idle" /\ pass'.evict = {}
  BY DEF Evict, PassAt, NoPass
<1>3. last = now
  BY <1>2 DEF OnceInv, Clock
<1>4. \A u \in Uid : Waits(u)' <=> Waits(u)
  BY <1>1 DEF Waits
<1>5. ASSUME NEW u \in Uid, Waits(u)
      PROVE  last < owed[u] /\ snoozes'[u] = snoozes[u]
  <2>1. ~ InPass(u)
    BY <1>2 DEF InPass
  <2>2. u \notin pass.evict
    BY <1>5 DEF SnoozeInv, Waits
  <2> QED BY <1>2, <1>3, <1>5, <2>1, <2>2 DEF SnoozeInv, Evict
<1>6. SnoozeHeard'
  BY <1>1 DEF SnoozeHeard
<1> QED BY <1>1, <1>2, <1>4, <1>5, <1>6 DEF SnoozeInv

LEMMA AnswerHeard ==
  ASSUME "meanwhile" \notin Hazards, HeardInv, AnswerStep
  PROVE  SnoozeInv' /\ SnoozeHeard'
<1> USE DEF HeardInv, settings, memory, history
<1>1. ASSUME NEW u \in Uid, Dismiss(u)
      PROVE  SnoozeInv' /\ SnoozeHeard'
  <2>1. /\ UNCHANGED <<now, last, pass, snoozes, excused>> /\ dismissed' = dismissed \cup {u}
        /\ owed' = [owed EXCEPT ![u] = None]
    BY <1>1 DEF Dismiss
  <2> QED BY <2>1, SnoozesKept DEF Waits, Typed
<1>2. ASSUME NEW u \in Uid, NEW t \in Time, Snooze(u, t)
      PROVE  SnoozeInv' /\ SnoozeHeard'
  <2>1. /\ UNCHANGED <<now, last, pass, dismissed, excused>>
        /\ \A v \in Uid : v # u => owed'[v] = owed[v] /\ snoozes'[v] = snoozes[v]
        /\ owed'[u] = t /\ snoozes'[u] = t /\ now < t /\ u \notin pass.evict
        /\ \E s \in Starts[u] : t <= s /\ s <= now + Window + Tolerance
    BY <1>2 DEF Snooze, Hazard, Typed
  <2>2. last <= now /\ last \in Nat /\ now \in Nat /\ t \in Nat
    BY DEF Typed, Time
  <2>3. \A v \in Uid : v # u /\ Waits(v)' => Waits(v)
    BY <2>1 DEF Waits
  <2>4. SnoozeHeard'
    BY <2>1, <2>2 DEF SnoozeHeard
  <2>5. pass'.evict \in SUBSET Uid
    BY <2>1 DEF Typed, Pass
  <2>6. \A v \in pass'.evict : owed'[v] = None
    BY <2>1, <2>5 DEF SnoozeInv
  <2>7. ASSUME NEW v \in Uid, v # u, Waits(v)'
        PROVE  /\ snoozes'[v] = owed'[v]
               /\ \E s \in Starts[v] : owed'[v] <= s /\ s <= now' + Window + Tolerance
               /\ pass'.pc = "idle" => last' < owed'[v]
               /\ pass'.pc # "idle" => now' < owed'[v] \/ InPass(v)'
    <3>1. InPass(v) => InPass(v)'
      BY <2>1, <2>7 DEF InPass
    <3> QED BY <2>1, <2>3, <2>7, <3>1 DEF SnoozeInv
  <2>8. last' < owed'[u] /\ now' < owed'[u]
    BY <2>1, <2>2
  <2>9. pass'.pc \in {"snoozes", "walk"} => pass'.dismissed \subseteq dismissed'
    BY <2>1 DEF SnoozeInv
  <2>10. SnoozeInv'
    BY <2>1, <2>6, <2>7, <2>8, <2>9 DEF SnoozeInv
  <2> QED BY <2>4, <2>10
<1>3. CASE ForgetSnooze
  <2>1. /\ UNCHANGED <<now, last, pass, dismissed, excused, owed>>
        /\ cmd.uid \in dismissed
        /\ \A v \in Uid : v # cmd.uid => snoozes'[v] = snoozes[v]
    BY <1>3 DEF ForgetSnooze, OnceInv, Silenced, Typed
  <2> QED BY <2>1, SnoozesKept DEF Waits
<1>4. CASE ForgetFired \/ (\E g \in GateKind : SetGate(g)) \/ (\E u \in Uid : Mute(u))
  <2>1. /\ UNCHANGED <<now, last, pass, dismissed, owed, snoozes>>
        /\ excused \subseteq excused'
    BY <1>4 DEF ForgetFired, SetGate, Mute
  <2> QED BY <2>1, SnoozesKept DEF Waits
<1> QED BY <1>1, <1>2, <1>3, <1>4 DEF AnswerStep

LEMMA NextHeard ==
  ASSUME MaxGap <= Tolerance, "meanwhile" \notin Hazards, HeardInv, [Next]_vars
  PROVE  HeardInv'
<1> USE DEF settings, memory, history, events
<1>1. Typed' /\ OnceInv'
  BY NextTyped, NextOnce DEF HeardInv
<1>2. CASE Tick
  <2>1. /\ now' = now + 1 /\ now - last < MaxGap /\ pass.pc = "idle"
        /\ UNCHANGED <<last, pass, dismissed, snoozes, owed, excused>>
    BY <1>2 DEF Tick
  <2>2. \A u \in Uid : Waits(u)' <=> Waits(u)
    BY <2>1 DEF Waits
  <2>3. Typed
    BY DEF HeardInv
  <2>4. ASSUME NEW u \in Uid, Waits(u)
        PROVE  now' < owed[u] + MaxGap
    <3>1. last < owed[u]
      BY <2>1, <2>4 DEF HeardInv, SnoozeInv
    <3> QED BY <2>1, <2>3, <2>4, <3>1, TimesAreNumbers DEF Waits
  <2>5. SnoozeHeard'
    BY <2>1, <2>2, <2>4 DEF SnoozeHeard, Waits
  <2>6. ASSUME NEW u \in Uid, Waits(u)
        PROVE  \E s \in Starts[u] : owed[u] <= s /\ s <= now' + Window + Tolerance
    <3>1. PICK s \in Starts[u] : owed[u] <= s /\ s <= now + Window + Tolerance
      BY <2>6 DEF HeardInv, SnoozeInv
    <3> QED BY <2>1, <2>3, <3>1, TimesAreNumbers
  <2>7. SnoozeInv'
    BY <2>1, <2>2, <2>6 DEF HeardInv, SnoozeInv
  <2> QED BY <1>1, <2>5, <2>7 DEF HeardInv
<1>3. CASE Restart
  <2>1. pass' = NoPass /\ \A u \in Uid : owed'[u] = None
    BY <1>3 DEF Restart
  <2> QED BY <1>1, <2>1 DEF HeardInv, SnoozeInv, SnoozeHeard, Waits, NoPass
<1>4. CASE ScanStep \/ RowStep \/ UNCHANGED vars
  <2>1. UNCHANGED <<now, events>>
    BY <1>4 DEF ScanStep, RowStep, ScanDue, Clear, ClearFails, Emit, EmitFails,
       SetReminder, Tombstone, vars
  <2> QED BY <1>1, <2>1, SnoozesKept DEF Waits, HeardInv
<1>5. CASE PassStep
  <2>1. SnoozeInv' /\ SnoozeHeard'
    BY <1>5, BeginHeard, PassHeard, WalkHeard, EvictHeard DEF PassStep
  <2> QED BY <1>1, <2>1 DEF HeardInv
<1>6. CASE AnswerStep
  BY <1>1, <1>6, AnswerHeard DEF HeardInv
<1> QED BY <1>2, <1>3, <1>4, <1>5, <1>6 DEF Next

\* What the user snoozed is shown again within MaxGap of the moment asked for: the
\* first pass after it lists an occurrence of the event and evicts nothing that was
\* not shown.  Assumed: the passes are no further apart than the tolerance, which is
\* what EVENT_REMINDER_FIRE_TOLERANCE_SECS is chosen for, and the user does not snooze
\* again what a pass has just shown before that pass ends.
THEOREM SnoozesHeard ==
  ASSUME MaxGap <= Tolerance, "meanwhile" \notin Hazards
  PROVE  Spec => []SnoozeHeard
<1>1. Init => HeardInv
  BY InitTyped DEF Init, HeardInv, OnceInv, Silenced, Clock, Remembered, NearListed,
     AlarmOnce, NoCmd, NoPass, GateKind, SnoozeInv, SnoozeHeard, Waits
<1>2. HeardInv /\ [Next]_vars => HeardInv'
  BY NextHeard
<1>3. HeardInv => SnoozeHeard
  BY DEF HeardInv
<1> QED BY <1>1, <1>2, <1>3, PTL DEF Spec

-----------------------------------------------------------------------------
(* Alarms that must be heard. *)

\* The user has not answered or silenced the event.
Untouched(u) == u \notin answered \cup excused

\* Two occurrences of an event are so far apart that a pass sees neither: the second
\* comes into the window after the pass that forgets the alarms of the first.
Sparse ==
  \A u \in Uid : \A s1, s2 \in Starts[u] : \A l \in Leads[u] :
    s1 < s2 => /\ s1 + MaxGap + Window + Tolerance <= s2
               /\ s1 + MaxGap + Window + 2 * Tolerance < s2 + l

\* What a pass knows of dismissals and snoozes are answers of the user.
AnswersKnown ==
  /\ dismissed \subseteq answered /\ pass.dismissed \subseteq answered
  /\ \A u \in Uid : snoozes[u] # None \/ pass.snoozes[u] # None => u \in answered

\* The time of the last pass that has forgotten what it could.
Pruned == IF pass.pc = "prune" THEN last - MaxGap ELSE last

\* An entry of fired stands for an alarm that was shown, and that no pass could
\* have forgotten yet.
FiredFresh ==
  \A u \in Uid : \A l \in Leads[u] :
    <<u, l>> \in fired /\ Untouched(u) =>
      \E s \in Starts[u] :
        /\ <<u, s, l>> \in shown
        /\ Pruned < s \/ Pruned <= s - l + Tolerance

ShownDue == \A a \in shown : a[2] - a[3] <= now

\* An alarm that was not shown comes after the last pass, or the pass shows it.
Ahead ==
  \A u \in Uid : \A s \in Starts[u] : \A l \in Leads[u] :
    /\ Untouched(u) /\ l <= s /\ <<u, s, l>> \notin shown
    => /\ pass.pc = "idle" => last < s - l \/ last = 0
       /\ pass.pc # "idle" =>
            \/ now < s - l
            \/ /\ (IF u \in Meeting THEN "meeting" ELSE "calendar") \in pass.gate
               /\ <<u, s>> \in pass.todo /\ now - Tolerance < s

InTime ==
  \A u \in Uid : \A s \in Starts[u] : \A l \in Leads[u] :
    Untouched(u) /\ l <= s /\ <<u, s, l>> \notin shown => now <= s - l + Tolerance

Heard == AnswersKnown /\ FiredFresh /\ ShownDue /\ Ahead /\ InTime
HeardAllInv == Typed /\ OnceInv /\ Heard

\* What the code's constants are chosen for: the time between two passes is less than
\* the tolerance, no lead exceeds the window, and events recur seldom.
Hearable ==
  /\ MaxGap < Tolerance /\ Sparse
  /\ \A u \in Uid : \A l \in Leads[u] : l <= Window + Tolerance

LEMMA MomentsAreNumbers ==
  /\ \A u \in Uid : \A s \in Starts[u] : s \in Nat
  /\ \A u \in Uid : \A l \in Leads[u] : l \in Nat
BY LeadsAreLeads DEF Time

\* What every command, and every step about messages, leaves of the alarms to come.
LEMMA HeardKept ==
  ASSUME HeardAllInv, UNCHANGED <<now, last, pass, shown>>, fired' \subseteq fired,
         answered \subseteq answered', excused \subseteq excused',
         dismissed' \subseteq answered',
         \A u \in Uid : snoozes'[u] # None => u \in answered'
  PROVE  Heard'
<1> USE DEF HeardAllInv, Heard
<1>1. \A u \in Uid : Untouched(u)' => Untouched(u)
  BY DEF Untouched
<1>2. AnswersKnown'
  BY DEF AnswersKnown
<1>3. FiredFresh' /\ ShownDue'
  BY <1>1 DEF FiredFresh, ShownDue, Pruned
<1>4. Ahead' /\ InTime'
  BY <1>1 DEF Ahead, InTime
<1> QED BY <1>2, <1>3, <1>4

LEMMA TickHeard ==
  ASSUME Hearable, HeardAllInv, Tick
  PROVE  Heard'
<1> USE DEF HeardAllInv, Heard, events, memory, history
<1>1. /\ now' = now + 1 /\ now - last < MaxGap /\ pass.pc = "idle"
      /\ UNCHANGED <<last, pass, fired, dismissed, snoozes, shown, answered, excused>>
  BY DEF Tick
<1>2. now \in Nat /\ last \in Nat
  BY DEF Typed, Time
<1>3. \A u \in Uid : Untouched(u)' <=> Untouched(u)
  BY <1>1 DEF Untouched
<1>4. AnswersKnown' /\ Ahead'
  BY <1>1, <1>3 DEF AnswersKnown, Ahead
<1>5. FiredFresh'
  BY <1>1, <1>3 DEF FiredFresh, Pruned
<1>6. ShownDue'
  <2>1. \A a \in shown : a[2] \in Nat /\ a[3] \in Nat
    BY LeadsAreLeads DEF Typed, Alarm, Time
  <2> QED BY <1>1, <1>2, <2>1 DEF ShownDue
<1>7. InTime'
  <2>1. SUFFICES ASSUME NEW u \in Uid, NEW s \in Starts[u], NEW l \in Leads[u],
                        Untouched(u), l <= s, <<u, s, l>> \notin shown
                 PROVE  now + 1 <= s - l + Tolerance
    BY <1>1, <1>3 DEF InTime
  <2>2. last < s - l \/ last = 0
    BY <1>1, <2>1 DEF Ahead
  <2> QED BY <1>1, <1>2, <2>1, <2>2, MomentsAreNumbers DEF Hearable
<1> QED BY <1>4, <1>5, <1>6, <1>7

\* What is due when a pass begins it lists, and it has not begun too long ago.
LEMMA BeginHears ==
  ASSUME Hearable, HeardAllInv, Begin
  PROVE  Heard'
<1> USE DEF HeardAllInv, Heard, settings, memory
<1>1. /\ UNCHANGED <<now, fired, dismissed, snoozes, shown, answered, excused>>
      /\ last' = now /\ pass.pc = "idle" /\ last < now
  BY DEF Begin, PassAt
<1>2. \/ pass' = NoPass /\ (gate = {} \/ muted = Uid)
      \/ /\ pass'.pc = "prune" /\ pass'.gate = gate /\ pass'.todo = Listed
         /\ pass'.dismissed = {} /\ pass'.snoozes = [u \in Uid |-> None]
  BY DEF Begin, NoPass
<1>3. now \in Nat /\ last \in Nat /\ now <= last + MaxGap
  BY DEF Typed, Time, OnceInv, Clock
<1>4. \A u \in Uid : Untouched(u)' <=> Untouched(u)
  BY <1>1 DEF Untouched
<1>5. ASSUME NEW u \in Uid, Untouched(u)
      PROVE  /\ u \notin muted
             /\ (IF u \in Meeting THEN "meeting" ELSE "calendar") \in gate
             /\ pass'.pc = "prune" /\ pass'.gate = gate /\ pass'.todo = Listed
  <2>1. /\ u \notin muted
        /\ (IF u \in Meeting THEN "meeting" ELSE "calendar") \in gate
    BY <1>5 DEF OnceInv, Silenced, Untouched
  <2> QED BY <1>2, <2>1
<1>6. AnswersKnown'
  BY <1>1, <1>2 DEF AnswersKnown, NoPass
<1>7. ShownDue' /\ InTime'
  BY <1>1, <1>4 DEF ShownDue, InTime
<1>8. FiredFresh'
  <2>1. SUFFICES ASSUME NEW u \in Uid, NEW l \in Leads[u], <<u, l>> \in fired, Untouched(u)
                 PROVE  \E s \in Starts[u] :
                          /\ <<u, s, l>> \in shown
                          /\ Pruned' < s \/ Pruned' <= s - l + Tolerance
    BY <1>1, <1>4 DEF FiredFresh
  <2>2. PICK s \in Starts[u] : /\ <<u, s, l>> \in shown
                               /\ last < s \/ last <= s - l + Tolerance
    BY <1>1, <2>1 DEF FiredFresh, Pruned
  <2>3. Pruned' = now - MaxGap
    BY <1>1, <1>5, <2>1 DEF Pruned
  <2> QED BY <1>3, <2>2, <2>3, MomentsAreNumbers
<1>9. Ahead'
  <2>1. SUFFICES ASSUME NEW u \in Uid, NEW s \in Starts[u], NEW l \in Leads[u],
                        Untouched(u), l <= s, <<u, s, l>> \notin shown, ~ now < s - l
                 PROVE  <<u, s>> \in Listed /\ now - Tolerance < s
    BY <1>1, <1>4, <1>5 DEF Ahead
  <2>2. last < s - l \/ last = 0
    BY <1>1, <2>1 DEF Ahead
  <2>3. now - Tolerance < s /\ s <= now + Window + Tolerance
    BY <1>3, <2>1, <2>2, MomentsAreNumbers DEF Hearable
  <2> QED BY <1>3, <1>5, <2>1, <2>3, MomentsAreNumbers DEF Listed, Occurrence
<1> QED BY <1>6, <1>7, <1>8, <1>9

\* Of an occurrence that has begun a pass forgets the alarms: nothing of the event is
\* in the window yet.
LEMMA PruneHears ==
  ASSUME Hearable, HeardAllInv, Prune
  PROVE  Heard'
<1> USE DEF HeardAllInv, Heard, settings, memory, history
<1>1. UNCHANGED <<now, last, dismissed, snoozes, shown, answered, excused>>
  BY DEF Prune
<1>2. /\ pass.pc = "prune" /\ pass'.pc = "dismissed" /\ pass'.todo = pass.todo
      /\ pass'.gate = pass.gate /\ pass'.dismissed = pass.dismissed
      /\ pass'.snoozes = pass.snoozes
  BY DEF Prune, PassAt, Typed, Pass
<1>3. now \in Nat /\ last = now
  BY <1>2 DEF Typed, Time, OnceInv, Clock
<1>4. \A u \in Uid : Untouched(u)' <=> Untouched(u)
  BY <1>1 DEF Untouched
<1>5. AnswersKnown' /\ ShownDue' /\ InTime' /\ Ahead'
  BY <1>1, <1>2, <1>4 DEF AnswersKnown, ShownDue, InTime, Ahead
<1>6. FiredFresh'
  <2>1. SUFFICES ASSUME NEW u \in Uid, NEW l \in Leads[u], <<u, l>> \in fired', Untouched(u)
                 PROVE  \E s \in Starts[u] : <<u, s, l>> \in shown /\ now < s
    BY <1>1, <1>2, <1>3, <1>4 DEF FiredFresh, Pruned
  <2>2. <<u, l>> \in fired /\ u \in Active(pass.todo)
    BY <2>1 DEF Prune
  <2>3. PICK s \in Starts[u] :
          /\ <<u, s, l>> \in shown
          /\ now - MaxGap < s \/ now - MaxGap <= s - l + Tolerance
    BY <1>2, <1>3, <2>1, <2>2 DEF FiredFresh, Pruned
  <2>4. PICK o \in pass.todo : o[1] = u /\ o[2] > now
    BY <2>2 DEF Active
  <2>5. o[2] \in Starts[u] /\ o[2] <= now + Window + Tolerance
    BY <2>4 DEF Typed, Pass, Occurrence, OnceInv, NearListed
  <2>6. now < s
    <3>1. SUFFICES ASSUME s <= now
                   PROVE  FALSE
      BY <1>3, MomentsAreNumbers
    <3>2. PICK t \in Starts[u] : t = o[2]
      BY <2>5
    <3>3. s < t
      BY <1>3, <2>4, <3>1, <3>2, MomentsAreNumbers
    <3>4. s + MaxGap + Window + Tolerance <= t /\ s + MaxGap + Window + 2 * Tolerance < t + l
      BY <3>3 DEF Hearable, Sparse
    <3> QED BY <1>3, <2>3, <2>5, <3>2, <3>4, MomentsAreNumbers
  <2> QED BY <2>3, <2>6
<1> QED BY <1>5, <1>6

LEMMA SnapshotHears ==
  ASSUME HeardAllInv, SnapshotDismissed \/ SnapshotSnoozes
  PROVE  Heard'
<1> USE DEF HeardAllInv, Heard, settings, memory, history
<1>1. UNCHANGED <<now, last, fired, dismissed, snoozes, shown, answered, excused>>
  BY DEF SnapshotDismissed, SnapshotSnoozes
<1>2. /\ pass.pc \notin {"idle", "prune"} /\ pass'.pc \notin {"idle", "prune"}
      /\ pass'.todo = pass.todo /\ pass'.gate = pass.gate
      /\ pass'.dismissed \in {pass.dismissed, dismissed}
      /\ pass'.snoozes \in {pass.snoozes, snoozes}
  <2>1. CASE SnapshotDismissed
    BY <2>1 DEF SnapshotDismissed, PassAt, Typed, Pass
  <2>2. CASE SnapshotSnoozes
    BY <2>2 DEF SnapshotSnoozes, PassAt, Typed, Pass
  <2> QED BY <2>1, <2>2
<1>3. \A u \in Uid : Untouched(u)' <=> Untouched(u)
  BY <1>1 DEF Untouched
<1>4. AnswersKnown'
  BY <1>1, <1>2 DEF AnswersKnown
<1>5. FiredFresh' /\ ShownDue' /\ InTime' /\ Ahead'
  BY <1>1, <1>2, <1>3 DEF FiredFresh, Pruned, ShownDue, InTime, Ahead
<1> QED BY <1>4, <1>5

\* No entry of fired hides an alarm that is due and was not shown.
LEMMA NotHidden ==
  ASSUME Hearable, HeardAllInv, pass.pc = "walk",
         NEW u \in Uid, NEW s \in Starts[u], NEW l \in Leads[u],
         Untouched(u), l <= s, <<u, s, l>> \notin shown, s - l <= now,
         s <= now + Window + Tolerance
  PROVE  <<u, l>> \notin fired
<1> USE DEF HeardAllInv, Heard
<1>1. now \in Nat /\ last = now
  BY DEF Typed, Time, OnceInv, Clock
<1>2. SUFFICES ASSUME <<u, l>> \in fired
               PROVE  FALSE
  OBVIOUS
<1>3. PICK t \in Starts[u] : /\ <<u, t, l>> \in shown
                             /\ now < t \/ now <= t - l + Tolerance
  BY <1>1, <1>2 DEF FiredFresh, Pruned
<1>4. t - l <= now
  BY <1>3 DEF ShownDue
<1>5. now <= s - l + Tolerance
  BY DEF InTime
<1>6. t # s
  BY <1>3
<1>7. CASE t < s
  <2>1. t + MaxGap + Window + Tolerance <= s /\ t + MaxGap + Window + 2 * Tolerance < s + l
    BY <1>7 DEF Hearable, Sparse
  <2> QED BY <1>1, <1>3, <2>1, MomentsAreNumbers
<1>8. CASE s < t
  <2>1. s + MaxGap + Window + Tolerance <= t
    BY <1>8 DEF Hearable, Sparse
  <2> QED BY <1>1, <1>4, <1>5, <2>1, MomentsAreNumbers
<1> QED BY <1>6, <1>7, <1>8, MomentsAreNumbers

LEMMA WalkHears ==
  ASSUME Hearable, HeardAllInv, NEW o \in Occurrence, Walk(o)
  PROVE  Heard'
<1> USE DEF HeardAllInv, Heard, settings, memory
<1>1. UNCHANGED <<now, last, dismissed, snoozes, answered, excused>>
  BY DEF Walk
<1>2. /\ pass.pc = "walk" /\ pass'.pc = "walk" /\ pass'.todo = pass.todo \ {o}
      /\ pass'.gate = pass.gate /\ pass'.dismissed = pass.dismissed
      /\ pass'.snoozes = pass.snoozes /\ o \in pass.todo
  BY DEF Walk, PassAt, Typed, Pass
<1>a. PICK u \in Uid : u = o[1]
  BY DEF Occurrence
<1>b. PICK s \in Starts[u] : s = o[2]
  BY <1>a DEF Occurrence
<1>3. u = o[1] /\ s = o[2] /\ o = <<u, s>>
  BY <1>a, <1>b DEF Occurrence
<1> DEFINE leads == IF Skipped(o) \/ pass.snoozes[u] # None THEN {} ELSE DueLeads(o)
<1>4. /\ leads \subseteq DueLeads(o)
      /\ fired' = fired \cup {<<u, l>> : l \in leads}
      /\ shown' = shown \cup {<<u, s, l>> : l \in leads}
  BY <1>3 DEF Walk
<1>5. \A l \in leads : l \in Leads[u] /\ l \in Nat /\ now - (s - l) \in 0..Tolerance
  BY <1>3, <1>4, LeadsAreLeads DEF DueLeads
<1>6. now \in Nat /\ last = now /\ s \in Nat
  BY <1>2, MomentsAreNumbers DEF Typed, Time, OnceInv, Clock
<1>7. \A v \in Uid : Untouched(v)' <=> Untouched(v)
  BY <1>1 DEF Untouched
<1>8. AnswersKnown'
  BY <1>1, <1>2 DEF AnswersKnown
<1>9. \A l \in leads : s - l <= now /\ now <= s - l + Tolerance
  BY <1>5, <1>6
<1>10. leads = IF Skipped(o) \/ pass.snoozes[u] # None THEN {} ELSE DueLeads(o)
  OBVIOUS
<1> HIDE DEF leads
<1>11. ShownDue'
  BY <1>1, <1>4, <1>9 DEF ShownDue
<1>12. InTime'
  BY <1>1, <1>4, <1>7 DEF InTime
<1>13. FiredFresh'
  <2>1. SUFFICES ASSUME NEW v \in Uid, NEW l \in Leads[v], <<v, l>> \in fired', Untouched(v)
                 PROVE  \E t \in Starts[v] :
                          /\ <<v, t, l>> \in shown'
                          /\ now < t \/ now <= t - l + Tolerance
    BY <1>1, <1>2, <1>6, <1>7 DEF FiredFresh, Pruned
  <2>2. CASE <<v, l>> \in fired
    BY <1>2, <1>4, <1>6, <2>1, <2>2 DEF FiredFresh, Pruned
  <2>3. CASE v = u /\ l \in leads
    BY <1>4, <1>9, <2>3
  <2> QED BY <1>4, <2>1, <2>2, <2>3
<1>14. Ahead'
  <2>1. SUFFICES ASSUME NEW v \in Uid, NEW t \in Starts[v], NEW l \in Leads[v],
                        Untouched(v), l <= t, <<v, t, l>> \notin shown', ~ now < t - l
                 PROVE  /\ (IF v \in Meeting THEN "meeting" ELSE "calendar") \in pass.gate
                        /\ <<v, t>> \in pass.todo \ {o} /\ now - Tolerance < t
    BY <1>1, <1>2, <1>7 DEF Ahead
  <2>2. <<v, t, l>> \notin shown
    BY <1>4, <2>1
  <2>3. /\ (IF v \in Meeting THEN "meeting" ELSE "calendar") \in pass.gate
        /\ <<v, t>> \in pass.todo /\ now - Tolerance < t
    BY <1>2, <2>1, <2>2 DEF Ahead
  <2>4. <<v, t>> # o
    <3>1. SUFFICES ASSUME v = u, t = s
                   PROVE  FALSE
      BY <1>3
    <3>2. v \notin pass.dismissed /\ pass.snoozes[v] = None
      BY <2>1 DEF AnswersKnown, Untouched
    <3>3. ~ Skipped(o)
      BY <1>3, <1>6, <2>3, <3>1, <3>2 DEF Skipped
    <3>4. s <= now + Window + Tolerance
      BY <1>2, <1>3 DEF OnceInv, NearListed
    <3>5. s - l <= now /\ now <= s - l + Tolerance
      BY <1>6, <2>1, <2>2, <3>1, MomentsAreNumbers DEF InTime
    <3>6. <<v, l>> \notin fired
      BY <1>2, <2>1, <2>2, <3>1, <3>4, <3>5, NotHidden
    <3>7. l \in DueLeads(o)
      BY <1>3, <1>6, <3>1, <3>5, <3>6, MomentsAreNumbers DEF DueLeads
    <3> QED BY <1>4, <1>10, <2>1, <3>1, <3>2, <3>3, <3>7
  <2> QED BY <2>3, <2>4
<1> QED BY <1>8, <1>11, <1>12, <1>13, <1>14

LEMMA EvictHears ==
  ASSUME HeardAllInv, Evict
  PROVE  Heard'
<1> USE DEF HeardAllInv, Heard, history
<1>1. UNCHANGED <<now, last, fired, dismissed, shown, answered, excused>>
  BY DEF Evict
<1>2. pass.pc = "walk" /\ pass.todo = {} /\ pass' = NoPass
  BY DEF Evict, PassAt
<1>3. last = now
  BY <1>2 DEF OnceInv, Clock
<1>4. \A u \in Uid : Untouched(u)' <=> Untouched(u)
  BY <1>1 DEF Untouched
<1>5. \A u \in Uid : snoozes'[u] # None => snoozes[u] # None
  BY DEF Evict
<1>6. AnswersKnown'
  BY <1>1, <1>2, <1>5 DEF AnswersKnown, NoPass
<1>7. FiredFresh' /\ ShownDue' /\ InTime'
  BY <1>1, <1>2, <1>4 DEF FiredFresh, Pruned, ShownDue, InTime, NoPass
<1>8. Ahead'
  BY <1>1, <1>2, <1>3, <1>4 DEF Ahead, NoPass
<1> QED BY <1>6, <1>7, <1>8

LEMMA NextHears ==
  ASSUME Hearable, HeardAllInv, [Next]_vars
  PROVE  HeardAllInv'
<1> USE DEF settings, memory, history, events
<1>1. Typed' /\ OnceInv'
  BY NextTyped, NextOnce DEF HeardAllInv
<1> SUFFICES Heard'
  BY <1>1 DEF HeardAllInv
<1>a. /\ dismissed \subseteq answered
      /\ \A u \in Uid : snoozes[u] # None => u \in answered
  BY DEF HeardAllInv, Heard, AnswersKnown
<1>2. ASSUME NEW u \in Uid, Dismiss(u)
      PROVE  Heard'
  <2>1. /\ UNCHANGED <<now, last, pass, shown, fired, excused, snoozes>>
        /\ answered' = answered \cup {u} /\ dismissed' = dismissed \cup {u}
    BY <1>2 DEF Dismiss
  <2> QED BY <1>a, <2>1, HeardKept
<1>3. ASSUME NEW u \in Uid, NEW t \in Time, Snooze(u, t)
      PROVE  Heard'
  <2>1. /\ UNCHANGED <<now, last, pass, shown, fired, excused, dismissed>>
        /\ answered' = answered \cup {u}
        /\ \A v \in Uid : v # u => snoozes'[v] = snoozes[v]
    BY <1>3 DEF Snooze, HeardAllInv, Typed
  <2> QED BY <1>a, <2>1, HeardKept
<1>4. CASE ForgetSnooze
  <2>1. /\ UNCHANGED <<now, last, pass, shown, fired, excused, dismissed, answered>>
        /\ \A v \in Uid : snoozes'[v] # None => snoozes[v] # None
    BY <1>4 DEF ForgetSnooze, HeardAllInv, Typed
  <2> QED BY <1>a, <2>1, HeardKept
<1>5. CASE ForgetFired \/ (\E g \in GateKind : SetGate(g)) \/ (\E u \in Uid : Mute(u))
  <2>1. /\ UNCHANGED <<now, last, pass, shown, dismissed, answered, snoozes>>
        /\ excused \subseteq excused' /\ fired' \subseteq fired
    BY <1>5 DEF ForgetFired, SetGate, Mute
  <2> QED BY <1>a, <2>1, HeardKept
<1>6. CASE ScanStep \/ RowStep \/ UNCHANGED vars
  <2>1. UNCHANGED <<now, events>>
    BY <1>6 DEF ScanStep, RowStep, ScanDue, Clear, ClearFails, Emit, EmitFails,
       SetReminder, Tombstone, vars
  <2> QED BY <1>a, <2>1, HeardKept
<1>7. CASE Restart
  <2>1. /\ pass' = NoPass /\ dismissed' = {} /\ fired' = {} /\ excused' = Uid
        /\ UNCHANGED <<now, shown, answered>>
        /\ \A u \in Uid : snoozes'[u] = None
    BY <1>7 DEF Restart
  <2>2. \A u \in Uid : ~ Untouched(u)'
    BY <2>1 DEF Untouched
  <2>3. AnswersKnown' /\ ShownDue'
    BY <2>1 DEF AnswersKnown, NoPass, HeardAllInv, Heard, ShownDue
  <2>4. FiredFresh' /\ Ahead' /\ InTime'
    BY <2>2 DEF FiredFresh, Ahead, InTime
  <2> QED BY <2>3, <2>4 DEF Heard
<1>8. CASE PassStep
  BY <1>8, BeginHears, PruneHears, SnapshotHears, WalkHears, EvictHears DEF PassStep
<1>9. CASE AnswerStep
  BY <1>9, <1>2, <1>3, <1>4, <1>5 DEF AnswerStep
<1> QED BY <1>6, <1>7, <1>8, <1>9, TickHeard DEF Next

\* Every alarm is shown no later than the tolerance after its moment, unless the user
\* has answered or silenced its event or the program restarted.  Assumed: passes less
\* than the tolerance apart, leads within the window, and events whose occurrences are
\* too far apart to be in the window together; the code forgets an alarm by its event,
\* so for an event that recurs sooner this is false, and TLC shows it.
THEOREM AlarmsHeard ==
  ASSUME Hearable
  PROVE  Spec => []AlarmHeard
<1>1. Init => HeardAllInv
  <2>1. Init => Typed /\ OnceInv
    BY InitTyped DEF Init, OnceInv, Silenced, Clock, Remembered, NearListed, AlarmOnce,
       NoCmd, NoPass, GateKind
  <2>2. Init => AnswersKnown /\ FiredFresh /\ ShownDue
    BY DEF Init, NoPass, AnswersKnown, FiredFresh, ShownDue
  <2>3. Init => Ahead /\ InTime
    BY MomentsAreNumbers DEF Init, NoPass, Ahead, InTime
  <2> QED BY <2>1, <2>2, <2>3 DEF HeardAllInv, Heard
<1>2. HeardAllInv /\ [Next]_vars => HeardAllInv'
  BY NextHears
<1>3. HeardAllInv => AlarmHeard
  <2>1. SUFFICES ASSUME HeardAllInv, NEW a \in Alarm, now > a[2] - a[3] + Tolerance,
                        0 <= a[2] - a[3], a[1] \notin answered \cup excused
                 PROVE  a \in shown
    BY DEF AlarmHeard
  <2>a. PICK u \in Uid : u = a[1]
    BY DEF Alarm
  <2>b. PICK s \in Starts[u], l \in Leads[u] : s = a[2] /\ l = a[3]
    BY <2>a DEF Alarm
  <2>2. a = <<u, s, l>> /\ a[1] = u /\ a[2] = s /\ a[3] = l
    BY <2>a, <2>b DEF Alarm
  <2>3. l <= s /\ ~ now <= s - l + Tolerance /\ Untouched(u)
    BY <2>1, <2>2, MomentsAreNumbers DEF HeardAllInv, Typed, Time, Untouched
  <2> QED BY <2>1, <2>2, <2>3 DEF HeardAllInv, Heard, InTime
<1> QED BY <1>1, <1>2, <1>3, PTL DEF Spec

=============================================================================
