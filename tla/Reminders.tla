------------------------------ MODULE Reminders ------------------------------
(***************************************************************************)
(* The two loops that remind the user, and the user's answers.             *)
(*                                                                         *)
(*   check_event_reminders_inner    runs on every sync tick over the cached *)
(*                 events; what it has shown and what the user answered is *)
(*                 in memory, under three mutexes                          *)
(*   check_message_reminders_inner  runs on a tick of its own over the     *)
(*                 reminder_at column of table messages                    *)
(*                                                                         *)
(* Time is counted in the shortest sync interval, 30 s.  A pass takes no   *)
(* time, but the user's commands run between its steps, as they do on      *)
(* another thread.                                                         *)
(***************************************************************************)
EXTENDS Integers, FiniteSets

CONSTANTS
  Uid,       \* events; a recurring event is one Uid
  Starts,    \* [Uid -> when its occurrences start]
  Leads,     \* [Uid -> the lead times of its alarms]
  Meeting,   \* the events with a meeting URL
  Msg,       \* messages
  None,      \* no snooze, no reminder
  Tolerance, \* EVENT_REMINDER_FIRE_TOLERANCE_SECS
  Window,    \* how far ahead a pass looks, 7 days in the code
  MaxGap,    \* the longest time between two passes
  MaxTime,   \* bound: how long the clock runs
  MaxActs,   \* bound: what the user does and what goes wrong
  Hazards    \* what may happen, see HazardKind

\* emit_fails, db_error: a toast is not shown, a cleared reminder is not stored;
\* crash: the program restarts; meanwhile: the user sets a snooze or a reminder
\* again between the moment a pass has taken the old one and the moment it drops it.
HazardKind == {"emit_fails", "db_error", "crash", "meanwhile"}

Time == 0..MaxTime

ASSUME ReminderAssumption ==
  /\ MaxTime \in Nat /\ MaxActs \in Nat
  /\ Tolerance \in Nat /\ Window \in Nat /\ MaxGap \in Nat \ {0}
  /\ Starts \in [Uid -> SUBSET Time]
  /\ Leads \in [Uid -> SUBSET Nat]
  /\ Meeting \subseteq Uid
  /\ None \notin Nat
  /\ Hazards \subseteq HazardKind

VARIABLES
  now, last,         \* the clock, and when the last pass over the events began
  gate,              \* meeting_reminders_enabled, calendar_reminders_enabled
  muted,             \* the events of muted and hidden calendars
  fired,             \* EventReminderState: the <<uid, lead>> already shown,
  dismissed,         \* the events the user silenced,
  snoozes,           \* and [Uid -> when to show it again, or None]
  pass,              \* a run of check_event_reminders_inner
  cmd,               \* the command the user's answer runs
  reminder,          \* [Msg -> reminder_at]
  tombstoned,        \* the messages with a pending_action
  scan,              \* a run of check_message_reminders_inner
  acts,              \* acts so far
  \* What the user has seen and is owed, for the properties only:
  shown, again,      \* alarms shown, and shown more than once
  popups,            \* what the current pass has shown
  fresh,             \* the events answered since the current pass began
  answered, excused, \* the events ever answered, ever silenced otherwise
  owed,              \* [Uid -> the snooze not shown yet, or None]
  promised           \* [Msg -> the reminder not shown yet, or None]

settings == <<gate, muted>>
memory == <<fired, dismissed, snoozes>>
history == <<shown, again, popups, fresh, answered, excused, owed>>
events == <<last, settings, memory, pass, cmd, history>>
messages == <<reminder, tombstoned, scan, promised>>
vars == <<now, events, messages, acts>>

MaybeTime == Time \cup {None}
Lead == UNION {Leads[u] : u \in Uid}
Occurrence == {o \in Uid \X Time : o[2] \in Starts[o[1]]}
Alarm == {a \in Uid \X Time \X Lead : a[2] \in Starts[a[1]] /\ a[3] \in Leads[a[1]]}
Snoozed == -1 \* stands for the lead of a reminder shown because a snooze ended

GateKind == {"meeting", "calendar"}
Pass == [pc: {"idle", "prune", "dismissed", "snoozes", "walk"},
         gate: SUBSET GateKind, todo: SUBSET Occurrence,
         dismissed: SUBSET Uid, snoozes: [Uid -> MaybeTime], evict: SUBSET Uid]
NoPass == [pc |-> "idle", gate |-> {}, todo |-> {}, dismissed |-> {},
           snoozes |-> [u \in Uid |-> None], evict |-> {}]

\* pc is the map the command updates next.
Cmd == [pc: {"none", "fired", "snoozes"}, dismiss: BOOLEAN, uid: Uid \cup {None}]
NoCmd == [pc |-> "none", dismiss |-> FALSE, uid |-> None]

Scan == [pc: {"idle", "emit", "clear"}, due: SUBSET Msg, at: Msg \cup {None}]
NoScan == [pc |-> "idle", due |-> {}, at |-> None]

TypeOK ==
  /\ now \in Time /\ last \in 0..now
  /\ gate \subseteq GateKind /\ muted \subseteq Uid
  /\ fired \subseteq Uid \X Lead /\ dismissed \subseteq Uid
  /\ snoozes \in [Uid -> MaybeTime]
  /\ pass \in Pass
  /\ cmd \in Cmd
  /\ reminder \in [Msg -> MaybeTime] /\ tombstoned \subseteq Msg
  /\ scan \in Scan
  /\ acts \in 0..MaxActs
  /\ again \subseteq shown /\ shown \subseteq Alarm
  /\ popups \subseteq Occurrence \X (Lead \cup {Snoozed})
  /\ fresh \subseteq Uid /\ answered \subseteq Uid /\ excused \subseteq Uid
  /\ owed \in [Uid -> MaybeTime] /\ promised \in [Msg -> MaybeTime]

Init ==
  /\ now = 0 /\ last = 0
  /\ gate = GateKind /\ muted = {}
  /\ fired = {} /\ dismissed = {} /\ snoozes = [u \in Uid |-> None]
  /\ pass = NoPass /\ cmd = NoCmd
  /\ reminder = [m \in Msg |-> None] /\ tombstoned = {}
  /\ scan = NoScan
  /\ acts = 0
  /\ shown = {} /\ again = {} /\ popups = {} /\ fresh = {}
  /\ answered = {} /\ excused = {}
  /\ owed = [u \in Uid |-> None] /\ promised = [m \in Msg |-> None]

Hazard(h) == h \in Hazards
Spend == acts < MaxActs /\ acts' = acts + 1

\* The clock stops while a pass runs, and never leaves one out.
Tick ==
  /\ now < MaxTime /\ now' = now + 1
  /\ pass.pc = "idle" /\ scan.pc = "idle" /\ cmd = NoCmd
  /\ now - last < MaxGap
  /\ UNCHANGED <<events, messages, acts>>

-----------------------------------------------------------------------------
(* check_event_reminders_inner. *)

PassAt(pc) == pass.pc = pc

\* The occurrences one unit off: the mutant of Listed.
ListedLate == {<<o[1], o[2] + 1>> : o \in {x \in Occurrence : now - Tolerance <= x[2]}}

\* list_events_for_expansion and expand_event over the calendars not muted.
Listed == {o \in Occurrence : /\ o[1] \notin muted
                              /\ now - Tolerance <= o[2]
                              /\ o[2] <= now + Window + Tolerance}

\* Nothing is done when both settings are off or every calendar is muted.
Begin ==
  /\ PassAt("idle") /\ last < now
  /\ last' = now
  /\ pass' = IF gate = {} \/ muted = Uid THEN NoPass
             ELSE [NoPass EXCEPT !.pc = "prune", !.gate = gate, !.todo = Listed]
  /\ popups' = {}
  /\ fresh' = {u \in Uid : cmd # NoCmd /\ u = cmd.uid}
  /\ UNCHANGED <<now, settings, memory, cmd, messages, acts, shown, again, answered,
                 excused, owed>>

\* Mutants of Active: every alarm is forgotten in the next pass, or none is.
ActiveNever(todo) == {}
ActiveAlways(todo) == Uid

\* active_uids: the events with an occurrence ahead.
Active(todo) == {o[1] : o \in {x \in todo : x[2] > now}}

\* fired.retain.
Prune ==
  /\ PassAt("prune")
  /\ fired' = {k \in fired : k[1] \in Active(pass.todo)}
  /\ pass' = [pass EXCEPT !.pc = "dismissed"]
  /\ UNCHANGED <<now, last, settings, dismissed, snoozes, cmd, history, messages, acts>>

\* dismissed_snapshot, then snoozes_snapshot: two locks.
SnapshotDismissed ==
  /\ PassAt("dismissed")
  /\ pass' = [pass EXCEPT !.pc = "snoozes", !.dismissed = dismissed]
  /\ UNCHANGED <<now, last, settings, memory, cmd, history, messages, acts>>
SnapshotSnoozes ==
  /\ PassAt("snoozes")
  /\ pass' = [pass EXCEPT !.pc = "walk", !.snoozes = snoozes]
  /\ UNCHANGED <<now, last, settings, memory, cmd, history, messages, acts>>

\* Without the test of the snapshot: the mutant of Skipped.
SkippedUnlessDue(o) ==
  \/ o[2] <= now - Tolerance
  \/ (IF o[1] \in Meeting THEN "meeting" ELSE "calendar") \notin pass.gate

\* What the loop passes over: begun too long ago, gate closed, silenced, or
\* snoozed until later.
Skipped(o) ==
  \/ o[2] <= now - Tolerance
  \/ (IF o[1] \in Meeting THEN "meeting" ELSE "calendar") \notin pass.gate
  \/ o[1] \in pass.dismissed
  \/ pass.snoozes[o[1]] # None /\ now < pass.snoozes[o[1]]

\* The alarms whose moment passed at most Tolerance ago, and not shown before.
DueLeads(o) ==
  {l \in Leads[o[1]] : now - (o[2] - l) \in 0..Tolerance /\ <<o[1], l>> \notin fired}

\* One turn of the loop.  An ended snooze stands in for the alarms of the event.
Walk(o) ==
  LET u == o[1]
      ended == ~ Skipped(o) /\ pass.snoozes[u] # None
      leads == IF Skipped(o) \/ ended THEN {} ELSE DueLeads(o)
      alarms == {<<u, o[2], l>> : l \in leads} IN
  /\ PassAt("walk") /\ o \in pass.todo
  /\ pass' = [pass EXCEPT !.todo = @ \ {o},
                          !.evict = IF ended THEN @ \cup {u} ELSE @]
  /\ fired' = fired \cup {<<u, l>> : l \in leads}
  /\ shown' = shown \cup alarms /\ again' = again \cup (alarms \cap shown)
  /\ popups' = popups \cup {<<o, l>> : l \in leads}
                      \cup (IF ended THEN {<<o, Snoozed>>} ELSE {})
  /\ owed' = IF ended THEN [owed EXCEPT ![u] = None] ELSE owed
  /\ UNCHANGED <<now, last, settings, dismissed, snoozes, cmd, messages, acts, fresh,
                 answered, excused>>

\* Every snooze of the map that ends within a unit: the mutant of Evict.
EvictEnded ==
  /\ PassAt("walk") /\ pass.todo = {}
  /\ pass' = NoPass
  /\ snoozes' = [u \in Uid |-> IF snoozes[u] # None /\ snoozes[u] <= now + 1 THEN None
                               ELSE snoozes[u]]
  /\ UNCHANGED <<now, last, settings, fired, dismissed, cmd, history, messages, acts>>

\* snoozes_to_evict: by uid, whatever the entry is by now.
Evict ==
  /\ PassAt("walk") /\ pass.todo = {}
  /\ pass' = NoPass
  /\ snoozes' = [u \in Uid |-> IF u \in pass.evict THEN None ELSE snoozes[u]]
  /\ UNCHANGED <<now, last, settings, fired, dismissed, cmd, history, messages, acts>>

PassStep ==
  \/ Begin \/ Prune \/ SnapshotDismissed \/ SnapshotSnoozes \/ Evict
  \/ \E o \in Occurrence : Walk(o)

-----------------------------------------------------------------------------
(* The user's answers: commands, one at a time, one lock after the other. *)

\* dismiss_event_reminder: the popup's Dismiss, Join and Show event.
Dismiss(u) ==
  /\ Spend
  /\ cmd = NoCmd
  /\ dismissed' = dismissed \cup {u}
  /\ cmd' = [pc |-> "fired", dismiss |-> TRUE, uid |-> u]
  /\ fresh' = fresh \cup {u} /\ answered' = answered \cup {u}
  /\ owed' = [owed EXCEPT ![u] = None]
  /\ UNCHANGED <<now, last, settings, fired, snoozes, pass, messages, shown, again,
                 popups, excused>>

\* snooze_event_reminder: the popup, which a pass has opened for an occurrence it
\* listed, offers moments before the start, or the start.
Snooze(u, t) ==
  /\ Spend
  /\ cmd = NoCmd
  /\ now < t /\ \E s \in Starts[u] : t <= s /\ s <= now + Window + Tolerance
  /\ u \in pass.evict => Hazard("meanwhile")
  /\ snoozes' = [snoozes EXCEPT ![u] = t]
  /\ cmd' = [pc |-> "fired", dismiss |-> FALSE, uid |-> u]
  /\ fresh' = fresh \cup {u} /\ answered' = answered \cup {u}
  /\ owed' = [owed EXCEPT ![u] = t]
  /\ UNCHANGED <<now, last, settings, fired, dismissed, pass, messages, shown, again,
                 popups, excused>>

\* The rest of either command: the fired entries of the event are dropped, ...
ForgetFired ==
  /\ cmd.pc = "fired"
  /\ fired' = {k \in fired : k[1] # cmd.uid}
  /\ cmd' = IF cmd.dismiss THEN [cmd EXCEPT !.pc = "snoozes"] ELSE NoCmd
  /\ UNCHANGED <<now, last, settings, dismissed, snoozes, pass, history, messages, acts>>

\* ... and after a dismissal its snooze.
ForgetSnooze ==
  /\ cmd.pc = "snoozes"
  /\ snoozes' = [snoozes EXCEPT ![cmd.uid] = None]
  /\ cmd' = NoCmd
  /\ UNCHANGED <<now, last, settings, fired, dismissed, pass, history, messages, acts>>

\* update_app_settings, for one of the two flags.
SetGate(g) ==
  /\ Spend
  /\ gate' = IF g \in gate THEN gate \ {g} ELSE gate \cup {g}
  /\ excused' = excused \cup {u \in Uid : (u \in Meeting) = (g = "meeting")}
  /\ UNCHANGED <<now, last, muted, memory, pass, cmd, messages, shown, again, popups,
                 fresh, answered, owed>>

\* set_calendar_muted, for the calendar of one event.
Mute(u) ==
  /\ Spend
  /\ muted' = IF u \in muted THEN muted \ {u} ELSE muted \cup {u}
  /\ excused' = excused \cup {u}
  /\ UNCHANGED <<now, last, gate, memory, pass, cmd, messages, shown, again, popups,
                 fresh, answered, owed>>

AnswerStep ==
  \/ \E u \in Uid : Dismiss(u) \/ Mute(u) \/ \E t \in Time : Snooze(u, t)
  \/ ForgetFired \/ ForgetSnooze
  \/ \E g \in GateKind : SetGate(g)

-----------------------------------------------------------------------------
(* check_message_reminders_inner, and the rows it works on. *)

\* Those due this very tick: the mutant of Due.
DueNow == {m \in Msg : reminder[m] # None /\ reminder[m] = now /\ m \notin tombstoned}

\* due_message_reminders.
Due == {m \in Msg : reminder[m] # None /\ reminder[m] <= now /\ m \notin tombstoned}

ScanDue ==
  /\ scan.pc = "idle" /\ Due # {}
  /\ scan' = [NoScan EXCEPT !.pc = "emit", !.due = Due]
  /\ UNCHANGED <<now, events, reminder, tombstoned, promised, acts>>

\* The loop goes on with the next row, or ends.
NextRow(due) == IF due = {} THEN NoScan ELSE [NoScan EXCEPT !.pc = "emit", !.due = due]

\* The toast is shown, ...
Emit(m) ==
  /\ scan.pc = "emit" /\ m \in scan.due
  /\ scan' = [scan EXCEPT !.pc = "clear", !.due = @ \ {m}, !.at = m]
  /\ promised' = IF promised[m] # None /\ promised[m] <= now
                 THEN [promised EXCEPT ![m] = None] ELSE promised
  /\ UNCHANGED <<now, events, reminder, tombstoned, acts>>

\* The row cleared before the toast: the mutant of EmitFails.
EmitFailsCleared(m) ==
  /\ Hazard("emit_fails") /\ Spend
  /\ scan.pc = "emit" /\ m \in scan.due
  /\ scan' = NextRow(scan.due \ {m})
  /\ reminder' = [reminder EXCEPT ![m] = None]
  /\ UNCHANGED <<now, events, tombstoned, promised>>

\* ... or not, and the row keeps its reminder for the next scan.
EmitFails(m) ==
  /\ Hazard("emit_fails") /\ Spend
  /\ scan.pc = "emit" /\ m \in scan.due
  /\ scan' = NextRow(scan.due \ {m})
  /\ UNCHANGED <<now, events, reminder, tombstoned, promised>>

\* set_message_reminder(None), whatever the row holds by now.
Clear ==
  /\ scan.pc = "clear"
  /\ scan' = NextRow(scan.due)
  /\ reminder' = [reminder EXCEPT ![scan.at] = None]
  /\ UNCHANGED <<now, events, tombstoned, promised, acts>>
ClearFails ==
  /\ Hazard("db_error") /\ Spend
  /\ scan.pc = "clear"
  /\ scan' = NextRow(scan.due)
  /\ UNCHANGED <<now, events, reminder, tombstoned, promised>>

\* set_message_reminder, for the user.
SetReminder(m, t) ==
  /\ Spend
  /\ t \in {None} \cup (now + 1)..MaxTime
  /\ m \in scan.due \cup {scan.at} => Hazard("meanwhile")
  /\ reminder' = [reminder EXCEPT ![m] = t]
  /\ promised' = [promised EXCEPT ![m] = t]
  /\ UNCHANGED <<now, events, tombstoned, scan>>

\* mark_message_pending and clear_message_pending, by an operation on the message.
Tombstone(m) ==
  /\ Spend
  /\ tombstoned' = IF m \in tombstoned THEN tombstoned \ {m} ELSE tombstoned \cup {m}
  /\ UNCHANGED <<now, events, reminder, scan, promised>>

ScanStep ==
  \/ ScanDue \/ Clear \/ ClearFails
  \/ \E m \in Msg : Emit(m) \/ EmitFails(m)

RowStep == \E m \in Msg : Tombstone(m) \/ \E t \in MaybeTime : SetReminder(m, t)

-----------------------------------------------------------------------------
(* The program. *)

\* What was in memory is gone; the column is not, and the tombstones are cleared.
Restart ==
  /\ Hazard("crash") /\ Spend
  /\ fired' = {} /\ dismissed' = {} /\ snoozes' = [u \in Uid |-> None]
  /\ pass' = NoPass /\ cmd' = NoCmd /\ scan' = NoScan
  /\ tombstoned' = {}
  /\ last' = now
  /\ popups' = {} /\ fresh' = {} /\ excused' = Uid
  /\ owed' = [u \in Uid |-> None]
  /\ UNCHANGED <<now, settings, reminder, shown, again, answered, promised>>

Next == Tick \/ PassStep \/ AnswerStep \/ ScanStep \/ RowStep \/ Restart

Fairness ==
  /\ WF_vars(Tick)
  /\ WF_vars(PassStep)
  /\ WF_vars(ForgetFired \/ ForgetSnooze)
  /\ WF_vars(ScanStep)

Spec == Init /\ [][Next]_vars
FairSpec == Spec /\ Fairness

-----------------------------------------------------------------------------
(* Properties. *)

\* Every alarm is shown before it is too late, unless the user answered or
\* silenced its event or the program restarted: the tolerance covers the time
\* between two passes, and no other alarm of the event stands in for it.
AlarmHeard ==
  \A a \in Alarm : /\ now > a[2] - a[3] + Tolerance /\ 0 <= a[2] - a[3]
                   /\ a[1] \notin answered \cup excused
                   => a \in shown

\* An alarm is shown once, although fired is pruned in every pass; only one that
\* leads by no more than the tolerance may outlive its entry.
AlarmOnce ==
  \A a \in again : a[1] \in answered \cup excused \/ a[3] <= Tolerance

\* A pass shows an event the user has silenced, or snoozed until later, only if
\* the answer came while the pass was running.
AnswerHeeded ==
  [][\A p \in popups' \ popups :
       LET u == p[1][1] IN
       \/ u \in fresh
       \/ u \notin dismissed /\ (snoozes[u] = None \/ snoozes[u] <= now)]_vars

\* What the user snoozed is shown again by the first pass after the moment asked
\* for, whatever pass was running when it was set.
SnoozeHeard ==
  \A u \in Uid : owed[u] # None /\ u \notin dismissed \cup excused
                   => now < owed[u] + MaxGap

\* A reminder that was not shown is still in the column: a failed toast, a failed
\* write or a restart loses none.
ReminderKept == \A m \in Msg : promised[m] # None => reminder[m] = promised[m]

\* A reminder that is due is shown in the end, unless its message stays hidden.
ReminderShown ==
  \A m \in Msg : (promised[m] # None /\ promised[m] <= now)
                   ~> (promised[m] = None \/ promised[m] > now \/ m \in tombstoned)
=============================================================================
