----------------------------- MODULE SettingsSync -----------------------------
(***************************************************************************)
(* The backup of the settings to a Nextcloud account of the user's choice. *)
(*                                                                         *)
(*   the user              changes settings, and picks or clears the       *)
(*                         account (settings_sync.json)                    *)
(*   settings_sync_worker  is woken by a Notify permit or a retry tick,    *)
(*                         reads the file, uploads a bundle and writes the *)
(*                         file again                                      *)
(*                                                                         *)
(* A bundle has two parts: what the backend stores (cache, app_settings),  *)
(* read when it is built, and the window's localStorage, of which the      *)
(* worker has the copy the window last sent.  Each is a version number.    *)
(***************************************************************************)
EXTENDS Naturals

CONSTANTS
  Nc,         \* connected Nextcloud accounts
  None,       \* no account: the feature is off
  MaxChanges, \* bound: what the user does
  MaxCrashes, \* bound: restarts of the application
  MaxFaults,  \* bound: failing reads and writes of settings_sync.json
  Hazards     \* "fails": a round-trip fails; "lost_reply": after it was done

ASSUME SettingsAssumption ==
  /\ None \notin Nc
  /\ MaxChanges \in Nat
  /\ MaxCrashes \in Nat
  /\ MaxFaults \in Nat
  /\ Hazards \subseteq {"fails", "lost_reply"}

VARIABLES
  settings, \* version of the settings the backend stores
  local,    \* version of the window's localStorage
  unsent,   \* the window has written its localStorage and not sent it yet
  told,     \* the localStorage the window last sent; 0 is the empty map
  permit,   \* the Notify holds a permit
  file,     \* settings_sync.json: target_nc_id and pending
  worker,   \* settings_sync_worker
  backup,   \* [Nc -> the bundle stored there], 0 for parts never stored
  dropped,  \* history: the worker went to rest after a failing read or write of
            \* the file, with nothing left to wake it
  changes, crashes, faults

vars == <<settings, local, unsent, told, permit, file, worker, backup, dropped,
          changes, crashes, faults>>

Version == 0..MaxChanges
Bundle == [settings: Version, local: Version]
File == [target: Nc \cup {None}, pending: BOOLEAN]
\* file and bundle are what the worker read when it began to push.
Worker == [pc: {"wait", "debounce", "load", "push", "ok", "err"}, file: File, bundle: Bundle]

Waiting == [pc |-> "wait", file |-> [target |-> None, pending |-> FALSE],
            bundle |-> [settings |-> 0, local |-> 0]]

TypeOK ==
  /\ settings \in Version /\ local \in Version /\ told \in Version
  /\ unsent \in BOOLEAN
  /\ permit \in BOOLEAN
  /\ file \in File
  /\ worker \in Worker
  /\ worker.pc \in {"push", "ok", "err"} => worker.file.target \in Nc
  /\ backup \in [Nc -> Bundle]
  /\ dropped \in BOOLEAN
  /\ changes \in 0..MaxChanges /\ crashes \in 0..MaxCrashes /\ faults \in 0..MaxFaults

Init ==
  /\ settings = 0 /\ local = 0 /\ told = 0
  /\ unsent = FALSE
  /\ permit = FALSE
  /\ file = [target |-> None, pending |-> FALSE]
  /\ worker = Waiting
  /\ backup = [n \in Nc |-> [settings |-> 0, local |-> 0]]
  /\ dropped = FALSE
  /\ changes = 0 /\ crashes = 0 /\ faults = 0

-----------------------------------------------------------------------------
(* The user. *)

Spend == changes < MaxChanges /\ changes' = changes + 1

\* update_app_settings, add_account and the other commands that notify.
ChangeSettings ==
  /\ Spend
  /\ settings' = settings + 1
  /\ permit' = TRUE
  /\ UNCHANGED <<local, unsent, told, file, worker, backup, dropped, crashes, faults>>

\* The window writes its localStorage ...
ChangeLocal ==
  /\ Spend
  /\ local' = local + 1
  /\ unsent' = TRUE
  /\ UNCHANGED <<settings, told, permit, file, worker, backup, dropped, crashes, faults>>

\* The mutant of Notify: the copy is replaced and nobody is woken.
NotifyNobody ==
  /\ unsent /\ unsent' = FALSE
  /\ told' = local
  /\ UNCHANGED <<settings, local, permit, file, worker, backup, dropped, changes, crashes, faults>>

\* ... and sends it: notify_settings_changed.
Notify ==
  /\ unsent /\ unsent' = FALSE
  /\ told' = local
  /\ permit' = TRUE
  /\ UNCHANGED <<settings, local, file, worker, backup, dropped, changes, crashes, faults>>

\* set_settings_sync_target.  When it cannot read or write the file it changes
\* nothing and tells the user.
SetTarget(n) ==
  /\ Spend
  /\ n # file.target
  /\ file' = [target |-> n, pending |-> n # None]
  /\ permit' = TRUE
  /\ UNCHANGED <<settings, local, unsent, told, worker, backup, dropped, crashes, faults>>

-----------------------------------------------------------------------------
(* settings_sync_worker. *)

At(pc) == worker.pc = pc
Goto(pc) == worker' = [worker EXCEPT !.pc = pc]

\* notified(): takes the permit, and debounces.
Wake ==
  /\ At("wait") /\ permit
  /\ permit' = FALSE
  /\ Goto("debounce")
  /\ UNCHANGED <<settings, local, unsent, told, file, backup, dropped, changes, crashes, faults>>

Debounce ==
  /\ At("debounce")
  /\ Goto("load")
  /\ UNCHANGED <<settings, local, unsent, told, permit, file, backup, dropped,
                 changes, crashes, faults>>

\* The mutant of RetryTick: only a notification retries.
RetryNever == FALSE /\ UNCHANGED vars

\* retry_tick.tick(), which looks for something to flush.  A tick that cannot read
\* the file does nothing.
RetryTick ==
  /\ At("wait")
  /\ file.pending /\ file.target # None
  /\ Goto("load")
  /\ UNCHANGED <<settings, local, unsent, told, permit, file, backup, dropped,
                 changes, crashes, faults>>

\* The file could not be read or written.
Fault == faults < MaxFaults /\ faults' = faults + 1

\* `let _ = save_state`: whether the file was written is not looked at.
Write(f) == \/ file' = f /\ UNCHANGED faults
            \/ Fault /\ UNCHANGED file

\* The worker goes to rest without the outcome in the file: unless the file says
\* so already, nothing tells that there is something to push.
GiveUp == worker' = Waiting /\ dropped' = (dropped \/ ~ file'.pending)

\* The mutants of Load: the target is not looked at, and both parts are taken
\* from what the window sent.
LoadUnchecked ==
  /\ At("load")
  /\ dropped' = FALSE
  /\ worker' = [pc |-> "push", file |-> file,
                bundle |-> [settings |-> settings, local |-> told]]
  /\ UNCHANGED <<settings, local, unsent, told, permit, file, backup, changes, crashes, faults>>
LoadFromWindow ==
  /\ At("load") /\ file.target # None
  /\ dropped' = FALSE
  /\ worker' = [pc |-> "push", file |-> file, bundle |-> [settings |-> told, local |-> told]]
  /\ UNCHANGED <<settings, local, unsent, told, permit, file, backup, changes, crashes, faults>>

\* Read the file; without a target there is nothing to push and nothing pending.
\* With one, copy what the window sent and build the bundle.  When the file cannot
\* be read the worker goes on waiting: the permit it took is spent.
Load ==
  /\ At("load")
  /\ \/ /\ file.target = None
        /\ worker' = Waiting /\ dropped' = FALSE
        /\ IF file.pending THEN Write([file EXCEPT !.pending = FALSE])
           ELSE UNCHANGED <<file, faults>>
     \/ /\ file.target # None
        /\ worker' = [pc |-> "push", file |-> file,
                      bundle |-> [settings |-> settings, local |-> told]]
        /\ dropped' = FALSE
        /\ UNCHANGED <<file, faults>>
     \/ Fault /\ UNCHANGED file /\ GiveUp
  /\ UNCHANGED <<settings, local, unsent, told, permit, backup, changes, crashes>>

\* push_settings_to_nc, after the bundle is built.
Push ==
  /\ At("push")
  /\ \/ /\ backup' = [backup EXCEPT ![worker.file.target] = worker.bundle]
        /\ \/ Goto("ok")
           \/ "lost_reply" \in Hazards /\ Goto("err")
     \/ /\ "fails" \in Hazards
        /\ Goto("err")
        /\ UNCHANGED backup
  /\ UNCHANGED <<settings, local, unsent, told, permit, file, dropped,
                 changes, crashes, faults>>

\* The mutant of Save: the outcome is not looked at.
SaveDone ==
  /\ At("ok") \/ At("err")
  /\ worker' = Waiting
  /\ file' = [worker.file EXCEPT !.pending = FALSE]
  /\ UNCHANGED <<settings, local, unsent, told, permit, backup, dropped,
                 changes, crashes, faults>>

\* Write the file as it was read, with the outcome, when that differs.
Save ==
  /\ At("ok") \/ At("err")
  /\ IF worker.file.pending = At("err") THEN UNCHANGED <<file, faults>>
     ELSE Write([worker.file EXCEPT !.pending = At("err")])
  /\ IF At("err") THEN GiveUp ELSE worker' = Waiting /\ UNCHANGED dropped
  /\ UNCHANGED <<settings, local, unsent, told, permit, backup, changes, crashes>>

WorkerStep == Wake \/ Debounce \/ RetryTick \/ Load \/ Push \/ Save

-----------------------------------------------------------------------------
\* The profile is closed, at whatever point, and opened again: the window's copy
\* and the permit are gone.  build_profile_handle kicks the worker when it can read
\* that something is pending.
Restart ==
  /\ crashes < MaxCrashes /\ crashes' = crashes + 1
  /\ told' = 0 /\ unsent' = FALSE
  /\ worker' = Waiting
  /\ \/ permit' = (file.pending /\ file.target # None) /\ UNCHANGED faults
     \/ permit' = FALSE /\ Fault
  /\ UNCHANGED <<settings, local, file, backup, dropped, changes>>

Next ==
  \/ ChangeSettings \/ ChangeLocal \/ Notify
  \/ \E n \in Nc \cup {None} : SetTarget(n)
  \/ WorkerStep
  \/ Restart

Spec == Init /\ [][Next]_vars

-----------------------------------------------------------------------------
(* Properties. *)

\* The bundle a push would upload now.
Current == [settings |-> settings, local |-> told]

\* While the program runs no change is forgotten: a worker at rest, with nothing
\* to wake it and nothing pending, has backed up the latest version.  Excused is a
\* worker that could not read the file after a notification, or could not write
\* that its push failed: it drops the change, until the next one wakes it.
NothingForgotten ==
  crashes = 0 /\ ~ dropped /\ At("wait") /\ ~ permit /\ file.target # None /\ ~ file.pending
    => backup[file.target] = Current

\* An upload never replaces what the backend stores by an older version.  (The
\* window's part can fall back to the empty map after a restart.)
BackupKeepsSettings ==
  [][\A n \in Nc : backup'[n].settings >= backup[n].settings]_vars

\* The scheduler runs the worker, whose select! is not biased; the window sends
\* its localStorage; a server that is asked again and again answers in the end.
Fairness ==
  /\ WF_vars(Notify)
  /\ WF_vars(Debounce) /\ WF_vars(Load) /\ WF_vars(Push) /\ WF_vars(Save)
  /\ SF_vars(Wake) /\ SF_vars(RetryTick)
  /\ SF_vars(Push /\ At("ok")')

LiveSpec == Spec /\ Fairness

\* A push that failed, or that the end of the program cut off, is made up for:
\* what is pending is pushed after all, or the user turns the feature off.
PendingIsFlushed == file.pending ~> ~ file.pending

\* Once the user is done the chosen account has the latest version, unless the
\* program was restarted in between or dropped the last change.
BackedUpInTheEnd ==
  <>[](crashes = 0 /\ ~ dropped /\ file.target # None => backup[file.target] = Current)
=============================================================================
