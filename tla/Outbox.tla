-------------------------------- MODULE Outbox --------------------------------
(***************************************************************************)
(* The send queue of unkai-mail: the table outbox_messages and every       *)
(* process that reads or writes it.                                        *)
(*                                                                         *)
(*   send_email          puts a row into the table and spawns a drain task *)
(*   drain tasks         claim a row, read it, submit it, remove it        *)
(*   drain_outbox_sweep  every sync tick, drains a snapshot of the rows    *)
(*   the user            retries, deletes, edits and replaces rows         *)
(*                                                                         *)
(* Rows are identified by their AUTOINCREMENT id.  The claim is a lease:   *)
(* it is the row's last_attempt_at, and it lapses after TTL seconds.       *)
(* Time is kept as ages: age[id] is the number of ticks since              *)
(* last_attempt_at, saturating at TTL + 1, which also stands for NULL: no  *)
(* operation of the code tells a lapsed claim from a row never tried.      *)
(***************************************************************************)
EXTENDS Naturals

CONSTANTS
  Account,      \* ids of configured mail accounts
  JmapAccount,  \* the accounts that submit over JMAP
  Keychain,     \* the accounts whose key passphrase is in the OS keychain
  Kinds,        \* the kinds of mail the user writes, a subset of Kind
  Passes,       \* the passphrases the user types, a subset of Pass
  Worker,       \* tokio task slots for spawned drains (bounds their number)
  Sweeper,      \* the background loop, which drains one row at a time
  MaxRows,      \* bound: rows ever inserted
  MaxCrashes,   \* bound: crashes of the application and failing statements
  TTL,          \* the claim's time to live
  MaxSend,      \* bound: the longest attempt, which may be longer than TTL
  MaxEnvelopes, \* SMTP transactions of an encrypted mail with Bcc recipients
  Hazards       \* what the environment and the user may do, see HazardKind

Kind == {"plain", "pgp_sign", "pgp", "smime", "smime_sign"}
Pass == {"none", "bad", "good"}

\* reject: an attempt fails before the server accepts; lost_reply: the server
\* accepts and the answer is lost; db_error: a statement on the table fails;
\* upgrade: after a restart the stored JSON no longer parses.
HazardKind == {"reject", "lost_reply", "db_error", "crash", "upgrade",
               "force_retry", "remove_account"}

Task == Worker \cup {Sweeper}
Ids == 1..MaxRows
Free == TTL + 1

ASSUME OutboxAssumption ==
  /\ JmapAccount \subseteq Account
  /\ Keychain \subseteq Account
  /\ Kinds \subseteq Kind
  /\ Passes \subseteq Pass
  /\ Sweeper \notin Worker
  /\ Account # {}
  /\ MaxRows \in Nat \ {0}
  /\ MaxCrashes \in Nat
  /\ TTL \in Nat
  /\ MaxSend \in Nat
  /\ MaxEnvelopes \in Nat \ {0}
  /\ Hazards \subseteq HazardKind

VARIABLES
  next,      \* the id the next INSERT gets
  mail,      \* [Ids -> content of the row]: account, kind, and the row it
             \* stems from (itself, or the first row of a chain of edits)
  fate,      \* [Ids -> Fate]: "queued" iff the row is in the table; any other
             \* value but "unused" records how it left (history)
  age,       \* [Ids -> 0..Free]: time since last_attempt_at
  failed,    \* the ids whose last_error is set
  garbled,   \* the ids whose stored JSON does not parse
  window,    \* [Ids -> Window]: the Compose window editing that row
  accounts,  \* the accounts that still exist
  drain,     \* [Task -> what the drain running in that slot is doing]
  sweep,     \* the rest of the sweep's snapshot of ids
  delivered, \* [Ids -> [1..MaxEnvelopes -> 0..2]]: how often the server
             \* accepted each envelope, 2 standing for "more than once"
  doubt,     \* the rows of which the server may hold more than the table tells:
             \* an answer, a process or the claim was lost (history)
  crashes    \* crashes and failing statements so far

vars == <<next, mail, fate, age, failed, garbled, window, accounts, drain,
          sweep, delivered, doubt, crashes>>

rowVars == <<next, mail>>

\* replaced: by an edit that send_email queues; taken: its content was handed to
\* Compose and exists there only, or nowhere once the user gives it up.
Gone == {"sent", "deleted", "dropped", "replaced", "taken"}
Fate == {"unused", "queued"} \cup Gone
\* replacing: send_email has removed the source row, not yet inserted the edit;
\* recovered: the mail exists in a Compose window only.
Window == {"closed", "open", "replacing", "recovered"}
Mail == [account: Account, kind: Kind, root: Ids]
PC == {"idle", "claim", "load", "send", "sent"}
Drain == [pc: PC, id: Ids, force: BOOLEAN, pass: Pass, age: 0..MaxSend,
          sent: 0..MaxEnvelopes]

TypeOK ==
  /\ next \in 1..MaxRows + 1
  /\ mail \in [Ids -> Mail]
  /\ fate \in [Ids -> Fate]
  /\ age \in [Ids -> 0..Free]
  /\ failed \subseteq Ids
  /\ garbled \subseteq Ids
  /\ window \in [Ids -> Window]
  /\ accounts \subseteq Account
  /\ drain \in [Task -> Drain]
  /\ sweep \subseteq Ids
  /\ delivered \in [Ids -> [1..MaxEnvelopes -> 0..2]]
  /\ doubt \subseteq Ids
  /\ crashes \in 0..MaxCrashes

-----------------------------------------------------------------------------
(* The content of a mail. *)

\* Mutant: the envelope loop runs once too often.
EnvelopesOffByOne(kind) == IF kind \in {"pgp", "smime"} THEN MaxEnvelopes + 1 ELSE 2

\* An encrypted mail is split into one SMTP transaction per Bcc recipient.
Envelopes(kind) == IF kind \in {"pgp", "smime"} THEN MaxEnvelopes ELSE 1

\* Signing, and PGP encryption (which signs inside), unlock a private key.
NeedsPass(kind) == kind \in {"pgp_sign", "pgp", "smime_sign"}

\* What run_send_pipeline lets through to the server with the passphrase the
\* attempt carries: JMAP takes plain mail only; a key is unlocked by the
\* caller's passphrase or, when there is none, by the keychain's.
Sendable(m, pass) ==
  /\ m.account \in JmapAccount => m.kind = "plain"
  /\ NeedsPass(m.kind) =>
       \/ pass = "good"
       \/ pass = "none" /\ m.account \in Keychain

Idle == [pc |-> "idle", id |-> 1, force |-> FALSE, pass |-> "none", age |-> 0,
         sent |-> 0]

Attempt(id, force, pass) ==
  [pc |-> "claim", id |-> id, force |-> force, pass |-> pass, age |-> 0, sent |-> 0]

Init ==
  /\ next = 1
  /\ mail = [id \in Ids |-> [account |-> CHOOSE a \in Account : TRUE,
                             kind |-> "plain", root |-> id]]
  /\ fate = [id \in Ids |-> "unused"]
  /\ age = [id \in Ids |-> Free]
  /\ failed = {}
  /\ garbled = {}
  /\ window = [id \in Ids |-> "closed"]
  /\ accounts = Account
  /\ drain = [t \in Task |-> Idle]
  /\ sweep = {}
  /\ delivered = [id \in Ids |-> [e \in 1..MaxEnvelopes |-> 0]]
  /\ doubt = {}
  /\ crashes = 0

-----------------------------------------------------------------------------
(* Statements on the table outbox_messages. *)

\* enqueue_outbox: the INSERT; last_attempt_at and last_error stay NULL.
Insert(m) ==
  /\ next <= MaxRows
  /\ next' = next + 1
  /\ mail' = [mail EXCEPT ![next] = m]
  /\ fate' = [fate EXCEPT ![next] = "queued"]

\* remove_outbox: the DELETE affects no row when the id has left the table.
\* how is the reason, for the history.
Remove(id, how) ==
  fate' = [fate EXCEPT ![id] = IF @ = "queued" THEN how ELSE @]

\* record_outbox_failure: the UPDATE affects no row when the id has left.
RecordFailure(id) ==
  IF fate[id] = "queued"
    THEN /\ age' = [age EXCEPT ![id] = 0]
         /\ failed' = failed \cup {id}
    ELSE UNCHANGED <<age, failed>>

\* Mutant: the claim is a plain UPDATE, not a compare-and-set.
CanClaimAlways(id, force) == fate[id] = "queued"

\* Mutant: a row that failed once is not claimed again.
CanClaimFresh(id, force) == fate[id] = "queued" /\ age[id] > TTL /\ id \notin failed

\* claim_outbox_for_drain takes a row never tried or whose claim has lapsed,
\* force_claim_outbox_for_drain takes any row.
CanClaim(id, force) == fate[id] = "queued" /\ (force \/ age[id] > TTL)

\* A statement on the table fails; crashes counts it as one.
DbError ==
  /\ "db_error" \in Hazards /\ crashes < MaxCrashes
  /\ crashes' = crashes + 1

-----------------------------------------------------------------------------
(* The user's commands. *)

\* tokio::spawn of a drain task.
Spawn(w, id, force, pass) ==
  /\ drain[w].pc = "idle"
  /\ drain' = [drain EXCEPT ![w] = Attempt(id, force, pass)]

\* send_email for a new mail: INSERT, then spawn a drain that carries the
\* passphrase Compose asked for.
SendNew(w, a, kind, pass) ==
  /\ a \in accounts
  /\ ~ NeedsPass(kind) => pass = "none"
  /\ Insert([account |-> a, kind |-> kind, root |-> next])
  /\ Spawn(w, next, FALSE, pass)
  /\ UNCHANGED <<age, failed, garbled, window, accounts, sweep, delivered, doubt, crashes>>

\* onEditOutbox: Compose opens on a queued row, which stays queued.
OpenEdit(id) ==
  /\ fate[id] = "queued" /\ window[id] = "closed" /\ id \notin garbled
  /\ window' = [window EXCEPT ![id] = "open"]
  /\ UNCHANGED <<rowVars, fate, age, failed, garbled, accounts, drain, sweep,
                 delivered, doubt, crashes>>

\* Closing Compose without sending gives up what only that window holds.
CancelEdit(id) ==
  /\ window[id] \in {"open", "recovered"}
  /\ window' = [window EXCEPT ![id] = "closed"]
  /\ fate' = [fate EXCEPT ![id] =
                IF window[id] = "recovered" /\ @ = "replaced" THEN "taken" ELSE @]
  /\ UNCHANGED <<rowVars, age, failed, garbled, accounts, drain, sweep,
                 delivered, doubt, crashes>>

\* Mutant: the source row stays.
ReplaceKeepSource(id) ==
  /\ window[id] = "open"
  /\ window' = [window EXCEPT ![id] = "replacing"]
  /\ UNCHANGED <<rowVars, fate, age, failed, garbled, accounts, drain, sweep,
                 delivered, doubt, crashes>>

\* Mutant: the source row is removed before the edit is validated, and the
\* validation error closes Compose.
ReplaceRemoveFirst(id) ==
  /\ window[id] = "open"
  /\ window' = [window EXCEPT ![id] = "closed"]
  /\ Remove(id, "replaced")
  /\ UNCHANGED <<rowVars, age, failed, garbled, accounts, drain, sweep,
                 delivered, doubt, crashes>>

\* send_email with outbox_source, first half: remove the source row.  A failed
\* DELETE is logged and the command goes on.
ReplaceRemove(id) ==
  /\ window[id] = "open"
  /\ window' = [window EXCEPT ![id] = "replacing"]
  /\ \/ Remove(id, "replaced") /\ UNCHANGED crashes
     \/ DbError /\ UNCHANGED fate
  /\ UNCHANGED <<rowVars, age, failed, garbled, accounts, drain, sweep, delivered, doubt>>

\* Second half: insert the edit and spawn its drain.  A failed INSERT returns
\* the error and Compose reopens on the draft, which no longer names a source.
ReplaceInsert(id, w, pass) ==
  /\ window[id] \in {"replacing", "recovered"}
  /\ ~ NeedsPass(mail[id].kind) => pass = "none"
  /\ \/ /\ window' = [window EXCEPT ![id] = "closed"]
        /\ Insert(mail[id])
        /\ Spawn(w, next, FALSE, pass)
        /\ UNCHANGED crashes
     \/ /\ DbError
        /\ window' = [window EXCEPT ![id] = "recovered"]
        /\ UNCHANGED <<rowVars, fate, drain>>
  /\ UNCHANGED <<age, failed, garbled, accounts, sweep, delivered, doubt>>

\* edit_outbox_entry: hand the row to Compose and remove it.
EditEntry(id) ==
  /\ fate[id] = "queued" /\ window[id] = "closed"
  /\ window' = [window EXCEPT ![id] = "recovered"]
  /\ Remove(id, "taken")
  /\ UNCHANGED <<rowVars, age, failed, garbled, accounts, drain, sweep,
                 delivered, doubt, crashes>>

\* delete_outbox_entry.
DeleteEntry(id) ==
  /\ fate[id] = "queued"
  /\ Remove(id, "deleted")
  /\ UNCHANGED <<rowVars, age, failed, garbled, window, accounts, drain, sweep,
                 delivered, doubt, crashes>>

\* OutboxView offers the passphrase panel on a failed row that unlocks a key.
OffersPassphrase(id) == id \in failed /\ mail[id].kind \in {"pgp", "pgp_sign"}

\* retry_outbox_entry.
Retry(id, w) ==
  /\ fate[id] = "queued" /\ ~ OffersPassphrase(id)
  /\ Spawn(w, id, FALSE, "none")
  /\ UNCHANGED <<rowVars, fate, age, failed, garbled, window, accounts, sweep,
                 delivered, doubt, crashes>>

\* retry_outbox_entry_with_passphrase: the command itself runs the drain.
RetryWithPassphrase(id, w, pass) ==
  /\ "force_retry" \in Hazards
  /\ fate[id] = "queued" /\ OffersPassphrase(id)
  /\ Spawn(w, id, TRUE, pass)
  /\ UNCHANGED <<rowVars, fate, age, failed, garbled, window, accounts, sweep,
                 delivered, doubt, crashes>>

\* remove_account: queued rows are left behind for the drain to find.
RemoveAccount(a) ==
  /\ "remove_account" \in Hazards
  /\ accounts' = accounts \ {a}
  /\ UNCHANGED <<rowVars, fate, age, failed, garbled, window, drain, sweep,
                 delivered, doubt, crashes>>

-----------------------------------------------------------------------------
(* try_drain_outbox_entry_with_passphrase, step by step. *)

At(t, pc) == drain[t].pc = pc
Goto(t, pc) == drain' = [drain EXCEPT ![t].pc = pc]
Return(t) == drain' = [drain EXCEPT ![t] = Idle]
Busy(t) == drain[t].pc \in {"load", "send", "sent"}

\* From here on a further attempt at the row may repeat what the server has.
Suspect(t, lost) == doubt' = IF lost THEN doubt \cup {drain[t].id} ELSE doubt

\* Another attempt at t's row still runs: t takes the row by force, or the other
\* one has outlived its claim.
Overlaps(t) ==
  \E u \in Task \ {t} :
    /\ Busy(u) /\ drain[u].id = drain[t].id
    /\ drain[t].force \/ drain[u].age > TTL

\* The attempt failed: record it on the row (a failed UPDATE is logged only).
Fail(t) ==
  /\ Return(t)
  /\ \/ RecordFailure(drain[t].id) /\ UNCHANGED crashes
     \/ DbError /\ UNCHANGED <<age, failed>>

Claim(t) ==
  LET d == drain[t] IN
  /\ At(t, "claim")
  /\ \/ /\ CanClaim(d.id, d.force)
        /\ age' = [age EXCEPT ![d.id] = 0]
        /\ Goto(t, "load")
        /\ Suspect(t, Overlaps(t))
        /\ UNCHANGED crashes
     \/ /\ (~ CanClaim(d.id, d.force) /\ UNCHANGED crashes) \/ DbError
        /\ Return(t)
        /\ UNCHANGED <<age, doubt>>
  /\ UNCHANGED <<rowVars, fate, failed, garbled, window, accounts, sweep, delivered>>

\* Mutant: the row is taken out of the table before it is sent.
LoadRemoves(t) ==
  LET id == drain[t].id IN
  /\ At(t, "load") /\ fate[id] = "queued" /\ id \notin garbled
  /\ Goto(t, "send")
  /\ Remove(id, "sent")
  /\ UNCHANGED <<rowVars, age, failed, garbled, window, accounts, sweep,
                 delivered, doubt, crashes>>

\* Mutant: the drain sends the snapshot it was started with, without re-reading.
LoadStale(t) ==
  /\ At(t, "load")
  /\ Goto(t, "send")
  /\ UNCHANGED <<rowVars, fate, age, failed, garbled, window, accounts, sweep,
                 delivered, doubt, crashes>>

\* get_outbox, the JSON parse and load_account.  load_account fails when the
\* account is gone, and when its own query fails: both drop the row.
Load(t) ==
  LET id == drain[t].id IN
  /\ At(t, "load")
  /\ \/ /\ (fate[id] # "queued" /\ UNCHANGED crashes) \/ DbError
        /\ Return(t)
        /\ UNCHANGED <<fate, age, failed>>
     \/ /\ fate[id] = "queued" /\ id \in garbled
        /\ Fail(t)
        /\ UNCHANGED fate
     \/ /\ fate[id] = "queued" /\ id \notin garbled
        /\ (mail[id].account \notin accounts /\ UNCHANGED crashes) \/ DbError
        /\ Return(t)
        /\ Remove(id, "dropped")
        /\ UNCHANGED <<age, failed>>
     \/ /\ fate[id] = "queued" /\ id \notin garbled
        /\ mail[id].account \in accounts
        /\ Goto(t, "send")
        /\ UNCHANGED <<fate, age, failed, crashes>>
  /\ UNCHANGED <<rowVars, garbled, window, accounts, sweep, delivered, doubt>>

\* run_send_pipeline refuses before it reaches the server.
Refuse(t) ==
  /\ At(t, "send") /\ ~ Sendable(mail[drain[t].id], drain[t].pass)
  /\ Fail(t)
  /\ Suspect(t, drain[t].sent > 0)
  /\ UNCHANGED <<rowVars, fate, garbled, window, accounts, sweep, delivered>>

\* The server takes one more envelope of the mail.
Deliver(id, e) ==
  delivered' = [delivered EXCEPT
                  ![id] = [@ EXCEPT ![e] = IF delivered[id][e] = 0 THEN 1 ELSE 2]]

\* The attempt d after its e-th envelope was accepted.
Submitted(d, e, pc) ==
  [pc |-> pc, id |-> d.id, force |-> d.force, pass |-> d.pass, age |-> d.age, sent |-> e]

\* Mutant: the first accepted envelope ends the attempt.
AcceptFirstOnly(t) ==
  LET id == drain[t].id
      e == drain[t].sent + 1 IN
  /\ At(t, "send") /\ Sendable(mail[id], drain[t].pass)
  /\ Deliver(id, e)
  /\ drain' = [drain EXCEPT ![t] = Submitted(@, e, "sent")]
  /\ UNCHANGED <<rowVars, fate, age, failed, garbled, window, accounts, sweep, doubt,
                 crashes>>

\* The server accepts the next envelope.  After the last one the pipeline does
\* its best-effort bookkeeping (Sent copy, answered flag): the attempt is "sent"
\* and its row still queued.
Accept(t) ==
  LET id == drain[t].id
      e == drain[t].sent + 1 IN
  /\ At(t, "send") /\ Sendable(mail[id], drain[t].pass)
  /\ Deliver(id, e)
  /\ drain' = [drain EXCEPT ![t] =
                 Submitted(@, e, IF e = Envelopes(mail[id].kind) THEN "sent" ELSE "send")]
  /\ UNCHANGED <<rowVars, fate, age, failed, garbled, window, accounts, sweep, doubt,
                 crashes>>

\* Connecting, authenticating or submitting fails and the server has nothing.
Reject(t) ==
  /\ "reject" \in Hazards
  /\ At(t, "send") /\ Sendable(mail[drain[t].id], drain[t].pass)
  /\ Fail(t)
  /\ Suspect(t, drain[t].sent > 0)
  /\ UNCHANGED <<rowVars, fate, garbled, window, accounts, sweep, delivered>>

\* The server has the envelope but its answer is lost.
LoseReply(t) ==
  /\ "lost_reply" \in Hazards
  /\ At(t, "send") /\ Sendable(mail[drain[t].id], drain[t].pass)
  /\ Deliver(drain[t].id, drain[t].sent + 1)
  /\ Fail(t)
  /\ Suspect(t, TRUE)
  /\ UNCHANGED <<rowVars, fate, garbled, window, accounts, sweep>>

\* Mutant: a sent row stays in the table.
FinishKeeps(t) ==
  /\ At(t, "sent")
  /\ Return(t)
  /\ UNCHANGED <<rowVars, fate, age, failed, garbled, window, accounts, sweep,
                 delivered, doubt, crashes>>

\* remove_outbox after a successful send (a failed DELETE is logged only).
Finish(t) ==
  /\ At(t, "sent")
  /\ Return(t)
  /\ \/ Remove(drain[t].id, "sent") /\ UNCHANGED <<doubt, crashes>>
     \/ DbError /\ UNCHANGED fate /\ Suspect(t, TRUE)
  /\ UNCHANGED <<rowVars, age, failed, garbled, window, accounts, sweep, delivered>>

DrainStep(t) ==
  Claim(t) \/ Load(t) \/ Refuse(t) \/ Accept(t) \/ Reject(t) \/ LoseReply(t) \/ Finish(t)

-----------------------------------------------------------------------------
(* drain_outbox_sweep. *)

Queued == {id \in Ids : fate[id] = "queued"}

\* list_all_outbox: a snapshot of the ids.
SweepStart ==
  /\ At(Sweeper, "idle") /\ sweep = {}
  /\ sweep' = Queued
  /\ UNCHANGED <<rowVars, fate, age, failed, garbled, window, accounts, drain,
                 delivered, doubt, crashes>>

\* Oldest first; the next row only after the drain of the last one returned.
SweepNext ==
  /\ \E id \in sweep :
       /\ \A other \in sweep : id <= other
       /\ Spawn(Sweeper, id, FALSE, "none")
       /\ sweep' = sweep \ {id}
  /\ UNCHANGED <<rowVars, fate, age, failed, garbled, window, accounts,
                 delivered, doubt, crashes>>

-----------------------------------------------------------------------------
(* Time and crashes. *)

\* One TTL unit passes.  An attempt ends within MaxSend of its claim.
Tick ==
  /\ \A t \in Task : Busy(t) => drain[t].age < MaxSend
  /\ age' = [id \in Ids |-> IF age[id] < Free THEN age[id] + 1 ELSE Free]
  /\ drain' = [t \in Task |-> IF Busy(t) THEN [drain[t] EXCEPT !.age = @ + 1]
                                         ELSE drain[t]]
  /\ UNCHANGED <<rowVars, fate, failed, garbled, window, accounts, sweep,
                 delivered, doubt, crashes>>

\* The process dies and is started again, perhaps in a newer version.
Crash ==
  /\ "crash" \in Hazards /\ crashes < MaxCrashes
  /\ crashes' = crashes + 1
  /\ drain' = [t \in Task |-> Idle]
  /\ doubt' = doubt \cup {drain[t].id : t \in {u \in Task : drain[u].sent > 0}}
  /\ sweep' = {}
  /\ window' = [id \in Ids |-> "closed"]
  /\ \/ UNCHANGED garbled
     \/ "upgrade" \in Hazards /\ garbled' = garbled \cup Queued
  /\ UNCHANGED <<rowVars, fate, age, failed, accounts, delivered>>

-----------------------------------------------------------------------------
UserStep ==
  \/ \E w \in Worker, a \in Account, k \in Kinds, p \in Passes : SendNew(w, a, k, p)
  \/ \E id \in Ids :
       \/ OpenEdit(id) \/ CancelEdit(id) \/ ReplaceRemove(id)
       \/ EditEntry(id) \/ DeleteEntry(id)
       \/ \E w \in Worker :
            \/ Retry(id, w)
            \/ \E p \in Passes : ReplaceInsert(id, w, p) \/ RetryWithPassphrase(id, w, p)
  \/ \E a \in Account : RemoveAccount(a)

Next ==
  \/ UserStep
  \/ \E t \in Task : DrainStep(t)
  \/ SweepStart \/ SweepNext
  \/ Tick
  \/ Crash

Spec == Init /\ [][Next]_vars

-----------------------------------------------------------------------------
(* Properties. *)

\* What every reachable state satisfies besides its types: tasks and the sweep
\* name issued rows only, and an attempt is no further than its envelopes.
Issued ==
  /\ \A t \in Task : drain[t].pc # "idle" => drain[t].id < next
  /\ \A id \in sweep : id < next
  /\ \A id \in Ids : fate[id] = "unused" <=> next <= id
Progress ==
  \A t \in Task :
    LET n == Envelopes(mail[drain[t].id].kind) IN
    /\ drain[t].pc = "send" => drain[t].sent < n
    /\ drain[t].pc = "sent" => drain[t].sent = n
    /\ drain[t].pc \in {"idle", "claim", "load"} => drain[t].sent = 0

\* What the claim is for: two attempts work on one row only when one of them took
\* it by force (retry_outbox_entry_with_passphrase) or has run longer than the
\* claim lasts, which nobody renews.
ClaimExclusive ==
  \A t, u \in Task :
    t # u /\ Busy(t) /\ Busy(u) /\ drain[t].id = drain[u].id =>
      \E v \in {t, u} : drain[v].force \/ drain[v].age > TTL

\* The server accepts no envelope of a row twice, so that the recipient does not
\* receive the mail twice, unless the row is in doubt: a reply was lost, an
\* attempt failed or died when it had submitted a part, remove_outbox failed, or
\* two attempts at it overlapped in one of the two ways ClaimExclusive names.
AtMostOnce ==
  \A id \in Ids \ doubt, e \in 1..MaxEnvelopes : delivered[id][e] <= 1

\* send_email: "the queue holds at most one copy of this message at any moment".
OneVersionQueued ==
  \A i, j \in Queued : mail[i].root = mail[j].root => i = j

\* Editing a queued mail loses neither version: a row that an edit replaced has
\* its edit in the table's history, or still in the Compose window.
NoMailLost ==
  \A id \in Ids :
    fate[id] = "replaced" =>
      \/ window[id] \in {"replacing", "recovered"}
      \/ \E j \in Ids : id < j /\ j < next /\ mail[j].root = mail[id].root

\* A row that left the table as sent was accepted whole, every Bcc envelope
\* included.
SentIsDelivered ==
  \A id \in Ids :
    fate[id] = "sent" => \A e \in 1..Envelopes(mail[id].kind) : delivered[id][e] >= 1

\* An attempt past its checks for this row.
Sending(id) == \E t \in Task : drain[t].id = id /\ drain[t].pc \in {"send", "sent"}

\* No failure record, retry or stale snapshot brings a row back into the table,
\* and none starts sending a row that has left it.
GoneForGood ==
  [][\A id \in Ids : fate[id] \in Gone =>
       /\ fate'[id] \in Gone
       /\ Sending(id)' => Sending(id)]_vars

-----------------------------------------------------------------------------
(* Liveness: the scheduler runs every spawned task and the background loop,  *)
(* time passes, and a server that is offered the same envelope again and     *)
(* again accepts it in the end.  The user and crashes have no fairness.      *)

Fairness ==
  /\ WF_vars(Tick) /\ WF_vars(SweepStart) /\ WF_vars(SweepNext)
  /\ \A t \in Task :
       /\ WF_vars(DrainStep(t))
       /\ \A id \in Ids, e \in 1..MaxEnvelopes :
            SF_vars(drain[t].id = id /\ drain[t].sent + 1 = e /\ Accept(t))

LiveSpec == Spec /\ Fairness

\* The background sweep can send the mail without asking the user.
Unattended(id) == Sendable(mail[id], "none") /\ id \notin garbled

\* Every row the sweep can send leaves the table, whatever failed or crashed
\* before: a claim left behind never blocks it for good.
QueueDrains ==
  \A id \in Ids : fate[id] = "queued" /\ Unattended(id) ~> fate[id] # "queued" \/ id \in garbled

-----------------------------------------------------------------------------
(* Refinement of SubmissionQueue. *)

Queue == INSTANCE SubmissionQueue WITH
  size <- [id \in Ids |-> Envelopes(mail[id].kind)],
  status <- [id \in Ids |->
              IF fate[id] \in Gone \ {"sent"} THEN "withdrawn" ELSE fate[id]]

\* The outbox hands every mail over whole, and once unless it is in doubt
\* (SubmissionQueue).
QueueSpec == Queue!QSpec
=============================================================================
