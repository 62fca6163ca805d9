---------------------------- MODULE SubmissionQueue ----------------------------
(***************************************************************************)
(* What the outbox promises whatever happens to it: a mail that was put    *)
(* into the queue is handed to the server one envelope at a time, and none *)
(* of them twice unless the queue has lost track of that mail; it counts   *)
(* as sent only when the server has all of it; and once it has left the    *)
(* queue it never comes back.                                              *)
(***************************************************************************)
EXTENDS Naturals

CONSTANTS MaxRows, MaxEnvelopes

VARIABLES
  next,      \* the next mail to be queued
  size,      \* [1..MaxRows -> envelopes the mail consists of]
  status,    \* [1..MaxRows -> {"unused", "queued", "sent", "withdrawn"}]
  delivered, \* [1..MaxRows -> [1..MaxEnvelopes -> 0..2]], 2 for "repeatedly"
  doubt      \* the mails the queue has lost track of

qvars == <<next, size, status, delivered, doubt>>

QInit ==
  /\ next = 1
  /\ size = [id \in 1..MaxRows |-> 1]
  /\ status = [id \in 1..MaxRows |-> "unused"]
  /\ delivered = [id \in 1..MaxRows |-> [e \in 1..MaxEnvelopes |-> 0]]
  /\ doubt = {}

Put(n) ==
  /\ next <= MaxRows
  /\ next' = next + 1
  /\ size' = [size EXCEPT ![next] = n]
  /\ status' = [status EXCEPT ![next] = "queued"]
  /\ UNCHANGED <<delivered, doubt>>

Submit(id, e) ==
  delivered' = [delivered EXCEPT
                  ![id] = [@ EXCEPT ![e] = IF delivered[id][e] = 0 THEN 1 ELSE 2]]

\* The server takes an envelope.  An attempt that began before the mail was
\* withdrawn may still deliver it; one may repeat an envelope of a mail in doubt.
\* If its answer is lost, the mail is in doubt from then on.
Deliver(id, e) ==
  /\ status[id] # "unused" /\ e <= size[id]
  /\ id \in doubt \/ (status[id] # "sent" /\ delivered[id][e] = 0)
  /\ Submit(id, e)
  /\ doubt' \in {doubt, doubt \cup {id}}
  /\ UNCHANGED <<next, size, status>>

\* What became of an attempt is not known.
LoseTrack(S) ==
  /\ \A id \in S : status[id] # "unused"
  /\ doubt' = doubt \cup S
  /\ UNCHANGED <<next, size, status, delivered>>

Complete(id) ==
  /\ status[id] = "queued"
  /\ \A e \in 1..size[id] : delivered[id][e] >= 1
  /\ status' = [status EXCEPT ![id] = "sent"]
  /\ UNCHANGED <<next, size, delivered, doubt>>

Withdraw(id) ==
  /\ status[id] = "queued"
  /\ status' = [status EXCEPT ![id] = "withdrawn"]
  /\ UNCHANGED <<next, size, delivered, doubt>>

QNext ==
  \/ \E n \in 1..MaxEnvelopes : Put(n)
  \/ \E S \in SUBSET (1..MaxRows) : LoseTrack(S)
  \/ \E id \in 1..MaxRows :
       \/ Complete(id) \/ Withdraw(id)
       \/ \E e \in 1..MaxEnvelopes : Deliver(id, e)

QSpec == QInit /\ [][QNext]_qvars
=============================================================================
