----------------------------- MODULE MCReminders -----------------------------
(* Small instances of Reminders for TLC. *)
EXTENDS Reminders

CONSTANTS single, series, m1, m2

\* A meeting with two alarms, and an event that recurs once the first occurrence
\* has left the window.
RareStarts == [u \in {single, series} |-> IF u = single THEN {5} ELSE {4, 10}]
\* The same with an event that recurs within the window.
DailyStarts == [u \in {single, series} |-> IF u = single THEN {5} ELSE {4, 8}]
MCLeads == [u \in {single, series} |-> IF u = single THEN {0, 4} ELSE {4}]
=============================================================================
