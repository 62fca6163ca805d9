------------------------------ MODULE DavSync ------------------------------
(***************************************************************************)
(* One collection of a DAV account and its cache: a calendar, an address   *)
(* book, a task list or the notes.                                         *)
(*                                                                         *)
(*   the syncs    read the bookmark, ask the server what changed since,    *)
(*                fetch it, and write rows and bookmark in one transaction *)
(*   the writes   create, save, toggle and delete: a request gated on an   *)
(*                etag, then the row                                       *)
(*   the editor   the form a user edits one item in                        *)
(*   the rest     other clients of the server, lost answers, a restart     *)
(*                                                                         *)
(* The server numbers its changes.  A change's number is the version (and  *)
(* the etag) of the item it made, and the sync token of the state after    *)
(* it; 0 is "none".                                                        *)
(***************************************************************************)
EXTENDS Naturals, FiniteSets

CONSTANTS
  Item,      \* hrefs of the collection
  Command,   \* bound: the commands under way at once
  None,
  Kinds,     \* the kinds of collection to look at
  MaxClock,  \* bound: the changes the server sees
  MaxFails   \* bound: failed or unanswered requests, and restarts

ASSUME DavAssumption ==
  /\ Kinds \subseteq {"event", "contact", "task", "note"}
  /\ None \notin Item
  /\ MaxClock \in Nat /\ MaxFails \in Nat

VARIABLES
  kind,      \* what the collection holds
  clock,     \* the server's last change
  srv,       \* the server's items
  row,       \* the version of each cached row, 0 when there is none
  listed,    \* the versions the row has had since the start: a window's list is read
             \* now and then, and shows one of them
  token,     \* the stored sync_token
  cmd,       \* [Command -> a sync or a write]
  ed,        \* the open editor
  fails,     \* failures so far
  \* For the properties only:
  raced,     \* items that met one of the races of the three operators below
  lost       \* how the editors whose saves replaced an unseen text got their etag

vars == <<kind, clock, srv, row, listed, token, cmd, ed, fails, raced, lost>>
server == <<clock, srv>>
cache == <<row, listed, token>>
ghosts == <<raced, lost>>

Version == 0..MaxClock

\* last: the last change of the item's text, which a toggle leaves alone but in one case
ServerItem == [v : Version, live : BOOLEAN, last : Version]

\* A command: what it does to which item and how far it is, the etag it sends, the
\* version whose text its body was made from, whether the editor that is open sent it,
\* and the sync it runs (as itself or on the way).
Op == {"none", "sync", "create", "save", "toggle", "delete"}
Pc == {"idle", "report", "fetch", "apply", "put", "record"}
Via == {"open", "handed"}
CommandState ==
  [op : Op, pc : Pc, item : Item \cup {None}, etag : Version, seen : Version, via : Via,
   own : BOOLEAN, retried : BOOLEAN, base : Version, new : Version,
   got : [Item -> Version], gone : SUBSET Item]

\* etag: the etag the editor sends; via: "handed" when an answer to something else
\* than its own saves gave it that etag
Closed == [open |-> FALSE]
Editor == {Closed} \cup
  [open : {TRUE}, item : Item, seen : Version, etag : Version, via : Via]

Nothing == [i \in Item |-> 0]
Idle == [op |-> "none", pc |-> "idle", item |-> None, etag |-> 0,
         seen |-> 0, via |-> "open", own |-> FALSE, retried |-> FALSE, base |-> 0, new |-> 0,
         got |-> Nothing, gone |-> {}]

Init ==
  /\ kind \in Kinds
  /\ clock = 0 /\ srv = [i \in Item |-> [v |-> 0, live |-> FALSE, last |-> 0]]
  /\ row = Nothing /\ listed = [i \in Item |-> {}] /\ token = 0
  /\ cmd = [c \in Command |-> Idle]
  /\ ed = Closed
  /\ fails = 0
  /\ raced = {} /\ lost = {}

-----------------------------------------------------------------------------
Live(i) == IF srv[i].live THEN srv[i].v ELSE 0
At(c, op, pc) == cmd[c].op \in op /\ cmd[c].pc = pc
End(c) == cmd' = [cmd EXCEPT ![c] = Idle]
Go(c, pc) == cmd' = [cmd EXCEPT ![c].pc = pc]

(***************************************************************************)
(* The races after which a row may stay behind the server.                 *)
(*                                                                         *)
(* Unrecorded: an item changes again while an accepted write of it has not *)
(* written its row yet, which it will do over whatever a sync wrote.       *)
(* Unnamed: a pull without a bookmark names no deletions, so it leaves the *)
(* rows of deleted items, those about to be written included.              *)
(* TurnedBack: a sync's rows land after another sync started from a newer  *)
(* bookmark, which will not hear of those items again.                     *)
(***************************************************************************)
Unrecorded(i) == \E c \in Command : cmd[c].item = i /\ cmd[c].pc = "record"

Held(i) == row[i] # 0 \/ Unrecorded(i) \/ \E c \in Command : cmd[c].got[i] # 0

Unnamed == {i \in Item : srv[i].v # 0 /\ ~srv[i].live /\ Held(i)}

TurnedBack(c) ==
  {i \in Item : /\ cmd[c].got[i] # 0 \/ i \in cmd[c].gone
                /\ \E d \in Command \ {c} :
                     cmd[d].pc \in {"report", "fetch", "apply"} /\ cmd[d].base > cmd[c].new}

-----------------------------------------------------------------------------
(***************************************************************************)
(* The syncs.  A contact sync ignores the bookmark of an empty book.       *)
(***************************************************************************)
Base == IF kind = "note" \/ (kind = "contact" /\ row = Nothing) THEN 0 ELSE token

\* The bookmark is read before the request goes out.
Pull(c) == cmd' = [cmd EXCEPT ![c] = [@ EXCEPT !.pc = "report", !.base = Base]]

Sync(c) ==
  /\ cmd[c].op = "none"
  /\ cmd' = [cmd EXCEPT ![c] = [@ EXCEPT !.op = "sync", !.pc = "report", !.base = Base]]
  /\ UNCHANGED <<kind, server, cache, ed, fails, ghosts>>

\* The server's answer to sync-collection: what changed, what is gone, and the
\* new bookmark.  The bodies are asked for afterwards.
Changed(base) == {i \in Item : srv[i].live /\ srv[i].v > base}
Deleted(base) == IF base = 0 THEN {} ELSE {i \in Item : ~srv[i].live /\ srv[i].v > base}

Report(c) ==
  /\ kind # "note" /\ cmd[c].pc = "report"
  /\ LET changed == Changed(cmd[c].base)
     IN cmd' = [cmd EXCEPT ![c] =
                  [@ EXCEPT !.pc = IF changed = {} THEN "apply" ELSE "fetch",
                            !.new = clock,
                            !.gone = Deleted(cmd[c].base),
                            !.got = [i \in Item |-> IF i \in changed THEN srv[i].v ELSE 0]]]
  /\ raced' = IF cmd[c].base = 0 THEN raced \cup Unnamed ELSE raced
  /\ UNCHANGED <<kind, server, cache, ed, fails, lost>>

\* The second request returns the bodies as they are by then.
Fetch(c) ==
  /\ cmd[c].pc = "fetch"
  /\ cmd' = [cmd EXCEPT ![c] =
               [@ EXCEPT !.pc = "apply",
                         !.got = [i \in Item |-> IF cmd[c].got[i] = 0 THEN 0 ELSE Live(i)]]]
  /\ UNCHANGED <<kind, server, cache, ed, fails, ghosts>>

\* The notes come whole, with their bodies, in one answer.
List(c) ==
  /\ kind = "note" /\ cmd[c].pc = "report"
  /\ cmd' = [cmd EXCEPT ![c] = [@ EXCEPT !.pc = "apply", !.got = [i \in Item |-> Live(i)]]]
  /\ UNCHANGED <<kind, server, cache, ed, fails, ghosts>>

\* apply_*_delta: rows and bookmark in one transaction; a list of notes also drops
\* the rows it does not name.
Merged(c) ==
  [i \in Item |-> IF cmd[c].got[i] # 0 \/ kind = "note" THEN cmd[c].got[i]
                  ELSE IF i \in cmd[c].gone THEN 0
                  ELSE row[i]]

\* The bookmark of the moment the rows are written: the mutant of Bookmark.
BookmarkLate(c) == clock

Bookmark(c) == cmd[c].new

Apply(c) ==
  /\ cmd[c].pc = "apply"
  /\ row' = Merged(c)
  /\ listed' = [i \in Item |-> listed[i] \cup ({Merged(c)[i]} \ {0})]
  /\ token' = IF kind = "note" THEN token ELSE Bookmark(c)
  /\ raced' = IF kind = "note" THEN raced ELSE raced \cup TurnedBack(c)
  /\ UNCHANGED <<kind, server, ed, fails, lost>>

SyncEnds(c) == At(c, {"sync"}, "apply") /\ Apply(c) /\ End(c)

-----------------------------------------------------------------------------
(***************************************************************************)
(* The writes.  A request is accepted when its etag is the item's; an      *)
(* accepted one makes the next version.                                    *)
(***************************************************************************)
\* The editor shows what the list has.
Open(i, v) ==
  /\ ~ed.open /\ v \in listed[i]
  /\ ed' = [open |-> TRUE, item |-> i, seen |-> v, etag |-> v, via |-> "open"]
  /\ UNCHANGED <<kind, server, cache, cmd, fails, ghosts>>

\* A save that is under way goes on.
Close ==
  /\ ed.open /\ ed' = Closed
  /\ cmd' = [c \in Command |-> [cmd[c] EXCEPT !.own = FALSE]]
  /\ UNCHANGED <<kind, server, cache, fails, ghosts>>

Begin(c, op, i, etag, seen, via) ==
  /\ cmd[c].op = "none"
  /\ cmd' = [cmd EXCEPT ![c] = [Idle EXCEPT !.op = op, !.pc = "put", !.item = i,
                                            !.etag = etag, !.seen = seen, !.via = via,
                                            !.own = (op = "save")]]
  /\ UNCHANGED <<kind, server, cache, ed, fails, ghosts>>

\* A new item has a fresh uid.
Create(c, i) ==
  /\ srv[i].v = 0 /\ \A d \in Command : ~(cmd[d].op = "create" /\ cmd[d].item = i)
  /\ Begin(c, "create", i, 0, 0, "open")

\* Always the etag of the row: the mutant of SaveEtag.
SaveEtagOfRow == row[ed.item]

\* An event or a contact is sent with the etag its row has by now; a task or a
\* note with the one the editor kept, a task only while it has a row.
SaveEtag == IF kind \in {"event", "contact"} THEN row[ed.item] ELSE ed.etag

Save(c) ==
  /\ ed.open /\ (kind = "note" \/ row[ed.item] # 0)
  /\ Begin(c, "save", ed.item, SaveEtag, ed.seen, ed.via)

\* Completing a task or marking a note in the list, with the list's etag.  A note is
\* sent the one field; a task is sent whole, as its row has it.
Toggle(c, i, v) ==
  /\ v \in listed[i] /\ (kind = "note" \/ (kind = "task" /\ row[i] # 0))
  /\ Begin(c, "toggle", i, v, row[i], "open")

\* With the etag of the row, whatever the list or an editor shows.
Delete(c, i) ==
  /\ row[i] # 0 \/ (kind = "note" /\ listed[i] # {})
  /\ Begin(c, "delete", i, row[i], row[i], "open")

\* A DELETE of a note carries no etag.
Matches(c) ==
  LET s == srv[cmd[c].item] IN
  CASE cmd[c].op = "create" -> TRUE
    [] cmd[c].op = "delete" /\ kind = "note" -> s.live
    [] OTHER -> s.live /\ s.v = cmd[c].etag

\* The text a request brings was made from an older one than it replaces.
Older(c) == srv[cmd[c].item].last > cmd[c].seen
Unseen(c) == cmd[c].op = "save" /\ Older(c)

\* A toggle changes no text, but for a task whose row is behind.
KeepsText(c) == cmd[c].op = "toggle" /\ (kind = "note" \/ ~Older(c))

Accepted(c) ==
  LET i == cmd[c].item IN
  /\ Matches(c) /\ clock < MaxClock
  /\ clock' = clock + 1
  /\ srv' = [srv EXCEPT ![i] = [v |-> clock + 1, live |-> cmd[c].op # "delete",
                                 last |-> IF KeepsText(c) THEN @.last ELSE clock + 1]]
  /\ lost' = IF Unseen(c) THEN lost \cup {cmd[c].via} ELSE lost
  /\ raced' = IF Unrecorded(i) THEN raced \cup {i} ELSE raced
  /\ UNCHANGED <<kind, cache, ed>>

Put(c) ==
  /\ cmd[c].pc = "put" /\ Accepted(c)
  /\ cmd' = [cmd EXCEPT ![c] =
               [@ EXCEPT !.pc = "record",
                         !.etag = IF cmd[c].op = "delete" THEN 0 ELSE clock + 1]]
  /\ UNCHANGED fails

\* A DELETE of something already gone counts as done, except for a note.
AlreadyGone(c) ==
  /\ At(c, {"delete"}, "put") /\ kind # "note" /\ ~srv[cmd[c].item].live
  /\ cmd' = [cmd EXCEPT ![c] = [@ EXCEPT !.pc = "record", !.etag = 0]]
  /\ UNCHANGED <<kind, server, cache, ed, fails, ghosts>>

\* An event's write that meets another etag refreshes the calendar, once.
Retries(c) == kind = "event" /\ ~cmd[c].retried /\ cmd[c].op \in {"save", "delete"}

Refused(c) ==
  /\ cmd[c].pc = "put" /\ ~Matches(c)
  /\ IF Retries(c) THEN Pull(c) ELSE End(c)
  /\ UNCHANGED <<kind, server, cache, ed, fails, ghosts>>

\* The retry sends the same body with the etag the refresh brought.  A row that
\* is gone ends a save with an error and a delete with success.
Retry(c) ==
  /\ At(c, {"save", "delete"}, "apply") /\ Apply(c)
  /\ LET fresh == row'[cmd[c].item] IN
     IF fresh = 0 THEN End(c)
     ELSE cmd' = [cmd EXCEPT ![c] =
                    [@ EXCEPT !.pc = "put", !.retried = TRUE, !.etag = fresh,
                              !.base = 0, !.new = 0, !.got = Nothing, !.gone = {}]]

\* The row is written when the command goes on.  An open editor of the item, of a
\* task or a note, takes the answer's etag, whatever it shows by then; that of an
\* event or a contact closes.
EditorAfter(c) ==
  IF ~ed.open \/ ed.item # cmd[c].item \/ cmd[c].op = "create" THEN ed
  ELSE IF cmd[c].op = "delete" \/ kind \in {"event", "contact"} THEN Closed
  ELSE IF cmd[c].own THEN [ed EXCEPT !.etag = cmd[c].etag, !.seen = cmd[c].etag]
  ELSE [ed EXCEPT !.etag = cmd[c].etag, !.via = "handed"]

WriteRow(i, v) ==
  /\ row' = [row EXCEPT ![i] = v]
  /\ listed' = [listed EXCEPT ![i] = @ \cup ({v} \ {0})]

\* The command is not cleared: the mutant of Record.
RecordStays(c) ==
  /\ cmd[c].pc = "record"
  /\ WriteRow(cmd[c].item, cmd[c].etag)
  /\ ed' = EditorAfter(c)
  /\ Go(c, "idle")
  /\ UNCHANGED <<kind, server, token, fails, ghosts>>

Record(c) ==
  /\ cmd[c].pc = "record"
  /\ WriteRow(cmd[c].item, cmd[c].etag)
  /\ ed' = EditorAfter(c)
  /\ End(c)
  /\ UNCHANGED <<kind, server, token, fails, ghosts>>

-----------------------------------------------------------------------------
(***************************************************************************)
(* The rest.                                                               *)
(***************************************************************************)
\* Any request or transaction may fail: the command ends, the cache stays as it is.
Fail(c) ==
  /\ cmd[c].op # "none"
  /\ fails < MaxFails \/ (cmd[c].pc = "put" /\ clock = MaxClock)
  /\ fails' = IF fails < MaxFails THEN fails + 1 ELSE fails
  /\ End(c)
  /\ UNCHANGED <<kind, server, cache, ed, ghosts>>

\* A write is carried out but its answer does not arrive.
AnswerLost(c) ==
  /\ cmd[c].pc = "put" /\ fails < MaxFails /\ Accepted(c)
  /\ fails' = fails + 1
  /\ End(c)

\* Rows and bookmark survive a restart, commands, lists and editors do not.
Restart ==
  /\ fails < MaxFails /\ fails' = fails + 1
  /\ cmd' = [c \in Command |-> Idle] /\ ed' = Closed
  /\ listed' = [i \in Item |-> {row[i]} \ {0}]
  /\ UNCHANGED <<kind, server, row, token, ghosts>>

\* Another client creates, changes, restores or deletes an item.
Others(i, live) ==
  /\ clock < MaxClock /\ (live \/ srv[i].live)
  /\ clock' = clock + 1
  /\ srv' = [srv EXCEPT ![i] = [v |-> clock + 1, live |-> live, last |-> clock + 1]]
  /\ raced' = IF Unrecorded(i) THEN raced \cup {i} ELSE raced
  /\ UNCHANGED <<kind, cache, cmd, ed, fails, lost>>

-----------------------------------------------------------------------------
Answers(c) == Report(c) \/ Fetch(c) \/ List(c) \/ SyncEnds(c) \/ Retry(c) \/ Put(c)
              \/ AlreadyGone(c) \/ Refused(c) \/ Record(c)

Next ==
  \/ \E c \in Command : Sync(c) \/ Save(c) \/ Answers(c) \/ Fail(c) \/ AnswerLost(c)
  \/ \E c \in Command, i \in Item : Create(c, i) \/ Delete(c, i)
  \/ \E i \in Item, v \in Version : Open(i, v) \/ \E c \in Command : Toggle(c, i, v)
  \/ Close \/ Restart
  \/ \E i \in Item, live \in BOOLEAN : Others(i, live)

Spec == Init /\ [][Next]_vars

-----------------------------------------------------------------------------
(***************************************************************************)
(* Properties.                                                             *)
(***************************************************************************)

\* Every variable keeps its type; a command at rest carries nothing over, and one
\* that puts or records knows its item.
TypeOK ==
  /\ kind \in Kinds
  /\ clock \in Version /\ srv \in [Item -> ServerItem]
  /\ row \in [Item -> Version] /\ token \in Version
  /\ listed \in [Item -> SUBSET (Version \ {0})]
  /\ cmd \in [Command -> CommandState]
  /\ \A c \in Command : /\ cmd[c].pc = "idle" => cmd[c] = Idle
                        /\ cmd[c].pc \in {"put", "record"} => cmd[c].item # None
  /\ ed \in Editor
  /\ fails \in 0..MaxFails
  /\ raced \subseteq Item /\ lost \subseteq Via

\* A row that is not what the server has will be corrected: the change that made
\* the difference is newer than the bookmark, so the next sync hears of it.  The
\* bookmark of apply_event_delta, apply_contact_delta and apply_tasks_delta never gets
\* ahead of the rows, except for the items of the three races, and for the items whose
\* bodies cannot be parsed: a sync skips those and advances, which is left out here.
NoMissedChange ==
  \A i \in Item : row[i] # Live(i) =>
    kind = "note" \/ i \in raced \/ srv[i].v > token

\* Saving a task or a note does not replace a text that its user never saw, another
\* client's or the user's own, unless an answer to something else has handed the
\* editor a newer etag.  Saving an event or a contact may, and so may any delete and
\* completing a task: they send the etag, or the text, of the row of the moment.
NoBlindWrite == kind \in {"task", "note"} => "open" \notin lost

\* What update_calendar_event promises: a concurrent edit on another device surfaces
\* as an error instead of being overwritten silently.
SavesAreGated == kind = "event" => "open" \notin lost
=============================================================================
