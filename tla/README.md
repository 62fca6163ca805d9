# Unkai Mail in TLA+

Unkai Mail is a desktop mail client: Rust crates (`src/crates/`), a Tauri shell
(`src/src-tauri/`) and a Svelte window (`src/ui/`). This directory holds TLA+
models of the parts where several actors share state and a crash, a lost reply or
an unlucky order of steps can lose, repeat or hide something the user cares about,
with the TLC runs that check small instances and TLAPS proofs for every instance.

Paths below are relative to `src/`; `commands` stands for
`crates/unkai-commands/src`, `store` for `crates/unkai-store/src`.

## 1. The system

One process serves one or more *profiles*. Each has an encrypted SQLite cache
(`store/cache`), a keychain entry and a set of tokio tasks; windows call commands
of `commands`, which run concurrently with the tasks. SQLite serialises single
statements (and explicit transactions); nothing else locks across an `await`.

| Part | State it keeps | Operations | Correct means | Here |
|---|---|---|---|---|
| Outbox (`commands/compose.rs`, `background.rs`, `store/cache/mod.rs`) | table `outbox_messages`, claims in `last_attempt_at` | `send_email`, drain tasks, `drain_outbox_sweep`, retry (with passphrase), edit, replace, delete | each mail is submitted whole, and once unless its outcome is unknown, nothing is lost, every sendable row leaves in the end | `Outbox`, `SubmissionQueue` |
| Mail folder sync (`commands/mail.rs`, `store/cache/mod.rs`, `unkai-imap`) | `messages`, `folder_sync_state`, `folders.unread_count`, tombstones | `poll_folder`, read, mark all, delete, archive, open, list folders, clear | no gap in the mail, new mail announced once, deleted mail stays away, the cache converges to the server | `FolderSync` |
| Settings backup (`background.rs`, `settings.rs`, `store/settings_sync.rs`) | `settings_sync.json`, the window's snapshot, a `Notify` | settings changes, choice of account, `settings_sync_worker` | no change is forgotten, no backup falls back, the user decides where | `SettingsSync` |
| Drafts (`compose.rs`, `ui/src/lib/Compose.svelte`, `ui/src/App.svelte`) | drafts on the server, tombstones, each window's pointer | save with replacement, minimise, pop out, reopen, send, expunge after send | the last saved text is never lost, one copy of it, none after sending | `Drafts` |
| Moves (`mail.rs`, `unkai-imap/client.rs`) | folders on the server, rows, tombstones | delete, archive, move (single, batch), clear; COPY, STORE, EXPUNGE | no message lost, copies only where a move failed | `Moves` |
| Calendar reminders (`background.rs`, `calendar.rs`) | `fired`, `dismissed`, `snoozes` in memory, cached events | a pass every tick, snooze, dismiss, mute | each alarm is shown in time and once, answers are heeded | `Reminders` |
| Message reminders (`background.rs`, `mail.rs`) | column `reminder_at` | a scan every 30 s, set, clear | shown at least once, never lost | `Reminders` |
| Calendar, contact, task and note sync (`unkai-caldav`, `unkai-carddav`, `calendar.rs`, `contacts.rs`, `tasks.rs`, `notes.rs`, the editors) | sync tokens, rows, etags, what an open editor shows | pull a delta, apply it, create, save, toggle, delete | the bookmark never gets ahead of the rows, no text is overwritten unseen | `DavSync` |
| Vault (`settings.rs`, `store/fido.rs`, `store/cache/key.rs`) | keychain envelope: plain key, wraps, failure count | unlock, enrol, FIDO-only mode, wipe | never locked out by an accepted command, the budget is kept | not modelled |
| Profiles (`src-tauri/src/registry.rs`, `commands/profiles.rs`, `store/profiles.rs`) | `profiles.json`, contexts, window map | open, close, delete, migrate the flat layout | one context per profile, migration resumes | not modelled |
| Migrations (`store/cache/schema.rs`) | `schema_version` | `run_migrations` | each migration once, in order | not modelled |
| URLhaus list (`background.rs`, `store/link_check.rs`) | one table in the shared database | refresh hourly | old or new list, never part | not modelled |
| Accounts, JMAP/SMTP/Nextcloud clients, crypto, discovery, MCP tools, updater, shell, window | — | — | — | not modelled: stateless requests, pure computation, I/O or presentation; what the modelled parts need of them is in their environment actions |

How the parts meet: the background loop of a profile runs the INBOX poll, the
reminders and the outbox sweep in turn; commands run beside it. Outbox and folder
sync share only the account list and the Sent folder (a best-effort copy), so they
are separate modules; `RemoveAccount` is the one step of another part that
`Outbox` needs. Folder sync, moves and drafts meet in the rows and tombstones of one
folder: `FolderSync` has the poll step by step beside a delete; `Moves` and `Drafts`
have the commands step by step beside a poll that is one step. Sending a draft ends
with the row `Outbox` starts from. Reminders read the events `DavSync` stores.
Settings backup reads what the others store and changes none of it.

### What is hard here

- *Interleaving*: commands, spawned tasks and loops touch the same rows; state is
  read before a network round-trip and used after it.
- *Failure*: a round-trip may fail before or after the server acted; most cache
  writes are logged on failure and the code goes on.
- *Crashes*: claims and tombstones outlive the process, permits and snapshots do
  not.
- *Time*: a claim lapses after 30 s whether or not its holder is done; an alarm is
  shown by the pass that runs within 90 s after its moment, or not at all.
- *Other clients*: mail folders and collections change under the program; uids, etags
  and sync tokens are all it has to notice.

`PROJECT.json` lists every hazard with its line and the properties about it.

## 2. Modules and the code

### Outbox

| In the model | In the code |
|---|---|
| `fate[id] = "queued"` | the row is in `outbox_messages`; other values are history |
| `age[id]` | time since `last_attempt_at`, in ticks, saturating above the TTL |
| `window[id]` | the Compose window editing the row (`App.svelte`) |
| `drain[t]` | the position of one `try_drain_outbox_entry_with_passphrase` |
| `sweep` | the rest of the snapshot `drain_outbox_sweep` iterates over |
| `delivered` | what the server accepted, per SMTP envelope (history) |
| `doubt` | rows of which the server may have more than the table tells (history) |

`SendNew`, `ReplaceRemove`/`ReplaceInsert` (the two statements of an edit), `Retry`,
`RetryWithPassphrase`, `EditEntry`, `DeleteEntry`, `RemoveAccount` are the commands;
`Claim`, `Load`, `Refuse`, `Accept`, `Reject`, `LoseReply`, `Finish` the drain, cut
where the code awaits; `SweepStart`, `SweepNext` the sweep; `Tick` the clock; `Crash`
a crash with a restart. A mail is its account, its kind (which decides whether a key
must be unlocked and how many envelopes it has) and the row it descends from.
Time comes in ticks: an attempt runs for up to `MaxSend` of them and its claim lasts
`TTL`. The runs have `MaxSend` above `TTL`, as one SMTP command may take 60 s and the
claim of 30 s is never renewed.

A failing statement on the table (`db_error`) counts with the crashes, so that runs
and liveness see a bounded number of both.

`SubmissionQueue` is what the outbox promises whatever happens: put, submit each
envelope once, complete when all are submitted, or withdraw. It may lose track of a mail
and submit envelopes of that one again. The refinement maps every way a row
leaves unsent to "withdrawn" and `doubt` to itself: a lost reply, an attempt that failed or
died with a part submitted, a removal that failed, or two attempts that overlap by force
or past the TTL put a row there.

### FolderSync

| In the model | In the code |
|---|---|
| `validity`, `uidnext`, `live`, `seen` | the folder on the server (external) |
| `cached`, `read`, `hidden` | rows of `messages`, `is_read`, `pending_action` |
| `mark` | `folder_sync_state` |
| `badge` | `folders.unread_count` |
| `poll[p]` | one run of `poll_folder`, cut at its round-trips and cache writes |
| `op[u]` | one command of the user between its cache and its network half |
| `notified` | new-mail events (history) |

`PollStart` ... `FlagPass` follow `poll_folder` line by line: read the bookmark,
fetch above it, wipe and refetch when UIDVALIDITY changed, list UIDs, fetch flags
of the newest rows, reconcile, upsert, advance the bookmark, apply the flags and
notify. `Fetched` keeps the quirk of IMAP that `hi+1:*` always names the newest
message. `Logged` is a cache write whose failure the code logs and ignores.
The unread count is clipped at `MaxUid + 1`. `harm` records the worst that befell
the folder: `upset`, it was cleared, renumbered or not stored, after which the rows need
not converge; `torn`, a full fetch was stored and died, or failed, before its bookmark
(section 5).

### SettingsSync

| In the model | In the code |
|---|---|
| `settings` | what the backend stores, as a version number |
| `local`, `unsent`, `told` | the window's localStorage, not yet sent, last sent (`SharedLocalStorage`) |
| `permit` | the permit of the `Notify` |
| `file` | `settings_sync.json` |
| `worker` | the position of `settings_sync_worker` and the state it read |
| `backup` | the bundle stored in each account |

`Wake`/`Debounce`, `RetryTick`, `Load`, `Push`, `Save` are the worker between its
awaits; `Restart` closes a profile at any point and opens it again, with the kick of
`build_profile_handle`. Reading and writing `settings_sync.json` may fail (`Fault`): the
worker then goes on waiting, with the permit it took spent, and nobody looks at the
result of `save_state`. `dropped` (history) says that a change was forgotten this way.

### Reminders

| In the model | In the code |
|---|---|
| `now`, `last` | the clock in units, the moment of the last pass |
| `fired`, `dismissed`, `snoozes` | the three maps of `EventReminderState` (`state.rs`) |
| `gate`, `muted` | `meeting_reminders_enabled`, `calendar_reminders_enabled`; muted or hidden calendars |
| `pass` | one `check_event_reminders_inner`: settings and occurrences it read, its snapshots, what it will evict |
| `cmd` | `dismiss_event_reminder` or `snooze_event_reminder` between two of their locks |
| `reminder`, `tombstoned`, `scan` | `messages.reminder_at`, `pending_action`, one `check_message_reminders_inner` |

The pass is cut where it takes and releases a lock (`Prune`, `SnapshotDismissed`,
`SnapshotSnoozes`, one `Walk` per occurrence, `Evict`), so that an answer of the user can
fall between any two. Which occurrences exist is data (`Starts`): the expansion of
recurrence rules is not modelled. The clock stops during a pass, which is short against
the tolerance. `Snooze` puts an alarm off to no later than an occurrence that a pass
lists by then: a snooze past the event has nothing left to announce. `owed`, `promised`,
`answered`, `excused` record what the user is due.

### Moves

| In the model | In the code |
|---|---|
| `box`, `flagged`, `uidnext` | the folders on the server (external) |
| `rows`, `hidden` | `messages`, `pending_action` |
| `op[u]` | one command: `connect` before the server is asked, then the IMAP command it sends next, then `failed` or `clean` for what it tells the cache |

`DeleteMessage`, `ArchiveMessage(s)`, `MoveMessage(s)` and `ClearFolder` start a command
with the destination the code picks; `Copy`, `Store`, `Expunge` and `Probe` are the
session in `unkai-imap/client.rs`, each of which may be answered, carried out and not
answered, or fail (`Break`). `Restore` and `Clean` are the two ways a command ends.

### Drafts

| In the model | In the code |
|---|---|
| `box`, `uidnext`; `rows`, `hidden` | the Drafts folder on the server; its cached rows |
| `win[w]` | a Compose component: `src` is `currentDraftSource`, `promise` is `persistPromise` |
| `save[s]` | one `persistDraftToImap` and the `save_draft` behind it |
| `mail` | `send` and `runSendPipeline`, with their snapshot |

A text is the number of the edit that made it. Javascript runs to its next `await`:
when a promise settles, those who waited go on (`Resume`, `ResumeSend`) before anything
else (`Settled`). The mail is open in one window at a time, as `openCompose` arranges
for a pointer it knows. A save may fail for want of a password (`PasswordFails`), at the
server, or in the cache, whose failing writes are logged only (hazard `cache`); `abandoned`
(history) has the drafts that a failed call left hidden, until the next start shows them
again. The hazard `overlap` adds acts on a window whose save another
call already waits for, and acts on a mail whose old window still saves. There
`DraftsPruned` and `SentLeavesNoDraft` fail (section 5), so the run leaves it out;
`DraftSafe` and `DraftShown` hold there too, by their theorems.

### DavSync

| In the model | In the code |
|---|---|
| `srv`, `clock` | the server's items; a change's number is version, etag and sync token at once (external) |
| `row`, `token` | the etag of the cached row, the stored `sync_token` |
| `listed[i]` | the rows of the item a window's list may show, read at any time since the start |
| `cmd[c]` | a sync (`report`, `fetch`, `apply`) or a write (`put`, `record`), or the sync a write runs on its way |
| `ed` | the open form: what its user saw and the etag it will send |
| `raced`, `lost` | items that met one of three named races; how the saves that replaced unseen texts got their etag |

The four kinds differ where the code does: notes come whole and without a token, a
contact sync ignores the token of an empty book, an event's write retries once after
a refresh with the etag that brought, tasks and notes send the etag the editor holds,
a note is deleted without one. A window shows an item as its list had it, which may be
older than the row. A toggle sends the list's etag, with the row's text if it is a task's;
a delete sends the row's etag, whatever the window shows.

### Companions

`MCOutbox`, `MCFolderSync`, `MCSettingsSync`, `MCReminders`, `MCMoves`, `MCDrafts` and
`MCDavSync` instantiate the models for TLC. `OutboxProofs`, `FolderSyncProofs`,
`SettingsSyncProofs`, `RemindersProofs`, `MovesProofs`, `DraftsProofs` and
`DavSyncProofs` hold the theorems (section 4). Definitions whose comment
calls them a mutant are bugs of the kind this code could have; each is paired in
`PROJECT.json` with the property that notices it.

## 3. Runs

| Run | Question | Instance |
|---|---|---|
| `outbox_claim` | do claims keep drains apart, is a mail submitted once, does the outbox implement `SubmissionQueue`? | 1 row of 2 envelopes, 2 workers and the sweep, attempts of up to 2 TTLs, forced retries, lost replies, rejections, a crash or failing statement, account removal |
| `outbox_hostile` | what survives attempts that outlive the claim, forced retries, lost replies? | 2 rows, 1 worker and the sweep |
| `outbox_live` | does every sendable row leave, and was it accepted whole? | 1 row of 2 envelopes, failing and half-answered attempts of up to 2 TTLs, 2 crashes or failing statements, an upgrade that garbles rows |
| `folder_solo` | no gap, no double announcement, no lost tombstone, no live row dropped, with one poll at a time | 3 UIDs, 3 operations, failing round-trips, crashes |
| `folder_live` | does the cache converge, does the bookmark keep its ground? | 2 UIDs, 2 UIDVALIDITYs, 2 operations, crashes, failing writes, clearing |
| `settings_sync` | is every change backed up, do backups fall back? | 2 accounts, 3 changes, 1 restart, 2 failing reads or writes of the file |
| `reminders` | is every alarm shown in time and once, are answers heeded, is a message's reminder kept? | a meeting with two alarms, a series of two, a message, 2 acts of the user or failures, 10 units of time |
| `moves` | is a message lost, is one left twice? | a folder and the trash, 2 letters, 2 commands at once of 3, 1 fault, 2 UIDs per folder |
| `drafts` | is the saved text safe, is there one copy, is it gone and visible when it should be? | 3 windows, 2 saves at once, 3 texts, 3 UIDs, 1 fault (server, password or cache) or crash |
| `dav` | does the bookmark get ahead of the rows, does a save of a task or note replace a text unseen? | each kind of collection, 1 item, 2 commands, 3 changes, 1 fault |
| `folder_overlap` (violation) | do two polls of one folder leave a gap when both are done? | 3 UIDs |
| `dav_overwrite` (violation) | an event changed elsewhere while it is edited here | 1 item, 2 commands, 3 changes |

*Bounds.* Two rows are what an edit needs (the source and its replacement), so
`outbox_hostile` has two. Rows interact only through an edit, and drains through a row, so
`outbox_claim`, which is about drains, has one, and a third row adds combinations and no
new kind of step. Two workers and the sweep give three drains on one row, one more than
any counterexample needs. Three UIDs are an old, a current and a newer message;
`Limit = 1` in `folder_solo`, and 2 in `folder_overlap`, makes a full fetch and the flag
window leave some out. In `folder_live` a full fetch holds the folder, so
`ConvergesUnlessEmpty` is about folders that fit one. Two values of
UIDVALIDITY are one reset. Three settings changes are one before, one during and one
after a push. In `reminders` the tolerance (3) is above the gap between passes (2), as
90 s is above a 60 s tick, the window is shorter than the series' step, and ten units
let its second occurrence come due. In `moves` two letters are what a plain EXPUNGE
needs to destroy the wrong one, and three commands let a message go to the trash and
from there. In `drafts` three windows are the first one, a popped-out or reopened one
and one reopened after that or after a failed sending, and three UIDs a draft and two
replacements. In `dav` items interact only through the bookmark, which any item's
change moves, so one item that others change suffices; three changes are a creation
and two edits. Counters (`MaxOps`, `MaxCrashes`,
`MaxChanges`, `MaxActs`, `MaxRows`, `MaxFails`, `MaxFaults`) bound the environment, never the program's
own steps. Symmetry is used where no liveness is checked and nothing tells the members
apart: workers of `outbox_claim`, letters and commands of `moves`, windows and
saves of `drafts`, commands of `dav`.

*Deadlock* is checked in Outbox and FolderSync. In the other modules the bounded inputs
run out and the program rests, as it should: the settings worker waits for a
notification that never comes, the clock, the uids or the changes are used up.

*Fairness.* Outbox: tokio polls every spawned task and the loop, time passes (weak
fairness); a server offered the same envelope again and again accepts it in the end
(strong fairness, on `Accept` of one envelope by one drain). The user and crashes
have none. FolderSync: the loop polls forever and commands end (weak); no fairness
about the server is needed because the run lets no round-trip fail. SettingsSync: the worker runs (weak), its
unbiased `select!` does not starve an arm that stays ready or becomes ready again
and again (strong), and an upload tried again and again succeeds in the end (strong).
Reminders: time passes, a pass, a scan and a started command go on (weak); failures are
bounded, the user has no fairness. Moves, Drafts and DavSync claim nothing that must
happen in the end: nothing retries their commands.

## 4. Proofs

The theorems hold for every value of the constants that satisfies the module's
assumption (any number of rows, drains, polls, messages, users, windows, commands), and
under the conditions named here. Each condition is an `ASSUME` of its theorem and is met by
the instance of the run that checks the property. It is there because the property fails
without it: TLC finds a counterexample on a small instance that lifts it. Every
invariant and every action property of the passing runs is stated by a theorem.

**Outbox** (`OutboxProofs`). Without any condition: `TypeCorrect`; `GoneIsForGood`;
`SentWhole`, because an attempt that went past an envelope had it accepted (`Carried`) and
what is accepted stays so; and three about claims, for attempts of any length.
`ClaimIsExclusive`: its invariant relates the two clocks, a drain at work on a queued row
being at least as old as that row's claim (`Held`), so another that finds the claim lapsed
finds its holder older than the TTL, unless it came by force. `SubmittedAtMostOnce`: what
was delivered of a queued row that is not in doubt was delivered by the one drain that
holds it, and nothing when no drain does (`Once`). `OutboxIsQueue`, the refinement: from
the same invariant each outbox action is shown to be one step of `SubmissionQueue` or a
stutter. `EditKeepsMail` needs that the process does not die between the
DELETE and the INSERT of an edit, `OneVersion` that the DELETE does not fail; the latter's
invariant says that of all versions of a mail at most one is in the table or in a window.

**FolderSync** (`FolderSyncProofs`). `TypeCorrect` needs nothing; `TombstonesAreOwned`
that cache writes do not fail. The others are for one poll of the folder at a time
(`Alone`), and `folder_overlap` shows why.
- `BookmarkNeverFallsBack`, any hazard: during a poll the bookmark is the one the poll
  began with or has been cleared (`MarkHeld`).
- `OnlyGhostsDropped`, no renumbering: a list older than the rows is harmless because UIDs
  are handed out upwards, no row appears while a poll is between its list and its
  reconciliation, and what an operation is about to drop is gone (`Base`).
- `DeletedStaysHidden`, no renumbering, no failing write, no clearing: while a delete is
  under way the server has the message only behind its tombstone, and one operation owns
  the delete. `AnnouncedOnce`, no renumbering and no failing write: what was announced
  lies at or below every bookmark, written or about to be. (Renumbering breaks it only
  in a folder that is also cleared.)
- `NoMailOutOfReach`, any hazard: `NoGap` excuses only `upset` and `torn`, and
  the invariant holds as long as neither has happened. A batch is everything between
  the old bookmark and its newest message, or the newest messages if there is no
  bookmark (`BatchWhole`); without a bookmark there are no rows but of a first batch
  (`FirstFetch`); so the bookmark written after a batch covers no gap (`Stored`).

**SettingsSync** (`SettingsSyncProofs`), no condition: `TypeCorrect`,
`NothingIsForgotten`, `BackupsKeepSettings`. `NothingForgotten` is about a worker at rest
that has not `dropped` a change, and not inductive; `Fresh` says what holds at every other position while no permit
waits: the worker's copy of the file is the file, its bundle is the current one. Every
change the user makes leaves a permit, which is why losing these facts then is harmless.
`BackupsKeepSettings` needs that a bundle in the worker's hands is at least as new as
every backup.

**Reminders** (`RemindersProofs`). `TypeCorrect`, `AnswersHeeded` and `AlarmsOnce` need
nothing: a pass's snapshots contain what was answered before it began, although it takes
them under separate locks, and an alarm heard is remembered in `fired` until its
occurrence begins, because a pass lists whatever is near before it forgets the rest.
`RemindersKept` needs that a message's reminder is not set again while it is scanned,
`SnoozesHeard` that an event is not snoozed again during a pass and that passes are no
further apart than the tolerance. `AlarmsHeard` needs `Hearable`: passes less than the
tolerance apart, leads no longer than window and tolerance, and occurrences of an event so far apart that
a pass between them forgets the first (`Sparse`); `RareStarts` is so, `DailyStarts` is
not, and there the property fails (section 5). Its invariant: an alarm not shown either
lies ahead of the last pass or the pass under way is going to show it (`Ahead`), and an
entry of `fired` stands for an alarm no pass could have forgotten yet (`FiredFresh`).

**Moves** (`MovesProofs`), for any number of commands at once and every fault:
`TypeCorrect`, `NoLetterLost`, `UidsNameOneMessage`, `NoStrayCopies`. A letter nobody
asked to destroy must be *secure*: it has a copy that is neither flagged nor about to be
flagged by a command. A move may flag the source only after its COPY put a fresh, higher
uid into another folder, so the copy is secure when the source stops being. That needs
`UidsUnique` and `RowsTrue`: what the user saw under a uid is what a command meets there.
`NoStrayCopies` counts: the copies of a letter and the moves that will still copy it are
at most one, plus those failures left, plus the copies some move is at work on
(`Counted`).

**Drafts** (`DraftsProofs`). `TypeCorrect`, `SavedTextKept` and `NoDraftStaysHidden` hold
under every hazard, `overlap` included: the pointer of a window or call names a copy no
later than the text it will store, and a source is deleted only beside a newer copy
(`IInv`). `DraftShown` names the calls that leave a draft hidden when they fail.
`OneDraftKept` and `SentMailLeavesNoDraft` are for a user who leaves a window
alone while a save waits for it (`Careful`). Then one window has the mail, one save runs,
with that window's pointer, and one call at most waits for it (`Line`); and the copies
that pointer and save do not stand for were all left by calls that failed (`Accounted`).

**DavSync** (`DavSyncProofs`), no condition: `TypeCorrect`, `NoBlindWrites`,
`NoChangeMissed`. A row is right or the item changed after the bookmark, and after
the one each sync under way asked with (`BookmarkBehind`); an answer in hand is right
about whatever has not changed since (`AnswerTrue`); a write records what the server has
(`RecordTrue`). The items of three races are excused by name (`raced`, section 5).
`NoBlindWrite` is about saves of tasks and notes: the etag of a form and of the save it
started is that of the text the user saw (`EditorSees`, `CommandSees`), unless an answer to
something else handed it over.

*Only model-checked*: liveness under fairness (`QueueDrains`, `ConvergesUnlessEmpty`,
`PendingIsFlushed`, `BackedUpInTheEnd`, `ReminderShown`), which the prover cannot do.
Each is checked on the instance of its run.

## 5. Where the code does less than its comments say

Two runs end in a violation:

1. *folder_overlap*: `poll_folder` takes no lock. With two polls at once, the slower
   one's UID list removes a row the faster one stored. The gap lasts when the faster one
   then writes its bookmark after the slower one did (in the other order the bookmark
   falls back and the mail is fetched again): with both done and newer mail arrived, no
   poll asks for the removed mail, which lies between rows, where scrolling does not look.
2. *dav_overwrite*: saving an event sends the etag its row has at that moment, and a
   412 is answered by a refresh and a second PUT with the refreshed etag. A change made
   elsewhere while the form is open is replaced without a word, against
   `calendar.rs:957-960`.

Met while modelling, and visible in the models' guards, hazards and history variables,
but without a run of their own:

*Outbox.* The claim is a 30 s lease nobody renews, while one SMTP command may take 60 s
(`compose.rs:260`; `cache/mod.rs:2495-2497` says otherwise): two drains then submit one
mail, which is what `ClaimExclusive` and `doubt` excuse by name. A forced retry takes the claim of a running drain (`compose.rs:646`); an edit
whose DELETE fails leaves both versions (`compose.rs:143`), and one interrupted after
it leaves none (`App.svelte:2185`); deleting a row does not stop a drain that already
read it (`compose.rs:667`); a failing query for the accounts drops a row of an account
that exists (`compose.rs:312`).

*Folder sync.* After a UIDVALIDITY reset the new bookmark is the maximum of the new UIDs
and the old bookmark (`mail.rs:773`, against 561-562), so new mail below it is skipped.
An upsert that fails is skipped by the bookmark (`mail.rs:723`), and so is mail cached
by a poll whose rows a concurrent `clear_folder` drops. Overlapping polls rewind the
bookmark and announce mail twice (`mail.rs:477`) and resurrect a row being deleted
(`mail.rs:723`). `hi+1:*` updates the newest row's flags without the unread count
(`client.rs:1214`); a folder that became empty keeps its rows (`mail.rs:697`), which is
why `ConvergesUnlessEmpty` says "unless empty"; a first fetch that dies, or fails, after
its rows are stored and before its bookmark is (`mail.rs:723-783`) is made again from
scratch, with the newest messages of that moment: mail that came in between and is not
among them stays between the old rows and the new ones, out of reach of both polls and
scrolling (`torn`, without which `NoGap` is false); a failed mark-all-read beyond the flag
window is never taken back (`mail.rs:609`); the first mail after a cleared folder or a
fresh account is neither announced nor counted (`mail.rs:748`).

*Moves.* A plain EXPUNGE also destroys what other clients flagged (`Hazard("plain")`, and
every move). A permanent delete that fails after its STORE leaves the message flagged,
and COPY carries the flag along. `delete_message` does not compare UIDVALIDITY
(`client.rs:2262`). A message acted on from two windows ends as two copies.

*Drafts.* With `overlap`, minimising a mail whose first save is in flight, restoring it
and popping it out hands the new window an empty pointer (`Compose.svelte:2602-2612`):
after sending, a draft stays. A save that fails after its APPEND leaves a copy nobody
replaces (`compose.rs:983`). After a failed sending the draft keeps its tombstone
(`compose.rs:1040-1046`): cancelling the reopened window leaves it hidden until the
next start. So does a save that finds no password: it has hidden the draft by then
(`compose.rs:899-905`), and the returns after the connection take that back, this one does
not. So does one whose write of the cache fails when it takes it back.

*Reminders.* A series that always has an occurrence within the seven days ahead never
loses its `fired` entry, so its later occurrences are not announced, against the
comment at `background.rs:185-188`; with `Starts <- DailyStarts` TLC shows it as a
violation of `AlarmHeard`. An alarm at the start, or leading by no more than the
tolerance, may be shown again once its event has begun (against `state.rs:81-84`); a snooze that ends is shown
for every occurrence in the window (`calendar.rs:2342`); a loop interval above 90 s
loses alarms; a dismissal holds until the next start, for every later occurrence
(`state.rs:85`). With `Hazard("meanwhile")` a snooze set again during a pass is evicted
by it (`background.rs:346`), and a message's reminder set again while its row is
scanned is cleared unseen (`background.rs:415-416`).

*Calendar, contacts, tasks, notes.* A contact is overwritten like an event when a sync
moves the etag of its row while the form is open (`contacts.rs:1029`). The editor of a
task or note takes the etag of an answer to a toggle in the list, or to a save made
before it was closed and opened again, and then overwrites silently (`NotesView.svelte:863`).
Notes are deleted without an etag, and tasks, contacts and events with the one their row
has at that moment (`tasks.rs:288`, `contacts.rs:1197`), although an open editor or list
shows what an earlier sync brought: a text the user never saw is deleted. Completing a
task in the list sends the list's etag with a body made from the cached row
(`tasks.rs:217-262`): where the row has fallen behind, an older text replaces the newer one.
Three races leave a row behind the server for good,
although the comment at `cache/calendars.rs:475-478` says the bookmark never drifts
away from the data: a late record over a newer sync, a deletion a pull without
a token does not name, and a sync that lands after another started from a newer token.

*Settings backup.* The worker writes back the account it read before the push
(`background.rs:699` against `settings.rs:766`): a choice made during the push,
switching off included, is undone. A worker that cannot read `settings_sync.json` goes on
waiting with the notification used up (`background.rs:668-674`), and one that cannot write
that its push failed does not notice (`background.rs:711-717`): the change stays out of the
backup until the next one, which `NothingForgotten` excuses as `dropped`. The push of the next launch uploads an empty
localStorage part (`registry.rs:433`), which is why `BackupKeepsSettings` speaks of the
stored settings only.

## 6. Not modelled, and why

Message contents, formatting, cryptography and wire formats are data the properties
do not tell apart. Of the outbox: the Sent copy and the `outbox-updated` event, which
change none of the state modelled. Of folder sync: the JMAP branch (a stateless client whose server
keeps the state), placeholder rows of moves, `fetch_older_envelopes`, flags other than
`\Seen`, read receipts, background decryption. Of the settings backup:
writes that leave half a `settings_sync.json`, a concurrent read-modify-write of it by command and worker within
one statement, and restoring a bundle. Of moves: the JMAP branch, placeholder rows,
bulk flags, UIDVALIDITY resets. Of drafts: the JMAP branch, a change of the sending
account, attachments and shares. Of the collections: discovery and pruning of
collections, write probes, expired tokens, bodies that do not parse (skipped while
the token advances), responses without an etag, contact groups and categories,
invitations and answers to them, local calendars. Of reminders: the expansion of
recurrence rules.

Vault, profiles, migrations and the URLhaus list are sequences run by one actor, at start
or under one window, whose steps are file-system, keychain or single-transaction calls.
The rest of the repository, most of its lines, is protocol clients, parsers,
cryptography, discovery and presentation: computation over data or I/O, without state
that several steps share. What the models need of it is in their
environment actions, and so the models stand for a small part of the
lines and for most of the concurrent state.

## 7. Plan

1. `Outbox`, `SubmissionQueue`, `OutboxProofs`; `FolderSync`; `SettingsSync`,
   `SettingsSyncProofs`; `Reminders`; `Moves`, `MovesProofs`; `Drafts`; `DavSync`: done.
2. `FolderSyncProofs`, `RemindersProofs`, `DraftsProofs`, `DavSyncProofs`, and the
   refinement of `SubmissionQueue` in `OutboxProofs`: done.
3. A `SubmissionQueue` that may lose track of a mail, which the outbox implements under
   every hazard: done.
4. `Vault` (envelope updates of concurrent commands, lock-out), `Profiles` (contexts,
   window map, crash-resumed migration of the layout).

New modules are parameterised by constants with a named assumption, have one action per
operation and no recursive operator, so that theorems can be added beside them.
