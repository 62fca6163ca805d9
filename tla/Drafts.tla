------------------------------- MODULE Drafts -------------------------------
(***************************************************************************)
(* One mail from its first draft to its sending.                           *)
(*                                                                         *)
(*   the windows    Compose components, each with a pointer to the copy in *)
(*                  Drafts that its next save replaces                     *)
(*   the saves      persistDraftToImap and the save_draft behind it, one at *)
(*                  a time as long as a window's promise is waited for     *)
(*   the sending    send and runSendPipeline, which expunge the pointer's  *)
(*                  copy                                                   *)
(*   the rest       the Drafts folder, its cached rows, polls, other       *)
(*                  clients, a crash                                       *)
(*                                                                         *)
(* A text is the number of the edit that made it.                          *)
(***************************************************************************)
EXTENDS Integers, FiniteSets

CONSTANTS
  Window,    \* bound: the Compose windows one mail passes through
  Saver,     \* bound: the saves in flight
  None,
  MaxText,   \* bound: edits
  MaxUid,    \* bound: uids the Drafts folder hands out
  MaxFails,  \* bound: failures, crashes and acts of other clients
  Hazards    \* what may happen, see HazardKind

\* fail: a command fails or its answer is lost; cache: a write to the cache fails,
\* which is only logged; crash: the program ends; others: another client deletes a
\* draft; overlap: the user acts on a window that a save waits for, or whose save
\* another call already waits for.
HazardKind == {"fail", "cache", "crash", "others", "overlap"}

Uid == 1..MaxUid
Text == 1..MaxText
MaybeUid == Uid \cup {None}
MaybeSaver == Saver \cup {None}

ASSUME DraftsAssumption ==
  /\ MaxText \in Nat /\ MaxUid \in Nat /\ MaxFails \in Nat /\ IsFiniteSet(Saver)
  /\ None \notin Nat \cup Saver \cup Window
  /\ Hazards \subseteq HazardKind

VARIABLES
  box,       \* the server's drafts: <<uid, text>>
  uidnext,
  rows,      \* the cached envelopes, by uid
  hidden,    \* those with a pending_action
  win,       \* [Window -> the component]
  save,      \* [Saver -> a call of persistDraftToImap]
  mail,      \* the call of send
  texts,     \* the edits so far
  fails,     \* the failures so far
  \* For the properties only:
  acked,     \* the last text a save that returned has stored
  sent,      \* send_email has accepted the mail
  taken,     \* copies another client deleted
  stray,     \* copies that a failed call may leave behind
  abandoned  \* uids that a call hid and left hidden when it failed

server == <<box, uidnext>>
cache == <<rows, hidden>>
counts == <<texts, fails>>
history == <<acked, sent, taken, stray, abandoned>>
vars == <<server, cache, win, save, mail, counts, history>>

\* alone: inStandaloneWindow; src: currentDraftSource; promise: persistPromise.
Component == [st: {"unused", "open", "min", "closed"}, alone: BOOLEAN,
              text: Text \cup {0}, src: MaybeUid, sending: BOOLEAN, promise: MaybeSaver]
Unused == [st |-> "unused", alone |-> FALSE, text |-> 0, src |-> None, sending |-> FALSE,
           promise |-> None]

\* wait: for the promise on; woken: it is resolved, the call goes on before
\* anything else happens in the page; the rest are the steps of save_draft.
SavePC == {"idle", "wait", "woken", "mark", "append", "delete", "search", "ok", "failed"}
SaveCall == [pc: SavePC, win: Window \cup {None}, kind: {"draft", "mini"}, on: MaybeSaver,
             text: Text \cup {0}, src: MaybeUid, new: MaybeUid]
NoSave == [pc |-> "idle", win |-> None, kind |-> "mini", on |-> None, text |-> 0,
           src |-> None, new |-> None]

MailPC == {"idle", "wait", "woken", "tomb", "smtp", "mark", "expunge"}
SendCall == [pc: MailPC, win: Window \cup {None}, on: MaybeSaver, text: Text \cup {0},
             src: MaybeUid]
NoSend == [pc |-> "idle", win |-> None, on |-> None, text |-> 0, src |-> None]

\* A uid names one draft, a tombstone has its row, and no two calls work as one
\* window's promise.
TypeOK ==
  /\ box \subseteq Uid \X Text /\ uidnext \in 1..MaxUid + 1
  /\ rows \subseteq Uid /\ hidden \subseteq rows
  /\ win \in [Window -> Component]
  /\ save \in [Saver -> SaveCall] /\ mail \in SendCall
  /\ texts \in 0..MaxText /\ fails \in 0..MaxFails
  /\ acked \in 0..MaxText /\ sent \in BOOLEAN /\ taken \subseteq Uid \X Text
  /\ stray \in Nat /\ abandoned \subseteq Uid
  /\ \A c \in box : c[1] < uidnext
  /\ \A c, d \in box : c[1] = d[1] => c = d
  /\ \A w \in Window : win[w].promise # None =>
       save[win[w].promise].win = w /\ save[win[w].promise].pc \notin {"idle", "wait"}

Init ==
  /\ box = {} /\ uidnext = 1 /\ rows = {} /\ hidden = {}
  /\ win = [w \in Window |-> Unused]
  /\ save = [s \in Saver |-> NoSave] /\ mail = NoSend
  /\ texts = 0 /\ fails = 0
  /\ acked = 0 /\ sent = FALSE /\ taken = {} /\ stray = 0 /\ abandoned = {}

Hazard(h) == h \in Hazards
Spend(h) == Hazard(h) /\ fails < MaxFails /\ fails' = fails + 1

Copies(u) == {c \in box : c[1] = u}
Real(u) == {u} \ {None}
Shown(w) == win[w].st \in {"open", "min"}
SaversOf(w) == {s \in Saver : save[s].win = w}

\* The promise is settled and all that waited for it has run.
Settled == mail.pc # "woken" /\ \A s \in Saver : save[s].pc # "woken"
Waiting(s) == {t \in Saver : save[t].pc = "wait" /\ save[t].on = s}
Waited(s) == Waiting(s) # {} \/ (mail.pc = "wait" /\ mail.on = s)

-----------------------------------------------------------------------------
(* The windows. *)

OpenWindow(v, text, src, alone) ==
  /\ win[v].st = "unused"
  /\ win' = [win EXCEPT ![v] = [Unused EXCEPT !.st = "open", !.text = text, !.src = src,
                                              !.alone = alone]]

Compose(v) ==
  /\ texts = 0 /\ MaxText > 0 /\ texts' = 1
  /\ OpenWindow(v, 1, None, FALSE)
  /\ UNCHANGED <<server, cache, save, mail, fails, history>>

Type(w) ==
  /\ win[w].st = "open" /\ texts < MaxText
  /\ texts' = texts + 1
  /\ win' = [win EXCEPT ![w].text = texts + 1]
  /\ UNCHANGED <<server, cache, save, mail, fails, history>>

\* From the list of drafts. The mail is open in one window at a time.
EditDraft(v, c) ==
  /\ ~ sent /\ mail.pc = "idle" /\ \A w \in Window : ~ Shown(w)
  /\ c \in box /\ c[1] \in rows \ hidden
  /\ Hazard("overlap") \/ \A s \in Saver : save[s].pc = "idle"
  /\ OpenWindow(v, c[2], c[1], FALSE)
  /\ UNCHANGED <<server, cache, save, mail, counts, history>>

\* popoutCompose: the window moves out with the pointer of the moment.
PopOut(w, v) ==
  /\ win[w].st = "open" /\ ~ win[w].alone /\ win[v].st = "unused"
  /\ Hazard("overlap") \/ (SaversOf(w) = {} /\ mail.win # w)
  /\ win' = [win EXCEPT ![w].st = "closed",
                        ![v] = [Unused EXCEPT !.st = "open", !.text = win[w].text,
                                              !.src = win[w].src, !.alone = TRUE]]
  /\ UNCHANGED <<server, cache, save, mail, counts, history>>

Restore(w) ==
  /\ win[w].st = "min"
  /\ win' = [win EXCEPT ![w].st = "open"]
  /\ UNCHANGED <<server, cache, save, mail, counts, history>>

\* The draft stays. A popped-out window that sends is not closed under it.
Cancel(w) ==
  /\ Shown(w) /\ ~ (win[w].alone /\ win[w].sending)
  /\ win' = [win EXCEPT ![w].st = "closed"]
  /\ UNCHANGED <<server, cache, save, mail, counts, history>>

-----------------------------------------------------------------------------
(* persistDraftToImap. *)

\* persistDraftToImapInner up to its call: the pointer and the text of now.
Inner(s, w, kind, W) ==
  /\ save' = [save EXCEPT ![s] = [pc |-> "mark", win |-> w, kind |-> kind, on |-> None,
                                  text |-> W.text, src |-> W.src, new |-> None]]
  /\ win' = [win EXCEPT ![w] = [W EXCEPT !.promise = s]]

\* The pending promise is waited for once.
Persist(s, w, kind, W) ==
  /\ save[s].pc = "idle"
  /\ Hazard("overlap") \/ (mail.win # w /\ \A t \in Saver : t = W.promise => ~ Waited(t))
  /\ IF W.promise = None
       THEN Inner(s, w, kind, W)
       ELSE /\ save' = [save EXCEPT ![s] = [NoSave EXCEPT !.pc = "wait", !.win = w,
                                              !.kind = kind, !.on = W.promise]]
            /\ win' = [win EXCEPT ![w] = W]

SaveDraft(w, s) ==
  /\ win[w].st = "open" /\ ~ win[w].sending
  /\ Persist(s, w, "draft", [win[w] EXCEPT !.sending = TRUE])
  /\ UNCHANGED <<server, cache, mail, counts, history>>

MinimizeAndSave(w, s) ==
  /\ win[w].st = "open" /\ ~ win[w].alone
  /\ Persist(s, w, "mini", [win[w] EXCEPT !.st = "min"])
  /\ UNCHANGED <<server, cache, mail, counts, history>>

\* A second waiter starts too: the promise is not looked at again.
Resume(s) ==
  /\ save[s].pc = "woken"
  /\ Inner(s, save[s].win, save[s].kind, win[save[s].win])
  /\ UNCHANGED <<server, cache, mail, counts, history>>

\* The pointer left as it was: the mutant of Saved.
SavedKeepsPointer(s) ==
  LET w == save[s].win
      W == [win[w] EXCEPT !.promise = None] IN
  /\ save[s].pc = "ok"
  /\ win' = [win EXCEPT ![w] = IF save[s].kind = "draft"
                               THEN [W EXCEPT !.st = "closed", !.sending = FALSE] ELSE W]
  /\ save' = [t \in Saver |-> IF t = s THEN NoSave
                              ELSE IF t \in Waiting(s) THEN [save[t] EXCEPT !.pc = "woken"]
                              ELSE save[t]]
  /\ mail' = IF mail.pc = "wait" /\ mail.on = s THEN [mail EXCEPT !.pc = "woken"] ELSE mail
  /\ acked' = IF save[s].text > acked THEN save[s].text ELSE acked
  /\ UNCHANGED <<server, cache, counts, sent, taken, stray, abandoned>>

\* The call has returned: the pointer moves to the new copy, or to none. Save
\* closes the window. Those who waited go on.
Saved(s) ==
  LET w == save[s].win
      W == [win[w] EXCEPT !.src = save[s].new, !.promise = None] IN
  /\ save[s].pc = "ok"
  /\ win' = [win EXCEPT ![w] = IF save[s].kind = "draft"
                               THEN [W EXCEPT !.st = "closed", !.sending = FALSE] ELSE W]
  /\ save' = [t \in Saver |-> IF t = s THEN NoSave
                              ELSE IF t \in Waiting(s) THEN [save[t] EXCEPT !.pc = "woken"]
                              ELSE save[t]]
  /\ mail' = IF mail.pc = "wait" /\ mail.on = s THEN [mail EXCEPT !.pc = "woken"] ELSE mail
  /\ acked' = IF save[s].text > acked THEN save[s].text ELSE acked
  /\ UNCHANGED <<server, cache, counts, sent, taken, stray, abandoned>>

\* Save's finally; minimising does not touch the flag.
StillSending(w, calls) == win[w].sending /\ \A t \in calls : save[t].kind # "draft"

\* No finally: the mutant of SaveThrew.
SaveThrewKeepsPromise(s) ==
  LET w == save[s].win
      over == {s} \cup Waiting(s) IN
  /\ save[s].pc = "failed"
  /\ win' = [win EXCEPT ![w].sending = StillSending(w, over)]
  /\ save' = [t \in Saver |-> IF t \in over THEN NoSave ELSE save[t]]
  /\ mail' = IF mail.pc = "wait" /\ mail.on = s THEN [mail EXCEPT !.pc = "woken"] ELSE mail
  /\ UNCHANGED <<server, cache, counts, history>>

\* The call has thrown: the pointer stays, a save that waited throws too, and a
\* sending that waited goes on.
SaveThrew(s) ==
  LET w == save[s].win
      over == {s} \cup Waiting(s) IN
  /\ save[s].pc = "failed"
  /\ win' = [win EXCEPT ![w] = [@ EXCEPT !.promise = None, !.sending = StillSending(w, over)]]
  /\ save' = [t \in Saver |-> IF t \in over THEN NoSave ELSE save[t]]
  /\ mail' = IF mail.pc = "wait" /\ mail.on = s THEN [mail EXCEPT !.pc = "woken"] ELSE mail
  /\ UNCHANGED <<server, cache, counts, history>>

-----------------------------------------------------------------------------
(* save_draft. *)

Goto(s, pc) == save' = [save EXCEPT ![s].pc = pc]

\* upsert_message_pending: a row is made up when there is none.
Tombstone(u) ==
  \/ rows' = rows \cup Real(u) /\ hidden' = hidden \cup Real(u) /\ UNCHANGED fails
  \/ Spend("cache") /\ UNCHANGED cache
\* remove_envelope.
Forget(u) ==
  \/ rows' = rows \ {u} /\ hidden' = hidden \ {u} /\ UNCHANGED fails
  \/ Spend("cache") /\ UNCHANGED cache
\* clear_message_pending; when it fails the row stays hidden.
Unhide(u) ==
  \/ hidden' = hidden \ {u} /\ UNCHANGED <<rows, abandoned>>
  \/ Hazard("cache") /\ UNCHANGED cache /\ abandoned' = abandoned \cup Real(u)

Mark(s) ==
  /\ save[s].pc = "mark"
  /\ Tombstone(save[s].src) /\ Goto(s, "append")
  /\ UNCHANGED <<server, win, mail, texts, history>>

\* get_imap_password fails: save_draft returns and leaves the source hidden.
PasswordFails(s) ==
  /\ save[s].pc = "append" /\ Spend("fail")
  /\ Goto(s, "failed")
  /\ abandoned' = abandoned \cup Real(save[s].src)
  /\ UNCHANGED <<server, cache, win, mail, texts, acked, sent, taken, stray>>

Land(s) ==
  /\ uidnext <= MaxUid /\ uidnext' = uidnext + 1
  /\ box' = box \cup {<<uidnext, save[s].text>>}

Append(s) ==
  /\ save[s].pc = "append"
  /\ Land(s)
  /\ save' = [save EXCEPT ![s] = [@ EXCEPT !.pc = IF save[s].src = None THEN "search" ELSE "delete",
                                          !.new = uidnext]]
  /\ UNCHANGED <<cache, win, mail, counts, history>>

\* The tombstone stays: the mutant of AppendFails.
AppendFailsHidden(s) ==
  /\ save[s].pc = "append" /\ Spend("fail")
  /\ \/ UNCHANGED <<server, stray>>
     \/ Land(s) /\ stray' = stray + 1
  /\ Goto(s, "failed")
  /\ UNCHANGED <<cache, win, mail, texts, acked, sent, taken, abandoned>>

\* The source is deleted all the same: the mutant of AppendFails.
AppendFailsDeletes(s) ==
  /\ save[s].pc = "append" /\ Spend("fail")
  /\ Goto(s, IF save[s].src = None THEN "failed" ELSE "delete")
  /\ UNCHANGED <<server, cache, win, mail, texts, history>>

\* No connection, no APPEND, or one whose answer is lost.
AppendFails(s) ==
  /\ save[s].pc = "append" /\ Spend("fail")
  /\ \/ UNCHANGED <<server, stray>>
     \/ Land(s) /\ stray' = stray + 1
  /\ Unhide(save[s].src) /\ Goto(s, "failed")
  /\ UNCHANGED <<win, mail, texts, acked, sent, taken>>

\* client.delete_message of the source: when it is not there the row goes, and
\* the save fails all the same.
DeleteSource(s) ==
  LET old == Copies(save[s].src) IN
  /\ save[s].pc = "delete"
  /\ box' = box \ old
  /\ Forget(save[s].src)
  /\ Goto(s, IF old = {} THEN "failed" ELSE "search")
  /\ stray' = IF old = {} THEN stray + 1 ELSE stray
  /\ UNCHANGED <<uidnext, win, mail, texts, acked, sent, taken, abandoned>>

DeleteFails(s) ==
  /\ save[s].pc = "delete" /\ Spend("fail")
  /\ box' = box \/ box' = box \ Copies(save[s].src)
  /\ Unhide(save[s].src) /\ Goto(s, "failed")
  /\ stray' = stray + 1
  /\ UNCHANGED <<uidnext, win, mail, texts, acked, sent, taken>>

\* find_uid_by_message_id.
Search(s) ==
  /\ save[s].pc = "search" /\ Copies(save[s].new) # {}
  /\ Goto(s, "ok")
  /\ UNCHANGED <<server, cache, win, mail, counts, history>>

SearchFindsNothing(s) ==
  /\ save[s].pc = "search"
  /\ (Copies(save[s].new) = {} /\ UNCHANGED fails) \/ Spend("fail")
  /\ save' = [save EXCEPT ![s] = [@ EXCEPT !.pc = "ok", !.new = None]]
  /\ stray' = stray + 1
  /\ UNCHANGED <<server, cache, win, mail, texts, acked, sent, taken, abandoned>>

-----------------------------------------------------------------------------
(* send and runSendPipeline. *)

Closed(w, W) == win' = [win EXCEPT ![w] = IF W.alone THEN W ELSE [W EXCEPT !.st = "closed"]]

\* The snapshot of the pointer and the text; without a draft the window closes.
Snapshot(w, W) ==
  /\ mail' = [pc |-> IF W.src = None THEN "smtp" ELSE "tomb", win |-> w, on |-> None,
              text |-> W.text, src |-> W.src]
  /\ IF W.src = None THEN Closed(w, W) ELSE win' = [win EXCEPT ![w] = W]

\* The snapshot at once: the mutant of Send.
SendAtOnce(w) ==
  LET W == [win[w] EXCEPT !.sending = TRUE] IN
  /\ win[w].st = "open" /\ ~ win[w].sending /\ mail.pc = "idle" /\ ~ sent
  /\ Hazard("overlap") \/ \A t \in Saver : t = W.promise => ~ Waited(t)
  /\ Snapshot(w, W)
  /\ UNCHANGED <<server, cache, save, counts, history>>

Send(w) ==
  LET W == [win[w] EXCEPT !.sending = TRUE] IN
  /\ win[w].st = "open" /\ ~ win[w].sending /\ mail.pc = "idle" /\ ~ sent
  /\ Hazard("overlap") \/ \A t \in Saver : t = W.promise => ~ Waited(t)
  /\ IF W.promise = None
       THEN Snapshot(w, W)
       ELSE /\ mail' = [NoSend EXCEPT !.pc = "wait", !.win = w, !.on = W.promise]
            /\ win' = [win EXCEPT ![w] = W]
  /\ UNCHANGED <<server, cache, save, counts, history>>

ResumeSend ==
  /\ mail.pc = "woken"
  /\ Snapshot(mail.win, win[mail.win])
  /\ UNCHANGED <<server, cache, save, counts, history>>

\* tombstone_draft_for_expunge, then the window closes unless it is its own.
TombstoneDraft ==
  /\ mail.pc = "tomb"
  /\ Tombstone(mail.src) /\ Closed(mail.win, win[mail.win])
  /\ mail' = [mail EXCEPT !.pc = "smtp"]
  /\ UNCHANGED <<server, save, texts, history>>

\* The pipeline is over: now the window of its own closes too.
Over == mail' = NoSend /\ win' = [win EXCEPT ![mail.win].st = "closed"]

\* send_email has put the mail into the outbox.
SendEmail ==
  /\ mail.pc = "smtp" /\ sent' = TRUE
  /\ IF mail.src = None THEN Over ELSE mail' = [mail EXCEPT !.pc = "mark"] /\ UNCHANGED win
  /\ UNCHANGED <<server, cache, save, counts, acked, taken, stray, abandoned>>

\* onsendfailed: a window opens again with the snapshot. The tombstone stays.
SendEmailFails(v) ==
  LET w == mail.win IN
  /\ mail.pc = "smtp" /\ Spend("fail")
  /\ IF win[w].alone
       THEN v = w /\ win' = [win EXCEPT ![w].sending = FALSE]
       ELSE OpenWindow(v, mail.text, mail.src, FALSE)
  /\ mail' = NoSend
  /\ abandoned' = abandoned \cup Real(mail.src)
  /\ UNCHANGED <<server, cache, save, texts, acked, sent, taken, stray>>

\* expunge_draft_after_send: the tombstone, whatever becomes of the rest.
MarkAgain ==
  /\ mail.pc = "mark"
  /\ Tombstone(mail.src)
  /\ mail' = [mail EXCEPT !.pc = "expunge"]
  /\ UNCHANGED <<server, win, save, texts, history>>

ExpungeDraft ==
  /\ mail.pc = "expunge" /\ Over
  /\ box' = box \ Copies(mail.src)
  /\ UNCHANGED <<uidnext, cache, save, counts, history>>

ExpungeFails ==
  /\ mail.pc = "expunge" /\ Spend("fail") /\ Over
  /\ stray' = stray + 1
  /\ UNCHANGED <<server, cache, save, texts, acked, sent, taken, abandoned>>

-----------------------------------------------------------------------------
(* The rest of the program and of the world. *)

\* poll_folder; an empty list changes nothing.
Poll ==
  /\ box # {}
  /\ rows' = {c[1] : c \in box}
  /\ hidden' = {u \in hidden : Copies(u) # {}}
  /\ UNCHANGED <<server, win, save, mail, counts, history>>

OtherDeletes(c) ==
  /\ Spend("others") /\ c \in box
  /\ box' = box \ {c} /\ taken' = taken \cup {c}
  /\ UNCHANGED <<uidnext, cache, win, save, mail, texts, acked, sent, stray, abandoned>>

\* The windows and the calls go; the start clears the tombstones.
Crash ==
  /\ Spend("crash")
  /\ win' = [w \in Window |-> IF win[w].st = "unused" THEN win[w]
                              ELSE [Unused EXCEPT !.st = "closed"]]
  /\ save' = [s \in Saver |-> NoSave] /\ mail' = NoSend
  /\ hidden' = {} /\ abandoned' = {}
  /\ stray' = stray + Cardinality({s \in Saver : save[s].pc = "delete"})
                    + (IF mail.pc \in {"mark", "expunge"} THEN 1 ELSE 0)
  /\ UNCHANGED <<server, rows, texts, acked, sent, taken>>

PageStep(w) ==
  \/ Compose(w) \/ Type(w) \/ Restore(w) \/ Cancel(w) \/ Send(w)
  \/ \E c \in box : EditDraft(w, c)
  \/ \E v \in Window : PopOut(w, v)
  \/ \E s \in Saver : SaveDraft(w, s) \/ MinimizeAndSave(w, s)

SaveStep(s) ==
  \/ Mark(s) \/ PasswordFails(s) \/ Append(s) \/ AppendFails(s)
  \/ DeleteSource(s) \/ DeleteFails(s)
  \/ Search(s) \/ SearchFindsNothing(s) \/ Saved(s) \/ SaveThrew(s)

MailStep ==
  \/ TombstoneDraft \/ SendEmail \/ MarkAgain \/ ExpungeDraft \/ ExpungeFails
  \/ \E v \in Window : SendEmailFails(v)

Next ==
  \/ (\E s \in Saver : Resume(s)) \/ ResumeSend
  \/ Settled /\ (\/ \E w \in Window : PageStep(w)
                 \/ \E s \in Saver : SaveStep(s)
                 \/ MailStep \/ Poll \/ Crash
                 \/ \E c \in box : OtherDeletes(c))

Spec == Init /\ [][Next]_vars

-----------------------------------------------------------------------------
(* Properties. *)

AtRest == mail.pc = "idle" /\ \A s \in Saver : save[s].pc = "idle"
Replacing == {s \in Saver : save[s].pc = "delete"}

\* Until the mail is sent, a copy of the last text a save has acknowledged, or of a
\* later one, is in Drafts, unless another client removed it there.
DraftSafe == acked > 0 /\ ~ sent => \E c \in box \cup taken : c[2] >= acked

\* There is one copy, but for those a save is about to remove and those a failed
\* call left.
DraftsPruned == Cardinality(box) <= 1 + Cardinality(Replacing) + stray

\* Once the mail is sent and all is done, Drafts holds no more than failed calls
\* left there.
SentLeavesNoDraft == sent /\ AtRest => Cardinality(box) <= stray

\* A draft on the server is hidden from the user only while a call works on it.
\* Excused, until the next start, are a sending that failed, a save that got no
\* password, and a call that failed and could not show the row again.
DraftShown ==
  ~ sent /\ AtRest => \A c \in box : c[1] \in hidden => c[1] \in abandoned

=============================================================================
