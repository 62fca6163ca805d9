---------------------------- MODULE DraftsProofs ----------------------------
(***************************************************************************)
(* Proofs about Drafts, for any windows, saves, bounds and hazards.  The   *)
(* first three theorems hold also for a user who acts on a window while    *)
(* its save is in flight; the last two, on how many drafts there are, are  *)
(* for one who does not (Careful).                                         *)
(***************************************************************************)
EXTENDS Drafts, FiniteSetTheorems, TLAPS

Typed ==
  /\ box \in SUBSET (Uid \X Text) /\ uidnext \in 1..MaxUid + 1
  /\ rows \in SUBSET Uid /\ hidden \in SUBSET rows
  /\ win \in [Window -> Component]
  /\ save \in [Saver -> SaveCall] /\ mail \in SendCall
  /\ texts \in 0..MaxText /\ fails \in 0..MaxFails
  /\ acked \in 0..MaxText /\ sent \in BOOLEAN /\ taken \in SUBSET (Uid \X Text)
  /\ stray \in Nat /\ abandoned \in SUBSET Uid

\* All the copies the user has not lost by his own program.
Ever == box \cup taken

\* A uid names one draft and is not handed out again.
UidsUnique ==
  /\ \A c \in Ever : c[1] < uidnext /\ c[2] <= texts
  /\ \A c, d \in Ever : c[1] = d[1] => c = d
  /\ \A u \in hidden : u < uidnext

\* The copy that u points at, if any, is no later than the text t.
NoLater(u, t) == u # None => u < uidnext /\ \A c \in Ever : c[1] = u => c[2] <= t

\* A window's pointer is never to a later text than its own.
WindowSound(w) ==
  /\ win[w].text <= texts
  /\ Shown(w) => win[w].text >= 1
  /\ NoLater(win[w].src, win[w].text)

\* The window of a call was opened with a mail in it.
Begun(w) == w \in Window /\ win[w].st # "unused" /\ win[w].text >= 1

\* A copy at least as late as what the call stores, other than the one it replaces.
Stored(s) ==
  \E d \in Ever : d[2] >= save[s].text /\ (save[s].src # None => d[1] > save[s].src)

SaveSound(s) ==
  save[s].pc # "idle" =>
    /\ Begun(save[s].win) /\ save[s].text <= win[save[s].win].text
    /\ save[s].pc \notin {"wait", "woken"} => save[s].text >= 1
    /\ NoLater(save[s].src, save[s].text) /\ NoLater(save[s].new, save[s].text)
    /\ save[s].pc = "delete" => save[s].src # None
    /\ save[s].pc \in {"delete", "search", "ok"} => sent \/ Stored(s)

MailSound ==
  mail.pc # "idle" =>
    /\ Begun(mail.win) /\ mail.text <= texts
    /\ mail.pc \notin {"wait", "woken"} => mail.text >= 1
    /\ NoLater(mail.src, mail.text)
    /\ mail.pc \in {"mark", "expunge"} => sent

PromiseOwned ==
  \A w \in Window : win[w].promise # None =>
    save[win[w].promise].win = w /\ save[win[w].promise].pc \notin {"idle", "wait"}

\* What is hidden is being replaced, being sent, or left by a call that failed.
HiddenForReason ==
  ~ sent => \A u \in hidden :
    \/ u \in abandoned
    \/ \A c \in box : c[1] # u
    \/ \E s \in Saver : save[s].src = u /\ save[s].pc \in {"append", "delete"}
    \/ mail.src = u /\ mail.pc = "smtp"

IInv ==
  /\ Typed /\ UidsUnique /\ PromiseOwned
  /\ \A w \in Window : WindowSound(w)
  /\ \A s \in Saver : SaveSound(s)
  /\ MailSound /\ DraftSafe /\ HiddenForReason

USE DraftsAssumption DEF DraftsAssumption

-----------------------------------------------------------------------------

LEMMA NoneIsNoUid == None \notin Uid
BY DEF Uid

LEMMA InitIInv ==
  ASSUME Init
  PROVE  IInv
<1> USE DEF Init
<1>1. Typed
  <2>1. Unused \in Component
    BY DEF Unused, Component, MaybeUid, MaybeSaver
  <2>2. NoSave \in SaveCall
    BY DEF NoSave, SaveCall, SavePC, MaybeUid, MaybeSaver
  <2>3. NoSend \in SendCall
    BY DEF NoSend, SendCall, MailPC, MaybeUid, MaybeSaver
  <2>4. box \in SUBSET (Uid \X Text) /\ taken \in SUBSET (Uid \X Text)
    OBVIOUS
  <2>5. uidnext \in 1..MaxUid + 1 /\ texts \in 0..MaxText /\ fails \in 0..MaxFails
    OBVIOUS
  <2> QED BY <2>1, <2>2, <2>3, <2>4, <2>5 DEF Typed
<1>2. UidsUnique /\ PromiseOwned
  BY DEF UidsUnique, PromiseOwned, Ever, Unused
<1>3. \A w \in Window : WindowSound(w)
  BY DEF WindowSound, Unused, Shown, NoLater
<1>4. (\A s \in Saver : SaveSound(s)) /\ MailSound
  BY DEF SaveSound, MailSound, NoSave, NoSend
<1>5. DraftSafe /\ HiddenForReason
  BY DEF DraftSafe, HiddenForReason
<1> QED BY <1>1, <1>2, <1>3, <1>4, <1>5 DEF IInv

-----------------------------------------------------------------------------
(* What every step but a crash keeps, whatever it does. *)

\* Uids are not used again, a copy goes only for one at least as new and as late,
\* and a window's text is never taken back.
GoesOn ==
  /\ uidnext <= uidnext' /\ texts <= texts' /\ (sent => sent')
  /\ \A c \in Ever' : c \in Ever \/ c[1] >= uidnext
  /\ sent' \/ \A c \in Ever : \E d \in Ever' : d[1] >= c[1] /\ d[2] >= c[2]
  /\ \A w \in Window : win[w].st # "unused" =>
       win'[w].st # "unused" /\ win[w].text <= win'[w].text

LEMMA EverTyped ==
  ASSUME Typed
  PROVE  Ever \subseteq Uid \X Text /\ \A c \in Ever : c[1] \in Uid /\ c[2] \in Text
BY DEF Typed, Ever

LEMMA NoLaterGoesOn ==
  ASSUME Typed, Typed', GoesOn, NEW u \in MaybeUid, NEW t \in Nat, NoLater(u, t)
  PROVE  u # None => u < uidnext' /\ \A c \in Ever' : c[1] = u => c[2] <= t
<1> SUFFICES ASSUME u # None
             PROVE  u < uidnext' /\ \A c \in Ever' : c[1] = u => c[2] <= t
  OBVIOUS
<1>1. u < uidnext /\ u \in Nat
  BY DEF NoLater, MaybeUid, Uid
<1>2. u < uidnext'
  BY <1>1 DEF GoesOn, Typed
<1>3. ASSUME NEW c \in Ever', c[1] = u
      PROVE  c[2] <= t
  BY <1>1, <1>3 DEF GoesOn, NoLater, Typed
<1> QED BY <1>2, <1>3

LEMMA WindowGoesOn ==
  ASSUME IInv, Typed', GoesOn, NEW w \in Window,
         win'[w].text = win[w].text, win'[w].src = win[w].src,
         Shown(w)' => Shown(w)
  PROVE  WindowSound(w)'
<1>1. WindowSound(w) /\ Typed
  BY DEF IInv
<1>2. win[w].text \in 0..MaxText /\ win[w].src \in MaybeUid
  BY <1>1 DEF Typed, Component, Text
<1> QED BY <1>1, <1>2, NoLaterGoesOn DEF WindowSound, NoLater, GoesOn, Typed

LEMMA BegunGoesOn ==
  ASSUME Typed, Typed', GoesOn, NEW w, Begun(w)
  PROVE  Begun(w)' /\ win[w].text <= win'[w].text
<1>1. w \in Window /\ win[w] \in Component /\ win'[w] \in Component
  BY DEF Begun, Typed
<1>2. win[w].text \in Nat /\ win'[w].text \in Nat
  BY <1>1 DEF Component, Text
<1> QED BY <1>1, <1>2 DEF Begun, GoesOn

\* A call that moves on to another step with the same copies in mind.
LEMMA SaveGoesOn ==
  ASSUME IInv, Typed', GoesOn, NEW s \in Saver,
         save[s].pc # "idle", save'[s].win = save[s].win,
         save'[s].text = save[s].text, save'[s].src = save[s].src,
         save'[s].new = save[s].new \/ save'[s].new = None,
         save'[s].pc \in {"wait", "woken"} => save[s].pc = "wait" \/ save[s].pc = "woken",
         save[s].pc \in {"wait", "woken"} => save'[s].pc \in {"wait", "woken"},
         save'[s].pc = "delete" => save[s].pc = "delete",
         save'[s].pc \in {"delete", "search", "ok"}
            => save[s].pc \in {"delete", "search", "ok"}
  PROVE  SaveSound(s)'
<1>1. SaveSound(s) /\ Typed
  BY DEF IInv
<1>2. save[s] \in SaveCall
  BY <1>1 DEF Typed
<1>3. /\ save[s].text \in Nat /\ save[s].src \in MaybeUid /\ save[s].new \in MaybeUid
      /\ win[save[s].win].text \in Nat /\ win'[save[s].win].text \in Nat
  BY <1>1, <1>2 DEF SaveCall, Text, Begun, Component, Typed, SaveSound
<1>4. Begun(save[s].win)' /\ save'[s].text <= win'[save[s].win].text
  <2> PICK w : w = save[s].win
    OBVIOUS
  <2>1. Begun(w)' /\ win[w].text <= win'[w].text
    BY <1>1, BegunGoesOn DEF SaveSound
  <2> QED BY <2>1, <1>1, <1>3 DEF SaveSound, Begun
<1>5. NoLater(save[s].src, save[s].text)' /\ NoLater(save[s].new, save[s].text)'
  <2>1. NoLater(save[s].src, save[s].text) /\ NoLater(save[s].new, save[s].text)
    BY <1>1 DEF SaveSound
  <2> QED BY <1>1, <1>3, <2>1, NoLaterGoesOn DEF NoLater
<1>6. ASSUME save'[s].pc \in {"delete", "search", "ok"}, ~ sent', Stored(s)
      PROVE  Stored(s)'
  <2>1. PICK d \in Ever : d[2] >= save[s].text /\ (save[s].src # None => d[1] > save[s].src)
    BY <1>6 DEF Stored
  <2>2. PICK e \in Ever' : e[1] >= d[1] /\ e[2] >= d[2]
    BY <1>6 DEF GoesOn
  <2>3. /\ d[1] \in Nat /\ d[2] \in Nat /\ e[1] \in Nat /\ e[2] \in Nat
        /\ save[s].src # None => save[s].src \in Nat
    BY <1>1, <1>3 DEF Ever, Typed, Uid, Text, MaybeUid
  <2>4. e[2] >= save[s].text /\ (save[s].src # None => e[1] > save[s].src)
    BY <2>1, <2>2, <2>3, <1>3
  <2> QED BY <2>4 DEF Stored
<1> QED BY <1>1, <1>3, <1>4, <1>5, <1>6 DEF SaveSound, GoesOn

LEMMA MailGoesOn ==
  ASSUME IInv, Typed', GoesOn, mail.pc # "idle", mail'.win = mail.win,
         mail'.text = mail.text, mail'.src = mail.src,
         mail.pc \in {"wait", "woken"} => mail'.pc \in {"wait", "woken"},
         mail'.pc \in {"mark", "expunge"} => sent'
  PROVE  MailSound'
<1>1. MailSound /\ Typed
  BY DEF IInv
<1>2. mail.text \in Nat /\ mail.src \in MaybeUid
  BY <1>1 DEF Typed, SendCall, Text
<1>3. Begun(mail.win)'
  <2> PICK w : w = mail.win
    OBVIOUS
  <2>1. Begun(w)'
    BY <1>1, BegunGoesOn DEF MailSound
  <2> QED BY <2>1 DEF Begun
<1>4. NoLater(mail.src, mail.text)'
  BY <1>1, <1>2, NoLaterGoesOn DEF NoLater, MailSound
<1> QED BY <1>1, <1>2, <1>3, <1>4 DEF MailSound, GoesOn, Typed

LEMMA DraftSafeGoesOn ==
  ASSUME IInv, Typed', GoesOn, acked' = acked
  PROVE  DraftSafe'
<1> SUFFICES ASSUME acked > 0, ~ sent'
             PROVE  \E c \in Ever' : c[2] >= acked
  BY DEF DraftSafe, Ever
<1>1. PICK c \in Ever : c[2] >= acked
  BY DEF IInv, DraftSafe, GoesOn, Ever
<1>2. PICK d \in Ever' : d[1] >= c[1] /\ d[2] >= c[2]
  BY DEF GoesOn
<1>3. c[2] \in Nat /\ d[2] \in Nat /\ acked \in Nat
  BY DEF IInv, Typed, Ever, Text
<1> QED BY <1>1, <1>2, <1>3

-----------------------------------------------------------------------------
(* The steps of save_draft. *)

LEMMA SaveStepKeeps ==
  ASSUME IInv, NEW s \in Saver, Typed', GoesOn, UNCHANGED <<win, mail, acked, sent>>,
         \A t \in Saver \ {s} : save'[t] = save[t],
         save[s].pc \notin {"idle", "wait"}, save'[s].pc \notin {"idle", "wait"},
         save'[s].win = save[s].win,
         SaveSound(s)', UidsUnique', HiddenForReason'
  PROVE  IInv'
<1>1. \A w \in Window : WindowSound(w)'
  BY WindowGoesOn DEF Shown
<1>2. ASSUME NEW t \in Saver \ {s}
      PROVE  SaveSound(t)'
  <2>1. CASE save[t].pc = "idle"
    BY <2>1 DEF SaveSound
  <2>2. CASE save[t].pc # "idle"
    BY <2>2, SaveGoesOn
  <2> QED BY <2>1, <2>2
<1>3. MailSound'
  <2>1. CASE mail.pc = "idle"
    BY <2>1 DEF MailSound
  <2>2. CASE mail.pc # "idle"
    BY <2>2, MailGoesOn DEF IInv, MailSound
  <2> QED BY <2>1, <2>2
<1>4. PromiseOwned'
  <2> SUFFICES ASSUME NEW w \in Window, win[w].promise # None
               PROVE  /\ save'[win[w].promise].win = w
                      /\ save'[win[w].promise].pc \notin {"idle", "wait"}
    BY DEF PromiseOwned
  <2>1. win[w].promise \in Saver
    BY DEF IInv, Typed, Component, MaybeSaver
  <2>2. save[win[w].promise].win = w /\ save[win[w].promise].pc \notin {"idle", "wait"}
    BY DEF IInv, PromiseOwned
  <2> QED BY <2>1, <2>2
<1>5. DraftSafe'
  BY DraftSafeGoesOn
<1> QED BY <1>1, <1>2, <1>3, <1>4, <1>5 DEF IInv

\* A step that leaves the server's drafts alone.
LEMMA ServerStays ==
  ASSUME IInv, UNCHANGED <<box, uidnext, taken, texts, win>>, sent => sent'
  PROVE  GoesOn
<1>1. uidnext \in Int /\ texts \in Int
  BY DEF IInv, Typed
<1>2. Ever' = Ever /\ \A c \in Ever : c[1] \in Int /\ c[2] \in Int
  BY DEF Ever, IInv, Typed, Uid, Text
<1>3. \A w \in Window : win[w].text \in Int
  BY DEF IInv, Typed, Component, Text
<1> QED BY <1>1, <1>2, <1>3 DEF GoesOn

LEMMA TombstoneTyped ==
  ASSUME Typed, NEW u \in MaybeUid, Tombstone(u)
  PROVE  /\ rows' \in SUBSET Uid /\ hidden' \in SUBSET rows' /\ fails' \in 0..MaxFails
         /\ hidden' = hidden \/ hidden' = hidden \cup Real(u)
<1>1. CASE rows' = rows \cup Real(u) /\ hidden' = hidden \cup Real(u) /\ UNCHANGED fails
  BY <1>1 DEF Typed, MaybeUid, Real
<1>2. CASE Spend("cache") /\ UNCHANGED cache
  BY <1>2 DEF Typed, Spend, cache
<1> QED BY <1>1, <1>2 DEF Tombstone

LEMMA MarkKeeps ==
  ASSUME IInv, NEW s \in Saver, Mark(s)
  PROVE  IInv'
<1> USE DEF Mark, Goto, Real, server, history
<1>1. Typed /\ save[s] \in SaveCall /\ save[s].src \in MaybeUid
  BY DEF IInv, Typed, SaveCall
<1>t. /\ rows' \in SUBSET Uid /\ hidden' \in SUBSET rows' /\ fails' \in 0..MaxFails
      /\ hidden' = hidden \/ hidden' = hidden \cup Real(save[s].src)
  BY <1>1, TombstoneTyped
<1>2. Typed'
  <2>1. save' \in [Saver -> SaveCall]
    BY <1>1 DEF Typed, SaveCall, SavePC
  <2> QED BY <1>1, <1>t, <2>1 DEF Typed
<1>3. GoesOn
  BY ServerStays
<1>4. /\ \A t \in Saver \ {s} : save'[t] = save[t]
      /\ save'[s] = [save[s] EXCEPT !.pc = "append"]
  BY <1>1 DEF Typed
<1>5. SaveSound(s)'
  BY <1>1, <1>2, <1>3, <1>4, SaveGoesOn DEF SaveCall
<1>6. UidsUnique'
  BY <1>t DEF UidsUnique, Ever, IInv, SaveSound, NoLater
<1>7. HiddenForReason'
  BY <1>1, <1>t, <1>4 DEF HiddenForReason, IInv, SaveCall
<1> QED BY <1>1, <1>2, <1>3, <1>4, <1>5, <1>6, <1>7, SaveStepKeeps DEF SaveCall

\* A new copy has a uid nobody has named.
LEMMA LandKeeps ==
  ASSUME IInv, NEW s \in Saver, save[s].pc = "append", Land(s),
         UNCHANGED <<win, texts, taken>>, sent => sent', hidden' \in SUBSET hidden
  PROVE  /\ box' \in SUBSET (Uid \X Text) /\ uidnext' \in 1..MaxUid + 1
         /\ GoesOn /\ UidsUnique'
         /\ Ever' = Ever \cup {<<uidnext, save[s].text>>}
<1>1. Typed /\ UidsUnique /\ SaveSound(s)
  BY DEF IInv
<1>2. save[s] \in SaveCall /\ save[s].text \in Text
  BY <1>1 DEF Typed, SaveCall, SaveSound, Text
<1>3. uidnext \in Uid /\ uidnext' = uidnext + 1 /\ uidnext' \in 1..MaxUid + 1
  BY <1>1 DEF Land, Typed, Uid
<1>4. box' \in SUBSET (Uid \X Text)
  BY <1>1, <1>2, <1>3 DEF Land, Typed
<1>5. Ever' = Ever \cup {<<uidnext, save[s].text>>}
  BY DEF Land, Ever
<1> DEFINE new == <<uidnext, save[s].text>>
<1>a. new[1] = uidnext /\ new[2] = save[s].text /\ Ever' = Ever \cup {new}
  BY <1>5
<1> HIDE DEF new
<1>6. /\ \A c \in Ever : c[1] \in Int /\ c[2] \in Int
      /\ texts \in Int /\ uidnext \in Int
      /\ \A w \in Window : win[w].text \in Int
  BY <1>1 DEF Ever, Typed, Uid, Text, Component
<1>7. GoesOn
  <2>1. uidnext <= uidnext' /\ texts <= texts' /\ (sent => sent')
    BY <1>3, <1>6
  <2>2. \A c \in Ever' : c \in Ever \/ c[1] >= uidnext
    BY <1>a, <1>6
  <2>3. \A c \in Ever : \E d \in Ever' : d[1] >= c[1] /\ d[2] >= c[2]
    BY <1>a, <1>6
  <2>4. \A w \in Window : win[w].st # "unused" =>
       win'[w].st # "unused" /\ win[w].text <= win'[w].text
    BY <1>6
  <2> QED BY <2>1, <2>2, <2>3, <2>4 DEF GoesOn
<1>8. save[s].text <= texts
  <2>1. WindowSound(save[s].win)
    BY <1>1 DEF IInv, SaveSound, Begun
  <2>2. save[s].win \in Window /\ save[s].text \in Int /\ win[save[s].win].text \in Int
    BY <1>1, <1>2, <1>6 DEF SaveSound, Begun, Text
  <2> QED BY <2>1, <2>2, <1>1, <1>6 DEF WindowSound, SaveSound
<1>9. UidsUnique'
  <2>1. \A c \in Ever' : c[1] < uidnext' /\ c[2] <= texts'
    BY <1>1, <1>2, <1>3, <1>a, <1>6, <1>8 DEF UidsUnique, Text
  <2>2. \A c, d \in Ever' : c[1] = d[1] => c = d
    BY <1>1, <1>3, <1>a, <1>6 DEF UidsUnique
  <2>3. \A u \in hidden' : u < uidnext'
    BY <1>1, <1>3, <1>6 DEF UidsUnique, Typed, Uid
  <2> QED BY <2>1, <2>2, <2>3 DEF UidsUnique
<1> QED BY <1>3, <1>4, <1>5, <1>7, <1>9

LEMMA AppendKeeps ==
  ASSUME IInv, NEW s \in Saver, Append(s)
  PROVE  IInv'
<1> USE DEF Append, cache, counts, history
<1>1. Typed /\ save[s] \in SaveCall /\ SaveSound(s)
  BY DEF IInv, Typed
<1>2. /\ GoesOn /\ UidsUnique' /\ Ever' = Ever \cup {<<uidnext, save[s].text>>}
      /\ box' \in SUBSET (Uid \X Text) /\ uidnext' \in 1..MaxUid + 1
  BY LandKeeps
<1>3. uidnext \in Uid /\ uidnext \in Nat
  BY <1>1 DEF Typed, Land, Uid
<1>4. /\ \A t \in Saver \ {s} : save'[t] = save[t]
      /\ save'[s] = [save[s] EXCEPT !.pc = IF save[s].src = None THEN "search" ELSE "delete",
                                    !.new = uidnext]
  BY <1>1 DEF Typed
<1>5. /\ save'[s].win = save[s].win /\ save'[s].text = save[s].text
      /\ save'[s].src = save[s].src /\ save'[s].new = uidnext
      /\ save'[s].pc = IF save[s].src = None THEN "search" ELSE "delete"
  <2>1. PICK S \in SaveCall : S = save[s]
    BY <1>1
  <2>2. PICK p : p = IF save[s].src = None THEN "search" ELSE "delete"
    OBVIOUS
  <2>3. save'[s] = [S EXCEPT !.pc = p, !.new = uidnext]
    BY <1>4, <2>1, <2>2
  <2>4. /\ save'[s].win = S.win /\ save'[s].text = S.text /\ save'[s].src = S.src
        /\ save'[s].new = uidnext /\ save'[s].pc = p
    BY <2>3 DEF SaveCall
  <2> QED BY <2>1, <2>2, <2>4
<1>6. Typed'
  <2>1. save' \in [Saver -> SaveCall]
    BY <1>1, <1>3 DEF Typed, SaveCall, SavePC, MaybeUid
  <2> QED BY <1>1, <1>2, <2>1 DEF Typed
<1>7. SaveSound(s)'
  <2>1. save[s].text \in Nat /\ save[s].src \in MaybeUid
    BY <1>1 DEF SaveCall, Text
  <2>2. Begun(save[s].win) /\ save[s].text <= win[save[s].win].text
    BY <1>1 DEF SaveSound, Begun
  <2>3. save[s].src # None =>
          save[s].src < uidnext' /\ \A c \in Ever' : c[1] = save[s].src => c[2] <= save[s].text
    BY <1>1, <1>2, <1>6, <2>1, NoLaterGoesOn DEF SaveSound
  <2>4. /\ uidnext < uidnext'
        /\ \A c \in Ever' : c[1] = uidnext => c[2] <= save[s].text
    BY <1>1, <1>2, <1>3, <2>1 DEF IInv, UidsUnique, Land
  <2>5. Stored(s)'
    <3>1. <<uidnext, save[s].text>> \in Ever'
      BY <1>2
    <3>2. save[s].src # None => uidnext > save[s].src
      BY <1>1, <1>3 DEF SaveSound, NoLater, MaybeUid, SaveCall, Uid
    <3> QED BY <1>5, <2>1, <3>1, <3>2 DEF Stored
  <2>6. save[s].text >= 1
    BY <1>1 DEF SaveSound
  <2>7. NoLater(save[s].src, save[s].text)' /\ NoLater(save[s].new, save[s].text)'
    BY <1>5, <2>3, <2>4 DEF NoLater
  <2>8. Begun(save[s].win)'
    BY <1>5, <2>2 DEF Begun
  <2>9. save'[s].text <= win'[save'[s].win].text /\ save'[s].text >= 1
    BY <1>5, <2>2, <2>6
  <2> QED BY <1>5, <2>5, <2>7, <2>8, <2>9 DEF SaveSound
<1>8. HiddenForReason'
  <2> SUFFICES ASSUME ~ sent, NEW u \in hidden
               PROVE  \/ u \in abandoned
                      \/ \A c \in box' : c[1] # u
                      \/ \E t \in Saver : save'[t].src = u /\ save'[t].pc \in {"append", "delete"}
                      \/ mail.src = u /\ mail.pc = "smtp"
    BY DEF HiddenForReason
  <2>1. u # uidnext /\ u # None
    BY <1>3, NoneIsNoUid DEF IInv, UidsUnique, Typed, Uid
  <2>2. CASE \A c \in box : c[1] # u
    BY <2>1, <2>2 DEF Land
  <2>3. CASE \E t \in Saver : save[t].src = u /\ save[t].pc \in {"append", "delete"}
    BY <2>1, <2>3, <1>4, <1>5
  <2> QED BY <2>2, <2>3 DEF IInv, HiddenForReason
<1> QED BY <1>1, <1>2, <1>4, <1>5, <1>6, <1>7, <1>8, SaveStepKeeps

LEMMA GotoKeeps ==
  ASSUME Typed, NEW s \in Saver, NEW pc \in SavePC, Goto(s, pc)
  PROVE  /\ save' \in [Saver -> SaveCall]
         /\ \A t \in Saver \ {s} : save'[t] = save[t]
         /\ save'[s].pc = pc /\ save'[s].win = save[s].win /\ save'[s].text = save[s].text
         /\ save'[s].src = save[s].src /\ save'[s].new = save[s].new
<1>1. save[s] \in SaveCall
  BY DEF Typed
<1>2. save'[s] = [save[s] EXCEPT !.pc = pc] /\ \A t \in Saver \ {s} : save'[t] = save[t]
  BY <1>1 DEF Typed, Goto
<1>3. save' \in [Saver -> SaveCall]
  BY <1>1 DEF Typed, SaveCall, Goto
<1> QED BY <1>1, <1>2, <1>3 DEF SaveCall

\* A call that no longer works on its source has unhidden or deleted it, or abandons
\* it.
LEMMA HiddenGoesOn ==
  ASSUME IInv, NEW s \in Saver, \A t \in Saver \ {s} : save'[t] = save[t],
         hidden' \in SUBSET hidden,
         \/ save[s].pc \notin {"append", "delete"}
         \/ save[s].src \notin hidden' \ abandoned'
         \/ \A c \in box' : c[1] # save[s].src,
         \A c \in box' : c \in box \/ c[1] >= uidnext,
         abandoned \subseteq abandoned', UNCHANGED <<mail, sent>>
  PROVE  HiddenForReason'
<1> SUFFICES ASSUME ~ sent, NEW u \in hidden'
             PROVE  \/ u \in abandoned'
                    \/ \A c \in box' : c[1] # u
                    \/ \E t \in Saver : save'[t].src = u /\ save'[t].pc \in {"append", "delete"}
                    \/ mail.src = u /\ mail.pc = "smtp"
  BY DEF HiddenForReason
<1>1. u < uidnext /\ uidnext \in Int /\ u \in Int
  <2>1. u \in hidden
    OBVIOUS
  <2>2. u < uidnext
    BY <2>1 DEF IInv, UidsUnique
  <2>3. hidden \subseteq 1..MaxUid /\ uidnext \in 1..MaxUid + 1
    BY DEF IInv, Typed, Uid
  <2> QED BY <2>1, <2>2, <2>3
<1>2. CASE \A c \in box : c[1] # u
  BY <1>1, <1>2
<1>3. CASE \E t \in Saver : save[t].src = u /\ save[t].pc \in {"append", "delete"}
  BY <1>3
<1> QED BY <1>2, <1>3 DEF IInv, HiddenForReason

LEMMA UnhideTyped ==
  ASSUME Typed, NEW u \in MaybeUid, Unhide(u)
  PROVE  /\ rows' \in SUBSET Uid /\ hidden' \in SUBSET rows' /\ hidden' \in SUBSET hidden
         /\ abandoned' \in SUBSET Uid /\ abandoned \subseteq abandoned'
         /\ u \notin hidden' \ abandoned'
<1>1. CASE hidden' = hidden \ {u} /\ UNCHANGED <<rows, abandoned>>
  BY <1>1 DEF Typed
<1>2. CASE UNCHANGED cache /\ abandoned' = abandoned \cup Real(u)
  BY <1>2, NoneIsNoUid DEF Typed, cache, Real, MaybeUid
<1> QED BY <1>1, <1>2 DEF Unhide

LEMMA ForgetTyped ==
  ASSUME Typed, NEW u, Forget(u)
  PROVE  /\ rows' \in SUBSET Uid /\ hidden' \in SUBSET rows' /\ hidden' \in SUBSET hidden
         /\ fails' \in 0..MaxFails
<1>1. CASE rows' = rows \ {u} /\ hidden' = hidden \ {u} /\ UNCHANGED fails
  BY <1>1 DEF Typed
<1>2. CASE Spend("cache") /\ UNCHANGED cache
  BY <1>2 DEF Typed, Spend, cache
<1> QED BY <1>1, <1>2 DEF Forget

LEMMA PasswordFailsKeeps ==
  ASSUME IInv, NEW s \in Saver, PasswordFails(s)
  PROVE  IInv'
<1> USE DEF PasswordFails, server, cache
<1>1. Typed /\ save[s] \in SaveCall /\ SaveSound(s) /\ save[s].src \in MaybeUid
  BY DEF IInv, Typed, SaveCall
<1>2. GoesOn
  BY ServerStays
<1>3. /\ save' \in [Saver -> SaveCall]
      /\ \A t \in Saver \ {s} : save'[t] = save[t]
      /\ save'[s].pc = "failed" /\ save'[s].win = save[s].win /\ save'[s].text = save[s].text
      /\ save'[s].src = save[s].src /\ save'[s].new = save[s].new
  BY <1>1, GotoKeeps DEF SavePC
<1>4. /\ abandoned' \in SUBSET Uid /\ abandoned \subseteq abandoned'
      /\ save[s].src \notin hidden' \ abandoned'
  BY <1>1, NoneIsNoUid DEF Typed, Real, MaybeUid
<1>5. Typed'
  <2>1. fails' \in 0..MaxFails
    BY <1>1 DEF Typed, Spend
  <2> QED BY <1>1, <1>3, <1>4, <2>1 DEF Typed
<1>6. SaveSound(s)'
  BY <1>2, <1>3, <1>5, SaveGoesOn
<1>7. UidsUnique'
  BY DEF IInv, UidsUnique, Ever
<1>8. HiddenForReason'
  BY <1>3, <1>4, HiddenGoesOn
<1> QED BY <1>2, <1>3, <1>5, <1>6, <1>7, <1>8, SaveStepKeeps

LEMMA AppendFailsKeeps ==
  ASSUME IInv, NEW s \in Saver, AppendFails(s)
  PROVE  IInv'
<1> USE DEF AppendFails, server, Spend
<1>1. Typed /\ save[s] \in SaveCall /\ SaveSound(s) /\ save[s].src \in MaybeUid
  BY DEF IInv, Typed, SaveCall
<1>u. /\ rows' \in SUBSET Uid /\ hidden' \in SUBSET rows' /\ hidden' \in SUBSET hidden
      /\ abandoned' \in SUBSET Uid /\ abandoned \subseteq abandoned'
      /\ save[s].src \notin hidden' \ abandoned'
  BY <1>1, UnhideTyped
<1>2. /\ GoesOn /\ UidsUnique'
      /\ box' \in SUBSET (Uid \X Text) /\ uidnext' \in 1..MaxUid + 1 /\ stray' \in Nat
      /\ \A c \in box' : c \in box \/ c[1] >= uidnext
  <2>1. CASE UNCHANGED <<server, stray>>
    <3>1. GoesOn
      BY <2>1, ServerStays
    <3>2. UidsUnique'
      BY <1>u, <2>1 DEF IInv, UidsUnique, Ever
    <3> QED BY <1>1, <2>1, <3>1, <3>2 DEF Typed
  <2>2. CASE Land(s) /\ stray' = stray + 1
    <3>1. uidnext \in Int /\ stray' \in Nat
      BY <1>1, <2>2 DEF Typed
    <3>2. /\ GoesOn /\ UidsUnique'
          /\ box' \in SUBSET (Uid \X Text) /\ uidnext' \in 1..MaxUid + 1
      BY <1>u, <2>2, LandKeeps
    <3> QED BY <2>2, <3>1, <3>2 DEF Land
  <2> QED BY <2>1, <2>2
<1>3. /\ save' \in [Saver -> SaveCall]
      /\ \A t \in Saver \ {s} : save'[t] = save[t]
      /\ save'[s].pc = "failed" /\ save'[s].win = save[s].win /\ save'[s].text = save[s].text
      /\ save'[s].src = save[s].src /\ save'[s].new = save[s].new
  BY <1>1, GotoKeeps DEF SavePC
<1>4. Typed'
  <2>1. fails' \in 0..MaxFails
    BY <1>1 DEF Typed
  <2> QED BY <1>1, <1>u, <1>2, <1>3, <2>1 DEF Typed
<1>5. SaveSound(s)'
  BY <1>2, <1>3, <1>4, SaveGoesOn
<1>6. HiddenForReason'
  BY <1>u, <1>2, <1>3, HiddenGoesOn
<1> QED BY <1>2, <1>3, <1>4, <1>5, <1>6, SaveStepKeeps

\* The copy a call replaces gives way to one as late, with a uid after it.
LEMMA SourceGives ==
  ASSUME IInv, NEW s \in Saver, save[s].pc = "delete",
         box' = box \/ box' = box \ Copies(save[s].src),
         UNCHANGED <<uidnext, taken, texts, win, sent>>, hidden' \in SUBSET hidden
  PROVE  GoesOn /\ UidsUnique'
<1>1. Typed /\ UidsUnique /\ SaveSound(s)
  BY DEF IInv
<1>2. /\ \A c \in Ever : c[1] \in Int /\ c[2] \in Int
      /\ \A w \in Window : win[w].text \in Int
      /\ texts \in Int /\ uidnext \in Int /\ save[s].text \in Int
      /\ save[s].src # None => save[s].src \in Int
  BY <1>1 DEF Ever, Typed, Uid, Text, Component, SaveCall, MaybeUid
<1>3. Ever' \subseteq Ever /\ \A c \in Ever : c \in Ever' \/ c[1] = save[s].src
  BY DEF Ever, Copies
<1>4. UidsUnique'
  BY <1>1, <1>3 DEF UidsUnique
<1>5. ASSUME ~ sent, NEW c \in Ever
      PROVE  \E d \in Ever' : d[1] >= c[1] /\ d[2] >= c[2]
  <2>1. CASE c \in Ever'
    BY <1>2, <2>1
  <2>2. CASE c[1] = save[s].src
    <3>1. save[s].src # None /\ c[2] <= save[s].text
      BY <1>1, <2>2 DEF SaveSound, NoLater
    <3>2. PICK d \in Ever : d[2] >= save[s].text /\ d[1] > save[s].src
      BY <1>1, <1>5, <3>1 DEF SaveSound, Stored
    <3>3. d \in Ever'
      BY <1>2, <1>3, <3>1, <3>2
    <3> QED BY <1>2, <2>2, <3>1, <3>2, <3>3
  <2> QED BY <1>3, <2>1, <2>2
<1>6. GoesOn
  <2>1. uidnext <= uidnext' /\ texts <= texts'
    BY <1>2
  <2>2. \A w \in Window : win[w].text <= win'[w].text
    BY <1>2
  <2>3. (sent => sent') /\ \A w \in Window : win'[w].st = win[w].st
    OBVIOUS
  <2> QED BY <1>3, <1>5, <2>1, <2>2, <2>3 DEF GoesOn
<1> QED BY <1>4, <1>6

LEMMA DeleteSourceKeeps ==
  ASSUME IInv, NEW s \in Saver, DeleteSource(s) \/ DeleteFails(s)
  PROVE  IInv'
<1> USE DEF DeleteSource, DeleteFails
<1>1. Typed /\ save[s] \in SaveCall /\ SaveSound(s) /\ save[s].src \in MaybeUid
  BY DEF IInv, Typed, SaveCall
<1>2. /\ rows' \in SUBSET Uid /\ hidden' \in SUBSET rows' /\ hidden' \in SUBSET hidden
      /\ abandoned' \in SUBSET Uid /\ abandoned \subseteq abandoned'
      /\ fails' \in 0..MaxFails /\ box' \in SUBSET box
      /\ \/ save[s].src \notin hidden' \ abandoned'
         \/ \A c \in box' : c[1] # save[s].src
  <2>1. CASE DeleteSource(s)
    <3>1. /\ rows' \in SUBSET Uid /\ hidden' \in SUBSET rows' /\ hidden' \in SUBSET hidden
          /\ fails' \in 0..MaxFails
      BY <1>1, <2>1, ForgetTyped
    <3>2. box' \in SUBSET box /\ \A c \in box' : c[1] # save[s].src
      BY <2>1 DEF Copies
    <3> QED BY <1>1, <2>1, <3>1, <3>2 DEF Typed
  <2>2. CASE DeleteFails(s)
    <3>1. fails' \in 0..MaxFails /\ box' \in SUBSET box
      BY <1>1, <2>2 DEF Spend, Typed
    <3> QED BY <1>1, <2>2, <3>1, UnhideTyped
  <2> QED BY <2>1, <2>2
<1>3. GoesOn /\ UidsUnique'
  BY <1>2, SourceGives
<1>4. PICK pc \in {"failed", "search"} : Goto(s, pc)
  OBVIOUS
<1>5. /\ save' \in [Saver -> SaveCall]
      /\ \A t \in Saver \ {s} : save'[t] = save[t]
      /\ save'[s].pc = pc /\ save'[s].win = save[s].win /\ save'[s].text = save[s].text
      /\ save'[s].src = save[s].src /\ save'[s].new = save[s].new
  BY <1>1, <1>4, GotoKeeps DEF SavePC
<1>6. Typed'
  <2>1. stray' \in Nat
    BY <1>1 DEF Typed
  <2> QED BY <1>1, <1>2, <1>5, <2>1 DEF Typed
<1>7. SaveSound(s)'
  BY <1>3, <1>5, <1>6, SaveGoesOn
<1>8. HiddenForReason'
  BY <1>2, <1>5, HiddenGoesOn
<1> QED BY <1>3, <1>5, <1>6, <1>7, <1>8, SaveStepKeeps

LEMMA SearchKeeps ==
  ASSUME IInv, NEW s \in Saver, Search(s) \/ SearchFindsNothing(s)
  PROVE  IInv'
<1> USE DEF Search, SearchFindsNothing, Spend, server, cache, counts, history
<1>1. Typed /\ save[s] \in SaveCall /\ SaveSound(s)
  BY DEF IInv, Typed
<1>2. /\ save' \in [Saver -> SaveCall]
      /\ \A t \in Saver \ {s} : save'[t] = save[t]
      /\ save'[s].pc = "ok" /\ save'[s].win = save[s].win /\ save'[s].text = save[s].text
      /\ save'[s].src = save[s].src
      /\ save'[s].new = save[s].new \/ save'[s].new = None
  <2>1. CASE Search(s)
    BY <1>1, <2>1, GotoKeeps DEF SavePC
  <2>2. CASE SearchFindsNothing(s)
    <3>1. save' \in [Saver -> SaveCall]
      BY <1>1, <2>2 DEF Typed, SaveCall, SavePC, MaybeUid
    <3>2. \A t \in Saver \ {s} : save'[t] = save[t]
      BY <1>1, <2>2 DEF Typed
    <3>3. save'[s] = [save[s] EXCEPT !.pc = "ok", !.new = None]
      BY <1>1, <2>2 DEF Typed
    <3>4. PICK S \in SaveCall : S = save[s]
      BY <1>1
    <3>5. /\ save'[s].win = S.win /\ save'[s].text = S.text /\ save'[s].src = S.src
          /\ save'[s].new = None /\ save'[s].pc = "ok"
      BY <3>3, <3>4 DEF SaveCall
    <3> QED BY <3>1, <3>2, <3>4, <3>5
  <2> QED BY <2>1, <2>2
<1>3. Typed'
  <2>1. fails' \in 0..MaxFails /\ stray' \in Nat
    BY <1>1 DEF Typed
  <2> QED BY <1>1, <1>2, <2>1 DEF Typed
<1>4. GoesOn
  BY ServerStays
<1>5. SaveSound(s)'
  BY <1>2, <1>3, <1>4, SaveGoesOn
<1>6. UidsUnique'
  BY DEF IInv, UidsUnique, Ever
<1>7. HiddenForReason'
  BY <1>2, HiddenGoesOn
<1> QED BY <1>2, <1>3, <1>4, <1>5, <1>6, <1>7, SaveStepKeeps

-----------------------------------------------------------------------------
(* The steps of the page. *)

WindowsGoOn ==
  \A w \in Window : win[w].st # "unused" =>
    win'[w].st # "unused" /\ win[w].text <= win'[w].text

LEMMA PageGoesOn ==
  ASSUME IInv, Typed', WindowsGoOn, texts <= texts', sent => sent',
         UNCHANGED <<box, uidnext, taken>>
  PROVE  GoesOn
<1>1. uidnext \in Int /\ Ever' = Ever /\ \A c \in Ever : c[1] \in Int /\ c[2] \in Int
  BY DEF Ever, IInv, Typed, Uid, Text
<1> QED BY <1>1 DEF GoesOn, WindowsGoOn

LEMMA PromiseGoesOn ==
  ASSUME IInv, \A w \in Window : win'[w].promise \in {win[w].promise, None},
         \A s \in Saver : save'[s] = save[s] \/ save[s].pc \in {"idle", "wait"}
  PROVE  PromiseOwned'
<1> SUFFICES ASSUME NEW w \in Window, win'[w].promise # None
             PROVE  /\ save'[win'[w].promise].win = w
                    /\ save'[win'[w].promise].pc \notin {"idle", "wait"}
  BY DEF PromiseOwned
<1>1. win'[w].promise = win[w].promise /\ win[w].promise \in Saver
  BY DEF IInv, Typed, Component, MaybeSaver
<1> QED BY <1>1 DEF IInv, PromiseOwned

LEMMA OthersGoOn ==
  ASSUME IInv, Typed', GoesOn
  PROVE  /\ \A s \in Saver : save'[s] = save[s] => SaveSound(s)'
         /\ mail' = mail => MailSound'
         /\ acked' = acked => DraftSafe'
<1>1. ASSUME NEW s \in Saver, save'[s] = save[s]
      PROVE  SaveSound(s)'
  <2>1. CASE save[s].pc = "idle"
    BY <1>1, <2>1 DEF SaveSound
  <2>2. CASE save[s].pc # "idle"
    BY <1>1, <2>2, SaveGoesOn
  <2> QED BY <2>1, <2>2
<1>2. ASSUME mail' = mail
      PROVE  MailSound'
  <2>1. CASE mail.pc = "idle"
    BY <1>2, <2>1 DEF MailSound
  <2>2. CASE mail.pc # "idle"
    BY <1>2, <2>2, MailGoesOn DEF IInv, MailSound, GoesOn
  <2> QED BY <2>1, <2>2
<1> QED BY <1>1, <1>2, DraftSafeGoesOn

\* A step of the page that starts or ends no save.
LEMMA WindowStepKeeps ==
  ASSUME IInv, Typed', WindowsGoOn, texts <= texts',
         UNCHANGED <<server, cache, save, mail, acked, sent, taken, abandoned>>,
         \A w \in Window : win'[w].promise \in {win[w].promise, None},
         \A w \in Window : win'[w] = win[w] \/ WindowSound(w)'
  PROVE  IInv'
<1> USE DEF server, cache
<1>1. GoesOn
  BY PageGoesOn
<1>2. \A w \in Window : WindowSound(w)'
  BY <1>1, WindowGoesOn DEF Shown
<1>3. PromiseOwned'
  BY PromiseGoesOn
<1>4. UidsUnique'
  <2>1. /\ Ever' = Ever /\ \A c \in Ever : c[2] \in Int
        /\ texts \in Int /\ texts' \in Int
    BY DEF IInv, Ever, Typed, Text
  <2> QED BY <2>1 DEF IInv, UidsUnique
<1>5. HiddenForReason'
  BY DEF IInv, HiddenForReason
<1> QED BY <1>1, <1>2, <1>3, <1>4, <1>5, OthersGoOn DEF IInv

LEMMA WindowTyped ==
  ASSUME Typed, NEW w \in Window
  PROVE  /\ win[w] \in Component
         /\ win[w].st \in {"unused", "open", "min", "closed"} /\ win[w].alone \in BOOLEAN
         /\ win[w].text \in 0..MaxText /\ win[w].text \in Int
         /\ win[w].src \in MaybeUid /\ win[w].promise \in MaybeSaver
BY DEF Typed, Component, Text

LEMMA OpenWindowKeeps ==
  ASSUME Typed, NEW v \in Window, NEW text \in Text, NEW src \in MaybeUid,
         NEW alone \in BOOLEAN, OpenWindow(v, text, src, alone)
  PROVE  /\ win' \in [Window -> Component] /\ WindowsGoOn
         /\ \A w \in Window : win'[w].promise \in {win[w].promise, None}
         /\ \A w \in Window : w # v => win'[w] = win[w]
         /\ win'[v].text = text /\ win'[v].src = src
<1> DEFINE W == [Unused EXCEPT !.st = "open", !.text = text, !.src = src, !.alone = alone]
<1>1. W \in Component /\ W.text = text /\ W.src = src /\ W.promise = None
  BY DEF Unused, Component, MaybeUid, MaybeSaver
<1>2. win' = [win EXCEPT ![v] = W] /\ win[v].st = "unused"
  BY DEF OpenWindow
<1> HIDE DEF W
<1>3. win'[v] = W /\ \A w \in Window \ {v} : win'[w] = win[w]
  BY <1>2 DEF Typed
<1> QED BY <1>1, <1>2, <1>3, WindowTyped DEF Typed, WindowsGoOn

LEMMA ComposeKeeps ==
  ASSUME IInv, NEW v \in Window, Compose(v)
  PROVE  IInv'
<1> USE DEF Compose, server, cache, history
<1>1. Typed /\ 1 \in Text /\ texts' = 1 /\ texts = 0
  BY DEF IInv, Text
<1>2. /\ win' \in [Window -> Component] /\ WindowsGoOn
      /\ \A w \in Window : win'[w].promise \in {win[w].promise, None}
      /\ \A w \in Window : w # v => win'[w] = win[w]
      /\ win'[v].text = 1 /\ win'[v].src = None
  <2> PICK text \in Text : text = 1
    BY <1>1
  <2>1. OpenWindow(v, text, None, FALSE) /\ None \in MaybeUid
    BY DEF MaybeUid
  <2> QED BY <1>1, <2>1, OpenWindowKeeps
<1>3. Typed'
  BY <1>1, <1>2 DEF Typed
<1>4. WindowSound(v)'
  BY <1>1, <1>2 DEF WindowSound, NoLater
<1> QED BY <1>1, <1>2, <1>3, <1>4, WindowStepKeeps

LEMMA EditDraftKeeps ==
  ASSUME IInv, NEW v \in Window, NEW c \in box, EditDraft(v, c)
  PROVE  IInv'
<1> USE DEF EditDraft, server, cache, counts, history
<1>1. Typed /\ c[1] \in Uid /\ c[2] \in Text /\ c \in Ever
  BY DEF IInv, Typed, Ever
<1>2. /\ win' \in [Window -> Component] /\ WindowsGoOn
      /\ \A w \in Window : win'[w].promise \in {win[w].promise, None}
      /\ \A w \in Window : w # v => win'[w] = win[w]
      /\ win'[v].text = c[2] /\ win'[v].src = c[1]
  <2>1. PICK text \in Text, src \in MaybeUid : text = c[2] /\ src = c[1]
    BY <1>1 DEF MaybeUid
  <2>2. OpenWindow(v, text, src, FALSE)
    BY <2>1
  <2>3. /\ win' \in [Window -> Component] /\ WindowsGoOn
        /\ \A w \in Window : win'[w].promise \in {win[w].promise, None}
        /\ \A w \in Window : w # v => win'[w] = win[w]
        /\ win'[v].text = text /\ win'[v].src = src
    BY <1>1, <2>2, OpenWindowKeeps
  <2> QED BY <2>1, <2>3
<1>3. Typed' /\ texts <= texts'
  BY <1>1, <1>2 DEF Typed
<1>4. WindowSound(v)'
  <2>1. Ever' = Ever /\ c[2] \in Nat /\ c[2] >= 1
    BY <1>1 DEF Ever, Text
  <2>2. c[1] < uidnext /\ c[2] <= texts /\ \A d \in Ever : d[1] = c[1] => d[2] <= c[2]
    BY <1>1, <2>1 DEF IInv, UidsUnique
  <2> QED BY <1>2, <2>1, <2>2 DEF WindowSound, NoLater
<1> QED BY <1>1, <1>2, <1>3, <1>4, WindowStepKeeps

LEMMA TypeKeeps ==
  ASSUME IInv, NEW w \in Window, Type(w)
  PROVE  IInv'
<1> USE DEF Type, server, cache, history
<1>1. Typed /\ texts' = texts + 1 /\ texts' \in Text /\ texts \in Nat /\ WindowSound(w)
  BY DEF IInv, Typed, Text
<1>2. /\ win' \in [Window -> Component]
      /\ \A v \in Window \ {w} : win'[v] = win[v]
      /\ win'[w] = [win[w] EXCEPT !.text = texts']
  BY <1>1, WindowTyped DEF Typed, Component
<1>3. /\ win'[w].st = win[w].st /\ win'[w].text = texts' /\ win'[w].src = win[w].src
      /\ win'[w].promise = win[w].promise
  BY <1>1, <1>2, WindowTyped DEF Component
<1>4. Typed'
  BY <1>1, <1>2 DEF Typed, Text
<1>5. WindowsGoOn
  BY <1>1, <1>2, <1>3, WindowTyped DEF WindowsGoOn, WindowSound
<1>6. WindowSound(w)'
  <2>1. Ever' = Ever /\ \A c \in Ever : c[2] \in Int
    BY <1>1 DEF Ever, Typed, Text
  <2>2. win[w].text \in Int
    BY <1>1, WindowTyped
  <2>3. NoLater(win[w].src, win[w].text)'
    BY <1>1, <1>3, <2>1, <2>2 DEF WindowSound, NoLater
  <2> QED BY <1>1, <1>3, <2>2, <2>3 DEF WindowSound
<1> QED BY <1>1, <1>2, <1>3, <1>4, <1>5, <1>6, WindowStepKeeps

LEMMA PopOutKeeps ==
  ASSUME IInv, NEW w \in Window, NEW v \in Window, PopOut(w, v)
  PROVE  IInv'
<1> USE DEF PopOut, server, cache, counts, history
<1>1. Typed /\ WindowSound(w) /\ v # w
  BY DEF IInv
<1> DEFINE V == [Unused EXCEPT !.st = "open", !.text = win[w].text, !.src = win[w].src,
                              !.alone = TRUE]
<1>2. V \in Component /\ V.text = win[w].text /\ V.src = win[w].src /\ V.promise = None
      /\ V.st = "open"
  BY <1>1, WindowTyped DEF Unused, Component, MaybeSaver, Text
<1>3. /\ win'[v] = V /\ win'[w] = [win[w] EXCEPT !.st = "closed"]
      /\ \A u \in Window \ {v, w} : win'[u] = win[u]
      /\ win' \in [Window -> Component]
  <2> HIDE DEF V
  <2>1. [win[w] EXCEPT !.st = "closed"] \in Component
    BY <1>1, WindowTyped DEF Component
  <2> QED BY <1>1, <1>2, <2>1 DEF Typed, V
<1> HIDE DEF V
<1>4. /\ win'[w].st = "closed" /\ win'[w].text = win[w].text /\ win'[w].src = win[w].src
      /\ win'[w].promise = win[w].promise
  BY <1>1, <1>3, WindowTyped DEF Component
<1>5. Typed' /\ texts <= texts'
  BY <1>1, <1>3 DEF Typed
<1>6. WindowsGoOn
  BY <1>1, <1>2, <1>3, <1>4, WindowTyped DEF WindowsGoOn
<1>7. WindowSound(w)' /\ WindowSound(v)'
  BY <1>1, <1>2, <1>3, <1>4 DEF WindowSound, NoLater, Ever, Shown
<1> QED BY <1>1, <1>2, <1>3, <1>4, <1>5, <1>6, <1>7, WindowStepKeeps

\* Restore and Cancel.
LEMMA RestoreCancelKeeps ==
  ASSUME IInv, NEW w \in Window, Restore(w) \/ Cancel(w)
  PROVE  IInv'
<1>1. Typed /\ WindowSound(w) /\ Shown(w)
  BY DEF IInv, Shown, Restore, Cancel
<1>2. PICK st \in {"open", "closed"} : win' = [win EXCEPT ![w].st = st]
  BY DEF Restore, Cancel
<1>a. UNCHANGED <<server, cache, save, mail, counts, history>>
  BY DEF Restore, Cancel
<1> USE DEF server, cache, counts, history
<1>3. /\ win' \in [Window -> Component]
      /\ \A v \in Window \ {w} : win'[v] = win[v]
      /\ win'[w] = [win[w] EXCEPT !.st = st]
  BY <1>1, <1>2, WindowTyped DEF Typed, Component
<1>4. /\ win'[w].st = st /\ win'[w].text = win[w].text /\ win'[w].src = win[w].src
      /\ win'[w].promise = win[w].promise
  BY <1>1, <1>3, WindowTyped DEF Component
<1>5. Typed' /\ texts <= texts'
  BY <1>1, <1>3, <1>a DEF Typed
<1>6. WindowsGoOn
  <2>1. \A v \in Window : win[v].text \in Int
    BY <1>1, WindowTyped
  <2>2. win'[w].st # "unused" /\ win[w].text <= win'[w].text
    BY <1>4, <2>1
  <2>3. ASSUME NEW v \in Window, win[v].st # "unused", v # w
        PROVE  win'[v].st # "unused" /\ win[v].text <= win'[v].text
    BY <1>3, <2>1, <2>3
  <2> QED BY <2>2, <2>3 DEF WindowsGoOn
<1>7. WindowSound(w)'
  BY <1>1, <1>4, <1>a DEF WindowSound, NoLater, Ever
<1> QED BY <1>a, <1>1, <1>3, <1>4, <1>5, <1>6, <1>7, WindowStepKeeps

-----------------------------------------------------------------------------
(* The sending. *)

LEMMA StepKeeps ==
  ASSUME IInv, Typed', GoesOn, PromiseOwned', UidsUnique', HiddenForReason',
         \A w \in Window : WindowSound(w)',
         \A s \in Saver : save'[s] = save[s] \/ SaveSound(s)',
         mail' = mail \/ MailSound', acked' = acked \/ DraftSafe'
  PROVE  IInv'
BY OthersGoOn DEF IInv

\* What a window holds stays; at most it closes.
WindowsKept ==
  \A w \in Window :
    /\ win'[w].text = win[w].text /\ win'[w].src = win[w].src
    /\ win'[w].promise = win[w].promise
    /\ win[w].st # "unused" => win'[w].st # "unused"
    /\ Shown(w)' => Shown(w)

LEMMA KeptSound ==
  ASSUME IInv, Typed', WindowsKept, UNCHANGED texts, sent => sent',
         UNCHANGED <<box, uidnext, taken>>
  PROVE  /\ GoesOn /\ \A w \in Window : WindowSound(w)'
         /\ \A w \in Window : win'[w].promise \in {win[w].promise, None}
<1>1. \A w \in Window : win[w].text \in Int
  BY WindowTyped DEF IInv
<1>2. WindowsGoOn
  BY <1>1 DEF WindowsGoOn, WindowsKept
<1>3. texts <= texts'
  BY DEF IInv, Typed
<1>4. GoesOn
  BY <1>2, <1>3, PageGoesOn
<1> QED BY <1>4, WindowGoesOn DEF WindowsKept

LEMMA WindowBecomes ==
  ASSUME Typed, NEW w \in Window, NEW W \in Component, win' = [win EXCEPT ![w] = W],
         W.text = win[w].text, W.src = win[w].src, W.promise = win[w].promise,
         W.st = win[w].st \/ (win[w].st # "unused" /\ W.st = "closed")
  PROVE  win' \in [Window -> Component] /\ WindowsKept
<1>1. win'[w] = W /\ \A v \in Window : v # w => win'[v] = win[v]
  BY DEF Typed
<1>2. win' \in [Window -> Component]
  BY DEF Typed
<1>3. ASSUME NEW v \in Window
      PROVE  /\ win'[v].text = win[v].text /\ win'[v].src = win[v].src
             /\ win'[v].promise = win[v].promise
             /\ win[v].st # "unused" => win'[v].st # "unused"
             /\ Shown(v)' => Shown(v)
  <2>1. CASE v = w
    BY <1>1, <2>1 DEF Shown
  <2>2. CASE v # w
    BY <1>1, <2>2 DEF Shown
  <2> QED BY <2>1, <2>2
<1> QED BY <1>2, <1>3 DEF WindowsKept

LEMMA UidsGoOn ==
  ASSUME IInv, UNCHANGED <<box, uidnext, taken, texts>>, hidden' \in SUBSET hidden
  PROVE  UidsUnique'
BY DEF IInv, UidsUnique, Ever

LEMMA SnapshotKeeps ==
  ASSUME IInv, NEW w \in Window, NEW W \in Component, Snapshot(w, W),
         W.text = win[w].text, W.src = win[w].src, W.promise = win[w].promise,
         W.st = win[w].st, Begun(w), mail.pc # "smtp",
         UNCHANGED <<server, cache, save, counts, history>>
  PROVE  IInv'
<1> USE DEF server, cache, counts, history
<1>1. Typed /\ WindowSound(w) /\ W.text \in 0..MaxText /\ W.src \in MaybeUid
  BY DEF IInv, Component, Text
<1>2. PICK V \in Component :
        /\ win' = [win EXCEPT ![w] = V]
        /\ V.text = W.text /\ V.src = W.src /\ V.promise = W.promise
        /\ V.st = W.st \/ V.st = "closed"
  <2> DEFINE C == [W EXCEPT !.st = "closed"]
  <2>1. /\ C \in Component /\ C.text = W.text /\ C.src = W.src /\ C.promise = W.promise
        /\ C.st = "closed"
    BY DEF Component
  <2> HIDE DEF C
  <2>2. win' = [win EXCEPT ![w] = W] \/ win' = [win EXCEPT ![w] = C]
    BY DEF Snapshot, Closed, C
  <2> QED BY <2>1, <2>2
<1>3. win' \in [Window -> Component] /\ WindowsKept
  BY <1>1, <1>2, WindowBecomes DEF Begun
<1>4. /\ mail'.pc \in {"smtp", "tomb"} /\ mail'.win = w /\ mail'.text = W.text
      /\ mail'.src = W.src
  BY DEF Snapshot
<1>5. mail' \in SendCall
  BY <1>1 DEF Snapshot, SendCall, MailPC, MaybeSaver, Text
<1>6. Typed'
  BY <1>1, <1>3, <1>5 DEF Typed
<1>7. GoesOn /\ \A v \in Window : WindowSound(v)'
  BY <1>3, <1>6, KeptSound
<1>8. MailSound'
  <2>1. Begun(w)'
    BY <1>1, <1>6, <1>7, BegunGoesOn
  <2>2. mail'.text >= 1 /\ mail'.text <= texts' /\ NoLater(mail.src, mail.text)'
    BY <1>1, <1>4 DEF Begun, WindowSound, NoLater, Ever
  <2>3. Begun(mail.win)'
    BY <2>1, <1>4 DEF Begun
  <2> QED BY <1>4, <2>2, <2>3 DEF MailSound
<1>9. PromiseOwned' /\ UidsUnique' /\ HiddenForReason'
  <2>1. HiddenForReason'
    BY DEF IInv, HiddenForReason
  <2> QED BY <1>3, <1>6, <2>1, KeptSound, PromiseGoesOn, UidsGoOn
<1> QED BY <1>6, <1>7, <1>8, <1>9, StepKeeps

LEMMA SendKeeps ==
  ASSUME IInv, NEW w \in Window, Send(w)
  PROVE  IInv'
<1> DEFINE W == [win[w] EXCEPT !.sending = TRUE]
<1>1. Typed /\ WindowSound(w)
  BY DEF IInv
<1>2. /\ W \in Component /\ W.text = win[w].text /\ W.src = win[w].src
      /\ W.promise = win[w].promise /\ W.st = win[w].st
  BY <1>1, WindowTyped DEF Component
<1>3. Begun(w)
  BY <1>1 DEF Begun, Send, WindowSound, Shown
<1>4. /\ IF W.promise = None THEN Snapshot(w, W)
         ELSE /\ mail' = [NoSend EXCEPT !.pc = "wait", !.win = w, !.on = W.promise]
              /\ win' = [win EXCEPT ![w] = W]
      /\ mail.pc = "idle"
  BY DEF Send
<1>5. UNCHANGED <<server, cache, save, counts, history>>
  BY DEF Send
<1> HIDE DEF W
<1>6. CASE W.promise = None
  <2>1. Snapshot(w, W) /\ mail.pc # "smtp"
    BY <1>4, <1>6
  <2> QED BY <1>2, <1>3, <1>5, <2>1, SnapshotKeeps
<1>7. CASE W.promise # None
  <2> USE DEF server, cache, counts, history
  <2>1. win' \in [Window -> Component] /\ WindowsKept
    BY <1>1, <1>2, <1>4, <1>7, WindowBecomes
  <2>2. W.promise \in MaybeSaver
    BY <1>2 DEF Component
  <2>3. mail'.pc = "wait" /\ mail'.win = w /\ mail'.text = 0 /\ mail'.src = None
    BY <1>4, <1>7 DEF NoSend
  <2>4. mail' \in SendCall
    BY <1>4, <1>7, <2>2 DEF NoSend, SendCall, MailPC, MaybeUid
  <2>5. Typed'
    BY <1>1, <1>5, <2>1, <2>4 DEF Typed
  <2>6. GoesOn /\ \A v \in Window : WindowSound(v)'
    BY <1>5, <2>1, <2>5, KeptSound
  <2>7. MailSound'
    <3>1. Begun(w)'
      BY <1>1, <1>3, <2>5, <2>6, BegunGoesOn
    <3>2. mail'.text <= texts' /\ NoLater(mail.src, mail.text)'
      BY <2>3, <2>5 DEF NoLater, Typed
    <3>3. Begun(mail.win)'
      BY <3>1, <2>3 DEF Begun
    <3> QED BY <2>3, <3>2, <3>3 DEF MailSound
  <2>8. PromiseOwned' /\ UidsUnique' /\ HiddenForReason'
    <3>1. HiddenForReason'
      BY <1>4, <1>5 DEF IInv, HiddenForReason
    <3> QED BY <1>5, <2>1, <2>5, <3>1, KeptSound, PromiseGoesOn, UidsGoOn
  <2> QED BY <1>5, <2>5, <2>6, <2>7, <2>8, StepKeeps
<1> QED BY <1>6, <1>7

LEMMA ResumeSendKeeps ==
  ASSUME IInv, ResumeSend
  PROVE  IInv'
<1>1. PICK w \in Window : w = mail.win
  BY DEF ResumeSend, IInv, MailSound, Begun
<1>2. Begun(w) /\ win[w] \in Component
  BY <1>1, WindowTyped DEF ResumeSend, IInv, MailSound
<1>3. Snapshot(w, win[w]) /\ mail.pc # "smtp"
  BY <1>1 DEF ResumeSend
<1>4. UNCHANGED <<server, cache, save, counts, history>>
  BY DEF ResumeSend
<1> QED BY <1>2, <1>3, <1>4, SnapshotKeeps

\* The window that a call sends from closes, unless it is of its own.
LEMMA SendingWindow ==
  ASSUME IInv, mail.pc # "idle",
         \/ win' = win
         \/ win' = [win EXCEPT ![mail.win].st = "closed"]
         \/ Closed(mail.win, win[mail.win])
  PROVE  win' \in [Window -> Component] /\ WindowsKept
<1>1. PICK w \in Window : w = mail.win
  BY DEF IInv, MailSound, Begun
<1>2. Typed /\ win[w] \in Component /\ win[w].st # "unused"
  BY <1>1, WindowTyped DEF IInv, MailSound, Begun
<1> DEFINE C == [win[w] EXCEPT !.st = "closed"]
<1>3. /\ C \in Component /\ C.text = win[w].text /\ C.src = win[w].src
      /\ C.promise = win[w].promise /\ C.st = "closed"
  BY <1>2 DEF Component
<1>4. win' = win \/ win' = [win EXCEPT ![w] = C]
  <2>1. [win EXCEPT ![w] = win[w]] = win
    BY <1>2 DEF Typed
  <2> QED BY <1>1, <2>1 DEF Closed
<1> HIDE DEF C
<1>5. CASE win' = win
  BY <1>2, <1>5 DEF WindowsKept, Shown, Typed
<1>6. CASE win' = [win EXCEPT ![w] = C]
  BY <1>2, <1>3, <1>6, WindowBecomes
<1> QED BY <1>4, <1>5, <1>6

LEMMA TombstoneKeeps ==
  ASSUME IInv, TombstoneDraft \/ MarkAgain
  PROVE  IInv'
<1> USE DEF TombstoneDraft, MarkAgain, server, history
<1>1. Typed /\ mail.pc # "idle" /\ mail \in SendCall /\ mail.src \in MaybeUid
  BY DEF IInv, Typed, SendCall
<1>2. PICK pc \in {"smtp", "expunge"} :
        /\ mail' = [mail EXCEPT !.pc = pc] /\ (pc = "expunge" => mail.pc = "mark")
        /\ mail.pc \in {"tomb", "mark"}
  OBVIOUS
<1>3. /\ mail' \in SendCall /\ mail'.pc = pc /\ mail'.win = mail.win
      /\ mail'.text = mail.text /\ mail'.src = mail.src
  BY <1>1, <1>2 DEF SendCall, MailPC
<1>4. win' \in [Window -> Component] /\ WindowsKept
  BY <1>1, SendingWindow
<1>5. /\ rows' \in SUBSET Uid /\ hidden' \in SUBSET rows' /\ fails' \in 0..MaxFails
      /\ hidden' = hidden \/ hidden' = hidden \cup ({mail.src} \ {None})
  BY <1>1, TombstoneTyped DEF Real
<1>6. Typed'
  BY <1>1, <1>3, <1>4, <1>5 DEF Typed
<1>7. GoesOn /\ \A w \in Window : WindowSound(w)'
  BY <1>4, <1>6, KeptSound
<1>8. PromiseOwned'
  BY <1>4, <1>6, KeptSound, PromiseGoesOn
<1>9. UidsUnique'
  <2>1. mail.src # None => mail.src < uidnext
    BY <1>1 DEF IInv, MailSound, NoLater
  <2> QED BY <1>5, <2>1 DEF IInv, UidsUnique, Ever
<1>10. MailSound'
  <2>1. mail.pc = "mark" => sent
    BY <1>1 DEF IInv, MailSound
  <2> QED BY <1>1, <1>2, <1>3, <1>6, <1>7, <2>1, MailGoesOn
<1>11. HiddenForReason'
  <2>1. mail.pc = "mark" => sent
    BY <1>1 DEF IInv, MailSound
  <2> QED BY <1>2, <1>3, <1>5, <2>1 DEF IInv, HiddenForReason
<1> QED BY <1>6, <1>7, <1>8, <1>9, <1>10, <1>11, StepKeeps

LEMMA SendEmailKeeps ==
  ASSUME IInv, SendEmail
  PROVE  IInv'
<1> USE DEF SendEmail, server, cache, counts
<1>1. Typed /\ mail.pc = "smtp" /\ mail \in SendCall /\ sent' = TRUE
  BY DEF IInv, Typed
<1>2. mail' = NoSend \/ mail' = [mail EXCEPT !.pc = "mark"]
  BY DEF Over
<1>3. /\ mail' \in SendCall
      /\ mail'.pc = "idle" \/ (mail'.pc = "mark" /\ mail'.win = mail.win
                               /\ mail'.text = mail.text /\ mail'.src = mail.src)
  BY <1>1, <1>2 DEF SendCall, MailPC, NoSend, MaybeUid, MaybeSaver
<1>4. win' \in [Window -> Component] /\ WindowsKept
  BY <1>1, SendingWindow DEF Over
<1>5. Typed'
  BY <1>1, <1>3, <1>4 DEF Typed
<1>6. GoesOn /\ \A w \in Window : WindowSound(w)'
  BY <1>1, <1>4, <1>5, KeptSound
<1>7. PromiseOwned' /\ UidsUnique' /\ HiddenForReason'
  <2>1. HiddenForReason'
    BY <1>1 DEF HiddenForReason
  <2> QED BY <1>1, <1>4, <1>5, <2>1, KeptSound, PromiseGoesOn, UidsGoOn
<1>8. MailSound'
  <2>1. CASE mail'.pc = "idle"
    BY <2>1 DEF MailSound
  <2>2. CASE mail'.pc = "mark"
    BY <1>1, <1>3, <1>5, <1>6, <2>2, MailGoesOn
  <2> QED BY <1>3, <2>1, <2>2
<1> QED BY <1>5, <1>6, <1>7, <1>8, StepKeeps

LEMMA SendEmailFailsKeeps ==
  ASSUME IInv, NEW v \in Window, SendEmailFails(v)
  PROVE  IInv'
<1> USE DEF server, cache
<1>1. /\ Typed /\ mail.pc = "smtp" /\ mail \in SendCall /\ mail.src \in MaybeUid
      /\ Spend("fail") /\ mail' = NoSend /\ abandoned' = abandoned \cup Real(mail.src)
      /\ UNCHANGED <<server, cache, save, texts, acked, sent, taken, stray>>
  BY DEF IInv, Typed, SendCall, SendEmailFails
<1>2. PICK w \in Window : w = mail.win
  BY <1>1 DEF IInv, MailSound, Begun
<1>3. mail.text \in Text /\ mail.text <= texts /\ NoLater(mail.src, mail.text)
  BY <1>1 DEF IInv, MailSound, SendCall, Text
<1>4. /\ win' \in [Window -> Component] /\ WindowsGoOn
      /\ \A u \in Window : win'[u].promise \in {win[u].promise, None}
      /\ \A u \in Window : u # v => win'[u] = win[u]
      /\ \/ win'[v].text = win[v].text /\ win'[v].src = win[v].src /\ win'[v].st = win[v].st
         \/ win'[v].text = mail.text /\ win'[v].src = mail.src
  <2>1. CASE win[w].alone
    <3> DEFINE W == [win[v] EXCEPT !.sending = FALSE]
    <3>1. win' = [win EXCEPT ![v] = W]
      BY <1>2, <2>1 DEF SendEmailFails
    <3>2. /\ W \in Component /\ W.text = win[v].text /\ W.src = win[v].src
          /\ W.promise = win[v].promise /\ W.st = win[v].st
      BY <1>1, WindowTyped DEF Component
    <3> HIDE DEF W
    <3>3. win' \in [Window -> Component] /\ WindowsKept
      BY <1>1, <3>1, <3>2, WindowBecomes
    <3>4. win'[v] = W /\ \A u \in Window : u # v => win'[u] = win[u]
      BY <1>1, <3>1 DEF Typed
    <3>5. \A u \in Window : win[u].text \in Int
      BY <1>1, WindowTyped
    <3>6. WindowsGoOn
      BY <3>3, <3>5 DEF WindowsKept, WindowsGoOn
    <3>7. \A u \in Window : win'[u].promise \in {win[u].promise, None}
      BY <3>3 DEF WindowsKept
    <3> QED BY <3>2, <3>3, <3>4, <3>6, <3>7
  <2>2. CASE ~ win[w].alone
    <3>1. PICK text \in Text, src \in MaybeUid : text = mail.text /\ src = mail.src
      BY <1>1, <1>3
    <3>2. OpenWindow(v, text, src, FALSE)
      BY <1>2, <2>2, <3>1 DEF SendEmailFails
    <3>3. /\ win' \in [Window -> Component] /\ WindowsGoOn
          /\ \A u \in Window : win'[u].promise \in {win[u].promise, None}
          /\ \A u \in Window : u # v => win'[u] = win[u]
          /\ win'[v].text = text /\ win'[v].src = src
      BY <1>1, <3>2, OpenWindowKeeps
    <3> QED BY <3>1, <3>3
  <2> QED BY <2>1, <2>2
<1>5. Typed'
  <2>1. fails' \in 0..MaxFails
    BY <1>1 DEF Spend, Typed
  <2>2. mail' \in SendCall
    BY <1>1 DEF NoSend, SendCall, MailPC, MaybeUid, MaybeSaver
  <2>3. abandoned' \in SUBSET Uid
    BY <1>1 DEF Typed, Real, MaybeUid
  <2> QED BY <1>1, <1>4, <2>1, <2>2, <2>3 DEF Typed
<1>6. GoesOn
  <2>1. texts <= texts'
    BY <1>1 DEF Typed
  <2> QED BY <1>1, <1>4, <1>5, <2>1, PageGoesOn
<1>7. \A u \in Window : WindowSound(u)'
  <2>1. ASSUME NEW u \in Window, win'[u].text = win[u].text, win'[u].src = win[u].src,
               win'[u].st = win[u].st
        PROVE  WindowSound(u)'
    BY <1>5, <1>6, <2>1, WindowGoesOn DEF Shown
  <2>2. ASSUME win'[v].text = mail.text, win'[v].src = mail.src
        PROVE  WindowSound(v)'
    BY <1>1, <1>3, <2>2 DEF WindowSound, NoLater, Ever, Text
  <2> QED BY <1>4, <2>1, <2>2
<1>8. MailSound'
  BY <1>1 DEF MailSound, NoSend
<1>9. HiddenForReason'
  BY <1>1, NoneIsNoUid DEF IInv, HiddenForReason, Real, Typed
<1>10. PromiseOwned' /\ UidsUnique'
  BY <1>1, <1>4, PromiseGoesOn, UidsGoOn
<1> QED BY <1>1, <1>5, <1>6, <1>7, <1>8, <1>9, <1>10, StepKeeps

LEMMA ExpungeKeeps ==
  ASSUME IInv, ExpungeDraft \/ ExpungeFails
  PROVE  IInv'
<1> USE DEF ExpungeDraft, ExpungeFails, Over, Spend, server, cache, counts, history
<1>1. Typed /\ UidsUnique /\ mail.pc # "idle" /\ sent /\ sent'
  BY DEF IInv, MailSound
<1>2. win' \in [Window -> Component] /\ WindowsKept
  BY <1>1, SendingWindow
<1>3. box' \in SUBSET box /\ Ever' \in SUBSET Ever /\ UNCHANGED <<uidnext, texts, taken>>
  BY DEF Ever
<1>4. Typed'
  <2>1. fails' \in 0..MaxFails /\ stray' \in Nat
    BY <1>1 DEF Typed
  <2>2. mail' \in SendCall
    BY DEF NoSend, SendCall, MailPC, MaybeUid, MaybeSaver
  <2> QED BY <1>1, <1>2, <1>3, <2>1, <2>2 DEF Typed
<1>5. GoesOn
  <2>1. \A w \in Window : win[w].text \in Int
    BY <1>1, WindowTyped
  <2>2. WindowsGoOn
    BY <1>2, <2>1 DEF WindowsKept, WindowsGoOn
  <2>3. uidnext <= uidnext' /\ texts <= texts'
    BY <1>1, <1>3 DEF Typed
  <2> QED BY <1>1, <1>3, <2>2, <2>3 DEF GoesOn, WindowsGoOn
<1>6. \A w \in Window : WindowSound(w)'
  BY <1>2, <1>4, <1>5, WindowGoesOn DEF WindowsKept
<1>7. UidsUnique'
  BY <1>1, <1>3 DEF UidsUnique
<1>8. PromiseOwned'
  <2>1. \A w \in Window : win'[w].promise \in {win[w].promise, None}
    BY <1>2 DEF WindowsKept
  <2> QED BY <2>1, PromiseGoesOn
<1>9. MailSound' /\ HiddenForReason'
  BY <1>1 DEF MailSound, NoSend, HiddenForReason
<1> QED BY <1>4, <1>5, <1>6, <1>7, <1>8, <1>9, StepKeeps

LEMMA WindowsStay ==
  ASSUME IInv, Typed', GoesOn, UNCHANGED win
  PROVE  \A w \in Window : WindowSound(w)'
BY WindowGoesOn DEF Shown

LEMMA PollKeeps ==
  ASSUME IInv, Poll
  PROVE  IInv'
<1> USE DEF Poll, server, counts, history
<1>1. Typed
  BY DEF IInv
<1>2. rows' \in SUBSET Uid /\ hidden' \in SUBSET rows' /\ hidden' \in SUBSET hidden
  BY <1>1 DEF Typed, Copies
<1>3. Typed'
  BY <1>1, <1>2 DEF Typed
<1>4. GoesOn
  BY ServerStays
<1>5. PromiseOwned' /\ UidsUnique'
  BY <1>2, PromiseGoesOn, UidsGoOn
<1>6. HiddenForReason'
  BY <1>2 DEF IInv, HiddenForReason
<1> QED BY <1>3, <1>4, <1>5, <1>6, WindowsStay, StepKeeps

LEMMA OtherDeletesKeeps ==
  ASSUME IInv, NEW c \in box, OtherDeletes(c)
  PROVE  IInv'
<1> USE DEF OtherDeletes, Spend, cache
<1>1. Typed /\ Ever' = Ever
  BY DEF IInv, Ever
<1>2. Typed'
  <2>1. fails' \in 0..MaxFails
    BY <1>1 DEF Typed
  <2>2. box' \in SUBSET (Uid \X Text) /\ taken' \in SUBSET (Uid \X Text)
    BY <1>1 DEF Typed
  <2> QED BY <1>1, <2>1, <2>2 DEF Typed
<1>3. GoesOn
  <2>1. /\ \A d \in Ever : d[1] \in Int /\ d[2] \in Int
        /\ uidnext <= uidnext' /\ texts <= texts'
        /\ \A w \in Window : win[w].text <= win'[w].text
    BY <1>1, WindowTyped DEF Typed, Ever, Uid, Text
  <2>2. sent => sent'
    OBVIOUS
  <2> QED BY <1>1, <2>1, <2>2 DEF GoesOn
<1>4. UidsUnique'
  BY <1>1 DEF IInv, UidsUnique
<1>5. PromiseOwned'
  BY PromiseGoesOn
<1>6. HiddenForReason'
  BY DEF IInv, HiddenForReason
<1> QED BY <1>2, <1>3, <1>4, <1>5, <1>6, WindowsStay, StepKeeps

-----------------------------------------------------------------------------
(* The saves of the page. *)

\* A call begins with the window's text and pointer of the moment.
LEMMA InnerKeeps ==
  ASSUME IInv, NEW s \in Saver, NEW w \in Window, NEW W \in Component,
         NEW kind \in {"draft", "mini"}, Inner(s, w, kind, W), Begun(w),
         W.text = win[w].text, W.src = win[w].src,
         W.st # "unused", W.st \in {"open", "min"} => Shown(w),
         save[s].pc = "idle" \/ (save[s].pc = "woken" /\ save[s].win = w),
         UNCHANGED <<server, cache, mail, counts, history>>
  PROVE  IInv'
<1> USE DEF server, cache, counts, history
<1>1. Typed /\ WindowSound(w) /\ W.text \in 0..MaxText /\ W.src \in MaybeUid
  BY DEF IInv, Component, Text
<1> DEFINE V == [W EXCEPT !.promise = s]
<1>2. /\ V \in Component /\ V.text = win[w].text /\ V.src = win[w].src
      /\ V.promise = s /\ V.st = W.st
  BY DEF Component, MaybeSaver
<1> DEFINE S == [pc |-> "mark", win |-> w, kind |-> kind, on |-> None,
                 text |-> W.text, src |-> W.src, new |-> None]
<1>3. S \in SaveCall
  BY <1>1 DEF SaveCall, SavePC, MaybeUid, MaybeSaver, Text
<1>4. save' = [save EXCEPT ![s] = S] /\ win' = [win EXCEPT ![w] = V]
  BY DEF Inner
<1>5. /\ S.pc = "mark" /\ S.win = w /\ S.text = win[w].text /\ S.src = win[w].src
      /\ S.new = None
  OBVIOUS
<1> HIDE DEF V, S
<1>6. /\ save' \in [Saver -> SaveCall] /\ save'[s] = S
      /\ \A t \in Saver : t # s => save'[t] = save[t]
      /\ win' \in [Window -> Component] /\ win'[w] = V
      /\ \A v \in Window : v # w => win'[v] = win[v]
  BY <1>1, <1>2, <1>3, <1>4 DEF Typed
<1>7. Typed'
  BY <1>1, <1>6 DEF Typed
<1>8. WindowsGoOn
  <2>1. \A v \in Window : win[v].text \in Int
    BY <1>1, WindowTyped
  <2> QED BY <1>2, <1>6, <2>1 DEF WindowsGoOn
<1>9. GoesOn
  <2>1. texts <= texts'
    BY <1>1 DEF Typed
  <2> QED BY <1>7, <1>8, <2>1, PageGoesOn
<1>10. \A v \in Window : WindowSound(v)'
  <2>1. Shown(w)' => Shown(w)
    BY <1>2, <1>6 DEF Shown
  <2> QED BY <1>2, <1>6, <1>7, <1>9, <2>1, WindowGoesOn DEF Shown
<1>11. SaveSound(s)'
  <2>1. Begun(w)'
    BY <1>1, <1>7, <1>9, BegunGoesOn
  <2>2. Begun(save[s].win)'
    BY <1>5, <1>6, <2>1 DEF Begun
  <2>3. NoLater(save[s].src, save[s].text)' /\ NoLater(save[s].new, save[s].text)'
    BY <1>1, <1>5, <1>6 DEF WindowSound, NoLater, Ever
  <2>4. save'[s].text <= win'[w].text /\ save'[s].text >= 1
    BY <1>1, <1>2, <1>5, <1>6 DEF Begun
  <2> QED BY <1>5, <1>6, <2>2, <2>3, <2>4 DEF SaveSound
<1>12. PromiseOwned'
  <2> SUFFICES ASSUME NEW v \in Window, win'[v].promise # None
               PROVE  /\ save'[win'[v].promise].win = v
                      /\ save'[win'[v].promise].pc \notin {"idle", "wait"}
    BY DEF PromiseOwned
  <2>1. CASE v = w
    BY <1>2, <1>5, <1>6, <2>1
  <2>2. CASE v # w
    <3>1. /\ win'[v].promise = win[v].promise /\ win[v].promise \in Saver
          /\ save[win[v].promise].win = v /\ save[win[v].promise].pc \notin {"idle", "wait"}
      BY <1>1, <1>6, <2>2, WindowTyped DEF IInv, PromiseOwned, MaybeSaver
    <3> QED BY <1>6, <2>2, <3>1
  <2> QED BY <2>1, <2>2
<1>13. UidsUnique'
  BY UidsGoOn
<1>14. HiddenForReason'
  BY <1>6 DEF IInv, HiddenForReason
<1> QED BY <1>6, <1>7, <1>9, <1>10, <1>11, <1>12, <1>13, <1>14, StepKeeps

LEMMA PersistKeeps ==
  ASSUME IInv, NEW s \in Saver, NEW w \in Window, NEW W \in Component,
         NEW kind \in {"draft", "mini"}, Persist(s, w, kind, W),
         win[w].st = "open", W.st \in {"open", "min"},
         W.text = win[w].text, W.src = win[w].src, W.promise = win[w].promise,
         UNCHANGED <<server, cache, mail, counts, history>>
  PROVE  IInv'
<1> USE DEF server, cache, counts, history
<1>1. Typed /\ WindowSound(w) /\ Shown(w) /\ Begun(w) /\ save[s].pc = "idle"
  BY DEF IInv, WindowSound, Shown, Begun, Persist
<1>2. CASE W.promise = None
  <2>1. Inner(s, w, kind, W)
    BY <1>2 DEF Persist
  <2> QED BY <1>1, <2>1, InnerKeeps
<1>3. CASE W.promise # None
  <2> DEFINE S == [NoSave EXCEPT !.pc = "wait", !.win = w, !.kind = kind, !.on = W.promise]
  <2>1. S \in SaveCall /\ S.pc = "wait" /\ S.win = w /\ S.text = 0 /\ S.src = None
        /\ S.new = None
    BY DEF NoSave, SaveCall, SavePC, MaybeUid, Component
  <2>2. save' = [save EXCEPT ![s] = S] /\ win' = [win EXCEPT ![w] = W]
    BY <1>3 DEF Persist
  <2> HIDE DEF S
  <2>3. /\ save' \in [Saver -> SaveCall] /\ save'[s] = S
        /\ \A t \in Saver : t # s => save'[t] = save[t]
        /\ win' \in [Window -> Component] /\ win'[w] = W
        /\ \A v \in Window : v # w => win'[v] = win[v]
    BY <1>1, <2>1, <2>2 DEF Typed
  <2>4. Typed'
    BY <1>1, <2>3 DEF Typed
  <2>5. WindowsKept
    <3>1. ASSUME NEW v \in Window, v # w
          PROVE  /\ win'[v].text = win[v].text /\ win'[v].src = win[v].src
                 /\ win'[v].promise = win[v].promise
                 /\ win[v].st # "unused" => win'[v].st # "unused"
                 /\ Shown(v)' => Shown(v)
      BY <2>3, <3>1 DEF Shown
    <3> QED BY <1>1, <2>3, <3>1 DEF WindowsKept, Shown
  <2>6. GoesOn /\ \A v \in Window : WindowSound(v)'
    BY <2>4, <2>5, KeptSound
  <2>7. SaveSound(s)'
    <3>1. Begun(w)'
      BY <1>1, <2>4, <2>6, BegunGoesOn
    <3>2. Begun(save[s].win)'
      BY <2>1, <2>3, <3>1 DEF Begun
    <3>3. NoLater(save[s].src, save[s].text)' /\ NoLater(save[s].new, save[s].text)'
      BY <2>1, <2>3 DEF NoLater
    <3>4. 0 <= win'[w].text
      BY <1>1, <2>4, WindowTyped DEF Typed, Component, Text
    <3> QED BY <2>1, <2>3, <3>2, <3>3, <3>4 DEF SaveSound
  <2>8. PromiseOwned' /\ UidsUnique'
    BY <1>1, <2>3, <2>4, <2>5, KeptSound, PromiseGoesOn, UidsGoOn
  <2>9. HiddenForReason'
    BY <1>1, <2>3 DEF IInv, HiddenForReason
  <2> QED BY <2>3, <2>4, <2>6, <2>7, <2>8, <2>9, StepKeeps
<1> QED BY <1>2, <1>3

LEMMA SaveButtonsKeep ==
  ASSUME IInv, NEW w \in Window, NEW s \in Saver, SaveDraft(w, s) \/ MinimizeAndSave(w, s)
  PROVE  IInv'
<1>1. Typed /\ win[w] \in Component
  BY WindowTyped DEF IInv
<1>2. CASE SaveDraft(w, s)
  <2> DEFINE W == [win[w] EXCEPT !.sending = TRUE]
  <2>1. /\ W \in Component /\ W.text = win[w].text /\ W.src = win[w].src
        /\ W.promise = win[w].promise /\ W.st = win[w].st
    BY <1>1 DEF Component
  <2>2. /\ Persist(s, w, "draft", W) /\ win[w].st = "open"
        /\ UNCHANGED <<server, cache, mail, counts, history>>
    BY <1>2 DEF SaveDraft
  <2> HIDE DEF W
  <2> QED BY <2>1, <2>2, PersistKeeps
<1>3. CASE MinimizeAndSave(w, s)
  <2> DEFINE W == [win[w] EXCEPT !.st = "min"]
  <2>1. /\ W \in Component /\ W.text = win[w].text /\ W.src = win[w].src
        /\ W.promise = win[w].promise /\ W.st = "min"
    BY <1>1 DEF Component
  <2>2. /\ Persist(s, w, "mini", W) /\ win[w].st = "open"
        /\ UNCHANGED <<server, cache, mail, counts, history>>
    BY <1>3 DEF MinimizeAndSave
  <2> HIDE DEF W
  <2> QED BY <2>1, <2>2, PersistKeeps
<1> QED BY <1>2, <1>3

LEMMA ResumeKeeps ==
  ASSUME IInv, NEW s \in Saver, Resume(s)
  PROVE  IInv'
<1>1. PICK w \in Window : w = save[s].win
  BY DEF Resume, IInv, SaveSound, Begun
<1>2. Begun(w) /\ win[w] \in Component /\ save[s].pc = "woken"
  BY <1>1, WindowTyped DEF Resume, IInv, SaveSound
<1>3. PICK kind \in {"draft", "mini"} : kind = save[s].kind
  BY DEF IInv, Typed, SaveCall
<1>4. Inner(s, w, kind, win[w]) /\ UNCHANGED <<server, cache, mail, counts, history>>
  BY <1>1, <1>3 DEF Resume
<1>5. win[w].st # "unused" /\ (win[w].st \in {"open", "min"} => Shown(w))
  BY <1>2 DEF Begun, Shown
<1> QED BY <1>1, <1>2, <1>4, <1>5, InnerKeeps

\* The sending goes on, or stands where it stood.
LEMMA MailWakes ==
  ASSUME IInv, Typed', GoesOn, NEW s \in Saver,
         mail' = IF mail.pc = "wait" /\ mail.on = s THEN [mail EXCEPT !.pc = "woken"] ELSE mail
  PROVE  MailSound'
<1>1. CASE mail' = mail
  BY <1>1, OthersGoOn
<1>2. CASE mail.pc = "wait" /\ mail' = [mail EXCEPT !.pc = "woken"]
  <2>1. /\ mail'.pc = "woken" /\ mail'.win = mail.win /\ mail'.text = mail.text
        /\ mail'.src = mail.src
    BY <1>2 DEF IInv, Typed, SendCall
  <2> QED BY <1>2, <2>1, MailGoesOn
<1> QED BY <1>1, <1>2

LEMMA MailWakesTyped ==
  ASSUME Typed, NEW s \in Saver,
         mail' = IF mail.pc = "wait" /\ mail.on = s THEN [mail EXCEPT !.pc = "woken"] ELSE mail
  PROVE  mail' \in SendCall /\ (mail.pc = "smtp" => mail' = mail)
BY DEF Typed, SendCall, MailPC

\* The windows and the saves when the save s of the window w is over.
LEMMA OverKeeps ==
  ASSUME IInv, NEW s \in Saver, NEW w \in Window, NEW W \in Component,
         w = save[s].win, save[s].pc \in {"ok", "failed"},
         win' = [win EXCEPT ![w] = W], W.text = win[w].text, W.promise = None,
         W.st = win[w].st \/ W.st = "closed",
         NoLater(W.src, W.text),
         save' \in [Saver -> SaveCall],
         save'[s].pc = "idle",
         \A t \in Saver : \/ save'[t].pc = "idle" /\ save[t].pc \in {"ok", "failed", "wait"}
                             /\ (save[t].pc # "wait" => t = s)
                          \/ save'[t] = save[t]
                          \/ /\ save[t].pc = "wait" /\ save'[t].pc = "woken"
                             /\ save'[t].win = save[t].win /\ save'[t].text = save[t].text
                             /\ save'[t].src = save[t].src /\ save'[t].new = save[t].new,
         mail' = IF mail.pc = "wait" /\ mail.on = s THEN [mail EXCEPT !.pc = "woken"] ELSE mail,
         acked' \in 0..MaxText, acked' = acked \/ (sent \/ \E c \in Ever : c[2] >= acked'),
         UNCHANGED <<server, cache, counts, sent, taken, stray, abandoned>>
  PROVE  IInv'
<1> USE DEF server, cache, counts
<1>1. Typed /\ WindowSound(w) /\ SaveSound(s) /\ Begun(w)
  BY DEF IInv, SaveSound
<1>2. /\ win' \in [Window -> Component] /\ win'[w] = W
      /\ \A v \in Window : v # w => win'[v] = win[v]
  BY <1>1 DEF Typed
<1>3. Typed'
  BY <1>1, <1>2, MailWakesTyped DEF Typed
<1>4. WindowsGoOn
  <2>1. \A v \in Window : win[v].text \in Int
    BY <1>1, WindowTyped
  <2> QED BY <1>1, <1>2, <2>1 DEF WindowsGoOn, Begun
<1>5. GoesOn
  <2>1. texts <= texts'
    BY <1>1 DEF Typed
  <2> QED BY <1>3, <1>4, <2>1, PageGoesOn
<1>6. \A v \in Window : WindowSound(v)'
  <2>1. WindowSound(w)'
    BY <1>1, <1>2 DEF WindowSound, NoLater, Ever, Begun
  <2> QED BY <1>2, <1>3, <1>5, <2>1, WindowGoesOn DEF Shown
<1>7. \A t \in Saver : save'[t] = save[t] \/ SaveSound(t)'
  <2> SUFFICES ASSUME NEW t \in Saver, save'[t] # save[t]
               PROVE  SaveSound(t)'
    OBVIOUS
  <2>1. CASE save'[t].pc = "idle"
    BY <2>1 DEF SaveSound
  <2>2. CASE save[t].pc = "wait" /\ save'[t].pc = "woken"
    BY <1>3, <1>5, <2>2, SaveGoesOn
  <2> QED BY <2>1, <2>2
<1>8. PromiseOwned'
  <2> SUFFICES ASSUME NEW v \in Window, win'[v].promise # None
               PROVE  /\ save'[win'[v].promise].win = v
                      /\ save'[win'[v].promise].pc \notin {"idle", "wait"}
    BY DEF PromiseOwned
  <2>1. v # w /\ win'[v] = win[v]
    BY <1>2
  <2>2. PICK p \in Saver : p = win[v].promise
    BY <1>1, <2>1, WindowTyped DEF MaybeSaver
  <2>3. save[p].win = v /\ save[p].pc \notin {"idle", "wait"} /\ p # s
    BY <2>1, <2>2 DEF IInv, PromiseOwned
  <2> QED BY <2>1, <2>2, <2>3
<1>9. UidsUnique'
  BY UidsGoOn
<1>10. HiddenForReason'
  BY <1>1, MailWakesTyped DEF IInv, HiddenForReason
<1>11. MailSound'
  BY <1>3, <1>5, MailWakes
<1>12. acked' = acked \/ DraftSafe'
  BY DEF DraftSafe, Ever
<1> QED BY <1>3, <1>5, <1>6, <1>7, <1>8, <1>9, <1>10, <1>11, <1>12, StepKeeps

LEMMA SavedKeeps ==
  ASSUME IInv, NEW s \in Saver, Saved(s)
  PROVE  IInv'
<1>1. Typed /\ save[s] \in SaveCall /\ SaveSound(s) /\ save[s].pc = "ok"
  BY DEF IInv, Typed, Saved
<1>2. PICK w \in Window : w = save[s].win
  BY <1>1 DEF SaveSound, Begun
<1>3. PICK new \in MaybeUid : new = save[s].new
  BY <1>1 DEF SaveCall
<1>4. PICK text \in Nat : text = save[s].text
  BY <1>1 DEF SaveCall, Text
<1> DEFINE M == [win[w] EXCEPT !.src = new, !.promise = None]
           C == [M EXCEPT !.st = "closed", !.sending = FALSE]
<1>5. M \in Component /\ M.text = win[w].text /\ M.src = new /\ M.promise = None
      /\ M.st = win[w].st
  BY <1>1, WindowTyped DEF Component, MaybeSaver
<1>6. C \in Component /\ C.text = win[w].text /\ C.src = new /\ C.promise = None
      /\ C.st = "closed"
  BY <1>1, WindowTyped DEF Component, MaybeSaver
<1>7. win' = [win EXCEPT ![w] = M] \/ win' = [win EXCEPT ![w] = C]
  BY <1>2, <1>3 DEF Saved
<1> HIDE DEF M, C
<1>8. PICK W \in Component :
        /\ win' = [win EXCEPT ![w] = W] /\ W.text = win[w].text /\ W.src = new
        /\ W.promise = None /\ (W.st = win[w].st \/ W.st = "closed")
  BY <1>5, <1>6, <1>7
<1>9. NoLater(W.src, W.text)
  <2>1. /\ text <= win[w].text /\ win[w].text \in Int
        /\ \A c \in Ever : c[2] \in Int
    BY <1>1, <1>2, <1>4, WindowTyped DEF SaveSound, Typed, Ever, Text
  <2>2. NoLater(new, text)
    BY <1>1, <1>3, <1>4 DEF SaveSound
  <2> QED BY <1>8, <2>1, <2>2 DEF NoLater
<1>10. /\ save' = [t \in Saver |-> IF t = s THEN NoSave
                                   ELSE IF t \in Waiting(s) THEN [save[t] EXCEPT !.pc = "woken"]
                                   ELSE save[t]]
  BY DEF Saved
<1>11. NoSave \in SaveCall /\ NoSave.pc = "idle"
  BY DEF NoSave, SaveCall, SavePC, MaybeUid, MaybeSaver
<1>12. \A t \in Waiting(s) :
         /\ [save[t] EXCEPT !.pc = "woken"] \in SaveCall
         /\ [save[t] EXCEPT !.pc = "woken"].pc = "woken"
         /\ [save[t] EXCEPT !.pc = "woken"].win = save[t].win
         /\ [save[t] EXCEPT !.pc = "woken"].text = save[t].text
         /\ [save[t] EXCEPT !.pc = "woken"].src = save[t].src
         /\ [save[t] EXCEPT !.pc = "woken"].new = save[t].new
         /\ save[t].pc = "wait"
  BY <1>1 DEF Waiting, Typed, SaveCall, SavePC
<1>13. save' \in [Saver -> SaveCall] /\ save'[s].pc = "idle"
  <2>1. \A t \in Saver : save'[t] \in SaveCall
    BY <1>1, <1>10, <1>11, <1>12 DEF Typed
  <2> QED BY <1>10, <1>11, <2>1
<1>14. ASSUME NEW t \in Saver
       PROVE  \/ save'[t].pc = "idle" /\ save[t].pc \in {"ok", "failed", "wait"}
                 /\ (save[t].pc # "wait" => t = s)
              \/ save'[t] = save[t]
              \/ /\ save[t].pc = "wait" /\ save'[t].pc = "woken"
                 /\ save'[t].win = save[t].win /\ save'[t].text = save[t].text
                 /\ save'[t].src = save[t].src /\ save'[t].new = save[t].new
  BY <1>1, <1>10, <1>12, <1>13
<1>15. acked' \in 0..MaxText /\ (acked' = acked \/ (sent \/ \E c \in Ever : c[2] >= acked'))
  <2>1. acked' = text \/ acked' = acked
    BY <1>4 DEF Saved
  <2>2. text \in 0..MaxText /\ acked \in 0..MaxText
    BY <1>1, <1>4 DEF SaveCall, Text, Typed
  <2>3. sent \/ \E c \in Ever : c[2] >= text
    BY <1>1, <1>4 DEF SaveSound, Stored
  <2> QED BY <2>1, <2>2, <2>3
<1>16. /\ mail' = IF mail.pc = "wait" /\ mail.on = s THEN [mail EXCEPT !.pc = "woken"] ELSE mail
       /\ UNCHANGED <<server, cache, counts, sent, taken, stray, abandoned>>
  BY DEF Saved
<1> QED BY <1>1, <1>2, <1>8, <1>9, <1>13, <1>14, <1>15, <1>16, OverKeeps

LEMMA SaveThrewKeeps ==
  ASSUME IInv, NEW s \in Saver, SaveThrew(s)
  PROVE  IInv'
<1>1. Typed /\ save[s] \in SaveCall /\ SaveSound(s) /\ save[s].pc = "failed"
  BY DEF IInv, Typed, SaveThrew
<1>2. PICK w \in Window : w = save[s].win
  BY <1>1 DEF SaveSound, Begun
<1>a. PICK b \in BOOLEAN : b = StillSending(save[s].win, {s} \cup Waiting(s))
  BY DEF StillSending
<1> DEFINE W == [win[w] EXCEPT !.promise = None, !.sending = b]
<1>3. win' = [win EXCEPT ![w] = W]
  BY <1>2, <1>a DEF SaveThrew
<1>4. W \in Component /\ W.text = win[w].text /\ W.src = win[w].src /\ W.promise = None
      /\ W.st = win[w].st
  BY <1>1, WindowTyped DEF Component, MaybeSaver
<1> HIDE DEF W
<1>5. NoLater(W.src, W.text)
  BY <1>4 DEF IInv, WindowSound, NoLater
<1>6. save' = [t \in Saver |-> IF t \in {s} \cup Waiting(s) THEN NoSave ELSE save[t]]
  BY DEF SaveThrew
<1>7. NoSave \in SaveCall /\ NoSave.pc = "idle"
  BY DEF NoSave, SaveCall, SavePC, MaybeUid, MaybeSaver
<1>8. save' \in [Saver -> SaveCall] /\ save'[s].pc = "idle"
  <2>1. \A t \in Saver : save'[t] \in SaveCall
    BY <1>1, <1>6, <1>7 DEF Typed
  <2> QED BY <1>6, <1>7, <2>1
<1>9. ASSUME NEW t \in Saver
      PROVE  \/ save'[t].pc = "idle" /\ save[t].pc \in {"ok", "failed", "wait"}
                /\ (save[t].pc # "wait" => t = s)
             \/ save'[t] = save[t]
  BY <1>1, <1>6, <1>7 DEF Waiting
<1>10. acked' \in 0..MaxText /\ acked' = acked
  BY <1>1 DEF SaveThrew, history, Typed
<1>11. /\ mail' = IF mail.pc = "wait" /\ mail.on = s THEN [mail EXCEPT !.pc = "woken"] ELSE mail
       /\ UNCHANGED <<server, cache, counts, sent, taken, stray, abandoned>>
  BY DEF SaveThrew, history
<1> QED BY <1>1, <1>2, <1>3, <1>4, <1>5, <1>8, <1>9, <1>10, <1>11, OverKeeps

-----------------------------------------------------------------------------
(* A crash. *)

LEMMA CrashKeeps ==
  ASSUME IInv, Crash
  PROVE  IInv'
<1> USE DEF Crash, server
<1>1. Typed /\ Ever' = Ever
  BY DEF IInv, Ever
<1> DEFINE C == [Unused EXCEPT !.st = "closed"]
<1>2. /\ C \in Component /\ C.st = "closed" /\ C.text = 0 /\ C.src = None
      /\ C.promise = None
  BY DEF Unused, Component, MaybeUid, MaybeSaver
<1>3. win' = [w \in Window |-> IF win[w].st = "unused" THEN win[w] ELSE C]
  OBVIOUS
<1> HIDE DEF C
<1>4. NoSave \in SaveCall /\ NoSave.pc = "idle" /\ NoSend \in SendCall /\ NoSend.pc = "idle"
  BY DEF NoSave, SaveCall, SavePC, MaybeUid, MaybeSaver, NoSend, SendCall, MailPC
<1>5. stray' \in Nat
  <2> DEFINE D == {s \in Saver : save[s].pc = "delete"}
  <2>1. IsFiniteSet(D)
    BY FS_Subset
  <2>2. Cardinality(D) \in Nat
    BY <2>1, FS_CardinalityType
  <2>3. stray' = stray + Cardinality(D) + (IF mail.pc \in {"mark", "expunge"} THEN 1 ELSE 0)
    OBVIOUS
  <2> HIDE DEF D
  <2> QED BY <1>1, <2>2, <2>3 DEF Typed
<1>6. Typed'
  <2>1. win' \in [Window -> Component]
    BY <1>1, <1>2, <1>3, WindowTyped
  <2>2. save' \in [Saver -> SaveCall] /\ mail' \in SendCall
    BY <1>4
  <2>3. fails' \in 0..MaxFails
    BY <1>1 DEF Spend, Typed
  <2> QED BY <1>1, <1>5, <2>1, <2>2, <2>3 DEF Typed
<1>7. ASSUME NEW w \in Window
      PROVE  WindowSound(w)'
  <2>1. CASE win[w].st = "unused"
    BY <1>1, <1>3, <2>1 DEF IInv, WindowSound, NoLater, Shown
  <2>2. CASE win[w].st # "unused"
    BY <1>1, <1>2, <1>3, <2>2 DEF WindowSound, NoLater, Shown, Typed
  <2> QED BY <2>1, <2>2
<1>8. PromiseOwned'
  <2> SUFFICES ASSUME NEW w \in Window, win'[w].promise # None
               PROVE  FALSE
    BY DEF PromiseOwned
  <2>1. win[w].st = "unused" /\ win[w].promise # None
    BY <1>2, <1>3
  <2>2. PICK p \in Saver : p = win[w].promise
    BY <1>1, <2>1, WindowTyped DEF MaybeSaver
  <2>3. save[p].win = w /\ save[p].pc # "idle"
    BY <2>1, <2>2 DEF IInv, PromiseOwned
  <2> QED BY <2>1, <2>3 DEF IInv, SaveSound, Begun
<1>9. (\A s \in Saver : SaveSound(s)') /\ MailSound'
  BY <1>4 DEF SaveSound, MailSound
<1>10. UidsUnique' /\ DraftSafe' /\ HiddenForReason'
  BY <1>1 DEF IInv, UidsUnique, DraftSafe, HiddenForReason, Ever
<1> QED BY <1>6, <1>7, <1>8, <1>9, <1>10 DEF IInv

-----------------------------------------------------------------------------
(* The results. *)

LEMMA NextIInv ==
  ASSUME IInv, [Next]_vars
  PROVE  IInv'
<1>1. ASSUME NEW w \in Window, PageStep(w)
      PROVE  IInv'
  BY <1>1, ComposeKeeps, TypeKeeps, RestoreCancelKeeps, SendKeeps, EditDraftKeeps,
     PopOutKeeps, SaveButtonsKeep DEF PageStep
<1>2. ASSUME NEW s \in Saver, SaveStep(s)
      PROVE  IInv'
  BY <1>2, MarkKeeps, PasswordFailsKeeps, AppendKeeps, AppendFailsKeeps, DeleteSourceKeeps, SearchKeeps,
     SavedKeeps, SaveThrewKeeps DEF SaveStep
<1>3. CASE MailStep
  BY <1>3, TombstoneKeeps, SendEmailKeeps, ExpungeKeeps, SendEmailFailsKeeps DEF MailStep
<1>4. CASE UNCHANGED vars
  <2> USE <1>4 DEF vars, server, cache, counts, history
  <2>1. Typed' /\ UidsUnique' /\ PromiseOwned' /\ MailSound'
    BY DEF IInv, Typed, UidsUnique, PromiseOwned, MailSound, Begun, NoLater, Ever
  <2>2. (\A w \in Window : WindowSound(w)') /\ (\A s \in Saver : SaveSound(s)')
    BY DEF IInv, WindowSound, SaveSound, Begun, NoLater, Ever, Stored, Shown
  <2>3. DraftSafe' /\ HiddenForReason'
    BY DEF IInv, DraftSafe, HiddenForReason
  <2> QED BY <2>1, <2>2, <2>3 DEF IInv
<1> QED BY <1>1, <1>2, <1>3, <1>4, ResumeKeeps, ResumeSendKeeps, PollKeeps, CrashKeeps,
           OtherDeletesKeeps DEF Next

LEMMA IInvImplies ==
  ASSUME IInv
  PROVE  TypeOK /\ DraftSafe /\ DraftShown
<1>1. Typed /\ UidsUnique /\ PromiseOwned
  BY DEF IInv
<1>2. \A c \in box : c[1] < uidnext
  BY <1>1 DEF UidsUnique, Ever
<1>3. \A c, d \in box : c[1] = d[1] => c = d
  BY <1>1 DEF UidsUnique, Ever
<1>4. TypeOK
  BY <1>1, <1>2, <1>3 DEF Typed, TypeOK, PromiseOwned
<1>5. DraftShown
  BY DEF DraftShown, AtRest, IInv, HiddenForReason
<1> QED BY <1>4, <1>5 DEF IInv

\* The state keeps its types, no two drafts have one uid, and the promise a window
\* waits for is a call of its own that is under way: whatever the user, the saves, the
\* sending, failures, crashes and other clients do.
THEOREM TypeCorrect == Spec => []TypeOK
<1>1. Init => IInv
  BY InitIInv
<1>2. IInv /\ [Next]_vars => IInv'
  BY NextIInv
<1>3. IInv => TypeOK
  BY IInvImplies
<1> QED BY <1>1, <1>2, <1>3, PTL DEF Spec

\* Until the mail is sent, the last text that a save has acknowledged to the user, or a
\* later one, is in Drafts, unless another client removed it there: save_draft deletes
\* the copy it replaces, and no order of saves, failures and crashes makes that copy
\* the last one.
THEOREM SavedTextKept == Spec => []DraftSafe
<1>1. Init => IInv
  BY InitIInv
<1>2. IInv /\ [Next]_vars => IInv'
  BY NextIInv
<1>3. IInv => DraftSafe
  BY IInvImplies
<1> QED BY <1>1, <1>2, <1>3, PTL DEF Spec

\* A draft that no call works on is not hidden from the user, except, until the next
\* start, one whose call failed without taking its tombstone back: a sending, a save
\* that got no password, or one whose write of the cache failed as well.
THEOREM NoDraftStaysHidden == Spec => []DraftShown
<1>1. Init => IInv
  BY InitIInv
<1>2. IInv /\ [Next]_vars => IInv'
  BY NextIInv
<1>3. IInv => DraftShown
  BY IInvImplies
<1> QED BY <1>1, <1>2, <1>3, PTL DEF Spec

-----------------------------------------------------------------------------
(* How many drafts there are, as long as the user leaves a window alone while *)
(* a save waits for it.                                                       *)

Careful == ~ Hazard("overlap")

Busy(s) == save[s].pc # "idle"
Running == {"mark", "append", "delete", "search", "ok", "failed"}

\* A window that is shown, or that a call works for.
Holder(w) ==
  \/ Shown(w)
  \/ \E s \in Saver : Busy(s) /\ save[s].win = w
  \/ mail.pc # "idle" /\ mail.win = w

\* One window at a time has the mail.
OneHolder == \A v, w \in Window : Holder(v) /\ Holder(w) => v = w

\* One save runs, as its window's promise and with its pointer.
RunnerLaw ==
  \A s \in Saver : save[s].pc \in Running =>
    /\ win[save[s].win].promise = s /\ save[s].src = win[save[s].win].src
    /\ mail.pc \in {"idle", "wait"}

\* One call, a save or the sending, waits for it, and goes on alone.
WaiterLaw ==
  /\ \A s \in Saver : save[s].pc = "wait" =>
       /\ save[s].on # None /\ save[s].on = win[save[s].win].promise
       /\ mail.pc = "idle" /\ \A t \in Saver : save[t].pc = "wait" => s = t
  /\ \A s \in Saver : save[s].pc = "woken" =>
       /\ win[save[s].win].promise = None
       /\ mail.pc = "idle" /\ \A t \in Saver : Busy(t) => s = t
  /\ mail.pc = "wait" => mail.on # None /\ mail.on = win[mail.win].promise
  /\ mail.pc \notin {"idle", "wait"} => \A s \in Saver : ~ Busy(s)

\* The sending has the window's pointer, and nothing goes on once it is over.
SendingLaw ==
  /\ mail.pc \in {"tomb", "smtp", "mark", "expunge"} => mail.src = win[mail.win].src
  /\ mail.pc \in {"smtp", "mark", "expunge"} /\ ~ win[mail.win].alone => ~ Shown(mail.win)
  /\ sent => /\ texts >= 1 /\ mail.pc \in {"idle", "mark", "expunge"}
             /\ \A w \in Window : Holder(w) => mail.pc # "idle" /\ mail.win = w

\* The copies that the window's pointer and its running save stand for.
Claim(w) ==
  LET p == win[w].promise IN
  CASE p = None -> Copies(win[w].src)
    [] p # None /\ save[p].pc \in {"search", "ok"} -> Copies(save[p].new)
    [] p # None /\ save[p].pc = "delete" -> Copies(win[w].src) \cup Copies(save[p].new)
    [] OTHER -> Copies(win[w].src)

\* All others were left by a call that failed.
Accounted ==
  /\ \A w \in Window : Holder(w) => Cardinality(box \ Claim(w)) <= stray
  /\ (\A w \in Window : ~ Holder(w)) =>
       /\ Cardinality(box) <= 1 + stray
       /\ sent => Cardinality(box) <= stray

Line == OneHolder /\ RunnerLaw /\ WaiterLaw /\ SendingLaw
LInv == Line /\ Accounted

LEMMA CallTyped ==
  ASSUME IInv
  PROVE  /\ \A s \in Saver : /\ save[s] \in SaveCall /\ s # None
                             /\ Busy(s) => /\ save[s].win \in Window
                                           /\ win[save[s].win].st # "unused"
         /\ mail.pc # "idle" => mail.win \in Window /\ win[mail.win].st # "unused"
         /\ \A w \in Window :
              /\ win[w] \in Component
              /\ win[w].promise # None =>
                   /\ win[w].promise \in Saver
                   /\ save[win[w].promise].win = w
                   /\ save[win[w].promise].pc \in Running \cup {"woken"}
<1>1. Typed /\ PromiseOwned /\ MailSound /\ \A s \in Saver : SaveSound(s)
  BY DEF IInv
<1>2. \A s \in Saver : /\ save[s] \in SaveCall /\ s # None
                       /\ Busy(s) => save[s].win \in Window /\ win[save[s].win].st # "unused"
  BY <1>1 DEF Typed, SaveSound, Begun, Busy
<1>3. mail.pc # "idle" => mail.win \in Window /\ win[mail.win].st # "unused"
  BY <1>1 DEF MailSound, Begun
<1>4. ASSUME NEW w \in Window
      PROVE  /\ win[w] \in Component
             /\ win[w].promise # None =>
                  /\ win[w].promise \in Saver
                  /\ save[win[w].promise].win = w
                  /\ save[win[w].promise].pc \in Running \cup {"woken"}
  <2>1. win[w] \in Component /\ win[w].promise \in MaybeSaver
    BY <1>1 DEF Typed, Component
  <2>2. ASSUME win[w].promise # None
        PROVE  /\ win[w].promise \in Saver
               /\ save[win[w].promise].win = w
               /\ save[win[w].promise].pc \in Running \cup {"woken"}
    <3>1. win[w].promise \in Saver
      BY <2>1, <2>2 DEF MaybeSaver
    <3>2. save[win[w].promise].win = w /\ save[win[w].promise].pc \notin {"idle", "wait"}
      BY <1>1, <2>2 DEF PromiseOwned
    <3>3. save[win[w].promise].pc \in SavePC
      BY <1>2, <3>1 DEF SaveCall
    <3> QED BY <3>1, <3>2, <3>3 DEF SavePC, Running
  <2> QED BY <2>1, <2>2
<1> QED BY <1>2, <1>3, <1>4

\* The sizes of the sets of copies.
LEMMA Sizes ==
  ASSUME IInv
  PROVE  /\ IsFiniteSet(box) /\ Cardinality(box) \in Nat /\ stray \in Nat
         /\ Copies(None) = {}
         /\ \A u : /\ Copies(u) \in SUBSET box /\ IsFiniteSet(Copies(u))
                   /\ Cardinality(Copies(u)) \in Nat /\ Cardinality(Copies(u)) <= 1
<1>1. Typed /\ UidsUnique
  BY DEF IInv
<1>2. IsFiniteSet(box)
  <2>1. IsFiniteSet(Uid \X Text)
    <3>1. IsFiniteSet(1..MaxUid) /\ IsFiniteSet(1..MaxText)
      BY FS_Interval
    <3> QED BY <3>1, FS_Product DEF Uid, Text
  <2> QED BY <1>1, <2>1, FS_Subset DEF Typed
<1>3. Copies(None) = {}
  BY <1>1, NoneIsNoUid DEF Copies, Typed
<1>4. ASSUME NEW u
      PROVE  /\ Copies(u) \in SUBSET box /\ IsFiniteSet(Copies(u))
             /\ Cardinality(Copies(u)) \in Nat /\ Cardinality(Copies(u)) <= 1
  <2>1. Copies(u) \in SUBSET box
    BY DEF Copies
  <2>2. IsFiniteSet(Copies(u)) /\ Cardinality(Copies(u)) \in Nat
    BY <1>2, <2>1, FS_Subset, FS_CardinalityType
  <2>3. CASE Copies(u) = {}
    BY <2>2, <2>3, FS_EmptySet
  <2>4. CASE Copies(u) # {}
    <3>1. PICK c : c \in Copies(u)
      BY <2>4
    <3>2. \A d \in Copies(u) : d = c
      BY <1>1, <3>1 DEF Copies, UidsUnique, Ever
    <3>3. Copies(u) = {c}
      BY <3>1, <3>2
    <3>4. Cardinality(Copies(u)) = 1
      BY <3>3, FS_Singleton
    <3> QED BY <2>1, <2>2, <3>4
  <2> QED BY <2>1, <2>2, <2>3, <2>4
<1> QED BY <1>1, <1>2, <1>3, <1>4, FS_CardinalityType DEF Typed

\* A set that another, and few more, cover.
LEMMA Cover ==
  ASSUME NEW A, NEW B, NEW C, IsFiniteSet(B), IsFiniteSet(C), A \subseteq B \cup C
  PROVE  /\ IsFiniteSet(A) /\ Cardinality(A) \in Nat
         /\ Cardinality(B) \in Nat /\ Cardinality(C) \in Nat
         /\ Cardinality(A) <= Cardinality(B) + Cardinality(C)
<1> DEFINE D == B \cup C
<1>1. /\ IsFiniteSet(D) /\ Cardinality(D) = Cardinality(B) + Cardinality(C) - Cardinality(B \cap C)
      /\ Cardinality(B \cap C) \in Nat
  BY FS_Union, FS_Intersection, FS_CardinalityType
<1>2. A \in SUBSET D
  OBVIOUS
<1> HIDE DEF D
<1>3. IsFiniteSet(A) /\ Cardinality(A) <= Cardinality(D)
  BY <1>1, <1>2, FS_Subset
<1>4. /\ Cardinality(A) \in Nat /\ Cardinality(B) \in Nat /\ Cardinality(C) \in Nat
      /\ Cardinality(D) \in Nat
  BY <1>1, <1>3, FS_CardinalityType
<1> QED BY <1>1, <1>3, <1>4

\* The claim of a window whose save runs, and of one without a save.
Stands(pc, u, n) ==
  IF pc \in {"search", "ok"} THEN Copies(n)
  ELSE IF pc = "delete" THEN Copies(u) \cup Copies(n) ELSE Copies(u)

Claims ==
  /\ \A s \in Saver : \A w, pc, u, n :
       /\ save[s].pc = pc /\ pc \in Running
       /\ save[s].win = w /\ save[s].src = u /\ save[s].new = n
       => Claim(w) = Stands(pc, u, n)
  /\ \A w \in Window : \A u :
       win[w].promise = None /\ win[w].src = u => Claim(w) = Copies(u)

LEMMA ClaimOf ==
  ASSUME IInv, RunnerLaw
  PROVE  Claims
<1>1. ASSUME NEW s \in Saver, save[s].pc \in Running, NEW w, w = save[s].win
      PROVE  Claim(w) = Stands(save[s].pc, save[s].src, save[s].new)
  <2>1. win[w].promise = s /\ save[s].src = win[w].src /\ s # None
    BY <1>1, CallTyped DEF RunnerLaw
  <2> QED BY <2>1 DEF Claim, Stands
<1>2. ASSUME NEW w \in Window, win[w].promise = None
      PROVE  Claim(w) = Copies(win[w].src)
  BY <1>2 DEF Claim
<1> QED BY <1>1, <1>2 DEF Claims

LEMMA ClaimNext ==
  ASSUME IInv', RunnerLaw'
  PROVE  Claims'
BY ClaimOf, PTL

-----------------------------------------------------------------------------
(* The steps of a save that runs. *)

LEMMA RunnerLine ==
  ASSUME IInv, IInv', Line, NEW s \in Saver,
         save[s].pc \in Running, save'[s].pc \in Running,
         save'[s].win = save[s].win, save'[s].src = save[s].src,
         \A t \in Saver \ {s} : save'[t] = save[t],
         UNCHANGED <<win, mail, sent, texts>>
  PROVE  Line' /\ \A w \in Window : Holder(w)' <=> Holder(w)
<1> USE DEF Line
<1>1. /\ save[s].pc \notin {"idle", "wait", "woken"} /\ save'[s].pc \notin {"idle", "wait", "woken"}
      /\ \A t \in Saver : Busy(t)' <=> Busy(t)
  BY DEF Running, Busy
<1>2. \A w \in Window : Holder(w)' <=> Holder(w)
  BY <1>1 DEF Holder, Shown
<1>3. OneHolder'
  BY <1>2 DEF OneHolder
<1>4. RunnerLaw'
  BY DEF RunnerLaw
<1>5. WaiterLaw'
  BY <1>1 DEF WaiterLaw
<1>6. SendingLaw'
  BY <1>2 DEF SendingLaw, Shown
<1> QED BY <1>2, <1>3, <1>4, <1>5, <1>6

\* It is enough to account for the copies of its window.
LEMMA RunnerAccounted ==
  ASSUME IInv, IInv', Line, NEW s \in Saver,
         save[s].pc \in Running, save'[s].pc \in Running,
         save'[s].win = save[s].win, save'[s].src = save[s].src,
         \A t \in Saver \ {s} : save'[t] = save[t],
         UNCHANGED <<win, mail, sent, texts>>,
         NEW w0, w0 = save[s].win, Cardinality(box' \ Claim(w0)') <= stray'
  PROVE  LInv'
<1>1. Line' /\ \A w \in Window : Holder(w)' <=> Holder(w)
  BY RunnerLine
<1>2. w0 \in Window
  BY CallTyped DEF Busy, Running
<1>3. Holder(w0)' /\ OneHolder'
  BY <1>1, <1>2 DEF Holder, Busy, Running, Line
<1>4. Cardinality(box' \ Claim(w0)') <= stray'
  OBVIOUS
<1>5. Accounted'
  <2>1. \A w \in Window : Holder(w)' => w = w0
    BY <1>2, <1>3 DEF OneHolder
  <2>2. \A w \in Window : Holder(w)' => Cardinality(box' \ Claim(w)') <= stray'
    BY <1>4, <2>1, Zenon
  <2> QED BY <1>2, <1>3, <2>2 DEF Accounted
<1> QED BY <1>1, <1>5 DEF LInv

\* What is accounted for before such a step, and by what.
LEMMA RunnerBefore ==
  ASSUME IInv, LInv, NEW s \in Saver, save[s].pc \in Running
  PROVE  /\ Line /\ Claims
         /\ Cardinality(box \ Claim(save[s].win)) <= stray
         /\ IsFiniteSet(box \ Claim(save[s].win))
<1>1. PICK w0 \in Window : w0 = save[s].win
  BY CallTyped DEF Busy, Running
<1>2. Holder(w0)
  BY <1>1 DEF Holder, Busy, Running
<1>3. Cardinality(box \ Claim(w0)) <= stray
  BY <1>2 DEF LInv, Accounted
<1>4. IsFiniteSet(box \ Claim(w0))
  BY Sizes, FS_Difference
<1>5. Line /\ Claims
  BY ClaimOf DEF LInv, Line
<1> QED BY <1>1, <1>3, <1>4, <1>5

LEMMA GotoParts ==
  ASSUME IInv, NEW s \in Saver, NEW pc, Goto(s, pc)
  PROVE  /\ save'[s].pc = pc /\ save'[s].win = save[s].win /\ save'[s].src = save[s].src
         /\ save'[s].new = save[s].new
         /\ \A t \in Saver \ {s} : save'[t] = save[t]
<1>1. save \in [Saver -> SaveCall] /\ save[s] \in SaveCall
  BY DEF IInv, Typed
<1> QED BY <1>1 DEF Goto, SaveCall

\* What a step of a running save has to show: that the copies it does not stand for
\* are at most one more, and that one is counted.
LEMMA RunnerStep ==
  ASSUME IInv, IInv', LInv, NEW s \in Saver,
         save[s].pc \in Running, save'[s].pc \in Running,
         save'[s].win = save[s].win, save'[s].src = save[s].src,
         \A t \in Saver \ {s} : save'[t] = save[t],
         UNCHANGED <<win, mail, sent, texts>>,
         NEW pc, NEW pc1, save[s].pc = pc, save'[s].pc = pc1,
         NEW u, NEW n, NEW n1, save[s].src = u, save[s].new = n, save'[s].new = n1,
         NEW D, IsFiniteSet(D), stray + Cardinality(D) <= stray',
         box' \ Stands(pc1, u, n1)' \subseteq (box \ Stands(pc, u, n)) \cup D
  PROVE  LInv'
<1>1. PICK w : w = save[s].win
  OBVIOUS
<1>2. /\ Line /\ Claims
      /\ Cardinality(box \ Claim(w)) <= stray /\ IsFiniteSet(box \ Claim(w))
  BY <1>1, RunnerBefore
<1>3. RunnerLaw'
  BY <1>2, RunnerLine DEF Line
<1>4. Claims'
  BY <1>3, ClaimNext
<1>5. box' \ Claim(w)' \subseteq (box \ Claim(w)) \cup D
  <2>1. Claim(w) = Stands(pc, u, n)
    BY <1>1, <1>2 DEF Claims
  <2>2. Claim(w)' = Stands(pc1, u, n1)'
    BY <1>1, <1>4 DEF Claims
  <2> QED BY <2>1, <2>2
<1>6. Cardinality(box' \ Claim(w)') <= stray'
  <2>1. PICK A, B : A = box' \ Claim(w)' /\ B = box \ Claim(w)
    OBVIOUS
  <2>2. /\ Cardinality(A) \in Nat /\ Cardinality(B) \in Nat /\ Cardinality(D) \in Nat
        /\ Cardinality(A) <= Cardinality(B) + Cardinality(D)
    BY <2>1, <1>2, <1>5, Cover
  <2>3. stray \in Nat /\ stray' \in Nat
    BY Sizes DEF IInv, Typed
  <2> QED BY <2>1, <2>2, <2>3, <1>2
<1> QED BY <1>1, <1>2, <1>6, RunnerAccounted

LEMMA MarkLine ==
  ASSUME IInv, IInv', LInv, NEW s \in Saver, Mark(s)
  PROVE  LInv'
<1>1. /\ save[s].pc = "mark" /\ save'[s].pc = "append"
      /\ save'[s].win = save[s].win /\ save'[s].src = save[s].src
      /\ \A t \in Saver \ {s} : save'[t] = save[t]
      /\ UNCHANGED <<box, stray, win, mail, sent, texts>>
  BY GotoParts DEF Mark, server, counts, history
<1>2. save[s].pc \in Running /\ save'[s].pc \in Running
  BY <1>1 DEF Running
<1>3. PICK u, n, n1 : save[s].src = u /\ save[s].new = n /\ save'[s].new = n1
  OBVIOUS
<1>4. box' \ Stands("append", u, n1)' \subseteq (box \ Stands("mark", u, n)) \cup {}
  BY <1>1 DEF Copies, Stands
<1>5. IsFiniteSet({}) /\ stray + Cardinality({}) <= stray'
  BY <1>1, Sizes, FS_EmptySet
<1> QED BY <1>1, <1>2, <1>3, <1>4, <1>5, RunnerStep

LEMMA AppendLine ==
  ASSUME IInv, IInv', LInv, NEW s \in Saver, Append(s)
  PROVE  LInv'
<1>1. save[s] \in SaveCall /\ save \in [Saver -> SaveCall] /\ save[s].pc = "append"
  BY DEF IInv, Typed, Append
<1>2. PICK S \in SaveCall : S = save[s]
  BY <1>1
<1>3. PICK pc1 : pc1 = IF S.src = None THEN "search" ELSE "delete"
  OBVIOUS
<1>4. /\ save'[s] = [S EXCEPT !.pc = pc1, !.new = uidnext]
      /\ \A t \in Saver \ {s} : save'[t] = save[t]
  BY <1>1, <1>2, <1>3 DEF Append
<1>5. /\ save'[s].pc = pc1 /\ save'[s].win = S.win /\ save'[s].src = S.src
      /\ save'[s].new = uidnext
  BY <1>2, <1>4 DEF SaveCall
<1>6. save[s].pc \in Running /\ save'[s].pc \in Running
  BY <1>1, <1>3, <1>5 DEF Running
<1>7. UNCHANGED <<win, mail, sent, texts, stray>>
  BY DEF Append, counts, history
<1>8. PICK u, n, n1 : u = S.src /\ n = S.new /\ n1 = uidnext
  OBVIOUS
<1>9. box' \ Stands(pc1, u, n1)' \subseteq (box \ Stands("append", u, n)) \cup {}
  <2>1. box' = box \cup {<<n1, S.text>>}
    BY <1>2, <1>8 DEF Append, Land
  <2>2. Copies(None) = {} /\ Copies(n1)' = Copies(n1) \cup {<<n1, S.text>>}
    BY <2>1, Sizes DEF Copies
  <2>3. Copies(u) \subseteq Copies(u)'
    BY <2>1 DEF Copies
  <2> QED BY <2>1, <2>2, <2>3, <1>3, <1>8 DEF Stands
<1>10. IsFiniteSet({}) /\ stray + Cardinality({}) <= stray'
  BY <1>7, Sizes, FS_EmptySet
<1>11. save[s].src = u /\ save[s].new = n /\ save'[s].new = n1
  BY <1>2, <1>5, <1>8
<1>12. save'[s].win = save[s].win /\ save'[s].src = save[s].src /\ save'[s].pc = pc1
  BY <1>2, <1>5
<1> QED BY <1>1, <1>4, <1>6, <1>7, <1>9, <1>10, <1>11, <1>12, RunnerStep

LEMMA PasswordFailsLine ==
  ASSUME IInv, IInv', LInv, NEW s \in Saver, PasswordFails(s)
  PROVE  LInv'
<1>1. /\ save[s].pc = "append" /\ save'[s].pc = "failed"
      /\ save'[s].win = save[s].win /\ save'[s].src = save[s].src
      /\ \A t \in Saver \ {s} : save'[t] = save[t]
      /\ UNCHANGED <<box, stray, win, mail, sent, texts>>
  BY GotoParts DEF PasswordFails, server
<1>2. save[s].pc \in Running /\ save'[s].pc \in Running
  BY <1>1 DEF Running
<1>3. PICK u, n, n1 : save[s].src = u /\ save[s].new = n /\ save'[s].new = n1
  OBVIOUS
<1>4. box' \ Stands("failed", u, n1)' \subseteq (box \ Stands("append", u, n)) \cup {}
  BY <1>1 DEF Copies, Stands
<1>5. IsFiniteSet({}) /\ stray + Cardinality({}) <= stray'
  BY <1>1, Sizes, FS_EmptySet
<1> QED BY <1>1, <1>2, <1>3, <1>4, <1>5, RunnerStep

LEMMA AppendFailsLine ==
  ASSUME IInv, IInv', LInv, NEW s \in Saver, AppendFails(s)
  PROVE  LInv'
<1>1. /\ save[s].pc = "append" /\ save'[s].pc = "failed"
      /\ save'[s].win = save[s].win /\ save'[s].src = save[s].src
      /\ \A t \in Saver \ {s} : save'[t] = save[t]
      /\ UNCHANGED <<win, mail, sent, texts>>
  BY GotoParts DEF AppendFails
<1>2. save[s].pc \in Running /\ save'[s].pc \in Running
  BY <1>1 DEF Running
<1>3. PICK u, n, n1 : save[s].src = u /\ save[s].new = n /\ save'[s].new = n1
  OBVIOUS
<1>4. CASE UNCHANGED <<server, stray>>
  <2>1. box' \ Stands("failed", u, n1)' \subseteq (box \ Stands("append", u, n)) \cup {}
    BY <1>4 DEF Copies, Stands, server
  <2>2. IsFiniteSet({}) /\ stray + Cardinality({}) <= stray'
    BY <1>4, Sizes, FS_EmptySet
  <2> QED BY <1>1, <1>2, <1>3, <2>1, <2>2, RunnerStep
<1>5. CASE Land(s) /\ stray' = stray + 1
  <2>1. PICK new : new = <<uidnext, save[s].text>>
    OBVIOUS
  <2>2. box' \ Stands("failed", u, n1)' \subseteq (box \ Stands("append", u, n)) \cup {new}
    BY <1>5, <2>1 DEF Copies, Stands, Land
  <2>3. IsFiniteSet({new}) /\ stray + Cardinality({new}) <= stray'
    <3>1. IsFiniteSet({new}) /\ Cardinality({new}) = 1
      BY FS_Singleton
    <3>2. stray \in Nat /\ stray' = stray + 1
      BY <1>5, Sizes
    <3> QED BY <3>1, <3>2
  <2> QED BY <1>1, <1>2, <1>3, <2>2, <2>3, RunnerStep
<1> QED BY <1>4, <1>5 DEF AppendFails

LEMMA DeleteSourceLine ==
  ASSUME IInv, IInv', LInv, NEW s \in Saver, DeleteSource(s) \/ DeleteFails(s)
  PROVE  LInv'
<1>1. PICK pc1 \in {"failed", "search"} : Goto(s, pc1)
  BY DEF DeleteSource, DeleteFails
<1>2. /\ save[s].pc = "delete" /\ save'[s].pc = pc1
      /\ save'[s].win = save[s].win /\ save'[s].src = save[s].src /\ save'[s].new = save[s].new
      /\ \A t \in Saver \ {s} : save'[t] = save[t]
      /\ UNCHANGED <<win, mail, sent, texts>>
  BY <1>1, GotoParts DEF DeleteSource, DeleteFails, counts
<1>3. save[s].pc \in Running /\ save'[s].pc \in Running
  BY <1>2 DEF Running
<1>4. PICK u, n : save[s].src = u /\ save[s].new = n
  OBVIOUS
<1>5. CASE box' = box \ Copies(u) /\ pc1 = "search" /\ stray' = stray
  <2>1. box' \ Stands("search", u, n)' \subseteq (box \ Stands("delete", u, n)) \cup {}
    BY <1>5 DEF Copies, Stands
  <2>2. IsFiniteSet({}) /\ stray + Cardinality({}) <= stray'
    BY <1>5, Sizes, FS_EmptySet
  <2> QED BY <1>2, <1>3, <1>4, <1>5, <2>1, <2>2, RunnerStep
<1>6. CASE box' \in SUBSET box /\ box \ Copies(u) \in SUBSET box' /\ pc1 = "failed" /\ stray' = stray + 1
  <2> PICK D : D = Copies(n)
    OBVIOUS
  <2>1. box' \ Stands("failed", u, n)' \subseteq (box \ Stands("delete", u, n)) \cup D
    BY <1>6 DEF Copies, Stands
  <2>2. IsFiniteSet(D) /\ stray + Cardinality(D) <= stray'
    BY <1>6, Sizes
  <2> QED BY <1>2, <1>3, <1>4, <1>6, <2>1, <2>2, RunnerStep
<1>7. CASE DeleteSource(s)
  <2>1. CASE Copies(u) = {}
    <3>1. box' = box /\ stray' = stray + 1 /\ save'[s].pc = "failed"
      BY <1>4, <1>7, <2>1, GotoParts DEF DeleteSource
    <3> QED BY <3>1, <1>2, <1>6
  <2>2. CASE Copies(u) # {}
    <3>1. box' = box \ Copies(u) /\ stray' = stray /\ save'[s].pc = "search"
      BY <1>4, <1>7, <2>2, GotoParts DEF DeleteSource
    <3> QED BY <3>1, <1>2, <1>5
  <2> QED BY <2>1, <2>2
<1>8. CASE DeleteFails(s)
  <2>1. /\ box' \in SUBSET box /\ box \ Copies(u) \in SUBSET box'
        /\ stray' = stray + 1 /\ save'[s].pc = "failed"
    BY <1>4, <1>8, GotoParts DEF DeleteFails
  <2> QED BY <2>1, <1>2, <1>6
<1> QED BY <1>7, <1>8

LEMMA SearchLine ==
  ASSUME IInv, IInv', LInv, NEW s \in Saver, Search(s) \/ SearchFindsNothing(s)
  PROVE  LInv'
<1>1. save[s] \in SaveCall /\ save \in [Saver -> SaveCall] /\ save[s].pc = "search"
  BY DEF IInv, Typed, Search, SearchFindsNothing
<1>2. PICK S \in SaveCall : S = save[s]
  BY <1>1
<1>3. UNCHANGED <<box, win, mail, sent, texts>>
  BY DEF Search, SearchFindsNothing, server, counts, history
<1>4. PICK u, n : save[s].src = u /\ save[s].new = n
  OBVIOUS
<1>5. CASE Search(s)
  <2>1. /\ save'[s].pc = "ok" /\ save'[s].win = save[s].win /\ save'[s].src = save[s].src
        /\ save'[s].new = save[s].new /\ \A t \in Saver \ {s} : save'[t] = save[t]
        /\ stray' = stray
    BY <1>5, GotoParts DEF Search, history
  <2>2. save[s].pc \in Running /\ save'[s].pc \in Running
    BY <1>1, <2>1 DEF Running
  <2>3. box' \ Stands("ok", u, n)' \subseteq (box \ Stands("search", u, n)) \cup {}
    BY <1>3 DEF Copies, Stands
  <2>4. IsFiniteSet({}) /\ stray + Cardinality({}) <= stray'
    BY <2>1, Sizes, FS_EmptySet
  <2> QED BY <1>1, <1>3, <1>4, <2>1, <2>2, <2>3, <2>4, RunnerStep
<1>6. CASE SearchFindsNothing(s)
  <2>1. /\ save'[s] = [S EXCEPT !.pc = "ok", !.new = None]
        /\ \A t \in Saver \ {s} : save'[t] = save[t]
    BY <1>1, <1>2, <1>6 DEF SearchFindsNothing
  <2>2. /\ save'[s].pc = "ok" /\ save'[s].win = save[s].win /\ save'[s].src = save[s].src
        /\ save'[s].new = None
    <3>1. /\ save'[s].pc = "ok" /\ save'[s].win = S.win /\ save'[s].src = S.src
          /\ save'[s].new = None
      BY <2>1 DEF SaveCall
    <3> QED BY <1>2, <3>1
  <2>6. stray' = stray + 1
    BY <1>6 DEF SearchFindsNothing
  <2>3. save[s].pc \in Running /\ save'[s].pc \in Running
    BY <1>1, <2>2 DEF Running
  <2> PICK D : D = Copies(n)
    OBVIOUS
  <2>4. box' \ Stands("ok", u, None)' \subseteq (box \ Stands("search", u, n)) \cup D
    BY <1>3 DEF Copies, Stands
  <2>5. IsFiniteSet(D) /\ stray + Cardinality(D) <= stray'
    BY <2>6, Sizes
  <2>7. /\ \A t \in Saver \ {s} : save'[t] = save[t]
        /\ UNCHANGED <<win, mail, sent, texts>> /\ save[s].pc = "search"
        /\ save[s].src = u /\ save[s].new = n
    BY <1>1, <1>3, <1>4, <2>1
  <2> QED BY <2>2, <2>3, <2>4, <2>5, <2>7, RunnerStep
<1> QED BY <1>5, <1>6

-----------------------------------------------------------------------------
(* The steps that change who has the mail. *)

\* The copies are accounted for when those that the window with the mail no longer
\* stands for are in D, and counted.
LEMMA AccountedBy ==
  ASSUME IInv, IInv', LInv, NEW w \in Window, Holder(w),
         NEW C, NEW D, IsFiniteSet(D), stray + Cardinality(D) <= stray',
         box' \subseteq ((box \ Claim(w)) \cup C) \cup D,
         \A v \in Window : Holder(v)' => box' \cap C \subseteq Claim(v)',
         (\A v \in Window : ~ Holder(v)') =>
           /\ IsFiniteSet(C) /\ Cardinality(C) <= 1
           /\ sent' => C = {}
  PROVE  Accounted'
<1>1. IsFiniteSet(box \ Claim(w)) /\ Cardinality(box \ Claim(w)) <= stray
  BY Sizes, FS_Difference DEF LInv, Accounted
<1>2. stray \in Nat /\ stray' \in Nat /\ IsFiniteSet(box')
  <2>1. IsFiniteSet(box)'
    BY Sizes, PTL
  <2> QED BY <2>1 DEF IInv, Typed
<1>3. PICK B : B = box \ Claim(w)
  OBVIOUS
<1>4. ASSUME NEW v \in Window, Holder(v)'
      PROVE  Cardinality(box' \ Claim(v)') <= stray'
  <2>1. PICK A : A = box' \ Claim(v)'
    OBVIOUS
  <2>2. A \subseteq B \cup D
    BY <1>3, <1>4, <2>1
  <2>3. /\ Cardinality(A) \in Nat /\ Cardinality(B) \in Nat /\ Cardinality(D) \in Nat
        /\ Cardinality(A) <= Cardinality(B) + Cardinality(D)
    BY <1>1, <1>3, <2>2, Cover
  <2> QED BY <2>1, <2>3, <1>1, <1>2, <1>3
<1>5. ASSUME \A v \in Window : ~ Holder(v)'
      PROVE  /\ Cardinality(box') <= 1 + stray'
             /\ sent' => Cardinality(box') <= stray'
  <2>1. PICK E : E = B \cup D
    OBVIOUS
  <2>2. /\ IsFiniteSet(E) /\ Cardinality(E) \in Nat /\ Cardinality(B) \in Nat
        /\ Cardinality(D) \in Nat /\ Cardinality(E) <= Cardinality(B) + Cardinality(D)
    BY <1>1, <1>3, <2>1, Cover
  <2>3. Cardinality(E) <= stray'
    BY <2>2, <1>1, <1>2, <1>3
  <2>4. IsFiniteSet(C) /\ Cardinality(C) <= 1 /\ (sent' => C = {})
    BY <1>5
  <2>5. box' \subseteq E \cup C
    BY <1>3, <2>1
  <2>6. /\ Cardinality(box') \in Nat /\ Cardinality(C) \in Nat
        /\ Cardinality(box') <= Cardinality(E) + Cardinality(C)
    BY <2>2, <2>4, <2>5, Cover
  <2>7. C = {} => Cardinality(C) = 0
    BY FS_EmptySet
  <2> QED BY <1>2, <2>2, <2>3, <2>4, <2>6, <2>7
<1> QED BY <1>4, <1>5 DEF Accounted

\* Nobody has the mail, before and after.
LEMMA NobodyStays ==
  ASSUME IInv, IInv', LInv, \A w \in Window : ~ Holder(w) /\ ~ Holder(w)',
         box' \in SUBSET box, stray <= stray', sent' = sent
  PROVE  Accounted'
<1>1. /\ Cardinality(box) <= 1 + stray
      /\ sent => Cardinality(box) <= stray
  BY DEF LInv, Accounted
<1>2. IsFiniteSet(box) /\ Cardinality(box) \in Nat /\ stray \in Nat /\ stray' \in Nat
  BY Sizes DEF IInv, Typed
<1>3. Cardinality(box') <= Cardinality(box) /\ Cardinality(box') \in Nat
  BY <1>2, FS_Subset, FS_CardinalityType
<1>4. /\ Cardinality(box') <= 1 + stray'
      /\ sent' => Cardinality(box') <= stray'
  BY <1>1, <1>2, <1>3
<1> QED BY <1>4 DEF Accounted

\* A window without a save, and with no pending promise.
LEMMA NoSaveNoPromise ==
  ASSUME IInv, NEW w \in Window, \A s \in Saver : Busy(s) => save[s].win # w
  PROVE  /\ win[w].promise = None
         /\ Claim(w) = Copies(win[w].src)
         /\ IsFiniteSet(Claim(w)) /\ Cardinality(Claim(w)) <= 1
<1>1. win[w].promise = None
  BY CallTyped DEF Busy, Running
<1>2. Claim(w) = Copies(win[w].src)
  BY <1>1 DEF Claim
<1> QED BY <1>1, <1>2, Sizes

\* No call works, and the mail is not sent.
LEMMA FreshLine ==
  ASSUME NEW v, \A s \in Saver : ~ Busy(s)', mail'.pc = "idle", ~ sent',
         \A w \in Window : Holder(w)' => w = v
  PROVE  Line'
BY DEF Line, OneHolder, RunnerLaw, WaiterLaw, SendingLaw, Busy, Running

\* The steps of the page and of the world that leave the calls and the pointers.
LEMMA PageStays ==
  ASSUME IInv, IInv', LInv, UNCHANGED <<save, mail, sent, stray>>,
         texts <= texts', box' \in SUBSET box,
         \A w \in Window : /\ win'[w].src = win[w].src /\ win'[w].promise = win[w].promise
                           /\ win'[w].alone = win[w].alone /\ (Shown(w)' => Shown(w))
  PROVE  LInv'
<1>1. \A s \in Saver : Busy(s)' <=> Busy(s)
  BY DEF Busy
<1>2. ASSUME NEW w \in Window, Holder(w)'
      PROVE  Holder(w)
  BY <1>1, <1>2 DEF Holder
<1>3. OneHolder'
  BY <1>2 DEF OneHolder, LInv, Line
<1>4. RunnerLaw'
  BY CallTyped DEF RunnerLaw, LInv, Line, Busy, Running
<1>5. WaiterLaw'
  BY <1>1, CallTyped DEF WaiterLaw, LInv, Line, Busy
<1>6. SendingLaw'
  <2>1. texts \in Int /\ texts' \in Int
    BY DEF IInv, Typed
  <2>2. mail.pc \in {"tomb", "smtp", "mark", "expunge"} => mail.win \in Window
    BY CallTyped
  <2> QED BY <1>2, <2>1, <2>2 DEF SendingLaw, LInv, Line
<1>7. \A w \in Window : box' \cap Claim(w) \subseteq Claim(w)'
  BY DEF Claim, Copies
<1>8. Accounted'
  <2>1. CASE \A w \in Window : ~ Holder(w)
    <3>1. stray <= stray'
      BY DEF IInv, Typed
    <3> QED BY <1>2, <2>1, <3>1, NobodyStays
  <2>2. CASE \E w \in Window : Holder(w)
    <3>1. PICK w \in Window : Holder(w)
      BY <2>2
    <3>2. PICK C : C = Claim(w)
      OBVIOUS
    <3>3. IsFiniteSet({}) /\ stray + Cardinality({}) <= stray'
      BY Sizes, FS_EmptySet
    <3>4. \A v \in Window : Holder(v)' => box' \cap C \subseteq Claim(v)'
      <4> SUFFICES ASSUME NEW v \in Window, Holder(v)'
                   PROVE  box' \cap C \subseteq Claim(v)'
        OBVIOUS
      <4>1. v = w
        BY <1>2, <3>1 DEF LInv, Line, OneHolder
      <4> QED BY <1>7, <3>2, <4>1
    <3>5. box' \subseteq ((box \ Claim(w)) \cup C) \cup {}
      BY <3>2
    <3>6. ASSUME \A v \in Window : ~ Holder(v)'
          PROVE  IsFiniteSet(C) /\ Cardinality(C) <= 1 /\ (sent' => C = {})
      <4>1. ~ Holder(w)'
        BY <3>6
      <4>2. \A s \in Saver : Busy(s) => save[s].win # w
        BY <1>1, <4>1 DEF Holder
      <4>3. IsFiniteSet(C) /\ Cardinality(C) <= 1
        BY <3>2, <4>2, NoSaveNoPromise
      <4>4. ~ sent
        BY <3>1, <4>1 DEF LInv, Line, SendingLaw, Holder
      <4> QED BY <4>3, <4>4
    <3> QED BY <3>1, <3>3, <3>4, <3>5, <3>6, AccountedBy
  <2> QED BY <2>1, <2>2
<1> QED BY <1>3, <1>4, <1>5, <1>6, <1>8 DEF LInv, Line

LEMMA PageLine ==
  ASSUME IInv, IInv', LInv, NEW w \in Window, Type(w) \/ Restore(w) \/ Cancel(w)
  PROVE  LInv'
<1>1. win \in [Window -> Component] /\ win[w] \in Component /\ texts \in Int
  BY DEF IInv, Typed
<1>2. UNCHANGED <<save, mail, sent, stray, box>> /\ texts <= texts'
  BY <1>1 DEF Type, Restore, Cancel, server, counts, history
<1>3. ASSUME NEW v \in Window
      PROVE  /\ win'[v].src = win[v].src /\ win'[v].promise = win[v].promise
             /\ win'[v].alone = win[v].alone /\ (Shown(v)' => Shown(v))
  <2>1. CASE v # w
    BY <1>1, <2>1 DEF Type, Restore, Cancel, Shown
  <2>2. CASE v = w
    <3>1. CASE Type(w)
      <4>1. win'[w] = [win[w] EXCEPT !.text = texts + 1]
        BY <1>1, <3>1 DEF Type
      <4> QED BY <1>1, <2>2, <4>1 DEF Component, Shown
    <3>2. CASE Restore(w)
      <4>1. win'[w] = [win[w] EXCEPT !.st = "open"] /\ Shown(w)
        BY <1>1, <3>2 DEF Restore, Shown
      <4> QED BY <1>1, <2>2, <4>1 DEF Component
    <3>3. CASE Cancel(w)
      <4>1. win'[w] = [win[w] EXCEPT !.st = "closed"] /\ Shown(w)
        BY <1>1, <3>3 DEF Cancel
      <4> QED BY <1>1, <2>2, <4>1 DEF Component
    <3> QED BY <3>1, <3>2, <3>3
  <2> QED BY <2>1, <2>2
<1> QED BY <1>2, <1>3, PageStays

LEMMA WorldLine ==
  ASSUME IInv, IInv', LInv, Poll \/ (\E c \in box : OtherDeletes(c)) \/ UNCHANGED vars
  PROVE  LInv'
<1>1. /\ UNCHANGED <<save, mail, sent, stray, win, texts>> /\ box' \in SUBSET box
  BY DEF Poll, OtherDeletes, server, cache, counts, history, vars
<1>2. texts <= texts'
  BY <1>1 DEF IInv, Typed
<1> QED BY <1>1, <1>2, PageStays DEF Shown

LEMMA OpenedWindow ==
  ASSUME IInv, NEW v \in Window, NEW text, NEW src, NEW alone, OpenWindow(v, text, src, alone)
  PROVE  /\ ~ Shown(v) /\ \A s \in Saver : save[s].win = v => ~ Busy(s)
         /\ mail.win = v => mail.pc = "idle"
         /\ win[v].st = "unused"
         /\ win'[v].src = src /\ win'[v].promise = None
         /\ \A w \in Window \ {v} : win'[w] = win[w]
<1>1. win \in [Window -> Component] /\ win[v].st = "unused"
  BY DEF IInv, Typed, OpenWindow
<1>2. ~ Shown(v)
  BY <1>1 DEF Shown
<1>3. /\ \A s \in Saver : save[s].win = v => ~ Busy(s)
      /\ mail.win = v => mail.pc = "idle"
  BY <1>1, CallTyped
<1>4. /\ win'[v].src = src /\ win'[v].promise = None
      /\ \A w \in Window \ {v} : win'[w] = win[w]
  BY <1>1 DEF OpenWindow, Unused
<1> QED BY <1>1, <1>2, <1>3, <1>4

LEMMA ComposeLine ==
  ASSUME IInv, IInv', LInv, NEW v \in Window, Compose(v)
  PROVE  LInv'
<1>1. /\ texts = 0 /\ UNCHANGED <<box, save, mail, stray, sent>>
      /\ OpenWindow(v, 1, None, FALSE)
  BY DEF Compose, server, history
<1>2. box = {}
  <2>1. \A c \in box : c[2] <= 0 /\ c[2] \in Nat /\ c[2] >= 1
    BY <1>1 DEF IInv, Typed, UidsUnique, Ever, Text
  <2> QED BY <2>1
<1>3. /\ \A s \in Saver : ~ Busy(s)
      /\ mail.pc = "idle" /\ \A w \in Window : ~ Shown(w)
  <2>1. ASSUME NEW w \in Window
        PROVE  ~ (win[w].text >= 1)
    BY <1>1 DEF IInv, Typed, Component, Text, WindowSound
  <2> QED BY <2>1 DEF IInv, SaveSound, MailSound, Begun, Busy, WindowSound
<1>4. ~ sent
  BY <1>1 DEF LInv, Line, SendingLaw
<1>5. \A w \in Window : Holder(w)' => w = v
  BY <1>1, <1>3, OpenedWindow DEF Holder, Shown, Busy
<1>6. Line'
  BY <1>1, <1>3, <1>4, <1>5, FreshLine DEF Busy
<1>7. Accounted'
  <2>1. Cardinality({}) = 0 /\ stray \in Nat
    BY Sizes, FS_EmptySet
  <2>2. \A w \in Window : Cardinality(box' \ Claim(w)') <= stray'
    <3> SUFFICES ASSUME NEW w \in Window
                 PROVE  Cardinality(box' \ Claim(w)') <= stray'
      OBVIOUS
    <3>1. box' \ Claim(w)' = {}
      BY <1>1, <1>2
    <3> QED BY <3>1, <2>1, <1>1
  <2>3. Cardinality(box') <= stray' /\ Cardinality(box') <= 1 + stray'
    BY <1>1, <1>2, <2>1
  <2> QED BY <2>2, <2>3 DEF Accounted
<1> QED BY <1>6, <1>7 DEF LInv

LEMMA EditDraftLine ==
  ASSUME IInv, IInv', LInv, Careful, NEW v \in Window, NEW c, EditDraft(v, c)
  PROVE  LInv'
<1>1. /\ c \in box /\ ~ sent /\ mail.pc = "idle" /\ UNCHANGED <<box, save, mail, stray, sent>>
      /\ \A w \in Window : ~ Shown(w)
      /\ \A s \in Saver : ~ Busy(s)
      /\ OpenWindow(v, c[2], c[1], FALSE)
  BY DEF EditDraft, Careful, server, history, Busy
<1>2. \A w \in Window : ~ Holder(w)
  BY <1>1 DEF Holder
<1>3. Holder(v)' /\ \A w \in Window : Holder(w)' => w = v
  <2>1. \A w \in Window : Shown(w)' => w = v
    BY <1>1, OpenedWindow DEF Shown
  <2>2. Shown(v)'
    BY <1>1 DEF OpenWindow, Shown, Unused, IInv, Typed
  <2> QED BY <1>1, <2>1, <2>2 DEF Holder, Busy
<1>4. Line'
  BY <1>1, <1>3, FreshLine DEF Busy
<1>5. Accounted'
  <2>1. Cardinality(box) <= 1 + stray /\ IsFiniteSet(box) /\ Cardinality(box) \in Nat
    BY <1>2, Sizes DEF LInv, Accounted
  <2>2. c \in Claim(v)'
    <3>1. win'[v].promise = None /\ win'[v].src = c[1]
      BY <1>1, OpenedWindow
    <3>2. Claim(v)' = Copies(c[1])'
      BY <3>1 DEF Claim
    <3> QED BY <3>2, <1>1 DEF Copies
  <2>3. PICK A : A = box' \ Claim(v)'
    OBVIOUS
  <2>4. PICK B : B = box \ {c}
    OBVIOUS
  <2>5. IsFiniteSet(B) /\ Cardinality(B) = Cardinality(box) - 1
    BY <1>1, <2>1, <2>4, FS_RemoveElement
  <2>6. A \subseteq B
    BY <1>1, <2>2, <2>3, <2>4
  <2>7. Cardinality(A) <= Cardinality(B) /\ Cardinality(A) \in Nat
    BY <2>5, <2>6, FS_Subset, FS_CardinalityType
  <2>8. Cardinality(A) <= stray'
    BY <1>1, <2>1, <2>5, <2>7, Sizes
  <2> QED BY <1>3, <2>3, <2>8 DEF Accounted
<1> QED BY <1>4, <1>5 DEF LInv

LEMMA PopOutLine ==
  ASSUME IInv, IInv', LInv, Careful, NEW w \in Window, NEW v \in Window, PopOut(w, v)
  PROVE  LInv'
<1>1. /\ win[w].st = "open" /\ win[v].st = "unused" /\ w # v
      /\ UNCHANGED <<box, save, mail, stray, sent>>
      /\ \A s \in Saver : save[s].win # w
      /\ mail.win # w
  BY DEF PopOut, Careful, SaversOf, server, history
<1>2. win \in [Window -> Component] /\ win[w] \in Component
  BY DEF IInv, Typed
<1>3. /\ win'[v].src = win[w].src /\ win'[v].promise = None /\ win'[v].st = "open"
      /\ win'[w].st = "closed" /\ \A x \in Window \ {v, w} : win'[x] = win[x]
  <2>1. PICK W : W = [Unused EXCEPT !.st = "open", !.text = win[w].text,
                                    !.src = win[w].src, !.alone = TRUE]
    OBVIOUS
  <2>2. W.src = win[w].src /\ W.promise = None /\ W.st = "open"
    BY <2>1 DEF Unused
  <2>3. win' = [win EXCEPT ![w] = [win[w] EXCEPT !.st = "closed"], ![v] = W]
    BY <1>1, <2>1 DEF PopOut
  <2>4. /\ win'[v] = W /\ win'[w] = [win[w] EXCEPT !.st = "closed"]
        /\ \A x \in Window \ {v, w} : win'[x] = win[x]
    BY <1>1, <1>2, <2>3
  <2>5. win'[w].st = "closed"
    BY <1>2, <2>4 DEF Component
  <2> QED BY <2>2, <2>4, <2>5
<1>4. Holder(w) /\ \A x \in Window : Holder(x) => x = w
  BY <1>1 DEF Holder, Shown, LInv, Line, OneHolder
<1>5. (\A s \in Saver : ~ Busy(s)) /\ mail.pc = "idle"
  BY <1>1, <1>4, CallTyped DEF Holder
<1>6. ~ sent
  BY <1>4, <1>5 DEF LInv, Line, SendingLaw
<1>7. \A x \in Window : Holder(x)' => x = v
  <2>1. \A x \in Window : Shown(x)' => x = v
    BY <1>1, <1>3, <1>4 DEF Shown, Holder
  <2> QED BY <1>1, <1>5, <2>1 DEF Holder, Busy
<1>8. Line'
  BY <1>1, <1>5, <1>6, <1>7, FreshLine DEF Busy
<1>9. Accounted'
  <2>1. /\ Claim(w) = Copies(win[w].src) /\ IsFiniteSet(Claim(w)) /\ Cardinality(Claim(w)) <= 1
    BY <1>5, NoSaveNoPromise
  <2>2. Claim(v)' = Copies(win[w].src)
    BY <1>1, <1>3 DEF Claim, Copies
  <2>3. PICK C : C = Claim(w)
    OBVIOUS
  <2>4. IsFiniteSet({}) /\ stray + Cardinality({}) <= stray'
    BY <1>1, Sizes, FS_EmptySet
  <2>5. box' \subseteq ((box \ Claim(w)) \cup C) \cup {}
    BY <1>1, <2>3
  <2>6. \A x \in Window : Holder(x)' => box' \cap C \subseteq Claim(x)'
    BY <1>7, <2>1, <2>2, <2>3
  <2>7. IsFiniteSet(C) /\ Cardinality(C) <= 1 /\ ~ sent'
    BY <1>1, <1>6, <2>1, <2>3
  <2> QED BY <1>4, <2>4, <2>5, <2>6, <2>7, AccountedBy
<1> QED BY <1>8, <1>9 DEF LInv

-----------------------------------------------------------------------------
(* The steps of the sending. *)

LEMMA QuietLine ==
  ASSUME \A s \in Saver : ~ Busy(s)', mail'.pc # "wait", OneHolder', SendingLaw'
  PROVE  Line'
BY DEF Line, RunnerLaw, WaiterLaw, Busy, Running

\* While the sending works no save does, and its window alone has the mail.
LEMMA Quiet ==
  ASSUME IInv, LInv, mail.pc \notin {"idle", "wait"}, NEW w, w = mail.win
  PROVE  /\ w \in Window /\ Holder(w) /\ \A x \in Window : Holder(x) => x = w
         /\ \A s \in Saver : ~ Busy(s)
         /\ win[w].promise = None /\ Claim(w) = Copies(win[w].src)
         /\ IsFiniteSet(Claim(w)) /\ Cardinality(Claim(w)) <= 1
         /\ mail.pc # "woken" => mail.src = win[w].src
<1>1. w \in Window
  BY CallTyped
<1>2. Holder(w)
  BY <1>1 DEF Holder
<1>3. \A x \in Window : Holder(x) => x = w
  BY <1>1, <1>2 DEF LInv, Line, OneHolder
<1>4. \A s \in Saver : ~ Busy(s)
  BY DEF LInv, Line, WaiterLaw
<1>5. mail.pc # "woken" => mail.src = win[w].src
  <2>1. mail.pc \in MailPC
    BY DEF IInv, Typed, SendCall
  <2> QED BY <2>1 DEF LInv, Line, SendingLaw, MailPC
<1>6. /\ win[w].promise = None /\ Claim(w) = Copies(win[w].src)
      /\ IsFiniteSet(Claim(w)) /\ Cardinality(Claim(w)) <= 1
  BY <1>1, <1>4, NoSaveNoPromise
<1> QED BY <1>1, <1>2, <1>3, <1>4, <1>5, <1>6

\* The window keeps the mail and its pointer, and no copy comes or goes.
LEMMA PointerStays ==
  ASSUME IInv, IInv', LInv, NEW w \in Window, Holder(w),
         win[w].promise = None, win'[w].promise = None, win'[w].src = win[w].src,
         \A x \in Window : Holder(x)' => x = w,
         UNCHANGED <<box, stray>>, ~ sent' \/ Holder(w)'
  PROVE  Accounted'
<1>1. Claim(w) = Copies(win[w].src) /\ Claim(w)' = Copies(win[w].src)
  BY DEF Claim, Copies
<1>2. PICK C : C = Claim(w)
  OBVIOUS
<1>3. IsFiniteSet(C) /\ Cardinality(C) <= 1
  BY <1>1, <1>2, Sizes
<1>4. IsFiniteSet({}) /\ stray + Cardinality({}) <= stray'
  BY Sizes, FS_EmptySet
<1>5. box' \subseteq ((box \ Claim(w)) \cup C) \cup {}
  BY <1>2
<1>6. \A x \in Window : Holder(x)' => box' \cap C \subseteq Claim(x)'
  BY <1>1, <1>2
<1>7. (\A x \in Window : ~ Holder(x)') => ~ sent'
  OBVIOUS
<1> QED BY <1>3, <1>4, <1>5, <1>6, <1>7, AccountedBy

LEMMA SnapshotLine ==
  ASSUME IInv, IInv', LInv, NEW w \in Window, NEW W \in Component, Snapshot(w, W),
         W.src = win[w].src, W.promise = win[w].promise, W.st = win[w].st,
         W.alone = win[w].alone,
         Holder(w), \A s \in Saver : ~ Busy(s), mail.pc \in {"idle", "woken"},
         UNCHANGED <<server, cache, save, counts, history>>
  PROVE  LInv'
<1>1. UNCHANGED <<box, stray, sent, save>> /\ \A s \in Saver : ~ Busy(s)'
  BY DEF server, history, Busy
<1>2. ~ sent
  BY DEF LInv, Line, SendingLaw
<1>3. PICK V : /\ win' = [win EXCEPT ![w] = V]
               /\ V.src = W.src /\ V.promise = W.promise /\ V.alone = W.alone
               /\ V.st \in {W.st, "closed"}
               /\ W.src = None /\ ~ W.alone => V.st = "closed"
  <2>1. PICK U : U = [W EXCEPT !.st = "closed"]
    OBVIOUS
  <2>2. U.src = W.src /\ U.promise = W.promise /\ U.alone = W.alone /\ U.st = "closed"
    BY <2>1 DEF Component
  <2>3. CASE W.src # None \/ W.alone
    <3>1. win' = [win EXCEPT ![w] = W]
      BY <2>3 DEF Snapshot, Closed
    <3> QED BY <2>3, <3>1
  <2>4. CASE W.src = None /\ ~ W.alone
    <3>1. win' = [win EXCEPT ![w] = U]
      BY <2>1, <2>4 DEF Snapshot, Closed
    <3> QED BY <2>2, <3>1
  <2> QED BY <2>3, <2>4
<1>4. win'[w] = V /\ \A x \in Window \ {w} : win'[x] = win[x]
  BY <1>3 DEF IInv, Typed
<1>5. /\ mail'.pc = IF W.src = None THEN "smtp" ELSE "tomb"
      /\ mail'.win = w /\ mail'.src = W.src
  BY DEF Snapshot
<1>6. Holder(w)' /\ \A x \in Window : Holder(x)' => x = w
  <2>1. \A x \in Window \ {w} : ~ Shown(x)
    BY DEF LInv, Line, OneHolder, Holder
  <2>2. \A x \in Window \ {w} : ~ Shown(x)'
    BY <1>4, <2>1 DEF Shown
  <2> QED BY <1>1, <1>5, <2>2 DEF Holder
<1>7. SendingLaw'
  <2>1. win'[w].src = W.src /\ win'[w].alone = W.alone
    BY <1>3, <1>4
  <2>2. mail'.pc = "smtp" /\ ~ win'[w].alone => ~ Shown(w)'
    BY <1>3, <1>4, <1>5 DEF Shown
  <2>3. ~ sent' /\ mail'.pc \in {"smtp", "tomb"}
    BY <1>1, <1>2, <1>5
  <2> QED BY <1>5, <2>1, <2>2, <2>3 DEF SendingLaw, Shown
<1>8. Line'
  BY <1>1, <1>5, <1>6, <1>7, QuietLine DEF OneHolder
<1>9. Accounted'
  <2>1. win[w].promise = None
    BY NoSaveNoPromise
  <2> QED BY <1>1, <1>2, <1>3, <1>4, <1>6, <2>1, PointerStays
<1> QED BY <1>8, <1>9 DEF LInv

LEMMA SendLine ==
  ASSUME IInv, IInv', LInv, Careful, Settled, NEW w \in Window, Send(w)
  PROVE  LInv'
<1> DEFINE W == [win[w] EXCEPT !.sending = TRUE]
<1>1. /\ W \in Component /\ W.src = win[w].src /\ W.promise = win[w].promise
      /\ W.st = win[w].st /\ W.alone = win[w].alone
  <2>1. win[w] \in Component
    BY DEF IInv, Typed
  <2> QED BY <2>1 DEF Component
<1>2. /\ win[w].st = "open" /\ mail.pc = "idle" /\ ~ sent
      /\ \A t \in Saver : t = W.promise => ~ Waited(t)
      /\ IF W.promise = None THEN Snapshot(w, W)
         ELSE /\ mail' = [NoSend EXCEPT !.pc = "wait", !.win = w, !.on = W.promise]
              /\ win' = [win EXCEPT ![w] = W]
      /\ UNCHANGED <<server, cache, save, counts, history>>
  BY DEF Send, Careful
<1> HIDE DEF W
<1>3. Holder(w) /\ \A x \in Window : Holder(x) => x = w
  BY <1>2 DEF Holder, Shown, LInv, Line, OneHolder
<1>4. \A s \in Saver : Busy(s) =>
        /\ save[s].win = w /\ save[s].pc # "woken"
        /\ save[s].pc = "wait" => save[s].on = win[w].promise /\ win[w].promise \in Saver
        /\ save[s].pc \in Running => win[w].promise = s
  <2> SUFFICES ASSUME NEW s \in Saver, Busy(s)
               PROVE  /\ save[s].win = w /\ save[s].pc # "woken"
                      /\ save[s].pc = "wait" => save[s].on = win[w].promise
                                                /\ win[w].promise \in Saver
                      /\ save[s].pc \in Running => win[w].promise = s
    OBVIOUS
  <2>1. save[s].win = w
    BY <1>3, CallTyped DEF Holder
  <2>2. save[s].pc = "wait" => save[s].on = win[w].promise /\ win[w].promise # None
    BY <2>1 DEF LInv, Line, WaiterLaw
  <2>3. save[s].pc \in Running => win[w].promise = s
    BY <2>1 DEF LInv, Line, RunnerLaw
  <2> QED BY <2>1, <2>2, <2>3, CallTyped DEF Settled
<1>5. \A s \in Saver : save[s].pc \in SavePC
  BY CallTyped DEF SaveCall
<1>6. CASE W.promise = None
  <2>1. \A s \in Saver : ~ Busy(s)
    BY <1>1, <1>4, <1>5, <1>6, CallTyped DEF Busy, SavePC, Running
  <2> QED BY <1>1, <1>2, <1>3, <1>6, <2>1, SnapshotLine
<1>7. CASE W.promise # None
  <2>1. PICK p \in Saver : p = W.promise
    BY <1>1, <1>7, CallTyped
  <2>2. \A s \in Saver : save[s].pc # "wait"
    BY <1>1, <1>2, <1>4, <2>1 DEF Waited, Waiting, Busy
  <2>3. /\ mail'.pc = "wait" /\ mail'.win = w /\ mail'.on = p
        /\ win'[w] = W /\ \A x \in Window \ {w} : win'[x] = win[x]
    BY <1>2, <1>7, <2>1 DEF NoSend, IInv, Typed
  <2>4. /\ UNCHANGED <<box, stray, sent, save>>
        /\ \A x \in Window : /\ win'[x].src = win[x].src /\ win'[x].promise = win[x].promise
                             /\ win'[x].st = win[x].st
    BY <1>1, <1>2, <2>3 DEF server, history
  <2>5. Holder(w)' /\ \A x \in Window : Holder(x)' => x = w
    BY <1>3, <2>3, <2>4 DEF Holder, Shown, Busy
  <2>6. OneHolder' /\ SendingLaw'
    BY <1>2, <2>3, <2>4, <2>5 DEF OneHolder, SendingLaw
  <2>7. RunnerLaw'
    <3>1. \A s \in Saver : save[s].pc \in Running => save[s].win \in Window
      BY CallTyped DEF Busy, Running
    <3> QED BY <2>3, <2>4, <3>1 DEF RunnerLaw, LInv, Line
  <2>8. WaiterLaw'
    <3>1. win'[w].promise = p /\ p # None
      BY <1>1, <1>7, <2>1, <2>3
    <3>2. \A s \in Saver : save'[s].pc \notin {"wait", "woken"}
      BY <2>2, <2>4 DEF Settled
    <3> QED BY <2>3, <3>1, <3>2 DEF WaiterLaw
  <2>9. Accounted'
    <3>1. Claim(w)' = Claim(w)
      BY <2>4 DEF Claim, Copies
    <3>2. PICK C : C = Claim(w)
      OBVIOUS
    <3>3. IsFiniteSet({}) /\ stray + Cardinality({}) <= stray'
      BY <2>4, Sizes, FS_EmptySet
    <3>4. box' \subseteq ((box \ Claim(w)) \cup C) \cup {}
      BY <2>4, <3>2
    <3>5. \A x \in Window : Holder(x)' => box' \cap C \subseteq Claim(x)'
      BY <2>5, <3>1, <3>2
    <3> QED BY <1>3, <2>5, <3>3, <3>4, <3>5, AccountedBy
  <2> QED BY <2>6, <2>7, <2>8, <2>9 DEF LInv, Line
<1> QED BY <1>6, <1>7

LEMMA ResumeSendLine ==
  ASSUME IInv, IInv', LInv, ResumeSend
  PROVE  LInv'
<1>1. /\ mail.pc = "woken" /\ Snapshot(mail.win, win[mail.win])
      /\ UNCHANGED <<server, cache, save, counts, history>>
  BY DEF ResumeSend
<1>2. PICK w : w = mail.win
  OBVIOUS
<1>3. w \in Window /\ Holder(w) /\ \A s \in Saver : ~ Busy(s)
  BY <1>1, <1>2, Quiet
<1>4. win[w] \in Component /\ Snapshot(w, win[w])
  BY <1>1, <1>2, <1>3 DEF IInv, Typed
<1> QED BY <1>1, <1>3, <1>4, SnapshotLine

\* A step of the pipeline: the window may close, its pointer and its mail stay.
LEMMA PipelineLine ==
  ASSUME IInv, IInv', LInv, mail.pc \in {"tomb", "smtp", "mark", "expunge"},
         mail'.pc \in {"smtp", "mark", "expunge"}, mail'.win = mail.win, mail'.src = mail.src,
         UNCHANGED <<save, box, stray>>,
         \A x \in Window : /\ win'[x].src = win[x].src /\ win'[x].promise = win[x].promise
                           /\ win'[x].alone = win[x].alone /\ (Shown(x)' => Shown(x)),
         NEW w, w = mail.win, ~ win'[w].alone => ~ Shown(w)',
         sent' => texts' >= 1 /\ mail'.pc \in {"mark", "expunge"}
  PROVE  LInv'
<1>1. /\ w \in Window /\ Holder(w) /\ \A x \in Window : Holder(x) => x = w
      /\ \A s \in Saver : ~ Busy(s)
      /\ win[w].promise = None /\ mail.src = win[w].src
  BY Quiet
<1>2. Holder(w)' /\ \A x \in Window : Holder(x)' => x = w
  BY <1>1 DEF Holder, Busy
<1>3. OneHolder' /\ SendingLaw'
  BY <1>1, <1>2 DEF OneHolder, SendingLaw
<1>4. Line'
  BY <1>1, <1>3, QuietLine DEF Busy
<1>5. Accounted'
  BY <1>1, <1>2, PointerStays
<1> QED BY <1>4, <1>5 DEF LInv

LEMMA MailParts ==
  ASSUME IInv, NEW pc, mail' = [mail EXCEPT !.pc = pc]
  PROVE  mail'.pc = pc /\ mail'.win = mail.win /\ mail'.src = mail.src
BY DEF IInv, Typed, SendCall

LEMMA TombstoneLine ==
  ASSUME IInv, IInv', LInv, TombstoneDraft
  PROVE  LInv'
<1>1. PICK w : w = mail.win
  OBVIOUS
<1>2. /\ w \in Window /\ Holder(w) /\ \A x \in Window : Holder(x) => x = w
      /\ \A s \in Saver : ~ Busy(s)
  BY <1>1, Quiet DEF TombstoneDraft
<1>3. mail.pc = "tomb" /\ mail'.pc = "smtp" /\ mail'.win = mail.win /\ mail'.src = mail.src
  BY MailParts DEF TombstoneDraft
<1>4. UNCHANGED <<save, box, stray, sent>>
  BY DEF TombstoneDraft, server, history
<1>5. win[w] \in Component /\ win \in [Window -> Component]
  BY <1>2 DEF IInv, Typed
<1>6. /\ \A x \in Window : /\ win'[x].src = win[x].src /\ win'[x].promise = win[x].promise
                           /\ win'[x].alone = win[x].alone /\ (Shown(x)' => Shown(x))
      /\ ~ win'[w].alone => ~ Shown(w)'
  <2>1. CASE win[w].alone
    <3>1. win' = win
      BY <1>1, <1>5, <2>1 DEF TombstoneDraft, Closed
    <3> QED BY <2>1, <3>1 DEF Shown
  <2>2. CASE ~ win[w].alone
    <3>1. win' = [win EXCEPT ![w] = [win[w] EXCEPT !.st = "closed"]]
      BY <1>1, <2>2 DEF TombstoneDraft, Closed
    <3>2. PICK U : U = [win[w] EXCEPT !.st = "closed"]
      OBVIOUS
    <3>3. /\ U.src = win[w].src /\ U.promise = win[w].promise /\ U.alone = win[w].alone
          /\ U.st = "closed"
      BY <1>5, <3>2 DEF Component
    <3>4. win'[w] = U /\ \A x \in Window \ {w} : win'[x] = win[x]
      BY <1>2, <1>5, <3>1, <3>2
    <3> QED BY <3>3, <3>4 DEF Shown
  <2> QED BY <2>1, <2>2
<1>7. ~ sent'
  BY <1>3, <1>4 DEF LInv, Line, SendingLaw
<1> QED BY <1>1, <1>3, <1>4, <1>6, <1>7, PipelineLine

LEMMA MarkAgainLine ==
  ASSUME IInv, IInv', LInv, MarkAgain
  PROVE  LInv'
<1>1. PICK w : w = mail.win
  OBVIOUS
<1>2. /\ mail.pc = "mark" /\ mail'.pc = "expunge" /\ mail'.win = mail.win
      /\ mail'.src = mail.src
  BY MailParts DEF MarkAgain
<1>3. UNCHANGED <<save, box, stray, sent, win, texts>>
  BY DEF MarkAgain, server, counts, history
<1>4. (~ win'[w].alone => ~ Shown(w)') /\ (sent' => texts' >= 1)
  BY <1>1, <1>2, <1>3 DEF LInv, Line, SendingLaw, Shown
<1>5. \A x \in Window : Shown(x)' => Shown(x)
  BY <1>3 DEF Shown
<1> QED BY <1>1, <1>2, <1>3, <1>4, <1>5, PipelineLine

\* The pipeline ends: its window is closed, and nobody has the mail.
LEMMA OverNobody ==
  ASSUME IInv, LInv, mail.pc \notin {"idle", "wait"}, Over, UNCHANGED save
  PROVE  mail'.pc = "idle" /\ \A x \in Window : ~ Holder(x)'
<1>1. PICK w : w = mail.win
  OBVIOUS
<1>2. /\ w \in Window /\ \A x \in Window : Holder(x) => x = w
      /\ \A s \in Saver : ~ Busy(s)
  BY <1>1, Quiet
<1>3. mail'.pc = "idle"
  BY DEF Over, NoSend
<1>4. \A x \in Window : ~ Shown(x)'
  <2>1. win[w] \in Component /\ win \in [Window -> Component]
    BY <1>2 DEF IInv, Typed
  <2>2. /\ win'[w] = [win[w] EXCEPT !.st = "closed"]
        /\ \A x \in Window \ {w} : win'[x] = win[x]
    BY <1>1, <1>2, <2>1 DEF Over
  <2>3. win'[w].st = "closed"
    BY <2>1, <2>2 DEF Component
  <2> QED BY <1>2, <2>2, <2>3 DEF Shown, Holder
<1> QED BY <1>2, <1>3, <1>4 DEF Holder, Busy

\* What it leaves is counted.
LEMMA OverLine ==
  ASSUME IInv, IInv', LInv, mail.pc \in {"smtp", "mark", "expunge"}, Over, UNCHANGED save,
         texts' >= 1, NEW w, w = mail.win,
         NEW D, IsFiniteSet(D), stray + Cardinality(D) <= stray',
         box' \subseteq (box \ Copies(win[w].src)) \cup D
  PROVE  LInv'
<1>1. /\ w \in Window /\ Holder(w) /\ \A s \in Saver : ~ Busy(s)
      /\ Claim(w) = Copies(win[w].src)
  BY Quiet
<1>2. mail'.pc = "idle" /\ \A x \in Window : ~ Holder(x)'
  BY OverNobody
<1>3. Line'
  BY <1>1, <1>2, QuietLine DEF Busy, OneHolder, SendingLaw
<1>4. Accounted'
  <2>1. IsFiniteSet({}) /\ Cardinality({}) <= 1
    BY FS_EmptySet
  <2>2. box' \subseteq ((box \ Claim(w)) \cup {}) \cup D
    BY <1>1
  <2> QED BY <1>1, <1>2, <2>1, <2>2, AccountedBy
<1> QED BY <1>3, <1>4 DEF LInv

LEMMA ExpungeLine ==
  ASSUME IInv, IInv', LInv, ExpungeDraft \/ ExpungeFails
  PROVE  LInv'
<1>1. mail.pc = "expunge" /\ Over /\ UNCHANGED <<save, texts>>
  BY DEF ExpungeDraft, ExpungeFails, counts
<1>2. PICK w : w = mail.win
  OBVIOUS
<1>3. w \in Window /\ Holder(w) /\ mail.src = win[w].src
  BY <1>1, <1>2, Quiet
<1>4. texts' >= 1
  <2>1. sent
    BY <1>1 DEF IInv, MailSound
  <2> QED BY <1>1, <2>1 DEF LInv, Line, SendingLaw
<1>5. PICK u : u = win[w].src
  OBVIOUS
<1>6. CASE ExpungeDraft
  <2>1. box' \subseteq (box \ Copies(win[w].src)) \cup {} /\ stray' = stray
    BY <1>3, <1>6 DEF ExpungeDraft, history
  <2>2. IsFiniteSet({}) /\ stray + Cardinality({}) <= stray'
    BY <2>1, Sizes, FS_EmptySet
  <2> QED BY <1>1, <1>2, <1>4, <2>1, <2>2, OverLine
<1>7. CASE ExpungeFails
  <2>1. PICK D : D = Copies(u)
    OBVIOUS
  <2>2. box' \subseteq (box \ Copies(win[w].src)) \cup D
    BY <1>5, <1>7, <2>1 DEF ExpungeFails, server
  <2>3. IsFiniteSet(D) /\ stray + Cardinality(D) <= stray'
    <3>1. stray' = stray + 1
      BY <1>7 DEF ExpungeFails
    <3> QED BY <2>1, <3>1, Sizes
  <2> QED BY <1>1, <1>2, <1>4, <2>2, <2>3, OverLine
<1> QED BY <1>6, <1>7

LEMMA SendEmailLine ==
  ASSUME IInv, IInv', LInv, SendEmail
  PROVE  LInv'
<1>1. mail.pc = "smtp" /\ UNCHANGED <<save, box, stray, texts>>
  BY DEF SendEmail, server, counts
<1>2. PICK w : w = mail.win
  OBVIOUS
<1>3. w \in Window /\ Holder(w) /\ mail.src = win[w].src
  BY <1>1, <1>2, Quiet
<1>4. texts' >= 1
  <2>1. mail.text >= 1 /\ mail.text <= texts /\ mail.text \in Int /\ texts \in Int
    BY <1>1 DEF IInv, MailSound, Typed, SendCall, Text
  <2> QED BY <1>1, <2>1
<1>5. CASE mail.src = None
  <2>1. Over
    BY <1>5 DEF SendEmail
  <2>2. PICK D : D = Copies(win[w].src)
    OBVIOUS
  <2>3. D = {}
    BY <1>3, <1>5, <2>2, Sizes
  <2>4. IsFiniteSet(D) /\ stray + Cardinality(D) <= stray'
    BY <1>1, <2>3, Sizes, FS_EmptySet
  <2>5. box' \subseteq (box \ Copies(win[w].src)) \cup D
    BY <1>1, <2>2
  <2> QED BY <1>1, <1>2, <1>4, <2>1, <2>4, <2>5, OverLine
<1>6. CASE mail.src # None
  <2>1. /\ mail'.pc = "mark" /\ mail'.win = mail.win /\ mail'.src = mail.src /\ win' = win
    BY <1>6, MailParts DEF SendEmail
  <2>2. (~ win'[w].alone => ~ Shown(w)')
    BY <1>1, <1>2, <2>1 DEF LInv, Line, SendingLaw, Shown
  <2>3. \A x \in Window : Shown(x)' => Shown(x)
    BY <2>1 DEF Shown
  <2> QED BY <1>1, <1>2, <1>4, <2>1, <2>2, <2>3, PipelineLine
<1> QED BY <1>5, <1>6

LEMMA SendEmailFailsLine ==
  ASSUME IInv, IInv', LInv, NEW v \in Window, SendEmailFails(v)
  PROVE  LInv'
<1>1. mail.pc = "smtp" /\ mail'.pc = "idle" /\ UNCHANGED <<save, box, stray, sent>>
  BY DEF SendEmailFails, server, NoSend
<1>2. PICK w : w = mail.win
  OBVIOUS
<1>3. /\ w \in Window /\ Holder(w) /\ \A x \in Window : Holder(x) => x = w
      /\ \A s \in Saver : ~ Busy(s)
      /\ win[w].promise = None /\ mail.src = win[w].src
      /\ Claim(w) = Copies(win[w].src) /\ IsFiniteSet(Claim(w)) /\ Cardinality(Claim(w)) <= 1
  BY <1>1, <1>2, Quiet
<1>4. ~ sent
  BY <1>1 DEF LInv, Line, SendingLaw
<1>5. CASE win[w].alone
  <2>1. win[w] \in Component /\ win \in [Window -> Component]
    BY <1>3 DEF IInv, Typed
  <2>2. /\ win'[w] = [win[w] EXCEPT !.sending = FALSE]
        /\ \A x \in Window \ {w} : win'[x] = win[x]
    BY <1>2, <1>5, <2>1 DEF SendEmailFails
  <2>3. win'[w].src = win[w].src /\ win'[w].promise = None
    BY <1>3, <2>1, <2>2 DEF Component
  <2>4. \A x \in Window : Holder(x)' => x = w
    BY <1>1, <1>3, <2>2 DEF Holder, Shown, Busy
  <2>5. Line'
    BY <1>1, <1>3, <1>4, <2>4, FreshLine DEF Busy
  <2>6. Accounted'
    BY <1>1, <1>3, <1>4, <2>3, <2>4, PointerStays
  <2> QED BY <2>5, <2>6 DEF LInv
<1>6. CASE ~ win[w].alone
  <2>1. PICK text, u : text = mail.text /\ u = mail.src
    OBVIOUS
  <2>2. OpenWindow(v, text, u, FALSE)
    BY <1>2, <1>6, <2>1 DEF SendEmailFails
  <2>3. /\ win'[v].src = u /\ win'[v].promise = None
        /\ \A x \in Window \ {v} : win'[x] = win[x]
    BY <2>2, OpenedWindow
  <2>4. ~ Shown(w)
    BY <1>1, <1>2, <1>6 DEF LInv, Line, SendingLaw
  <2>5. \A x \in Window : Holder(x)' => x = v
    <3>1. \A x \in Window : Shown(x)' => x = v
      BY <1>3, <2>3, <2>4 DEF Shown, Holder
    <3> QED BY <1>1, <1>3, <3>1 DEF Holder, Busy
  <2>6. Line'
    BY <1>1, <1>3, <1>4, <2>5, FreshLine DEF Busy
  <2>7. Accounted'
    <3>1. PICK C : C = Claim(w)
      OBVIOUS
    <3>2. Claim(v)' = C
      BY <1>1, <1>3, <2>1, <2>3, <3>1 DEF Claim, Copies
    <3>3. IsFiniteSet({}) /\ stray + Cardinality({}) <= stray'
      BY <1>1, Sizes, FS_EmptySet
    <3>4. box' \subseteq ((box \ Claim(w)) \cup C) \cup {}
      BY <1>1, <3>1
    <3>5. \A x \in Window : Holder(x)' => box' \cap C \subseteq Claim(x)'
      BY <2>5, <3>2
    <3>6. IsFiniteSet(C) /\ Cardinality(C) <= 1 /\ ~ sent'
      BY <1>1, <1>3, <1>4, <3>1
    <3> QED BY <1>3, <3>3, <3>4, <3>5, <3>6, AccountedBy
  <2> QED BY <2>6, <2>7 DEF LInv
<1> QED BY <1>5, <1>6

-----------------------------------------------------------------------------
(* Saves that start and end. *)

\* Nobody else works: the save takes the window's pointer.
LEMMA InnerLine ==
  ASSUME IInv, IInv', LInv, NEW s \in Saver, NEW w \in Window, NEW W \in Component, NEW kind,
         Inner(s, w, kind, W), W.src = win[w].src, Holder(w), win[w].promise = None,
         \A t \in Saver : Busy(t) => t = s, mail.pc = "idle",
         UNCHANGED <<box, stray, mail, sent>>
  PROVE  LInv'
<1>1. ~ sent /\ \A x \in Window : Holder(x) => x = w
  BY DEF LInv, Line, SendingLaw, OneHolder
<1>2. PICK V : V = [W EXCEPT !.promise = s]
  OBVIOUS
<1>3. V.src = win[w].src /\ V.promise = s
  BY <1>2 DEF Component
<1>4. PICK S : S = [pc |-> "mark", win |-> w, kind |-> kind, on |-> None,
                    text |-> W.text, src |-> W.src, new |-> None]
  OBVIOUS
<1>5. /\ win'[w] = V /\ \A x \in Window \ {w} : win'[x] = win[x]
      /\ save'[s] = S /\ \A t \in Saver \ {s} : save'[t] = save[t]
  BY <1>2, <1>4 DEF Inner, IInv, Typed
<1>6. S.pc = "mark" /\ S.win = w /\ S.src = win[w].src /\ S.new = None
  BY <1>4
<1>7. /\ \A t \in Saver \ {s} : save'[t].pc = "idle"
      /\ \A t \in Saver : Busy(t)' => t = s
  BY <1>5 DEF Busy
<1>8. \A x \in Window : Holder(x)' => x = w
  BY <1>1, <1>5, <1>6, <1>7 DEF Holder, Shown
<1>9. Line'
  <2>1. OneHolder' /\ SendingLaw'
    BY <1>1, <1>8 DEF OneHolder, SendingLaw
  <2>2. RunnerLaw'
    BY <1>3, <1>5, <1>6, <1>7 DEF RunnerLaw, Running
  <2>3. WaiterLaw'
    BY <1>5, <1>6, <1>7 DEF WaiterLaw
  <2> QED BY <2>1, <2>2, <2>3 DEF Line
<1>10. Accounted'
  <2>1. PICK u : u = win[w].src
    OBVIOUS
  <2>2. Claim(w)' = Copies(u)
    <3>1. Claims'
      BY <1>9, ClaimNext DEF Line
    <3>2. Claim(w)' = Stands("mark", u, None)'
      BY <1>5, <1>6, <2>1, <3>1 DEF Claims, Running
    <3> QED BY <3>2 DEF Stands, Copies
  <2>3. Claim(w) = Copies(u)
    BY <2>1 DEF Claim
  <2>4. PICK C : C = Copies(u)
    OBVIOUS
  <2>5. IsFiniteSet({}) /\ stray + Cardinality({}) <= stray'
    BY Sizes, FS_EmptySet
  <2>6. box' \subseteq ((box \ Claim(w)) \cup C) \cup {}
    BY <2>3, <2>4
  <2>7. \A x \in Window : Holder(x)' => box' \cap C \subseteq Claim(x)'
    BY <1>8, <2>2, <2>4
  <2>8. IsFiniteSet(C) /\ Cardinality(C) <= 1 /\ ~ sent'
    BY <1>1, <2>4, Sizes
  <2> QED BY <2>5, <2>6, <2>7, <2>8, AccountedBy
<1> QED BY <1>9, <1>10 DEF LInv

LEMMA ResumeLine ==
  ASSUME IInv, IInv', LInv, NEW s \in Saver, Resume(s)
  PROVE  LInv'
<1>1. PICK w, kind : w = save[s].win /\ kind = save[s].kind
  OBVIOUS
<1>2. save[s].pc = "woken" /\ Inner(s, w, kind, win[w]) /\ UNCHANGED <<box, stray, mail, sent>>
  BY <1>1 DEF Resume, server, history
<1>3. w \in Window /\ Holder(w) /\ win[w] \in Component
  BY <1>1, <1>2, CallTyped DEF Busy, Holder
<1>4. win[w].promise = None /\ mail.pc = "idle" /\ \A t \in Saver : Busy(t) => t = s
  BY <1>1, <1>2 DEF LInv, Line, WaiterLaw
<1> QED BY <1>2, <1>3, <1>4, InnerLine

LEMMA PersistLine ==
  ASSUME IInv, IInv', LInv, Careful, Settled,
         NEW s \in Saver, NEW w \in Window, NEW W \in Component, NEW kind,
         Persist(s, w, kind, W), win[w].st = "open", W.st \in {"open", "min"},
         W.src = win[w].src, W.promise = win[w].promise, W.alone = win[w].alone,
         UNCHANGED <<box, stray, mail, sent>>
  PROVE  LInv'
<1>1. Holder(w) /\ \A x \in Window : Holder(x) => x = w
  BY DEF Holder, Shown, LInv, Line, OneHolder
<1>2. /\ save[s].pc = "idle" /\ mail.win # w
      /\ \A t \in Saver : t = W.promise => ~ Waited(t)
  BY DEF Persist, Careful
<1>3. mail.pc = "idle"
  BY <1>1, <1>2, CallTyped DEF Holder
<1>4. ~ sent
  BY <1>1, <1>3 DEF LInv, Line, SendingLaw
<1>5. \A t \in Saver : Busy(t) =>
        /\ save[t].win = w /\ save[t].pc # "woken"
        /\ save[t].pc = "wait" => save[t].on = win[w].promise /\ win[w].promise \in Saver
        /\ save[t].pc \in Running => win[w].promise = t
  <2> SUFFICES ASSUME NEW t \in Saver, Busy(t)
               PROVE  /\ save[t].win = w /\ save[t].pc # "woken"
                      /\ save[t].pc = "wait" => save[t].on = win[w].promise
                                                /\ win[w].promise \in Saver
                      /\ save[t].pc \in Running => win[w].promise = t
    OBVIOUS
  <2>1. save[t].win = w
    BY <1>1, CallTyped DEF Holder
  <2>2. save[t].pc = "wait" => save[t].on = win[w].promise /\ win[w].promise # None
    BY <2>1 DEF LInv, Line, WaiterLaw
  <2>3. save[t].pc \in Running => win[w].promise = t
    BY <2>1 DEF LInv, Line, RunnerLaw
  <2> QED BY <2>1, <2>2, <2>3, CallTyped DEF Settled
<1>6. CASE W.promise = None
  <2>1. \A t \in Saver : save[t].pc \in SavePC
    BY CallTyped DEF SaveCall
  <2>2. \A t \in Saver : ~ Busy(t)
    BY <1>5, <1>6, <2>1, CallTyped DEF Busy, SavePC, Running
  <2>3. Inner(s, w, kind, W) /\ win[w].promise = None
    BY <1>6 DEF Persist
  <2> QED BY <1>1, <1>3, <2>2, <2>3, InnerLine
<1>7. CASE W.promise # None
  <2>1. PICK p \in Saver : p = win[w].promise
    BY <1>7, CallTyped
  <2>2. p # s /\ p # None
    BY <1>2, <1>7, <2>1, CallTyped DEF Running
  <2>3. PICK S : S = [NoSave EXCEPT !.pc = "wait", !.win = w, !.kind = kind, !.on = p]
    OBVIOUS
  <2>4. S.pc = "wait" /\ S.win = w /\ S.on = p
    BY <2>3 DEF NoSave
  <2>5. save' = [save EXCEPT ![s] = S] /\ win' = [win EXCEPT ![w] = W]
    BY <1>7, <2>1, <2>3 DEF Persist
  <2>6. /\ win'[w] = W /\ \A x \in Window \ {w} : win'[x] = win[x]
        /\ save'[s] = S /\ \A t \in Saver \ {s} : save'[t] = save[t]
    BY <2>5 DEF IInv, Typed
  <2>7. \A x \in Window : /\ win'[x].src = win[x].src /\ win'[x].promise = win[x].promise
                          /\ win'[x].alone = win[x].alone /\ (Shown(x)' => Shown(x))
    <3>1. ASSUME NEW x \in Window, x # w
          PROVE  /\ win'[x].src = win[x].src /\ win'[x].promise = win[x].promise
                 /\ win'[x].alone = win[x].alone /\ (Shown(x)' => Shown(x))
      BY <2>6, <3>1 DEF Shown
    <3> QED BY <2>6, <3>1 DEF Shown
  <2>8. Holder(w)' /\ \A x \in Window : Holder(x)' => x = w
    <3>1. Shown(w)'
      BY <2>6 DEF Shown
    <3>2. \A x \in Window : Shown(x)' => x = w
      BY <1>1, <2>7 DEF Holder
    <3>3. \A t \in Saver : Busy(t)' => save'[t].win = w
      BY <1>5, <2>4, <2>6 DEF Busy
    <3> QED BY <1>3, <3>1, <3>2, <3>3 DEF Holder
  <2>9. \A t \in Saver \ {s} : save'[t].pc \notin {"wait", "woken"}
    <3>1. \A t \in Saver : save[t].pc # "wait"
      BY <1>2, <1>5, <2>1 DEF Waited, Waiting, Busy
    <3> QED BY <1>5, <2>6, <3>1 DEF Busy
  <2>10. Line'
    <3>1. OneHolder' /\ SendingLaw'
      BY <1>3, <1>4, <2>8 DEF OneHolder, SendingLaw
    <3>2. RunnerLaw'
      <4> SUFFICES ASSUME NEW t \in Saver, save'[t].pc \in Running
                   PROVE  /\ win'[save'[t].win].promise = t
                          /\ save'[t].src = win'[save'[t].win].src
                          /\ mail'.pc \in {"idle", "wait"}
        BY DEF RunnerLaw
      <4>1. t # s /\ save'[t] = save[t]
        BY <2>4, <2>6 DEF Running
      <4>2. /\ win[save[t].win].promise = t /\ save[t].src = win[save[t].win].src
            /\ save[t].win \in Window
        BY <4>1, CallTyped DEF LInv, Line, RunnerLaw, Busy, Running
      <4> QED BY <1>3, <2>7, <4>1, <4>2
    <3>3. WaiterLaw'
      <4>1. win'[w].promise = p
        BY <2>1, <2>7
      <4> QED BY <1>3, <2>2, <2>4, <2>6, <2>9, <4>1 DEF WaiterLaw
    <3> QED BY <3>1, <3>2, <3>3 DEF Line
  <2>11. Accounted'
    <3>1. Claim(w)' = Claim(w)
      <4>1. save'[p] = save[p]
        BY <2>2, <2>6
      <4> QED BY <2>1, <2>7, <4>1 DEF Claim, Copies
    <3>2. PICK C : C = Claim(w)
      OBVIOUS
    <3>3. IsFiniteSet({}) /\ stray + Cardinality({}) <= stray'
      BY Sizes, FS_EmptySet
    <3>4. box' \subseteq ((box \ Claim(w)) \cup C) \cup {}
      BY <3>2
    <3>5. \A x \in Window : Holder(x)' => box' \cap C \subseteq Claim(x)'
      BY <2>8, <3>1, <3>2
    <3> QED BY <1>1, <2>8, <3>3, <3>4, <3>5, AccountedBy
  <2> QED BY <2>10, <2>11 DEF LInv
<1> QED BY <1>6, <1>7

LEMMA SaveButtonsLine ==
  ASSUME IInv, IInv', LInv, Careful, Settled, NEW w \in Window, NEW s \in Saver,
         SaveDraft(w, s) \/ MinimizeAndSave(w, s)
  PROVE  LInv'
<1>1. win[w] \in Component
  BY DEF IInv, Typed
<1>2. UNCHANGED <<box, stray, mail, sent>> /\ win[w].st = "open"
  BY DEF SaveDraft, MinimizeAndSave, server, history
<1>3. CASE SaveDraft(w, s)
  <2> DEFINE W == [win[w] EXCEPT !.sending = TRUE]
  <2>1. /\ W \in Component /\ W.src = win[w].src /\ W.promise = win[w].promise
        /\ W.st = win[w].st /\ W.alone = win[w].alone
    BY <1>1 DEF Component
  <2>2. Persist(s, w, "draft", W)
    BY <1>3 DEF SaveDraft
  <2> HIDE DEF W
  <2> QED BY <1>2, <2>1, <2>2, PersistLine
<1>4. CASE MinimizeAndSave(w, s)
  <2> DEFINE W == [win[w] EXCEPT !.st = "min"]
  <2>1. /\ W \in Component /\ W.src = win[w].src /\ W.promise = win[w].promise
        /\ W.st = "min" /\ W.alone = win[w].alone
    BY <1>1 DEF Component
  <2>2. Persist(s, w, "mini", W)
    BY <1>4 DEF MinimizeAndSave
  <2> HIDE DEF W
  <2> QED BY <1>2, <2>1, <2>2, PersistLine
<1> QED BY <1>3, <1>4

\* Those that waited for the save go on, or go with it.
WaitersGoOn(s) ==
  /\ \A t \in Saver :
       \/ save'[t].pc = "idle"
       \/ t \in Waiting(s) /\ save'[t].pc = "woken" /\ save'[t].win = save[t].win
       \/ t \notin {s} \cup Waiting(s) /\ save'[t] = save[t]
  /\ mail'.win = mail.win
  /\ mail'.pc = IF mail.pc = "wait" /\ mail.on = s THEN "woken" ELSE mail.pc

\* A save that has returned, or thrown.
LEMMA SaveEndsLine ==
  ASSUME IInv, IInv', LInv, Settled, NEW s \in Saver, save[s].pc \in {"ok", "failed"},
         NEW w, w = save[s].win, NEW W, win' = [win EXCEPT ![w] = W],
         W.promise = None, W.st \in {win[w].st, "closed"}, NEW u, W.src = u,
         Claim(w) = Copies(u),
         WaitersGoOn(s), UNCHANGED <<box, stray, sent>>
  PROVE  LInv'
<1>1. /\ win[w].promise = s /\ mail.pc \in {"idle", "wait"} /\ s # None
      /\ w \in Window /\ Holder(w)
  <2>1. save[s].pc \in Running /\ Busy(s)
    BY DEF Running, Busy
  <2> QED BY <2>1, CallTyped DEF LInv, Line, RunnerLaw, Holder
<1>2. ~ sent /\ \A x \in Window : Holder(x) => x = w
  BY <1>1 DEF LInv, Line, SendingLaw, OneHolder
<1>3. \A t \in Saver : Busy(t) => save[t].win = w
  BY <1>2, CallTyped DEF Holder
<1>4. \A t \in Saver \ {s} : Busy(t) => save[t].pc = "wait" /\ t \in Waiting(s)
  <2> SUFFICES ASSUME NEW t \in Saver, t # s, Busy(t)
               PROVE  save[t].pc = "wait" /\ t \in Waiting(s)
    OBVIOUS
  <2>1. save[t].pc \notin Running
    BY <1>1, <1>3 DEF LInv, Line, RunnerLaw
  <2>2. save[t].pc = "wait"
    BY <2>1, CallTyped DEF Settled, SaveCall, SavePC, Running, Busy
  <2>3. save[t].on = s
    BY <1>1, <1>3, <2>2 DEF LInv, Line, WaiterLaw
  <2> QED BY <2>2, <2>3 DEF Waiting
<1>5. mail.pc = "wait" => mail.win = w /\ mail.on = s
  BY <1>1, <1>2, CallTyped DEF Holder, LInv, Line, WaiterLaw
<1>6. \A t \in Saver : Busy(t)' =>
        save[t].pc = "wait" /\ save'[t].pc = "woken" /\ save'[t].win = w
  BY <1>3, <1>4 DEF Busy, Waiting, WaitersGoOn
<1>7. /\ mail'.pc \in {"idle", "woken"}
      /\ mail'.pc = "woken" => mail.pc = "wait" /\ mail'.win = w
  BY <1>1, <1>5 DEF WaitersGoOn
<1>8. win'[w] = W /\ \A x \in Window \ {w} : win'[x] = win[x]
  BY <1>1 DEF IInv, Typed
<1>9. \A x \in Window : Holder(x)' => x = w
  <2>1. \A x \in Window : Shown(x)' => x = w
    BY <1>2, <1>8 DEF Shown, Holder
  <2> QED BY <1>6, <1>7, <2>1 DEF Holder
<1>10. Line'
  <2>1. OneHolder' /\ SendingLaw'
    BY <1>2, <1>7, <1>9 DEF OneHolder, SendingLaw
  <2>2. RunnerLaw'
    BY <1>6 DEF RunnerLaw, Running, Busy
  <2>3. WaiterLaw'
    <3>1. ASSUME NEW t \in Saver, save'[t].pc = "woken"
          PROVE  /\ win'[save'[t].win].promise = None
                 /\ mail'.pc = "idle" /\ \A x \in Saver : Busy(x)' => t = x
      <4>1. save[t].pc = "wait" /\ save'[t].win = w
        BY <1>6, <3>1 DEF Busy
      <4>2. mail.pc = "idle" /\ \A x \in Saver : save[x].pc = "wait" => t = x
        BY <4>1 DEF LInv, Line, WaiterLaw
      <4> QED BY <1>6, <1>7, <1>8, <4>1, <4>2
    <3>2. \A t \in Saver : save'[t].pc # "wait"
      BY <1>6 DEF Busy
    <3>3. mail'.pc = "woken" => \A t \in Saver : ~ Busy(t)'
      BY <1>6, <1>7 DEF LInv, Line, WaiterLaw
    <3> QED BY <1>7, <3>1, <3>2, <3>3 DEF WaiterLaw
  <2> QED BY <2>1, <2>2, <2>3 DEF Line
<1>11. Accounted'
  <2>1. PICK C : C = Copies(u)
    OBVIOUS
  <2>2. Claim(w)' = C
    BY <1>8, <2>1 DEF Claim, Copies
  <2>3. IsFiniteSet({}) /\ stray + Cardinality({}) <= stray'
    BY Sizes, FS_EmptySet
  <2>4. box' \subseteq ((box \ Claim(w)) \cup C) \cup {}
    BY <2>1
  <2>5. \A x \in Window : Holder(x)' => box' \cap C \subseteq Claim(x)'
    BY <1>9, <2>2
  <2>6. IsFiniteSet(C) /\ Cardinality(C) <= 1 /\ ~ sent'
    BY <1>2, <2>1, Sizes
  <2> QED BY <1>1, <2>3, <2>4, <2>5, <2>6, AccountedBy
<1> QED BY <1>10, <1>11 DEF LInv

LEMMA MailWoken ==
  ASSUME IInv, NEW s \in Saver,
         mail' = IF mail.pc = "wait" /\ mail.on = s THEN [mail EXCEPT !.pc = "woken"] ELSE mail
  PROVE  /\ mail'.win = mail.win
         /\ mail'.pc = IF mail.pc = "wait" /\ mail.on = s THEN "woken" ELSE mail.pc
<1>1. mail \in SendCall
  BY DEF IInv, Typed
<1>2. CASE mail.pc = "wait" /\ mail.on = s
  BY <1>1, <1>2 DEF SendCall
<1>3. CASE ~ (mail.pc = "wait" /\ mail.on = s)
  BY <1>3
<1> QED BY <1>2, <1>3

LEMMA SavedLine ==
  ASSUME IInv, IInv', LInv, Settled, NEW s \in Saver, Saved(s)
  PROVE  LInv'
<1>1. save[s].pc = "ok" /\ UNCHANGED <<box, stray, sent>>
  BY DEF Saved, server
<1>2. PICK w, n, u0 : w = save[s].win /\ n = save[s].new /\ u0 = save[s].src
  OBVIOUS
<1>3. w \in Window /\ Claim(w) = Copies(n)
  <2>1. Claims /\ save[s].pc \in Running /\ Busy(s)
    BY <1>1, ClaimOf DEF Running, Busy, LInv, Line
  <2>2. Claim(w) = Stands("ok", u0, n)
    BY <1>1, <1>2, <2>1 DEF Claims
  <2> QED BY <1>2, <2>1, <2>2, CallTyped DEF Stands
<1>4. PICK M, C : /\ M = [win[w] EXCEPT !.src = n, !.promise = None]
                  /\ C = [M EXCEPT !.st = "closed", !.sending = FALSE]
  OBVIOUS
<1>5. M.src = n /\ M.promise = None /\ M.st = win[w].st
  BY <1>3, <1>4 DEF IInv, Typed, Component
<1>6. C.src = n /\ C.promise = None /\ C.st = "closed"
  BY <1>3, <1>4 DEF IInv, Typed, Component
<1>7. win' = [win EXCEPT ![w] = M] \/ win' = [win EXCEPT ![w] = C]
  BY <1>2, <1>4 DEF Saved
<1>8. PICK W : /\ win' = [win EXCEPT ![w] = W] /\ W.src = n /\ W.promise = None
               /\ W.st \in {win[w].st, "closed"}
  BY <1>5, <1>6, <1>7
<1>9. ASSUME NEW t \in Saver
      PROVE  \/ save'[t].pc = "idle"
             \/ t \in Waiting(s) /\ save'[t].pc = "woken" /\ save'[t].win = save[t].win
             \/ t \notin {s} \cup Waiting(s) /\ save'[t] = save[t]
  <2>1. save[t] \in SaveCall
    BY DEF IInv, Typed
  <2>2. CASE t = s
    BY <2>2 DEF Saved, NoSave
  <2>3. CASE t # s /\ t \in Waiting(s)
    <3>1. save'[t] = [save[t] EXCEPT !.pc = "woken"]
      BY <2>3 DEF Saved
    <3> QED BY <2>1, <2>3, <3>1 DEF SaveCall
  <2>4. CASE t # s /\ t \notin Waiting(s)
    BY <2>4 DEF Saved
  <2> QED BY <2>2, <2>3, <2>4
<1>10. /\ mail'.win = mail.win
       /\ mail'.pc = IF mail.pc = "wait" /\ mail.on = s THEN "woken" ELSE mail.pc
  BY MailWoken DEF Saved
<1>11. save[s].pc \in {"ok", "failed"} /\ w = save[s].win
  BY <1>1, <1>2
<1>12. WaitersGoOn(s)
  BY <1>9, <1>10 DEF WaitersGoOn
<1>13. W.src = n /\ Claim(w) = Copies(n)
  BY <1>3, <1>8
<1> QED BY <1>1, <1>8, <1>11, <1>12, <1>13, SaveEndsLine

LEMMA SaveThrewLine ==
  ASSUME IInv, IInv', LInv, Settled, NEW s \in Saver, SaveThrew(s)
  PROVE  LInv'
<1>1. save[s].pc = "failed" /\ UNCHANGED <<box, stray, sent>>
  BY DEF SaveThrew, server, history
<1>2. PICK w, u, n0 : w = save[s].win /\ u = save[s].src /\ n0 = save[s].new
  OBVIOUS
<1>3. w \in Window /\ win[w].src = u /\ Claim(w) = Copies(u)
  <2>1. Claims /\ save[s].pc \in Running /\ Busy(s)
    BY <1>1, ClaimOf DEF Running, Busy, LInv, Line
  <2>2. Claim(w) = Stands("failed", u, n0)
    BY <1>1, <1>2, <2>1 DEF Claims
  <2>3. win[w].src = u
    BY <1>2, <2>1 DEF LInv, Line, RunnerLaw
  <2> QED BY <1>2, <2>1, <2>2, <2>3, CallTyped DEF Stands
<1>4. PICK b : b = StillSending(save[s].win, {s} \cup Waiting(s))
  OBVIOUS
<1>5. PICK W : W = [win[w] EXCEPT !.promise = None, !.sending = b]
  OBVIOUS
<1>6. win' = [win EXCEPT ![w] = W]
  BY <1>2, <1>4, <1>5 DEF SaveThrew
<1>7. W.src = u /\ W.promise = None /\ W.st \in {win[w].st, "closed"}
  <2>1. win[w] \in Component
    BY <1>3 DEF IInv, Typed
  <2> QED BY <1>3, <1>5, <2>1 DEF Component
<1>8. ASSUME NEW t \in Saver
      PROVE  \/ save'[t].pc = "idle"
             \/ t \in Waiting(s) /\ save'[t].pc = "woken" /\ save'[t].win = save[t].win
             \/ t \notin {s} \cup Waiting(s) /\ save'[t] = save[t]
  BY DEF SaveThrew, NoSave
<1>9. /\ mail'.win = mail.win
      /\ mail'.pc = IF mail.pc = "wait" /\ mail.on = s THEN "woken" ELSE mail.pc
  BY MailWoken DEF SaveThrew
<1>10. save[s].pc \in {"ok", "failed"} /\ w = save[s].win
  BY <1>1, <1>2
<1>11. WaitersGoOn(s)
  BY <1>8, <1>9 DEF WaitersGoOn
<1>12. W.src = u /\ Claim(w) = Copies(u)
  BY <1>3, <1>7
<1> QED BY <1>1, <1>6, <1>7, <1>10, <1>11, <1>12, SaveEndsLine

-----------------------------------------------------------------------------
(* A crash, and the results. *)

\* All in all there is one copy, but for those a save is about to remove and those
\* that are counted; while a sending expunges there are no others.
LEMMA FewCopies ==
  ASSUME IInv, LInv
  PROVE  /\ IsFiniteSet(Replacing) /\ Cardinality(Replacing) \in Nat
         /\ DraftsPruned
         /\ sent => Cardinality(box) <= stray + (IF mail.pc \in {"mark", "expunge"} THEN 1 ELSE 0)
<1>1. IsFiniteSet(Replacing) /\ Cardinality(Replacing) \in Nat
  <2>1. Replacing \in SUBSET Saver
    BY DEF Replacing
  <2> QED BY <2>1, FS_Subset, FS_CardinalityType
<1>2. IsFiniteSet(box) /\ Cardinality(box) \in Nat /\ stray \in Nat
  BY Sizes
<1>3. CASE \A w \in Window : ~ Holder(w)
  <2>1. Cardinality(box) <= 1 + stray /\ (sent => Cardinality(box) <= stray)
    BY <1>3 DEF LInv, Accounted
  <2> QED BY <1>1, <1>2, <2>1 DEF DraftsPruned
<1>4. CASE \E w \in Window : Holder(w)
  <2>1. PICK w \in Window : Holder(w)
    BY <1>4
  <2>2. PICK A, C : A = box \ Claim(w) /\ C = Claim(w)
    OBVIOUS
  <2>3. IsFiniteSet(A) /\ Cardinality(A) <= stray
    BY <1>2, <2>1, <2>2, FS_Difference DEF LInv, Accounted
  <2>4. box \subseteq A \cup C
    BY <2>2
  <2>5. /\ IsFiniteSet(C)
        /\ \/ Cardinality(C) <= 1
           \/ Cardinality(C) <= 2 /\ Cardinality(Replacing) >= 1 /\ win[w].promise # None
    <3>1. PICK p, u, n : p = win[w].promise /\ u = win[w].src /\ n = save[p].new
      OBVIOUS
    <3>2. CASE p # None /\ save[p].pc = "delete"
      <4>1. PICK X, Y : X = Copies(u) /\ Y = Copies(n)
        OBVIOUS
      <4>2. C \subseteq X \cup Y
        BY <2>2, <3>1, <3>2, <4>1 DEF Claim
      <4>3. IsFiniteSet(X) /\ IsFiniteSet(Y) /\ Cardinality(X) <= 1 /\ Cardinality(Y) <= 1
        BY <4>1, Sizes
      <4>4. /\ IsFiniteSet(C) /\ Cardinality(C) \in Nat
            /\ Cardinality(X) \in Nat /\ Cardinality(Y) \in Nat
            /\ Cardinality(C) <= Cardinality(X) + Cardinality(Y)
        BY <4>2, <4>3, Cover
      <4>5. p \in Replacing
        BY <3>1, <3>2, CallTyped DEF Replacing
      <4>6. Cardinality(Replacing) # 0
        BY <1>1, <4>5, FS_EmptySet
      <4> QED BY <1>1, <3>1, <3>2, <4>3, <4>4, <4>6
    <3>3. CASE p = None \/ save[p].pc # "delete"
      <4>1. C = Copies(u) \/ C = Copies(n)
        BY <2>2, <3>1, <3>3 DEF Claim
      <4> QED BY <4>1, Sizes
    <3> QED BY <3>2, <3>3
  <2>6. /\ Cardinality(A) \in Nat /\ Cardinality(C) \in Nat
        /\ Cardinality(box) <= Cardinality(A) + Cardinality(C)
    BY <2>3, <2>4, <2>5, Cover
  <2>7. DraftsPruned
    BY <1>1, <1>2, <2>3, <2>5, <2>6 DEF DraftsPruned
  <2>8. ASSUME sent
        PROVE  mail.pc \in {"mark", "expunge"} /\ Cardinality(box) <= stray + 1
    <3>1. mail.pc \in {"mark", "expunge"} /\ mail.win = w
      BY <2>1, <2>8 DEF LInv, Line, SendingLaw
    <3>2. win[w].promise = None
      BY <3>1, Quiet
    <3> QED BY <1>2, <2>3, <2>5, <2>6, <3>1, <3>2
  <2> QED BY <1>1, <2>7, <2>8
<1> QED BY <1>3, <1>4

LEMMA CrashLine ==
  ASSUME IInv, IInv', LInv, Crash
  PROVE  LInv'
<1>1. /\ UNCHANGED <<box, texts, sent>> /\ mail'.pc = "idle"
      /\ \A s \in Saver : ~ Busy(s)'
  BY DEF Crash, server, NoSend, NoSave, Busy
<1>2. \A w \in Window : win'[w].st \in {"unused", "closed"}
  BY DEF Crash, Unused
<1>3. \A w \in Window : ~ Holder(w)'
  BY <1>1, <1>2 DEF Holder, Shown
<1>4. Line'
  <2>1. sent => texts >= 1
    BY DEF LInv, Line, SendingLaw
  <2> QED BY <1>1, <1>3, <2>1, QuietLine DEF OneHolder, SendingLaw
<1>5. Accounted'
  <2>1. PICK r, k : r = Cardinality(Replacing)
                    /\ k = (IF mail.pc \in {"mark", "expunge"} THEN 1 ELSE 0)
    OBVIOUS
  <2>2. stray' = stray + r + k
    BY <2>1 DEF Crash, Replacing
  <2>3. /\ r \in Nat /\ k \in Nat /\ Cardinality(box) <= 1 + r + stray
        /\ sent => Cardinality(box) <= stray + k
    BY <2>1, FewCopies DEF DraftsPruned
  <2>4. stray \in Nat /\ Cardinality(box) \in Nat
    BY Sizes
  <2>5. /\ Cardinality(box') <= 1 + stray'
        /\ sent' => Cardinality(box') <= stray'
    BY <1>1, <2>2, <2>3, <2>4
  <2> QED BY <1>3, <2>5 DEF Accounted
<1> QED BY <1>4, <1>5 DEF LInv

LEMMA InitLine ==
  ASSUME Init
  PROVE  LInv
<1>1. \A w \in Window : ~ Holder(w)
  BY DEF Init, Unused, NoSave, NoSend, Holder, Shown, Busy
<1>2. Line
  BY <1>1 DEF Init, NoSave, NoSend, Line, OneHolder, RunnerLaw, WaiterLaw, SendingLaw, Busy, Running
<1>3. Accounted
  <2>1. Cardinality(box) = 0 /\ stray = 0 /\ ~ sent
    BY FS_EmptySet DEF Init
  <2> QED BY <1>1, <2>1 DEF Accounted
<1> QED BY <1>2, <1>3 DEF LInv

LEMMA NextLine ==
  ASSUME Careful, IInv, IInv', LInv, [Next]_vars
  PROVE  LInv'
<1>1. ASSUME NEW w \in Window, PageStep(w), Settled
      PROVE  LInv'
  BY <1>1, ComposeLine, PageLine, SendLine, EditDraftLine, PopOutLine, SaveButtonsLine
     DEF PageStep
<1>2. ASSUME NEW s \in Saver, SaveStep(s), Settled
      PROVE  LInv'
  BY <1>2, MarkLine, PasswordFailsLine, AppendLine, AppendFailsLine, DeleteSourceLine, SearchLine, SavedLine,
     SaveThrewLine DEF SaveStep
<1>3. CASE MailStep
  BY <1>3, TombstoneLine, SendEmailLine, MarkAgainLine, ExpungeLine, SendEmailFailsLine
     DEF MailStep
<1> QED BY <1>1, <1>2, <1>3, ResumeLine, ResumeSendLine, CrashLine, WorldLine DEF Next

\* There is one copy of the mail in Drafts, but for those a running save is about to
\* remove and those that a failed call has left behind, if the user leaves a window
\* alone while a save waits for it: persistPromise is waited for by one call at a time,
\* and each call works with the pointer the last one left (persistDraftToImap).
THEOREM OneDraftKept ==
  ASSUME Careful
  PROVE  Spec => []DraftsPruned
<1>1. Init => IInv /\ LInv
  BY InitIInv, InitLine
<1>2. IInv /\ LInv /\ [Next]_vars => (IInv /\ LInv)'
  BY NextIInv, NextLine
<1>3. IInv /\ LInv => DraftsPruned
  BY FewCopies
<1> QED BY <1>1, <1>2, <1>3, PTL DEF Spec

\* Once the mail is sent and every call is done, Drafts holds at most what failed calls
\* have left there: send waits for the pending save and expunges the copy of the
\* pointer that save left (send, expunge_draft_after_send).
THEOREM SentMailLeavesNoDraft ==
  ASSUME Careful
  PROVE  Spec => []SentLeavesNoDraft
<1>1. Init => IInv /\ LInv
  BY InitIInv, InitLine
<1>2. IInv /\ LInv /\ [Next]_vars => (IInv /\ LInv)'
  BY NextIInv, NextLine
<1>3. IInv /\ LInv => SentLeavesNoDraft
  <2> SUFFICES ASSUME IInv, LInv, sent, AtRest
               PROVE  Cardinality(box) <= stray
    BY DEF SentLeavesNoDraft
  <2> QED BY FewCopies, Sizes DEF AtRest
<1> QED BY <1>1, <1>2, <1>3, PTL DEF Spec

=============================================================================
