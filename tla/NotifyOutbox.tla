----------------------------- MODULE NotifyOutbox ----------------------------
(***************************************************************************)
(* The notification outbox: routing, claim, delivery and fallback.         *)
(*                                                                         *)
(* A producer raises a notification through the RoutingEnqueuer, which     *)
(* looks up the member's channel, contact and the household's quiet hours  *)
(* one query at a time and then inserts a row.  Each server's dispatcher   *)
(* claims a batch of due rows in one statement and then, row by row,       *)
(* sends, falls back and marks, each a call of its own.  Members change    *)
(* their settings and servers stop between any two of these.               *)
(*                                                                         *)
(* One event type and one household; time is in hours.  A household-wide   *)
(* notification has no member.  The push channel has no sender and no      *)
(* preference can name it.                                                 *)
(***************************************************************************)
EXTENDS Naturals, FiniteSets

CONSTANTS
  Notes,           \* notifications the producers raise
  Members,
  Owners,          \* the members with the owner role
  Phones,
  Servers,         \* each with its dispatcher
  Windows,         \* the quiet hours that may be set: [start, end] records
  HoursPerDay,
  MaxTime,         \* bound on the clock
  BatchSize,       \* dispatchBatchSize
  Attempts,        \* Attempts[c]: how often one Send over c may try, RetryMaxAttempts
  MaxCrashes,      \* bound on the crashes
  ConnectionsFail, \* whether the dispatcher's own writes and claims may fail
  None

ASSUME OwnersAssumption  == Owners \subseteq Members \ {"original", "fallback"}
ASSUME HoursAssumption   == HoursPerDay \in Nat \ {0}
ASSUME WindowsAssumption == Windows \subseteq [start : 0..(HoursPerDay - 1), end : 0..(HoursPerDay - 1)]
ASSUME BatchAssumption   == BatchSize \in Nat \ {0}
ASSUME BoundsAssumption  == MaxTime \in Nat /\ MaxCrashes \in Nat /\ ConnectionsFail \in BOOLEAN
ASSUME NoneAssumption    == None \notin Members \cup Phones \cup Windows

Optional == {"sms", "email"}
Channels == {"in_app"} \cup Optional

ASSUME AttemptsAssumption == Attempts \in [Optional -> Nat \ {0}]

\* A row is named by what it is for: the notification itself, the in-app
\* fallback of its failed delivery, or the warning to an owner of its bounce.
Rows == Notes \X ({"original", "fallback"} \cup Owners)

VARIABLES
  now,
  pref,       \* pref[m]: the channel the member chose, or None
  contact,    \* contact[m]: phone and consent to texts
  quiet,      \* the household's quiet hours, or None
  senders,    \* senders[s]: the optional channels wired when s started
  crashes,
  post,       \* post[n]: the Enqueue call that raises n
  row,        \* row[r]: the outbox
  disp,       \* disp[s]: the dispatcher's tick
  delivered,  \* history: how often r was handed over to its channel
  unanswered, \* history: rows the provider took without its answer arriving
  barred,     \* history: texts claimed without consent, none given since
  unsaved     \* history: rows whose fallback could not be written

settings == <<pref, contact, quiet>>
handovers == <<delivered, unanswered>>
history   == <<handovers, barred, unsaved>>
vars == <<now, settings, senders, crashes, post, row, disp, history>>

Contacts == {c \in [phone : Phones \cup {None}, opted : BOOLEAN] : c.phone = None => ~c.opted}

AbsentRow == [status |-> "absent", member |-> None, channel |-> "in_app", at |-> 0, sentAt |-> FALSE]
PendingRow(m, c, t) == [AbsentRow EXCEPT !.status = "pending", !.member = m, !.channel = c, !.at = t]

NewPost == [pc |-> "new", member |-> None, channel |-> "in_app", at |-> 0,
            asked |-> 0, window |-> None]

\* tried: the attempts of the Send in hand that were not answered, or with a
\* server error.
IdleDispatcher == [pc |-> "idle", batch |-> {}, row |-> None, phone |-> None, tried |-> 0]

\* Preferences, contacts and wired senders are what earlier deployments left.
Init ==
  /\ now = 0 /\ crashes = 0
  /\ pref \in [Members -> Channels \cup {None}]
  /\ contact \in [Members -> Contacts]
  /\ quiet \in Windows \cup {None}
  /\ senders \in [Servers -> SUBSET Optional]
  /\ post = [n \in Notes |-> NewPost]
  /\ row = [r \in Rows |-> AbsentRow]
  /\ disp = [s \in Servers |-> IdleDispatcher]
  /\ delivered = [r \in Rows |-> 0]
  /\ unanswered = {} /\ barred = {} /\ unsaved = {}

-----------------------------------------------------------------------------
(* Quiet hours and readiness. *)

SinceMidnight(t) == t % HoursPerDay

InQuietHours(w, t) ==
  /\ w # None
  /\ LET since == SinceMidnight(t)
     IN  IF w.start <= w.end THEN w.start <= since /\ since < w.end
                             ELSE since >= w.start \/ since < w.end

\* Mutant: the window's end is always on the same calendar day.
EndSameDay(w, t) == t - SinceMidnight(t) + w.end

EndAfter(w, t) ==
  LET since    == SinceMidnight(t)
      tomorrow == w.start > w.end /\ since >= w.start
  IN  t - since + w.end + (IF tomorrow THEN HoursPerDay ELSE 0)

\* Mutant: a number on file is taken for consent.
ReadyWithPhone(c) == c.phone # None

ReadyForSMS(c) == c.phone # None /\ c.opted

-----------------------------------------------------------------------------
(* Settings. *)

\* SetPreferences, served by s.
SetPreference(s, m, c) ==
  /\ c = "in_app" \/ c \in senders[s]
  /\ c = "sms" => ReadyForSMS(contact[m])
  /\ pref' = [pref EXCEPT ![m] = c]
  /\ UNCHANGED <<now, contact, quiet, senders, crashes, post, row, disp, history>>

\* Mutant: consent survives a change of number.
ConsentKept(c, p) == c.opted

\* Consent belongs to the number it was given for.
ConsentAfter(c, p) == c.opted /\ c.phone = p

\* UpdatePhone; None clears the number.
SetPhone(s, m, p) ==
  /\ p # None => "sms" \in senders[s]
  /\ contact' = [contact EXCEPT ![m] = [phone |-> p, opted |-> ConsentAfter(@, p)]]
  /\ UNCHANGED <<now, pref, quiet, senders, crashes, post, row, disp, history>>

OptIn(s, m) ==
  /\ "sms" \in senders[s]
  /\ contact[m].phone # None
  /\ contact' = [contact EXCEPT ![m].opted = TRUE]
  /\ barred' = {r \in barred : row[r].member # m}
  /\ UNCHANGED <<now, pref, quiet, senders, crashes, post, row, disp, handovers, unsaved>>

OptOut(m) ==
  /\ contact' = [contact EXCEPT ![m].opted = FALSE]
  /\ UNCHANGED <<now, pref, quiet, senders, crashes, post, row, disp, history>>

SetQuietHours(w) ==
  /\ quiet' = w
  /\ UNCHANGED <<now, pref, contact, senders, crashes, post, row, disp, history>>

Tick ==
  /\ now < MaxTime
  /\ now' = now + 1
  /\ UNCHANGED <<settings, senders, crashes, post, row, disp, history>>

-----------------------------------------------------------------------------
(* RoutingEnqueuer.Enqueue: any lookup may fail, and then the channel is    *)
(* in-app. *)

Posted(n, p) ==
  /\ post' = [post EXCEPT ![n] = p]
  /\ UNCHANGED <<now, settings, senders, crashes, disp, history>>

\* A household-wide notification is inserted as it is.
Raise(n, m) ==
  /\ post[n].pc = "new"
  /\ Posted(n, [NewPost EXCEPT !.pc = IF m = None THEN "insert" ELSE "preference",
                               !.member = m, !.at = now, !.asked = now])
  /\ UNCHANGED row

\* The channel is settled and the row can be inserted.
Routed(n, c) == Posted(n, [post[n] EXCEPT !.pc = "insert", !.channel = c]) /\ UNCHANGED row

ReadPreference(n) ==
  LET chosen == pref[post[n].member] IN
  /\ post[n].pc = "preference"
  /\ \/ Routed(n, "in_app")
     \/ chosen \in Channels \ {"sms"} /\ Routed(n, chosen)
     \/ chosen = "sms" /\ Posted(n, [post[n] EXCEPT !.pc = "contact"]) /\ UNCHANGED row

ReadContact(n) ==
  /\ post[n].pc = "contact"
  /\ \/ Routed(n, "in_app")
     \/ /\ ReadyForSMS(contact[post[n].member])
        /\ Posted(n, [post[n] EXCEPT !.pc = "quiet hours", !.channel = "sms"])
        /\ UNCHANGED row

ReadQuietHours(n) ==
  /\ post[n].pc = "quiet hours"
  /\ \/ Routed(n, "in_app")
     \/ /\ Posted(n, [post[n] EXCEPT !.pc = "insert", !.window = quiet,
                        !.at = IF InQuietHours(quiet, @) THEN EndAfter(quiet, @) ELSE @])
        /\ UNCHANGED row

\* Outbox.Enqueue; an error is the producer's to handle.
Insert(n) ==
  /\ post[n].pc = "insert"
  /\ Posted(n, [post[n] EXCEPT !.pc = "done"])
  /\ \/ row' = [row EXCEPT ![<<n, "original">>] =
                  PendingRow(post[n].member, post[n].channel, post[n].at)]
     \/ UNCHANGED row

-----------------------------------------------------------------------------
(* Dispatcher.RunOnce. *)

\* Mutant: the claim's WHERE does not look at the status.
DueWhateverStatus == {r \in Rows : row[r].status # "absent" /\ row[r].at <= now}

Due == {r \in Rows : row[r].status = "pending" /\ row[r].at <= now}

\* The batches ORDER BY scheduled_for LIMIT batchSize may select.
Batches ==
  {S \in SUBSET Due :
     /\ Cardinality(S) = BatchSize \/ (S = Due /\ Cardinality(S) < BatchSize)
     /\ \A r \in S, q \in Due \ S : row[r].at <= row[q].at}

\* ClaimDue: one statement.  When its answer is lost, nobody has the batch.
ClaimDue(s) ==
  \E S \in Batches \ {{}} :
    /\ disp[s].pc = "idle"
    /\ row' = [r \in Rows |-> IF r \in S THEN [row[r] EXCEPT !.status = "sent"] ELSE row[r]]
    /\ barred' = barred \cup
                 {r \in S : row[r].channel = "sms" /\ ~contact[row[r].member].opted}
    /\ \/ disp' = [disp EXCEPT ![s] = [IdleDispatcher EXCEPT !.pc = "deliver", !.batch = S]]
       \/ ConnectionsFail /\ UNCHANGED disp
    /\ UNCHANGED <<now, settings, senders, crashes, post, handovers, unsaved>>

Goto(s, pc) ==
  /\ disp' = [disp EXCEPT ![s].pc = pc, ![s].tried = 0]
  /\ UNCHANGED <<now, settings, senders, crashes, post>>

Take(s, r, pc, p) ==
  /\ disp[s].pc = "deliver" /\ r \in disp[s].batch
  /\ disp' = [disp EXCEPT ![s].pc = pc, ![s].row = r, ![s].phone = p]
  /\ UNCHANGED <<now, settings, senders, crashes, post, row>>

Delivered(r) == /\ delivered' = [delivered EXCEPT ![r] = @ + 1]
                /\ UNCHANGED <<unanswered, barred, unsaved>>

\* An attempt without a final answer: the message was taken, or was not.
Unanswered(r) ==
  \/ UNCHANGED history
  \/ /\ delivered' = [delivered EXCEPT ![r] = @ + 1]
     /\ unanswered' = unanswered \cup {r}
     /\ UNCHANGED <<barred, unsaved>>

\* Mutant: a channel without a sender, or a failed send, is only marked.
OnFailureMark == "mark failed"

\* What deliver does first when a row cannot be sent.
OnFailure == "fall back"

\* InAppSender.Send.
DeliverInApp(s, r) ==
  /\ row[r].channel = "in_app"
  /\ Take(s, r, "mark sent", None)
  /\ Delivered(r)

\* No sender for the channel; or the contact, or the address, is not found;
\* or the member is no longer ready.
CannotSend(s, r) ==
  /\ row[r].channel \in Optional
  /\ Take(s, r, OnFailure, None)
  /\ UNCHANGED history

\* SMSNotificationSender.Send reads the contact.
ReadNumber(s, r) ==
  LET c == contact[row[r].member] IN
  /\ row[r].channel = "sms" /\ "sms" \in senders[s]
  /\ ReadyForSMS(c)
  /\ Take(s, r, "send", c.phone)
  /\ UNCHANGED history

\* EmailNotificationSender.Send resolves the address.
ResolveEmail(s, r) ==
  /\ row[r].channel = "email" /\ "email" \in senders[s]
  /\ Take(s, r, "send", None)
  /\ UNCHANGED history

\* Mutant: the limit on attempts is taken for one on retries.
RetriesLeft(tried, c) == tried < Attempts[c]

\* Whether one more attempt may follow the one in hand.
AttemptsLeft(tried, c) == tried + 1 < Attempts[c]

\* The provider's client, within one Send: an attempt answered with a server
\* error, or not at all, is followed by another while any is left.
SendAgain(s) ==
  /\ disp[s].pc = "send"
  /\ AttemptsLeft(disp[s].tried, row[disp[s].row].channel)
  /\ disp' = [disp EXCEPT ![s].tried = @ + 1]
  /\ Unanswered(disp[s].row)
  /\ UNCHANGED <<now, settings, senders, crashes, post, row>>

\* The provider takes the message and says so.
SendAccepted(s) ==
  /\ disp[s].pc = "send"
  /\ Goto(s, "mark sent") /\ Delivered(disp[s].row)
  /\ UNCHANGED row

\* The provider refuses it, or the last attempt has no final answer, or the
\* call is cancelled.
SendFailed(s) ==
  /\ disp[s].pc = "send"
  /\ Goto(s, OnFailure)
  /\ Unanswered(disp[s].row)
  /\ UNCHANGED row

\* ErrRecipientRejected.
SendRejected(s) ==
  /\ disp[s].pc = "send" /\ row[disp[s].row].channel = "email"
  /\ Goto(s, "downgrade")
  /\ UNCHANGED <<row, history>>

\* Mutant: the downgrade replaces whatever the member has chosen.
DowngradableAlways(c) == c # None

\* DowngradeChannel's WHERE channel = from.
Downgradable(c) == c = "email"

\* handleRejection, DowngradeChannel: best effort.
Downgrade(s) ==
  LET m == row[disp[s].row].member IN
  /\ disp[s].pc = "downgrade"
  /\ disp' = [disp EXCEPT ![s].pc = "warn"]
  /\ \/ Downgradable(pref[m]) /\ pref' = [pref EXCEPT ![m] = "in_app"]
     \/ UNCHANGED pref
  /\ UNCHANGED <<now, contact, quiet, senders, crashes, post, row, history>>

\* handleRejection, warnOwners: one INSERT per owner, each best effort.
WarnOwners(s) ==
  /\ disp[s].pc = "warn"
  /\ \E told \in SUBSET Owners :
       row' = [r \in Rows |-> IF r[1] = disp[s].row[1] /\ r[2] \in told
                              THEN PendingRow(r[2], "in_app", now) ELSE row[r]]
  /\ Goto(s, OnFailure)
  /\ UNCHANGED history

\* fallbackToInApp, past the router.
FallBack(s) ==
  LET r == disp[s].row
      f == <<r[1], "fallback">>
  IN
  /\ disp[s].pc = "fall back"
  /\ Goto(s, "mark failed")
  /\ \/ /\ row' = [row EXCEPT ![f] = PendingRow(row[r].member, "in_app", now)]
        /\ UNCHANGED history
     \/ /\ ConnectionsFail
        /\ unsaved' = unsaved \cup {r}
        /\ UNCHANGED <<row, handovers, barred>>

\* deliver returns and the loop goes on.
NextRow(s) ==
  LET rest == disp[s].batch \ {disp[s].row} IN
  /\ disp' = [disp EXCEPT ![s] = IF rest = {} THEN IdleDispatcher
                                 ELSE [IdleDispatcher EXCEPT !.pc = "deliver", !.batch = rest]]
  /\ UNCHANGED <<now, settings, senders, crashes, post, history>>

MarkSent(s) ==
  LET r == disp[s].row IN
  /\ disp[s].pc = "mark sent"
  /\ NextRow(s)
  /\ \/ row' = [row EXCEPT ![r].status = "sent", ![r].sentAt = TRUE]
     \/ ConnectionsFail /\ UNCHANGED row

MarkFailed(s) ==
  /\ disp[s].pc = "mark failed"
  /\ NextRow(s)
  /\ \/ row' = [row EXCEPT ![disp[s].row].status = "failed"]
     \/ ConnectionsFail /\ UNCHANGED row

\* A server stops and is started again, perhaps with other channels, and the
\* Enqueue calls it was serving are gone.
Crash(s) ==
  \E lost \in SUBSET {n \in Notes : post[n].pc \notin {"new", "done"}} :
    /\ crashes < MaxCrashes /\ crashes' = crashes + 1
    /\ disp' = [disp EXCEPT ![s] = IdleDispatcher]
    /\ post' = [n \in Notes |-> IF n \in lost THEN [post[n] EXCEPT !.pc = "done"] ELSE post[n]]
    /\ \E wired \in SUBSET Optional : senders' = [senders EXCEPT ![s] = wired]
    /\ UNCHANGED <<now, settings, row, history>>

-----------------------------------------------------------------------------
Produce(n) ==
  \/ \E m \in Members \cup {None} : Raise(n, m)
  \/ ReadPreference(n) \/ ReadContact(n) \/ ReadQuietHours(n) \/ Insert(n)

Dispatch(s) ==
  \/ ClaimDue(s)
  \/ \E r \in Rows : DeliverInApp(s, r) \/ CannotSend(s, r) \/ ReadNumber(s, r)
                     \/ ResolveEmail(s, r)
  \/ SendAgain(s) \/ SendAccepted(s) \/ SendFailed(s) \/ SendRejected(s)
  \/ Downgrade(s) \/ WarnOwners(s) \/ FallBack(s)
  \/ MarkSent(s) \/ MarkFailed(s)

Configure ==
  \/ \E s \in Servers, m \in Members, c \in Channels : SetPreference(s, m, c)
  \/ \E s \in Servers, m \in Members, p \in Phones \cup {None} : SetPhone(s, m, p)
  \/ \E s \in Servers, m \in Members : OptIn(s, m)
  \/ \E m \in Members : OptOut(m)
  \/ \E w \in Windows \cup {None} : SetQuietHours(w)

Next ==
  \/ Tick
  \/ Configure
  \/ \E n \in Notes : Produce(n)
  \/ \E s \in Servers : Dispatch(s) \/ Crash(s)

Spec == Init /\ [][Next]_vars

\* Every server's dispatcher keeps polling.
FairSpec == Spec /\ \A s \in Servers : WF_vars(Dispatch(s))

-----------------------------------------------------------------------------
(* Properties. *)

DispatcherPCs == {"idle", "deliver", "send", "downgrade", "warn",
                  "fall back", "mark failed", "mark sent"}

\* Types.  Consent stands only beside a number; a text that is being sent has
\* one; a busy dispatcher holds a batch.
TypeOK ==
  /\ now \in 0..MaxTime /\ crashes \in 0..MaxCrashes
  /\ pref \in [Members -> Channels \cup {None}]
  /\ contact \in [Members -> Contacts]
  /\ quiet \in Windows \cup {None}
  /\ senders \in [Servers -> SUBSET Optional]
  /\ post \in [Notes -> [pc : {"new", "preference", "contact", "quiet hours", "insert", "done"},
                         member : Members \cup {None}, channel : Channels,
                         at : Nat, asked : Nat, window : Windows \cup {None}]]
  /\ row \in [Rows -> [status : {"absent", "pending", "sent", "failed"},
                       member : Members \cup {None}, channel : Channels,
                       at : Nat, sentAt : BOOLEAN]]
  /\ disp \in [Servers -> [pc : DispatcherPCs, batch : SUBSET Rows,
                           row : Rows \cup {None}, phone : Phones \cup {None}, tried : Nat]]
  /\ \A s \in Servers : disp[s].pc \notin {"idle", "deliver"} => disp[s].row \in disp[s].batch
  /\ delivered \in [Rows -> Nat]
  /\ unanswered \subseteq Rows /\ barred \subseteq Rows /\ unsaved \subseteq Rows

\* One Send hands a row over, whichever servers poll, fail and restart: the
\* claim takes a row out of everyone else's reach for good.  A member gets it
\* twice only by the retries within that Send, after an attempt the provider
\* took without its answer arriving, and never more often than one Send tries.
OneSendPerRow ==
  \A r \in Rows : delivered[r] > 1 =>
    r \in unanswered /\ delivered[r] <= Attempts[row[r].channel]

\* A row marked delivered was delivered, and a text or mail marked failed has
\* its in-app fallback in the outbox, unless writing that failed too.
NothingSilentlyLost ==
  \A r \in Rows :
    /\ row[r].sentAt => delivered[r] > 0
    /\ row[r].status = "failed" =>
         row[<<r[1], "fallback">>].status # "absent" \/ r \in unsaved

\* A text that was waiting when its member withdrew consent is not sent:
\* the sender reads the contact again after the claim.
NoTextAfterOptOut == \A r \in barred : delivered[r] = 0

\* A text raised in quiet hours is scheduled for the first hour outside them,
\* whether or not the window crosses midnight; any other is not put off.
DeferredToWindowEnd ==
  \A n \in Notes :
    LET p == post[n] IN
    p.pc = "insert" /\ p.channel = "sms" =>
      /\ ~InQuietHours(p.window, p.at)
      /\ p.asked <= p.at
      /\ \A t \in p.asked..(p.at - 1) : InQuietHours(p.window, t)

\* A bounced mail takes away the choice of mail only: a channel the member
\* chose while the mail was under way stays chosen.
BouncesSpareOtherChoices ==
  [][\A m \in Members : pref'[m] # pref[m] /\ disp' # disp => pref[m] = "email"]_vars

\* Once it is due a notification is settled: delivered over its channel, or
\* in-app after its channel failed.
Settled(r) == row[r].sentAt \/ row[<<r[1], "fallback">>].sentAt

DueIsSettled == \A r \in Rows : r \in Due ~> Settled(r)
=============================================================================
