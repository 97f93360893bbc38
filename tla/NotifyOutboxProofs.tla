------------------------- MODULE NotifyOutboxProofs --------------------------
(***************************************************************************)
(* Proofs about the notification outbox, for any number of notifications,  *)
(* members, owners and servers.                                            *)
(*                                                                         *)
(* The claim marks a row sent before anything is sent, so what a row says  *)
(* of itself means little while a dispatcher has it in hand.  The          *)
(* invariant says it of the dispatchers: a row is in one hand at most, was *)
(* claimed and not marked since, and has not been handed over before its   *)
(* turn, nor since oftener than its Send tried; what is not claimed is in  *)
(* nobody's hand.  The rows that a failed delivery adds exist only once    *)
(* the dispatcher has got past adding them.                                *)
(***************************************************************************)
EXTENDS NotifyOutbox, TLAPS

-----------------------------------------------------------------------------
(* Records. *)

PostRecord == [pc : {"new", "preference", "contact", "quiet hours", "insert", "done"},
               member : Members \cup {None}, channel : Channels,
               at : Nat, asked : Nat, window : Windows \cup {None}]

RowRecord == [status : {"absent", "pending", "sent", "failed"},
              member : Members \cup {None}, channel : Channels,
              at : Nat, sentAt : BOOLEAN]

DispRecord == [pc : DispatcherPCs, batch : SUBSET Rows,
               row : Rows \cup {None}, phone : Phones \cup {None}, tried : Nat]

Original(n) == <<n, "original">>
Fallback(n) == <<n, "fallback">>
FallbackOf(r) == Fallback(r[1])

-----------------------------------------------------------------------------
(* The inductive invariant. *)

\* How often a row has been handed over, or a Send has tried.
NotYet(k) == k = 0
Once(k) == k = 1
Given(k) == k > 0

\* What is known of row r over channel c, handed over k times, when U are the
\* rows the provider took without answering: at any time, and while its Send
\* has tried t times in vain.
Accounted(r, k, U, c) == NotYet(k) \/ Once(k) \/ (r \in U /\ k <= Attempts[c])
Underway(r, k, U, c, t) == (r \in U \/ NotYet(k)) /\ k <= t /\ t < Attempts[c]

\* What quiet hours make of a text.
PutOff(p) ==
  /\ ~InQuietHours(p.window, p.at)
  /\ p.asked <= p.at
  /\ \A t \in p.asked..(p.at - 1) : InQuietHours(p.window, t)

\* What is known of a call to Enqueue; its row is not there before it ends.
PostOK(n) ==
  /\ post[n].pc \in {"preference", "contact", "quiet hours"} => post[n].member \in Members
  /\ post[n].channel \in Optional => post[n].member \in Members
  /\ post[n].pc = "quiet hours" => post[n].channel = "sms"
  /\ post[n].pc \in {"preference", "contact"} => post[n].channel = "in_app"
  /\ post[n].pc \in {"preference", "contact", "quiet hours"} => post[n].at = post[n].asked
  /\ post[n].pc = "insert" /\ post[n].channel = "sms" => PutOff(post[n])
  /\ post[n].pc # "done" => row[Original(n)].status = "absent"

\* Nobody has in hand, or has delivered, what is not yet claimed; only what a
\* producer raised goes over an optional channel.
RowOK(r) ==
  /\ row[r].channel \in Optional => r[2] = "original" /\ row[r].member \in Members
  /\ row[r].status \in {"absent", "pending"} =>
       /\ NotYet(delivered[r]) /\ ~row[r].sentAt
       /\ \A s \in Servers : r \notin disp[s].batch
  /\ row[r].sentAt => Given(delivered[r])
  /\ Accounted(r, delivered[r], unanswered, row[r].channel)
  /\ row[r].status = "failed" => row[FallbackOf(r)].status # "absent" \/ r \in unsaved

\* A row in hand has been claimed, and not handed over before its turn.
HandOK(s) ==
  /\ disp[s].pc \notin {"idle", "deliver"} => disp[s].row \in disp[s].batch
  /\ \A r \in disp[s].batch :
       /\ row[r].status = "sent" /\ ~row[r].sentAt
       /\ r # disp[s].row \/ disp[s].pc = "deliver" => NotYet(delivered[r])
  /\ disp[s].pc = "idle" => disp[s].batch = {}
  /\ disp[s].pc = "deliver" => NotYet(disp[s].tried)
  /\ disp[s].pc \in {"send", "downgrade", "warn", "fall back", "mark failed"} =>
       row[disp[s].row].channel \in Optional
  /\ disp[s].pc = "send" =>
       /\ disp[s].row \notin barred
       /\ Underway(disp[s].row, delivered[disp[s].row], unanswered, row[disp[s].row].channel, disp[s].tried)
  /\ disp[s].pc = "mark sent" => Given(delivered[disp[s].row])
  /\ disp[s].pc = "mark failed" =>
       row[FallbackOf(disp[s].row)].status # "absent" \/ disp[s].row \in unsaved

\* A row is in one dispatcher's hand at most.
OneHand == \A s, u \in Servers : s # u => disp[s].batch \cap disp[u].batch = {}

\* The rows that a failed delivery adds come once: whoever adds them has the
\* row in hand, and is past adding them when they are there.
OffspringOK(n) ==
  /\ row[Fallback(n)].status # "absent" =>
       /\ row[Original(n)].status \in {"sent", "failed"}
       /\ \A s \in Servers : Original(n) \in disp[s].batch =>
            disp[s].row = Original(n) /\ disp[s].pc = "mark failed"
  /\ \A w \in Owners : row[<<n, w>>].status # "absent" =>
       /\ row[Original(n)].status \in {"sent", "failed"}
       /\ \A s \in Servers : Original(n) \in disp[s].batch =>
            disp[s].row = Original(n) /\ disp[s].pc \in {"fall back", "mark failed"}

\* A text claimed without consent is one, and there is no consent yet.
BarredOK(r) ==
  /\ row[r].channel = "sms" /\ row[r].status \in {"sent", "failed"}
  /\ ~contact[row[r].member].opted /\ NotYet(delivered[r])

IInv == /\ TypeOK
        /\ \A n \in Notes : PostOK(n)
        /\ \A r \in Rows : RowOK(r)
        /\ \A s \in Servers : HandOK(s)
        /\ OneHand
        /\ \A n \in Notes : OffspringOK(n)
        /\ \A r \in barred : BarredOK(r)
-----------------------------------------------------------------------------
(* Quiet hours. *)

\* An hour of a day is found again in the hours since the epoch.
LEMMA HourOfDay ==
  \A q \in Nat, d \in Nat : d < HoursPerDay => (HoursPerDay * q + d) % HoursPerDay = d
BY HoursAssumption

\* The end of a window is the first hour outside it, on this day or the next.
LEMMA EndOfWindow ==
  ASSUME NEW w \in Windows, NEW t \in Nat, InQuietHours(w, t)
  PROVE  /\ EndAfter(w, t) \in Nat /\ t <= EndAfter(w, t)
         /\ ~InQuietHours(w, EndAfter(w, t))
         /\ \A u \in t..(EndAfter(w, t) - 1) : InQuietHours(w, u)
<1> DEFINE since == t % HoursPerDay
<1>1. HoursPerDay \in Nat /\ HoursPerDay > 0
  BY HoursAssumption
<1>2. since \in 0..(HoursPerDay - 1)
  BY <1>1
<1>3. PICK q \in Nat : t = HoursPerDay * q + since
  BY <1>1
<1> DEFINE midnight == HoursPerDay * q
<1>4. midnight \in Nat /\ t = midnight + since /\ midnight + HoursPerDay = HoursPerDay * (q + 1)
  BY <1>1, <1>3
<1>5. \A d \in Nat : d < HoursPerDay => /\ (midnight + d) % HoursPerDay = d
                                        /\ (midnight + HoursPerDay + d) % HoursPerDay = d
  <2>1. \A d \in Nat : d < HoursPerDay => /\ (HoursPerDay * q + d) % HoursPerDay = d
                                          /\ (HoursPerDay * (q + 1) + d) % HoursPerDay = d
    BY <1>1, HourOfDay
  <2> QED
    BY ONLY <2>1, <1>4
<1>6. w.start \in 0..(HoursPerDay - 1) /\ w.end \in 0..(HoursPerDay - 1) /\ w # None
  BY WindowsAssumption, NoneAssumption
<1>7. IF w.start <= w.end THEN w.start <= since /\ since < w.end
                          ELSE since >= w.start \/ since < w.end
  BY DEF InQuietHours, SinceMidnight
<1>8. \A u : InQuietHours(w, u) <=>
        IF w.start <= w.end THEN w.start <= u % HoursPerDay /\ u % HoursPerDay < w.end
                            ELSE u % HoursPerDay >= w.start \/ u % HoursPerDay < w.end
  BY <1>6 DEF InQuietHours, SinceMidnight
<1>9. EndAfter(w, t) = t - since + w.end + (IF w.start > w.end /\ since >= w.start THEN HoursPerDay ELSE 0)
  BY DEF EndAfter, SinceMidnight
<1> HIDE DEF since, midnight
<1>10. CASE w.start <= w.end \/ since < w.start
  <2>1. EndAfter(w, t) = midnight + w.end /\ since < w.end
    BY <1>1, <1>2, <1>4, <1>6, <1>7, <1>9, <1>10
  <2>2. (midnight + w.end) % HoursPerDay = w.end
    BY <1>1, <1>5, <1>6
  <2>3. ~InQuietHours(w, EndAfter(w, t))
    BY <2>1, <2>2, <1>1, <1>6, <1>8, <1>2, <1>10
  <2>4. ASSUME NEW u \in t..(EndAfter(w, t) - 1) PROVE InQuietHours(w, u)
    <3>1. u - midnight \in Nat /\ since <= u - midnight /\ u - midnight < w.end /\ u = midnight + (u - midnight)
      BY <2>1, <1>1, <1>2, <1>4, <1>6
    <3>2. u % HoursPerDay = u - midnight
      BY <3>1, <1>5, <1>1, <1>6
    <3> QED
      BY <3>1, <3>2, <1>1, <1>2, <1>4, <1>6, <1>7, <1>8, <1>10
  <2> QED
    BY <2>1, <2>3, <2>4, <1>1, <1>2, <1>4, <1>6
<1>11. CASE w.start > w.end /\ since >= w.start
  <2>1. EndAfter(w, t) = midnight + HoursPerDay + w.end
    BY <1>1, <1>2, <1>4, <1>6, <1>9, <1>11
  <2>2. (midnight + HoursPerDay + w.end) % HoursPerDay = w.end
    BY <1>1, <1>5, <1>6
  <2>3. ~InQuietHours(w, EndAfter(w, t))
    BY <2>1, <2>2, <1>1, <1>6, <1>8, <1>11
  <2>4. ASSUME NEW u \in t..(EndAfter(w, t) - 1) PROVE InQuietHours(w, u)
    <3>1. CASE u < midnight + HoursPerDay
      <4>1. u - midnight \in Nat /\ since <= u - midnight /\ u - midnight < HoursPerDay /\ u = midnight + (u - midnight)
        BY <2>1, <3>1, <1>1, <1>2, <1>4, <1>6
      <4>2. u % HoursPerDay = u - midnight
        BY <4>1, <1>5, <1>1, <1>6
      <4> QED
        BY <4>1, <4>2, <1>1, <1>2, <1>4, <1>6, <1>8, <1>11
    <3>2. CASE u >= midnight + HoursPerDay
      <4> DEFINE d == u - midnight - HoursPerDay
      <4>1. d \in Nat /\ d < w.end /\ u = midnight + HoursPerDay + d
        BY <2>1, <3>2, <1>1, <1>2, <1>4, <1>6
      <4>2. u % HoursPerDay = d
        BY <4>1, <1>5, <1>1, <1>6
      <4> QED
        BY <4>1, <4>2, <1>1, <1>2, <1>4, <1>6, <1>8, <1>11
    <3> QED
      BY <3>1, <3>2, <2>1, <1>1, <1>4, <1>6
  <2> QED
    BY <2>1, <2>3, <2>4, <1>1, <1>2, <1>4, <1>6
<1> QED
  BY <1>10, <1>11, <1>1, <1>2, <1>6

-----------------------------------------------------------------------------
(* Rows and types. *)

LEMMA Vocabulary ==
  /\ Channels = {"in_app", "sms", "email"} /\ Optional = {"sms", "email"}
  /\ \A w \in Owners : w # "original" /\ w # "fallback" /\ w \in Members
  /\ \A n \in Notes : /\ Original(n) \in Rows /\ Fallback(n) \in Rows
                      /\ \A w \in Owners : <<n, w>> \in Rows
  /\ \A r \in Rows : r[1] \in Notes /\ r = <<r[1], r[2]>>
                     /\ (r[2] = "original" \/ r[2] = "fallback" \/ r[2] \in Owners)
BY OwnersAssumption DEF Channels, Optional, Rows, Original, Fallback

\* A row that is inserted.
LEMMA PendingRowFields ==
  \A m, c, t : /\ PendingRow(m, c, t).status = "pending" /\ PendingRow(m, c, t).member = m
               /\ PendingRow(m, c, t).channel = c /\ PendingRow(m, c, t).at = t
               /\ PendingRow(m, c, t).sentAt = FALSE
               /\ m \in Members \cup {None} /\ c \in Channels /\ t \in Nat =>
                    PendingRow(m, c, t) \in RowRecord
<1> TAKE m, c, t
<1>1. /\ PendingRow(m, c, t).status = "pending" /\ PendingRow(m, c, t).member = m
      /\ PendingRow(m, c, t).channel = c /\ PendingRow(m, c, t).at = t
      /\ PendingRow(m, c, t).sentAt = FALSE
  BY DEF PendingRow, AbsentRow
<1>2. ASSUME m \in Members \cup {None}, c \in Channels, t \in Nat
      PROVE  PendingRow(m, c, t) \in RowRecord
  BY <1>2 DEF PendingRow, AbsentRow, RowRecord
<1> QED
  BY <1>1, <1>2

LEMMA Types ==
  ASSUME TypeOK
  PROVE  /\ now \in Nat
         /\ \A n \in Notes : post[n] \in PostRecord
         /\ \A r \in Rows : row[r] \in RowRecord /\ delivered[r] \in Nat
         /\ \A s \in Servers : disp[s] \in DispRecord
         /\ \A m \in Members : contact[m] \in Contacts
         /\ DOMAIN row = Rows /\ DOMAIN delivered = Rows
<1>1. now \in Nat
  <2>1. now \in 0..MaxTime
    BY DEF TypeOK
  <2>2. MaxTime \in Nat
    BY BoundsAssumption
  <2> QED
    BY <2>1, <2>2
<1>2. /\ post \in [Notes -> PostRecord] /\ row \in [Rows -> RowRecord]
      /\ disp \in [Servers -> DispRecord] /\ delivered \in [Rows -> Nat]
      /\ contact \in [Members -> Contacts]
  BY DEF TypeOK, PostRecord, RowRecord, DispRecord
<1> QED
  BY <1>1, <1>2

\* What is known of a row outlasts the answers that others do not get, and a
\* Send that begins has done nothing yet.
LEMMA Accounts ==
  /\ \A r, k, U, c : NotYet(k) => Accounted(r, k, U, c)
  /\ \A r, k, U, c : \A V : U \subseteq V /\ Accounted(r, k, U, c) => Accounted(r, k, V, c)
  /\ \A r, k, U, c, t : \A V : U \subseteq V /\ Underway(r, k, U, c, t) => Underway(r, k, V, c, t)
  /\ \A r, k, U, t : \A c \in Optional : NotYet(k) /\ NotYet(t) => Underway(r, k, U, c, t)
<1>1. \A c \in Optional : Attempts[c] \in Nat \ {0}
  BY AttemptsAssumption
<1>2. \A r, k, U, t : \A c \in Optional : NotYet(k) /\ NotYet(t) => Underway(r, k, U, c, t)
  BY ONLY <1>1 DEF NotYet, Underway
<1> QED
  BY ONLY <1>2 DEF Accounted, Underway

\* A delivery of what was not delivered yet.
LEMMA Delivery ==
  ASSUME delivered \in [Rows -> Nat], NEW r \in Rows, NotYet(delivered[r]), Delivered(r)
  PROVE  /\ delivered' \in [Rows -> Nat] /\ Once(delivered'[r]) /\ Given(delivered'[r])
         /\ \A q \in Rows : q # r => delivered'[q] = delivered[q]
         /\ UNCHANGED <<unanswered, barred, unsaved>>
BY DEF Delivered, NotYet, Once, Given

\* One attempt of a Send more, answered or not.
LEMMA Handover ==
  ASSUME delivered \in [Rows -> Nat], unanswered \subseteq Rows, NEW r \in Rows,
         NEW c \in Optional, NEW t \in Nat, Underway(r, delivered[r], unanswered, c, t),
         Delivered(r) \/ Unanswered(r)
  PROVE  /\ delivered' \in [Rows -> Nat]
         /\ unanswered' \subseteq Rows /\ unanswered \subseteq unanswered'
         /\ \A q \in Rows : q # r => delivered'[q] = delivered[q]
         /\ UNCHANGED <<barred, unsaved>>
         /\ Accounted(r, delivered'[r], unanswered', c)
         /\ Delivered(r) => Given(delivered'[r])
         /\ Unanswered(r) /\ AttemptsLeft(t, c) => Underway(r, delivered'[r], unanswered', c, t + 1)
<1> DEFINE k == delivered[r]
<1>1. Attempts[c] \in Nat /\ k \in Nat
  BY AttemptsAssumption
<1>2. k <= t /\ t < Attempts[c] /\ (r \in unanswered \/ k = 0)
  BY DEF Underway, NotYet
<1>3. CASE Delivered(r)
  <2>1. delivered' = [delivered EXCEPT ![r] = k + 1] /\ UNCHANGED <<unanswered, barred, unsaved>>
    BY <1>3 DEF Delivered
  <2>2. /\ delivered' \in [Rows -> Nat] /\ delivered'[r] = k + 1
        /\ \A q \in Rows : q # r => delivered'[q] = delivered[q]
    BY <2>1, <1>1
  <2>3. ~Unanswered(r) \/ (k + 1 = k) \/ r \in unanswered
    BY <2>1, <2>2 DEF Unanswered, history, handovers
  <2> HIDE DEF k
  <2>4. Accounted(r, k + 1, unanswered, c) /\ Given(k + 1)
    BY ONLY <1>1, <1>2, t \in Nat DEF Accounted, NotYet, Once, Given
  <2>5. Unanswered(r) /\ AttemptsLeft(t, c) => Underway(r, k + 1, unanswered, c, t + 1)
    BY ONLY <2>3, <1>1, <1>2, t \in Nat DEF Underway, AttemptsLeft, NotYet
  <2> QED
    BY <2>1, <2>2, <2>4, <2>5
<1>4. CASE Unanswered(r) /\ ~Delivered(r)
  <2>1. \/ delivered' = delivered /\ unanswered' = unanswered
        \/ delivered' = [delivered EXCEPT ![r] = k + 1] /\ unanswered' = unanswered \cup {r}
    BY <1>4 DEF Unanswered, history, handovers
  <2>2. UNCHANGED <<barred, unsaved>>
    BY <1>4 DEF Unanswered, history
  <2>3. PICK j \in {k, k + 1} :
          /\ delivered' \in [Rows -> Nat] /\ delivered'[r] = j
          /\ \A q \in Rows : q # r => delivered'[q] = delivered[q]
          /\ unanswered \subseteq unanswered' /\ unanswered' \subseteq Rows
          /\ j = k \/ r \in unanswered'
    BY <2>1, <1>1
  <2> HIDE DEF k
  <2>4. r \in unanswered' \/ j = 0
    BY ONLY <2>3, <1>2
  <2>5. Accounted(r, j, unanswered', c)
    BY ONLY <2>3, <2>4, <1>1, <1>2, t \in Nat DEF Accounted, NotYet
  <2>6. AttemptsLeft(t, c) => Underway(r, j, unanswered', c, t + 1)
    BY ONLY <2>3, <2>4, <1>1, <1>2, t \in Nat DEF Underway, AttemptsLeft, NotYet
  <2> QED
    BY <1>4, <2>2, <2>3, <2>5, <2>6
<1> QED
  BY <1>3, <1>4

\* The parts of the invariant about the outbox and the dispatchers need
\* nothing else, and of the history only that fewer texts are barred.
LEMMA OutboxRests ==
  ASSUME IInv, UNCHANGED <<row, disp, handovers, unsaved>>, barred' \subseteq barred
  PROVE  /\ (\A r \in Rows : RowOK(r))'
         /\ (\A s \in Servers : HandOK(s))'
         /\ OneHand'
         /\ (\A n \in Notes : OffspringOK(n))'
<1> USE DEF handovers
<1>1. (\A r \in Rows : RowOK(r))'
  BY DEF IInv, RowOK
<1>2. (\A s \in Servers : HandOK(s))'
  BY DEF IInv, HandOK, Fallback
<1>3. OneHand' /\ (\A n \in Notes : OffspringOK(n))'
  BY DEF IInv, OneHand, OffspringOK, Original, Fallback
<1> QED
  BY <1>1, <1>2, <1>3

LEMMA PostsRest ==
  ASSUME IInv, UNCHANGED <<post, row>>
  PROVE  (\A n \in Notes : PostOK(n))'
BY ZenonT(60) DEF IInv, PostOK, Original, PutOff, InQuietHours, SinceMidnight

\* A text that was barred stays so unless its member consents.
LEMMA BarredRest ==
  ASSUME IInv, UNCHANGED <<row, delivered>>, barred' \subseteq barred,
         \A r \in barred' : ~contact[row[r].member].opted => ~contact'[row[r].member].opted
  PROVE  (\A r \in barred : BarredOK(r))'
BY DEF IInv, BarredOK

-----------------------------------------------------------------------------
(* Settings and the clock. *)

LEMMA ConfigureKeeps ==
  ASSUME IInv, Configure
  PROVE  IInv'
<1> USE DEF settings, history, handovers
<1>1. ASSUME NEW s \in Servers, NEW m \in Members, NEW c \in Channels, SetPreference(s, m, c)
      PROVE  IInv'
  <2>1. TypeOK'
    BY <1>1 DEF SetPreference, IInv, TypeOK
  <2> QED
    BY <1>1, <2>1, OutboxRests, PostsRest, BarredRest DEF SetPreference, IInv
<1>2. ASSUME NEW s \in Servers, NEW m \in Members, NEW p \in Phones \cup {None}, SetPhone(s, m, p)
      PROVE  IInv'
  <2>1. contact \in [Members -> Contacts]
    BY DEF IInv, TypeOK
  <2>2. [phone |-> p, opted |-> ConsentAfter(contact[m], p)] \in Contacts
    BY <2>1, NoneAssumption DEF Contacts, ConsentAfter
  <2>3. contact' \in [Members -> Contacts]
    BY <1>2, <2>1, <2>2 DEF SetPhone
  <2>4. TypeOK'
    BY <1>2, <2>3 DEF SetPhone, IInv, TypeOK
  <2>5. \A k \in Members : ~contact[k].opted => ~contact'[k].opted
    BY <1>2, <2>1 DEF SetPhone, ConsentAfter, Contacts
  <2>6. \A r \in barred : row[r].member \in Members
    BY Vocabulary DEF IInv, BarredOK, RowOK, TypeOK
  <2> QED
    BY <1>2, <2>4, <2>5, <2>6, OutboxRests, PostsRest, BarredRest DEF SetPhone, IInv
<1>3. ASSUME NEW s \in Servers, NEW m \in Members, OptIn(s, m)
      PROVE  IInv'
  <2>1. contact \in [Members -> Contacts]
    BY DEF IInv, TypeOK
  <2>2. contact' \in [Members -> Contacts] /\ \A k \in Members : k # m => contact'[k] = contact[k]
    BY <1>3, <2>1 DEF OptIn, Contacts
  <2>3. TypeOK'
    BY <1>3, <2>2 DEF OptIn, IInv, TypeOK
  <2>4. \A r \in barred' : row[r].member \in Members /\ row[r].member # m
    BY <1>3, Vocabulary DEF OptIn, IInv, BarredOK, RowOK, TypeOK
  <2> QED
    BY <1>3, <2>2, <2>3, <2>4, OutboxRests, PostsRest, BarredRest DEF OptIn, IInv
<1>4. ASSUME NEW m \in Members, OptOut(m)
      PROVE  IInv'
  <2>1. contact \in [Members -> Contacts]
    BY DEF IInv, TypeOK
  <2>2. contact' \in [Members -> Contacts] /\ \A k \in Members : contact'[k].opted => contact[k].opted
    BY <1>4, <2>1 DEF OptOut, Contacts
  <2>3. TypeOK'
    BY <1>4, <2>2 DEF OptOut, IInv, TypeOK
  <2>4. \A r \in barred : row[r].member \in Members
    BY Vocabulary DEF IInv, BarredOK, RowOK, TypeOK
  <2> QED
    BY <1>4, <2>2, <2>3, <2>4, OutboxRests, PostsRest, BarredRest DEF OptOut, IInv
<1>5. ASSUME NEW w \in Windows \cup {None}, SetQuietHours(w)
      PROVE  IInv'
  <2>1. TypeOK'
    BY <1>5 DEF SetQuietHours, IInv, TypeOK
  <2> QED
    BY <1>5, <2>1, OutboxRests, PostsRest, BarredRest DEF SetQuietHours, IInv
<1> QED
  BY <1>1, <1>2, <1>3, <1>4, <1>5 DEF Configure

LEMMA TickKeeps ==
  ASSUME IInv, Tick
  PROVE  IInv'
<1> USE DEF settings, history, handovers
<1>1. now' \in 0..MaxTime
  <2>1. now \in 0..MaxTime
    BY DEF IInv, TypeOK
  <2>2. now < MaxTime /\ now' = now + 1
    BY DEF Tick
  <2>3. MaxTime \in Nat
    BY BoundsAssumption
  <2> QED
    BY <2>1, <2>2, <2>3
<1>2. TypeOK'
  BY <1>1 DEF Tick, IInv, TypeOK
<1> QED
  BY <1>2, OutboxRests, PostsRest, BarredRest DEF Tick, IInv

-----------------------------------------------------------------------------
(* Producers. *)

\* A lookup changes nothing but the call it belongs to.
LEMMA LookupKeeps ==
  ASSUME IInv, NEW n \in Notes, NEW p \in PostRecord, Posted(n, p), UNCHANGED row,
         post[n].pc # "done" \/ p.pc = "done",
         p.pc \in {"preference", "contact", "quiet hours"} => p.member \in Members /\ p.at = p.asked,
         p.channel \in Optional => p.member \in Members,
         p.pc = "quiet hours" => p.channel = "sms",
         p.pc \in {"preference", "contact"} => p.channel = "in_app",
         p.pc = "insert" /\ p.channel = "sms" => PutOff(p)
  PROVE  IInv'
<1> USE DEF settings, history, handovers
<1>1. post \in [Notes -> PostRecord]
  BY DEF IInv, TypeOK, PostRecord
<1>2. /\ post'[n] = p /\ \A k \in Notes : k # n => post'[k] = post[k]
      /\ post' \in [Notes -> PostRecord]
  BY <1>1 DEF Posted
<1>3. TypeOK'
  BY <1>2 DEF Posted, IInv, TypeOK, PostRecord
<1>4. ASSUME NEW k \in Notes PROVE PostOK(k)'
  <2>1. PostOK(k) /\ UNCHANGED row
    BY DEF IInv
  <2>2. CASE k = n
    BY <2>1, <2>2, <1>2 DEF PostOK, Original, PutOff, InQuietHours, SinceMidnight
  <2>3. CASE k # n
    <3>1. post'[k] = post[k]
      BY <1>2, <2>3
    <3> QED
      BY ONLY <2>1, <3>1 DEF PostOK, Original, PutOff, InQuietHours, SinceMidnight
  <2> QED
    BY <2>2, <2>3
<1> QED
  BY <1>3, <1>4, OutboxRests, BarredRest DEF Posted, IInv

LEMMA RaiseKeeps ==
  ASSUME IInv, NEW n \in Notes, NEW m \in Members \cup {None}, Raise(n, m)
  PROVE  IInv'
<1> DEFINE p == [NewPost EXCEPT !.pc = IF m = None THEN "insert" ELSE "preference",
                                !.member = m, !.at = now, !.asked = now]
<1>1. now \in Nat
  BY Types DEF IInv
<1>2. /\ p.pc = (IF m = None THEN "insert" ELSE "preference") /\ p.member = m
      /\ p.channel = "in_app" /\ p.at = now /\ p.asked = now /\ p.window = None
      /\ p \in PostRecord
  BY <1>1 DEF NewPost, PostRecord, Channels
<1>3. Posted(n, p) /\ UNCHANGED row /\ post[n].pc = "new"
  BY DEF Raise
<1> HIDE DEF p
<1> QED
  BY <1>2, <1>3, LookupKeeps, Vocabulary, NoneAssumption

\* A call that settles its channel without a text.
LEMMA RoutedKeeps ==
  ASSUME IInv, NEW n \in Notes, NEW c \in Channels, Routed(n, c), c # "sms",
         post[n].pc \in {"preference", "contact", "quiet hours"}
  PROVE  IInv'
<1> DEFINE p == [post[n] EXCEPT !.pc = "insert", !.channel = c]
<1>1. post[n] \in PostRecord /\ post[n].member \in Members
  BY Types DEF IInv, PostOK
<1>2. p.pc = "insert" /\ p.channel = c /\ p.member = post[n].member /\ p \in PostRecord
  BY <1>1 DEF PostRecord
<1>3. Posted(n, p) /\ UNCHANGED row
  BY DEF Routed
<1> HIDE DEF p
<1> QED
  BY <1>1, <1>2, <1>3, LookupKeeps

LEMMA ReadPreferenceKeeps ==
  ASSUME IInv, NEW n \in Notes, ReadPreference(n)
  PROVE  IInv'
<1>1. post[n] \in PostRecord /\ post[n].pc = "preference"
  BY Types DEF IInv, ReadPreference
<1>2. CASE \E c \in Channels : c # "sms" /\ Routed(n, c)
  BY <1>1, <1>2, RoutedKeeps
<1>3. CASE Posted(n, [post[n] EXCEPT !.pc = "contact"]) /\ UNCHANGED row
  <2> DEFINE p == [post[n] EXCEPT !.pc = "contact"]
  <2>1. /\ p.pc = "contact" /\ p.channel = post[n].channel /\ p.member = post[n].member
        /\ p.at = post[n].at /\ p.asked = post[n].asked /\ p \in PostRecord
    BY <1>1 DEF PostRecord
  <2>2. /\ post[n].member \in Members /\ post[n].at = post[n].asked
        /\ post[n].channel = "in_app"
    BY <1>1 DEF IInv, PostOK
  <2>3. Posted(n, p) /\ UNCHANGED row
    BY <1>3
  <2> HIDE DEF p
  <2> QED
    BY <1>1, <2>1, <2>2, <2>3, LookupKeeps
<1> QED
  BY <1>2, <1>3, Vocabulary DEF ReadPreference

LEMMA ReadContactKeeps ==
  ASSUME IInv, NEW n \in Notes, ReadContact(n)
  PROVE  IInv'
<1>1. post[n] \in PostRecord /\ post[n].pc = "contact"
  BY Types DEF IInv, ReadContact
<1>2. CASE Routed(n, "in_app")
  BY <1>1, <1>2, RoutedKeeps, Vocabulary
<1>3. CASE Posted(n, [post[n] EXCEPT !.pc = "quiet hours", !.channel = "sms"]) /\ UNCHANGED row
  <2> DEFINE p == [post[n] EXCEPT !.pc = "quiet hours", !.channel = "sms"]
  <2>1. /\ p.pc = "quiet hours" /\ p.channel = "sms" /\ p.member = post[n].member
        /\ p.at = post[n].at /\ p.asked = post[n].asked /\ p \in PostRecord
    BY <1>1 DEF PostRecord, Channels, Optional
  <2>2. post[n].member \in Members /\ post[n].at = post[n].asked
    BY <1>1 DEF IInv, PostOK
  <2>3. Posted(n, p) /\ UNCHANGED row
    BY <1>3
  <2> HIDE DEF p
  <2> QED
    BY <1>1, <2>1, <2>2, <2>3, LookupKeeps
<1> QED
  BY <1>2, <1>3 DEF ReadContact

\* What reading the quiet hours does is what the deferral asks for.
LEMMA ReadQuietHoursKeeps ==
  ASSUME IInv, NEW n \in Notes, ReadQuietHours(n)
  PROVE  IInv'
<1>1. post[n] \in PostRecord /\ post[n].pc = "quiet hours"
  BY Types DEF IInv, ReadQuietHours
<1>2. CASE Routed(n, "in_app")
  BY <1>1, <1>2, RoutedKeeps, Vocabulary
<1> DEFINE t == post[n].at
           p == [post[n] EXCEPT !.pc = "insert", !.window = quiet,
                   !.at = IF InQuietHours(quiet, @) THEN EndAfter(quiet, @) ELSE @]
<1>3. CASE Posted(n, p) /\ UNCHANGED row
  <2>1. /\ post[n].member \in Members /\ t = post[n].asked /\ post[n].channel = "sms"
        /\ t \in Nat /\ quiet \in Windows \cup {None}
    BY <1>1 DEF IInv, PostOK, TypeOK, PostRecord
  <2>2. InQuietHours(quiet, t) => quiet \in Windows
    BY <2>1 DEF InQuietHours
  <2>3. (IF InQuietHours(quiet, t) THEN EndAfter(quiet, t) ELSE t) \in Nat
    BY <2>1, <2>2, EndOfWindow
  <2>4. /\ p.pc = "insert" /\ p.channel = "sms" /\ p.member = post[n].member
        /\ p.at = (IF InQuietHours(quiet, t) THEN EndAfter(quiet, t) ELSE t)
        /\ p.asked = t /\ p.window = quiet /\ p \in PostRecord
    BY <1>1, <2>1, <2>3 DEF PostRecord
  <2>5. PutOff(p)
    <3>1. CASE InQuietHours(quiet, t)
      BY <3>1, <2>1, <2>2, <2>4, EndOfWindow DEF PutOff
    <3>2. CASE ~InQuietHours(quiet, t)
      BY <3>2, <2>1, <2>4 DEF PutOff
    <3> QED
      BY <3>1, <3>2
  <2>6. Posted(n, p) /\ UNCHANGED row
    BY <1>3
  <2> HIDE DEF p
  <2> QED
    BY <1>1, <2>1, <2>4, <2>5, <2>6, LookupKeeps
<1> QED
  BY <1>2, <1>3 DEF ReadQuietHours
\* The row a producer inserts was not there, and nobody knows of it.
LEMMA InsertKeeps ==
  ASSUME IInv, NEW n \in Notes, Insert(n)
  PROVE  IInv'
<1> USE DEF settings, history, handovers
<1> DEFINE p == [post[n] EXCEPT !.pc = "done"]
           o == Original(n)
           fresh == PendingRow(post[n].member, post[n].channel, post[n].at)
<1>1. post[n] \in PostRecord /\ post[n].pc = "insert"
  BY Types DEF IInv, Insert
<1>2. p.pc = "done" /\ p \in PostRecord
  BY <1>1 DEF PostRecord
<1>3. Posted(n, p)
  BY DEF Insert
<1>4. CASE UNCHANGED row
  <2>1. p.channel = post[n].channel /\ p.member = post[n].member
    BY <1>1 DEF PostRecord
  <2>2. p.channel \in Optional => p.member \in Members
    BY <2>1 DEF IInv, PostOK
  <2> HIDE DEF p
  <2> QED
    BY <1>1, <1>2, <1>3, <1>4, <2>2, LookupKeeps
<1>5. CASE row' = [row EXCEPT ![o] = fresh]
  <2>1. /\ fresh \in RowRecord /\ fresh.status = "pending" /\ fresh.sentAt = FALSE
        /\ fresh.member = post[n].member /\ fresh.channel = post[n].channel
    <3>1. post[n].member \in Members \cup {None} /\ post[n].channel \in Channels /\ post[n].at \in Nat
      BY <1>1 DEF PostRecord
    <3> QED
      BY <3>1, PendingRowFields
  <2>2. o \in Rows /\ row[o].status = "absent" /\ o[2] = "original"
    BY <1>1, Vocabulary DEF IInv, PostOK, Original
  <2>3. row'[o] = fresh /\ row' \in [Rows -> RowRecord] /\ \A r \in Rows : r # o => row'[r] = row[r]
    BY <1>5, <2>1, <2>2 DEF IInv, TypeOK, RowRecord
  <2>4. post'[n] = p /\ post' \in [Notes -> PostRecord] /\ \A k \in Notes : k # n => post'[k] = post[k]
    BY <1>2, <1>3 DEF IInv, TypeOK, PostRecord, Posted
  <2>5. UNCHANGED <<disp, delivered, unanswered, barred, unsaved, contact>>
    BY <1>3 DEF Posted
  <2>6. post[n].channel \in Optional => post[n].member \in Members
    BY DEF IInv, PostOK
  <2>7. p.channel = post[n].channel /\ p.member = post[n].member
    BY <1>1 DEF PostRecord
  <2>8. \A k \in Notes : Fallback(k) # o /\ (k # n => Original(k) # o) /\ \A w \in Owners : <<k, w>> # o
    BY Vocabulary DEF Original, Fallback
  <2>9. TypeOK'
    BY <1>3, <2>3, <2>4 DEF Posted, IInv, TypeOK, PostRecord, RowRecord
  <2> HIDE DEF p, o, fresh
  <2>10. ASSUME NEW k \in Notes PROVE PostOK(k)'
    <3>1. CASE k = n
      BY <3>1, <1>2, <2>4, <2>6, <2>7 DEF PostOK
    <3>2. CASE k # n
      <4>1. row'[Original(k)] = row[Original(k)]
        BY <3>2, <2>3, <2>8, Vocabulary
      <4> QED
        BY <3>2, <2>4, <4>1, ZenonT(60) DEF IInv, PostOK, PutOff, InQuietHours, SinceMidnight
    <3> QED
      BY <3>1, <3>2
  <2>11. ASSUME NEW r \in Rows PROVE RowOK(r)'
    <3>1. row'[FallbackOf(r)] = row[FallbackOf(r)]
      BY <2>3, <2>8, Vocabulary DEF FallbackOf
    <3>2. CASE r = o
      <4>1. NotYet(delivered'[r]) /\ ~row'[r].sentAt /\ \A s \in Servers : r \notin disp'[s].batch
        BY <3>2, <2>1, <2>2, <2>3, <2>5 DEF IInv, RowOK
      <4>2. Accounted(r, delivered'[r], unanswered', row'[r].channel)
        BY <4>1, Accounts
      <4> QED
        BY <3>2, <4>1, <4>2, <2>1, <2>2, <2>3, <2>6 DEF RowOK
    <3>3. CASE r # o
      BY <3>1, <3>3, <2>3, <2>5 DEF IInv, RowOK
    <3> QED
      BY <3>2, <3>3
  <2>12. ASSUME NEW s \in Servers PROVE HandOK(s)'
    <3>1. o \notin disp[s].batch
      BY <2>2 DEF IInv, RowOK
    <3>2. \A r \in disp[s].batch : r \in Rows /\ r # o /\ row'[r] = row[r]
      BY <3>1, <2>3, Types DEF IInv, DispRecord
    <3>3. disp[s].pc \notin {"idle", "deliver"} => row'[disp[s].row] = row[disp[s].row]
                                                   /\ row'[FallbackOf(disp[s].row)] = row[FallbackOf(disp[s].row)]
      BY <3>2, <2>3, <2>8, Vocabulary DEF IInv, HandOK, FallbackOf
    <3> QED
      BY <3>2, <3>3, <2>5, ZenonT(60) DEF IInv, HandOK
  <2>13. OneHand'
    BY <2>5 DEF IInv, OneHand
  <2>14. ASSUME NEW k \in Notes PROVE OffspringOK(k)'
    <3>1. /\ row'[Fallback(k)] = row[Fallback(k)]
          /\ \A w \in Owners : row'[<<k, w>>] = row[<<k, w>>]
      BY <2>3, <2>8, Vocabulary
    <3>2. k # n => row'[Original(k)] = row[Original(k)]
      BY <2>3, <2>8, Vocabulary
    <3>3. k = n => row[Original(k)].status = "absent"
      BY <2>2 DEF o
    <3> QED
      BY <3>1, <3>2, <3>3, <2>5 DEF IInv, OffspringOK
  <2>15. (\A r \in barred : BarredOK(r))'
    BY <2>2, <2>3, <2>5 DEF IInv, BarredOK, TypeOK
  <2> QED
    BY <2>9, <2>10, <2>11, <2>12, <2>13, <2>14, <2>15 DEF IInv
<1> QED
  BY <1>4, <1>5 DEF Insert, Original
-----------------------------------------------------------------------------
(* The dispatchers. *)

\* One dispatcher moves on with the row it has in hand, and the outbox stays
\* as it is: what it now knows of the row is all there is to show.
LEMMA HandMoves ==
  ASSUME IInv, NEW s \in Servers, NEW d \in DispRecord,
         disp' = [disp EXCEPT ![s] = d],
         UNCHANGED <<post, row, contact, barred>>,
         \A r \in Rows : r \notin disp[s].batch => delivered'[r] = delivered[r],
         d.batch = disp[s].batch,
         \A r \in disp[s].batch :
           /\ Accounted(r, delivered'[r], unanswered', row[r].channel)
           /\ (r \in barred => NotYet(delivered'[r]))
           /\ r # d.row => NotYet(delivered'[r]),
         unsaved \subseteq unsaved', unanswered \subseteq unanswered',
         d.pc \notin {"idle", "deliver"} /\ d.row \in d.batch,
         d.pc \in {"send", "downgrade", "warn", "fall back", "mark failed"} =>
           row[d.row].channel \in Optional,
         d.pc = "send" => d.row \notin barred
                          /\ Underway(d.row, delivered'[d.row], unanswered', row[d.row].channel, d.tried),
         d.pc = "mark sent" => Given(delivered'[d.row]),
         d.pc = "mark failed" => row[FallbackOf(d.row)].status # "absent" \/ d.row \in unsaved',
         \A n \in Notes : Original(n) \in disp[s].batch =>
           /\ row[Fallback(n)].status # "absent" => d.row = Original(n) /\ d.pc = "mark failed"
           /\ \A w \in Owners : row[<<n, w>>].status # "absent" =>
                d.row = Original(n) /\ d.pc \in {"fall back", "mark failed"}
  PROVE  /\ (\A n \in Notes : PostOK(n))'
         /\ (\A r \in Rows : RowOK(r))'
         /\ (\A u \in Servers : HandOK(u))'
         /\ OneHand'
         /\ (\A n \in Notes : OffspringOK(n))'
         /\ (\A r \in barred : BarredOK(r))'
<1>1. disp \in [Servers -> DispRecord]
  BY DEF IInv, TypeOK, DispRecord
<1>2. disp'[s] = d /\ \A u \in Servers : u # s => disp'[u] = disp[u]
  BY <1>1
<1>3. \A u \in Servers : disp'[u].batch = disp[u].batch
  BY <1>2
<1>4. \A u \in Servers : u # s => disp[u].batch \cap disp[s].batch = {} /\ disp[u].batch \subseteq Rows
  BY <1>1 DEF IInv, OneHand, DispRecord
<1>5. (\A n \in Notes : PostOK(n))'
  BY PostsRest
<1>6. ASSUME NEW r \in Rows PROVE RowOK(r)'
  <2>1. CASE r \in disp[s].batch
    <3>1. row[r].status = "sent" /\ ~row[r].sentAt
      BY <2>1 DEF IInv, HandOK
    <3> QED
      BY <2>1, <3>1 DEF IInv, RowOK
  <2>2. CASE r \notin disp[s].batch
    <3>1. RowOK(r) /\ delivered'[r] = delivered[r]
      BY <2>2 DEF IInv
    <3>2. Accounted(r, delivered[r], unanswered', row[r].channel)
      BY <3>1, Accounts DEF RowOK
    <3> QED
      BY <3>1, <3>2, <1>3 DEF RowOK
  <2> QED
    BY <2>1, <2>2
<1>7. ASSUME NEW u \in Servers PROVE HandOK(u)'
  <2>1. CASE u = s
    <3>1. \A r \in d.batch : row[r].status = "sent" /\ ~row[r].sentAt
      BY DEF IInv, HandOK
    <3>2. disp'[u] = d
      BY <2>1, <1>2
    <3>3. d.pc \notin {"idle", "deliver"} /\ d.row \in d.batch
      OBVIOUS
    <3>4. \A r \in d.batch :
             /\ row'[r].status = "sent" /\ ~row'[r].sentAt
             /\ r # d.row => NotYet(delivered'[r])
      BY <3>1
    <3>5. d.pc = "send" =>
            /\ d.row \notin barred'
            /\ Underway(d.row, delivered'[d.row], unanswered', row'[d.row].channel, d.tried)
      OBVIOUS
    <3>6. /\ d.pc \in {"send", "downgrade", "warn", "fall back", "mark failed"} =>
             row'[d.row].channel \in Optional
          /\ d.pc = "mark sent" => Given(delivered'[d.row])
      OBVIOUS
    <3>7. d.pc = "mark failed" =>
       row'[FallbackOf(d.row)].status # "absent" \/ d.row \in unsaved'
      OBVIOUS
    <3> QED
      BY ONLY <3>2, <3>3, <3>4, <3>5, <3>6, <3>7 DEF HandOK
  <2>2. CASE u # s
    <3>1. \A r \in disp[u].batch : delivered'[r] = delivered[r]
      BY <2>2, <1>4
    <3>2. disp'[u] = disp[u] /\ HandOK(u)
      BY <2>2, <1>2 DEF IInv
    <3>3. disp[u].pc \in {"send", "mark sent"} => delivered'[disp[u].row] = delivered[disp[u].row]
      BY <3>1, <3>2 DEF HandOK
    <3>4. disp[u].pc = "send" =>
            Underway(disp[u].row, delivered'[disp[u].row], unanswered', row[disp[u].row].channel, disp[u].tried)
      <4>1. disp[u].pc = "send" =>
              Underway(disp[u].row, delivered[disp[u].row], unanswered, row[disp[u].row].channel, disp[u].tried)
        BY ONLY <3>2 DEF HandOK
      <4> QED
        BY ONLY <4>1, <3>3, unanswered \subseteq unanswered', Accounts
    <3> QED
      BY ONLY <3>1, <3>2, <3>3, <3>4, UNCHANGED <<row, barred>>, unsaved \subseteq unsaved' DEF HandOK
  <2> QED
    BY <2>1, <2>2
<1>8. OneHand'
  BY <1>3 DEF IInv, OneHand
<1>9. ASSUME NEW n \in Notes PROVE OffspringOK(n)'
  <2>1. OffspringOK(n)
    BY DEF IInv
  <2>2. ASSUME NEW u \in Servers, u = s, Original(n) \in disp[u].batch
        PROVE  /\ row[Fallback(n)].status # "absent" => disp'[u].row = Original(n) /\ disp'[u].pc = "mark failed"
               /\ \A w \in Owners : row[<<n, w>>].status # "absent" =>
                    disp'[u].row = Original(n) /\ disp'[u].pc \in {"fall back", "mark failed"}
    BY <2>2, <1>2
  <2> QED
    BY <2>1, <2>2, <1>2, <1>3, ZenonT(60) DEF OffspringOK
<1>10. (\A r \in barred : BarredOK(r))'
  <2>1. \A r \in barred : r \in Rows /\ NotYet(delivered[r])
    BY DEF IInv, TypeOK, BarredOK
  <2> QED
    BY <2>1 DEF IInv, BarredOK
<1> QED
  BY <1>5, <1>6, <1>7, <1>8, <1>9, <1>10

LEMMA TakeKeeps ==
  ASSUME IInv, NEW s \in Servers, NEW r \in Rows, NEW pc \in {"send", "fall back"},
         NEW p \in Phones \cup {None}, Take(s, r, pc, p), row[r].channel \in Optional,
         pc = "send" => r \notin barred, UNCHANGED history
  PROVE  IInv'
<1> USE DEF settings, history, handovers
<1> DEFINE d == [disp[s] EXCEPT !.pc = pc, !.row = r, !.phone = p]
<1>1. disp[s] \in DispRecord /\ disp[s].pc = "deliver" /\ r \in disp[s].batch
  BY Types DEF IInv, Take
<1>2. /\ d.pc = pc /\ d.row = r /\ d.batch = disp[s].batch /\ d.tried = disp[s].tried
      /\ d \in DispRecord
  BY <1>1 DEF DispRecord, DispatcherPCs
<1>3. disp' = [disp EXCEPT ![s] = d] /\ UNCHANGED <<now, settings, senders, crashes, post, row>>
  BY DEF Take
<1>4. \A q \in disp[s].batch : /\ q \in Rows /\ NotYet(delivered[q])
                               /\ Accounted(q, delivered[q], unanswered, row[q].channel)
  BY <1>1 DEF IInv, HandOK, DispRecord, RowOK
<1>8. Underway(r, delivered[r], unanswered, row[r].channel, d.tried)
  <2>1. NotYet(d.tried)
    BY <1>1, <1>2 DEF IInv, HandOK
  <2>2. NotYet(delivered[r]) /\ row[r].channel \in Optional
    BY <1>1, <1>4
  <2> QED
    BY ONLY <2>1, <2>2, Accounts
<1>5. \A n \in Notes : Original(n) \in disp[s].batch =>
        row[Fallback(n)].status = "absent" /\ \A w \in Owners : row[<<n, w>>].status = "absent"
  BY <1>1 DEF IInv, OffspringOK
<1>6. TypeOK'
  BY <1>1, <1>2, <1>3 DEF IInv, TypeOK, DispRecord
<1> HIDE DEF d
<1>7. /\ (\A n \in Notes : PostOK(n))' /\ (\A q \in Rows : RowOK(q))'
      /\ (\A u \in Servers : HandOK(u))' /\ OneHand'
      /\ (\A n \in Notes : OffspringOK(n))' /\ (\A q \in barred : BarredOK(q))'
  BY <1>1, <1>2, <1>3, <1>4, <1>5, <1>8, HandMoves, ZenonT(60)
<1> QED
  BY <1>6, <1>7 DEF IInv

\* A text is not begun for a member whose consent is gone.
LEMMA AttemptKeeps ==
  ASSUME IInv, NEW s \in Servers, NEW r \in Rows,
         CannotSend(s, r) \/ ReadNumber(s, r) \/ ResolveEmail(s, r)
  PROVE  IInv'
<1>1. CASE CannotSend(s, r)
  BY <1>1, TakeKeeps DEF CannotSend, OnFailure
<1>2. CASE ReadNumber(s, r)
  <2>1. row[r].channel = "sms" /\ ReadyForSMS(contact[row[r].member])
    BY <1>2 DEF ReadNumber
  <2>2. row[r].member \in Members /\ contact[row[r].member] \in Contacts
    BY <2>1, Types, Vocabulary DEF IInv, RowOK
  <2>3. contact[row[r].member].phone \in Phones \cup {None}
    BY <2>2 DEF Contacts
  <2>4. r \notin barred
    BY <2>1 DEF IInv, BarredOK, ReadyForSMS
  <2> QED
    BY <1>2, <2>1, <2>3, <2>4, TakeKeeps, Vocabulary DEF ReadNumber
<1>3. CASE ResolveEmail(s, r)
  <2>1. row[r].channel = "email" /\ r \notin barred
    BY <1>3 DEF ResolveEmail, IInv, BarredOK
  <2> QED
    BY <1>3, <2>1, TakeKeeps, Vocabulary DEF ResolveEmail
<1> QED
  BY <1>1, <1>2, <1>3

LEMMA DeliverInAppKeeps ==
  ASSUME IInv, NEW s \in Servers, NEW r \in Rows, DeliverInApp(s, r)
  PROVE  IInv'
<1> USE DEF settings, history, handovers
<1> DEFINE d == [disp[s] EXCEPT !.pc = "mark sent", !.row = r, !.phone = None]
<1>1. disp[s] \in DispRecord /\ disp[s].pc = "deliver" /\ r \in disp[s].batch /\ row[r].channel = "in_app"
  BY Types DEF IInv, DeliverInApp, Take
<1>2. /\ d.pc = "mark sent" /\ d.row = r /\ d.batch = disp[s].batch
      /\ d \in DispRecord
  BY <1>1 DEF DispRecord, DispatcherPCs
<1>3. /\ disp' = [disp EXCEPT ![s] = d] /\ UNCHANGED <<now, settings, senders, crashes, post, row>>
      /\ delivered' = [delivered EXCEPT ![r] = @ + 1] /\ UNCHANGED <<unanswered, barred, unsaved>>
  BY DEF DeliverInApp, Take, Delivered
<1>4. \A q \in disp[s].batch : q \in Rows /\ NotYet(delivered[q])
  BY <1>1 DEF IInv, HandOK, DispRecord
<1>5. /\ delivered' \in [Rows -> Nat] /\ Once(delivered'[r]) /\ Given(delivered'[r])
      /\ \A q \in Rows : q # r => delivered'[q] = delivered[q]
  <2>1. delivered \in [Rows -> Nat] /\ NotYet(delivered[r])
    BY <1>1, <1>4 DEF IInv, TypeOK
  <2>2. Delivered(r)
    BY DEF DeliverInApp
  <2> QED
    BY <2>1, <2>2, Delivery
<1>6. \A n \in Notes : Original(n) \in disp[s].batch =>
        row[Fallback(n)].status = "absent" /\ \A w \in Owners : row[<<n, w>>].status = "absent"
  BY <1>1 DEF IInv, OffspringOK
<1>7. TypeOK'
  BY <1>1, <1>2, <1>3, <1>5, ZenonT(60) DEF IInv, TypeOK, DispRecord
<1>8. r \notin barred
  BY <1>1 DEF IInv, BarredOK
<1> HIDE DEF d
<1>9. /\ (\A n \in Notes : PostOK(n))' /\ (\A q \in Rows : RowOK(q))'
      /\ (\A u \in Servers : HandOK(u))' /\ OneHand'
      /\ (\A n \in Notes : OffspringOK(n))' /\ (\A q \in barred : BarredOK(q))'
  <2>1. /\ \A q \in Rows : q \notin disp[s].batch => delivered'[q] = delivered[q]
        /\ \A q \in disp[s].batch :
             /\ NotYet(delivered'[q]) \/ Once(delivered'[q])
             /\ (q \in barred => NotYet(delivered'[q]))
             /\ q # d.row => NotYet(delivered'[q])
    BY <1>1, <1>2, <1>4, <1>5, <1>8
  <2>5. \A q \in disp[s].batch : Accounted(q, delivered'[q], unanswered', row[q].channel)
    BY ONLY <2>1 DEF Accounted
  <2>2. /\ d.pc \notin {"idle", "deliver"} /\ d.row \in d.batch
        /\ ~(d.pc \in {"send", "downgrade", "warn", "fall back", "mark failed"})
        /\ d.pc = "mark sent" => Given(delivered'[d.row])
    BY <1>1, <1>2, <1>5
  <2>3. /\ disp' = [disp EXCEPT ![s] = d] /\ d.batch = disp[s].batch /\ d \in DispRecord
        /\ UNCHANGED <<post, row, contact, barred>>
        /\ unsaved \subseteq unsaved' /\ unanswered \subseteq unanswered'
    BY <1>2, <1>3
  <2>4. \A n \in Notes : Original(n) \in disp[s].batch =>
           /\ row[Fallback(n)].status # "absent" => d.row = Original(n) /\ d.pc = "mark failed"
           /\ \A w \in Owners : row[<<n, w>>].status # "absent" =>
                d.row = Original(n) /\ d.pc \in {"fall back", "mark failed"}
    BY <1>6
  <2> QED
    BY <2>1, <2>2, <2>3, <2>4, <2>5, HandMoves
<1> QED
  BY <1>7, <1>9 DEF IInv

\* The answer of a provider, or none: the row in hand may have been handed
\* over, and when there was no answer and attempts are left, may be again.
LEMMA SendKeeps ==
  ASSUME IInv, NEW s \in Servers,
         SendAgain(s) \/ SendAccepted(s) \/ SendFailed(s) \/ SendRejected(s)
  PROVE  IInv'
<1> USE DEF settings, history, handovers
<1>0. PICK r \in Rows : r = disp[s].row /\ r \in disp[s].batch
  BY Types DEF IInv, HandOK, DispRecord, SendAgain, SendAccepted, SendFailed, SendRejected
<1> DEFINE t == disp[s].tried
           c == row[r].channel
<1>1. /\ disp[s] \in DispRecord /\ disp[s].pc = "send" /\ r \in disp[s].batch
      /\ c \in Optional /\ r \notin barred /\ t \in Nat
      /\ Underway(r, delivered[r], unanswered, c, t)
  BY <1>0, Types DEF IInv, HandOK, DispRecord, SendAgain, SendAccepted, SendFailed, SendRejected
<1>2. \A q \in disp[s].batch : q \in Rows /\ (q # r => NotYet(delivered[q]))
  BY <1>0, <1>1 DEF IInv, HandOK, DispRecord
<1>3. PICK pc \in {"send", "mark sent", "fall back", "downgrade"}, k \in Nat :
        /\ disp' = [disp EXCEPT ![s] = [disp[s] EXCEPT !.pc = pc, !.tried = k]]
        /\ pc = "mark sent" => Delivered(r)
        /\ pc = "send" => Unanswered(r) /\ AttemptsLeft(t, c) /\ k = t + 1
        /\ Delivered(r) \/ Unanswered(r)
        /\ UNCHANGED <<now, settings, senders, crashes, post, row>>
  <2>1. CASE SendAgain(s)
    <3>1. [disp[s] EXCEPT !.pc = "send", !.tried = t + 1] = [disp[s] EXCEPT !.tried = t + 1]
      BY <1>1 DEF DispRecord
    <3>2. disp' = [disp EXCEPT ![s] = [disp[s] EXCEPT !.pc = "send", !.tried = t + 1]]
      BY <2>1, <3>1 DEF SendAgain
    <3>3. /\ Unanswered(r) /\ AttemptsLeft(t, c)
          /\ UNCHANGED <<now, settings, senders, crashes, post, row>>
      BY <1>0, <2>1 DEF SendAgain
    <3>4. t + 1 \in Nat
      BY <1>1
    <3> HIDE DEF t, c
    <3> WITNESS "send" \in {"send", "mark sent", "fall back", "downgrade"}, t + 1 \in Nat
    <3> QED
      BY <3>2, <3>3
  <2>2. CASE SendAccepted(s)
    BY <1>0, <2>2 DEF SendAccepted, Goto
  <2>3. CASE SendFailed(s)
    BY <1>0, <2>3 DEF SendFailed, Goto, OnFailure
  <2>4. CASE SendRejected(s)
    BY <2>4 DEF SendRejected, Goto, Unanswered
  <2> QED
    BY <2>1, <2>2, <2>3, <2>4
<1> DEFINE d == [disp[s] EXCEPT !.pc = pc, !.tried = k]
<1>4. d.pc = pc /\ d.row = r /\ d.batch = disp[s].batch /\ d.tried = k /\ d \in DispRecord
  BY <1>0, <1>1 DEF DispRecord, DispatcherPCs
<1>5. disp' = [disp EXCEPT ![s] = d]
  BY <1>3
<1> HIDE DEF t, c
<1>6. /\ delivered' \in [Rows -> Nat]
      /\ unanswered' \subseteq Rows /\ unanswered \subseteq unanswered'
      /\ Accounted(r, delivered'[r], unanswered', c)
      /\ pc = "mark sent" => Given(delivered'[r])
      /\ pc = "send" => Underway(r, delivered'[r], unanswered', c, k)
      /\ \A q \in Rows : q # r => delivered'[q] = delivered[q]
      /\ UNCHANGED <<barred, unsaved>>
  <2>1. delivered \in [Rows -> Nat] /\ unanswered \subseteq Rows
    BY DEF IInv, TypeOK
  <2>2. /\ delivered' \in [Rows -> Nat]
        /\ unanswered' \subseteq Rows /\ unanswered \subseteq unanswered'
        /\ \A q \in Rows : q # r => delivered'[q] = delivered[q]
        /\ UNCHANGED <<barred, unsaved>>
        /\ Accounted(r, delivered'[r], unanswered', c)
        /\ Delivered(r) => Given(delivered'[r])
        /\ Unanswered(r) /\ AttemptsLeft(t, c) => Underway(r, delivered'[r], unanswered', c, t + 1)
    BY ONLY <1>1, <1>3, <2>1, r \in Rows, Handover
  <2> QED
    BY ONLY <2>2, <1>3
<1>7. \A n \in Notes : Original(n) \in disp[s].batch =>
        row[Fallback(n)].status = "absent" /\ \A w \in Owners : row[<<n, w>>].status = "absent"
  BY <1>1 DEF IInv, OffspringOK
<1>8. TypeOK'
  <2>1. /\ disp' \in [Servers -> DispRecord]
        /\ \A u \in Servers : disp'[u].pc \notin {"idle", "deliver"} => disp'[u].row \in disp'[u].batch
    BY <1>1, <1>4, <1>5, Types DEF IInv, TypeOK
  <2>2. UNCHANGED <<now, settings, senders, crashes, post, row>>
    BY <1>3
  <2> QED
    BY <1>6, <2>1, <2>2 DEF IInv, TypeOK, DispRecord
<1> HIDE DEF d
<1>9. /\ (\A n \in Notes : PostOK(n))' /\ (\A q \in Rows : RowOK(q))'
      /\ (\A u \in Servers : HandOK(u))' /\ OneHand'
      /\ (\A n \in Notes : OffspringOK(n))' /\ (\A q \in barred : BarredOK(q))'
  <2>1. /\ \A q \in Rows : q \notin disp[s].batch => delivered'[q] = delivered[q]
        /\ \A q \in disp[s].batch :
             /\ (q \in barred => NotYet(delivered'[q]))
             /\ q # d.row => NotYet(delivered'[q])
    BY <1>1, <1>2, <1>4, <1>6
  <2>5. \A q \in disp[s].batch : Accounted(q, delivered'[q], unanswered', row[q].channel)
    <3>1. \A q \in disp[s].batch : q = r \/ NotYet(delivered'[q])
      BY <1>2, <1>6
    <3> QED
      BY ONLY <3>1, <1>6, Accounts DEF c
  <2>2. /\ d.pc \notin {"idle", "deliver"} /\ d.row \in d.batch
        /\ d.pc \in {"send", "downgrade", "warn", "fall back", "mark failed"} =>
             row[d.row].channel \in Optional
        /\ d.pc = "send" => d.row \notin barred
             /\ Underway(d.row, delivered'[d.row], unanswered', row[d.row].channel, d.tried)
        /\ d.pc = "mark sent" => Given(delivered'[d.row])
        /\ d.pc = "mark failed" => row[FallbackOf(d.row)].status # "absent" \/ d.row \in unsaved'
    BY <1>1, <1>4, <1>6 DEF c
  <2>3. /\ disp' = [disp EXCEPT ![s] = d] /\ d.batch = disp[s].batch /\ d \in DispRecord
        /\ UNCHANGED <<post, row, contact, barred>>
        /\ unsaved \subseteq unsaved' /\ unanswered \subseteq unanswered'
    BY <1>3, <1>4, <1>5, <1>6
  <2>4. \A n \in Notes : Original(n) \in disp[s].batch =>
           /\ row[Fallback(n)].status # "absent" => d.row = Original(n) /\ d.pc = "mark failed"
           /\ \A w \in Owners : row[<<n, w>>].status # "absent" =>
                d.row = Original(n) /\ d.pc \in {"fall back", "mark failed"}
    BY <1>7
  <2> QED
    BY <2>1, <2>2, <2>3, <2>4, <2>5, HandMoves
<1> QED
  BY <1>8, <1>9 DEF IInv

\* The member's choice is not the outbox's.
LEMMA DowngradeKeeps ==
  ASSUME IInv, NEW s \in Servers, Downgrade(s)
  PROVE  IInv'
<1> USE DEF settings, history, handovers
<1>0. PICK r \in Rows : r = disp[s].row /\ r \in disp[s].batch
  BY Types DEF IInv, HandOK, DispRecord, Downgrade
<1> DEFINE d == [disp[s] EXCEPT !.pc = "warn"]
<1>1. /\ disp[s] \in DispRecord /\ disp[s].pc = "downgrade" /\ r \in disp[s].batch
      /\ row[r].channel \in Optional
  BY <1>0, Types DEF IInv, HandOK, Downgrade
<1>2. \A q \in disp[s].batch : /\ q \in Rows /\ (q # r => NotYet(delivered[q]))
                               /\ Accounted(q, delivered[q], unanswered, row[q].channel)
                               /\ q \in barred => NotYet(delivered[q])
  BY <1>0, <1>1 DEF IInv, HandOK, DispRecord, RowOK, BarredOK
<1>3. d.pc = "warn" /\ d.row = r /\ d.batch = disp[s].batch /\ d \in DispRecord
  BY <1>0, <1>1 DEF DispRecord, DispatcherPCs
<1>4. /\ disp' = [disp EXCEPT ![s] = d]
      /\ UNCHANGED <<now, contact, quiet, senders, crashes, post, row, history>>
      /\ pref' = pref \/ pref' = [pref EXCEPT ![row[r].member] = "in_app"]
  BY <1>0 DEF Downgrade
<1>5. pref' \in [Members -> Channels \cup {None}]
  BY <1>4, Vocabulary DEF IInv, TypeOK
<1>6. TypeOK'
  BY <1>1, <1>3, <1>4, <1>5 DEF IInv, TypeOK, DispRecord
<1>7. \A n \in Notes : Original(n) \in disp[s].batch =>
        row[Fallback(n)].status = "absent" /\ \A w \in Owners : row[<<n, w>>].status = "absent"
  BY <1>1 DEF IInv, OffspringOK
<1> HIDE DEF d
<1>8. /\ (\A n \in Notes : PostOK(n))' /\ (\A q \in Rows : RowOK(q))'
      /\ (\A u \in Servers : HandOK(u))' /\ OneHand'
      /\ (\A n \in Notes : OffspringOK(n))' /\ (\A q \in barred : BarredOK(q))'
  <2>1. /\ \A q \in Rows : q \notin disp[s].batch => delivered'[q] = delivered[q]
        /\ \A q \in disp[s].batch :
             /\ Accounted(q, delivered'[q], unanswered', row[q].channel)
             /\ (q \in barred => NotYet(delivered'[q]))
             /\ q # d.row => NotYet(delivered'[q])
    BY <1>2, <1>3, <1>4
  <2>2. /\ d.pc \notin {"idle", "deliver"} /\ d.row \in d.batch
        /\ d.pc \in {"send", "downgrade", "warn", "fall back", "mark failed"} =>
             row[d.row].channel \in Optional
        /\ d.pc \notin {"send", "mark sent", "mark failed"}
    BY <1>1, <1>3, <1>4
  <2>3. /\ disp' = [disp EXCEPT ![s] = d] /\ d.batch = disp[s].batch /\ d \in DispRecord
        /\ UNCHANGED <<post, row, contact, barred>>
        /\ unsaved \subseteq unsaved' /\ unanswered \subseteq unanswered'
    BY <1>3, <1>4
  <2>4. \A n \in Notes : Original(n) \in disp[s].batch =>
           /\ row[Fallback(n)].status # "absent" => d.row = Original(n) /\ d.pc = "mark failed"
           /\ \A w \in Owners : row[<<n, w>>].status # "absent" =>
                d.row = Original(n) /\ d.pc \in {"fall back", "mark failed"}
    BY <1>7
  <2> QED
    BY <2>1, <2>2, <2>3, <2>4, HandMoves
<1> QED
  BY <1>6, <1>8 DEF IInv
\* A claim takes rows that nobody has: what is claimed twice would be in two
\* hands, and what had been sent before would be sent again.
LEMMA ClaimDueKeeps ==
  ASSUME IInv, NEW s \in Servers, ClaimDue(s)
  PROVE  IInv'
<1> USE DEF settings, history, handovers
<1>1. PICK S \in SUBSET Rows :
        /\ \A r \in S : row[r].status = "pending"
        /\ disp[s].pc = "idle"
        /\ row' = [r \in Rows |-> IF r \in S THEN [row[r] EXCEPT !.status = "sent"] ELSE row[r]]
        /\ barred' = barred \cup
                     {r \in S : row[r].channel = "sms" /\ ~contact[row[r].member].opted}
        /\ S # {}
        /\ \/ disp' = [disp EXCEPT ![s] = [IdleDispatcher EXCEPT !.pc = "deliver", !.batch = S]]
           \/ UNCHANGED disp
        /\ UNCHANGED <<now, settings, senders, crashes, post, handovers, unsaved>>
  BY ZenonT(60) DEF ClaimDue, Batches, Due
<1>2. \A r \in Rows :
        /\ row[r] \in RowRecord /\ row'[r] \in RowRecord
        /\ row'[r].member = row[r].member /\ row'[r].channel = row[r].channel
        /\ row'[r].sentAt = row[r].sentAt
        /\ r \in S => row'[r].status = "sent"
        /\ r \notin S => row'[r] = row[r]
        /\ row'[r].status = "absent" <=> row[r].status = "absent"
  BY <1>1, Types DEF IInv, RowRecord
<1>3. row' \in [Rows -> RowRecord]
  BY <1>1, <1>2
<1>4. \A r \in S : /\ NotYet(delivered[r]) /\ ~row[r].sentAt
                   /\ \A u \in Servers : r \notin disp[u].batch
  BY <1>1 DEF IInv, RowOK
<1>5. disp \in [Servers -> DispRecord] /\ disp[s].batch = {}
  BY <1>1 DEF IInv, TypeOK, DispRecord, HandOK
<1> DEFINE d == [IdleDispatcher EXCEPT !.pc = "deliver", !.batch = S]
<1>6. d.pc = "deliver" /\ d.batch = S /\ d \in DispRecord /\ NotYet(d.tried)
  BY DEF IdleDispatcher, DispRecord, DispatcherPCs, NotYet
<1>7. /\ disp'[s] = d \/ disp'[s] = disp[s]
      /\ \A u \in Servers : u # s => disp'[u] = disp[u]
      /\ disp' \in [Servers -> DispRecord]
  BY <1>1, <1>5, <1>6
<1>8. \A u \in Servers : disp'[u].batch = disp[u].batch \/ (u = s /\ disp'[u].batch = S)
  BY <1>6, <1>7
<1>9. barred' \subseteq Rows /\ \A r \in barred : r \in Rows /\ r \notin S
  BY <1>1 DEF IInv, TypeOK, BarredOK
<1>10. TypeOK'
  <2>1. \A u \in Servers : disp'[u].pc \notin {"idle", "deliver"} => disp'[u].row \in disp'[u].batch
    BY <1>6, <1>7 DEF IInv, TypeOK
  <2> QED
    BY <1>1, <1>3, <1>7, <1>9, <2>1 DEF IInv, TypeOK, RowRecord, DispRecord
<1> HIDE DEF d
<1>11. ASSUME NEW n \in Notes PROVE PostOK(n)'
  <2>1. row'[Original(n)].status = "absent" <=> row[Original(n)].status = "absent"
    BY <1>2, Vocabulary
  <2> QED
    BY <1>1, <2>1 DEF IInv, PostOK, PutOff, InQuietHours, SinceMidnight
<1>12. ASSUME NEW r \in Rows PROVE RowOK(r)'
  <2>1. row'[FallbackOf(r)].status = "absent" <=> row[FallbackOf(r)].status = "absent"
    BY <1>2, Vocabulary DEF FallbackOf
  <2>2. CASE r \in S
    BY <2>2, <1>1, <1>2, <1>4, ZenonT(60) DEF IInv, RowOK
  <2>3. CASE r \notin S
    BY <2>1, <2>3, <1>1, <1>2, <1>8 DEF IInv, RowOK
  <2> QED
    BY <2>2, <2>3
<1>13. ASSUME NEW u \in Servers PROVE HandOK(u)'
  <2>1. CASE disp'[u] = disp[u]
    <3>1. \A r \in disp[u].batch : r \in Rows /\ r \notin S /\ row'[r] = row[r]
      BY <1>2, <1>4, <1>5 DEF DispRecord
    <3>2. disp[u].pc \notin {"idle", "deliver"} =>
            /\ row'[disp[u].row] = row[disp[u].row] /\ (disp[u].row \in barred' => disp[u].row \in barred)
            /\ row'[FallbackOf(disp[u].row)].status = "absent" <=> row[FallbackOf(disp[u].row)].status = "absent"
      BY <3>1, <1>1, <1>2, Vocabulary DEF IInv, HandOK, FallbackOf
    <3>3. HandOK(u)
      BY DEF IInv
    <3>4. UNCHANGED <<delivered, unanswered, unsaved>>
      BY <1>1
    <3> QED
      BY ONLY <2>1, <3>1, <3>2, <3>3, <3>4 DEF HandOK
  <2>2. CASE u = s /\ disp'[u] = d
    <3>1. \A r \in S : row'[r].status = "sent" /\ ~row'[r].sentAt /\ NotYet(delivered'[r])
      BY <1>1, <1>2, <1>4
    <3> QED
      BY ONLY <2>2, <3>1, <1>6 DEF HandOK
  <2> QED
    BY <2>1, <2>2, <1>7
<1>14. OneHand'
  BY <1>4, <1>8 DEF IInv, OneHand
<1>15. ASSUME NEW n \in Notes PROVE OffspringOK(n)'
  <2>1. /\ row'[Fallback(n)].status = "absent" <=> row[Fallback(n)].status = "absent"
        /\ \A w \in Owners : row'[<<n, w>>].status = "absent" <=> row[<<n, w>>].status = "absent"
    BY <1>2, Vocabulary
  <2>2. CASE Original(n) \in S
    <3>1. row[Original(n)].status = "pending"
      BY <2>2, <1>1
    <3> QED
      BY <2>1, <3>1 DEF IInv, OffspringOK
  <2>3. CASE Original(n) \notin S
    <3>1. row'[Original(n)] = row[Original(n)]
      BY <2>3, <1>2, Vocabulary
    <3>2. \A u \in Servers : Original(n) \in disp'[u].batch =>
            Original(n) \in disp[u].batch /\ disp'[u] = disp[u]
      BY <2>3, <1>5, <1>6, <1>7
    <3> QED
      BY <2>1, <3>1, <3>2, ZenonT(60) DEF IInv, OffspringOK
  <2> QED
    BY <2>2, <2>3
<1>16. (\A r \in barred : BarredOK(r))'
  <2>1. \A r \in barred' \ barred : r \in S /\ row[r].channel = "sms" /\ ~contact[row[r].member].opted
    BY <1>1
  <2> QED
    BY <2>1, <1>1, <1>2, <1>4, <1>9 DEF IInv, BarredOK
<1> QED
  BY <1>10, <1>11, <1>12, <1>13, <1>14, <1>15, <1>16 DEF IInv

\* Dispatcher s, with note n's original in hand and d next, adds the rows of A.
Adds(s, n, A, d) ==
  /\ disp[s].row = Original(n) /\ disp[s].pc \in {"warn", "fall back"}
  /\ disp' = [disp EXCEPT ![s] = d]
  /\ d.batch = disp[s].batch /\ d.row = disp[s].row /\ d.pc \in {"fall back", "mark failed"}
  /\ \A q \in A : /\ row[q].status = "absent" /\ row'[q].status = "pending"
                  /\ row'[q].channel = "in_app" /\ ~row'[q].sentAt
                  /\ \A k \in Notes :
                       /\ q # Original(k)
                       /\ k # n => q # Fallback(k) /\ \A w \in Owners : q # <<k, w>>
  /\ \A q \in Rows \ A : row'[q] = row[q]
  /\ Fallback(n) \in A => d.pc = "mark failed"
  /\ d.pc = "mark failed" => Fallback(n) \in A \/ Original(n) \in unsaved'
  /\ UNCHANGED <<post, contact, handovers, barred>> /\ unsaved \subseteq unsaved'

\* The rows a failed delivery adds, put in the outbox by the one dispatcher
\* that has the row in hand.
LEMMA RowsAdded ==
  ASSUME IInv, NEW s \in Servers, NEW n \in Notes, NEW A \in SUBSET Rows, NEW d \in DispRecord,
         Adds(s, n, A, d)
  PROVE  /\ (\A k \in Notes : PostOK(k))'
         /\ (\A r \in Rows : RowOK(r))'
         /\ (\A u \in Servers : HandOK(u))'
         /\ OneHand'
         /\ (\A k \in Notes : OffspringOK(k))'
         /\ (\A r \in barred : BarredOK(r))'
<1> USE DEF Adds, handovers
<1> DEFINE o == Original(n)
<1>1. disp \in [Servers -> DispRecord] /\ o \in Rows /\ FallbackOf(o) = Fallback(n)
  BY Vocabulary DEF IInv, TypeOK, DispRecord, FallbackOf, Original
<1>2. disp'[s] = d /\ \A u \in Servers : u # s => disp'[u] = disp[u]
  BY <1>1
<1>3. \A u \in Servers : disp'[u].batch = disp[u].batch /\ disp'[u].row = disp[u].row
  BY <1>2, ZenonT(60)
<1>4. o \in disp[s].batch /\ row[o].channel \in Optional
  BY ZenonT(60) DEF IInv, HandOK
<1>5. \A u \in Servers : \A r \in disp[u].batch : r \in Rows /\ r \notin A /\ row'[r] = row[r]
  BY <1>1 DEF IInv, HandOK, DispRecord
<1>6. \A k \in Notes : row'[Original(k)] = row[Original(k)]
  BY Vocabulary
<1>7. \A q \in Rows : row[q].status # "absent" => row'[q].status # "absent"
  OBVIOUS
<1>14. /\ IInv /\ d.batch = disp[s].batch /\ d.row = o /\ disp[s].row = o
       /\ d.pc \in {"fall back", "mark failed"}
  OBVIOUS
<1>15. UNCHANGED <<post, contact, handovers, barred>> /\ unsaved \subseteq unsaved'
  OBVIOUS
<1>16. d.pc = "mark failed" => row'[Fallback(n)].status # "absent" \/ o \in unsaved'
  BY DEF o
<1> HIDE DEF o
<1>8. \A k \in Notes : PostOK(k)'
  <2>1. \A k \in Notes : PostOK(k)
    BY DEF IInv
  <2> QED
    BY ONLY <2>1, <1>6, <1>15, ZenonT(60) DEF PostOK, PutOff, InQuietHours, SinceMidnight
<1>9. ASSUME NEW r \in Rows PROVE RowOK(r)'
  <2>1. CASE r \in A
    <3>1. NotYet(delivered[r]) /\ \A u \in Servers : r \notin disp[u].batch
      BY <2>1 DEF IInv, RowOK
    <3>2. row'[r].channel \notin Optional
      BY <2>1, Vocabulary
    <3>3. Accounted(r, delivered'[r], unanswered', row'[r].channel)
      BY <3>1, <1>15, Accounts
    <3> QED
      BY <2>1, <3>1, <3>2, <3>3, <1>3 DEF RowOK
  <2>2. CASE r \notin A
    <3>1. row[FallbackOf(r)].status # "absent" => row'[FallbackOf(r)].status # "absent"
      BY <1>7, Vocabulary DEF FallbackOf
    <3>2. row'[r] = row[r] /\ RowOK(r)
      BY <2>2 DEF IInv
    <3> QED
      BY <3>1, <3>2, <1>3 DEF RowOK
  <2> QED
    BY <2>1, <2>2
<1>10. ASSUME NEW u \in Servers PROVE HandOK(u)'
  <2>1. HandOK(u)
    BY DEF IInv
  <2>2. CASE u = s
    <3>1. \A r \in d.batch : /\ row'[r].status = "sent" /\ ~row'[r].sentAt
                             /\ r # d.row => NotYet(delivered'[r])
      BY ONLY <2>1, <2>2, <1>5, <1>14, <1>15 DEF HandOK
    <3>2. row'[d.row].channel \in Optional /\ d.row \in d.batch
      BY ONLY <1>4, <1>5, <1>14
    <3>3. d.pc = "mark failed" => row'[FallbackOf(d.row)].status # "absent" \/ d.row \in unsaved'
      BY ONLY <1>1, <1>14, <1>16
    <3>4. disp'[u] = d /\ d.pc \in {"fall back", "mark failed"}
      BY <2>2, <1>2
    <3> QED
      BY ONLY <3>1, <3>2, <3>3, <3>4 DEF HandOK
  <2>3. CASE u # s
    <3>1. disp'[u] = disp[u] /\ \A r \in disp[u].batch : row'[r] = row[r]
      BY <2>3, <1>2, <1>5
    <3>2. disp[u].pc \notin {"idle", "deliver"} => row'[disp[u].row] = row[disp[u].row]
      BY <2>1, <3>1 DEF HandOK
    <3>3. disp[u].pc = "mark failed" /\ row[FallbackOf(disp[u].row)].status # "absent" =>
            row'[FallbackOf(disp[u].row)].status # "absent"
      <4>1. disp[u].pc = "mark failed" => disp[u].row \in Rows
        BY <2>1, <1>5 DEF HandOK
      <4> QED
        BY <4>1, <1>7, Vocabulary DEF FallbackOf
    <3>4. UNCHANGED <<delivered, unanswered, barred>> /\ unsaved \subseteq unsaved'
      OBVIOUS
    <3> QED
      BY ONLY <2>1, <3>1, <3>2, <3>3, <3>4 DEF HandOK
  <2> QED
    BY <2>2, <2>3
<1>11. OneHand'
  BY <1>3 DEF IInv, OneHand
<1>12. ASSUME NEW k \in Notes PROVE OffspringOK(k)'
  <2>1. CASE k = n
    <3>1. row[o].status = "sent" /\ \A u \in Servers : o \in disp[u].batch => u = s
      BY <1>4 DEF IInv, HandOK, OneHand
    <3>2. row[Fallback(n)].status = "absent"
      <4>1. OffspringOK(n) /\ o = Original(n)
        BY DEF IInv, o
      <4>2. disp[s].pc # "mark failed"
        OBVIOUS
      <4> QED
        BY ONLY <1>4, <4>1, <4>2 DEF OffspringOK
    <3>3. row'[Fallback(n)].status # "absent" => d.pc = "mark failed"
      BY <3>2, Vocabulary
    <3> QED
      BY ONLY <2>1, <3>1, <3>3, <1>2, <1>3, <1>6, <1>14 DEF OffspringOK, o
  <2>2. CASE k # n
    <3>1. /\ row'[Fallback(k)] = row[Fallback(k)]
          /\ \A w \in Owners : row'[<<k, w>>] = row[<<k, w>>]
      <4>1. Fallback(k) \notin A /\ \A w \in Owners : <<k, w>> \notin A
        BY <2>2
      <4> QED
        BY <4>1, Vocabulary
    <3>2. disp[s].row # Original(k)
      <4>1. o # Original(k)
        BY ONLY <2>2 DEF o, Original
      <4> QED
        BY ONLY <4>1, <1>14
    <3>3. OffspringOK(k) /\ row'[Original(k)] = row[Original(k)]
      BY <1>6 DEF IInv
    <3> QED
      BY ONLY <3>1, <3>2, <3>3, <1>2, <1>3, ZenonT(60) DEF OffspringOK
  <2> QED
    BY <2>1, <2>2
<1>13. (\A r \in barred : BarredOK(r))'
  <2>1. \A r \in barred : r \in Rows /\ row'[r] = row[r]
    BY DEF IInv, BarredOK, TypeOK
  <2> QED
    BY ONLY <2>1, <1>14, <1>15 DEF IInv, BarredOK
<1> QED
  BY <1>8, <1>9, <1>10, <1>11, <1>12, <1>13
LEMMA WarnOwnersKeeps ==
  ASSUME IInv, NEW s \in Servers, WarnOwners(s)
  PROVE  IInv'
<1> USE DEF settings, history, handovers
<1>1. PICK n \in Notes : disp[s].row = Original(n) /\ Original(n) \in disp[s].batch
  <2>1. /\ disp[s].row \in disp[s].batch /\ disp[s].row \in Rows
        /\ row[disp[s].row].channel \in Optional
    BY Types DEF IInv, HandOK, WarnOwners, DispRecord
  <2>2. disp[s].row[2] = "original"
    BY <2>1 DEF IInv, RowOK
  <2> QED
    BY <2>1, <2>2, Vocabulary DEF Original
<1>2. /\ disp[s] \in DispRecord /\ disp[s].pc = "warn" /\ now \in Nat
  BY Types DEF IInv, WarnOwners
<1>3. PICK told \in SUBSET Owners :
        row' = [r \in Rows |-> IF r[1] = disp[s].row[1] /\ r[2] \in told
                               THEN PendingRow(r[2], "in_app", now) ELSE row[r]]
  BY DEF WarnOwners
<1>4. disp[s].row[1] = n
  BY <1>1 DEF Original
<1> DEFINE A == {<<n, w>> : w \in told}
           d == [disp[s] EXCEPT !.pc = "fall back", !.tried = 0]
<1>5. A \in SUBSET Rows
  BY Vocabulary
<1>6. \A q \in A : q \in Rows /\ row'[q].status = "pending" /\ row'[q].channel = "in_app"
                   /\ ~row'[q].sentAt /\ row'[q] \in RowRecord
  <2>1. ASSUME NEW w \in told
        PROVE  <<n, w>> \in Rows /\ row'[<<n, w>>] = PendingRow(w, "in_app", now)
               /\ w \in Members \cup {None}
    BY <1>3, <1>4, <1>5, Vocabulary
  <2> QED
    BY <2>1, <1>2, PendingRowFields, Vocabulary
<1>7. \A q \in Rows \ A : row'[q] = row[q]
  <2>1. \A q \in Rows : q[1] = n /\ q[2] \in told => q \in A
    BY Vocabulary
  <2> QED
    BY <1>3, <1>4, <2>1
<1>8. \A q \in A : /\ row[q].status = "absent"
                   /\ \A k \in Notes :
                        /\ q # Original(k) /\ q # Fallback(k)
                        /\ k # n => \A w \in Owners : q # <<k, w>>
  <2>1. ASSUME NEW w \in told
        PROVE  /\ row[<<n, w>>].status = "absent"
               /\ \A k \in Notes :
                    /\ <<n, w>> # Original(k) /\ <<n, w>> # Fallback(k)
                    /\ k # n => \A v \in Owners : <<n, w>> # <<k, v>>
    <3>1. w # "original" /\ w # "fallback"
      BY Vocabulary
    <3>2. row[<<n, w>>].status = "absent"
      <4>1. OffspringOK(n) /\ disp[s].pc \notin {"fall back", "mark failed"}
        BY <1>2 DEF IInv
      <4> QED
        BY ONLY <4>1, <1>1, told \in SUBSET Owners DEF OffspringOK
    <3> QED
      BY <3>1, <3>2 DEF Original, Fallback
  <2> QED
    BY <2>1
<1>9. row' \in [Rows -> RowRecord]
  <2>1. \A q \in Rows : row'[q] \in RowRecord
    BY <1>6, <1>7, Types DEF IInv
  <2> QED
    BY <1>3, <2>1
<1>10. d.pc = "fall back" /\ d.batch = disp[s].batch /\ d.row = disp[s].row /\ d \in DispRecord
  BY <1>2 DEF DispRecord, DispatcherPCs
<1>11. /\ disp' = [disp EXCEPT ![s] = d]
       /\ UNCHANGED <<now, settings, senders, crashes, post, history>>
  BY DEF WarnOwners, Goto, OnFailure
<1>12. disp' \in [Servers -> DispRecord] /\ disp'[s] = d /\ \A u \in Servers : u # s => disp'[u] = disp[u]
  BY <1>10, <1>11 DEF IInv, TypeOK, DispRecord
<1>13. TypeOK'
  <2>1. \A u \in Servers : disp[u].pc \notin {"idle", "deliver"} => disp[u].row \in disp[u].batch
    BY DEF IInv, TypeOK
  <2>2. \A u \in Servers : disp'[u].pc \notin {"idle", "deliver"} => disp'[u].row \in disp'[u].batch
    BY <1>1, <1>10, <1>12, <2>1, ZenonT(60)
  <2> QED
    BY <1>9, <1>11, <1>12, <2>2 DEF IInv, TypeOK, RowRecord, DispRecord
<1>14. Fallback(n) \notin A
  BY <1>8
<1> HIDE DEF A, d
<1>15. /\ (\A k \in Notes : PostOK(k))' /\ (\A r \in Rows : RowOK(r))'
       /\ (\A u \in Servers : HandOK(u))' /\ OneHand'
       /\ (\A k \in Notes : OffspringOK(k))' /\ (\A r \in barred : BarredOK(r))'
  <2>1. \A q \in A : /\ row[q].status = "absent" /\ row'[q].status = "pending"
                     /\ row'[q].channel = "in_app" /\ ~row'[q].sentAt
                     /\ \A k \in Notes :
                          /\ q # Original(k)
                          /\ k # n => q # Fallback(k) /\ \A w \in Owners : q # <<k, w>>
    BY <1>6, <1>8
  <2>2. d.pc \in {"fall back", "mark failed"} /\ disp[s].pc \in {"warn", "fall back"}
    BY <1>2, <1>10
  <2>3. UNCHANGED <<post, contact, handovers, barred>> /\ unsaved \subseteq unsaved'
    BY <1>11
  <2>4. Fallback(n) \notin A /\ d.pc # "mark failed"
    BY <1>10, <1>14
  <2>5. disp' = [disp EXCEPT ![s] = d] /\ \A q \in Rows \ A : row'[q] = row[q]
    BY <1>7, <1>11
  <2>6. A \in SUBSET Rows /\ IInv
    BY <1>5
  <2>7. /\ n \in Notes /\ d \in DispRecord /\ disp[s].row = Original(n)
        /\ d.batch = disp[s].batch /\ d.row = disp[s].row
    BY <1>1, <1>10
  <2>8. /\ Fallback(n) \in A => d.pc = "mark failed"
        /\ d.pc = "mark failed" => Fallback(n) \in A \/ Original(n) \in unsaved'
    BY <2>4
  <2>9. Adds(s, n, A, d)
    BY ONLY <2>1, <2>2, <2>3, <2>5, <2>7, <2>8 DEF Adds
  <2> QED
    BY ONLY <2>6, <2>7, <2>9, s \in Servers, RowsAdded
<1> QED
  BY <1>13, <1>15 DEF IInv

\* The fallback is written once: it is there only when the dispatcher is past
\* writing it.
LEMMA FallBackKeeps ==
  ASSUME IInv, NEW s \in Servers, FallBack(s)
  PROVE  IInv'
<1> USE DEF settings, history, handovers
<1>1. PICK n \in Notes : disp[s].row = Original(n) /\ Original(n) \in disp[s].batch
  <2>1. /\ disp[s].row \in disp[s].batch /\ disp[s].row \in Rows
        /\ row[disp[s].row].channel \in Optional
    BY Types DEF IInv, HandOK, FallBack, DispRecord
  <2>2. disp[s].row[2] = "original"
    BY <2>1 DEF IInv, RowOK
  <2> QED
    BY <2>1, <2>2, Vocabulary DEF Original
<1>2. /\ disp[s] \in DispRecord /\ disp[s].pc = "fall back" /\ now \in Nat
      /\ row[Original(n)] \in RowRecord
  BY Types, Vocabulary DEF IInv, FallBack
<1>3. disp[s].row[1] = n /\ Fallback(n) \in Rows /\ Original(n) \in Rows
  BY <1>1, Vocabulary DEF Original
<1> DEFINE f == Fallback(n)
           fresh == PendingRow(row[Original(n)].member, "in_app", now)
           d == [disp[s] EXCEPT !.pc = "mark failed", !.tried = 0]
<1>4. /\ fresh.status = "pending" /\ fresh.channel = "in_app" /\ ~fresh.sentAt
      /\ fresh \in RowRecord
  <2>1. row[Original(n)].member \in Members \cup {None}
    BY <1>2 DEF RowRecord
  <2>2. "in_app" \in Channels
    BY Vocabulary
  <2>3. now \in Nat
    BY <1>2
  <2> QED
    BY ONLY <2>1, <2>2, <2>3, PendingRowFields
<1>5. d.pc = "mark failed" /\ d.batch = disp[s].batch /\ d.row = disp[s].row /\ d \in DispRecord
  BY <1>2 DEF DispRecord, DispatcherPCs
<1>6. /\ disp' = [disp EXCEPT ![s] = d]
      /\ UNCHANGED <<now, settings, senders, crashes, post, handovers, barred>>
      /\ \/ row' = [row EXCEPT ![f] = fresh] /\ unsaved' = unsaved
         \/ row' = row /\ unsaved' = unsaved \cup {Original(n)}
  <2>1. /\ disp' = [disp EXCEPT ![s] = d]
        /\ UNCHANGED <<now, settings, senders, crashes, post, handovers, barred>>
    BY DEF FallBack, Goto
  <2>2. f = <<disp[s].row[1], "fallback">> /\ fresh = PendingRow(row[disp[s].row].member, "in_app", now)
    BY <1>1, <1>3 DEF Fallback
  <2>3. \/ row' = [row EXCEPT ![f] = fresh] /\ unsaved' = unsaved
        \/ row' = row /\ unsaved' = unsaved \cup {disp[s].row}
    BY <2>2 DEF FallBack
  <2> QED
    BY <2>1, <2>3, <1>1
<1>7. disp' \in [Servers -> DispRecord] /\ disp'[s] = d /\ \A u \in Servers : u # s => disp'[u] = disp[u]
  BY <1>5, <1>6 DEF IInv, TypeOK, DispRecord
<1>8. row[f].status = "absent"
  <2>1. OffspringOK(n) /\ disp[s].pc # "mark failed"
    BY <1>2 DEF IInv
  <2> QED
    BY ONLY <2>1, <1>1, s \in Servers DEF OffspringOK
<1>9. \A k \in Notes : f # Original(k) /\ (k # n => f # Fallback(k) /\ \A w \in Owners : f # <<k, w>>)
  BY DEF Original, Fallback
<1> HIDE DEF f, fresh, d
<1>10. row' \in [Rows -> RowRecord] /\ unsaved' \subseteq Rows
  <2>1. row \in [Rows -> RowRecord] /\ unsaved \subseteq Rows /\ Original(n) \in Rows /\ f \in Rows
    BY <1>3 DEF IInv, TypeOK, RowRecord, f
  <2> QED
    BY ONLY <2>1, <1>4, <1>6
<1>11. TypeOK'
  <2>1. \A u \in Servers : disp'[u].pc \notin {"idle", "deliver"} => disp'[u].row \in disp'[u].batch
    BY <1>1, <1>5, <1>7, ZenonT(60) DEF IInv, TypeOK
  <2> QED
    BY <1>6, <1>7, <1>10, <2>1 DEF IInv, TypeOK, RowRecord, DispRecord
<1>12. PICK A \in {{f}, {}} :
         /\ A = {f} => row'[f] = fresh
         /\ A = {} => Original(n) \in unsaved'
         /\ \A q \in Rows \ A : row'[q] = row[q]
  <2>1. CASE row' = [row EXCEPT ![f] = fresh]
    <3>1. row'[f] = fresh /\ \A q \in Rows \ {f} : row'[q] = row[q]
      BY <2>1, <1>3 DEF IInv, TypeOK, f
    <3> QED
      BY <3>1
  <2>2. CASE row' = row /\ unsaved' = unsaved \cup {Original(n)}
    <3>1. Original(n) \in unsaved' /\ \A q \in Rows \ {} : row'[q] = row[q]
      BY <2>2
    <3> QED
      BY <3>1
  <2> QED
    BY <2>1, <2>2, <1>6
<1>13. /\ (\A k \in Notes : PostOK(k))' /\ (\A r \in Rows : RowOK(r))'
       /\ (\A u \in Servers : HandOK(u))' /\ OneHand'
       /\ (\A k \in Notes : OffspringOK(k))' /\ (\A r \in barred : BarredOK(r))'
  <2>1. A \in SUBSET Rows /\ (A = {} \/ A = {f}) /\ f = Fallback(n)
    BY <1>3, <1>12 DEF f
  <2>2. \A q \in A : /\ row[q].status = "absent" /\ row'[q].status = "pending"
                     /\ row'[q].channel = "in_app" /\ ~row'[q].sentAt
                     /\ \A k \in Notes :
                          /\ q # Original(k)
                          /\ k # n => q # Fallback(k) /\ \A w \in Owners : q # <<k, w>>
    BY <2>1, <1>4, <1>8, <1>9, <1>12
  <2>3. UNCHANGED <<post, contact, handovers, barred>> /\ unsaved \subseteq unsaved'
    BY <1>6
  <2>4. Fallback(n) \in A \/ Original(n) \in unsaved'
    BY <2>1, <1>12
  <2>5. disp' = [disp EXCEPT ![s] = d] /\ \A q \in Rows \ A : row'[q] = row[q]
    BY <1>6, <1>12
  <2>6. A \in SUBSET Rows /\ IInv
    BY <2>1
  <2>7. d.pc \in {"fall back", "mark failed"} /\ disp[s].pc \in {"warn", "fall back"}
    BY <1>2, <1>5
  <2>8. /\ n \in Notes /\ d \in DispRecord /\ disp[s].row = Original(n)
        /\ d.batch = disp[s].batch /\ d.row = disp[s].row
    BY <1>1, <1>5
  <2>9. /\ Fallback(n) \in A => d.pc = "mark failed"
        /\ d.pc = "mark failed" => Fallback(n) \in A \/ Original(n) \in unsaved'
    BY <1>5, <2>4
  <2>10. Adds(s, n, A, d)
    BY ONLY <2>2, <2>3, <2>5, <2>7, <2>8, <2>9 DEF Adds
  <2> QED
    BY ONLY <2>6, <2>8, <2>10, s \in Servers, RowsAdded
<1> QED
  BY <1>11, <1>13 DEF IInv
\* Marking a row and going on to the next.
LEMMA MarkKeeps ==
  ASSUME IInv, NEW s \in Servers, MarkSent(s) \/ MarkFailed(s)
  PROVE  IInv'
<1> USE DEF settings, history, handovers
<1>1. PICK r \in Rows : r = disp[s].row /\ r \in disp[s].batch
  BY Types DEF IInv, HandOK, DispRecord, MarkSent, MarkFailed
<1>2. /\ disp[s] \in DispRecord /\ disp[s].pc \in {"mark sent", "mark failed"}
      /\ HandOK(s) /\ row[r].status = "sent" /\ ~row[r].sentAt /\ row[r] \in RowRecord
  BY <1>1, Types DEF IInv, HandOK, MarkSent, MarkFailed
<1> DEFINE rest == disp[s].batch \ {r}
           d == IF rest = {} THEN IdleDispatcher
                ELSE [IdleDispatcher EXCEPT !.pc = "deliver", !.batch = rest]
<1>3. /\ d \in DispRecord /\ d.pc \in {"idle", "deliver"} /\ d.batch = rest
      /\ d.pc = "idle" => rest = {}
      /\ NotYet(d.tried)
  <2>1. rest \in SUBSET Rows
    BY <1>2 DEF DispRecord
  <2>2. /\ IdleDispatcher.pc = "idle" /\ IdleDispatcher.batch = {} /\ IdleDispatcher \in DispRecord
        /\ NotYet(IdleDispatcher.tried)
    BY DEF IdleDispatcher, DispRecord, DispatcherPCs, NotYet
  <2> DEFINE e == [IdleDispatcher EXCEPT !.pc = "deliver", !.batch = rest]
  <2>3. e.pc = "deliver" /\ e.batch = rest /\ e \in DispRecord /\ NotYet(e.tried)
    BY <2>1 DEF IdleDispatcher, DispRecord, DispatcherPCs, NotYet
  <2> HIDE DEF e
  <2>4. d = IF rest = {} THEN IdleDispatcher ELSE e
    BY DEF e
  <2> HIDE DEF d
  <2> QED
    BY <2>2, <2>3, <2>4
<1>4. /\ disp' = [disp EXCEPT ![s] = d]
      /\ UNCHANGED <<now, settings, senders, crashes, post, history>>
      /\ \/ row' = row
         \/ disp[s].pc = "mark sent" /\ row' = [row EXCEPT ![r].status = "sent", ![r].sentAt = TRUE]
         \/ disp[s].pc = "mark failed" /\ row' = [row EXCEPT ![r].status = "failed"]
  BY <1>1 DEF MarkSent, MarkFailed, NextRow
<1> HIDE DEF d
<1>5. /\ \A q \in Rows : q # r => row'[q] = row[q]
      /\ row'[r] \in RowRecord /\ row'[r].channel = row[r].channel /\ row'[r].member = row[r].member
      /\ row'[r].status \in {"sent", "failed"}
      /\ row'[r].sentAt => disp[s].pc = "mark sent"
      /\ row'[r].status = "failed" => disp[s].pc = "mark failed"
      /\ row' \in [Rows -> RowRecord]
  <2>1. row \in [Rows -> RowRecord]
    BY DEF IInv, TypeOK, RowRecord
  <2>2. CASE row' = row
    BY <2>1, <2>2, <1>2
  <2>3. CASE disp[s].pc = "mark sent" /\ row' = [row EXCEPT ![r].status = "sent", ![r].sentAt = TRUE]
    BY <2>1, <2>3, ZenonT(60) DEF RowRecord
  <2>4. CASE disp[s].pc = "mark failed" /\ row' = [row EXCEPT ![r].status = "failed"]
    BY <2>1, <2>4, <1>2 DEF RowRecord
  <2> QED
    BY <2>2, <2>3, <2>4, <1>4
<1>6. disp' \in [Servers -> DispRecord] /\ disp'[s] = d /\ \A u \in Servers : u # s => disp'[u] = disp[u]
  BY <1>3, <1>4 DEF IInv, TypeOK, DispRecord
<1>7. \A u \in Servers : disp'[u].batch \subseteq disp[u].batch /\ r \notin disp'[u].batch
  <2>1. \A u \in Servers : u # s => r \notin disp[u].batch
    BY <1>1 DEF IInv, OneHand
  <2> QED
    BY <2>1, <1>3, <1>6
<1>8. \A q \in Rows : row'[q].status = "absent" <=> row[q].status = "absent"
  BY <1>2, <1>5
<1>9. TypeOK'
  <2>1. \A u \in Servers : disp'[u].pc \notin {"idle", "deliver"} => disp'[u].row \in disp'[u].batch
    BY <1>3, <1>6 DEF IInv, TypeOK
  <2> QED
    BY <1>4, <1>5, <1>6, <2>1 DEF IInv, TypeOK, RowRecord, DispRecord
<1>10. ASSUME NEW n \in Notes PROVE PostOK(n)'
  <2>1. row'[Original(n)].status = "absent" <=> row[Original(n)].status = "absent"
    BY <1>8, Vocabulary
  <2> QED
    BY <1>4, <2>1 DEF IInv, PostOK, PutOff, InQuietHours, SinceMidnight
<1>11. ASSUME NEW q \in Rows PROVE RowOK(q)'
  <2>1. row'[FallbackOf(q)].status = "absent" <=> row[FallbackOf(q)].status = "absent"
    BY <1>8, Vocabulary DEF FallbackOf
  <2>2. RowOK(q) /\ UNCHANGED <<delivered, unanswered, unsaved>>
    BY <1>4 DEF IInv
  <2>3. CASE q = r
    <3>1. /\ disp[s].pc = "mark sent" => Given(delivered[r])
          /\ disp[s].pc = "mark failed" => row[FallbackOf(r)].status # "absent" \/ r \in unsaved
      BY ONLY <1>1, <1>2 DEF HandOK
    <3> QED
      BY ONLY <2>1, <2>2, <2>3, <3>1, <1>5 DEF RowOK
  <2>4. CASE q # r
    BY ONLY <2>1, <2>2, <2>4, <1>5, <1>7, q \in Rows DEF RowOK
  <2> QED
    BY <2>3, <2>4
<1>12. ASSUME NEW u \in Servers PROVE HandOK(u)'
  <2>1. HandOK(u) /\ UNCHANGED <<delivered, unanswered, barred, unsaved>>
    BY <1>4 DEF IInv
  <2>2. \A q \in disp'[u].batch : q \in disp[u].batch /\ row'[q] = row[q]
    BY <1>5, <1>7 DEF IInv, TypeOK
  <2>3. CASE u = s
    <3>1. \A q \in d.batch : /\ row'[q].status = "sent" /\ ~row'[q].sentAt
                             /\ NotYet(delivered'[q])
      <4>1. \A q \in d.batch : q \in disp[s].batch /\ q # disp[s].row /\ row'[q] = row[q]
        BY <2>2, <2>3, <1>1, <1>3, <1>6
      <4> QED
        BY ONLY <4>1, <1>2, <2>1 DEF HandOK
    <3>2. disp'[u] = d
      BY <2>3, <1>6
    <3> QED
      BY ONLY <3>1, <3>2, <1>3 DEF HandOK
  <2>4. CASE u # s
    <3>1. disp'[u] = disp[u]
      BY <2>4, <1>6
    <3>2. disp[u].pc \notin {"idle", "deliver"} =>
            /\ row'[disp[u].row] = row[disp[u].row]
            /\ row'[FallbackOf(disp[u].row)].status = "absent" <=> row[FallbackOf(disp[u].row)].status = "absent"
      <4>1. disp[u].pc \notin {"idle", "deliver"} => disp[u].row \in disp[u].batch /\ disp[u].row \in Rows
        BY Types DEF IInv, HandOK, DispRecord
      <4> QED
        BY <4>1, <2>2, <3>1, <1>8, Vocabulary DEF FallbackOf
    <3> QED
      BY ONLY <2>1, <2>2, <3>1, <3>2 DEF HandOK
  <2> QED
    BY <2>3, <2>4
<1>13. OneHand'
  BY <1>7 DEF IInv, OneHand
<1>14. ASSUME NEW n \in Notes PROVE OffspringOK(n)'
  <2>1. /\ row'[Fallback(n)].status = "absent" <=> row[Fallback(n)].status = "absent"
        /\ \A w \in Owners : row'[<<n, w>>].status = "absent" <=> row[<<n, w>>].status = "absent"
    BY <1>8, Vocabulary
  <2>2. OffspringOK(n)
    BY DEF IInv
  <2>3. \A u \in Servers : Original(n) \in disp'[u].batch =>
          \/ Original(n) \in disp[u].batch /\ disp'[u] = disp[u]
          \/ Original(n) \in disp[s].batch /\ disp[s].row # Original(n)
    BY <1>1, <1>3, <1>6, <1>7
  <2>4. row[Original(n)].status \in {"sent", "failed"} => row'[Original(n)].status \in {"sent", "failed"}
    BY <1>5, Vocabulary
  <2> QED
    BY ONLY <2>1, <2>2, <2>3, <2>4, s \in Servers DEF OffspringOK
<1>15. (\A q \in barred : BarredOK(q))'
  <2>1. \A q \in barred : /\ row'[q].channel = row[q].channel /\ row'[q].member = row[q].member
                          /\ row'[q].status \in {"sent", "failed"}
    BY <1>5 DEF IInv, TypeOK, BarredOK
  <2> QED
    BY <2>1, <1>4 DEF IInv, BarredOK
<1> QED
  BY <1>9, <1>10, <1>11, <1>12, <1>13, <1>14, <1>15 DEF IInv

\* What a stopped server had in hand is in nobody's hand now.
LEMMA CrashKeeps ==
  ASSUME IInv, NEW s \in Servers, Crash(s)
  PROVE  IInv'
<1> USE DEF settings, history, handovers
<1>1. PICK lost \in SUBSET {n \in Notes : post[n].pc \notin {"new", "done"}} :
        /\ crashes < MaxCrashes /\ crashes' = crashes + 1
        /\ disp' = [disp EXCEPT ![s] = IdleDispatcher]
        /\ post' = [n \in Notes |-> IF n \in lost THEN [post[n] EXCEPT !.pc = "done"] ELSE post[n]]
        /\ \E wired \in SUBSET Optional : senders' = [senders EXCEPT ![s] = wired]
        /\ UNCHANGED <<now, settings, row, history>>
  BY DEF Crash
<1>2. /\ IdleDispatcher.pc = "idle" /\ IdleDispatcher.batch = {} /\ IdleDispatcher \in DispRecord
  BY DEF IdleDispatcher, DispRecord, DispatcherPCs
<1>3. disp' \in [Servers -> DispRecord] /\ disp'[s] = IdleDispatcher
      /\ \A u \in Servers : u # s => disp'[u] = disp[u]
  BY <1>1, <1>2 DEF IInv, TypeOK, DispRecord
<1>4. \A u \in Servers : disp'[u] = disp[u] \/ (disp'[u].pc = "idle" /\ disp'[u].batch = {})
  BY <1>2, <1>3
<1>5. \A n \in Notes : /\ post'[n] \in PostRecord
                       /\ post'[n] = post[n] \/
                            (post'[n].pc = "done" /\ post'[n].channel = post[n].channel
                             /\ post'[n].member = post[n].member)
  BY <1>1, Types, ZenonT(60) DEF IInv, PostRecord
<1>6. crashes' \in 0..MaxCrashes
  <2>1. crashes \in 0..MaxCrashes /\ crashes < MaxCrashes /\ crashes' = crashes + 1
    BY <1>1 DEF IInv, TypeOK
  <2>2. MaxCrashes \in Nat
    BY BoundsAssumption
  <2> QED
    BY ONLY <2>1, <2>2
<1>7. senders' \in [Servers -> SUBSET Optional]
  BY <1>1 DEF IInv, TypeOK
<1>8. post' \in [Notes -> PostRecord]
  BY <1>1, <1>5
<1>9. TypeOK'
  <2>1. \A u \in Servers : disp'[u].pc \notin {"idle", "deliver"} => disp'[u].row \in disp'[u].batch
    BY <1>4 DEF IInv, TypeOK
  <2> QED
    BY <1>1, <1>3, <1>6, <1>7, <1>8, <2>1 DEF IInv, TypeOK, PostRecord, DispRecord
<1>10. UNCHANGED <<row, contact, delivered, unanswered, barred, unsaved>>
  BY <1>1
<1>11. ASSUME NEW n \in Notes PROVE PostOK(n)'
  <2>1. PostOK(n)
    BY DEF IInv
  <2>2. CASE post'[n] = post[n]
    BY ONLY <1>10, <2>1, <2>2 DEF PostOK, PutOff, InQuietHours, SinceMidnight
  <2>3. CASE /\ post'[n].pc = "done" /\ post'[n].channel = post[n].channel
             /\ post'[n].member = post[n].member
    BY ONLY <2>1, <2>3 DEF PostOK
  <2> QED
    BY <1>5, <2>2, <2>3
<1>12. (\A r \in Rows : RowOK(r))'
  BY <1>4, <1>10 DEF IInv, RowOK
<1>13. ASSUME NEW u \in Servers PROVE HandOK(u)'
  <2>1. HandOK(u)
    BY DEF IInv
  <2> QED
    BY ONLY <2>1, <1>4, <1>10, u \in Servers DEF HandOK
<1>14. OneHand'
  BY <1>4 DEF IInv, OneHand
<1>15. ASSUME NEW n \in Notes PROVE OffspringOK(n)'
  <2>1. OffspringOK(n)
    BY DEF IInv
  <2> QED
    BY ONLY <2>1, <1>4, <1>10 DEF OffspringOK
<1>16. (\A r \in barred : BarredOK(r))'
  BY <1>10 DEF IInv, BarredOK
<1> QED
  BY <1>9, <1>11, <1>12, <1>13, <1>14, <1>15, <1>16 DEF IInv

-----------------------------------------------------------------------------
(* The theorems. *)

LEMMA InitOK ==
  ASSUME Init
  PROVE  IInv
<1>1. /\ \A n \in Notes : post[n] = NewPost
      /\ \A r \in Rows : row[r] = AbsentRow /\ delivered[r] = 0
      /\ \A s \in Servers : disp[s] = IdleDispatcher
      /\ unanswered = {} /\ barred = {} /\ unsaved = {}
  BY DEF Init
<1>2. /\ NewPost.pc = "new" /\ NewPost.channel = "in_app"
      /\ AbsentRow.status = "absent" /\ AbsentRow.channel = "in_app" /\ AbsentRow.sentAt = FALSE
      /\ IdleDispatcher.pc = "idle" /\ IdleDispatcher.batch = {}
      /\ "in_app" \notin Optional
  BY DEF NewPost, AbsentRow, IdleDispatcher, Optional
<1>3. NewPost \in PostRecord /\ AbsentRow \in RowRecord /\ IdleDispatcher \in DispRecord
  BY DEF NewPost, AbsentRow, IdleDispatcher, PostRecord, RowRecord, DispRecord, Channels, DispatcherPCs
<1>4. now \in 0..MaxTime /\ crashes \in 0..MaxCrashes
  <2>1. MaxTime \in Nat /\ MaxCrashes \in Nat
    BY BoundsAssumption
  <2>2. now = 0 /\ crashes = 0
    BY DEF Init
  <2> QED
    BY ONLY <2>1, <2>2
<1>5. TypeOK
  <2>1. /\ post \in [Notes -> PostRecord] /\ row \in [Rows -> RowRecord]
        /\ disp \in [Servers -> DispRecord]
    BY <1>3 DEF Init
  <2>2. \A s \in Servers : disp[s].pc \notin {"idle", "deliver"} => disp[s].row \in disp[s].batch
    BY <1>1, <1>2
  <2>3. /\ pref \in [Members -> Channels \cup {None}] /\ contact \in [Members -> Contacts]
        /\ quiet \in Windows \cup {None} /\ senders \in [Servers -> SUBSET Optional]
        /\ delivered \in [Rows -> Nat]
        /\ unanswered \subseteq Rows /\ barred \subseteq Rows /\ unsaved \subseteq Rows
    BY DEF Init
  <2> QED
    BY <1>4, <2>1, <2>2, <2>3 DEF TypeOK, PostRecord, RowRecord, DispRecord
<1>6. \A r \in Rows : NotYet(delivered[r])
  BY <1>1 DEF NotYet
<1>12. \A r \in Rows : Accounted(r, delivered[r], unanswered, row[r].channel)
  BY <1>6, Accounts
<1>7. \A n \in Notes : PostOK(n)
  <2>1. \A n \in Notes : row[Original(n)].status = "absent"
    BY <1>1, <1>2, Vocabulary
  <2> QED
    BY <1>1, <1>2, <2>1 DEF PostOK
<1>8. \A r \in Rows : RowOK(r)
  BY <1>1, <1>2, <1>6, <1>12 DEF RowOK
<1>9. \A s \in Servers : HandOK(s)
  BY <1>1, <1>2 DEF HandOK
<1>10. OneHand /\ \A r \in barred : BarredOK(r)
  BY <1>1, <1>2 DEF OneHand
<1>11. \A n \in Notes : OffspringOK(n)
  BY <1>1, <1>2, Vocabulary DEF OffspringOK
<1> QED
  BY <1>5, <1>7, <1>8, <1>9, <1>10, <1>11 DEF IInv

LEMMA StepOK ==
  ASSUME IInv, [Next]_vars
  PROVE  IInv'
<1>1. CASE UNCHANGED vars
  BY <1>1, OutboxRests, PostsRest, BarredRest
     DEF vars, settings, history, handovers, IInv, TypeOK
<1>2. ASSUME NEW n \in Notes, Produce(n) PROVE IInv'
  BY <1>2, RaiseKeeps, ReadPreferenceKeeps, ReadContactKeeps, ReadQuietHoursKeeps, InsertKeeps
     DEF Produce
<1>3. ASSUME NEW s \in Servers, Dispatch(s) PROVE IInv'
  BY <1>3, ClaimDueKeeps, DeliverInAppKeeps, AttemptKeeps, SendKeeps, DowngradeKeeps,
     WarnOwnersKeeps, FallBackKeeps, MarkKeeps DEF Dispatch
<1> QED
  BY <1>1, <1>2, <1>3, TickKeeps, ConfigureKeeps, CrashKeeps DEF Next

\* Whatever the producers, the members and the dispatchers do, each on its
\* own, the invariant stands.
THEOREM OutboxInvariant == Spec => []IInv
BY InitOK, StepOK, PTL DEF Spec

\* The outbox's records keep their shape (notify/domain, notify/app).
THEOREM OutboxTypeCorrect == Spec => []TypeOK
<1>1. IInv => TypeOK
  BY DEF IInv
<1> QED
  BY <1>1, OutboxInvariant, PTL

\* One Send hands a notification over, for any number of servers polling one
\* table and stopping at any call, and any number of attempts within a Send:
\* a member gets it twice only after an attempt the provider took without its
\* answer arriving, and never oftener than one Send tries (ClaimDue, deliver,
\* RetryMaxAttempts).
THEOREM RepeatsAreRetries == Spec => []OneSendPerRow
<1>1. IInv => OneSendPerRow
  <2>1. ASSUME IInv, NEW r \in Rows, delivered[r] > 1
        PROVE  r \in unanswered /\ delivered[r] <= Attempts[row[r].channel]
    <3>1. Accounted(r, delivered[r], unanswered, row[r].channel)
      BY <2>1 DEF IInv, RowOK
    <3> QED
      BY ONLY <2>1, <3>1 DEF Accounted, NotYet, Once
  <2> QED
    BY <2>1 DEF OneSendPerRow
<1> QED
  BY <1>1, OutboxInvariant, PTL

\* What is marked delivered was, and what is marked failed has its in-app
\* fallback, but where the write of the fallback failed (fallbackToInApp).
THEOREM NothingLost == Spec => []NothingSilentlyLost
<1>1. IInv => NothingSilentlyLost
  <2>1. ASSUME IInv, NEW r \in Rows
        PROVE  /\ row[r].sentAt => delivered[r] > 0
               /\ row[r].status = "failed" =>
                    row[<<r[1], "fallback">>].status # "absent" \/ r \in unsaved
    <3>1. row[r].sentAt => Given(delivered[r])
      BY <2>1 DEF IInv, RowOK
    <3>2. row[r].sentAt => delivered[r] > 0
      BY ONLY <3>1 DEF Given
    <3>3. FallbackOf(r) = <<r[1], "fallback">>
      BY DEF FallbackOf, Fallback
    <3>4. row[r].status = "failed" => row[FallbackOf(r)].status # "absent" \/ r \in unsaved
      BY <2>1 DEF IInv, RowOK
    <3> QED
      BY <3>2, <3>3, <3>4
  <2> QED
    BY <2>1 DEF NothingSilentlyLost
<1> QED
  BY <1>1, OutboxInvariant, PTL

\* A text claimed after its member withdrew consent is not sent while consent
\* is withheld (SMSNotificationSender.Send reads the contact again).
THEOREM OptOutsAreRespected == Spec => []NoTextAfterOptOut
<1>1. IInv => NoTextAfterOptOut
  BY DEF IInv, BarredOK, NoTextAfterOptOut, NotYet
<1> QED
  BY <1>1, OutboxInvariant, PTL

\* A text raised in quiet hours waits for their end and no longer, for any
\* window, crossing midnight or not, and any day (QuietHours.EndAfter).
THEOREM TextsWaitForTheWindow == Spec => []DeferredToWindowEnd
<1>1. IInv => DeferredToWindowEnd
  BY DEF IInv, PostOK, PutOff, DeferredToWindowEnd
<1> QED
  BY <1>1, OutboxInvariant, PTL

\* A bounce takes nothing from a member who chose another channel meanwhile:
\* the downgrade looks at the row it changes (DowngradeChannel).
THEOREM OnlyMailIsDowngraded == Spec => BouncesSpareOtherChoices
<1>1. ASSUME IInv, [Next]_vars, NEW m \in Members, pref'[m] # pref[m], disp' # disp
      PROVE  pref[m] = "email"
  <2>1. CASE UNCHANGED vars
    BY <1>1, <2>1 DEF vars
  <2>2. CASE Tick \/ Configure
    <3>1. disp' = disp
      BY <2>2, ZenonT(30) DEF Tick, Configure, SetPreference, SetPhone, OptIn, OptOut, SetQuietHours
    <3> QED
      BY <1>1, <3>1
  <2>3. ASSUME NEW n \in Notes, Produce(n) PROVE disp' = disp
    BY <2>3 DEF Produce, Raise, ReadPreference, ReadContact, ReadQuietHours, Insert, Routed, Posted
  <2>4. ASSUME NEW s \in Servers, Dispatch(s), ~Downgrade(s) PROVE pref' = pref
    BY <2>4, ZenonT(60) DEF Dispatch, ClaimDue, DeliverInApp, CannotSend, ReadNumber, ResolveEmail, Take,
                SendAgain, SendAccepted, SendFailed, SendRejected, WarnOwners, FallBack, Goto,
                MarkSent, MarkFailed, NextRow, settings
  <2>5. ASSUME NEW s \in Servers, Downgrade(s) PROVE pref[m] = "email"
    <3>1. pref \in [Members -> Channels \cup {None}]
      BY <1>1 DEF IInv, TypeOK
    <3>2. PICK k : pref' = pref \/ (Downgradable(pref[k]) /\ pref' = [pref EXCEPT ![k] = "in_app"])
      BY <2>5 DEF Downgrade
    <3> QED
      BY ONLY <1>1, <3>1, <3>2 DEF Downgradable
  <2>6. ASSUME NEW s \in Servers, Crash(s) PROVE pref' = pref
    BY <2>6 DEF Crash, settings
  <2> QED
    BY <1>1, <2>1, <2>2, <2>3, <2>4, <2>5, <2>6 DEF Next
<1>2. IInv /\ [Next]_vars =>
        [\A m \in Members : pref'[m] # pref[m] /\ disp' # disp => pref[m] = "email"]_vars
  BY <1>1
<1> QED
  BY <1>2, OutboxInvariant, PTL DEF Spec, BouncesSpareOtherChoices
=============================================================================
