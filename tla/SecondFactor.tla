---------------------------- MODULE SecondFactor -----------------------------
(***************************************************************************)
(* One member's second factor: enrolment, recovery codes, sign-in with     *)
(* either, and remembered devices, under concurrent requests.              *)
(*                                                                         *)
(* Each action is one read or one transaction of a request.  A secret is   *)
(* named by the enrolment attempt that generated it and recovery codes by  *)
(* the batch they were generated in; a TOTP code is named by its secret    *)
(* and its step.                                                           *)
(***************************************************************************)
EXTENDS Naturals, FiniteSets

CONSTANTS
  Requests,   \* requests served at the same time
  Secrets,    \* 1 .. n: bounds the enrolment attempts
  Batches,    \* 1 .. n: bounds the batches of recovery codes
  PerBatch,   \* recovery codes in a batch
  Steps,      \* 1 .. n: the TOTP time steps
  None

VARIABLES
  enrol,      \* the member's row of member_mfa
  codes,      \* codes[c]: the row of recovery code c
  devices,    \* remembered devices, as the secrets they were verified under
  req,        \* req[r]: what request r knows
  secrets,    \* how many secrets have been generated
  batches,    \* how many batches have been generated
  confirmed,  \* history: secrets whose enrolment has been confirmed
  proven,     \* history: secrets a right code has been entered for
  accepted,   \* accepted[p]: how often sign-in accepted the code p
  shown       \* history: the codes members were shown for the enrolment they
              \* have, less those they have asked to replace since

vars == <<enrol, codes, devices, req, secrets, batches, confirmed, proven, accepted, shown>>

Codes     == Batches \X (1 .. PerBatch)
TotpCodes == {<<"totp", k, n>> : k \in Secrets, n \in Steps}
Fresh     == {c \in Codes : c[1] = batches + 1}   \* none left: the transaction fails
NoRow     == [secret |-> None, confirmed |-> FALSE, step |-> 0]
Idle      == [pc |-> "idle", for |-> None, secret |-> None, step |-> None, code |-> None,
              drop |-> {}, since |-> {}]

Stored == {c \in Codes : codes[c] # "absent"}
Unused == {c \in Codes : codes[c] = "unused"}

\* The table without the codes in drop and with those in add.
Replaced(drop, add) == [c \in Codes |-> IF c \in add THEN "unused" ELSE IF c \in drop THEN "absent" ELSE codes[c]]

Init == /\ enrol = NoRow /\ devices = {} /\ req = [r \in Requests |-> Idle]
        /\ codes = [c \in Codes |-> "absent"]
        /\ secrets = 0 /\ batches = 0 /\ confirmed = {} /\ proven = {} /\ shown = {}
        /\ accepted = [p \in Codes \cup TotpCodes |-> 0]

Goto(r, q)     == req' = [req EXCEPT ![r] = q]
At(r, pc)      == req[r].pc = pc
Move(r, from, to) == At(r, from) /\ Goto(r, [req[r] EXCEPT !.pc = to])
Finish(r)      == Goto(r, Idle)

\* Codes a transaction in progress has deleted, and so keeps locked.
Locked == UNION {req[r].drop : r \in Requests}

-----------------------------------------------------------------------------
(* Enrolment. *)

\* Replaces an unconfirmed secret; a confirmed one is left alone.
BeginEnrollment(r) ==
  /\ At(r, "idle") /\ secrets + 1 \in Secrets /\ ~enrol.confirmed
  /\ secrets' = secrets + 1
  /\ enrol' = [enrol EXCEPT !.secret = secrets + 1]
  /\ UNCHANGED <<codes, devices, req, batches, confirmed, proven, accepted, shown>>

\* The entered code is right for the secret just read.
ConfirmEnrollment(r) ==
  /\ At(r, "idle") /\ enrol.secret # None /\ ~enrol.confirmed
  /\ proven' = proven \cup {enrol.secret}
  /\ Goto(r, [Idle EXCEPT !.pc = "confirm"])
  /\ UNCHANGED <<enrol, codes, devices, secrets, batches, confirmed, accepted, shown>>

\* Mutant: any enrolment is confirmed, again if need be.
AnyEnrolment == enrol.secret # None

\* Checked under the row's lock: it exists and nobody else has confirmed it.
Confirmable == enrol.secret # None /\ ~enrol.confirmed

ConfirmEnrollmentWithCodes(r) ==
  /\ At(r, "confirm") /\ Finish(r)
  /\ IF Confirmable /\ Fresh # {}
     THEN /\ Locked = {}
          /\ batches' = batches + 1
          /\ enrol' = [enrol EXCEPT !.confirmed = TRUE]
          /\ codes' = Replaced(Stored, Fresh)
          /\ confirmed' = confirmed \cup {enrol.secret}
          /\ shown' = shown \cup Fresh
     ELSE UNCHANGED <<batches, enrol, codes, confirmed, shown>>
  /\ UNCHANGED <<devices, secrets, proven, accepted>>

\* A right TOTP code asks for a new batch, or to disenrol.
Authorize(r) ==
  /\ At(r, "idle") /\ enrol.confirmed
  /\ \E pc \in {"replace", "revoke"} : Goto(r, [Idle EXCEPT !.pc = pc])
  /\ UNCHANGED <<enrol, codes, devices, secrets, batches, confirmed, proven, accepted, shown>>

\* DELETE sees the codes that were committed when it started.
ReplaceRecoveryCodes(r) ==
  /\ At(r, "replace")
  /\ Goto(r, [req[r] EXCEPT !.pc = "insert", !.drop = Stored])
  /\ UNCHANGED <<enrol, codes, devices, secrets, batches, confirmed, proven, accepted, shown>>

\* The inserts need the enrolment's row, and the transaction commits.
InsertRecoveryCodes(r) ==
  /\ At(r, "insert") /\ Finish(r)
  /\ IF enrol.secret # None /\ Fresh # {}
     THEN /\ batches' = batches + 1
          /\ codes' = Replaced(req[r].drop, Fresh)
          /\ shown' = IF enrol.confirmed THEN (shown \ req[r].drop) \cup Fresh ELSE shown
     ELSE UNCHANGED <<batches, codes, shown>>
  /\ UNCHANGED <<enrol, devices, secrets, confirmed, proven, accepted>>

-----------------------------------------------------------------------------
(* Signing in, and disenrolling with a recovery code. *)

\* The attempt captures its time and reads the enrolment.
VerifyLoginCode(r) ==
  /\ At(r, "idle") /\ enrol.confirmed
  /\ LET attempt == [Idle EXCEPT !.for = "login", !.secret = enrol.secret, !.since = confirmed]
     IN  \/ Goto(r, [attempt EXCEPT !.pc = "list"])
         \/ \E n \in Steps : n > enrol.step /\ Goto(r, [attempt EXCEPT !.pc = "record", !.step = n])
  /\ UNCHANGED <<enrol, codes, devices, secrets, batches, confirmed, proven, accepted, shown>>

DisenrollByCode(r) ==
  /\ At(r, "idle") /\ enrol.confirmed
  /\ Goto(r, [Idle EXCEPT !.pc = "list", !.for = "disenrol"])
  /\ UNCHANGED <<enrol, codes, devices, secrets, batches, confirmed, proven, accepted, shown>>

\* The conditional update's WHERE.
StepIsNew(n) == enrol.secret # None /\ enrol.step < n

RecordLoginStep(r) ==
  /\ At(r, "record")
  /\ LET n == req[r].step
     IN  IF StepIsNew(n)
         THEN /\ enrol' = [enrol EXCEPT !.step = n]
              /\ accepted' = [accepted EXCEPT ![<<"totp", req[r].secret, n>>] = @ + 1]
              /\ Goto(r, [req[r] EXCEPT !.pc = "remember"])
         ELSE Finish(r) /\ UNCHANGED <<enrol, accepted>>
  /\ UNCHANGED <<codes, devices, secrets, batches, confirmed, proven, shown>>

\* The recovery code entered is one of the unused ones.
MatchRecoveryCode(r) ==
  /\ At(r, "list")
  /\ \/ \E c \in Unused : Goto(r, [req[r] EXCEPT !.pc = "mark", !.code = c])
     \/ Finish(r)
  /\ UNCHANGED <<enrol, codes, devices, secrets, batches, confirmed, proven, accepted, shown>>

\* Mutant: the code is marked whether it has been used or not.
Present(c) == codes[c] # "absent"

\* The update's WHERE.
Markable(c) == codes[c] = "unused"

MarkRecoveryCodeUsed(r) ==
  /\ At(r, "mark") /\ req[r].code \notin Locked
  /\ LET c == req[r].code
     IN  IF Markable(c)
         THEN /\ codes' = [codes EXCEPT ![c] = "used"]
              /\ accepted' = [accepted EXCEPT ![c] = @ + 1]
              /\ Goto(r, [req[r] EXCEPT !.pc = IF req[r].for = "login" THEN "remember" ELSE "revoke"])
         ELSE Finish(r) /\ UNCHANGED <<codes, accepted>>
  /\ UNCHANGED <<enrol, devices, secrets, batches, confirmed, proven, shown>>

\* Mutant: the enrolment may be younger than the sign-in.
EnrolledNow(since) == enrol.confirmed

\* Confirmed, and no later than the sign-in began.
EnrolledSince(since) == enrol.confirmed /\ enrol.secret \in since

\* "Remember this device" is stored on the condition of its INSERT ... SELECT.
Remember(r) ==
  /\ At(r, "remember") /\ Finish(r)
  /\ devices' = IF EnrolledSince(req[r].since) THEN devices \cup {req[r].secret} ELSE devices
  /\ UNCHANGED <<enrol, codes, secrets, batches, confirmed, proven, accepted, shown>>

-----------------------------------------------------------------------------
(* Removing the enrolment. *)

\* The household's owner, having entered their password.
ResetMemberMFA(r) ==
  /\ Move(r, "idle", "revoke")
  /\ UNCHANGED <<enrol, codes, devices, secrets, batches, confirmed, proven, accepted, shown>>

RevokeDevices(r) ==
  /\ Move(r, "revoke", "delete") /\ devices' = {}
  /\ UNCHANGED <<enrol, codes, secrets, batches, confirmed, proven, accepted, shown>>

\* Deletes whatever row there is; its codes and devices go with it.
DeleteEnrollment(r) ==
  /\ At(r, "delete") /\ Finish(r)
  /\ IF enrol.secret # None
     THEN /\ Locked = {}
          /\ enrol' = NoRow /\ codes' = Replaced(Stored, {}) /\ devices' = {} /\ shown' = {}
     ELSE UNCHANGED <<enrol, codes, devices, shown>>
  /\ UNCHANGED <<secrets, batches, confirmed, proven, accepted>>

Next == \E r \in Requests :
  \/ BeginEnrollment(r) \/ ConfirmEnrollment(r) \/ ConfirmEnrollmentWithCodes(r)
  \/ Authorize(r) \/ ReplaceRecoveryCodes(r) \/ InsertRecoveryCodes(r)
  \/ VerifyLoginCode(r) \/ DisenrollByCode(r) \/ RecordLoginStep(r)
  \/ MatchRecoveryCode(r) \/ MarkRecoveryCodeUsed(r) \/ Remember(r)
  \/ ResetMemberMFA(r) \/ RevokeDevices(r) \/ DeleteEnrollment(r)

Spec == Init /\ [][Next]_vars

-----------------------------------------------------------------------------
(* Properties. *)

\* The types of the tables and of the requests.
TypeOK ==
  /\ enrol \in [secret : Secrets \cup {None}, confirmed : BOOLEAN, step : {0} \cup Steps]
  /\ codes \in [Codes -> {"absent", "unused", "used"}]
  /\ devices \subseteq Secrets /\ shown \subseteq Codes
  /\ enrol.secret = None => enrol = NoRow /\ Stored = {} /\ devices = {}

\* No recovery code is accepted twice, and no TOTP code of the enrolment in
\* force, also when two requests present it at the same time.  (A sign-in that
\* outlives its enrolment records its step on the next one's row.)
AcceptedOnce == /\ \A c \in Codes : accepted[c] <= 1
                /\ \A n \in Steps : enrol.secret # None => accepted[<<"totp", enrol.secret, n>>] <= 1

\* The codes a member was shown stay on file until they replace them or lose
\* the enrolment: of two requests that confirm one enrolment only one is shown
\* codes, and no regeneration undoes another's.
ShownCodesStand == shown \subseteq Stored

\* A device is remembered only under the enrolment the sign-in proved; none
\* outlives it or passes to the next one.
DevicesFollowEnrolment == \A k \in devices : enrol.confirmed /\ enrol.secret = k

\* The enrolment that is in force is one whose authenticator the member has
\* entered a code of.
ConfirmedIsProven == enrol.confirmed => enrol.secret \in proven
=============================================================================
