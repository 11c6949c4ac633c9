------------------------------- MODULE LoginCodes -------------------------------
(***************************************************************************)
(* The codes sent by SMS to one phone number (lib/otp.ts), with any number *)
(* of requests and answers at work at the same time.                       *)
(*                                                                         *)
(* requestOtp reads the recent codes, awaits, and then replaces the open   *)
(* codes of the purpose by a new one in one batch; verifyOtp reads the     *)
(* newest open code and makes its two conditional updates, each a step.    *)
(* A code is identified with its row: the guess c is right for row c only. *)
(***************************************************************************)
EXTENDS Integers, FiniteSets

CONSTANTS
  Codes,          \* bound: rows that are ever created
  Purposes,       \* LOGIN, REGISTER, PROFILE
  Askers, Answerers,  \* bound: handlers at work at one time
  NoCode,         \* no row, or a wrong guess
  OtpResend,      \* OTP_RESEND_SEC
  OtpTtl,         \* OTP_TTL_SEC
  OtpMaxAttempts, \* OTP_MAX_ATTEMPTS
  OtpMaxPerHour,  \* OTP_MAX_PER_HOUR: the hour contains the run
  SmsPerHour,     \* OTP_GLOBAL_PER_HOUR, what is left of it for this phone
  MaxClock        \* bound: how long the run is

ASSUME CodesAssumption ==
  /\ NoCode \notin Codes /\ "none" \notin Purposes
  /\ OtpResend \in Nat /\ OtpTtl \in Nat /\ OtpMaxAttempts \in Nat
  /\ OtpMaxPerHour \in Nat /\ SmsPerHour \in Nat /\ MaxClock \in Nat

VARIABLES
  otp,       \* the OtpCode rows
  clock,     \* Date.now()
  asker,     \* requestOtp at work: the purpose and the time it began
  answerer,  \* verifyOtp at work: the row it read and the guess
  smsLeft,   \* the global rate limit
  compared,  \* history: how often a guess was compared with the code
  entered    \* history: how often the code was good for an entry

codeVars == <<otp, clock, asker, answerer, smsLeft, compared, entered>>

NotSent == [purpose |-> "none", made |-> 0, expires |-> 0, attempts |-> 0, consumed |-> FALSE]
NoAsker == [at |-> "idle", purpose |-> "none", since |-> 0]
NoAnswerer == [at |-> "idle", row |-> NoCode, guess |-> NoCode]

CodesTypeOK ==
  /\ otp \in [Codes -> [purpose : Purposes \cup {"none"}, made : 0..MaxClock,
                        expires : Nat, attempts : 0..OtpMaxAttempts, consumed : BOOLEAN]]
  /\ clock \in 0..MaxClock
  /\ asker \in [Askers -> [at : {"idle", "allowed"}, purpose : Purposes \cup {"none"},
                           since : 0..MaxClock]]
  /\ answerer \in [Answerers -> [at : {"idle", "read", "right"}, row : Codes \cup {NoCode},
                                 guess : Codes \cup {NoCode}]]
  /\ smsLeft \in 0..SmsPerHour
  /\ compared \in [Codes -> Nat] /\ entered \in [Codes -> Nat]

CodesInit ==
  /\ otp = [c \in Codes |-> NotSent] /\ clock = 0
  /\ asker = [a \in Askers |-> NoAsker]
  /\ answerer = [v \in Answerers |-> NoAnswerer]
  /\ smsLeft = SmsPerHour
  /\ compared = [c \in Codes |-> 0] /\ entered = [c \in Codes |-> 0]

Sent == {c \in Codes : otp[c].purpose # "none"}
OpenCodes(p) == {c \in Codes : otp[c].purpose = p /\ ~otp[c].consumed}
--------------------------------------------------------------------------------
(* requestOtp: no code to this phone in the last OTP_RESEND_SEC, whatever  *)
(* its purpose, and not too many in the hour ...                           *)

RequestReads(a, p) ==
  /\ asker[a] = NoAsker
  /\ \A c \in Sent : otp[c].made + OtpResend <= clock
  /\ Cardinality(Sent) < OtpMaxPerHour
  /\ asker' = [asker EXCEPT ![a] = [at |-> "allowed", purpose |-> p, since |-> clock]]
  /\ UNCHANGED <<otp, clock, answerer, smsLeft, compared, entered>>

(* ... nor to all phones together; then the batch.  It expires             *)
(* OTP_TTL_SEC after the request began.  Whether the SMS arrives changes   *)
(* nothing here: the row stays.                                            *)
NewCode(p, since) ==
  [purpose |-> p, made |-> clock, expires |-> since + OtpTtl, attempts |-> 0, consumed |-> FALSE]

AddCode(p, c, since) == otp' = [otp EXCEPT ![c] = NewCode(p, since)]

ReplaceOpen(p, c, since) ==
  otp' = [d \in Codes |->
            IF d = c THEN NewCode(p, since)
            ELSE IF d \in OpenCodes(p) THEN [otp[d] EXCEPT !.consumed = TRUE]
            ELSE otp[d]]

RequestOtp(a) ==
  /\ asker[a].at = "allowed"
  /\ IF smsLeft > 0
     THEN /\ smsLeft' = smsLeft - 1
          /\ Sent # Codes
          /\ ReplaceOpen(asker[a].purpose, CHOOSE c \in Codes : c \notin Sent, asker[a].since)
     ELSE UNCHANGED <<smsLeft, otp>>
  /\ asker' = [asker EXCEPT ![a] = NoAsker]
  /\ UNCHANGED <<clock, answerer, compared, entered>>
--------------------------------------------------------------------------------
(* verifyOtp: the newest open code of the purpose, if it is not too old.   *)

VerifyReads(v, p, guess) ==
  /\ answerer[v] = NoAnswerer
  /\ \E c \in OpenCodes(p) :
       /\ \A d \in OpenCodes(p) : otp[d].made <= otp[c].made
       /\ otp[c].expires >= clock
       /\ answerer' = [answerer EXCEPT ![v] = [at |-> "read", row |-> c, guess |-> guess]]
  /\ UNCHANGED <<otp, clock, asker, smsLeft, compared, entered>>

(* The attempt is counted before the comparison, if the code is still open *)
(* and has attempts left.                                                  *)
VerifyCounts(v) ==
  LET c == answerer[v].row
      counted == ~otp[c].consumed /\ otp[c].attempts < OtpMaxAttempts
  IN
  /\ answerer[v].at = "read"
  /\ IF counted
     THEN /\ otp' = [otp EXCEPT ![c].attempts = @ + 1]
          /\ compared' = [compared EXCEPT ![c] = @ + 1]
     ELSE UNCHANGED <<otp, compared>>
  /\ answerer' = [answerer EXCEPT ![v] =
       IF counted /\ @.guess = c THEN [@ EXCEPT !.at = "right"] ELSE NoAnswerer]
  /\ UNCHANGED <<clock, asker, smsLeft, entered>>

(* A right code is consumed by the one whose update finds it open.         *)
StillOpenOnRead(c) == TRUE
StillOpen(c) == ~otp[c].consumed

VerifyConsumes(v) ==
  LET c == answerer[v].row IN
  /\ answerer[v].at = "right"
  /\ IF StillOpen(c)
     THEN /\ otp' = [otp EXCEPT ![c].consumed = TRUE]
          /\ entered' = [entered EXCEPT ![c] = @ + 1]
     ELSE UNCHANGED <<otp, entered>>
  /\ answerer' = [answerer EXCEPT ![v] = NoAnswerer]
  /\ UNCHANGED <<clock, asker, smsLeft, compared>>

OtpClockTicks ==
  /\ clock < MaxClock /\ clock' = clock + 1
  /\ UNCHANGED <<otp, asker, answerer, smsLeft, compared, entered>>

CodesNext ==
  \/ \E a \in Askers : RequestOtp(a) \/ \E p \in Purposes : RequestReads(a, p)
  \/ \E v \in Answerers :
       \/ \E p \in Purposes, guess \in Codes \cup {NoCode} : VerifyReads(v, p, guess)
       \/ VerifyCounts(v) \/ VerifyConsumes(v)
  \/ OtpClockTicks

CodesSpec == CodesInit /\ [][CodesNext]_codeVars
--------------------------------------------------------------------------------
(* Properties *)

(* "Makes a new code and voids the earlier ones of the same purpose"       *)
(* (otp.ts:36), also when requests run at the same time: a purpose has one *)
(* open code at most.                                                      *)
OneOpenCode == \A p \in Purposes : \A c, d \in OpenCodes(p) : c = d

(* Besides: "Consumption is atomic: of two simultaneous requests with one  *)
(* code only one succeeds" (otp.ts:103), a code that was good once is not  *)
(* open any more, and however the answers interleave, "the stale attempts" *)
(* (otp.ts:90) do not let a code be compared more often than               *)
(* OTP_MAX_ATTEMPTS.                                                       *)
CodesSpentOnce ==
  /\ OneOpenCode
  /\ \A c \in Codes :
       /\ entered[c] <= 1
       /\ entered[c] = 1 => otp[c].consumed
       /\ compared[c] <= OtpMaxAttempts
================================================================================
