------------------------------- MODULE Retry -------------------------------
(***************************************************************************)
(* pypowervm.utils.retry.retry around a function that sends several        *)
(* requests through an Adapter whose helper is vios_busy_retry_helper: one *)
(* loop of retries inside another.  Either may see the same answer: "VIOS  *)
(* busy" may be among the http_codes of the decorator.                     *)
(***************************************************************************)
EXTENDS Integers

CONSTANTS
  RetryConfigs,  \* the parameters of @retry, and whether the Adapter has the helper
  NReqs,         \* the requests of one try
  MaxBusy        \* max_retries of the helper

ASSUME RetryConstantsOK ==
  /\ NReqs \in Nat \ {0} /\ MaxBusy \in Nat
  /\ \A c \in RetryConfigs : c.tries \in Nat \ {0}

VARIABLES
  config,   \* the call
  tryNo,    \* try_
  reqNo,    \* the request of this try
  busyNo,   \* retries, of the helper
  tryPc,      \* where the call is
  thrown,   \* what func, or the call, raised
  delayPos, \* pos of STEPPED_RANDOM_DELAY; -1 before the first delay
  sent,     \* observer: requests sent
  reasons,  \* observer: answers that @retry retries
  hopeless  \* observer: an answer that nobody retries

retryVars == <<config, tryNo, reqNo, busyNo, tryPc, thrown, delayPos, sent, reasons, hopeless>>

-----------------------------------------------------------------------------
\* Answers.  "bare" is a busy VIOS without an entry in the response; "conn" is an Error
\* that is no HttpError, "value" no Error of pypowervm at all.
HttpErrors == {"etag", "busy", "bare", "other"}
Answers == HttpErrors \cup {"ok", "conn", "value"}

\* is_retry, and the attributes of the response looked at before.
IsBusy(k) == config.helper /\ k = "busy"
OneMore(n) == n <= MaxBusy  \* mutant: off by one
MayTryBusy(n) == n < MaxBusy
\* The two except clauses of __retry: an HttpError never gets to the second.
Handled(k) == IF k \in HttpErrors THEN config.test \/ k \in config.codes ELSE k \in config.excepts

RetryInit ==
  /\ config \in RetryConfigs
  /\ tryNo = 1 /\ reqNo = 1 /\ busyNo = 0
  /\ tryPc = "send" /\ thrown = "none" /\ delayPos = -1
  /\ sent = 0 /\ reasons = 0 /\ hopeless = FALSE

-----------------------------------------------------------------------------
\* Adapter._request: the helper calls Session.request.
RequestSucceeds ==
  /\ tryPc = "send"
  /\ sent' = sent + 1
  /\ busyNo' = 0
  /\ IF reqNo < NReqs
       THEN reqNo' = reqNo + 1 /\ UNCHANGED tryPc
       ELSE tryPc' = "check" /\ UNCHANGED reqNo
  /\ UNCHANGED <<config, tryNo, thrown, delayPos, reasons, hopeless>>
BusyAgain ==
  /\ tryPc = "send" /\ IsBusy("busy") /\ MayTryBusy(busyNo)
  /\ sent' = sent + 1
  /\ busyNo' = busyNo + 1
  /\ UNCHANGED <<config, tryNo, reqNo, tryPc, thrown, delayPos, reasons, hopeless>>
RequestRaises(k) ==
  /\ tryPc = "send" /\ k # "ok" /\ ~(IsBusy(k) /\ MayTryBusy(busyNo))
  /\ sent' = sent + 1
  /\ thrown' = k
  /\ tryPc' = "except"
  /\ reasons' = IF Handled(k) THEN reasons + 1 ELSE reasons
  /\ hopeless' = (hopeless \/ ~Handled(k))
  /\ UNCHANGED <<config, tryNo, reqNo, busyNo, delayPos>>

\* The response checker; on the last try the response is returned anyway.
CheckResponse(again) ==
  /\ tryPc = "check" /\ (again => config.checker)
  /\ tryPc' = IF ~again \/ tryNo = config.tries THEN "returned" ELSE "delay"
  /\ reasons' = IF again THEN reasons + 1 ELSE reasons
  /\ UNCHANGED <<config, tryNo, reqNo, busyNo, thrown, delayPos, sent, hopeless>>

\* What is not handled by a clause: _raise_exc for an HttpError, the rest just passes.
RaiseExc(k) == IF config.limit THEN "limit" ELSE k
NotHandled ==
  /\ tryPc = "except" /\ ~Handled(thrown)
  /\ thrown' = IF thrown \in HttpErrors THEN RaiseExc(thrown) ELSE thrown
  /\ tryPc' = "raised"
  /\ UNCHANGED <<config, tryNo, reqNo, busyNo, delayPos, sent, reasons, hopeless>>
\* _test_retry.
TestRetry(verdict) ==
  /\ tryPc = "except" /\ Handled(thrown) /\ (config.test \/ verdict)
  /\ IF ~verdict \/ tryNo = config.tries
       THEN tryPc' = "raised" /\ thrown' = RaiseExc(thrown)
       ELSE tryPc' = "delay" /\ thrown' = "none"
  /\ UNCHANGED <<config, tryNo, reqNo, busyNo, delayPos, sent, reasons, hopeless>>

\* STEPPED_RANDOM_DELAY with its six RANDOM_DELAY_STEPS.
Steps == 6
Position(attempt, max) ==
  LET pos == ((attempt - 1) * Steps) \div max IN IF pos < Steps THEN pos ELSE Steps - 1
\* delay_func, _argmod_func, and the next iteration.
NextTry ==
  /\ tryPc = "delay"
  /\ delayPos' = Position(tryNo, config.tries)
  /\ tryNo' = tryNo + 1 /\ reqNo' = 1 /\ busyNo' = 0
  /\ tryPc' = "send"
  /\ UNCHANGED <<config, thrown, sent, reasons, hopeless>>
\* refresh_wrapper GETs, outside of the try: what it raises ends the call.
ArgmodRaises(k) ==
  /\ tryPc = "delay" /\ config.refresh /\ k # "ok"
  /\ thrown' = k
  /\ tryPc' = "raised"
  /\ UNCHANGED <<config, tryNo, reqNo, busyNo, delayPos, sent, reasons, hopeless>>

RetryNext ==
  \/ RequestSucceeds \/ BusyAgain \/ NotHandled \/ NextTry
  \/ \E b \in BOOLEAN : CheckResponse(b) \/ TestRetry(b)
  \/ \E k \in Answers : RequestRaises(k) \/ ArgmodRaises(k)
RetrySpec == RetryInit /\ [][RetryNext]_retryVars

-----------------------------------------------------------------------------
(* Properties.                                                             *)

\* One loop of retries inside the other.  An answer that neither retries ends the call:
\* nothing is sent after it.  A try follows only upon an answer that is to be retried,
\* and what the helper retries costs no tries.  No request is sent more than
\* max_retries + 1 times in one of at most `tries' tries; what is returned comes from a
\* try that was not to be retried, or from the last one; and "if there are only 6
\* retries, then the first will use the first position", the second the second.
RetriesAreMeasured ==
  /\ sent <= tryNo * NReqs * (IF config.helper THEN MaxBusy + 1 ELSE 1)
  /\ tryNo <= config.tries /\ tryNo <= reasons + 1
  /\ hopeless => tryPc \in {"except", "raised"}
  /\ tryPc = "returned" => sent >= tryNo - 1 + NReqs /\ (reasons >= tryNo => tryNo = config.tries)
  /\ config.tries = Steps /\ tryNo > 1 => delayPos = tryNo - 2

\* Refuted.  "An exception to raise if the number of tries is exhausted" (limit_except):
\* it is raised for an HttpError that is not retried as well.
LimitMeansExhausted == thrown = "limit" => tryNo = config.tries
=============================================================================
