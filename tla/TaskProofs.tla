----------------------------- MODULE TaskProofs -----------------------------
(***************************************************************************)
(* Proofs about the long-running tasks, for every number of callers,       *)
(* threads, failures and tries: Job (run_job and its background threads),  *)
(* Retry (the two loops of retries), Vterm (the repeaters of a console),   *)
(* PowerOff (the progressions), StorageUpload (permits, Files, disks),     *)
(* ImageUpload (get_or_upload_image_lu on hosts that share an SSP),        *)
(* LparBuilder (build, validate, POST: the limits of a partition and what  *)
(* fits in the host) and Metrics (the cycles that the cache counts).       *)
(* Each part states its inductive invariant, shows that the initial        *)
(* states satisfy it and that every step keeps it, action by action, and   *)
(* derives the properties that TLC checks on small instances. The sums of  *)
(* the last two rest on facts about the library's SumFunctionOnSet, which  *)
(* are proved before them.                                                 *)
(***************************************************************************)
EXTENDS Job, Retry, Vterm, PowerOff, StorageUpload, ImageUpload, LparBuilder, Metrics, FiniteSetTheorems, NaturalsInduction, WellFoundedInduction, TLAPS

-----------------------------------------------------------------------------
(* Job.                                                                    *)

\* The values of the variables of Job.
JobTyped ==
  /\ job \in Statuses \cup {"none", "deleted"}
  /\ entry \in Statuses \cup {"none", "deleted"}
  /\ sync \in BOOLEAN /\ limited \in BOOLEAN
  /\ main \in {"create", "poll", "cancel", "delete", "check", "end"}
  /\ result \in {"none", "ok", "started", "Error", "JobRequestFailed", "JobRequestTimedOut"}
  /\ keeper \in {"none", "poll", "delete", "end"}
  /\ keepKind \in {"none", "Cancel", "PollAndDelete"}
  /\ deleter \in {"none", "done", "Error"}
  /\ jobFaults \in 0 .. MaxJobFaults

\* However stale the entry is, the job is never behind it: what has ended stays ended,
\* what has started has started, and what was deleted is gone.
EntryIsNotAhead ==
  /\ entry \in EndStates => job \in {entry, "deleted"}
  /\ entry = "deleted" => job = "deleted"
  /\ entry = RUNNING => job \notin {NOT_ACTIVE, "none"}
  /\ entry = NOT_ACTIVE => job # "none"

\* Who has the entry in hand, and what it has made sure of.
HandOver ==
  /\ main = "create" => entry = "none" /\ job = "none"
  /\ main \in {"poll", "cancel", "delete", "check"} => entry # "none"
  /\ main \in {"delete", "check"} => entry \notin Live
  /\ main # "end" => keeper = "none" /\ result = "none"
  /\ keeper # "none" => entry # "none"
  /\ keeper = "delete" => entry \notin Live
  /\ keeper # "none" /\ keepKind # "Cancel" => entry # NOT_ACTIVE
  /\ result = "started" => entry \notin {NOT_ACTIVE, "none"} 
  /\ result = "ok" => entry = COMPLETED_OK

JobInv == JobTyped /\ EntryIsNotAhead /\ HandOver

\* Before run_job creates the job, JobInv holds.
LEMMA JobInitial == JobInit => JobInv
BY JobConstantsOK
   DEF JobInit, JobInv, JobTyped, EntryIsNotAhead, HandOver, Statuses, Live, EndStates, NOT_ACTIVE, RUNNING, COMPLETED_OK

\* A deletion is preceded by a look at an entry that says that the job is over.
LEMMA DeletesEnded ==
  ASSUME JobInv, JobNext, job' = "deleted"
  PROVE  job \notin Live
<1> USE DEF JobInv, JobTyped, EntryIsNotAhead, HandOver, Statuses, Live, EndStates, NOT_ACTIVE, RUNNING, COMPLETED_OK
<1>1. CASE DeleteJob
  BY <1>1 DEF DeleteJob, Returns
<1>2. CASE KeeperDeletes
  BY <1>2 DEF KeeperDeletes
<1>3. CASE UserDeletes
  BY <1>3 DEF UserDeletes
<1>4. CASE job' = job
  BY <1>4
<1> QED
  BY <1>1, <1>2, <1>3, <1>4
     DEF JobNext, Caller, Keeper, Failures, Starts, Ends, CreateJob, CreateJobFails, Poll, PollFails, TimesOut,
         CancelJob, Polled, CheckStatus, KeeperPolls, KeeperDies, JobDone, jobVars

\* Every step of the server, of run_job, of a background thread and of the consumer
\* keeps JobInv.
LEMMA JobStep == JobInv /\ [JobNext]_jobVars => JobInv'
<1> SUFFICES ASSUME JobInv, [JobNext]_jobVars PROVE JobInv'
  OBVIOUS
<1> USE JobConstantsOK
    DEF JobInv, JobTyped, EntryIsNotAhead, HandOver, Statuses, Live, EndStates, NOT_ACTIVE, RUNNING, COMPLETED_OK,
        JobFault, Returns
<1>1. CASE Starts
  BY <1>1 DEF Starts
<1>2. CASE Ends
  BY <1>2 DEF Ends
<1>3. CASE CreateJob
  BY <1>3 DEF CreateJob
<1>4. CASE CreateJobFails
  BY <1>4 DEF CreateJobFails
<1>5. CASE Poll
  BY <1>5 DEF Poll, AwaitedByCaller
<1>6. CASE PollFails
  BY <1>6 DEF PollFails, AwaitedByCaller
<1>7. CASE TimesOut
  BY <1>7 DEF TimesOut, AwaitedByCaller
<1>8. CASE CancelJob
  BY <1>8 DEF CancelJob, StartThread
<1>9. CASE Polled
  BY <1>9 DEF Polled, AwaitedByCaller, StartThread
<1>10. CASE DeleteJob
  BY <1>10 DEF DeleteJob, DeleteOnServer
<1>11. CASE CheckStatus
  BY <1>11 DEF CheckStatus, Succeeded
<1>12. CASE KeeperPolls
  BY <1>12 DEF KeeperPolls, AwaitedByKeeper
<1>13. CASE KeeperDies
  BY <1>13 DEF KeeperDies
<1>14. CASE KeeperDeletes
  BY <1>14 DEF KeeperDeletes, DeleteOnServer
<1>15. CASE UserDeletes
  BY <1>15 DEF UserDeletes, DeleteOnServer
<1>16. CASE UNCHANGED jobVars
  BY <1>16 DEF jobVars
<1> QED
  BY <1>1, <1>2, <1>3, <1>4, <1>5, <1>6, <1>7, <1>8, <1>9, <1>10, <1>11, <1>12, <1>13, <1>14, <1>15, <1>16
     DEF JobNext, Caller, Keeper, Failures, JobDone

\* JobInv is an invariant.
LEMMA JobInvariant == JobSpec => []JobInv
BY JobInitial, JobStep, PTL DEF JobSpec

\* run_job returns normally only if the job has completed well on the server
\* (wrappers/job.py: run_job, _monitor_job), whatever the other threads have read.
THEOREM SuccessIsTrue == JobSpec => []SuccessIsReal
<1>1. JobInv => SuccessIsReal
  BY DEF JobInv, HandOver, EntryIsNotAhead, SuccessIsReal, EndStates
<1> QED
  BY <1>1, JobInvariant, PTL

\* delete_job, called by run_job, by a PollAndDeleteThread, by a CancelJobThread or by
\* the consumer, never removes a queued or running job from the server.
THEOREM LiveJobsStay == JobSpec => NeverDeletesLive
<1>1. JobInv /\ [JobNext]_jobVars => [job' = "deleted" => job \notin Live]_jobVars
  BY DeletesEnded
<1> QED
  BY <1>1, JobInvariant, PTL DEF JobSpec, NeverDeletesLive

-----------------------------------------------------------------------------
(* Retry.                                                                  *)

\* What the helper may send for one request.
PerRequest == IF config.helper THEN MaxBusy + 1 ELSE 1

RetryTyped ==
  /\ config \in RetryConfigs
  /\ tryNo \in 1 .. config.tries /\ reqNo \in 1 .. NReqs
  /\ busyNo \in Nat /\ busyNo < PerRequest
  /\ tryPc \in {"send", "check", "except", "delay", "returned", "raised"}
  /\ sent \in Nat /\ reasons \in Nat /\ hopeless \in BOOLEAN

\* The tries before this one have cost at most NReqs requests each, and this one what
\* its position says.
SentIsBounded ==
  /\ tryPc = "send" => sent <= (tryNo - 1) * (NReqs * PerRequest) + (reqNo - 1) * PerRequest + busyNo
  /\ sent <= tryNo * (NReqs * PerRequest)

\* Every earlier try has sent something, and this one all up to its position.
SentIsEnough ==
  /\ tryPc = "send" => sent >= tryNo - 1 + reqNo - 1
  /\ tryPc = "except" => sent >= tryNo - 1 + reqNo
  /\ tryPc \in {"check", "returned"} => sent >= tryNo - 1 + NReqs
  /\ tryPc = "delay" => sent >= tryNo

\* Every try but the last has had exactly one reason.
OneReasonPerTry ==
  /\ tryPc \in {"send", "check"} => reasons = tryNo - 1
  /\ tryPc = "except" => reasons = IF Handled(thrown) THEN tryNo ELSE tryNo - 1
  /\ tryPc = "delay" => reasons = tryNo /\ tryNo < config.tries
  /\ tryPc = "returned" => reasons = tryNo - 1 \/ tryNo = config.tries
  /\ tryNo <= reasons + 1
  /\ tryPc \in {"send", "check", "delay", "returned"} => ~hopeless
  /\ tryPc = "except" /\ hopeless => ~Handled(thrown)

StepsOfDelay == config.tries = Steps /\ tryNo > 1 => delayPos = tryNo - 2

RetryInv == RetryTyped /\ SentIsBounded /\ SentIsEnough /\ OneReasonPerTry /\ StepsOfDelay

\* The arithmetic of counting requests: n tries of b requests.
LEMMA TimesSucc == ASSUME NEW a \in Nat, NEW b \in Nat PROVE (a + 1) * b = a * b + b /\ a * b \in Nat
OBVIOUS
\* More tries cost more.
LEMMA TimesLeq == ASSUME NEW a \in Nat, NEW b \in Nat, NEW c \in Nat, a <= b PROVE a * c <= b * c
OBVIOUS
\* Tries of requests of retries.
LEMMA TimesAssoc == ASSUME NEW a \in Nat, NEW b \in Nat, NEW c \in Nat PROVE a * (b * c) = (a * b) * c
OBVIOUS

\* The constants of a call are positive.
LEMMA PerRequestType == RetryInv => PerRequest \in Nat \ {0} /\ config.tries \in Nat \ {0}
BY RetryConstantsOK DEF RetryInv, RetryTyped, PerRequest

\* There is always room for the request that is about to be sent.
LEMMA OneMoreFits ==
  ASSUME RetryInv, tryPc = "send"
  PROVE  /\ sent + 1 <= (tryNo - 1) * (NReqs * PerRequest) + reqNo * PerRequest
         /\ sent + 1 <= tryNo * (NReqs * PerRequest)
<1> DEFINE P == PerRequest
           A == (tryNo - 1) * (NReqs * P)
<1>1. P \in Nat \ {0} /\ NReqs \in Nat /\ tryNo \in Nat \ {0} /\ reqNo \in Nat \ {0} /\ reqNo <= NReqs /\ busyNo \in Nat
      /\ busyNo < P /\ sent \in Nat
  BY PerRequestType, RetryConstantsOK DEF RetryInv, RetryTyped
<1>2. sent <= A + (reqNo - 1) * P + busyNo
  BY DEF RetryInv, SentIsBounded
<1> HIDE DEF P
<1>3. NReqs * P \in Nat
  BY <1>1, TimesSucc
<1>4. A \in Nat /\ tryNo * (NReqs * P) = A + NReqs * P
  BY <1>1, <1>3, TimesSucc
<1>5. reqNo * P = (reqNo - 1) * P + P /\ (reqNo - 1) * P \in Nat
  BY <1>1, TimesSucc
<1>6. reqNo * P <= NReqs * P
  BY <1>1, TimesLeq
<1> HIDE DEF A
<1>7. sent + 1 <= A + reqNo * P
  BY <1>1, <1>2, <1>4, <1>5
<1>8. sent + 1 <= tryNo * (NReqs * P)
  BY <1>1, <1>3, <1>4, <1>5, <1>6, <1>7
<1> QED
  BY <1>7, <1>8 DEF A, P

\* A call begins with its first try and has sent nothing.
LEMMA RetryInitial == RetryInit => RetryInv
<1> SUFFICES ASSUME RetryInit PROVE RetryInv
  OBVIOUS
<1>1. PerRequest \in Nat \ {0} /\ NReqs \in Nat \ {0} /\ config.tries \in Nat \ {0}
  BY RetryConstantsOK DEF RetryInit, PerRequest
<1>2. RetryTyped
  <2>1. hopeless \in BOOLEAN
    BY DEF RetryInit
  <2> QED
    BY <1>1, <2>1 DEF RetryInit, RetryTyped
<1>3. SentIsBounded
  <2>1. NReqs * PerRequest \in Nat
    BY <1>1, TimesSucc
  <2> QED
    BY <1>1, <2>1 DEF RetryInit, SentIsBounded
<1>4. SentIsEnough /\ StepsOfDelay
  BY DEF RetryInit, SentIsEnough, StepsOfDelay
<1>5. OneReasonPerTry
  BY DEF RetryInit, OneReasonPerTry
<1> QED
  BY <1>2, <1>3, <1>4, <1>5 DEF RetryInv

\* Every answer, delay and refresh keeps RetryInv.
LEMMA RetryStep == RetryInv /\ [RetryNext]_retryVars => RetryInv'
<1> SUFFICES ASSUME RetryInv, [RetryNext]_retryVars PROVE RetryInv'
  OBVIOUS
<1> DEFINE P == PerRequest
<1>0. /\ config' = config /\ P' = P
      /\ P \in Nat \ {0} /\ config.tries \in Nat \ {0} /\ NReqs \in Nat \ {0}
  <2>1. config' = config
    BY DEF RetryNext, retryVars, RequestSucceeds, BusyAgain, NotHandled, NextTry, CheckResponse, TestRetry,
           RequestRaises, ArgmodRaises
  <2> QED
    BY <2>1, PerRequestType, RetryConstantsOK DEF PerRequest
<1>1. CASE RequestSucceeds
  <2>1. RetryTyped'
    BY <1>0, <1>1 DEF RequestSucceeds, RetryInv, RetryTyped
  <2>2. SentIsBounded'
    <3>1. sent' <= tryNo' * (NReqs * P')
      BY <1>0, <1>1, OneMoreFits DEF RequestSucceeds
    <3>2. tryPc' = "send" => sent' <= (tryNo' - 1) * (NReqs * P') + (reqNo' - 1) * P' + busyNo'
      <4> SUFFICES ASSUME tryPc' = "send"
                   PROVE  sent + 1 <= (tryNo - 1) * (NReqs * P) + (reqNo' - 1) * P + 0
        BY <1>0, <1>1 DEF RequestSucceeds
      <4>1. reqNo' - 1 = reqNo
        BY <1>1 DEF RequestSucceeds, RetryInv, RetryTyped
      <4>2. sent + 1 <= (tryNo - 1) * (NReqs * P) + reqNo * P
        BY <1>1, OneMoreFits DEF RequestSucceeds
      <4>3. (tryNo - 1) * (NReqs * P) + reqNo * P \in Int
        BY <1>0, TimesSucc DEF RetryInv, RetryTyped
      <4> QED
        BY <4>1, <4>2, <4>3
    <3> QED
      BY <3>1, <3>2 DEF SentIsBounded
  <2>3. SentIsEnough' /\ OneReasonPerTry' /\ StepsOfDelay'
    BY <1>0, <1>1 DEF RequestSucceeds, RetryInv, RetryTyped, SentIsEnough, OneReasonPerTry, StepsOfDelay
  <2> QED
    BY <2>1, <2>2, <2>3 DEF RetryInv
<1>2. CASE BusyAgain
  <2>1. RetryTyped'
    <3>1. P = MaxBusy + 1 /\ busyNo < MaxBusy
      BY <1>2 DEF BusyAgain, IsBusy, MayTryBusy, PerRequest
    <3>2. UNCHANGED <<config, tryNo, reqNo, tryPc, reasons, hopeless>> /\ busyNo' = busyNo + 1 /\ sent' = sent + 1
      BY <1>2 DEF BusyAgain
    <3>3. busyNo' \in Nat /\ busyNo' < P'
      BY <1>0, <3>1, <3>2, RetryConstantsOK DEF RetryInv, RetryTyped
    <3> QED
      BY <3>2, <3>3 DEF RetryInv, RetryTyped
  <2>2. SentIsBounded'
    <3>1. sent' <= tryNo' * (NReqs * P')
      BY <1>0, <1>2, OneMoreFits DEF BusyAgain
    <3>2. (tryNo - 1) * (NReqs * P) + (reqNo - 1) * P \in Int
      BY <1>0, TimesSucc DEF RetryInv, RetryTyped
    <3>3. sent + 1 <= (tryNo - 1) * (NReqs * P) + (reqNo - 1) * P + (busyNo + 1)
      BY <1>2, <3>2 DEF BusyAgain, RetryInv, RetryTyped, SentIsBounded
    <3> QED
      BY <1>0, <1>2, <3>1, <3>3 DEF SentIsBounded, BusyAgain
  <2>3. SentIsEnough' /\ OneReasonPerTry' /\ StepsOfDelay'
    BY <1>0, <1>2 DEF BusyAgain, RetryInv, RetryTyped, SentIsEnough, OneReasonPerTry, StepsOfDelay
  <2> QED
    BY <2>1, <2>2, <2>3 DEF RetryInv
<1>3. ASSUME NEW k \in Answers, RequestRaises(k) PROVE RetryInv'
  <2>1. RetryTyped'
    <3>1. /\ sent' = sent + 1 /\ tryPc' = "except" /\ UNCHANGED <<config, tryNo, reqNo, busyNo>>
          /\ reasons' \in {reasons, reasons + 1}
      BY <1>3 DEF RequestRaises
    <3>2. hopeless' \in BOOLEAN
      BY <1>3 DEF RequestRaises
    <3> QED
      BY <1>0, <3>1, <3>2 DEF RetryInv, RetryTyped
  <2>2. SentIsBounded'
    BY <1>0, <1>3, OneMoreFits DEF RequestRaises, SentIsBounded
  <2>3. SentIsEnough' /\ StepsOfDelay'
    BY <1>0, <1>3 DEF RequestRaises, RetryInv, RetryTyped, SentIsEnough, StepsOfDelay
  <2>4. OneReasonPerTry'
    BY <1>0, <1>3 DEF RequestRaises, RetryInv, RetryTyped, OneReasonPerTry, Handled
  <2> QED
    BY <2>1, <2>2, <2>3, <2>4 DEF RetryInv
<1>4. ASSUME NEW again \in BOOLEAN, CheckResponse(again) PROVE RetryInv'
  BY <1>0, <1>4 DEF CheckResponse, RetryInv, RetryTyped, SentIsBounded, SentIsEnough, OneReasonPerTry, StepsOfDelay
<1>5. CASE NotHandled
  BY <1>0, <1>5 DEF NotHandled, RetryInv, RetryTyped, SentIsBounded, SentIsEnough, OneReasonPerTry, StepsOfDelay
<1>6. ASSUME NEW verdict \in BOOLEAN, TestRetry(verdict) PROVE RetryInv'
  BY <1>0, <1>6 DEF TestRetry, RetryInv, RetryTyped, SentIsBounded, SentIsEnough, OneReasonPerTry, StepsOfDelay
<1>7. CASE NextTry
  <2>1. RetryTyped'
    BY <1>0, <1>7 DEF NextTry, RetryInv, RetryTyped, OneReasonPerTry
  <2>2. SentIsBounded'
    <3>1. NReqs * P \in Nat
      BY <1>0, TimesSucc
    <3>2. (tryNo + 1) * (NReqs * P) = tryNo * (NReqs * P) + NReqs * P /\ tryNo * (NReqs * P) \in Nat
      BY <3>1, <1>0, TimesSucc DEF RetryInv, RetryTyped
    <3> DEFINE N == NReqs * P
               M == tryNo * N
    <3>3. sent <= M /\ sent \in Nat /\ tryNo \in Nat
      BY <1>0 DEF RetryInv, RetryTyped, SentIsBounded
    <3> HIDE DEF N
    <3>4. ((tryNo + 1) - 1) * N = M
      BY <3>3
    <3>5. (1 - 1) * P = 0
      BY <1>0
    <3> HIDE DEF M
    <3>6. sent <= ((tryNo + 1) - 1) * N + (1 - 1) * P + 0
      BY <3>2, <3>3, <3>4, <3>5 DEF M, N
    <3>7. sent <= (tryNo + 1) * N
      BY <3>1, <3>2, <3>3 DEF M, N
    <3> QED
      BY <1>0, <1>7, <3>6, <3>7 DEF NextTry, SentIsBounded, N
  <2>3. SentIsEnough' /\ OneReasonPerTry'
    BY <1>0, <1>7 DEF NextTry, RetryInv, RetryTyped, SentIsEnough, OneReasonPerTry
  <2>4. StepsOfDelay'
    BY <1>0, <1>7 DEF NextTry, RetryInv, RetryTyped, OneReasonPerTry, StepsOfDelay, Position, Steps
  <2> QED
    BY <2>1, <2>2, <2>3, <2>4 DEF RetryInv
<1>8. ASSUME NEW k \in Answers, ArgmodRaises(k) PROVE RetryInv'
  BY <1>0, <1>8 DEF ArgmodRaises, RetryInv, RetryTyped, SentIsBounded, SentIsEnough, OneReasonPerTry, StepsOfDelay
<1>9. CASE UNCHANGED retryVars
  BY <1>0, <1>9 DEF retryVars, RetryInv, RetryTyped, SentIsBounded, SentIsEnough, OneReasonPerTry, StepsOfDelay, Handled
<1> QED
  BY <1>1, <1>2, <1>3, <1>4, <1>5, <1>6, <1>7, <1>8, <1>9 DEF RetryNext

\* The decorator of utils/retry.py around an Adapter with vios_busy_retry_helper, for
\* every configuration, number of requests and max_retries: see RetriesAreMeasured.
THEOREM RetriesMeasured == RetrySpec => []RetriesAreMeasured
<1>1. RetryInv => RetriesAreMeasured
  <2> SUFFICES ASSUME RetryInv PROVE RetriesAreMeasured
    OBVIOUS
  <2>1. sent <= tryNo * NReqs * PerRequest
    BY PerRequestType, RetryConstantsOK, TimesAssoc DEF RetryInv, RetryTyped, SentIsBounded
  <2>2. tryNo <= config.tries /\ tryNo <= reasons + 1
    BY PerRequestType DEF RetryInv, RetryTyped, OneReasonPerTry
  <2>3. hopeless => tryPc \in {"except", "raised"}
    BY DEF RetryInv, RetryTyped, OneReasonPerTry
  <2>4. tryPc = "returned" => sent >= tryNo - 1 + NReqs /\ (reasons >= tryNo => tryNo = config.tries)
    BY PerRequestType DEF RetryInv, RetryTyped, SentIsEnough, OneReasonPerTry
  <2>5. config.tries = Steps /\ tryNo > 1 => delayPos = tryNo - 2
    BY DEF RetryInv, StepsOfDelay
  <2> QED
    BY <2>1, <2>2, <2>3, <2>4, <2>5 DEF RetriesAreMeasured, PerRequest
<1> QED
  BY <1>1, RetryInitial, RetryStep, PTL DEF RetrySpec

-----------------------------------------------------------------------------
(* Vterm.                                                                  *)

\* While the listener handles a client it knows the client, and while it adds the client
\* to a repeater it knows the repeater.
ListenerKnows ==
  /\ lpc \notin {"down", "idle"} => cur \in Clients
  /\ lpc \in {"add", "abort"} => chosen # 0

VtermInv == VtermTypeOK /\ ListenerKnows /\ OnlyMappedIsAlive

\* Before the console is opened, VtermInv holds.
LEMMA VtermInitial == VtermInit => VtermInv
<1> SUFFICES ASSUME VtermInit PROVE VtermInv
  OBVIOUS
<1>1. open \in BOOLEAN
  BY DEF VtermInit
<1>2. opens \in 0 .. MaxOpens /\ nRep \in 0 .. MaxRepeaters /\ nKill \in 0 .. MaxKillers
  BY VtermConstantsOK DEF VtermInit
<1>3. chosen \in 0 .. nRep /\ repeater \in 0 .. nRep
  BY DEF VtermInit
<1>4. peers \in [Repeaters -> SUBSET Clients] /\ killer \in [Repeaters -> 0 .. nKill]
  BY DEF VtermInit
<1>5. rpc \in [Repeaters -> {"new", "run", "emptied", "end"}] /\ kpc \in [Killers -> {"wait", "rmvterm", "stop", "end"}]
  BY DEF VtermInit
<1> QED
  BY <1>1, <1>2, <1>3, <1>4, <1>5 DEF VtermInit, VtermInv, VtermTypeOK, ListenerKnows, OnlyMappedIsAlive

\* Every step of the listener, of a repeater, of a killer and of close_vterm keeps
\* VtermInv.
LEMMA VtermStep == VtermInv /\ [VtermNext]_vtermVars => VtermInv'
<1> SUFFICES ASSUME VtermInv, [VtermNext]_vtermVars PROVE VtermInv'
  OBVIOUS
<1> USE VtermConstantsOK DEF VtermInv, VtermTypeOK, ListenerKnows, OnlyMappedIsAlive, Repeaters, Killers,
        lsnr, reps, kill, vtermVars
<1>1. CASE Open
  BY <1>1 DEF Open
<1>2. CASE Refuse
  BY <1>2 DEF Refuse, Drop, Finished
<1>3. CASE Connect
  BY <1>3 DEF Connect
<1>4. CASE NewRepeater
  BY <1>4 DEF NewRepeater
<1>5. CASE StartRepeater
  BY <1>5 DEF StartRepeater, Finished, Dies
<1>6. CASE FindRepeater
  BY <1>6 DEF FindRepeater
<1>7. CASE GetRepeater
  BY <1>7 DEF GetRepeater, Dies
<1>8. CASE AddPair
  BY <1>8 DEF AddPair
<1>9. CASE AbortKiller
  <2>1. CASE HasKiller(chosen)
    <3>1. chosen \in Repeaters /\ killer[chosen] \in 1 .. nKill
      BY <1>9, <2>1 DEF AbortKiller, HasKiller
    <3>2. aborted' = aborted \cup {killer[chosen]} /\ killer' = [killer EXCEPT ![chosen] = 0] /\ nKill' = nKill
      BY <1>9, <2>1 DEF AbortKiller
    <3>3. aborted' \subseteq 1 .. nKill'
      BY <3>1, <3>2
    <3>4. killer' \in [Repeaters -> 0 .. nKill']
      <4>1. 0 \in 0 .. nKill /\ killer \in [Repeaters -> 0 .. nKill]
        OBVIOUS
      <4> HIDE DEF Repeaters
      <4> QED
        BY <3>2, <4>1
    <3> QED
      BY <1>9, <3>3, <3>4 DEF AbortKiller, Finished
  <2>2. CASE ~HasKiller(chosen)
    BY <1>9, <2>2 DEF AbortKiller, Finished
  <2> QED
    BY <2>1, <2>2
<1>10. CASE UserRmvterm
  BY <1>10 DEF UserRmvterm
<1>11. CASE UserStops
  BY <1>11 DEF UserStops, StopRepeater, StillAlive, Unmapped
<1>12. ASSUME NEW c \in Clients, Accept(c) PROVE VtermInv'
  BY <1>12 DEF Accept
<1>13. ASSUME NEW r \in Repeaters, NEW c \in Clients, CloseClient(r, c) PROVE VtermInv'
  BY <1>13 DEF CloseClient
<1>14. ASSUME NEW r \in Repeaters, StartKiller(r) PROVE VtermInv'
  BY <1>14 DEF StartKiller
<1>15. ASSUME NEW r \in Repeaters, RunEnds(r) PROVE VtermInv'
  BY <1>15 DEF RunEnds
<1>16. ASSUME NEW k \in Killers, Wait(k) PROVE VtermInv'
  BY <1>16 DEF Wait
<1>17. ASSUME NEW k \in Killers, Rmvterm(k) PROVE VtermInv'
  BY <1>17 DEF Rmvterm
<1>18. ASSUME NEW k \in Killers, KillerStops(k) PROVE VtermInv'
  BY <1>18 DEF KillerStops, StopRepeater, StillAlive, Unmapped
<1>19. CASE UNCHANGED vtermVars
  BY <1>19
<1> QED
  BY <1>1, <1>2, <1>3, <1>4, <1>5, <1>6, <1>7, <1>8, <1>9, <1>10, <1>11, <1>12, <1>13, <1>14,
     <1>15, <1>16, <1>17, <1>18, <1>19 DEF VtermNext, Listener, Killer

\* The variables of Vterm keep their types, for every number of clients, repeaters and
\* killers; in particular a killer that is aborted has been started.
THEOREM VtermIsTyped == VtermSpec => []VtermTypeOK
<1>1. VtermInv => VtermTypeOK
  BY DEF VtermInv
<1> QED
  BY <1>1, VtermInitial, VtermStep, PTL DEF VtermSpec

\* tasks/vterm.py: however listener, repeaters and killers interleave, only the repeater
\* that the port map has is alive.
THEOREM OnlyMappedRepeats == VtermSpec => []OnlyMappedIsAlive
<1>1. VtermInv => OnlyMappedIsAlive
  BY DEF VtermInv
<1> QED
  BY <1>1, VtermInitial, VtermStep, PTL DEF VtermSpec

-----------------------------------------------------------------------------
(* PowerOff.                                                               *)

TriedRecords ==
  [op : Ops, immediate : BOOLEAN, restart : BOOLEAN, timeout : {"given", "default"},
   outcome : {"ok", "already_off", "timeout", "failure", "error"}]

\* What was tried so far did not work, and was not hard.
FailedSoftly == \A j \in 1 .. Len(tried) : IsSoft(tried[j]) /\ tried[j].outcome \in {"timeout", "failure"}

\* The last attempt leaves nothing but the plug.
NothingElseLeft ==
  /\ Len(tried) >= 1
  /\ \/ tried[Len(tried)].op = "VSP"
     \/ ~part.ibmi /\ tried[Len(tried)].outcome = "timeout"

\* At most so many attempts have been made.
MadeBefore ==
  [call |-> 0, single |-> 0, os_normal |-> 0, os_immediate |-> 1, vsp_normal |-> 2, vsp_hard |-> 3, end |-> 4]

PowerTyped ==
  /\ part \in [ibmi : BOOLEAN, rmc : BOOLEAN]
  /\ args \in Calls
  /\ opts \in Opts
  /\ timeout \in {"given", "default"}
  /\ ppc \in Attempts \cup {"call", "end"}
  /\ running \in BOOLEAN
  /\ tried \in Seq(TriedRecords)
  /\ late \in Nat /\ boots \in Nat
  /\ up \in BOOLEAN
  /\ outcome \in {"none", "ok", "already_off", "timeout", "failure", "no_rmc", "error"}

\* Each Job, finished or timed out, is that of an attempt, and the attempts are few.
FewJobs == late + boots <= Len(tried) /\ Len(tried) <= MadeBefore[ppc]

Progressive == Forced = "ON_FAILURE"

InOrder ==
  /\ ppc \in Attempts => (ppc = "single" <=> ~Progressive)
  /\ running => ppc \in Attempts
  /\ ppc = "end" <=> outcome # "none"
  /\ running /\ Progressive => opts.op # "DUMPRESTART"
  /\ running /\ ppc \in {"os_normal", "os_immediate"} => opts.op = "OS"
  /\ running /\ ppc = "vsp_normal" => opts.op = "VSP" /\ ~opts.immediate
  /\ Progressive /\ ppc # "end" => FailedSoftly
  /\ ppc = "vsp_hard" => NothingElseLeft

PowerInv == PowerTyped /\ FewJobs /\ InOrder /\ ProgressionIsSound

\* What PowerOffOpts makes of options are options.
LEMMA OptsType ==
  ASSUME PowerTyped
  PROVE  /\ args.opts \in Opts /\ args.restart \in BOOLEAN /\ part.ibmi \in BOOLEAN
         /\ GivenOpts \in Opts /\ vsp_hard(GivenOpts) \in Opts /\ [NoOpts EXCEPT !.restart = args.restart] \in Opts
         /\ \A a \in Attempts : OptsFor(a) \in Opts
<1>1. args.opts \in Opts /\ args.restart \in BOOLEAN /\ part.ibmi \in BOOLEAN
  BY ZenonT(60) DEF PowerTyped, Calls, NoOpts, Opts, Ops
<1>2. GivenOpts \in Opts
  BY <1>1 DEF GivenOpts, soft_detect, vsp_normal, Opts, Ops
<1>3. vsp_hard(GivenOpts) \in Opts /\ [NoOpts EXCEPT !.restart = args.restart] \in Opts
  BY <1>1, <1>2 DEF vsp_hard, Opts, Ops, NoOpts
<1>4. \A a \in Attempts : OptsFor(a) \in Opts
  BY DEF PowerTyped, OptsFor, Attempts, os_normal, os_immediate, vsp_normal, vsp_hard, Opts, Ops
<1> QED
  BY <1>1, <1>2, <1>3, <1>4

\* What an attempt adds to tried.
LEMMA TriedGrows ==
  ASSUME PowerTyped, NEW how \in {"ok", "already_off", "timeout", "failure", "error"}, Tried(how)
  PROVE  /\ tried' \in Seq(TriedRecords)
         /\ Len(tried') = Len(tried) + 1 /\ Len(tried) \in Nat
         /\ \A j \in 1 .. Len(tried) : tried'[j] = tried[j]
         /\ tried'[Len(tried')].op = opts.op
         /\ tried'[Len(tried')].immediate = opts.immediate
         /\ tried'[Len(tried')].outcome = how
<1> DEFINE t == [op |-> opts.op, immediate |-> opts.immediate, restart |-> opts.restart, timeout |-> timeout, outcome |-> how]
<1>1. t \in TriedRecords
  BY DEF PowerTyped, Opts, TriedRecords
<1>2. tried' = Append(tried, t)
  BY DEF Tried
<1>3. tried \in Seq(TriedRecords)
  BY DEF PowerTyped
<1>4. t.op = opts.op /\ t.immediate = opts.immediate /\ t.outcome = how
  OBVIOUS
<1> HIDE DEF t
<1> QED
  BY <1>1, <1>2, <1>3, <1>4

\* An attempt after failed soft ones keeps the order of aggression.
LEMMA OrderIsKept ==
  ASSUME PowerInv, NEW how \in {"ok", "already_off", "timeout", "failure", "error"}, Tried(how), running,
         UNCHANGED fixed
  PROVE  HardIsTheLastResort'
<1>0. part' = part /\ Forced' = Forced
  BY DEF fixed, Forced
<1> SUFFICES ASSUME NEW k \in 1 .. Len(tried'), IsHard(tried'[k]), Progressive
             PROVE  /\ k > 1
                    /\ \A j \in 1 .. k - 1 : IsSoft(tried'[j]) /\ tried'[j].outcome \in {"timeout", "failure"}
                    /\ \/ tried'[k - 1].op = "VSP"
                       \/ ~part.ibmi /\ tried'[k - 1].outcome = "timeout"
  BY <1>0 DEF HardIsTheLastResort, Progressive, IsHard, IsSoft
<1>1. /\ Len(tried') = Len(tried) + 1 /\ Len(tried) \in Nat
      /\ \A j \in 1 .. Len(tried) : tried'[j] = tried[j]
      /\ tried'[Len(tried')].op = opts.op /\ tried'[Len(tried')].immediate = opts.immediate
  BY TriedGrows DEF PowerInv
<1>2. FailedSoftly
  BY DEF PowerInv, InOrder, PowerTyped, Attempts
<1>3. k = Len(tried) + 1
  BY <1>1, <1>2 DEF FailedSoftly, IsSoft
<1>4. opts.op = "VSP" /\ opts.immediate
  BY <1>1, <1>3 DEF IsHard
<1>5. ppc = "vsp_hard"
  BY <1>4 DEF PowerInv, InOrder, Attempts
<1>6. NothingElseLeft
  BY <1>5 DEF PowerInv, InOrder
<1> QED
  BY <1>1, <1>2, <1>3, <1>6 DEF NothingElseLeft, FailedSoftly

\* Before the first attempt PowerInv holds.
LEMMA PowerInitial == PowerInit => PowerInv
<1> SUFFICES ASSUME PowerInit PROVE PowerInv
  OBVIOUS
<1>1. PowerTyped
  <2>1. running \in BOOLEAN
    BY DEF PowerInit
  <2>2. opts \in Opts /\ tried \in Seq(TriedRecords)
    BY DEF PowerInit, NoOpts, Opts, Ops
  <2> QED
    BY <2>1, <2>2 DEF PowerInit, PowerTyped
<1>2. FewJobs
  BY DEF PowerInit, FewJobs, MadeBefore
<1>3. InOrder
  BY DEF PowerInit, InOrder, Attempts, FailedSoftly
<1>4. ProgressionIsSound
  BY DEF PowerInit, ProgressionIsSound, HardIsTheLastResort, SuccessMeansDone
<1> QED
  BY <1>1, <1>2, <1>3, <1>4 DEF PowerInv

\* Every attempt, however it ends, and every late Job keeps PowerInv.
LEMMA PowerStep == PowerInv /\ [PowerNext]_powerVars => PowerInv'
<1> SUFFICES ASSUME PowerInv, [PowerNext]_powerVars PROVE PowerInv'
  OBVIOUS
<1>0. /\ part' = part /\ args' = args /\ Forced' = Forced /\ Progressive' = Progressive
      /\ Progressive \in BOOLEAN
  BY DEF PowerNext, Flow, PowerOffCall, Stop, Succeeds, AttemptTimesOut, Fails, Breaks, NoRMC, LateJob, PowerDone,
         powerVars, fixed, Forced, Progressive
<1>1. CASE PowerOffCall
  <2>1. PowerTyped'
    BY <1>0, <1>1, OptsType DEF PowerInv, PowerTyped, PowerOffCall, FirstAttempt, Attempts
  <2>2. FewJobs'
    BY <1>1 DEF PowerInv, PowerTyped, FewJobs, PowerOffCall, FirstAttempt, MadeBefore
  <2>3. InOrder'
    BY <1>0, <1>1 DEF PowerInv, PowerTyped, InOrder, PowerOffCall, FirstAttempt, Attempts, Progressive, FailedSoftly
  <2>4. ProgressionIsSound'
    BY <1>0, <1>1 DEF PowerInv, InOrder, ProgressionIsSound, HardIsTheLastResort, SuccessMeansDone, PowerOffCall
  <2> QED
    BY <2>1, <2>2, <2>3, <2>4 DEF PowerInv
<1>2. CASE Stop
  <2>1. PowerTyped'
    BY <1>0, <1>2, OptsType DEF PowerInv, PowerTyped, Stop
  <2>2. FewJobs'
    BY <1>2 DEF PowerInv, FewJobs, Stop
  <2>3. InOrder'
    BY <1>0, <1>2 DEF PowerInv, PowerTyped, InOrder, Stop, Attempts, FailedSoftly, NothingElseLeft,
       OptsFor, os_normal, os_immediate, vsp_normal, vsp_hard, Opts
  <2>4. ProgressionIsSound'
    BY <1>0, <1>2 DEF PowerInv, InOrder, ProgressionIsSound, HardIsTheLastResort, SuccessMeansDone, Stop, Attempts
  <2> QED
    BY <2>1, <2>2, <2>3, <2>4 DEF PowerInv
<1>3. CASE Succeeds
  <2>1. PowerTyped'
    <3>1. running' \in BOOLEAN /\ up' \in BOOLEAN
      BY <1>3 DEF Succeeds, TakesEffect, Restarts
    <3>2. tried' \in Seq(TriedRecords) /\ boots' \in Nat
      BY <1>3, TriedGrows DEF Succeeds, TakesEffect, PowerInv, PowerTyped
    <3> QED
      BY <1>0, <1>3, <3>1, <3>2 DEF PowerInv, PowerTyped, Succeeds, End
  <2>2. FewJobs'
    BY <1>3, TriedGrows DEF PowerInv, PowerTyped, InOrder, FewJobs, Succeeds, End, TakesEffect, MadeBefore, Attempts
  <2>3. InOrder'
    BY <1>0, <1>3 DEF PowerInv, InOrder, Succeeds, End, Attempts
  <2>4. ProgressionIsSound'
    <3>1. HardIsTheLastResort'
      BY <1>3, OrderIsKept DEF Succeeds
    <3>2. SuccessMeansDone'
      <4>1. outcome' = "ok" /\ opts' = opts /\ up' = Restarts /\ Restarts' = Restarts
        BY <1>3 DEF Succeeds, End, TakesEffect, Restarts
      <4>2. Restarts => boots' > 0
        BY <1>3 DEF Succeeds, TakesEffect, PowerInv, PowerTyped
      <4> QED
        BY <4>1, <4>2 DEF SuccessMeansDone
    <3> QED
      BY <3>1, <3>2 DEF ProgressionIsSound
  <2> QED
    BY <2>1, <2>2, <2>3, <2>4 DEF PowerInv
<1>4. ASSUME NEW how \in {"timeout", "failure"}, NEW a \in Attempts, running, running' = FALSE, late' \in {late, late + 1},
             Tried(how), ppc \in DOMAIN FailsTo, a \in {FailsTo[ppc], AfterTimeout(ppc)},
             how = "failure" => a = FailsTo[ppc], GoOn(a), UNCHANGED <<fixed, opts, up, boots>>
      PROVE  PowerInv'
  <2>0. ppc \in {"os_normal", "os_immediate", "vsp_normal"} /\ Progressive
    BY <1>4 DEF PowerInv, InOrder, FailsTo, Attempts
  <2>1. PowerTyped'
    <3>1. running' \in BOOLEAN
      BY <1>4
    <3>2. tried' \in Seq(TriedRecords) /\ late' \in Nat
      BY <1>4, TriedGrows DEF PowerInv, PowerTyped
    <3> QED
      BY <1>0, <1>4, <3>1, <3>2 DEF PowerInv, PowerTyped, GoOn, TimeoutAfter
  <2>2. FewJobs'
    BY <1>4, <2>0, TriedGrows DEF PowerInv, PowerTyped, InOrder, FewJobs, MadeBefore, GoOn, FailsTo, AfterTimeout
  <2>3. InOrder'
    <3>1. FailedSoftly'
      BY <1>4, <2>0, TriedGrows DEF PowerInv, InOrder, FailedSoftly, IsSoft, IsHard, Attempts
    <3>2. a = "vsp_hard" => NothingElseLeft'
      BY <1>0, <1>4, <2>0, TriedGrows DEF PowerInv, InOrder, NothingElseLeft, AfterTimeout, FailsTo
    <3>3. a # "single" /\ ppc' = a /\ outcome' = outcome /\ outcome = "none"
      BY <1>4, <2>0 DEF AfterTimeout, FailsTo, GoOn, PowerInv, InOrder, PowerTyped
    <3> QED
      BY <1>0, <1>4, <2>0, <3>1, <3>2, <3>3 DEF InOrder, Attempts
  <2>4. ProgressionIsSound'
    <3>1. HardIsTheLastResort'
      BY <1>4, OrderIsKept
    <3>2. SuccessMeansDone'
      BY <1>4, <2>0 DEF PowerInv, InOrder, PowerTyped, GoOn, SuccessMeansDone
    <3> QED
      BY <3>1, <3>2 DEF ProgressionIsSound
  <2> QED
    BY <2>1, <2>2, <2>3, <2>4 DEF PowerInv
<1>5. ASSUME NEW how \in {"already_off", "timeout", "failure", "error"}, running, running' = FALSE, late' \in {late, late + 1},
             how = "already_off" => late' = late /\ AlreadyOffIsFine,
             Tried(how), UNCHANGED <<fixed, opts, up, boots>>,
             End(IF how = "already_off" /\ ppc # "single" THEN "ok" ELSE how)
      PROVE  PowerInv'
  <2>0. ppc \in Attempts
    BY <1>5 DEF PowerInv, InOrder
  <2>1. PowerTyped'
    <3>1. running' \in BOOLEAN
      BY <1>5
    <3>2. tried' \in Seq(TriedRecords) /\ late' \in Nat
      BY <1>5, TriedGrows DEF PowerInv, PowerTyped
    <3> QED
      BY <1>0, <1>5, <3>1, <3>2 DEF PowerInv, PowerTyped, End
  <2>2. FewJobs'
    BY <1>5, <2>0, TriedGrows DEF PowerInv, PowerTyped, FewJobs, MadeBefore, End, Attempts
  <2>3. InOrder'
    BY <1>0, <1>5 DEF InOrder, End, Attempts
  <2>4. ProgressionIsSound'
    <3>1. HardIsTheLastResort'
      BY <1>5, OrderIsKept
    <3>2. ppc # "single" => opts.op # "DUMPRESTART"
      BY <1>5, <2>0 DEF PowerInv, InOrder
    <3>3. SuccessMeansDone'
      BY <1>5, <3>2 DEF End, SuccessMeansDone, AlreadyOffIsFine, Restarts
    <3> QED
      BY <3>1, <3>3 DEF ProgressionIsSound
  <2> QED
    BY <2>1, <2>2, <2>3, <2>4 DEF PowerInv
<1>6. CASE AttemptTimesOut
  <2>1. CASE ppc \in DOMAIN FailsTo
    <3>1. AfterTimeout(ppc) \in Attempts
      BY <2>1 DEF AfterTimeout, FailsTo, Attempts
    <3> QED
      BY <1>4, <1>6, <2>1, <3>1 DEF AttemptTimesOut
  <2>2. CASE ppc \notin DOMAIN FailsTo
    BY <1>5, <1>6, <2>2 DEF AttemptTimesOut
  <2> QED
    BY <2>1, <2>2
<1>7. CASE Fails
  <2>1. CASE AlreadyOffIsFine /\ Tried("already_off") /\ End(IF ppc = "single" THEN "already_off" ELSE "ok")
    BY <1>5, <1>7, <2>1 DEF Fails
  <2>2. CASE Tried("failure") /\ ppc \in DOMAIN FailsTo /\ GoOn(FailsTo[ppc])
    <3>1. FailsTo[ppc] \in Attempts
      BY <2>2 DEF FailsTo, Attempts
    <3> QED
      BY <1>4, <1>7, <2>2, <3>1 DEF Fails
  <2>3. CASE Tried("failure") /\ End("failure")
    BY <1>5, <1>7, <2>3 DEF Fails
  <2> QED
    BY <1>7, <2>1, <2>2, <2>3 DEF Fails
<1>8. CASE Breaks
  BY <1>5, <1>8 DEF Breaks
<1>9. CASE NoRMC
  <2>0. ppc \in {"os_normal", "os_immediate", "single"}
    BY <1>9 DEF NoRMC, Attempts, OptsFor, vsp_normal, vsp_hard, PowerInv, PowerTyped, Opts
  <2>1. PowerTyped'
    BY <1>0, <1>9 DEF NoRMC, PowerInv, PowerTyped, End, WithoutRMC, Attempts
  <2>2. FewJobs'
    BY <1>9, <2>0 DEF NoRMC, PowerInv, PowerTyped, FewJobs, MadeBefore, End, WithoutRMC
  <2>3. InOrder'
    BY <1>0, <1>9, <2>0 DEF NoRMC, PowerInv, InOrder, End, WithoutRMC, Attempts, FailedSoftly
  <2>4. ProgressionIsSound'
    BY <1>0, <1>9 DEF NoRMC, PowerInv, PowerTyped, ProgressionIsSound, HardIsTheLastResort, SuccessMeansDone, End, Restarts
  <2> QED
    BY <2>1, <2>2, <2>3, <2>4 DEF PowerInv
<1>10. CASE LateJob
  <2>1. PowerTyped'
    <3>1. up' \in BOOLEAN
      BY <1>10 DEF LateJob, PowerInv, PowerTyped, TakesEffect, Restarts
    <3>2. late' \in Nat /\ boots' \in Nat
      BY <1>10 DEF LateJob, PowerInv, PowerTyped, TakesEffect
    <3> QED
      BY <1>0, <1>10, <3>1, <3>2 DEF LateJob, PowerInv, PowerTyped
  <2>2. FewJobs'
    BY <1>10 DEF LateJob, PowerInv, PowerTyped, FewJobs, TakesEffect
  <2>3. InOrder'
    BY <1>0, <1>10 DEF LateJob, PowerInv, InOrder, FailedSoftly, NothingElseLeft
  <2>4. ProgressionIsSound'
    <3>1. HardIsTheLastResort'
      BY <1>0, <1>10 DEF LateJob, PowerInv, ProgressionIsSound, HardIsTheLastResort
    <3>2. SuccessMeansDone'
      BY <1>10 DEF LateJob, PowerInv, PowerTyped, ProgressionIsSound, SuccessMeansDone, TakesEffect, Restarts
    <3> QED
      BY <3>1, <3>2 DEF ProgressionIsSound
  <2> QED
    BY <2>1, <2>2, <2>3, <2>4 DEF PowerInv
<1>11. CASE UNCHANGED powerVars
  BY <1>0, <1>11 DEF powerVars, PowerInv, PowerTyped, FewJobs, InOrder, FailedSoftly, NothingElseLeft,
     ProgressionIsSound, HardIsTheLastResort, SuccessMeansDone, Restarts
<1> QED
  BY <1>1, <1>2, <1>3, <1>6, <1>7, <1>8, <1>9, <1>10, <1>11 DEF PowerNext, Flow, PowerDone

\* The variables of PowerOff keep their types; in particular a call makes at most four
\* attempts, and their Jobs restart the partition at most four times.
THEOREM PowerIsTyped == PowerSpec => []PowerTypeOK
<1>1. PowerInv => PowerTypeOK
  BY DEF PowerInv, PowerTyped, FewJobs, MadeBefore, Attempts, PowerTypeOK
<1> QED
  BY <1>1, PowerInitial, PowerStep, PTL DEF PowerSpec

\* tasks/power.py: the plug is pulled last, and a call that returns normally has done
\* what it was asked for, whatever timed-out Jobs do late.
THEOREM ProgressionSound == PowerSpec => []ProgressionIsSound
<1>1. PowerInv => ProgressionIsSound
  BY DEF PowerInv
<1> QED
  BY <1>1, PowerInitial, PowerStep, PTL DEF PowerSpec

-----------------------------------------------------------------------------
(* StorageUpload.                                                          *)

Groups == [disks : SUBSET Uploads, ver : Nat]

UploadTyped ==
  /\ kind \in [Uploads -> Kinds]
  /\ upc \in [Uploads -> {"vg", "post", "file", "sem", "pipe", "upload", "join", "delete", "delete_bad",
                          "open", "delete_intr", "clean", "rmlock", "rm", "rmfile", "end"}]
  /\ group \in Groups /\ copy \in [Uploads -> Groups]
  /\ groupLock \in Uploads \cup {NoUpload}
  /\ files \subseteq Uploads /\ filled \subseteq Uploads /\ excused \subseteq Uploads
  /\ sem \in Nat
  /\ attempt \in [Uploads -> Nat]
  /\ writer \in [Uploads -> {"none", "opening", "writing", "done", "failed", "blocked"}]
  /\ out \in [Uploads -> {"none", "ok", "marker", "raised"}]
  /\ callFaults \in Nat /\ touched \in Nat
  /\ unopened \subseteq Uploads /\ interrupted \subseteq Uploads /\ surplus \in Nat

\* A copy of the volume group with the group's etag has the group's disks.
CopyIsPast(u) == copy[u].ver <= group.ver /\ (Unmodified(u) => copy[u].disks = group.disks)

\* Where an upload has its disk and its File.
Tidy(u) ==
  /\ out[u] # "none" <=> upc[u] = "end"
  /\ upc[u] \in {"vg", "post", "clean", "rmlock", "rm", "rmfile"} => HasDisk(u)
  /\ HasDisk(u) /\ upc[u] \notin {"vg", "post", "rmfile", "end"} => u \in group.disks
  /\ ~HasDisk(u) \/ upc[u] = "rmfile" => u \notin group.disks
  /\ upc[u] = "delete" => u \in files \cap filled
  /\ out[u] = "ok" => u \in filled \ files
  /\ out[u] = "marker" => u \in filled \cap files
  /\ out[u] \in {"ok", "marker"} /\ HasDisk(u) => u \in group.disks
  /\ upc[u] = "delete_intr" => u \in interrupted
  /\ out[u] = "raised" /\ u \notin excused =>
       /\ u \in files => u \in unopened /\ ~HasDisk(u)
       /\ u \in group.disks => u \in interrupted

UploadInv ==
  /\ UploadTyped
  /\ \A u \in Uploads : CopyIsPast(u) /\ Tidy(u)
  /\ IsFiniteSet(Holders) /\ PermitsAddUp

\* Before an upload does anything, UploadInv holds.
LEMMA UploadInitial == UploadInit => UploadInv
<1> SUFFICES ASSUME UploadInit PROVE UploadInv
  OBVIOUS
<1>1. UploadTyped
  BY UploadTasksOK DEF UploadInit, UploadTyped, Groups
<1>2. \A u \in Uploads : CopyIsPast(u) /\ Tidy(u)
  BY DEF UploadInit, CopyIsPast, Tidy, Unmodified, HasDisk
<1>3. Holders = {}
  BY DEF UploadInit, Holders
<1>4. IsFiniteSet(Holders) /\ Cardinality(Holders) = 0
  BY <1>3, FS_EmptySet
<1>5. PermitsAddUp
  BY <1>4, UploadTasksOK DEF UploadInit, PermitsAddUp
<1> QED
  BY <1>1, <1>2, <1>4, <1>5 DEF UploadInv

\* The permits in hand, when one upload takes or gives back its own.
LEMMA PermitTaken ==
  ASSUME UploadInv, NEW u \in Uploads, u \notin Holders, Holders' = Holders \cup {u}, sem' = sem - 1, sem > 0, surplus' = surplus
  PROVE  IsFiniteSet(Holders') /\ PermitsAddUp'
<1>1. IsFiniteSet(Holders) /\ Cardinality(Holders) \in Nat
  BY FS_CardinalityType DEF UploadInv
<1>2. IsFiniteSet(Holders') /\ Cardinality(Holders') = Cardinality(Holders) + 1
  BY <1>1, FS_AddElement
<1> QED
  BY <1>1, <1>2, UploadTasksOK DEF UploadInv, UploadTyped, PermitsAddUp

\* A permit is given back.
LEMMA PermitGiven ==
  ASSUME UploadInv, NEW u \in Holders, Holders' = Holders \ {u}, sem' = sem + 1, surplus' = surplus
  PROVE  IsFiniteSet(Holders') /\ PermitsAddUp'
<1>1. IsFiniteSet(Holders) /\ Cardinality(Holders) \in Nat
  BY FS_CardinalityType DEF UploadInv
<1>2. IsFiniteSet(Holders') /\ Cardinality(Holders') = Cardinality(Holders) - 1
  BY <1>1, FS_RemoveElement
<1> QED
  BY <1>1, <1>2, UploadTasksOK DEF UploadInv, UploadTyped, PermitsAddUp

\* Nobody gets or gives back a permit; an interrupted wait makes one too many.
LEMMA PermitKept ==
  ASSUME UploadInv, Holders' = Holders,
         \/ sem' = sem /\ surplus' = surplus
         \/ sem' = sem + 1 /\ surplus' = surplus + 1
  PROVE  IsFiniteSet(Holders') /\ PermitsAddUp'
<1>1. IsFiniteSet(Holders) /\ Cardinality(Holders) \in Nat
  BY FS_CardinalityType DEF UploadInv
<1> QED
  BY <1>1, UploadTasksOK DEF UploadInv, UploadTyped, PermitsAddUp

\* An upload moves between places of which both or none hold a permit.
LEMMA HoldersStay ==
  ASSUME UploadTyped, NEW u \in Uploads, NEW where, To(u, where),
         (upc[u] \in {"pipe", "upload", "join"}) <=> (where \in {"pipe", "upload", "join"})
  PROVE  Holders' = Holders
BY DEF UploadTyped, To, Holders

\* Every step keeps the types.
LEMMA UploadStepTyped ==
  ASSUME UploadInv, [UploadNext]_upVars
  PROVE  UploadTyped'
<1> USE UploadTasksOK DEF UploadInv, UploadTyped, To, Closes, CallFault, observed
<1>1. ASSUME NEW u \in Uploads, GetGroup(u) \/ OpenStream(u) \/ RmLock(u) PROVE UploadTyped'
  BY <1>1 DEF GetGroup, OpenStream, RmLock
<1>2. ASSUME NEW u \in Uploads, CrtVdisk(u) PROVE UploadTyped'
  <2>1. WithDisk(u) \in Groups
    BY DEF WithDisk, Groups
  <2>2. group' \in Groups
    BY <1>2, <2>1 DEF CrtVdisk
  <2> QED
    BY <1>2, <2>2 DEF CrtVdisk
<1>3. ASSUME NEW u \in Uploads, CreateFile(u) \/ OpenFails(u) \/ DeleteFile(u) \/ DeleteInterrupted(u) \/ CleanFile(u) PROVE UploadTyped'
  BY <1>3 DEF CreateFile, OpenFails, DeleteFile, DeleteInterrupted, CleanFile
<1>4. ASSUME NEW u \in Uploads, AcquirePermit(u) PROVE UploadTyped'
  BY <1>4 DEF AcquirePermit
<1>5. ASSUME NEW u \in Uploads, Interrupted(u) \/ StreamFails(u) \/ Join(u) \/ Uploaded(u) PROVE UploadTyped'
  BY <1>5 DEF Interrupted, StreamFails, Join, Uploaded, Released
<1>6. ASSUME NEW u \in Uploads, OpenPipe(u) PROVE UploadTyped'
  BY <1>6 DEF OpenPipe
<1>7. ASSUME NEW u \in Uploads, WriterEnds(u) PROVE UploadTyped'
  BY <1>7 DEF WriterEnds
<1>8. ASSUME NEW u \in Uploads, FuncFails(u) PROVE UploadTyped'
  BY <1>8 DEF FuncFails
<1>9. ASSUME NEW u \in Uploads, DeleteAfterError(u) PROVE UploadTyped'
  BY <1>9 DEF DeleteAfterError
<1>10. ASSUME NEW u \in Uploads, CleanGet(u) PROVE UploadTyped'
  BY <1>10 DEF CleanGet
<1>11. ASSUME NEW u \in Uploads, RmVgStorage(u) PROVE UploadTyped'
  <2>1. group' \in Groups /\ copy' \in [Uploads -> Groups]
    BY <1>11 DEF RmVgStorage, Groups
  <2> QED
    BY <1>11, <2>1 DEF RmVgStorage
<1>12. CASE TouchGroup
  BY <1>12 DEF TouchGroup, Groups
<1>13. CASE UNCHANGED upVars
  BY <1>13 DEF upVars
<1> QED
  BY <1>1, <1>2, <1>3, <1>4, <1>5, <1>6, <1>7, <1>8, <1>9, <1>10, <1>11, <1>12, <1>13 DEF UploadNext, UploadStep

\* A write of the volume group makes every copy stale, and a read makes one fresh.
LEMMA UploadStepCopies ==
  ASSUME UploadInv, [UploadNext]_upVars
  PROVE  \A v \in Uploads : CopyIsPast(v)'
<1> SUFFICES ASSUME NEW v \in Uploads PROVE CopyIsPast(v)'
  OBVIOUS
<1> USE DEF UploadInv, UploadTyped, CopyIsPast, Unmodified, Groups
<1>1. ASSUME NEW u \in Uploads, GetGroup(u) \/ CleanGet(u) PROVE CopyIsPast(v)'
  BY <1>1 DEF GetGroup, CleanGet
<1>2. ASSUME NEW u \in Uploads, CrtVdisk(u) \/ RmVgStorage(u) PROVE CopyIsPast(v)'
  BY <1>2 DEF CrtVdisk, WithDisk, RmVgStorage
<1>3. CASE TouchGroup
  BY <1>3 DEF TouchGroup
<1>4. CASE UNCHANGED <<copy, group>>
  BY <1>4
<1> QED
  BY <1>1, <1>2, <1>3, <1>4
     DEF UploadNext, UploadStep, upVars, CreateFile, OpenStream, OpenFails, AcquirePermit, Interrupted, Uploaded, StreamFails, OpenPipe, WriterEnds,
         FuncFails, Join, DeleteFile, DeleteInterrupted, DeleteAfterError, RmLock, CleanFile

\* Every step keeps each upload's File and disk where its position says.
LEMMA UploadStepTidy ==
  ASSUME UploadInv, [UploadNext]_upVars
  PROVE  \A v \in Uploads : Tidy(v)'
<1> SUFFICES ASSUME NEW v \in Uploads PROVE Tidy(v)'
  OBVIOUS
<1> USE DEF UploadInv, UploadTyped, Tidy, HasDisk, To, Closes, observed
<1>1. ASSUME NEW u \in Uploads, GetGroup(u) \/ OpenStream(u) \/ RmLock(u) PROVE Tidy(v)'
  BY <1>1 DEF GetGroup, OpenStream, RmLock
<1>2. ASSUME NEW u \in Uploads, CrtVdisk(u) PROVE Tidy(v)'
  BY <1>2 DEF CrtVdisk, WithDisk, CopyIsPast, Groups
<1>3. ASSUME NEW u \in Uploads, CreateFile(u) \/ OpenFails(u) \/ DeleteFile(u) \/ DeleteInterrupted(u) \/ CleanFile(u) PROVE Tidy(v)'
  BY <1>3 DEF CreateFile, OpenFails, DeleteFile, DeleteInterrupted, CleanFile
<1>4. ASSUME NEW u \in Uploads, AcquirePermit(u) PROVE Tidy(v)'
  BY <1>4 DEF AcquirePermit
<1>5. ASSUME NEW u \in Uploads, Interrupted(u) \/ StreamFails(u) \/ Join(u) \/ Uploaded(u) PROVE Tidy(v)'
  BY <1>5 DEF Interrupted, StreamFails, Join, Uploaded
<1>6. ASSUME NEW u \in Uploads, OpenPipe(u) PROVE Tidy(v)'
  BY <1>6 DEF OpenPipe
<1>7. ASSUME NEW u \in Uploads, WriterEnds(u) PROVE Tidy(v)'
  BY <1>7 DEF WriterEnds
<1>8. ASSUME NEW u \in Uploads, FuncFails(u) PROVE Tidy(v)'
  BY <1>8 DEF FuncFails
<1>9. ASSUME NEW u \in Uploads, DeleteAfterError(u) PROVE Tidy(v)'
  BY <1>9 DEF DeleteAfterError
<1>10. ASSUME NEW u \in Uploads, CleanGet(u) PROVE Tidy(v)'
  BY <1>10 DEF CleanGet
<1>11. ASSUME NEW u \in Uploads, RmVgStorage(u) PROVE Tidy(v)'
  BY <1>11 DEF RmVgStorage, CopyIsPast, Groups
<1>12. CASE TouchGroup
  BY <1>12 DEF TouchGroup, Groups
<1>13. CASE UNCHANGED upVars
  BY <1>13 DEF upVars
<1> QED
  BY <1>1, <1>2, <1>3, <1>4, <1>5, <1>6, <1>7, <1>8, <1>9, <1>10, <1>11, <1>12, <1>13 DEF UploadNext, UploadStep

\* No step loses a permit or, but for an interrupted wait, makes one.
LEMMA UploadStepPermits ==
  ASSUME UploadInv, [UploadNext]_upVars
  PROVE  IsFiniteSet(Holders') /\ PermitsAddUp'
<1> UploadTyped
  BY DEF UploadInv
<1> DEFINE Same == sem' = sem /\ surplus' = surplus
<1>1. ASSUME NEW u \in Uploads, AcquirePermit(u)
      PROVE  u \notin Holders /\ Holders' = Holders \cup {u} /\ sem' = sem - 1 /\ sem > 0 /\ surplus' = surplus
  BY <1>1 DEF AcquirePermit, UploadTyped, Holders, To, observed
<1>2. ASSUME NEW u \in Uploads, Uploaded(u) \/ StreamFails(u) \/ Join(u) \/ (Interrupted(u) /\ upc[u] # "sem")
      PROVE  u \in Holders /\ Holders' = Holders \ {u} /\ sem' = sem + 1 /\ surplus' = surplus
  BY <1>2 DEF Uploaded, StreamFails, Join, Interrupted, Released, UploadTyped, Holders, To, observed
<1>3. ASSUME NEW u \in Uploads, Interrupted(u), upc[u] = "sem"
      PROVE  Holders' = Holders /\ sem' = sem + 1 /\ surplus' = surplus + 1
  BY <1>3, HoldersStay DEF Interrupted
<1>4. ASSUME NEW u \in Uploads,
             \/ GetGroup(u) \/ CrtVdisk(u) \/ CreateFile(u) \/ OpenStream(u) \/ OpenFails(u) \/ OpenPipe(u) \/ WriterEnds(u)
             \/ FuncFails(u) \/ DeleteFile(u) \/ DeleteInterrupted(u) \/ DeleteAfterError(u) \/ CleanGet(u) \/ RmLock(u)
             \/ RmVgStorage(u) \/ CleanFile(u)
      PROVE  Holders' = Holders /\ Same
  <2>1. Same
    BY <1>4 DEF GetGroup, CrtVdisk, CreateFile, OpenStream, OpenFails, OpenPipe, WriterEnds, FuncFails, DeleteFile,
                DeleteInterrupted, DeleteAfterError, CleanGet, RmLock, RmVgStorage, CleanFile, observed
  <2>2. upc' = upc => Holders' = Holders
    BY DEF Holders
  <2>3. upc' = upc \/ \E where : To(u, where) /\ ((upc[u] \in {"pipe", "upload", "join"}) <=> (where \in {"pipe", "upload", "join"}))
    BY <1>4 DEF GetGroup, CrtVdisk, CreateFile, OpenStream, OpenFails, OpenPipe, WriterEnds, FuncFails, DeleteFile,
                DeleteInterrupted, DeleteAfterError, CleanGet, RmLock, RmVgStorage, CleanFile, Closes
  <2> QED
    BY <2>1, <2>2, <2>3, HoldersStay
<1>5. CASE TouchGroup \/ UNCHANGED upVars
  <2>1. Holders' = Holders /\ Same
    BY <1>5 DEF TouchGroup, upVars, Holders, observed
  <2> QED
    BY <2>1, PermitKept
<1>6. ASSUME NEW u \in Uploads, UploadStep(u) PROVE IsFiniteSet(Holders') /\ PermitsAddUp'
  BY <1>1, <1>2, <1>3, <1>4, <1>6, PermitTaken, PermitGiven, PermitKept DEF UploadStep
<1> QED
  BY <1>5, <1>6 DEF UploadNext

\* Together: UploadInv is inductive.
LEMMA UploadInvStep == UploadInv /\ [UploadNext]_upVars => UploadInv'
BY UploadStepTyped, UploadStepCopies, UploadStepTidy, UploadStepPermits DEF UploadInv

\* tasks/storage.py: for every number of uploads, permits and faults, the permits add up,
\* and an upload that has returned or raised leaves neither a File nor a disk behind,
\* but for a stream that could not be opened and a thread that was interrupted.
THEOREM UploadsGiveBack == UploadSpec => []GivesBack
<1>1. UploadInv => GivesBack
  BY DEF UploadInv, GivesBack, NothingDangles, Tidy
<1> QED
  BY <1>1, UploadInitial, UploadInvStep, PTL DEF UploadSpec

-----------------------------------------------------------------------------
(* ImageUpload.                                                            *)

\* Between creating the marker and deleting it, the marker is there; outside,
\* it is not, unless its delete failed or its creation was not answered.
MarkerOK ==
  \A h \in Hosts :
    /\ pc[h] \in {"conflict", "abdicate", "create", "upload", "remove", "unmark_ok", "unmark_err"}
         => h \in markers
    /\ pc[h] \in {"find", "sleep", "mark", "returned", "raised"} /\ h \in markers
         => h \in stuck \cup lost

\* An image LU that is not complete is being worked on under its marker, or
\* its removal has failed, or nobody was told that it is there.
ImageOK ==
  \A h \in Hosts :
    /\ h \in images => pc[h] \in {"upload", "remove", "unmark_ok", "unmark_err",
                                  "returned", "raised", "dead"}
    /\ h \in complete => pc[h] \in {"unmark_ok", "returned", "raised", "dead"}
    /\ pc[h] = "upload" => h \in images
    /\ pc[h] = "unmark_ok" => h \in complete
    /\ h \in images \ complete =>
         h \in stuck \cup lost \/ (pc[h] \in {"upload", "remove", "dead"} /\ h \in markers)
    /\ h \in stuck \cup lost => pc[h] \in {"unmark_err", "raised", "dead"}

ImageInv == TypeOK /\ MarkerOK /\ ImageOK /\ ReturnedIsComplete

\* Before the first call ImageInv holds.
LEMMA ImageInitial == Init => ImageInv
BY UploadConstantsOK DEF Init, ImageInv, TypeOK, MarkerOK, ImageOK, ReturnedIsComplete, Hosts

\* If _find_lus finds one LU, and it is an image LU, there is no marker.
LEMMA AloneIsUnmarked ==
  ASSUME TypeOK, OnlyTheImage
  PROVE  markers = {}
<1>1. IsFiniteSet(Hosts)
  BY FS_Interval, UploadConstantsOK DEF Hosts
<1>2. IsFiniteSet(markers) /\ IsFiniteSet(images)
  BY <1>1, FS_Subset DEF TypeOK
<1>3. /\ Cardinality(markers) \in Nat /\ Cardinality(images) \in Nat
      /\ Cardinality(markers) = 0 <=> markers = {}
      /\ Cardinality(images) = 0 <=> images = {}
  BY <1>2, FS_CardinalityType, FS_EmptySet
<1> QED
  BY <1>3 DEF OnlyTheImage, Found

\* Every step of every host, a crash included, keeps ImageInv.
LEMMA ImageStep == ImageInv /\ [Next]_vars => ImageInv'
<1> SUFFICES ASSUME ImageInv, [Next]_vars PROVE ImageInv'
  OBVIOUS
<1>0. \A h \in Hosts : h # 0
  BY UploadConstantsOK DEF Hosts
<1> USE <1>0 DEF ImageInv, TypeOK, MarkerOK, ImageOK, ReturnedIsComplete, Goto
<1>1. ASSUME NEW h \in Hosts, FindLus(h) PROVE ImageInv'
  <2>1. CASE OnlyTheImage
    <3>1. markers = {}
      BY <2>1, AloneIsUnmarked
    <3>2. PICK i \in images : /\ got' = [got EXCEPT ![h] = i]
                              /\ pc' = [pc EXCEPT ![h] = "returned"]
      BY <1>1, <2>1 DEF FindLus
    <3>3. i \in complete \cup stuck \cup lost
      BY <3>1
    <3> QED
      BY <1>1, <3>1, <3>2, <3>3 DEF FindLus
  <2>2. CASE ~OnlyTheImage
    BY <1>1, <2>2 DEF FindLus
  <2> QED
    BY <2>1, <2>2
<1>2. ASSUME NEW h \in Hosts, Sleep(h) \/ ReadFails(h) PROVE ImageInv'
  BY <1>2 DEF Sleep, ReadFails
<1>3. ASSUME NEW h \in Hosts, CreateMarker(h) \/ MarkerFails(h) PROVE ImageInv'
  BY <1>3 DEF CreateMarker, MarkerFails
<1>4. ASSUME NEW h \in Hosts, UploadConflict(h) PROVE ImageInv'
  BY <1>4 DEF UploadConflict
<1>5. ASSUME NEW h \in Hosts, Unmark(h) PROVE ImageInv'
  BY <1>5 DEF Unmark, Unmarked
<1>6. ASSUME NEW h \in Hosts, UnmarkFails(h) PROVE ImageInv'
  BY <1>6 DEF UnmarkFails, Unmarked
<1>7. ASSUME NEW h \in Hosts, CreateImage(h) \/ ImageFails(h) PROVE ImageInv'
  BY <1>7 DEF CreateImage, ImageFails
<1>8. ASSUME NEW h \in Hosts, Upload(h) PROVE ImageInv'
  BY <1>8 DEF Upload
<1>9. ASSUME NEW h \in Hosts, UploadFails(h) PROVE ImageInv'
  BY <1>9 DEF UploadFails, AfterFailure
<1>10. ASSUME NEW h \in Hosts, RemoveImage(h) PROVE ImageInv'
  BY <1>10 DEF RemoveImage, ImagesWithout
<1>11. ASSUME NEW h \in Hosts, Crash(h) PROVE ImageInv'
  BY <1>11, UploadConstantsOK DEF Crash, Ended
<1>12. CASE UNCHANGED vars
  BY <1>12 DEF vars
<1> QED
  BY <1>1, <1>2, <1>3, <1>4, <1>5, <1>6, <1>7, <1>8, <1>9, <1>10, <1>11, <1>12
  DEF Next, Step, Done

\* ImageInv is an invariant.
LEMMA ImageInvariant == Spec => []ImageInv
BY ImageInitial, ImageStep, PTL DEF Spec

\* For any number of hosts: whatever get_or_upload_image_lu returns is there
\* and has been uploaded in full, or is an LU whose uploader could not delete it
\* or was not told that it had created it.
THEOREM UploadIsReturned == Spec => []ReturnedIsComplete
<1>1. ImageInv => ReturnedIsComplete
  BY DEF ImageInv
<1> QED
  BY <1>1, ImageInvariant, PTL

\* For any number of hosts: a call that ends, whose creations are answered and
\* whose deletes work, leaves neither a marker nor a partial image in the SSP.
THEOREM CallsCleanUp == Spec => []NothingLeftBehind
<1>1. ImageInv => NothingLeftBehind
  BY DEF ImageInv, MarkerOK, ImageOK, NothingLeftBehind, TypeOK
<1> QED
  BY <1>1, ImageInvariant, PTL

\* For any number of hosts: no step, not the clean-up of a failed upload either,
\* removes an image LU that has been uploaded.
THEOREM ImagesStay == Spec => UploadedStays
<1>1. ImageInv /\ [Next]_vars => [complete \subseteq complete' \cap images']_vars
  <2> SUFFICES ASSUME ImageInv, [Next]_vars PROVE complete \subseteq complete' \cap images'
    OBVIOUS
  <2>1. complete' \subseteq images'
    BY ImageStep DEF ImageInv, TypeOK
  <2>2. complete \subseteq complete'
    BY DEF Next, Step, Done, FindLus, ReadFails, Sleep, CreateMarker, MarkerFails, UploadConflict, Unmark, UnmarkFails,
           CreateImage, ImageFails, Upload, UploadFails, RemoveImage, Crash, vars
  <2> QED
    BY <2>1, <2>2
<1> QED
  BY <1>1, ImageInvariant, PTL DEF Spec, UploadedStays

-----------------------------------------------------------------------------
(* Sums.                                                                   *)

\* A nonempty set of natural numbers has a least element.
LEMMA LeastNat == ASSUME NEW T \in SUBSET Nat, T # {} PROVE \E x \in T : \A y \in T : x <= y
<1>1. PICK x \in T : \A y \in T : ~(<<y, x>> \in OpToRel(<, Nat))
  BY NatLessThanWellFounded, WFMin
<1>2. \A y \in T : ~(y < x)
  BY <1>1 DEF OpToRel
<1> QED
  BY <1>2

\* The element of a set that a sum over it adds first.
Chosen(T) == CHOOSE x \in T : TRUE
\* A nonempty set has an element that a sum adds first.
LEMMA ChosenIn == ASSUME NEW T, T # {} PROVE Chosen(T) \in T
  BY DEF Chosen

\* Induction over the subsets of a finite set, for a set of subsets: it holds the whole
\* set if it holds the empty one and a subset whenever it holds that subset without the
\* element that a sum adds first.
LEMMA SubsetInduction ==
  ASSUME NEW S, IsFiniteSet(S), NEW Good, {} \in Good,
         \A T \in SUBSET S : T # {} /\ T \ {Chosen(T)} \in Good => T \in Good
  PROVE  \A T \in SUBSET S : T \in Good
<1> DEFINE Bad == {T \in SUBSET S : T \notin Good}
<1> DEFINE Sizes == {n \in Nat : \E T \in Bad : Cardinality(T) = n}
<1> SUFFICES ASSUME NEW T0 \in Bad PROVE FALSE
  OBVIOUS
<1>1. \A T \in Bad : IsFiniteSet(T) /\ Cardinality(T) \in Nat
  BY FS_Subset, FS_CardinalityType
<1>2. Sizes # {}
  BY <1>1
<1>3. PICK n \in Sizes : \A m \in Sizes : n <= m
  BY <1>2, LeastNat
<1>4. PICK T \in Bad : Cardinality(T) = n
  BY <1>3
<1>5. T # {} /\ Chosen(T) \in T
  <2>1. T # {}
    BY <1>4
  <2> QED
    BY <2>1, ChosenIn
<1>6. IsFiniteSet(T \ {Chosen(T)}) /\ Cardinality(T \ {Chosen(T)}) = n - 1 /\ n - 1 \in Nat
  <2>1. IsFiniteSet(T) /\ n \in Nat
    BY <1>1, <1>4
  <2>2. IsFiniteSet(T \ {Chosen(T)}) /\ Cardinality(T \ {Chosen(T)}) = n - 1
    BY <2>1, <1>4, <1>5, FS_RemoveElement
  <2> QED
    BY <2>1, <2>2, FS_CardinalityType
<1>7. n - 1 \notin Sizes
  BY <1>3, <1>6
<1>8. T \ {Chosen(T)} \in Good
  BY <1>6, <1>7
<1> QED
  BY <1>4, <1>5, <1>8

\* A function on the subsets of a finite set that satisfies the equation of a sum.
SumOf(w, S, f) ==
  f = [T \in SUBSET S |-> IF T = {} THEN 0 ELSE w[Chosen(T)] + f[T \ {Chosen(T)}]]
SumUpTo(w, S, n, f) ==
  f = [T \in {U \in SUBSET S : Cardinality(U) <= n} |-> IF T = {} THEN 0 ELSE w[Chosen(T)] + f[T \ {Chosen(T)}]]

\* A function that satisfies the equation exists, for every finite set.
LEMMA SumDefined ==
  ASSUME NEW S, IsFiniteSet(S), NEW w PROVE \E f : SumOf(w, S, f)
<1> DEFINE Sub(n) == {U \in SUBSET S : Cardinality(U) <= n}
<1> DEFINE Bad == {n \in Nat : ~\E f : SumUpTo(w, S, n, f)}
<1>0. \A T \in SUBSET S : IsFiniteSet(T) /\ Cardinality(T) \in Nat /\ Cardinality(T) <= Cardinality(S)
  BY FS_Subset, FS_CardinalityType
<1>1. \E f : SumUpTo(w, S, 0, f)
  <2> DEFINE f == [T \in Sub(0) |-> 0]
  <2>1. \A T \in Sub(0) : T = {}
    BY <1>0, FS_EmptySet
  <2>2. f = [T \in Sub(0) |-> IF T = {} THEN 0 ELSE w[Chosen(T)] + f[T \ {Chosen(T)}]]
    BY <2>1
  <2> QED
    BY <2>2 DEF SumUpTo
<1>2. ASSUME NEW n \in Nat, NEW g, SumUpTo(w, S, n, g) PROVE \E f : SumUpTo(w, S, n + 1, f)
  <2> DEFINE F(h) == [T \in Sub(n + 1) |-> IF T = {} THEN 0 ELSE w[Chosen(T)] + h[T \ {Chosen(T)}]]
  <2> DEFINE f == F(g)
  <2>1. \A T \in Sub(n + 1) : T # {} => T \ {Chosen(T)} \in Sub(n)
    <3> SUFFICES ASSUME NEW T \in Sub(n + 1), T # {} PROVE T \ {Chosen(T)} \in Sub(n)
      OBVIOUS
    <3>1. Chosen(T) \in T /\ IsFiniteSet(T) /\ Cardinality(T) \in Nat
      BY <1>0 DEF Chosen
    <3>2. Cardinality(T \ {Chosen(T)}) = Cardinality(T) - 1
      BY <3>1, FS_RemoveElement
    <3> QED
      BY <3>1, <3>2
  <2>2. Sub(n) \subseteq Sub(n + 1)
    BY <1>0
  <2>3. \A T \in Sub(n) : g[T] = IF T = {} THEN 0 ELSE w[Chosen(T)] + g[T \ {Chosen(T)}]
    BY <1>2 DEF SumUpTo
  <2>4. \A T \in Sub(n) : f[T] = g[T]
    BY <2>2, <2>3
  <2>5. \A T \in Sub(n + 1) : T # {} => f[T \ {Chosen(T)}] = g[T \ {Chosen(T)}]
    BY <2>1, <2>4
  <2>6. F(f) = f
    <3>1. \A T \in Sub(n + 1) : F(f)[T] = IF T = {} THEN 0 ELSE w[Chosen(T)] + f[T \ {Chosen(T)}]
      BY Zenon
    <3>2. \A T \in Sub(n + 1) : f[T] = IF T = {} THEN 0 ELSE w[Chosen(T)] + g[T \ {Chosen(T)}]
      BY Zenon
    <3>3. \A T \in Sub(n + 1) : F(f)[T] = f[T]
      BY <2>5, <3>1, <3>2, Zenon
    <3>4. F(f) \in [Sub(n + 1) -> Range(F(f))] /\ F(g) \in [Sub(n + 1) -> Range(F(g))] 
      BY Zenon DEF Range
    <3> HIDE DEF F, Sub
    <3> QED
      BY <3>3, <3>4
  <2> QED
    BY <2>6 DEF SumUpTo
<1>3. Bad = {}
  <2> SUFFICES ASSUME Bad # {} PROVE FALSE
    OBVIOUS
  <2>1. PICK n \in Bad : \A m \in Bad : n <= m
    BY LeastNat
  <2>2. n # 0
    BY <1>1
  <2>3. n - 1 \in Nat /\ n - 1 \notin Bad
    BY <2>1, <2>2
  <2>4. PICK g : SumUpTo(w, S, n - 1, g)
    BY <2>3
  <2>5. \E f : SumUpTo(w, S, (n - 1) + 1, f)
    BY <2>3, <2>4, <1>2
  <2>6. (n - 1) + 1 = n
    OBVIOUS
  <2> QED
    BY <2>5, <2>6
<1>4. Cardinality(S) \in Nat
  BY FS_CardinalityType
<1>5. PICK f : SumUpTo(w, S, Cardinality(S), f)
  BY <1>3, <1>4
<1>6. {U \in SUBSET S : Cardinality(U) <= Cardinality(S)} = SUBSET S
  BY <1>0
<1> QED
  BY <1>5, <1>6 DEF SumUpTo, SumOf

\* Two such functions agree where both are defined.
LEMMA SumUnique ==
  ASSUME NEW S, IsFiniteSet(S), NEW w, NEW f, NEW R \in SUBSET S, NEW g, SumOf(w, S, f), SumOf(w, R, g)
  PROVE  \A T \in SUBSET R : f[T] = g[T]
<1> DEFINE Good == {T \in SUBSET R : f[T] = g[T]}
<1>1. \A T \in SUBSET S : f[T] = IF T = {} THEN 0 ELSE w[Chosen(T)] + f[T \ {Chosen(T)}]
  BY DEF SumOf
<1>2. \A T \in SUBSET R : g[T] = IF T = {} THEN 0 ELSE w[Chosen(T)] + g[T \ {Chosen(T)}]
  BY DEF SumOf
<1>3. {} \in Good
  BY <1>1, <1>2
<1>4. ASSUME NEW T \in SUBSET R, T # {}, T \ {Chosen(T)} \in Good PROVE T \in Good
  BY <1>1, <1>2, <1>4
<1>5. IsFiniteSet(R)
  BY FS_Subset
<1> HIDE DEF Good
<1>6. \A T \in SUBSET R : T \in Good
  BY <1>3, <1>4, <1>5, SubsetInduction
<1> QED
  BY <1>6 DEF Good

\* The library's sum is that function.
LEMMA SumIsSumOf ==
  ASSUME NEW S, IsFiniteSet(S), NEW w
  PROVE  \E f : SumOf(w, S, f) /\ SumFunctionOnSet(w, S) = f[S]
<1> DEFINE g == CHOOSE f : f = [T \in SUBSET S |-> IF T = {} THEN 0 ELSE w[CHOOSE x \in T : TRUE] + f[T \ {CHOOSE x \in T : TRUE}]]
<1>1. \E f : f = [T \in SUBSET S |-> IF T = {} THEN 0 ELSE w[CHOOSE x \in T : TRUE] + f[T \ {CHOOSE x \in T : TRUE}]]
  <2>1. PICK f : SumOf(w, S, f)
    BY SumDefined
  <2>2. f = [T \in SUBSET S |-> IF T = {} THEN 0 ELSE w[CHOOSE x \in T : TRUE] + f[T \ {CHOOSE x \in T : TRUE}]]
    BY <2>1, Zenon DEF SumOf, Chosen
  <2> QED
    BY <2>2, Zenon
<1>2. g = [T \in SUBSET S |-> IF T = {} THEN 0 ELSE w[CHOOSE x \in T : TRUE] + g[T \ {CHOOSE x \in T : TRUE}]]
  BY <1>1
<1>3. SumOf(w, S, g)
  BY <1>2 DEF SumOf, Chosen
<1>4. SumFunctionOnSet(w, S) = g[S]
  BY DEF SumFunctionOnSet, FoldFunctionOnSet, MapThenFoldSet
<1> QED
  BY <1>3, <1>4

\* The sum of the library: zero for the empty set, and one element more for the others.
LEMMA SumEquation ==
  ASSUME NEW S, IsFiniteSet(S), NEW w
  PROVE  /\ SumFunctionOnSet(w, {}) = 0
         /\ S # {} => SumFunctionOnSet(w, S) = w[Chosen(S)] + SumFunctionOnSet(w, S \ {Chosen(S)})
<1>1. PICK f : SumOf(w, S, f) /\ SumFunctionOnSet(w, S) = f[S]
  BY SumIsSumOf
<1>2. \A T \in SUBSET S : SumFunctionOnSet(w, T) = f[T]
  <2> SUFFICES ASSUME NEW T \in SUBSET S PROVE SumFunctionOnSet(w, T) = f[T]
    OBVIOUS
  <2>1. IsFiniteSet(T)
    BY FS_Subset
  <2>2. PICK g : SumOf(w, T, g) /\ SumFunctionOnSet(w, T) = g[T]
    BY <2>1, SumIsSumOf
  <2> QED
    BY <1>1, <2>2, SumUnique
<1>3. \A T \in SUBSET S : f[T] = IF T = {} THEN 0 ELSE w[Chosen(T)] + f[T \ {Chosen(T)}]
  BY <1>1 DEF SumOf
<1> QED
  BY <1>2, <1>3

\* The sum over the empty set.
LEMMA SumEmpty == \A w : SumFunctionOnSet(w, {}) = 0
  BY SumEquation, FS_EmptySet

\* A sum of integers is an integer, of natural numbers a natural number.
LEMMA SumType ==
  ASSUME NEW S, IsFiniteSet(S), NEW w, \A x \in S : w[x] \in Int
  PROVE  SumFunctionOnSet(w, S) \in Int /\ ((\A x \in S : w[x] >= 0) => SumFunctionOnSet(w, S) >= 0)
<1> DEFINE Good == {T \in SUBSET S : SumFunctionOnSet(w, T) \in Int /\ ((\A x \in T : w[x] >= 0) => SumFunctionOnSet(w, T) >= 0)}
<1>0. \A T \in SUBSET S : IsFiniteSet(T)
  BY FS_Subset
<1>1. {} \in Good
  BY SumEmpty
<1>2. ASSUME NEW T \in SUBSET S, T # {}, T \ {Chosen(T)} \in Good PROVE T \in Good
  <2>1. SumFunctionOnSet(w, T) = w[Chosen(T)] + SumFunctionOnSet(w, T \ {Chosen(T)}) /\ Chosen(T) \in T
    BY <1>0, <1>2, SumEquation, ChosenIn
  <2> QED
    BY <1>2, <2>1
<1> HIDE DEF Good
<1>3. \A T \in SUBSET S : T \in Good
  BY <1>1, <1>2, SubsetInduction
<1> QED
  BY <1>3 DEF Good

\* The sums of two functions add up to the sum of a third that is their sum everywhere.
LEMMA SumAdd ==
  ASSUME NEW S, IsFiniteSet(S), NEW u, NEW v, NEW w,
         \A x \in S : u[x] \in Int /\ v[x] \in Int /\ w[x] = u[x] + v[x]
  PROVE  SumFunctionOnSet(w, S) = SumFunctionOnSet(u, S) + SumFunctionOnSet(v, S)
<1> DEFINE Good == {T \in SUBSET S : SumFunctionOnSet(w, T) = SumFunctionOnSet(u, T) + SumFunctionOnSet(v, T)}
<1>0. \A T \in SUBSET S : IsFiniteSet(T)
  BY FS_Subset
<1>1. {} \in Good
  BY SumEmpty
<1>2. ASSUME NEW T \in SUBSET S, T # {}, T \ {Chosen(T)} \in Good PROVE T \in Good
  <2>1. Chosen(T) \in T /\ SumFunctionOnSet(w, T) = w[Chosen(T)] + SumFunctionOnSet(w, T \ {Chosen(T)})
    BY <1>0, <1>2, SumEquation, ChosenIn
  <2>2. SumFunctionOnSet(u, T) = u[Chosen(T)] + SumFunctionOnSet(u, T \ {Chosen(T)})
    BY <1>0, <1>2, SumEquation
  <2>3. SumFunctionOnSet(v, T) = v[Chosen(T)] + SumFunctionOnSet(v, T \ {Chosen(T)})
    BY <1>0, <1>2, SumEquation
  <2>4. SumFunctionOnSet(u, T \ {Chosen(T)}) \in Int /\ SumFunctionOnSet(v, T \ {Chosen(T)}) \in Int
    BY <1>0, SumType
  <2> QED
    BY <1>2, <2>1, <2>2, <2>3, <2>4
<1> HIDE DEF Good
<1>3. \A T \in SUBSET S : T \in Good
  BY <1>1, <1>2, SubsetInduction
<1> QED
  BY <1>3 DEF Good

\* A sum is monotonic in the function.
LEMMA SumLeq ==
  ASSUME NEW S, IsFiniteSet(S), NEW u, NEW w,
         \A x \in S : u[x] \in Int /\ w[x] \in Int /\ u[x] <= w[x]
  PROVE  SumFunctionOnSet(u, S) <= SumFunctionOnSet(w, S)
<1> DEFINE v == [x \in S |-> w[x] - u[x]]
<1>1. \A x \in S : v[x] \in Int /\ v[x] >= 0 /\ w[x] = u[x] + v[x]
  OBVIOUS
<1> HIDE DEF v
<1>2. SumFunctionOnSet(w, S) = SumFunctionOnSet(u, S) + SumFunctionOnSet(v, S)
  BY <1>1, SumAdd
<1>3. SumFunctionOnSet(v, S) \in Int /\ SumFunctionOnSet(v, S) >= 0 /\ SumFunctionOnSet(u, S) \in Int
  BY <1>1, SumType
<1> QED
  BY <1>2, <1>3

\* Only the values on the set count.
LEMMA SumSame ==
  ASSUME NEW S, IsFiniteSet(S), NEW u, NEW w, \A x \in S : u[x] \in Int /\ w[x] = u[x]
  PROVE  SumFunctionOnSet(w, S) = SumFunctionOnSet(u, S)
<1>1. SumFunctionOnSet(u, S) <= SumFunctionOnSet(w, S) /\ SumFunctionOnSet(w, S) <= SumFunctionOnSet(u, S)
  BY SumLeq
<1>2. SumFunctionOnSet(u, S) \in Int /\ SumFunctionOnSet(w, S) \in Int
  BY SumType
<1> QED
  BY <1>1, <1>2

\* The sum of a function that is one on a set and zero elsewhere is its size.
LEMMA SumIndicator ==
  ASSUME NEW S, IsFiniteSet(S), NEW B, NEW w, \A x \in S : w[x] = IF x \in B THEN 1 ELSE 0
  PROVE  SumFunctionOnSet(w, S) = Cardinality(S \cap B)
<1> DEFINE Good == {T \in SUBSET S : SumFunctionOnSet(w, T) = Cardinality(T \cap B)}
<1>0. \A T \in SUBSET S : IsFiniteSet(T) /\ IsFiniteSet(T \cap B) /\ Cardinality(T \cap B) \in Nat
  <2>1. \A T \in SUBSET S : T \cap B \in SUBSET S
    OBVIOUS
  <2> QED
    BY <2>1, FS_Subset, FS_CardinalityType
<1>1. {} \in Good
  <2>1. {} \cap B = {}
    OBVIOUS
  <2> QED
    BY <2>1, SumEmpty, FS_EmptySet
<1>2. ASSUME NEW T \in SUBSET S, T # {}, T \ {Chosen(T)} \in Good PROVE T \in Good
  <2>1. Chosen(T) \in T /\ SumFunctionOnSet(w, T) = w[Chosen(T)] + SumFunctionOnSet(w, T \ {Chosen(T)})
    BY <1>0, <1>2, SumEquation, ChosenIn
  <2>2. Cardinality((T \cap B) \ {Chosen(T)}) = IF Chosen(T) \in B THEN Cardinality(T \cap B) - 1 ELSE Cardinality(T \cap B)
    BY <1>0, <2>1, FS_RemoveElement
  <2>3. (T \ {Chosen(T)}) \cap B = (T \cap B) \ {Chosen(T)}
    OBVIOUS
  <2> QED
    BY <1>0, <1>2, <2>1, <2>2, <2>3
<1> HIDE DEF Good
<1>3. \A T \in SUBSET S : T \in Good
  BY <1>1, <1>2, SubsetInduction
<1> QED
  BY <1>3 DEF Good

\* Changing the function at one place changes its sum by as much.
LEMMA SumPoint ==
  ASSUME NEW S, IsFiniteSet(S), NEW a \in S, NEW d \in Int, NEW u, NEW w, \A x \in S : u[x] \in Int,
         \A x \in S : w[x] = IF x = a THEN u[x] + d ELSE u[x]
  PROVE  SumFunctionOnSet(w, S) = SumFunctionOnSet(u, S) + d
<1> DEFINE Good == {T \in SUBSET S : SumFunctionOnSet(w, T) = SumFunctionOnSet(u, T) + (IF a \in T THEN d ELSE 0)}
<1>0. \A T \in SUBSET S : IsFiniteSet(T)
  BY FS_Subset
<1>1. {} \in Good
  BY SumEmpty
<1>2. ASSUME NEW T \in SUBSET S, T # {}, T \ {Chosen(T)} \in Good PROVE T \in Good
  <2>1. Chosen(T) \in T /\ SumFunctionOnSet(w, T) = w[Chosen(T)] + SumFunctionOnSet(w, T \ {Chosen(T)})
    BY <1>0, <1>2, SumEquation, ChosenIn
  <2>2. SumFunctionOnSet(u, T) = u[Chosen(T)] + SumFunctionOnSet(u, T \ {Chosen(T)})
    BY <1>0, <1>2, SumEquation
  <2>3. SumFunctionOnSet(u, T \ {Chosen(T)}) \in Int
    BY <1>0, SumType
  <2> QED
    BY <1>2, <2>1, <2>2, <2>3
<1> HIDE DEF Good
<1>3. \A T \in SUBSET S : T \in Good
  BY <1>1, <1>2, SubsetInduction
<1>4. S \in Good
  BY <1>3
<1> QED
  BY <1>4 DEF Good

\* A sum over a set is the sum over the names of its elements, if each has its own.
LEMMA SumByName ==
  ASSUME NEW S, IsFiniteSet(S), NEW N, IsFiniteSet(N), NEW h \in [S -> N],
         \A x, y \in S : h[x] = h[y] => x = y,
         NEW w, \A x \in S : w[x] \in Int,
         NEW v, \A n \in N : v[n] = IF \E x \in S : h[x] = n THEN w[CHOOSE x \in S : h[x] = n] ELSE 0
  PROVE  SumFunctionOnSet(v, N) = SumFunctionOnSet(w, S)
<1> DEFINE Part(T) == [n \in N |-> IF \E x \in T : h[x] = n THEN v[n] ELSE 0]
<1> DEFINE Good == {T \in SUBSET S : SumFunctionOnSet(Part(T), N) = SumFunctionOnSet(w, T)}
<1>0. \A T \in SUBSET S : IsFiniteSet(T)
  BY FS_Subset
<1>a. \A x \in S : v[h[x]] = w[x]
  <2> SUFFICES ASSUME NEW x \in S PROVE v[h[x]] = w[x]
    OBVIOUS
  <2>1. (CHOOSE y \in S : h[y] = h[x]) = x
    OBVIOUS
  <2>2. h[x] \in N
    OBVIOUS
  <2> QED
    BY <2>1, <2>2
<1>b. \A n \in N : v[n] \in Int
  BY <1>a
<1>c. \A T \in SUBSET S : \A n \in N : Part(T)[n] \in Int
  BY <1>b
<1>1. {} \in Good
  <2>1. \A n \in N : Part({})[n] = IF n \in {} THEN 1 ELSE 0
    OBVIOUS
  <2>2. SumFunctionOnSet(Part({}), N) = Cardinality(N \cap {})
    BY <2>1, SumIndicator
  <2>3. N \cap {} = {} /\ Cardinality({}) = 0
    BY FS_EmptySet
  <2> QED
    BY <2>2, <2>3, SumEmpty
<1>2. ASSUME NEW T \in SUBSET S, T # {}, T \ {Chosen(T)} \in Good PROVE T \in Good
  <2> DEFINE c == Chosen(T)
  <2>1. c \in T /\ SumFunctionOnSet(w, T) = w[c] + SumFunctionOnSet(w, T \ {c})
    BY <1>0, <1>2, SumEquation, ChosenIn
  <2> HIDE DEF c
  <2>2. \A n \in N : Part(T)[n] = IF n = h[c] THEN Part(T \ {c})[n] + w[c] ELSE Part(T \ {c})[n]
    BY <1>a, <1>c, <2>1
  <2>3. SumFunctionOnSet(Part(T), N) = SumFunctionOnSet(Part(T \ {c}), N) + w[c]
    <3>1. h[c] \in N /\ w[c] \in Int /\ \A n \in N : Part(T \ {c})[n] \in Int
      BY <1>c, <2>1
    <3> DEFINE after == Part(T)
    <3> DEFINE before == Part(T \ {c})
    <3> DEFINE d == w[c]
    <3> DEFINE k == h[c]
    <3>2. k \in N /\ d \in Int /\ (\A n \in N : before[n] \in Int) /\ (\A n \in N : after[n] = IF n = k THEN before[n] + d ELSE before[n])
      BY <3>1, <2>2
    <3> HIDE DEF after, before, d, k, Part, Good
    <3>3. SumFunctionOnSet(after, N) = SumFunctionOnSet(before, N) + d
      BY <3>2, SumPoint
    <3> QED
      BY <3>3 DEF after, before, d
  <2>4. SumFunctionOnSet(Part(T \ {c}), N) \in Int
    <3> HIDE DEF Part
    <3> QED
      BY <1>c, SumType
  <2>5. SumFunctionOnSet(Part(T \ {c}), N) = SumFunctionOnSet(w, T \ {c})
    BY <1>2 DEF c
  <2> HIDE DEF Part
  <2> QED
    BY <2>1, <2>3, <2>4, <2>5
<1> HIDE DEF Good
<1>3. \A T \in SUBSET S : T \in Good
  BY <1>1, <1>2, SubsetInduction
<1>4. S \in Good
  BY <1>3
<1>5. SumFunctionOnSet(Part(S), N) = SumFunctionOnSet(w, S)
  BY <1>4 DEF Good
<1>6. SumFunctionOnSet(Part(S), N) = SumFunctionOnSet(v, N)
  <2>1. \A n \in N : v[n] \in Int /\ Part(S)[n] = v[n]
    BY <1>b
  <2> HIDE DEF Part
  <2> QED
    BY <2>1, SumSame
<1> QED
  BY <1>5, <1>6

-----------------------------------------------------------------------------
(* LparBuilder.                                                            *)

\* What is on the server, and what a call has read: a partition that makes sense.
LparFields ==
  {"env", "state", "rmc", "dlpar", "prio", "slots", "compat", "pend", "secure", "srr", "src", "mem", "ame", "ppt", "ded",
   "vcpu", "units"}
NoUnits == [min |-> 0, des |-> 0, max |-> 0]
LparFits(l) ==
  /\ DOMAIN l = LparFields /\ l.ded \in BOOLEAN
  /\ Sound(l.mem, MemLowBound) /\ Sound(l.vcpu, VcpuLowBound)
  /\ IF l.ded THEN l.units = NoUnits ELSE Sound(l.units, ProcUnitsLowBound)

ServerFits ==
  /\ DOMAIN lpars = Names /\ lver \in [Names -> Nat]
  /\ \A n \in Names : lpars[n] # NoLpar => LparFits(lpars[n]) /\ CommonOK(Host, lpars[n])

\* What a call has read is of the past, and with the etag of the partition it is the partition.
ReadFits(c) ==
  /\ c.name \in Names /\ c.ver \in Nat /\ c.ver <= lver[c.name]
  /\ c.ver = lver[c.name] => c.cur = lpars[c.name]
  /\ c.cur # NoLpar => LparFits(c.cur)

\* What a call has built.
NewFits(c) == LparFits(c.new) /\ (c.cur # NoLpar => c.new.state = c.cur.state)

CallerFits(t) ==
  /\ bpc[t] # "idle" => /\ DOMAIN bcall[t] = {"name", "dict", "dlpar", "cur", "ver", "host", "new"}
                        /\ ReadFits(bcall[t])
  /\ bpc[t] \in {"validate", "post"} => NewFits(bcall[t])
  /\ bpc[t] = "post" => PassesValidation(bcall[t])

BuilderInv ==
  /\ ServerFits
  /\ DOMAIN bpc = Callers /\ DOMAIN bcall = Callers
  /\ \A t \in Callers : CallerFits(t)

\* Before the first partition is created BuilderInv holds.
LEMMA BuilderInitial == BuilderInit => BuilderInv
BY DEF BuilderInit, BuilderInv, ServerFits, CallerFits

\* MinDesiredMaxField with all three values: they are in order, above the bound.
LEMMA FieldIsSound ==
  ASSUME NEW x, NEW low \in Int, MinDesiredMax(x, low, FALSE)
  PROVE  Sound(x, low)
BY BuilderConstantsOK DEF MinDesiredMax, AtMost, Sound

\* A partition that LPARBuilder makes of another, or of a minimal one.
LEMMA RebuiltFits ==
  ASSUME NEW a, NEW l, DOMAIN l = LparFields, CanRebuild(Host, a, l)
  PROVE  LparFits(Rebuilt(Host, a, l)) /\ Rebuilt(Host, a, l).state = l.state
<1> DEFINE k == Rebuilt(Host, a, l)
<1>1. /\ DOMAIN k = LparFields /\ k.state = l.state
      /\ k.mem = Filled(a.mem, a.mem.des) /\ k.vcpu = Filled(a.vcpu, a.vcpu.des) /\ k.ded = ~SharedProcs(a)
      /\ k.units = IF SharedProcs(a) THEN Filled(a.units, Units(a)) ELSE NoUnits
  BY DEF Rebuilt, LparFields, NoUnits
<1> HIDE DEF k
<1>2. Sound(k.mem, MemLowBound)
  <2>1. MinDesiredMax(Filled(a.mem, a.mem.des), MemLowBound, FALSE)
    BY DEF CanRebuild, MemoryStd, MemoryOK
  <2>2. MemLowBound \in Int
    BY DEF MemLowBound
  <2> QED
    BY <1>1, <2>1, <2>2, FieldIsSound
<1>3. Sound(k.vcpu, VcpuLowBound)
  <2>1. MinDesiredMax(Filled(a.vcpu, a.vcpu.des), VcpuLowBound, FALSE)
    BY DEF CanRebuild, ProcStd, VcpuOK
  <2>2. VcpuLowBound \in Int
    BY DEF VcpuLowBound
  <2> QED
    BY <1>1, <2>1, <2>2, FieldIsSound
<1>4. SharedProcs(a) => Sound(k.units, ProcUnitsLowBound)
  <2>1. SharedProcs(a) => MinDesiredMax(Filled(a.units, Units(a)), ProcUnitsLowBound, FALSE)
    BY DEF CanRebuild, ProcStd, UnitsOK
  <2>2. ProcUnitsLowBound \in Int
    BY DEF ProcUnitsLowBound
  <2> QED
    BY <1>1, <2>1, <2>2, FieldIsSound
<1>5. SharedProcs(a) \in BOOLEAN
  BY DEF SharedProcs
<1>6. LparFits(k)
  BY <1>1, <1>2, <1>3, <1>4, <1>5 DEF LparFits
<1> QED
  BY <1>1, <1>6 DEF k

\* A build that does not raise gives a partition that makes sense, in the state of the old
\* one.
LEMMA BuiltFits ==
  ASSUME NEW a, NEW old, old # NoLpar => LparFits(old), CanBuild(Host, a, old)
  PROVE  LET k == Rebuilt(Host, a, Base(Host, a, old)) IN LparFits(k) /\ (old # NoLpar => k.state = old.state)
<1>1. DOMAIN Base(Host, a, old) = LparFields
  BY DEF Base, Minimal, LparFits, LparFields
<1>2. CanRebuild(Host, a, Base(Host, a, old))
  BY DEF CanBuild
<1> QED
  BY <1>1, <1>2, RebuiltFits DEF Base

\* One call does a step, on a server that may have changed with its etag.
LEMMA CallerStep ==
  ASSUME BuilderInv, NEW t \in Callers, CallerFits(t)', ServerFits',
         DOMAIN bpc' = Callers, DOMAIN bcall' = Callers,
         \A u \in Callers \ {t} : UNCHANGED <<bpc[u], bcall[u]>>,
         \A n \in Names : UNCHANGED <<lver[n], lpars[n]>> \/ lver'[n] = lver[n] + 1
  PROVE  BuilderInv'
<1>1. ASSUME NEW u \in Callers \ {t} PROVE CallerFits(u)'
  <2>1. UNCHANGED <<bpc[u], bcall[u]>> /\ CallerFits(u)
    BY DEF BuilderInv
  <2>2. bpc[u] # "idle" => ReadFits(bcall[u])'
    BY <2>1 DEF CallerFits, ReadFits, BuilderInv, ServerFits
  <2> QED
    BY <2>1, <2>2 DEF CallerFits, NewFits, PassesValidation
<1> QED
  BY <1>1 DEF BuilderInv

\* A call reads the partition and its etag together.
LEMMA ReadsFits ==
  ASSUME BuilderInv, NEW t \in Callers, NEW n \in Names, NEW d, NEW dlpar, Reads(t, n, d, dlpar)
  PROVE  BuilderInv'
<1>1. /\ bcall'[t] = [name |-> n, dict |-> d, dlpar |-> dlpar, cur |-> lpars[n], ver |-> lver[n], host |-> used, new |-> None]
      /\ bpc'[t] = "build" /\ DOMAIN bpc' = Callers /\ DOMAIN bcall' = Callers
      /\ \A u \in Callers \ {t} : UNCHANGED <<bpc[u], bcall[u]>>
      /\ UNCHANGED <<lpars, lver>>
  BY DEF Reads, BGoto, BuilderInv
<1>2. ServerFits'
  BY <1>1 DEF BuilderInv, ServerFits
<1>3. CallerFits(t)'
  BY <1>1 DEF BuilderInv, ServerFits, CallerFits, ReadFits
<1> QED
  BY <1>1, <1>2, <1>3, CallerStep

\* A call that ends, with whatever result, has nothing more to do with partitions.
LEMMA EndFits ==
  ASSUME BuilderInv, NEW t \in Callers, BEnds(t), ServerFits',
         \A n \in Names : UNCHANGED <<lver[n], lpars[n]>> \/ lver'[n] = lver[n] + 1
  PROVE  BuilderInv'
<1>1. /\ bpc'[t] = "idle" /\ DOMAIN bpc' = Callers /\ DOMAIN bcall' = Callers
      /\ \A u \in Callers \ {t} : UNCHANGED <<bpc[u], bcall[u]>>
  BY DEF BEnds, BGoto, BuilderInv
<1>2. CallerFits(t)'
  BY <1>1 DEF CallerFits
<1> QED
  BY <1>1, <1>2, CallerStep

\* LPARBuilder.build and LPARBuilder.rebuild.
LEMMA BuildFits ==
  ASSUME BuilderInv, NEW t \in Callers, BuildLpar(t)
  PROVE  BuilderInv'
<1> DEFINE c == bcall[t]
           a == dict[c.dict]
           k == Rebuilt(Host, a, Base(Host, a, c.cur))
<1>1. ServerFits' /\ UNCHANGED <<lpars, lver>>
  BY DEF BuildLpar, BuilderInv, ServerFits
<1>2. CASE CanBuild(Host, a, c.cur)
  <2>1. bcall' = [bcall EXCEPT ![t].new = k] /\ bpc' = [bpc EXCEPT ![t] = "validate"]
    BY <1>2 DEF BuildLpar, BGoto
  <2>2. ReadFits(c) /\ DOMAIN c = {"name", "dict", "dlpar", "cur", "ver", "host", "new"}
    BY DEF BuilderInv, CallerFits, BuildLpar
  <2>3. LparFits(k) /\ (c.cur # NoLpar => k.state = c.cur.state)
    BY <1>2, <2>2, BuiltFits DEF ReadFits
  <2> HIDE DEF k
  <2>4. /\ bpc'[t] = "validate" /\ DOMAIN bpc' = Callers /\ DOMAIN bcall' = Callers
        /\ \A u \in Callers \ {t} : UNCHANGED <<bpc[u], bcall[u]>>
        /\ bcall'[t] = [c EXCEPT !.new = k]
    BY <2>1 DEF BuilderInv
  <2>5. /\ DOMAIN bcall'[t] = {"name", "dict", "dlpar", "cur", "ver", "host", "new"} /\ bcall'[t].new = k
        /\ bcall'[t].name = c.name /\ bcall'[t].ver = c.ver /\ bcall'[t].cur = c.cur
    BY <2>2, <2>4
  <2>6. CallerFits(t)'
    BY <1>1, <2>2, <2>3, <2>4, <2>5 DEF CallerFits, ReadFits, NewFits
  <2> QED
    BY <1>1, <2>4, <2>6, CallerStep
<1>3. CASE ~CanBuild(Host, a, c.cur)
  BY <1>1, <1>3, EndFits DEF BuildLpar
<1> QED
  BY <1>2, <1>3

\* LPARWrapperValidator.validate_all.
LEMMA ValidateFits ==
  ASSUME BuilderInv, NEW t \in Callers, ValidateAll(t)
  PROVE  BuilderInv'
<1>1. ServerFits' /\ UNCHANGED <<lpars, lver>>
  BY DEF ValidateAll, BuilderInv, ServerFits
<1>2. CASE PassesValidation(bcall[t])
  <2>1. /\ bpc'[t] = "post" /\ DOMAIN bpc' = Callers /\ bcall' = bcall /\ bpc[t] = "validate"
        /\ \A u \in Callers \ {t} : UNCHANGED <<bpc[u], bcall[u]>>
    BY <1>2 DEF ValidateAll, BGoto, BuilderInv
  <2>2. PassesValidation(bcall[t])'
    BY <1>2, <2>1 DEF PassesValidation
  <2>3. CallerFits(t)'
    BY <1>1, <2>1, <2>2 DEF BuilderInv, CallerFits, ReadFits, NewFits
  <2> QED
    BY <1>1, <2>1, <2>3, CallerStep DEF BuilderInv
<1>3. CASE ~PassesValidation(bcall[t])
  BY <1>1, <1>3, EndFits DEF ValidateAll
<1> QED
  BY <1>2, <1>3

\* What the server makes of a partition that is POSTed.
Accepted(c) == Committed([c.new EXCEPT !.ppt = IF @ = None /\ c.cur # NoLpar THEN c.cur.ppt ELSE @])

\* It is what was POSTed but for the page-table ratio that was left out and the
\* compatibility mode.
LEMMA AcceptedFits ==
  ASSUME NEW c, LparFits(c.new)
  PROVE  /\ LparFits(Accepted(c)) /\ (CommonOK(Host, c.new) => CommonOK(Host, Accepted(c)))
         /\ \A f \in LparFields \ {"ppt", "compat"} : Accepted(c)[f] = c.new[f]
         /\ Accepted(c).ppt = IF c.new.ppt = None /\ c.cur # NoLpar THEN c.cur.ppt ELSE c.new.ppt
<1> DEFINE k == Accepted(c)
<1>1. /\ DOMAIN k = LparFields /\ \A f \in LparFields \ {"ppt", "compat"} : k[f] = c.new[f]
      /\ k.ppt = IF c.new.ppt = None /\ c.cur # NoLpar THEN c.cur.ppt ELSE c.new.ppt
  BY DEF Accepted, Committed, LparFits, LparFields
<1> HIDE DEF k
<1>2. k.ded = c.new.ded /\ k.mem = c.new.mem /\ k.vcpu = c.new.vcpu /\ k.units = c.new.units
  BY <1>1 DEF LparFields
<1> QED
  BY <1>1, <1>2 DEF LparFits, CommonOK, k

\* The POST is accepted with the etag of the partition, and then has passed the validator.
LEMMA PostFits ==
  ASSUME BuilderInv, NEW t \in Callers, PostLpar(t)
  PROVE  BuilderInv'
<1> DEFINE c == bcall[t]
<1>1. BEnds(t) /\ NewFits(c) /\ ReadFits(c) /\ PassesValidation(c)
  BY DEF PostLpar, BuilderInv, CallerFits
<1>2. CASE UNCHANGED <<lpars, lver>>
  BY <1>1, <1>2, EndFits DEF BuilderInv, ServerFits
<1>3. CASE lpars' = [lpars EXCEPT ![c.name] = Accepted(c)] /\ lver' = [lver EXCEPT ![c.name] = @ + 1]
  <2>1. LparFits(Accepted(c)) /\ CommonOK(Host, Accepted(c))
    BY <1>1, AcceptedFits DEF NewFits, PassesValidation
  <2> HIDE DEF c
  <2>2. ServerFits'
    BY <1>1, <1>3, <2>1 DEF BuilderInv, ServerFits, ReadFits
  <2>3. \A n \in Names : UNCHANGED <<lver[n], lpars[n]>> \/ lver'[n] = lver[n] + 1
    BY <1>1, <1>3 DEF BuilderInv, ServerFits
  <2> QED
    BY <1>1, <2>2, <2>3, EndFits
<1> QED
  BY <1>2, <1>3 DEF PostLpar, Accepted

\* A partition that is powered on or off keeps its memory and processors.
LEMMA PowerKeeps ==
  ASSUME BuilderInv, NEW n \in Names, PowerChanges(n)
  PROVE  \E k : /\ lpars' = [lpars EXCEPT ![n] = k] /\ DOMAIN k = DOMAIN lpars[n]
                /\ \A f \in DOMAIN lpars[n] \ {"state", "rmc", "compat"} : k[f] = lpars[n][f]
<1>1. CASE lpars' = [lpars EXCEPT ![n].state = "running", ![n].compat = lpars[n].pend]
  <2>1. lpars' = [lpars EXCEPT ![n] = [lpars[n] EXCEPT !.state = "running", !.compat = lpars[n].pend]]
    BY <1>1 DEF BuilderInv, ServerFits
  <2> QED
    BY <2>1
<1>2. CASE lpars' = [lpars EXCEPT ![n].state = "not activated", ![n].rmc = "inactive"]
  <2>1. lpars' = [lpars EXCEPT ![n] = [lpars[n] EXCEPT !.state = "not activated", !.rmc = "inactive"]]
    BY <1>2 DEF BuilderInv, ServerFits
  <2> QED
    BY <2>1
<1>3. CASE lpars' = [lpars EXCEPT ![n].rmc = "active"]
  <2>1. lpars' = [lpars EXCEPT ![n] = [lpars[n] EXCEPT !.rmc = "active"]]
    BY <1>3
  <2> QED
    BY <2>1
<1> QED
  BY <1>1, <1>2, <1>3 DEF PowerChanges

\* So it goes on making sense.
LEMMA PowerFits ==
  ASSUME BuilderInv, NEW n \in Names, PowerChanges(n)
  PROVE  BuilderInv'
<1>1. PICK k : /\ lpars' = [lpars EXCEPT ![n] = k] /\ DOMAIN k = DOMAIN lpars[n]
               /\ \A f \in DOMAIN lpars[n] \ {"state", "rmc", "compat"} : k[f] = lpars[n][f]
  BY PowerKeeps
<1>2. LparFits(lpars[n]) /\ CommonOK(Host, lpars[n])
  BY DEF PowerChanges, BuilderInv, ServerFits
<1>3. k.ded = lpars[n].ded /\ k.mem = lpars[n].mem /\ k.vcpu = lpars[n].vcpu /\ k.units = lpars[n].units
  BY <1>1, <1>2 DEF LparFits, LparFields
<1>4. LparFits(k) /\ CommonOK(Host, k)
  BY <1>1, <1>2, <1>3 DEF LparFits, CommonOK
<1>5. ServerFits'
  <2>0. lver' = [lver EXCEPT ![n] = @ + 1] /\ lver \in [Names -> Nat] /\ DOMAIN lpars = Names
    BY DEF PowerChanges, BuilderInv, ServerFits
  <2>1. DOMAIN lpars' = Names /\ lver' \in [Names -> Nat]
    BY <1>1, <2>0
  <2>2. ASSUME NEW m \in Names, lpars'[m] # NoLpar PROVE LparFits(lpars'[m]) /\ CommonOK(Host, lpars'[m])
    <3>1. lpars'[m] = IF m = n THEN k ELSE lpars[m]
      BY <1>1 DEF BuilderInv, ServerFits
    <3> QED
      BY <1>4, <2>2, <3>1 DEF BuilderInv, ServerFits
  <2>3. \A m \in Names : lpars'[m] # NoLpar => LparFits(lpars'[m]) /\ CommonOK(Host, lpars'[m])
    BY <2>2
  <2> QED
    BY <2>1, <2>3 DEF ServerFits
<1>6. \A m \in Names : UNCHANGED <<lver[m], lpars[m]>> \/ lver'[m] = lver[m] + 1
  BY <1>1 DEF PowerChanges, BuilderInv, ServerFits
<1>7. \A u \in Callers : UNCHANGED <<bpc[u], bcall[u]>> /\ CallerFits(u)
  BY DEF PowerChanges, BuilderInv
<1>8. \A u \in Callers : bpc[u] # "idle" => ReadFits(bcall[u])'
  BY <1>6, <1>7 DEF CallerFits, ReadFits, BuilderInv, ServerFits
<1>9. \A u \in Callers : CallerFits(u)'
  BY <1>7, <1>8 DEF CallerFits, NewFits, PassesValidation
<1> QED
  BY <1>5, <1>9 DEF BuilderInv, PowerChanges

\* Every step of a call and of the platform keeps BuilderInv.
LEMMA BuilderStep == BuilderInv /\ [BuilderNext]_builderVars => BuilderInv'
<1> SUFFICES ASSUME BuilderInv, [BuilderNext]_builderVars PROVE BuilderInv'
  OBVIOUS
<1>1. CASE UNCHANGED builderVars
  BY <1>1 DEF builderVars, BuilderInv, ServerFits, CallerFits, ReadFits, NewFits, PassesValidation
<1> QED
  BY <1>1, ReadsFits, BuildFits, ValidateFits, PostFits, PowerFits DEF BuilderNext

\* BuilderInv is an invariant.
LEMMA BuilderInvariant == BuilderSpec => []BuilderInv
BY BuilderInitial, BuilderStep, PTL DEF BuilderSpec

\* utils/lpar_builder.py: for every host, dictionary of attributes and number of callers, the
\* partitions on the server are those that LPARBuilder can make: see LparsAreSound.
THEOREM LparsMakeSense == BuilderSpec => []LparsAreSound
<1>1. BuilderInv => LparsAreSound
  BY DEF BuilderInv, ServerFits, LparFits, LparsAreSound
<1> QED
  BY <1>1, BuilderInvariant, PTL

\* The POST of a resize, on a partition that is running: what passed the validator is what
\* is there, by the etag.
LEMMA ResizeKeeps ==
  ASSUME BuilderInv, NEW t \in Callers, PostLpar(t), NEW n \in Names, lpars[n] # NoLpar, lpars[n].state = "running"
  PROVE  LET l == lpars[n] IN LET k == lpars'[n] IN
           /\ k.ded = l.ded /\ SameLimits(k.vcpu, l.vcpu) /\ SameLimits(k.mem, l.mem)
           /\ SameLimits(k.units, l.units) /\ k.ame = l.ame /\ k.ppt = l.ppt
<1> DEFINE c == bcall[t]
<1>1. NewFits(c) /\ ReadFits(c) /\ PassesValidation(c)
  BY DEF PostLpar, BuilderInv, CallerFits
<1>2. CASE lpars'[n] = lpars[n]
  BY <1>2 DEF SameLimits
<1>3. CASE lpars'[n] # lpars[n]
  <2>1. lpars' = [lpars EXCEPT ![c.name] = Accepted(c)] /\ EtagOK(c)
    BY <1>3 DEF PostLpar, Accepted
  <2> HIDE DEF c
  <2>2. n = c.name /\ lpars'[n] = Accepted(c) /\ c.cur = lpars[n]
    BY <1>1, <1>3, <2>1 DEF BuilderInv, ServerFits, EtagOK, ReadFits
  <2>3. /\ ActiveProcOK(c.new, c.cur) /\ ActiveMemOK(c.new, c.cur)
    BY <1>1, <2>2 DEF PassesValidation
  <2>4. /\ \A f \in LparFields \ {"ppt", "compat"} : Accepted(c)[f] = c.new[f]
        /\ Accepted(c).ppt = IF c.new.ppt = None /\ c.cur # NoLpar THEN c.cur.ppt ELSE c.new.ppt
    BY <1>1, AcceptedFits DEF NewFits
  <2>5. /\ Accepted(c).ded = c.new.ded /\ Accepted(c).mem = c.new.mem /\ Accepted(c).vcpu = c.new.vcpu
        /\ Accepted(c).units = c.new.units /\ Accepted(c).ame = c.new.ame
    BY <2>4 DEF LparFields
  <2>6. c.cur # NoLpar /\ c.cur.ded \in BOOLEAN /\ c.new.ded \in BOOLEAN
    BY <1>1, <2>2 DEF NewFits, ReadFits, LparFits
  <2>7. SameLimits(c.new.units, c.cur.units)
    <3>1. CASE c.new.ded
      BY <1>1, <2>3, <2>6, <3>1 DEF ActiveProcOK, NewFits, ReadFits, LparFits, SameLimits
    <3>2. CASE ~c.new.ded
      BY <2>3, <2>6, <3>2 DEF ActiveProcOK
    <3> QED
      BY <3>1, <3>2
  <2>8. Accepted(c).ppt = c.cur.ppt
    BY <2>3, <2>4, <2>6 DEF ActiveMemOK
  <2> QED
    BY <2>2, <2>3, <2>5, <2>7, <2>8 DEF ActiveProcOK, ActiveMemOK
<1> QED
  BY <1>2, <1>3

\* utils/validation.py: a resize never moves the limits of a partition that runs, although
\* the partition may have been started between the validation and the POST: see
\* RunningKeepsLimits.
THEOREM LimitsAreKept == BuilderSpec => RunningKeepsLimits
<1> DEFINE Kept(n) ==
      lpars[n] # NoLpar /\ lpars[n].state = "running" =>
        LET l == lpars[n] IN LET k == lpars'[n] IN
          /\ k.ded = l.ded /\ SameLimits(k.vcpu, l.vcpu) /\ SameLimits(k.mem, l.mem)
          /\ SameLimits(k.units, l.units) /\ k.ame = l.ame /\ k.ppt = l.ppt
<1>1. ASSUME BuilderInv, BuilderNext, NEW n \in Names PROVE Kept(n)
  <2>1. CASE lpars' = lpars
    BY <2>1 DEF SameLimits
  <2>2. ASSUME NEW m \in Names, PowerChanges(m) PROVE Kept(n)
    <3>1. lpars[m] # NoLpar => DOMAIN lpars[m] = LparFields /\ DOMAIN lpars = Names
      BY <1>1 DEF BuilderInv, ServerFits, LparFits
    <3>2. \A f \in LparFields \ {"state", "rmc", "compat"} : lpars'[n][f] = lpars[n][f]
      BY <1>1, <2>2, <3>1, PowerKeeps DEF PowerChanges
    <3> QED
      BY <3>2 DEF SameLimits, LparFields
  <2>3. ASSUME NEW t \in Callers, PostLpar(t) PROVE Kept(n)
    BY <1>1, <2>3, ResizeKeeps
  <2>4. \A t \in Callers :
          (\E m \in Names, d \in DOMAIN Dicts : \E dlpar \in (IF lpars[m] = NoLpar THEN {TRUE} ELSE BOOLEAN) : Reads(t, m, d, dlpar))
            \/ BuildLpar(t) \/ ValidateAll(t) => lpars' = lpars
    BY DEF Reads, BuildLpar, ValidateAll
  <2> QED
    BY <1>1, <2>1, <2>2, <2>3, <2>4 DEF BuilderNext
<1>2. BuilderInv /\ [BuilderNext]_builderVars => [\A n \in Names : Kept(n)]_builderVars
  BY <1>1
<1> QED
  BY <1>2, BuilderInvariant, PTL DEF BuilderSpec, RunningKeepsLimits

\* The values that are compared with what the host has are numbers.
TypedLpar(l) == \A x \in {l.mem, l.vcpu, l.units} : x.min \in Int /\ x.des \in Int

SameFields(a, b) == \A f \in {"mem", "vcpu", "units"} : f \in DOMAIN a /\ a[f] = b[f]

\* What a call has read of the host, by its etag.
HostRead(c) ==
  /\ c.host.ver \in Int /\ c.host.ver <= used.ver
  /\ c.host.ver = used.ver => c.host = used

CallerTyped(t) ==
  bpc[t] # "idle" =>
    /\ bcall[t].dict \in DOMAIN Dicts /\ HostRead(bcall[t])
    /\ bcall[t].cur # NoLpar => TypedLpar(bcall[t].cur)
    /\ bpc[t] \in {"validate", "post"} => TypedLpar(bcall[t].new)

\* The host's account is right: what is taken is what the partitions take.
AccountIsRight ==
  /\ used.ver \in Int
  /\ used.mem = SumFunctionOnSet([n \in Names |-> MemTaken(lpars[n])], Names)
  /\ used.units = SumFunctionOnSet([n \in Names |-> UnitsTaken(lpars[n])], Names)
  /\ used.mem <= Host.mem /\ used.units <= Host.units

ServerTyped == \A n \in Names : lpars[n] # NoLpar => TypedLpar(lpars[n])
DictsKept == DOMAIN dict = DOMAIN Dicts /\ \A d \in DOMAIN Dicts : SameFields(dict[d], Dicts[d])

\* The inductive invariant for ValidatedFits, on top of BuilderInv.
FitsInv ==
  /\ DictsKept /\ ServerTyped /\ AccountIsRight
  /\ \A t \in Callers : CallerTyped(t)
  /\ ValidatedFits

\* What a partition takes is an integer.
LEMMA TakenTyped ==
  ASSUME NEW l, l # NoLpar => TypedLpar(l)
  PROVE  MemTaken(l) \in Int /\ UnitsTaken(l) \in Int
  BY DEF MemTaken, UnitsTaken, ProcsOf, TypedLpar

\* Before the first build FitsInv holds: nothing is taken.
LEMMA FitsInitial == BuilderInit => FitsInv
<1> SUFFICES ASSUME BuilderInit PROVE FitsInv
  OBVIOUS
<1>1. \A n \in Names : lpars[n] = NoLpar /\ MemTaken(lpars[n]) = 0 /\ UnitsTaken(lpars[n]) = 0
  BY DEF BuilderInit, MemTaken, UnitsTaken
<1> DEFINE z == [n \in Names |-> 0]
<1>2. SumFunctionOnSet(z, Names) = 0
  <2>1. \A n \in Names : z[n] = IF n \in {} THEN 1 ELSE 0
    OBVIOUS
  <2>2. SumFunctionOnSet(z, Names) = Cardinality(Names \cap {})
    <3> HIDE DEF z
    <3> QED
      BY <2>1, BuilderConstantsOK, SumIndicator
  <2>3. Names \cap {} = {} /\ Cardinality({}) = 0
    BY FS_EmptySet
  <2> QED
    BY <2>2, <2>3
<1>3. [n \in Names |-> MemTaken(lpars[n])] = z /\ [n \in Names |-> UnitsTaken(lpars[n])] = z
  BY <1>1
<1>4. AccountIsRight
  <2> HIDE DEF z
  <2> QED
    BY <1>2, <1>3, BuilderConstantsOK DEF AccountIsRight, BuilderInit
<1>5. DictsKept
  BY BuilderConstantsOK DEF DictsKept, SameFields, BuilderInit
<1>6. ServerTyped /\ (\A t \in Callers : CallerTyped(t)) /\ ValidatedFits
  BY <1>1 DEF ServerTyped, CallerTyped, ValidatedFits, BuilderInit
<1> QED
  BY <1>4, <1>5, <1>6 DEF FitsInv

\* What LPARBuilder builds has numbers where the validator computes.
LEMMA RebuiltTyped ==
  ASSUME FitsInv, NEW d \in DOMAIN Dicts, NEW old, old # NoLpar => LparFits(old), CanBuild(Host, dict[d], old)
  PROVE  TypedLpar(Rebuilt(Host, dict[d], Base(Host, dict[d], old)))
<1> DEFINE a == dict[d]
           l == Base(Host, a, old)
           k == Rebuilt(Host, a, l)
<1>0. DOMAIN l = LparFields
  BY DEF Base, Minimal, LparFits, LparFields
<1> HIDE DEF l
<1>1. /\ k.mem = Filled(a.mem, a.mem.des) /\ k.vcpu = Filled(a.vcpu, a.vcpu.des)
      /\ k.units = IF SharedProcs(a) THEN Filled(a.units, Units(a)) ELSE NoUnits
  BY <1>0 DEF Rebuilt, LparFields, NoUnits
<1> HIDE DEF k
<1>2. \A f \in {"mem", "vcpu", "units"} : {a[f].min, a[f].des, a[f].max} \subseteq Int \cup {None}
  BY BuilderConstantsOK DEF FitsInv, DictsKept, SameFields
<1>3. a.mem.des # None /\ a.vcpu.des # None
  BY DEF CanBuild, HasMinimum
<1> HIDE DEF a
<1>4. a.mem.des \in Int /\ a.vcpu.des \in Int
  BY <1>2, <1>3
<1>5. Units(a) \in Int
  BY <1>2, <1>4 DEF Units, Or, MinOf, MaxOf, DefProcUnitFact
<1>6. /\ k.mem.des \in Int /\ k.vcpu.des \in Int /\ k.units.des \in Int
      /\ k.mem.min \in Int /\ k.vcpu.min \in Int /\ k.units.min \in Int
  BY <1>1, <1>2, <1>4, <1>5 DEF Filled, NoUnits, Or
<1> QED
  BY <1>6 DEF TypedLpar, k, l, a

\* One call does a step that leaves the host alone.
LEMMA TypedStep ==
  ASSUME BuilderInv, FitsInv, NEW t \in Callers, CallerTyped(t)', DictsKept', UNCHANGED <<lpars, used, refusals>>,
         \A u \in Callers \ {t} : UNCHANGED <<bpc[u], bcall[u]>>
  PROVE  FitsInv'
<1>1. \A u \in Callers \ {t} : CallerTyped(u)'
  BY DEF FitsInv, CallerTyped, HostRead
<1> QED
  BY <1>1 DEF FitsInv, ServerTyped, AccountIsRight, ValidatedFits

\* Reading the host or the partition keeps the caller's records typed.
LEMMA ReadsTyped ==
  ASSUME BuilderInv, FitsInv, NEW t \in Callers, NEW n \in Names, NEW d \in DOMAIN Dicts, NEW dlpar, Reads(t, n, d, dlpar)
  PROVE  FitsInv'
<1>1. /\ bcall'[t] = [name |-> n, dict |-> d, dlpar |-> dlpar, cur |-> lpars[n], ver |-> lver[n], host |-> used, new |-> None]
      /\ bpc'[t] = "build" /\ \A u \in Callers \ {t} : UNCHANGED <<bpc[u], bcall[u]>>
      /\ UNCHANGED <<lpars, used, dict, refusals>>
  BY DEF Reads, BGoto, BuilderInv
<1>2. CallerTyped(t)'
  BY <1>1 DEF FitsInv, CallerTyped, HostRead, AccountIsRight, ServerTyped
<1>3. DictsKept'
  BY <1>1 DEF FitsInv, DictsKept
<1> QED
  BY <1>1, <1>2, <1>3, TypedStep

\* A call that ends, raising or returning, keeps them typed.
LEMMA EndTyped ==
  ASSUME BuilderInv, NEW t \in Callers, BEnds(t)
  PROVE  CallerTyped(t)' /\ \A u \in Callers \ {t} : UNCHANGED <<bpc[u], bcall[u]>>
  BY DEF BEnds, BGoto, BuilderInv, CallerTyped

\* LPARBuilder keeps them typed.
LEMMA BuildTyped ==
  ASSUME BuilderInv, FitsInv, NEW t \in Callers, BuildLpar(t)
  PROVE  FitsInv'
<1> DEFINE c == bcall[t]
           a == dict[c.dict]
           k == Rebuilt(Host, a, Base(Host, a, c.cur))
<1>0. bpc[t] = "build" /\ dict' = [dict EXCEPT ![c.dict] = Converted(Host, a, c.cur)] /\ UNCHANGED <<lpars, used, refusals>>
  BY DEF BuildLpar
<1>1. c.dict \in DOMAIN Dicts /\ CallerTyped(t) /\ ReadFits(c) /\ DOMAIN c = {"name", "dict", "dlpar", "cur", "ver", "host", "new"}
  BY <1>0 DEF FitsInv, CallerTyped, BuilderInv, CallerFits
<1>2. DictsKept'
  <2>1. DictsKept
    BY DEF FitsInv
  <2>2. SameFields(Converted(Host, a, c.cur), Dicts[c.dict])
    BY <1>1, <2>1 DEF DictsKept, SameFields, Converted
  <2> QED
    BY <1>0, <1>1, <2>1, <2>2 DEF DictsKept
<1>3. CASE CanBuild(Host, a, c.cur)
  <2>1. bcall' = [bcall EXCEPT ![t].new = k] /\ bpc' = [bpc EXCEPT ![t] = "validate"]
    BY <1>3 DEF BuildLpar, BGoto
  <2>2. TypedLpar(k)
    BY <1>1, <1>3, RebuiltTyped DEF ReadFits
  <2> HIDE DEF k
  <2>3. /\ bpc'[t] = "validate" /\ \A u \in Callers \ {t} : UNCHANGED <<bpc[u], bcall[u]>>
        /\ bcall'[t] = [c EXCEPT !.new = k]
    BY <2>1 DEF BuilderInv
  <2>4. bcall'[t].new = k /\ bcall'[t].dict = c.dict /\ bcall'[t].host = c.host /\ bcall'[t].cur = c.cur
    BY <1>1, <2>3
  <2>5. CallerTyped(t)'
    BY <1>0, <1>1, <2>2, <2>3, <2>4 DEF CallerTyped, HostRead
  <2> QED
    BY <1>0, <1>2, <2>3, <2>5, TypedStep
<1>4. CASE ~CanBuild(Host, a, c.cur)
  <2>1. BEnds(t)
    BY <1>4 DEF BuildLpar
  <2> QED
    BY <1>0, <1>2, <2>1, EndTyped, TypedStep
<1> QED
  BY <1>3, <1>4

\* The validator passes only what fits in the host as it was read.
LEMMA ValidateTyped ==
  ASSUME BuilderInv, FitsInv, NEW t \in Callers, ValidateAll(t)
  PROVE  FitsInv'
<1>0. bpc[t] = "validate" /\ UNCHANGED <<lpars, used, dict, refusals>>
  BY DEF ValidateAll
<1>1. DictsKept'
  BY <1>0 DEF FitsInv, DictsKept
<1>2. CASE PassesValidation(bcall[t])
  <2>1. /\ bpc'[t] = "post" /\ bcall' = bcall /\ \A u \in Callers \ {t} : UNCHANGED <<bpc[u], bcall[u]>>
    BY <1>2 DEF ValidateAll, BGoto, BuilderInv
  <2>2. CallerTyped(t)'
    BY <1>0, <2>1 DEF FitsInv, CallerTyped, HostRead
  <2> QED
    BY <1>0, <1>1, <2>1, <2>2, TypedStep
<1>3. CASE ~PassesValidation(bcall[t])
  <2>1. BEnds(t)
    BY <1>3 DEF ValidateAll
  <2> QED
    BY <1>0, <1>1, <2>1, EndTyped, TypedStep
<1> QED
  BY <1>2, <1>3

\* What the server's partitions take is not negative.
LEMMA TakenIsNatural ==
  ASSUME NEW l, l # NoLpar => TypedLpar(l) /\ LparFits(l)
  PROVE  MemTaken(l) >= 0 /\ UnitsTaken(l) >= 0
<1>1. CASE l = NoLpar
  BY <1>1 DEF MemTaken, UnitsTaken
<1>2. CASE l # NoLpar
  <2>1. l.mem.des >= 0 /\ l.vcpu.des >= 0 /\ (~l.ded => l.units.des >= 0)
    BY <1>2 DEF TypedLpar, LparFits, Sound, MemLowBound, VcpuLowBound, ProcUnitsLowBound
  <2>2. l.vcpu.des \in Int
    BY <1>2 DEF TypedLpar
  <2> QED
    BY <1>2, <2>1, <2>2 DEF MemTaken, UnitsTaken, ProcsOf
<1> QED
  BY <1>1, <1>2

\* The managed system's counts are integers.
LEMMA AccountTyped == ASSUME ServerTyped, AccountIsRight PROVE used.mem \in Int /\ used.units \in Int
<1> DEFINE u == [n \in Names |-> MemTaken(lpars[n])]
           w == [n \in Names |-> UnitsTaken(lpars[n])]
<1>1. \A n \in Names : u[n] \in Int /\ w[n] \in Int
  BY TakenTyped DEF ServerTyped
<1>2. used.mem = SumFunctionOnSet(u, Names) /\ used.units = SumFunctionOnSet(w, Names)
  BY DEF AccountIsRight
<1> HIDE DEF u, w
<1> QED
  BY <1>1, <1>2, BuilderConstantsOK, SumType

\* A partition takes the place of another: the sums change by the difference.
LEMMA AccountChanges ==
  ASSUME ServerTyped, DOMAIN lpars = Names, NEW n \in Names, NEW l, l # NoLpar => TypedLpar(l)
  PROVE  LET ls == [lpars EXCEPT ![n] = l]
         IN  /\ Taken(ls).mem = SumFunctionOnSet([m \in Names |-> MemTaken(lpars[m])], Names) + (MemTaken(l) - MemTaken(lpars[n]))
             /\ Taken(ls).units = SumFunctionOnSet([m \in Names |-> UnitsTaken(lpars[m])], Names) + (UnitsTaken(l) - UnitsTaken(lpars[n]))
<1> DEFINE ls == [lpars EXCEPT ![n] = l]
<1>1. \A m \in Names : ls[m] = IF m = n THEN l ELSE lpars[m]
  OBVIOUS
<1>2. \A m \in Names : MemTaken(lpars[m]) \in Int /\ UnitsTaken(lpars[m]) \in Int
  BY TakenTyped DEF ServerTyped
<1>3. MemTaken(l) \in Int /\ UnitsTaken(l) \in Int
  BY TakenTyped
<1> HIDE DEF ls
<1>4. SumFunctionOnSet([m \in Names |-> MemTaken(ls[m])], Names) = SumFunctionOnSet([m \in Names |-> MemTaken(lpars[m])], Names) + (MemTaken(l) - MemTaken(lpars[n]))
  <2> DEFINE u == [m \in Names |-> MemTaken(lpars[m])]
  <2> DEFINE w == [m \in Names |-> MemTaken(ls[m])]
  <2> DEFINE d == MemTaken(l) - MemTaken(lpars[n])
  <2>1. d \in Int /\ (\A m \in Names : u[m] \in Int) /\ \A m \in Names : w[m] = IF m = n THEN u[m] + d ELSE u[m]
    BY <1>1, <1>2, <1>3
  <2> HIDE DEF u, w, d
  <2>2. SumFunctionOnSet(w, Names) = SumFunctionOnSet(u, Names) + d
    BY <2>1, BuilderConstantsOK, SumPoint
  <2> QED
    BY <2>2 DEF u, w, d
<1>5. SumFunctionOnSet([m \in Names |-> UnitsTaken(ls[m])], Names) = SumFunctionOnSet([m \in Names |-> UnitsTaken(lpars[m])], Names) + (UnitsTaken(l) - UnitsTaken(lpars[n]))
  <2> DEFINE u == [m \in Names |-> UnitsTaken(lpars[m])]
  <2> DEFINE w == [m \in Names |-> UnitsTaken(ls[m])]
  <2> DEFINE d == UnitsTaken(l) - UnitsTaken(lpars[n])
  <2>1. d \in Int /\ (\A m \in Names : u[m] \in Int) /\ \A m \in Names : w[m] = IF m = n THEN u[m] + d ELSE u[m]
    BY <1>1, <1>2, <1>3
  <2> HIDE DEF u, w, d
  <2>2. SumFunctionOnSet(w, Names) = SumFunctionOnSet(u, Names) + d
    BY <2>1, BuilderConstantsOK, SumPoint
  <2> QED
    BY <2>2 DEF u, w, d
<1>6. /\ Taken(ls).mem = SumFunctionOnSet([m \in Names |-> MemTaken(ls[m])], Names)
      /\ Taken(ls).units = SumFunctionOnSet([m \in Names |-> UnitsTaken(ls[m])], Names)
  BY DEF Taken, SumFunction
<1> QED
  BY <1>4, <1>5, <1>6 DEF ls

\* With the etag of the partition and the host as it was read, what was validated fits.
LEMMA ValidatedIsTaken ==
  ASSUME BuilderInv, FitsInv, NEW t \in Callers, bpc[t] = "post", EtagOK(bcall[t]), bcall[t].host.ver = used.ver
  PROVE  LET now == [lpars EXCEPT ![bcall[t].name] = Accepted(bcall[t])]
         IN  ~(Taken(now).mem > Host.mem \/ Taken(now).units > Host.units)
<1> DEFINE c == bcall[t]
           n == c.name
           l == Accepted(c)
<1>1. NewFits(c) /\ ReadFits(c) /\ PassesValidation(c) /\ CallerTyped(t) /\ ServerTyped /\ AccountIsRight /\ DOMAIN lpars = Names
  BY DEF BuilderInv, CallerFits, FitsInv, ServerFits
<1>2. c.host = used /\ TypedLpar(c.new)
  BY <1>1 DEF CallerTyped, HostRead
<1>3. n \in Names /\ c.cur = lpars[n]
  BY <1>1 DEF ReadFits, EtagOK
<1>4. l.mem = c.new.mem /\ l.vcpu = c.new.vcpu /\ l.units = c.new.units /\ l.ded = c.new.ded /\ LparFits(l)
  BY <1>1, AcceptedFits DEF NewFits, LparFields
<1>5. l # NoLpar => TypedLpar(l)
  BY <1>2, <1>4 DEF TypedLpar
<1>6. MemTaken(lpars[n]) \in Int /\ UnitsTaken(lpars[n]) \in Int
  BY <1>1, <1>3, TakenTyped DEF ServerTyped
<1>7. /\ c.new.mem.des - MemTaken(lpars[n]) <= Host.mem - used.mem
      /\ ProcsOf(c.new) - UnitsTaken(lpars[n]) <= Host.units - used.units
      /\ c.new.mem.des \in Int /\ ProcsOf(c.new) \in Int
  <2>0. c.new.mem.des \in Int /\ ProcsOf(c.new) \in Int
    BY <1>2 DEF TypedLpar, ProcsOf
  <2>1. CASE c.cur = NoLpar
    <3>1. MemTaken(lpars[n]) = 0 /\ UnitsTaken(lpars[n]) = 0
      BY <1>3, <2>1 DEF MemTaken, UnitsTaken
    <3>2. ProcsOf(c.new) <= Host.units - used.units /\ c.new.mem.des <= Host.mem - used.mem
      BY <1>1, <1>2, <2>1 DEF PassesValidation, Fits, FreeMem, FreeUnits
    <3> HIDE DEF c
    <3> QED
      BY <2>0, <3>1, <3>2
  <2>2. CASE c.cur # NoLpar
    <3>1. MemTaken(lpars[n]) = c.cur.mem.des /\ UnitsTaken(lpars[n]) = ProcsOf(c.cur)
      BY <1>3, <2>2 DEF MemTaken, UnitsTaken
    <3>2. ProcDelta(c.new, c.cur) <= Host.units - used.units /\ MemDelta(c.new, c.cur) <= Host.mem - used.mem
      BY <1>1, <1>2, <2>2 DEF PassesValidation, Fits, FreeMem, FreeUnits
    <3> QED
      BY <2>0, <3>1, <3>2 DEF ProcDelta, MemDelta
  <2> QED
    BY <2>1, <2>2
<1>8. MemTaken(l) \in {0, c.new.mem.des} /\ UnitsTaken(l) \in {0, ProcsOf(c.new)} /\ (l # NoLpar => MemTaken(l) = c.new.mem.des /\ UnitsTaken(l) = ProcsOf(c.new))
  BY <1>4 DEF MemTaken, UnitsTaken, ProcsOf
<1>9. used.mem <= Host.mem /\ used.units <= Host.units
  BY <1>1 DEF AccountIsRight
<1>10. used.mem \in Int /\ used.units \in Int
  BY <1>1, AccountTyped
<1>12. MemTaken(lpars[n]) >= 0 /\ UnitsTaken(lpars[n]) >= 0
  BY <1>1, <1>3, TakenIsNatural DEF ServerTyped, BuilderInv, ServerFits
<1>13. l = NoLpar => MemTaken(l) = 0 /\ UnitsTaken(l) = 0
  BY DEF MemTaken, UnitsTaken
<1>11. /\ Taken([lpars EXCEPT ![n] = l]).mem = used.mem + (MemTaken(l) - MemTaken(lpars[n]))
       /\ Taken([lpars EXCEPT ![n] = l]).units = used.units + (UnitsTaken(l) - UnitsTaken(lpars[n]))
  <2> HIDE DEF c, n, l
  <2> QED
    BY <1>1, <1>3, <1>5, AccountChanges, ZenonT(60) DEF AccountIsRight
<1>14. Taken([lpars EXCEPT ![n] = l]).mem <= Host.mem /\ Taken([lpars EXCEPT ![n] = l]).units <= Host.units
  <2> HIDE DEF c, n, l
  <2>1. CASE l = NoLpar
    BY <1>6, <1>9, <1>10, <1>11, <1>12, <1>13, <2>1, BuilderConstantsOK
  <2>2. CASE l # NoLpar
    BY <1>6, <1>7, <1>8, <1>10, <1>11, <2>2, BuilderConstantsOK
  <2> QED
    BY <2>1, <2>2
<1>15. Taken([lpars EXCEPT ![n] = l]).mem \in Int /\ Taken([lpars EXCEPT ![n] = l]).units \in Int
  <2> HIDE DEF c, n, l
  <2>1. MemTaken(l) \in Int /\ UnitsTaken(l) \in Int
    BY <1>5, TakenTyped
  <2> QED
    BY <2>1, <1>6, <1>10, <1>11
<1> QED
  BY <1>14, <1>15, BuilderConstantsOK

\* A POST, whatever the server answers, keeps FitsInv.
LEMMA PostTyped ==
  ASSUME BuilderInv, FitsInv, NEW t \in Callers, PostLpar(t)
  PROVE  FitsInv'
<1> DEFINE c == bcall[t]
           l == Accepted(c)
           now == [lpars EXCEPT ![c.name] = l]
<1>1. bpc[t] = "post" /\ BEnds(t) /\ UNCHANGED dict
  BY DEF PostLpar
<1>2. CallerTyped(t)' /\ \A u \in Callers \ {t} : UNCHANGED <<bpc[u], bcall[u]>>
  BY <1>1, EndTyped
<1>3. DictsKept'
  BY <1>1 DEF FitsInv, DictsKept
<1>4. CASE UNCHANGED <<lpars, used, refusals>>
  BY <1>2, <1>3, <1>4, TypedStep
<1>5. CASE /\ EtagOK(c) /\ (Taken(now).mem > Host.mem \/ Taken(now).units > Host.units)
           /\ refusals' = refusals \cup {c.host.ver = used.ver} /\ UNCHANGED <<lpars, used>>
  <2>1. ~(c.host.ver = used.ver)
    BY <1>1, <1>5, ValidatedIsTaken
  <2>2. ValidatedFits'
    BY <1>5, <2>1 DEF FitsInv, ValidatedFits
  <2>3. \A u \in Callers \ {t} : CallerTyped(u)'
    BY <1>2, <1>5 DEF FitsInv, CallerTyped, HostRead
  <2> QED
    BY <1>2, <1>3, <1>5, <2>2, <2>3 DEF FitsInv, ServerTyped, AccountIsRight
<1>6. CASE /\ ~(Taken(now).mem > Host.mem \/ Taken(now).units > Host.units)
           /\ lpars' = now /\ used' = Taken(now) /\ UNCHANGED refusals
  <2>1. ValidatedFits'
    BY <1>6 DEF FitsInv, ValidatedFits
  <2>2. used.ver \in Int /\ used'.ver = used.ver + 1 /\ DOMAIN lpars = Names /\ ServerTyped /\ c.name \in Names
    BY <1>1, <1>6 DEF FitsInv, AccountIsRight, Taken, BuilderInv, ServerFits, CallerFits, ReadFits
  <2>3. \A u \in Callers \ {t} : CallerTyped(u)'
    BY <1>2, <2>2 DEF FitsInv, CallerTyped, HostRead
  <2>4. l # NoLpar => TypedLpar(l)
    <3>1. NewFits(c) /\ TypedLpar(c.new)
      BY <1>1 DEF FitsInv, CallerTyped, BuilderInv, CallerFits
    <3>2. l.mem = c.new.mem /\ l.vcpu = c.new.vcpu /\ l.units = c.new.units
      BY <3>1, AcceptedFits DEF NewFits, LparFields
    <3> QED
      BY <3>1, <3>2 DEF TypedLpar
  <2>5. ServerTyped'
    <3> HIDE DEF l, c
    <3> QED
      BY <1>6, <2>2, <2>4 DEF ServerTyped
  <2>6. AccountIsRight'
    <3>1. /\ used'.mem = SumFunctionOnSet([n \in Names |-> MemTaken(lpars'[n])], Names)
          /\ used'.units = SumFunctionOnSet([n \in Names |-> UnitsTaken(lpars'[n])], Names)
      BY <1>6 DEF Taken, SumFunction
    <3>2. \A n \in Names : MemTaken(lpars'[n]) \in Int /\ UnitsTaken(lpars'[n]) \in Int
      BY <2>5, TakenTyped DEF ServerTyped
    <3>3. used'.mem \in Int /\ used'.units \in Int
      <4> DEFINE u == [n \in Names |-> MemTaken(lpars'[n])]
                 w == [n \in Names |-> UnitsTaken(lpars'[n])]
      <4>1. \A n \in Names : u[n] \in Int /\ w[n] \in Int
        BY <3>2
      <4>2. used'.mem = SumFunctionOnSet(u, Names) /\ used'.units = SumFunctionOnSet(w, Names)
        BY <3>1
      <4> HIDE DEF u, w
      <4> QED
        BY <4>1, <4>2, BuilderConstantsOK, SumType
    <3>4. used'.mem <= Host.mem /\ used'.units <= Host.units
      <4> HIDE DEF now
      <4> QED
        BY <1>6, <3>3, BuilderConstantsOK
    <3>5. AccountIsRight' <=> /\ used'.ver \in Int
                             /\ used'.mem = SumFunctionOnSet([n \in Names |-> MemTaken(lpars'[n])], Names)
                             /\ used'.units = SumFunctionOnSet([n \in Names |-> UnitsTaken(lpars'[n])], Names)
                             /\ used'.mem <= Host.mem /\ used'.units <= Host.units
      BY DEF AccountIsRight, MemTaken, UnitsTaken, ProcsOf
    <3> QED
      BY <2>2, <3>1, <3>4, <3>5
  <2> QED
    BY <1>2, <1>3, <2>1, <2>3, <2>5, <2>6 DEF FitsInv
<1> QED
  BY <1>4, <1>5, <1>6 DEF PostLpar, Accepted

\* Powering a partition on or off keeps FitsInv.
LEMMA PowerStepTyped ==
  ASSUME BuilderInv, FitsInv, NEW n \in Names, PowerChanges(n)
  PROVE  FitsInv'
<1>0. UNCHANGED <<used, dict, bpc, bcall, refusals>> /\ lpars[n] # NoLpar
  BY DEF PowerChanges
<1>1. PICK k : /\ lpars' = [lpars EXCEPT ![n] = k] /\ DOMAIN k = DOMAIN lpars[n]
               /\ \A f \in DOMAIN lpars[n] \ {"state", "rmc", "compat"} : k[f] = lpars[n][f]
  BY PowerKeeps
<1>2. LparFits(lpars[n]) /\ DOMAIN lpars = Names /\ TypedLpar(lpars[n])
  BY <1>0 DEF BuilderInv, ServerFits, FitsInv, ServerTyped
<1>3. k.ded = lpars[n].ded /\ k.mem = lpars[n].mem /\ k.vcpu = lpars[n].vcpu /\ k.units = lpars[n].units
  BY <1>1, <1>2 DEF LparFits, LparFields
<1>4. \A m \in Names : lpars'[m] = IF m = n THEN k ELSE lpars[m]
  BY <1>1, <1>2
<1>5. k # NoLpar
  BY <1>1, <1>2 DEF NoLpar, LparFits, LparFields
<1>6. MemTaken(k) = MemTaken(lpars[n]) /\ UnitsTaken(k) = UnitsTaken(lpars[n])
  BY <1>0, <1>3, <1>5 DEF MemTaken, UnitsTaken, ProcsOf
<1>7. \A m \in Names : MemTaken(lpars'[m]) = MemTaken(lpars[m]) /\ UnitsTaken(lpars'[m]) = UnitsTaken(lpars[m])
  BY <1>4, <1>6
<1>8. AccountIsRight'
  <2>1. /\ [m \in Names |-> MemTaken(lpars'[m])] = [m \in Names |-> MemTaken(lpars[m])]
        /\ [m \in Names |-> UnitsTaken(lpars'[m])] = [m \in Names |-> UnitsTaken(lpars[m])]
    BY <1>7
  <2>2. AccountIsRight' <=> /\ used'.ver \in Int
                           /\ used'.mem = SumFunctionOnSet([m \in Names |-> MemTaken(lpars'[m])], Names)
                           /\ used'.units = SumFunctionOnSet([m \in Names |-> UnitsTaken(lpars'[m])], Names)
                           /\ used'.mem <= Host.mem /\ used'.units <= Host.units
    BY DEF AccountIsRight, MemTaken, UnitsTaken, ProcsOf
  <2>3. AccountIsRight
    BY DEF FitsInv
  <2> QED
    BY <1>0, <2>1, <2>2, <2>3 DEF AccountIsRight
<1>9. ServerTyped'
  <2>1. TypedLpar(k)
    BY <1>2, <1>3 DEF TypedLpar
  <2>2. \A m \in Names : lpars'[m] # NoLpar => TypedLpar(lpars'[m])
    BY <1>4, <2>1 DEF FitsInv, ServerTyped
  <2> QED
    BY <2>2 DEF ServerTyped
<1>10. DictsKept' /\ ValidatedFits' /\ \A t \in Callers : CallerTyped(t)'
  BY <1>0 DEF FitsInv, DictsKept, ValidatedFits, CallerTyped, HostRead
<1> QED
  BY <1>8, <1>9, <1>10 DEF FitsInv

\* Every step of a caller, of the server and of another manager keeps FitsInv.
LEMMA FitsStep == BuilderInv /\ FitsInv /\ [BuilderNext]_builderVars => FitsInv'
<1> SUFFICES ASSUME BuilderInv, FitsInv, [BuilderNext]_builderVars PROVE FitsInv'
  OBVIOUS
<1>1. CASE UNCHANGED builderVars
  <2>1. UNCHANGED <<lpars, lver, used, dict, bpc, bcall, refusals>>
    BY <1>1 DEF builderVars
  <2> QED
    BY <2>1 DEF FitsInv, DictsKept, ServerTyped, AccountIsRight, CallerTyped, HostRead, ValidatedFits
<1> QED
  BY <1>1, ReadsTyped, BuildTyped, ValidateTyped, PostTyped, PowerStepTyped DEF BuilderNext

\* Whatever is built, resized, powered and refused before, a partition that passed the
\* validator makes sense, and the server does not refuse it for want of memory or
\* processors unless the host changed after it was read.
THEOREM ValidationIsEnough == BuilderSpec => []ValidationSuffices
<1>1. BuilderInv /\ FitsInv => ValidationSuffices
  BY DEF BuilderInv, ServerFits, LparFits, LparsAreSound, FitsInv, ValidationSuffices
<1>2. BuilderSpec => []FitsInv
  BY FitsInitial, FitsStep, BuilderInvariant, PTL DEF BuilderSpec
<1> QED
  BY <1>1, <1>2, BuilderInvariant, PTL

-----------------------------------------------------------------------------
(* Metrics.                                                                *)

GuestNames == DOMAIN Guests
Spent(s) == s.util - s.idle
IsEmptyReading(s) == s.util = 0 /\ s.idle = 0
LparIds == {Guests[n].id : n \in GuestNames}
GuestRecords == [where : {"away", "arriving", "here"}, util : Nat, idle : Nat, stay : Nat]
Readings == [id : LparIds, name : GuestNames, util : Nat, idle : Nat, stay : Nat]
SampleRecords == [fw : Int, time : Int, lpars : SUBSET Readings]
\* For each stay of a guest, what its counters would show had it spent nothing here.
Bases == [GuestNames -> [Nat -> Int]]

\* The values of the variables of Metrics.
MetricsTyped ==
  /\ guest \in [GuestNames -> GuestRecords]
  /\ fwCycles \in Int /\ timeCycles \in Int
  /\ samples \in Seq(SampleRecords)
  /\ curSample \in SampleRecords \cup {NoSample} /\ prevSample \in SampleRecords \cup {NoSample}
  /\ curDate \in Nat /\ prevDate \in Nat
  /\ totalUser \in Int /\ strayed \in Int

\* What a guest had spent here, over all its stays, when a reading of it was taken, and
\* by now.
HereAt(b, s) == Spent(s) - b[s.name][s.stay]
HereNow(b, g, n) == Spent(g[n]) - b[n][g[n].stay]

\* A sample has one reading of a guest, of this stay or of an earlier one, and one that
\* is not empty was taken while the guest ran here.
SampleOK(b, g, smp) ==
  /\ \A s, q \in smp.lpars : s.name = q.name => s = q
  /\ \A s \in smp.lpars : s.stay <= g[s.name].stay
  /\ \A s \in smp.lpars : ~IsEmptyReading(s) =>
       /\ s.stay = g[s.name].stay => g[s.name].where # "arriving"
       /\ 0 <= HereAt(b, s) /\ HereAt(b, s) <= HereNow(b, g, s.name)
\* The readings of a sample are not above those that a later one has of the same stay.
NotAfter(x, y) == \A p \in x.lpars, s \in y.lpars :
  p.name = s.name /\ p.stay = s.stay /\ ~IsEmptyReading(p) => ~IsEmptyReading(s) /\ Spent(p) <= Spent(s)
\* What was counted of each guest it had spent here when the sample was taken.
BelowReadings(c, b, smp) == \A s \in smp.lpars : ~IsEmptyReading(s) => c[s.name] <= HereAt(b, s)

\* The cycles that were counted of each guest, those between two stays apart: they make
\* up the total, and the sample to be subtracted next holds them all.
Counted(c, b) ==
  /\ totalUser - strayed = SumFunctionOnSet(c, GuestNames)
  /\ \A n \in GuestNames : 0 <= c[n] /\ c[n] <= HereNow(b, guest, n)
  /\ samples # <<>> => BelowReadings(c, b, samples[1])
  /\ curSample # NoSample => BelowReadings(c, b, curSample)
  /\ mpc = "latest" /\ prevSample # NoSample => BelowReadings(c, b, prevSample)
  /\ curDate = 0 => \A n \in GuestNames : c[n] = 0

SpentHere(b, g) == [n \in GuestNames |-> HereNow(b, g, n)]

SamplesInOrder(b) ==
  /\ \A i \in 1 .. Len(samples) : SampleOK(b, guest, samples[i]) /\ NotAfter(samples[i], samples[1])
  /\ \A smp \in {curSample, prevSample} : smp # NoSample => SampleOK(b, guest, smp) /\ (samples # <<>> => NotAfter(smp, samples[1]))

\* The inductive invariant of Metrics, for the bases b and the counts c.
MetricsInvFor(b, c) ==
  /\ MetricsTyped
  /\ SamplesInOrder(b)
  /\ ranHere = SumFunctionOnSet(SpentHere(b, guest), GuestNames)
  /\ mpc = "second latest" => curDate = 0
  /\ Counted(c, b)
MetricsInv == \E b \in Bases, c \in [GuestNames -> Int] : MetricsInvFor(b, c)

\* The guests are finitely many.
LEMMA NamesFinite == IsFiniteSet(GuestNames)
  BY MetricsConstantsOK DEF GuestNames

\* What was spent here is a number.
LEMMA HereIsInt ==
  ASSUME NEW b \in Bases
  PROVE  /\ \A s \in Readings : Spent(s) \in Int /\ HereAt(b, s) \in Int
         /\ \A g \in [GuestNames -> GuestRecords] : \A n \in GuestNames : Spent(g[n]) \in Int /\ HereNow(b, g, n) \in Int
<1>1. ASSUME NEW s \in Readings PROVE Spent(s) \in Int /\ HereAt(b, s) \in Int
  <2>1. s.name \in GuestNames /\ s.stay \in Nat /\ s.util \in Nat /\ s.idle \in Nat
    BY DEF Readings
  <2>2. b[s.name][s.stay] \in Int
    BY <2>1 DEF Bases
  <2> QED
    BY <2>1, <2>2 DEF Spent, HereAt
<1>2. ASSUME NEW g \in [GuestNames -> GuestRecords], NEW n \in GuestNames PROVE Spent(g[n]) \in Int /\ HereNow(b, g, n) \in Int
  <2>1. g[n].stay \in Nat /\ g[n].util \in Nat /\ g[n].idle \in Nat
    BY DEF GuestRecords
  <2>2. b[n][g[n].stay] \in Int
    BY <2>1 DEF Bases
  <2> QED
    BY <2>1, <2>2 DEF Spent, HereNow
<1> QED
  BY <1>1, <1>2

\* Before the first refresh MetricsInv holds: nothing was spent here, and nothing counted.
LEMMA MetricsInitInv == ASSUME MetricsInit PROVE MetricsInv
<1> DEFINE z == [n \in GuestNames |-> 0]
<1> DEFINE b == [n \in GuestNames |-> [k \in Nat |-> Guests[n].util - Guests[n].idle]]
<1>0. \A n \in GuestNames : Guests[n].util \in Nat /\ Guests[n].idle \in Nat
  BY MetricsConstantsOK DEF GuestNames
<1>r. \A n \in GuestNames : guest[n] = [where |-> "away", util |-> Guests[n].util, idle |-> Guests[n].idle, stay |-> 0]
  BY DEF GuestNames, MetricsInit
<1> HIDE DEF z, b
<1>1. MetricsTyped
  <2>1. guest \in [GuestNames -> GuestRecords]
    BY <1>0 DEF GuestRecords, GuestNames, MetricsInit
  <2> QED
    BY <2>1 DEF MetricsTyped, MetricsInit
<1>2. b \in Bases
  <2>1. \A n \in GuestNames : Guests[n].util - Guests[n].idle \in Int
    BY <1>0
  <2>2. \A n \in GuestNames : [k \in Nat |-> Guests[n].util - Guests[n].idle] \in [Nat -> Int]
    BY <2>1
  <2> QED
    BY <2>2, Zenon DEF Bases, b
<1>3. \A n \in GuestNames : HereNow(b, guest, n) = 0
  <2> SUFFICES ASSUME NEW n \in GuestNames PROVE Spent(guest[n]) - b[n][guest[n].stay] = 0
    BY DEF HereNow
  <2>1. b[n][0] = Guests[n].util - Guests[n].idle
    BY DEF b
  <2>2. guest[n].stay = 0 /\ guest[n].util = Guests[n].util /\ guest[n].idle = Guests[n].idle
    <3>1. guest[n] = [where |-> "away", util |-> Guests[n].util, idle |-> Guests[n].idle, stay |-> 0]
      BY <1>r, Zenon
    <3> QED
      BY <3>1
  <2>4. Guests[n].util \in Nat /\ Guests[n].idle \in Nat
    BY <1>0
  <2>5. Spent(guest[n]) = Guests[n].util - Guests[n].idle
    BY <2>2, Zenon DEF Spent
  <2>3. Spent(guest[n]) = Guests[n].util - Guests[n].idle /\ Guests[n].util - Guests[n].idle \in Int
    BY <2>4, <2>5
  <2> QED
    BY <2>1, <2>2, <2>3
<1>4. SumFunctionOnSet(z, GuestNames) = 0
  <2>1. \A n \in GuestNames : z[n] = IF n \in {} THEN 1 ELSE 0
    BY DEF z
  <2>2. SumFunctionOnSet(z, GuestNames) = Cardinality(GuestNames \cap {})
    BY <2>1, NamesFinite, SumIndicator
  <2>3. GuestNames \cap {} = {} /\ Cardinality({}) = 0
    BY FS_EmptySet
  <2> QED
    BY <2>2, <2>3
<1>5. SpentHere(b, guest) = z
  BY <1>3 DEF SpentHere, z
<1>6. z \in [GuestNames -> Int] /\ \A n \in GuestNames : z[n] = 0
  BY DEF z
<1>7. Counted(z, b)
  BY <1>3, <1>4, <1>6 DEF Counted, MetricsInit
<1>8. SamplesInOrder(b)
  BY DEF SamplesInOrder, MetricsInit
<1>9. MetricsInvFor(b, z)
  BY <1>1, <1>4, <1>5, <1>7, <1>8 DEF MetricsInvFor, MetricsInit
<1> QED
  BY <1>2, <1>6, <1>9 DEF MetricsInv

\* The readings of a sample are finitely many, one for each name.
LEMMA ReadingsByName ==
  ASSUME NEW smp \in SampleRecords, \A s, q \in smp.lpars : s.name = q.name => s = q
  PROVE  IsFiniteSet(smp.lpars) /\ [s \in smp.lpars |-> s.name] \in [smp.lpars -> GuestNames]
<1> DEFINE h == [s \in smp.lpars |-> s.name]
<1>1. h \in Injection(smp.lpars, GuestNames)
  BY DEF SampleRecords, Readings, Injection, IsInjective
<1>3. h \in [smp.lpars -> GuestNames]
  BY DEF SampleRecords, Readings
<1> HIDE DEF h
<1>2. IsFiniteSet(smp.lpars)
  BY <1>1, NamesFinite, FS_Injection
<1> QED
  BY <1>2, <1>3 DEF h

\* DeltaUser, when there is a previous sample of the guest that is not empty.
LEMMA DeltaUserCases ==
  ASSUME NEW s \in Readings, NEW prev \in SUBSET Readings
  PROVE  /\ DeltaUser(s, prev) \in Int
         /\ \/ DeltaUser(s, prev) = 0
            \/ \E p \in FindPrev(s, prev) : p.name = s.name /\ ~IsEmptyReading(p) /\ DeltaUser(s, prev) = Spent(s) - Spent(p)
<1> DEFINE known == {p \in FindPrev(s, prev) : ~(p.util = 0 /\ p.idle = 0)}
<1> DEFINE q == CHOOSE q \in known : TRUE
<1>1. CASE known = {}
  BY <1>1 DEF DeltaUser
<1>2. CASE known # {}
  <2>1. q \in known
    BY <1>2
  <2>2. DeltaUser(s, prev) = (s.util - s.idle) - (q.util - q.idle)
    BY <1>2 DEF DeltaUser
  <2>3. q \in FindPrev(s, prev) /\ q \in prev /\ q.name = s.name /\ ~IsEmptyReading(q)
    BY <2>1 DEF FindPrev, IsEmptyReading
  <2> HIDE DEF q
  <2>4. s.util \in Nat /\ s.idle \in Nat /\ q.util \in Nat /\ q.idle \in Nat
    BY <2>3 DEF Readings
  <2> QED
    BY <2>2, <2>3, <2>4 DEF Spent
<1> QED
  BY <1>1, <1>2

\* What a refresh that finds a sample counts: a delta for each guest, at most up to its
\* reading, and those between the samples of two stays.
LEMMA CountKeepsWithin ==
  ASSUME NEW b \in Bases, NEW c \in [GuestNames -> Int], MetricsInvFor(b, c), mpc = "latest", samples # <<>>
  PROVE  LET prev == IF prevSample = NoSample THEN {} ELSE prevSample.lpars
             user == DeltaProc(samples[1].lpars, prev)
             stray == StrayDelta(samples[1].lpars, prev)
         IN  /\ user \in Int /\ stray \in Int
             /\ \E d \in [GuestNames -> Int] :
                  /\ SumFunctionOnSet(d, GuestNames) = SumFunctionOnSet(c, GuestNames) + (user - stray)
                  /\ \A n \in GuestNames : 0 <= d[n] /\ d[n] <= HereNow(b, guest, n)
                  /\ BelowReadings(d, b, samples[1])
<1> DEFINE smp == samples[1]
<1> DEFINE prev == IF prevSample = NoSample THEN {} ELSE prevSample.lpars
<1> DEFINE all == [s \in smp.lpars |-> DeltaUser(s, prev)]
<1> DEFINE stray == [s \in smp.lpars |-> IF OfOneStay(s, prev) THEN 0 ELSE DeltaUser(s, prev)]
<1> DEFINE w == [s \in smp.lpars |-> IF OfOneStay(s, prev) THEN DeltaUser(s, prev) ELSE 0]
<1> DEFINE h == [s \in smp.lpars |-> s.name]
<1> DEFINE v == [n \in GuestNames |-> IF \E s \in smp.lpars : h[s] = n THEN w[CHOOSE s \in smp.lpars : h[s] = n] ELSE 0]
<1> DEFINE d == [n \in GuestNames |-> c[n] + v[n]]
<1>0. MetricsTyped /\ SamplesInOrder(b) /\ Counted(c, b)
  BY DEF MetricsInvFor
<1>1. smp \in SampleRecords /\ SampleOK(b, guest, smp) /\ 1 \in 1 .. Len(samples) /\ smp.lpars \subseteq Readings
  <2>1. samples \in Seq(SampleRecords) /\ samples # <<>>
    BY <1>0 DEF MetricsTyped
  <2>2. samples[1] \in SampleRecords /\ 1 \in 1 .. Len(samples)
    BY <2>1
  <2> QED
    BY <1>0, <2>2 DEF SamplesInOrder, SampleRecords
<1>2. prev \in SUBSET Readings
  BY <1>0 DEF MetricsTyped, SampleRecords
<1>3. \A p \in prev : BelowReadings(c, b, prevSample) /\ NotAfter(prevSample, smp) /\ p \in prevSample.lpars
  BY <1>0 DEF Counted, SamplesInOrder
<1>p. \A s \in smp.lpars : DeltaUser(s, prev) \in Int
  <2> HIDE DEF prev, smp
  <2> QED
    BY <1>1, <1>2, DeltaUserCases
<1>4. ASSUME NEW s \in smp.lpars
      PROVE  /\ w[s] \in Int /\ 0 <= w[s] /\ s.name \in GuestNames
             /\ c[s.name] + w[s] <= HereNow(b, guest, s.name)
             /\ ~IsEmptyReading(s) => c[s.name] + w[s] <= HereAt(b, s)
  <2>0. s \in Readings /\ s.name \in GuestNames /\ Spent(s) \in Int /\ HereAt(b, s) \in Int
    BY <1>1, HereIsInt DEF Readings
  <2>1. c[s.name] \in Int /\ HereNow(b, guest, s.name) \in Int
    BY <1>0, <2>0, HereIsInt DEF MetricsTyped
  <2>2. c[s.name] <= HereNow(b, guest, s.name)
    BY <1>0, <2>0 DEF Counted
  <2>3. ~IsEmptyReading(s) => c[s.name] <= HereAt(b, s) /\ HereAt(b, s) <= HereNow(b, guest, s.name)
    BY <1>0, <1>1 DEF Counted, BelowReadings, SampleOK
  <2>4. w[s] = IF OfOneStay(s, prev) THEN DeltaUser(s, prev) ELSE 0
    OBVIOUS
  <2> HIDE DEF smp, prev, w
  <2>5. CASE w[s] = 0
    BY <2>0, <2>1, <2>2, <2>3, <2>5
  <2>6. ASSUME OfOneStay(s, prev), NEW p \in FindPrev(s, prev), p.name = s.name, ~IsEmptyReading(p), w[s] = Spent(s) - Spent(p)
        PROVE  /\ w[s] \in Int /\ 0 <= w[s]
               /\ c[s.name] + w[s] <= HereNow(b, guest, s.name)
               /\ c[s.name] + w[s] <= HereAt(b, s)
    <3>1. p \in prev /\ p.stay = s.stay
      BY <2>6 DEF OfOneStay, FindPrev
    <3>2. Spent(p) \in Int /\ HereAt(b, p) \in Int
      BY <1>2, <3>1, HereIsInt
    <3>3. Spent(p) <= Spent(s) /\ ~IsEmptyReading(s)
      BY <1>3, <2>6, <3>1 DEF NotAfter
    <3>4. c[s.name] <= HereAt(b, p)
      BY <1>3, <2>6, <3>1 DEF BelowReadings
    <3>5. HereAt(b, s) - HereAt(b, p) = Spent(s) - Spent(p)
      <4>1. b[s.name][s.stay] \in Int
        BY <2>0 DEF Bases, Readings
      <4>2. HereAt(b, p) = Spent(p) - b[s.name][s.stay]
        BY <2>6, <3>1 DEF HereAt
      <4> QED
        BY <2>0, <3>2, <4>1, <4>2 DEF HereAt
    <3> QED
      BY <2>0, <2>1, <2>3, <2>6, <3>2, <3>3, <3>4, <3>5
  <2>7. DeltaUser(s, prev) = 0 => w[s] = 0
    BY <2>4
  <2> QED
    BY <2>0, <2>4, <2>5, <2>6, <2>7, <1>2, DeltaUserCases
<1>5. \A s, q \in smp.lpars : s.name = q.name => s = q
  BY <1>1 DEF SampleOK
<1>6. IsFiniteSet(smp.lpars) /\ h \in [smp.lpars -> GuestNames]
  <2> HIDE DEF smp
  <2> QED
    BY <1>1, <1>5, ReadingsByName
<1>7. \A s \in smp.lpars : h[s] = s.name /\ v[s.name] = w[s] /\ s.name \in GuestNames
  <2> SUFFICES ASSUME NEW s \in smp.lpars PROVE h[s] = s.name /\ v[s.name] = w[s] /\ s.name \in GuestNames
    OBVIOUS
  <2>1. \A q \in smp.lpars : h[q] = q.name
    OBVIOUS
  <2>2. s.name \in GuestNames
    BY <1>4
  <2> HIDE DEF smp, w, h
  <2>3. (CHOOSE q \in smp.lpars : h[q] = s.name) = s
    BY <2>1, <1>5
  <2> QED
    BY <2>1, <2>2, <2>3
<1>8. \A n \in GuestNames : v[n] \in Int /\ 0 <= v[n] /\ (v[n] = 0 \/ \E s \in smp.lpars : s.name = n /\ v[n] = w[s])
  <2> SUFFICES ASSUME NEW n \in GuestNames PROVE v[n] \in Int /\ 0 <= v[n] /\ (v[n] = 0 \/ \E s \in smp.lpars : s.name = n /\ v[n] = w[s])
    OBVIOUS
  <2>1. CASE \E s \in smp.lpars : h[s] = n
    <3>1. PICK s \in smp.lpars : h[s] = n
      BY <2>1
    <3> HIDE DEF smp, w, h, v
    <3> QED
      BY <3>1, <1>7, <1>4
  <2>2. CASE ~\E s \in smp.lpars : h[s] = n
    <3>1. v[n] = 0
      BY <2>2
    <3> HIDE DEF smp, w, h, v
    <3> QED
      BY <3>1
  <2> QED
    BY <2>1, <2>2
<1>9. /\ SumFunctionOnSet(v, GuestNames) = DeltaProc(smp.lpars, prev) - StrayDelta(smp.lpars, prev)
      /\ DeltaProc(smp.lpars, prev) \in Int /\ StrayDelta(smp.lpars, prev) \in Int
  <2>1. \A n \in GuestNames : v[n] = IF \E s \in smp.lpars : h[s] = n THEN w[CHOOSE s \in smp.lpars : h[s] = n] ELSE 0
    OBVIOUS
  <2>2. \A s, q \in smp.lpars : h[s] = h[q] => s = q
    BY <1>5, <1>7
  <2>3. DeltaProc(smp.lpars, prev) = SumFunctionOnSet(all, smp.lpars) /\ StrayDelta(smp.lpars, prev) = SumFunctionOnSet(stray, smp.lpars)
    BY DEF DeltaProc, StrayDelta, SumFunction
  <2>4. \A s \in smp.lpars : w[s] \in Int
    BY <1>4
  <2>5. \A s \in smp.lpars : stray[s] \in Int /\ all[s] \in Int /\ all[s] = w[s] + stray[s]
    <3> SUFFICES ASSUME NEW s \in smp.lpars PROVE stray[s] \in Int /\ all[s] \in Int /\ all[s] = w[s] + stray[s]
      OBVIOUS
    <3>1. /\ all[s] = DeltaUser(s, prev)
          /\ stray[s] = IF OfOneStay(s, prev) THEN 0 ELSE DeltaUser(s, prev)
          /\ w[s] = IF OfOneStay(s, prev) THEN DeltaUser(s, prev) ELSE 0
      OBVIOUS
    <3> HIDE DEF all, stray, w, smp, prev
    <3> QED
      BY <1>p, <3>1
  <2> DEFINE R == smp.lpars
  <2> HIDE DEF R, w, h, v, all, stray
  <2>6. IsFiniteSet(R) /\ IsFiniteSet(GuestNames) /\ h \in [R -> GuestNames]
    BY <1>6, NamesFinite DEF R
  <2>7. SumFunctionOnSet(v, GuestNames) = SumFunctionOnSet(w, R)
    <3>2. \A s, q \in R : h[s] = h[q] => s = q
      BY <2>2 DEF R
    <3>3. \A s \in R : w[s] \in Int
      BY <2>4 DEF R
    <3>4. \A n \in GuestNames : v[n] = IF \E s \in R : h[s] = n THEN w[CHOOSE s \in R : h[s] = n] ELSE 0
      BY <2>1 DEF R
    <3> HIDE DEF smp, prev, d
    <3> QED
      BY <2>6, <3>2, <3>3, <3>4, SumByName
  <2>8. \A s \in R : w[s] \in Int /\ stray[s] \in Int /\ all[s] = w[s] + stray[s]
    BY <2>4, <2>5 DEF R
  <2>9. SumFunctionOnSet(all, R) = SumFunctionOnSet(w, R) + SumFunctionOnSet(stray, R)
    BY <2>6, <2>8, SumAdd
  <2>10. SumFunctionOnSet(w, R) \in Int /\ SumFunctionOnSet(stray, R) \in Int
    BY <2>6, <2>8, SumType
  <2>11. DeltaProc(smp.lpars, prev) = SumFunctionOnSet(all, R) /\ StrayDelta(smp.lpars, prev) = SumFunctionOnSet(stray, R)
    BY <2>3 DEF R
  <2> HIDE DEF smp, prev
  <2> QED
    BY <2>7, <2>9, <2>10, <2>11
<1>10. \A n \in GuestNames : c[n] \in Int /\ d[n] = c[n] + v[n]
  OBVIOUS
<1>11. d \in [GuestNames -> Int]
  <2> HIDE DEF v
  <2> QED
    BY <1>8
<1> HIDE DEF v, d, w, smp, h, prev, all, stray
<1>12. SumFunctionOnSet(d, GuestNames) = SumFunctionOnSet(c, GuestNames) + SumFunctionOnSet(v, GuestNames)
  <2>1. \A n \in GuestNames : c[n] \in Int /\ v[n] \in Int /\ d[n] = c[n] + v[n]
    BY <1>8, <1>10
  <2> QED
    BY <2>1, NamesFinite, SumAdd
<1>13. \A n \in GuestNames : 0 <= d[n] /\ d[n] <= HereNow(b, guest, n)
  <2> SUFFICES ASSUME NEW n \in GuestNames PROVE 0 <= d[n] /\ d[n] <= HereNow(b, guest, n)
    OBVIOUS
  <2>1. 0 <= c[n] /\ c[n] <= HereNow(b, guest, n)
    BY <1>0 DEF Counted
  <2> QED
    BY <1>4, <1>8, <1>10, <2>1
<1>14. BelowReadings(d, b, smp)
  BY <1>4, <1>7, <1>10 DEF BelowReadings
<1> QED
  BY <1>9, <1>11, <1>12, <1>13, <1>14 DEF smp, prev

\* The first half of a refresh moves the sample to prev_phyp.
LEMMA RefreshKeeps ==
  ASSUME NEW b \in Bases, NEW c \in [GuestNames -> Int], MetricsInvFor(b, c), Refresh
  PROVE  MetricsInvFor(b, c)'
<1> USE DEF Refresh, platformVars, countVars
<1>1. MetricsTyped'
  BY DEF MetricsInvFor, MetricsTyped
<1>2. SamplesInOrder(b)'
  BY DEF MetricsInvFor, SamplesInOrder
<1>3. Counted(c, b)'
  BY DEF MetricsInvFor, Counted
<1> QED
  BY <1>1, <1>2, <1>3 DEF MetricsInvFor

\* The first refresh takes the second latest sample of the feed, if there is one.
LEMMA SeedPrevKeeps ==
  ASSUME NEW b \in Bases, NEW c \in [GuestNames -> Int], MetricsInvFor(b, c), SeedPrev
  PROVE  MetricsInvFor(b, c)'
<1>c. /\ UNCHANGED <<guest, fwCycles, timeCycles, samples, ranHere, curSample, curDate, totalUser, strayed>>
      /\ prevSample' = LatestStats(2) /\ prevDate' = 1 /\ mpc = "second latest" /\ mpc' = "latest"
  BY DEF SeedPrev, platformVars, countVars
<1>a. Len(samples) \in Nat /\ samples \in Seq(SampleRecords)
  <2>1. samples \in Seq(SampleRecords)
    BY DEF MetricsInvFor, MetricsTyped
  <2> QED
    BY <2>1
<1>b. prevSample' = NoSample \/ (Len(samples) >= 2 /\ prevSample' = samples[2] /\ 2 \in 1 .. Len(samples) /\ samples[2] \in SampleRecords)
  <2>1. CASE Len(samples) >= 2
    <3>1. samples[2] \in SampleRecords /\ 2 \in 1 .. Len(samples)
      BY <1>a, <2>1
    <3> QED
      BY <1>c, <2>1, <3>1 DEF LatestStats
  <2>2. CASE ~(Len(samples) >= 2)
    BY <1>c, <2>2 DEF LatestStats
  <2> QED
    BY <2>1, <2>2
<1>1. MetricsTyped'
  BY <1>b, <1>c DEF MetricsInvFor, MetricsTyped
<1>2. SamplesInOrder(b)'
  BY <1>b, <1>c DEF MetricsInvFor, SamplesInOrder
<1>3. Counted(c, b)'
  <2>1. \A n \in GuestNames : c[n] = 0
    BY <1>c DEF MetricsInvFor, Counted
  <2>2. prevSample' # NoSample => BelowReadings(c, b, prevSample')
    <3> SUFFICES ASSUME prevSample' = samples[2], 2 \in 1 .. Len(samples), samples[2] \in SampleRecords, NEW s \in samples[2].lpars, ~IsEmptyReading(s)
                 PROVE  c[s.name] <= HereAt(b, s)
      BY <1>b DEF BelowReadings
    <3>1. 0 <= HereAt(b, s)
      BY DEF MetricsInvFor, SamplesInOrder, SampleOK
    <3>2. s.name \in GuestNames
      BY DEF SampleRecords, Readings
    <3> QED
      BY <3>1, <3>2, <2>1
  <2> QED
    BY <1>c, <2>2 DEF MetricsInvFor, Counted
<1> QED
  BY <1>c, <1>1, <1>2, <1>3 DEF MetricsInvFor

\* The later of two dates is one of them.
LEMMA MaxOfTwo == ASSUME NEW a \in Nat, NEW b \in Nat PROVE Max({a, b}) \in {a, b}
<1>1. \E x \in {a, b} : \A y \in {a, b} : x >= y
  <2>1. CASE a >= b
    BY <2>1
  <2>2. CASE b >= a
    BY <2>2
  <2> QED
    BY <2>1, <2>2
<1> QED
  BY <1>1 DEF Max

\* A refresh that reads the feed adds the deltas of the guests.
LEMMA FetchKeeps ==
  ASSUME NEW b \in Bases, NEW c \in [GuestNames -> Int], MetricsInvFor(b, c), Fetch
  PROVE  \E d \in [GuestNames -> Int] : MetricsInvFor(b, d)'
<1>a. Len(samples) \in Nat /\ samples \in Seq(SampleRecords) /\ totalUser \in Int /\ strayed \in Int
  <2>1. samples \in Seq(SampleRecords) /\ totalUser \in Int /\ strayed \in Int
    BY DEF MetricsInvFor, MetricsTyped
  <2> QED
    BY <2>1
<1>b. UNCHANGED <<guest, fwCycles, timeCycles, samples, ranHere, prevSample, prevDate>> /\ mpc' = "idle" /\ mpc = "latest"
  BY DEF Fetch, platformVars
<1>c. curDate' \in Nat /\ curDate' # 0
  <2>1. curDate \in Nat /\ prevDate \in Nat
    BY DEF MetricsInvFor, MetricsTyped
  <2>2. curDate' = Max({curDate, prevDate}) + 1
    BY DEF Fetch
  <2>3. Max({curDate, prevDate}) \in {curDate, prevDate}
    BY <2>1, MaxOfTwo
  <2> HIDE DEF Max
  <2> QED
    BY <2>1, <2>2, <2>3
<1>d. curSample' = NoSample \/ (samples # <<>> /\ curSample' = samples[1] /\ 1 \in 1 .. Len(samples) /\ samples[1] \in SampleRecords)
  BY <1>a DEF Fetch, LatestStats
<1>2. SamplesInOrder(b)'
  BY <1>b, <1>d DEF MetricsInvFor, SamplesInOrder
<1>3. totalUser' \in Int /\ strayed' \in Int /\ \E d \in [GuestNames -> Int] : Counted(d, b)'
  <2>1. CASE curSample' = NoSample
    <3>1. totalUser' = totalUser /\ strayed' = strayed
      BY <2>1 DEF Fetch
    <3>2. Counted(c, b)'
      BY <1>b, <1>c, <2>1, <3>1 DEF MetricsInvFor, Counted
    <3> QED
      BY <1>a, <3>1, <3>2
  <2>2. CASE curSample' # NoSample
    <3> DEFINE prev == IF prevSample = NoSample THEN {} ELSE prevSample.lpars
    <3> DEFINE user == DeltaProc(samples[1].lpars, prev)
    <3> DEFINE stray == StrayDelta(samples[1].lpars, prev)
    <3>1. totalUser' = totalUser + user /\ strayed' = strayed + stray
      BY <2>2, <1>d DEF Fetch, CountCycles
    <3>2. samples # <<>>
      BY <1>d, <2>2
    <3>3. /\ user \in Int /\ stray \in Int
          /\ \E d \in [GuestNames -> Int] :
               /\ SumFunctionOnSet(d, GuestNames) = SumFunctionOnSet(c, GuestNames) + (user - stray)
               /\ \A n \in GuestNames : 0 <= d[n] /\ d[n] <= HereNow(b, guest, n)
               /\ BelowReadings(d, b, samples[1])
      BY <1>b, <3>2, CountKeepsWithin
    <3> HIDE DEF user, stray
    <3>4. PICK d \in [GuestNames -> Int] :
               /\ SumFunctionOnSet(d, GuestNames) = SumFunctionOnSet(c, GuestNames) + (user - stray)
               /\ \A n \in GuestNames : 0 <= d[n] /\ d[n] <= HereNow(b, guest, n)
               /\ BelowReadings(d, b, samples[1])
      BY <3>3
    <3>5. totalUser - strayed = SumFunctionOnSet(c, GuestNames)
      BY DEF MetricsInvFor, Counted
    <3>6. totalUser' - strayed' = SumFunctionOnSet(d, GuestNames)
      BY <1>a, <3>1, <3>3, <3>4, <3>5
    <3>7. Counted(d, b)'
      BY <1>b, <1>c, <1>d, <2>2, <3>4, <3>6 DEF Counted
    <3> QED
      BY <1>a, <3>1, <3>3, <3>7
  <2> QED
    BY <2>1, <2>2
<1>4. MetricsTyped'
  BY <1>b, <1>c, <1>d, <1>3 DEF MetricsInvFor, MetricsTyped
<1>5. (ranHere = SumFunctionOnSet(SpentHere(b, guest), GuestNames))' /\ (mpc = "second latest" => curDate = 0)'
  BY <1>b DEF MetricsInvFor
<1> QED
  BY <1>2, <1>3, <1>4, <1>5 DEF MetricsInvFor

\* A failed query and the passing of time change no cycles.
LEMMA WaitKeeps ==
  ASSUME NEW b \in Bases, NEW c \in [GuestNames -> Int], MetricsInvFor(b, c), QueryFails \/ DeltaPasses \/ UNCHANGED metricVars
  PROVE  MetricsInvFor(b, c)'
<1>b. /\ UNCHANGED <<guest, fwCycles, timeCycles, samples, ranHere, prevSample, prevDate, curSample, curDate, totalUser, strayed>>
      /\ mpc' = "idle" \/ mpc' = mpc
  BY DEF QueryFails, DeltaPasses, metricVars, platformVars, countVars
<1>1. MetricsTyped'
  BY <1>b DEF MetricsInvFor, MetricsTyped
<1>2. SamplesInOrder(b)'
  BY <1>b DEF MetricsInvFor, SamplesInOrder
<1>3. Counted(c, b)'
  BY <1>b DEF MetricsInvFor, Counted
<1> QED
  BY <1>b, <1>1, <1>2, <1>3 DEF MetricsInvFor

\* The platform loses the samples that it has kept.
LEMMA SamplesLostKeeps ==
  ASSUME NEW b \in Bases, NEW c \in [GuestNames -> Int], MetricsInvFor(b, c), SamplesLost
  PROVE  MetricsInvFor(b, c)'
<1>b. /\ UNCHANGED <<guest, fwCycles, timeCycles, ranHere, prevSample, prevDate, curSample, curDate, totalUser, strayed, mpc>>
      /\ samples' = <<>>
  BY DEF SamplesLost, cacheVars, countVars
<1>1. MetricsTyped'
  <2>1. MetricsTyped
    BY DEF MetricsInvFor
  <2>2. <<>> \in Seq(SampleRecords)
    OBVIOUS
  <2> QED
    BY <1>b, <2>1, <2>2 DEF MetricsTyped
<1>2. SamplesInOrder(b)'
  <2>1. SamplesInOrder(b)
    BY DEF MetricsInvFor
  <2>2. 1 .. Len(<<>>) = {}
    OBVIOUS
  <2> QED
    BY <1>b, <2>1, <2>2 DEF SamplesInOrder
<1>3. Counted(c, b)'
  BY <1>b DEF MetricsInvFor, Counted
<1> QED
  BY <1>b, <1>1, <1>2, <1>3 DEF MetricsInvFor

\* A guest that arrives begins a stay: whatever it brings is the base of it.
LEMMA ArrivesKeeps ==
  ASSUME NEW b \in Bases, NEW c \in [GuestNames -> Int], MetricsInvFor(b, c), NEW n \in GuestNames, Arrives(n),
         UNCHANGED <<fwCycles, timeCycles, samples, ranHere, cacheVars>>
  PROVE  \E e \in Bases : MetricsInvFor(e, c)'
<1>a. MetricsTyped /\ guest \in [GuestNames -> GuestRecords]
  BY DEF MetricsInvFor, MetricsTyped
<1>b. UNCHANGED <<fwCycles, timeCycles, samples, ranHere, prevSample, prevDate, curSample, curDate, totalUser, strayed, mpc>>
  BY DEF cacheVars, countVars
<1>1. PICK x \in Comes(n) :
        guest' = [guest EXCEPT ![n] = [where |-> IF x.util > 0 THEN "arriving" ELSE "here", util |-> x.util, idle |-> x.idle, stay |-> guest[n].stay + 1]]
  BY DEF Arrives
<1>2. x.util \in Nat /\ x.idle \in Nat
  <2>1. guest[n].util \in Nat /\ guest[n].idle \in Nat /\ Elsewhere \subseteq Nat
    BY <1>a, MetricsConstantsOK DEF GuestRecords
  <2>2. ASSUME NEW e \in Elsewhere PROVE guest[n].util + e \in Nat
    <3> DEFINE k == guest[n].util
    <3>1. k \in Nat /\ e \in Nat
      BY <2>1
    <3> HIDE DEF k
    <3>2. k + e \in Nat
      BY <3>1
    <3> QED
      BY <3>2 DEF k
  <2>3. \/ x = [util |-> guest[n].util, idle |-> guest[n].idle]
        \/ \E e \in Elsewhere : x = [util |-> guest[n].util + e, idle |-> guest[n].idle]
        \/ x = [util |-> 0, idle |-> 0]
    <3>1. CASE guest[n].stay = 0
      BY <3>1 DEF Comes
    <3>2. CASE guest[n].stay # 0
      BY <3>2 DEF Comes
    <3> QED
      BY <3>1, <3>2
  <2> QED
    BY <2>1, <2>2, <2>3
<1>3. /\ guest' \in [GuestNames -> GuestRecords]
      /\ guest'[n] = [where |-> IF x.util > 0 THEN "arriving" ELSE "here", util |-> x.util, idle |-> x.idle, stay |-> guest[n].stay + 1]
      /\ \A m \in GuestNames : m # n => guest'[m] = guest[m]
  <2>1. guest[n].stay \in Nat
    BY <1>a DEF GuestRecords
  <2> QED
    BY <1>a, <1>1, <1>2, <2>1 DEF GuestRecords
<1> DEFINE k == guest[n].stay
<1> DEFINE base == b[n][k] + (Spent(guest'[n]) - Spent(guest[n]))
<1>4. k \in Nat /\ b[n][k] \in Int /\ Spent(guest'[n]) \in Int /\ Spent(guest[n]) \in Int /\ base \in Int
  <2>1. k \in Nat
    BY <1>a DEF GuestRecords
  <2>2. b[n][k] \in Int
    BY <2>1 DEF Bases
  <2>3. Spent(guest'[n]) \in Int /\ Spent(guest[n]) \in Int
    BY <1>a, <1>3, HereIsInt
  <2> QED
    BY <2>2, <2>3, <2>1
<1> HIDE DEF base
<1>5. PICK e \in Bases : \A m \in GuestNames : \A j \in Nat : e[m][j] = IF m = n /\ j = k + 1 THEN base ELSE b[m][j]
  <2> DEFINE f == [m \in GuestNames |-> [j \in Nat |-> IF m = n /\ j = k + 1 THEN base ELSE b[m][j]]]
  <2>1. f \in Bases
    BY <1>4 DEF Bases
  <2>2. \A m \in GuestNames : \A j \in Nat : f[m][j] = IF m = n /\ j = k + 1 THEN base ELSE b[m][j]
    OBVIOUS
  <2> HIDE DEF f
  <2> QED
    BY <2>1, <2>2
<1>7. \A m \in GuestNames : HereNow(e, guest', m) = HereNow(b, guest, m) /\ guest[m].stay <= guest'[m].stay
  <2> SUFFICES ASSUME NEW m \in GuestNames
               PROVE  HereNow(e, guest', m) = HereNow(b, guest, m) /\ guest[m].stay <= guest'[m].stay
    OBVIOUS
  <2>1. guest[m].stay \in Nat
    BY <1>a DEF GuestRecords
  <2>2. CASE m = n
    <3>1. guest'[n].stay = k + 1 /\ e[n][k + 1] = base
      BY <1>3, <1>4, <1>5
    <3> QED
      BY <1>4, <2>2, <3>1 DEF HereNow, base
  <2>3. CASE m # n
    BY <1>3, <1>5, <2>1, <2>3 DEF HereNow
  <2> QED
    BY <2>2, <2>3
<1>8. ASSUME NEW s \in Readings, s.stay <= guest[s.name].stay
      PROVE  HereAt(e, s) = HereAt(b, s) /\ (s.stay = guest'[s.name].stay => s.name # n)
  <2>1. s.name \in GuestNames /\ s.stay \in Nat
    BY DEF Readings
  <2>2. s.name = n => s.stay <= k
    BY <1>8
  <2>3. s.name = n => guest'[s.name].stay = k + 1
    BY <1>3
  <2>4. s.name = n => s.stay # k + 1
    BY <1>4, <2>1, <2>2
  <2>5. e[s.name][s.stay] = b[s.name][s.stay]
    BY <1>5, <2>1, <2>4
  <2> HIDE DEF k
  <2> QED
    BY <2>3, <2>4, <2>5 DEF HereAt
<1>9. \A smp \in SampleRecords : SampleOK(b, guest, smp) =>
        /\ SampleOK(e, guest', smp)
        /\ BelowReadings(c, b, smp) => BelowReadings(c, e, smp)
  <2> SUFFICES ASSUME NEW smp \in SampleRecords, SampleOK(b, guest, smp)
               PROVE  SampleOK(e, guest', smp) /\ (BelowReadings(c, b, smp) => BelowReadings(c, e, smp))
    OBVIOUS
  <2>1. ASSUME NEW s \in smp.lpars
        PROVE  /\ s \in Readings /\ s.name \in GuestNames /\ s.stay <= guest[s.name].stay /\ s.stay <= guest'[s.name].stay
               /\ HereAt(e, s) = HereAt(b, s) /\ (s.stay = guest'[s.name].stay => s.name # n)
    <3>1. s \in Readings /\ s.name \in GuestNames /\ s.stay \in Nat /\ s.stay <= guest[s.name].stay
      BY DEF SampleRecords, Readings, SampleOK
    <3>2. guest[s.name].stay \in Nat /\ guest'[s.name].stay \in Nat
      BY <1>a, <1>3, <3>1 DEF GuestRecords
    <3> QED
      BY <1>7, <1>8, <3>1, <3>2
  <2>2. BelowReadings(c, b, smp) => BelowReadings(c, e, smp)
    BY <2>1 DEF BelowReadings
  <2>3. \A s \in smp.lpars : ~IsEmptyReading(s) =>
       /\ s.stay = guest'[s.name].stay => guest'[s.name].where # "arriving"
       /\ 0 <= HereAt(e, s) /\ HereAt(e, s) <= HereNow(e, guest', s.name)
    <3> SUFFICES ASSUME NEW s \in smp.lpars, ~IsEmptyReading(s)
                 PROVE  /\ s.stay = guest'[s.name].stay => guest'[s.name].where # "arriving"
                        /\ 0 <= HereAt(e, s) /\ HereAt(e, s) <= HereNow(e, guest', s.name)
      OBVIOUS
    <3>1. /\ s.stay = guest[s.name].stay => guest[s.name].where # "arriving"
          /\ 0 <= HereAt(b, s) /\ HereAt(b, s) <= HereNow(b, guest, s.name)
      BY DEF SampleOK
    <3> QED
      BY <1>3, <1>7, <2>1, <3>1
  <2>4. \A s, q \in smp.lpars : s.name = q.name => s = q
    BY DEF SampleOK
  <2> QED
    BY <2>1, <2>2, <2>3, <2>4 DEF SampleOK
<1>10. MetricsTyped'
  BY <1>a, <1>b, <1>3 DEF MetricsTyped
<1>11. \A i \in 1 .. Len(samples) : samples[i] \in SampleRecords
  BY <1>a DEF MetricsTyped
<1>12. SamplesInOrder(b)
  BY DEF MetricsInvFor
<1>13. SamplesInOrder(e)'
  BY <1>a, <1>b, <1>9, <1>11, <1>12 DEF MetricsTyped, SamplesInOrder
<1>14. Counted(c, e)'
  <2>1. Counted(c, b)
    BY DEF MetricsInvFor
  <2>2. samples # <<>> => BelowReadings(c, e, samples[1])
    <3> SUFFICES ASSUME samples # <<>> PROVE BelowReadings(c, e, samples[1])
      OBVIOUS
    <3>1. 1 \in 1 .. Len(samples)
      <4>1. samples \in Seq(SampleRecords)
        BY <1>a DEF MetricsTyped
      <4> QED
        BY <4>1
    <3> QED
      BY <2>1, <3>1, <1>9, <1>11, <1>12 DEF SamplesInOrder, Counted
  <2>3. \A smp \in {curSample, prevSample} : smp # NoSample => (BelowReadings(c, b, smp) => BelowReadings(c, e, smp))
    BY <1>a, <1>9, <1>12 DEF MetricsTyped, SamplesInOrder
  <2> QED
    BY <1>b, <1>7, <2>1, <2>2, <2>3 DEF Counted
<1>15. SpentHere(e, guest') = SpentHere(b, guest)
  BY <1>7 DEF SpentHere
<1>16. MetricsInvFor(e, c)'
  BY <1>b, <1>10, <1>13, <1>14, <1>15 DEF MetricsInvFor
<1> QED
  BY <1>16

\* A guest that starts to run here, or leaves.
LEMMA MovesKeeps ==
  ASSUME NEW b \in Bases, NEW c \in [GuestNames -> Int], MetricsInvFor(b, c), NEW n \in DOMAIN guest, Moves(n)
  PROVE  \E e \in Bases : MetricsInvFor(e, c)'
<1>a. MetricsTyped /\ guest \in [GuestNames -> GuestRecords] /\ n \in GuestNames
  BY DEF MetricsInvFor, MetricsTyped
<1>b. UNCHANGED <<fwCycles, timeCycles, samples, ranHere, cacheVars>>
  BY DEF Moves
<1>1. CASE Arrives(n)
  BY <1>1, <1>a, <1>b, ArrivesKeeps
<1>2. ASSUME NEW x \in {"here", "away"}, guest' = [guest EXCEPT ![n].where = x]
      PROVE  MetricsInvFor(b, c)'
  <2>1. UNCHANGED <<fwCycles, timeCycles, samples, ranHere, prevSample, prevDate, curSample, curDate, totalUser, strayed, mpc>>
    BY <1>b DEF cacheVars, countVars
  <2>2. /\ guest' \in [GuestNames -> GuestRecords]
        /\ \A m \in GuestNames : /\ guest'[m].util = guest[m].util /\ guest'[m].idle = guest[m].idle /\ guest'[m].stay = guest[m].stay
                                 /\ guest[m].where # "arriving" => guest'[m].where # "arriving"
    BY <1>a, <1>2 DEF GuestRecords
  <2>3. \A m \in GuestNames : HereNow(b, guest', m) = HereNow(b, guest, m)
    BY <2>2 DEF HereNow, Spent
  <2>4. \A smp \in SampleRecords : SampleOK(b, guest, smp) => SampleOK(b, guest', smp)
    BY <2>2, <2>3 DEF SampleOK, SampleRecords, Readings
  <2>5. MetricsTyped'
    BY <1>a, <2>1, <2>2 DEF MetricsTyped
  <2>6. \A i \in 1 .. Len(samples) : samples[i] \in SampleRecords
    BY <1>a DEF MetricsTyped
  <2>7. SamplesInOrder(b)'
    BY <1>a, <2>1, <2>4, <2>6 DEF MetricsInvFor, MetricsTyped, SamplesInOrder
  <2>8. Counted(c, b)'
    BY <2>1, <2>3 DEF MetricsInvFor, Counted
  <2>9. SpentHere(b, guest') = SpentHere(b, guest)
    BY <2>3 DEF SpentHere
  <2> QED
    BY <2>1, <2>5, <2>7, <2>8, <2>9 DEF MetricsInvFor
<1>3. CASE ~Arrives(n)
  <2>1. PICK x \in {"here", "away"} : guest' = [guest EXCEPT ![n].where = x]
    BY <1>3 DEF Moves
  <2> QED
    BY <1>2, <2>1
<1> QED
  BY <1>1, <1>3

\* The platform takes a sample, while some guests are busy.
LEMMA CollectKeeps ==
  ASSUME NEW b \in Bases, NEW c \in [GuestNames -> Int], MetricsInvFor(b, c), NEW busy \in SUBSET Here, Collect(busy)
  PROVE  MetricsInvFor(b, c)'
<1> DEFINE x == [fw |-> fwCycles', time |-> timeCycles', lpars |-> {Reading(guest', n) : n \in Known}]
<1>a. MetricsTyped /\ DOMAIN guest = GuestNames /\ guest \in [GuestNames -> GuestRecords]
  BY DEF MetricsInvFor, MetricsTyped
<1>b. UNCHANGED <<prevSample, prevDate, curSample, curDate, totalUser, strayed, mpc>>
  BY DEF Collect, cacheVars, countVars
<1>0. /\ guest' = [n \in DOMAIN guest |-> IF n \notin Here THEN guest[n] ELSE [guest[n] EXCEPT !.util = @ + 1, !.idle = IF n \in busy THEN @ ELSE @ + 1]]
      /\ fwCycles' = fwCycles + 1 /\ timeCycles' = timeCycles + 1 /\ ranHere' = ranHere + Cardinality(busy)
  BY DEF Collect
<1>c. \A n \in GuestNames :
       /\ guest'[n] \in GuestRecords
       /\ guest'[n].where = guest[n].where /\ guest'[n].stay = guest[n].stay
       /\ n \in Here => guest'[n].util # 0
       /\ Spent(guest'[n]) = IF n \in busy THEN Spent(guest[n]) + 1 ELSE Spent(guest[n])
  <2> SUFFICES ASSUME NEW n \in GuestNames
               PROVE  /\ guest'[n] \in GuestRecords
                      /\ guest'[n].where = guest[n].where /\ guest'[n].stay = guest[n].stay
                      /\ n \in Here => guest'[n].util # 0
                      /\ Spent(guest'[n]) = IF n \in busy THEN Spent(guest[n]) + 1 ELSE Spent(guest[n])
    OBVIOUS
  <2>0. guest[n] \in GuestRecords
    BY <1>a
  <2>1. guest'[n] = IF n \notin Here THEN guest[n] ELSE [guest[n] EXCEPT !.util = @ + 1, !.idle = IF n \in busy THEN @ ELSE @ + 1]
    BY <1>a DEF Collect
  <2>2. n \in busy => n \in Here
    OBVIOUS
  <2> HIDE DEF x
  <2>3. CASE n \notin Here
    BY <2>0, <2>1, <2>2, <2>3
  <2>4. CASE n \in Here
    <3>1. /\ guest[n].util \in Nat /\ guest[n].idle \in Nat
          /\ guest'[n].util = guest[n].util + 1
          /\ guest'[n].idle = IF n \in busy THEN guest[n].idle ELSE guest[n].idle + 1
          /\ guest'[n].where = guest[n].where /\ guest'[n].stay = guest[n].stay /\ guest'[n] \in GuestRecords
      <4>1. guest'[n] = [guest[n] EXCEPT !.util = guest[n].util + 1, !.idle = IF n \in busy THEN guest[n].idle ELSE guest[n].idle + 1]
        BY <2>1, <2>4
      <4>2. guest[n].util + 1 \in Nat /\ guest[n].idle + 1 \in Nat /\ guest[n].util \in Nat /\ guest[n].idle \in Nat
        BY <2>0 DEF GuestRecords
      <4> QED
        BY <2>0, <4>1, <4>2 DEF GuestRecords
    <3> QED
      BY <3>1 DEF Spent
  <2> QED
    BY <2>3, <2>4
<1>d. guest' \in [GuestNames -> GuestRecords]
  <2>2. guest' = [n \in GuestNames |-> IF n \notin Here THEN guest[n] ELSE [guest[n] EXCEPT !.util = @ + 1, !.idle = IF n \in busy THEN @ ELSE @ + 1]]
    BY <1>0, <1>a, Zenon
  <2> HIDE DEF x
  <2> QED
    BY <1>c, <2>2
<1>e. fwCycles' \in Int /\ timeCycles' \in Int
  <2>1. fwCycles \in Int /\ timeCycles \in Int
    BY <1>a DEF MetricsTyped
  <2>2. fwCycles' = fwCycles + 1 /\ timeCycles' = timeCycles + 1
    BY <1>0, Zenon
  <2> HIDE DEF x
  <2> QED
    BY <2>1, <2>2
<1>f. Known \subseteq GuestNames /\ \A n \in Known : guest[n].where \in {"here", "arriving"}
  BY <1>a DEF Known
<1>g. x \in SampleRecords /\ x.lpars \subseteq Readings
  <2>1. \A n \in Known : Reading(guest', n) \in Readings
    BY <1>c, <1>f DEF Reading, LparIds, Readings, GuestRecords
  <2> QED
    BY <2>1, <1>e DEF SampleRecords
<1>h. \A s \in x.lpars : /\ s.name \in Known /\ s.stay = guest[s.name].stay
                         /\ guest[s.name].where = "here" => s.util = guest'[s.name].util /\ s.idle = guest'[s.name].idle
                         /\ guest[s.name].where # "here" => s.util = 0 /\ s.idle = 0
                         /\ s = Reading(guest', s.name)
  BY <1>c, <1>f DEF Reading
<1>i. samples' \in Seq(SampleRecords) /\ samples' # <<>> /\ samples'[1] = x
      /\ \A i \in 1 .. Len(samples') : samples'[i] = x \/ (i = 2 /\ samples # <<>> /\ samples'[i] = samples[1])
  <2>1. samples \in Seq(SampleRecords) /\ samples' = SubSeq(<<x>> \o samples, 1, IF samples = <<>> THEN 1 ELSE 2)
    BY <1>a DEF Collect, MetricsTyped
  <2> HIDE DEF x
  <2> DEFINE k == IF samples = <<>> THEN 1 ELSE 2
  <2> DEFINE q == <<x>> \o samples
  <2>2. q \in Seq(SampleRecords) /\ Len(q) = Len(samples) + 1 /\ q[1] = x /\ (samples # <<>> => q[2] = samples[1] /\ Len(samples) >= 1)
    BY <2>1, <1>g
  <2>3. k \in 1 .. Len(q) /\ k \in {1, 2} /\ (k = 2 => samples # <<>>)
    BY <2>1, <2>2
  <2>4. samples' = SubSeq(q, 1, k)
    BY <2>1
  <2> HIDE DEF k, q
  <2>5. Len(samples') = k /\ \A i \in 1 .. k : samples'[i] = q[i]
    BY <2>2, <2>3, <2>4
  <2>6. samples' \in Seq(SampleRecords)
    BY <2>2, <2>3, <2>4
  <2>7. \A i \in 1 .. Len(samples') : i = 1 \/ (i = 2 /\ k = 2)
    <3>1. CASE k = 1
      BY <2>5, <3>1
    <3>2. CASE k = 2
      BY <2>5, <3>2
    <3> QED
      BY <2>3, <3>1, <3>2
  <2> QED
    <3>1. samples' # <<>> /\ samples'[1] = x
      BY <2>2, <2>3, <2>5
    <3>2. \A i \in 1 .. Len(samples') : samples'[i] = x \/ (i = 2 /\ samples # <<>> /\ samples'[i] = samples[1])
      BY <2>2, <2>3, <2>5, <2>7
    <3> QED
      BY <2>6, <3>1, <3>2
<1> HIDE DEF x
<1>2. MetricsTyped'
  BY <1>a, <1>b, <1>d, <1>e, <1>i DEF MetricsTyped
<1>k. \A n \in GuestNames :
        /\ 0 <= c[n] /\ c[n] <= HereNow(b, guest, n) /\ c[n] \in Int
        /\ HereNow(b, guest, n) \in Int /\ HereNow(b, guest', n) \in Int
        /\ HereNow(b, guest', n) = IF n \in busy THEN HereNow(b, guest, n) + 1 ELSE HereNow(b, guest, n)
  <2> SUFFICES ASSUME NEW n \in GuestNames
               PROVE  /\ 0 <= c[n] /\ c[n] <= HereNow(b, guest, n) /\ c[n] \in Int
                      /\ HereNow(b, guest, n) \in Int /\ HereNow(b, guest', n) \in Int
                      /\ HereNow(b, guest', n) = IF n \in busy THEN HereNow(b, guest, n) + 1 ELSE HereNow(b, guest, n)
    OBVIOUS
  <2>1. HereNow(b, guest, n) \in Int /\ HereNow(b, guest', n) \in Int /\ Spent(guest[n]) \in Int
    BY <1>a, <1>d, HereIsInt
  <2>2. guest[n].stay \in Nat
    BY <1>a DEF GuestRecords
  <2>3. b[n][guest[n].stay] \in Int
    BY <2>2 DEF Bases
  <2>4. 0 <= c[n] /\ c[n] <= HereNow(b, guest, n)
    BY DEF MetricsInvFor, Counted
  <2> QED
    BY <1>c, <2>1, <2>3, <2>4 DEF HereNow
<1>j. \A smp \in SampleRecords : SampleOK(b, guest, smp) => SampleOK(b, guest', smp) /\ NotAfter(smp, x)
  <2> SUFFICES ASSUME NEW smp \in SampleRecords, SampleOK(b, guest, smp) PROVE SampleOK(b, guest', smp) /\ NotAfter(smp, x)
    OBVIOUS
  <2>0. \A s \in smp.lpars : s \in Readings /\ s.name \in GuestNames /\ HereAt(b, s) \in Int /\ Spent(s) \in Int
    BY HereIsInt DEF SampleRecords, Readings
  <2>1. ASSUME NEW s \in smp.lpars, ~IsEmptyReading(s)
        PROVE  /\ s.stay = guest'[s.name].stay => guest'[s.name].where # "arriving"
               /\ 0 <= HereAt(b, s) /\ HereAt(b, s) <= HereNow(b, guest', s.name)
    <3>2. /\ s.stay = guest[s.name].stay => guest[s.name].where # "arriving"
          /\ 0 <= HereAt(b, s) /\ HereAt(b, s) <= HereNow(b, guest, s.name)
      BY <2>1 DEF SampleOK
    <3> QED
      BY <1>c, <1>k, <2>0, <3>2
  <2>2. SampleOK(b, guest', smp)
    BY <1>c, <2>0, <2>1 DEF SampleOK
  <2>3. ASSUME NEW p \in smp.lpars, NEW s \in x.lpars, p.name = s.name, p.stay = s.stay, ~IsEmptyReading(p)
        PROVE  ~IsEmptyReading(s) /\ Spent(p) <= Spent(s)
    <3>1. s.name \in GuestNames /\ s.stay = guest[s.name].stay /\ guest'[s.name].stay = s.stay
      BY <1>c, <1>f, <1>h
    <3>2. guest[s.name].where = "here"
      BY <1>f, <1>h, <2>3, <3>1 DEF SampleOK
    <3>3. s.util = guest'[s.name].util /\ s.idle = guest'[s.name].idle /\ s.util # 0
      BY <1>a, <1>c, <1>h, <3>1, <3>2 DEF Here
    <3>4. HereAt(b, p) <= HereNow(b, guest', s.name)
      BY <2>1, <2>3
    <3>5. Spent(s) = Spent(guest'[s.name]) /\ Spent(s) \in Int /\ Spent(p) \in Int
      BY <1>d, <2>0, <3>1, <3>3, HereIsInt DEF Spent
    <3>6. b[s.name][s.stay] \in Int
      BY <1>a, <3>1 DEF Bases, GuestRecords
    <3> QED
      BY <2>3, <3>1, <3>3, <3>4, <3>5, <3>6 DEF HereAt, HereNow, IsEmptyReading
  <2> QED
    BY <2>2, <2>3 DEF NotAfter
<1>l. SampleOK(b, guest', x) /\ NotAfter(x, x) /\ BelowReadings(c, b, x)
  <2>0. \A s \in x.lpars : s \in Readings /\ s.name \in GuestNames /\ HereAt(b, s) \in Int /\ Spent(s) \in Int
    BY <1>g, HereIsInt DEF Readings
  <2>1. ASSUME NEW s \in x.lpars, ~IsEmptyReading(s)
        PROVE  /\ guest'[s.name].where # "arriving"
               /\ 0 <= HereAt(b, s) /\ HereAt(b, s) <= HereNow(b, guest', s.name)
               /\ c[s.name] <= HereAt(b, s)
    <3>1. s.name \in GuestNames /\ guest[s.name].where = "here" /\ s.stay = guest'[s.name].stay
      BY <1>c, <1>h, <1>f, <2>0, <2>1 DEF IsEmptyReading
    <3>2. Spent(s) = Spent(guest'[s.name])
      BY <1>h, <3>1 DEF Spent
    <3>3. HereAt(b, s) = HereNow(b, guest', s.name)
      BY <3>1, <3>2 DEF HereAt, HereNow
    <3> QED
      BY <1>c, <1>k, <3>1, <3>3
  <2>2. \A s, q \in x.lpars : s.name = q.name => s = q
    BY <1>h
  <2>3. \A s \in x.lpars : s.stay <= guest'[s.name].stay
    <3> SUFFICES ASSUME NEW s \in x.lpars PROVE s.stay <= guest'[s.name].stay
      OBVIOUS
    <3>1. s.stay = guest'[s.name].stay /\ guest'[s.name].stay \in Nat
      BY <1>c, <1>d, <1>h, <2>0 DEF GuestRecords
    <3> QED
      BY <3>1
  <2>4. NotAfter(x, x)
    <3> SUFFICES ASSUME NEW p \in x.lpars, NEW s \in x.lpars, p.name = s.name, ~IsEmptyReading(p) PROVE ~IsEmptyReading(s) /\ Spent(p) <= Spent(s)
      BY DEF NotAfter
    <3>1. p = s
      BY <2>2
    <3> QED
      BY <2>0, <3>1
  <2> QED
    BY <2>1, <2>2, <2>3, <2>4 DEF SampleOK, BelowReadings
<1>3. SamplesInOrder(b)'
  <2>1. SamplesInOrder(b)
    BY DEF MetricsInvFor
  <2>2. samples # <<>> => samples[1] \in SampleRecords /\ SampleOK(b, guest, samples[1])
    <3> SUFFICES ASSUME samples # <<>> PROVE samples[1] \in SampleRecords /\ SampleOK(b, guest, samples[1])
      OBVIOUS
    <3>1. samples \in Seq(SampleRecords)
      BY <1>a DEF MetricsTyped
    <3>2. 1 \in 1 .. Len(samples) /\ samples[1] \in SampleRecords
      BY <3>1
    <3> QED
      BY <2>1, <3>2 DEF SamplesInOrder
  <2>3. \A i \in 1 .. Len(samples') : SampleOK(b, guest', samples'[i]) /\ NotAfter(samples'[i], x)
    BY <1>i, <1>j, <1>l, <2>2
  <2>4. \A smp \in {curSample, prevSample} : smp # NoSample => SampleOK(b, guest', smp) /\ NotAfter(smp, x)
    BY <1>a, <1>j, <2>1 DEF SamplesInOrder, MetricsTyped
  <2> QED
    BY <1>b, <1>i, <2>3, <2>4 DEF SamplesInOrder
<1>4. Counted(c, b)'
  <2>0. Counted(c, b)
    BY DEF MetricsInvFor
  <2>1. \A n \in GuestNames : 0 <= c[n] /\ c[n] <= HereNow(b, guest', n)
    BY <1>k
  <2>2. BelowReadings(c, b, samples'[1])
    BY <1>i, <1>l
  <2> QED
    BY <1>b, <2>0, <2>1, <2>2 DEF Counted
<1>5. ranHere' = SumFunctionOnSet(SpentHere(b, guest'), GuestNames)
  <2> DEFINE one == [n \in GuestNames |-> IF n \in busy THEN 1 ELSE 0]
  <2> DEFINE u == SpentHere(b, guest)
  <2> DEFINE w == SpentHere(b, guest')
  <2>1. \A n \in GuestNames : one[n] = IF n \in busy THEN 1 ELSE 0
    OBVIOUS
  <2>2. \A n \in GuestNames : u[n] = HereNow(b, guest, n) /\ w[n] = HereNow(b, guest', n)
    BY DEF SpentHere
  <2> HIDE DEF one, u, w
  <2>3. \A n \in GuestNames : u[n] \in Int /\ one[n] \in Int /\ w[n] = u[n] + one[n]
    BY <1>k, <2>1, <2>2
  <2>4. SumFunctionOnSet(w, GuestNames) = SumFunctionOnSet(u, GuestNames) + SumFunctionOnSet(one, GuestNames)
    BY <2>3, NamesFinite, SumAdd
  <2>5. SumFunctionOnSet(one, GuestNames) = Cardinality(GuestNames \cap busy)
    BY <2>1, NamesFinite, SumIndicator
  <2>6. GuestNames \cap busy = busy
    BY <1>a DEF Here
  <2>7. ranHere = SumFunctionOnSet(u, GuestNames)
    BY DEF MetricsInvFor, u
  <2> QED
    BY <1>0, <2>4, <2>5, <2>6, <2>7 DEF w
<1>6. (mpc = "second latest" => curDate = 0)'
  BY <1>b DEF MetricsInvFor
<1> QED
  BY <1>2, <1>3, <1>4, <1>5, <1>6 DEF MetricsInvFor

\* Every step of the cache and of the platform keeps MetricsInv.
LEMMA MetricsInvNext == ASSUME MetricsInv, [MetricsNext]_metricVars PROVE MetricsInv'
<1>1. PICK b \in Bases, c \in [GuestNames -> Int] : MetricsInvFor(b, c)
  BY DEF MetricsInv
<1>2. CASE Refresh \/ SeedPrev \/ QueryFails \/ DeltaPasses \/ SamplesLost \/ UNCHANGED metricVars
  <2>1. MetricsInvFor(b, c)'
    BY <1>1, <1>2, RefreshKeeps, SeedPrevKeeps, WaitKeeps, SamplesLostKeeps
  <2> QED
    BY <2>1 DEF MetricsInv
<1>3. CASE Fetch
  BY <1>1, <1>3, FetchKeeps DEF MetricsInv
<1>4. CASE \E busy \in SUBSET Here : Collect(busy)
  <2>1. MetricsInvFor(b, c)'
    BY <1>1, <1>4, CollectKeeps
  <2> QED
    BY <2>1 DEF MetricsInv
<1>5. CASE \E n \in DOMAIN guest : Moves(n)
  BY <1>1, <1>5, MovesKeeps DEF MetricsInv
<1> QED
  BY <1>2, <1>3, <1>4, <1>5 DEF MetricsNext, CacheStep

\* What was counted of each guest it has spent here, so the total is at most theirs.
LEMMA MetricsInvImplies == ASSUME MetricsInv PROVE UserCyclesAreReal
<1>1. PICK b \in Bases, c \in [GuestNames -> Int] : MetricsInvFor(b, c)
  BY DEF MetricsInv
<1> DEFINE u == SpentHere(b, guest)
<1>2. \A n \in GuestNames : c[n] \in Int /\ u[n] \in Int /\ 0 <= c[n] /\ c[n] <= u[n]
  <2>1. \A n \in GuestNames : HereNow(b, guest, n) \in Int
    BY <1>1, HereIsInt DEF MetricsInvFor, MetricsTyped
  <2> QED
    BY <1>1, <2>1 DEF MetricsInvFor, Counted, SpentHere
<1> HIDE DEF u
<1>3. SumFunctionOnSet(c, GuestNames) \in Int /\ SumFunctionOnSet(c, GuestNames) >= 0
  BY <1>2, NamesFinite, SumType
<1>4. SumFunctionOnSet(c, GuestNames) <= SumFunctionOnSet(u, GuestNames)
  BY <1>2, NamesFinite, SumLeq
<1>5. totalUser - strayed = SumFunctionOnSet(c, GuestNames) /\ ranHere = SumFunctionOnSet(u, GuestNames)
  BY <1>1 DEF Counted, MetricsInvFor, u
<1> QED
  BY <1>3, <1>4, <1>5 DEF UserCyclesAreReal

\* tasks/monitor/host_cpu.py: for every set of guests and every interleaving of samples,
\* losses, moves, returns and refreshes, the cycles counted as user cycles, but for those
\* between the samples of two stays of a guest, are at most those that the guests have
\* spent on this host: see UserCyclesAreReal.
THEOREM CyclesAreReal == MetricsSpec => []UserCyclesAreReal
<1>1. MetricsInit => MetricsInv
  BY MetricsInitInv
<1>2. MetricsInv /\ [MetricsNext]_metricVars => MetricsInv'
  BY MetricsInvNext
<1>3. MetricsInv => UserCyclesAreReal
  BY MetricsInvImplies
<1> QED
  BY <1>1, <1>2, <1>3, PTL DEF MetricsSpec
=============================================================================
