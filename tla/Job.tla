--------------------------------- MODULE Job ---------------------------------
(***************************************************************************)
(* pypowervm.wrappers.job: run_job and the threads it leaves behind.  One  *)
(* Job on the REST server; the caller polls it, and a background thread    *)
(* (PollAndDeleteThread, CancelJobThread) takes it over when the call is   *)
(* asynchronous or has timed out.  All of them share the wrapper's entry,  *)
(* whose status is only as fresh as the last read.                         *)
(***************************************************************************)
EXTENDS Naturals

CONSTANT MaxJobFaults      \* bound on REST calls that fail

ASSUME JobConstantsOK == MaxJobFaults \in Nat

VARIABLES
  job,        \* the Job on the server
  entry,      \* status in the wrapper's entry
  sync,       \* run_job's synchronous
  limited,    \* run_job's timeout is not zero
  main,       \* where the caller is in run_job
  result,     \* how run_job ended
  keeper,     \* the background thread
  keepKind,   \* which of the two it is
  deleter,       \* what a delete_job() called by the consumer raised
  jobFaults      \* REST calls that have failed

jobVars == <<job, entry, sync, limited, main, result, keeper, keepKind, deleter, jobFaults>>

NOT_ACTIVE == "NOT_STARTED"
RUNNING == "RUNNING"
COMPLETED_OK == "COMPLETED_OK"

\* A job ends well, with warnings, with an error, or in a status that the
\* client does not know (such as a cancelled one).
EndStates == {COMPLETED_OK, "COMPLETED_WITH_WARNINGS", "COMPLETED_WITH_ERROR", "OTHER"}
Live == {NOT_ACTIVE, RUNNING}
Statuses == Live \cup EndStates

JobInit ==
  /\ job = "none" /\ entry = "none"
  /\ sync \in BOOLEAN /\ limited \in BOOLEAN
  /\ main = "create" /\ result = "none"
  /\ keeper = "none" /\ keepKind = "none"
  /\ deleter = "none"
  /\ jobFaults = 0

-----------------------------------------------------------------------------
(* The server.                                                             *)

Starts ==
  /\ job = NOT_ACTIVE
  /\ job' = RUNNING
  /\ UNCHANGED <<entry, sync, limited, main, result, keeper, keepKind, deleter, jobFaults>>

Ends ==
  /\ job \in Live
  /\ job' \in EndStates
  /\ UNCHANGED <<entry, sync, limited, main, result, keeper, keepKind, deleter, jobFaults>>

JobFault == jobFaults < MaxJobFaults /\ jobFaults' = jobFaults + 1

-----------------------------------------------------------------------------
(* run_job.                                                                *)

Returns(how) == main' = "end" /\ result' = how

CreateJob ==
  /\ main = "create"
  /\ job' \in Statuses
  /\ entry' = job'
  /\ main' = "poll"
  /\ UNCHANGED <<sync, limited, result, keeper, keepKind, deleter, jobFaults>>

\* The answer may be lost although the job was created.
CreateJobFails ==
  /\ main = "create"
  /\ JobFault
  /\ job' \in {"none", NOT_ACTIVE}
  /\ Returns("JobRequestFailed")
  /\ UNCHANGED <<entry, sync, limited, keeper, keepKind, deleter>>

\* The statuses poll_while_status is given by _monitor_job.
OnlyRunning == {RUNNING}                    \* mutant: a queued job counts as finished
AwaitedByCaller == IF sync THEN Live ELSE {NOT_ACTIVE}

\* An iteration of poll_while_status: the status is read anew ...
Poll ==
  /\ main = "poll" /\ entry \in AwaitedByCaller
  /\ entry' = job
  /\ UNCHANGED <<job, sync, limited, main, result, keeper, keepKind, deleter, jobFaults>>

PollFails ==
  /\ main = "poll" /\ entry \in AwaitedByCaller
  /\ JobFault
  /\ Returns("Error")
  /\ UNCHANGED <<job, entry, sync, limited, keeper, keepKind, deleter>>

\* ... unless the time is up.
TimesOut ==
  /\ main = "poll" /\ entry \in AwaitedByCaller
  /\ limited
  /\ main' = "cancel"
  /\ UNCHANGED <<job, entry, sync, limited, result, keeper, keepKind, deleter, jobFaults>>

\* cancel_job: the request may fail, and the server need not heed it; a thread
\* waits for the job either way.
NotStarted == "none"                        \* mutant: the thread is not started
StartThread == "poll"

CancelJob ==
  /\ main = "cancel"
  /\ JobFault \/ UNCHANGED jobFaults
  /\ keeper' = StartThread /\ keepKind' = "Cancel"
  /\ Returns("JobRequestTimedOut")
  /\ UNCHANGED <<job, entry, sync, limited, deleter>>

Polled ==
  /\ main = "poll" /\ entry \notin AwaitedByCaller
  /\ IF sync
     THEN main' = "delete" /\ UNCHANGED <<result, keeper, keepKind>>
     ELSE Returns("started") /\ keeper' = StartThread /\ keepKind' = "PollAndDelete"
  /\ UNCHANGED <<job, entry, sync, limited, deleter, jobFaults>>

\* delete_job refuses to delete what it believes to be running, and ignores
\* that the server could not delete.
DeleteOnServer ==
  \/ job' = "deleted" /\ UNCHANGED jobFaults
  \/ JobFault /\ UNCHANGED job

DeleteJob ==
  /\ main = "delete"
  /\ IF entry = RUNNING
     THEN Returns("Error") /\ UNCHANGED <<job, jobFaults>>
     ELSE DeleteOnServer /\ main' = "check" /\ UNCHANGED result
  /\ UNCHANGED <<entry, sync, limited, keeper, keepKind, deleter>>

Succeeded == entry = COMPLETED_OK

CheckStatus ==
  /\ main = "check"
  /\ Returns(IF Succeeded THEN "ok" ELSE "JobRequestFailed")
  /\ UNCHANGED <<job, entry, sync, limited, keeper, keepKind, deleter, jobFaults>>

-----------------------------------------------------------------------------
(* The background threads poll without a time limit, then delete.          *)

AwaitedByKeeper == IF keepKind = "Cancel" THEN Live ELSE {RUNNING}

KeeperPolls ==
  /\ keeper = "poll"
  /\ IF entry \in AwaitedByKeeper
     THEN entry' = job /\ UNCHANGED keeper
     ELSE keeper' = "delete" /\ UNCHANGED entry
  /\ UNCHANGED <<job, sync, limited, main, result, keepKind, deleter, jobFaults>>

\* An exception ends the thread.
KeeperDies ==
  /\ keeper = "poll" /\ entry \in AwaitedByKeeper
  /\ JobFault
  /\ keeper' = "end"
  /\ UNCHANGED <<job, entry, sync, limited, main, result, keepKind, deleter>>

KeeperDeletes ==
  /\ keeper = "delete"
  /\ IF entry = RUNNING THEN UNCHANGED <<job, jobFaults>> ELSE DeleteOnServer
  /\ keeper' = "end"
  /\ UNCHANGED <<entry, sync, limited, main, result, keepKind, deleter>>

\* The consumer of an asynchronous call calls delete_job() itself.
UserDeletes ==
  /\ result = "started" /\ deleter = "none"
  /\ IF entry = RUNNING
     THEN deleter' = "Error" /\ UNCHANGED <<job, jobFaults>>
     ELSE deleter' = "done" /\ DeleteOnServer
  /\ UNCHANGED <<entry, sync, limited, main, result, keeper, keepKind>>

-----------------------------------------------------------------------------
Caller == CreateJob \/ Poll \/ TimesOut \/ CancelJob \/ Polled \/ DeleteJob \/ CheckStatus
Keeper == KeeperPolls \/ KeeperDeletes
Failures == CreateJobFails \/ PollFails \/ KeeperDies

JobDone ==
  /\ main = "end" /\ keeper \in {"none", "end"} /\ job \notin Live
  /\ UNCHANGED jobVars

JobNext == Starts \/ Ends \/ Caller \/ Keeper \/ Failures \/ UserDeletes \/ JobDone

JobSpec == JobInit /\ [][JobNext]_jobVars

\* Threads run, and jobs end; REST calls need not fail.
FairJob == JobSpec /\ WF_jobVars(Caller) /\ WF_jobVars(Keeper) /\ WF_jobVars(Ends)

-----------------------------------------------------------------------------
\* No job is removed from the server while it is queued or running, whichever
\* of the threads deletes it and however stale the status it goes by.
NeverDeletesLive == [][job' = "deleted" => job \notin Live]_jobVars

\* run_job returns normally only if the job has completed well on the server.
SuccessIsReal == result = "ok" => entry = COMPLETED_OK /\ job \in {COMPLETED_OK, "deleted"}

\* A job that was created - also one whose caller was told that it timed out or
\* that it has started - is removed from the server in the end, unless a REST
\* call failed.
CleanedUp == (entry # "none") ~> (job = "deleted" \/ jobFaults > 0)

-----------------------------------------------------------------------------
(* What comments and docstrings say and the code does not keep: TLC refutes *)
(* each of these (README, "Disagreements").                                 *)

\* delete_job: ":raise JobRequestFailed: if the Job is detected to be running."
RefusalIsJobRequestFailed == deleter # "Error"
=============================================================================
