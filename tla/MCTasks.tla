------------------------------- MODULE MCTasks -------------------------------
(* The long-running tasks: the upload of an image that hosts race for, Jobs, *)
(* power-off, virtual terminals, uploads to a VIOS and calls that are        *)
(* retried.  They share no state: a behaviour explores one of them, the      *)
(* focus.  The others have not begun, or, where calls are under way from the *)
(* start, are over.                                                          *)
EXTENDS ImageUpload, Job, PowerOff, Vterm, StorageUpload, Retry

\* The @retry of the mappers; one with a test; one that retries what the helper does.
Decorated(n, cs, ex) ==
  [tries |-> n, codes |-> cs, excepts |-> ex, test |-> FALSE, checker |-> FALSE, limit |-> FALSE, refresh |-> FALSE, helper |-> TRUE]
MCConfigs ==
  {[Decorated(6, {"etag"}, {}) EXCEPT !.refresh = TRUE], [Decorated(3, {"etag"}, {"conn"}) EXCEPT !.test = TRUE],
   [Decorated(2, {"etag", "busy", "bare"}, {"value"}) EXCEPT !.limit = TRUE], [Decorated(2, {}, {}) EXCEPT !.checker = TRUE, !.helper = FALSE]}

VARIABLE focus

AllVars == <<focus, vars, jobVars, powerVars, vtermVars, upVars, retryVars>>

QuietImage ==
  /\ markers = {} /\ images = {} /\ complete = {} /\ stuck = {} /\ lost = {} /\ crashes = 0
  /\ pc = [h \in Hosts |-> "raised"] /\ got = [h \in Hosts |-> 0]
  /\ foreign = "none"
QuietJob == sync = FALSE /\ limited = FALSE /\ JobInit
QuietPower ==
  /\ part = [ibmi |-> FALSE, rmc |-> FALSE] /\ up = FALSE /\ late = 0 /\ boots = 0 /\ running = FALSE
  /\ args = [fn |-> "power_off", legacy |-> FALSE, opts |-> NoOpts, restart |-> FALSE, force |-> "TRUE"]
  /\ opts = vsp_hard(NoOpts) /\ timeout = "given" /\ ppc = "end" /\ outcome = "ok"
  /\ tried = <<[op |-> "VSP", immediate |-> TRUE, restart |-> FALSE, timeout |-> "given", outcome |-> "ok"]>>
QuietUploads ==
  /\ kind = [u \in Uploads |-> "lu"] /\ upc = [u \in Uploads |-> "end"] /\ out = [u \in Uploads |-> "raised"]
  /\ group = [disks |-> {}, ver |-> 0] /\ groupLock = NoUpload /\ copy = [u \in Uploads |-> group]
  /\ files = {} /\ filled = {} /\ sem = Permits /\ excused = Uploads /\ unopened = {} /\ interrupted = {} /\ surplus = 0
  /\ attempt = [u \in Uploads |-> 1] /\ writer = [u \in Uploads |-> "none"]
  /\ callFaults = Cardinality(Uploads) /\ touched = 0
QuietRetry == config = Decorated(2, {}, {}) /\ tryNo = 1 /\ reqNo = NReqs /\ busyNo = 0 /\ tryPc = "returned"
  /\ thrown = "none" /\ delayPos = -1 /\ sent = NReqs /\ reasons = 0 /\ hopeless = FALSE

MCInit ==
  /\ focus \in {"image", "job", "power", "vterm", "uploads", "retry"}
  /\ IF focus = "image" THEN Init ELSE QuietImage
  /\ IF focus = "job" THEN JobInit ELSE QuietJob
  /\ IF focus = "power" THEN PowerInit ELSE QuietPower
  /\ VtermInit
  /\ IF focus = "uploads" THEN UploadInit ELSE QuietUploads
  /\ IF focus = "retry" THEN RetryInit ELSE QuietRetry

InImage(A) == focus = "image" /\ A /\ UNCHANGED <<focus, jobVars, powerVars, vtermVars, upVars, retryVars>>
InJob(A) == focus = "job" /\ A /\ UNCHANGED <<focus, vars, powerVars, vtermVars, upVars, retryVars>>
InPower(A) == focus = "power" /\ A /\ UNCHANGED <<focus, vars, jobVars, vtermVars, upVars, retryVars>>
InVterm(A) == focus = "vterm" /\ A /\ UNCHANGED <<focus, vars, jobVars, powerVars, upVars, retryVars>>
InUploads(A) == focus = "uploads" /\ A /\ UNCHANGED <<focus, vars, jobVars, powerVars, vtermVars, retryVars>>
InRetry(A) == focus = "retry" /\ A /\ UNCHANGED <<focus, vars, jobVars, powerVars, vtermVars, upVars>>

MCNext ==
  \/ InImage(Next) \/ InJob(JobNext) \/ InPower(PowerNext)
  \/ InVterm(VtermNext) \/ InUploads(UploadNext) \/ InRetry(RetryNext)

\* Of the fairness of the specifications, what the properties need.
MCSpec ==
  /\ MCInit /\ [][MCNext]_AllVars
  /\ \A h \in Hosts : WF_AllVars(InImage(Step(h)))
  /\ WF_AllVars(InJob(Caller)) /\ WF_AllVars(InJob(Keeper)) /\ WF_AllVars(InJob(Ends))
  /\ WF_AllVars(InPower(Flow))
  /\ \A k \in Killers : WF_AllVars(InVterm(Killer(k)))
  /\ \A u \in Uploads : WF_AllVars(InUploads(UploadStep(u)))

\* Whatever fails, times out, crashes or is interrupted, what was begun comes to its
\* end: get_or_upload_image_lu unless an LU it cannot pass stays in the SSP, the removal
\* of a Job unless a REST call failed, the progressions of a power-off, the killer of a
\* vterm without clients, and an upload unless functions hold all permits.
EveryTaskEnds == CallEnds /\ CleanedUp /\ PowerCallEnds /\ KillerFires /\ UploadEnds
=============================================================================
