------------------------------ MODULE Partition ------------------------------
(***************************************************************************)
(* pypowervm.tasks.partition.validate_vios_ready and                       *)
(* build_active_vio_feed_task: a caller waits until the VIOSes of the host *)
(* have RMC connections, in a loop of GETs (which may fail) and sleeps,    *)
(* while the VIOSes boot, shut down, and gain and lose RMC.  Times are in  *)
(* steps of the sleep (5 seconds).                                         *)
(***************************************************************************)
EXTENDS Integers, FiniteSets

CONSTANTS
  HostVioses,   \* what the host may start with: sets of VIOSes
  LowWait,      \* _LOW_WAIT_TIME
  HighWait,     \* _HIGH_WAIT_TIME
  UptimeCutoff, \* _UPTIME_CUTOFF
  NoLimit,      \* max_wait_time=None
  Limits,       \* the values of max_wait_time
  MaxGetFails,  \* bound on the GETs that fail
  MaxViosEvents     \* bound on the changes of the VIOSes

ASSUME PartitionConstantsOK ==
  /\ LowWait \in Nat /\ HighWait \in Nat /\ LowWait <= HighWait
  /\ Limits \subseteq Nat \cup {NoLimit}
  /\ MaxGetFails \in Nat /\ MaxViosEvents \in Nat

ViosStates ==
  [state : {"not activated", "starting", "running"}, rmc : {"active", "busy", "inactive"}, uptime : Nat, mgmt : BOOLEAN]
ASSUME HostViosesOK == \A vs \in HostVioses : \A n \in DOMAIN vs : vs[n] \in ViosStates

VARIABLES
  host,       \* the VIOSes: name -> [state, rmc, uptime, mgmt]
  viosFeed,       \* vios_wraps
  waitsFor,   \* rmc_down_vioses
  waited,     \* time_waited
  limit,      \* max_wait_time
  wpc,        \* where the caller is
  getFails, viosEvents,
  steady,     \* observer: VIOSes that have been active since the call
  seen        \* observer: a GET has succeeded

partVars == <<host, viosFeed, waitsFor, waited, limit, wpc, getFails, viosEvents, steady, seen>>

-----------------------------------------------------------------------------
\* get_active_vioses, with _VALID_VM_STATES and _VALID_RMC_STATES.
IsActive(v) == v.state = "running" /\ (v.rmc \in {"active", "busy"} \/ v.mgmt)
ActiveOf(vs) == {n \in DOMAIN vs : IsActive(vs[n])}

\* _rmc_down: a VIOS on its way up counts, one of _DOWN_VM_STATES does not.
RmcDown(v) == ~v.mgmt /\ v.rmc \notin {"active", "busy"} /\ v.state # "not activated"

\* _vios_waits_timed_out.
AllYoung(W) == \A n \in W : viosFeed[n].uptime <= UptimeCutoff  \* mutant: every VIOS must be young
SomeYoung(W) == \E n \in W : viosFeed[n].uptime <= UptimeCutoff
WaitTime == IF limit # NoLimit THEN limit ELSE IF SomeYoung(waitsFor) THEN HighWait ELSE LowWait
TimedOut == waited >= WaitTime

PartitionInit ==
  /\ host \in HostVioses
  /\ viosFeed = <<>> /\ waitsFor = {}
  /\ waited = 0
  /\ limit \in Limits
  /\ wpc = "get"
  /\ getFails = 0 /\ viosEvents = 0
  /\ steady = ActiveOf(host) /\ seen = FALSE

\* One iteration of _wait_for_vioses: VIOS.get, and the test for success.
Stable(vs) == DOMAIN vs = {} \/ ((\A n \in DOMAIN vs : ~RmcDown(vs[n])) /\ ActiveOf(vs) # {})
GetVioses ==
  /\ wpc = "get"
  /\ viosFeed' = host
  /\ waitsFor' = {n \in DOMAIN host : RmcDown(host[n])}
  /\ seen' = TRUE
  /\ wpc' = IF Stable(host) THEN "report" ELSE "check"
  /\ UNCHANGED <<host, waited, limit, getFails, viosEvents, steady>>

\* "Things like 'Service Unavailable'": the last feed stays.
GetFails ==
  /\ wpc = "get" /\ getFails < MaxGetFails
  /\ getFails' = getFails + 1
  /\ wpc' = "check"
  /\ UNCHANGED <<host, viosFeed, waitsFor, waited, limit, viosEvents, steady, seen>>

\* The time of the VIOSes goes on with that of the caller.
SleepStep ==
  /\ wpc = "check" /\ ~TimedOut
  /\ waited' = waited + 1
  /\ host' = [n \in DOMAIN host |-> IF host[n].state = "not activated" THEN host[n] ELSE [host[n] EXCEPT !.uptime = @ + 1]]
  /\ wpc' = "get"
  /\ UNCHANGED <<viosFeed, waitsFor, limit, getFails, viosEvents, steady, seen>>

GivesUp ==
  /\ wpc = "check" /\ TimedOut
  /\ wpc' = "report"
  /\ UNCHANGED <<host, viosFeed, waitsFor, waited, limit, getFails, viosEvents, steady, seen>>

\* validate_vios_ready: ViosNotAvailable if no VIOS of the last feed is active.
Report ==
  /\ wpc = "report"
  /\ wpc' = IF ActiveOf(viosFeed) = {} THEN "not available" ELSE "ready"
  /\ UNCHANGED <<host, viosFeed, waitsFor, waited, limit, getFails, viosEvents, steady, seen>>

\* build_active_vio_feed_task: a GET of its own; NotEnoughActiveVioses.
BuildFeedTask ==
  /\ wpc = "ready"
  /\ viosFeed' = [n \in ActiveOf(host) |-> host[n]]
  /\ wpc' = IF ActiveOf(host) = {} THEN "not enough" ELSE "task"
  /\ UNCHANGED <<host, waitsFor, waited, limit, getFails, viosEvents, steady, seen>>

-----------------------------------------------------------------------------
\* The VIOSes: power and RMC.
Becomes(n, v) ==
  /\ host' = [host EXCEPT ![n] = v]
  /\ steady' = steady \cap ActiveOf(host')
ViosChanges(n) ==
  /\ viosEvents < MaxViosEvents /\ viosEvents' = viosEvents + 1
  /\ LET v == host[n] IN
       \/ v.state = "not activated" /\ Becomes(n, [v EXCEPT !.state = "starting", !.uptime = 0])
       \/ v.state = "starting" /\ Becomes(n, [v EXCEPT !.state = "running"])
       \/ v.state # "not activated" /\ Becomes(n, [v EXCEPT !.state = "not activated", !.rmc = "inactive", !.uptime = 0])
       \/ v.state = "running" /\ \E r \in {"active", "busy", "inactive"} \ {v.rmc} : Becomes(n, [v EXCEPT !.rmc = r])
  /\ UNCHANGED <<viosFeed, waitsFor, waited, limit, wpc, getFails, seen>>

Waits == GetVioses \/ GetFails \/ SleepStep \/ GivesUp \/ Report \/ BuildFeedTask
PartitionNext == Waits \/ \E n \in DOMAIN host : ViosChanges(n)

PartitionSpec == PartitionInit /\ [][PartitionNext]_partVars

-----------------------------------------------------------------------------
(* Properties.                                                             *)

\* validate_vios_ready "attempts to ensure all running VIOSes get an active RMC":
\* whatever the VIOSes do and whichever GETs fail, it never waits beyond the longest
\* time; it does not raise if a VIOS has been active all along (and a GET has
\* succeeded); and it leaves a young VIOS without RMC, as last seen, only after the
\* long wait, an old one only after the short one.
WaitIsFair ==
  /\ waited <= IF limit = NoLimit THEN HighWait ELSE limit
  /\ wpc = "not available" /\ seen => steady = {}
  /\ wpc \in {"ready", "not available"} /\ limit = NoLimit =>
       \A n \in DOMAIN viosFeed : RmcDown(viosFeed[n]) =>
         waited >= IF viosFeed[n].uptime <= UptimeCutoff THEN HighWait ELSE LowWait

\* Refuted if more GETs may fail than the short wait has.  "if any VIOS is still early
\* in its startup, wait longer to give RMC time to come up": it gives up after the
\* short wait if it has seen no VIOS at all.
YoungAreAwaited ==
  wpc = "not available" /\ limit = NoLimit /\ (\E n \in DOMAIN host : RmcDown(host[n]) /\ host[n].uptime <= UptimeCutoff)
    => waited >= HighWait \/ DOMAIN viosFeed # {}
=============================================================================
