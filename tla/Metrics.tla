------------------------------- MODULE Metrics -------------------------------
(***************************************************************************)
(* The metric caches of pypowervm.tasks.monitor: MetricCache with its two  *)
(* children HostCPUMetricCache (running counts of cycles) and              *)
(* LparMetricCache (the two latest metrics of each LPAR).  The platform    *)
(* collects a sample from time to time, loses the samples it has, and      *)
(* guests are spawned, migrate in with the cycles they have spent          *)
(* elsewhere, leave and come back, or are created again under their name;  *)
(* LPAR IDs are used again.                                                *)
(***************************************************************************)
EXTENDS Integers, Sequences, FiniteSets, FiniteSetsExt, Functions

CONSTANTS
  Guests,        \* name -> [id, util, idle]: the LPAR ID and the cycles it comes with
  Cores,         \* configurable_proc_units
  Elsewhere,     \* the cycles that a guest may spend on another host
  NoSample,      \* None
  MaxStays,      \* bound on the arrivals of guests on this host
  MaxSamples,    \* bound on the samples collected
  MaxGaps,       \* bound on the losses of the samples
  MaxRefreshes,  \* bound on the refreshes
  MaxQueryFails  \* bound on the queries that fail

ASSUME MetricsConstantsOK ==
  /\ IsFiniteSet(DOMAIN Guests)
  /\ \A n \in DOMAIN Guests : Guests[n].util \in Nat /\ Guests[n].idle \in 0 .. Guests[n].util
  /\ Elsewhere \subseteq Nat

VARIABLES
  guest,         \* name -> [where, util, idle, stay]; stay: how often it came here
  fwCycles, timeCycles,  \* the counters of the platform since it was started
  samples,       \* the long term metrics feed, the latest first
  curSample, prevSample, \* cur_phyp, prev_phyp
  curDate, prevDate,     \* as the number of the refresh; 0 is None
  curMetric, prevMetric, \* LparMetricCache: the sample reduced, and its date
  firstPass,     \* is_first_pass
  due,           \* refresh_delta has passed since cur_date
  mpc,           \* where the refresh is
  total, totalFw, totalUser,  \* the running counts
  nSamples, gaps, queryFails,
  ranHere,       \* observer: user cycles spent on this host
  strayed        \* observer: what was counted between the samples of two stays

metricVars == <<guest, fwCycles, timeCycles, samples, curSample, prevSample, curDate, prevDate, curMetric, prevMetric,
  firstPass, due, mpc, total, totalFw, totalUser, nSamples, gaps, queryFails, ranHere, strayed>>
platformVars == <<guest, fwCycles, timeCycles, samples, nSamples, gaps, ranHere>>
countVars == <<curMetric, prevMetric, total, totalFw, totalUser, strayed>>

-----------------------------------------------------------------------------
\* _find_prev_sample, as the set of the sample found.
SameId(s, prev) == {p \in prev : p.id = s.id}  \* mutant: LPAR IDs are used again
FindPrev(s, prev) == {p \in prev : p.id = s.id /\ p.name = s.name}

\* _delta_user_cycles: a guest without a previous sample, or with an empty one, may
\* have brought its cycles with it.
DeltaUser(s, prev) ==
  LET known == {p \in FindPrev(s, prev) : ~(p.util = 0 /\ p.idle = 0)}
  IN  IF known = {} THEN 0 ELSE LET p == CHOOSE q \in known : TRUE IN (s.util - s.idle) - (p.util - p.idle)
\* _delta_proc_cycles over the VMs and the VIOSes.
DeltaProc(lpars, prev) == SumFunction([s \in lpars |-> DeltaUser(s, prev)])
\* The part of it that lies between two stays of a guest.
OfOneStay(s, prev) == \A p \in FindPrev(s, prev) : p.stay = s.stay
StrayDelta(lpars, prev) == SumFunction([s \in lpars |-> IF OfOneStay(s, prev) THEN 0 ELSE DeltaUser(s, prev)])

MetricsInit ==
  /\ guest = [n \in DOMAIN Guests |-> [where |-> "away", util |-> Guests[n].util, idle |-> Guests[n].idle, stay |-> 0]]
  /\ fwCycles = 0 /\ timeCycles = 0 /\ samples = <<>>
  /\ curSample = NoSample /\ prevSample = NoSample
  /\ curDate = 0 /\ prevDate = 0
  /\ curMetric = NoSample /\ prevMetric = NoSample
  /\ firstPass = FALSE /\ due = TRUE /\ mpc = "idle"
  /\ total = 0 /\ totalFw = 0 /\ totalUser = 0
  /\ nSamples = 0 /\ gaps = 0 /\ queryFails = 0 /\ ranHere = 0 /\ strayed = 0

-----------------------------------------------------------------------------
\* _refresh_if_needed and _set_prev, which assigns the previous values before the
\* query for the current ones; without current ones it asks for the second latest.
Refresh ==
  /\ mpc = "idle" /\ (curDate = 0 \/ due)
  /\ firstPass' = (curDate = 0)
  /\ IF curDate = 0
       THEN mpc' = "second latest" /\ UNCHANGED <<prevSample, prevDate>>
       ELSE mpc' = "latest" /\ prevSample' = curSample /\ prevDate' = curDate
  /\ UNCHANGED <<platformVars, countVars, curSample, curDate, due, queryFails>>
\* latest_stats and _get_metric.
LatestStats(n) == IF Len(samples) >= n THEN samples[n] ELSE NoSample
SeedPrev ==
  /\ mpc = "second latest"
  /\ prevSample' = LatestStats(2) /\ prevDate' = 1
  /\ mpc' = "latest"
  /\ UNCHANGED <<platformVars, countVars, curSample, curDate, firstPass, due, queryFails>>

\* HostCPUMetricCache._update_internal_metric.
CountCycles ==
  LET fw == curSample'.fw - (IF prevSample = NoSample THEN 0 ELSE prevSample.fw)
      prev == IF prevSample = NoSample THEN {} ELSE prevSample.lpars
      user == DeltaProc(curSample'.lpars, prev)
      tot == Cores * (curSample'.time - (IF prevSample = NoSample THEN 0 ELSE prevSample.time))
  IN  /\ total' = total + Max({tot, user + fw})
      /\ totalUser' = totalUser + user
      /\ strayed' = strayed + StrayDelta(curSample'.lpars, prev)
      /\ totalFw' = totalFw + fw
\* LparMetricCache._update_internal_metric.
KeepMetrics ==
  /\ prevMetric' = IF firstPass THEN [of |-> prevSample, date |-> prevDate] ELSE curMetric
  /\ curMetric' = [of |-> curSample', date |-> curDate']
\* The query for the latest sample and _update_internal_metric of both children.
Fetch ==
  /\ mpc = "latest"
  /\ curSample' = LatestStats(1)
  /\ curDate' = Max({curDate, prevDate}) + 1
  /\ due' = FALSE
  /\ IF curSample' = NoSample THEN UNCHANGED <<total, totalFw, totalUser, strayed>> ELSE CountCycles
  /\ KeepMetrics
  /\ mpc' = "idle"
  /\ UNCHANGED <<platformVars, prevSample, prevDate, firstPass, queryFails>>
\* An exception of a query leaves the refresh.
QueryFails ==
  /\ mpc \in {"second latest", "latest"}
  /\ queryFails < MaxQueryFails /\ queryFails' = queryFails + 1
  /\ mpc' = "idle"
  /\ UNCHANGED <<platformVars, countVars, curSample, prevSample, curDate, prevDate, firstPass, due>>
DeltaPasses ==
  /\ curDate # 0 /\ ~due /\ mpc = "idle"
  /\ curDate <= MaxRefreshes
  /\ due' = TRUE
  /\ UNCHANGED <<platformVars, countVars, curSample, prevSample, curDate, prevDate, firstPass, mpc, queryFails>>

cacheVars == <<countVars, curSample, prevSample, curDate, prevDate, firstPass, due, mpc, queryFails>>

-----------------------------------------------------------------------------
\* The platform.  A guest that migrates in has an entry of zeros until it runs here.
Here == {n \in DOMAIN guest : guest[n].where = "here"}
Known == {n \in DOMAIN guest : guest[n].where \in {"here", "arriving"}}
Reading(g, n) ==
  LET ran == g[n].where = "here"
  IN  [id |-> Guests[n].id, name |-> n, util |-> IF ran THEN g[n].util ELSE 0, idle |-> IF ran THEN g[n].idle ELSE 0,
       stay |-> g[n].stay]
Collect(busy) ==
  /\ nSamples < MaxSamples /\ nSamples' = nSamples + 1
  /\ guest' = [n \in DOMAIN guest |-> IF n \notin Here THEN guest[n] ELSE
       [guest[n] EXCEPT !.util = @ + 1, !.idle = IF n \in busy THEN @ ELSE @ + 1]]
  /\ ranHere' = ranHere + Cardinality(busy)
  /\ fwCycles' = fwCycles + 1
  /\ timeCycles' = timeCycles + 1
  /\ samples' = SubSeq(<<[fw |-> fwCycles', time |-> timeCycles', lpars |-> {Reading(guest', n) : n \in Known}]>> \o samples, 1,
                       IF samples = <<>> THEN 1 ELSE 2)
  /\ UNCHANGED <<gaps, cacheVars>>
SamplesLost ==
  /\ samples # <<>> /\ gaps < MaxGaps /\ gaps' = gaps + 1
  /\ samples' = <<>>
  /\ UNCHANGED <<guest, fwCycles, timeCycles, nSamples, ranHere, cacheVars>>
\* The counters of a guest that comes: at first those it has; later it was on another
\* host, or was deleted and is created again under its name and LPAR ID.
Comes(n) ==
  IF guest[n].stay = 0 THEN {[util |-> guest[n].util, idle |-> guest[n].idle]}
  ELSE {[util |-> guest[n].util + e, idle |-> guest[n].idle] : e \in Elsewhere} \cup {[util |-> 0, idle |-> 0]}
Arrives(n) ==
  /\ guest[n].where = "away" /\ \A m \in Known : Guests[m].id # Guests[n].id
  /\ SumFunction([m \in DOMAIN guest |-> guest[m].stay]) < MaxStays
  /\ \E c \in Comes(n) :
       guest' = [guest EXCEPT ![n] = [where |-> IF c.util > 0 THEN "arriving" ELSE "here", util |-> c.util, idle |-> c.idle, stay |-> @.stay + 1]]
Moves(n) ==
  /\ \/ Arrives(n)
     \/ guest[n].where = "arriving" /\ guest' = [guest EXCEPT ![n].where = "here"]
     \/ guest[n].where = "here" /\ guest' = [guest EXCEPT ![n].where = "away"]
  /\ UNCHANGED <<fwCycles, timeCycles, samples, nSamples, gaps, ranHere, cacheVars>>

CacheStep == Refresh \/ SeedPrev \/ Fetch \/ QueryFails \/ DeltaPasses
MetricsNext ==
  \/ CacheStep
  \/ (\E busy \in SUBSET Here : Collect(busy)) \/ SamplesLost \/ (\E n \in DOMAIN guest : Moves(n))
MetricsSpec == MetricsInit /\ [][MetricsNext]_metricVars

-----------------------------------------------------------------------------
(* Properties.                                                             *)

\* "you could get months of cycles": whatever migrates, is spawned, leaves, comes back or
\* takes an LPAR ID over, and whichever samples are lost and queries fail, the running
\* count of user cycles never exceeds the cycles that guests have spent on this host, and
\* never falls below zero, but for what _find_prev_sample, which compares ID and name
\* alone, makes of the samples of two stays of a guest.
UserCyclesAreReal == 0 <= totalUser - strayed /\ totalUser - strayed <= ranHere

\* Refuted.  "The cycles from a live migrate are brought over from the previous host" and
\* are thrown out: a guest that was elsewhere between two refreshes brings them all in,
\* and one that was created again under its name and ID takes cycles off the count.
NeverExceeds == 0 <= totalUser /\ totalUser <= ranHere

\* Refuted.  "keeps running counts of total, user, and firmware cycles": after a refresh
\* without a sample the next one adds all the cycles since the platform was started again.
FirmwareCountedOnce == totalFw <= fwCycles

\* Refuted.  "First is the date of the metric" (get_previous_metric): a refresh that
\* fails leaves the date of the current metric with the previous metric.
DateOfItsMetric == prevMetric # NoSample => prevMetric.date = prevDate
=============================================================================
