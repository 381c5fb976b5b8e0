-------------------------- MODULE PlacementProofs --------------------------
(***************************************************************************)
(* Proofs about the tasks that choose where something goes, or when, for   *)
(* every host and every number of callers: Partition (the wait for active  *)
(* VIOSes), LogicalUnits (what an update of the SSP removes), Vopt (the    *)
(* media repository), PointToPoint (a VLAN of its own) and SlotMap (the    *)
(* slots of a rebuilt LPAR).                                               *)
(***************************************************************************)
EXTENDS Partition, LogicalUnits, Vopt, PointToPoint, SlotMap, FiniteSetTheorems, NaturalsInduction, WellFoundedInduction, TLAPS

-----------------------------------------------------------------------------
(* Partition.                                                              *)

\* The values of the variables of Partition that the argument needs.
PartTyped ==
  /\ \A n \in DOMAIN host : host[n] \in ViosStates
  /\ limit \in Limits
  /\ waited \in Nat
  /\ wpc \in {"get", "check", "report", "ready", "not available", "not enough", "task"}

\* Until build_active_vio_feed_task makes its own, the feed is that of the last GET.
Waiting == {"get", "check", "report", "ready", "not available"}
FeedIsLast ==
  wpc \in Waiting =>
    /\ waitsFor = {n \in DOMAIN viosFeed : RmcDown(viosFeed[n])}
    /\ seen => steady \subseteq ActiveOf(viosFeed)

\* The caller reports when it waits for nobody, or has waited for long enough.
WaitIsOver ==
  wpc \in {"report", "ready", "not available"} => waitsFor = {} \/ TimedOut

PartInv ==
  /\ PartTyped /\ FeedIsLast /\ WaitIsOver
  /\ waited <= IF limit = NoLimit THEN HighWait ELSE limit
  /\ steady \subseteq ActiveOf(host)
  /\ wpc = "not available" /\ seen => steady = {}

\* Before the first GET of the VIOSes, PartInv holds.
LEMMA PartInitial == PartitionInit => PartInv
<1> SUFFICES ASSUME PartitionInit PROVE PartInv
  OBVIOUS
<1>1. PartTyped
  BY HostViosesOK DEF PartitionInit, PartTyped
<1>2. FeedIsLast
  BY DEF PartitionInit, FeedIsLast
<1>3. waited <= IF limit = NoLimit THEN HighWait ELSE limit
  BY PartitionConstantsOK DEF PartitionInit
<1> QED
  BY <1>1, <1>2, <1>3 DEF PartitionInit, PartInv, WaitIsOver

\* The time that has been waited is a natural number of seconds.
LEMMA WaitTimeType ==
  ASSUME PartInv
  PROVE  WaitTime \in Nat /\ (limit = NoLimit => WaitTime <= HighWait) /\ (limit # NoLimit => WaitTime = limit)
<1>1. limit # NoLimit => limit \in Nat
  BY PartitionConstantsOK DEF PartInv, PartTyped
<1>2. IF limit # NoLimit THEN WaitTime = limit ELSE WaitTime \in {HighWait, LowWait}
  BY DEF WaitTime
<1> QED
  BY <1>1, <1>2, PartitionConstantsOK

\* Every GET, check, sleep and change on the host keeps PartInv.
LEMMA PartStep == PartInv /\ [PartitionNext]_partVars => PartInv'
<1> SUFFICES ASSUME PartInv, [PartitionNext]_partVars PROVE PartInv'
  OBVIOUS
<1>1. CASE GetVioses
  <2>1. PartTyped'
    BY <1>1 DEF GetVioses, PartInv, PartTyped
  <2>2. FeedIsLast'
    BY <1>1 DEF GetVioses, PartInv, FeedIsLast, RmcDown, ActiveOf, IsActive
  <2>3. WaitIsOver'
    BY <1>1 DEF GetVioses, WaitIsOver, Stable
  <2> QED
    BY <1>1, <2>1, <2>2, <2>3 DEF GetVioses, PartInv, ActiveOf, IsActive
<1>2. CASE GetFails
  BY <1>2 DEF GetFails, PartInv, PartTyped, FeedIsLast, Waiting, WaitIsOver, RmcDown, ActiveOf, IsActive
<1>3. CASE SleepStep
  <2>1. waited \in Nat /\ waited < WaitTime /\ waited' = waited + 1 /\ limit' = limit
    <3>1. ~(waited >= WaitTime) /\ waited' = waited + 1 /\ limit' = limit
      BY <1>3 DEF SleepStep, TimedOut
    <3>2. waited \in Nat /\ WaitTime \in Nat
      BY WaitTimeType DEF PartInv, PartTyped
    <3> QED
      BY <3>1, <3>2
  <2>2. \A n \in DOMAIN host : host'[n] = host[n] \/ host'[n] = [host[n] EXCEPT !.uptime = @ + 1]
    BY <1>3 DEF SleepStep
  <2>3. DOMAIN host' = DOMAIN host
    BY <1>3 DEF SleepStep
  <2>4. \A n \in DOMAIN host :
          /\ host'[n] \in ViosStates
          /\ host'[n].state = host[n].state /\ host'[n].rmc = host[n].rmc /\ host'[n].mgmt = host[n].mgmt
    <3> TAKE n \in DOMAIN host
    <3>1. host[n] \in ViosStates
      BY DEF PartInv, PartTyped
    <3>2. CASE host'[n] = host[n]
      BY <3>1, <3>2
    <3>3. CASE host'[n] = [host[n] EXCEPT !.uptime = @ + 1]
      <4>0. host[n].uptime \in Nat
        BY <3>1 DEF ViosStates
      <4>1. host[n].uptime + 1 \in Nat
        BY <4>0
      <4> QED
        BY <3>1, <3>3, <4>1 DEF ViosStates
    <3> QED
      BY <2>2, <3>2, <3>3
  <2>5. ActiveOf(host') = ActiveOf(host)
    BY <2>3, <2>4 DEF ActiveOf, IsActive
  <2>6. PartTyped'
    <3>1. waited' \in Nat
      BY <2>1
    <3>2. \A n \in DOMAIN host' : host'[n] \in ViosStates
      BY <2>3, <2>4
    <3> QED
      BY <1>3, <3>1, <3>2 DEF SleepStep, PartInv, PartTyped
  <2>7. waited' <= IF limit' = NoLimit THEN HighWait ELSE limit'
    <3>1. waited \in Nat /\ WaitTime \in Nat /\ HighWait \in Nat
      BY WaitTimeType, PartitionConstantsOK DEF PartInv, PartTyped
    <3>2. waited + 1 <= WaitTime
      BY <2>1, <3>1
    <3>3. CASE limit = NoLimit
      <4>1. WaitTime <= HighWait
        BY <3>3, WaitTimeType
      <4>2. waited + 1 <= HighWait
        BY <3>1, <3>2, <4>1
      <4> QED
        BY <2>1, <3>3, <4>2
    <3>4. CASE limit # NoLimit
      BY <2>1, <3>2, <3>4, WaitTimeType
    <3> QED
      BY <3>3, <3>4
  <2>8. FeedIsLast' /\ WaitIsOver'
    BY <1>3 DEF SleepStep, PartInv, FeedIsLast, Waiting, WaitIsOver, RmcDown, ActiveOf, IsActive
  <2> QED
    BY <1>3, <2>5, <2>6, <2>7, <2>8 DEF SleepStep, PartInv
<1>4. CASE GivesUp
  <2>1. TimedOut' = TimedOut
    BY <1>4 DEF GivesUp, TimedOut, WaitTime, SomeYoung
  <2> QED
    BY <1>4, <2>1 DEF GivesUp, PartInv, PartTyped, FeedIsLast, Waiting, WaitIsOver, RmcDown, ActiveOf, IsActive
<1>5. CASE Report
  <2>1. TimedOut' = TimedOut
    BY <1>5 DEF Report, TimedOut, WaitTime, SomeYoung
  <2>2. wpc' = "not available" /\ seen' => steady' = {}
    BY <1>5 DEF Report, PartInv, FeedIsLast, Waiting
  <2> QED
    BY <1>5, <2>1, <2>2 DEF Report, PartInv, PartTyped, FeedIsLast, Waiting, WaitIsOver, RmcDown, ActiveOf, IsActive
<1>6. CASE BuildFeedTask
  BY <1>6 DEF BuildFeedTask, PartInv, PartTyped, FeedIsLast, Waiting, WaitIsOver, ActiveOf, IsActive
<1>7. ASSUME NEW n \in DOMAIN host, ViosChanges(n) PROVE PartInv'
  <2>1. PICK v : host' = [host EXCEPT ![n] = v] /\ steady' = steady \cap ActiveOf(host')
                 /\ v \in ViosStates
    BY <1>7, ZenonT(60) DEF ViosChanges, Becomes, PartInv, PartTyped, ViosStates
  <2>2. UNCHANGED <<viosFeed, waitsFor, waited, limit, wpc, getFails, seen>>
    BY <1>7 DEF ViosChanges
  <2>3. PartTyped'
    BY <2>1, <2>2 DEF PartInv, PartTyped
  <2>4. TimedOut' = TimedOut
    BY <2>2 DEF TimedOut, WaitTime, SomeYoung
  <2>5. FeedIsLast' /\ WaitIsOver'
    BY <2>1, <2>2, <2>4 DEF PartInv, FeedIsLast, WaitIsOver, RmcDown, ActiveOf, IsActive
  <2> QED
    BY <2>1, <2>2, <2>3, <2>5 DEF PartInv
<1>8. CASE UNCHANGED partVars
  <2>1. TimedOut' = TimedOut
    BY <1>8 DEF partVars, TimedOut, WaitTime, SomeYoung
  <2> QED
    BY <1>8, <2>1 DEF partVars, PartInv, PartTyped, FeedIsLast, WaitIsOver, RmcDown, ActiveOf, IsActive
<1> QED
  BY <1>1, <1>2, <1>3, <1>4, <1>5, <1>6, <1>7, <1>8 DEF PartitionNext, Waits

\* validate_vios_ready (tasks/partition.py), for every host, timeout and number of GETs that
\* fail: see WaitIsFair.
THEOREM WaitsAreFair == PartitionSpec => []WaitIsFair
<1>1. PartInv => WaitIsFair
  <2> SUFFICES ASSUME PartInv PROVE WaitIsFair
    OBVIOUS
  <2>1. ASSUME wpc \in {"ready", "not available"}, limit = NoLimit, NEW n \in DOMAIN viosFeed, RmcDown(viosFeed[n])
        PROVE  waited >= IF viosFeed[n].uptime <= UptimeCutoff THEN HighWait ELSE LowWait
    <3>1. n \in waitsFor
      BY <2>1 DEF PartInv, FeedIsLast, Waiting
    <3>2. waited >= WaitTime
      BY <2>1, <3>1 DEF PartInv, WaitIsOver, TimedOut
    <3>3. viosFeed[n].uptime <= UptimeCutoff => WaitTime = HighWait
      BY <2>1, <3>1 DEF WaitTime, SomeYoung
    <3>4. WaitTime \in {HighWait, LowWait}
      BY <2>1 DEF WaitTime
    <3> QED
      <4>1. waited \in Nat
        BY DEF PartInv, PartTyped
      <4>2. CASE viosFeed[n].uptime <= UptimeCutoff
        BY <3>2, <3>3, <4>2
      <4>3. waited >= LowWait
        BY <3>2, <3>4, <4>1, PartitionConstantsOK
      <4> QED
        BY <4>2, <4>3
  <2> QED
    BY <2>1 DEF WaitIsFair, PartInv
<1> QED
  BY <1>1, PartInitial, PartStep, PTL DEF PartitionSpec

-----------------------------------------------------------------------------
(* LogicalUnits.                                                           *)

\* The wrapper of an SSP transaction is of the past, and with the etag of the SSP it has
\* the LUs of the SSP.  (The feed of a Tier has no etag.)
WrapperIsPast(t) ==
  luCall[t].op # "rm_tier" =>
    copyEtag[t] <= poolEtag /\ (copyEtag[t] = poolEtag => copyLus[t] = pool)

LuInv ==
  /\ pool \subseteq AllLus /\ poolEtag \in Nat
  /\ luCall \in [LuCallers -> LuCalls]
  /\ DOMAIN luPc = LuCallers /\ DOMAIN copyLus = LuCallers /\ copyEtag \in [LuCallers -> Nat]
  /\ \A t \in LuCallers :
       /\ luPc[t] = "create" => luCall[t].op = "clone"
       /\ luPc[t] = "modify" => luCall[t].op = "rm_ssp"
       /\ WrapperIsPast(t)

\* The LUs of a call are LUs.
LEMMA CallsLusAreLus == ASSUME NEW call \in LuCalls PROVE LusOf(call) \subseteq AllLus
<1> SUFFICES ASSUME NEW lu \in LusOf(call) PROVE lu \in AllLus
  OBVIOUS
<1> DEFINE mine == {LusOf(c) : c \in LuCalls}
<1>1. AllLus = (UNION LuPools) \cup (UNION mine)
  BY DEF AllLus
<1>2. LusOf(call) \in mine
  OBVIOUS
<1> HIDE DEF mine
<1> QED
  BY <1>1, <1>2

\* What _rm_lus takes out of a list of LUs.
LEMMA RmLusTakes ==
  ASSUME NEW lus \in SUBSET AllLus, NEW call \in LuCalls, call.op # "clone",
         NEW left, left = lus \ RmLus(lus, call)
  PROVE  /\ \A lu \in lus \ left : lu \in call.lus \/ (lu.typ = "Image" /\ call.images /\ ~HasClones(left, lu))
         /\ call.images => \A img \in left :
              img.typ = "Image" /\ ~HasClones(left, img) => \A lu \in lus \ left : ~HasClones({lu}, img)
<1> DEFINE rest == RmDevsByUdid(lus, call.lus)
           unused == UnusedImages(lus, call)
           images == UNION {ImageLuForClone(rest, lu) : lu \in {l \in call.lus : l.typ = "Disk"}}
<1>1. call.lus \subseteq AllLus
  BY CallsLusAreLus DEF LusOf
<1>2. left = rest \ unused /\ rest \subseteq lus
  BY DEF RmLus, RmDevsByUdid
<1>3. \A lu \in lus \ rest : lu \in call.lus
  BY <1>1, UdidsIdentify DEF RmDevsByUdid
<1>4. unused = IF call.images THEN {i \in images : ~ImageLuInUse(rest, i)} ELSE {}
  BY DEF UnusedImages
<1>5. \A i \in images : i \in rest /\ i.typ = "Image"
  BY DEF ImageLuForClone
<1>6. \A i \in unused : i.typ = "Image" /\ call.images /\ ~HasClones(left, i)
  BY <1>2, <1>4, <1>5 DEF ImageLuInUse, LinkedTo, SameUdid, Body, HasClones
<1>7. \A lu \in lus \ left : lu \in call.lus \/ (lu.typ = "Image" /\ call.images /\ ~HasClones(left, lu))
  BY <1>2, <1>3, <1>6
<1>8. ASSUME call.images, NEW img \in left, img.typ = "Image", ~HasClones(left, img),
             NEW lu \in lus \ left, HasClones({lu}, img)
      PROVE  FALSE
  <2>1. lu.typ = "Disk" /\ LinkedTo(lu, img)
    BY <1>8 DEF HasClones, LinkedTo, SameUdid, Body
  <2>2. lu \in call.lus
    BY <1>2, <1>3, <1>6, <1>8, <2>1
  <2>3. img \in images
    BY <1>2, <1>8, <2>1, <2>2 DEF ImageLuForClone
  <2>4. ~ImageLuInUse(rest, img)
    <3> SUFFICES ASSUME NEW d \in rest, d.typ = "Disk", LinkedTo(d, img) PROVE FALSE
      BY DEF ImageLuInUse
    <3>1. d \in left
      BY <1>2, <1>6
    <3> QED
      BY <1>8, <3>1 DEF HasClones, LinkedTo, SameUdid, Body
  <2> QED
    BY <1>2, <1>4, <1>8, <2>3, <2>4
<1> QED
  BY <1>7, <1>8

\* Before the first call, LuInv holds.
LEMMA LuInitial == LuInit => LuInv
BY DEF LuInit, LuInv, WrapperIsPast, AllLus

\* Every read and every update of a caller, and every change of the SSP, keeps LuInv.
LEMMA LuInvStep == LuInv /\ [LuNext]_luVars => LuInv'
<1> SUFFICES ASSUME LuInv, [LuNext]_luVars PROVE LuInv'
  OBVIOUS
<1> USE DEF LuInv, WrapperIsPast, LuGoto, RefreshSsp
<1>1. ASSUME NEW t \in LuCallers, FindTier(t) PROVE LuInv'
  BY <1>1 DEF FindTier
<1>2. ASSUME NEW t \in LuCallers, CreateLu(t) PROVE LuInv'
  <2>1. luCall[t].new \in AllLus
    BY <1>2, CallsLusAreLus DEF CreateLu, LusOf
  <2> QED
    BY <1>2, <2>1 DEF CreateLu
<1>3. ASSUME NEW t \in LuCallers, RefreshAfterCreate(t) PROVE LuInv'
  BY <1>3 DEF RefreshAfterCreate
<1>4. ASSUME NEW t \in LuCallers, EnterTransaction(t) PROVE LuInv'
  BY <1>4 DEF EnterTransaction
<1>5. ASSUME NEW t \in LuCallers, UpdateSsp(t) PROVE LuInv'
  BY <1>5 DEF UpdateSsp, EtagMatches
<1>6. ASSUME NEW t \in LuCallers, RetryWithFreshSsp(t) PROVE LuInv'
  BY <1>6 DEF RetryWithFreshSsp
<1>7. ASSUME NEW t \in LuCallers, PlanDeletes(t) PROVE LuInv'
  BY <1>7 DEF PlanDeletes
<1>8. ASSUME NEW t \in LuCallers, DeleteOne(t) PROVE LuInv'
  BY <1>8 DEF DeleteOne
<1>9. ASSUME NEW t \in LuCallers, AllDeleted(t) PROVE LuInv'
  BY <1>9 DEF AllDeleted
<1>10. CASE UNCHANGED luVars
  BY <1>10 DEF luVars
<1> QED
  BY <1>1, <1>2, <1>3, <1>4, <1>5, <1>6, <1>7, <1>8, <1>9, <1>10 DEF LuNext, LuStep

\* An update of the SSP that is accepted removes what the call asked for and the images
\* that this leaves without a clone, and nothing else.
LEMMA UpdateIsExact ==
  ASSUME LuInv, LuNext, NEW t \in LuCallers
  PROVE  UpdateIsClean(t)
<1> SUFFICES ASSUME luPc[t] = "modify", luPc'[t] = "done" PROVE UpdateIsClean(t)
  BY DEF UpdateIsClean
<1>1. UpdateSsp(t)
  BY DEF LuNext, LuStep, FindTier, CreateLu, RefreshAfterCreate, EnterTransaction, UpdateSsp, RetryWithFreshSsp,
         PlanDeletes, DeleteOne, AllDeleted, LuGoto, LuInv
<1>2. CASE pool' = pool
  BY <1>2 DEF UpdateIsClean
<1>3. CASE EtagMatches(t) /\ pool' = copyLus[t] \ RmLus(copyLus[t], luCall[t])
  <2>1. luCall[t].op = "rm_ssp" /\ copyLus[t] = pool /\ luCall[t] \in LuCalls /\ pool \in SUBSET AllLus
    BY <1>3 DEF LuInv, WrapperIsPast, EtagMatches
  <2>2. pool' = pool \ RmLus(pool, luCall[t])
    BY <1>3, <2>1
  <2>3. /\ \A lu \in pool \ pool' : lu \in luCall[t].lus \/ (lu.typ = "Image" /\ luCall[t].images /\ ~HasClones(pool', lu))
        /\ luCall[t].images => \A img \in pool' :
             img.typ = "Image" /\ ~HasClones(pool', img) => \A lu \in pool \ pool' : ~HasClones({lu}, img)
    BY <2>1, <2>2, RmLusTakes
  <2> QED
    BY <2>2, <2>3 DEF LostImage, UpdateIsClean
<1> QED
  BY <1>1, <1>2, <1>3 DEF UpdateSsp

\* rm_ssp_storage (tasks/storage.py), for every SSP and every number of callers that create
\* and remove LUs meanwhile: see ImageGoesWithLastClone.
THEOREM ImagesGoWithLastClone == LuSpec => ImageGoesWithLastClone
<1>1. LuInv /\ [LuNext]_luVars => [\A t \in LuCallers : UpdateIsClean(t)]_luVars
  BY UpdateIsExact
<1> QED
  BY <1>1, LuInitial, LuInvStep, PTL DEF LuSpec, ImageGoesWithLastClone

-----------------------------------------------------------------------------
(* Vopt.                                                                   *)

\* A set of natural numbers that is not empty has a least element: the CHOOSE of a least
\* index, and so the first match of a search in the code, exists.
LEMMA LeastNat ==
  ASSUME NEW T, T \subseteq Nat, T # {}
  PROVE  \E x \in T : \A y \in T : x <= y
<1>1. PICK x \in T : \A y \in T : ~(<<y, x>> \in OpToRel(<, Nat))
  BY NatLessThanWellFounded, WFMin
<1>2. \A y \in T : ~(y < x)
  BY <1>1 DEF OpToRel
<1> QED
  BY <1>2

\* The first element of a sequence with a property, if there is one, is one of them.
LEMMA FirstOfIsFirst ==
  ASSUME NEW X, NEW seq \in Seq(X), NEW S, \E i \in DOMAIN seq : seq[i] \in S
  PROVE  \E i \in DOMAIN seq : FirstOf(S, seq) = seq[i] /\ seq[i] \in S /\ \A j \in 1 .. i - 1 : seq[j] \notin S
<1> DEFINE T == {i \in DOMAIN seq : seq[i] \in S}
<1>1. DOMAIN seq = 1 .. Len(seq) /\ Len(seq) \in Nat
  OBVIOUS
<1>2. T \subseteq Nat /\ T # {}
  BY <1>1
<1>3. PICK i \in T : \A j \in T : i <= j
  <2> HIDE DEF T
  <2> QED
    BY <1>2, LeastNat
<1>4. i \in DOMAIN seq /\ seq[i] \in S /\ \A j \in 1 .. i - 1 : seq[j] \notin S
  BY <1>1, <1>3
<1> QED
  BY <1>4 DEF FirstOf

\* The media of a group, and the group that a caller means to create a repository in:
\* if the etag is still the one that was read, the group still has no repository.
ConfIsPast(t) ==
  conf[t] # NotFound =>
    /\ conf[t].vg \in AllVgs /\ conf[t].etag \in Nat
    /\ conf[t].etag <= vgEtag[conf[t].vg]
    /\ VgIsCurrent(t) => repo[conf[t].vg] = NoRepo

VoptInv ==
  /\ repo \in [AllVgs -> {NoRepo} \cup SUBSET (1 .. MaxMedia)]
  /\ vgEtag \in [AllVgs -> Nat]
  /\ nMedia \in 0 .. MaxMedia
  /\ DOMAIN conf = VoptCallers /\ DOMAIN vpc = VoptCallers
  /\ \A t \in VoptCallers : ConfIsPast(t) /\ (vpc[t] = "create" => conf[t] # NotFound)

\* A group that the scan of a VIOS remembers has no repository.
LEMMA RememberedIsBare ==
  ASSUME NEW v,
         NEW before,
         before = {g \in UsableVgs(v) : WithRepo(v) = {} \/
                     (g # FirstOf(WithRepo(v), VoptGroups[v]) /\ FirstOf({FirstOf(WithRepo(v), VoptGroups[v]), g}, VoptGroups[v]) = g)},
         before # {}
  PROVE  LET g == FirstOf(before, VoptGroups[v]) IN g \in AllVgs /\ repo[g] = NoRepo
<1> DEFINE seq == VoptGroups[v]
           g == FirstOf(before, seq)
           first == FirstOf(WithRepo(v), seq)
<1>1. \A h \in AllVgs : HostOf(h) = v => v \in DOMAIN VoptGroups /\ \E i \in DOMAIN seq : seq[i] = h
  <2> SUFFICES ASSUME NEW h \in AllVgs, HostOf(h) = v PROVE v \in DOMAIN VoptGroups /\ \E i \in DOMAIN seq : seq[i] = h
    OBVIOUS
  <2>1. \E w \in DOMAIN VoptGroups : \E i \in DOMAIN VoptGroups[w] : VoptGroups[w][i] = h
    BY DEF AllVgs
  <2> QED
    BY <2>1 DEF HostOf
<1>2. \A h \in before : h \in AllVgs /\ HostOf(h) = v
  BY VoptConstantsOK DEF UsableVgs
<1>3. seq \in Seq(AllVgs) /\ \E i \in DOMAIN seq : seq[i] \in before
  BY <1>1, <1>2, VoptConstantsOK
<1>4. g \in before
  BY <1>3, FirstOfIsFirst, ZenonT(60)
<1>5. g \in AllVgs /\ HostOf(g) = v
  BY <1>2, <1>4
<1> HIDE DEF g
<1>6. ASSUME repo[g] # NoRepo PROVE FALSE
  <2>1. g \in WithRepo(v)
    BY <1>5, <1>6 DEF WithRepo
  <2>2. g # first /\ FirstOf({first, g}, seq) = g
    BY <1>4, <2>1
  <2>3. \E i \in DOMAIN seq : seq[i] \in WithRepo(v)
    BY <1>1, <1>5, <2>1
  <2>4. PICK i \in DOMAIN seq : first = seq[i] /\ seq[i] \in WithRepo(v) /\ \A j \in 1 .. i - 1 : seq[j] \notin WithRepo(v)
    BY <1>3, <2>3, FirstOfIsFirst
  <2>5. \E k \in DOMAIN seq : seq[k] \in {first, g}
    BY <2>4
  <2>6. PICK k \in DOMAIN seq : g = seq[k] /\ \A j \in 1 .. k - 1 : seq[j] \notin {first, g}
    BY <1>3, <2>2, <2>5, FirstOfIsFirst, SMTT(30)
  <2> HIDE DEF first
  <2>7. i \in Nat /\ k \in Nat /\ 1 <= i /\ 1 <= k
    BY <1>3
  <2>8. ~(i < k)
    BY <2>4, <2>6, <2>7
  <2>9. ~(k < i)
    BY <2>1, <2>4, <2>6, <2>7
  <2> QED
    BY <2>2, <2>4, <2>6, <2>7, <2>8, <2>9
<1> QED
  BY <1>5, <1>6 DEF g

\* Before the first call VoptInv holds.
LEMMA VoptInitial == VoptInit => VoptInv
<1> SUFFICES ASSUME VoptInit PROVE VoptInv
  OBVIOUS
<1>1. repo \in [AllVgs -> {NoRepo} \cup SUBSET (1 .. MaxMedia)] /\ vgEtag \in [AllVgs -> Nat]
  BY DEF VoptInit
<1>2. nMedia \in 0 .. MaxMedia
  BY VoptConstantsOK DEF VoptInit
<1> QED
  BY <1>1, <1>2 DEF VoptInit, VoptInv, ConfIsPast

\* Every step of a search, of a creation and of the server keeps VoptInv.
LEMMA VoptInvStep == VoptInv /\ [VoptNext]_voptVars => VoptInv'
<1> SUFFICES ASSUME VoptInv, [VoptNext]_voptVars PROVE VoptInv'
  OBVIOUS
<1> USE DEF VoptGoto, Server, VoptInv
<1>1. ASSUME NEW t \in VoptCallers,
             CallVopt(t) \/ ReadVg(t) \/ ValidateVg(t) \/ SaveVg(t) \/ SaveVios(t) \/ ReturnVios(t) \/ ReturnVg(t) \/ CreateFails(t)
      PROVE  VoptInv'
  BY <1>1 DEF CallVopt, ReadVg, ValidateVg, SaveVg, SaveVios, ReturnVios, ReturnVg, CreateFails, ConfIsPast, VgIsCurrent
<1>2. ASSUME NEW t \in VoptCallers, GetActives(t) PROVE VoptInv'
  BY <1>2 DEF GetActives, ConfIsPast, VgIsCurrent
<1>3. ASSUME NEW t \in VoptCallers, ScanVios(t) PROVE VoptInv'
  <2> DEFINE v == Head(scan[t])
             before == {g \in UsableVgs(v) : WithRepo(v) = {} \/
                          (g # FirstOf(WithRepo(v), VoptGroups[v]) /\ FirstOf({FirstOf(WithRepo(v), VoptGroups[v]), g}, VoptGroups[v]) = g)}
             g0 == FirstOf(before, VoptGroups[v])
  <2>1. UNCHANGED <<repo, vgEtag, nMedia>> /\ vpc[t] = "scan"
    BY <1>3 DEF ScanVios
  <2>2. (UNCHANGED vpc \/ vpc' = [vpc EXCEPT ![t] = "raised"])
    BY <1>3 DEF ScanVios
  <2>3. \/ conf' = conf
        \/ before # {} /\ conf' = [conf EXCEPT ![t] = [vg |-> g0, vios |-> v, etag |-> vgEtag[g0]]]
    BY <1>3 DEF ScanVios
  <2>4. CASE conf' = conf
    BY <2>1, <2>2, <2>4 DEF ConfIsPast, VgIsCurrent
  <2>5. CASE before # {} /\ conf' = [conf EXCEPT ![t] = [vg |-> g0, vios |-> v, etag |-> vgEtag[g0]]]
    <3>1. g0 \in AllVgs /\ repo[g0] = NoRepo
      BY <2>5, RememberedIsBare
    <3> HIDE DEF g0, before, v
    <3>2. ConfIsPast(t)'
      BY <2>1, <2>5, <3>1 DEF ConfIsPast, VgIsCurrent
    <3>3. ASSUME NEW u \in VoptCallers, u # t PROVE ConfIsPast(u)' /\ (vpc'[u] = "create" => conf'[u] # NotFound)
      BY <2>1, <2>2, <2>5, <3>3 DEF ConfIsPast, VgIsCurrent
    <3>4. vpc'[t] # "create"
      BY <2>1, <2>2
    <3> QED
      BY <2>1, <2>2, <2>5, <3>2, <3>3, <3>4
  <2> QED
    BY <2>3, <2>4, <2>5
<1>4. ASSUME NEW t \in VoptCallers, ScanEnds(t) PROVE VoptInv'
  BY <1>4 DEF ScanEnds, ConfIsPast, VgIsCurrent
<1>5. ASSUME NEW t \in VoptCallers, CreateRepo(t) PROVE VoptInv'
  <2>1. conf[t].vg \in AllVgs
    BY <1>5 DEF CreateRepo, ConfIsPast
  <2>2. /\ repo' = [repo EXCEPT ![conf[t].vg] = {}] /\ vgEtag' = [vgEtag EXCEPT ![conf[t].vg] = @ + 1]
        /\ UNCHANGED <<conf, nMedia>> /\ vpc' = [vpc EXCEPT ![t] = "save vg"]
    BY <1>5 DEF CreateRepo
  <2>3. repo' \in [AllVgs -> {NoRepo} \cup SUBSET (1 .. MaxMedia)] /\ vgEtag' \in [AllVgs -> Nat]
    <3>1. {} \in {NoRepo} \cup SUBSET (1 .. MaxMedia) /\ vgEtag[conf[t].vg] + 1 \in Nat
      BY <2>1
    <3> QED
      BY <2>1, <2>2, <3>1
  <2>4. \A u \in VoptCallers : ConfIsPast(u)' /\ (vpc'[u] = "create" => conf'[u] # NotFound)
    <3> TAKE u \in VoptCallers
    <3>1. CASE conf[u] = NotFound
      BY <2>2, <3>1 DEF ConfIsPast, VgIsCurrent
    <3>2. CASE conf[u] # NotFound /\ conf[u].vg = conf[t].vg
      <4>1. vgEtag'[conf[u].vg] = vgEtag[conf[u].vg] + 1 /\ vgEtag[conf[u].vg] \in Nat
        BY <2>1, <2>2, <3>2
      <4>2. conf[u].etag \in Nat /\ conf[u].etag <= vgEtag[conf[u].vg] /\ conf[u].vg \in AllVgs
        BY <3>2 DEF ConfIsPast
      <4>3. conf[u].etag <= vgEtag'[conf[u].vg] /\ conf[u].etag # vgEtag'[conf[u].vg]
        BY <4>1, <4>2
      <4> QED
        BY <2>2, <3>2, <4>2, <4>3 DEF ConfIsPast, VgIsCurrent
    <3>3. CASE conf[u] # NotFound /\ conf[u].vg # conf[t].vg
      BY <2>2, <3>3 DEF ConfIsPast, VgIsCurrent
    <3> QED
      BY <3>1, <3>2, <3>3
  <2> QED
    BY <2>2, <2>3, <2>4
<1>6. ASSUME NEW v \in DOMAIN VoptGroups, Outage(v) PROVE VoptInv'
  BY <1>6 DEF Outage, ConfIsPast, VgIsCurrent
<1>7. ASSUME NEW g \in AllVgs, AddMedia(g) PROVE VoptInv'
  <2>1. /\ repo' = [repo EXCEPT ![g] = @ \cup {nMedia + 1}] /\ vgEtag' = [vgEtag EXCEPT ![g] = @ + 1]
        /\ UNCHANGED <<conf, vpc>> /\ nMedia' = nMedia + 1 /\ nMedia < MaxMedia /\ repo[g] # NoRepo
    BY <1>7 DEF AddMedia
  <2>2. repo[g] \cup {nMedia + 1} \in SUBSET (1 .. MaxMedia) /\ nMedia' \in 0 .. MaxMedia
    BY <2>1, VoptConstantsOK
  <2>3. repo' \in [AllVgs -> {NoRepo} \cup SUBSET (1 .. MaxMedia)] /\ vgEtag' \in [AllVgs -> Nat]
    BY <2>1, <2>2
  <2>4. \A u \in VoptCallers : ConfIsPast(u)'
    BY <2>1 DEF ConfIsPast, VgIsCurrent
  <2> QED
    BY <2>1, <2>2, <2>3, <2>4
<1>8. CASE UNCHANGED voptVars
  BY <1>8 DEF voptVars, ConfIsPast, VgIsCurrent
<1> QED
  BY <1>1, <1>2, <1>3, <1>4, <1>5, <1>6, <1>7, <1>8 DEF VoptNext, VoptStep

\* No step takes a repository away or changes its media but to add to them.
LEMMA RepositoriesStay ==
  ASSUME VoptInv, VoptNext, NEW g \in AllVgs, repo[g] # NoRepo
  PROVE  repo'[g] # NoRepo /\ repo[g] \subseteq repo'[g]
<1>1. ASSUME NEW t \in VoptCallers, CreateRepo(t) PROVE repo'[g] = repo[g]
  <2>1. repo[conf[t].vg] = NoRepo
    BY <1>1 DEF CreateRepo, VoptInv, ConfIsPast
  <2> QED
    BY <1>1, <2>1 DEF CreateRepo, VoptInv
<1>2. ASSUME NEW h \in AllVgs, AddMedia(h) PROVE repo'[g] # NoRepo /\ repo[g] \subseteq repo'[g]
  <2>1. repo'[g] = repo[g] \/ repo'[g] = repo[g] \cup {nMedia + 1}
    BY <1>2 DEF AddMedia, VoptInv
  <2>2. repo[g] \cup {nMedia + 1} \in SUBSET (1 .. MaxMedia)
    BY <1>2, VoptConstantsOK DEF AddMedia, VoptInv
  <2> QED
    BY <2>1, <2>2, VoptConstantsOK
<1>3. CASE repo' = repo
  BY <1>3
<1> QED
  BY <1>1, <1>2, <1>3
     DEF VoptNext, VoptStep, CallVopt, ReadVg, ValidateVg, GetActives, ScanVios, ScanEnds, CreateFails, SaveVg, SaveVios,
         ReturnVios, ReturnVg, Outage, Server

\* tasks/vopt.py: validate_vopt_repo_exists never replaces a repository that is there, so
\* no caller loses the media that another has put into it: see MediaStay.
THEOREM MediaAreKept == VoptSpec => MediaStay
<1>1. VoptInv /\ [VoptNext]_voptVars =>
        [\A g \in AllVgs : repo[g] # NoRepo => repo'[g] # NoRepo /\ repo[g] \subseteq repo'[g]]_voptVars
  BY RepositoriesStay
<1> QED
  BY <1>1, VoptInitial, VoptInvStep, PTL DEF VoptSpec, MediaStay

-----------------------------------------------------------------------------
(* PointToPoint.                                                           *)

\* A VLAN that _find_free_vlan returns is that of no adapter.
LEMMA FreeVlanIsFree ==
  ASSUME FreeVlan # 0, NEW a \in adpts
  PROVE  a.vlan # FreeVlan
<1> DEFINE free == (1 .. LastVlan - 1) \ {x.vlan : x \in adpts}
<1>1. free # {}
  BY DEF FreeVlan
<1>2. free \subseteq Nat
  OBVIOUS
<1>3. a.vlan \notin free
  OBVIOUS
<1>4. FreeVlan = CHOOSE v \in free : \A w \in free : v <= w
  BY <1>1 DEF FreeVlan
<1> HIDE DEF free
<1>5. \E v \in free : \A w \in free : v <= w
  BY <1>1, <1>2, LeastNat
<1>6. FreeVlan \in free
  BY <1>4, <1>5
<1> QED
  BY <1>3, <1>6

\* The calls that hold VLAN_LOCK, and the ones whose VLAN is settled.
InLock == {"reserve", "trunks", "assign", "update"}
HasVlan == {"trunks", "trunked", "update"}

LockIsExclusive ==
  /\ vlanLock = {c \in Conns : cpc[c] \in InLock}
  /\ \A c, d \in vlanLock : c = d

\* An adapter is on the VLAN of the call that made it, which has been chosen by then; on
\* the VLAN of a call there are no adapters of others; after its trunks a call has one.
VlansAreApart ==
  /\ \A a \in adpts : a.of \in Conns /\ a.vlan = vlan[a.of] /\ cpc[a.of] \notin {"idle", "reserve", "assign"}
  /\ \A a, b \in adpts : a.vlan = b.vlan => a.of = b.of
  /\ \A c \in Conns : cpc[c] \in HasVlan => \A a \in adpts : a.vlan = vlan[c] => a.of = c
  /\ \A c \in Conns : cpc[c] = "trunked" => \E a \in adpts : a.of = c

P2PInv ==
  /\ cpc \in [Conns -> {"idle", "reserve", "trunks", "trunked", "assign", "update", "done", "failed"}]
  /\ DOMAIN vlan = Conns
  /\ LockIsExclusive
  /\ VlansAreApart

\* Before the first call P2PInv holds.
LEMMA P2PInitial == P2PInit => P2PInv
BY DEF P2PInit, P2PInv, LockIsExclusive, VlansAreApart, InLock, HasVlan

\* A new adapter of the call that holds the lock, or of one that has its trunks.
LEMMA AdapterFits ==
  ASSUME P2PInv, NEW c \in Conns, NEW new, new.of = c, new.vlan = vlan[c], adpts' = adpts \cup {new}, UNCHANGED vlan,
         NEW how \in {"trunks", "trunked", "done"}, cpc' = [cpc EXCEPT ![c] = how],
         cpc[c] \in {"trunks", "update"} \/ (cpc[c] = "trunked" /\ vlanLock = {})
  PROVE  VlansAreApart'
<1> USE DEF P2PInv, LockIsExclusive, VlansAreApart, InLock, HasVlan
<1>1. \A d \in Conns : d # c /\ cpc[d] \in HasVlan => cpc[d] = "trunked"
  OBVIOUS
<1>2. \A d \in Conns : d # c /\ cpc[d] \in HasVlan => vlan[d] # vlan[c]
  BY <1>1
<1>3. \A a \in adpts' : a.of \in Conns /\ a.vlan = vlan'[a.of] /\ cpc'[a.of] \notin {"idle", "reserve", "assign"}
  OBVIOUS
<1>4. \A a, b \in adpts' : a.vlan = b.vlan => a.of = b.of
  OBVIOUS
<1>5. \A d \in Conns : cpc'[d] \in HasVlan => \A a \in adpts' : a.vlan = vlan'[d] => a.of = d
  BY <1>2
<1>6. \A d \in Conns : cpc'[d] = "trunked" => \E a \in adpts' : a.of = d
  OBVIOUS
<1> QED
  BY <1>3, <1>4, <1>5, <1>6

\* A free VLAN for the call that holds the lock.
LEMMA ChoiceFits ==
  ASSUME P2PInv, NEW c \in Conns, cpc[c] \in {"reserve", "assign"}, FreeVlan # 0,
         vlan' = [vlan EXCEPT ![c] = FreeVlan], UNCHANGED adpts,
         NEW how \in {"trunks", "update"}, cpc' = [cpc EXCEPT ![c] = how]
  PROVE  VlansAreApart'
<1> USE DEF P2PInv, VlansAreApart, HasVlan
<1>1. \A a \in adpts : a.vlan # FreeVlan /\ a.of # c
  BY FreeVlanIsFree
<1>2. \A a \in adpts' : a.of \in Conns /\ a.vlan = vlan'[a.of] /\ cpc'[a.of] \notin {"idle", "reserve", "assign"}
  BY <1>1
<1>3. \A d \in Conns : cpc'[d] \in HasVlan => \A a \in adpts' : a.vlan = vlan'[d] => a.of = d
  BY <1>1
<1> QED
  BY <1>2, <1>3

\* Every step of every call keeps P2PInv.
LEMMA P2PStep == P2PInv /\ [P2PNext]_p2pVars => P2PInv'
<1> SUFFICES ASSUME P2PInv, [P2PNext]_p2pVars PROVE P2PInv'
  OBVIOUS
<1> USE DEF Leave, InLock
<1>1. ASSUME NEW c \in Conns, NEW how \in {"reserve", "assign"}, Enter(c, how) PROVE P2PInv'
  BY <1>1 DEF Enter, VlanLockFree, P2PInv, LockIsExclusive, VlansAreApart, HasVlan
<1>2. ASSUME NEW c \in Conns, cpc' = [cpc EXCEPT ![c] = "failed"], vlanLock' = vlanLock \ {c}, UNCHANGED <<adpts, vlan>>,
             cpc[c] \notin {"idle"}
      PROVE  P2PInv'
  BY <1>2 DEF P2PInv, LockIsExclusive, VlansAreApart, HasVlan
<1>3. ASSUME NEW c \in Conns, Reserve(c) PROVE P2PInv'
  <2>1. CASE Leave(c, "failed") /\ UNCHANGED vlan
    BY <1>2, <1>3, <2>1 DEF Reserve
  <2>2. CASE FreeVlan # 0 /\ vlan' = [vlan EXCEPT ![c] = FreeVlan] /\ cpc' = [cpc EXCEPT ![c] = "trunks"] /\ UNCHANGED vlanLock
    BY <1>3, <2>2, ChoiceFits DEF Reserve, P2PInv, LockIsExclusive
  <2> QED
    BY <1>3, <2>1, <2>2 DEF Reserve
<1>4. ASSUME NEW c \in Conns, FindForCna(c) PROVE P2PInv'
  <2>1. CASE Leave(c, "failed") /\ UNCHANGED vlan
    BY <1>2, <1>4, <2>1 DEF FindForCna
  <2>2. CASE FreeVlan # 0 /\ vlan' = [vlan EXCEPT ![c] = FreeVlan] /\ cpc' = [cpc EXCEPT ![c] = "update"] /\ UNCHANGED vlanLock
    BY <1>4, <2>2, ChoiceFits DEF FindForCna, P2PInv, LockIsExclusive
  <2> QED
    BY <1>4, <2>1, <2>2 DEF FindForCna
<1>5. ASSUME NEW c \in Conns, CreateTrunk(c) PROVE P2PInv'
  <2> DEFINE pri == Cardinality(Trunks(c)) + 1
             new == [of |-> c, trunk |-> TRUE, host |-> Hosts[pri], pri |-> pri, vlan |-> vlan[c]]
  <2>1. CASE Leave(c, "failed") /\ UNCHANGED adpts
    BY <1>2, <1>5, <2>1 DEF CreateTrunk
  <2>2. CASE adpts' = adpts \cup {new}
    <3>1. cpc[c] = "trunks" /\ UNCHANGED vlan
      BY <1>5 DEF CreateTrunk
    <3>2. new.of = c /\ new.vlan = vlan[c]
      OBVIOUS
    <3> HIDE DEF new
    <3>3. CASE Leave(c, "trunked")
      <4>1. VlansAreApart'
        BY <2>2, <3>1, <3>2, <3>3, AdapterFits
      <4> QED
        BY <3>1, <3>3, <4>1 DEF P2PInv, LockIsExclusive
    <3>4. CASE UNCHANGED <<cpc, vlanLock>>
      <4>1. cpc' = [cpc EXCEPT ![c] = "trunks"]
        BY <3>1, <3>4 DEF P2PInv
      <4>2. VlansAreApart'
        BY <2>2, <3>1, <3>2, <4>1, AdapterFits
      <4> QED
        BY <3>1, <3>4, <4>2 DEF P2PInv, LockIsExclusive
    <3>5. CASE Leave(c, "failed") /\ UNCHANGED adpts
      BY <1>2, <1>5, <3>5 DEF CreateTrunk
    <3> QED
      BY <1>5, <3>3, <3>4, <3>5 DEF CreateTrunk
  <2> QED
    BY <1>5, <2>1, <2>2 DEF CreateTrunk
<1>6. ASSUME NEW c \in Conns, CreateClient(c) PROVE P2PInv'
  <2> DEFINE new == [of |-> c, trunk |-> FALSE, host |-> "lpar", pri |-> 0, vlan |-> vlan[c]]
  <2>0. cpc[c] = "trunked" /\ vlanLock = {} /\ UNCHANGED <<vlanLock, vlan>>
    BY <1>6 DEF CreateClient, VlanLockFree
  <2>1. CASE cpc' = [cpc EXCEPT ![c] = "failed"] /\ UNCHANGED adpts
    BY <1>2, <2>0, <2>1
  <2>2. CASE adpts' = adpts \cup {new} /\ cpc' = [cpc EXCEPT ![c] = "done"]
    <3>1. new.of = c /\ new.vlan = vlan[c]
      OBVIOUS
    <3> HIDE DEF new
    <3>2. VlansAreApart'
      BY <2>0, <2>2, <3>1, AdapterFits
    <3> QED
      BY <2>0, <2>2, <3>2 DEF P2PInv, LockIsExclusive
  <2> QED
    BY <1>6, <2>1, <2>2 DEF CreateClient
<1>7. ASSUME NEW c \in Conns, UpdateCna(c) PROVE P2PInv'
  <2> DEFINE new == [of |-> c, trunk |-> FALSE, host |-> "lpar", pri |-> 0, vlan |-> vlan[c]]
  <2>0. cpc[c] = "update" /\ UNCHANGED vlan
    BY <1>7 DEF UpdateCna
  <2>1. CASE Leave(c, "failed") /\ UNCHANGED adpts
    BY <1>2, <2>0, <2>1
  <2>2. CASE adpts' = adpts \cup {new} /\ Leave(c, "done")
    <3>1. new.of = c /\ new.vlan = vlan[c]
      OBVIOUS
    <3> HIDE DEF new
    <3>2. VlansAreApart'
      BY <2>0, <2>2, <3>1, AdapterFits
    <3> QED
      BY <2>0, <2>2, <3>2 DEF P2PInv, LockIsExclusive
  <2> QED
    BY <1>7, <2>1, <2>2 DEF UpdateCna
<1>8. CASE UNCHANGED p2pVars
  BY <1>8 DEF p2pVars, P2PInv, LockIsExclusive, VlansAreApart
<1> QED
  BY <1>1, <1>3, <1>4, <1>5, <1>6, <1>7, <1>8 DEF P2PNext

\* tasks/cna.py: for every number of connections, hosts and VLANs, no two connections get
\* the same VLAN: see PrivateVlan.
THEOREM VlansArePrivate == P2PSpec => []PrivateVlan
<1>1. P2PInv => PrivateVlan
  BY DEF P2PInv, VlansAreApart, PrivateVlan, FindTrunks, Trunks
<1> QED
  BY <1>1, P2PInitial, P2PStep, PTL DEF P2PSpec

-----------------------------------------------------------------------------
(* SlotMap.                                                                *)

\* A finite set of natural numbers has a greatest element: the slots of a topology do.
LEMMA GreatestNat ==
  ASSUME NEW S, IsFiniteSet(S), S \subseteq Nat, S # {}
  PROVE  Max(S) \in S /\ \A y \in S : y <= Max(S)
<1>1. PICK n \in Nat : ExistsSurjection(1 .. n, S)
  BY FS_NatSurjection
<1>2. PICK f \in [1 .. n -> S] : \A y \in S : \E i \in 1 .. n : f[i] = y
  BY <1>1 DEF ExistsSurjection, Surjection
<1> DEFINE Bounded(k) == \E b \in Nat : \A i \in 1 .. k : f[i] <= b
           bad == {k \in 0 .. n : ~Bounded(k)}
<1>3. (\A i \in 1 .. n : f[i] \in Nat) /\ \A y \in S : y \in Nat
  OBVIOUS
<1>4. \A k \in 0 .. n : k \notin bad => Bounded(k)
  OBVIOUS
<1>5. \A k \in bad : k \in 0 .. n /\ k \in Nat /\ ~Bounded(k)
  OBVIOUS
<1>6. Bounded(0)
  BY SMT
<1>7. ASSUME NEW k \in 1 .. n, Bounded(k - 1) PROVE Bounded(k)
  <2>1. PICK b \in Nat : \A i \in 1 .. k - 1 : f[i] <= b
    BY <1>7
  <2>2. f[k] \in Nat
    BY <1>3
  <2>3. ASSUME NEW i \in 1 .. k PROVE f[i] <= b + f[k]
    <3>1. f[i] \in Nat
      BY <1>3
    <3>2. CASE i = k
      BY <2>2, <3>2
    <3>3. CASE i # k
      <4>1. i \in 1 .. k - 1
        BY <3>3
      <4>2. f[i] <= b
        BY <2>1, <4>1
      <4> QED
        BY <2>2, <3>1, <4>2
    <3> QED
      BY <3>2, <3>3
  <2>4. b + f[k] \in Nat
    BY <2>2
  <2> QED
    BY <2>3, <2>4
<1> HIDE DEF bad, Bounded
<1>8. Bounded(n)
  <2>1. CASE bad = {}
    BY <1>4, <2>1
  <2>2. CASE bad # {}
    <3>1. PICK k \in bad : \A j \in bad : k <= j
      BY <1>5, <2>2, LeastNat
    <3>2. k \in 1 .. n
      BY <1>5, <1>6
    <3>3. k - 1 \in 0 .. n /\ k - 1 \notin bad
      BY <3>1, <3>2
    <3> QED
      BY <1>4, <1>5, <1>7, <3>2, <3>3
  <2> QED
    BY <2>1, <2>2
<1>9. PICK b \in Nat : \A i \in 1 .. n : f[i] <= b
  BY <1>8 DEF Bounded
<1>10. \A y \in S : y \in Nat /\ y <= b
  BY <1>2, <1>3, <1>9
<1> DEFINE below == {b - y : y \in S}
<1>11. \A w \in below : w \in Nat
  BY <1>10
<1>12. below # {}
  OBVIOUS
<1>13. \A y \in S : b - y \in below
  OBVIOUS
<1>14. PICK z \in below : \A w \in below : z <= w
  <2> HIDE DEF below
  <2> QED
    BY <1>11, <1>12, LeastNat
<1>15. PICK x \in S : z = b - x
  OBVIOUS
<1> HIDE DEF below
<1>16. \A y \in S : x >= y
  BY <1>10, <1>13, <1>14, <1>15
<1> QED
  BY <1>10, <1>16 DEF Max

\* A topology as the elements of one LPAR have it: finite, and any two entries go together.
GoodTopo(t) ==
  IsFiniteSet(t) /\ t \subseteq TopologyOf(AllElements) /\ \A a, b \in t : a = b \/ Compatible(a, b)

\* The topology of elements that go together is a good one.
LEMMA TopologyIsGood ==
  ASSUME NEW S, S \subseteq AllElements, IsFiniteSet(S), \A a, b \in S : a = b \/ Compatible(a, b)
  PROVE  GoodTopo(TopologyOf(S))
<1> DEFINE R == {e \in S : Registers(e)}
           T == TopologyOf(S)
           f == [e \in R |-> Entry(e)]
<1>1. IsFiniteSet(R)
  BY FS_Subset
<1>2. f \in Surjection(R, T)
  BY DEF Surjection, TopologyOf
<1>3. IsFiniteSet(T)
  <2> HIDE DEF f, R, T
  <2> QED
    BY <1>1, <1>2, FS_Surjection
<1>4. T \subseteq TopologyOf(AllElements)
  BY DEF TopologyOf
<1>5. ASSUME NEW d \in R, NEW e \in R PROVE Entry(d) = Entry(e) \/ Compatible(Entry(d), Entry(e))
  BY DEF Entry, Compatible
<1> QED
  BY <1>3, <1>4, <1>5 DEF GoodTopo, TopologyOf

\* While the LPAR lives on its source: the topology is that of its elements, and the one
\* that counts as saved is in the back-end.
ElementsFit == attached \subseteq AllElements /\ IsFiniteSet(attached) /\ \A a, b \in attached : a = b \/ Compatible(a, b)
StoreFits ==
  spc = "source" => topo = TopologyOf(attached) /\ loaded[1] = Loaded /\ build.vscsi = {}

\* During the rebuild: the slots that have been looked at have their disks, each on one
\* VIOS, which sees them and is used up for them.
Rebuilding == spc \in {"vscsi", "built"}
DiskOf(b) == {a \in topo : a.cls \in Disks /\ a.slot \notin slotsLeft /\ b = [vios |-> b.vios, udid |-> a.key, slot |-> a.slot, lua |-> a.spec]}
BuildFits ==
  Rebuilding =>
    /\ slotsLeft \subseteq SlotsOf(topo)
    /\ \A b \in build.vscsi : DiskOf(b) # {}
    /\ \A a \in topo : a.cls \in Disks /\ a.slot \notin slotsLeft => \E b \in build.vscsi : a \in DiskOf(b)
    /\ \A b, c \in build.vscsi : b.slot = c.slot => b.vios = c.vios
    /\ \A b, c \in build.vscsi : b.vios = c.vios /\ b.udid = c.udid => b = c
    /\ DOMAIN volToVio = DOMAIN target.sees /\ \A u \in DOMAIN volToVio : volToVio[u] \subseteq target.sees[u]
    /\ \A b \in build.vscsi :
         b.udid \in DOMAIN volToVio /\ b.vios \in target.sees[b.udid] /\ b.vios \notin volToVio[b.udid]

BuiltFits ==
  spc = "built" =>
    /\ slotsLeft = {} /\ Fabrics(topo) \subseteq target.fabrics
    /\ build.vfc = {[fabric |-> f, slots |-> FabricSlots(topo, f)] : f \in target.fabrics}

SlotInv ==
  /\ ElementsFit /\ GoodTopo(topo) /\ GoodTopo(Loaded)
  /\ DOMAIN build = {"vscsi", "vfc"}
  /\ StoreFits /\ BuildFits /\ BuiltFits

\* So is the topology of an LPAR without elements.
LEMMA EmptyIsGood == GoodTopo({})
BY FS_EmptySet DEF GoodTopo

\* For every LPAR on its source, SlotInv holds at the start.
LEMMA SlotInitial == SlotInit => SlotInv
<1> SUFFICES ASSUME SlotInit PROVE SlotInv
  OBVIOUS
<1>1. ElementsFit
  BY SourcesOK DEF SlotInit, ElementsFit, AllElements
<1>2. GoodTopo(topo)
  BY <1>1, TopologyIsGood DEF SlotInit, ElementsFit
<1>3. topo # None
  BY <1>2, SourcesOK DEF GoodTopo
<1>4. Loaded = topo
  BY <1>3 DEF SlotInit, Loaded
<1> QED
  BY <1>1, <1>2, <1>4 DEF SlotInit, SlotInv, StoreFits, BuildFits, BuiltFits, Rebuilding

\* Registering and dropping an element of the LPAR gives the topology of the others.
LEMMA RegisterFits ==
  ASSUME ElementsFit, NEW e \in AllElements, \A a \in attached : Compatible(a, e)
  PROVE  (IF Registers(e) THEN Reg(TopologyOf(attached), Entry(e)) ELSE TopologyOf(attached)) = TopologyOf(attached \cup {e})
<1>1. \A a \in attached : ~Same(Entry(a), Entry(e))
  BY DEF Compatible, Same, Entry
<1>2. {a \in TopologyOf(attached) : ~Same(a, Entry(e))} = TopologyOf(attached)
  BY <1>1 DEF TopologyOf
<1> QED
  BY <1>2 DEF Reg, TopologyOf

\* Dropping an element gives the topology of the others.
LEMMA DropFits ==
  ASSUME ElementsFit, NEW e \in attached
  PROVE  (IF Registers(e) THEN Dropped(TopologyOf(attached), Entry(e)) ELSE TopologyOf(attached)) = TopologyOf(attached \ {e})
<1>1. \A a \in attached : a = e <=> Same(Entry(a), Entry(e))
  BY DEF Compatible, Same, Entry, ElementsFit
<1>2. CASE Registers(e)
  BY <1>1, <1>2 DEF Dropped, TopologyOf
<1>3. CASE ~Registers(e)
  BY <1>3 DEF TopologyOf
<1> QED
  BY <1>2, <1>3

\* _vscsi_build_out: the disks of one slot go to a VIOS that sees them all and is not used up.
LEMMA AssignFits ==
  ASSUME BuildFits, spc = "vscsi", GoodTopo(topo), DOMAIN build = {"vscsi", "vfc"},
         NEW s \in slotsLeft, NEW v, v \in Candidates(s),
         build' = [build EXCEPT !.vscsi = @ \cup {[vios |-> v, udid |-> a.key, slot |-> s, lua |-> a.spec] : a \in DisksOf(topo, s)}],
         volToVio' = UsedUp(s, v), slotsLeft' = slotsLeft \ {s}, UNCHANGED <<topo, target, spc>>
  PROVE  BuildFits'
<1> DEFINE new == {[vios |-> v, udid |-> a.key, slot |-> s, lua |-> a.spec] : a \in DisksOf(topo, s)}
<1>1. build'.vscsi = build.vscsi \cup new
  OBVIOUS
<1>2. \A b \in new : \E a \in topo : a.cls \in Disks /\ a.slot = s /\ b = [vios |-> v, udid |-> a.key, slot |-> s, lua |-> a.spec]
                       /\ a.key \in DOMAIN volToVio /\ v \in volToVio[a.key]
  BY DEF DisksOf, Candidates
<1>3. \A a \in topo : a.cls \in Disks /\ a.slot = s => \E b \in new : b = [vios |-> v, udid |-> a.key, slot |-> s, lua |-> a.spec]
  BY DEF DisksOf
<1> HIDE DEF new
<1>4. \A a, c \in topo : a.cls \in Disks /\ c.cls \in Disks /\ a.slot = s /\ c.slot = s /\ a.key = c.key => a = c
  BY DEF GoodTopo, Compatible
<1>5. \A b \in build.vscsi : b.slot # s /\ DiskOf(b) # {} /\ b.udid \in DOMAIN volToVio /\ b.vios \notin volToVio[b.udid]
                             /\ b.vios \in target.sees[b.udid]
  BY DEF BuildFits, Rebuilding, DiskOf
<1>6. \A b \in new : b.slot = s /\ b.vios = v /\ b.udid \in DOMAIN volToVio /\ v \in volToVio[b.udid]
  BY <1>2
<1>7. \A u \in DOMAIN volToVio : u \in DOMAIN volToVio' /\ volToVio'[u] \subseteq volToVio[u]
  BY DEF UsedUp
<1>8. \A b \in new : v \notin volToVio'[b.udid]
  BY <1>2 DEF UsedUp, DisksOf
<1>9. DOMAIN volToVio' = DOMAIN volToVio
  BY DEF UsedUp
<1>10. \A b : DiskOf(b) \subseteq DiskOf(b)'
  BY DEF DiskOf
<1>11. \A b \in new : DiskOf(b)' # {}
  BY <1>2, <1>6 DEF DiskOf
<1>12. ASSUME NEW a \in topo', a.cls \in Disks, a.slot \notin slotsLeft' PROVE \E b \in build'.vscsi : a \in DiskOf(b)'
  <2>1. CASE a.slot = s
    <3>1. PICK b \in new : b = [vios |-> v, udid |-> a.key, slot |-> s, lua |-> a.spec]
      BY <1>3, <1>12, <2>1
    <3>2. a \in DiskOf(b)'
      BY <1>12, <2>1, <3>1 DEF DiskOf
    <3> QED
      BY <1>1, <3>2
  <2>2. CASE a.slot # s
    <3>1. a.slot \notin slotsLeft
      BY <1>12, <2>2
    <3> QED
      BY <1>1, <1>10, <1>12, <3>1 DEF BuildFits, Rebuilding
  <2> QED
    BY <2>1, <2>2
<1>13. \A b, c \in build'.vscsi : b.slot = c.slot => b.vios = c.vios
  BY <1>1, <1>5, <1>6 DEF BuildFits, Rebuilding
<1>14. ASSUME NEW b \in build'.vscsi, NEW c \in build'.vscsi, b.vios = c.vios, b.udid = c.udid PROVE b = c
  <2>1. CASE b \in build.vscsi /\ c \in build.vscsi
    BY <1>14, <2>1 DEF BuildFits, Rebuilding
  <2>2. CASE b \in new /\ c \in new
    <3>1. PICK a \in topo : a.cls \in Disks /\ a.slot = s /\ b = [vios |-> v, udid |-> a.key, slot |-> s, lua |-> a.spec]
      BY <1>2, <2>2
    <3>2. PICK d \in topo : d.cls \in Disks /\ d.slot = s /\ c = [vios |-> v, udid |-> d.key, slot |-> s, lua |-> d.spec]
      BY <1>2, <2>2
    <3>3. a.key = d.key
      BY <1>14, <3>1, <3>2
    <3> QED
      BY <1>4, <3>1, <3>2, <3>3
  <2>3. CASE (b \in new /\ c \in build.vscsi) \/ (b \in build.vscsi /\ c \in new)
    BY <1>5, <1>6, <1>14, <2>3
  <2> QED
    BY <1>1, <2>1, <2>2, <2>3
<1>15. \A b \in build'.vscsi : b.udid \in DOMAIN volToVio' /\ b.vios \in target'.sees[b.udid] /\ b.vios \notin volToVio'[b.udid]
  <2>1. \A b \in build.vscsi : b.udid \in DOMAIN volToVio' /\ b.vios \in target'.sees[b.udid] /\ b.vios \notin volToVio'[b.udid]
    BY <1>5, <1>7
  <2>2. \A b \in new : b.udid \in DOMAIN volToVio' /\ b.vios \in target'.sees[b.udid] /\ b.vios \notin volToVio'[b.udid]
    BY <1>6, <1>7, <1>8 DEF BuildFits, Rebuilding
  <2> QED
    BY <1>1, <2>1, <2>2
<1>16. \A b \in build'.vscsi : DiskOf(b)' # {}
  BY <1>1, <1>5, <1>10, <1>11
<1>17. DOMAIN volToVio' = DOMAIN target'.sees /\ \A u \in DOMAIN volToVio' : volToVio'[u] \subseteq target'.sees[u]
  BY <1>7, <1>9 DEF BuildFits, Rebuilding
<1>18. slotsLeft' \subseteq SlotsOf(topo')
  BY DEF BuildFits, Rebuilding
<1> QED
  BY <1>12, <1>13, <1>14, <1>15, <1>16, <1>17, <1>18 DEF BuildFits

\* Every registration, drop, save and step of the rebuild keeps SlotInv.
LEMMA SlotStep == SlotInv /\ [SlotNext]_slotVars => SlotInv'
<1> SUFFICES ASSUME SlotInv, [SlotNext]_slotVars PROVE SlotInv'
  OBVIOUS
<1>1. ASSUME NEW e \in Elements, Register(e) PROVE SlotInv'
  <2>1. e \in AllElements /\ spc = "source" /\ \A a \in attached : Compatible(a, e)
    BY <1>1 DEF Register, Editing, AllElements
  <2>2. ElementsFit'
    BY <1>1, <2>1, FS_AddElement DEF Register, SlotInv, ElementsFit, Compatible
  <2>3. topo' = TopologyOf(attached')
    BY <1>1, <2>1, RegisterFits DEF Register, SlotInv, StoreFits
  <2>4. GoodTopo(topo')
    BY <2>2, <2>3, TopologyIsGood DEF ElementsFit
  <2> QED
    BY <1>1, <2>1, <2>2, <2>3, <2>4 DEF Register, SlotInv, StoreFits, BuildFits, BuiltFits, Rebuilding, Loaded, rebuild
<1>2. ASSUME NEW e \in attached, Drop(e) PROVE SlotInv'
  <2>1. spc = "source"
    BY <1>2 DEF Drop, Editing
  <2>2. ElementsFit'
    BY <1>2, FS_RemoveElement DEF Drop, SlotInv, ElementsFit
  <2>3. topo' = TopologyOf(attached')
    BY <1>2, <2>1, DropFits DEF Drop, SlotInv, StoreFits
  <2>4. GoodTopo(topo')
    BY <2>2, <2>3, TopologyIsGood DEF ElementsFit
  <2> QED
    BY <1>2, <2>1, <2>2, <2>3, <2>4 DEF Drop, SlotInv, StoreFits, BuildFits, BuiltFits, Rebuilding, Loaded, rebuild
<1>3. ASSUME NEW n, RegisterMax(n) PROVE SlotInv'
  BY <1>3 DEF RegisterMax, Editing, SlotInv, ElementsFit, StoreFits, BuildFits, BuiltFits, Rebuilding, Loaded, rebuild
<1>4. CASE Save
  <2>1. topo # None
    BY SourcesOK DEF SlotInv, GoodTopo
  <2>2. Loaded' = topo /\ loaded'[1] = topo
    BY <1>4, <2>1 DEF Save, Loaded, Serialized
  <2> QED
    BY <1>4, <2>2 DEF Save, SlotInv, ElementsFit, StoreFits, BuildFits, BuiltFits, Rebuilding, rebuild
<1>5. CASE SaveFails
  BY <1>5 DEF SaveFails, RemembersOnlySaved, SlotInv, ElementsFit, StoreFits, BuildFits, BuiltFits, Rebuilding, Loaded, rebuild
<1>6. CASE Delete
  <2>1. Loaded' = {}
    BY <1>6 DEF Delete, Loaded
  <2> QED
    BY <1>6, <2>1, EmptyIsGood DEF Delete, SlotInv, ElementsFit, StoreFits, BuildFits, BuiltFits, Rebuilding, rebuild, store
<1>7. CASE StartRebuild
  <2>1. /\ spc = "source" /\ topo' = Loaded /\ volToVio' = target.sees /\ slotsLeft' = SlotsOf(topo')
        /\ spc' \in {"refused", "vscsi"} /\ UNCHANGED <<attached, blob, target, build>>
    BY <1>7 DEF StartRebuild
  <2>2. Loaded' = Loaded /\ build.vscsi = {}
    BY <2>1 DEF Loaded, SlotInv, StoreFits
  <2>3. \A a \in topo' : a.slot \in slotsLeft'
    BY <2>1 DEF SlotsOf
  <2>4. BuildFits'
    BY <2>1, <2>2, <2>3 DEF BuildFits
  <2> QED
    BY <2>1, <2>2, <2>4 DEF SlotInv, ElementsFit, StoreFits, BuiltFits
<1>8. ASSUME NEW s \in slotsLeft, NEW v \in target.vioses, AssignSlot(s, v) PROVE SlotInv'
  <2>1. /\ spc = "vscsi" /\ v \in Candidates(s) /\ volToVio' = UsedUp(s, v) /\ slotsLeft' = slotsLeft \ {s}
        /\ UNCHANGED <<attached, topo, maxVslots, loaded, blob, spc, target>>
    BY <1>8 DEF AssignSlot, store
  <2>2. BuildFits'
    BY <1>8, AssignFits DEF AssignSlot, store, SlotInv, Rebuilding
  <2>3. DOMAIN build' = {"vscsi", "vfc"}
    BY <1>8 DEF AssignSlot, SlotInv
  <2> QED
    BY <2>1, <2>2, <2>3 DEF SlotInv, ElementsFit, StoreFits, BuiltFits, Loaded
<1>9. ASSUME NEW s \in slotsLeft, NoVios(s) PROVE SlotInv'
  BY <1>9 DEF NoVios, SlotInv, ElementsFit, StoreFits, BuildFits, BuiltFits, Rebuilding, Loaded, rebuild, store
<1>10. CASE Finish
  <2>1. /\ spc = "vscsi" /\ slotsLeft' = {} /\ UNCHANGED <<attached, topo, loaded, blob, target, volToVio>>
        /\ \A s \in slotsLeft : DisksOf(topo, s) = {}
    BY <1>10 DEF Finish, store
  <2>2. CASE spc' = "refused"
    BY <1>10, <2>1, <2>2 DEF Finish, SlotInv, ElementsFit, StoreFits, BuildFits, BuiltFits, Rebuilding, Loaded
  <2>3. CASE /\ spc' = "built" /\ Fabrics(topo) \subseteq target.fabrics
             /\ build' = [build EXCEPT !.vfc = {[fabric |-> f, slots |-> FabricSlots(topo, f)] : f \in target.fabrics}]
    <3>1. build'.vscsi = build.vscsi /\ build'.vfc = {[fabric |-> f, slots |-> FabricSlots(topo, f)] : f \in target.fabrics} /\ DOMAIN build' = {"vscsi", "vfc"}
      BY <2>3 DEF SlotInv
    <3>2. \A a \in topo : a.cls \in Disks => a.slot \notin slotsLeft
      BY <2>1 DEF DisksOf
    <3>3. \A b : DiskOf(b)' = DiskOf(b)
      BY <2>1, <3>2 DEF DiskOf
    <3>4. BuildFits'
      BY <2>1, <3>1, <3>2, <3>3 DEF SlotInv, BuildFits, Rebuilding
    <3> QED
      BY <2>1, <2>3, <3>1, <3>4 DEF SlotInv, ElementsFit, StoreFits, BuiltFits, Loaded
  <2> QED
    BY <1>10, <2>2, <2>3 DEF Finish
<1>11. CASE UNCHANGED slotVars
  BY <1>11 DEF slotVars, store, rebuild, SlotInv, ElementsFit, StoreFits, BuildFits, BuiltFits, Rebuilding, Loaded, DiskOf
<1> QED
  BY <1>1, <1>2, <1>3, <1>4, <1>5, <1>6, <1>7, <1>8, <1>9, <1>10, <1>11 DEF SlotNext

\* SlotInv is an invariant.
LEMMA SlotInvariant == SlotSpec => []SlotInv
BY SlotInitial, SlotStep, PTL DEF SlotSpec

\* A built map gives every slot back.
LEMMA RebuiltFits == SlotInv => RebuiltAsSource
<1> SUFFICES ASSUME SlotInv, spc = "built" PROVE RebuiltAsSource
  BY DEF RebuiltAsSource
<1> DEFINE triples == {<<b.slot, b.udid, b.lua>> : b \in build.vscsi}
           disks == {<<a.slot, a.key, a.spec>> : a \in {a \in topo : a.cls \in Disks}}
<1>1. /\ slotsLeft = {} /\ GoodTopo(topo)
      /\ \A b \in build.vscsi : DiskOf(b) # {}
      /\ \A a \in topo : a.cls \in Disks => \E b \in build.vscsi : a \in DiskOf(b)
      /\ \A b, c \in build.vscsi : b.slot = c.slot => b.vios = c.vios
      /\ \A b, c \in build.vscsi : b.vios = c.vios /\ b.udid = c.udid => b = c
      /\ \A b \in build.vscsi : b.vios \in target.sees[b.udid]
  BY DEF SlotInv, BuildFits, BuiltFits, Rebuilding
<1>2. triples \subseteq disks
  BY <1>1 DEF DiskOf
<1>3. disks \subseteq triples
  <2> SUFFICES ASSUME NEW a \in topo, a.cls \in Disks PROVE \E b \in build.vscsi : b.slot = a.slot /\ b.udid = a.key /\ b.lua = a.spec
    OBVIOUS
  <2>1. PICK b \in build.vscsi : a \in DiskOf(b)
    BY <1>1
  <2> QED
    BY <2>1 DEF DiskOf
<1>4. \A b \in build.vscsi : VscsiSlot(b.vios, b.udid) = {<<b.slot, b.lua>>}
  BY <1>1 DEF VscsiSlot
<1>5. ASSUME NEW a \in topo, a.cls \in Vnets, ~IsMgmt(a) PROVE VnetSlots([a.key EXCEPT !.form = "colons"]) = {a.slot}
  <2>1. Sanitized([a.key EXCEPT !.form = "colons"]) = Sanitized(a.key)
    BY DEF Sanitized
  <2>2. \A b \in topo : b.cls \in Vnets /\ Sanitized(b.key) = Sanitized(a.key) => b = a
    BY <1>1, <1>5 DEF GoodTopo, Compatible
  <2> QED
    BY <1>5, <2>1, <2>2 DEF VnetSlots
<1>6. ASSUME NEW a \in topo, a.slot \in MgmtSlots PROVE IsMgmt(a)
  <2> DEFINE mgmt == {b.slot : b \in {b \in topo : IsMgmt(b)}}
  <2>1. CASE mgmt # {}
    <3>1. PICK b \in topo : IsMgmt(b) /\ b.slot = a.slot
      BY <1>6, <2>1 DEF MgmtSlots
    <3>2. b.cls \notin Disks \cup {"VOptMedia"}
      BY <3>1 DEF IsMgmt, Disks
    <3>3. a = b
      BY <1>1, <3>1, <3>2 DEF GoodTopo, Compatible
    <3> QED
      BY <3>1, <3>3
  <2>2. CASE mgmt = {}
    <3>1. a.slot = Max(SlotsOf(topo)) + 1
      BY <1>6, <2>2 DEF MgmtSlots
    <3>2. SlotsOf(topo) \subseteq Nat
      BY <1>1, SourcesOK DEF SlotsOf, GoodTopo, TopologyOf, Entry
    <3>3. IsFiniteSet(SlotsOf(topo))
      <4> DEFINE f == [b \in topo |-> b.slot]
      <4>1. f \in Surjection(topo, SlotsOf(topo))
        BY DEF Surjection, SlotsOf
      <4> HIDE DEF f
      <4> QED
        BY <1>1, <4>1, FS_Surjection DEF GoodTopo
    <3>4. a.slot \in SlotsOf(topo)
      BY DEF SlotsOf
    <3>5. Max(SlotsOf(topo)) \in Nat /\ a.slot <= Max(SlotsOf(topo)) /\ a.slot \in Nat
      BY <3>2, <3>3, <3>4, GreatestNat
    <3> QED
      BY <3>1, <3>5
  <2> QED
    BY <2>1, <2>2
<1>7. ASSUME NEW f \in Fabrics(topo) PROVE VfcSlots(f, Cardinality(FabricSlots(topo, f))) = "these"
  <2> DEFINE had == UNION {b.slots : b \in {b \in build.vfc : b.fabric = f}}
  <2>1. f \in target.fabrics /\ build.vfc = {[fabric |-> g, slots |-> FabricSlots(topo, g)] : g \in target.fabrics}
    BY <1>7 DEF SlotInv, BuiltFits
  <2>2. \A b \in build.vfc : b.fabric = f => b.slots = FabricSlots(topo, f)
    BY <2>1
  <2>3. [fabric |-> f, slots |-> FabricSlots(topo, f)] \in build.vfc
    BY <2>1
  <2>4. had = FabricSlots(topo, f)
    BY <2>2, <2>3
  <2>5. FabricSlots(topo, f) # {}
    BY <1>7 DEF Fabrics, FabricSlots
  <2> HIDE DEF had
  <2> QED
    BY <2>4, <2>5 DEF VfcSlots, had
<1> QED
  BY <1>1, <1>2, <1>3, <1>4, <1>5, <1>6, <1>7 DEF RebuiltAsSource

\* utils/slot_map.py, tasks/slot_map.py: for every LPAR, its elements, back-end and
\* target, a topology that counts as unchanged is the saved one, and a rebuild gives every
\* element its slot back: see SlotsAreKept.
THEOREM SlotsKept == SlotSpec => []SlotsAreKept
<1>1. SlotInv => UnchangedIsSaved
  BY DEF SlotInv, StoreFits, UnchangedIsSaved, Changed
<1>2. SlotInv => SlotsAreKept
  BY <1>1, RebuiltFits DEF SlotsAreKept
<1> QED
  BY <1>2, SlotInvariant, PTL
=============================================================================
