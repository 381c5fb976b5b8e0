-------------------------------- MODULE Vopt --------------------------------
(***************************************************************************)
(* pypowervm.tasks.vopt.validate_vopt_repo_exists: callers share the media *)
(* repository that the module remembers in two globals; if it is gone they *)
(* scan the active VIOSes one after another and create one in the          *)
(* configured volume group, while VIOSes go down and come up and users put *)
(* media into the repositories.                                            *)
(***************************************************************************)
EXTENDS Integers, Sequences, FiniteSets

CONSTANTS
  VoptCallers,   \* the threads
  VoptVioses,    \* the VIOSes, in the order of the feed
  MgmtVioses,    \* the ones on the management partition
  VoptGroups,    \* VIOS -> its volume groups, in the order of the feed
  ConfiguredVgs, \* the groups named vopt_media_volume_group
  NoRepo,        \* no group, or a group without a repository
  VoptTries,     \* tries=6
  MaxOutages,    \* bound on VIOSes going down or coming up
  MaxMedia       \* bound on media added

VARIABLES
  viosUp,     \* the active VIOSes
  repo,       \* group -> NoRepo or the set of its media
  vgEtag,     \* group -> its etag
  curVg, curVios,  \* _cur_vg_uuid, _cur_vios_uuid
  vpc,        \* per thread: where it is
  scan,       \* per thread: the VIOSes still to be looked at
  found,      \* per thread: found_vg, found_vios
  conf,       \* per thread: conf_vg, conf_vios and the etag read
  vtries, answer, \* per thread: tries used; the pair returned
  outages, nMedia

voptVars == <<viosUp, repo, vgEtag, curVg, curVios, vpc, scan, found, conf, vtries, answer, outages, nMedia>>

-----------------------------------------------------------------------------
AllVgs == UNION {{VoptGroups[v][i] : i \in DOMAIN VoptGroups[v]} : v \in DOMAIN VoptGroups}
ASSUME VoptConstantsOK ==
  /\ \A v \in DOMAIN VoptGroups : VoptGroups[v] \in Seq(AllVgs)
  /\ ConfiguredVgs \subseteq AllVgs
  /\ MaxMedia \in Nat /\ \A media \in SUBSET (1 .. MaxMedia) : media # NoRepo
HostOf(g) == CHOOSE v \in DOMAIN VoptGroups : \E i \in DOMAIN VoptGroups[v] : VoptGroups[v][i] = g
Pair(vg, vios) == [vg |-> vg, vios |-> vios]
NoPair == Pair(NoRepo, NoRepo)
NotFound == [vg |-> NoRepo, vios |-> NoRepo, etag |-> 0]

VoptInit ==
  /\ viosUp = DOMAIN VoptGroups
  /\ repo = [g \in AllVgs |-> NoRepo]
  /\ vgEtag = [g \in AllVgs |-> 0]
  /\ curVg = NoRepo /\ curVios = NoRepo
  /\ vpc = [t \in VoptCallers |-> "call"]
  /\ scan = [t \in VoptCallers |-> <<>>]
  /\ found = [t \in VoptCallers |-> NoPair]
  /\ conf = [t \in VoptCallers |-> NotFound]
  /\ vtries = [t \in VoptCallers |-> 0]
  /\ answer = [t \in VoptCallers |-> NoPair]
  /\ outages = 0 /\ nMedia = 0

VoptGoto(t, p) == vpc' = [vpc EXCEPT ![t] = p]
Server == <<viosUp, repo, vgEtag, outages, nMedia>>
Globals == <<curVg, curVios>>

\* validate_vopt_repo_exists reads the one global and then the other (the answer holds
\* vio_uuid, then vg_uuid).
CallVopt(t) ==
  /\ vpc[t] = "call"
  /\ vtries' = [vtries EXCEPT ![t] = @ + 1]
  /\ IF curVg = NoRepo
       THEN VoptGoto(t, "actives") /\ UNCHANGED answer
       ELSE VoptGoto(t, "read vg") /\ answer' = [answer EXCEPT ![t] = Pair(NoRepo, curVios)]
  /\ UNCHANGED <<Server, Globals, scan, found, conf>>
ReadVg(t) ==
  /\ vpc[t] = "read vg"
  /\ answer' = [answer EXCEPT ![t].vg = curVg]
  /\ VoptGoto(t, "validate")
  /\ UNCHANGED <<Server, Globals, scan, found, conf, vtries>>
\* The GET of the remembered group: it fails if the group is not on that VIOS or the
\* VIOS is down, and every exception leads to the deeper query.
StillThere(p) == p.vios \in viosUp /\ HostOf(p.vg) = p.vios /\ repo[p.vg] # NoRepo
ValidateVg(t) ==
  /\ vpc[t] = "validate"
  /\ VoptGoto(t, IF StillThere(answer[t]) THEN "returned" ELSE "actives")
  /\ UNCHANGED <<Server, Globals, scan, found, conf, vtries, answer>>

\* _find_vopt_repo_data: the active VIOSes, then the groups of each of them.
GetActives(t) ==
  /\ vpc[t] = "actives"
  /\ scan' = [scan EXCEPT ![t] = SelectSeq(VoptVioses, LAMBDA v : v \in viosUp)]
  /\ found' = [found EXCEPT ![t] = NoPair]
  /\ conf' = [conf EXCEPT ![t] = NotFound]
  /\ VoptGoto(t, "scan")
  /\ UNCHANGED <<Server, Globals, vtries, answer>>
FirstOf(S, seq) == seq[CHOOSE i \in DOMAIN seq : seq[i] \in S /\ \A j \in 1 .. i - 1 : seq[j] \notin S]
WithRepo(v) == {g \in AllVgs : HostOf(g) = v /\ repo[g] # NoRepo}
UsableVgs(v) == {g \in ConfiguredVgs : HostOf(g) = v /\ v \notin MgmtVioses}
\* The loop over the groups of one VIOS stops at the first repository; the configured
\* group is remembered only if it comes before.  The GET of a VIOS that is down raises.
ScanVios(t) ==
  /\ vpc[t] = "scan" /\ scan[t] # <<>> /\ found[t] = NoPair
  /\ LET v == Head(scan[t])
         repos == WithRepo(v)
         first == FirstOf(repos, VoptGroups[v])
         before == {g \in UsableVgs(v) : repos = {} \/ (g # first /\ FirstOf({first, g}, VoptGroups[v]) = g)}
     IN  IF v \notin viosUp
           THEN VoptGoto(t, "raised") /\ UNCHANGED <<scan, found, conf>>
           ELSE /\ found' = [found EXCEPT ![t] = IF repos = {} THEN NoPair ELSE Pair(first, v)]
                /\ conf' = IF conf[t] # NotFound \/ before = {} THEN conf
                           ELSE LET g == FirstOf(before, VoptGroups[v])
                                IN  [conf EXCEPT ![t] = [vg |-> g, vios |-> v, etag |-> vgEtag[g]]]
                /\ scan' = [scan EXCEPT ![t] = Tail(@)]
                /\ UNCHANGED vpc
  /\ UNCHANGED <<Server, Globals, vtries, answer>>

\* _find_or_rebuild_vopt_repo, after the scan: NoMediaRepoVolumeGroupFound, or the
\* repository is there, or it has to be created.
ScanEnds(t) ==
  /\ vpc[t] = "scan" /\ (scan[t] = <<>> \/ found[t] # NoPair)
  /\ VoptGoto(t, IF found[t] # NoPair THEN "save vg" ELSE IF conf[t] = NotFound THEN "raised" ELSE "create")
  /\ UNCHANGED <<Server, Globals, scan, found, conf, vtries, answer>>
AnyVersion(t) == TRUE  \* mutant: the update is not conditional
VgIsCurrent(t) == conf[t].etag = vgEtag[conf[t].vg]
CreateRepo(t) ==
  /\ vpc[t] = "create" /\ conf[t].vios \in viosUp /\ VgIsCurrent(t)
  /\ repo' = [repo EXCEPT ![conf[t].vg] = {}]
  /\ vgEtag' = [vgEtag EXCEPT ![conf[t].vg] = @ + 1]
  /\ found' = [found EXCEPT ![t] = Pair(conf[t].vg, conf[t].vios)]
  /\ VoptGoto(t, "save vg")
  /\ UNCHANGED <<viosUp, outages, nMedia, Globals, scan, conf, vtries, answer>>
\* An etag mismatch is retried from the start, up to the last try; others are raised.
CreateFails(t) ==
  /\ vpc[t] = "create" /\ ~(conf[t].vios \in viosUp /\ VgIsCurrent(t))
  /\ VoptGoto(t, IF conf[t].vios \in viosUp /\ vtries[t] < VoptTries THEN "call" ELSE "raised")
  /\ UNCHANGED <<Server, Globals, scan, found, conf, vtries, answer>>

\* The globals are written one by one and read again, one by one.
SaveVg(t) ==
  /\ vpc[t] = "save vg"
  /\ curVg' = found[t].vg
  /\ VoptGoto(t, "save vios")
  /\ UNCHANGED <<Server, curVios, scan, found, conf, vtries, answer>>
SaveVios(t) ==
  /\ vpc[t] = "save vios"
  /\ curVios' = found[t].vios
  /\ VoptGoto(t, "return vios")
  /\ UNCHANGED <<Server, curVg, scan, found, conf, vtries, answer>>
ReturnVios(t) ==
  /\ vpc[t] = "return vios"
  /\ answer' = [answer EXCEPT ![t].vios = curVios]
  /\ VoptGoto(t, "return vg")
  /\ UNCHANGED <<Server, Globals, scan, found, conf, vtries>>
ReturnVg(t) ==
  /\ vpc[t] = "return vg"
  /\ answer' = [answer EXCEPT ![t].vg = curVg]
  /\ VoptGoto(t, "returned")
  /\ UNCHANGED <<Server, Globals, scan, found, conf, vtries>>

-----------------------------------------------------------------------------
\* Maintenance of the VIOSes; users of the repositories.
Outage(v) ==
  /\ outages < MaxOutages /\ outages' = outages + 1
  /\ viosUp' = IF v \in viosUp THEN viosUp \ {v} ELSE viosUp \cup {v}
  /\ UNCHANGED <<repo, vgEtag, nMedia, Globals, vpc, scan, found, conf, vtries, answer>>
AddMedia(g) ==
  /\ repo[g] # NoRepo /\ HostOf(g) \in viosUp
  /\ nMedia < MaxMedia /\ nMedia' = nMedia + 1
  /\ repo' = [repo EXCEPT ![g] = @ \cup {nMedia'}]
  /\ vgEtag' = [vgEtag EXCEPT ![g] = @ + 1]
  /\ UNCHANGED <<viosUp, outages, Globals, vpc, scan, found, conf, vtries, answer>>

VoptStep(t) ==
  \/ CallVopt(t) \/ ReadVg(t) \/ ValidateVg(t)
  \/ GetActives(t) \/ ScanVios(t) \/ ScanEnds(t) \/ CreateRepo(t) \/ CreateFails(t)
  \/ SaveVg(t) \/ SaveVios(t) \/ ReturnVios(t) \/ ReturnVg(t)
VoptNext == (\E t \in VoptCallers : VoptStep(t)) \/ (\E v \in DOMAIN VoptGroups : Outage(v)) \/ (\E g \in AllVgs : AddMedia(g))
VoptSpec == VoptInit /\ [][VoptNext]_voptVars

-----------------------------------------------------------------------------
(* Properties.                                                             *)

\* "If no media repos was found, create it": however scans, creations and uploads
\* interleave, a repository that exists, and the media in it, are never replaced by the
\* repository that a caller creates from what its scan saw.
MediaStay == [][\A g \in AllVgs : repo[g] # NoRepo => repo'[g] # NoRepo /\ repo[g] \subseteq repo'[g]]_voptVars

\* Refuted.  ":return vios_uuid: The VIOS uuid hosting the VG": a caller that returns
\* between the two writes of another one returns a group of the one and a VIOS of the other.
BelongTogether ==
  \A t \in VoptCallers : vpc[t] = "returned" => HostOf(answer[t].vg) = answer[t].vios
=============================================================================
