--------------------------- MODULE StorageMapping ---------------------------
(***************************************************************************)
(* pypowervm.tasks.scsi_mapper and the scrubbing tasks of                  *)
(* pypowervm.tasks.storage, on the vSCSI mappings of one VIOS.  Threads    *)
(* add, remove and remap under the lock 'vscsi_mapping'; scrubs run as     *)
(* FeedTasks, under another lock; LPARs come and go and their IDs are      *)
(* recycled.  Only the etag of the VIOS orders them all.  Discoveries of   *)
(* hdisks (pypowervm.tasks.hdisk) scrub what stale LPARs have left, too.   *)
(***************************************************************************)
EXTENDS Integers, FiniteSets

CONSTANTS
  Workers,    \* threads
  Nobody,
  Calls,      \* the calls that are made
  Maps,       \* the mappings at the start
  Storage,    \* storage elements [typ, name, udid]
  NoStorage,
  LparIds,    \* short IDs
  Vgs,        \* the volume groups: the UDIDs they hold, whether they have a media repository
  FuseLimit,
  MaxTries,   \* tries of the retry decorator
  MaxCalls,   \* bound on the calls
  MaxOuter    \* bound on what happens outside: LPARs created and deleted

ASSUME MappingConstantsOK ==
  /\ Nobody \notin Workers
  /\ NoStorage \notin Storage
  /\ FuseLimit \in Nat \ {0} /\ MaxTries \in Nat \ {0} /\ MaxCalls \in Nat /\ MaxOuter \in Nat

VARIABLES
  maps,       \* scsi_mappings on the server
  ver,        \* etag of the VIOS
  vgs,        \* the volume groups on the server
  lpars,      \* IDs of the LPARs that exist
  gen,        \* ID -> LPARs that have had it: with the ID, the UUID of the present one
  mapLock,    \* holder of 'vscsi_mapping'
  mpc,        \* thread -> where it is
  req,        \* thread -> the call
  own,        \* thread -> gen of the LPAR that the call names
  vw,         \* thread -> the VIOS wrapper [maps, ver] it works on
  doomed,     \* scrub -> the LPAR IDs it takes for stale
  removals,   \* scrub -> the mappings it has removed
  tries,      \* thread -> tries made
  nextId,     \* next mapping (and bus) ID of the server
  nCalls, outer,
  broke,      \* observer: a scrub has raised on a volume group
  cut         \* observer: mappings of LPARs that existed, removed by a scrub for stale LPARs

srv == <<maps, ver, nextId>>
mapVars == <<srv, vgs, lpars, gen, mapLock, mpc, req, own, vw, doomed, removals, tries, nCalls, outer, broke, cut>>

-----------------------------------------------------------------------------
(* Finding mappings.                                                       *)

\* gen_match_func: names before prefixes before UDIDs, and the type always.
Matches(c, s) ==
  /\ s # NoStorage /\ s.typ = c.typ
  /\ \/ c.names # {} /\ s.name \in c.names
     \/ c.names = {} /\ c.prefixes # {} /\ s.prefix \in c.prefixes
     \/ c.names = {} /\ c.prefixes = {} /\ (c.udids = {} \/ s.udid \in c.udids)

\* find_maps: the client by UUID (the href, which some mappings lack) or by ID (of the server adapter).
OfClient(m, t, byUuid) == m.lpar = req[t].lpar /\ (byUuid => m.href /\ m.gen = own[t])
FindMaps(M, t, byUuid, orphans, matching) ==
  {m \in M : (orphans \/ m.client) /\ OfClient(m, t, byUuid) /\ m.stg \in matching}

\* _separate_mappings: the buses of the client that are not orphans.
Separated(M, t) == {m \in M : m.client /\ OfClient(m, t, TRUE)}
OnBus(M, b) == {m \in M : m.bus = b}

\* index_mappings.
InUse(M) == {m.stg.udid : m \in {m \in M : m.stg # NoStorage}}

\* find_stale_lpars, and remove_chain of add_lpar_storage_scrub_tasks.
StaleLpars(M) == {m.lpar : m \in M} \ lpars
ToScrub(r, M) ==
  CASE r.op = "comprehensive" -> StaleLpars(M)
    [] r.op \in {"scrub", "hdisk", "iscsi"} -> IF r.exist THEN r.ids ELSE r.ids \ lpars
    [] OTHER -> {}

\* _remove_orphan_maps: not those whose server adapter may serve any client.
Orphans(r, M) ==
  IF r.op \notin {"comprehensive", "orphans"} THEN {}
  ELSE {m \in M : ~m.client /\ ~m.any /\ (r.ids = {} \/ m.lpar \in r.ids)}

-----------------------------------------------------------------------------
(* What a VIOS may look like, and the calls.                               *)

\* "If the storage element is already there, do nothing": by type and name.
SameElem(a, b) == b # NoStorage /\ a.typ = b.typ /\ a.name = b.name

\* An element is mapped at most once to an LPAR; no bus that has a client is
\* filled above the fuse limit.
MappedOnce(M) ==
  \A m, n \in M : m.client /\ n.client /\ m.lpar = n.lpar /\ m.stg # NoStorage /\ SameElem(m.stg, n.stg) => m = n
WithinFuse(M) == \A m \in M : m.client => Cardinality(OnBus(M, m.bus)) <= FuseLimit

\* The server: a bus (a pair of adapters) has one client, whose UUID is known; the
\* IDs below FirstId are taken.
FirstId == 100
Mapping ==
  [id : Nat, lpar : Nat, gen : Nat, href : BOOLEAN, client : BOOLEAN, any : BOOLEAN, bus : Nat,
   stg : Storage \cup {NoStorage}]
OneClientPerBus(M) ==
  \A m, n \in M : m.bus = n.bus => m.lpar = n.lpar /\ m.gen = n.gen /\ (m.client <=> n.client) /\ (m.href <=> n.href)
ClientsAre(M, ids, g) == \A m \in M : m.client => m.href /\ m.lpar \in ids /\ m.gen = g[m.lpar]

ASSUME MapsOK ==
  \A M \in Maps :
    /\ IsFiniteSet(M) /\ M \subseteq Mapping /\ \A m \in M : m.bus < FirstId
    /\ OneClientPerBus(M) /\ ClientsAre(M, LparIds, [l \in LparIds |-> 0])
    /\ MappedOnce(M) /\ WithinFuse(M)

\* modify_vopt_mapping is given a medium; a discovery scrubs for stale LPARs only.
Discovery == [op : {"hdisk", "iscsi"}, ids : SUBSET Nat, exist : {FALSE}, stg : Storage]
CallOK(r) ==
  /\ r.op \in {"add", "remove", "remap", "comprehensive", "orphans", "scrub", "hdisk", "iscsi"}
  /\ r.op \in {"add", "remove", "remap"} => r.lpar \in LparIds
  /\ r.op = "add" => r.stg \in Storage
  /\ r.op = "remap" => r.new \in Storage /\ r.new.typ = "VOpt"
  /\ r.op \in {"hdisk", "iscsi"} => r \in Discovery

ASSUME CallsOK == LparIds \subseteq Nat /\ \A r \in Calls : CallOK(r)

-----------------------------------------------------------------------------
NoCall == [op |-> "none"]
NoWrapper == [maps |-> {}, ver |-> 0]

MappingInit ==
  /\ maps \in Maps
  /\ ver = 0 /\ nextId = FirstId
  /\ vgs = Vgs
  /\ lpars = LparIds
  /\ gen = [l \in LparIds |-> 0]
  /\ mapLock = Nobody
  /\ mpc = [t \in Workers |-> "idle"]
  /\ req = [t \in Workers |-> NoCall]
  /\ own = [t \in Workers |-> 0]
  /\ vw = [t \in Workers |-> NoWrapper]
  /\ doomed = [t \in Workers |-> {}]
  /\ removals = [t \in Workers |-> {}]
  /\ tries = [t \in Workers |-> 0]
  /\ nCalls = 0 /\ outer = 0
  /\ broke = FALSE
  /\ cut = {}

Goto(t, where) == mpc' = [mpc EXCEPT ![t] = where]
Locks(r) == r.op \in {"add", "remove", "remap"}
Discovers(r) == r.op \in {"hdisk", "iscsi"}
Snapshot(t) == vw' = [vw EXCEPT ![t] = [maps |-> maps, ver |-> ver]]

\* A call is made with a wrapper that was fetched before, or with a UUID.
MapCall(t, r) ==
  /\ mpc[t] = "idle" /\ nCalls < MaxCalls
  /\ Locks(r) => r.lpar \in lpars \/ r.op = "remove"
  /\ nCalls' = nCalls + 1
  /\ req' = [req EXCEPT ![t] = r]
  /\ own' = [own EXCEPT ![t] = IF Locks(r) THEN gen[r.lpar] ELSE 0]
  /\ tries' = [tries EXCEPT ![t] = 1]
  /\ IF Locks(r) /\ r.wrapper
     THEN Goto(t, "lock") /\ Snapshot(t)
     ELSE Goto(t, IF Locks(r) THEN "lock" ELSE IF Discovers(r) THEN "discover" ELSE "feed") /\ UNCHANGED vw
  /\ UNCHANGED <<srv, vgs, lpars, gen, mapLock, doomed, removals, outer, broke, cut>>

\* lock.synchronized('vscsi_mapping'), held over the retries.
Acquire(t) ==
  /\ mpc[t] = "lock" /\ mapLock = Nobody
  /\ mapLock' = t
  /\ Goto(t, IF req[t].wrapper THEN "work" ELSE "get")
  /\ UNCHANGED <<srv, vgs, lpars, gen, req, own, vw, doomed, removals, tries, nCalls, outer, broke, cut>>

\* VIOS.get, with a UUID, and after _argmod.
GetVios(t) ==
  /\ mpc[t] = "get"
  /\ Snapshot(t)
  /\ Goto(t, "work")
  /\ UNCHANGED <<srv, vgs, lpars, gen, mapLock, req, own, doomed, removals, tries, nCalls, outer, broke, cut>>

\* The call is over, with its locals.
Ends(t) ==
  /\ Goto(t, "idle")
  /\ mapLock' = IF Locks(req[t]) THEN Nobody ELSE mapLock
  /\ req' = [req EXCEPT ![t] = NoCall] /\ own' = [own EXCEPT ![t] = 0]
  /\ vw' = [vw EXCEPT ![t] = NoWrapper]
  /\ doomed' = [doomed EXCEPT ![t] = {}] /\ removals' = [removals EXCEPT ![t] = {}]
  /\ tries' = [tries EXCEPT ![t] = 0]

\* EntryWrapper.update: the server takes a POST with the current etag only.
TakesAny(t) == TRUE                             \* mutant: If-Match is not sent
Fresh(t) == vw[t].ver = ver
Posted(M) == maps' = M /\ ver' = ver + 1

-----------------------------------------------------------------------------
(* add_vscsi_mapping.                                                      *)

AlreadyThere(t) ==
  FindMaps(vw[t].maps, t, TRUE, FALSE, {s \in Storage : SameElem(req[t].stg, s)}) # {}

AddNothing(t) ==
  /\ mpc[t] = "work" /\ req[t].op = "add" /\ AlreadyThere(t)
  /\ Ends(t)
  /\ UNCHANGED <<srv, vgs, lpars, gen, nCalls, outer, broke, cut>>

\* build_vscsi_mapping: any bus with room is cloned; a new one if there is none.
HasRoom(M, b) == Cardinality(OnBus(M, b)) < FuseLimit
Clonable(t) == LET M == Separated(vw[t].maps, t) IN {b \in {m.bus : m \in M} : HasRoom(M, b)}
Serves(t) == req[t].lpar \in lpars /\ own[t] = gen[req[t].lpar]
AddVscsiMapping(t) ==
  /\ mpc[t] = "work" /\ req[t].op = "add" /\ ~AlreadyThere(t) /\ Fresh(t)
  /\ IF Serves(t)
     THEN \E b \in IF Clonable(t) = {} THEN {nextId} ELSE Clonable(t) :
            /\ Posted(vw[t].maps \cup {[id |-> nextId, lpar |-> req[t].lpar, gen |-> own[t], href |-> TRUE,
                                        client |-> TRUE, any |-> FALSE, bus |-> b, stg |-> req[t].stg]})
            /\ nextId' = nextId + 1
     ELSE UNCHANGED srv                         \* the server: no such LPAR
  /\ Ends(t)
  /\ UNCHANGED <<vgs, lpars, gen, nCalls, outer, broke, cut>>

-----------------------------------------------------------------------------
(* remove_vopt_mapping, remove_vdisk_mapping, remove_lu_mapping,           *)
(* remove_pv_mapping: _remove_storage_elem.  Orphans are removed too.      *)

Hit(t) ==
  FindMaps(vw[t].maps, t, req[t].byUuid, TRUE, {s \in Storage : Matches(req[t].crit, s)})

RemoveStorageElem(t) ==
  /\ mpc[t] = "work" /\ req[t].op = "remove"
  /\ \/ Hit(t) = {} /\ UNCHANGED <<maps, ver>>
     \/ Hit(t) # {} /\ Fresh(t) /\ Posted(vw[t].maps \ Hit(t))
  /\ Ends(t)
  /\ UNCHANGED <<nextId, vgs, lpars, gen, nCalls, outer, broke, cut>>

\* modify_vopt_mapping: _modify_storage_elem.  Exactly one mapping, and none yet
\* of the new medium.
NewMediaMaps(t) ==
  LET new == [typ |-> "VOpt", names |-> {req[t].new.name}, prefixes |-> {}, udids |-> {}]
  IN FindMaps(vw[t].maps, t, req[t].byUuid, FALSE, {s \in Storage : Matches(new, s)})
MayRemap(t) == Cardinality(Hit(t)) = 1 /\ NewMediaMaps(t) = {}

ModifyStorageElem(t) ==
  /\ mpc[t] = "work" /\ req[t].op = "remap"
  /\ \/ ~MayRemap(t) /\ UNCHANGED <<maps, ver>>   \* SingleMappingNotFoundRemapError, StorageMapExistsRemapError
     \/ /\ MayRemap(t) /\ Fresh(t)
        /\ Posted({IF m \in Hit(t) THEN [m EXCEPT !.stg = req[t].new] ELSE m : m \in vw[t].maps})
  /\ Ends(t)
  /\ UNCHANGED <<nextId, vgs, lpars, gen, nCalls, outer, broke, cut>>

\* Whether the call, as things look to it, POSTs.
Posts(t) ==
  CASE req[t].op = "add" -> ~AlreadyThere(t)
    [] req[t].op = "remove" -> Hit(t) # {}
    [] OTHER -> MayRemap(t)

\* The etag does not match: retry with a fresh GET, MaxTries times in all.
Mismatch(t) ==
  /\ mpc[t] = "work" /\ Locks(req[t]) /\ ~Fresh(t) /\ Posts(t)
  /\ IF tries[t] < MaxTries
     THEN /\ Goto(t, "get") /\ tries' = [tries EXCEPT ![t] = @ + 1]
          /\ UNCHANGED <<mapLock, req, own, vw, doomed, removals>>
     ELSE Ends(t)
  /\ UNCHANGED <<srv, vgs, lpars, gen, nCalls, outer, broke, cut>>

-----------------------------------------------------------------------------
(* Scrubbing: ComprehensiveScrub, add_lpar_storage_scrub_tasks,            *)
(* add_orphan_storage_scrub_tasks, ScrubOrphanStorageForLpar.              *)

\* The feed is fetched, and fetched again when the POST finds another etag.
ScrubFeed(t) ==
  /\ mpc[t] = "feed"
  /\ Snapshot(t)
  /\ Goto(t, "ids")
  /\ UNCHANGED <<srv, vgs, lpars, gen, mapLock, req, own, doomed, removals, tries, nCalls, outer, broke, cut>>

\* LPAR.get and VIOS.get: the LPARs that exist now.  Run again with every try.
KnownIds(t) == IF tries[t] > 1 THEN doomed[t] ELSE ToScrub(req[t], vw[t].maps)  \* mutant: provided by the first try
FreshIds(t) == ToScrub(req[t], vw[t].maps)
ScrubIds(t) ==
  /\ mpc[t] = "ids"
  /\ doomed' = [doomed EXCEPT ![t] = FreshIds(t)]
  /\ Goto(t, "scrub")
  /\ UNCHANGED <<srv, vgs, lpars, gen, mapLock, req, own, vw, removals, tries, nCalls, outer, broke, cut>>

\* The FeedTask has been executed: a discovery goes on.
AfterScrub(t) ==
  IF Discovers(req[t])
  THEN Goto(t, IF req[t].op = "iscsi" THEN "logout" ELSE "again") /\ UNCHANGED <<mapLock, req, own, vw, doomed, removals, tries>>
  ELSE Ends(t)

\* _remove_lpar_maps and _remove_orphan_maps, and the update if they found any.
Scrubbed(t) == {m \in vw[t].maps : m.lpar \in doomed[t]} \cup Orphans(req[t], vw[t].maps)
ScrubNothing(t) ==
  /\ mpc[t] = "scrub" /\ Scrubbed(t) = {}
  /\ AfterScrub(t)
  /\ UNCHANGED <<srv, vgs, lpars, gen, nCalls, outer, broke, cut>>

Scrub(t) ==
  /\ mpc[t] = "scrub" /\ Scrubbed(t) # {} /\ Fresh(t)
  /\ Posted(vw[t].maps \ Scrubbed(t))
  /\ vw' = [vw EXCEPT ![t] = [maps |-> maps', ver |-> ver']]
  /\ removals' = [removals EXCEPT ![t] = Scrubbed(t)]
  /\ cut' = IF req[t].op = "scrub" /\ req[t].exist THEN cut
            ELSE cut \cup {m \in Scrubbed(t) : m.client /\ m.lpar \in lpars /\ m.gen = gen[m.lpar]}
  /\ Goto(t, "storage")
  /\ UNCHANGED <<nextId, vgs, lpars, gen, mapLock, req, own, doomed, tries, nCalls, outer, broke>>

ScrubAgain(t) ==
  /\ mpc[t] = "scrub" /\ Scrubbed(t) # {} /\ ~Fresh(t)
  /\ IF tries[t] < MaxTries
     THEN /\ Goto(t, "feed") /\ tries' = [tries EXCEPT ![t] = @ + 1]
          /\ UNCHANGED <<mapLock, req, own, vw, doomed, removals>>
     ELSE Ends(t)
  /\ UNCHANGED <<srv, vgs, lpars, gen, nCalls, outer, broke, cut>>

\* _RemoveStorage: what was removed and is not mapped any more, of VOpts and
\* VDisks only: an LU or a PV may be in use by another VIOS.
Indexed(t) == InUse(vw[t].maps)
ToDelete(t) == {m.stg : m \in {m \in removals[t] : m.stg # NoStorage /\ m.stg.typ \in {"VOpt", "VDisk"}
                                                    /\ m.stg.udid \notin Indexed(t)}}

\* _rm_vdisks and _rm_vopts on every volume group; a group that has no media
\* repository raises when there are VOpts to remove.
Raises(t) == (\E s \in ToDelete(t) : s.typ = "VOpt") /\ \E g \in DOMAIN vgs : ~vgs[g].repo
RemoveStorage(t) ==
  /\ mpc[t] = "storage"
  /\ vgs' = [g \in DOMAIN vgs |->
               IF (\E s \in ToDelete(t) : s.typ = "VOpt") /\ ~vgs[g].repo THEN vgs[g]
               ELSE [vgs[g] EXCEPT !.udids = @ \ {s.udid : s \in ToDelete(t)}]]
  /\ broke' = (broke \/ Raises(t))
  /\ IF Raises(t) THEN Ends(t) ELSE AfterScrub(t)
  /\ UNCHANGED <<srv, lpars, gen, nCalls, outer, cut>>

-----------------------------------------------------------------------------
(* discover_hdisk and discover_iscsi.                                      *)

\* The VIOS reports a disk that a mapping of a stale LPAR still holds as in use, or
\* fails; any discovery may fail.
Blocked(t) == \E m \in maps : m.stg = req[t].stg /\ m.lpar \notin lpars
Reported(t) == IF Blocked(t) THEN {"in use", "error", "odm query"} ELSE {"available", "some paths", "error"}

\* good_discovery; iSCSI recovers from one status only.
GoodDiscovery(status) == status \in {"available", "in use", "some paths"}
Recovers(r, status) == IF r.op = "iscsi" THEN status = "odm query" ELSE ~GoodDiscovery(status)

\* lua_recovery or _discover_iscsi, the first time.
Discover(t) ==
  /\ mpc[t] = "discover"
  /\ \E status \in Reported(t) :
       IF Recovers(req[t], status)
       THEN Goto(t, "recover") /\ UNCHANGED <<mapLock, req, own, vw, doomed, removals, tries>>
       ELSE Ends(t)
  /\ UNCHANGED <<srv, vgs, lpars, gen, nCalls, outer, broke, cut>>

\* VIOS.get; this wrapper is the feed of the scrub.
Recover(t) ==
  /\ mpc[t] = "recover"
  /\ Snapshot(t)
  /\ Goto(t, "stale")
  /\ UNCHANGED <<srv, vgs, lpars, gen, mapLock, req, own, doomed, removals, tries, nCalls, outer, broke, cut>>

\* find_stale_lpars, and add_lpar_storage_scrub_tasks for what it finds.
FindStale(t) ==
  /\ mpc[t] = "stale"
  /\ LET ids == StaleLpars(vw[t].maps)
     IN IF ids = {} THEN IF req[t].op = "iscsi" THEN AfterScrub(t) ELSE Ends(t)
        ELSE /\ req' = [req EXCEPT ![t].ids = ids]
             /\ Goto(t, "ids") /\ UNCHANGED <<mapLock, own, vw, doomed, removals, tries>>
  /\ UNCHANGED <<srv, vgs, lpars, gen, nCalls, outer, broke, cut>>

\* remove_iscsi, which raises if the VIOS cannot.
RemoveIscsi(t) ==
  /\ mpc[t] = "logout"
  /\ \/ Goto(t, "again") /\ UNCHANGED <<mapLock, req, own, vw, doomed, removals, tries>>
     \/ Ends(t)
  /\ UNCHANGED <<srv, vgs, lpars, gen, nCalls, outer, broke, cut>>

\* The second discovery is the last, whatever it reports.
Rediscover(t) ==
  /\ mpc[t] = "again"
  /\ Ends(t)
  /\ UNCHANGED <<srv, vgs, lpars, gen, nCalls, outer, broke, cut>>

-----------------------------------------------------------------------------
(* The rest of the system.                                                 *)

\* An LPAR is deleted: the VIOS keeps server adapters without clients.
LparDeleted(l) ==
  /\ outer < MaxOuter /\ l \in lpars
  /\ lpars' = lpars \ {l}
  /\ Posted({IF m.lpar = l THEN [m EXCEPT !.client = FALSE] ELSE m : m \in maps})
  /\ outer' = outer + 1
  /\ gen' = [gen EXCEPT ![l] = @ + 1]
  /\ UNCHANGED <<nextId, vgs, mapLock, mpc, req, own, vw, doomed, removals, tries, nCalls, broke, cut>>

\* An LPAR is created, with the ID of a deleted one.
LparCreated(l) ==
  /\ outer < MaxOuter /\ l \notin lpars
  /\ lpars' = lpars \cup {l}
  /\ outer' = outer + 1
  /\ UNCHANGED <<srv, vgs, gen, mapLock, mpc, req, own, vw, doomed, removals, tries, nCalls, broke, cut>>

MappingNext ==
  \/ \E t \in Workers :
       \/ \E r \in Calls : MapCall(t, r)
       \/ Acquire(t) \/ GetVios(t) \/ Mismatch(t)
       \/ AddNothing(t) \/ AddVscsiMapping(t) \/ RemoveStorageElem(t) \/ ModifyStorageElem(t)
       \/ ScrubFeed(t) \/ ScrubIds(t) \/ ScrubNothing(t) \/ Scrub(t) \/ ScrubAgain(t) \/ RemoveStorage(t)
       \/ Discover(t) \/ Recover(t) \/ FindStale(t) \/ RemoveIscsi(t) \/ Rediscover(t)
  \/ \E l \in LparIds : LparDeleted(l) \/ LparCreated(l)

MappingSpec == MappingInit /\ [][MappingNext]_mapVars

-----------------------------------------------------------------------------
(* Properties.                                                             *)

\* A remove or remap touches the mappings that it is for and no others: those of
\* other LPARs, other elements, and those that others have added or removed since
\* the wrapper was fetched, stay.
TouchesOnlyItsOwn ==
  [][\A t \in Workers : mpc[t] = "work" /\ mpc'[t] = "idle" =>
       /\ req[t].op = "add" => maps \subseteq maps'
       /\ req[t].op \in {"remove", "remap"} =>
            \A m \in maps \ maps' : m.lpar = req[t].lpar /\ Matches(req[t].crit, m.stg)]_mapVars

\* Scrubs run while LPARs come and go and IDs are recycled: a scrub for LPARs that
\* do not exist, or one that a discovery starts, never takes a mapping that was made
\* for an LPAR that does.
ScrubSparesLive == cut = {}

\* add_vscsi_mapping and scrubs, however often they are called, retried and mixed,
\* while LPARs come and go: an element is mapped at most once to an LPAR, no bus is
\* filled above the fuse limit, and no scrub takes a mapping of an LPAR that exists.
MappingsAreSound ==
  /\ MappedOnce(maps) /\ WithinFuse(maps)
  /\ ScrubSparesLive

\* Refuted.  "get all VGs for this VIOS and delete from all of them": a scrub of
\* virtual optical media does not fail on the groups that have no repository.
ScrubCopesWithAllGroups == ~broke

\* Refuted.  discover_hdisk: "The scrub-and-retry will be triggered if ... status is
\* anything other than DEVICE_AVAILABLE or FOUND_ITL_ERR"; good_discovery accepts
\* DEVICE_IN_USE, so what a stale LPAR holds is not scrubbed.
InUseIsScrubbed ==
  [][\A t \in Workers : mpc[t] = "discover" /\ mpc'[t] = "idle" /\ req[t].op = "hdisk" => ~Blocked(t)]_mapVars
=============================================================================
