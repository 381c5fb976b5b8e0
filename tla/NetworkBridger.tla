--------------------------- MODULE NetworkBridger ---------------------------
(***************************************************************************)
(* pypowervm.tasks.network_bridger: VLANs are put on and taken off the     *)
(* Network Bridges of one virtual switch.  A call works on the feed that   *)
(* it fetched and POSTs with its etags; calls of this process exclude each *)
(* other by a lock, other users of the REST server do not.  Both bridgers  *)
(* are modelled: TA (trunk adapters of the SEAs) and VNET (load groups and *)
(* virtual networks).                                                      *)
(***************************************************************************)
EXTENDS Integers, Sequences, SequencesExt, FiniteSetsExt

CONSTANTS
  Threads,      \* threads of this process that call the bridger
  Nobody,
  Bridges,      \* bridge -> its record at the start
  Requests,     \* the calls that are made
  Vioses,       \* the VIOSes: their trunk adapters on the switch, the devices of their SEAs
  Foreign,      \* VLANs that only other users put on or take off a bridge
  TopVid,       \* 4094
  MaxVlans,     \* _MAX_VLANS_PER_VEA
  MaxVeas,      \* _MAX_VEAS_PER_SEA
  MaxCalls,     \* bound on the calls made
  MaxTouches    \* bound on the changes made by other users

Ids == DOMAIN Bridges
Vlans == 1 .. TopVid
Rng(s) == {s[i] : i \in DOMAIN s}

TrunkType == [pvid : Vlans, tagged : SUBSET Vlans, uris : SUBSET Vlans, bld : BOOLEAN]
BridgeType ==
  [pvid : Vlans, prim : SUBSET Vlans, adpts : Seq(TrunkType), peer : Seq(TrunkType),
   failover : BOOLEAN, lb : BOOLEAN, ver : Nat]

ASSUME BridgerConstantsOK ==
  /\ Nobody \notin Threads
  /\ TopVid \in Nat /\ MaxVeas \in Nat /\ MaxCalls \in Nat /\ MaxTouches \in Nat
  /\ MaxVlans \in Nat /\ MaxVlans >= 2   \* a load group has an untagged network and a tagged one
  /\ Foreign \subseteq Vlans
  /\ Requests # {}
  /\ \A r \in Requests :
       /\ r.op \in {"ensure", "remove"} /\ r.nb \in Ids /\ r.failIfPvid \in BOOLEAN
       /\ r.vlans \in Seq(Vlans \ Foreign) /\ (r.op = "remove" => Len(r.vlans) = 1)
       /\ \A i, j \in DOMAIN r.vlans : r.vlans[i] = r.vlans[j] => i = j

VARIABLES
  vnetAware,  \* adapter.traits.vnet_aware: which bridger is used
  spread,     \* CONF.load_balance_vlan_across_veas
  nb,         \* the bridges on the server, with their etag ver
  vnets,      \* VLAN -> its virtual network: "none", "tagged", "untagged"
  lock,       \* the holder of _ENSURE_VLAN_LOCK
  pc,         \* thread -> where in its call
  call,       \* thread -> the request
  feed,       \* thread -> nb_wraps, as fetched and as changed locally
  todo,       \* thread -> the vlan_ids still to be evaluated
  new,        \* thread -> new_vlans
  calls, touches,
  had,        \* observer: bridge -> VLANs it had when the call started
  torn,       \* observer: the second update of a reassignment failed in this call
  lost        \* observer: a removal from a peer did not reach the server

local == <<call, feed, todo, new>>
server == <<nb, vnets>>
seen == <<had, torn, lost>>
config == <<vnetAware, spread>>
vars == <<config, server, lock, pc, local, calls, touches, seen>>

-----------------------------------------------------------------------------
(* The wrappers.  A bridge has a primary PVID with tagged VLANs, and       *)
(* additional trunks (SEA) or load groups, in order; peer is the list of   *)
(* the second SEA of a failover bridge.                                    *)

Tagged(trunks) == UNION {g.tagged : g \in Rng(trunks)}

\* _build_orphan_map, _get_orphan_vlans: the VLANs of trunk adapters that are in
\* no SEA of their VIOS.
Orphans ==
  UNION {{t.pvid} \cup t.tagged : t \in UNION {{t \in v.trunks : \A sea \in v.seas : t.dev \notin sea} : v \in Vioses}}

\* NetBridge.list_vlans(), supports_vlan and arbitrary_pvids.
Supported(b) == {b.pvid} \cup b.prim \cup Tagged(b.adpts)
ArbitraryPvids(b) == {g.pvid : g \in Rng(b.adpts)}
AllVlans(b) == Supported(b) \cup ArbitraryPvids(b)

\* The bridges at the start are as either bridger leaves them.
ASSUME BridgesOK ==
  /\ Bridges \in [Ids -> BridgeType]
  /\ \A a \in Ids : \A i \in DOMAIN Bridges[a].adpts :
       LET g == Bridges[a].adpts[i] IN
       /\ g.uris = g.tagged \cup {g.pvid} /\ ~g.bld /\ Cardinality(g.uris) <= MaxVlans
       /\ g.tagged = {} => Bridges[a].lb
       /\ \A j \in DOMAIN Bridges[a].adpts : i # j => g.tagged \cap Bridges[a].adpts[j].tagged = {}
       /\ g.pvid \notin Orphans
       /\ \A b \in Ids :
            /\ g.pvid \notin Supported(Bridges[b])
            /\ \A j \in DOMAIN Bridges[b].adpts : Bridges[b].adpts[j].pvid = g.pvid => a = b /\ i = j
  /\ \A a \in Ids : Bridges[a].failover => Bridges[a].peer = Bridges[a].adpts

\* LoadGroup.bld, TrunkAdapter.bld.
Trunk(pvid, vlan) ==
  [pvid |-> pvid, tagged |-> IF vnetAware THEN {} ELSE {vlan},
   uris |-> IF vnetAware THEN {pvid, vlan} ELSE {}, bld |-> vnetAware]

\* What the server makes of a load group that is POSTed.
Realized(g) == IF vnetAware THEN [g EXCEPT !.tagged = g.uris \ {g.pvid}, !.bld = FALSE] ELSE g

\* How full a trunk or a load group is.
Load(g) == IF vnetAware THEN Cardinality(g.uris) ELSE Cardinality(g.tagged)

-----------------------------------------------------------------------------
(* The choices.                                                            *)

\* _find_new_arbitrary_vid; 0 if every VLAN is used.
NewArbitraryVid(used) == LET free == (2 .. TopVid) \ used IN IF free = {} THEN 0 ELSE Max(free)

UsedOn(f) == UNION {AllVlans(f[b]) : b \in Ids}

\* _find_available_ld_grp and _find_available_trunks: the first of the least
\* used that have room; 0 if a new one is to be made.
Room(b) == {i \in DOMAIN b.adpts : Load(b.adpts[i]) < MaxVlans}
Least(b, S) == CHOOSE i \in S : \A j \in S :
  Load(b.adpts[i]) < Load(b.adpts[j]) \/ (Load(b.adpts[i]) = Load(b.adpts[j]) /\ i <= j)
Available(b) ==
  LET S == Room(b) IN
  IF \/ S = {}
     \/ ~vnetAware /\ spread /\ Len(b.adpts) < MaxVeas
     \/ b.lb /\ Cardinality(S) = 1 /\ Len(b.adpts) % 2 = 1
  THEN 0 ELSE Least(b, S)

\* _trunk_list, _find_peer_trunk: the positions of a trunk in both SEAs.
OnlyFirst(b, i) == {}                                     \* mutant: the peer is not looked for
PeerTrunks(b, i) == {j \in DOMAIN b.peer : b.peer[j].pvid = b.adpts[i].pvid}

\* Both SEAs, changed alike: F at i in the first, at the peer in the second.
WithTrunks(b, adpts, peer) == [b EXCEPT !.adpts = adpts, !.peer = peer]
OnBoth(b, i, F(_)) ==
  WithTrunks(b, [b.adpts EXCEPT ![i] = F(@)],
             [j \in DOMAIN b.peer |-> IF j \in PeerTrunks(b, i) THEN F(b.peer[j]) ELSE b.peer[j]])

\* _add_vlans_to_nb, for one VLAN.
With(g, v) == IF vnetAware THEN [g EXCEPT !.uris = @ \cup {v}] ELSE [g EXCEPT !.tagged = @ \cup {v}]
AddVlan(b, v, arb) ==
  IF Available(b) # 0 THEN OnBoth(b, Available(b), LAMBDA g : With(g, v))
  ELSE WithTrunks(b, Append(b.adpts, Trunk(arb, v)),
                  IF b.failover /\ ~vnetAware THEN Append(b.peer, Trunk(arb, v)) ELSE b.peer)

\* _remove_vlan_from_nb: the trunk goes with its last VLAN, unless a load
\* balanced bridge would be left without one.
MayGo(b) == ~b.lb \/ Len(b.adpts) > 1
Cut(g, v) == IF vnetAware THEN [g EXCEPT !.uris = @ \ {v}] ELSE [g EXCEPT !.tagged = @ \ {v}]
Carrier(b, v) ==
  CHOOSE i \in DOMAIN b.adpts : v \in b.adpts[i].tagged /\ \A j \in 1 .. i - 1 : v \notin b.adpts[j].tagged
LastOf(b, g) == Cardinality(g.tagged) = 1 /\ MayGo(b)
RemoveVlan(b, v) ==
  LET i == Carrier(b, v)
      gone == {j \in PeerTrunks(b, i) : LastOf(b, b.peer[j])}
      cut == OnBoth(b, i, LAMBDA g : Cut(g, v))
  IN WithTrunks(b, IF LastOf(b, b.adpts[i]) THEN RemoveAt(b.adpts, i) ELSE cut.adpts,
                IF gone # {} THEN RemoveAt(b.peer, Min(gone)) ELSE cut.peer)

\* What _remove_vlan_from_nb_synch comes to.  (For a peer that supports the VLAN
\* the first case does not arise, by ArbitraryIsUnused.)
KindWithoutPvids(b, v, failIfPvid) ==                     \* mutant: arbitrary PVIDs are not looked at
  IF v \notin Supported(b) THEN "nothing"
  ELSE IF failIfPvid /\ b.pvid = v THEN "fail"
  ELSE IF b.pvid = v \/ v \in b.prim \/ b.adpts = <<>> THEN "nothing"
  ELSE "remove"
RemoveKind(b, v, failIfPvid) ==
  IF v \in ArbitraryPvids(b) THEN "reassign"
  ELSE IF v \notin Supported(b) THEN "nothing"
  ELSE IF failIfPvid /\ b.pvid = v THEN "fail"
  ELSE IF b.pvid = v \/ v \in b.prim \/ b.adpts = <<>> THEN "nothing"
  ELSE "remove"

\* The trunk with the PVID old gets the PVID arb; a load group is replaced and
\* comes last.
Impacted(b, old) == CHOOSE i \in DOMAIN b.adpts : b.adpts[i].pvid = old
Repvid(b, old, arb) == OnBoth(b, Impacted(b, old), LAMBDA g : [g EXCEPT !.pvid = arb])
Detached(b, old) == WithTrunks(b, RemoveAt(b.adpts, Impacted(b, old)), b.peer)
CloneOfOne(b, old, arb) ==                                \* mutant: the other virtual networks are dropped
  [b.adpts[Impacted(b, old)] EXCEPT !.pvid = arb, !.uris = {arb}]
Cloned(b, old, arb) ==
  [b.adpts[Impacted(b, old)] EXCEPT !.pvid = arb, !.uris = (@ \ {old}) \cup {arb}]
Attached(b, old, arb) ==
  WithTrunks(b, Append(RemoveAt(b.adpts, Impacted(b, old)), Cloned(b, old, arb)), b.peer)

-----------------------------------------------------------------------------
NoCall == CHOOSE r \in Requests : TRUE

Init ==
  /\ vnetAware \in BOOLEAN /\ spread \in BOOLEAN
  /\ nb = Bridges
  /\ vnets = [v \in 1 .. TopVid |-> "none"]
  /\ lock = Nobody
  /\ pc = [t \in Threads |-> "idle"]
  /\ call = [t \in Threads |-> NoCall]
  /\ feed = [t \in Threads |-> Bridges]
  /\ todo = [t \in Threads |-> <<>>]
  /\ new = [t \in Threads |-> <<>>]
  /\ calls = 0 /\ touches = 0
  /\ had = [b \in Ids |-> Supported(nb[b])]
  /\ torn = FALSE /\ lost = FALSE

\* ensure_vlans_on_nb, remove_vlan_from_nb: @lock.synchronized(_ENSURE_VLAN_LOCK).
LockIsFree == lock = Nobody

Call(t, r) ==
  /\ pc[t] = "idle" /\ calls < MaxCalls
  /\ LockIsFree
  /\ lock' = t
  /\ pc' = [pc EXCEPT ![t] = "get"]
  /\ call' = [call EXCEPT ![t] = r]
  /\ calls' = calls + 1
  /\ had' = [b \in Ids |-> Supported(nb[b])]
  /\ torn' = FALSE
  /\ UNCHANGED <<config, server, feed, todo, new, touches, lost>>

Goes(t, to) == pc' = [pc EXCEPT ![t] = to] /\ UNCHANGED <<config, lock, calls, touches>>

\* The caller takes the result, or the exception, after the lock was released.
Return(t) ==
  /\ pc[t] \in {"ok", "error"}
  /\ pc' = [pc EXCEPT ![t] = "idle"]
  /\ lock' = IF lock = t THEN Nobody ELSE lock
  /\ call' = [call EXCEPT ![t] = NoCall]
  /\ feed' = [feed EXCEPT ![t] = Bridges]
  /\ new' = [new EXCEPT ![t] = <<>>] /\ todo' = [todo EXCEPT ![t] = <<>>]
  /\ UNCHANGED <<config, server, calls, touches, seen>>

\* NetBridge.get, at the start of each try.
Get(t) ==
  /\ pc[t] = "get"
  /\ feed' = [feed EXCEPT ![t] = nb]
  /\ todo' = [todo EXCEPT ![t] = call[t].vlans]
  /\ new' = [new EXCEPT ![t] = <<>>]
  /\ Goes(t, IF call[t].op = "ensure" THEN "eval" ELSE "remove")
  /\ UNCHANGED <<server, call, seen>>

\* update(): the server compares the etag; the wrapper keeps its old one.
Fresh(t, b) == feed[t][b].ver = nb[b].ver
Posted(b, w) == [nb EXCEPT ![b] = [w EXCEPT !.adpts = [i \in DOMAIN @ |-> Realized(@[i])], !.ver = nb[b].ver + 1]]

\* _find_or_create_vnet: a network with the other tag is deleted and made anew.
VnetsWith(vids, tag) == [v \in DOMAIN vnets |-> IF vnetAware /\ v \in vids THEN tag ELSE vnets[v]]

-----------------------------------------------------------------------------
(* _ensure_vlans_on_nb_synch: each VLAN in turn.                           *)

V(t) == Head(todo[t])
Req(t) == feed[t][call[t].nb]
Evaluating(t) == pc[t] = "eval" /\ todo[t] # <<>>
Peers(t, v) == {b \in Ids \ {call[t].nb} : v \in Supported(feed[t][b])}

AlreadyThere(t) ==
  /\ Evaluating(t) /\ V(t) \in Supported(Req(t))
  /\ todo' = [todo EXCEPT ![t] = Tail(@)]
  /\ Goes(t, "eval")
  /\ UNCHANGED <<server, call, feed, new, seen>>

\* The VLAN is taken off the peer, in the local feed (existing_nbs) and on the
\* server.  After an etag mismatch the removal is retried on the same feed: there
\* the VLAN is gone (nothing is left to do), or its virtual network is (remove(None)).
TakeFromPeer(t) ==
  /\ Evaluating(t) /\ V(t) \notin Supported(Req(t))
  /\ \E p \in Peers(t, V(t)) :
       LET kind == RemoveKind(feed[t][p], V(t), TRUE)
           w == RemoveVlan(feed[t][p], V(t))
       IN CASE kind = "fail" -> Goes(t, "error") /\ UNCHANGED <<server, local, seen>>
            [] kind = "remove" ->
                 /\ feed' = [feed EXCEPT ![t][p] = w]
                 /\ nb' = IF Fresh(t, p) THEN Posted(p, w) ELSE nb
                 /\ IF Fresh(t, p) \/ V(t) \notin Supported(w) THEN Goes(t, "place") ELSE Goes(t, "error")
                 /\ lost' = (lost \/ ~Fresh(t, p))
                 /\ UNCHANGED <<vnets, call, todo, new, had, torn>>
            [] OTHER -> Goes(t, "place") /\ UNCHANGED <<server, local, seen>>

\* No peer supports it.
NotOnPeer(t) ==
  /\ Evaluating(t) /\ V(t) \notin Supported(Req(t)) /\ Peers(t, V(t)) = {}
  /\ Goes(t, "place")
  /\ UNCHANGED <<server, local, seen>>

ArbitraryOn(t) == {b \in Ids : V(t) \in ArbitraryPvids(feed[t][b])}

\* Neither arbitrary nor an orphan: a new VLAN.
Place(t) ==
  /\ pc[t] = "place" /\ ArbitraryOn(t) = {} /\ V(t) \notin Orphans
  /\ new' = [new EXCEPT ![t] = Append(@, V(t))]
  /\ todo' = [todo EXCEPT ![t] = Tail(@)]
  /\ Goes(t, "eval")
  /\ UNCHANGED <<server, call, feed, seen>>

\* _validate_orphan_on_ensure.
OrphanFound(t) ==
  /\ pc[t] = "place" /\ ArbitraryOn(t) = {} /\ V(t) \in Orphans
  /\ Goes(t, "error")
  /\ UNCHANGED <<server, local, seen>>

-----------------------------------------------------------------------------
(* _reassign_arbitrary_vid: of the requested bridge, also if the arbitrary *)
(* PVID is another bridge's (None has no pvid: an AttributeError).         *)

Others(t) == Rng(call[t].vlans) \cup Orphans
ReassignTo(t) == NewArbitraryVid(UsedOn(feed[t]) \cup Others(t))
After(t) == IF call[t].op = "ensure" THEN "get" ELSE "ok"

Reassigning(t) ==
  \/ pc[t] = "place" /\ ArbitraryOn(t) # {}
  \/ pc[t] = "remove" /\ V(t) \in ArbitraryPvids(Req(t))

ReassignOfPeer(t) ==
  /\ Reassigning(t) /\ V(t) \notin ArbitraryPvids(Req(t))
  /\ Goes(t, "error")
  /\ UNCHANGED <<server, local, seen>>

\* NetworkBridgerTA: one update.  Without a VLAN left the PVID is None, which the
\* server refuses.
ReassignTA(t) ==
  LET b == call[t].nb IN
  /\ Reassigning(t) /\ ~vnetAware /\ V(t) \in ArbitraryPvids(Req(t))
  /\ IF ~Fresh(t, b) THEN Goes(t, "get") /\ UNCHANGED nb
     ELSE IF ReassignTo(t) = 0 THEN Goes(t, "error") /\ UNCHANGED nb
     ELSE nb' = Posted(b, Repvid(Req(t), V(t), ReassignTo(t))) /\ Goes(t, After(t))
  /\ UNCHANGED <<vnets, local, seen>>

\* NetworkBridgerVNET: a virtual network for the PVID (there is none for None) ...
NoVlanLeft(t) ==
  /\ Reassigning(t) /\ vnetAware /\ V(t) \in ArbitraryPvids(Req(t)) /\ ReassignTo(t) = 0
  /\ Goes(t, "error")
  /\ UNCHANGED <<server, local, seen>>

\* ... an update without the load group ...
ReassignVNET(t) ==
  LET b == call[t].nb IN
  /\ Reassigning(t) /\ vnetAware /\ V(t) \in ArbitraryPvids(Req(t)) /\ ReassignTo(t) # 0
  /\ vnets' = VnetsWith({ReassignTo(t)}, "untagged")
  /\ IF Fresh(t, b)
     THEN /\ nb' = Posted(b, Detached(Req(t), V(t)))
          /\ feed' = [feed EXCEPT ![t][b].ver = @ + 1]
          /\ Goes(t, "attach")
     ELSE Goes(t, "get") /\ UNCHANGED <<nb, feed>>
  /\ UNCHANGED <<call, todo, new, seen>>

\* ... and one with its clone; then the old virtual network is deleted.
Attach(t) ==
  LET b == call[t].nb IN
     /\ pc[t] = "attach"
     /\ IF Fresh(t, b)
        THEN /\ nb' = Posted(b, Attached(Req(t), V(t), ReassignTo(t))) /\ vnets' = [vnets EXCEPT ![V(t)] = "none"]
             /\ Goes(t, After(t)) /\ UNCHANGED torn
        ELSE Goes(t, "get") /\ torn' = TRUE /\ UNCHANGED server
     /\ UNCHANGED <<local, had, lost>>

-----------------------------------------------------------------------------
(* _add_vlans_to_nb and the update that ends the call.                     *)

\* One new VLAN after the other; a load group that was just built has no trunk
\* adapter to list VLANs of, and there is no virtual network for None.
AddOne(t, acc, v) ==
  LET used == UsedOn([feed[t] EXCEPT ![call[t].nb] = acc.b]) \cup Rng(new[t]) \cup Orphans
      arb == NewArbitraryVid(used)
  IN IF acc.failed THEN acc
     ELSE IF Available(acc.b) # 0 THEN [acc EXCEPT !.b = AddVlan(acc.b, v, 0)]
     ELSE IF arb = 0 \/ \E g \in Rng(acc.b.adpts) : g.bld THEN [acc EXCEPT !.failed = TRUE]
     ELSE [acc EXCEPT !.b = AddVlan(acc.b, v, arb), !.arbs = @ \cup {arb}]

AddVlansToNb(t) ==
  LET added[n \in 0 .. Len(new[t])] ==
        IF n = 0 THEN [b |-> Req(t), arbs |-> {}, failed |-> FALSE] ELSE AddOne(t, added[n - 1], new[t][n])
  IN added[Len(new[t])]

\* A trunk adapter without PVID is refused by the server, after the etag.
Update(t) ==
  LET b == call[t].nb
      added == AddVlansToNb(t)
  IN /\ pc[t] = "eval" /\ todo[t] = <<>> /\ new[t] # <<>>
     /\ vnets' = [v \in DOMAIN vnets |->
          IF v \in added.arbs THEN VnetsWith({v}, "untagged")[v] ELSE VnetsWith(Rng(new[t]), "tagged")[v]]
     /\ IF ~Fresh(t, b) /\ ~(added.failed /\ vnetAware) THEN Goes(t, "get") /\ UNCHANGED nb
        ELSE IF added.failed THEN Goes(t, "error") /\ UNCHANGED nb
        ELSE nb' = Posted(b, added.b) /\ Goes(t, "ok")
     /\ UNCHANGED <<local, seen>>

NothingNew(t) ==
  /\ pc[t] = "eval" /\ todo[t] = <<>> /\ new[t] = <<>>
  /\ Goes(t, "ok")
  /\ UNCHANGED <<server, local, seen>>

-----------------------------------------------------------------------------
(* _remove_vlan_from_nb_synch, called by itself.                           *)
RemoveSynch(t) ==
  LET b == call[t].nb
      kind == RemoveKind(Req(t), V(t), call[t].failIfPvid)
  IN /\ pc[t] = "remove" /\ kind # "reassign"
     /\ CASE kind = "fail" -> Goes(t, "error") /\ UNCHANGED nb
          [] kind = "nothing" -> Goes(t, "ok") /\ UNCHANGED nb
          [] kind = "remove" ->
               IF Fresh(t, b) THEN nb' = Posted(b, RemoveVlan(Req(t), V(t))) /\ Goes(t, "ok")
               ELSE Goes(t, "get") /\ UNCHANGED nb
     /\ UNCHANGED <<vnets, local, seen>>

\* Another user of the REST server puts a VLAN on a primary adapter, or takes it
\* off.
Touch(b, v) ==
  /\ touches < MaxTouches
  /\ touches' = touches + 1
  /\ nb' = [nb EXCEPT ![b].prim = IF v \in @ THEN @ \ {v} ELSE @ \cup {v}, ![b].ver = @ + 1]
  /\ UNCHANGED <<config, vnets, lock, pc, local, calls, seen>>

Step(t) ==
  \/ Get(t) \/ AlreadyThere(t) \/ TakeFromPeer(t) \/ NotOnPeer(t) \/ Place(t) \/ OrphanFound(t)
  \/ ReassignOfPeer(t) \/ ReassignTA(t) \/ NoVlanLeft(t) \/ ReassignVNET(t) \/ Attach(t)
  \/ Update(t) \/ NothingNew(t) \/ RemoveSynch(t) \/ Return(t)

Next ==
  \/ \E t \in Threads : Step(t) \/ \E r \in Requests : Call(t, r)
  \/ \E b \in Ids, v \in Foreign : Touch(b, v)

Spec == Init /\ [][Next]_vars

-----------------------------------------------------------------------------
(* Properties.                                                             *)

\* A call that returns has done what it is for, whatever retries it took: the
\* VLANs flow through the bridge, or the VLAN is off it unless it belongs to the
\* primary adapter.
ReturnedIsDone ==
  \A t \in Threads : pc[t] = "ok" =>
    LET b == nb[call[t].nb] IN
    IF call[t].op = "ensure" THEN Rng(call[t].vlans) \subseteq Supported(b)
    ELSE Rng(call[t].vlans) \cap AllVlans(b) \subseteq {b.pvid} \cup b.prim

\* Arbitrary PVIDs carry no traffic: no VLAN of any bridge of the switch, no
\* orphan and no other arbitrary PVID is the same.  Each call sees the others'
\* choices only because of the lock.  (Not once a removal from a peer is lost, see
\* OnOneBridge: the peer's PVID is then taken for free.  And other users may put
\* the VLAN on the primary adapter of another bridge before the POST: the etag is
\* that of one bridge.)
ArbitraryIsUnused ==
  ~lost => \A a, b \in Ids : \A i \in DOMAIN nb[a].adpts :
    LET v == nb[a].adpts[i].pvid IN
    /\ v \notin (Supported(nb[b]) \ Foreign) \cup Orphans
    /\ \A j \in DOMAIN nb[b].adpts : nb[b].adpts[j].pvid = v => a = b /\ i = j

\* VLANs that a call does not name stay on their bridge, also when it fails;
\* the exception is a reassignment of load groups that is torn between its
\* two updates.
OthersStay ==
  \A t \in Threads : pc[t] \in {"ok", "error"} /\ ~torn =>
    \A b \in Ids : had[b] \ (Rng(call[t].vlans) \cup Foreign) \subseteq Supported(nb[b])

\* The SEAs of a failover bridge have the same trunks, none has more VLANs than
\* it may, and one without VLANs is kept for load balancing only.
WellBuilt ==
  \A b \in Ids :
    /\ nb[b].failover /\ ~vnetAware => nb[b].peer = nb[b].adpts
    /\ \A g \in Rng(nb[b].adpts) : Load(g) <= MaxVlans /\ (g.tagged = {} => nb[b].lb)

\* Whatever calls race and fail, the bridges stay well built and their arbitrary
\* PVIDs stay unused.
BridgesAreSound == ArbitraryIsUnused /\ WellBuilt

\* Refuted: "It will be removed off the Network Bridge if it is on the
\* non-primary VEA", network_bridger.py:77.  The second VLAN that one call moves
\* from a peer is POSTed with the etag that the first move has made stale, and
\* the retry takes the local change for the server's.
OnOneBridge ==
  \A a, b \in Ids : a # b => Tagged(nb[a].adpts) \cap Tagged(nb[b].adpts) = {}
=============================================================================
