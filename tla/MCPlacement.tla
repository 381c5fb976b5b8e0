----------------------------- MODULE MCPlacement -----------------------------
(* The decisions about where things go and what is there: fibre channel and  *)
(* SR-IOV ports, partitions, VIOSes to wait for, metrics, the wrappers        *)
(* themselves and the summary of events.                                     *)
(* They share no state: a behaviour explores one of them, the focus, and the *)
(* others stay as they were at first.                                        *)
EXTENDS EventFeed, VfcMapper, Sriov, LparBuilder, Partition, Metrics, Wrappers, TLC

(* VfcMapper: two VIOSes with unequal ports; three, of which one has none.   *)
W(n) == [id |-> n, form |-> "api"]
C(n) == [id |-> n, form |-> "colons"]
Vp(n, a) == [wwpn |-> W(n), avail |-> a]
V(n, ps) == [name |-> n, ports |-> ps]
TwoVioses == <<V("A", <<Vp(1, 4), Vp(2, 8)>>), V("B", <<Vp(3, 8)>>)>>
MCSystems == {TwoVioses, <<V("A", <<>>), V("B", <<Vp(1, 0), Vp(2, 0)>>), V("C", <<Vp(3, 2), Vp(4, 3)>>)>>}
MCPlans ==
  {[lpar |-> 1, pairs |-> <<<<"p", 0>>, <<"q", 0>>, <<"r", 0>>>>, ports |-> {C(1), W(2), W(3)}, preserve |-> TRUE],
   [lpar |-> 1, pairs |-> <<<<"q", 0>>>>, ports |-> {W(1), W(2), W(3)}, preserve |-> TRUE],
   [lpar |-> 1, pairs |-> <<<<"r", 0>>, <<"q", 0>>>>, ports |-> {W(2), W(3)}, preserve |-> FALSE],
   [lpar |-> 2, pairs |-> [i \in 1 .. 6 |-> AnyPair], ports |-> {W(1), W(2), W(3)}, preserve |-> TRUE],
   [lpar |-> 2, pairs |-> <<<<"s", 0>>>>, ports |-> {W(9)}, preserve |-> TRUE]}
MCMigrations ==
  {[fabrics |-> [fA |-> [slots |-> {3, 4}, ports |-> {W(1), W(3)}], fB |-> [slots |-> {5}, ports |-> {W(2), W(4)}]], peers |-> {{3, 5}, {4}}],
   [fabrics |-> [fA |-> [slots |-> {3, 4}, ports |-> {W(1), W(2), W(3), W(4)}]], peers |-> {{3, 4}}],
   [fabrics |-> [fA |-> [slots |-> {3, 4}, ports |-> {W(1), W(2)}]], peers |-> {{3}, {4}}]}

(* Sriov: cards with several ports, some without label, link or room.        *)
Port(c, a, lps) == [card |-> c, alloc |-> a, gran |-> 2, lps |-> lps, maxLps |-> 3, link |-> TRUE, label |-> "net"]
Vio(n, f) == [name |-> n, state |-> "running", rmc |-> "active", mgmt |-> FALSE, vnic |-> TRUE, failover |-> f]
MCHardware ==
  {[ports |-> 1 :> Port("c1", 50, 0) @@ 2 :> Port("c1", 20, 0) @@ 3 :> Port("c1", 45, 0) @@ 4 :> Port("c2", 60, 1)
              @@ 5 :> [Port("c2", 99, 0) EXCEPT !.label = ""] @@ 6 :> [Port("c3", 0, 0) EXCEPT !.link = FALSE],
    cards |-> [c1 |-> "Running Sriov", c2 |-> "Running Sriov", c3 |-> "Dedicated"],
    vioses |-> {Vio("v1", TRUE), Vio("v2", TRUE), Vio("v3", FALSE), [Vio("v4", TRUE) EXCEPT !.rmc = "inactive"]},
    vnic |-> TRUE, failover |-> TRUE]}
Vnic(ps, red, n, cap) == [op |-> "vnic", pports |-> ps, redundant |-> red, redundancy |-> n, cap |-> cap, max |-> NoCap, up |-> FALSE]
MCVnicCalls ==
  {Vnic({1, 2, 3, 4, 5, 6}, {}, 3, NoCap), Vnic({2, 4}, {}, 2, 10), Vnic({2, 4}, {}, 1, 10), Vnic({4, 6}, {}, 2, 10),
   Vnic({2}, {1, 4}, 2, NoCap), [Vnic({2}, {}, 1, 10) EXCEPT !.max = 5]}
MCLabelings == {[op |-> "label", loc |-> 2, label |-> "new", force |-> FALSE], [op |-> "label", loc |-> 4, label |-> "new", force |-> TRUE],
                [op |-> "label", loc |-> 4, label |-> "other", force |-> FALSE]}

(* LparBuilder: attributes that fit together or not, and that leave things   *)
(* out; the host has room for one large or two small partitions.             *)
MCHost == [mem |-> 1024, units |-> 300, lmb |-> 128, ame |-> TRUE, ppt |-> TRUE, secure |-> TRUE, srr |-> TRUE,
           dynSrr |-> FALSE, affinity |-> FALSE, modes |-> {"default", "POWER8"},
           procLimits |-> [perLpar |-> 3, system |-> 4], vcpuLimits |-> [perLpar |-> 4, system |-> 6]]
Mdm(a, b, c) == [min |-> a, des |-> b, max |-> c]
Attr(mem, vcpu, units, ded) ==
  [name |-> 5, env |-> None, slots |-> None, prio |-> None, compat |-> None, secure |-> None, affinity |-> FALSE,
   srr |-> None, src |-> None, mem |-> mem, ame |-> None, ppt |-> None, ded |-> ded, vcpu |-> vcpu, units |-> units,
   weight |-> None, mode |-> None]
Unset == Mdm(None, None, None)
MCDicts ==
  [small |-> [Attr(Mdm(256, 512, 1024), Mdm(1, 2, 4), Mdm(10, 60, 200), None) EXCEPT !.compat = "POWER8"],
   large |-> Attr(Mdm(256, 768, 1024), Mdm(1, 4, 4), Mdm(10, 190, 200), None),
   ded |-> [Attr(Mdm(256, 512, None), Mdm(1, 3, 4), Unset, TRUE) EXCEPT !.ppt = [raw |-> TRUE, n |-> 9]],
   odd |-> Attr(Mdm(None, 256, None), Mdm(None, 1, 2), Mdm(80, None, 50), None),
   ibmi |-> [Attr(Mdm(None, 512, None), Mdm(None, 2, None), Unset, None) EXCEPT !.env = "os400", !.secure = 2, !.compat = "POWER8"]]

(* Partition: no VIOS, one of them booting, one off, a management partition. *)
Boots(s, r, u, m) == [state |-> s, rmc |-> r, uptime |-> u, mgmt |-> m]
MCHostVioses ==
  {<<>>,
   [a |-> Boots("running", "active", 9, FALSE), b |-> Boots("starting", "inactive", 0, FALSE)],
   [a |-> Boots("not activated", "inactive", 0, FALSE), b |-> Boots("running", "inactive", 9, FALSE)],
   [m |-> Boots("running", "inactive", 9, TRUE), b |-> Boots("running", "inactive", 3, FALSE)]}

(* Metrics: a guest that is spawned and one that migrates in with its        *)
(* cycles, under the same LPAR ID.                                           *)
MCGuests == [vm |-> [id |-> 1, util |-> 0, idle |-> 0], moved |-> [id |-> 1, util |-> 9, idle |-> 2]]

(* Wrappers: two objects, one with little in it and an empty list, the other *)
(* with everything.                                                          *)
MCWrapObjects == <<"o1", "o2">>
MCChildOrder == <<"Metadata", "Name", "Maps", "Vlan", "Mode">>
MCServerDocs ==
  {<<Child("Metadata", "", 0), Child("Maps", <<>>, 0), Child("Mode", 1, 0)>>,
   <<Child("Metadata", "", 0), Child("Name", 1, 0), Child("Maps", <<1>>, 0), Child("Vlan", 1, 0), Child("Vlan", 2, 0)>>}

-----------------------------------------------------------------------------
VARIABLE focus

QuietVfc == vioses = TwoVioses /\ VfcInit
QuietPartition == host = <<>> /\ limit = NoLimit /\ PartitionInit
QuietWrappers == srv = [o \in ToSet(WrapObjects) |-> [ver |-> 1, up |-> FALSE, doc |-> <<>>]] /\ NoWrappersYet
MCInit ==
  /\ focus \in {"events", "vfc", "sriov", "builder", "partition", "metrics", "wrappers"}
  /\ FeedInit /\ SriovInit /\ BuilderInit /\ MetricsInit
  /\ IF focus = "vfc" THEN VfcInit ELSE QuietVfc
  /\ IF focus = "partition" THEN PartitionInit ELSE QuietPartition
  /\ IF focus = "wrappers" THEN WrapperInit /\ IsInjective(srv) ELSE QuietWrappers
MCNext ==
  /\ UNCHANGED focus
  /\ \/ focus = "events" /\ FeedNext /\ UNCHANGED <<vfcVars, sriovVars, builderVars, partVars, metricVars, wrapperVars>>
     \/ focus = "vfc" /\ VfcNext /\ UNCHANGED <<feedVars, sriovVars, builderVars, partVars, metricVars, wrapperVars>>
     \/ focus = "sriov" /\ SriovNext /\ UNCHANGED <<feedVars, vfcVars, builderVars, partVars, metricVars, wrapperVars>>
     \/ focus = "builder" /\ BuilderNext /\ UNCHANGED <<feedVars, vfcVars, sriovVars, partVars, metricVars, wrapperVars>>
     \/ focus = "partition" /\ PartitionNext /\ UNCHANGED <<feedVars, vfcVars, sriovVars, builderVars, metricVars, wrapperVars>>
     \/ focus = "metrics" /\ MetricsNext /\ UNCHANGED <<feedVars, vfcVars, sriovVars, builderVars, partVars, wrapperVars>>
     \/ focus = "wrappers" /\ WrapperNext /\ UNCHANGED <<feedVars, vfcVars, sriovVars, builderVars, partVars, metricVars>>
MCSpec ==
  MCInit /\ [][MCNext]_<<focus, feedVars, vfcVars, sriovVars, builderVars, partVars, metricVars, wrapperVars>>
=============================================================================
