-------------------------------- MODULE MCVios --------------------------------
(* What the VIOSes serve: virtual networks, logical units and the media       *)
(* repository.  Two bridges of one virtual switch: b1 fails over between two *)
(* SEAs, b2 is load balanced.  Point-to-point connections use another lock   *)
(* and another switch.  None shares anything with another: a behaviour       *)
(* explores one of them, the focus, and the others stay as they were.        *)
EXTENDS NetworkBridger, PointToPoint, LogicalUnits, Vopt

Additional(pvid, vlans) == [pvid |-> pvid, tagged |-> vlans, uris |-> vlans \cup {pvid}, bld |-> FALSE]
MCBridges ==
  [b1 |-> [pvid |-> 1, prim |-> {}, adpts |-> <<>>, peer |-> <<>>, failover |-> TRUE, lb |-> FALSE, ver |-> 0],
   b2 |-> [pvid |-> 2, prim |-> {3}, adpts |-> <<Additional(9, {4, 5})>>, peer |-> <<Additional(9, {4, 5})>>,
           failover |-> TRUE, lb |-> TRUE, ver |-> 0]]
MCVioses ==
  {[trunks |-> {[dev |-> "ent1", pvid |-> 1, tagged |-> {}], [dev |-> "ent2", pvid |-> 7, tagged |-> {10}]},
    seas |-> {{"ent1"}, {}}]}

Ensure(b, vs) == [op |-> "ensure", nb |-> b, vlans |-> vs, failIfPvid |-> FALSE]
RemoveReq(b, v, f) == [op |-> "remove", nb |-> b, vlans |-> <<v>>, failIfPvid |-> f]
MCRequests ==
  {Ensure("b1", <<4, 5>>), Ensure("b1", <<8, 5>>), Ensure("b1", <<3, 9>>), Ensure("b2", <<9, 8>>),
   Ensure("b1", <<2>>), Ensure("b2", <<7>>),
   RemoveReq("b1", 4, FALSE), RemoveReq("b2", 5, FALSE), RemoveReq("b2", 9, FALSE), RemoveReq("b1", 1, TRUE)}

MCHosts == <<"vios", "mgmt">>

(* LogicalUnits: an image with two clones, one with one, a disk of its own.  *)
Img(i) == [typ |-> "Image", udid |-> <<"27", i>>, from |-> NoUdid]
Dsk(d, i) == [typ |-> "Disk", udid |-> <<"27", d>>, from |-> <<"29", i>>]
Plain(d) == [typ |-> "Disk", udid |-> <<"27", d>>, from |-> NoUdid]
MCPools == {{Img(1), Img(2), Dsk(11, 1), Dsk(12, 1), Dsk(21, 2), Plain(30)}}
Rm(o, l, i) == [op |-> o, lus |-> l, images |-> i, feed |-> FALSE]
MCLuCalls ==
  {[op |-> "clone", new |-> Dsk(13, 1), ssp |-> TRUE], [op |-> "clone", new |-> Dsk(22, 2), ssp |-> FALSE],
   Rm("rm_ssp", {Dsk(11, 1)}, TRUE), Rm("rm_ssp", {Dsk(11, 1), Dsk(12, 1), Dsk(21, 2)}, TRUE),
   Rm("rm_ssp", {Dsk(12, 1)}, FALSE), Rm("rm_ssp", {Dsk(12, 1), Plain(30)}, TRUE),
   Rm("rm_tier", {Dsk(12, 1)}, TRUE), [Rm("rm_tier", {Dsk(21, 2), Dsk(11, 1)}, TRUE) EXCEPT !.feed = TRUE]}

(* Vopt: the configured group on three VIOSes, one on the management         *)
(* partition.                                                                *)
MCMediaVioses == <<"m", "a", "b">>
MCGroups == [m |-> <<"rootM">>, a |-> <<"dataA", "rootA">>, b |-> <<"rootB">>]

-----------------------------------------------------------------------------
VARIABLE focus

QuietLus == luCall = [t \in LuCallers |-> CHOOSE c \in LuCalls : TRUE] /\ defaultTier = TRUE /\ LuInit
MCInit ==
  /\ focus \in {"bridges", "p2p", "lus", "vopt"}
  /\ Init /\ P2PInit /\ VoptInit
  /\ focus # "bridges" => vnetAware /\ spread
  /\ focus # "p2p" => vswitch
  /\ IF focus = "lus" THEN LuInit ELSE QuietLus
MCNext ==
  /\ UNCHANGED focus
  /\ \/ focus = "bridges" /\ Next /\ UNCHANGED <<p2pVars, luVars, voptVars>>
     \/ focus = "p2p" /\ P2PNext /\ UNCHANGED <<vars, luVars, voptVars>>
     \/ focus = "lus" /\ LuNext /\ UNCHANGED <<vars, p2pVars, voptVars>>
     \/ focus = "vopt" /\ VoptNext /\ UNCHANGED <<vars, p2pVars, luVars>>
MCSpec == MCInit /\ [][MCNext]_<<focus, vars, p2pVars, luVars, voptVars>>
=============================================================================
