------------------------------ MODULE MCStorage ------------------------------
(* The storage tasks: one VIOS whose mappings two threads, scrubs and        *)
(* discoveries change while LPARs come and go, and the slot map of one LPAR  *)
(* that is rebuilt.  The two share nothing: one or the other is explored.    *)
EXTENDS StorageMapping, SlotMap, TLC

(* Mappings: LPAR 1 has a full bus and an orphan without an href, LPAR 3 is  *)
(* stale, and one server adapter may serve any client.                       *)
Stg(typ, name, pre, u) == [typ |-> typ, name |-> name, prefix |-> pre, udid |-> u]
iso1 == Stg("VOpt", "iso1", "iso", 1)
iso2 == Stg("VOpt", "iso2", "iso", 2)
boot == Stg("VDisk", "boot", "b", 3)
data == Stg("VDisk", "data", "d", 4)
lu == Stg("LU", "lu", "l", 5)
MCStorage == {iso1, iso2, boot, data, lu}
Map(i, l, c, b, s) == [id |-> i, lpar |-> l, gen |-> 0, href |-> TRUE, client |-> c, any |-> FALSE, bus |-> b, stg |-> s]
MCMaps == {{Map(1, 1, TRUE, 1, boot), Map(2, 1, TRUE, 1, iso1), Map(3, 2, TRUE, 3, iso1), Map(4, 3, FALSE, 4, data),
            [Map(5, 3, FALSE, 5, NoStorage) EXCEPT !.any = TRUE], [Map(6, 1, FALSE, 6, lu) EXCEPT !.href = FALSE]}}
Crit(typ, names, pres, us) == [typ |-> typ, names |-> names, prefixes |-> pres, udids |-> us]
Add(l, s, w) == [op |-> "add", lpar |-> l, stg |-> s, wrapper |-> w]
Rem(l, c, by, w) == [op |-> "remove", lpar |-> l, crit |-> c, byUuid |-> by, wrapper |-> w]
MCCalls ==
  {Add(1, iso2, TRUE), Add(1, iso2, FALSE), Add(2, data, TRUE),
   Rem(1, Crit("VOpt", {"iso1"}, {}, {3}), TRUE, TRUE), Rem(2, Crit("VOpt", {}, {"iso"}, {}), FALSE, FALSE),
   Rem(1, Crit("LU", {}, {}, {5}), FALSE, TRUE),
   [op |-> "remap", lpar |-> 2, crit |-> Crit("VOpt", {}, {}, {}), byUuid |-> TRUE, new |-> iso2, wrapper |-> TRUE],
   [op |-> "comprehensive", ids |-> {}], [op |-> "scrub", ids |-> {2, 3}, exist |-> FALSE],
   [op |-> "scrub", ids |-> {1}, exist |-> TRUE], [op |-> "orphans", ids |-> {1}],
   [op |-> "hdisk", ids |-> {}, exist |-> FALSE, stg |-> data], [op |-> "iscsi", ids |-> {}, exist |-> FALSE, stg |-> boot]}
MCVgs == [rootvg |-> [udids |-> {1, 2, 3}, repo |-> TRUE], datavg |-> [udids |-> {4}, repo |-> FALSE]]

(* Slots: a source whose volumes have several paths, one with NPIV and a     *)
(* management VEA, one with optical media, an empty one.                     *)
Disk(cls, slot, u) == [cls |-> cls, slot |-> slot, key |-> u, spec |-> 10 * slot + u]
Mac(n) == [addr |-> n, form |-> "api"]
Cna(slot, n, sw) == [cls |-> "CNA", slot |-> slot, key |-> Mac(n), spec |-> sw]
Vfc(slot, f) == [cls |-> "VFC", slot |-> slot, key |-> f, spec |-> "wwpns"]
MCSources ==
  {{Disk("PV", 1, 1), Disk("PV", 1, 2), Disk("PV", 2, 1), Disk("LU", 2, 3), Disk("PV", 4, 2), Cna(5, 1, "ETHERNET0")},
   {Disk("VDisk", 1, 1), Vfc(3, "fabA"), Vfc(4, "fabA"), Cna(6, 2, "MGMTSWITCH")},
   {[cls |-> "VOptMedia", slot |-> 1, key |-> 4, spec |-> "cfg.iso"], Disk("PV", 1, 1)},
   {}}
MCElements ==
  {Disk("PV", 1, 1), Disk("LU", 2, 3), Disk("PV", 2, 1), Vfc(7, "fabB"), [cls |-> "nothing", slot |-> 8, key |-> 0, spec |-> 0],
   [cls |-> "VNIC", slot |-> 9, key |-> Mac(3), spec |-> "unused"]}
OneTarget ==
  [vioses |-> {"A", "B"}, sees |-> 1 :> {"A", "B"} @@ 2 :> {"A", "B"} @@ 3 :> {"B"}, fabrics |-> {"fabA"}]
MCTargets ==
  {OneTarget,
   [vioses |-> {"A", "B", "C"}, sees |-> 1 :> {"A", "B", "C"} @@ 2 :> {"A", "C"} @@ 3 :> {"A", "B"}, fabrics |-> {"fabA", "fabB"}],
   [vioses |-> {"A"}, sees |-> 1 :> {"A"}, fabrics |-> {}]}

MCInit == MappingInit /\ SlotInit
NoMapping == nCalls = 0 /\ outer = 0
NoSlots == spc = "source" /\ edits = 0 /\ fails = 0 /\ attached = {} /\ target = OneTarget
MCNext ==
  \/ MappingNext /\ NoSlots /\ UNCHANGED slotVars
  \/ SlotNext /\ NoMapping /\ UNCHANGED mapVars
MCSpec == MCInit /\ [][MCNext]_<<mapVars, slotVars>>

MCSymmetry == Permutations(Workers)
=============================================================================
