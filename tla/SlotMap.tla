------------------------------- MODULE SlotMap -------------------------------
(***************************************************************************)
(* pypowervm.tasks.slot_map: which virtual slots of an LPAR hold which I/O *)
(* elements.  The map is kept up to date and saved while the LPAR lives on *)
(* its source; for a rebuild it is loaded on a target, where RebuildSlotMap *)
(* decides which VIOS of the target takes each vSCSI slot, slot by slot.   *)
(***************************************************************************)
EXTENDS Integers, Sequences, FiniteSets, FiniteSetsExt

CONSTANTS
  Sources,    \* the sets of elements that the LPAR may have at the start
  Elements,   \* elements that are attached and detached later
  Targets,    \* the hosts: VIOSes, the volumes they see, NPIV fabrics
  DefMaxSlot, \* lpar_builder.DEF_MAX_SLOT
  None,
  MaxEdits,   \* bound on register and drop
  MaxFails    \* bound on saves that fail

ASSUME SlotConstantsOK ==
  /\ DefMaxSlot \in Nat /\ MaxEdits \in Nat /\ MaxFails \in Nat
  /\ None \notin Nat

\* IOCLASS.  "nothing" stands for a mapping without storage or server adapter.
Disks == {"PV", "LU", "VDisk"}
Vnets == {"CNA", "VNIC"}

VARIABLES
  attached,   \* the elements of the LPAR
  topo,       \* _slot_topo without _max_vslots: entries [slot, cls, key, spec]
  maxVslots,  \* _slot_topo['_max_vslots'], None if not registered
  loaded,     \* _loaded_topo, as the pair of the two
  blob,       \* what the storage back-end has for this LPAR, None if nothing
  registered, \* observer: the value of register_max_vslots at the last save
  edits, fails,
  spc,        \* "source", "deleted", or the rebuild: "vscsi", "built", "refused"
  target,     \* the host of the rebuild
  slotsLeft,  \* slots that _vscsi_build_out has still to look at
  volToVio,   \* vol_to_vio_cp
  build       \* _build_map: vSCSI entries [vios, udid, slot, lua], fabrics

store == <<topo, maxVslots, loaded>>
rebuild == <<target, slotsLeft, volToVio, build>>
slotVars == <<attached, store, blob, registered, edits, fails, spc, rebuild>>

-----------------------------------------------------------------------------
(* SlotMapStore.                                                           *)

\* _parse_vscsi_mapping, register_vnet, register_vfc_mapping: the entry of an
\* element.  LUA for disks, the name for a VOPT, the switch for a CNA, the WWPNs
\* for a VFC that has a client adapter.
Entry(e) == [slot |-> e.slot, cls |-> e.cls, key |-> e.key, spec |-> IF e.cls = "VNIC" THEN None ELSE e.spec]
Registers(e) == e.cls # "nothing"

\* sanitize_mac_for_api: any spelling of an address to that of the API.
Sanitized(mac) == [mac EXCEPT !.form = "api"]

\* _reg_slot: extra_spec is always overwritten.
Same(a, b) == a.slot = b.slot /\ a.cls = b.cls /\ a.key = b.key
Reg(t, e) == {a \in t : ~Same(a, e)} \cup {e}

\* _drop_slot: this slot only.
Dropped(t, e) == {a \in t : ~Same(a, e)}

\* serialized: what is written is the topology, which has no _max_vslots.
Serialized == topo

\* topology of the elements that the LPAR has.
TopologyOf(S) == {Entry(e) : e \in {e \in S : Registers(e)}}

\* The elements of one LPAR.  Two elements are in one slot if they are storage on the
\* same vSCSI adapter, and then their UDIDs (of media: names) differ; no two network
\* adapters have the same MAC address.
Compatible(a, b) ==
  /\ a.slot = b.slot => a.key # b.key /\ {a.cls, b.cls} \subseteq Disks \cup {"VOptMedia"}
  /\ {a.cls, b.cls} \subseteq Vnets => Sanitized(a.key) # Sanitized(b.key)
AllElements == Elements \cup UNION Sources

ASSUME SourcesOK ==
  /\ \A S \in Sources : IsFiniteSet(S) /\ \A a, b \in S : a = b \/ Compatible(a, b)
  /\ \A e \in AllElements : e.slot \in Nat
  /\ \A t \in SUBSET TopologyOf(AllElements) : None # t

\* SlotMapStore.__init__ with the map of an earlier run.
SlotInit ==
  /\ attached \in Sources
  /\ topo = TopologyOf(attached)
  /\ maxVslots = None /\ registered = None
  /\ loaded = <<topo, None>>
  /\ blob = IF topo = {} THEN None ELSE topo
  /\ edits = 0 /\ fails = 0
  /\ spc = "source"
  /\ target \in Targets
  /\ slotsLeft = {} /\ volToVio = <<>> /\ build = [vscsi |-> {}, vfc |-> {}]

Editing == spc = "source" /\ edits < MaxEdits /\ edits' = edits + 1

\* Attach and register_vnet, register_vfc_mapping, register_vscsi_mapping.
Register(e) ==
  /\ Editing
  /\ \A a \in attached : Compatible(a, e)
  /\ attached' = attached \cup {e}
  /\ topo' = IF Registers(e) THEN Reg(topo, Entry(e)) ELSE topo
  /\ UNCHANGED <<maxVslots, loaded, blob, registered, fails, spc, rebuild>>

\* Detach and drop_vnet, drop_vfc_mapping, drop_vscsi_mapping.
Drop(e) ==
  /\ Editing
  /\ attached' = attached \ {e}
  /\ topo' = IF Registers(e) THEN Dropped(topo, Entry(e)) ELSE topo
  /\ UNCHANGED <<maxVslots, loaded, blob, registered, fails, spc, rebuild>>

\* register_max_vslots.
RegisterMax(n) ==
  /\ Editing
  /\ maxVslots' = n
  /\ UNCHANGED <<attached, topo, loaded, blob, registered, fails, spc, rebuild>>

\* save, if something has changed since the last save or load.
Changed == <<topo, maxVslots>> # loaded
Save ==
  /\ spc = "source" /\ Changed
  /\ blob' = Serialized
  /\ loaded' = <<topo, maxVslots>>
  /\ registered' = maxVslots
  /\ UNCHANGED <<attached, topo, maxVslots, edits, fails, spc, rebuild>>

\* _save of the subclass raises, and save with it.
RemembersOnlySaved == loaded
SaveFails ==
  /\ spc = "source" /\ Changed /\ fails < MaxFails
  /\ fails' = fails + 1
  /\ loaded' = RemembersOnlySaved
  /\ UNCHANGED <<attached, topo, maxVslots, blob, registered, edits, spc, rebuild>>

\* delete, when the LPAR is deleted.
Delete ==
  /\ spc = "source"
  /\ blob' = None /\ spc' = "deleted"
  /\ UNCHANGED <<attached, store, registered, edits, fails, rebuild>>

\* load: nothing in the back-end is an empty topology.
Loaded == IF blob = None THEN {} ELSE blob

-----------------------------------------------------------------------------
(* RebuildSlotMap.                                                         *)

SlotsOf(t) == {a.slot : a \in t}
DisksOf(t, s) == {a \in t : a.slot = s /\ a.cls \in Disks}
HasVopt(t) == \E a \in t : a.cls = "VOptMedia"

\* The topology is loaded on the target, whose VIOSes see the volumes given by
\* vscsi_vol_to_vio; _vscsi_build_slot_order refuses virtual optical media.
StartRebuild ==
  /\ spc = "source"
  /\ topo' = Loaded /\ maxVslots' = None
  /\ loaded' = <<topo', None>>
  /\ volToVio' = target.sees
  /\ slotsLeft' = SlotsOf(topo')
  /\ spc' = IF HasVopt(topo') THEN "refused" ELSE "vscsi"
  /\ UNCHANGED <<attached, blob, registered, edits, fails, target, build>>

\* _vscsi_build_slot_order: most storage elements first, ties in any order.
IsNext(s) == \A t \in slotsLeft : Cardinality(DisksOf(topo, s)) >= Cardinality(DisksOf(topo, t))

\* The VIOSes that see every element of the slot.
Candidates(s) ==
  {v \in target.vioses : \A a \in DisksOf(topo, s) : a.key \in DOMAIN volToVio /\ v \in volToVio[a.key]}

\* The VIOS that is taken is used up for these volumes.
KeepsVios(s, v) == volToVio                     \* mutant: the VIOS stays on the lists
UsedUp(s, v) ==
  [u \in DOMAIN volToVio |-> IF \E a \in DisksOf(topo, s) : a.key = u THEN volToVio[u] \ {v} ELSE volToVio[u]]

\* _vscsi_build_out for one slot; _put_vios_val.
AssignSlot(s, v) ==
  /\ spc = "vscsi" /\ s \in slotsLeft /\ IsNext(s)
  /\ DisksOf(topo, s) # {}
  /\ v \in Candidates(s)
  /\ build' = [build EXCEPT !.vscsi = @ \cup {[vios |-> v, udid |-> a.key, slot |-> s, lua |-> a.spec]
                                              : a \in DisksOf(topo, s)}]
  /\ volToVio' = UsedUp(s, v)
  /\ slotsLeft' = slotsLeft \ {s}
  /\ UNCHANGED <<attached, store, blob, registered, edits, fails, spc, target>>

\* InvalidHostForRebuildNoVIOSForUDID, InvalidHostForRebuildNotEnoughVIOS.
NoVios(s) ==
  /\ spc = "vscsi" /\ s \in slotsLeft /\ IsNext(s)
  /\ DisksOf(topo, s) # {} /\ Candidates(s) = {}
  /\ spc' = "refused"
  /\ UNCHANGED <<attached, store, blob, registered, edits, fails, rebuild>>

\* _npiv_build_out: every fabric of the topology must exist on the target.
Fabrics(t) == {a.key : a \in {a \in t : a.cls = "VFC"}}
FabricSlots(t, f) == {a.slot : a \in {a \in t : a.cls = "VFC" /\ a.key = f}}
Finish ==
  /\ spc = "vscsi" /\ \A s \in slotsLeft : DisksOf(topo, s) = {}
  /\ IF Fabrics(topo) \subseteq target.fabrics
     THEN /\ spc' = "built"
          /\ build' = [build EXCEPT !.vfc = {[fabric |-> f, slots |-> FabricSlots(topo, f)] : f \in target.fabrics}]
     ELSE spc' = "refused" /\ UNCHANGED build
  /\ slotsLeft' = {}
  /\ UNCHANGED <<attached, store, blob, registered, edits, fails, target, volToVio>>

SlotNext ==
  \/ \E e \in Elements : Register(e)
  \/ \E e \in attached : Drop(e)
  \/ \E n \in {DefMaxSlot + 1} : RegisterMax(n)
  \/ Save \/ SaveFails \/ Delete
  \/ StartRebuild
  \/ \E s \in slotsLeft : \E v \in target.vioses : AssignSlot(s, v)
  \/ \E s \in slotsLeft : NoVios(s)
  \/ Finish

SlotSpec == SlotInit /\ [][SlotNext]_slotVars

-----------------------------------------------------------------------------
(* What the consumer of a finished rebuild map is told.                    *)

\* get_vscsi_slot.
VscsiSlot(v, u) == {<<b.slot, b.lua>> : b \in {b \in build.vscsi : b.vios = v /\ b.udid = u}}

\* _vea_build_out, _vnic_build_out, get_vnet_slot and get_mgmt_vea_slot.
IsMgmt(a) == a.cls = "CNA" /\ a.spec = "MGMTSWITCH"
VnetSlots(mac) ==
  {a.slot : a \in {a \in topo : a.cls \in Vnets /\ ~IsMgmt(a) /\ Sanitized(a.key) = Sanitized(mac)}}
MgmtSlots ==
  LET mgmt == {a.slot : a \in {a \in topo : IsMgmt(a)}}
  IN IF mgmt # {} THEN mgmt ELSE IF topo = {} THEN {} ELSE {Max(SlotsOf(topo)) + 1}

\* get_vfc_slots: as many slots as asked for, or InvalidHostForRebuildSlotMismatch.
VfcSlots(f, n) ==
  LET had == UNION {b.slots : b \in {b \in build.vfc : b.fabric = f}}
  IN IF had = {} THEN "any" ELSE IF Cardinality(had) = n THEN "these" ELSE "mismatch"

\* get_max_vslots.
MaxVslots ==
  IF maxVslots # None THEN maxVslots
  ELSE Max({DefMaxSlot, (IF topo = {} THEN 0 ELSE Max(SlotsOf(topo))) + 10})

-----------------------------------------------------------------------------
(* Properties.                                                             *)

\* save writes only what has changed since the last save or load.  Whatever saves
\* failed, slots were recycled and volumes kept some of their paths: a map that
\* counts as unchanged is the one in the back-end, and it holds exactly the
\* elements that the LPAR has.
UnchangedIsSaved ==
  spc = "source" /\ ~Changed => Loaded = TopologyOf(attached)

\* RebuildSlotMap: a rebuild that is not refused puts every volume into the slot
\* and at the LUA it had, every slot on one VIOS, every VIOS sees its volumes, and
\* a volume that had several paths has them through different VIOSes.  VEAs, VNICs
\* and NPIV fabrics get their slots back, and a management VEA takes none of them.
RebuiltAsSource ==
  spc = "built" =>
    /\ {<<b.slot, b.udid, b.lua>> : b \in build.vscsi} = {<<a.slot, a.key, a.spec>> : a \in {a \in topo : a.cls \in Disks}}
    /\ \A b, c \in build.vscsi : b.slot = c.slot => b.vios = c.vios
    /\ \A b, c \in build.vscsi : b.vios = c.vios /\ b.udid = c.udid => b = c
    /\ \A b \in build.vscsi : b.vios \in target.sees[b.udid] /\ VscsiSlot(b.vios, b.udid) = {<<b.slot, b.lua>>}
    /\ \A a \in topo : a.cls \in Vnets /\ ~IsMgmt(a) => VnetSlots([a.key EXCEPT !.form = "colons"]) = {a.slot}
    /\ \A a \in topo : a.slot \in MgmtSlots => IsMgmt(a)
    /\ \A f \in Fabrics(topo) : VfcSlots(f, Cardinality(FabricSlots(topo, f))) = "these"

\* Slots survive both a failing back-end and a move: what counts as saved is saved,
\* and what is rebuilt is what was recorded.
SlotsAreKept == UnchangedIsSaved /\ RebuiltAsSource

\* Refuted.  The VIOS of a slot is taken arbitrarily: "Just take one, doesn't
\* matter which one."  If some choice of VIOSes works, none leads to a refusal.
Assignable ==
  \E f \in [{s \in SlotsOf(topo) : DisksOf(topo, s) # {}} -> target.vioses] :
     /\ \A s \in DOMAIN f : \A a \in DisksOf(topo, s) : a.key \in DOMAIN target.sees /\ f[s] \in target.sees[a.key]
     /\ \A s, t \in DOMAIN f : (\E a \in DisksOf(topo, s), b \in DisksOf(topo, t) : a.key = b.key) /\ f[s] = f[t] => s = t
AnyChoiceWorks ==
  spc = "refused" /\ ~HasVopt(topo) /\ Fabrics(topo) \subseteq target.fabrics => ~Assignable

\* Refuted.  get_max_vslots: "If the source LPAR's maximum number of virtual slots
\* was registered in the source slot map, that value is returned."
RegisteredMaxIsKept ==
  spc = "built" /\ registered # None => MaxVslots = registered
=============================================================================
