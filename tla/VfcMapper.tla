------------------------------ MODULE VfcMapper ------------------------------
(***************************************************************************)
(* pypowervm.tasks.vfc_mapper: NPIV.  Pairs of client WWPNs are spread     *)
(* over the physical ports of the VIOSes (derive_npiv_map), the mappings   *)
(* are added to the VIOSes later, from plans that may be out of date by    *)
(* then, and ports for a migration are chosen per fabric and per VIOS.     *)
(***************************************************************************)
EXTENDS Integers, Sequences, FiniteSets, SequencesExt, FiniteSetsExt

CONSTANTS
  Systems,    \* sequences of VIOSes [name, ports], a port being [wwpn, avail]
  Plans,      \* derivations [lpar, pairs, ports, preserve] that are made
  Migrations, \* [fabrics, peers]: fabric -> [slots, ports], and the groups of slots
  AnyPair,    \* _FUSED_ANY_WWPN, "-1 -1"
  NoPort,
  MaxUse,     \* 128
  MaxSteps    \* bound on the steps

ASSUME VfcConstantsOK == MaxUse \in Nat \ {0} /\ MaxSteps \in Nat

\* A system is a list of VIOSes with names of their own, and a VIOS has a list of ports.
ASSUME SystemsAreLists ==
  \A s \in Systems :
    /\ DOMAIN s = 1 .. Len(s) /\ Len(s) \in Nat
    /\ \A k, l \in DOMAIN s : s[k].name = s[l].name => k = l
    /\ \A k \in DOMAIN s : /\ DOMAIN s[k].ports = 1 .. Len(s[k].ports) /\ Len(s[k].ports) \in Nat
                         /\ \A p \in DOMAIN s[k].ports : s[k].ports[p].avail \in Nat

\* A WWPN is [id, form]; sanitize_wwpn_for_api brings any spelling into one form.
SanitizedWwpn(w) == [w EXCEPT !.form = "api"]

\* The WWPN of a port is its own, however it is spelled.
ASSUME WwpnsIdentify ==
  \A s \in Systems : \A k, l \in DOMAIN s : \A p \in DOMAIN s[k].ports, q \in DOMAIN s[l].ports :
    SanitizedWwpn(s[k].ports[p].wwpn) = SanitizedWwpn(s[l].ports[q].wwpn) => k = l /\ p = q

ASSUME PlansAreLists == \A r \in Plans : DOMAIN r.pairs = 1 .. Len(r.pairs) /\ Len(r.pairs) \in Nat

\* A slot is in one group, and a slot and a port are on one fabric.
ASSUME MigrationsOK ==
  \A r \in Migrations :
    /\ IsFiniteSet(r.peers) /\ \A g \in r.peers : IsFiniteSet(g) /\ g \subseteq Nat
    /\ \A g, h \in r.peers : g \cap h # {} => g = h
    /\ \A f \in DOMAIN r.fabrics : r.fabrics[f].slots \subseteq UNION r.peers
    /\ \A f, g \in DOMAIN r.fabrics : f # g =>
         /\ r.fabrics[f].slots \cap r.fabrics[g].slots = {}
         /\ \A w \in r.fabrics[f].ports, x \in r.fabrics[g].ports : SanitizedWwpn(w) # SanitizedWwpn(x)

VARIABLES
  vioses,     \* vios_wraps
  vfc,        \* the VFC mappings of the VIOSes: [vios, lpar, pair, port]
  plans,      \* what derive_npiv_map has returned and is still to be applied
  derived,    \* the last derivation that succeeded, as a set of one: [req, new, maps]
  moved,      \* the last migration mappings that were built: [req, maps]
  steps

vfcVars == <<vioses, vfc, plans, derived, moved, steps>>

-----------------------------------------------------------------------------
(* Ports.                                                                  *)

PortsOf(v) == ToSet(v.ports)

\* find_vios_for_wwpn and find_pfc_wwpn_by_name: the VIOSes with the port, by position.
HasPort(v, w) == \E p \in PortsOf(v) : SanitizedWwpn(p.wwpn) = SanitizedWwpn(w)
ViosForWwpn(w) == {i \in DOMAIN vioses : HasPort(vioses[i], w)}

\* find_vios_for_vfc_wwpns: mappings that have a client adapter and a backing port.
BackedOn(v, pair) == \E m \in vfc : m.vios = v.name /\ m.pair = pair /\ m.port # NoPort
ViosForVfc(pair) == {i \in DOMAIN vioses : BackedOn(vioses[i], pair)}

\* find_vios_for_port_map: by the client WWPNs, else by the physical port; the first one.
ByPhysicalPort(m) == ViosForWwpn(m.port)        \* mutant: the client WWPNs are not looked for
ViosForPortMap(m) == IF ViosForVfc(m.pair) # {} THEN ViosForVfc(m.pair) ELSE ViosForWwpn(m.port)
FirstVios(found) == vioses[CHOOSE i \in found : \A j \in found : i <= j]

\* _find_ports_on_vio, with p_port_wwpns as sanitized by derive_npiv_map: positions of ports.
PortsOnVio(v, wwpns) == {p \in DOMAIN v.ports : SanitizedWwpn(v.ports[p].wwpn) \in wwpns}

\* _find_map_port: of the ports used least, below MaxUse, the first of those with
\* the most NPIV ports available; none if LeastUsed is empty.
UseOf(w, ms) == Cardinality({i \in DOMAIN ms : ms[i] = w})
PortUse(v, p, ms) == UseOf(v.ports[p].wwpn, ms)
LeastUsed(v, cand, ms) ==
  {p \in cand : PortUse(v, p, ms) < MaxUse /\ \A q \in cand : PortUse(v, p, ms) <= PortUse(v, q, ms)}
MapPort(v, cand, ms) ==
  LET least == LeastUsed(v, cand, ms)
  IN v.ports[Min({p \in least : \A q \in least : v.ports[q].avail <= v.ports[p].avail})].wwpn

-----------------------------------------------------------------------------
(* derive_npiv_map.  A map is a function from the positions of the client   *)
(* pairs in the request to the ports that they get.                         *)

\* has_client_wwpns: any mapping of the pair, the first VIOS first.
MapsOfPair(pair) == {m \in vfc : m.pair = pair}
Existing(r, pair) == r.preserve /\ MapsOfPair(pair) # {}
FirstMap(pair) ==
  LET v == vioses[Min({k \in DOMAIN vioses : \E m \in MapsOfPair(pair) : m.vios = vioses[k].name})]
  IN CHOOSE m \in MapsOfPair(pair) : m.vios = v.name

\* The preserved mappings; one that has lost its port is left out.
NewPairs(r) == {i \in DOMAIN r.pairs : ~Existing(r, r.pairs[i])}
Preserved(r) ==
  [i \in {j \in DOMAIN r.pairs \ NewPairs(r) : FirstMap(r.pairs[j]).port # NoPort} |-> FirstMap(r.pairs[i]).port]

\* _derive_npiv_map: the VIOSes take turns; a turn is passed by a VIOS without a
\* usable port, and a full round without one is an error.
UsableVioses(vs, wwpns, ms) == {k \in DOMAIN vs : LeastUsed(vs[k], PortsOnVio(vs[k], wwpns), ms) # {}}
NextVios(usable, last) ==
  LET after == {k \in usable : k > last} IN Min(IF after # {} THEN after ELSE usable)
AddOneMap(vs, wwpns, st, i) ==
  LET usable == UsableVioses(vs, wwpns, st.maps)
      k == NextVios(usable, st.last)
      port == MapPort(vs[k], PortsOnVio(vs[k], wwpns), st.maps)
  IN IF ~st.ok \/ usable = {} THEN [st EXCEPT !.ok = FALSE]
     ELSE [ok |-> TRUE, last |-> k, maps |-> [j \in DOMAIN st.maps \cup {i} |-> IF j = i THEN port ELSE st.maps[j]]]
Derive(vs, wwpns, old, new, n) ==
  LET st[i \in 0 .. n] ==
        IF i = 0 THEN [ok |-> TRUE, last |-> 0, maps |-> old]
        ELSE IF i \in new THEN AddOneMap(vs, wwpns, st[i - 1], i) ELSE st[i - 1]
  IN st[n]

DeriveNpivMap(r) ==
  Derive(vioses, {SanitizedWwpn(w) : w \in r.ports}, Preserved(r), NewPairs(r), Len(r.pairs))

\* derive_base_npiv_map: n markers in place of client WWPNs, which no mapping has.
DeriveBase(vs, wwpns, n) == Derive(vs, {SanitizedWwpn(w) : w \in wwpns}, <<>>, 1 .. n, n)

-----------------------------------------------------------------------------
(* build_migration_mappings.                                               *)

\* _split_ports_per_fabric: the slots of a group, per fabric.
SplitMap(r, group) ==
  LET used == {f \in DOMAIN r.fabrics : r.fabrics[f].slots \cap group # {}}
  IN [f \in used |-> [slots |-> r.fabrics[f].slots \cap group, ports |-> r.fabrics[f].ports]]

\* _does_vios_support_split_map, with the WWPNs as the caller spells them.
Supports(v, split) ==
  \A f \in DOMAIN split : Cardinality(PortsOnVio(v, split[f].ports)) >= Cardinality(split[f].slots)

\* Large groups first, equal ones in the order of the caller, each on the first free VIOS
\* that has the ports.
LargestFirst(groups) ==
  {order \in SetToSeqs(groups) : \A i, j \in DOMAIN order : i < j => Cardinality(order[i]) >= Cardinality(order[j])}
FreeFor(r, order, at, i) ==
  {k \in DOMAIN vioses : Supports(vioses[k], SplitMap(r, order[i])) /\ \A j \in DOMAIN order : j < i => at[j] # k}
FirstFit(r, order, at) ==
  \A i \in DOMAIN order : at[i] \in FreeFor(r, order, at, i) /\ \A k \in FreeFor(r, order, at, i) : at[i] <= k

\* The ports of one fabric of one group; zip of the mappings with the slots.
FabricMap(v, fm) == DeriveBase(<<v>>, fm.ports, Cardinality(fm.slots))
SlotRank(slots, s) == Cardinality({t \in slots : t <= s})
FabricMaps(v, fm) ==
  {[slot |-> s, vios |-> v.name, port |-> FabricMap(v, fm).maps[SlotRank(fm.slots, s)]] : s \in fm.slots}
Placed(r, order, at) ==
  UNION {{<<vioses[at[i]], SplitMap(r, order[i])[f]>> : f \in DOMAIN SplitMap(r, order[i])} : i \in DOMAIN order}
MigrationMappings(placed) == UNION {FabricMaps(x[1], x[2]) : x \in placed}

-----------------------------------------------------------------------------
VfcInit ==
  /\ vioses \in Systems
  /\ vfc = {} /\ plans = {} /\ steps = 0
  /\ derived = {} /\ moved = {}

Stepping == steps < MaxSteps /\ steps' = steps + 1

DeriveMap(r) ==
  /\ Stepping
  /\ LET d == DeriveNpivMap(r)
     IN IF d.ok
        THEN /\ derived' = {[req |-> r, new |-> NewPairs(r), maps |-> d.maps]}
             /\ plans' = plans \cup {[lpar |-> r.lpar, port |-> d.maps[i], pair |-> r.pairs[i]] : i \in DOMAIN d.maps}
        ELSE derived' = {} /\ UNCHANGED plans   \* UnableToFindFCPortMap
  /\ UNCHANGED <<vioses, vfc, moved>>

\* add_map on the VIOS of the port map.  A VIOS that has the client WWPNs but not
\* the port raises; a mapping without a backing port is given one; the API makes
\* up WWPNs that nobody has in place of markers.
SetPort(v, m) == {IF x.vios = v.name /\ x.pair = m.pair THEN [x EXCEPT !.port = m.port] ELSE x : x \in vfc}
MappedOn(v, pair) == \E x \in vfc : x.vios = v.name /\ x.pair = pair
PairFor(m) == IF m.pair = AnyPair THEN <<"made up", steps>> ELSE m.pair
MadeUpIsNew(m) == m.pair = AnyPair => \A x \in vfc : x.pair # PairFor(m)
AddMap(m) ==
  /\ Stepping /\ m \in plans
  /\ ViosForPortMap(m) # {} /\ MadeUpIsNew(m)
  /\ plans' = plans \ {m}
  /\ LET v == FirstVios(ViosForPortMap(m))
     IN vfc' = IF ~HasPort(v, m.port) \/ BackedOn(v, m.pair) THEN vfc
               ELSE IF MappedOn(v, m.pair) THEN SetPort(v, m)
               ELSE vfc \cup {[vios |-> v.name, lpar |-> m.lpar, pair |-> PairFor(m), port |-> m.port]}
  /\ UNCHANGED <<vioses, derived, moved>>

\* find_maps and remove_maps on one VIOS: all of an LPAR, or of its pair.
FindVfcMaps(v, lpar, pairs) == {m \in vfc : m.vios = v /\ m.lpar = lpar /\ m.pair \in pairs}
RemoveMaps(v, lpar, pairs) ==
  /\ Stepping /\ FindVfcMaps(v, lpar, pairs) # {}
  /\ vfc' = vfc \ FindVfcMaps(v, lpar, pairs)
  /\ UNCHANGED <<vioses, plans, derived, moved>>

\* A mapping loses its backing port: the VIOS reports it without one.
LosePort(m) ==
  /\ Stepping /\ m \in vfc /\ m.port # NoPort
  /\ vfc' = (vfc \ {m}) \cup {[m EXCEPT !.port = NoPort]}
  /\ UNCHANGED <<vioses, plans, derived, moved>>

\* UnableToFindFCPortMap if a group fits nowhere.
Migrate(r) ==
  /\ Stepping /\ steps = 0
  /\ \E order \in LargestFirst(r.peers) :
       LET places == {at \in [DOMAIN order -> DOMAIN vioses] : FirstFit(r, order, at)}
           good == {at \in places : \A x \in Placed(r, order, at) : FabricMap(x[1], x[2]).ok}
       IN moved' = {[req |-> r, maps |-> MigrationMappings(Placed(r, order, at))] : at \in good}
  /\ UNCHANGED <<vioses, vfc, plans, derived>>

VfcNext ==
  \/ \E r \in Plans : DeriveMap(r)
  \/ \E m \in plans : AddMap(m)
  \/ \E m \in vfc : LosePort(m) \/ \E pairs \in {{m.pair}, {n.pair : n \in vfc}} : RemoveMaps(m.vios, m.lpar, pairs)
  \/ \E r \in Migrations : Migrate(r)

VfcSpec == VfcInit /\ [][VfcNext]_vfcVars

-----------------------------------------------------------------------------
(* Properties.                                                             *)

\* However old the plan, and whatever ports were lost and mappings removed since:
\* add_map on the VIOS that find_vios_for_port_map names never gives a pair of
\* client WWPNs two backing ports.
BackedOnce ==
  \A m, n \in vfc : m.pair = n.pair /\ m.port # NoPort /\ n.port # NoPort => m = n

\* derive_npiv_map: "The mappings will first attempt to spread across the VIOSes",
\* then "across all the physical ports".  Each new pair gets a port that was asked for;
\* VIOSes differ by one new mapping at most, unless the smaller share is all that the
\* ports of the VIOS can take, and a port is chosen only if none on its VIOS is used less.
Asked(d, v) == PortsOnVio(v, {SanitizedWwpn(w) : w \in d.req.ports})
Chosen(d, v) == {i \in d.new : HasPort(v, d.maps[i])}
Spread ==
  \A d \in derived :
    /\ \A i \in d.new : i \in DOMAIN d.maps /\ \E v \in ToSet(vioses) : \E p \in Asked(d, v) : v.ports[p].wwpn = d.maps[i]
    /\ \A v, w \in ToSet(vioses) :
         \/ Cardinality(Chosen(d, v)) <= Cardinality(Chosen(d, w)) + 1
         \/ \A p \in Asked(d, w) : PortUse(w, p, d.maps) >= MaxUse
    /\ \A v \in ToSet(vioses) : \A i \in Chosen(d, v) : \A p \in Asked(d, v) :
         UseOf(d.maps[i], d.maps) <= PortUse(v, p, d.maps) + 1

\* build_migration_mappings: every slot gets one port of its fabric, the slots of a
\* group are on one VIOS and those of different groups on different ones, and no
\* two slots share a port.
SameGroup(d, s, t) == \E g \in d.req.peers : s \in g /\ t \in g
GroupsStayTogether ==
  \A d \in moved :
    /\ \A f \in DOMAIN d.req.fabrics : \A s \in d.req.fabrics[f].slots :
         \E m \in d.maps : m.slot = s /\ SanitizedWwpn(m.port) \in {SanitizedWwpn(w) : w \in d.req.fabrics[f].ports}
    /\ \A m, n \in d.maps :
         /\ (m.vios = n.vios) <=> SameGroup(d, m.slot, n.slot)
         /\ m.port = n.port => m = n

\* A virtual fibre channel adapter never ends up with two ports, ports are shared
\* out evenly, and a migration keeps the groups of adapters.
PortsAreSound == BackedOnce /\ Spread /\ GroupsStayTogether

=============================================================================
