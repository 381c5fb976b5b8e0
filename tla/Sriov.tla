-------------------------------- MODULE Sriov --------------------------------
(***************************************************************************)
(* pypowervm.tasks.sriov: backing devices of vNICs on SR-IOV physical      *)
(* ports.  Threads choose ports for a vNIC and create it, under the read   *)
(* lock PPORT_MOD_LOCK as its comment asks of them; other threads relabel  *)
(* ports with safe_update_pports, in a transaction on the System and under *)
(* the write lock.  The wrapper of the System may be old in both.          *)
(***************************************************************************)
EXTENDS Integers, Sequences, SequencesExt, FiniteSetsExt, Functions

CONSTANTS
  Agents,     \* threads
  Hardware,   \* systems: [ports, cards, vioses, vnic, failover]
  VnicCalls,  \* [pports, redundant, redundancy, cap, max, up]
  Labelings,  \* calls of safe_update_pports: [loc, label, force]
  NoCap,      \* capacity not given
  NoAgent,
  MaxVnicOps  \* bound on the calls

ASSUME SriovConstantsOK == NoAgent \notin Agents /\ NoCap \notin Nat /\ MaxVnicOps \in Nat

\* The System has finitely many ports and VIOSes, and the ports whose labels are set; a
\* port has a count of logical ports and an allocated capacity.
ASSUME HardwareOK ==
  \A s \in Hardware :
    /\ {"ports", "vioses"} \subseteq DOMAIN s /\ \A r \in Labelings : r.loc \in DOMAIN s.ports
    /\ DOMAIN s.ports \subseteq Nat /\ IsFiniteSet(DOMAIN s.ports) /\ IsFiniteSet(s.vioses)
    /\ \A l \in DOMAIN s.ports :
         {"lps", "label", "card", "alloc"} \subseteq DOMAIN s.ports[l] /\ s.ports[l].lps \in Nat /\ s.ports[l].alloc \in Nat

\* A vNIC is asked for with a number of backing devices.
ASSUME RedundancyOK == \A r \in VnicCalls : r.redundancy \in Nat

VARIABLES
  hw,         \* the System on the server: Hardware, ports being a function of their location
  etag,
  nics,       \* the vNICs that exist: sequence of their backing devices
  readers, writer,  \* PPORT_MOD_LOCK
  spc, job,   \* thread -> where it is, its call
  sysw,       \* thread -> the wrapper of the System
  nicw,       \* thread -> the VNIC wrapper: [devs, ok], ok FALSE if the method raised
  ops,
  hidden      \* observer: ports relabelled without force while they backed a vNIC

sriovVars == <<hw, etag, nics, readers, writer, spc, job, sysw, nicw, ops, hidden>>

-----------------------------------------------------------------------------
(* Filters.  Capacities are in percent.                                    *)

\* _validate_capacity; a maximum without a minimum is compared with None, a TypeError.
CapacityOK(r) == r.max # NoCap => r.max <= 100 /\ r.cap # NoCap /\ r.max >= r.cap

\* _check_sys_vnic_capabilities.
SystemOK(s, r) == s.vnic /\ (r.redundancy > 1 => s.failover)

\* _get_good_sriovs.
GoodCards(s) == {c \in DOMAIN s.cards : s.cards[c] = "Running Sriov"}

\* get_active_vioses and _check_and_filter_vioses.
ActiveVioses(s) == {v \in s.vioses : v.state = "running" /\ (v.rmc \in {"active", "busy"} \/ v.mgmt)}
GoodVioses(s, r) ==
  LET able == {v \in ActiveVioses(s) : v.vnic}
      failover == {v \in able : v.failover}
  IN IF r.redundancy > 1 \/ failover # {} THEN failover ELSE able

\* _get_good_pport_list: port_ok.
Highest(a, b) == IF a = NoCap \/ b > a THEN b ELSE a
PortOK(s, r, locs, l) ==
  LET p == s.ports[l]
  IN /\ p.card \in GoodCards(s) /\ l \in locs
     /\ r.up => p.link
     /\ p.lps < p.maxLps
     /\ p.alloc + Highest(r.cap, p.gran) <= 100
GoodPorts(s, r, locs) == {l \in DOMAIN s.ports : PortOK(s, r, locs, l)}

-----------------------------------------------------------------------------
(* set_vnic_back_devs: _pports_config.                                     *)

\* The least saturated port among those of the cards used least.
CardUses(s, st, c) == Cardinality({l \in st.here : s.ports[l].card = c})
AnyCard(s, st, l) == TRUE                       \* mutant: cards are not told apart
OnLeastUsedCard(s, st, l) ==
  \A k \in st.left : CardUses(s, st, s.ports[l].card) <= CardUses(s, st, s.ports[k].card)
NextPort(s, st) ==
  LET cand == {l \in st.left : OnLeastUsedCard(s, st, l)}
  IN CHOOSE l \in cand : \A k \in cand : s.ports[l].alloc < s.ports[k].alloc
                                        \/ (s.ports[l].alloc = s.ports[k].alloc /\ l <= k)

\* The VIOSes take turns.
AddDev(s, vs, st) ==
  LET l == NextPort(s, st)
  IN [devs |-> Append(st.devs, [vios |-> vs[st.idx + 1], loc |-> l]),
      left |-> st.left \ {l}, here |-> st.here \cup {l}, idx |-> (st.idx + 1) % Len(vs)]
PportsConfig(s, vs, devs, ports, idx, n) ==
  LET st[i \in 0 .. n] ==
        IF i = 0 THEN [devs |-> devs, left |-> ports, here |-> {}, idx |-> idx]
        ELSE IF st[i - 1].left = {} THEN st[i - 1] ELSE AddDev(s, vs, st[i - 1])
  IN st[n].devs

\* Ports of the second list, on another card than the first device if there are
\* any; the VIOS with index 1 must exist.
SecondPorts(s, r, first) ==
  LET all == GoodPorts(s, r, r.redundant)
      other == {l \in all : s.ports[l].card # s.ports[first].card}
  IN IF other # {} THEN other ELSE all
SecondDev(s, r, vs, devs) ==
  LET second == SecondPorts(s, r, devs[1].loc)
  IN IF second = {} THEN [ok |-> TRUE, devs |-> devs]
     ELSE IF Len(vs) > 1 THEN [ok |-> TRUE, devs |-> PportsConfig(s, vs, devs, second, 1, 1)]
     ELSE [ok |-> \E l \in second : s.ports[l].card # s.ports[devs[1].loc].card
                    /\ {k \in GoodPorts(s, r, r.redundant) : s.ports[k].card = s.ports[devs[1].loc].card} = {},
           devs |-> devs]

\* The devices are cleared first: "we've validated enough that we won't raise".
Chooses(s, r, vs) ==
  LET good == GoodPorts(s, r, r.pports)
      paired == r.redundant # {} /\ r.redundancy = 2
      second == GoodPorts(s, r, r.redundant)
  IN IF Cardinality(good) < r.redundancy /\ r.redundant = {} THEN [ok |-> FALSE, devs |-> <<>>]
     ELSE IF r.redundancy > 1 /\ Cardinality(good) = 1 /\ second = {} THEN [ok |-> FALSE, devs |-> <<>>]
     ELSE IF ~paired THEN [ok |-> TRUE, devs |-> PportsConfig(s, vs, <<>>, good, 0, r.redundancy)]
     ELSE IF good = {} THEN [ok |-> FALSE, devs |-> <<>>]
     ELSE SecondDev(s, r, vs, PportsConfig(s, vs, <<>>, good, 0, 1))

Validated(s, r) ==
  CapacityOK(r) /\ SystemOK(s, r) /\ GoodCards(s) # {} /\ ActiveVioses(s) # {} /\ GoodVioses(s, r) # {}

-----------------------------------------------------------------------------
OldDevs == <<[vios |-> "old", loc |-> 0]>>
NoJob == [op |-> "none"]

SriovInit ==
  /\ hw \in Hardware /\ etag = 0
  /\ nics = {}
  /\ readers = {} /\ writer = NoAgent
  /\ spc = [a \in Agents |-> "idle"]
  /\ job = [a \in Agents |-> NoJob]
  /\ sysw = [a \in Agents |-> [sys |-> hw, etag |-> 0]]
  /\ nicw = [a \in Agents |-> [devs |-> OldDevs, ok |-> TRUE]]
  /\ ops = 0 /\ hidden = {}

SrGoto(a, where) == spc' = [spc EXCEPT ![a] = where]
FetchSystem(a) == sysw' = [sysw EXCEPT ![a] = [sys |-> hw, etag |-> etag]]

\* A vNIC is wanted; the System was fetched at some time.
WantVnic(a, r) ==
  /\ spc[a] = "idle" /\ ops < MaxVnicOps /\ ops' = ops + 1
  /\ job' = [job EXCEPT ![a] = r] /\ nicw' = [nicw EXCEPT ![a] = [devs |-> OldDevs, ok |-> TRUE]]
  /\ FetchSystem(a) /\ SrGoto(a, "rlock")
  /\ UNCHANGED <<hw, etag, nics, readers, writer, hidden>>

ReadLock(a) ==
  /\ spc[a] = "rlock" /\ writer = NoAgent
  /\ readers' = readers \cup {a}
  /\ SrGoto(a, "choose")
  /\ UNCHANGED <<hw, etag, nics, writer, job, sysw, nicw, ops, hidden>>

\* set_vnic_back_devs, with the VIOSes in any order.
SetVnicBackDevs(a) ==
  /\ spc[a] = "choose"
  /\ LET s == sysw[a].sys IN LET r == job[a] IN
       IF ~Validated(s, r)
       THEN nicw' = [nicw EXCEPT ![a].ok = FALSE]
       ELSE \E vs \in SetToSeqs(GoodVioses(s, r)) : nicw' = [nicw EXCEPT ![a] = Chooses(s, r, vs)]
  /\ SrGoto(a, "create")
  /\ UNCHANGED <<hw, etag, nics, readers, writer, job, sysw, ops, hidden>>

\* The POST of the vNIC: the server refuses it if a port is saturated by now.
Locs(devs) == {devs[i].loc : i \in DOMAIN devs}
Backing(ports, locs) == [l \in DOMAIN ports |-> IF l \in locs THEN [ports[l] EXCEPT !.lps = @ + 1] ELSE ports[l]]
CreateVnic(a) ==
  /\ spc[a] = "create"
  /\ LET devs == nicw[a].devs
         fits == \A l \in Locs(devs) : hw.ports[l].lps < hw.ports[l].maxLps
     IN IF nicw[a].ok /\ devs # <<>> /\ fits
        THEN /\ hw' = [hw EXCEPT !.ports = Backing(@, Locs(devs))]
             /\ etag' = etag + 1 /\ nics' = nics \cup {devs}
        ELSE UNCHANGED <<hw, etag, nics>>
  /\ readers' = readers \ {a}
  /\ SrGoto(a, "idle")
  /\ UNCHANGED <<writer, job, sysw, nicw, ops, hidden>>

-----------------------------------------------------------------------------
(* safe_update_pports.  entry_transaction GETs before the body is entered. *)

WantLabel(a, r) ==
  /\ spc[a] = "idle" /\ ops < MaxVnicOps /\ ops' = ops + 1
  /\ job' = [job EXCEPT ![a] = r]
  /\ FetchSystem(a) /\ SrGoto(a, "wlock")
  /\ UNCHANGED <<hw, etag, nics, readers, writer, nicw, hidden>>

WriteLock(a) ==
  /\ spc[a] = "wlock" /\ writer = NoAgent /\ readers = {}
  /\ writer' = a
  /\ SrGoto(a, "vet")
  /\ UNCHANGED <<hw, etag, nics, readers, job, sysw, nicw, ops, hidden>>

\* _vet_port_usage and _vnics_using_pport: the wrapper's count of logical ports,
\* a label before, another one now, and the vNICs as they are on the server.
Changes(a) == sysw[a].sys.ports[job[a].loc].label # job[a].label
Uses(l) == \E n \in nics : l \in Locs(n)
Warns(a) ==
  LET p == sysw[a].sys.ports[job[a].loc]
  IN p.lps > 0 /\ p.label # "" /\ p.label # job[a].label /\ Uses(job[a].loc)
VetPorts(a) ==
  /\ spc[a] = "vet"
  /\ IF Changes(a) /\ (job[a].force \/ ~Warns(a))
     THEN SrGoto(a, "post") /\ UNCHANGED writer
     ELSE SrGoto(a, "idle") /\ writer' = NoAgent  \* nothing to do, or CantUpdatePPortsInUse
  /\ UNCHANGED <<hw, etag, nics, readers, job, sysw, nicw, ops, hidden>>

\* sys_w.update, and the retry of the transaction with a new System.
SystemIsCurrent(a) == sysw[a].etag = etag
UpdatePports(a) ==
  /\ spc[a] = "post"
  /\ writer' = NoAgent
  /\ IF SystemIsCurrent(a)
     THEN LET l == job[a].loc IN
          /\ hidden' = IF ~job[a].force /\ Uses(l) /\ hw.ports[l].label # "" THEN hidden \cup {l} ELSE hidden
          /\ hw' = [hw EXCEPT !.ports[l].label = job[a].label]
          /\ etag' = etag + 1 /\ SrGoto(a, "idle") /\ UNCHANGED sysw
     ELSE FetchSystem(a) /\ SrGoto(a, "wlock") /\ UNCHANGED <<hw, etag, hidden>>
  /\ UNCHANGED <<nics, readers, job, nicw, ops>>

SriovNext ==
  \E a \in Agents :
    \/ \E r \in VnicCalls : WantVnic(a, r)
    \/ ReadLock(a) \/ SetVnicBackDevs(a) \/ CreateVnic(a)
    \/ \E r \in Labelings : WantLabel(a, r)
    \/ WriteLock(a) \/ VetPorts(a) \/ UpdatePports(a)

SriovSpec == SriovInit /\ [][SriovNext]_sriovVars

-----------------------------------------------------------------------------
(* Properties.                                                             *)

\* set_vnic_back_devs distributes "across as diverse a range of physical SRIOV
\* adapters and VIOSes as possible": with one list of ports there are as many
\* devices as asked for, on different ports that had the capacity; VIOSes differ by
\* one device at most, and so do cards, unless the smaller share is all that the
\* card could take.
OnVios(devs, v) == Cardinality({i \in DOMAIN devs : devs[i].vios = v})
OnCard(s, devs, c) == Cardinality({l \in Locs(devs) : s.ports[l].card = c})
Diverse ==
  \A a \in Agents : spc[a] = "create" /\ nicw[a].ok /\ job[a].redundant = {} =>
    LET s == sysw[a].sys IN LET r == job[a] IN LET devs == nicw[a].devs IN
      /\ Len(devs) = r.redundancy /\ Cardinality(Locs(devs)) = r.redundancy
      /\ Locs(devs) \subseteq GoodPorts(s, r, r.pports)
      /\ \A v, w \in GoodVioses(s, r) : OnVios(devs, v) <= OnVios(devs, w) + 1
      /\ \A c, d \in GoodCards(s) : OnCard(s, devs, c) > OnCard(s, devs, d) + 1 =>
           {l \in GoodPorts(s, r, r.pports) : s.ports[l].card = d} \subseteq Locs(devs)

\* safe_update_pports without force never changes the label of a port that backs a
\* vNIC, although the System it looks at may be older than the vNIC.
LabelsAreSafe == hidden = {}

\* The backing devices of a vNIC are as diverse as promised when it is created, and
\* their ports keep their labels, whatever agents do with old copies of the System.
VnicsAreSound == Diverse /\ LabelsAreSafe

\* Refuted.  "If this method raises an exception, vnic_w is guaranteed to be
\* unchanged": the devices are cleared before the ports are counted.
UnchangedIfRaised == \A a \in Agents : ~nicw[a].ok => nicw[a].devs = OldDevs
=============================================================================
