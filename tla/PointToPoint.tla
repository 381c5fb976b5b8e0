---------------------------- MODULE PointToPoint ----------------------------
(***************************************************************************)
(* pypowervm.tasks.cna: connections with a VLAN of their own between a     *)
(* client and trunk adapters.  The VLAN is chosen and used under the lock  *)
(* VLAN_LOCK; crt_p2p_cna takes it twice, as it is not re-entrant.         *)
(***************************************************************************)
EXTENDS Integers, Sequences, FiniteSets

CONSTANTS
  Conns,        \* connections, each made by one call of one thread
  Hosts,        \* src_io_host_uuids, in order
  LastVlan,     \* 4094
  CrtVswitch    \* crt_vswitch

VARIABLES
  vswitch,    \* the virtual switch exists
  adpts,      \* the adapters on it, each with its VLAN and the connection it is for
  vlanLock,   \* the connection whose call holds VLAN_LOCK, in a set
  cpc,        \* connection -> where in its call
  vlan        \* connection -> the VLAN that was found free, 0 before

p2pVars == <<vswitch, adpts, vlanLock, cpc, vlan>>

Trunks(c) == {a \in adpts : a.of = c /\ a.trunk}

P2PInit ==
  /\ vswitch \in BOOLEAN
  /\ adpts = {}
  /\ vlanLock = {}
  /\ cpc = [c \in Conns |-> "idle"]
  /\ vlan = [c \in Conns |-> 0]

\* @lockutils.synchronized(VLAN_LOCK)
NeverHeld == TRUE                                         \* mutant: no lock
VlanLockFree == vlanLock = {}

\* crt_trunk_with_free_vlan and assign_free_vlan.
Enter(c, how) ==
  /\ cpc[c] = "idle" /\ VlanLockFree
  /\ vlanLock' = {c}
  /\ cpc' = [cpc EXCEPT ![c] = how]
  /\ UNCHANGED <<vswitch, adpts, vlan>>

Leave(c, how) == cpc' = [cpc EXCEPT ![c] = how] /\ vlanLock' = vlanLock \ {c}

\* _find_free_vlan: range(1, 4094); 0 stands for the exception.
FreeVlan ==
  LET free == (1 .. LastVlan - 1) \ {a.vlan : a \in adpts}
  IN IF free = {} THEN 0 ELSE CHOOSE v \in free : \A w \in free : v <= w

\* _find_or_create_vswitch, then _find_free_vlan.
Reserve(c) ==
  /\ cpc[c] = "reserve"
  /\ vswitch' = (vswitch \/ CrtVswitch)
  /\ IF vswitch' /\ FreeVlan # 0
     THEN /\ vlan' = [vlan EXCEPT ![c] = FreeVlan]
          /\ cpc' = [cpc EXCEPT ![c] = "trunks"] /\ UNCHANGED vlanLock
     ELSE Leave(c, "failed") /\ UNCHANGED vlan
  /\ UNCHANGED adpts

\* One trunk per I/O host, with rising priority; a create that fails leaves
\* those before it.
CreateTrunk(c) ==
  LET pri == Cardinality(Trunks(c)) + 1 IN
  /\ cpc[c] = "trunks"
  /\ \/ /\ adpts' = adpts \cup {[of |-> c, trunk |-> TRUE, host |-> Hosts[pri], pri |-> pri, vlan |-> vlan[c]]}
        /\ IF pri = Len(Hosts) THEN Leave(c, "trunked") ELSE UNCHANGED <<cpc, vlanLock>>
     \/ Leave(c, "failed") /\ UNCHANGED adpts
  /\ UNCHANGED <<vswitch, vlan>>

\* crt_p2p_cna, under the lock again.
CreateClient(c) ==
  /\ cpc[c] = "trunked" /\ VlanLockFree
  /\ \/ /\ adpts' = adpts \cup {[of |-> c, trunk |-> FALSE, host |-> "lpar", pri |-> 0, vlan |-> vlan[c]]}
        /\ cpc' = [cpc EXCEPT ![c] = "done"]
     \/ cpc' = [cpc EXCEPT ![c] = "failed"] /\ UNCHANGED adpts
  /\ UNCHANGED <<vswitch, vlanLock, vlan>>

\* assign_free_vlan: the CNA is given; it is updated to the free VLAN.
FindForCna(c) ==
  /\ cpc[c] = "assign"
  /\ IF vswitch /\ FreeVlan # 0
     THEN vlan' = [vlan EXCEPT ![c] = FreeVlan] /\ cpc' = [cpc EXCEPT ![c] = "update"] /\ UNCHANGED vlanLock
     ELSE Leave(c, "failed") /\ UNCHANGED vlan
  /\ UNCHANGED <<vswitch, adpts>>

UpdateCna(c) ==
  /\ cpc[c] = "update"
  /\ \/ /\ adpts' = adpts \cup {[of |-> c, trunk |-> FALSE, host |-> "lpar", pri |-> 0, vlan |-> vlan[c]]}
        /\ Leave(c, "done")
     \/ Leave(c, "failed") /\ UNCHANGED adpts
  /\ UNCHANGED <<vswitch, vlan>>

P2PNext ==
  \E c \in Conns : \/ Enter(c, "reserve") \/ Enter(c, "assign") \/ Reserve(c) \/ CreateTrunk(c)
                   \/ CreateClient(c) \/ FindForCna(c) \/ UpdateCna(c)
P2PSpec == P2PInit /\ [][P2PNext]_p2pVars

-----------------------------------------------------------------------------
\* find_trunks, find_cnas_on_trunk and find_orphaned_trunks.
FindTrunks(cna) == {a \in adpts : a.trunk /\ a.vlan = cna.vlan}
FindCnasOnTrunk(t) == {a \in adpts : a # t /\ a.vlan = t.vlan}
FindOrphanedTrunks == {t \in adpts : t.trunk /\ FindCnasOnTrunk(t) = {}}

\* A connection is private: the adapters on its VLAN are its own, and its client
\* is hosted by the trunks that were made for it, whatever other threads create
\* meanwhile and whichever creates fail.
PrivateVlan ==
  \A a, b \in adpts : a.vlan = b.vlan => a.of = b.of /\ (~a.trunk => FindTrunks(a) = Trunks(a.of))

\* Refuted: "An orphaned trunk is a trunk adapter that does not have any
\* associated CNAs", cna.py:421.  The trunk of the other I/O host has the same
\* VLAN and is taken for a CNA, so that a failed call leaves trunks that are
\* never reported.
LeftoversAreFound ==
  (\A c \in Conns : cpc[c] \in {"idle", "done", "failed"}) =>
    \A c \in Conns : cpc[c] = "failed" => Trunks(c) \subseteq FindOrphanedTrunks
=============================================================================
