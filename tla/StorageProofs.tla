--------------------------- MODULE StorageProofs ----------------------------
(***************************************************************************)
(* Proofs about what VIOSes and SR-IOV adapters offer to partitions, for   *)
(* any number of clients: StorageMapping (the SCSI mappings of a VIOS      *)
(* under threads, other clients and scrubs), Sriov (the labels of ports    *)
(* that back vNICs, and how the backing devices of a vNIC are spread) and  *)
(* VfcMapper (the ports behind client WWPNs).  The locks in these tasks    *)
(* are not used anywhere: the etags of the VIOS and of the System do all   *)
(* the work.                                                               *)
(***************************************************************************)
EXTENDS StorageMapping, Sriov, VfcMapper, FiniteSetTheorems, NaturalsInduction, WellFoundedInduction, TLAPS

-----------------------------------------------------------------------------
(* StorageMapping.                                                         *)

\* The mappings on the server: what MapsOK says of them at the start, at any time.
ServerSound ==
  /\ IsFiniteSet(maps) /\ maps \subseteq Mapping /\ \A m \in maps : m.bus < nextId
  /\ OneClientPerBus(maps) /\ ClientsAre(maps, lpars, gen)
  /\ MappedOnce(maps) /\ WithinFuse(maps)

ServerTyped == ver \in Nat /\ nextId \in Nat /\ lpars \subseteq LparIds /\ gen \in [LparIds -> Nat]

\* The wrapper of a thread is of the past, and with the etag of the VIOS it has its mappings.
HasVios(t) == mpc[t] \in {"work", "ids", "scrub", "stale"} \/ (mpc[t] = "lock" /\ req[t].wrapper)
ViosIsPast(t) ==
  HasVios(t) =>
    vw[t].maps \subseteq Mapping /\ vw[t].ver \in Nat /\ vw[t].ver <= ver /\ (vw[t].ver = ver => vw[t].maps = maps)

\* A scrub for LPARs that do not exist: as long as nobody has changed the VIOS since it
\* looked for them, no mapping that it will remove has a client.
MayCut(r) == r.op = "scrub" /\ r.exist
ScrubIsSafe(t) ==
  mpc[t] = "scrub" /\ ~MayCut(req[t]) /\ vw[t].ver = ver => \A m \in maps : m.lpar \in doomed[t] => ~m.client

CallFits(t) ==
  mpc[t] # "idle" => /\ CallOK(req[t]) /\ (Locks(req[t]) <=> mpc[t] \in {"lock", "get", "work"})
                     /\ mpc[t] \in {"discover", "recover", "stale"} => Discovers(req[t])

ThreadSound(t) == CallFits(t) /\ ViosIsPast(t) /\ ScrubIsSafe(t)
ThreadsTyped ==
  /\ DOMAIN mpc = Workers /\ DOMAIN req = Workers /\ DOMAIN own = Workers /\ DOMAIN vw = Workers
  /\ DOMAIN doomed = Workers

MapInv ==
  /\ ServerTyped /\ ServerSound /\ ThreadsTyped /\ cut = {}
  /\ \A t \in Workers : ThreadSound(t)

\* Before the first call MapInv holds.
LEMMA MapInitial == MappingInit => MapInv
<1> SUFFICES ASSUME MappingInit PROVE MapInv
  OBVIOUS
<1>1. ServerSound
  BY MapsOK DEF MappingInit, ServerSound
<1>2. ServerTyped
  BY DEF MappingInit, ServerTyped, FirstId
<1> QED
  BY <1>1, <1>2 DEF MappingInit, MapInv, ThreadsTyped, ThreadSound, CallFits, ViosIsPast, HasVios, ScrubIsSafe

\* Without some of its mappings a VIOS is as sound.
LEMMA FewerMaps ==
  ASSUME ServerTyped, ServerSound, maps' \subseteq maps, UNCHANGED <<nextId, lpars, gen>>
  PROVE  ServerSound'
<1> USE DEF ServerSound, ServerTyped
<1>1. IsFiniteSet(maps')
  BY FS_Subset
<1>2. WithinFuse(maps')
  <2> SUFFICES ASSUME NEW m \in maps', m.client PROVE Cardinality(OnBus(maps', m.bus)) <= FuseLimit
    BY DEF WithinFuse
  <2>1. OnBus(maps', m.bus) \in SUBSET OnBus(maps, m.bus) /\ OnBus(maps, m.bus) \in SUBSET maps
    BY DEF OnBus
  <2>2. IsFiniteSet(OnBus(maps, m.bus)) /\ IsFiniteSet(OnBus(maps', m.bus))
    BY <2>1, FS_Subset
  <2>3. Cardinality(OnBus(maps', m.bus)) <= Cardinality(OnBus(maps, m.bus))
    BY <2>1, <2>2, FS_Subset
  <2>4. Cardinality(OnBus(maps, m.bus)) <= FuseLimit
    BY DEF WithinFuse
  <2> QED
    BY <2>2, <2>3, <2>4, FS_CardinalityType, MappingConstantsOK
<1> QED
  BY <1>1, <1>2 DEF OneClientPerBus, ClientsAre, MappedOnce

\* Mappings that are replaced one by one, each on its bus, fill no bus further.
LEMMA ReplacedMaps ==
  ASSUME NEW S, IsFiniteSet(S), NEW f, DOMAIN f = S, \A m \in S : f[m].bus = m.bus, NEW b
  PROVE  LET T == {f[m] : m \in S}
         IN /\ IsFiniteSet(T) /\ IsFiniteSet(OnBus(T, b)) /\ IsFiniteSet(OnBus(S, b))
            /\ Cardinality(OnBus(T, b)) <= Cardinality(OnBus(S, b))
<1> DEFINE T == {f[m] : m \in S}
           g == [m \in OnBus(S, b) |-> f[m]]
           h == [m \in S |-> f[m]]
<1>1. h \in Surjection(S, T)
  BY DEF Surjection
<1>2. IsFiniteSet(T)
  BY <1>1, FS_Surjection
<1>3. OnBus(S, b) \in SUBSET S /\ OnBus(T, b) \in SUBSET T
  BY DEF OnBus
<1>4. IsFiniteSet(OnBus(S, b)) /\ IsFiniteSet(OnBus(T, b))
  BY <1>2, <1>3, FS_Subset
<1>5. g \in [OnBus(S, b) -> OnBus(T, b)]
  BY DEF OnBus
<1>6. \A x \in OnBus(T, b) : \E m \in OnBus(S, b) : g[m] = x
  BY DEF OnBus
<1>7. g \in Surjection(OnBus(S, b), OnBus(T, b))
  BY <1>5, <1>6 DEF Surjection
<1>8. Cardinality(OnBus(T, b)) <= Cardinality(OnBus(S, b))
  <2> HIDE DEF g, T
  <2> QED
    BY <1>4, <1>7, FS_Surjection
<1> QED
  BY <1>2, <1>4, <1>8

\* modify_vopt_mapping: one mapping gets a medium that the LPAR does not have.
LEMMA RemappedMap ==
  ASSUME ServerTyped, ServerSound, UNCHANGED <<nextId, lpars, gen>>, NEW t \in Workers, CallOK(req[t]), req[t].op = "remap",
         vw[t].maps = maps, MayRemap(t),
         maps' = {IF m \in Hit(t) THEN [m EXCEPT !.stg = req[t].new] ELSE m : m \in maps}
  PROVE  ServerSound'
<1> USE DEF ServerSound, ServerTyped
<1> DEFINE new == req[t].new
           f == [m \in maps |-> IF m \in Hit(t) THEN [m EXCEPT !.stg = new] ELSE m]
<1>1. new \in Storage /\ new.typ = "VOpt" /\ new # NoStorage
  BY MappingConstantsOK DEF CallOK
<1>2. Hit(t) \subseteq maps
  BY DEF Hit, FindMaps
<1>3. PICK hit \in maps : Hit(t) = {hit}
  <2>1. IsFiniteSet(Hit(t))
    BY <1>2, FS_Subset
  <2> QED
    BY <1>2, <2>1, FS_Singleton DEF MayRemap
<1>4. \A m \in maps : /\ f[m] \in Mapping /\ f[m].bus = m.bus /\ f[m].lpar = m.lpar /\ f[m].gen = m.gen
                      /\ (f[m].client <=> m.client) /\ (f[m].href <=> m.href)
                      /\ f[m].stg = IF m = hit THEN new ELSE m.stg
                      /\ m # hit => f[m] = m
  BY <1>1, <1>3 DEF Mapping
<1>5. maps' = {f[m] : m \in maps} /\ DOMAIN f = maps
  OBVIOUS
<1>5a. \A x \in maps' : \E m \in maps : x = f[m]
  BY <1>5
<1> HIDE DEF f, new
<1>6. IsFiniteSet(maps') /\ \A b : IsFiniteSet(OnBus(maps', b)) /\ IsFiniteSet(OnBus(maps, b)) /\ Cardinality(OnBus(maps', b)) <= Cardinality(OnBus(maps, b))
  <2> SUFFICES ASSUME NEW b PROVE IsFiniteSet(maps') /\ IsFiniteSet(OnBus(maps', b)) /\ IsFiniteSet(OnBus(maps, b))
                                  /\ Cardinality(OnBus(maps', b)) <= Cardinality(OnBus(maps, b))
    OBVIOUS
  <2> QED
    BY <1>4, <1>5, ReplacedMaps, SMTT(30)
<1>7. WithinFuse(maps')
  <2> SUFFICES ASSUME NEW x \in maps', x.client PROVE Cardinality(OnBus(maps', x.bus)) <= FuseLimit
    BY DEF WithinFuse
  <2>1. \E m \in maps : m.client /\ m.bus = x.bus
    BY <1>4, <1>5a
  <2>2. Cardinality(OnBus(maps, x.bus)) <= FuseLimit
    BY <2>1 DEF WithinFuse
  <2>3. Cardinality(OnBus(maps, x.bus)) \in Nat /\ Cardinality(OnBus(maps', x.bus)) \in Nat
    BY <1>6, FS_CardinalityType
  <2> QED
    BY <1>6, <2>2, <2>3, MappingConstantsOK
<1>8. ASSUME NEW m \in maps, m # hit, hit.client, m.client, m.lpar = hit.lpar, m.stg # NoStorage, m.stg.typ = new.typ, m.stg.name = new.name
      PROVE  FALSE
  <2>1. hit \in Hit(t)
    BY <1>3
  <2>2. OfClient(hit, t, req[t].byUuid)
    BY <2>1 DEF Hit, FindMaps
  <2>3. OfClient(m, t, req[t].byUuid)
    BY <1>8, <2>2 DEF OfClient, ClientsAre
  <2>4. m.stg \in Storage
    BY <1>8 DEF Mapping
  <2>5. m \in NewMediaMaps(t)
    BY <1>1, <1>8, <2>3, <2>4 DEF NewMediaMaps, FindMaps, Matches, new
  <2> QED
    BY <2>5 DEF MayRemap
<1>9. MappedOnce(maps')
  <2> SUFFICES ASSUME NEW m \in maps, NEW n \in maps, m.client, n.client, m.lpar = n.lpar, f[m].stg # NoStorage,
                      SameElem(f[m].stg, f[n].stg)
               PROVE  m = n
    BY <1>4, <1>5a DEF MappedOnce
  <2>1. CASE m # hit /\ n # hit
    BY <1>4, <2>1 DEF MappedOnce
  <2>2. CASE m = hit /\ n # hit
    BY <1>4, <1>8, <2>2 DEF SameElem
  <2>3. CASE m # hit /\ n = hit
    BY <1>4, <1>8, <2>3 DEF SameElem
  <2> QED
    BY <2>1, <2>2, <2>3
<1>10. OneClientPerBus(maps') /\ ClientsAre(maps', lpars, gen) /\ maps' \subseteq Mapping /\ \A m \in maps' : m.bus < nextId
  BY <1>4, <1>5a DEF OneClientPerBus, ClientsAre
<1> QED
  BY <1>6, <1>7, <1>9, <1>10

\* An LPAR is deleted: its mappings stay, without a client.
LEMMA OrphanedMaps ==
  ASSUME ServerTyped, ServerSound, NEW l \in lpars, lpars' = lpars \ {l}, gen' = [gen EXCEPT ![l] = @ + 1], UNCHANGED nextId,
         maps' = {IF m.lpar = l THEN [m EXCEPT !.client = FALSE] ELSE m : m \in maps}
  PROVE  ServerSound'
<1> USE DEF ServerSound, ServerTyped
<1> DEFINE f == [m \in maps |-> IF m.lpar = l THEN [m EXCEPT !.client = FALSE] ELSE m]
<1>4. \A m \in maps : /\ f[m] \in Mapping /\ f[m].bus = m.bus /\ f[m].lpar = m.lpar /\ f[m].gen = m.gen
                      /\ (f[m].client <=> m.client /\ m.lpar # l) /\ (f[m].href <=> m.href)
                      /\ m.lpar # l => f[m] = m
  BY ZenonT(60) DEF Mapping
<1>5. maps' = {f[m] : m \in maps} /\ DOMAIN f = maps
  OBVIOUS
<1>5a. \A x \in maps' : \E m \in maps : x = f[m]
  BY <1>5
<1> HIDE DEF f
<1>6. IsFiniteSet(maps') /\ \A b : IsFiniteSet(OnBus(maps', b)) /\ IsFiniteSet(OnBus(maps, b)) /\ Cardinality(OnBus(maps', b)) <= Cardinality(OnBus(maps, b))
  <2> SUFFICES ASSUME NEW b PROVE IsFiniteSet(maps') /\ IsFiniteSet(OnBus(maps', b)) /\ IsFiniteSet(OnBus(maps, b))
                                  /\ Cardinality(OnBus(maps', b)) <= Cardinality(OnBus(maps, b))
    OBVIOUS
  <2> QED
    BY <1>4, <1>5, ReplacedMaps, SMTT(30)
<1>7. WithinFuse(maps')
  <2> SUFFICES ASSUME NEW x \in maps', x.client PROVE Cardinality(OnBus(maps', x.bus)) <= FuseLimit
    BY DEF WithinFuse
  <2>1. \E m \in maps : m.client /\ m.bus = x.bus
    BY <1>4, <1>5a
  <2>2. Cardinality(OnBus(maps, x.bus)) <= FuseLimit
    BY <2>1 DEF WithinFuse
  <2>3. Cardinality(OnBus(maps, x.bus)) \in Nat /\ Cardinality(OnBus(maps', x.bus)) \in Nat
    BY <1>6, FS_CardinalityType
  <2> QED
    BY <1>6, <2>2, <2>3, MappingConstantsOK
<1>8. MappedOnce(maps')
  BY <1>4, <1>5a DEF MappedOnce
<1>9. ClientsAre(maps', lpars', gen')
  BY <1>4, <1>5a DEF ClientsAre
<1>10. OneClientPerBus(maps') /\ maps' \subseteq Mapping /\ \A m \in maps' : m.bus < nextId'
  BY <1>4, <1>5a DEF OneClientPerBus
<1> QED
  BY <1>6, <1>7, <1>8, <1>9, <1>10

\* One element more is at most one more.
LEMMA OneMore ==
  ASSUME NEW S, IsFiniteSet(S), NEW e, NEW n \in Nat, Cardinality(S) < n
  PROVE  Cardinality(S \cup {e}) <= n
<1>1. Cardinality(S) \in Nat
  BY FS_CardinalityType
<1>2. Cardinality(S \cup {e}) = IF e \in S THEN Cardinality(S) ELSE Cardinality(S) + 1
  BY FS_AddElement
<1> QED
  BY <1>1, <1>2

\* add_vscsi_mapping: a new mapping, on a bus of the LPAR that has room or on a new one.
LEMMA AddedMap ==
  ASSUME ServerTyped, ServerSound, UNCHANGED <<lpars, gen>>, NEW t \in Workers, CallOK(req[t]), req[t].op = "add",
         vw[t].maps = maps, ~AlreadyThere(t), Serves(t), nextId' = nextId + 1,
         NEW b \in IF Clonable(t) = {} THEN {nextId} ELSE Clonable(t),
         NEW new, new = [id |-> nextId, lpar |-> req[t].lpar, gen |-> own[t], href |-> TRUE,
                         client |-> TRUE, any |-> FALSE, bus |-> b, stg |-> req[t].stg],
         maps' = maps \cup {new}
  PROVE  ServerSound'
<1> USE DEF ServerSound, ServerTyped
<1>1. req[t].lpar \in Nat /\ own[t] \in Nat /\ own[t] = gen[req[t].lpar] /\ req[t].lpar \in lpars /\ req[t].stg \in Storage
  BY CallsOK DEF CallOK, Serves
<1>2. new \in Mapping /\ new.client /\ new.href /\ new.lpar \in lpars /\ new.gen = gen[new.lpar] /\ new.bus <= nextId /\ new.stg = req[t].stg
      /\ new.bus = b /\ new.lpar = req[t].lpar
  <2>1. b \in Nat /\ b <= nextId
    <3>1. CASE b = nextId
      BY <3>1
    <3>2. CASE b \in Clonable(t)
      <4>1. PICK m0 \in maps : b = m0.bus
        BY <3>2 DEF Clonable, Separated
      <4>2. m0.bus \in Nat
        BY DEF Mapping
      <4> QED
        BY <4>1, <4>2
    <3> QED
      BY <3>1, <3>2
  <2>2. nextId \in Nat
    OBVIOUS
  <2> QED
    BY <1>1, <2>1, <2>2 DEF Mapping
<1>3. /\ \A m \in maps : m.bus = b => m.client /\ m.href /\ m.lpar = new.lpar /\ m.gen = new.gen
      /\ IsFiniteSet(OnBus(maps, b)) /\ Cardinality(OnBus(maps, b)) < FuseLimit
  <2>1. CASE b = nextId
    <3>1. \A m \in maps : m.bus # b
      BY <2>1 DEF Mapping
    <3>2. OnBus(maps, b) = {}
      BY <3>1 DEF OnBus
    <3> QED
      BY <3>1, <3>2, FS_EmptySet, MappingConstantsOK
  <2>2. CASE b \in Clonable(t)
    <3>1. PICK m0 \in Separated(maps, t) : m0.bus = b /\ HasRoom(Separated(maps, t), b)
      BY <2>2 DEF Clonable
    <3>2. m0 \in maps /\ m0.client /\ m0.href /\ m0.lpar = req[t].lpar /\ m0.gen = own[t]
      BY <3>1 DEF Separated, OfClient
    <3>3. \A m \in maps : m.bus = b => m.client /\ m.href /\ m.lpar = req[t].lpar /\ m.gen = own[t]
      BY <3>1, <3>2 DEF OneClientPerBus
    <3>4. OnBus(maps, b) = OnBus(Separated(maps, t), b)
      BY <3>3 DEF OnBus, Separated, OfClient
    <3>5. OnBus(maps, b) \in SUBSET maps
      BY DEF OnBus
    <3> QED
      BY <1>1, <1>2, <3>1, <3>3, <3>4, <3>5, FS_Subset DEF HasRoom
  <2> QED
    BY <2>1, <2>2
<1> HIDE DEF Mapping
<1>4. IsFiniteSet(maps')
  BY FS_AddElement
<1>5. maps' \subseteq Mapping /\ (\A m \in maps' : m.bus < nextId') /\ ClientsAre(maps', lpars, gen)
  <2>1. \A m \in maps : m.bus \in Nat
    BY DEF Mapping
  <2>2. new.bus \in Nat
    BY <1>2 DEF Mapping
  <2>3. \A m \in maps' : m \in maps \/ m = new
    OBVIOUS
  <2>4. \A m \in maps' : m.bus < nextId'
    BY <1>2, <2>1, <2>2, <2>3
  <2>5. ClientsAre(maps', lpars, gen)
    BY <1>2, <2>3 DEF ClientsAre
  <2> QED
    BY <1>2, <2>3, <2>4, <2>5
<1>6. OneClientPerBus(maps')
  BY <1>2, <1>3 DEF OneClientPerBus
<1>7. WithinFuse(maps')
  <2> SUFFICES ASSUME NEW x \in maps', x.client PROVE Cardinality(OnBus(maps', x.bus)) <= FuseLimit
    BY DEF WithinFuse
  <2>1. CASE x.bus = b
    <3>1. OnBus(maps', x.bus) = OnBus(maps, b) \cup {new}
      BY <1>2, <2>1 DEF OnBus
    <3>2. Cardinality(OnBus(maps', x.bus)) <= FuseLimit
      BY <1>3, <3>1, OneMore, MappingConstantsOK
    <3> QED
      BY <3>2
  <2>2. CASE x.bus # b
    <3>1. x \in maps /\ OnBus(maps', x.bus) = OnBus(maps, x.bus)
      BY <1>2, <2>2 DEF OnBus
    <3> QED
      BY <3>1 DEF WithinFuse
  <2> QED
    BY <2>1, <2>2
<1>8. ASSUME NEW m \in maps, m.client, m.lpar = new.lpar, m.stg # NoStorage, m.stg.typ = new.stg.typ, m.stg.name = new.stg.name
      PROVE  FALSE
  <2>1. m.stg \in Storage
    BY <1>8 DEF Mapping
  <2>2. OfClient(m, t, TRUE)
    BY <1>1, <1>2, <1>8 DEF OfClient, ClientsAre
  <2>3. m \in FindMaps(vw[t].maps, t, TRUE, FALSE, {s \in Storage : SameElem(req[t].stg, s)})
    BY <1>2, <1>8, <2>1, <2>2 DEF FindMaps, SameElem
  <2> QED
    BY <2>3 DEF AlreadyThere
<1>9. MappedOnce(maps')
  <2> SUFFICES ASSUME NEW m \in maps', NEW n \in maps', m.client, n.client, m.lpar = n.lpar, m.stg # NoStorage,
                      SameElem(m.stg, n.stg), m # n
               PROVE  FALSE
    BY DEF MappedOnce
  <2>1. CASE m = new
    BY <1>8, <2>1 DEF SameElem
  <2>2. CASE n = new
    BY <1>8, <2>2 DEF SameElem
  <2>3. CASE m \in maps /\ n \in maps
    BY <2>3 DEF MappedOnce
  <2> QED
    BY <2>1, <2>2, <2>3
<1> QED
  BY <1>4, <1>5, <1>6, <1>7, <1>9

\* A thread that does not move stays sound: the etag of the VIOS changes with its mappings.
LEMMA OthersSound ==
  ASSUME ServerTyped, NEW u \in Workers, ThreadSound(u), UNCHANGED <<mpc[u], req[u], vw[u], doomed[u]>>,
         UNCHANGED <<maps, ver>> \/ ver' = ver + 1
  PROVE  ThreadSound(u)'
<1>1. CallFits(u)'
  BY DEF ThreadSound, CallFits
<1>2. CASE UNCHANGED <<maps, ver>>
  <2>1. ViosIsPast(u)'
    BY <1>2 DEF ThreadSound, ViosIsPast, HasVios
  <2>2. ScrubIsSafe(u)'
    BY <1>2 DEF ThreadSound, ScrubIsSafe
  <2> QED
    BY <1>1, <2>1, <2>2 DEF ThreadSound
<1>3. CASE ver' = ver + 1
  <2>1. HasVios(u)' = HasVios(u)
    BY DEF HasVios
  <2>2. HasVios(u) => vw[u].maps \subseteq Mapping /\ vw[u].ver \in Nat /\ vw[u].ver <= ver
    BY DEF ThreadSound, ViosIsPast
  <2>3. HasVios(u) => vw'[u].maps \subseteq Mapping /\ vw'[u].ver \in Nat /\ vw'[u].ver <= ver' /\ vw'[u].ver # ver'
    BY <1>3, <2>2 DEF ServerTyped
  <2>4. ViosIsPast(u)'
    BY <2>1, <2>3 DEF ViosIsPast
  <2>5. mpc'[u] = "scrub" => HasVios(u)
    BY DEF HasVios
  <2>6. ScrubIsSafe(u)'
    BY <2>3, <2>5 DEF ScrubIsSafe
  <2> QED
    BY <1>1, <2>4, <2>6 DEF ThreadSound
<1> QED
  BY <1>2, <1>3

\* What one thread t does, and nobody else.
Only(t) ==
  /\ ThreadsTyped'
  /\ \A u \in Workers \ {t} : UNCHANGED <<mpc[u], req[u], vw[u], doomed[u]>>
  /\ UNCHANGED <<maps, ver>> \/ ver' = ver + 1

\* A step of one thread, the invariant of the others and of the VIOS being kept.
LEMMA ThreadStep ==
  ASSUME MapInv, NEW t \in Workers, Only(t), ServerTyped', ServerSound', ThreadSound(t)', cut' = {}
  PROVE  MapInv'
<1>1. \A u \in Workers \ {t} : ThreadSound(u)'
  BY OthersSound DEF MapInv, Only
<1> QED
  BY <1>1 DEF MapInv, Only

\* ... when the VIOS stays as it is.
LEMMA QuietStep ==
  ASSUME MapInv, NEW t \in Workers, Only(t), UNCHANGED <<srv, lpars, gen, cut>>, ThreadSound(t)'
  PROVE  MapInv'
<1>1. ServerTyped' /\ ServerSound'
  BY FewerMaps DEF MapInv, ServerTyped, srv
<1> QED
  BY <1>1, ThreadStep DEF MapInv

\* A call that ends leaves its thread idle.
LEMMA EndsSound ==
  ASSUME MapInv, NEW t \in Workers, Ends(t), UNCHANGED <<maps, ver>> \/ ver' = ver + 1
  PROVE  Only(t) /\ ThreadSound(t)'
<1>1. mpc'[t] = "idle"
  BY DEF Ends, Goto, MapInv, ThreadsTyped
<1>2. ThreadSound(t)'
  BY <1>1 DEF ThreadSound, CallFits, ViosIsPast, HasVios, ScrubIsSafe
<1>3. ThreadsTyped' /\ \A u \in Workers \ {t} : UNCHANGED <<mpc[u], req[u], vw[u], doomed[u]>>
  BY DEF Ends, Goto, MapInv, ThreadsTyped
<1> QED
  BY <1>2, <1>3 DEF Only

\* Every step of a call, of another client of the VIOS and of the PowerVM host keeps
\* MapInv.
LEMMA MapInvStep == MapInv /\ [MappingNext]_mapVars => MapInv'
<1> SUFFICES ASSUME MapInv, [MappingNext]_mapVars PROVE MapInv'
  OBVIOUS
<1> USE DEF Goto
<1>1. ASSUME NEW t \in Workers, NEW r \in Calls, MapCall(t, r) PROVE MapInv'
  <2>1. Only(t) /\ UNCHANGED <<srv, lpars, gen, cut>>
    BY <1>1 DEF MapCall, Only, MapInv, ThreadsTyped, Snapshot, srv
  <2>2. CallOK(r) /\ req'[t] = r /\ mpc'[t] = IF Locks(r) THEN "lock" ELSE IF Discovers(r) THEN "discover" ELSE "feed"
    BY <1>1, CallsOK DEF MapCall, MapInv, ThreadsTyped
  <2>3. mpc'[t] = "lock" /\ req'[t].wrapper => vw'[t] = [maps |-> maps, ver |-> ver]
    BY <1>1, <2>2 DEF MapCall, Snapshot, MapInv, ThreadsTyped
  <2>4. ThreadSound(t)'
    BY <2>1, <2>2, <2>3 DEF ThreadSound, CallFits, ViosIsPast, HasVios, ScrubIsSafe, MapInv, ServerTyped, ServerSound, srv, Locks, Discovers
  <2> QED
    BY <2>1, <2>4, QuietStep
<1>2. ASSUME NEW t \in Workers, Ends(t), UNCHANGED <<srv, lpars, gen, cut>> PROVE MapInv'
  BY <1>2, EndsSound, QuietStep DEF srv
<1>3. ASSUME NEW t \in Workers, NEW where \in {"get", "feed", "recover", "again", "logout", "storage"},
             mpc[t] # "idle", Locks(req[t]) <=> where = "get", where = "recover" => Discovers(req[t]),
             mpc' = [mpc EXCEPT ![t] = where], UNCHANGED <<req, own, vw, doomed, srv, lpars, gen, cut>>
      PROVE  MapInv'
  <2>1. Only(t)
    BY <1>3 DEF Only, MapInv, ThreadsTyped, srv
  <2>2. ThreadSound(t)'
    BY <1>3 DEF ThreadSound, CallFits, ViosIsPast, HasVios, ScrubIsSafe, MapInv, ThreadsTyped
  <2> QED
    BY <1>3, <2>1, <2>2, QuietStep
<1>4. ASSUME NEW t \in Workers, Acquire(t) PROVE MapInv'
  <2>1. Only(t) /\ UNCHANGED <<srv, lpars, gen, cut>>
    BY <1>4 DEF Acquire, Only, MapInv, ThreadsTyped, srv
  <2>2. mpc[t] = "lock" /\ mpc'[t] = (IF req[t].wrapper THEN "work" ELSE "get") /\ UNCHANGED <<req, vw, doomed, maps, ver>>
    BY <1>4 DEF Acquire, MapInv, ThreadsTyped, srv
  <2>3. ThreadSound(t)'
    BY <2>2 DEF ThreadSound, CallFits, ViosIsPast, HasVios, ScrubIsSafe, MapInv
  <2> QED
    BY <2>1, <2>3, QuietStep
<1>5. ASSUME NEW t \in Workers, Snapshot(t), NEW where \in {"work", "ids", "stale"}, mpc[t] # "idle", Locks(req[t]) <=> where = "work",
             where = "stale" => Discovers(req[t]),
             mpc' = [mpc EXCEPT ![t] = where], UNCHANGED <<req, own, doomed, srv, lpars, gen, cut>>
      PROVE  MapInv'
  <2>1. Only(t)
    BY <1>5 DEF Only, MapInv, ThreadsTyped, srv, Snapshot
  <2>2. vw'[t] = [maps |-> maps, ver |-> ver] /\ mpc'[t] = where
    BY <1>5 DEF Snapshot, MapInv, ThreadsTyped
  <2>3. ThreadSound(t)'
    BY <1>5, <2>2 DEF ThreadSound, CallFits, ViosIsPast, HasVios, ScrubIsSafe, MapInv, ServerTyped, ServerSound, srv
  <2> QED
    BY <1>5, <2>1, <2>3, QuietStep
<1>6. ASSUME NEW t \in Workers, mpc[t] \in {"scrub", "storage", "stale"}, AfterScrub(t), UNCHANGED <<srv, lpars, gen, cut>> PROVE MapInv'
  <2>1. CASE Discovers(req[t])
    <3>1. ~Locks(req[t])
      BY <2>1 DEF Discovers, Locks
    <3> QED
      BY <1>3, <1>6, <2>1, <3>1 DEF AfterScrub
  <2>2. CASE ~Discovers(req[t])
    BY <1>2, <1>6, <2>2 DEF AfterScrub
  <2> QED
    BY <2>1, <2>2
<1>7. ASSUME NEW t \in Workers PROVE mpc[t] # "idle" => (Locks(req[t]) <=> mpc[t] \in {"lock", "get", "work"}) /\ CallOK(req[t])
                                            /\ (mpc[t] \in {"discover", "recover", "stale"} => Discovers(req[t]))
  BY DEF MapInv, ThreadSound, CallFits
<1>8. ASSUME NEW t \in Workers, mpc[t] \in {"work", "ids", "scrub", "stale"}
      PROVE  vw[t].maps \subseteq Mapping /\ vw[t].ver \in Nat /\ vw[t].ver <= ver /\ (vw[t].ver = ver => vw[t].maps = maps)
  BY <1>8 DEF MapInv, ThreadSound, ViosIsPast, HasVios
<1>9. ASSUME NEW t \in Workers, mpc[t] = "work", Ends(t), ver' = ver + 1, nextId' \in Nat, ServerSound', UNCHANGED <<lpars, gen, cut>>
      PROVE  MapInv'
  BY <1>9, EndsSound, ThreadStep DEF MapInv, ServerTyped
<1>10. ASSUME NEW t \in Workers, GetVios(t) \/ ScrubFeed(t) \/ Recover(t) PROVE MapInv'
  BY <1>5, <1>7, <1>10 DEF GetVios, ScrubFeed, Recover
<1>11. ASSUME NEW t \in Workers, Mismatch(t) \/ ScrubAgain(t) PROVE MapInv'
  BY <1>2, <1>3, <1>7, <1>11 DEF Mismatch, ScrubAgain
<1>12. ASSUME NEW t \in Workers, AddNothing(t) \/ Rediscover(t) PROVE MapInv'
  BY <1>2, <1>12 DEF AddNothing, Rediscover
<1>13. ASSUME NEW t \in Workers, AddVscsiMapping(t) PROVE MapInv'
  <2>1. CASE Serves(t)
    <3>1. vw[t].maps = maps /\ mpc[t] = "work" /\ req[t].op = "add" /\ ~AlreadyThere(t) /\ CallOK(req[t])
      BY <1>7, <1>8, <1>13 DEF AddVscsiMapping, Fresh
    <3>2. PICK b \in (IF Clonable(t) = {} THEN {nextId} ELSE Clonable(t)) :
            maps' = vw[t].maps \cup {[id |-> nextId, lpar |-> req[t].lpar, gen |-> own[t], href |-> TRUE,
                                      client |-> TRUE, any |-> FALSE, bus |-> b, stg |-> req[t].stg]}
      BY <1>13, <2>1 DEF AddVscsiMapping, Posted
    <3>3. ver' = ver + 1 /\ nextId' = nextId + 1 /\ Ends(t) /\ UNCHANGED <<lpars, gen, cut>>
      BY <1>13, <2>1 DEF AddVscsiMapping, Posted
    <3>4. ServerSound'
      BY <2>1, <3>1, <3>2, <3>3, AddedMap DEF MapInv
    <3> QED
      BY <1>9, <3>1, <3>3, <3>4 DEF MapInv, ServerTyped
  <2>2. CASE ~Serves(t)
    BY <1>2, <1>13, <2>2 DEF AddVscsiMapping
  <2> QED
    BY <2>1, <2>2
<1>14. ASSUME NEW t \in Workers, RemoveStorageElem(t) PROVE MapInv'
  <2>1. CASE UNCHANGED <<maps, ver>>
    BY <1>2, <1>14, <2>1 DEF RemoveStorageElem, srv
  <2>2. CASE Fresh(t) /\ Posted(vw[t].maps \ Hit(t))
    <3>1. mpc[t] = "work" /\ vw[t].maps = maps /\ Ends(t) /\ ver' = ver + 1 /\ UNCHANGED <<nextId, lpars, gen, cut>>
      BY <1>8, <1>14, <2>2 DEF RemoveStorageElem, Fresh, Posted
    <3>2. ServerSound'
      BY <2>2, <3>1, FewerMaps DEF Posted, MapInv
    <3> QED
      BY <1>9, <3>1, <3>2 DEF MapInv, ServerTyped
  <2> QED
    BY <1>14, <2>1, <2>2 DEF RemoveStorageElem
<1>15. ASSUME NEW t \in Workers, ModifyStorageElem(t) PROVE MapInv'
  <2>1. CASE UNCHANGED <<maps, ver>>
    BY <1>2, <1>15, <2>1 DEF ModifyStorageElem, srv
  <2>2. CASE MayRemap(t) /\ Fresh(t) /\ Posted({IF m \in Hit(t) THEN [m EXCEPT !.stg = req[t].new] ELSE m : m \in vw[t].maps})
    <3>1. /\ mpc[t] = "work" /\ vw[t].maps = maps /\ req[t].op = "remap" /\ CallOK(req[t])
          /\ Ends(t) /\ ver' = ver + 1 /\ UNCHANGED <<nextId, lpars, gen, cut>>
      BY <1>7, <1>8, <1>15, <2>2 DEF ModifyStorageElem, Fresh, Posted
    <3>2. ServerSound'
      BY <2>2, <3>1, RemappedMap DEF Posted, MapInv
    <3> QED
      BY <1>9, <3>1, <3>2 DEF MapInv, ServerTyped
  <2> QED
    BY <1>15, <2>1, <2>2 DEF ModifyStorageElem
<1>16. ASSUME NEW t \in Workers, ScrubIds(t) PROVE MapInv'
  <2>1. Only(t) /\ UNCHANGED <<srv, lpars, gen, cut>>
    BY <1>16 DEF ScrubIds, Only, MapInv, ThreadsTyped, srv
  <2>2. /\ mpc[t] = "ids" /\ mpc'[t] = "scrub" /\ doomed'[t] = ToScrub(req[t], vw[t].maps)
        /\ UNCHANGED <<req, vw, maps, ver>>
    BY <1>16 DEF ScrubIds, FreshIds, MapInv, ThreadsTyped, srv
  <2>3. ~MayCut(req[t]) => doomed'[t] \cap lpars = {}
    <3>1. req[t].op \in {"hdisk", "iscsi"} => ~req[t].exist
      BY <1>7, <2>2 DEF CallOK, Discovery
    <3> QED
      BY <2>2, <3>1 DEF ToScrub, StaleLpars, MayCut
  <2>4. ScrubIsSafe(t)'
    BY <2>2, <2>3 DEF ScrubIsSafe, MayCut, MapInv, ServerSound, ClientsAre
  <2>5. ThreadSound(t)'
    BY <1>7, <1>8, <2>2, <2>4 DEF ThreadSound, CallFits, ViosIsPast, HasVios
  <2> QED
    BY <2>1, <2>5, QuietStep
<1>17. ASSUME NEW t \in Workers, ScrubNothing(t) PROVE MapInv'
  BY <1>6, <1>17 DEF ScrubNothing
<1>18. ASSUME NEW t \in Workers, Scrub(t) PROVE MapInv'
  <2>1. mpc[t] = "scrub" /\ vw[t].maps = maps /\ vw[t].ver = ver /\ ver' = ver + 1 /\ UNCHANGED <<nextId, lpars, gen>>
    BY <1>8, <1>18 DEF Scrub, Fresh, Posted
  <2>2. ServerSound'
    BY <1>18, <2>1, FewerMaps DEF Scrub, Posted, MapInv
  <2>3. ServerTyped'
    BY <2>1 DEF MapInv, ServerTyped
  <2>4. ~MayCut(req[t]) => \A m \in Scrubbed(t) : ~m.client
    BY <2>1 DEF Scrubbed, Orphans, MapInv, ThreadSound, ScrubIsSafe
  <2>5. cut' = {}
    <3>1. CASE MayCut(req[t])
      BY <1>18, <3>1 DEF Scrub, MayCut, MapInv
    <3>2. CASE ~MayCut(req[t])
      <4>1. cut' = cut \cup {m \in Scrubbed(t) : m.client /\ m.lpar \in lpars /\ m.gen = gen[m.lpar]}
        BY <1>18, <3>2 DEF Scrub, MayCut
      <4> QED
        BY <2>4, <3>2, <4>1 DEF MapInv
    <3> QED
      BY <3>1, <3>2
  <2>6. Only(t)
    BY <1>18, <2>1 DEF Scrub, Only, MapInv, ThreadsTyped
  <2>7. ThreadSound(t)'
    BY <1>7, <1>18 DEF Scrub, ThreadSound, CallFits, ViosIsPast, HasVios, ScrubIsSafe, MapInv, ThreadsTyped
  <2> QED
    BY <2>2, <2>3, <2>5, <2>6, <2>7, ThreadStep
<1>19. ASSUME NEW t \in Workers, RemoveStorage(t) PROVE MapInv'
  BY <1>2, <1>6, <1>19 DEF RemoveStorage
<1>20. ASSUME NEW t \in Workers, Discover(t) PROVE MapInv'
  BY <1>2, <1>3, <1>7, <1>20 DEF Discover
<1>21. ASSUME NEW t \in Workers, FindStale(t) PROVE MapInv'
  <2> DEFINE ids == StaleLpars(vw[t].maps)
  <2>1. CASE ids = {}
    BY <1>2, <1>6, <1>21, <2>1 DEF FindStale
  <2>2. CASE ids # {}
    <3>1. /\ mpc[t] = "stale" /\ req' = [req EXCEPT ![t].ids = ids] /\ mpc' = [mpc EXCEPT ![t] = "ids"]
          /\ UNCHANGED <<vw, doomed, own, srv, lpars, gen, cut>>
      BY <1>21, <2>2 DEF FindStale
    <3>2. Only(t)
      BY <3>1 DEF Only, MapInv, ThreadsTyped, srv
    <3>3. ids \subseteq Nat /\ vw[t].maps \subseteq Mapping
      BY <1>8, <3>1, CallsOK DEF StaleLpars, Mapping
    <3>4. req[t] \in Discovery
      BY <1>7, <3>1 DEF Discovers, CallOK
    <3>5. req'[t] = [req[t] EXCEPT !.ids = ids] /\ mpc'[t] = "ids"
      BY <3>1 DEF MapInv, ThreadsTyped
    <3>6. req'[t] \in Discovery
      BY <3>3, <3>4, <3>5 DEF Discovery
    <3>7. CallFits(t)'
      BY <3>5, <3>6 DEF CallFits, CallOK, Discovery, Locks
    <3>8. ViosIsPast(t)'
      BY <1>8, <3>1, <3>5 DEF ViosIsPast, HasVios, srv
    <3>9. ThreadSound(t)'
      BY <3>5, <3>7, <3>8 DEF ThreadSound, ScrubIsSafe
    <3> QED
      BY <3>1, <3>2, <3>9, QuietStep
  <2> QED
    BY <2>1, <2>2
<1>22. ASSUME NEW t \in Workers, RemoveIscsi(t) PROVE MapInv'
  BY <1>2, <1>3, <1>7, <1>22 DEF RemoveIscsi
<1>23. ASSUME NEW l \in LparIds, LparDeleted(l) PROVE MapInv'
  <2>1. ServerSound'
    BY <1>23, OrphanedMaps DEF LparDeleted, Posted, MapInv
  <2>2. ServerTyped' /\ ver' = ver + 1
    BY <1>23 DEF LparDeleted, Posted, MapInv, ServerTyped
  <2>3. \A u \in Workers : ThreadSound(u)'
    BY <1>23, <2>2, OthersSound DEF LparDeleted, MapInv
  <2> QED
    BY <1>23, <2>1, <2>2, <2>3 DEF LparDeleted, MapInv, ThreadsTyped
<1>24. ASSUME NEW l \in LparIds, LparCreated(l) PROVE MapInv'
  <2>1. ServerSound'
    BY <1>24 DEF LparCreated, srv, MapInv, ServerSound, ClientsAre
  <2>2. ServerTyped'
    BY <1>24 DEF LparCreated, srv, MapInv, ServerTyped
  <2>3. \A u \in Workers : ThreadSound(u)'
    BY <1>24, OthersSound DEF LparCreated, srv, MapInv
  <2> QED
    BY <1>24, <2>1, <2>2, <2>3 DEF LparCreated, MapInv, ThreadsTyped
<1>25. CASE UNCHANGED mapVars
  BY <1>25, OthersSound, FewerMaps DEF mapVars, srv, MapInv, ServerTyped, ThreadsTyped
<1> QED
  BY <1>1, <1>4, <1>10, <1>11, <1>12, <1>13, <1>14, <1>15, <1>16, <1>17, <1>18, <1>19, <1>20, <1>21, <1>22, <1>23, <1>24, <1>25
     DEF MappingNext

\* MapInv is an invariant.
LEMMA MapInvariant == MappingSpec => []MapInv
BY MapInitial, MapInvStep, PTL DEF MappingSpec

\* tasks/scsi_mapper.py, tasks/storage.py: for every number of threads and every VIOS, no
\* storage is mapped twice to an LPAR, no bus carries more than the fuse limit and no scrub
\* cuts off a live client: see MappingsAreSound.
THEOREM MappingsSound == MappingSpec => []MappingsAreSound
<1>1. MapInv => MappingsAreSound
  BY DEF MapInv, ServerSound, MappingsAreSound, ScrubSparesLive
<1> QED
  BY <1>1, MapInvariant, PTL

\* A locked call that ends does so on the mappings of the server, or does nothing.
LEMMA CallTouches ==
  ASSUME MapInv, MappingNext, NEW t \in Workers, mpc[t] = "work", mpc'[t] = "idle"
  PROVE  /\ req[t].op = "add" => maps \subseteq maps'
         /\ req[t].op \in {"remove", "remap"} =>
              \A m \in maps \ maps' : m.lpar = req[t].lpar /\ Matches(req[t].crit, m.stg)
<1>1. Mismatch(t) \/ AddNothing(t) \/ AddVscsiMapping(t) \/ RemoveStorageElem(t) \/ ModifyStorageElem(t)
  <2> USE DEF Goto, Ends, MapInv, ThreadsTyped
  <2>1. ASSUME NEW u \in Workers, NEW r \in Calls, MapCall(u, r) PROVE FALSE
    BY <2>1 DEF MapCall
  <2>2. ASSUME NEW u \in Workers, Acquire(u) \/ GetVios(u) \/ ScrubFeed(u) \/ ScrubIds(u) \/ Scrub(u) \/ Recover(u) PROVE FALSE
    BY <2>2 DEF Acquire, GetVios, ScrubFeed, ScrubIds, Scrub, Recover
  <2>3. ASSUME NEW u \in Workers, ScrubNothing(u) \/ ScrubAgain(u) \/ RemoveStorage(u) \/ FindStale(u) PROVE FALSE
    BY <2>3 DEF ScrubNothing, ScrubAgain, RemoveStorage, FindStale, AfterScrub
  <2>4. ASSUME NEW u \in Workers, Discover(u) \/ RemoveIscsi(u) \/ Rediscover(u) PROVE FALSE
    BY <2>4 DEF Discover, RemoveIscsi, Rediscover
  <2>5. ASSUME NEW l \in LparIds, LparDeleted(l) \/ LparCreated(l) PROVE FALSE
    BY <2>5 DEF LparDeleted, LparCreated
  <2>6. ASSUME NEW u \in Workers, u # t, Mismatch(u) \/ AddNothing(u) \/ AddVscsiMapping(u) \/ RemoveStorageElem(u) \/ ModifyStorageElem(u)
        PROVE  FALSE
    BY <2>6 DEF Mismatch, AddNothing, AddVscsiMapping, RemoveStorageElem, ModifyStorageElem
  <2> QED
    BY <2>1, <2>2, <2>3, <2>4, <2>5, <2>6 DEF MappingNext
<1>2. Fresh(t) => vw[t].maps = maps
  BY DEF Fresh, MapInv, ThreadSound, ViosIsPast, HasVios
<1>3. \A m \in Hit(t) : m.lpar = req[t].lpar /\ Matches(req[t].crit, m.stg)
  BY DEF Hit, FindMaps, OfClient
<1>4. CASE maps' = maps
  BY <1>4
<1>5. CASE AddVscsiMapping(t)
  BY <1>2, <1>5 DEF AddVscsiMapping, Posted, srv
<1>6. CASE RemoveStorageElem(t)
  BY <1>2, <1>3, <1>6 DEF RemoveStorageElem, Posted
<1>7. CASE ModifyStorageElem(t)
  BY <1>2, <1>3, <1>7 DEF ModifyStorageElem, Posted
<1> QED
  BY <1>1, <1>4, <1>5, <1>6, <1>7 DEF Mismatch, AddNothing, srv

\* tasks/scsi_mapper.py: a call never changes the mappings of another LPAR or of storage
\* it was not asked for: see TouchesOnlyItsOwn.
THEOREM CallsTouchTheirOwn == MappingSpec => TouchesOnlyItsOwn
<1>1. MapInv /\ [MappingNext]_mapVars =>
        [\A t \in Workers : mpc[t] = "work" /\ mpc'[t] = "idle" =>
           /\ req[t].op = "add" => maps \subseteq maps'
           /\ req[t].op \in {"remove", "remap"} =>
                \A m \in maps \ maps' : m.lpar = req[t].lpar /\ Matches(req[t].crit, m.stg)]_mapVars
  BY CallTouches
<1> QED
  BY <1>1, MapInvariant, PTL DEF MappingSpec, TouchesOnlyItsOwn

-----------------------------------------------------------------------------
(* Sriov.                                                                  *)

\* The ports count their logical ports, and one that backs a vNIC has some.
PortsFit ==
  /\ "ports" \in DOMAIN hw /\ etag \in Nat
  /\ \A l \in DOMAIN hw.ports : {"lps", "label"} \subseteq DOMAIN hw.ports[l] /\ hw.ports[l].lps \in Nat
  /\ \A r \in Labelings : r.loc \in DOMAIN hw.ports
UsedIsCounted == \A l \in DOMAIN hw.ports : Uses(l) => hw.ports[l].lps > 0

\* The System that an agent has fetched is of the past, and with the etag it is the System;
\* who is about to POST a label without force has seen no reason not to, or is too late.
AgentFits(a) ==
  /\ spc[a] # "idle" => sysw[a].etag \in Nat /\ sysw[a].etag <= etag /\ (sysw[a].etag = etag => sysw[a].sys = hw)
  /\ spc[a] \in {"wlock", "vet", "post"} => job[a] \in Labelings
  /\ spc[a] = "post" /\ ~job[a].force /\ sysw[a].etag = etag => Changes(a) /\ ~Warns(a)

SriovInv ==
  /\ PortsFit /\ UsedIsCounted /\ hidden = {}
  /\ DOMAIN spc = Agents /\ DOMAIN job = Agents /\ DOMAIN sysw = Agents
  /\ \A a \in Agents : AgentFits(a)

\* Before the first call SriovInv holds.
LEMMA SriovInitial == SriovInit => SriovInv
BY HardwareOK DEF SriovInit, SriovInv, PortsFit, UsedIsCounted, Uses, AgentFits

\* A step of one agent, after which the System has another etag or is as it was, with its vNICs.
LEMMA AgentStep ==
  ASSUME SriovInv, NEW a \in Agents, PortsFit', UsedIsCounted', hidden' = {}, AgentFits(a)',
         DOMAIN spc' = Agents, DOMAIN job' = Agents, DOMAIN sysw' = Agents,
         \A b \in Agents \ {a} : UNCHANGED <<spc[b], job[b], sysw[b]>>,
         UNCHANGED <<hw, etag, nics>> \/ etag' = etag + 1
  PROVE  SriovInv'
<1>1. ASSUME NEW b \in Agents \ {a} PROVE AgentFits(b)'
  <2>1. AgentFits(b) /\ UNCHANGED <<spc[b], job[b], sysw[b]>> /\ etag \in Nat
    BY DEF SriovInv, PortsFit
  <2>2. CASE UNCHANGED <<hw, etag, nics>>
    BY <2>1, <2>2 DEF AgentFits, Changes, Warns, Uses
  <2>3. CASE etag' = etag + 1
    BY <2>1, <2>3 DEF AgentFits
  <2> QED
    BY <2>2, <2>3
<1> QED
  BY <1>1 DEF SriovInv

\* The System and the vNICs stay as they are.
LEMMA SystemStays ==
  ASSUME SriovInv, UNCHANGED <<hw, etag, nics>>
  PROVE  PortsFit' /\ UsedIsCounted'
BY DEF SriovInv, PortsFit, UsedIsCounted, Uses

\* An agent begins with a fresh System.
LEMMA WantFits ==
  ASSUME SriovInv, NEW a \in Agents, NEW r, WantVnic(a, r) \/ (r \in Labelings /\ WantLabel(a, r))
  PROVE  SriovInv'
<1>1. /\ UNCHANGED <<hw, etag, nics, hidden>> /\ spc'[a] \in {"rlock", "wlock"} /\ (spc'[a] = "wlock" => r \in Labelings)
      /\ job'[a] = r /\ sysw'[a] = [sys |-> hw, etag |-> etag]
      /\ DOMAIN spc' = Agents /\ DOMAIN job' = Agents /\ DOMAIN sysw' = Agents
      /\ \A b \in Agents \ {a} : UNCHANGED <<spc[b], job[b], sysw[b]>>
  BY DEF WantVnic, WantLabel, FetchSystem, SrGoto, SriovInv
<1>2. AgentFits(a)'
  BY <1>1 DEF SriovInv, PortsFit, AgentFits
<1> QED
  BY <1>1, <1>2, SystemStays, AgentStep DEF SriovInv

\* Locks and the choice of ports.
LEMMA QuietFits ==
  ASSUME SriovInv, NEW a \in Agents, NEW to \in {"choose", "create", "vet", "idle"}, SrGoto(a, to),
         spc[a] # "idle", to = "vet" => spc[a] = "wlock", UNCHANGED <<hw, etag, nics, job, sysw, hidden>>
  PROVE  SriovInv'
<1>1. /\ spc'[a] = to /\ DOMAIN spc' = Agents /\ \A b \in Agents \ {a} : UNCHANGED <<spc[b], job[b], sysw[b]>>
      /\ DOMAIN job' = Agents /\ DOMAIN sysw' = Agents
  BY DEF SrGoto, SriovInv
<1>2. AgentFits(a)'
  BY <1>1 DEF SriovInv, AgentFits
<1> QED
  BY <1>1, <1>2, SystemStays, AgentStep DEF SriovInv

\* The POST of a vNIC counts a logical port on every port that backs it.
LEMMA CreateFits ==
  ASSUME SriovInv, NEW a \in Agents, CreateVnic(a)
  PROVE  SriovInv'
<1> DEFINE devs == nicw[a].devs
           ports == Backing(hw.ports, Locs(devs))
<1>1. SrGoto(a, "idle") /\ UNCHANGED <<job, sysw, hidden>> /\ spc[a] = "create"
  BY DEF CreateVnic
<1>2. CASE UNCHANGED <<hw, etag, nics>>
  BY <1>1, <1>2, QuietFits
<1>3. CASE hw' = [hw EXCEPT !.ports = ports] /\ etag' = etag + 1 /\ nics' = nics \cup {devs}
  <2>1. hw'.ports = ports /\ "ports" \in DOMAIN hw'
    BY <1>3 DEF SriovInv, PortsFit
  <2>2. /\ DOMAIN ports = DOMAIN hw.ports
        /\ \A l \in DOMAIN hw.ports : /\ DOMAIN ports[l] = DOMAIN hw.ports[l]
                                      /\ ports[l].lps = IF l \in Locs(devs) THEN hw.ports[l].lps + 1 ELSE hw.ports[l].lps
    BY DEF SriovInv, PortsFit, Backing
  <2> HIDE DEF ports, devs
  <2>3. PortsFit'
    BY <1>3, <2>1, <2>2 DEF SriovInv, PortsFit
  <2>4. \A l : Uses(l)' => Uses(l) \/ l \in Locs(devs)
    BY <1>3 DEF Uses, Locs
  <2>5. UsedIsCounted'
    BY <2>1, <2>2, <2>4 DEF SriovInv, UsedIsCounted, PortsFit
  <2>6. /\ spc'[a] = "idle" /\ DOMAIN spc' = Agents /\ \A b \in Agents \ {a} : UNCHANGED <<spc[b], job[b], sysw[b]>>
        /\ DOMAIN job' = Agents /\ DOMAIN sysw' = Agents
    BY <1>1 DEF SrGoto, SriovInv
  <2>7. AgentFits(a)'
    BY <2>6 DEF AgentFits
  <2> QED
    BY <1>1, <1>3, <2>3, <2>5, <2>6, <2>7, AgentStep DEF SriovInv
<1> QED
  BY <1>2, <1>3 DEF CreateVnic

\* _vet_port_usage looks for vNICs on the ports that would get another label.
LEMMA VetFits ==
  ASSUME SriovInv, NEW a \in Agents, VetPorts(a)
  PROVE  SriovInv'
<1>1. UNCHANGED <<hw, etag, nics, job, sysw, hidden>> /\ spc[a] = "vet"
  BY DEF VetPorts
<1>2. CASE SrGoto(a, "idle")
  BY <1>1, <1>2, QuietFits
<1>3. CASE SrGoto(a, "post") /\ Changes(a) /\ (job[a].force \/ ~Warns(a))
  <2>1. /\ spc'[a] = "post" /\ DOMAIN spc' = Agents /\ \A b \in Agents \ {a} : UNCHANGED <<spc[b], job[b], sysw[b]>>
        /\ DOMAIN job' = Agents /\ DOMAIN sysw' = Agents
    BY <1>1, <1>3 DEF SrGoto, SriovInv
  <2>2. (Changes(a) <=> Changes(a)') /\ (Warns(a) <=> Warns(a)')
    BY <1>1 DEF Changes, Warns, Uses
  <2>3. AgentFits(a)'
    BY <1>1, <1>3, <2>1, <2>2 DEF SriovInv, AgentFits
  <2> QED
    BY <1>1, <2>1, <2>3, SystemStays, AgentStep DEF SriovInv
<1> QED
  BY <1>2, <1>3 DEF VetPorts

\* The POST of the adapters is accepted with the etag of the System.
LEMMA UpdateFits ==
  ASSUME SriovInv, NEW a \in Agents, UpdatePports(a)
  PROVE  SriovInv'
<1> DEFINE l == job[a].loc
           p == hw.ports[l]
<1>1. /\ UNCHANGED <<nics, job>> /\ spc[a] = "post" /\ l \in DOMAIN hw.ports /\ job[a] \in Labelings
      /\ DOMAIN job' = Agents
  BY DEF UpdatePports, SriovInv, AgentFits, PortsFit
<1>2. CASE SystemIsCurrent(a)
  <2>1. /\ hw' = [hw EXCEPT !.ports[l].label = job[a].label] /\ etag' = etag + 1 /\ SrGoto(a, "idle") /\ UNCHANGED sysw
        /\ hidden' = IF ~job[a].force /\ Uses(l) /\ p.label # "" THEN hidden \cup {l} ELSE hidden
    BY <1>2 DEF UpdatePports
  <2>2. sysw[a].sys = hw /\ (~job[a].force => Changes(a) /\ ~Warns(a))
    BY <1>1, <1>2 DEF SriovInv, AgentFits, SystemIsCurrent
  <2>3. Uses(l) => p.lps > 0
    BY <1>1 DEF SriovInv, UsedIsCounted
  <2>4. hidden' = {}
    BY <2>1, <2>2, <2>3 DEF SriovInv, Changes, Warns
  <2>5. /\ "ports" \in DOMAIN hw' /\ DOMAIN hw'.ports = DOMAIN hw.ports
        /\ \A k \in DOMAIN hw.ports : DOMAIN hw'.ports[k] = DOMAIN hw.ports[k] /\ hw'.ports[k].lps = hw.ports[k].lps
    <3>1. /\ "ports" \in DOMAIN hw' /\ hw'.ports = [hw.ports EXCEPT ![l] = [p EXCEPT !.label = job[a].label]]
      BY <1>1, <2>1 DEF SriovInv, PortsFit
    <3>2. DOMAIN [p EXCEPT !.label = job[a].label] = DOMAIN p /\ [p EXCEPT !.label = job[a].label].lps = p.lps
      BY <1>1 DEF SriovInv, PortsFit
    <3> QED
      BY <1>1, <3>1, <3>2
  <2>6. PortsFit' /\ UsedIsCounted'
    <3>1. PortsFit /\ UsedIsCounted /\ etag' = etag + 1 /\ \A k : Uses(k)' <=> Uses(k)
      BY <1>1, <2>1 DEF SriovInv, Uses
    <3> HIDE DEF l, p
    <3>2. PortsFit'
      BY <2>5, <3>1 DEF PortsFit
    <3> QED
      BY <2>5, <3>1, <3>2 DEF UsedIsCounted
  <2>7. /\ spc'[a] = "idle" /\ DOMAIN spc' = Agents /\ \A b \in Agents \ {a} : UNCHANGED <<spc[b], job[b], sysw[b]>>
        /\ DOMAIN sysw' = Agents
    BY <1>1, <2>1 DEF SrGoto, SriovInv
  <2>8. AgentFits(a)'
    BY <2>7 DEF AgentFits
  <2> QED
    BY <1>1, <2>1, <2>4, <2>6, <2>7, <2>8, AgentStep
<1>3. CASE ~SystemIsCurrent(a)
  <2>1. /\ UNCHANGED <<hw, etag, hidden>> /\ spc'[a] = "wlock" /\ sysw'[a] = [sys |-> hw, etag |-> etag]
        /\ DOMAIN spc' = Agents /\ DOMAIN sysw' = Agents
        /\ \A b \in Agents \ {a} : UNCHANGED <<spc[b], job[b], sysw[b]>>
    BY <1>1, <1>3 DEF UpdatePports, FetchSystem, SrGoto, SriovInv
  <2>2. AgentFits(a)'
    BY <1>1, <2>1 DEF AgentFits, SriovInv, PortsFit
  <2> QED
    BY <1>1, <2>1, <2>2, SystemStays, AgentStep DEF SriovInv
<1> QED
  BY <1>2, <1>3

\* Every step of every agent and of the hardware keeps SriovInv.
LEMMA SriovStep == SriovInv /\ [SriovNext]_sriovVars => SriovInv'
<1> SUFFICES ASSUME SriovInv, [SriovNext]_sriovVars PROVE SriovInv'
  OBVIOUS
<1>1. ASSUME NEW a \in Agents, ReadLock(a) \/ SetVnicBackDevs(a) \/ WriteLock(a) PROVE SriovInv'
  BY <1>1, QuietFits DEF ReadLock, SetVnicBackDevs, WriteLock
<1>2. CASE UNCHANGED sriovVars
  BY <1>2, SystemStays DEF sriovVars, SriovInv, AgentFits, Changes, Warns, Uses
<1> QED
  BY <1>1, <1>2, WantFits, CreateFits, VetFits, UpdateFits DEF SriovNext

\* tasks/sriov.py: for every number of agents and ports, no label is changed under a vNIC
\* without force: see LabelsAreSafe.
THEOREM LabelsStay == SriovSpec => []LabelsAreSafe
<1>1. SriovInv => LabelsAreSafe
  BY DEF SriovInv, LabelsAreSafe
<1> QED
  BY <1>1, SriovInitial, SriovStep, PTL DEF SriovSpec
-----------------------------------------------------------------------------
(* Sriov: the distribution of the devices of a vNIC.                        *)

\* A nonempty set of naturals has a least element.
LEMMA LeastNat == ASSUME NEW T \in SUBSET Nat, T # {} PROVE \E x \in T : \A y \in T : x <= y
<1>1. PICK x \in T : \A y \in T : ~(<<y, x>> \in OpToRel(<, Nat))
  BY NatLessThanWellFounded, WFMin
<1>2. \A y \in T : ~(y < x)
  BY <1>1 DEF OpToRel
<1> QED
  BY <1>2

\* What holds of 0, and of every number up to N if it holds of the one before, holds up to N.
LEMMA UpToN ==
  ASSUME NEW N \in Nat, NEW T, 0 \in T, \A n \in 1 .. N : n - 1 \in T => n \in T
  PROVE  \A n \in 0 .. N : n \in T
<1> DEFINE Bad == {n \in 0 .. N : n \notin T}
<1> SUFFICES ASSUME Bad # {} PROVE FALSE
  OBVIOUS
<1>1. PICK m \in Bad : \A y \in Bad : m <= y
  <2>1. Bad \in SUBSET Nat
    OBVIOUS
  <2> QED
    BY <2>1, LeastNat
<1>2. m \in 1 .. N /\ m - 1 \in 0 .. N
  BY <1>1
<1>3. m - 1 \in T
  BY <1>1, <1>2
<1> QED
  BY <1>1, <1>2, <1>3

\* A sequence of N steps from x exists.
Stepped(N, S, x, G, f) ==
  f \in [0 .. N -> S] /\ \A n \in 0 .. N : f[n] = IF n = 0 THEN x ELSE G[<<n, f[n - 1]>>]

\* A recursion over N steps has a solution.
LEMMA StepsExist ==
  ASSUME NEW N \in Nat, NEW S, NEW x \in S, NEW G \in [(1 .. N) \X S -> S]
  PROVE  \E f : Stepped(N, S, x, G, f)
<1> DEFINE By(m, f) == f \in [0 .. m -> S] /\ \A n \in 0 .. m : f[n] = IF n = 0 THEN x ELSE G[<<n, f[n - 1]>>]
           T == {m \in 0 .. N : \E f : By(m, f)}
<1>1. 0 \in T
  <2> DEFINE f == [n \in 0 .. 0 |-> x]
  <2>1. By(0, f)
    OBVIOUS
  <2> HIDE DEF f, By
  <2>2. \E h : By(0, h)
    BY <2>1
  <2> QED
    BY <2>2
<1>2. ASSUME NEW m \in 1 .. N, m - 1 \in T PROVE m \in T
  <2>1. PICK g : By(m - 1, g)
    BY <1>2
  <2> DEFINE y == G[<<m, g[m - 1]>>]
             f == [n \in 0 .. m |-> IF n = m THEN y ELSE g[n]]
  <2>2. m - 1 \in 0 .. m - 1 /\ m # 0
    OBVIOUS
  <2>3. y \in S
    BY <2>1, <2>2
  <2>4. f \in [0 .. m -> S]
    BY <2>1, <2>3
  <2>5. ASSUME NEW n \in 0 .. m PROVE f[n] = IF n = 0 THEN x ELSE G[<<n, f[n - 1]>>]
    <3>1. CASE n = m
      <4>1. f[n] = y /\ f[n - 1] = g[m - 1]
        BY <3>1
      <4>2. n # 0 /\ y = G[<<n, g[m - 1]>>]
        BY <3>1, <2>2
      <4> HIDE DEF f, y
      <4>3. f[n] = G[<<n, f[n - 1]>>]
        BY <4>1, <4>2
      <4> QED
        BY <4>2, <4>3
    <3>2. CASE n = 0
      <4>1. 0 \in 0 .. m - 1 /\ 0 # m
        BY <2>2
      <4>2. f[0] = g[0]
        BY <4>1
      <4>3. g[0] = x
        BY <2>1, <4>1
      <4> HIDE DEF f
      <4> QED
        BY <3>2, <4>2, <4>3
    <3>3. CASE n # 0 /\ n # m
      <4>1. n \in 0 .. m - 1 /\ n - 1 \in 0 .. m - 1
        BY <3>3
      <4>2. f[n] = g[n] /\ f[n - 1] = g[n - 1]
        BY <3>3, <4>1
      <4>3. g[n] = G[<<n, g[n - 1]>>]
        BY <3>3, <4>1, <2>1
      <4> QED
        BY <3>3, <4>2, <4>3
    <3> QED
      BY <3>1, <3>2, <3>3
  <2> HIDE DEF f
  <2>6. By(m, f)
    BY <2>4, <2>5
  <2> HIDE DEF By
  <2>7. \E h : By(m, h)
    BY <2>6
  <2> QED
    BY <2>7
<1>3. N \in T
  <2> HIDE DEF T
  <2> QED
    BY <1>1, <1>2, UpToN
<1>4. PICK f : By(N, f)
  BY <1>3
<1>5. Stepped(N, S, x, G, f)
  BY <1>4 DEF Stepped
<1> QED
  BY <1>5

\* What the choice of ports needs to know of a System.
GoodSystem(s) ==
  /\ DOMAIN s.ports \subseteq Nat /\ IsFiniteSet(DOMAIN s.ports) /\ IsFiniteSet(s.vioses)
  /\ \A l \in DOMAIN s.ports : s.ports[l].alloc \in Nat

\* The number of ports in use on a card.
LEMMA CardUsesType ==
  ASSUME NEW s, NEW st, IsFiniteSet(st.here), NEW c
  PROVE  CardUses(s, st, c) \in Nat
<1>1. IsFiniteSet({l \in st.here : s.ports[l].card = c})
  BY FS_Subset
<1> QED
  BY <1>1, FS_CardinalityType DEF CardUses

\* The port that is chosen is one of those that are left, on a card that is used least.
LEMMA NextPortIs ==
  ASSUME NEW s, GoodSystem(s), NEW st, st.left \subseteq DOMAIN s.ports, st.left # {}, IsFiniteSet(st.here)
  PROVE  NextPort(s, st) \in st.left /\ OnLeastUsedCard(s, st, NextPort(s, st))
<1> DEFINE Hits(l) == CardUses(s, st, s.ports[l].card)
           cand == {l \in st.left : OnLeastUsedCard(s, st, l)}
           Best(l) == \A k \in cand : s.ports[l].alloc < s.ports[k].alloc \/ (s.ports[l].alloc = s.ports[k].alloc /\ l <= k)
<1>1. \A l \in st.left : Hits(l) \in Nat
  BY CardUsesType
<1>2. PICK x \in st.left : \A y \in st.left : Hits(x) <= Hits(y)
  <2> DEFINE T == {Hits(l) : l \in st.left}
  <2>1. T \in SUBSET Nat /\ T # {}
    BY <1>1
  <2>2. PICK t \in T : \A y \in T : t <= y
    <3> HIDE DEF T
    <3> QED
      BY <2>1, LeastNat
  <2> QED
    BY <2>2
<1>3. x \in cand
  BY <1>2 DEF OnLeastUsedCard
<1>4. PICK y \in cand : \A k \in cand : s.ports[y].alloc <= s.ports[k].alloc
  <2> DEFINE T == {s.ports[l].alloc : l \in cand}
  <2>1. T \in SUBSET Nat /\ T # {}
    BY <1>3 DEF GoodSystem
  <2>2. PICK t \in T : \A k \in T : t <= k
    <3> HIDE DEF T
    <3> QED
      BY <2>1, LeastNat
  <2> QED
    BY <2>2
<1>5. PICK z \in cand : s.ports[z].alloc = s.ports[y].alloc /\ \A k \in cand : s.ports[k].alloc = s.ports[y].alloc => z <= k
  <2> DEFINE T == {l \in cand : s.ports[l].alloc = s.ports[y].alloc}
  <2>1. T \in SUBSET Nat /\ T # {}
    BY <1>4 DEF GoodSystem
  <2>2. PICK t \in T : \A k \in T : t <= k
    <3> HIDE DEF T
    <3> QED
      BY <2>1, LeastNat
  <2> QED
    BY <2>2
<1>6. Best(z)
  <2> SUFFICES ASSUME NEW k \in cand PROVE s.ports[z].alloc < s.ports[k].alloc \/ (s.ports[z].alloc = s.ports[k].alloc /\ z <= k)
    OBVIOUS
  <2>1. s.ports[y].alloc \in Nat /\ s.ports[k].alloc \in Nat
    BY DEF GoodSystem
  <2> QED
    BY <1>4, <1>5, <2>1
<1>7. NextPort(s, st) = CHOOSE l \in cand : Best(l)
  BY DEF NextPort
<1> HIDE DEF Best
<1>8. NextPort(s, st) \in cand
  BY <1>6, <1>7
<1> QED
  BY <1>8

\* The VIOS after the last one is the first.
LEMMA TakesTurns ==
  ASSUME NEW n \in Nat \ {0}, NEW i \in 0 .. n - 1
  PROVE  (i + 1) % n = IF i + 1 = n THEN 0 ELSE i + 1
<1>1. CASE i + 1 = n
  BY <1>1
<1>2. CASE i + 1 < n
  BY <1>2
<1> QED
  BY <1>1, <1>2

\* A choice that is under way.
Devs(vs, good) == [vios : {vs[i] : i \in 1 .. Len(vs)}, loc : good]
ConfigsSoFar(vs, good) == [devs : Seq(Devs(vs, good)), left : SUBSET good, here : SUBSET good, idx : 0 .. Len(vs) - 1]

\* One device more.
LEMMA DevAdded ==
  ASSUME NEW s, GoodSystem(s), NEW V, NEW vs \in Seq(V), vs # <<>>, NEW good \in SUBSET DOMAIN s.ports,
         NEW st \in ConfigsSoFar(vs, good), st.left # {}
  PROVE  LET l == NextPort(s, st)
             new == AddDev(s, vs, st)
         IN /\ new \in ConfigsSoFar(vs, good) /\ l \in st.left /\ OnLeastUsedCard(s, st, l)
            /\ new.devs = Append(st.devs, [vios |-> vs[st.idx + 1], loc |-> l])
            /\ new.left = st.left \ {l} /\ new.here = st.here \cup {l}
            /\ new.idx = IF st.idx + 1 = Len(vs) THEN 0 ELSE st.idx + 1
<1> DEFINE l == NextPort(s, st)
           new == AddDev(s, vs, st)
<1>1. /\ st.devs \in Seq(Devs(vs, good)) /\ st.left \subseteq good /\ st.here \subseteq good
      /\ st.idx \in 0 .. Len(vs) - 1 /\ Len(vs) \in Nat \ {0}
  BY DEF ConfigsSoFar
<1>2. IsFiniteSet(st.here)
  BY <1>1, FS_Subset DEF GoodSystem
<1>3. l \in st.left /\ OnLeastUsedCard(s, st, l)
  BY <1>1, <1>2, NextPortIs
<1>4. new = [devs |-> Append(st.devs, [vios |-> vs[st.idx + 1], loc |-> l]),
             left |-> st.left \ {l}, here |-> st.here \cup {l}, idx |-> (st.idx + 1) % Len(vs)]
  BY DEF AddDev
<1>5. (st.idx + 1) % Len(vs) = IF st.idx + 1 = Len(vs) THEN 0 ELSE st.idx + 1
  BY <1>1, TakesTurns
<1> HIDE DEF l, new
<1>6. [vios |-> vs[st.idx + 1], loc |-> l] \in Devs(vs, good)
  <2>1. st.idx + 1 \in 1 .. Len(vs) /\ l \in good
    BY <1>1, <1>3
  <2> QED
    BY <2>1 DEF Devs
<1>7. Append(st.devs, [vios |-> vs[st.idx + 1], loc |-> l]) \in Seq(Devs(vs, good))
  BY <1>1, <1>6
<1>8. (st.idx + 1) % Len(vs) \in 0 .. Len(vs) - 1
  BY <1>1, <1>5
<1>9. st.left \ {l} \in SUBSET good /\ st.here \cup {l} \in SUBSET good
  BY <1>1, <1>3
<1>10. new \in ConfigsSoFar(vs, good)
  BY <1>4, <1>7, <1>8, <1>9 DEF ConfigsSoFar
<1> QED
  BY <1>3, <1>4, <1>5, <1>10 DEF l, new

\* The choice of n devices out of the ports good, one by one.
NoDevs(good) == [devs |-> <<>>, left |-> good, here |-> {}, idx |-> 0]
Rotates(s, vs, good, n, f) ==
  /\ f \in [0 .. n -> ConfigsSoFar(vs, good)] /\ f[0] = NoDevs(good)
  /\ \A i \in 1 .. n : f[i] = IF f[i - 1].left = {} THEN f[i - 1] ELSE AddDev(s, vs, f[i - 1])

IsRotation(s, vs, good, n, f) ==
  f = [i \in 0 .. n |-> IF i = 0 THEN NoDevs(good)
                        ELSE IF f[i - 1].left = {} THEN f[i - 1] ELSE AddDev(s, vs, f[i - 1])]

\* PportsConfig is what its recursion says.
LEMMA ConfigBySteps ==
  ASSUME NEW s, GoodSystem(s), NEW V, NEW vs \in Seq(V), vs # <<>>, NEW good \in SUBSET DOMAIN s.ports, NEW n \in Nat
  PROVE  \E f : Rotates(s, vs, good, n, f) /\ PportsConfig(s, vs, <<>>, good, 0, n) = f[n].devs
<1> DEFINE S == ConfigsSoFar(vs, good)
           Next1(st) == IF st.left = {} THEN st ELSE AddDev(s, vs, st)
           G == [p \in (1 .. n) \X S |-> Next1(p[2])]
           zero == NoDevs(good)
           h == CHOOSE f : IsRotation(s, vs, good, n, f)
<1>1. zero \in S
  <2>1. Len(vs) \in Nat \ {0} /\ <<>> \in Seq(Devs(vs, good))
    OBVIOUS
  <2> QED
    BY <2>1 DEF NoDevs, ConfigsSoFar
<1>2. \A st \in S : Next1(st) \in S
  BY DevAdded
<1>3. G \in [(1 .. n) \X S -> S]
  <2> HIDE DEF S, Next1
  <2>1. ASSUME NEW p \in (1 .. n) \X S PROVE Next1(p[2]) \in S
    BY <1>2
  <2> QED
    BY <2>1
<1>4. ASSUME NEW i \in 1 .. n, NEW st \in S PROVE G[<<i, st>>] = Next1(st)
  <2> HIDE DEF S, Next1
  <2> QED
    OBVIOUS
<1> HIDE DEF G, S, zero, Next1
<1>5. PICK f : Stepped(n, S, zero, G, f)
  BY <1>1, <1>3, StepsExist
<1>6. f \in [0 .. n -> S] /\ \A i \in 0 .. n : f[i] = IF i = 0 THEN zero ELSE G[<<i, f[i - 1]>>]
  BY <1>5 DEF Stepped
<1>7. ASSUME NEW i \in 0 .. n PROVE f[i] = IF i = 0 THEN zero ELSE Next1(f[i - 1])
  <2>1. CASE i = 0
    BY <1>6, <2>1
  <2>2. CASE i # 0
    <3>1. i \in 1 .. n /\ i - 1 \in 0 .. n
      BY <2>2
    <3>2. f[i - 1] \in S
      BY <1>6, <3>1
    <3> QED
      BY <1>4, <1>6, <2>2, <3>1, <3>2
  <2> QED
    BY <2>1, <2>2
<1>8. IsRotation(s, vs, good, n, f)
  <2>1. f = [i \in 0 .. n |-> f[i]]
    BY <1>6
  <2> QED
    BY <1>7, <2>1 DEF IsRotation, zero, Next1
<1>9. IsRotation(s, vs, good, n, h)
  BY <1>8
<1>10. PportsConfig(s, vs, <<>>, good, 0, n) = h[n].devs
  BY DEF PportsConfig, IsRotation, NoDevs
<1> HIDE DEF h
<1>11. \A i \in 0 .. n : h[i] = IF i = 0 THEN zero ELSE Next1(h[i - 1])
  BY <1>9 DEF IsRotation, zero, Next1
<1> DEFINE T == {i \in 0 .. n : h[i] = f[i]}
<1>12. 0 \in T
  <2>1. 0 \in 0 .. n
    OBVIOUS
  <2>2. h[0] = zero /\ f[0] = zero
    BY <1>7, <1>11, <2>1
  <2> QED
    BY <2>1, <2>2
<1>13. ASSUME NEW i \in 1 .. n, i - 1 \in T PROVE i \in T
  <2>1. i \in 0 .. n /\ i # 0 /\ h[i - 1] = f[i - 1]
    BY <1>13
  <2> QED
    BY <1>7, <1>11, <2>1
<1>14. h[n] = f[n]
  <2> HIDE DEF T
  <2>1. \A i \in 0 .. n : i \in T
    BY <1>12, <1>13, UpToN
  <2> QED
    BY <2>1 DEF T
<1>15. Rotates(s, vs, good, n, f)
  <2>1. f \in [0 .. n -> ConfigsSoFar(vs, good)]
    BY <1>6 DEF S
  <2>2. f[0] = NoDevs(good)
    BY <1>7 DEF zero
  <2>3. ASSUME NEW i \in 1 .. n PROVE f[i] = IF f[i - 1].left = {} THEN f[i - 1] ELSE AddDev(s, vs, f[i - 1])
    <3>1. i \in 0 .. n /\ i # 0
      OBVIOUS
    <3> QED
      BY <1>7, <3>1 DEF Next1
  <2> QED
    BY <2>1, <2>2, <2>3 DEF Rotates
<1> QED
  BY <1>10, <1>14, <1>15

\* A device more on a VIOS, or not.
LEMMA OnViosAppended ==
  ASSUME NEW D, NEW devs \in Seq(D), NEW d, NEW v,
         IsFiniteSet({i \in DOMAIN devs : devs[i].vios = v})
  PROVE  /\ IsFiniteSet({i \in DOMAIN Append(devs, d) : Append(devs, d)[i].vios = v})
         /\ OnVios(devs, v) \in Nat
         /\ OnVios(Append(devs, d), v) = IF d.vios = v THEN OnVios(devs, v) + 1 ELSE OnVios(devs, v)
<1> DEFINE all == Append(devs, d)
           n == Len(devs)
           old == {i \in DOMAIN devs : devs[i].vios = v}
           now == {i \in DOMAIN all : all[i].vios = v}
<1>1. n \in Nat /\ DOMAIN devs = 1 .. n /\ DOMAIN all = 1 .. n + 1 /\ all[n + 1] = d /\ \A i \in 1 .. n : all[i] = devs[i]
  OBVIOUS
<1> HIDE DEF all, n
<1>2. now = IF d.vios = v THEN old \cup {n + 1} ELSE old
  BY <1>1
<1>3. n + 1 \notin old
  BY <1>1
<1>4. IsFiniteSet(old) /\ Cardinality(old) \in Nat
  BY FS_CardinalityType
<1> HIDE DEF old, now
<1>5. IsFiniteSet(now) /\ Cardinality(now) = IF d.vios = v THEN Cardinality(old) + 1 ELSE Cardinality(old)
  BY <1>2, <1>3, <1>4, FS_AddElement
<1> QED
  BY <1>4, <1>5 DEF OnVios, old, now, all

\* The devices so far are as many as asked for, on ports of their own; a card with ports left
\* is used no less than another, but for one device; the VIOSes up to idx have one more.
PortsOnce(good, st, n) ==
  /\ Len(st.devs) = n /\ Locs(st.devs) = st.here /\ Cardinality(st.here) = n /\ st.left = good \ st.here
CardsFair(s, st) == \A c : \A l \in st.left : CardUses(s, st, c) <= CardUses(s, st, s.ports[l].card) + 1
ViosesFair(vs, st) ==
  /\ \A p \in 1 .. Len(vs) : IsFiniteSet({i \in DOMAIN st.devs : st.devs[i].vios = vs[p]})
  /\ \E q \in Nat : \A p \in 1 .. Len(vs) : OnVios(st.devs, vs[p]) = IF p <= st.idx THEN q + 1 ELSE q
Fair(s, vs, good, st, n) == st \in ConfigsSoFar(vs, good) /\ PortsOnce(good, st, n) /\ CardsFair(s, st) /\ ViosesFair(vs, st)

\* The ports of the devices.
LEMMA LocsAppended ==
  ASSUME NEW D, NEW devs \in Seq(D), NEW d
  PROVE  Locs(Append(devs, d)) = Locs(devs) \cup {d.loc}
<1> DEFINE all == Append(devs, d)
           n == Len(devs)
<1>1. n \in Nat /\ DOMAIN devs = 1 .. n /\ DOMAIN all = 1 .. n + 1 /\ all[n + 1] = d /\ \A i \in 1 .. n : all[i] = devs[i]
  OBVIOUS
<1> HIDE DEF all, n
<1>2. ASSUME NEW x \in Locs(all) PROVE x \in Locs(devs) \cup {d.loc}
  <2>1. PICK i \in 1 .. n + 1 : x = all[i].loc
    BY <1>1 DEF Locs
  <2>2. CASE i = n + 1
    BY <1>1, <2>1, <2>2
  <2>3. CASE i # n + 1
    BY <1>1, <2>1, <2>3 DEF Locs
  <2> QED
    BY <2>2, <2>3
<1>3. ASSUME NEW x \in Locs(devs) PROVE x \in Locs(all)
  <2>1. PICK i \in 1 .. n : x = devs[i].loc
    BY <1>1 DEF Locs
  <2>2. i \in DOMAIN all /\ all[i] = devs[i]
    BY <1>1, <2>1
  <2> QED
    BY <2>1, <2>2 DEF Locs
<1>4. d.loc \in Locs(all)
  <2>1. n + 1 \in DOMAIN all /\ all[n + 1] = d
    BY <1>1
  <2> QED
    BY <2>1 DEF Locs
<1>5. Locs(all) = Locs(devs) \cup {d.loc}
  BY <1>2, <1>3, <1>4
<1> QED
  BY <1>5 DEF all

\* A port more in use on its card.
LEMMA CardUsesMore ==
  ASSUME NEW s, NEW st, NEW new, IsFiniteSet(st.here), NEW l, l \notin st.here, new.here = st.here \cup {l}, NEW c
  PROVE  CardUses(s, new, c) = IF s.ports[l].card = c THEN CardUses(s, st, c) + 1 ELSE CardUses(s, st, c)
<1> DEFINE old == {k \in st.here : s.ports[k].card = c}
           now == {k \in new.here : s.ports[k].card = c}
<1>1. IsFiniteSet(old) /\ Cardinality(old) \in Nat
  BY FS_Subset, FS_CardinalityType
<1>2. now = (IF s.ports[l].card = c THEN old \cup {l} ELSE old) /\ l \notin old
  OBVIOUS
<1> HIDE DEF old, now
<1>3. Cardinality(now) = IF s.ports[l].card = c THEN Cardinality(old) + 1 ELSE Cardinality(old)
  BY <1>1, <1>2, FS_AddElement
<1> QED
  BY <1>3 DEF CardUses, old, now

\* No VIOS comes twice in the order.
Distinct(vs) == \A i, j \in 1 .. Len(vs) : vs[i] = vs[j] => i = j

\* A device more leaves the choice as fair as it was.
LEMMA StaysFair ==
  ASSUME NEW s, GoodSystem(s), NEW V, NEW vs \in Seq(V), vs # <<>>, NEW good \in SUBSET DOMAIN s.ports,
         Distinct(vs),
         NEW n \in Nat, NEW st, Fair(s, vs, good, st, n), st.left # {}
  PROVE  Fair(s, vs, good, AddDev(s, vs, st), n + 1)
<1> DEFINE new == AddDev(s, vs, st)
           l == NextPort(s, st)
           d == [vios |-> vs[st.idx + 1], loc |-> l]
           L == Len(vs)
<1>1. /\ st \in ConfigsSoFar(vs, good) /\ st.devs \in Seq(Devs(vs, good)) /\ st.here \subseteq good /\ st.idx \in 0 .. L - 1
      /\ L \in Nat \ {0}
  BY DEF Fair, ConfigsSoFar
<1>2. /\ new \in ConfigsSoFar(vs, good) /\ l \in st.left /\ OnLeastUsedCard(s, st, l)
      /\ new.devs = Append(st.devs, d) /\ new.left = st.left \ {l} /\ new.here = st.here \cup {l}
      /\ new.idx = IF st.idx + 1 = L THEN 0 ELSE st.idx + 1
  BY <1>1, DevAdded
<1>3. IsFiniteSet(st.here)
  BY <1>1, FS_Subset DEF GoodSystem
<1>4. d.loc = l /\ d.vios = vs[st.idx + 1]
  OBVIOUS
<1> HIDE DEF new, l, d
<1>5. PortsOnce(good, new, n + 1)
  <2>1. Len(st.devs) = n /\ Locs(st.devs) = st.here /\ Cardinality(st.here) = n /\ st.left = good \ st.here
    BY DEF Fair, PortsOnce
  <2>2. Len(new.devs) = n + 1
    BY <1>1, <1>2, <2>1
  <2>3. Locs(new.devs) = new.here
    BY <1>1, <1>2, <1>4, <2>1, LocsAppended
  <2>4. Cardinality(new.here) = n + 1
    BY <1>2, <1>3, <2>1, FS_AddElement
  <2>5. new.left = good \ new.here
    BY <1>2, <2>1
  <2> QED
    BY <2>2, <2>3, <2>4, <2>5 DEF PortsOnce
<1>6. CardsFair(s, new)
  <2> SUFFICES ASSUME NEW c, NEW k \in new.left
               PROVE  CardUses(s, new, c) <= CardUses(s, new, s.ports[k].card) + 1
    BY DEF CardsFair
  <2>1. k \in st.left /\ l \notin st.here
    BY <1>2 DEF Fair, PortsOnce
  <2>2. ASSUME NEW x
        PROVE  CardUses(s, new, x) = IF s.ports[l].card = x THEN CardUses(s, st, x) + 1 ELSE CardUses(s, st, x)
    <3>1. l \notin st.here /\ new.here = st.here \cup {l}
      BY <1>2, <2>1
    <3> QED
      BY <1>3, <3>1, CardUsesMore
  <2>3. CardUses(s, st, c) \in Nat /\ CardUses(s, st, s.ports[k].card) \in Nat
    BY <1>3, CardUsesType
  <2>4. CardUses(s, st, c) <= CardUses(s, st, s.ports[k].card) + 1
    BY <2>1 DEF Fair, CardsFair
  <2>5. CardUses(s, st, s.ports[l].card) <= CardUses(s, st, s.ports[k].card)
    BY <1>2, <2>1 DEF OnLeastUsedCard
  <2> QED
    BY <2>2, <2>3, <2>4, <2>5
<1>7. ViosesFair(vs, new)
  <2>1. PICK q \in Nat : \A p \in 1 .. L : OnVios(st.devs, vs[p]) = IF p <= st.idx THEN q + 1 ELSE q
    BY DEF Fair, ViosesFair
  <2>2. ASSUME NEW p \in 1 .. L
        PROVE  /\ IsFiniteSet({i \in DOMAIN new.devs : new.devs[i].vios = vs[p]})
               /\ OnVios(new.devs, vs[p]) = IF p <= st.idx + 1 THEN q + 1 ELSE q
    <3>1. IsFiniteSet({i \in DOMAIN st.devs : st.devs[i].vios = vs[p]})
      BY DEF Fair, ViosesFair
    <3>2. /\ IsFiniteSet({i \in DOMAIN Append(st.devs, d) : Append(st.devs, d)[i].vios = vs[p]})
          /\ OnVios(st.devs, vs[p]) \in Nat
          /\ OnVios(Append(st.devs, d), vs[p]) = IF d.vios = vs[p] THEN OnVios(st.devs, vs[p]) + 1 ELSE OnVios(st.devs, vs[p])
      BY <1>1, <3>1, OnViosAppended
    <3>3. /\ IsFiniteSet({i \in DOMAIN new.devs : new.devs[i].vios = vs[p]})
          /\ OnVios(st.devs, vs[p]) \in Nat
          /\ OnVios(new.devs, vs[p]) = IF d.vios = vs[p] THEN OnVios(st.devs, vs[p]) + 1 ELSE OnVios(st.devs, vs[p])
      BY <1>2, <3>2
    <3>4. d.vios = vs[p] <=> p = st.idx + 1
      <4>1. st.idx + 1 \in 1 .. L
        BY <1>1
      <4> QED
        BY <1>4, <4>1 DEF Distinct
    <3> QED
      BY <1>1, <2>1, <3>3, <3>4
  <2>3. CASE st.idx + 1 = L
    <3>1. q + 1 \in Nat /\ \A p \in 1 .. L : OnVios(new.devs, vs[p]) = IF p <= new.idx THEN q + 1 + 1 ELSE q + 1
      <4> SUFFICES ASSUME NEW p \in 1 .. L PROVE OnVios(new.devs, vs[p]) = IF p <= new.idx THEN q + 1 + 1 ELSE q + 1
        OBVIOUS
      <4>1. p <= st.idx + 1 /\ new.idx = 0 /\ ~(p <= 0)
        BY <1>1, <1>2, <2>3
      <4>2. OnVios(new.devs, vs[p]) = IF p <= st.idx + 1 THEN q + 1 ELSE q
        BY <2>2
      <4> QED
        BY <4>1, <4>2
    <3> QED
      BY <2>2, <3>1 DEF ViosesFair
  <2>4. CASE st.idx + 1 # L
    <3>1. \A p \in 1 .. L : OnVios(new.devs, vs[p]) = IF p <= new.idx THEN q + 1 ELSE q
      BY <1>1, <1>2, <2>2, <2>4
    <3> QED
      BY <2>2, <3>1 DEF ViosesFair
  <2> QED
    BY <2>3, <2>4
<1>8. Fair(s, vs, good, new, n + 1)
  BY <1>2, <1>5, <1>6, <1>7 DEF Fair
<1> QED
  BY <1>8 DEF new

\* At first nothing is chosen.
LEMMA FairAtFirst ==
  ASSUME NEW s, GoodSystem(s), NEW V, NEW vs \in Seq(V), vs # <<>>, NEW good
  PROVE  Fair(s, vs, good, NoDevs(good), 0)
<1> DEFINE st == NoDevs(good)
<1>1. st.devs = <<>> /\ st.left = good /\ st.here = {} /\ st.idx = 0
  BY DEF NoDevs
<1>2. Len(vs) \in Nat \ {0} /\ DOMAIN <<>> = {} /\ Len(<<>>) = 0 /\ <<>> \in Seq(Devs(vs, good))
  OBVIOUS
<1>3. st \in ConfigsSoFar(vs, good)
  BY <1>2 DEF NoDevs, ConfigsSoFar
<1> HIDE DEF st
<1>4. PortsOnce(good, st, 0)
  BY <1>1, <1>2, FS_EmptySet DEF PortsOnce, Locs
<1>5. \A c : CardUses(s, st, c) = 0
  <2>1. \A c : {l \in st.here : s.ports[l].card = c} = {}
    BY <1>1
  <2> QED
    BY <2>1, FS_EmptySet DEF CardUses
<1>6. CardsFair(s, st)
  BY <1>5 DEF CardsFair
<1>7. \A v : {i \in DOMAIN st.devs : st.devs[i].vios = v} = {}
  BY <1>1, <1>2
<1>8. \A v : OnVios(st.devs, v) = 0
  BY <1>7, FS_EmptySet DEF OnVios
<1>9. ViosesFair(vs, st)
  <2>1. \A p \in 1 .. Len(vs) : IsFiniteSet({i \in DOMAIN st.devs : st.devs[i].vios = vs[p]})
    BY <1>7, FS_EmptySet
  <2>2. \A p \in 1 .. Len(vs) : OnVios(st.devs, vs[p]) = IF p <= st.idx THEN 0 + 1 ELSE 0
    BY <1>1, <1>2, <1>8
  <2> QED
    BY <2>1, <2>2 DEF ViosesFair
<1> QED
  BY <1>3, <1>4, <1>6, <1>9 DEF Fair, st

\* As many devices as there are ports for are chosen fairly.
LEMMA ConfigIsFair ==
  ASSUME NEW s, GoodSystem(s), NEW V, NEW vs \in Seq(V), vs # <<>>, NEW good \in SUBSET DOMAIN s.ports,
         Distinct(vs),
         NEW n \in Nat, n <= Cardinality(good)
  PROVE  \E st : Fair(s, vs, good, st, n) /\ PportsConfig(s, vs, <<>>, good, 0, n) = st.devs
<1>1. PICK f : Rotates(s, vs, good, n, f) /\ PportsConfig(s, vs, <<>>, good, 0, n) = f[n].devs
  BY ConfigBySteps
<1> DEFINE T == {i \in 0 .. n : Fair(s, vs, good, f[i], i)}
<1>2. 0 \in T
  <2>1. f[0] = NoDevs(good)
    BY <1>1 DEF Rotates
  <2> QED
    BY <2>1, FairAtFirst
<1>3. ASSUME NEW i \in 1 .. n, i - 1 \in T PROVE i \in T
  <2>1. Fair(s, vs, good, f[i - 1], i - 1) /\ i - 1 \in Nat /\ i - 1 + 1 = i
    BY <1>3
  <2>2. f[i - 1].left # {}
    <3> SUFFICES ASSUME f[i - 1].left = {} PROVE FALSE
      OBVIOUS
    <3>1. f[i - 1].here \subseteq good /\ Cardinality(f[i - 1].here) = i - 1 /\ f[i - 1].left = good \ f[i - 1].here
      BY <2>1 DEF Fair, ConfigsSoFar, PortsOnce
    <3>2. f[i - 1].here = good
      BY <3>1
    <3>3. Cardinality(good) = i - 1
      BY <3>1, <3>2
    <3> QED
      BY <3>3
  <2>3. f[i] = AddDev(s, vs, f[i - 1])
    BY <1>1, <2>2 DEF Rotates
  <2>4. Fair(s, vs, good, AddDev(s, vs, f[i - 1]), i - 1 + 1)
    BY <2>1, <2>2, StaysFair
  <2>5. Fair(s, vs, good, f[i], i)
    BY <2>1, <2>3, <2>4
  <2> QED
    BY <2>5
<1>4. Fair(s, vs, good, f[n], n)
  <2> HIDE DEF T
  <2>1. \A i \in 0 .. n : i \in T
    BY <1>2, <1>3, UpToN
  <2> QED
    BY <2>1 DEF T
<1> QED
  BY <1>1, <1>4

\* What Diverse says of one choice.
DiverseDevs(s, r, devs) ==
  /\ Len(devs) = r.redundancy /\ Cardinality(Locs(devs)) = r.redundancy
  /\ Locs(devs) \subseteq GoodPorts(s, r, r.pports)
  /\ \A v, w \in GoodVioses(s, r) : OnVios(devs, v) <= OnVios(devs, w) + 1
  /\ \A c, d \in GoodCards(s) : OnCard(s, devs, c) > OnCard(s, devs, d) + 1 =>
       {l \in GoodPorts(s, r, r.pports) : s.ports[l].card = d} \subseteq Locs(devs)

\* The elements of a set in some order: each of them once.
EachOnce(V, vs) == vs \in Seq(V) /\ vs # <<>> /\ Distinct(vs) /\ \A v \in V : \E i \in 1 .. Len(vs) : vs[i] = v

\* An order that SetToSeqs gives has each element once: the shuffled VIOSes of
\* set_vnic_back_devs, and the groups of a migration.
LEMMA EachComesOnce ==
  ASSUME NEW V, IsFiniteSet(V), V # {}, NEW vs \in SetToSeqs(V)
  PROVE  EachOnce(V, vs)
<1> DEFINE n == Cardinality(V)
<1>1. n \in Nat /\ n # 0
  BY FS_CardinalityType, FS_EmptySet
<1>2. vs \in [1 .. n -> V] /\ \A i, j \in 1 .. n : i # j => vs[i] # vs[j]
  BY DEF SetToSeqs
<1>3. vs \in Seq(V) /\ Len(vs) = n /\ vs # <<>>
  BY <1>1, <1>2
<1>4. vs \in Injection(1 .. n, V)
  BY <1>2 DEF Injection, IsInjective
<1>5. Cardinality(1 .. n) = n
  BY <1>1, FS_Interval
<1>6. vs \in Surjection(1 .. n, V)
  BY <1>4, <1>5, FS_Injection
<1> QED
  BY <1>2, <1>3, <1>6 DEF Surjection, EachOnce, Distinct

\* set_vnic_back_devs with one list of ports: the devices are diverse.
LEMMA ChosenIsDiverse ==
  ASSUME NEW s, GoodSystem(s), NEW r, r.redundancy \in Nat, r.redundant = {}, GoodVioses(s, r) # {},
         NEW vs \in SetToSeqs(GoodVioses(s, r)), Chooses(s, r, vs).ok
  PROVE  DiverseDevs(s, r, Chooses(s, r, vs).devs)
<1> DEFINE good == GoodPorts(s, r, r.pports)
           V == GoodVioses(s, r)
           n == r.redundancy
           devs == Chooses(s, r, vs).devs
           L == Len(vs)
<1>1. good \in SUBSET DOMAIN s.ports /\ IsFiniteSet(good) /\ Cardinality(good) \in Nat
  <2>1. good \in SUBSET DOMAIN s.ports
    BY DEF GoodPorts
  <2> QED
    BY <2>1, FS_Subset, FS_CardinalityType DEF GoodSystem
<1>2. n <= Cardinality(good) /\ devs = PportsConfig(s, vs, <<>>, good, 0, n)
  <2>1. ~(Cardinality(good) < n) /\ ~(n > 1 /\ Cardinality(good) = 1 /\ GoodPorts(s, r, r.redundant) = {})
    BY DEF Chooses
  <2>2. Chooses(s, r, vs) = [ok |-> TRUE, devs |-> PportsConfig(s, vs, <<>>, good, 0, n)]
    BY <2>1 DEF Chooses
  <2> QED
    BY <1>1, <2>1, <2>2
<1>3. IsFiniteSet(V)
  <2>1. V \subseteq s.vioses
    BY DEF GoodVioses, ActiveVioses
  <2> QED
    BY <2>1, FS_Subset DEF GoodSystem
<1>4. V # {} /\ vs \in SetToSeqs(V)
  OBVIOUS
<1> HIDE DEF good, V, n, devs
<1>5. EachOnce(V, vs)
  BY <1>3, <1>4, EachComesOnce
<1>6. PICK st : Fair(s, vs, good, st, n) /\ devs = st.devs
  <2>1. n \in Nat
    BY DEF n
  <2>2. vs \in Seq(V) /\ vs # <<>> /\ Distinct(vs)
    BY <1>5 DEF EachOnce
  <2> QED
    BY <1>1, <1>2, <2>1, <2>2, ConfigIsFair
<1>7. /\ Len(devs) = n /\ Locs(devs) = st.here /\ Cardinality(st.here) = n /\ st.left = good \ st.here
      /\ st.here \subseteq good
  BY <1>6 DEF Fair, PortsOnce, ConfigsSoFar
<1>8. ASSUME NEW v \in V, NEW w \in V PROVE OnVios(devs, v) <= OnVios(devs, w) + 1
  <2>1. PICK i \in 1 .. L, j \in 1 .. L : vs[i] = v /\ vs[j] = w
    BY <1>5 DEF EachOnce
  <2>2. PICK q \in Nat : \A p \in 1 .. L : OnVios(devs, vs[p]) = IF p <= st.idx THEN q + 1 ELSE q
    BY <1>6 DEF Fair, ViosesFair
  <2>3. OnVios(devs, v) \in {q, q + 1} /\ OnVios(devs, w) \in {q, q + 1}
    BY <2>1, <2>2
  <2> QED
    BY <2>3
<1>9. ASSUME NEW c, NEW d, OnCard(s, devs, c) > OnCard(s, devs, d) + 1, NEW l \in good, s.ports[l].card = d
      PROVE  l \in Locs(devs)
  <2> SUFFICES ASSUME l \in st.left PROVE FALSE
    BY <1>7
  <2>1. OnCard(s, devs, c) = CardUses(s, st, c) /\ OnCard(s, devs, d) = CardUses(s, st, d)
    BY <1>7 DEF OnCard, CardUses
  <2>2. CardUses(s, st, c) <= CardUses(s, st, d) + 1
    BY <1>6, <1>9 DEF Fair, CardsFair
  <2>3. CardUses(s, st, c) \in Nat /\ CardUses(s, st, d) \in Nat
    BY <1>1, <1>7, FS_Subset, CardUsesType
  <2> QED
    BY <1>9, <2>1, <2>2, <2>3
<1> QED
  BY <1>7, <1>8, <1>9 DEF DiverseDevs, good, V, n, devs

\* The System stays one that ports can be chosen from.
SystemFits ==
  /\ {"ports", "vioses"} \subseteq DOMAIN hw /\ GoodSystem(hw)
  /\ \A l \in DOMAIN hw.ports : {"lps", "label", "alloc"} \subseteq DOMAIN hw.ports[l]
  /\ \A r \in Labelings : r.loc \in DOMAIN hw.ports

\* The call that an agent has made, and what it has chosen from its copy of the System.
Wants(a) == spc[a] \in {"rlock", "choose", "create"}
HasChosen(a) ==
  LET s == sysw[a].sys IN LET r == job[a] IN
  Validated(s, r) /\ \E vs \in SetToSeqs(GoodVioses(s, r)) : nicw[a] = Chooses(s, r, vs)
VnicFits(a) ==
  /\ Wants(a) => job[a] \in VnicCalls /\ GoodSystem(sysw[a].sys)
  /\ "ok" \in DOMAIN nicw[a]
  /\ spc[a] = "create" /\ nicw[a].ok => HasChosen(a)

VnicInv ==
  /\ SystemFits
  /\ DOMAIN spc = Agents /\ DOMAIN job = Agents /\ DOMAIN sysw = Agents /\ DOMAIN nicw = Agents
  /\ \A a \in Agents : VnicFits(a)

\* Before the first call VnicInv holds.
LEMMA VnicInitial == SriovInit => VnicInv
<1> SUFFICES ASSUME SriovInit PROVE VnicInv
  OBVIOUS
<1>1. SystemFits
  BY HardwareOK DEF SriovInit, SystemFits, GoodSystem
<1> QED
  BY <1>1 DEF SriovInit, VnicInv, VnicFits, Wants

\* A step of one agent.
LEMMA VnicStep1 ==
  ASSUME VnicInv, NEW a \in Agents, SystemFits', VnicFits(a)',
         DOMAIN spc' = Agents, DOMAIN job' = Agents, DOMAIN sysw' = Agents, DOMAIN nicw' = Agents,
         \A b \in Agents \ {a} : UNCHANGED <<spc[b], job[b], sysw[b], nicw[b]>>
  PROVE  VnicInv'
<1>1. ASSUME NEW b \in Agents \ {a} PROVE VnicFits(b)'
  BY DEF VnicInv, VnicFits, Wants, HasChosen
<1> QED
  BY <1>1 DEF VnicInv

\* set_vnic_back_devs chooses from the System of its agent, or raises.
LEMMA ChoiceIsMade ==
  ASSUME VnicInv, NEW a \in Agents, SetVnicBackDevs(a)
  PROVE  VnicInv'
<1> DEFINE s == sysw[a].sys
           r == job[a]
<1>1. /\ spc[a] = "choose" /\ spc' = [spc EXCEPT ![a] = "create"] /\ UNCHANGED <<hw, job, sysw>>
      /\ DOMAIN spc = Agents /\ DOMAIN nicw = Agents
  BY DEF SetVnicBackDevs, SrGoto, VnicInv
<1>2. SystemFits'
  BY <1>1 DEF VnicInv, SystemFits
<1>3. Wants(a) /\ job[a] \in VnicCalls /\ GoodSystem(s) /\ "ok" \in DOMAIN nicw[a]
  BY <1>1 DEF VnicInv, VnicFits, Wants
<1>4. CASE ~Validated(s, r)
  <2>1. nicw' = [nicw EXCEPT ![a].ok = FALSE]
    BY <1>4 DEF SetVnicBackDevs
  <2>2. DOMAIN nicw' = Agents /\ "ok" \in DOMAIN nicw'[a] /\ ~nicw'[a].ok
    BY <1>1, <1>3, <2>1
  <2>3. VnicFits(a)'
    BY <1>1, <1>3, <2>2 DEF VnicFits
  <2> QED
    BY <1>1, <1>2, <2>1, <2>2, <2>3, VnicStep1 DEF VnicInv
<1>5. CASE Validated(s, r)
  <2>1. PICK vs \in SetToSeqs(GoodVioses(s, r)) : nicw' = [nicw EXCEPT ![a] = Chooses(s, r, vs)]
    BY <1>5 DEF SetVnicBackDevs
  <2>2. "ok" \in DOMAIN Chooses(s, r, vs)
    BY DEF Chooses, SecondDev
  <2>3. DOMAIN nicw' = Agents /\ nicw'[a] = Chooses(s, r, vs)
    BY <1>1, <2>1
  <2>4. HasChosen(a)'
    BY <1>1, <1>5, <2>3 DEF HasChosen
  <2>5. VnicFits(a)'
    BY <1>1, <1>3, <2>2, <2>3, <2>4 DEF VnicFits
  <2> QED
    BY <1>1, <1>2, <2>1, <2>3, <2>5, VnicStep1 DEF VnicInv
<1> QED
  BY <1>4, <1>5

\* The POSTs of vNICs and of labels change nothing that ports are chosen by.
LEMMA PostedSystemFits ==
  ASSUME SystemFits, NEW a \in Agents, CreateVnic(a) \/ (UpdatePports(a) /\ job[a] \in Labelings)
  PROVE  SystemFits'
<1>1. CASE UNCHANGED hw
  BY <1>1 DEF SystemFits
<1>2. CASE hw' = [hw EXCEPT !.ports = Backing(hw.ports, Locs(nicw[a].devs))]
  <2>1. hw'.ports = Backing(hw.ports, Locs(nicw[a].devs)) /\ hw'.vioses = hw.vioses /\ DOMAIN hw' = DOMAIN hw
    BY <1>2 DEF SystemFits
  <2>2. /\ DOMAIN hw'.ports = DOMAIN hw.ports
        /\ \A l \in DOMAIN hw.ports : DOMAIN hw'.ports[l] = DOMAIN hw.ports[l] /\ hw'.ports[l].alloc = hw.ports[l].alloc
    BY <2>1 DEF Backing, SystemFits
  <2> QED
    BY <2>1, <2>2 DEF SystemFits, GoodSystem
<1>3. CASE UpdatePports(a) /\ job[a] \in Labelings /\ hw' = [hw EXCEPT !.ports[job[a].loc].label = job[a].label]
  <2> DEFINE l == job[a].loc
             p == [hw.ports[l] EXCEPT !.label = job[a].label]
  <2>1. l \in DOMAIN hw.ports
    BY <1>3 DEF SystemFits
  <2>2. hw'.ports = [hw.ports EXCEPT ![l] = p] /\ hw'.vioses = hw.vioses /\ DOMAIN hw' = DOMAIN hw
    BY <1>3 DEF SystemFits
  <2>3. DOMAIN p = DOMAIN hw.ports[l] /\ p.alloc = hw.ports[l].alloc
    BY <2>1 DEF SystemFits
  <2> HIDE DEF l, p
  <2>4. /\ DOMAIN hw'.ports = DOMAIN hw.ports
        /\ \A k \in DOMAIN hw.ports : DOMAIN hw'.ports[k] = DOMAIN hw.ports[k] /\ hw'.ports[k].alloc = hw.ports[k].alloc
    BY <2>1, <2>2, <2>3
  <2> QED
    BY <2>2, <2>4 DEF SystemFits, GoodSystem
<1> QED
  BY <1>1, <1>2, <1>3 DEF CreateVnic, UpdatePports

\* Whoever is done, or does something else than create a vNIC.
LEMMA NoVnicFits ==
  ASSUME VnicInv, NEW a \in Agents, SystemFits', spc' = [spc EXCEPT ![a] = spc'[a]], spc'[a] \notin {"rlock", "choose", "create"},
         DOMAIN job' = Agents, DOMAIN sysw' = Agents, \A b \in Agents \ {a} : UNCHANGED <<job[b], sysw[b]>>, UNCHANGED nicw
  PROVE  VnicInv'
<1>1. VnicFits(a)' /\ DOMAIN spc' = Agents /\ \A b \in Agents \ {a} : UNCHANGED <<spc[b], job[b], sysw[b], nicw[b]>>
  BY DEF VnicInv, VnicFits, Wants
<1> QED
  BY <1>1, VnicStep1 DEF VnicInv

\* Every step of every agent keeps VnicInv.
LEMMA VnicStep == SriovInv /\ VnicInv /\ [SriovNext]_sriovVars => VnicInv'
<1> SUFFICES ASSUME SriovInv, VnicInv, [SriovNext]_sriovVars PROVE VnicInv'
  OBVIOUS
<1> USE DEF SrGoto
<1>1. ASSUME NEW a \in Agents, NEW r \in VnicCalls, WantVnic(a, r) PROVE VnicInv'
  <2>1. SystemFits' /\ VnicFits(a)'
    BY <1>1 DEF WantVnic, FetchSystem, VnicInv, VnicFits, Wants, SystemFits
  <2> QED
    BY <1>1, <2>1, VnicStep1 DEF WantVnic, FetchSystem, VnicInv
<1>2. ASSUME NEW a \in Agents, ReadLock(a) PROVE VnicInv'
  <2>1. SystemFits' /\ VnicFits(a)'
    BY <1>2 DEF ReadLock, VnicInv, VnicFits, Wants, SystemFits
  <2> QED
    BY <1>2, <2>1, VnicStep1 DEF ReadLock, VnicInv
<1>3. ASSUME NEW a \in Agents, CreateVnic(a) PROVE VnicInv'
  <2>1. SystemFits'
    BY <1>3, PostedSystemFits DEF VnicInv
  <2> QED
    BY <1>3, <2>1, NoVnicFits DEF CreateVnic, VnicInv
<1>4. ASSUME NEW a \in Agents, NEW r \in Labelings, WantLabel(a, r) PROVE VnicInv'
  <2>1. SystemFits'
    BY <1>4 DEF WantLabel, VnicInv, SystemFits
  <2> QED
    BY <1>4, <2>1, NoVnicFits DEF WantLabel, FetchSystem, VnicInv
<1>5. ASSUME NEW a \in Agents, WriteLock(a) \/ VetPorts(a) PROVE VnicInv'
  <2>1. SystemFits'
    BY <1>5 DEF WriteLock, VetPorts, VnicInv, SystemFits
  <2> QED
    BY <1>5, <2>1, NoVnicFits DEF WriteLock, VetPorts, VnicInv
<1>6. ASSUME NEW a \in Agents, UpdatePports(a) PROVE VnicInv'
  <2>1. job[a] \in Labelings
    BY <1>6 DEF UpdatePports, SriovInv, AgentFits
  <2>2. SystemFits'
    BY <1>6, <2>1, PostedSystemFits DEF VnicInv
  <2> QED
    BY <1>6, <2>2, NoVnicFits DEF UpdatePports, FetchSystem, VnicInv
<1>7. CASE UNCHANGED sriovVars
  BY <1>7 DEF sriovVars, VnicInv, VnicFits, Wants, HasChosen, SystemFits
<1> QED
  BY <1>1, <1>2, <1>3, <1>4, <1>5, <1>6, <1>7, ChoiceIsMade DEF SriovNext

\* What an agent has chosen is diverse.
LEMMA DiverseNow == VnicInv => Diverse
<1> SUFFICES ASSUME VnicInv, NEW a \in Agents, spc[a] = "create", nicw[a].ok, job[a].redundant = {}
             PROVE  DiverseDevs(sysw[a].sys, job[a], nicw[a].devs)
  BY DEF Diverse, DiverseDevs
<1> DEFINE s == sysw[a].sys
           r == job[a]
<1>1. job[a] \in VnicCalls /\ GoodSystem(s) /\ HasChosen(a)
  BY DEF VnicInv, VnicFits, Wants
<1>2. PICK vs \in SetToSeqs(GoodVioses(s, r)) : nicw[a] = Chooses(s, r, vs)
  BY <1>1 DEF HasChosen
<1>3. GoodVioses(s, r) # {} /\ r.redundancy \in Nat
  BY <1>1, RedundancyOK DEF HasChosen, Validated
<1> QED
  BY <1>1, <1>2, <1>3, ChosenIsDiverse

\* tasks/sriov.py: for every system, call and number of agents, the back devices that
\* set_vnic_back_devs chooses are as diverse as promised, and no label is changed under a
\* vNIC without force: see Diverse and LabelsAreSafe.
THEOREM VnicsStaySound == SriovSpec => []VnicsAreSound
<1>1. SriovInit => SriovInv /\ VnicInv
  BY SriovInitial, VnicInitial
<1>2. (SriovInv /\ VnicInv) /\ [SriovNext]_sriovVars => (SriovInv /\ VnicInv)'
  BY SriovStep, VnicStep
<1>3. SriovInv /\ VnicInv => VnicsAreSound
  BY DiverseNow DEF SriovInv, LabelsAreSafe, VnicsAreSound
<1> QED
  BY <1>1, <1>2, <1>3, PTL DEF SriovSpec

-----------------------------------------------------------------------------
(* VfcMapper.                                                              *)

\* A mapping is on one of the VIOSes.
VfcTyped ==
  /\ vioses \in Systems
  /\ \A m \in vfc : DOMAIN m = {"vios", "lpar", "pair", "port"} /\ \E i \in DOMAIN vioses : m.vios = vioses[i].name

\* On one VIOS a pair of WWPNs has one mapping, of one LPAR; on others it may have
\* mappings too, but at most one of them all has a port.
OncePerVios == \A m, n \in vfc : m.vios = n.vios /\ m.pair = n.pair => m = n

VfcInv == VfcTyped /\ OncePerVios /\ BackedOnce

\* There are no mappings before the first add_map.
LEMMA VfcInitial == VfcInit => VfcInv
BY DEF VfcInit, VfcInv, VfcTyped, OncePerVios, BackedOnce

\* find_vios_for_port_map names one of the VIOSes that it has found.
LEMMA FirstIsFound ==
  ASSUME VfcTyped, NEW places, places \subseteq DOMAIN vioses, places # {}
  PROVE  \E i \in places : FirstVios(places) = vioses[i]
<1>1. places \subseteq Nat
  BY SystemsAreLists DEF VfcTyped
<1>2. \E i \in places : \A j \in places : i <= j
  BY <1>1, LeastNat
<1> QED
  BY <1>2 DEF FirstVios

\* A pair that add_map gives a port has none anywhere: if it had, find_vios_for_port_map would
\* have named that VIOS, and add_map does nothing there.
LEMMA UnbackedAnywhere ==
  ASSUME VfcInv, NEW m, ViosForPortMap(m) # {}, ~BackedOn(FirstVios(ViosForPortMap(m)), m.pair)
  PROVE  /\ \A x \in vfc : x.pair = m.pair => x.port = NoPort
         /\ \E i \in DOMAIN vioses : FirstVios(ViosForPortMap(m)) = vioses[i]
<1>1. PICK i \in ViosForPortMap(m) : FirstVios(ViosForPortMap(m)) = vioses[i]
  BY FirstIsFound DEF VfcInv, ViosForPortMap, ViosForVfc, ViosForWwpn
<1>2. ViosForVfc(m.pair) = {}
  BY <1>1 DEF ViosForPortMap, ViosForVfc
<1>3. ASSUME NEW x \in vfc, x.pair = m.pair, x.port # NoPort PROVE FALSE
  BY <1>2, <1>3 DEF ViosForVfc, BackedOn, VfcInv, VfcTyped
<1>4. i \in DOMAIN vioses
  BY DEF ViosForPortMap, ViosForVfc, ViosForWwpn
<1> QED
  BY <1>1, <1>3, <1>4

\* add_map, with a plan of any age.
LEMMA AddMapFits ==
  ASSUME VfcInv, NEW m, AddMap(m)
  PROVE  VfcInv'
<1> DEFINE v == FirstVios(ViosForPortMap(m))
<1>0. vioses' = vioses
  BY DEF AddMap
<1>1. CASE vfc' = vfc
  BY <1>0, <1>1 DEF VfcInv, VfcTyped, OncePerVios, BackedOnce
<1>2. CASE vfc' # vfc
  <2>1. ~BackedOn(v, m.pair) /\ ViosForPortMap(m) # {} /\ MadeUpIsNew(m)
    BY <1>2 DEF AddMap
  <2>2. /\ \A x \in vfc : x.pair = m.pair => x.port = NoPort
        /\ \E i \in DOMAIN vioses : v = vioses[i]
    BY <2>1, UnbackedAnywhere
  <2> HIDE DEF v
  <2>3. CASE MappedOn(v, m.pair)
    <3>1. vfc' = SetPort(v, m)
      BY <1>2, <2>3 DEF AddMap, v
    <3>2. PICK x \in vfc : x.vios = v.name /\ x.pair = m.pair
      BY <2>3 DEF MappedOn
    <3>3. \A y \in vfc : y.vios = v.name /\ y.pair = m.pair <=> y = x
      BY <3>2 DEF VfcInv, OncePerVios
    <3>4. vfc' = (vfc \ {x}) \cup {[x EXCEPT !.port = m.port]}
      BY <3>1, <3>2, <3>3 DEF SetPort
    <3> DEFINE k == [x EXCEPT !.port = m.port]
    <3>5. DOMAIN k = {"vios", "lpar", "pair", "port"} /\ k.vios = x.vios /\ k.pair = m.pair
      BY <3>2 DEF VfcInv, VfcTyped
    <3> HIDE DEF k
    <3>6. vfc' = (vfc \ {x}) \cup {k}
      BY <3>4 DEF k
    <3> QED
      BY <1>0, <2>2, <3>2, <3>3, <3>5, <3>6 DEF VfcInv, VfcTyped, OncePerVios, BackedOnce
  <2>4. CASE ~MappedOn(v, m.pair)
    <3> DEFINE k == [vios |-> v.name, lpar |-> m.lpar, pair |-> PairFor(m), port |-> m.port]
    <3>1. vfc' = vfc \cup {k}
      BY <1>2, <2>4 DEF AddMap, v
    <3>2. DOMAIN k = {"vios", "lpar", "pair", "port"} /\ k.vios = v.name /\ k.pair = PairFor(m)
      OBVIOUS
    <3> HIDE DEF k
    <3>3. ASSUME NEW x \in vfc, x.pair = k.pair PROVE x.port = NoPort /\ x.vios # k.vios
      BY <2>1, <2>2, <2>4, <3>2, <3>3 DEF PairFor, MadeUpIsNew, MappedOn
    <3> QED
      BY <1>0, <2>2, <3>1, <3>2, <3>3 DEF VfcInv, VfcTyped, OncePerVios, BackedOnce
  <2> QED
    BY <2>3, <2>4
<1> QED
  BY <1>1, <1>2

\* A mapping that loses its port stays the one of its pair on its VIOS.
LEMMA LosePortFits ==
  ASSUME VfcInv, NEW m, LosePort(m)
  PROVE  VfcInv'
<1> DEFINE k == [m EXCEPT !.port = NoPort]
<1>1. m \in vfc /\ vfc' = (vfc \ {m}) \cup {k} /\ vioses' = vioses
  BY DEF LosePort
<1>2. DOMAIN k = {"vios", "lpar", "pair", "port"} /\ k.vios = m.vios /\ k.pair = m.pair /\ k.port = NoPort
  BY <1>1 DEF VfcInv, VfcTyped
<1> HIDE DEF k
<1> QED
  BY <1>1, <1>2 DEF VfcInv, VfcTyped, OncePerVios, BackedOnce

\* Every derivation, add_map, removal, loss of a port and migration keeps VfcInv.
LEMMA VfcStep == VfcInv /\ [VfcNext]_vfcVars => VfcInv'
<1> SUFFICES ASSUME VfcInv, [VfcNext]_vfcVars PROVE VfcInv'
  OBVIOUS
<1>1. ASSUME vfc' \subseteq vfc, vioses' = vioses PROVE VfcInv'
  BY <1>1 DEF VfcInv, VfcTyped, OncePerVios, BackedOnce
<1>2. ASSUME NEW r, DeriveMap(r) \/ Migrate(r) PROVE VfcInv'
  BY <1>1, <1>2 DEF DeriveMap, Migrate
<1>3. ASSUME NEW x, NEW lpar, NEW pairs, RemoveMaps(x, lpar, pairs) PROVE VfcInv'
  BY <1>1, <1>3 DEF RemoveMaps
<1>4. CASE UNCHANGED vfcVars
  BY <1>1, <1>4 DEF vfcVars
<1> QED
  BY <1>2, <1>3, <1>4, AddMapFits, LosePortFits DEF VfcNext

\* tasks/vfc_mapper.py: for every system and every set of plans, applied at any time, no pair
\* of client WWPNs is ever given two backing ports: see BackedOnce.
THEOREM PairsAreBackedOnce == VfcSpec => []BackedOnce
<1>1. VfcInv => BackedOnce
  BY DEF VfcInv
<1> QED
  BY <1>1, VfcInitial, VfcStep, PTL DEF VfcSpec

-----------------------------------------------------------------------------
(* VfcMapper: how derive_npiv_map shares out the ports.                    *)

\* What the derivation needs to know of a list of VIOSes.
ViosesFit(vs) ==
  /\ DOMAIN vs = 1 .. Len(vs) /\ Len(vs) \in Nat
  /\ \A k \in DOMAIN vs : /\ DOMAIN vs[k].ports = 1 .. Len(vs[k].ports) /\ Len(vs[k].ports) \in Nat
                          /\ \A p \in DOMAIN vs[k].ports : vs[k].ports[p].avail \in Nat
  /\ \A k, l \in DOMAIN vs : \A p \in DOMAIN vs[k].ports, q \in DOMAIN vs[l].ports :
       SanitizedWwpn(vs[k].ports[p].wwpn) = SanitizedWwpn(vs[l].ports[q].wwpn) => k = l /\ p = q

\* Among finitely many ports one has the most NPIV ports available.
LEMMA MostAvailable ==
  ASSUME NEW N \in Nat, NEW S \in SUBSET (1 .. N), S # {}, NEW a \in [S -> Nat]
  PROVE  \E m \in S : \A q \in S : a[q] <= a[m]
<1> DEFINE Found(n) == \E m \in S : \A q \in S : q <= n => a[q] <= a[m]
           T == {n \in 0 .. N : Found(n)}
<1>1. 0 \in T
  <2>1. \A q \in S : ~(q <= 0)
    OBVIOUS
  <2>2. PICK m \in S : TRUE
    OBVIOUS
  <2>3. Found(0)
    BY <2>1, <2>2
  <2> QED
    BY <2>3
<1>2. ASSUME NEW n \in 1 .. N, n - 1 \in T PROVE n \in T
  <2>1. PICK m \in S : \A q \in S : q <= n - 1 => a[q] <= a[m]
    BY <1>2
  <2>2. \A q \in S : q \in Nat /\ a[q] \in Nat /\ (q <= n => q <= n - 1 \/ q = n)
    OBVIOUS
  <2>3. CASE n \in S /\ a[m] <= a[n]
    <3>1. \A q \in S : q <= n => a[q] <= a[n]
      BY <2>1, <2>2, <2>3
    <3> QED
      BY <2>3, <3>1
  <2>4. CASE n \notin S \/ a[n] <= a[m]
    <3>1. \A q \in S : q <= n => a[q] <= a[m]
      BY <2>1, <2>2, <2>4
    <3> QED
      BY <3>1
  <2> QED
    BY <2>2, <2>3, <2>4
<1>3. N \in T
  <2> HIDE DEF T
  <2>1. \A n \in 0 .. N : n \in T
    BY <1>1, <1>2, UpToN
  <2> QED
    BY <2>1
<1>4. PICK m \in S : \A q \in S : q <= N => a[q] <= a[m]
  BY <1>3
<1> QED
  BY <1>4

\* How often a port is used is a number.
LEMMA UseOfType ==
  ASSUME NEW ms, IsFiniteSet(DOMAIN ms), NEW w
  PROVE  UseOf(w, ms) \in Nat /\ IsFiniteSet({i \in DOMAIN ms : ms[i] = w})
<1>1. IsFiniteSet({i \in DOMAIN ms : ms[i] = w})
  BY FS_Subset
<1> QED
  BY <1>1, FS_CardinalityType DEF UseOf

\* One map more.
WithMap(ms, i, w) == [j \in DOMAIN ms \cup {i} |-> IF j = i THEN w ELSE ms[j]]

\* One map more is one use more of its port.
LEMMA UseOfAdded ==
  ASSUME NEW ms, IsFiniteSet(DOMAIN ms), NEW i, i \notin DOMAIN ms, NEW w, NEW x
  PROVE  UseOf(x, WithMap(ms, i, w)) = IF x = w THEN UseOf(x, ms) + 1 ELSE UseOf(x, ms)
<1> DEFINE old == {j \in DOMAIN ms : ms[j] = x}
           now == {j \in DOMAIN WithMap(ms, i, w) : WithMap(ms, i, w)[j] = x}
<1>1. IsFiniteSet(old) /\ i \notin old
  BY UseOfType
<1>2. now = IF x = w THEN old \cup {i} ELSE old
  BY DEF WithMap
<1>3. Cardinality(old \cup {i}) = Cardinality(old) + 1
  BY <1>1, FS_AddElement
<1> QED
  BY <1>2, <1>3 DEF UseOf

\* A VIOS is usable as long as one of its ports is used less than MaxUse times.
LEMMA LeastUsedIs ==
  ASSUME NEW v, NEW cand, NEW ms, IsFiniteSet(DOMAIN ms)
  PROVE  LeastUsed(v, cand, ms) # {} <=> \E p \in cand : PortUse(v, p, ms) < MaxUse
<1> DEFINE U(p) == PortUse(v, p, ms)
<1>1. \A p \in cand : U(p) \in Nat
  BY UseOfType DEF PortUse
<1>2. ASSUME NEW p \in cand, U(p) < MaxUse PROVE \E q \in cand : U(q) < MaxUse /\ \A x \in cand : U(q) <= U(x)
  <2> DEFINE T == {U(x) : x \in cand}
  <2>1. T \in SUBSET Nat /\ T # {}
    BY <1>1
  <2>2. PICK t \in T : \A y \in T : t <= y
    <3> HIDE DEF T
    <3> QED
      BY <2>1, LeastNat
  <2>3. PICK q \in cand : t = U(q)
    BY <2>2
  <2>4. \A x \in cand : U(q) <= U(x)
    BY <2>2, <2>3
  <2> HIDE DEF T, U
  <2>5. U(q) < MaxUse
    BY <1>1, <1>2, <2>4, VfcConstantsOK
  <2> QED
    BY <2>4, <2>5
<1> HIDE DEF U
<1>3. LeastUsed(v, cand, ms) = {p \in cand : U(p) < MaxUse /\ \A q \in cand : U(p) <= U(q)}
  BY DEF LeastUsed, U
<1>4. (\E p \in cand : U(p) < MaxUse) <=> LeastUsed(v, cand, ms) # {}
  BY <1>2, <1>3
<1> QED
  BY <1>4 DEF U

\* The port that is chosen on a usable VIOS is one of those used least.
LEMMA MapPortIs ==
  ASSUME NEW vs, ViosesFit(vs), NEW k \in DOMAIN vs, NEW cand \in SUBSET DOMAIN vs[k].ports, NEW ms,
         LeastUsed(vs[k], cand, ms) # {}
  PROVE  \E p \in LeastUsed(vs[k], cand, ms) : MapPort(vs[k], cand, ms) = vs[k].ports[p].wwpn
<1> DEFINE v == vs[k]
           least == LeastUsed(v, cand, ms)
           most == {p \in least : \A q \in least : v.ports[q].avail <= v.ports[p].avail}
           a == [q \in least |-> v.ports[q].avail]
<1>1. least \in SUBSET (1 .. Len(v.ports)) /\ Len(v.ports) \in Nat
  BY DEF ViosesFit, LeastUsed
<1>2. a \in [least -> Nat]
  BY <1>1 DEF ViosesFit
<1>3. \E m \in least : \A q \in least : a[q] <= a[m]
  <2> HIDE DEF a, least
  <2> QED
    BY <1>1, <1>2, MostAvailable DEF least
<1>4. most # {} /\ most \in SUBSET Nat
  <2>1. PICK m \in least : \A q \in least : a[q] <= a[m]
    BY <1>3
  <2>2. \A q \in least : a[q] = v.ports[q].avail
    OBVIOUS
  <2> HIDE DEF a, least
  <2>3. m \in most
    BY <2>1, <2>2
  <2>4. \A p \in most : p \in least
    OBVIOUS
  <2> HIDE DEF most
  <2> QED
    BY <1>1, <2>3, <2>4
<1>5. \E m \in most : \A q \in most : m <= q
  <2> HIDE DEF most
  <2> QED
    BY <1>4, LeastNat
<1>6. Min(most) \in most
  <2> HIDE DEF most
  <2> QED
    BY <1>5 DEF Min
<1>7. MapPort(v, cand, ms) = v.ports[Min(most)].wwpn
  BY DEF MapPort
<1> QED
  BY <1>6, <1>7

\* The VIOS whose turn it is: the next usable one, or the first usable one.
LEMMA NextViosIs ==
  ASSUME NEW usable \in SUBSET Nat, usable # {}, NEW last \in Nat
  PROVE  LET k == NextVios(usable, last)
         IN k \in usable /\ IF \E j \in usable : j > last THEN k > last /\ \A j \in usable : j > last => k <= j
                            ELSE \A j \in usable : k <= j
<1> DEFINE after == {j \in usable : j > last}
           S == IF after # {} THEN after ELSE usable
<1>1. S \in SUBSET Nat /\ S # {} /\ S \subseteq usable
  OBVIOUS
<1>2. Min(S) \in S /\ \A j \in S : Min(S) <= j
  <2> HIDE DEF S
  <2> QED
    BY <1>1, LeastNat DEF Min
<1>3. NextVios(usable, last) = Min(S)
  BY DEF NextVios
<1> QED
  BY <1>2, <1>3

\* The states of a derivation of N maps.
PortMaps(N, P) == UNION {[D -> P] : D \in SUBSET (1 .. N)}
DeriveStates(vs, N, P) == [ok : BOOLEAN, last : 0 .. Len(vs), maps : PortMaps(N, P)]
OldAndOwn(vs, old) ==
  {old[i] : i \in DOMAIN old} \cup UNION {{vs[k].ports[p].wwpn : p \in DOMAIN vs[k].ports} : k \in DOMAIN vs}
NoMapYet(old) == [ok |-> TRUE, last |-> 0, maps |-> old]

\* A map is a function, from finitely many positions.
LEMMA PortMapsAre ==
  ASSUME NEW N \in Nat, NEW P
  PROVE  /\ \A ms \in PortMaps(N, P) : /\ DOMAIN ms \subseteq 1 .. N /\ IsFiniteSet(DOMAIN ms)
                                      /\ \A i \in DOMAIN ms : ms[i] \in P
         /\ \A ms \in PortMaps(N, P), i \in 1 .. N, w \in P : WithMap(ms, i, w) \in PortMaps(N, P)
<1>1. ASSUME NEW ms \in PortMaps(N, P)
      PROVE  \E D \in SUBSET (1 .. N) : ms \in [D -> P]
  BY DEF PortMaps
<1>2. ASSUME NEW ms \in PortMaps(N, P)
      PROVE  DOMAIN ms \subseteq 1 .. N /\ IsFiniteSet(DOMAIN ms) /\ \A i \in DOMAIN ms : ms[i] \in P
  <2>1. PICK D \in SUBSET (1 .. N) : ms \in [D -> P]
    BY <1>1
  <2>2. IsFiniteSet(1 .. N)
    BY FS_Interval
  <2> QED
    BY <2>1, <2>2, FS_Subset
<1>3. ASSUME NEW ms \in PortMaps(N, P), NEW i \in 1 .. N, NEW w \in P
      PROVE  WithMap(ms, i, w) \in PortMaps(N, P)
  <2>1. PICK D \in SUBSET (1 .. N) : ms \in [D -> P]
    BY <1>1
  <2>2. WithMap(ms, i, w) \in [D \cup {i} -> P]
    BY <2>1 DEF WithMap
  <2>3. D \cup {i} \in SUBSET (1 .. N)
    OBVIOUS
  <2> QED
    BY <2>2, <2>3 DEF PortMaps
<1> QED
  BY <1>2, <1>3

\* Each step of a derivation adds one map, to a port that was asked for, or fails for good.
LEMMA MapAdded ==
  ASSUME NEW vs, ViosesFit(vs), NEW wwpns, NEW old, NEW N \in Nat, NEW i \in 1 .. N,
         NEW st \in DeriveStates(vs, N, OldAndOwn(vs, old))
  PROVE  LET new == AddOneMap(vs, wwpns, st, i)
             usable == UsableVioses(vs, wwpns, st.maps)
         IN /\ new \in DeriveStates(vs, N, OldAndOwn(vs, old))
            /\ new.ok => /\ st.ok /\ usable # {} /\ new.last = NextVios(usable, st.last) /\ new.last \in usable
                         /\ \E p \in LeastUsed(vs[new.last], PortsOnVio(vs[new.last], wwpns), st.maps) :
                              new.maps = WithMap(st.maps, i, vs[new.last].ports[p].wwpn)
<1> DEFINE usable == UsableVioses(vs, wwpns, st.maps)
           k == NextVios(usable, st.last)
           cand == PortsOnVio(vs[k], wwpns)
           port == MapPort(vs[k], cand, st.maps)
           new == AddOneMap(vs, wwpns, st, i)
           P == OldAndOwn(vs, old)
<1>1. CASE ~st.ok \/ usable = {}
  <2>1. new = [st EXCEPT !.ok = FALSE]
    BY <1>1 DEF AddOneMap
  <2> HIDE DEF P, new
  <2>2. new \in DeriveStates(vs, N, P) /\ ~new.ok
    <3>1. st \in DeriveStates(vs, N, P)
      BY DEF P
    <3>2. new = [ok |-> FALSE, last |-> st.last, maps |-> st.maps]
      BY <2>1, <3>1 DEF DeriveStates
    <3> QED
      BY <3>1, <3>2 DEF DeriveStates
  <2> QED
    BY <2>2 DEF P, new
<1>2. CASE st.ok /\ usable # {}
  <2>1. new = [ok |-> TRUE, last |-> k, maps |-> WithMap(st.maps, i, port)]
    BY <1>2 DEF AddOneMap, WithMap
  <2>2. usable \in SUBSET (1 .. Len(vs)) /\ Len(vs) \in Nat /\ usable \subseteq DOMAIN vs
    BY DEF UsableVioses, ViosesFit
  <2>3. k \in usable
    <3>1. st.last \in Nat /\ usable \in SUBSET Nat
      BY <2>2 DEF DeriveStates
    <3> HIDE DEF usable
    <3> QED
      BY <1>2, <3>1, NextViosIs
  <2>4. LeastUsed(vs[k], cand, st.maps) # {} /\ k \in DOMAIN vs /\ cand \in SUBSET DOMAIN vs[k].ports
    BY <2>3 DEF UsableVioses, PortsOnVio
  <2>5. PICK p \in LeastUsed(vs[k], cand, st.maps) : port = vs[k].ports[p].wwpn
    BY <2>4, MapPortIs
  <2>6. port \in P
    BY <2>4, <2>5 DEF LeastUsed, OldAndOwn
  <2>7. WithMap(st.maps, i, port) \in PortMaps(N, P)
    <3>1. st.maps \in PortMaps(N, P)
      BY DEF DeriveStates
    <3> HIDE DEF P, port
    <3> QED
      BY <3>1, <2>6, PortMapsAre
  <2>8. k \in 0 .. Len(vs)
    BY <2>2, <2>3
  <2> HIDE DEF P, port, k, new, usable
  <2>9. new \in DeriveStates(vs, N, P)
    BY <2>1, <2>7, <2>8 DEF DeriveStates
  <2>10. new.last = k /\ new.maps = WithMap(st.maps, i, vs[k].ports[p].wwpn)
    BY <2>1, <2>5
  <2> QED
    BY <1>2, <2>3, <2>5, <2>9, <2>10 DEF P, k, new, usable
<1> QED
  BY <1>1, <1>2

\* The derivation of N maps, for those positions that are new.
Derives(vs, wwpns, old, new, N, f) ==
  /\ f \in [0 .. N -> DeriveStates(vs, N, OldAndOwn(vs, old))] /\ f[0] = NoMapYet(old)
  /\ \A i \in 1 .. N : f[i] = IF i \in new THEN AddOneMap(vs, wwpns, f[i - 1], i) ELSE f[i - 1]
IsDerivation(vs, wwpns, old, new, N, f) ==
  f = [i \in 0 .. N |-> IF i = 0 THEN NoMapYet(old)
                        ELSE IF i \in new THEN AddOneMap(vs, wwpns, f[i - 1], i) ELSE f[i - 1]]

\* Derive is what its recursion says.
LEMMA DeriveBySteps ==
  ASSUME NEW vs, ViosesFit(vs), NEW wwpns, NEW N \in Nat, NEW new, NEW old,
         old \in PortMaps(N, OldAndOwn(vs, old))
  PROVE  \E f : Derives(vs, wwpns, old, new, N, f) /\ Derive(vs, wwpns, old, new, N) = f[N]
<1> DEFINE S == DeriveStates(vs, N, OldAndOwn(vs, old))
           Next1(i, st) == IF i \in new THEN AddOneMap(vs, wwpns, st, i) ELSE st
           G == [p \in (1 .. N) \X S |-> Next1(p[1], p[2])]
           zero == NoMapYet(old)
           h == CHOOSE f : IsDerivation(vs, wwpns, old, new, N, f)
<1>1. zero \in S
  <2>1. Len(vs) \in Nat
    BY DEF ViosesFit
  <2> QED
    BY <2>1 DEF NoMapYet, DeriveStates
<1>2. \A i \in 1 .. N, st \in S : Next1(i, st) \in S
  BY MapAdded
<1>3. G \in [(1 .. N) \X S -> S]
  <2> HIDE DEF S, Next1
  <2>1. ASSUME NEW p \in (1 .. N) \X S PROVE Next1(p[1], p[2]) \in S
    BY <1>2
  <2> QED
    BY <2>1
<1>4. ASSUME NEW i \in 1 .. N, NEW st \in S PROVE G[<<i, st>>] = Next1(i, st)
  <2> HIDE DEF S, Next1
  <2> QED
    OBVIOUS
<1> HIDE DEF G, S, zero, Next1
<1>5. PICK f : Stepped(N, S, zero, G, f)
  BY <1>1, <1>3, StepsExist
<1>6. f \in [0 .. N -> S] /\ \A i \in 0 .. N : f[i] = IF i = 0 THEN zero ELSE G[<<i, f[i - 1]>>]
  BY <1>5 DEF Stepped
<1>7. ASSUME NEW i \in 0 .. N PROVE f[i] = IF i = 0 THEN zero ELSE Next1(i, f[i - 1])
  <2>1. CASE i = 0
    BY <1>6, <2>1
  <2>2. CASE i # 0
    <3>1. i \in 1 .. N /\ i - 1 \in 0 .. N
      BY <2>2
    <3>2. f[i - 1] \in S
      BY <1>6, <3>1
    <3> QED
      BY <1>4, <1>6, <2>2, <3>1, <3>2
  <2> QED
    BY <2>1, <2>2
<1>8. IsDerivation(vs, wwpns, old, new, N, f)
  <2>1. f = [i \in 0 .. N |-> f[i]]
    BY <1>6
  <2> QED
    BY <1>7, <2>1 DEF IsDerivation, zero, Next1
<1>9. IsDerivation(vs, wwpns, old, new, N, h)
  BY <1>8
<1>10. Derive(vs, wwpns, old, new, N) = h[N]
  BY DEF Derive, IsDerivation, NoMapYet
<1> HIDE DEF h
<1>11. \A i \in 0 .. N : h[i] = IF i = 0 THEN zero ELSE Next1(i, h[i - 1])
  BY <1>9 DEF IsDerivation, zero, Next1
<1> DEFINE T == {i \in 0 .. N : h[i] = f[i]}
<1>12. 0 \in T
  <2>1. 0 \in 0 .. N
    OBVIOUS
  <2>2. h[0] = zero /\ f[0] = zero
    BY <1>7, <1>11, <2>1
  <2> QED
    BY <2>1, <2>2
<1>13. ASSUME NEW i \in 1 .. N, i - 1 \in T PROVE i \in T
  <2>1. i \in 0 .. N /\ i # 0 /\ h[i - 1] = f[i - 1]
    BY <1>13
  <2> QED
    BY <1>7, <1>11, <2>1
<1>14. h[N] = f[N]
  <2> HIDE DEF T
  <2>1. \A i \in 0 .. N : i \in T
    BY <1>12, <1>13, UpToN
  <2> QED
    BY <2>1 DEF T
<1>15. Derives(vs, wwpns, old, new, N, f)
  <2>1. f \in [0 .. N -> DeriveStates(vs, N, OldAndOwn(vs, old))]
    BY <1>6 DEF S
  <2>2. f[0] = NoMapYet(old)
    BY <1>7 DEF zero
  <2>3. ASSUME NEW i \in 1 .. N PROVE f[i] = IF i \in new THEN AddOneMap(vs, wwpns, f[i - 1], i) ELSE f[i - 1]
    <3>1. i \in 0 .. N /\ i # 0
      OBVIOUS
    <3> QED
      BY <1>7, <3>1 DEF Next1
  <2> QED
    BY <2>1, <2>2, <2>3 DEF Derives
<1> QED
  BY <1>10, <1>14, <1>15

\* The new maps so far to ports of one VIOS.
OnVioSoFar(v, new, n, ms) == {j \in new \cap (1 .. n) : HasPort(v, ms[j])}

\* A port that was asked for is on one VIOS.
LEMMA PortIsOnOneVios ==
  ASSUME NEW vs, ViosesFit(vs), NEW k \in DOMAIN vs, NEW l \in DOMAIN vs, NEW p \in DOMAIN vs[l].ports
  PROVE  HasPort(vs[k], vs[l].ports[p].wwpn) <=> k = l
<1>1. PortsOf(vs[k]) = {vs[k].ports[q] : q \in DOMAIN vs[k].ports}
  BY DEF PortsOf, ToSet
<1> QED
  BY <1>1 DEF HasPort, ViosesFit

\* One map more is one more on the VIOS of its port, and on no other.
LEMMA OnVioAdded ==
  ASSUME NEW vs, ViosesFit(vs), NEW new, NEW i \in Nat, 0 < i, i \in new,
         NEW ms, new \cap (1 .. i - 1) \subseteq DOMAIN ms,
         NEW l \in DOMAIN vs, NEW p \in DOMAIN vs[l].ports, NEW k \in DOMAIN vs,
         NEW now, now = WithMap(ms, i, vs[l].ports[p].wwpn)
  PROVE  /\ OnVioSoFar(vs[k], new, i, now) =
              IF k = l THEN OnVioSoFar(vs[k], new, i - 1, ms) \cup {i} ELSE OnVioSoFar(vs[k], new, i - 1, ms)
         /\ Cardinality(OnVioSoFar(vs[k], new, i - 1, ms)) \in Nat
         /\ k = l => Cardinality(OnVioSoFar(vs[k], new, i, now)) = Cardinality(OnVioSoFar(vs[k], new, i - 1, ms)) + 1
         /\ k # l => Cardinality(OnVioSoFar(vs[k], new, i, now)) = Cardinality(OnVioSoFar(vs[k], new, i - 1, ms))
<1> DEFINE w == vs[l].ports[p].wwpn
           before == OnVioSoFar(vs[k], new, i - 1, ms)
           after == OnVioSoFar(vs[k], new, i, now)
<1>1. new \cap (1 .. i) = (new \cap (1 .. i - 1)) \cup {i} /\ i \notin 1 .. i - 1
  OBVIOUS
<1>2. now[i] = w /\ \A j \in new \cap (1 .. i - 1) : now[j] = ms[j]
  BY <1>1 DEF WithMap
<1>3. HasPort(vs[k], w) <=> k = l
  BY PortIsOnOneVios
<1> HIDE DEF w
<1>4. after = IF k = l THEN before \cup {i} ELSE before
  BY <1>1, <1>2, <1>3 DEF OnVioSoFar
<1>5. IsFiniteSet(before) /\ i \notin before
  <2>1. IsFiniteSet(1 .. i - 1)
    BY FS_Interval
  <2>2. before \subseteq 1 .. i - 1
    BY DEF OnVioSoFar
  <2> QED
    BY <1>1, <2>1, <2>2, FS_Subset
<1>6. Cardinality(before) \in Nat /\ Cardinality(before \cup {i}) = Cardinality(before) + 1
  BY <1>5, FS_AddElement, FS_CardinalityType
<1> HIDE DEF before, after
<1> QED
  BY <1>4, <1>6 DEF before, after

\* A VIOS that has become unusable stays so: its ports are used no less.
LEMMA UsableNoMore ==
  ASSUME NEW vs, NEW wwpns, NEW ms, IsFiniteSet(DOMAIN ms), NEW i, i \notin DOMAIN ms, NEW w
  PROVE  UsableVioses(vs, wwpns, WithMap(ms, i, w)) \subseteq UsableVioses(vs, wwpns, ms)
<1> DEFINE now == WithMap(ms, i, w)
<1>1. IsFiniteSet(DOMAIN now)
  <2>1. DOMAIN now = DOMAIN ms \cup {i}
    BY DEF WithMap
  <2> QED
    BY <2>1, FS_AddElement
<1>2. \A x : UseOf(x, ms) \in Nat /\ UseOf(x, now) \in Nat /\ UseOf(x, ms) <= UseOf(x, now)
  <2> SUFFICES ASSUME NEW x PROVE UseOf(x, ms) \in Nat /\ UseOf(x, now) \in Nat /\ UseOf(x, ms) <= UseOf(x, now)
    OBVIOUS
  <2>1. UseOf(x, ms) \in Nat
    BY UseOfType
  <2>2. UseOf(x, now) = IF x = w THEN UseOf(x, ms) + 1 ELSE UseOf(x, ms)
    BY UseOfAdded
  <2> QED
    BY <2>1, <2>2
<1>3. ASSUME NEW v, NEW cand, LeastUsed(v, cand, now) # {} PROVE LeastUsed(v, cand, ms) # {}
  <2>1. PICK p \in cand : PortUse(v, p, now) < MaxUse
    BY <1>1, <1>3, LeastUsedIs
  <2>2. PortUse(v, p, ms) < MaxUse
    BY <1>2, <2>1, VfcConstantsOK DEF PortUse
  <2> QED
    BY <2>2, LeastUsedIs
<1> QED
  BY <1>3 DEF UsableVioses

\* The VIOSes differ by one: those up to the last one used have a map more, and those that have
\* fewer are not usable any more.
ViosesEven(vs, wwpns, new, n, st) ==
  \E q \in Nat : \A k \in DOMAIN vs :
    LET has == Cardinality(OnVioSoFar(vs[k], new, n, st.maps)) IN
    LET share == IF k <= st.last THEN q + 1 ELSE q IN
    has \in Nat /\ has <= share /\ (k \in UsableVioses(vs, wwpns, st.maps) => has = share)

\* The next map keeps the VIOSes even.
LEMMA ViosesStayEven ==
  ASSUME NEW vs, ViosesFit(vs), NEW wwpns, NEW new, NEW i \in Nat, 0 < i, i \in new,
         NEW st, st.last \in Nat, IsFiniteSet(DOMAIN st.maps), new \cap (1 .. i - 1) \subseteq DOMAIN st.maps, i \notin DOMAIN st.maps,
         ViosesEven(vs, wwpns, new, i - 1, st), UsableVioses(vs, wwpns, st.maps) # {},
         NEW to, to.last = NextVios(UsableVioses(vs, wwpns, st.maps), st.last),
         NEW p \in DOMAIN vs[to.last].ports, to.maps = WithMap(st.maps, i, vs[to.last].ports[p].wwpn)
  PROVE  ViosesEven(vs, wwpns, new, i, to)
<1> DEFINE usable == UsableVioses(vs, wwpns, st.maps)
           l == to.last
           Has(k) == Cardinality(OnVioSoFar(vs[k], new, i - 1, st.maps))
           HasNow(k) == Cardinality(OnVioSoFar(vs[k], new, i, to.maps))
           Share(x, last, k) == IF k <= last THEN x + 1 ELSE x
<1>1. usable \in SUBSET Nat /\ usable \subseteq DOMAIN vs /\ DOMAIN vs \subseteq Nat
  BY DEF UsableVioses, ViosesFit
<1>2. l \in usable /\ IF \E j \in usable : j > st.last THEN l > st.last /\ \A j \in usable : j > st.last => l <= j
                      ELSE \A j \in usable : l <= j
  <2>1. l = NextVios(usable, st.last) /\ usable # {}
    OBVIOUS
  <2> HIDE DEF usable, l
  <2> QED
    BY <1>1, <2>1, NextViosIs
<1>3. UsableVioses(vs, wwpns, to.maps) \subseteq usable
  BY UsableNoMore
<1>4. PICK q \in Nat : \A k \in DOMAIN vs : Has(k) \in Nat /\ Has(k) <= Share(q, st.last, k) /\ (k \in usable => Has(k) = Share(q, st.last, k))
  BY DEF ViosesEven
<1>5. ASSUME NEW k \in DOMAIN vs PROVE Has(k) \in Nat /\ HasNow(k) = Has(k) + (IF k = l THEN 1 ELSE 0)
  <2>1. l \in DOMAIN vs
    BY <1>1, <1>2
  <2> DEFINE ms == st.maps
             now == to.maps
  <2>2. /\ now = WithMap(ms, i, vs[l].ports[p].wwpn) /\ p \in DOMAIN vs[l].ports
        /\ new \cap (1 .. i - 1) \subseteq DOMAIN ms
    OBVIOUS
  <2> HIDE DEF l, ms, now, usable
  <2>3. /\ Cardinality(OnVioSoFar(vs[k], new, i - 1, ms)) \in Nat
        /\ k = l => Cardinality(OnVioSoFar(vs[k], new, i, now)) = Cardinality(OnVioSoFar(vs[k], new, i - 1, ms)) + 1
        /\ k # l => Cardinality(OnVioSoFar(vs[k], new, i, now)) = Cardinality(OnVioSoFar(vs[k], new, i - 1, ms))
    BY <2>1, <2>2, OnVioAdded
  <2> QED
    BY <2>3 DEF ms, now
<1> HIDE DEF usable, l, Has, HasNow
<1>6. \E x \in Nat : \A k \in DOMAIN vs :
        HasNow(k) \in Nat /\ HasNow(k) <= Share(x, l, k) /\ (k \in usable => HasNow(k) = Share(x, l, k))
  <2>1. CASE \E j \in usable : j > st.last
    <3>1. l > st.last /\ l \in Nat /\ \A j \in usable : j > st.last => l <= j
      BY <1>1, <1>2, <2>1
    <3>2. ASSUME NEW k \in DOMAIN vs
          PROVE  HasNow(k) \in Nat /\ HasNow(k) <= Share(q, l, k) /\ (k \in usable => HasNow(k) = Share(q, l, k))
      <4>1. k \in Nat /\ Has(k) \in Nat /\ Has(k) <= Share(q, st.last, k) /\ (k \in usable => Has(k) = Share(q, st.last, k))
        BY <1>1, <1>4
      <4>2. HasNow(k) = Has(k) + (IF k = l THEN 1 ELSE 0)
        BY <1>5
      <4>3. k \in usable /\ k > st.last => l <= k
        BY <3>1
      <4> QED
        BY <3>1, <4>1, <4>2, <4>3, <1>2
    <3> QED
      BY <3>2
  <2>2. CASE ~\E j \in usable : j > st.last
    <3>1. l \in Nat /\ l <= st.last /\ \A j \in usable : l <= j
      BY <1>1, <1>2, <2>2
    <3>2. ASSUME NEW k \in DOMAIN vs
          PROVE  HasNow(k) \in Nat /\ HasNow(k) <= Share(q + 1, l, k) /\ (k \in usable => HasNow(k) = Share(q + 1, l, k))
      <4>1. k \in Nat /\ Has(k) \in Nat /\ Has(k) <= Share(q, st.last, k) /\ (k \in usable => Has(k) = Share(q, st.last, k))
        BY <1>1, <1>4
      <4>2. HasNow(k) = Has(k) + (IF k = l THEN 1 ELSE 0)
        BY <1>5
      <4>3. k \in usable => k <= st.last /\ l <= k
        BY <2>2, <3>1, <4>1
      <4> QED
        BY <3>1, <4>1, <4>2, <4>3
    <3>3. q + 1 \in Nat
      OBVIOUS
    <3> QED
      BY <3>2, <3>3
  <2> QED
    BY <2>1, <2>2
<1> QED
  BY <1>3, <1>6 DEF ViosesEven, HasNow, l

\* A port that was given is used at most once more than any other of its VIOS.
PortsEven(vs, wwpns, new, n, ms) ==
  \A k \in DOMAIN vs : \A j \in OnVioSoFar(vs[k], new, n, ms) : \A p \in PortsOnVio(vs[k], wwpns) :
    UseOf(ms[j], ms) <= PortUse(vs[k], p, ms) + 1

\* The next map keeps the ports even, as it is to one that is used least.
LEMMA PortsStayEven ==
  ASSUME NEW vs, ViosesFit(vs), NEW wwpns, NEW new, NEW i \in Nat, 0 < i, i \in new,
         NEW ms, IsFiniteSet(DOMAIN ms), new \cap (1 .. i - 1) \subseteq DOMAIN ms, i \notin DOMAIN ms,
         PortsEven(vs, wwpns, new, i - 1, ms),
         NEW l \in DOMAIN vs, NEW p \in LeastUsed(vs[l], PortsOnVio(vs[l], wwpns), ms),
         NEW now, now = WithMap(ms, i, vs[l].ports[p].wwpn)
  PROVE  PortsEven(vs, wwpns, new, i, now)
<1> DEFINE w == vs[l].ports[p].wwpn
<1>1. p \in DOMAIN vs[l].ports /\ \A q \in PortsOnVio(vs[l], wwpns) : UseOf(w, ms) <= PortUse(vs[l], q, ms)
  BY DEF LeastUsed, PortsOnVio, PortUse
<1>2. /\ \A x : UseOf(x, ms) \in Nat
      /\ UseOf(w, now) = UseOf(w, ms) + 1
      /\ \A x : x # w => UseOf(x, now) = UseOf(x, ms)
  <2> HIDE DEF w
  <2>1. \A x : UseOf(x, ms) \in Nat
    BY UseOfType
  <2>2. \A x : UseOf(x, now) = IF x = w THEN UseOf(x, ms) + 1 ELSE UseOf(x, ms)
    BY UseOfAdded DEF w
  <2> QED
    BY <2>1, <2>2
<1>3. \A x : UseOf(x, ms) \in Nat /\ UseOf(x, now) \in Nat /\ UseOf(x, ms) <= UseOf(x, now)
  <2> SUFFICES ASSUME NEW x PROVE UseOf(x, ms) \in Nat /\ UseOf(x, now) \in Nat /\ UseOf(x, ms) <= UseOf(x, now)
    OBVIOUS
  <2>1. CASE x = w
    BY <1>2, <2>1
  <2>2. CASE x # w
    BY <1>2, <2>2
  <2> QED
    BY <2>1, <2>2
<1>4. now[i] = w /\ \A j \in new \cap (1 .. i - 1) : now[j] = ms[j]
  BY DEF WithMap
<1>5. \A k \in DOMAIN vs : HasPort(vs[k], w) <=> k = l
  BY <1>1, PortIsOnOneVios
<1> HIDE DEF w
<1>6. ASSUME NEW k \in DOMAIN vs, NEW j \in OnVioSoFar(vs[k], new, i, now), NEW q \in PortsOnVio(vs[k], wwpns)
      PROVE  UseOf(now[j], now) <= PortUse(vs[k], q, now) + 1
  <2> DEFINE x == now[j]
             y == vs[k].ports[q].wwpn
  <2>0. HasPort(vs[k], x) /\ j \in new /\ j \in 1 .. i
    BY DEF OnVioSoFar
  <2>1. CASE x = w
    <3>1. k = l
      BY <1>5, <2>0, <2>1
    <3>2. UseOf(w, ms) <= UseOf(y, ms)
      BY <1>1, <3>1 DEF PortUse
    <3> HIDE DEF x, y
    <3>3. UseOf(x, now) <= UseOf(y, now) + 1
      BY <1>2, <1>3, <2>1, <3>2
    <3> QED
      BY <3>3 DEF x, y, PortUse
  <2>2. CASE x # w
    <3>1. j \in new \cap (1 .. i - 1) /\ now[j] = ms[j]
      BY <1>4, <2>0, <2>2
    <3>2. j \in OnVioSoFar(vs[k], new, i - 1, ms)
      BY <2>0, <3>1 DEF OnVioSoFar
    <3>3. UseOf(x, ms) <= UseOf(y, ms) + 1
      BY <3>1, <3>2 DEF PortsEven, PortUse
    <3> HIDE DEF x, y
    <3>4. UseOf(x, now) <= UseOf(y, now) + 1
      BY <1>2, <1>3, <2>2, <3>3
    <3> QED
      BY <3>4 DEF x, y, PortUse
  <2> QED
    BY <2>1, <2>2
<1> QED
  BY <1>6 DEF PortsEven

\* Each new map is to a port that was asked for.
FromAsked(vs, wwpns, new, n, ms) ==
  \A j \in new \cap (1 .. n) : \E k \in DOMAIN vs : \E p \in PortsOnVio(vs[k], wwpns) : ms[j] = vs[k].ports[p].wwpn

SharedOut(vs, wwpns, old, new, n, st) ==
  /\ DOMAIN st.maps = DOMAIN old \cup (new \cap (1 .. n))
  /\ FromAsked(vs, wwpns, new, n, st.maps)
  /\ ViosesEven(vs, wwpns, new, n, st)
  /\ PortsEven(vs, wwpns, new, n, st.maps)

\* Before the first map there is nothing to share out.
LEMMA SharedAtFirst ==
  ASSUME NEW vs, ViosesFit(vs), NEW wwpns, NEW old, NEW new
  PROVE  SharedOut(vs, wwpns, old, new, 0, NoMapYet(old))
<1>1. new \cap (1 .. 0) = {}
  OBVIOUS
<1>2. \A v : OnVioSoFar(v, new, 0, old) = {}
  BY <1>1 DEF OnVioSoFar
<1>3. Cardinality({}) = 0
  BY FS_EmptySet
<1>4. ViosesEven(vs, wwpns, new, 0, NoMapYet(old))
  <2>1. \A k \in DOMAIN vs : ~(k <= 0)
    BY DEF ViosesFit
  <2>2. NoMapYet(old).last = 0 /\ NoMapYet(old).maps = old
    BY DEF NoMapYet
  <2>3. \A k \in DOMAIN vs : Cardinality(OnVioSoFar(vs[k], new, 0, NoMapYet(old).maps)) = 0
    BY <1>2, <1>3, <2>2
  <2>4. \A k \in DOMAIN vs : ~(k <= NoMapYet(old).last)
    BY <2>1, <2>2
  <2> QED
    BY <2>3, <2>4 DEF ViosesEven
<1> QED
  BY <1>1, <1>2, <1>4 DEF SharedOut, FromAsked, PortsEven, NoMapYet

\* The next map leaves all shared out.
LEMMA StaysShared ==
  ASSUME NEW vs, ViosesFit(vs), NEW wwpns, NEW old, NEW new, NEW N \in Nat, NEW i \in 1 .. N, i \in new, i \notin DOMAIN old,
         NEW st \in DeriveStates(vs, N, OldAndOwn(vs, old)),
         SharedOut(vs, wwpns, old, new, i - 1, st), AddOneMap(vs, wwpns, st, i).ok
  PROVE  SharedOut(vs, wwpns, old, new, i, AddOneMap(vs, wwpns, st, i))
<1> DEFINE to == AddOneMap(vs, wwpns, st, i)
           usable == UsableVioses(vs, wwpns, st.maps)
           l == to.last
           ms == st.maps
           now == to.maps
<1>1. /\ usable # {} /\ to.last = NextVios(usable, st.last) /\ l \in usable
      /\ \E p \in LeastUsed(vs[l], PortsOnVio(vs[l], wwpns), ms) : now = WithMap(ms, i, vs[l].ports[p].wwpn)
  BY MapAdded
<1> HIDE DEF to
<1>2. PICK p \in LeastUsed(vs[l], PortsOnVio(vs[l], wwpns), ms) : now = WithMap(ms, i, vs[l].ports[p].wwpn)
  BY <1>1
<1>3. l \in DOMAIN vs /\ p \in PortsOnVio(vs[l], wwpns) /\ p \in DOMAIN vs[l].ports
  BY <1>1 DEF UsableVioses, LeastUsed, PortsOnVio
<1>4. st.last \in Nat /\ IsFiniteSet(DOMAIN ms)
  <2>1. st.maps \in PortMaps(N, OldAndOwn(vs, old)) /\ st.last \in Nat
    BY DEF DeriveStates
  <2> QED
    BY <2>1, PortMapsAre
<1>5. new \cap (1 .. i) = (new \cap (1 .. i - 1)) \cup {i} /\ i \notin 1 .. i - 1 /\ i \in Nat /\ 0 < i
  OBVIOUS
<1>6. DOMAIN ms = DOMAIN old \cup (new \cap (1 .. i - 1)) /\ i \notin DOMAIN ms
  BY <1>5 DEF SharedOut
<1>7. DOMAIN now = DOMAIN old \cup (new \cap (1 .. i))
  BY <1>2, <1>5, <1>6 DEF WithMap
<1>8. FromAsked(vs, wwpns, new, i, now)
  <2>1. now[i] = vs[l].ports[p].wwpn /\ \A j \in new \cap (1 .. i - 1) : now[j] = ms[j]
    BY <1>2, <1>5, <1>6 DEF WithMap
  <2>2. FromAsked(vs, wwpns, new, i - 1, ms)
    BY DEF SharedOut
  <2> HIDE DEF now, ms, l
  <2> QED
    BY <1>3, <1>5, <2>1, <2>2 DEF FromAsked
<1>9. ViosesEven(vs, wwpns, new, i, to)
  <2>1. ViosesEven(vs, wwpns, new, i - 1, st)
    BY DEF SharedOut
  <2> QED
    BY <1>1, <1>2, <1>3, <1>4, <1>5, <1>6, <2>1, ViosesStayEven
<1>10. PortsEven(vs, wwpns, new, i, now)
  <2>1. PortsEven(vs, wwpns, new, i - 1, ms)
    BY DEF SharedOut
  <2>2. new \cap (1 .. i - 1) \subseteq DOMAIN ms
    BY <1>6
  <2> HIDE DEF now, ms, l
  <2> QED
    BY <1>2, <1>3, <1>4, <1>5, <1>6, <2>1, <2>2, PortsStayEven
<1> QED
  BY <1>7, <1>8, <1>9, <1>10 DEF SharedOut, to

\* A derivation that succeeds has shared out the ports.
LEMMA DeriveIsEven ==
  ASSUME NEW vs, ViosesFit(vs), NEW wwpns, NEW N \in Nat, NEW new \in SUBSET (1 .. N), NEW old,
         old \in PortMaps(N, OldAndOwn(vs, old)), new \cap DOMAIN old = {}, Derive(vs, wwpns, old, new, N).ok
  PROVE  /\ SharedOut(vs, wwpns, old, new, N, Derive(vs, wwpns, old, new, N))
         /\ Derive(vs, wwpns, old, new, N) \in DeriveStates(vs, N, OldAndOwn(vs, old))
<1>1. PICK f : Derives(vs, wwpns, old, new, N, f) /\ Derive(vs, wwpns, old, new, N) = f[N]
  BY DeriveBySteps
<1>2. f[0] = NoMapYet(old) /\ \A i \in 0 .. N : f[i] \in DeriveStates(vs, N, OldAndOwn(vs, old))
  BY <1>1 DEF Derives
<1> DEFINE T == {n \in 0 .. N : f[n].ok => SharedOut(vs, wwpns, old, new, n, f[n])}
<1>3. 0 \in T
  BY <1>2, SharedAtFirst
<1>4. ASSUME NEW i \in 1 .. N, i - 1 \in T PROVE i \in T
  <2>1. i \in 0 .. N /\ i - 1 \in 0 .. N /\ (f[i - 1].ok => SharedOut(vs, wwpns, old, new, i - 1, f[i - 1]))
    BY <1>4
  <2>2. f[i] = IF i \in new THEN AddOneMap(vs, wwpns, f[i - 1], i) ELSE f[i - 1]
    BY <1>1 DEF Derives
  <2>3. CASE i \in new
    <3>1. f[i].ok => f[i - 1].ok
      BY <1>2, <2>1, <2>2, <2>3, MapAdded
    <3>2. i \notin DOMAIN old
      BY <2>3
    <3>3. f[i].ok => SharedOut(vs, wwpns, old, new, i, f[i])
      BY <1>2, <2>1, <2>2, <2>3, <3>1, <3>2, StaysShared
    <3> QED
      BY <2>1, <3>3
  <2>4. CASE i \notin new
    <3>1. new \cap (1 .. i) = new \cap (1 .. i - 1)
      BY <2>4
    <3>2. \A v, ms : OnVioSoFar(v, new, i, ms) = OnVioSoFar(v, new, i - 1, ms)
      BY <3>1 DEF OnVioSoFar
    <3>3. SharedOut(vs, wwpns, old, new, i - 1, f[i - 1]) => SharedOut(vs, wwpns, old, new, i, f[i - 1])
      BY <3>1, <3>2 DEF SharedOut, FromAsked, ViosesEven, PortsEven
    <3> QED
      BY <2>1, <2>2, <2>4, <3>3
  <2> QED
    BY <2>3, <2>4
<1>5. N \in T
  <2> HIDE DEF T
  <2>1. \A n \in 0 .. N : n \in T
    BY <1>3, <1>4, UpToN
  <2> QED
    BY <2>1
<1> QED
  BY <1>1, <1>2, <1>5

\* The VIOSes of a system are such a list, and so is each of them alone.
LEMMA SystemsFit ==
  ASSUME NEW vs \in Systems
  PROVE  ViosesFit(vs) /\ \A k \in DOMAIN vs : ViosesFit(<<vs[k]>>)
<1>1. ViosesFit(vs)
  BY SystemsAreLists, WwpnsIdentify DEF ViosesFit
<1>2. ASSUME NEW k \in DOMAIN vs PROVE ViosesFit(<<vs[k]>>)
  <2> DEFINE v == vs[k]
             one == <<v>>
  <2>1. DOMAIN one = {1} /\ DOMAIN one = 1 .. Len(one) /\ Len(one) = 1 /\ one[1] = v
    OBVIOUS
  <2>2. DOMAIN v.ports = 1 .. Len(v.ports) /\ Len(v.ports) \in Nat /\ \A p \in DOMAIN v.ports : v.ports[p].avail \in Nat
    BY <1>1 DEF ViosesFit
  <2>3. \A p, q \in DOMAIN v.ports : SanitizedWwpn(v.ports[p].wwpn) = SanitizedWwpn(v.ports[q].wwpn) => p = q
    BY <1>1 DEF ViosesFit
  <2> HIDE DEF v, one
  <2>4. ViosesFit(one)
    BY <2>1, <2>2, <2>3 DEF ViosesFit
  <2> QED
    BY <2>4 DEF one, v
<1> QED
  BY <1>1, <1>2

\* derive_npiv_map shares out the ports evenly: see Spread.
LEMMA DerivedIsSpread ==
  ASSUME vioses \in Systems, NEW r \in Plans, NEW d, d.req = r, d.new = NewPairs(r),
         DeriveNpivMap(r).ok, d.maps = DeriveNpivMap(r).maps
  PROVE  /\ \A i \in d.new : i \in DOMAIN d.maps /\ \E v \in ToSet(vioses) : \E p \in Asked(d, v) : v.ports[p].wwpn = d.maps[i]
         /\ \A v, w \in ToSet(vioses) :
              \/ Cardinality(Chosen(d, v)) <= Cardinality(Chosen(d, w)) + 1
              \/ \A p \in Asked(d, w) : PortUse(w, p, d.maps) >= MaxUse
         /\ \A v \in ToSet(vioses) : \A i \in Chosen(d, v) : \A p \in Asked(d, v) :
              UseOf(d.maps[i], d.maps) <= PortUse(v, p, d.maps) + 1
<1> DEFINE N == Len(r.pairs)
           new == NewPairs(r)
           old == Preserved(r)
           wwpns == {SanitizedWwpn(w) : w \in r.ports}
           st == Derive(vioses, wwpns, old, new, N)
           ms == d.maps
<1>1. N \in Nat /\ new \in SUBSET (1 .. N)
  BY PlansAreLists DEF NewPairs
<1>2. DOMAIN old \subseteq 1 .. N /\ new \cap DOMAIN old = {}
  BY PlansAreLists DEF Preserved
<1>3. old \in PortMaps(N, OldAndOwn(vioses, old))
  <2>1. old \in [DOMAIN old -> {old[i] : i \in DOMAIN old}]
    BY DEF Preserved
  <2> HIDE DEF old
  <2>2. old \in [DOMAIN old -> OldAndOwn(vioses, old)]
    BY <2>1 DEF OldAndOwn
  <2> HIDE DEF N
  <2> QED
    BY <1>2, <2>2 DEF PortMaps
<1>4. ViosesFit(vioses)
  BY SystemsFit
<1>5. DeriveNpivMap(r) = st
  BY DEF DeriveNpivMap
<1> HIDE DEF N, new, old, wwpns, st
<1>6. SharedOut(vioses, wwpns, old, new, N, st) /\ st \in DeriveStates(vioses, N, OldAndOwn(vioses, old))
  BY <1>1, <1>2, <1>3, <1>4, <1>5, DeriveIsEven DEF st
<1>7. ms = st.maps /\ IsFiniteSet(DOMAIN ms)
  <2>1. st.maps \in PortMaps(N, OldAndOwn(vioses, old))
    BY <1>6 DEF DeriveStates
  <2> QED
    BY <1>1, <1>5, <2>1, PortMapsAre
<1>8. \A v : Asked(d, v) = PortsOnVio(v, wwpns) /\ Chosen(d, v) = OnVioSoFar(v, new, N, ms)
  <2>1. new \cap (1 .. N) = new /\ d.new = new
    BY <1>1 DEF new
  <2> QED
    BY <2>1 DEF Asked, Chosen, OnVioSoFar, wwpns
<1>9. \A v \in ToSet(vioses) : \E k \in DOMAIN vioses : v = vioses[k]
  BY DEF ToSet
<1>10. \A k \in DOMAIN vioses : vioses[k] \in ToSet(vioses)
  BY DEF ToSet
<1>11. ASSUME NEW i \in d.new
       PROVE  i \in DOMAIN ms /\ \E v \in ToSet(vioses) : \E p \in Asked(d, v) : v.ports[p].wwpn = ms[i]
  <2>1. i \in new \cap (1 .. N)
    BY <1>1 DEF new
  <2>2. i \in DOMAIN ms
    BY <1>6, <1>7, <2>1 DEF SharedOut
  <2>3. PICK k \in DOMAIN vioses : \E p \in PortsOnVio(vioses[k], wwpns) : ms[i] = vioses[k].ports[p].wwpn
    BY <1>6, <1>7, <2>1 DEF SharedOut, FromAsked
  <2> QED
    BY <1>8, <1>10, <2>2, <2>3
<1>12. ASSUME NEW v \in ToSet(vioses), NEW w \in ToSet(vioses)
       PROVE  \/ Cardinality(Chosen(d, v)) <= Cardinality(Chosen(d, w)) + 1
              \/ \A p \in Asked(d, w) : PortUse(w, p, ms) >= MaxUse
  <2> DEFINE Has(k) == Cardinality(OnVioSoFar(vioses[k], new, N, ms))
  <2>1. PICK k \in DOMAIN vioses, l \in DOMAIN vioses : v = vioses[k] /\ w = vioses[l]
    BY <1>9
  <2>2. PICK q \in Nat : \A j \in DOMAIN vioses :
          Has(j) \in Nat /\ Has(j) <= q + 1 /\ (j \in UsableVioses(vioses, wwpns, ms) => Has(j) >= q)
    <3>1. ViosesEven(vioses, wwpns, new, N, st)
      BY <1>6 DEF SharedOut
    <3>2. PICK q \in Nat : \A j \in DOMAIN vioses : LET share == IF j <= st.last THEN q + 1 ELSE q IN
            Has(j) \in Nat /\ Has(j) <= share /\ (j \in UsableVioses(vioses, wwpns, ms) => Has(j) = share)
      BY <1>7, <3>1 DEF ViosesEven
    <3> HIDE DEF Has, ms
    <3> QED
      BY <3>2
  <2>3. Cardinality(Chosen(d, v)) = Has(k) /\ Cardinality(Chosen(d, w)) = Has(l)
    BY <1>8, <2>1
  <2>4. CASE l \in UsableVioses(vioses, wwpns, ms)
    <3> HIDE DEF Has
    <3>1. Has(k) <= Has(l) + 1
      BY <2>2, <2>4
    <3> QED
      BY <2>3, <3>1
  <2>5. CASE l \notin UsableVioses(vioses, wwpns, ms)
    <3>1. ~\E p \in PortsOnVio(w, wwpns) : PortUse(w, p, ms) < MaxUse
      BY <1>7, <2>1, <2>5, LeastUsedIs DEF UsableVioses
    <3>2. \A p : PortUse(w, p, ms) \in Nat
      BY <1>7, UseOfType DEF PortUse
    <3> QED
      BY <1>8, <3>1, <3>2, VfcConstantsOK
  <2> QED
    BY <2>4, <2>5
<1>13. ASSUME NEW v \in ToSet(vioses), NEW i \in Chosen(d, v), NEW p \in Asked(d, v)
       PROVE  UseOf(ms[i], ms) <= PortUse(v, p, ms) + 1
  <2>1. PICK k \in DOMAIN vioses : v = vioses[k]
    BY <1>9
  <2>2. PortsEven(vioses, wwpns, new, N, ms)
    BY <1>6, <1>7 DEF SharedOut
  <2> QED
    BY <1>8, <2>1, <2>2 DEF PortsEven
<1> QED
  BY <1>11, <1>12, <1>13

\* n maps on one VIOS, if at least n of its ports were asked for: each to a port of its own.
\* If two had the same, each port would have one, more than there are.
LEMMA PortsOfOneVios ==
  ASSUME NEW vs \in Systems, NEW k \in DOMAIN vs, NEW fm, IsFiniteSet(fm.slots),
         Cardinality(fm.slots) <= Cardinality(PortsOnVio(vs[k], fm.ports)), FabricMap(vs[k], fm).ok
  PROVE  LET ms == FabricMap(vs[k], fm).maps
             asked == {SanitizedWwpn(w) : w \in fm.ports}
         IN /\ \A j \in 1 .. Cardinality(fm.slots) : \E p \in PortsOnVio(vs[k], asked) : ms[j] = vs[k].ports[p].wwpn
            /\ \A i, j \in 1 .. Cardinality(fm.slots) : ms[i] = ms[j] => i = j
<1> DEFINE v == vs[k]
           one == <<v>>
           N == Cardinality(fm.slots)
           wwpns == {SanitizedWwpn(w) : w \in fm.ports}
           st == Derive(one, wwpns, <<>>, 1 .. N, N)
           ms == st.maps
           cand == PortsOnVio(v, wwpns)
           P == OldAndOwn(one, <<>>)
           J == 1 .. N
<1>1. N \in Nat
  BY FS_CardinalityType
<1>2. FabricMap(v, fm) = st /\ st.ok
  BY DEF FabricMap, DeriveBase
<1>3. ViosesFit(one) /\ DOMAIN one = {1} /\ one[1] = v
  BY SystemsFit
<1>4. SharedOut(one, wwpns, <<>>, J, N, st) /\ st \in DeriveStates(one, N, P)
  <2>1. <<>> \in PortMaps(N, P)
    <3>1. <<>> \in [{} -> P]
      BY SMT
    <3>2. {} \in SUBSET (1 .. N)
      OBVIOUS
    <3> HIDE DEF N, P
    <3> QED
      BY <3>1, <3>2 DEF PortMaps
  <2>2. J \cap DOMAIN <<>> = {} /\ J \in SUBSET (1 .. N)
    OBVIOUS
  <2> HIDE DEF one, N, wwpns, J
  <2> QED
    BY <1>1, <1>2, <1>3, <2>1, <2>2, DeriveIsEven DEF J
<1>5. IsFiniteSet(DOMAIN ms) /\ DOMAIN ms = J
  <2>1. ms \in PortMaps(N, P)
    BY <1>4 DEF DeriveStates
  <2>2. DOMAIN ms = DOMAIN <<>> \cup (J \cap (1 .. N))
    BY <1>4 DEF SharedOut
  <2>3. DOMAIN <<>> = {}
    OBVIOUS
  <2> HIDE DEF ms, N, P
  <2> QED
    BY <1>1, <2>1, <2>2, <2>3, PortMapsAre
<1> HIDE DEF st, J, P
<1>6. \A j \in J : \E p \in cand : ms[j] = v.ports[p].wwpn
  <2>1. \A j \in J \cap (1 .. N) : \E l \in DOMAIN one : \E p \in PortsOnVio(one[l], wwpns) : ms[j] = one[l].ports[p].wwpn
    BY <1>4 DEF SharedOut, FromAsked
  <2> HIDE DEF ms, N, wwpns, one, v
  <2> QED
    BY <1>3, <2>1 DEF J
<1>7. cand \subseteq DOMAIN v.ports /\ IsFiniteSet(cand) /\ N <= Cardinality(cand)
  <2>1. cand \subseteq DOMAIN v.ports /\ DOMAIN v.ports = 1 .. Len(v.ports) /\ Len(v.ports) \in Nat
    BY <1>3 DEF PortsOnVio, ViosesFit
  <2>2. IsFiniteSet(cand)
    <3> DEFINE L == Len(v.ports)
    <3>1. IsFiniteSet(1 .. L)
      <4>1. L \in Int /\ 1 \in Int
        BY <2>1
      <4> HIDE DEF L
      <4> QED
        BY <4>1, FS_Interval
    <3> QED
      BY <2>1, <3>1, FS_Subset
  <2>3. PortsOnVio(v, fm.ports) \subseteq cand
    <3>1. \A w : SanitizedWwpn(SanitizedWwpn(w)) = SanitizedWwpn(w)
      BY DEF SanitizedWwpn
    <3> QED
      BY <3>1 DEF PortsOnVio
  <2>4. Cardinality(PortsOnVio(v, fm.ports)) <= Cardinality(cand)
    BY <2>2, <2>3, FS_Subset
  <2>5. Cardinality(cand) \in Nat /\ Cardinality(PortsOnVio(v, fm.ports)) \in Nat
    BY <2>2, <2>3, FS_Subset, FS_CardinalityType
  <2> HIDE DEF cand, N
  <2>6. N <= Cardinality(cand)
    BY <1>1, <2>4, <2>5 DEF N
  <2> QED
    BY <2>1, <2>2, <2>6
<1>8. \A p, q \in cand : v.ports[p].wwpn = v.ports[q].wwpn => p = q
  BY <1>3, <1>7 DEF ViosesFit
<1>9. ASSUME NEW i \in J, NEW j \in J, ms[i] = ms[j], i # j PROVE FALSE
  <2>1. UseOf(ms[i], ms) >= 2
    <3> DEFINE same == {t \in DOMAIN ms : ms[t] = ms[i]}
    <3>1. IsFiniteSet(same)
      BY <1>5, FS_Subset
    <3>2. {i, j} \subseteq same
      BY <1>5, <1>9
    <3>3. Cardinality({i, j}) = 2
      <4>1. Cardinality({i}) = 1 /\ IsFiniteSet({i})
        BY FS_Singleton
      <4>2. {i, j} = {i} \cup {j} /\ j \notin {i}
        BY <1>9
      <4>3. Cardinality({i} \cup {j}) = Cardinality({i}) + 1
        <5> HIDE DEF J
        <5> QED
          BY <4>1, <4>2, FS_AddElement
      <4> QED
        BY <4>1, <4>2, <4>3
    <3>4. Cardinality({i, j}) <= Cardinality(same)
      BY <3>1, <3>2, FS_Subset
    <3> QED
      BY <3>1, <3>3, <3>4, FS_CardinalityType DEF UseOf
  <2>2. \A p \in cand : \E t \in J \ {j} : ms[t] = v.ports[p].wwpn
    <3> SUFFICES ASSUME NEW p \in cand PROVE \E t \in J \ {j} : ms[t] = v.ports[p].wwpn
      OBVIOUS
    <3>1. UseOf(ms[i], ms) <= PortUse(v, p, ms) + 1
      <4>1. HasPort(one[1], ms[i])
        <5>1. PICK q \in cand : ms[i] = v.ports[q].wwpn
          BY <1>6
        <5>2. q \in DOMAIN one[1].ports /\ ms[i] = one[1].ports[q].wwpn
          BY <1>3, <1>7, <5>1
        <5> HIDE DEF one
        <5> QED
          BY <1>3, <5>2, PortIsOnOneVios
      <4>2. i \in OnVioSoFar(one[1], J, N, ms)
        BY <4>1 DEF OnVioSoFar, J
      <4>3. PortsEven(one, wwpns, J, N, ms)
        BY <1>4 DEF SharedOut
      <4> HIDE DEF ms, N, wwpns, one
      <4> QED
        BY <1>3, <4>2, <4>3 DEF PortsEven
    <3>2. PortUse(v, p, ms) \in Nat /\ UseOf(ms[i], ms) \in Nat
      BY <1>5, UseOfType DEF PortUse
    <3>3. PortUse(v, p, ms) # 0
      BY <2>1, <3>1, <3>2
    <3>4. {t \in DOMAIN ms : ms[t] = v.ports[p].wwpn} # {}
      BY <3>3, FS_EmptySet DEF PortUse, UseOf
    <3>5. PICK t \in J : ms[t] = v.ports[p].wwpn
      BY <1>5, <3>4
    <3>6. CASE t = j
      BY <1>9, <3>5, <3>6
    <3>7. CASE t # j
      BY <3>5, <3>7
    <3> QED
      BY <3>6, <3>7
  <2> DEFINE g == [p \in cand |-> CHOOSE t \in J \ {j} : ms[t] = v.ports[p].wwpn]
  <2>3. \A p \in cand : g[p] \in J \ {j} /\ ms[g[p]] = v.ports[p].wwpn
    BY <2>2
  <2>4. g \in Injection(cand, J \ {j})
    <3>1. g \in [cand -> J \ {j}]
      BY <2>3
    <3>2. \A p, q \in cand : g[p] = g[q] => p = q
      <4> HIDE DEF g, cand, ms, v
      <4> QED
        BY <1>8, <2>3
    <3> HIDE DEF g, cand
    <3> QED
      BY <3>1, <3>2 DEF Injection, IsInjective
  <2>5. IsFiniteSet(J) /\ Cardinality(J) = N
    BY <1>1, FS_Interval DEF J
  <2>6. IsFiniteSet(J \ {j}) /\ Cardinality(J \ {j}) = N - 1
    BY <1>9, <2>5, FS_RemoveElement
  <2>7. Cardinality(cand) <= Cardinality(J \ {j})
    <3> HIDE DEF g, cand
    <3> QED
      BY <2>4, <2>6, FS_Injection
  <2>8. Cardinality(cand) \in Nat
    BY <1>7, FS_CardinalityType
  <2> HIDE DEF cand, N
  <2> QED
    BY <1>1, <1>7, <2>6, <2>7, <2>8
<1>10. ms = FabricMap(vs[k], fm).maps
  BY <1>2
<1> HIDE DEF ms
<1> QED
  BY <1>6, <1>9, <1>10 DEF J

\* The place of a slot among those of its fabric is its own.
LEMMA PlacesAreOwn ==
  ASSUME NEW slots, IsFiniteSet(slots), slots \subseteq Nat, NEW s \in slots
  PROVE  SlotRank(slots, s) \in 1 .. Cardinality(slots) /\ \A t \in slots : SlotRank(slots, s) = SlotRank(slots, t) => s = t
<1> DEFINE Upto(t) == {u \in slots : u <= t}
<1>1. \A t \in slots : IsFiniteSet(Upto(t)) /\ Upto(t) \subseteq slots /\ t \in Upto(t)
  BY FS_Subset
<1>2. ASSUME NEW t \in slots, NEW u \in slots, t < u PROVE Cardinality(Upto(t)) < Cardinality(Upto(u))
  <2>1. Upto(t) \subseteq Upto(u) /\ u \notin Upto(t) /\ u \in Upto(u)
    <3>1. t \in Nat /\ u \in Nat /\ \A x \in slots : x \in Nat
      OBVIOUS
    <3>2. \A x \in slots : x <= t => x <= u
      BY <1>2, <3>1
    <3>3. ~(u <= t) /\ u <= u
      BY <1>2, <3>1
    <3> QED
      BY <3>2, <3>3
  <2> HIDE DEF Upto
  <2>2. Upto(t) # Upto(u)
    BY <2>1
  <2>3. Cardinality(Upto(t)) <= Cardinality(Upto(u)) /\ (Cardinality(Upto(t)) = Cardinality(Upto(u)) => Upto(t) = Upto(u))
    BY <1>1, <2>1, FS_Subset
  <2>4. Cardinality(Upto(t)) \in Nat /\ Cardinality(Upto(u)) \in Nat
    BY <1>1, FS_CardinalityType
  <2> QED
    BY <2>2, <2>3, <2>4
<1>3. Cardinality(Upto(s)) \in 1 .. Cardinality(slots)
  <2> HIDE DEF Upto
  <2>1. Cardinality(Upto(s)) \in Nat /\ Cardinality(slots) \in Nat /\ Cardinality(Upto(s)) <= Cardinality(slots)
    BY <1>1, FS_Subset, FS_CardinalityType
  <2>2. Cardinality(Upto(s)) # 0
    BY <1>1, FS_EmptySet
  <2> QED
    BY <2>1, <2>2
<1>4. ASSUME NEW t \in slots, Cardinality(Upto(s)) = Cardinality(Upto(t)) PROVE s = t
  <2>1. s \in Nat /\ t \in Nat /\ Cardinality(Upto(s)) \in Nat
    BY <1>1, FS_CardinalityType
  <2>2. ~(s < t) /\ ~(t < s)
    <3> HIDE DEF Upto
    <3> QED
      BY <1>2, <1>4, <2>1
  <2> QED
    BY <2>1, <2>2
<1> QED
  BY <1>3, <1>4 DEF SlotRank

\* The mapping of a slot of one group and one fabric.
FabricPart(r, order, i, f) == [slots |-> r.fabrics[f].slots \cap order[i], ports |-> r.fabrics[f].ports]
MappingOf(r, order, at, i, f, s) ==
  LET fm == FabricPart(r, order, i, f) IN
  [slot |-> s, vios |-> vioses[at[i]].name, port |-> FabricMap(vioses[at[i]], fm).maps[SlotRank(fm.slots, s)]]
SlotsAt(r, order, i, f) == FabricPart(r, order, i, f).slots

\* The mappings of a migration are those of the slots of its groups.
LEMMA MappingsAre ==
  ASSUME NEW r, NEW order, NEW at, NEW m
  PROVE  m \in MigrationMappings(Placed(r, order, at)) <=>
           \E i \in DOMAIN order, f \in DOMAIN r.fabrics : \E s \in SlotsAt(r, order, i, f) : m = MappingOf(r, order, at, i, f, s)
<1>1. \A i \in DOMAIN order, f \in DOMAIN r.fabrics :
        (f \in DOMAIN SplitMap(r, order[i]) <=> SlotsAt(r, order, i, f) # {})
        /\ (SlotsAt(r, order, i, f) # {} => SplitMap(r, order[i])[f] = FabricPart(r, order, i, f))
  BY DEF SplitMap, FabricPart, SlotsAt
<1>2. \A i \in DOMAIN order : DOMAIN SplitMap(r, order[i]) \subseteq DOMAIN r.fabrics
  BY DEF SplitMap
<1>3. \A i \in DOMAIN order, f \in DOMAIN r.fabrics :
        m \in FabricMaps(vioses[at[i]], FabricPart(r, order, i, f)) <=>
          \E s \in SlotsAt(r, order, i, f) : m = MappingOf(r, order, at, i, f, s)
  BY DEF FabricMaps, MappingOf, SlotsAt
<1>4. ASSUME m \in MigrationMappings(Placed(r, order, at))
      PROVE  \E i \in DOMAIN order, f \in DOMAIN r.fabrics : \E s \in SlotsAt(r, order, i, f) : m = MappingOf(r, order, at, i, f, s)
  <2>1. PICK x \in Placed(r, order, at) : m \in FabricMaps(x[1], x[2])
    BY <1>4 DEF MigrationMappings
  <2>2. PICK i \in DOMAIN order : \E f \in DOMAIN SplitMap(r, order[i]) : x = <<vioses[at[i]], SplitMap(r, order[i])[f]>>
    BY DEF Placed
  <2>3. PICK f \in DOMAIN SplitMap(r, order[i]) : x = <<vioses[at[i]], SplitMap(r, order[i])[f]>>
    BY <2>2
  <2>4. x[1] = vioses[at[i]] /\ x[2] = FabricPart(r, order, i, f) /\ f \in DOMAIN r.fabrics
    BY <1>1, <1>2, <2>3
  <2> QED
    BY <1>3, <2>1, <2>4
<1>5. ASSUME NEW i \in DOMAIN order, NEW f \in DOMAIN r.fabrics, NEW s \in SlotsAt(r, order, i, f), m = MappingOf(r, order, at, i, f, s)
      PROVE  m \in MigrationMappings(Placed(r, order, at))
  <2> DEFINE x == <<vioses[at[i]], FabricPart(r, order, i, f)>>
  <2>1. f \in DOMAIN SplitMap(r, order[i]) /\ x = <<vioses[at[i]], SplitMap(r, order[i])[f]>>
    BY <1>1
  <2>2. x \in Placed(r, order, at)
    BY <2>1 DEF Placed
  <2>3. m \in FabricMaps(x[1], x[2])
    BY <1>3, <1>5
  <2> HIDE DEF x
  <2> QED
    BY <2>2, <2>3 DEF MigrationMappings
<1> QED
  BY <1>4, <1>5

\* Groups are on VIOSes of their own, and each group is somewhere.
LEMMA GroupsArePlaced ==
  ASSUME NEW r \in Migrations, NEW order \in LargestFirst(r.peers), NEW at, FirstFit(r, order, at)
  PROVE  /\ \A g \in r.peers : \E i \in DOMAIN order : order[i] = g
         /\ \A i \in DOMAIN order : order[i] \in r.peers /\ Supports(vioses[at[i]], SplitMap(r, order[i]))
         /\ \A i, j \in DOMAIN order : order[i] = order[j] \/ at[i] = at[j] => i = j
<1>1. order \in SetToSeqs(r.peers) /\ IsFiniteSet(r.peers)
  BY MigrationsOK DEF LargestFirst
<1>2. DOMAIN order = 1 .. Cardinality(r.peers) /\ (\A i \in DOMAIN order : order[i] \in r.peers)
  BY <1>1 DEF SetToSeqs
<1>3. ASSUME r.peers # {} PROVE EachOnce(r.peers, order)
  BY <1>1, <1>3, EachComesOnce
<1>4. DOMAIN order \subseteq Nat
  BY <1>2
<1>5. \A i, j \in DOMAIN order : at[i] = at[j] => i = j
  <2>1. \A i, j \in DOMAIN order : j < i => at[j] # at[i]
    BY DEF FirstFit, FreeFor
  <2> QED
    BY <1>4, <2>1
<1>6. \A i, j \in DOMAIN order : order[i] = order[j] => i = j
  BY <1>1 DEF SetToSeqs
<1>7. \A g \in r.peers : \E i \in DOMAIN order : order[i] = g
  <2> SUFFICES ASSUME NEW g \in r.peers PROVE \E i \in DOMAIN order : order[i] = g
    OBVIOUS
  <2>1. \E i \in 1 .. Len(order) : order[i] = g
    BY <1>3 DEF EachOnce
  <2>2. 1 .. Len(order) = DOMAIN order
    BY <1>3 DEF EachOnce
  <2> QED
    BY <2>1, <2>2
<1>8. \A i \in DOMAIN order : Supports(vioses[at[i]], SplitMap(r, order[i]))
  BY DEF FirstFit, FreeFor
<1> QED
  BY <1>2, <1>5, <1>6, <1>7, <1>8

\* Each mapping is to a port of its fabric on the VIOS of its group; in a fabric and a group it is
\* that of no other slot.
LEMMA MappingIs ==
  ASSUME vioses \in Systems, NEW r \in Migrations, NEW order \in LargestFirst(r.peers),
         NEW at \in [DOMAIN order -> DOMAIN vioses], FirstFit(r, order, at),
         \A x \in Placed(r, order, at) : FabricMap(x[1], x[2]).ok,
         NEW i \in DOMAIN order, NEW f \in DOMAIN r.fabrics, NEW s \in SlotsAt(r, order, i, f)
  PROVE  LET m == MappingOf(r, order, at, i, f, s) IN
         /\ m.slot = s /\ m.vios = vioses[at[i]].name
         /\ \E p \in DOMAIN vioses[at[i]].ports :
              /\ m.port = vioses[at[i]].ports[p].wwpn
              /\ SanitizedWwpn(m.port) \in {SanitizedWwpn(w) : w \in r.fabrics[f].ports}
         /\ \A t \in SlotsAt(r, order, i, f) : MappingOf(r, order, at, i, f, t).port = m.port => t = s
<1> DEFINE fm == FabricPart(r, order, i, f)
           k == at[i]
           ms == FabricMap(vioses[k], fm).maps
           asked == {SanitizedWwpn(w) : w \in fm.ports}
<1>1. order[i] \in r.peers /\ Supports(vioses[k], SplitMap(r, order[i]))
  BY GroupsArePlaced
<1>2. f \in DOMAIN SplitMap(r, order[i]) /\ SplitMap(r, order[i])[f] = fm
  BY DEF SplitMap, FabricPart, SlotsAt
<1>3. IsFiniteSet(fm.slots) /\ fm.slots \subseteq Nat
  <2>1. IsFiniteSet(order[i]) /\ order[i] \subseteq Nat
    BY <1>1, MigrationsOK
  <2>2. fm.slots \subseteq order[i]
    BY DEF FabricPart
  <2> QED
    BY <2>1, <2>2, FS_Subset
<1>4. Cardinality(fm.slots) <= Cardinality(PortsOnVio(vioses[k], fm.ports))
  <2>1. Cardinality(PortsOnVio(vioses[k], fm.ports)) >= Cardinality(fm.slots)
    <3> HIDE DEF fm
    <3> QED
      BY <1>1, <1>2 DEF Supports
  <2> QED
    BY <2>1
<1>5. FabricMap(vioses[k], fm).ok
  <2> DEFINE x == <<vioses[k], fm>>
  <2>1. x \in Placed(r, order, at)
    BY <1>2 DEF Placed
  <2>2. x[1] = vioses[k] /\ x[2] = fm
    OBVIOUS
  <2> HIDE DEF x, fm, k
  <2> QED
    BY <2>1, <2>2
<1>6. k \in DOMAIN vioses /\ fm.slots = SlotsAt(r, order, i, f)
  BY DEF SlotsAt
<1> HIDE DEF fm, k
<1>7. /\ \A j \in 1 .. Cardinality(fm.slots) : \E p \in PortsOnVio(vioses[k], asked) : ms[j] = vioses[k].ports[p].wwpn
      /\ \A a, b \in 1 .. Cardinality(fm.slots) : ms[a] = ms[b] => a = b
  BY <1>3, <1>4, <1>5, <1>6, PortsOfOneVios
<1>8. \A t \in fm.slots : SlotRank(fm.slots, t) \in 1 .. Cardinality(fm.slots) /\ \A u \in fm.slots : SlotRank(fm.slots, t) = SlotRank(fm.slots, u) => t = u
  BY <1>3, PlacesAreOwn
<1>9. \A t \in fm.slots : MappingOf(r, order, at, i, f, t) = [slot |-> t, vios |-> vioses[k].name, port |-> ms[SlotRank(fm.slots, t)]]
  BY DEF MappingOf, fm, k
<1>10. fm.ports = r.fabrics[f].ports
  BY DEF fm, FabricPart
<1> HIDE DEF ms
<1>11. PICK p \in PortsOnVio(vioses[k], asked) : ms[SlotRank(fm.slots, s)] = vioses[k].ports[p].wwpn
  BY <1>6, <1>7, <1>8
<1>12. p \in DOMAIN vioses[k].ports /\ SanitizedWwpn(vioses[k].ports[p].wwpn) \in {SanitizedWwpn(w) : w \in r.fabrics[f].ports}
  BY <1>10, <1>11 DEF PortsOnVio
<1>13. \A t \in fm.slots : ms[SlotRank(fm.slots, t)] = ms[SlotRank(fm.slots, s)] => t = s
  BY <1>6, <1>7, <1>8
<1> DEFINE m == MappingOf(r, order, at, i, f, s)
<1>14. m.slot = s /\ m.vios = vioses[k].name /\ m.port = vioses[k].ports[p].wwpn
  BY <1>6, <1>9, <1>11
<1>15. \A t \in fm.slots : MappingOf(r, order, at, i, f, t).port = ms[SlotRank(fm.slots, t)]
  BY <1>9
<1> HIDE DEF m
<1>16. \A t \in SlotsAt(r, order, i, f) : MappingOf(r, order, at, i, f, t).port = m.port => t = s
  BY <1>6, <1>11, <1>13, <1>14, <1>15
<1> QED
  BY <1>12, <1>14, <1>16 DEF m, k

\* build_migration_mappings keeps groups together and apart: see GroupsStayTogether.
LEMMA MigrationKeepsGroups ==
  ASSUME vioses \in Systems, NEW r \in Migrations, NEW order \in LargestFirst(r.peers),
         NEW at \in [DOMAIN order -> DOMAIN vioses], FirstFit(r, order, at),
         \A x \in Placed(r, order, at) : FabricMap(x[1], x[2]).ok,
         NEW d, d.req = r, d.maps = MigrationMappings(Placed(r, order, at))
  PROVE  /\ \A f \in DOMAIN d.req.fabrics : \A s \in d.req.fabrics[f].slots :
              \E m \in d.maps : m.slot = s /\ SanitizedWwpn(m.port) \in {SanitizedWwpn(w) : w \in d.req.fabrics[f].ports}
         /\ \A m, n \in d.maps :
              /\ (m.vios = n.vios) <=> SameGroup(d, m.slot, n.slot)
              /\ m.port = n.port => m = n
<1> DEFINE Map(i, f, s) == MappingOf(r, order, at, i, f, s)
           Slots(i, f) == SlotsAt(r, order, i, f)
           WithPort(i, f, s, p) ==
             /\ Map(i, f, s).port = vioses[at[i]].ports[p].wwpn
             /\ SanitizedWwpn(Map(i, f, s).port) \in {SanitizedWwpn(w) : w \in r.fabrics[f].ports}
<1>1. \A m : m \in d.maps <=> \E i \in DOMAIN order, f \in DOMAIN r.fabrics : \E s \in Slots(i, f) : m = Map(i, f, s)
  BY MappingsAre
<1>2. ASSUME NEW i \in DOMAIN order, NEW f \in DOMAIN r.fabrics, NEW s \in Slots(i, f)
      PROVE  /\ Map(i, f, s).slot = s /\ Map(i, f, s).vios = vioses[at[i]].name
             /\ \E p \in DOMAIN vioses[at[i]].ports : WithPort(i, f, s, p)
             /\ \A t \in Slots(i, f) : Map(i, f, t).port = Map(i, f, s).port => t = s
  BY MappingIs
<1>3. /\ \A g \in r.peers : \E i \in DOMAIN order : order[i] = g
      /\ \A i \in DOMAIN order : order[i] \in r.peers
      /\ \A i, j \in DOMAIN order : order[i] = order[j] \/ at[i] = at[j] => i = j
  BY GroupsArePlaced
<1>4. \A i \in DOMAIN order, f \in DOMAIN r.fabrics : Slots(i, f) = r.fabrics[f].slots \cap order[i]
  BY DEF SlotsAt, FabricPart
<1> HIDE DEF Map, Slots
<1>5. ASSUME NEW f \in DOMAIN r.fabrics, NEW s \in r.fabrics[f].slots
      PROVE  \E m \in d.maps : m.slot = s /\ SanitizedWwpn(m.port) \in {SanitizedWwpn(w) : w \in r.fabrics[f].ports}
  <2>1. PICK g \in r.peers : s \in g
    BY MigrationsOK
  <2>2. PICK i \in DOMAIN order : order[i] = g
    BY <1>3
  <2>3. s \in Slots(i, f)
    BY <1>4, <2>1, <2>2
  <2>4. Map(i, f, s) \in d.maps /\ Map(i, f, s).slot = s
    BY <1>1, <1>2, <2>3
  <2>5. SanitizedWwpn(Map(i, f, s).port) \in {SanitizedWwpn(w) : w \in r.fabrics[f].ports}
    BY <1>2, <2>3
  <2> QED
    BY <2>4, <2>5
<1>6. ASSUME NEW m \in d.maps, NEW n \in d.maps
      PROVE  ((m.vios = n.vios) <=> SameGroup(d, m.slot, n.slot)) /\ (m.port = n.port => m = n)
  <2>1. PICK i \in DOMAIN order, f \in DOMAIN r.fabrics : \E s \in Slots(i, f) : m = Map(i, f, s)
    BY <1>1
  <2>2. PICK s \in Slots(i, f) : m = Map(i, f, s)
    BY <2>1
  <2>3. PICK j \in DOMAIN order, g \in DOMAIN r.fabrics : \E t \in Slots(j, g) : n = Map(j, g, t)
    BY <1>1
  <2>4. PICK t \in Slots(j, g) : n = Map(j, g, t)
    BY <2>3
  <2>5. m.slot = s /\ m.vios = vioses[at[i]].name /\ n.slot = t /\ n.vios = vioses[at[j]].name
    BY <1>2, <2>2, <2>4
  <2>6. at[i] \in DOMAIN vioses /\ at[j] \in DOMAIN vioses
    OBVIOUS
  <2>7. s \in order[i] /\ t \in order[j] /\ order[i] \in r.peers /\ order[j] \in r.peers
    BY <1>3, <1>4
  <2>8. m.vios = n.vios <=> i = j
    BY <1>3, <2>5, <2>6, SystemsAreLists
  <2>9. SameGroup(d, s, t) <=> i = j
    <3>1. ASSUME NEW h \in r.peers, s \in h, t \in h PROVE i = j
      <4>1. h = order[i] /\ h = order[j]
        BY <2>7, <3>1, MigrationsOK
      <4> QED
        BY <1>3, <4>1
    <3>2. i = j => \E h \in r.peers : s \in h /\ t \in h
      BY <2>7
    <3> QED
      BY <3>1, <3>2 DEF SameGroup
  <2>10. ASSUME m.port = n.port PROVE m = n
    <3>1. PICK p \in DOMAIN vioses[at[i]].ports : WithPort(i, f, s, p)
      BY <1>2
    <3>2. PICK q \in DOMAIN vioses[at[j]].ports : WithPort(j, g, t, q)
      BY <1>2
    <3>3. vioses[at[i]].ports[p].wwpn = vioses[at[j]].ports[q].wwpn
      BY <2>2, <2>4, <2>10, <3>1, <3>2
    <3>4. at[i] = at[j]
      BY <2>6, <3>3, WwpnsIdentify
    <3>5. i = j
      BY <1>3, <3>4
    <3>6. f = g
      <4>1. PICK w \in r.fabrics[f].ports : SanitizedWwpn(m.port) = SanitizedWwpn(w)
        BY <2>2, <3>1
      <4>2. PICK x \in r.fabrics[g].ports : SanitizedWwpn(m.port) = SanitizedWwpn(x)
        BY <2>4, <2>10, <3>2
      <4>3. SanitizedWwpn(w) = SanitizedWwpn(x)
        BY <4>1, <4>2
      <4>4. f # g => \A a \in r.fabrics[f].ports, b \in r.fabrics[g].ports : SanitizedWwpn(a) # SanitizedWwpn(b)
        BY MigrationsOK
      <4> QED
        BY <4>3, <4>4, <4>1, <4>2
    <3>7. s = t
      BY <1>2, <2>2, <2>4, <2>10, <3>5, <3>6
    <3> QED
      BY <2>2, <2>4, <3>5, <3>6, <3>7
  <2> QED
    BY <2>5, <2>8, <2>9, <2>10
<1> QED
  BY <1>5, <1>6

\* Every step keeps what is said of the last derivation and the last migration.
LEMMA PortsStep == VfcInv /\ Spread /\ GroupsStayTogether /\ [VfcNext]_vfcVars => (Spread /\ GroupsStayTogether)'
<1> SUFFICES ASSUME VfcInv, Spread, GroupsStayTogether, [VfcNext]_vfcVars PROVE (Spread /\ GroupsStayTogether)'
  OBVIOUS
<1>0. vioses \in Systems
  BY DEF VfcInv, VfcTyped
<1>1. ASSUME UNCHANGED <<vioses, derived>> PROVE Spread'
  BY <1>1 DEF Spread
<1>2. ASSUME UNCHANGED moved PROVE GroupsStayTogether'
  BY <1>2 DEF GroupsStayTogether
<1>3. ASSUME NEW r \in Plans, DeriveMap(r) PROVE (Spread /\ GroupsStayTogether)'
  <2>1. vioses' = vioses /\ moved' = moved
    BY <1>3 DEF DeriveMap
  <2>2. CASE DeriveNpivMap(r).ok
    <3> DEFINE d == [req |-> r, new |-> NewPairs(r), maps |-> DeriveNpivMap(r).maps]
    <3>1. derived' = {d}
      BY <1>3, <2>2 DEF DeriveMap
    <3>2. d.req = r /\ d.new = NewPairs(r) /\ d.maps = DeriveNpivMap(r).maps
      OBVIOUS
    <3> HIDE DEF d
    <3>3. /\ \A i \in d.new : i \in DOMAIN d.maps /\ \E v \in ToSet(vioses) : \E p \in Asked(d, v) : v.ports[p].wwpn = d.maps[i]
          /\ \A v, w \in ToSet(vioses) :
               \/ Cardinality(Chosen(d, v)) <= Cardinality(Chosen(d, w)) + 1
               \/ \A p \in Asked(d, w) : PortUse(w, p, d.maps) >= MaxUse
          /\ \A v \in ToSet(vioses) : \A i \in Chosen(d, v) : \A p \in Asked(d, v) :
               UseOf(d.maps[i], d.maps) <= PortUse(v, p, d.maps) + 1
      BY <1>0, <2>2, <3>2, DerivedIsSpread
    <3>4. Spread'
      BY <2>1, <3>1, <3>3 DEF Spread
    <3> QED
      BY <1>2, <2>1, <3>4
  <2>3. CASE ~DeriveNpivMap(r).ok
    <3>1. derived' = {}
      BY <1>3, <2>3 DEF DeriveMap
    <3> QED
      BY <1>2, <2>1, <3>1 DEF Spread
  <2> QED
    BY <2>2, <2>3
<1>4. ASSUME NEW r \in Migrations, Migrate(r) PROVE (Spread /\ GroupsStayTogether)'
  <2>1. UNCHANGED <<vioses, derived>>
    BY <1>4 DEF Migrate
  <2>2. ASSUME NEW d \in moved'
        PROVE  /\ \A f \in DOMAIN d.req.fabrics : \A s \in d.req.fabrics[f].slots :
                    \E m \in d.maps : m.slot = s /\ SanitizedWwpn(m.port) \in {SanitizedWwpn(w) : w \in d.req.fabrics[f].ports}
               /\ \A m, n \in d.maps :
                    /\ (m.vios = n.vios) <=> SameGroup(d, m.slot, n.slot)
                    /\ m.port = n.port => m = n
    <3>1. PICK order \in LargestFirst(r.peers) :
            \E at \in [DOMAIN order -> DOMAIN vioses] :
              /\ FirstFit(r, order, at) /\ \A x \in Placed(r, order, at) : FabricMap(x[1], x[2]).ok
              /\ d = [req |-> r, maps |-> MigrationMappings(Placed(r, order, at))]
      BY <1>4, <2>2 DEF Migrate
    <3>2. PICK at \in [DOMAIN order -> DOMAIN vioses] :
              /\ FirstFit(r, order, at) /\ \A x \in Placed(r, order, at) : FabricMap(x[1], x[2]).ok
              /\ d = [req |-> r, maps |-> MigrationMappings(Placed(r, order, at))]
      BY <3>1
    <3>3. d.req = r /\ d.maps = MigrationMappings(Placed(r, order, at))
      BY <3>2
    <3> QED
      BY <1>0, <3>2, <3>3, MigrationKeepsGroups
  <2>3. GroupsStayTogether'
    BY <2>2 DEF GroupsStayTogether, SameGroup
  <2> QED
    BY <1>1, <2>1, <2>3
<1>5. CASE \E m \in plans : AddMap(m)
  BY <1>1, <1>2, <1>5 DEF AddMap
<1>6. CASE \E m \in vfc : LosePort(m) \/ \E pairs \in {{m.pair}, {n.pair : n \in vfc}} : RemoveMaps(m.vios, m.lpar, pairs)
  BY <1>1, <1>2, <1>6 DEF LosePort, RemoveMaps
<1>7. CASE UNCHANGED vfcVars
  BY <1>1, <1>2, <1>7 DEF vfcVars
<1> QED
  BY <1>3, <1>4, <1>5, <1>6, <1>7 DEF VfcNext

\* tasks/vfc_mapper.py: for every system, every set of plans of any age and every migration: no pair
\* of client WWPNs is given two backing ports, ports are shared out evenly, and a migration keeps
\* the groups of adapters; see BackedOnce, Spread and GroupsStayTogether.
THEOREM PortsStaySound == VfcSpec => []PortsAreSound
<1>1. VfcInit => VfcInv /\ Spread /\ GroupsStayTogether
  BY VfcInitial DEF VfcInit, Spread, GroupsStayTogether
<1>2. (VfcInv /\ Spread /\ GroupsStayTogether) /\ [VfcNext]_vfcVars => (VfcInv /\ Spread /\ GroupsStayTogether)'
  BY VfcStep, PortsStep
<1>3. VfcInv /\ Spread /\ GroupsStayTogether => PortsAreSound
  BY DEF VfcInv, PortsAreSound
<1> QED
  BY <1>1, <1>2, <1>3, PTL DEF VfcSpec
=============================================================================
