--------------------------- MODULE NetworkProofs ----------------------------
(***************************************************************************)
(* Proofs about NetworkBridger, for any number of threads and other users, *)
(* any bridges as the bridgers leave them and any requests: what a call    *)
(* returns with, what it leaves alone and what it makes of the bridges.    *)
(* The lock lets one call work at a time, but not the calls of others; the *)
(* inductive invariant says how far the feed of a call may be trusted.     *)
(***************************************************************************)
EXTENDS NetworkBridger, FiniteSetTheorems, SequenceTheorems, WellFoundedInduction, NaturalsInduction, TLAPS

-----------------------------------------------------------------------------
(* Numbers, sequences and the sets of a bridge.                            *)

\* A nonempty set of naturals has a least element.
LEMMA LeastNat == ASSUME NEW T \in SUBSET Nat, T # {} PROVE \E x \in T : \A y \in T : x <= y
<1>1. PICK x \in T : \A y \in T : ~(<<y, x>> \in OpToRel(<, Nat))
  BY NatLessThanWellFounded, WFMin
<1>2. \A y \in T : ~(y < x)
  BY <1>1 DEF OpToRel
<1> QED
  BY <1>2

\* Min of the library is that element.
LEMMA MinIn == ASSUME NEW T \in SUBSET Nat, T # {} PROVE Min(T) \in T /\ \A y \in T : Min(T) <= y
  BY LeastNat DEF Min

\* Max of the library, over a bounded set.
LEMMA MaxIn == ASSUME NEW n \in Nat, NEW T \in SUBSET (0 .. n), T # {} PROVE Max(T) \in T /\ \A y \in T : Max(T) >= y
<1> DEFINE Rest == {n - x : x \in T}
<1>0. \A x \in T : x \in Nat /\ n - x \in Nat
  OBVIOUS
<1>1. Rest \in SUBSET Nat /\ Rest # {}
  BY <1>0
<1>2. PICK r \in Rest : \A y \in Rest : r <= y
  BY <1>1, LeastNat
<1>3. PICK x \in T : r = n - x
  BY <1>2
<1>4. \A y \in T : n - x <= n - y
  BY <1>2, <1>3
<1>5. \A y \in T : x >= y
  BY <1>4
<1> QED
  BY <1>5 DEF Max

\* RemoveAt closes the gap.
LEMMA RemovedAt ==
  ASSUME NEW T, NEW s \in Seq(T), NEW i \in DOMAIN s
  PROVE  /\ RemoveAt(s, i) \in Seq(T) /\ DOMAIN RemoveAt(s, i) = 1 .. Len(s) - 1
         /\ \A k \in 1 .. Len(s) - 1 : RemoveAt(s, i)[k] = IF k < i THEN s[k] ELSE s[k + 1]
<1> DEFINE l == SubSeq(s, 1, i - 1)
           r == SubSeq(s, i + 1, Len(s))
<1>1. i \in 1 .. Len(s) /\ Len(s) \in Nat
  OBVIOUS
<1>2. l \in Seq(T) /\ Len(l) = i - 1 /\ \A k \in 1 .. i - 1 : l[k] = s[k]
  BY <1>1, SubSeqProperties
<1>3. r \in Seq(T) /\ Len(r) = Len(s) - i /\ \A k \in 1 .. Len(s) - i : r[k] = s[k + i]
  <2>1. \A k \in i + 1 .. Len(s) : s[k] \in T
    BY <1>1
  <2>2. /\ r \in Seq(T) /\ Len(r) = IF i + 1 <= Len(s) THEN Len(s) - (i + 1) + 1 ELSE 0
        /\ \A k \in 1 .. Len(s) - (i + 1) + 1 : r[k] = s[i + 1 + k - 1]
    BY <1>1, <2>1, SubSeqProperties
  <2> HIDE DEF r
  <2>3. Len(r) = Len(s) - i
    BY <1>1, <2>2
  <2>4. ASSUME NEW k \in 1 .. Len(s) - i PROVE r[k] = s[k + i]
    <3>1. k \in 1 .. Len(s) - (i + 1) + 1 /\ i + 1 + k - 1 = k + i
      BY <1>1
    <3> QED
      BY <2>2, <3>1
  <2> QED
    BY <2>2, <2>3, <2>4
<1> HIDE DEF l, r
<1>4. /\ l \o r \in Seq(T) /\ Len(l \o r) = Len(s) - 1
      /\ \A k \in 1 .. Len(s) - 1 : (l \o r)[k] = IF k < i THEN l[k] ELSE r[k - (i - 1)]
  <2>1. /\ l \o r \in Seq(T) /\ Len(l \o r) = Len(l) + Len(r)
        /\ \A k \in 1 .. Len(l) + Len(r) : (l \o r)[k] = IF k <= Len(l) THEN l[k] ELSE r[k - Len(l)]
    BY <1>2, <1>3, ConcatProperties
  <2>2. Len(l) + Len(r) = Len(s) - 1
    BY <1>1, <1>2, <1>3
  <2>3. \A k \in 1 .. Len(s) - 1 : k <= Len(l) <=> k < i
    BY <1>1, <1>2
  <2> QED
    BY <1>2, <2>1, <2>2, <2>3
<1>5. RemoveAt(s, i) = l \o r
  BY DEF RemoveAt, l, r
<1>6. ASSUME NEW k \in 1 .. Len(s) - 1
      PROVE  (l \o r)[k] = IF k < i THEN s[k] ELSE s[k + 1]
  <2>1. CASE k < i
    BY <2>1, <1>1, <1>2, <1>4
  <2>2. CASE ~(k < i)
    <3>1. k - (i - 1) \in 1 .. Len(s) - i /\ k - (i - 1) + i = k + 1
      BY <2>2, <1>1
    <3>2. (l \o r)[k] = r[k - (i - 1)]
      BY <2>2, <1>4
    <3> QED
      BY <2>2, <3>1, <3>2, <1>3
  <2> QED
    BY <2>1, <2>2
<1>7. DOMAIN (l \o r) = 1 .. Len(s) - 1
  BY <1>4
<1> QED
  BY <1>4, <1>5, <1>6, <1>7

\* Append keeps the old positions.
LEMMA Appended ==
  ASSUME NEW T, NEW s \in Seq(T), NEW x \in T
  PROVE  /\ Append(s, x) \in Seq(T) /\ DOMAIN Append(s, x) = 1 .. Len(s) + 1
         /\ Append(s, x)[Len(s) + 1] = x
         /\ \A k \in DOMAIN s : k \in 1 .. Len(s) /\ Append(s, x)[k] = s[k]
<1>1. DOMAIN s = 1 .. Len(s) /\ Len(s) \in Nat
  OBVIOUS
<1>2. Append(s, x) \in Seq(T) /\ Len(Append(s, x)) = Len(s) + 1
  OBVIOUS
<1>3. DOMAIN Append(s, x) = 1 .. Len(s) + 1
  BY <1>2
<1>4. Append(s, x)[Len(s) + 1] = x /\ \A k \in 1 .. Len(s) : Append(s, x)[k] = s[k]
  OBVIOUS
<1> QED
  BY <1>1, <1>2, <1>3, <1>4

\* list_vlans(): a VLAN flows through a trunk that tags it.
LEMMA Members ==
  ASSUME NEW trunks
  PROVE  \A v : v \in Tagged(trunks) <=> \E i \in DOMAIN trunks : v \in trunks[i].tagged
  BY DEF Tagged, Rng

\* arbitrary_pvids: the PVIDs of the trunks.
LEMMA PvidMembers ==
  ASSUME NEW b
  PROVE  \A v : v \in ArbitraryPvids(b) <=> \E i \in DOMAIN b.adpts : v = b.adpts[i].pvid
  BY DEF ArbitraryPvids, Rng

\* _find_new_arbitrary_vid returns a VLAN that is not in use, unless it returns None.
LEMMA NewVidIsNew ==
  ASSUME NEW used, NewArbitraryVid(used) # 0
  PROVE  NewArbitraryVid(used) \in Vlans \ used
<1> DEFINE free == (2 .. TopVid) \ used
<1>1. free # {}
  BY DEF NewArbitraryVid
<1>2. TopVid \in Nat /\ free \in SUBSET (0 .. TopVid)
  BY BridgerConstantsOK
<1>3. Max(free) \in free
  BY <1>1, <1>2, MaxIn
<1> QED
  BY <1>1, <1>2, <1>3 DEF NewArbitraryVid, Vlans

-----------------------------------------------------------------------------
(* Sound bridges.                                                          *)

\* What a change of the trunks leaves alone.
Header(a, b) == a.pvid = b.pvid /\ a.prim = b.prim /\ a.lb = b.lb /\ a.failover = b.failover /\ a.ver = b.ver

\* A bridge with other trunks is a bridge with the same header.
LEMMA NewTrunks ==
  ASSUME NEW b \in BridgeType, NEW s \in Seq(TrunkType), NEW p \in Seq(TrunkType)
  PROVE  /\ WithTrunks(b, s, p) \in BridgeType
         /\ WithTrunks(b, s, p).adpts = s /\ WithTrunks(b, s, p).peer = p
         /\ Header(WithTrunks(b, s, p), b)
  BY DEF WithTrunks, BridgeType, Header

\* The VLANs that are meant for a trunk or a load group: of a load group that was not
\* POSTed yet the virtual networks, whose VLANs are not tagged before.
Carries(va, g) == IF va THEN g.uris \ {g.pvid} ELSE g.tagged

\* Load, and what all the trunks carry, for either bridger (va).
Fill(va, g) == IF va THEN Cardinality(g.uris) ELSE Cardinality(g.tagged)
CarriedBy(va, b) == UNION {Carries(va, b.adpts[i]) : i \in DOMAIN b.adpts}

\* A trunk is as a bridge may have it: its PVID is no VLAN of the bridge, it has at most
\* MaxVlans, and none only on a load balanced bridge.
Fits(va, b, g) ==
  /\ g.pvid # b.pvid
  /\ g.pvid \notin (b.prim \ Foreign) \cup Orphans \cup Carries(va, g)
  /\ Fill(va, g) <= MaxVlans
  /\ Carries(va, g) = {} => b.lb
  /\ va => g.pvid \in g.uris

\* Two trunks of a bridge have nothing in common.
Apart(va, g, h) ==
  /\ g.pvid # h.pvid
  /\ Carries(va, g) \cap Carries(va, h) = {}
  /\ g.pvid \notin Carries(va, h) /\ h.pvid \notin Carries(va, g)

\* A bridge as either bridger builds it, on the server or before its POST.
Sound(va, b) ==
  /\ b \in BridgeType
  /\ \A i \in DOMAIN b.adpts : Fits(va, b, b.adpts[i])
  /\ \A i, j \in DOMAIN b.adpts : i # j => Apart(va, b.adpts[i], b.adpts[j])
  /\ ~va /\ b.failover => b.peer = b.adpts

\* A bridge as the server stores it: the load groups have their trunk adapters.
Settled(va, b) ==
  va => \A i \in DOMAIN b.adpts :
    ~b.adpts[i].bld /\ b.adpts[i].tagged = b.adpts[i].uris \ {b.adpts[i].pvid}

\* What the trunks carry, one by one.
LEMMA CarriedMembers ==
  ASSUME NEW va, NEW b
  PROVE  \A v : v \in CarriedBy(va, b) <=> \E i \in DOMAIN b.adpts : v \in Carries(va, b.adpts[i])
  BY DEF CarriedBy

\* Whether a trunk fits depends on the header.
LEMMA FitsByHeader ==
  ASSUME NEW va, NEW a, NEW b, Header(a, b), NEW g, Fits(va, b, g)
  PROVE  Fits(va, a, g)
  BY DEF Header, Fits

\* Being apart is symmetric.
LEMMA ApartBothWays ==
  ASSUME NEW va, NEW g, NEW h, Apart(va, g, h)
  PROVE  Apart(va, h, g)
  BY DEF Apart

\* The parts of a bridge.
LEMMA Typed ==
  ASSUME NEW b \in BridgeType
  PROVE  /\ b.pvid \in Vlans /\ b.prim \subseteq Vlans /\ b.adpts \in Seq(TrunkType) /\ b.peer \in Seq(TrunkType)
         /\ b.failover \in BOOLEAN /\ b.lb \in BOOLEAN /\ b.ver \in Nat
         /\ \A i \in DOMAIN b.adpts : b.adpts[i] \in TrunkType
         /\ \A i \in DOMAIN b.peer : b.peer[i] \in TrunkType
<1>1. b.adpts \in Seq(TrunkType) /\ b.peer \in Seq(TrunkType)
  BY DEF BridgeType
<1>2. \A i \in DOMAIN b.adpts : b.adpts[i] \in TrunkType
  BY <1>1
<1>3. \A i \in DOMAIN b.peer : b.peer[i] \in TrunkType
  BY <1>1
<1> QED
  BY <1>1, <1>2, <1>3 DEF BridgeType

\* A sound bridge stays sound with any trunks that fit and are apart.
LEMMA Rearranged ==
  ASSUME NEW va, NEW b, Sound(va, b), NEW s \in Seq(TrunkType), NEW p \in Seq(TrunkType),
         ~va /\ b.failover => p = s,
         \A i \in DOMAIN s : Fits(va, b, s[i]),
         \A i, j \in DOMAIN s : i # j => Apart(va, s[i], s[j])
  PROVE  Sound(va, WithTrunks(b, s, p))
<1> DEFINE c == WithTrunks(b, s, p)
<1>1. c \in BridgeType /\ c.adpts = s /\ c.peer = p /\ Header(c, b)
  BY NewTrunks DEF Sound
<1> HIDE DEF c
<1>2. \A i \in DOMAIN s : Fits(va, c, s[i])
  BY <1>1, FitsByHeader
<1>3. c.failover = b.failover
  BY <1>1 DEF Header
<1>4. Sound(va, c)
  BY <1>1, <1>2, <1>3 DEF Sound
<1> QED
  BY <1>4 DEF c

\* So it does with one trunk replaced,
LEMMA OneChanged ==
  ASSUME NEW va, NEW b, Sound(va, b), NEW i \in DOMAIN b.adpts, NEW g \in TrunkType,
         NEW p \in Seq(TrunkType), ~va /\ b.failover => p = [b.adpts EXCEPT ![i] = g],
         Fits(va, b, g), \A j \in DOMAIN b.adpts : j # i => Apart(va, g, b.adpts[j])
  PROVE  Sound(va, WithTrunks(b, [b.adpts EXCEPT ![i] = g], p))
<1> DEFINE s == [b.adpts EXCEPT ![i] = g]
<1>1. b.adpts \in Seq(TrunkType)
  BY Typed DEF Sound
<1>2. s \in Seq(TrunkType) /\ DOMAIN s = DOMAIN b.adpts
  BY <1>1
<1>3. s[i] = g /\ \A j \in DOMAIN b.adpts : j # i => s[j] = b.adpts[j]
  BY <1>1
<1> HIDE DEF s
<1>4. \A j \in DOMAIN s : Fits(va, b, s[j])
  BY <1>2, <1>3 DEF Sound
<1>5. ASSUME NEW j \in DOMAIN s, NEW k \in DOMAIN s, j # k PROVE Apart(va, s[j], s[k])
  <2>1. CASE j = i
    BY <2>1, <1>2, <1>3, <1>5
  <2>2. CASE k = i
    BY <2>2, <1>2, <1>3, <1>5, ApartBothWays
  <2>3. CASE j # i /\ k # i
    BY <2>3, <1>2, <1>3, <1>5 DEF Sound
  <2> QED
    BY <2>1, <2>2, <2>3
<1>6. ~va /\ b.failover => p = s
  BY DEF s
<1>7. Sound(va, WithTrunks(b, s, p))
  BY <1>2, <1>4, <1>5, <1>6, Rearranged
<1> QED
  BY <1>7 DEF s

\* with one trunk removed,
LEMMA OneRemoved ==
  ASSUME NEW va, NEW b, Sound(va, b), NEW i \in DOMAIN b.adpts, NEW p \in Seq(TrunkType),
         ~va /\ b.failover => p = RemoveAt(b.adpts, i)
  PROVE  Sound(va, WithTrunks(b, RemoveAt(b.adpts, i), p))
<1> DEFINE s == RemoveAt(b.adpts, i)
           Old(k) == IF k < i THEN k ELSE k + 1
<1>1. b.adpts \in Seq(TrunkType) /\ DOMAIN b.adpts = 1 .. Len(b.adpts) /\ i \in 1 .. Len(b.adpts)
  BY Typed DEF Sound
<1>2. /\ s \in Seq(TrunkType) /\ DOMAIN s = 1 .. Len(b.adpts) - 1
      /\ \A k \in 1 .. Len(b.adpts) - 1 : s[k] = IF k < i THEN b.adpts[k] ELSE b.adpts[k + 1]
  BY <1>1, RemovedAt
<1> HIDE DEF s
<1>3. \A k \in DOMAIN s : Old(k) \in DOMAIN b.adpts /\ s[k] = b.adpts[Old(k)]
  BY <1>1, <1>2
<1>4. \A k, l \in DOMAIN s : k # l => Old(k) # Old(l)
  BY <1>1, <1>2
<1> HIDE DEF Old
<1>5. \A k \in DOMAIN s : Fits(va, b, s[k])
  BY <1>3 DEF Sound
<1>6. \A k, l \in DOMAIN s : k # l => Apart(va, s[k], s[l])
  BY <1>3, <1>4 DEF Sound
<1>7. ~va /\ b.failover => p = s
  BY DEF s
<1>8. Sound(va, WithTrunks(b, s, p))
  BY <1>2, <1>5, <1>6, <1>7, Rearranged
<1> QED
  BY <1>8 DEF s

\* and with a new one at the end.
LEMMA OneAppended ==
  ASSUME NEW va, NEW b, Sound(va, b), NEW g \in TrunkType, NEW p \in Seq(TrunkType),
         ~va /\ b.failover => p = Append(b.adpts, g),
         Fits(va, b, g), \A j \in DOMAIN b.adpts : Apart(va, g, b.adpts[j])
  PROVE  Sound(va, WithTrunks(b, Append(b.adpts, g), p))
<1> DEFINE s == Append(b.adpts, g)
           n == Len(b.adpts) + 1
<1>1. b.adpts \in Seq(TrunkType) /\ DOMAIN b.adpts = 1 .. Len(b.adpts) /\ Len(b.adpts) \in Nat
  BY Typed DEF Sound
<1>2. /\ s \in Seq(TrunkType) /\ DOMAIN s = 1 .. n /\ s[n] = g
      /\ \A k \in DOMAIN b.adpts : s[k] = b.adpts[k]
  BY <1>1, Appended
<1>3. \A k \in DOMAIN s : k # n => k \in DOMAIN b.adpts
  BY <1>1, <1>2
<1> HIDE DEF s, n
<1>4. \A j \in DOMAIN s : Fits(va, b, s[j])
  BY <1>2, <1>3 DEF Sound
<1>5. ASSUME NEW j \in DOMAIN s, NEW k \in DOMAIN s, j # k PROVE Apart(va, s[j], s[k])
  <2>1. CASE j = n
    BY <2>1, <1>2, <1>3, <1>5
  <2>2. CASE k = n
    BY <2>2, <1>2, <1>3, <1>5, ApartBothWays
  <2>3. CASE j # n /\ k # n
    BY <2>3, <1>2, <1>3, <1>5 DEF Sound
  <2> QED
    BY <2>1, <2>2, <2>3
<1>6. ~va /\ b.failover => p = s
  BY DEF s
<1>7. Sound(va, WithTrunks(b, s, p))
  BY <1>2, <1>4, <1>5, <1>6, Rearranged
<1> QED
  BY <1>7 DEF s

\* There are finitely many VLANs.
LEMMA VlansFinite == IsFiniteSet(Vlans) /\ \A S \in SUBSET Vlans : IsFiniteSet(S) /\ Cardinality(S) \in Nat
<1>1. IsFiniteSet(Vlans)
  BY FS_Interval, BridgerConstantsOK DEF Vlans
<1> QED
  BY <1>1, FS_Subset, FS_CardinalityType

\* Cardinalities of the VLANs of a trunk are numbers.
LEMMA FillIsNatural ==
  ASSUME NEW va, NEW g \in TrunkType
  PROVE  /\ Fill(va, g) \in Nat
         /\ IsFiniteSet(g.tagged) /\ Cardinality(g.tagged) \in Nat
         /\ IsFiniteSet(g.uris) /\ Cardinality(g.uris) \in Nat
<1>1. g.tagged \in SUBSET Vlans /\ g.uris \in SUBSET Vlans
  BY DEF TrunkType
<1> QED
  BY <1>1, VlansFinite DEF Fill

\* A function on 1 .. n is a sequence.
LEMMA IsSequence ==
  ASSUME NEW T, NEW n \in Nat, NEW f \in [1 .. n -> T]
  PROVE  f \in Seq(T) /\ Len(f) = n
  OBVIOUS

\* _find_available_ld_grp and _find_available_trunks choose one that has room.
LEMMA AvailableHasRoom ==
  ASSUME NEW b \in BridgeType, Available(b) # 0
  PROVE  Available(b) \in DOMAIN b.adpts /\ Load(b.adpts[Available(b)]) < MaxVlans
<1> DEFINE S == Room(b)
           L(i) == Load(b.adpts[i])
           loads == {L(i) : i \in S}
<1>1. S # {} /\ Available(b) = Least(b, S)
  BY DEF Available
<1>2. \A i \in S : i \in DOMAIN b.adpts /\ L(i) < MaxVlans /\ L(i) \in Nat
  <2>1. \A i \in DOMAIN b.adpts : b.adpts[i] \in TrunkType
    BY Typed
  <2>2. \A g \in TrunkType : Load(g) \in Nat
    BY FillIsNatural DEF Load
  <2> QED
    BY <2>1, <2>2 DEF Room
<1>3. loads \in SUBSET Nat /\ loads # {}
  BY <1>1, <1>2
<1>4. PICK l \in loads : \A m \in loads : l <= m
  BY <1>3, LeastNat
<1> DEFINE low == {i \in S : L(i) = l}
<1>5. DOMAIN b.adpts \subseteq Nat
  <2>1. b.adpts \in Seq(TrunkType)
    BY Typed
  <2> QED
    BY <2>1
<1>6. low \in SUBSET Nat /\ low # {}
  BY <1>2, <1>4, <1>5
<1>7. PICK i \in low : \A j \in low : i <= j
  BY <1>6, LeastNat
<1>8. \A j \in S : L(i) < L(j) \/ (L(i) = L(j) /\ i <= j)
  <2> SUFFICES ASSUME NEW j \in S PROVE L(i) < L(j) \/ (L(i) = L(j) /\ i <= j)
    OBVIOUS
  <2>1. L(i) <= L(j) /\ L(i) \in Nat /\ L(j) \in Nat
    BY <1>2, <1>4, <1>7
  <2>2. L(i) = L(j) => i <= j
    BY <1>7
  <2> QED
    BY <2>1, <2>2
<1>9. Least(b, S) \in S
  BY <1>7, <1>8 DEF Least
<1> QED
  BY <1>1, <1>2, <1>9

-----------------------------------------------------------------------------
(* Adding a VLAN to a bridge.                                              *)

\* A trunk with one VLAN more.
LEMMA WithOne ==
  ASSUME vnetAware \in BOOLEAN, NEW g \in TrunkType, NEW v \in Vlans, v # g.pvid
  PROVE  /\ With(g, v) \in TrunkType /\ With(g, v).pvid = g.pvid
         /\ Carries(vnetAware, With(g, v)) = Carries(vnetAware, g) \cup {v}
         /\ Fill(vnetAware, With(g, v)) <= Fill(vnetAware, g) + 1
         /\ g.tagged \subseteq With(g, v).tagged
         /\ vnetAware /\ g.pvid \in g.uris => g.pvid \in With(g, v).uris
<1> DEFINE h == With(g, v)
<1>1. CASE vnetAware
  <2>1. /\ h \in TrunkType /\ h.pvid = g.pvid /\ h.uris = g.uris \cup {v} /\ h.tagged = g.tagged
    BY <1>1 DEF With, TrunkType
  <2>2. Cardinality(g.uris \cup {v}) <= Cardinality(g.uris) + 1
    BY FillIsNatural, FS_AddElement
  <2> HIDE DEF h
  <2>3. Carries(vnetAware, h) = Carries(vnetAware, g) \cup {v}
    BY <1>1, <2>1 DEF Carries
  <2>4. Fill(vnetAware, h) <= Fill(vnetAware, g) + 1
    BY <1>1, <2>1, <2>2 DEF Fill
  <2>5. h \in TrunkType /\ h.pvid = g.pvid /\ g.tagged \subseteq h.tagged /\ (g.pvid \in g.uris => g.pvid \in h.uris)
    BY <2>1
  <2> QED
    BY <2>3, <2>4, <2>5 DEF h
<1>2. CASE ~vnetAware
  <2>1. /\ h \in TrunkType /\ h.pvid = g.pvid /\ h.uris = g.uris /\ h.tagged = g.tagged \cup {v}
    BY <1>2 DEF With, TrunkType
  <2>2. Cardinality(g.tagged \cup {v}) <= Cardinality(g.tagged) + 1
    BY FillIsNatural, FS_AddElement
  <2> HIDE DEF h
  <2>3. Carries(vnetAware, h) = Carries(vnetAware, g) \cup {v}
    BY <1>2, <2>1 DEF Carries
  <2>4. Fill(vnetAware, h) <= Fill(vnetAware, g) + 1
    BY <1>2, <2>1, <2>2 DEF Fill
  <2>5. h \in TrunkType /\ h.pvid = g.pvid /\ g.tagged \subseteq h.tagged
    BY <2>1
  <2> QED
    BY <1>2, <2>3, <2>4, <2>5 DEF h
<1> QED
  BY <1>1, <1>2

\* A new trunk carries its VLAN.
LEMMA TrunkIs ==
  ASSUME vnetAware \in BOOLEAN, NEW p \in Vlans, NEW v \in Vlans, p # v
  PROVE  /\ Trunk(p, v) \in TrunkType /\ Trunk(p, v).pvid = p
         /\ Carries(vnetAware, Trunk(p, v)) = {v}
         /\ Fill(vnetAware, Trunk(p, v)) <= MaxVlans
         /\ vnetAware => p \in Trunk(p, v).uris
<1>1. Cardinality({v}) = 1 /\ Cardinality({p, v}) = 2
  <2>1. Cardinality({v}) = 1 /\ IsFiniteSet({v})
    BY FS_Singleton
  <2>2. Cardinality({v} \cup {p}) = 2
    BY <2>1, FS_AddElement
  <2>3. {v} \cup {p} = {p, v}
    OBVIOUS
  <2> QED
    BY <2>1, <2>2, <2>3
<1>2. CASE vnetAware
  <2>1. /\ Trunk(p, v) \in TrunkType /\ Trunk(p, v).pvid = p /\ Trunk(p, v).uris = {p, v}
    BY <1>2 DEF Trunk, TrunkType
  <2> QED
    BY <1>1, <1>2, <2>1, BridgerConstantsOK DEF Carries, Fill
<1>3. CASE ~vnetAware
  <2>1. /\ Trunk(p, v) \in TrunkType /\ Trunk(p, v).pvid = p /\ Trunk(p, v).tagged = {v}
    BY <1>3 DEF Trunk, TrunkType
  <2> QED
    BY <1>1, <1>3, <2>1, BridgerConstantsOK DEF Carries, Fill
<1> QED
  BY <1>2, <1>3

\* _find_peer_trunk: in the SEAs of a failover bridge a trunk is at the same position.
LEMMA PeerIsTheSame ==
  ASSUME NEW va, NEW b, Sound(va, b), ~va, b.failover, NEW i \in DOMAIN b.adpts
  PROVE  PeerTrunks(b, i) = {i} /\ b.peer = b.adpts
<1>1. b.peer = b.adpts
  BY DEF Sound
<1>2. \A j \in DOMAIN b.adpts : j # i => b.adpts[j].pvid # b.adpts[i].pvid
  BY DEF Sound, Apart
<1> QED
  BY <1>1, <1>2 DEF PeerTrunks

\* _add_vlans_to_nb on a trunk that has room: the bridge stays sound.
LEMMA AddedToOne ==
  ASSUME vnetAware \in BOOLEAN, NEW b, Sound(vnetAware, b), NEW v \in Vlans,
         v \notin CarriedBy(vnetAware, b) \cup ArbitraryPvids(b),
         NEW arb, Available(b) # 0
  PROVE  /\ Sound(vnetAware, AddVlan(b, v, arb)) /\ Header(AddVlan(b, v, arb), b)
         /\ CarriedBy(vnetAware, AddVlan(b, v, arb)) = CarriedBy(vnetAware, b) \cup {v}
         /\ ArbitraryPvids(AddVlan(b, v, arb)) = ArbitraryPvids(b)
         /\ Tagged(b.adpts) \subseteq Tagged(AddVlan(b, v, arb).adpts)
<1> DEFINE i == Available(b)
           g == With(b.adpts[i], v)
           s == [b.adpts EXCEPT ![i] = g]
           p == [j \in DOMAIN b.peer |-> IF j \in PeerTrunks(b, i) THEN With(b.peer[j], v) ELSE b.peer[j]]
           c == AddVlan(b, v, arb)
<1>1. i \in DOMAIN b.adpts /\ Load(b.adpts[i]) < MaxVlans
  BY AvailableHasRoom DEF Sound
<1>2. b.adpts \in Seq(TrunkType) /\ b.adpts[i] \in TrunkType /\ b.peer \in Seq(TrunkType)
  BY <1>1, Typed DEF Sound
<1>3. c = WithTrunks(b, s, p)
  BY DEF AddVlan, OnBoth
<1>4. v # b.adpts[i].pvid
  BY <1>1, PvidMembers
<1>5. /\ g \in TrunkType /\ g.pvid = b.adpts[i].pvid
      /\ Carries(vnetAware, g) = Carries(vnetAware, b.adpts[i]) \cup {v}
      /\ Fill(vnetAware, g) <= Fill(vnetAware, b.adpts[i]) + 1
      /\ b.adpts[i].tagged \subseteq g.tagged
      /\ vnetAware /\ b.adpts[i].pvid \in b.adpts[i].uris => g.pvid \in g.uris
  BY <1>2, <1>4, WithOne
<1>6. Fits(vnetAware, b, g)
  <2>1. Fits(vnetAware, b, b.adpts[i])
    BY <1>1 DEF Sound
  <2>2. Fill(vnetAware, g) <= MaxVlans
    <3>1. Fill(vnetAware, b.adpts[i]) < MaxVlans
      BY <1>1 DEF Fill, Load
    <3>2. Fill(vnetAware, b.adpts[i]) \in Nat /\ Fill(vnetAware, g) \in Nat
      BY <1>2, <1>5, FillIsNatural
    <3> QED
      BY <1>5, <3>1, <3>2, BridgerConstantsOK
  <2> HIDE DEF g, i
  <2> QED
    BY <1>4, <1>5, <2>1, <2>2 DEF Fits
<1>7. \A j \in DOMAIN b.adpts : j # i => Apart(vnetAware, g, b.adpts[j])
  <2> SUFFICES ASSUME NEW j \in DOMAIN b.adpts, j # i PROVE Apart(vnetAware, g, b.adpts[j])
    OBVIOUS
  <2>1. Apart(vnetAware, b.adpts[i], b.adpts[j])
    BY <1>1 DEF Sound
  <2>2. v \notin Carries(vnetAware, b.adpts[j]) /\ v # b.adpts[j].pvid
    BY CarriedMembers, PvidMembers
  <2> HIDE DEF g, i
  <2> QED
    BY <1>5, <2>1, <2>2 DEF Apart
<1>8. p \in Seq(TrunkType)
  <2>1. \A j \in DOMAIN b.peer : b.peer[j] \in TrunkType
    BY <1>2
  <2>2. \A j \in PeerTrunks(b, i) : v # b.peer[j].pvid
    BY <1>4 DEF PeerTrunks
  <2>3. \A j \in PeerTrunks(b, i) : j \in DOMAIN b.peer /\ With(b.peer[j], v) \in TrunkType
    <3>1. \A j \in PeerTrunks(b, i) : j \in DOMAIN b.peer
      BY DEF PeerTrunks
    <3> QED
      BY <2>1, <2>2, <3>1, WithOne
  <2>4. Len(b.peer) \in Nat /\ DOMAIN b.peer = 1 .. Len(b.peer)
    BY <1>2
  <2>5. p \in [1 .. Len(b.peer) -> TrunkType]
    BY <2>1, <2>3, <2>4
  <2> QED
    BY <2>4, <2>5, IsSequence
<1>9. ASSUME ~vnetAware, b.failover PROVE p = s
  <2>1. PeerTrunks(b, i) = {i} /\ b.peer = b.adpts
    BY <1>1, <1>9, PeerIsTheSame
  <2>2. p = [j \in DOMAIN b.adpts |-> IF j = i THEN g ELSE b.adpts[j]]
    BY <2>1
  <2> QED
    BY <1>1, <1>2, <2>2
<1>10. Sound(vnetAware, WithTrunks(b, s, p))
  BY <1>1, <1>5, <1>6, <1>7, <1>8, <1>9, OneChanged
<1>11. s \in Seq(TrunkType) /\ DOMAIN s = DOMAIN b.adpts /\ s[i] = g /\ \A j \in DOMAIN b.adpts : j # i => s[j] = b.adpts[j]
  BY <1>1, <1>2, <1>5
<1>17. b \in BridgeType
  BY DEF Sound
<1> HIDE DEF c, s, p, g, i
<1>12. Header(c, b) /\ c.adpts = s
  BY <1>3, <1>8, <1>11, <1>17, NewTrunks
<1>13. CarriedBy(vnetAware, c) = CarriedBy(vnetAware, b) \cup {v}
  <2>1. \A x : x \in CarriedBy(vnetAware, c) <=> \E j \in DOMAIN s : x \in Carries(vnetAware, s[j])
    BY <1>12, CarriedMembers
  <2>2. \A x : x \in CarriedBy(vnetAware, b) <=> \E j \in DOMAIN b.adpts : x \in Carries(vnetAware, b.adpts[j])
    BY CarriedMembers
  <2>3. \A x : x \in CarriedBy(vnetAware, c) <=> x \in CarriedBy(vnetAware, b) \/ x = v
    BY <1>1, <1>5, <1>11, <2>1, <2>2
  <2> QED
    BY <2>3
<1>14. ArbitraryPvids(c) = ArbitraryPvids(b)
  <2>1. \A x : x \in ArbitraryPvids(c) <=> \E j \in DOMAIN s : x = s[j].pvid
    BY <1>12, PvidMembers
  <2>2. \A j \in DOMAIN s : s[j].pvid = b.adpts[j].pvid
    BY <1>5, <1>11
  <2>3. \A x : x \in ArbitraryPvids(b) <=> \E j \in DOMAIN b.adpts : x = b.adpts[j].pvid
    BY PvidMembers
  <2>4. \A x : x \in ArbitraryPvids(c) <=> x \in ArbitraryPvids(b)
    BY <1>11, <2>1, <2>2, <2>3
  <2> QED
    BY <2>4
<1>15. Tagged(b.adpts) \subseteq Tagged(c.adpts)
  <2>1. \A j \in DOMAIN s : b.adpts[j].tagged \subseteq s[j].tagged
    BY <1>5, <1>11
  <2>2. \A x : x \in Tagged(b.adpts) <=> \E j \in DOMAIN b.adpts : x \in b.adpts[j].tagged
    BY Members
  <2>3. \A x : x \in Tagged(s) <=> \E j \in DOMAIN s : x \in s[j].tagged
    BY Members
  <2> QED
    BY <1>11, <1>12, <2>1, <2>2, <2>3
<1>16. Sound(vnetAware, c)
  BY <1>3, <1>10
<1> QED
  BY <1>12, <1>13, <1>14, <1>15, <1>16 DEF c

\* _add_vlans_to_nb with a new trunk: the bridge stays sound if the PVID is unused.
LEMMA AddedNew ==
  ASSUME vnetAware \in BOOLEAN, NEW b, Sound(vnetAware, b), NEW v \in Vlans,
         v \notin CarriedBy(vnetAware, b) \cup ArbitraryPvids(b),
         NEW arb \in Vlans, arb # v,
         arb \notin AllVlans(b) \cup CarriedBy(vnetAware, b) \cup Orphans,
         Available(b) = 0
  PROVE  /\ Sound(vnetAware, AddVlan(b, v, arb)) /\ Header(AddVlan(b, v, arb), b)
         /\ CarriedBy(vnetAware, AddVlan(b, v, arb)) = CarriedBy(vnetAware, b) \cup {v}
         /\ ArbitraryPvids(AddVlan(b, v, arb)) = ArbitraryPvids(b) \cup {arb}
         /\ Tagged(b.adpts) \subseteq Tagged(AddVlan(b, v, arb).adpts)
<1> DEFINE g == Trunk(arb, v)
           s == Append(b.adpts, g)
           p == IF b.failover /\ ~vnetAware THEN Append(b.peer, g) ELSE b.peer
           c == AddVlan(b, v, arb)
           n == Len(b.adpts) + 1
<1>1. /\ b.adpts \in Seq(TrunkType) /\ b.peer \in Seq(TrunkType)
      /\ b.pvid \in Vlans /\ b.prim \subseteq Vlans
  BY Typed DEF Sound
<1>2. /\ g \in TrunkType /\ g.pvid = arb
      /\ Carries(vnetAware, g) = {v}
      /\ Fill(vnetAware, g) <= MaxVlans
      /\ vnetAware => arb \in g.uris
  BY TrunkIs
<1>3. c = WithTrunks(b, s, p)
  BY DEF AddVlan
<1>4. /\ s \in Seq(TrunkType) /\ DOMAIN s = 1 .. n /\ s[n] = g
      /\ \A k \in DOMAIN b.adpts : k \in 1 .. Len(b.adpts) /\ s[k] = b.adpts[k]
  BY <1>1, <1>2, Appended
<1>5. Fits(vnetAware, b, g)
  <2>1. arb # b.pvid /\ arb \notin b.prim
    BY DEF AllVlans, Supported
  <2> HIDE DEF g
  <2> QED
    BY <1>2, <2>1 DEF Fits
<1>6. \A j \in DOMAIN b.adpts : Apart(vnetAware, g, b.adpts[j])
  <2> SUFFICES ASSUME NEW j \in DOMAIN b.adpts PROVE Apart(vnetAware, g, b.adpts[j])
    OBVIOUS
  <2>1. v \notin Carries(vnetAware, b.adpts[j]) /\ v # b.adpts[j].pvid
    BY CarriedMembers, PvidMembers
  <2>2. arb \notin Carries(vnetAware, b.adpts[j])
    BY CarriedMembers
  <2>3. arb # b.adpts[j].pvid
    BY PvidMembers DEF AllVlans
  <2> HIDE DEF g
  <2> QED
    BY <1>2, <2>1, <2>2, <2>3 DEF Apart
<1>7. p \in Seq(TrunkType)
  BY <1>1, <1>2
<1>8. ~vnetAware /\ b.failover => p = s
  BY DEF Sound
<1>9. Sound(vnetAware, WithTrunks(b, s, p))
  BY <1>2, <1>5, <1>6, <1>7, <1>8, OneAppended
<1>17. b \in BridgeType
  BY DEF Sound
<1>11. \A k \in DOMAIN s : k # n => k \in DOMAIN b.adpts
  BY <1>1, <1>4
<1>12. n \in DOMAIN s /\ DOMAIN b.adpts \subseteq DOMAIN s /\ n \notin DOMAIN b.adpts
  BY <1>1, <1>4
<1> HIDE DEF c, s, p, g, n
<1>10. Header(c, b) /\ c.adpts = s
  BY <1>3, <1>4, <1>7, <1>17, NewTrunks
<1>13. CarriedBy(vnetAware, c) = CarriedBy(vnetAware, b) \cup {v}
  <2>1. \A x : x \in CarriedBy(vnetAware, c) <=> \E j \in DOMAIN s : x \in Carries(vnetAware, s[j])
    BY <1>10, CarriedMembers
  <2>2. \A x : x \in CarriedBy(vnetAware, b) <=> \E j \in DOMAIN b.adpts : x \in Carries(vnetAware, b.adpts[j])
    BY CarriedMembers
  <2>3. \A x : x \in CarriedBy(vnetAware, c) <=> x \in CarriedBy(vnetAware, b) \/ x = v
    BY <1>2, <1>4, <1>11, <1>12, <2>1, <2>2
  <2> QED
    BY <2>3
<1>14. ArbitraryPvids(c) = ArbitraryPvids(b) \cup {arb}
  <2>1. \A x : x \in ArbitraryPvids(c) <=> \E j \in DOMAIN s : x = s[j].pvid
    BY <1>10, PvidMembers
  <2>2. \A x : x \in ArbitraryPvids(b) <=> \E j \in DOMAIN b.adpts : x = b.adpts[j].pvid
    BY PvidMembers
  <2>3. \A x : x \in ArbitraryPvids(c) <=> x \in ArbitraryPvids(b) \/ x = arb
    BY <1>2, <1>4, <1>11, <1>12, <2>1, <2>2
  <2> QED
    BY <2>3
<1>15. Tagged(b.adpts) \subseteq Tagged(c.adpts)
  <2>2. \A x : x \in Tagged(b.adpts) <=> \E j \in DOMAIN b.adpts : x \in b.adpts[j].tagged
    BY Members
  <2>3. \A x : x \in Tagged(s) <=> \E j \in DOMAIN s : x \in s[j].tagged
    BY Members
  <2> QED
    BY <1>4, <1>10, <1>12, <2>2, <2>3
<1>16. Sound(vnetAware, c)
  BY <1>3, <1>9
<1> QED
  BY <1>10, <1>13, <1>14, <1>15, <1>16 DEF c

-----------------------------------------------------------------------------
(* Removing one.                                                           *)

\* The trunk that a VLAN is removed from has it.
LEMMA CarrierIn ==
  ASSUME NEW b \in BridgeType, NEW v, v \in Tagged(b.adpts)
  PROVE  Carrier(b, v) \in DOMAIN b.adpts /\ v \in b.adpts[Carrier(b, v)].tagged
<1> DEFINE S == {i \in DOMAIN b.adpts : v \in b.adpts[i].tagged}
<1>1. b.adpts \in Seq(TrunkType) /\ DOMAIN b.adpts = 1 .. Len(b.adpts)
  BY Typed
<1>2. S \in SUBSET Nat /\ S # {}
  BY <1>1, Members
<1>3. PICK i \in S : \A j \in S : i <= j
  BY <1>2, LeastNat
<1>4. \A j \in 1 .. i - 1 : v \notin b.adpts[j].tagged
  <2> SUFFICES ASSUME NEW j \in 1 .. i - 1, v \in b.adpts[j].tagged PROVE FALSE
    OBVIOUS
  <2>1. i \in 1 .. Len(b.adpts)
    BY <1>1
  <2>2. j \in DOMAIN b.adpts /\ j < i /\ i \in Nat /\ j \in Nat
    BY <1>1, <2>1
  <2> QED
    BY <1>3, <2>2
<1>5. i \in DOMAIN b.adpts /\ v \in b.adpts[i].tagged
  OBVIOUS
<1> QED
  BY <1>4, <1>5 DEF Carrier

\* A trunk with one VLAN less.
LEMMA CutOne ==
  ASSUME vnetAware \in BOOLEAN, NEW g \in TrunkType, NEW v
  PROVE  /\ Cut(g, v) \in TrunkType /\ Cut(g, v).pvid = g.pvid
         /\ Carries(vnetAware, Cut(g, v)) = Carries(vnetAware, g) \ {v}
         /\ Fill(vnetAware, Cut(g, v)) <= Fill(vnetAware, g)
         /\ g.tagged \ {v} \subseteq Cut(g, v).tagged
         /\ vnetAware /\ g.pvid \in g.uris /\ v # g.pvid => g.pvid \in Cut(g, v).uris
<1> DEFINE h == Cut(g, v)
<1>1. CASE vnetAware
  <2>1. /\ h \in TrunkType /\ h.pvid = g.pvid /\ h.uris = g.uris \ {v} /\ h.tagged = g.tagged
    BY <1>1 DEF Cut, TrunkType
  <2>2. Cardinality(g.uris \ {v}) <= Cardinality(g.uris)
    <3>1. IsFiniteSet(g.uris) /\ g.uris \ {v} \subseteq g.uris
      BY FillIsNatural
    <3> QED
      BY <3>1, FS_Subset
  <2> HIDE DEF h
  <2>3. Carries(vnetAware, h) = Carries(vnetAware, g) \ {v}
    BY <1>1, <2>1 DEF Carries
  <2>4. Fill(vnetAware, h) <= Fill(vnetAware, g)
    BY <1>1, <2>1, <2>2 DEF Fill
  <2>5. h \in TrunkType /\ h.pvid = g.pvid /\ g.tagged \subseteq h.tagged /\ (g.pvid \in g.uris /\ v # g.pvid => g.pvid \in h.uris)
    BY <2>1
  <2> QED
    BY <2>3, <2>4, <2>5 DEF h
<1>2. CASE ~vnetAware
  <2>1. /\ h \in TrunkType /\ h.pvid = g.pvid /\ h.uris = g.uris /\ h.tagged = g.tagged \ {v}
    BY <1>2 DEF Cut, TrunkType
  <2>2. Cardinality(g.tagged \ {v}) <= Cardinality(g.tagged)
    <3>1. IsFiniteSet(g.tagged) /\ g.tagged \ {v} \subseteq g.tagged
      BY FillIsNatural
    <3> QED
      BY <3>1, FS_Subset
  <2> HIDE DEF h
  <2>3. Carries(vnetAware, h) = Carries(vnetAware, g) \ {v}
    BY <1>2, <2>1 DEF Carries
  <2>4. Fill(vnetAware, h) <= Fill(vnetAware, g)
    BY <1>2, <2>1, <2>2 DEF Fill
  <2>5. h \in TrunkType /\ h.pvid = g.pvid /\ g.tagged \ {v} \subseteq h.tagged
    BY <2>1
  <2> QED
    BY <1>2, <2>3, <2>4, <2>5 DEF h
<1> QED
  BY <1>1, <1>2

\* The two lists of trunks that _remove_vlan_from_nb leaves.
CutAt(b, i, v) == [b.adpts EXCEPT ![i] = Cut(b.adpts[i], v)]
PeerCut(b, i, v) == [j \in DOMAIN b.peer |-> IF j \in PeerTrunks(b, i) THEN Cut(b.peer[j], v) ELSE b.peer[j]]
Gone(b, i) == {j \in PeerTrunks(b, i) : LastOf(b, b.peer[j])}
AdptsLeft(b, v) ==
  LET i == Carrier(b, v) IN IF LastOf(b, b.adpts[i]) THEN RemoveAt(b.adpts, i) ELSE CutAt(b, i, v)
PeerLeft(b, v) ==
  LET i == Carrier(b, v) IN IF Gone(b, i) # {} THEN RemoveAt(b.peer, Min(Gone(b, i))) ELSE PeerCut(b, i, v)

\* _remove_vlan_from_nb in terms of these lists, for any bridge.
LEMMA RemoveVlanIs ==
  ASSUME vnetAware \in BOOLEAN, NEW b \in BridgeType, NEW v, v \in Tagged(b.adpts)
  PROVE  /\ RemoveVlan(b, v) = WithTrunks(b, AdptsLeft(b, v), PeerLeft(b, v))
         /\ AdptsLeft(b, v) \in Seq(TrunkType) /\ PeerLeft(b, v) \in Seq(TrunkType)
         /\ RemoveVlan(b, v) \in BridgeType /\ Header(RemoveVlan(b, v), b)
         /\ RemoveVlan(b, v).adpts = AdptsLeft(b, v)
<1> DEFINE i == Carrier(b, v)
           s == CutAt(b, i, v)
           p == PeerCut(b, i, v)
<1>1. i \in DOMAIN b.adpts
  BY CarrierIn
<1>2. b.adpts \in Seq(TrunkType) /\ b.peer \in Seq(TrunkType)
  BY Typed
<1>3. b.adpts[i] \in TrunkType
  BY <1>1, <1>2
<1>4. s \in Seq(TrunkType)
  <2>1. Cut(b.adpts[i], v) \in TrunkType
    BY <1>3, CutOne
  <2> HIDE DEF i
  <2> QED
    BY <1>1, <1>2, <2>1 DEF CutAt
<1>5. p \in Seq(TrunkType)
  <2>1. \A j \in DOMAIN b.peer : b.peer[j] \in TrunkType /\ Cut(b.peer[j], v) \in TrunkType
    BY <1>2, CutOne
  <2>2. Len(b.peer) \in Nat /\ DOMAIN b.peer = 1 .. Len(b.peer)
    BY <1>2
  <2> HIDE DEF i
  <2>3. p \in [1 .. Len(b.peer) -> TrunkType]
    BY <2>1, <2>2 DEF PeerCut
  <2> QED
    BY <2>2, <2>3, IsSequence
<1>6. OnBoth(b, i, LAMBDA g : Cut(g, v)) = WithTrunks(b, s, p)
  BY DEF OnBoth, CutAt, PeerCut
<1>7. WithTrunks(b, s, p).adpts = s /\ WithTrunks(b, s, p).peer = p
  BY <1>4, <1>5, NewTrunks
<1>8. RemoveVlan(b, v) = WithTrunks(b, AdptsLeft(b, v), PeerLeft(b, v))
  BY <1>6, <1>7 DEF RemoveVlan, AdptsLeft, PeerLeft, Gone
<1>9. AdptsLeft(b, v) \in Seq(TrunkType)
  <2>1. RemoveAt(b.adpts, i) \in Seq(TrunkType)
    BY <1>1, <1>2, RemovedAt
  <2> QED
    BY <1>4, <2>1 DEF AdptsLeft
<1>10. PeerLeft(b, v) \in Seq(TrunkType)
  <2>1. ASSUME Gone(b, i) # {} PROVE RemoveAt(b.peer, Min(Gone(b, i))) \in Seq(TrunkType)
    <3>1. DOMAIN b.peer \subseteq Nat /\ Gone(b, i) \subseteq DOMAIN b.peer
      BY <1>2 DEF Gone, PeerTrunks
    <3>2. Gone(b, i) \in SUBSET Nat
      BY <3>1
    <3>3. Min(Gone(b, i)) \in Gone(b, i)
      BY <2>1, <3>2, MinIn
    <3>4. Min(Gone(b, i)) \in DOMAIN b.peer
      BY <3>1, <3>3
    <3> QED
      BY <1>2, <3>4, RemovedAt
  <2> QED
    BY <1>5, <2>1 DEF PeerLeft
<1> QED
  BY <1>8, <1>9, <1>10, NewTrunks

\* A trunk that loses one VLAN goes on to fit, if it has another or may be empty.
LEMMA CutKeeps ==
  ASSUME vnetAware \in BOOLEAN, NEW b, Sound(vnetAware, b), NEW i \in DOMAIN b.adpts, NEW v,
         v \in Carries(vnetAware, b.adpts[i]),
         Carries(vnetAware, b.adpts[i]) = {v} => b.lb
  PROVE  /\ Fits(vnetAware, b, Cut(b.adpts[i], v))
         /\ \A j \in DOMAIN b.adpts : j # i => Apart(vnetAware, Cut(b.adpts[i], v), b.adpts[j])
<1> DEFINE g == b.adpts[i]
           h == Cut(g, v)
<1>1. g \in TrunkType
  BY Typed DEF Sound
<1>2. Fits(vnetAware, b, g)
  BY DEF Sound
<1>3. g.pvid # v
  BY <1>2 DEF Fits
<1>4. /\ h \in TrunkType /\ h.pvid = g.pvid
      /\ Carries(vnetAware, h) = Carries(vnetAware, g) \ {v}
      /\ Fill(vnetAware, h) <= Fill(vnetAware, g)
      /\ vnetAware /\ g.pvid \in g.uris /\ v # g.pvid => g.pvid \in h.uris
  BY <1>1, CutOne
<1> HIDE DEF h
<1>5. Carries(vnetAware, h) = {} => b.lb
  BY <1>4
<1>6. Fill(vnetAware, h) <= MaxVlans
  <2>1. Fill(vnetAware, g) \in Nat /\ Fill(vnetAware, h) \in Nat
    BY <1>1, <1>4, FillIsNatural
  <2>2. Fill(vnetAware, g) <= MaxVlans
    BY <1>2 DEF Fits
  <2> QED
    BY <1>4, <2>1, <2>2, BridgerConstantsOK
<1>7. ASSUME NEW j \in DOMAIN b.adpts, j # i PROVE Apart(vnetAware, h, b.adpts[j])
  <2>1. Apart(vnetAware, g, b.adpts[j])
    BY <1>7 DEF Sound
  <2> HIDE DEF g
  <2> QED
    BY <1>4, <2>1 DEF Apart
<1>8. Fits(vnetAware, b, h)
  <2> HIDE DEF g
  <2> QED
    BY <1>2, <1>3, <1>4, <1>5, <1>6 DEF Fits
<1> QED
  BY <1>7, <1>8 DEF h

\* RemoveAt removes one element and no other.
LEMMA RemovedMembers ==
  ASSUME NEW T, NEW s \in Seq(T), NEW i \in DOMAIN s
  PROVE  /\ \A k \in DOMAIN RemoveAt(s, i) : \E j \in DOMAIN s : j # i /\ RemoveAt(s, i)[k] = s[j]
         /\ \A j \in DOMAIN s : j # i => \E k \in DOMAIN RemoveAt(s, i) : RemoveAt(s, i)[k] = s[j]
<1> DEFINE r == RemoveAt(s, i)
<1>1. DOMAIN s = 1 .. Len(s) /\ i \in 1 .. Len(s) /\ Len(s) \in Nat
  OBVIOUS
<1>2. DOMAIN r = 1 .. Len(s) - 1 /\ \A k \in 1 .. Len(s) - 1 : r[k] = IF k < i THEN s[k] ELSE s[k + 1]
  BY RemovedAt
<1> HIDE DEF r
<1>3. ASSUME NEW k \in DOMAIN r PROVE \E j \in DOMAIN s : j # i /\ r[k] = s[j]
  <2>1. CASE k < i
    <3>1. k \in DOMAIN s /\ k # i /\ r[k] = s[k]
      BY <1>1, <1>2, <2>1
    <3> QED
      BY <3>1
  <2>2. CASE ~(k < i)
    <3>1. k + 1 \in DOMAIN s /\ k + 1 # i /\ r[k] = s[k + 1]
      BY <1>1, <1>2, <2>2
    <3> QED
      BY <3>1
  <2> QED
    BY <2>1, <2>2
<1>4. ASSUME NEW j \in DOMAIN s, j # i PROVE \E k \in DOMAIN r : r[k] = s[j]
  <2>1. CASE j < i
    <3>1. j \in DOMAIN r /\ r[j] = s[j]
      BY <1>1, <1>2, <2>1
    <3> QED
      BY <3>1
  <2>2. CASE ~(j < i)
    <3>1. j - 1 \in 1 .. Len(s) - 1 /\ ~(j - 1 < i) /\ j - 1 + 1 = j
      BY <1>1, <1>4, <2>2
    <3>2. r[j - 1] = s[j]
      BY <1>2, <3>1
    <3> QED
      BY <1>2, <3>1, <3>2
  <2> QED
    BY <2>1, <2>2
<1> QED
  BY <1>3, <1>4 DEF r

\* On the server the trunks carry what they tag.
LEMMA SettledCarries ==
  ASSUME NEW va \in BOOLEAN, NEW b, Settled(va, b)
  PROVE  /\ \A i \in DOMAIN b.adpts : Carries(va, b.adpts[i]) = b.adpts[i].tagged
         /\ Tagged(b.adpts) = CarriedBy(va, b)
<1>1. \A i \in DOMAIN b.adpts : Carries(va, b.adpts[i]) = b.adpts[i].tagged
  BY DEF Settled, Carries
<1>2. \A x : x \in Tagged(b.adpts) <=> x \in CarriedBy(va, b)
  BY <1>1, Members, CarriedMembers
<1> QED
  BY <1>1, <1>2

\* _remove_vlan_from_nb: a sound bridge stays sound, without this VLAN and with all others.
LEMMA RemovedVlan ==
  ASSUME vnetAware \in BOOLEAN, NEW b, Sound(vnetAware, b), Settled(vnetAware, b),
         NEW v, v \in Tagged(b.adpts)
  PROVE  /\ Sound(vnetAware, RemoveVlan(b, v)) /\ Header(RemoveVlan(b, v), b)
         /\ CarriedBy(vnetAware, RemoveVlan(b, v)) = CarriedBy(vnetAware, b) \ {v}
         /\ ArbitraryPvids(RemoveVlan(b, v)) \subseteq ArbitraryPvids(b)
         /\ Tagged(b.adpts) \ {v} \subseteq Tagged(RemoveVlan(b, v).adpts)
<1> DEFINE i == Carrier(b, v)
           g == b.adpts[i]
           s == AdptsLeft(b, v)
           p == PeerLeft(b, v)
           c == RemoveVlan(b, v)
<1>1. b \in BridgeType /\ i \in DOMAIN b.adpts /\ v \in g.tagged
  BY CarrierIn DEF Sound
<1>2. b.adpts \in Seq(TrunkType) /\ b.peer \in Seq(TrunkType) /\ g \in TrunkType
  BY <1>1, Typed
<1>3. /\ c = WithTrunks(b, s, p) /\ s \in Seq(TrunkType) /\ p \in Seq(TrunkType)
      /\ c \in BridgeType /\ Header(c, b) /\ c.adpts = s
  BY <1>1, RemoveVlanIs
<1>4. \A j \in DOMAIN b.adpts : Carries(vnetAware, b.adpts[j]) = b.adpts[j].tagged
  BY SettledCarries
<1>5. \A j \in DOMAIN b.adpts : j # i => v \notin Carries(vnetAware, b.adpts[j])
  BY <1>1, <1>4 DEF Sound, Apart
<1>6. Cardinality(g.tagged) = 1 <=> g.tagged = {v}
  <2>1. IsFiniteSet(g.tagged)
    BY <1>2, FillIsNatural
  <2>2. Cardinality(g.tagged) = 1 <=> \E x : g.tagged = {x}
    BY <2>1, FS_Singleton
  <2> QED
    BY <1>1, <2>2
<1>7. ASSUME ~vnetAware, b.failover
      PROVE  b.peer = b.adpts /\ Gone(b, i) = IF LastOf(b, g) THEN {i} ELSE {}
  BY <1>1, <1>7, PeerIsTheSame DEF Gone
<1>8. CASE LastOf(b, g)
  <2>1. s = RemoveAt(b.adpts, i)
    BY <1>8 DEF AdptsLeft
  <2>2. ~vnetAware /\ b.failover => p = RemoveAt(b.adpts, i)
    <3>1. i \in Nat
      BY <1>1, <1>2
    <3>2. Min({i}) = i
      BY <3>1, MinIn
    <3> HIDE DEF i
    <3> QED
      BY <1>7, <1>8, <3>2 DEF PeerLeft, i
  <2> HIDE DEF s, p
  <2>3. Sound(vnetAware, c)
    BY <1>1, <1>3, <2>1, <2>2, OneRemoved
  <2>4. /\ \A k \in DOMAIN s : \E j \in DOMAIN b.adpts : j # i /\ s[k] = b.adpts[j]
        /\ \A j \in DOMAIN b.adpts : j # i => \E k \in DOMAIN s : s[k] = b.adpts[j]
    BY <1>1, <1>2, <2>1, RemovedMembers
  <2>5. g.tagged = {v} /\ Carries(vnetAware, g) = {v}
    BY <1>1, <1>4, <1>6, <1>8 DEF LastOf
  <2> HIDE DEF i, c
  <2>6. \A x : x \in CarriedBy(vnetAware, c) <=> x \in CarriedBy(vnetAware, b) /\ x # v
    <3>1. \A x : x \in CarriedBy(vnetAware, c) <=> \E j \in DOMAIN s : x \in Carries(vnetAware, s[j])
      BY <1>3, CarriedMembers
    <3>2. \A x : x \in CarriedBy(vnetAware, b) <=> \E j \in DOMAIN b.adpts : x \in Carries(vnetAware, b.adpts[j])
      BY CarriedMembers
    <3> QED
      BY <1>1, <1>5, <2>4, <2>5, <3>1, <3>2
  <2>7. \A x : x \in ArbitraryPvids(c) => x \in ArbitraryPvids(b)
    <3>1. \A x : x \in ArbitraryPvids(c) <=> \E j \in DOMAIN s : x = s[j].pvid
      BY <1>3, PvidMembers
    <3>2. \A x : x \in ArbitraryPvids(b) <=> \E j \in DOMAIN b.adpts : x = b.adpts[j].pvid
      BY PvidMembers
    <3> QED
      BY <2>4, <3>1, <3>2
  <2>8. \A x : x \in Tagged(b.adpts) /\ x # v => x \in Tagged(s)
    <3>1. \A x : x \in Tagged(s) <=> \E j \in DOMAIN s : x \in s[j].tagged
      BY Members
    <3>2. \A x : x \in Tagged(b.adpts) <=> \E j \in DOMAIN b.adpts : x \in b.adpts[j].tagged
      BY Members
    <3> QED
      BY <1>1, <2>4, <2>5, <3>1, <3>2
  <2>9. CarriedBy(vnetAware, c) = CarriedBy(vnetAware, b) \ {v}
    BY <2>6
  <2> QED
    BY <1>3, <2>3, <2>7, <2>8, <2>9 DEF c, i
<1>9. CASE ~LastOf(b, g)
  <2> DEFINE h == Cut(g, v)
  <2>1. s = [b.adpts EXCEPT ![i] = h]
    BY <1>9 DEF AdptsLeft, CutAt
  <2>2. ~vnetAware /\ b.failover => p = [b.adpts EXCEPT ![i] = h]
    <3> SUFFICES ASSUME ~vnetAware, b.failover PROVE p = [b.adpts EXCEPT ![i] = h]
      OBVIOUS
    <3>1. p = PeerCut(b, i, v)
      BY <1>7, <1>9 DEF PeerLeft
    <3>2. PeerTrunks(b, i) = {i} /\ b.peer = b.adpts
      BY <1>1, PeerIsTheSame
    <3>3. PeerCut(b, i, v) = [j \in DOMAIN b.adpts |-> IF j = i THEN h ELSE b.adpts[j]]
      BY <3>2 DEF PeerCut
    <3> HIDE DEF h, i
    <3> QED
      BY <1>1, <1>2, <3>1, <3>3
  <2>3. Carries(vnetAware, g) = {v} => b.lb
    BY <1>1, <1>4, <1>6, <1>9 DEF LastOf, MayGo
  <2>4. v \in Carries(vnetAware, g)
    BY <1>1, <1>4
  <2>5. Fits(vnetAware, b, h) /\ \A j \in DOMAIN b.adpts : j # i => Apart(vnetAware, h, b.adpts[j])
    BY <1>1, <2>3, <2>4, CutKeeps
  <2>6. /\ h \in TrunkType /\ h.pvid = g.pvid /\ Carries(vnetAware, h) = Carries(vnetAware, g) \ {v}
        /\ g.tagged \ {v} \subseteq h.tagged
    BY <1>2, CutOne
  <2> HIDE DEF s, p, h
  <2>7. Sound(vnetAware, c)
    BY <1>1, <1>3, <2>1, <2>2, <2>5, <2>6, OneChanged
  <2>8. DOMAIN s = DOMAIN b.adpts /\ s[i] = h /\ \A j \in DOMAIN b.adpts : j # i => s[j] = b.adpts[j]
    BY <1>1, <1>2, <2>1
  <2> HIDE DEF i, c
  <2>9. \A x : x \in CarriedBy(vnetAware, c) <=> x \in CarriedBy(vnetAware, b) /\ x # v
    <3>1. \A x : x \in CarriedBy(vnetAware, c) <=> \E j \in DOMAIN s : x \in Carries(vnetAware, s[j])
      BY <1>3, CarriedMembers
    <3>2. \A x : x \in CarriedBy(vnetAware, b) <=> \E j \in DOMAIN b.adpts : x \in Carries(vnetAware, b.adpts[j])
      BY CarriedMembers
    <3>3. \A j \in DOMAIN s : Carries(vnetAware, s[j]) = Carries(vnetAware, b.adpts[j]) \ {v}
      BY <1>5, <2>6, <2>8
    <3> QED
      BY <2>8, <3>1, <3>2, <3>3
  <2>10. \A x : x \in ArbitraryPvids(c) => x \in ArbitraryPvids(b)
    <3>1. \A x : x \in ArbitraryPvids(c) <=> \E j \in DOMAIN s : x = s[j].pvid
      BY <1>3, PvidMembers
    <3>2. \A x : x \in ArbitraryPvids(b) <=> \E j \in DOMAIN b.adpts : x = b.adpts[j].pvid
      BY PvidMembers
    <3>3. \A j \in DOMAIN s : s[j].pvid = b.adpts[j].pvid
      BY <2>6, <2>8
    <3> QED
      BY <2>8, <3>1, <3>2, <3>3
  <2>11. \A x : x \in Tagged(b.adpts) /\ x # v => x \in Tagged(s)
    <3>1. \A x : x \in Tagged(s) <=> \E j \in DOMAIN s : x \in s[j].tagged
      BY Members
    <3>2. \A x : x \in Tagged(b.adpts) <=> \E j \in DOMAIN b.adpts : x \in b.adpts[j].tagged
      BY Members
    <3>3. \A j \in DOMAIN s : b.adpts[j].tagged \ {v} \subseteq s[j].tagged
      BY <2>6, <2>8
    <3> QED
      BY <2>8, <3>1, <3>2, <3>3
  <2>12. CarriedBy(vnetAware, c) = CarriedBy(vnetAware, b) \ {v}
    BY <2>9
  <2> QED
    BY <1>3, <2>7, <2>10, <2>11, <2>12 DEF c, i
<1> QED
  BY <1>8, <1>9

-----------------------------------------------------------------------------
(* What the server makes of a POST.                                        *)

\* The server changes no VLAN of what it is sent.
LEMMA RealizedOne ==
  ASSUME vnetAware \in BOOLEAN, NEW g \in TrunkType
  PROVE  /\ Realized(g) \in TrunkType /\ Realized(g).pvid = g.pvid /\ Realized(g).uris = g.uris
         /\ vnetAware => ~Realized(g).bld /\ Realized(g).tagged = g.uris \ {g.pvid}
         /\ ~vnetAware => Realized(g) = g
         /\ Carries(vnetAware, Realized(g)) = Carries(vnetAware, g)
         /\ Fill(vnetAware, Realized(g)) = Fill(vnetAware, g)
<1>1. CASE vnetAware
  <2>1. /\ Realized(g) \in TrunkType /\ Realized(g).pvid = g.pvid /\ Realized(g).uris = g.uris
        /\ ~Realized(g).bld /\ Realized(g).tagged = g.uris \ {g.pvid}
    BY <1>1 DEF Realized, TrunkType
  <2> QED
    BY <1>1, <2>1 DEF Carries, Fill
<1>2. CASE ~vnetAware
  <2>1. Realized(g) = g
    BY <1>2 DEF Realized
  <2> QED
    BY <1>2, <2>1
<1> QED
  BY <1>1, <1>2

\* What is on the server after a POST of w.
Stored(b, w) == Posted(b, w)[b]

\* A POST changes one bridge, and gives it a new etag.
LEMMA PostedIs ==
  ASSUME vnetAware \in BOOLEAN, nb \in [Ids -> BridgeType], NEW b \in Ids, NEW w \in BridgeType
  PROVE  /\ Posted(b, w) \in [Ids -> BridgeType]
         /\ \A a \in Ids : a # b => Posted(b, w)[a] = nb[a]
         /\ Stored(b, w).pvid = w.pvid /\ Stored(b, w).prim = w.prim /\ Stored(b, w).lb = w.lb
         /\ Stored(b, w).failover = w.failover /\ Stored(b, w).peer = w.peer /\ Stored(b, w).ver = nb[b].ver + 1
         /\ DOMAIN Stored(b, w).adpts = DOMAIN w.adpts
         /\ \A i \in DOMAIN w.adpts : Stored(b, w).adpts[i] = Realized(w.adpts[i])
         /\ ~vnetAware => Stored(b, w).adpts = w.adpts
         /\ Settled(vnetAware, Posted(b, w)[b])
<1> DEFINE s == [i \in DOMAIN w.adpts |-> Realized(w.adpts[i])]
           c == [w EXCEPT !.adpts = s, !.ver = nb[b].ver + 1]
<1>1. Posted(b, w) = [nb EXCEPT ![b] = c]
  BY DEF Posted
<1>2. w.adpts \in Seq(TrunkType) /\ \A i \in DOMAIN w.adpts : w.adpts[i] \in TrunkType
  BY Typed
<1>3. s \in Seq(TrunkType) /\ DOMAIN s = DOMAIN w.adpts
  <2>1. \A i \in DOMAIN w.adpts : Realized(w.adpts[i]) \in TrunkType
    BY <1>2, RealizedOne
  <2>2. Len(w.adpts) \in Nat /\ DOMAIN w.adpts = 1 .. Len(w.adpts)
    BY <1>2
  <2>3. s \in [1 .. Len(w.adpts) -> TrunkType]
    BY <2>1, <2>2
  <2> QED
    BY <2>2, <2>3, IsSequence
<1>4. \A i \in DOMAIN w.adpts : s[i] = Realized(w.adpts[i])
  OBVIOUS
<1>5. ~vnetAware => s = w.adpts
  BY <1>2, RealizedOne
<1>6. nb[b].ver + 1 \in Nat
  <2>1. nb[b] \in BridgeType
    OBVIOUS
  <2> QED
    BY <2>1, Typed
<1> HIDE DEF s
<1>7. /\ c \in BridgeType /\ c.adpts = s /\ c.pvid = w.pvid /\ c.prim = w.prim /\ c.lb = w.lb
      /\ c.failover = w.failover /\ c.peer = w.peer /\ c.ver = nb[b].ver + 1
  BY <1>3, <1>6 DEF BridgeType
<1> HIDE DEF c
<1>8. Posted(b, w) \in [Ids -> BridgeType] /\ Posted(b, w)[b] = c /\ \A a \in Ids : a # b => Posted(b, w)[a] = nb[a]
  BY <1>1, <1>7
<1>9. Settled(vnetAware, c)
  <2> SUFFICES ASSUME vnetAware, NEW i \in DOMAIN c.adpts
               PROVE  ~c.adpts[i].bld /\ c.adpts[i].tagged = c.adpts[i].uris \ {c.adpts[i].pvid}
    BY DEF Settled
  <2>1. c.adpts[i] = Realized(w.adpts[i]) /\ w.adpts[i] \in TrunkType
    BY <1>2, <1>3, <1>4, <1>7
  <2> QED
    BY <2>1, RealizedOne
<1> QED
  BY <1>3, <1>4, <1>5, <1>7, <1>8, <1>9 DEF Stored

\* A sound bridge that is POSTed is sound, and settled, on the server.
LEMMA PostedSound ==
  ASSUME vnetAware \in BOOLEAN, nb \in [Ids -> BridgeType], NEW b \in Ids, NEW w, Sound(vnetAware, w)
  PROVE  /\ Sound(vnetAware, Posted(b, w)[b]) /\ Settled(vnetAware, Posted(b, w)[b])
         /\ Tagged(Posted(b, w)[b].adpts) = CarriedBy(vnetAware, w)
         /\ ArbitraryPvids(Posted(b, w)[b]) = ArbitraryPvids(w)
         /\ Supported(Posted(b, w)[b]) = {w.pvid} \cup w.prim \cup CarriedBy(vnetAware, w)
<1> DEFINE c == Posted(b, w)[b]
<1>1. w \in BridgeType /\ \A i \in DOMAIN w.adpts : w.adpts[i] \in TrunkType
  BY Typed DEF Sound
<1>2. /\ c \in BridgeType
      /\ c.pvid = w.pvid /\ c.prim = w.prim /\ c.lb = w.lb /\ c.failover = w.failover /\ c.peer = w.peer
      /\ DOMAIN c.adpts = DOMAIN w.adpts
      /\ \A i \in DOMAIN w.adpts : c.adpts[i] = Realized(w.adpts[i])
      /\ ~vnetAware => c.adpts = w.adpts
      /\ Settled(vnetAware, c)
  BY <1>1, PostedIs DEF Stored
<1> HIDE DEF c
<1>3. \A i \in DOMAIN w.adpts :
        /\ c.adpts[i].pvid = w.adpts[i].pvid /\ c.adpts[i].uris = w.adpts[i].uris
        /\ Carries(vnetAware, c.adpts[i]) = Carries(vnetAware, w.adpts[i])
        /\ Fill(vnetAware, c.adpts[i]) = Fill(vnetAware, w.adpts[i])
  BY <1>1, <1>2, RealizedOne
<1>4. \A i \in DOMAIN c.adpts : Fits(vnetAware, c, c.adpts[i])
  <2> SUFFICES ASSUME NEW i \in DOMAIN c.adpts PROVE Fits(vnetAware, c, c.adpts[i])
    OBVIOUS
  <2>1. Fits(vnetAware, w, w.adpts[i])
    BY <1>2 DEF Sound
  <2> QED
    BY <1>2, <1>3, <2>1 DEF Fits
<1>5. \A i, j \in DOMAIN c.adpts : i # j => Apart(vnetAware, c.adpts[i], c.adpts[j])
  <2> SUFFICES ASSUME NEW i \in DOMAIN c.adpts, NEW j \in DOMAIN c.adpts, i # j
               PROVE  Apart(vnetAware, c.adpts[i], c.adpts[j])
    OBVIOUS
  <2>1. Apart(vnetAware, w.adpts[i], w.adpts[j])
    BY <1>2 DEF Sound
  <2> QED
    BY <1>2, <1>3, <2>1 DEF Apart
<1>6. Sound(vnetAware, c)
  BY <1>2, <1>4, <1>5 DEF Sound
<1>7. CarriedBy(vnetAware, c) = CarriedBy(vnetAware, w)
  <2>1. \A x : x \in CarriedBy(vnetAware, c) <=> x \in CarriedBy(vnetAware, w)
    BY <1>2, <1>3, CarriedMembers
  <2> QED
    BY <2>1
<1>8. Tagged(c.adpts) = CarriedBy(vnetAware, w)
  BY <1>2, <1>7, SettledCarries
<1>9. ArbitraryPvids(c) = ArbitraryPvids(w)
  <2>1. \A x : x \in ArbitraryPvids(c) <=> \E j \in DOMAIN c.adpts : x = c.adpts[j].pvid
    BY PvidMembers
  <2>2. \A x : x \in ArbitraryPvids(w) <=> \E j \in DOMAIN w.adpts : x = w.adpts[j].pvid
    BY PvidMembers
  <2>3. \A x : x \in ArbitraryPvids(c) <=> x \in ArbitraryPvids(w)
    BY <1>2, <1>3, <2>1, <2>2
  <2> QED
    BY <2>3
<1>10. Supported(c) = {w.pvid} \cup w.prim \cup CarriedBy(vnetAware, w)
  BY <1>2, <1>8 DEF Supported
<1> QED
  BY <1>2, <1>6, <1>8, <1>9, <1>10 DEF c

-----------------------------------------------------------------------------
(* Reassigning an arbitrary PVID.                                          *)

\* _reassign_arbitrary_vid finds the trunk with the PVID.
LEMMA ImpactedIn ==
  ASSUME NEW b, NEW v, v \in ArbitraryPvids(b)
  PROVE  Impacted(b, v) \in DOMAIN b.adpts /\ b.adpts[Impacted(b, v)].pvid = v
<1>1. \E i \in DOMAIN b.adpts : b.adpts[i].pvid = v
  BY PvidMembers
<1> QED
  BY <1>1 DEF Impacted

\* The PVIDs after a reassignment.
Repvids(b, old, arb) == (ArbitraryPvids(b) \ {old}) \cup {arb}

\* A VLAN that a bridge does not use.
FreeOn(va, b, v) == v \in Vlans /\ v \notin AllVlans(b) \cup CarriedBy(va, b) \cup Orphans

\* NetworkBridgerTA: the trunk with its new PVID.
LEMMA Repvided ==
  ASSUME ~vnetAware, NEW b, Sound(vnetAware, b), NEW old, old \in ArbitraryPvids(b), NEW arb, FreeOn(vnetAware, b, arb)
  PROVE  /\ Sound(vnetAware, Repvid(b, old, arb)) /\ Header(Repvid(b, old, arb), b)
         /\ CarriedBy(vnetAware, Repvid(b, old, arb)) = CarriedBy(vnetAware, b)
         /\ ArbitraryPvids(Repvid(b, old, arb)) = (ArbitraryPvids(b) \ {old}) \cup {arb}
<1> DEFINE i == Impacted(b, old)
           g == [b.adpts[i] EXCEPT !.pvid = arb]
           s == [b.adpts EXCEPT ![i] = g]
           p == [j \in DOMAIN b.peer |-> IF j \in PeerTrunks(b, i) THEN [b.peer[j] EXCEPT !.pvid = arb] ELSE b.peer[j]]
           c == Repvid(b, old, arb)
<1>0. vnetAware \in BOOLEAN => vnetAware = FALSE
  OBVIOUS
<1>1. i \in DOMAIN b.adpts /\ b.adpts[i].pvid = old /\ b \in BridgeType
  BY ImpactedIn DEF Sound
<1>2. b.adpts \in Seq(TrunkType) /\ b.adpts[i] \in TrunkType /\ b.peer \in Seq(TrunkType)
  BY <1>1, Typed
<1>3. c = WithTrunks(b, s, p)
  BY DEF Repvid, OnBoth
<1>4. g \in TrunkType /\ g.pvid = arb /\ g.tagged = b.adpts[i].tagged /\ arb \in Vlans
  BY <1>2 DEF TrunkType, FreeOn
<1>5. Carries(vnetAware, g) = Carries(vnetAware, b.adpts[i]) /\ Fill(vnetAware, g) = Fill(vnetAware, b.adpts[i])
  BY <1>4 DEF Carries, Fill
<1>6. arb # b.pvid /\ arb \notin b.prim /\ arb \notin Orphans
  BY DEF FreeOn, AllVlans, Supported
<1>7. \A j \in DOMAIN b.adpts : arb # b.adpts[j].pvid /\ arb \notin Carries(vnetAware, b.adpts[j])
  BY PvidMembers, CarriedMembers DEF FreeOn, AllVlans
<1>8. Fits(vnetAware, b, g)
  <2>1. Fits(vnetAware, b, b.adpts[i])
    BY <1>1 DEF Sound
  <2>2. arb \notin Carries(vnetAware, b.adpts[i])
    BY <1>1, <1>7
  <2> HIDE DEF g, i
  <2> QED
    BY <1>4, <1>5, <1>6, <2>1, <2>2 DEF Fits
<1>9. \A j \in DOMAIN b.adpts : j # i => Apart(vnetAware, g, b.adpts[j])
  <2> SUFFICES ASSUME NEW j \in DOMAIN b.adpts, j # i PROVE Apart(vnetAware, g, b.adpts[j])
    OBVIOUS
  <2>1. Apart(vnetAware, b.adpts[i], b.adpts[j])
    BY <1>1 DEF Sound
  <2>2. arb # b.adpts[j].pvid /\ arb \notin Carries(vnetAware, b.adpts[j])
    BY <1>7
  <2> HIDE DEF g, i
  <2> QED
    BY <1>4, <1>5, <2>1, <2>2 DEF Apart
<1>10. p \in Seq(TrunkType)
  <2>0. \A j \in DOMAIN b.peer : b.peer[j] \in TrunkType
    BY <1>2
  <2>4. \A h \in TrunkType : [h EXCEPT !.pvid = arb] \in TrunkType
    BY <1>4 DEF TrunkType
  <2>1. \A j \in DOMAIN b.peer : b.peer[j] \in TrunkType /\ [b.peer[j] EXCEPT !.pvid = arb] \in TrunkType
    BY <2>0, <2>4
  <2>2. Len(b.peer) \in Nat /\ DOMAIN b.peer = 1 .. Len(b.peer)
    BY <1>2
  <2>3. p \in [1 .. Len(b.peer) -> TrunkType]
    BY <2>1, <2>2
  <2> QED
    BY <2>2, <2>3, IsSequence
<1>11. b.failover => p = s
  <2> SUFFICES ASSUME b.failover PROVE p = s
    OBVIOUS
  <2>1. PeerTrunks(b, i) = {i} /\ b.peer = b.adpts
    BY <1>1, PeerIsTheSame
  <2>2. p = [j \in DOMAIN b.adpts |-> IF j = i THEN g ELSE b.adpts[j]]
    BY <2>1
  <2> HIDE DEF g, i
  <2> QED
    BY <1>1, <1>2, <2>2
<1> HIDE DEF g, p
<1>12. Sound(vnetAware, WithTrunks(b, s, p))
  BY <1>1, <1>4, <1>8, <1>9, <1>10, <1>11, OneChanged
<1>13. s \in Seq(TrunkType) /\ DOMAIN s = DOMAIN b.adpts /\ s[i] = g /\ \A j \in DOMAIN b.adpts : j # i => s[j] = b.adpts[j]
  BY <1>1, <1>2, <1>4
<1> HIDE DEF c, s
<1>14. Header(c, b) /\ c.adpts = s
  BY <1>1, <1>3, <1>10, <1>13, NewTrunks
<1>15. \A j \in DOMAIN b.adpts : j # i => b.adpts[j].pvid # old
  BY <1>1 DEF Sound, Apart
<1> HIDE DEF i
<1>16. CarriedBy(vnetAware, c) = CarriedBy(vnetAware, b)
  <2>1. \A x : x \in CarriedBy(vnetAware, c) <=> \E j \in DOMAIN s : x \in Carries(vnetAware, s[j])
    BY <1>14, CarriedMembers
  <2>2. \A x : x \in CarriedBy(vnetAware, b) <=> \E j \in DOMAIN b.adpts : x \in Carries(vnetAware, b.adpts[j])
    BY CarriedMembers
  <2>3. \A j \in DOMAIN s : Carries(vnetAware, s[j]) = Carries(vnetAware, b.adpts[j])
    BY <1>5, <1>13
  <2>4. \A x : x \in CarriedBy(vnetAware, c) <=> x \in CarriedBy(vnetAware, b)
    BY <1>13, <2>1, <2>2, <2>3
  <2> QED
    BY <2>4
<1>17. ArbitraryPvids(c) = (ArbitraryPvids(b) \ {old}) \cup {arb}
  <2>1. \A x : x \in ArbitraryPvids(c) <=> \E j \in DOMAIN s : x = s[j].pvid
    BY <1>14, PvidMembers
  <2>2. \A x : x \in ArbitraryPvids(b) <=> \E j \in DOMAIN b.adpts : x = b.adpts[j].pvid
    BY PvidMembers
  <2>3. \A x : x \in ArbitraryPvids(c) <=> (x \in ArbitraryPvids(b) /\ x # old) \/ x = arb
    BY <1>1, <1>4, <1>13, <1>15, <2>1, <2>2
  <2> QED
    BY <2>3
<1> QED
  BY <1>3, <1>12, <1>14, <1>16, <1>17 DEF c

\* NetworkBridgerVNET: the bridge without the load group.
LEMMA DetachedIs ==
  ASSUME vnetAware, NEW b, Sound(vnetAware, b), NEW old, old \in ArbitraryPvids(b)
  PROVE  /\ Sound(vnetAware, Detached(b, old)) /\ Header(Detached(b, old), b)
         /\ Detached(b, old).adpts = RemoveAt(b.adpts, Impacted(b, old))
         /\ CarriedBy(vnetAware, Detached(b, old)) \subseteq CarriedBy(vnetAware, b)
         /\ ArbitraryPvids(Detached(b, old)) = ArbitraryPvids(b) \ {old}
<1> DEFINE i == Impacted(b, old)
           s == RemoveAt(b.adpts, i)
           c == Detached(b, old)
<1>0. vnetAware \in BOOLEAN
  OBVIOUS
<1>1. i \in DOMAIN b.adpts /\ b.adpts[i].pvid = old /\ b \in BridgeType /\ b.peer \in Seq(TrunkType) /\ b.adpts \in Seq(TrunkType)
  BY ImpactedIn, Typed DEF Sound
<1>2. /\ s \in Seq(TrunkType)
      /\ \A k \in DOMAIN s : \E j \in DOMAIN b.adpts : j # i /\ s[k] = b.adpts[j]
      /\ \A j \in DOMAIN b.adpts : j # i => \E k \in DOMAIN s : s[k] = b.adpts[j]
  BY <1>1, RemovedAt, RemovedMembers
<1>3. c = WithTrunks(b, s, b.peer)
  BY DEF Detached
<1>4. Sound(vnetAware, c)
  <2>1. ~vnetAware /\ b.failover => b.peer = RemoveAt(b.adpts, i)
    OBVIOUS
  <2> HIDE DEF i, c
  <2>2. Sound(vnetAware, WithTrunks(b, RemoveAt(b.adpts, i), b.peer))
    BY <1>1, <2>1, OneRemoved
  <2> QED
    BY <1>3, <2>2
<1>5. Header(c, b) /\ c.adpts = s
  <2>1. s \in Seq(TrunkType) /\ b \in BridgeType /\ b.peer \in Seq(TrunkType)
    BY <1>1, <1>2
  <2> HIDE DEF i, c, s
  <2>2. WithTrunks(b, s, b.peer).adpts = s
    BY <2>1, NewTrunks
  <2>3. Header(WithTrunks(b, s, b.peer), b)
    BY <2>1, NewTrunks
  <2> QED
    BY <1>3, <2>2, <2>3
<1>6. \A j \in DOMAIN b.adpts : j # i => b.adpts[j].pvid # old
  <2> HIDE DEF i, c
  <2>1. \A j, k \in DOMAIN b.adpts : j # k => b.adpts[j].pvid # b.adpts[k].pvid
    BY DEF Sound, Apart
  <2> QED
    BY <1>1, <2>1
<1> HIDE DEF c, s, i
<1>7. CarriedBy(vnetAware, c) \subseteq CarriedBy(vnetAware, b)
  <2>1. \A x : x \in CarriedBy(vnetAware, c) <=> \E j \in DOMAIN s : x \in Carries(vnetAware, s[j])
    BY <1>5, CarriedMembers
  <2>2. \A x : x \in CarriedBy(vnetAware, b) <=> \E j \in DOMAIN b.adpts : x \in Carries(vnetAware, b.adpts[j])
    BY CarriedMembers
  <2> SUFFICES ASSUME NEW x, x \in CarriedBy(vnetAware, c) PROVE x \in CarriedBy(vnetAware, b)
    OBVIOUS
  <2>3. PICK k \in DOMAIN s : x \in Carries(vnetAware, s[k])
    BY <2>1
  <2>4. PICK j \in DOMAIN b.adpts : s[k] = b.adpts[j]
    BY <1>2
  <2> QED
    BY <2>2, <2>3, <2>4
<1>8. ArbitraryPvids(c) = ArbitraryPvids(b) \ {old}
  <2>1. \A x : x \in ArbitraryPvids(c) <=> \E j \in DOMAIN s : x = s[j].pvid
    BY <1>5, PvidMembers
  <2>2. \A x : x \in ArbitraryPvids(b) <=> \E j \in DOMAIN b.adpts : x = b.adpts[j].pvid
    BY PvidMembers
  <2>3. \A x : x \in ArbitraryPvids(c) => x \in ArbitraryPvids(b) /\ x # old
    BY <1>2, <1>6, <2>1, <2>2
  <2>4. ASSUME NEW x, x \in ArbitraryPvids(b), x # old PROVE x \in ArbitraryPvids(c)
    <3>1. PICK j \in DOMAIN b.adpts : x = b.adpts[j].pvid
      BY <2>2, <2>4
    <3>2. PICK k \in DOMAIN s : s[k] = b.adpts[j]
      BY <1>1, <1>2, <2>4, <3>1
    <3> QED
      BY <2>1, <3>1, <3>2
  <2> QED
    BY <2>3, <2>4
<1> QED
  BY <1>4, <1>5, <1>7, <1>8 DEF c, s, i

\* The clone has the VLANs of the load group that it replaces.
LEMMA ClonedOne ==
  ASSUME vnetAware, NEW b, Sound(vnetAware, b), NEW old, old \in ArbitraryPvids(b), NEW arb, FreeOn(vnetAware, b, arb)
  PROVE  LET g == b.adpts[Impacted(b, old)] IN
         /\ Cloned(b, old, arb) \in TrunkType /\ Cloned(b, old, arb).pvid = arb
         /\ Carries(vnetAware, Cloned(b, old, arb)) = Carries(vnetAware, g)
         /\ Fill(vnetAware, Cloned(b, old, arb)) <= Fill(vnetAware, g)
         /\ arb \in Cloned(b, old, arb).uris
<1> DEFINE g == b.adpts[Impacted(b, old)]
           h == Cloned(b, old, arb)
<1>1. Impacted(b, old) \in DOMAIN b.adpts /\ g.pvid = old
  BY ImpactedIn
<1>2. g \in TrunkType /\ Fits(vnetAware, b, g)
  BY <1>1, Typed DEF Sound
<1>3. old \in g.uris
  BY <1>1, <1>2 DEF Fits
<1>4. arb \in Vlans /\ arb \notin Carries(vnetAware, g) /\ arb # old
  BY <1>1, CarriedMembers DEF FreeOn, AllVlans
<1>5. arb \notin g.uris
  BY <1>1, <1>4 DEF Carries
<1>6. h = [g EXCEPT !.pvid = arb, !.uris = (g.uris \ {old}) \cup {arb}]
  BY DEF Cloned
<1> HIDE DEF g, h
<1>7. h \in TrunkType /\ h.pvid = arb /\ h.uris = (g.uris \ {old}) \cup {arb}
  BY <1>2, <1>4, <1>6 DEF TrunkType
<1>8. Carries(vnetAware, h) = Carries(vnetAware, g)
  BY <1>1, <1>5, <1>7 DEF Carries
<1>9. Cardinality(h.uris) <= Cardinality(g.uris)
  <2>1. IsFiniteSet(g.uris) /\ Cardinality(g.uris) \in Nat
    BY <1>2, FillIsNatural
  <2>2. IsFiniteSet(g.uris \ {old}) /\ Cardinality(g.uris \ {old}) = Cardinality(g.uris) - 1
    BY <1>3, <2>1, FS_RemoveElement
  <2>3. Cardinality((g.uris \ {old}) \cup {arb}) = Cardinality(g.uris \ {old}) + 1
    BY <1>5, <2>2, FS_AddElement
  <2> QED
    BY <1>7, <2>1, <2>2, <2>3
<1>10. Fill(vnetAware, h) <= Fill(vnetAware, g)
  BY <1>9 DEF Fill
<1> QED
  BY <1>7, <1>8, <1>10 DEF g, h

\* NetworkBridgerVNET: the bridge with the clone.
LEMMA AttachedIs ==
  ASSUME vnetAware, NEW b, Sound(vnetAware, b), NEW old, old \in ArbitraryPvids(b), NEW arb, FreeOn(vnetAware, b, arb)
  PROVE  /\ Sound(vnetAware, Attached(b, old, arb)) /\ Header(Attached(b, old, arb), b)
         /\ CarriedBy(vnetAware, Attached(b, old, arb)) = CarriedBy(vnetAware, b)
         /\ ArbitraryPvids(Attached(b, old, arb)) = Repvids(b, old, arb)
<1> DEFINE i == Impacted(b, old)
           d == Detached(b, old)
           g == Cloned(b, old, arb)
           r == RemoveAt(b.adpts, i)
           s == Append(r, g)
           c == Attached(b, old, arb)
           n == Len(r) + 1
<1>0. vnetAware \in BOOLEAN
  OBVIOUS
<1>1. i \in DOMAIN b.adpts /\ b.adpts[i].pvid = old /\ b \in BridgeType /\ b.peer \in Seq(TrunkType) /\ b.adpts \in Seq(TrunkType)
  BY ImpactedIn, Typed DEF Sound
<1>2. /\ r \in Seq(TrunkType)
      /\ \A k \in DOMAIN r : \E j \in DOMAIN b.adpts : j # i /\ r[k] = b.adpts[j]
      /\ \A j \in DOMAIN b.adpts : j # i => \E k \in DOMAIN r : r[k] = b.adpts[j]
  BY <1>1, RemovedAt, RemovedMembers
<1>3. /\ g \in TrunkType /\ g.pvid = arb
      /\ Carries(vnetAware, g) = Carries(vnetAware, b.adpts[i])
      /\ Fill(vnetAware, g) <= Fill(vnetAware, b.adpts[i])
      /\ arb \in g.uris
  BY ClonedOne
<1>4. c = WithTrunks(b, s, b.peer)
  BY DEF Attached
<1> HIDE DEF g, c
<1>5. Fits(vnetAware, b, g)
  <2>1. Fits(vnetAware, b, b.adpts[i]) /\ b.adpts[i] \in TrunkType
    BY <1>1, Typed DEF Sound
  <2>2. arb # b.pvid /\ arb \notin b.prim /\ arb \notin Orphans
    BY DEF FreeOn, AllVlans, Supported
  <2>3. arb \notin Carries(vnetAware, b.adpts[i])
    BY <1>1, CarriedMembers DEF FreeOn
  <2>4. Fill(vnetAware, g) <= MaxVlans
    <3> DEFINE new_ == Fill(vnetAware, g)
               old_ == Fill(vnetAware, b.adpts[i])
    <3>1. new_ \in Nat /\ old_ \in Nat
      BY <1>3, <2>1, FillIsNatural
    <3>2. old_ <= MaxVlans
      BY <2>1 DEF Fits
    <3>3. new_ <= old_ /\ MaxVlans \in Nat
      BY <1>3, BridgerConstantsOK
    <3> HIDE DEF new_, old_
    <3>4. new_ <= MaxVlans
      BY <3>1, <3>2, <3>3
    <3> QED
      BY <3>4 DEF new_
  <2> HIDE DEF i
  <2> QED
    BY <1>3, <2>1, <2>2, <2>3, <2>4 DEF Fits
<1>6. \A j \in DOMAIN b.adpts : j # i => Apart(vnetAware, g, b.adpts[j])
  <2> SUFFICES ASSUME NEW j \in DOMAIN b.adpts, j # i PROVE Apart(vnetAware, g, b.adpts[j])
    OBVIOUS
  <2>1. Apart(vnetAware, b.adpts[i], b.adpts[j])
    BY <1>1 DEF Sound
  <2>2. arb # b.adpts[j].pvid /\ arb \notin Carries(vnetAware, b.adpts[j])
    BY PvidMembers, CarriedMembers DEF FreeOn, AllVlans
  <2> HIDE DEF i
  <2> QED
    BY <1>3, <2>1, <2>2 DEF Apart
<1>7. DOMAIN r = 1 .. Len(r) /\ Len(r) \in Nat
  BY <1>2
<1>8. /\ s \in Seq(TrunkType) /\ DOMAIN s = 1 .. n /\ s[n] = g
      /\ \A k \in DOMAIN r : s[k] = r[k]
  BY <1>2, <1>3, Appended
<1>9. n \in DOMAIN s /\ n \notin DOMAIN r /\ DOMAIN r \subseteq DOMAIN s /\ \A k \in DOMAIN s : k # n => k \in DOMAIN r
  BY <1>7, <1>8
<1> HIDE DEF s, n
<1>10. Header(c, b) /\ c.adpts = s
  <2>1. s \in Seq(TrunkType) /\ b \in BridgeType /\ b.peer \in Seq(TrunkType)
    BY <1>1, <1>8
  <2> HIDE DEF i, r
  <2>2. WithTrunks(b, s, b.peer).adpts = s
    BY <2>1, NewTrunks
  <2>3. Header(WithTrunks(b, s, b.peer), b)
    BY <2>1, NewTrunks
  <2> QED
    BY <1>4, <2>2, <2>3
<1>11. Sound(vnetAware, c)
  <2>1. \A k \in DOMAIN s : Fits(vnetAware, b, s[k])
    <3> SUFFICES ASSUME NEW k \in DOMAIN s PROVE Fits(vnetAware, b, s[k])
      OBVIOUS
    <3>1. CASE k = n
      BY <1>5, <1>8, <3>1
    <3>2. CASE k # n
      <4>1. PICK j \in DOMAIN b.adpts : r[k] = b.adpts[j]
        BY <1>2, <1>9, <3>2
      <4>2. s[k] = b.adpts[j]
        BY <1>8, <1>9, <3>2, <4>1
      <4> QED
        BY <4>2 DEF Sound
    <3> QED
      BY <3>1, <3>2
  <2>2. ASSUME NEW k \in DOMAIN s, NEW l \in DOMAIN s, k # l PROVE Apart(vnetAware, s[k], s[l])
    <3>1. ASSUME NEW m \in DOMAIN r PROVE Apart(vnetAware, g, r[m]) /\ Apart(vnetAware, r[m], g)
      BY <1>2, <1>6, ApartBothWays
    <3>2. CASE k = n
      BY <1>8, <1>9, <2>2, <3>1, <3>2
    <3>3. CASE l = n
      BY <1>8, <1>9, <2>2, <3>1, <3>3
    <3>4. CASE k # n /\ l # n
      <4>1. Sound(vnetAware, Detached(b, old)) /\ Detached(b, old).adpts = r
        BY DetachedIs
      <4>2. Apart(vnetAware, r[k], r[l])
        BY <1>9, <2>2, <3>4, <4>1 DEF Sound
      <4> QED
        BY <1>8, <1>9, <3>4, <4>2
    <3> QED
      BY <3>2, <3>3, <3>4
  <2> QED
    BY <1>1, <1>4, <1>8, <2>1, <2>2, Rearranged
<1>12. \A j \in DOMAIN b.adpts : j # i => b.adpts[j].pvid # old
  BY <1>1 DEF Sound, Apart
<1> HIDE DEF i, r
<1>13. CarriedBy(vnetAware, c) = CarriedBy(vnetAware, b)
  <2>1. \A x : x \in CarriedBy(vnetAware, c) <=> \E j \in DOMAIN s : x \in Carries(vnetAware, s[j])
    BY <1>10, CarriedMembers
  <2>2. \A x : x \in CarriedBy(vnetAware, b) <=> \E j \in DOMAIN b.adpts : x \in Carries(vnetAware, b.adpts[j])
    BY CarriedMembers
  <2>3. ASSUME NEW x, x \in CarriedBy(vnetAware, c) PROVE x \in CarriedBy(vnetAware, b)
    <3>1. PICK k \in DOMAIN s : x \in Carries(vnetAware, s[k])
      BY <2>1, <2>3
    <3>2. CASE k = n
      BY <1>1, <1>3, <1>8, <2>2, <3>1, <3>2
    <3>3. CASE k # n
      <4>1. k \in DOMAIN r /\ s[k] = r[k]
        BY <1>8, <1>9, <3>3
      <4> QED
        BY <1>2, <2>2, <3>1, <4>1
    <3> QED
      BY <3>2, <3>3
  <2>4. ASSUME NEW x, x \in CarriedBy(vnetAware, b) PROVE x \in CarriedBy(vnetAware, c)
    <3>1. PICK j \in DOMAIN b.adpts : x \in Carries(vnetAware, b.adpts[j])
      BY <2>2, <2>4
    <3>2. CASE j = i
      BY <1>3, <1>8, <1>9, <2>1, <3>1, <3>2
    <3>3. CASE j # i
      <4>1. PICK k \in DOMAIN r : r[k] = b.adpts[j]
        BY <1>2, <3>3
      <4> QED
        BY <1>8, <1>9, <2>1, <3>1, <4>1
    <3> QED
      BY <3>2, <3>3
  <2> QED
    BY <2>3, <2>4
<1>14. ArbitraryPvids(c) = (ArbitraryPvids(b) \ {old}) \cup {arb}
  <2>1. \A x : x \in ArbitraryPvids(c) <=> \E j \in DOMAIN s : x = s[j].pvid
    BY <1>10, PvidMembers
  <2>2. \A x : x \in ArbitraryPvids(b) <=> \E j \in DOMAIN b.adpts : x = b.adpts[j].pvid
    BY PvidMembers
  <2>3. \A x : x \in ArbitraryPvids(c) => (x \in ArbitraryPvids(b) /\ x # old) \/ x = arb
    BY <1>2, <1>3, <1>8, <1>9, <1>12, <2>1, <2>2
  <2>4. ASSUME NEW x, x \in ArbitraryPvids(b), x # old PROVE x \in ArbitraryPvids(c)
    <3>1. PICK j \in DOMAIN b.adpts : x = b.adpts[j].pvid
      BY <2>2, <2>4
    <3>2. PICK k \in DOMAIN r : r[k] = b.adpts[j]
      BY <1>1, <1>2, <2>4, <3>1
    <3> QED
      BY <1>8, <1>9, <2>1, <3>1, <3>2
  <2>5. arb \in ArbitraryPvids(c)
    BY <1>3, <1>8, <1>9, <2>1
  <2> QED
    BY <2>3, <2>4, <2>5
<1>15. ArbitraryPvids(c) = Repvids(b, old, arb)
  BY <1>14 DEF Repvids
<1> QED
  BY <1>10, <1>11, <1>13, <1>15 DEF c

-----------------------------------------------------------------------------
(* All the new VLANs.                                                      *)

\* The folding of AddOne over the new VLANs.
AccType == [b : BridgeType, arbs : SUBSET Vlans, failed : BOOLEAN]
FirstAcc(t) == [b |-> Req(t), arbs |-> {}, failed |-> FALSE]
AddedUpTo(t, n, f) == f = [m \in 0 .. n |-> IF m = 0 THEN FirstAcc(t) ELSE AddOne(t, f[m - 1], new[t][m])]

\* A function that satisfies the equation exists,
LEMMA AddedDefined ==
  ASSUME NEW t, NEW n \in Nat
  PROVE  \E f : AddedUpTo(t, n, f)
<1> DEFINE Bad == {m \in Nat : \A f : ~AddedUpTo(t, m, f)}
<1> SUFFICES ASSUME Bad # {} PROVE FALSE
  OBVIOUS
<1>1. Bad \in SUBSET Nat
  OBVIOUS
<1>2. PICK m \in Bad : \A k \in Bad : m <= k
  BY <1>1, LeastNat
<1>3. CASE m = 0
  <2> DEFINE f == [k \in 0 .. 0 |-> FirstAcc(t)]
  <2>1. f = [k \in 0 .. m |-> IF k = 0 THEN FirstAcc(t) ELSE AddOne(t, f[k - 1], new[t][k])]
    BY <1>3
  <2>2. AddedUpTo(t, m, f)
    BY <2>1 DEF AddedUpTo
  <2> QED
    BY <1>2, <2>2
<1>4. CASE m # 0
  <2>1. m \in Nat /\ m - 1 \in Nat /\ m - 1 \notin Bad
    BY <1>2, <1>4
  <2>2. PICK g : AddedUpTo(t, m - 1, g)
    BY <2>1
  <2>3. /\ DOMAIN g = 0 .. m - 1
        /\ \A k \in 0 .. m - 1 : g[k] = IF k = 0 THEN FirstAcc(t) ELSE AddOne(t, g[k - 1], new[t][k])
    BY <2>2 DEF AddedUpTo
  <2> DEFINE f == [k \in 0 .. m |-> IF k = m THEN AddOne(t, g[m - 1], new[t][m]) ELSE g[k]]
  <2>4. f[m] = AddOne(t, g[m - 1], new[t][m]) /\ \A k \in 0 .. m - 1 : f[k] = g[k]
    BY <2>1
  <2>5. f[m] = AddOne(t, f[m - 1], new[t][m])
    BY <2>1, <2>4
  <2>6. ASSUME NEW k \in 0 .. m
        PROVE  f[k] = IF k = 0 THEN FirstAcc(t) ELSE AddOne(t, f[k - 1], new[t][k])
    <3>1. CASE k = m
      BY <1>4, <2>5, <3>1
    <3>2. CASE k = 0
      BY <2>1, <2>3, <2>4, <3>2
    <3>3. CASE k # m /\ k # 0
      <4>1. k \in 0 .. m - 1 /\ k - 1 \in 0 .. m - 1
        BY <2>1, <3>3
      <4>2. f[k] = g[k] /\ f[k - 1] = g[k - 1]
        BY <2>4, <4>1
      <4> HIDE DEF f
      <4> QED
        BY <2>3, <3>3, <4>1, <4>2
    <3> QED
      BY <3>1, <3>2, <3>3
  <2>7. f = [k \in 0 .. m |-> f[k]]
    OBVIOUS
  <2> HIDE DEF f
  <2>8. f = [k \in 0 .. m |-> IF k = 0 THEN FirstAcc(t) ELSE AddOne(t, f[k - 1], new[t][k])]
    BY <2>6, <2>7
  <2>9. AddedUpTo(t, m, f)
    BY <2>8 DEF AddedUpTo
  <2> QED
    BY <1>2, <2>9
<1> QED
  BY <1>3, <1>4

\* and AddVlansToNb is its last value.
LEMMA AddedByEach ==
  ASSUME NEW t, Len(new[t]) \in Nat
  PROVE  \E f : /\ f[0] = FirstAcc(t)
                /\ \A n \in 1 .. Len(new[t]) : f[n] = AddOne(t, f[n - 1], new[t][n])
                /\ AddVlansToNb(t) = f[Len(new[t])]
<1> DEFINE N == Len(new[t])
           f == CHOOSE f : AddedUpTo(t, N, f)
<1>1. AddedUpTo(t, N, f)
  BY AddedDefined
<1>2. AddVlansToNb(t) = f[N]
  BY DEF AddVlansToNb, AddedUpTo, FirstAcc
<1> HIDE DEF f
<1>3. \A m \in 0 .. N : f[m] = IF m = 0 THEN FirstAcc(t) ELSE AddOne(t, f[m - 1], new[t][m])
  BY <1>1 DEF AddedUpTo
<1>4. f[0] = FirstAcc(t)
  BY <1>3
<1>5. \A n \in 1 .. N : f[n] = AddOne(t, f[n - 1], new[t][n])
  BY <1>3
<1> QED
  BY <1>2, <1>4, <1>5

\* The first n VLANs that are new.
News(t, n) == {new[t][k] : k \in 1 .. n}

\* The bridge after the first n of them: sound, with these VLANs, and with PVIDs that no
\* bridge of the feed uses.
AccOK(t, n, a) ==
  /\ a \in AccType
  /\ ~a.failed =>
       /\ Sound(vnetAware, a.b) /\ Header(a.b, Req(t))
       /\ CarriedBy(vnetAware, a.b) = CarriedBy(vnetAware, Req(t)) \cup News(t, n)
       /\ Tagged(Req(t).adpts) \subseteq Tagged(a.b.adpts)
       /\ ArbitraryPvids(Req(t)) \subseteq ArbitraryPvids(a.b)
       /\ ArbitraryPvids(a.b) \subseteq ArbitraryPvids(Req(t)) \cup a.arbs
       /\ a.arbs \cap (UsedOn(feed[t]) \cup Rng(new[t]) \cup Orphans) = {}

\* What holds of the feed of a call that adds VLANs.
CanAdd(t) ==
  /\ vnetAware \in BOOLEAN
  /\ call[t].nb \in Ids /\ feed[t] \in [Ids -> BridgeType]
  /\ Sound(vnetAware, Req(t)) /\ Settled(vnetAware, Req(t))
  /\ new[t] \in Seq(Vlans) /\ \A i, j \in DOMAIN new[t] : new[t][i] = new[t][j] => i = j
  /\ Rng(new[t]) \cap AllVlans(Req(t)) = {}

\* One VLAN more is added.
LEMMA OneMore ==
  ASSUME NEW t, CanAdd(t), NEW n \in 1 .. Len(new[t]), NEW a, AccOK(t, n - 1, a)
  PROVE  AccOK(t, n, AddOne(t, a, new[t][n]))
<1> DEFINE v == new[t][n]
           used == UsedOn([feed[t] EXCEPT ![call[t].nb] = a.b]) \cup Rng(new[t]) \cup Orphans
           arb == NewArbitraryVid(used)
           c == AddOne(t, a, v)
<1>1. a \in AccType
  BY DEF AccOK
<1>2. new[t] \in Seq(Vlans) /\ Len(new[t]) \in Nat /\ DOMAIN new[t] = 1 .. Len(new[t])
  BY DEF CanAdd
<1>3. v \in Vlans /\ v \in Rng(new[t])
  BY <1>2 DEF Rng
<1>4. c = IF a.failed THEN a
          ELSE IF Available(a.b) # 0 THEN [a EXCEPT !.b = AddVlan(a.b, v, 0)]
          ELSE IF arb = 0 \/ \E g \in Rng(a.b.adpts) : g.bld THEN [a EXCEPT !.failed = TRUE]
          ELSE [a EXCEPT !.b = AddVlan(a.b, v, arb), !.arbs = @ \cup {arb}]
  BY DEF AddOne
<1>5. CASE a.failed
  BY <1>1, <1>4, <1>5 DEF AccOK
<1>6. CASE ~a.failed /\ Available(a.b) = 0 /\ (arb = 0 \/ \E g \in Rng(a.b.adpts) : g.bld)
  <2>1. c = [a EXCEPT !.failed = TRUE]
    BY <1>4, <1>6
  <2> HIDE DEF c
  <2>2. c \in AccType /\ c.failed
    BY <1>1, <2>1 DEF AccType
  <2> QED
    BY <2>2 DEF AccOK, c
<1>7. ASSUME ~a.failed
      PROVE  /\ Sound(vnetAware, a.b) /\ Header(a.b, Req(t)) /\ vnetAware \in BOOLEAN
             /\ CarriedBy(vnetAware, a.b) = CarriedBy(vnetAware, Req(t)) \cup News(t, n - 1)
             /\ Tagged(Req(t).adpts) \subseteq Tagged(a.b.adpts)
             /\ ArbitraryPvids(Req(t)) \subseteq ArbitraryPvids(a.b)
             /\ ArbitraryPvids(a.b) \subseteq ArbitraryPvids(Req(t)) \cup a.arbs
             /\ a.arbs \cap (UsedOn(feed[t]) \cup Rng(new[t]) \cup Orphans) = {}
             /\ v \notin CarriedBy(vnetAware, a.b) \cup ArbitraryPvids(a.b)
             /\ CarriedBy(vnetAware, Req(t)) = Tagged(Req(t).adpts)
  <2>1. CarriedBy(vnetAware, Req(t)) = Tagged(Req(t).adpts)
    BY SettledCarries DEF CanAdd
  <2>2. v \notin Tagged(Req(t).adpts) \cup ArbitraryPvids(Req(t))
    BY <1>3 DEF CanAdd, AllVlans, Supported
  <2>3. v \notin News(t, n - 1)
    <3> SUFFICES ASSUME NEW k \in 1 .. n - 1, v = new[t][k] PROVE FALSE
      BY DEF News
    <3>1. k \in DOMAIN new[t] /\ n \in DOMAIN new[t] /\ k # n
      BY <1>2
    <3> QED
      BY <3>1 DEF CanAdd
  <2>4. v \notin a.arbs
    BY <1>3, <1>7 DEF AccOK
  <2> HIDE DEF v
  <2> QED
    BY <1>7, <2>1, <2>2, <2>3, <2>4 DEF AccOK, CanAdd
<1>8. News(t, n) = News(t, n - 1) \cup {v}
  <2>1. 1 .. n = (1 .. n - 1) \cup {n}
    BY <1>2
  <2> QED
    BY <2>1 DEF News
<1>9. CASE ~a.failed /\ Available(a.b) # 0
  <2> DEFINE b == AddVlan(a.b, v, 0)
  <2>1. c = [a EXCEPT !.b = b]
    BY <1>4, <1>9
  <2>2. /\ Sound(vnetAware, b) /\ Header(b, a.b)
        /\ CarriedBy(vnetAware, b) = CarriedBy(vnetAware, a.b) \cup {v}
        /\ ArbitraryPvids(b) = ArbitraryPvids(a.b)
        /\ Tagged(a.b.adpts) \subseteq Tagged(b.adpts)
    BY <1>3, <1>7, <1>9, AddedToOne
  <2>3. b \in BridgeType
    BY <2>2 DEF Sound
  <2> HIDE DEF b, c, v
  <2>4. c \in AccType /\ c.b = b /\ c.arbs = a.arbs /\ ~c.failed
    BY <1>1, <1>9, <2>1, <2>3 DEF AccType
  <2>5. Header(b, Req(t))
    BY <1>7, <1>9, <2>2 DEF Header
  <2>6. CarriedBy(vnetAware, b) = CarriedBy(vnetAware, Req(t)) \cup News(t, n)
    BY <1>7, <1>8, <1>9, <2>2
  <2>7. AccOK(t, n, c)
    BY <1>7, <1>9, <2>2, <2>4, <2>5, <2>6 DEF AccOK
  <2> QED
    BY <2>7 DEF c, v
<1>10. CASE ~a.failed /\ Available(a.b) = 0 /\ arb # 0 /\ \A g \in Rng(a.b.adpts) : ~g.bld
  <2> DEFINE b == AddVlan(a.b, v, arb)
  <2>1. c = [a EXCEPT !.b = b, !.arbs = a.arbs \cup {arb}]
    BY <1>4, <1>10
  <2>2. arb \in Vlans /\ arb \notin used
    BY <1>10, NewVidIsNew
  <2>3. \A q \in Ids : AllVlans(IF q = call[t].nb THEN a.b ELSE feed[t][q]) \subseteq used
    <3> DEFINE f == [feed[t] EXCEPT ![call[t].nb] = a.b]
    <3>1. \A q \in Ids : f[q] = IF q = call[t].nb THEN a.b ELSE feed[t][q]
      BY DEF CanAdd
    <3>2. \A q \in Ids : AllVlans(f[q]) \subseteq UsedOn(f)
      BY DEF UsedOn
    <3> HIDE DEF f
    <3>3. \A q \in Ids : AllVlans(IF q = call[t].nb THEN a.b ELSE feed[t][q]) \subseteq UsedOn(f)
      BY <3>1, <3>2
    <3> QED
      BY <3>3 DEF f
  <2>4. arb \notin AllVlans(a.b) /\ arb \notin Orphans /\ arb \notin Rng(new[t]) /\ arb # v
    BY <1>3, <2>2, <2>3 DEF CanAdd
  <2>5. arb \notin CarriedBy(vnetAware, a.b)
    <3>1. CarriedBy(vnetAware, a.b) \subseteq Tagged(a.b.adpts) \cup News(t, n - 1)
      BY <1>7, <1>10
    <3>2. News(t, n - 1) \subseteq Rng(new[t])
      <4>1. \A k \in 1 .. n - 1 : k \in DOMAIN new[t]
        BY <1>2
      <4> QED
        BY <4>1 DEF News, Rng
    <3> QED
      BY <2>4, <3>1, <3>2 DEF AllVlans, Supported
  <2>6. arb \notin UsedOn(feed[t])
    <3> SUFFICES ASSUME NEW q \in Ids, arb \in AllVlans(feed[t][q]) PROVE FALSE
      BY DEF UsedOn
    <3>1. CASE q # call[t].nb
      BY <2>2, <2>3, <3>1
    <3>2. CASE q = call[t].nb
      <4>1. AllVlans(Req(t)) \subseteq AllVlans(a.b)
        BY <1>7, <1>10 DEF AllVlans, Supported, Header
      <4> QED
        BY <2>4, <3>2, <4>1 DEF Req
    <3> QED
      BY <3>1, <3>2
  <2> HIDE DEF arb, used
  <2>7. /\ Sound(vnetAware, b) /\ Header(b, a.b)
        /\ CarriedBy(vnetAware, b) = CarriedBy(vnetAware, a.b) \cup {v}
        /\ ArbitraryPvids(b) = ArbitraryPvids(a.b) \cup {arb}
        /\ Tagged(a.b.adpts) \subseteq Tagged(b.adpts)
    BY <1>3, <1>7, <1>10, <2>2, <2>4, <2>5, AddedNew
  <2>8. b \in BridgeType
    BY <2>7 DEF Sound
  <2> HIDE DEF b, c, v
  <2>9. c \in AccType /\ c.b = b /\ c.arbs = a.arbs \cup {arb} /\ ~c.failed
    BY <1>1, <1>10, <2>1, <2>2, <2>8 DEF AccType
  <2>10. Header(b, Req(t))
    BY <1>7, <1>10, <2>7 DEF Header
  <2>11. CarriedBy(vnetAware, b) = CarriedBy(vnetAware, Req(t)) \cup News(t, n)
    BY <1>7, <1>8, <1>10, <2>7
  <2>12. /\ ArbitraryPvids(Req(t)) \subseteq ArbitraryPvids(b)
         /\ ArbitraryPvids(b) \subseteq ArbitraryPvids(Req(t)) \cup c.arbs
         /\ c.arbs \cap (UsedOn(feed[t]) \cup Rng(new[t]) \cup Orphans) = {}
    BY <1>7, <1>10, <2>4, <2>6, <2>7, <2>9
  <2>13. Tagged(Req(t).adpts) \subseteq Tagged(b.adpts)
    BY <1>7, <1>10, <2>7
  <2>14. AccOK(t, n, c)
    BY <2>7, <2>9, <2>10, <2>11, <2>12, <2>13 DEF AccOK
  <2> QED
    BY <2>14 DEF c, v
<1> QED
  BY <1>5, <1>6, <1>9, <1>10

\* All of them are, or the update fails.
LEMMA AllAdded ==
  ASSUME NEW t, CanAdd(t)
  PROVE  AccOK(t, Len(new[t]), AddVlansToNb(t))
<1> DEFINE N == Len(new[t])
<1>1. N \in Nat
  BY DEF CanAdd
<1>2. PICK f : /\ f[0] = FirstAcc(t)
               /\ \A n \in 1 .. N : f[n] = AddOne(t, f[n - 1], new[t][n])
               /\ AddVlansToNb(t) = f[N]
  BY <1>1, AddedByEach
<1>3. AccOK(t, 0, f[0])
  <2>1. Req(t) \in BridgeType /\ News(t, 0) = {} /\ Header(Req(t), Req(t))
    BY DEF CanAdd, Sound, News, Header
  <2>2. FirstAcc(t) \in AccType /\ FirstAcc(t).b = Req(t) /\ FirstAcc(t).arbs = {}
    BY <2>1 DEF AccType, FirstAcc
  <2> QED
    BY <1>2, <2>1, <2>2 DEF AccOK, CanAdd
<1> DEFINE Bad == {n \in 0 .. N : ~AccOK(t, n, f[n])}
<1>4. Bad = {}
  <2> SUFFICES ASSUME Bad # {} PROVE FALSE
    OBVIOUS
  <2>1. Bad \in SUBSET Nat
    BY <1>1
  <2>2. PICK n \in Bad : \A k \in Bad : n <= k
    BY <2>1, LeastNat
  <2>3. n \in 1 .. N /\ n - 1 \in 0 .. N /\ n - 1 \notin Bad
    BY <1>1, <1>3, <2>2
  <2>4. AccOK(t, n - 1, f[n - 1])
    BY <2>3
  <2>5. AccOK(t, n, f[n])
    BY <1>2, <2>3, <2>4, OneMore
  <2> QED
    BY <2>2, <2>5
<1> QED
  BY <1>1, <1>2, <1>4

-----------------------------------------------------------------------------
(* The inductive invariant.                                                *)

\* What other users do not change of a primary adapter.
Alike(a, b) == a.pvid = b.pvid /\ a.prim \ Foreign = b.prim \ Foreign

\* The PVIDs of one bridge are neither VLANs nor PVIDs of another.
Clear(a, b) == ArbitraryPvids(a) \cap ((Supported(b) \ Foreign) \cup ArbitraryPvids(b)) = {}

\* The bridges on the server.
ServerSound(va, n) == \A b \in Ids : Sound(va, n[b]) /\ Settled(va, n[b])
ServerClear(n) == \A a, b \in Ids : a # b => Clear(n[a], n[b])

\* The lists of VLANs that a call goes through: without repetition, and what is new is not
\* on the bridge.
OneEach(s) == \A i, j \in DOMAIN s : s[i] = s[j] => i = j
Lists(vs, td, nw, b) ==
  /\ td \in Seq(vs) /\ nw \in Seq(vs) /\ OneEach(td) /\ OneEach(nw)
  /\ Rng(td) \cap Rng(nw) = {} /\ Rng(nw) \cap AllVlans(b) = {}

\* What the feed says of the other bridges is at least what is on the server: this is what
\* makes a PVID that is unused in the feed unused.  (Not once a removal is lost.)
Kept(n, f, q, nw) ==
  \A b \in Ids \ {q} :
    /\ ArbitraryPvids(n[b]) \subseteq ArbitraryPvids(f[b]) /\ Tagged(n[b].adpts) \subseteq Tagged(f[b].adpts)
    /\ ArbitraryPvids(f[b]) \cap Rng(nw) = {}
    /\ Clear(n[b], f[q]) /\ Clear(f[q], n[b])

\* The feed is of the past, and of other bridges with the current etag, of the present.
Follows(n, f, q) ==
  /\ \A b \in Ids : f[b].ver <= n[b].ver /\ Alike(f[b], n[b])
  /\ \A b \in Ids \ {q} : f[b].ver = n[b].ver => f[b] = n[b]

\* A call between its steps.
AtWork(va, n, f, r, td, nw, l) ==
  /\ Follows(n, f, r.nb)
  /\ Sound(va, f[r.nb]) /\ Settled(va, f[r.nb])
  /\ Lists(Rng(r.vlans), td, nw, f[r.nb])
  /\ ~l => Kept(n, f, r.nb, nw)
  /\ r.op = "ensure" => Rng(r.vlans) \subseteq Rng(td) \cup Rng(nw) \cup Supported(f[r.nb])
  /\ r.op = "remove" => td = r.vlans /\ nw = <<>>

\* What a call is for.
Done(r, b) ==
  IF r.op = "ensure" THEN Rng(r.vlans) \subseteq Supported(b)
  ELSE Rng(r.vlans) \cap AllVlans(b) \subseteq {b.pvid} \cup b.prim

\* What a call's bridges must still support of what they had.
Kernel(h, r) == h \ (Rng(r.vlans) \cup Foreign)

\* The steps between the GET and the last POST.
Working == {"eval", "place", "remove", "attach"}

\* The call of a thread: the own bridge of its feed is as on the server but for VLANs of
\* other users, or, between the two updates of a reassignment, has the load group that the
\* server has lost.
CallInv(t) ==
  /\ pc[t] \in Working => AtWork(vnetAware, nb, feed[t], call[t], todo[t], new[t], lost)
  /\ pc[t] \in {"eval", "place", "remove"} =>
       /\ feed[t][call[t].nb].adpts = nb[call[t].nb].adpts
       /\ feed[t][call[t].nb].ver = nb[call[t].nb].ver => feed[t][call[t].nb] = nb[call[t].nb]
  /\ pc[t] \in {"eval", "place"} => call[t].op = "ensure"
  /\ pc[t] = "remove" => call[t].op = "remove"
  /\ pc[t] \in {"place", "remove", "attach"} => todo[t] # <<>>
  /\ pc[t] = "place" => Head(todo[t]) \notin Supported(feed[t][call[t].nb])
  /\ pc[t] = "attach" =>
       /\ vnetAware /\ Head(todo[t]) \in ArbitraryPvids(feed[t][call[t].nb])
       /\ NewArbitraryVid(UsedOn(feed[t]) \cup Rng(call[t].vlans) \cup Orphans) # 0
  /\ pc[t] = "ok" => Done(call[t], nb[call[t].nb])
  /\ ~torn => \A b \in Ids : Kernel(had[b], call[t]) \subseteq
       IF pc[t] = "attach" /\ b = call[t].nb THEN Supported(feed[t][b]) ELSE Supported(nb[b])

\* The control states.
Pcs == {"idle", "get", "ok", "error"} \cup Working

\* The types of the variables.
TypesOK ==
  /\ vnetAware \in BOOLEAN /\ lost \in BOOLEAN /\ torn \in BOOLEAN
  /\ lock \in Threads \cup {Nobody}
  /\ nb \in [Ids -> BridgeType]
  /\ pc \in [Threads -> Pcs] /\ call \in [Threads -> Requests]
  /\ feed \in [Threads -> [Ids -> BridgeType]]
  /\ todo \in [Threads -> Seq(Vlans \ Foreign)] /\ new \in [Threads -> Seq(Vlans \ Foreign)]

\* The invariant.  Mutual exclusion makes the server change under a call by Touch only;
\* whatever the others do is in the past of its feed.
LockOK == \A t \in Threads : pc[t] # "idle" => lock = t
ServerOK == ServerSound(vnetAware, nb) /\ (~lost => ServerClear(nb))
CallsOK == \A t \in Threads : pc[t] # "idle" => CallInv(t)
NetInv == TypesOK /\ LockOK /\ ServerOK /\ CallsOK

-----------------------------------------------------------------------------
(* What every step needs.                                                  *)

\* Bridges with less have less in common.
LEMMA ClearShrinks ==
  ASSUME NEW a, NEW b, Clear(a, b), NEW c, NEW d, ArbitraryPvids(c) \subseteq ArbitraryPvids(a),
         Supported(d) \ Foreign \subseteq Supported(b), ArbitraryPvids(d) \subseteq ArbitraryPvids(b)
  PROVE  Clear(c, d)
  BY DEF Clear

\* The parts of a request.
LEMMA RequestTyped ==
  ASSUME NEW r \in Requests
  PROVE  /\ r.op \in {"ensure", "remove"} /\ r.nb \in Ids /\ r.failIfPvid \in BOOLEAN
         /\ r.vlans \in Seq(Vlans \ Foreign) /\ OneEach(r.vlans)
         /\ Rng(r.vlans) \subseteq Vlans /\ Rng(r.vlans) \cap Foreign = {}
         /\ r.op = "remove" => Len(r.vlans) = 1
<1>1. /\ r.op \in {"ensure", "remove"} /\ r.nb \in Ids /\ r.failIfPvid \in BOOLEAN
      /\ r.vlans \in Seq(Vlans \ Foreign) /\ (r.op = "remove" => Len(r.vlans) = 1)
      /\ OneEach(r.vlans)
  BY BridgerConstantsOK DEF OneEach
<1>2. \A i \in DOMAIN r.vlans : r.vlans[i] \in Vlans \ Foreign
  BY <1>1
<1> QED
  BY <1>1, <1>2 DEF Rng

\* @lock.synchronized(_ENSURE_VLAN_LOCK): no two calls are at work.
LEMMA OnlyHolder ==
  ASSUME NetInv, NEW t \in Threads, pc[t] # "idle"
  PROVE  lock = t /\ \A u \in Threads : u # t => pc[u] = "idle"
  BY DEF NetInv, LockOK

\* A step of the thread that holds the lock keeps the invariant if it keeps the server and
\* its own call as they should be.
LEMMA HolderSteps ==
  ASSUME NetInv, NEW t \in Threads, pc[t] # "idle", NEW to \in Pcs, to # "idle",
         pc' = [pc EXCEPT ![t] = to], lock' = lock, vnetAware' = vnetAware, call' = call,
         lost' \in BOOLEAN, torn' \in BOOLEAN, nb' \in [Ids -> BridgeType],
         feed' \in [Threads -> [Ids -> BridgeType]],
         todo' \in [Threads -> Seq(Vlans \ Foreign)], new' \in [Threads -> Seq(Vlans \ Foreign)],
         ServerSound(vnetAware, nb'), ~lost' => ServerClear(nb'),
         CallInv(t)'
  PROVE  NetInv'
<1>1. TypesOK /\ LockOK
  BY DEF NetInv
<1>2. \A u \in Threads : u # t => pc[u] = "idle"
  BY OnlyHolder
<1>3. lock = t
  BY OnlyHolder
<1>4. pc' \in [Threads -> Pcs] /\ pc'[t] = to /\ \A u \in Threads : u # t => pc'[u] = "idle"
  BY <1>1, <1>2 DEF TypesOK
<1>5. TypesOK'
  BY <1>1, <1>4 DEF TypesOK
<1>6. LockOK'
  BY <1>3, <1>4 DEF LockOK
<1>7. CallsOK'
  <2> SUFFICES ASSUME NEW u \in Threads, pc'[u] # "idle" PROVE CallInv(u)'
    BY DEF CallsOK
  <2>1. u = t
    BY <1>4
  <2> QED
    BY <2>1
<1>8. ServerOK'
  BY DEF ServerOK
<1> QED
  BY <1>5, <1>6, <1>7, <1>8 DEF NetInv

\* A POST of a sound bridge leaves the server sound.
LEMMA OwnPostSound ==
  ASSUME TypesOK, ServerSound(vnetAware, nb), NEW q \in Ids, NEW w, Sound(vnetAware, w)
  PROVE  Posted(q, w) \in [Ids -> BridgeType] /\ ServerSound(vnetAware, Posted(q, w))
<1>1. vnetAware \in BOOLEAN /\ nb \in [Ids -> BridgeType] /\ w \in BridgeType
  BY DEF TypesOK, Sound
<1>2. Posted(q, w) \in [Ids -> BridgeType] /\ \A a \in Ids : a # q => Posted(q, w)[a] = nb[a]
  BY <1>1, PostedIs
<1>3. Sound(vnetAware, Posted(q, w)[q]) /\ Settled(vnetAware, Posted(q, w)[q])
  BY <1>1, PostedSound
<1> HIDE DEF TypesOK
<1>4. ASSUME NEW b \in Ids PROVE Sound(vnetAware, Posted(q, w)[b]) /\ Settled(vnetAware, Posted(q, w)[b])
  <2>1. CASE b = q
    BY <1>3, <2>1
  <2>2. CASE b # q
    BY <1>2, <2>2 DEF ServerSound
  <2> QED
    BY <2>1, <2>2
<1> QED
  BY <1>2, <1>4 DEF ServerSound

\* A POST of the own bridge leaves the PVIDs unused, if those that are new are unused in
\* the feed and the VLANs that are new are no PVID there.
LEMMA OwnPostClear ==
  ASSUME TypesOK, ServerClear(nb), NEW q \in Ids, NEW w, Sound(vnetAware, w),
         NEW f \in [Ids -> BridgeType], NEW nw, Follows(nb, f, q), Kept(nb, f, q, nw),
         w.pvid = f[q].pvid, w.prim = f[q].prim,
         NEW arbs, arbs \cap UsedOn(f) = {},
         ArbitraryPvids(w) \subseteq ArbitraryPvids(f[q]) \cup arbs,
         CarriedBy(vnetAware, w) \subseteq Tagged(f[q].adpts) \cup Rng(nw)
  PROVE  ServerClear(Posted(q, w))
<1> DEFINE n == Posted(q, w)
<1>1. vnetAware \in BOOLEAN /\ nb \in [Ids -> BridgeType] /\ w \in BridgeType
  BY DEF TypesOK, Sound
<1>2. \A a \in Ids : a # q => n[a] = nb[a]
  BY <1>1, PostedIs
<1>3. /\ ArbitraryPvids(n[q]) = ArbitraryPvids(w)
      /\ Supported(n[q]) = {w.pvid} \cup w.prim \cup CarriedBy(vnetAware, w)
  BY <1>1, PostedSound
<1> HIDE DEF n
<1>4. ASSUME NEW a \in Ids, a # q
      PROVE  /\ ArbitraryPvids(nb[a]) \subseteq AllVlans(f[a])
             /\ Supported(nb[a]) \ Foreign \subseteq AllVlans(f[a])
             /\ AllVlans(f[a]) \subseteq UsedOn(f)
  <2>1. ArbitraryPvids(nb[a]) \subseteq ArbitraryPvids(f[a]) /\ Tagged(nb[a].adpts) \subseteq Tagged(f[a].adpts)
    BY <1>4 DEF Kept
  <2>2. Alike(f[a], nb[a])
    BY DEF Follows
  <2>3. AllVlans(f[a]) \subseteq UsedOn(f)
    BY DEF UsedOn
  <2> QED
    BY <2>1, <2>2, <2>3 DEF AllVlans, Supported, Alike
<1>5. ASSUME NEW a \in Ids, a # q PROVE Clear(n[q], n[a])
  <2>1. Clear(f[q], nb[a])
    BY <1>5 DEF Kept
  <2>2. arbs \cap ((Supported(nb[a]) \ Foreign) \cup ArbitraryPvids(nb[a])) = {}
    BY <1>4, <1>5
  <2>3. n[a] = nb[a]
    BY <1>2, <1>5
  <2> QED
    BY <1>3, <2>1, <2>2, <2>3 DEF Clear
<1>6. ASSUME NEW a \in Ids, a # q PROVE Clear(n[a], n[q])
  <2>1. Clear(nb[a], f[q])
    BY <1>6 DEF Kept
  <2>2. ArbitraryPvids(nb[a]) \cap arbs = {}
    BY <1>4, <1>6
  <2>3. ArbitraryPvids(nb[a]) \cap Rng(nw) = {}
    BY <1>6 DEF Kept
  <2>4. n[a] = nb[a]
    BY <1>2, <1>6
  <2>5. Supported(n[q]) \subseteq Supported(f[q]) \cup Rng(nw)
    BY <1>3 DEF Supported
  <2> QED
    BY <1>3, <2>1, <2>2, <2>3, <2>4, <2>5 DEF Clear
<1>7. ASSUME NEW a \in Ids, NEW b \in Ids, a # b PROVE Clear(n[a], n[b])
  <2>1. CASE a = q
    BY <1>5, <1>7, <2>1
  <2>2. CASE b = q
    BY <1>6, <1>7, <2>2
  <2>3. CASE a # q /\ b # q
    BY <1>2, <1>7, <2>3 DEF ServerClear
  <2> QED
    BY <2>1, <2>2, <2>3
<1>8. ServerClear(n)
  BY <1>7 DEF ServerClear
<1> QED
  BY <1>8 DEF n

-----------------------------------------------------------------------------
(* The beginning and the end of a call.                                    *)

\* The bridges at the start are sound and clear of each other.
LEMMA SoundAtStart ==
  ASSUME NEW va \in BOOLEAN
  PROVE  ServerSound(va, Bridges) /\ ServerClear(Bridges)
<1>1. Bridges \in [Ids -> BridgeType]
  BY BridgesOK
<1>2. ASSUME NEW a \in Ids, NEW i \in DOMAIN Bridges[a].adpts
      PROVE  LET g == Bridges[a].adpts[i] IN
             /\ g \in TrunkType /\ g.uris = g.tagged \cup {g.pvid} /\ ~g.bld /\ Cardinality(g.uris) <= MaxVlans
             /\ g.tagged = {} => Bridges[a].lb
             /\ \A j \in DOMAIN Bridges[a].adpts : i # j => g.tagged \cap Bridges[a].adpts[j].tagged = {}
             /\ g.pvid \notin Orphans
             /\ \A b \in Ids :
                  /\ g.pvid \notin Supported(Bridges[b])
                  /\ \A j \in DOMAIN Bridges[b].adpts : Bridges[b].adpts[j].pvid = g.pvid => a = b /\ i = j
  <2>1. Bridges[a].adpts[i] \in TrunkType
    <3>1. Bridges[a] \in BridgeType
      BY <1>1
    <3> QED
      BY <3>1, Typed
  <2> QED
    BY <2>1, BridgesOK
<1>3. ASSUME NEW a \in Ids, NEW i \in DOMAIN Bridges[a].adpts
      PROVE  /\ Carries(va, Bridges[a].adpts[i]) = Bridges[a].adpts[i].tagged
             /\ Bridges[a].adpts[i].tagged = Bridges[a].adpts[i].uris \ {Bridges[a].adpts[i].pvid}
  <2> DEFINE g == Bridges[a].adpts[i]
  <2>1. g.uris = g.tagged \cup {g.pvid} /\ g.pvid \notin Supported(Bridges[a])
    BY <1>2
  <2>2. g.pvid \notin g.tagged
    BY <2>1, Members DEF Supported
  <2> HIDE DEF g
  <2>3. g.tagged = g.uris \ {g.pvid} /\ Carries(va, g) = g.tagged
    BY <2>1, <2>2 DEF Carries
  <2> QED
    BY <2>3 DEF g
<1>4. ASSUME NEW a \in Ids PROVE Sound(va, Bridges[a]) /\ Settled(va, Bridges[a])
  <2> DEFINE b == Bridges[a]
  <2>1. b \in BridgeType
    BY <1>1
  <2>2. ASSUME NEW i \in DOMAIN b.adpts PROVE Fits(va, b, b.adpts[i])
    <3> DEFINE g == b.adpts[i]
    <3>1. /\ g \in TrunkType /\ g.uris = g.tagged \cup {g.pvid} /\ Cardinality(g.uris) <= MaxVlans
          /\ (g.tagged = {} => b.lb) /\ g.pvid \notin Orphans /\ g.pvid \notin Supported(b)
      BY <1>2
    <3>2. Carries(va, g) = g.tagged
      BY <1>3
    <3>3. g.pvid # b.pvid /\ g.pvid \notin b.prim /\ g.pvid \notin g.tagged
      BY <3>1, Members DEF Supported
    <3>4. Cardinality(g.tagged) <= MaxVlans
      <4>1. IsFiniteSet(g.uris) /\ g.tagged \subseteq g.uris /\ Cardinality(g.uris) \in Nat
        BY <3>1, FillIsNatural
      <4>2. Cardinality(g.tagged) <= Cardinality(g.uris) /\ Cardinality(g.tagged) \in Nat
        BY <4>1, FS_Subset, FS_CardinalityType
      <4>3. MaxVlans \in Nat
        BY BridgerConstantsOK
      <4> HIDE DEF g
      <4> QED
        BY <3>1, <4>1, <4>2, <4>3
    <3>5. Fill(va, g) <= MaxVlans
      BY <3>1, <3>4 DEF Fill
    <3> HIDE DEF g, b
    <3>6. Fits(va, b, g)
      BY <3>1, <3>2, <3>3, <3>5 DEF Fits
    <3> QED
      BY <3>6 DEF g
  <2>3. ASSUME NEW i \in DOMAIN b.adpts, NEW j \in DOMAIN b.adpts, i # j PROVE Apart(va, b.adpts[i], b.adpts[j])
    <3>1. /\ b.adpts[i].tagged \cap b.adpts[j].tagged = {} /\ b.adpts[i].pvid # b.adpts[j].pvid
          /\ b.adpts[i].pvid \notin Supported(b) /\ b.adpts[j].pvid \notin Supported(b)
      BY <1>2, <2>3
    <3>2. b.adpts[i].pvid \notin b.adpts[j].tagged /\ b.adpts[j].pvid \notin b.adpts[i].tagged
      BY <3>1, Members DEF Supported
    <3>3. Carries(va, b.adpts[i]) = b.adpts[i].tagged /\ Carries(va, b.adpts[j]) = b.adpts[j].tagged
      BY <1>3
    <3> DEFINE g == b.adpts[i]
               h == b.adpts[j]
    <3>4. /\ g.tagged \cap h.tagged = {} /\ g.pvid # h.pvid
          /\ g.pvid \notin h.tagged /\ h.pvid \notin g.tagged
      BY <3>1, <3>2
    <3>5. Carries(va, g) = g.tagged /\ Carries(va, h) = h.tagged
      BY <3>3
    <3> HIDE DEF b, g, h
    <3>6. Apart(va, g, h)
      BY <3>4, <3>5 DEF Apart
    <3> QED
      BY <3>6 DEF g, h
  <2>4. b.failover => b.peer = b.adpts
    BY BridgesOK
  <2>5. Settled(va, b)
    <3>1. ASSUME NEW i \in DOMAIN b.adpts
          PROVE  ~b.adpts[i].bld /\ b.adpts[i].tagged = b.adpts[i].uris \ {b.adpts[i].pvid}
      BY <1>2, <1>3
    <3> HIDE DEF b
    <3> QED
      BY <3>1 DEF Settled
  <2> HIDE DEF b
  <2>6. Sound(va, b)
    BY <2>1, <2>2, <2>3, <2>4 DEF Sound
  <2> QED
    BY <2>5, <2>6 DEF b
<1>5. ASSUME NEW a \in Ids, NEW b \in Ids, a # b PROVE Clear(Bridges[a], Bridges[b])
  <2> SUFFICES ASSUME NEW x \in ArbitraryPvids(Bridges[a])
               PROVE  x \notin Supported(Bridges[b]) /\ x \notin ArbitraryPvids(Bridges[b])
    BY DEF Clear
  <2>1. PICK i \in DOMAIN Bridges[a].adpts : x = Bridges[a].adpts[i].pvid
    BY PvidMembers
  <2>2. x \notin Supported(Bridges[b]) /\ \A j \in DOMAIN Bridges[b].adpts : Bridges[b].adpts[j].pvid # x
    BY <1>2, <1>5, <2>1
  <2> QED
    BY <2>2, PvidMembers
<1> QED
  BY <1>4, <1>5 DEF ServerSound, ServerClear

\* NetInv holds before the first call.
LEMMA NetInitially == Init => NetInv
<1> SUFFICES ASSUME Init PROVE NetInv
  OBVIOUS
<1>1. NoCall \in Requests
  BY BridgerConstantsOK DEF NoCall
<1>2. <<>> \in Seq(Vlans \ Foreign) /\ Bridges \in [Ids -> BridgeType]
  BY BridgesOK
<1>3. vnetAware \in BOOLEAN /\ nb = Bridges /\ ~lost /\ \A t \in Threads : pc[t] = "idle"
  BY DEF Init
<1>4. TypesOK
  BY <1>1, <1>2 DEF Init, TypesOK, Pcs
<1>5. ServerOK
  BY <1>3, SoundAtStart DEF ServerOK
<1> QED
  BY <1>3, <1>4, <1>5 DEF NetInv, LockOK, CallsOK

\* ensure_vlans_on_nb and remove_vlan_from_nb are called.
LEMMA StartedCall ==
  ASSUME NetInv, NEW t \in Threads, NEW r \in Requests, Call(t, r)
  PROVE  NetInv'
<1>1. TypesOK /\ LockOK /\ ServerOK
  BY DEF NetInv
<1>2. \A u \in Threads : pc[u] = "idle"
  BY <1>1, BridgerConstantsOK DEF Call, LockIsFree, LockOK
<1>3. /\ vnetAware' = vnetAware /\ nb' = nb /\ lost' = lost /\ torn' = FALSE /\ lock' = t
      /\ feed' = feed /\ todo' = todo /\ new' = new
      /\ pc' = [pc EXCEPT ![t] = "get"] /\ call' = [call EXCEPT ![t] = r]
      /\ had' = [b \in Ids |-> Supported(nb[b])]
  BY DEF Call, config, server
<1>4. pc' \in [Threads -> Pcs] /\ call' \in [Threads -> Requests]
  BY <1>1, <1>3 DEF TypesOK, Pcs
<1>5. pc'[t] = "get" /\ \A u \in Threads : u # t => pc'[u] = "idle"
  BY <1>1, <1>2, <1>3 DEF TypesOK
<1>6. TypesOK'
  BY <1>1, <1>3, <1>4 DEF TypesOK
<1>7. LockOK'
  BY <1>3, <1>5 DEF LockOK
<1>8. ServerOK'
  BY <1>1, <1>3 DEF ServerOK
<1>9. CallInv(t)'
  BY <1>3, <1>5 DEF CallInv, Working, Kernel
<1>10. CallsOK'
  BY <1>5, <1>9 DEF CallsOK
<1> QED
  BY <1>6, <1>7, <1>8, <1>10 DEF NetInv

\* They return, or raise.
LEMMA Returned ==
  ASSUME NetInv, NEW t \in Threads, Return(t)
  PROVE  NetInv'
<1>1. TypesOK /\ LockOK /\ ServerOK /\ lock = t /\ \A u \in Threads : u # t => pc[u] = "idle"
  BY OnlyHolder DEF NetInv, Return
<1>2. /\ vnetAware' = vnetAware /\ nb' = nb /\ lost' = lost /\ torn' = torn /\ lock' = Nobody
      /\ feed' = [feed EXCEPT ![t] = Bridges] /\ todo' = [todo EXCEPT ![t] = <<>>] /\ new' = [new EXCEPT ![t] = <<>>]
      /\ pc' = [pc EXCEPT ![t] = "idle"] /\ call' = [call EXCEPT ![t] = NoCall]
  BY <1>1 DEF Return, config, server, seen
<1>3. NoCall \in Requests /\ <<>> \in Seq(Vlans \ Foreign) /\ Bridges \in [Ids -> BridgeType]
  BY BridgerConstantsOK, BridgesOK DEF NoCall
<1>4. /\ pc' \in [Threads -> Pcs] /\ call' \in [Threads -> Requests]
      /\ feed' \in [Threads -> [Ids -> BridgeType]]
      /\ todo' \in [Threads -> Seq(Vlans \ Foreign)] /\ new' \in [Threads -> Seq(Vlans \ Foreign)]
  BY <1>1, <1>2, <1>3 DEF TypesOK, Pcs
<1>5. \A u \in Threads : pc'[u] = "idle"
  BY <1>1, <1>2 DEF TypesOK
<1>6. TypesOK'
  BY <1>1, <1>2, <1>4 DEF TypesOK
<1>7. ServerOK'
  BY <1>1, <1>2 DEF ServerOK
<1> QED
  BY <1>5, <1>6, <1>7 DEF NetInv, LockOK, CallsOK

\* NetBridge.get, in the first try or a later one.
LEMMA FeedFetched ==
  ASSUME NetInv, NEW t \in Threads, Get(t)
  PROVE  NetInv'
<1> DEFINE r == call[t]
           to == IF r.op = "ensure" THEN "eval" ELSE "remove"
<1>1. TypesOK /\ ServerOK /\ pc[t] = "get" /\ CallInv(t)
  BY DEF NetInv, CallsOK, Get
<1>2. /\ vnetAware' = vnetAware /\ nb' = nb /\ lost' = lost /\ torn' = torn /\ lock' = lock /\ call' = call /\ had' = had
      /\ feed' = [feed EXCEPT ![t] = nb] /\ todo' = [todo EXCEPT ![t] = r.vlans] /\ new' = [new EXCEPT ![t] = <<>>]
      /\ pc' = [pc EXCEPT ![t] = to]
  BY DEF Get, Goes, config, server, seen
<1>3. r \in Requests
  BY <1>1 DEF TypesOK
<1>4. /\ r.op \in {"ensure", "remove"} /\ r.nb \in Ids /\ r.vlans \in Seq(Vlans \ Foreign) /\ OneEach(r.vlans)
      /\ r.op = "remove" => Len(r.vlans) = 1
  BY <1>3, RequestTyped
<1>5. /\ feed' \in [Threads -> [Ids -> BridgeType]]
      /\ todo' \in [Threads -> Seq(Vlans \ Foreign)] /\ new' \in [Threads -> Seq(Vlans \ Foreign)]
      /\ feed'[t] = nb /\ todo'[t] = r.vlans /\ new'[t] = <<>> /\ pc'[t] = to
  BY <1>1, <1>2, <1>4 DEF TypesOK
<1>6. AtWork(vnetAware, nb, nb, r, r.vlans, <<>>, lost)
  <2>1. \A b \in Ids : nb[b].ver \in Nat
    <3>1. \A b \in Ids : nb[b] \in BridgeType
      BY <1>1 DEF TypesOK
    <3> QED
      BY <3>1, Typed
  <2>2. Follows(nb, nb, r.nb)
    BY <2>1 DEF Follows, Alike
  <2>3. Sound(vnetAware, nb[r.nb]) /\ Settled(vnetAware, nb[r.nb])
    BY <1>1, <1>4 DEF ServerOK, ServerSound
  <2>4. r.vlans \in Seq(Rng(r.vlans)) /\ <<>> \in Seq(Rng(r.vlans))
    <3>1. DOMAIN r.vlans = 1 .. Len(r.vlans) /\ Len(r.vlans) \in Nat
      BY <1>4
    <3>2. \A i \in DOMAIN r.vlans : r.vlans[i] \in Rng(r.vlans)
      BY DEF Rng
    <3>3. r.vlans \in [1 .. Len(r.vlans) -> Rng(r.vlans)]
      BY <1>4, <3>1, <3>2
    <3> QED
      BY <3>1, <3>3, IsSequence
  <2>5. OneEach(<<>>) /\ Rng(<<>>) = {}
    BY DEF OneEach, Rng
  <2>6. Lists(Rng(r.vlans), r.vlans, <<>>, nb[r.nb])
    BY <1>4, <2>4, <2>5 DEF Lists
  <2>7. ~lost => Kept(nb, nb, r.nb, <<>>)
    BY <1>1, <1>4, <2>5 DEF ServerOK, ServerClear, Kept
  <2> HIDE DEF r
  <2> QED
    BY <2>2, <2>3, <2>6, <2>7 DEF AtWork
<1>7. CallInv(t)'
  <2>1. todo'[t] # <<>> \/ to = "eval"
    <3>1. CASE r.op = "ensure"
      BY <3>1
    <3>2. CASE r.op = "remove"
      <4>1. Len(r.vlans) = 1
        BY <1>4, <3>2
      <4>2. r.vlans # <<>>
        BY <4>1
      <4> QED
        BY <1>5, <4>2
    <3> QED
      BY <1>4, <3>1, <3>2
  <2>2. to \in {"eval", "remove"} /\ (to = "eval" <=> r.op = "ensure") /\ (to = "remove" <=> r.op = "remove")
    BY <1>4
  <2>3. ~torn => \A b \in Ids : Kernel(had[b], r) \subseteq Supported(nb[b])
    BY <1>1 DEF CallInv
  <2>4. call'[t] = r
    BY <1>2
  <2>5. /\ AtWork(vnetAware', nb', feed'[t], call'[t], todo'[t], new'[t], lost')
        /\ feed'[t][call'[t].nb] = nb'[call'[t].nb]
    BY <1>2, <1>5, <1>6
  <2>6. ~torn' => \A b \in Ids : Kernel(had'[b], call'[t]) \subseteq Supported(nb'[b])
    BY <1>2, <2>3
  <2> HIDE DEF to
  <2> QED
    BY <1>5, <2>1, <2>2, <2>4, <2>5, <2>6 DEF CallInv, Working
<1>8. to \in Pcs /\ to # "idle"
  BY DEF Pcs, Working
<1> HIDE DEF to
<1> QED
  BY <1>1, <1>2, <1>5, <1>7, <1>8, HolderSteps DEF ServerOK, TypesOK

-----------------------------------------------------------------------------
(* The steps of a call.                                                    *)

\* The VLAN at hand, and those that remain.
LEMMA HeadAndTail ==
  ASSUME NEW vs, NEW td \in Seq(vs), td # <<>>, OneEach(td)
  PROVE  /\ Head(td) \in vs /\ Tail(td) \in Seq(vs) /\ OneEach(Tail(td))
         /\ Rng(td) = {Head(td)} \cup Rng(Tail(td)) /\ Head(td) \notin Rng(Tail(td))
<1>1. /\ Head(td) = td[1] /\ Tail(td) \in Seq(vs) /\ Len(td) \in Nat \ {0} /\ Len(Tail(td)) = Len(td) - 1
      /\ DOMAIN td = 1 .. Len(td) /\ DOMAIN Tail(td) = 1 .. Len(td) - 1
      /\ td[1] \in vs
  OBVIOUS
<1>2. \A i \in 1 .. Len(td) - 1 : Tail(td)[i] = td[i + 1]
  BY <1>1
<1> DEFINE tl == Tail(td)
<1> HIDE DEF tl
<1>3. \A i \in DOMAIN tl : i + 1 \in DOMAIN td /\ i + 1 # 1 /\ tl[i] = td[i + 1]
  BY <1>1, <1>2 DEF tl
<1>4. \A i \in DOMAIN td : i = 1 \/ (i - 1 \in DOMAIN tl /\ tl[i - 1] = td[i])
  BY <1>1, <1>2 DEF tl
<1>5. OneEach(tl)
  <2> SUFFICES ASSUME NEW i \in DOMAIN tl, NEW j \in DOMAIN tl, tl[i] = tl[j] PROVE i = j
    BY DEF OneEach
  <2>1. i + 1 = j + 1
    BY <1>3 DEF OneEach
  <2>2. i \in Nat /\ j \in Nat
    BY <1>1 DEF tl
  <2> QED
    BY <2>1, <2>2
<1>6. 1 \in DOMAIN td
  BY <1>1
<1>7. Rng(td) = {td[1]} \cup Rng(tl)
  <2>1. ASSUME NEW v \in Rng(td) PROVE v \in {td[1]} \cup Rng(tl)
    BY <1>4 DEF Rng
  <2>2. ASSUME NEW v \in Rng(tl) PROVE v \in Rng(td)
    BY <1>3 DEF Rng
  <2>3. td[1] \in Rng(td)
    BY <1>6 DEF Rng
  <2> QED
    BY <2>1, <2>2, <2>3
<1>8. td[1] \notin Rng(tl)
  <2> SUFFICES ASSUME NEW i \in DOMAIN tl, td[1] = tl[i] PROVE FALSE
    BY DEF Rng
  <2>1. td[1] = td[i + 1] /\ i + 1 \in DOMAIN td /\ i + 1 # 1
    BY <1>3
  <2> QED
    BY <1>6, <2>1 DEF OneEach
<1> QED
  BY <1>1, <1>5, <1>7, <1>8 DEF tl

\* A VLAN is done with.
LEMMA OneDone ==
  ASSUME NEW vs, NEW td, NEW nw, NEW b, Lists(vs, td, nw, b), td # <<>>
  PROVE  Lists(vs, Tail(td), nw, b)
<1>1. /\ Head(td) \in vs /\ Tail(td) \in Seq(vs) /\ OneEach(Tail(td))
      /\ Rng(td) = {Head(td)} \cup Rng(Tail(td))
  BY HeadAndTail DEF Lists
<1> DEFINE tl == Tail(td)
<1> HIDE DEF tl
<1>2. tl \in Seq(vs) /\ OneEach(tl) /\ Rng(tl) \subseteq Rng(td)
  BY <1>1 DEF tl
<1>3. Lists(vs, tl, nw, b)
  BY <1>2 DEF Lists
<1> QED
  BY <1>3 DEF tl

\* The elements of a list that was appended to.
LEMMA RngOfAppend ==
  ASSUME NEW T, NEW s \in Seq(T), NEW x \in T
  PROVE  Rng(Append(s, x)) = Rng(s) \cup {x}
<1> DEFINE a == Append(s, x)
           n == Len(s) + 1
<1>1. DOMAIN s = 1 .. Len(s) /\ Len(s) \in Nat
  OBVIOUS
<1>2. DOMAIN a = 1 .. n /\ a[n] = x /\ \A k \in DOMAIN s : a[k] = s[k]
  BY Appended
<1>3. DOMAIN a = DOMAIN s \cup {n}
  BY <1>1, <1>2
<1> HIDE DEF a, n
<1>4. Rng(a) = Rng(s) \cup {x}
  <2>1. ASSUME NEW y \in Rng(a) PROVE y \in Rng(s) \cup {x}
    BY <1>2, <1>3 DEF Rng
  <2>2. ASSUME NEW y \in Rng(s) \cup {x} PROVE y \in Rng(a)
    BY <1>2, <1>3 DEF Rng
  <2> QED
    BY <2>1, <2>2
<1> QED
  BY <1>4 DEF a

\* A VLAN moves from todo to new.
LEMMA OnePlaced ==
  ASSUME NEW vs, NEW td, NEW nw, NEW b, Lists(vs, td, nw, b), td # <<>>, Head(td) \notin AllVlans(b)
  PROVE  Lists(vs, Tail(td), Append(nw, Head(td)), b) /\ Rng(Append(nw, Head(td))) = Rng(nw) \cup {Head(td)}
<1>1. /\ Head(td) \in vs /\ Tail(td) \in Seq(vs) /\ OneEach(Tail(td))
      /\ Rng(td) = {Head(td)} \cup Rng(Tail(td)) /\ Head(td) \notin Rng(Tail(td))
  BY HeadAndTail DEF Lists
<1> DEFINE tl == Tail(td)
           v == Head(td)
           a == Append(nw, v)
           n == Len(nw) + 1
<1>2. tl \in Seq(vs) /\ OneEach(tl) /\ Rng(td) = {v} \cup Rng(tl) /\ v \notin Rng(tl) /\ v \in vs
  BY <1>1
<1>3. nw \in Seq(vs) /\ v \notin AllVlans(b) /\ v \notin Rng(nw)
  BY <1>2 DEF Lists
<1>4. DOMAIN nw = 1 .. Len(nw) /\ Len(nw) \in Nat
  BY <1>3
<1> HIDE DEF v, tl
<1>5. a \in Seq(vs) /\ DOMAIN a = 1 .. n /\ a[n] = v /\ \A k \in DOMAIN nw : a[k] = nw[k]
  BY <1>2, <1>3, Appended
<1>6. Rng(a) = Rng(nw) \cup {v}
  BY <1>2, <1>3, RngOfAppend
<1>7. DOMAIN a = DOMAIN nw \cup {n}
  BY <1>4, <1>5
<1> HIDE DEF a, n
<1>8. OneEach(a)
  <2> SUFFICES ASSUME NEW i \in DOMAIN a, NEW j \in DOMAIN a, a[i] = a[j] PROVE i = j
    BY DEF OneEach
  <2>1. \A k \in DOMAIN nw : nw[k] # v
    BY <1>3 DEF Rng
  <2> QED
    BY <1>5, <1>7, <2>1 DEF OneEach, Lists
<1>9. Lists(vs, tl, a, b)
  BY <1>2, <1>3, <1>5, <1>6, <1>8 DEF Lists
<1> QED
  BY <1>6, <1>9 DEF a, tl, v

\* On a sound bridge a PVID is no VLAN of a trunk.
LEMMA PvidsAreUnused ==
  ASSUME NEW va, NEW b, Sound(va, b), NEW x, x \in ArbitraryPvids(b)
  PROVE  x \notin CarriedBy(va, b) /\ x # b.pvid /\ x \notin b.prim \ Foreign /\ x \notin Orphans
<1>1. PICK i \in DOMAIN b.adpts : x = b.adpts[i].pvid
  BY PvidMembers
<1>2. Fits(va, b, b.adpts[i])
  BY DEF Sound
<1>3. \A j \in DOMAIN b.adpts : x \notin Carries(va, b.adpts[j])
  <2> SUFFICES ASSUME NEW j \in DOMAIN b.adpts PROVE x \notin Carries(va, b.adpts[j])
    OBVIOUS
  <2>1. CASE j = i
    BY <1>1, <1>2, <2>1 DEF Fits
  <2>2. CASE j # i
    BY <1>1, <2>2 DEF Sound, Apart
  <2> QED
    BY <2>1, <2>2
<1>4. x \notin CarriedBy(va, b)
  BY <1>3, CarriedMembers
<1> QED
  BY <1>1, <1>2, <1>4 DEF Fits

\* A call that ends its try without a change.
LEMMA Ends ==
  ASSUME NetInv, NEW t \in Threads, pc[t] \in {"eval", "place", "remove"}, NEW to \in {"get", "ok", "error"},
         to = "ok" => Done(call[t], nb[call[t].nb]),
         pc' = [pc EXCEPT ![t] = to], lock' = lock, vnetAware' = vnetAware, nb' = nb,
         UNCHANGED <<local, seen>>
  PROVE  NetInv'
<1>1. TypesOK /\ ServerOK /\ CallInv(t) /\ pc[t] # "idle"
  BY DEF NetInv, CallsOK
<1>2. call' = call /\ feed' = feed /\ todo' = todo /\ new' = new /\ had' = had /\ torn' = torn /\ lost' = lost
  BY DEF local, seen
<1>3. to \in Pcs /\ to # "idle" /\ to \notin Working
  BY DEF Pcs, Working
<1>4. pc'[t] = to
  BY <1>1 DEF TypesOK
<1>5. ~torn => \A b \in Ids : Kernel(had[b], call[t]) \subseteq Supported(nb[b])
  BY <1>1 DEF CallInv
<1>6. CallInv(t)'
  BY <1>2, <1>3, <1>4, <1>5 DEF CallInv, Working
<1> QED
  BY <1>1, <1>2, <1>3, <1>6, HolderSteps DEF ServerOK, TypesOK

\* What a step of a call begins with.
LEMMA WorkingFacts ==
  ASSUME NetInv, NEW t \in Threads, pc[t] \in Working
  PROVE  /\ TypesOK /\ ServerOK /\ CallInv(t) /\ pc[t] # "idle" /\ call[t] \in Requests
         /\ AtWork(vnetAware, nb, feed[t], call[t], todo[t], new[t], lost)
         /\ feed[t] \in [Ids -> BridgeType] /\ call[t].nb \in Ids /\ vnetAware \in BOOLEAN
         /\ \A b \in Ids : feed[t][b] \in BridgeType /\ nb[b] \in BridgeType
<1>1. TypesOK /\ ServerOK /\ CallInv(t) /\ pc[t] # "idle"
  BY DEF NetInv, CallsOK, Working
<1>2. call[t] \in Requests /\ feed[t] \in [Ids -> BridgeType] /\ nb \in [Ids -> BridgeType] /\ vnetAware \in BOOLEAN
  BY <1>1 DEF TypesOK
<1> QED
  BY <1>1, <1>2, RequestTyped DEF CallInv

\* A step that only goes on to place the VLAN.
LEMMA FoundNowhere ==
  ASSUME NetInv, NEW t \in Threads, Evaluating(t), V(t) \notin Supported(Req(t)),
         pc' = [pc EXCEPT ![t] = "place"], lock' = lock, vnetAware' = vnetAware, nb' = nb,
         UNCHANGED <<local, seen>>
  PROVE  NetInv'
<1>1. pc[t] \in Working /\ pc[t] = "eval" /\ todo[t] # <<>>
  BY DEF Evaluating, Working
<1>2. TypesOK /\ ServerOK /\ CallInv(t)
  BY <1>1, WorkingFacts
<1>3. call' = call /\ feed' = feed /\ todo' = todo /\ new' = new /\ had' = had /\ torn' = torn /\ lost' = lost
  BY DEF local, seen
<1>4. pc'[t] = "place"
  BY <1>2 DEF TypesOK
<1>5. CallInv(t)'
  BY <1>1, <1>2, <1>3, <1>4 DEF CallInv, Working, V, Req
<1>6. "place" \in Pcs
  BY DEF Pcs, Working
<1> QED
  BY <1>1, <1>2, <1>3, <1>5, <1>6, HolderSteps DEF ServerOK, TypesOK, Working

\* _find_new_arbitrary_vid for a reassignment: unused on all bridges of the feed, on none of
\* the VLANs of the call, and no orphan.
LEMMA ReassignIsFree ==
  ASSUME NetInv, NEW t \in Threads, pc[t] \in Working, ReassignTo(t) # 0
  PROVE  /\ FreeOn(vnetAware, Req(t), ReassignTo(t))
         /\ ReassignTo(t) \notin UsedOn(feed[t]) /\ ReassignTo(t) \notin Rng(call[t].vlans)
<1>1. /\ call[t].nb \in Ids /\ vnetAware \in BOOLEAN
      /\ AtWork(vnetAware, nb, feed[t], call[t], todo[t], new[t], lost)
  BY WorkingFacts
<1>2. ReassignTo(t) \in Vlans \ (UsedOn(feed[t]) \cup Others(t))
  BY NewVidIsNew DEF ReassignTo
<1>3. AllVlans(Req(t)) \subseteq UsedOn(feed[t])
  BY <1>1 DEF UsedOn, Req
<1>4. CarriedBy(vnetAware, Req(t)) \subseteq AllVlans(Req(t))
  BY <1>1, SettledCarries DEF AtWork, Req, AllVlans, Supported
<1> HIDE DEF ReassignTo
<1> QED
  BY <1>2, <1>3, <1>4 DEF FreeOn, Others

\* A POST of the own bridge that ends a call or a try.
LEMMA OwnPost ==
  ASSUME NetInv, NEW t \in Threads, pc[t] \in Working, pc[t] # "attach" => Fresh(t, call[t].nb),
         NEW w, Sound(vnetAware, w), Header(w, Req(t)),
         NEW arbs, arbs \cap UsedOn(feed[t]) = {},
         ArbitraryPvids(w) \subseteq ArbitraryPvids(Req(t)) \cup arbs,
         CarriedBy(vnetAware, w) \subseteq Tagged(Req(t).adpts) \cup Rng(new[t]),
         Tagged(Req(t).adpts) \ Rng(call[t].vlans) \subseteq CarriedBy(vnetAware, w),
         NEW to \in {"get", "ok"}, nb' = Posted(call[t].nb, w),
         to = "ok" => Done(call[t], nb'[call[t].nb]),
         pc' = [pc EXCEPT ![t] = to], lock' = lock, vnetAware' = vnetAware,
         UNCHANGED <<local, seen>>
  PROVE  NetInv'
<1> DEFINE q == call[t].nb
           f == feed[t]
<1>1. /\ TypesOK /\ ServerOK /\ CallInv(t) /\ pc[t] # "idle" /\ call[t] \in Requests
      /\ AtWork(vnetAware, nb, f, call[t], todo[t], new[t], lost)
      /\ f \in [Ids -> BridgeType] /\ q \in Ids /\ vnetAware \in BOOLEAN
  BY WorkingFacts
<1>2. nb \in [Ids -> BridgeType] /\ w \in BridgeType
  BY <1>1 DEF TypesOK, Sound
<1>3. call' = call /\ feed' = feed /\ todo' = todo /\ new' = new /\ had' = had /\ torn' = torn /\ lost' = lost
  BY DEF local, seen
<1>4. nb' \in [Ids -> BridgeType] /\ ServerSound(vnetAware, nb') /\ \A a \in Ids : a # q => nb'[a] = nb[a]
  BY <1>1, <1>2, OwnPostSound, PostedIs DEF ServerOK
<1>5. w.pvid = f[q].pvid /\ w.prim = f[q].prim
  BY DEF Header, Req
<1>6. ~lost' => ServerClear(nb')
  <2> SUFFICES ASSUME ~lost PROVE ServerClear(Posted(q, w))
    BY <1>3
  <2>1. ServerClear(nb) /\ Follows(nb, f, q) /\ Kept(nb, f, q, new[t])
    BY <1>1 DEF ServerOK, AtWork
  <2>2. ArbitraryPvids(w) \subseteq ArbitraryPvids(f[q]) \cup arbs
    BY DEF Req
  <2>3. CarriedBy(vnetAware, w) \subseteq Tagged(f[q].adpts) \cup Rng(new[t])
    BY DEF Req
  <2>4. arbs \cap UsedOn(f) = {}
    OBVIOUS
  <2> HIDE DEF f, q
  <2> QED
    BY <1>1, <1>5, <2>1, <2>2, <2>3, <2>4, OwnPostClear
<1>7. Supported(nb'[q]) = {w.pvid} \cup w.prim \cup CarriedBy(vnetAware, w)
  BY <1>1, <1>2, PostedSound
<1>8. ~torn => \A b \in Ids : Kernel(had[b], call[t]) \subseteq IF b = q THEN Supported(f[q]) ELSE Supported(nb[b])
  <2>1. CASE pc[t] = "attach"
    BY <1>1, <2>1 DEF CallInv
  <2>2. CASE pc[t] # "attach"
    <3>1. f[q] = nb[q]
      BY <1>1, <2>2 DEF CallInv, Working, Fresh
    <3>2. ~torn => \A b \in Ids : Kernel(had[b], call[t]) \subseteq Supported(nb[b])
      BY <1>1, <2>2 DEF CallInv
    <3> QED
      BY <3>1, <3>2
  <2> QED
    BY <2>1, <2>2
<1>9. ~torn => \A b \in Ids : Kernel(had[b], call[t]) \subseteq Supported(nb'[b])
  <2> SUFFICES ASSUME ~torn, NEW b \in Ids PROVE Kernel(had[b], call[t]) \subseteq Supported(nb'[b])
    OBVIOUS
  <2>1. CASE b # q
    BY <1>4, <1>8, <2>1
  <2>2. CASE b = q
    <3>1. Kernel(had[q], call[t]) \subseteq Supported(f[q])
      BY <1>1, <1>8
    <3>2. Supported(f[q]) = {w.pvid} \cup w.prim \cup Tagged(Req(t).adpts)
      BY <1>5 DEF Supported, Req
    <3>3. Kernel(had[q], call[t]) \cap Rng(call[t].vlans) = {}
      BY DEF Kernel
    <3> HIDE DEF f, q
    <3> QED
      BY <1>7, <2>2, <3>1, <3>2, <3>3
  <2> QED
    BY <2>1, <2>2
<1>10. to \in Pcs /\ to # "idle" /\ to \notin Working /\ pc'[t] = to
  BY <1>1 DEF Pcs, Working, TypesOK
<1>11. CallInv(t)'
  BY <1>3, <1>9, <1>10 DEF CallInv, Working
<1> QED
  BY <1>1, <1>3, <1>4, <1>6, <1>10, <1>11, HolderSteps DEF TypesOK

\* What a removal has done when nothing of the VLAN is left.
LEMMA RemovalDone ==
  ASSUME NetInv, NEW t \in Threads, pc[t] \in Working, call[t].op = "remove", NEW b,
         V(t) \notin ArbitraryPvids(b), V(t) \in Supported(b) => V(t) \in {b.pvid} \cup b.prim
  PROVE  Done(call[t], b)
<1>1. /\ AtWork(vnetAware, nb, feed[t], call[t], todo[t], new[t], lost) /\ call[t] \in Requests
  BY WorkingFacts
<1>2. todo[t] = call[t].vlans /\ Len(call[t].vlans) = 1 /\ call[t].vlans \in Seq(Vlans \ Foreign)
  BY <1>1, RequestTyped DEF AtWork
<1>3. Rng(call[t].vlans) = {V(t)}
  BY <1>2 DEF Rng, V
<1> QED
  BY <1>3 DEF Done, AllVlans

-----------------------------------------------------------------------------
(* Action by action.                                                       *)

\* The VLAN is on the bridge.
LEMMA VlanAlreadyThere ==
  ASSUME NetInv, NEW t \in Threads, AlreadyThere(t)
  PROVE  NetInv'
<1> DEFINE q == call[t].nb
           tl == Tail(todo[t])
<1>1. pc[t] = "eval" /\ todo[t] # <<>> /\ V(t) \in Supported(feed[t][q]) /\ pc[t] \in Working
  BY DEF AlreadyThere, Evaluating, Working, Req
<1>2. /\ TypesOK /\ ServerOK /\ CallInv(t) /\ call[t] \in Requests
      /\ AtWork(vnetAware, nb, feed[t], call[t], todo[t], new[t], lost)
  BY <1>1, WorkingFacts
<1>3. /\ vnetAware' = vnetAware /\ nb' = nb /\ lost' = lost /\ torn' = torn /\ lock' = lock /\ call' = call /\ had' = had
      /\ feed' = feed /\ new' = new /\ todo' = [todo EXCEPT ![t] = tl] /\ pc' = [pc EXCEPT ![t] = "eval"]
  BY DEF AlreadyThere, Goes, config, server, seen
<1>4. Lists(Rng(call[t].vlans), tl, new[t], feed[t][q])
  BY <1>1, <1>2, OneDone DEF AtWork
<1>5. Rng(todo[t]) = {V(t)} \cup Rng(tl) /\ tl \in Seq(Vlans \ Foreign)
  <2>1. todo[t] \in Seq(Vlans \ Foreign) /\ OneEach(todo[t])
    BY <1>2 DEF TypesOK, AtWork, Lists
  <2> QED
    BY <1>1, <2>1, HeadAndTail DEF V
<1> HIDE DEF tl
<1>6. todo' \in [Threads -> Seq(Vlans \ Foreign)] /\ todo'[t] = tl /\ pc'[t] = "eval"
  BY <1>2, <1>3, <1>5 DEF TypesOK
<1>7. call[t].op = "ensure"
  BY <1>1, <1>2 DEF CallInv
<1>8. AtWork(vnetAware, nb, feed[t], call[t], tl, new[t], lost)
  BY <1>1, <1>2, <1>4, <1>5, <1>7 DEF AtWork
<1>9. CallInv(t)'
  BY <1>1, <1>2, <1>3, <1>6, <1>7, <1>8 DEF CallInv, Working
<1>10. "eval" \in Pcs
  BY DEF Pcs, Working
<1> QED
  BY <1>1, <1>2, <1>3, <1>6, <1>9, <1>10, HolderSteps DEF ServerOK, TypesOK, Working

\* No peer has the VLAN.
LEMMA VlanOnNoPeer ==
  ASSUME NetInv, NEW t \in Threads, NotOnPeer(t)
  PROVE  NetInv'
<1>1. /\ Evaluating(t) /\ V(t) \notin Supported(Req(t))
      /\ pc' = [pc EXCEPT ![t] = "place"] /\ lock' = lock /\ vnetAware' = vnetAware /\ nb' = nb
      /\ UNCHANGED <<local, seen>>
  BY DEF NotOnPeer, Goes, config, server
<1> QED
  BY <1>1, FoundNowhere

\* The VLAN becomes one of new_vlans: it is on no bridge and no PVID.
LEMMA VlanPlaced ==
  ASSUME NetInv, NEW t \in Threads, Place(t)
  PROVE  NetInv'
<1> DEFINE q == call[t].nb
           v == V(t)
           tl == Tail(todo[t])
           nw == Append(new[t], v)
<1>1. pc[t] = "place" /\ ArbitraryOn(t) = {} /\ pc[t] \in Working
  BY DEF Place, Working
<1>2. /\ TypesOK /\ ServerOK /\ CallInv(t) /\ call[t] \in Requests /\ q \in Ids
      /\ AtWork(vnetAware, nb, feed[t], call[t], todo[t], new[t], lost)
  BY <1>1, WorkingFacts
<1>3. /\ vnetAware' = vnetAware /\ nb' = nb /\ lost' = lost /\ torn' = torn /\ lock' = lock /\ call' = call /\ had' = had
      /\ feed' = feed /\ new' = [new EXCEPT ![t] = nw] /\ todo' = [todo EXCEPT ![t] = tl]
      /\ pc' = [pc EXCEPT ![t] = "eval"]
  BY DEF Place, Goes, config, server, seen
<1>4. todo[t] # <<>> /\ v \notin Supported(feed[t][q]) /\ call[t].op = "ensure"
  BY <1>1, <1>2 DEF CallInv, V
<1>5. \A b \in Ids : v \notin ArbitraryPvids(feed[t][b])
  BY <1>1 DEF ArbitraryOn
<1>6. /\ Lists(Rng(call[t].vlans), tl, nw, feed[t][q])
      /\ Rng(nw) = Rng(new[t]) \cup {v}
  <2>1. Head(todo[t]) \notin AllVlans(feed[t][q])
    BY <1>2, <1>4, <1>5 DEF AllVlans, V
  <2> QED
    BY <1>2, <1>4, <2>1, OnePlaced DEF AtWork, V
<1>7. /\ Rng(todo[t]) = {v} \cup Rng(tl) /\ tl \in Seq(Vlans \ Foreign) /\ nw \in Seq(Vlans \ Foreign)
  <2>1. todo[t] \in Seq(Vlans \ Foreign) /\ OneEach(todo[t]) /\ new[t] \in Seq(Vlans \ Foreign)
    BY <1>2 DEF TypesOK, AtWork, Lists
  <2>2. tl \in Seq(Vlans \ Foreign) /\ v \in Vlans \ Foreign /\ Rng(todo[t]) = {v} \cup Rng(tl)
    BY <1>4, <2>1, HeadAndTail DEF V
  <2> QED
    BY <2>1, <2>2, Appended
<1> HIDE DEF tl, nw, v
<1>8. /\ todo' \in [Threads -> Seq(Vlans \ Foreign)] /\ new' \in [Threads -> Seq(Vlans \ Foreign)]
      /\ todo'[t] = tl /\ new'[t] = nw /\ pc'[t] = "eval"
  BY <1>2, <1>3, <1>7 DEF TypesOK
<1>9. ~lost => Kept(nb, feed[t], q, nw)
  BY <1>2, <1>5, <1>6 DEF AtWork, Kept
<1>10. Rng(call[t].vlans) \subseteq Rng(tl) \cup Rng(nw) \cup Supported(feed[t][q])
  BY <1>2, <1>4, <1>6, <1>7 DEF AtWork
<1>11. AtWork(vnetAware, nb, feed[t], call[t], tl, nw, lost)
  BY <1>2, <1>4, <1>6, <1>9, <1>10 DEF AtWork
<1>12. CallInv(t)'
  BY <1>1, <1>2, <1>3, <1>4, <1>8, <1>11 DEF CallInv, Working
<1>13. "eval" \in Pcs
  BY DEF Pcs, Working
<1> QED
  BY <1>1, <1>2, <1>3, <1>8, <1>12, <1>13, HolderSteps DEF ServerOK, TypesOK, Working

\* _validate_orphan_on_ensure raises.
LEMMA RefusedOrphan ==
  ASSUME NetInv, NEW t \in Threads, OrphanFound(t)
  PROVE  NetInv'
<1>1. /\ pc[t] \in {"eval", "place", "remove"} /\ pc' = [pc EXCEPT ![t] = "error"]
      /\ lock' = lock /\ vnetAware' = vnetAware /\ nb' = nb /\ UNCHANGED <<local, seen>>
  BY DEF OrphanFound, Goes, config, server
<1> QED
  BY <1>1, Ends

\* A PVID of a peer: the AttributeError.
LEMMA RefusedPvidOfPeer ==
  ASSUME NetInv, NEW t \in Threads, ReassignOfPeer(t)
  PROVE  NetInv'
<1>1. /\ pc[t] \in {"eval", "place", "remove"} /\ pc' = [pc EXCEPT ![t] = "error"]
      /\ lock' = lock /\ vnetAware' = vnetAware /\ nb' = nb /\ UNCHANGED <<local, seen>>
  BY DEF ReassignOfPeer, Reassigning, Goes, config, server
<1> QED
  BY <1>1, Ends

\* There is no VLAN left for a PVID.
LEMMA RefusedNoVlan ==
  ASSUME NetInv, NEW t \in Threads, NoVlanLeft(t)
  PROVE  NetInv'
<1>1. /\ pc[t] \in {"eval", "place", "remove"} /\ pc' = [pc EXCEPT ![t] = "error"]
      /\ lock' = lock /\ vnetAware' = vnetAware /\ nb' = nb /\ UNCHANGED <<local, seen>>
  BY DEF NoVlanLeft, Reassigning, Goes, config, server
<1> QED
  BY <1>1, Ends

\* All VLANs are on the bridge.
LEMMA NothingToAdd ==
  ASSUME NetInv, NEW t \in Threads, NothingNew(t)
  PROVE  NetInv'
<1> DEFINE q == call[t].nb
<1>1. /\ pc[t] = "eval" /\ todo[t] = <<>> /\ new[t] = <<>> /\ pc' = [pc EXCEPT ![t] = "ok"]
      /\ lock' = lock /\ vnetAware' = vnetAware /\ nb' = nb /\ UNCHANGED <<local, seen>>
  BY DEF NothingNew, Goes, config, server
<1>2. pc[t] \in Working
  BY <1>1 DEF Working
<1>3. /\ CallInv(t) /\ AtWork(vnetAware, nb, feed[t], call[t], todo[t], new[t], lost)
      /\ call[t] \in Requests /\ q \in Ids
  BY <1>2, WorkingFacts
<1>4. call[t].op = "ensure" /\ feed[t][q].adpts = nb[q].adpts
  BY <1>1, <1>3 DEF CallInv
<1>5. Alike(feed[t][q], nb[q])
  BY <1>3 DEF AtWork, Follows
<1>6. Rng(call[t].vlans) \subseteq Supported(feed[t][q])
  BY <1>1, <1>3, <1>4 DEF AtWork, Rng
<1>7. Rng(call[t].vlans) \cap Foreign = {}
  BY <1>3, RequestTyped
<1>8. Done(call[t], nb[q])
  BY <1>4, <1>5, <1>6, <1>7 DEF Done, Supported, Alike
<1> QED
  BY <1>1, <1>8, Ends

\* The POST of a bridge whose trunk V(t) has the new PVID instead.
LEMMA PostedReassigned ==
  ASSUME NetInv, NEW t \in Threads, pc[t] \in Working \ {"eval"}, pc[t] # "attach" => Fresh(t, call[t].nb),
         V(t) \in ArbitraryPvids(Req(t)), ReassignTo(t) # 0,
         NEW w, Sound(vnetAware, w), Header(w, Req(t)),
         CarriedBy(vnetAware, w) = CarriedBy(vnetAware, Req(t)),
         ArbitraryPvids(w) = Repvids(Req(t), V(t), ReassignTo(t)),
         nb' = Posted(call[t].nb, w), pc' = [pc EXCEPT ![t] = After(t)],
         lock' = lock, vnetAware' = vnetAware, UNCHANGED <<local, seen>>
  PROVE  NetInv'
<1> DEFINE q == call[t].nb
           arb == ReassignTo(t)
<1>1. pc[t] \in Working
  OBVIOUS
<1>2. /\ TypesOK /\ AtWork(vnetAware, nb, feed[t], call[t], todo[t], new[t], lost)
      /\ call[t] \in Requests /\ q \in Ids /\ vnetAware \in BOOLEAN
  BY <1>1, WorkingFacts
<1>3. FreeOn(vnetAware, Req(t), arb) /\ arb \notin UsedOn(feed[t]) /\ arb \notin Rng(call[t].vlans)
  BY <1>1, ReassignIsFree
<1>4. CarriedBy(vnetAware, Req(t)) = Tagged(Req(t).adpts) /\ Sound(vnetAware, Req(t))
  BY <1>2, SettledCarries DEF AtWork, Req
<1>5. V(t) # arb
  BY <1>3 DEF FreeOn, AllVlans
<1>6. V(t) \notin CarriedBy(vnetAware, w) /\ V(t) \notin ArbitraryPvids(w)
  BY <1>4, <1>5, PvidsAreUnused DEF Repvids
<1>7. After(t) \in {"get", "ok"} /\ (After(t) = "ok" => call[t].op = "remove")
  BY <1>2, RequestTyped DEF After
<1>8. After(t) = "ok" => Done(call[t], nb'[q])
  <2> SUFFICES ASSUME After(t) = "ok" PROVE Done(call[t], Posted(q, w)[q])
    OBVIOUS
  <2>1. /\ ArbitraryPvids(Posted(q, w)[q]) = ArbitraryPvids(w)
        /\ Supported(Posted(q, w)[q]) = {w.pvid} \cup w.prim \cup CarriedBy(vnetAware, w)
        /\ Posted(q, w)[q].pvid = w.pvid /\ Posted(q, w)[q].prim = w.prim
    BY <1>2, PostedSound, PostedIs DEF TypesOK, Sound, Stored
  <2>2. V(t) \in Supported(Posted(q, w)[q]) => V(t) \in {Posted(q, w)[q].pvid} \cup Posted(q, w)[q].prim
    BY <1>6, <2>1
  <2> QED
    BY <1>1, <1>6, <1>7, <2>1, <2>2, RemovalDone
<1>9. {arb} \cap UsedOn(feed[t]) = {}
  BY <1>3
<1>10. ArbitraryPvids(w) \subseteq ArbitraryPvids(Req(t)) \cup {arb}
  BY DEF Repvids
<1>11. /\ CarriedBy(vnetAware, w) \subseteq Tagged(Req(t).adpts) \cup Rng(new[t])
       /\ Tagged(Req(t).adpts) \ Rng(call[t].vlans) \subseteq CarriedBy(vnetAware, w)
  BY <1>4
<1> HIDE DEF q, arb
<1> QED
  BY <1>1, <1>7, <1>8, <1>9, <1>10, <1>11, OwnPost DEF q

\* _reassign_arbitrary_vid of NetworkBridgerTA.
LEMMA ReassignedTA ==
  ASSUME NetInv, NEW t \in Threads, ReassignTA(t)
  PROVE  NetInv'
<1> DEFINE q == call[t].nb
           w == Repvid(Req(t), V(t), ReassignTo(t))
<1>1. /\ pc[t] \in {"place", "remove"} /\ ~vnetAware /\ V(t) \in ArbitraryPvids(Req(t))
      /\ UNCHANGED <<local, seen>>
  BY DEF ReassignTA, Reassigning
<1>2. pc[t] \in Working \ {"eval"} /\ pc[t] # "attach"
  BY <1>1 DEF Working
<1>3. CASE ~Fresh(t, q)
  <2>1. /\ nb' = nb /\ pc' = [pc EXCEPT ![t] = "get"] /\ lock' = lock /\ vnetAware' = vnetAware
    BY <1>3 DEF ReassignTA, Goes, config
  <2> QED
    BY <1>1, <2>1, Ends
<1>4. CASE Fresh(t, q) /\ ReassignTo(t) = 0
  <2>1. /\ nb' = nb /\ pc' = [pc EXCEPT ![t] = "error"] /\ lock' = lock /\ vnetAware' = vnetAware
    BY <1>4 DEF ReassignTA, Goes, config
  <2> QED
    BY <1>1, <2>1, Ends
<1>5. CASE Fresh(t, q) /\ ReassignTo(t) # 0
  <2>1. /\ nb' = Posted(q, w) /\ pc' = [pc EXCEPT ![t] = After(t)] /\ lock' = lock /\ vnetAware' = vnetAware
    BY <1>5 DEF ReassignTA, Goes, config
  <2>2. FreeOn(vnetAware, Req(t), ReassignTo(t)) /\ Sound(vnetAware, Req(t))
    BY <1>2, <1>5, ReassignIsFree, WorkingFacts DEF AtWork, Req
  <2>3. /\ Sound(vnetAware, w) /\ Header(w, Req(t))
        /\ CarriedBy(vnetAware, w) = CarriedBy(vnetAware, Req(t))
        /\ ArbitraryPvids(w) = Repvids(Req(t), V(t), ReassignTo(t))
    BY <1>1, <2>2, Repvided DEF Repvids
  <2> HIDE DEF w
  <2> QED
    BY <1>1, <1>2, <1>5, <2>1, <2>3, PostedReassigned
<1> QED
  BY <1>3, <1>4, <1>5

\* The second update of _reassign_arbitrary_vid of NetworkBridgerVNET.
LEMMA Reattached ==
  ASSUME NetInv, NEW t \in Threads, Attach(t)
  PROVE  NetInv'
<1> DEFINE q == call[t].nb
           w == Attached(Req(t), V(t), ReassignTo(t))
<1>1. pc[t] = "attach" /\ pc[t] \in Working \ {"eval"} /\ UNCHANGED local /\ had' = had /\ lost' = lost
  BY DEF Attach, Working
<1>2. /\ TypesOK /\ ServerOK /\ CallInv(t) /\ pc[t] # "idle" /\ call[t] \in Requests
      /\ AtWork(vnetAware, nb, feed[t], call[t], todo[t], new[t], lost)
  BY <1>1, WorkingFacts
<1>3. CASE Fresh(t, q)
  <2>1. /\ nb' = Posted(q, w) /\ pc' = [pc EXCEPT ![t] = After(t)] /\ lock' = lock /\ vnetAware' = vnetAware
        /\ UNCHANGED seen
    BY <1>1, <1>3 DEF Attach, Goes, config, seen
  <2>2. vnetAware /\ V(t) \in ArbitraryPvids(Req(t)) /\ ReassignTo(t) # 0
    <3>1. /\ vnetAware /\ Head(todo[t]) \in ArbitraryPvids(feed[t][q])
          /\ NewArbitraryVid(UsedOn(feed[t]) \cup Rng(call[t].vlans) \cup Orphans) # 0
      BY <1>1, <1>2 DEF CallInv
    <3>2. UsedOn(feed[t]) \cup Rng(call[t].vlans) \cup Orphans = UsedOn(feed[t]) \cup Others(t)
      BY DEF Others
    <3> QED
      BY <3>1, <3>2 DEF V, Req, ReassignTo
  <2>3. FreeOn(vnetAware, Req(t), ReassignTo(t)) /\ Sound(vnetAware, Req(t))
    BY <1>1, <1>2, <2>2, ReassignIsFree DEF AtWork, Req
  <2>4. /\ Sound(vnetAware, w) /\ Header(w, Req(t))
        /\ CarriedBy(vnetAware, w) = CarriedBy(vnetAware, Req(t))
        /\ ArbitraryPvids(w) = Repvids(Req(t), V(t), ReassignTo(t))
    <3> DEFINE b == Req(t)
               v == V(t)
               arb == ReassignTo(t)
    <3>0. vnetAware
      BY <2>2
    <3>1. Sound(vnetAware, b)
      BY <2>3
    <3>2. v \in ArbitraryPvids(b)
      BY <2>2
    <3>3. FreeOn(vnetAware, b, arb)
      BY <2>3
    <3> HIDE DEF b, v, arb
    <3>4. /\ Sound(vnetAware, Attached(b, v, arb)) /\ Header(Attached(b, v, arb), b)
          /\ CarriedBy(vnetAware, Attached(b, v, arb)) = CarriedBy(vnetAware, b)
          /\ ArbitraryPvids(Attached(b, v, arb)) = Repvids(b, v, arb)
      BY <3>0, <3>1, <3>2, <3>3, AttachedIs
    <3> QED
      BY <3>4 DEF b, v, arb
  <2> HIDE DEF w
  <2> QED
    BY <1>1, <2>1, <2>2, <2>4, PostedReassigned
<1>4. CASE ~Fresh(t, q)
  <2>1. /\ nb' = nb /\ pc' = [pc EXCEPT ![t] = "get"] /\ lock' = lock /\ vnetAware' = vnetAware /\ torn' = TRUE
        /\ call' = call /\ feed' = feed /\ todo' = todo /\ new' = new
    BY <1>1, <1>4 DEF Attach, Goes, config, server, local
  <2>2. pc'[t] = "get"
    BY <1>2, <2>1 DEF TypesOK
  <2>3. CallInv(t)'
    BY <2>1, <2>2 DEF CallInv, Working
  <2>4. "get" \in Pcs
    BY DEF Pcs
  <2> QED
    BY <1>1, <1>2, <2>1, <2>3, <2>4, HolderSteps DEF ServerOK, TypesOK
<1> QED
  BY <1>3, <1>4

\* _remove_vlan_from_nb_synch, called by itself.
LEMMA RemovedBySynch ==
  ASSUME NetInv, NEW t \in Threads, RemoveSynch(t)
  PROVE  NetInv'
<1> DEFINE q == call[t].nb
           kind == RemoveKind(Req(t), V(t), call[t].failIfPvid)
           w == RemoveVlan(Req(t), V(t))
<1>1. pc[t] = "remove" /\ kind # "reassign" /\ UNCHANGED <<local, seen>> /\ pc[t] \in Working
  BY DEF RemoveSynch, Working
<1>2. /\ TypesOK /\ ServerOK /\ CallInv(t) /\ pc[t] # "idle" /\ call[t] \in Requests /\ q \in Ids
      /\ AtWork(vnetAware, nb, feed[t], call[t], todo[t], new[t], lost) /\ vnetAware \in BOOLEAN
      /\ \A b \in Ids : nb[b] \in BridgeType
  BY <1>1, WorkingFacts
<1>3. call[t].op = "remove" /\ Req(t).adpts = nb[q].adpts /\ Alike(Req(t), nb[q])
  BY <1>1, <1>2 DEF CallInv, AtWork, Follows, Req
<1>4. V(t) \in Vlans \ Foreign /\ Rng(call[t].vlans) = {V(t)}
  <2>1. todo[t] = call[t].vlans /\ Len(call[t].vlans) = 1 /\ call[t].vlans \in Seq(Vlans \ Foreign)
    BY <1>2, <1>3, RequestTyped DEF AtWork
  <2> QED
    BY <2>1 DEF Rng, V
<1>5. V(t) \notin ArbitraryPvids(Req(t))
  BY <1>1 DEF RemoveKind
<1>6. CASE kind = "fail"
  <2>1. nb' = nb /\ pc' = [pc EXCEPT ![t] = "error"] /\ lock' = lock /\ vnetAware' = vnetAware
    BY <1>6 DEF RemoveSynch, Goes, config
  <2> QED
    BY <1>1, <2>1, Ends
<1>7. CASE kind = "nothing"
  <2>1. nb' = nb /\ pc' = [pc EXCEPT ![t] = "ok"] /\ lock' = lock /\ vnetAware' = vnetAware
    BY <1>7 DEF RemoveSynch, Goes, config
  <2>2. \/ V(t) \notin Supported(Req(t))
        \/ Req(t).pvid = V(t)
        \/ V(t) \in Req(t).prim
        \/ Req(t).adpts = <<>>
    BY <1>7 DEF RemoveKind
  <2>3. V(t) \notin ArbitraryPvids(nb[q])
    BY <1>3, <1>5 DEF ArbitraryPvids
  <2>4. Req(t).adpts = <<>> => Tagged(nb[q].adpts) = {}
    BY <1>3 DEF Tagged, Rng
  <2>5. V(t) \in Supported(nb[q]) => V(t) \in {nb[q].pvid} \cup nb[q].prim
    BY <1>3, <1>4, <2>2, <2>4 DEF Supported, Alike
  <2>6. Done(call[t], nb[q])
    BY <1>1, <1>3, <2>3, <2>5, RemovalDone
  <2> QED
    BY <1>1, <2>1, <2>6, Ends
<1>8. CASE kind = "remove" /\ ~Fresh(t, q)
  <2>1. nb' = nb /\ pc' = [pc EXCEPT ![t] = "get"] /\ lock' = lock /\ vnetAware' = vnetAware
    BY <1>8 DEF RemoveSynch, Goes, config
  <2> QED
    BY <1>1, <2>1, Ends
<1>9. CASE kind = "remove" /\ Fresh(t, q)
  <2>1. /\ nb' = Posted(q, w) /\ pc' = [pc EXCEPT ![t] = "ok"] /\ lock' = lock /\ vnetAware' = vnetAware
    BY <1>9 DEF RemoveSynch, Goes, config
  <2>2. V(t) \in Tagged(Req(t).adpts) /\ Req(t).pvid # V(t) /\ V(t) \notin Req(t).prim
    BY <1>9 DEF RemoveKind, Supported
  <2>3. Sound(vnetAware, Req(t)) /\ Settled(vnetAware, Req(t))
    BY <1>2 DEF AtWork, Req
  <2>4. /\ Sound(vnetAware, w) /\ Header(w, Req(t))
        /\ CarriedBy(vnetAware, w) = CarriedBy(vnetAware, Req(t)) \ {V(t)}
        /\ ArbitraryPvids(w) \subseteq ArbitraryPvids(Req(t))
    BY <1>2, <2>2, <2>3, RemovedVlan
  <2>5. CarriedBy(vnetAware, Req(t)) = Tagged(Req(t).adpts)
    BY <1>2, <2>3, SettledCarries
  <2> HIDE DEF w
  <2>6. /\ ArbitraryPvids(Posted(q, w)[q]) = ArbitraryPvids(w)
        /\ Supported(Posted(q, w)[q]) = {w.pvid} \cup w.prim \cup CarriedBy(vnetAware, w)
    BY <1>2, <2>4, PostedSound DEF TypesOK
  <2>7. V(t) \notin ArbitraryPvids(nb'[q]) /\ V(t) \notin Supported(nb'[q])
    BY <1>5, <2>1, <2>2, <2>4, <2>6 DEF Header
  <2>8. Done(call[t], nb'[q])
    BY <1>1, <1>3, <2>7, RemovalDone
  <2>9. /\ {} \cap UsedOn(feed[t]) = {} /\ ArbitraryPvids(w) \subseteq ArbitraryPvids(Req(t)) \cup {}
        /\ CarriedBy(vnetAware, w) \subseteq Tagged(Req(t).adpts) \cup Rng(new[t])
        /\ Tagged(Req(t).adpts) \ Rng(call[t].vlans) \subseteq CarriedBy(vnetAware, w)
    BY <1>4, <2>4, <2>5
  <2> HIDE DEF q, kind
  <2> QED
    BY <1>1, <1>9, <2>1, <2>4, <2>8, <2>9, OwnPost DEF q
<1>10. kind \in {"fail", "nothing", "remove"}
  BY <1>1 DEF RemoveKind
<1> QED
  BY <1>6, <1>7, <1>8, <1>9, <1>10

\* _add_vlans_to_nb and the update that ends a call.
LEMMA Updated ==
  ASSUME NetInv, NEW t \in Threads, Update(t)
  PROVE  NetInv'
<1> DEFINE q == call[t].nb
           added == AddVlansToNb(t)
           w == added.b
<1>1. pc[t] = "eval" /\ todo[t] = <<>> /\ pc[t] \in Working /\ UNCHANGED <<local, seen>>
  BY DEF Update, Working
<1>2. /\ TypesOK /\ CallInv(t) /\ call[t] \in Requests /\ q \in Ids /\ vnetAware \in BOOLEAN
      /\ AtWork(vnetAware, nb, feed[t], call[t], todo[t], new[t], lost)
      /\ feed[t] \in [Ids -> BridgeType] /\ \A b \in Ids : nb[b] \in BridgeType
  BY <1>1, WorkingFacts
<1>3. CASE added.failed \/ ~Fresh(t, q)
  <2>1. /\ nb' = nb /\ lock' = lock /\ vnetAware' = vnetAware
        /\ pc' = [pc EXCEPT ![t] = "get"] \/ pc' = [pc EXCEPT ![t] = "error"]
    BY <1>3 DEF Update, Goes, config
  <2> QED
    BY <1>1, <2>1, Ends
<1>4. CASE ~added.failed /\ Fresh(t, q)
  <2>1. nb' = Posted(q, w) /\ pc' = [pc EXCEPT ![t] = "ok"] /\ lock' = lock /\ vnetAware' = vnetAware
    BY <1>4 DEF Update, Goes, config
  <2>2. CanAdd(t)
    <3>1. /\ Sound(vnetAware, Req(t)) /\ Settled(vnetAware, Req(t))
          /\ OneEach(new[t]) /\ Rng(new[t]) \cap AllVlans(Req(t)) = {}
      BY <1>2 DEF AtWork, Lists, Req
    <3>2. new[t] \in Seq(Vlans)
      BY <1>2 DEF TypesOK
    <3> QED
      BY <1>2, <3>1, <3>2 DEF CanAdd, OneEach
  <2>3. AccOK(t, Len(new[t]), added)
    BY <2>2, AllAdded
  <2>4. News(t, Len(new[t])) = Rng(new[t])
    <3>1. new[t] \in Seq(Vlans)
      BY <2>2 DEF CanAdd
    <3>2. DOMAIN new[t] = 1 .. Len(new[t])
      BY <3>1
    <3> QED
      BY <3>2 DEF News, Rng
  <2>5. /\ Sound(vnetAware, w) /\ Header(w, Req(t))
        /\ CarriedBy(vnetAware, w) = CarriedBy(vnetAware, Req(t)) \cup Rng(new[t])
        /\ ArbitraryPvids(w) \subseteq ArbitraryPvids(Req(t)) \cup added.arbs
        /\ added.arbs \cap UsedOn(feed[t]) = {}
    BY <1>4, <2>3, <2>4 DEF AccOK
  <2>6. CarriedBy(vnetAware, Req(t)) = Tagged(Req(t).adpts)
    BY <1>2, SettledCarries DEF AtWork, Req
  <2> DEFINE arbs == added.arbs
  <2> HIDE DEF w, added, arbs
  <2>7. Supported(Posted(q, w)[q]) = {w.pvid} \cup w.prim \cup CarriedBy(vnetAware, w)
    BY <1>2, <2>5, PostedSound DEF TypesOK
  <2>8. call[t].op = "ensure"
    BY <1>1, <1>2 DEF CallInv
  <2>9. Rng(call[t].vlans) \subseteq Rng(new[t]) \cup Supported(Req(t))
    BY <1>1, <1>2, <2>8 DEF AtWork, Rng, Req
  <2>10. Done(call[t], nb'[q])
    BY <2>1, <2>5, <2>6, <2>7, <2>8, <2>9 DEF Done, Supported, Header
  <2>11. /\ CarriedBy(vnetAware, w) \subseteq Tagged(Req(t).adpts) \cup Rng(new[t])
         /\ Tagged(Req(t).adpts) \ Rng(call[t].vlans) \subseteq CarriedBy(vnetAware, w)
         /\ ArbitraryPvids(w) \subseteq ArbitraryPvids(Req(t)) \cup arbs /\ arbs \cap UsedOn(feed[t]) = {}
    BY <2>5, <2>6 DEF arbs
  <2> HIDE DEF q
  <2> QED
    BY <1>1, <1>4, <2>1, <2>5, <2>10, <2>11, OwnPost DEF q
<1> QED
  BY <1>3, <1>4

\* A bridge of the feed with a later etag.
Newer(b) == [b EXCEPT !.ver = @ + 1]

\* A later etag changes nothing else.
LEMMA NewerIs ==
  ASSUME NEW va, NEW b \in BridgeType
  PROVE  /\ Newer(b) \in BridgeType /\ Newer(b).ver = b.ver + 1
         /\ Newer(b).pvid = b.pvid /\ Newer(b).prim = b.prim /\ Newer(b).adpts = b.adpts
         /\ Supported(Newer(b)) = Supported(b) /\ ArbitraryPvids(Newer(b)) = ArbitraryPvids(b)
         /\ AllVlans(Newer(b)) = AllVlans(b)
         /\ Sound(va, b) => Sound(va, Newer(b))
         /\ Settled(va, b) => Settled(va, Newer(b))
<1> DEFINE c == Newer(b)
<1>1. /\ c \in BridgeType /\ c.ver = b.ver + 1 /\ c.pvid = b.pvid /\ c.prim = b.prim /\ c.adpts = b.adpts
      /\ c.peer = b.peer /\ c.failover = b.failover /\ c.lb = b.lb
  BY DEF Newer, BridgeType
<1> HIDE DEF c
<1>2. Supported(c) = Supported(b) /\ ArbitraryPvids(c) = ArbitraryPvids(b)
  BY <1>1 DEF Supported, ArbitraryPvids
<1>3. AllVlans(c) = AllVlans(b)
  BY <1>2 DEF AllVlans
<1>4. \A g : Fits(va, b, g) => Fits(va, c, g)
  BY <1>1 DEF Fits
<1>5. Sound(va, b) => Sound(va, c)
  BY <1>1, <1>4 DEF Sound
<1>6. Settled(va, b) => Settled(va, c)
  BY <1>1 DEF Settled
<1> QED
  BY <1>1, <1>2, <1>3, <1>5, <1>6 DEF c

\* The first update of _reassign_arbitrary_vid of NetworkBridgerVNET: what is missing on
\* the server is in the feed.
LEMMA ReassignedVNET ==
  ASSUME NetInv, NEW t \in Threads, ReassignVNET(t)
  PROVE  NetInv'
<1> DEFINE q == call[t].nb
           v == V(t)
           f == feed[t]
           w == Detached(Req(t), v)
           f2 == [f EXCEPT ![q] = Newer(f[q])]
<1>1. /\ pc[t] \in {"place", "remove"} /\ v \in ArbitraryPvids(Req(t)) /\ ReassignTo(t) # 0
      /\ call' = call /\ todo' = todo /\ new' = new /\ had' = had /\ torn' = torn /\ lost' = lost
      /\ vnetAware' = vnetAware /\ lock' = lock
  <2>1. /\ pc[t] \in {"place", "remove"} /\ v \in ArbitraryPvids(Req(t)) /\ ReassignTo(t) # 0
        /\ UNCHANGED <<call, todo, new, seen>>
    BY DEF ReassignVNET, Reassigning
  <2>2. UNCHANGED <<config, lock, calls, touches>>
    BY DEF ReassignVNET, Goes
  <2> QED
    BY <2>1, <2>2 DEF seen, config
<1>2. pc[t] \in Working \ {"eval", "attach"} /\ pc[t] # "idle"
  BY <1>1 DEF Working
<1>3. /\ TypesOK /\ ServerOK /\ CallInv(t) /\ call[t] \in Requests /\ q \in Ids /\ vnetAware \in BOOLEAN
      /\ AtWork(vnetAware, nb, f, call[t], todo[t], new[t], lost)
      /\ f \in [Ids -> BridgeType] /\ nb \in [Ids -> BridgeType] /\ f[q] \in BridgeType
  BY <1>2, WorkingFacts DEF TypesOK
<1>4. CASE ~Fresh(t, q)
  <2>1. /\ nb' = nb /\ feed' = feed /\ pc' = [pc EXCEPT ![t] = "get"]
    BY <1>4 DEF ReassignVNET, Goes
  <2> QED
    BY <1>1, <2>1, Ends DEF local, seen
<1>5. CASE Fresh(t, q)
  <2>1. /\ nb' = Posted(q, w) /\ feed' = [feed EXCEPT ![t][q].ver = @ + 1] /\ pc' = [pc EXCEPT ![t] = "attach"]
    BY <1>5 DEF ReassignVNET, Goes
  <2>2. feed' = [feed EXCEPT ![t] = f2]
    BY <1>3, <2>1 DEF TypesOK, Newer
  <2>3. f2 \in [Ids -> BridgeType] /\ f2[q] = Newer(f[q]) /\ \A b \in Ids : b # q => f2[b] = f[b]
    BY <1>3, NewerIs
  <2> HIDE DEF f2
  <2>4. feed' \in [Threads -> [Ids -> BridgeType]] /\ feed'[t] = f2 /\ pc'[t] = "attach"
    BY <1>3, <2>1, <2>2, <2>3 DEF TypesOK
  <2>5. vnetAware
    BY DEF ReassignVNET
  <2>6. /\ Sound(vnetAware, w) /\ Header(w, Req(t))
        /\ CarriedBy(vnetAware, w) \subseteq CarriedBy(vnetAware, Req(t))
        /\ ArbitraryPvids(w) \subseteq ArbitraryPvids(Req(t))
    <3>1. Sound(vnetAware, Req(t))
      BY <1>3 DEF AtWork, Req
    <3>2. ArbitraryPvids(w) = ArbitraryPvids(Req(t)) \ {v}
      BY <1>1, <2>5, <3>1, DetachedIs
    <3>3. Sound(vnetAware, w) /\ Header(w, Req(t)) /\ CarriedBy(vnetAware, w) \subseteq CarriedBy(vnetAware, Req(t))
      BY <1>1, <2>5, <3>1, DetachedIs
    <3> QED
      BY <3>2, <3>3
  <2>7. CarriedBy(vnetAware, Req(t)) = Tagged(Req(t).adpts)
    BY <1>3, SettledCarries DEF AtWork, Req
  <2> HIDE DEF w
  <2>8. w \in BridgeType /\ w.pvid = f[q].pvid /\ w.prim = f[q].prim
    BY <2>6 DEF Sound, Header, Req
  <2>9. /\ nb' \in [Ids -> BridgeType] /\ ServerSound(vnetAware, nb') /\ \A a \in Ids : a # q => nb'[a] = nb[a]
        /\ nb'[q].pvid = w.pvid /\ nb'[q].prim = w.prim /\ nb'[q].ver = nb[q].ver + 1
    BY <1>3, <2>1, <2>6, <2>8, OwnPostSound, PostedIs DEF ServerOK, Stored
  <2>10. ~lost' => ServerClear(nb')
    <3> SUFFICES ASSUME ~lost PROVE ServerClear(Posted(q, w))
      BY <1>1, <2>1
    <3>1. ServerClear(nb) /\ Follows(nb, f, q) /\ Kept(nb, f, q, new[t])
      BY <1>3 DEF ServerOK, AtWork
    <3>2. /\ ArbitraryPvids(w) \subseteq ArbitraryPvids(f[q]) \cup {} /\ {} \cap UsedOn(f) = {}
          /\ CarriedBy(vnetAware, w) \subseteq Tagged(f[q].adpts) \cup Rng(new[t])
      BY <2>6, <2>7 DEF Req
    <3> HIDE DEF f, q
    <3> QED
      BY <1>3, <2>6, <2>8, <3>1, <3>2, OwnPostClear
  <2>11. f[q].ver = nb[q].ver /\ f[q] = nb[q] /\ f[q].ver \in Nat
    BY <1>2, <1>3, <1>5, Typed DEF Fresh, CallInv, Working
  <2>12. \A b \in Ids : /\ AllVlans(f2[b]) = AllVlans(f[b]) /\ Supported(f2[b]) = Supported(f[b])
                        /\ ArbitraryPvids(f2[b]) = ArbitraryPvids(f[b])
    BY <1>3, <2>3, NewerIs
  <2>13. UsedOn(f2) = UsedOn(f)
    BY <2>12 DEF UsedOn
  <2>14. Follows(nb', f2, q)
    <3>1. f2[q].ver = nb'[q].ver /\ f2[q].ver \in Nat /\ f2[q].pvid = f[q].pvid /\ f2[q].prim = f[q].prim
      BY <1>3, <2>3, <2>9, <2>11, NewerIs
    <3>2. Follows(nb, f, q)
      BY <1>3 DEF AtWork
    <3>3. Alike(f2[q], nb'[q])
      BY <2>8, <2>9, <3>1 DEF Alike
    <3>4. ASSUME NEW b \in Ids
          PROVE  f2[b].ver <= nb'[b].ver /\ Alike(f2[b], nb'[b]) /\ (b # q => (f2[b].ver = nb'[b].ver => f2[b] = nb'[b]))
      <4>1. CASE b = q
        BY <3>1, <3>3, <4>1
      <4>2. CASE b # q
        BY <2>3, <2>9, <3>2, <4>2 DEF Follows
      <4> QED
        BY <4>1, <4>2
    <3> QED
      BY <3>4 DEF Follows
  <2>15. ~lost => Kept(nb', f2, q, new[t])
    <3> SUFFICES ASSUME ~lost PROVE Kept(nb', f2, q, new[t])
      OBVIOUS
    <3>1. Kept(nb, f, q, new[t])
      BY <1>3 DEF AtWork
    <3> SUFFICES ASSUME NEW b \in Ids \ {q}
                 PROVE  /\ ArbitraryPvids(nb'[b]) \subseteq ArbitraryPvids(f2[b])
                        /\ Tagged(nb'[b].adpts) \subseteq Tagged(f2[b].adpts)
                        /\ ArbitraryPvids(f2[b]) \cap Rng(new[t]) = {}
                        /\ Clear(nb'[b], f2[q]) /\ Clear(f2[q], nb'[b])
      BY DEF Kept
    <3>2. nb'[b] = nb[b] /\ f2[b] = f[b]
      BY <2>3, <2>9
    <3>3. Clear(nb[b], f[q]) /\ Clear(f[q], nb[b])
      BY <3>1 DEF Kept
    <3>4. Clear(nb[b], f2[q]) /\ Clear(f2[q], nb[b])
      BY <1>3, <2>12, <3>3 DEF Clear
    <3> QED
      BY <3>1, <3>2, <3>4 DEF Kept
  <2>16. AtWork(vnetAware, nb', f2, call[t], todo[t], new[t], lost)
    <3>1. Sound(vnetAware, f2[q]) /\ Settled(vnetAware, f2[q])
      BY <1>3, <2>3, NewerIs DEF AtWork
    <3>2. Lists(Rng(call[t].vlans), todo[t], new[t], f2[q])
      BY <1>3, <2>12 DEF AtWork, Lists
    <3>3. call[t].op = "ensure" => Rng(call[t].vlans) \subseteq Rng(todo[t]) \cup Rng(new[t]) \cup Supported(f2[q])
      BY <1>3, <2>12 DEF AtWork
    <3>4. call[t].op = "remove" => todo[t] = call[t].vlans /\ new[t] = <<>>
      BY <1>3 DEF AtWork
    <3> QED
      BY <2>14, <2>15, <3>1, <3>2, <3>3, <3>4 DEF AtWork
  <2>17. v \in ArbitraryPvids(f2[q]) /\ NewArbitraryVid(UsedOn(f2) \cup Rng(call[t].vlans) \cup Orphans) # 0
    <3>1. UsedOn(f) \cup Rng(call[t].vlans) \cup Orphans = UsedOn(f) \cup Others(t)
      BY DEF Others
    <3>2. v \in ArbitraryPvids(f[q])
      BY <1>1 DEF Req
    <3> QED
      BY <1>1, <1>3, <2>12, <2>13, <3>1, <3>2 DEF ReassignTo
  <2>18. ~torn => \A b \in Ids : Kernel(had[b], call[t]) \subseteq
           IF b = q THEN Supported(f2[b]) ELSE Supported(nb'[b])
    <3>1. ~torn => \A b \in Ids : Kernel(had[b], call[t]) \subseteq Supported(nb[b])
      BY <1>2, <1>3 DEF CallInv
    <3> QED
      BY <2>9, <2>11, <2>12, <3>1
  <2>19. todo[t] # <<>>
    BY <1>1, <1>3 DEF CallInv
  <2>20. CallInv(t)'
    <3>1. Head(todo'[t]) \in ArbitraryPvids(feed'[t][call'[t].nb])
      BY <1>1, <2>4, <2>17 DEF V
    <3> HIDE DEF v
    <3> QED
      BY <1>1, <2>4, <2>5, <2>16, <2>17, <2>18, <2>19, <3>1 DEF CallInv, Working
  <2>21. "attach" \in Pcs
    BY DEF Pcs, Working
  <2> QED
    BY <1>1, <1>2, <1>3, <2>1, <2>4, <2>9, <2>10, <2>20, <2>21, HolderSteps DEF TypesOK
<1> QED
  BY <1>4, <1>5

\* A VLAN that is to be taken off a bridge flows through one of its trunks.
LEMMA RemovesCarried ==
  ASSUME NEW b, NEW v, NEW fail, RemoveKind(b, v, fail) = "remove"
  PROVE  v \in Tagged(b.adpts) /\ v # b.pvid /\ v \notin b.prim /\ v \notin ArbitraryPvids(b)
  BY DEF RemoveKind, Supported

\* The call continues with a VLAN taken off the bridge p of its feed.
LEMMA Emptied ==
  ASSUME NetInv, NEW t \in Threads, pc[t] = "eval", todo[t] # <<>>, V(t) \notin Supported(Req(t)),
         NEW p \in Ids \ {call[t].nb}, NEW w \in BridgeType, NEW to \in {"place", "error"},
         pc' = [pc EXCEPT ![t] = to], lock' = lock, vnetAware' = vnetAware,
         call' = call, todo' = todo, new' = new, had' = had, torn' = torn,
         lost' \in BOOLEAN, lost => lost',
         feed' = [feed EXCEPT ![t][p] = w],
         nb' \in [Ids -> BridgeType], ServerSound(vnetAware, nb'), ~lost' => ServerClear(nb'),
         \A b \in Ids : b # p => nb'[b] = nb[b],
         w.ver < nb'[p].ver, Alike(w, nb'[p]),
         Supported(nb[p]) \ {V(t)} \subseteq Supported(nb'[p]),
         ~lost' => /\ ArbitraryPvids(nb'[p]) \subseteq ArbitraryPvids(w) /\ Tagged(nb'[p].adpts) \subseteq Tagged(w.adpts)
                   /\ ArbitraryPvids(w) \subseteq ArbitraryPvids(feed[t][p])
                   /\ Supported(nb'[p]) \subseteq Supported(nb[p])
                   /\ ArbitraryPvids(nb'[p]) \subseteq ArbitraryPvids(nb[p])
  PROVE  NetInv'
<1> DEFINE q == call[t].nb
           f == feed[t]
           f2 == [f EXCEPT ![p] = w]
<1>1. pc[t] \in Working /\ pc[t] # "idle"
  BY DEF Working
<1>2. /\ TypesOK /\ CallInv(t) /\ call[t] \in Requests /\ q \in Ids
      /\ AtWork(vnetAware, nb, f, call[t], todo[t], new[t], lost) /\ f \in [Ids -> BridgeType]
      /\ \A b \in Ids : nb[b] \in BridgeType
  BY <1>1, WorkingFacts
<1>3. feed' = [feed EXCEPT ![t] = f2]
  BY <1>2 DEF TypesOK
<1>4. f2 \in [Ids -> BridgeType] /\ f2[p] = w /\ \A b \in Ids : b # p => f2[b] = f[b]
  BY <1>2
<1> HIDE DEF f2
<1>5. /\ feed' \in [Threads -> [Ids -> BridgeType]] /\ feed'[t] = f2 /\ pc'[t] = to
  BY <1>2, <1>3, <1>4 DEF TypesOK
<1>6. f2[q] = f[q] /\ nb'[q] = nb[q]
  BY <1>2, <1>4
<1>7. Follows(nb', f2, q)
  <2>1. Follows(nb, f, q)
    BY <1>2 DEF AtWork
  <2>2. w.ver \in Nat /\ nb'[p].ver \in Nat
    <3>1. nb'[p] \in BridgeType
      OBVIOUS
    <3> QED
      BY <3>1, Typed
  <2>3. w.ver <= nb'[p].ver /\ w.ver # nb'[p].ver
    BY <2>2
  <2>4. ASSUME NEW b \in Ids
        PROVE  f2[b].ver <= nb'[b].ver /\ Alike(f2[b], nb'[b]) /\ (b # q => (f2[b].ver = nb'[b].ver => f2[b] = nb'[b]))
    <3>1. CASE b = p
      BY <1>4, <2>3, <3>1
    <3>2. CASE b # p
      BY <1>4, <2>1, <3>2 DEF Follows
    <3> QED
      BY <3>1, <3>2
  <2> QED
    BY <2>4 DEF Follows
<1>8. ~lost' => Kept(nb', f2, q, new[t])
  <2> SUFFICES ASSUME ~lost', NEW b \in Ids \ {q}
               PROVE  /\ ArbitraryPvids(nb'[b]) \subseteq ArbitraryPvids(f2[b])
                      /\ Tagged(nb'[b].adpts) \subseteq Tagged(f2[b].adpts)
                      /\ ArbitraryPvids(f2[b]) \cap Rng(new[t]) = {}
                      /\ Clear(nb'[b], f[q]) /\ Clear(f[q], nb'[b])
    BY <1>6 DEF Kept
  <2>1. Kept(nb, f, q, new[t])
    BY <1>2 DEF AtWork
  <2>2. CASE b # p
    BY <1>4, <2>1, <2>2 DEF Kept
  <2>3. CASE b = p
    <3>1. Clear(nb[p], f[q]) /\ Clear(f[q], nb[p]) /\ ArbitraryPvids(f[p]) \cap Rng(new[t]) = {}
      BY <2>1 DEF Kept
    <3>2. Clear(nb'[p], f[q])
      BY <3>1, ClearShrinks
    <3>3. Clear(f[q], nb'[p])
      BY <3>1, ClearShrinks
    <3> QED
      BY <1>4, <2>3, <3>1, <3>2, <3>3
  <2> QED
    BY <2>2, <2>3
<1>9. AtWork(vnetAware, nb', f2, call[t], todo[t], new[t], lost')
  BY <1>2, <1>6, <1>7, <1>8 DEF AtWork
<1>10. ~torn => \A b \in Ids : Kernel(had[b], call[t]) \subseteq Supported(nb'[b])
  <2> SUFFICES ASSUME ~torn, NEW b \in Ids PROVE Kernel(had[b], call[t]) \subseteq Supported(nb'[b])
    OBVIOUS
  <2>1. Kernel(had[b], call[t]) \subseteq Supported(nb[b])
    BY <1>2 DEF CallInv
  <2>2. V(t) \in Rng(call[t].vlans)
    <3>1. todo[t] \in Seq(Rng(call[t].vlans)) /\ OneEach(todo[t])
      BY <1>2 DEF AtWork, Lists
    <3> QED
      BY <3>1, HeadAndTail DEF V
  <2>3. V(t) \notin Kernel(had[b], call[t])
    BY <2>2 DEF Kernel
  <2> QED
    BY <2>1, <2>3
<1>11. call[t].op = "ensure"
  BY <1>2 DEF CallInv
<1>12. f[q].adpts = nb[q].adpts /\ (f[q].ver = nb[q].ver => f[q] = nb[q])
  BY <1>2 DEF CallInv
<1>13. CallInv(t)'
  <2>1. Head(todo'[t]) \notin Supported(feed'[t][call'[t].nb])
    BY <1>5, <1>6 DEF V, Req
  <2> QED
    BY <1>5, <1>6, <1>9, <1>10, <1>11, <1>12, <2>1 DEF CallInv, Working
<1>14. to \in Pcs /\ to # "idle"
  BY DEF Pcs, Working
<1>15. todo' \in [Threads -> Seq(Vlans \ Foreign)] /\ new' \in [Threads -> Seq(Vlans \ Foreign)] /\ torn' \in BOOLEAN
  BY <1>2 DEF TypesOK
<1> QED
  BY <1>1, <1>5, <1>13, <1>14, <1>15, HolderSteps

\* The removal from a peer, with or without the current etag.
LEMMA TakenFromPeer ==
  ASSUME NetInv, NEW t \in Threads, TakeFromPeer(t)
  PROVE  NetInv'
<1> DEFINE q == call[t].nb
           f == feed[t]
           v == V(t)
<1>1. /\ pc[t] = "eval" /\ todo[t] # <<>> /\ v \notin Supported(Req(t)) /\ pc[t] \in Working
  BY DEF TakeFromPeer, Evaluating, Working
<1>2. /\ TypesOK /\ ServerOK /\ CallInv(t) /\ call[t] \in Requests /\ q \in Ids /\ vnetAware \in BOOLEAN
      /\ AtWork(vnetAware, nb, f, call[t], todo[t], new[t], lost) /\ f \in [Ids -> BridgeType]
      /\ \A b \in Ids : f[b] \in BridgeType /\ nb[b] \in BridgeType
  BY <1>1, WorkingFacts
<1>3. PICK p \in Peers(t, v) :
       LET kind == RemoveKind(f[p], v, TRUE)
           w == RemoveVlan(f[p], v)
       IN CASE kind = "fail" -> Goes(t, "error") /\ UNCHANGED <<server, local, seen>>
            [] kind = "remove" ->
                 /\ feed' = [feed EXCEPT ![t][p] = w]
                 /\ nb' = IF Fresh(t, p) THEN Posted(p, w) ELSE nb
                 /\ IF Fresh(t, p) \/ v \notin Supported(w) THEN Goes(t, "place") ELSE Goes(t, "error")
                 /\ lost' = (lost \/ ~Fresh(t, p))
                 /\ UNCHANGED <<vnets, call, todo, new, had, torn>>
            [] OTHER -> Goes(t, "place") /\ UNCHANGED <<server, local, seen>>
  BY DEF TakeFromPeer
<1> DEFINE kind == RemoveKind(f[p], v, TRUE)
           w == RemoveVlan(f[p], v)
<1>4. p \in Ids \ {q}
  BY DEF Peers
<1>5. CASE kind = "fail"
  <2>1. Goes(t, "error") /\ UNCHANGED <<server, local, seen>>
    BY <1>3, <1>5
  <2>2. pc' = [pc EXCEPT ![t] = "error"] /\ lock' = lock /\ vnetAware' = vnetAware /\ nb' = nb
    BY <2>1 DEF Goes, config, server
  <2> QED
    BY <1>1, <2>1, <2>2, Ends
<1>6. CASE kind \notin {"fail", "remove"}
  <2>1. Goes(t, "place") /\ UNCHANGED <<server, local, seen>>
    BY <1>3, <1>6
  <2>2. pc' = [pc EXCEPT ![t] = "place"] /\ lock' = lock /\ vnetAware' = vnetAware /\ nb' = nb
    BY <2>1 DEF Goes, config, server
  <2>3. Evaluating(t)
    BY <1>1 DEF Evaluating
  <2> QED
    BY <1>1, <2>1, <2>2, <2>3, FoundNowhere
<1>7. CASE kind = "remove"
  <2>1. /\ feed' = [feed EXCEPT ![t][p] = w]
        /\ nb' = IF Fresh(t, p) THEN Posted(p, w) ELSE nb
        /\ IF Fresh(t, p) \/ v \notin Supported(w) THEN Goes(t, "place") ELSE Goes(t, "error")
        /\ lost' = (lost \/ ~Fresh(t, p))
        /\ UNCHANGED <<vnets, call, todo, new, had, torn>>
    BY <1>3, <1>7
  <2>2. PICK to \in {"place", "error"} : Goes(t, to)
    BY <2>1
  <2>3. pc' = [pc EXCEPT ![t] = to] /\ lock' = lock /\ vnetAware' = vnetAware
    BY <2>2 DEF Goes, config
  <2>4. v \in Tagged(f[p].adpts) /\ v # f[p].pvid /\ v \notin f[p].prim
    BY <1>7, RemovesCarried
  <2>5. w \in BridgeType /\ Header(w, f[p])
    BY <1>2, <1>4, <2>4, RemoveVlanIs
  <2>6. lost' \in BOOLEAN /\ (lost => lost')
    BY <1>2, <2>1 DEF TypesOK
  <2>7. Follows(nb, f, q)
    BY <1>2 DEF AtWork
  <2>8. nb[p].ver \in Nat /\ w.ver = f[p].ver /\ w.ver \in Nat
    BY <1>2, <1>4, <2>5, Typed DEF Header
  <2>9. Alike(w, nb[p])
    BY <1>4, <2>5, <2>7 DEF Alike, Header, Follows
  <2>10. CASE ~Fresh(t, p)
    <3>1. nb' = nb /\ lost'
      BY <2>1, <2>10
    <3>2. w.ver < nb'[p].ver
      BY <1>4, <2>7, <2>8, <2>10, <3>1 DEF Follows, Fresh
    <3>3. nb' \in [Ids -> BridgeType] /\ ServerSound(vnetAware, nb')
      BY <1>2, <3>1 DEF TypesOK, ServerOK
    <3>4. call' = call /\ todo' = todo /\ new' = new /\ had' = had /\ torn' = torn
      BY <2>1
    <3>5. /\ Alike(w, nb'[p]) /\ Supported(nb[p]) \ {V(t)} \subseteq Supported(nb'[p])
          /\ \A b \in Ids : b # p => nb'[b] = nb[b]
      BY <2>9, <3>1
    <3>6. feed' = [feed EXCEPT ![t][p] = w]
      BY <2>1
    <3> HIDE DEF w, q, f, v, kind
    <3> QED
      BY <1>1, <1>4, <2>3, <2>5, <2>6, <3>1, <3>2, <3>3, <3>4, <3>5, <3>6, Emptied DEF q, v
  <2>11. CASE Fresh(t, p)
    <3>1. nb' = Posted(p, w) /\ lost' = lost
      BY <1>2, <2>1, <2>11 DEF TypesOK
    <3>2. f[p] = nb[p]
      BY <1>4, <2>7, <2>11 DEF Follows, Fresh
    <3>3. Sound(vnetAware, f[p]) /\ Settled(vnetAware, f[p])
      BY <1>2, <1>4, <3>2 DEF ServerOK, ServerSound
    <3>4. /\ Sound(vnetAware, w)
          /\ CarriedBy(vnetAware, w) = CarriedBy(vnetAware, f[p]) \ {v}
          /\ ArbitraryPvids(w) \subseteq ArbitraryPvids(f[p])
          /\ Tagged(f[p].adpts) \ {v} \subseteq Tagged(w.adpts)
      BY <1>2, <2>4, <3>3, RemovedVlan
    <3>5. CarriedBy(vnetAware, f[p]) = Tagged(f[p].adpts)
      BY <1>2, <3>3, SettledCarries
    <3> HIDE DEF w
    <3>6. /\ nb' \in [Ids -> BridgeType] /\ ServerSound(vnetAware, nb')
          /\ \A b \in Ids : b # p => nb'[b] = nb[b]
          /\ nb'[p].ver = nb[p].ver + 1 /\ nb'[p].pvid = w.pvid /\ nb'[p].prim = w.prim
      <4>1. nb' \in [Ids -> BridgeType] /\ ServerSound(vnetAware, nb')
        BY <1>2, <1>4, <3>1, <3>4, OwnPostSound DEF ServerOK
      <4>2. nb \in [Ids -> BridgeType] /\ p \in Ids
        BY <1>2, <1>4 DEF TypesOK
      <4>3. /\ \A b \in Ids : b # p => nb'[b] = nb[b]
            /\ Stored(p, w).ver = nb[p].ver + 1 /\ Stored(p, w).pvid = w.pvid /\ Stored(p, w).prim = w.prim
        BY <1>2, <2>5, <3>1, <4>2, PostedIs
      <4> QED
        BY <3>1, <4>1, <4>3 DEF Stored
    <3>7. /\ Tagged(nb'[p].adpts) = CarriedBy(vnetAware, w)
          /\ ArbitraryPvids(nb'[p]) = ArbitraryPvids(w)
          /\ Supported(nb'[p]) = {w.pvid} \cup w.prim \cup CarriedBy(vnetAware, w)
      BY <1>2, <1>4, <3>1, <3>4, PostedSound DEF TypesOK
    <3>8. w.ver < nb'[p].ver
      BY <2>8, <2>11, <3>6 DEF Fresh
    <3>9. Alike(w, nb'[p])
      BY <3>6 DEF Alike
    <3>10. /\ Supported(nb[p]) \ {V(t)} \subseteq Supported(nb'[p])
           /\ Supported(nb'[p]) \subseteq Supported(nb[p])
           /\ ArbitraryPvids(nb'[p]) \subseteq ArbitraryPvids(nb[p])
           /\ Tagged(nb'[p].adpts) \subseteq Tagged(w.adpts)
           /\ ArbitraryPvids(nb'[p]) \subseteq ArbitraryPvids(w)
           /\ ArbitraryPvids(w) \subseteq ArbitraryPvids(f[p])
      <4>1. w.pvid = nb[p].pvid /\ w.prim = nb[p].prim
        BY <2>5, <3>2 DEF Header
      <4> QED
        BY <3>2, <3>4, <3>5, <3>7, <4>1 DEF Supported
    <3>11. ~lost' => ServerClear(nb')
      <4> SUFFICES ASSUME ~lost, NEW a \in Ids, NEW b \in Ids, a # b PROVE Clear(nb'[a], nb'[b])
        BY <3>1 DEF ServerClear
      <4>1. Clear(nb[a], nb[b])
        BY <1>2 DEF ServerOK, ServerClear
      <4>2. \A c \in Ids : Supported(nb'[c]) \subseteq Supported(nb[c]) /\ ArbitraryPvids(nb'[c]) \subseteq ArbitraryPvids(nb[c])
        BY <3>6, <3>10
      <4> QED
        BY <4>1, <4>2, ClearShrinks
    <3>12. call' = call /\ todo' = todo /\ new' = new /\ had' = had /\ torn' = torn /\ feed' = [feed EXCEPT ![t][p] = w]
      BY <2>1
    <3> HIDE DEF q, v, kind
    <3> QED
      BY <1>1, <1>4, <2>3, <2>5, <2>6, <3>6, <3>8, <3>9, <3>10, <3>11, <3>12, Emptied DEF q, v
  <2> QED
    BY <2>10, <2>11
<1> QED
  BY <1>5, <1>6, <1>7

\* Another user changes a primary adapter.
LEMMA TouchedByOthers ==
  ASSUME NetInv, NEW b \in Ids, NEW v \in Foreign, Touch(b, v)
  PROVE  NetInv'
<1> DEFINE P == IF v \in nb[b].prim THEN nb[b].prim \ {v} ELSE nb[b].prim \cup {v}
<1>1. /\ vnetAware' = vnetAware /\ lost' = lost /\ torn' = torn /\ lock' = lock /\ call' = call /\ had' = had
      /\ pc' = pc /\ feed' = feed /\ todo' = todo /\ new' = new
      /\ nb' = [nb EXCEPT ![b].prim = P, ![b].ver = @ + 1]
  BY DEF Touch, config, local, seen
<1>2. TypesOK /\ ServerOK /\ LockOK /\ CallsOK /\ vnetAware \in BOOLEAN /\ nb \in [Ids -> BridgeType] /\ v \in Vlans
  BY BridgerConstantsOK DEF NetInv, TypesOK
<1>3. nb[b] \in BridgeType /\ P \subseteq Vlans /\ P \ Foreign = nb[b].prim \ Foreign
  <2>1. nb[b] \in BridgeType
    BY <1>2
  <2> QED
    BY <1>2, <2>1, Typed
<1> HIDE DEF P
<1>4. /\ nb'[b] \in BridgeType /\ nb'[b].pvid = nb[b].pvid /\ nb'[b].prim = P /\ nb'[b].adpts = nb[b].adpts
      /\ nb'[b].peer = nb[b].peer /\ nb'[b].failover = nb[b].failover /\ nb'[b].lb = nb[b].lb
      /\ nb'[b].ver = nb[b].ver + 1
  <2> DEFINE o == nb[b]
             later == o.ver + 1
             c == [o EXCEPT !.prim = P, !.ver = later]
  <2>1. nb'[b] = c
    BY <1>1, <1>2
  <2>2. later \in Nat /\ o \in BridgeType
    BY <1>3, Typed
  <2> HIDE DEF o, later
  <2>3. /\ c \in BridgeType /\ c.pvid = o.pvid /\ c.prim = P /\ c.adpts = o.adpts
        /\ c.peer = o.peer /\ c.failover = o.failover /\ c.lb = o.lb /\ c.ver = later
    BY <1>3, <2>2 DEF BridgeType
  <2> HIDE DEF c
  <2> QED
    BY <2>1, <2>3 DEF o, later
<1>5. nb' \in [Ids -> BridgeType] /\ \A a \in Ids : a # b => nb'[a] = nb[a]
  <2>1. nb' = [nb EXCEPT ![b] = nb'[b]]
    BY <1>1, <1>2
  <2> QED
    BY <1>2, <1>4, <2>1
<1>6. ASSUME NEW a \in Ids
      PROVE  /\ nb'[a].adpts = nb[a].adpts /\ ArbitraryPvids(nb'[a]) = ArbitraryPvids(nb[a])
             /\ Supported(nb'[a]) \ Foreign = Supported(nb[a]) \ Foreign
             /\ nb'[a].pvid = nb[a].pvid /\ nb'[a].prim \ Foreign = nb[a].prim \ Foreign
             /\ nb[a].ver <= nb'[a].ver /\ (nb'[a] = nb[a] \/ nb[a].ver < nb'[a].ver)
  <2>1. nb[a] \in BridgeType /\ nb[a].ver \in Nat
    BY <1>2, Typed
  <2>2. CASE a # b
    BY <1>5, <2>1, <2>2
  <2>3. CASE a = b
    <3>1. ArbitraryPvids(nb'[b]) = ArbitraryPvids(nb[b])
      BY <1>4 DEF ArbitraryPvids
    <3>2. Supported(nb'[b]) \ Foreign = Supported(nb[b]) \ Foreign
      BY <1>3, <1>4 DEF Supported
    <3> QED
      BY <1>3, <1>4, <2>1, <2>3, <3>1, <3>2
  <2> QED
    BY <2>2, <2>3
<1>7. ServerSound(vnetAware, nb')
  <2> SUFFICES ASSUME NEW a \in Ids PROVE Sound(vnetAware, nb'[a]) /\ Settled(vnetAware, nb'[a])
    BY DEF ServerSound
  <2>1. Sound(vnetAware, nb[a]) /\ Settled(vnetAware, nb[a])
    BY <1>2 DEF ServerOK, ServerSound
  <2>2. CASE a # b
    BY <1>5, <2>1, <2>2
  <2>3. CASE a = b
    <3>1. \A g : Fits(vnetAware, nb[b], g) => Fits(vnetAware, nb'[b], g)
      BY <1>3, <1>4 DEF Fits
    <3>2. Sound(vnetAware, nb'[b])
      BY <1>4, <2>1, <2>3, <3>1 DEF Sound
    <3>3. Settled(vnetAware, nb'[b])
      BY <1>4, <2>1, <2>3 DEF Settled
    <3> QED
      BY <2>3, <3>2, <3>3
  <2> QED
    BY <2>2, <2>3
<1>8. ~lost => ServerClear(nb')
  BY <1>2, <1>6 DEF ServerOK, ServerClear, Clear
<1>9. ASSUME NEW t \in Threads, pc[t] # "idle" PROVE CallInv(t)'
  <2> DEFINE f == feed[t]
             q == call[t].nb
             r == call[t]
  <2>1. CallInv(t) /\ r \in Requests /\ q \in Ids /\ f \in [Ids -> BridgeType]
    BY <1>2, <1>9, RequestTyped DEF CallsOK, TypesOK
  <2>2. pc[t] \in Working => AtWork(vnetAware, nb', f, r, todo[t], new[t], lost)
    <3> SUFFICES ASSUME pc[t] \in Working PROVE AtWork(vnetAware, nb', f, r, todo[t], new[t], lost)
      OBVIOUS
    <3>1. AtWork(vnetAware, nb, f, r, todo[t], new[t], lost)
      BY <2>1 DEF CallInv
    <3>2. Follows(nb', f, q)
      <4> SUFFICES ASSUME NEW a \in Ids
                   PROVE  f[a].ver <= nb'[a].ver /\ Alike(f[a], nb'[a]) /\ (a # q => (f[a].ver = nb'[a].ver => f[a] = nb'[a]))
        BY DEF Follows
      <4>1. f[a].ver <= nb[a].ver /\ Alike(f[a], nb[a]) /\ (a # q => (f[a].ver = nb[a].ver => f[a] = nb[a]))
        BY <3>1 DEF AtWork, Follows
      <4>2. f[a].ver \in Nat /\ nb[a].ver \in Nat /\ nb'[a].ver \in Nat
        <5>1. f[a] \in BridgeType /\ nb[a] \in BridgeType /\ nb'[a] \in BridgeType
          BY <1>2, <1>5, <2>1
        <5> QED
          BY <5>1, Typed
      <4>3. Alike(f[a], nb'[a])
        BY <1>6, <4>1 DEF Alike
      <4> HIDE DEF f, q
      <4> QED
        BY <1>6, <4>1, <4>2, <4>3
    <3>3. ~lost => Kept(nb', f, q, new[t])
      <4> SUFFICES ASSUME ~lost, NEW a \in Ids \ {q}
                   PROVE  /\ ArbitraryPvids(nb'[a]) \subseteq ArbitraryPvids(f[a])
                          /\ Tagged(nb'[a].adpts) \subseteq Tagged(f[a].adpts)
                          /\ ArbitraryPvids(f[a]) \cap Rng(new[t]) = {}
                          /\ Clear(nb'[a], f[q]) /\ Clear(f[q], nb'[a])
        BY DEF Kept
      <4>1. Kept(nb, f, q, new[t])
        BY <3>1 DEF AtWork
      <4>2. Clear(nb[a], f[q]) /\ Clear(f[q], nb[a])
        BY <4>1 DEF Kept
      <4>3. Clear(nb'[a], f[q]) /\ Clear(f[q], nb'[a])
        BY <1>6, <4>2 DEF Clear
      <4> QED
        BY <1>6, <4>1, <4>3 DEF Kept
    <3> QED
      BY <3>1, <3>2, <3>3 DEF AtWork
  <2>3. pc[t] \in {"eval", "place", "remove"} =>
          f[q].adpts = nb'[q].adpts /\ (f[q].ver = nb'[q].ver => f[q] = nb'[q])
    <3> SUFFICES ASSUME pc[t] \in {"eval", "place", "remove"}
                 PROVE  f[q].adpts = nb'[q].adpts /\ (f[q].ver = nb'[q].ver => f[q] = nb'[q])
      OBVIOUS
    <3>1. f[q].adpts = nb[q].adpts /\ (f[q].ver = nb[q].ver => f[q] = nb[q])
      BY <2>1 DEF CallInv
    <3>2. f[q].ver <= nb[q].ver
      BY <2>1 DEF CallInv, AtWork, Follows, Working
    <3>3. f[q].ver \in Nat /\ nb[q].ver \in Nat /\ nb'[q].ver \in Nat
      <4>1. f[q] \in BridgeType /\ nb[q] \in BridgeType /\ nb'[q] \in BridgeType
        BY <1>2, <1>5, <2>1
      <4> QED
        BY <4>1, Typed
    <3>4. nb'[q].adpts = nb[q].adpts /\ (nb'[q] = nb[q] \/ nb[q].ver < nb'[q].ver)
      BY <1>6, <2>1
    <3> HIDE DEF f, q
    <3> QED
      BY <3>1, <3>2, <3>3, <3>4
  <2>4. Done(r, nb[q]) => Done(r, nb'[q])
    <3>1. Rng(r.vlans) \cap Foreign = {}
      BY <2>1, RequestTyped
    <3>2. /\ Supported(nb'[q]) \ Foreign = Supported(nb[q]) \ Foreign /\ nb'[q].pvid = nb[q].pvid
          /\ ArbitraryPvids(nb'[q]) = ArbitraryPvids(nb[q]) /\ nb'[q].prim \ Foreign = nb[q].prim \ Foreign
      BY <1>6, <2>1
    <3> HIDE DEF r, q
    <3>3. CASE r.op = "ensure"
      BY <3>1, <3>2, <3>3 DEF Done
    <3>4. CASE r.op # "ensure"
      BY <3>1, <3>2, <3>4 DEF Done, AllVlans
    <3> QED
      BY <3>3, <3>4
  <2>5. ~torn => \A a \in Ids : Kernel(had[a], r) \subseteq
          IF pc[t] = "attach" /\ a = q THEN Supported(f[a]) ELSE Supported(nb'[a])
    <3> SUFFICES ASSUME ~torn, NEW a \in Ids, ~(pc[t] = "attach" /\ a = q) PROVE Kernel(had[a], r) \subseteq Supported(nb'[a])
      BY <2>1 DEF CallInv
    <3>1. Kernel(had[a], r) \subseteq Supported(nb[a])
      BY <2>1 DEF CallInv
    <3>2. Kernel(had[a], r) \cap Foreign = {}
      BY DEF Kernel
    <3>3. Supported(nb'[a]) \ Foreign = Supported(nb[a]) \ Foreign
      BY <1>6
    <3> QED
      BY <3>1, <3>2, <3>3
  <2> QED
    BY <1>1, <2>1, <2>2, <2>3, <2>4, <2>5 DEF CallInv
<1>10. TypesOK' /\ LockOK'
  BY <1>1, <1>2, <1>5 DEF TypesOK, LockOK
<1>11. ServerOK' /\ CallsOK'
  BY <1>1, <1>7, <1>8, <1>9 DEF ServerOK, CallsOK
<1> QED
  BY <1>10, <1>11 DEF NetInv

-----------------------------------------------------------------------------
(* The theorems.                                                           *)

\* Every step of a call and of the other users keeps NetInv.
LEMMA NetKept == NetInv /\ [Next]_vars => NetInv'
<1> SUFFICES ASSUME NetInv, [Next]_vars PROVE NetInv'
  OBVIOUS
<1>1. ASSUME NEW t \in Threads, Step(t) PROVE NetInv'
  <2>1. CASE Get(t)                             BY <2>1, FeedFetched
  <2>2. CASE AlreadyThere(t)                    BY <2>2, VlanAlreadyThere
  <2>3. CASE TakeFromPeer(t)                    BY <2>3, TakenFromPeer
  <2>4. CASE NotOnPeer(t)                       BY <2>4, VlanOnNoPeer
  <2>5. CASE Place(t)                           BY <2>5, VlanPlaced
  <2>6. CASE OrphanFound(t)                     BY <2>6, RefusedOrphan
  <2>7. CASE ReassignOfPeer(t)                  BY <2>7, RefusedPvidOfPeer
  <2>8. CASE ReassignTA(t)                      BY <2>8, ReassignedTA
  <2>9. CASE NoVlanLeft(t)                      BY <2>9, RefusedNoVlan
  <2>10. CASE ReassignVNET(t)                   BY <2>10, ReassignedVNET
  <2>11. CASE Attach(t)                         BY <2>11, Reattached
  <2>12. CASE Update(t)                         BY <2>12, Updated
  <2>13. CASE NothingNew(t)                     BY <2>13, NothingToAdd
  <2>14. CASE RemoveSynch(t)                    BY <2>14, RemovedBySynch
  <2>15. CASE Return(t)                         BY <2>15, Returned
  <2> QED
    BY <1>1, <2>1, <2>2, <2>3, <2>4, <2>5, <2>6, <2>7, <2>8, <2>9, <2>10, <2>11, <2>12, <2>13, <2>14, <2>15 DEF Step
<1>2. ASSUME NEW t \in Threads, NEW r \in Requests, Call(t, r) PROVE NetInv'
  BY <1>2, StartedCall
<1>3. ASSUME NEW b \in Ids, NEW v \in Foreign, Touch(b, v) PROVE NetInv'
  BY <1>3, TouchedByOthers
<1>4. CASE UNCHANGED vars
  <2>1. /\ vnetAware' = vnetAware /\ nb' = nb /\ lock' = lock /\ pc' = pc /\ call' = call /\ feed' = feed
        /\ todo' = todo /\ new' = new /\ had' = had /\ torn' = torn /\ lost' = lost
    BY <1>4 DEF vars, config, server, local, seen
  <2>2. TypesOK' /\ LockOK' /\ ServerOK'
    BY <2>1 DEF NetInv, TypesOK, LockOK, ServerOK
  <2>3. CallsOK'
    <3> SUFFICES ASSUME NEW t \in Threads, pc[t] # "idle" PROVE CallInv(t)'
      BY <2>1 DEF CallsOK
    <3>1. CallInv(t)
      BY DEF NetInv, CallsOK
    <3> QED
      BY <2>1, <3>1 DEF CallInv
  <2> QED
    BY <2>2, <2>3 DEF NetInv
<1> QED
  BY <1>1, <1>2, <1>3, <1>4 DEF Next

\* NetInv is an invariant.
THEOREM BridgerInvariant == Spec => []NetInv
<1>1. Init => NetInv
  BY NetInitially
<1>2. NetInv /\ [Next]_vars => NetInv'
  BY NetKept
<1> QED
  BY <1>1, <1>2, PTL DEF Spec

\* tasks/network_bridger.py: for any number of threads, bridges, trunks and requests, with
\* either bridger, a call that returns has done what it is for: see ReturnedIsDone.
THEOREM CallsAreDone == Spec => []ReturnedIsDone
<1>1. NetInv => ReturnedIsDone
  <2> SUFFICES ASSUME NetInv, NEW t \in Threads, pc[t] = "ok" PROVE Done(call[t], nb[call[t].nb])
    BY DEF ReturnedIsDone, Done
  <2> QED
    BY DEF NetInv, CallsOK, CallInv
<1> QED
  BY <1>1, BridgerInvariant, PTL

\* tasks/network_bridger.py: the VLANs that a call does not name stay, also when it fails:
\* see OthersStay.
THEOREM OthersVlansStay == Spec => []OthersStay
<1>1. NetInv => OthersStay
  <2> SUFFICES ASSUME NetInv, NEW t \in Threads, pc[t] \in {"ok", "error"}, ~torn, NEW b \in Ids
               PROVE  Kernel(had[b], call[t]) \subseteq Supported(nb[b])
    BY DEF OthersStay, Kernel
  <2> QED
    BY DEF NetInv, CallsOK, CallInv
<1> QED
  BY <1>1, BridgerInvariant, PTL

\* How full a trunk is, in the terms of the proofs.
LEMMA LoadIsFill ==
  ASSUME vnetAware \in BOOLEAN, NEW g
  PROVE  Load(g) = Fill(vnetAware, g)
<1>1. CASE vnetAware
  BY <1>1 DEF Load, Fill
<1>2. CASE ~vnetAware
  BY <1>2 DEF Load, Fill
<1> QED
  BY <1>1, <1>2

\* tasks/network_bridger.py: trunks stay within _MAX_VLANS_PER_VEA and alike on both SEAs,
\* and the arbitrary PVIDs stay unused on the whole switch: see BridgesAreSound.
THEOREM BridgesStaySound == Spec => []BridgesAreSound
<1>1. NetInv => BridgesAreSound
  <2> SUFFICES ASSUME NetInv PROVE ArbitraryIsUnused /\ WellBuilt
    BY DEF BridgesAreSound
  <2>1. vnetAware \in BOOLEAN /\ ServerSound(vnetAware, nb) /\ (~lost => ServerClear(nb))
    BY DEF NetInv, TypesOK, ServerOK
  <2>2. ArbitraryIsUnused
    <3> SUFFICES ASSUME ~lost, NEW a \in Ids, NEW b \in Ids, NEW i \in DOMAIN nb[a].adpts
                 PROVE  /\ nb[a].adpts[i].pvid \notin (Supported(nb[b]) \ Foreign) \cup Orphans
                        /\ \A j \in DOMAIN nb[b].adpts : nb[b].adpts[j].pvid = nb[a].adpts[i].pvid => a = b /\ i = j
      BY DEF ArbitraryIsUnused
    <3> DEFINE v == nb[a].adpts[i].pvid
    <3>1. v \in ArbitraryPvids(nb[a])
      BY PvidMembers
    <3>2. Sound(vnetAware, nb[a]) /\ Settled(vnetAware, nb[a])
      BY <2>1 DEF ServerSound
    <3>3. v \notin CarriedBy(vnetAware, nb[a]) /\ v # nb[a].pvid /\ v \notin nb[a].prim \ Foreign /\ v \notin Orphans
      BY <3>1, <3>2, PvidsAreUnused
    <3>4. CASE a = b
      <4>1. Tagged(nb[a].adpts) = CarriedBy(vnetAware, nb[a])
        BY <2>1, <3>2, SettledCarries
      <4>2. v \notin Supported(nb[a]) \ Foreign
        BY <3>3, <4>1 DEF Supported
      <4>3. \A j \in DOMAIN nb[a].adpts : nb[a].adpts[j].pvid = v => i = j
        BY <3>2 DEF Sound, Apart
      <4> QED
        BY <3>3, <3>4, <4>2, <4>3
    <3>5. CASE a # b
      <4>1. Clear(nb[a], nb[b])
        BY <2>1, <3>5 DEF ServerClear
      <4>2. v \notin (Supported(nb[b]) \ Foreign) \cup ArbitraryPvids(nb[b])
        BY <3>1, <4>1 DEF Clear
      <4>3. \A j \in DOMAIN nb[b].adpts : nb[b].adpts[j].pvid # v
        BY <4>2, PvidMembers
      <4> QED
        BY <3>3, <4>2, <4>3
    <3> QED
      BY <3>4, <3>5
  <2>3. WellBuilt
    <3> SUFFICES ASSUME NEW b \in Ids
                 PROVE  /\ nb[b].failover /\ ~vnetAware => nb[b].peer = nb[b].adpts
                        /\ \A i \in DOMAIN nb[b].adpts :
                             Load(nb[b].adpts[i]) <= MaxVlans /\ (nb[b].adpts[i].tagged = {} => nb[b].lb)
      BY DEF WellBuilt, Rng
    <3>1. Sound(vnetAware, nb[b]) /\ Settled(vnetAware, nb[b])
      BY <2>1 DEF ServerSound
    <3>2. \A i \in DOMAIN nb[b].adpts : Carries(vnetAware, nb[b].adpts[i]) = nb[b].adpts[i].tagged
      BY <2>1, <3>1, SettledCarries
    <3>3. \A i \in DOMAIN nb[b].adpts :
            Fill(vnetAware, nb[b].adpts[i]) <= MaxVlans /\ (Carries(vnetAware, nb[b].adpts[i]) = {} => nb[b].lb)
      BY <3>1 DEF Sound, Fits
    <3>4. \A i \in DOMAIN nb[b].adpts : Load(nb[b].adpts[i]) = Fill(vnetAware, nb[b].adpts[i])
      BY <2>1, LoadIsFill
    <3> QED
      BY <3>1, <3>2, <3>3, <3>4 DEF Sound
  <2> QED
    BY <2>2, <2>3
<1> QED
  BY <1>1, BridgerInvariant, PTL
=============================================================================
