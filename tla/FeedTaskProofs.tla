--------------------------- MODULE FeedTaskProofs ---------------------------
(***************************************************************************)
(* Proofs about FeedTask for every feed, every set of Subtasks, labels and *)
(* flags, every number of tries and every order in which a consumer adds   *)
(* Subtasks and the WrapperTasks run.                                      *)
(***************************************************************************)
EXTENDS FeedTask, TLAPS

\* No Subtask is twice in a sequence.
Distinct(s) == \A m, n \in DOMAIN s : s[m] = s[n] => m = n

\* Building: no WrapperTask has a Subtask twice; one that has a Subtask which is neither
\* specific nor accepted got it from an add_subtask that another WrapperTask refused, and
\* still refuses.
AcceptedFits == ToSet(added) \subseteq Subtasks \ Specific
CommonFits == sealed => common.tasks = added /\ Distinct(added)
TasksFit ==
  ~sealed =>
    /\ feed \subseteq Uuids
    /\ \A u \in feed : Distinct(tx[u].tasks) /\ OnceInOrder(added, tx[u].tasks)
    /\ \A u \in feed : \A k \in ToSet(tx[u].tasks) \ (ToSet(added) \cup Specific) : \E v \in feed : Refuses(tx[v], k)

\* Running: in each try, what the Subtasks before pos have done, and nothing else.
Before(u) == 1 .. (pos[u] - 1)
TryFits(u) ==
  /\ OnceInOrder(local[u], tx[u].tasks)
  /\ \A i \in DOMAIN local[u] : \E n \in Before(u) : tx[u].tasks[n] = local[u][i]
  /\ update[u] <=> \E k \in ToSet(local[u]) : FlagUpdate[k]
  /\ \A n \in Before(u) :
       Provides[tx[u].tasks[n]] # NoLabel => provided[u][Provides[tx[u].tasks[n]]] = try_[u]

WorkerFits(u) ==
  /\ pc[u] \in {"idle", "begin"} => local[u] = <<>> /\ ~update[u]
  /\ pc[u] # "done" => posted[u] = None
  /\ pc[u] # "idle" => ~sealed /\ u \in feed
  /\ pc[u] \in {"bind", "exec"} => pos[u] \in 1 .. Len(tx[u].tasks) /\ TryFits(u)
  /\ pc[u] = "exec" /\ TakesProvided[task(u)] => kwargs[task(u)] \in Uuids
  /\ pc[u] = "finish" => pos[u] = Len(tx[u].tasks) + 1 /\ TryFits(u)
  /\ pc[u] = "done" =>
       /\ posted[u] # None => posted[u] = local[u] /\ OnceInOrder(local[u], tx[u].tasks)
       /\ posted[u] # None <=> \E k \in ToSet(local[u]) : FlagUpdate[k]
       /\ \A k \in ToSet(tx[u].tasks) : Provides[k] # NoLabel => provided[u][Provides[k]] = try_[u]

FeedInv ==
  /\ TypeOK
  /\ AcceptedFits /\ CommonFits /\ TasksFit
  /\ main = "build" => \A u \in Uuids : pc[u] = "idle"
  /\ \A u \in Uuids : WorkerFits(u)

\* Nothing is once and in order in anything.
LEMMA OrderOfEmpty == ASSUME NEW t PROVE OnceInOrder(<<>>, t)
BY DEF OnceInOrder

\* A sequence without repetitions is once and in order in itself.
LEMMA OrderOfSelf ==
  ASSUME NEW s \in Seq(Subtasks), Distinct(s)
  PROVE  OnceInOrder(s, s)
BY DEF OnceInOrder, Distinct

\* One more Subtask at the end of the sequence, of both or of the longer one alone.
LEMMA SubtaskAppended ==
  ASSUME NEW s \in Seq(Subtasks), NEW k \in Subtasks
  PROVE  /\ Append(s, k) \in Seq(Subtasks) /\ DOMAIN Append(s, k) = DOMAIN s \cup {Len(s) + 1}
         /\ \A n \in DOMAIN s : Append(s, k)[n] = s[n] /\ n < Len(s) + 1
         /\ Append(s, k)[Len(s) + 1] = k
         /\ ToSet(Append(s, k)) = ToSet(s) \cup {k}
<1>1. /\ Append(s, k) \in Seq(Subtasks) /\ DOMAIN Append(s, k) = DOMAIN s \cup {Len(s) + 1}
      /\ \A n \in DOMAIN s : Append(s, k)[n] = s[n] /\ n < Len(s) + 1
      /\ Append(s, k)[Len(s) + 1] = k
  OBVIOUS
<1> DEFINE a == Append(s, k)
           l == Len(s) + 1
<1>2. ToSet(a) = ToSet(s) \cup {k}
  <2>1. DOMAIN a = DOMAIN s \cup {l} /\ a[l] = k /\ \A n \in DOMAIN s : a[n] = s[n]
    BY <1>1
  <2> HIDE DEF a, l
  <2> QED
    BY <2>1 DEF ToSet
<1> QED
  BY <1>1, <1>2

\* A new Subtask is no repetition.
LEMMA StillDistinct ==
  ASSUME NEW s \in Seq(Subtasks), NEW k \in Subtasks, k \notin ToSet(s), Distinct(s)
  PROVE  Distinct(Append(s, k))
<1>1. \A n \in DOMAIN s : s[n] # k
  BY DEF ToSet
<1> QED
  BY <1>1, SubtaskAppended DEF Distinct

\* A Subtask that t does not have yet, added to t alone or to s and to t, keeps the order.
LEMMA OrderKept ==
  ASSUME NEW s \in Seq(Subtasks), NEW t \in Seq(Subtasks), NEW k \in Subtasks, k \notin ToSet(t), OnceInOrder(s, t)
  PROVE  OnceInOrder(s, Append(t, k)) /\ OnceInOrder(Append(s, k), Append(t, k))
<1> DEFINE a == Append(s, k)
           b == Append(t, k)
           x == Len(s) + 1
           y == Len(t) + 1
<1>1. /\ DOMAIN a = DOMAIN s \cup {x} /\ a[x] = k /\ x \in Nat /\ \A n \in DOMAIN s : a[n] = s[n] /\ n < x /\ n \in Nat
      /\ DOMAIN b = DOMAIN t \cup {y} /\ b[y] = k /\ y \in Nat /\ \A n \in DOMAIN t : b[n] = t[n] /\ n < y /\ n \in Nat
  BY SubtaskAppended
<1>2. (\A n \in DOMAIN t : t[n] # k) /\ \A i \in DOMAIN s : s[i] # k
  BY DEF ToSet, OnceInOrder
<1> HIDE DEF a, b, x, y
<1>3. (\A i \in DOMAIN s : \E n \in DOMAIN b : b[n] = s[i]) /\ \A i \in DOMAIN a : \E n \in DOMAIN b : b[n] = a[i]
  BY <1>1 DEF OnceInOrder
<1>4. \A i, j \in DOMAIN s, m, n \in DOMAIN b : b[m] = s[i] /\ b[n] = s[j] => (i < j <=> m < n)
  BY <1>1, <1>2 DEF OnceInOrder
<1>5. ASSUME NEW i \in DOMAIN a, NEW j \in DOMAIN a, NEW m \in DOMAIN b, NEW n \in DOMAIN b, b[m] = a[i], b[n] = a[j]
      PROVE  i < j <=> m < n
  <2>1. (i = x <=> m = y) /\ (j = x <=> n = y)
    BY <1>1, <1>2, <1>5
  <2>2. CASE i = x \/ j = x
    BY <1>1, <2>1, <2>2
  <2>3. CASE i # x /\ j # x
    BY <1>1, <1>4, <1>5, <2>1, <2>3
  <2> QED
    BY <2>2, <2>3
<1>6. OnceInOrder(s, b)
  BY <1>3, <1>4 DEF OnceInOrder
<1>7. OnceInOrder(a, b)
  BY <1>3, <1>5 DEF OnceInOrder
<1> QED
  BY <1>6, <1>7 DEF a, b

\* A change is noted at the end of those made before it.
LEMMA OrderNext ==
  ASSUME NEW s \in Seq(Subtasks), NEW t \in Seq(Subtasks), Distinct(t), OnceInOrder(s, t), NEW p \in DOMAIN t,
         \A i \in DOMAIN s : \E n \in 1 .. (p - 1) : t[n] = s[i]
  PROVE  /\ OnceInOrder(Append(s, t[p]), t)
         /\ \A i \in DOMAIN Append(s, t[p]) : \E n \in 1 .. p : t[n] = Append(s, t[p])[i]
<1> DEFINE a == Append(s, t[p])
           x == Len(s) + 1
<1>1. /\ DOMAIN a = DOMAIN s \cup {x} /\ a[x] = t[p] /\ x \in Nat /\ \A n \in DOMAIN s : a[n] = s[n] /\ n < x /\ n \in Nat
      /\ p \in Nat /\ p >= 1 /\ \A n \in DOMAIN t : n \in Nat
  BY SubtaskAppended
<1>2. \A n \in 1 .. (p - 1) : n \in DOMAIN t /\ n < p
  OBVIOUS
<1> HIDE DEF a, x
<1>3. \A i \in DOMAIN s, m \in DOMAIN t : t[m] = s[i] => m < p
  BY <1>2 DEF Distinct
<1>4. \A i \in DOMAIN a : \E n \in 1 .. p : t[n] = a[i]
  BY <1>1, <1>2
<1>5. \A i \in DOMAIN a : \E n \in DOMAIN t : t[n] = a[i]
  BY <1>1 DEF OnceInOrder
<1>6. ASSUME NEW i \in DOMAIN a, NEW j \in DOMAIN a, NEW m \in DOMAIN t, NEW n \in DOMAIN t, t[m] = a[i], t[n] = a[j]
      PROVE  i < j <=> m < n
  <2>1. (i = x => m = p) /\ (j = x => n = p) /\ (i # x => i \in DOMAIN s /\ m < p) /\ (j # x => j \in DOMAIN s /\ n < p)
    BY <1>1, <1>3, <1>6 DEF Distinct
  <2>2. CASE i = x \/ j = x
    BY <1>1, <2>1, <2>2
  <2>3. CASE i # x /\ j # x
    BY <1>1, <1>6, <2>1, <2>3, SMTT(30) DEF OnceInOrder
  <2> QED
    BY <2>2, <2>3
<1>7. OnceInOrder(a, t)
  BY <1>5, <1>6 DEF OnceInOrder
<1> QED
  BY <1>4, <1>7 DEF a

\* A FeedTask that has been made satisfies FeedInv, with a feed or with a FeedGetter.
LEMMA FeedInitial == Init => FeedInv
<1> SUFFICES ASSUME Init PROVE FeedInv
  OBVIOUS
<1>1. TypeOK
  <2>1. 1 \in 1 .. Tries /\ 0 \in 0 .. Tries
    BY FeedConstantsOK
  <2>2. Nothing \in [Labels -> 0 .. Tries] /\ Empty \in Task
    BY <2>1 DEF Nothing, Task, Empty
  <2>3. \A u \in Uuids : [owner |-> u, values |-> Nothing] \in [owner : Uuids \cup {None}, values : [Labels -> 0 .. Tries]]
    BY <2>2
  <2>4. saw \in [Uuids -> [owner : Uuids \cup {None}, values : [Labels -> 0 .. Tries]]]
    BY <2>3 DEF Init
  <2>5. /\ feed \in (SUBSET Uuids) \cup {None} /\ common \in Task /\ tx \in [Uuids -> Task] /\ sealed \in BOOLEAN
        /\ added \in Seq(Subtasks) /\ kwargs \in [Subtasks -> Uuids \cup {None}]
    BY <2>2 DEF Init
  <2>6. /\ pos \in [Uuids -> Nat] /\ try_ \in [Uuids -> 1 .. Tries] /\ local \in [Uuids -> Seq(Subtasks)]
        /\ update \in [Uuids -> BOOLEAN] /\ provided \in [Uuids -> [Labels -> 0 .. Tries]]
        /\ posted \in [Uuids -> Seq(Subtasks) \cup {None}]
    BY <2>1, <2>2 DEF Init
  <2> QED
    BY <2>4, <2>5, <2>6 DEF Init, TypeOK
<1>2. AcceptedFits /\ CommonFits /\ TasksFit
  BY DEF Init, AcceptedFits, CommonFits, TasksFit, Empty, Distinct, ToSet
<1>3. \A u \in Uuids : WorkerFits(u)
  BY DEF Init, WorkerFits
<1> QED
  BY <1>1, <1>2, <1>3 DEF Init, FeedInv

\* WrapperTask.add_subtask: the Subtask comes last, and what was refused stays refused.
LEMMA SubtaskAdded ==
  ASSUME NEW w \in Task, NEW k \in Subtasks
  PROVE  /\ WithSubtask(w, k) \in Task
         /\ WithSubtask(w, k).tasks = Append(w.tasks, k)
         /\ ToSet(WithSubtask(w, k).tasks) = ToSet(w.tasks) \cup {k}
         /\ \A l \in Subtasks : Refuses(w, l) => Refuses(WithSubtask(w, k), l)
<1>1. w.tasks \in Seq(Subtasks) /\ w.keys \in SUBSET Labels
  BY DEF Task
<1>2. Append(w.tasks, k) \in Seq(Subtasks) /\ ToSet(Append(w.tasks, k)) = ToSet(w.tasks) \cup {k}
  BY <1>1, SubtaskAppended
<1>3. ({Provides[k]} \ {NoLabel}) \subseteq Labels
  BY FeedConstantsOK
<1>4. WithSubtask(w, k).tasks = Append(w.tasks, k) /\ WithSubtask(w, k).keys = w.keys \cup ({Provides[k]} \ {NoLabel})
  BY DEF WithSubtask
<1>5. WithSubtask(w, k) \in Task
  BY <1>1, <1>2, <1>3 DEF WithSubtask, Task
<1> QED
  BY <1>2, <1>4, <1>5 DEF Refuses

\* While the FeedTask is built nothing runs.
LEMMA BuildStep ==
  ASSUME FeedInv, main = "build", UNCHANGED running, main' \in {"build", "empty_feed", "post_exec"},
         TypeOK', (AcceptedFits /\ CommonFits /\ TasksFit)'
  PROVE  FeedInv'
<1>1. \A u \in Uuids : pc[u] = "idle" /\ pc'[u] = "idle"
  BY DEF FeedInv, running
<1>2. \A u \in Uuids : WorkerFits(u)'
  BY <1>1 DEF FeedInv, WorkerFits, running
<1> QED
  BY <1>1, <1>2 DEF FeedInv

\* FeedTask.add_subtask before replication.
LEMMA AddCommonFits ==
  ASSUME FeedInv, NEW k \in Subtasks \ Specific, AddCommon(k)
  PROVE  FeedInv'
<1>1. added \in Seq(Subtasks) /\ common \in Task
  BY DEF FeedInv, TypeOK
<1>2. common' \in Task /\ common'.tasks = Append(common.tasks, k)
  BY <1>1, SubtaskAdded DEF AddCommon
<1>3. added' = Append(added, k) /\ added' \in Seq(Subtasks) /\ ToSet(added') = ToSet(added) \cup {k}
  BY <1>1, SubtaskAppended DEF AddCommon
<1>4. Distinct(added')
  BY <1>1, <1>3, StillDistinct DEF AddCommon, FeedInv, CommonFits
<1>5. TypeOK'
  BY <1>2, <1>3 DEF FeedInv, TypeOK, AddCommon, running
<1>6. (AcceptedFits /\ CommonFits /\ TasksFit)'
  BY <1>2, <1>3, <1>4 DEF AddCommon, FeedInv, AcceptedFits, CommonFits, TasksFit
<1> QED
  BY <1>5, <1>6, BuildStep DEF AddCommon

\* FeedTask.add_subtask after replication: that nobody refuses the label means that no
\* WrapperTask has the Subtask from an earlier call that was refused.
LEMMA AddToAllFits ==
  ASSUME FeedInv, NEW k \in Subtasks \ Specific, AddToAll(k)
  PROVE  FeedInv'
<1>1. /\ added \in Seq(Subtasks) /\ ~sealed /\ feed \subseteq Uuids /\ feed' = feed /\ ~sealed'
      /\ tx \in [Uuids -> Task] /\ \A u \in Uuids : tx[u] \in Task /\ tx[u].tasks \in Seq(Subtasks)
  BY DEF FeedInv, TypeOK, TasksFit, AddToAll, Task
<1>2. \A u \in feed : k \notin ToSet(tx[u].tasks)
  BY DEF FeedInv, TasksFit, AddToAll
<1>3. added' = Append(added, k) /\ added' \in Seq(Subtasks) /\ ToSet(added') = ToSet(added) \cup {k}
  BY <1>1, SubtaskAppended DEF AddToAll
<1>4. \A u \in feed : tx'[u] = WithSubtask(tx[u], k)
  BY <1>1 DEF AddToAll, ToEach
<1>5. /\ tx' \in [Uuids -> Task]
      /\ \A u \in feed : /\ tx'[u].tasks = Append(tx[u].tasks, k) /\ ToSet(tx'[u].tasks) = ToSet(tx[u].tasks) \cup {k}
                         /\ \A l \in Subtasks : Refuses(tx[u], l) => Refuses(tx'[u], l)
  BY <1>1, <1>4, SubtaskAdded DEF AddToAll, ToEach
<1>6. TypeOK'
  BY <1>3, <1>5 DEF FeedInv, TypeOK, AddToAll, running
<1>7. \A u \in feed : Distinct(tx'[u].tasks) /\ OnceInOrder(added', tx'[u].tasks)
  <2> TAKE u \in feed
  <2>1. /\ tx[u].tasks \in Seq(Subtasks) /\ Distinct(tx[u].tasks) /\ OnceInOrder(added, tx[u].tasks)
        /\ k \notin ToSet(tx[u].tasks) /\ tx'[u].tasks = Append(tx[u].tasks, k)
    BY <1>1, <1>2, <1>5 DEF FeedInv, TasksFit
  <2> QED
    BY <1>1, <1>3, <2>1, StillDistinct, OrderKept
<1>8. \A u \in feed : ToSet(tx[u].tasks) \subseteq Subtasks
  BY <1>1 DEF ToSet
<1>9. \A u \in feed : \A l \in ToSet(tx'[u].tasks) \ (ToSet(added') \cup Specific) : \E v \in feed : Refuses(tx'[v], l)
  BY <1>1, <1>3, <1>5, <1>8, ZenonT(60) DEF FeedInv, TasksFit
<1>10. (AcceptedFits /\ CommonFits /\ TasksFit)'
  BY <1>1, <1>3, <1>7, <1>9 DEF FeedInv, AcceptedFits, CommonFits, TasksFit
<1> QED
  BY <1>6, <1>10, BuildStep DEF AddToAll

\* A Subtask that some of the WrapperTasks get, and that is not one of the FeedTask's.
LEMMA SomeGetFits ==
  ASSUME FeedInv, NEW k \in Subtasks, NEW some \in SUBSET feed, ~sealed, main = "build",
         \A u \in some : k \notin ToSet(tx[u].tasks),
         k \in Specific \/ \E v \in feed : Refuses(tx[v], k),
         tx' = [u \in Uuids |-> IF u \in some THEN WithSubtask(tx[u], k) ELSE tx[u]],
         UNCHANGED <<feed, common, sealed, added, main, running>>
  PROVE  FeedInv'
<1>1. /\ added \in Seq(Subtasks) /\ feed \subseteq Uuids
      /\ tx \in [Uuids -> Task] /\ \A u \in Uuids : tx[u] \in Task /\ tx[u].tasks \in Seq(Subtasks)
  BY DEF FeedInv, TypeOK, TasksFit, Task
<1>2. \A u \in feed : tx'[u] = IF u \in some THEN WithSubtask(tx[u], k) ELSE tx[u]
  BY <1>1
<1>3. /\ tx' \in [Uuids -> Task]
      /\ \A u \in some : tx'[u].tasks = Append(tx[u].tasks, k) /\ ToSet(tx'[u].tasks) = ToSet(tx[u].tasks) \cup {k}
      /\ \A u \in feed : \A l \in Subtasks : Refuses(tx[u], l) => Refuses(tx'[u], l)
  BY <1>1, <1>2, SubtaskAdded
<1>4. TypeOK'
  BY <1>3 DEF FeedInv, TypeOK, running
<1>5. \A u \in feed : Distinct(tx'[u].tasks) /\ OnceInOrder(added, tx'[u].tasks)
  <2> TAKE u \in feed
  <2>1. tx[u].tasks \in Seq(Subtasks) /\ Distinct(tx[u].tasks) /\ OnceInOrder(added, tx[u].tasks)
    BY <1>1 DEF FeedInv, TasksFit
  <2>2. CASE u \in some
    <3>1. k \notin ToSet(tx[u].tasks) /\ tx'[u].tasks = Append(tx[u].tasks, k)
      BY <1>3, <2>2
    <3> QED
      BY <1>1, <2>1, <3>1, StillDistinct, OrderKept
  <2>3. CASE u \notin some
    BY <1>2, <2>1, <2>3
  <2> QED
    BY <2>2, <2>3
<1>6. \A u \in feed : ToSet(tx[u].tasks) \subseteq Subtasks
  BY <1>1 DEF ToSet
<1>7. \A u \in feed : \A l \in ToSet(tx'[u].tasks) \ (ToSet(added) \cup Specific) : \E v \in feed : Refuses(tx'[v], l)
  <2> TAKE u \in feed
  <2> TAKE l \in ToSet(tx'[u].tasks) \ (ToSet(added) \cup Specific)
  <2>1. l \in ToSet(tx[u].tasks) \/ l = k
    BY <1>2, <1>3
  <2>2. l \in Subtasks /\ \E v \in feed : Refuses(tx[v], l)
    BY <1>6, <2>1 DEF FeedInv, TasksFit
  <2> QED
    BY <1>3, <2>2
<1>8. (AcceptedFits /\ CommonFits /\ TasksFit)'
  BY <1>1, <1>5, <1>7 DEF FeedInv, AcceptedFits, CommonFits, TasksFit
<1> QED
  BY <1>4, <1>8, BuildStep

\* .wrapper_tasks: the WrapperTasks start with the common list.
LEMMA ReplicateFits ==
  ASSUME FeedInv, sealed, Replicate, UNCHANGED <<common, added>>
  PROVE  /\ sealed' = FALSE /\ feed' \subseteq Uuids /\ tx' \in [Uuids -> Task]
         /\ (AcceptedFits /\ CommonFits /\ TasksFit)'
<1>1. PICK f \in IF feed = None THEN (SUBSET Uuids) \ {{}} ELSE {feed} :
         /\ feed' = f /\ sealed' = FALSE
         /\ tx' = [u \in Uuids |-> IF u \in f THEN [tasks |-> common.tasks, keys |-> {}] ELSE Empty]
  BY DEF Replicate
<1>2. f \subseteq Uuids
  <2>1. CASE feed = None
    BY <1>1, <2>1
  <2>2. CASE feed # None
    BY <1>1, <2>2 DEF FeedInv, TypeOK
  <2> QED
    BY <2>1, <2>2
<1>3. common \in Task /\ common.tasks \in Seq(Subtasks) /\ common.tasks = added /\ Distinct(added)
  BY DEF FeedInv, TypeOK, Task, CommonFits
<1>4. \A u \in f : tx'[u].tasks = added
  BY <1>1, <1>2, <1>3
<1>5. tx' \in [Uuids -> Task]
  BY <1>1, <1>3 DEF Task, Empty
<1>6. OnceInOrder(added, added)
  BY <1>3, OrderOfSelf
<1> QED
  BY <1>1, <1>2, <1>3, <1>4, <1>5, <1>6 DEF FeedInv, AcceptedFits, CommonFits, TasksFit

\* A step of the WrapperTask u, the others and what was built staying as they are.
Alone(u) ==
  /\ UNCHANGED <<building, main>>
  /\ \A v \in Uuids \ {u} :
       UNCHANGED <<pc[v], pos[v], try_[v], local[v], update[v], provided[v], posted[v]>>
  /\ \A k \in Subtasks : kwargs[k] \in Uuids => kwargs'[k] \in Uuids

\* Such a step keeps FeedInv if it keeps what FeedInv says of u.
LEMMA WorkerStep ==
  ASSUME FeedInv, NEW u \in Uuids, Alone(u), pc[u] # "idle", TypeOK', WorkerFits(u)'
  PROVE  FeedInv'
<1>1. main # "build"
  BY DEF FeedInv
<1>2. ASSUME NEW v \in Uuids \ {u} PROVE WorkerFits(v)'
  <2>1. UNCHANGED <<tx, sealed, feed, pc[v], pos[v], try_[v], local[v], update[v], provided[v], posted[v]>>
    BY DEF Alone, building
  <2>2. WorkerFits(v) /\ tx[v] \in Task /\ TypeOK
    BY DEF FeedInv, TypeOK
  <2>3. TryFits(v) <=> TryFits(v)'
    BY <2>1 DEF TryFits, Before
  <2>4. task(v)' = task(v) /\ (pc[v] = "exec" => task(v) \in Subtasks)
    BY <2>1, <2>2 DEF task, WorkerFits, Task, TypeOK
  <2> QED
    BY <2>1, <2>2, <2>3, <2>4 DEF WorkerFits, Alone
<1>3. AcceptedFits' /\ CommonFits' /\ TasksFit'
  BY DEF FeedInv, Alone, building, AcceptedFits, CommonFits, TasksFit
<1> QED
  BY <1>1, <1>2, <1>3 DEF FeedInv, Alone

\* WrapperTask.execute, as far as the transaction.
LEMMA BeginFits ==
  ASSUME FeedInv, NEW u \in Uuids, Begin(u)
  PROVE  FeedInv'
<1> USE DEF Begin
<1>1. TypeOK'
  BY DEF FeedInv, TypeOK, building
<1>2. Alone(u)
  BY DEF FeedInv, TypeOK, Alone
<1>3. pos'[u] = 1 /\ local'[u] = <<>> /\ ~update'[u] /\ posted'[u] = None /\ tx'[u] = tx[u] /\ ~sealed' /\ u \in feed'
  BY DEF FeedInv, TypeOK, WorkerFits, building
<1>4. tx[u].tasks \in Seq(Subtasks)
  BY DEF FeedInv, TypeOK, Task
<1>5. TryFits(u)'
  BY <1>3, OrderOfEmpty DEF TryFits, Before, ToSet
<1>6. ASSUME tx[u].tasks = <<>> PROVE WorkerFits(u)'
  <2>1. pc'[u] = "done" /\ DOMAIN tx'[u].tasks = {} /\ DOMAIN local'[u] = {}
    BY <1>3, <1>6 DEF FeedInv, TypeOK
  <2> QED
    BY <1>3, <2>1 DEF WorkerFits, ToSet
<1>7. ASSUME tx[u].tasks # <<>> PROVE WorkerFits(u)'
  <2>1. pc'[u] = "bind" /\ pos'[u] \in 1 .. Len(tx'[u].tasks)
    BY <1>3, <1>4, <1>7 DEF FeedInv, TypeOK
  <2> QED
    BY <1>3, <1>5, <2>1 DEF WorkerFits
<1>8. WorkerFits(u)'
  BY <1>6, <1>7
<1> QED
  BY <1>1, <1>2, <1>8, WorkerStep

\* The keyword arguments of a Subtask are filled in.
LEMMA BindFits ==
  ASSUME FeedInv, NEW u \in Uuids, Bind(u)
  PROVE  FeedInv'
<1>1. /\ tx \in [Uuids -> Task] /\ tx' = tx /\ pc'[u] = "exec" /\ WorkerFits(u) /\ pc[u] = "bind"
      /\ UNCHANGED <<sealed, feed, pos, try_, local, update, provided, posted>>
  BY DEF Bind, building, FeedInv, TypeOK
<1>2. task(u) \in Subtasks /\ task(u)' = task(u)
  BY <1>1 DEF FeedInv, TypeOK, Task, WorkerFits, task
<1>3. TypeOK'
  BY <1>2 DEF Bind, FeedInv, TypeOK, building
<1>4. Alone(u)
  BY <1>1, <1>2 DEF Bind, FeedInv, TypeOK, Alone
<1>5. TakesProvided[task(u)] => kwargs'[task(u)] \in Uuids
  BY <1>2 DEF Bind, FeedInv, TypeOK
<1>6. TryFits(u)'
  BY <1>1 DEF WorkerFits, TryFits, Before
<1>7. WorkerFits(u)'
  BY <1>1, <1>2, <1>5, <1>6 DEF WorkerFits
<1> QED
  BY <1>1, <1>3, <1>4, <1>7, WorkerStep

\* A Subtask or the POST fails for good.
LEMMA FailsFits ==
  ASSUME FeedInv, NEW u \in Uuids, Fails(u)
  PROVE  FeedInv'
<1>1. TypeOK' /\ Alone(u) /\ pc'[u] = "failed" /\ pc[u] # "idle"
  BY DEF Fails, FeedInv, TypeOK, Alone, building
<1>2. WorkerFits(u)'
  BY <1>1 DEF Fails, FeedInv, WorkerFits, building
<1> QED
  BY <1>1, <1>2, WorkerStep

\* A mismatch redrives the Subtasks from nothing, or ends the WrapperTask.  It comes from an
\* update, so there is a first Subtask to go back to.
LEMMA MismatchFits ==
  ASSUME FeedInv, NEW u \in Uuids, Mismatch(u)
  PROVE  FeedInv'
<1>1. /\ tx \in [Uuids -> Task] /\ tx' = tx /\ WorkerFits(u) /\ pc[u] = "finish" /\ update[u]
      /\ UNCHANGED <<building, main, sealed, feed, posted, provided, kwargs>>
      /\ tx[u].tasks \in Seq(Subtasks) /\ local[u] \in Seq(Subtasks) /\ try_[u] \in 1 .. Tries
  BY DEF Mismatch, building, FeedInv, TypeOK, Task
<1>2. CASE ~MayRetry(u)
  <2>1. TypeOK' /\ Alone(u) /\ pc'[u] = "failed"
    BY <1>2 DEF Mismatch, FeedInv, TypeOK, Alone, building
  <2>2. WorkerFits(u)'
    BY <1>1, <2>1 DEF WorkerFits
  <2> QED
    BY <1>1, <2>1, <2>2, WorkerStep
<1>3. CASE MayRetry(u)
  <2>1. /\ try_' = [try_ EXCEPT ![u] = @ + 1] /\ local' = [local EXCEPT ![u] = <<>>]
        /\ update' = [update EXCEPT ![u] = FALSE] /\ pos' = [pos EXCEPT ![u] = 1] /\ pc' = [pc EXCEPT ![u] = "bind"]
    BY <1>3 DEF Mismatch, Refreshed
  <2>2. try_[u] + 1 \in 1 .. Tries
    BY <1>1, <1>3, FeedConstantsOK DEF MayRetry
  <2>3. TypeOK'
    BY <1>1, <2>1, <2>2 DEF FeedInv, TypeOK, building, Mismatch
  <2>4. Alone(u)
    BY <1>1, <2>1 DEF FeedInv, TypeOK, Alone
  <2>5. pos'[u] = 1 /\ local'[u] = <<>> /\ ~update'[u] /\ pc'[u] = "bind"
    BY <2>1 DEF FeedInv, TypeOK
  <2>6. TryFits(u)'
    BY <2>5, OrderOfEmpty DEF TryFits, Before, ToSet
  <2>7. 1 \in 1 .. Len(tx[u].tasks)
    <3>1. PICK k \in ToSet(local[u]) : FlagUpdate[k]
      BY <1>1 DEF WorkerFits, TryFits
    <3>2. DOMAIN local[u] # {}
      BY <3>1 DEF ToSet
    <3>3. DOMAIN tx[u].tasks # {}
      BY <1>1, <3>2 DEF WorkerFits, TryFits, OnceInOrder
    <3> QED
      BY <1>1, <3>3
  <2>8. WorkerFits(u)'
    BY <1>1, <2>5, <2>6, <2>7 DEF WorkerFits
  <2> QED
    BY <1>1, <2>3, <2>4, <2>8, WorkerStep
<1> QED
  BY <1>2, <1>3

\* The last Subtask is done: the update is accepted, or none is needed.
LEMMA FinishFits ==
  ASSUME FeedInv, NEW u \in Uuids, Finish(u)
  PROVE  FeedInv'
<1>1. /\ tx \in [Uuids -> Task] /\ tx' = tx /\ WorkerFits(u) /\ pc[u] = "finish" /\ pc'[u] = "done" /\ posted[u] = None
      /\ UNCHANGED <<building, main, sealed, feed, pos, try_, local, update, provided, kwargs>>
      /\ tx[u].tasks \in Seq(Subtasks) /\ local[u] \in Seq(Subtasks) /\ local[u] # None
  BY FeedConstantsOK DEF Finish, building, FeedInv, TypeOK, Task, WorkerFits
<1>2. TypeOK'
  BY DEF Finish, FeedInv, TypeOK, building
<1>3. Alone(u)
  BY <1>1 DEF Finish, FeedInv, TypeOK, Alone
<1>4. posted'[u] = IF update[u] THEN local[u] ELSE None
  BY <1>1 DEF Finish, FeedInv, TypeOK
<1>5. TryFits(u) /\ pos[u] = Len(tx[u].tasks) + 1
  BY <1>1 DEF WorkerFits
<1>6. \A k \in ToSet(tx[u].tasks) : \E n \in Before(u) : tx[u].tasks[n] = k
  BY <1>1, <1>5 DEF ToSet, Before
<1>7. \A k \in ToSet(tx[u].tasks) : Provides[k] # NoLabel => provided[u][Provides[k]] = try_[u]
  BY <1>5, <1>6 DEF TryFits
<1>8. posted'[u] # None <=> \E k \in ToSet(local[u]) : FlagUpdate[k]
  BY <1>1, <1>4, <1>5 DEF TryFits
<1>9. posted'[u] # None => posted'[u] = local[u] /\ OnceInOrder(local[u], tx[u].tasks)
  BY <1>4, <1>5 DEF TryFits
<1>10. WorkerFits(u)'
  BY <1>1, <1>7, <1>8, <1>9 DEF WorkerFits
<1> QED
  BY <1>1, <1>2, <1>3, <1>10, WorkerStep

\* A Subtask is executed.
LEMMA ExecFits ==
  ASSUME FeedInv, NEW u \in Uuids, NEW ret \in BOOLEAN, Exec(u, ret)
  PROVE  FeedInv'
<1> DEFINE t == tx[u].tasks
           p == pos[u]
           k == t[p]
<1>1. /\ tx \in [Uuids -> Task] /\ tx' = tx /\ WorkerFits(u) /\ pc[u] = "exec" /\ posted[u] = None
      /\ ~sealed /\ u \in feed
      /\ UNCHANGED <<building, main, sealed, feed, try_, posted, kwargs>>
      /\ t \in Seq(Subtasks) /\ local[u] \in Seq(Subtasks) /\ try_[u] \in 1 .. Tries
      /\ p \in 1 .. Len(t) /\ p \in DOMAIN t /\ TryFits(u)
  BY DEF Exec, building, FeedInv, TypeOK, Task, WorkerFits
<1>2. k \in Subtasks /\ task(u) = k /\ Distinct(t)
  BY <1>1 DEF task, FeedInv, TasksFit
<1>3. local' = [local EXCEPT ![u] = IF ret THEN Append(@, k) ELSE @] /\ Append(local[u], k) \in Seq(Subtasks)
  BY <1>1, <1>2 DEF Exec
<1>4. /\ local'[u] = IF ret THEN Append(local[u], k) ELSE local[u]
      /\ local' \in [Uuids -> Seq(Subtasks)]
      /\ \A v \in Uuids \ {u} : local'[v] = local[v]
  BY <1>1, <1>3 DEF FeedInv, TypeOK
<1>5. /\ provided' \in [Uuids -> [Labels -> 0 .. Tries]]
      /\ provided'[u] = [l \in Labels |-> IF l = Provides[k] THEN try_[u] ELSE provided[u][l]]
      /\ \A v \in Uuids \ {u} : provided'[v] = provided[v]
  <2>1. provided' = [provided EXCEPT ![u] = [l \in Labels |-> IF l = Provides[k] THEN try_[u] ELSE @[l]]]
    BY <1>2 DEF Exec, NowProvided
  <2>2. provided \in [Uuids -> [Labels -> 0 .. Tries]] /\ try_[u] \in 0 .. Tries
    BY <1>1, FeedConstantsOK DEF FeedInv, TypeOK
  <2>3. [l \in Labels |-> IF l = Provides[k] THEN try_[u] ELSE provided[u][l]] \in [Labels -> 0 .. Tries]
    BY <2>2
  <2> QED
    BY <2>1, <2>2, <2>3
<1>6. saw' \in [Uuids -> [owner : Uuids \cup {None}, values : [Labels -> 0 .. Tries]]]
  <2>1. CASE TakesProvided[k]
    <3>1. kwargs[k] \in Uuids
      BY <1>1, <1>2, <2>1 DEF WorkerFits
    <3>2. [owner |-> kwargs[k], values |-> provided[kwargs[k]]] \in [owner : Uuids \cup {None}, values : [Labels -> 0 .. Tries]]
      BY <3>1 DEF FeedInv, TypeOK
    <3>3. saw' = [saw EXCEPT ![u] = [owner |-> kwargs[k], values |-> provided[kwargs[k]]]]
      BY <1>2, <2>1 DEF Exec
    <3> QED
      BY <3>2, <3>3 DEF FeedInv, TypeOK
  <2>2. CASE ~TakesProvided[k]
    BY <1>2, <2>2 DEF Exec, FeedInv, TypeOK
  <2> QED
    BY <2>1, <2>2
<1>7. /\ pos' = [pos EXCEPT ![u] = @ + 1] /\ pos' \in [Uuids -> Nat] /\ pos'[u] = p + 1
      /\ \A v \in Uuids \ {u} : pos'[v] = pos[v]
  BY DEF Exec, FeedInv, TypeOK
<1>8. /\ update' \in [Uuids -> BOOLEAN] /\ update'[u] = (update[u] \/ (FlagUpdate[k] /\ ret))
      /\ \A v \in Uuids \ {u} : update'[v] = update[v]
  BY <1>2, FeedConstantsOK DEF Exec, NeedsUpdate, FeedInv, TypeOK
<1>9. /\ pc' \in [Uuids -> {"idle", "begin", "bind", "exec", "finish", "done", "failed"}]
      /\ pc'[u] = (IF p = Len(t) THEN "finish" ELSE "bind") /\ \A v \in Uuids \ {u} : pc'[v] = pc[v]
  BY DEF Exec, FeedInv, TypeOK
<1>10. TypeOK'
  BY <1>1, <1>4, <1>5, <1>6, <1>7, <1>8, <1>9 DEF FeedInv, TypeOK, building
<1>11. Alone(u)
  BY <1>1, <1>4, <1>5, <1>7, <1>8, <1>9 DEF Alone
<1>12. TryFits(u)'
  <2>1. Before(u)' = 1 .. p
    BY <1>1, <1>7 DEF Before
  <2>2. OnceInOrder(local'[u], t) /\ \A i \in DOMAIN local'[u] : \E n \in 1 .. p : t[n] = local'[u][i]
    <3>1. OnceInOrder(local[u], t) /\ \A i \in DOMAIN local[u] : \E n \in 1 .. (p - 1) : t[n] = local[u][i]
      BY <1>1 DEF TryFits, Before
    <3>2. CASE ret
      <4>1. local'[u] = Append(local[u], k)
        BY <1>4, <3>2
      <4>2. OnceInOrder(Append(local[u], k), t) /\ \A i \in DOMAIN Append(local[u], k) : \E n \in 1 .. p : t[n] = Append(local[u], k)[i]
        <5> HIDE DEF t, p
        <5> QED
          BY <1>1, <1>2, <3>1, OrderNext
      <4> QED
        BY <4>1, <4>2
    <3>3. CASE ~ret
      BY <1>1, <1>4, <3>1, <3>3
    <3> QED
      BY <3>2, <3>3
  <2>3. update'[u] <=> \E l \in ToSet(local'[u]) : FlagUpdate[l]
    <3>1. ToSet(local'[u]) = IF ret THEN ToSet(local[u]) \cup {k} ELSE ToSet(local[u])
      <4>1. ToSet(Append(local[u], k)) = ToSet(local[u]) \cup {k}
        BY <1>1, <1>2, SubtaskAppended
      <4> QED
        BY <1>4, <4>1
    <3>2. update[u] <=> \E l \in ToSet(local[u]) : FlagUpdate[l]
      BY <1>1 DEF TryFits
    <3> HIDE DEF k
    <3> QED
      BY <1>8, <3>1, <3>2, Zenon
  <2>4. ASSUME NEW n \in 1 .. p, Provides[t[n]] # NoLabel
        PROVE  provided'[u][Provides[t[n]]] = try_[u]
    <3>1. Provides[t[n]] \in Labels
      BY <1>1, <2>4, FeedConstantsOK
    <3>2. n \in 1 .. (p - 1) => provided[u][Provides[t[n]]] = try_[u]
      BY <1>1, <2>4 DEF TryFits, Before
    <3>3. n \in 1 .. (p - 1) \/ n = p
      BY <1>1, <2>4
    <3> QED
      BY <1>5, <3>1, <3>2, <3>3
  <2> QED
    BY <1>1, <2>1, <2>2, <2>3, <2>4 DEF TryFits
<1>13. WorkerFits(u)'
  <2>1. pc'[u] = "bind" => pos'[u] \in 1 .. Len(t)
    BY <1>1, <1>7, <1>9
  <2>2. pc'[u] = "finish" => pos'[u] = Len(t) + 1
    BY <1>1, <1>7, <1>9
  <2> QED
    BY <1>1, <1>9, <1>12, <2>1, <2>2 DEF WorkerFits
<1> QED
  BY <1>1, <1>10, <1>11, <1>13, WorkerStep

\* execute: with the WrapperTasks as they are, or replicated now.
LEMMA ExecuteFits == ASSUME FeedInv, Execute PROVE FeedInv'
<1>1. /\ main' = "run" /\ \A u \in Uuids : pc[u] = "idle" /\ WorkerFits(u)
      /\ UNCHANGED <<common, added, kwargs, pos, try_, local, update, provided, saw, posted>>
      /\ pc' = [u \in Uuids |-> IF u \in feed' THEN "begin" ELSE "idle"]
  BY DEF Execute, FeedInv
<1>2. sealed' = FALSE /\ feed' \subseteq Uuids /\ tx' \in [Uuids -> Task] /\ (AcceptedFits /\ CommonFits /\ TasksFit)'
  <2>1. CASE sealed
    BY <1>1, <2>1, ReplicateFits DEF Execute
  <2>2. CASE ~sealed
    BY <1>1, <2>2 DEF Execute, FeedInv, TypeOK, AcceptedFits, CommonFits, TasksFit
  <2> QED
    BY <2>1, <2>2
<1>3. TypeOK'
  BY <1>1, <1>2 DEF FeedInv, TypeOK
<1>4. \A u \in Uuids : WorkerFits(u)'
  BY <1>1, <1>2 DEF WorkerFits
<1> QED
  BY <1>1, <1>2, <1>3, <1>4 DEF FeedInv

\* The engine and the post-execs change nothing but main.
LEMMA MainFits ==
  ASSUME FeedInv, UNCHANGED <<building, running>>,
         main' = main \/ main' \in {"post_exec", "end", "raised", "raised_many"}
  PROVE  FeedInv'
<1>1. TypeOK'
  BY DEF FeedInv, TypeOK, building, running
<1>2. AcceptedFits' /\ CommonFits' /\ TasksFit'
  BY DEF FeedInv, building, AcceptedFits, CommonFits, TasksFit
<1>3. \A u \in Uuids : WorkerFits(u)'
  BY DEF FeedInv, building, running, WorkerFits, TryFits, Before, task
<1> QED
  BY <1>1, <1>2, <1>3 DEF FeedInv, running

\* Every step of the consumer, of execute and of a WrapperTask keeps FeedInv.
LEMMA FeedStep == FeedInv /\ [Next]_vars => FeedInv'
<1> SUFFICES ASSUME FeedInv, [Next]_vars PROVE FeedInv'
  OBVIOUS
<1>1. ASSUME NEW k \in Subtasks \ Specific, AddCommon(k) PROVE FeedInv'
  BY <1>1, AddCommonFits
<1>2. ASSUME NEW k \in Subtasks \ Specific, AddToAll(k) PROVE FeedInv'
  BY <1>2, AddToAllFits
<1>3. ASSUME NEW k \in Subtasks \ Specific, AddToAllRefused(k) PROVE FeedInv'
  <2>1. PICK before \in SUBSET {u \in feed : ~Refuses(tx[u], k)} :
           tx' = [u \in Uuids |-> IF u \in before THEN WithSubtask(tx[u], k) ELSE tx[u]]
    BY <1>3 DEF AddToAllRefused
  <2>2. /\ \A u \in before : k \notin ToSet(tx[u].tasks)
        /\ \E v \in feed : Refuses(tx[v], k)
        /\ before \in SUBSET feed
    BY <1>3 DEF AddToAllRefused
  <2> QED
    BY <1>3, <2>1, <2>2, SomeGetFits DEF AddToAllRefused
<1>4. ASSUME NEW u \in Uuids, NEW k \in Specific, AddToOne(u, k) PROVE FeedInv'
  <2>1. tx' = [v \in Uuids |-> IF v \in {u} THEN WithSubtask(tx[v], k) ELSE tx[v]]
    BY <1>4 DEF AddToOne, FeedInv, TypeOK
  <2>2. k \in Subtasks /\ {u} \in SUBSET feed
    BY <1>4, FeedConstantsOK DEF AddToOne
  <2> QED
    BY <1>4, <2>1, <2>2, SomeGetFits DEF AddToOne
<1>5. CASE BreakSeal
  <2>1. /\ sealed' = FALSE /\ feed' \subseteq Uuids /\ tx' \in [Uuids -> Task]
        /\ (AcceptedFits /\ CommonFits /\ TasksFit)'
    BY <1>5, ReplicateFits DEF BreakSeal
  <2>2. TypeOK'
    BY <1>5, <2>1 DEF BreakSeal, FeedInv, TypeOK, running
  <2> QED
    BY <1>5, <2>1, <2>2, BuildStep DEF BreakSeal
<1>6. CASE EmptyFeed
  <2>1. TypeOK' /\ (AcceptedFits /\ CommonFits /\ TasksFit)'
    BY <1>6 DEF EmptyFeed, FeedInv, TypeOK, running, AcceptedFits, CommonFits, TasksFit
  <2> QED
    BY <1>6, <2>1, BuildStep DEF EmptyFeed
<1>7. CASE Execute
  BY <1>7, ExecuteFits
<1>8. CASE ExecuteNothing \/ EngineDone \/ PostExec
  BY <1>8, MainFits DEF ExecuteNothing, EngineDone, PostExec
<1>9. ASSUME NEW u \in Uuids, Worker(u) PROVE FeedInv'
  BY <1>9, BeginFits, BindFits, FailsFits, FinishFits, MismatchFits, ExecFits DEF Worker
<1>10. CASE Ended \/ UNCHANGED vars
  BY <1>10, MainFits DEF Ended, vars, building, running
<1> QED
  BY <1>1, <1>2, <1>3, <1>4, <1>5, <1>6, <1>7, <1>8, <1>9, <1>10 DEF Next, Build, Main

\* FeedInv is an invariant.
LEMMA FeedInvariant == Spec => []FeedInv
BY FeedInitial, FeedStep, PTL DEF Spec

\* FeedTask.add_subtask, for every feed, every set of Subtasks and labels and every order of
\* calls: see EverySubtaskReachesAll.
THEOREM SubtasksReachAll == Spec => []EverySubtaskReachesAll
<1>1. FeedInv => EverySubtaskReachesAll
  BY DEF FeedInv, TasksFit, EverySubtaskReachesAll
<1> QED
  BY <1>1, FeedInvariant, PTL

\* WrapperTask.execute under @entry_transaction, for every number of WrapperTasks, Subtasks
\* and tries: see FinalTryCounts.
THEOREM FinalTryDecides == Spec => []FinalTryCounts
<1>1. FeedInv => FinalTryCounts
  BY DEF FeedInv, WorkerFits, FinalTryCounts, PostsFinalTry, ResultsFromFinalTry
<1> QED
  BY <1>1, FeedInvariant, PTL
=============================================================================
