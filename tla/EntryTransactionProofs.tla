----------------------- MODULE EntryTransactionProofs -----------------------
(***************************************************************************)
(* Proofs about entry_transaction for any number of threads, objects,      *)
(* nested calls, tries and out-of-band changes.                            *)
(***************************************************************************)
EXTENDS EntryTransaction, TLAPS

\* A worker runs only while its parent waits for it.
WorkersOK ==
  \A c \in Threads :
    Parent[c] # NoThread /\ pc[c] \notin {"idle", "end"} => pc[Parent[c]] = "join"

\* A thread has a call on its stack exactly while it is inside one; a call
\* that may run func has its wrapper; a redrive leaves a try to be used.
Stack(t) ==
  /\ depth[t] = 0 <=> pc[t] \in {"idle", "start", "end"}
  /\ pc[t] = "refresh" => try_[t][depth[t]] < Tries
  /\ \A l \in Levels :
       (l < depth[t] \/ (l = depth[t] /\ pc[t] \in {"body", "refresh", "join"}))
         => wrap[t][l] # NoWrap

StackOK == \A t \in Threads : Stack(t)

TypeInv == TypeOK /\ WorkersOK /\ StackOK

-----------------------------------------------------------------------------
\* Before any call TypeInv holds.
LEMMA TypeInvInit == Init => TypeInv
<1> SUFFICES ASSUME Init PROVE TypeInv
  OBVIOUS
<1>1. TypeOK
  BY ConstantsOK DEF Init, TypeOK, Entry, PCs, Levels
<1>2. WorkersOK /\ StackOK
  BY ConstantsOK DEF Init, WorkersOK, StackOK, Stack, Levels
<1> QED  BY <1>1, <1>2 DEF TypeInv

\* A thread that is past "start" and not yet at the end has a current call.
LEMMA InACall ==
  ASSUME TypeInv, NEW t \in Threads, pc[t] \notin {"idle", "start", "end"}
  PROVE  depth[t] \in Levels
BY ConstantsOK DEF TypeInv, TypeOK, StackOK, Stack, Levels

\* A thread that is not waiting has no running worker, so it may move on.
LEMMA WorkersStay ==
  ASSUME TypeOK, WorkersOK, NEW t \in Threads, NEW label,
         pc[t] \notin {"idle", "end", "join"}, pc' = [pc EXCEPT ![t] = label]
  PROVE  WorkersOK'
BY ConstantsOK DEF TypeOK, WorkersOK

\* Every step keeps the types, the call stacks and the rule that a parent waits for its workers.
LEMMA TypeInvStep == TypeInv /\ [Next]_vars => TypeInv'
<1> SUFFICES ASSUME TypeInv, [Next]_vars PROVE TypeInv'
  OBVIOUS
<1> USE ConstantsOK DEF PCs, uuid, Goto
<1>1. ASSUME NEW t \in Threads, Start(t) PROVE TypeInv'
  <2>e. depth[t] = 0 /\ 1 \in Levels /\ Argument(t, 1) \in Entry \cup {NoWrap}
    BY <1>1 DEF Start, Argument, TypeInv, TypeOK, StackOK, Stack, Levels
  <2>1. TypeOK'
    BY <1>1, <2>e DEF Start, Call, TypeInv, TypeOK, Levels
  <2>2. WorkersOK'
    BY <1>1, WorkersStay DEF Start, Call, Argument, TypeInv
  <2>3. StackOK'
    <3> SUFFICES ASSUME NEW s \in Threads PROVE Stack(s)'
      BY DEF StackOK
    <3>0. Stack(s)
      BY DEF TypeInv, StackOK
    <3>1. CASE s # t
      BY <1>1, <3>0, <3>1 DEF Start, Call, Argument, TypeInv, TypeOK, Stack
    <3>2. CASE s = t
      BY <1>1, <3>0, <3>2, NoWrapIsNoEntry DEF Start, Call, Argument, TypeInv, TypeOK, Stack, Levels
    <3> QED  BY <3>1, <3>2
  <2> QED  BY <2>1, <2>2, <2>3 DEF TypeInv
<1>2. ASSUME NEW t \in Threads, SkipLock(t) PROVE TypeInv'
  <2>0. depth[t] \in Levels
    <3>1. pc[t] \notin {"idle", "start", "end"}
      BY <1>2 DEF SkipLock
    <3> QED  BY <3>1, InACall
  <2>1. TypeOK'
    BY <1>2, <2>0 DEF SkipLock, TypeInv, TypeOK, Levels
  <2>2. WorkersOK'
    BY <1>2, WorkersStay DEF SkipLock, TypeInv
  <2>3. StackOK'
    <3> SUFFICES ASSUME NEW s \in Threads PROVE Stack(s)'
      BY DEF StackOK
    <3>0. Stack(s)
      BY DEF TypeInv, StackOK
    <3>1. CASE s # t
      BY <1>2, <3>0, <3>1 DEF SkipLock, TypeInv, TypeOK, Stack
    <3>2. CASE s = t
      BY <1>2, <2>0, <3>0, <3>2, NoWrapIsNoEntry DEF SkipLock, TypeInv, TypeOK, Stack, Levels
    <3> QED  BY <3>1, <3>2
  <2> QED  BY <2>1, <2>2, <2>3 DEF TypeInv
<1>3. ASSUME NEW t \in Threads, AcquireLock(t) PROVE TypeInv'
  <2>0. depth[t] \in Levels
    <3>1. pc[t] \notin {"idle", "start", "end"}
      BY <1>3 DEF AcquireLock
    <3> QED  BY <3>1, InACall
  <2>1. TypeOK'
    BY <1>3, <2>0, SMTT(30) DEF AcquireLock, TypeInv, TypeOK, Levels
  <2>2. WorkersOK'
    BY <1>3, WorkersStay DEF AcquireLock, TypeInv
  <2>3. StackOK'
    <3> SUFFICES ASSUME NEW s \in Threads PROVE Stack(s)'
      BY DEF StackOK
    <3>0. Stack(s)
      BY DEF TypeInv, StackOK
    <3>1. CASE s # t
      BY <1>3, <3>0, <3>1 DEF AcquireLock, TypeInv, TypeOK, Stack
    <3>2. CASE s = t
      BY <1>3, <2>0, <3>0, <3>2, NoWrapIsNoEntry DEF AcquireLock, TypeInv, TypeOK, Stack, Levels
    <3> QED  BY <3>1, <3>2
  <2> QED  BY <2>1, <2>2, <2>3 DEF TypeInv
<1>4. ASSUME NEW t \in Threads, Resolve(t) PROVE TypeInv'
  <2>0. depth[t] \in Levels
    <3>1. pc[t] \notin {"idle", "start", "end"}
      BY <1>4 DEF Resolve
    <3> QED  BY <3>1, InACall
  <2>1. TypeOK'
    BY <1>4, <2>0, SMTT(30) DEF Resolve, TypeInv, TypeOK, Levels
  <2>2. WorkersOK'
    BY <1>4, WorkersStay DEF Resolve, TypeInv
  <2>3. StackOK'
    <3> SUFFICES ASSUME NEW s \in Threads PROVE Stack(s)'
      BY DEF StackOK
    <3>0. Stack(s)
      BY DEF TypeInv, StackOK
    <3>1. CASE s # t
      BY <1>4, <3>0, <3>1 DEF Resolve, TypeInv, TypeOK, Stack
    <3>2. CASE s = t
      BY <1>4, <2>0, <3>0, <3>2, NoWrapIsNoEntry DEF Resolve, TypeInv, TypeOK, Stack, Levels
    <3> QED  BY <3>1, <3>2
  <2> QED  BY <2>1, <2>2, <2>3 DEF TypeInv
<1>5. ASSUME NEW t \in Threads, FuncReturns(t) PROVE TypeInv'
  <2>0. depth[t] \in Levels
    <3>1. pc[t] \notin {"idle", "start", "end"}
      BY <1>5 DEF FuncReturns
    <3> QED  BY <3>1, InACall
  <2>1. TypeOK'
    BY <1>5, <2>0 DEF FuncReturns, TypeInv, TypeOK, Levels
  <2>2. WorkersOK'
    BY <1>5, WorkersStay DEF FuncReturns, TypeInv
  <2>3. StackOK'
    <3> SUFFICES ASSUME NEW s \in Threads PROVE Stack(s)'
      BY DEF StackOK
    <3>0. Stack(s)
      BY DEF TypeInv, StackOK
    <3>1. CASE s # t
      BY <1>5, <3>0, <3>1 DEF FuncReturns, TypeInv, TypeOK, Stack
    <3>2. CASE s = t
      BY <1>5, <2>0, <3>0, <3>2, NoWrapIsNoEntry DEF FuncReturns, TypeInv, TypeOK, Stack, Levels
    <3> QED  BY <3>1, <3>2
  <2> QED  BY <2>1, <2>2, <2>3 DEF TypeInv
<1>6. ASSUME NEW t \in Threads, OtherError(t) PROVE TypeInv'
  <2>0. depth[t] \in Levels
    <3>1. pc[t] \notin {"idle", "start", "end"}
      BY <1>6 DEF OtherError
    <3> QED  BY <3>1, InACall
  <2>1. TypeOK'
    BY <1>6, <2>0 DEF OtherError, TypeInv, TypeOK, Levels
  <2>2. WorkersOK'
    BY <1>6, WorkersStay DEF OtherError, TypeInv
  <2>3. StackOK'
    <3> SUFFICES ASSUME NEW s \in Threads PROVE Stack(s)'
      BY DEF StackOK
    <3>0. Stack(s)
      BY DEF TypeInv, StackOK
    <3>1. CASE s # t
      BY <1>6, <3>0, <3>1 DEF OtherError, TypeInv, TypeOK, Stack
    <3>2. CASE s = t
      BY <1>6, <2>0, <3>0, <3>2, NoWrapIsNoEntry DEF OtherError, TypeInv, TypeOK, Stack, Levels
    <3> QED  BY <3>1, <3>2
  <2> QED  BY <2>1, <2>2, <2>3 DEF TypeInv
<1>7. ASSUME NEW t \in Threads, PostAccepted(t) PROVE TypeInv'
  <2>0. depth[t] \in Levels
    <3>1. pc[t] \notin {"idle", "start", "end"}
      BY <1>7 DEF PostAccepted
    <3> QED  BY <3>1, InACall
  <2>e. [etag |-> server[uuid(t)].etag + 1,
         mods |-> wrap[t][depth[t]].mods \cup {<<t, depth[t]>>}] \in Entry
    BY <1>7, <2>0 DEF PostAccepted, TypeInv, TypeOK, StackOK, Stack, Entry, Mods
  <2>1. TypeOK'
    BY <1>7, <2>0, <2>e DEF PostAccepted, TypeInv, TypeOK, Levels
  <2>2. WorkersOK'
    BY <1>7 DEF PostAccepted, TypeInv, WorkersOK
  <2>3. StackOK'
    <3> SUFFICES ASSUME NEW s \in Threads PROVE Stack(s)'
      BY DEF StackOK
    <3>0. Stack(s)
      BY DEF TypeInv, StackOK
    <3>1. CASE s # t
      BY <1>7, <3>0, <3>1 DEF PostAccepted, TypeInv, TypeOK, Stack
    <3>2. CASE s = t
      BY <1>7, <2>0, <2>e, <3>0, <3>2, NoWrapIsNoEntry DEF PostAccepted, TypeInv, TypeOK, Stack, Levels
    <3> QED  BY <3>1, <3>2
  <2> QED  BY <2>1, <2>2, <2>3 DEF TypeInv
<1>8. ASSUME NEW t \in Threads, PostMismatch(t) PROVE TypeInv'
  <2>0. depth[t] \in Levels
    <3>1. pc[t] \notin {"idle", "start", "end"}
      BY <1>8 DEF PostMismatch
    <3> QED  BY <3>1, InACall
  <2>1. TypeOK'
    BY <1>8, <2>0 DEF PostMismatch, AfterFunc, TypeInv, TypeOK, Levels
  <2>2. WorkersOK'
    BY <1>8, WorkersStay DEF PostMismatch, AfterFunc, TypeInv
  <2>3. StackOK'
    <3> SUFFICES ASSUME NEW s \in Threads PROVE Stack(s)'
      BY DEF StackOK
    <3>0. Stack(s)
      BY DEF TypeInv, StackOK
    <3>1. CASE s # t
      BY <1>8, <3>0, <3>1 DEF PostMismatch, AfterFunc, TypeInv, TypeOK, Stack
    <3>2. CASE s = t
      BY <1>8, <2>0, <3>0, <3>2, NoWrapIsNoEntry DEF PostMismatch, AfterFunc, TypeInv, TypeOK, Stack, Levels
    <3> QED  BY <3>1, <3>2
  <2> QED  BY <2>1, <2>2, <2>3 DEF TypeInv
<1>9. ASSUME NEW t \in Threads, Refresh(t) PROVE TypeInv'
  <2>0. depth[t] \in Levels
    <3>1. pc[t] \notin {"idle", "start", "end"}
      BY <1>9 DEF Refresh
    <3> QED  BY <3>1, InACall
  <2>e. try_[t][depth[t]] + 1 \in 0 .. Tries /\ server[uuid(t)] \in Entry
    BY <1>9, <2>0 DEF Refresh, TypeInv, TypeOK, StackOK, Stack
  <2>1. TypeOK'
    BY <1>9, <2>0, <2>e DEF Refresh, TypeInv, TypeOK, Levels
  <2>2. WorkersOK'
    BY <1>9, WorkersStay DEF Refresh, TypeInv
  <2>3. StackOK'
    <3> SUFFICES ASSUME NEW s \in Threads PROVE Stack(s)'
      BY DEF StackOK
    <3>0. Stack(s)
      BY DEF TypeInv, StackOK
    <3>1. CASE s # t
      BY <1>9, <3>0, <3>1 DEF Refresh, TypeInv, TypeOK, Stack
    <3>2. CASE s = t
      BY <1>9, <2>0, <2>e, <3>0, <3>2, NoWrapIsNoEntry DEF Refresh, TypeInv, TypeOK, Stack, Levels
    <3> QED  BY <3>1, <3>2
  <2> QED  BY <2>1, <2>2, <2>3 DEF TypeInv
<1>10. ASSUME NEW t \in Threads, NestedCall(t) PROVE TypeInv'
  <2>0. depth[t] \in Levels
    <3>1. pc[t] \notin {"idle", "start", "end"}
      BY <1>10 DEF NestedCall
    <3> QED  BY <3>1, InACall
  <2>e. /\ depth[t] + 1 \in Levels
        /\ Argument(t, depth[t] + 1) \in Entry \cup {NoWrap}
    BY <1>10, <2>0 DEF NestedCall, Argument, TypeInv, TypeOK, Levels
  <2>1. TypeOK'
    <3>1. pc' \in [Threads -> PCs] /\ depth' \in [Threads -> 0 .. MaxDepth]
      BY <1>10, <2>0, <2>e DEF NestedCall, Call, TypeInv, TypeOK, Levels
    <3>2. wrap' \in [Threads -> [Levels -> Entry \cup {NoWrap}]]
      BY <1>10, <2>0, <2>e DEF NestedCall, Call, TypeInv, TypeOK
    <3>3. did' \in [Threads -> [Levels -> SUBSET {"call", "fork", "post"}]]
      BY <1>10, <2>0 DEF NestedCall, TypeInv, TypeOK
    <3> QED
      BY <1>10, <3>1, <3>2, <3>3 DEF NestedCall, TypeInv, TypeOK
  <2>2. WorkersOK'
    BY <1>10, WorkersStay DEF NestedCall, Call, TypeInv
  <2>3. StackOK'
    <3> SUFFICES ASSUME NEW s \in Threads PROVE Stack(s)'
      BY DEF StackOK
    <3>0. Stack(s)
      BY DEF TypeInv, StackOK
    <3>1. CASE s # t
      BY <1>10, <3>0, <3>1 DEF NestedCall, Call, TypeInv, TypeOK, Stack
    <3>2. CASE s = t
      BY <1>10, <2>0, <2>e, <3>0, <3>2, NoWrapIsNoEntry DEF NestedCall, Call, TypeInv, TypeOK, Stack, Levels
    <3> QED  BY <3>1, <3>2
  <2> QED  BY <2>1, <2>2, <2>3 DEF TypeInv
<1>11. ASSUME NEW t \in Threads, Fork(t) PROVE TypeInv'
  <2>0. depth[t] \in Levels
    <3>1. pc[t] \notin {"idle", "start", "end"}
      BY <1>11 DEF Fork
    <3> QED  BY <3>1, InACall
  <2>1. TypeOK'
    BY <1>11, <2>0 DEF Fork, TypeInv, TypeOK, Levels
  <2>2. WorkersOK'
    BY <1>11, OneLevelOfWorkers DEF Fork, Children, TypeInv, TypeOK, WorkersOK
  <2>3. StackOK'
    <3> SUFFICES ASSUME NEW s \in Threads PROVE Stack(s)'
      BY DEF StackOK
    <3>0. Stack(s)
      BY DEF TypeInv, StackOK
    <3>1. CASE s # t
      BY <1>11, <3>0, <3>1 DEF Fork, TypeInv, TypeOK, Stack, WorkersOK
    <3>2. CASE s = t
      BY <1>11, <2>0, <3>0, <3>2, NoWrapIsNoEntry DEF Fork, TypeInv, TypeOK, Stack, Levels
    <3> QED  BY <3>1, <3>2
  <2> QED  BY <2>1, <2>2, <2>3 DEF TypeInv
<1>12. ASSUME NEW t \in Threads, Join(t) PROVE TypeInv'
  <2>0. depth[t] \in Levels
    <3>1. pc[t] \notin {"idle", "start", "end"}
      BY <1>12 DEF Join
    <3> QED  BY <3>1, InACall
  <2>1. TypeOK'
    BY <1>12, <2>0 DEF Join, AfterFunc, TypeInv, TypeOK, Levels
  <2>2. WorkersOK'
    BY <1>12, OneLevelOfWorkers DEF Join, Children, TypeInv, TypeOK, WorkersOK
  <2>3. StackOK'
    <3> SUFFICES ASSUME NEW s \in Threads PROVE Stack(s)'
      BY DEF StackOK
    <3>0. Stack(s)
      BY DEF TypeInv, StackOK
    <3>1. CASE s # t
      BY <1>12, <3>0, <3>1 DEF Join, AfterFunc, TypeInv, TypeOK, Stack
    <3>2. CASE s = t
      BY <1>12, <2>0, <3>0, <3>2, NoWrapIsNoEntry DEF Join, AfterFunc, TypeInv, TypeOK, Stack, Levels
    <3> QED  BY <3>1, <3>2
  <2> QED  BY <2>1, <2>2, <2>3 DEF TypeInv
<1>13. ASSUME NEW t \in Threads, Unwind(t) PROVE TypeInv'
  <2>0. depth[t] \in Levels
    <3>1. pc[t] \notin {"idle", "start", "end"}
      BY <1>13 DEF Unwind
    <3> QED  BY <3>1, InACall
  <2>e. /\ depth[t] - 1 \in 0 .. MaxDepth
        /\ depth[t] # 1 => depth[t] - 1 \in Levels
    BY <2>0 DEF Levels
  <2>f. /\ held' \in [Threads -> SUBSET Uuids]
        /\ lock' \in [Uuids -> Threads \cup {NoThread}]
    <3>1. uuid(t) \in Uuids
      BY <2>0 DEF TypeInv, TypeOK
    <3>2. CASE Unlocks(t)
      <4>1. held[t] \ {uuid(t)} \in SUBSET Uuids
        BY DEF TypeInv, TypeOK
      <4>2. /\ held' = [held EXCEPT ![t] = held[t] \ {uuid(t)}]
            /\ lock' = [lock EXCEPT ![uuid(t)] = NoThread]
        BY <1>13, <3>2 DEF Unwind
      <4> QED  BY <3>1, <4>1, <4>2 DEF TypeInv, TypeOK
    <3>3. CASE ~Unlocks(t)
      BY <1>13, <3>3 DEF Unwind, TypeInv, TypeOK
    <3> QED  BY <3>2, <3>3
  <2>g. PICK label \in PCs :
          /\ pc' = [pc EXCEPT ![t] = label]
          /\ label \in {"end", "body", "refresh", "unwind"}
          /\ label = "end" <=> depth[t] = 1
          /\ label = "refresh" => try_[t][depth[t] - 1] < Tries
    BY <1>13, <2>0 DEF Unwind, AfterFunc
  <2>1. TypeOK'
    <3>1. /\ owns' \in [Threads -> [Levels -> BOOLEAN]]
          /\ wrap' \in [Threads -> [Levels -> Entry \cup {NoWrap}]]
      BY <1>13, <2>0 DEF Unwind, TypeInv, TypeOK
    <3>2. /\ try_' \in [Threads -> [Levels -> 0 .. Tries]]
          /\ did' \in [Threads -> [Levels -> SUBSET {"call", "fork", "post"}]]
      BY <1>13, <2>0 DEF Unwind, TypeInv, TypeOK
    <3>3. depth' \in [Threads -> 0 .. MaxDepth] /\ pc' \in [Threads -> PCs]
      BY <1>13, <2>e, <2>g DEF Unwind, TypeInv, TypeOK
    <3> QED  BY <1>13, <2>f, <3>1, <3>2, <3>3 DEF Unwind, TypeInv, TypeOK
  <2>2. WorkersOK'
    BY <1>13, <2>g, WorkersStay DEF Unwind, TypeInv
  <2>3. StackOK'
    <3> SUFFICES ASSUME NEW s \in Threads PROVE Stack(s)'
      BY DEF StackOK
    <3>0. Stack(s)
      BY DEF TypeInv, StackOK
    <3>1. CASE s # t
      BY <1>13, <3>0, <3>1, <2>g DEF Unwind, TypeInv, TypeOK, Stack
    <3>2. CASE s = t
      <4>1. /\ depth' = [depth EXCEPT ![t] = depth[t] - 1]
            /\ wrap' = [wrap EXCEPT ![t][depth[t]] = NoWrap]
            /\ try_' = [try_ EXCEPT ![t][depth[t]] = 0]
            /\ pc[t] = "unwind"
        BY <1>13 DEF Unwind
      <4>2. depth'[t] = depth[t] - 1 /\ pc'[t] = label /\ depth[t] \in 1 .. MaxDepth
        BY <2>0, <2>g, <4>1 DEF TypeInv, TypeOK, Levels
      <4>3. \A l \in Levels : l # depth[t] => wrap'[t][l] = wrap[t][l] /\ try_'[t][l] = try_[t][l]
        BY <2>0, <4>1 DEF TypeInv, TypeOK
      <4>4. (depth'[t] = 0) <=> (pc'[t] \in {"idle", "start", "end"})
        BY <2>g, <4>2
      <4>5. ASSUME pc'[t] = "refresh" PROVE try_'[t][depth'[t]] < Tries
        <5>1. depth[t] - 1 \in Levels /\ depth[t] - 1 # depth[t]
          BY <2>e, <2>g, <4>2, <4>5
        <5>2. try_'[t][depth[t] - 1] = try_[t][depth[t] - 1]
          BY <4>3, <5>1
        <5> QED  BY <2>g, <4>2, <4>5, <5>2
      <4>6. ASSUME NEW l \in Levels, l <= depth'[t] PROVE wrap'[t][l] # NoWrap
        <5>1. l < depth[t] /\ l # depth[t]
          BY <4>2, <4>6 DEF Levels
        <5>2. wrap[t][l] # NoWrap
          BY <3>0, <3>2, <5>1 DEF Stack
        <5> QED  BY <4>3, <5>1, <5>2
      <4> QED  BY <3>2, <4>2, <4>4, <4>5, <4>6 DEF Stack, Levels
    <3> QED  BY <3>1, <3>2
  <2> QED  BY <2>1, <2>2, <2>3 DEF TypeInv
<1>14. ASSUME NEW u \in Uuids, OutOfBand(u) PROVE TypeInv'
  BY <1>14 DEF OutOfBand, Entry, Mods, TypeInv, TypeOK, WorkersOK, StackOK, Stack
<1>15. CASE UNCHANGED vars
  BY <1>15 DEF vars, TypeInv, TypeOK, WorkersOK, StackOK, Stack
<1> QED
  BY <1>1, <1>2, <1>3, <1>4, <1>5, <1>6, <1>7, <1>8, <1>9, <1>10, <1>11,
     <1>12, <1>13, <1>14, <1>15 DEF Next, ThreadStep, Terminated

\* Type correctness of the lock table, the per-thread lock lists and the call
\* stacks; in particular the retry loop never exceeds its tries and never
\* POSTs before the wrapper has been fetched.
THEOREM TypeCorrect == Spec => []TypeOK
<1>1. TypeInv => TypeOK
  BY DEF TypeInv
<1> QED
  BY <1>1, TypeInvInit, TypeInvStep, PTL DEF Spec

-----------------------------------------------------------------------------
(***************************************************************************)
(* Lost updates.  What makes the etag comparison enough is that a wrapper  *)
(* whose etag is the current one has the current content.                  *)
(***************************************************************************)
Snapshot(t, l) ==
  wrap[t][l] # NoWrap =>
    /\ wrap[t][l].etag <= server[Plan[t][l]].etag
    /\ wrap[t][l].etag = server[Plan[t][l]].etag
         => wrap[t][l].mods = server[Plan[t][l]].mods

SnapshotOK == \A t \in Threads : \A l \in Levels : Snapshot(t, l)

\* A GET makes a wrapper current, and a POST or an out-of-band change gives a new etag.
LEMMA SnapshotStep == TypeInv /\ SnapshotOK /\ [Next]_vars => SnapshotOK'
<1> SUFFICES ASSUME TypeInv, SnapshotOK, [Next]_vars,
                    NEW s \in Threads, NEW l \in Levels
             PROVE  Snapshot(s, l)'
  BY DEF SnapshotOK
<1> USE ConstantsOK DEF uuid
<1>0. /\ Snapshot(s, l)
      /\ server \in [Uuids -> Entry]
      /\ wrap \in [Threads -> [Levels -> Entry \cup {NoWrap}]]
      /\ Plan[s][l] \in Uuids
  BY DEF SnapshotOK, TypeInv, TypeOK
<1>1. CASE UNCHANGED <<server, wrap>>
  BY <1>0, <1>1 DEF Snapshot
<1>2. ASSUME NEW t \in Threads, Call(t), UNCHANGED server PROVE Snapshot(s, l)'
  BY <1>0, <1>2 DEF Call, Argument, Snapshot, Entry
<1>3. ASSUME NEW t \in Threads, Resolve(t) \/ Refresh(t) PROVE Snapshot(s, l)'
  <2>1. \/ wrap'[s][l] = wrap[s][l]
        \/ s = t /\ l = depth[t] /\ wrap'[s][l] = server[uuid(t)]
    BY <1>0, <1>3 DEF Resolve, Refresh
  <2>2. UNCHANGED server
    BY <1>3 DEF Resolve, Refresh
  <2> QED  BY <1>0, <2>1, <2>2 DEF Snapshot, Entry
<1>4. ASSUME NEW t \in Threads, Unwind(t) PROVE Snapshot(s, l)'
  BY <1>0, <1>4 DEF Unwind, Snapshot
<1>5. ASSUME NEW t \in Threads, PostAccepted(t) PROVE Snapshot(s, l)'
  BY <1>0, <1>5 DEF PostAccepted, Snapshot, Entry
<1>6. ASSUME NEW u \in Uuids, OutOfBand(u) PROVE Snapshot(s, l)'
  BY <1>0, <1>6 DEF OutOfBand, Snapshot, Entry
<1>7. ASSUME NEW t \in Threads, ThreadStep(t) PROVE Snapshot(s, l)'
  BY <1>1, <1>2, <1>3, <1>4, <1>5, <1>7
     DEF ThreadStep, Start, SkipLock, AcquireLock, FuncReturns, OtherError,
         PostMismatch, NestedCall, Fork, Join
<1> QED
  BY <1>1, <1>6, <1>7 DEF Next, Terminated, vars

\* Every step of the transaction machinery is an atomic modification of one
\* object made to its current content, or leaves the objects alone.
LEMMA ServerStep ==
  TypeInv /\ SnapshotOK /\ [Next]_vars => [Abstract!Next]_server
<1> SUFFICES ASSUME TypeInv, SnapshotOK, [Next]_vars PROVE [Abstract!Next]_server
  OBVIOUS
<1>1. ASSUME NEW t \in Threads, PostAccepted(t) PROVE Abstract!Next
  <2>1. depth[t] \in Levels /\ uuid(t) \in Uuids
    <3>1. pc[t] \notin {"idle", "start", "end"}
      BY <1>1 DEF PostAccepted
    <3> QED  BY <3>1, InACall, ConstantsOK DEF uuid
  <2>2. wrap[t][depth[t]].mods = server[uuid(t)].mods
    <3>1. wrap[t][depth[t]] # NoWrap
      BY <1>1, <2>1 DEF PostAccepted, TypeInv, StackOK, Stack
    <3>2. Snapshot(t, depth[t])
      BY <2>1 DEF SnapshotOK
    <3> QED  BY <1>1, <3>1, <3>2 DEF PostAccepted, EtagMatches, Snapshot, uuid
  <2>3. <<t, depth[t]>> \in Mods
    BY <2>1 DEF Mods
  <2>4. Abstract!Modify(uuid(t), <<t, depth[t]>>)
    BY <1>1, <2>2 DEF PostAccepted, Abstract!Modify
  <2> QED  BY <2>1, <2>3, <2>4 DEF Abstract!Next
<1>2. ASSUME NEW u \in Uuids, OutOfBand(u) PROVE Abstract!Next
  <2>1. <<NoThread, oob + 1>> \in Mods
    BY <1>2, ConstantsOK DEF OutOfBand, Mods, TypeInv, TypeOK
  <2>2. Abstract!Modify(u, <<NoThread, oob + 1>>)
    BY <1>2 DEF OutOfBand, Abstract!Modify
  <2> QED  BY <2>1, <2>2 DEF Abstract!Next
<1>3. ASSUME NEW t \in Threads, ThreadStep(t), ~PostAccepted(t) PROVE UNCHANGED server
  BY <1>3
     DEF ThreadStep, Start, SkipLock, AcquireLock, Resolve, FuncReturns, OtherError,
         PostMismatch, Refresh, NestedCall, Fork, Join, Unwind
<1> QED
  BY <1>1, <1>2, <1>3 DEF Next, Terminated, vars

\* entry_transaction loses no update: however calls nest, threads interleave
\* and others change the objects, the objects change only by atomic
\* modifications of their current content (the refinement NoLostUpdate).
THEOREM NoUpdateIsLost == Spec => NoLostUpdate
<1>1. Init => Abstract!Init /\ SnapshotOK
  BY ConstantsOK DEF Init, Abstract!Init, SnapshotOK, Snapshot
<1> QED
  BY <1>1, TypeInvInit, TypeInvStep, SnapshotStep, ServerStep, PTL
  DEF Spec, NoLostUpdate, Abstract!Spec

-----------------------------------------------------------------------------
(***************************************************************************)
(* Locks.  The thread-local list of a running thread names locks that this *)
(* thread or its waiting parent has taken, the calls on its stack work on  *)
(* objects of that list, and a call that took a lock is the lowest of its  *)
(* stack on that object, so that no lock is released under another call.   *)
(***************************************************************************)
Inside == {"resolve", "body", "refresh", "join", "unwind"}

OwnsOK(t) ==
  \A l \in Levels : owns[t][l] =>
    /\ Operating(t, l)
    /\ lock[Plan[t][l]] = t
    /\ \A m \in Levels : m < l => Plan[t][m] # Plan[t][l]

ListOK(t) ==
  /\ \A l \in Levels : Operating(t, l) => Plan[t][l] \in held[t]
  /\ Parent[t] = NoThread \/ pc[t] \notin {"idle", "end"} =>
       \A u \in held[t] : lock[u] \in {t, Parent[t]} \ {NoThread}

OwnerOK ==
  \A u \in Uuids : lock[u] # NoThread =>
    \E l \in Levels : owns[lock[u]][l] /\ Plan[lock[u]][l] = u

LockOK == OwnerOK /\ \A t \in Threads : OwnsOK(t) /\ ListOK(t)

\* Nothing is locked before the first call.
LEMMA LockInit == Init => LockOK
BY ConstantsOK DEF Init, LockOK, OwnerOK, OwnsOK, ListOK, Operating, Levels

\* Moving on inside a call takes and releases nothing.
LEMMA LockStay ==
  ASSUME TypeOK, LockOK, NEW t \in Threads, NEW label \in Inside, pc[t] \in Inside,
         pc' = [pc EXCEPT ![t] = label], UNCHANGED <<lock, held, owns, depth>>
  PROVE  LockOK'
<1>1. \A s \in Threads : \A l \in Levels : Operating(s, l)' <=> Operating(s, l)
  BY DEF Operating, Inside, TypeOK
<1>2. OwnerOK'
  BY DEF LockOK, OwnerOK
<1>3. ASSUME NEW s \in Threads PROVE OwnsOK(s)' /\ ListOK(s)'
  BY <1>1, <1>3 DEF LockOK, OwnsOK, ListOK, Inside, TypeOK
<1> QED  BY <1>2, <1>3 DEF LockOK

\* Every step keeps the lock table and the lists of the threads together.
LEMMA LockStep == TypeInv /\ LockOK /\ [Next]_vars => LockOK'
<1> SUFFICES ASSUME TypeInv, LockOK, [Next]_vars PROVE LockOK'
  OBVIOUS
<1> USE ConstantsOK DEF uuid, Goto
<1>0. TypeOK /\ WorkersOK /\ StackOK
  BY DEF TypeInv
<1>1. ASSUME NEW t \in Threads, Call(t), pc[t] \in {"start", "body"},
             depth[t] + 1 \in Levels, pc[t] = "start" => depth[t] = 0,
             UNCHANGED <<lock, held, owns>>
      PROVE  LockOK'
  <2>1. ASSUME NEW s \in Threads, NEW l \in Levels
        PROVE  Operating(s, l)' <=> Operating(s, l)
    BY <1>0, <1>1, SMTT(30) DEF Call, Operating, TypeOK, Levels
  <2>2. OwnerOK'
    BY <1>1 DEF LockOK, OwnerOK
  <2>3. ASSUME NEW s \in Threads PROVE OwnsOK(s)' /\ ListOK(s)'
    BY <1>0, <1>1, <2>1, <2>3 DEF Call, LockOK, OwnsOK, ListOK, TypeOK
  <2> QED  BY <2>2, <2>3 DEF LockOK
<1>2. ASSUME NEW t \in Threads, Start(t) PROVE LockOK'
  <2>1. depth[t] = 0 /\ 1 \in Levels
    BY <1>0, <1>2 DEF Start, StackOK, Stack, Levels
  <2> QED  BY <1>1, <1>2, <2>1 DEF Start
<1>3. ASSUME NEW t \in Threads, NestedCall(t) PROVE LockOK'
  <2>1. depth[t] + 1 \in Levels
    BY <1>0, <1>3 DEF NestedCall, TypeOK, Levels
  <2> QED  BY <1>1, <1>3, <2>1 DEF NestedCall
<1>4. ASSUME NEW t \in Threads, SkipLock(t) PROVE LockOK'
  <2>0. depth[t] \in Levels
    <3>1. pc[t] \notin {"idle", "start", "end"}
      BY <1>4 DEF SkipLock
    <3> QED  BY <3>1, InACall
  <2>1. ASSUME NEW s \in Threads, NEW l \in Levels
        PROVE  Operating(s, l)' <=> Operating(s, l) \/ (s = t /\ l = depth[t])
    BY <1>0, <1>4, <2>0 DEF SkipLock, Operating, TypeOK, Levels
  <2>2. OwnerOK'
    BY <1>4 DEF SkipLock, LockOK, OwnerOK
  <2>3. ASSUME NEW s \in Threads PROVE OwnsOK(s)' /\ ListOK(s)'
    BY <1>0, <1>4, <2>0, <2>1, <2>3
    DEF SkipLock, AlreadyLocked, LockOK, OwnsOK, ListOK, TypeOK
  <2> QED  BY <2>2, <2>3 DEF LockOK
<1>5. ASSUME NEW t \in Threads, AcquireLock(t) PROVE LockOK'
  <2>0. depth[t] \in Levels /\ uuid(t) \in Uuids
    <3>1. pc[t] \notin {"idle", "start", "end"}
      BY <1>5 DEF AcquireLock
    <3> QED  BY <3>1, InACall
  <2>1. ASSUME NEW s \in Threads, NEW l \in Levels
        PROVE  Operating(s, l)' <=> Operating(s, l) \/ (s = t /\ l = depth[t])
    BY <1>0, <1>5, <2>0 DEF AcquireLock, Operating, TypeOK, Levels
  <2>2. OwnerOK'
    BY <1>0, <1>5, <2>0 DEF AcquireLock, LockIsFree, LockOK, OwnerOK, TypeOK
  <2>3. ASSUME NEW s \in Threads PROVE OwnsOK(s)'
    <3>1. \A l \in Levels : l < depth[t] => Plan[t][l] # uuid(t)
      BY <1>5 DEF AcquireLock, AlreadyLocked, LockOK, ListOK, Operating
    <3>2. OwnsOK(s)
      BY DEF LockOK
    <3> QED
      BY <1>0, <1>5, <2>0, <2>1, <3>1, <3>2
      DEF AcquireLock, LockIsFree, OwnsOK, TypeOK
  <2>4. ASSUME NEW s \in Threads PROVE ListOK(s)'
    <3>1. ListOK(s)
      BY DEF LockOK
    <3> QED
      BY <1>0, <1>5, <2>0, <2>1, <3>1 DEF AcquireLock, LockIsFree, ListOK, TypeOK
  <2> QED  BY <2>2, <2>3, <2>4 DEF LockOK
<1>6. ASSUME NEW t \in Threads,
             \/ Resolve(t) \/ FuncReturns(t) \/ OtherError(t) \/ PostMismatch(t)
             \/ Refresh(t) \/ Join(t)
      PROVE  LockOK'
  <2>1. /\ pc[t] \in Inside
        /\ \E label \in Inside : pc' = [pc EXCEPT ![t] = label]
        /\ UNCHANGED <<lock, held, owns, depth>>
    BY <1>6 DEF Inside, Resolve, FuncReturns, OtherError, PostMismatch, Refresh,
                Join, AfterFunc
  <2> QED  BY <1>0, <2>1, LockStay
<1>7. ASSUME UNCHANGED <<lock, held, owns, depth, pc>> PROVE LockOK'
  BY <1>7 DEF LockOK, OwnerOK, OwnsOK, ListOK, Operating
<1>8. ASSUME NEW t \in Threads, Fork(t) PROVE LockOK'
  <2>0. Parent[t] # t
    BY OneLevelOfWorkers
  <2>1. ASSUME NEW s \in Threads, NEW l \in Levels
        PROVE  Operating(s, l)' <=> Operating(s, l)
    BY <1>0, <1>8, <2>0 DEF Fork, WorkersOK, StackOK, Stack, Operating, TypeOK, Levels
  <2>2. OwnerOK'
    BY <1>8 DEF Fork, LockOK, OwnerOK
  <2>3. ASSUME NEW s \in Threads PROVE OwnsOK(s)'
    BY <1>8, <2>1, <2>3 DEF Fork, LockOK, OwnsOK
  <2>4. ASSUME NEW s \in Threads PROVE ListOK(s)'
    <3>1. ListOK(s) /\ ListOK(t)
      BY DEF LockOK
    <3>2. CASE Parent[s] = t
      <4>1. Parent[t] = NoThread
        BY <3>2, OneLevelOfWorkers
      <4>2. \A l \in Levels : ~Operating(s, l)
        <5>1. pc[s] \in {"idle", "end"}
          BY <1>0, <1>8, <3>2 DEF Fork, WorkersOK
        <5>2. depth[s] = 0
          BY <1>0, <5>1 DEF StackOK, Stack
        <5> QED  BY <5>1, <5>2 DEF Operating, Levels
      <4> QED
        BY <1>0, <1>8, <2>1, <3>1, <3>2, <4>1, <4>2 DEF Fork, ListOK, TypeOK
    <3>3. CASE Parent[s] # t
      BY <1>0, <1>8, <2>1, <3>1, <3>3 DEF Fork, ListOK, TypeOK
    <3> QED  BY <3>2, <3>3
  <2> QED  BY <2>2, <2>3, <2>4 DEF LockOK
<1>9. ASSUME NEW t \in Threads, Unwind(t) PROVE LockOK'
  <2>0. depth[t] \in Levels /\ uuid(t) \in Uuids /\ pc[t] = "unwind"
    <3>1. pc[t] = "unwind"
      BY <1>9 DEF Unwind
    <3> QED  BY <3>1, InACall
  <2>1. ASSUME NEW s \in Threads, NEW l \in Levels
        PROVE  Operating(s, l)' <=> Operating(s, l) /\ ~(s = t /\ l = depth[t])
    <3>1. PICK label \in {"end", "body", "refresh", "unwind"} :
            /\ pc' = [pc EXCEPT ![t] = label]
            /\ label = "end" <=> depth[t] = 1
      BY <1>9, <2>0 DEF Unwind, AfterFunc
    <3>2. depth' = [depth EXCEPT ![t] = depth[t] - 1]
      BY <1>9 DEF Unwind
    <3>3. CASE s = t
      BY <1>0, <2>0, <3>1, <3>2, <3>3 DEF Operating, TypeOK, Levels
    <3>4. CASE s # t
      BY <1>0, <3>1, <3>2, <3>4 DEF Operating, TypeOK
    <3> QED  BY <3>3, <3>4
  <2>2. \A s \in Threads : s # t => pc'[s] = pc[s]
    BY <1>0, <1>9 DEF Unwind, TypeOK
  <2>3. owns' = [owns EXCEPT ![t][depth[t]] = FALSE]
    BY <1>9 DEF Unwind
  <2>4. CASE ~Unlocks(t)
    <3>1. UNCHANGED <<held, lock, owns>>
      BY <1>0, <1>9, <2>0, <2>3, <2>4 DEF Unwind, Unlocks, TypeOK
    <3>2. ASSUME NEW s \in Threads PROVE OwnsOK(s)' /\ ListOK(s)'
      BY <1>0, <1>9, <2>0, <2>1, <2>2, <2>4, <3>1, <3>2
      DEF LockOK, OwnsOK, ListOK, Unlocks, TypeOK
    <3> QED  BY <3>1, <3>2 DEF LockOK, OwnerOK
  <2>5. CASE Unlocks(t)
    <3>1. /\ held' = [held EXCEPT ![t] = @ \ {uuid(t)}]
          /\ lock' = [lock EXCEPT ![uuid(t)] = NoThread]
          /\ lock[uuid(t)] = t
          /\ \A l \in Levels : l < depth[t] => Plan[t][l] # uuid(t)
      BY <1>9, <2>0, <2>5 DEF Unwind, Unlocks, LockOK, OwnsOK
    <3>2. OwnerOK'
      BY <1>0, <2>0, <2>3, <3>1 DEF LockOK, OwnerOK, TypeOK
    <3>3. ASSUME NEW s \in Threads PROVE OwnsOK(s)'
      <4>1. OwnsOK(s)
        BY DEF LockOK
      <4> SUFFICES ASSUME NEW l \in Levels, owns'[s][l]
                   PROVE  /\ Operating(s, l)' /\ lock'[Plan[s][l]] = s
                          /\ \A m \in Levels : m < l => Plan[s][m] # Plan[s][l]
        BY DEF OwnsOK
      <4>2. owns[s][l] /\ ~(s = t /\ l = depth[t])
        BY <1>0, <2>0, <2>3 DEF TypeOK
      <4>3. /\ Operating(s, l) /\ lock[Plan[s][l]] = s
            /\ \A m \in Levels : m < l => Plan[s][m] # Plan[s][l]
        BY <4>1, <4>2 DEF OwnsOK
      <4>4. Plan[s][l] # uuid(t)
        <5>1. CASE s # t
          BY <3>1, <4>3, <5>1
        <5>2. CASE s = t
          <6>1. l < depth[t]
            BY <1>0, <2>0, <4>2, <4>3, <5>2 DEF Operating, TypeOK, Levels
          <6> QED  BY <3>1, <5>2, <6>1
        <5> QED  BY <5>1, <5>2
      <4> QED  BY <1>0, <2>1, <3>1, <4>2, <4>3, <4>4 DEF TypeOK
    <3>4. ASSUME NEW s \in Threads PROVE ListOK(s)'
      <4>1. ListOK(s)
        BY DEF LockOK
      <4>2. CASE s = t
        BY <1>0, <2>0, <2>1, <3>1, <4>1, <4>2 DEF ListOK, Operating, TypeOK, Levels
      <4>3. CASE s # t
        BY <1>0, <2>0, <2>1, <2>2, <3>1, <4>1, <4>3, OneLevelOfWorkers
        DEF ListOK, WorkersOK, TypeOK
      <4> QED  BY <4>2, <4>3
    <3> QED  BY <3>2, <3>3, <3>4 DEF LockOK
  <2> QED  BY <2>4, <2>5
<1>10. ASSUME NEW t \in Threads, ThreadStep(t) PROVE LockOK'
  BY <1>2, <1>3, <1>4, <1>5, <1>6, <1>7, <1>8, <1>9, <1>10 DEF ThreadStep, PostAccepted
<1> QED
  BY <1>7, <1>10 DEF Next, OutOfBand, Terminated, vars

IInv == TypeInv /\ LockOK

\* IInv is an invariant.
LEMMA IInvHolds == Spec => []IInv
<1>1. Init => IInv
  BY TypeInvInit, LockInit DEF IInv
<1>2. IInv /\ [Next]_vars => IInv'
  BY TypeInvStep, LockStep DEF IInv
<1> QED  BY <1>1, <1>2, PTL DEF Spec

\* Whoever operates on an object does so under its lock, its own or that of
\* the thread that is waiting for it.
THEOREM EveryCallIsLocked == Spec => []OperatesUnderLock
<1>1. IInv => OperatesUnderLock
  <2> SUFFICES ASSUME IInv, NEW t \in Threads, NEW l \in Levels, Operating(t, l)
               PROVE  /\ lock[Plan[t][l]] \in {t, Parent[t]} \ {NoThread}
                      /\ lock[Plan[t][l]] # t => pc[Parent[t]] = "join"
    BY DEF OperatesUnderLock
  <2>1. pc[t] \notin {"idle", "start", "end"}
    BY ConstantsOK DEF Operating, IInv, TypeInv, TypeOK, StackOK, Stack, Levels
  <2>2. Plan[t][l] \in held[t] /\ ListOK(t)
    BY DEF IInv, LockOK, ListOK
  <2>3. lock[Plan[t][l]] \in {t, Parent[t]} \ {NoThread}
    BY <2>1, <2>2 DEF ListOK
  <2> QED  BY <2>1, <2>3 DEF IInv, TypeInv, WorkersOK
<1> QED  BY <1>1, IInvHolds, PTL

\* No way out of a decorated call leaves its object locked or its UUID in the
\* list of the thread.
THEOREM LocksAreReleased == Spec => []NoLockLeaks
<1>1. IInv => NoLockLeaks
  <2> SUFFICES ASSUME IInv PROVE NoLockLeaks
    OBVIOUS
  <2>1. ASSUME NEW u \in Uuids, lock[u] # NoThread
        PROVE  \E l \in Levels : Plan[lock[u]][l] = u /\ Operating(lock[u], l)
    <3>1. lock[u] \in Threads
      BY <2>1 DEF IInv, TypeInv, TypeOK
    <3> QED  BY <2>1, <3>1 DEF IInv, LockOK, OwnerOK, OwnsOK
  <2>2. ASSUME NEW t \in Threads, Parent[t] = NoThread, depth[t] = 0 PROVE held[t] = {}
    <3> SUFFICES ASSUME NEW u \in held[t] PROVE FALSE
      OBVIOUS
    <3>1. u \in Uuids /\ lock[u] = t
      BY <2>2 DEF IInv, TypeInv, TypeOK, LockOK, ListOK
    <3>2. PICK l \in Levels : Operating(t, l)
      BY <2>1, <3>1, ConstantsOK
    <3>3. pc[t] \in {"idle", "start", "end"}
      BY <2>2 DEF IInv, TypeInv, StackOK, Stack
    <3> QED  BY <2>2, <3>2, <3>3, ConstantsOK DEF Operating, Levels
  <2> QED  BY <2>1, <2>2 DEF NoLockLeaks
<1> QED  BY <1>1, IInvHolds, PTL

\* In a process that runs no FeedTask inside a transaction, entry_transaction
\* keeps the promise of its docstring: one thread at a time per object.
THEOREM ExclusionWithoutWorkers ==
  ASSUME \A t \in Threads : Parent[t] = NoThread
  PROVE  Spec => []MutualExclusion
<1>1. OperatesUnderLock => MutualExclusion
  <2> SUFFICES ASSUME OperatesUnderLock, NEW a \in Threads, NEW b \in Threads,
                      NEW l \in Levels, NEW m \in Levels,
                      a # b, Operating(a, l), Operating(b, m)
               PROVE  Plan[a][l] # Plan[b][m]
    BY DEF MutualExclusion
  <2>1. lock[Plan[a][l]] = a /\ lock[Plan[b][m]] = b
    BY DEF OperatesUnderLock
  <2> QED  BY <2>1
<1> QED  BY <1>1, EveryCallIsLocked, PTL

-----------------------------------------------------------------------------
(***************************************************************************)
(* Retries.  Each redrive of a call that took its lock is paid for by an   *)
(* out-of-band change, or by the wrapper that was fetched too early: a     *)
(* wrapper that is behind the server has a change to pay with.             *)
(***************************************************************************)
Redrives(t) ==
  LET l == Depth[t] IN
  \/ pc[t] = "refresh"
  \/ pc[t] = "body" /\ "post" \notin did[t][l] /\ wrap[t][l].etag # server[Plan[t][l]].etag

Paid(t) ==
  LET l == Depth[t] IN
  Children(t) = {} /\ owns[t][l] =>
    try_[t][l] + (IF Redrives(t) THEN 1 ELSE 0) <= 1 + oob + (IF UsesGetter[t] THEN 0 ELSE 1)

\* A call that has not yet come to its retry loop has tried nothing, and has its getter.
Untried(t) ==
  /\ depth[t] <= Depth[t]
  /\ \A l \in Levels : l > depth[t] => try_[t][l] = 0
  /\ pc[t] \in {"lock", "resolve"} =>
       try_[t][depth[t]] = 0 /\ (UsesGetter[t] => wrap[t][depth[t]] = NoWrap)
  /\ pc[t] = "join" => Children(t) # {}

PaidOK == \A t \in Threads : Untried(t) /\ Paid(t)

\* Before the first call nothing has been tried.
LEMMA PaidInit == Init => PaidOK
BY ConstantsOK DEF Init, PaidOK, Untried, Paid, Redrives, Levels

\* A call that owns its lock at the last level is the current one, and is past the lock.
LEMMA OwnerIsInside ==
  ASSUME IInv, PaidOK, NEW t \in Threads, owns[t][Depth[t]]
  PROVE  depth[t] = Depth[t] /\ pc[t] \in Inside /\ lock[Plan[t][Depth[t]]] = t
BY ConstantsOK DEF IInv, TypeInv, TypeOK, LockOK, OwnsOK, Operating, Inside, PaidOK, Untried, Levels

\* A step of one thread leaves the others what they have, but for the workers that it starts
\* and the object that it POSTs.
LEMMA OthersAreLeft ==
  ASSUME IInv, NEW t \in Threads, ThreadStep(t), NEW s \in Threads \ {t}
  PROVE  /\ UNCHANGED <<depth[s], owns[s], wrap[s], try_[s], did[s], oob>>
         /\ pc'[s] = pc[s] \/ (pc'[s] = "start" /\ pc[s] \in {"idle", "end"})
         /\ server' = server \/ PostAccepted(t)
<1>0. TypeOK /\ WorkersOK
  BY DEF IInv, TypeInv
<1> USE DEF Goto
<1>1. CASE Start(t) \/ NestedCall(t)
  BY <1>0, <1>1 DEF Start, NestedCall, Call, TypeOK
<1>2. CASE SkipLock(t) \/ AcquireLock(t) \/ FuncReturns(t) \/ OtherError(t) \/ PostMismatch(t) \/ Join(t)
  BY <1>0, <1>2 DEF SkipLock, AcquireLock, FuncReturns, OtherError, PostMismatch, Join, TypeOK
<1>3. CASE Resolve(t) \/ Refresh(t) \/ PostAccepted(t)
  BY <1>0, <1>3 DEF Resolve, Refresh, PostAccepted, TypeOK
<1>4. CASE Fork(t)
  <2>1. Parent[s] = t => pc[s] \in {"idle", "end"}
    BY <1>0, <1>4, ConstantsOK DEF Fork, WorkersOK
  <2> QED
    BY <1>0, <1>4, <2>1 DEF Fork, TypeOK
<1>5. CASE Unwind(t)
  BY <1>0, <1>5 DEF Unwind, TypeOK
<1> QED
  BY <1>1, <1>2, <1>3, <1>4, <1>5 DEF ThreadStep

\* So the others owe nothing more: the object of a call that holds its lock is POSTed by nobody else.
LEMMA OthersPay ==
  ASSUME IInv, PaidOK, NEW t \in Threads, ThreadStep(t), NEW s \in Threads \ {t}
  PROVE  Untried(s)' /\ Paid(s)'
<1>0. Untried(s) /\ Paid(s)
  BY DEF PaidOK
<1>1. /\ UNCHANGED <<depth[s], owns[s], wrap[s], try_[s], did[s], oob>>
      /\ pc'[s] = pc[s] \/ (pc'[s] = "start" /\ pc[s] \in {"idle", "end"})
      /\ server' = server \/ PostAccepted(t)
  BY OthersAreLeft
<1>2. Untried(s)'
  BY <1>0, <1>1 DEF Untried
<1>3. Paid(s)'
  <2> SUFFICES ASSUME Children(s) = {}, owns[s][Depth[s]]
               PROVE  Redrives(s)' => Redrives(s)
    BY <1>0, <1>1, ConstantsOK DEF Paid, IInv, TypeInv, TypeOK, Children
  <2>1. depth[s] = Depth[s] /\ pc[s] \in Inside /\ lock[Plan[s][Depth[s]]] = s
    BY OwnerIsInside
  <2>2. pc'[s] = pc[s]
    BY <1>1, <2>1 DEF Inside
  <2>3. server'[Plan[s][Depth[s]]] = server[Plan[s][Depth[s]]]
    <3>1. CASE server' = server
      BY <3>1
    <3>2. CASE PostAccepted(t)
      <4>1. pc[t] = "body" /\ depth[t] \in Levels
        BY <3>2, InACall DEF PostAccepted, IInv
      <4>2. uuid(t) \in held[t] /\ lock[uuid(t)] \in {t, Parent[t]}
        BY <4>1 DEF IInv, LockOK, ListOK, Operating, uuid
      <4>3. uuid(t) # Plan[s][Depth[s]]
        BY <2>1, <4>2 DEF Children
      <4> QED
        BY <3>2, <4>3 DEF PostAccepted, IInv, TypeInv, TypeOK
    <3> QED
      BY <1>1, <3>1, <3>2
  <2> QED
    BY <1>1, <2>2, <2>3 DEF Redrives
<1> QED
  BY <1>2, <1>3

\* The thread that does the step.
LEMMA OwnPays ==
  ASSUME IInv, IInv', PaidOK, NEW t \in Threads, ThreadStep(t)
  PROVE  Untried(t)' /\ Paid(t)'
<1>0. Untried(t) /\ Paid(t) /\ TypeOK /\ Stack(t) /\ TypeOK'
  BY DEF PaidOK, IInv, TypeInv, StackOK
<1>d. pc[t] # "start" => depth[t] \in Levels
  <2>1. pc[t] \notin {"idle", "end"}
    BY DEF ThreadStep, Start, SkipLock, AcquireLock, Resolve, FuncReturns, OtherError, PostAccepted,
           PostMismatch, Refresh, NestedCall, Fork, Join, Unwind
  <2> QED
    BY <2>1, InACall DEF IInv
<1>i. /\ owns[t][Depth[t]] => depth[t] = Depth[t] /\ pc[t] \in Inside
      /\ owns'[t][Depth[t]] => Operating(t, Depth[t])'
  BY OwnerIsInside, ConstantsOK DEF IInv, LockOK, OwnsOK
<1> USE ConstantsOK DEF Goto, uuid
<1>1. CASE Start(t)
  BY <1>0, <1>1, <1>i DEF Start, Call, Argument, TypeOK, Stack, Untried, Paid, Operating, Inside, Levels
<1>2. CASE SkipLock(t) \/ AcquireLock(t)
  BY <1>0, <1>2, <1>d, <1>i DEF SkipLock, AcquireLock, TypeOK, Untried, Paid, Redrives, Operating, Inside, Levels
<1>3. CASE Resolve(t)
  BY <1>0, <1>3, <1>d, <1>i DEF Resolve, TypeOK, Untried, Paid, Redrives, Operating, Inside, Levels
<1>4. CASE FuncReturns(t) \/ OtherError(t)
  BY <1>0, <1>4, <1>d, <1>i DEF FuncReturns, OtherError, TypeOK, Untried, Paid, Redrives, Operating, Inside, Levels
<1>5. CASE PostAccepted(t)
  BY <1>0, <1>5, <1>d, <1>i DEF PostAccepted, TypeOK, Untried, Paid, Redrives, Operating, Inside, Levels
<1>6. CASE PostMismatch(t)
  BY <1>0, <1>6, <1>d, <1>i DEF PostMismatch, EtagMatches, AfterFunc, TypeOK, Untried, Paid, Redrives, Operating, Inside, Levels
<1>7. CASE Refresh(t)
  BY <1>0, <1>7, <1>d, <1>i DEF Refresh, TypeOK, Untried, Paid, Redrives, Operating, Inside, Levels
<1>8. CASE NestedCall(t)
  BY <1>0, <1>8, <1>d, <1>i DEF NestedCall, Call, Argument, TypeOK, Untried, Paid, Redrives, Operating, Inside, Levels
<1>9. CASE Fork(t)
  <2>1. Children(t) # {} /\ pc'[t] = "join" /\ UNCHANGED <<depth, try_, wrap>>
    BY <1>9 DEF Fork
  <2>2. Children(t)' = Children(t)
    BY DEF Children
  <2> QED
    BY <1>0, <2>1, <2>2 DEF Untried, Paid
<1>10. CASE Join(t)
  <2>1. Children(t) # {} /\ Children(t)' = Children(t)
    BY <1>0, <1>10 DEF Join, Untried, Children
  <2>2. pc'[t] \in {"body", "refresh", "unwind"} /\ UNCHANGED <<depth, try_>>
    BY <1>0, <1>10 DEF Join, AfterFunc, TypeOK
  <2> QED
    BY <1>0, <2>1, <2>2 DEF Untried, Paid
<1>11. CASE Unwind(t)
  BY <1>0, <1>11, <1>d, <1>i, SMTT(30) DEF Unwind, AfterFunc, TypeOK, Untried, Paid, Redrives, Operating, Inside, Levels
<1> QED
  BY <1>1, <1>2, <1>3, <1>4, <1>5, <1>6, <1>7, <1>8, <1>9, <1>10, <1>11 DEF ThreadStep

\* Another host changes an object: the wrapper of a call may get behind, and the budget grows.
LEMMA ChangesPay ==
  ASSUME IInv, PaidOK, NEW u \in Uuids, OutOfBand(u), NEW t \in Threads
  PROVE  Untried(t)' /\ Paid(t)'
<1>0. Untried(t) /\ Paid(t) /\ TypeOK
  BY DEF PaidOK, IInv, TypeInv
<1>1. Untried(t)'
  BY <1>0 DEF Untried, OutOfBand
<1>2. Paid(t)'
  BY <1>0, ConstantsOK DEF Paid, OutOfBand, TypeOK, Children
<1> QED
  BY <1>1, <1>2

\* Together: PaidOK is inductive, given IInv.
LEMMA PaidStep == IInv /\ IInv' /\ PaidOK /\ [Next]_vars => PaidOK'
<1> SUFFICES ASSUME IInv, IInv', PaidOK, [Next]_vars PROVE PaidOK'
  OBVIOUS
<1>1. CASE UNCHANGED vars
  BY <1>1 DEF vars, PaidOK, Untried, Paid, Redrives
<1>2. ASSUME NEW t \in Threads, ThreadStep(t) PROVE PaidOK'
  BY <1>2, OwnPays, OthersPay DEF PaidOK
<1>3. ASSUME NEW u \in Uuids, OutOfBand(u) PROVE PaidOK'
  BY <1>3, ChangesPay DEF PaidOK
<1> QED
  BY <1>1, <1>2, <1>3 DEF Next, Terminated

\* entry_transaction, for every number of threads, objects, levels, tries and out-of-band
\* changes: see RetriesAreForOutOfBandChanges.
THEOREM RetriesArePaidFor == Spec => []RetriesAreForOutOfBandChanges
<1>1. IInv /\ PaidOK => RetriesAreForOutOfBandChanges
  <2> SUFFICES ASSUME IInv, PaidOK, NEW t \in Threads, Children(t) = {}, owns[t][Depth[t]]
               PROVE  try_[t][Depth[t]] <= 1 + oob + (IF UsesGetter[t] THEN 0 ELSE 1)
    BY DEF RetriesAreForOutOfBandChanges
  <2>1. try_[t][Depth[t]] \in Nat /\ oob \in Nat
    BY ConstantsOK DEF IInv, TypeInv, TypeOK
  <2>2. Paid(t)
    BY DEF PaidOK
  <2> QED
    BY <2>1, <2>2 DEF Paid
<1> QED
  BY <1>1, IInvHolds, PaidInit, PaidStep, PTL DEF Spec
=============================================================================
