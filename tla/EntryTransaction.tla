--------------------------- MODULE EntryTransaction ---------------------------
(***************************************************************************)
(* pypowervm.utils.transaction.entry_transaction, with the retry decorator *)
(* it builds on and the etag check of the REST server.                     *)
(*                                                                         *)
(* A thread calls a decorated function on an object; the function may call *)
(* another decorated function (one more level of nesting), may run         *)
(* WrapperTasks in worker threads that inherit the list of locked UUIDs    *)
(* (FeedTask with ContextThreadPoolExecutor), and may POST its wrapper.    *)
(* What the decorated function itself does is arbitrary within that.       *)
(***************************************************************************)
EXTENDS Naturals, FiniteSets

CONSTANTS
  Threads,      \* threads of the process
  Uuids,        \* PowerVM objects
  NoThread,     \* "nobody": a free lock, a thread with no parent
  NoWrap,       \* the wrapper of a call that got a getter, before its GET
  MaxDepth,     \* deepest nesting of decorated calls
  Depth,        \* thread -> how deep its calls nest
  Plan,         \* thread -> level -> UUID of the first argument of that call
  UsesGetter,   \* thread -> it passes EntryWrapperGetters, not EntryWrappers
  Parent,       \* thread -> the thread whose FeedTask runs it, or NoThread
  Tries,        \* the tries= of the retry decorator (60 in the code)
  MaxOOB        \* bound on changes made by others (another host, the HMC)

Levels == 1 .. MaxDepth
Children(t) == {c \in Threads : Parent[c] = t}

ASSUME ConstantsOK ==
  /\ MaxDepth \in Nat \ {0}
  /\ Depth \in [Threads -> Levels]
  /\ Plan \in [Threads -> [Levels -> Uuids]]
  /\ UsesGetter \in [Threads -> BOOLEAN]
  /\ NoThread \notin Threads
  /\ Parent \in [Threads -> Threads \cup {NoThread}]
  /\ Tries \in Nat \ {0}
  /\ MaxOOB \in Nat

\* Worker threads do not run FeedTasks of their own.
ASSUME OneLevelOfWorkers ==
  \A t \in Threads : Parent[t] # NoThread => Parent[Parent[t]] = NoThread

\* A modification is named by who makes it: a call of a thread, or the n-th
\* out-of-band change.
Mods == (Threads \X Levels) \cup ({NoThread} \X (1 .. MaxOOB))
Entry == [etag : Nat, mods : SUBSET Mods]

ASSUME NoWrapIsNoEntry == NoWrap \notin Entry

VARIABLES
  server,   \* uuid -> the object on the REST server
  lock,     \* uuid -> the thread inside lock.synchronized(uuid)
  held,     \* thread -> its thread-local list of locked UUIDs
  pc,       \* thread -> where it is
  depth,    \* thread -> how many decorated calls are on its stack
  owns,     \* thread -> level -> that call took the lock
  wrap,     \* thread -> level -> the wrapper passed to func, or NoWrap
  try_,     \* thread -> level -> the retry decorator's loop variable
  did,      \* thread -> level -> what func has done in this try
  exc,      \* thread -> the exception being propagated, or the result
  oob       \* changes made out-of-band so far

vars == <<server, lock, held, pc, depth, owns, wrap, try_, did, exc, oob>>

PCs == {"idle", "start", "lock", "resolve", "body", "refresh", "join",
        "unwind", "end"}

uuid(t) == Plan[t][depth[t]]

TypeOK ==
  /\ server \in [Uuids -> Entry]
  /\ lock \in [Uuids -> Threads \cup {NoThread}]
  /\ held \in [Threads -> SUBSET Uuids]
  /\ pc \in [Threads -> PCs]
  /\ depth \in [Threads -> 0 .. MaxDepth]
  /\ owns \in [Threads -> [Levels -> BOOLEAN]]
  /\ wrap \in [Threads -> [Levels -> Entry \cup {NoWrap}]]
  /\ try_ \in [Threads -> [Levels -> 0 .. Tries]]
  /\ did \in [Threads -> [Levels -> SUBSET {"call", "fork", "post"}]]
  /\ exc \in [Threads -> {"ok", "etag", "other"}]
  /\ oob \in 0 .. MaxOOB

Init ==
  /\ server = [u \in Uuids |-> [etag |-> 0, mods |-> {}]]
  /\ lock = [u \in Uuids |-> NoThread]
  /\ held = [t \in Threads |-> {}]
  /\ pc = [t \in Threads |-> IF Parent[t] = NoThread THEN "start" ELSE "idle"]
  /\ depth = [t \in Threads |-> 0]
  /\ owns = [t \in Threads |-> [l \in Levels |-> FALSE]]
  /\ wrap = [t \in Threads |-> [l \in Levels |-> NoWrap]]
  /\ try_ = [t \in Threads |-> [l \in Levels |-> 0]]
  /\ did = [t \in Threads |-> [l \in Levels |-> {}]]
  /\ exc = [t \in Threads |-> "ok"]
  /\ oob = 0

-----------------------------------------------------------------------------
Goto(t, label) == pc' = [pc EXCEPT ![t] = label]

\* The argument of a decorated call: a getter is resolved later, a wrapper
\* has been fetched by now.
GetBeforeLock(t, l) == server[Plan[t][l]]   \* mutant: the getter is resolved at once
Argument(t, l) == IF UsesGetter[t] THEN NoWrap ELSE server[Plan[t][l]]

\* A decorated call, from the top level or from inside another one.
Call(t) ==
  LET l == depth[t] + 1 IN
  /\ depth' = [depth EXCEPT ![t] = l]
  /\ wrap' = [wrap EXCEPT ![t][l] = Argument(t, l)]
  /\ Goto(t, "lock")

Start(t) ==
  /\ pc[t] = "start"
  /\ Call(t)
  /\ UNCHANGED <<server, lock, held, owns, try_, did, exc, oob>>

\* _lock_if_needed: the UUID is in the list of this thread.
AlreadyLocked(t) == uuid(t) \in held[t]

SkipLock(t) ==
  /\ pc[t] = "lock"
  /\ AlreadyLocked(t)
  /\ Goto(t, "resolve")
  /\ UNCHANGED <<server, lock, held, depth, owns, wrap, try_, did, exc, oob>>

\* lock.synchronized(uuid) lets one thread in at a time.
NoSynchronized(t) == TRUE                   \* mutant
LockIsFree(t) == lock[uuid(t)] = NoThread

\* _lock_if_needed, entering _locked_resolve_wrapper.
AcquireLock(t) ==
  /\ pc[t] = "lock"
  /\ ~AlreadyLocked(t)
  /\ LockIsFree(t)
  /\ lock' = [lock EXCEPT ![uuid(t)] = t]
  /\ held' = [held EXCEPT ![t] = @ \cup {uuid(t)}]
  /\ owns' = [owns EXCEPT ![t][depth[t]] = TRUE]
  /\ Goto(t, "resolve")
  /\ UNCHANGED <<server, depth, wrap, try_, did, exc, oob>>

\* _resolve_wrapper: the getter's GET, or the wrapper as it was passed; then
\* the first try of the retry loop.
Resolve(t) ==
  /\ pc[t] = "resolve"
  /\ wrap' = [wrap EXCEPT ![t][depth[t]] = IF @ = NoWrap THEN server[uuid(t)] ELSE @]
  /\ try_' = [try_ EXCEPT ![t][depth[t]] = 1]
  /\ did' = [did EXCEPT ![t][depth[t]] = {}]
  /\ Goto(t, "body")
  /\ UNCHANGED <<server, lock, held, depth, owns, exc, oob>>

\* func is about to return or raise: where the try block of the retry
\* decorator around level l sends a thread whose func ended with e.
AfterFunc(t, l, e) ==
  IF e = "etag" /\ try_[t][l] < Tries THEN "refresh" ELSE "unwind"

\* func returns, or fails for a reason that is not an etag mismatch; so may
\* the GET of the getter and the GET of refresh_wrapper.
FuncReturns(t) ==
  /\ pc[t] = "body"
  /\ exc' = [exc EXCEPT ![t] = "ok"]
  /\ Goto(t, "unwind")
  /\ UNCHANGED <<server, lock, held, depth, owns, wrap, try_, did, oob>>

OtherError(t) ==
  /\ \/ pc[t] \in {"body", "refresh"}
     \/ pc[t] = "resolve" /\ wrap[t][depth[t]] = NoWrap
  /\ exc' = [exc EXCEPT ![t] = "other"]
  /\ Goto(t, "unwind")
  /\ UNCHANGED <<server, lock, held, depth, owns, wrap, try_, did, oob>>

\* func POSTs its modified wrapper with the wrapper's etag; the server refuses
\* it if the object has changed since.
NoIfMatch(t) == TRUE                        \* mutant
EtagMatches(t) == wrap[t][depth[t]].etag = server[uuid(t)].etag

PostAccepted(t) ==
  /\ pc[t] = "body"
  /\ "post" \notin did[t][depth[t]]
  /\ EtagMatches(t)
  /\ server' = [server EXCEPT ![uuid(t)] =
       [etag |-> @.etag + 1, mods |-> wrap[t][depth[t]].mods \cup {<<t, depth[t]>>}]]
  /\ did' = [did EXCEPT ![t][depth[t]] = @ \cup {"post"}]
  /\ UNCHANGED <<lock, held, pc, depth, owns, wrap, try_, exc, oob>>

PostMismatch(t) ==
  /\ pc[t] = "body"
  /\ "post" \notin did[t][depth[t]]
  /\ ~EtagMatches(t)
  /\ exc' = [exc EXCEPT ![t] = "etag"]
  /\ Goto(t, AfterFunc(t, depth[t], "etag"))
  /\ UNCHANGED <<server, lock, held, depth, owns, wrap, try_, did, oob>>

\* delay_func, then argmod_func = refresh_wrapper, then the next try.
Refresh(t) ==
  /\ pc[t] = "refresh"
  /\ wrap' = [wrap EXCEPT ![t][depth[t]] = server[uuid(t)]]
  /\ try_' = [try_ EXCEPT ![t][depth[t]] = @ + 1]
  /\ did' = [did EXCEPT ![t][depth[t]] = {}]
  /\ Goto(t, "body")
  /\ UNCHANGED <<server, lock, held, depth, owns, exc, oob>>

\* func calls another decorated function.
NestedCall(t) ==
  /\ pc[t] = "body"
  /\ depth[t] < Depth[t]
  /\ "call" \notin did[t][depth[t]]
  /\ did' = [did EXCEPT ![t][depth[t]] = @ \cup {"call"}]
  /\ Call(t)
  /\ UNCHANGED <<server, lock, held, owns, try_, exc, oob>>

\* func runs a FeedTask: ContextThreadPoolExecutor.submit copies the list of
\* locks of this thread into each worker.
Fork(t) ==
  /\ pc[t] = "body"
  /\ Children(t) # {}
  /\ "fork" \notin did[t][depth[t]]
  /\ did' = [did EXCEPT ![t][depth[t]] = @ \cup {"fork"}]
  /\ pc' = [c \in Threads |-> IF c = t THEN "join"
                              ELSE IF Parent[c] = t THEN "start" ELSE pc[c]]
  /\ held' = [c \in Threads |-> IF Parent[c] = t THEN held[t] ELSE held[c]]
  /\ UNCHANGED <<server, lock, depth, owns, wrap, try_, exc, oob>>

\* The engine waits for every worker.  One failure is raised as it is, more
\* become MultipleExceptionsInFeedTask.
Join(t) ==
  LET failed == {c \in Children(t) : exc[c] # "ok"}
      e == IF \E c \in failed : failed = {c} /\ exc[c] = "etag" THEN "etag" ELSE "other"
  IN
  /\ pc[t] = "join"
  /\ \A c \in Children(t) : pc[c] = "end"
  /\ exc' = [exc EXCEPT ![t] = IF failed = {} THEN @ ELSE e]
  /\ Goto(t, IF failed = {} THEN "body" ELSE AfterFunc(t, depth[t], e))
  /\ UNCHANGED <<server, lock, held, depth, owns, wrap, try_, did, oob>>

\* The finally clause: what was locked is unlocked, however func ended.
NoFinally(t) == owns[t][depth[t]] /\ exc[t] = "ok"   \* mutant
Unlocks(t) == owns[t][depth[t]]

\* The call at the top of the stack ends: the finally clause and the exit of
\* lock.synchronized, then the caller's func goes on or fails in its turn.
Unwind(t) ==
  LET l == depth[t] IN
  /\ pc[t] = "unwind"
  /\ IF Unlocks(t)
     THEN /\ held' = [held EXCEPT ![t] = @ \ {uuid(t)}]
          /\ lock' = [lock EXCEPT ![uuid(t)] = NoThread]
     ELSE UNCHANGED <<held, lock>>
  /\ owns' = [owns EXCEPT ![t][l] = FALSE]
  /\ depth' = [depth EXCEPT ![t] = l - 1]
  /\ Goto(t, IF l = 1 THEN "end"
             ELSE IF exc[t] = "ok" THEN "body" ELSE AfterFunc(t, l - 1, exc[t]))
  /\ wrap' = [wrap EXCEPT ![t][l] = NoWrap]
  /\ try_' = [try_ EXCEPT ![t][l] = 0]
  /\ did' = [did EXCEPT ![t][l] = {}]
  /\ UNCHANGED <<server, exc, oob>>

\* Somebody else changes the object.
OutOfBand(u) ==
  /\ oob < MaxOOB
  /\ oob' = oob + 1
  /\ server' = [server EXCEPT ![u] =
       [etag |-> @.etag + 1, mods |-> @.mods \cup {<<NoThread, oob + 1>>}]]
  /\ UNCHANGED <<lock, held, pc, depth, owns, wrap, try_, did, exc>>

ThreadStep(t) ==
  \/ Start(t) \/ SkipLock(t) \/ AcquireLock(t) \/ Resolve(t)
  \/ FuncReturns(t) \/ OtherError(t) \/ PostAccepted(t) \/ PostMismatch(t)
  \/ Refresh(t) \/ NestedCall(t) \/ Fork(t) \/ Join(t) \/ Unwind(t)

Terminated ==
  /\ \A t \in Threads : pc[t] \in {"idle", "end"}
  /\ UNCHANGED vars

Next ==
  \/ \E t \in Threads : ThreadStep(t)
  \/ \E u \in Uuids : OutOfBand(u)
  \/ Terminated

Spec == Init /\ [][Next]_vars

\* Threads are scheduled by the interpreter, and the lock of a UUID is passed
\* on when it is released.
FairSpec == Spec /\ \A t \in Threads : WF_vars(ThreadStep(t))

-----------------------------------------------------------------------------
\* The call at level l of t is past _lock_if_needed: it may GET, modify and
\* POST its object.
Operating(t, l) ==
  l < depth[t] \/ (l = depth[t] /\ pc[t] \in {"resolve", "body", "refresh", "join", "unwind"})

\* Whoever operates on an object does so under the lock of its UUID, taken by
\* a call further down its own stack or by the thread that is waiting for it
\* (entry_transaction's _lock_if_needed, ContextThreadPoolExecutor.submit).
OperatesUnderLock ==
  \A t \in Threads : \A l \in Levels :
    Operating(t, l) => /\ lock[Plan[t][l]] \in {t, Parent[t]} \ {NoThread}
                       /\ lock[Plan[t][l]] # t => pc[Parent[t]] = "join"

\* A lock is held only by a thread that is still inside the call that took it:
\* no exit of a decorated call, by any exception, leaves the object locked or
\* leaves its UUID in the thread's list (the finally of _locked_resolve_wrapper).
NoLockLeaks ==
  /\ \A u \in Uuids : lock[u] # NoThread =>
       \E l \in Levels : Plan[lock[u]][l] = u /\ Operating(lock[u], l)
  /\ \A t \in Threads : Parent[t] = NoThread /\ depth[t] = 0 => held[t] = {}

\* entry_transaction's docstring, point 2: "Only one method thus decorated can
\* operate on that PowerVM object at one time".  Nested calls of one thread on
\* one object are meant to be let through, and a thread that waits for its
\* workers does nothing; two threads at work on one object are excluded.
MutualExclusion ==
  \A a, b \in Threads : \A l, m \in Levels :
    /\ a # b
    /\ Operating(a, l) /\ pc[a] # "join"
    /\ Operating(b, m) /\ pc[b] # "join"
    => Plan[a][l] # Plan[b][m]

\* What is changed under the lock costs no retry: a call that took the lock
\* itself, and whose func neither nests nor forks, is redriven only for
\* out-of-band changes, plus once if its wrapper was fetched before the lock
\* (_resolve_wrapper inside _locked_resolve_wrapper, refresh_wrapper).
RetriesAreForOutOfBandChanges ==
  \A t \in Threads :
    LET l == Depth[t] IN
    Children(t) = {} /\ owns[t][l] =>
      try_[t][l] <= 1 + oob + (IF UsesGetter[t] THEN 0 ELSE 1)

\* The objects on the server change only by atomic modifications of their
\* current content: an update() made from a stale wrapper never overwrites
\* what somebody else has done (If-Match on the POST, refresh before a redrive).
Abstract == INSTANCE VersionedObject WITH object <- server
NoLostUpdate == Abstract!Spec

\* Every decorated call ends, whatever other threads and hosts do to the
\* object meanwhile: the lock is always passed on and the tries run out.
EveryCallEnds == \A t \in Threads : (pc[t] = "lock") ~> (pc[t] = "end")
=============================================================================
