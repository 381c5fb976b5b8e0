------------------------------ MODULE FeedTask ------------------------------
(***************************************************************************)
(* pypowervm.utils.transaction: FeedTask, WrapperTask and Subtask.         *)
(*                                                                         *)
(* A consumer adds Subtasks to a FeedTask; when the individual             *)
(* WrapperTasks are needed the feed is fetched and the common list of      *)
(* Subtasks is replicated into one WrapperTask per UUID; execute runs the  *)
(* WrapperTasks in parallel threads, each under @entry_transaction (whose  *)
(* etag mismatches redrive it), and then the post-execution tasks.  The    *)
(* Subtask objects, with the keyword arguments saved in them, are shared   *)
(* by all the WrapperTasks.                                                *)
(***************************************************************************)
EXTENDS Naturals, Sequences, FiniteSets, SequencesExt

CONSTANTS
  Uuids,          \* the wrappers the server has of the feed's type
  Subtasks,       \* Subtask instances
  Labels,         \* 'provides' names
  NoLabel,        \* a Subtask without 'provides'
  Provides,       \* subtask -> its label or NoLabel
  TakesProvided,  \* subtask -> its execute accepts the keyword 'provided'
  FlagUpdate,     \* subtask -> a true return triggers an update()
  Specific,       \* subtasks the consumer adds to single WrapperTasks
  Tries,          \* tries of the transaction around a WrapperTask
  None

ASSUME FeedConstantsOK ==
  /\ Provides \in [Subtasks -> Labels \cup {NoLabel}]
  /\ TakesProvided \in [Subtasks -> BOOLEAN]
  /\ FlagUpdate \in [Subtasks -> BOOLEAN]
  /\ Specific \subseteq Subtasks
  /\ NoLabel \notin Labels
  /\ None \notin Uuids /\ None \notin Seq(Subtasks)
  /\ Tries \in Nat \ {0}

VARIABLES
  feed,       \* the fetched feed (the UUIDs in it), or None
  common,     \* _common_tx: its Subtasks and its provided_keys
  tx,         \* _tx_by_uuid: uuid -> Subtasks and provided_keys (once replicated)
  sealed,     \* _tx_by_uuid is still empty
  added,      \* Subtasks accepted by FeedTask.add_subtask so far, in order
  main,       \* the thread that builds and executes the FeedTask
  kwargs,     \* subtask -> whose 'provided' its save_kwargs hold, or None
  pc,         \* uuid -> where the thread of its WrapperTask is
  pos,        \* uuid -> index of the Subtask in turn
  try_,       \* uuid -> the try of the transaction
  local,      \* uuid -> Subtasks that changed the wrapper in this try
  update,     \* uuid -> update_needed
  provided,   \* uuid -> label -> the try that provided a value, or 0
  saw,        \* uuid -> what the last Subtask got as 'provided'
  posted      \* uuid -> the changes its accepted POST carried, or None

vars == <<feed, common, tx, sealed, added, main, kwargs, pc, pos, try_, local,
          update, provided, saw, posted>>
building == <<feed, common, tx, sealed, added>>
running == <<kwargs, pc, pos, try_, local, update, provided, saw, posted>>

Task == [tasks : Seq(Subtasks), keys : SUBSET Labels]
Empty == [tasks |-> <<>>, keys |-> {}]
Nothing == [l \in Labels |-> 0]

TypeOK ==
  /\ feed \in (SUBSET Uuids) \cup {None}
  /\ common \in Task
  /\ tx \in [Uuids -> Task]
  /\ sealed \in BOOLEAN
  /\ added \in Seq(Subtasks)
  /\ main \in {"build", "run", "post_exec", "end", "empty_feed", "raised", "raised_many"}
  /\ kwargs \in [Subtasks -> Uuids \cup {None}]
  /\ pc \in [Uuids -> {"idle", "begin", "bind", "exec", "finish", "done", "failed"}]
  /\ pos \in [Uuids -> Nat]
  /\ try_ \in [Uuids -> 1 .. Tries]
  /\ local \in [Uuids -> Seq(Subtasks)]
  /\ update \in [Uuids -> BOOLEAN]
  /\ provided \in [Uuids -> [Labels -> 0 .. Tries]]
  /\ saw \in [Uuids -> [owner : Uuids \cup {None}, values : [Labels -> 0 .. Tries]]]
  /\ posted \in [Uuids -> Seq(Subtasks) \cup {None}]

\* A FeedTask is made with a FeedGetter, or with a feed already fetched.
Init ==
  /\ feed \in ((SUBSET Uuids) \ {{}}) \cup {None}
  /\ common = Empty
  /\ tx = [u \in Uuids |-> Empty]
  /\ sealed = TRUE
  /\ added = <<>>
  /\ main = "build"
  /\ kwargs = [k \in Subtasks |-> None]
  /\ pc = [u \in Uuids |-> "idle"]
  /\ pos = [u \in Uuids |-> 0]
  /\ try_ = [u \in Uuids |-> 1]
  /\ local = [u \in Uuids |-> <<>>]
  /\ update = [u \in Uuids |-> FALSE]
  /\ provided = [u \in Uuids |-> Nothing]
  /\ saw = [u \in Uuids |-> [owner |-> u, values |-> Nothing]]
  /\ posted = [u \in Uuids |-> None]

-----------------------------------------------------------------------------
(* Building.                                                               *)

\* WrapperTask.add_subtask: a label already among the provided_keys is refused.
Refuses(task, k) == Provides[k] \in task.keys
WithSubtask(task, k) ==
  [tasks |-> Append(task.tasks, k), keys |-> task.keys \cup ({Provides[k]} \ {NoLabel})]

\* FeedTask.add_subtask, before replication.
AddCommon(k) ==
  /\ main = "build" /\ sealed
  /\ k \notin ToSet(added)
  /\ ~Refuses(common, k)
  /\ common' = WithSubtask(common, k)
  /\ added' = Append(added, k)
  /\ UNCHANGED <<feed, tx, sealed, main, running>>

\* FeedTask.add_subtask, after replication: to each WrapperTask in turn.
ToSomeOnly(k) == [u \in Uuids |-> IF u \in feed /\ tx[u].keys = {}   \* mutant
                                   THEN WithSubtask(tx[u], k) ELSE tx[u]]
ToEach(k) == [u \in Uuids |-> IF u \in feed THEN WithSubtask(tx[u], k) ELSE tx[u]]

AddToAll(k) ==
  /\ main = "build" /\ ~sealed
  /\ k \notin ToSet(added)
  /\ \A u \in feed : ~Refuses(tx[u], k)
  /\ tx' = ToEach(k)
  /\ added' = Append(added, k)
  /\ UNCHANGED <<feed, common, sealed, main, running>>

\* The same when a WrapperTask refuses the label: ValueError, and those that
\* came before it keep the Subtask.
AddToAllRefused(k) ==
  LET willing == {u \in feed : ~Refuses(tx[u], k)} IN
  /\ main = "build" /\ ~sealed
  /\ \A u \in feed : k \notin ToSet(tx[u].tasks)
  /\ willing # feed
  /\ \E before \in SUBSET willing :
       tx' = [u \in Uuids |-> IF u \in before THEN WithSubtask(tx[u], k) ELSE tx[u]]
  /\ UNCHANGED <<feed, common, sealed, added, main, running>>

\* wrapper_tasks[u].add_subtask.
AddToOne(u, k) ==
  /\ main = "build" /\ ~sealed
  /\ u \in feed
  /\ k \notin ToSet(tx[u].tasks)
  /\ ~Refuses(tx[u], k)
  /\ tx' = [tx EXCEPT ![u] = WithSubtask(@, k)]
  /\ UNCHANGED <<feed, common, sealed, added, main, running>>

\* .wrapper_tasks, with the GET of .feed.  The WrapperTasks are seeded with the
\* common Subtasks; their provided_keys start empty.
Replicate ==
  \E f \in IF feed = None THEN (SUBSET Uuids) \ {{}} ELSE {feed} :
    /\ feed' = f
    /\ sealed' = FALSE
    /\ tx' = [u \in Uuids |-> IF u \in f THEN [tasks |-> common.tasks, keys |-> {}]
                                          ELSE Empty]

BreakSeal ==
  /\ main = "build" /\ sealed
  /\ Replicate
  /\ UNCHANGED <<common, added, main, running>>

\* The GET may bring an empty feed, when it is asked for early or by execute:
\* FeedTaskEmptyFeed.
EmptyFeed ==
  /\ main = "build" /\ sealed
  /\ feed = None
  /\ feed' = {}
  /\ main' = "empty_feed"
  /\ UNCHANGED <<common, tx, sealed, added, running>>

-----------------------------------------------------------------------------
(* Executing.                                                              *)

\* execute without WrapperTasks and Subtasks goes straight to the post-execs.
ExecuteNothing ==
  /\ main = "build" /\ sealed
  /\ common.tasks = <<>>
  /\ main' = "post_exec"
  /\ UNCHANGED <<building, running>>

Execute ==
  /\ main = "build"
  /\ \/ sealed /\ common.tasks # <<>> /\ Replicate
     \/ ~sealed /\ UNCHANGED <<feed, sealed, tx>>
  /\ main' = "run"
  /\ pc' = [u \in Uuids |-> IF u \in feed' THEN "begin" ELSE "idle"]
  /\ UNCHANGED <<common, added, kwargs, pos, try_, local, update, provided, saw, posted>>

\* WrapperTask.execute: no Subtasks and allow_empty, or into the transaction.
Begin(u) ==
  /\ pc[u] = "begin"
  /\ pc' = [pc EXCEPT ![u] = IF tx[u].tasks = <<>> THEN "done" ELSE "bind"]
  /\ pos' = [pos EXCEPT ![u] = 1]
  /\ UNCHANGED <<building, main, kwargs, try_, local, update, provided, saw, posted>>

task(u) == tx[u].tasks[pos[u]]

\* kwargs = task.save_kwargs; kwargs['provided'] = self.provided
Bind(u) ==
  /\ pc[u] = "bind"
  /\ kwargs' = IF TakesProvided[task(u)] THEN [kwargs EXCEPT ![task(u)] = u] ELSE kwargs
  /\ pc' = [pc EXCEPT ![u] = "exec"]
  /\ UNCHANGED <<building, main, pos, try_, local, update, provided, saw, posted>>

\* The label of this Subtask now holds what it returned in this try.
NowProvided(u) ==
  [provided EXCEPT ![u] = [l \in Labels |-> IF l = Provides[task(u)]
                                            THEN try_[u] ELSE @[l]]]

NeedsUpdate(u, ret) == update[u] \/ (FlagUpdate[task(u)] /\ ret)

\* task.execute(wrapper, **kwargs) returns ret.
Exec(u, ret) ==
  /\ pc[u] = "exec"
  /\ saw' = IF TakesProvided[task(u)]
            THEN [saw EXCEPT ![u] = [owner |-> kwargs[task(u)],
                                     values |-> provided[kwargs[task(u)]]]]
            ELSE saw
  /\ local' = [local EXCEPT ![u] = IF ret THEN Append(@, task(u)) ELSE @]
  /\ update' = [update EXCEPT ![u] = NeedsUpdate(u, ret)]
  /\ provided' = NowProvided(u)
  /\ pos' = [pos EXCEPT ![u] = @ + 1]
  /\ pc' = [pc EXCEPT ![u] = IF pos[u] = Len(tx[u].tasks) THEN "finish" ELSE "bind"]
  /\ UNCHANGED <<building, main, kwargs, try_, posted>>

\* A Subtask, or the POST, fails for good: the WrapperTask's thread ends with
\* the exception.
Fails(u) ==
  /\ pc[u] = "exec" \/ (pc[u] = "finish" /\ update[u])
  /\ pc' = [pc EXCEPT ![u] = "failed"]
  /\ UNCHANGED <<building, main, kwargs, pos, try_, local, update, provided, saw, posted>>

\* No update needed, or wrapper.update() accepted.
Finish(u) ==
  /\ pc[u] = "finish"
  /\ posted' = [posted EXCEPT ![u] = IF update[u] THEN local[u] ELSE @]
  /\ pc' = [pc EXCEPT ![u] = "done"]
  /\ UNCHANGED <<building, main, kwargs, pos, try_, local, update, provided, saw>>

\* The wrapper as refresh_wrapper fetches it, without this try's changes.
NotModified(u) == local[u]      \* mutant: a refresh that may keep the wrapper
Refreshed(u) == <<>>

MayRetry(u) == try_[u] < Tries

\* wrapper.update() meets an etag mismatch: the transaction refreshes the
\* wrapper and redrives _execute, or gives up.
Mismatch(u) ==
  /\ pc[u] = "finish" /\ update[u]
  /\ IF MayRetry(u)
     THEN /\ try_' = [try_ EXCEPT ![u] = @ + 1]
          /\ local' = [local EXCEPT ![u] = Refreshed(u)]
          /\ update' = [update EXCEPT ![u] = FALSE]
          /\ pos' = [pos EXCEPT ![u] = 1]
          /\ pc' = [pc EXCEPT ![u] = "bind"]
     ELSE /\ pc' = [pc EXCEPT ![u] = "failed"]
          /\ UNCHANGED <<try_, local, update, pos>>
  /\ UNCHANGED <<building, main, kwargs, provided, saw, posted>>

\* The engine is done when every WrapperTask is; the post-execs run only if
\* none of them failed.
AllSucceeded == \A u \in feed : pc[u] = "done"  \* mutant
AllEnded == \A u \in feed : pc[u] \in {"done", "failed"}

EngineDone ==
  LET failures == {u \in feed : pc[u] = "failed"} IN
  /\ main = "run"
  /\ AllEnded
  /\ main' = CASE failures = {} -> "post_exec"
               [] Cardinality(failures) = 1 -> "raised"
               [] OTHER -> "raised_many"
  /\ UNCHANGED <<building, running>>

PostExec ==
  /\ main = "post_exec"
  /\ main' = "end"
  /\ UNCHANGED <<building, running>>

Ended ==
  /\ main \in {"end", "empty_feed", "raised", "raised_many"}
  /\ UNCHANGED vars

Worker(u) == \/ Begin(u) \/ Bind(u) \/ Fails(u) \/ Finish(u) \/ Mismatch(u)
             \/ \E ret \in BOOLEAN : Exec(u, ret)

Build == \/ \E k \in Subtasks \ Specific : AddCommon(k) \/ AddToAll(k) \/ AddToAllRefused(k)
         \/ \E u \in Uuids, k \in Specific : AddToOne(u, k)
         \/ BreakSeal \/ EmptyFeed

Main == Execute \/ ExecuteNothing \/ EngineDone \/ PostExec

Next == Build \/ Main \/ Ended \/ \E u \in Uuids : Worker(u)

Spec == Init /\ [][Next]_vars
FairSpec == Spec /\ WF_vars(Main) /\ \A u \in Uuids : WF_vars(Worker(u))

-----------------------------------------------------------------------------
\* Each element of s is in t, once, and in the order of s; t may have others.
OnceInOrder(s, t) ==
  /\ \A i \in DOMAIN s : \E n \in DOMAIN t : t[n] = s[i]
  /\ \A i, j \in DOMAIN s, m, n \in DOMAIN t : t[m] = s[i] /\ t[n] = s[j] => (i < j <=> m < n)

\* "Add a Subtask to *all* WrapperTasks in this FeedTask": whenever the feed is
\* replicated, each WrapperTask has the FeedTask's Subtasks, each once and in the
\* order in which they were added, whatever was added to it alone.
EverySubtaskReachesAll == ~sealed => \A u \in feed : OnceInOrder(added, tx[u].tasks)

\* What a WrapperTask POSTs is the work of its final try only, each change
\* once and in order; and it POSTs exactly if a flag_update Subtask made a
\* change in that try (update_needed, refresh_wrapper's use_etag=False).
PostsFinalTry ==
  \A u \in Uuids : pc[u] = "done" =>
    /\ posted[u] # None => OnceInOrder(posted[u], tx[u].tasks) /\ ToSet(posted[u]) = ToSet(local[u])
    /\ posted[u] # None <=> \E k \in ToSet(local[u]) : FlagUpdate[k]

\* The values that WrapperTask.execute returns come from the try that was
\* POSTed, never from an aborted one.
ResultsFromFinalTry ==
  \A u \in Uuids : pc[u] = "done" =>
    \A k \in ToSet(tx[u].tasks) : Provides[k] # NoLabel => provided[u][Provides[k]] = try_[u]

\* Only the final try counts, for what is POSTed and for what is returned.
FinalTryCounts == PostsFinalTry /\ ResultsFromFinalTry

\* The FeedTask ends, also when WrapperTasks fail or are redriven.
ExecuteEnds == (main = "run") ~> (main \in {"end", "raised", "raised_many"})

-----------------------------------------------------------------------------
(* What comments and docstrings say and the code does not keep: TLC refutes *)
(* each of these (README, "Disagreements").                                 *)

\* Subtask.execute's docstring: provided is the "Dict of return values
\* provided by Subtasks whose execution preceded this one", that is in the
\* same WrapperTask.
ProvidedIsOwn == \A u \in Uuids : saw[u].owner = u

\* The same docstring, for a WrapperTask alone in its feed: what a Subtask is
\* given was provided by a Subtask that ran before it in this execution.
ProvidedPrecedes ==
  \A u \in Uuids : pc[u] = "bind" /\ pos[u] > 1 =>
    \A i \in (pos[u] - 1) .. Len(tx[u].tasks) :
      Provides[tx[u].tasks[i]] # NoLabel => saw[u].values[Provides[tx[u].tasks[i]]] = 0

\* Subtask.__init__'s docstring: "The 'provides' name must be unique within a
\* WrapperTask."
UniqueProvides ==
  \A u \in Uuids : \A i, j \in 1 .. Len(tx[u].tasks) :
    i # j /\ Provides[tx[u].tasks[i]] # NoLabel
      => Provides[tx[u].tasks[i]] # Provides[tx[u].tasks[j]]
=============================================================================
