------------------------- MODULE MCEntryTransaction -------------------------
(***************************************************************************)
(* Small instances of EntryTransaction.                                    *)
(***************************************************************************)
EXTENDS EntryTransaction, TLC

CONSTANTS t1, t2, t3, u1, u2, u3

\* t1, inside a transaction on u1, runs a FeedTask with the worker t2 over u2,
\* whose subtask changes u1 too, so that t1 finds its own object changed.  t3
\* has nothing to do with them and nests a transaction on u2 in one on u3.
MixedDepth == t1 :> 1 @@ t2 :> 2 @@ t3 :> 2
MixedPlan == t1 :> <<u1, u1>> @@ t2 :> <<u2, u1>> @@ t3 :> <<u3, u2>>
MixedGetter == t1 :> FALSE @@ t2 :> TRUE @@ t3 :> TRUE
MixedParent == t1 :> NoThread @@ t2 :> t1 @@ t3 :> NoThread

\* t1, inside a transaction on u1, runs a FeedTask over u2 and u3 whose
\* subtasks call a decorated function on u1.
SiblingDepth == t1 :> 1 @@ t2 :> 2 @@ t3 :> 2
SiblingPlan == t1 :> <<u1, u1>> @@ t2 :> <<u2, u1>> @@ t3 :> <<u3, u1>>
SiblingGetter == [t \in Threads |-> TRUE]
SiblingParent == t1 :> NoThread @@ t2 :> t1 @@ t3 :> t1
=============================================================================
