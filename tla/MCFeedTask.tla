----------------------------- MODULE MCFeedTask -----------------------------
(***************************************************************************)
(* Small instances of FeedTask.                                            *)
(***************************************************************************)
EXTENDS FeedTask, TLC

CONSTANTS k1, k2, k3, a

\* k1 provides a without asking for an update, k2 uses what is provided; k3,
\* which provides a too, is added to single WrapperTasks.
MixedProvides == k1 :> a @@ k2 :> NoLabel @@ k3 :> a
MixedTakes == k1 :> FALSE @@ k2 :> TRUE @@ k3 :> FALSE
MixedFlags == k1 :> FALSE @@ k2 :> TRUE @@ k3 :> TRUE

\* k1 uses what is provided, k2 provides a.
LateProvides == k1 :> NoLabel @@ k2 :> a
LateTakes == k1 :> TRUE @@ k2 :> FALSE
LateFlags == [k \in Subtasks |-> TRUE]
=============================================================================
