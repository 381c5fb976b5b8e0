------------------------------ MODULE MCEvents ------------------------------
(* The events of a Session.  Making the listener and using it share nothing  *)
(* but which listener there is, and a token counts only until there is one:  *)
(* the interleavings of the two add nothing, and the run leaves them out.    *)
EXTENDS EventListener

Used == started > 0 \/ happened > 0

MCNext ==
  /\ Next
  /\ Used' => \A u \in Users \ {listener'} : upc'[u] = "idle"
  /\ token' # token => listener = NoUser

MCSpec == Init /\ [][MCNext]_vars

MCFairSpec == MCSpec /\ Fairness
=============================================================================
