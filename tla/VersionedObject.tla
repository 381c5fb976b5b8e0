--------------------------- MODULE VersionedObject ---------------------------
(***************************************************************************)
(* What the REST server promises the users of pypowervm about one object   *)
(* (an LPAR, a VIOS, an SSP...): its content changes only by atomic        *)
(* modifications, each made to the content that was current at that        *)
(* moment, and every change gives the object a new etag.  This is the      *)
(* abstract specification that the entry_transaction machinery has to      *)
(* preserve: no modification is ever overwritten by a stale copy.          *)
(***************************************************************************)
EXTENDS Naturals

CONSTANTS
  Uuids,     \* the PowerVM objects
  Mods       \* the modifications that may be made to them

VARIABLE object   \* uuid -> its etag and the modifications it reflects

Init == object = [u \in Uuids |-> [etag |-> 0, mods |-> {}]]

Modify(u, m) ==
  object' = [object EXCEPT ![u] = [etag |-> @.etag + 1, mods |-> @.mods \cup {m}]]

Next == \E u \in Uuids, m \in Mods : Modify(u, m)

Spec == Init /\ [][Next]_object
=============================================================================
