----------------------------- MODULE ImageUpload -----------------------------
(***************************************************************************)
(* pypowervm.tasks.cluster_ssp.get_or_upload_image_lu: hosts that share a  *)
(* storage pool, and cannot communicate otherwise, agree on who uploads an *)
(* image by creating marker LUs named part<random><luname>.  A host stands *)
(* for one call; hosts are numbered in the alphabetic order of their       *)
(* markers.  Every REST call is a step of its own.                         *)
(***************************************************************************)
EXTENDS Naturals, FiniteSets

CONSTANTS
  NHosts,        \* calls that race
  MaxCrashes     \* bound on the hosts that die

Hosts == 1 .. NHosts

ASSUME UploadConstantsOK == NHosts \in Nat /\ MaxCrashes \in Nat

VARIABLES
  markers,    \* hosts whose marker LU exists
  images,     \* hosts whose image LU exists
  complete,   \* hosts whose image has been uploaded in full
  pc,         \* host -> where in get_or_upload_image_lu
  got,        \* host -> the image LU it was returned (by creator), 0 if none
  foreign,    \* an image LU of another image, whose name contains luname:
              \* "none", or sorted before ("first") or after ("last") markers
  stuck,      \* hosts that failed to delete an LU of theirs
  lost,       \* hosts that created an LU and were not answered
  crashes     \* hosts that have died

vars == <<markers, images, complete, pc, got, foreign, stuck, lost, crashes>>

TypeOK ==
  /\ markers \subseteq Hosts
  /\ images \subseteq Hosts
  /\ complete \subseteq images
  /\ pc \in [Hosts -> {"find", "sleep", "mark", "conflict", "abdicate", "create",
                       "upload", "remove", "unmark_ok", "unmark_err", "returned", "raised",
                       "dead"}]
  /\ got \in [Hosts -> Hosts \cup {0}]
  /\ foreign \in {"none", "first", "last"}
  /\ stuck \subseteq Hosts /\ lost \subseteq Hosts
  /\ crashes \in 0 .. MaxCrashes
  /\ \A h \in Hosts : (got[h] # 0) <=> (pc[h] = "returned")

Init ==
  /\ markers = {}
  /\ images = {}
  /\ complete = {}
  /\ pc = [h \in Hosts |-> "find"]
  /\ got = [h \in Hosts |-> 0]
  /\ foreign \in {"none", "first", "last"}
  /\ stuck = {} /\ lost = {}
  /\ crashes = 0

-----------------------------------------------------------------------------
Goto(h, where) == pc' = [pc EXCEPT ![h] = where]

\* The number of LUs that _find_lus returns.
Found == Cardinality(markers) + Cardinality(images) + (IF foreign = "none" THEN 0 ELSE 1)

\* len(lus) == 1 and lus[0].name == luname
AnyImage == images # {}                     \* mutant: the markers are not looked at
OnlyTheImage == Found = 1 /\ images # {}

InProgress == markers # {}

FindLus(h) ==
  /\ pc[h] = "find"
  /\ IF OnlyTheImage
     THEN \E i \in images : got' = [got EXCEPT ![h] = i] /\ Goto(h, "returned")
     ELSE Goto(h, IF InProgress THEN "sleep" ELSE "mark") /\ UNCHANGED got
  /\ UNCHANGED <<markers, images, complete, foreign, stuck, lost, crashes>>

\* A request that reads the LUs raises, before the marker is made or after.
ReadFails(h) ==
  /\ pc[h] \in {"find", "conflict"}
  /\ Goto(h, IF pc[h] = "find" THEN "raised" ELSE "unmark_err")
  /\ UNCHANGED <<markers, images, complete, got, foreign, stuck, lost, crashes>>

Sleep(h) ==
  /\ pc[h] = "sleep"
  /\ Goto(h, "find")
  /\ UNCHANGED <<markers, images, complete, got, foreign, stuck, lost, crashes>>

CreateMarker(h) ==
  /\ pc[h] = "mark"
  /\ markers' = markers \cup {h}
  /\ Goto(h, "conflict")
  /\ UNCHANGED <<images, complete, got, foreign, stuck, lost, crashes>>

\* The request fails, or is carried out and its answer is lost: the try with
\* the clean-up has not been entered.
MarkerFails(h) ==
  /\ pc[h] = "mark"
  /\ Goto(h, "raised")
  /\ \/ UNCHANGED <<markers, lost>>
     \/ markers' = markers \cup {h} /\ lost' = lost \cup {h}
  /\ UNCHANGED <<images, complete, got, foreign, stuck, crashes>>

\* _upload_conflict: an image LU, or somebody else's LU sorts first.
Conflict(h) ==
  \/ images # {}
  \/ foreign = "first"
  \/ \E m \in markers : m < h

UploadConflict(h) ==
  /\ pc[h] = "conflict"
  /\ Goto(h, IF Conflict(h) THEN "abdicate" ELSE "create")
  /\ UNCHANGED <<markers, images, complete, got, foreign, stuck, lost, crashes>>

\* finally: the marker is deleted - after the sleep, when abdicating.
Unmarked(h) == markers \ {h}

Unmark(h) ==
  /\ pc[h] \in {"abdicate", "unmark_ok", "unmark_err"}
  /\ markers' = Unmarked(h)
  /\ IF pc[h] = "unmark_ok"
     THEN Goto(h, "returned") /\ got' = [got EXCEPT ![h] = h]
     ELSE Goto(h, IF pc[h] = "abdicate" THEN "find" ELSE "raised") /\ UNCHANGED got
  /\ UNCHANGED <<images, complete, foreign, stuck, lost, crashes>>

\* An exception of the delete replaces the return value.
UnmarkFails(h) ==
  /\ pc[h] \in {"abdicate", "unmark_ok", "unmark_err"}
  /\ Goto(h, "raised")
  /\ \/ stuck' = stuck \cup {h} /\ UNCHANGED markers
     \/ markers' = Unmarked(h) /\ UNCHANGED stuck
  /\ UNCHANGED <<images, complete, got, foreign, lost, crashes>>

\* The server may or may not refuse a second LU of the same name.
CreateImage(h) ==
  /\ pc[h] = "create"
  /\ Goto(h, "upload")
  /\ images' = images \cup {h}
  /\ UNCHANGED <<markers, complete, got, foreign, stuck, lost, crashes>>

\* Refused, failed, or carried out without an answer: the try that deletes the
\* LU has not been entered, only the marker goes.
ImageFails(h) ==
  /\ pc[h] = "create"
  /\ Goto(h, "unmark_err")
  /\ \/ UNCHANGED <<images, lost>>
     \/ images' = images \cup {h} /\ lost' = lost \cup {h}
  /\ UNCHANGED <<markers, complete, got, foreign, stuck, crashes>>

Upload(h) ==
  /\ pc[h] = "upload"
  /\ complete' = complete \cup {h}
  /\ Goto(h, "unmark_ok")
  /\ UNCHANGED <<markers, images, got, foreign, stuck, lost, crashes>>

AfterFailure == "remove"

UploadFails(h) ==
  /\ pc[h] = "upload"
  /\ Goto(h, AfterFailure)
  /\ UNCHANGED <<markers, images, complete, got, foreign, stuck, lost, crashes>>

RemovesByName(h) == {}                      \* mutant: every LU of that name goes
ImagesWithout(h) == images \ {h}

RemoveImage(h) ==
  /\ pc[h] = "remove"
  /\ \/ images' = ImagesWithout(h) /\ UNCHANGED stuck
     \/ stuck' = stuck \cup {h} /\ UNCHANGED images
  /\ Goto(h, "unmark_err")
  /\ UNCHANGED <<markers, complete, got, foreign, lost, crashes>>

Ended(h) == pc[h] \in {"returned", "raised", "dead"}

Crash(h) ==
  /\ crashes < MaxCrashes
  /\ ~Ended(h)
  /\ crashes' = crashes + 1
  /\ Goto(h, "dead")
  /\ UNCHANGED <<markers, images, complete, got, foreign, stuck, lost>>

Step(h) ==
  \/ FindLus(h) \/ ReadFails(h) \/ Sleep(h) \/ CreateMarker(h) \/ MarkerFails(h) \/ UploadConflict(h)
  \/ Unmark(h) \/ UnmarkFails(h) \/ CreateImage(h) \/ ImageFails(h) \/ Upload(h) \/ UploadFails(h) \/ RemoveImage(h)

Done == (\A h \in Hosts : Ended(h)) /\ UNCHANGED vars

Next == Done \/ \E h \in Hosts : Step(h) \/ Crash(h)

Spec == Init /\ [][Next]_vars
FairSpec == Spec /\ \A h \in Hosts : WF_vars(Step(h))

-----------------------------------------------------------------------------
\* Whoever is returned an image LU is returned one that has been uploaded in
\* full, whatever the other hosts are doing and whichever of them have died; the
\* exceptions are an LU whose upload and whose delete have both failed, and one
\* whose creator was not answered and so neither fills nor deletes it.
ReturnedIsComplete ==
  \A h \in Hosts : got[h] # 0 => got[h] \in images /\ got[h] \in complete \cup stuck \cup lost

\* A call that ends, is answered, and can delete its LUs, leaves neither a marker,
\* which would block later calls, nor a half-uploaded image, whatever others do.
NothingLeftBehind ==
  \A h \in Hosts \ (stuck \cup lost) :
    pc[h] \in {"returned", "raised"} => h \notin markers /\ h \notin images \ complete

\* An image that has been uploaded stays, although hosts that raced for the same
\* name fail and clean up, die, or cannot delete their LUs.
UploadedStays == [][complete \subseteq complete' \cap images']_vars

\* Every call ends, unless something that the loop of get_or_upload_image_lu
\* cannot pass stays in the SSP: the marker of a call that is over, a second LU
\* of the image, or an LU whose name contains that of the image.
CallEnds ==
  \A h \in Hosts :
    <>[](\/ Ended(h)
         \/ \E m \in markers : Ended(m)
         \/ Cardinality(images) > 1
         \/ foreign # "none")

-----------------------------------------------------------------------------
(* What comments and docstrings say and the code does not keep: TLC refutes *)
(* each of these (README, "Disagreements").                                 *)

\* get_or_upload_image_lu: "We all use _upload_conflict to decide which one of us
\* gets to do the upload."
OneUploader ==
  \A g, h \in Hosts : pc[g] \in {"create", "upload"} /\ pc[h] \in {"create", "upload"} => g = h

\* get_or_upload_image_lu: "Does the LU already exist in its final, uploaded
\* form?  If so, then only that LU will exist, with an exact name match."
ReturnedIsUploaded == \A h \in Hosts : got[h] # 0 => got[h] \in complete
=============================================================================
