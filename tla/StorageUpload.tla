---------------------------- MODULE StorageUpload ----------------------------
(***************************************************************************)
(* pypowervm.tasks.storage: uploads of images into new virtual disks,      *)
(* virtual optical media and logical units.  Every call creates a File     *)
(* artifact, waits for one of the upload permits, uploads, gives the       *)
(* permit back and deletes the artifact; a virtual disk is created before  *)
(* and removed again if the upload fails.                                  *)
(***************************************************************************)
EXTENDS Integers, FiniteSets

CONSTANTS
  Uploads,      \* calls
  Kinds,        \* of "vdisk", "lu", "vopt" (a stream), "path" (a vopt by path), "func";
                \* the stream of a "vdisk" or "lu" may be opened by a builder
  Permits,      \* of _UPLOAD_SEM
  NoUpload,
  MaxAttempts,  \* of _upload_file
  MaxCallFaults,    \* bound on the calls that fail or are interrupted
  MaxTouched    \* bound on the changes of others to the volume group

ASSUME UploadTasksOK ==
  /\ NoUpload \notin Uploads
  /\ Permits \in Nat \ {0} /\ MaxAttempts \in Nat \ {0} /\ MaxCallFaults \in Nat /\ MaxTouched \in Nat

VARIABLES
  kind,       \* upload -> what is uploaded
  upc,        \* upload -> where it is
  group,      \* the volume group: [disks, ver]
  groupLock,  \* holder of 'vol_grp_lock'
  copy,       \* upload -> its wrapper of the volume group
  files,      \* uploads whose File artifact exists
  filled,     \* uploads whose data has arrived
  sem,        \* the value of _UPLOAD_SEM
  attempt,    \* upload -> the attempt of _upload_file
  writer,     \* upload -> the thread that writes into the pipe
  out,        \* upload -> "none", "ok", "marker" (the File is returned) or "raised"
  callFaults, touched,
  excused,    \* observer: uploads that failed before the upload or failed to clean up
  unopened,   \* observer: uploads whose stream could not be opened
  interrupted,\* observer: uploads interrupted by other than an Exception
  surplus     \* observer: waits for a permit that were interrupted

observed == <<excused, unopened, interrupted, surplus>>
upVars == <<kind, upc, group, groupLock, copy, files, filled, sem, attempt, writer, out, callFaults, touched, observed>>

UploadInit ==
  /\ kind \in [Uploads -> Kinds]
  /\ upc = [u \in Uploads |-> IF kind[u] \in {"vdisk", "func"} THEN "vg" ELSE "file"]
  /\ group = [disks |-> {}, ver |-> 0]
  /\ groupLock = NoUpload
  /\ copy = [u \in Uploads |-> [disks |-> {}, ver |-> 0]]
  /\ files = {} /\ filled = {}
  /\ sem = Permits
  /\ attempt = [u \in Uploads |-> 1]
  /\ writer = [u \in Uploads |-> "none"]
  /\ out = [u \in Uploads |-> "none"]
  /\ callFaults = 0 /\ touched = 0
  /\ excused = {} /\ unopened = {} /\ interrupted = {} /\ surplus = 0

To(u, where) == upc' = [upc EXCEPT ![u] = where]
Closes(u, how) == To(u, "end") /\ out' = [out EXCEPT ![u] = how]
CallFault == callFaults < MaxCallFaults /\ callFaults' = callFaults + 1
HasDisk(u) == kind[u] \in {"vdisk", "func"}

-----------------------------------------------------------------------------
(* crt_vdisk, under the lock, without retries.                             *)

GetGroup(u) ==
  /\ upc[u] = "vg" /\ groupLock = NoUpload
  /\ groupLock' = u
  /\ copy' = [copy EXCEPT ![u] = group]
  /\ To(u, "post")
  /\ UNCHANGED <<kind, group, files, filled, sem, attempt, writer, out, callFaults, touched, observed>>

Overwrites(u) == TRUE                           \* mutant: the group is written without an etag
Unmodified(u) == copy[u].ver = group.ver
WithDisk(u) == [disks |-> copy[u].disks \cup {u}, ver |-> group.ver + 1]

CrtVdisk(u) ==
  /\ upc[u] = "post"
  /\ groupLock' = NoUpload
  /\ \/ Unmodified(u) /\ group' = WithDisk(u) /\ To(u, "file") /\ UNCHANGED <<out, excused, callFaults>>
     \/ ~Unmodified(u) /\ Closes(u, "raised") /\ excused' = excused \cup {u} /\ UNCHANGED <<group, callFaults>>
     \/ /\ CallFault /\ Closes(u, "raised") /\ excused' = excused \cup {u}
        /\ group' = group \/ (Unmodified(u) /\ group' = WithDisk(u))
  /\ UNCHANGED <<kind, copy, files, filled, sem, attempt, writer, touched, unopened, interrupted, surplus>>

\* _create_file.  A request that fails may have been carried out.
CreateFile(u) ==
  /\ upc[u] = "file"
  /\ \/ files' = files \cup {u} /\ To(u, "open") /\ UNCHANGED <<out, callFaults, excused>>
     \/ CallFault /\ Closes(u, "raised") /\ excused' = excused \cup {u} /\ files' \in {files, files \cup {u}}
  /\ UNCHANGED <<kind, group, groupLock, copy, filled, sem, attempt, writer, touched, unopened, interrupted, surplus>>

-----------------------------------------------------------------------------
(* _upload_stream.                                                         *)

\* The builder is called, or the file opened, before the try: nothing deletes the
\* File when that fails, but the clean-up of a disk and the next attempt at a path.
Opens(u) == kind[u] \in {"vdisk", "lu", "path"}

OpenStream(u) ==
  /\ upc[u] = "open"
  /\ To(u, "sem")
  /\ UNCHANGED <<kind, group, groupLock, copy, files, filled, sem, attempt, writer, out, callFaults, touched, observed>>

OpenFails(u) ==
  /\ upc[u] = "open" /\ Opens(u) /\ CallFault
  /\ IF kind[u] = "path" /\ attempt[u] < MaxAttempts
     THEN attempt' = [attempt EXCEPT ![u] = @ + 1] /\ UNCHANGED <<upc, out, unopened>>
     ELSE /\ IF HasDisk(u) THEN To(u, "clean") /\ UNCHANGED out ELSE Closes(u, "raised")
          /\ unopened' = unopened \cup {u} /\ UNCHANGED attempt
  /\ UNCHANGED <<kind, group, groupLock, copy, files, filled, sem, writer, touched, excused, interrupted, surplus>>

AcquirePermit(u) ==
  /\ upc[u] = "sem" /\ sem > 0
  /\ sem' = sem - 1
  /\ To(u, IF kind[u] = "func" THEN "pipe" ELSE "upload")
  /\ writer' = [writer EXCEPT ![u] = IF kind[u] = "func" THEN "opening" ELSE @]
  /\ UNCHANGED <<kind, group, groupLock, copy, files, filled, attempt, out, callFaults, touched, observed>>

\* The thread is interrupted inside the try, in the wait for the permit (then the
\* finally clause gives back one that was never taken) or in the upload.
Interrupted(u) ==
  /\ upc[u] = "sem" \/ (upc[u] = "upload" /\ kind[u] # "func")
  /\ CallFault
  /\ sem' = sem + 1
  /\ surplus' = IF upc[u] = "sem" THEN surplus + 1 ELSE surplus
  /\ interrupted' = interrupted \cup {u}
  /\ To(u, "delete_intr")
  /\ UNCHANGED <<kind, group, groupLock, copy, files, filled, attempt, writer, out, touched, excused, unopened>>

\* _upload_stream_api and the release.  Without its File the server has nowhere to
\* put the data.
Released == sem + 1
Uploaded(u) ==
  /\ upc[u] = "upload" /\ u \in files /\ (kind[u] = "func" => writer[u] = "done")
  /\ filled' = filled \cup {u}
  /\ sem' = sem + 1
  /\ To(u, "delete")
  /\ UNCHANGED <<kind, group, groupLock, copy, files, attempt, writer, out, callFaults, touched, observed>>

StreamFails(u) ==
  /\ upc[u] = "upload" /\ kind[u] # "func"
  /\ IF u \in files THEN CallFault ELSE UNCHANGED callFaults
  /\ sem' = Released
  /\ To(u, "delete_bad")
  /\ UNCHANGED <<kind, group, groupLock, copy, files, filled, attempt, writer, out, touched, observed>>

\* _rest_api_pipe: the reader opens the FIFO when the writer does; a writer that
\* raises before leaves the reader in open().
OpenPipe(u) ==
  /\ upc[u] = "pipe" /\ writer[u] = "opening"
  /\ \/ writer' = [writer EXCEPT ![u] = "writing"] /\ To(u, "upload") /\ UNCHANGED callFaults
     \/ writer' = [writer EXCEPT ![u] = "failed"] /\ CallFault /\ UNCHANGED upc
  /\ UNCHANGED <<kind, group, groupLock, copy, files, filled, sem, attempt, out, touched, observed>>

\* The writer goes on while somebody reads, and finishes or raises.
WriterEnds(u) ==
  /\ upc[u] = "upload" /\ writer[u] = "writing"
  /\ \/ writer' = [writer EXCEPT ![u] = "done"] /\ UNCHANGED callFaults
     \/ writer' = [writer EXCEPT ![u] = "failed"] /\ CallFault
  /\ UNCHANGED <<kind, upc, group, groupLock, copy, files, filled, sem, attempt, out, touched, observed>>

\* The executor is left only when the writer has ended; the FIFO is closed after.
\* What the writer still has may fit into the pipe.
FuncFails(u) ==
  /\ upc[u] = "upload" /\ kind[u] = "func"
  /\ \/ writer[u] = "failed" /\ UNCHANGED <<writer, callFaults>>
     \/ writer[u] = "writing" /\ CallFault /\ \E w \in {"done", "blocked"} : writer' = [writer EXCEPT ![u] = w]
     \/ writer[u] = "done" /\ CallFault /\ UNCHANGED writer
  /\ To(u, "join")
  /\ UNCHANGED <<kind, group, groupLock, copy, files, filled, sem, attempt, out, touched, observed>>

Join(u) ==
  /\ upc[u] = "join" /\ writer[u] # "blocked"
  /\ sem' = Released
  /\ To(u, "delete_bad")
  /\ UNCHANGED <<kind, group, groupLock, copy, files, filled, attempt, writer, out, callFaults, touched, observed>>

-----------------------------------------------------------------------------
(* _delete_vio_file, and what follows.                                     *)

DeleteFile(u) ==
  /\ upc[u] = "delete"
  /\ \/ files' = files \ {u} /\ Closes(u, "ok") /\ UNCHANGED callFaults
     \/ CallFault /\ Closes(u, "marker") /\ UNCHANGED files
  /\ UNCHANGED <<kind, group, groupLock, copy, filled, sem, attempt, writer, touched, observed>>

\* Nobody catches what is not an Exception: no clean-up of the disk, no retry.
DeleteInterrupted(u) ==
  /\ upc[u] = "delete_intr"
  /\ \/ files' = files \ {u} /\ UNCHANGED <<callFaults, excused>>
     \/ CallFault /\ excused' = excused \cup {u} /\ UNCHANGED files
  /\ Closes(u, "raised")
  /\ UNCHANGED <<kind, group, groupLock, copy, filled, sem, attempt, writer, touched, unopened, interrupted, surplus>>

\* _upload_file tries again, with the same File.
DeleteAfterError(u) ==
  /\ upc[u] = "delete_bad"
  /\ \/ files' = files \ {u} /\ UNCHANGED <<callFaults, excused>>
     \/ /\ CallFault /\ u \in files /\ UNCHANGED files
        /\ excused' = IF HasDisk(u) THEN excused ELSE excused \cup {u}
  /\ IF HasDisk(u) THEN To(u, "clean") /\ UNCHANGED <<out, attempt>>
     ELSE IF kind[u] = "path" /\ attempt[u] < MaxAttempts
     THEN To(u, "open") /\ attempt' = [attempt EXCEPT ![u] = @ + 1] /\ UNCHANGED out
     ELSE Closes(u, "raised") /\ UNCHANGED attempt
  /\ UNCHANGED <<kind, group, groupLock, copy, filled, sem, writer, touched, unopened, interrupted, surplus>>

\* _clean_out_bad_upload: the group is fetched before the lock is taken.
CleanGet(u) ==
  /\ upc[u] = "clean"
  /\ \/ copy' = [copy EXCEPT ![u] = group] /\ To(u, "rmlock") /\ UNCHANGED <<out, callFaults, excused>>
     \/ CallFault /\ Closes(u, "raised") /\ excused' = excused \cup {u} /\ UNCHANGED copy
  /\ UNCHANGED <<kind, group, groupLock, files, filled, sem, attempt, writer, touched, unopened, interrupted, surplus>>

RmLock(u) ==
  /\ upc[u] = "rmlock" /\ groupLock = NoUpload
  /\ groupLock' = u
  /\ To(u, "rm")
  /\ UNCHANGED <<kind, group, copy, files, filled, sem, attempt, writer, out, callFaults, touched, observed>>

\* rm_vg_storage; refresh_wrapper when the etag does not match.
RmVgStorage(u) ==
  /\ upc[u] = "rm"
  /\ \/ /\ Unmodified(u)
        /\ group' = [disks |-> copy[u].disks \ {u}, ver |-> group.ver + 1]
        /\ groupLock' = NoUpload /\ To(u, "rmfile") /\ UNCHANGED <<copy, out, callFaults, excused>>
     \/ ~Unmodified(u) /\ copy' = [copy EXCEPT ![u] = group] /\ UNCHANGED <<group, groupLock, upc, out, callFaults, excused>>
     \/ /\ CallFault /\ Closes(u, "raised") /\ excused' = excused \cup {u}
        /\ groupLock' = NoUpload /\ UNCHANGED <<group, copy>>
  /\ UNCHANGED <<kind, files, filled, sem, attempt, writer, touched, unopened, interrupted, surplus>>

CleanFile(u) ==
  /\ upc[u] = "rmfile"
  /\ \/ files' = files \ {u} /\ UNCHANGED <<callFaults, excused>>
     \/ CallFault /\ u \in files /\ excused' = excused \cup {u} /\ UNCHANGED files
  /\ Closes(u, "raised")
  /\ UNCHANGED <<kind, group, groupLock, copy, filled, sem, attempt, writer, touched, unopened, interrupted, surplus>>

\* Another user changes the volume group.
TouchGroup ==
  /\ touched < MaxTouched
  /\ touched' = touched + 1
  /\ group' = [group EXCEPT !.ver = @ + 1]
  /\ UNCHANGED <<kind, upc, groupLock, copy, files, filled, sem, attempt, writer, out, callFaults, observed>>

UploadStep(u) ==
  \/ GetGroup(u) \/ CrtVdisk(u) \/ CreateFile(u) \/ OpenStream(u) \/ OpenFails(u)
  \/ AcquirePermit(u) \/ Interrupted(u)
  \/ Uploaded(u) \/ StreamFails(u) \/ OpenPipe(u) \/ WriterEnds(u) \/ FuncFails(u) \/ Join(u)
  \/ DeleteFile(u) \/ DeleteInterrupted(u) \/ DeleteAfterError(u) \/ CleanGet(u) \/ RmLock(u) \/ RmVgStorage(u) \/ CleanFile(u)
UploadNext == (\E u \in Uploads : UploadStep(u)) \/ TouchGroup

\* Every call runs in a thread of its own.
UploadSpec == UploadInit /\ [][UploadNext]_upVars /\ \A u \in Uploads : WF_upVars(UploadStep(u))

-----------------------------------------------------------------------------
(* Properties.                                                             *)

Holders == {u \in Uploads : upc[u] \in {"pipe", "upload", "join"}}

\* _upload_stream: however an upload ends, no permit is lost, and there is one too
\* many only for each wait that was interrupted.
PermitsAddUp == sem + Cardinality(Holders) = Permits + surplus

\* What is left when a call has returned or raised: its File is deleted or returned
\* as a marker; a disk is there and filled if the call succeeded, whatever others
\* did to the group meanwhile.  If the upload failed the File is gone, unless the
\* stream could not be opened, and the disk is, unless the thread was interrupted.
NothingDangles ==
  \A u \in Uploads :
    /\ out[u] = "ok" => u \in filled \ files
    /\ out[u] = "marker" => u \in filled \cap files
    /\ out[u] \in {"ok", "marker"} /\ HasDisk(u) => u \in group.disks
    /\ out[u] = "raised" /\ u \notin excused =>
         /\ u \in files => u \in unopened /\ ~HasDisk(u)
         /\ u \in group.disks => u \in interrupted

\* An upload gives back what it took: its permit, its File and, if it failed, its disk.
GivesBack == PermitsAddUp /\ NothingDangles

\* Every upload from a stream or a file returns or raises, in spite of failed
\* calls, of the lock and of the permits - unless uploads by a function hold all
\* permits for ever.
UploadEnds ==
  \A u \in Uploads : (kind[u] # "func") ~> (upc[u] = "end" \/ Permits <= Cardinality({h \in Holders : kind[h] = "func"}))

\* Refuted.  A test wants the upload by path to succeed in its second attempt; the
\* first attempt has deleted the File that the second one uploads to.
OneFaultIsRetried ==
  \A u \in Uploads : kind[u] = "path" /\ callFaults = 1 /\ upc[u] = "end" /\ u \notin excused => out[u] # "raised"

\* Refuted.  An upload by a function that writes into a pipe ends, too: "Close and
\* clean up the FIFO, carefully.  Any step could have raised."
FuncUploadEnds == \A u \in Uploads : (kind[u] = "func") ~> (upc[u] = "end")

\* Refuted.  At most as many uploads at a time as there are permits.
ConcurrentUploads == Cardinality(Holders) <= Permits

\* Refuted.  _upload_stream: "These artifacts must be cleaned up because there is a
\* 100 file limit."  Not if the builder of the stream raises, or the path cannot be opened.
ArtifactsAreCleanedUp == \A u \in Uploads : out[u] = "raised" /\ u \notin excused => u \notin files
=============================================================================
