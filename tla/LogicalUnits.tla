---------------------------- MODULE LogicalUnits ----------------------------
(***************************************************************************)
(* The Logical Unit tasks of pypowervm.tasks.storage.  Disk LUs are linked *)
(* clones of Image LUs; whoever removes the last clone removes the image.  *)
(* Callers create clones (crt_lu, without a lock), remove LUs through the  *)
(* SSP (rm_ssp_storage: an entry transaction, checked by etag) and through *)
(* a Tier (rm_tier_storage: a feed, then one DELETE after another).        *)
(* A UDID is <<type prefix, body>>.                                        *)
(***************************************************************************)
EXTENDS Integers, FiniteSets

CONSTANTS
  LuCallers,   \* the threads
  LuCalls,     \* the calls they may make
  LuPools,     \* what the pool may hold at first: sets of LUs
  NoUdid,      \* cloned_from_udid of an LU that is no clone
  SspFree      \* the transaction lock is free

\* A UDID identifies an LU.
LusOf(call) == IF call.op = "clone" THEN {call.new} ELSE call.lus
AllLus == (UNION LuPools) \cup (UNION {LusOf(call) : call \in LuCalls})
ASSUME UdidsIdentify == \A a, b \in AllLus : a.udid = b.udid => a = b

VARIABLES
  pool,        \* the LUs of the SSP
  poolEtag,    \* the etag of the SSP
  defaultTier, \* the SSP has a default Tier
  luCall,      \* per thread: its call
  luPc,        \* per thread: where it is
  copyLus,     \* per thread: the LUs of its wrapper or feed
  copyEtag,    \* per thread: the etag of its wrapper
  doomed,      \* per thread: what rm_tier_storage has still to delete
  sspLock      \* who is in the entry transaction of the SSP

luVars == <<pool, poolEtag, defaultTier, luCall, luPc, copyLus, copyEtag, doomed, sspLock>>

-----------------------------------------------------------------------------
Body(udid) == udid[2]
\* "disregard the 2-digit 'type' prefix".
SameUdid(a, b) == Body(a) = Body(b)
LinkedTo(lu, img) == lu.from # NoUdid /\ SameUdid(img.udid, lu.from)

\* _image_lu_for_clone, as the set of the image found.
ImageLuForClone(lus, lu) == {i \in lus : i.typ = "Image" /\ LinkedTo(lu, i)}
ImageLuInUse(lus, img) == \E d \in lus : d.typ = "Disk" /\ LinkedTo(d, img)

\* _rm_dev_by_udid, for every LU to remove: an absent one is ignored.
RmDevsByUdid(lus, devs) == {lu \in lus : \A d \in devs : d.udid # lu.udid}

\* _rm_lus: the images are looked up even for clones that are gone already.
UnusedImages(lus, call) ==
  LET rest == RmDevsByUdid(lus, call.lus)
      images == UNION {ImageLuForClone(rest, lu) : lu \in {l \in call.lus : l.typ = "Disk"}}
  IN  IF call.images THEN {i \in images : ~ImageLuInUse(rest, i)} ELSE {}
RmLus(lus, call) == (lus \ RmDevsByUdid(lus, call.lus)) \cup UnusedImages(lus, call)

-----------------------------------------------------------------------------
LuInit ==
  /\ pool \in LuPools
  /\ poolEtag = 0
  /\ defaultTier \in BOOLEAN
  /\ luCall \in [LuCallers -> LuCalls]
  /\ luPc = [t \in LuCallers |-> "start"]
  /\ copyLus = [t \in LuCallers |-> pool]
  /\ copyEtag = [t \in LuCallers |-> 0]
  /\ doomed = [t \in LuCallers |-> {}]
  /\ sspLock = SspFree

LuGoto(t, p) == luPc' = [luPc EXCEPT ![t] = p]
RefreshSsp(t) ==
  /\ copyLus' = [copyLus EXCEPT ![t] = pool]
  /\ copyEtag' = [copyEtag EXCEPT ![t] = poolEtag]

\* crt_lu, also for crt_lu_linked_clone: NoDefaultTierFoundOnSSP; the server refuses
\* the clone of an image it no longer has, with an HttpError that is raised.
FindTier(t) ==
  /\ luPc[t] = "start" /\ luCall[t].op = "clone"
  /\ LuGoto(t, IF luCall[t].ssp /\ ~defaultTier THEN "raised" ELSE "create")
  /\ UNCHANGED <<pool, poolEtag, defaultTier, luCall, copyLus, copyEtag, doomed, sspLock>>
CreateLu(t) ==
  /\ luPc[t] = "create"
  /\ IF \E i \in pool : i.typ = "Image" /\ LinkedTo(luCall[t].new, i)
       THEN /\ pool' = pool \cup {luCall[t].new}
            /\ poolEtag' = poolEtag + 1
            /\ LuGoto(t, IF luCall[t].ssp THEN "refresh" ELSE "done")
       ELSE /\ LuGoto(t, "raised")
            /\ UNCHANGED <<pool, poolEtag>>
  /\ UNCHANGED <<defaultTier, luCall, copyLus, copyEtag, doomed, sspLock>>
\* "Refresh the SSP to pick up the new LU and etag".
RefreshAfterCreate(t) ==
  /\ luPc[t] = "refresh"
  /\ RefreshSsp(t)
  /\ LuGoto(t, "done")
  /\ UNCHANGED <<pool, poolEtag, defaultTier, luCall, doomed, sspLock>>

\* rm_ssp_storage: the transaction takes the lock; the wrapper may be old by then.
EnterTransaction(t) ==
  /\ luPc[t] = "start" /\ luCall[t].op = "rm_ssp"
  /\ sspLock = SspFree
  /\ sspLock' = t
  /\ LuGoto(t, "modify")
  /\ UNCHANGED <<pool, poolEtag, defaultTier, luCall, copyLus, copyEtag, doomed>>
AnyEtag(t) == TRUE  \* mutant: the update overwrites what has changed
EtagMatches(t) == copyEtag[t] = poolEtag
\* The update carries the whole list of LUs.  Without a change there is no update.
UpdateSsp(t) ==
  /\ luPc[t] = "modify"
  /\ LET gone == RmLus(copyLus[t], luCall[t]) IN
       IF gone = {}
         THEN UNCHANGED <<pool, poolEtag>>
         ELSE /\ EtagMatches(t)
              /\ pool' = copyLus[t] \ gone
              /\ poolEtag' = poolEtag + 1
  /\ sspLock' = SspFree
  /\ LuGoto(t, "done")
  /\ UNCHANGED <<defaultTier, luCall, copyLus, copyEtag, doomed>>
\* The etag mismatch makes the transaction refresh the wrapper and start again.
RetryWithFreshSsp(t) ==
  /\ luPc[t] = "modify"
  /\ RmLus(copyLus[t], luCall[t]) # {} /\ ~EtagMatches(t)
  /\ RefreshSsp(t)
  /\ UNCHANGED <<pool, poolEtag, defaultTier, luCall, luPc, doomed, sspLock>>

\* rm_tier_storage: the GET of the feed and the choice of what to delete; with a
\* feed of the caller's there is no GET.
PlanDeletes(t) ==
  /\ luPc[t] = "start" /\ luCall[t].op = "rm_tier"
  /\ LET lufeed == IF luCall[t].feed THEN copyLus[t] ELSE pool IN
       /\ copyLus' = [copyLus EXCEPT ![t] = lufeed]
       /\ doomed' = [doomed EXCEPT ![t] = RmLus(lufeed, luCall[t])]
  /\ LuGoto(t, "delete")
  /\ UNCHANGED <<pool, poolEtag, defaultTier, luCall, copyEtag, sspLock>>
\* The LUs of the caller first, then the images; an HttpError is ignored, which is
\* what an LU that is gone gives, and what an image in use may give.
NextDoomed(t) == LET own == {lu \in doomed[t] : \E d \in luCall[t].lus : d.udid = lu.udid} IN IF own # {} THEN own ELSE doomed[t]
DeleteOne(t) ==
  /\ luPc[t] = "delete"
  /\ \E lu \in NextDoomed(t) :
       /\ doomed' = [doomed EXCEPT ![t] = @ \ {lu}]
       /\ \/ lu \in pool /\ pool' = pool \ {lu} /\ poolEtag' = poolEtag + 1
          \/ (lu \notin pool \/ ImageLuInUse(pool, lu)) /\ UNCHANGED <<pool, poolEtag>>
  /\ UNCHANGED <<defaultTier, luCall, luPc, copyLus, copyEtag, sspLock>>
AllDeleted(t) ==
  /\ luPc[t] = "delete" /\ doomed[t] = {}
  /\ LuGoto(t, "done")
  /\ UNCHANGED <<pool, poolEtag, defaultTier, luCall, copyLus, copyEtag, doomed, sspLock>>

LuStep(t) ==
  \/ FindTier(t) \/ CreateLu(t) \/ RefreshAfterCreate(t)
  \/ EnterTransaction(t) \/ UpdateSsp(t) \/ RetryWithFreshSsp(t)
  \/ PlanDeletes(t) \/ DeleteOne(t) \/ AllDeleted(t)
LuNext == \E t \in LuCallers : LuStep(t)
LuSpec == LuInit /\ [][LuNext]_luVars

-----------------------------------------------------------------------------
(* Properties.                                                             *)

HasClones(lus, img) == \E d \in lus : d.typ = "Disk" /\ d.from # NoUdid /\ d.from[2] = img.udid[2]
LostImage(lus, img) == img \in lus /\ img.typ = "Image"

\* The end of a transaction.
UpdateIsClean(t) ==
  luPc[t] = "modify" /\ luPc'[t] = "done" =>
    /\ pool' \subseteq pool
    /\ \A lu \in pool \ pool' : lu \in luCall[t].lus \/ (LostImage(pool, lu) /\ luCall[t].images)
    /\ \A lu \in pool \ (pool' \cup luCall[t].lus) : LostImage(pool, lu) => ~HasClones(pool', lu)
    /\ luCall[t].images => \A img \in pool' :
         LostImage(pool', img) /\ ~HasClones(pool', img) => \A lu \in pool \ pool' : ~HasClones({lu}, img)

\* "If True, and a removed Disk LU was the last one linked to its backing Image LU, the
\* backing Image LU is also removed" (rm_ssp_storage): whatever other callers have
\* created and removed since its wrapper was read, the update removes no LU but those
\* it was given and unused images of theirs; unless it was given the image itself, it
\* never removes the image of a clone that stays, and after it no image is left whose
\* last clone it has removed.
ImageGoesWithLastClone == [][\A t \in LuCallers : UpdateIsClean(t)]_luVars

\* Refuted.  The same words of rm_tier_storage: two removers whose feeds show each
\* other's clone both leave the image.
TierRemovesUnused ==
  (\A t \in LuCallers : luPc[t] \in {"done", "raised"} /\ (luCall[t].op # "clone" => luCall[t].images)) =>
    \A img \in pool : LostImage(pool, img) =>
      HasClones(pool, img) \/ ~\E t \in LuCallers : luCall[t].op = "rm_tier" /\ HasClones(luCall[t].lus, img)
=============================================================================
