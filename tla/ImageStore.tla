------------------------------ MODULE ImageStore ------------------------------
(***************************************************************************)
(* Archived images: the files of a task (internal/imagestore/local.go),    *)
(* the signed proxy that serves them and its cache                         *)
(* (internal/gateway/images_proxy.go, images_proxy_cache.go).  A save of   *)
(* several images, the proxy's requests, the administrator's deletions and *)
(* the clock interleave; writes fail and the process dies.                 *)
(***************************************************************************)
EXTENDS Integers, FiniteSets

CONSTANTS
    LastImage,      \* images of the task have the indexes 1..LastImage
    Readers,        \* requests to the proxy
    CacheTTL,       \* life of a cached image
    CacheMax,       \* entries the cache may hold
    MaxNow,         \* bound on the clock
    MMaxFaults      \* bound on failures and deletions

ASSUME StoreAssumption ==
    /\ LastImage \in Nat \ {0} /\ IsFiniteSet(Readers)
    /\ CacheTTL \in Nat \ {0} /\ CacheMax \in Nat \ {0}
    /\ MaxNow \in Nat /\ MMaxFaults \in Nat

VARIABLES
    mFile,      \* the file under its name: none, part or whole
    mTmp,       \* its .tmp file: none, part or whole
    mSave,      \* the call of saveTaskImages
    mRead,      \* the proxy's requests
    mCache,     \* expiry of the cached images, 0 without an entry
    mStored,    \* when they were stored
    mNow,
    mGone,      \* when a file was last removed
    mOverlap,   \* files removed while a request held their bytes
    mServed,    \* what the last served image was
    mFaults

mVars == <<mFile, mTmp, mSave, mRead, mCache, mStored, mNow, mGone, mOverlap, mServed, mFaults>>

Kinds == {"original", "thumb"}
Names == (1..LastImage) \X Kinds
MIdle == [pc |-> "idle"]

MInit ==
    /\ mFile = [n \in Names |-> "none"] /\ mTmp = [n \in Names |-> "none"]
    /\ mSave = [pc |-> "write", name |-> <<1, "original">>, cleanup |-> {}]
    /\ mRead = [r \in Readers |-> MIdle]
    /\ mCache = [n \in Names |-> 0] /\ mStored = [n \in Names |-> 0]
    /\ mNow = 1
    /\ mGone = [n \in Names |-> 0] /\ mOverlap = {}
    /\ mServed = "none"
    /\ mFaults = 0

cacheState == <<mCache, mStored>>
MFault == mFaults < MMaxFaults /\ mFaults' = mFaults + 1

Held(n) == \E r \in Readers : mRead[r].pc = "store" /\ mRead[r].name = n

\* Files disappear: when, and who still has what was in them.
RemoveFiles(names) ==
    LET there == {n \in names : mFile[n] # "none"}
    IN /\ mFile' = [n \in Names |-> IF n \in names THEN "none" ELSE mFile[n]]
       /\ mGone' = [n \in Names |-> IF n \in there THEN mNow ELSE mGone[n]]
       /\ mOverlap' = mOverlap \cup {n \in there : Held(n)}

-----------------------------------------------------------------------------
(* saveTaskImages: original and thumbnail of one image after the other,    *)
(* each as a .tmp file that is renamed.                                    *)

NextName(n) == IF n[2] = "original" THEN <<n[1], "thumb">> ELSE <<n[1] + 1, "original">>

\* os.WriteFile creates the file and then fills it.
WriteTmp ==
    LET n == mSave.name
    IN /\ mSave.pc = "write"
       /\ mTmp' = [mTmp EXCEPT ![n] = IF @ = "none" THEN "part" ELSE "whole"]
       /\ mSave' = IF mTmp[n] = "none" THEN mSave ELSE [mSave EXCEPT !.pc = "rename"]
       /\ UNCHANGED <<mFile, mRead, cacheState, mNow, mGone, mOverlap, mServed, mFaults>>

\* Mutant: only the thumbnails are cleaned up after a failure.
WrittenThumbs(s) == IF s.name[2] = "thumb" THEN s.cleanup \cup {s.name} ELSE s.cleanup

\* What a later failure removes.
Written(s) == s.cleanup \cup {s.name}

Rename ==
    LET n == mSave.name
    IN /\ mSave.pc = "rename"
       /\ mTmp' = [mTmp EXCEPT ![n] = "none"]
       /\ mFile' = [mFile EXCEPT ![n] = mTmp[n]]
       /\ mSave' = [pc |-> IF n = <<LastImage, "thumb">> THEN "saved" ELSE "write",
                    name |-> NextName(n), cleanup |-> Written(mSave)]
       /\ UNCHANGED <<mRead, cacheState, mNow, mGone, mOverlap, mServed, mFaults>>

\* The context is done, the type is not supported, the thumbnail cannot be
\* made, or a write fails (which leaves the .tmp file): what was written is
\* removed.
SaveFails ==
    /\ mSave.pc \in {"write", "rename"}
    /\ MFault
    /\ RemoveFiles(mSave.cleanup)
    /\ mSave' = [mSave EXCEPT !.pc = "failed", !.cleanup = {}]
    /\ UNCHANGED <<mTmp, mRead, cacheState, mNow, mServed>>

-----------------------------------------------------------------------------
(* The proxy.                                                              *)

Cached(n) == mCache[n] > mNow

\* get: an expired entry is removed.
CacheHit(r, n) ==
    /\ mRead[r] = MIdle
    /\ Cached(n)
    /\ mServed' = "whole"
    /\ UNCHANGED <<mFile, mTmp, mSave, mRead, cacheState, mNow, mGone, mOverlap, mFaults>>

CacheMiss(r, n) ==
    /\ mRead[r] = MIdle
    /\ ~Cached(n)
    /\ mCache' = [mCache EXCEPT ![n] = 0]
    /\ mRead' = [mRead EXCEPT ![r] = [pc |-> "find", name |-> n]]
    /\ UNCHANGED <<mFile, mTmp, mSave, mStored, mNow, mGone, mOverlap, mServed, mFaults>>

\* FindOriginal, FindThumb: a name that is only there as .tmp does not count.
Find(r) ==
    /\ mRead[r].pc = "find"
    /\ mRead' = [mRead EXCEPT ![r] =
           IF mFile[mRead[r].name] = "none" THEN MIdle ELSE [mRead[r] EXCEPT !.pc = "read"]]
    /\ UNCHANGED <<mFile, mTmp, mSave, cacheState, mNow, mGone, mOverlap, mServed, mFaults>>

\* ReadFile: the file may be gone by now.
ReadFile(r) ==
    /\ mRead[r].pc = "read"
    /\ mRead' = [mRead EXCEPT ![r] =
           IF mFile[mRead[r].name] = "none" THEN MIdle
           ELSE [pc |-> "store", name |-> mRead[r].name, body |-> mFile[mRead[r].name]]]
    /\ UNCHANGED <<mFile, mTmp, mSave, cacheState, mNow, mGone, mOverlap, mServed, mFaults>>

\* evictLocked: the expired entries go, then the oldest ones until the rest
\* fits; of entries stored at the same moment any may go.
Evicts(stored, cache, keep) ==
    LET alive == {k \in Names : cache[k] > mNow}
    IN /\ keep \subseteq alive
       /\ Cardinality(keep) = IF Cardinality(alive) > CacheMax THEN CacheMax ELSE Cardinality(alive)
       /\ \A k \in keep, j \in alive \ keep : stored[j] <= stored[k]

\* set, then the answer.
CacheSet(r) ==
    LET n == mRead[r].name
        cache == [mCache EXCEPT ![n] = mNow + CacheTTL]
        stored == [mStored EXCEPT ![n] = mNow]
    IN /\ mRead[r].pc = "store"
       /\ \E keep \in SUBSET Names :
             /\ Evicts(stored, cache, keep)
             /\ mCache' = [k \in Names |-> IF k \in keep THEN cache[k] ELSE 0]
             /\ mStored' = [k \in Names |-> IF k \in keep THEN stored[k] ELSE 0]
       /\ mServed' = mRead[r].body
       /\ mRead' = [mRead EXCEPT ![r] = MIdle]
       /\ UNCHANGED <<mFile, mTmp, mSave, mNow, mGone, mOverlap, mFaults>>

\* The administrator deletes a file; the cache is not told.
DeleteFile(n) ==
    /\ mFile[n] # "none"
    /\ MFault
    /\ RemoveFiles({n})
    /\ UNCHANGED <<mTmp, mSave, mRead, cacheState, mNow, mServed>>

\* Requests do not take longer than a tick.
MTick ==
    /\ mNow < MaxNow
    /\ \A r \in Readers : mRead[r] = MIdle
    /\ mNow' = mNow + 1
    /\ UNCHANGED <<mFile, mTmp, mSave, mRead, cacheState, mGone, mOverlap, mServed, mFaults>>

\* The process dies: the cache, the save and the requests are gone.
ProcessDies ==
    /\ MFault
    /\ mSave' = IF mSave.pc \in {"write", "rename"} THEN [mSave EXCEPT !.pc = "died"] ELSE mSave
    /\ mRead' = [r \in Readers |-> MIdle]
    /\ mCache' = [n \in Names |-> 0] /\ mStored' = [n \in Names |-> 0]
    /\ UNCHANGED <<mFile, mTmp, mNow, mGone, mOverlap, mServed>>

MNext ==
    \/ WriteTmp \/ Rename \/ SaveFails
    \/ \E r \in Readers :
          Find(r) \/ ReadFile(r) \/ CacheSet(r) \/ \E n \in Names : CacheHit(r, n) \/ CacheMiss(r, n)
    \/ \E n \in Names : DeleteFile(n)
    \/ MTick \/ ProcessDies

MSpec == MInit /\ [][MNext]_mVars

-----------------------------------------------------------------------------
(* Properties.                                                             *)

\* Nothing half written is ever served or found under its name, whatever is
\* saved, deleted or killed meanwhile.
ServedWhole == mServed # "part" /\ \A n \in Names : mFile[n] # "part"

\* A save is all or nothing: a failed one leaves no image under its name (a
\* .tmp file may stay), a finished one all of them that were not deleted.
SavedAllOrNone ==
    /\ mSave.pc = "failed" => \A n \in Names : mFile[n] = "none"
    /\ mSave.pc = "saved" => \A n \in Names : mFile[n] = "whole" \/ mGone[n] > 0

\* The cache keeps its bound, and shows a deleted image of a task kept on the
\* local disk for at most its time to live, unless a request had read it when it
\* was deleted.
CacheSound ==
    /\ Cardinality({n \in Names : mCache[n] > 0}) <= CacheMax
    /\ \A n \in Names : Cached(n) /\ mFile[n] = "none" =>
          mNow - mGone[n] < CacheTTL \/ n \in mOverlap

StoreSound == ServedWhole /\ SavedAllOrNone /\ CacheSound
=============================================================================
