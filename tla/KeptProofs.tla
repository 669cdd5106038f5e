----------------------------- MODULE KeptProofs -----------------------------
(***************************************************************************)
(* Proofs about what is kept between requests: the settings and the model  *)
(* registry with their caches (Catalog), the images in the store and in    *)
(* the cache of the proxy (ImageStore), and the backups (Backup).          *)
(***************************************************************************)
EXTENDS MCDelivery, FiniteSetTheorems, TLAPS

-----------------------------------------------------------------------------
(* Settings.                                                               *)

\* Requests that write the settings, and reloads.
SetWriting == [pc : {"set", "cache"}, edit : Edits, alone : BOOLEAN]
SetReading == [pc : {"store"}, read : Storage, alone : BOOLEAN]
SetJobs == {CatIdle} \cup SetWriting \cup SetReading

SettingsShape ==
    /\ setDB \in Storage /\ setCache \in Storage
    /\ setJob \in [Editors -> SetJobs]
    /\ setStale \in BOOLEAN /\ setSkewed \in BOOLEAN

\* Who is alone is alone.
SetAlone ==
    \A a, b \in Editors : setJob[a].pc # "idle" /\ setJob[a].alone = TRUE /\ b # a => setJob[b] = CatIdle

\* Unless something is stale, the memory is one write behind the table, or
\* none; a reload that is alone has read the table as it is.
CacheBehind ==
    /\ setStale = FALSE /\ (\A a \in Editors : setJob[a].pc # "cache") => setDB = setCache
    /\ setStale = FALSE => \A a \in Editors :
          setJob[a].pc = "cache" /\ setJob[a].alone = TRUE => setDB = Overlay(setCache, setJob[a].edit)
    /\ \A a \in Editors : setJob[a].pc = "store" /\ setJob[a].alone = TRUE => setDB = setJob[a].read

\* Without a skewed update requests have come one at a time, and what they
\* are about to write was checked against the table.
CheckedAlone ==
    setSkewed = FALSE => \A a \in Editors :
        /\ setJob[a].pc # "idle" => setJob[a].alone = TRUE
        /\ setJob[a].pc = "set" => ValidateStorageSnapshot(setDB, setJob[a].edit)

SettingsInv == SettingsShape /\ SetAlone /\ CacheBehind /\ CheckedAlone /\ StorageUsable

LEMMA SetJobKinds ==
    /\ CatIdle.pc = "idle" /\ CatIdle \in SetJobs
    /\ \A q \in SetJobs :
          /\ q.pc \in {"idle", "set", "cache", "store"}
          /\ q.pc = "idle" <=> q = CatIdle
          /\ q.pc \in {"set", "cache"} => q \in SetWriting /\ q.edit \in Edits /\ q.alone \in BOOLEAN
          /\ q.pc = "store" => q \in SetReading /\ q.read \in Storage /\ q.alone \in BOOLEAN
BY DEF CatIdle, SetJobs, SetWriting, SetReading

LEMMA OverlayStorage == ASSUME NEW s \in Storage, NEW e \in Edits PROVE Overlay(s, e) \in Storage
<1>1. DOMAIN s = {"mode", "config"} /\ DOMAIN e.to = {"mode", "config"} /\ e.to \in Storage
  BY DEF Storage, Edits
<1>2. Overlay(s, e) = [k \in {"mode", "config"} |-> IF k \in e.keys THEN e.to[k] ELSE s[k]]
  BY <1>1 DEF Overlay
<1>3. /\ s["mode"] \in {"local", "cloud"} /\ e.to["mode"] \in {"local", "cloud"}
      /\ s["config"] \in BOOLEAN /\ e.to["config"] \in BOOLEAN
  BY <1>1 DEF Storage
<1>4. Overlay(s, e) = [mode |-> Overlay(s, e)["mode"], config |-> Overlay(s, e)["config"]]
  BY <1>2
<1>5. Overlay(s, e)["mode"] \in {"local", "cloud"} /\ Overlay(s, e)["config"] \in BOOLEAN
  BY <1>2, <1>3
<1> QED BY <1>4, <1>5 DEF Storage

\* What a request is about to do.
SameJob(p, q) == p.pc = q.pc /\ (p.pc \in {"set", "cache"} => p.edit = q.edit) /\ (p.pc = "store" => p.read = q.read)

LEMMA SetBegins ==
    ASSUME SettingsShape, NEW a \in Editors, NEW job \in SetWriting \cup SetReading,
           setJob[a] = CatIdle, setJob' = Begins(setJob, a, job)
    PROVE  /\ setJob' \in [Editors -> SetJobs]
           /\ SameJob(setJob'[a], job) /\ setJob'[a].alone \in BOOLEAN
           /\ setJob'[a].alone = TRUE => \A c \in Editors : setJob[c] = CatIdle
           /\ \A b \in Editors : b # a =>
                 /\ SameJob(setJob'[b], setJob[b])
                 /\ setJob'[b] # CatIdle => setJob[b] # CatIdle /\ setJob'[b].alone = FALSE
<1> DEFINE free == \A c \in DOMAIN setJob : setJob[c] = CatIdle
<1>0. DOMAIN setJob = Editors /\ \A b \in Editors : setJob[b] \in SetJobs
  BY DEF SettingsShape
<1>1. setJob' = [b \in Editors |-> IF b = a THEN [job EXCEPT !.alone = free]
           ELSE IF setJob[b] = CatIdle THEN CatIdle ELSE [setJob[b] EXCEPT !.alone = FALSE]]
  BY <1>0 DEF Begins
<1>2. free \in BOOLEAN /\ (free = TRUE => \A c \in Editors : setJob[c] = CatIdle)
  BY <1>0
<1> HIDE DEF free
<1>3. setJob'[a] = [job EXCEPT !.alone = free] /\ setJob'[a] \in SetWriting \cup SetReading
  BY <1>1, <1>2 DEF SetWriting, SetReading
<1>4. SameJob(setJob'[a], job) /\ setJob'[a].alone = free
  BY <1>3 DEF SetWriting, SetReading, SameJob
<1>5. ASSUME NEW b \in Editors, b # a
      PROVE  /\ setJob'[b] \in SetJobs /\ SameJob(setJob'[b], setJob[b])
             /\ setJob'[b] # CatIdle => setJob[b] # CatIdle /\ setJob'[b].alone = FALSE
  <2>1. CASE setJob[b] = CatIdle
    BY <1>1, <1>5, <2>1 DEF SameJob, SetJobs
  <2>2. CASE setJob[b] # CatIdle
    <3>1. setJob'[b] = [setJob[b] EXCEPT !.alone = FALSE] /\ setJob[b] \in SetWriting \cup SetReading
      BY <1>0, <1>1, <1>5, <2>2 DEF SetJobs
    <3> QED BY <2>2, <3>1 DEF SetJobs, SetWriting, SetReading, SameJob
  <2> QED BY <2>1, <2>2
<1>6. setJob' \in [Editors -> SetJobs]
  <2>1. \A b \in Editors : setJob'[b] \in SetJobs
    BY <1>3, <1>5 DEF SetJobs
  <2> QED BY <1>1, <2>1
<1> QED BY <1>2, <1>4, <1>5, <1>6

LEMMA UpdateSettingsKeeps ==
    ASSUME SettingsInv, NEW a \in Editors, NEW e \in Edits, UpdateSettings(a, e)
    PROVE  SettingsInv'
<1> DEFINE job == [pc |-> "set", edit |-> e, alone |-> TRUE]
<1>0. SettingsShape /\ SetAlone /\ CacheBehind /\ CheckedAlone /\ StorageUsable
  BY DEF SettingsInv
<1>1. job \in SetWriting \cup SetReading /\ job.pc = "set" /\ job.edit = e
  BY DEF SetWriting
<1>2. setJob[a] = CatIdle /\ setJob' = Begins(setJob, a, job) /\ UNCHANGED <<setDB, setCache, setStale>>
  BY DEF UpdateSettings
<1> HIDE DEF job
<1>3. /\ setJob' \in [Editors -> SetJobs]
      /\ SameJob(setJob'[a], job) /\ setJob'[a].alone \in BOOLEAN
      /\ setJob'[a].alone = TRUE => \A c \in Editors : setJob[c] = CatIdle
      /\ \A b \in Editors : b # a =>
            /\ SameJob(setJob'[b], setJob[b])
            /\ setJob'[b] # CatIdle => setJob[b] # CatIdle /\ setJob'[b].alone = FALSE
  BY <1>0, <1>1, <1>2, SetBegins
<1>4. setJob'[a].pc = "set" /\ setJob'[a].edit = e
  BY <1>1, <1>3 DEF SameJob
<1>5. /\ setSkewed' \in BOOLEAN
      /\ setSkewed' = FALSE => setSkewed = FALSE /\ setStale = FALSE /\ setJob'[a].alone = TRUE
  BY <1>0, <1>3 DEF UpdateSettings, SettingsShape
<1>6. SettingsShape'
  BY <1>0, <1>2, <1>3, <1>5 DEF SettingsShape
<1>7. SetAlone'
  BY <1>3, SetJobKinds DEF SetAlone
<1>8. CacheBehind'
  <2>1. \A b \in Editors : setJob'[b].pc = "cache" <=> setJob[b].pc = "cache"
    BY <1>2, <1>3, <1>4, SetJobKinds DEF SameJob
  <2>2. \A b \in Editors : setJob'[b].pc \in {"cache", "store"} => setJob'[b].alone = FALSE
    BY <1>3, <1>4, SetJobKinds
  <2> QED BY <1>0, <1>2, <2>1, <2>2 DEF CacheBehind
<1>9. CheckedAlone'
  <2>1. SUFFICES ASSUME setSkewed' = FALSE
                 PROVE  \A b \in Editors :
                           /\ setJob'[b].pc # "idle" => setJob'[b].alone = TRUE
                           /\ setJob'[b].pc = "set" => ValidateStorageSnapshot(setDB, setJob'[b].edit)
    BY <1>2 DEF CheckedAlone
  <2>2. \A b \in Editors : b # a => setJob'[b].pc = "idle"
    BY <1>3, <1>5, <2>1, SetJobKinds
  <2>3. setDB = setCache
    BY <1>0, <1>3, <1>5, <2>1, SetJobKinds DEF CacheBehind
  <2> QED BY <1>4, <1>5, <2>1, <2>2, <2>3 DEF UpdateSettings
<1>10. StorageUsable'
  BY <1>0, <1>2, <1>5 DEF StorageUsable, SettingsShape
<1> QED BY <1>6, <1>7, <1>8, <1>9, <1>10 DEF SettingsInv

LEMMA LoadAllKeeps ==
    ASSUME SettingsInv, NEW a \in Editors, LoadAll(a) PROVE SettingsInv'
<1> DEFINE job == [pc |-> "store", read |-> setDB, alone |-> TRUE]
<1>0. SettingsShape /\ SetAlone /\ CacheBehind /\ CheckedAlone /\ StorageUsable
  BY DEF SettingsInv
<1>1. job \in SetWriting \cup SetReading /\ job.pc = "store" /\ job.read = setDB
  BY <1>0 DEF SetReading, SettingsShape
<1>2. setJob[a] = CatIdle /\ setJob' = Begins(setJob, a, job) /\ UNCHANGED <<setDB, setCache, setStale>>
  BY DEF LoadAll
<1> HIDE DEF job
<1>3. /\ setJob' \in [Editors -> SetJobs]
      /\ SameJob(setJob'[a], job) /\ setJob'[a].alone \in BOOLEAN
      /\ setJob'[a].alone = TRUE => \A c \in Editors : setJob[c] = CatIdle
      /\ \A b \in Editors : b # a =>
            /\ SameJob(setJob'[b], setJob[b])
            /\ setJob'[b] # CatIdle => setJob[b] # CatIdle /\ setJob'[b].alone = FALSE
  BY <1>0, <1>1, <1>2, SetBegins
<1>4. setJob'[a].pc = "store" /\ setJob'[a].read = setDB
  BY <1>1, <1>3 DEF SameJob
<1>5. /\ setSkewed' \in BOOLEAN
      /\ setSkewed' = FALSE => setSkewed = FALSE /\ setJob'[a].alone = TRUE
  BY <1>0, <1>3 DEF LoadAll, SettingsShape
<1>6. SettingsShape'
  BY <1>0, <1>2, <1>3, <1>5 DEF SettingsShape
<1>7. SetAlone'
  BY <1>3, SetJobKinds DEF SetAlone
<1>8. CacheBehind'
  <2>1. \A b \in Editors : setJob'[b].pc = "cache" <=> setJob[b].pc = "cache"
    BY <1>2, <1>3, <1>4, SetJobKinds DEF SameJob
  <2>2. \A b \in Editors : b # a /\ setJob'[b].pc \in {"cache", "store"} => setJob'[b].alone = FALSE
    BY <1>3, SetJobKinds
  <2> QED BY <1>0, <1>2, <1>4, <2>1, <2>2 DEF CacheBehind
<1>9. CheckedAlone'
  BY <1>3, <1>4, <1>5, SetJobKinds DEF CheckedAlone
<1>10. StorageUsable'
  BY <1>0, <1>2, <1>5 DEF StorageUsable, SettingsShape
<1> QED BY <1>6, <1>7, <1>8, <1>9, <1>10 DEF SettingsInv

\* A request that is under way, and what is true of the others.
LEMMA OthersOf ==
    ASSUME SettingsInv, NEW a \in Editors, setJob[a].pc # "idle"
    PROVE  /\ \A b \in Editors : b # a /\ setJob[b].pc # "idle" => setJob[b].alone = FALSE
           /\ setJob[a].alone = TRUE => \A b \in Editors : b # a => setJob[b].pc = "idle"
           /\ setSkewed = FALSE => setJob[a].alone = TRUE
<1>1. SettingsShape /\ SetAlone /\ CheckedAlone
  BY DEF SettingsInv
<1>2. \A b \in Editors : setJob[b] \in SetJobs
  BY <1>1 DEF SettingsShape
<1> QED BY <1>1, <1>2, SetJobKinds DEF SetAlone, CheckedAlone

\* Its end leaves the others as they are.
LEMMA SetJobEnds ==
    ASSUME SettingsInv, NEW a \in Editors, setJob[a].pc # "idle", setJob' = [setJob EXCEPT ![a] = CatIdle],
           setDB' \in Storage, setCache' \in Storage, setStale' \in BOOLEAN, UNCHANGED setSkewed,
           StorageUsable', setStale' = FALSE => setJob[a].alone = TRUE /\ setDB' = setCache'
    PROVE  SettingsInv'
<1>0. SettingsShape /\ SetAlone /\ CacheBehind /\ CheckedAlone
  BY DEF SettingsInv
<1>1. /\ setJob' \in [Editors -> SetJobs] /\ setJob'[a].pc = "idle"
      /\ \A b \in Editors : b # a => setJob'[b] = setJob[b]
  BY <1>0, SetJobKinds DEF SettingsShape
<1>2. /\ \A b \in Editors : b # a /\ setJob[b].pc # "idle" => setJob[b].alone = FALSE
      /\ setJob[a].alone = TRUE => \A b \in Editors : b # a => setJob[b].pc = "idle"
      /\ setSkewed = FALSE => setJob[a].alone = TRUE
  BY OthersOf
<1>3. SettingsShape'
  BY <1>0, <1>1 DEF SettingsShape
<1>4. SetAlone'
  BY <1>1, <1>2 DEF SetAlone
<1>5. CacheBehind'
  BY <1>1, <1>2 DEF CacheBehind
<1>6. CheckedAlone'
  BY <1>1, <1>2 DEF CheckedAlone
<1> QED BY <1>3, <1>4, <1>5, <1>6 DEF SettingsInv

\* The keys of an update, with the rest of the table, are usable when they
\* were checked against it.
LEMMA SetManyWrites ==
    ASSUME SettingsInv, NEW a \in Editors, setJob[a].pc = "set", setDB' = Overlay(setDB, setJob[a].edit),
           UNCHANGED setSkewed
    PROVE  setDB' \in Storage /\ StorageUsable'
<1>0. SettingsShape /\ CheckedAlone /\ StorageUsable
  BY DEF SettingsInv
<1>1. setJob[a].edit \in Edits
  BY <1>0, SetJobKinds DEF SettingsShape
<1>2. setDB' \in Storage
  BY <1>0, <1>1, OverlayStorage DEF SettingsShape
<1>3. StorageUsable'
  BY <1>0 DEF CheckedAlone, StorageUsable, ValidateStorageSnapshot, SettingsShape
<1> QED BY <1>2, <1>3

LEMMA SetManyKeeps == ASSUME SettingsInv, NEW a \in Editors, SetMany(a) PROVE SettingsInv'
<1>0. SettingsShape /\ SetAlone /\ CacheBehind /\ CheckedAlone
  BY DEF SettingsInv
<1>1. /\ setJob[a].pc = "set" /\ setJob' = [setJob EXCEPT ![a].pc = "cache"]
      /\ setDB' = Overlay(setDB, setJob[a].edit) /\ UNCHANGED <<setCache, setStale, setSkewed>>
  BY DEF SetMany
<1>2. setJob[a] \in SetWriting
  BY <1>0, <1>1, SetJobKinds DEF SettingsShape
<1>3. [setJob[a] EXCEPT !.pc = "cache"] \in SetWriting
  BY <1>2 DEF SetWriting
<1>4. /\ setJob' \in [Editors -> SetJobs] /\ setJob'[a] = [setJob[a] EXCEPT !.pc = "cache"]
      /\ \A b \in Editors : b # a => setJob'[b] = setJob[b]
  BY <1>0, <1>1, <1>3 DEF SettingsShape, SetJobs
<1>5. setJob'[a].pc = "cache" /\ setJob'[a].edit = setJob[a].edit /\ setJob'[a].alone = setJob[a].alone
  BY <1>2, <1>4 DEF SetWriting
<1>6. /\ \A b \in Editors : b # a /\ setJob[b].pc # "idle" => setJob[b].alone = FALSE
      /\ setJob[a].alone = TRUE => \A b \in Editors : b # a => setJob[b].pc = "idle"
      /\ setSkewed = FALSE => setJob[a].alone = TRUE
  BY <1>1, OthersOf
<1>7. setDB' \in Storage /\ StorageUsable'
  BY <1>1, SetManyWrites
<1>8. SettingsShape'
  BY <1>0, <1>1, <1>4, <1>7 DEF SettingsShape
<1>9. SetAlone'
  <2>1. ASSUME NEW b \in Editors, NEW c \in Editors, setJob'[b].pc # "idle", setJob'[b].alone = TRUE, c # b
        PROVE  setJob'[c] = CatIdle
    <3>1. b = a
      BY <1>4, <1>6, <2>1
    <3> QED BY <1>0, <1>1, <1>4, <1>5, <2>1, <3>1 DEF SetAlone
  <2> QED BY <2>1 DEF SetAlone
<1>10. CacheBehind'
  <2>1. setStale = FALSE /\ setJob[a].alone = TRUE => setDB = setCache
    BY <1>0, <1>1, <1>6 DEF CacheBehind
  <2> QED BY <1>1, <1>4, <1>5, <1>6, <2>1 DEF CacheBehind
<1>11. CheckedAlone'
  BY <1>0, <1>1, <1>4, <1>5, <1>6 DEF CheckedAlone
<1> QED BY <1>7, <1>8, <1>9, <1>10, <1>11 DEF SettingsInv

\* The ways in which a write or a reload ends.
LEMMA SetEndsKeeps ==
    ASSUME SettingsInv, NEW a \in Editors,
           SetManyFails(a) \/ SetManyAckLost(a) \/ SetCache(a) \/ ReloadStores(a)
    PROVE  SettingsInv'
<1>0. SettingsShape /\ CacheBehind /\ StorageUsable
  BY DEF SettingsInv
<1>1. /\ setJob[a].pc \in {"set", "cache", "store"} /\ setJob' = [setJob EXCEPT ![a] = CatIdle]
      /\ UNCHANGED setSkewed
  BY DEF SetManyFails, SetManyAckLost, SetCache, ReloadStores, SettingsJobEnds
<1>2. /\ setJob[a] \in SetJobs /\ setJob[a].alone \in BOOLEAN /\ setDB \in Storage /\ setCache \in Storage
      /\ setJob[a].pc \in {"set", "cache"} => setJob[a].edit \in Edits
      /\ setJob[a].pc = "store" => setJob[a].read \in Storage
  BY <1>0, <1>1, SetJobKinds DEF SettingsShape
<1>3. setJob[a].alone = TRUE => \A b \in Editors : b # a => setJob[b].pc = "idle"
  BY <1>1, OthersOf
<1>4. CASE SetManyFails(a)
  <2>1. /\ setJob[a].pc = "set" /\ UNCHANGED <<setDB, setCache, setSkewed>>
        /\ setStale' = (setStale \/ ~setJob[a].alone)
    BY <1>4 DEF SetManyFails, SettingsJobEnds
  <2>2. setStale' \in BOOLEAN /\ (setStale' = FALSE => setStale = FALSE /\ setJob[a].alone = TRUE)
    BY <1>0, <1>2, <2>1 DEF SettingsShape
  <2>3. setStale' = FALSE => setDB = setCache
    BY <1>0, <1>3, <2>1, <2>2 DEF CacheBehind
  <2>4. StorageUsable'
    BY <1>0, <2>1 DEF StorageUsable
  <2> QED BY <1>1, <1>2, <2>1, <2>2, <2>3, <2>4, SetJobEnds
<1>5. CASE SetManyAckLost(a)
  <2>1. /\ setJob[a].pc = "set" /\ setDB' = Overlay(setDB, setJob[a].edit)
        /\ setStale' = TRUE /\ UNCHANGED <<setCache, setSkewed>>
    BY <1>5 DEF SetManyAckLost
  <2>2. setDB' \in Storage /\ StorageUsable'
    BY <2>1, SetManyWrites
  <2> QED BY <1>1, <1>2, <2>1, <2>2, SetJobEnds
<1>6. CASE SetCache(a)
  <2>1. /\ setJob[a].pc = "cache" /\ setCache' = Overlay(setCache, setJob[a].edit)
        /\ setStale' = (setStale \/ ~setJob[a].alone) /\ UNCHANGED <<setDB, setSkewed>>
    BY <1>6 DEF SetCache, SettingsJobEnds
  <2>2. setStale' \in BOOLEAN /\ (setStale' = FALSE => setStale = FALSE /\ setJob[a].alone = TRUE)
    BY <1>0, <1>2, <2>1 DEF SettingsShape
  <2>3. setStale' = FALSE => setDB' = setCache'
    BY <1>0, <2>1, <2>2 DEF CacheBehind
  <2>4. StorageUsable' /\ setCache' \in Storage
    BY <1>0, <1>2, <2>1, OverlayStorage DEF StorageUsable
  <2> QED BY <1>1, <1>2, <2>1, <2>2, <2>3, <2>4, SetJobEnds
<1>7. CASE ReloadStores(a)
  <2>1. /\ setJob[a].pc = "store" /\ setCache' = setJob[a].read
        /\ setStale' = ~setJob[a].alone /\ UNCHANGED <<setDB, setSkewed>>
    BY <1>7 DEF ReloadStores
  <2>2. setStale' \in BOOLEAN /\ (setStale' = FALSE => setJob[a].alone = TRUE)
    BY <1>2, <2>1
  <2>3. setStale' = FALSE => setDB' = setCache'
    BY <1>0, <2>1, <2>2 DEF CacheBehind
  <2>4. StorageUsable' /\ setCache' \in Storage
    BY <1>0, <1>2, <2>1 DEF StorageUsable
  <2> QED BY <1>1, <1>2, <2>1, <2>2, <2>3, <2>4, SetJobEnds
<1> QED BY <1>4, <1>5, <1>6, <1>7

LEMMA SettingsRestartKeeps ==
    ASSUME SettingsInv, NEW loaded \in BOOLEAN, SettingsRestart(loaded) PROVE SettingsInv'
<1>0. SettingsShape /\ StorageUsable
  BY DEF SettingsInv
<1>1. /\ setJob' = [a \in Editors |-> CatIdle] /\ setCache' = IF loaded THEN setDB ELSE Defaults
      /\ setStale' = ~loaded /\ UNCHANGED <<setDB, setSkewed>>
  BY DEF SettingsRestart
<1>2. Defaults \in Storage
  BY DEF Defaults, Storage
<1>3. SettingsShape' /\ StorageUsable'
  BY <1>0, <1>1, <1>2, SetJobKinds DEF SettingsShape, StorageUsable
<1>4. \A a \in Editors : setJob'[a].pc = "idle"
  BY <1>1, SetJobKinds
<1>5. SetAlone' /\ CacheBehind' /\ CheckedAlone'
  BY <1>1, <1>4 DEF SetAlone, CacheBehind, CheckedAlone
<1> QED BY <1>3, <1>5 DEF SettingsInv

LEMMA SettingsStep == SettingsInv /\ [SettingsNext]_setVars => SettingsInv'
<1> SUFFICES ASSUME SettingsInv, [SettingsNext]_setVars PROVE SettingsInv'
  OBVIOUS
<1>1. CASE SettingsNext
  BY <1>1, UpdateSettingsKeeps, LoadAllKeeps, SetManyKeeps, SetEndsKeeps, SettingsRestartKeeps DEF SettingsNext
<1>2. CASE UNCHANGED setVars
  BY <1>2 DEF setVars, SettingsInv, SettingsShape, SetAlone, CacheBehind, CheckedAlone, StorageUsable
<1> QED BY <1>1, <1>2

LEMMA SettingsStart == ASSUME CatInit PROVE SettingsInv
<1>1. Defaults \in Storage /\ Defaults.mode = "local"
  BY DEF Defaults, Storage
<1>2. \A a \in Editors : setJob[a].pc = "idle"
  BY SetJobKinds DEF CatInit
<1>3. SettingsShape
  BY <1>1, SetJobKinds DEF CatInit, SettingsShape
<1>4. SetAlone /\ CacheBehind /\ CheckedAlone /\ StorageUsable
  BY <1>1, <1>2 DEF CatInit, SetAlone, CacheBehind, CheckedAlone, StorageUsable
<1> QED BY <1>3, <1>4 DEF SettingsInv

LEMMA SettingsSound == ASSUME SettingsInv PROVE SettingsAgree /\ StorageUsable
BY DEF SettingsInv, SettingsShape, CacheBehind, SettingsAgree

-----------------------------------------------------------------------------
(* Models.                                                                 *)

ModelRows == [ver : Nat, on : BOOLEAN]
Refreshers == Editors \cup {Background}

\* Requests of administrators, and the background refresh.
MdWriting ==
    [pc : {"write", "list", "store"}, ver : Nat, sent : SUBSET BOOLEAN, read : ModelRows, alone : BOOLEAN]
MdReading == [pc : {"list", "store"}, read : ModelRows, alone : BOOLEAN]
MdJobs == {CatIdle} \cup MdWriting \cup MdReading

ModelsShape ==
    /\ mdRow \in ModelRows /\ mdCache \in ModelRows
    /\ mdJob \in [Refreshers -> MdJobs]
    /\ mdWanted \in BOOLEAN /\ mdRaced \in BOOLEAN /\ mdStale \in BOOLEAN /\ mdRefreshing \in BOOLEAN
    /\ catWrites \in Nat

\* Who is alone is alone, and what it has read is the row.
ModelAlone ==
    \A j, k \in Refreshers : mdJob[j].pc # "idle" /\ mdJob[j].alone = TRUE /\ k # j => mdJob[k].pc = "idle"
ReadIsRow ==
    \A j \in Refreshers :
        mdJob[j].pc \in {"write", "store"} /\ mdJob[j].alone = TRUE => mdJob[j].read = mdRow

\* A registry that is behind will be refreshed by somebody, or is known to be.
RefreshComing ==
    mdCache # mdRow => mdStale = TRUE \/ \E j \in Refreshers : mdJob[j].pc \in {"list", "store"}

ModelsInv == ModelsShape /\ ModelAlone /\ ReadIsRow /\ RefreshComing /\ OneRefresh /\ SwitchKept

LEMMA ModelKinds ==
    /\ CatIdle.pc = "idle" /\ CatIdle \in MdJobs
    /\ \A q \in MdJobs :
          /\ q.pc \in {"idle", "write", "list", "store"}
          /\ q.pc = "idle" <=> q = CatIdle
          /\ q.pc = "write" => q \in MdWriting /\ q.ver \in Nat /\ q.sent \subseteq BOOLEAN
          /\ q.pc # "idle" => q \in MdWriting \cup MdReading /\ q.read \in ModelRows /\ q.alone \in BOOLEAN
    /\ NoModel \in ModelRows
    /\ Background \in Refreshers /\ Background \notin Editors
BY CatalogIds DEF CatIdle, MdJobs, MdWriting, MdReading, NoModel, ModelRows, Refreshers

\* What a request is about to do.
SameRead(p, q) == p.pc = q.pc /\ (p.pc \in {"write", "store"} => p.read = q.read)

LEMMA ModelBeginsFacts ==
    ASSUME ModelsShape, NEW j \in Refreshers, NEW job \in MdWriting \cup MdReading,
           mdJob[j] = CatIdle, mdJob' = Begins(mdJob, j, job)
    PROVE  /\ mdJob' \in [Refreshers -> MdJobs]
           /\ SameRead(mdJob'[j], job) /\ mdJob'[j].alone \in BOOLEAN
           /\ mdJob'[j].alone = TRUE => \A k \in Refreshers : mdJob[k].pc = "idle"
           /\ \A k \in Refreshers : k # j =>
                 /\ SameRead(mdJob'[k], mdJob[k])
                 /\ mdJob'[k].pc # "idle" => mdJob[k].pc # "idle" /\ mdJob'[k].alone = FALSE
<1> DEFINE free == \A k \in DOMAIN mdJob : mdJob[k] = CatIdle
<1>0. DOMAIN mdJob = Refreshers /\ \A k \in Refreshers : mdJob[k] \in MdJobs
  BY DEF ModelsShape
<1>1. mdJob' = [k \in Refreshers |-> IF k = j THEN [job EXCEPT !.alone = free]
           ELSE IF mdJob[k] = CatIdle THEN CatIdle ELSE [mdJob[k] EXCEPT !.alone = FALSE]]
  BY <1>0 DEF Begins
<1>2. free \in BOOLEAN /\ (free = TRUE => \A k \in Refreshers : mdJob[k].pc = "idle")
  BY <1>0, ModelKinds
<1> HIDE DEF free
<1>3. mdJob'[j] = [job EXCEPT !.alone = free] /\ mdJob'[j] \in MdWriting \cup MdReading
  BY <1>1, <1>2 DEF MdWriting, MdReading
<1>4. SameRead(mdJob'[j], job) /\ mdJob'[j].alone = free
  BY <1>3 DEF MdWriting, MdReading, SameRead
<1>5. ASSUME NEW k \in Refreshers, k # j
      PROVE  /\ mdJob'[k] \in MdJobs /\ SameRead(mdJob'[k], mdJob[k])
             /\ mdJob'[k].pc # "idle" => mdJob[k].pc # "idle" /\ mdJob'[k].alone = FALSE
  <2>1. CASE mdJob[k] = CatIdle
    BY <1>1, <1>5, <2>1, ModelKinds DEF SameRead
  <2>2. CASE mdJob[k] # CatIdle
    <3>1. mdJob'[k] = [mdJob[k] EXCEPT !.alone = FALSE] /\ mdJob[k] \in MdWriting \cup MdReading
      BY <1>0, <1>1, <1>5, <2>2 DEF MdJobs
    <3>2. mdJob'[k] \in MdJobs
      BY <3>1 DEF MdJobs, MdWriting, MdReading
    <3>3. SameRead(mdJob'[k], mdJob[k]) /\ mdJob'[k].alone = FALSE
      BY <3>1 DEF MdWriting, MdReading, SameRead
    <3>4. mdJob[k].pc # "idle"
      BY <1>0, <2>2, ModelKinds
    <3> QED BY <3>2, <3>3, <3>4
  <2> QED BY <2>1, <2>2
<1>6. mdJob' \in [Refreshers -> MdJobs]
  <2>1. \A k \in Refreshers : mdJob'[k] \in MdJobs
    BY <1>3, <1>5 DEF MdJobs
  <2> QED BY <1>1, <2>1
<1> QED BY <1>2, <1>4, <1>5, <1>6

\* A job that begins, whatever it does to the row at the same time, as long
\* as the row and the switch agree and what it carries is the row it leaves.
LEMMA ModelBeginsKeeps ==
    ASSUME ModelsInv, NEW j \in Refreshers, NEW job \in MdWriting \cup MdReading,
           mdJob[j].pc = "idle", mdJob' = Begins(mdJob, j, job),
           mdRow' \in ModelRows, mdWanted' \in BOOLEAN, mdRaced' \in BOOLEAN, catWrites' \in Nat,
           UNCHANGED <<mdCache, mdStale>>,
           job.pc \in {"write", "list"}, job.pc = "write" => job.read = mdRow /\ mdRow' = mdRow,
           IF j = Background THEN mdRefreshing' = TRUE ELSE UNCHANGED mdRefreshing,
           SwitchKept'
    PROVE  ModelsInv'
<1>0. ModelsShape /\ ModelAlone /\ ReadIsRow /\ RefreshComing /\ OneRefresh
  BY DEF ModelsInv
<1>1. mdJob[j] = CatIdle /\ \A k \in Refreshers : mdJob[k] \in MdJobs
  BY <1>0, ModelKinds DEF ModelsShape
<1>2. /\ mdJob' \in [Refreshers -> MdJobs]
      /\ SameRead(mdJob'[j], job) /\ mdJob'[j].alone \in BOOLEAN
      /\ mdJob'[j].alone = TRUE => \A k \in Refreshers : mdJob[k].pc = "idle"
      /\ \A k \in Refreshers : k # j =>
            /\ SameRead(mdJob'[k], mdJob[k])
            /\ mdJob'[k].pc # "idle" => mdJob[k].pc # "idle" /\ mdJob'[k].alone = FALSE
  BY <1>0, <1>1, ModelBeginsFacts
<1>3. ModelsShape'
  BY <1>0, <1>2 DEF ModelsShape
<1>4. ModelAlone'
  BY <1>2 DEF ModelAlone, SameRead
<1>5. ReadIsRow'
  BY <1>2 DEF ReadIsRow, SameRead
<1>6. RefreshComing'
  <2>1. CASE job.pc = "list"
    BY <1>2, <2>1 DEF RefreshComing, SameRead
  <2>2. CASE job.pc = "write"
    <3>1. mdCache' # mdRow' => mdStale' = TRUE \/ \E k \in Refreshers : mdJob[k].pc \in {"list", "store"}
      BY <1>0, <2>2 DEF RefreshComing
    <3>2. \A k \in Refreshers : mdJob[k].pc \in {"list", "store"} => mdJob'[k].pc \in {"list", "store"}
      BY <1>2 DEF SameRead
    <3> QED BY <3>1, <3>2 DEF RefreshComing
  <2> QED BY <2>1, <2>2
<1>7. OneRefresh'
  <2>1. mdJob'[Background] \in MdJobs
    BY <1>2, ModelKinds
  <2>2. CASE j = Background
    BY <1>2, <2>1, <2>2, ModelKinds DEF OneRefresh, SameRead
  <2>3. CASE j # Background
    <3>1. mdJob'[Background].pc = mdJob[Background].pc
      BY <1>2, <2>3, ModelKinds DEF SameRead
    <3>2. mdJob'[Background] # CatIdle <=> mdJob[Background] # CatIdle
      BY <1>1, <2>1, <3>1, ModelKinds
    <3>3. mdRefreshing' = mdRefreshing
      BY <2>3
    <3> QED BY <1>0, <3>2, <3>3 DEF OneRefresh
  <2> QED BY <2>2, <2>3
<1> QED BY <1>3, <1>4, <1>5, <1>6, <1>7 DEF ModelsInv

\* The requests that start at once: what they write and what they carry.
LEMMA ModelRequestKeeps ==
    ASSUME ModelsInv, NEW j \in Editors, NEW on \in BOOLEAN, NEW want \in {{}, {TRUE}, {FALSE}},
           CreateModel(j, on) \/ SetEnabled(j, on) \/ DeleteModel(j) \/ GetModel(j, want)
    PROVE  ModelsInv'
<1>0. ModelsShape /\ SwitchKept
  BY DEF ModelsInv
<1>1. j \in Refreshers /\ j # Background
  BY ModelKinds DEF Refreshers
<1>2. /\ mdJob[j].pc = "idle" /\ catWrites' \in Nat
      /\ UNCHANGED <<mdCache, mdStale, mdRefreshing>>
  BY <1>0, ModelKinds
     DEF CreateModel, SetEnabled, DeleteModel, GetModel, ModelBegins, CatWrite, ModelsShape
<1>3. ASSUME NEW at \in {"write", "list"}, NEW s \in SUBSET BOOLEAN, NEW row \in ModelRows
      PROVE  /\ ModelJob(at, s, row) \in MdWriting \cup MdReading
             /\ ModelJob(at, s, row).pc = at /\ ModelJob(at, s, row).read = row
  <2>1. catWrites + 2 \in Nat
    BY <1>0 DEF ModelsShape
  <2> QED BY <2>1, <1>3 DEF ModelJob, MdWriting
<1>4. CASE CreateModel(j, on)
  <2>1. /\ mdJob' = Begins(mdJob, j, ModelJob("list", {on}, NoModel))
        /\ mdRow' = [ver |-> catWrites + 2, on |-> on] /\ mdWanted' = on /\ mdRaced' = FALSE
    BY <1>4 DEF CreateModel, ModelBegins
  <2>2. mdRow' \in ModelRows
    BY <1>0, <2>1 DEF ModelRows, ModelsShape
  <2>3. SwitchKept'
    BY <2>1 DEF SwitchKept
  <2>4. mdWanted' \in BOOLEAN /\ mdRaced' \in BOOLEAN
    BY <2>1
  <2>5. /\ ModelJob("list", {on}, NoModel) \in MdWriting \cup MdReading
        /\ ModelJob("list", {on}, NoModel).pc = "list"
    BY <1>3, ModelKinds
  <2> QED BY <1>1, <1>2, <2>1, <2>2, <2>3, <2>4, <2>5, ModelBeginsKeeps
<1>5. CASE SetEnabled(j, on)
  <2>1. /\ mdJob' = Begins(mdJob, j, ModelJob("list", {on}, NoModel))
        /\ mdRow' = [mdRow EXCEPT !.on = on] /\ mdWanted' = on /\ mdRaced' = FALSE
    BY <1>5 DEF SetEnabled, ModelBegins
  <2>2. mdRow' \in ModelRows /\ mdRow'.on = on
    BY <1>0, <2>1 DEF ModelRows, ModelsShape
  <2>3. SwitchKept'
    BY <2>1, <2>2 DEF SwitchKept
  <2>4. mdWanted' \in BOOLEAN /\ mdRaced' \in BOOLEAN
    BY <2>1
  <2>5. /\ ModelJob("list", {on}, NoModel) \in MdWriting \cup MdReading
        /\ ModelJob("list", {on}, NoModel).pc = "list"
    BY <1>3, ModelKinds
  <2> QED BY <1>1, <1>2, <2>1, <2>2, <2>3, <2>4, <2>5, ModelBeginsKeeps
<1>6. CASE DeleteModel(j)
  <2>1. /\ mdJob' = Begins(mdJob, j, ModelJob("list", {}, NoModel))
        /\ mdRow' = NoModel /\ UNCHANGED <<mdWanted, mdRaced>>
    BY <1>6 DEF DeleteModel, ModelBegins
  <2>2. mdRow' \in ModelRows /\ SwitchKept'
    BY <2>1, ModelKinds DEF SwitchKept, NoModel
  <2>3. mdWanted' \in BOOLEAN /\ mdRaced' \in BOOLEAN
    BY <1>0, <2>1 DEF ModelsShape
  <2>4. /\ ModelJob("list", {}, NoModel) \in MdWriting \cup MdReading
        /\ ModelJob("list", {}, NoModel).pc = "list"
    BY <1>3, ModelKinds
  <2> QED BY <1>1, <1>2, <2>1, <2>2, <2>3, <2>4, ModelBeginsKeeps
<1>7. CASE GetModel(j, want)
  <2>1. /\ mdJob' = Begins(mdJob, j, ModelJob("write", want, mdRow))
        /\ UNCHANGED <<mdRow, mdWanted, mdRaced>>
    BY <1>7 DEF GetModel, ModelBegins
  <2>2. mdRow' \in ModelRows /\ mdWanted' \in BOOLEAN /\ mdRaced' \in BOOLEAN /\ mdRow' = mdRow
    BY <1>0, <2>1 DEF ModelsShape
  <2>3. SwitchKept'
    BY <1>0, <2>1 DEF SwitchKept
  <2>4. /\ ModelJob("write", want, mdRow) \in MdWriting \cup MdReading
        /\ ModelJob("write", want, mdRow).pc = "write" /\ ModelJob("write", want, mdRow).read = mdRow
    BY <1>0, <1>3 DEF ModelsShape
  <2> QED BY <1>1, <1>2, <2>1, <2>2, <2>3, <2>4, ModelBeginsKeeps
<1> QED BY <1>4, <1>5, <1>6, <1>7

LEMMA BySlugKeeps == ASSUME ModelsInv, BySlug PROVE ModelsInv'
<1> DEFINE job == [pc |-> "list", read |-> NoModel, alone |-> TRUE]
<1>0. ModelsShape /\ OneRefresh /\ SwitchKept
  BY DEF ModelsInv
<1>1. /\ mdRefreshing = FALSE /\ mdRefreshing' = TRUE /\ mdJob' = Begins(mdJob, Background, job)
      /\ UNCHANGED <<mdRow, mdCache, mdWanted, mdRaced, mdStale, catWrites>>
  BY <1>0 DEF BySlug, ModelsShape
<1>2. mdJob[Background].pc = "idle"
  BY <1>0, <1>1, ModelKinds DEF OneRefresh
<1>3. job \in MdWriting \cup MdReading /\ job.pc = "list"
  BY ModelKinds DEF MdReading
<1>4. SwitchKept' /\ mdRow' \in ModelRows /\ mdWanted' \in BOOLEAN /\ mdRaced' \in BOOLEAN /\ catWrites' \in Nat
  BY <1>0, <1>1 DEF SwitchKept, ModelsShape
<1> HIDE DEF job
<1> QED BY <1>1, <1>2, <1>3, <1>4, ModelKinds, ModelBeginsKeeps

\* A job goes on or ends: the others are not alone, so what they have read
\* does not matter.
LEMMA ModelJobMoves ==
    ASSUME ModelsInv, NEW j \in Refreshers, NEW q \in MdJobs, mdJob[j].pc # "idle",
           mdJob' = [mdJob EXCEPT ![j] = q],
           q.pc # "idle" => q.alone = mdJob[j].alone,
           q.pc \in {"write", "store"} /\ q.alone = TRUE => q.read = mdRow',
           mdRow' \in ModelRows, mdCache' \in ModelRows, mdWanted' \in BOOLEAN, mdRaced' \in BOOLEAN,
           mdStale' \in BOOLEAN, UNCHANGED catWrites,
           IF j = Background /\ q.pc = "idle" THEN mdRefreshing' = FALSE ELSE UNCHANGED mdRefreshing,
           RefreshComing', SwitchKept'
    PROVE  ModelsInv'
<1>0. ModelsShape /\ ModelAlone /\ ReadIsRow /\ OneRefresh
  BY DEF ModelsInv
<1>1. /\ mdJob' \in [Refreshers -> MdJobs] /\ mdJob'[j] = q
      /\ \A k \in Refreshers : k # j => mdJob'[k] = mdJob[k]
      /\ \A k \in Refreshers : mdJob[k] \in MdJobs
  BY <1>0 DEF ModelsShape
<1>2. /\ \A k \in Refreshers : k # j /\ mdJob[k].pc # "idle" => mdJob[k].alone # TRUE
      /\ mdJob[j].alone = TRUE => \A k \in Refreshers : k # j => mdJob[k].pc = "idle"
  BY <1>0 DEF ModelAlone
<1>3. ModelsShape'
  BY <1>0, <1>1 DEF ModelsShape
<1>4. ModelAlone'
  BY <1>1, <1>2 DEF ModelAlone
<1>5. ReadIsRow'
  BY <1>1, <1>2 DEF ReadIsRow
<1>6. OneRefresh'
  <2>1. CASE j = Background
    BY <1>0, <1>1, <2>1, ModelKinds DEF OneRefresh
  <2>2. CASE j # Background
    <3>1. mdRefreshing' = mdRefreshing /\ mdJob'[Background] = mdJob[Background]
      BY <1>1, <2>2, ModelKinds
    <3> QED BY <1>0, <3>1 DEF OneRefresh
  <2> QED BY <2>1, <2>2
<1> QED BY <1>3, <1>4, <1>5, <1>6 DEF ModelsInv

LEMMA UpdateModelKeeps ==
    ASSUME ModelsInv, NEW j \in Editors, UpdateModel(j) \/ UpdateModelFails(j) PROVE ModelsInv'
<1> DEFINE job == mdJob[j]
<1>0. ModelsShape /\ ReadIsRow /\ RefreshComing /\ SwitchKept
  BY DEF ModelsInv
<1>1. /\ j \in Refreshers /\ j # Background /\ job \in MdJobs /\ job.pc = "write"
      /\ UNCHANGED <<mdCache, mdStale, mdRefreshing, catWrites>>
  BY <1>0, ModelKinds DEF UpdateModel, UpdateModelFails, ModelsShape, Refreshers
<1>2. job \in MdWriting /\ job.ver \in Nat /\ job.sent \subseteq BOOLEAN /\ job.read \in ModelRows
      /\ job.alone \in BOOLEAN
  BY <1>1, ModelKinds
<1>3. CASE UpdateModelFails(j) \/ mdRow = NoModel
  <2>1. mdJob' = [mdJob EXCEPT ![j] = CatIdle] /\ UNCHANGED <<mdRow, mdWanted, mdRaced>>
    BY <1>3 DEF UpdateModel, UpdateModelFails
  <2>2. \A k \in Refreshers : k # j => mdJob'[k] = mdJob[k]
    BY <1>0, <2>1 DEF ModelsShape
  <2>3. RefreshComing'
    BY <1>0, <1>1, <2>1, <2>2 DEF RefreshComing
  <2>4. SwitchKept'
    BY <1>0, <2>1 DEF SwitchKept
  <2>5. mdRow' \in ModelRows /\ mdCache' \in ModelRows /\ mdWanted' \in BOOLEAN /\ mdRaced' \in BOOLEAN
        /\ mdStale' \in BOOLEAN
    BY <1>0, <1>1, <2>1 DEF ModelsShape
  <2> QED BY <1>1, <2>1, <2>3, <2>4, <2>5, ModelKinds, ModelJobMoves
<1>4. CASE UpdateModel(j) /\ mdRow # NoModel
  <2> DEFINE q == [job EXCEPT !.pc = "list"]
  <2>1. /\ mdJob' = [mdJob EXCEPT ![j] = q]
        /\ mdRow' = [ver |-> job.ver, on |-> SwitchSent(job.read, job.sent)]
        /\ mdWanted' = IF job.sent = {} THEN mdWanted ELSE job.sent = {TRUE}
        /\ mdRaced' = (job.sent = {} /\ (mdRaced \/ ~job.alone))
    BY <1>4 DEF UpdateModel
  <2>2. q \in MdJobs /\ q.pc = "list" /\ q.alone = job.alone
    BY <1>2 DEF MdJobs, MdWriting
  <2>3. mdJob'[j] = q
    BY <1>0, <1>1, <2>1 DEF ModelsShape
  <2> HIDE DEF q
  <2>4. RefreshComing'
    BY <1>1, <2>2, <2>3 DEF RefreshComing
  <2>5. mdRow'.on = SwitchSent(job.read, job.sent)
    BY <2>1
  <2>6. CASE job.sent = {}
    <3>1. mdRow'.on = job.read.on /\ mdWanted' = mdWanted
      BY <2>1, <2>5, <2>6 DEF SwitchSent
    <3>2. mdRaced' \in BOOLEAN /\ (mdRaced' = FALSE => mdRaced = FALSE /\ job.alone = TRUE)
      BY <1>0, <1>2, <2>1, <2>6 DEF ModelsShape
    <3>3. SwitchKept'
      BY <1>0, <1>1, <1>4, <3>1, <3>2 DEF ReadIsRow, SwitchKept
    <3>4. mdRow' \in ModelRows /\ mdWanted' \in BOOLEAN
      BY <1>0, <1>2, <2>1, <3>1 DEF ModelRows, ModelsShape
    <3>5. mdCache' \in ModelRows /\ mdStale' \in BOOLEAN
      BY <1>0, <1>1 DEF ModelsShape
    <3> QED BY <1>1, <2>1, <2>2, <2>4, <3>2, <3>3, <3>4, <3>5, ModelJobMoves
  <2>7. CASE job.sent # {}
    <3>1. mdRow'.on = (job.sent = {TRUE}) /\ mdWanted' = (job.sent = {TRUE}) /\ mdRaced' = FALSE
      BY <2>1, <2>5, <2>7 DEF SwitchSent
    <3>2. mdRaced' \in BOOLEAN /\ mdWanted' \in BOOLEAN /\ mdRow'.on \in BOOLEAN
      BY <3>1
    <3>3. SwitchKept'
      BY <3>1 DEF SwitchKept
    <3>4. mdRow' \in ModelRows
      BY <1>2, <2>1, <3>2 DEF ModelRows
    <3>5. mdCache' \in ModelRows /\ mdStale' \in BOOLEAN
      BY <1>0, <1>1 DEF ModelsShape
    <3> QED BY <1>1, <2>1, <2>2, <2>4, <3>2, <3>3, <3>4, <3>5, ModelJobMoves
  <2> QED BY <2>6, <2>7
<1> QED BY <1>3, <1>4

LEMMA ListModelsKeeps == ASSUME ModelsInv, NEW j \in Refreshers, ListModels(j) PROVE ModelsInv'
<1> DEFINE q == [mdJob[j] EXCEPT !.pc = "store", !.read = mdRow]
<1>0. ModelsShape /\ RefreshComing /\ SwitchKept
  BY DEF ModelsInv
<1>1. /\ mdJob[j].pc = "list" /\ mdJob' = [mdJob EXCEPT ![j] = q]
      /\ UNCHANGED <<mdRow, mdCache, mdWanted, mdRaced, mdStale, mdRefreshing, catWrites>>
  BY <1>0 DEF ListModels, ModelsShape
<1>2. mdJob[j] \in MdWriting \cup MdReading /\ mdRow \in ModelRows
  BY <1>0, <1>1, ModelKinds DEF ModelsShape
<1>3. q \in MdJobs /\ q.pc = "store" /\ q.read = mdRow /\ q.alone = mdJob[j].alone
  BY <1>2 DEF MdJobs, MdWriting, MdReading
<1>4. mdJob'[j] = q
  BY <1>0, <1>1 DEF ModelsShape
<1> HIDE DEF q
<1>5. RefreshComing' /\ SwitchKept'
  BY <1>0, <1>1, <1>3, <1>4 DEF RefreshComing, SwitchKept
<1>6. mdRow' \in ModelRows /\ mdCache' \in ModelRows /\ mdWanted' \in BOOLEAN /\ mdRaced' \in BOOLEAN
      /\ mdStale' \in BOOLEAN
  BY <1>0, <1>1 DEF ModelsShape
<1> QED BY <1>1, <1>3, <1>5, <1>6, ModelJobMoves

LEMMA ModelEndsKeeps ==
    ASSUME ModelsInv, NEW j \in Refreshers, ListModelsFails(j) \/ StoreModels(j) PROVE ModelsInv'
<1>0. ModelsShape /\ ReadIsRow /\ RefreshComing /\ SwitchKept /\ ModelAlone
  BY DEF ModelsInv
<1>1. /\ mdJob[j].pc \in {"list", "store"} /\ mdJob' = [mdJob EXCEPT ![j] = CatIdle]
      /\ mdRefreshing' = (mdRefreshing /\ j # Background)
      /\ UNCHANGED <<mdRow, mdWanted, mdRaced, catWrites>>
  BY DEF ListModelsFails, NotRefreshed, StoreModels, ModelsJobEnds
<1>2. IF j = Background THEN mdRefreshing' = FALSE ELSE mdRefreshing' = mdRefreshing
  BY <1>0, <1>1 DEF ModelsShape
<1>3. mdJob[j].alone \in BOOLEAN /\ mdJob[j].read \in ModelRows
  BY <1>0, <1>1, ModelKinds DEF ModelsShape
<1>4. SwitchKept' /\ mdRow' \in ModelRows /\ mdWanted' \in BOOLEAN /\ mdRaced' \in BOOLEAN
  BY <1>0, <1>1 DEF SwitchKept, ModelsShape
<1>5. CASE ListModelsFails(j)
  <2>1. mdStale' = TRUE /\ mdCache' = mdCache
    BY <1>5 DEF ListModelsFails, NotRefreshed
  <2>2. RefreshComing' /\ mdCache' \in ModelRows /\ mdStale' \in BOOLEAN
    BY <1>0, <2>1 DEF RefreshComing, ModelsShape
  <2> QED BY <1>1, <1>2, <1>4, <2>2, ModelKinds, ModelJobMoves
<1>6. CASE StoreModels(j)
  <2>1. mdStale' = ~mdJob[j].alone /\ mdCache' = mdJob[j].read /\ mdJob[j].pc = "store"
    BY <1>6 DEF StoreModels
  <2>2. mdStale' \in BOOLEAN /\ (mdStale' = FALSE => mdJob[j].alone = TRUE)
    BY <1>3, <2>1
  <2>3. RefreshComing' /\ mdCache' \in ModelRows
    BY <1>0, <1>1, <1>3, <2>1, <2>2 DEF RefreshComing, ReadIsRow
  <2> QED BY <1>1, <1>2, <1>4, <2>2, <2>3, ModelKinds, ModelJobMoves
<1> QED BY <1>5, <1>6

LEMMA ModelsRestartKeeps ==
    ASSUME ModelsInv, NEW loaded \in BOOLEAN, ModelsRestart(loaded) PROVE ModelsInv'
<1>0. ModelsShape /\ SwitchKept
  BY DEF ModelsInv
<1>1. /\ mdJob' = [j \in Refreshers |-> CatIdle] /\ mdCache' = IF loaded THEN mdRow ELSE NoModel
      /\ mdStale' = ~loaded /\ mdRefreshing' = FALSE
      /\ UNCHANGED <<mdRow, mdWanted, mdRaced, catWrites>>
  BY <1>0 DEF ModelsRestart, ModelsShape
<1>2. ModelsShape' /\ SwitchKept'
  BY <1>0, <1>1, ModelKinds DEF ModelsShape, SwitchKept
<1>3. \A j \in Refreshers : mdJob'[j] = CatIdle /\ mdJob'[j].pc = "idle"
  BY <1>1, ModelKinds
<1>4. ModelAlone' /\ ReadIsRow' /\ RefreshComing' /\ OneRefresh'
  BY <1>1, <1>3, ModelKinds DEF ModelAlone, ReadIsRow, RefreshComing, OneRefresh
<1> QED BY <1>2, <1>4 DEF ModelsInv

LEMMA ModelsStep == ModelsInv /\ [ModelsNext]_<<mdVars, catWrites>> => ModelsInv'
<1> SUFFICES ASSUME ModelsInv, [ModelsNext]_<<mdVars, catWrites>> PROVE ModelsInv'
  OBVIOUS
<1>1. CASE UNCHANGED <<mdRow, mdCache, mdWanted, mdRaced, mdRefreshing, mdJob, mdStale, catWrites>>
  BY <1>1 DEF ModelsInv, ModelsShape, ModelAlone, ReadIsRow, RefreshComing, OneRefresh, SwitchKept
<1>2. CASE ModelsNext
  <2>1. DOMAIN mdJob = Refreshers
    BY DEF ModelsInv, ModelsShape
  <2>2. CASE \E j \in Editors : \E on \in BOOLEAN : CreateModel(j, on) \/ SetEnabled(j, on)
    BY <2>2, ModelRequestKeeps
  <2>3. CASE \E j \in Editors : \E want \in {{}, {TRUE}, {FALSE}} : GetModel(j, want)
    BY <2>3, ModelRequestKeeps
  <2>4. CASE \E j \in Editors : DeleteModel(j)
    BY <2>4, ModelRequestKeeps
  <2>5. CASE \E j \in Editors : UpdateModel(j) \/ UpdateModelFails(j)
    BY <2>5, UpdateModelKeeps
  <2>6. CASE \E j \in DOMAIN mdJob : RefreshModels(j)
    BY <2>1, <2>6, ListModelsKeeps, ModelEndsKeeps DEF RefreshModels
  <2>7. CASE CatTick
    BY <1>1, <2>7 DEF CatTick
  <2>8. CASE \E j \in Editors : ModelAckLost(j)
    BY <2>8, ModelEndsKeeps DEF ModelAckLost, ListModelsFails, Refreshers
  <2> QED BY <1>2, <2>2, <2>3, <2>4, <2>5, <2>6, <2>7, <2>8, BySlugKeeps, ModelsRestartKeeps DEF ModelsNext
<1> QED BY <1>1, <1>2 DEF mdVars

LEMMA ModelsStart == ASSUME CatInit PROVE ModelsInv
<1>1. /\ mdRow = [ver |-> 1, on |-> TRUE] /\ mdCache = mdRow /\ mdWanted = TRUE /\ mdRaced = FALSE
      /\ mdRefreshing = FALSE /\ mdJob = [j \in Refreshers |-> CatIdle] /\ mdStale = FALSE /\ catWrites = 0
  BY DEF CatInit, Refreshers
<1>2. ModelsShape /\ SwitchKept
  BY <1>1, ModelKinds DEF ModelsShape, ModelRows, SwitchKept
<1>3. \A j \in Refreshers : mdJob[j] = CatIdle /\ mdJob[j].pc = "idle"
  BY <1>1, ModelKinds
<1>4. ModelAlone /\ ReadIsRow /\ RefreshComing /\ OneRefresh
  BY <1>1, <1>3, ModelKinds DEF ModelAlone, ReadIsRow, RefreshComing, OneRefresh
<1> QED BY <1>2, <1>4 DEF ModelsInv

LEMMA ModelsAreSound == ASSUME ModelsInv PROVE ModelsFresh /\ OneRefresh /\ SwitchKept
<1>1. ModelsShape /\ RefreshComing /\ OneRefresh /\ SwitchKept
  BY DEF ModelsInv
<1>2. \A j \in Refreshers : mdJob[j].pc \in {"list", "store"} => mdJob[j] # CatIdle
  BY ModelKinds
<1>3. DOMAIN mdJob = Refreshers
  BY <1>1 DEF ModelsShape
<1> QED BY <1>1, <1>2, <1>3 DEF ModelsFresh, RefreshComing

\* A request to the settings takes its number from the same count.
LEMMA SettingsLeaveModels ==
    ASSUME ModelsInv, SettingsNext PROVE ModelsInv'
<1>1. UNCHANGED mdVars /\ (catWrites' = catWrites \/ catWrites' = catWrites + 1)
  BY DEF SettingsNext, UpdateSettings, SetMany, SetManyFails, SetManyAckLost, SetCache, LoadAll,
         ReloadStores, SettingsRestart, CatWrite
<1>2. catWrites' \in Nat
  BY <1>1 DEF ModelsInv, ModelsShape
<1> QED BY <1>1, <1>2
        DEF mdVars, ModelsInv, ModelsShape, ModelAlone, ReadIsRow, RefreshComing, OneRefresh, SwitchKept

LEMMA ModelsLeaveSettings ==
    ASSUME SettingsInv, ModelsNext PROVE SettingsInv'
<1>1. UNCHANGED setVars
  BY DEF ModelsNext, CreateModel, SetEnabled, DeleteModel, GetModel, ModelBegins, UpdateModel, UpdateModelFails,
         ModelAckLost, NotRefreshed, RefreshModels, ListModels, ListModelsFails, StoreModels, BySlug, CatTick, ModelsRestart
<1> QED BY <1>1, SettingsStep

CatalogInv == SettingsInv /\ ModelsInv

LEMMA CatalogStep == CatalogInv /\ [CatNext]_catVars => CatalogInv'
BY SettingsStep, ModelsStep, SettingsLeaveModels, ModelsLeaveSettings
   DEF CatalogInv, CatNext, catVars

LEMMA CatalogInvSound == ASSUME CatalogInv PROVE CatalogSound
BY SettingsSound, ModelsAreSound DEF CatalogInv, CatalogSound

\* The settings and the models in memory are those of their tables, but for
\* the reasons named, and no rule between settings is broken unless updates
\* overlap or are checked against a stale copy.
THEOREM CatalogStaysSound == CatSpec => []CatalogSound
<1>1. CatInit => CatalogInv
  BY SettingsStart, ModelsStart DEF CatalogInv
<1> QED BY <1>1, CatalogStep, CatalogInvSound, PTL DEF CatSpec

-----------------------------------------------------------------------------
(* The image store and the cache of the proxy.                             *)

Reads ==
    {MIdle} \cup [pc : {"find", "read"}, name : Names]
            \cup [pc : {"store"}, name : Names, body : {"whole"}]
Saves == [pc : {"write", "rename", "saved", "failed", "died"}, name : Nat \X Kinds, cleanup : SUBSET Names]

StoreShape ==
    /\ mFile \in [Names -> {"none", "whole"}] /\ mTmp \in [Names -> {"none", "part", "whole"}]
    /\ mSave \in Saves
    /\ mRead \in [Readers -> Reads]
    /\ mCache \in [Names -> Nat] /\ mStored \in [Names -> Nat] /\ mGone \in [Names -> Nat]
    /\ mNow \in Nat \ {0} /\ mOverlap \subseteq Names /\ mServed \in {"none", "whole"}

\* The names a save has written before it comes to n.
Before(n) ==
    {k \in Names : k[1] < n[1] \/ (k[1] = n[1] /\ k[2] = "original" /\ n[2] = "thumb")}

\* What a save has put under its name is there or was removed since, and
\* nothing else is; what it is about to rename is complete.
SaveShape ==
    /\ mSave.pc \in {"write", "rename"} =>
          /\ mSave.name \in Names /\ mSave.cleanup = Before(mSave.name)
          /\ \A n \in Names : n \in mSave.cleanup => mFile[n] = "whole" \/ mGone[n] > 0
          /\ \A n \in Names : n \notin mSave.cleanup => mFile[n] = "none"
    /\ mSave.pc = "rename" => mTmp[mSave.name] = "whole"

\* An entry ends a TTL after it was stored at the latest, and the entry of a
\* file that is gone a TTL after that, unless a request had read the file.
CacheAges ==
    \A n \in Names :
        /\ mCache[n] <= mNow + CacheTTL
        /\ mCache[n] > 0 /\ mFile[n] = "none" => mCache[n] <= mGone[n] + CacheTTL \/ n \in mOverlap

\* Such a request is known.
HeldGone ==
    \A r \in Readers : mRead[r].pc = "store" /\ mFile[mRead[r].name] = "none" => mRead[r].name \in mOverlap

CacheFits == Cardinality({n \in Names : mCache[n] > 0}) <= CacheMax

StoreInv == StoreShape /\ SaveShape /\ SavedAllOrNone /\ CacheAges /\ HeldGone /\ CacheFits

LEMMA ReadKinds ==
    /\ MIdle \in Reads /\ MIdle.pc = "idle"
    /\ \A q \in Reads :
          /\ q.pc \in {"idle", "find", "read", "store"}
          /\ q.pc = "idle" <=> q = MIdle
          /\ q.pc # "idle" => q.name \in Names
          /\ q.pc \in {"find", "read"} => q \in [pc : {"find", "read"}, name : Names]
          /\ q.pc = "store" => q.body = "whole"
BY DEF MIdle, Reads

LEMMA NamesFinite == IsFiniteSet(Names)
<1>1. IsFiniteSet(1 .. LastImage)
  BY FS_Interval, StoreAssumption
<1>2. IsFiniteSet(Kinds)
  <2>1. IsFiniteSet({} \cup {"original"})
    BY FS_EmptySet, FS_AddElement
  <2>2. IsFiniteSet(({} \cup {"original"}) \cup {"thumb"})
    BY <2>1, FS_AddElement
  <2>3. Kinds = ({} \cup {"original"}) \cup {"thumb"}
    BY DEF Kinds
  <2> QED BY <2>2, <2>3
<1> QED BY <1>1, <1>2, FS_Product DEF Names

\* Files removed: the clock has passed zero, and who holds one is known.
LEMMA RemoveFacts ==
    ASSUME StoreShape, HeldGone, NEW names \in SUBSET Names, RemoveFiles(names)
    PROVE  /\ mFile' \in [Names -> {"none", "whole"}] /\ mGone' \in [Names -> Nat] /\ mOverlap' \subseteq Names
           /\ \A n \in Names : n \in names => mFile'[n] = "none"
           /\ \A n \in Names : n \notin names => mFile'[n] = mFile[n]
           /\ \A n \in Names : mGone'[n] = mGone[n] \/ mGone'[n] = mNow
           /\ \A n \in Names : mFile[n] # "none" /\ mFile'[n] = "none" => mGone'[n] = mNow
           /\ mOverlap \subseteq mOverlap'
           /\ \A r \in Readers : mRead[r].pc = "store" /\ mFile'[mRead[r].name] = "none" =>
                 mRead[r].name \in mOverlap'
<1> DEFINE there == {n \in names : mFile[n] # "none"}
<1>1. /\ mFile' = [n \in Names |-> IF n \in names THEN "none" ELSE mFile[n]]
      /\ mGone' = [n \in Names |-> IF n \in there THEN mNow ELSE mGone[n]]
      /\ mOverlap' = mOverlap \cup {n \in there : Held(n)}
  BY DEF RemoveFiles
<1>2. /\ mFile' \in [Names -> {"none", "whole"}] /\ mGone' \in [Names -> Nat] /\ mOverlap' \subseteq Names
  BY <1>1 DEF StoreShape
<1>3. /\ \A n \in Names : n \in names => mFile'[n] = "none"
      /\ \A n \in Names : n \notin names => mFile'[n] = mFile[n]
      /\ \A n \in Names : mGone'[n] = mGone[n] \/ mGone'[n] = mNow
      /\ \A n \in Names : mFile[n] # "none" /\ mFile'[n] = "none" => mGone'[n] = mNow
      /\ mOverlap \subseteq mOverlap'
  BY <1>1
<1>4. ASSUME NEW r \in Readers, mRead[r].pc = "store", mFile'[mRead[r].name] = "none"
      PROVE  mRead[r].name \in mOverlap'
  <2>1. mRead[r].name \in Names
    BY <1>4, ReadKinds DEF StoreShape
  <2>2. CASE mFile[mRead[r].name] = "none"
    BY <1>3, <1>4, <2>2 DEF HeldGone
  <2>3. CASE mFile[mRead[r].name] # "none"
    BY <1>1, <1>3, <1>4, <2>1, <2>3 DEF Held
  <2> QED BY <2>2, <2>3
<1> QED BY <1>2, <1>3, <1>4

LEMMA NextFacts ==
    ASSUME NEW n \in Names
    PROVE  /\ NextName(n) \in Nat \X Kinds
           /\ n = <<LastImage, "thumb">> => Before(n) \cup {n} = Names
           /\ n # <<LastImage, "thumb">> => NextName(n) \in Names /\ Before(NextName(n)) = Before(n) \cup {n}
<1>1. PICK i \in 1 .. LastImage, k \in Kinds : n = <<i, k>>
  BY DEF Names
<1>2. n[1] = i /\ n[2] = k /\ k \in {"original", "thumb"} /\ i \in Nat /\ LastImage \in Nat /\ i <= LastImage
  BY <1>1, StoreAssumption DEF Kinds
<1>3. \A m \in Names : m = <<m[1], m[2]>> /\ m[1] \in 1 .. LastImage /\ m[2] \in {"original", "thumb"}
  BY DEF Names, Kinds
<1>4. CASE k = "original"
  <2>1. NextName(n) = <<i, "thumb">> /\ n # <<LastImage, "thumb">>
    BY <1>1, <1>2, <1>4 DEF NextName
  <2>2. NextName(n) \in Names /\ NextName(n) \in Nat \X Kinds
    BY <1>2, <2>1 DEF Names, Kinds
  <2>3. ASSUME NEW m \in Names PROVE m \in Before(<<i, "thumb">>) <=> m \in Before(n) \cup {n}
    BY <1>1, <1>2, <1>3, <1>4, <2>3 DEF Before
  <2>4. Before(<<i, "thumb">>) \subseteq Names /\ Before(n) \cup {n} \subseteq Names
    BY DEF Before
  <2> QED BY <2>1, <2>2, <2>3, <2>4
<1>5. CASE k = "thumb" /\ i < LastImage
  <2>1. NextName(n) = <<i + 1, "original">> /\ n # <<LastImage, "thumb">>
    BY <1>1, <1>2, <1>5 DEF NextName
  <2>2. NextName(n) \in Names /\ NextName(n) \in Nat \X Kinds
    BY <1>2, <1>5, <2>1 DEF Names, Kinds
  <2>3. ASSUME NEW m \in Names PROVE m \in Before(<<i + 1, "original">>) <=> m \in Before(n) \cup {n}
    <3>1. m[1] \in Int /\ i \in Int
      BY <1>2, <1>3
    <3>2. m[1] < i + 1 <=> m[1] < i \/ m[1] = i
      BY <3>1
    <3>3. m \in Before(<<i + 1, "original">>) <=> m[1] < i + 1
      BY DEF Before
    <3>4. m \in Before(n) <=> m[1] < i \/ (m[1] = i /\ m[2] = "original")
      BY <1>2, <1>5 DEF Before
    <3>5. m = n <=> m[1] = i /\ m[2] = "thumb"
      BY <1>1, <1>2, <1>3, <1>5
    <3> QED BY <1>3, <3>2, <3>3, <3>4, <3>5
  <2>4. Before(<<i + 1, "original">>) \subseteq Names /\ Before(n) \cup {n} \subseteq Names
    BY DEF Before
  <2> QED BY <2>1, <2>2, <2>3, <2>4
<1>6. CASE k = "thumb" /\ i = LastImage
  <2>1. NextName(n) = <<i + 1, "original">> /\ n = <<LastImage, "thumb">>
    BY <1>1, <1>2, <1>6 DEF NextName
  <2>2. NextName(n) \in Nat \X Kinds
    BY <1>2, <2>1 DEF Kinds
  <2>3. ASSUME NEW m \in Names PROVE m \in Before(n) \cup {n}
    <3>1. m[1] < i \/ m[1] = i
      BY <1>2, <1>3, <1>6
    <3>2. m \in Before(n) <=> m[1] < i \/ (m[1] = i /\ m[2] = "original")
      BY <1>2, <1>6 DEF Before
    <3>3. m = n <=> m[1] = i /\ m[2] = "thumb"
      BY <1>1, <1>2, <1>3, <1>6
    <3> QED BY <1>3, <3>1, <3>2, <3>3
  <2> QED BY <2>1, <2>2, <2>3 DEF Before
<1> QED BY <1>2, <1>4, <1>5, <1>6

LEMMA WriteTmpKeeps == ASSUME StoreInv, WriteTmp PROVE StoreInv'
<1>0. StoreShape /\ SaveShape /\ SavedAllOrNone /\ CacheAges /\ HeldGone /\ CacheFits
  BY DEF StoreInv
<1>1. /\ mSave.pc = "write" /\ mSave.name \in Names
      /\ UNCHANGED <<mFile, mRead, mCache, mStored, mNow, mGone, mOverlap, mServed>>
  BY <1>0 DEF WriteTmp, SaveShape, cacheState
<1>2. mTmp' = [mTmp EXCEPT ![mSave.name] = IF @ = "none" THEN "part" ELSE "whole"]
  BY DEF WriteTmp
<1>3. mTmp' \in [Names -> {"none", "part", "whole"}]
  BY <1>0, <1>2 DEF StoreShape
<1>4. \/ mSave' = mSave
      \/ mSave' = [mSave EXCEPT !.pc = "rename"] /\ mTmp'[mSave.name] = "whole"
  BY <1>0, <1>1, <1>2 DEF WriteTmp, StoreShape
<1>5. /\ mSave' \in Saves /\ mSave'.name = mSave.name /\ mSave'.cleanup = mSave.cleanup
      /\ mSave'.pc \in {"write", "rename"} /\ (mSave'.pc = "rename" => mTmp'[mSave.name] = "whole")
  BY <1>0, <1>1, <1>4 DEF StoreShape, Saves
<1>6. StoreShape'
  BY <1>0, <1>1, <1>3, <1>5 DEF StoreShape
<1>7. SaveShape'
  BY <1>0, <1>1, <1>5 DEF SaveShape, Before
<1>8. SavedAllOrNone' /\ CacheAges' /\ HeldGone' /\ CacheFits'
  BY <1>0, <1>1, <1>5 DEF SavedAllOrNone, CacheAges, HeldGone, CacheFits
<1> QED BY <1>6, <1>7, <1>8 DEF StoreInv

LEMMA RenameKeeps == ASSUME StoreInv, Rename PROVE StoreInv'
<1> DEFINE n == mSave.name
<1>0. StoreShape /\ SaveShape /\ SavedAllOrNone /\ CacheAges /\ HeldGone /\ CacheFits
  BY DEF StoreInv
<1>1. /\ mSave.pc = "rename" /\ n \in Names /\ mTmp[n] = "whole"
      /\ mSave.cleanup = Before(n) /\ mSave.cleanup \in SUBSET Names
      /\ UNCHANGED <<mRead, mCache, mStored, mNow, mGone, mOverlap, mServed>>
  BY <1>0 DEF Rename, SaveShape, StoreShape, Saves, cacheState
<1>2. /\ mFile' = [mFile EXCEPT ![n] = "whole"] /\ mTmp' = [mTmp EXCEPT ![n] = "none"]
      /\ mSave' = [pc |-> IF n = <<LastImage, "thumb">> THEN "saved" ELSE "write",
                   name |-> NextName(n), cleanup |-> mSave.cleanup \cup {n}]
  BY <1>1 DEF Rename, Written
<1>3. PICK i : i = n
  OBVIOUS
<1>4. PICK done : done = mSave.cleanup
  OBVIOUS
<1> HIDE DEF n
<1>5. mFile' = [mFile EXCEPT ![i] = "whole"] /\ mTmp' = [mTmp EXCEPT ![i] = "none"] /\ i \in Names
  BY <1>1, <1>2, <1>3
<1>6. mFile' \in [Names -> {"none", "whole"}] /\ mTmp' \in [Names -> {"none", "part", "whole"}]
  BY <1>0, <1>5 DEF StoreShape
<1>7. mFile'[i] = "whole" /\ \A m \in Names : m # i => mFile'[m] = mFile[m]
  BY <1>0, <1>5 DEF StoreShape
<1>8. /\ NextName(i) \in Nat \X Kinds
      /\ i = <<LastImage, "thumb">> => Before(i) \cup {i} = Names
      /\ i # <<LastImage, "thumb">> => NextName(i) \in Names /\ Before(NextName(i)) = Before(i) \cup {i}
  BY <1>5, NextFacts
<1>9. mSave' = [pc |-> IF i = <<LastImage, "thumb">> THEN "saved" ELSE "write",
                name |-> NextName(i), cleanup |-> done \cup {i}]
  BY <1>2, <1>3, <1>4
<1>10. done = Before(i) /\ done \in SUBSET Names
  BY <1>1, <1>3, <1>4
<1>11. mSave' \in Saves
  BY <1>5, <1>8, <1>9, <1>10 DEF Saves
<1>12. /\ mSave'.pc = IF i = <<LastImage, "thumb">> THEN "saved" ELSE "write"
       /\ mSave'.name = NextName(i) /\ mSave'.cleanup = done \cup {i}
  BY <1>9
<1>13. StoreShape'
  BY <1>0, <1>1, <1>6, <1>11 DEF StoreShape
<1>14. /\ \A m \in Names : m \in done => mFile[m] = "whole" \/ mGone[m] > 0
       /\ \A m \in Names : m \notin done => mFile[m] = "none"
  BY <1>0, <1>1, <1>4 DEF SaveShape
<1>15. /\ \A m \in Names : m \in done \cup {i} => mFile'[m] = "whole" \/ mGone'[m] > 0
       /\ \A m \in Names : m \notin done \cup {i} => mFile'[m] = "none"
  BY <1>1, <1>7, <1>14
<1>16. SaveShape'
  <2>1. i # <<LastImage, "thumb">> => mSave'.cleanup = Before(mSave'.name) /\ mSave'.name \in Names
    BY <1>8, <1>10, <1>12
  <2>2. Before(mSave.name)' = Before(mSave'.name)
    BY DEF Before
  <2> QED BY <1>12, <1>15, <2>1, <2>2 DEF SaveShape
<1>17. SavedAllOrNone'
  BY <1>8, <1>10, <1>12, <1>15 DEF SavedAllOrNone
<1>18. \A m \in Names : mFile'[m] = "none" => mFile[m] = "none"
  BY <1>7
<1>19. CacheAges' /\ CacheFits'
  BY <1>0, <1>1, <1>18 DEF CacheAges, CacheFits
<1>20. \A r \in Readers : mRead[r].pc = "store" => mRead[r].name \in Names
  BY <1>0, ReadKinds DEF StoreShape
<1>21. HeldGone'
  BY <1>0, <1>1, <1>18, <1>20 DEF HeldGone
<1> QED BY <1>13, <1>16, <1>17, <1>19, <1>21 DEF StoreInv

\* Files are removed, whatever becomes of the save.
LEMMA RemoveKeeps ==
    ASSUME StoreInv, NEW names \in SUBSET Names, RemoveFiles(names),
           UNCHANGED <<mTmp, mRead, mCache, mStored, mNow, mServed>>,
           mSave' \in Saves, SaveShape', SavedAllOrNone'
    PROVE  StoreInv'
<1>0. StoreShape /\ CacheAges /\ HeldGone /\ CacheFits
  BY DEF StoreInv
<1>1. /\ mFile' \in [Names -> {"none", "whole"}] /\ mGone' \in [Names -> Nat] /\ mOverlap' \subseteq Names
      /\ \A n \in Names : mGone'[n] = mGone[n] \/ mGone'[n] = mNow
      /\ \A n \in Names : mFile[n] # "none" /\ mFile'[n] = "none" => mGone'[n] = mNow
      /\ mOverlap \subseteq mOverlap'
      /\ \A r \in Readers : mRead[r].pc = "store" /\ mFile'[mRead[r].name] = "none" =>
            mRead[r].name \in mOverlap'
  BY <1>0, RemoveFacts
<1>2. StoreShape'
  BY <1>0, <1>1 DEF StoreShape
<1>3. CacheAges'
  <2>1. ASSUME NEW n \in Names, mCache[n] > 0, mFile'[n] = "none"
        PROVE  mCache[n] <= mGone'[n] + CacheTTL \/ n \in mOverlap'
    <3>1. mCache[n] <= mNow + CacheTTL
      BY <1>0 DEF CacheAges
    <3>2. CASE mFile[n] = "none" /\ mGone'[n] = mGone[n]
      BY <1>0, <1>1, <2>1, <3>2 DEF CacheAges
    <3>3. CASE mGone'[n] = mNow
      BY <3>1, <3>3
    <3> QED BY <1>1, <2>1, <3>2, <3>3
  <2> QED BY <1>0, <2>1 DEF CacheAges
<1>4. HeldGone' /\ CacheFits'
  BY <1>0, <1>1 DEF HeldGone, CacheFits
<1> QED BY <1>2, <1>3, <1>4 DEF StoreInv

LEMMA SaveFailsKeeps == ASSUME StoreInv, SaveFails PROVE StoreInv'
<1>0. StoreShape /\ SaveShape /\ HeldGone
  BY DEF StoreInv
<1>1. /\ mSave.pc \in {"write", "rename"} /\ RemoveFiles(mSave.cleanup)
      /\ mSave' = [mSave EXCEPT !.pc = "failed", !.cleanup = {}]
      /\ UNCHANGED <<mTmp, mRead, mCache, mStored, mNow, mServed>>
  BY DEF SaveFails, cacheState
<1>2. mSave.cleanup \in SUBSET Names /\ mSave' \in Saves /\ mSave'.pc = "failed"
  BY <1>0, <1>1 DEF StoreShape, Saves
<1>3. \A n \in Names : mFile'[n] = "none"
  BY <1>0, <1>1, <1>2, RemoveFacts DEF SaveShape
<1>4. SaveShape' /\ SavedAllOrNone'
  BY <1>2, <1>3 DEF SaveShape, SavedAllOrNone
<1> QED BY <1>1, <1>2, <1>4, RemoveKeeps

LEMMA DeleteFileKeeps == ASSUME StoreInv, NEW n \in Names, DeleteFile(n) PROVE StoreInv'
<1>0. StoreShape /\ SaveShape /\ HeldGone /\ SavedAllOrNone
  BY DEF StoreInv
<1>1. RemoveFiles({n}) /\ UNCHANGED <<mTmp, mSave, mRead, mCache, mStored, mNow, mServed>>
  BY DEF DeleteFile, cacheState
<1>2. /\ \A k \in Names : k \in {n} => mFile'[k] = "none"
      /\ \A k \in Names : k \notin {n} => mFile'[k] = mFile[k]
      /\ \A k \in Names : mGone'[k] = mGone[k] \/ mGone'[k] = mNow
      /\ \A k \in Names : mFile[k] # "none" /\ mFile'[k] = "none" => mGone'[k] = mNow
  BY <1>0, <1>1, RemoveFacts
<1>3. mNow > 0 /\ \A k \in Names : mFile[k] \in {"none", "whole"}
  BY <1>0 DEF StoreShape
<1>4. \A k \in Names : mFile[k] = "whole" \/ mGone[k] > 0 => mFile'[k] = "whole" \/ mGone'[k] > 0
  BY <1>2, <1>3
<1>5. \A k \in Names : mFile[k] = "none" => mFile'[k] = "none"
  BY <1>2
<1>6. SaveShape' /\ SavedAllOrNone' /\ mSave' \in Saves
  BY <1>0, <1>1, <1>4, <1>5 DEF SaveShape, SavedAllOrNone, StoreShape, Before
<1> QED BY <1>1, <1>6, RemoveKeeps

\* A reader's step that leaves the files, the save and the clock alone.
LEMMA ReaderKeeps ==
    ASSUME StoreInv, UNCHANGED <<mFile, mTmp, mSave, mNow, mGone, mOverlap>>,
           mRead' \in [Readers -> Reads], mCache' \in [Names -> Nat], mStored' \in [Names -> Nat],
           mServed' \in {"none", "whole"}, CacheAges', HeldGone', CacheFits'
    PROVE  StoreInv'
<1>0. StoreShape /\ SaveShape /\ SavedAllOrNone
  BY DEF StoreInv
<1>1. StoreShape'
  BY <1>0 DEF StoreShape
<1>2. SaveShape' /\ SavedAllOrNone'
  BY <1>0 DEF SaveShape, SavedAllOrNone, Before
<1> QED BY <1>1, <1>2 DEF StoreInv

\* The entries that are left fit when none was added.
LEMMA FitsWithLess ==
    ASSUME StoreShape, CacheFits, mCache' \in [Names -> Nat], \A n \in Names : mCache'[n] > 0 => mCache[n] > 0
    PROVE  CacheFits'
<1> DEFINE old == {n \in Names : mCache[n] > 0}
           new == {n \in Names : mCache'[n] > 0}
<1>1. IsFiniteSet(old) /\ new \subseteq old
  BY NamesFinite, FS_Subset
<1>2. Cardinality(new) <= Cardinality(old) /\ Cardinality(new) \in Nat /\ Cardinality(old) \in Nat
  BY <1>1, FS_Subset, FS_CardinalityType
<1>3. CacheMax \in Nat /\ Cardinality(old) <= CacheMax
  BY StoreAssumption DEF CacheFits
<1> HIDE DEF old
<1>4. Cardinality(new) <= CacheMax
  BY <1>2, <1>3
<1> QED BY <1>4 DEF CacheFits

\* A request that looks for its file: it keeps no entry and adds none.
LEMMA LookingKeeps ==
    ASSUME StoreInv, NEW r \in Readers, NEW q \in Reads, mRead' = [mRead EXCEPT ![r] = q],
           q.pc = "store" => mFile[q.name] # "none",
           \A n \in Names : mCache'[n] = 0 \/ mCache'[n] = mCache[n], mCache' \in [Names -> Nat],
           UNCHANGED <<mFile, mTmp, mSave, mStored, mNow, mGone, mOverlap, mServed>>
    PROVE  StoreInv'
<1>0. StoreShape /\ CacheAges /\ HeldGone /\ CacheFits
  BY DEF StoreInv
<1>1. mRead' \in [Readers -> Reads] /\ mRead'[r] = q /\ \A s \in Readers : s # r => mRead'[s] = mRead[s]
  BY <1>0 DEF StoreShape
<1>2. HeldGone'
  BY <1>0, <1>1 DEF HeldGone
<1>3. CacheAges'
  <2>1. ASSUME NEW n \in Names
        PROVE  /\ mCache'[n] <= mNow + CacheTTL
               /\ mCache'[n] > 0 /\ mFile[n] = "none" => mCache'[n] <= mGone[n] + CacheTTL \/ n \in mOverlap
    <3>1. mNow \in Nat /\ CacheTTL \in Nat /\ 0 <= mNow + CacheTTL
      BY <1>0, StoreAssumption DEF StoreShape
    <3>2. CASE mCache'[n] = 0
      BY <3>1, <3>2
    <3>3. CASE mCache'[n] = mCache[n]
      BY <1>0, <3>3 DEF CacheAges
    <3> QED BY <3>2, <3>3
  <2> QED BY <2>1 DEF CacheAges
<1>4. CacheFits'
  <2>1. \A n \in Names : mCache'[n] > 0 => mCache[n] > 0
    OBVIOUS
  <2> QED BY <1>0, <2>1, FitsWithLess
<1>5. mStored' \in [Names -> Nat] /\ mServed' \in {"none", "whole"}
  BY <1>0 DEF StoreShape
<1> QED BY <1>1, <1>2, <1>3, <1>4, <1>5, ReaderKeeps

LEMMA CacheSetKeeps == ASSUME StoreInv, NEW r \in Readers, CacheSet(r) PROVE StoreInv'
<1> DEFINE i == mRead[r].name
           cache == [mCache EXCEPT ![i] = mNow + CacheTTL]
           stored == [mStored EXCEPT ![i] = mNow]
<1>0. StoreShape /\ CacheAges /\ HeldGone /\ CacheFits
  BY DEF StoreInv
<1>1. /\ mRead[r].pc = "store" /\ mServed' = mRead[r].body /\ mRead' = [mRead EXCEPT ![r] = MIdle]
      /\ UNCHANGED <<mFile, mTmp, mSave, mNow, mGone, mOverlap>>
  BY DEF CacheSet
<1>2. mRead[r] \in Reads /\ mRead[r].body = "whole" /\ i \in Names
  BY <1>0, <1>1, ReadKinds DEF StoreShape
<1>3. PICK keep \in SUBSET Names :
        /\ Evicts(stored, cache, keep)
        /\ mCache' = [k \in Names |-> IF k \in keep THEN cache[k] ELSE 0]
        /\ mStored' = [k \in Names |-> IF k \in keep THEN stored[k] ELSE 0]
  BY DEF CacheSet
<1>4. mNow \in Nat /\ CacheTTL \in Nat /\ mNow + CacheTTL \in Nat /\ 0 <= mNow + CacheTTL /\ CacheMax \in Nat
  BY <1>0, StoreAssumption DEF StoreShape
<1>5. cache \in [Names -> Nat] /\ stored \in [Names -> Nat]
  BY <1>0, <1>4 DEF StoreShape
<1>6. cache[i] = mNow + CacheTTL /\ \A k \in Names : k # i => cache[k] = mCache[k]
  BY <1>0, <1>2 DEF StoreShape
<1>7. Cardinality(keep) <= CacheMax
  <2> DEFINE alive == {k \in Names : cache[k] > mNow}
  <2>1. Cardinality(keep) = IF Cardinality(alive) > CacheMax THEN CacheMax ELSE Cardinality(alive)
    BY <1>3 DEF Evicts
  <2>2. Cardinality(alive) \in Nat
    BY NamesFinite, FS_Subset, FS_CardinalityType
  <2> HIDE DEF alive
  <2> QED BY <1>4, <2>1, <2>2
<1> HIDE DEF cache, stored
<1>8. mCache' \in [Names -> Nat] /\ mStored' \in [Names -> Nat]
  BY <1>3, <1>5
<1>9. CacheFits'
  <2> DEFINE new == {k \in Names : mCache'[k] > 0}
  <2>1. new \subseteq keep /\ IsFiniteSet(keep)
    BY <1>3, NamesFinite, FS_Subset
  <2>2. Cardinality(new) <= Cardinality(keep) /\ Cardinality(new) \in Nat /\ Cardinality(keep) \in Nat
    BY <2>1, FS_Subset, FS_CardinalityType
  <2> HIDE DEF new
  <2>3. Cardinality(new) <= CacheMax
    BY <1>4, <1>7, <2>2
  <2> QED BY <2>3 DEF CacheFits, new
<1>10. CacheAges'
  <2>1. ASSUME NEW k \in Names
        PROVE  /\ mCache'[k] <= mNow + CacheTTL
               /\ mCache'[k] > 0 /\ mFile[k] = "none" => mCache'[k] <= mGone[k] + CacheTTL \/ k \in mOverlap
    <3>1. mCache'[k] = 0 \/ mCache'[k] = cache[k]
      BY <1>3
    <3>2. CASE mCache'[k] = 0
      BY <1>4, <3>2
    <3>3. CASE mCache'[k] = cache[k] /\ k # i
      BY <1>0, <1>6, <3>3 DEF CacheAges
    <3>4. CASE mCache'[k] = cache[k] /\ k = i
      BY <1>0, <1>1, <1>4, <1>6, <3>4 DEF HeldGone
    <3> QED BY <3>1, <3>2, <3>3, <3>4
  <2> QED BY <1>1, <2>1 DEF CacheAges
<1>11. mRead' \in [Readers -> Reads] /\ mRead'[r] = MIdle /\ \A s \in Readers : s # r => mRead'[s] = mRead[s]
  BY <1>0, <1>1, ReadKinds DEF StoreShape
<1>12. HeldGone'
  BY <1>0, <1>1, <1>11, ReadKinds DEF HeldGone
<1>13. mServed' \in {"none", "whole"}
  BY <1>1, <1>2
<1> QED BY <1>1, <1>8, <1>9, <1>10, <1>11, <1>12, <1>13, ReaderKeeps

LEMMA ReadersKeep ==
    ASSUME StoreInv, NEW r \in Readers, NEW n \in Names,
           CacheHit(r, n) \/ CacheMiss(r, n) \/ Find(r) \/ ReadFile(r)
    PROVE  StoreInv'
<1>0. StoreShape
  BY DEF StoreInv
<1>1. mRead[r] \in Reads
  BY <1>0 DEF StoreShape
<1>2. CASE CacheHit(r, n)
  <2>1. mServed' = "whole" /\ UNCHANGED <<mFile, mTmp, mSave, mRead, mCache, mStored, mNow, mGone, mOverlap>>
    BY <1>2 DEF CacheHit, cacheState
  <2> QED BY <2>1 DEF StoreInv, StoreShape, SaveShape, Before, SavedAllOrNone, CacheAges, HeldGone, CacheFits
<1>3. CASE CacheMiss(r, n)
  <2> DEFINE q == [pc |-> "find", name |-> n]
  <2>1. /\ mCache' = [mCache EXCEPT ![n] = 0] /\ mRead' = [mRead EXCEPT ![r] = q]
        /\ UNCHANGED <<mFile, mTmp, mSave, mStored, mNow, mGone, mOverlap, mServed>>
    BY <1>3 DEF CacheMiss
  <2>2. q \in Reads /\ q.pc = "find"
    BY DEF Reads
  <2>3. mCache' \in [Names -> Nat] /\ \A k \in Names : mCache'[k] = 0 \/ mCache'[k] = mCache[k]
    BY <1>0, <2>1 DEF StoreShape
  <2> HIDE DEF q
  <2> QED BY <2>1, <2>2, <2>3, LookingKeeps
<1>4. CASE Find(r)
  <2>1. PICK q : q = IF mFile[mRead[r].name] = "none" THEN MIdle ELSE [mRead[r] EXCEPT !.pc = "read"]
    OBVIOUS
  <2>2. /\ mRead[r].pc = "find" /\ mRead' = [mRead EXCEPT ![r] = q]
        /\ UNCHANGED <<mFile, mTmp, mSave, mCache, mStored, mNow, mGone, mOverlap, mServed>>
    BY <1>4, <2>1 DEF Find, cacheState
  <2>3. mRead[r] \in [pc : {"find", "read"}, name : Names]
    BY <1>1, <2>2, ReadKinds
  <2>4. [mRead[r] EXCEPT !.pc = "read"] \in [pc : {"find", "read"}, name : Names]
        /\ [mRead[r] EXCEPT !.pc = "read"].pc = "read"
    BY <2>3
  <2>5. q \in Reads /\ q.pc # "store"
    BY <2>1, <2>4, ReadKinds DEF Reads
  <2>6. mCache' \in [Names -> Nat] /\ \A k \in Names : mCache'[k] = 0 \/ mCache'[k] = mCache[k]
    BY <1>0, <2>2 DEF StoreShape
  <2> QED BY <2>2, <2>5, <2>6, LookingKeeps
<1>5. CASE ReadFile(r)
  <2> DEFINE i == mRead[r].name
  <2>1. PICK q : q = IF mFile[i] = "none" THEN MIdle ELSE [pc |-> "store", name |-> i, body |-> mFile[i]]
    OBVIOUS
  <2>2. /\ mRead[r].pc = "read" /\ mRead' = [mRead EXCEPT ![r] = q]
        /\ UNCHANGED <<mFile, mTmp, mSave, mCache, mStored, mNow, mGone, mOverlap, mServed>>
    BY <1>5, <2>1 DEF ReadFile, cacheState
  <2>3. i \in Names
    BY <1>1, <2>2, ReadKinds
  <2>4. mFile[i] \in {"none", "whole"}
    BY <1>0, <2>3 DEF StoreShape
  <2>5. q \in Reads /\ (q.pc = "store" => mFile[q.name] # "none")
    BY <2>1, <2>3, <2>4, ReadKinds DEF Reads
  <2>6. mCache' \in [Names -> Nat] /\ \A k \in Names : mCache'[k] = 0 \/ mCache'[k] = mCache[k]
    BY <1>0, <2>2 DEF StoreShape
  <2> QED BY <2>2, <2>5, <2>6, LookingKeeps
<1> QED BY <1>2, <1>3, <1>4, <1>5

LEMMA StoreTickKeeps == ASSUME StoreInv, MTick PROVE StoreInv'
<1>0. StoreShape /\ SaveShape /\ SavedAllOrNone /\ CacheAges /\ HeldGone /\ CacheFits
  BY DEF StoreInv
<1>1. /\ mNow' = mNow + 1
      /\ UNCHANGED <<mFile, mTmp, mSave, mRead, mCache, mStored, mGone, mOverlap, mServed>>
  BY DEF MTick, cacheState
<1>2. mNow \in Nat \ {0} /\ CacheTTL \in Nat /\ \A n \in Names : mCache[n] \in Nat
  BY <1>0, StoreAssumption DEF StoreShape
<1>3. mNow' \in Nat \ {0} /\ \A n \in Names : mCache[n] <= mNow + CacheTTL => mCache[n] <= mNow' + CacheTTL
  BY <1>1, <1>2
<1>4. StoreShape'
  BY <1>0, <1>1, <1>3 DEF StoreShape
<1>5. CacheAges'
  BY <1>0, <1>1, <1>3 DEF CacheAges
<1>6. SaveShape' /\ SavedAllOrNone' /\ HeldGone' /\ CacheFits'
  BY <1>0, <1>1 DEF SaveShape, SavedAllOrNone, HeldGone, CacheFits, Before
<1> QED BY <1>4, <1>5, <1>6 DEF StoreInv

LEMMA ProcessDiesKeeps == ASSUME StoreInv, ProcessDies PROVE StoreInv'
<1>0. StoreShape /\ SaveShape /\ SavedAllOrNone /\ CacheFits
  BY DEF StoreInv
<1>1. /\ mSave' = IF mSave.pc \in {"write", "rename"} THEN [mSave EXCEPT !.pc = "died"] ELSE mSave
      /\ mRead' = [r \in Readers |-> MIdle]
      /\ mCache' = [n \in Names |-> 0] /\ mStored' = [n \in Names |-> 0]
      /\ UNCHANGED <<mFile, mTmp, mNow, mGone, mOverlap, mServed>>
  BY DEF ProcessDies
<1>2. mSave' \in Saves /\ mSave'.pc \notin {"write", "rename"}
      /\ (mSave'.pc \in {"saved", "failed"} => mSave' = mSave)
  BY <1>0, <1>1 DEF StoreShape, Saves
<1>3. mRead' \in [Readers -> Reads] /\ mCache' \in [Names -> Nat] /\ mStored' \in [Names -> Nat]
  BY <1>1, ReadKinds
<1>4. StoreShape'
  BY <1>0, <1>1, <1>2, <1>3 DEF StoreShape
<1>5. SaveShape' /\ SavedAllOrNone' /\ HeldGone'
  BY <1>0, <1>1, <1>2, ReadKinds DEF SaveShape, SavedAllOrNone, HeldGone
<1>6. CacheAges'
  <2>1. mNow \in Nat /\ CacheTTL \in Nat /\ 0 <= mNow + CacheTTL
    BY <1>0, StoreAssumption DEF StoreShape
  <2> QED BY <1>1, <2>1 DEF CacheAges
<1>7. CacheFits'
  <2>1. \A n \in Names : mCache'[n] > 0 => mCache[n] > 0
    BY <1>1
  <2> QED BY <1>0, <1>3, <2>1, FitsWithLess
<1> QED BY <1>4, <1>5, <1>6, <1>7 DEF StoreInv

LEMMA StoreStep == StoreInv /\ [MNext]_mVars => StoreInv'
<1> SUFFICES ASSUME StoreInv, [MNext]_mVars PROVE StoreInv'
  OBVIOUS
<1>1. <<1, "original">> \in Names
  BY StoreAssumption DEF Names, Kinds
<1>2. CASE UNCHANGED mVars
  BY <1>2 DEF mVars, StoreInv, StoreShape, SaveShape, Before, SavedAllOrNone, CacheAges, HeldGone, CacheFits
<1>3. CASE MNext
  BY <1>1, <1>3, WriteTmpKeeps, RenameKeeps, SaveFailsKeeps, ReadersKeep, CacheSetKeeps, DeleteFileKeeps,
     StoreTickKeeps, ProcessDiesKeeps DEF MNext
<1> QED BY <1>2, <1>3

LEMMA StoreStart == ASSUME MInit PROVE StoreInv
<1>1. <<1, "original">> \in Names /\ LastImage \in Nat \ {0}
  BY StoreAssumption DEF Names, Kinds
<1>2. /\ mSave.pc = "write" /\ mSave.name = <<1, "original">> /\ mSave.cleanup = {}
      /\ \A n \in Names : mFile[n] = "none" /\ mCache[n] = 0
      /\ mRead = [r \in Readers |-> MIdle] /\ mNow = 1
  BY DEF MInit
<1>3. mSave \in Saves
  BY <1>1 DEF MInit, Saves, Names
<1>4. StoreShape
  BY <1>3, ReadKinds DEF MInit, StoreShape
<1>5. Before(<<1, "original">>) = {}
  BY DEF Before, Names
<1>6. SaveShape /\ SavedAllOrNone /\ HeldGone
  BY <1>1, <1>2, <1>5, ReadKinds DEF SaveShape, SavedAllOrNone, HeldGone
<1>7. CacheAges
  BY <1>2, StoreAssumption DEF CacheAges
<1>8. CacheFits
  <2>1. {n \in Names : mCache[n] > 0} = {}
    BY <1>2
  <2> QED BY <2>1, FS_EmptySet, StoreAssumption DEF CacheFits
<1> QED BY <1>4, <1>6, <1>7, <1>8 DEF StoreInv

LEMMA StoreInvSound == ASSUME StoreInv PROVE StoreSound
<1>0. StoreShape /\ SavedAllOrNone /\ CacheAges /\ CacheFits
  BY DEF StoreInv
<1>1. ServedWhole
  BY <1>0 DEF StoreShape, ServedWhole
<1>2. ASSUME NEW n \in Names, Cached(n), mFile[n] = "none"
      PROVE  mNow - mGone[n] < CacheTTL \/ n \in mOverlap
  <2>1. mCache[n] \in Nat /\ mGone[n] \in Nat /\ mNow \in Nat /\ mCache[n] > mNow /\ CacheTTL \in Nat
    BY <1>0, <1>2, StoreAssumption DEF StoreShape, Cached
  <2>2. mCache[n] <= mGone[n] + CacheTTL \/ n \in mOverlap
    BY <1>0, <1>2, <2>1 DEF CacheAges
  <2> QED BY <2>1, <2>2
<1>3. CacheSound
  BY <1>0, <1>2 DEF CacheSound, CacheFits
<1> QED BY <1>0, <1>1, <1>3 DEF StoreSound

\* Nothing half written is served, a save is all or nothing, and the cache
\* keeps its bound and lets a deleted image go, for any number of images,
\* requests, deletions and deaths of the process.
THEOREM StoreStaysSound == MSpec => []StoreSound
BY StoreStart, StoreStep, StoreInvSound, PTL DEF MSpec

-----------------------------------------------------------------------------
(* Backups.                                                                *)

BackupStates == {"none", "running", "ready", "failed"}
Rows == [Backups -> BackupStates]
BackupFiles == {Absent, Partial} \cup [state : {"complete"}, rows : Rows]
BRequests ==
    {BIdle} \cup [pc : {"open", "ready", "retain", "copy", "row", "drop", "load"}, id : Backups]
            \cup [pc : {"dump", "feed"}, id : Backups, rows : Rows]
            \cup [pc : {"remove", "delete"}, id : Backups, todo : SUBSET Backups]

BackupShape ==
    /\ bRow \in Rows /\ bFile \in [Backups -> BackupFiles] /\ bReq \in [BHandlers -> BRequests]
    /\ bLoaded = TRUE /\ bRestored \in BOOLEAN /\ bStuck \subseteq Backups /\ bLast \in Nat

\* A request that will write the file of its backup, or that makes the backup.
Writing == {"open", "dump", "copy"}
Making == {"open", "dump", "ready", "copy", "row", "drop"}
Deletes == {"remove", "delete"}

\* The file of b will not be written again: it is complete or gone.
WrittenOut(b) ==
    /\ b <= bLast /\ bFile[b] # Partial
    /\ \A h \in BHandlers : bReq[h].pc \in Writing => bReq[h].id # b

\* What rows say, in the table, in a dump or on its way back into the table,
\* was true: who is ready has been written.
RowsKnown(rows) ==
    \A b \in Backups : (rows[b] # "none" => b <= bLast) /\ (rows[b] = "ready" => WrittenOut(b))

AllKnown ==
    /\ RowsKnown(bRow)
    /\ \A b \in Backups : bFile[b].state = "complete" => RowsKnown(bFile[b].rows)
    /\ \A h \in BHandlers :
         /\ bReq[h].pc \in {"dump", "feed"} => RowsKnown(bReq[h].rows)
         /\ bReq[h].pc \in {"ready", "row", "load"} => WrittenOut(bReq[h].id)
         /\ bReq[h].pc \in Making => bReq[h].id <= bLast
         /\ bReq[h].pc \in Deletes => bReq[h].id <= bLast /\ \A b \in bReq[h].todo : b <= bLast

OneMaker ==
    \A g, h \in BHandlers : bReq[g].pc \in Making /\ bReq[h].pc \in Making /\ bReq[g].id = bReq[h].id => g = h

KnownInv == BackupShape /\ AllKnown /\ OneMaker

LEMMA BackupKinds ==
    /\ BIdle \in BRequests /\ BIdle.pc = "idle"
    /\ \A q \in BRequests :
          /\ q.pc \in {"idle", "open", "ready", "retain", "copy", "row", "drop", "load", "dump", "feed", "remove", "delete"}
          /\ q.pc = "idle" <=> q = BIdle
          /\ q.pc # "idle" => q.id \in Backups
          /\ q.pc \in {"open", "ready", "retain", "copy", "row", "drop", "load"} => q = BAt(q.pc, q.id)
          /\ q.pc \in {"dump", "feed"} => q.rows \in Rows
          /\ q.pc \in Deletes => q.todo \in SUBSET Backups
               /\ q \in [pc : {"remove", "delete"}, id : Backups, todo : SUBSET Backups]
BY DEF BIdle, BRequests, BAt, Deletes

LEMMA FileKinds ==
    /\ Absent \in BackupFiles /\ Partial \in BackupFiles /\ Absent # Partial
    /\ NoRows \in Rows /\ \A b \in Backups : NoRows[b] = "none"
    /\ \A rows \in Rows : Complete(rows) \in BackupFiles /\ Complete(rows) # Absent /\ Complete(rows) # Partial
                          /\ Complete(rows).rows = rows
    /\ \A f \in BackupFiles :
          /\ f.state \in {"absent", "partial", "complete"} /\ f.rows \in Rows
          /\ f.state = "absent" <=> f = Absent
          /\ f.state = "partial" <=> f = Partial
          /\ f.state # "complete" => f.rows = NoRows
<1>1. NoRows \in Rows /\ \A b \in Backups : NoRows[b] = "none"
  BY DEF NoRows, Rows, BackupStates
<1>2. Absent.state = "absent" /\ Absent.rows = NoRows /\ Partial.state = "partial" /\ Partial.rows = NoRows
  BY DEF Absent, Partial
<1>3. \A rows \in Rows : Complete(rows) \in [state : {"complete"}, rows : Rows]
                         /\ Complete(rows).state = "complete" /\ Complete(rows).rows = rows
  BY DEF Complete
<1>4. \A f \in [state : {"complete"}, rows : Rows] : f.state = "complete" /\ f.rows \in Rows
  OBVIOUS
<1> QED BY <1>1, <1>2, <1>3, <1>4 DEF BackupFiles

\* What a step of h to the request q does to the rows and files that were
\* known: it makes a new backup or goes on with its own, and what it writes
\* into rows and files was known before.
KnownMove(h, q) ==
    /\ q \in BRequests /\ bReq' = [bReq EXCEPT ![h] = q]
    /\ bRow' \in Rows /\ bFile' \in [Backups -> BackupFiles]
    /\ bLoaded' = TRUE /\ bRestored' \in BOOLEAN /\ bStuck' \subseteq Backups
    /\ bLast' \in Nat /\ bLast <= bLast'
    /\ q.pc \in Making => (bReq[h].pc \in Making /\ q.id = bReq[h].id) \/ (q.id = bLast' /\ bLast < bLast')
    /\ q.pc \in Writing => (bReq[h].pc \in Writing /\ q.id = bReq[h].id) \/ (q.id = bLast' /\ bLast < bLast')
    /\ \A b \in Backups : bFile'[b] = Partial => bFile[b] = Partial \/ (q.pc \in Writing /\ q.id = b)
    /\ \A b \in Backups : (bRow'[b] # "none" => b <= bLast') /\ (bRow'[b] = "ready" => WrittenOut(b))
    /\ \A b \in Backups : bFile'[b].state = "complete" => bFile'[b] = bFile[b] \/ RowsKnown(bFile'[b].rows)
    /\ q.pc \in {"dump", "feed"} => RowsKnown(q.rows)
    /\ q.pc \in {"ready", "row", "load"} =>
          WrittenOut(q.id) \/ (bReq[h].pc \in Writing /\ q.id = bReq[h].id /\ bFile'[q.id] # Partial)
    /\ q.pc \in Deletes => q.id <= bLast /\ \A b \in q.todo : b <= bLast

LEMMA KnownStays ==
    ASSUME KnownInv, NEW h \in BHandlers, NEW q, KnownMove(h, q)
    PROVE  KnownInv'
<1>0. BackupShape /\ AllKnown /\ OneMaker
  BY DEF KnownInv
<1>1. /\ q \in BRequests /\ bReq' \in [BHandlers -> BRequests] /\ bReq'[h] = q
      /\ \A g \in BHandlers : g # h => bReq'[g] = bReq[g]
  BY <1>0 DEF KnownMove, BackupShape
<1>2. /\ bLast \in Nat /\ bLast' \in Nat /\ bLast <= bLast' /\ \A b \in Backups : b \in Nat
      /\ \A b \in Backups : b <= bLast => b <= bLast'
  BY <1>0, BackupAssumption DEF KnownMove, BackupShape
<1>3. BackupShape'
  BY <1>1 DEF KnownMove, BackupShape
<1>4. q.pc \in Making => q.id \in Backups
  BY <1>1, BackupKinds DEF Making
<1>5. \A g \in BHandlers : g # h /\ bReq[g].pc \in Making /\ q.pc \in Making => bReq[g].id # q.id
  <2>1. SUFFICES ASSUME NEW g \in BHandlers, g # h, bReq[g].pc \in Making, q.pc \in Making
                 PROVE  bReq[g].id # q.id
    OBVIOUS
  <2>2. CASE bReq[h].pc \in Making /\ q.id = bReq[h].id
    BY <1>0, <2>1, <2>2 DEF OneMaker
  <2>3. CASE q.id = bLast' /\ bLast < bLast'
    <3>1. bReq[g].id <= bLast /\ bReq[g].id \in Backups
      BY <1>0, <2>1, BackupKinds DEF AllKnown, BackupShape, Making
    <3> QED BY <1>2, <2>3, <3>1
  <2> QED BY <2>1, <2>2, <2>3 DEF KnownMove
<1>6. OneMaker'
  BY <1>1, <1>5, <1>0 DEF OneMaker
<1>7. ASSUME NEW b \in Backups, WrittenOut(b) PROVE WrittenOut(b)'
  <2>1. b <= bLast' /\ b <= bLast
    BY <1>2, <1>7 DEF WrittenOut
  <2>2. q.pc \in Writing => q.id # b
    <3>1. CASE bReq[h].pc \in Writing /\ q.id = bReq[h].id
      BY <1>7, <3>1 DEF WrittenOut
    <3>2. CASE q.id = bLast' /\ bLast < bLast'
      BY <1>2, <2>1, <3>2
    <3> QED BY <3>1, <3>2 DEF KnownMove
  <2>3. bFile'[b] # Partial
    BY <1>7, <2>2 DEF KnownMove, WrittenOut
  <2>4. \A g \in BHandlers : bReq'[g].pc \in Writing => bReq'[g].id # b
    BY <1>1, <1>7, <2>2 DEF WrittenOut
  <2> QED BY <2>1, <2>3, <2>4 DEF WrittenOut
<1>8. ASSUME NEW rows, RowsKnown(rows) PROVE RowsKnown(rows)'
  BY <1>2, <1>7, <1>8 DEF RowsKnown
<1>9. RowsKnown(bRow)'
  BY <1>7 DEF RowsKnown, KnownMove
<1>10. ASSUME NEW b \in Backups, bFile'[b].state = "complete" PROVE RowsKnown(bFile[b].rows)'
  <2>1. PICK f : f = bFile'[b]
    OBVIOUS
  <2>2. RowsKnown(f.rows)
    BY <1>0, <1>10, <2>1 DEF KnownMove, AllKnown
  <2>3. RowsKnown(f.rows)'
    BY <1>8, <2>2
  <2> QED BY <2>1, <2>3 DEF RowsKnown
<1>11. ASSUME NEW g \in BHandlers
       PROVE  /\ bReq'[g].pc \in {"dump", "feed"} => RowsKnown(bReq[g].rows)'
              /\ bReq'[g].pc \in {"ready", "row", "load"} => WrittenOut(bReq[g].id)'
              /\ bReq'[g].pc \in Making => bReq'[g].id <= bLast'
              /\ bReq'[g].pc \in Deletes => bReq'[g].id <= bLast' /\ \A b \in bReq'[g].todo : b <= bLast'
  <2>1. PICK p : p = bReq'[g]
    OBVIOUS
  <2>2. p \in BRequests
    BY <1>1, <2>1
  <2>3. p.pc \in {"dump", "feed"} => RowsKnown(p.rows)
    BY <1>0, <1>1, <2>1 DEF KnownMove, AllKnown
  <2>4. p.pc \in {"dump", "feed"} => RowsKnown(bReq[g].rows)'
    <3>1. SUFFICES ASSUME p.pc \in {"dump", "feed"} PROVE RowsKnown(bReq[g].rows)'
      OBVIOUS
    <3>2. RowsKnown(p.rows)'
      BY <1>8, <2>3, <3>1
    <3> QED BY <2>1, <3>2 DEF RowsKnown
  <2>5. p.pc \in {"ready", "row", "load"} => WrittenOut(bReq[g].id)'
    <3>1. SUFFICES ASSUME p.pc \in {"ready", "row", "load"} PROVE WrittenOut(bReq[g].id)'
      OBVIOUS
    <3>2. PICK b \in Backups : b = p.id
      BY <2>2, <3>1, BackupKinds
    <3>3. WrittenOut(b)'
      <4>1. CASE WrittenOut(b)
        BY <1>7, <4>1
      <4>2. CASE ~WrittenOut(b)
        <5>1. g = h /\ bReq[h].pc \in Writing /\ b = bReq[h].id /\ bFile'[b] # Partial
          BY <1>0, <1>1, <2>1, <3>1, <3>2, <4>2 DEF KnownMove, AllKnown
        <5>2. b <= bLast'
          BY <1>0, <1>2, <5>1 DEF AllKnown, Writing, Making
        <5>3. \A k \in BHandlers : bReq'[k].pc \in Writing => bReq'[k].id # b
          BY <1>0, <1>1, <2>1, <3>1, <5>1 DEF OneMaker, Writing, Making
        <5> QED BY <5>1, <5>2, <5>3 DEF WrittenOut
      <4> QED BY <4>1, <4>2
    <3> QED BY <2>1, <3>2, <3>3 DEF WrittenOut
  <2>6. p.pc \in Making => p.id <= bLast'
    <3>1. CASE g # h
      <4>1. p.pc \in Making => p.id <= bLast /\ p.id \in Backups
        BY <1>0, <1>1, <2>1, <2>2, <3>1, BackupKinds DEF AllKnown, Making
      <4> QED BY <1>2, <4>1
    <3>2. CASE g = h
      <4>1. p.pc \in Making => p.id \in Backups /\ (p.id = bLast' \/ p.id <= bLast)
        BY <1>0, <1>1, <1>4, <2>1, <3>2 DEF KnownMove, AllKnown
      <4> QED BY <1>2, <4>1
    <3> QED BY <3>1, <3>2
  <2>7. p.pc \in Deletes => p.id <= bLast' /\ \A b \in p.todo : b <= bLast'
    <3>1. p.pc \in Deletes => p.id <= bLast /\ \A b \in p.todo : b <= bLast
      BY <1>0, <1>1, <2>1 DEF KnownMove, AllKnown
    <3>2. p.pc \in Deletes => p.id \in Backups /\ p.todo \subseteq Backups
      BY <2>2, BackupKinds DEF Deletes
    <3> QED BY <1>2, <3>1, <3>2
  <2> QED BY <2>1, <2>4, <2>5, <2>6, <2>7
<1>12. AllKnown'
  BY <1>9, <1>10, <1>11 DEF AllKnown
<1> QED BY <1>3, <1>6, <1>12 DEF KnownInv

Importing(h) == bReq[h].pc \in {"copy", "row"}
Imported(b) == \E h \in BHandlers : Importing(h) /\ bReq[h].id = b
Deleting(b) == \E h \in BHandlers : bReq[h].pc = "delete" /\ bReq[h].id = b

\* The file of b is there, or somebody knows why not.
Found(b) == bFile[b] # Absent \/ b \in bStuck \/ Deleting(b)

\* What a request at each point may rely on: an upload has no row yet and
\* keeps its file; a row is there before its dump begins unless it was deleted
\* meanwhile; nobody deletes an upload; a file that was deleted does not come
\* back; a dump that is not deleted finds its file; an upload removes its file
\* only if its row is known to be wrong.
OwnedBy(h) ==
    /\ Importing(h) => bRow[bReq[h].id] = "none"
    /\ bReq[h].pc = "row" => bFile[bReq[h].id] # Absent
    /\ bReq[h].pc = "drop" => bReq[h].id \in bStuck
    /\ bReq[h].pc = "open" => bRow[bReq[h].id] # "none" \/ bReq[h].id \in bStuck
    /\ bReq[h].pc \in Deletes => ~Imported(bReq[h].id) /\ \A b \in bReq[h].todo : ~Imported(b)
    /\ bReq[h].pc = "delete" =>
          \/ bReq[h].id \in bStuck
          \/ bFile[bReq[h].id] = Absent /\ \A g \in BHandlers : bReq[g].pc = "open" => bReq[g].id # bReq[h].id
    /\ bReq[h].pc \in {"dump", "ready"} /\ bRow[bReq[h].id] # "none" => Found(bReq[h].id)

Owned ==
    bRestored = FALSE =>
        /\ \A h \in BHandlers : OwnedBy(h)
        /\ \A b \in Backups : bRow[b] = "ready" => Found(b)
        /\ \A b \in Backups : bFile[b] # Absent => bRow[b] # "none" \/ b \in bStuck \/ Imported(b)

AtOf(q, pcs, b) == q.pc \in pcs /\ q.id = b

\* What a step of h to the request q does to rows and files without a restore:
\* rows appear, files appear and disappear only at the point that is meant to.
OwnedMove(h, q) ==
    /\ bRestored = FALSE /\ bStuck \subseteq bStuck'
    /\ \A b \in Backups :
         /\ bRow[b] = "none" /\ bRow'[b] # "none" => b > bLast \/ AtOf(bReq[h], {"row"}, b)
         /\ bRow[b] # "none" /\ bRow'[b] = "none" => AtOf(bReq[h], {"delete"}, b)
         /\ bRow[b] # "ready" /\ bRow'[b] = "ready" =>
               bFile'[b] = bFile[b] /\ (AtOf(bReq[h], {"row"}, b) \/ (AtOf(bReq[h], {"ready"}, b) /\ bRow[b] # "none"))
         /\ bFile[b] # Absent /\ bFile'[b] = Absent =>
               AtOf(bReq[h], {"open", "dump", "copy", "row", "drop"}, b) \/ (AtOf(bReq[h], {"remove"}, b) /\ AtOf(q, {"delete"}, b))
         /\ bFile[b] = Absent /\ bFile'[b] # Absent =>
               AtOf(bReq[h], {"open", "copy"}, b) \/ (b > bLast /\ AtOf(q, {"copy"}, b))
         /\ AtOf(bReq[h], {"delete"}, b) => bRow'[b] = "none" \/ b \in bStuck'
         /\ AtOf(bReq[h], {"copy", "row"}, b) =>
               AtOf(q, {"copy", "row"}, b) \/ bRow'[b] # "none" \/ b \in bStuck' \/ bFile'[b] = Absent
         /\ AtOf(q, {"copy", "row"}, b) => bRow'[b] = "none" /\ (b > bLast \/ AtOf(bReq[h], {"copy", "row"}, b))
         /\ AtOf(q, {"row"}, b) => bFile'[b] # Absent
         /\ AtOf(q, {"drop"}, b) => b \in bStuck'
         /\ AtOf(q, {"open"}, b) => bRow'[b] # "none" /\ b > bLast
         /\ AtOf(q, {"dump"}, b) => bFile'[b] # Absent
         /\ AtOf(q, {"ready"}, b) => AtOf(bReq[h], {"dump"}, b) /\ bRow'[b] = bRow[b] /\ (bFile'[b] = Absent => bFile[b] = Absent)
         /\ AtOf(q, {"delete"}, b) =>
               bFile'[b] = Absent /\ \A g \in BHandlers : g # h /\ bReq[g].pc = "open" /\ bReq[g].id = b => b \in bStuck'
         /\ q.pc \in Deletes /\ (q.id = b \/ b \in q.todo) =>
               bRow[b] # "none" \/ (bReq[h].pc \in Deletes /\ (bReq[h].id = b \/ b \in bReq[h].todo))

LEMMA OwnedStays ==
    ASSUME KnownInv, Owned, NEW h \in BHandlers, NEW q, KnownMove(h, q), bRestored' = FALSE => OwnedMove(h, q)
    PROVE  Owned'
<1> SUFFICES ASSUME bRestored' = FALSE PROVE Owned'
  BY DEF Owned
<1>0. BackupShape /\ AllKnown /\ OneMaker
  BY DEF KnownInv
<1>1. /\ q \in BRequests /\ bReq' \in [BHandlers -> BRequests] /\ bReq'[h] = q
      /\ \A g \in BHandlers : g # h => bReq'[g] = bReq[g]
      /\ \A g \in BHandlers : bReq[g] \in BRequests
  BY <1>0 DEF KnownMove, BackupShape
<1>2. bRestored = FALSE /\ bStuck \subseteq bStuck'
  BY DEF OwnedMove
<1>3. /\ \A g \in BHandlers : OwnedBy(g)
      /\ \A b \in Backups : bRow[b] = "ready" => Found(b)
      /\ \A b \in Backups : bFile[b] # Absent => bRow[b] # "none" \/ b \in bStuck \/ Imported(b)
  BY <1>2 DEF Owned
<1>4. \A b \in Backups : b <= bLast => ~(b > bLast)
  BY <1>0, BackupAssumption DEF BackupShape
<1>5. \A g \in BHandlers : bReq[g].pc \in Making \cup Deletes => bReq[g].id \in Backups /\ ~(bReq[g].id > bLast)
  <2>1. SUFFICES ASSUME NEW g \in BHandlers, bReq[g].pc \in Making \cup Deletes
                 PROVE  bReq[g].id \in Backups /\ bReq[g].id <= bLast
    BY <1>4
  <2>2. bReq[g].id \in Backups
    BY <1>1, <2>1, BackupKinds DEF Making, Deletes
  <2>3. bReq[g].id <= bLast
    BY <1>0, <2>1 DEF AllKnown
  <2> QED BY <2>2, <2>3
<1>6. \A g \in BHandlers : g # h /\ bReq[g].pc \in Making /\ bReq[h].pc \in Making => bReq[g].id # bReq[h].id
  BY <1>0 DEF OneMaker
<1>7. ASSUME NEW b \in Backups, Imported(b)' PROVE Imported(b) \/ b > bLast
  BY <1>1, <1>7 DEF Imported, Importing, OwnedMove, AtOf
<1>8. ASSUME NEW b \in Backups, Deleting(b), ~(bReq[h].pc = "delete" /\ bReq[h].id = b)
      PROVE  Deleting(b)'
  BY <1>1, <1>8 DEF Deleting
<1>9. ASSUME NEW b \in Backups, Imported(b), ~(Importing(h) /\ bReq[h].id = b) PROVE Imported(b)'
  BY <1>1, <1>9 DEF Imported, Importing
<1>10. ASSUME NEW b \in Backups, Found(b), bRow'[b] # "none", ~(bReq[h].pc \in {"open", "dump", "copy", "row", "drop"} /\ bReq[h].id = b)
       PROVE  Found(b)'
  <2>1. CASE b \in bStuck
    BY <1>2, <2>1 DEF Found
  <2>2. CASE bFile[b] # Absent
    <3>1. CASE bFile'[b] # Absent
      BY <3>1 DEF Found
    <3>2. CASE bFile'[b] = Absent
      <4>1. q.pc = "delete" /\ q.id = b
        BY <1>10, <2>2, <3>2 DEF OwnedMove, AtOf
      <4> QED BY <1>1, <4>1 DEF Found, Deleting
    <3> QED BY <3>1, <3>2
  <2>3. CASE Deleting(b)
    <3>1. CASE bReq[h].pc = "delete" /\ bReq[h].id = b
      BY <1>10, <3>1 DEF OwnedMove, AtOf, Found
    <3>2. CASE ~(bReq[h].pc = "delete" /\ bReq[h].id = b)
      BY <1>8, <2>3, <3>2 DEF Found
    <3> QED BY <3>1, <3>2
  <2> QED BY <1>10, <2>1, <2>2, <2>3 DEF Found
<1>11. ASSUME NEW g \in BHandlers, g # h PROVE OwnedBy(g)'
  <2>1. OwnedBy(g) /\ bReq'[g] = bReq[g]
    BY <1>1, <1>3, <1>11
  <2>2. PICK p : p = bReq[g]
    OBVIOUS
  <2>3. p.pc \in Making \cup Deletes => p.id \in Backups /\ ~(p.id > bLast)
    BY <1>5, <2>2
  <2>4. p.pc \in {"copy", "row"} => bRow'[p.id] = "none"
    <3>1. p.pc \in {"copy", "row"} => bRow[p.id] = "none" /\ ~(bReq[h].pc = "row" /\ bReq[h].id = p.id)
      BY <1>6, <1>11, <2>1, <2>2 DEF OwnedBy, Importing, Making
    <3> QED BY <2>3, <3>1 DEF OwnedMove, AtOf, Making
  <2>5. p.pc = "row" => bFile'[p.id] # Absent
    <3>1. p.pc = "row" => bFile[p.id] # Absent /\ Imported(p.id)
      BY <2>1, <2>2 DEF OwnedBy, Imported, Importing
    <3>2. p.pc = "row" => ~(bReq[h].pc \in {"open", "dump", "copy", "row", "drop"} /\ bReq[h].id = p.id)
      BY <1>6, <1>11, <2>2 DEF Making
    <3>3. p.pc = "row" => ~(bReq[h].pc = "remove" /\ bReq[h].id = p.id)
      BY <1>3, <3>1 DEF OwnedBy, Deletes
    <3> QED BY <2>3, <3>1, <3>2, <3>3 DEF OwnedMove, AtOf, Making
  <2>6. p.pc = "open" => bRow'[p.id] # "none" \/ p.id \in bStuck'
    <3>1. p.pc = "open" => bRow[p.id] # "none" \/ p.id \in bStuck
      BY <2>1, <2>2 DEF OwnedBy
    <3>2. p.pc = "open" /\ bReq[h].pc = "delete" /\ bReq[h].id = p.id => p.id \in bStuck
      BY <1>3, <2>2 DEF OwnedBy
    <3> QED BY <1>2, <2>3, <3>1, <3>2 DEF OwnedMove, AtOf, Making
  <2>7. p.pc \in Deletes => ~Imported(bReq[g].id)' /\ \A b \in p.todo : ~Imported(b)'
    <3>1. SUFFICES ASSUME p.pc \in Deletes PROVE ~Imported(bReq[g].id)' /\ \A b \in p.todo : ~Imported(b)'
      OBVIOUS
    <3>2. ~Imported(p.id) /\ \A b \in p.todo : ~Imported(b)
      BY <2>1, <2>2, <3>1 DEF OwnedBy
    <3>3. p.id \in Backups /\ p.todo \subseteq Backups /\ ~(p.id > bLast) /\ \A b \in p.todo : ~(b > bLast)
      <4>1. p.id \in Backups /\ p.todo \subseteq Backups
        BY <1>1, <2>2, <3>1, BackupKinds DEF Deletes
      <4>2. \A b \in p.todo : b <= bLast
        BY <1>0, <2>2, <3>1 DEF AllKnown
      <4> QED BY <1>4, <2>3, <3>1, <4>1, <4>2
    <3>4. ~Imported(p.id)' /\ \A b \in p.todo : ~Imported(b)'
      BY <1>7, <3>2, <3>3
    <3> QED BY <2>1, <2>2, <3>4 DEF Imported
  <2>8. p.pc = "delete" =>
          \/ p.id \in bStuck'
          \/ bFile'[p.id] = Absent /\ \A k \in BHandlers : bReq'[k].pc = "open" => bReq'[k].id # p.id
    <3>1. SUFFICES ASSUME p.pc = "delete", p.id \notin bStuck'
                   PROVE  bFile'[p.id] = Absent /\ \A k \in BHandlers : bReq'[k].pc = "open" => bReq'[k].id # p.id
      OBVIOUS
    <3>2. bFile[p.id] = Absent /\ \A k \in BHandlers : bReq[k].pc = "open" => bReq[k].id # p.id
      BY <1>2, <2>1, <2>2, <3>1 DEF OwnedBy
    <3>3. p.id \in Backups /\ ~(p.id > bLast)
      BY <2>3, <3>1 DEF Deletes
    <3>4. ~(bReq[h].pc = "copy" /\ bReq[h].id = p.id)
      BY <2>1, <2>2, <3>1 DEF OwnedBy, Imported, Importing, Deletes
    <3>5. bFile'[p.id] = Absent
      BY <3>2, <3>3, <3>4 DEF OwnedMove, AtOf
    <3>6. ~(q.pc = "open" /\ q.id = p.id)
      BY <3>3 DEF OwnedMove, AtOf
    <3> QED BY <1>1, <3>2, <3>5, <3>6
  <2>9. p.pc \in {"dump", "ready"} /\ bRow'[p.id] # "none" => Found(bReq[g].id)'
    <3>1. SUFFICES ASSUME p.pc \in {"dump", "ready"}, bRow'[p.id] # "none" PROVE Found(bReq[g].id)'
      OBVIOUS
    <3>2. ~(bReq[h].pc \in Making /\ bReq[h].id = p.id) /\ p.id \in Backups /\ ~(p.id > bLast)
      BY <1>6, <1>11, <2>2, <2>3, <3>1 DEF Making
    <3>3. bRow[p.id] # "none"
      BY <3>1, <3>2 DEF OwnedMove, AtOf, Making
    <3>4. Found(p.id)
      BY <2>1, <2>2, <3>1, <3>3 DEF OwnedBy
    <3>5. Found(p.id)'
      BY <1>10, <3>1, <3>2, <3>4 DEF Making
    <3> QED BY <2>1, <2>2, <3>5 DEF Found, Deleting
  <2>10. p.pc = "drop" => p.id \in bStuck'
    BY <1>2, <2>1, <2>2 DEF OwnedBy
  <2> QED BY <2>1, <2>2, <2>4, <2>5, <2>6, <2>7, <2>8, <2>9, <2>10 DEF OwnedBy, Importing
<1>12. OwnedBy(h)'
  <2>1. q.pc \in Making \cup Deletes => q.id \in Backups
    BY <1>1, BackupKinds DEF Making, Deletes
  <2>2. q.pc \in {"copy", "row"} => bRow'[q.id] = "none"
    BY <2>1 DEF OwnedMove, AtOf, Making
  <2>3. q.pc = "row" => bFile'[q.id] # Absent
    BY <2>1 DEF OwnedMove, AtOf, Making
  <2>4. q.pc = "open" => bRow'[q.id] # "none"
    BY <2>1 DEF OwnedMove, AtOf, Making
  <2>5. q.pc \in Deletes => ~Imported(bReq[h].id)' /\ \A b \in q.todo : ~Imported(b)'
    <3>1. SUFFICES ASSUME q.pc \in Deletes PROVE ~Imported(bReq[h].id)' /\ \A b \in q.todo : ~Imported(b)'
      OBVIOUS
    <3>2. ASSUME NEW b \in Backups, q.id = b \/ b \in q.todo PROVE ~Imported(b)'
      <4>1. ~(b > bLast)
        BY <1>0, <3>1, <3>2, BackupAssumption DEF KnownMove, BackupShape
      <4>2. CASE bRow[b] # "none"
        <5>1. ~Imported(b)
          BY <1>3, <4>2 DEF OwnedBy, Imported
        <5> QED BY <1>7, <4>1, <5>1
      <4>3. CASE bReq[h].pc \in Deletes /\ (bReq[h].id = b \/ b \in bReq[h].todo)
        <5>1. ~Imported(b)
          BY <1>3, <4>3 DEF OwnedBy
        <5> QED BY <1>7, <4>1, <5>1
      <4> QED BY <3>1, <3>2, <4>2, <4>3 DEF OwnedMove
    <3>3. q.id \in Backups /\ q.todo \subseteq Backups
      BY <1>1, <3>1, BackupKinds DEF Deletes
    <3>4. ~Imported(q.id)' /\ \A b \in q.todo : ~Imported(b)'
      BY <3>2, <3>3
    <3> QED BY <1>1, <3>4 DEF Imported
  <2>6. q.pc = "delete" =>
          \/ q.id \in bStuck'
          \/ bFile'[q.id] = Absent /\ \A k \in BHandlers : bReq'[k].pc = "open" => bReq'[k].id # q.id
    <3>1. SUFFICES ASSUME q.pc = "delete", q.id \notin bStuck'
                   PROVE  bFile'[q.id] = Absent /\ \A k \in BHandlers : bReq'[k].pc = "open" => bReq'[k].id # q.id
      OBVIOUS
    <3>2. bFile'[q.id] = Absent /\ \A g \in BHandlers : g # h /\ bReq[g].pc = "open" => bReq[g].id # q.id
      BY <2>1, <3>1 DEF OwnedMove, AtOf, Deletes
    <3> QED BY <1>1, <3>1, <3>2
  <2>7. q.pc \in {"dump", "ready"} /\ bRow'[q.id] # "none" => Found(bReq[h].id)'
    <3>1. SUFFICES ASSUME q.pc \in {"dump", "ready"}, bRow'[q.id] # "none" PROVE Found(bReq[h].id)'
      OBVIOUS
    <3>2. q.id \in Backups
      BY <2>1, <3>1 DEF Making
    <3>3. CASE q.pc = "dump"
      BY <1>1, <3>2, <3>3 DEF OwnedMove, AtOf, Found
    <3>4. CASE q.pc = "ready"
      <4>1. /\ bReq[h].pc = "dump" /\ bReq[h].id = q.id /\ bRow[q.id] # "none"
            /\ bFile'[q.id] = Absent => bFile[q.id] = Absent
        BY <3>1, <3>2, <3>4 DEF OwnedMove, AtOf
      <4>2. Found(q.id)
        BY <1>3, <4>1 DEF OwnedBy
      <4>3. Deleting(q.id) => Deleting(q.id)'
        BY <1>8, <3>2, <4>1
      <4>4. Found(q.id)'
        BY <1>2, <4>1, <4>2, <4>3 DEF Found
      <4> QED BY <1>1, <4>4 DEF Found, Deleting
    <3> QED BY <3>1, <3>3, <3>4
  <2>8. q.pc = "drop" => q.id \in bStuck'
    BY <2>1 DEF OwnedMove, AtOf, Making
  <2> QED BY <1>1, <2>2, <2>3, <2>4, <2>5, <2>6, <2>7, <2>8 DEF OwnedBy, Importing
<1>13. ASSUME NEW b \in Backups, bRow'[b] = "ready" PROVE Found(b)'
  <2>1. CASE bRow[b] = "ready"
    <3>1. Found(b) /\ WrittenOut(b)
      BY <1>0, <1>3, <2>1 DEF AllKnown, RowsKnown
    <3>2. ~(bReq[h].pc \in {"open", "dump", "copy"} /\ bReq[h].id = b)
      BY <3>1 DEF WrittenOut, Writing
    <3>3. ~(bReq[h].pc = "row" /\ bReq[h].id = b)
      BY <1>3, <2>1 DEF OwnedBy, Importing
    <3>4. CASE bReq[h].pc = "drop" /\ bReq[h].id = b
      BY <1>2, <1>3, <3>4 DEF OwnedBy, Found
    <3> QED BY <1>10, <1>13, <3>1, <3>2, <3>3, <3>4
  <2>2. CASE bRow[b] # "ready"
    <3>1. /\ bFile'[b] = bFile[b] /\ bReq[h].id = b
          /\ bReq[h].pc = "row" \/ (bReq[h].pc = "ready" /\ bRow[b] # "none")
      BY <1>13, <2>2 DEF OwnedMove, AtOf
    <3>2. Found(b)
      BY <1>3, <3>1 DEF OwnedBy, Found
    <3>3. Deleting(b) => Deleting(b)'
      BY <1>8, <3>1
    <3> QED BY <1>2, <3>1, <3>2, <3>3 DEF Found
  <2> QED BY <2>1, <2>2
<1>14. ASSUME NEW b \in Backups, bFile'[b] # Absent, bRow'[b] = "none", b \notin bStuck' PROVE Imported(b)'
  <2>1. CASE bFile[b] # Absent
    <3>1. b \notin bStuck
      BY <1>2, <1>14
    <3>2. bRow[b] = "none"
      <4>1. SUFFICES ASSUME bRow[b] # "none" PROVE FALSE
        OBVIOUS
      <4>2. bReq[h].pc = "delete" /\ bReq[h].id = b
        BY <1>14, <4>1 DEF OwnedMove, AtOf
      <4> QED BY <1>3, <2>1, <3>1, <4>2 DEF OwnedBy
    <3>3. Imported(b)
      BY <1>3, <2>1, <3>1, <3>2
    <3>4. CASE Importing(h) /\ bReq[h].id = b
      <4>1. q.pc \in {"copy", "row"} /\ q.id = b
        BY <1>14, <3>4 DEF OwnedMove, AtOf, Importing
      <4> QED BY <1>1, <4>1 DEF Imported, Importing
    <3> QED BY <1>9, <3>3, <3>4
  <2>2. CASE bFile[b] = Absent
    <3>1. CASE bReq[h].pc = "open" /\ bReq[h].id = b
      <4>1. bRow[b] # "none"
        BY <1>2, <1>3, <1>14, <3>1 DEF OwnedBy
      <4> QED BY <1>14, <3>1, <4>1 DEF OwnedMove, AtOf
    <3>2. CASE bReq[h].pc = "copy" /\ bReq[h].id = b
      <4>1. q.pc \in {"copy", "row"} /\ q.id = b
        BY <1>14, <3>2 DEF OwnedMove, AtOf
      <4> QED BY <1>1, <4>1 DEF Imported, Importing
    <3>3. CASE q.pc = "copy" /\ q.id = b
      BY <1>1, <3>3 DEF Imported, Importing
    <3> QED BY <1>14, <2>2, <3>1, <3>2, <3>3 DEF OwnedMove, AtOf
  <2> QED BY <2>1, <2>2
<1> QED BY <1>11, <1>12, <1>13, <1>14 DEF Owned

BackupInv == KnownInv /\ Owned

\* What is known of a backup and of a request.
LEMMA BackupFacts ==
    ASSUME KnownInv
    PROVE  /\ bRow \in Rows /\ bFile \in [Backups -> BackupFiles] /\ bReq \in [BHandlers -> BRequests]
           /\ bLoaded = TRUE /\ bRestored \in BOOLEAN /\ bStuck \subseteq Backups /\ bLast \in Nat /\ bLast <= bLast
           /\ \A b \in Backups :
                /\ b \in Nat /\ bFile[b] \in BackupFiles /\ bRow[b] \in BackupStates
                /\ (bRow[b] # "none" => b <= bLast) /\ (bRow[b] = "ready" => WrittenOut(b))
                /\ b <= bLast => ~(b > bLast)
           /\ \A h \in BHandlers :
                /\ bReq[h] \in BRequests
                /\ bReq[h].pc # "idle" => bReq[h].id \in Backups
                /\ bReq[h].pc \in Making \cup Deletes => bReq[h].id <= bLast
                /\ bReq[h].pc \in {"ready", "row", "load"} => WrittenOut(bReq[h].id)
<1>1. BackupShape /\ AllKnown
  BY DEF KnownInv
<1>2. bLast \in Nat /\ bLast <= bLast /\ \A b \in Backups : b \in Nat /\ (b <= bLast => ~(b > bLast))
  BY <1>1, BackupAssumption DEF BackupShape
<1>3. \A b \in Backups : bFile[b] \in BackupFiles /\ bRow[b] \in BackupStates
  BY <1>1 DEF BackupShape, Rows
<1>4. \A h \in BHandlers : bReq[h] \in BRequests /\ (bReq[h].pc # "idle" => bReq[h].id \in Backups)
  BY <1>1, BackupKinds DEF BackupShape
<1>5. \A h \in BHandlers : bReq[h].pc \in Making \cup Deletes => bReq[h].id <= bLast
  BY <1>1 DEF AllKnown
<1> QED BY <1>1, <1>2, <1>3, <1>4, <1>5 DEF BackupShape, AllKnown, RowsKnown

\* A step that moves a request and leaves rows and files alone.
LEMMA QuietKeeps ==
    ASSUME BackupInv, NEW h \in BHandlers, NEW q \in BRequests, bReq' = [bReq EXCEPT ![h] = q],
           UNCHANGED <<bRow, bFile, bLoaded, bRestored, bLast>>, bStuck \subseteq bStuck', bStuck' \subseteq Backups,
           q.pc \in {"idle", "load", "feed", "remove", "retain"},
           q.pc = "feed" => RowsKnown(q.rows), q.pc = "load" => WrittenOut(q.id),
           q.pc = "remove" => \A b \in {q.id} \cup q.todo :
               bRow[b] # "none" \/ (bReq[h].pc = "delete" /\ (bReq[h].id = b \/ b \in bReq[h].todo)),
           bReq[h].pc \in {"delete", "copy", "row"} => bReq[h].id \in bStuck'
    PROVE  BackupInv'
<1>0. KnownInv /\ Owned /\ AllKnown
  BY DEF BackupInv, KnownInv
<1>1. KnownMove(h, q)
  <2>1. q.pc = "remove" => q.id <= bLast /\ \A b \in q.todo : b <= bLast
    <3>1. SUFFICES ASSUME q.pc = "remove" PROVE \A b \in {q.id} \cup q.todo : b <= bLast
      OBVIOUS
    <3>2. \A b \in {q.id} \cup q.todo : b \in Backups
      BY <3>1, BackupKinds DEF Deletes
    <3>3. bReq[h].pc = "delete" => bReq[h].id <= bLast /\ \A b \in bReq[h].todo : b <= bLast
      BY <1>0 DEF AllKnown, Deletes
    <3> QED BY <1>0, <3>1, <3>2, <3>3, BackupFacts
  <2> QED BY <1>0, <2>1, BackupFacts, FileKinds DEF KnownMove, Making, Writing, Deletes, AllKnown
<1>2. bRestored' = FALSE => OwnedMove(h, q)
  BY <1>0, BackupFacts DEF OwnedMove, AtOf, Deletes
<1> QED BY <1>0, <1>1, <1>2, KnownStays, OwnedStays DEF BackupInv

LEMMA QuietActions ==
    ASSUME BackupInv, NEW h \in BHandlers, NEW b \in Backups,
           \/ RetentionLists(h) \/ DeleteBegins(h, b) \/ DeleteRow(h, FALSE)
           \/ RestoreBegins(h, b) \/ RestoreOpens(h) \/ BackupDies(h)
    PROVE  BackupInv'
<1>0. KnownInv /\ AllKnown
  BY DEF BackupInv, KnownInv
<1>1. bReq[h] \in BRequests /\ (bReq[h].pc # "idle" => bReq[h].id \in Backups) /\ bStuck \subseteq Backups
  BY <1>0, BackupFacts
<1>2. CASE BackupDies(h)
  <2>1. /\ bReq[h].pc # "idle" /\ bReq' = [bReq EXCEPT ![h] = BIdle] /\ bStuck' = bStuck \cup {bReq[h].id}
        /\ UNCHANGED <<bRow, bFile, bLoaded, bRestored, bLast>>
    BY <1>2 DEF BackupDies, BEnds, BId
  <2> QED BY <1>1, <2>1, BackupKinds, QuietKeeps
<1>3. CASE RetentionLists(h)
  <2>1. bReq[h].pc = "retain" /\ UNCHANGED <<bRow, bFile, bLoaded, bRestored, bStuck, bLast>>
    BY <1>3 DEF RetentionLists, BAtPc
  <2>2. \A c \in Expired : c \in Backups /\ bRow[c] # "none"
    BY DEF Expired
  <2>3. CASE Expired = {}
    <3>1. bReq' = [bReq EXCEPT ![h] = BIdle]
      BY <1>3, <2>3 DEF RetentionLists, BEnds
    <3> QED BY <1>1, <2>1, <3>1, BackupKinds, QuietKeeps
  <2>4. CASE Expired # {}
    <3>1. PICK c \in Expired : bReq' = [bReq EXCEPT ![h] = [pc |-> "remove", id |-> c, todo |-> Expired \ {c}]]
      BY <1>3, <2>4 DEF RetentionLists
    <3>2. PICK q : q = [pc |-> "remove", id |-> c, todo |-> Expired \ {c}]
      OBVIOUS
    <3>3. q \in BRequests /\ q.pc = "remove" /\ \A e \in {q.id} \cup q.todo : bRow[e] # "none"
      BY <2>2, <3>2 DEF BRequests
    <3> QED BY <1>1, <2>1, <3>1, <3>2, <3>3, QuietKeeps
  <2> QED BY <2>3, <2>4
<1>4. CASE DeleteBegins(h, b)
  <2>1. PICK q : q = [pc |-> "remove", id |-> b, todo |-> {}]
    OBVIOUS
  <2>2. /\ bReq[h] = BIdle /\ bRow[b] # "none" /\ bReq' = [bReq EXCEPT ![h] = q]
        /\ UNCHANGED <<bRow, bFile, bLoaded, bRestored, bStuck, bLast>>
    BY <1>4, <2>1 DEF DeleteBegins
  <2>3. q \in BRequests /\ q.pc = "remove" /\ \A e \in {q.id} \cup q.todo : bRow[e] # "none"
    BY <2>1, <2>2 DEF BRequests
  <2> QED BY <1>1, <2>2, <2>3, BackupKinds, QuietKeeps
<1>5. CASE DeleteRow(h, FALSE)
  <2>1. /\ bReq[h].pc = "delete" /\ bStuck' = bStuck \cup {bReq[h].id}
        /\ UNCHANGED <<bRow, bFile, bLoaded, bRestored, bLast>>
    BY <1>5 DEF DeleteRow, BAtPc, BId
  <2>2. PICK todo \in SUBSET Backups : todo = bReq[h].todo
    BY <1>1, <2>1, BackupKinds DEF Deletes
  <2>3. CASE todo = {}
    <3>1. bReq' = [bReq EXCEPT ![h] = BIdle]
      BY <1>5, <2>2, <2>3 DEF DeleteRow, BEnds
    <3> QED BY <1>1, <2>1, <3>1, BackupKinds, QuietKeeps
  <2>4. CASE todo # {}
    <3>1. PICK c \in todo : bReq' = [bReq EXCEPT ![h] = [pc |-> "remove", id |-> c, todo |-> todo \ {c}]]
      BY <1>5, <2>2, <2>4 DEF DeleteRow
    <3>2. PICK q : q = [pc |-> "remove", id |-> c, todo |-> todo \ {c}]
      OBVIOUS
    <3>3. q \in BRequests /\ q.pc = "remove" /\ {q.id} \cup q.todo \subseteq todo
      BY <3>2 DEF BRequests
    <3> QED BY <1>1, <2>1, <2>2, <3>1, <3>2, <3>3, QuietKeeps
  <2> QED BY <2>3, <2>4
<1>6. CASE RestoreBegins(h, b)
  <2>1. PICK q : q = BAt("load", b)
    OBVIOUS
  <2>2. /\ bReq[h] = BIdle /\ bRow[b] = "ready" /\ bReq' = [bReq EXCEPT ![h] = q]
        /\ UNCHANGED <<bRow, bFile, bLoaded, bRestored, bStuck, bLast>>
    BY <1>6, <2>1 DEF RestoreBegins, MayRestore
  <2>3. q \in BRequests /\ q.pc = "load" /\ q.id = b
    BY <2>1 DEF BRequests, BAt
  <2>4. WrittenOut(b)
    BY <1>0, <2>2, BackupFacts
  <2> QED BY <1>1, <2>2, <2>3, <2>4, BackupKinds, QuietKeeps
<1>7. CASE RestoreOpens(h)
  <2>1. PICK i, f : i = bReq[h].id /\ f = bFile[i]
    OBVIOUS
  <2>2. bReq[h].pc = "load" /\ UNCHANGED <<bRow, bFile, bRestored, bStuck, bLast>>
    BY <1>7 DEF RestoreOpens, BAtPc
  <2>3. i \in Backups /\ f \in BackupFiles /\ f # Partial /\ bLoaded = TRUE
    BY <1>0, <1>1, <2>1, <2>2, BackupFacts DEF WrittenOut
  <2>4. bLoaded' = bLoaded
    BY <1>7, <2>1, <2>3, FileKinds DEF RestoreOpens, BId
  <2>5. CASE f = Absent
    <3>1. bReq' = [bReq EXCEPT ![h] = BIdle]
      BY <1>7, <2>1, <2>5 DEF RestoreOpens, BId, BEnds
    <3> QED BY <1>1, <2>2, <2>4, <3>1, BackupKinds, QuietKeeps
  <2>6. CASE f # Absent
    <3>1. PICK q : q = [pc |-> "feed", id |-> i, rows |-> f.rows]
      OBVIOUS
    <3>2. bReq' = [bReq EXCEPT ![h] = q]
      BY <1>7, <2>1, <2>6, <3>1 DEF RestoreOpens, BId
    <3>3. f.state = "complete" /\ f.rows \in Rows
      BY <2>3, <2>6, FileKinds
    <3>4. RowsKnown(f.rows)
      BY <1>0, <2>1, <2>3, <3>3 DEF AllKnown
    <3>5. q \in BRequests /\ q.pc = "feed" /\ q.rows = f.rows
      BY <2>3, <3>1, <3>3 DEF BRequests
    <3> QED BY <1>1, <2>2, <2>4, <3>2, <3>4, <3>5, QuietKeeps
  <2> QED BY <2>5, <2>6
<1> QED BY <1>2, <1>3, <1>4, <1>5, <1>6, <1>7

\* The steps that write rows and files, one backup at a time.
LEMMA BackupMoves ==
    ASSUME BackupInv, NEW h \in BHandlers, NEW q, KnownMove(h, q), bRestored' = FALSE => OwnedMove(h, q)
    PROVE  BackupInv'
BY KnownStays, OwnedStays DEF BackupInv

LEMMA CreateBackupKeeps ==
    ASSUME BackupInv, NEW h \in BHandlers, NEW b \in Backups, CreateBackup(h, b) PROVE BackupInv'
<1>0. KnownInv /\ AllKnown
  BY DEF BackupInv, KnownInv
<1>1. PICK q : q = BAt("open", b)
  OBVIOUS
<1>2. /\ bReq[h] = BIdle /\ b = bLast + 1 /\ bLast' = b
      /\ bRow' = [bRow EXCEPT ![b] = "running"] /\ bReq' = [bReq EXCEPT ![h] = q]
      /\ UNCHANGED <<bFile, bLoaded, bRestored, bStuck>>
  BY <1>1 DEF CreateBackup, Fresh
<1>3. q \in BRequests /\ q.pc = "open" /\ q.id = b
  BY <1>1 DEF BRequests, BAt
<1>4. /\ bLast' \in Nat /\ bLast < bLast' /\ bLast <= bLast' /\ b > bLast /\ b <= bLast'
      /\ \A c \in Backups : c <= bLast => c <= bLast'
  BY <1>0, <1>2, BackupFacts
<1>5. bRow' \in Rows /\ bRow'[b] = "running" /\ \A c \in Backups : c # b => bRow'[c] = bRow[c]
  BY <1>0, <1>2, BackupFacts DEF Rows, BackupStates
<1>6. KnownMove(h, q)
  BY <1>0, <1>2, <1>3, <1>4, <1>5, BackupFacts DEF KnownMove, Making, Writing, Deletes, AllKnown
<1>7. bRestored' = FALSE => OwnedMove(h, q)
  BY <1>0, <1>2, <1>3, <1>4, <1>5, BackupKinds DEF OwnedMove, AtOf, Deletes
<1> QED BY <1>6, <1>7, BackupMoves

LEMMA CreateAckLostKeeps ==
    ASSUME BackupInv, NEW h \in BHandlers, NEW b \in Backups, CreateAckLost(h, b) PROVE BackupInv'
<1>0. KnownInv /\ AllKnown
  BY DEF BackupInv, KnownInv
<1>1. /\ bReq[h] = BIdle /\ b = bLast + 1 /\ bLast' = b
      /\ bRow' = [bRow EXCEPT ![b] = "running"] /\ bReq' = bReq
      /\ UNCHANGED <<bFile, bLoaded, bRestored, bStuck>>
  BY DEF CreateAckLost, Fresh
<1>2. bReq' = [bReq EXCEPT ![h] = BIdle]
  BY <1>0, <1>1, BackupFacts
<1>3. /\ bLast' \in Nat /\ bLast < bLast' /\ bLast <= bLast' /\ b > bLast /\ b <= bLast'
      /\ \A c \in Backups : c <= bLast => c <= bLast'
  BY <1>0, <1>1, BackupFacts
<1>4. bRow' \in Rows /\ bRow'[b] = "running" /\ \A c \in Backups : c # b => bRow'[c] = bRow[c]
  BY <1>0, <1>1, BackupFacts DEF Rows, BackupStates
<1>5. KnownMove(h, BIdle)
  BY <1>0, <1>1, <1>2, <1>3, <1>4, BackupFacts, BackupKinds DEF KnownMove, Making, Writing, Deletes
<1>6. bRestored' = FALSE => OwnedMove(h, BIdle)
  BY <1>0, <1>1, <1>3, <1>4, BackupKinds DEF OwnedMove, AtOf, Deletes
<1> QED BY <1>5, <1>6, BackupMoves

LEMMA DumpBeginsKeeps == ASSUME BackupInv, NEW h \in BHandlers, DumpBegins(h) PROVE BackupInv'
<1>0. KnownInv /\ AllKnown
  BY DEF BackupInv, KnownInv
<1>1. PICK i : i = bReq[h].id
  OBVIOUS
<1>2. PICK q : q = [pc |-> "dump", id |-> i, rows |-> bRow]
  OBVIOUS
<1>3. /\ bReq[h].pc = "open" /\ bFile' = [bFile EXCEPT ![i] = Partial] /\ bReq' = [bReq EXCEPT ![h] = q]
      /\ UNCHANGED <<bRow, bLoaded, bRestored, bStuck, bLast>>
  BY <1>1, <1>2 DEF DumpBegins, BAtPc, BId
<1>4. i \in Backups /\ bRow \in Rows
  BY <1>0, <1>1, <1>3, BackupFacts
<1>5. q \in BRequests /\ q.pc = "dump" /\ q.id = i /\ q.rows = bRow
  BY <1>2, <1>4 DEF BRequests
<1>6. /\ bFile' \in [Backups -> BackupFiles] /\ bFile'[i] = Partial /\ \A c \in Backups : c # i => bFile'[c] = bFile[c]
  BY <1>0, <1>3, <1>4, BackupFacts, FileKinds
<1>7. KnownMove(h, q)
  <2>1. \A b \in Backups : bFile'[b].state = "complete" => bFile'[b] = bFile[b]
    BY <1>6, FileKinds
  <2> QED BY <1>0, <1>1, <1>3, <1>5, <1>6, <2>1, BackupFacts DEF KnownMove, Making, Writing, Deletes, AllKnown
<1>8. bRestored' = FALSE => OwnedMove(h, q)
  BY <1>0, <1>1, <1>3, <1>5, <1>6, FileKinds DEF OwnedMove, AtOf, Deletes
<1> QED BY <1>7, <1>8, BackupMoves

LEMMA DumpEndsKeeps == ASSUME BackupInv, NEW h \in BHandlers, DumpEnds(h) PROVE BackupInv'
<1>0. KnownInv /\ AllKnown
  BY DEF BackupInv, KnownInv
<1>1. PICK i, rows, q : i = bReq[h].id /\ rows = bReq[h].rows /\ q = BAt("ready", i)
  OBVIOUS
<1>2. /\ bReq[h].pc = "dump" /\ bReq' = [bReq EXCEPT ![h] = q]
      /\ bFile' = [bFile EXCEPT ![i] = IF @ = Absent THEN @ ELSE Complete(rows)]
      /\ UNCHANGED <<bRow, bLoaded, bRestored, bStuck, bLast>>
  BY <1>1 DEF DumpEnds, BAtPc, BId
<1>3. i \in Backups /\ rows \in Rows /\ RowsKnown(rows)
  BY <1>0, <1>1, <1>2, BackupFacts, BackupKinds DEF AllKnown
<1>4. q \in BRequests /\ q.pc = "ready" /\ q.id = i
  BY <1>1, <1>3 DEF BRequests, BAt
<1>5. /\ bFile'[i] = IF bFile[i] = Absent THEN Absent ELSE Complete(rows)
      /\ \A c \in Backups : c # i => bFile'[c] = bFile[c]
      /\ bFile' \in [Backups -> BackupFiles]
  BY <1>0, <1>2, <1>3, BackupFacts, FileKinds
<1>6. KnownMove(h, q)
  <2>1. bFile'[i] # Partial
    BY <1>3, <1>5, FileKinds
  <2>2. \A b \in Backups : bFile'[b].state = "complete" => bFile'[b] = bFile[b] \/ RowsKnown(bFile'[b].rows)
    <3>1. CASE bFile[i] = Absent
      BY <1>5, <3>1
    <3>2. CASE bFile[i] # Absent
      <4>1. bFile'[i].rows = rows
        BY <1>3, <1>5, <3>2, FileKinds
      <4>2. RowsKnown(bFile'[i].rows)
        BY <1>3, <4>1
      <4> QED BY <1>5, <4>2
    <3> QED BY <3>1, <3>2
  <2> QED BY <1>0, <1>1, <1>2, <1>4, <1>5, <2>1, <2>2, BackupFacts DEF KnownMove, Making, Writing, Deletes, AllKnown
<1>7. bRestored' = FALSE => OwnedMove(h, q)
  BY <1>0, <1>1, <1>2, <1>3, <1>4, <1>5, FileKinds DEF OwnedMove, AtOf, Deletes
<1> QED BY <1>6, <1>7, BackupMoves

LEMMA DumpFailsKeeps ==
    ASSUME BackupInv, NEW h \in BHandlers, NEW marked \in BOOLEAN, DumpFails(h, marked) PROVE BackupInv'
<1>0. KnownInv /\ AllKnown
  BY DEF BackupInv, KnownInv
<1>1. PICK i : i = bReq[h].id
  OBVIOUS
<1>2. /\ bReq[h].pc \in {"open", "dump"} /\ bReq' = [bReq EXCEPT ![h] = BIdle]
      /\ bFile' = [bFile EXCEPT ![i] = Absent]
      /\ bRow' = IF marked /\ bRow[i] # "none" THEN [bRow EXCEPT ![i] = "failed"] ELSE bRow
      /\ bStuck' = IF marked THEN bStuck ELSE bStuck \cup {i}
      /\ UNCHANGED <<bLoaded, bRestored, bLast>>
  BY <1>1 DEF DumpFails, BAtPc, BId, BEnds
<1>3. i \in Backups /\ i <= bLast
  BY <1>0, <1>1, <1>2, BackupFacts DEF Making
<1>4. /\ bFile' \in [Backups -> BackupFiles] /\ bFile'[i] = Absent /\ \A c \in Backups : c # i => bFile'[c] = bFile[c]
  BY <1>0, <1>2, <1>3, BackupFacts, FileKinds
<1>5. /\ bRow' \in Rows /\ \A c \in Backups : c # i => bRow'[c] = bRow[c]
      /\ bRow'[i] = bRow[i] \/ (bRow'[i] = "failed" /\ bRow[i] # "none")
  BY <1>0, <1>2, <1>3, BackupFacts DEF Rows, BackupStates
<1>6. bStuck \subseteq bStuck' /\ bStuck' \subseteq Backups
  BY <1>0, <1>2, <1>3, BackupFacts
<1>7. KnownMove(h, BIdle)
  <2>1. \A b \in Backups : bFile'[b].state = "complete" => bFile'[b] = bFile[b]
    BY <1>4, FileKinds
  <2>2. \A b \in Backups : bFile'[b] = Partial => bFile[b] = Partial
    BY <1>4, FileKinds
  <2> QED BY <1>0, <1>2, <1>3, <1>4, <1>5, <1>6, <2>1, <2>2, BackupFacts, BackupKinds
          DEF KnownMove, Making, Writing, Deletes
<1>8. bRestored' = FALSE => OwnedMove(h, BIdle)
  BY <1>0, <1>1, <1>2, <1>4, <1>5, <1>6, BackupKinds DEF OwnedMove, AtOf, Deletes
<1> QED BY <1>7, <1>8, BackupMoves

LEMMA MarkReadyKeeps == ASSUME BackupInv, NEW h \in BHandlers, MarkReady(h) PROVE BackupInv'
<1>0. KnownInv /\ AllKnown
  BY DEF BackupInv, KnownInv
<1>1. PICK i : i = bReq[h].id
  OBVIOUS
<1>2. /\ bReq[h].pc = "ready" /\ bRow' = [bRow EXCEPT ![i] = IF @ = "none" THEN @ ELSE "ready"]
      /\ UNCHANGED <<bFile, bLoaded, bRestored, bStuck, bLast>>
  BY <1>1 DEF MarkReady, BAtPc, BId
<1>3. i \in Backups /\ WrittenOut(i) /\ bReq[h] = BAt("ready", i)
  BY <1>0, <1>1, <1>2, BackupFacts, BackupKinds
<1>4. PICK q \in BRequests : q.pc \in {"idle", "retain"} /\ bReq' = [bReq EXCEPT ![h] = q]
  <2>1. CASE Retention > 0
    <3>1. PICK q : q = [bReq[h] EXCEPT !.pc = "retain"]
      OBVIOUS
    <3>2. q = BAt("retain", i)
      BY <1>3, <3>1 DEF BAt
    <3>3. q \in BRequests /\ q.pc = "retain"
      BY <1>3, <3>2 DEF BRequests, BAt
    <3> QED BY <2>1, <3>1, <3>3 DEF MarkReady, BGoto
  <2>2. CASE ~(Retention > 0)
    BY <2>2, BackupKinds DEF MarkReady, BEnds
  <2> QED BY <2>1, <2>2
<1>5. /\ bRow' \in Rows /\ \A c \in Backups : c # i => bRow'[c] = bRow[c]
      /\ bRow'[i] = IF bRow[i] = "none" THEN "none" ELSE "ready"
  BY <1>0, <1>2, <1>3, BackupFacts DEF Rows, BackupStates
<1>6. i <= bLast
  BY <1>3 DEF WrittenOut
<1>7. KnownMove(h, q)
  BY <1>0, <1>2, <1>3, <1>4, <1>5, <1>6, BackupFacts DEF KnownMove, Making, Writing, Deletes
<1>8. bRestored' = FALSE => OwnedMove(h, q)
  BY <1>1, <1>2, <1>4, <1>5 DEF OwnedMove, AtOf, Deletes
<1> QED BY <1>7, <1>8, BackupMoves

LEMMA MarkReadyFailsKeeps ==
    ASSUME BackupInv, NEW h \in BHandlers, NEW marked \in BOOLEAN, MarkReadyFails(h, marked) PROVE BackupInv'
<1>0. KnownInv
  BY DEF BackupInv
<1>1. PICK i : i = bReq[h].id
  OBVIOUS
<1>2. /\ bReq[h].pc = "ready" /\ bReq' = [bReq EXCEPT ![h] = BIdle]
      /\ bRow' = IF marked /\ bRow[i] # "none" THEN [bRow EXCEPT ![i] = "ready"] ELSE bRow
      /\ bStuck' = IF marked THEN bStuck ELSE bStuck \cup {i}
      /\ UNCHANGED <<bFile, bLoaded, bRestored, bLast>>
  BY <1>1 DEF MarkReadyFails, BAtPc, BId, BEnds
<1>3. i \in Backups /\ i <= bLast /\ WrittenOut(i)
  BY <1>0, <1>1, <1>2, BackupFacts DEF Making
<1>4. /\ bRow' \in Rows /\ \A c \in Backups : c # i => bRow'[c] = bRow[c]
      /\ bRow'[i] = bRow[i] \/ (bRow'[i] = "ready" /\ bRow[i] # "none")
  BY <1>0, <1>2, <1>3, BackupFacts DEF Rows, BackupStates
<1>5. bStuck \subseteq bStuck' /\ bStuck' \subseteq Backups
  BY <1>0, <1>2, <1>3, BackupFacts
<1>6. KnownMove(h, BIdle)
  BY <1>0, <1>2, <1>3, <1>4, <1>5, BackupFacts, BackupKinds DEF KnownMove, Making, Writing, Deletes
<1>7. bRestored' = FALSE => OwnedMove(h, BIdle)
  BY <1>1, <1>2, <1>4, <1>5, BackupKinds DEF OwnedMove, AtOf, Deletes
<1> QED BY <1>6, <1>7, BackupMoves

LEMMA UploadBeginsKeeps ==
    ASSUME BackupInv, NEW h \in BHandlers, NEW b \in Backups, UploadBegins(h, b) PROVE BackupInv'
<1>0. KnownInv /\ AllKnown
  BY DEF BackupInv, KnownInv
<1>1. PICK q : q = BAt("copy", b)
  OBVIOUS
<1>2. /\ bReq[h] = BIdle /\ b = bLast + 1 /\ bLast' = b
      /\ bFile' = [bFile EXCEPT ![b] = Partial] /\ bReq' = [bReq EXCEPT ![h] = q]
      /\ UNCHANGED <<bRow, bLoaded, bRestored, bStuck>>
  BY <1>1 DEF UploadBegins, Fresh
<1>3. q \in BRequests /\ q.pc = "copy" /\ q.id = b
  BY <1>1 DEF BRequests, BAt
<1>4. /\ bLast' \in Nat /\ bLast < bLast' /\ bLast <= bLast' /\ b > bLast /\ ~(b <= bLast)
      /\ \A c \in Backups : c <= bLast => c <= bLast'
  BY <1>0, <1>2, BackupFacts
<1>5. /\ bFile' \in [Backups -> BackupFiles] /\ bFile'[b] = Partial /\ \A c \in Backups : c # b => bFile'[c] = bFile[c]
  BY <1>0, <1>2, BackupFacts, FileKinds
<1>6. bRow[b] = "none"
  BY <1>0, <1>4, BackupFacts
<1>7. KnownMove(h, q)
  <2>1. \A c \in Backups : bFile'[c].state = "complete" => bFile'[c] = bFile[c]
    BY <1>5, FileKinds
  <2> QED BY <1>0, <1>2, <1>3, <1>4, <1>5, <2>1, BackupFacts DEF KnownMove, Making, Writing, Deletes
<1>8. bRestored' = FALSE => OwnedMove(h, q)
  BY <1>0, <1>2, <1>3, <1>4, <1>5, <1>6, BackupKinds, FileKinds DEF OwnedMove, AtOf, Deletes
<1> QED BY <1>7, <1>8, BackupMoves

LEMMA UploadCopiedKeeps == ASSUME BackupInv, NEW h \in BHandlers, UploadCopied(h) PROVE BackupInv'
<1>0. KnownInv /\ Owned
  BY DEF BackupInv
<1>1. PICK i : i = bReq[h].id
  OBVIOUS
<1>2. /\ bReq[h].pc = "copy" /\ bFile' = [bFile EXCEPT ![i] = Complete(NoRows)]
      /\ bReq' = [bReq EXCEPT ![h] = [bReq[h] EXCEPT !.pc = "row"]]
      /\ UNCHANGED <<bRow, bLoaded, bRestored, bStuck, bLast>>
  BY <1>1 DEF UploadCopied, BAtPc, BId, BGoto
<1>3. i \in Backups /\ bReq[h] = BAt("copy", i)
  BY <1>0, <1>1, <1>2, BackupFacts, BackupKinds
<1>4. PICK q : q = BAt("row", i)
  OBVIOUS
<1>5. bReq' = [bReq EXCEPT ![h] = q] /\ q \in BRequests /\ q.pc = "row" /\ q.id = i
  <2>1. q = [bReq[h] EXCEPT !.pc = "row"]
    BY <1>3, <1>4 DEF BAt
  <2>2. q \in BRequests /\ q.pc = "row" /\ q.id = i
    BY <1>3, <1>4 DEF BAt, BRequests
  <2> QED BY <1>2, <2>1, <2>2
<1>6. /\ bFile' \in [Backups -> BackupFiles] /\ bFile'[i] = Complete(NoRows)
      /\ \A c \in Backups : c # i => bFile'[c] = bFile[c]
  BY <1>0, <1>2, <1>3, BackupFacts, FileKinds
<1>7. bFile'[i] # Partial /\ bFile'[i] # Absent /\ bFile'[i].rows = NoRows /\ RowsKnown(NoRows)
  BY <1>6, FileKinds DEF RowsKnown
<1>8. KnownMove(h, q)
  <2>1. \A c \in Backups : bFile'[c].state = "complete" => bFile'[c] = bFile[c] \/ RowsKnown(bFile'[c].rows)
    <3>1. RowsKnown(bFile'[i].rows)
      BY <1>7
    <3> QED BY <1>6, <3>1
  <2> QED BY <1>0, <1>1, <1>2, <1>5, <1>6, <1>7, <2>1, BackupFacts DEF KnownMove, Making, Writing, Deletes
<1>9. bRestored' = FALSE => OwnedMove(h, q)
  <2>1. bRestored = FALSE => bRow[i] = "none"
    BY <1>0, <1>1, <1>2 DEF Owned, OwnedBy, Importing
  <2> QED BY <1>1, <1>2, <1>5, <1>6, <1>7, <2>1 DEF OwnedMove, AtOf, Deletes
<1> QED BY <1>8, <1>9, BackupMoves

LEMMA ImportFailsKeeps == ASSUME BackupInv, NEW h \in BHandlers, ImportFails(h) PROVE BackupInv'
<1>0. KnownInv
  BY DEF BackupInv
<1>1. PICK i : i = bReq[h].id
  OBVIOUS
<1>2. /\ bReq[h].pc \in {"copy", "row"} /\ bFile' = [bFile EXCEPT ![i] = Absent]
      /\ bReq' = [bReq EXCEPT ![h] = BIdle]
      /\ UNCHANGED <<bRow, bLoaded, bRestored, bStuck, bLast>>
  BY <1>1 DEF ImportFails, BAtPc, BId, BEnds
<1>3. i \in Backups
  BY <1>0, <1>1, <1>2, BackupFacts
<1>4. /\ bFile' \in [Backups -> BackupFiles] /\ bFile'[i] = Absent /\ \A c \in Backups : c # i => bFile'[c] = bFile[c]
  BY <1>0, <1>2, <1>3, BackupFacts, FileKinds
<1>5. KnownMove(h, BIdle)
  <2>1. \A b \in Backups : (bFile'[b].state = "complete" => bFile'[b] = bFile[b])
                           /\ (bFile'[b] = Partial => bFile[b] = Partial)
    BY <1>4, FileKinds
  <2> QED BY <1>0, <1>2, <1>4, <2>1, BackupFacts, BackupKinds DEF KnownMove, Making, Writing, Deletes
<1>6. bRestored' = FALSE => OwnedMove(h, BIdle)
  BY <1>1, <1>2, <1>4, BackupKinds DEF OwnedMove, AtOf, Deletes
<1> QED BY <1>5, <1>6, BackupMoves

LEMMA UploadRowKeeps == ASSUME BackupInv, NEW h \in BHandlers, UploadRow(h) PROVE BackupInv'
<1>0. KnownInv
  BY DEF BackupInv
<1>1. PICK i : i = bReq[h].id
  OBVIOUS
<1>2. /\ bReq[h].pc = "row" /\ bRow' = [bRow EXCEPT ![i] = "ready"] /\ bReq' = [bReq EXCEPT ![h] = BIdle]
      /\ UNCHANGED <<bFile, bLoaded, bRestored, bStuck, bLast>>
  BY <1>1 DEF UploadRow, BAtPc, BId, BEnds
<1>3. i \in Backups /\ WrittenOut(i) /\ i <= bLast
  BY <1>0, <1>1, <1>2, BackupFacts DEF WrittenOut
<1>4. bRow' \in Rows /\ bRow'[i] = "ready" /\ \A c \in Backups : c # i => bRow'[c] = bRow[c]
  BY <1>0, <1>2, <1>3, BackupFacts DEF Rows, BackupStates
<1>5. KnownMove(h, BIdle)
  BY <1>0, <1>2, <1>3, <1>4, BackupFacts, BackupKinds DEF KnownMove, Making, Writing, Deletes
<1>6. bRestored' = FALSE => OwnedMove(h, BIdle)
  BY <1>1, <1>2, <1>4, BackupKinds DEF OwnedMove, AtOf, Deletes
<1> QED BY <1>5, <1>6, BackupMoves

LEMMA UploadAckLostKeeps == ASSUME BackupInv, NEW h \in BHandlers, UploadAckLost(h) PROVE BackupInv'
<1>0. KnownInv
  BY DEF BackupInv
<1>1. PICK i : i = bReq[h].id
  OBVIOUS
<1>2. /\ bReq[h].pc = "row" /\ bRow' = [bRow EXCEPT ![i] = "ready"] /\ bStuck' = bStuck \cup {i}
      /\ bReq' = [bReq EXCEPT ![h] = [bReq[h] EXCEPT !.pc = "drop"]]
      /\ UNCHANGED <<bFile, bLoaded, bRestored, bLast>>
  BY <1>1 DEF UploadAckLost, BAtPc, BId, BGoto
<1>3. i \in Backups /\ WrittenOut(i) /\ i <= bLast /\ bReq[h] = BAt("row", i)
  BY <1>0, <1>1, <1>2, BackupFacts, BackupKinds DEF WrittenOut
<1>4. PICK q : q = BAt("drop", i)
  OBVIOUS
<1>5. bReq' = [bReq EXCEPT ![h] = q] /\ q \in BRequests /\ q.pc = "drop" /\ q.id = i
  <2>1. q = [bReq[h] EXCEPT !.pc = "drop"]
    BY <1>3, <1>4 DEF BAt
  <2>2. q \in BRequests /\ q.pc = "drop" /\ q.id = i
    BY <1>3, <1>4 DEF BAt, BRequests
  <2> QED BY <1>2, <2>1, <2>2
<1>6. bRow' \in Rows /\ bRow'[i] = "ready" /\ \A c \in Backups : c # i => bRow'[c] = bRow[c]
  BY <1>0, <1>2, <1>3, BackupFacts DEF Rows, BackupStates
<1>7. bStuck \subseteq bStuck' /\ bStuck' \subseteq Backups /\ i \in bStuck'
  BY <1>0, <1>2, <1>3, BackupFacts
<1>8. KnownMove(h, q)
  BY <1>0, <1>1, <1>2, <1>3, <1>5, <1>6, <1>7, BackupFacts DEF KnownMove, Making, Writing, Deletes
<1>9. bRestored' = FALSE => OwnedMove(h, q)
  BY <1>1, <1>2, <1>5, <1>6, <1>7 DEF OwnedMove, AtOf, Deletes
<1> QED BY <1>8, <1>9, BackupMoves

LEMMA UploadDroppedKeeps == ASSUME BackupInv, NEW h \in BHandlers, UploadDropped(h) PROVE BackupInv'
<1>0. KnownInv
  BY DEF BackupInv
<1>1. PICK i : i = bReq[h].id
  OBVIOUS
<1>2. /\ bReq[h].pc = "drop" /\ bFile' = [bFile EXCEPT ![i] = Absent]
      /\ bReq' = [bReq EXCEPT ![h] = BIdle]
      /\ UNCHANGED <<bRow, bLoaded, bRestored, bStuck, bLast>>
  BY <1>1 DEF UploadDropped, BAtPc, BId, BEnds
<1>3. i \in Backups
  BY <1>0, <1>1, <1>2, BackupFacts
<1>4. /\ bFile' \in [Backups -> BackupFiles] /\ bFile'[i] = Absent /\ \A c \in Backups : c # i => bFile'[c] = bFile[c]
  BY <1>0, <1>2, <1>3, BackupFacts, FileKinds
<1>5. KnownMove(h, BIdle)
  <2>1. \A b \in Backups : (bFile'[b].state = "complete" => bFile'[b] = bFile[b])
                           /\ (bFile'[b] = Partial => bFile[b] = Partial)
    BY <1>4, FileKinds
  <2> QED BY <1>0, <1>2, <1>4, <2>1, BackupFacts, BackupKinds DEF KnownMove, Making, Writing, Deletes
<1>6. bRestored' = FALSE => OwnedMove(h, BIdle)
  BY <1>1, <1>2, <1>4, BackupKinds DEF OwnedMove, AtOf, Deletes
<1> QED BY <1>5, <1>6, BackupMoves

LEMMA RemoveFileKeeps == ASSUME BackupInv, NEW h \in BHandlers, RemoveFile(h) PROVE BackupInv'
<1>0. KnownInv /\ AllKnown
  BY DEF BackupInv, KnownInv
<1>1. PICK i : i = bReq[h].id
  OBVIOUS
<1>2. /\ bReq[h].pc = "remove" /\ bFile' = [bFile EXCEPT ![i] = Absent]
      /\ bReq' = [bReq EXCEPT ![h] = [bReq[h] EXCEPT !.pc = "delete"]]
      /\ bStuck' = bStuck \cup {b \in {i} : \E g \in BHandlers : bReq[g] = BAt("open", b)}
      /\ UNCHANGED <<bRow, bLoaded, bRestored, bLast>>
  BY <1>1 DEF RemoveFile, BAtPc, BId, BGoto
<1>3. PICK q : q = [bReq[h] EXCEPT !.pc = "delete"]
  OBVIOUS
<1>4. /\ i \in Backups /\ i <= bLast /\ bReq[h] \in [pc : {"remove", "delete"}, id : Backups, todo : SUBSET Backups]
      /\ \A b \in bReq[h].todo : b <= bLast
  BY <1>0, <1>1, <1>2, BackupFacts, BackupKinds DEF Deletes, AllKnown
<1>5. /\ q \in BRequests /\ q.pc = "delete" /\ q.id = i /\ q.todo = bReq[h].todo
      /\ bReq' = [bReq EXCEPT ![h] = q]
  BY <1>1, <1>2, <1>3, <1>4 DEF BRequests
<1>6. /\ bFile' \in [Backups -> BackupFiles] /\ bFile'[i] = Absent /\ \A c \in Backups : c # i => bFile'[c] = bFile[c]
  BY <1>0, <1>2, <1>4, BackupFacts, FileKinds
<1>7. bStuck \subseteq bStuck' /\ bStuck' \subseteq Backups
  BY <1>0, <1>2, <1>4, BackupFacts
<1>8. \A g \in BHandlers : bReq[g].pc = "open" /\ bReq[g].id = i => i \in bStuck'
  <2>1. \A g \in BHandlers : bReq[g].pc = "open" /\ bReq[g].id = i => bReq[g] = BAt("open", i)
    BY <1>0, BackupFacts, BackupKinds
  <2> QED BY <1>2, <2>1
<1>9. KnownMove(h, q)
  <2>1. \A b \in Backups : (bFile'[b].state = "complete" => bFile'[b] = bFile[b])
                           /\ (bFile'[b] = Partial => bFile[b] = Partial)
    BY <1>6, FileKinds
  <2> QED BY <1>0, <1>2, <1>4, <1>5, <1>6, <1>7, <2>1, BackupFacts DEF KnownMove, Making, Writing, Deletes
<1>10. bRestored' = FALSE => OwnedMove(h, q)
  BY <1>1, <1>2, <1>5, <1>6, <1>7, <1>8 DEF OwnedMove, AtOf, Deletes
<1> QED BY <1>9, <1>10, BackupMoves

LEMMA DeleteRowKeeps == ASSUME BackupInv, NEW h \in BHandlers, DeleteRow(h, TRUE) PROVE BackupInv'
<1>0. KnownInv /\ AllKnown
  BY DEF BackupInv, KnownInv
<1>1. PICK i, todo : i = bReq[h].id /\ todo = bReq[h].todo
  OBVIOUS
<1>2. /\ bReq[h].pc = "delete" /\ bRow' = [bRow EXCEPT ![i] = "none"]
      /\ UNCHANGED <<bFile, bLoaded, bRestored, bStuck, bLast>>
  BY <1>1 DEF DeleteRow, BAtPc, BId
<1>3. i \in Backups /\ todo \subseteq Backups /\ \A b \in todo : b <= bLast
  BY <1>0, <1>1, <1>2, BackupFacts, BackupKinds DEF Deletes, AllKnown
<1>4. PICK q \in BRequests :
        /\ bReq' = [bReq EXCEPT ![h] = q] /\ q.pc \in {"idle", "remove"}
        /\ q.pc = "remove" => {q.id} \cup q.todo \subseteq todo
  <2>1. CASE todo = {}
    BY <1>1, <2>1, BackupKinds DEF DeleteRow, BEnds
  <2>2. CASE todo # {}
    <3>1. PICK c \in todo : bReq' = [bReq EXCEPT ![h] = [pc |-> "remove", id |-> c, todo |-> todo \ {c}]]
      BY <1>1, <2>2 DEF DeleteRow
    <3>2. PICK q : q = [pc |-> "remove", id |-> c, todo |-> todo \ {c}]
      OBVIOUS
    <3>3. q \in BRequests /\ q.pc = "remove" /\ {q.id} \cup q.todo \subseteq todo
      BY <1>3, <3>2 DEF BRequests
    <3> QED BY <3>1, <3>2, <3>3
  <2> QED BY <2>1, <2>2
<1>5. bRow' \in Rows /\ bRow'[i] = "none" /\ \A c \in Backups : c # i => bRow'[c] = bRow[c]
  BY <1>0, <1>2, <1>3, BackupFacts DEF Rows, BackupStates
<1>6. KnownMove(h, q)
  BY <1>0, <1>2, <1>3, <1>4, <1>5, BackupFacts DEF KnownMove, Making, Writing, Deletes
<1>7. bRestored' = FALSE => OwnedMove(h, q)
  BY <1>1, <1>2, <1>4, <1>5 DEF OwnedMove, AtOf, Deletes
<1> QED BY <1>6, <1>7, BackupMoves

\* A restore puts back what was known, and nothing is promised of who owns
\* which file from then on.
LEMMA RestoreKeeps ==
    ASSUME BackupInv, NEW h \in BHandlers, RestoreFed(h) \/ RestoreBreaks(h) PROVE BackupInv'
<1>0. KnownInv /\ AllKnown
  BY DEF BackupInv, KnownInv
<1>1. /\ bReq[h].pc = "feed" /\ bRestored' = TRUE /\ bReq' = [bReq EXCEPT ![h] = BIdle]
      /\ UNCHANGED <<bFile, bLoaded, bStuck, bLast>>
      /\ bRow' \in {bRow, NoRows, bReq[h].rows}
  BY DEF RestoreFed, RestoreBreaks, BAtPc, BEnds
<1>2. bReq[h].rows \in Rows /\ RowsKnown(bReq[h].rows) /\ RowsKnown(bRow) /\ RowsKnown(NoRows)
  BY <1>0, <1>1, BackupFacts, BackupKinds, FileKinds DEF AllKnown, RowsKnown
<1>3. bRow' \in Rows /\ \A b \in Backups : (bRow'[b] # "none" => b <= bLast) /\ (bRow'[b] = "ready" => WrittenOut(b))
  BY <1>0, <1>1, <1>2, BackupFacts, FileKinds DEF RowsKnown
<1>4. KnownMove(h, BIdle)
  BY <1>0, <1>1, <1>3, BackupFacts, BackupKinds DEF KnownMove, Making, Writing, Deletes
<1> QED BY <1>1, <1>4, BackupMoves

LEMMA BackupStep == BackupInv /\ [BNext]_bVars => BackupInv'
<1> SUFFICES ASSUME BackupInv, [BNext]_bVars PROVE BackupInv'
  OBVIOUS
<1>1. CASE UNCHANGED bVars
  BY <1>1 DEF bVars, BackupInv, KnownInv, BackupShape, AllKnown, RowsKnown, WrittenOut, OneMaker, Owned, OwnedBy,
              Importing, Imported, Found, Deleting
<1>2. CASE BNext
  <2>1. PICK h \in BHandlers :
          \/ BStep(h)
          \/ UploadAckLost(h) \/ ImportFails(h) \/ DeleteRow(h, FALSE) \/ BackupDies(h) \/ RestoreBreaks(h)
          \/ \E marked \in BOOLEAN : DumpFails(h, marked) \/ MarkReadyFails(h, marked)
          \/ \E b \in Backups :
                \/ CreateBackup(h, b) \/ CreateAckLost(h, b) \/ UploadBegins(h, b)
                \/ DeleteBegins(h, b) \/ RestoreBegins(h, b)
    BY <1>2 DEF BNext
  <2>2. CASE RetentionLists(h) \/ DeleteRow(h, FALSE) \/ RestoreOpens(h) \/ BackupDies(h)
    <3>1. KnownInv /\ bReq[h].pc # "idle"
      BY <2>2, BackupKinds
         DEF BackupInv, RetentionLists, DeleteRow, RestoreOpens, BackupDies, BAtPc
    <3>2. bReq[h].id \in Backups
      BY <3>1, BackupFacts
    <3> QED BY <2>2, <3>2, QuietActions
  <2>3. CASE \E b \in Backups : DeleteBegins(h, b) \/ RestoreBegins(h, b)
    BY <2>3, QuietActions
  <2> QED BY <2>1, <2>2, <2>3, CreateBackupKeeps, CreateAckLostKeeps, DumpBeginsKeeps, DumpEndsKeeps,
             DumpFailsKeeps, MarkReadyKeeps, MarkReadyFailsKeeps, UploadBeginsKeeps, UploadCopiedKeeps,
             ImportFailsKeeps, UploadRowKeeps, UploadAckLostKeeps, UploadDroppedKeeps, RemoveFileKeeps,
             DeleteRowKeeps, RestoreKeeps DEF BStep
<1> QED BY <1>1, <1>2

LEMMA BackupStart == ASSUME BInit PROVE BackupInv
<1>1. /\ bRow = NoRows /\ bFile = [b \in Backups |-> Absent] /\ bReq = [h \in BHandlers |-> BIdle]
      /\ bLoaded = TRUE /\ bRestored = FALSE /\ bStuck = {} /\ bLast = 0
  BY DEF BInit
<1>2. BackupShape
  BY <1>1, BackupKinds, FileKinds DEF BackupShape
<1>3. \A h \in BHandlers : bReq[h].pc = "idle"
  BY <1>1, BackupKinds
<1>4. Absent.state = "absent"
  BY DEF Absent
<1>5. AllKnown /\ OneMaker
  BY <1>1, <1>3, <1>4, FileKinds DEF AllKnown, RowsKnown, OneMaker, Making, Deletes
<1>6. Owned
  BY <1>1, <1>3, FileKinds DEF Owned, OwnedBy, Importing, Deletes
<1> QED BY <1>2, <1>5, <1>6 DEF BackupInv, KnownInv

LEMMA BackupInvSound == ASSUME BackupInv PROVE BackupsSound
<1>0. KnownInv /\ Owned
  BY DEF BackupInv
<1>1. \A b \in Backups : Imported(b) \/ Deleting(b) => BusyWith(b)
  BY DEF Imported, Importing, Deleting, BusyWith
<1>2. FilesOwned
  BY <1>0, <1>1, BackupFacts DEF Owned, FilesOwned
<1>3. ASSUME NEW b \in Backups, bFile[b] # Absent, bFile[b] # Partial PROVE bFile[b].state = "complete"
  BY <1>0, <1>3, BackupFacts, FileKinds
<1>4. ReadyHasFile
  <2>1. SUFFICES ASSUME ~bRestored, NEW b \in Backups, bRow[b] = "ready", b \notin bStuck, ~BusyWith(b)
                 PROVE  bFile[b].state = "complete"
    BY DEF ReadyHasFile
  <2>2. WrittenOut(b) /\ bRestored = FALSE
    BY <1>0, <2>1, BackupFacts
  <2>3. Found(b)
    BY <1>0, <2>1, <2>2 DEF Owned
  <2> QED BY <1>1, <1>3, <2>1, <2>2, <2>3 DEF Found, WrittenOut
<1>5. OnlyCompleteLoaded
  BY <1>0, BackupFacts DEF OnlyCompleteLoaded
<1> QED BY <1>2, <1>4, <1>5 DEF BackupsSound

\* A backup that is listed as ready has its file, only complete dumps are fed
\* to mysql, and no file is left behind, but for the reasons named, for any
\* number of backups and requests.
THEOREM BackupsStaySound == BSpec => []BackupsSound
BY BackupStart, BackupStep, BackupInvSound, PTL DEF BSpec

-----------------------------------------------------------------------------
(* The three, as the run of MCDelivery takes them.                         *)

\* KeptSound holds of every behaviour of MCDelivery: a step of another
\* component leaves images, backups, settings and models alone.
THEOREM DeliveryKeptSound == DeliverySpec => []KeptSound
<1> DEFINE Inv == StoreInv /\ BackupInv /\ CatalogInv
<1>1. DeliveryInit => Inv
  BY StoreStart, BackupStart, SettingsStart, ModelsStart DEF DeliveryInit, CatalogInv
<1>2. Inv /\ [DeliveryNext]_deliveryVars => Inv'
  <2>1. [DeliveryNext]_deliveryVars => [MNext]_mVars /\ [BNext]_bVars /\ [CatNext]_catVars
    BY DEF DeliveryNext, deliveryVars, Drawing, Chatting, Patching, Polling, Adapting, Storing, BackingUp,
           Setting, Reading, CatNext
  <2> QED BY <2>1, StoreStep, BackupStep, CatalogStep
<1>3. Inv => KeptSound
  BY StoreInvSound, BackupInvSound, CatalogInvSound DEF KeptSound
<1> HIDE DEF Inv
<1> QED BY <1>1, <1>2, <1>3, PTL DEF DeliverySpec
=============================================================================
