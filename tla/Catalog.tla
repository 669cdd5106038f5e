------------------------------- MODULE Catalog -------------------------------
(***************************************************************************)
(* What every request reads without a query: the system settings           *)
(* (internal/settings), a map in memory that Set keeps in step with its    *)
(* table, and the models (internal/model), a map that is replaced by every *)
(* write of an administrator and when it is older than its TTL.            *)
(* Administrators overlap, calls fail and the process restarts.            *)
(*                                                                         *)
(* The settings are the two that depend on each other: images can be kept  *)
(* in the cloud only with a usable configuration of it.  Settings and      *)
(* models share nothing, and each half has its own restart.                *)
(***************************************************************************)
EXTENDS Integers, FiniteSets

CONSTANTS
    Editors,        \* requests of administrators
    ModelTTL,       \* ttl of the registry, in ticks
    CatWrites,      \* bound on administrators' requests
    CatFaults       \* bound on failures and restarts

ASSUME CatalogAssumption ==
    /\ IsFiniteSet(Editors)
    /\ ModelTTL \in Nat /\ CatWrites \in Nat /\ CatFaults \in Nat

VARIABLES
    setDB, setCache,    \* the settings in system_settings and in memory
    setJob,             \* the requests that write or reload them
    setStale,           \* something may have left the two different
    setSkewed,          \* an update may have been validated against something else
    mdRow, mdCache,     \* the model in its table and in the registry
    mdWanted,           \* what an administrator last asked its switch to be
    mdRaced,            \* an update that left the switch alone may have overlapped that
    mdAge,              \* age of the registry
    mdRefreshing,       \* the flag of the background refresh
    mdJob,              \* who writes or reloads
    mdStale,            \* something may have left registry and table different
    catWrites, catFaults

setVars == <<setDB, setCache, setJob, setStale, setSkewed>>
mdVars == <<mdRow, mdCache, mdWanted, mdRaced, mdAge, mdRefreshing, mdJob, mdStale>>
catVars == <<setVars, mdVars, catWrites, catFaults>>

CatIdle == [pc |-> "idle"]
Background == "background"
NoModel == [ver |-> 0, on |-> FALSE]

\* The background refresh is no administrator's request.
ASSUME CatalogIds == Background \notin Editors

\* config: the text parses and names a server, a channel and a format
Storage == [mode : {"local", "cloud"}, config : BOOLEAN]
Defaults == [mode |-> "local", config |-> FALSE]
Edits == [keys : (SUBSET DOMAIN Defaults) \ {{}}, to : Storage]

CatInit ==
    /\ setDB = Defaults /\ setCache = Defaults
    /\ setJob = [a \in Editors |-> CatIdle]
    /\ setStale = FALSE /\ setSkewed = FALSE
    /\ mdRow = [ver |-> 1, on |-> TRUE] /\ mdCache = mdRow /\ mdAge = 0
    /\ mdWanted = TRUE /\ mdRaced = FALSE
    /\ mdRefreshing = FALSE
    /\ mdJob = [j \in Editors \cup {Background} |-> CatIdle]
    /\ mdStale = FALSE
    /\ catWrites = 0 /\ catFaults = 0

CatWrite == catWrites < CatWrites /\ catWrites' = catWrites + 1
CatFault == catFaults < CatFaults /\ catFaults' = catFaults + 1

\* A job begins: those in flight are no longer alone, nor is it beside them.
Begins(jobs, a, job) ==
    [b \in DOMAIN jobs |->
        IF b = a THEN [job EXCEPT !.alone = \A c \in DOMAIN jobs : jobs[c] = CatIdle]
        ELSE IF jobs[b] = CatIdle THEN CatIdle ELSE [jobs[b] EXCEPT !.alone = FALSE]]

-----------------------------------------------------------------------------
(* Settings.                                                               *)

Overlay(s, e) == [k \in DOMAIN s |-> IF k \in e.keys THEN e.to[k] ELSE s[k]]

\* Mutant: only what is sent is checked.
ValidateStorageSnapshotAlone(cached, e) ==
    e.keys = DOMAIN cached /\ e.to.mode = "cloud" => e.to.config

\* The update together with what the cache says of the rest.
ValidateStorageSnapshot(cached, e) ==
    LET merged == Overlay(cached, e) IN merged.mode = "cloud" => merged.config

\* Update: the snapshot is taken and checked, then Set starts.
UpdateSettings(a, e) ==
    /\ setJob[a] = CatIdle
    /\ CatWrite
    /\ ValidateStorageSnapshot(setCache, e)
    /\ setJob' = Begins(setJob, a, [pc |-> "set", edit |-> e, alone |-> TRUE])
    /\ setSkewed' = (setSkewed \/ setStale \/ ~setJob'[a].alone)
    /\ UNCHANGED <<setDB, setCache, setStale, mdVars, catFaults>>

SettingsJobEnds(a) ==
    /\ setJob' = [setJob EXCEPT ![a] = CatIdle]
    /\ setStale' = (setStale \/ ~setJob[a].alone)

\* SetMany: one transaction.
SetMany(a) ==
    /\ setJob[a].pc = "set"
    /\ setDB' = Overlay(setDB, setJob[a].edit)
    /\ setJob' = [setJob EXCEPT ![a].pc = "cache"]
    /\ UNCHANGED <<setCache, setStale, setSkewed, mdVars, catWrites, catFaults>>

\* Mutant: the cache is written although the transaction failed.
SetManyFailsCached(a) ==
    /\ setJob[a].pc = "set"
    /\ CatFault
    /\ SettingsJobEnds(a)
    /\ setCache' = Overlay(setCache, setJob[a].edit)
    /\ UNCHANGED <<setDB, setSkewed, mdVars, catWrites>>

SetManyFails(a) ==
    /\ setJob[a].pc = "set"
    /\ CatFault
    /\ SettingsJobEnds(a)
    /\ UNCHANGED <<setDB, setCache, setSkewed, mdVars, catWrites>>

\* It commits and the answer is lost: Set returns before it touches the cache.
SetManyAckLost(a) ==
    /\ setJob[a].pc = "set"
    /\ CatFault
    /\ setDB' = Overlay(setDB, setJob[a].edit)
    /\ setJob' = [setJob EXCEPT ![a] = CatIdle]
    /\ setStale' = TRUE
    /\ UNCHANGED <<setCache, setSkewed, mdVars, catWrites>>

\* The keys of the update, one by one under the lock.
SetCache(a) ==
    /\ setJob[a].pc = "cache"
    /\ setCache' = Overlay(setCache, setJob[a].edit)
    /\ SettingsJobEnds(a)
    /\ UNCHANGED <<setDB, setSkewed, mdVars, catWrites, catFaults>>

\* Reload: LoadAll, ...
LoadAll(a) ==
    /\ setJob[a] = CatIdle
    /\ CatWrite
    /\ setJob' = Begins(setJob, a, [pc |-> "store", read |-> setDB, alone |-> TRUE])
    /\ setSkewed' = (setSkewed \/ ~setJob'[a].alone)
    /\ UNCHANGED <<setDB, setCache, setStale, mdVars, catFaults>>

\* ... and the map is replaced by what was read.
ReloadStores(a) ==
    /\ setJob[a].pc = "store"
    /\ setCache' = setJob[a].read
    /\ setJob' = [setJob EXCEPT ![a] = CatIdle]
    /\ setStale' = ~setJob[a].alone
    /\ UNCHANGED <<setDB, setSkewed, mdVars, catWrites, catFaults>>

\* The process starts again; when the load fails, which is logged, the
\* settings are the defaults.
SettingsRestart(loaded) ==
    /\ CatFault
    /\ setJob' = [a \in Editors |-> CatIdle]
    /\ setCache' = IF loaded THEN setDB ELSE Defaults
    /\ setStale' = ~loaded
    /\ UNCHANGED <<setDB, setSkewed, mdVars, catWrites>>

-----------------------------------------------------------------------------
(* Models.                                                                 *)

\* A request of an administrator: a version of its own, what it says of the
\* switch (nothing, or one value) and the row it read.
ModelJob(pc, sent, read) ==
    [pc |-> pc, ver |-> catWrites + 2, sent |-> sent, read |-> read, alone |-> TRUE]

ModelBegins(a, job) ==
    /\ mdJob[a] = CatIdle
    /\ CatWrite
    /\ mdJob' = Begins(mdJob, a, job)
    /\ UNCHANGED <<setVars, mdCache, mdAge, mdRefreshing, mdStale, catFaults>>

\* The four writes below commit here and are then answered, or their answer is
\* lost (ModelAckLost).

\* A new model is on unless the request says otherwise; a slug that exists is
\* refused.
CreateModel(a, on) ==
    /\ mdRow = NoModel
    /\ ModelBegins(a, ModelJob("list", {on}, NoModel))
    /\ mdRow' = [ver |-> catWrites + 2, on |-> on]
    /\ mdWanted' = on /\ mdRaced' = FALSE

\* Update reads the row first, ...
GetModel(a, sent) ==
    /\ mdRow # NoModel
    /\ ModelBegins(a, ModelJob("write", sent, mdRow))
    /\ UNCHANGED <<mdRow, mdWanted, mdRaced>>

\* Mutant: a request that says nothing of the switch turns the model on.
SwitchSentOn(read, sent) == sent # {FALSE}

\* ... keeps of it what the request leaves out, ...
SwitchSent(read, sent) == IF sent = {} THEN read.on ELSE sent = {TRUE}

\* ... and writes the whole row, unless it was deleted meanwhile.
UpdateModel(a) ==
    LET job == mdJob[a] IN
    /\ job.pc = "write"
    /\ IF mdRow = NoModel
       THEN /\ mdJob' = [mdJob EXCEPT ![a] = CatIdle]
            /\ UNCHANGED <<mdRow, mdWanted, mdRaced>>
       ELSE /\ mdJob' = [mdJob EXCEPT ![a].pc = "list"]
            /\ mdRow' = [ver |-> job.ver, on |-> SwitchSent(job.read, job.sent)]
            /\ mdWanted' = IF job.sent = {} THEN mdWanted ELSE job.sent = {TRUE}
            /\ mdRaced' = (job.sent = {} /\ (mdRaced \/ ~job.alone))
    /\ UNCHANGED <<setVars, mdCache, mdAge, mdRefreshing, mdStale, catWrites, catFaults>>

\* The write fails and nothing is committed.
UpdateModelFails(a) ==
    /\ mdJob[a].pc = "write"
    /\ CatFault
    /\ mdJob' = [mdJob EXCEPT ![a] = CatIdle]
    /\ UNCHANGED <<setVars, mdRow, mdCache, mdWanted, mdRaced, mdAge, mdRefreshing, mdStale, catWrites>>

\* A switch that does not move affects no row and is answered "not found".
SetEnabled(a, on) ==
    /\ mdRow # NoModel /\ mdRow.on # on
    /\ ModelBegins(a, ModelJob("list", {on}, NoModel))
    /\ mdRow' = [mdRow EXCEPT !.on = on]
    /\ mdWanted' = on /\ mdRaced' = FALSE

DeleteModel(a) ==
    /\ mdRow # NoModel
    /\ ModelBegins(a, ModelJob("list", {}, NoModel))
    /\ mdRow' = NoModel
    /\ UNCHANGED <<mdWanted, mdRaced>>

\* The background refresh clears its flag however it ends.
ModelsJobEnds(j) ==
    /\ mdJob' = [mdJob EXCEPT ![j] = CatIdle]
    /\ mdRefreshing' = (mdRefreshing /\ j # Background)

\* A refresh that does not come about leaves the old map.
NotRefreshed(j) ==
    /\ CatFault
    /\ ModelsJobEnds(j)
    /\ mdStale' = TRUE
    /\ UNCHANGED <<setVars, mdRow, mdCache, mdWanted, mdRaced, mdAge, catWrites>>

\* A write is committed and its answer lost, or the request's context ends
\* first: the handler returns the error and does not reach reloadRegistry.
ModelAckLost(a) == mdJob[a].pc = "list" /\ NotRefreshed(a)

\* refresh: the list, ...
ListModels(j) ==
    /\ mdJob[j].pc = "list"
    /\ mdJob' = [mdJob EXCEPT ![j].pc = "store", ![j].read = mdRow]
    /\ UNCHANGED <<setVars, mdRow, mdCache, mdWanted, mdRaced, mdAge, mdRefreshing, mdStale, catWrites, catFaults>>

\* ... which may fail: the error is dropped and the old map stays.
ListModelsFails(j) == mdJob[j].pc = "list" /\ NotRefreshed(j)

\* ... and the new map.
StoreModels(j) ==
    /\ mdJob[j].pc = "store"
    /\ mdCache' = mdJob[j].read
    /\ mdAge' = 0
    /\ ModelsJobEnds(j)
    /\ mdStale' = ~mdJob[j].alone
    /\ UNCHANGED <<setVars, mdRow, mdWanted, mdRaced, catWrites, catFaults>>

\* Mutant: the refresh runs only for a model that is not in the map.
BySlugMissing ==
    /\ mdAge > ModelTTL /\ ~mdRefreshing /\ mdCache = NoModel
    /\ mdRefreshing' = TRUE
    /\ mdJob' = Begins(mdJob, Background, [pc |-> "list", read |-> NoModel, alone |-> TRUE])
    /\ UNCHANGED <<setVars, mdRow, mdCache, mdWanted, mdRaced, mdAge, mdStale, catWrites, catFaults>>

\* A request asks for the model: an old map is used once more, while it is
\* refreshed; a request that finds a young map changes nothing.
BySlug ==
    /\ mdAge > ModelTTL /\ ~mdRefreshing
    /\ mdRefreshing' = TRUE
    /\ mdJob' = Begins(mdJob, Background, [pc |-> "list", read |-> NoModel, alone |-> TRUE])
    /\ UNCHANGED <<setVars, mdRow, mdCache, mdWanted, mdRaced, mdAge, mdStale, catWrites, catFaults>>

\* The process starts again; when the list fails, which is logged, the
\* registry is empty and too old.
ModelsRestart(loaded) ==
    /\ CatFault
    /\ mdJob' = [j \in DOMAIN mdJob |-> CatIdle]
    /\ mdCache' = IF loaded THEN mdRow ELSE NoModel
    /\ mdAge' = IF loaded THEN 0 ELSE ModelTTL + 1
    /\ mdStale' = ~loaded
    /\ mdRefreshing' = FALSE
    /\ UNCHANGED <<setVars, mdRow, mdWanted, mdRaced, catWrites>>

CatTick ==
    /\ mdAge <= ModelTTL
    /\ mdAge' = mdAge + 1
    /\ UNCHANGED <<setVars, mdRow, mdCache, mdWanted, mdRaced, mdRefreshing, mdJob, mdStale,
                   catWrites, catFaults>>

-----------------------------------------------------------------------------
SettingsNext ==
    \/ \E a \in Editors :
        \/ \E e \in Edits : UpdateSettings(a, e)
        \/ SetMany(a) \/ SetManyFails(a) \/ SetManyAckLost(a) \/ SetCache(a)
        \/ LoadAll(a) \/ ReloadStores(a)
    \/ \E loaded \in BOOLEAN : SettingsRestart(loaded)

RefreshModels(j) == ListModels(j) \/ ListModelsFails(j) \/ StoreModels(j)

ModelsNext ==
    \/ \E a \in Editors :
        \/ \E on \in BOOLEAN : CreateModel(a, on) \/ SetEnabled(a, on)
        \/ \E sent \in {{}, {TRUE}, {FALSE}} : GetModel(a, sent)
        \/ UpdateModel(a) \/ UpdateModelFails(a) \/ DeleteModel(a)
        \/ ModelAckLost(a)
    \/ \E j \in DOMAIN mdJob : RefreshModels(j)
    \/ BySlug \/ CatTick
    \/ \E loaded \in BOOLEAN : ModelsRestart(loaded)

CatNext == SettingsNext \/ ModelsNext

CatSpec == CatInit /\ [][CatNext]_catVars

-----------------------------------------------------------------------------
(* Properties.                                                             *)

\* The settings in memory are those of the table, unless a request is between
\* its two writes, or one overlapped another, lost its answer or the process
\* could not load them; and a reload that nothing overlaps mends that (Set,
\* Reload).
SettingsAgree ==
    setDB # setCache => setStale \/ \E a \in Editors : setJob[a].pc = "cache"

\* Nobody can choose the cloud without its configuration, or take it away
\* from the cloud, except by two overlapping updates or by one that was
\* checked against a stale cache (ValidateStorageSnapshot).
StorageUsable == setDB.mode = "cloud" /\ ~setDB.config => setSkewed

\* A write of a model is in the registry when its request has returned, unless
\* its answer was lost, so that the handler did not come to its refresh,
\* another refresh overlapped or its own failed (reloadRegistry).
ModelsFresh ==
    mdCache # mdRow => mdStale \/ \E j \in DOMAIN mdJob : mdJob[j] # CatIdle

\* The background refresh runs exactly while its flag is up: never twice, and
\* the flag is not left behind to stop every later one (refreshing).
OneRefresh == mdRefreshing <=> mdJob[Background] # CatIdle

\* A model stays switched as somebody last asked, unless an update that says
\* nothing of the switch overlapped that and wrote back what it had read
\* (Update reads the row before it writes all of it).
SwitchKept == mdRow # NoModel => mdRow.on = mdWanted \/ mdRaced

CatalogSound ==
    SettingsAgree /\ StorageUsable /\ ModelsFresh /\ OneRefresh /\ SwitchKept

\* What the registry comes to, however refreshes overlapped and failed, as long
\* as requests come.
ModelsAgree == mdCache = mdRow
=============================================================================
