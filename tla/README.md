# A TLA+ model of gpt2api

gpt2api sells access to a pool of ChatGPT accounts and to external API
channels behind an OpenAI-compatible HTTP interface. Users hold credits; every
chat or image request freezes an estimate, takes an account (or a channel),
calls the upstream and settles or refunds. This directory models the parts of
the Go server (`cmd/`, `internal/`, `pkg/`) in which concurrency, failure and
money meet: what is checked by TLC on small instances, what is proved by TLAPS
for all of them, and what is left out.

## 1. The system

| part | state | operations | talks to |
|---|---|---|---|
| credit engine `internal/billing` | `users.credit_balance`, `users.credit_frozen` (one counter per user), `credit_transactions` | PreDeduct, Settle, Refund, Recharge, AwardCheckinTx, RedeemTx, AdminAdjust: one MySQL transaction each | called by gateway, recharge, redeem, check-in, admin, registration |
| gateway `internal/gateway` | the locals of a request; `image_tasks`; `api_keys.quota_used` | ImageGenerations, ImageEdits, handleChatAsImage, dispatchImageToChannel, ChatCompletions, dispatchChatToChannel | engine, image DAO, runner, scheduler, channels, limiter |
| image runner `internal/image` | the result of a task, its batches and attempts | Run, runParallel, runWithRetry, runOnce | scheduler, upstream, image store |
| scheduler `internal/scheduler` | `oai_accounts` rows, Redis `acct:lock:*`, `proxy:lease:*` | Dispatch, Release, Mark* | account DAO, proxy allocator, `pkg/lock` |
| account upkeep `internal/account` | tokens, status, image quota of an account | Refresher, QuotaProber, import, admin | auth.openai.com, chatgpt.com, account DAO |
| upstream client `internal/upstream/chatgpt` | the handshake, event reader and polling of one conversation | StreamFChat, UploadFile, ParseImageSSE, PollConversationForImages | runner, chat handler |
| proxies `internal/proxy` | `proxies.health_score`, leases | prober, allocator, import | scheduler |
| channels `internal/channel` | `upstream_channels` health, mappings | Resolve, MarkHealth, test, admin | gateway, adapters |
| adapters `internal/upstream/adapter` | the parser of one answer | Chat, ImageGenerate over four wire protocols | gateway |
| recharge `internal/recharge` | `recharge_orders` | Create, HandleNotify, CancelByUser, AdminForcePaid | EPay gateway, engine |
| redeem, check-in | `redeem_codes`, `checkin_records` | Generate, Redeem, Checkin | engine |
| auth, users | `users`, e-mail codes and counters in Redis, tokens | Register, Login, send code, admin edits | engine, mail |
| API keys, limiter, usage log | `api_keys`, Redis buckets, a bounded Go channel | Create, Verify, TouchUsage; the bucket script; Write, flush, Close | gateway |
| image store, cache | files, an in-memory map | save, open, delete; lookup and eviction | runner, image proxy |
| settings, models | tables and their copies in memory | Set, Reload; BySlug, Reload, admin edits | everyone |
| backup | `backup_files` and dump files | create, upload, restore, delete, retention | mysqldump, mysql |

The parts share MySQL rows and Redis keys and nothing else; any number of
goroutines and processes run them at once. Hard behaviours, with their lines,
are the `hazards` of `PROJECT.json`: one aggregate frozen counter, dropped
errors, crashes between a freeze and its close, lost commit acknowledgements,
rows checked on a snapshot and used later, locks that expire while they are
held, duplicate payment callbacks, two-step bookings, goroutines that block on
bounded channels, copies in memory that miss a write.

What makes each part correct: the engine and the gateway: credits are neither
lost nor made, and every hold is closed once; the scheduler: one request per
account, no lease without its key, no lost account; recharge: an order is
credited exactly once if and only if it was paid; grants: a code and a day are
booked once; the runner: as many images as asked for, each of them generated for
the request; upkeep and import: no usable token is thrown away; channels, proxies
and quotas: the health a row shows is earned and nothing is left out for good;
streams: the text the user gets is the text that was meant for the user in the frames that
are read, and is what is charged; what is kept in files and caches is whole and current.

## 2. Modules

| module | models | composed of |
|---|---|---|
| `Billing` | the engine's transactions on one user row and its ledger | |
| `Totals`, `Selections` | the sum of a function over a set; the elements of a sequence that are in a set | |
| `Escrow` | what the engine promises: one escrow per request, filled once and emptied once | |
| `Gateway` | the billing and task life cycle of the five request kinds | Billing, Totals; refines Escrow |
| `Scheduler` | dispatch, Redis locks, proxy leases, marks, release, time | |
| `RechargeOrders` | orders, callbacks, cancellation, manual booking | Billing, Totals |
| `ImageBatch` | one Run of the image runner: goroutines, retries, supplementary batches, merge, archive, quota | Totals; hands its outcome to Gateway |
| `AccountUpkeep` | the credentials of one account and everyone who writes them: refreshes, edit form, import, marks, recycle bin | |
| `QuotaProbe` | the image quota columns between probes and deductions | |
| `Imports` | import of accounts: token exchange, then rows, with cancellation | |
| `ChannelRoutes` | health and routes of external channels | |
| `ProxyHealth` | health score of proxies between prober and failing leases | |
| `Grants` | redemption codes and check-ins, statement by statement | |
| `Identity` | users, roles, tokens, administrators | |
| `EmailCode` | registration codes and their send limits | |
| `ApiKeys` | keys of a user: count, edits, admission, usage | |
| `RateLimit` | the token bucket and its callers | |
| `UsageLog` | the buffered usage log and its shutdown | |
| `ChatStream` | one chat over a pool account: handshake, reader goroutine, handler, charge | |
| `DeltaText` | the text extracted from the patches of a chat | |
| `ImagePoll` | the conversation inside one runOnce: upload, stream, polling, addresses | |
| `ChannelAnswer` | the answer of an external channel: parsers, chunks, images, usage | |
| `ImageStore` | archived images, the image proxy and its cache | |
| `Backup` | backup rows and files | |
| `Catalog` | settings and models, in their tables and in memory | |
| `MCGateway`, `MCScheduler`, `MCAccountUpkeep`, `MCRechargeOrders` | instances for TLC | one each |
| `MCEntry` | instance: what lets users in and gives them credits | RechargeOrders, Grants, Identity, EmailCode, ApiKeys, RateLimit, UsageLog |
| `MCDelivery` | instance: how an answer is obtained and kept | ImageBatch, ChatStream, DeltaText, ImagePoll, ChannelAnswer, ImageStore, Backup, Catalog |
| `MCPool` | instance: the resources requests go through | Imports, QuotaProbe, ChannelRoutes, ProxyHealth |
| `GatewayProofs`, `SchedulerProofs` | theorems and lemmas | |
| `CreditProofs` | theorems and lemmas | RechargeOrders, Grants |
| `PoolProofs` | theorems and lemmas | AccountUpkeep, ProxyHealth, ChannelRoutes, QuotaProbe, Imports |
| `EntryProofs` | theorems and lemmas | Identity, EmailCode, ApiKeys, RateLimit, UsageLog |
| `DeliveryProofs` | theorems and lemmas | ImageBatch, ImagePoll, ChatStream, DeltaText, ChannelAnswer |
| `KeptProofs` | theorems and lemmas | Catalog, ImageStore, Backup |
| `DataProofs` | lemmas about sums, sequences and folds | |

`MCEntry`, `MCDelivery` and `MCPool` put components side by side that share no state their modules
describe: `part`, chosen at the start, says which of them a behaviour exercises.
Their properties are conjunctions of the components' own, which have the names
given in parentheses in their comments.

An operator whose comment starts with "Mutant:" stands
before the definition it varies. It is a plausible bug of that code, used to
show that a property would notice it, and is no part of any specification.

### Billing and Gateway

`Billing` keeps four functions of the user: `balance`, `frozen`, `deleted` and
`ledger` (the sum of the user's `credit_transactions`). Each engine operation
is one action with the `WHERE` clause as its guard. `Gateway` has one program
counter per request and one step per MySQL statement or upstream call:
`Accept` (checks passed, estimate known), the five outcomes of PreDeduct, the
task row, the archive of the reference images, the runner or the channel or
the chat stream, Refund or Settle with their outcomes (done, ErrConflict,
error), MarkFailed, TouchUsage, UpdateCost. Prices are inputs: an image from
the pool costs at most its estimate, a channel image or a chat any amount. A
fault is a MySQL call that fails, a commit whose acknowledgement is lost, or a
process that stops. `hold[r]` and `charged[r]` are the ledger rows of the
request's `ref_id`; the engine does not keep them, the properties need them.

`Escrow` has no shared counter: each request has its own escrow, filled from
available credits and emptied once, back to the user or against a charge.
`Gateway!ImplementsEscrow` maps `balance`, `hold`, `charged` and a phase
computed from the program counter to it.

### Scheduler

Workers are goroutines that serve one request at a time. A worker lists the
dispatchable rows (`List`), walks that snapshot in the `ORDER BY` order
(`SkipCandidate`, `LockAccount`), prepares the lease, takes a proxy or goes
direct, uses the account (`UseEnds` with its four outcomes), and releases in
the order of the code: MarkUsed, proxy, account. Time is a counter; `Tick`
drops expired keys. `MaxHold` is the deadline of the task context. Errors and a
client that goes away inside `tryLock`, and process deaths, are actions.

### RechargeOrders

An order row, the money at the payment gateway and its acknowledgement, and
handlers that serve callbacks and manual bookings. `settle` is two steps, the
compare-and-set of the status and the engine's Recharge; a fault is a failed
statement, a cancelled request context or a crash, and ends the handler.

### ImageBatch

One run of N images. A slot is a goroutine of `runBatch`: it checks the context,
takes an account, passes the sentinel, uploads references, converses, polls and
downloads; each of these steps can fail with the codes `classifyUpstream` can
give it, the deferred release gives the account back, and `Fail` is the retry
decision of `runWithRetry`. Results arrive in any order (`sent`), are merged
when the channel is closed, archived, written and deducted. Every `runOnce` asks
for one image, so a conversation is the set of reference kinds it has shown: a
generated image, or one of the user's own. The account is any that is neither
held nor marked out, which is what `Scheduler` guarantees. `Gateway` sees
this whole module as `RunnerStart`, `RunnerSuccess`, `RunnerFail` and `RunnerEmpty`.

### AccountUpkeep

One row of `oai_accounts`: its place (listed, in the recycle bin, purged), its
status, refresh token, session token and what is left of its access token.
`Refreshers` are the goroutines that run RefreshAuto: the background scan,
which works on the row as it was listed, and requests of administrators. Each
keeps the tokens it was given (`snap`) and the ones it has obtained (`got`) and
takes one step per HTTP call or statement. Tokens are compared only with what
upstream takes: a copy is `live` or `used`, and a rotation makes every older
copy `used`. The edit form holds the tokens it was opened with, because the
page fetches them (GetSecrets) and sends them back; `importOne` reads and
writes in two steps. With one administrator and session tokens that are never
removed, the read inside Service.Update adds nothing to the staleness of the
form, so the two are one step. The expiry a form sends back is any that is
not later than the row's; the status an import writes back is any that can have
been read. What upstream does with tokens is external: it takes one refresh
token per account, refuses used ones, may rotate or not, and may end a login.

### The pool: QuotaProbe, Imports, ChannelRoutes, ProxyHealth

`QuotaProbe`: rows with remaining and total quota, ChatGPT's own counter `qUp`,
probes of a scan or an administrator (read row, ask, write) and images with
their later DecrQuota. Ghosts count the deductions a probe has overwritten.
`Imports`: the lines of one request are exchanged one after another, then
deduplicated by account, looked up and written in batches; a refresh token is
its line and how often it was exchanged. `ChannelRoutes`: a request resolves
copies of the channel rows, tries them in order and reports on each from its
copy (`MarkHealth`); `streak` is the number of consecutive failures a row should
show, `overlap` says which rows a stale report has touched. `ProxyHealth`: the
prober's rounds against DeductHealth of failing leases, with the same kind of
ghosts (`pfair`, `praced`). Whether a proxy or a channel works is an input.

### Who gets in: Grants, Identity, EmailCode, ApiKeys, RateLimit, UsageLog

`Grants` has one step per statement of a transaction. Row locks are explicit
(`gLock`): a code by SELECT FOR UPDATE, a check-in by its unique key, a user by
the UPDATE of creditTx; uncommitted writes stay in the handler. `Identity` keeps
users with role and status, and tokens that carry the role they were issued
with; registration is a check and an insert, and clocks record which check came
before which insert. `EmailCode` has one step per Redis call and a mail that
arrives or fails. `ApiKeys` separates the count from the insert, the read of an
edit from its write, and the admission of a request from its TouchUsage; a key has the
reserved name or not (`reserved`), whoever gave it, and `kNamed` are those it was given
to, or taken from, by the user.
`RateLimit` runs the bucket's script with a time read up to `RMaxDelay` ago: that
no call outlasts the time to fill a bucket is an assumption about the Redis
client's timeouts, and the bound needs it. `UsageLog` is the Go channel, the
goroutine's batch, the table, and Close.

### How an answer comes: ChatStream, DeltaText, ImagePoll, ChannelAnswer

`ChatStream` runs the handler and the reading goroutine as two processes around
a bounded channel; the upstream sends, stalls, breaks or ends, the client may
leave. `DeltaText` is the extractor as an operator on frames; the sender is
external and modelled by the frame formats the extractor documents, including
the paths and recipients it leaves out, and knows for each piece who should see it. It
sends message after message and does not notice that the handler has left: `dRead`
is how far the frames went that the handler read. That the sender leaves out a
recipient only when it is the one before is an assumption. `ImagePoll`
opens the box that `ImageBatch` treats as one call. `ChannelAnswer` has the parser
goroutine of each wire protocol, the handler that collects or streams, and the
image answers; text is a sequence of numbered pieces so that loss, repetition
and order are visible.

### What is kept: ImageStore, Backup, Catalog

`ImageStore`: a save writes each file under a temporary name in two steps and
renames it; readers take from the cache or the disk while an administrator
deletes. `Backup`: the file of a backup contains the rows a restore would bring
back; an INSERT may be committed and its answer lost, which leaves a dump without
file or makes an upload remove its own (`CreateAckLost`, `UploadAckLost`). `Catalog`:
each administrator's request is a read, a write and a refresh of
the copy in memory, and a lost answer ends it before the refresh (`ModelAckLost`); `setStale`, `setSkewed`, `mdStale` and `mdRaced` record the overlaps
that may leave the two apart.

## 3. Runs

| run | module, cfg | checks | shows |
|---|---|---|---|
| `gateway_safety` | `MCGateway`, `MCGateway.cfg` | FrozenBacked, CloseNeverConflicts, LedgerReconciles, DebtBounded, HoldClosed, BooksAgree, ImplementsEscrow | Two requests of any of the five kinds share one user's frozen counter, with a fault or crash, credits and deletion: the counter is the sum of the open holds, the ledger explains the balance, a hold outlives its request only for a named reason, and ledger, key quota and task row agree on the price. |
| `gateway_live` | `MCGateway`, `MCGatewayLive.cfg` | RequestEnds, TaskEnds | Under fairness of the handlers' steps, but for the stream of a chat, which has no time limit, every accepted request runs to its end unless it streams for ever, and every task row ends as success or failed unless a call failed or the process died. |
| `gateway_closed_loop` (violation) | `MCGateway`, `MCGatewayClosedLoop.cfg` | ClosedLoop | A channel image whose final price rounds to zero is never settled nor refunded: its hold stays frozen although nothing failed. |
| `scheduler` | `MCScheduler`, `MCScheduler.cfg` | LeaseBacked, DispatchEnds, AccountFreed | With a lock TTL longer than the longest hold, a lease never outlives its Redis keys through crashes, cancellations and errors inside tryLock, Dispatch ends by its deadline, and an account locked by a crashed or cancelled request becomes free again. |
| `scheduler_stale` | `MCScheduler`, `MCSchedulerStale.cfg` | IntervalMissedOnlyByStaleScan, QuotaOvershootBounded, OnlyOwnerUnlocks | The checks on the listed rows are missed only in the window between listing and locking: the interval by a release after the listing, the quota by at most one request per other worker. |
| `scheduler_lock_ttl` (violation) | `MCScheduler`, `MCSchedulerLockTTL.cfg` | OneHolder | With the default TTL (180 s) shorter than an image task (7 or 8 minutes) a second request gets the account while the first still uses it; Refresh exists and nobody calls it. |
| `entry` | `MCEntry`, `MCEntry.cfg` | CreditedOnce, LedgerIsOrders, PaidIsCredited, GrantsSound, MembersSound, AccessSound, StatusForward, MoneyBecomesCredits, EntryEnds | What lets users in and gives them credits: duplicate payment callbacks race an administrator and a cancelling user, redemptions and check-ins race each other, registrations and the edits of administrators overlap, e-mail counters meet failures, and keys, rate buckets and the usage log meet overlapping requests. |
| `recharge_cancelled` (violation) | `MCRechargeOrders`, `MCRechargeCancelled.cfg` | AckedIsCredited | The payment of an order the user cancelled meanwhile is acknowledged with success and never credited, without any failure. |
| `delivery` | `MCDelivery`, `MCDelivery.cfg` | DeliversExactly, QuotaMatches, RunContained, AnswerSound, PollSound, KeptSound, BatchEnds, DeliveryEnds | How an answer is obtained and kept: the image runner's goroutines with retries and supplementary batches, a chat whose upstream stalls or breaks, the text of its patches, an image conversation with uploads and polling, the streams of external channels, the image store and its cache, backups, and the settings and models held in memory. |
| `account_upkeep` | `MCAccountUpkeep`, `MCAccountUpkeep.cfg` | RTKept, DeadOnlyExpired, DeletedFrozen, Attended | The background scan and an administrator's refresh work on one account while tokens are edited, imported, rotated and revoked, the account is marked, deleted and restored, and calls fail: overlapping refreshes do not lose the rotated refresh token, kill a good account or write to a deleted one, and an expiring account is always dealt with. |
| `account_transient` (violation) | `MCAccountUpkeep`, `MCAccountTransient.cfg` | TransientHarmless | A verification that fails for a reason that says nothing about the new access token makes RefreshAuto throw away the rotated refresh token with it, and the account has no usable refresh token left. |
| `upstream_pool` | `MCPool`, `MCPool.cfg` | AccountsSound, ChannelsSound, ScoreExactUnlessRaced, PoolRecovers | The resources requests are sent through: an import whose exchanges, rows and cancellation interleave with administrators, the image quota of two accounts between probes and images, two channels whose health overlapping requests and tests report, and a proxy whose score a probe and failing leases write; none of them is left out for good. |

Bounds. Two requests of one user are the smallest instance in which the shared
counter can be wrong; amounts 0, 1 and 2 give free, cheaper, equal and dearer
outcomes; one fault (any call, or a crash) and two credits make every branch
reachable. The scheduler needs two workers to race for an account and a proxy
and three for the quota overshoot; the clock bound lets a lock expire, a
cooldown end and a day change. Two orders and two handlers let callbacks,
administrator and cancellation race, and two faults hit both orders. Two images and two accounts let a batch be incomplete, be filled up by a second one and run out of
accounts; two failed writes hit both archive and row, or row and quota. A scan, one
requested refresh, one form or import, and tokens that live two ticks, one of
them inside the refresh window, let every writer of an account overtake every
other; nothing there is counted, so nothing there is bounded. In the three
composed instances every component has two actors of the kind that races: two
transactions, two registrations or senders, two key requests, two callers of the
bucket, two readers, two backup requests, two editors, two channel requests and
a test; five usage rows overflow a buffer of two between batches of two; channels
of two chunks block with three or four events; two lines of an import may be of
one account or of two, with a batch boundary between them; a proxy's score starts
at 10 or 1 and three events let it fall, be overwritten and recover. Five events
of administrators (`IMaxEvents`) are what two demotions through old tokens take.
Symmetry
is declared over requests and workers, and never in a run with liveness
properties. `CHECK_DEADLOCK FALSE` is set because requests, faults and the
clock are bounded: when they are used up the instance really stops.
AccountUpkeep has no such bound and is checked for deadlock.

Fairness. Gateway: the steps of an accepted request are weakly fair, because MySQL
calls return or fail and what is done for an image, by a channel too, runs in a context
that ends after 7 or 8 minutes. The stream of a chat has none
(`fchat.go:236` sets no timeout, `parseSSE` ignores its own, the context is the
client's), so nothing is assumed of a chat that streams (`Streaming`) and RequestEnds
excepts a chat that streams for ever; arrivals, crashes, credits and deletions are not fair either.
Scheduler: the dispatch steps, the release steps and the clock are weakly fair;
arrivals, cancellations, crashes and the administrator are not. Recharge:
handlers are weakly fair, and the delivery of an unacknowledged callback is
strongly fair, as the protocol of the payment gateway (resend until "success")
says. ImageBatch: each goroutine and Run itself are weakly fair, because every
upstream call has a time limit of its own; the end of the context is not.
AccountUpkeep: the scan repeats for ever, its HTTP calls time out and time
passes (weak fairness); MySQL does not refuse the scan's writes for ever (strong
fairness); administrators, marks and upstream are free. Entry: besides the
recharge handlers, the steps of a grant's transaction (InnoDB grants a free lock or
times out) and the goroutine and ticker of the usage log. Delivery: handler and
reader of a chat, the steps of an image conversation (each call has a time limit
and the polling a deadline), the refreshes of the model registry, the requests
that read a model and the clock its TTL is measured by; the upstream of a chat is
free to stall. Pool: the loops of the two probers, the steps of a probe, and the
steps of a channel request, whose HTTP calls time out.

## 4. Proofs

`tlapm` checks them to the last leaf, for every value of the constants.

| theorem | says |
|---|---|
| `GatewayType` | type correctness of handlers and engine |
| `GatewayHoldShape` | a request at a given program point has the hold and the charge its control flow implies |
| `GatewayFrozenBacked` | `credit_frozen` of a user is the sum of the open holds of the user's requests |
| `GatewayCloseNeverConflicts` | a Settle or Refund never finds the counter too small |
| `GatewayLedgerReconciles`, `GatewayDebtBounded` | the ledger explains every balance; a debt is at most what settlements took beyond their estimates |
| `GatewayHoldClosed`, `GatewayBooksAgree` | a finished request holds nothing, and ledger, key and task row agree about its price, but for the failures they name |
| `GatewayImplementsEscrow` | handlers and engine refine `Escrow` |
| `RechargeType`, `RechargeOneBooking`, `RechargeCreditedOnce`, `RechargeStatusForward` | the order is booked by one handler and credited at most once; paid and cancelled are final |
| `RechargeLedgerIsOrders`, `RechargePaidIsCredited` | the ledger is the sum of the credited orders; a paid order is credited unless a fault hit between CAS and booking |
| `SchedulerType`, `SchedulerLeaseBacked`, `SchedulerOneHolder` | types; if `MaxHold < LockTTL`, a lease owns its Redis keys and no account or proxy has two holders |
| `SchedulerOnlyOwnerUnlocks` | a release never deletes another holder's key, whatever the TTL is |
| `SchedulerIntervalMissed`, `SchedulerQuotaOvershoot` | how far a stale listing can break interval and daily quota |
| `RefreshTokenKept` | only the steps named in LosesRT can cost an account its usable refresh token |
| `NeverKillsLive`, `DeletedKept`, `UpkeepTypeCorrect` | no refresh kills an account with a good access token; a deleted account keeps its credentials; types |
| `ProxyScoreExact`, `ChannelsStaySound`, `QuotaHonest`, `ImportsStaySound`, `PoolStaysSound` | proxy scores, channel health and the route loop, the quota rows, imports; all four in `MCPool` |
| `BatchShapeHolds`, `RunDeliversExactly`, `RunQuotaMatches`, `RunStaysContained` | a run delivers exactly N images in order, deducts exactly them, returns its accounts and asks the upstream a bounded, counted number of times |
| `GrantsStaySound` | a code is redeemed and a day claimed once, the ledger continues the balance, answers are true |
| `MembersStaySound`, `EmailStaysSound`, `EntryMembersSound` | who becomes administrator and how the last one can be lost; stored codes were mailed, mails are bounded, counters end; both in `MCEntry` |
| `KeysStaySound`, `RateStaysBounded`, `UsageStaysAccounted`, `EntryAccessSound` | keys, their quotas and switches, but for keys of the reserved name; tokens granted; rows of the usage log, stored or reported or, without an answer, both; all three in `MCEntry` |
| `PollEndsRightly`, `PollStaysSound` | an image conversation uploads first, gives up rightly, and delivers its own images, each once, never the user's upload |
| `ChatStaysSound`, `TextStaysExact` | a chat is charged for its text and blames the right account; the client is shown exactly the user's text in the frames the handler read, and only a message that began after an earlier one's finished status goes unread |
| `ParsersEnd`, `AnswerStaysExact` | a channel's parser ends and its edits are final; the user gets every piece of the answer, in order, and is charged what was reported |
| `DeliveryAnswers` | these three components in `MCDelivery` |
| `CatalogStaysSound`, `StoreStaysSound`, `BackupsStaySound`, `DeliveryKeptSound` | settings and models in memory and in their tables; images whole, saves all or nothing, the proxy's cache; backups and their files; all three in `MCDelivery`, with the lost acknowledgements they name |

Gateway. The assumption is `GatewayAssumption` (the request set is finite, each
request has a user and a kind, amounts are naturals). The argument is a chain of
inductive invariants: TypeOK; HoldShape, inductive relative to TypeOK,
because a close is decided by the program counter alone; FrozenBacked relative
to both. Its step is the lemma `FrozenMovesWithHold`: an action that moves
`frozen` of a user moves the hold of exactly one request of that user by the
same amount, and `TotalUpdate` of `DataProofs` says the sum follows.
CloseNeverConflicts is then a state fact: one summand is at most the sum.
LedgerReconciles follows from the way each transaction books what it moves;
DebtBounded rests on FrozenBacked, since only Settle can take more than was
frozen. HoldClosed and BooksAgree need BookShape, which says what charge, key and
task row are at every program point of a handler, and which is inductive only
because CloseNeverConflicts has shown that no live user's Settle or Refund is
refused. The refinement maps the open hold of a request to its escrow; the
initial states map to initial states and each action to one abstract step or a
stutter.

Recharge (`CreditProofs`). The assumption is `RechargeAssumption`. OneBooking (at most one handler
is between the compare-and-set and the Recharge of an order, and then the order
is paid and uncredited) and CreditedOnce are inductive together and not alone:
the first needs that a credited order is no longer pending, the second that
only the handler that won books. StatusForward is an action property
of the step relation and the types. LedgerIsOrders is one sum per user that moves
with the one order booked; PaidIsCredited says that the winner of the CAS is
still there as long as the order is paid and uncredited, or a fault was recorded.

Scheduler. The assumptions are `SchedulerAssumption` and `TokenAssumption` (the
mark of a free lock is no worker's token). LeaseBacked and OneHolder have the premise
`MaxHold < LockTTL`: a task ends before its lock expires. The settings let an
administrator break it, and the run `scheduler_lock_ttl` shows a second holder then.
The invariant LeaseShape strengthens LeaseBacked by when the lock was taken: its
expiry is at least the start of the hold plus the TTL, and the hold is not
older than MaxHold. IntervalMissedOnlyByStaleScan needs ScanFresh (a row that no longer
equals a listing was used after it), the quota bound QuotaShape: today's count
plus the workers that may still add to it stays below the quota plus the number of
workers. OnlyOwnerUnlocks needs types only.

Accounts (`PoolProofs`). The assumption is `UpkeepAssumption`. The invariant is TypeOK with
GotInFlight: a refresher holds a rotated token only while it verifies or writes.
Without it, RecordRefreshError and the session-token path could drop a token
that nobody else has. Three action properties follow step by step.

Pool (also `PoolProofs`). The score of a proxy is inductive with its types. For
channels the invariant says what a request at each program point has tried,
counted and still to report; that a route order exists and lists every usable
channel comes from its definition as a set of permutations. QuotaHonest is the
part of AccountsSound about quotas: what ChatGPT has left plus the deductions
still to come plus the ones a probe overtook covers the row.

Imports (also `PoolProofs`). The assumption is `ImportsAssumption`. ImportInv gives every
line its place: it failed, is an item still to come, or has its outcome; so the
summary adds up at every cancellation. ImportCalm says what an import that nobody
disturbs has done so far: while it exchanges, item i is line i with the refresh
token the exchange left; from `ImportBatch` on there is one item for each account,
of its last line, the accounts of the items that were handled are what the item
makes of them, and all others are as before. That `Dedup` leaves such items, each
account once, and as many as there are accounts among the lines, is the lemma
`DedupFacts`, for lists of any length. From there on the uniqueness of the
e-mails carries the proof: a row that was written is written once.

Delivery (`DeliveryProofs`). The assumption is `ImageBatchAssumption`. A lemma reduces
the thirteen actions of a goroutine to four kinds of step (it goes on, retries,
gives up, delivers); the invariants see only those. BatchShape ties lease, image and
attempt number of a slot to its program counter. FilesShape adds that slots above
the number of missing images are off and that no slot is twice in the channel, so
that by a pigeonhole argument a batch never delivers more than is missing: without
it, status = success would not give Len(files) = N. AttemptShape
relates attempts and calls by two sums over the slots, those about to check
the context and those that have finished.

Answers (also `DeliveryProofs`). The assumptions are `PollAssumption` and
`ChannelAnswerAssumption`. PollInv bounds the counters of an attempt that goes
on: fewer 429s than end it, no more rounds than there are. ChatInv says that nothing is
charged, marked or given back before the handler returns, and that only the
answer of the last call decides what it does then. AnswerInv says where an error may
be in the chunks of a channel: it comes from the end of the body and at most one
chunk is behind it, in the Go channel or still to be pushed. So a handler that
leaves at an error leaves at most one chunk, and the channel has room for it.

What the answers say (also `DeliveryProofs`). RefsOwn says of every sequence of
references a conversation holds that each reference is there once, was drawn for
it or is the user's upload, and that nothing of the upload is left once the
references have been filtered; `AddsFacts` says what a merge of two such sequences is.
DeltaInv says that the extractor stands on the path and recipient the sender
is on until it reports the end, and that from then on the text stays what it was while
the sender goes on; `PatchPath` takes a frame of many patches one patch at a time,
so that a frame of any length writes what the sender meant. AnswerTold says of the
chunks that are under way, in the parser and in the Go channel, that taking them
one by one leads from what the handler has told the user to what the upstream has
sent (`Leads`, a path through what the handler has after each chunk); every step of
the parser lengthens the path at its end, every chunk taken shortens it at its head.

Grants (`CreditProofs`). The assumptions are `GrantsAssumption` and `GrantsIds` (the
mark of no one is no user and no handler). GrantInv says of a request in its
transaction that it holds the lock of its row, which is still open, and from
the credit on also the lock of its user, whose balance it has read: so two
requests are never at the same row, and a commit writes what was read. Answers are
remembered in the request and stay true because no row is closed twice.

Members (`EntryProofs`). The assumptions are `IdentityAssumption`,
`EmailCodeAssumption` and `EmailCodeKeys` (the key of the IP is no address). MemberInv
adds to the two properties what a request that passed its check has seen:
whoever is about to insert itself as administrator read the clock after every
living self-made administrator was gone, a role below administrator was given
while somebody existed, and no request deletes its own actor. EmailInv counts
requests: the mails of a window are covered by the counter, by the requests about to
raise it and by the faults; with the requests about to mail they stay below the
bound, because a request that begins has read a counter below the limit and is
itself neither; and a counter without TTL is covered by the requests about to set
it and by the faults. That a fresh code exists is a pigeonhole argument.

Access (also `EntryProofs`). The assumptions are `ApiKeysAssumption`,
`RateLimitAssumption` and `UsageLogAssumption`. KeyInv adds what the checks of a
request have seen and nobody else has changed: the number of keys while no other
creation runs, the usage while no other request runs on the key, the switch as
long as the row has the revision that was read, and it counts only the keys whose name the
user left alone. RateInv says that the tokens
granted and the tokens left are covered by what has flowed in until the time
stamp of the bucket; the TTL, twice the time to fill a bucket, is what lets a
dropped key start full even for a caller whose clock was read before.
UsageInv says that every row is in one place, but for those both stored and reported
whose INSERT was not answered, and that table, batch and channel are in the order of
writing, each below the next.

Kept (`KeptProofs`). The assumptions are `CatalogAssumption`, `CatalogIds` (the
background refresh is no administrator's request), `StoreAssumption` and
`BackupAssumption`. CatalogInv says what a request that is alone knows: it has read
the row as it is, nobody else is between reading and writing, so memory is at
most its own write behind the table; and a registry that is behind has a refresh
coming or is known to be stale, also after a write whose answer was lost. StoreInv says that what a save has written
before it comes to a name, and would clean up, is exactly the names before that one, so a
save that fails leaves nothing; a cached image ends a TTL after it was stored, and
after its file is gone unless a reader held it. BackupInv has two parts.
KnownInv: identifiers are given once, each backup has one maker, and what any
snapshot of the rows calls ready has been written out, so that even after a restore
brings old rows back no partial dump is fed to mysql. Owned, until a restore: what
row and file a request at each point may rely on, such as that a file once
deleted does not come back, that nobody deletes an upload that has no row yet, and that
an upload removes a file behind its row only when the answer of the INSERT was lost. Its step is one
lemma (OwnedMove) about everything a step may do to rows and files, and each action is
an instance of it.

The theorems about `EntrySpec`, `DeliverySpec` and `PoolSpec` add that every step of
`MCEntry`, `MCDelivery` and `MCPool` is a step of the component or leaves its variables alone.

`DataProofs` holds the facts about data that these rest on. `Total` is the
cardinality of a set of units, so its facts follow from the library's theorems on
finite sets. Folds over sequences (`AddsAll`, `ExtractArray`, `Only`) and the greatest
index in `Dedup` need induction. The library's induction theorems have an operator as
parameter and cannot be used, but a set of naturals has a least element
(`NatLeast`, from the library's facts on well-founded relations, which need none), so a set
with 0 and the successors of its elements is all of Nat (`NatInduct`). From that follow
that the function a fold is defined by exists (`FoldExists`), and with it a path of
the results after 0, 1, 2, ... elements, along which the facts are shown.

Every invariant and every action property the runs check is stated by a theorem.
Only model-checked is liveness under fairness, which is outside the prover's reach:
RequestEnds, TaskEnds, DispatchEnds, AccountFreed, MoneyBecomesCredits, EntryEnds, BatchEnds,
DeliveryEnds, Attended and PoolRecovers. The violations are counterexamples, which TLC finds.
The invariants that only proofs use (HoldShape, BookShape, OneBooking, LeaseShape,
ScanFresh, QuotaShape, BatchShape, FilesShape, DecrShape, AttemptShape, PollInv, RefsOwn,
ChatInv, DeltaInv, AnswerInv, AnswerTold, ImportInv, GrantInv, MemberInv, EmailInv, KeyInv,
RateInv, UsageInv, SettingsInv, ModelsInv, StoreInv, BackupInv) are repeated in no run.

## 5. Where code and documentation disagree

The violation runs show four of them; the `findings` of `PROJECT.json` quote
the lines. Met while modelling and not given a run of their own:

- `Settle` makes a balance negative when a chat costs more than its estimate
  (`engine.go:118`), the comment says it is taken down to 0; DebtBounded says
  by how much.
- `task_meta.go:83` tells the user of a failed task that the credits have been
  returned; the runner marks the task failed before the handler refunds, and
  the refund's error is dropped.
- `scheduler.go:5,6`: interval and quota are checked on a snapshot; the
  properties IntervalMissedOnlyByStaleScan and QuotaOvershootBounded say what
  remains true. A quota whose product with the ratio is below 1 is no quota at
  all (`scheduler.go:233`).
- `scheduler.go:7` says a throttled account recovers when its cooldown expires;
  the listing skips the status and nothing resets it.
- `recharge/model.go:5` wants the booking in one transaction; it is two, and
  the retry of a callback that was interrupted between them is answered with
  success. PaidIsCredited says that this is the only way.
- The daily recharge limit looks at paid orders only, so orders created before
  either is paid pass it together; pending orders never expire
  (`ExpirePending` has no caller).
- `images.go:603` and `:1183` keep one attempt for requests with reference images so
  that they are not uploaded twice; `retryLimit` (`runner.go:705`) raises 1 to 2
  for four error codes, and a run of N images uploads them in each of its
  goroutines and batches.
- `RunResult.Attempts` is documented as the number of runOnce calls; a goroutine
  that finds its context dead has counted a call it does not make
  (`runner.go:392`). AttemptsCounted, a part of RunContained, says what holds.
- Images generated in a run that fails are not deducted from the account's
  quota; QuotaMatches states it, the quota prober corrects it later.
- `refresher.go:280` says that an account whose new token the web refuses is
  marked dead and no longer dispatched; RecordRefreshError marks it warned while
  its old access token lasts, and warned accounts are dispatched.
- RecordRefreshError advances `last_refresh_at` "避免 pressed-out 重试" (against
  repeated tries, `dao.go:439`); ListNeedRefresh does not read it, so a failing
  account is tried in every scan of its window.
- A refresh that loses the race with another one marks the account warned
  although it has just been renewed, and nothing but an administrator makes a
  warned account healthy again; the quota prober skips it until then.
- The edit form sends back the tokens it was opened with, so saving a note undoes
  a refresh made meanwhile, rotated refresh token included (RTKept names it).
- `image_channel.go` is documented to fall back to the account pool when all
  channels fail; it answers 502.
- Chat: `parseSSE` ignores its timeout (`conversation.go:147`, the comment at `:122`
  speaks of a read timeout per event), so a stalled upstream holds handler and account
  until the client leaves. The reader goroutine stays blocked when more events than
  the channel holds follow the final one. DeliveryEnds names both. The apology for an empty
  answer is free when streamed and charged when collected. Marks written with the
  request's context are lost when the client has left.
- Channel answers: a broken answer that has begun is served and charged like a
  finished one. Token counts are lost when a responses or Gemini stream breaks. A
  preview that arrives after a final image replaces it. Several images over
  the responses endpoint are sequential calls, and one failure loses them all; Gemini's
  multimodal models ignore N.
- Image conversations: references found in the stream are lost when the polling
  ends in an error; preview and final of one image count as two.
- `delta.go`: the finished status of any message, also one for a tool or one that is
  echoed, is reported as the end of the answer (`:95-99`, `:134-137`, `:163-173`), and
  `streamOpenAI` and `collectOpenAI` leave their loops: text of a message that follows
  is lost. TextExact says that nothing else is. A string frame with `"o":"replace"` is
  appended like any other. The sixth case, which the comment calls scenario 1 and says
  still works (`:35`, `:38`), is never reached: frames without `v` return before it
  (`:87-90`), so frames of the old protocol say nothing.
- Keys: the playground key is recognised by its name, `__playground__`, which no check
  and no index keeps users from giving to their own keys. The migration
  (`20260418000001_settings_expand.sql:28`) calls the setting the most keys a user may
  create, and CountActiveByUser (`dao.go:76-78`) leaves those keys out, so creating or
  renaming them one after another exceeds it; KeysLimited is about the others. Playground
  requests use the newest key of that name,
  whatever its switch and quota, and the key lists do not show it. A PATCH that leaves out quota, RPM or TPM sets them to 0, which is
  unlimited. A chat over a channel takes two RPM tokens. The comment of AdjustTPM
  promises to give tokens back for a negative difference ("delta<0 还一些"); it
  returns nothing.
- Usage log: rows of an INSERT that is committed but not answered within 3 s are logged
  as a failed insert and are in the table all the same (UsageAccounted).
- E-mail codes: as many deaths between INCR and EXPIRE as the limit (5 per address,
  20 per IP) would leave a counter that never ends (LimitHasTTL).
- Users: the last administrator is kept from demoting or deleting itself, but
  may ban itself, and two administrators can demote each other. The e-mail of a
  deleted user can never register again, and its code is used up first.
- Imports: with UpdateExisting off, a refresh token of an existing account is
  exchanged, then skipped, and its successor is lost; a cancelled import loses the
  successors it has not written and counts the lines it has not tried nowhere;
  an account deleted between lookup and UPDATE is reported as updated.
- Settings: two valid updates that overlap can leave cloud storage chosen without
  its configuration; a Reload beside a Set, a lost acknowledgement or a failed load at
  startup leaves the copy in memory wrong until the next reload, for it has no TTL.
- Models: `registry.go:32` says the next request sees new data; reloadRegistry drops
  the error of the refresh, and a write that is committed and answered with an error
  (`admin_handler.go:136-143`, `:194-196`, `:219-225`, `:241-247`) is not followed by a
  refresh at all; then it takes the TTL and one more request. An update or
  switch that changes nothing affects no row and is answered as not found. An update
  that does not mention the switch writes back the one it read.
- Backups: an upload whose row is committed and whose INSERT is answered with an error
  removes its file (`backup/service.go:398-400`) and leaves a ready row without one;
  ReadyHasFile names it. A dump contains `backup_files`, so restoring it makes its own row
  "running" again and loses later rows; MarkFailed on a dead context leaves a row
  running; a backup deleted before its dump opens the file leaves the file behind.
- Images: a failed write leaves its `.tmp` file. The secret of the image proxy is made
  per process, so the addresses it has signed end with it.

## 6. Not modelled, and the plan

The components of `PROJECT.json` say part by part what is left out: cryptography
(EPay signatures, passwords, token signing), what is inside a call to another
server (headers, encodings, TLS profiles and the computations its challenges
ask for), CRUD handlers and lists, the web frontends. Inside the modelled parts,
data that no property tells apart (prompts, URLs, error texts) is left out or a
set of inputs. `readCloudProxyImage` is left out of `ImageStore`, which has the tasks kept on the
local disk: for a task in cloud storage it fetches the image when the disk has none and
fills the cache with it, also when the local file has been deleted, so that what
CacheSound says of deleted images does not hold of such tasks.
`pricing.go` is arithmetic without state; `Gateway` allows every price it can give.

Order of work:

1. Money and requests: `Billing`, `Gateway`, `Escrow`. Done.
2. Accounts as a resource: `Scheduler`. Done.
3. Payments: `RechargeOrders`. Done.
4. The image runner: `ImageBatch`, and one conversation of it: `ImagePoll`. Done.
5. Accounts: `AccountUpkeep`, `QuotaProbe`, `Imports`. Done.
6. Health: `ChannelRoutes`, `ProxyHealth`. Done.
7. Users and what they are given: `Grants`, `Identity`, `EmailCode`, `ApiKeys`. Done.
8. `RateLimit`, `UsageLog`. Done.
9. Answers: `ChatStream`, `DeltaText`, `ChannelAnswer`. Done.
10. Files and caches: `ImageStore`, `Backup`, `Catalog`. Done.
11. Pricing as operators checked against a reference definition.

Proofs: for every safety invariant and action property the runs check. Done.
