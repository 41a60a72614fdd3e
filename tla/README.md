# TLA+ models of forensic-minimal

forensic-minimal is a Docker platform for forensic collection.  Two Node portals (CERT and IT) receive
evidence files, store them in MinIO, record them in OpenSearch and queue them in Redis; a Python worker
takes the queue, parses each file, indexes its events and imports a Timesketch timeline; Logstash indexes
a second time what portals and worker send it; bridges copy HELK
and Velociraptor results to OpenSearch, Timesketch, MISP and OpenCTI; bash scripts install and repair the
stack.  This directory holds TLA+ modules that model its control logic, the TLC configurations that check
them, and TLAPS proofs that hold for every value of the constants.

Line numbers below and in `PROJECT.json` refer to the files under `src/`.  `PROJECT.json` also lists, for
each definition that models code, the lines it stands for (`map`), the hazards of the code with the
properties that watch them (`hazards`), and what the checks found (`findings`).

## 1. Inventory

### Components and how they interact

```
 IT portal ──┐  files      ┌─► MinIO ◄───────────────┐ download
 (token)     ├─ upload ────┼─► OpenSearch forensic-uploads ◄─ status ─┐
 CERT portal ┘             └─► Redis fp:ingest:queue ─► ingest-worker ┴─► OpenSearch events
 (accounts)  ── tokens ──────► Redis it:token:*, OpenSearch forensic-tokens        └─► Timesketch
             ── accounts ────► users.json
 portals, worker ── documents, events ─► Logstash ─► OpenSearch, a second time
                                                          HELK / Velociraptor bridges ─► OpenSearch, TI
```

| Component | State it keeps | Operations | Hard behaviour | What makes it correct |
|---|---|---|---|---|
| **IT deposit token** (`portal-cert/server.js`, `portal-it/server.js`) | `it:token:<t>` and `it:tokens:all` in Redis, `forensic-tokens` in OpenSearch | generate, validate, consume, list, revoke, expiry | read-modify-write over three awaits against concurrent uploads, revocation, expiry, eviction, restart from a snapshot; a TTL rounded to 0; deletes applied and not answered | uses counted, no admission once spent, no life after expiry, a usable token can be listed, a revoked one dies |
| **Upload and ingestion** (both portals, `lib/ingest-queue.js`, `ingest-worker/worker.py`, `scripts/repair-timesketch.sh`) | objects in MinIO, `forensic-uploads` documents, the Redis list, the worker's current job | upload, queue, parse locally, take, mark, fetch, bulk, import, close, DELETE, purge, requeue | a destructive BRPOP with no acknowledgement, silent catches, lost replies, stores that fail one by one, deletion of an upload in hand, a second document that Logstash writes late | a job has its file; the passes over a file do not multiply; an accepted job is accounted for; a status moves only in its turn; the list drains |
| **Accounts, sessions, second factor** (`portal-cert/lib/auth-*.js`) | `users.json`, signed cookies | create, invite, activate, edit, reset, delete, login, MFA set-up, activation, disabling | a whole-file read, an await on bcrypt, a whole-file write | unique logins, an active administrator, the second factor asked when required, answers that stand |
| **Timesketch import** (`ingest-worker/timesketch_*.py`, `portal-cert/server.js:112-170`, `scripts/repair-timesketch.sh`) | sketches, timelines, cached clients | log in, find or create a sketch, upload CSV or Plaso, wait, verify, export a report, repair | retries of a POST whose answer was lost, check-then-create from two processes, a verification of the whole sketch, a repair beside the worker | one timeline per file, one sketch per case, a result that has its timeline, imports that end |
| **Parsers and normaliser** (`ingest-worker/parsers/`, `timesketch_normalizer.py`, `csv_validator.py`) | none | choose a parser, select and normalise rows | boundaries of sampling and batching | every row of a legal file kept once |
| **TI enrichment** (`ti_enrichment.py`, `ioc_common.py`, `scripts/opensearch_ioc_*_sync.py`, `scripts/opensearch_ti_enrich_logs.py`) | the `forensic-ti-*` indices, an indicator cache with a lifetime, the marks of the events | copy a platform, load, match, go over the events again, fall back on a sample | a failed load, a load cut at 10000 or answered by a part of the shards, writes a search does not show yet, two writes of a copy | the marks of the worker and of the script are of values the event carries and that have an origin (the fallback's are not: it pairs events with indicators they do not carry), misses have a cause, the unified index follows, a pass leaves no event behind |
| **Cluster repair** (`scripts/cluster_repair.py`, `scripts/opensearch_disk_repair.py`) | lists of indices and shards | delete closed and red indices, free the disk, wait, give up replicas, report | lists that are old when used, indices created meanwhile, waits that run out, an exit code from three reads | a deletion takes only documents of shards that had lost their last copy, replicas go only with a cause, exit 0 means active primaries, the run ends |
| **Threat platforms proxy** (`threat-v2-proxy.js`, `threat-platforms-routes.js`) | a RAM cache | get, chunked get, invalidate | a key that leaves parameters out | an answer belongs to its request |
| **Health and services status** (`lib/global-health.js`, `server.js:631`) | a 20 s cache | probe | overlapping probes, last writer wins | never older than what was shown |
| **HELK connector and bridge** (`lib/helk-connector.js`, `helk/scripts/helk_bridge.py`) | none but the indices | push, periodic sync, export | each pass without identifiers, ambiguous answers | a document copied once |
| **Velociraptor bridge** (`velociraptor/export/`) | reports | collect, export to up to seven targets | one target of several failing | `ok` tells whether all of it worked |
| **Installer and network repair** (`scripts/lib/installer.sh`, `forensic.sh`) | Docker networks and containers | start, repair, auto-repair loop | early returns, a final test weaker than the goal | the networks are right when it says so |
| **Logstash pipelines** (`config/logstash/pipeline/`) | none | route a message to an index | a copy of a document or of events that another component has written already | part of the upload's row: passes and copies |
| **Audit log and master routes**, **portal pages**, **configuration and vendored content**, **set-up scripts** | — | — | — | not control logic of the platform, see section 8 |

### Interactions

* Shared state: Redis is used by the two portals and the worker; OpenSearch by all; MinIO by the portals
  and the worker.  Logstash writes to OpenSearch what it is sent, when it comes to it.  No transaction ties
  two stores, so every pair of calls is a place where another process, a failure or a restart may come between.
* Calls: the portals call Timesketch, TheHive, MISP and OpenCTI over HTTP; failures are mostly swallowed
  (`.catch(() => {})`) or turned into a field of the answer.
* Inside one Node process handlers interleave at every `await` and nowhere else; the worker is a single
  thread; the containers restart (`restart: unless-stopped`), Redis from its last snapshot
  (`--save 300 1`), with a memory limit and `allkeys-lru` (`docker-compose.yml:90-97`).

## 2. Plan

The order was by how much of the platform's promise depends on the component and how little a test reaches.

1. **ItToken**, with the abstract **TokenLedger**: modelled, checked, the refinement and every safety
   invariant proved.
2. **IngestPipeline**, with the abstract **UploadLifecycle**: modelled, checked, the refinement and every
   safety invariant proved.
3. **AuthStore**: modelled, checked, every safety invariant proved.
4. **TimesketchImport**: the worker's importer, the portal's and the repair script; it details the step
   `Import` of IngestPipeline.  Modelled, checked, every safety invariant proved.
5. **TiEnrichment**: the copies of the platforms, the worker's cache, the script over the events; it details
   what `ParseAndBulk` of IngestPipeline writes.  Modelled, checked, every safety property proved.
6. **ClusterRepair**: modelled, checked, every safety property proved.

What is left, and why, is in section 8.  Every safety property a run checks has a theorem; the liveness
properties are TLC's alone (section 7).

## 3. Modules

| Module | What it is |
|---|---|
| `ItToken` | the deposit token across Redis and OpenSearch |
| `TokenLedger` | what a deposit token promises its case; implemented by `ItToken` |
| `MCItToken` | limits, cases and the symmetry of its instances |
| `ItTokenProofs` | types, counting, admission, expiry and listing, for all constants |
| `ItTokenLedgerProofs` | `ItToken` implements `TokenLedger`, for all constants |
| `IngestPipeline` | upload handlers, queue, worker, deletion, incidents |
| `UploadLifecycle` | what the list of uploads promises; implemented by `IngestPipeline` |
| `MCIngestPipeline` | names of its instances |
| `IngestPipelineProofs` | types, safety and the refinement, for all constants |
| `IngestPassesProofs` | the bound on how often a file is indexed, for all constants |
| `AuthStore` | `users.json`, pending writes, sessions |
| `MCAuthStore` | symmetry of its instances |
| `AuthStoreProofs` | every safety invariant of `AuthStore`, for all constants |
| `TimesketchImport` | the import of a file or a report into Timesketch, and the repair script |
| `MCTimesketchImport` | names and cases of its instances |
| `TimesketchImportProofs` | every safety property of `TimesketchImport`, for all constants |
| `TiEnrichment` | the indicators, their cache and the marks of the events |
| `MCTiEnrichment` | its instance |
| `TiEnrichmentProofs` | every safety property of `TiEnrichment`, for all constants |
| `ClusterRepair` | the repair script beside a cluster that changes |
| `MCClusterRepair` | its instance |
| `ClusterRepairProofs` | every safety property of `ClusterRepair`, for all constants |

The grain is the same everywhere: an action is the code between two awaits (Node) or two calls to a store
(worker), with the reply of the store merged with the command.  A handler's place is a program counter, what
it read and has not yet used is a field of its state.

### ItToken

| State | Code |
|---|---|
| `redis`, `members` | `it:token:<t>` (uses, status, and `ext`: whether its TTL goes beyond `expires_at`) and the set `it:tokens:all` |
| `saved` | the two as the last RDB snapshot has them |
| `docs` | the documents of `forensic-tokens` |
| `ending`, `due` | tokens in the last half second before `expires_at`, and tokens past it: wall-clock time is reduced to these two events and to the later end of a record with a TTL of its own |
| `up` | `redis.isReady` of both portals |
| `gen`, `upl`, `rev` | the program counters and local variables of POST `/api/tokens/generate`, POST `/api/upload`, DELETE `/api/tokens/:tokenId` |
| `revoked`, `reborn`, `racy`, `rolled`, `missed`, `prolonged` | history variables: they name the windows in which the code gives no guarantee, so that the properties can claim everything outside them |

Generation writes Redis when it is ready and the document in every case (`GenerateSetEx`, `GenerateSkipRedis`,
`GenerateSAdd`, `GenerateIndex`).  The TTL is never under 60 s although `expires_at` is not rounded up
(`portal-cert/server.js:440-442`), so the record of a token asked for less than a minute (`Brief`) goes beyond its
date from the start.  `Validate` is `validateToken`; `FilesHandled` stands for the file loop
and ends with the test that decides whether the token is consumed.  `ConsumeGet`, `ConsumeTtl` and
`ConsumeSetEx` are the three commands of the consumption; another handler may run between any two.  Redis
answers a TTL of 0 in the last half second of a record (`LastMoment`), and `portal-it/server.js:535` then writes it
back for 3600 s, as it does for a record that is gone.

`RevokeById`, `RevokeSearch`, `RevokeHit` are `deleteForensicToken`, in which the search sees an arbitrary
subset because OpenSearch refreshes later than it writes; `RevokeList`, `PurgeDelete`, `PurgeSkip` are
`purgeTokenFromRedis`.  A delete that OpenSearch applies and whose reply is lost is a step of its own
(`RevokeByIdUnanswered`, `RevokeHitUnanswered`): the request fails, or the client sends the delete again and the code
takes the 404 for a document that never was.  `RevokeFails` ends a revocation between any two of its calls, as a
refused call or a portal that stops does.

`TokenLedger` is the abstract specification, and knows nothing of reads, copies and writes.  A token is
issued once, `Admit` needs fewer charges than the limit, each admitted upload is charged (`Charge`) or
ends unpaid (`Finish`), a token that is gone (`Die`, `Vanish`) stays gone, and an expired one dies with it.
What the code gives no guarantee for is said per token: `miscounted` once two uploads wrote over each other;
`revenant` once its record vanished under an upload, once an upload ended in its last moment (`Close`, `Prolong`), or
from the start for a brief one; `RollBack` when Redis restarts.  `ItToken` implements it
(`LedgerSpec`) with a mapping that reads the charges off the record (`Charges`) and what was admitted, and at
which count, off the copies the uploads hold (`AdmittedWith`).

### IngestPipeline and UploadLifecycle

| State | Code |
|---|---|
| `request` | the progress of the upload's file in POST `/api/upload` (CERT) or `/api/upload` (IT), then the answer: queued, kept, pending, parsed, error |
| `objects` | the files in MinIO |
| `row`, `timesketch` | `ingest_status` and `timesketch.ok` of the document the portal wrote to `forensic-uploads` |
| `outbox`, `copy` | the documents Logstash has been sent and has not written, and `ingest_status` of those it wrote to `forensic-uploads-<date>` under an id of its own |
| `removal`, `aim` | where a DELETE of the upload is, and which of the two documents its search found |
| `queue`, `saved`, `redisUp` | the list `fp:ingest:queue`, its last snapshot, whether Redis answers |
| `osUp` | whether OpenSearch answers |
| `worker` | the worker's place in `process_job`, its job and its verdict |
| `indexed`, `relayed` | how many times the events of the file were bulk-indexed, and sent to Logstash |
| `count` | how often each kind of incident has happened |

`Put`, `IndexDocument`, `EnqueuePushes` / `EnqueueThrows` / `EnqueueNotReady` and `ParseHere` are the handlers;
the difference between the two portals is what they do when the job cannot be queued (`NotReadyAnswer`).
`Pop`, `MarkProcessing`, `Fetch`, `ParseAndBulk`, `Import`, `Close` are the worker's loop and `process_job`.
`FindRemoved`, `RemoveObject`, `RemoveDocument` are DELETE `/api/uploads/:docId` and each hit of POST
`/api/purge`.  `Repair` is the requeueing of `scripts/repair-timesketch.sh`, one job for each document that asks for
it.  Everything that goes wrong is
an *incident*, a crash of a portal, a crash of the worker, a restart of Redis, an eviction, a lost reply, an
outage of OpenSearch, a pass of the repair script: a configuration says which kinds may happen, how many of them in
one behaviour (`MaxKinds`) and how often.  MinIO is the exception: each call to it may fail in every run.

Logstash comes in twice.  `IndexDocument` sends the document (`portal-cert/server.js:348`), and `Mirror` is pipeline
40 writing it a second time (`40-multi-source.conf:107-131`), at any later moment or never, also after the upload was
deleted.  The list shows both documents; a DELETE finds one of them and removes only that one; the worker's update by
query reaches both; the repair script queues a job for each.  `ParseAndBulk` sends the events it has bulk-indexed
(`worker.py:193-194`), which pipeline 50 indexes again (`50-upload-content.conf:28-48`), so each pass makes the events
of a file searchable twice at least: `indexed` and `relayed` count the two ways apart.  `Relayed` are the uploads
whose messages Logstash takes, the others being those sent while it does not listen.

`UploadLifecycle` is the abstract specification: each of an upload's two entries, its own and the copy, is listed
once, changes status only while the upload has the worker's turn, one upload at a time, and never comes back once
deleted; a turn ends with a verdict or without a trace.  `IngestPipeline` implements it with
`status <- row, copy <- copy, holder <- worker.job` (`LifecycleSpec`).

### AuthStore

| State | Code |
|---|---|
| `users` | `users.json`, by identifier |
| `waiting` | requests between the start of a bcrypt hash and the write that follows: which operation, and the whole file they will write |
| `sessions` | accounts a session cookie was signed for; a cookie is stateless, so a logout or a restart removes none |
| `issued` | identifiers drawn by `uuidv4` |
| `created`, `removed`, `demoted`, `overwritten` | history: answers given, and the two windows the properties exempt |

`CreateUser`, `ResetPassword`, `CompleteActivation` read the file, start a hash and keep their changed copy in
`waiting`; `SaveHashed` writes it.  All the others are atomic: `CreateUserInvite`, `EditUser`, `DeleteUser`,
`SetupActivationMfa`, `Login`, `MfaSetup`, `MfaActivate`, `MfaDisable`.  `fresh` says whether the file is
still the one that was read.  `MfaSetup` and `MfaDisable` await between the check of the session and the
write, so they ask only that the account exists and once had a session (`WasSignedIn`).

### TimesketchImport

| State | Code |
|---|---|
| `sketches`, `timelines` | what Timesketch holds, in the order of its creation; a sketch keeps who asked for it, after which list, and whether it was created after its request was given up (`late`); a timeline is new, filling, ready, empty, failed or deleted |
| `pending` | creations of a sketch that are no longer waited for and that Timesketch has yet to apply |
| `jobs`, `result` | the worker's jobs of a file, and `timesketch.ok` or the answer to the export |
| `session` | `_ts_client` and `_tsSession`, kept for up to 3500 s |
| `imp` | the import at work in each importer, with what it has read and not yet used |
| `repair` | steps 1 and 2 of `repair-timesketch.sh`: the sketches to read (`unread`), the timelines left, the one about to be deleted |
| `ambiguous`, `again`, `hasty`, `blinded`, `pruned` | history: the windows the properties name |

`ReuseClient`, `Login`, `ListSketches`, `CreateSketch` are `ts_client`, `getTsSession` and the two ways to find a
sketch (the worker reads all the pages, the portal one).  A creation that is not answered within the time limit (25 s
of the worker, 10 s of the portal) is applied later or never (`CreateLate`).  `PostCsv` is one attempt of
`upload_csv_timeline` under `_retry_request`; `Fallback`, `PostPlaso`, `WaitPlaso` are the fallback to log2timeline;
`WaitReady` is `wait_timeline_ready`; `Verify` is `verify_sketch_explore`, which looks at every timeline of the
sketch; `PostReport` is the portal's single POST.  `RepairStart`, `RepairRead` are the repair's list of sketches and
its read of each one's timelines as it goes.  `Index` is Timesketch's own task, external.

### TiEnrichment

| State | Code |
|---|---|
| `published` | what MISP and OpenCTI give, fixed in a behaviour |
| `ti`, `found` | how many documents of each index of `forensic-ti-*` have a value, as they are stored and as a search shows them until the next refresh |
| `sync`, `script` | the progress of a copy of each platform and of `opensearch_ti_enrich_logs.py` |
| `cache`, `old`, `job` | `_CACHE`, whether `TI_CACHE_TTL` has passed, the batch `enrich_events` is at |
| `log`, `shown` | the events as they are stored, and as a search shows them until the next refresh |
| `script.shows`, `script.wanted` | history: what a search showed at the load of the pass, and the events the pass has to mark |
| `seeded`, `broken`, `fresh`, `cut` | history: platforms that gave nothing, copies that stopped half-way, indicators a search shows only since the last load, a load that left documents out |

`FetchMisp`, `FetchIndicators`, `FetchObservables` end in `Collected`, which takes the test indicators when there is
nothing; `Write` is one `bulk_index_ti`, first the platform's index and then the unified one; `RefreshTi` makes it
visible.  `Enrich` has the four outcomes of `enrich_events` (cache, load, status other than 200, exception) and
`Index` is the bulk after it. `ScriptSearch`, `ScriptUpdate`, `ScriptCount`, `ScriptPick`, `ScriptSight`, `ScriptEnd`
are the calls of the script's `main`.  A search that a shard did not answer has status 200 and a part of the documents
(`Asked`, `Answer`); such an answer is taken from the bound on faults, and `cut` or an empty `script.wanted` says that
it happened.

### ClusterRepair

| State | Code |
|---|---|
| `life`, `primary`, `replica`, `docs` | the indices of OpenSearch (open, closed or absent), the copies of their shards and the shards that hold documents |
| `room` | whether the disk lets a replica be allocated |
| `script` | the place of `main` and the results of the lists it has read |
| `unsettled`, `exposed`, `script.held` | history: indices that lost a copy or were created since the script's last wait or health, or that the wait ran out without; shards that have lost their last started copy; what the listed indices held |

`Create`, `Lose`, `Begin`, `Finish`, `Write` are the cluster's own steps: an index is created, with all its copies to
allocate, at any moment of the run.  `ListClosed`, `ListRed` and `Delete` are
`repair_closed_uuid_indices` and `repair_red_indices`; `DiskRepair` is `disk_repair_and_unblock`; `Waited` and `Late`
are `wait_allocation`; `Tune` and `Put` are `ensure_green_via_replica_tuning`; `Report`, `Final`, `Verdict` give the
exit code, which is 1 also when a call raises (`Abort`).

## 4. Properties and runs

| Run | Instance | What it checks and shows |
|---|---|---|
| `token_race` | 1 token of 2 uses, 3 uploads, evictions, 1 restart of Redis | `TypeOK`, `UsesAreCounted`, `NoAdmissionOnceSpent`, `ExpiredStaysDead`, `LedgerSpec` while the record expires, answers a TTL of 0, is evicted or rolled back, in every interleaving |
| `token_live` | 1 token asked for less than a minute, 2 uploads, 1 revocation, evictions, 1 outage, fairness | `RevokedEventuallyDead`: whatever race a revocation loses, the token dies for good; `UsableTokenIsListed` under outages, evictions, deletes without a reply and revocations that stop half-way |
| `token_revoked_refused` | 1 token, 2 uploads, 1 revocation | violation of `RevokedIsRefused`: a consumption writes the record back after the revocation succeeded |
| `ingest_race` | 2 uploads, one per portal, the second with a copy through Logstash; a portal crash, a lost reply or a repair | `TypeOK`, `PassesAreBounded`, `QueuedIsAccounted`, `LifecycleSpec` |
| `ingest_incidents` | 1 text file of the CERT portal and its copy, any 2 of the seven kinds of incident, fairness | `PassesAreBounded`, `JobHasItsFile`, `ProcessingIsHeld`, `LifecycleSpec` when stores and worker restart; `JobsAreDrained`, `AcceptedSettles` |
| `ingest_pending` | 1 upload of the CERT portal too large to parse there, one restart of Redis, fairness | violation of `PendingIsIngested`: the file announced as waiting is never queued |
| `auth_race` | 3 accounts, 2 names, 1 pending write, both other accounts on the second-factor page | `TypeOK`, `UniqueNames`, `ActiveAdminRemains`, `RequiredMfaIsAsked`, `AnswersStand` |
| `auth_deleted` | 2 accounts, 1 pending write | violation of `DeletedIsGone`: a stale write brings a deleted user back |
| `ts_race` | 2 EVTX files of 2 cases, one without a CSV row, 1 report named like a case, 1 fault, pages of 1 sketch | `TypeOK`, `SketchPerCase`, `OneTimelinePerFile`, `OkIsBacked`, `BadIsExplained` |
| `ts_repair` | 1 file, 2 passes of the repair, 1 fault, fairness | `OkIsBacked` beside the repair; `ImportsAdvance`, the measure behind `ImportsEnd`; `ImportsEnd` |
| `ti_race` | 1 real and 1 test indicator, 1 event that carries both, 2 passes of the copies, 1 of the script, 1 call that fails or is answered in part, loads of 3 documents | `TypeOK`, `MatchIsGenuine`, `MissIsExplained`, `UnifiedFollows`, `PassLeavesNone` |
| `cluster_repair` | 1 index of 2 shards, created before or during the run and perhaps closed, 3 copies lost, 2 faults, fairness | `TypeOK`, `ExitIsSound`, `DeletedWasLost`, `ReplicasGivenUpLate`, `RunEnds` |

The three violations are the project's findings; `PROJECT.json` quotes for each the line of a page, a document
or an answer that says otherwise.

### Exemptions

A property that named no window would be false, and one that exempted too much would be empty.  Each
exemption is therefore a history variable that grows only in the window itself, for the token or the file
concerned.

* `racy`: a token another upload held a copy of when its record was written (two consumptions overlapped).
* `reborn`: a token whose record vanished while an upload held a copy of it.
* `rolled`: a token a restart of Redis changed.
* `Brief`: a token asked for less than the 60 s its record lives at least.  `prolonged`: a token whose TTL an upload
  read in the last half second of its record.  Both outlive `expires_at`, and `ExpiredStaysDead` says that no other
  moment of a consumption does that.
* `missed`: a token whose document is gone and whose record a revocation may have left: it could not reach Redis,
  it lost the reply of a delete, or it stopped half-way.
* `Lossy` incidents: crash of the worker, restart of Redis, eviction, lost reply, outage of OpenSearch.  A
  crash of a portal, a deletion and the repair script are *not* among them, which is what
  `QueuedIsAccounted` claims.
* `overwritten`, `demoted`: a write replaced a file it had not read; an edit took an administrator's rights.
* `ambiguous`: an item whose upload Timesketch accepted without a usable answer.  `again`: a file imported
  once more.  `hasty`: a file judged while a timeline was still being indexed.  `blinded`: a report whose list
  of sketches was an error.  `pruned`: an item the repair took a ready timeline from.
* A sketch is `late` when its creation was applied after its importer had given it up: only such a one is a second
  sketch of one importer for a case.
* `seeded`, `broken`, `cut`, `fresh`: a platform gave nothing; a copy stopped half-way; a load left documents out,
  for its size or for a shard that failed; a search has shown an indicator only since the load.  `script.wanted` loses
  the event whose update was refused, and is empty when the load or the search left documents out.
* `unsettled`: an index that lost a copy or was created since the script last looked, or that the wait ran out
  without; each index for itself.  `exposed`: a shard that has lost its last started copy.

The exemptions also say what the code does not promise.  A token is renewed for an hour when an upload ends in its
last half second, and one asked for less than a minute lives for a minute; a revocation that loses the reply of a
delete leaves a token that can be used and is not listed.  Each upload has two documents once Logstash has written
its copy, and a DELETE removes one of them.  A case gets a second sketch when the list was an
error; the copies write test indicators to the production indices when a platform cannot be reached, and
events are then marked with them; the fallback of the script may write over a true mark within the five
seconds before the index is refreshed (`config/opensearch/index-templates/forensic-template.json:7`); and a red
index whose primaries have not started has a `docs.count` of null, so that `repair_red_indices` deletes an index
that still has its documents and prints that it was empty (`scripts/cluster_repair.py:180-184`).  `DeletedWasLost`
bounds that deletion: what is deleted with its documents had lost the last started copy of each shard that held some.

Each property of a passing run has a mutant in `PROJECT.json`: a change of one definition, as a plausible bug
would make it, under which TLC finds that property violated with that run's own configuration.

## 5. Bounds and why they are enough

* **Token.** Two overlapping uploads are the smallest case of every race on the record; the third lets one
  come before or after the pair, so that a limit of two can be reached, passed and tested again.  One
  revocation suffices for the races with an upload.  `MaxOutages` and `MaxRestarts` are one: a second outage
  repeats the first, and a second restart restores a snapshot whose content the first already could have had.
  The restart and the revocation are in different runs, since together they are beyond ten million states; the
  theorems cover the combination.
* **Pipeline.** Two uploads give the list an order and the worker a choice; one has each portal's answer.
  `MaxIncidents` is one per kind and `MaxKinds` one or two: a pair is enough for a job to be repeated and lost in the
  same behaviour, or for the repair to meet what an outage left.  The snapshot is taken at any time.  The run with two
  uploads leaves out the incidents of the stores and relays one of the two, and the run with all the incidents has one
  upload, to stay within a few million states; the theorems have neither limit.
* **Accounts.** Two names and three identifiers are the smallest case in which a name is freed, taken again
  and brought back by a stale file.  One pending write makes a stale file; that two of them overlap is left to
  the theorems.  `Enrolling` bounds who opens the second-factor page of the profile: the other accounts than
  the first administrator in the first run, nobody in the second, where no property mentions the factor.
* **Timesketch.** A report named like a case is the only way two importers meet on one sketch; a second case
  and pages of one sketch make a page that leaves the right sketch out.  `Retries` is two: the second attempt
  is the last, and a third repeats it.  One fault is one lost or refused call; the repair has its own run because
  its passes multiply the timelines.
* **TI.** `Window` is three documents: a value copied to its own index and the unified one by two copies
  gives four, so a load is cut.  Two passes of the copies let one fail after the other succeeded.  One event that carries
  a real and a test indicator has every kind of miss and of mark; that a pass has more events than `HitLimit`
  is left to the theorems.
* **Cluster.** Two shards make an index that is red and yet counts documents.  Three copies lost are needed for a
  shard to lose a replica, then its primary, beside a loss in the other shard; the deadlines of the waits may pass at
  any time.  One index is enough because each property speaks of one: the indices share only the waits and the
  report, which the theorems treat for any number of them.  Its name is a UUID in the run, so that it can be deleted both
  as a closed and as a red one; a closed dotted index is deleted as a closed UUID one is.

In the safety runs deadlock is not checked because users may stop at any time and the platform then rests.

## 6. Fairness

Four runs that pass need it (`token_live`, `ingest_incidents`, `ts_repair`, `cluster_repair`), and the one violation that
is temporal (`ingest_pending`).

* `ItToken`: weak fairness of each handler that has begun (Node runs it to its end), of `RedisUp` (the client library
  reconnects for ever), and of expiry with the half second before it (each record has a TTL and time passes).  Nothing
  forces a user, a fault, a snapshot or an eviction.
* `IngestPipeline`: weak fairness of the worker's `Pop` and of its turn (`while True` in `worker.py`, every
  error caught), of the return of Redis and OpenSearch (`restart: unless-stopped`), of each handler and
  deletion that has begun.  Nothing forces a client, an administrator, Logstash, a snapshot, the repair script or
  an incident.
* `TimesketchImport`: weak fairness of the worker's steps and of each export that has begun (its calls have
  time limits, its waits deadlines).  Timesketch's own indexing, the repair and the crashes are not fair:
  `ImportsEnd` holds although a timeline may never become ready.
* `ClusterRepair`: weak fairness of the script's steps and of its deadlines.  The cluster is not fair.

## 7. Proofs

TLC checks the instances above; the theorems hold for every value of the constants under the named
assumptions of the modules: limits and bounds are natural numbers, the sets of upload requests, indicators and events
are finite, files and reports are disjoint, the IT uploads and the text uploads are disjoint sets of uploads, the brief
tokens are tokens and the relayed uploads uploads, the named indices are indices, the first administrator is an
identifier, and the "nothing" values (`NoRecord`, `Nobody`, `NoAccount`, `NoWrite`) are not values.  They are as weak as
the code allows, and TLC evaluates them in every run.

* **ItTokenProofs** — `TypeCorrect`, `CountCorrect` (`UsesAreCounted`), `AdmissionCorrect`
  (`NoAdmissionOnceSpent`), `ExpiryCorrect` (`ExpiredStaysDead`), `ListedCorrect` (`UsableTokenIsListed`).
  The inductive invariant is `CountInv` = `TypeOK` ∧ `RequestsOK` ∧
  `UsesAreCounted` ∧ `NoAdmissionOnceSpent`.  `RequestsOK` is what the count rests on: an upload has its
  token and a well-formed copy, it is counted only once it is done, and a token that was not generated has no
  record, not even in the snapshot.  `UsesAreCounted` already speaks of the copies the uploads hold
  (their uses are the counted uploads plus one), since the record alone does not say what the next SETEX
  will write.  Cardinalities come from the theorems on finite sets, one counted upload at a time.
  The last two rest on `LiveInv` = `CountInv` ∧ `LifeInv` ∧ `RevokesOK` ∧ `ListedOK`: on a token that was
  neither written back nor rolled back a copy is held only while its record is there, so a SETEX never creates a
  record; and if it is not brief and its TTL was never read as 0 either, the record and its copies still have the TTL
  that ends with `expires_at`.  A record that was neither written back nor rolled back nor missed is in `it:tokens:all`
  and has its document or a revocation that still has it to purge, so the walk of the set finds it: each way a
  revocation may lose a document it has removed (no reply, a refused call, a portal that stops) has to put the token
  into `missed` for this to be inductive.
* **ItTokenLedgerProofs** — `LedgerKept` (`LedgerSpec`): the initial state of `ItToken` is one of `TokenLedger`, and
  each of its actions is a step of it or a stutter.  The proof stands on `LiveInv`. `ConsumeTtl` in the last half
  second is the step `Prolong`, and `ConsumeSetEx` may be a charge only because a copy is held only while its record
  lives (else the write would raise a dead token, which the ledger has no step for), and `Validate` is an admission
  below the limit because `UsesAreCounted` ties the record to the uploads already counted.
* **IngestPipelineProofs** — `TypeCorrect`, `Refinement` (`LifecycleSpec`), `JobCorrect` (`JobHasItsFile`),
  `HeldCorrect` (`ProcessingIsHeld`), `AccountedCorrect` (`QueuedIsAccounted`).  The inductive invariant is
  `IInv` = `TypeOK` ∧ `Recorded` ∧ `DocumentOrder` ∧ `WorkerOrder`: an incident still felt was counted, an
  upload has no document before its handler wrote one, Logstash holds no document it has written, a DELETE works on
  a listed document, and the worker is idle exactly when it has no job.  `JobHasItsFile` is not inductive: a job also
  enters the list from a handler, from the snapshot and from the repair script, for either document, so `FilesAreKept`
  claims the file for all of these.  The refinement maps each action to a step of `UploadLifecycle` or a stutter;
  `DocumentOrder` gives "listed once" for both entries and `WorkerOrder` "one turn at a time".
* **IngestPassesProofs** — `PassesCorrect` (`PassesAreBounded`).  `PassInv` = for every upload `ListBound` ∧
  `PassBound`: what the list and the snapshot hold of it is at most one job and one per repair; and what was
  bulk-indexed, and likewise what was sent to Logstash, with what is queued, in hand or still owed by the handler, is at
  most that number times the restarts of Redis and one.  A restart is counted when Redis stops and felt when it comes
  back with the snapshot, so between the two the bound is one factor lower.  The lemmas on `Times` (how often an upload
  is in a list that was pushed to or taken from) move occurrences by bijections of their positions, so no
  induction over the list is needed.
* **AuthStoreProofs** — `TypeCorrect` (`TypeOK`), `NamesCorrect` (`UniqueNames`), `AdminCorrect`
  (`ActiveAdminRemains`), `MfaCorrect` (`RequiredMfaIsAsked`), `AnswersCorrect` (`AnswersStand`).
  An invariant of `users.json` alone is not inductive, because a pending write replaces the whole file by an
  older one.  `IInv` = `TypeOK` ∧ `FilesSound` ∧ `AnswersSound`: what holds of the file holds of every copy
  a pending write still has (unique names, an enabled second factor has its secret, an active administrator,
  identifiers that were drawn), and a copy that is still fresh has exactly the accounts of the file plus the
  one its own operation adds.

* **TimesketchImportProofs** — `TypeCorrect`, `SketchCorrect` (`SketchPerCase`), `TimelineCorrect`
  (`OneTimelinePerFile`), `BackedCorrect` (`OkIsBacked`), `BadCorrect` (`BadIsExplained`).  None is inductive alone:
  the invariant adds what an import at work has already done, namely that its sketch is one of its case, its timeline
  one of its file, that a file without a doubtful upload has no timeline while its upload is still to come, and that a
  verdict about to be recorded has the timeline, or the cause, that the property asks for.  `PendingOK` says of the
  creations still to be applied what `SketchPerCase` will say of their sketches.
  `ImportsCorrect` (`ImportsAdvance`) is the part of `ImportsEnd` that a proof can reach: every step of an importer
  lowers `Distance`, a natural number because the attempts stay below `Retries` (`TriesOK`).  What it leaves to TLC is
  that an import that has not ended can always take a step.
* **TiEnrichmentProofs** — `TypeCorrect`, `GenuineCorrect` (`MatchIsGenuine`), `MissCorrect` (`MissIsExplained`),
  `UnifiedCorrect` (`UnifiedFollows`), `PassCorrect` (`PassLeavesNone`).  `Traced` claims the origin not only for
  the marks but for everything on the way to one: what a copy holds, what an index stores and a search shows, the cache,
  the batch and the cache of the script.  `CacheFollows` says what the cache lacks of what a search shows, which the
  batch inherits.  `Passing` says of an event the pass has to mark that it is a hit still to come or marked already, and
  that the cache of the pass has a value for it; it needs `Placed`, that a hit is stored, so that the worker, which
  writes only events that are not, never takes a mark away.
* **ClusterRepairProofs** — `TypeCorrect`, `ExitCorrect` (`ExitIsSound`), `DeletionCorrect` (`DeletedWasLost`),
  `TuningCorrect` (`ReplicasGivenUpLate`).  `VerdictIsSound` carries "every primary has started" from the read of the
  health to the exit, for each index that neither lost a copy nor was created since; `HeldIsSafe` says that documents
  are in started primaries or in shards that have lost their last copy, so that the list, which counts nothing in what
  it dooms, dooms nothing else (`DoomedWasLost`), whatever happens before the deletion; `TuningHasCause` says that what
  the wait leaves without its replicas, and what goes missing up to the PUT, is in `unsettled`.

**Only model-checked**: the liveness properties `RevokedEventuallyDead`, `JobsAreDrained`, `AcceptedSettles`,
`ImportsEnd` and `RunEnds`.

**Out of the prover's reach** and so left to TLC: liveness under fairness and `ENABLED`; what a recursive
definition computes for every input, which needs induction with an operator parameter; and modules with
`RECURSIVE` operators, of which this project has none.

## 8. Abstractions and what is not modelled

Within the modelled components:

* *Token.* The case and uploader fields, the audit messages and the statistics are left out.  The
  document is never updated by a consumption, so listings show a spent token as unused: that is
  by construction and has no property.  Wall-clock time is `ending`, `due` and the end of records with a TTL of
  their own; that a TTL in whole seconds may end up to half a second beside `expires_at` is not told apart.
  The branch that answers TOKEN_EXHAUSTED is kept (`Refusal`), though a record that reached its limit
  also has the status that is refused before it.
* *Pipeline.* A file is its upload; parsing and bulk-indexing are one step that may write nothing, all
  or some and then succeed or fail; the Timesketch import is one step with three outcomes.  MinIO failures
  are nondeterministic.  Events that are sent to Logstash and that pipeline 40 writes to `forensic-uploads-*` are lines
  without a storage field and without a status that any of the code reads; they are left out, and so are the HELK push
  and the index purges of POST `/api/purge`.
* *Accounts.* Passwords are a Boolean, TOTP codes are right when the user has the secret.  Not
  modelled: portal settings, `portalScope`, the second-factor fields an administrator's PATCH may carry but
  the portal's pages never send, expiry of invitations and of cookies, the choice of the legacy API gate,
  a `users.json` that cannot be read.  An invited account that opens
  `/mfa/setup` again and leaves it there cannot log in any more, since its invitation is used up: this
  lockout is in the model (`MfaRefusesLogin`) and no property excludes it.

* *Timesketch.* The text of the CSV, the search terms of the verification and the steps of the repair script after the
  requeueing are left out; the reads of the verification are merged.  A file whose upload is not answered in time
  reaches Timesketch before the next attempt or never.  The recording of the result always succeeds here: that its
  write may fail in silence (`ingest-worker/worker.py:171`) is in the step `Close` of IngestPipeline.
  `repair_timesketch_sketch.sh` reads `bucket` and `key` where the portals do not write them (`:88`) and so repairs
  nothing: the model has `repair-timesketch.sh`.
* *TI.* Indicators are values and events carry a set of them, so the extraction of candidates from a text, the types
  of indicators and the limit on candidates are left out; so are the preparation of a day's index and its aliases,
  the limits on what a platform returns, the age of seven days of the events a pass looks at and the ingest pipeline
  `fp-ti-match`.
* *Cluster.* The health and the list of shards of the tuning are one read.  `reroute_retry` is left out: it sends
  `retry_failed` as a command of the body (`scripts/cluster_repair.py:65`), which OpenSearch refuses, and it does not
  read the answer.  The refresh of the index patterns is left out: `main` does not read its result.

Not modelled, by component:

* **HELK connector and bridge**: periodic copies without an identifier.  Each pass indexes its documents again
  (`helk/scripts/helk_bridge.py:118`), as does the bulk fallback after a lost answer (`lib/helk-connector.js:90`); a
  copy cannot be told from a second event, so there is no property to state.
* **Velociraptor bridge and exports**: one sequential call without a state that outlives it; its `ok` is the
  collection's alone (`velociraptor/export/vraptor_bridge.py:102`).
* **Threat platforms proxy**, **health and services status**: caches in RAM that nothing else reads.  The first
  leaves two parameters out of its key (`portal-cert/lib/threat-v2-proxy.js:34`).
* **Parsers and normaliser**: functions of the content of a file, which the models abstract.
* **Installer and network repair**: a sequence of Docker commands; the state it changes is Docker's, and a model
  would be one of Docker.  Its last test checks that a subnet exists and not which (`scripts/lib/installer.sh:753`).
* **Logstash pipelines**: what pipelines 40 and 50 index of the sends of portals and worker is in IngestPipeline; the
  other filters route and enrich events, without a state.
* **Audit log, master routes and UI error log**: append-only files and read-only queries, no state of theirs
  decides anything.
* **Portal pages**: their texts are used as claims to check.
* **Configuration, dashboards, rules and vendored content**: data; `docker-compose.yml` is read for the restart
  policies and the limits of Redis.
* **Set-up and verification scripts**: some three hundred one-shot sequences against a running platform.

## 9. Running the checks

```
tlc -config ItTokenRace.cfg MCItToken       # and likewise for each run of PROJECT.json
tlapm ItTokenProofs.tla                     # and likewise for each module named ...Proofs
```
