---------------------------- MODULE IngestPipeline ----------------------------
(***************************************************************************)
(* The path of an uploaded file from the two portals to the ingest worker: *)
(* object in MinIO, document in the index forensic-uploads, job in the     *)
(* Redis list fp:ingest:queue, turn of the single worker, verdict written  *)
(* back to the document; and the DELETE that removes an upload meanwhile.  *)
(* Portals and worker send the document and the events to Logstash too,    *)
(* which indexes them once more, at a time of its own: an upload may have  *)
(* a second document, its copy, in forensic-uploads-<date>. The calls to a *)
(* store are steps of their own; a send to Logstash is taken together with *)
(* the call before it, since only what Logstash writes is seen.            *)
(* What goes wrong around them (a crash, a restart, an outage, a lost      *)
(* reply, an eviction, the repair script) is an incident; the              *)
(* configuration says which incidents may happen and how often.            *)
(***************************************************************************)
EXTENDS Naturals, Sequences, SequencesExt

CONSTANTS
  Uploads,       \* the uploads, one per file received
  It,            \* those received by the IT portal; the others by the CERT
  Text,          \* those the CERT portal can parse itself: text, below 50 MB
  Relayed,       \* those whose messages may reach Logstash
  Nobody,        \* the worker's job when it has none
  Incidents,     \* the kinds of incident that may happen
  MaxKinds,      \* how many kinds of incident may happen in one behaviour
  MaxIncidents   \* how often each kind may happen

Kinds == {"portalCrash", "workerCrash", "redisRestart", "eviction",
          "lostReply", "osOutage", "repair"}

ASSUME ItAssumption == It \subseteq Uploads
ASSUME TextAssumption == Text \subseteq Uploads \ It
ASSUME RelayedAssumption == Relayed \subseteq Uploads
ASSUME NobodyAssumption == Nobody \notin Uploads
ASSUME IncidentsAssumption == Incidents \subseteq Kinds /\ MaxKinds \in Nat /\ MaxIncidents \in Nat

VARIABLES
  request,     \* where the portal is with the upload, or what it answered
  objects,     \* the uploads whose file is in MinIO
  row,         \* ingest_status of the upload's document; "pending" before any
  timesketch,  \* the document's timesketch.ok, "none" without the field
  outbox,      \* the uploads whose document Logstash has and has not written
  copy,        \* ingest_status of the copy that Logstash wrote
  removal,     \* where a DELETE of the upload is
  aim,         \* which of the two documents that DELETE has found
  queue,       \* the Redis list: LPUSH at the head, BRPOP at the end
  saved,       \* the list in the last RDB snapshot
  redisUp,     \* Redis answers
  osUp,        \* OpenSearch answers
  worker,      \* [at, job, verdict, ts]: the worker's place in process_job
  indexed,     \* how many times the events of the file were bulk-indexed
  relayed,     \* how many times they were sent to Logstash
  count        \* how often each kind of incident has happened

portalVars == <<request, removal, aim>>
copyVars == <<outbox, copy>>
eventVars == <<indexed, relayed>>
storeVars == <<objects, row, timesketch, copyVars, eventVars>>
redisVars == <<queue, saved, redisUp>>
vars == <<portalVars, storeVars, redisVars, osUp, worker, count>>

Running == {"stored", "listed", "parsing"}
Answers == {"queued", "kept", "pending", "parsed", "error"}
Listed == {"pending", "processing", "completed", "failed"}
Status == Listed \cup {"none", "deleted"}
Places == {"idle", "taken", "fetching", "bulk", "importing", "closing"}
WorkerState == [at : Places, job : Uploads \cup {Nobody},
                verdict : {"completed", "failed"}, ts : {"none", "ok", "ko"}]
Idle == [at |-> "idle", job |-> Nobody, verdict |-> "failed", ts |-> "none"]

Init ==
  /\ request = [u \in Uploads |-> "new"]
  /\ objects = {}
  /\ row = [u \in Uploads |-> "none"]
  /\ timesketch = [u \in Uploads |-> "none"]
  /\ outbox = {}
  /\ copy = [u \in Uploads |-> "none"]
  /\ removal = [u \in Uploads |-> "none"]
  /\ aim = [u \in Uploads |-> "row"]
  /\ queue = <<>> /\ saved = <<>> /\ redisUp = TRUE
  /\ osUp = TRUE
  /\ worker = Idle
  /\ indexed = [u \in Uploads |-> 0]
  /\ relayed = [u \in Uploads |-> 0]
  /\ count = [k \in Kinds |-> 0]

\* One more incident of kind k, if the configuration allows it.
Incident(k) ==
  /\ k \in Incidents
  /\ count[k] < MaxIncidents
  /\ Cardinality({j \in Kinds : count[j] > 0} \cup {k}) <= MaxKinds
  /\ count' = [count EXCEPT ![k] = count[k] + 1]

(***************************************************************************)
(* The upload handlers of the two portals                                  *)
(***************************************************************************)
Moves(u, from, to) ==
  /\ request[u] = from
  /\ request' = [request EXCEPT ![u] = to]

AfterPutErrorIgnored(u) == "stored"  \* mutant: the failure of the store is swallowed
\* PutObject rejects: the catch of the file's block answers ok = false.
AfterPutError(u) == "error"

Put(u) ==
  /\ request[u] = "new"
  /\ \/ /\ request' = [request EXCEPT ![u] = "stored"]
        /\ objects' = objects \cup {u}
     \/ /\ request' = [request EXCEPT ![u] = AfterPutError(u)]
        /\ \/ UNCHANGED objects
           \/ objects' = objects \cup {u}  \* stored, but the answer was lost
  /\ UNCHANGED <<removal, aim, row, timesketch, copyVars, eventVars, redisVars, osUp, worker, count>>

\* os.index(...).catch(() => {}): without OpenSearch the upload has no document.
\* sendToLogstash(metaDoc) follows in any case, and nobody reads its result.
IndexDocument(u) ==
  /\ Moves(u, "stored", "listed")
  /\ row' = [row EXCEPT ![u] = IF osUp THEN "pending" ELSE "none"]
  /\ \/ UNCHANGED outbox
     \/ u \in Relayed /\ outbox' = outbox \cup {u}
  /\ UNCHANGED <<removal, aim, objects, timesketch, copy, eventVars, redisVars, osUp, worker, count>>

Pushed(u) == <<u>> \o queue

EnqueuePushes(u) ==
  /\ redisUp
  /\ Moves(u, "listed", "queued")
  /\ queue' = Pushed(u)
  /\ UNCHANGED <<removal, aim, storeVars, saved, redisUp, osUp, worker, count>>

AfterPushErrorFallback(u) == IF u \in Text THEN "parsing" ELSE "error"  \* mutant: an error of LPUSH counts as "not queued"
\* lPush rejects: the catch of the file's block answers ok = false, nothing else.
AfterPushError(u) == "error"

\* The connection drops during LPUSH: Redis may have executed it or not.
EnqueueThrows(u) ==
  /\ Incident("lostReply")
  /\ Moves(u, "listed", AfterPushError(u))
  /\ \/ UNCHANGED queue
     \/ redisUp /\ queue' = Pushed(u)
  /\ UNCHANGED <<removal, aim, storeVars, saved, redisUp, osUp, worker>>

\* redis.isReady is false: nothing is queued. The CERT portal parses a small
\* text file itself and promises an asynchronous ingestion for any other.
NotReadyAnswer(u) ==
  IF u \in It THEN "kept" ELSE IF u \in Text THEN "parsing" ELSE "pending"

\* The client may still be reconnecting after Redis is back.
EnqueueNotReady(u) ==
  /\ redisUp => count["redisRestart"] > 0
  /\ Moves(u, "listed", NotReadyAnswer(u))
  /\ UNCHANGED <<removal, aim, storeVars, redisVars, osUp, worker, count>>

\* parseAndIndex: a batch that OpenSearch refuses is dropped in silence.
ParseHere(u) ==
  /\ Moves(u, "parsing", "parsed")
  /\ indexed' = [indexed EXCEPT ![u] = IF osUp THEN indexed[u] + 1 ELSE indexed[u]]
  /\ UNCHANGED <<removal, aim, objects, row, timesketch, copyVars, relayed, redisVars, osUp, worker, count>>

(***************************************************************************)
(* DELETE /api/uploads/:docId, and the same calls for each hit of a purge  *)
(***************************************************************************)
\* get by id refuses the wildcard forensic-uploads*, so the handler searches
\* with size 1: it finds one document of the upload, its own or the copy.
FindRemoved(u) ==
  /\ osUp
  /\ removal[u] \in {"none", "failed"}
  /\ removal' = [removal EXCEPT ![u] = "found"]
  /\ \/ row[u] \in Listed /\ aim' = [aim EXCEPT ![u] = "row"]
     \/ copy[u] \in Listed /\ aim' = [aim EXCEPT ![u] = "copy"]
  /\ UNCHANGED <<request, storeVars, redisVars, osUp, worker, count>>

\* DeleteObject(...).catch(() => {}): a failure of MinIO leaves the file.
RemoveObject(u) ==
  /\ removal[u] = "found"
  /\ removal' = [removal EXCEPT ![u] = "unstored"]
  /\ \/ objects' = objects \ {u}
     \/ UNCHANGED objects
  /\ UNCHANGED <<request, aim, row, timesketch, copyVars, eventVars, redisVars, osUp, worker, count>>

\* Only the document that was found goes.
RemoveDocument(u) ==
  /\ removal[u] = "unstored"
  /\ \/ /\ osUp
        /\ removal' = [removal EXCEPT ![u] = "none"]
        /\ \/ aim[u] = "row" /\ row' = [row EXCEPT ![u] = "deleted"] /\ UNCHANGED copy
           \/ aim[u] = "copy" /\ copy' = [copy EXCEPT ![u] = "deleted"] /\ UNCHANGED row
     \/ /\ ~osUp
        /\ removal' = [removal EXCEPT ![u] = "failed"]
        /\ UNCHANGED <<row, copy>>
  /\ aim' = [aim EXCEPT ![u] = "row"]
  /\ UNCHANGED <<request, objects, timesketch, outbox, eventVars, redisVars, osUp, worker, count>>

(***************************************************************************)
(* Logstash                                                                *)
(***************************************************************************)
\* Pipeline 40 writes the document to forensic-uploads-<date>, under an id of
\* its own; it may also never do so.
Mirror(u) ==
  /\ osUp /\ u \in outbox
  /\ outbox' = outbox \ {u}
  /\ copy' = [copy EXCEPT ![u] = "pending"]
  /\ UNCHANGED <<portalVars, objects, row, timesketch, eventVars, redisVars, osUp, worker, count>>

(***************************************************************************)
(* The worker: one process, one job at a time                              *)
(***************************************************************************)
Job == worker.job
Goes(place) == worker' = [worker EXCEPT !.at = place]
Ends(verdict, ts) ==
  worker' = [at |-> "closing", job |-> Job, verdict |-> verdict, ts |-> ts]

TakenKept == queue  \* mutant: the job is read without being removed
\* BRPOP removes the entry it returns: nothing acknowledges the job later.
Taken == Front(queue)

Pop ==
  /\ redisUp /\ queue # <<>>
  /\ worker.at = "idle"
  /\ worker' = [Idle EXCEPT !.at = "taken", !.job = Last(queue)]
  /\ queue' = Taken
  /\ UNCHANGED <<portalVars, storeVars, saved, redisUp, osUp, count>>

\* Redis has removed the entry but the connection drops before the reply.
PopReplyLost ==
  /\ Incident("lostReply")
  /\ redisUp /\ queue # <<>>
  /\ worker.at = "idle"
  /\ queue' = Taken
  /\ UNCHANGED <<portalVars, storeVars, saved, redisUp, osUp, worker>>

UpdatedOrCreated(u, s) == [row EXCEPT ![u] = IF osUp THEN s ELSE row[u]]  \* mutant: doc_as_upsert
\* update_upload_doc writes to a document that exists; a failure is logged.
Updated(u, s) ==
  [row EXCEPT ![u] = IF osUp /\ row[u] \in Listed THEN s ELSE row[u]]
\* When the update by id raises, as it does once the document is deleted, an
\* update by query writes the status to every document of the upload it sees.
CopyUpdates(u, s) ==
  {copy} \cup {[copy EXCEPT ![v] = s] : v \in {u} \cap {w \in Uploads : osUp /\ copy[w] \in Listed}}

MarkProcessing ==
  /\ worker.at = "taken"
  /\ row' = Updated(Job, "processing")
  /\ copy' \in CopyUpdates(Job, "processing")
  /\ Goes("fetching")
  /\ UNCHANGED <<portalVars, objects, timesketch, outbox, eventVars, redisVars, osUp, count>>

Fetch ==
  /\ worker.at = "fetching"
  /\ \/ Job \in objects /\ Goes("bulk")
     \/ Ends("failed", "none")
  /\ UNCHANGED <<portalVars, storeVars, redisVars, osUp, count>>

\* parse_file, bulk_index and send_to_logstash. The bulk may write events and
\* still raise on a later chunk, and may return with every item refused
\* (raise_on_error=False). What is sent Logstash indexes again, by pipeline 50
\* and perhaps by pipeline 40 too; without a connection nothing is sent.
ParseAndBulk ==
  /\ worker.at = "bulk"
  /\ \E written, sent \in BOOLEAN :
       /\ written => osUp
       /\ sent => Job \in Relayed
       /\ indexed' = [indexed EXCEPT ![Job] = IF written THEN indexed[Job] + 1 ELSE indexed[Job]]
       /\ relayed' = [relayed EXCEPT ![Job] = IF sent THEN relayed[Job] + 1 ELSE relayed[Job]]
       /\ Goes("importing") \/ (Ends("failed", "none") /\ ~sent)
  /\ UNCHANGED <<portalVars, objects, row, timesketch, copyVars, redisVars, osUp, count>>

Import ==
  /\ worker.at = "importing"
  /\ \/ \E ts \in {"none", "ok", "ko"} : Ends("completed", ts)
     \/ Ends("failed", "none")
  /\ UNCHANGED <<portalVars, storeVars, redisVars, osUp, count>>

FinalRowCompletedOnly ==  \* mutant: the except clause only logs
  IF worker.verdict = "completed" THEN Updated(Job, "completed") ELSE row
FinalRowOfResult == Updated(Job, worker.ts)  \* mutant: the Timesketch result is written as the status
FinalRow == Updated(Job, worker.verdict)

\* The last update. The update by query writes the status alone, so that the
\* Timesketch result is lost with it.
Close ==
  /\ worker.at = "closing"
  /\ row' = FinalRow
  /\ \/ /\ osUp /\ row[Job] \in Listed /\ worker.verdict = "completed"
        /\ timesketch' = [timesketch EXCEPT ![Job] = worker.ts]
        /\ UNCHANGED copy
     \/ copy' \in CopyUpdates(Job, worker.verdict) /\ UNCHANGED timesketch
  /\ worker' = Idle
  /\ UNCHANGED <<portalVars, objects, outbox, eventVars, redisVars, osUp, count>>

(***************************************************************************)
(* Redis, OpenSearch and the incidents                                     *)
(***************************************************************************)
\* A snapshot matters only to a Redis that may restart.
Save ==
  /\ redisUp /\ "redisRestart" \in Incidents
  /\ saved' = queue
  /\ UNCHANGED <<portalVars, storeVars, queue, redisUp, osUp, worker, count>>

RedisStop ==
  /\ redisUp
  /\ Incident("redisRestart")
  /\ redisUp' = FALSE
  /\ UNCHANGED <<portalVars, storeVars, queue, saved, osUp, worker>>

RedisStart ==
  /\ ~redisUp
  /\ redisUp' = TRUE
  /\ queue' = saved
  /\ UNCHANGED <<portalVars, storeVars, saved, osUp, worker, count>>

\* maxmemory-policy allkeys-lru: the list is a key like any other.
Evict ==
  /\ redisUp /\ queue # <<>>
  /\ Incident("eviction")
  /\ queue' = <<>>
  /\ UNCHANGED <<portalVars, storeVars, saved, redisUp, osUp, worker>>

OsStop ==
  /\ osUp
  /\ Incident("osOutage")
  /\ osUp' = FALSE
  /\ UNCHANGED <<portalVars, storeVars, redisVars, worker>>

OsStart ==
  /\ ~osUp
  /\ osUp' = TRUE
  /\ UNCHANGED <<portalVars, storeVars, redisVars, worker, count>>

\* restart: unless-stopped brings the worker back without the job it held.
WorkerCrash ==
  /\ worker.at # "idle"
  /\ Incident("workerCrash")
  /\ worker' = Idle
  /\ UNCHANGED <<portalVars, storeVars, redisVars, osUp>>

\* A portal dies with the requests it was serving; DELETE is the CERT portal's.
PortalCrash(portal) ==
  LET served == IF portal = "it" THEN It ELSE Uploads \ It
      uploading == {u \in served : request[u] \in Running}
      removing == {u \in Uploads : portal = "cert" /\ removal[u] \in {"found", "unstored"}}
  IN /\ uploading \cup removing # {}
     /\ Incident("portalCrash")
     /\ request' = [u \in Uploads |-> IF u \in uploading THEN "dead" ELSE request[u]]
     /\ removal' = [u \in Uploads |-> IF u \in removing THEN "failed" ELSE removal[u]]
     /\ UNCHANGED <<aim, storeVars, redisVars, osUp, worker>>

\* scripts/repair-timesketch.sh queues again what failed, what Timesketch
\* refused and what completed without a Timesketch result: a job for each such
\* document, and the copy has the storage fields and never a Timesketch result.
ToRepair(status, ts) ==
  /\ status \in Listed
  /\ status = "failed" \/ ts = "ko" \/ (status = "completed" /\ ts = "none")

Repair(u) ==
  /\ redisUp /\ osUp
  /\ ToRepair(row[u], timesketch[u]) \/ ToRepair(copy[u], "none")
  /\ Incident("repair")
  /\ queue' = Pushed(u)
  /\ UNCHANGED <<portalVars, storeVars, saved, redisUp, osUp, worker>>

Handler(u) ==
  \/ Put(u) \/ IndexDocument(u)
  \/ EnqueuePushes(u) \/ EnqueueThrows(u) \/ EnqueueNotReady(u) \/ ParseHere(u)

Delete(u) == FindRemoved(u) \/ RemoveObject(u) \/ RemoveDocument(u)

Turn == MarkProcessing \/ Fetch \/ ParseAndBulk \/ Import \/ Close

Next ==
  \/ \E u \in Uploads : Handler(u) \/ Delete(u) \/ Mirror(u) \/ Repair(u)
  \/ Pop \/ PopReplyLost \/ Turn \/ WorkerCrash
  \/ \E portal \in {"it", "cert"} : PortalCrash(portal)
  \/ Save \/ RedisStop \/ RedisStart \/ Evict \/ OsStop \/ OsStart

Spec == Init /\ [][Next]_vars

\* The containers restart (restart: unless-stopped) and the worker's loop goes
\* on; nothing forces a client, an administrator, Logstash, a snapshot or an
\* incident.
Fairness ==
  /\ WF_vars(Pop) /\ WF_vars(Turn)
  /\ WF_vars(RedisStart) /\ WF_vars(OsStart)
  /\ \A u \in Uploads : /\ WF_vars(request[u] \in Running /\ Handler(u))
                        /\ WF_vars(RemoveObject(u) \/ RemoveDocument(u))

FairSpec == Spec /\ Fairness

(***************************************************************************)
(* Properties                                                              *)
(***************************************************************************)
\* Every variable stays within the states the code gives it.
TypeOK ==
  /\ request \in [Uploads -> {"new", "dead"} \cup Running \cup Answers]
  /\ removal \in [Uploads -> {"none", "found", "unstored", "failed"}]
  /\ aim \in [Uploads -> {"row", "copy"}]
  /\ objects \subseteq Uploads
  /\ row \in [Uploads -> Status]
  /\ timesketch \in [Uploads -> {"none", "ok", "ko"}]
  /\ outbox \subseteq Uploads
  /\ copy \in [Uploads -> Status]
  /\ indexed \in [Uploads -> Nat] /\ relayed \in [Uploads -> Nat]
  /\ queue \in Seq(Uploads) /\ saved \in Seq(Uploads)
  /\ redisUp \in BOOLEAN /\ osUp \in BOOLEAN
  /\ worker \in WorkerState
  /\ count \in [Kinds -> Nat]

Waits(u) == u \in Range(queue)
\* How often u is in a list of jobs.
Times(list, u) == Cardinality({i \in DOMAIN list : list[i] = u})
Holds(u) == worker.job = u
\* How many more passes the file of u may still have.
Owed(u) ==
  Times(queue, u)
  + (IF Holds(u) /\ worker.at \in {"taken", "fetching", "bulk"} THEN 1 ELSE 0)
  + (IF request[u] \in {"new"} \cup Running THEN 1 ELSE 0)

\* bulk_index gives its events no id, so a file that is processed twice is
\* searchable twice; and what the worker sends to Logstash is indexed again there
\* (50-upload-content.conf:9 excludes only a third copy, by pipeline 40). A file
\* has one such pass: the portal's own parsing, the queue and the worker make it
\* together, whatever reply is lost. Only the repair script and a Redis that
\* restarts from an old snapshot add passes, one for each job they add.
PassesAreBounded ==
  \A u \in Uploads :
    LET passes == (1 + count["repair"]) * (1 + count["redisRestart"])
    IN indexed[u] + Owed(u) <= passes /\ relayed[u] + Owed(u) <= passes

\* The portal stores before it queues, so a job finds its file in MinIO unless
\* a DELETE took the file away; then one of the upload's documents goes, its own
\* or the copy, or the DELETE failed.
JobHasItsFile ==
  \A u \in Uploads :
    Waits(u) /\ u \notin objects =>
      removal[u] # "none" \/ row[u] = "deleted" \/ copy[u] = "deleted"

Lossy == {"workerCrash", "redisRestart", "eviction", "lostReply", "osOutage"}

\* An upload the portal answered "ingest_queued" for is in the list, at the
\* worker or settled in the document: nothing but the named incidents loses a
\* job, neither a crash of a portal nor the repair script nor a DELETE.
QueuedIsAccounted ==
  \A u \in Uploads :
    request[u] = "queued" =>
      \/ Waits(u)
      \/ Holds(u)
      \/ row[u] \in {"completed", "failed", "deleted"}
      \/ \E k \in Lossy : count[k] > 0

\* An upload listed as "processing" is in the worker's hands, unless the worker
\* died on it or OpenSearch could not take the verdict.
ProcessingIsHeld ==
  \A u \in Uploads :
    row[u] = "processing" =>
      Holds(u) \/ count["workerCrash"] > 0 \/ count["osOutage"] > 0

\* The pipeline implements the life cycle the list of uploads shows.
Lifecycle == INSTANCE UploadLifecycle WITH status <- row, holder <- worker.job
LifecycleSpec == Lifecycle!Spec

\* No job stays in the list for ever: it is taken, or lost with the list.
JobsAreDrained == \A u \in Uploads : Waits(u) ~> ~Waits(u)

\* What was answered "ingest_queued" gets a verdict in its document or is
\* deleted before, unless an incident that loses jobs has happened.
AcceptedSettles ==
  \A u \in Uploads :
    request[u] = "queued" ~>
      \/ row[u] \in {"completed", "failed", "deleted"}
      \/ \E k \in Lossy : count[k] > 0

\* portal-cert/server.js:365 answers "ingestion asynchrone en attente (Redis)"
\* for a file it could not queue: such a file is processed at some time, unless
\* its upload is deleted.
PendingIsIngested ==
  \A u \in Uploads :
    request[u] = "pending" ~> indexed[u] > 0 \/ row[u] = "deleted"

=============================================================================
