------------------------- MODULE IngestPipelineProofs -------------------------
(***************************************************************************)
(* Proofs about IngestPipeline, for every set of uploads, every kind of    *)
(* incident and every bound on their number: where a job and its file are, *)
(* and that the pipeline implements UploadLifecycle.                       *)
(***************************************************************************)
EXTENDS IngestPipeline, SequenceTheorems, TLAPS

USE DEF copyVars, eventVars

\* The incidents that are still felt have been counted.
Recorded ==
  /\ ~osUp => count["osOutage"] > 0
  /\ ~redisUp => count["redisRestart"] > 0

\* An upload has no document before its handler indexes it, its copy is written
\* once, and a DELETE works on a document that is listed.
DocumentOrder ==
  \A u \in Uploads :
    /\ request[u] \in {"new", "stored"} => row[u] = "none" /\ copy[u] = "none" /\ u \notin outbox
    /\ u \in outbox => copy[u] = "none"
    /\ removal[u] \in {"found", "unstored"} =>
         /\ aim[u] = "row" => row[u] \in Listed
         /\ aim[u] = "copy" => copy[u] \in Listed
    /\ request[u] \in {"listed", "queued"} /\ row[u] = "none" => count["osOutage"] > 0

WorkerOrder == worker.at = "idle" <=> worker.job = Nobody

\* The file of u is in MinIO, or a DELETE began with it.
FileOrGone(u) ==
  u \in objects \/ removal[u] # "none" \/ row[u] = "deleted" \/ copy[u] = "deleted"

\* Whatever may put u in the list finds its file there.
FilesAreKept ==
  \A u \in Uploads :
    (\/ Waits(u) \/ u \in Range(saved) \/ request[u] \in {"stored", "listed"}
     \/ row[u] \in Listed \/ u \in outbox \/ copy[u] \in Listed)
      => FileOrGone(u)

IInv == TypeOK /\ Recorded /\ DocumentOrder /\ WorkerOrder

-----------------------------------------------------------------------------
(***************************************************************************)
(* The Redis list: what LPUSH adds and BRPOP takes                         *)
(***************************************************************************)
LEMMA PushedList ==
  ASSUME NEW u \in Uploads, queue \in Seq(Uploads)
  PROVE  /\ Pushed(u) \in Seq(Uploads)
         /\ Range(Pushed(u)) = Range(queue) \cup {u}
<1>1. /\ Pushed(u) \in Seq(Uploads)
      /\ Len(Pushed(u)) = Len(queue) + 1
      /\ Pushed(u)[1] = u
      /\ \A i \in 1 .. Len(queue) : Pushed(u)[i + 1] = queue[i]
  BY DEF Pushed
<1>2. /\ DOMAIN Pushed(u) = 1 .. Len(queue) + 1
      /\ DOMAIN queue = 1 .. Len(queue)
      /\ Len(queue) \in Nat
  BY <1>1
<1>3. ASSUME NEW v \in Range(Pushed(u)) PROVE v \in Range(queue) \cup {u}
  <2>1. PICK i \in 1 .. Len(queue) + 1 : v = Pushed(u)[i]
    BY <1>2 DEF Range
  <2>2. CASE i = 1
    BY <2>1, <2>2, <1>1
  <2>3. CASE i # 1
    <3>1. i - 1 \in 1 .. Len(queue) /\ (i - 1) + 1 = i
      BY <2>1, <2>3, <1>2
    <3>2. v = queue[i - 1]
      BY <3>1, <2>1, <1>1
    <3>3. QED
      BY <3>1, <3>2, <1>2 DEF Range
  <2>4. QED
    BY <2>2, <2>3
<1>4. u \in Range(Pushed(u))
  <2>1. 1 \in DOMAIN Pushed(u)
    BY <1>2
  <2>2. QED
    BY <2>1, <1>1 DEF Range
<1>5. ASSUME NEW v \in Range(queue) PROVE v \in Range(Pushed(u))
  <2>1. PICK i \in 1 .. Len(queue) : v = queue[i]
    BY <1>2 DEF Range
  <2>2. i + 1 \in DOMAIN Pushed(u) /\ Pushed(u)[i + 1] = v
    BY <2>1, <1>1, <1>2
  <2>3. QED
    BY <2>2 DEF Range
<1>6. QED
  BY <1>1, <1>3, <1>4, <1>5

LEMMA TakenList ==
  ASSUME queue \in Seq(Uploads), queue # <<>>
  PROVE  /\ Taken \in Seq(Uploads)
         /\ Last(queue) \in Range(queue)
         /\ Range(queue) = Range(Taken) \cup {Last(queue)}
<1>1. Len(queue) \in Nat \ {0} /\ DOMAIN queue = 1 .. Len(queue)
  BY EmptySeq
<1>2. /\ Taken \in Seq(Uploads)
      /\ Len(Taken) = Len(queue) - 1
      /\ \A i \in 1 .. Len(queue) - 1 : Taken[i] = queue[i]
  BY <1>1 DEF Taken, Front
<1>3. DOMAIN Taken = 1 .. Len(queue) - 1
  BY <1>2
<1>4. Last(queue) \in Range(queue)
  BY <1>1 DEF Last, Range
<1>5. ASSUME NEW v \in Range(Taken) PROVE v \in Range(queue)
  <2>1. PICK i \in 1 .. Len(queue) - 1 : v = Taken[i]
    BY <1>3 DEF Range
  <2>2. i \in DOMAIN queue /\ v = queue[i]
    BY <2>1, <1>1, <1>2
  <2>3. QED
    BY <2>2 DEF Range
<1>6. ASSUME NEW v \in Range(queue), v # Last(queue) PROVE v \in Range(Taken)
  <2>1. PICK i \in 1 .. Len(queue) : v = queue[i]
    BY <1>1 DEF Range
  <2>2. i # Len(queue)
    BY <2>1, <1>6 DEF Last
  <2>3. i \in 1 .. Len(queue) - 1
    <3>1. \A n \in Nat : \A j \in 1 .. n : j # n => j \in 1 .. n - 1
      OBVIOUS
    <3>2. Len(queue) \in Nat
      BY <1>1
    <3>3. QED
      BY <2>2, <3>1, <3>2
  <2>4. i \in DOMAIN Taken /\ v = Taken[i]
    BY <2>1, <2>3, <1>2, <1>3
  <2>5. QED
    BY <2>4 DEF Range
<1>7. QED
  BY <1>2, <1>4, <1>5, <1>6

LEMMA ListIsOfUploads ==
  ASSUME NEW s \in Seq(Uploads)
  PROVE  Range(s) \subseteq Uploads
BY DEF Range

-----------------------------------------------------------------------------
(***************************************************************************)
(* Types                                                                   *)
(***************************************************************************)
LEMMA IncidentCounts ==
  ASSUME TypeOK, NEW k, Incident(k)
  PROVE  /\ k \in Kinds
         /\ count' \in [Kinds -> Nat]
         /\ count'[k] > 0
         /\ \A j \in Kinds : count[j] > 0 => count'[j] > 0
BY IncidentsAssumption DEF TypeOK, Incident

LEMMA HandlerTypeOK ==
  ASSUME TypeOK, NEW u \in Uploads, Handler(u)
  PROVE  TypeOK'
<1>1. CASE Put(u)
  BY <1>1 DEF TypeOK, Put, AfterPutError, Running, Answers, redisVars
<1>2. CASE IndexDocument(u)
  BY <1>2 DEF TypeOK, IndexDocument, Moves, Running, Answers, Status, Listed, redisVars
<1>3. CASE EnqueuePushes(u)
  BY <1>3, PushedList DEF TypeOK, EnqueuePushes, Moves, Running, Answers, storeVars
<1>4. CASE EnqueueThrows(u)
  <2>1. count' \in [Kinds -> Nat]
    BY <1>4, IncidentCounts DEF EnqueueThrows
  <2>2. QED
    BY <1>4, <2>1, PushedList DEF TypeOK, EnqueueThrows, AfterPushError, Moves, Running, Answers, storeVars
<1>5. CASE EnqueueNotReady(u)
  BY <1>5 DEF TypeOK, EnqueueNotReady, NotReadyAnswer, Moves, Running, Answers, storeVars, redisVars
<1>6. CASE ParseHere(u)
  BY <1>6 DEF TypeOK, ParseHere, Moves, Running, Answers, redisVars
<1>7. QED
  BY <1>1, <1>2, <1>3, <1>4, <1>5, <1>6 DEF Handler

LEMMA DeleteTypeOK ==
  ASSUME TypeOK, NEW u \in Uploads, Delete(u)
  PROVE  TypeOK'
<1>1. CASE FindRemoved(u)
  BY <1>1 DEF TypeOK, FindRemoved, storeVars, redisVars
<1>2. CASE RemoveObject(u)
  BY <1>2 DEF TypeOK, RemoveObject, redisVars
<1>3. CASE RemoveDocument(u)
  BY <1>3 DEF TypeOK, RemoveDocument, Status, redisVars
<1>4. QED
  BY <1>1, <1>2, <1>3 DEF Delete

LEMMA UpdatedTypeOK ==
  ASSUME TypeOK, NEW u \in Uploads, NEW v \in Status
  PROVE  Updated(u, v) \in [Uploads -> Status]
BY DEF TypeOK, Updated

\* The update by query writes to no copy or to that of the job, if it is listed.
LEMMA CopyUpdatesWrite ==
  ASSUME TypeOK, NEW u \in Uploads, NEW s, NEW c \in CopyUpdates(u, s)
  PROVE  c = copy \/ (copy[u] \in Listed /\ c = [copy EXCEPT ![u] = s])
BY DEF CopyUpdates

LEMMA CopyUpdatesTypeOK ==
  ASSUME TypeOK, NEW u \in Uploads, NEW s \in Status, NEW c \in CopyUpdates(u, s)
  PROVE  c \in [Uploads -> Status]
<1>1. c = copy \/ c = [copy EXCEPT ![u] = s]
  BY CopyUpdatesWrite
<1>2. QED
  BY <1>1 DEF TypeOK

LEMMA JobInHand ==
  ASSUME TypeOK, WorkerOrder, worker.at # "idle"
  PROVE  Job \in Uploads
BY DEF TypeOK, WorkerOrder, WorkerState, Job

LEMMA GoesSomewhere ==
  ASSUME TypeOK, NEW place \in Places, Goes(place)
  PROVE  /\ worker' \in WorkerState
         /\ worker'.at = place /\ worker'.job = worker.job
<1>1. worker \in WorkerState
  BY DEF TypeOK
<1>2. QED
  BY <1>1 DEF Goes, WorkerState

LEMMA EndsSomewhere ==
  ASSUME TypeOK, NEW verdict \in {"completed", "failed"}, NEW ts \in {"none", "ok", "ko"},
         Ends(verdict, ts)
  PROVE  /\ worker' \in WorkerState
         /\ worker'.at = "closing" /\ worker'.job = worker.job
<1>1. worker \in WorkerState
  BY DEF TypeOK
<1>2. QED
  BY <1>1 DEF Ends, WorkerState, Places, Job

LEMMA IdleIsState == Idle \in WorkerState /\ Idle.at = "idle" /\ Idle.job = Nobody
BY DEF Idle, WorkerState, Places

LEMMA PopTypeOK ==
  ASSUME TypeOK, Pop
  PROVE  /\ TypeOK'
         /\ worker'.at = "taken" /\ worker'.job = Last(queue) /\ Last(queue) \in Uploads
<1>1. queue \in Seq(Uploads) /\ queue # <<>>
  BY DEF TypeOK, Pop
<1>2. Taken \in Seq(Uploads) /\ Last(queue) \in Uploads
  BY <1>1, TakenList, ListIsOfUploads
<1>3. worker' = [at |-> "taken", job |-> Last(queue), verdict |-> "failed", ts |-> "none"]
  BY DEF Pop, Idle
<1>4. worker' \in WorkerState /\ worker'.at = "taken" /\ worker'.job = Last(queue)
  BY <1>2, <1>3 DEF WorkerState, Places
<1>5. QED
  BY <1>2, <1>4 DEF TypeOK, Pop, portalVars, storeVars

LEMMA TurnTypeOK ==
  ASSUME TypeOK, WorkerOrder, Turn
  PROVE  TypeOK'
<1>1. CASE MarkProcessing
  <2>1. Job \in Uploads
    BY <1>1, JobInHand DEF MarkProcessing
  <2>2. row' \in [Uploads -> Status]
    BY <1>1, <2>1, UpdatedTypeOK DEF MarkProcessing, Status, Listed
  <2>3. worker' \in WorkerState
    BY <1>1, GoesSomewhere DEF MarkProcessing, Places
  <2>5. copy' \in [Uploads -> Status]
    BY <1>1, <2>1, CopyUpdatesTypeOK DEF MarkProcessing, Status, Listed
  <2>4. QED
    BY <1>1, <2>2, <2>3, <2>5 DEF TypeOK, MarkProcessing, portalVars, redisVars
<1>2. CASE Fetch
  <2>1. worker' \in WorkerState
    BY <1>2, GoesSomewhere, EndsSomewhere DEF Fetch, Places
  <2>2. QED
    BY <1>2, <2>1 DEF TypeOK, Fetch, portalVars, storeVars, redisVars
<1>3. CASE ParseAndBulk
  <2>1. worker' \in WorkerState
    BY <1>3, GoesSomewhere, EndsSomewhere DEF ParseAndBulk, Places
  <2>2. indexed' \in [Uploads -> Nat] /\ relayed' \in [Uploads -> Nat]
    <3>1. Job \in Uploads
      BY <1>3, JobInHand DEF ParseAndBulk
    <3>2. PICK written, sent \in BOOLEAN :
            /\ indexed' = [indexed EXCEPT ![Job] = IF written THEN indexed[Job] + 1 ELSE indexed[Job]]
            /\ relayed' = [relayed EXCEPT ![Job] = IF sent THEN relayed[Job] + 1 ELSE relayed[Job]]
      BY <1>3 DEF ParseAndBulk
    <3>3. QED
      BY <3>1, <3>2 DEF TypeOK
  <2>3. QED
    BY <1>3, <2>1, <2>2 DEF TypeOK, ParseAndBulk, portalVars, redisVars
<1>4. CASE Import
  <2>1. worker' \in WorkerState
    BY <1>4, EndsSomewhere DEF Import
  <2>2. QED
    BY <1>4, <2>1 DEF TypeOK, Import, portalVars, storeVars, redisVars
<1>5. CASE Close
  <2>1. Job \in Uploads
    BY <1>5, JobInHand DEF Close
  <2>2. worker.verdict \in {"completed", "failed"} /\ worker.ts \in {"none", "ok", "ko"}
    BY DEF TypeOK, WorkerState
  <2>3. row' \in [Uploads -> Status]
    BY <1>5, <2>1, <2>2, UpdatedTypeOK DEF Close, FinalRow, Status, Listed
  <2>4. timesketch' \in [Uploads -> {"none", "ok", "ko"}]
    BY <1>5, <2>2 DEF TypeOK, Close
  <2>5. copy' \in [Uploads -> Status]
    <3>1. worker.verdict \in Status
      BY <2>2 DEF Status, Listed
    <3>2. copy' = copy \/ copy' \in CopyUpdates(Job, worker.verdict)
      BY <1>5 DEF Close
    <3>3. QED
      BY <2>1, <3>1, <3>2, CopyUpdatesTypeOK DEF TypeOK
  <2>6. QED
    BY <1>5, <2>3, <2>4, <2>5, IdleIsState DEF TypeOK, Close, portalVars, redisVars
<1>6. QED
  BY <1>1, <1>2, <1>3, <1>4, <1>5 DEF Turn

Surroundings ==
  \/ PopReplyLost \/ WorkerCrash
  \/ \E portal \in {"it", "cert"} : PortalCrash(portal)
  \/ Save \/ RedisStop \/ RedisStart \/ Evict \/ OsStop \/ OsStart
  \/ \E u \in Uploads : Repair(u) \/ Mirror(u)

LEMMA SurroundingsTypeOK ==
  ASSUME TypeOK, Surroundings
  PROVE  TypeOK'
<1>1. CASE PopReplyLost
  <2>1. count' \in [Kinds -> Nat]
    BY <1>1, IncidentCounts DEF PopReplyLost
  <2>2. queue' \in Seq(Uploads)
    BY <1>1, TakenList DEF PopReplyLost, TypeOK
  <2>3. QED
    BY <1>1, <2>1, <2>2 DEF TypeOK, PopReplyLost, portalVars, storeVars
<1>2. CASE WorkerCrash
  <2>1. count' \in [Kinds -> Nat]
    BY <1>2, IncidentCounts DEF WorkerCrash
  <2>2. QED
    BY <1>2, <2>1, IdleIsState DEF TypeOK, WorkerCrash, portalVars, storeVars, redisVars
<1>3. ASSUME NEW portal \in {"it", "cert"}, PortalCrash(portal)
      PROVE  TypeOK'
  <2>1. count' \in [Kinds -> Nat]
    BY <1>3, IncidentCounts DEF PortalCrash
  <2>2. /\ request' \in [Uploads -> {"new", "dead"} \cup Running \cup Answers]
        /\ removal' \in [Uploads -> {"none", "found", "unstored", "failed"}]
    BY <1>3 DEF TypeOK, PortalCrash
  <2>3. QED
    BY <1>3, <2>1, <2>2 DEF TypeOK, PortalCrash, storeVars, redisVars
<1>4. CASE Save
  BY <1>4 DEF TypeOK, Save, portalVars, storeVars
<1>5. CASE RedisStop
  <2>1. count' \in [Kinds -> Nat]
    BY <1>5, IncidentCounts DEF RedisStop
  <2>2. QED
    BY <1>5, <2>1 DEF TypeOK, RedisStop, portalVars, storeVars
<1>6. CASE RedisStart
  BY <1>6 DEF TypeOK, RedisStart, portalVars, storeVars
<1>7. CASE Evict
  <2>1. count' \in [Kinds -> Nat]
    BY <1>7, IncidentCounts DEF Evict
  <2>2. <<>> \in Seq(Uploads)
    BY EmptySeq
  <2>3. QED
    BY <1>7, <2>1, <2>2 DEF TypeOK, Evict, portalVars, storeVars
<1>8. CASE OsStop
  <2>1. count' \in [Kinds -> Nat]
    BY <1>8, IncidentCounts DEF OsStop
  <2>2. QED
    BY <1>8, <2>1 DEF TypeOK, OsStop, portalVars, storeVars, redisVars
<1>9. CASE OsStart
  BY <1>9 DEF TypeOK, OsStart, portalVars, storeVars, redisVars
<1>10. ASSUME NEW u \in Uploads, Repair(u)
       PROVE  TypeOK'
  <2>1. count' \in [Kinds -> Nat]
    BY <1>10, IncidentCounts DEF Repair
  <2>2. queue' \in Seq(Uploads)
    BY <1>10, PushedList DEF Repair, TypeOK
  <2>3. QED
    BY <1>10, <2>1, <2>2 DEF TypeOK, Repair, portalVars, storeVars
<1>11. ASSUME NEW u \in Uploads, Mirror(u)
       PROVE  TypeOK'
  BY <1>11 DEF TypeOK, Mirror, Status, Listed, portalVars, redisVars
<1>12. QED
  BY <1>1, <1>2, <1>3, <1>4, <1>5, <1>6, <1>7, <1>8, <1>9, <1>10, <1>11 DEF Surroundings

\* The steps of the system, as the proofs split them.
LEMMA Steps ==
  ASSUME Next
  PROVE  \/ \E u \in Uploads : Handler(u) \/ Delete(u)
         \/ Pop \/ Turn \/ Surroundings
BY DEF Next, Surroundings

LEMMA NextTypeOK == TypeOK /\ WorkerOrder /\ [Next]_vars => TypeOK'
<1> SUFFICES ASSUME TypeOK, WorkerOrder, [Next]_vars PROVE TypeOK'
  OBVIOUS
<1>1. CASE Next
  BY <1>1, Steps, HandlerTypeOK, DeleteTypeOK, PopTypeOK, TurnTypeOK, SurroundingsTypeOK
<1>2. CASE UNCHANGED vars
  BY <1>2 DEF TypeOK, vars, portalVars, storeVars, redisVars
<1>3. QED
  BY <1>1, <1>2

-----------------------------------------------------------------------------
(***************************************************************************)
(* The order of the steps                                                  *)
(***************************************************************************)
\* An incident is never forgotten.
LEMMA CountsGrow ==
  ASSUME TypeOK, [Next]_vars, NEW k \in Kinds, count[k] > 0
  PROVE  count'[k] > 0
<1>1. CASE UNCHANGED count
  BY <1>1
<1>2. CASE \E j : Incident(j)
  BY <1>2, IncidentCounts
<1>3. QED
  <2>1. ASSUME NEW u \in Uploads, Handler(u) \/ Delete(u)
        PROVE  UNCHANGED count \/ \E j : Incident(j)
    BY <2>1 DEF Handler, Put, IndexDocument, EnqueuePushes, EnqueueThrows, EnqueueNotReady,
                ParseHere, Delete, FindRemoved, RemoveObject, RemoveDocument
  <2>2. ASSUME Pop \/ Turn
        PROVE  UNCHANGED count
    BY <2>2 DEF Pop, Turn, MarkProcessing, Fetch, ParseAndBulk, Import, Close
  <2>3. ASSUME Surroundings
        PROVE  UNCHANGED count \/ \E j : Incident(j)
    BY <2>3 DEF Surroundings, PopReplyLost, WorkerCrash, PortalCrash, Save, RedisStop,
                RedisStart, Evict, OsStop, OsStart, Repair, Mirror
  <2>4. CASE UNCHANGED vars
    BY <2>4, <1>1 DEF vars
  <2>5. QED
    BY <2>1, <2>2, <2>3, <2>4, <1>1, <1>2, Steps

LEMMA NextRecorded == TypeOK /\ Recorded /\ [Next]_vars => Recorded'
<1> SUFFICES ASSUME TypeOK, Recorded, [Next]_vars PROVE Recorded'
  OBVIOUS
<1>0. "osOutage" \in Kinds /\ "redisRestart" \in Kinds
  BY DEF Kinds
<1>1. CASE UNCHANGED <<osUp, redisUp>>
  BY <1>0, <1>1, CountsGrow DEF Recorded
<1>2. CASE RedisStop \/ OsStop
  <2>1. CASE RedisStop
    <3>1. count'["redisRestart"] > 0
      BY <2>1, IncidentCounts DEF RedisStop
    <3>2. QED
      BY <2>1, <3>1, <1>0, CountsGrow DEF RedisStop, Recorded
  <2>2. CASE OsStop
    <3>1. count'["osOutage"] > 0
      BY <2>2, IncidentCounts DEF OsStop
    <3>2. QED
      BY <2>2, <3>1, <1>0, CountsGrow DEF OsStop, Recorded, redisVars
  <2>3. QED
    BY <1>2, <2>1, <2>2
<1>3. CASE RedisStart \/ OsStart
  BY <1>3 DEF Recorded, RedisStart, OsStart, redisVars
<1>4. QED
  <2>1. ASSUME NEW u \in Uploads, Handler(u) \/ Delete(u)
        PROVE  UNCHANGED <<osUp, redisUp>>
    BY <2>1 DEF Handler, Put, IndexDocument, EnqueuePushes, EnqueueThrows, EnqueueNotReady,
                ParseHere, Delete, FindRemoved, RemoveObject, RemoveDocument, redisVars
  <2>2. ASSUME Pop \/ Turn
        PROVE  UNCHANGED <<osUp, redisUp>>
    BY <2>2 DEF Pop, Turn, MarkProcessing, Fetch, ParseAndBulk, Import, Close, redisVars
  <2>3. ASSUME Surroundings
        PROVE  UNCHANGED <<osUp, redisUp>> \/ RedisStop \/ OsStop \/ RedisStart \/ OsStart
    BY <2>3 DEF Surroundings, PopReplyLost, WorkerCrash, PortalCrash, Save,
                Evict, Repair, Mirror, redisVars
  <2>4. CASE UNCHANGED vars
    BY <2>4, <1>1 DEF vars, redisVars
  <2>5. QED
    BY <2>1, <2>2, <2>3, <2>4, <1>1, <1>2, <1>3, Steps

LEMMA NextWorkerOrder == TypeOK /\ WorkerOrder /\ [Next]_vars => WorkerOrder'
<1> SUFFICES ASSUME TypeOK, WorkerOrder, [Next]_vars PROVE WorkerOrder'
  OBVIOUS
<1>1. CASE UNCHANGED worker
  BY <1>1 DEF WorkerOrder
<1>2. CASE Pop
  BY <1>2, PopTypeOK, NobodyAssumption DEF WorkerOrder
<1>3. CASE Turn
  <2>1. worker.at # "idle"
    BY <1>3 DEF Turn, MarkProcessing, Fetch, ParseAndBulk, Import, Close
  <2>2. worker.job # Nobody
    BY <2>1 DEF WorkerOrder
  <2>3. CASE Close
    BY <2>3, IdleIsState DEF Close, WorkerOrder
  <2>4. CASE MarkProcessing \/ Fetch \/ ParseAndBulk \/ Import
    <3>1. worker'.at # "idle" /\ worker'.job = worker.job
      BY <2>4, GoesSomewhere, EndsSomewhere DEF MarkProcessing, Fetch, ParseAndBulk, Import, Places
    <3>2. QED
      BY <2>2, <3>1 DEF WorkerOrder
  <2>5. QED
    BY <1>3, <2>3, <2>4 DEF Turn
<1>4. CASE WorkerCrash
  BY <1>4, IdleIsState DEF WorkerCrash, WorkerOrder
<1>5. QED
  <2>1. ASSUME NEW u \in Uploads, Handler(u) \/ Delete(u)
        PROVE  UNCHANGED worker
    BY <2>1 DEF Handler, Put, IndexDocument, EnqueuePushes, EnqueueThrows, EnqueueNotReady,
                ParseHere, Delete, FindRemoved, RemoveObject, RemoveDocument
  <2>2. ASSUME Surroundings
        PROVE  UNCHANGED worker \/ WorkerCrash
    BY <2>2 DEF Surroundings, PopReplyLost, PortalCrash, Save, RedisStop, RedisStart,
                Evict, OsStop, OsStart, Repair, Mirror
  <2>3. CASE UNCHANGED vars
    BY <2>3, <1>1 DEF vars
  <2>4. QED
    BY <2>1, <2>2, <2>3, <1>1, <1>2, <1>3, <1>4, Steps

\* An update of the worker moves a document within the list, and no document
\* enters or leaves it.
LEMMA UpdatedKeepsList ==
  ASSUME TypeOK, NEW j \in Uploads, NEW s \in Listed, NEW u \in Uploads
  PROVE  /\ Updated(j, s)[u] \in Listed <=> row[u] \in Listed
         /\ row[u] \notin Listed => Updated(j, s)[u] = row[u]
         /\ u # j => Updated(j, s)[u] = row[u]
         /\ Updated(j, s)[u] = s \/ Updated(j, s)[u] = row[u]
BY DEF TypeOK, Updated, Listed

LEMMA TurnRow ==
  ASSUME TypeOK, WorkerOrder, Turn, NEW u \in Uploads
  PROVE  /\ row'[u] \in Listed <=> row[u] \in Listed
         /\ row[u] \notin Listed => row'[u] = row[u]
<1>1. CASE MarkProcessing
  <2>1. Job \in Uploads /\ row' = Updated(Job, "processing")
    BY <1>1, JobInHand DEF MarkProcessing
  <2>2. QED
    BY <2>1, UpdatedKeepsList DEF Listed
<1>2. CASE Close
  <2>1. Job \in Uploads /\ row' = Updated(Job, worker.verdict)
    BY <1>2, JobInHand DEF Close, FinalRow
  <2>2. worker.verdict \in Listed
    BY DEF TypeOK, WorkerState, Listed
  <2>3. QED
    BY <2>1, <2>2, UpdatedKeepsList
<1>3. CASE Fetch \/ ParseAndBulk \/ Import
  BY <1>3 DEF Fetch, ParseAndBulk, Import, storeVars
<1>4. QED
  BY <1>1, <1>2, <1>3 DEF Turn

\* So does the update by query with the copy.
LEMMA TurnCopy ==
  ASSUME TypeOK, WorkerOrder, Turn
  PROVE  \/ copy' = copy
         \/ \E u \in Uploads, s \in Listed : copy[u] \in Listed /\ copy' = [copy EXCEPT ![u] = s]
<1>1. CASE MarkProcessing
  <2>1. Job \in Uploads /\ copy' \in CopyUpdates(Job, "processing") /\ "processing" \in Listed
    BY <1>1, JobInHand DEF MarkProcessing, Listed
  <2>2. QED
    BY <2>1, CopyUpdatesWrite
<1>2. CASE Close
  <2>1. Job \in Uploads /\ (copy' = copy \/ copy' \in CopyUpdates(Job, worker.verdict))
    BY <1>2, JobInHand DEF Close
  <2>2. worker.verdict \in Listed
    BY DEF TypeOK, WorkerState, Listed
  <2>3. QED
    BY <2>1, <2>2, CopyUpdatesWrite
<1>3. CASE Fetch \/ ParseAndBulk \/ Import
  BY <1>3 DEF Fetch, ParseAndBulk, Import, storeVars
<1>4. QED
  BY <1>1, <1>2, <1>3 DEF Turn

LEMMA HandlerOrder ==
  ASSUME IInv, NEW u \in Uploads, Handler(u)
  PROVE  DocumentOrder'
<1>1. /\ request \in [Uploads -> {"new", "dead"} \cup Running \cup Answers]
      /\ row \in [Uploads -> Status] /\ aim \in [Uploads -> {"row", "copy"}]
      /\ "osOutage" \in Kinds
  BY DEF IInv, TypeOK, Kinds
<1>2. [Next]_vars
  BY DEF Next
<1>3. count["osOutage"] > 0 => count'["osOutage"] > 0
  BY <1>1, <1>2, CountsGrow DEF IInv
<1>4. CASE Put(u)
  BY <1>1, <1>3, <1>4 DEF IInv, DocumentOrder, Put, AfterPutError
<1>5. CASE IndexDocument(u)
  <2>1. row[u] = "none" /\ copy[u] = "none" /\ request[u] = "stored"
    BY <1>5 DEF IInv, DocumentOrder, IndexDocument, Moves
  <2>2. row' = [row EXCEPT ![u] = IF osUp THEN "pending" ELSE "none"]
    BY <1>5 DEF IndexDocument
  <2>3. removal[u] \notin {"found", "unstored"}
    BY <1>1, <2>1 DEF IInv, DocumentOrder, Listed
  <2>4. ~osUp => count["osOutage"] > 0
    BY DEF IInv, Recorded
  <2>5. QED
    BY <1>1, <1>3, <1>5, <2>1, <2>2, <2>3, <2>4 DEF IInv, DocumentOrder, IndexDocument, Moves
<1>6. CASE EnqueuePushes(u)
  BY <1>1, <1>3, <1>6 DEF IInv, DocumentOrder, EnqueuePushes, Moves, storeVars
<1>7. CASE EnqueueThrows(u)
  BY <1>1, <1>3, <1>7 DEF IInv, DocumentOrder, EnqueueThrows, AfterPushError, Moves, storeVars
<1>8. CASE EnqueueNotReady(u)
  BY <1>1, <1>3, <1>8 DEF IInv, DocumentOrder, EnqueueNotReady, NotReadyAnswer, Moves, storeVars
<1>9. CASE ParseHere(u)
  BY <1>1, <1>3, <1>9 DEF IInv, DocumentOrder, ParseHere, Moves
<1>10. QED
  BY <1>4, <1>5, <1>6, <1>7, <1>8, <1>9 DEF Handler

LEMMA DeleteOrder ==
  ASSUME IInv, NEW u \in Uploads, Delete(u)
  PROVE  DocumentOrder'
<1>1. /\ removal \in [Uploads -> {"none", "found", "unstored", "failed"}]
      /\ row \in [Uploads -> Status] /\ copy \in [Uploads -> Status]
      /\ aim \in [Uploads -> {"row", "copy"}]
  BY DEF IInv, TypeOK
<1>2. CASE FindRemoved(u)
  BY <1>1, <1>2 DEF IInv, DocumentOrder, FindRemoved, storeVars
<1>3. CASE RemoveObject(u)
  BY <1>1, <1>3 DEF IInv, DocumentOrder, RemoveObject
<1>4. CASE RemoveDocument(u)
  <2>1. /\ aim[u] = "row" => row[u] \in Listed
        /\ aim[u] = "copy" => copy[u] \in Listed
    BY <1>4 DEF IInv, DocumentOrder, RemoveDocument
  <2>2. request[u] \notin {"new", "stored"} /\ (aim[u] = "copy" => u \notin outbox)
    BY <1>1, <2>1 DEF IInv, DocumentOrder, Listed
  <2>3. /\ removal' \in [Uploads -> {"none", "found", "unstored", "failed"}]
        /\ removal'[u] \notin {"found", "unstored"}
        /\ \A v \in Uploads \ {u} : /\ removal'[v] = removal[v] /\ aim'[v] = aim[v]
                                   /\ row'[v] = row[v] /\ copy'[v] = copy[v]
        /\ row'[u] = row[u] \/ row'[u] = "deleted"
        /\ copy'[u] = copy[u] \/ (aim[u] = "copy" /\ copy'[u] = "deleted")
        /\ UNCHANGED <<request, outbox, count>>
    BY <1>1, <1>4 DEF RemoveDocument
  <2>4. QED
    BY <2>2, <2>3 DEF IInv, DocumentOrder
<1>5. QED
  BY <1>2, <1>3, <1>4 DEF Delete

LEMMA SurroundingsOrder ==
  ASSUME IInv, Surroundings
  PROVE  DocumentOrder'
<1>1. /\ "osOutage" \in Kinds
      /\ [Next]_vars
  BY DEF Kinds, Surroundings, Next
<1>2. count["osOutage"] > 0 => count'["osOutage"] > 0
  BY <1>1, CountsGrow DEF IInv
<1>3. ASSUME NEW portal \in {"it", "cert"}, PortalCrash(portal)
      PROVE  DocumentOrder'
  <2>1. \A u \in Uploads :
          /\ request'[u] = request[u] \/ request'[u] = "dead"
          /\ removal'[u] = removal[u] \/ removal'[u] = "failed"
    BY <1>3 DEF PortalCrash
  <2>2. UNCHANGED <<row, aim, copy, outbox>>
    BY <1>3 DEF PortalCrash, storeVars
  <2>3. QED
    BY <1>2, <2>1, <2>2 DEF IInv, DocumentOrder
<1>4. CASE UNCHANGED <<request, removal, aim, row, copy, outbox>>
  BY <1>2, <1>4 DEF IInv, DocumentOrder
<1>6. ASSUME NEW u \in Uploads, Mirror(u)
      PROVE  DocumentOrder'
  <2>1. copy \in [Uploads -> Status] /\ copy[u] = "none" /\ request[u] \notin {"new", "stored"}
    BY <1>6 DEF IInv, TypeOK, DocumentOrder, Mirror
  <2>2. /\ UNCHANGED <<request, removal, aim, row, count>>
        /\ outbox' = outbox \ {u} /\ copy' = [copy EXCEPT ![u] = "pending"]
    BY <1>6 DEF Mirror, portalVars
  <2>3. QED
    BY <2>1, <2>2 DEF IInv, DocumentOrder, Listed
<1>5. QED
  BY <1>3, <1>4, <1>6 DEF Surroundings, PopReplyLost, WorkerCrash, Save, RedisStop, RedisStart,
                    Evict, OsStop, OsStart, Repair, Mirror, portalVars, storeVars

LEMMA NextDocumentOrder == IInv /\ [Next]_vars => DocumentOrder'
<1> SUFFICES ASSUME IInv, [Next]_vars PROVE DocumentOrder'
  OBVIOUS
<1>1. CASE Turn
  <2>1. \A u \in Uploads :
          /\ row'[u] \in Listed <=> row[u] \in Listed
          /\ row[u] \notin Listed => row'[u] = row[u]
    BY <1>1, TurnRow DEF IInv
  <2>2. UNCHANGED <<request, removal, aim, outbox, count>>
    BY <1>1 DEF Turn, MarkProcessing, Fetch, ParseAndBulk, Import, Close, portalVars, storeVars
  <2>3. \A u \in Uploads :
          /\ copy[u] \in Listed => copy'[u] \in Listed
          /\ copy[u] = "none" => copy'[u] = "none"
    BY <1>1, TurnCopy DEF IInv, TypeOK, Listed
  <2>4. QED
    BY <2>1, <2>2, <2>3 DEF IInv, DocumentOrder, Listed
<1>2. CASE Pop \/ UNCHANGED vars
  BY <1>2 DEF IInv, DocumentOrder, Pop, vars, portalVars, storeVars
<1>3. QED
  BY <1>1, <1>2, HandlerOrder, DeleteOrder, SurroundingsOrder, Steps

LEMMA InitIInv == Init => IInv
<1> SUFFICES ASSUME Init PROVE IInv
  OBVIOUS
<1>1. TypeOK
  BY IdleIsState, EmptySeq DEF Init, TypeOK, Status
<1>2. QED
  BY <1>1, IdleIsState DEF Init, IInv, Recorded, DocumentOrder, WorkerOrder

LEMMA NextIInv == IInv /\ [Next]_vars => IInv'
BY NextTypeOK, NextRecorded, NextDocumentOrder, NextWorkerOrder DEF IInv

LEMMA OrderHolds == Spec => []IInv
BY InitIInv, NextIInv, PTL DEF Spec

\* The variables of the pipeline keep their types.
THEOREM TypeCorrect == Spec => []TypeOK
<1>1. IInv => TypeOK
  BY DEF IInv
<1>2. QED
  BY <1>1, OrderHolds, PTL

-----------------------------------------------------------------------------
(***************************************************************************)
(* The refinement                                                          *)
(***************************************************************************)
LEMMA InitRefines == Init => Lifecycle!Init
BY IdleIsState DEF Init, Lifecycle!Init

LEMMA HandlerRefines ==
  ASSUME IInv, NEW u \in Uploads, Handler(u)
  PROVE  Lifecycle!List(u) \/ UNCHANGED <<row, copy, worker.job>>
<1>1. CASE IndexDocument(u)
  <2>1. row[u] = "none"
    BY <1>1 DEF IInv, DocumentOrder, IndexDocument, Moves
  <2>2. CASE osUp
    BY <1>1, <2>1, <2>2 DEF IndexDocument, Lifecycle!List
  <2>3. CASE ~osUp
    <3>1. row' = row
      BY <1>1, <2>1, <2>3 DEF IInv, TypeOK, IndexDocument
    <3>2. QED
      BY <1>1, <3>1 DEF IndexDocument
  <2>4. QED
    BY <2>2, <2>3
<1>2. CASE ~IndexDocument(u)
  BY <1>2 DEF Handler, Put, EnqueuePushes, EnqueueThrows, EnqueueNotReady, ParseHere, storeVars
<1>3. QED
  BY <1>1, <1>2

LEMMA DeleteRefines ==
  ASSUME IInv, NEW u \in Uploads, Delete(u)
  PROVE  Lifecycle!Delete(u) \/ UNCHANGED <<row, copy, worker.job>>
<1>1. CASE RemoveDocument(u)
  <2>1. /\ aim[u] = "row" => row[u] \in Lifecycle!Listed
        /\ aim[u] = "copy" => copy[u] \in Lifecycle!Listed
    BY <1>1 DEF IInv, DocumentOrder, RemoveDocument, Listed, Lifecycle!Listed
  <2>2. worker' = worker
    BY <1>1 DEF RemoveDocument
  <2>3. \/ aim[u] = "row" /\ row' = [row EXCEPT ![u] = "deleted"] /\ UNCHANGED copy
        \/ aim[u] = "copy" /\ copy' = [copy EXCEPT ![u] = "deleted"] /\ UNCHANGED row
        \/ UNCHANGED <<row, copy>>
    BY <1>1 DEF RemoveDocument
  <2>4. QED
    BY <2>1, <2>2, <2>3 DEF Lifecycle!Delete
<1>2. CASE FindRemoved(u) \/ RemoveObject(u)
  BY <1>2 DEF FindRemoved, RemoveObject, storeVars
<1>3. QED
  BY <1>1, <1>2 DEF Delete

LEMMA PopRefines ==
  ASSUME IInv, Pop
  PROVE  \E u \in Uploads : Lifecycle!StartTurn(u)
<1>1. Last(queue) \in Uploads /\ worker'.job = Last(queue)
  BY PopTypeOK DEF IInv
<1>2. worker.job = Nobody
  BY DEF IInv, WorkerOrder, Pop
<1>3. row' = row /\ copy' = copy
  BY DEF Pop, storeVars
<1>4. Lifecycle!StartTurn(Last(queue))
  BY <1>1, <1>2, <1>3 DEF Lifecycle!StartTurn
<1>5. QED
  BY <1>1, <1>4

\* An update of the document the worker has in hand is written or changes nothing.
LEMMA UpdatedIsWritten ==
  ASSUME TypeOK, NEW j \in Uploads, NEW s
  PROVE  \/ row[j] \in Listed /\ Updated(j, s) = [row EXCEPT ![j] = s]
         \/ Updated(j, s) = row
BY DEF TypeOK, Updated

\* The two updates of the worker write to the entries of the upload in hand.
LEMMA WritesEntries ==
  ASSUME TypeOK, NEW j \in Uploads, NEW s, row' = Updated(j, s),
         copy' = copy \/ copy' \in CopyUpdates(j, s)
  PROVE  Lifecycle!Write(j, s)
<1>1. (row[j] \in Listed /\ row' = [row EXCEPT ![j] = s]) \/ row' = row
  BY UpdatedIsWritten
<1>2. (copy[j] \in Listed /\ copy' = [copy EXCEPT ![j] = s]) \/ copy' = copy
  BY CopyUpdatesWrite
<1>3. Lifecycle!Listed = Listed
  BY DEF Listed, Lifecycle!Listed
<1>4. QED
  BY <1>1, <1>2, <1>3 DEF Lifecycle!Write

LEMMA TurnRefines ==
  ASSUME IInv, Turn
  PROVE  \/ \E u \in Uploads : Lifecycle!Mark(u) \/ Lifecycle!EndTurn(u)
         \/ UNCHANGED <<row, copy, worker.job>>
<1>1. CASE MarkProcessing
  <2>1. /\ Job \in Uploads
        /\ row' = Updated(Job, "processing") /\ copy' \in CopyUpdates(Job, "processing")
        /\ worker'.job = worker.job
    BY <1>1, JobInHand, GoesSomewhere DEF IInv, MarkProcessing, Places
  <2>2. Lifecycle!Write(Job, "processing")
    BY <2>1, WritesEntries DEF IInv
  <2>3. QED
    BY <2>1, <2>2 DEF Lifecycle!Mark, Job
<1>2. CASE Close
  <2>1. /\ Job \in Uploads
        /\ row' = Updated(Job, worker.verdict)
        /\ copy' = copy \/ copy' \in CopyUpdates(Job, worker.verdict)
        /\ worker'.job = Nobody
    BY <1>2, JobInHand, IdleIsState DEF IInv, Close, FinalRow
  <2>2. worker.verdict \in Lifecycle!Final
    BY DEF IInv, TypeOK, WorkerState, Lifecycle!Final
  <2>3. Lifecycle!Write(Job, worker.verdict)
    BY <2>1, WritesEntries DEF IInv
  <2>4. QED
    BY <2>1, <2>2, <2>3 DEF Lifecycle!EndTurn, Job
<1>3. CASE Fetch \/ ParseAndBulk \/ Import
  <2>1. worker'.job = worker.job
    BY <1>3, GoesSomewhere, EndsSomewhere DEF IInv, Fetch, ParseAndBulk, Import, Places
  <2>2. QED
    BY <1>3, <2>1 DEF Fetch, ParseAndBulk, Import, storeVars
<1>4. QED
  BY <1>1, <1>2, <1>3 DEF Turn

LEMMA SurroundingsRefine ==
  ASSUME IInv, Surroundings
  PROVE  \/ \E u \in Uploads : Lifecycle!EndTurn(u) \/ Lifecycle!Mirror(u)
         \/ UNCHANGED <<row, copy, worker.job>>
<1>1. CASE WorkerCrash
  <2>1. /\ worker.job \in Uploads /\ worker'.job = Nobody
        /\ row' = row /\ copy' = copy
    BY <1>1, JobInHand, IdleIsState DEF IInv, WorkerCrash, storeVars, Job
  <2>2. QED
    BY <2>1 DEF Lifecycle!EndTurn, Lifecycle!Write, Lifecycle!Final
<1>2. ASSUME NEW u \in Uploads, Mirror(u)
      PROVE  Lifecycle!Mirror(u)
  BY <1>2 DEF IInv, DocumentOrder, Mirror, Lifecycle!Mirror
<1>3. CASE ~WorkerCrash /\ \A u \in Uploads : ~Mirror(u)
  BY <1>3 DEF Surroundings, PopReplyLost, PortalCrash, Save, RedisStop, RedisStart,
              Evict, OsStop, OsStart, Repair, storeVars
<1>4. QED
  BY <1>1, <1>2, <1>3

LEMMA NextRefines == IInv /\ [Next]_vars => [Lifecycle!Next]_(Lifecycle!vars)
<1> SUFFICES ASSUME IInv, [Next]_vars
             PROVE  Lifecycle!Next \/ UNCHANGED <<row, copy, worker.job>>
  BY DEF Lifecycle!vars
<1>1. CASE UNCHANGED vars
  BY <1>1 DEF vars, storeVars
<1>2. CASE Next
  <2>1. ASSUME NEW u \in Uploads, Handler(u) \/ Delete(u)
        PROVE  Lifecycle!Next \/ UNCHANGED <<row, copy, worker.job>>
    BY <2>1, HandlerRefines, DeleteRefines DEF Lifecycle!Next
  <2>2. CASE Pop
    BY <2>2, PopRefines DEF Lifecycle!Next
  <2>3. CASE Turn
    BY <2>3, TurnRefines DEF Lifecycle!Next
  <2>4. CASE Surroundings
    BY <2>4, SurroundingsRefine DEF Lifecycle!Next
  <2>5. QED
    BY <1>2, <2>1, <2>2, <2>3, <2>4, Steps
<1>3. QED
  BY <1>1, <1>2

\* The handlers, the worker, the deletions and all that happens around them
\* implement the life cycle the list of uploads shows.
THEOREM Refinement == Spec => LifecycleSpec
BY InitRefines, NextRefines, OrderHolds, PTL DEF Spec, LifecycleSpec, Lifecycle!Spec

-----------------------------------------------------------------------------
(***************************************************************************)
(* Every queued job has its file                                           *)
(***************************************************************************)
\* A deleted document stays deleted and a listed one leaves the list only then;
\* likewise its copy, which comes out of the outbox.
LEMMA CopyMoves ==
  ASSUME IInv, [Next]_vars, NEW u \in Uploads
  PROVE  /\ copy[u] = "deleted" => copy'[u] = "deleted"
         /\ copy'[u] \in Listed => copy[u] \in Listed \/ u \in outbox
         /\ u \in outbox' => u \in outbox \/ request[u] = "stored"
<1>1. copy \in [Uploads -> Status]
  BY DEF IInv, TypeOK
<1>2. ASSUME NEW v \in Uploads, Handler(v)
      PROVE  copy' = copy /\ (u \in outbox' => u \in outbox \/ request[u] = "stored")
  BY <1>2 DEF Handler, Put, IndexDocument, EnqueuePushes, EnqueueThrows, EnqueueNotReady, ParseHere,
              Moves, storeVars
<1>3. ASSUME NEW v \in Uploads, Delete(v)
      PROVE  copy'[u] \in {copy[u], "deleted"} /\ outbox' = outbox
  BY <1>1, <1>3 DEF Delete, FindRemoved, RemoveObject, RemoveDocument, storeVars
<1>4. ASSUME NEW v \in Uploads, Mirror(v)
      PROVE  /\ copy'[u] = copy[u] \/ (u \in outbox /\ copy[u] = "none")
             /\ outbox' \subseteq outbox
  BY <1>1, <1>4 DEF IInv, DocumentOrder, Mirror
<1>5. ASSUME Turn
      PROVE  /\ copy'[u] = copy[u] \/ (copy[u] \in Listed /\ copy'[u] \in Listed)
             /\ outbox' = outbox
  <2>1. outbox' = outbox
    BY <1>5 DEF Turn, MarkProcessing, Fetch, ParseAndBulk, Import, Close, storeVars
  <2>2. QED
    BY <1>1, <1>5, <2>1, TurnCopy DEF IInv
<1>6. ASSUME Pop \/ (Surroundings /\ \A v \in Uploads : ~Mirror(v)) \/ UNCHANGED vars
      PROVE  copy' = copy /\ outbox' = outbox
  BY <1>6 DEF Pop, Surroundings, PopReplyLost, WorkerCrash, PortalCrash, Save, RedisStop, RedisStart,
              Evict, OsStop, OsStart, Repair, storeVars, vars
<1>7. QED
  BY <1>2, <1>3, <1>4, <1>5, <1>6, Steps DEF Listed

LEMMA ListMoves ==
  ASSUME IInv, [Next]_vars, NEW u \in Uploads
  PROVE  /\ row[u] = "deleted" => row'[u] = "deleted"
         /\ row[u] \in Listed => row'[u] \in Listed \cup {"deleted"}
         /\ row'[u] \in Listed => row[u] \in Listed \/ request[u] = "stored"
<1>1. ASSUME NEW v \in Uploads, Handler(v)
      PROVE  \/ row'[u] = row[u]
             \/ row[u] = "none" /\ request[u] = "stored" /\ row'[u] \in Listed
  <2>1. CASE IndexDocument(v)
    <3>1. row[v] = "none" /\ request[v] = "stored"
      BY <2>1 DEF IInv, DocumentOrder, IndexDocument, Moves
    <3>2. QED
      BY <2>1, <3>1 DEF IInv, TypeOK, IndexDocument, Listed
  <2>2. CASE ~IndexDocument(v)
    BY <1>1, <2>2 DEF Handler, Put, EnqueuePushes, EnqueueThrows, EnqueueNotReady, ParseHere, storeVars
  <2>3. QED
    BY <2>1, <2>2
<1>2. ASSUME NEW v \in Uploads, Delete(v)
      PROVE  row'[u] = row[u] \/ (row[u] \in Listed /\ row'[u] = "deleted")
  <2>1. CASE RemoveDocument(v)
    <3>1. aim[v] = "row" => row[v] \in Listed
      BY <2>1 DEF IInv, DocumentOrder, RemoveDocument
    <3>2. QED
      BY <2>1, <3>1 DEF IInv, TypeOK, RemoveDocument
  <2>2. CASE FindRemoved(v) \/ RemoveObject(v)
    BY <2>2 DEF FindRemoved, RemoveObject, storeVars
  <2>3. QED
    BY <1>2, <2>1, <2>2 DEF Delete
<1>3. ASSUME Turn
      PROVE  (row'[u] \in Listed <=> row[u] \in Listed) /\ (row[u] \notin Listed => row'[u] = row[u])
  BY <1>3, TurnRow DEF IInv
<1>4. ASSUME Pop \/ Surroundings \/ UNCHANGED vars
      PROVE  row' = row
  BY <1>4 DEF Pop, Surroundings, PopReplyLost, WorkerCrash, PortalCrash, Save, RedisStop, RedisStart,
              Evict, OsStop, OsStart, Repair, Mirror, storeVars, vars
<1>5. QED
  BY <1>1, <1>2, <1>3, <1>4, Steps DEF Listed

\* A file leaves MinIO only in the course of a DELETE, which is remembered until
\* the document is gone.
LEMMA FileStays ==
  ASSUME IInv, [Next]_vars, NEW u \in Uploads, FileOrGone(u)
  PROVE  FileOrGone(u)'
<1>1. (row[u] = "deleted" => row'[u] = "deleted") /\ (copy[u] = "deleted" => copy'[u] = "deleted")
  BY ListMoves, CopyMoves
<1>2. /\ removal \in [Uploads -> {"none", "found", "unstored", "failed"}]
      /\ row \in [Uploads -> Status] /\ copy \in [Uploads -> Status]
      /\ aim \in [Uploads -> {"row", "copy"}]
  BY DEF IInv, TypeOK
<1>3. ASSUME NEW v \in Uploads, Delete(v)
      PROVE  FileOrGone(u)'
  <2>1. CASE FindRemoved(v)
    BY <1>1, <1>2, <2>1 DEF FindRemoved, FileOrGone, storeVars
  <2>2. CASE RemoveObject(v)
    BY <1>1, <1>2, <2>2 DEF RemoveObject, FileOrGone
  <2>3. CASE RemoveDocument(v)
    BY <1>1, <1>2, <2>3 DEF RemoveDocument, FileOrGone
  <2>4. QED
    BY <1>3, <2>1, <2>2, <2>3 DEF Delete
<1>4. ASSUME NEW v \in Uploads, Handler(v)
      PROVE  objects \subseteq objects' /\ removal' = removal
  BY <1>4 DEF Handler, Put, IndexDocument, EnqueuePushes, EnqueueThrows, EnqueueNotReady,
              ParseHere, storeVars
<1>5. ASSUME Pop \/ Turn \/ UNCHANGED vars
      PROVE  objects' = objects /\ removal' = removal
  BY <1>5 DEF Pop, Turn, MarkProcessing, Fetch, ParseAndBulk, Import, Close,
              vars, portalVars, storeVars
<1>6. ASSUME Surroundings
      PROVE  objects' = objects /\ (removal[u] # "none" => removal'[u] # "none")
  <2>1. ASSUME NEW portal \in {"it", "cert"}, PortalCrash(portal)
        PROVE  objects' = objects /\ (removal[u] # "none" => removal'[u] # "none")
    BY <2>1 DEF PortalCrash, storeVars
  <2>2. QED
    BY <1>6, <2>1 DEF Surroundings, PopReplyLost, WorkerCrash, Save, RedisStop, RedisStart,
                      Evict, OsStop, OsStart, Repair, Mirror, portalVars, storeVars
<1>7. QED
  BY <1>1, <1>3, <1>4, <1>5, <1>6, Steps DEF FileOrGone

\* Into the list come the uploads a handler or the repair script pushes and
\* those of the snapshot; into the snapshot, those of the list.
LEMMA ListComes ==
  ASSUME IInv, [Next]_vars, NEW u \in Uploads
  PROVE  /\ Waits(u)' => \/ Waits(u) \/ u \in Range(saved)
                         \/ request[u] = "listed" \/ row[u] \in Listed \/ copy[u] \in Listed
         /\ u \in Range(saved') => u \in Range(saved) \/ Waits(u)
<1>1. queue \in Seq(Uploads)
  BY DEF IInv, TypeOK
<1>2. ASSUME NEW v \in Uploads, Handler(v)
      PROVE  /\ queue' = queue \/ (queue' = Pushed(v) /\ request[v] = "listed")
             /\ saved' = saved
  BY <1>2 DEF Handler, Put, IndexDocument, EnqueuePushes, EnqueueThrows, EnqueueNotReady,
              ParseHere, Moves, redisVars
<1>3. ASSUME NEW v \in Uploads, Repair(v)
      PROVE  queue' = Pushed(v) /\ (row[v] \in Listed \/ copy[v] \in Listed) /\ saved' = saved
  BY <1>3 DEF Repair, ToRepair
<1>4. ASSUME Pop \/ PopReplyLost
      PROVE  queue # <<>> /\ queue' = Taken /\ saved' = saved
  BY <1>4 DEF Pop, PopReplyLost
<1>5. ASSUME Evict
      PROVE  Range(queue') = {} /\ saved' = saved
  BY <1>5 DEF Evict, Range
<1>6. ASSUME Save \/ RedisStart
      PROVE  queue' \in {queue, saved} /\ saved' \in {queue, saved}
  BY <1>6 DEF Save, RedisStart
<1>7. ASSUME \/ \E v \in Uploads : Delete(v)
             \/ Turn \/ UNCHANGED vars
             \/ WorkerCrash \/ RedisStop \/ OsStop \/ OsStart
             \/ \E v \in Uploads : Mirror(v)
             \/ \E portal \in {"it", "cert"} : PortalCrash(portal)
      PROVE  queue' = queue /\ saved' = saved
  BY <1>7 DEF Delete, FindRemoved, RemoveObject, RemoveDocument, Turn, MarkProcessing, Fetch,
              ParseAndBulk, Import, Close, WorkerCrash, RedisStop, OsStop, OsStart, Mirror,
              PortalCrash, vars, redisVars
<1>8. \A v \in Uploads : queue' = Pushed(v) => Range(queue') = Range(queue) \cup {v}
  BY <1>1, PushedList
<1>9. queue # <<>> /\ queue' = Taken => Range(queue') \subseteq Range(queue)
  BY <1>1, TakenList
<1>10. CASE \E v \in Uploads : Handler(v) \/ Repair(v)
  BY <1>2, <1>3, <1>8, <1>10 DEF Waits
<1>11. CASE Pop \/ PopReplyLost
  BY <1>4, <1>9, <1>11 DEF Waits
<1>12. CASE Evict
  BY <1>5, <1>12 DEF Waits
<1>13. CASE Save \/ RedisStart
  BY <1>6, <1>13 DEF Waits
<1>14. QED
  BY <1>7, <1>10, <1>11, <1>12, <1>13, Steps DEF Surroundings, Waits

\* A handler is past its store only with the file stored.
LEMMA RequestComes ==
  ASSUME IInv, [Next]_vars, NEW u \in Uploads, request'[u] \in {"stored", "listed"}
  PROVE  request[u] \in {"stored", "listed"} \/ u \in objects'
<1>1. request \in [Uploads -> {"new", "dead"} \cup Running \cup Answers]
  BY DEF IInv, TypeOK
<1>2. ASSUME NEW v \in Uploads, Handler(v)
      PROVE  request[u] \in {"stored", "listed"} \/ u \in objects'
  <2>1. CASE Put(v)
    BY <1>1, <2>1 DEF Put, AfterPutError
  <2>2. CASE ~Put(v)
    BY <1>1, <1>2, <2>2 DEF Handler, IndexDocument, EnqueuePushes, EnqueueThrows, AfterPushError,
                            EnqueueNotReady, NotReadyAnswer, ParseHere, Moves
  <2>3. QED
    BY <2>1, <2>2
<1>3. ASSUME NEW portal \in {"it", "cert"}, PortalCrash(portal)
      PROVE  request'[u] \in {request[u], "dead"}
  BY <1>3 DEF PortalCrash
<1>4. ASSUME NEW v \in Uploads, Delete(v)
      PROVE  request' = request
  BY <1>4 DEF Delete, FindRemoved, RemoveObject, RemoveDocument
<1>5. ASSUME Pop \/ Turn \/ UNCHANGED vars
      PROVE  request' = request
  BY <1>5 DEF Pop, Turn, MarkProcessing, Fetch, ParseAndBulk, Import, Close, vars, portalVars
<1>6. ASSUME Surroundings
      PROVE  request'[u] \in {request[u], "dead"}
  BY <1>3, <1>6 DEF Surroundings, PopReplyLost, WorkerCrash, Save, RedisStop, RedisStart,
                    Evict, OsStop, OsStart, Repair, Mirror, portalVars
<1>7. QED
  BY <1>2, <1>4, <1>5, <1>6, Steps

LEMMA NextFilesAreKept == IInv /\ FilesAreKept /\ [Next]_vars => FilesAreKept'
<1> SUFFICES ASSUME IInv, FilesAreKept, [Next]_vars, NEW u \in Uploads,
                    \/ Waits(u)' \/ u \in Range(saved') \/ request'[u] \in {"stored", "listed"}
                    \/ row'[u] \in Listed \/ u \in outbox' \/ copy'[u] \in Listed
             PROVE  FileOrGone(u)'
  BY DEF FilesAreKept, Listed
<1>1. \/ Waits(u) \/ u \in Range(saved) \/ request[u] \in {"stored", "listed"}
      \/ row[u] \in Listed \/ u \in outbox \/ copy[u] \in Listed
      \/ u \in objects'
  BY ListComes, RequestComes, ListMoves, CopyMoves
<1>2. CASE u \in objects'
  BY <1>2 DEF FileOrGone
<1>3. CASE FileOrGone(u)
  BY <1>3, FileStays
<1>4. QED
  BY <1>1, <1>2, <1>3 DEF FilesAreKept

LEMMA InitFilesAreKept == Init => FilesAreKept
<1> SUFFICES ASSUME Init PROVE FilesAreKept
  OBVIOUS
<1>1. Range(<<>>) = {}
  BY DEF Range
<1>2. QED
  BY <1>1 DEF Init, FilesAreKept, Waits, Listed

\* No job is presented to the worker whose file the portal has not stored.
THEOREM JobCorrect == Spec => []JobHasItsFile
<1>1. IInv /\ FilesAreKept => JobHasItsFile
  BY DEF FilesAreKept, FileOrGone, JobHasItsFile
<1>2. QED
  BY <1>1, InitFilesAreKept, NextFilesAreKept, OrderHolds, PTL DEF Spec

-----------------------------------------------------------------------------
(***************************************************************************)
(* No job is lost without a trace                                          *)
(***************************************************************************)
\* Of the steps that touch a document, only MarkProcessing writes "processing",
\* and only for the job in hand.
LEMMA ProcessingComes ==
  ASSUME IInv, [Next]_vars, NEW u \in Uploads, row'[u] = "processing"
  PROVE  row[u] = "processing" \/ worker'.job = u
<1>1. ASSUME NEW v \in Uploads, Handler(v) \/ Delete(v)
      PROVE  row[u] = "processing"
  BY <1>1 DEF IInv, TypeOK, Handler, Put, IndexDocument, EnqueuePushes, EnqueueThrows,
              EnqueueNotReady, ParseHere, Delete, FindRemoved, RemoveObject, RemoveDocument, storeVars
<1>2. CASE MarkProcessing
  <2>1. /\ Job \in Uploads
        /\ row' = Updated(Job, "processing")
        /\ worker'.job = worker.job
    BY <1>2, JobInHand, GoesSomewhere DEF IInv, MarkProcessing, Places
  <2>2. u # Job => row'[u] = row[u]
    BY <2>1, UpdatedKeepsList DEF IInv, Listed
  <2>3. QED
    BY <2>1, <2>2 DEF Job
<1>3. CASE Close
  <2>1. Job \in Uploads /\ row' = Updated(Job, worker.verdict)
    BY <1>3, JobInHand DEF IInv, Close, FinalRow
  <2>2. worker.verdict \in Listed /\ worker.verdict # "processing"
    BY DEF IInv, TypeOK, WorkerState, Listed
  <2>3. QED
    BY <2>1, <2>2, UpdatedKeepsList DEF IInv
<1>4. CASE Fetch \/ ParseAndBulk \/ Import \/ Pop \/ Surroundings \/ UNCHANGED vars
  BY <1>4 DEF Fetch, ParseAndBulk, Import, Pop, Surroundings, PopReplyLost, WorkerCrash, PortalCrash,
              Save, RedisStop, RedisStart, Evict, OsStop, OsStart, Repair, Mirror, storeVars, vars
<1>5. QED
  BY <1>1, <1>2, <1>3, <1>4, Steps DEF Turn

\* A job leaves the worker with its verdict in the document, or for a reason.
LEMMA JobLeaves ==
  ASSUME IInv, [Next]_vars, NEW u \in Uploads, worker.job = u
  PROVE  \/ worker'.job = u
         \/ row'[u] \in {"completed", "failed"}
         \/ row[u] \notin Listed /\ row'[u] = row[u] /\ request' = request
         \/ count["osOutage"] > 0
         \/ count'["workerCrash"] > 0
<1>1. ASSUME NEW v \in Uploads, Handler(v) \/ Delete(v)
      PROVE  worker' = worker
  BY <1>1 DEF Handler, Put, IndexDocument, EnqueuePushes, EnqueueThrows, EnqueueNotReady,
              ParseHere, Delete, FindRemoved, RemoveObject, RemoveDocument
<1>2. CASE Pop
  BY <1>2, NobodyAssumption DEF IInv, WorkerOrder, Pop
<1>3. CASE MarkProcessing \/ Fetch \/ ParseAndBulk \/ Import
  BY <1>3, GoesSomewhere, EndsSomewhere DEF IInv, MarkProcessing, Fetch, ParseAndBulk, Import, Places
<1>4. CASE Close
  <2>1. /\ row' = Updated(u, worker.verdict)
        /\ request' = request
    BY <1>4 DEF Close, FinalRow, Job, portalVars
  <2>2. worker.verdict \in {"completed", "failed"} /\ row \in [Uploads -> Status]
    BY DEF IInv, TypeOK, WorkerState
  <2>3. ~osUp => count["osOutage"] > 0
    BY DEF IInv, Recorded
  <2>4. QED
    BY <2>1, <2>2, <2>3 DEF Updated
<1>5. CASE WorkerCrash
  BY <1>5, IncidentCounts DEF IInv, WorkerCrash
<1>6. ASSUME Surroundings, ~WorkerCrash
      PROVE  worker' = worker
  BY <1>6 DEF Surroundings, PopReplyLost, PortalCrash, Save, RedisStop, RedisStart,
              Evict, OsStop, OsStart, Repair, Mirror
<1>7. CASE UNCHANGED vars
  BY <1>7 DEF vars
<1>8. QED
  BY <1>1, <1>2, <1>3, <1>4, <1>5, <1>6, <1>7, Steps DEF Turn

LEMMA NextProcessingIsHeld == IInv /\ ProcessingIsHeld /\ [Next]_vars => ProcessingIsHeld'
<1> SUFFICES ASSUME IInv, ProcessingIsHeld, [Next]_vars, NEW u \in Uploads, row'[u] = "processing"
             PROVE  Holds(u)' \/ count'["workerCrash"] > 0 \/ count'["osOutage"] > 0
  BY DEF ProcessingIsHeld
<1>1. \A k \in {"workerCrash", "osOutage"} : count[k] > 0 => count'[k] > 0
  BY CountsGrow DEF IInv, Kinds
<1>2. CASE worker'.job = u
  BY <1>2 DEF Holds
<1>3. CASE row[u] = "processing"
  <2>1. worker.job = u \/ count["workerCrash"] > 0 \/ count["osOutage"] > 0
    BY <1>3 DEF ProcessingIsHeld, Holds
  <2>2. CASE worker.job = u
    BY <1>1, <1>3, <2>2, JobLeaves DEF Holds, Listed
  <2>3. QED
    BY <1>1, <2>1, <2>2
<1>4. QED
  BY <1>2, <1>3, ProcessingComes

\* An upload that says "processing" is in the worker's hands unless the worker
\* died or OpenSearch was away.
THEOREM HeldCorrect == Spec => []ProcessingIsHeld
<1>1. Init => ProcessingIsHeld
  BY DEF Init, ProcessingIsHeld
<1>2. QED
  BY <1>1, NextProcessingIsHeld, OrderHolds, PTL DEF Spec

\* A document is pending again never: the status comes with the document.
LEMMA PendingComes ==
  ASSUME IInv, [Next]_vars, NEW u \in Uploads, row'[u] = "pending"
  PROVE  row[u] = "pending" \/ request[u] = "stored"
<1>1. ASSUME NEW v \in Uploads, Handler(v) \/ Delete(v)
      PROVE  row[u] = "pending" \/ request[u] = "stored"
  BY <1>1 DEF IInv, TypeOK, Handler, Put, IndexDocument, EnqueuePushes, EnqueueThrows, Moves,
              EnqueueNotReady, ParseHere, Delete, FindRemoved, RemoveObject, RemoveDocument, storeVars
<1>2. CASE MarkProcessing
  <2>1. Job \in Uploads /\ row' = Updated(Job, "processing")
    BY <1>2, JobInHand DEF IInv, MarkProcessing
  <2>2. QED
    BY <2>1, UpdatedKeepsList DEF IInv, Listed
<1>3. CASE Close
  <2>1. Job \in Uploads /\ row' = Updated(Job, worker.verdict)
    BY <1>3, JobInHand DEF IInv, Close, FinalRow
  <2>2. worker.verdict \in Listed /\ worker.verdict # "pending"
    BY DEF IInv, TypeOK, WorkerState, Listed
  <2>3. QED
    BY <2>1, <2>2, UpdatedKeepsList DEF IInv
<1>4. CASE Fetch \/ ParseAndBulk \/ Import \/ Pop \/ Surroundings \/ UNCHANGED vars
  BY <1>4 DEF Fetch, ParseAndBulk, Import, Pop, Surroundings, PopReplyLost, WorkerCrash, PortalCrash,
              Save, RedisStop, RedisStart, Evict, OsStop, OsStart, Repair, Mirror, storeVars, vars
<1>5. QED
  BY <1>1, <1>2, <1>3, <1>4, Steps DEF Turn

LossHappened == \E k \in Lossy : count[k] > 0

\* A job leaves the list for the worker's hands, or is lost with the list.
LEMMA ListLeaves ==
  ASSUME IInv, [Next]_vars, NEW u \in Uploads, Waits(u)
  PROVE  Waits(u)' \/ worker'.job = u \/ LossHappened'
<1>1. queue \in Seq(Uploads)
  BY DEF IInv, TypeOK
<1>2. ASSUME NEW v \in Uploads, queue' = Pushed(v)
      PROVE  Waits(u)'
  BY <1>1, <1>2, PushedList DEF Waits
<1>3. CASE Pop
  <2>1. queue # <<>> /\ queue' = Taken /\ worker'.job = Last(queue)
    BY <1>3, PopTypeOK DEF IInv, Pop
  <2>2. QED
    BY <1>1, <2>1, TakenList DEF Waits
<1>4. CASE PopReplyLost \/ Evict
  <2>1. count'["lostReply"] > 0 \/ count'["eviction"] > 0
    BY <1>4, IncidentCounts DEF IInv, PopReplyLost, Evict
  <2>2. QED
    BY <2>1 DEF LossHappened, Lossy
<1>5. CASE RedisStart
  <2>1. count'["redisRestart"] > 0
    BY <1>5 DEF IInv, Recorded, RedisStart
  <2>2. QED
    BY <2>1 DEF LossHappened, Lossy
<1>6. CASE queue' = queue
  BY <1>6 DEF Waits
<1>7. ASSUME NEW v \in Uploads, Handler(v) \/ Delete(v) \/ Repair(v)
      PROVE  queue' = queue \/ queue' = Pushed(v)
  BY <1>7 DEF Handler, Put, IndexDocument, EnqueuePushes, EnqueueThrows, EnqueueNotReady,
              ParseHere, Delete, FindRemoved, RemoveObject, RemoveDocument, Repair, redisVars
<1>8. ASSUME \/ Turn \/ UNCHANGED vars
             \/ WorkerCrash \/ Save \/ RedisStop \/ OsStop \/ OsStart
             \/ \E v \in Uploads : Mirror(v)
             \/ \E portal \in {"it", "cert"} : PortalCrash(portal)
      PROVE  queue' = queue
  BY <1>8 DEF Turn, MarkProcessing, Fetch, ParseAndBulk, Import, Close, WorkerCrash, Save,
              RedisStop, OsStop, OsStart, Mirror, PortalCrash, vars, redisVars
<1>9. QED
  BY <1>2, <1>3, <1>4, <1>5, <1>6, <1>7, <1>8, Steps DEF Surroundings

\* "queued" is answered when the job is in the list.
LEMMA QueuedComes ==
  ASSUME IInv, [Next]_vars, NEW u \in Uploads, request'[u] = "queued"
  PROVE  request[u] = "queued" \/ Waits(u)'
<1>1. /\ request \in [Uploads -> {"new", "dead"} \cup Running \cup Answers]
      /\ queue \in Seq(Uploads)
  BY DEF IInv, TypeOK
<1>2. ASSUME NEW v \in Uploads, Handler(v)
      PROVE  request[u] = "queued" \/ Waits(u)'
  <2>1. CASE EnqueuePushes(v)
    <3>1. Range(queue') = Range(queue) \cup {v}
      BY <1>1, <2>1, PushedList DEF EnqueuePushes
    <3>2. QED
      BY <1>1, <2>1, <3>1 DEF EnqueuePushes, Moves, Waits
  <2>2. CASE ~EnqueuePushes(v)
    BY <1>1, <1>2, <2>2 DEF Handler, Put, AfterPutError, IndexDocument, EnqueueThrows, AfterPushError,
                            EnqueueNotReady, NotReadyAnswer, ParseHere, Moves
  <2>3. QED
    BY <2>1, <2>2
<1>3. ASSUME NEW portal \in {"it", "cert"}, PortalCrash(portal)
      PROVE  request'[u] \in {request[u], "dead"}
  BY <1>3 DEF PortalCrash
<1>4. ASSUME NEW v \in Uploads, Delete(v)
      PROVE  request' = request
  BY <1>4 DEF Delete, FindRemoved, RemoveObject, RemoveDocument
<1>5. ASSUME Pop \/ Turn \/ UNCHANGED vars
      PROVE  request' = request
  BY <1>5 DEF Pop, Turn, MarkProcessing, Fetch, ParseAndBulk, Import, Close, vars, portalVars
<1>6. ASSUME Surroundings
      PROVE  request'[u] \in {request[u], "dead"}
  BY <1>3, <1>6 DEF Surroundings, PopReplyLost, WorkerCrash, Save, RedisStop, RedisStart,
                    Evict, OsStop, OsStart, Repair, Mirror, portalVars
<1>7. QED
  BY <1>2, <1>4, <1>5, <1>6, Steps

LEMMA NextQueuedIsAccounted ==
  IInv /\ ProcessingIsHeld /\ QueuedIsAccounted /\ [Next]_vars => QueuedIsAccounted'
<1> SUFFICES ASSUME IInv, ProcessingIsHeld, QueuedIsAccounted, [Next]_vars,
                    NEW u \in Uploads, request'[u] = "queued"
             PROVE  \/ Waits(u)' \/ Holds(u)' \/ LossHappened'
                    \/ row'[u] \in {"completed", "failed", "deleted"}
  BY DEF QueuedIsAccounted, LossHappened
<1>1. LossHappened => LossHappened'
  BY CountsGrow DEF IInv, LossHappened, Lossy, Kinds
<1>2. \A k \in {"workerCrash", "osOutage"} :
        /\ count[k] > 0 => LossHappened
        /\ count'[k] > 0 => LossHappened'
  BY DEF LossHappened, Lossy
<1>3. CASE request[u] # "queued"
  BY <1>3, QueuedComes
<1>4. CASE request[u] = "queued" /\ Waits(u)
  BY <1>4, ListLeaves DEF Holds
<1>5. CASE request[u] = "queued" /\ worker.job = u
  <2>1. row[u] \notin Listed => row[u] = "deleted" \/ count["osOutage"] > 0
    BY <1>5 DEF IInv, TypeOK, Status, DocumentOrder
  <2>2. QED
    BY <1>1, <1>2, <1>5, <2>1, JobLeaves DEF Holds
<1>6. CASE request[u] = "queued" /\ row[u] \in {"completed", "failed", "deleted"}
  <2>1. row'[u] \in Listed \cup {"deleted"}
    BY <1>6, ListMoves DEF Listed
  <2>2. row'[u] # "pending"
    BY <1>6, PendingComes
  <2>3. ProcessingIsHeld'
    BY NextProcessingIsHeld
  <2>4. row'[u] = "processing" => Holds(u)' \/ LossHappened'
    BY <1>2, <2>3 DEF ProcessingIsHeld
  <2>5. QED
    BY <2>1, <2>2, <2>4 DEF Listed
<1>7. CASE LossHappened
  BY <1>1, <1>7
<1>8. QED
  BY <1>3, <1>4, <1>5, <1>6, <1>7 DEF QueuedIsAccounted, LossHappened, Holds

\* A job the portal answered "ingest_queued" for is in the list, in the worker's
\* hands or settled, unless one of the named incidents happened.
THEOREM AccountedCorrect == Spec => []QueuedIsAccounted
<1>1. Init => ProcessingIsHeld /\ QueuedIsAccounted
  BY DEF Init, ProcessingIsHeld, QueuedIsAccounted
<1>2. QED
  BY <1>1, NextProcessingIsHeld, NextQueuedIsAccounted, OrderHolds, PTL DEF Spec
===============================================================================
