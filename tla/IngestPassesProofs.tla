-------------------------- MODULE IngestPassesProofs --------------------------
(***************************************************************************)
(* Proofs about IngestPipeline, for every set of uploads, every kind of    *)
(* incident and every bound on their number: how many times the events of  *)
(* a file may be indexed, and how many times they go to Logstash.          *)
(***************************************************************************)
EXTENDS IngestPipelineProofs, FunctionTheorems, FiniteSetTheorems

USE DEF copyVars, eventVars

Repairs == count["repair"]
Restarts == count["redisRestart"]

\* The job of u that the portal may still put in the list, or parse itself.
Ahead(u) == IF request[u] \in {"new"} \cup Running THEN 1 ELSE 0
\* The pass the worker may still make over the file in its hands.
InHand(u) == IF Holds(u) /\ worker.at \in {"taken", "fetching", "bulk"} THEN 1 ELSE 0

\* The passes over the file of u, those made and those to come; and how often
\* its events went to Logstash or may still go.
Passes(u) == indexed[u] + Owed(u)
Sends(u) == relayed[u] + Owed(u)

\* The list of jobs and its snapshot hold no more jobs of u than were asked for.
ListBound(u) ==
  /\ Times(queue, u) + Ahead(u) <= 1 + Repairs
  /\ Times(saved, u) + Ahead(u) <= 1 + Repairs

\* A restart of Redis is counted when it stops, and the list it comes back with
\* is counted then: until it starts, the bound is that of the restarts before.
Bound == IF redisUp THEN (1 + Repairs) * (1 + Restarts) ELSE (1 + Repairs) * Restarts
PassBound(u) == Passes(u) <= Bound /\ Sends(u) <= Bound

PassInv == \A u \in Uploads : ListBound(u) /\ PassBound(u)

-----------------------------------------------------------------------------
(***************************************************************************)
(* How often an upload is in a list                                        *)
(***************************************************************************)
Spots(list, u) == {i \in DOMAIN list : list[i] = u}

LEMMA SpotsAreFinite ==
  ASSUME NEW list \in Seq(Uploads), NEW u
  PROVE  /\ IsFiniteSet(Spots(list, u))
         /\ Times(list, u) = Cardinality(Spots(list, u))
         /\ Times(list, u) \in Nat
<1>1. IsFiniteSet(1 .. Len(list))
  BY FS_Interval
<1>2. Spots(list, u) \subseteq 1 .. Len(list)
  BY DEF Spots
<1>3. IsFiniteSet(Spots(list, u))
  BY <1>1, <1>2, FS_Subset
<1>4. Times(list, u) = Cardinality(Spots(list, u))
  BY DEF Times, Spots
<1>5. QED
  BY <1>3, <1>4, FS_CardinalityType

LEMMA TimesOfEmpty ==
  ASSUME NEW u
  PROVE  Times(<<>>, u) = 0
<1>1. {i \in DOMAIN <<>> : <<>>[i] = u} = {}
  OBVIOUS
<1>2. QED
  BY <1>1, FS_EmptySet DEF Times

\* LPUSH moves every job one place on.
LEMMA TimesOfPushed ==
  ASSUME NEW v \in Uploads, NEW u \in Uploads, queue \in Seq(Uploads)
  PROVE  Times(Pushed(v), u) = Times(queue, u) + (IF u = v THEN 1 ELSE 0)
<1> DEFINE S == Spots(queue, u)
           T == {i \in 2 .. Len(queue) + 1 : queue[i - 1] = u}
           f == [i \in S |-> i + 1]
<1>1. /\ Pushed(v) \in Seq(Uploads)
      /\ Len(queue) \in Nat
      /\ DOMAIN Pushed(v) = 1 .. Len(queue) + 1
      /\ DOMAIN queue = 1 .. Len(queue)
      /\ Pushed(v)[1] = v
      /\ \A i \in 2 .. Len(queue) + 1 : Pushed(v)[i] = queue[i - 1]
  BY DEF Pushed
<1>2. f \in Bijection(S, T)
  <2>1. f \in [S -> T]
    BY <1>1 DEF Spots
  <2>2. \A i, j \in S : f[i] = f[j] => i = j
    BY <1>1 DEF Spots
  <2>3. \A j \in T : j - 1 \in S /\ f[j - 1] = j
    BY <1>1 DEF Spots
  <2>4. QED
    BY <2>1, <2>2, <2>3, Fun_IsBij
<1>3. /\ IsFiniteSet(S) /\ Cardinality(S) = Times(queue, u) /\ Times(queue, u) \in Nat
  BY SpotsAreFinite
<1>4. IsFiniteSet(T) /\ Cardinality(T) = Times(queue, u)
  BY <1>2, <1>3, FS_Bijection DEF ExistsBijection
<1>5. Times(Pushed(v), u) = Cardinality(Spots(Pushed(v), u))
  BY <1>1, SpotsAreFinite
<1>6. CASE u = v
  <2>1. Spots(Pushed(v), u) = T \cup {1}
    BY <1>1, <1>6 DEF Spots
  <2>2. 1 \notin T
    OBVIOUS
  <2>3. QED
    BY <1>3, <1>4, <1>5, <1>6, <2>1, <2>2, FS_AddElement
<1>7. CASE u # v
  <2>1. Spots(Pushed(v), u) = T
    BY <1>1, <1>7 DEF Spots
  <2>2. QED
    BY <1>3, <1>4, <1>5, <1>7, <2>1
<1>8. QED
  BY <1>6, <1>7

\* BRPOP takes the last job.
LEMMA TimesOfTaken ==
  ASSUME NEW u \in Uploads, queue \in Seq(Uploads), queue # <<>>
  PROVE  Times(Taken, u) + (IF u = Last(queue) THEN 1 ELSE 0) = Times(queue, u)
<1>1. /\ Len(queue) \in Nat \ {0}
      /\ DOMAIN queue = 1 .. Len(queue)
      /\ Last(queue) = queue[Len(queue)]
  BY EmptySeq DEF Last
<1>2. /\ Taken \in Seq(Uploads)
      /\ DOMAIN Taken = 1 .. Len(queue) - 1
      /\ \A i \in 1 .. Len(queue) - 1 : Taken[i] = queue[i]
  BY <1>1 DEF Taken, Front
<1>3. /\ IsFiniteSet(Spots(Taken, u)) /\ Cardinality(Spots(Taken, u)) = Times(Taken, u)
      /\ Cardinality(Spots(queue, u)) = Times(queue, u) /\ Times(Taken, u) \in Nat
  BY <1>2, SpotsAreFinite
<1>4. \A i : i \in 1 .. Len(queue) <=> i \in 1 .. Len(queue) - 1 \/ i = Len(queue)
  BY <1>1
<1>5. CASE u = Last(queue)
  <2>1. Spots(queue, u) = Spots(Taken, u) \cup {Len(queue)}
    BY <1>1, <1>2, <1>4, <1>5 DEF Spots
  <2>2. Len(queue) \notin Spots(Taken, u)
    BY <1>1, <1>2 DEF Spots
  <2>3. QED
    BY <1>3, <1>5, <2>1, <2>2, FS_AddElement
<1>6. CASE u # Last(queue)
  <2>1. Spots(queue, u) = Spots(Taken, u)
    BY <1>1, <1>2, <1>4, <1>6 DEF Spots
  <2>2. QED
    BY <1>3, <1>6, <2>1
<1>7. QED
  BY <1>5, <1>6

-----------------------------------------------------------------------------
(***************************************************************************)
(* What a step adds to the passes over a file                              *)
(***************************************************************************)
LEMMA Quantities ==
  ASSUME TypeOK, NEW u \in Uploads
  PROVE  /\ indexed[u] \in Nat /\ relayed[u] \in Nat
         /\ Times(queue, u) \in Nat /\ Times(saved, u) \in Nat
         /\ Ahead(u) \in {0, 1} /\ InHand(u) \in {0, 1}
         /\ Repairs \in Nat /\ Restarts \in Nat
         /\ Passes(u) = indexed[u] + (Times(queue, u) + InHand(u) + Ahead(u))
         /\ Sends(u) = relayed[u] + (Times(queue, u) + InHand(u) + Ahead(u))
         /\ Passes(u) \in Nat /\ Sends(u) \in Nat
<1>1. /\ indexed[u] \in Nat /\ relayed[u] \in Nat
      /\ Times(queue, u) \in Nat /\ Times(saved, u) \in Nat
      /\ Repairs \in Nat /\ Restarts \in Nat
  BY SpotsAreFinite DEF TypeOK, Repairs, Restarts, Kinds
<1>2. /\ Ahead(u) \in {0, 1} /\ InHand(u) \in {0, 1}
      /\ Owed(u) = Times(queue, u) + InHand(u) + Ahead(u)
  BY DEF Ahead, InHand, Owed
<1>3. QED
  BY <1>1, <1>2 DEF Passes, Sends

\* A step that adds no pass over u: a job leaves one place for at most one other.
AddsNone(u) ==
  /\ Passes(u)' <= Passes(u) /\ Sends(u)' <= Sends(u)
  /\ Times(queue, u)' + Ahead(u)' <= Times(queue, u) + Ahead(u)
  /\ saved' = saved \/ saved' = queue
  /\ Ahead(u)' <= Ahead(u)
  /\ redisUp' = redisUp
  /\ Repairs' = Repairs /\ Restarts' = Restarts

LEMMA OtherIncident ==
  ASSUME TypeOK, NEW k, Incident(k), k \notin {"repair", "redisRestart"}
  PROVE  Repairs' = Repairs /\ Restarts' = Restarts
BY IncidentsAssumption DEF TypeOK, Incident, Repairs, Restarts

\* What a step does to each quantity is enough to see that it adds no pass.
LEMMA Balance ==
  ASSUME NEW u \in Uploads,
         saved' = saved \/ saved' = queue,
         redisUp' = redisUp,
         Repairs' = Repairs, Restarts' = Restarts,
         Ahead(u)' <= Ahead(u),
         Times(queue, u)' + Ahead(u)' <= Times(queue, u) + Ahead(u),
         indexed'[u] + (Times(queue, u)' + InHand(u)' + Ahead(u)')
           <= indexed[u] + (Times(queue, u) + InHand(u) + Ahead(u)),
         relayed'[u] + (Times(queue, u)' + InHand(u)' + Ahead(u)')
           <= relayed[u] + (Times(queue, u) + InHand(u) + Ahead(u))
  PROVE  AddsNone(u)
<1>1. /\ Passes(u)' = indexed'[u] + (Times(queue, u)' + InHand(u)' + Ahead(u)')
      /\ Sends(u)' = relayed'[u] + (Times(queue, u)' + InHand(u)' + Ahead(u)')
  BY DEF Passes, Sends, Owed, InHand, Ahead
<1>2. /\ Passes(u) = indexed[u] + (Times(queue, u) + InHand(u) + Ahead(u))
      /\ Sends(u) = relayed[u] + (Times(queue, u) + InHand(u) + Ahead(u))
  BY DEF Passes, Sends, Owed, InHand, Ahead
<1>3. QED
  BY <1>1, <1>2 DEF AddsNone

LEMMA HandlerAddsNone ==
  ASSUME TypeOK, NEW v \in Uploads, Handler(v), NEW u \in Uploads
  PROVE  AddsNone(u)
<1>1. /\ indexed[u] \in Nat /\ relayed[u] \in Nat /\ Times(queue, u) \in Nat
      /\ Ahead(u) \in {0, 1} /\ InHand(u) \in {0, 1}
  BY Quantities
<1>2. /\ request \in [Uploads -> {"new", "dead"} \cup Running \cup Answers]
      /\ indexed \in [Uploads -> Nat] /\ queue \in Seq(Uploads)
  BY DEF TypeOK
<1>3. /\ saved' = saved /\ redisUp' = redisUp /\ worker' = worker
      /\ count' = count \/ EnqueueThrows(v)
  BY DEF Handler, Put, IndexDocument, EnqueuePushes, EnqueueThrows, EnqueueNotReady, ParseHere,
         redisVars
<1>4. Repairs' = Repairs /\ Restarts' = Restarts
  BY <1>3, OtherIncident DEF EnqueueThrows, Repairs, Restarts
<1>5. InHand(u)' = InHand(u)
  BY <1>3 DEF InHand, Holds
<1>6. \A w \in Uploads : queue' = Pushed(w) =>
        Times(queue, u)' = Times(queue, u) + (IF u = w THEN 1 ELSE 0)
  BY <1>2, TimesOfPushed
<1>7. CASE Put(v) \/ IndexDocument(v) \/ EnqueueNotReady(v)
  <2>1. /\ Ahead(u)' <= Ahead(u)
        /\ indexed' = indexed /\ relayed' = relayed /\ queue' = queue
    BY <1>2, <1>7 DEF Put, AfterPutError, IndexDocument, EnqueueNotReady, NotReadyAnswer, Moves,
                      Ahead, Running, storeVars, redisVars
  <2>2. Times(queue, u)' = Times(queue, u)
    BY <2>1
  <2>3. Ahead(u)' \in {0, 1}
    BY DEF Ahead
  <2>4. QED
    BY <1>1, <1>3, <1>4, <1>5, <2>1, <2>2, <2>3, Balance
<1>8. CASE EnqueuePushes(v) \/ EnqueueThrows(v)
  <2>1. Ahead(u)' = Ahead(u) - (IF u = v THEN 1 ELSE 0)
    BY <1>2, <1>8 DEF EnqueuePushes, EnqueueThrows, AfterPushError, Moves, Ahead, Running
  <2>2. indexed' = indexed /\ relayed' = relayed /\ (queue' = queue \/ queue' = Pushed(v))
    BY <1>8 DEF EnqueuePushes, EnqueueThrows, storeVars
  <2>3. \/ Times(queue, u)' = Times(queue, u)
        \/ Times(queue, u)' = Times(queue, u) + (IF u = v THEN 1 ELSE 0)
    BY <1>6, <2>2
  <2>4. QED
    BY <1>1, <1>3, <1>4, <1>5, <2>1, <2>2, <2>3, Balance
<1>9. CASE ParseHere(v)
  <2>1. Ahead(u)' = Ahead(u) - (IF u = v THEN 1 ELSE 0)
    BY <1>2, <1>9 DEF ParseHere, Moves, Ahead, Running
  <2>2. indexed'[u] <= indexed[u] + (IF u = v THEN 1 ELSE 0)
    BY <1>2, <1>9 DEF ParseHere
  <2>3. queue' = queue /\ indexed'[u] \in Nat /\ relayed' = relayed
    BY <1>2, <1>9 DEF ParseHere, redisVars
  <2>4. Times(queue, u)' = Times(queue, u)
    BY <2>3
  <2>5. QED
    BY <1>1, <1>3, <1>4, <1>5, <2>1, <2>2, <2>3, <2>4, Balance
<1>10. QED
  BY <1>7, <1>8, <1>9 DEF Handler

LEMMA DeleteAddsNone ==
  ASSUME TypeOK, NEW v \in Uploads, Delete(v), NEW u \in Uploads
  PROVE  AddsNone(u)
<1>1. UNCHANGED <<request, indexed, relayed, redisVars, worker, count>>
  BY DEF Delete, FindRemoved, RemoveObject, RemoveDocument, storeVars
<1>2. /\ indexed[u] \in Nat /\ relayed[u] \in Nat /\ Times(queue, u) \in Nat
      /\ Ahead(u) \in {0, 1} /\ InHand(u) \in {0, 1}
  BY Quantities
<1>3. /\ Times(queue, u)' = Times(queue, u) /\ Ahead(u)' = Ahead(u) /\ InHand(u)' = InHand(u)
      /\ Repairs' = Repairs /\ Restarts' = Restarts
  BY <1>1 DEF redisVars, Ahead, InHand, Holds, Repairs, Restarts
<1>4. QED
  BY <1>1, <1>2, <1>3, Balance DEF redisVars

\* BRPOP moves one pass from the list to the hands of the worker, or loses it.
LEMMA PopAddsNone ==
  ASSUME IInv, Pop \/ PopReplyLost, NEW u \in Uploads
  PROVE  AddsNone(u)
<1>1. /\ indexed[u] \in Nat /\ relayed[u] \in Nat /\ Times(queue, u) \in Nat
      /\ Ahead(u) \in {0, 1} /\ InHand(u) \in {0, 1}
  BY Quantities DEF IInv
<1>2. queue \in Seq(Uploads) /\ queue # <<>> /\ queue' = Taken
  BY DEF IInv, TypeOK, Pop, PopReplyLost
<1>3. /\ Times(queue, u)' + (IF u = Last(queue) THEN 1 ELSE 0) = Times(queue, u)
      /\ Times(queue, u)' \in Nat
  BY <1>2, TimesOfTaken, TakenList, SpotsAreFinite
<1>4. /\ request' = request /\ indexed' = indexed /\ relayed' = relayed /\ saved' = saved /\ redisUp' = redisUp
  BY DEF Pop, PopReplyLost, portalVars, storeVars
<1>5. Ahead(u)' = Ahead(u)
  BY <1>4 DEF Ahead
<1>6. Repairs' = Repairs /\ Restarts' = Restarts
  BY OtherIncident DEF IInv, Pop, PopReplyLost, Repairs, Restarts
<1>7. CASE Pop
  <2>1. worker'.at = "taken" /\ worker'.job = Last(queue)
    BY <1>7, PopTypeOK DEF IInv
  <2>2. InHand(u)' = IF u = Last(queue) THEN 1 ELSE 0
    BY <2>1 DEF InHand, Holds
  <2>3. QED
    BY <1>1, <1>3, <1>4, <1>5, <1>6, <2>2, Balance
<1>8. CASE PopReplyLost
  <2>1. InHand(u)' = InHand(u)
    BY <1>8 DEF PopReplyLost, InHand, Holds
  <2>2. QED
    BY <1>1, <1>3, <1>4, <1>5, <1>6, <2>1, Balance
<1>9. QED
  BY <1>7, <1>8

\* Only the bulk of the file in hand indexes its events, and the worker is done
\* with the file then.
LEMMA TurnAddsNone ==
  ASSUME IInv, Turn, NEW u \in Uploads
  PROVE  AddsNone(u)
<1>1. /\ indexed[u] \in Nat /\ relayed[u] \in Nat /\ Times(queue, u) \in Nat
      /\ Ahead(u) \in {0, 1} /\ InHand(u) \in {0, 1}
  BY Quantities DEF IInv
<1>2. UNCHANGED <<request, redisVars, count>>
  BY DEF Turn, MarkProcessing, Fetch, ParseAndBulk, Import, Close, portalVars
<1>3. /\ Times(queue, u)' = Times(queue, u) /\ Ahead(u)' = Ahead(u)
      /\ Repairs' = Repairs /\ Restarts' = Restarts
      /\ saved' = saved /\ redisUp' = redisUp
  BY <1>2 DEF redisVars, Ahead, Repairs, Restarts
<1>4. CASE ParseAndBulk
  <2>1. Job \in Uploads /\ worker.at = "bulk"
    BY <1>4, JobInHand DEF IInv, ParseAndBulk
  <2>2. worker'.at \in {"importing", "closing"}
    BY <1>4, GoesSomewhere, EndsSomewhere DEF IInv, ParseAndBulk, Places
  <2>3. InHand(u) = (IF u = Job THEN 1 ELSE 0) /\ InHand(u)' = 0
    BY <2>1, <2>2 DEF InHand, Holds, Job
  <2>4. PICK written, sent \in BOOLEAN :
          /\ indexed' = [indexed EXCEPT ![Job] = IF written THEN indexed[Job] + 1 ELSE indexed[Job]]
          /\ relayed' = [relayed EXCEPT ![Job] = IF sent THEN relayed[Job] + 1 ELSE relayed[Job]]
    BY <1>4 DEF ParseAndBulk
  <2>5. /\ indexed'[u] \in Nat /\ indexed'[u] <= indexed[u] + (IF u = Job THEN 1 ELSE 0)
        /\ relayed'[u] \in Nat /\ relayed'[u] <= relayed[u] + (IF u = Job THEN 1 ELSE 0)
    BY <2>1, <2>4 DEF IInv, TypeOK
  <2>6. QED
    BY <1>1, <1>3, <2>3, <2>5, Balance
<1>5. CASE MarkProcessing \/ Fetch
  <2>1. /\ worker.at \in {"taken", "fetching"} /\ worker'.job = worker.job
        /\ indexed' = indexed /\ relayed' = relayed
    BY <1>5, GoesSomewhere, EndsSomewhere DEF IInv, MarkProcessing, Fetch, Places, storeVars
  <2>2. InHand(u)' <= InHand(u) /\ InHand(u)' \in {0, 1}
    BY <2>1 DEF InHand, Holds
  <2>3. QED
    BY <1>1, <1>3, <2>1, <2>2, Balance
<1>6. CASE Import \/ Close
  <2>1. worker'.at \in {"closing", "idle"} /\ indexed' = indexed /\ relayed' = relayed
    BY <1>6, EndsSomewhere, IdleIsState DEF IInv, Import, Close, storeVars
  <2>2. InHand(u)' = 0
    BY <2>1 DEF InHand
  <2>3. QED
    BY <1>1, <1>3, <2>1, <2>2, Balance
<1>7. QED
  BY <1>4, <1>5, <1>6 DEF Turn

LEMMA QuietAddsNone ==
  ASSUME TypeOK, NEW u \in Uploads,
         \/ Save \/ Evict \/ WorkerCrash \/ OsStop \/ OsStart \/ UNCHANGED vars
         \/ \E v \in Uploads : Mirror(v)
         \/ \E portal \in {"it", "cert"} : PortalCrash(portal)
  PROVE  AddsNone(u)
<1>1. /\ indexed[u] \in Nat /\ relayed[u] \in Nat /\ Times(queue, u) \in Nat
      /\ Ahead(u) \in {0, 1} /\ InHand(u) \in {0, 1}
  BY Quantities
<1>2. /\ indexed' = indexed /\ relayed' = relayed /\ redisUp' = redisUp
      /\ saved' = saved \/ saved' = queue
      /\ queue' = queue \/ queue' = <<>>
  BY DEF Save, Evict, WorkerCrash, OsStop, OsStart, PortalCrash, Mirror, vars, storeVars, redisVars
<1>3. Repairs' = Repairs /\ Restarts' = Restarts
  BY OtherIncident DEF Save, Evict, WorkerCrash, OsStop, OsStart, PortalCrash, Mirror, vars, Repairs, Restarts
<1>4. Times(queue, u)' \in {Times(queue, u), 0}
  BY <1>2, TimesOfEmpty
<1>5. InHand(u)' \in {InHand(u), 0}
  BY IdleIsState DEF Save, Evict, WorkerCrash, OsStop, OsStart, PortalCrash, Mirror, vars, InHand, Holds
<1>6. Ahead(u)' \in {Ahead(u), 0}
  <2>1. ASSUME NEW portal \in {"it", "cert"}, PortalCrash(portal)
        PROVE  request'[u] \in {request[u], "dead"}
    BY <2>1 DEF PortalCrash
  <2>2. request'[u] \in {request[u], "dead"}
    BY <2>1 DEF Save, Evict, WorkerCrash, OsStop, OsStart, Mirror, vars, portalVars
  <2>3. QED
    BY <2>2 DEF Ahead, Running
<1>7. QED
  BY <1>1, <1>2, <1>3, <1>4, <1>5, <1>6, Balance

\* The steps that may add a pass are the repair script and a restart of Redis.
LEMMA OthersAddNone ==
  ASSUME IInv, [Next]_vars, ~RedisStop, ~RedisStart, \A v \in Uploads : ~Repair(v),
         NEW u \in Uploads
  PROVE  AddsNone(u)
<1>1. TypeOK
  BY DEF IInv
<1>2. CASE UNCHANGED vars
  BY <1>1, <1>2, QuietAddsNone
<1>3. CASE \E v \in Uploads : Handler(v) \/ Delete(v)
  BY <1>1, <1>3, HandlerAddsNone, DeleteAddsNone
<1>4. CASE Pop \/ Turn
  BY <1>4, PopAddsNone, TurnAddsNone
<1>5. CASE Surroundings
  BY <1>1, <1>5, QuietAddsNone, PopAddsNone DEF Surroundings
<1>6. QED
  BY <1>2, <1>3, <1>4, <1>5, Steps

LEMMA AddsNoneKeeps ==
  ASSUME TypeOK, TypeOK', NEW u \in Uploads, ListBound(u), PassBound(u), AddsNone(u)
  PROVE  ListBound(u)' /\ PassBound(u)'
<1>1. /\ Times(queue, u) \in Nat /\ Times(saved, u) \in Nat /\ Ahead(u) \in {0, 1}
      /\ Repairs \in Nat /\ Restarts \in Nat /\ Passes(u) \in Nat /\ Sends(u) \in Nat
  BY Quantities
<1>2. /\ Times(queue, u)' \in Nat /\ Ahead(u)' \in {0, 1}
      /\ Passes(u)' \in Nat /\ Sends(u)' \in Nat
  <2>1. indexed'[u] \in Nat /\ relayed'[u] \in Nat /\ Times(queue', u) \in Nat
    BY SpotsAreFinite DEF TypeOK
  <2>2. Ahead(u)' \in {0, 1} /\ InHand(u)' \in {0, 1}
    BY DEF Ahead, InHand
  <2>3. /\ Passes(u)' = indexed'[u] + (Times(queue', u) + InHand(u)' + Ahead(u)')
        /\ Sends(u)' = relayed'[u] + (Times(queue', u) + InHand(u)' + Ahead(u)')
    BY DEF Passes, Sends, Owed, InHand, Ahead
  <2>4. QED
    BY <2>1, <2>2, <2>3
<1>3. ListBound(u)'
  <2>1. Times(queue, u)' + Ahead(u)' <= 1 + Repairs'
    BY <1>1, <1>2 DEF ListBound, AddsNone
  <2>2. Times(saved, u)' \in {Times(saved, u), Times(queue, u)}
    <3>1. saved' = saved \/ saved' = queue
      BY DEF AddsNone
    <3>2. QED
      BY <3>1
  <2>3. Times(saved, u)' + Ahead(u)' <= 1 + Repairs'
    BY <1>1, <1>2, <2>2 DEF ListBound, AddsNone
  <2>4. QED
    BY <2>1, <2>3 DEF ListBound
<1>4. PassBound(u)'
  <2>1. (1 + Repairs) * (1 + Restarts) \in Nat /\ (1 + Repairs) * Restarts \in Nat
    BY <1>1
  <2>2. Bound \in Nat
    BY <2>1 DEF Bound
  <2>3. Bound' = Bound
    BY DEF Bound, AddsNone
  <2>4. QED
    BY <1>1, <1>2, <2>2, <2>3 DEF PassBound, AddsNone
<1>5. QED
  BY <1>3, <1>4

-----------------------------------------------------------------------------
(***************************************************************************)
(* The repair script and the restart of Redis                              *)
(***************************************************************************)
LEMMA RepairKeeps ==
  ASSUME IInv, NEW v \in Uploads, Repair(v), NEW u \in Uploads, ListBound(u), PassBound(u)
  PROVE  ListBound(u)' /\ PassBound(u)'
<1>1. /\ indexed[u] \in Nat /\ relayed[u] \in Nat
      /\ Times(queue, u) \in Nat /\ Times(saved, u) \in Nat
      /\ Ahead(u) \in {0, 1} /\ InHand(u) \in {0, 1} /\ Repairs \in Nat /\ Restarts \in Nat
      /\ Passes(u) = indexed[u] + (Times(queue, u) + InHand(u) + Ahead(u))
      /\ Sends(u) = relayed[u] + (Times(queue, u) + InHand(u) + Ahead(u))
  BY Quantities DEF IInv
<1>2. /\ UNCHANGED <<request, indexed, relayed, saved, redisUp, worker>> /\ redisUp
      /\ queue' = Pushed(v)
  BY DEF Repair, portalVars, storeVars
<1>3. Repairs' = Repairs + 1 /\ Restarts' = Restarts
  BY DEF IInv, TypeOK, Repair, Incident, Repairs, Restarts, Kinds
<1>4. /\ Times(queue, u)' = Times(queue, u) + (IF u = v THEN 1 ELSE 0)
      /\ Times(saved, u)' = Times(saved, u)
      /\ Ahead(u)' = Ahead(u) /\ InHand(u)' = InHand(u)
  BY <1>2, TimesOfPushed DEF IInv, TypeOK, Ahead, InHand, Holds
<1>5. /\ Passes(u)' = indexed'[u] + (Times(queue, u)' + InHand(u)' + Ahead(u)')
      /\ Sends(u)' = relayed'[u] + (Times(queue, u)' + InHand(u)' + Ahead(u)')
  BY DEF Passes, Sends, Owed, InHand, Ahead
<1>6. Passes(u)' <= Passes(u) + 1 /\ Sends(u)' <= Sends(u) + 1
  BY <1>1, <1>2, <1>4, <1>5
<1>7. (1 + Repairs') * (1 + Restarts') = (1 + Repairs) * (1 + Restarts) + (1 + Restarts)
  BY <1>1, <1>3
<1>8. (1 + Repairs) * (1 + Restarts) \in Nat /\ Passes(u)' \in Nat /\ Sends(u)' \in Nat
  BY <1>1, <1>2, <1>4, <1>5
<1>9. PassBound(u)'
  <2>1. /\ Bound = (1 + Repairs) * (1 + Restarts)
        /\ Bound' = (1 + Repairs') * (1 + Restarts')
    BY <1>2 DEF Bound
  <2>2. QED
    BY <1>1, <1>6, <1>7, <1>8, <2>1 DEF PassBound
<1>10. ListBound(u)'
  BY <1>1, <1>3, <1>4 DEF ListBound
<1>11. QED
  BY <1>9, <1>10

LEMMA RedisStopKeeps ==
  ASSUME IInv, RedisStop, NEW u \in Uploads, ListBound(u), PassBound(u)
  PROVE  ListBound(u)' /\ PassBound(u)'
<1>1. Repairs \in Nat /\ Restarts \in Nat
  BY Quantities DEF IInv
<1>2. /\ UNCHANGED <<request, indexed, relayed, queue, saved, worker>>
      /\ redisUp /\ ~redisUp'
  BY DEF RedisStop, portalVars, storeVars
<1>3. Repairs' = Repairs /\ Restarts' = 1 + Restarts
  BY DEF IInv, TypeOK, RedisStop, Incident, Repairs, Restarts, Kinds
<1>4. /\ Times(queue, u)' = Times(queue, u) /\ Times(saved, u)' = Times(saved, u)
      /\ Ahead(u)' = Ahead(u) /\ Passes(u)' = Passes(u) /\ Sends(u)' = Sends(u)
  BY <1>2 DEF Ahead, Passes, Sends, Owed, Holds
<1>5. Bound' = Bound
  <2>1. 1 + Restarts = Restarts'
    BY <1>1, <1>3
  <2>2. Bound = (1 + Repairs) * (1 + Restarts) /\ Bound' = (1 + Repairs') * Restarts'
    BY <1>2 DEF Bound
  <2>3. QED
    BY <1>3, <2>1, <2>2
<1>6. QED
  BY <1>1, <1>2, <1>3, <1>4, <1>5 DEF ListBound, PassBound

\* The list comes back as it was saved: no longer than the list bound allows.
LEMMA RedisStartKeeps ==
  ASSUME IInv, RedisStart, NEW u \in Uploads, ListBound(u), PassBound(u)
  PROVE  ListBound(u)' /\ PassBound(u)'
<1>1. /\ indexed[u] \in Nat /\ relayed[u] \in Nat
      /\ Times(queue, u) \in Nat /\ Times(saved, u) \in Nat
      /\ Ahead(u) \in {0, 1} /\ InHand(u) \in {0, 1} /\ Repairs \in Nat /\ Restarts \in Nat
      /\ Passes(u) = indexed[u] + (Times(queue, u) + InHand(u) + Ahead(u))
      /\ Sends(u) = relayed[u] + (Times(queue, u) + InHand(u) + Ahead(u))
  BY Quantities DEF IInv
<1>2. /\ UNCHANGED <<request, indexed, relayed, saved, worker, count>>
      /\ ~redisUp /\ redisUp' /\ queue' = saved
  BY DEF RedisStart, portalVars, storeVars
<1>3. /\ Times(queue, u)' = Times(saved, u) /\ Times(saved, u)' = Times(saved, u)
      /\ Ahead(u)' = Ahead(u) /\ InHand(u)' = InHand(u)
      /\ Repairs' = Repairs /\ Restarts' = Restarts
  BY <1>2 DEF Ahead, InHand, Holds, Repairs, Restarts
<1>4. /\ Passes(u)' = indexed'[u] + (Times(queue, u)' + InHand(u)' + Ahead(u)')
      /\ Sends(u)' = relayed'[u] + (Times(queue, u)' + InHand(u)' + Ahead(u)')
  BY DEF Passes, Sends, Owed, InHand, Ahead
<1>5. Passes(u)' <= Passes(u) + (1 + Repairs) /\ Sends(u)' <= Sends(u) + (1 + Repairs)
  BY <1>1, <1>2, <1>3, <1>4 DEF ListBound
<1>6. (1 + Repairs) * Restarts \in Nat
  BY <1>1
<1>7. (1 + Repairs) * (1 + Restarts) = (1 + Repairs) * Restarts + (1 + Repairs)
  BY <1>1
<1>8. Passes(u) <= (1 + Repairs) * Restarts /\ Sends(u) <= (1 + Repairs) * Restarts
  BY <1>2 DEF PassBound, Bound
<1>9. /\ Passes(u)' <= (1 + Repairs) * (1 + Restarts)
      /\ Sends(u)' <= (1 + Repairs) * (1 + Restarts)
  BY <1>1, <1>2, <1>3, <1>4, <1>5, <1>6, <1>7, <1>8
<1>10. Bound' = (1 + Repairs) * (1 + Restarts)
  BY <1>2, <1>3 DEF Bound
<1>11. QED
  BY <1>1, <1>2, <1>3, <1>9, <1>10 DEF ListBound, PassBound

-----------------------------------------------------------------------------
LEMMA InitPassInv == Init => PassInv
<1> SUFFICES ASSUME Init, NEW u \in Uploads
             PROVE  ListBound(u) /\ PassBound(u)
  BY DEF PassInv
<1>1. Times(queue, u) = 0 /\ Times(saved, u) = 0
  BY TimesOfEmpty DEF Init
<1>2. indexed[u] = 0 /\ relayed[u] = 0 /\ Ahead(u) = 1 /\ Repairs = 0 /\ Restarts = 0 /\ redisUp
  BY DEF Init, Ahead, Repairs, Restarts, Kinds
<1>3. InHand(u) = 0
  BY IdleIsState DEF Init, InHand
<1>4. Passes(u) = 1 /\ Sends(u) = 1
  BY <1>1, <1>2, <1>3 DEF Passes, Sends, Owed, InHand, Ahead
<1>5. QED
  BY <1>1, <1>2, <1>4 DEF ListBound, PassBound, Bound

LEMMA NextPassInv == IInv /\ PassInv /\ [Next]_vars => PassInv'
<1> SUFFICES ASSUME IInv, PassInv, [Next]_vars, NEW u \in Uploads
             PROVE  ListBound(u)' /\ PassBound(u)'
  BY DEF PassInv
<1>1. ListBound(u) /\ PassBound(u) /\ TypeOK
  BY DEF PassInv, IInv
<1>0. TypeOK'
  BY NextIInv DEF IInv
<1>2. CASE \E v \in Uploads : Repair(v)
  BY <1>1, <1>2, RepairKeeps
<1>3. CASE RedisStop
  BY <1>1, <1>3, RedisStopKeeps
<1>4. CASE RedisStart
  BY <1>1, <1>4, RedisStartKeeps
<1>5. CASE ~RedisStop /\ ~RedisStart /\ \A v \in Uploads : ~Repair(v)
  BY <1>0, <1>1, <1>5, OthersAddNone, AddsNoneKeeps
<1>6. QED
  BY <1>2, <1>3, <1>4, <1>5

\* The portal, the list and the worker make together one pass over a file, with
\* one bulk and one send to Logstash; only the repair script and a Redis that
\* comes back with an old list add passes, and never more than one for each job.
THEOREM PassesCorrect == Spec => []PassesAreBounded
<1>1. IInv /\ PassInv => PassesAreBounded
  <2> SUFFICES ASSUME IInv, PassInv, NEW u \in Uploads
               PROVE  /\ Passes(u) <= (1 + Repairs) * (1 + Restarts)
                      /\ Sends(u) <= (1 + Repairs) * (1 + Restarts)
    BY DEF PassesAreBounded, Passes, Sends, Repairs, Restarts
  <2>1. Repairs \in Nat /\ Restarts \in Nat /\ Passes(u) \in Nat /\ Sends(u) \in Nat
    BY Quantities DEF IInv
  <2>2. /\ (1 + Repairs) * Restarts \in Nat
        /\ (1 + Repairs) * (1 + Restarts) = (1 + Repairs) * Restarts + (1 + Repairs)
    BY <2>1
  <2>3. PassBound(u)
    BY DEF PassInv
  <2>4. QED
    BY <2>1, <2>2, <2>3 DEF PassBound, Bound
<1>2. QED
  BY <1>1, InitPassInv, NextPassInv, OrderHolds, PTL DEF Spec
===============================================================================
