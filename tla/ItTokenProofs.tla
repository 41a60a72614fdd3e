---------------------------- MODULE ItTokenProofs ----------------------------
(* Proofs about ItToken, for every set of tokens, uploads and revocations.  *)
EXTENDS ItToken, FiniteSetTheorems, TLAPS

(* The records a consumption builds are records.                            *)
LEMMA UsedIsRecord ==
  ASSUME NEW rec \in Record, NEW t \in Tokens
  PROVE  /\ Used(rec, t) \in Record
         /\ Used(rec, t).uses = rec.uses + 1
BY LimitAssumption DEF Used, Spent, Record

LEMMA CountedIsFinite ==
  ASSUME NEW t
  PROVE  IsFiniteSet(Counted(t)) /\ Cardinality(Counted(t)) \in Nat
BY UploadsAssumption, FS_Subset, FS_CardinalityType DEF Counted, UploadsOf

LEMMA InitTypeOK == Init => TypeOK
BY DEF Init, TypeOK, Document, Answers, UploadState, RevokeState, UploadSteps, RevokeSteps, GenerateSteps

LEMMA GenerateTypeOK ==
  ASSUME TypeOK, NEW t \in Tokens, Generate(t)
  PROVE  TypeOK'
<1>1. CASE GenerateSetEx(t)
  <2>1. NewRecord(t) \in Record
    BY DEF NewRecord, Record
  <2>2. redis' \in [Tokens -> Record \cup {NoRecord}]
    BY <1>1, <2>1 DEF TypeOK, GenerateSetEx
  <2>3. gen' \in [Tokens -> GenerateSteps]
    BY <1>1 DEF TypeOK, GenerateSetEx, GenerateSteps
  <2>4. QED
    BY <1>1, <2>2, <2>3 DEF TypeOK, GenerateSetEx, history
<1>2. CASE GenerateSkipRedis(t)
  BY <1>2 DEF TypeOK, GenerateSteps, GenerateSkipRedis, stores, history
<1>3. CASE GenerateSAdd(t)
  BY <1>3 DEF TypeOK, GenerateSteps, GenerateSAdd, history
<1>4. CASE GenerateIndex(t)
  <2>1. docs' \in [Tokens -> Document \cup {NoRecord}]
    BY <1>4 DEF TypeOK, GenerateIndex, Document
  <2>2. gen' \in [Tokens -> GenerateSteps]
    BY <1>4 DEF TypeOK, GenerateIndex, GenerateSteps
  <2>3. QED
    BY <1>4, <2>1, <2>2 DEF TypeOK, GenerateIndex, history
<1>5. CASE GenerateFails(t)
  <2>1. gen' \in [Tokens -> GenerateSteps]
    BY <1>5 DEF TypeOK, GenerateFails, GenerateSteps
  <2>2. QED
    BY <1>5, <2>1 DEF TypeOK, GenerateFails, stores, history
<1>6. QED
  BY <1>1, <1>2, <1>3, <1>4, <1>5 DEF Generate

(* Uploads only write their own state, and the record when they consume.    *)
LEMMA UploadTypeOK ==
  ASSUME TypeOK, NEW u \in Uploads, NEW t \in Tokens, NEW ok \in BOOLEAN,
         Validate(u, t) \/ ValidateTimeout(u, t) \/ FilesHandled(u, ok)
  PROVE  TypeOK'
<1>1. upl[u] \in UploadState
  BY DEF TypeOK
<1>2. upl' \in [Uploads -> UploadState]
  <2>1. CASE Validate(u, t)
    <3>1. Refusal(t) \in Answers
      BY DEF Refusal, Answers
    <3>2. QED
      BY <1>1, <2>1, <3>1, CountedIsFinite
         DEF TypeOK, Validate, UploadState, UploadSteps, Answers
  <2>2. CASE ValidateTimeout(u, t)
    BY <1>1, <2>2 DEF TypeOK, ValidateTimeout, UploadState, UploadSteps, Answers
  <2>3. CASE FilesHandled(u, ok)
    BY <1>1, <2>3 DEF TypeOK, FilesHandled, UploadState, UploadSteps, Answers
  <2>4. QED
    BY <2>1, <2>2, <2>3
<1>3. QED
  BY <1>2 DEF TypeOK, Validate, ValidateTimeout, FilesHandled, stores, history

LEMMA ConsumeTypeOK ==
  ASSUME TypeOK, NEW u \in Uploads, Consume(u),
         upl[u].pc \in {"get", "ttl", "set"} => upl[u].tok \in Tokens,
         upl[u].pc \in {"ttl", "set"} => upl[u].got \in Record
  PROVE  TypeOK'
<1>1. upl[u] \in UploadState
  BY DEF TypeOK
<1>2. CASE ConsumeGet(u)
  <2>1. upl[u].tok \in Tokens
    BY <1>2 DEF ConsumeGet
  <2>2. redis[upl[u].tok] # NoRecord => Used(redis[upl[u].tok], upl[u].tok) \in Record
    BY <2>1, UsedIsRecord DEF TypeOK
  <2>3. upl' \in [Uploads -> UploadState]
    BY <1>1, <1>2, <2>2 DEF TypeOK, ConsumeGet, UploadState, UploadSteps
  <2>4. QED
    BY <1>2, <2>3 DEF TypeOK, ConsumeGet, stores, history
<1>3. CASE ConsumeTtl(u)
  <2>1. upl[u].tok \in Tokens /\ upl[u].got \in Record
    BY <1>3 DEF ConsumeTtl
  <2>2. PICK e \in BOOLEAN :
          upl' = [upl EXCEPT ![u].pc = "set", ![u].got.ext = e]
    BY <1>3 DEF ConsumeTtl
  <2>3. upl' \in [Uploads -> UploadState]
    BY <1>1, <2>1, <2>2 DEF TypeOK, UploadState, UploadSteps, Record
  <2>4. prolonged' \subseteq Tokens
    BY <1>3, <2>1 DEF TypeOK, ConsumeTtl
  <2>5. QED
    BY <1>3, <2>3, <2>4 DEF TypeOK, ConsumeTtl, stores
<1>4. CASE ConsumeSetEx(u)
  <2>1. upl[u].tok \in Tokens /\ upl[u].got \in Record
    BY <1>4 DEF ConsumeSetEx
  <2>2. redis' \in [Tokens -> Record \cup {NoRecord}]
    BY <1>4, <2>1 DEF TypeOK, ConsumeSetEx
  <2>3. upl' \in [Uploads -> UploadState]
    BY <1>1, <1>4 DEF TypeOK, ConsumeSetEx, UploadState, UploadSteps
  <2>4. racy' \subseteq Tokens
    BY <1>4, <2>1 DEF TypeOK, ConsumeSetEx
  <2>5. QED
    BY <1>4, <2>2, <2>3, <2>4 DEF TypeOK, ConsumeSetEx
<1>5. CASE ConsumeFails(u)
  <2>1. upl' \in [Uploads -> UploadState]
    BY <1>1, <1>5 DEF TypeOK, ConsumeFails, UploadState, UploadSteps
  <2>2. QED
    BY <1>5, <2>1 DEF TypeOK, ConsumeFails, stores, history
<1>6. QED
  BY <1>2, <1>3, <1>4, <1>5 DEF Consume
LEMMA AfterHitsIsStep ==
  ASSUME NEW todo, NEW deleted
  PROVE  AfterHits(todo, deleted) \in RevokeSteps
BY DEF AfterHits, RevokeSteps

LEMMA GoneTypeOK ==
  ASSUME TypeOK, NEW S \in SUBSET Tokens, Gone(S)
  PROVE  redis' \in [Tokens -> Record \cup {NoRecord}] /\ reborn' \subseteq Tokens
BY DEF TypeOK, Gone

(* Revocations write documents, their own state, and the record they purge. *)
LEMMA RevokeByIdTypeOK ==
  ASSUME TypeOK, NEW v \in Revokes, NEW ref \in Refs, RevokeById(v, ref)
  PROVE  TypeOK'
<1>1. rev[v] \in RevokeState
  BY DEF TypeOK
<1>2. docs' \in [Tokens -> Document \cup {NoRecord}]
  BY DEF TypeOK, RevokeById
<1>3. rev' \in [Revokes -> RevokeState]
  <2> DEFINE found == {t \in Match(ref) : ref.kind = "id" /\ docs[t] # NoRecord}
  <2>1. found \in SUBSET Tokens
    BY DEF Match
  <2>2. rev' = [rev EXCEPT ![v].pc = IF found # {} THEN "list" ELSE "search",
                           ![v].ref = ref, ![v].deleted = found]
    BY DEF RevokeById
  <2> HIDE DEF found
  <2>3. QED
    BY <1>1, <2>1, <2>2 DEF TypeOK, RevokeState, RevokeSteps
<1>4. QED
  BY <1>2, <1>3 DEF TypeOK, RevokeById, history

LEMMA RevokeUnansweredTypeOK ==
  ASSUME TypeOK, NEW v \in Revokes, NEW ref \in Refs, NEW next \in RevokeSteps,
         RevokeByIdUnanswered(v, ref, next)
  PROVE  TypeOK'
<1>1. rev[v] \in RevokeState
  BY DEF TypeOK
<1>2. ref.val \in Tokens
  BY DEF RevokeByIdUnanswered, Refs
<1>3. docs' \in [Tokens -> Document \cup {NoRecord}]
  BY DEF TypeOK, RevokeByIdUnanswered
<1>4. rev' \in [Revokes -> RevokeState]
  BY <1>1 DEF TypeOK, RevokeByIdUnanswered, RevokeState
<1>5. missed' \subseteq Tokens
  BY <1>2 DEF TypeOK, RevokeByIdUnanswered
<1>6. QED
  BY <1>3, <1>4, <1>5 DEF TypeOK, RevokeByIdUnanswered

LEMMA RevokeStepTypeOK ==
  ASSUME TypeOK, NEW v \in Revokes, RevokeStep(v)
  PROVE  TypeOK'
<1>1. rev[v] \in RevokeState
  BY DEF TypeOK
<1>2. ASSUME NEW hits \in SUBSET Tokens, RevokeSearch(v, hits)
      PROVE  TypeOK'
  <2>1. rev' \in [Revokes -> RevokeState]
    BY <1>1, <1>2, AfterHitsIsStep DEF TypeOK, RevokeSearch, RevokeState
  <2>2. QED
    BY <1>2, <2>1 DEF TypeOK, RevokeSearch, stores, history
<1>3. ASSUME NEW t \in Tokens, RevokeHit(v, t)
      PROVE  TypeOK'
  <2>1. docs' \in [Tokens -> Document \cup {NoRecord}]
    BY <1>3 DEF TypeOK, RevokeHit
  <2>2. rev' \in [Revokes -> RevokeState]
    <3>1. PICK rest \in SUBSET Tokens, del \in SUBSET Tokens :
            rev' = [rev EXCEPT ![v].pc = AfterHits(rest, del), ![v].todo = rest, ![v].deleted = del]
      BY <1>1, <1>3 DEF RevokeHit, RevokeState
    <3>2. QED
      BY <1>1, <3>1, AfterHitsIsStep DEF TypeOK, RevokeState
  <2>3. QED
    BY <1>3, <2>1, <2>2 DEF TypeOK, RevokeHit, history
<1>4. ASSUME NEW t \in Tokens, PurgeTurn(v, t)
      PROVE  rev' \in [Revokes -> RevokeState] /\ revoked' \subseteq Tokens
  BY <1>1, <1>4 DEF TypeOK, PurgeTurn, RevokeState, RevokeSteps
<1>5. ASSUME NEW t \in Tokens, PurgeDelete(v, t)
      PROVE  TypeOK'
  <2>1. redis' \in [Tokens -> Record \cup {NoRecord}] /\ reborn' \subseteq Tokens
    BY <1>5, GoneTypeOK DEF PurgeDelete
  <2>2. QED
    BY <1>4, <1>5, <2>1 DEF TypeOK, PurgeDelete
<1>6. ASSUME NEW t \in Tokens, PurgeSkip(v, t)
      PROVE  TypeOK'
  BY <1>4, <1>6 DEF TypeOK, PurgeSkip, stores
<1>7. CASE RevokeList(v)
  <2>1. Match(rev[v].ref) \subseteq Tokens
    BY DEF Match
  <2>2. rev' \in [Revokes -> RevokeState] /\ revoked' \subseteq Tokens
    BY <1>1, <1>7 DEF TypeOK, RevokeList, RevokeState, RevokeSteps
  <2>3. QED
    BY <1>7, <2>1, <2>2 DEF TypeOK, RevokeList, stores
<1>8. CASE RevokeFails(v)
  <2>1. rev' \in [Revokes -> RevokeState] /\ missed' \subseteq Tokens
    BY <1>1, <1>8 DEF TypeOK, RevokeFails, Owed, RevokeState, RevokeSteps
  <2>2. QED
    BY <1>8, <2>1 DEF TypeOK, RevokeFails, stores
<1>9. ASSUME NEW t \in Tokens, RevokeHitUnanswered(v, t)
      PROVE  TypeOK'
  <2>1. docs' \in [Tokens -> Document \cup {NoRecord}] /\ missed' \subseteq Tokens
    BY <1>9 DEF TypeOK, RevokeHitUnanswered
  <2>2. rev' \in [Revokes -> RevokeState]
    <3>1. PICK rest \in SUBSET Tokens, del \in SUBSET Tokens :
            rev' = [rev EXCEPT ![v].pc = AfterHits(rest, del), ![v].todo = rest]
      BY <1>1, <1>9 DEF RevokeHitUnanswered, RevokeState
    <3>2. QED
      BY <1>1, <3>1, AfterHitsIsStep DEF TypeOK, RevokeState
  <2>3. QED
    BY <1>9, <2>1, <2>2 DEF TypeOK, RevokeHitUnanswered
<1>10. QED
  BY <1>2, <1>3, <1>5, <1>6, <1>7, <1>8, <1>9 DEF RevokeStep

LEMMA EnvironmentTypeOK ==
  ASSUME TypeOK, Environment
  PROVE  TypeOK'
<1>1. ASSUME NEW t \in Tokens, ExpiresAt(t)
      PROVE  TypeOK'
  <2>1. redis' \in [Tokens -> Record \cup {NoRecord}] /\ reborn' \subseteq Tokens
    BY <1>1, GoneTypeOK DEF ExpiresAt
  <2>2. QED
    BY <1>1, <2>1 DEF TypeOK, ExpiresAt
<1>2. ASSUME NEW t \in Tokens, LateExpiry(t) \/ EvictRecord(t)
      PROVE  TypeOK'
  <2>1. redis' \in [Tokens -> Record \cup {NoRecord}] /\ reborn' \subseteq Tokens
    BY <1>2, GoneTypeOK DEF LateExpiry, EvictRecord
  <2>2. QED
    BY <1>2, <2>1 DEF TypeOK, LateExpiry, EvictRecord
<1>3. CASE RedisDown \/ RedisUp
  <2>1. faults' \in [outages : Nat, restarts : Nat]
    BY <1>3 DEF TypeOK, RedisDown, RedisUp
  <2>2. QED
    BY <1>3, <2>1 DEF TypeOK, RedisDown, RedisUp, stores, history
<1>4. CASE Snapshot
  BY <1>4 DEF TypeOK, Snapshot, history
<1>5. CASE Restart
  <2>1. redis' \in [Tokens -> Record \cup {NoRecord}]
    BY <1>5 DEF TypeOK, Restart
  <2>2. faults' \in [outages : Nat, restarts : Nat]
    BY <1>5 DEF TypeOK, Restart
  <2>3. rolled' \subseteq Tokens
    BY <1>5 DEF TypeOK, Restart
  <2>4. QED
    BY <1>5, <2>1, <2>2, <2>3 DEF TypeOK, Restart
<1>6. CASE EvictMembers
  BY <1>6 DEF TypeOK, EvictMembers
<1>7. ASSUME NEW t \in Tokens, LastMoment(t)
      PROVE  TypeOK'
  BY <1>7 DEF TypeOK, LastMoment, history
<1>8. QED
  BY <1>1, <1>2, <1>3, <1>4, <1>5, <1>6, <1>7 DEF Environment
-----------------------------------------------------------------------------
LEMMA UploadsOK ==
  ASSUME TypeOK, RequestsOK, NEW u \in Uploads
  PROVE  /\ upl[u].pc \in {"get", "ttl", "set"} => upl[u].tok \in Tokens
         /\ upl[u].pc \in {"ttl", "set"} => upl[u].got \in Record
BY DEF RequestsOK

LEMMA NextTypeOK == TypeOK /\ RequestsOK /\ [Next]_vars => TypeOK'
<1> SUFFICES ASSUME TypeOK, RequestsOK, [Next]_vars
             PROVE  TypeOK'
  OBVIOUS
<1>1. CASE UNCHANGED vars
  BY <1>1 DEF TypeOK, vars, stores, history
<1>2. ASSUME NEW t \in Tokens, Generate(t)
      PROVE  TypeOK'
  BY <1>2, GenerateTypeOK
<1>3. ASSUME NEW u \in Uploads, NEW t \in Tokens, Validate(u, t) \/ ValidateTimeout(u, t)
      PROVE  TypeOK'
  BY <1>3, UploadTypeOK
<1>4. ASSUME NEW u \in Uploads, NEW ok \in BOOLEAN, FilesHandled(u, ok)
      PROVE  TypeOK'
  <2>1. upl[u].tok \in Tokens
    BY <1>4 DEF RequestsOK, FilesHandled
  <2>2. QED
    BY <1>4, <2>1, UploadTypeOK
<1>5. ASSUME NEW u \in Uploads, Consume(u)
      PROVE  TypeOK'
  BY <1>5, UploadsOK, ConsumeTypeOK
<1>6. ASSUME NEW v \in Revokes, NEW ref \in Refs, RevokeById(v, ref)
      PROVE  TypeOK'
  BY <1>6, RevokeByIdTypeOK
<1>7. ASSUME NEW v \in Revokes, RevokeStep(v)
      PROVE  TypeOK'
  BY <1>7, RevokeStepTypeOK
<1>8. ASSUME NEW v \in Revokes, NEW ref \in Refs, NEW next \in RevokeSteps,
             RevokeByIdUnanswered(v, ref, next)
      PROVE  TypeOK'
  BY <1>8, RevokeUnansweredTypeOK
<1>9. CASE Environment
  BY <1>9, EnvironmentTypeOK
<1>10. QED
  BY <1>1, <1>2, <1>3, <1>4, <1>5, <1>6, <1>7, <1>8, <1>9 DEF Next

-----------------------------------------------------------------------------
(* RequestsOK is kept by every step.                                        *)
LEMMA InitRequestsOK == Init => RequestsOK
BY NoTokenAssumption DEF Init, RequestsOK

(* A step that leaves the uploads alone keeps it when it starts no token    *)
(* and gives no record to a token that has not been generated.              *)
LEMMA OthersRequestsOK ==
  ASSUME TypeOK, RequestsOK, upl' = upl,
         \A t \in Tokens : gen[t] = "done" => gen'[t] = "done",
         \A t \in Tokens : gen'[t] = "new" =>
            gen[t] = "new" /\ redis'[t] = NoRecord /\ saved'.redis[t] = NoRecord
  PROVE  RequestsOK'
BY DEF RequestsOK, TypeOK

LEMMA GenerateRequestsOK ==
  ASSUME TypeOK, RequestsOK, NEW t \in Tokens, Generate(t)
  PROVE  RequestsOK'
<1>1. upl' = upl
  BY DEF Generate, GenerateSetEx, GenerateSkipRedis, GenerateSAdd, GenerateIndex, GenerateFails
<1>2. saved' = saved /\ \A s \in Tokens \ {t} : gen'[s] = gen[s] /\ redis'[s] = redis[s]
  BY DEF Generate, GenerateSetEx, GenerateSkipRedis, GenerateSAdd, GenerateIndex, GenerateFails,
         stores, TypeOK
<1>3. gen[t] # "done" /\ gen'[t] # "new"
  BY DEF Generate, GenerateSetEx, GenerateSkipRedis, GenerateSAdd, GenerateIndex, GenerateFails, TypeOK
<1>4. QED
  BY <1>1, <1>2, <1>3, OthersRequestsOK DEF RequestsOK

LEMMA UploadRequestsOK ==
  ASSUME TypeOK, RequestsOK, NEW u \in Uploads, NEW t \in Tokens, NEW ok \in BOOLEAN,
         Validate(u, t) \/ ValidateTimeout(u, t) \/ FilesHandled(u, ok)
  PROVE  RequestsOK'
<1>1. gen' = gen /\ redis' = redis /\ saved' = saved /\ \A w \in Uploads \ {u} : upl'[w] = upl[w]
  BY DEF Validate, ValidateTimeout, FilesHandled, stores, TypeOK
<1>2. /\ upl'[u].pc \in {"files", "get", "done", "refused"}
      /\ upl'[u].tok \in Tokens /\ gen[upl'[u].tok] = "done"
      /\ ~upl'[u].counted
  BY DEF Validate, ValidateTimeout, FilesHandled, RequestsOK, TypeOK, UploadState
<1>3. QED
  BY <1>1, <1>2 DEF RequestsOK

LEMMA ConsumeRequestsOK ==
  ASSUME TypeOK, RequestsOK, NEW u \in Uploads, Consume(u)
  PROVE  RequestsOK'
<1>1. /\ upl[u] \in UploadState /\ upl[u].tok \in Tokens
      /\ gen[upl[u].tok] = "done" /\ ~upl[u].counted
  BY DEF Consume, ConsumeGet, ConsumeTtl, ConsumeSetEx, ConsumeFails, RequestsOK, TypeOK
<1>2. /\ gen' = gen /\ saved' = saved
      /\ \A w \in Uploads \ {u} : upl'[w] = upl[w]
      /\ \A t \in Tokens : gen[t] = "new" => redis'[t] = redis[t]
  BY <1>1 DEF Consume, ConsumeGet, ConsumeTtl, ConsumeSetEx, ConsumeFails, stores, TypeOK
<1>3. /\ upl'[u].tok = upl[u].tok
      /\ upl'[u].pc \in {"ttl", "set", "done"}
      /\ upl'[u].counted => upl'[u].pc = "done"
  <2>1. CASE ConsumeGet(u)
    BY <1>1, <2>1 DEF ConsumeGet, TypeOK, UploadState
  <2>2. CASE ConsumeTtl(u)
    BY <1>1, <2>2 DEF ConsumeTtl, TypeOK, UploadState
  <2>3. CASE ConsumeSetEx(u)
    BY <1>1, <2>3 DEF ConsumeSetEx, TypeOK, UploadState
  <2>4. CASE ConsumeFails(u)
    BY <1>1, <2>4 DEF ConsumeFails, TypeOK, UploadState
  <2>5. QED
    BY <2>1, <2>2, <2>3, <2>4 DEF Consume
<1>4. upl'[u].pc \in {"ttl", "set"} => upl'[u].got \in Record
  <2>1. CASE ConsumeGet(u)
    BY <1>1, <2>1, UsedIsRecord DEF ConsumeGet, TypeOK, UploadState
  <2>2. CASE ConsumeTtl(u)
    <3>1. upl[u].got \in Record
      BY <2>2 DEF ConsumeTtl, RequestsOK
    <3>2. PICK e \in BOOLEAN : upl' = [upl EXCEPT ![u].pc = "set", ![u].got.ext = e]
      BY <2>2 DEF ConsumeTtl
    <3>3. QED
      BY <1>1, <3>1, <3>2 DEF TypeOK, UploadState, Record
  <2>3. CASE ConsumeSetEx(u) \/ ConsumeFails(u)
    BY <1>1, <2>3 DEF ConsumeSetEx, ConsumeFails, TypeOK, UploadState
  <2>4. QED
    BY <2>1, <2>2, <2>3 DEF Consume
<1>5. QED
  BY <1>1, <1>2, <1>3, <1>4 DEF RequestsOK
(* Revocations and the environment do not touch generation.                 *)
LEMMA NextRequestsOK == TypeOK /\ RequestsOK /\ [Next]_vars => RequestsOK'
<1> SUFFICES ASSUME TypeOK, RequestsOK, [Next]_vars
             PROVE  RequestsOK'
  OBVIOUS
<1>1. CASE UNCHANGED vars
  BY <1>1 DEF RequestsOK, vars, stores
<1>2. ASSUME NEW t \in Tokens, Generate(t)
      PROVE  RequestsOK'
  BY <1>2, GenerateRequestsOK
<1>3. ASSUME NEW u \in Uploads, NEW t \in Tokens, Validate(u, t) \/ ValidateTimeout(u, t)
      PROVE  RequestsOK'
  BY <1>3, UploadRequestsOK
<1>4. ASSUME NEW u \in Uploads, NEW ok \in BOOLEAN, FilesHandled(u, ok)
      PROVE  RequestsOK'
  <2>1. upl[u].tok \in Tokens
    BY <1>4 DEF RequestsOK, FilesHandled
  <2>2. QED
    BY <1>4, <2>1, UploadRequestsOK
<1>5. ASSUME NEW u \in Uploads, Consume(u)
      PROVE  RequestsOK'
  BY <1>5, ConsumeRequestsOK
<1>6. ASSUME NEW S \in SUBSET Tokens, Gone(S), upl' = upl, gen' = gen, saved' = saved
      PROVE  RequestsOK'
  BY <1>6, OthersRequestsOK DEF Gone, RequestsOK
<1>7. ASSUME upl' = upl, gen' = gen, redis' = redis, saved' = saved
      PROVE  RequestsOK'
  BY <1>7, OthersRequestsOK DEF RequestsOK
<1>8. ASSUME NEW v \in Revokes, NEW ref \in Refs, RevokeById(v, ref)
      PROVE  RequestsOK'
  BY <1>7, <1>8 DEF RevokeById
<1>a. ASSUME NEW v \in Revokes, NEW ref \in Refs, NEW next \in RevokeSteps,
             RevokeByIdUnanswered(v, ref, next)
      PROVE  RequestsOK'
  BY <1>7, <1>a DEF RevokeByIdUnanswered
<1>9. ASSUME NEW v \in Revokes, RevokeStep(v)
      PROVE  RequestsOK'
  <2>1. ASSUME NEW t \in Tokens, PurgeDelete(v, t)
        PROVE  RequestsOK'
    BY <1>6, <2>1 DEF PurgeDelete
  <2>2. QED
    BY <1>7, <1>9, <2>1
       DEF RevokeStep, RevokeSearch, RevokeHit, RevokeHitUnanswered, PurgeSkip, RevokeList, RevokeFails, stores
<1>10. CASE Environment
  <2>1. ASSUME NEW t \in Tokens, ExpiresAt(t) \/ LateExpiry(t) \/ EvictRecord(t)
        PROVE  RequestsOK'
    BY <1>6, <2>1 DEF ExpiresAt, LateExpiry, EvictRecord
  <2>2. CASE Snapshot \/ Restart
    BY <2>2, OthersRequestsOK DEF Snapshot, Restart, RequestsOK
  <2>3. CASE RedisDown \/ RedisUp \/ EvictMembers \/ \E t \in Tokens : LastMoment(t)
    BY <1>7, <2>3 DEF RedisDown, RedisUp, EvictMembers, LastMoment, stores
  <2>4. QED
    BY <1>10, <2>1, <2>2, <2>3 DEF Environment
<1>11. QED
  BY <1>1, <1>2, <1>3, <1>4, <1>5, <1>8, <1>a, <1>9, <1>10 DEF Next

-----------------------------------------------------------------------------
(* The count: a step that leaves the uploads alone, and leaves or drops     *)
(* each record Redis did not roll back, keeps both properties.              *)
LEMMA OthersKeepCount ==
  ASSUME UsesAreCounted, NoAdmissionOnceSpent, upl' = upl, racy' = racy, rolled \subseteq rolled',
         \A t \in Tokens \ rolled' : redis'[t] \in {redis[t], NoRecord}
  PROVE  UsesAreCounted' /\ NoAdmissionOnceSpent'
<1>1. \A t : Counted(t)' = Counted(t) /\ Holding(t)' = Holding(t)
  BY DEF Counted, Holding, UploadsOf
<1>2. UsesAreCounted'
  BY <1>1 DEF UsesAreCounted
<1>3. NoAdmissionOnceSpent'
  BY DEF NoAdmissionOnceSpent
<1>4. QED
  BY <1>2, <1>3

(* A new record counts nothing, and no upload has presented the token yet.  *)
LEMMA GenerateKeepsCount ==
  ASSUME TypeOK, RequestsOK, UsesAreCounted, NoAdmissionOnceSpent,
         NEW t \in Tokens, Generate(t)
  PROVE  UsesAreCounted' /\ NoAdmissionOnceSpent'
<1>1. CASE GenerateSetEx(t)
  <2>1. upl' = upl /\ racy' = racy /\ rolled' = rolled
    BY <1>1 DEF GenerateSetEx, history
  <2>2. \A s : Counted(s)' = Counted(s) /\ Holding(s)' = Holding(s)
    BY <2>1 DEF Counted, Holding, UploadsOf
  <2>3. UploadsOf(t) = {}
    BY <1>1, NoTokenAssumption DEF GenerateSetEx, RequestsOK, UploadsOf
  <2>4. Cardinality(Counted(t)) = 0 /\ Holding(t) = {}
    BY <2>3, FS_EmptySet DEF Counted, Holding
  <2>5. redis' = [redis EXCEPT ![t] = NewRecord(t)]
    BY <1>1 DEF GenerateSetEx
  <2>6. UsesAreCounted'
    BY <2>1, <2>2, <2>4, <2>5 DEF UsesAreCounted, TypeOK, NewRecord
  <2>7. QED
    BY <2>1, <2>6 DEF NoAdmissionOnceSpent
<1>2. CASE ~GenerateSetEx(t)
  BY <1>2, OthersKeepCount
     DEF Generate, GenerateSkipRedis, GenerateSAdd, GenerateIndex, GenerateFails, stores, history
<1>3. QED
  BY <1>1, <1>2

(* Before its consumption an upload changes no count; when it is admitted   *)
(* the record it is checked against holds the count.                        *)
LEMMA UploadKeepsCount ==
  ASSUME TypeOK, RequestsOK, UsesAreCounted, NoAdmissionOnceSpent,
         NEW u \in Uploads, NEW t \in Tokens, NEW ok \in BOOLEAN,
         Validate(u, t) \/ ValidateTimeout(u, t) \/ FilesHandled(u, ok)
  PROVE  UsesAreCounted' /\ NoAdmissionOnceSpent'
<1>1. redis' = redis /\ racy' = racy /\ rolled' = rolled
      /\ \A w \in Uploads \ {u} : upl'[w] = upl[w]
  BY DEF Validate, ValidateTimeout, FilesHandled, stores, history, TypeOK
<1>2. /\ upl[u].pc \notin {"ttl", "set"} /\ ~upl[u].counted
      /\ upl'[u].pc \notin {"ttl", "set"} /\ ~upl'[u].counted
  BY DEF Validate, ValidateTimeout, FilesHandled, RequestsOK, TypeOK, UploadState
<1>3. \A s : Counted(s)' = Counted(s) /\ Holding(s)' = Holding(s)
  BY <1>1, <1>2 DEF Counted, Holding, UploadsOf
<1>4. \A w \in Uploads : w \in Uploads \ {u} => upl'[w].got = upl[w].got
  BY <1>1
<1>5. UsesAreCounted'
  <2>1. \A s : u \notin Holding(s)
    BY <1>2 DEF Holding
  <2>2. \A s : \A w \in Holding(s) : upl'[w].got = upl[w].got
    BY <1>4, <2>1 DEF Holding, UploadsOf
  <2>3. QED
    BY <1>1, <1>3, <2>2 DEF UsesAreCounted
<1>6. NoAdmissionOnceSpent'
  <2>1. upl'[u].pc \notin {"idle", "refused"} =>
          upl'[u].before < Limit[upl'[u].tok] \/ upl'[u].tok \in racy \cup rolled
    <3>1. CASE Validate(u, t)
      BY <3>1 DEF Validate, Admitted, Usable, UsesAreCounted, TypeOK, UploadState
    <3>2. CASE ValidateTimeout(u, t)
      BY <3>2 DEF ValidateTimeout, TypeOK, UploadState
    <3>3. CASE FilesHandled(u, ok)
      BY <3>3 DEF FilesHandled, NoAdmissionOnceSpent, TypeOK, UploadState
    <3>4. QED
      BY <3>1, <3>2, <3>3
  <2>2. QED
    BY <1>1, <2>1 DEF NoAdmissionOnceSpent
<1>7. QED
  BY <1>5, <1>6

(* The SETEX of the only upload that holds a copy adds one to the count and *)
(* writes that number; with another holder the token becomes racy.          *)
LEMMA ConsumeKeepsCount ==
  ASSUME TypeOK, RequestsOK, UsesAreCounted, NoAdmissionOnceSpent,
         NEW u \in Uploads, Consume(u)
  PROVE  UsesAreCounted' /\ NoAdmissionOnceSpent'
<1>0. upl[u] \in UploadState /\ upl[u].tok \in Tokens /\ ~upl[u].counted
  BY DEF Consume, ConsumeGet, ConsumeTtl, ConsumeSetEx, ConsumeFails, RequestsOK, TypeOK
<1>a. PICK t \in Tokens : upl[u].tok = t
  BY <1>0
<1>1. upl[u] \in UploadState /\ t \in Tokens /\ ~upl[u].counted /\ upl[u].tok = t
  BY <1>0, <1>a
<1>2. rolled' = rolled /\ racy \subseteq racy' /\ \A w \in Uploads \ {u} : upl'[w] = upl[w]
  BY DEF Consume, ConsumeGet, ConsumeTtl, ConsumeSetEx, ConsumeFails, history, TypeOK
<1>3. upl'[u].tok = t /\ upl'[u].before = upl[u].before
      /\ upl[u].pc \notin {"idle", "refused"}
  <2>1. CASE ConsumeGet(u)
    BY <1>1, <2>1 DEF ConsumeGet, TypeOK, UploadState
  <2>2. CASE ConsumeTtl(u)
    BY <1>1, <2>2 DEF ConsumeTtl, TypeOK, UploadState
  <2>3. CASE ConsumeSetEx(u)
    BY <1>1, <2>3 DEF ConsumeSetEx, TypeOK, UploadState
  <2>4. CASE ConsumeFails(u)
    BY <1>1, <2>4 DEF ConsumeFails, TypeOK, UploadState
  <2>5. QED
    BY <2>1, <2>2, <2>3, <2>4 DEF Consume
<1>4. NoAdmissionOnceSpent'
  BY <1>1, <1>2, <1>3 DEF NoAdmissionOnceSpent
<1>5. CASE ConsumeGet(u)
  <2>1. redis' = redis /\ racy' = racy
    BY <1>5 DEF ConsumeGet, stores, history
  <2>2. ~upl'[u].counted /\ (upl'[u].pc = "ttl" => redis[t] # NoRecord /\ upl'[u].got = Used(redis[t], t))
        /\ upl'[u].pc \in {"ttl", "done"}
    BY <1>1, <1>5 DEF ConsumeGet, TypeOK, UploadState
  <2>3. \A s : Counted(s)' = Counted(s)
    BY <1>1, <1>2, <2>2 DEF Counted, UploadsOf
  <2>4. \A s \in Tokens : \A w \in Holding(s)' :
          \/ w \in Holding(s) /\ upl'[w].got = upl[w].got
          \/ w = u /\ s = t /\ upl'[u].pc = "ttl"
    BY <1>2, <1>3, <2>2 DEF Holding, UploadsOf
  <2>5. upl'[u].pc = "ttl" => redis[t] \in Record /\ upl'[u].got.uses = redis[t].uses + 1
    BY <1>1, <2>2, UsedIsRecord DEF TypeOK
  <2>6. UsesAreCounted'
    BY <1>2, <2>1, <2>2, <2>3, <2>4, <2>5 DEF UsesAreCounted
  <2>7. QED
    BY <1>4, <2>6
<1>6. CASE ConsumeTtl(u)
  <2>1. redis' = redis /\ racy' = racy
    BY <1>6 DEF ConsumeTtl, stores
  <2>2. upl[u].got \in Record /\ upl[u].pc = "ttl"
    BY <1>6 DEF ConsumeTtl, RequestsOK
  <2>3. ~upl'[u].counted /\ upl'[u].pc = "set" /\ upl'[u].got.uses = upl[u].got.uses
    BY <1>1, <1>6, <2>2 DEF ConsumeTtl, TypeOK, UploadState, Record
  <2>4. \A s : Counted(s)' = Counted(s) /\ Holding(s)' = Holding(s)
    BY <1>1, <1>2, <1>3, <2>2, <2>3 DEF Counted, Holding, UploadsOf
  <2>5. \A w \in Uploads : upl'[w].got.uses = upl[w].got.uses
    BY <1>2, <2>3
  <2>6. \A s : Holding(s) \subseteq Uploads
    BY DEF Holding, UploadsOf
  <2>7. UsesAreCounted'
    BY <1>2, <2>1, <2>4, <2>5, <2>6 DEF UsesAreCounted
  <2>8. QED
    BY <1>4, <2>7
<1>7. CASE ConsumeSetEx(u)
  <2>1. redis' = [redis EXCEPT ![t] = upl[u].got] /\ upl[u].pc = "set"
        /\ racy' = IF Holding(t) = {u} THEN racy ELSE racy \cup {t}
    BY <1>1, <1>7 DEF ConsumeSetEx
  <2>2. upl'[u].counted /\ upl'[u].pc = "done"
    BY <1>1, <1>7 DEF ConsumeSetEx, TypeOK, UploadState
  <2>3. u \in Holding(t)
    BY <1>1, <2>1 DEF Holding, UploadsOf
  <2>4. \A s \in Tokens \ {t} : Counted(s)' = Counted(s) /\ Holding(s)' = Holding(s)
    BY <1>1, <1>2, <1>3 DEF Counted, Holding, UploadsOf
  <2>5. Counted(t)' = Counted(t) \cup {u} /\ Holding(t)' = Holding(t) \ {u}
    BY <1>2, <1>3, <2>2 DEF Counted, Holding, UploadsOf
  <2>6. u \notin Counted(t)
    BY <1>1 DEF Counted
  <2>7. Cardinality(Counted(t)') = Cardinality(Counted(t)) + 1
    BY <2>5, <2>6, CountedIsFinite, FS_AddElement
  <2>8. \A s \in Tokens \ {t} : \A w \in Holding(s) : upl'[w].got = upl[w].got
    BY <1>1, <1>2 DEF Holding, UploadsOf
  <2>9. redis'[t] = upl[u].got /\ \A s \in Tokens \ {t} : redis'[s] = redis[s]
    BY <1>1, <2>1 DEF TypeOK
  <2>10. ASSUME NEW s \in Tokens \ (racy' \cup rolled')
         PROVE  /\ redis'[s] # NoRecord => redis'[s].uses = Cardinality(Counted(s)')
                /\ \A w \in Holding(s)' : upl'[w].got.uses = Cardinality(Counted(s)') + 1
    <3>1. CASE s = t
      <4>1. Holding(t) = {u} /\ t \notin racy \cup rolled
        BY <1>2, <2>1, <3>1
      <4>2. upl[u].got.uses = Cardinality(Counted(t)) + 1
        BY <1>1, <4>1 DEF UsesAreCounted
      <4>3. redis'[t].uses = Cardinality(Counted(t)')
        BY <2>7, <2>9, <4>2
      <4>4. Holding(t)' = {}
        BY <2>5, <4>1
      <4>5. QED
        BY <3>1, <4>3, <4>4
    <3>2. CASE s # t
      <4>1. /\ redis[s] # NoRecord => redis[s].uses = Cardinality(Counted(s))
            /\ \A w \in Holding(s) : upl[w].got.uses = Cardinality(Counted(s)) + 1
        BY <1>2 DEF UsesAreCounted
      <4>2. s \in Tokens \ {t}
        BY <3>2
      <4>3. /\ redis'[s] = redis[s] /\ Counted(s)' = Counted(s) /\ Holding(s)' = Holding(s)
            /\ \A w \in Holding(s) : upl'[w].got = upl[w].got
        BY <2>4, <2>8, <2>9, <4>2
      <4>4. Cardinality(Counted(s)') = Cardinality(Counted(s))
        BY <4>3
      <4>5. redis'[s] # NoRecord => redis'[s].uses = Cardinality(Counted(s)')
        BY <4>1, <4>3, <4>4
      <4>6. \A w \in Holding(s)' : upl'[w].got.uses = Cardinality(Counted(s)') + 1
        BY <4>1, <4>3, <4>4
      <4>7. QED
        BY <4>5, <4>6
    <3>3. QED
      BY <3>1, <3>2
  <2>11. UsesAreCounted'
    BY <2>10 DEF UsesAreCounted
  <2>12. QED
    BY <1>4, <2>11
<1>8. CASE ConsumeFails(u)
  <2>1. redis' = redis /\ racy' = racy
    BY <1>8 DEF ConsumeFails, stores, history
  <2>2. ~upl'[u].counted /\ upl'[u].pc = "done"
    BY <1>1, <1>8 DEF ConsumeFails, TypeOK, UploadState
  <2>3. \A s : Counted(s)' = Counted(s) /\ Holding(s)' \subseteq Holding(s) \ {u}
    BY <1>1, <1>2, <2>2 DEF Counted, Holding, UploadsOf
  <2>4. \A s : \A w \in Holding(s) \ {u} : upl'[w].got = upl[w].got
    BY <1>2 DEF Holding, UploadsOf
  <2>5. UsesAreCounted'
    BY <1>2, <2>1, <2>3, <2>4 DEF UsesAreCounted
  <2>6. QED
    BY <1>4, <2>5
<1>9. QED
  BY <1>5, <1>6, <1>7, <1>8 DEF Consume
LEMMA NextKeepsCount ==
  TypeOK /\ RequestsOK /\ UsesAreCounted /\ NoAdmissionOnceSpent /\ [Next]_vars
    => UsesAreCounted' /\ NoAdmissionOnceSpent'
<1> SUFFICES ASSUME TypeOK, RequestsOK, UsesAreCounted, NoAdmissionOnceSpent, [Next]_vars
             PROVE  UsesAreCounted' /\ NoAdmissionOnceSpent'
  OBVIOUS
<1>1. ASSUME upl' = upl, racy' = racy, rolled' = rolled, redis' = redis
      PROVE  UsesAreCounted' /\ NoAdmissionOnceSpent'
  BY <1>1, OthersKeepCount
<1>2. ASSUME NEW S \in SUBSET Tokens, Gone(S), upl' = upl, racy' = racy, rolled' = rolled
      PROVE  UsesAreCounted' /\ NoAdmissionOnceSpent'
  BY <1>2, OthersKeepCount DEF Gone
<1>3. CASE UNCHANGED vars
  BY <1>1, <1>3 DEF vars, stores, history
<1>4. ASSUME NEW t \in Tokens, Generate(t)
      PROVE  UsesAreCounted' /\ NoAdmissionOnceSpent'
  BY <1>4, GenerateKeepsCount
<1>5. ASSUME NEW u \in Uploads, NEW t \in Tokens, Validate(u, t) \/ ValidateTimeout(u, t)
      PROVE  UsesAreCounted' /\ NoAdmissionOnceSpent'
  BY <1>5, UploadKeepsCount
<1>6. ASSUME NEW u \in Uploads, NEW ok \in BOOLEAN, FilesHandled(u, ok)
      PROVE  UsesAreCounted' /\ NoAdmissionOnceSpent'
  <2>1. upl[u].tok \in Tokens
    BY <1>6 DEF RequestsOK, FilesHandled
  <2>2. QED
    BY <1>6, <2>1, UploadKeepsCount
<1>7. ASSUME NEW u \in Uploads, Consume(u)
      PROVE  UsesAreCounted' /\ NoAdmissionOnceSpent'
  BY <1>7, ConsumeKeepsCount
<1>8. ASSUME NEW v \in Revokes, NEW ref \in Refs, RevokeById(v, ref)
      PROVE  UsesAreCounted' /\ NoAdmissionOnceSpent'
  BY <1>1, <1>8 DEF RevokeById, history
<1>a. ASSUME NEW v \in Revokes, NEW ref \in Refs, NEW next \in RevokeSteps,
             RevokeByIdUnanswered(v, ref, next)
      PROVE  UsesAreCounted' /\ NoAdmissionOnceSpent'
  BY <1>1, <1>a DEF RevokeByIdUnanswered
<1>9. ASSUME NEW v \in Revokes, RevokeStep(v)
      PROVE  UsesAreCounted' /\ NoAdmissionOnceSpent'
  <2>1. ASSUME NEW t \in Tokens, PurgeDelete(v, t)
        PROVE  UsesAreCounted' /\ NoAdmissionOnceSpent'
    BY <1>2, <2>1 DEF PurgeDelete
  <2>2. QED
    BY <1>1, <1>9, <2>1
       DEF RevokeStep, RevokeSearch, RevokeHit, RevokeHitUnanswered, PurgeSkip, RevokeList, RevokeFails, stores, history
<1>10. CASE Environment
  <2>1. ASSUME NEW t \in Tokens, ExpiresAt(t) \/ LateExpiry(t) \/ EvictRecord(t)
        PROVE  UsesAreCounted' /\ NoAdmissionOnceSpent'
    BY <1>2, <2>1 DEF ExpiresAt, LateExpiry, EvictRecord
  <2>2. CASE Restart
    BY <2>2, OthersKeepCount DEF Restart
  <2>3. CASE RedisDown \/ RedisUp \/ Snapshot \/ EvictMembers \/ \E t \in Tokens : LastMoment(t)
    BY <1>1, <2>3 DEF RedisDown, RedisUp, Snapshot, EvictMembers, LastMoment, stores, history
  <2>4. QED
    BY <1>10, <2>1, <2>2, <2>3 DEF Environment
<1>11. QED
  BY <1>3, <1>4, <1>5, <1>6, <1>7, <1>8, <1>a, <1>9, <1>10 DEF Next

LEMMA InitCount == Init => UsesAreCounted /\ NoAdmissionOnceSpent
<1> SUFFICES ASSUME Init
             PROVE  UsesAreCounted /\ NoAdmissionOnceSpent
  OBVIOUS
<1>1. \A t \in Tokens : redis[t] = NoRecord /\ Holding(t) = {}
  BY DEF Init, Holding, UploadsOf
<1>2. QED
  BY <1>1 DEF Init, UsesAreCounted, NoAdmissionOnceSpent

-----------------------------------------------------------------------------
(* The conjunction of the four predicates is inductive: TypeOK needs        *)
(* RequestsOK (an upload in progress has a token and a record), and         *)
(* UsesAreCounted speaks of the copies uploads hold as well as of Redis.    *)
THEOREM Inductive == Spec => []CountInv
<1>1. Init => CountInv
  BY InitTypeOK, InitRequestsOK, InitCount DEF CountInv
<1>2. CountInv /\ [Next]_vars => CountInv'
  BY NextTypeOK, NextRequestsOK, NextKeepsCount DEF CountInv
<1>3. QED
  BY <1>1, <1>2, PTL DEF Spec

(* Every state variable keeps its type (Redis records, request states).     *)
THEOREM TypeCorrect == Spec => []TypeOK
<1>1. CountInv => TypeOK
  BY DEF CountInv
<1>2. QED
  BY <1>1, Inductive, PTL

(* The consumption of portal-it/server.js neither loses nor invents a use,  *)
(* whatever expires, is evicted or revoked, unless two consumptions overlap *)
(* or Redis restarts.                                                       *)
THEOREM CountCorrect == Spec => []UsesAreCounted
<1>1. CountInv => UsesAreCounted
  BY DEF CountInv
<1>2. QED
  BY <1>1, Inductive, PTL

(* validateToken refuses a token whose counted uploads reached max_uses,    *)
(* under the same reservation.                                              *)
THEOREM AdmissionCorrect == Spec => []NoAdmissionOnceSpent
<1>1. CountInv => NoAdmissionOnceSpent
  BY DEF CountInv
<1>2. QED
  BY <1>1, Inductive, PTL

-----------------------------------------------------------------------------
(* Expiry.  A copy is held only while the record is there, unless it came   *)
(* back; and a token that is no revenant has a record with its first TTL,   *)
(* and so do the copies of it.                                              *)
LifeInv ==
  /\ \A t \in ending : gen[t] # "new"
  /\ due \subseteq ending
  /\ \A t \in Tokens \ (reborn \cup rolled) : Holding(t) # {} => redis[t] # NoRecord
  /\ \A t \in Tokens \ Revenants :
       /\ t \in due => redis[t] = NoRecord
       /\ redis[t] # NoRecord => ~redis[t].ext
       /\ \A u \in Holding(t) : ~upl[u].got.ext

(* A step that leaves the uploads alone, and drops no record an upload      *)
(* holds unless it says so, keeps it.                                       *)
LEMMA OthersKeepLife ==
  ASSUME TypeOK, LifeInv, upl' = upl, prolonged' = prolonged,
         reborn \subseteq reborn', rolled \subseteq rolled',
         \A t \in Tokens : gen[t] # "new" => gen'[t] # "new",
         ending \subseteq ending', \A t \in ending' \ ending : gen[t] # "new",
         due' \subseteq ending',
         \A t \in due' \ due : redis'[t] = NoRecord \/ t \in Revenants',
         \A t \in Tokens \ (reborn' \cup rolled') :
            redis'[t] = redis[t] \/ (redis'[t] = NoRecord /\ Holding(t) = {}),
         ending' \subseteq Tokens
  PROVE  LifeInv'
<1>1. \A t : Holding(t)' = Holding(t)
  BY DEF Holding, UploadsOf
<1>2. \A t \in ending' : gen'[t] # "new"
  BY DEF LifeInv
<1>3. \A t \in Tokens \ (reborn' \cup rolled') : Holding(t) # {} => redis'[t] # NoRecord
  BY DEF LifeInv
<1>4. Revenants \subseteq Revenants' /\ \A t : t \notin Revenants' => t \notin reborn' \cup rolled'
  BY DEF Revenants
<1>5. ASSUME NEW t \in Tokens \ Revenants'
      PROVE  /\ t \in due' => redis'[t] = NoRecord
             /\ redis'[t] # NoRecord => ~redis'[t].ext
             /\ \A u \in Holding(t) : ~upl[u].got.ext
  BY <1>4 DEF LifeInv
<1>6. QED
  BY <1>1, <1>2, <1>3, <1>5 DEF LifeInv

(* A record that goes keeps it: an upload that holds a copy makes it reborn.*)
LEMMA GoneKeepsLife ==
  ASSUME TypeOK, LifeInv, NEW S \in SUBSET Tokens, Gone(S),
         upl' = upl, rolled' = rolled, gen' = gen, ending' = ending, due' = due,
         prolonged' = prolonged
  PROVE  LifeInv'
<1>1. \A t \in Tokens \ (reborn' \cup rolled') :
         redis'[t] = redis[t] \/ (redis'[t] = NoRecord /\ Holding(t) = {})
  BY DEF Gone, LifeInv
<1>2. reborn \subseteq reborn' /\ ending' \subseteq Tokens /\ due' \subseteq ending'
  BY DEF Gone, TypeOK, LifeInv
<1>3. QED
  BY <1>1, <1>2, OthersKeepLife

LEMMA GenerateKeepsLife ==
  ASSUME TypeOK, RequestsOK, LifeInv, NEW t \in Tokens, Generate(t)
  PROVE  LifeInv'
<1>1. CASE GenerateSetEx(t)
  <2>1. /\ upl' = upl /\ UNCHANGED <<reborn, rolled, prolonged>>
        /\ ending' = ending /\ due' = due /\ gen[t] = "new"
        /\ redis' = [redis EXCEPT ![t] = NewRecord(t)]
        /\ gen' = [gen EXCEPT ![t] = "member"]
    BY <1>1 DEF GenerateSetEx, history
  <2>2. (\A s : Holding(s)' = Holding(s)) /\ Revenants' = Revenants
    BY <2>1 DEF Holding, UploadsOf, Revenants
  <2>3. t \notin due
    BY <2>1 DEF LifeInv
  <2>4. Holding(t) = {}
    BY <2>1, NoTokenAssumption DEF RequestsOK, Holding, UploadsOf
  <2>5. t \notin Revenants => ~NewRecord(t).ext
    BY DEF NewRecord, Revenants
  <2>6. redis'[t] = NewRecord(t) /\ \A s \in Tokens \ {t} : redis'[s] = redis[s]
    BY <2>1 DEF TypeOK
  <2>7. (\A s \in ending : gen'[s] # "new") /\ due' \subseteq ending'
    BY <2>1 DEF LifeInv, TypeOK
  <2>8. \A s \in Tokens \ (reborn \cup rolled) : Holding(s) # {} => redis'[s] # NoRecord
    BY <2>4, <2>6 DEF LifeInv
  <2>9. ASSUME NEW s \in Tokens \ Revenants
        PROVE  /\ s \in due => redis'[s] = NoRecord
               /\ redis'[s] # NoRecord => ~redis'[s].ext
               /\ \A u \in Holding(s) : ~upl[u].got.ext
    <3>1. CASE s = t
      BY <2>3, <2>4, <2>5, <2>6, <3>1
    <3>2. CASE s # t
      BY <2>6, <3>2 DEF LifeInv
    <3>3. QED
      BY <3>1, <3>2
  <2>10. QED
    BY <2>1, <2>2, <2>7, <2>8, <2>9 DEF LifeInv
<1>2. CASE ~GenerateSetEx(t)
  <2>1. /\ upl' = upl /\ UNCHANGED <<reborn, rolled, prolonged>>
        /\ ending' = ending /\ due' = due /\ redis' = redis
    BY <1>2 DEF Generate, GenerateSkipRedis, GenerateSAdd, GenerateIndex, GenerateFails, stores, history
  <2>2. \A s \in Tokens : gen[s] # "new" => gen'[s] # "new"
    BY <1>2 DEF Generate, GenerateSkipRedis, GenerateSAdd, GenerateIndex, GenerateFails, TypeOK
  <2>3. ending' \subseteq Tokens /\ due' \subseteq ending'
    BY <2>1 DEF TypeOK, LifeInv
  <2>4. QED
    BY <2>1, <2>2, <2>3, OthersKeepLife
<1>3. QED
  BY <1>1, <1>2

LEMMA UploadKeepsLife ==
  ASSUME TypeOK, LifeInv, NEW u \in Uploads, NEW t \in Tokens, NEW ok \in BOOLEAN,
         Validate(u, t) \/ ValidateTimeout(u, t) \/ FilesHandled(u, ok)
  PROVE  LifeInv'
<1>1. /\ redis' = redis /\ ending' = ending /\ due' = due /\ gen' = gen
      /\ UNCHANGED <<reborn, rolled, prolonged>>
      /\ \A w \in Uploads \ {u} : upl'[w] = upl[w]
  BY DEF Validate, ValidateTimeout, FilesHandled, stores, history, TypeOK
<1>2. upl[u].pc \notin {"ttl", "set"} /\ upl'[u].pc \notin {"ttl", "set"}
  BY DEF Validate, ValidateTimeout, FilesHandled, TypeOK, UploadState
<1>3. \A s : Holding(s)' = Holding(s) /\ u \notin Holding(s)
  BY <1>1, <1>2 DEF Holding, UploadsOf
<1>4. \A s : \A w \in Holding(s) : upl'[w].got = upl[w].got
  BY <1>1, <1>3 DEF Holding, UploadsOf
<1>5. Revenants' = Revenants
  BY <1>1 DEF Revenants
<1>6. QED
  BY <1>1, <1>3, <1>4, <1>5 DEF LifeInv

(* A consumption hands the TTL on: the record it read had its first TTL, it *)
(* is still there at the TTL command and at the SETEX, or it is reborn; and *)
(* when the TTL command answers 0 the token is prolonged.                   *)
LEMMA ConsumeKeepsLife ==
  ASSUME TypeOK, RequestsOK, LifeInv, NEW u \in Uploads, Consume(u)
  PROVE  LifeInv'
<1>0. upl[u] \in UploadState /\ upl[u].tok \in Tokens
  BY DEF Consume, ConsumeGet, ConsumeTtl, ConsumeSetEx, ConsumeFails, RequestsOK, TypeOK
<1>a. PICK t \in Tokens : upl[u].tok = t
  BY <1>0
<1>1. /\ ending' = ending /\ due' = due /\ gen' = gen /\ reborn' = reborn /\ rolled' = rolled
      /\ \A w \in Uploads \ {u} : upl'[w] = upl[w]
      /\ \A s \in Tokens \ {t} : redis'[s] = redis[s]
  BY <1>a DEF Consume, ConsumeGet, ConsumeTtl, ConsumeSetEx, ConsumeFails, stores, history, TypeOK
<1>b. prolonged \subseteq prolonged'
  BY DEF Consume, ConsumeGet, ConsumeTtl, ConsumeSetEx, ConsumeFails, history
<1>c. Revenants \subseteq Revenants'
  BY <1>1, <1>b DEF Revenants
<1>d. \A s \in Tokens \ Revenants' : s \notin reborn \cup rolled /\ s \notin Revenants
  BY <1>c DEF Revenants
<1>2. upl'[u].tok = t
  <2>1. CASE ConsumeGet(u)
    BY <1>0, <1>a, <2>1 DEF ConsumeGet, TypeOK, UploadState
  <2>2. CASE ConsumeTtl(u)
    BY <1>0, <1>a, <2>2 DEF ConsumeTtl, TypeOK, UploadState
  <2>3. CASE ConsumeSetEx(u)
    BY <1>0, <1>a, <2>3 DEF ConsumeSetEx, TypeOK, UploadState
  <2>4. CASE ConsumeFails(u)
    BY <1>0, <1>a, <2>4 DEF ConsumeFails, TypeOK, UploadState
  <2>5. QED
    BY <2>1, <2>2, <2>3, <2>4 DEF Consume
<1>3. \A s : \A w \in Holding(s)' :
         \/ w \in Holding(s) /\ w # u /\ upl'[w].got = upl[w].got
         \/ w = u /\ s = t /\ upl'[u].pc \in {"ttl", "set"}
  BY <1>1, <1>2 DEF Holding, UploadsOf
<1>4. ASSUME t \notin reborn \cup rolled
      PROVE  /\ redis'[t] # redis[t] => redis[t] # NoRecord /\ redis'[t] # NoRecord
             /\ upl'[u].pc \in {"ttl", "set"} => redis[t] # NoRecord
  <2>1. CASE ConsumeGet(u)
    <3>1. redis' = redis
      BY <2>1 DEF ConsumeGet, stores
    <3>2. redis[t] = NoRecord => upl'[u].pc = "done"
      BY <1>0, <1>a, <2>1 DEF ConsumeGet, TypeOK, UploadState
    <3>3. QED
      BY <3>1, <3>2
  <2>2. CASE ConsumeTtl(u) \/ ConsumeSetEx(u)
    <3>1. u \in Holding(t) /\ (ConsumeSetEx(u) => upl[u].got \in Record)
      BY <1>a, <2>2 DEF ConsumeTtl, ConsumeSetEx, RequestsOK, Holding, UploadsOf
    <3>2. redis[t] # NoRecord
      BY <1>4, <3>1 DEF LifeInv
    <3>3. redis'[t] \in {redis[t], upl[u].got} /\ (ConsumeTtl(u) => redis'[t] = redis[t])
      BY <1>0, <1>a, <2>2 DEF ConsumeTtl, ConsumeSetEx, stores, TypeOK
    <3>4. ConsumeSetEx(u) => upl[u].got # NoRecord
      BY <3>1, NoRecordAssumption
    <3>5. QED
      BY <2>2, <3>2, <3>3, <3>4
  <2>3. CASE ConsumeFails(u)
    BY <1>0, <2>3 DEF ConsumeFails, stores, TypeOK, UploadState
  <2>4. QED
    BY <2>1, <2>2, <2>3 DEF Consume
<1>5. ASSUME t \notin Revenants'
      PROVE  /\ redis'[t] # redis[t] => ~redis'[t].ext
             /\ upl'[u].pc \in {"ttl", "set"} => ~upl'[u].got.ext
  <2>0. t \notin Revenants /\ t \notin reborn \cup rolled
    BY <1>5, <1>d
  <2>1. CASE ConsumeGet(u)
    <3>1. redis' = redis /\ (redis[t] # NoRecord => upl'[u].got.ext = redis[t].ext)
      BY <1>0, <1>a, <2>1 DEF ConsumeGet, Used, stores, TypeOK, UploadState
    <3>2. redis[t] = NoRecord => upl'[u].pc = "done"
      BY <1>0, <1>a, <2>1 DEF ConsumeGet, TypeOK, UploadState
    <3>3. QED
      BY <2>0, <3>1, <3>2 DEF LifeInv
  <2>2. CASE ConsumeTtl(u)
    <3>1. upl[u].got \in Record /\ u \in Holding(t)
      BY <1>a, <2>2 DEF ConsumeTtl, RequestsOK, Holding, UploadsOf
    <3>2. redis[t] # NoRecord /\ ~redis[t].ext
      BY <2>0, <3>1 DEF LifeInv
    <3>3. t \notin prolonged'
      BY <1>5 DEF Revenants
    <3>4. t \notin ending
      BY <1>a, <2>2, <3>2, <3>3 DEF ConsumeTtl
    <3>5. upl' = [upl EXCEPT ![u].pc = "set", ![u].got.ext = FALSE]
      BY <1>a, <2>2, <3>2, <3>4 DEF ConsumeTtl
    <3>6. redis' = redis /\ ~upl'[u].got.ext
      BY <1>0, <2>2, <3>1, <3>5 DEF ConsumeTtl, stores, TypeOK, UploadState, Record
    <3>7. QED
      BY <3>6
  <2>3. CASE ConsumeSetEx(u)
    <3>1. u \in Holding(t)
      BY <1>a, <2>3 DEF ConsumeSetEx, Holding, UploadsOf
    <3>2. ~upl[u].got.ext
      BY <2>0, <3>1 DEF LifeInv
    <3>3. redis'[t] = upl[u].got /\ upl'[u].pc = "done"
      BY <1>0, <1>a, <2>3 DEF ConsumeSetEx, TypeOK, UploadState
    <3>4. QED
      BY <3>2, <3>3
  <2>4. CASE ConsumeFails(u)
    BY <1>0, <2>4 DEF ConsumeFails, stores, TypeOK, UploadState
  <2>5. QED
    BY <2>1, <2>2, <2>3, <2>4 DEF Consume
<1>6. ASSUME NEW s \in Tokens \ (reborn \cup rolled), Holding(s)' # {}
      PROVE  redis'[s] # NoRecord
  <2>1. CASE s = t
    BY <1>3, <1>4, <1>6, <2>1 DEF LifeInv
  <2>2. CASE s # t
    BY <1>1, <1>3, <1>6, <2>2 DEF LifeInv
  <2>3. QED
    BY <2>1, <2>2
<1>7. ASSUME NEW s \in Tokens \ Revenants'
      PROVE  /\ s \in due => redis'[s] = NoRecord
             /\ redis'[s] # NoRecord => ~redis'[s].ext
             /\ \A w \in Holding(s)' : ~upl'[w].got.ext
  <2>0. s \notin reborn \cup rolled /\ s \notin Revenants
    BY <1>d
  <2>1. CASE s = t
    <3>1. redis[t] = NoRecord => redis'[t] = NoRecord
      BY <1>4, <2>0, <2>1
    <3>2. \A w \in Holding(t)' : ~upl'[w].got.ext
      BY <1>3, <1>5, <1>7, <2>0, <2>1 DEF LifeInv
    <3>3. QED
      BY <1>5, <1>7, <2>0, <2>1, <3>1, <3>2 DEF LifeInv
  <2>2. CASE s # t
    <3>1. redis'[s] = redis[s]
      BY <1>1, <2>2
    <3>2. \A w \in Holding(s)' : w \in Holding(s) /\ upl'[w].got = upl[w].got
      BY <1>3, <2>2
    <3>3. QED
      BY <2>0, <3>1, <3>2 DEF LifeInv
  <2>3. QED
    BY <2>1, <2>2
<1>8. (\A s \in ending' : gen'[s] # "new") /\ due' \subseteq ending'
  BY <1>1 DEF LifeInv
<1>9. QED
  BY <1>1, <1>6, <1>7, <1>8 DEF LifeInv

LEMMA EnvironmentKeepsLife ==
  ASSUME TypeOK, LifeInv, Environment
  PROVE  LifeInv'
<1>0. ending \subseteq Tokens /\ due \subseteq ending
  BY DEF TypeOK, LifeInv
<1>1. ASSUME NEW t \in Tokens, ExpiresAt(t)
      PROVE  LifeInv'
  <2> DEFINE S == IF redis[t] # NoRecord /\ ~redis[t].ext THEN {t} ELSE {}
  <2>1. /\ Gone(S) /\ S \in SUBSET Tokens /\ t \in ending /\ due' = due \cup {t}
        /\ upl' = upl /\ rolled' = rolled /\ gen' = gen /\ ending' = ending
        /\ prolonged' = prolonged
    BY <1>1 DEF ExpiresAt
  <2>2. reborn \subseteq reborn' /\ ending' \subseteq Tokens /\ due' \subseteq ending'
    BY <1>0, <2>1 DEF Gone
  <2>3. Revenants \subseteq Revenants'
    BY <2>1, <2>2 DEF Revenants
  <2>4. redis'[t] = NoRecord \/ t \in Revenants'
    BY <2>1, <2>3 DEF Gone, LifeInv
  <2>5. \A s \in Tokens \ (reborn' \cup rolled') :
           redis'[s] = redis[s] \/ (redis'[s] = NoRecord /\ Holding(s) = {})
    BY <2>1 DEF Gone, LifeInv
  <2>6. QED
    BY <2>1, <2>2, <2>4, <2>5, OthersKeepLife
<1>2. ASSUME NEW t \in Tokens, LateExpiry(t) \/ EvictRecord(t)
      PROVE  LifeInv'
  BY <1>2, GoneKeepsLife DEF LateExpiry, EvictRecord
<1>3. CASE Restart
  <2>1. \A t \in Tokens \ rolled' : redis'[t] = redis[t]
    BY <1>3 DEF Restart
  <2>2. QED
    BY <1>0, <1>3, <2>1, OthersKeepLife DEF Restart
<1>4. CASE RedisDown \/ RedisUp \/ Snapshot \/ EvictMembers
  BY <1>0, <1>4, OthersKeepLife DEF RedisDown, RedisUp, Snapshot, EvictMembers, stores, history
<1>5. ASSUME NEW t \in Tokens, LastMoment(t)
      PROVE  LifeInv'
  BY <1>0, <1>5, OthersKeepLife DEF LastMoment, history
<1>6. QED
  BY <1>1, <1>2, <1>3, <1>4, <1>5 DEF Environment

LEMMA NextKeepsLife == TypeOK /\ RequestsOK /\ LifeInv /\ [Next]_vars => LifeInv'
<1> SUFFICES ASSUME TypeOK, RequestsOK, LifeInv, [Next]_vars
             PROVE  LifeInv'
  OBVIOUS
<1>1. ASSUME upl' = upl, redis' = redis, ending' = ending, due' = due, gen' = gen,
             UNCHANGED <<reborn, rolled, prolonged>>
      PROVE  LifeInv'
  <2>1. ending \subseteq Tokens /\ due \subseteq ending
    BY DEF TypeOK, LifeInv
  <2>2. QED
    BY <1>1, <2>1, OthersKeepLife
<1>2. CASE UNCHANGED vars
  BY <1>1, <1>2 DEF vars, stores, history
<1>3. ASSUME NEW t \in Tokens, Generate(t)
      PROVE  LifeInv'
  BY <1>3, GenerateKeepsLife
<1>4. ASSUME NEW u \in Uploads, NEW t \in Tokens, Validate(u, t) \/ ValidateTimeout(u, t)
      PROVE  LifeInv'
  BY <1>4, UploadKeepsLife
<1>5. ASSUME NEW u \in Uploads, NEW ok \in BOOLEAN, FilesHandled(u, ok)
      PROVE  LifeInv'
  <2>1. upl[u].tok \in Tokens
    BY <1>5 DEF RequestsOK, FilesHandled
  <2>2. QED
    BY <1>5, <2>1, UploadKeepsLife
<1>6. ASSUME NEW u \in Uploads, Consume(u)
      PROVE  LifeInv'
  BY <1>6, ConsumeKeepsLife
<1>7. ASSUME NEW v \in Revokes, NEW ref \in Refs, NEW next \in RevokeSteps,
             RevokeById(v, ref) \/ RevokeByIdUnanswered(v, ref, next)
      PROVE  LifeInv'
  BY <1>1, <1>7 DEF RevokeById, RevokeByIdUnanswered, history
<1>8. ASSUME NEW v \in Revokes, RevokeStep(v)
      PROVE  LifeInv'
  <2>1. ASSUME NEW t \in Tokens, PurgeDelete(v, t)
        PROVE  LifeInv'
    BY <2>1, GoneKeepsLife DEF PurgeDelete
  <2>2. QED
    BY <1>1, <1>8, <2>1
       DEF RevokeStep, RevokeSearch, RevokeHit, RevokeHitUnanswered, PurgeSkip, RevokeList,
           RevokeFails, stores, history
<1>9. CASE Environment
  BY <1>9, EnvironmentKeepsLife
<1>10. QED
  <2>1. \E next \in RevokeSteps : TRUE
    BY DEF RevokeSteps
  <2>2. QED
    BY <1>2, <1>3, <1>4, <1>5, <1>6, <1>7, <1>8, <1>9, <2>1 DEF Next

LEMMA InitLife == Init => LifeInv
<1> SUFFICES ASSUME Init
             PROVE  LifeInv
  OBVIOUS
<1>1. \A t \in Tokens : redis[t] = NoRecord /\ Holding(t) = {}
  BY DEF Init, Holding, UploadsOf
<1>2. QED
  BY <1>1 DEF Init, LifeInv

-----------------------------------------------------------------------------
(* Revocation.  It deletes only what its reference designates.              *)
RevokesOK ==
  \A v \in Revokes :
    /\ \A t \in rev[v].deleted : t \in Match(rev[v].ref)
    /\ rev[v].pc = "hits" => \A t \in rev[v].todo : t \in Match(rev[v].ref)

(* v removed the document of t and has yet to purge its record.             *)
Pending(v, t) ==
  /\ rev[v].pc \in {"hits", "list", "purge"} /\ t \in rev[v].deleted
  /\ rev[v].pc = "purge" => t \in rev[v].todo

(* A record is in it:tokens:all once SADD was done, and once the token is   *)
(* handed out it has its document or a revocation at work on it: a purge    *)
(* finds through the first what the second tells it to purge.               *)
ListedOK ==
  \A t \in Tokens \ (reborn \cup rolled \cup missed) :
    redis[t] # NoRecord =>
      /\ gen[t] \in {"index", "done"} => t \in members
      /\ gen[t] = "done" => docs[t] # NoRecord \/ \E v \in Revokes : Pending(v, t)

LEMMA OthersKeepRevokes == RevokesOK /\ rev' = rev => RevokesOK'
BY DEF RevokesOK

LEMMA RevokeByIdKeepsRevokes ==
  ASSUME TypeOK, RevokesOK, NEW v \in Revokes, NEW ref \in Refs, RevokeById(v, ref)
  PROVE  RevokesOK'
<1>1. rev[v] \in RevokeState
  BY DEF TypeOK
<1>2. /\ rev'[v].ref = ref /\ \A t \in rev'[v].deleted : t \in Match(ref)
      /\ rev'[v].pc # "hits"
      /\ \A w \in Revokes \ {v} : rev'[w] = rev[w]
  BY <1>1 DEF RevokeById, TypeOK, RevokeState
<1>3. QED
  BY <1>2 DEF RevokesOK

LEMMA RevokeUnansweredKeepsRevokes ==
  ASSUME TypeOK, RevokesOK, NEW v \in Revokes, NEW ref \in Refs, NEW next \in RevokeSteps,
         RevokeByIdUnanswered(v, ref, next)
  PROVE  RevokesOK'
<1>1. rev[v] \in RevokeState
  BY DEF TypeOK
<1>2. /\ rev'[v].deleted = {} /\ rev'[v].pc # "hits"
      /\ \A w \in Revokes \ {v} : rev'[w] = rev[w]
  BY <1>1 DEF RevokeByIdUnanswered, TypeOK, RevokeState
<1>3. QED
  BY <1>2 DEF RevokesOK

LEMMA RevokeStepKeepsRevokes ==
  ASSUME TypeOK, RevokesOK, NEW v \in Revokes, RevokeStep(v)
  PROVE  RevokesOK'
<1>1. rev[v] \in RevokeState
  BY DEF TypeOK
<1>2. ASSUME NEW hits \in SUBSET Tokens, RevokeSearch(v, hits)
      PROVE  RevokesOK'
  BY <1>1, <1>2 DEF RevokesOK, RevokeSearch, TypeOK, RevokeState
<1>3. ASSUME NEW t \in Tokens, RevokeHit(v, t)
      PROVE  RevokesOK'
  <2>1. /\ rev'[v].ref = rev[v].ref /\ rev'[v].todo = rev[v].todo \ {t}
        /\ rev'[v].deleted \subseteq rev[v].deleted \cup {t}
        /\ rev[v].pc = "hits" /\ t \in rev[v].todo
        /\ \A w \in Revokes \ {v} : rev'[w] = rev[w]
    BY <1>1, <1>3 DEF RevokeHit, TypeOK, RevokeState
  <2>2. QED
    BY <2>1 DEF RevokesOK
<1>4. ASSUME NEW t \in Tokens, PurgeTurn(v, t)
      PROVE  RevokesOK'
  <2>1. /\ rev'[v].ref = rev[v].ref /\ rev'[v].deleted = rev[v].deleted
        /\ rev'[v].pc # "hits"
        /\ \A w \in Revokes \ {v} : rev'[w] = rev[w]
    BY <1>1, <1>4 DEF PurgeTurn, TypeOK, RevokeState
  <2>2. QED
    BY <2>1 DEF RevokesOK
<1>5. CASE RevokeList(v) \/ RevokeFails(v)
  <2>1. /\ rev'[v].ref = rev[v].ref /\ rev'[v].deleted = rev[v].deleted
        /\ rev'[v].pc # "hits"
        /\ \A w \in Revokes \ {v} : rev'[w] = rev[w]
    BY <1>1, <1>5 DEF RevokeList, RevokeFails, TypeOK, RevokeState
  <2>2. QED
    BY <2>1 DEF RevokesOK
<1>6. ASSUME NEW t \in Tokens, RevokeHitUnanswered(v, t)
      PROVE  RevokesOK'
  <2>1. /\ rev'[v].ref = rev[v].ref /\ rev'[v].todo = rev[v].todo \ {t}
        /\ rev'[v].deleted = rev[v].deleted /\ rev[v].pc = "hits"
        /\ \A w \in Revokes \ {v} : rev'[w] = rev[w]
    BY <1>1, <1>6 DEF RevokeHitUnanswered, TypeOK, RevokeState
  <2>2. QED
    BY <2>1 DEF RevokesOK
<1>7. QED
  BY <1>2, <1>3, <1>4, <1>5, <1>6 DEF RevokeStep, PurgeDelete, PurgeSkip

(* A step of no revocation keeps ListedOK when, of the tokens nothing was   *)
(* lost of, it brings no record back, undoes no SADD and moves no token on. *)
LEMMA OthersKeepListed ==
  ASSUME ListedOK, rev' = rev, docs' = docs,
         reborn \cup rolled \cup missed \subseteq reborn' \cup rolled' \cup missed',
         \A t \in Tokens \ (reborn' \cup rolled' \cup missed') : redis'[t] # NoRecord =>
            redis[t] # NoRecord /\ gen'[t] = gen[t] /\ (t \in members => t \in members')
  PROVE  ListedOK'
<1>1. \A v, t : Pending(v, t)' <=> Pending(v, t)
  BY DEF Pending
<1>2. ASSUME NEW t \in Tokens \ (reborn' \cup rolled' \cup missed'), redis'[t] # NoRecord
      PROVE  /\ gen'[t] \in {"index", "done"} => t \in members'
             /\ gen'[t] = "done" => docs'[t] # NoRecord \/ \E v \in Revokes : Pending(v, t)'
  BY <1>1, <1>2 DEF ListedOK
<1>3. QED
  BY <1>2 DEF ListedOK

LEMMA GenerateKeepsListed ==
  ASSUME TypeOK, RequestsOK, ListedOK, NEW t \in Tokens, Generate(t)
  PROVE  ListedOK'
<1>1. rev' = rev /\ reborn' = reborn /\ rolled' = rolled /\ missed' = missed
  BY DEF Generate, GenerateSetEx, GenerateSkipRedis, GenerateSAdd, GenerateIndex, GenerateFails, history
<1>2. \A v, s : Pending(v, s)' <=> Pending(v, s)
  BY <1>1 DEF Pending
<1>3. /\ \A s \in Tokens \ {t} : redis'[s] = redis[s] /\ docs'[s] = docs[s] /\ gen'[s] = gen[s]
      /\ members \subseteq members'
  BY DEF Generate, GenerateSetEx, GenerateSkipRedis, GenerateSAdd, GenerateIndex, GenerateFails,
         stores, TypeOK
<1>4. ASSUME t \notin reborn \cup rolled \cup missed, redis'[t] # NoRecord
      PROVE  /\ gen'[t] \in {"index", "done"} => t \in members'
             /\ gen'[t] = "done" => docs'[t] # NoRecord
  <2>1. CASE GenerateSetEx(t)
    BY <2>1 DEF GenerateSetEx, TypeOK
  <2>2. CASE GenerateSkipRedis(t)
    BY <1>4, <2>2 DEF GenerateSkipRedis, RequestsOK, stores
  <2>3. CASE GenerateSAdd(t)
    BY <2>3 DEF GenerateSAdd, TypeOK
  <2>4. CASE GenerateIndex(t)
    <3>1. [uses |-> 0, status |-> "active"] # NoRecord
      BY NoRecordAssumption DEF Document
    <3>2. docs'[t] # NoRecord
      BY <2>4, <3>1 DEF GenerateIndex, TypeOK
    <3>3. t \in members'
      BY <1>4, <2>4 DEF GenerateIndex, ListedOK
    <3>4. QED
      BY <3>2, <3>3
  <2>5. CASE GenerateFails(t)
    BY <2>5 DEF GenerateFails, TypeOK
  <2>6. QED
    BY <2>1, <2>2, <2>3, <2>4, <2>5 DEF Generate
<1>5. ASSUME NEW s \in Tokens \ (reborn \cup rolled \cup missed), redis'[s] # NoRecord
      PROVE  /\ gen'[s] \in {"index", "done"} => s \in members'
             /\ gen'[s] = "done" => docs'[s] # NoRecord \/ \E v \in Revokes : Pending(v, s)'
  <2>1. CASE s = t
    BY <1>4, <1>5, <2>1
  <2>2. CASE s # t
    BY <1>2, <1>3, <1>5, <2>2 DEF ListedOK
  <2>3. QED
    BY <2>1, <2>2
<1>6. QED
  BY <1>1, <1>5 DEF ListedOK

(* A SETEX writes a record where there was one, or the token is reborn.     *)
LEMMA ConsumeKeepsListed ==
  ASSUME TypeOK, RequestsOK, LifeInv, ListedOK, NEW u \in Uploads, Consume(u)
  PROVE  ListedOK'
<1>1. /\ rev' = rev /\ docs' = docs /\ gen' = gen /\ members' = members
      /\ reborn' = reborn /\ rolled' = rolled /\ missed' = missed
  BY DEF Consume, ConsumeGet, ConsumeTtl, ConsumeSetEx, ConsumeFails, stores, history
<1>2. ASSUME NEW t \in Tokens \ (reborn \cup rolled), redis'[t] # NoRecord
      PROVE  redis[t] # NoRecord
  <2>1. CASE ConsumeSetEx(u) /\ upl[u].tok = t
    <3>1. u \in Holding(t)
      BY <2>1 DEF ConsumeSetEx, Holding, UploadsOf
    <3>2. QED
      BY <3>1 DEF LifeInv
  <2>2. CASE ~(ConsumeSetEx(u) /\ upl[u].tok = t)
    <3>1. redis'[t] = redis[t]
      BY <2>2 DEF Consume, ConsumeGet, ConsumeTtl, ConsumeSetEx, ConsumeFails, stores, TypeOK
    <3>2. QED
      BY <1>2, <3>1
  <2>3. QED
    BY <2>1, <2>2
<1>3. QED
  BY <1>1, <1>2, OthersKeepListed

(* A step of v that leaves Redis alone keeps it when each document it       *)
(* removes, and each purge v still had to do, is still pending, or what it  *)
(* could not do is missed.                                                  *)
LEMMA RevokeOthersKeepListed ==
  ASSUME ListedOK, NEW v \in Revokes,
         redis' = redis, members' = members, gen' = gen, reborn' = reborn, rolled' = rolled,
         missed \subseteq missed',
         \A w \in Revokes \ {v} : rev'[w] = rev[w],
         \A t \in Tokens \ (reborn \cup rolled \cup missed') :
            redis[t] # NoRecord /\ gen[t] = "done" =>
              /\ docs[t] # NoRecord => docs'[t] # NoRecord \/ Pending(v, t)'
              /\ Pending(v, t) => Pending(v, t)' \/ docs'[t] # NoRecord
              /\ docs'[t] = docs[t] \/ Pending(v, t)'
  PROVE  ListedOK'
<1>1. \A w \in Revokes \ {v} : \A t : Pending(w, t)' <=> Pending(w, t)
  BY DEF Pending
<1>2. ASSUME NEW t \in Tokens \ (reborn \cup rolled \cup missed'), redis[t] # NoRecord
      PROVE  /\ gen[t] \in {"index", "done"} => t \in members
             /\ gen[t] = "done" => docs'[t] # NoRecord \/ \E w \in Revokes : Pending(w, t)'
  <2>1. /\ gen[t] \in {"index", "done"} => t \in members
        /\ gen[t] = "done" => docs[t] # NoRecord \/ \E w \in Revokes : Pending(w, t)
    BY <1>2 DEF ListedOK
  <2>2. QED
    BY <1>1, <1>2, <2>1
<1>3. QED
  BY <1>2 DEF ListedOK

LEMMA RevokeByIdKeepsListed ==
  ASSUME TypeOK, ListedOK, NEW v \in Revokes, NEW ref \in Refs, RevokeById(v, ref)
  PROVE  ListedOK'
<1> DEFINE found == {t \in Match(ref) : ref.kind = "id" /\ docs[t] # NoRecord}
<1>1. rev[v] \in RevokeState
  BY DEF TypeOK
<1>2. /\ redis' = redis /\ members' = members /\ gen' = gen
      /\ reborn' = reborn /\ rolled' = rolled /\ missed' = missed
      /\ rev[v].pc = "idle"
      /\ docs' = [t \in Tokens |-> IF t \in found THEN NoRecord ELSE docs[t]]
      /\ rev' = [rev EXCEPT ![v].pc = IF found # {} THEN "list" ELSE "search",
                            ![v].ref = ref, ![v].deleted = found]
  BY DEF RevokeById, history
<1> HIDE DEF found
<1>3. \A w \in Revokes \ {v} : rev'[w] = rev[w]
  BY <1>2 DEF TypeOK
<1>4. \A t \in Tokens : docs'[t] = docs[t] \/ t \in found
  BY <1>2
<1>5. \A t \in found : Pending(v, t)'
  BY <1>1, <1>2 DEF Pending, TypeOK, RevokeState
<1>6. \A t : ~Pending(v, t)
  BY <1>2 DEF Pending
<1>7. QED
  BY <1>2, <1>3, <1>4, <1>5, <1>6, RevokeOthersKeepListed

(* A document removed without a reply is missed.                            *)
LEMMA RevokeUnansweredKeepsListed ==
  ASSUME TypeOK, ListedOK, NEW v \in Revokes, NEW ref \in Refs, NEW next \in RevokeSteps,
         RevokeByIdUnanswered(v, ref, next)
  PROVE  ListedOK'
<1>1. /\ redis' = redis /\ members' = members /\ gen' = gen
      /\ reborn' = reborn /\ rolled' = rolled /\ missed' = missed \cup {ref.val}
      /\ rev[v].pc = "idle" /\ \A w \in Revokes \ {v} : rev'[w] = rev[w]
      /\ \A s \in Tokens : s # ref.val => docs'[s] = docs[s]
  BY DEF RevokeByIdUnanswered, TypeOK
<1>2. \A s : ~Pending(v, s)
  BY <1>1 DEF Pending
<1>3. QED
  BY <1>1, <1>2, RevokeOthersKeepListed

LEMMA RevokeHitUnansweredKeepsListed ==
  ASSUME TypeOK, ListedOK, NEW v \in Revokes, NEW t \in Tokens, RevokeHitUnanswered(v, t)
  PROVE  ListedOK'
<1>1. rev[v] \in RevokeState
  BY DEF TypeOK
<1>2. /\ redis' = redis /\ members' = members /\ gen' = gen
      /\ reborn' = reborn /\ rolled' = rolled /\ missed' = missed \cup {t}
      /\ rev[v].pc = "hits" /\ \A w \in Revokes \ {v} : rev'[w] = rev[w]
      /\ \A s \in Tokens \ {t} : docs'[s] = docs[s]
  BY DEF RevokeHitUnanswered, TypeOK
<1>3. /\ rev'[v].deleted = rev[v].deleted
      /\ rev[v].deleted # {} => rev'[v].pc \in {"hits", "list"}
  BY <1>1 DEF RevokeHitUnanswered, AfterHits, TypeOK, RevokeState
<1>4. \A s : Pending(v, s) => Pending(v, s)'
  BY <1>3 DEF Pending
<1>5. QED
  BY <1>2, <1>4, RevokeOthersKeepListed

(* The search and the removal of the documents it found.                    *)
LEMMA RevokeSearchKeepsListed ==
  ASSUME TypeOK, ListedOK, NEW v \in Revokes, NEW hits \in SUBSET Tokens, RevokeSearch(v, hits)
  PROVE  ListedOK'
<1>1. /\ redis' = redis /\ members' = members /\ gen' = gen /\ docs' = docs
      /\ reborn' = reborn /\ rolled' = rolled /\ missed' = missed
      /\ rev[v].pc = "search" /\ \A w \in Revokes \ {v} : rev'[w] = rev[w]
  BY DEF RevokeSearch, stores, history, TypeOK
<1>2. \A s : ~Pending(v, s)
  BY <1>1 DEF Pending
<1>3. QED
  BY <1>1, <1>2, RevokeOthersKeepListed

LEMMA RevokeHitKeepsListed ==
  ASSUME TypeOK, ListedOK, NEW v \in Revokes, NEW t \in Tokens, RevokeHit(v, t)
  PROVE  ListedOK'
<1>1. rev[v] \in RevokeState
  BY DEF TypeOK
<1>2. /\ redis' = redis /\ members' = members /\ gen' = gen
      /\ reborn' = reborn /\ rolled' = rolled /\ missed' = missed
      /\ rev[v].pc = "hits" /\ \A w \in Revokes \ {v} : rev'[w] = rev[w]
      /\ \A s \in Tokens \ {t} : docs'[s] = docs[s]
      /\ docs'[t] = NoRecord
  BY DEF RevokeHit, history, TypeOK
<1>3. /\ rev[v].deleted \subseteq rev'[v].deleted
      /\ docs[t] # NoRecord => t \in rev'[v].deleted
      /\ rev'[v].deleted # {} => rev'[v].pc \in {"hits", "list"}
  BY <1>1 DEF RevokeHit, AfterHits, TypeOK, RevokeState
<1>4. \A s : Pending(v, s) => Pending(v, s)'
  BY <1>3 DEF Pending
<1>5. docs[t] # NoRecord => Pending(v, t)'
  BY <1>3 DEF Pending
<1>6. \A s \in Tokens : docs'[s] = docs[s] \/ Pending(v, s)'
  BY <1>2, <1>5
<1>7. QED
  BY <1>2, <1>4, <1>6, RevokeOthersKeepListed

(* The walk of it:tokens:all: what is pending is in the set, and stays in   *)
(* the walk until its record is gone.                                       *)
LEMMA RevokeListKeepsListed ==
  ASSUME TypeOK, RevokesOK, ListedOK, NEW v \in Revokes, RevokeList(v) \/ RevokeFails(v)
  PROVE  ListedOK'
<1>1. rev[v] \in RevokeState
  BY DEF TypeOK
<1>2. /\ redis' = redis /\ members' = members /\ gen' = gen /\ docs' = docs
      /\ reborn' = reborn /\ rolled' = rolled /\ missed \subseteq missed'
      /\ \A w \in Revokes \ {v} : rev'[w] = rev[w]
  BY DEF RevokeList, RevokeFails, stores, TypeOK
<1>3. ASSUME NEW t \in Tokens \ (reborn \cup rolled \cup missed'),
             redis[t] # NoRecord, gen[t] = "done", Pending(v, t)
      PROVE  Pending(v, t)'
  <2>1. t \in rev[v].deleted /\ t \in Match(rev[v].ref)
    BY <1>3 DEF Pending, RevokesOK
  <2>2. t \in members
    BY <1>2, <1>3 DEF ListedOK
  <2>3. CASE RevokeList(v)
    <3>1. up
      BY <1>3, <2>1, <2>3 DEF RevokeList
    <3>2. rev'[v].deleted = rev[v].deleted /\ rev'[v].todo = members /\ rev'[v].pc = "purge"
      BY <1>1, <2>2, <2>3, <3>1 DEF RevokeList, TypeOK, RevokeState
    <3>3. QED
      BY <2>1, <2>2, <3>2 DEF Pending
  <2>4. CASE RevokeFails(v)
    BY <1>3, <2>1, <2>4 DEF RevokeFails, Owed, Pending
  <2>5. QED
    BY <2>3, <2>4
<1>4. QED
  BY <1>2, <1>3, RevokeOthersKeepListed

LEMMA PurgeKeepsListed ==
  ASSUME TypeOK, RevokesOK, ListedOK, NEW v \in Revokes, NEW t \in Tokens,
         PurgeDelete(v, t) \/ PurgeSkip(v, t)
  PROVE  ListedOK'
<1>1. rev[v] \in RevokeState
  BY DEF TypeOK
<1>2. /\ gen' = gen /\ docs' = docs /\ rolled' = rolled
      /\ reborn \subseteq reborn' /\ missed \subseteq missed'
      /\ \A w \in Revokes \ {v} : rev'[w] = rev[w]
      /\ \A s \in Tokens \ {t} : redis'[s] = redis[s] /\ (s \in members => s \in members')
  BY DEF PurgeDelete, PurgeSkip, PurgeTurn, Gone, stores, TypeOK
<1>3. /\ rev'[v].deleted = rev[v].deleted /\ rev'[v].ref = rev[v].ref
      /\ rev[v].pc = "purge" /\ rev'[v].todo = rev[v].todo \ {t}
      /\ rev'[v].todo # {} => rev'[v].pc = "purge"
  BY <1>1 DEF PurgeDelete, PurgeSkip, PurgeTurn, TypeOK, RevokeState
<1>4. \A s \in Tokens \ {t} : Pending(v, s) => Pending(v, s)'
  BY <1>3 DEF Pending
<1>5. \A w \in Revokes \ {v} : \A s : Pending(w, s)' <=> Pending(w, s)
  BY <1>2 DEF Pending
<1>6. CASE PurgeDelete(v, t)
  <2>1. redis'[t] = NoRecord
    BY <1>6 DEF PurgeDelete, Gone
  <2>2. missed' = missed
    BY <1>6 DEF PurgeDelete
  <2>3. ASSUME NEW s \in Tokens \ (reborn' \cup rolled' \cup missed'), redis'[s] # NoRecord
        PROVE  /\ gen'[s] \in {"index", "done"} => s \in members'
               /\ gen'[s] = "done" => docs'[s] # NoRecord \/ \E w \in Revokes : Pending(w, s)'
    <3>1. s \in Tokens \ {t} /\ s \notin reborn \cup rolled \cup missed /\ redis[s] # NoRecord
      BY <1>2, <2>1, <2>3
    <3>2. /\ gen[s] \in {"index", "done"} => s \in members
          /\ gen[s] = "done" => docs[s] # NoRecord \/ \E w \in Revokes : Pending(w, s)
      BY <3>1 DEF ListedOK
    <3>3. QED
      BY <1>2, <1>4, <1>5, <3>1, <3>2
  <2>4. QED
    BY <2>3 DEF ListedOK
<1>7. CASE PurgeSkip(v, t)
  <2>1. /\ redis' = redis /\ members' = members /\ reborn' = reborn
        /\ up \/ t \notin Match(rev[v].ref) \/ t \in missed'
        /\ ~up \/ redis[t] = NoRecord \/ t \notin Match(rev[v].ref)
    BY <1>7 DEF PurgeSkip, stores
  <2>2. Pending(v, t) => redis[t] = NoRecord \/ t \in missed'
    BY <2>1 DEF Pending, RevokesOK
  <2>3. \A s \in Tokens \ (reborn \cup rolled \cup missed') :
           redis[s] # NoRecord /\ Pending(v, s) => Pending(v, s)'
    BY <1>4, <2>2
  <2>4. QED
    BY <1>2, <2>1, <2>3, RevokeOthersKeepListed
<1>8. QED
  BY <1>6, <1>7

LEMMA EnvironmentKeepsListed ==
  ASSUME TypeOK, ListedOK, Environment
  PROVE  ListedOK'
<1>1. ASSUME NEW t \in Tokens, ExpiresAt(t) \/ LateExpiry(t) \/ EvictRecord(t)
      PROVE  ListedOK'
  <2>1. PICK S \in SUBSET Tokens : Gone(S)
    BY <1>1 DEF ExpiresAt, LateExpiry, EvictRecord
  <2>2. /\ reborn \subseteq reborn' /\ \A s \in Tokens : redis'[s] # NoRecord => redis[s] # NoRecord
    BY <2>1 DEF Gone
  <2>3. /\ rev' = rev /\ docs' = docs /\ gen' = gen /\ members' = members
        /\ rolled' = rolled /\ missed' = missed
    BY <1>1 DEF ExpiresAt, LateExpiry, EvictRecord
  <2>4. QED
    BY <2>2, <2>3, OthersKeepListed
<1>2. CASE Restart
  <2>1. \A t \in Tokens \ rolled' : redis'[t] = redis[t] /\ (t \in members <=> t \in members')
    BY <1>2 DEF Restart
  <2>2. QED
    BY <1>2, <2>1, OthersKeepListed DEF Restart
<1>3. CASE EvictMembers
  BY <1>3, OthersKeepListed DEF EvictMembers
<1>4. CASE RedisDown \/ RedisUp \/ Snapshot
  BY <1>4, OthersKeepListed DEF RedisDown, RedisUp, Snapshot, stores, history
<1>5. CASE \E t \in Tokens : LastMoment(t)
  BY <1>5, OthersKeepListed DEF LastMoment, history
<1>6. QED
  BY <1>1, <1>2, <1>3, <1>4, <1>5 DEF Environment

LEMMA NextKeepsListed ==
  TypeOK /\ RequestsOK /\ LifeInv /\ RevokesOK /\ ListedOK /\ [Next]_vars
    => RevokesOK' /\ ListedOK'
<1> SUFFICES ASSUME TypeOK, RequestsOK, LifeInv, RevokesOK, ListedOK, [Next]_vars
             PROVE  RevokesOK' /\ ListedOK'
  OBVIOUS
<1>1. CASE UNCHANGED vars
  BY <1>1, OthersKeepListed, OthersKeepRevokes DEF vars, stores, history
<1>2. ASSUME NEW t \in Tokens, Generate(t)
      PROVE  RevokesOK' /\ ListedOK'
  <2>1. rev' = rev
    BY <1>2 DEF Generate, GenerateSetEx, GenerateSkipRedis, GenerateSAdd, GenerateIndex, GenerateFails
  <2>2. QED
    BY <1>2, <2>1, GenerateKeepsListed, OthersKeepRevokes
<1>3. ASSUME NEW u \in Uploads, NEW t \in Tokens, Validate(u, t) \/ ValidateTimeout(u, t)
      PROVE  RevokesOK' /\ ListedOK'
  BY <1>3, OthersKeepListed, OthersKeepRevokes DEF Validate, ValidateTimeout, stores, history
<1>4. ASSUME NEW u \in Uploads, NEW ok \in BOOLEAN, FilesHandled(u, ok)
      PROVE  RevokesOK' /\ ListedOK'
  BY <1>4, OthersKeepListed, OthersKeepRevokes DEF FilesHandled, stores, history
<1>5. ASSUME NEW u \in Uploads, Consume(u)
      PROVE  RevokesOK' /\ ListedOK'
  <2>1. rev' = rev
    BY <1>5 DEF Consume, ConsumeGet, ConsumeTtl, ConsumeSetEx, ConsumeFails
  <2>2. QED
    BY <1>5, <2>1, ConsumeKeepsListed, OthersKeepRevokes
<1>6. ASSUME NEW v \in Revokes, NEW ref \in Refs, RevokeById(v, ref)
      PROVE  RevokesOK' /\ ListedOK'
  BY <1>6, RevokeByIdKeepsListed, RevokeByIdKeepsRevokes
<1>a. ASSUME NEW v \in Revokes, NEW ref \in Refs, NEW next \in RevokeSteps,
             RevokeByIdUnanswered(v, ref, next)
      PROVE  RevokesOK' /\ ListedOK'
  BY <1>a, RevokeUnansweredKeepsListed, RevokeUnansweredKeepsRevokes
<1>7. ASSUME NEW v \in Revokes, RevokeStep(v)
      PROVE  RevokesOK' /\ ListedOK'
  <2>1. RevokesOK'
    BY <1>7, RevokeStepKeepsRevokes
  <2>2. ASSUME NEW hits \in SUBSET Tokens, RevokeSearch(v, hits)
        PROVE  ListedOK'
    BY <2>2, RevokeSearchKeepsListed
  <2>3. ASSUME NEW t \in Tokens, RevokeHit(v, t)
        PROVE  ListedOK'
    BY <2>3, RevokeHitKeepsListed
  <2>4. ASSUME NEW t \in Tokens, RevokeHitUnanswered(v, t)
        PROVE  ListedOK'
    BY <2>4, RevokeHitUnansweredKeepsListed
  <2>5. QED
    BY <1>7, <2>1, <2>2, <2>3, <2>4, RevokeListKeepsListed, PurgeKeepsListed DEF RevokeStep
<1>8. CASE Environment
  <2>1. rev' = rev
    BY <1>8 DEF Environment, ExpiresAt, LateExpiry, EvictRecord, RedisDown, RedisUp, Snapshot, Restart,
                EvictMembers, LastMoment
  <2>2. QED
    BY <1>8, <2>1, EnvironmentKeepsListed, OthersKeepRevokes
<1>9. QED
  BY <1>1, <1>2, <1>3, <1>4, <1>5, <1>6, <1>a, <1>7, <1>8 DEF Next

LEMMA InitListed == Init => RevokesOK /\ ListedOK
BY DEF Init, RevokesOK, ListedOK

-----------------------------------------------------------------------------
(* Neither is inductive on its own: the record outlives its token through   *)
(* the copies uploads hold, and a purge finds it through it:tokens:all.     *)
LiveInv == CountInv /\ LifeInv /\ RevokesOK /\ ListedOK

THEOREM LiveInductive == Spec => []LiveInv
<1>1. Init => LiveInv
  BY InitTypeOK, InitRequestsOK, InitCount, InitLife, InitListed DEF CountInv, LiveInv
<1>2. LiveInv /\ [Next]_vars => LiveInv'
  BY NextTypeOK, NextRequestsOK, NextKeepsCount, NextKeepsLife, NextKeepsListed DEF CountInv, LiveInv
<1>3. QED
  BY <1>1, <1>2, PTL DEF Spec

(* Consuming a token never prolongs it past expires_at, unless its record   *)
(* vanished under an upload that held a copy, Redis restarted, the token is *)
(* a brief one, or its TTL was read in its last half second.                *)
THEOREM ExpiryCorrect == Spec => []ExpiredStaysDead
<1>1. LiveInv => ExpiredStaysDead
  BY DEF LiveInv, CountInv, TypeOK, LifeInv, ExpiredStaysDead
<1>2. QED
  BY <1>1, LiveInductive, PTL

(* A token IT can still use is one CERT can still list, once no revocation  *)
(* is at work on it, under the reservations of the property.                *)
THEOREM ListedCorrect == Spec => []UsableTokenIsListed
<1>1. LiveInv => UsableTokenIsListed
  BY DEF LiveInv, RevokesOK, ListedOK, Pending, UsableTokenIsListed
<1>2. QED
  BY <1>1, LiveInductive, PTL
=============================================================================
