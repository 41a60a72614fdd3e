------------------------------- MODULE ItToken -------------------------------
(***************************************************************************)
(* The deposit token of the IT portal, from its generation by the CERT      *)
(* portal to its consumption and revocation.                                *)
(*                                                                         *)
(* A token lives in two stores that no transaction ties together:          *)
(*   - Redis keeps it:token:<t>, the record every upload is checked         *)
(*     against, and the set it:tokens:all that revocation walks;            *)
(*   - OpenSearch keeps a document in forensic-tokens, which the CERT       *)
(*     portal lists and which revocation looks up first.                    *)
(* Three kinds of handler run concurrently, each an async function that     *)
(* gives the event loop away at every await: token generation and           *)
(* revocation (portal-cert/server.js), upload (portal-it/server.js).  An    *)
(* action below is the code between two awaits on a store: a command and    *)
(* its reply.  A command that is applied without its reply, and a portal    *)
(* that stops half-way, are the actions named ...Fails and ...Unanswered.   *)
(***************************************************************************)
EXTENDS Naturals, FiniteSets

CONSTANTS
  Tokens,        \* the tokens that may be generated
  Uploads,       \* the POST /api/upload requests of the IT portal
  Revokes,       \* the DELETE /api/tokens/:tokenId requests of the CERT portal
  Limit,         \* max_uses asked for each token
  CaseOf,        \* case_id of each token
  Brief,         \* tokens asked for less than a minute (expires_in_hours)
  NoRecord,      \* what Redis and OpenSearch answer for an absent entry
  MaxOutages,    \* bound: how often the portals lose Redis
  MaxRestarts,   \* bound: how often Redis restarts from its last snapshot
  Evictions      \* whether maxmemory-policy allkeys-lru may drop keys

ASSUME LimitAssumption == Limit \in [Tokens -> Nat]
ASSUME BriefAssumption == Brief \subseteq Tokens
ASSUME NoTokenAssumption == NoRecord \notin Tokens
ASSUME UploadsAssumption == IsFiniteSet(Uploads)
ASSUME BoundAssumption == MaxOutages \in Nat /\ MaxRestarts \in Nat /\ Evictions \in BOOLEAN

VARIABLES
  redis,     \* it:token:<t> |-> record, or NoRecord
  members,   \* the Redis set it:tokens:all
  saved,     \* what the last RDB snapshot holds of the two
  up,        \* redis.isReady, for both portals
  docs,      \* forensic-tokens documents
  ending,    \* tokens that reached the last half second before expires_at
  due,       \* tokens whose expires_at has passed, and the fraction of a
             \* second by which a TTL handed on is rounded
  gen,       \* progress of POST /api/tokens/generate for each token
  upl,       \* state of each upload request
  rev,       \* state of each revocation request
  faults,    \* how many outages and restarts have happened
  revoked,   \* history: tokens a revocation answered success for
  reborn,    \* history: tokens whose record vanished between the GET and the
             \* SETEX of an upload that consumes it
  racy,      \* history: tokens written between the GET and the SETEX of
             \* another upload
  rolled,    \* history: tokens whose record a restart of Redis rolled back
  missed,    \* history: tokens whose document is gone and whose record a
             \* revocation may have left: it could not reach Redis, it lost
             \* the reply of a delete, or it stopped half-way
  prolonged  \* history: tokens whose record answered TTL 0 to a consumption

stores  == <<redis, members, saved, docs, ending, due>>
history == <<revoked, reborn, racy, rolled, missed, prolonged>>
vars    == <<stores, up, gen, upl, rev, faults, history>>

-----------------------------------------------------------------------------
Record   == [uses : Nat, status : {"active", "exhausted"}, ext : BOOLEAN]
Document == [uses : Nat, status : {"active"}]

ASSUME NoRecordAssumption == NoRecord \notin Record \cup Document

(* What a revocation designates: a token_id, or a case_id.                  *)
Refs     == [kind : {"id"}, val : Tokens] \cup [kind : {"case"}, val : {CaseOf[t] : t \in Tokens}]
Match(ref) == IF ref.kind = "id" THEN {ref.val} \cap Tokens
                                 ELSE {t \in Tokens : CaseOf[t] = ref.val}

Answers  == {"none", "ok", "failed", "INVALID_TOKEN", "REVOKED_TOKEN",
             "TOKEN_EXHAUSTED", "REDIS_NOT_READY"}
UploadSteps == {"idle", "files", "get", "ttl", "set", "done", "refused"}
RevokeSteps == {"idle", "search", "hits", "list", "purge", "done", "missing", "failed"}

UploadState == [pc : UploadSteps, tok : Tokens \cup {NoRecord},
                got : Record \cup {NoRecord}, answer : Answers,
                before : Nat, counted : BOOLEAN]
RevokeState == [pc : RevokeSteps, ref : Refs \cup {NoRecord},
                todo : SUBSET Tokens, deleted : SUBSET Tokens]
GenerateSteps == {"new", "member", "index", "done", "failed"}

TypeOK ==
  /\ redis \in [Tokens -> Record \cup {NoRecord}]
  /\ members \in SUBSET Tokens
  /\ saved \in [redis : [Tokens -> Record \cup {NoRecord}], members : SUBSET Tokens]
  /\ up \in BOOLEAN
  /\ docs \in [Tokens -> Document \cup {NoRecord}]
  /\ ending \in SUBSET Tokens /\ due \in SUBSET Tokens
  /\ gen \in [Tokens -> GenerateSteps]
  /\ upl \in [Uploads -> UploadState]
  /\ rev \in [Revokes -> RevokeState]
  /\ faults \in [outages : Nat, restarts : Nat]
  /\ revoked \subseteq Tokens /\ reborn \subseteq Tokens /\ racy \subseteq Tokens
  /\ rolled \subseteq Tokens /\ missed \subseteq Tokens /\ prolonged \subseteq Tokens

Init ==
  /\ redis = [t \in Tokens |-> NoRecord]
  /\ members = {}
  /\ saved = [redis |-> [t \in Tokens |-> NoRecord], members |-> {}]
  /\ up = TRUE
  /\ docs = [t \in Tokens |-> NoRecord]
  /\ ending = {} /\ due = {}
  /\ gen = [t \in Tokens |-> "new"]
  /\ upl = [u \in Uploads |-> [pc |-> "idle", tok |-> NoRecord, got |-> NoRecord,
                               answer |-> "none", before |-> 0, counted |-> FALSE]]
  /\ rev = [v \in Revokes |-> [pc |-> "idle", ref |-> NoRecord,
                               todo |-> {}, deleted |-> {}]]
  /\ faults = [outages |-> 0, restarts |-> 0]
  /\ revoked = {} /\ reborn = {} /\ racy = {} /\ rolled = {} /\ missed = {}
  /\ prolonged = {}

-----------------------------------------------------------------------------
(* Uploads of token t, and those that hold a copy of its record between the *)
(* GET and the SETEX of their consumption.                                  *)
UploadsOf(t) == {u \in Uploads : upl[u].tok = t}
Holding(t)   == {u \in UploadsOf(t) : upl[u].pc \in {"ttl", "set"}}
Counted(t)   == {u \in UploadsOf(t) : upl[u].counted}

(* A record leaves Redis: an upload that holds a copy will write it again.  *)
Gone(S) ==
  /\ redis' = [t \in Tokens |-> IF t \in S THEN NoRecord ELSE redis[t]]
  /\ reborn' = reborn \cup {t \in S : redis[t] # NoRecord /\ Holding(t) # {}}

-----------------------------------------------------------------------------
(* POST /api/tokens/generate: SETEX and SADD when Redis is ready, then the  *)
(* document, whatever Redis was.  The token can be presented once the       *)
(* document is written: the caller is answered with it, or, when the answer *)
(* is lost, reads it in the list.  The TTL is expires_in_hours but never    *)
(* under 60 s, so the record of a brief token outlives expires_at.          *)
NewRecordWithoutUses(t) == [status |-> "active", ext |-> t \in Brief]  \* mutant: no uses_count

NewRecord(t) == [uses |-> 0, status |-> "active", ext |-> t \in Brief]

GenerateSetEx(t) ==
  /\ gen[t] = "new" /\ up
  /\ redis' = [redis EXCEPT ![t] = NewRecord(t)]
  /\ gen' = [gen EXCEPT ![t] = "member"]
  /\ UNCHANGED <<members, saved, docs, ending, due, up, upl, rev, faults, history>>

GenerateSkipRedis(t) ==
  /\ gen[t] = "new" /\ ~up
  /\ gen' = [gen EXCEPT ![t] = "index"]
  /\ UNCHANGED <<stores, up, upl, rev, faults, history>>

GenerateSAdd(t) ==
  /\ gen[t] = "member" /\ up
  /\ members' = members \cup {t}
  /\ gen' = [gen EXCEPT ![t] = "index"]
  /\ UNCHANGED <<redis, saved, docs, ending, due, up, upl, rev, faults, history>>

GenerateIndex(t) ==
  /\ gen[t] = "index"
  /\ docs' = [docs EXCEPT ![t] = [uses |-> 0, status |-> "active"]]
  /\ gen' = [gen EXCEPT ![t] = "done"]
  /\ UNCHANGED <<redis, members, saved, ending, due, up, upl, rev, faults, history>>

(* A handler that ends without the document: expires_in_hours is no number  *)
(* or no TTL of whole seconds and SETEX refuses it, a command is rejected   *)
(* or its reply lost, or the portal stops.  Nobody learns the token.        *)
GenerateFails(t) ==
  /\ gen[t] \in {"new", "member", "index"}
  /\ gen' = [gen EXCEPT ![t] = "failed"]
  /\ UNCHANGED <<stores, up, upl, rev, faults, history>>

Generate(t) == GenerateSetEx(t) \/ GenerateSkipRedis(t) \/ GenerateSAdd(t)
               \/ GenerateIndex(t) \/ GenerateFails(t)

-----------------------------------------------------------------------------
(* POST /api/upload of the IT portal.  validateToken reads the record and   *)
(* admits or refuses the request; before is how many uploads of the token   *)
(* had been counted when it did.                                            *)
Usable(rec, t) == rec.status = "active" /\ rec.uses < Limit[t]

Refusal(t) ==
  CASE redis[t] = NoRecord          -> "INVALID_TOKEN"
    [] redis[t].status # "active"   -> "REVOKED_TOKEN"
    [] OTHER                        -> "TOKEN_EXHAUSTED"

AdmittedIfPresent(t) == redis[t] # NoRecord  \* mutant: neither check of the record

Admitted(t) == redis[t] # NoRecord /\ Usable(redis[t], t)

Validate(u, t) ==
  /\ upl[u].pc = "idle" /\ gen[t] = "done" /\ up
  /\ upl' = [upl EXCEPT ![u].tok = t,
                        ![u].before = Cardinality(Counted(t)),
                        ![u].pc = IF Admitted(t) THEN "files" ELSE "refused",
                        ![u].answer = IF Admitted(t) THEN "none" ELSE Refusal(t)]
  /\ UNCHANGED <<stores, up, gen, rev, faults, history>>

(* Redis is still not ready after ten seconds of waiting: 503.              *)
ValidateTimeout(u, t) ==
  /\ upl[u].pc = "idle" /\ gen[t] = "done" /\ ~up
  /\ upl' = [upl EXCEPT ![u].tok = t, ![u].pc = "refused", ![u].answer = "REDIS_NOT_READY"]
  /\ UNCHANGED <<stores, up, gen, rev, faults, history>>

(* The files have been handled (module IngestPipeline).  The token is       *)
(* consumed when one of them was stored and Redis is ready at that moment.  *)
FilesHandled(u, ok) ==
  /\ upl[u].pc = "files"
  /\ upl' = [upl EXCEPT ![u].answer = IF ok THEN "ok" ELSE "failed",
                        ![u].pc = IF ok /\ up THEN "get" ELSE "done"]
  /\ UNCHANGED <<stores, up, gen, rev, faults, history>>

Spent(n, rec, t) == IF n >= Limit[t] THEN "exhausted" ELSE rec.status

UsedUncounted(rec, t) ==  \* mutant: marks the record and forgets to count
  [uses |-> rec.uses, status |-> Spent(rec.uses + 1, rec, t), ext |-> rec.ext]

Used(rec, t) ==
  [uses |-> rec.uses + 1, status |-> Spent(rec.uses + 1, rec, t), ext |-> rec.ext]

ConsumeGetOrCreate(u) ==  \* mutant: an absent record counts as a new one
  LET t == upl[u].tok
      rec == IF redis[t] = NoRecord THEN NewRecord(t) ELSE redis[t]
  IN  /\ upl[u].pc = "get" /\ up
      /\ upl' = [upl EXCEPT ![u].pc = "ttl", ![u].got = Used(rec, t)]
      /\ UNCHANGED <<stores, up, gen, rev, faults, history>>

ConsumeGet(u) ==
  LET t == upl[u].tok
  IN  /\ upl[u].pc = "get" /\ up
      /\ upl' = IF redis[t] = NoRecord
                THEN [upl EXCEPT ![u].pc = "done"]
                ELSE [upl EXCEPT ![u].pc = "ttl", ![u].got = Used(redis[t], t)]
      /\ UNCHANGED <<stores, up, gen, rev, faults, history>>

(* TTL answers -2 for a key that is gone, and 0 for one with less than half *)
(* a second left: either way the record is given 3600 s more.               *)
ConsumeTtlRenewed(u) ==  \* mutant: SETEX with a fixed 3600 s
  /\ upl[u].pc = "ttl" /\ up
  /\ upl' = [upl EXCEPT ![u].pc = "set", ![u].got.ext = TRUE]
  /\ UNCHANGED <<stores, up, gen, rev, faults, history>>

ConsumeTtl(u) ==
  LET t == upl[u].tok
      zero == redis[t] # NoRecord /\ ~redis[t].ext /\ t \in ending
  IN  /\ upl[u].pc = "ttl" /\ up
      /\ upl' = [upl EXCEPT ![u].pc = "set",
                            ![u].got.ext = redis[t] = NoRecord \/ zero \/ redis[t].ext]
      /\ prolonged' = IF zero THEN prolonged \cup {t} ELSE prolonged
      /\ UNCHANGED <<stores, up, gen, rev, faults, revoked, reborn, racy, rolled, missed>>

ConsumeSetEx(u) ==
  LET t == upl[u].tok
  IN  /\ upl[u].pc = "set" /\ up
      /\ redis' = [redis EXCEPT ![t] = upl[u].got]
      /\ racy' = IF Holding(t) = {u} THEN racy ELSE racy \cup {t}
      /\ upl' = [upl EXCEPT ![u].pc = "done", ![u].counted = TRUE]
      /\ UNCHANGED <<members, saved, docs, ending, due, up, gen, rev, faults,
                     revoked, reborn, rolled, missed, prolonged>>

(* A command is rejected because the connection broke, which is logged and  *)
(* dropped, or the portal stops: the upload is stored and not counted.      *)
ConsumeFails(u) ==
  /\ upl[u].pc \in {"get", "ttl", "set"}
  /\ upl' = [upl EXCEPT ![u].pc = "done"]
  /\ UNCHANGED <<stores, up, gen, rev, faults, history>>

Consume(u) == ConsumeGet(u) \/ ConsumeTtl(u) \/ ConsumeSetEx(u) \/ ConsumeFails(u)

-----------------------------------------------------------------------------
(* DELETE /api/tokens/:tokenId.  deleteForensicToken removes the document   *)
(* whose id is the reference, or else those a search finds (the search may  *)
(* lag behind: it misses documents and finds deleted ones), and only when a *)
(* removal was confirmed does it purge Redis.                               *)
AfterHitsUnpurged(todo, deleted) ==  \* mutant: the purge is skipped after a search
  CASE todo # {}    -> "hits"
    [] OTHER        -> "missing"

AfterHits(todo, deleted) ==
  CASE todo # {}    -> "hits"
    [] deleted # {} -> "list"
    [] OTHER        -> "missing"

RevokeById(v, ref) ==
  LET found == {t \in Match(ref) : ref.kind = "id" /\ docs[t] # NoRecord}
  IN  /\ rev[v].pc = "idle"
      /\ docs' = [t \in Tokens |-> IF t \in found THEN NoRecord ELSE docs[t]]
      /\ rev' = [rev EXCEPT ![v].pc = IF found # {} THEN "list" ELSE "search",
                            ![v].ref = ref, ![v].deleted = found]
      /\ UNCHANGED <<redis, members, saved, ending, due, up, gen, upl, faults, history>>

(* OpenSearch removes the document and the reply is lost, or the portal     *)
(* stops there: a 500; or the client sends the delete again, is told 404    *)
(* and takes the document for one that never was.                           *)
RevokeByIdUnanswered(v, ref, next) ==
  /\ rev[v].pc = "idle" /\ ref.kind = "id" /\ docs[ref.val] # NoRecord
  /\ next \in {"failed", "search"}
  /\ docs' = [docs EXCEPT ![ref.val] = NoRecord]
  /\ rev' = [rev EXCEPT ![v].pc = next, ![v].ref = ref, ![v].deleted = {}]
  /\ missed' = missed \cup {ref.val}
  /\ UNCHANGED <<redis, members, saved, ending, due, up, gen, upl, faults,
                 revoked, reborn, racy, rolled, prolonged>>

RevokeSearch(v, hits) ==
  /\ rev[v].pc = "search"
  /\ hits \subseteq Match(rev[v].ref)
  /\ rev' = [rev EXCEPT ![v].pc = AfterHits(hits, {}), ![v].todo = hits]
  /\ UNCHANGED <<stores, up, gen, upl, faults, history>>

RevokeHit(v, t) ==
  LET rest == rev[v].todo \ {t}
      del  == IF docs[t] = NoRecord THEN rev[v].deleted ELSE rev[v].deleted \cup {t}
  IN  /\ rev[v].pc = "hits" /\ t \in rev[v].todo
      /\ docs' = [docs EXCEPT ![t] = NoRecord]
      /\ rev' = [rev EXCEPT ![v].pc = AfterHits(rest, del), ![v].todo = rest, ![v].deleted = del]
      /\ UNCHANGED <<redis, members, saved, ending, due, up, gen, upl, faults, history>>

(* The same for a hit: the loop goes on without counting the document.      *)
RevokeHitUnanswered(v, t) ==
  LET rest == rev[v].todo \ {t}
  IN  /\ rev[v].pc = "hits" /\ t \in rev[v].todo /\ docs[t] # NoRecord
      /\ docs' = [docs EXCEPT ![t] = NoRecord]
      /\ rev' = [rev EXCEPT ![v].pc = AfterHits(rest, rev[v].deleted), ![v].todo = rest]
      /\ missed' = missed \cup {t}
      /\ UNCHANGED <<redis, members, saved, ending, due, up, gen, upl, faults,
                     revoked, reborn, racy, rolled, prolonged>>

(* purgeTokenFromRedis returns at once when Redis is not ready, and walks   *)
(* it:tokens:all otherwise; an SMEMBERS that fails counts as an empty set.  *)
RevokeList(v) ==
  LET seen == IF up THEN members ELSE {}
  IN  /\ rev[v].pc = "list"
      /\ rev' = [rev EXCEPT ![v].todo = seen, ![v].pc = IF seen = {} THEN "done" ELSE "purge"]
      /\ missed' = IF up THEN missed ELSE missed \cup Match(rev[v].ref)
      /\ revoked' = IF seen = {} THEN revoked \cup rev[v].deleted ELSE revoked
      /\ UNCHANGED <<stores, up, gen, upl, faults, reborn, racy, rolled, prolonged>>

(* One turn of the loop: GET, and for a record that matches, DEL and SREM.  *)
(* A GET that fails is taken for an absent record and the token is skipped. *)
PurgeTurn(v, t) ==
  /\ rev[v].pc = "purge" /\ t \in rev[v].todo
  /\ LET rest == rev[v].todo \ {t}
     IN  /\ rev' = [rev EXCEPT ![v].todo = rest, ![v].pc = IF rest = {} THEN "done" ELSE "purge"]
         /\ revoked' = IF rest = {} THEN revoked \cup rev[v].deleted ELSE revoked

PurgeDelete(v, t) ==
  /\ PurgeTurn(v, t)
  /\ up /\ redis[t] # NoRecord /\ t \in Match(rev[v].ref)
  /\ Gone({t})
  /\ members' = members \ {t}
  /\ UNCHANGED <<saved, docs, ending, due, up, gen, upl, faults, racy, rolled, missed, prolonged>>

PurgeSkip(v, t) ==
  /\ PurgeTurn(v, t)
  /\ ~up \/ redis[t] = NoRecord \/ t \notin Match(rev[v].ref)
  /\ missed' = IF ~up /\ t \in Match(rev[v].ref) THEN missed \cup {t} ELSE missed
  /\ UNCHANGED <<stores, up, gen, upl, faults, reborn, racy, rolled, prolonged>>

(* The request ends before its end: OpenSearch refuses a delete or the      *)
(* search with something else than 404, the connection breaks during DEL,   *)
(* or the portal stops.  What it removed and had not purged yet is left.    *)
Owed(v) == IF rev[v].pc = "purge" THEN rev[v].deleted \cap rev[v].todo ELSE rev[v].deleted

RevokeFails(v) ==
  /\ rev[v].pc \in {"search", "hits", "list", "purge"}
  /\ rev' = [rev EXCEPT ![v].pc = "failed"]
  /\ missed' = missed \cup Owed(v)
  /\ UNCHANGED <<stores, up, gen, upl, faults, revoked, reborn, racy, rolled, prolonged>>

RevokeStep(v) ==
  \/ \E hits \in SUBSET Tokens : RevokeSearch(v, hits)
  \/ \E t \in Tokens : RevokeHit(v, t) \/ RevokeHitUnanswered(v, t)
                      \/ PurgeDelete(v, t) \/ PurgeSkip(v, t)
  \/ RevokeList(v) \/ RevokeFails(v)

-----------------------------------------------------------------------------
(* Time: the last half second of a token, when TTL answers 0; expires_at    *)
(* passes, and the record goes with it unless it has a TTL of its own, the  *)
(* 60 s of a brief token or the 3600 s a consumption gave it; such a record *)
(* goes later.                                                              *)
LastMoment(t) ==
  /\ gen[t] # "new" /\ t \notin ending
  /\ ending' = ending \cup {t}
  /\ UNCHANGED <<redis, members, saved, docs, due, up, gen, upl, rev, faults, history>>

ExpiresAt(t) ==
  /\ t \in ending /\ t \notin due
  /\ due' = due \cup {t}
  /\ Gone(IF redis[t] # NoRecord /\ ~redis[t].ext THEN {t} ELSE {})
  /\ UNCHANGED <<members, saved, docs, ending, up, gen, upl, rev, faults,
                 revoked, racy, rolled, missed, prolonged>>

LateExpiryIfKept(t) ==  \* mutant: SET instead of SETEX, the rewritten key has no TTL
  /\ redis[t] # NoRecord
  /\ ~redis[t].ext /\ t \in due
  /\ Gone({t})
  /\ UNCHANGED <<members, saved, docs, ending, due, up, gen, upl, rev, faults,
                 revoked, racy, rolled, missed, prolonged>>

LateExpiry(t) ==
  /\ redis[t] # NoRecord
  /\ redis[t].ext \/ t \in due
  /\ Gone({t})
  /\ UNCHANGED <<members, saved, docs, ending, due, up, gen, upl, rev, faults,
                 revoked, racy, rolled, missed, prolonged>>

(* Redis itself: it becomes unreachable and comes back, its snapshot is     *)
(* taken (--save 300 1), it restarts from the snapshot, it evicts a key.    *)
RedisDown ==
  /\ up /\ faults.outages < MaxOutages
  /\ up' = FALSE
  /\ faults' = [faults EXCEPT !.outages = @ + 1]
  /\ UNCHANGED <<stores, gen, upl, rev, history>>

RedisUp ==
  /\ ~up
  /\ up' = TRUE
  /\ UNCHANGED <<stores, gen, upl, rev, faults, history>>

Snapshot ==
  /\ faults.restarts < MaxRestarts
  /\ saved' = [redis |-> redis, members |-> members]
  /\ UNCHANGED <<redis, members, docs, ending, due, up, gen, upl, rev, faults, history>>

Restart ==
  /\ faults.restarts < MaxRestarts
  /\ redis' = [t \in Tokens |->
                 IF t \in due /\ saved.redis[t] # NoRecord /\ ~saved.redis[t].ext
                 THEN NoRecord ELSE saved.redis[t]]
  /\ members' = saved.members
  /\ rolled' = rolled \cup {t \in Tokens : redis'[t] # redis[t] \/ (t \in members) # (t \in members')}
  /\ up' = FALSE
  /\ faults' = [faults EXCEPT !.restarts = @ + 1]
  /\ UNCHANGED <<saved, docs, ending, due, gen, upl, rev, revoked, reborn, racy, missed, prolonged>>

EvictRecord(t) ==
  /\ Evictions /\ redis[t] # NoRecord
  /\ Gone({t})
  /\ UNCHANGED <<members, saved, docs, ending, due, up, gen, upl, rev, faults,
                 revoked, racy, rolled, missed, prolonged>>

EvictMembers ==
  /\ Evictions /\ members # {}
  /\ members' = {}
  /\ missed' = missed \cup members
  /\ UNCHANGED <<redis, saved, docs, ending, due, up, gen, upl, rev, faults,
                 revoked, reborn, racy, rolled, prolonged>>

Environment ==
  \/ \E t \in Tokens : LastMoment(t) \/ ExpiresAt(t) \/ LateExpiry(t) \/ EvictRecord(t)
  \/ RedisDown \/ RedisUp \/ Snapshot \/ Restart \/ EvictMembers

-----------------------------------------------------------------------------
Next ==
  \/ \E t \in Tokens : Generate(t)
  \/ \E u \in Uploads, t \in Tokens : Validate(u, t) \/ ValidateTimeout(u, t)
  \/ \E u \in Uploads, ok \in BOOLEAN : FilesHandled(u, ok)
  \/ \E u \in Uploads : Consume(u)
  \/ \E v \in Revokes, ref \in Refs : RevokeById(v, ref)
  \/ \E v \in Revokes, ref \in Refs, next \in RevokeSteps : RevokeByIdUnanswered(v, ref, next)
  \/ \E v \in Revokes : RevokeStep(v)
  \/ Environment

Spec == Init /\ [][Next]_vars

(* Node runs every handler to its end, the client library reconnects        *)
(* forever, every record has a TTL and time passes.  Users may stop at any  *)
(* point, and nothing forces a fault, a snapshot or an eviction.            *)
Fairness ==
  /\ \A t \in Tokens : /\ WF_vars(Generate(t)) /\ WF_vars(LastMoment(t))
                       /\ WF_vars(ExpiresAt(t)) /\ WF_vars(LateExpiry(t))
  /\ \A u \in Uploads : WF_vars(Consume(u)) /\ WF_vars(\E ok \in BOOLEAN : FilesHandled(u, ok))
  /\ \A v \in Revokes : WF_vars(RevokeStep(v))
  /\ WF_vars(RedisUp)

FairSpec == Spec /\ Fairness

-----------------------------------------------------------------------------
(* Properties.                                                              *)

(* The use count Redis holds is the number of uploads whose consumption was *)
(* written, and an upload between its GET and its SETEX holds that number   *)
(* plus one, unless two consumptions overlapped or Redis lost writes in a   *)
(* restart: no other order of expiry, eviction, revocation, outage and      *)
(* upload loses or invents a use (portal-it/server.js, consumption).        *)
UsesAreCounted ==
  \A t \in Tokens \ (racy \cup rolled) :
    /\ redis[t] # NoRecord => redis[t].uses = Cardinality(Counted(t))
    /\ \A u \in Holding(t) : upl[u].got.uses = Cardinality(Counted(t)) + 1

(* validateToken never admits an upload once max_uses uploads have been     *)
(* counted, even when the record was deleted and written back meanwhile,    *)
(* unless two consumptions overlapped or Redis lost writes.                 *)
NoAdmissionOnceSpent ==
  \A u \in Uploads :
    upl[u].pc \notin {"idle", "refused"} =>
      upl[u].before < Limit[upl[u].tok] \/ upl[u].tok \in racy \cup rolled

(* What the ledger of a token (module TokenLedger) sees of the two stores   *)
(* and of the requests.                                                     *)
Lives == [t \in Tokens |-> IF redis[t] # NoRecord THEN "live"
                          ELSE IF gen[t] = "new" THEN "unissued" ELSE "dead"]
Charges      == [t \in Tokens |-> Cardinality(Counted(t))]
AdmittedWith == [u \in Uploads |-> IF upl[u].pc = "refused" THEN NoRecord ELSE upl[u].tok]
OpenUploads  == {u \in Uploads : upl[u].pc \in {"files", "get", "ttl", "set"}}
Miscounted   == racy \cup rolled
Revenants    == reborn \cup rolled \cup Brief \cup prolonged

Ledger == INSTANCE TokenLedger WITH
  NoToken <- NoRecord, life <- Lives, closing <- ending, expired <- due, spent <- Charges,
  admitted <- AdmittedWith, open <- OpenUploads,
  miscounted <- Miscounted, revenant <- Revenants

(* The two stores and the three handlers keep the ledger CERT and IT        *)
(* believe in: a token that died, by expiry, revocation or eviction, never  *)
(* serves again, no upload is admitted with a spent token or charged twice, *)
(* but for the overlaps of uploads, the last moments and the restart the    *)
(* ledger names.                                                            *)
LedgerSpec == Ledger!Spec

(* What the two rest on: a request in progress has its token and its copy,  *)
(* it is counted only at its end, and only a generated token is presented.  *)
RequestsOK ==
  /\ \A u \in Uploads :
       /\ upl[u].pc = "idle" => upl[u].tok = NoRecord
       /\ upl[u].pc # "idle" => upl[u].tok \in Tokens /\ gen[upl[u].tok] = "done"
       /\ upl[u].pc \in {"ttl", "set"} => upl[u].got \in Record
       /\ upl[u].counted => upl[u].pc = "done"
  /\ \A t \in Tokens :
       gen[t] = "new" => redis[t] = NoRecord /\ saved.redis[t] = NoRecord

CountInv == TypeOK /\ RequestsOK /\ UsesAreCounted /\ NoAdmissionOnceSpent

(* A record outlives expires_at only if it vanished while an upload held a  *)
(* copy of it, Redis restarted, the token was asked for less than the 60 s  *)
(* a TTL is rounded up to, or an upload read its TTL in the last half       *)
(* second: consuming a token at any other moment does not prolong it.       *)
ExpiredStaysDead ==
  \A t \in due : redis[t] # NoRecord => t \in Revenants

(* A token IT can still use is one CERT can still list, and so revoke: once *)
(* its document is gone and no revocation is at work, the record is gone    *)
(* too, unless an upload wrote it back, a restart restored it, or the       *)
(* revocation that removed the document could not reach Redis, lost the     *)
(* reply or stopped half-way.                                               *)
UsableTokenIsListed ==
  \A t \in Tokens :
    /\ gen[t] = "done" /\ redis[t] # NoRecord
    /\ \A v \in Revokes : rev[v].pc \in {"hits", "list", "purge"} => t \notin Match(rev[v].ref)
    => docs[t] # NoRecord \/ t \in reborn \cup rolled \cup missed

(* Whatever races a revocation lost, the token it answered for ends up dead *)
(* for good: each record has a TTL, and a consumption hands it on.          *)
RevokedEventuallyDead ==
  \A t \in Tokens : t \in revoked ~> [](redis[t] = NoRecord)

-----------------------------------------------------------------------------
(* Statements of the repository the code does not keep.                     *)

(* docs/PORTAL/API.md: DELETE /api/tokens/:tokenId revokes the token, so    *)
(* once it has answered success no upload is admitted with it.              *)
RevokedIsRefused == \A t \in revoked : ~Admitted(t)
=============================================================================
