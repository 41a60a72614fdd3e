------------------------- MODULE ItTokenLedgerProofs -------------------------
(* Proof that ItToken implements TokenLedger, for every set of tokens,      *)
(* uploads and revocations: each step of the portals and of the stores is a *)
(* step of the ledger or leaves it as it is.                                *)
EXTENDS ItTokenProofs

SameLedger ==
  UNCHANGED <<Lives, ending, due, Charges, AdmittedWith, OpenUploads, Miscounted, Revenants>>

LEMMA InitKeepsLedger == Init => Ledger!Init
<1> SUFFICES ASSUME Init
             PROVE  Ledger!Init
  OBVIOUS
<1>1. \A t \in Tokens : Counted(t) = {} /\ redis[t] = NoRecord /\ gen[t] = "new"
  BY DEF Init, Counted, UploadsOf
<1>2. Charges = [t \in Tokens |-> 0]
  BY <1>1, FS_EmptySet DEF Charges
<1>3. Lives = [t \in Tokens |-> "unissued"]
  BY <1>1 DEF Lives
<1>4. AdmittedWith = [u \in Uploads |-> NoRecord] /\ OpenUploads = {}
  BY DEF Init, AdmittedWith, OpenUploads
<1>5. QED
  BY <1>2, <1>3, <1>4 DEF Init, Ledger!Init, Miscounted, Revenants

-----------------------------------------------------------------------------
(* What the ledger sees of a step.                                          *)
LEMMA UploadsSeen ==
  ASSUME upl' = upl
  PROVE  UNCHANGED <<Charges, AdmittedWith, OpenUploads>>
<1>1. \A t : Counted(t)' = Counted(t)
  BY DEF Counted, UploadsOf
<1>2. QED
  BY <1>1 DEF Charges, AdmittedWith, OpenUploads

LEMMA LivesSeen ==
  ASSUME NEW t \in Tokens,
         \A s \in Tokens \ {t} : redis'[s] = redis[s] /\ gen'[s] = gen[s]
  PROVE  Lives' = [Lives EXCEPT ![t] = Lives'[t]]
<1>1. \A s \in Tokens \ {t} : Lives'[s] = Lives[s]
  BY DEF Lives
<1>2. DOMAIN Lives = Tokens /\ DOMAIN Lives' = Tokens
  BY DEF Lives
<1>3. Lives = [s \in Tokens |-> Lives[s]] /\ Lives' = [s \in Tokens |-> Lives'[s]]
  BY DEF Lives
<1>4. QED
  BY <1>1, <1>2, <1>3

LEMMA LivesKept ==
  ASSUME redis' = redis, \A t \in Tokens : gen'[t] = "new" <=> gen[t] = "new"
  PROVE  Lives' = Lives
BY DEF Lives

LEMMA HoldingIsOpen ==
  ASSUME NEW t, NEW u \in Holding(t)
  PROVE  u \in Ledger!OpenWith(t)
BY DEF Holding, UploadsOf, Ledger!OpenWith, OpenUploads, AdmittedWith

LEMMA OtherStepKeepsLedger ==
  ASSUME redis' = redis, gen' = gen, ending' = ending, due' = due, upl' = upl,
         racy' = racy, reborn' = reborn, rolled' = rolled, prolonged' = prolonged
  PROVE  SameLedger
BY UploadsSeen, LivesKept DEF SameLedger, Miscounted, Revenants

(* A record that goes is a token that dies.                                 *)
LEMMA GoneIsDeath ==
  ASSUME TypeOK, RequestsOK, NEW t \in Tokens, redis[t] # NoRecord, Gone({t}),
         upl' = upl, gen' = gen, rolled' = rolled, prolonged' = prolonged
  PROVE  Ledger!Die(t)
<1>1. redis'[t] = NoRecord /\ \A s \in Tokens \ {t} : redis'[s] = redis[s]
  BY DEF Gone
<1>2. gen[t] # "new"
  BY DEF RequestsOK
<1>3. Lives[t] = "live" /\ Lives'[t] = "dead"
  BY <1>1, <1>2 DEF Lives
<1>4. Lives' = [Lives EXCEPT ![t] = "dead"]
  BY <1>1, <1>3, LivesSeen
<1>5. Revenants' \in {Revenants, Revenants \cup {t}}
  BY DEF Gone, Revenants
<1>6. Ledger!OpenWith(t) = {} => Revenants' = Revenants
  <2>1. Ledger!OpenWith(t) = {} => Holding(t) = {}
    BY HoldingIsOpen
  <2>2. QED
    BY <2>1 DEF Gone, Revenants
<1>7. QED
  BY <1>3, <1>4, <1>5, <1>6 DEF Ledger!Die

LEMMA GoneVanishes ==
  ASSUME TypeOK, RequestsOK, NEW t \in Tokens, redis[t] # NoRecord, Gone({t}),
         upl' = upl, gen' = gen, rolled' = rolled, racy' = racy, prolonged' = prolonged,
         ending' = ending, due' = due
  PROVE  Ledger!Vanish(t)
BY GoneIsDeath, UploadsSeen DEF Ledger!Vanish, Miscounted

-----------------------------------------------------------------------------
(* The handlers.                                                            *)
LEMMA GenerateKeepsLedger ==
  ASSUME TypeOK, RequestsOK, NEW t \in Tokens, Generate(t)
  PROVE  Ledger!Issue(t) \/ SameLedger
<1>1. /\ upl' = upl /\ ending' = ending /\ due' = due /\ racy' = racy
      /\ reborn' = reborn /\ rolled' = rolled /\ prolonged' = prolonged
      /\ \A s \in Tokens \ {t} : redis'[s] = redis[s] /\ gen'[s] = gen[s]
  BY DEF Generate, GenerateSetEx, GenerateSkipRedis, GenerateSAdd, GenerateIndex, GenerateFails,
         stores, history, TypeOK
<1>2. UNCHANGED <<ending, due, Charges, AdmittedWith, OpenUploads, Miscounted, Revenants>>
  BY <1>1, UploadsSeen DEF Miscounted, Revenants
<1>3. CASE gen[t] = "new"
  <2>1. Lives[t] = "unissued"
    BY <1>3 DEF RequestsOK, Lives
  <2>2. gen'[t] # "new"
    BY DEF Generate, GenerateSetEx, GenerateSkipRedis, GenerateSAdd, GenerateIndex, GenerateFails,
           TypeOK
  <2>3. Lives'[t] \in {"live", "dead"}
    BY <2>2 DEF Lives
  <2>4. Lives' = [Lives EXCEPT ![t] = Lives'[t]]
    BY <1>1, LivesSeen
  <2>5. QED
    BY <1>2, <2>1, <2>3, <2>4 DEF Ledger!Issue
<1>4. CASE gen[t] # "new"
  <2>1. redis' = redis /\ gen[t] # "new" /\ gen'[t] # "new"
    BY <1>4 DEF Generate, GenerateSetEx, GenerateSkipRedis, GenerateSAdd, GenerateIndex,
                GenerateFails, stores, TypeOK
  <2>2. Lives' = Lives
    BY <1>1, <2>1, LivesKept
  <2>3. QED
    BY <1>2, <2>2 DEF SameLedger
<1>5. QED
  BY <1>3, <1>4

(* An upload that is admitted, goes on, or ends without a consumption.      *)
LEMMA UploadSeen ==
  ASSUME NEW u \in Uploads, \A w \in Uploads \ {u} : upl'[w] = upl[w],
         upl'[u].counted = upl[u].counted, ~upl[u].counted
  PROVE  /\ Charges' = Charges
         /\ AdmittedWith' = [AdmittedWith EXCEPT ![u] = AdmittedWith'[u]]
         /\ OpenUploads' \ {u} = OpenUploads \ {u}
<1>1. \A t : Counted(t)' = Counted(t)
  BY DEF Counted, UploadsOf
<1>2. QED
  BY <1>1 DEF Charges, AdmittedWith, OpenUploads

LEMMA ValidateKeepsLedger ==
  ASSUME TypeOK, RequestsOK, UsesAreCounted, NEW u \in Uploads, NEW t \in Tokens,
         Validate(u, t) \/ ValidateTimeout(u, t)
  PROVE  Ledger!Admit(u, t) \/ SameLedger
<1>1. /\ upl[u] \in UploadState /\ upl[u].pc = "idle" /\ upl[u].tok = NoRecord
      /\ ~upl[u].counted
  BY DEF Validate, ValidateTimeout, RequestsOK, TypeOK
<1>2. /\ redis' = redis /\ gen' = gen /\ ending' = ending /\ due' = due
      /\ racy' = racy /\ reborn' = reborn /\ rolled' = rolled /\ prolonged' = prolonged
      /\ \A w \in Uploads \ {u} : upl'[w] = upl[w]
  BY DEF Validate, ValidateTimeout, stores, history, TypeOK
<1>3. UNCHANGED <<Lives, ending, due, Miscounted, Revenants>>
  BY <1>2, LivesKept DEF Miscounted, Revenants
<1>4. AdmittedWith[u] = NoRecord /\ u \notin OpenUploads
  BY <1>1 DEF AdmittedWith, OpenUploads
<1>5. CASE Validate(u, t) /\ Admitted(t)
  <2>1. /\ upl'[u].pc = "files" /\ upl'[u].tok = t
        /\ upl'[u].counted = upl[u].counted
    BY <1>1, <1>5 DEF Validate, TypeOK, UploadState
  <2>2. Charges' = Charges /\ AdmittedWith' = [AdmittedWith EXCEPT ![u] = t]
    BY <1>1, <1>2, <2>1, UploadSeen DEF AdmittedWith
  <2>3. OpenUploads' = OpenUploads \cup {u}
    BY <1>2, <2>1 DEF OpenUploads
  <2>4. redis[t] # NoRecord /\ redis[t].uses < Limit[t]
    BY <1>5 DEF Admitted, Usable
  <2>5. Lives[t] = "live"
    BY <2>4 DEF Lives
  <2>6. Charges[t] < Limit[t] \/ t \in Miscounted
    BY <2>4 DEF UsesAreCounted, Charges, Miscounted
  <2>7. QED
    BY <1>3, <1>4, <2>2, <2>3, <2>5, <2>6 DEF Ledger!Admit
<1>6. CASE ValidateTimeout(u, t) \/ ~Admitted(t)
  <2>1. upl'[u].pc = "refused" /\ upl'[u].counted = upl[u].counted
    <3>1. CASE ValidateTimeout(u, t)
      BY <1>1, <3>1 DEF ValidateTimeout, TypeOK, UploadState
    <3>2. CASE Validate(u, t) /\ ~Admitted(t)
      BY <1>1, <3>2 DEF Validate, TypeOK, UploadState
    <3>3. QED
      BY <1>6, <3>1, <3>2
  <2>2. AdmittedWith'[u] = AdmittedWith[u] /\ OpenUploads' = OpenUploads
    BY <1>2, <1>4, <2>1 DEF AdmittedWith, OpenUploads
  <2>3. Charges' = Charges /\ AdmittedWith' = [AdmittedWith EXCEPT ![u] = AdmittedWith[u]]
    BY <1>1, <1>2, <2>1, <2>2, UploadSeen
  <2>4. AdmittedWith' = AdmittedWith
    BY <2>3 DEF AdmittedWith
  <2>5. QED
    BY <1>3, <2>2, <2>3, <2>4 DEF SameLedger
<1>7. QED
  BY <1>5, <1>6

(* A step of an upload that stays open, or ends, without a charge.          *)
LEMMA UploadGoesOn ==
  ASSUME TypeOK, NEW u \in Uploads, u \in OpenUploads,
         redis' = redis, gen' = gen, ending' = ending, due' = due,
         racy' = racy, reborn' = reborn, rolled' = rolled, prolonged' = prolonged,
         \A w \in Uploads \ {u} : upl'[w] = upl[w],
         upl'[u].tok = upl[u].tok, upl'[u].counted = upl[u].counted, ~upl[u].counted,
         upl'[u].pc \in {"get", "ttl", "set", "done"}
  PROVE  Ledger!Finish(u) \/ SameLedger
<1>1. UNCHANGED <<Lives, ending, due, Miscounted, Revenants>>
  BY LivesKept DEF Miscounted, Revenants
<1>2. upl[u].pc # "refused"
  BY DEF OpenUploads
<1>3. Charges' = Charges
  BY UploadSeen
<1>4. AdmittedWith' = AdmittedWith
  BY <1>2 DEF AdmittedWith
<1>5. CASE upl'[u].pc = "done"
  <2>1. OpenUploads' = OpenUploads \ {u}
    BY <1>5 DEF OpenUploads
  <2>2. QED
    BY <1>1, <1>3, <1>4, <2>1 DEF Ledger!Finish
<1>6. CASE upl'[u].pc # "done"
  <2>1. OpenUploads' = OpenUploads
    BY <1>6 DEF OpenUploads
  <2>2. QED
    BY <1>1, <1>3, <1>4, <2>1 DEF SameLedger
<1>7. QED
  BY <1>5, <1>6

LEMMA FilesKeepLedger ==
  ASSUME TypeOK, RequestsOK, NEW u \in Uploads, NEW ok \in BOOLEAN, FilesHandled(u, ok)
  PROVE  Ledger!Finish(u) \/ SameLedger
<1>1. /\ upl[u] \in UploadState /\ upl[u].pc = "files" /\ ~upl[u].counted
      /\ u \in OpenUploads
  BY DEF FilesHandled, RequestsOK, TypeOK, OpenUploads
<1>2. /\ redis' = redis /\ gen' = gen /\ ending' = ending /\ due' = due
      /\ racy' = racy /\ reborn' = reborn /\ rolled' = rolled /\ prolonged' = prolonged
      /\ \A w \in Uploads \ {u} : upl'[w] = upl[w]
  BY DEF FilesHandled, stores, history, TypeOK
<1>3. /\ upl'[u].tok = upl[u].tok /\ upl'[u].counted = upl[u].counted
      /\ upl'[u].pc \in {"get", "done"}
  BY <1>1 DEF FilesHandled, TypeOK, UploadState
<1>4. QED
  BY <1>1, <1>2, <1>3, UploadGoesOn

LEMMA ConsumeKeepsLedger ==
  ASSUME TypeOK, RequestsOK, LifeInv, NEW u \in Uploads, Consume(u)
  PROVE  \/ \E t \in Tokens : Ledger!Prolong(u, t) \/ Ledger!Charge(u, t)
         \/ Ledger!Finish(u) \/ SameLedger
<1>1. /\ upl[u] \in UploadState /\ upl[u].tok \in Tokens
      /\ upl[u].pc \in {"get", "ttl", "set"} /\ ~upl[u].counted
      /\ upl[u].pc \in {"ttl", "set"} => upl[u].got \in Record
  BY DEF Consume, ConsumeGet, ConsumeTtl, ConsumeSetEx, ConsumeFails, RequestsOK, TypeOK
<1>2. PICK t \in Tokens : upl[u].tok = t
  BY <1>1
<1>3. u \in OpenUploads
  BY <1>1 DEF OpenUploads
<1>4. CASE ConsumeGet(u) \/ (ConsumeTtl(u) /\ prolonged' = prolonged) \/ ConsumeFails(u)
  <2>1. /\ redis' = redis /\ gen' = gen /\ ending' = ending /\ due' = due
        /\ racy' = racy /\ reborn' = reborn /\ rolled' = rolled /\ prolonged' = prolonged
        /\ \A w \in Uploads \ {u} : upl'[w] = upl[w]
    BY <1>4 DEF ConsumeGet, ConsumeTtl, ConsumeFails, stores, history, TypeOK
  <2>2. /\ upl'[u].tok = upl[u].tok /\ upl'[u].counted = upl[u].counted
        /\ upl'[u].pc \in {"get", "ttl", "set", "done"}
    <3>1. CASE ConsumeGet(u)
      BY <1>1, <3>1 DEF ConsumeGet, TypeOK, UploadState
    <3>2. CASE ConsumeTtl(u)
      BY <1>1, <3>2 DEF ConsumeTtl, TypeOK, UploadState
    <3>3. CASE ConsumeFails(u)
      BY <1>1, <3>3 DEF ConsumeFails, TypeOK, UploadState
    <3>4. QED
      BY <1>4, <3>1, <3>2, <3>3
  <2>3. QED
    BY <1>1, <1>3, <2>1, <2>2, UploadGoesOn
<1>7. CASE ConsumeTtl(u) /\ prolonged' # prolonged
  <2>1. /\ redis' = redis /\ gen' = gen /\ ending' = ending /\ due' = due
        /\ racy' = racy /\ reborn' = reborn /\ rolled' = rolled
        /\ redis[t] # NoRecord /\ t \in ending /\ prolonged' = prolonged \cup {t}
        /\ \A w \in Uploads \ {u} : upl'[w] = upl[w]
    BY <1>2, <1>7 DEF ConsumeTtl, stores, TypeOK
  <2>2. /\ upl'[u].tok = upl[u].tok /\ upl'[u].counted = upl[u].counted
        /\ upl[u].pc = "ttl" /\ upl'[u].pc = "set"
    BY <1>1, <1>7 DEF ConsumeTtl, TypeOK, UploadState
  <2>3. u \in Ledger!OpenWith(t)
    BY <1>2, <2>2, HoldingIsOpen DEF Holding, UploadsOf
  <2>4. Lives' = Lives /\ Lives[t] = "live"
    BY <2>1, LivesKept DEF Lives
  <2>5. Charges' = Charges
    BY <1>1, <2>1, <2>2, UploadSeen
  <2>6. AdmittedWith' = AdmittedWith /\ OpenUploads' = OpenUploads
    BY <2>1, <2>2 DEF AdmittedWith, OpenUploads
  <2>7. Revenants' = Revenants \cup {t} /\ Miscounted' = Miscounted
    BY <2>1 DEF Revenants, Miscounted
  <2>8. Ledger!Prolong(u, t)
    BY <2>1, <2>3, <2>4, <2>5, <2>6, <2>7 DEF Ledger!Prolong
  <2>9. QED
    BY <2>8
<1>5. CASE ConsumeSetEx(u)
  <2>1. /\ redis' = [redis EXCEPT ![t] = upl[u].got] /\ upl[u].pc = "set"
        /\ racy' = IF Holding(t) = {u} THEN racy ELSE racy \cup {t}
        /\ gen' = gen /\ ending' = ending /\ due' = due
        /\ reborn' = reborn /\ rolled' = rolled /\ prolonged' = prolonged
        /\ \A w \in Uploads \ {u} : upl'[w] = upl[w]
    BY <1>2, <1>5 DEF ConsumeSetEx, TypeOK
  <2>2. upl'[u].tok = t /\ upl'[u].counted /\ upl'[u].pc = "done"
    BY <1>1, <1>2, <1>5 DEF ConsumeSetEx, TypeOK, UploadState
  <2>3. u \in Holding(t)
    BY <1>2, <2>1 DEF Holding, UploadsOf
  <2>4. u \in Ledger!OpenWith(t)
    BY <2>3, HoldingIsOpen
  <2>5. Lives[t] = "live" \/ t \in Revenants
    BY <2>3 DEF LifeInv, Lives, Revenants
  <2>6. Lives' = [Lives EXCEPT ![t] = "live"]
    <3>1. redis'[t] # NoRecord /\ \A s \in Tokens \ {t} : redis'[s] = redis[s]
      BY <1>1, <2>1, NoRecordAssumption DEF TypeOK
    <3>2. Lives'[t] = "live"
      BY <3>1 DEF Lives
    <3>3. QED
      BY <2>1, <3>1, <3>2, LivesSeen
  <2>7. Charges' = [Charges EXCEPT ![t] = Charges[t] + 1]
    <3>1. \A s \in Tokens \ {t} : Counted(s)' = Counted(s)
      BY <1>2, <2>1, <2>2 DEF Counted, UploadsOf
    <3>2. Counted(t)' = Counted(t) \cup {u} /\ u \notin Counted(t)
      BY <1>1, <2>1, <2>2 DEF Counted, UploadsOf
    <3>3. Cardinality(Counted(t)') = Cardinality(Counted(t)) + 1
      BY <3>2, CountedIsFinite, FS_AddElement
    <3>4. \A s \in Tokens \ {t} : Cardinality(Counted(s)') = Cardinality(Counted(s))
      BY <3>1
    <3>5. QED
      BY <3>3, <3>4 DEF Charges
  <2>8. OpenUploads' = OpenUploads \ {u}
    BY <2>1, <2>2 DEF OpenUploads
  <2>9. AdmittedWith' = AdmittedWith
    BY <1>2, <2>1, <2>2 DEF AdmittedWith
  <2>10. Miscounted' \in {Miscounted, Miscounted \cup {t}}
    BY <2>1 DEF Miscounted
  <2>11. Ledger!OpenWith(t) = {u} => Miscounted' = Miscounted
    <3>1. Holding(t) \subseteq Ledger!OpenWith(t)
      BY HoldingIsOpen
    <3>2. QED
      BY <2>1, <2>3, <3>1 DEF Miscounted
  <2>12. ending' = ending /\ due' = due /\ Revenants' = Revenants
    BY <2>1 DEF Revenants
  <2>13. Ledger!Charge(u, t)
    BY <2>4, <2>5, <2>6, <2>7, <2>8, <2>9, <2>10, <2>11, <2>12 DEF Ledger!Charge
  <2>14. QED
    BY <2>13
<1>6. QED
  BY <1>4, <1>5, <1>7 DEF Consume

(* A revocation shows in the ledger when it deletes a record.               *)
LEMMA RevokeKeepsLedger ==
  ASSUME TypeOK, RequestsOK, NEW v \in Revokes, RevokeStep(v)
  PROVE  (\E t \in Tokens : Ledger!Vanish(t)) \/ SameLedger
<1>1. ASSUME NEW t \in Tokens, PurgeDelete(v, t)
      PROVE  Ledger!Vanish(t)
  BY <1>1, GoneVanishes DEF PurgeDelete
<1>2. CASE \A t \in Tokens : ~PurgeDelete(v, t)
  BY <1>2, OtherStepKeepsLedger
     DEF RevokeStep, RevokeSearch, RevokeHit, RevokeHitUnanswered, PurgeSkip, RevokeList,
         RevokeFails, stores, history
<1>3. QED
  BY <1>1, <1>2

-----------------------------------------------------------------------------
(* Time, and Redis.                                                         *)
LEMMA ExpiryKeepsLedger ==
  ASSUME TypeOK, RequestsOK, LifeInv, NEW t \in Tokens, ExpiresAt(t)
  PROVE  Ledger!Expire(t)
<1>1. /\ t \in ending /\ t \notin due /\ due' = due \cup {t} /\ ending' = ending
      /\ upl' = upl /\ gen' = gen /\ rolled' = rolled /\ racy' = racy /\ prolonged' = prolonged
  BY DEF ExpiresAt
<1>2. UNCHANGED <<ending, Charges, AdmittedWith, OpenUploads, Miscounted>>
  BY <1>1, UploadsSeen DEF Miscounted
<1>3. gen[t] # "new"
  BY <1>1 DEF LifeInv
<1>4. CASE redis[t] # NoRecord /\ ~redis[t].ext
  <2>1. Gone({t})
    BY <1>4 DEF ExpiresAt
  <2>2. Ledger!Die(t)
    BY <1>1, <1>4, <2>1, GoneIsDeath
  <2>3. QED
    BY <1>1, <1>2, <1>3, <2>2 DEF Ledger!Expire
<1>5. CASE redis[t] = NoRecord \/ redis[t].ext
  <2>1. Gone({})
    BY <1>5 DEF ExpiresAt
  <2>2. redis' = redis /\ reborn' = reborn
    BY <2>1 DEF Gone, TypeOK
  <2>3. UNCHANGED <<Lives, Revenants>>
    BY <1>1, <2>2, LivesKept DEF Revenants
  <2>4. Lives[t] = "dead" \/ t \in Revenants
    BY <1>3, <1>5 DEF LifeInv, Lives
  <2>5. QED
    BY <1>1, <1>2, <1>3, <2>3, <2>4 DEF Ledger!Expire
<1>6. QED
  BY <1>4, <1>5

LEMMA RestartKeepsLedger ==
  ASSUME TypeOK, RequestsOK, Restart
  PROVE  \E lost \in SUBSET Tokens : Ledger!RollBack(lost)
<1> DEFINE lost == {t \in Tokens : redis'[t] # redis[t] \/ (t \in members) # (t \in members')}
<1>1. /\ upl' = upl /\ gen' = gen /\ ending' = ending /\ due' = due
      /\ racy' = racy /\ reborn' = reborn /\ prolonged' = prolonged
      /\ rolled' = rolled \cup lost
  BY DEF Restart
<1>2. UNCHANGED <<ending, due, Charges, AdmittedWith, OpenUploads>>
  BY <1>1, UploadsSeen
<1>3. Miscounted' = Miscounted \cup lost /\ Revenants' = Revenants \cup lost
  BY <1>1 DEF Miscounted, Revenants
<1>4. \A t \in Tokens : gen[t] = "new" => redis[t] = NoRecord /\ redis'[t] = NoRecord
  BY DEF RequestsOK, Restart
<1>5. /\ \A t \in Tokens : Lives'[t] \in Ledger!Life
      /\ \A t \in Tokens : Lives[t] = "unissued" <=> gen[t] = "new" /\ redis[t] = NoRecord
      /\ \A t \in Tokens : Lives'[t] = "unissued" <=> gen'[t] = "new" /\ redis'[t] = NoRecord
  BY DEF Lives, Ledger!Life
<1>6. Lives' \in [Tokens -> Ledger!Life]
  BY <1>5 DEF Lives
<1>7. \A t \in Tokens : t \notin lost => Lives'[t] = Lives[t]
  BY <1>1 DEF Lives
<1>8. \A t \in Tokens : Lives'[t] = "unissued" <=> Lives[t] = "unissued"
  BY <1>1, <1>4, <1>5
<1>9. Ledger!RollBack(lost)
  BY <1>2, <1>3, <1>6, <1>7, <1>8 DEF Ledger!RollBack
<1>10. QED
  BY <1>9

LEMMA EnvironmentKeepsLedger ==
  ASSUME TypeOK, RequestsOK, LifeInv, Environment
  PROVE  Ledger!Next \/ SameLedger
<1>1. ASSUME NEW t \in Tokens, ExpiresAt(t)
      PROVE  Ledger!Next
  BY <1>1, ExpiryKeepsLedger DEF Ledger!Next
<1>2. ASSUME NEW t \in Tokens, LateExpiry(t) \/ EvictRecord(t)
      PROVE  Ledger!Next
  BY <1>2, GoneVanishes DEF LateExpiry, EvictRecord, Ledger!Next
<1>3. CASE Restart
  BY <1>3, RestartKeepsLedger DEF Ledger!Next
<1>4. CASE RedisDown \/ RedisUp \/ Snapshot \/ EvictMembers
  BY <1>4, OtherStepKeepsLedger DEF RedisDown, RedisUp, Snapshot, EvictMembers, stores, history
<1>5. ASSUME NEW t \in Tokens, LastMoment(t)
      PROVE  Ledger!Close(t)
  <2>1. /\ t \notin ending /\ ending' = ending \cup {t} /\ gen[t] # "new"
        /\ redis' = redis /\ gen' = gen /\ due' = due /\ upl' = upl
        /\ UNCHANGED <<racy, reborn, rolled, prolonged>>
    BY <1>5 DEF LastMoment, history
  <2>2. Lives' = Lives /\ Lives[t] # "unissued"
    BY <2>1, LivesKept DEF Lives
  <2>3. UNCHANGED <<Charges, AdmittedWith, OpenUploads, Miscounted, Revenants>>
    BY <2>1, UploadsSeen DEF Miscounted, Revenants
  <2>4. QED
    BY <2>1, <2>2, <2>3 DEF Ledger!Close
<1>6. QED
  BY <1>1, <1>2, <1>3, <1>4, <1>5 DEF Environment, Ledger!Next

-----------------------------------------------------------------------------
LEMMA NextKeepsLedger == LiveInv /\ [Next]_vars => [Ledger!Next]_(Ledger!vars)
<1> SUFFICES ASSUME LiveInv, [Next]_vars
             PROVE  Ledger!Next \/ SameLedger
  BY DEF SameLedger, Ledger!vars
<1>0. TypeOK /\ RequestsOK /\ UsesAreCounted /\ LifeInv
  BY DEF LiveInv, CountInv
<1>1. CASE UNCHANGED vars
  BY <1>1, OtherStepKeepsLedger DEF vars, stores, history
<1>2. ASSUME NEW t \in Tokens, Generate(t)
      PROVE  Ledger!Next \/ SameLedger
  BY <1>0, <1>2, GenerateKeepsLedger DEF Ledger!Next
<1>3. ASSUME NEW u \in Uploads, NEW t \in Tokens, Validate(u, t) \/ ValidateTimeout(u, t)
      PROVE  Ledger!Next \/ SameLedger
  BY <1>0, <1>3, ValidateKeepsLedger DEF Ledger!Next
<1>4. ASSUME NEW u \in Uploads, NEW ok \in BOOLEAN, FilesHandled(u, ok)
      PROVE  Ledger!Next \/ SameLedger
  BY <1>0, <1>4, FilesKeepLedger DEF Ledger!Next
<1>5. ASSUME NEW u \in Uploads, Consume(u)
      PROVE  Ledger!Next \/ SameLedger
  BY <1>0, <1>5, ConsumeKeepsLedger DEF Ledger!Next
<1>6. ASSUME NEW v \in Revokes, NEW ref \in Refs, RevokeById(v, ref)
      PROVE  Ledger!Next \/ SameLedger
  BY <1>6, OtherStepKeepsLedger DEF RevokeById, history
<1>a. ASSUME NEW v \in Revokes, NEW ref \in Refs, NEW next \in RevokeSteps,
             RevokeByIdUnanswered(v, ref, next)
      PROVE  Ledger!Next \/ SameLedger
  BY <1>a, OtherStepKeepsLedger DEF RevokeByIdUnanswered
<1>7. ASSUME NEW v \in Revokes, RevokeStep(v)
      PROVE  Ledger!Next \/ SameLedger
  BY <1>0, <1>7, RevokeKeepsLedger DEF Ledger!Next
<1>8. CASE Environment
  BY <1>0, <1>8, EnvironmentKeepsLedger
<1>9. QED
  BY <1>1, <1>2, <1>3, <1>4, <1>5, <1>6, <1>a, <1>7, <1>8 DEF Next

(* The portals, Redis and OpenSearch keep the ledger of every token: one    *)
(* that died never serves again and every use is charged once, unless the   *)
(* ledger names an overlap of two uploads, a last moment, a brief token or  *)
(* a restart of Redis.                                                      *)
THEOREM LedgerKept == Spec => LedgerSpec
BY InitKeepsLedger, NextKeepsLedger, LiveInductive, PTL DEF Spec, LedgerSpec, Ledger!Spec
=============================================================================
