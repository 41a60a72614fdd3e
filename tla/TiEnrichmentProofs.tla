-------------------------- MODULE TiEnrichmentProofs --------------------------
(***************************************************************************)
(* Proofs about TiEnrichment, for every set of indicators and events and   *)
(* every size of the cache, of a search and of the bounds.                 *)
(***************************************************************************)
EXTENDS TiEnrichment, FiniteSetTheorems, TLAPS

(***************************************************************************)
(* The invariant the proofs use.                                           *)
(***************************************************************************)
\* Values with an origin: a platform, or the test indicators after a copy got none.
Given == published["misp"] \cup published["opencti"]
         \cup (IF seeded = {} THEN {} ELSE Seeds)

\* The values some index has.
Stored == {i \in Iocs : \E x \in Indices : ti[x][i] > 0}

\* Whatever holds values on their way to a mark holds values with an origin.
Traced ==
  /\ Stored \subseteq Given /\ Found \subseteq Stored
  /\ cache \subseteq Given /\ job.seen \subseteq Given /\ script.cache \subseteq Given
  /\ \A s \in Sources : sync[s].docs \subseteq Given

\* A cache that was not cut misses only what a search shows since its load, or is
\* empty.
CacheFollows == cut \/ cache = {} \/ Found \ fresh \subseteq cache

\* What a search shows is stored, the hits of the script are, and the batch of the
\* worker is not yet.
Placed ==
  /\ \A e \in Events : shown[e].at = "stored" => log[e].at = "stored"
  /\ \A e \in script.hits : log[e].at = "stored"
  /\ \A e \in job.batch : log[e].at = "none"

\* An event the pass must mark matches its cache, and is a hit to come or marked.
Passing ==
  /\ script.at = "search" => script.shows \subseteq script.cache
  /\ script.at = "update" =>
       \A e \in script.wanted : /\ Marks(e, script.cache) # {}
                                /\ e \in script.hits \/ Matched(log[e])

IInv == /\ TypeOK /\ MatchIsGenuine /\ MissIsExplained /\ UnifiedFollows
        /\ Traced /\ CacheFollows /\ Placed /\ Passing

----------------------------------------------------------------------------
\* What a load of the cache returns a search shows, and it is all that it shows when
\* it fits and every shard answers.
LEMMA AnswerFacts ==
  ASSUME NEW S, NEW whole, Answer(S, whole)
  PROVE  S \subseteq Found /\ (whole /\ Fits => S = Found)
BY DEF Answer

\* A write adds its values to those stored, and only them.
LEMMA AddStores ==
  ASSUME TypeOK, NEW x \in Indices, NEW docs \in SUBSET Iocs, Add(x, docs)
  PROVE  /\ ti' \in [Indices -> [Iocs -> Nat]]
         /\ \A i \in Iocs : ti'[x][i] = IF i \in docs THEN ti[x][i] + 1 ELSE ti[x][i]
         /\ \A y \in Indices \ {x} : ti'[y] = ti[y]
         /\ Stored' = Stored \cup docs
<1>1. ti \in [Indices -> [Iocs -> Nat]]
  BY DEF TypeOK
<1>2. ti' = [ti EXCEPT ![x] = [i \in Iocs |-> IF i \in docs THEN ti[x][i] + 1 ELSE ti[x][i]]]
  BY DEF Add
<1>3. \A i \in Iocs : ti[x][i] \in Nat
  BY <1>1
<1>4. [i \in Iocs |-> IF i \in docs THEN ti[x][i] + 1 ELSE ti[x][i]] \in [Iocs -> Nat]
  BY <1>3
<1>5. ti' \in [Indices -> [Iocs -> Nat]]
  BY <1>1, <1>2, <1>4
<1>6. ti'[x] = [i \in Iocs |-> IF i \in docs THEN ti[x][i] + 1 ELSE ti[x][i]]
  BY <1>1, <1>2
<1>7. \A y \in Indices \ {x} : ti'[y] = ti[y]
  BY <1>1, <1>2
<1>8. \A i \in Iocs : ti'[x][i] = IF i \in docs THEN ti[x][i] + 1 ELSE ti[x][i]
  BY <1>6
<1>9. Stored' = Stored \cup docs
  <2>1. ASSUME NEW i \in Iocs
        PROVE  (\E y \in Indices : ti'[y][i] > 0)
                 <=> ((\E y \in Indices : ti[y][i] > 0) \/ i \in docs)
    <3>1. CASE i \in docs
      <4>1. ti'[x][i] > 0
        BY <1>3, <1>8, <3>1
      <4> QED BY <3>1, <4>1
    <3>2. CASE i \notin docs
      <4>1. \A y \in Indices : ti'[y][i] = ti[y][i]
        BY <1>7, <1>8, <3>2
      <4> QED BY <3>2, <4>1
    <3> QED BY <3>1, <3>2
  <2> QED BY <2>1 DEF Stored
<1> QED BY <1>5, <1>7, <1>8, <1>9 DEF Add

----------------------------------------------------------------------------
LEMMA Initially == Init => IInv
<1> SUFFICES ASSUME Init PROVE IInv
  OBVIOUS
<1>1. Stored = {} /\ Found = {}
  BY DEF Init, Stored, Found
<1>2. TypeOK
  <2> USE DEF Init
  <2>1. published \in [Sources -> SUBSET Iocs] /\ sync \in [Sources -> Sync]
    BY DEF Sync, NoSync
  <2>2. ti \in [Indices -> [Iocs -> Nat]] /\ passes \in [{"copies", "script"} -> Nat]
    OBVIOUS
  <2>3. job \in Job /\ script \in Script
    BY DEF Job, NoJob, Script, NoScript
  <2>4. log \in [Events -> Event] /\ shown \in [Events -> Event]
    BY DEF Event, NoEvent
  <2> QED BY <2>1, <2>2, <2>3, <2>4 DEF TypeOK
<1>3. MatchIsGenuine
  BY DEF Init, MatchIsGenuine, Matched, NoEvent
<1>4. MissIsExplained /\ CacheFollows
  BY <1>1 DEF Init, MissIsExplained, NoJob, CacheFollows
<1>5. UnifiedFollows
  BY DEF Init, UnifiedFollows, Indices
<1>6. Traced
  BY <1>1 DEF Init, Traced, NoJob, NoScript, NoSync
<1>7. Placed /\ Passing
  BY DEF Init, Placed, Passing, NoJob, NoScript, NoEvent
<1> QED BY <1>2, <1>3, <1>4, <1>5, <1>6, <1>7 DEF IInv

----------------------------------------------------------------------------
\* A copy has collected, when all but the copies and the counts stays.
LEMMA CollectKeeps ==
  ASSUME IInv, NEW s \in Sources, NEW got \in SUBSET Iocs,
         got \subseteq published["misp"] \cup published["opencti"] \/ got \subseteq Given,
         sync[s].at \in {"idle", "observables"},
         Collect(s, got), passes' \in [{"copies", "script"} -> Nat], faults' \in Nat
  PROVE  IInv'
<1> USE DEF IInv
<1>1. /\ sync' = [sync EXCEPT ![s] = [at |-> "source", docs |-> Collected(got)]]
      /\ seeded' = IF got = {} THEN seeded \cup {s} ELSE seeded
      /\ UNCHANGED <<published, ti, found, cache, old, job, fresh, cut, log, shown, script, broken>>
  BY DEF Collect, worker, events
<1>2. Given \subseteq Given' /\ Collected(got) \subseteq Given' /\ Collected(got) \in SUBSET Iocs
  BY <1>1, ValueAssumption DEF Given, Collected
<1>3. TypeOK'
  <2>1. sync' \in [Sources -> Sync]
    BY <1>1, <1>2 DEF TypeOK, Sync
  <2>2. seeded' \subseteq Sources
    BY <1>1 DEF TypeOK
  <2> QED BY <1>1, <2>1, <2>2 DEF TypeOK
<1>4. Stored' = Stored /\ Found' = Found
  BY <1>1 DEF Stored, Found
<1>5. MatchIsGenuine' /\ MissIsExplained' /\ CacheFollows' /\ Placed' /\ Passing'
  <2>1. MatchIsGenuine'
    BY <1>1, <1>2 DEF MatchIsGenuine, Given, Matched
  <2>2. Placed' /\ Passing'
    BY <1>1 DEF Placed, Passing, Marks, Matched
  <2> QED BY <1>1, <1>4, <2>1, <2>2 DEF MissIsExplained, CacheFollows
<1>6. UnifiedFollows'
  <2>1. \A r \in Sources : r # s => sync'[r] = sync[r]
    BY <1>1 DEF TypeOK
  <2> QED BY <1>1, <2>1 DEF UnifiedFollows, TypeOK
<1>7. Traced'
  <2>1. \A r \in Sources : sync'[r].docs \subseteq Given'
    BY <1>1, <1>2 DEF Traced, TypeOK
  <2> QED BY <1>1, <1>2, <1>4, <2>1 DEF Traced
<1> QED BY <1>3, <1>5, <1>6, <1>7

LEMMA FetchMispKeeps == ASSUME IInv, FetchMisp PROVE IInv'
<1>1. passes' \in [{"copies", "script"} -> Nat] /\ faults' \in Nat
  BY DEF FetchMisp, Begins, Holds, Fails, IInv, TypeOK
<1>2. published["misp"] \in SUBSET Iocs /\ {} \in SUBSET Iocs /\ sync["misp"].at = "idle"
  BY DEF FetchMisp, Begins, IInv, TypeOK, Sources
<1>3. CASE Collect("misp", published["misp"])
  BY <1>1, <1>2, <1>3, CollectKeeps DEF Sources
<1>4. CASE Collect("misp", {})
  BY <1>1, <1>2, <1>4, CollectKeeps DEF Sources
<1> QED BY <1>3, <1>4 DEF FetchMisp

LEMMA FetchIndicatorsKeeps == ASSUME IInv, FetchIndicators PROVE IInv'
<1> USE DEF IInv
<1>1. passes' \in [{"copies", "script"} -> Nat] /\ faults' \in Nat
  BY DEF FetchIndicators, Begins, Holds, Fails, TypeOK
<1>2. published["opencti"] \in SUBSET Iocs /\ sync["opencti"].at = "idle"
  BY DEF FetchIndicators, Begins, TypeOK, Sources
<1>3. CASE Collect("opencti", {})
  BY <1>1, <1>2, <1>3, CollectKeeps DEF Sources
<1>4. CASE /\ sync' = [sync EXCEPT !["opencti"] =
                 [at |-> "observables", docs |-> published["opencti"] \ Observables]]
           /\ UNCHANGED <<published, ti, found, worker, events, script, seeded, broken>>
  <2>1. UNCHANGED <<published, ti, found, cache, old, job, fresh, cut, log, shown, script, seeded,
                   broken>>
    BY <1>4 DEF worker, events
  <2>2. sync' \in [Sources -> Sync]
    BY <1>2, <1>4 DEF TypeOK, Sync
  <2>3. Stored' = Stored /\ Found' = Found /\ Given' = Given
    BY <2>1 DEF Stored, Found, Given
  <2>4. TypeOK'
    BY <1>1, <2>1, <2>2 DEF TypeOK
  <2>5. MatchIsGenuine' /\ MissIsExplained' /\ CacheFollows' /\ Placed' /\ Passing'
    BY <2>1, <2>3 DEF MatchIsGenuine, Matched, MissIsExplained, CacheFollows, Placed, Passing,
                      Marks
  <2>6. UnifiedFollows'
    BY <1>2, <1>4, <2>1 DEF UnifiedFollows, TypeOK
  <2>7. Traced'
    <3>1. published["opencti"] \subseteq Given
      BY DEF Given
    <3>2. \A r \in Sources : sync'[r].docs \subseteq Given
      BY <1>4, <3>1 DEF Traced, TypeOK
    <3> QED BY <2>1, <2>3, <3>2 DEF Traced
  <2> QED BY <2>4, <2>5, <2>6, <2>7
<1> QED BY <1>3, <1>4 DEF FetchIndicators

LEMMA FetchObservablesKeeps == ASSUME IInv, FetchObservables PROVE IInv'
<1> USE DEF IInv
<1> DEFINE more == sync["opencti"].docs \cup (published["opencti"] \cap Observables)
<1>1. passes' \in [{"copies", "script"} -> Nat] /\ faults' \in Nat
  BY DEF FetchObservables, Holds, Fails, TypeOK
<1>2. sync["opencti"] \in Sync /\ sync["opencti"].at = "observables"
      /\ sync["opencti"].docs \subseteq Given
  BY DEF FetchObservables, TypeOK, Sources, Traced
<1>3. more \in SUBSET Iocs /\ more \subseteq Given /\ sync["opencti"].docs \in SUBSET Iocs
  BY <1>2 DEF TypeOK, Sync, Sources, Given
<1>4. CASE Collect("opencti", more)
  <2> HIDE DEF more
  <2> QED BY <1>1, <1>2, <1>3, <1>4, CollectKeeps DEF Sources
<1>5. CASE Collect("opencti", sync["opencti"].docs)
  BY <1>1, <1>2, <1>3, <1>5, CollectKeeps DEF Sources
<1> QED BY <1>4, <1>5 DEF FetchObservables

----------------------------------------------------------------------------
LEMMA WriteKeeps == ASSUME IInv, NEW s \in Sources, Write(s) PROVE IInv'
<1> USE DEF IInv
<1> DEFINE x == IndexOf(s)
<1>1. PICK docs \in SUBSET sync[s].docs :
        /\ Add(x, docs)
        /\ \/ /\ docs = sync[s].docs /\ UNCHANGED <<broken, faults>>
              /\ sync' = [sync EXCEPT ![s] = AfterBulk(s)]
           \/ /\ broken' = broken \cup {s} /\ faults' = faults + 1
              /\ sync' = [sync EXCEPT ![s] = NoSync]
  BY DEF Write, Holds, Fails
<1>2. UNCHANGED <<published, found, passes, cache, old, job, fresh, cut, log, shown, script,
                  seeded>>
  BY DEF Write, worker, events
<1>3. sync[s] \in Sync /\ sync[s].docs \in SUBSET Iocs /\ sync[s].docs \subseteq Given
  BY DEF TypeOK, Sync, Traced
<1>4. x \in Indices /\ docs \in SUBSET Iocs
  BY <1>1, <1>3 DEF Indices, IndexOf
<1>5. /\ ti' \in [Indices -> [Iocs -> Nat]]
      /\ \A i \in Iocs : ti'[x][i] = IF i \in docs THEN ti[x][i] + 1 ELSE ti[x][i]
      /\ \A y \in Indices \ {x} : ti'[y] = ti[y]
      /\ Stored' = Stored \cup docs
  <2> HIDE DEF x
  <2> QED BY <1>1, <1>4, AddStores
<1>6. /\ sync' \in [Sources -> Sync]
      /\ \A r \in Sources : sync'[r].docs \subseteq sync[r].docs
      /\ \A r \in Sources \ {s} : sync'[r] = sync[r]
  <2>1. PICK new : /\ sync' = [sync EXCEPT ![s] = new] /\ new \in {NoSync, AfterBulk(s)}
    BY <1>1
  <2>2. new \in Sync /\ new.docs \subseteq sync[s].docs
    BY <1>3, <2>1 DEF Sync, NoSync, AfterBulk
  <2> QED BY <2>1, <2>2 DEF TypeOK
<1>7. TypeOK'
  <2>1. broken' \subseteq Sources /\ faults' \in Nat
    BY <1>1 DEF TypeOK
  <2> QED BY <1>2, <1>5, <1>6, <2>1 DEF TypeOK
<1>8. Given' = Given /\ Found' = Found
  BY <1>2 DEF Given, Found
<1>9. MatchIsGenuine' /\ Placed' /\ Passing'
  BY <1>2 DEF MatchIsGenuine, Matched, Placed, Passing, Marks
<1>10. MissIsExplained'
  BY <1>2 DEF MissIsExplained
<1>11. CacheFollows'
  BY <1>2, <1>8 DEF CacheFollows
<1>12. Traced'
  BY <1>1, <1>2, <1>3, <1>5, <1>6, <1>8 DEF Traced
<1>13. UnifiedFollows'
  <2> SUFFICES ASSUME NEW r \in Sources, NEW i \in Iocs,
                      ti'[r][i] > 0, ti'["unified"][i] = 0
               PROVE  r \in broken' \/ (sync'[r].at = "unified" /\ i \in sync'[r].docs)
    BY DEF UnifiedFollows
  <2>1. ti["unified"][i] = 0
    BY <1>5 DEF TypeOK, Indices
  <2>2. broken \subseteq broken'
    BY <1>1
  <2>3. r # "unified" /\ r \in Indices /\ ti[r][i] \in Nat
    BY DEF Sources, Indices, TypeOK
  <2>4. CASE ti[r][i] > 0
    <3>1. r \in broken \/ (sync[r].at = "unified" /\ i \in sync[r].docs)
      BY <2>1, <2>4 DEF UnifiedFollows
    <3>2. CASE r # s
      BY <1>6, <2>2, <3>1, <3>2
    <3>3. CASE r = s /\ x = "unified"
      <4>1. i \notin docs
        BY <1>5, <2>1, <3>3
      <4> QED BY <1>1, <2>2, <3>1, <3>3, <4>1
    <3>4. CASE r = s /\ x # "unified"
      <4>1. sync[s].at = "source"
        BY <3>4 DEF IndexOf
      <4> QED BY <2>2, <3>1, <3>4, <4>1
    <3> QED BY <3>2, <3>3, <3>4
  <2>5. CASE ~(ti[r][i] > 0)
    <3>1. r = x /\ i \in docs
      BY <1>5, <2>3, <2>5
    <3>2. r = s /\ sync[s].at = "source"
      BY <2>3, <3>1 DEF IndexOf
    <3>3. s \in broken' \/ (docs = sync[s].docs /\ sync'[s].at = "unified"
                                                /\ sync'[s].docs = sync[s].docs)
      BY <1>1, <1>3, <3>2 DEF TypeOK, Sync, AfterBulk
    <3> QED BY <3>1, <3>2, <3>3
  <2> QED BY <2>4, <2>5
<1> QED BY <1>7, <1>9, <1>10, <1>11, <1>12, <1>13

\* A refresh shows what an index has, and what it shows now is fresh.
LEMMA RefreshTiKeeps == ASSUME IInv, NEW x \in Indices, RefreshTi(x) PROVE IInv'
<1> USE DEF IInv
<1>1. /\ found' = [found EXCEPT ![x] = ti[x]]
      /\ fresh' = fresh \cup ({i \in Iocs : ti[x][i] > 0} \ Found)
      /\ UNCHANGED <<published, ti, sync, seeded, broken, passes, cache, old, job, cut,
                     log, shown, script, faults>>
  BY DEF RefreshTi, events
<1>2. Stored' = Stored /\ Given' = Given
  BY <1>1 DEF Stored, Given
<1>3. Found' \subseteq Found \cup {i \in Iocs : ti[x][i] > 0}
  <2>1. \A y \in Indices \ {x} : found'[y] = found[y]
    BY <1>1 DEF TypeOK
  <2>2. found'[x] = ti[x]
    BY <1>1 DEF TypeOK
  <2> QED BY <2>1, <2>2 DEF Found
<1>4. TypeOK'
  BY <1>1 DEF TypeOK
<1>5. Found' \subseteq Stored
  BY <1>3 DEF Stored, Traced
<1>6. Traced'
  BY <1>1, <1>2, <1>5 DEF Traced
<1>7. CacheFollows'
  BY <1>1, <1>3 DEF CacheFollows
<1>8. MissIsExplained'
  BY <1>1 DEF MissIsExplained
<1> QED BY <1>1, <1>4, <1>6, <1>7, <1>8 DEF MatchIsGenuine, Matched, UnifiedFollows,
                                           Placed, Passing, Marks

----------------------------------------------------------------------------
LEMMA EnrichKeeps == ASSUME IInv, Enrich PROVE IInv'
<1> USE DEF IInv
<1>1. UNCHANGED <<published, ti, found, sync, seeded, broken, passes, log, shown, script>>
  BY DEF Enrich, copies, events
<1>2. Stored' = Stored /\ Found' = Found /\ Given' = Given /\ Found \subseteq Iocs
  BY <1>1 DEF Stored, Found, Given
<1>3. PICK known \in SUBSET Iocs, aged \in BOOLEAN, failed \in BOOLEAN :
        /\ Loaded(known, aged, failed)
        /\ \/ known = cache /\ UNCHANGED <<fresh, cut>> /\ cache # {} /\ ~old /\ ~failed
           \/ /\ known \subseteq Found /\ (~cut' => known = Found) /\ ~failed
              /\ fresh' = {} /\ cut' \in BOOLEAN
           \/ known = {} /\ UNCHANGED <<fresh, cut>> /\ failed
           \/ known = cache /\ UNCHANGED <<fresh, cut>> /\ failed
  <2>1. cache \in SUBSET Iocs /\ {} \in SUBSET Iocs /\ old \in BOOLEAN
    BY DEF TypeOK
  <2>2. CASE ~MustLoad /\ Loaded(cache, old, FALSE) /\ UNCHANGED <<fresh, cut>>
    BY <2>1, <2>2 DEF MustLoad
  <2>3. CASE \E S \in SUBSET Iocs, whole \in BOOLEAN :
               /\ Asked(whole) /\ Answer(S, whole) /\ Loaded(S, FALSE, FALSE)
               /\ cut' = ~(whole /\ Fits) /\ fresh' = {}
    BY <2>3, AnswerFacts
  <2>4. CASE Loaded({}, FALSE, TRUE) /\ UNCHANGED <<fresh, cut>>
    BY <2>1, <2>4
  <2>5. CASE Loaded(cache, old, TRUE) /\ UNCHANGED <<fresh, cut>>
    BY <2>1, <2>5
  <2> QED BY <2>2, <2>3, <2>4, <2>5 DEF Enrich
<1>4. PICK batch \in SUBSET Events :
        job' = [at |-> "index", batch |-> batch,
                seen |-> IF failed THEN {} ELSE known, shows |-> Found,
                due |-> old, failed |-> failed]
         /\ \A e \in batch : log[e].at = "none"
  BY <1>3 DEF Loaded
<1>5. cache' = known /\ old' = aged
  BY <1>3 DEF Loaded
<1>6. (IF failed THEN {} ELSE known) \in SUBSET Iocs
  OBVIOUS
<1>7. TypeOK'
  <2>1. job' \in Job
    <3> DEFINE seen == IF failed THEN {} ELSE known
    <3>1. seen \in SUBSET Iocs /\ old \in BOOLEAN /\ Found \in SUBSET Iocs
      BY <1>2, <1>6 DEF TypeOK
    <3>2. job' = [at |-> "index", batch |-> batch, seen |-> seen, shows |-> Found,
                  due |-> old, failed |-> failed]
      BY <1>4
    <3> HIDE DEF seen
    <3>3. batch \in SUBSET Events /\ failed \in BOOLEAN
      OBVIOUS
    <3> QED BY <3>1, <3>2, <3>3, Zenon DEF Job
  <2>2. fresh' \subseteq Iocs /\ cut' \in BOOLEAN
    BY <1>3 DEF TypeOK
  <2>3. faults' \in Nat
    <3>1. Holds \/ Fails
      BY Zenon DEF Enrich, Asked
    <3> QED BY <3>1 DEF Holds, Fails, TypeOK
  <2> QED BY <1>1, <1>5, <2>1, <2>2, <2>3 DEF TypeOK
<1>8. MatchIsGenuine' /\ UnifiedFollows' /\ Passing'
  BY <1>1 DEF MatchIsGenuine, Matched, UnifiedFollows, Passing, Marks
<1>9. Traced'
  <2>1. known \subseteq Given
    BY <1>3 DEF Traced
  <2>2. job'.seen \subseteq Given
    BY <1>4, <2>1
  <2> QED BY <1>1, <1>2, <1>5, <2>1, <2>2 DEF Traced
<1>10. cut \in BOOLEAN
  BY DEF TypeOK
<1>11. CacheFollows'
  <2>1. CASE known = {}
    BY <1>5, <2>1 DEF CacheFollows
  <2>2. CASE known = cache /\ UNCHANGED <<fresh, cut>>
    BY <1>2, <1>5, <2>2 DEF CacheFollows
  <2>3. CASE cut'
    BY <2>3 DEF CacheFollows
  <2>4. CASE known = Found
    BY <1>2, <1>5, <2>4 DEF CacheFollows
  <2> QED BY <1>3, <2>1, <2>2, <2>3, <2>4
<1>12. MissIsExplained'
  <2> SUFFICES ASSUME NEW e \in batch, NEW i \in (Carries[e] \cap Found) \ job'.seen
               PROVE  job'.failed \/ cut' \/ (i \in fresh' /\ ~job'.due)
    BY <1>4 DEF MissIsExplained
  <2>1. job'.failed = failed /\ job'.due = old /\ (~failed => job'.seen = known)
    BY <1>4
  <2>2. CASE known = cache /\ UNCHANGED <<fresh, cut>> /\ cache # {} /\ ~old /\ ~failed
    BY <2>1, <2>2 DEF CacheFollows
  <2>3. CASE cut' \/ failed
    BY <2>1, <2>3
  <2>4. CASE known = Found /\ ~failed
    BY <2>1, <2>4
  <2> QED BY <1>3, <2>2, <2>3, <2>4
<1>13. Placed'
  <2>1. \A e \in job'.batch : log[e].at = "none"
    BY <1>4
  <2> QED BY <1>1, <2>1 DEF Placed
<1> QED BY <1>7, <1>8, <1>9, <1>11, <1>12, <1>13

\* A batch is written: each of its events is marked from what the batch saw.
LEMMA IndexKeeps == ASSUME IInv, Index PROVE IInv'
<1> USE DEF IInv
<1>1. /\ log' = [e \in Events |-> IF e \in job.batch THEN Enriched(e, job.seen, "worker")
                                  ELSE log[e]]
      /\ job' = NoJob
      /\ UNCHANGED <<published, ti, found, sync, seeded, broken, passes, cache, old, fresh,
                     cut, shown, script, faults>>
  BY DEF Index, copies
<1>2. Stored' = Stored /\ Found' = Found /\ Given' = Given
  BY <1>1 DEF Stored, Found, Given
<1>3. job \in Job
  BY DEF TypeOK
<1>4. \A e \in Events : Enriched(e, job.seen, "worker") \in Event
  BY <1>3, ValueAssumption DEF Job, Enriched, Marks, Event, Writers
<1>5. log' \in [Events -> Event]
  BY <1>1, <1>4 DEF TypeOK
<1>6. TypeOK'
  BY <1>1, <1>5 DEF TypeOK, Job, NoJob
<1>7. MatchIsGenuine'
  <2> SUFFICES ASSUME NEW e \in Events, Matched(log'[e]), log'[e].by # "sighting"
               PROVE  log'[e].marks \subseteq Carries[e] \cap Given
    BY <1>2 DEF MatchIsGenuine, Given, Matched
  <2>1. CASE e \in job.batch
    BY <1>1, <2>1 DEF Enriched, Marks, Traced
  <2>2. CASE e \notin job.batch
    BY <1>1, <2>2 DEF MatchIsGenuine, Matched, Given
  <2> QED BY <2>1, <2>2
<1>8. MissIsExplained' /\ UnifiedFollows' /\ CacheFollows'
  BY <1>1, <1>2 DEF MissIsExplained, NoJob, UnifiedFollows, CacheFollows
<1>9. Traced'
  BY <1>1, <1>2 DEF Traced, NoJob
<1>10. \A e \in Events : log[e].at = "stored" => log'[e] = log[e]
  BY <1>1 DEF Placed
<1>11. script.hits \subseteq Events /\ script.wanted \subseteq Events
  BY DEF TypeOK, Script
<1>12. \A e \in Events : Matched(log[e]) => Matched(log'[e])
  BY <1>10 DEF Matched
<1>13. Placed'
  BY <1>1, <1>10, <1>11 DEF Placed, NoJob
<1>14. Passing'
  BY <1>1, <1>11, <1>12 DEF Passing, Marks
<1> QED BY <1>6, <1>7, <1>8, <1>9, <1>13, <1>14

\* The time that passes disturbs neither what is stored nor what is cached.
LEMMA TimeKeeps == ASSUME IInv, Age \/ Refresh PROVE IInv'
<1> USE DEF IInv
<1>1. /\ UNCHANGED <<published, ti, found, sync, seeded, broken, passes, cache, job, fresh,
                     cut, log, script, faults>>
      /\ old' \in BOOLEAN /\ shown' \in [Events -> Event]
      /\ shown' \in {shown, log}
  BY DEF Age, Refresh, copies, events, worker, TypeOK
<1>2. Stored' = Stored /\ Found' = Found /\ Given' = Given
  BY <1>1 DEF Stored, Found, Given
<1>3. TypeOK'
  BY <1>1 DEF TypeOK
<1>4. Placed'
  BY <1>1 DEF Placed
<1> QED BY <1>1, <1>2, <1>3, <1>4 DEF MatchIsGenuine, Matched, MissIsExplained,
                                     UnifiedFollows, Traced, CacheFollows, Passing, Marks

----------------------------------------------------------------------------
\* A step of the script that leaves the stored events as they are.
LEMMA ScriptOnlyKeeps ==
  ASSUME IInv, UNCHANGED <<published, copies, worker, log>>,
         shown' \in [Events -> Event],
         \A e \in Events : shown'[e].at = "stored" => log[e].at = "stored",
         passes' \in [{"copies", "script"} -> Nat], faults' \in Nat,
         script' \in Script, script'.cache \subseteq Given,
         \A e \in script'.hits : log[e].at = "stored", Passing'
  PROVE  IInv'
<1> USE DEF IInv
<1>1. UNCHANGED <<published, ti, found, sync, seeded, broken, cache, old, job, fresh, cut, log>>
  BY DEF copies, worker
<1>2. Stored' = Stored /\ Found' = Found /\ Given' = Given
  BY <1>1 DEF Stored, Found, Given
<1>3. TypeOK'
  BY <1>1 DEF TypeOK
<1>4. Placed'
  BY <1>1 DEF Placed
<1> QED BY <1>1, <1>2, <1>3, <1>4 DEF MatchIsGenuine, Matched, MissIsExplained,
                                     UnifiedFollows, Traced, CacheFollows

LEMMA NoScriptFacts == /\ NoScript \in Script /\ NoScript.cache = {} /\ NoScript.at = "idle"
                       /\ NoScript.hits = {}
BY DEF NoScript, Script

\* A call keeps the count of the faults a number.
LEMMA FaultsKept ==
  ASSUME TypeOK, Holds \/ Fails \/ \E whole \in BOOLEAN : Asked(whole)
  PROVE  faults' \in Nat
BY DEF TypeOK, Holds, Fails, Asked

LEMMA ScriptStartKeeps == ASSUME IInv, ScriptStart PROVE IInv'
<1> USE DEF IInv
<1>1. PICK S \in SUBSET Iocs, whole \in BOOLEAN :
        /\ Asked(whole) /\ Answer(S, whole)
        /\ script' = [NoScript EXCEPT !.at = "search", !.cache = S,
                                      !.shows = IF whole /\ Fits THEN Found ELSE {}]
  BY DEF ScriptStart
<1>2. S \subseteq Found /\ (whole /\ Fits => S = Found)
  BY <1>1, AnswerFacts
<1>3. S \subseteq Given
  BY <1>2 DEF Traced
<1>4. /\ script' \in Script /\ script'.cache = S /\ script'.at = "search"
      /\ script'.hits = {} /\ script'.shows \subseteq S
  BY <1>1, <1>2 DEF Script, NoScript
<1>5. passes' \in [{"copies", "script"} -> Nat]
      /\ UNCHANGED <<published, copies, worker, log>> /\ shown' = shown
  BY DEF ScriptStart, TypeOK, events
<1>6. faults' \in Nat
  BY <1>1, FaultsKept
<1>7. Passing'
  BY <1>4 DEF Passing
<1>8. shown' \in [Events -> Event]
      /\ \A e \in Events : shown'[e].at = "stored" => log[e].at = "stored"
  BY <1>5 DEF TypeOK, Placed
<1> QED BY <1>3, <1>4, <1>5, <1>6, <1>7, <1>8, ScriptOnlyKeeps

\* A search that is whole and within the limit takes every unmarked event.
LEMMA AllTaken ==
  ASSUME NEW hits \in SUBSET Unmarked, Cardinality(hits) = Most,
         Cardinality(Unmarked) <= HitLimit
  PROVE  hits = Unmarked
<1>1. IsFiniteSet(Unmarked) /\ Cardinality(Unmarked) \in Nat
  <2>1. IsFiniteSet(Events) /\ Unmarked \subseteq Events
    BY ValueAssumption DEF Unmarked
  <2> QED BY <2>1, FS_Subset, FS_CardinalityType
<1>2. Most = Cardinality(Unmarked)
  <2> DEFINE u == Cardinality(Unmarked)
  <2>1. u \in Nat /\ HitLimit \in Nat /\ u <= HitLimit
    BY <1>1, LimitAssumption
  <2> HIDE DEF u
  <2>2. Most = Min({HitLimit, u})
    BY DEF Most, u
  <2>3. u \in {HitLimit, u} /\ \A y \in {HitLimit, u} : u <= y
    BY <2>1
  <2>4. \A x \in {HitLimit, u} : (\A y \in {HitLimit, u} : x <= y) => x = u
    BY <2>1
  <2>5. Min({HitLimit, u}) = u
    BY <2>3, <2>4 DEF Min
  <2> QED BY <2>2, <2>5 DEF u
<1> QED BY <1>1, <1>2, FS_Subset

LEMMA ScriptSearchKeeps == ASSUME IInv, ScriptSearch PROVE IInv'
<1> USE DEF IInv
<1>1. PICK hits \in SUBSET Unmarked, whole \in BOOLEAN :
        /\ Asked(whole) /\ (whole => Cardinality(hits) = Most)
        /\ script' = [script EXCEPT !.at = "update", !.hits = hits, !.shows = {},
             !.wanted = IF whole /\ Cardinality(Unmarked) <= HitLimit THEN Wanted ELSE {}]
  BY DEF ScriptSearch
<1>2. /\ script \in Script /\ script.cache \subseteq Given /\ script.at = "search"
      /\ script.shows \subseteq script.cache
  BY DEF TypeOK, Traced, Passing, ScriptSearch
<1>3. Unmarked \subseteq Events /\ Wanted \subseteq Unmarked
  BY DEF Unmarked, Wanted
<1>4. script' \in Script /\ script'.cache = script.cache /\ script'.at = "update"
      /\ script'.hits = hits
  BY <1>1, <1>2, <1>3 DEF Script
<1>5. /\ UNCHANGED <<published, copies, passes, worker, log>> /\ shown' = shown
      /\ faults' \in Nat
  BY <1>1, FaultsKept DEF ScriptSearch, events
<1>6. \A e \in Unmarked : log[e].at = "stored"
  BY DEF Unmarked, Placed
<1>7. Passing'
  <2> SUFFICES ASSUME NEW e \in script'.wanted
               PROVE  Marks(e, script.cache) # {} /\ e \in script'.hits
    BY <1>4 DEF Passing, Marks
  <2>1. whole /\ Cardinality(Unmarked) <= HitLimit /\ e \in Wanted
    BY <1>1, <1>2 DEF Script
  <2>2. hits = Unmarked
    BY <1>1, <2>1, AllTaken
  <2>3. Marks(e, script.cache) # {}
    BY <1>2, <2>1 DEF Wanted, Marks
  <2> QED BY <1>3, <1>4, <2>1, <2>2, <2>3
<1>8. shown' \in [Events -> Event] /\ passes' \in [{"copies", "script"} -> Nat]
      /\ \A e \in Events : shown'[e].at = "stored" => log[e].at = "stored"
  BY <1>5 DEF TypeOK, Placed
<1> QED BY <1>2, <1>4, <1>5, <1>6, <1>7, <1>8, ScriptOnlyKeeps

LEMMA ScriptReadsKeeps ==
  ASSUME IInv, ScriptStops \/ ScriptCount \/ ScriptPick \/ ScriptEnd
  PROVE  IInv'
<1> USE DEF IInv
<1>1. passes' = passes /\ faults' \in Nat /\ UNCHANGED <<published, copies, worker, log>>
  <2>1. Fails \/ Holds \/ \E whole \in BOOLEAN : Asked(whole)
    BY Zenon DEF ScriptStops, ScriptCount, ScriptPick, ScriptEnd, Holds
  <2>2. passes' = passes /\ UNCHANGED <<published, copies, worker, log>>
    BY Zenon DEF ScriptStops, ScriptCount, ScriptPick, ScriptEnd, events
  <2> QED BY <2>1, <2>2, FaultsKept
<1>2. shown' \in [Events -> Event]
      /\ \A e \in Events : shown'[e].at = "stored" => log[e].at = "stored"
  <2>1. CASE shown' = shown
    BY <2>1 DEF TypeOK, Placed
  <2>2. CASE ScriptEnd
    <3>1. shown' = [e \in Events |-> IF script.seeded /\ e \in Target THEN log[e] ELSE shown[e]]
      BY <2>2 DEF ScriptEnd
    <3> QED BY <3>1 DEF TypeOK, Placed
  <2> QED BY <2>1, <2>2 DEF ScriptStops, ScriptCount, ScriptPick, events
<1>3. script \in Script /\ script.cache \subseteq Given
  BY DEF TypeOK, Traced
<1>4. Visible \subseteq Events /\ \A e \in Visible : log[e].at = "stored"
  BY ValueAssumption DEF Visible, Placed
<1>5. script' \in Script /\ script'.cache \subseteq Given /\ Passing'
      /\ \A e \in script'.hits : log[e].at = "stored"
  <2>1. CASE script' = NoScript
    BY <2>1, NoScriptFacts DEF Passing
  <2>2. CASE script' = [script EXCEPT !.at = "pick", !.wanted = {}]
    BY <1>3, <2>2 DEF Script, Passing, Placed
  <2>3. CASE ScriptPick
    <3>1. PICK hits \in SUBSET Visible : script' = [script EXCEPT !.at = "sight", !.hits = hits]
      BY <2>3 DEF ScriptPick
    <3> QED BY <1>3, <1>4, <3>1 DEF Script, Passing
  <2> QED BY <2>1, <2>2, <2>3 DEF ScriptStops, ScriptCount, ScriptEnd
<1> QED BY <1>1, <1>2, <1>5, ScriptOnlyKeeps DEF TypeOK

----------------------------------------------------------------------------
\* A step of the script that changes one event.
LEMMA ScriptMarksKeeps ==
  ASSUME IInv, NEW e \in Events, NEW d \in Event, d.at = "stored", log[e].at = "stored",
         Matched(d) /\ d.by # "sighting" => d.marks \subseteq Carries[e] \cap Given,
         log' \in {log, [log EXCEPT ![e] = d]},
         UNCHANGED <<published, copies, passes, worker, shown>>, faults' \in Nat,
         script' \in Script, script'.cache \subseteq Given,
         script'.hits \subseteq script.hits, Passing'
  PROVE  IInv'
<1> USE DEF IInv
<1>1. UNCHANGED <<published, ti, found, sync, seeded, broken, cache, old, job, fresh, cut,
                  passes, shown>>
  BY DEF copies, worker
<1>2. Stored' = Stored /\ Found' = Found /\ Given' = Given
  BY <1>1 DEF Stored, Found, Given
<1>3. log' \in [Events -> Event] /\ \A f \in Events : log'[f] = log[f] \/ (f = e /\ log'[f] = d)
  BY DEF TypeOK
<1>4. TypeOK'
  BY <1>1, <1>3 DEF TypeOK
<1>5. MatchIsGenuine'
  <2> SUFFICES ASSUME NEW f \in Events, Matched(log'[f]), log'[f].by # "sighting"
               PROVE  log'[f].marks \subseteq Carries[f] \cap Given
    BY <1>2 DEF MatchIsGenuine, Given, Matched
  <2> QED BY <1>3 DEF MatchIsGenuine, Matched, Given
<1>6. Placed'
  <2>1. script.hits \subseteq Events /\ job.batch \subseteq Events
    BY DEF TypeOK, Script, Job
  <2>2. \A f \in Events : log'[f].at = log[f].at
    BY <1>3
  <2> QED BY <1>1, <2>1, <2>2 DEF Placed
<1> QED BY <1>1, <1>2, <1>4, <1>5, <1>6 DEF MissIsExplained, UnifiedFollows, Traced, CacheFollows

LEMMA ScriptUpdateKeeps == ASSUME IInv, NEW e \in Events, ScriptUpdate(e) PROVE IInv'
<1> USE DEF IInv
<1> DEFINE d == Enriched(e, script.cache, "script")
<1>1. script \in Script /\ script.cache \subseteq Given /\ script.at = "update"
      /\ log[e].at = "stored"
  BY DEF TypeOK, Traced, Placed, ScriptUpdate
<1>2. d \in Event /\ d.at = "stored"
  BY <1>1, ValueAssumption DEF Script, Enriched, Marks, Event, Writers
<1>3. Matched(d) /\ d.by # "sighting" => d.marks \subseteq Carries[e] \cap Given
  BY <1>1 DEF Enriched, Marks
<1>4. PICK done \in BOOLEAN :
        /\ Asked(done)
        /\ log' = IF done /\ Marks(e, script.cache) # {} THEN [log EXCEPT ![e] = d] ELSE log
        /\ script' = [script EXCEPT !.hits = script.hits \ {e},
                                    !.wanted = IF done THEN script.wanted
                                               ELSE script.wanted \ {e}]
  BY DEF ScriptUpdate
<1>5. /\ script' \in Script /\ script'.cache = script.cache /\ script'.at = "update"
      /\ script'.hits = script.hits \ {e} /\ script'.wanted \subseteq script.wanted
      /\ done \/ e \notin script'.wanted
  BY <1>1, <1>4 DEF Script
<1>6. UNCHANGED <<published, copies, passes, worker, shown>> /\ faults' \in Nat
  BY <1>4, FaultsKept DEF ScriptUpdate
<1>7. Passing'
  <2> SUFFICES ASSUME NEW f \in script'.wanted
               PROVE  Marks(f, script.cache) # {} /\ (f \in script'.hits \/ Matched(log'[f]))
    BY <1>5 DEF Passing, Marks
  <2>1. f \in Events /\ Marks(f, script.cache) # {} /\ (f \in script.hits \/ Matched(log[f]))
    BY <1>1, <1>5 DEF Passing, Script
  <2>2. CASE f = e
    <3>1. log' = [log EXCEPT ![e] = d] /\ d.by = "script"
      BY <1>4, <1>5, <2>1, <2>2 DEF Enriched
    <3> QED BY <1>2, <2>1, <2>2, <3>1 DEF TypeOK, Matched
  <2>3. CASE f # e
    <3>1. log'[f] = log[f]
      BY <1>4, <2>1, <2>3 DEF TypeOK
    <3> QED BY <1>5, <2>1, <2>3, <3>1 DEF Matched
  <2> QED BY <2>2, <2>3
<1>8. log' \in {log, [log EXCEPT ![e] = d]}
  BY <1>4
<1> HIDE DEF d
<1> QED BY <1>1, <1>2, <1>3, <1>5, <1>6, <1>7, <1>8, ScriptMarksKeeps

LEMMA ScriptSightKeeps ==
  ASSUME IInv, NEW e \in Events, NEW i \in Iocs, ScriptSight(e, i) PROVE IInv'
<1> USE DEF IInv
<1>1. script \in Script /\ script.cache \subseteq Given /\ script.at = "sight"
      /\ log[e].at = "stored"
  BY DEF TypeOK, Traced, Placed, ScriptSight
<1>2. Sighted(i) \in Event /\ Sighted(i).by = "sighting" /\ Sighted(i).at = "stored"
  BY DEF Sighted, Event, Writers
<1>3. PICK done \in BOOLEAN :
        /\ Asked(done)
        /\ log' = IF done THEN [log EXCEPT ![e] = Sighted(i)] ELSE log
        /\ script' = [script EXCEPT !.hits = script.hits \ {e},
                                    !.cache = script.cache \ {i},
                                    !.seeded = script.seeded \/ done]
  BY DEF ScriptSight
<1>4. log' \in {log, [log EXCEPT ![e] = Sighted(i)]} /\ faults' \in Nat
  BY <1>3, FaultsKept
<1>5. script' \in Script /\ script'.cache \subseteq Given /\ script'.at = "sight"
      /\ script'.hits \subseteq script.hits
  BY <1>1, <1>3 DEF Script
<1>6. UNCHANGED <<published, copies, passes, worker, shown>>
  BY DEF ScriptSight
<1>7. Passing'
  BY <1>5 DEF Passing
<1> QED BY <1>1, <1>2, <1>4, <1>5, <1>6, <1>7, ScriptMarksKeeps

----------------------------------------------------------------------------
LEMMA Stuttering == ASSUME IInv, UNCHANGED vars PROVE IInv'
<1>1. UNCHANGED <<published, ti, found, sync, seeded, broken, passes, cache, old, job, fresh,
                  cut, log, shown, script, faults>>
  BY DEF vars
<1>2. Stored' = Stored /\ Found' = Found /\ Given' = Given
  BY <1>1 DEF Stored, Found, Given
<1>3. MatchIsGenuine' /\ Placed' /\ Passing'
  BY <1>1 DEF IInv, MatchIsGenuine, Matched, Placed, Passing, Marks
<1> QED BY <1>1, <1>2, <1>3 DEF IInv, TypeOK, MissIsExplained, UnifiedFollows, Traced,
                                CacheFollows

LEMMA Inductive == IInv /\ [Next]_vars => IInv'
<1> SUFFICES ASSUME IInv, [Next]_vars PROVE IInv'
  OBVIOUS
<1>1. CASE \E s \in Sources : Write(s)
  BY <1>1, WriteKeeps
<1>7. CASE \E x \in Indices : RefreshTi(x)
  BY <1>7, RefreshTiKeeps
<1>2. CASE FetchMisp \/ FetchIndicators \/ FetchObservables
  BY <1>2, FetchMispKeeps, FetchIndicatorsKeeps, FetchObservablesKeeps
<1>3. CASE Enrich \/ Index \/ Age \/ Refresh
  BY <1>3, EnrichKeeps, IndexKeeps, TimeKeeps
<1>4. CASE ScriptStart \/ ScriptStops \/ ScriptSearch \/ ScriptCount \/ ScriptPick \/ ScriptEnd
  BY <1>4, ScriptStartKeeps, ScriptSearchKeeps, ScriptReadsKeeps
<1>5. CASE \E e \in Events : ScriptUpdate(e) \/ \E i \in Iocs : ScriptSight(e, i)
  BY <1>5, ScriptUpdateKeeps, ScriptSightKeeps
<1>6. CASE UNCHANGED vars
  BY <1>6, Stuttering
<1> QED BY <1>1, <1>2, <1>3, <1>4, <1>5, <1>6, <1>7 DEF Next

\* The invariant of the proofs holds in every reachable state.
THEOREM Invariance == Spec => []IInv
BY Initially, Inductive, PTL DEF Spec

\* Every variable keeps its type.
THEOREM TypeCorrect == Spec => []TypeOK
<1>1. IInv => TypeOK
  BY DEF IInv
<1> QED BY <1>1, Invariance, PTL

\* No event is marked by the worker or the script with a value it does not carry
\* or that has no origin (enrich_event, load_ioc_cache, seed_test_iocs).
THEOREM GenuineCorrect == Spec => []MatchIsGenuine
<1>1. IInv => MatchIsGenuine
  BY DEF IInv
<1> QED BY <1>1, Invariance, PTL

\* A miss of what a search shows is a matter of the age of the cache, of the load of
\* that batch, or of a load that left documents out (enrich_events).
THEOREM MissCorrect == Spec => []MissIsExplained
<1>1. IInv => MissIsExplained
  BY DEF IInv
<1> QED BY <1>1, Invariance, PTL

\* The unified index lacks only what a copy is writing or failed to write.
THEOREM UnifiedCorrect == Spec => []UnifiedFollows
<1>1. IInv => UnifiedFollows
  BY DEF IInv
<1> QED BY <1>1, Invariance, PTL

\* A pass of the script marks every event it should, whatever the worker and the
\* copies do beside it (main of opensearch_ti_enrich_logs).
THEOREM PassCorrect == Spec => []PassLeavesNone
<1>1. IInv => PassLeavesNone
  BY DEF IInv, Passing, PassLeavesNone
<1> QED BY <1>1, Invariance, PTL
============================================================================
