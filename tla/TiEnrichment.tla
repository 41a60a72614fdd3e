------------------------------ MODULE TiEnrichment ------------------------------
(***************************************************************************)
(* The correlation of events with threat intelligence.  Two scripts copy   *)
(* the indicators (IOC) of MISP and OpenCTI into the forensic-ti-* indices *)
(* (src/scripts/opensearch_ioc_misp_sync.py, ..._opencti_sync.py,          *)
(* opensearch_ioc_common.py); the ingest worker marks the events it        *)
(* indexes from a cache of those indices that lives TI_CACHE_TTL seconds   *)
(* (src/ingest-worker/ti_enrichment.py, ioc_common.py); and a script goes  *)
(* over the recent events again (src/scripts/opensearch_ti_enrich_logs.py).*)
(*                                                                         *)
(* Nothing removes an indicator from the indices, every pass of a copy     *)
(* writes its documents again without an identifier, and a cache is one    *)
(* search of at most Window documents.  A search shows a write only after  *)
(* a refresh of the index, and is answered with status 200 although one of *)
(* the shards it asks failed: its answer is then partial.  An action is    *)
(* one HTTP call with what the caller does with its answer.                *)
(***************************************************************************)
EXTENDS Naturals, FiniteSets, FiniteSetsExt

CONSTANTS
  Iocs,         \* values of indicators
  Seeds,        \* the test indicators of seed_test_iocs
  Observables,  \* the values OpenCTI has as observables, the others being indicators
  Events,       \* documents of the forensic-* indices
  Carries,      \* Carries[e]: the indicators extract_candidates finds in e
  Target,       \* events of forensic-linux-* and forensic-windows-*
  Window,       \* documents a load of the cache returns at most (10000)
  HitLimit,     \* TI_ENRICH_MAX
  Sample,       \* indicators the fallback takes at most (25)
  MaxSyncs,     \* bound: passes of the two copies
  MaxScripts,   \* bound: passes of the script over the events
  MaxFaults     \* bound: calls that fail or are answered in part

ASSUME ValueAssumption ==
  /\ Seeds \subseteq Iocs /\ Observables \subseteq Iocs /\ Target \subseteq Events
  /\ Carries \in [Events -> SUBSET Iocs]
  /\ IsFiniteSet(Iocs) /\ IsFiniteSet(Events)
ASSUME LimitAssumption ==
  /\ Window \in Nat \ {0} /\ HitLimit \in Nat \ {0} /\ Sample \in Nat \ {0}
  /\ MaxSyncs \in Nat /\ MaxScripts \in Nat /\ MaxFaults \in Nat

VARIABLES
  published,   \* published[s]: the indicators platform s gives to its copies
  ti,          \* ti[x][i]: documents of the index x with the value i
  found,       \* found[x][i]: those a search shows
  sync,        \* sync[s]: the copy of platform s
  passes,      \* passes of the copies and of the script so far
  cache,       \* _CACHE, as the set of its values
  old,         \* TI_CACHE_TTL has passed since _CACHE_AT
  job,         \* the batch the worker is indexing
  log,         \* the events as OpenSearch stores them
  shown,       \* the events as a search shows them (index.refresh_interval)
  script,      \* opensearch_ti_enrich_logs.py
  faults,      \* calls that failed or were answered in part so far
  seeded,      \* history: platforms that gave a copy nothing
  broken,      \* history: platforms a copy of which stopped half-way
  fresh,       \* history: indicators a search shows only since the last good load
  cut          \* history: the last good load left out documents a search shows

vars == <<published, ti, found, sync, passes, cache, old, job, log, shown, script,
          faults, seeded, broken, fresh, cut>>
copies == <<ti, found, sync, seeded, broken>>
worker == <<cache, old, job, fresh, cut>>
events == <<log, shown>>

Sources == {"misp", "opencti"}
Indices == Sources \cup {"unified"}
Writers == {"worker", "script", "sighting"}
Event == [at : {"none"}] \cup
         [at : {"stored"}, marks : SUBSET Iocs, by : Writers \cup {"nobody"}]
Sync == [at : {"idle", "observables", "source", "unified"}, docs : SUBSET Iocs]
Job == [at : {"idle", "index"}, batch : SUBSET Events, seen : SUBSET Iocs,
        shows : SUBSET Iocs, due : BOOLEAN, failed : BOOLEAN]
Script == [at : {"idle", "search", "update", "pick", "sight"},
           cache : SUBSET Iocs, hits : SUBSET Events, seeded : BOOLEAN,
           shows : SUBSET Iocs, wanted : SUBSET Events]

NoJob == [at |-> "idle", batch |-> {}, seen |-> {}, shows |-> {},
          due |-> FALSE, failed |-> FALSE]
NoScript == [at |-> "idle", cache |-> {}, hits |-> {}, seeded |-> FALSE,
             shows |-> {}, wanted |-> {}]
NoEvent == [at |-> "none"]
NoSync == [at |-> "idle", docs |-> {}]

TypeOK ==
  /\ published \in [Sources -> SUBSET Iocs]
  /\ ti \in [Indices -> [Iocs -> Nat]] /\ found \in [Indices -> [Iocs -> Nat]]
  /\ sync \in [Sources -> Sync]
  /\ passes \in [{"copies", "script"} -> Nat] /\ faults \in Nat
  /\ cache \subseteq Iocs /\ fresh \subseteq Iocs /\ old \in BOOLEAN /\ cut \in BOOLEAN
  /\ job \in Job
  /\ log \in [Events -> Event] /\ shown \in [Events -> Event]
  /\ script \in Script
  /\ seeded \subseteq Sources /\ broken \subseteq Sources

Init ==
  /\ published \in [Sources -> SUBSET (Iocs \ Seeds)]
  /\ ti = [x \in Indices |-> [i \in Iocs |-> 0]] /\ found = ti
  /\ sync = [s \in Sources |-> NoSync]
  /\ passes = [p \in {"copies", "script"} |-> 0] /\ faults = 0
  /\ cache = {} /\ fresh = {} /\ old = TRUE /\ cut = FALSE
  /\ job = NoJob
  /\ log = [e \in Events |-> NoEvent] /\ shown = log
  /\ script = NoScript
  /\ seeded = {} /\ broken = {}

----------------------------------------------------------------------------
(***************************************************************************)
(* What the searches answer, and the matching.                             *)
(***************************************************************************)
Copies(i) == MapThenSumSet(LAMBDA x : found[x][i], Indices)
Found == {i \in Iocs : \E x \in Indices : found[x][i] > 0}
Total == MapThenSumSet(Copies, Iocs)
Fits == Total <= Window

\* load_ioc_cache: a search of Window documents of all the indices at once,
\* without an order; one a shard did not answer has any part of them.
Answer(S, whole) ==
  /\ S \subseteq Found
  /\ whole /\ Fits => S = Found
  /\ ~Fits => Cardinality(S) <= Window
  /\ whole /\ ~Fits => MapThenSumSet(Copies, S) >= Window

Fails == faults < MaxFaults /\ faults' = faults + 1
Holds == UNCHANGED faults
\* A search is answered by all its shards, or by a part of them.
Asked(whole) == IF whole THEN Holds ELSE Fails

\* enrich_event
Marks(e, known) == Carries[e] \cap known
Matched(d) == d.at = "stored" /\ d.by # "nobody"
EnrichedUnnamed(e, known, writer) ==  \* mutant: the fields are left out without a match
  [at |-> "stored", marks |-> Marks(e, known),
   by |-> IF Marks(e, known) = {} THEN "none" ELSE writer]
Enriched(e, known, writer) ==
  [at |-> "stored", marks |-> Marks(e, known),
   by |-> IF Marks(e, known) = {} THEN "nobody" ELSE writer]

----------------------------------------------------------------------------
(***************************************************************************)
(* The copies.  A copy of MISP is one request, a copy of OpenCTI two, each *)
(* of which keeps all its pages or loses them all.  What a platform gives  *)
(* is any set, the same in every pass but for the calls that fail.         *)
(***************************************************************************)
\* What a copy goes on to write: the test indicators when it has nothing.
CollectedAndSeeds(got) == got \cup Seeds  \* mutant: seeded although it has something
Collected(got) == IF got = {} THEN Seeds ELSE got

Collect(s, got) ==
  /\ sync' = [sync EXCEPT ![s] = [at |-> "source", docs |-> Collected(got)]]
  /\ seeded' = IF got = {} THEN seeded \cup {s} ELSE seeded
  /\ UNCHANGED <<published, ti, found, worker, events, script, broken>>

Begins(s) ==
  /\ sync[s].at = "idle" /\ passes["copies"] < MaxSyncs
  /\ passes' = [passes EXCEPT !["copies"] = @ + 1]

FetchMisp ==
  /\ Begins("misp")
  /\ \/ Holds /\ Collect("misp", published["misp"])
     \/ Fails /\ Collect("misp", {})

FetchIndicators ==
  /\ Begins("opencti")
  /\ \/ /\ Holds
        /\ sync' = [sync EXCEPT !["opencti"] =
             [at |-> "observables", docs |-> published["opencti"] \ Observables]]
        /\ UNCHANGED <<published, ti, found, worker, events, script, seeded, broken>>
     \/ Fails /\ Collect("opencti", {})

FetchObservables ==
  /\ sync["opencti"].at = "observables"
  /\ \/ /\ Holds
        /\ Collect("opencti", sync["opencti"].docs
                              \cup (published["opencti"] \cap Observables))
     \/ Fails /\ Collect("opencti", sync["opencti"].docs)
  /\ UNCHANGED passes

\* bulk_index_ti: one document for each value, added to those there are.
Add(x, docs) ==
  ti' = [ti EXCEPT ![x] = [i \in Iocs |-> IF i \in docs THEN @[i] + 1 ELSE @[i]]]

\* The index a copy writes to, and what it does after.
IndexOf(s) == IF sync[s].at = "source" THEN s ELSE "unified"
AfterBulkIdle(s) == NoSync  \* mutant: the second index is left out
AfterBulk(s) ==
  IF sync[s].at = "source" THEN [at |-> "unified", docs |-> sync[s].docs] ELSE NoSync

Write(s) ==
  /\ sync[s].at \in {"source", "unified"}
  /\ \/ /\ Holds
        /\ Add(IndexOf(s), sync[s].docs)
        /\ sync' = [sync EXCEPT ![s] = AfterBulk(s)]
        /\ UNCHANGED broken
     \/ /\ Fails
        /\ \E some \in SUBSET sync[s].docs : Add(IndexOf(s), some)
        /\ sync' = [sync EXCEPT ![s] = NoSync]
        /\ broken' = broken \cup {s}
  /\ UNCHANGED <<published, found, passes, worker, events, script, seeded>>

\* External: the refresh_interval of an index of indicators passes.
RefreshTi(x) ==
  /\ found[x] # ti[x]
  /\ found' = [found EXCEPT ![x] = ti[x]]
  /\ fresh' = fresh \cup ({i \in Iocs : ti[x][i] > 0} \ Found)
  /\ UNCHANGED <<published, ti, sync, seeded, broken, passes, cache, old, job, cut,
                 events, script, faults>>

----------------------------------------------------------------------------
(***************************************************************************)
(* The worker.  A batch is the events of one file, of which those outside  *)
(* Events are not followed: the batch {} stands for them.                  *)
(***************************************************************************)
MustLoadOld == old      \* mutant: an empty cache is kept for its time
MustLoad == old \/ cache = {}

\* enrich_events: the cache after it, the batch, and how its load went.
Loaded(known, aged, failed) ==
  /\ cache' = known /\ old' = aged
  /\ \E batch \in SUBSET {e \in Events : log[e].at = "none"} :
       job' = [at |-> "index", batch |-> batch,
               seen |-> IF failed THEN {} ELSE known, shows |-> Found,
               due |-> old, failed |-> failed]

Enrich ==
  /\ job.at = "idle"
  /\ \/ /\ ~MustLoad /\ Holds
        /\ Loaded(cache, old, FALSE)
        /\ UNCHANGED <<fresh, cut>>
     \/ /\ MustLoad /\ fresh' = {}
        /\ \E S \in SUBSET Iocs, whole \in BOOLEAN :
             /\ Asked(whole) /\ Answer(S, whole) /\ Loaded(S, FALSE, FALSE)
             /\ cut' = ~(whole /\ Fits)
     \/ /\ MustLoad /\ Fails          \* a status other than 200
        /\ Loaded({}, FALSE, TRUE)
        /\ UNCHANGED <<fresh, cut>>
     \/ /\ MustLoad /\ Fails          \* an exception: the batch goes unmarked
        /\ Loaded(cache, old, TRUE)
        /\ UNCHANGED <<fresh, cut>>
  /\ UNCHANGED <<published, copies, passes, events, script>>

\* bulk_index
Index ==
  /\ job.at = "index"
  /\ log' = [e \in Events |-> IF e \in job.batch THEN Enriched(e, job.seen, "worker")
                              ELSE log[e]]
  /\ job' = NoJob
  /\ UNCHANGED <<published, copies, passes, cache, old, fresh, cut, shown, script, faults>>

\* TI_CACHE_TTL passes.
Age ==
  /\ ~old /\ old' = TRUE
  /\ UNCHANGED <<published, copies, passes, cache, job, fresh, cut, events, script, faults>>

\* External: index.refresh_interval passes.
Refresh ==
  /\ shown # log /\ shown' = log
  /\ UNCHANGED <<published, copies, passes, worker, log, script, faults>>

----------------------------------------------------------------------------
(***************************************************************************)
(* The script that goes over the events again.  A call it does not catch   *)
(* the failure of makes it stop.                                           *)
(***************************************************************************)
ScriptStart ==
  /\ script.at = "idle" /\ passes["script"] < MaxScripts
  /\ passes' = [passes EXCEPT !["script"] = @ + 1]
  /\ \E S \in SUBSET Iocs \ {{}}, whole \in BOOLEAN :
       /\ Asked(whole) /\ Answer(S, whole)
       /\ script' = [NoScript EXCEPT !.at = "search", !.cache = S,
                                     !.shows = IF whole /\ Fits THEN Found ELSE {}]
  /\ UNCHANGED <<published, copies, worker, events>>

ScriptStops ==
  /\ script.at # "idle" /\ Fails /\ script' = NoScript
  /\ UNCHANGED <<published, copies, passes, worker, events>>

\* The unmarked events of the last seven days, as a search shows them.
Unmarked == {e \in Events : shown[e].at = "stored" /\ ~Matched(shown[e])}

\* Of those, the ones with an indicator a search showed when the pass began.
Wanted == {e \in Unmarked : Carries[e] \cap script.shows # {}}

MostLess == Min({HitLimit, Cardinality(Unmarked)}) - 1  \* mutant: the last hit is dropped
Most == Min({HitLimit, Cardinality(Unmarked)})

ScriptSearch ==
  /\ script.at = "search"
  /\ \E hits \in SUBSET Unmarked, whole \in BOOLEAN :
       /\ Asked(whole) /\ Cardinality(hits) <= Most
       /\ whole => Cardinality(hits) = Most
       /\ script' = [script EXCEPT !.at = "update", !.hits = hits, !.shows = {},
            !.wanted = IF whole /\ Cardinality(Unmarked) <= HitLimit THEN Wanted ELSE {}]
  /\ UNCHANGED <<published, copies, passes, worker, events>>

\* An _update of the fields of one hit, or one that is refused; a hit that matches
\* nothing is passed over.
ScriptUpdate(e) ==
  /\ script.at = "update" /\ e \in script.hits
  /\ \E done \in BOOLEAN :
       /\ Asked(done) /\ (done \/ Marks(e, script.cache) # {})
       /\ log' = IF done /\ Marks(e, script.cache) # {}
                 THEN [log EXCEPT ![e] = Enriched(e, script.cache, "script")] ELSE log
       /\ script' = [script EXCEPT !.hits = @ \ {e},
                                   !.wanted = IF done THEN @ ELSE @ \ {e}]
  /\ UNCHANGED <<published, copies, passes, worker, shown>>

\* The marked events of the target that the count finds: an error counts as none,
\* and a shard that failed counts for nothing.
Known == {e \in Target : Matched(shown[e])}

ScriptCount ==
  /\ script.at = "update" /\ script.hits = {}
  /\ \E known \in SUBSET Known, whole \in BOOLEAN :
       /\ Asked(whole) /\ (whole => known = Known)
       /\ script' = IF known = {} THEN [script EXCEPT !.at = "pick", !.wanted = {}]
                    ELSE NoScript
  /\ UNCHANGED <<published, copies, passes, worker, events>>

\* The fallback pairs any events of the target with indicators of the cache.
Visible == {e \in Target : shown[e].at = "stored"}

ScriptPick ==
  /\ script.at = "pick"
  /\ \E hits \in SUBSET Visible, whole \in BOOLEAN :
       LET most == Min({Sample, Cardinality(script.cache), Cardinality(Visible)}) IN
       /\ Asked(whole) /\ Cardinality(hits) <= most
       /\ whole => Cardinality(hits) = most
       /\ script' = [script EXCEPT !.at = "sight", !.hits = hits]
  /\ UNCHANGED <<published, copies, passes, worker, events>>

Sighted(i) == [at |-> "stored", marks |-> {i}, by |-> "sighting"]

ScriptSight(e, i) ==
  /\ script.at = "sight" /\ e \in script.hits /\ i \in script.cache
  /\ \E done \in BOOLEAN :
       /\ Asked(done)
       /\ log' = IF done THEN [log EXCEPT ![e] = Sighted(i)] ELSE log
       /\ script' = [script EXCEPT !.hits = @ \ {e}, !.cache = @ \ {i},
                                   !.seeded = @ \/ done]
  /\ UNCHANGED <<published, copies, passes, worker, shown>>

\* The refresh of the target, after a sighting, and the end.
ScriptEnd ==
  /\ script.at = "sight" /\ script.hits = {}
  /\ shown' = [e \in Events |-> IF script.seeded /\ e \in Target THEN log[e] ELSE shown[e]]
  /\ script' = NoScript
  /\ UNCHANGED <<published, copies, passes, worker, log, faults>>

----------------------------------------------------------------------------
Next ==
  \/ \E s \in Sources : Write(s)
  \/ \E x \in Indices : RefreshTi(x)
  \/ FetchMisp \/ FetchIndicators \/ FetchObservables
  \/ Enrich \/ Index \/ Age \/ Refresh
  \/ ScriptStart \/ ScriptStops \/ ScriptSearch \/ ScriptCount \/ ScriptPick \/ ScriptEnd
  \/ \E e \in Events : \/ ScriptUpdate(e)
                       \/ \E i \in Iocs : ScriptSight(e, i)

Spec == Init /\ [][Next]_vars

----------------------------------------------------------------------------
(***************************************************************************)
(* Properties.                                                             *)
(***************************************************************************)
\* A mark tells the truth: the values an event was marked with by the worker or
\* the script are in the event, and either a platform once gave them or they are
\* test indicators, which are there only because a platform gave a copy nothing.
MatchIsGenuine ==
  \A e \in Events : Matched(log[e]) /\ log[e].by # "sighting" =>
    log[e].marks \subseteq
      Carries[e] \cap (published["misp"] \cup published["opencti"]
                       \cup IF seeded = {} THEN {} ELSE Seeds)

\* An event is indexed unmarked, although a search shows its indicator, only if
\* the search has shown it only since the last load and that load is younger than
\* TI_CACHE_TTL, if the load of this very batch failed, or if the load left
\* documents out, for the size of a load or for a shard that failed: neither a
\* failure nor an empty answer outlives its batch.
MissIsExplained ==
  job.at = "index" =>
    \A e \in job.batch : \A i \in (Carries[e] \cap job.shows) \ job.seen :
      job.failed \/ cut \/ (i \in fresh /\ ~job.due)

\* The index forensic-ti-unified has what the two others have, but for the
\* copy between its two writes and for a copy that stopped half-way.
UnifiedFollows ==
  \A s \in Sources : \A i \in Iocs :
    ti[s][i] > 0 /\ ti["unified"][i] = 0 =>
      s \in broken \/ (sync[s].at = "unified" /\ i \in sync[s].docs)

\* A pass of the script leaves no event behind: when it has gone through its hits,
\* every event a search showed unmarked, with an indicator a search showed at the
\* start of the pass, is marked, unless the load or the search left documents out,
\* for its size or for a shard that failed, or the update of that event was refused.
PassLeavesNone ==
  script.at = "update" /\ script.hits = {} => \A e \in script.wanted : Matched(log[e])
============================================================================
