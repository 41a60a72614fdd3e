---------------------------- MODULE TimesketchImport ----------------------------
(***************************************************************************)
(* The import of a file into Timesketch: src/ingest-worker/                *)
(* timesketch_pipeline.py, timesketch_io.py and timesketch_plaso.py run by *)
(* the ingest worker, importToTimesketch of src/portal-cert/server.js run  *)
(* for the reports an analyst exports, and the first two steps of          *)
(* src/scripts/repair-timesketch.sh, which delete broken timelines and     *)
(* queue the uploads again.  Timesketch itself is external: it is modelled *)
(* by the answers this code distinguishes.                                 *)
(*                                                                         *)
(* An action is one HTTP call with what the caller does with its answer.   *)
(* The pages of the list of sketches, the reads a wait repeats, those of   *)
(* the verification, and the status and count of a timeline are each       *)
(* merged into one action.  A file whose upload is not answered in time    *)
(* reaches Timesketch before the next attempt or never.                    *)
(***************************************************************************)
EXTENDS Naturals, FiniteSets, Sequences

CONSTANTS
  Files,       \* uploads the worker imports
  Reports,     \* exports of the CERT portal
  Cases,       \* names of sketches, without the prefix "[FP] "
  CaseOf,      \* CaseOf[x] is the case of a file or the name of a report
  Evtx,        \* files with the extension evtx or evt
  Short,       \* files whose CSV has less than MIN_EVENTS_PLASO rows
  Rowless,     \* files whose CSV is refused by the validation
  Plaso,       \* whether log2timeline is installed in the worker
  Worker,      \* the ingest worker
  Retries,     \* TIMESKETCH_UPLOAD_RETRIES
  PageSize,    \* sketches on a page of the list
  MaxFaults,   \* bound: calls that go wrong
  MaxRepairs   \* bound: passes of the repair script

Items == Files \cup Reports
Importers == Reports \cup {Worker}

ASSUME CaseAssumption == CaseOf \in [Items -> Cases]
ASSUME ItemAssumption ==
  /\ Files \cap Reports = {}
  /\ Worker \notin Items
  /\ Evtx \subseteq Files /\ Short \subseteq Files /\ Rowless \subseteq Files
  /\ Plaso \in BOOLEAN
ASSUME BoundAssumption ==
  /\ Retries \in Nat \ {0} /\ PageSize \in Nat \ {0}
  /\ MaxFaults \in Nat /\ MaxRepairs \in Nat

VARIABLES
  sketches,    \* the sketches, in the order of their creation
  pending,     \* creations no longer waited for that Timesketch has yet to apply
  timelines,   \* the timelines, in the order of their creation
  jobs,        \* jobs[f]: jobs of the file in the worker's list
  session,     \* cached clients: _ts_client and _tsSession
  imp,         \* imp[w]: the import at work
  result,      \* timesketch.ok of the upload document, answer to the report
  repair,      \* the repair script
  faults,      \* calls that went wrong so far
  ambiguous,   \* history: items whose upload was accepted without a usable answer
  again,       \* history: files whose import began a second time
  hasty,       \* history: files judged while a timeline was still being indexed
  blinded,     \* history: reports whose list of sketches was an error
  pruned       \* history: items that lost a timeline that was ready

world == <<sketches, pending, timelines>>
history == <<ambiguous, again, hasty, blinded, pruned>>
vars == <<sketches, pending, timelines, jobs, session, imp, result, repair, faults,
          ambiguous, again, hasty, blinded, pruned>>

Sessions == {"worker", "portal"}
Clients == {"none", "good", "refused"}
TimelineStates == {"new", "filling", "ready", "empty", "fail", "deleted"}
Places == {"idle", "client", "list", "create", "upload", "fallback", "plaso",
           "plasoWait", "wait", "verify", "report", "done"}
Import == [at : Places, of : Items \cup {Worker}, sketch : Nat, listed : Nat,
           timeline : Nat, tries : Nat, answered : BOOLEAN,
           uploaded : BOOLEAN, ready : BOOLEAN]
BegunLate(x, place) ==  \* mutant: a field is left out of the cleared state
  [at |-> place, of |-> x, sketch |-> 0, listed |-> 0, timeline |-> 0,
   tries |-> 0, answered |-> FALSE, uploaded |-> FALSE]
Begun(x, place) ==
  [at |-> place, of |-> x, sketch |-> 0, listed |-> 0, timeline |-> 0,
   tries |-> 0, answered |-> FALSE, uploaded |-> FALSE, ready |-> FALSE]

Init ==
  /\ sketches = <<>> /\ pending = {} /\ timelines = <<>>
  /\ jobs = [f \in Files |-> 1]
  /\ session = [k \in Sessions |-> "none"]
  /\ imp = [w \in Importers |-> Begun(w, "idle")]
  /\ result = [x \in Items |-> "none"]
  /\ repair = [at |-> "idle", unread |-> {}, left |-> {}, doomed |-> 0, passes |-> 0]
  /\ faults = 0
  /\ ambiguous = {} /\ again = {} /\ hasty = {} /\ blinded = {} /\ pruned = {}

Fault == faults < MaxFaults /\ faults' = faults + 1
Right == UNCHANGED faults

Kind(w) == IF w = Worker THEN "worker" ELSE "portal"
SketchAny(x) == DOMAIN sketches  \* mutant: the name is not compared
SketchOf(x) == {i \in DOMAIN sketches : sketches[i].case = CaseOf[x]}
Live(i) == {t \in DOMAIN timelines :
              timelines[t].sketch = i /\ timelines[t].state # "deleted"}

\* Any page of the list: Timesketch decides the order of the sketches.
FirstPages ==
  IF Len(sketches) <= PageSize THEN {DOMAIN sketches}
  ELSE {page \in SUBSET DOMAIN sketches : Cardinality(page) = PageSize}

-----------------------------------------------------------------------------
\* The importers.

Goes(w, place) == imp' = [imp EXCEPT ![w].at = place]

\* The import ends: the worker writes timesketch.ok, the portal answers.
Rest(w) == IF w = Worker THEN Begun(Worker, "idle") ELSE Begun(w, "done")
Ends(w, verdict) ==
  /\ result' = [result EXCEPT ![imp[w].of] = verdict]
  /\ imp' = [imp EXCEPT ![w] = Rest(w)]

\* The worker takes a job.
TakeJob(f) ==
  /\ imp[Worker].at = "idle" /\ jobs[f] > 0
  /\ jobs' = [jobs EXCEPT ![f] = @ - 1]
  /\ imp' = [imp EXCEPT ![Worker] = Begun(f, "client")]
  /\ again' = IF \E t \in DOMAIN timelines : timelines[t].of = f
              THEN again \cup {f} ELSE again
  /\ UNCHANGED <<world, session, result, repair, faults, ambiguous, hasty, blinded, pruned>>

\* An analyst exports a report.
Export(r) ==
  /\ imp[r].at = "idle"
  /\ Goes(r, "client")
  /\ UNCHANGED <<world, jobs, session, result, repair, faults, history>>

\* A client that was not logged in gets no JSON: the worker raises on the list,
\* the portal finds no sketch and cannot create one.
Uses(w, auth) == IF auth = "good" THEN Goes(w, "list") /\ UNCHANGED result
                 ELSE Ends(w, "bad")

\* ts_client, getTsSession: the cached client, or a login when there is none or
\* its 3500 s have passed, which may be at any time.  Credentials that are
\* refused give a client all the same, since only the CSRF token is looked
\* for.  When the login fails the worker falls back on its old client.
ReuseClient(w) ==
  LET k == Kind(w) IN
  /\ imp[w].at = "client"
  /\ session[k] # "none" /\ Uses(w, session[k])
  /\ UNCHANGED <<world, jobs, session, repair, faults, history>>

Login(w) ==
  LET k == Kind(w) IN
  /\ imp[w].at = "client"
  /\ \/ /\ Right /\ Uses(w, "good")
        /\ session' = [session EXCEPT ![k] = "good"]
     \/ /\ Fault /\ Uses(w, "refused")
        /\ session' = [session EXCEPT ![k] = "refused"]
     \/ /\ Fault /\ UNCHANGED session
        /\ IF w = Worker THEN Uses(w, session[k]) ELSE Ends(w, "bad")
  /\ UNCHANGED <<world, jobs, repair, history>>

\* _fetch_all_sketch_objects goes through all pages, importToTimesketch asks
\* for one.
ListedFirstPage(w) == FirstPages  \* mutant: the worker, too, reads the first page only
Listed(w) == IF w = Worker THEN {DOMAIN sketches} ELSE FirstPages

FindSketch(w, page) ==
  LET hits == page \cap SketchOf(imp[w].of) IN
  \/ \E i \in hits : imp' = [imp EXCEPT ![w].at = "upload", ![w].sketch = i]
  \/ /\ hits = {}
     /\ imp' = [imp EXCEPT ![w].at = "create", ![w].listed = Len(sketches)]

\* An error of the list ends the worker's import; the portal, which accepts any
\* status, takes it for a list without sketches.
ListSketches(w) ==
  /\ imp[w].at = "list"
  /\ \/ /\ Right /\ UNCHANGED <<result, blinded>>
        /\ \E page \in Listed(w) : FindSketch(w, page)
     \/ Fault /\ Ends(w, "bad") /\ UNCHANGED blinded
     \/ /\ Fault /\ w # Worker /\ UNCHANGED result
        /\ FindSketch(w, {})
        /\ blinded' = blinded \cup {w}
  /\ UNCHANGED <<world, jobs, session, repair, ambiguous, again, hasty, pruned>>

Requested(w, late) == [case |-> CaseOf[imp[w].of], by |-> w,
                       listed |-> imp[w].listed, late |-> late]
NewSketch(w) == Append(sketches, Requested(w, FALSE))
\* The sketch is created, or it is while the answer is lost, or Timesketch refuses
\* it, or applies it after the time it is waited for (25 s, by the portal 10 s).
CreateSketch(w) ==
  /\ imp[w].at = "create"
  /\ \/ /\ Right /\ sketches' = NewSketch(w) /\ UNCHANGED <<pending, result>>
        /\ imp' = [imp EXCEPT ![w].at = "upload", ![w].sketch = Len(sketches) + 1]
     \/ /\ Fault /\ Ends(w, "bad")
        /\ \/ sketches' \in {sketches, NewSketch(w)} /\ UNCHANGED pending
           \/ pending' = pending \cup {Requested(w, TRUE)} /\ UNCHANGED sketches
  /\ UNCHANGED <<timelines, jobs, session, repair, history>>

\* External: Timesketch applies a creation that is no longer waited for.
CreateLate(p) ==
  /\ sketches' = Append(sketches, p)
  /\ pending' = pending \ {p}
  /\ UNCHANGED <<timelines, jobs, session, imp, result, repair, faults, history>>

NewTimeline(w) == Append(timelines, [sketch |-> imp[w].sketch, of |-> imp[w].of,
                                     state |-> "new"])
Doubtful(w) == ambiguous' = ambiguous \cup {imp[w].of}

TryAgainUncounted(w, reply) ==  \* mutant: the attempts are not counted
  imp' = [imp EXCEPT ![w].answered = @ \/ reply] /\ UNCHANGED result
\* _retry_request: another attempt, or the last answer, or none at all.
TryAgain(w, reply) ==
  LET answered == imp[w].answered \/ reply IN
  IF imp[w].tries + 1 < Retries
  THEN /\ imp' = [imp EXCEPT ![w].tries = @ + 1, ![w].answered = answered]
       /\ UNCHANGED result
  ELSE IF answered THEN Goes(w, "fallback") /\ UNCHANGED result
       ELSE Ends(w, "bad")

\* upload_csv_timeline: one attempt of the worker.
PostCsv ==
  LET w == Worker IN
  /\ imp[w].at = "upload" /\ imp[w].of \notin Rowless
  /\ \/ /\ Right /\ timelines' = NewTimeline(w)
        /\ imp' = [imp EXCEPT ![w].at = "fallback", ![w].uploaded = TRUE,
                              ![w].timeline = Len(timelines) + 1]
        /\ UNCHANGED <<result, ambiguous>>
     \/ /\ Fault /\ timelines' = NewTimeline(w) /\ Doubtful(w)   \* answer unreadable
        /\ imp' = [imp EXCEPT ![w].at = "fallback", ![w].uploaded = TRUE]
        /\ UNCHANGED result
     \/ /\ Fault /\ timelines' = NewTimeline(w) /\ Doubtful(w)   \* answer lost, or 5xx
        /\ \E reply \in BOOLEAN : TryAgain(w, reply)
     \/ /\ Fault /\ UNCHANGED <<timelines, ambiguous>>           \* no answer, or 5xx
        /\ \E reply \in BOOLEAN : TryAgain(w, reply)
     \/ /\ Fault /\ Goes(w, "fallback")                          \* 4xx
        /\ UNCHANGED <<timelines, result, ambiguous>>
  /\ UNCHANGED <<sketches, pending, jobs, session, repair, again, hasty, blinded, pruned>>

\* A CSV that validate_timesketch_csv refuses is not uploaded.
SkipCsv ==
  /\ imp[Worker].at = "upload" /\ imp[Worker].of \in Rowless
  /\ Goes(Worker, "fallback")
  /\ UNCHANGED <<world, jobs, session, result, repair, faults, history>>

\* importToTimesketch posts once; a 400 with a "meta" counts as a success.
PostReport(r) ==
  /\ imp[r].at = "upload"
  /\ \/ Right /\ timelines' = NewTimeline(r) /\ Ends(r, "ok") /\ UNCHANGED ambiguous
     \/ Fault /\ timelines' = NewTimeline(r) /\ Ends(r, "bad") /\ Doubtful(r)
     \/ /\ Fault /\ UNCHANGED <<timelines, ambiguous>>
        /\ \E answer \in {"ok", "bad"} : Ends(r, answer)
  /\ UNCHANGED <<sketches, pending, jobs, session, repair, again, hasty, blinded, pruned>>

-----------------------------------------------------------------------------
\* The worker after the CSV.

FallbackAlways(f) == Plaso /\ f \in Evtx  \* mutant: the test of the CSV's outcome is lost
FallbackNeeded(f) ==
  /\ Plaso /\ f \in Evtx
  /\ ~imp[Worker].uploaded \/ imp[Worker].timeline = 0 \/ f \in Short \cup Rowless

\* A fallback that is not needed, or a log2timeline that fails, leaves it at that.
Fallback ==
  /\ imp[Worker].at = "fallback"
  /\ \/ Goes(Worker, "wait")
     \/ FallbackNeeded(imp[Worker].of) /\ Goes(Worker, "plaso")
  /\ UNCHANGED <<world, jobs, session, result, repair, faults, history>>

PlasoPosted(ok, t) ==
  imp' = [imp EXCEPT ![Worker].at = "plasoWait", ![Worker].uploaded = ok,
                     ![Worker].timeline = t]
PostPlaso ==
  /\ imp[Worker].at = "plaso"
  /\ \/ /\ Right /\ timelines' = NewTimeline(Worker)
        /\ PlasoPosted(TRUE, Len(timelines) + 1) /\ UNCHANGED <<result, ambiguous>>
     \/ /\ Fault /\ timelines' = NewTimeline(Worker) /\ Doubtful(Worker)
        /\ \/ Ends(Worker, "bad")
           \/ PlasoPosted(TRUE, 0) /\ UNCHANGED result
     \/ /\ Fault /\ UNCHANGED <<timelines, ambiguous>>
        /\ \/ Ends(Worker, "bad")
           \/ PlasoPosted(FALSE, 0) /\ UNCHANGED result
  /\ UNCHANGED <<sketches, pending, jobs, session, repair, again, hasty, blinded, pruned>>

\* wait_timeline_ready: TRUE once the timeline is ready with documents, FALSE
\* when it failed or the time is over, which a lost answer may bring about.
State(t) == IF t \in DOMAIN timelines THEN timelines[t].state ELSE "deleted"
WaitForEver(ready) ==  \* mutant: the wait has no deadline
  LET s == State(imp[Worker].timeline) IN
  /\ Right /\ UNCHANGED hasty /\ (IF ready THEN s = "ready" ELSE s = "fail")
Waited(ready) ==
  LET s == State(imp[Worker].timeline) IN
  \/ ready /\ s = "ready" /\ Right /\ UNCHANGED hasty
  \/ /\ ~ready /\ (IF s = "ready" THEN Fault ELSE Right)
     /\ hasty' = IF s \in {"new", "filling"} THEN hasty \cup {imp[Worker].of} ELSE hasty

WaitPlaso ==
  /\ imp[Worker].at = "plasoWait"
  /\ \E ready \in BOOLEAN :
       /\ Waited(ready)
       /\ imp' = [imp EXCEPT ![Worker].at = "wait", ![Worker].ready = ready,
                             ![Worker].uploaded = @ /\ ready]
  /\ UNCHANGED <<world, jobs, session, result, repair, ambiguous, again, blinded, pruned>>

WaitReady ==
  /\ imp[Worker].at = "wait"
  /\ IF imp[Worker].timeline = 0 \/ imp[Worker].ready
     THEN Goes(Worker, "verify") /\ Right /\ UNCHANGED hasty
     ELSE \E ready \in BOOLEAN :
            /\ Waited(ready)
            /\ imp' = [imp EXCEPT ![Worker].at = "verify", ![Worker].ready = ready]
  /\ UNCHANGED <<world, jobs, session, result, repair, ambiguous, again, blinded, pruned>>

\* verify_sketch_explore: no timeline of the sketch has failed or is empty, and
\* the sketch has events.  One bad timeline speaks against every file of the case.
Explorable(i) ==
  /\ \E t \in Live(i) : timelines[t].state = "ready"
  /\ \A t \in Live(i) : timelines[t].state \in {"filling", "ready"}
UploadedVerdict == imp[Worker].uploaded  \* mutant: ok is the upload's outcome alone
UnwaitedVerdict == imp[Worker].uploaded /\ Explorable(imp[Worker].sketch)  \* mutant: "ready" left out of ok
Verdict == imp[Worker].uploaded /\ imp[Worker].ready /\ Explorable(imp[Worker].sketch)

Verify ==
  /\ imp[Worker].at = "verify"
  /\ \/ /\ Right /\ UNCHANGED result
        /\ imp' = [imp EXCEPT ![Worker].at = "report", ![Worker].ready = Verdict]
     \/ Fault /\ Ends(Worker, "bad")
  /\ hasty' = IF \E t \in Live(imp[Worker].sketch) : timelines[t].state \in {"new", "filling"}
              THEN hasty \cup {imp[Worker].of} ELSE hasty
  /\ UNCHANGED <<world, jobs, session, repair, ambiguous, again, blinded, pruned>>

Record ==
  /\ imp[Worker].at = "report"
  /\ Ends(Worker, IF imp[Worker].ready THEN "ok" ELSE "bad")
  /\ UNCHANGED <<world, jobs, session, repair, faults, history>>

\* The worker's container restarts: job and client are gone.
WorkerCrash ==
  /\ Fault
  /\ imp' = [imp EXCEPT ![Worker] = Begun(Worker, "idle")]
  /\ session' = [session EXCEPT !["worker"] = "none"]
  /\ UNCHANGED <<world, jobs, result, repair, history>>

-----------------------------------------------------------------------------
\* Timesketch indexes a timeline.
Outcomes == [new |-> {"filling", "empty", "fail"}, filling |-> {"ready", "fail"}]
Index(t) ==
  /\ timelines[t].state \in DOMAIN Outcomes
  /\ \E s \in Outcomes[timelines[t].state] : timelines' = [timelines EXCEPT ![t].state = s]
  /\ UNCHANGED <<sketches, pending, jobs, session, imp, result, repair, faults, history>>

-----------------------------------------------------------------------------
\* The repair script, one pass.

\* Its list of sketches is one page; the timelines are read sketch by sketch.
RepairStart ==
  /\ repair.at = "idle" /\ repair.passes < MaxRepairs
  /\ \E page \in FirstPages :
       repair' = [at |-> "pruning", unread |-> page, left |-> {},
                  doomed |-> 0, passes |-> repair.passes + 1]
  /\ UNCHANGED <<world, jobs, session, imp, result, faults, history>>

RepairRead(i) ==
  /\ repair.at = "pruning" /\ repair.left = {} /\ i \in repair.unread
  /\ repair' = [repair EXCEPT !.unread = @ \ {i}, !.left = Live(i)]
  /\ UNCHANGED <<world, jobs, session, imp, result, faults, history>>

\* A count that OpenSearch does not answer is a count of zero.
Broken(t) == timelines[t].state \in {"new", "empty", "fail"}
RepairLook(t) ==
  /\ repair.at = "pruning" /\ repair.doomed = 0 /\ t \in repair.left
  /\ \/ Broken(t) /\ Right /\ repair' = [repair EXCEPT !.doomed = t]
     \/ ~Broken(t) /\ Right /\ repair' = [repair EXCEPT !.left = @ \ {t}]
     \/ ~Broken(t) /\ Fault /\ repair' = [repair EXCEPT !.doomed = t]
  /\ UNCHANGED <<world, jobs, session, imp, result, history>>

\* DELETE, whose answer is ignored.
RepairDelete ==
  LET t == repair.doomed IN
  /\ t # 0
  /\ repair' = [repair EXCEPT !.doomed = 0, !.left = @ \ {t}]
  /\ \/ /\ Right /\ timelines' = [timelines EXCEPT ![t].state = "deleted"]
        /\ pruned' = IF timelines[t].state = "ready"
                     THEN pruned \cup {timelines[t].of} ELSE pruned
     \/ Fault /\ UNCHANGED <<timelines, pruned>>
  /\ UNCHANGED <<sketches, pending, jobs, session, imp, result, ambiguous, again, hasty, blinded>>

\* An upload whose import did not end well is queued again.
RepairRequeue ==
  /\ repair.at = "pruning" /\ repair.unread \cup repair.left = {}
  /\ repair' = [repair EXCEPT !.at = "idle"]
  /\ jobs' = [f \in Files |-> jobs[f] + IF result[f] = "bad" THEN 1 ELSE 0]
  /\ UNCHANGED <<world, session, imp, result, faults, history>>

RepairAbort ==
  /\ repair.at = "pruning" /\ Fault
  /\ repair' = [repair EXCEPT !.at = "idle", !.unread = {}, !.left = {}, !.doomed = 0]
  /\ UNCHANGED <<world, jobs, session, imp, result, history>>

-----------------------------------------------------------------------------
Reach(w) == ReuseClient(w) \/ Login(w) \/ ListSketches(w) \/ CreateSketch(w)
WorkerStep ==
  \/ \E f \in Files : TakeJob(f)
  \/ Reach(Worker) \/ PostCsv \/ SkipCsv \/ Fallback \/ PostPlaso
  \/ WaitPlaso \/ WaitReady \/ Verify \/ Record
ReportStep(r) == Reach(r) \/ PostReport(r)
RepairStep ==
  \/ RepairStart \/ RepairDelete \/ RepairRequeue \/ RepairAbort
  \/ \E i \in repair.unread : RepairRead(i)
  \/ \E t \in repair.left : RepairLook(t)

Next ==
  \/ WorkerStep \/ WorkerCrash \/ RepairStep
  \/ \E r \in Reports : Export(r) \/ ReportStep(r)
  \/ \E p \in pending : CreateLate(p)
  \/ \E t \in DOMAIN timelines : Index(t)

Spec == Init /\ [][Next]_vars
FairSpec == Spec /\ WF_vars(WorkerStep) /\ \A r \in Reports : WF_vars(ReportStep(r))

-----------------------------------------------------------------------------
\* Types.
Sketch == [case : Cases, by : Importers, listed : Nat, late : BOOLEAN]
TypeOK ==
  /\ sketches \in Seq(Sketch) /\ pending \subseteq Sketch
  /\ timelines \in Seq([sketch : Nat, of : Items, state : TimelineStates])
  /\ jobs \in [Files -> Nat]
  /\ session \in [Sessions -> Clients]
  /\ imp \in [Importers -> Import]
  /\ result \in [Items -> {"none", "ok", "bad"}]
  /\ repair \in [at : {"idle", "pruning"}, unread : SUBSET Nat, left : SUBSET Nat,
                 doomed : Nat, passes : Nat]
  /\ faults \in Nat
  /\ ambiguous \subseteq Items /\ again \subseteq Files /\ hasty \subseteq Files
  /\ blinded \subseteq Reports /\ pruned \subseteq Items

\* A case has a second sketch only when two importers overlapped (the second
\* listed before the first was there), or the portal's one page did not show the
\* first, or its list was an error; and one importer creates it twice only when a
\* creation it no longer waited for was applied all the same (get_or_create_sketch,
\* importToTimesketch).
SketchPerCase ==
  \A i, j \in DOMAIN sketches :
    (i < j /\ sketches[i].case = sketches[j].case) =>
      /\ sketches[i].by # sketches[j].by \/ sketches[i].late \/ sketches[j].late
      /\ \/ sketches[j].listed < i
         \/ sketches[j].by \in Reports
            /\ (sketches[j].listed > PageSize \/ sketches[j].by \in blinded)

\* A file has one timeline, unless an upload of it was accepted without a
\* usable answer, it was imported again, or it is a short EVTX that is also
\* uploaded as Plaso (import_to_timesketch, _retry_request).
OneTimelinePerFile ==
  \A f \in Files \ (ambiguous \cup again) :
    ~(Plaso /\ f \in Evtx \cap Short) =>
      Cardinality({t \in DOMAIN timelines : timelines[t].of = f}) <= 1

\* An upload shown as imported has a timeline with events in a sketch of its
\* case, unless the repair deleted a ready timeline of it.
OkIsBacked ==
  \A f \in Files \ pruned : result[f] = "ok" =>
    \E t \in DOMAIN timelines :
      /\ timelines[t].of = f /\ timelines[t].state = "ready"
      /\ sketches[timelines[t].sketch].case = CaseOf[f]

\* Without incident or repair, an import that did not end well has a file that
\* gave no row, a timeline of the sketch that is bad, or a wait that was too short.
BadIsExplained ==
  \A f \in Files : (result[f] = "bad" /\ faults = 0 /\ repair.passes = 0) =>
    \/ f \in Rowless \cup hasty
    \/ \E t \in DOMAIN timelines :
         /\ timelines[t].state \in {"empty", "fail"}
         /\ sketches[timelines[t].sketch].case = CaseOf[f]

\* How far an import is from its end: the calls ahead of it, and the attempts
\* its upload has left.
CallsAhead ==
  [client |-> 10, list |-> 9, create |-> 8, upload |-> 7, fallback |-> 6,
   plaso |-> 5, plasoWait |-> 4, wait |-> 3, verify |-> 2, report |-> 1]
Distance(i) ==
  IF i.at \in {"idle", "done"} THEN 0 ELSE CallsAhead[i.at] + (Retries - i.tries)

\* An import only goes forward, and attempts its upload at most Retries times,
\* through faults, fallbacks, crashes and sketches found or not: whatever an
\* importer does, a wait it repeats its reads in being one thing it does, brings
\* the import it has begun nearer to its end.
ImportsAdvance ==
  [][\A w \in Importers : imp'[w] = imp[w] \/ imp[w].at = "idle"
       \/ Distance(imp'[w]) \in 0 .. Distance(imp[w]) - 1]_vars

\* Every job is taken and every import begun ends, whatever Timesketch does,
\* since each of its waits has a deadline.
ImportsEnd ==
  /\ \A f \in Files : jobs[f] > 0 ~> jobs[f] = 0
  /\ \A w \in Importers : imp[w].at \notin {"idle", "done"} ~> imp[w].at \in {"idle", "done"}
=============================================================================
