----------------------- MODULE TimesketchImportProofs -----------------------
(***************************************************************************)
(* Proofs about TimesketchImport, for every set of files and reports and   *)
(* every bound on faults and repairs.                                      *)
(***************************************************************************)
EXTENDS TimesketchImport, SequenceTheorems, FiniteSetTheorems, TLAPS

Repairs == [at : {"idle", "pruning"}, unread : SUBSET Nat, left : SUBSET Nat,
            doomed : Nat, passes : Nat]
Timeline == [sketch : Nat, of : Items, state : TimelineStates]
Sketchless == {"idle", "client", "list", "create", "done"}
ReportPlaces == {"idle", "client", "list", "create", "upload", "done"}

\* Files the count of timelines makes an exception for.
Covered(f) == f \in ambiguous \cup again \/ (Plaso /\ f \in Evtx \cap Short)
Without(f) == \A t \in DOMAIN timelines : timelines[t].of # f
Backed(f) == \E t \in DOMAIN timelines :
               /\ timelines[t].of = f /\ timelines[t].state = "ready"
               /\ sketches[timelines[t].sketch].case = CaseOf[f]
Blamed(f) == \/ f \in Rowless \cup hasty
             \/ \E t \in DOMAIN timelines :
                  /\ timelines[t].state \in {"empty", "fail"}
                  /\ sketches[timelines[t].sketch].case = CaseOf[f]
Calm == faults = 0 /\ repair.passes = 0

(***************************************************************************)
(* What is known of importer w while its import is x.                      *)
(***************************************************************************)
Who(w, x) ==
  /\ x \in Import
  /\ w \in Reports => x.of = w /\ x.at \in ReportPlaces
  /\ w = Worker => /\ x.at # "done"
                   /\ x.at = "idle" => x.of = Worker
                   /\ x.at # "idle" => x.of \in Files

Placed(w, x) ==
  x.at \notin Sketchless => /\ x.sketch \in DOMAIN sketches
                            /\ sketches[x.sketch].case = CaseOf[x.of]

\* Before it creates a sketch, an importer has missed those it did not see.
Unseen(w, x) ==
  /\ w \in Reports /\ x.at \in {"idle", "client", "list", "create"} =>
       \A i \in DOMAIN sketches : sketches[i].by # w \/ sketches[i].late
  /\ x.at = "create" =>
       /\ x.listed <= Len(sketches)
       /\ \A i \in DOMAIN sketches : sketches[i].case = CaseOf[x.of] =>
            /\ sketches[i].by # w \/ sketches[i].late
            /\ \/ x.listed < i
               \/ w \in Reports /\ (x.listed > PageSize \/ w \in blinded)

\* So has one whose creation is still to be applied.
PendingOK == \A p \in pending :
  /\ p.late /\ p.listed <= Len(sketches)
  /\ \A i \in DOMAIN sketches : sketches[i].case = p.case =>
       p.listed < i \/ (p.by \in Reports /\ (p.listed > PageSize \/ p.by \in blinded))

Held(w, x) ==
  x.timeline # 0 => /\ x.at \notin Sketchless
                    /\ x.timeline \in DOMAIN timelines
                    /\ timelines[x.timeline].of = x.of
                    /\ timelines[x.timeline].sketch = x.sketch

\* Before its upload a file has no timeline, nor while a fallback is needed.
First(w, x) ==
  (w = Worker /\ x.at # "idle" /\ ~Covered(x.of)) =>
    /\ x.at \in {"client", "list", "create", "upload", "plaso"} => Without(x.of)
    /\ x.at = "fallback" =>
         (x.uploaded /\ x.timeline # 0 /\ x.of \notin Rowless) \/ Without(x.of)

Proven(w, x) ==
  (w = Worker /\ x.ready) =>
    /\ x.at \in {"wait", "verify", "report"}
    /\ x.of \in pruned \/ Backed(x.of)

\* Without incident, an import that is not well has something to blame.
Guiltless(w, x) ==
  (w = Worker /\ Calm) =>
    /\ x.at = "fallback" => x.of \in Rowless \/ (x.uploaded /\ x.timeline # 0)
    /\ x.at = "plasoWait" => x.uploaded /\ x.timeline # 0
    /\ x.at = "wait" =>
         \/ Blamed(x.of)
         \/ x.uploaded /\ x.timeline # 0 /\ (x.ready => State(x.timeline) = "ready")
    /\ x.at = "verify" =>
         \/ Blamed(x.of)
         \/ x.uploaded /\ x.ready /\ x.timeline # 0 /\ State(x.timeline) = "ready"
    /\ x.at = "report" => Blamed(x.of) \/ x.ready

ImportOK(w, x) ==
  Who(w, x) /\ Placed(w, x) /\ Unseen(w, x) /\ Held(w, x) /\ First(w, x)
    /\ Proven(w, x) /\ Guiltless(w, x)

(***************************************************************************)
(* The inductive invariant                                                 *)
(***************************************************************************)
TimelinesOK == \A t \in DOMAIN timelines :
  /\ timelines[t].sketch \in DOMAIN sketches
  /\ sketches[timelines[t].sketch].case = CaseOf[timelines[t].of]
OneEach == \A f \in Files : ~Covered(f) =>
  \A t, u \in DOMAIN timelines : timelines[t].of = f /\ timelines[u].of = f => t = u
RepairOK ==
  /\ repair.left \subseteq DOMAIN timelines
  /\ repair.doomed \in repair.left \cup {0}
  /\ repair.at = "idle" => repair.left = {}
CalmWorld == Calm =>
  /\ \A t \in DOMAIN timelines : timelines[t].state # "deleted"
  /\ repair.at = "idle"
  /\ \A k \in Sessions : session[k] # "refused"

World == /\ TimelinesOK /\ PendingOK /\ SketchPerCase /\ OneEach /\ OkIsBacked /\ BadIsExplained
         /\ RepairOK /\ CalmWorld
IInv == TypeOK /\ World /\ \A w \in Importers : ImportOK(w, imp[w])

-----------------------------------------------------------------------------
(***************************************************************************)
(* The sequences grow at their end                                         *)
(***************************************************************************)
LEMMA Appended ==
  ASSUME NEW S, NEW s \in Seq(S), NEW e \in S
  PROVE  /\ Append(s, e) \in Seq(S)
         /\ Len(s) \in Nat
         /\ DOMAIN s = 1 .. Len(s)
         /\ Len(Append(s, e)) = Len(s) + 1
         /\ DOMAIN Append(s, e) = 1 .. Len(s) + 1
         /\ \A i \in 1 .. Len(s) : Append(s, e)[i] = s[i] /\ s[i] \in S
         /\ Append(s, e)[Len(s) + 1] = e
  BY AppendProperties, LenProperties, ElementOfSeq

LEMMA Typed ==
  ASSUME TypeOK
  PROVE  /\ sketches \in Seq(Sketch) /\ timelines \in Seq(Timeline)
         /\ pending \subseteq Sketch /\ Len(sketches) \in Nat /\ DOMAIN sketches = 1 .. Len(sketches)
         /\ Len(timelines) \in Nat /\ DOMAIN timelines = 1 .. Len(timelines)
         /\ \A i \in DOMAIN sketches : sketches[i] \in Sketch
         /\ \A t \in DOMAIN timelines : timelines[t] \in Timeline
         /\ \A w \in Importers : imp[w] \in Import
<1>1. sketches \in Seq(Sketch) /\ timelines \in Seq(Timeline)
  BY DEF TypeOK, Sketch, Timeline
<1>2. QED
  BY <1>1, LenProperties, ElementOfSeq DEF TypeOK

\* What a step of importer w does to the world.
Step(w) ==
  /\ \/ UNCHANGED sketches
     \/ imp[w].at = "create" /\ sketches' = NewSketch(w)
  /\ \/ UNCHANGED pending
     \/ /\ imp[w].at = "create" /\ pending' = pending \cup {Requested(w, TRUE)}
        /\ UNCHANGED sketches
  /\ \/ UNCHANGED timelines
     \/ imp[w].at \in {"upload", "plaso"} /\ timelines' = NewTimeline(w)
  /\ UNCHANGED <<repair, pruned>> /\ faults <= faults'
  /\ ambiguous \subseteq ambiguous' /\ again \subseteq again'
  /\ hasty \subseteq hasty' /\ blinded \subseteq blinded'
  /\ faults' = 0 => \A k \in Sessions : session'[k] \in {session[k], "good", "none"}
  /\ \A f \in Files :
       \/ result'[f] = result[f]
       \/ result'[f] = "ok" /\ (f \in pruned \/ Backed(f))
       \/ result'[f] = "bad" /\ (faults' > 0 \/ (Calm => Blamed(f)))

LEMMA SketchesGrow ==
  ASSUME IInv, NEW w \in Importers, Step(w)
  PROVE  /\ sketches' \in Seq(Sketch)
         /\ DOMAIN sketches \subseteq DOMAIN sketches'
         /\ Len(sketches) <= Len(sketches')
         /\ \A i \in DOMAIN sketches : sketches'[i] = sketches[i]
         /\ \A i \in DOMAIN sketches' \ DOMAIN sketches :
              /\ imp[w].at = "create" /\ i = Len(sketches) + 1
              /\ sketches'[i] = [case |-> CaseOf[imp[w].of], by |-> w,
                                 listed |-> imp[w].listed, late |-> FALSE]
<1> USE CaseAssumption, ItemAssumption
<1>1. CASE UNCHANGED sketches
  BY <1>1, Typed DEF IInv
<1>2. CASE imp[w].at = "create" /\ sketches' = NewSketch(w)
  <2> DEFINE e == [case |-> CaseOf[imp[w].of], by |-> w,
                   listed |-> imp[w].listed, late |-> FALSE]
  <2>1. imp[w].of \in Items /\ imp[w].listed \in Nat
    BY <1>2 DEF IInv, ImportOK, Who, Import, Items, Importers
  <2>2. e \in Sketch
    BY <2>1 DEF Sketch, Items
  <2>3. sketches' = Append(sketches, e)
    BY <1>2 DEF NewSketch, Requested
  <2>4. QED
    BY <2>2, <2>3, <1>2, Typed, Appended DEF IInv
<1>3. QED
  BY <1>1, <1>2 DEF Step

LEMMA PendingGrow ==
  ASSUME IInv, NEW w \in Importers, Step(w)
  PROVE  PendingOK' /\ pending' \subseteq Sketch
<1> USE CaseAssumption, ItemAssumption
<1> DEFINE Missed(p) ==
      /\ p.late /\ p.listed <= Len(sketches)
      /\ \A i \in DOMAIN sketches : sketches[i].case = p.case =>
           p.listed < i \/ (p.by \in Reports /\ (p.listed > PageSize \/ p.by \in blinded))
<1>1. /\ pending \subseteq Sketch /\ Len(sketches) \in Nat
      /\ Len(sketches') \in Nat /\ Len(sketches) <= Len(sketches')
      /\ blinded \subseteq blinded'
  BY Typed, SketchesGrow, LenProperties DEF IInv, Step
<1>2. ASSUME NEW p \in pending' \ pending PROVE p \in Sketch /\ Missed(p)
  <2>1. imp[w].at = "create" /\ p = Requested(w, TRUE)
    BY <1>2 DEF Step
  <2>2. imp[w].of \in Items /\ imp[w].listed \in Nat
    BY <2>1 DEF IInv, ImportOK, Who, Import, Items, Importers
  <2>3. /\ p \in Sketch /\ p.late /\ p.by = w
        /\ p.case = CaseOf[imp[w].of] /\ p.listed = imp[w].listed
    BY <2>1, <2>2 DEF Requested, Sketch
  <2>4. Unseen(w, imp[w])
    BY DEF IInv, ImportOK
  <2>5. QED
    BY <2>1, <2>3, <2>4 DEF Unseen
<1>3. \A p \in pending' : p \in Sketch /\ Missed(p)
  BY <1>1, <1>2 DEF IInv, World, PendingOK
<1>4. ASSUME NEW p \in pending', NEW i \in DOMAIN sketches', sketches'[i].case = p.case
      PROVE  p.listed < i \/ (p.by \in Reports /\ (p.listed > PageSize \/ p.by \in blinded'))
  <2>1. CASE i \in DOMAIN sketches
    BY <2>1, <1>1, <1>3, <1>4, SketchesGrow
  <2>2. CASE i \notin DOMAIN sketches
    <3>1. i = Len(sketches) + 1
      BY <2>2, SketchesGrow
    <3>2. p.listed \in Nat /\ p.listed <= Len(sketches)
      BY <1>3 DEF Sketch
    <3>3. QED
      BY <3>1, <3>2, <1>1
  <2>3. QED
    BY <2>1, <2>2
<1>5. ASSUME NEW p \in pending' PROVE p.late /\ p.listed <= Len(sketches')
  <2>1. p.listed \in Nat
    BY <1>3 DEF Sketch
  <2>2. QED
    BY <2>1, <1>1, <1>3
<1>6. QED
  BY <1>3, <1>4, <1>5 DEF PendingOK

LEMMA TimelinesGrow ==
  ASSUME IInv, NEW w \in Importers, Step(w)
  PROVE  /\ timelines' \in Seq(Timeline)
         /\ DOMAIN timelines \subseteq DOMAIN timelines'
         /\ Len(timelines) <= Len(timelines')
         /\ \A t \in DOMAIN timelines : timelines'[t] = timelines[t]
         /\ \A t \in DOMAIN timelines' \ DOMAIN timelines :
              /\ imp[w].at \in {"upload", "plaso"} /\ t = Len(timelines) + 1
              /\ timelines'[t] = [sketch |-> imp[w].sketch, of |-> imp[w].of, state |-> "new"]
<1> USE CaseAssumption, ItemAssumption
<1>1. CASE UNCHANGED timelines
  BY <1>1, Typed DEF IInv
<1>2. CASE imp[w].at \in {"upload", "plaso"} /\ timelines' = NewTimeline(w)
  <2> DEFINE e == [sketch |-> imp[w].sketch, of |-> imp[w].of, state |-> "new"]
  <2>1. imp[w].of \in Items /\ imp[w].sketch \in Nat
    BY <1>2 DEF IInv, ImportOK, Who, Import, Items, Importers
  <2>2. e \in Timeline
    BY <2>1 DEF Timeline, TimelineStates
  <2>3. timelines' = Append(timelines, e)
    BY <1>2 DEF NewTimeline
  <2>4. QED
    BY <2>2, <2>3, <1>2, Typed, Appended DEF IInv
<1>3. QED
  BY <1>1, <1>2 DEF Step

\* A step of an importer keeps what was true of the world.
LEMMA WorldKept ==
  ASSUME IInv, NEW w \in Importers, Step(w)
  PROVE  /\ World'
         /\ \A f \in Files : (Without(f) /\ imp[w].of # f) => Without(f)'
         /\ \A f \in Items : Backed(f) => Backed(f)'
         /\ \A f \in Items : (Calm' /\ Blamed(f)) => Blamed(f)'
         /\ \A f \in Files : ~Covered(f)' => ~Covered(f)
         /\ Calm' => Calm
<1> USE CaseAssumption, ItemAssumption, BoundAssumption
<1> DEFINE J == DOMAIN sketches
<1> DEFINE T == DOMAIN timelines
<1>1. /\ J \subseteq DOMAIN sketches' /\ T \subseteq DOMAIN timelines'
      /\ \A i \in J : sketches'[i] = sketches[i]
      /\ \A t \in T : timelines'[t] = timelines[t]
  BY SketchesGrow, TimelinesGrow
<1>2. ImportOK(w, imp[w]) /\ w \in Importers /\ imp[w].of \in Items \cup {Worker}
  BY DEF IInv, ImportOK, Who, Import
<1>3. Calm' => Calm
  BY Typed DEF Step, Calm, IInv, TypeOK
<1>4. \A f \in Files : ~Covered(f)' => ~Covered(f)
  BY DEF Covered, Step
<1>5. TimelinesOK'
  <2> SUFFICES ASSUME NEW t \in DOMAIN timelines'
               PROVE  /\ timelines'[t].sketch \in DOMAIN sketches'
                      /\ sketches'[timelines'[t].sketch].case = CaseOf[timelines'[t].of]
    BY DEF TimelinesOK
  <2>1. CASE t \in T
    BY <1>1, <2>1 DEF IInv, World, TimelinesOK
  <2>2. CASE t \notin T
    <3>1. imp[w].at \notin Sketchless /\ timelines'[t].sketch = imp[w].sketch /\ timelines'[t].of = imp[w].of
      BY <2>2, TimelinesGrow DEF Sketchless
    <3>2. QED
      BY <3>1, <1>1, <1>2 DEF ImportOK, Placed
  <2>3. QED
    BY <2>1, <2>2
<1>6. ASSUME NEW f \in Files, Without(f), imp[w].of # f PROVE Without(f)'
  BY <1>1, <1>6, TimelinesGrow DEF Without
<1>7. ASSUME NEW f \in Items, Backed(f) PROVE Backed(f)'
  BY <1>1, <1>7 DEF Backed, IInv, World, TimelinesOK
<1>8. ASSUME NEW f \in Items, Calm', Blamed(f) PROVE Blamed(f)'
  BY <1>1, <1>8 DEF Blamed, IInv, World, TimelinesOK, Step
<1>9. SketchPerCase'
  <2> SUFFICES ASSUME NEW i \in DOMAIN sketches', NEW j \in DOMAIN sketches', i < j,
                      sketches'[i].case = sketches'[j].case
               PROVE  /\ sketches'[i].by # sketches'[j].by
                         \/ sketches'[i].late \/ sketches'[j].late
                      /\ \/ sketches'[j].listed < i
                         \/ sketches'[j].by \in Reports
                            /\ (sketches'[j].listed > PageSize \/ sketches'[j].by \in blinded')
    BY DEF SketchPerCase
  <2>1. CASE j \in J
    <3>1. i \in J
      BY <2>1, Typed, SketchesGrow DEF IInv
    <3>2. QED
      BY <2>1, <3>1, <1>1 DEF IInv, World, SketchPerCase, Step
  <2>2. CASE j \notin J
    <3>1. /\ imp[w].at = "create" /\ j = Len(sketches) + 1
          /\ sketches'[j] = [case |-> CaseOf[imp[w].of], by |-> w,
                             listed |-> imp[w].listed, late |-> FALSE]
      BY <2>2, SketchesGrow
    <3>2. i \in J
      BY <3>1, Typed, SketchesGrow DEF IInv
    <3>3. sketches[i].case = CaseOf[imp[w].of]
      BY <3>1, <3>2, <1>1
    <3>4. QED
      BY <3>1, <3>2, <3>3, <1>1, <1>2 DEF ImportOK, Unseen, Step
  <2>3. QED
    BY <2>1, <2>2
<1>10. OneEach'
  <2> SUFFICES ASSUME NEW f \in Files, ~Covered(f)', NEW t \in DOMAIN timelines', NEW u \in DOMAIN timelines',
                      timelines'[t].of = f, timelines'[u].of = f
               PROVE  t = u
    BY DEF OneEach
  <2>1. CASE t \in T /\ u \in T
    BY <2>1, <1>1, <1>4 DEF IInv, World, OneEach
  <2>2. CASE t \notin T /\ u \notin T
    BY <2>2, TimelinesGrow
  <2>3. ASSUME NEW a \in T, NEW b \in DOMAIN timelines' \ T,
               timelines'[a].of = f, timelines'[b].of = f
        PROVE  FALSE
    <3>1. imp[w].of = f /\ imp[w].at \in {"upload", "plaso"}
      BY <2>3, TimelinesGrow
    <3>2. w = Worker
      BY <3>1, <1>2 DEF ImportOK, Who, Importers
    <3>3. Without(f)
      BY <3>1, <3>2, <1>2, <1>4 DEF ImportOK, First
    <3>4. QED
      BY <3>3, <2>3, <1>1 DEF Without
  <2>4. QED
    BY <2>1, <2>2, <2>3
<1>11. OkIsBacked'
  <2> SUFFICES ASSUME NEW f \in Files, f \notin pruned', result'[f] = "ok" PROVE Backed(f)'
    BY DEF OkIsBacked, Backed
  <2>1. Backed(f)
    BY DEF IInv, World, OkIsBacked, Step, Backed
  <2>2. QED
    BY <2>1, <1>7 DEF Items
<1>12. BadIsExplained'
  <2> SUFFICES ASSUME NEW f \in Files, result'[f] = "bad", Calm' PROVE Blamed(f)'
    BY DEF BadIsExplained, Blamed, Calm
  <2>1. Blamed(f)
    BY <1>3 DEF IInv, World, BadIsExplained, Step, Blamed, Calm
  <2>2. QED
    BY <2>1, <1>8 DEF Items
<1>13. RepairOK'
  BY <1>1 DEF Step, IInv, World, RepairOK
<1>14. CalmWorld'
  <2> SUFFICES ASSUME Calm'
               PROVE  /\ \A t \in DOMAIN timelines' : timelines'[t].state # "deleted"
                      /\ repair'.at = "idle"
                      /\ \A k \in Sessions : session'[k] # "refused"
    BY DEF CalmWorld
  <2>1. /\ \A t \in T : timelines[t].state # "deleted"
        /\ repair.at = "idle" /\ \A k \in Sessions : session[k] # "refused"
    BY <1>3 DEF IInv, World, CalmWorld
  <2>2. \A t \in DOMAIN timelines' : timelines'[t].state # "deleted"
    BY <1>1, <2>1, TimelinesGrow
  <2>3. repair'.at = "idle" /\ \A k \in Sessions : session'[k] # "refused"
    BY <2>1 DEF Step, Calm
  <2>4. QED
    BY <2>2, <2>3
<1>15. QED
  BY <1>3, <1>4, <1>5, <1>6, <1>7, <1>8, <1>9, <1>10, <1>11, <1>12, <1>13, <1>14,
     PendingGrow DEF World

\* A step of an importer leaves the others where they are.
LEMMA OthersKept ==
  ASSUME IInv, NEW w \in Importers, Step(w), NEW v \in Importers, v # w,
         NEW x, imp[v] = x
  PROVE  ImportOK(v, x)'
<1> USE CaseAssumption, ItemAssumption, BoundAssumption
<1>1. ImportOK(v, x) /\ ImportOK(w, imp[w])
  BY DEF IInv
<1>2. Who(v, x)'
  BY <1>1 DEF ImportOK, Who
<1>3. Placed(v, x)'
  BY <1>1, SketchesGrow DEF ImportOK, Placed
<1>4. Unseen(v, x)'
  <2>1. /\ Len(sketches) \in Nat /\ Len(sketches) <= Len(sketches')
        /\ \A i \in DOMAIN sketches : sketches'[i] = sketches[i]
        /\ \A i \in DOMAIN sketches' \ DOMAIN sketches :
             i = Len(sketches) + 1 /\ sketches'[i].by = w
        /\ Len(sketches') \in Nat /\ x.listed \in Nat
    <3>1. x \in Import /\ Len(sketches') \in Nat
      BY <1>1, SketchesGrow, LenProperties DEF ImportOK, Who
    <3>2. QED
      BY <3>1, SketchesGrow, Typed DEF IInv, Import
  <2>2. ASSUME v \in Reports, x.at \in {"idle", "client", "list", "create"},
               NEW i \in DOMAIN sketches'
        PROVE  sketches'[i].by # v \/ sketches'[i].late
    BY <2>1, <2>2, <1>1 DEF ImportOK, Unseen
  <2>3. ASSUME x.at = "create"
        PROVE  /\ x.listed <= Len(sketches')
               /\ \A i \in DOMAIN sketches' : sketches'[i].case = CaseOf[x.of] =>
                    /\ sketches'[i].by # v \/ sketches'[i].late
                    /\ \/ x.listed < i
                       \/ v \in Reports /\ (x.listed > PageSize \/ v \in blinded')
    <3>1. x.listed <= Len(sketches)
      BY <2>3, <1>1 DEF ImportOK, Unseen
    <3>2. ASSUME NEW i \in DOMAIN sketches', sketches'[i].case = CaseOf[x.of]
          PROVE  /\ sketches'[i].by # v \/ sketches'[i].late
                 /\ \/ x.listed < i
                    \/ v \in Reports /\ (x.listed > PageSize \/ v \in blinded')
      <4>1. CASE i \in DOMAIN sketches
        BY <4>1, <3>2, <2>1, <2>3, <1>1 DEF ImportOK, Unseen, Step
      <4>2. CASE i \notin DOMAIN sketches
        BY <4>2, <3>1, <2>1
      <4>3. QED
        BY <4>1, <4>2
    <3>3. QED
      BY <3>1, <3>2, <2>1
  <2>4. QED
    BY <2>2, <2>3 DEF Unseen
<1>5. Held(v, x)'
  <2>1. SUFFICES ASSUME x.timeline # 0
                 PROVE  /\ x.at \notin Sketchless
                        /\ x.timeline \in DOMAIN timelines'
                        /\ timelines'[x.timeline].of = x.of
                        /\ timelines'[x.timeline].sketch = x.sketch
    BY DEF Held
  <2>2. QED
    BY <2>1, <1>1, TimelinesGrow DEF ImportOK, Held
<1>6. First(v, x)'
  BY <1>1, WorldKept DEF ImportOK, First, Who, Importers
<1>7. Proven(v, x)'
  <2>1. SUFFICES ASSUME v = Worker, x.ready
                 PROVE  /\ x.at \in {"wait", "verify", "report"}
                        /\ (x.of \in pruned \/ Backed(x.of))'
    BY DEF Proven
  <2>2. x.at \in {"wait", "verify", "report"} /\ (x.of \in pruned \/ Backed(x.of))
    BY <2>1, <1>1 DEF ImportOK, Proven
  <2>3. x.of \in Items
    BY <2>1, <2>2, <1>1 DEF ImportOK, Who, Items
  <2>4. Backed(x.of) => Backed(x.of)'
    BY <2>3, WorldKept
  <2>5. QED
    BY <2>2, <2>4 DEF Step
<1>8. Guiltless(v, x)'
  <2>1. SUFFICES ASSUME v = Worker, Calm' PROVE Guiltless(v, x)'
    BY DEF Guiltless
  <2>2. \/ Calm /\ (Blamed(x.of) => Blamed(x.of)')
        \/ x.at = "idle"
    BY <2>1, <1>1, WorldKept DEF ImportOK, Who, Items
  <2>3. x.timeline # 0 => State(x.timeline)' = State(x.timeline)
    BY <1>1, TimelinesGrow DEF ImportOK, Held, State
  <2>4. QED
    BY <2>1, <2>2, <2>3, <1>1 DEF ImportOK, Guiltless
<1>9. QED
  BY <1>2, <1>3, <1>4, <1>5, <1>6, <1>7, <1>8 DEF ImportOK

-----------------------------------------------------------------------------
(***************************************************************************)
(* One lemma per action of an importer: what it does to the world is a     *)
(* Step, and its own import moves to one that is known of again.           *)
(***************************************************************************)
Kept == /\ jobs' \in [Files -> Nat] /\ session' \in [Sessions -> Clients]
        /\ result' \in [Items -> {"none", "ok", "bad"}] /\ faults' \in Nat
        /\ ambiguous' \subseteq Items /\ again' \subseteq Files
        /\ hasty' \subseteq Files /\ blinded' \subseteq Reports

LEMMA Moves ==
  ASSUME IInv, NEW w \in Importers, NEW y, Step(w), Kept,
         imp' = [imp EXCEPT ![w] = y], ImportOK(w, y)'
  PROVE  IInv'
<1>1. sketches' \in Seq(Sketch) /\ timelines' \in Seq(Timeline) /\ pending' \subseteq Sketch
  BY SketchesGrow, TimelinesGrow, PendingGrow
<1>2. imp' \in [Importers -> Import]
  BY DEF IInv, TypeOK, ImportOK, Who
<1>3. TypeOK'
  BY <1>1, <1>2 DEF TypeOK, IInv, Kept, Step, Sketch, Timeline
<1>4. ASSUME NEW v \in Importers PROVE ImportOK(v, imp[v])'
  <2>1. CASE v = w
    BY <2>1 DEF IInv, TypeOK
  <2>2. CASE v # w
    <3>1. imp'[v] = imp[v]
      BY <2>2 DEF IInv, TypeOK
    <3>2. QED
      BY <2>2, <3>1, OthersKept
  <2>3. QED
    BY <2>1, <2>2
<1>5. QED
  BY <1>3, <1>4, WorldKept DEF IInv

LEMMA Resting ==
  ASSUME NEW w \in Importers
  PROVE  Rest(w) \in Import /\ ImportOK(w, Rest(w))'
BY ItemAssumption DEF ImportOK, Rest, Begun, Import, Items, Importers, Who, Placed, Unseen,
     Held, First, Proven, Guiltless, Sketchless, Places, ReportPlaces

\* An import that ends.
LEMMA Ended ==
  ASSUME IInv, NEW w \in Importers, NEW verdict \in {"ok", "bad"}, Ends(w, verdict),
         imp[w].at # "idle",
         w = Worker => IF verdict = "ok" THEN imp[w].of \in pruned \/ Backed(imp[w].of)
                       ELSE faults' > 0 \/ (Calm => Blamed(imp[w].of))
  PROVE  /\ imp' = [imp EXCEPT ![w] = Rest(w)]
         /\ result' \in [Items -> {"none", "ok", "bad"}]
         /\ \A f \in Files :
              \/ result'[f] = result[f]
              \/ result'[f] = "ok" /\ (f \in pruned \/ Backed(f))
              \/ result'[f] = "bad" /\ (faults' > 0 \/ (Calm => Blamed(f)))
<1>1. ImportOK(w, imp[w])
  BY DEF IInv
<1>2. imp[w].of \in Items /\ (w = Worker \/ imp[w].of \notin Files)
  BY <1>1, ItemAssumption DEF ImportOK, Who, Importers, Items
<1>3. result' \in [Items -> {"none", "ok", "bad"}]
  BY <1>2 DEF Ends, IInv, TypeOK
<1>4. ASSUME NEW f \in Files
      PROVE  \/ result'[f] = result[f]
             \/ result'[f] = "ok" /\ (f \in pruned \/ Backed(f))
             \/ result'[f] = "bad" /\ (faults' > 0 \/ (Calm => Blamed(f)))
  <2>1. CASE f # imp[w].of
    BY <2>1, <1>2 DEF Ends, IInv, TypeOK, Items
  <2>2. CASE f = imp[w].of
    <3>1. w = Worker /\ result'[f] = verdict
      BY <2>2, <1>2 DEF Ends, IInv, TypeOK
    <3>2. CASE verdict = "ok"
      BY <3>1, <3>2, <2>2
    <3>3. CASE verdict = "bad"
      BY <3>1, <3>3, <2>2
    <3>4. QED
      BY <3>2, <3>3
  <2>3. QED
    BY <2>1, <2>2
<1>5. QED
  BY <1>3, <1>4 DEF Ends
LEMMA TakeJobStep ==
  ASSUME IInv, NEW f \in Files, TakeJob(f)
  PROVE  IInv'
<1> USE CaseAssumption, ItemAssumption
<1> DEFINE y == Begun(f, "client")
<1>1. Worker \in Importers /\ imp[Worker].at = "idle"
  BY DEF Importers, TakeJob
<1>2. Step(Worker)
  BY <1>1 DEF TakeJob, Step, world, IInv, TypeOK
<1>3. Kept
  BY DEF TakeJob, Kept, IInv, TypeOK
<1>4. Without(f) \/ f \in again'
  BY DEF TakeJob, Without
<1>5. ImportOK(Worker, y)'
  <2>1. Who(Worker, y)'
    BY DEF Who, Begun, Import, Places, Items
  <2>2. First(Worker, y)'
    BY <1>4 DEF First, Begun, Covered, Without, TakeJob, world
  <2>3. Placed(Worker, y)' /\ Unseen(Worker, y)' /\ Held(Worker, y)' /\ Proven(Worker, y)' /\ Guiltless(Worker, y)'
    BY DEF Placed, Unseen, Held, Proven, Guiltless, Begun, Sketchless, Items
  <2>4. QED
    BY <2>1, <2>2, <2>3 DEF ImportOK
<1>6. QED
  BY <1>1, <1>2, <1>3, <1>5, Moves DEF TakeJob

\* An importer that only moves on to the next place before it has a sketch.
LEMMA Approaching ==
  ASSUME IInv, NEW w \in Importers, NEW place \in {"client", "list"},
         NEW x, x = imp[w], NEW y, y = [x EXCEPT !.at = place],
         x.at \in {"client", "list"} \/ (w \in Reports /\ x.at = "idle"),
         UNCHANGED <<world, repair, pruned>>,
         ambiguous \subseteq ambiguous', again \subseteq again'
  PROVE  ImportOK(w, y)'
<1> USE ItemAssumption
<1>1. ImportOK(w, x) /\ x \in Import
  BY DEF IInv, ImportOK, Who
<1>2. /\ y \in Import /\ y.at = place /\ y.of = x.of /\ y.timeline = x.timeline
      /\ y.sketch = x.sketch /\ y.ready = x.ready
  BY <1>1 DEF Import, Places
<1>3. Who(w, y)'
  BY <1>1, <1>2 DEF ImportOK, Who, ReportPlaces, Items, Importers
<1>4. Placed(w, y)' /\ Unseen(w, y)'
  BY <1>1, <1>2 DEF ImportOK, Placed, Unseen, world, Sketchless, Importers, Items
<1>5. Held(w, y)'
  BY <1>1, <1>2 DEF ImportOK, Held, Sketchless
<1>6. First(w, y)'
  BY <1>1, <1>2 DEF ImportOK, First, Covered, Without, world, Items
<1>7. Proven(w, y)' /\ Guiltless(w, y)'
  BY <1>1, <1>2 DEF ImportOK, Proven, Guiltless, Items
<1>8. QED
  BY <1>3, <1>4, <1>5, <1>6, <1>7 DEF ImportOK

LEMMA ExportStep ==
  ASSUME IInv, NEW r \in Reports, Export(r)
  PROVE  IInv'
<1> PICK x : x = imp[r]
  OBVIOUS
<1> PICK y : y = [x EXCEPT !.at = "client"]
  OBVIOUS
<1>1. r \in Importers /\ imp[r].at = "idle"
  BY DEF Importers, Export
<1>2. Step(r) /\ Kept
  BY <1>1 DEF Export, Step, Kept, world, history, IInv, TypeOK
<1>3. ImportOK(r, y)'
  BY <1>1, Approaching DEF Export, history
<1>4. imp' = [imp EXCEPT ![r] = y]
  BY <1>1 DEF Export, Goes, IInv, TypeOK
<1>5. QED
  BY <1>1, <1>2, <1>3, <1>4, Moves
LEMMA UsesStep ==
  ASSUME IInv, NEW w \in Importers, NEW auth, Uses(w, auth), imp[w].at = "client",
         UNCHANGED <<world, jobs, repair, history>>,
         faults' \in Nat, faults <= faults',
         session' \in [Sessions -> Clients],
         faults' = 0 => \A k \in Sessions : session'[k] \in {session[k], "good", "none"},
         auth # "good" => faults' > 0 \/ ~Calm
  PROVE  IInv'
<1>1. CASE auth = "good"
  <2> PICK x : x = imp[w]
    OBVIOUS
  <2> PICK y : y = [x EXCEPT !.at = "list"]
    OBVIOUS
  <2>1. Step(w) /\ Kept
    BY <1>1 DEF Uses, Step, Kept, world, history, IInv, TypeOK
  <2>2. ImportOK(w, y)'
    BY Approaching DEF history
  <2>3. imp' = [imp EXCEPT ![w] = y]
    BY <1>1 DEF Uses, Goes, IInv, TypeOK
  <2>4. QED
    BY <2>1, <2>2, <2>3, Moves
<1>2. CASE auth # "good"
  <2>1. Ends(w, "bad")
    BY <1>2 DEF Uses
  <2>2. faults' > 0 \/ ~Calm
    BY <1>2
  <2>3. /\ imp' = [imp EXCEPT ![w] = Rest(w)]
        /\ result' \in [Items -> {"none", "ok", "bad"}]
        /\ \A f \in Files :
             \/ result'[f] = result[f]
             \/ result'[f] = "ok" /\ (f \in pruned \/ Backed(f))
             \/ result'[f] = "bad" /\ (faults' > 0 \/ (Calm => Blamed(f)))
    BY <2>1, <2>2, Ended
  <2>4. Step(w) /\ Kept
    BY <2>3 DEF Step, Kept, world, history, IInv, TypeOK
  <2>5. QED
    BY <2>3, <2>4, Resting, Moves
<1>3. QED
  BY <1>1, <1>2

LEMMA ReuseClientStep ==
  ASSUME IInv, NEW w \in Importers, ReuseClient(w)
  PROVE  IInv'
<1> DEFINE k == Kind(w)
<1>1. /\ k \in Sessions /\ session[k] # "none" /\ Uses(w, session[k]) /\ imp[w].at = "client"
      /\ UNCHANGED <<world, jobs, session, repair, faults, history>>
  BY DEF ReuseClient, Kind, Sessions
<1>2. session[k] # "good" => session[k] = "refused"
  BY <1>1 DEF IInv, TypeOK, Clients
<1>3. session[k] # "good" => ~Calm
  BY <1>1, <1>2 DEF IInv, World, CalmWorld
<1>4. faults' \in Nat /\ faults <= faults' /\ session' \in [Sessions -> Clients]
  BY <1>1 DEF IInv, TypeOK
<1>5. QED
  BY <1>1, <1>3, <1>4, UsesStep

LEMMA LoginStep ==
  ASSUME IInv, NEW w \in Importers, Login(w)
  PROVE  IInv'
<1> USE BoundAssumption
<1> DEFINE k == Kind(w)
<1>1. /\ k \in Sessions /\ imp[w].at = "client" /\ faults \in Nat
      /\ UNCHANGED <<world, jobs, repair, history>>
  BY DEF Login, Kind, Sessions, IInv, TypeOK
<1>2. CASE Right /\ Uses(w, "good") /\ session' = [session EXCEPT ![k] = "good"]
  <2>1. faults' \in Nat /\ faults <= faults' /\ session' \in [Sessions -> Clients]
    BY <1>1, <1>2 DEF Right, IInv, TypeOK, Clients
  <2>2. \A j \in Sessions : session'[j] \in {session[j], "good", "none"}
    BY <1>2 DEF IInv, TypeOK
  <2>3. QED
    BY <1>1, <1>2, <2>1, <2>2, UsesStep
<1>3. CASE Fault /\ Uses(w, "refused") /\ session' = [session EXCEPT ![k] = "refused"]
  <2>1. faults' \in Nat /\ faults' > 0 /\ faults <= faults' /\ session' \in [Sessions -> Clients]
    BY <1>1, <1>3 DEF Fault, IInv, TypeOK, Clients
  <2>2. QED
    BY <1>1, <1>3, <2>1, UsesStep
<1>4. ASSUME Fault, UNCHANGED session,
             IF w = Worker THEN Uses(w, session[k]) ELSE Ends(w, "bad")
      PROVE  IInv'
  <2>1. faults' \in Nat /\ faults' > 0 /\ faults <= faults' /\ session' \in [Sessions -> Clients]
    BY <1>1, <1>4 DEF Fault, IInv, TypeOK
  <2>2. CASE w = Worker
    BY <1>1, <1>4, <2>1, <2>2, UsesStep
  <2>3. CASE w # Worker
    <3>1. Uses(w, "refused")
      BY <1>4, <2>3 DEF Uses
    <3>2. QED
      BY <1>1, <1>4, <2>1, <3>1, UsesStep
  <2>4. QED
    BY <2>2, <2>3
<1>5. QED
  BY <1>2, <1>3, <1>4 DEF Login
\* The sketch is found, or every sketch of the case is one that was not shown.
LEMMA FindStep ==
  ASSUME IInv, NEW w \in Importers, NEW page, FindSketch(w, page), imp[w].at = "list",
         UNCHANGED <<world, jobs, session, repair, result, ambiguous, again, hasty, pruned>>,
         faults' \in Nat, faults <= faults', blinded \subseteq blinded', blinded' \subseteq Reports,
         \A i \in SketchOf(imp[w].of) :
           i \in page \/ (w \in Reports /\ (Len(sketches) > PageSize \/ w \in blinded'))
  PROVE  IInv'
<1> USE CaseAssumption, ItemAssumption
<1> PICK x : x = imp[w]
  OBVIOUS
<1>1. /\ ImportOK(w, x) /\ x \in Import /\ x.at = "list" /\ x.of \in Items
      /\ imp \in [Importers -> Import]
  BY DEF IInv, ImportOK, Who, Importers, Items, TypeOK
<1>2. Step(w) /\ Kept
  BY DEF Step, Kept, world, history, IInv, TypeOK
<1>3. Len(sketches) \in Nat /\ DOMAIN sketches = 1 .. Len(sketches)
  BY Typed DEF IInv
<1>4. ASSUME NEW i \in page \cap SketchOf(x.of), imp' = [imp EXCEPT ![w].at = "upload", ![w].sketch = i]
      PROVE  IInv'
  <2> PICK y : y = [x EXCEPT !.at = "upload", !.sketch = i]
    OBVIOUS
  <2>1. i \in Nat /\ i \in DOMAIN sketches /\ sketches[i].case = CaseOf[x.of]
    BY <1>3 DEF SketchOf
  <2>2. /\ y \in Import /\ y.at = "upload" /\ y.of = x.of /\ y.timeline = x.timeline
        /\ y.sketch = i /\ y.ready = x.ready
    BY <1>1, <2>1 DEF Import, Places
  <2>3. Who(w, y)' /\ Placed(w, y)' /\ Unseen(w, y)'
    BY <1>1, <2>1, <2>2 DEF ImportOK, Who, Placed, Unseen, world, ReportPlaces, Items, Importers
  <2>4. x.timeline = 0
    BY <1>1 DEF ImportOK, Held, Sketchless
  <2>5. Held(w, y)' /\ Proven(w, y)' /\ Guiltless(w, y)'
    BY <1>1, <2>2, <2>4 DEF ImportOK, Held, Proven, Guiltless
  <2>6. First(w, y)'
    BY <1>1, <2>2 DEF ImportOK, First, Covered, Without, world
  <2>7. ImportOK(w, y)'
    BY <2>3, <2>5, <2>6 DEF ImportOK
  <2>8. imp' = [imp EXCEPT ![w] = y]
    BY <1>4, <1>1
  <2>9. QED
    BY <1>2, <2>7, <2>8, Moves
<1>5. ASSUME page \cap SketchOf(x.of) = {},
             imp' = [imp EXCEPT ![w].at = "create", ![w].listed = Len(sketches)]
      PROVE  IInv'
  <2> PICK y : y = [x EXCEPT !.at = "create", !.listed = Len(sketches)]
    OBVIOUS
  <2>1. /\ y \in Import /\ y.at = "create" /\ y.of = x.of /\ y.timeline = x.timeline
        /\ y.listed = Len(sketches) /\ y.sketch = x.sketch /\ y.ready = x.ready
    BY <1>1, <1>3 DEF Import, Places
  <2>2. Who(w, y)' /\ Placed(w, y)'
    BY <1>1, <2>1 DEF ImportOK, Who, Placed, ReportPlaces, Sketchless
  <2>3. Unseen(w, y)'
    BY <1>1, <1>3, <1>5, <2>1 DEF ImportOK, Unseen, SketchOf, world
  <2>4. Held(w, y)'
    BY <1>1, <2>1 DEF ImportOK, Held, Sketchless
  <2>5. First(w, y)' /\ Proven(w, y)' /\ Guiltless(w, y)'
    BY <1>1, <2>1 DEF ImportOK, First, Covered, Without, Proven, Guiltless, world
  <2>6. ImportOK(w, y)'
    BY <2>2, <2>3, <2>4, <2>5 DEF ImportOK
  <2>7. imp' = [imp EXCEPT ![w] = y]
    BY <1>5, <1>1
  <2>8. QED
    BY <1>2, <2>6, <2>7, Moves
<1>6. QED
  BY <1>4, <1>5 DEF FindSketch

LEMMA ListSketchesStep ==
  ASSUME IInv, NEW w \in Importers, ListSketches(w)
  PROVE  IInv'
<1> USE CaseAssumption, ItemAssumption, BoundAssumption
<1>1. /\ imp[w].at = "list" /\ faults \in Nat /\ blinded \subseteq Reports /\ Len(sketches) \in Nat
      /\ UNCHANGED <<world, jobs, session, repair, ambiguous, again, hasty, pruned>>
  BY Typed DEF ListSketches, IInv, TypeOK
<1>2. ASSUME Right, UNCHANGED <<result, blinded>>, NEW page \in Listed(w), FindSketch(w, page)
      PROVE  IInv'
  <2>1. \/ page = DOMAIN sketches
        \/ w \in Reports /\ Len(sketches) > PageSize
    BY <1>1, <1>2 DEF Listed, FirstPages, Importers
  <2>2. \A i \in SketchOf(imp[w].of) : i \in page \/ (w \in Reports /\ Len(sketches) > PageSize)
    BY <2>1 DEF SketchOf
  <2>3. QED
    BY <1>1, <1>2, <2>2, FindStep DEF Right
<1>3. ASSUME Fault, Ends(w, "bad"), UNCHANGED blinded
      PROVE  IInv'
  <2>1. faults' \in Nat /\ faults' > 0 /\ faults <= faults'
    BY <1>1, <1>3 DEF Fault
  <2>2. /\ imp' = [imp EXCEPT ![w] = Rest(w)]
        /\ result' \in [Items -> {"none", "ok", "bad"}]
        /\ \A f \in Files :
             \/ result'[f] = result[f]
             \/ result'[f] = "ok" /\ (f \in pruned \/ Backed(f))
             \/ result'[f] = "bad" /\ (faults' > 0 \/ (Calm => Blamed(f)))
    BY <1>1, <1>3, <2>1, Ended
  <2>3. Step(w) /\ Kept
    BY <1>1, <1>3, <2>1, <2>2 DEF Step, Kept, world, history, IInv, TypeOK
  <2>4. QED
    BY <2>2, <2>3, Resting, Moves
<1>4. ASSUME Fault, w # Worker, UNCHANGED result, FindSketch(w, {}), blinded' = blinded \cup {w}
      PROVE  IInv'
  <2>1. faults' \in Nat /\ faults <= faults' /\ w \in Reports /\ blinded' \subseteq Reports
    BY <1>1, <1>4 DEF Fault, Importers
  <2>2. QED
    BY <1>1, <1>4, <2>1, FindStep
<1>5. QED
  BY <1>2, <1>3, <1>4 DEF ListSketches
\* A new sketch of its case, or the end.
LEMMA CreateSketchStep ==
  ASSUME IInv, NEW w \in Importers, CreateSketch(w)
  PROVE  IInv'
<1> USE CaseAssumption, ItemAssumption, BoundAssumption
<1> PICK x : x = imp[w]
  OBVIOUS
<1>1. /\ ImportOK(w, x) /\ x \in Import /\ x.at = "create" /\ x.of \in Items
      /\ faults \in Nat /\ imp \in [Importers -> Import]
      /\ UNCHANGED <<timelines, jobs, session, repair, history>>
  BY DEF CreateSketch, IInv, ImportOK, Who, Importers, Items, TypeOK
<1>2. CASE Right /\ sketches' = NewSketch(w) /\ UNCHANGED <<pending, result>>
           /\ imp' = [imp EXCEPT ![w].at = "upload", ![w].sketch = Len(sketches) + 1]
  <2> PICK y : y = [x EXCEPT !.at = "upload", !.sketch = Len(sketches) + 1]
    OBVIOUS
  <2>1. Step(w) /\ Kept
    BY <1>1, <1>2 DEF Step, Kept, Right, history, IInv, TypeOK
  <2>2. /\ Len(sketches) + 1 \in DOMAIN sketches' /\ Len(sketches) + 1 \in Nat
        /\ sketches'[Len(sketches) + 1].case = CaseOf[x.of]
    <3> DEFINE e == [case |-> CaseOf[x.of], by |-> w, listed |-> x.listed, late |-> FALSE]
    <3>1. e \in Sketch /\ sketches' = Append(sketches, e)
      BY <1>1, <1>2 DEF Sketch, Import, NewSketch, Requested
    <3>2. QED
      BY <3>1, Typed, Appended DEF IInv
  <2>3. /\ y \in Import /\ y.at = "upload" /\ y.of = x.of /\ y.timeline = x.timeline
        /\ y.sketch = Len(sketches) + 1 /\ y.ready = x.ready
    BY <1>1, <2>2 DEF Import, Places
  <2>4. Who(w, y)' /\ Placed(w, y)' /\ Unseen(w, y)'
    BY <1>1, <2>2, <2>3 DEF ImportOK, Who, Placed, Unseen, ReportPlaces
  <2>5. x.timeline = 0
    BY <1>1 DEF ImportOK, Held, Sketchless
  <2>6. Held(w, y)' /\ Proven(w, y)' /\ Guiltless(w, y)'
    BY <1>1, <2>3, <2>5 DEF ImportOK, Held, Proven, Guiltless
  <2>7. First(w, y)'
    BY <1>1, <2>3 DEF ImportOK, First, Covered, Without, history
  <2>8. ImportOK(w, y)'
    BY <2>4, <2>6, <2>7 DEF ImportOK
  <2>9. imp' = [imp EXCEPT ![w] = y]
    BY <1>1, <1>2
  <2>10. QED
    BY <2>1, <2>8, <2>9, Moves
<1>3. CASE /\ Fault /\ Ends(w, "bad")
           /\ \/ sketches' \in {sketches, NewSketch(w)} /\ UNCHANGED pending
              \/ pending' = pending \cup {Requested(w, TRUE)} /\ UNCHANGED sketches
  <2>1. faults' \in Nat /\ faults' > 0 /\ faults <= faults'
    BY <1>1, <1>3 DEF Fault
  <2>2. /\ imp' = [imp EXCEPT ![w] = Rest(w)]
        /\ result' \in [Items -> {"none", "ok", "bad"}]
        /\ \A f \in Files :
             \/ result'[f] = result[f]
             \/ result'[f] = "ok" /\ (f \in pruned \/ Backed(f))
             \/ result'[f] = "bad" /\ (faults' > 0 \/ (Calm => Blamed(f)))
    BY <1>1, <1>3, <2>1, Ended
  <2>3. Step(w) /\ Kept
    BY <1>1, <1>3, <2>1, <2>2 DEF Step, Kept, history, IInv, TypeOK
  <2>4. QED
    BY <2>2, <2>3, Resting, Moves
<1>4. QED
  BY <1>2, <1>3 DEF CreateSketch

\* The end of an import after a call that went wrong.
LEMMA FailedStep ==
  ASSUME IInv, NEW w \in Importers, Fault, NEW verdict \in {"ok", "bad"}, Ends(w, verdict),
         imp[w].at # "idle", w = Worker => verdict = "bad",
         timelines' = timelines \/ (timelines' = NewTimeline(w) /\ imp[w].at \in {"upload", "plaso"}),
         ambiguous' = ambiguous \/ Doubtful(w),
         hasty \subseteq hasty', hasty' \subseteq Files,
         UNCHANGED <<sketches, pending, jobs, session, repair, again, blinded, pruned>>
  PROVE  IInv'
<1> USE ItemAssumption, BoundAssumption
<1>1. faults' \in Nat /\ faults' > 0 /\ faults <= faults'
  BY DEF Fault, IInv, TypeOK
<1>2. imp[w].of \in Items
  BY DEF IInv, ImportOK, Who, Importers, Items
<1>3. /\ imp' = [imp EXCEPT ![w] = Rest(w)]
      /\ result' \in [Items -> {"none", "ok", "bad"}]
      /\ \A f \in Files :
           \/ result'[f] = result[f]
           \/ result'[f] = "ok" /\ (f \in pruned \/ Backed(f))
           \/ result'[f] = "bad" /\ (faults' > 0 \/ (Calm => Blamed(f)))
  BY <1>1, Ended
<1>4. Step(w) /\ Kept
  BY <1>1, <1>2, <1>3 DEF Step, Kept, Doubtful, IInv, TypeOK
<1>5. QED
  BY <1>3, <1>4, Resting, Moves
\* An upload that goes on without a timeline of its own.
LEMMA Uploading ==
  ASSUME IInv, Step(Worker), NEW x, x = imp[Worker], x.at = "upload",
         NEW y \in Import, y.at \in {"upload", "fallback"}, y.of = x.of,
         y.timeline = x.timeline, y.sketch = x.sketch, y.ready = x.ready,
         timelines' = timelines \/ x.of \in ambiguous',
         faults' > 0 \/ x.of \in Rowless
  PROVE  ImportOK(Worker, y)'
<1> USE ItemAssumption
<1>1. Worker \in Importers /\ ImportOK(Worker, x) /\ x.of \in Files /\ ~x.ready
  BY DEF Importers, IInv, ImportOK, Who, Proven, Import, Items
<1>2. Who(Worker, y)'
  BY <1>1 DEF Who, Items
<1>3. Placed(Worker, y)'
  BY <1>1, SketchesGrow DEF ImportOK, Placed, Sketchless
<1>4. Unseen(Worker, y)' /\ Proven(Worker, y)'
  BY <1>1 DEF Unseen, Proven, Items
<1>5. Held(Worker, y)'
  BY <1>1, TimelinesGrow DEF ImportOK, Held, Sketchless
<1>6. First(Worker, y)'
  <2>1. SUFFICES ASSUME ~Covered(x.of)' PROVE Without(x.of)'
    BY DEF First
  <2>2. ~Covered(x.of) /\ timelines' = timelines
    BY <2>1, <1>1, WorldKept DEF Covered
  <2>3. Without(x.of)
    BY <2>2, <1>1 DEF ImportOK, First
  <2>4. QED
    BY <2>2, <2>3 DEF Without
<1>7. Guiltless(Worker, y)'
  BY <1>1 DEF Guiltless, Calm
<1>8. QED
  BY <1>2, <1>3, <1>4, <1>5, <1>6, <1>7 DEF ImportOK

\* Another attempt, or none.
LEMMA TryAgainStep ==
  ASSUME IInv, imp[Worker].at = "upload", NEW reply \in BOOLEAN, TryAgain(Worker, reply), Fault,
         \/ UNCHANGED <<timelines, ambiguous>>
         \/ timelines' = NewTimeline(Worker) /\ Doubtful(Worker),
         UNCHANGED <<sketches, pending, jobs, session, repair, again, hasty, blinded, pruned>>
  PROVE  IInv'
<1> USE ItemAssumption, BoundAssumption
<1> DEFINE w == Worker
<1> PICK x : x = imp[w]
  OBVIOUS
<1>1. /\ w \in Importers /\ ImportOK(w, x) /\ x \in Import /\ x.at = "upload" /\ x.of \in Files
      /\ imp \in [Importers -> Import] /\ faults \in Nat
  BY DEF IInv, Importers, ImportOK, Who, TypeOK
<1>2. faults' \in Nat /\ faults' > 0 /\ faults <= faults'
  BY <1>1 DEF Fault
<1>3. timelines' = timelines \/ x.of \in ambiguous'
  BY DEF Doubtful
<1>4. CASE Ends(w, "bad")
  <2>1. /\ timelines' = timelines \/ (timelines' = NewTimeline(w) /\ imp[w].at \in {"upload", "plaso"})
        /\ ambiguous' = ambiguous \/ Doubtful(w)
        /\ hasty \subseteq hasty' /\ hasty' \subseteq Files
    BY DEF IInv, TypeOK
  <2>2. QED
    BY <1>1, <1>4, <2>1, FailedStep
<1>5. ASSUME NEW y \in Import, y.at \in {"upload", "fallback"}, y.of = x.of,
             y.timeline = x.timeline, y.sketch = x.sketch, y.ready = x.ready,
             imp' = [imp EXCEPT ![w] = y], UNCHANGED result
      PROVE  IInv'
  <2>1. Step(w)
    BY <1>1, <1>2, <1>5 DEF Step, Doubtful, IInv, TypeOK
  <2>2. Kept
    BY <1>1, <1>2, <1>5 DEF Kept, Doubtful, Items, IInv, TypeOK
  <2>3. ImportOK(w, y)'
    BY <1>1, <1>2, <1>3, <1>5, <2>1, Uploading
  <2>4. QED
    BY <1>1, <1>5, <2>1, <2>2, <2>3, Moves
<1> DEFINE answered == x.answered \/ reply
<1>6. CASE imp' = [imp EXCEPT ![w].tries = @ + 1, ![w].answered = answered] /\ UNCHANGED result
  <2>0. answered \in BOOLEAN /\ x.tries + 1 \in Nat
    BY <1>1 DEF Import
  <2> PICK y : y = [x EXCEPT !.tries = @ + 1, !.answered = answered]
    OBVIOUS
  <2>1. /\ y \in Import /\ y.at = "upload" /\ y.of = x.of
        /\ y.timeline = x.timeline /\ y.sketch = x.sketch /\ y.ready = x.ready
    BY <1>1, <2>0 DEF Import
  <2>2. imp' = [imp EXCEPT ![w] = y]
    BY <1>1, <1>6
  <2>3. QED
    BY <1>5, <1>6, <2>1, <2>2
<1>7. CASE Goes(w, "fallback") /\ UNCHANGED result
  <2> PICK y : y = [x EXCEPT !.at = "fallback"]
    OBVIOUS
  <2>1. /\ y \in Import /\ y.at = "fallback" /\ y.of = x.of
        /\ y.timeline = x.timeline /\ y.sketch = x.sketch /\ y.ready = x.ready
    BY <1>1 DEF Import, Places
  <2>2. imp' = [imp EXCEPT ![w] = y]
    BY <1>1, <1>7 DEF Goes
  <2>3. QED
    BY <1>5, <1>7, <2>1, <2>2
<1>8. QED
  BY <1>4, <1>6, <1>7 DEF TryAgain
\* What the worker's import keeps once it has a sketch.
LEMMA Onward ==
  ASSUME IInv, Step(Worker), Kept, NEW x, x = imp[Worker], x.at \notin Sketchless,
         NEW y \in Import, y.at \notin Sketchless, y.of = x.of, y.sketch = x.sketch,
         imp' = [imp EXCEPT ![Worker] = y],
         Held(Worker, y)', First(Worker, y)', Proven(Worker, y)', Guiltless(Worker, y)'
  PROVE  IInv'
<1> USE ItemAssumption
<1>1. Worker \in Importers /\ ImportOK(Worker, x)
  BY DEF Importers, IInv
<1>2. Who(Worker, y)' /\ Unseen(Worker, y)'
  BY <1>1 DEF ImportOK, Who, Unseen, Sketchless, Items
<1>3. Placed(Worker, y)'
  BY <1>1, SketchesGrow DEF ImportOK, Placed
<1>4. ImportOK(Worker, y)'
  BY <1>2, <1>3 DEF ImportOK
<1>5. QED
  BY <1>1, <1>4, Moves

LEMMA NewOne ==
  ASSUME IInv, NEW w \in Importers, Step(w), imp[w].at \in {"upload", "plaso"},
         timelines' = NewTimeline(w), NEW t, t = Len(timelines) + 1
  PROVE  /\ t \in DOMAIN timelines' /\ t \in Nat /\ t # 0
         /\ timelines'[t].of = imp[w].of /\ timelines'[t].sketch = imp[w].sketch
         /\ State(t)' = "new"
<1> USE ItemAssumption
<1> DEFINE e == [sketch |-> imp[w].sketch, of |-> imp[w].of, state |-> "new"]
<1>1. e \in Timeline
  BY DEF IInv, ImportOK, Who, Import, Importers, Items, Timeline, TimelineStates
<1>2. timelines' = Append(timelines, e)
  BY DEF NewTimeline
<1>3. QED
  BY <1>1, <1>2, Typed, Appended DEF IInv, State

\* The worker at work, before the verification.
LEMMA AtWork ==
  ASSUME IInv, NEW x, x = imp[Worker], x.at \notin Sketchless
  PROVE  /\ Worker \in Importers /\ ImportOK(Worker, x) /\ x \in Import /\ x.of \in Files
         /\ imp \in [Importers -> Import] /\ faults \in Nat
         /\ x.ready => x.at \in {"wait", "verify", "report"}
BY DEF IInv, TypeOK, Importers, ImportOK, Who, Proven, Sketchless

LEMMA PostCsvStep ==
  ASSUME IInv, PostCsv
  PROVE  IInv'
<1> USE ItemAssumption, BoundAssumption
<1> DEFINE w == Worker
<1> PICK x : x = imp[w]
  OBVIOUS
<1>1. /\ x.at = "upload" /\ x.at \notin Sketchless /\ x.of \notin Rowless
      /\ UNCHANGED <<sketches, pending, jobs, session, repair, again, hasty, blinded, pruned>>
  BY DEF PostCsv, Sketchless
<1>2. /\ w \in Importers /\ ImportOK(w, x) /\ x \in Import /\ x.of \in Files /\ ~x.ready
      /\ imp \in [Importers -> Import] /\ faults \in Nat
  BY <1>1, AtWork
<1>3. CASE /\ Right /\ timelines' = NewTimeline(w)
           /\ imp' = [imp EXCEPT ![w].at = "fallback", ![w].uploaded = TRUE,
                                 ![w].timeline = Len(timelines) + 1]
           /\ UNCHANGED <<result, ambiguous>>
  <2> PICK t : t = Len(timelines) + 1
    OBVIOUS
  <2> PICK y : y = [x EXCEPT !.at = "fallback", !.uploaded = TRUE, !.timeline = t]
    OBVIOUS
  <2>1. Step(w) /\ Kept
    BY <1>1, <1>2, <1>3 DEF Step, Kept, Right, IInv, TypeOK
  <2>2. /\ t \in DOMAIN timelines' /\ t \in Nat /\ t # 0
        /\ timelines'[t].of = x.of /\ timelines'[t].sketch = x.sketch
    BY <1>1, <1>2, <1>3, <2>1, NewOne
  <2>3. /\ y \in Import /\ y.at = "fallback" /\ y.of = x.of /\ y.timeline = t
        /\ y.sketch = x.sketch /\ ~y.ready /\ y.uploaded
    BY <1>2, <2>2 DEF Import, Places
  <2>4. imp' = [imp EXCEPT ![w] = y]
    BY <1>2, <1>3
  <2>5. Held(w, y)' /\ Proven(w, y)'
    BY <2>2, <2>3 DEF Held, Proven, Sketchless
  <2>6. First(w, y)' /\ Guiltless(w, y)'
    BY <1>1, <2>2, <2>3 DEF First, Guiltless
  <2>7. QED
    BY <1>1, <2>1, <2>3, <2>4, <2>5, <2>6, Onward DEF Sketchless
<1>4. ASSUME Fault, NEW y \in Import, y.at = "fallback", y.of = x.of,
             y.timeline = x.timeline, y.sketch = x.sketch, y.ready = x.ready,
             imp' = [imp EXCEPT ![w] = y], UNCHANGED result,
             \/ UNCHANGED <<timelines, ambiguous>>
             \/ timelines' = NewTimeline(w) /\ Doubtful(w)
      PROVE  IInv'
  <2>1. faults' \in Nat /\ faults' > 0 /\ faults <= faults'
    BY <1>2, <1>4 DEF Fault
  <2>2. Step(w) /\ Kept
    BY <1>1, <1>2, <1>4, <2>1 DEF Step, Kept, Doubtful, Items, IInv, TypeOK
  <2>3. timelines' = timelines \/ x.of \in ambiguous'
    BY <1>4 DEF Doubtful
  <2>4. ImportOK(w, y)'
    BY <1>1, <1>4, <2>1, <2>2, <2>3, Uploading
  <2>5. QED
    BY <1>2, <1>4, <2>2, <2>4, Moves
<1>5. CASE /\ Fault /\ timelines' = NewTimeline(w) /\ Doubtful(w)
           /\ imp' = [imp EXCEPT ![w].at = "fallback", ![w].uploaded = TRUE]
           /\ UNCHANGED result
  <2> PICK y : y = [x EXCEPT !.at = "fallback", !.uploaded = TRUE]
    OBVIOUS
  <2>1. /\ y \in Import /\ y.at = "fallback" /\ y.of = x.of /\ y.timeline = x.timeline
        /\ y.sketch = x.sketch /\ y.ready = x.ready
    BY <1>2 DEF Import, Places
  <2>2. imp' = [imp EXCEPT ![w] = y]
    BY <1>2, <1>5
  <2>3. QED
    BY <1>4, <1>5, <2>1, <2>2
<1>6. CASE Fault /\ Goes(w, "fallback") /\ UNCHANGED <<timelines, result, ambiguous>>
  <2> PICK y : y = [x EXCEPT !.at = "fallback"]
    OBVIOUS
  <2>1. /\ y \in Import /\ y.at = "fallback" /\ y.of = x.of /\ y.timeline = x.timeline
        /\ y.sketch = x.sketch /\ y.ready = x.ready
    BY <1>2 DEF Import, Places
  <2>2. imp' = [imp EXCEPT ![w] = y]
    BY <1>2, <1>6 DEF Goes
  <2>3. QED
    BY <1>4, <1>6, <2>1, <2>2
<1>7. CASE Fault /\ timelines' = NewTimeline(w) /\ Doubtful(w)
            /\ \E reply \in BOOLEAN : TryAgain(w, reply)
  BY <1>1, <1>7, TryAgainStep
<1>8. CASE Fault /\ UNCHANGED <<timelines, ambiguous>>
            /\ \E reply \in BOOLEAN : TryAgain(w, reply)
  BY <1>1, <1>8, TryAgainStep
<1>9. QED
  BY <1>3, <1>5, <1>6, <1>7, <1>8 DEF PostCsv

LEMMA SkipCsvStep ==
  ASSUME IInv, SkipCsv
  PROVE  IInv'
<1> PICK x : x = imp[Worker]
  OBVIOUS
<1> PICK y : y = [x EXCEPT !.at = "fallback"]
  OBVIOUS
<1>1. x.at = "upload" /\ x.at \notin Sketchless /\ x.of \in Rowless
  BY DEF SkipCsv, Sketchless
<1>2. /\ Worker \in Importers /\ x \in Import /\ imp \in [Importers -> Import]
  BY <1>1, AtWork
<1>3. /\ y \in Import /\ y.at = "fallback" /\ y.of = x.of /\ y.timeline = x.timeline
      /\ y.sketch = x.sketch /\ y.ready = x.ready
  BY <1>2 DEF Import, Places
<1>4. Step(Worker) /\ Kept
  BY DEF SkipCsv, Step, Kept, world, history, IInv, TypeOK
<1>5. ImportOK(Worker, y)'
  BY <1>1, <1>3, <1>4, Uploading DEF SkipCsv, world
<1>6. imp' = [imp EXCEPT ![Worker] = y]
  BY <1>2 DEF SkipCsv, Goes
<1>7. QED
  BY <1>2, <1>4, <1>5, <1>6, Moves

LEMMA PostReportStep ==
  ASSUME IInv, NEW r \in Reports, PostReport(r)
  PROVE  IInv'
<1> USE ItemAssumption, BoundAssumption
<1>1. /\ r \in Importers /\ r # Worker /\ imp[r].at = "upload" /\ faults \in Nat
      /\ UNCHANGED <<sketches, pending, jobs, session, repair, again, hasty, blinded, pruned>>
  BY DEF PostReport, Importers, Items, IInv, TypeOK
<1>2. hasty \subseteq hasty' /\ hasty' \subseteq Files
  BY <1>1 DEF IInv, TypeOK
<1>3. CASE Right /\ timelines' = NewTimeline(r) /\ Ends(r, "ok") /\ UNCHANGED ambiguous
  <2>1. /\ imp' = [imp EXCEPT ![r] = Rest(r)]
        /\ result' \in [Items -> {"none", "ok", "bad"}]
        /\ \A f \in Files :
             \/ result'[f] = result[f]
             \/ result'[f] = "ok" /\ (f \in pruned \/ Backed(f))
             \/ result'[f] = "bad" /\ (faults' > 0 \/ (Calm => Blamed(f)))
    BY <1>1, <1>3, Ended
  <2>2. Step(r) /\ Kept
    BY <1>1, <1>3, <2>1 DEF Step, Kept, Right, IInv, TypeOK
  <2>3. QED
    BY <1>1, <2>1, <2>2, Resting, Moves
<1>4. CASE Fault /\ timelines' = NewTimeline(r) /\ Ends(r, "bad") /\ Doubtful(r)
  BY <1>1, <1>2, <1>4, FailedStep
<1>5. CASE Fault /\ UNCHANGED <<timelines, ambiguous>> /\ \E answer \in {"ok", "bad"} : Ends(r, answer)
  BY <1>1, <1>2, <1>5, FailedStep
<1>6. QED
  BY <1>3, <1>4, <1>5 DEF PostReport
LEMMA FallbackStep ==
  ASSUME IInv, Fallback
  PROVE  IInv'
<1> USE ItemAssumption
<1> DEFINE w == Worker
<1> PICK x : x = imp[w]
  OBVIOUS
<1>1. /\ x.at = "fallback" /\ x.at \notin Sketchless
      /\ UNCHANGED <<world, jobs, session, result, repair, faults, history>>
  BY DEF Fallback, Sketchless
<1>2. /\ w \in Importers /\ ImportOK(w, x) /\ x \in Import /\ x.of \in Files /\ ~x.ready
      /\ imp \in [Importers -> Import]
  BY <1>1, AtWork
<1>3. Step(w) /\ Kept
  BY <1>1 DEF Step, Kept, world, history, IInv, TypeOK
<1>4. ASSUME NEW place \in {"wait", "plaso"}, NEW y, y = [x EXCEPT !.at = place]
      PROVE  /\ y \in Import /\ y.at = place /\ y.at \notin Sketchless /\ y.of = x.of
             /\ y.timeline = x.timeline /\ y.sketch = x.sketch /\ ~y.ready
             /\ y.uploaded = x.uploaded /\ Held(w, y)' /\ Proven(w, y)'
             /\ Goes(w, place) => imp' = [imp EXCEPT ![w] = y]
  <2>1. /\ y \in Import /\ y.at = place /\ y.at \notin Sketchless /\ y.of = x.of
        /\ y.timeline = x.timeline /\ y.sketch = x.sketch /\ ~y.ready /\ y.uploaded = x.uploaded
    BY <1>2, <1>4 DEF Import, Places, Sketchless
  <2>2. Held(w, y)' /\ Proven(w, y)'
    BY <1>1, <1>2, <2>1 DEF ImportOK, Held, Proven, world
  <2>3. Goes(w, place) => imp' = [imp EXCEPT ![w] = y]
    BY <1>2, <1>4 DEF Goes
  <2>4. QED
    BY <2>1, <2>2, <2>3
<1>5. CASE Goes(w, "wait")
  <2> PICK y : y = [x EXCEPT !.at = "wait"]
    OBVIOUS
  <2>1. First(w, y)'
    BY <1>4 DEF First
  <2>2. Guiltless(w, y)'
    BY <1>1, <1>2, <1>4 DEF ImportOK, Guiltless, Calm, Blamed, world, history
  <2>3. QED
    BY <1>1, <1>3, <1>4, <1>5, <2>1, <2>2, Onward
<1>6. CASE FallbackNeeded(x.of) /\ Goes(w, "plaso")
  <2> PICK y : y = [x EXCEPT !.at = "plaso"]
    OBVIOUS
  <2>1. Covered(x.of) \/ Without(x.of)
    BY <1>1, <1>2, <1>6 DEF ImportOK, First, Covered, FallbackNeeded
  <2>2. First(w, y)'
    BY <1>1, <1>4, <2>1 DEF First, Covered, Without, world, history
  <2>3. Guiltless(w, y)'
    BY <1>4 DEF Guiltless
  <2>4. QED
    BY <1>1, <1>3, <1>4, <1>6, <2>2, <2>3, Onward
<1>7. QED
  BY <1>5, <1>6 DEF Fallback

LEMMA PostPlasoStep ==
  ASSUME IInv, PostPlaso
  PROVE  IInv'
<1> USE ItemAssumption, BoundAssumption
<1> DEFINE w == Worker
<1> PICK x : x = imp[w]
  OBVIOUS
<1>1. /\ x.at = "plaso" /\ x.at \notin Sketchless
      /\ UNCHANGED <<sketches, pending, jobs, session, repair, again, hasty, blinded, pruned>>
  BY DEF PostPlaso, Sketchless
<1>2. /\ w \in Importers /\ ImportOK(w, x) /\ x \in Import /\ x.of \in Files /\ ~x.ready
      /\ imp \in [Importers -> Import] /\ faults \in Nat
  BY <1>1, AtWork
<1>3. hasty \subseteq hasty' /\ hasty' \subseteq Files
  BY <1>1 DEF IInv, TypeOK
<1>4. ASSUME NEW ok \in BOOLEAN, NEW t \in Nat, PlasoPosted(ok, t), Step(w), Kept,
             t # 0 => /\ t \in DOMAIN timelines'
                      /\ timelines'[t].of = x.of /\ timelines'[t].sketch = x.sketch,
             faults' > 0 \/ (ok /\ t # 0)
      PROVE  IInv'
  <2> PICK y : y = [x EXCEPT !.at = "plasoWait", !.uploaded = ok, !.timeline = t]
    OBVIOUS
  <2>1. /\ y \in Import /\ y.at = "plasoWait" /\ y.of = x.of /\ y.timeline = t
        /\ y.sketch = x.sketch /\ ~y.ready /\ y.uploaded = ok
    BY <1>2 DEF Import, Places
  <2>2. imp' = [imp EXCEPT ![w] = y]
    BY <1>2, <1>4 DEF PlasoPosted
  <2>3. Held(w, y)' /\ First(w, y)' /\ Proven(w, y)'
    BY <1>4, <2>1 DEF Held, First, Proven, Sketchless
  <2>4. Guiltless(w, y)'
    BY <1>4, <2>1 DEF Guiltless, Calm
  <2>5. QED
    BY <1>1, <1>4, <2>1, <2>2, <2>3, <2>4, Onward DEF Sketchless
<1>5. CASE /\ Right /\ timelines' = NewTimeline(w)
           /\ PlasoPosted(TRUE, Len(timelines) + 1) /\ UNCHANGED <<result, ambiguous>>
  <2> PICK t : t = Len(timelines) + 1
    OBVIOUS
  <2>1. Step(w) /\ Kept
    BY <1>1, <1>2, <1>5 DEF Step, Kept, Right, IInv, TypeOK
  <2>2. /\ t \in DOMAIN timelines' /\ t \in Nat /\ t # 0
        /\ timelines'[t].of = x.of /\ timelines'[t].sketch = x.sketch
    BY <1>1, <1>2, <1>5, <2>1, NewOne
  <2>3. QED
    BY <1>4, <1>5, <2>1, <2>2
<1>6. ASSUME Fault
      PROVE  faults' \in Nat /\ faults' > 0 /\ faults <= faults'
  BY <1>2, <1>6 DEF Fault
<1>7. CASE Fault /\ timelines' = NewTimeline(w) /\ Doubtful(w) /\ PlasoPosted(TRUE, 0) /\ UNCHANGED result
  <2>1. Step(w) /\ Kept
    BY <1>1, <1>2, <1>6, <1>7 DEF Step, Kept, Doubtful, Items, IInv, TypeOK
  <2>2. QED
    BY <1>4, <1>6, <1>7, <2>1
<1>8. CASE Fault /\ UNCHANGED <<timelines, ambiguous>> /\ PlasoPosted(FALSE, 0) /\ UNCHANGED result
  <2>1. Step(w) /\ Kept
    BY <1>1, <1>2, <1>6, <1>8 DEF Step, Kept, IInv, TypeOK
  <2>2. QED
    BY <1>4, <1>6, <1>8, <2>1
<1>9. CASE Fault /\ timelines' = NewTimeline(w) /\ Doubtful(w) /\ Ends(w, "bad")
  BY <1>1, <1>2, <1>3, <1>9, FailedStep
<1>10. CASE Fault /\ UNCHANGED <<timelines, ambiguous>> /\ Ends(w, "bad")
  BY <1>1, <1>2, <1>3, <1>10, FailedStep
<1>11. QED
  BY <1>5, <1>7, <1>8, <1>9, <1>10 DEF PostPlaso

\* What a wait tells of the timeline it waited for.
LEMMA WaitTells ==
  ASSUME IInv, NEW x, x = imp[Worker], x.at \notin Sketchless, NEW ready \in BOOLEAN, Waited(ready),
         UNCHANGED <<world, repair>>
  PROVE  /\ faults' \in Nat /\ faults <= faults' /\ hasty \subseteq hasty' /\ hasty' \subseteq Files
         /\ ready => Backed(x.of) /\ State(x.timeline) = "ready"
         /\ (Calm' /\ ~ready /\ x.timeline # 0) => Blamed(x.of)'
         /\ Calm' => Calm
<1> USE ItemAssumption
<1> DEFINE t == x.timeline
<1>1. /\ ImportOK(Worker, x) /\ x \in Import /\ x.of \in Files /\ faults \in Nat
  BY AtWork
<1>2. faults' \in Nat /\ faults <= faults' /\ hasty \subseteq hasty' /\ hasty' \subseteq Files
  BY <1>1 DEF Waited, Right, Fault, IInv, TypeOK
<1>3. Calm' => Calm
  BY <1>1, <1>2 DEF Calm
<1>4. t = 0 => State(t) = "deleted"
  BY Typed DEF State, IInv
<1>5. ASSUME t # 0
      PROVE  /\ t \in DOMAIN timelines /\ timelines[t].of = x.of
             /\ sketches[timelines[t].sketch].case = CaseOf[x.of]
             /\ State(t) = timelines[t].state /\ timelines[t].state \in TimelineStates
  BY <1>1, <1>5, Typed DEF ImportOK, Held, Placed, State, IInv, Timeline
<1>6. ASSUME ready PROVE Backed(x.of) /\ State(t) = "ready"
  BY <1>4, <1>5, <1>6 DEF Waited, Backed
<1>7. ASSUME Calm', ~ready, t # 0 PROVE Blamed(x.of)'
  <2>1. State(t) # "ready" /\ State(t) # "deleted"
    BY <1>1, <1>3, <1>5, <1>7 DEF Waited, Fault, Calm, IInv, World, CalmWorld
  <2>2. CASE State(t) \in {"new", "filling"}
    <3>1. x.of \in hasty'
      BY <1>7, <2>2 DEF Waited
    <3>2. QED
      BY <3>1 DEF Blamed
  <2>3. CASE State(t) \in {"empty", "fail"}
    BY <1>5, <1>7, <2>3 DEF Blamed, world
  <2>4. QED
    BY <1>5, <1>7, <2>1, <2>2, <2>3 DEF TimelineStates
<1>8. QED
  BY <1>2, <1>3, <1>6, <1>7
\* What can be said of an import that moves on while the world stands still.
LEMMA Standing ==
  ASSUME IInv, NEW x, x = imp[Worker], x.at \notin Sketchless,
         NEW y, y \in Import, y.at \in {"wait", "verify", "report"}, y.of = x.of,
         y.sketch = x.sketch, y.timeline = x.timeline,
         y.ready => x.ready \/ Backed(x.of), UNCHANGED <<world, pruned>>
  PROVE  Held(Worker, y)' /\ First(Worker, y)' /\ Proven(Worker, y)'
<1>1. ImportOK(Worker, x)
  BY AtWork
<1>2. Held(Worker, y)' /\ First(Worker, y)'
  BY <1>1 DEF ImportOK, Held, First, Sketchless, world
<1>3. y.ready => x.of \in pruned \/ Backed(x.of)
  BY <1>1 DEF ImportOK, Proven
<1>4. Backed(x.of)' <=> Backed(x.of)
  BY DEF Backed, world
<1>5. QED
  BY <1>2, <1>3, <1>4 DEF Proven

LEMMA WaitPlasoStep ==
  ASSUME IInv, WaitPlaso
  PROVE  IInv'
<1> DEFINE w == Worker
<1> PICK x : x = imp[w]
  OBVIOUS
<1>1. /\ x.at = "plasoWait" /\ x.at \notin Sketchless
      /\ UNCHANGED <<world, jobs, session, result, repair, ambiguous, again, blinded, pruned>>
  BY DEF WaitPlaso, Sketchless
<1>2. /\ w \in Importers /\ ImportOK(w, x) /\ x \in Import /\ x.of \in Files
      /\ imp \in [Importers -> Import]
  BY <1>1, AtWork
<1>a. PICK ready \in BOOLEAN :
       /\ Waited(ready)
       /\ imp' = [imp EXCEPT ![w].at = "wait", ![w].ready = ready, ![w].uploaded = @ /\ ready]
  BY DEF WaitPlaso
<1>3. /\ faults' \in Nat /\ faults <= faults' /\ hasty \subseteq hasty' /\ hasty' \subseteq Files
      /\ ready => Backed(x.of) /\ State(x.timeline) = "ready"
      /\ (Calm' /\ ~ready /\ x.timeline # 0) => Blamed(x.of)'
      /\ Calm' => Calm
  BY <1>1, <1>a, WaitTells
<1>b. PICK y : y = [x EXCEPT !.at = "wait", !.ready = ready, !.uploaded = @ /\ ready]
  OBVIOUS
<1>4. /\ y \in Import /\ y.at = "wait" /\ y.of = x.of /\ y.timeline = x.timeline
      /\ y.sketch = x.sketch /\ y.ready = ready /\ y.uploaded = (x.uploaded /\ ready)
  <2>1. x.uploaded \in BOOLEAN /\ (x.uploaded /\ ready) \in BOOLEAN
    BY <1>2 DEF Import
  <2>2. QED
    BY <1>2, <1>b, <2>1 DEF Import, Places
<1>5. imp' = [imp EXCEPT ![w] = y]
  BY <1>2, <1>a, <1>b
<1>6. Step(w) /\ Kept
  BY <1>1, <1>3 DEF Step, Kept, world, IInv, TypeOK
<1>7. Held(w, y)' /\ First(w, y)' /\ Proven(w, y)'
  <2>1. y.at \in {"wait", "verify", "report"} /\ (y.ready => x.ready \/ Backed(x.of))
    BY <1>3, <1>4
  <2>2. QED
    BY <1>1, <1>4, <2>1, Standing
<1>8. Guiltless(w, y)'
  <2>1. SUFFICES ASSUME Calm'
                 PROVE  \/ Blamed(x.of)'
                        \/ y.uploaded /\ x.timeline # 0 /\ State(x.timeline)' = "ready"
    BY <1>4 DEF Guiltless
  <2>2. x.uploaded /\ x.timeline # 0
    BY <2>1, <1>1, <1>2, <1>3 DEF ImportOK, Guiltless
  <2>3. State(x.timeline)' = State(x.timeline)
    BY <1>1 DEF State, world
  <2>4. QED
    BY <2>1, <2>2, <2>3, <1>3, <1>4
<1>9. y.at \notin Sketchless
  BY <1>4 DEF Sketchless
<1>10. QED
  BY <1>1, <1>4, <1>5, <1>6, <1>7, <1>8, <1>9, Onward

LEMMA WaitReadyStep ==
  ASSUME IInv, WaitReady
  PROVE  IInv'
<1> DEFINE w == Worker
<1> PICK x : x = imp[w]
  OBVIOUS
<1>1. /\ x.at = "wait" /\ x.at \notin Sketchless
      /\ UNCHANGED <<world, jobs, session, result, repair, ambiguous, again, blinded, pruned>>
  BY DEF WaitReady, Sketchless
<1>2. /\ w \in Importers /\ ImportOK(w, x) /\ x \in Import /\ x.of \in Files
      /\ imp \in [Importers -> Import]
  BY <1>1, AtWork
<1>3. ASSUME NEW y \in Import, y.at = "verify", y.of = x.of, y.timeline = x.timeline,
             y.sketch = x.sketch, y.uploaded = x.uploaded, y.ready => x.ready \/ Backed(x.of),
             imp' = [imp EXCEPT ![w] = y],
             faults' \in Nat, faults <= faults', hasty \subseteq hasty', hasty' \subseteq Files,
             Calm' => Calm,
             Calm' => \/ Blamed(x.of)'
                      \/ y.uploaded /\ y.ready /\ y.timeline # 0 /\ State(x.timeline) = "ready"
      PROVE  IInv'
  <2>1. Step(w) /\ Kept
    BY <1>1, <1>3 DEF Step, Kept, world, IInv, TypeOK
  <2>2. Held(w, y)' /\ First(w, y)' /\ Proven(w, y)'
    BY <1>1, <1>3, Standing
  <2>3. State(x.timeline)' = State(x.timeline)
    BY <1>1 DEF State, world
  <2>4. Guiltless(w, y)'
    BY <1>3, <2>3 DEF Guiltless
  <2>5. QED
    BY <1>1, <1>3, <2>1, <2>2, <2>4, Onward DEF Sketchless
<1>4. Calm => \/ Blamed(x.of)
              \/ x.uploaded /\ x.timeline # 0 /\ (x.ready => State(x.timeline) = "ready")
  BY <1>1, <1>2 DEF ImportOK, Guiltless
<1>5. CASE (x.timeline = 0 \/ x.ready) /\ Goes(w, "verify") /\ Right /\ UNCHANGED hasty
  <2> PICK y : y = [x EXCEPT !.at = "verify"]
    OBVIOUS
  <2>1. /\ y \in Import /\ y.at = "verify" /\ y.of = x.of /\ y.timeline = x.timeline
        /\ y.sketch = x.sketch /\ y.uploaded = x.uploaded /\ y.ready = x.ready
    BY <1>2 DEF Import, Places
  <2>2. imp' = [imp EXCEPT ![w] = y]
    BY <1>2, <1>5 DEF Goes
  <2>3. /\ faults' \in Nat /\ faults <= faults' /\ hasty \subseteq hasty' /\ hasty' \subseteq Files
        /\ Calm' => Calm
    BY <1>1, <1>5 DEF Right, Calm, IInv, TypeOK
  <2>4. Blamed(x.of)' <=> Blamed(x.of)
    BY <1>1, <1>5 DEF Blamed, world
  <2>5. Calm' => \/ Blamed(x.of)'
                 \/ y.uploaded /\ y.ready /\ y.timeline # 0 /\ State(x.timeline) = "ready"
    BY <1>4, <1>5, <2>1, <2>3, <2>4
  <2>6. QED
    BY <1>3, <2>1, <2>2, <2>3, <2>5
<1>6. ASSUME x.timeline # 0, NEW ready \in BOOLEAN, Waited(ready),
             imp' = [imp EXCEPT ![w].at = "verify", ![w].ready = ready]
      PROVE  IInv'
  <2> PICK y : y = [x EXCEPT !.at = "verify", !.ready = ready]
    OBVIOUS
  <2>1. /\ y \in Import /\ y.at = "verify" /\ y.of = x.of /\ y.timeline = x.timeline
        /\ y.sketch = x.sketch /\ y.uploaded = x.uploaded /\ y.ready = ready
    BY <1>2 DEF Import, Places
  <2>2. imp' = [imp EXCEPT ![w] = y]
    BY <1>2, <1>6
  <2>3. /\ faults' \in Nat /\ faults <= faults' /\ hasty \subseteq hasty' /\ hasty' \subseteq Files
        /\ ready => Backed(x.of) /\ State(x.timeline) = "ready"
        /\ (Calm' /\ ~ready /\ x.timeline # 0) => Blamed(x.of)'
        /\ Calm' => Calm
    BY <1>1, <1>6, WaitTells
  <2>4. Blamed(x.of) => Blamed(x.of)'
    BY <1>1, <2>3 DEF Blamed, world
  <2>5. Calm' => \/ Blamed(x.of)'
                 \/ y.uploaded /\ y.ready /\ y.timeline # 0 /\ State(x.timeline) = "ready"
    BY <1>4, <1>6, <2>1, <2>3, <2>4
  <2>6. QED
    BY <1>3, <2>1, <2>2, <2>3, <2>5
<1>7. QED
  BY <1>5, <1>6 DEF WaitReady

LEMMA VerifyStep ==
  ASSUME IInv, Verify
  PROVE  IInv'
<1> USE BoundAssumption
<1> DEFINE w == Worker
<1> DEFINE dirty == \E t \in Live(imp[w].sketch) : timelines[t].state \in {"new", "filling"}
<1> PICK x : x = imp[w]
  OBVIOUS
<1>1. /\ x.at = "verify" /\ x.at \notin Sketchless
      /\ UNCHANGED <<world, jobs, session, repair, ambiguous, again, blinded, pruned>>
      /\ hasty' = IF dirty THEN hasty \cup {x.of} ELSE hasty
  BY DEF Verify, Sketchless
<1>2. /\ w \in Importers /\ ImportOK(w, x) /\ x \in Import /\ x.of \in Files
      /\ imp \in [Importers -> Import] /\ faults \in Nat
  BY <1>1, AtWork
<1>3. hasty \subseteq hasty' /\ hasty' \subseteq Files
  BY <1>1, <1>2 DEF IInv, TypeOK
<1>4. CASE Fault /\ Ends(w, "bad")
  BY <1>1, <1>2, <1>3, <1>4, FailedStep DEF world
<1>5. CASE Right /\ UNCHANGED result /\ imp' = [imp EXCEPT ![w].at = "report", ![w].ready = Verdict]
  <2>b. PICK v : v = Verdict
    OBVIOUS
  <2>a. PICK y : y = [x EXCEPT !.at = "report", !.ready = v]
    OBVIOUS
  <2>1. v \in BOOLEAN
    BY <1>2, <2>b DEF Verdict, Explorable, Import
  <2>2. /\ y \in Import /\ y.at = "report" /\ y.of = x.of /\ y.timeline = x.timeline
        /\ y.sketch = x.sketch /\ y.ready = v
    BY <1>2, <2>a, <2>1 DEF Import, Places
  <2>3. imp' = [imp EXCEPT ![w] = y]
    BY <1>2, <1>5, <2>a, <2>b
  <2>4. Step(w) /\ Kept
    BY <1>1, <1>2, <1>3, <1>5 DEF Step, Kept, Right, world, IInv, TypeOK
  <2>5. v => x.ready
    BY <2>b DEF Verdict
  <2>6. Held(w, y)' /\ First(w, y)' /\ Proven(w, y)'
    <3>1. y.at \in {"wait", "verify", "report"} /\ (y.ready => x.ready \/ Backed(x.of))
      BY <2>2, <2>5
    <3>2. QED
      BY <1>1, <2>2, <3>1, Standing
  <2>7. ASSUME Calm', ~v PROVE Blamed(x.of)'
    <3>1. Calm
      BY <1>1, <1>5, <2>7 DEF Right, Calm
    <3>2. CASE Blamed(x.of)
      BY <3>2, <1>1, <1>3 DEF Blamed, world
    <3>3. CASE x.uploaded /\ x.ready /\ x.timeline # 0 /\ State(x.timeline) = "ready"
      <4>1. /\ x.timeline \in DOMAIN timelines /\ timelines[x.timeline].sketch = x.sketch
            /\ timelines[x.timeline].state = "ready"
        BY <3>3, <1>2 DEF ImportOK, Held, State
      <4>2. x.timeline \in Live(x.sketch)
        BY <4>1 DEF Live
      <4>3. PICK t \in Live(x.sketch) : timelines[t].state \notin {"filling", "ready"}
        BY <2>7, <2>b, <3>3, <4>1, <4>2 DEF Verdict, Explorable
      <4>4. /\ t \in DOMAIN timelines /\ timelines[t].sketch = x.sketch
            /\ timelines[t].state \in {"new", "empty", "fail"}
        BY <4>3, Typed DEF Live, IInv, Timeline, TimelineStates
      <4>5. CASE timelines[t].state = "new"
        BY <4>3, <4>5, <1>1 DEF Blamed
      <4>6. CASE timelines[t].state \in {"empty", "fail"}
        BY <4>4, <4>6, <1>1, <1>2 DEF Blamed, world, ImportOK, Placed
      <4>7. QED
        BY <4>4, <4>5, <4>6
    <3>4. QED
      BY <3>1, <3>2, <3>3, <1>1, <1>2 DEF ImportOK, Guiltless
  <2>8. Guiltless(w, y)'
    BY <2>2, <2>7 DEF Guiltless
  <2>9. QED
    BY <1>1, <2>2, <2>3, <2>4, <2>6, <2>8, Onward DEF Sketchless
<1>6. QED
  BY <1>4, <1>5 DEF Verify

LEMMA RecordStep ==
  ASSUME IInv, Record
  PROVE  IInv'
<1> DEFINE w == Worker
<1> PICK x : x = imp[w]
  OBVIOUS
<1> PICK verdict : verdict = IF x.ready THEN "ok" ELSE "bad"
  OBVIOUS
<1>1. /\ x.at = "report" /\ x.at \notin Sketchless /\ Ends(w, verdict)
      /\ UNCHANGED <<world, jobs, session, repair, faults, history>>
  BY DEF Record, Sketchless
<1>2. w \in Importers /\ ImportOK(w, x) /\ x.of \in Files
  BY <1>1, AtWork
<1>3. IF verdict = "ok" THEN x.of \in pruned \/ Backed(x.of) ELSE Calm => Blamed(x.of)
  BY <1>1, <1>2 DEF ImportOK, Proven, Guiltless
<1>4. /\ imp' = [imp EXCEPT ![w] = Rest(w)]
      /\ result' \in [Items -> {"none", "ok", "bad"}]
      /\ \A f \in Files :
           \/ result'[f] = result[f]
           \/ result'[f] = "ok" /\ (f \in pruned \/ Backed(f))
           \/ result'[f] = "bad" /\ (faults' > 0 \/ (Calm => Blamed(f)))
  BY <1>1, <1>2, <1>3, Ended
<1>5. Step(w) /\ Kept
  BY <1>1, <1>4 DEF Step, Kept, world, history, IInv, TypeOK
<1>6. QED
  BY <1>2, <1>4, <1>5, Resting, Moves

LEMMA WorkerCrashStep ==
  ASSUME IInv, WorkerCrash
  PROVE  IInv'
<1> USE BoundAssumption
<1>1. Worker \in Importers /\ imp' = [imp EXCEPT ![Worker] = Rest(Worker)]
  BY DEF Importers, WorkerCrash, Rest
<1>2. faults' \in Nat /\ faults' > 0 /\ faults <= faults' /\ session' \in [Sessions -> Clients]
  <2>1. faults \in Nat /\ session \in [Sessions -> Clients] /\ "none" \in Clients
    BY DEF Clients, IInv, TypeOK
  <2>2. faults' = faults + 1 /\ session' = [session EXCEPT !["worker"] = "none"]
    BY DEF WorkerCrash, Fault
  <2>3. faults' \in Nat /\ faults' > 0 /\ faults <= faults'
    BY <2>1, <2>2
  <2>4. session' \in [Sessions -> Clients]
    BY <2>1, <2>2
  <2>5. QED
    BY <2>3, <2>4
<1>3. Step(Worker)
  BY <1>2 DEF WorkerCrash, Step, world, history
<1>4. Kept
  BY <1>2 DEF WorkerCrash, Kept, world, history, IInv, TypeOK
<1>5. QED
  BY <1>1, <1>3, <1>4, Resting, Moves
-----------------------------------------------------------------------------
(***************************************************************************)
(* Timesketch and the repair script leave the imports where they are       *)
(***************************************************************************)
LEMMA Relabelled ==
  ASSUME TypeOK, NEW t \in DOMAIN timelines, NEW s \in TimelineStates,
         timelines' = [timelines EXCEPT ![t].state = s]
  PROVE  /\ timelines' \in Seq(Timeline)
         /\ DOMAIN timelines' = DOMAIN timelines
         /\ \A u \in DOMAIN timelines :
              /\ timelines'[u].of = timelines[u].of
              /\ timelines'[u].sketch = timelines[u].sketch
              /\ timelines'[u].state = IF u = t THEN s ELSE timelines[u].state
<1>1. /\ timelines \in Seq(Timeline) /\ timelines[t] \in Timeline
      /\ DOMAIN timelines = 1 .. Len(timelines)
      /\ \A u \in DOMAIN timelines : timelines[u] \in Timeline
  BY Typed
<1>2. PICK e : e = [timelines[t] EXCEPT !.state = s]
  OBVIOUS
<1>3. e \in Timeline /\ e.state = s /\ e.of = timelines[t].of /\ e.sketch = timelines[t].sketch
  BY <1>1, <1>2 DEF Timeline
<1>4. timelines' = [timelines EXCEPT ![t] = e]
  BY <1>1, <1>2
<1>5. timelines' \in Seq(Timeline)
  BY <1>1, <1>3, <1>4, ExceptSeq
<1>6. QED
  BY <1>1, <1>3, <1>4, <1>5

LEMMA IndexStep ==
  ASSUME IInv, NEW t \in DOMAIN timelines, Index(t)
  PROVE  IInv'
<1> USE CaseAssumption, ItemAssumption
<1> DEFINE T == DOMAIN timelines
<1>1. /\ timelines[t].state \in {"new", "filling"}
      /\ UNCHANGED <<sketches, pending, jobs, session, imp, result, repair, faults, history>>
  BY DEF Index, Outcomes
<1>2. PICK s \in Outcomes[timelines[t].state] : timelines' = [timelines EXCEPT ![t].state = s]
  BY DEF Index
<1>3. s \in {"filling", "empty", "fail", "ready"}
  BY <1>1, <1>2 DEF Outcomes
<1>4. /\ timelines' \in Seq(Timeline) /\ DOMAIN timelines' = T
      /\ \A u \in T : /\ timelines'[u].of = timelines[u].of
                      /\ timelines'[u].sketch = timelines[u].sketch
                      /\ timelines'[u].state = IF u = t THEN s ELSE timelines[u].state
  <2>1. s \in TimelineStates /\ TypeOK
    BY <1>3 DEF TimelineStates, IInv
  <2>2. QED
    BY <1>2, <2>1, Relabelled
<1>5. TypeOK'
  BY <1>1, <1>4 DEF IInv, TypeOK, history, Timeline
<1>6. \A u \in T : /\ timelines[u].state \in {"ready", "empty", "fail"} =>
                        timelines'[u].state = timelines[u].state
                   /\ timelines[u].state # "deleted" => timelines'[u].state # "deleted"
  BY <1>1, <1>3, <1>4
<1>7. \A f : /\ Without(f) => Without(f)'
             /\ Backed(f) => Backed(f)'
             /\ Blamed(f) => Blamed(f)'
             /\ Covered(f)' = Covered(f)
  BY <1>1, <1>4, <1>6 DEF Without, Backed, Blamed, Covered, history
<1>8. Calm' = Calm
  BY <1>1 DEF Calm
<1>9. World'
  <2>1. TimelinesOK'
    BY <1>1, <1>4 DEF IInv, World, TimelinesOK
  <2>2. SketchPerCase'
    BY <1>1 DEF IInv, World, SketchPerCase, history
  <2>3. OneEach'
    BY <1>4, <1>7 DEF IInv, World, OneEach
  <2>4. OkIsBacked'
    <3>1. \A f \in Files \ pruned : result[f] = "ok" => Backed(f)
      BY DEF IInv, World, OkIsBacked, Backed
    <3>2. \A f \in Files \ pruned' : result'[f] = "ok" => Backed(f)'
      BY <3>1, <1>1, <1>7 DEF history
    <3>3. QED
      BY <3>2 DEF OkIsBacked, Backed
  <2>5. BadIsExplained'
    <3>1. \A f \in Files : result[f] = "bad" /\ Calm => Blamed(f)
      BY DEF IInv, World, BadIsExplained, Blamed, Calm
    <3>2. \A f \in Files : result'[f] = "bad" /\ Calm' => Blamed(f)'
      BY <3>1, <1>1, <1>7, <1>8
    <3>3. QED
      BY <3>2 DEF BadIsExplained, Blamed, Calm
  <2>6. RepairOK'
    BY <1>1, <1>4 DEF IInv, World, RepairOK
  <2>7. CalmWorld'
    BY <1>1, <1>4, <1>6, <1>8 DEF IInv, World, CalmWorld
  <2>8. PendingOK'
    BY <1>1 DEF IInv, World, PendingOK, history
  <2>9. QED
    BY <2>1, <2>2, <2>3, <2>4, <2>5, <2>6, <2>7, <2>8 DEF World
<1>10. ASSUME NEW v \in Importers PROVE ImportOK(v, imp[v])'
  <2>1. PICK x : x = imp[v]
    OBVIOUS
  <2>2. ImportOK(v, x) /\ imp'[v] = x
    BY <1>1, <2>1 DEF IInv
  <2>3. State(x.timeline) = "ready" => State(x.timeline)' = "ready"
    BY <1>4, <1>6 DEF State
  <2>4. Who(v, x)' /\ Placed(v, x)' /\ Unseen(v, x)' /\ Held(v, x)'
    BY <2>2, <1>1, <1>4 DEF ImportOK, Who, Placed, Unseen, Held, history
  <2>5. First(v, x)' /\ Proven(v, x)'
    BY <2>2, <1>1, <1>7 DEF ImportOK, First, Proven, history
  <2>6. Guiltless(v, x)'
    BY <2>2, <2>3, <1>7, <1>8 DEF ImportOK, Guiltless
  <2>7. QED
    BY <2>2, <2>4, <2>5, <2>6 DEF ImportOK
<1>11. QED
  BY <1>5, <1>9, <1>10 DEF IInv

\* A creation applied late adds a sketch that its importer does not know of.
LEMMA CreateLateStep ==
  ASSUME IInv, NEW p \in pending, CreateLate(p)
  PROVE  IInv'
<1> USE CaseAssumption, ItemAssumption
<1> DEFINE J == DOMAIN sketches
<1>1. /\ sketches' = Append(sketches, p) /\ pending' = pending \ {p}
      /\ UNCHANGED <<timelines, jobs, session, imp, result, repair, faults, history>>
  BY DEF CreateLate
<1>2. /\ sketches' \in Seq(Sketch) /\ p \in Sketch /\ p.late
      /\ Len(sketches) \in Nat /\ Len(sketches') = Len(sketches) + 1
      /\ J = 1 .. Len(sketches) /\ DOMAIN sketches' = 1 .. Len(sketches) + 1
      /\ \A i \in J : sketches'[i] = sketches[i]
      /\ sketches'[Len(sketches) + 1] = p
  <2>1. p \in Sketch /\ sketches \in Seq(Sketch) /\ p.late
    BY Typed DEF IInv, World, PendingOK
  <2>2. QED
    BY <1>1, <2>1, Appended
<1>3. TypeOK'
  BY <1>1, <1>2 DEF IInv, TypeOK, history
<1>4. \A f : /\ Without(f)' = Without(f) /\ Covered(f)' = Covered(f)
             /\ Backed(f) => Backed(f)'
             /\ Blamed(f) => Blamed(f)'
  BY <1>1, <1>2 DEF Without, Covered, Backed, Blamed, IInv, World, TimelinesOK, history
<1>5. Calm' = Calm /\ \A t : State(t)' = State(t)
  BY <1>1 DEF Calm, State
<1>6. PendingOK'
  <2> SUFFICES ASSUME NEW q \in pending'
               PROVE  /\ q.late /\ q.listed <= Len(sketches')
                      /\ \A i \in DOMAIN sketches' : sketches'[i].case = q.case =>
                           q.listed < i \/ (q.by \in Reports
                                            /\ (q.listed > PageSize \/ q.by \in blinded'))
    BY DEF PendingOK
  <2>1. /\ q.late /\ q.listed <= Len(sketches) /\ q.listed \in Nat
        /\ \A i \in J : sketches[i].case = q.case =>
             q.listed < i \/ (q.by \in Reports /\ (q.listed > PageSize \/ q.by \in blinded))
    BY <1>1, Typed DEF IInv, World, PendingOK, Sketch
  <2>2. QED
    BY <1>1, <1>2, <2>1 DEF history
<1>7. SketchPerCase'
  <2> SUFFICES ASSUME NEW i \in DOMAIN sketches', NEW j \in DOMAIN sketches', i < j,
                      sketches'[i].case = sketches'[j].case
               PROVE  /\ sketches'[i].by # sketches'[j].by
                         \/ sketches'[i].late \/ sketches'[j].late
                      /\ \/ sketches'[j].listed < i
                         \/ sketches'[j].by \in Reports
                            /\ (sketches'[j].listed > PageSize \/ sketches'[j].by \in blinded')
    BY DEF SketchPerCase
  <2>1. i \in J
    BY <1>2
  <2>2. CASE j \in J
    BY <2>1, <2>2, <1>1, <1>2 DEF IInv, World, SketchPerCase, history
  <2>3. CASE j \notin J
    <3>1. j = Len(sketches) + 1 /\ sketches'[j] = p /\ sketches[i].case = p.case
      BY <2>1, <2>3, <1>2
    <3>2. QED
      BY <2>1, <3>1, <1>1, <1>2 DEF IInv, World, PendingOK, history
  <2>4. QED
    BY <2>2, <2>3
<1>8. World'
  <2>1. TimelinesOK'
    BY <1>1, <1>2 DEF IInv, World, TimelinesOK
  <2>2. OneEach' /\ RepairOK' /\ CalmWorld'
    BY <1>1, <1>4, <1>5 DEF IInv, World, OneEach, RepairOK, CalmWorld
  <2>3. OkIsBacked'
    <3>1. \A f \in Files \ pruned : result[f] = "ok" => Backed(f)
      BY DEF IInv, World, OkIsBacked, Backed
    <3>2. \A f \in Files \ pruned' : result'[f] = "ok" => Backed(f)'
      BY <3>1, <1>1, <1>4 DEF history
    <3>3. QED
      BY <3>2 DEF OkIsBacked, Backed
  <2>4. BadIsExplained'
    <3>1. \A f \in Files : result[f] = "bad" /\ Calm => Blamed(f)
      BY DEF IInv, World, BadIsExplained, Blamed, Calm
    <3>2. \A f \in Files : result'[f] = "bad" /\ Calm' => Blamed(f)'
      BY <3>1, <1>1, <1>4, <1>5
    <3>3. QED
      BY <3>2 DEF BadIsExplained, Blamed, Calm
  <2>5. QED
    BY <1>6, <1>7, <2>1, <2>2, <2>3, <2>4 DEF World
<1>9. ASSUME NEW v \in Importers PROVE ImportOK(v, imp[v])'
  <2>1. PICK x : x = imp[v]
    OBVIOUS
  <2>2. ImportOK(v, x) /\ imp'[v] = x
    BY <1>1, <2>1 DEF IInv
  <2>3. Who(v, x)' /\ Placed(v, x)' /\ Held(v, x)'
    BY <2>2, <1>1, <1>2 DEF ImportOK, Who, Placed, Held
  <2>4. Unseen(v, x)'
    <3>1. x.listed \in Nat
      BY <2>2 DEF ImportOK, Who, Import
    <3>2. Unseen(v, x) /\ blinded' = blinded
      BY <2>2, <1>1 DEF ImportOK, history
    <3>3. QED
      BY <3>1, <3>2, <1>2 DEF Unseen
  <2>5. First(v, x)' /\ Proven(v, x)'
    BY <2>2, <1>1, <1>4 DEF ImportOK, First, Proven, history
  <2>6. Guiltless(v, x)'
    BY <2>2, <1>4, <1>5 DEF ImportOK, Guiltless
  <2>7. QED
    BY <2>2, <2>3, <2>4, <2>5, <2>6 DEF ImportOK
<1>10. QED
  BY <1>3, <1>8, <1>9 DEF IInv

\* A step of the script that does not touch the timelines.
LEMMA RepairKeeps ==
  ASSUME IInv, UNCHANGED <<world, session, imp, result, history>>,
         repair' \in Repairs,
         jobs' \in [Files -> Nat], faults' \in Nat, RepairOK', ~Calm'
  PROVE  IInv'
<1> USE DEF Repairs
<1>1. TypeOK'
  BY DEF IInv, TypeOK, world, history
<1>2. World'
  BY DEF IInv, World, TimelinesOK, PendingOK, SketchPerCase, OneEach, Covered, OkIsBacked, BadIsExplained,
         CalmWorld, Calm, world, history
<1>3. ASSUME NEW v \in Importers PROVE ImportOK(v, imp[v])'
  <2>1. PICK x : x = imp[v]
    OBVIOUS
  <2>2. ImportOK(v, x) /\ imp'[v] = x
    BY <2>1 DEF IInv
  <2>3. Who(v, x)' /\ Placed(v, x)' /\ Unseen(v, x)' /\ Held(v, x)'
    BY <2>2 DEF ImportOK, Who, Placed, Unseen, Held, world, history
  <2>4. First(v, x)' /\ Proven(v, x)' /\ Guiltless(v, x)'
    BY <2>2 DEF ImportOK, First, Covered, Without, Proven, Backed, Guiltless, world, history
  <2>5. QED
    BY <2>2, <2>3, <2>4 DEF ImportOK
<1>4. QED
  BY <1>1, <1>2, <1>3 DEF IInv

\* The script is at work: the world is not calm, and stays so.
LEMMA NotCalm ==
  ASSUME IInv, repair.at = "pruning", repair'.passes = repair.passes, faults' = faults \/ Fault
  PROVE  ~Calm' /\ faults' \in Nat /\ repair.left \subseteq Nat /\ repair.doomed \in Nat
         /\ repair.passes \in Nat
<1> USE DEF Repairs
<1>1. faults \in Nat /\ repair.left \subseteq Nat /\ repair.doomed \in Nat /\ repair.passes \in Nat
  BY DEF IInv, TypeOK
<1>2. ~Calm
  BY DEF IInv, World, CalmWorld
<1>3. faults' \in Nat /\ faults <= faults'
  BY <1>1 DEF Fault
<1>4. QED
  BY <1>1, <1>2, <1>3 DEF Calm

LEMMA RepairStartStep ==
  ASSUME IInv, RepairStart
  PROVE  IInv'
<1> USE DEF Repairs
<1>1. PICK page \in FirstPages :
        repair' = [at |-> "pruning", unread |-> page, left |-> {},
                   doomed |-> 0, passes |-> repair.passes + 1]
  BY DEF RepairStart
<1>2. page \subseteq DOMAIN sketches
  BY DEF FirstPages
<1>3. /\ DOMAIN sketches \subseteq Nat /\ repair.passes \in Nat
      /\ jobs \in [Files -> Nat] /\ faults \in Nat
      /\ UNCHANGED <<world, jobs, session, imp, result, faults, history>>
  BY Typed DEF IInv, TypeOK, RepairStart
<1>4. repair' \in Repairs
  BY <1>1, <1>2, <1>3
<1>5. RepairOK'
  BY <1>1 DEF RepairOK
<1>6. ~Calm'
  BY <1>1, <1>3 DEF Calm
<1>7. QED
  BY <1>3, <1>4, <1>5, <1>6, RepairKeeps

LEMMA RepairReadStep ==
  ASSUME IInv, NEW i \in repair.unread, RepairRead(i)
  PROVE  IInv'
<1> USE DEF Repairs
<1>1. /\ repair.at = "pruning" /\ repair.left = {}
      /\ repair' = [repair EXCEPT !.unread = @ \ {i}, !.left = Live(i)]
      /\ UNCHANGED <<world, jobs, session, imp, result, faults, history>>
  BY DEF RepairRead
<1>2. /\ repair \in Repairs /\ repair.doomed = 0 /\ jobs \in [Files -> Nat]
      /\ Live(i) \subseteq DOMAIN timelines /\ DOMAIN timelines \subseteq Nat
  BY <1>1, Typed DEF IInv, TypeOK, World, RepairOK, Live
<1>3. repair' \in Repairs /\ repair'.passes = repair.passes
  BY <1>1, <1>2
<1>4. repair'.at = "pruning" /\ repair'.left = Live(i) /\ repair'.doomed = 0
  BY <1>1, <1>2
<1>5. RepairOK'
  BY <1>1, <1>2, <1>4 DEF RepairOK, world
<1>6. QED
  BY <1>1, <1>2, <1>3, <1>5, NotCalm, RepairKeeps

LEMMA RepairLookStep ==
  ASSUME IInv, NEW t \in repair.left, RepairLook(t)
  PROVE  IInv'
<1> USE DEF Repairs
<1>1. /\ repair.at = "pruning" /\ repair.doomed = 0
      /\ repair' \in {[repair EXCEPT !.doomed = t], [repair EXCEPT !.left = @ \ {t}]}
      /\ faults' = faults \/ Fault
      /\ UNCHANGED <<world, jobs, session, imp, result, history>>
  BY DEF RepairLook, Right
<1>2. /\ repair \in Repairs
      /\ repair.left \subseteq DOMAIN timelines /\ jobs \in [Files -> Nat]
  BY DEF IInv, TypeOK, World, RepairOK
<1>3. t \in Nat
  BY <1>2
<1>4. repair'.passes = repair.passes
  BY <1>1, <1>2
<1>5. repair' \in Repairs
  BY <1>1, <1>2, <1>3
<1>6. RepairOK'
  BY <1>1, <1>2 DEF RepairOK, world
<1>7. QED
  BY <1>1, <1>2, <1>4, <1>5, <1>6, NotCalm, RepairKeeps

LEMMA RepairRequeueStep ==
  ASSUME IInv, RepairRequeue
  PROVE  IInv'
<1> USE DEF Repairs
<1>1. /\ repair.at = "pruning" /\ repair.unread \cup repair.left = {}
      /\ repair' = [repair EXCEPT !.at = "idle"]
      /\ jobs' = [f \in Files |-> jobs[f] + IF result[f] = "bad" THEN 1 ELSE 0]
      /\ UNCHANGED <<world, session, imp, result, faults, history>>
  BY DEF RepairRequeue
<1>2. /\ repair \in Repairs
      /\ repair.doomed = 0 /\ jobs \in [Files -> Nat]
  BY <1>1 DEF IInv, TypeOK, World, RepairOK
<1>3. repair' \in Repairs
      /\ repair'.passes = repair.passes /\ jobs' \in [Files -> Nat]
  BY <1>1, <1>2
<1>4. RepairOK'
  BY <1>1, <1>2 DEF RepairOK
<1>5. QED
  BY <1>1, <1>3, <1>4, NotCalm, RepairKeeps

LEMMA RepairAbortStep ==
  ASSUME IInv, RepairAbort
  PROVE  IInv'
<1> USE DEF Repairs
<1>1. /\ repair.at = "pruning" /\ Fault
      /\ repair' = [repair EXCEPT !.at = "idle", !.unread = {}, !.left = {}, !.doomed = 0]
      /\ UNCHANGED <<world, jobs, session, imp, result, history>>
  BY DEF RepairAbort
<1>2. /\ repair \in Repairs
      /\ jobs \in [Files -> Nat]
  BY DEF IInv, TypeOK
<1>3. repair' \in Repairs
      /\ repair'.passes = repair.passes
  BY <1>1, <1>2
<1>4. RepairOK'
  BY <1>1, <1>2 DEF RepairOK
<1>5. QED
  BY <1>1, <1>2, <1>3, <1>4, NotCalm, RepairKeeps
LEMMA RepairDeleteStep ==
  ASSUME IInv, RepairDelete
  PROVE  IInv'
<1> USE DEF Repairs
<1> USE CaseAssumption, ItemAssumption
<1> DEFINE T == DOMAIN timelines
<1>a. PICK t : t = repair.doomed
  OBVIOUS
<1>1. /\ t # 0 /\ repair' = [repair EXCEPT !.doomed = 0, !.left = @ \ {t}]
      /\ UNCHANGED <<sketches, pending, jobs, session, imp, result, ambiguous, again, hasty, blinded>>
  BY <1>a DEF RepairDelete
<1>2. /\ repair \in Repairs
      /\ repair.at = "pruning" /\ t \in repair.left /\ repair.left \subseteq T
      /\ jobs \in [Files -> Nat]
  BY <1>a, <1>1 DEF IInv, TypeOK, World, RepairOK
<1>3. /\ repair' \in Repairs
      /\ repair'.passes = repair.passes /\ repair'.doomed = 0 /\ repair'.left \subseteq T
      /\ repair'.at = "pruning"
  BY <1>1, <1>2
<1>4. CASE Fault /\ UNCHANGED <<timelines, pruned>>
  <2>1. RepairOK'
    BY <1>3, <1>4 DEF RepairOK
  <2>2. QED
    BY <1>1, <1>2, <1>3, <1>4, <2>1, NotCalm, RepairKeeps DEF world, history
<1>5. CASE /\ Right /\ timelines' = [timelines EXCEPT ![t].state = "deleted"]
           /\ pruned' = IF timelines[t].state = "ready"
                        THEN pruned \cup {timelines[t].of} ELSE pruned
  <2>1. /\ timelines' \in Seq(Timeline) /\ DOMAIN timelines' = T
        /\ \A u \in T : /\ timelines'[u].of = timelines[u].of
                        /\ timelines'[u].sketch = timelines[u].sketch
                        /\ timelines'[u].state = IF u = t THEN "deleted" ELSE timelines[u].state
    <3>1. PICK s \in TimelineStates : s = "deleted"
      BY DEF TimelineStates
    <3>2. t \in DOMAIN timelines /\ TypeOK /\ timelines' = [timelines EXCEPT ![t].state = s]
      BY <1>2, <1>5, <3>1 DEF IInv
    <3>3. /\ timelines' \in Seq(Timeline) /\ DOMAIN timelines' = DOMAIN timelines
          /\ \A u \in DOMAIN timelines :
               /\ timelines'[u].of = timelines[u].of
               /\ timelines'[u].sketch = timelines[u].sketch
               /\ timelines'[u].state = IF u = t THEN s ELSE timelines[u].state
      BY <3>2, Relabelled
    <3>4. QED
      BY <3>1, <3>3
  <2>2. ~Calm' /\ faults' \in Nat
    BY <1>2, <1>3, <1>5, NotCalm DEF Right
  <2>3. timelines[t].of \in Items
    BY <1>2, Typed DEF IInv, Timeline
  <2>4. TypeOK'
    BY <1>1, <1>3, <1>5, <2>1, <2>2, <2>3 DEF IInv, TypeOK, Timeline
  <2>5. \A f : /\ Without(f) => Without(f)'
               /\ Covered(f)' = Covered(f)
               /\ f \in pruned \/ Backed(f) => f \in pruned' \/ Backed(f)'
    <3>1. \A f : Without(f) => Without(f)'
      BY <2>1 DEF Without
    <3>2. \A f : Covered(f)' = Covered(f)
      BY <1>1 DEF Covered
    <3>3. ASSUME NEW f, f \in pruned \/ Backed(f)
          PROVE  f \in pruned' \/ Backed(f)'
      <4>1. pruned \subseteq pruned'
        BY <1>5
      <4>2. ASSUME NEW u \in T, timelines[u].of = f, timelines[u].state = "ready",
                   sketches[timelines[u].sketch].case = CaseOf[f]
            PROVE  f \in pruned' \/ Backed(f)'
        <5>1. CASE u = t
          BY <4>2, <5>1, <1>5
        <5>2. CASE u # t
          BY <4>2, <5>2, <1>1, <2>1 DEF Backed
        <5>3. QED
          BY <5>1, <5>2
      <4>3. QED
        BY <3>3, <4>1, <4>2 DEF Backed
    <3>4. QED
      BY <3>1, <3>2, <3>3
  <2>6. World'
    <3>1. TimelinesOK'
      BY <1>1, <2>1 DEF IInv, World, TimelinesOK
    <3>2. SketchPerCase'
      BY <1>1 DEF IInv, World, SketchPerCase
    <3>3. OneEach'
      BY <2>1, <2>5 DEF IInv, World, OneEach
    <3>4. OkIsBacked'
      <4>1. \A f \in Files : result[f] = "ok" => f \in pruned \/ Backed(f)
        BY DEF IInv, World, OkIsBacked, Backed
      <4>2. \A f \in Files : result'[f] = "ok" => f \in pruned' \/ Backed(f)'
        BY <4>1, <1>1, <2>5
      <4>3. QED
        BY <4>2 DEF OkIsBacked, Backed
    <3>5. BadIsExplained' /\ CalmWorld'
      BY <2>2 DEF BadIsExplained, CalmWorld, Calm
    <3>6. RepairOK'
      BY <1>3, <2>1 DEF RepairOK
    <3>7. PendingOK'
      BY <1>1 DEF IInv, World, PendingOK
    <3>8. QED
      BY <3>1, <3>2, <3>3, <3>4, <3>5, <3>6, <3>7 DEF World
  <2>7. ASSUME NEW v \in Importers PROVE ImportOK(v, imp[v])'
    <3>1. PICK x : x = imp[v]
      OBVIOUS
    <3>2. ImportOK(v, x) /\ imp'[v] = x
      BY <1>1, <3>1 DEF IInv
    <3>3. Who(v, x)' /\ Placed(v, x)' /\ Unseen(v, x)' /\ Held(v, x)'
      BY <3>2, <1>1, <2>1 DEF ImportOK, Who, Placed, Unseen, Held
    <3>4. First(v, x)' /\ Proven(v, x)'
      BY <3>2, <2>5 DEF ImportOK, First, Proven
    <3>5. Guiltless(v, x)'
      BY <2>2 DEF Guiltless
    <3>6. QED
      BY <3>2, <3>3, <3>4, <3>5 DEF ImportOK
  <2>8. QED
    BY <2>4, <2>6, <2>7 DEF IInv
<1>6. QED
  BY <1>a, <1>4, <1>5 DEF RepairDelete

-----------------------------------------------------------------------------
(***************************************************************************)
(* The invariant                                                           *)
(***************************************************************************)
LEMMA Initially == Init => IInv
<1> USE ItemAssumption, BoundAssumption
<1> SUFFICES ASSUME Init PROVE IInv
  OBVIOUS
<1>1. /\ sketches \in Seq(Sketch) /\ timelines \in Seq(Timeline)
      /\ DOMAIN sketches = {} /\ DOMAIN timelines = {} /\ pending = {}
  BY EmptySeq DEF Init
<1>2. \A w \in Importers : Begun(w, "idle") \in Import
  BY DEF Begun, Import, Importers, Items, Places
<1>3. TypeOK
  BY <1>1, <1>2 DEF TypeOK, Init, Sketch, Timeline, Clients
<1>4. World
  <2>1. TimelinesOK /\ PendingOK /\ SketchPerCase /\ OneEach
    BY <1>1 DEF TimelinesOK, PendingOK, SketchPerCase, OneEach
  <2>2. \A f \in Files : result[f] = "none"
    BY DEF Init, Items
  <2>3. OkIsBacked /\ BadIsExplained
    BY <2>2 DEF OkIsBacked, BadIsExplained
  <2>4. RepairOK /\ CalmWorld
    BY <1>1 DEF RepairOK, CalmWorld, Init
  <2>5. QED
    BY <2>1, <2>3, <2>4 DEF World
<1>5. ASSUME NEW w \in Importers PROVE ImportOK(w, imp[w])
  <2>1. PICK x : x = Begun(w, "idle")
    OBVIOUS
  <2>2. imp[w] = x /\ x \in Import /\ x.of = w /\ x.at = "idle" /\ x.timeline = 0 /\ ~x.ready
    BY <1>2, <2>1 DEF Init, Begun
  <2>3. QED
    BY <1>1, <2>2 DEF ImportOK, Who, Placed, Unseen, Held, First, Proven, Guiltless, Sketchless,
                      ReportPlaces, Importers, Items
<1>6. QED
  BY <1>3, <1>4, <1>5 DEF IInv

LEMMA NextKeeps == IInv /\ [Next]_vars => IInv'
<1> SUFFICES ASSUME IInv, [Next]_vars PROVE IInv'
  OBVIOUS
<1>1. CASE UNCHANGED vars
  <2>1. /\ UNCHANGED <<world, session, imp, result, history>>
        /\ UNCHANGED <<jobs, repair, faults>>
    BY <1>1 DEF vars, world, history
  <2>2. TypeOK'
    BY <2>1 DEF IInv, TypeOK, world, history
  <2>3. World'
    BY <2>1 DEF IInv, World, TimelinesOK, PendingOK, SketchPerCase, OneEach, Covered, OkIsBacked,
                BadIsExplained, RepairOK, CalmWorld, Calm, world, history
  <2>4. ASSUME NEW v \in Importers PROVE ImportOK(v, imp[v])'
    BY <2>1 DEF IInv, ImportOK, Who, Placed, Unseen, Held, First, Covered, Without, Proven, Backed,
                Guiltless, Blamed, Calm, State, world, history
  <2>5. QED
    BY <2>2, <2>3, <2>4 DEF IInv
<1>2. ASSUME NEW w \in Importers, Reach(w) PROVE IInv'
  BY <1>2, ReuseClientStep, LoginStep, ListSketchesStep, CreateSketchStep DEF Reach
<1>3. CASE WorkerStep
  <2>1. Worker \in Importers
    BY DEF Importers
  <2>2. QED
    BY <1>2, <1>3, <2>1, TakeJobStep, PostCsvStep, SkipCsvStep, FallbackStep, PostPlasoStep,
       WaitPlasoStep, WaitReadyStep, VerifyStep, RecordStep DEF WorkerStep
<1>4. CASE WorkerCrash
  BY <1>4, WorkerCrashStep
<1>5. CASE RepairStep
  BY <1>5, RepairStartStep, RepairReadStep, RepairLookStep, RepairDeleteStep, RepairRequeueStep, RepairAbortStep
     DEF RepairStep
<1>6. ASSUME NEW r \in Reports, Export(r) \/ ReportStep(r) PROVE IInv'
  <2>1. r \in Importers
    BY DEF Importers
  <2>2. QED
    BY <1>2, <1>6, <2>1, ExportStep, PostReportStep DEF ReportStep
<1>7. ASSUME NEW t \in DOMAIN timelines, Index(t) PROVE IInv'
  BY <1>7, IndexStep
<1>8. ASSUME NEW p \in pending, CreateLate(p) PROVE IInv'
  BY <1>8, CreateLateStep
<1>9. QED
  BY <1>1, <1>3, <1>4, <1>5, <1>6, <1>7, <1>8 DEF Next

THEOREM Invariance == Spec => []IInv
  BY Initially, NextKeeps, PTL DEF Spec

(***************************************************************************)
(* Every variable keeps its type.                                          *)
(***************************************************************************)
THEOREM TypeCorrect == Spec => []TypeOK
<1>1. IInv => TypeOK
  BY DEF IInv
<1>2. QED
  BY <1>1, Invariance, PTL

(***************************************************************************)
(* get_or_create_sketch and importToTimesketch give a case a second sketch *)
(* only when they overlap, the page is too short or the list was an error. *)
(***************************************************************************)
THEOREM SketchCorrect == Spec => []SketchPerCase
<1>1. IInv => SketchPerCase
  BY DEF IInv, World
<1>2. QED
  BY <1>1, Invariance, PTL

(***************************************************************************)
(* An upload shown as imported has a timeline with events in its case.     *)
(***************************************************************************)
THEOREM BackedCorrect == Spec => []OkIsBacked
<1>1. IInv => OkIsBacked
  BY DEF IInv, World
<1>2. QED
  BY <1>1, Invariance, PTL

(***************************************************************************)
(* An import that does not end well without incident has a bad timeline, a *)
(* file without rows or a wait that was too short to blame.                *)
(***************************************************************************)
THEOREM BadCorrect == Spec => []BadIsExplained
<1>1. IInv => BadIsExplained
  BY DEF IInv, World
<1>2. QED
  BY <1>1, Invariance, PTL

(***************************************************************************)
(* A file has one timeline, but for the cases OneTimelinePerFile names.    *)
(***************************************************************************)
THEOREM TimelineCorrect == Spec => []OneTimelinePerFile
<1>1. IInv => OneTimelinePerFile
  <2> SUFFICES ASSUME IInv, NEW f \in Files \ (ambiguous \cup again), ~(Plaso /\ f \in Evtx \cap Short)
               PROVE  Cardinality({t \in DOMAIN timelines : timelines[t].of = f}) <= 1
    BY DEF OneTimelinePerFile
  <2> DEFINE S == {t \in DOMAIN timelines : timelines[t].of = f}
  <2>1. \A t, u \in S : t = u
    BY DEF IInv, World, OneEach, Covered
  <2>2. CASE S = {}
    BY <2>2, FS_EmptySet
  <2>3. CASE S # {}
    <3>1. PICK t : t \in S
      BY <2>3
    <3>2. S = {t}
      BY <2>1, <3>1
    <3>3. Cardinality(S) = 1
      BY <3>2, FS_Singleton
    <3>4. QED
      BY <3>3
  <2>4. QED
    BY <2>2, <2>3
<1>2. QED
  BY <1>1, Invariance, PTL

-----------------------------------------------------------------------------
(***************************************************************************)
(* How far an import is from its end                                       *)
(***************************************************************************)
AtRest(i) == i.at \in {"idle", "done"}

\* Attempts that are left, so that a distance is a natural number.
TriesOK == \A w \in Importers : imp[w].tries < Retries

\* What one step may make of the import x: its end, a call further on, or one
\* more attempt of its upload.
Nearer(x, y) ==
  \/ AtRest(y) /\ y.tries = 0
  \/ ~AtRest(y) /\ CallsAhead[y.at] < CallsAhead[x.at] /\ y.tries = x.tries
  \/ y.at = x.at /\ y.tries = x.tries + 1 /\ y.tries < Retries

\* A step of importer w alone.
Advances(w) ==
  /\ \A v \in Importers \ {w} : imp'[v] = imp[v]
  /\ \/ imp'[w] = imp[w]
     \/ imp[w].at = "idle" /\ imp'[w].tries \in {0, imp[w].tries}
     \/ ~AtRest(imp[w]) /\ Nearer(imp[w], imp'[w])

LEMMA CallsInOrder ==
  /\ CallsAhead["client"] = 10 /\ CallsAhead["list"] = 9 /\ CallsAhead["create"] = 8
  /\ CallsAhead["upload"] = 7 /\ CallsAhead["fallback"] = 6 /\ CallsAhead["plaso"] = 5
  /\ CallsAhead["plasoWait"] = 4 /\ CallsAhead["wait"] = 3 /\ CallsAhead["verify"] = 2
  /\ CallsAhead["report"] = 1
BY DEF CallsAhead

LEMMA CallsAreFew ==
  ASSUME NEW x \in Import, ~AtRest(x)
  PROVE  CallsAhead[x.at] \in 1 .. 10
<1>1. x.at \in Places \ {"idle", "done"}
  BY DEF AtRest, Import
<1>2. QED
  BY <1>1, CallsInOrder DEF Places

\* The measure follows from the three cases of a step.
LEMMA NearerIsCloser ==
  ASSUME NEW x \in Import, NEW y \in Import, x.tries < Retries, ~AtRest(x), Nearer(x, y)
  PROVE  y.tries < Retries /\ Distance(y) \in 0 .. Distance(x) - 1
<1>1. x.tries \in Nat /\ y.tries \in Nat /\ Retries \in Nat \ {0}
  BY BoundAssumption DEF Import
<1>2. CallsAhead[x.at] \in 1 .. 10
  BY CallsAreFew
<1>3. Distance(x) = CallsAhead[x.at] + (Retries - x.tries)
  BY DEF Distance, AtRest
<1>4. CASE AtRest(y) /\ y.tries = 0
  BY <1>1, <1>2, <1>3, <1>4 DEF Distance, AtRest
<1>5. CASE ~AtRest(y) /\ CallsAhead[y.at] < CallsAhead[x.at] /\ y.tries = x.tries
  <2>1. CallsAhead[y.at] \in 1 .. 10
    BY <1>5, CallsAreFew
  <2>2. Distance(y) = CallsAhead[y.at] + (Retries - y.tries)
    BY <1>5 DEF Distance, AtRest
  <2>3. QED
    BY <1>1, <1>2, <1>3, <1>5, <2>1, <2>2
<1>6. CASE y.at = x.at /\ y.tries = x.tries + 1 /\ y.tries < Retries
  <2>1. Distance(y) = CallsAhead[x.at] + (Retries - y.tries)
    BY <1>6 DEF Distance, AtRest
  <2>2. QED
    BY <1>1, <1>2, <1>3, <1>6, <2>1
<1>7. QED
  BY <1>4, <1>5, <1>6 DEF Nearer

\* An import that ends, and one that goes to another place.
LEMMA EndsAdvances ==
  ASSUME TypeOK, NEW w \in Importers, ~AtRest(imp[w]), NEW verdict, Ends(w, verdict)
  PROVE  Advances(w)
<1>1. imp' = [imp EXCEPT ![w] = Rest(w)]
  BY DEF Ends
<1>2. AtRest(Rest(w)) /\ Rest(w).tries = 0
  BY DEF Rest, Begun, AtRest
<1>3. imp'[w] = Rest(w) /\ \A v \in Importers \ {w} : imp'[v] = imp[v]
  BY <1>1 DEF TypeOK
<1>4. QED
  BY <1>2, <1>3 DEF Advances, Nearer

LEMMA MoveAdvances ==
  ASSUME TypeOK, NEW w \in Importers, ~AtRest(imp[w]), NEW y, imp' = [imp EXCEPT ![w] = y],
         ~AtRest(y), CallsAhead[y.at] < CallsAhead[imp[w].at], y.tries = imp[w].tries
  PROVE  Advances(w)
<1>1. imp'[w] = y /\ \A v \in Importers \ {w} : imp'[v] = imp[v]
  BY DEF TypeOK
<1>2. QED
  BY <1>1 DEF Advances, Nearer

LEMMA GoesAdvances ==
  ASSUME TypeOK, NEW w \in Importers, ~AtRest(imp[w]), NEW place, Goes(w, place),
         place \notin {"idle", "done"}, CallsAhead[place] < CallsAhead[imp[w].at]
  PROVE  Advances(w)
<1> DEFINE y == [imp[w] EXCEPT !.at = place]
<1>1. imp[w] \in Import
  BY DEF TypeOK
<1>2. y.at = place /\ y.tries = imp[w].tries
  BY <1>1 DEF Import
<1>3. imp' = [imp EXCEPT ![w] = y]
  BY DEF Goes
<1>4. ~AtRest(y)
  BY <1>2 DEF AtRest
<1> HIDE DEF y
<1>5. QED
  BY <1>2, <1>3, <1>4, MoveAdvances

LEMMA UsesAdvances ==
  ASSUME TypeOK, NEW w \in Importers, imp[w].at = "client", NEW auth, Uses(w, auth)
  PROVE  Advances(w)
<1>1. ~AtRest(imp[w])
  BY DEF AtRest
<1>2. CASE auth = "good"
  BY <1>1, <1>2, GoesAdvances, CallsInOrder DEF Uses
<1>3. CASE auth # "good"
  BY <1>1, <1>3, EndsAdvances DEF Uses
<1>4. QED
  BY <1>2, <1>3

LEMMA FindAdvances ==
  ASSUME TypeOK, NEW w \in Importers, imp[w].at = "list", NEW page, FindSketch(w, page)
  PROVE  Advances(w)
<1>1. imp[w] \in Import /\ ~AtRest(imp[w])
  BY DEF TypeOK, AtRest
<1>2. ASSUME NEW i, imp' = [imp EXCEPT ![w].at = "upload", ![w].sketch = i]
      PROVE  Advances(w)
  <2> DEFINE y == [imp[w] EXCEPT !.at = "upload", !.sketch = i]
  <2>1. y.at = "upload" /\ y.tries = imp[w].tries
    BY <1>1 DEF Import
  <2>2. imp' = [imp EXCEPT ![w] = y]
    BY <1>1, <1>2 DEF TypeOK
  <2> HIDE DEF y
  <2>3. ~AtRest(y) /\ CallsAhead[y.at] < CallsAhead[imp[w].at]
    BY <1>1, <2>1, CallsInOrder DEF AtRest
  <2>4. QED
    BY <1>1, <2>1, <2>2, <2>3, MoveAdvances
<1>3. ASSUME imp' = [imp EXCEPT ![w].at = "create", ![w].listed = Len(sketches)]
      PROVE  Advances(w)
  <2> DEFINE y == [imp[w] EXCEPT !.at = "create", !.listed = Len(sketches)]
  <2>1. y.at = "create" /\ y.tries = imp[w].tries
    BY <1>1 DEF Import
  <2>2. imp' = [imp EXCEPT ![w] = y]
    BY <1>1, <1>3 DEF TypeOK
  <2> HIDE DEF y
  <2>3. ~AtRest(y) /\ CallsAhead[y.at] < CallsAhead[imp[w].at]
    BY <1>1, <2>1, CallsInOrder DEF AtRest
  <2>4. QED
    BY <1>1, <2>1, <2>2, <2>3, MoveAdvances
<1>4. QED
  BY <1>2, <1>3 DEF FindSketch

LEMMA TryAgainAdvances ==
  ASSUME TypeOK, NEW reply \in BOOLEAN, imp[Worker].at = "upload", TryAgain(Worker, reply)
  PROVE  Advances(Worker)
<1> DEFINE w == Worker
           answered == imp[w].answered \/ reply
           y == [imp[w] EXCEPT !.tries = @ + 1, !.answered = answered]
<1>1. w \in Importers /\ imp[w] \in Import /\ ~AtRest(imp[w])
  BY DEF TypeOK, AtRest, Importers
<1>2. CASE imp[w].tries + 1 < Retries
  <2>1. y.at = imp[w].at /\ y.tries = imp[w].tries + 1
    BY <1>1 DEF Import
  <2>2. imp' = [imp EXCEPT ![w] = y]
    BY <1>1, <1>2 DEF TypeOK, TryAgain
  <2>3. imp'[w] = y /\ \A v \in Importers \ {w} : imp'[v] = imp[v]
    BY <1>1, <2>2 DEF TypeOK
  <2>4. Nearer(imp[w], imp'[w])
    BY <1>2, <2>1, <2>3 DEF Nearer
  <2>5. QED
    BY <1>1, <2>3, <2>4 DEF Advances
<1>3. CASE ~(imp[w].tries + 1 < Retries) /\ answered
  <2>1. Goes(w, "fallback")
    BY <1>3 DEF TryAgain
  <2>2. QED
    BY <1>1, <2>1, GoesAdvances, CallsInOrder
<1>4. CASE ~(imp[w].tries + 1 < Retries) /\ ~answered
  <2>1. Ends(w, "bad")
    BY <1>4 DEF TryAgain
  <2>2. QED
    BY <1>1, <2>1, EndsAdvances
<1>5. QED
  BY <1>2, <1>3, <1>4

LEMMA PostCsvAdvances == ASSUME TypeOK, PostCsv PROVE Advances(Worker)
<1> DEFINE w == Worker
<1>1. w \in Importers /\ imp[w] \in Import /\ ~AtRest(imp[w]) /\ imp[w].at = "upload"
  BY DEF TypeOK, AtRest, Importers, PostCsv
<1>2. CASE imp' = [imp EXCEPT ![w].at = "fallback", ![w].uploaded = TRUE,
                              ![w].timeline = Len(timelines) + 1]
  <2> DEFINE y == [imp[w] EXCEPT !.at = "fallback", !.uploaded = TRUE,
                                 !.timeline = Len(timelines) + 1]
  <2>1. y.at = "fallback" /\ y.tries = imp[w].tries
    BY <1>1 DEF Import
  <2>2. imp' = [imp EXCEPT ![w] = y]
    BY <1>1, <1>2 DEF TypeOK
  <2> HIDE DEF y
  <2>3. ~AtRest(y) /\ CallsAhead[y.at] < CallsAhead[imp[w].at]
    BY <1>1, <2>1, CallsInOrder DEF AtRest
  <2>4. QED
    BY <1>1, <2>1, <2>2, <2>3, MoveAdvances
<1>3. CASE imp' = [imp EXCEPT ![w].at = "fallback", ![w].uploaded = TRUE]
  <2> DEFINE y == [imp[w] EXCEPT !.at = "fallback", !.uploaded = TRUE]
  <2>1. y.at = "fallback" /\ y.tries = imp[w].tries
    BY <1>1 DEF Import
  <2>2. imp' = [imp EXCEPT ![w] = y]
    BY <1>1, <1>3 DEF TypeOK
  <2> HIDE DEF y
  <2>3. ~AtRest(y) /\ CallsAhead[y.at] < CallsAhead[imp[w].at]
    BY <1>1, <2>1, CallsInOrder DEF AtRest
  <2>4. QED
    BY <1>1, <2>1, <2>2, <2>3, MoveAdvances
<1>4. CASE \E reply \in BOOLEAN : TryAgain(w, reply)
  BY <1>1, <1>4, TryAgainAdvances
<1>5. CASE Goes(w, "fallback")
  BY <1>1, <1>5, GoesAdvances, CallsInOrder
<1>6. QED
  BY <1>2, <1>3, <1>4, <1>5 DEF PostCsv

LEMMA PostPlasoAdvances == ASSUME TypeOK, PostPlaso PROVE Advances(Worker)
<1> DEFINE w == Worker
<1>1. w \in Importers /\ imp[w] \in Import /\ ~AtRest(imp[w]) /\ imp[w].at = "plaso"
  BY DEF TypeOK, AtRest, Importers, PostPlaso
<1>2. ASSUME NEW ok, NEW t, PlasoPosted(ok, t) PROVE Advances(w)
  <2> DEFINE y == [imp[w] EXCEPT !.at = "plasoWait", !.uploaded = ok, !.timeline = t]
  <2>1. y.at = "plasoWait" /\ y.tries = imp[w].tries
    BY <1>1 DEF Import
  <2>2. imp' = [imp EXCEPT ![w] = y]
    BY <1>1, <1>2 DEF TypeOK, PlasoPosted
  <2> HIDE DEF y
  <2>3. ~AtRest(y) /\ CallsAhead[y.at] < CallsAhead[imp[w].at]
    BY <1>1, <2>1, CallsInOrder DEF AtRest
  <2>4. QED
    BY <1>1, <2>1, <2>2, <2>3, MoveAdvances
<1>3. CASE Ends(w, "bad")
  BY <1>1, <1>3, EndsAdvances
<1>4. QED
  BY <1>2, <1>3 DEF PostPlaso

LEMMA WaitPlasoAdvances == ASSUME TypeOK, WaitPlaso PROVE Advances(Worker)
<1> DEFINE w == Worker
<1>1. w \in Importers /\ imp[w] \in Import /\ ~AtRest(imp[w]) /\ imp[w].at = "plasoWait"
  BY DEF TypeOK, AtRest, Importers, WaitPlaso
<1>2. PICK ready \in BOOLEAN :
        imp' = [imp EXCEPT ![w].at = "wait", ![w].ready = ready, ![w].uploaded = @ /\ ready]
  BY DEF WaitPlaso
<1> DEFINE y == [imp[w] EXCEPT !.at = "wait", !.ready = ready, !.uploaded = @ /\ ready]
<1>3. y.at = "wait" /\ y.tries = imp[w].tries
  BY <1>1 DEF Import
<1>4. imp' = [imp EXCEPT ![w] = y]
  BY <1>1, <1>2 DEF TypeOK
<1> HIDE DEF y
<1>5. ~AtRest(y) /\ CallsAhead[y.at] < CallsAhead[imp[w].at]
  BY <1>1, <1>3, CallsInOrder DEF AtRest
<1>6. QED
  BY <1>1, <1>3, <1>4, <1>5, MoveAdvances

LEMMA WaitReadyAdvances == ASSUME TypeOK, WaitReady PROVE Advances(Worker)
<1> DEFINE w == Worker
<1>1. w \in Importers /\ imp[w] \in Import /\ ~AtRest(imp[w]) /\ imp[w].at = "wait"
  BY DEF TypeOK, AtRest, Importers, WaitReady
<1>2. CASE Goes(w, "verify")
  BY <1>1, <1>2, GoesAdvances, CallsInOrder
<1>3. ASSUME NEW ready, imp' = [imp EXCEPT ![w].at = "verify", ![w].ready = ready]
      PROVE  Advances(w)
  <2> DEFINE y == [imp[w] EXCEPT !.at = "verify", !.ready = ready]
  <2>1. y.at = "verify" /\ y.tries = imp[w].tries
    BY <1>1 DEF Import
  <2>2. imp' = [imp EXCEPT ![w] = y]
    BY <1>1, <1>3 DEF TypeOK
  <2> HIDE DEF y
  <2>3. ~AtRest(y) /\ CallsAhead[y.at] < CallsAhead[imp[w].at]
    BY <1>1, <2>1, CallsInOrder DEF AtRest
  <2>4. QED
    BY <1>1, <2>1, <2>2, <2>3, MoveAdvances
<1>4. QED
  BY <1>2, <1>3 DEF WaitReady

LEMMA VerifyAdvances == ASSUME TypeOK, Verify PROVE Advances(Worker)
<1> DEFINE w == Worker
<1>1. w \in Importers /\ imp[w] \in Import /\ ~AtRest(imp[w]) /\ imp[w].at = "verify"
  BY DEF TypeOK, AtRest, Importers, Verify
<1>2. ASSUME NEW ready, imp' = [imp EXCEPT ![w].at = "report", ![w].ready = ready]
      PROVE  Advances(w)
  <2> DEFINE y == [imp[w] EXCEPT !.at = "report", !.ready = ready]
  <2>1. y.at = "report" /\ y.tries = imp[w].tries
    BY <1>1 DEF Import
  <2>2. imp' = [imp EXCEPT ![w] = y]
    BY <1>1, <1>2 DEF TypeOK
  <2> HIDE DEF y
  <2>3. ~AtRest(y) /\ CallsAhead[y.at] < CallsAhead[imp[w].at]
    BY <1>1, <2>1, CallsInOrder DEF AtRest
  <2>4. QED
    BY <1>1, <2>1, <2>2, <2>3, MoveAdvances
<1>3. CASE Ends(w, "bad")
  BY <1>1, <1>3, EndsAdvances
<1>4. QED
  BY <1>2, <1>3 DEF Verify

LEMMA ReachAdvances ==
  ASSUME TypeOK, NEW w \in Importers, Reach(w) PROVE Advances(w)
<1>1. CASE ReuseClient(w)
  BY <1>1, UsesAdvances DEF ReuseClient
<1>2. CASE Login(w)
  <2>1. imp[w].at = "client" /\ ~AtRest(imp[w])
    BY <1>2 DEF Login, AtRest
  <2>2. (\E auth : Uses(w, auth)) \/ Ends(w, "bad")
    BY <1>2 DEF Login
  <2>3. QED
    BY <2>1, <2>2, UsesAdvances, EndsAdvances
<1>3. CASE ListSketches(w)
  <2>1. imp[w].at = "list" /\ ~AtRest(imp[w])
    BY <1>3 DEF ListSketches, AtRest
  <2>2. (\E page : FindSketch(w, page)) \/ Ends(w, "bad")
    BY <1>3 DEF ListSketches
  <2>3. QED
    BY <2>1, <2>2, FindAdvances, EndsAdvances
<1>4. CASE CreateSketch(w)
  <2>1. imp[w] \in Import /\ imp[w].at = "create" /\ ~AtRest(imp[w])
    BY <1>4 DEF CreateSketch, AtRest, TypeOK
  <2>2. CASE Ends(w, "bad")
    BY <2>1, <2>2, EndsAdvances
  <2>3. CASE imp' = [imp EXCEPT ![w].at = "upload", ![w].sketch = Len(sketches) + 1]
    <3> DEFINE y == [imp[w] EXCEPT !.at = "upload", !.sketch = Len(sketches) + 1]
    <3>1. y.at = "upload" /\ y.tries = imp[w].tries
      BY <2>1 DEF Import
    <3>2. imp' = [imp EXCEPT ![w] = y]
      BY <2>1, <2>3 DEF TypeOK
    <3> HIDE DEF y
    <3>3. ~AtRest(y) /\ CallsAhead[y.at] < CallsAhead[imp[w].at]
      BY <2>1, <3>1, CallsInOrder DEF AtRest
    <3>4. QED
      BY <2>1, <3>1, <3>2, <3>3, MoveAdvances
  <2>4. QED
    BY <1>4, <2>2, <2>3 DEF CreateSketch
<1>5. QED
  BY <1>1, <1>2, <1>3, <1>4 DEF Reach

LEMMA WorkerAdvances ==
  ASSUME TypeOK, WorkerStep PROVE Advances(Worker)
<1> DEFINE w == Worker
<1>1. w \in Importers /\ imp[w] \in Import
  BY DEF TypeOK, Importers
<1>2. ASSUME NEW f \in Files, TakeJob(f) PROVE Advances(w)
  <2>1. imp[w].at = "idle" /\ imp' = [imp EXCEPT ![w] = Begun(f, "client")]
    BY <1>2 DEF TakeJob
  <2>2. imp'[w] = Begun(f, "client") /\ \A v \in Importers \ {w} : imp'[v] = imp[v]
    BY <1>1, <2>1 DEF TypeOK
  <2>3. imp'[w].tries = 0
    BY <2>2 DEF Begun
  <2>4. QED
    BY <2>1, <2>2, <2>3 DEF Advances
<1>3. CASE SkipCsv
  BY <1>1, <1>3, GoesAdvances, CallsInOrder DEF SkipCsv, AtRest
<1>4. CASE Fallback
  BY <1>1, <1>4, GoesAdvances, CallsInOrder DEF Fallback, AtRest
<1>5. CASE Record
  BY <1>1, <1>5, EndsAdvances DEF Record, AtRest
<1>6. QED
  BY <1>1, <1>2, <1>3, <1>4, <1>5, ReachAdvances, PostCsvAdvances, PostPlasoAdvances,
     WaitPlasoAdvances, WaitReadyAdvances, VerifyAdvances DEF WorkerStep

LEMMA CrashAdvances ==
  ASSUME IInv, WorkerCrash PROVE Advances(Worker)
<1>1. Worker \in Importers
  BY DEF Importers
<1>2. /\ imp'[Worker] = Begun(Worker, "idle")
      /\ \A v \in Importers \ {Worker} : imp'[v] = imp[v]
  BY <1>1 DEF WorkerCrash, IInv, TypeOK
<1>3. AtRest(imp'[Worker]) /\ imp'[Worker].tries = 0
  BY <1>2 DEF Begun, AtRest
<1>4. CASE imp[Worker].at = "idle"
  BY <1>2, <1>3, <1>4 DEF Advances
<1>5. CASE imp[Worker].at # "idle"
  <2>1. imp[Worker].at # "done"
    BY DEF IInv, ImportOK, Who, Importers
  <2>2. QED
    BY <1>2, <1>3, <1>5, <2>1 DEF Advances, Nearer, AtRest
<1>6. QED
  BY <1>4, <1>5

LEMMA ReportAdvances ==
  ASSUME TypeOK, NEW r \in Reports, Export(r) \/ ReportStep(r) PROVE Advances(r)
<1>1. r \in Importers /\ imp[r] \in Import
  BY DEF TypeOK, Importers
<1>2. CASE Export(r)
  <2>1. /\ imp'[r] = [imp[r] EXCEPT !.at = "client"]
        /\ \A v \in Importers \ {r} : imp'[v] = imp[v]
    BY <1>1, <1>2 DEF Export, Goes, TypeOK
  <2>2. imp'[r].tries = imp[r].tries
    BY <1>1, <2>1 DEF Import
  <2>3. QED
    BY <1>2, <2>1, <2>2 DEF Advances, Export
<1>3. CASE PostReport(r)
  <2>1. ~AtRest(imp[r]) /\ \E verdict : Ends(r, verdict)
    BY <1>3 DEF PostReport, AtRest
  <2>2. QED
    BY <1>1, <2>1, EndsAdvances
<1>4. QED
  BY <1>1, <1>2, <1>3, ReachAdvances DEF ReportStep

LEMMA StepAdvances ==
  ASSUME IInv, Next
  PROVE  (\E w \in Importers : Advances(w)) \/ imp' = imp
<1>1. TypeOK /\ Worker \in Importers /\ \A r \in Reports : r \in Importers
  BY DEF IInv, Importers
<1>2. CASE \/ RepairStep \/ \E t \in DOMAIN timelines : Index(t)
           \/ \E p \in pending : CreateLate(p)
  BY <1>2 DEF RepairStep, RepairStart, RepairRead, RepairLook, RepairDelete, RepairRequeue, RepairAbort,
                Index, CreateLate
<1>3. QED
  BY <1>1, <1>2, WorkerAdvances, CrashAdvances, ReportAdvances DEF Next

\* One step of one importer leaves the attempts bounded and is a step nearer.
LEMMA AdvancesKeeps ==
  ASSUME TriesOK, imp \in [Importers -> Import], imp' \in [Importers -> Import],
         NEW w \in Importers, Advances(w), NEW v \in Importers
  PROVE  /\ imp'[v].tries < Retries
         /\ \/ imp'[v] = imp[v] \/ imp[v].at = "idle"
            \/ Distance(imp'[v]) \in 0 .. Distance(imp[v]) - 1
<1>1. imp[v] \in Import /\ imp'[v] \in Import /\ imp[v].tries < Retries
  BY DEF TriesOK
<1>2. CASE imp'[v] = imp[v]
  BY <1>1, <1>2
<1>3. CASE v = w /\ imp[w].at = "idle" /\ imp'[w].tries \in {0, imp[w].tries}
  BY <1>1, <1>3, BoundAssumption
<1>4. CASE v = w /\ ~AtRest(imp[w]) /\ Nearer(imp[w], imp'[w])
  BY <1>1, <1>4, NearerIsCloser
<1>5. QED
  BY <1>2, <1>3, <1>4 DEF Advances

(***************************************************************************)
(* The import goes only forward: no call of it is made twice but the       *)
(* upload, at most TIMESKETCH_UPLOAD_RETRIES times (_retry_request).       *)
(***************************************************************************)
THEOREM ImportsCorrect == Spec => ImportsAdvance
<1> DEFINE Nears == \A w \in Importers : imp'[w] = imp[w] \/ imp[w].at = "idle"
                       \/ Distance(imp'[w]) \in 0 .. Distance(imp[w]) - 1
<1>1. Init => TriesOK
  BY BoundAssumption DEF Init, TriesOK, Begun
<1>2. IInv /\ IInv' /\ TriesOK /\ [Next]_vars => TriesOK' /\ [Nears]_vars
  <2> SUFFICES ASSUME IInv, IInv', TriesOK, [Next]_vars PROVE TriesOK' /\ [Nears]_vars
    OBVIOUS
  <2>1. imp \in [Importers -> Import] /\ imp' \in [Importers -> Import]
    BY DEF IInv, TypeOK
  <2>2. CASE imp' = imp
    BY <2>2 DEF TriesOK
  <2>3. ASSUME NEW w \in Importers, Advances(w) PROVE TriesOK' /\ Nears
    BY <2>1, <2>3, AdvancesKeeps DEF TriesOK
  <2>4. CASE UNCHANGED vars
    BY <2>2, <2>4 DEF vars
  <2>5. QED
    BY <2>2, <2>3, <2>4, StepAdvances
<1>3. QED
  BY <1>1, <1>2, Invariance, PTL DEF Spec, ImportsAdvance
=============================================================================
