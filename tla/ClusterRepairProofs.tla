--------------------------- MODULE ClusterRepairProofs ---------------------------
(***************************************************************************)
(* Proofs about ClusterRepair, for every set of indices and shards and     *)
(* every bound.                                                            *)
(***************************************************************************)
EXTENDS ClusterRepair, TLAPS

\* A shard of an open index that holds documents has a started primary, or has
\* lost its last copy.
HeldIsSafe ==
  \A i \in Indices :
    /\ life[i] = "open" => \A s \in docs[i] : primary[i][s] = "STARTED" \/ <<i, s>> \in exposed
    /\ life[i] = "absent" => docs[i] = {}

\* What is about to be deleted was closed, or holds only what was lost.
DoomedWasLost ==
  /\ script.at = "deleteClosed" => \A i \in script.todo : life[i] = "close"
  /\ script.at = "deleteRed" =>
       \A i \in script.todo :
         /\ life[i] # "absent"
         /\ life[i] = "open" =>
              \A s \in Shards : <<i, s>> \in script.held => <<i, s>> \in exposed

\* Between the wait and the tuning, what is missing is known to be unsettled.
TuningHasCause ==
  /\ script.at = "tune" => AllShort \subseteq unsettled
  /\ script.at = "put" => script.todo \subseteq unsettled

\* Primaries only get better as long as no copy is lost and no index created.
Sound == \A i \in Listed \ unsettled : ~Red(i)
VerdictIsSound ==
  /\ script.at = "verdict" /\ ~script.red => Sound
  /\ script.at = "done" /\ script.exit = 0 => Sound

IInv == TypeOK /\ HeldIsSafe /\ DoomedWasLost /\ TuningHasCause /\ VerdictIsSound

----------------------------------------------------------------------------
LEMMA Initially == Init => IInv
<1> SUFFICES ASSUME Init PROVE IInv
  OBVIOUS
<1>1. script \in Script
  BY DEF Init, Script, Places
<1>2. primary \in [Indices -> [Shards -> CopyStates]]
      /\ replica \in [Indices -> [Shards -> CopyStates \cup {"none"}]]
  BY DEF Init, CopyStates
<1>3. TypeOK
  BY <1>1, <1>2 DEF Init, TypeOK
<1> QED BY <1>3 DEF Init, IInv, HeldIsSafe, DoomedWasLost, TuningHasCause, VerdictIsSound

----------------------------------------------------------------------------
(***************************************************************************)
(* The steps of the cluster.                                               *)
(***************************************************************************)
\* A copy that changes its state keeps the type of all.
LEMMA CopyReplaced ==
  ASSUME NEW States, NEW copies \in [Indices -> [Shards -> States]],
         NEW i \in Indices, NEW s \in Shards, NEW state \in States
  PROVE  [copies EXCEPT ![i][s] = state] \in [Indices -> [Shards -> States]]
OBVIOUS

\* The steps of the cluster that leave the script its place and its lists.
LEMMA ClusterMoves ==
  ASSUME IInv, TypeOK', script' = script, HeldIsSafe',
         \A i \in script.todo : life'[i] = life[i] \/ life[i] = "absent",
         \A i \in script.todo, s \in Shards : <<i, s>> \in exposed => <<i, s>> \in exposed'
                                              \/ life[i] = "absent",
         unsettled \subseteq unsettled',
         AllShort' \subseteq AllShort \cup unsettled',
         \A i \in Listed' \ unsettled' : i \in Listed /\ (~Red(i) => ~Red(i)')
  PROVE  IInv'
<1> USE DEF IInv
<1>1. DoomedWasLost'
  BY DEF DoomedWasLost
<1>2. TuningHasCause'
  BY DEF TuningHasCause
<1>3. Sound => Sound'
  BY DEF Sound
<1>4. VerdictIsSound'
  BY <1>3 DEF VerdictIsSound
<1> QED BY <1>1, <1>2, <1>4

LEMMA LoseKeeps == ASSUME IInv, NEW i \in Indices, NEW s \in Shards, Lose(i, s) PROVE IInv'
<1> USE DEF IInv
<1>1. /\ script' = script /\ unsettled' = unsettled \cup {i}
      /\ UNCHANGED <<life, docs, room, faults>> /\ incidents' = incidents + 1
      /\ exposed' \in {exposed, exposed \cup {<<i, s>>}}
  BY DEF Lose
<1>2. primary' \in [Indices -> [Shards -> CopyStates]]
  BY DEF Lose, TypeOK, CopyStates
<1>3. replica' = replica \/ replica' = [replica EXCEPT ![i][s] = "UNASSIGNED"]
  BY DEF Lose
<1>4. replica' \in [Indices -> [Shards -> CopyStates \cup {"none"}]]
  <2>1. replica \in [Indices -> [Shards -> CopyStates \cup {"none"}]]
    BY DEF TypeOK
  <2> QED BY <1>3, <2>1, CopyReplaced DEF CopyStates
<1>5. TypeOK'
  <2>1. <<i, s>> \in Indices \X Shards
    OBVIOUS
  <2>2. exposed' \subseteq Indices \X Shards
    BY <1>1, <2>1 DEF TypeOK
  <2> QED BY <1>1, <1>2, <1>4, <2>2 DEF TypeOK
<1>6. \A j \in Indices \ {i} : primary'[j] = primary[j] /\ replica'[j] = replica[j]
  BY <1>3 DEF Lose, TypeOK
<1>7. HeldIsSafe'
  <2> SUFFICES ASSUME NEW j \in Indices, life[j] = "open", NEW r \in docs[j]
               PROVE  primary'[j][r] = "STARTED" \/ <<j, r>> \in exposed'
    BY <1>1 DEF HeldIsSafe
  <2>1. primary[j][r] = "STARTED" \/ <<j, r>> \in exposed
    BY DEF HeldIsSafe
  <2>2. r \in Shards
    BY DEF TypeOK
  <2>3. primary'[j][r] = primary[j][r] \/ <<j, r>> \in exposed'
    <3>1. CASE primary' = [primary EXCEPT ![i][s] = "UNASSIGNED"] /\ exposed' = exposed \cup {<<i, s>>}
      BY <2>2, <3>1 DEF TypeOK
    <3>2. CASE primary' = primary
      BY <3>2
    <3> QED BY <3>1, <3>2 DEF Lose
  <2> QED BY <1>1, <2>1, <2>3
<1>8. AllShort' \subseteq AllShort \cup unsettled'
  BY <1>1, <1>6 DEF AllShort, Short, Listed
<1>9. \A j \in Listed' \ unsettled' : j \in Listed /\ (~Red(j) => ~Red(j)')
  BY <1>1, <1>6 DEF Red, Listed
<1> QED BY <1>1, <1>5, <1>7, <1>8, <1>9, ClusterMoves

\* A new index had nothing to delete, and is unsettled.
LEMMA CreateKeeps == ASSUME IInv, NEW i \in Indices, Create(i) PROVE IInv'
<1> USE DEF IInv
<1>1. /\ script' = script /\ unsettled' = unsettled \cup {i} /\ life[i] = "absent"
      /\ life' = [life EXCEPT ![i] = "open"] /\ UNCHANGED <<docs, room, incidents, faults>>
      /\ exposed' = {c \in exposed : c[1] # i}
  BY DEF Create
<1>2. \A j \in Indices \ {i} : /\ primary'[j] = primary[j] /\ replica'[j] = replica[j]
                              /\ life'[j] = life[j]
  BY <1>1 DEF Create, TypeOK
<1>3. TypeOK'
  <2>1. [s \in Shards |-> "UNASSIGNED"] \in [Shards -> CopyStates]
    BY DEF CopyStates
  <2>2. primary' \in [Indices -> [Shards -> CopyStates]]
    BY <2>1 DEF Create, TypeOK
  <2>3. replica' \in [Indices -> [Shards -> CopyStates \cup {"none"}]]
    BY <2>1 DEF Create, TypeOK
  <2>4. life' \in [Indices -> {"open", "close", "absent"}]
    BY <1>1 DEF TypeOK
  <2> QED BY <1>1, <2>2, <2>3, <2>4 DEF TypeOK
<1>4. docs[i] = {}
  BY <1>1 DEF HeldIsSafe
<1>5. \A j \in Indices \ {i}, s \in Shards : <<j, s>> \in exposed => <<j, s>> \in exposed'
  BY <1>1
<1>6. HeldIsSafe'
  <2> SUFFICES ASSUME NEW j \in Indices
               PROVE  /\ life'[j] = "open" => \A s \in docs[j] : primary'[j][s] = "STARTED"
                                                                \/ <<j, s>> \in exposed'
                      /\ life'[j] = "absent" => docs[j] = {}
    BY <1>1 DEF HeldIsSafe
  <2>1. CASE j = i
    BY <1>4, <2>1
  <2>2. CASE j # i
    <3>1. docs[j] \subseteq Shards
      BY DEF TypeOK
    <3> QED BY <1>2, <1>5, <2>2, <3>1 DEF HeldIsSafe
  <2> QED BY <2>1, <2>2
<1>7. AllShort' \subseteq AllShort \cup unsettled'
  BY <1>1, <1>2 DEF AllShort, Short, Listed
<1>8. \A j \in Listed' \ unsettled' : j \in Listed /\ (~Red(j) => ~Red(j)')
  BY <1>1, <1>2 DEF Red, Listed
<1>9. script.todo \subseteq Indices
  BY DEF TypeOK, Script
<1>10. \A j \in script.todo : life'[j] = life[j] \/ life[j] = "absent"
  BY <1>1, <1>2, <1>9
<1>11. \A j \in script.todo, s \in Shards : <<j, s>> \in exposed => <<j, s>> \in exposed'
                                            \/ life[j] = "absent"
  BY <1>1, <1>5, <1>9
<1> QED BY <1>1, <1>3, <1>6, <1>7, <1>8, <1>10, <1>11, ClusterMoves

\* A copy that is allocated or started makes no index red, and none short.
LEMMA RecoverKeeps ==
  ASSUME IInv, NEW i \in Indices, NEW s \in Shards, Begin(i, s) \/ Finish(i, s)
  PROVE  IInv'
<1> USE DEF IInv
<1>1. UNCHANGED <<life, docs, room, script, incidents, faults, unsettled, exposed>>
  BY DEF Begin, Finish
<1>2. primary' \in [Indices -> [Shards -> CopyStates]]
  <2>1. \/ primary' = primary
        \/ \E state \in CopyStates : primary' = [primary EXCEPT ![i][s] = state]
    BY DEF Begin, Finish, CopyStates
  <2>2. primary \in [Indices -> [Shards -> CopyStates]]
    BY DEF TypeOK
  <2>3. CASE \E state \in CopyStates : primary' = [primary EXCEPT ![i][s] = state]
    <3>1. PICK state \in CopyStates : primary' = [primary EXCEPT ![i][s] = state]
      BY <2>3
    <3> QED BY <2>2, <3>1, CopyReplaced
  <2> QED BY <2>1, <2>2, <2>3
<1>3. replica' \in [Indices -> [Shards -> CopyStates \cup {"none"}]]
  <2>1. \/ replica' = replica
        \/ \E state \in CopyStates : replica' = [replica EXCEPT ![i][s] = state]
    BY DEF Begin, Finish, CopyStates
  <2>2. replica \in [Indices -> [Shards -> CopyStates \cup {"none"}]]
    BY DEF TypeOK
  <2>3. CASE \E state \in CopyStates : replica' = [replica EXCEPT ![i][s] = state]
    <3>1. PICK state \in CopyStates : replica' = [replica EXCEPT ![i][s] = state]
      BY <2>3
    <3>2. state \in CopyStates \cup {"none"}
      OBVIOUS
    <3>3. [replica EXCEPT ![i][s] = state] \in [Indices -> [Shards -> CopyStates \cup {"none"}]]
      BY <2>2, <3>2, CopyReplaced
    <3> QED BY <3>1, <3>3
  <2> QED BY <2>1, <2>2, <2>3
<1>4. TypeOK'
  BY <1>1, <1>2, <1>3 DEF TypeOK
<1>5. \A j \in Indices, r \in Shards :
        primary[j][r] = "STARTED" => primary'[j][r] = "STARTED"
  BY DEF Begin, Finish, TypeOK
<1>6. \A j \in Indices, r \in Shards :
        replica'[j][r] \in {"UNASSIGNED", "INITIALIZING"} =>
          replica[j][r] \in {"UNASSIGNED", "INITIALIZING"}
  <2>1. CASE replica' = replica
    BY <2>1
  <2>2. CASE \E state \in {"INITIALIZING", "STARTED"} :
               /\ replica' = [replica EXCEPT ![i][s] = state]
               /\ replica[i][s] \in {"UNASSIGNED", "INITIALIZING"}
    BY <2>2 DEF TypeOK
  <2> QED BY <2>1, <2>2 DEF Begin, Finish
<1>7. Listed' = Listed /\ Listed \subseteq Indices
  BY <1>1 DEF Listed
<1>8. AllShort' \subseteq AllShort
  BY <1>6, <1>7 DEF AllShort, Short
<1>9. HeldIsSafe'
  <2>1. \A j \in Indices : docs[j] \subseteq Shards
    BY DEF TypeOK
  <2> QED BY <1>1, <1>5, <2>1 DEF HeldIsSafe
<1>10. \A j \in Listed : ~Red(j) => ~Red(j)'
  BY <1>5, <1>7 DEF Red
<1> QED BY <1>1, <1>4, <1>7, <1>8, <1>9, <1>10, ClusterMoves

\* A step that leaves the copies, the deletions and the place of the script alone.
LEMMA WriteKeeps == ASSUME IInv, NEW i \in Indices, NEW s \in Shards, Write(i, s) PROVE IInv'
<1> USE DEF IInv
<1>1. UNCHANGED <<life, primary, replica, room, script, incidents, faults, unsettled, exposed>>
  BY DEF Write, shards
<1>2. TypeOK'
  BY <1>1 DEF Write, TypeOK
<1>3. HeldIsSafe'
  BY <1>1 DEF Write, HeldIsSafe, TypeOK
<1>4. AllShort' = AllShort /\ Listed' = Listed /\ \A j : Red(j)' = Red(j)
  BY <1>1 DEF AllShort, Short, Listed, Red
<1> QED BY <1>1, <1>2, <1>3, <1>4, ClusterMoves

LEMMA Stuttering == ASSUME IInv, UNCHANGED vars PROVE IInv'
<1> USE DEF IInv
<1>1. UNCHANGED <<life, primary, replica, docs, room, script, incidents, faults, unsettled,
                  exposed>>
  BY DEF vars
<1>2. TypeOK' /\ HeldIsSafe'
  BY <1>1 DEF TypeOK, HeldIsSafe
<1>3. AllShort' = AllShort /\ Listed' = Listed /\ \A j : Red(j)' = Red(j)
  BY <1>1 DEF AllShort, Short, Listed, Red
<1> QED BY <1>1, <1>2, <1>3, ClusterMoves

----------------------------------------------------------------------------
(***************************************************************************)
(* The steps of the script.                                                *)
(***************************************************************************)
\* Whatever a step of the script changes of the script alone, it keeps the types.
LEMMA ScriptAlone ==
  ASSUME IInv, UNCHANGED <<cluster, incidents>>, script' \in Script,
         faults' \in Nat, unsettled' \subseteq Indices,
         DoomedWasLost', TuningHasCause', VerdictIsSound'
  PROVE  IInv'
BY DEF IInv, TypeOK, HeldIsSafe, cluster

\* The places where the proof has nothing to say about the script.
Elsewhere == script.at \in {"idle", "closed", "wait", "settle", "report", "final"}

LEMMA GoesElsewhere ==
  ASSUME IInv, UNCHANGED <<cluster, incidents>>, script' \in Script,
         faults' \in Nat, unsettled' \subseteq Indices, Elsewhere'
  PROVE  IInv'
<1>1. DoomedWasLost' /\ TuningHasCause' /\ VerdictIsSound'
  BY DEF Elsewhere, DoomedWasLost, TuningHasCause, VerdictIsSound
<1> QED BY <1>1, ScriptAlone

LEMMA MoreFaults == ASSUME IInv, Holds \/ Fails PROVE faults' \in Nat
BY DEF Holds, Fails, IInv, TypeOK

LEMMA ReadsKeeps ==
  ASSUME IInv, Start \/ Late \/ Report \/ (script.at = "settle" /\ Waited)
  PROVE  IInv'
<1> USE DEF IInv
<1>1. UNCHANGED <<cluster, incidents, faults, unsettled>>
  BY DEF Start, Late, Report, Waited, Holds
<1>2. script \in Script
  BY DEF TypeOK
<1>3. script' \in Script /\ Elsewhere'
  <2>1. CASE Start
    BY <1>2, <2>1 DEF Start, Goes, Script, Places, Elsewhere
  <2>2. CASE Late
    BY <1>2, <2>2 DEF Late, Script, Places, Elsewhere
  <2>3. CASE Report
    <3>1. Some({"UNASSIGNED"}) \in BOOLEAN /\ Some({"INITIALIZING"}) \in BOOLEAN
      BY DEF Some
    <3>2. PICK relocating \in BOOLEAN :
            script' = [script EXCEPT !.at = "final", !.unassigned = Some({"UNASSIGNED"}),
                                     !.bad = relocating \/ Some({"INITIALIZING"})]
      BY <2>3 DEF Report
    <3>3. (relocating \/ Some({"INITIALIZING"})) \in BOOLEAN
      OBVIOUS
    <3> QED BY <1>2, <3>1, <3>2, <3>3 DEF Script, Places, Elsewhere
  <2>4. CASE script.at = "settle" /\ Waited
    BY <1>2, <2>4 DEF Waited, Goes, Script, Places, Elsewhere
  <2> QED BY <2>1, <2>2, <2>3, <2>4
<1> QED BY <1>1, <1>3, GoesElsewhere DEF TypeOK

LEMMA AbortKeeps == ASSUME IInv, Abort PROVE IInv'
<1> USE DEF IInv
<1>1. UNCHANGED <<cluster, incidents, unsettled>> /\ faults' \in Nat
  BY MoreFaults DEF Abort
<1>2. script' = [script EXCEPT !.at = "done", !.exit = 1] /\ script \in Script
  BY DEF Abort, TypeOK
<1>3. script' \in Script /\ script'.at = "done" /\ script'.exit = 1
  <2>1. 1 \in 0 .. 1 /\ "done" \in Places
    BY DEF Places
  <2> QED BY <1>2, <2>1 DEF Script
<1>4. DoomedWasLost' /\ TuningHasCause' /\ VerdictIsSound'
  BY <1>3 DEF DoomedWasLost, TuningHasCause, VerdictIsSound
<1> QED BY <1>1, <1>3, <1>4, ScriptAlone DEF TypeOK

LEMMA ListsKeep == ASSUME IInv, ListClosed \/ ListRed PROVE IInv'
<1> USE DEF IInv
<1> DEFINE closed == {i \in Listed \cap (Dotted \cup Uuid) : life[i] = "close"}
           held(doomed) == {c \in doomed \X Shards : c[2] \in docs[c[1]]}
<1>1. PICK place \in {"deleteClosed", "deleteRed"}, doomed \in SUBSET Listed :
        /\ script' = [script EXCEPT !.at = place, !.todo = doomed, !.held = held(doomed)]
        /\ place = "deleteClosed" => doomed = closed
        /\ place = "deleteRed" => doomed = Doomed
  <2>1. closed \in SUBSET Listed /\ Doomed \in SUBSET Listed
    BY DEF Doomed
  <2> QED BY <2>1 DEF ListClosed, ListRed, Keep
<1>2. UNCHANGED <<cluster, incidents, unsettled, faults>> /\ script \in Script
  BY DEF ListClosed, ListRed, Keep, Holds, TypeOK
<1>3. held(doomed) \in SUBSET (Indices \X Shards) /\ doomed \in SUBSET Indices
  BY DEF Listed
<1>4. /\ script' \in Script /\ script'.at = place /\ script'.todo = doomed
      /\ script'.held = held(doomed)
  <2> HIDE DEF held
  <2> QED BY <1>1, <1>2, <1>3 DEF Script, Places
<1>5. DoomedWasLost'
  <2>1. life' = life /\ exposed' = exposed
    BY <1>2 DEF cluster
  <2>2. script'.at = "deleteClosed" => \A i \in script'.todo : life'[i] = "close"
    BY <1>1, <1>4, <2>1
  <2>3. ASSUME script'.at = "deleteRed", NEW i \in script'.todo
        PROVE  /\ life'[i] # "absent"
               /\ life'[i] = "open" =>
                    \A s \in Shards : <<i, s>> \in script'.held => <<i, s>> \in exposed'
    <3>1. i \in Doomed /\ i \in Listed /\ i \in Indices
      BY <1>1, <1>3, <1>4, <2>3
    <3>2. ASSUME life[i] = "open", NEW s \in Shards, <<i, s>> \in script'.held
          PROVE  <<i, s>> \in exposed
      <4>1. s \in docs[i]
        BY <1>4, <3>2
      <4>2. primary[i][s] # "STARTED"
        BY <3>1, <3>2, <4>1 DEF Doomed, Counted
      <4> QED BY <3>1, <3>2, <4>1, <4>2 DEF HeldIsSafe
    <3> QED BY <2>1, <3>1, <3>2 DEF Listed
  <2> QED BY <2>2, <2>3 DEF DoomedWasLost
<1>6. TuningHasCause' /\ VerdictIsSound'
  BY <1>1, <1>4 DEF TuningHasCause, VerdictIsSound
<1> QED BY <1>2, <1>4, <1>5, <1>6, ScriptAlone DEF TypeOK

LEMMA DeleteKeeps == ASSUME IInv, NEW i \in Indices, Delete(i) PROVE IInv'
<1> USE DEF IInv
<1>1. /\ script' = [script EXCEPT !.todo = script.todo \ {i}] /\ script \in Script
      /\ script.at \in {"deleteClosed", "deleteRed"}
      /\ UNCHANGED <<primary, replica, room, incidents, unsettled, exposed>> /\ faults' \in Nat
      /\ \/ UNCHANGED <<life, docs>>
         \/ life' = [life EXCEPT ![i] = "absent"] /\ docs' = [docs EXCEPT ![i] = {}]
  BY MoreFaults DEF Delete, shards, TypeOK
<1>2. /\ script' \in Script /\ script'.at = script.at
      /\ script'.todo = script.todo \ {i} /\ script'.held = script.held
  BY <1>1 DEF Script
<1>3. /\ life' \in [Indices -> {"open", "close", "absent"}]
      /\ docs' \in [Indices -> SUBSET Shards]
      /\ \A j \in Indices \ {i} : life'[j] = life[j] /\ docs'[j] = docs[j]
      /\ (life'[i] = life[i] /\ docs'[i] = docs[i]) \/ (life'[i] = "absent" /\ docs'[i] = {})
  BY <1>1 DEF TypeOK
<1>4. TypeOK'
  BY <1>1, <1>2, <1>3 DEF TypeOK
<1>5. script.todo \subseteq Indices
  BY <1>1 DEF Script
<1>6. HeldIsSafe'
  <2> SUFFICES ASSUME NEW j \in Indices
               PROVE  /\ life'[j] = "open" => \A s \in docs'[j] : primary[j][s] = "STARTED"
                                                                 \/ <<j, s>> \in exposed
                      /\ life'[j] = "absent" => docs'[j] = {}
    BY <1>1 DEF HeldIsSafe
  <2>1. (life'[j] = life[j] /\ docs'[j] = docs[j]) \/ (life'[j] = "absent" /\ docs'[j] = {})
    BY <1>3
  <2> QED BY <2>1 DEF HeldIsSafe
<1>7. DoomedWasLost'
  BY <1>1, <1>2, <1>3, <1>5 DEF DoomedWasLost
<1> QED BY <1>1, <1>2, <1>4, <1>6, <1>7 DEF TuningHasCause, VerdictIsSound

LEMMA DiskRepairKeeps == ASSUME IInv, DiskRepair PROVE IInv'
<1> USE DEF IInv
<1>1. /\ script' = [script EXCEPT !.at = "wait", !.held = {}, !.late = FALSE]
      /\ script \in Script
      /\ UNCHANGED <<life, primary, replica, docs, incidents, unsettled, exposed>>
      /\ faults' \in Nat /\ room' \in BOOLEAN
  BY MoreFaults DEF DiskRepair, shards, TypeOK
<1>2. script' \in Script /\ script'.at = "wait"
  BY <1>1 DEF Script, Places
<1>3. TypeOK' /\ HeldIsSafe'
  BY <1>1, <1>2 DEF TypeOK, HeldIsSafe
<1> QED BY <1>2, <1>3 DEF DoomedWasLost, TuningHasCause, VerdictIsSound

\* A settled cluster is short of nothing.
LEMMA SettledFacts == Settled => AllShort = {}
<1> SUFFICES ASSUME NEW i \in Listed, Short(i) PROVE ~Settled
  BY DEF AllShort
<1>1. PICK s \in Shards : replica[i][s] \in {"UNASSIGNED", "INITIALIZING"}
  BY DEF Short
<1>2. Copies(i) \cap {"UNASSIGNED", "INITIALIZING"} # {}
  BY <1>1 DEF Copies
<1> QED BY <1>2 DEF Settled, Some

LEMMA WaitedKeeps == ASSUME IInv, script.at = "wait", Waited PROVE IInv'
<1> USE DEF IInv
<1>1. /\ script' = [script EXCEPT !.at = "tune"] /\ script \in Script /\ Over
      /\ unsettled' = (IF script.late THEN AllShort ELSE {})
      /\ UNCHANGED <<cluster, incidents, faults>>
  BY DEF Waited, Goes, Holds, TypeOK
<1>2. script' \in Script /\ script'.at = "tune" /\ unsettled' \subseteq Indices
  BY <1>1 DEF Script, Places, AllShort, Listed
<1>3. AllShort' = AllShort
  BY <1>1 DEF AllShort, Short, Listed, cluster
<1>4. AllShort \subseteq unsettled'
  BY <1>1, SettledFacts DEF Over
<1>5. DoomedWasLost' /\ TuningHasCause' /\ VerdictIsSound'
  BY <1>2, <1>3, <1>4 DEF DoomedWasLost, TuningHasCause, VerdictIsSound
<1> QED BY <1>1, <1>2, <1>5, ScriptAlone DEF TypeOK

LEMMA TuneKeeps == ASSUME IInv, Tune PROVE IInv'
<1> USE DEF IInv
<1>1. /\ UNCHANGED <<cluster, incidents, faults, unsettled>> /\ script \in Script
      /\ script.at = "tune"
  BY DEF Tune, Holds, TypeOK
<1>2. CASE script' = [script EXCEPT !.at = "report"]
  <2>1. script' \in Script /\ Elsewhere'
    BY <1>1, <1>2 DEF Script, Places, Elsewhere
  <2> QED BY <1>1, <2>1, GoesElsewhere DEF TypeOK
<1>3. CASE script' = [script EXCEPT !.at = "put", !.todo = AllShort]
  <2>1. AllShort \in SUBSET Indices
    BY DEF AllShort, Listed
  <2>2. script' \in Script /\ script'.at = "put" /\ script'.todo = AllShort
    BY <1>1, <1>3, <2>1 DEF Script, Places
  <2>3. AllShort \subseteq unsettled'
    BY <1>1 DEF TuningHasCause
  <2>4. DoomedWasLost' /\ TuningHasCause' /\ VerdictIsSound'
    BY <2>2, <2>3 DEF DoomedWasLost, TuningHasCause, VerdictIsSound
  <2> QED BY <1>1, <2>2, <2>4, ScriptAlone DEF TypeOK
<1> QED BY <1>2, <1>3 DEF Tune, Goes

LEMMA PutKeeps == ASSUME IInv, Put PROVE IInv'
<1> USE DEF IInv
<1>1. /\ script' = [script EXCEPT !.at = "settle", !.todo = {}, !.late = FALSE]
      /\ script \in Script /\ faults' \in Nat
      /\ UNCHANGED <<life, primary, docs, room, incidents, unsettled, exposed>>
  BY MoreFaults DEF Put, TypeOK
<1>2. script' \in Script /\ script'.at = "settle"
  BY <1>1 DEF Script, Places
<1>3. replica' \in [Indices -> [Shards -> CopyStates \cup {"none"}]]
  BY DEF Put, TypeOK
<1>4. TypeOK' /\ HeldIsSafe'
  BY <1>1, <1>2, <1>3 DEF TypeOK, HeldIsSafe
<1> QED BY <1>2, <1>4 DEF DoomedWasLost, TuningHasCause, VerdictIsSound

LEMMA FinalKeeps == ASSUME IInv, Final \/ Verdict PROVE IInv'
<1> USE DEF IInv
<1>1. UNCHANGED <<cluster, incidents, faults>> /\ script \in Script
  BY DEF Final, Verdict, Holds, TypeOK
<1>2. Listed' = Listed /\ \A i \in Indices : Red(i)' = Red(i)
  BY <1>1 DEF Listed, Red, cluster
<1>3. CASE Final
  <2> DEFINE red == \E i \in Listed : Red(i)
  <2>1. script' = [script EXCEPT !.at = "verdict", !.red = red] /\ unsettled' = {}
    BY <1>3 DEF Final
  <2>2. script' \in Script /\ script'.at = "verdict" /\ (script'.red <=> red)
    BY <1>1, <2>1 DEF Script, Places
  <2>3. DoomedWasLost' /\ TuningHasCause'
    BY <2>2 DEF DoomedWasLost, TuningHasCause
  <2>4. VerdictIsSound'
    BY <1>2, <2>2 DEF VerdictIsSound, Sound, Listed
  <2> QED BY <1>1, <2>1, <2>2, <2>3, <2>4, ScriptAlone DEF TypeOK
<1>4. CASE Verdict
  <2>1. script' = [script EXCEPT !.at = "done", !.exit = IF ~Problem \/ Stable THEN 0 ELSE 1]
        /\ script.at = "verdict" /\ unsettled' = unsettled
    BY <1>4 DEF Verdict
  <2>2. /\ script' \in Script /\ script'.at = "done"
        /\ (script'.exit = 0 => ~Problem \/ Stable)
    <3>1. 0 \in 0 .. 1 /\ 1 \in 0 .. 1 /\ "done" \in Places /\ 0 # 1
      BY DEF Places
    <3>2. CASE ~Problem \/ Stable
      <4>1. script' = [script EXCEPT !.at = "done", !.exit = 0]
        BY <2>1, <3>2
      <4> QED BY <1>1, <3>1, <3>2, <4>1 DEF Script
    <3>3. CASE ~(~Problem \/ Stable)
      <4>1. script' = [script EXCEPT !.at = "done", !.exit = 1]
        BY <2>1, <3>3
      <4> QED BY <1>1, <3>1, <4>1 DEF Script
    <3> QED BY <3>2, <3>3
  <2>3. DoomedWasLost' /\ TuningHasCause'
    BY <2>2 DEF DoomedWasLost, TuningHasCause
  <2>4. VerdictIsSound'
    <3>1. (~Problem \/ Stable) => ~script.red
      BY DEF Problem, Stable
    <3>2. Sound => Sound'
      BY <1>2, <2>1 DEF Sound, Listed
    <3> QED BY <2>1, <2>2, <3>1, <3>2 DEF VerdictIsSound
  <2> QED BY <1>1, <2>1, <2>2, <2>3, <2>4, ScriptAlone DEF TypeOK
<1> QED BY <1>3, <1>4

----------------------------------------------------------------------------
LEMMA Inductive == IInv /\ [Next]_vars => IInv'
<1> SUFFICES ASSUME IInv, [Next]_vars PROVE IInv'
  OBVIOUS
<1>1. CASE \E i \in Indices, s \in Shards : Lose(i, s) \/ Begin(i, s) \/ Finish(i, s) \/ Write(i, s)
  BY <1>1, LoseKeeps, RecoverKeeps, WriteKeeps
<1>7. CASE \E i \in Indices : Create(i)
  BY <1>7, CreateKeeps
<1>2. CASE Start \/ Late \/ Report \/ Waited
  BY <1>2, ReadsKeeps, WaitedKeeps DEF Waited
<1>3. CASE Abort \/ ListClosed \/ ListRed \/ DiskRepair
  BY <1>3, AbortKeeps, ListsKeep, DiskRepairKeeps
<1>4. CASE Tune \/ Put \/ Final \/ Verdict
  BY <1>4, TuneKeeps, PutKeeps, FinalKeeps
<1>5. CASE \E i \in Indices : Delete(i)
  BY <1>5, DeleteKeeps
<1>6. CASE UNCHANGED vars
  BY <1>6, Stuttering
<1> QED BY <1>1, <1>2, <1>3, <1>4, <1>5, <1>6, <1>7 DEF Next, Repair

\* The invariant of the proofs holds in every reachable state.
THEOREM Invariance == Spec => []IInv
BY Initially, Inductive, PTL DEF Spec

\* Every variable keeps its type.
THEOREM TypeCorrect == Spec => []TypeOK
<1>1. IInv => TypeOK
  BY DEF IInv
<1> QED BY <1>1, Invariance, PTL

\* The exit code 0 of main means that every primary was active, but in an index that
\* lost a copy or was created since the health.
THEOREM ExitCorrect == Spec => []ExitIsSound
<1>1. IInv => ExitIsSound
  BY DEF IInv, VerdictIsSound, Sound, ExitIsSound
<1> QED BY <1>1, Invariance, PTL

\* No open index is deleted that held documents, when it was listed, in a shard of
\* which a copy had survived (repair_red_indices).
THEOREM DeletionCorrect == Spec => DeletedWasLost
<1>1. IInv /\ [Next]_vars =>
        [\A i \in Indices : life[i] = "open" /\ life'[i] = "absent" =>
           \A s \in Shards : <<i, s>> \in script.held => <<i, s>> \in exposed]_vars
  <2> SUFFICES ASSUME IInv, Next, NEW i \in Indices,
                      life[i] = "open", life'[i] = "absent"
               PROVE  \A s \in Shards : <<i, s>> \in script.held => <<i, s>> \in exposed
    OBVIOUS
  <2>1. life' # life
    OBVIOUS
  <2>2. ~\E j \in Indices : Create(j)
    BY DEF Create, IInv, TypeOK
  <2>3. PICK j \in Indices : Delete(j)
    BY <2>1, <2>2 DEF Next, Repair, Start, Abort, ListClosed, ListRed, Keep, DiskRepair, Late,
           Waited, Tune, Put, Report, Final, Verdict, Lose, Begin, Finish, Write, cluster
  <2>4. life' = [life EXCEPT ![j] = "absent"] /\ j \in script.todo
        /\ script.at \in {"deleteClosed", "deleteRed"}
    BY <2>1, <2>3 DEF Delete
  <2>5. i = j
    BY <2>4 DEF IInv, TypeOK
  <2> QED BY <2>4, <2>5 DEF IInv, DoomedWasLost
<1> QED BY <1>1, Invariance, PTL DEF Spec, DeletedWasLost

\* ensure_green_via_replica_tuning gives up no replica without a cause.
THEOREM TuningCorrect == Spec => ReplicasGivenUpLate
<1>1. IInv /\ [Next]_vars =>
        [\A i \in Indices :
           replica'[i] # replica[i] /\ (\A s \in Shards : replica'[i][s] = "none")
             => i \in unsettled]_vars
  <2> SUFFICES ASSUME IInv, Next, NEW i \in Indices, replica'[i] # replica[i],
                      \A s \in Shards : replica'[i][s] = "none"
               PROVE  i \in unsettled
    OBVIOUS
  <2>1. replica' # replica
    OBVIOUS
  <2>2. CASE Put
    <3>1. replica' = [j \in Indices |-> IF j \in script.todo THEN [s \in Shards |-> "none"]
                                        ELSE replica[j]]
          /\ script.at = "put"
      BY <2>1, <2>2 DEF Put
    <3>2. i \in script.todo
      BY <3>1
    <3> QED BY <3>1, <3>2 DEF IInv, TuningHasCause
  <2>3. CASE \E j \in Indices, s \in Shards : Lose(j, s) \/ Begin(j, s) \/ Finish(j, s)
    <3>1. PICK j \in Indices, s \in Shards, state \in CopyStates :
            replica' = [replica EXCEPT ![j][s] = state]
      BY <2>1, <2>3 DEF Lose, Begin, Finish, CopyStates
    <3>2. i = j /\ replica'[j][s] = state
      BY <3>1 DEF IInv, TypeOK
    <3> QED BY <3>2 DEF CopyStates
  <2>4. CASE \E j \in Indices : Create(j)
    <3>1. PICK j \in Indices :
            replica' = [replica EXCEPT ![j] = [s \in Shards |-> "UNASSIGNED"]]
      BY <2>4 DEF Create
    <3>2. i = j /\ replica'[i] = [s \in Shards |-> "UNASSIGNED"]
      BY <3>1 DEF IInv, TypeOK
    <3>3. Shards # {}
      BY <3>2 DEF IInv, TypeOK
    <3> QED BY <3>2, <3>3
  <2> QED BY <2>1, <2>2, <2>3, <2>4 DEF Next, Repair, Start, Abort, ListClosed, ListRed, Keep,
           DiskRepair, Late, Waited, Tune, Report, Final, Verdict, Delete, Write, cluster,
           shards
<1> QED BY <1>1, Invariance, PTL DEF Spec, ReplicasGivenUpLate
============================================================================
