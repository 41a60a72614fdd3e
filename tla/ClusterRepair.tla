------------------------------ MODULE ClusterRepair ------------------------------
(***************************************************************************)
(* The repair of the OpenSearch cluster: src/scripts/cluster_repair.py,    *)
(* with src/scripts/opensearch_disk_repair.py, beside a cluster that goes  *)
(* on losing and recovering the copies of its shards, and in which indices *)
(* are created, as the writers of the daily indices do.  OpenSearch is     *)
(* external: an index is a set of shards with a primary and at most one    *)
(* replica each, and the script sees it through lists that are old by the  *)
(* time it acts on them.                                                   *)
(*                                                                         *)
(* An action is one HTTP call with what the script does with its answer;   *)
(* in the tuning of the replicas the health and the list of shards are     *)
(* merged.  reroute_retry is left out: it sends its option as a command    *)
(* that OpenSearch refuses, and it ignores the answer.                     *)
(***************************************************************************)
EXTENDS Naturals, FiniteSets

CONSTANTS
  Indices,
  Dotted,        \* indices whose name starts with a dot
  Uuid,          \* indices whose name is 32 hexadecimal digits
  Shards,        \* the shards of every index
  MaxIncidents,  \* bound: copies lost
  MaxFaults      \* bound: calls that fail

ASSUME NameAssumption == Dotted \subseteq Indices /\ Uuid \subseteq Indices
ASSUME BoundAssumption == MaxIncidents \in Nat /\ MaxFaults \in Nat

VARIABLES
  life,        \* life[i]: open, close or absent
  primary,     \* primary[i][s]: the state of the primary in _cat/shards
  replica,     \* replica[i][s]: that of the replica, or "none"
  docs,        \* docs[i]: the shards of the index that hold documents
  room,        \* no watermark of the disk keeps a replica from being allocated
  script,      \* cluster_repair.py
  incidents,   \* copies lost so far
  faults,      \* calls that failed so far
  unsettled,   \* history: indices that changed behind the script's last wait or health
  exposed      \* history: shards that have lost their last started copy

vars == <<life, primary, replica, docs, room, script, incidents, faults, unsettled,
          exposed>>
shards == <<primary, replica>>
cluster == <<life, primary, replica, docs, room, exposed>>

CopyStates == {"STARTED", "INITIALIZING", "UNASSIGNED"}
Places == {"idle", "closed", "deleteClosed", "deleteRed", "wait", "tune", "put",
           "settle", "report", "final", "verdict", "done"}
Script == [at : Places, todo : SUBSET Indices, held : SUBSET (Indices \X Shards),
           late : BOOLEAN, unassigned : BOOLEAN, bad : BOOLEAN, red : BOOLEAN,
           exit : 0 .. 1]

TypeOK ==
  /\ life \in [Indices -> {"open", "close", "absent"}]
  /\ primary \in [Indices -> [Shards -> CopyStates]]
  /\ replica \in [Indices -> [Shards -> CopyStates \cup {"none"}]]
  /\ docs \in [Indices -> SUBSET Shards]
  /\ room \in BOOLEAN
  /\ unsettled \subseteq Indices /\ exposed \subseteq Indices \X Shards
  /\ script \in Script
  /\ incidents \in Nat /\ faults \in Nat

\* An internal index may be closed, an index not be there yet, and the disk may be
\* nearly full.
Init ==
  /\ life \in {l \in [Indices -> {"open", "close", "absent"}] :
                 \A i \in Indices \ (Dotted \cup Uuid) : l[i] # "close"}
  /\ primary = [i \in Indices |-> [s \in Shards |-> "STARTED"]]
  /\ replica = primary
  /\ docs = [i \in Indices |-> {}]
  /\ room \in BOOLEAN
  /\ script = [at |-> "idle", todo |-> {}, held |-> {}, late |-> FALSE,
               unassigned |-> FALSE, bad |-> FALSE, red |-> FALSE, exit |-> 1]
  /\ incidents = 0 /\ faults = 0 /\ unsettled = {} /\ exposed = {}

----------------------------------------------------------------------------
(***************************************************************************)
(* What the lists show.                                                    *)
(***************************************************************************)
Listed == {i \in Indices : life[i] # "absent"}
Copies(i) == {primary[i][s] : s \in Shards} \cup {replica[i][s] : s \in Shards}
Lost(i) == \E s \in Shards : primary[i][s] = "UNASSIGNED"
Red(i) == \E s \in Shards : primary[i][s] # "STARTED"
\* docs.count: the shards without a started primary are not counted, and an
\* index that is closed or none of whose shards answers has no count at all,
\* which is read as 0.
Counted(i) == life[i] = "open" /\ \E s \in docs[i] : primary[i][s] = "STARTED"
Some(states) == \E i \in Listed : Copies(i) \cap states # {}
SettledUnassigned == ~Some({"UNASSIGNED"})  \* mutant: initializing shards are forgotten
Settled == ~Some({"UNASSIGNED", "INITIALIZING"})

----------------------------------------------------------------------------
(***************************************************************************)
(* The cluster.                                                            *)
(***************************************************************************)
\* A copy is lost with its node; a started replica takes the place of its primary.
Lose(i, s) ==
  /\ i \in Listed /\ incidents < MaxIncidents /\ incidents' = incidents + 1
  /\ \/ /\ primary[i][s] = "STARTED" /\ replica[i][s] # "STARTED"
        /\ primary' = [primary EXCEPT ![i][s] = "UNASSIGNED"]
        /\ replica' = IF replica[i][s] = "none" THEN replica
                      ELSE [replica EXCEPT ![i][s] = "UNASSIGNED"]
        /\ exposed' = exposed \cup {<<i, s>>}
     \/ /\ replica[i][s] = "STARTED"
        /\ replica' = [replica EXCEPT ![i][s] = "UNASSIGNED"]
        /\ UNCHANGED <<primary, exposed>>
  /\ unsettled' = unsettled \cup {i}
  /\ UNCHANGED <<life, docs, room, script, faults>>

\* An index is created by its first document, with all its copies to allocate.
Create(i) ==
  /\ life[i] = "absent"
  /\ life' = [life EXCEPT ![i] = "open"]
  /\ primary' = [primary EXCEPT ![i] = [s \in Shards |-> "UNASSIGNED"]]
  /\ replica' = [replica EXCEPT ![i] = [s \in Shards |-> "UNASSIGNED"]]
  /\ exposed' = {c \in exposed : c[1] # i}
  /\ unsettled' = unsettled \cup {i}
  /\ UNCHANGED <<docs, room, script, incidents, faults>>

\* A copy is allocated, and then started.
Begin(i, s) ==
  /\ i \in Listed
  /\ \/ /\ primary[i][s] = "UNASSIGNED"
        /\ primary' = [primary EXCEPT ![i][s] = "INITIALIZING"]
        /\ UNCHANGED replica
     \/ /\ primary[i][s] = "STARTED" /\ replica[i][s] = "UNASSIGNED" /\ room
        /\ replica' = [replica EXCEPT ![i][s] = "INITIALIZING"]
        /\ UNCHANGED primary
  /\ UNCHANGED <<life, docs, room, script, incidents, faults, unsettled, exposed>>

Finish(i, s) ==
  /\ i \in Listed
  /\ \/ /\ primary[i][s] = "INITIALIZING"
        /\ primary' = [primary EXCEPT ![i][s] = "STARTED"]
        /\ UNCHANGED replica
     \/ /\ replica[i][s] = "INITIALIZING"
        /\ replica' = [replica EXCEPT ![i][s] = "STARTED"]
        /\ UNCHANGED primary
  /\ UNCHANGED <<life, docs, room, script, incidents, faults, unsettled, exposed>>

\* Documents are indexed.
Write(i, s) ==
  /\ life[i] = "open" /\ primary[i][s] = "STARTED" /\ s \notin docs[i]
  /\ docs' = [docs EXCEPT ![i] = @ \cup {s}]
  /\ UNCHANGED <<life, shards, room, script, incidents, faults, unsettled, exposed>>

----------------------------------------------------------------------------
(***************************************************************************)
(* The script.                                                             *)
(***************************************************************************)
Fails == faults < MaxFaults /\ faults' = faults + 1
Holds == UNCHANGED faults
GoesBare(place) == script' = [at |-> place]  \* mutant: what was read is dropped
Goes(place) == script' = [script EXCEPT !.at = place]

Start ==
  /\ script.at = "idle" /\ Goes("closed") /\ Holds
  /\ UNCHANGED <<cluster, incidents, unsettled>>

\* A call whose failure is not caught ends the script.
Abort ==
  /\ script.at \notin {"idle", "put", "done"} /\ Fails
  /\ script' = [script EXCEPT !.at = "done", !.exit = 1]
  /\ UNCHANGED <<cluster, incidents, unsettled>>

\* A list is kept as the indices to delete; the documents they hold by then are not
\* what it shows.
Keep(place, doomed) ==
  /\ script' = [script EXCEPT !.at = place, !.todo = doomed,
                              !.held = {c \in doomed \X Shards : c[2] \in docs[c[1]]}]
  /\ Holds /\ UNCHANGED <<cluster, incidents, unsettled>>

ListClosed ==
  /\ script.at = "closed"
  /\ Keep("deleteClosed", {i \in Listed \cap (Dotted \cup Uuid) : life[i] = "close"})

DoomedAnyRed == {i \in Listed \ Dotted : Red(i)}  \* mutant: the count is not looked at
Doomed == {i \in Listed \ Dotted : Red(i) /\ ~Counted(i)}

ListRed ==
  /\ script.at = "deleteClosed" /\ script.todo = {}
  /\ Keep("deleteRed", Doomed)

\* delete_index: done, or refused.
Delete(i) ==
  /\ script.at \in {"deleteClosed", "deleteRed"} /\ i \in script.todo
  /\ script' = [script EXCEPT !.todo = @ \ {i}]
  /\ \/ /\ Holds
        /\ life' = [life EXCEPT ![i] = "absent"] /\ docs' = [docs EXCEPT ![i] = {}]
     \/ Fails /\ UNCHANGED <<life, docs>>
  /\ UNCHANGED <<shards, room, incidents, unsettled, exposed>>

\* disk_repair_and_unblock: all its errors are caught.
DiskRepair ==
  /\ script.at = "deleteRed" /\ script.todo = {}
  /\ \/ Holds /\ room' \in {room, TRUE}
     \/ Fails /\ UNCHANGED room
  /\ script' = [script EXCEPT !.at = "wait", !.held = {}, !.late = FALSE]
  /\ UNCHANGED <<life, shards, docs, incidents, unsettled, exposed>>

\* wait_allocation, and the time it has.
Late ==
  /\ script.at \in {"wait", "settle"} /\ ~script.late
  /\ script' = [script EXCEPT !.late = TRUE]
  /\ UNCHANGED <<cluster, incidents, faults, unsettled>>

OverForEver == Settled  \* mutant: the wait has no deadline
Over == Settled \/ script.late

Short(i) == \E s \in Shards : replica[i][s] \in {"UNASSIGNED", "INITIALIZING"}
AllShort == {i \in Listed : Short(i)}

Waited ==
  /\ \/ /\ script.at = "wait" /\ Over /\ Goes("tune")
        /\ unsettled' = IF script.late THEN AllShort ELSE {}
     \/ script.at = "settle" /\ Over /\ Goes("report") /\ UNCHANGED unsettled
  /\ Holds /\ UNCHANGED <<cluster, incidents>>

\* ensure_green_via_replica_tuning: only replicas are missing.
Tune ==
  /\ script.at = "tune" /\ Holds
  /\ IF (\E i \in Listed : Lost(i)) \/ AllShort = {} THEN Goes("report")
     ELSE script' = [script EXCEPT !.at = "put", !.todo = AllShort]
  /\ UNCHANGED <<cluster, incidents, unsettled>>

\* The batches of at most 40 indices; their errors are caught.
Put ==
  /\ script.at = "put"
  /\ \/ /\ Holds
        /\ replica' = [i \in Indices |-> IF i \in script.todo
                                         THEN [s \in Shards |-> "none"] ELSE replica[i]]
     \/ Fails /\ UNCHANGED replica
  /\ script' = [script EXCEPT !.at = "settle", !.todo = {}, !.late = FALSE]
  /\ UNCHANGED <<life, primary, docs, room, incidents, unsettled, exposed>>

\* shard_report: a copy that is only relocating, which the model does not tell from
\* a started one, counts as bad too.
Report ==
  /\ script.at = "report" /\ Holds
  /\ \E relocating \in BOOLEAN :
       script' = [script EXCEPT !.at = "final", !.unassigned = Some({"UNASSIGNED"}),
                                !.bad = relocating \/ Some({"INITIALIZING"})]
  /\ UNCHANGED <<cluster, incidents, unsettled>>

Problem == script.red \/ script.unassigned \/ script.bad

Final ==
  /\ script.at = "final" /\ Holds
  /\ script' = [script EXCEPT !.at = "verdict", !.red = \E i \in Listed : Red(i)]
  /\ unsettled' = {}
  /\ UNCHANGED <<cluster, incidents>>

\* The list that tells missing replicas from missing primaries.
StableIfCounted == ~script.bad /\ ~\E i \in Listed : Lost(i)  \* mutant: the status is left out
Stable == ~script.red /\ ~script.bad /\ ~\E i \in Listed : Lost(i)

Verdict ==
  /\ script.at = "verdict" /\ Holds
  /\ script' = [script EXCEPT !.at = "done", !.exit = IF ~Problem \/ Stable THEN 0 ELSE 1]
  /\ UNCHANGED <<cluster, incidents, unsettled>>

----------------------------------------------------------------------------
Repair == \/ Start \/ Abort \/ ListClosed \/ ListRed \/ DiskRepair \/ Waited \/ Tune
          \/ Put \/ Report \/ Final \/ Verdict \/ \E i \in Indices : Delete(i)
Next == \/ Repair \/ Late
        \/ \E i \in Indices : Create(i)
        \/ \E i \in Indices, s \in Shards :
             Lose(i, s) \/ Begin(i, s) \/ Finish(i, s) \/ Write(i, s)

Spec == Init /\ [][Next]_vars

\* The script runs and its deadlines pass, whatever the cluster does.
FairSpec == Spec /\ WF_vars(Repair) /\ WF_vars(Late)

----------------------------------------------------------------------------
(***************************************************************************)
(* Properties.                                                             *)
(***************************************************************************)
\* The documents an open index held when it was listed are deleted with it only if
\* every shard that held some had lost its last started copy: a shard whose replica
\* took the place of its primary is never deleted with what it held, however old the
\* list is.  An index that has lost its last copies and is recovering them is.
DeletedWasLost ==
  [][\A i \in Indices : life[i] = "open" /\ life'[i] = "absent" =>
       \A s \in Shards : <<i, s>> \in script.held => <<i, s>> \in exposed]_vars

\* The tuning takes the replicas of an index only if the wait ran out without them,
\* or the index lost a copy or was created since: the others it leaves alone.
ReplicasGivenUpLate ==
  [][\A i \in Indices :
       replica'[i] # replica[i] /\ (\A s \in Shards : replica'[i][s] = "none")
         => i \in unsettled]_vars

\* The exit code 0 is right: every primary of every index that is left has started,
\* but of those that lost a copy or were created since the last health was read.
ExitIsSound ==
  script.at = "done" /\ script.exit = 0 => \A i \in Listed \ unsettled : ~Red(i)

\* The script ends, although a cluster may never settle.
RunEnds == (script.at # "idle") ~> (script.at = "done")
============================================================================
