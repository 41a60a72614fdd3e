--------------------------- MODULE UploadLifecycle ---------------------------
(***************************************************************************)
(* What the ingestion pipeline promises of an upload, seen from the list   *)
(* of uploads the portals show. An upload has up to two entries there: the *)
(* portal's, and the copy that Logstash may add at any time, also after    *)
(* the other was deleted. Each of the two appears once, its status moves   *)
(* only while the worker has its turn on the upload, only one upload has   *)
(* a turn at a time, and an entry that was deleted never comes back.       *)
(***************************************************************************)
CONSTANTS
  Uploads,
  Nobody    \* not an upload

VARIABLES
  status,  \* the status of each upload's own entry
  copy,    \* the status of its copy
  holder   \* the upload whose turn it is at the worker, or Nobody

vars == <<status, copy, holder>>

Listed == {"pending", "processing", "completed", "failed"}
Final == {"completed", "failed"}

Init ==
  /\ status = [u \in Uploads |-> "none"]
  /\ copy = [u \in Uploads |-> "none"]
  /\ holder = Nobody

List(u) ==
  /\ status[u] = "none"
  /\ status' = [status EXCEPT ![u] = "pending"]
  /\ UNCHANGED <<copy, holder>>

Mirror(u) ==
  /\ copy[u] = "none"
  /\ copy' = [copy EXCEPT ![u] = "pending"]
  /\ UNCHANGED <<status, holder>>

Delete(u) ==
  /\ \/ /\ status[u] \in Listed
        /\ status' = [status EXCEPT ![u] = "deleted"]
        /\ UNCHANGED copy
     \/ /\ copy[u] \in Listed
        /\ copy' = [copy EXCEPT ![u] = "deleted"]
        /\ UNCHANGED status
  /\ UNCHANGED holder

StartTurn(u) ==
  /\ holder = Nobody
  /\ holder' = u
  /\ UNCHANGED <<status, copy>>

\* The worker writes s to the entries of u: to both, to one or, when the store
\* is away, to none; and only to an entry that is listed.
Write(u, s) ==
  /\ \/ status[u] \in Listed /\ status' = [status EXCEPT ![u] = s]
     \/ UNCHANGED status
  /\ \/ copy[u] \in Listed /\ copy' = [copy EXCEPT ![u] = s]
     \/ UNCHANGED copy

Mark(u) ==
  /\ holder = u
  /\ Write(u, "processing")
  /\ UNCHANGED holder

\* A turn ends with its verdict, or without a trace when the worker died.
EndTurn(u) ==
  /\ holder = u
  /\ holder' = Nobody
  /\ \E s \in Final : Write(u, s)

Next ==
  \E u \in Uploads :
    List(u) \/ Mirror(u) \/ Delete(u) \/ StartTurn(u) \/ Mark(u) \/ EndTurn(u)

Spec == Init /\ [][Next]_vars
=============================================================================
