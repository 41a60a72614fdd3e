----------------------------- MODULE TokenLedger -----------------------------
(* What a deposit token promises, seen by the CERT that issues it and by    *)
(* whoever presents it: a token is issued once and dies for good, an upload *)
(* is admitted only with a live token that is not spent, and charged to it  *)
(* at most once.  Each token may go wrong in two ways, for reasons listed   *)
(* here: its uses are miscounted when two of its uploads are open at the    *)
(* same time, and it may come back from the dead with an upload that was    *)
(* open when it died; a restart of Redis may do both to any token.  It may  *)
(* outlive its date for two reasons more: it was issued for too short a     *)
(* time, or one of its uploads ended in its very last moment.               *)
EXTENDS Naturals

CONSTANTS
  Tokens,
  Uploads,
  Limit,     \* how many uploads a token is good for
  Brief,     \* the tokens issued for less than the shortest life of a record
  NoToken    \* not a token

VARIABLES
  life,        \* whether each token was issued, and whether it is usable
  closing,     \* the tokens that reached their last moment
  expired,     \* the tokens past their date
  spent,       \* how many uploads each token was charged with
  admitted,    \* the token each upload was admitted with, or NoToken
  open,        \* the uploads admitted and not finished
  miscounted,  \* the tokens whose uses may be miscounted
  revenant     \* the tokens that may come back, or outlive their date

vars == <<life, closing, expired, spent, admitted, open, miscounted, revenant>>

Life == {"unissued", "live", "dead"}

Init ==
  /\ life = [t \in Tokens |-> "unissued"]
  /\ closing = {} /\ expired = {}
  /\ spent = [t \in Tokens |-> 0]
  /\ admitted = [u \in Uploads |-> NoToken]
  /\ open = {} /\ miscounted = {} /\ revenant = Brief

OpenWith(t) == {u \in open : admitted[u] = t}

(* A token issued while Redis is away is never usable.                      *)
Issue(t) ==
  /\ life[t] = "unissued"
  /\ \E state \in {"live", "dead"} : life' = [life EXCEPT ![t] = state]
  /\ UNCHANGED <<closing, expired, spent, admitted, open, miscounted, revenant>>

Admit(u, t) ==
  /\ admitted[u] = NoToken
  /\ life[t] = "live"
  /\ spent[t] < Limit[t] \/ t \in miscounted
  /\ admitted' = [admitted EXCEPT ![u] = t]
  /\ open' = open \cup {u}
  /\ UNCHANGED <<life, closing, expired, spent, miscounted, revenant>>

(* The upload ends and is charged to its token, which lives on.             *)
Charge(u, t) ==
  /\ u \in OpenWith(t)
  /\ life[t] = "live" \/ t \in revenant
  /\ life' = [life EXCEPT ![t] = "live"]
  /\ spent' = [spent EXCEPT ![t] = spent[t] + 1]
  /\ open' = open \ {u}
  /\ miscounted' \in {miscounted, miscounted \cup {t}}
  /\ OpenWith(t) = {u} => miscounted' = miscounted
  /\ UNCHANGED <<closing, expired, admitted, revenant>>

(* The upload ends without a charge: it failed, or its token died or Redis  *)
(* went away before its end.                                                *)
Finish(u) ==
  /\ u \in open
  /\ open' = open \ {u}
  /\ UNCHANGED <<life, closing, expired, spent, admitted, miscounted, revenant>>

(* A token that dies under an open upload may come back with it.            *)
Die(t) ==
  /\ life[t] = "live"
  /\ life' = [life EXCEPT ![t] = "dead"]
  /\ revenant' \in {revenant, revenant \cup {t}}
  /\ OpenWith(t) = {} => revenant' = revenant

Vanish(t) ==
  /\ Die(t)
  /\ UNCHANGED <<closing, expired, spent, admitted, open, miscounted>>

Close(t) ==
  /\ t \notin closing /\ life[t] # "unissued"
  /\ closing' = closing \cup {t}
  /\ UNCHANGED <<life, expired, spent, admitted, open, miscounted, revenant>>

(* An upload about to end finds its token alive in its last moment.         *)
Prolong(u, t) ==
  /\ u \in OpenWith(t)
  /\ life[t] = "live" /\ t \in closing
  /\ revenant' = revenant \cup {t}
  /\ UNCHANGED <<life, closing, expired, spent, admitted, open, miscounted>>

(* A token dies on its date, unless it has come back before.                *)
Expire(t) ==
  /\ t \in closing /\ t \notin expired
  /\ expired' = expired \cup {t}
  /\ \/ Die(t)
     \/ /\ life[t] = "dead" \/ t \in revenant
        /\ UNCHANGED <<life, revenant>>
  /\ UNCHANGED <<closing, spent, admitted, open, miscounted>>

(* Redis restarts from a snapshot: the tokens whose record it rolls back    *)
(* may live or not, and their uses are what they were.                      *)
RollBack(lost) ==
  /\ life' \in [Tokens -> Life]
  /\ \A t \in Tokens : t \notin lost \/ life[t] = "unissued" => life'[t] = life[t]
  /\ \A t \in lost : life[t] # "unissued" => life'[t] # "unissued"
  /\ miscounted' = miscounted \cup lost
  /\ revenant' = revenant \cup lost
  /\ UNCHANGED <<closing, expired, spent, admitted, open>>

Next ==
  \/ \E t \in Tokens : Issue(t) \/ Vanish(t) \/ Close(t) \/ Expire(t)
  \/ \E u \in Uploads, t \in Tokens : Admit(u, t) \/ Prolong(u, t) \/ Charge(u, t)
  \/ \E u \in Uploads : Finish(u)
  \/ \E lost \in SUBSET Tokens : RollBack(lost)

Spec == Init /\ [][Next]_vars
=============================================================================
