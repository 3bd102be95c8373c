------------------------------- MODULE TaskPool -------------------------------
(***************************************************************************)
(* What the worker pool of cmd/parallel-manager.go promises its users      *)
(* (cmd/mirror-main.go, cmd/cp-main.go): every task queued runs once, its  *)
(* result is delivered once, a barrier task runs alone, and the pool is    *)
(* closed only when everything queued is over.  No locks, channels or      *)
(* goroutines.                                                             *)
(***************************************************************************)
CONSTANT Ids

VARIABLES
  status,  \* task -> "new", "waiting", "running", "delivered" or "over"
  solo,    \* the waiting or running tasks that must run alone
  closed   \* the pool accepts and delivers nothing any more

poolVars == <<status, solo, closed>>

InHand == {t \in Ids : status[t] \in {"running", "delivered"}}

TypeOK ==
  /\ status \in [Ids -> {"new", "waiting", "running", "delivered", "over"}]
  /\ solo \in SUBSET Ids
  /\ closed \in BOOLEAN

Init ==
  /\ status = [t \in Ids |-> "new"]
  /\ solo = {}
  /\ closed = FALSE

Submit(t, alone) ==
  /\ status[t] = "new" /\ ~closed
  /\ status' = [status EXCEPT ![t] = "waiting"]
  /\ solo' = IF alone THEN solo \cup {t} ELSE solo
  /\ UNCHANGED closed

Start(t) ==
  /\ status[t] = "waiting" /\ ~closed
  /\ IF t \in solo THEN InHand = {} ELSE InHand \cap solo = {}
  /\ status' = [status EXCEPT ![t] = "running"]
  /\ UNCHANGED <<solo, closed>>

Hand(t) ==
  /\ status[t] = "running" /\ ~closed
  /\ status' = [status EXCEPT ![t] = "delivered"]
  /\ UNCHANGED <<solo, closed>>

Finish(t) ==
  /\ status[t] = "delivered"
  /\ status' = [status EXCEPT ![t] = "over"]
  /\ solo' = solo \ {t}
  /\ UNCHANGED closed

Close ==
  /\ ~closed
  /\ \A t \in Ids : status[t] \in {"new", "over"}
  /\ closed' = TRUE
  /\ UNCHANGED <<status, solo>>

Next ==
  \/ \E t \in Ids : \/ \E alone \in BOOLEAN : Submit(t, alone)
                    \/ Start(t) \/ Hand(t) \/ Finish(t)
  \/ Close

Spec == Init /\ [][Next]_poolVars

===============================================================================
