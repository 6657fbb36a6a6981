---------------------------- MODULE AbstractOps ----------------------------
(***************************************************************************)
(* What the dispatcher promises its user of a scheduled operation, with no *)
(* threads, queues or locks: it is pending until it completes, it          *)
(* completes once, an operation of the engine completes after its          *)
(* precondition, and then with an error if the precondition failed.        *)
(***************************************************************************)
EXTENDS Integers

CONSTANTS OpId, NoOp

VARIABLES
  state,   \* id -> "unscheduled", "pending", or the outcome
  needs,   \* id -> the precondition it is scheduled with
  strict   \* id -> whether it waits for its precondition

vars == <<state, needs, strict>>

Outcome == {"value", "error"}

Init ==
  /\ state = [o \in OpId |-> "unscheduled"]
  /\ needs = [o \in OpId |-> NoOp]
  /\ strict = [o \in OpId |-> FALSE]

\* An operation is scheduled after nothing, or after one that is itself
\* scheduled already.
Schedule(o, p, s) ==
  /\ state[o] = "unscheduled"
  /\ IF p = NoOp THEN TRUE ELSE state[p] # "unscheduled"
  /\ state' = [state EXCEPT ![o] = "pending"]
  /\ needs' = [needs EXCEPT ![o] = p]
  /\ strict' = [strict EXCEPT ![o] = s]

\* A scheduling that fails leaves nothing behind, and nobody waits for it.
Withdraw(o) ==
  /\ state[o] = "pending"
  /\ \A q \in OpId : needs[q] # o
  /\ state' = [state EXCEPT ![o] = "unscheduled"]
  /\ needs' = [needs EXCEPT ![o] = NoOp]
  /\ strict' = [strict EXCEPT ![o] = FALSE]

MayEnd(o, r) ==
  IF strict[o] /\ needs[o] # NoOp
    THEN \/ state[needs[o]] = "value"
         \/ state[needs[o]] = "error" /\ r = "error"
    ELSE TRUE

Finish(o, r) ==
  /\ state[o] = "pending" /\ MayEnd(o, r)
  /\ state' = [state EXCEPT ![o] = r]
  /\ UNCHANGED <<needs, strict>>

Next ==
  \E o \in OpId :
    \/ \E p \in OpId \cup {NoOp}, s \in BOOLEAN : Schedule(o, p, s)
    \/ Withdraw(o)
    \/ \E r \in Outcome : Finish(o, r)

Spec == Init /\ [][Next]_vars

(***************************************************************************)
(* A pending operation eventually completes, unless it is withdrawn.       *)
(***************************************************************************)
FairSpec ==
  Spec /\ \A o \in OpId : WF_vars(\E r \in Outcome : Finish(o, r))
=============================================================================
