------------------------------ MODULE Teardown ------------------------------
(***************************************************************************)
(* ~dispatcher() (afio.ipp) against what may still be going on: operations *)
(* that run, wait for their user or for another operation, or are in the   *)
(* last steps of complete_async_op(), which use the dispatcher's private   *)
(* state p; and handles, opened by operations and closed by whoever has    *)
(* them, which deregister themselves with p.                               *)
(*                                                                         *)
(* The destructor waits in rounds for the futures of the operations it     *)
(* finds in ops and gives up on them when nothing changes, then naps until *)
(* fds is empty, or gives up on that, and deletes p.                       *)
(***************************************************************************)
EXTENDS FdRegistry

CONSTANTS
  Ops,           \* async_file_io_dispatcher_op objects, by address
  MaxScheduled,  \* bound on the operations ever scheduled
  MaxFails,      \* the count of rounds, 10 in the code, that says stuck
  MaxNaps,       \* the count of naps, 300 in the code
  NoOp

ASSUME TeardownAssumption ==
  /\ MaxScheduled \in Nat /\ MaxFails \in Nat \ {0} /\ MaxNaps \in Nat
  /\ NoOp \notin Ops

NoCount == -1  \* mincount's initial (size_t)-1

VARIABLES
  stage,        \* operation -> where it is
  pre,          \* operation -> the operation whose completions hold it
  opening,      \* operation -> the handle that its body opens
  scheduled,    \* how many operations were scheduled
  dtor,         \* where ~dispatcher() is
  outstanding,  \* the round's operations yet to be waited for
  kept,         \* the round's operations: its shared_ptrs keep the addresses
  fails,        \* reallyoutstanding: operation -> count, 0 if not there
  mincount,
  naps,
  gaveup,       \* it stopped waiting for something
  waits,        \* history: operation -> waits for it that timed out
  inherited,    \* history: operation -> such waits, before it was scheduled,
                \* for those that had its address, since one was ready
  collided      \* history: a handle was registered under a key in use

opvars == <<stage, pre, opening, scheduled>>
rounds == <<outstanding, kept, fails, mincount, waits, inherited>>
dtorvars == <<dtor, rounds, naps, gaveup>>
allvars == <<vars, opvars, dtorvars, collided>>

InOps == {"chained", "queued", "running", "deferred"}
Tail == {"extracted", "filtering", "issuing"}

TeardownTypeOK ==
  /\ TypeOK
  /\ stage \in [Ops -> {"free"} \cup InOps \cup Tail]
  /\ pre \in [Ops -> Ops \cup {NoOp}]
  /\ opening \in [Ops -> Handles \cup {Nobody}]
  /\ scheduled \in 0..MaxScheduled
  /\ dtor \in {"alive", "snapshot", "waiting", "handles", "deleted"}
  /\ outstanding \in SUBSET Ops /\ kept \in SUBSET Ops
  /\ fails \in [Ops -> 0..MaxFails]
  /\ mincount \in {NoCount} \cup 1..MaxFails
  /\ naps \in 0..MaxNaps + 1
  /\ gaveup \in BOOLEAN /\ collided \in BOOLEAN
  /\ waits \in [Ops -> 0..MaxFails] /\ inherited \in [Ops -> 0..MaxFails]

Move(o, s) == stage' = [stage EXCEPT ![o] = s]

-----------------------------------------------------------------------------
(***************************************************************************)
(* Operations, as OpEngine has them in full.                               *)
(***************************************************************************)
\* By a user of the dispatcher, or by the body of an operation. new takes any
\* address that is free, also one that the destructor has a count of.
MaySchedule == dtor = "alive" \/ \E r \in Ops : stage[r] = "running"

Schedule(o) ==
  /\ MaySchedule /\ scheduled < MaxScheduled
  /\ stage[o] = "free" /\ o \notin kept
  /\ \/ Move(o, "queued") /\ UNCHANGED pre
     \/ \E q \in Ops :
          /\ stage[q] \in InOps
          /\ pre' = [pre EXCEPT ![o] = q]
          /\ Move(o, "chained")
  /\ scheduled' = scheduled + 1
  /\ inherited' = [inherited EXCEPT ![o] = fails[o]]
  /\ UNCHANGED <<vars, opening, dtor, outstanding, kept, fails, mincount, waits, naps, gaveup,
                 collided>>

Start(o) ==
  /\ stage[o] = "queued"
  /\ Move(o, "running")
  /\ UNCHANGED <<vars, pre, opening, scheduled, dtorvars, collided>>

\* The body opened a handle and has not registered or dropped it.
Busy(o) == opening[o] # Nobody

\* The callback returns false: its user completes the operation.
Defer(o) ==
  /\ stage[o] = "running" /\ ~Busy(o)
  /\ Move(o, "deferred")
  /\ UNCHANGED <<vars, pre, opening, scheduled, dtorvars, collided>>

\* complete_async_op() takes it from ops, and detaches its completions.
Extract(o) ==
  /\ stage[o] \in {"running", "deferred"} /\ ~Busy(o)
  /\ Move(o, "extracted")
  /\ UNCHANGED <<vars, pre, opening, scheduled, dtorvars, collided>>

SetFuture(o) ==
  /\ stage[o] = "extracted"
  /\ Move(o, "filtering")
  /\ UNCHANGED <<vars, pre, opening, scheduled, dtorvars, collided>>

\* Uses p->filters.
RunFilters(o) ==
  /\ stage[o] = "filtering"
  /\ Move(o, "issuing")
  /\ UNCHANGED <<vars, pre, opening, scheduled, dtorvars, collided>>

Completions(o) == {c \in Ops : pre[c] = o}

\* Uses p->pool.
Issue(o) ==
  /\ stage[o] = "issuing"
  /\ \E c \in Completions(o) :
       /\ pre' = [pre EXCEPT ![c] = NoOp]
       /\ Move(c, "queued")
  /\ UNCHANGED <<vars, opening, scheduled, dtorvars, collided>>

Return(o) ==
  /\ stage[o] = "issuing" /\ Completions(o) = {}
  /\ Move(o, "free")
  /\ waits' = [waits EXCEPT ![o] = 0] /\ inherited' = [inherited EXCEPT ![o] = 0]
  /\ UNCHANGED <<vars, pre, opening, scheduled, dtor, outstanding, kept, fails, mincount, naps,
                 gaveup, collided>>

-----------------------------------------------------------------------------
(***************************************************************************)
(* Handles, as in FdRegistry, opened and registered by an operation.       *)
(***************************************************************************)
OpenIn(o, h) ==
  /\ stage[o] = "running" /\ ~Busy(o)
  /\ Open(h)
  /\ opening' = [opening EXCEPT ![o] = h]
  /\ UNCHANGED <<stage, pre, scheduled, dtorvars, collided>>

RegisterIn(o) ==
  /\ stage[o] = "running" /\ Busy(o)
  /\ Register(opening[o])
  /\ collided' = (collided \/ fds[fd[opening[o]]] # Nobody)
  /\ opening' = [opening EXCEPT ![o] = Nobody]
  /\ UNCHANGED <<stage, pre, scheduled, dtorvars>>

CloseStep(h) ==
  /\ CloseFd(h) \/ CloseFails(h) \/ Deregister(h) \/ Destroy(h)
  /\ opening' = [o \in Ops |-> IF opening[o] = h THEN Nobody ELSE opening[o]]
  /\ UNCHANGED <<stage, pre, scheduled, dtorvars, collided>>

-----------------------------------------------------------------------------
(***************************************************************************)
(* ~dispatcher().                                                          *)
(***************************************************************************)
Begin ==
  /\ dtor = "alive"
  /\ dtor' = "snapshot"
  /\ UNCHANGED <<vars, opvars, rounds, naps, gaveup, collided>>

\* Mutant: operations that wait for others or for their user are left out.
Extant_Busy == {o \in Ops : stage[o] \in {"queued", "running"}}
Extant == {o \in Ops : stage[o] \in InOps}

Snapshot ==
  /\ dtor = "snapshot"
  /\ outstanding' = Extant /\ kept' = Extant
  /\ mincount' = NoCount
  /\ dtor' = IF Extant = {} THEN "handles" ELSE "waiting"
  /\ UNCHANGED <<vars, opvars, fails, waits, inherited, naps, gaveup, collided>>

FutureReady(o) == stage[o] \notin InOps \cup {"extracted"}

WaitReady(o) ==
  /\ dtor = "waiting" /\ o \in outstanding /\ FutureReady(o)
  /\ outstanding' = outstanding \ {o}
  /\ fails' = [fails EXCEPT ![o] = 0]
  /\ UNCHANGED <<vars, opvars, dtor, kept, mincount, waits, inherited, naps, gaveup, collided>>

\* Mutant: the largest count of the round.
Lower_Max(m, f) == IF m = NoCount \/ f > m THEN f ELSE m
Lower(m, f) == IF m = NoCount \/ f < m THEN f ELSE m

\* Counts above MaxFails are all the same.
More(n) == IF n < MaxFails THEN n + 1 ELSE n

WaitTimesOut(o) ==
  /\ dtor = "waiting" /\ o \in outstanding /\ ~FutureReady(o)
  /\ outstanding' = outstanding \ {o}
  /\ fails' = [fails EXCEPT ![o] = More(@)]
  /\ waits' = [waits EXCEPT ![o] = More(@)]
  /\ mincount' = Lower(mincount, fails'[o])
  /\ UNCHANGED <<vars, opvars, dtor, kept, inherited, naps, gaveup, collided>>

\* "i.e. nothing is changing"
\* Mutant: nothing is ever given up.
Stuck_Never == FALSE
Stuck == mincount >= MaxFails /\ mincount # NoCount

EndRound ==
  /\ dtor = "waiting" /\ outstanding = {}
  /\ kept' = {}
  /\ dtor' = IF Stuck THEN "handles" ELSE "snapshot"
  /\ gaveup' = Stuck
  /\ UNCHANGED <<vars, opvars, outstanding, fails, mincount, waits, inherited, naps, collided>>

FdsEmpty == \A f \in Fds : fds[f] = Nobody

Patient == naps <= MaxNaps

Nap ==
  /\ dtor = "handles" /\ ~FdsEmpty /\ Patient
  /\ naps' = naps + 1
  /\ UNCHANGED <<vars, opvars, dtor, rounds, gaveup, collided>>

\* Mutant: the open handles are not waited for.
HandlesGone_Assumed == TRUE
HandlesGone == FdsEmpty

Delete ==
  /\ dtor = "handles"
  /\ HandlesGone \/ ~Patient
  /\ dtor' = "deleted"
  /\ gaveup' = (gaveup \/ ~HandlesGone)
  /\ UNCHANGED <<vars, opvars, rounds, naps, collided>>

-----------------------------------------------------------------------------
TeardownInit ==
  /\ Init
  /\ stage = [o \in Ops |-> "free"]
  /\ pre = [o \in Ops |-> NoOp]
  /\ opening = [o \in Ops |-> Nobody]
  /\ scheduled = 0
  /\ dtor = "alive"
  /\ outstanding = {} /\ kept = {}
  /\ fails = [o \in Ops |-> 0]
  /\ mincount = NoCount
  /\ naps = 0
  /\ gaveup = FALSE /\ collided = FALSE
  /\ waits = [o \in Ops |-> 0] /\ inherited = [o \in Ops |-> 0]

OpStep(o) ==
  \/ Schedule(o) \/ Start(o) \/ Defer(o) \/ Extract(o) \/ SetFuture(o)
  \/ RunFilters(o) \/ Issue(o) \/ Return(o) \/ RegisterIn(o)
  \/ \E h \in Handles : OpenIn(o, h)

DtorStep ==
  \/ Snapshot \/ EndRound \/ Nap \/ Delete
  \/ \E o \in Ops : WaitReady(o) \/ WaitTimesOut(o)

\* Nothing needs to happen any more.
Over == dtor = "deleted" /\ UNCHANGED allvars

TeardownNext ==
  \/ \E o \in Ops : OpStep(o)
  \/ \E h \in Handles : CloseStep(h)
  \/ Begin \/ DtorStep \/ Over

TeardownSpec == TeardownInit /\ [][TeardownNext]_allvars

\* wait_for() and sleep_for() return; nothing else has to happen.
FairTeardown == TeardownSpec /\ WF_allvars(DtorStep)

-----------------------------------------------------------------------------
(***************************************************************************)
(* ~dispatcher() "Destroys the dispatcher, blocking inefficiently if any   *)
(* ops are still in flight" (afio.hpp): unless it gave up, no operation is *)
(* left that runs or is to run, those included that others scheduled or    *)
(* released while it waited, and none that uses p->pool to release others. *)
(***************************************************************************)
OpsOutlived ==
  dtor = "deleted" /\ ~gaveup =>
    \A o \in Ops : stage[o] \notin InOps /\ Completions(o) = {}

(***************************************************************************)
(* Unless it gave up, or a descriptor was used again while its close() was *)
(* under way, no handle is left that would deregister itself with p.       *)
(***************************************************************************)
HandlesOutlived ==
  dtor = "deleted" /\ ~gaveup /\ ~collided =>
    \A h \in Handles : ~has_been_added[h]

(***************************************************************************)
(* It gives up on operations only if it waited in vain as often as it must *)
(* for each of those it found last, the waits included for operations      *)
(* before it at its address, none of which it found ready: it has no other *)
(* name for an operation than its address.                                 *)
(***************************************************************************)
GivesUpOnWaited ==
  dtor = "waiting" /\ outstanding = {} /\ Stuck =>
    \A o \in kept : FutureReady(o) \/ waits[o] + inherited[o] >= MaxFails

(***************************************************************************)
(* "i.e. nothing is changing" (afio.ipp): it gives up on operations only   *)
(* if it waited in vain as often as it must for each of them.              *)
(* Teardown_stuck shows one that has the address, and the count, of one    *)
(* that has ended.                                                         *)
(***************************************************************************)
GivesUpOnStuck ==
  dtor = "waiting" /\ outstanding = {} /\ Stuck =>
    \A o \in kept : FutureReady(o) \/ waits[o] >= MaxFails

(***************************************************************************)
(* The destructor returns, even if an operation never ends or a handle is  *)
(* never closed.                                                           *)
(***************************************************************************)
DestructorReturns == dtor = "snapshot" ~> dtor = "deleted"

(***************************************************************************)
(* No operation uses p->filters after p was deleted, unless it gave up.    *)
(* Teardown_race shows that one that has left ops may.                     *)
(***************************************************************************)
FiltersOutlive ==
  dtor = "deleted" /\ ~gaveup => \A o \in Ops : stage[o] \notin {"extracted", "filtering"}
=============================================================================
