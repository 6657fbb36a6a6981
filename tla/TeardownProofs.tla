--------------------------- MODULE TeardownProofs ---------------------------
(***************************************************************************)
(* Proofs about FdRegistry, for any handles and any descriptors, and about *)
(* Teardown, for any operations and limits of the destructor besides.      *)
(***************************************************************************)
EXTENDS Teardown, TLAPS

(***************************************************************************)
(* A handle has a descriptor only from its openat() to its close(). With   *)
(* it, the properties are inductive: Open needs that the handle it opens   *)
(* has no entry yet, which EntriesErased says of a handle without a        *)
(* descriptor, no entry having the key -999.                               *)
(***************************************************************************)
ClosedInv ==
  \A h \in Handles : at[h] \in {"none", "closing", "closed"} => fd[h] = Closed

FdInv == OwnDescriptor /\ ClosedInv /\ EntriesErased

LEMMA NobodyNotHandle == Nobody \notin Handles
BY RegistryAssumption

LEMMA ClosedNotFd == Closed \notin Fds
BY RegistryAssumption DEF Closed

\* An Init state has every type and part of the invariant.
LEMMA FdInit == Init => TypeOK /\ FdInv
BY NobodyNotHandle DEF Init, TypeOK, FdInv, OwnDescriptor, ClosedInv,
     EntriesErased, Label

\* Every step keeps the types.
LEMMA FdTypeStep == TypeOK /\ [Next]_vars => TypeOK'
<1> SUFFICES ASSUME TypeOK, [Next]_vars PROVE TypeOK'
  OBVIOUS
<1> USE DEF TypeOK, Label, Goto
<1>1. ASSUME NEW h \in Handles, Open(h) PROVE TypeOK'
  BY <1>1 DEF Open
<1>2. ASSUME NEW h \in Handles, Register(h) PROVE TypeOK'
  BY <1>2 DEF Register, Insert
<1>3. ASSUME NEW h \in Handles, CloseFd(h) PROVE TypeOK'
  <2>1. fd[h] \in Fds
    BY <1>3 DEF CloseFd, Closed
  <2> QED BY <1>3, <2>1 DEF CloseFd, AfterClose
<1>7. ASSUME NEW h \in Handles, CloseFails(h) PROVE TypeOK'
  BY <1>7 DEF CloseFails
<1>4. ASSUME NEW h \in Handles, Deregister(h) PROVE TypeOK'
  BY <1>4 DEF Deregister
<1>5. ASSUME NEW h \in Handles, Destroy(h) PROVE TypeOK'
  BY <1>5 DEF Destroy
<1>6. CASE UNCHANGED vars
  BY <1>6 DEF vars
<1> QED
  BY <1>1, <1>2, <1>3, <1>4, <1>5, <1>6, <1>7 DEF Next

\* Every step keeps the rest of the invariant.
LEMMA FdStep == TypeOK /\ FdInv /\ [Next]_vars => FdInv'
<1> SUFFICES ASSUME TypeOK, FdInv, [Next]_vars PROVE FdInv'
  OBVIOUS
<1> USE NobodyNotHandle, ClosedNotFd
<1>1. ASSUME NEW h \in Handles, Open(h) PROVE FdInv'
  <2> PICK f \in Fds : /\ descriptor[f] = Nobody
                       /\ descriptor' = [descriptor EXCEPT ![f] = h]
                       /\ fd' = [fd EXCEPT ![h] = f]
    BY <1>1 DEF Open
  <2> at' = [at EXCEPT ![h] = "opened"] /\ at[h] = "none"
      /\ UNCHANGED <<fds, has_been_added, closingfd, closefailed>>
    BY <1>1 DEF Open, Goto
  <2>1. OwnDescriptor'
    BY DEF OwnDescriptor, FdInv, TypeOK
  <2>2. ClosedInv'
    BY DEF ClosedInv, FdInv, TypeOK
  <2>3. \A g \in Fds : fds[g] # h
    BY DEF FdInv, ClosedInv, EntriesErased, TypeOK
  <2>4. EntriesErased'
    BY <2>3 DEF EntriesErased, FdInv, TypeOK
  <2> QED BY <2>1, <2>2, <2>4 DEF FdInv
<1>2. ASSUME NEW h \in Handles, Register(h) PROVE FdInv'
  <2>1. OwnDescriptor' /\ ClosedInv'
    BY <1>2 DEF Register, Goto, OwnDescriptor, ClosedInv, FdInv, TypeOK
  <2>2. EntriesErased'
    BY <1>2 DEF Register, Goto, Insert, EntriesErased, FdInv, TypeOK
  <2> QED BY <2>1, <2>2 DEF FdInv
<1>3. ASSUME NEW h \in Handles, CloseFd(h) PROVE FdInv'
  <2>1. at[h] \in {"opened", "live"} /\ fd[h] \in Fds
    BY <1>3 DEF CloseFd, FdInv, ClosedInv, TypeOK, Closed
  <2>2. OwnDescriptor'
    BY <1>3, <2>1 DEF CloseFd, AfterClose, OwnDescriptor, FdInv, TypeOK
  <2>3. ClosedInv'
    BY <1>3 DEF CloseFd, Goto, AfterClose, ClosedInv, FdInv, TypeOK
  <2>4. EntriesErased'
    BY <1>3, <2>1 DEF CloseFd, Goto, EntriesErased, FdInv, TypeOK, AfterClose
  <2> QED BY <2>2, <2>3, <2>4 DEF FdInv
<1>7. ASSUME NEW h \in Handles, CloseFails(h) PROVE FdInv'
  BY <1>7 DEF CloseFails, FdInv, OwnDescriptor, ClosedInv, EntriesErased
<1>4. ASSUME NEW h \in Handles, Deregister(h) PROVE FdInv'
  <2>1. OwnDescriptor' /\ ClosedInv'
    BY <1>4 DEF Deregister, Goto, OwnDescriptor, ClosedInv, FdInv, TypeOK
  <2>2. \A f \in Fds : fds[f] = h => fds'[f] = Nobody
    BY <1>4 DEF Deregister, Key, EntriesErased, FdInv, TypeOK
  <2>3. EntriesErased'
    BY <1>4, <2>2 DEF Deregister, Goto, EntriesErased, FdInv, TypeOK
  <2> QED BY <2>1, <2>3 DEF FdInv
<1>5. ASSUME NEW h \in Handles, Destroy(h) PROVE FdInv'
  BY <1>5 DEF Destroy, Goto, FdInv, OwnDescriptor, ClosedInv, EntriesErased, TypeOK
<1>6. CASE UNCHANGED vars
  BY <1>6 DEF vars, FdInv, OwnDescriptor, ClosedInv, EntriesErased
<1> QED
  BY <1>1, <1>2, <1>3, <1>4, <1>5, <1>6, <1>7 DEF Next

(***************************************************************************)
(* However many handles open, register, close and reuse descriptors, no    *)
(* close() closes another handle's file as long as no ::close() has        *)
(* failed, and the registry never has an entry that nobody is going to     *)
(* erase.                                                                  *)
(***************************************************************************)
THEOREM RegistryCorrect == Spec => [](TypeOK /\ OwnDescriptor /\ EntriesErased)
<1>1. Init => TypeOK /\ FdInv
  BY FdInit
<1>2. (TypeOK /\ FdInv) /\ [Next]_vars => (TypeOK /\ FdInv)'
  BY FdTypeStep, FdStep
<1>3. TypeOK /\ FdInv => TypeOK /\ OwnDescriptor /\ EntriesErased
  BY DEF FdInv
<1> QED
  BY <1>1, <1>2, <1>3, PTL DEF Spec

-----------------------------------------------------------------------------
(***************************************************************************)
(* Only what is chained is somebody's completion (ChainedInv). Once ops    *)
(* was found empty nothing is in it any more (DoneInv), since only what is *)
(* in it can add to it; so no handle is registered then, and fds stays     *)
(* empty when it was (EmptyInv).                                           *)
(***************************************************************************)
ChainedInv == \A c \in Ops : pre[c] # NoOp => stage[c] = "chained"

DoneInv ==
  dtor \in {"handles", "deleted"} /\ ~gaveup => \A o \in Ops : stage[o] \notin InOps

EmptyInv == dtor = "deleted" /\ ~gaveup => FdsEmpty

(***************************************************************************)
(* As long as no descriptor was registered twice, a handle that says that  *)
(* it has been added has its entry.                                        *)
(***************************************************************************)
KeyOf(h) == IF at[h] = "closing" THEN closingfd[h] ELSE fd[h]

AddedInv ==
  ~collided => \A h \in Handles : has_been_added[h] =>
    at[h] \in {"live", "closing"} /\ KeyOf(h) \in Fds /\ fds[KeyOf(h)] = h

\* A handle has its descriptor from openat() on.
OpenedInv == \A h \in Handles : at[h] = "opened" => fd[h] \in Fds

(***************************************************************************)
(* Counts by address are no more than the waits for the operation that is  *)
(* at the address and those it inherited (CountInv), and the least of a    *)
(* round is no more than any of those that this round waited for in vain   *)
(* (LeastInv).                                                             *)
(***************************************************************************)
CountInv == \A o \in Ops : stage[o] # "free" => fails[o] <= waits[o] + inherited[o]

LeastInv ==
  dtor = "waiting" =>
    \A o \in kept \ outstanding :
      FutureReady(o) \/ (mincount # NoCount /\ mincount <= fails[o])

TeardownInv ==
  /\ TeardownTypeOK /\ FdInv /\ OpenedInv
  /\ ChainedInv /\ DoneInv /\ EmptyInv /\ AddedInv /\ CountInv /\ LeastInv

LEMMA Limits ==
  /\ MaxScheduled \in Nat /\ MaxFails \in Nat /\ MaxFails > 0 /\ MaxNaps \in Nat
  /\ NoOp \notin Ops /\ Nobody \notin Handles
BY TeardownAssumption, RegistryAssumption

\* An Init state has every type and the invariant.
LEMMA TeardownInitInv == TeardownInit => TeardownInv
<1> SUFFICES ASSUME TeardownInit PROVE TeardownInv
  OBVIOUS
<1> USE Limits
<1>1. TypeOK /\ FdInv
  BY FdInit DEF TeardownInit
<1>2. TeardownTypeOK
  <2>1. /\ scheduled \in 0..MaxScheduled /\ fails \in [Ops -> 0..MaxFails]
        /\ naps \in 0..MaxNaps + 1 /\ waits \in [Ops -> 0..MaxFails]
        /\ inherited \in [Ops -> 0..MaxFails]
    BY DEF TeardownInit
  <2> QED BY <1>1, <2>1 DEF TeardownInit, TeardownTypeOK
<1>3. AddedInv /\ OpenedInv
  BY DEF TeardownInit, Init, AddedInv, OpenedInv
<1>4. ChainedInv /\ CountInv
  BY DEF TeardownInit, ChainedInv, CountInv
<1>5. DoneInv /\ EmptyInv /\ LeastInv
  BY DEF TeardownInit, DoneInv, EmptyInv, LeastInv
<1> QED
  BY <1>1, <1>2, <1>3, <1>4, <1>5 DEF TeardownInv

\* A step leaves the registry alone or is one of the registry's own.
LEMMA RegistryStep == TeardownTypeOK /\ [TeardownNext]_allvars => [Next]_vars
<1> SUFFICES ASSUME TeardownTypeOK, [TeardownNext]_allvars PROVE [Next]_vars
  OBVIOUS
<1>1. ASSUME NEW o \in Ops, OpStep(o) PROVE [Next]_vars
  <2>1. ASSUME NEW h \in Handles, OpenIn(o, h) PROVE Next
    BY <2>1 DEF OpenIn, Next
  <2>2. ASSUME RegisterIn(o) PROVE Next
    <3> opening[o] \in Handles /\ Register(opening[o])
      BY <2>2 DEF RegisterIn, Busy, TeardownTypeOK
    <3> QED BY DEF Next
  <2> QED
    BY <1>1, <2>1, <2>2 DEF OpStep, Schedule, Start, Defer, Extract, SetFuture, RunFilters,
       Issue, Return
<1>2. ASSUME NEW h \in Handles, CloseStep(h) PROVE [Next]_vars
  BY <1>2 DEF CloseStep, Next
<1>3. CASE Begin \/ DtorStep \/ Over \/ UNCHANGED allvars
  BY <1>3 DEF Begin, DtorStep, Snapshot, EndRound, Nap, Delete, WaitReady, WaitTimesOut, Over,
     allvars
<1> QED
  BY <1>1, <1>2, <1>3 DEF TeardownNext

\* Every step keeps the types.
LEMMA TeardownTypeStep == TeardownTypeOK /\ [TeardownNext]_allvars => TeardownTypeOK'
<1> SUFFICES ASSUME TeardownTypeOK, [TeardownNext]_allvars PROVE TeardownTypeOK'
  OBVIOUS
<1> USE Limits DEF InOps, Tail
<1>0. TypeOK'
  BY RegistryStep, FdTypeStep DEF TeardownTypeOK
<1>1. ASSUME NEW o \in Ops, OpStep(o) PROVE TeardownTypeOK'
  <2>1. CASE Schedule(o)
    BY <1>0, <2>1 DEF Schedule, Move, TeardownTypeOK
  <2>2. CASE Start(o) \/ Defer(o) \/ Extract(o) \/ SetFuture(o) \/ RunFilters(o)
    BY <1>0, <2>2 DEF Start, Defer, Extract, SetFuture, RunFilters, Move,
       TeardownTypeOK, dtorvars, rounds
  <2>6. CASE Return(o)
    BY <1>0, <2>6 DEF Return, Move, TeardownTypeOK
  <2>3. CASE Issue(o)
    BY <1>0, <2>3 DEF Issue, Completions, Move, TeardownTypeOK, dtorvars, rounds
  <2>4. CASE RegisterIn(o)
    BY <1>0, <2>4 DEF RegisterIn, TeardownTypeOK, dtorvars, rounds
  <2>5. ASSUME NEW h \in Handles, OpenIn(o, h) PROVE TeardownTypeOK'
    BY <1>0, <2>5 DEF OpenIn, TeardownTypeOK, dtorvars, rounds
  <2> QED BY <1>1, <2>1, <2>2, <2>3, <2>4, <2>5, <2>6 DEF OpStep
<1>2. ASSUME NEW h \in Handles, CloseStep(h) PROVE TeardownTypeOK'
  BY <1>0, <1>2 DEF CloseStep, TeardownTypeOK, dtorvars, rounds
<1>3. CASE Begin \/ Nap
  BY <1>0, <1>3 DEF Begin, Nap, Patient, TeardownTypeOK, rounds, opvars
<1>8. CASE Delete
  <2>1. gaveup' \in BOOLEAN
    BY <1>8 DEF Delete
  <2> QED BY <1>0, <1>8, <2>1 DEF Delete, TeardownTypeOK, rounds, opvars
<1>4. CASE Snapshot \/ EndRound
  BY <1>0, <1>4 DEF Snapshot, Extant, EndRound, Stuck, TeardownTypeOK, opvars
<1>5. ASSUME NEW o \in Ops, WaitReady(o) PROVE TeardownTypeOK'
  BY <1>0, <1>5 DEF WaitReady, TeardownTypeOK, opvars
<1>6. ASSUME NEW o \in Ops, WaitTimesOut(o) PROVE TeardownTypeOK'
  <2>1. More(fails[o]) \in 1..MaxFails /\ More(waits[o]) \in 0..MaxFails
    BY DEF More, TeardownTypeOK
  <2>2. mincount' \in {NoCount} \cup 1..MaxFails
    BY <1>6, <2>1 DEF WaitTimesOut, Lower, TeardownTypeOK
  <2> QED BY <1>0, <1>6, <2>1, <2>2 DEF WaitTimesOut, TeardownTypeOK, opvars
<1>7. CASE Over \/ UNCHANGED allvars
  BY <1>0, <1>7 DEF Over, allvars, opvars, dtorvars, rounds, TeardownTypeOK
<1> QED
  BY <1>1, <1>2, <1>3, <1>4, <1>5, <1>6, <1>7, <1>8 DEF TeardownNext, DtorStep

\* Operations.
LEMMA OpsStep ==
  TeardownTypeOK /\ ChainedInv /\ DoneInv /\ [TeardownNext]_allvars => ChainedInv' /\ DoneInv'
<1> SUFFICES ASSUME TeardownTypeOK, ChainedInv, DoneInv, [TeardownNext]_allvars
             PROVE  ChainedInv' /\ DoneInv'
  OBVIOUS
<1> USE Limits
<1>1. ASSUME NEW o \in Ops, OpStep(o) PROVE ChainedInv' /\ DoneInv'
  <2>1. CASE Schedule(o)
    <3>1. ChainedInv'
      BY <2>1 DEF Schedule, Move, ChainedInv, TeardownTypeOK
    <3>2. DoneInv'
      BY <2>1 DEF Schedule, MaySchedule, DoneInv, InOps
    <3> QED BY <3>1, <3>2
  <2>2. CASE Start(o) \/ Defer(o) \/ Extract(o) \/ SetFuture(o) \/ RunFilters(o)
    <3>1. ChainedInv'
      BY <2>2 DEF Start, Defer, Extract, SetFuture, RunFilters, Move, ChainedInv, TeardownTypeOK
    <3>2. DoneInv'
      BY <2>2 DEF Start, Defer, Extract, SetFuture, RunFilters, Move, DoneInv, InOps,
         TeardownTypeOK, dtorvars
    <3> QED BY <3>1, <3>2
  <2>3. CASE Issue(o)
    <3> PICK c \in Completions(o) : pre' = [pre EXCEPT ![c] = NoOp] /\ Move(c, "queued")
      BY <2>3 DEF Issue
    <3> c \in Ops /\ stage[c] = "chained"
      BY <2>3 DEF Completions, ChainedInv, Issue
    <3> QED BY <2>3 DEF Issue, Move, ChainedInv, DoneInv, InOps, TeardownTypeOK, dtorvars
  <2>4. CASE Return(o)
    BY <2>4 DEF Return, Move, ChainedInv, DoneInv, InOps, TeardownTypeOK, dtorvars
  <2>5. ASSUME RegisterIn(o) \/ \E h \in Handles : OpenIn(o, h) PROVE ChainedInv' /\ DoneInv'
    BY <2>5 DEF RegisterIn, OpenIn, ChainedInv, DoneInv, dtorvars
  <2> QED BY <1>1, <2>1, <2>2, <2>3, <2>4, <2>5 DEF OpStep
<1>2. ASSUME NEW h \in Handles, CloseStep(h) PROVE ChainedInv' /\ DoneInv'
  BY <1>2 DEF CloseStep, ChainedInv, DoneInv, dtorvars
<1>3. ASSUME Begin \/ DtorStep PROVE ChainedInv'
  BY <1>3 DEF Begin, DtorStep, Snapshot, EndRound, Nap, Delete, WaitReady, WaitTimesOut,
     ChainedInv, opvars
<1>4. CASE Snapshot
  BY <1>3, <1>4 DEF DtorStep, Snapshot, Extant, DoneInv, opvars
<1>5. CASE EndRound
  BY <1>3, <1>5 DEF DtorStep, EndRound, DoneInv, opvars
<1>6. ASSUME Begin \/ Nap \/ \E o \in Ops : WaitReady(o) \/ WaitTimesOut(o) PROVE DoneInv'
  BY <1>6 DEF Begin, Nap, WaitReady, WaitTimesOut, DoneInv, opvars
<1>7. CASE Delete
  BY <1>3, <1>7 DEF DtorStep, Delete, DoneInv, opvars
<1>8. CASE Over \/ UNCHANGED allvars
  BY <1>8 DEF Over, allvars, opvars, dtorvars, ChainedInv, DoneInv
<1> QED
  BY <1>1, <1>2, <1>3, <1>4, <1>5, <1>6, <1>7, <1>8 DEF TeardownNext, DtorStep

\* Handles. Registering needs an operation that runs, and there is none once all is done.
LEMMA HandlesStep ==
  TeardownInv /\ [TeardownNext]_allvars => EmptyInv' /\ AddedInv'
<1> SUFFICES ASSUME TeardownInv, [TeardownNext]_allvars PROVE EmptyInv' /\ AddedInv'
  OBVIOUS
<1> USE Limits, NobodyNotHandle, ClosedNotFd DEF TeardownInv
<1>1. ASSUME UNCHANGED <<vars, dtorvars, collided>> PROVE EmptyInv' /\ AddedInv'
  BY <1>1 DEF vars, dtorvars, EmptyInv, FdsEmpty, AddedInv, KeyOf
<1>2. ASSUME NEW o \in Ops, OpStep(o) PROVE EmptyInv' /\ AddedInv'
  <2>1. CASE Schedule(o)
    BY <2>1 DEF Schedule, vars, EmptyInv, FdsEmpty, AddedInv, KeyOf
  <2>2. CASE Start(o) \/ Defer(o) \/ Extract(o) \/ SetFuture(o) \/ RunFilters(o) \/ Issue(o)
    BY <1>1, <2>2 DEF Start, Defer, Extract, SetFuture, RunFilters, Issue
  <2>5. CASE Return(o)
    BY <2>5 DEF Return, vars, EmptyInv, FdsEmpty, AddedInv, KeyOf
  <2>3. CASE RegisterIn(o)
    <3> DEFINE h == opening[o]
    <3>1. /\ h \in Handles /\ at[h] = "opened" /\ fds' = Insert(h)
          /\ has_been_added' = [has_been_added EXCEPT ![h] = TRUE]
          /\ at' = [at EXCEPT ![h] = "live"]
          /\ UNCHANGED <<descriptor, fd, closingfd>>
      BY <2>3 DEF RegisterIn, Busy, Register, Goto, TeardownTypeOK
    <3>2. EmptyInv'
      BY <2>3 DEF RegisterIn, EmptyInv, DoneInv, InOps, dtorvars
    <3>3. ASSUME ~collided' PROVE AddedInv'
      <4>1. ~collided /\ fds[fd[h]] = Nobody
        BY <2>3, <3>3 DEF RegisterIn
      <4>2. fd[h] \in Fds
        BY <3>1 DEF OpenedInv
      <4> QED
        BY <3>1, <4>1, <4>2 DEF AddedInv, KeyOf, Insert, TeardownTypeOK, TypeOK
    <3>4. AddedInv'
      BY <3>3 DEF AddedInv
    <3> QED BY <3>2, <3>4
  <2>4. ASSUME NEW h \in Handles, OpenIn(o, h) PROVE EmptyInv' /\ AddedInv'
    <3>1. EmptyInv'
      BY <2>4 DEF OpenIn, Open, EmptyInv, FdsEmpty, dtorvars
    <3>2. AddedInv'
      BY <2>4 DEF OpenIn, Open, Goto, AddedInv, KeyOf, TeardownTypeOK, TypeOK
    <3> QED BY <3>1, <3>2
  <2> QED BY <1>2, <2>1, <2>2, <2>3, <2>4, <2>5 DEF OpStep
<1>3. ASSUME NEW h \in Handles, CloseStep(h) PROVE EmptyInv' /\ AddedInv'
  <2>1. UNCHANGED <<dtorvars, collided>>
    BY <1>3 DEF CloseStep
  <2>2. CASE CloseFd(h)
    <3>1. EmptyInv'
      BY <2>1, <2>2 DEF CloseFd, EmptyInv, FdsEmpty, dtorvars
    <3>2. fd[h] # Closed /\ at[h] # "closing" /\ at[h] # "closed"
      BY <2>2 DEF CloseFd, Closed, FdInv, ClosedInv
    <3>3. AddedInv'
      BY <2>1, <2>2, <3>2 DEF CloseFd, Goto, AddedInv, KeyOf, TeardownTypeOK, TypeOK
    <3> QED BY <3>1, <3>3
  <2>5. CASE CloseFails(h)
    BY <2>1, <2>5 DEF CloseFails, EmptyInv, FdsEmpty, AddedInv, KeyOf, dtorvars
  <2>3. CASE Deregister(h)
    <3>1. EmptyInv'
      BY <2>1, <2>3 DEF Deregister, EmptyInv, FdsEmpty, dtorvars
    <3>2. AddedInv'
      BY <2>1, <2>3 DEF Deregister, Key, Goto, AddedInv, KeyOf, TeardownTypeOK, TypeOK
    <3> QED BY <3>1, <3>2
  <2>4. CASE Destroy(h)
    BY <2>1, <2>4 DEF Destroy, Goto, EmptyInv, FdsEmpty, AddedInv, KeyOf, dtorvars,
       TeardownTypeOK, TypeOK
  <2> QED BY <1>3, <2>2, <2>3, <2>4, <2>5 DEF CloseStep
<1>4. ASSUME Begin \/ DtorStep PROVE AddedInv'
  BY <1>4 DEF Begin, DtorStep, Snapshot, EndRound, Nap, Delete, WaitReady, WaitTimesOut, vars,
     AddedInv, KeyOf
<1>5. ASSUME Begin \/ Snapshot \/ EndRound \/ Nap PROVE EmptyInv'
  BY <1>5 DEF Begin, Snapshot, EndRound, Nap, vars, EmptyInv, FdsEmpty
<1>6. ASSUME NEW o \in Ops, WaitReady(o) \/ WaitTimesOut(o) PROVE EmptyInv'
  BY <1>6 DEF WaitReady, WaitTimesOut, vars, EmptyInv, FdsEmpty
<1>7. ASSUME Delete PROVE EmptyInv'
  BY <1>7 DEF Delete, HandlesGone, vars, EmptyInv, FdsEmpty
<1>8. CASE Over \/ UNCHANGED allvars
  BY <1>1, <1>8 DEF Over, allvars
<1> QED
  BY <1>2, <1>3, <1>4, <1>5, <1>6, <1>7, <1>8 DEF TeardownNext, DtorStep

\* Every step keeps OpenedInv.
LEMMA OpenedStep == TeardownTypeOK /\ OpenedInv /\ [TeardownNext]_allvars => OpenedInv'
<1> SUFFICES ASSUME TeardownTypeOK, OpenedInv, [TeardownNext]_allvars PROVE OpenedInv'
  OBVIOUS
<1>1. [Next]_vars
  BY RegistryStep
<1>2. ASSUME NEW h \in Handles, Open(h) PROVE OpenedInv'
  BY <1>2 DEF Open, Goto, OpenedInv, TeardownTypeOK, TypeOK
<1>3. ASSUME NEW h \in Handles,
             Register(h) \/ CloseFd(h) \/ CloseFails(h) \/ Deregister(h) \/ Destroy(h)
      PROVE  OpenedInv'
  BY <1>3 DEF Register, CloseFd, CloseFails, Deregister, Destroy, Goto, OpenedInv, TeardownTypeOK, TypeOK
<1>4. CASE UNCHANGED vars
  BY <1>4 DEF vars, OpenedInv
<1> QED
  BY <1>1, <1>2, <1>3, <1>4 DEF Next

(***************************************************************************)
(* Rounds. An operation that the destructor keeps and that is ready stays  *)
(* ready, since its address is not used again before the round ends.       *)
(***************************************************************************)
LEMMA RoundsStep ==
  TeardownInv /\ [TeardownNext]_allvars => CountInv' /\ LeastInv'
<1> SUFFICES ASSUME TeardownInv, [TeardownNext]_allvars PROVE CountInv' /\ LeastInv'
  OBVIOUS
<1> USE Limits DEF TeardownInv
<1>1. ASSUME UNCHANGED <<outstanding, kept, fails, mincount, dtor>>,
             \A o \in kept : FutureReady(o) => FutureReady(o)'
      PROVE  LeastInv'
  BY <1>1 DEF LeastInv, TeardownTypeOK
<1>8. ASSUME UNCHANGED <<fails, waits, inherited>>,
             \A o \in Ops : stage'[o] # "free" => stage[o] # "free"
      PROVE  CountInv'
  BY <1>8 DEF CountInv
<1>2. ASSUME NEW o \in Ops, OpStep(o) PROVE CountInv' /\ LeastInv'
  <2>1. CASE Schedule(o)
    <3>1. /\ UNCHANGED <<fails, waits>> /\ inherited' = [inherited EXCEPT ![o] = fails[o]]
          /\ stage' = [stage EXCEPT ![o] = stage'[o]]
      BY <2>1 DEF Schedule, Move, TeardownTypeOK
    <3>2. \A q \in Ops : fails[q] \in Nat /\ waits[q] \in Nat /\ inherited[q] \in Nat
      BY DEF TeardownTypeOK
    <3>3. CountInv'
      <4> SUFFICES ASSUME NEW q \in Ops, stage'[q] # "free"
                   PROVE  fails[q] <= waits[q] + inherited'[q]
        BY <3>1 DEF CountInv
      <4>1. CASE q = o
        <5>1. inherited'[q] = fails[q]
          BY <3>1, <4>1 DEF TeardownTypeOK
        <5> QED BY <3>2, <5>1
      <4>2. CASE q # o
        <5>1. stage[q] # "free" /\ inherited'[q] = inherited[q]
          BY <3>1, <4>2 DEF TeardownTypeOK
        <5> QED BY <5>1 DEF CountInv
      <4> QED BY <4>1, <4>2
    <3>4. \A q \in kept : FutureReady(q) => FutureReady(q)'
      BY <2>1 DEF Schedule, Move, FutureReady, InOps, TeardownTypeOK
    <3>5. LeastInv'
      BY <1>1, <2>1, <3>4 DEF Schedule
    <3> QED BY <3>3, <3>5
  <2>2. CASE Start(o) \/ Defer(o) \/ Extract(o) \/ SetFuture(o) \/ RunFilters(o)
    <3>1. \A q \in kept : FutureReady(q) => FutureReady(q)'
      BY <2>2 DEF Start, Defer, Extract, SetFuture, RunFilters, Move, FutureReady,
         InOps, TeardownTypeOK
    <3>2. \A q \in Ops : stage'[q] # "free" => stage[q] # "free"
      BY <2>2 DEF Start, Defer, Extract, SetFuture, RunFilters, Move, TeardownTypeOK
    <3> QED
      BY <1>1, <1>8, <2>2, <3>1, <3>2 DEF Start, Defer, Extract, SetFuture, RunFilters, dtorvars,
         rounds
  <2>5. CASE Return(o)
    <3>1. \A q \in kept : FutureReady(q) => FutureReady(q)'
      BY <2>5 DEF Return, Move, FutureReady, InOps, TeardownTypeOK
    <3>2. LeastInv'
      BY <1>1, <2>5, <3>1 DEF Return
    <3>3. CountInv'
      BY <2>5 DEF Return, Move, CountInv, TeardownTypeOK
    <3> QED BY <3>2, <3>3
  <2>3. CASE Issue(o)
    <3>1. PICK c \in Completions(o) : Move(c, "queued")
      BY <2>3 DEF Issue
    <3>2. c \in Ops /\ stage[c] = "chained"
      BY <2>3 DEF Completions, ChainedInv, Issue
    <3>3. \A q \in kept : FutureReady(q) => FutureReady(q)'
      BY <3>1, <3>2 DEF Move, FutureReady, InOps, TeardownTypeOK
    <3>4. \A q \in Ops : stage'[q] # "free" => stage[q] # "free"
      BY <3>1, <3>2 DEF Move, TeardownTypeOK
    <3> QED BY <1>1, <1>8, <2>3, <3>3, <3>4 DEF Issue, dtorvars, rounds
  <2>4. ASSUME RegisterIn(o) \/ \E h \in Handles : OpenIn(o, h) PROVE CountInv' /\ LeastInv'
    <3>1. UNCHANGED <<stage, dtorvars>>
      BY <2>4 DEF RegisterIn, OpenIn
    <3> QED BY <1>1, <1>8, <3>1 DEF dtorvars, rounds, FutureReady
  <2> QED BY <1>2, <2>1, <2>2, <2>3, <2>4, <2>5 DEF OpStep
<1>3. ASSUME NEW h \in Handles, CloseStep(h) PROVE CountInv' /\ LeastInv'
  <2>1. UNCHANGED <<stage, dtorvars>>
    BY <1>3 DEF CloseStep
  <2> QED BY <1>1, <1>8, <2>1 DEF dtorvars, rounds, FutureReady
<1>4. CASE Begin \/ Snapshot \/ EndRound \/ Nap \/ Delete
  <2>1. CountInv'
    BY <1>4 DEF Begin, Snapshot, EndRound, Nap, Delete, rounds, opvars, CountInv
  <2>2. LeastInv'
    BY <1>4 DEF Begin, Snapshot, EndRound, Nap, Delete, rounds, LeastInv
  <2> QED BY <2>1, <2>2
<1>5. ASSUME NEW o \in Ops, WaitReady(o) PROVE CountInv' /\ LeastInv'
  <2>1. CountInv'
    <3>1. \A q \in Ops : fails'[q] \in {0, fails[q]} /\ fails[q] \in Nat
      BY <1>5 DEF WaitReady, TeardownTypeOK
    <3>2. \A q \in Ops : waits[q] + inherited[q] \in Nat
      BY DEF TeardownTypeOK
    <3> QED BY <1>5, <3>1, <3>2 DEF WaitReady, opvars, CountInv
  <2>2. LeastInv'
    BY <1>5 DEF WaitReady, LeastInv, FutureReady, opvars, TeardownTypeOK
  <2> QED BY <2>1, <2>2
<1>6. ASSUME NEW o \in Ops, WaitTimesOut(o) PROVE CountInv' /\ LeastInv'
  <2>1. /\ fails' = [fails EXCEPT ![o] = More(fails[o])]
        /\ waits' = [waits EXCEPT ![o] = More(waits[o])]
        /\ fails[o] \in 0..MaxFails /\ waits[o] \in 0..MaxFails
    BY <1>6 DEF WaitTimesOut, TeardownTypeOK
  <2>2. CountInv'
    <3> SUFFICES ASSUME NEW q \in Ops, stage[q] # "free"
                 PROVE  fails'[q] <= waits'[q] + inherited[q]
      BY <1>6 DEF WaitTimesOut, opvars, CountInv
    <3>1. fails[q] <= waits[q] + inherited[q]
      BY DEF CountInv
    <3>2. fails[q] \in 0..MaxFails /\ waits[q] \in 0..MaxFails /\ inherited[q] \in Nat
      BY DEF TeardownTypeOK
    <3>3. CASE q = o
      <4>1. fails'[q] = More(fails[q]) /\ waits'[q] = More(waits[q])
        BY <2>1, <3>3 DEF TeardownTypeOK
      <4> QED BY <3>1, <3>2, <4>1 DEF More
    <3>4. CASE q # o
      <4>1. fails'[q] = fails[q] /\ waits'[q] = waits[q]
        BY <2>1, <3>4 DEF TeardownTypeOK
      <4> QED BY <3>1, <4>1
    <3> QED BY <3>3, <3>4
  <2>3. /\ mincount' # NoCount /\ mincount' <= fails'[o]
        /\ mincount # NoCount => mincount' <= mincount
    BY <1>6, <2>1 DEF WaitTimesOut, Lower, More, NoCount, TeardownTypeOK
  <2>4. LeastInv'
    <3> SUFFICES ASSUME NEW q \in kept' \ outstanding', ~FutureReady(q)'
                 PROVE  mincount' # NoCount /\ mincount' <= fails'[q]
      BY DEF LeastInv
    <3>1. UNCHANGED <<stage, kept>> /\ outstanding' = outstanding \ {o} /\ dtor = "waiting"
      BY <1>6 DEF WaitTimesOut, opvars
    <3>2. CASE q = o
      BY <2>3, <3>2
    <3>3. CASE q # o
      <4>1. q \in kept \ outstanding /\ ~FutureReady(q) /\ q \in Ops
        BY <3>1, <3>3 DEF FutureReady, TeardownTypeOK
      <4>2. mincount # NoCount /\ mincount <= fails[q]
        BY <3>1, <4>1 DEF LeastInv
      <4>3. mincount \in Nat /\ mincount' \in Nat /\ fails'[q] = fails[q] /\ fails[q] \in Nat
        BY <2>1, <2>3, <3>3, <4>1, <4>2, <1>6, TeardownTypeStep DEF TeardownTypeOK, NoCount
      <4> QED BY <2>3, <4>2, <4>3
    <3> QED BY <3>2, <3>3
  <2> QED BY <2>2, <2>4
<1>7. CASE Over \/ UNCHANGED allvars
  <2>1. UNCHANGED <<stage, dtorvars>>
    BY <1>7 DEF Over, allvars, opvars
  <2> QED BY <1>1, <1>8, <2>1 DEF dtorvars, rounds, FutureReady
<1> QED
  BY <1>2, <1>3, <1>4, <1>5, <1>6, <1>7 DEF TeardownNext, DtorStep

-----------------------------------------------------------------------------
\* The invariant holds in every state that the dispatcher and its destructor reach.
THEOREM TeardownInvariant == TeardownSpec => []TeardownInv
<1>1. TeardownInv /\ [TeardownNext]_allvars => TeardownInv'
  <2> SUFFICES ASSUME TeardownInv, [TeardownNext]_allvars PROVE TeardownInv'
    OBVIOUS
  <2>1. TeardownTypeOK' /\ FdInv'
    BY TeardownTypeStep, RegistryStep, FdStep DEF TeardownInv, TeardownTypeOK
  <2> QED
    BY <2>1, OpsStep, HandlesStep, OpenedStep, RoundsStep DEF TeardownInv
<1> QED
  BY <1>1, TeardownInitInv, PTL DEF TeardownSpec

(***************************************************************************)
(* The registry with the destructor and its operations beside it is still  *)
(* the registry of FdRegistry.                                             *)
(***************************************************************************)
THEOREM TeardownImplementsRegistry == TeardownSpec => Spec
<1>1. TeardownInit => Init
  BY DEF TeardownInit
<1>2. TeardownInv /\ [TeardownNext]_allvars => [Next]_vars
  BY RegistryStep DEF TeardownInv
<1> QED
  BY <1>1, <1>2, TeardownInvariant, PTL DEF TeardownSpec, Spec

(***************************************************************************)
(* Unless it gave up, the destructor leaves no operation behind that runs  *)
(* or is to run, and unless a descriptor was registered twice, no handle   *)
(* that would deregister itself, however many there are of each; as long   *)
(* as no ::close() failed no close() closes another handle's file, and the *)
(* registry never has an entry that nobody is going to erase.              *)
(***************************************************************************)
THEOREM TeardownCorrect ==
  TeardownSpec => [](/\ TeardownTypeOK /\ OwnDescriptor /\ EntriesErased
                     /\ OpsOutlived /\ HandlesOutlived)
<1>1. TeardownInv => OpsOutlived
  <2> SUFFICES ASSUME TeardownInv, dtor = "deleted", ~gaveup, NEW o \in Ops
               PROVE  stage[o] \notin InOps /\ Completions(o) = {}
    BY DEF OpsOutlived
  <2>1. \A q \in Ops : stage[q] \notin InOps
    BY DEF TeardownInv, DoneInv
  <2>2. \A c \in Ops : pre[c] # o
    BY <2>1, Limits DEF TeardownInv, ChainedInv, InOps
  <2> QED BY <2>1, <2>2 DEF Completions
<1>2. TeardownInv => HandlesOutlived
  <2> SUFFICES ASSUME TeardownInv, dtor = "deleted", ~gaveup, ~collided, NEW h \in Handles,
                      has_been_added[h]
               PROVE  FALSE
    BY DEF HandlesOutlived
  <2>1. KeyOf(h) \in Fds /\ fds[KeyOf(h)] = h
    BY DEF TeardownInv, AddedInv
  <2> QED BY <2>1, NobodyNotHandle DEF TeardownInv, EmptyInv, FdsEmpty
<1>3. TeardownInv => TeardownTypeOK /\ OwnDescriptor /\ EntriesErased
  BY DEF TeardownInv, FdInv
<1> QED
  BY <1>1, <1>2, <1>3, TeardownInvariant, PTL

(***************************************************************************)
(* Every operation that it gives up on was waited for in vain MaxFails     *)
(* times, or it and those before it at its address were, whatever MaxFails *)
(* is and whichever addresses are used again, a count being kept by        *)
(* address and by no other name.                                           *)
(***************************************************************************)
THEOREM GivesUpCorrect == TeardownSpec => []GivesUpOnWaited
<1>1. TeardownInv => GivesUpOnWaited
  <2> SUFFICES ASSUME TeardownInv, dtor = "waiting", outstanding = {}, Stuck,
                      NEW o \in kept, ~FutureReady(o)
               PROVE  waits[o] + inherited[o] >= MaxFails
    BY DEF GivesUpOnWaited
  <2>1. mincount # NoCount /\ mincount <= fails[o] /\ mincount >= MaxFails
    BY DEF TeardownInv, LeastInv, Stuck
  <2>2. o \in Ops /\ stage[o] # "free"
    BY DEF TeardownInv, TeardownTypeOK, FutureReady, InOps
  <2>3. fails[o] <= waits[o] + inherited[o]
    BY <2>2 DEF TeardownInv, CountInv
  <2>4. /\ mincount \in Int /\ fails[o] \in Int /\ MaxFails \in Int
        /\ waits[o] \in Int /\ inherited[o] \in Int
    BY <2>2, Limits DEF TeardownInv, TeardownTypeOK, NoCount
  <2> QED BY <2>1, <2>3, <2>4
<1> QED
  BY <1>1, TeardownInvariant, PTL
=============================================================================
