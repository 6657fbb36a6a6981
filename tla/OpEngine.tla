------------------------------ MODULE OpEngine ------------------------------
(***************************************************************************)
(* The operation engine of the AFIO dispatcher (POSIX build, afio.ipp):    *)
(* how an asynchronous operation is chained to its precondition, executed  *)
(* by a pool thread or "immediately" by the completing thread, completed,  *)
(* and how its completions are issued.                                     *)
(*                                                                         *)
(* Every step below is one uninterrupted piece of a thread's work: a       *)
(* critical section of opslock, one atomic store, or purely local work.    *)
(* A thread is a stack of frames, because an immediate operation runs      *)
(* nested inside the complete_async_op() (or the scheduling call) that     *)
(* issues it:                                                              *)
(*   "body"      invoke_async_op_completions() of an operation,            *)
(*   "complete"  complete_async_op() for an operation.                     *)
(* The vectors of completions and of immediates and the io_service queue   *)
(* are sets: no property here depends on the order within one of them.     *)
(***************************************************************************)
EXTENDS Integers, Sequences

CONSTANTS
  MaxOps,   \* bound on the operations ever scheduled (monotoniccount)
  Workers,  \* the threads of the thread_source
  Clients,  \* user threads, which call the dispatcher
  Kinds     \* the kinds of operation the clients schedule

ASSUME EngineAssumption ==
  /\ MaxOps \in Nat
  /\ Workers \cap Clients = {}
  /\ Kinds \subseteq {"io", "user"}

NoOp == 0              \* the id of a default constructed future<>
OpId == 1..MaxOps
Thread == Workers \cup Clients

Outcome == {"value", "error"}
Frame == [fn : {"body", "complete"}, op : OpId]

(***************************************************************************)
(* What chain_async_op() binds into an operation's task: the precondition, *)
(* the immediate flag, and whether the body is one of the engine's (it     *)
(* first calls op.get_handle(), so it waits for the precondition and       *)
(* rethrows its error) or a user completion (it may ignore the             *)
(* precondition, and may defer its own completion).                        *)
(***************************************************************************)
Binding == [pre : OpId \cup {NoOp}, immediate : BOOLEAN, kind : {"io", "user"}]

VARIABLES
  monotoniccount, \* the last id handed out
  ops,            \* ids in dispatcher_p::ops
  bound,          \* id -> the binding of its task
  completions,    \* id -> operations chained to it while it is in ops
  detached,       \* id -> those moved to complete_async_op()'s stack
  future,         \* id -> state of the operation's shared future
  pool,           \* tasks posted to the io_service
  callAt,         \* client -> where it is inside a scheduling call
  scheduling,     \* client -> the id its chain_async_op() is working on
  batch,          \* client -> ids whose futures the call is to return
  toexecute,      \* client -> the call's immediate_async_ops
  futures,        \* ids whose future<> has been returned to a user
  deferred,       \* ids whose callback left the completion to the user
  stack,          \* thread -> its frames, innermost first
  bodyAt,         \* id -> where its body is
  completeAt,     \* id -> where complete_async_op() for it is
  outcome,        \* id -> what complete_async_op() was called with
  fatal           \* BOOST_AFIO_THROW_FATAL was reached

opVars == <<monotoniccount, bound>>
callVars == <<callAt, scheduling, batch, toexecute, futures>>
frameVars == <<bodyAt, completeAt, outcome>>
vars == <<monotoniccount, ops, bound, completions, detached, future, pool,
          callAt, scheduling, batch, toexecute, futures, deferred, stack,
          bodyAt, completeAt, outcome, fatal>>

CallLabel == {"idle", "insert", "enqueue", "next", "immediates"}
BodyLabel == {"none", "running", "deferring", "completing", "done"}
CompleteLabel == {"none", "extract", "set", "filter", "issue", "done"}

TypeOK ==
  /\ monotoniccount \in 0..MaxOps
  /\ ops \in SUBSET OpId
  /\ bound \in [OpId -> Binding]
  /\ completions \in [OpId -> SUBSET OpId]
  /\ detached \in [OpId -> SUBSET OpId]
  /\ future \in [OpId -> Outcome \cup {"unset"}]
  /\ pool \in SUBSET OpId
  /\ callAt \in [Clients -> CallLabel]
  /\ scheduling \in [Clients -> OpId \cup {NoOp}]
  /\ batch \in [Clients -> SUBSET OpId]
  /\ toexecute \in [Clients -> SUBSET OpId]
  /\ futures \in SUBSET OpId
  /\ deferred \in SUBSET OpId
  /\ stack \in [Thread -> Seq(Frame)]
  /\ bodyAt \in [OpId -> BodyLabel]
  /\ completeAt \in [OpId -> CompleteLabel]
  /\ outcome \in [OpId -> Outcome]
  /\ fatal \in BOOLEAN

(***************************************************************************)
(* Helpers.                                                                *)
(***************************************************************************)
On(t, fn, o) == stack[t] # <<>> /\ Head(stack[t]) = [fn |-> fn, op |-> o]
Push(t, fn, o) == stack' = [stack EXCEPT ![t] = <<[fn |-> fn, op |-> o]>> \o @]
Pop(t) == stack' = [stack EXCEPT ![t] = Tail(@)]

Pre(o) == bound[o].pre

\* Whether an operation chained now is to wait: its precondition is in ops.
\* Mutants: chaining to one whose completions may already be detached;
\* never chaining.
StillInFlight_Unready(p) == IF p = NoOp THEN FALSE ELSE future[p] = "unset"
StillInFlight_Never(p) == FALSE
StillInFlight(p) == p \in ops

\* What op.get_handle() waits for, and when it rethrows.
\* Mutant: the handle is read without waiting.
Ready_NoWait(p) == TRUE
Ready(p) == IF p = NoOp THEN TRUE ELSE future[p] # "unset"
Failed(p) == IF p = NoOp THEN FALSE ELSE future[p] = "error"

\* Begin the body of o on thread t.
StartBody(t, o) ==
  /\ Push(t, "body", o)
  /\ bodyAt' = [bodyAt EXCEPT ![o] = "running"]

\* Call complete_async_op(o, r) on thread t.
CallComplete(t, o, r) ==
  /\ Push(t, "complete", o)
  /\ completeAt' = [completeAt EXCEPT ![o] = "extract"]
  /\ outcome' = [outcome EXCEPT ![o] = r]

(***************************************************************************)
(* Scheduling: chain_async_ops() calls chain_async_op() once per item, and *)
(* its immediate_async_ops is destructed, executing them, when it returns. *)
(***************************************************************************)

\* The client starts the next item: it takes an id and binds the task. The
\* preconditions are futures it holds.
NextItem(c) ==
  /\ callAt[c] \in {"idle", "next"} /\ stack[c] = <<>>
  /\ monotoniccount < MaxOps
  /\ monotoniccount' = monotoniccount + 1
  /\ \E b \in Binding :
       /\ b.pre \in futures \cup {NoOp} /\ b.kind \in Kinds
       /\ bound' = [bound EXCEPT ![monotoniccount'] = b]
  /\ scheduling' = [scheduling EXCEPT ![c] = monotoniccount']
  /\ callAt' = [callAt EXCEPT ![c] = "insert"]
  /\ UNCHANGED <<ops, completions, detached, future, pool, batch, toexecute,
                 futures, deferred, stack, frameVars, fatal>>

\* One critical section of opslock: the operation goes into ops and, if its
\* precondition is still there, into that one's completions ("done").
Insert(c) ==
  LET o == scheduling[c] IN
  /\ callAt[c] = "insert"
  /\ ops' = ops \cup {o}
  /\ \/ /\ StillInFlight(Pre(o))
        /\ completions' = [completions EXCEPT ![Pre(o)] = @ \cup {o}]
        /\ batch' = [batch EXCEPT ![c] = @ \cup {o}]
        /\ callAt' = [callAt EXCEPT ![c] = "next"]
        /\ scheduling' = [scheduling EXCEPT ![c] = NoOp]
     \/ /\ ~StillInFlight(Pre(o))
        /\ callAt' = [callAt EXCEPT ![c] = "enqueue"]
        /\ UNCHANGED <<completions, batch, scheduling>>
  /\ UNCHANGED <<opVars, detached, future, pool, toexecute, futures,
                 deferred, stack, frameVars, fatal>>

\* No precondition in flight: queue at once.
Enqueue(c) ==
  LET o == scheduling[c] IN
  /\ callAt[c] = "enqueue"
  /\ IF bound[o].immediate
       THEN /\ toexecute' = [toexecute EXCEPT ![c] = @ \cup {o}]
            /\ UNCHANGED pool
       ELSE /\ pool' = pool \cup {o}
            /\ UNCHANGED toexecute
  /\ batch' = [batch EXCEPT ![c] = @ \cup {o}]
  /\ callAt' = [callAt EXCEPT ![c] = "next"]
  /\ scheduling' = [scheduling EXCEPT ![c] = NoOp]
  /\ UNCHANGED <<opVars, ops, completions, detached, future, futures,
                 deferred, stack, frameVars, fatal>>

\* The insertion, the chaining or the queueing throws: the Undoer takes the
\* operation out of ops again, and the exception leaves the call, which
\* therefore returns no future at all.  That is what the Undoer is for; it
\* begins with throw;, which ends the program while no handler has caught the
\* exception yet, and then there is no next state to speak of.  An insertion
\* and its undoing are one step: in between the operation is in ops as it is
\* between Insert and Enqueue.
ChainThrows(c) ==
  /\ callAt[c] \in {"insert", "enqueue"}
  /\ ops' = ops \ {scheduling[c]}
  /\ batch' = [batch EXCEPT ![c] = {}]
  /\ callAt' = [callAt EXCEPT ![c] = "immediates"]
  /\ scheduling' = [scheduling EXCEPT ![c] = NoOp]
  /\ UNCHANGED <<opVars, completions, detached, future, pool, toexecute,
                 futures, deferred, stack, frameVars, fatal>>

\* All items are chained: ~immediate_async_ops begins.
EndItems(c) ==
  /\ callAt[c] = "next"
  /\ callAt' = [callAt EXCEPT ![c] = "immediates"]
  /\ UNCHANGED <<opVars, ops, completions, detached, future, pool, scheduling,
                 batch, toexecute, futures, deferred, stack, frameVars, fatal>>

RunCallImmediate(c) ==
  /\ callAt[c] = "immediates" /\ stack[c] = <<>>
  /\ \E o \in toexecute[c] :
       /\ toexecute' = [toexecute EXCEPT ![c] = @ \ {o}]
       /\ StartBody(c, o)
  /\ UNCHANGED <<opVars, ops, completions, detached, future, pool, callAt,
                 scheduling, batch, futures, deferred, completeAt, outcome,
                 fatal>>

\* The call returns its futures.
EndCall(c) ==
  /\ callAt[c] = "immediates" /\ stack[c] = <<>> /\ toexecute[c] = {}
  /\ futures' = futures \cup batch[c]
  /\ batch' = [batch EXCEPT ![c] = {}]
  /\ callAt' = [callAt EXCEPT ![c] = "idle"]
  /\ UNCHANGED <<opVars, ops, completions, detached, future, pool, scheduling,
                 toexecute, deferred, stack, frameVars, fatal>>

(***************************************************************************)
(* Execution of an operation's task.                                       *)
(***************************************************************************)

\* A pool thread takes a task from the io_service.
RunWorker(w) ==
  /\ stack[w] = <<>>
  /\ \E o \in pool :
       /\ pool' = pool \ {o}
       /\ StartBody(w, o)
  /\ UNCHANGED <<opVars, ops, completions, detached, future, callVars,
                 deferred, completeAt, outcome, fatal>>

\* The outcomes of a body that completes its operation on return. An engine
\* body rethrows its precondition's error; both may fail by themselves.
\* Mutants: get_handle(true), which swallows the error; an error that is
\* neither a value nor an exception.
BodyOutcome_Swallows(o) == Outcome
BodyOutcome_Nothing(o) ==
  IF bound[o].kind = "io" /\ Failed(Pre(o)) THEN {"unset"} ELSE Outcome
BodyOutcome(o) ==
  IF bound[o].kind = "io" /\ Failed(Pre(o)) THEN {"error"} ELSE Outcome

\* The body returned (true, h) or threw: complete_async_op() is called.
BodyReturns(t, o) ==
  /\ On(t, "body", o) /\ bodyAt[o] = "running"
  /\ bound[o].kind = "io" => Ready(Pre(o))
  /\ \E r \in BodyOutcome(o) : CallComplete(t, o, r)
  /\ bodyAt' = [bodyAt EXCEPT ![o] = "completing"]
  /\ UNCHANGED <<opVars, ops, completions, detached, future, pool, callVars,
                 deferred, fatal>>

\* A callback hands its id to whoever is to complete it, and will return
\* (false, h).
BodyDefers(t, o) ==
  /\ On(t, "body", o) /\ bodyAt[o] = "running" /\ bound[o].kind = "user"
  /\ deferred' = deferred \cup {o}
  /\ bodyAt' = [bodyAt EXCEPT ![o] = "deferring"]
  /\ UNCHANGED <<opVars, ops, completions, detached, future, pool, callVars,
                 stack, completeAt, outcome, fatal>>

\* Mutant: the boolean false is ignored and the operation completed as well.
BodyEnds_IgnoresFalse(t, o) ==
  /\ On(t, "body", o) /\ bodyAt[o] \in {"deferring", "completing"}
  /\ IF bodyAt[o] = "deferring"
       THEN /\ CallComplete(t, o, "value")
            /\ bodyAt' = [bodyAt EXCEPT ![o] = "completing"]
       ELSE /\ Pop(t)
            /\ bodyAt' = [bodyAt EXCEPT ![o] = "done"]
            /\ UNCHANGED <<completeAt, outcome>>
  /\ UNCHANGED <<opVars, ops, completions, detached, future, pool, callVars,
                 deferred, fatal>>

BodyEnds(t, o) ==
  /\ On(t, "body", o) /\ bodyAt[o] \in {"deferring", "completing"}
  /\ Pop(t)
  /\ bodyAt' = [bodyAt EXCEPT ![o] = "done"]
  /\ UNCHANGED <<opVars, ops, completions, detached, future, pool, callVars,
                 deferred, completeAt, outcome, fatal>>

\* The user completes a deferred operation, once.
UserCompletes(c, o) ==
  /\ callAt[c] = "idle" /\ stack[c] = <<>> /\ o \in deferred
  /\ deferred' = deferred \ {o}
  /\ \E r \in Outcome : CallComplete(c, o, r)
  /\ UNCHANGED <<opVars, ops, completions, detached, future, pool, callVars,
                 bodyAt, fatal>>

(***************************************************************************)
(* complete_async_op().                                                    *)
(***************************************************************************)

\* One critical section of opslock: the operation leaves ops, and its
\* completions move to the stack. Not finding it is fatal.
Extract(t, o) ==
  /\ On(t, "complete", o) /\ completeAt[o] = "extract"
  /\ \/ /\ o \in ops
        /\ ops' = ops \ {o}
        /\ detached' = [detached EXCEPT ![o] = completions[o]]
        /\ completions' = [completions EXCEPT ![o] = {}]
        /\ completeAt' = [completeAt EXCEPT ![o] = "set"]
        /\ UNCHANGED fatal
     \/ /\ o \notin ops
        /\ fatal' = TRUE
        /\ UNCHANGED <<ops, detached, completions, completeAt>>
  /\ UNCHANGED <<opVars, future, pool, callVars, deferred, stack, bodyAt,
                 outcome>>

\* set_future_value() or set_future_exception(): only the first has effect.
SetFuture(t, o) ==
  /\ On(t, "complete", o) /\ completeAt[o] = "set"
  /\ future' = [future EXCEPT ![o] = IF @ = "unset" THEN outcome[o] ELSE @]
  /\ completeAt' = [completeAt EXCEPT ![o] = "filter"]
  /\ UNCHANGED <<opVars, ops, completions, detached, pool, callVars, deferred,
                 stack, bodyAt, outcome, fatal>>

\* The post op filters are called; what they throw is thrown away.
RunFilters(t, o) ==
  /\ On(t, "complete", o) /\ completeAt[o] = "filter"
  /\ completeAt' = [completeAt EXCEPT ![o] = "issue"]
  /\ UNCHANGED <<opVars, ops, completions, detached, future, pool, callVars,
                 deferred, stack, bodyAt, outcome, fatal>>

\* Mutant: the completions are issued as soon as they are detached.
Issuing_Early(o) == completeAt[o] \in {"set", "filter", "issue"}
Issuing(o) == completeAt[o] = "issue"

\* The loop over the detached completions posts those that are not immediate.
Issue(t, o) ==
  /\ On(t, "complete", o) /\ Issuing(o)
  /\ \E d \in detached[o] :
       /\ ~bound[d].immediate
       /\ detached' = [detached EXCEPT ![o] = @ \ {d}]
       /\ pool' = pool \cup {d}
  /\ UNCHANGED <<opVars, ops, completions, future, callVars, deferred, stack,
                 frameVars, fatal>>

\* The loop is over: ~immediate_async_ops executes the immediate ones here.
RunImmediate(t, o) ==
  /\ On(t, "complete", o) /\ completeAt[o] = "issue"
  /\ \A d \in detached[o] : bound[d].immediate
  /\ \E d \in detached[o] :
       /\ detached' = [detached EXCEPT ![o] = @ \ {d}]
       /\ StartBody(t, d)
  /\ UNCHANGED <<opVars, ops, completions, future, pool, callVars, deferred,
                 completeAt, outcome, fatal>>

CompleteReturns(t, o) ==
  /\ On(t, "complete", o) /\ completeAt[o] = "issue" /\ detached[o] = {}
  /\ Pop(t)
  /\ completeAt' = [completeAt EXCEPT ![o] = "done"]
  /\ UNCHANGED <<opVars, ops, completions, detached, future, pool, callVars,
                 deferred, bodyAt, outcome, fatal>>

-----------------------------------------------------------------------------
Init ==
  /\ monotoniccount = 0
  /\ ops = {}
  /\ bound = [o \in OpId |-> [pre |-> NoOp, immediate |-> FALSE, kind |-> "io"]]
  /\ completions = [o \in OpId |-> {}]
  /\ detached = [o \in OpId |-> {}]
  /\ future = [o \in OpId |-> "unset"]
  /\ pool = {}
  /\ callAt = [c \in Clients |-> "idle"]
  /\ scheduling = [c \in Clients |-> NoOp]
  /\ batch = [c \in Clients |-> {}]
  /\ toexecute = [c \in Clients |-> {}]
  /\ futures = {}
  /\ deferred = {}
  /\ stack = [t \in Thread |-> <<>>]
  /\ bodyAt = [o \in OpId |-> "none"]
  /\ completeAt = [o \in OpId |-> "none"]
  /\ outcome = [o \in OpId |-> "value"]
  /\ fatal = FALSE

\* What client c does of itself inside a scheduling call.
CallStep(c) ==
  \/ Insert(c) \/ Enqueue(c) \/ ChainThrows(c)
  \/ EndItems(c) \/ RunCallImmediate(c) \/ EndCall(c)

\* What thread t does inside a frame.
FrameStep(t) ==
  \E o \in OpId :
    \/ BodyReturns(t, o) \/ BodyDefers(t, o) \/ BodyEnds(t, o)
    \/ Extract(t, o) \/ SetFuture(t, o) \/ RunFilters(t, o)
    \/ Issue(t, o) \/ RunImmediate(t, o) \/ CompleteReturns(t, o)

\* Everything scheduled has completed and no more may be: the bound is used up.
Quiescent ==
  /\ monotoniccount = MaxOps /\ ops = {} /\ deferred = {}
  /\ \A t \in Thread : stack[t] = <<>>
  /\ \A c \in Clients : callAt[c] = "idle"
  /\ UNCHANGED vars

Next ==
  /\ ~fatal
  /\ \/ \E c \in Clients : NextItem(c) \/ CallStep(c)
     \/ \E c \in Clients, o \in OpId : UserCompletes(c, o)
     \/ \E w \in Workers : RunWorker(w)
     \/ \E t \in Thread : FrameStep(t)
     \/ Quiescent

Spec == Init /\ [][Next]_vars

(***************************************************************************)
(* Pool threads keep serving the io_service, a call or completion begun by *)
(* any thread goes on, and a user completes what its callback deferred.    *)
(***************************************************************************)
Fairness ==
  /\ \A w \in Workers : WF_vars(~fatal /\ RunWorker(w))
  /\ \A c \in Clients : WF_vars(~fatal /\ CallStep(c))
  /\ \A t \in Thread : WF_vars(~fatal /\ FrameStep(t))
  /\ \A o \in OpId : WF_vars(~fatal /\ \E c \in Clients : UserCompletes(c, o))

FairSpec == Spec /\ Fairness

-----------------------------------------------------------------------------
(***************************************************************************)
(* Where an operation that is in ops may be held: chained to a             *)
(* precondition still in flight, detached by its precondition's            *)
(* completion, in a call's immediates, about to be queued, in the pool,    *)
(* running, deferred to a user, or entering complete_async_op().           *)
(***************************************************************************)
Chained(o) == \E p \in ops : o \in completions[p]
Detached(o) == \E p \in OpId : o \in detached[p]
Immediate(o) == \E c \in Clients : o \in toexecute[c]
Queueing(o) == \E c \in Clients : callAt[c] = "enqueue" /\ scheduling[c] = o
Running(o) == bodyAt[o] = "running"
Completing(o) == completeAt[o] = "extract"

Holders(o) ==
  { h \in {"chained", "detached", "immediate", "queueing", "pool", "running",
            "deferred", "completing"} :
      \/ h = "chained" /\ Chained(o)
      \/ h = "detached" /\ Detached(o)
      \/ h = "immediate" /\ Immediate(o)
      \/ h = "queueing" /\ Queueing(o)
      \/ h = "pool" /\ o \in pool
      \/ h = "running" /\ Running(o)
      \/ h = "deferred" /\ o \in deferred
      \/ h = "completing" /\ Completing(o) }

(***************************************************************************)
(* Every operation in ops is held in exactly one place, so it is neither   *)
(* lost (chained to a precondition whose completions were already taken)   *)
(* nor issued, executed or completed twice; and nothing is held that       *)
(* dispatcher_p::ops has forgotten.                                        *)
(***************************************************************************)
HeldOnce ==
  \A o \in OpId :
    IF o \in ops THEN \E h \in Holders(o) : Holders(o) = {h}
                 ELSE Holders(o) = {}

\* complete_async_op() never reaches its BOOST_AFIO_THROW_FATAL: whoever
\* completes an operation finds it in ops.
NeverFatal == ~fatal

(***************************************************************************)
(* "As far as AFIO is concerned, the precondition is completed and all     *)
(* knowledge of it deleted from AFIO's records by the time you see it in a *)
(* completion handler" (doc/advanced_topics.qbk).                          *)
(***************************************************************************)
PreconditionForgotten ==
  \A o \in OpId : bodyAt[o] # "none" => Pre(o) \notin ops

(***************************************************************************)
(* An error travels down a chain of engine operations: one that completed  *)
(* with a value had no precondition, or one that completed with a value.   *)
(***************************************************************************)
ErrorsPropagate ==
  \A o \in OpId :
    future[o] = "value" /\ bound[o].kind = "io" =>
      Pre(o) = NoOp \/ future[Pre(o)] = "value"

(***************************************************************************)
(* An operation chained to a precondition in flight is released (posted or *)
(* executed) only when that precondition's future is set and its filters   *)
(* have run.                                                               *)
(***************************************************************************)
ReleasedAfterFilters ==
  [][\A o \in OpId :
       (Chained(o) \/ Detached(o)) /\ ~(Chained(o) \/ Detached(o))' =>
         Ready(Pre(o)) /\ completeAt[Pre(o)] = "issue"]_vars

(***************************************************************************)
(* The same for every operation, as the filters are documented: "called    *)
(* straight after an op's stl_future is set and before any completions are *)
(* issued" (afio.hpp). The code does not keep this: an operation chained   *)
(* to one that has left ops runs at once (OpEngine_filters).               *)
(***************************************************************************)
FilteredBeforeCompletions ==
  \A o \in OpId :
    bodyAt[o] # "none" /\ Pre(o) # NoOp =>
      completeAt[Pre(o)] \in {"issue", "done"}

\* Every future returned to a user becomes ready.
FuturesBecomeReady ==
  \A o \in OpId : o \in futures ~> future[o] # "unset"

-----------------------------------------------------------------------------
(***************************************************************************)
(* The inductive invariant behind HeldOnce and NeverFatal: every operation *)
(* is chained to its own precondition only, ids being scheduled are fresh  *)
(* and distinct and no one's precondition, and ops is exactly what is      *)
(* held, in one place each.                                                *)
(***************************************************************************)
ChainInv ==
  \A o, p \in OpId :
    /\ o \in completions[p] => Pre(o) = p /\ p \in ops
    /\ o \in detached[p] =>
         Pre(o) = p /\ completeAt[p] \in {"set", "filter", "issue"}

FreshIds ==
  /\ \A o \in ops : o <= monotoniccount /\ completeAt[o] \in {"none", "extract"}
  /\ \A o \in OpId : o > monotoniccount => completeAt[o] = "none"
  /\ \A c \in Clients : scheduling[c] <= monotoniccount

FreshCalls ==
  \A c \in Clients :
    callAt[c] = "insert" =>
      scheduling[c] \notin ops /\ completeAt[scheduling[c]] = "none"

DistinctCalls ==
  \A c, d \in Clients :
    /\ callAt[c] \in {"insert", "enqueue"}
    /\ callAt[d] \in {"insert", "enqueue"}
    /\ scheduling[c] = scheduling[d]
    => c = d

DistinctImmediates ==
  \A c, d \in Clients : \A o \in OpId :
    o \in toexecute[c] /\ o \in toexecute[d] => c = d

CallInv == FreshIds /\ FreshCalls /\ DistinctCalls /\ DistinctImmediates

\* Only what a client was given can be a precondition, and it is given
\* nothing that a call is still to insert or queue.
FuturesInv ==
  /\ \A o \in OpId : Pre(o) \in futures \cup {NoOp}
  /\ \A o \in futures : o <= monotoniccount
  /\ \A d \in Clients : \A o \in batch[d] : o <= monotoniccount
  /\ \A c \in Clients :
       callAt[c] \in {"insert", "enqueue"} =>
         /\ scheduling[c] \notin futures
         /\ \A d \in Clients : scheduling[c] \notin batch[d]

Held(o) ==
  \/ Chained(o) \/ Detached(o) \/ Immediate(o) \/ Queueing(o)
  \/ o \in pool \/ Running(o) \/ o \in deferred \/ Completing(o)

HeldTwice(o) ==
  \/ Chained(o) /\ (Detached(o) \/ Immediate(o) \/ Queueing(o) \/ o \in pool
                    \/ Running(o) \/ o \in deferred \/ Completing(o))
  \/ Detached(o) /\ (Immediate(o) \/ Queueing(o) \/ o \in pool
                     \/ Running(o) \/ o \in deferred \/ Completing(o))
  \/ Immediate(o) /\ (Queueing(o) \/ o \in pool \/ Running(o)
                      \/ o \in deferred \/ Completing(o))
  \/ Queueing(o) /\ (o \in pool \/ Running(o) \/ o \in deferred
                     \/ Completing(o))
  \/ o \in pool /\ (Running(o) \/ o \in deferred \/ Completing(o))
  \/ Running(o) /\ (o \in deferred \/ Completing(o))
  \/ o \in deferred /\ Completing(o)

HeldInv ==
  \A o \in OpId : (o \in ops <=> Held(o)) /\ ~HeldTwice(o)

EngineInv == ChainInv /\ CallInv /\ FuturesInv /\ HeldInv /\ ~fatal

\* With EngineInv, inductive for PreconditionForgotten: once an operation is
\* no longer chained, its precondition has left ops for good.
ForgottenInv ==
  /\ \A o \in ops : Chained(o) \/ Pre(o) \notin ops
  /\ \A o \in OpId :
       bodyAt[o] # "none" => Pre(o) \notin ops /\ o <= monotoniccount

-----------------------------------------------------------------------------
(***************************************************************************)
(* The engine implements AbstractOps: an operation is pending from the     *)
(* critical section that puts it in ops to the store that sets its future. *)
(***************************************************************************)
AbsState ==
  [o \in OpId |->
     IF future[o] # "unset" THEN future[o]
     ELSE IF o \in ops \/ completeAt[o] = "set" THEN "pending"
     ELSE "unscheduled"]

Abs == INSTANCE AbstractOps WITH
         state <- AbsState,
         needs <- [o \in OpId |-> IF AbsState[o] = "unscheduled"
                                    THEN NoOp ELSE Pre(o)],
         strict <- [o \in OpId |-> IF AbsState[o] = "unscheduled"
                                     THEN FALSE ELSE bound[o].kind = "io"]

\* Whoever holds a future sees exactly what AbstractOps allows.
ImplementsAbstractOps == Abs!Spec

\* With the engine's fairness, also that pending operations complete.
ImplementsFairAbstractOps == Abs!FairSpec

=============================================================================
