------------------------------ MODULE WhenOps ------------------------------
(***************************************************************************)
(* when_all_p() and when_any() (afio.hpp) on the pool that runs the        *)
(* operations too, process_threadpool() by default.  when_all_p() posts a  *)
(* task that waits for its inputs one by one and keeps a worker meanwhile; *)
(* when_any() without Boost.Thread adds an immediate completion to each of *)
(* its inputs, and the first to come sets the promise.                     *)
(*                                                                         *)
(* Of the operations (OpEngine) this keeps that one is posted to the pool  *)
(* once its precondition is over, and ends.  The pool is first in, first   *)
(* out, as an io_service is.                                               *)
(***************************************************************************)
EXTENDS Integers, Sequences, FiniteSets

CONSTANTS
  Workers,    \* threads of the pool
  Ops,
  Calls,      \* calls of when_all_p() and when_any()
  None,
  MaxWaiting  \* most calls of when_all_p() that are not answered at a time

ASSUME WhenAssumption ==
  /\ MaxWaiting \in Nat
  /\ IsFiniteSet(Ops) /\ Ops \cap Calls = {}
  /\ None \notin Ops \cup Calls \cup Workers \cup {"all", "any"}

VARIABLES
  pre,      \* operation -> its precondition, or None
  state,    \* operation -> "new", "scheduled", "ok" or "failed"
  queue,    \* tasks posted to the pool
  task,     \* worker -> the task it runs: an operation or a call
  kind,     \* call -> "all", "any", or None
  rethrow,  \* call -> it rethrows: it is not one with std::nothrow
  in,       \* call -> its inputs
  ret,      \* call -> what when_all_ops_do() has of its inputs
  fired,    \* call -> inputs whose completion has done fetch_add()
  count,    \* call -> of when_any()
  winner,   \* call -> the input that got 0 and has yet to set the promise
  out       \* call -> what the promise was set to, each time

pool == <<queue, task>>
operations == <<pre, state>>
args == <<kind, rethrow, in>>
progress == <<ret, fired, count, winner>>
whenvars == <<operations, pool, args, progress, out>>

Over(o) == state[o] \in {"ok", "failed"}
Asked == {c \in Calls : kind[c] # None}
Pending(c) == c \in Asked /\ out[c] = <<>>
Waiting == {c \in Asked : kind[c] = "all" /\ Pending(c)}

WhenTypeOK ==
  /\ pre \in [Ops -> Ops \cup {None}]
  /\ state \in [Ops -> {"new", "scheduled", "ok", "failed"}]
  /\ queue \in Seq(Ops \cup Calls)
  /\ task \in [Workers -> Ops \cup Calls \cup {None}]
  /\ kind \in [Calls -> {"all", "any", None}] /\ rethrow \in [Calls -> BOOLEAN]
  /\ in \in [Calls -> Seq(Ops)] /\ ret \in [Calls -> Seq(Ops \cup {None})]
  /\ fired \in [Calls -> SUBSET Nat] /\ count \in [Calls -> Nat]
  /\ winner \in [Calls -> SUBSET Nat]
  /\ out \in [Calls -> Seq({"value", "exception"})]

-----------------------------------------------------------------------------
(***************************************************************************)
(* Operations.                                                             *)
(***************************************************************************)
Schedule(o, p) ==
  /\ state[o] = "new"
  /\ p # None => p # o /\ state[p] # "new"
  /\ pre' = [pre EXCEPT ![o] = p]
  /\ state' = [state EXCEPT ![o] = "scheduled"]
  /\ queue' = IF p = None \/ Over(p) THEN Append(queue, o) ELSE queue
  /\ UNCHANGED <<task, args, progress, out>>

Take(w) ==
  /\ task[w] = None /\ queue # <<>>
  /\ task' = [task EXCEPT ![w] = Head(queue)]
  /\ queue' = Tail(queue)
  /\ UNCHANGED <<operations, args, progress, out>>

\* The worker is free again.
Free(w) == task' = [task EXCEPT ![w] = None]

\* Those that wait for it are posted, in some order.
EndOp(w) ==
  LET o == task[w] IN
  LET next == {p \in Ops : pre[p] = o /\ state[p] = "scheduled"} IN
  /\ o \in Ops
  /\ \E s \in [1..Cardinality(next) -> next] :
       /\ \A p \in next : \E i \in DOMAIN s : s[i] = p
       /\ queue' = queue \o s
  /\ \E result \in {"ok", "failed"} : state' = [state EXCEPT ![o] = result]
  /\ Free(w)
  /\ UNCHANGED <<pre, args, progress, out>>

-----------------------------------------------------------------------------
(***************************************************************************)
(* when_all_p().                                                           *)
(***************************************************************************)
Ask(c, k, again, ops) ==
  /\ c \notin Asked
  /\ \A i \in DOMAIN ops : state[ops[i]] # "new"
  /\ kind' = [kind EXCEPT ![c] = k]
  /\ rethrow' = [rethrow EXCEPT ![c] = again]
  /\ in' = [in EXCEPT ![c] = ops]
  /\ UNCHANGED <<operations, task, progress, out>>

WhenAll(c, again, ops) ==
  /\ Cardinality(Waiting) < MaxWaiting
  /\ Ask(c, "all", again, ops)
  /\ queue' = Append(queue, c)

\* The input that when_all_ops_do() is at.
Input(c) == in[c][Len(ret[c]) + 1]
Running(w, c) == task[w] = c /\ c \in Calls /\ Len(ret[c]) < Len(in[c]) /\ Over(Input(c))
Set(c, v) == out' = [out EXCEPT ![c] = Append(@, v)]

\* An exception is rethrown; otherwise a failed input is a null handle.
\* Mutant: it is never rethrown.
Rethrown_Never(c) == FALSE
Rethrown(c) == rethrow[c] /\ state[Input(c)] = "failed"

NextInput(w, c) ==
  /\ Running(w, c) /\ ~Rethrown(c)
  /\ ret' = [ret EXCEPT ![c] = Append(@, IF state[Input(c)] = "ok" THEN Input(c) ELSE None)]
  /\ UNCHANGED <<operations, pool, args, fired, count, winner, out>>

SetException(w, c) ==
  /\ Running(w, c) /\ Rethrown(c)
  /\ Set(c, "exception")
  /\ Free(w)
  /\ UNCHANGED <<operations, queue, args, progress>>

SetValue(w, c) ==
  /\ task[w] = c /\ c \in Calls /\ Len(ret[c]) = Len(in[c])
  /\ Set(c, "value")
  /\ Free(w)
  /\ UNCHANGED <<operations, queue, args, progress>>

-----------------------------------------------------------------------------
(***************************************************************************)
(* when_any(): completions run on whichever thread ends the input, or adds *)
(* the completion to one that is over.                                     *)
(***************************************************************************)
WhenAny(c, again, ops) ==
  /\ Ask(c, "any", again, ops)
  /\ UNCHANGED queue

\* "Will be zero exactly once"
\* Mutants: no input has set the promise yet; the count after, not before.
FirstToFire_Unset(c) == out[c] = <<>>
FirstToFire_After(c) == count[c] = 1
FirstToFire(c) == count[c] = 0

Fire(c, i) ==
  /\ kind[c] = "any" /\ i \in DOMAIN in[c] \ fired[c]
  /\ Over(in[c][i])
  /\ fired' = [fired EXCEPT ![c] = @ \cup {i}]
  /\ count' = [count EXCEPT ![c] = @ + 1]
  /\ winner' = [winner EXCEPT ![c] = IF FirstToFire(c) THEN @ \cup {i} ELSE @]
  /\ UNCHANGED <<operations, pool, args, ret, out>>

SetAny(c, i) ==
  /\ i \in winner[c]
  /\ winner' = [winner EXCEPT ![c] = @ \ {i}]
  /\ Set(c, IF rethrow[c] /\ state[in[c][i]] = "failed" THEN "exception" ELSE "value")
  /\ UNCHANGED <<operations, pool, args, ret, fired, count>>

-----------------------------------------------------------------------------
WhenInit ==
  /\ pre = [o \in Ops |-> None] /\ state = [o \in Ops |-> "new"]
  /\ queue = <<>> /\ task = [w \in Workers |-> None]
  /\ kind = [c \in Calls |-> None] /\ rethrow = [c \in Calls |-> FALSE]
  /\ in = [c \in Calls |-> <<>>] /\ ret = [c \in Calls |-> <<>>]
  /\ fired = [c \in Calls |-> {}] /\ count = [c \in Calls |-> 0]
  /\ winner = [c \in Calls |-> {}] /\ out = [c \in Calls |-> <<>>]

Inputs == {<<o>> : o \in Ops} \cup {<<x[1], x[2]>> : x \in {y \in Ops \X Ops : y[1] # y[2]}}

WorkerStep(w) ==
  \/ Take(w) \/ EndOp(w)
  \/ \E c \in Calls : NextInput(w, c) \/ SetException(w, c) \/ SetValue(w, c)

AnyStep(c) == \E i \in DOMAIN in[c] : Fire(c, i) \/ SetAny(c, i)

WhenNext ==
  \/ \E o \in Ops, p \in Ops \cup {None} : Schedule(o, p)
  \/ \E c \in Calls, again \in BOOLEAN, ops \in Inputs : WhenAll(c, again, ops) \/ WhenAny(c, again, ops)
  \/ \E w \in Workers : WorkerStep(w)
  \/ \E c \in Calls : AnyStep(c)

WhenSpec == WhenInit /\ [][WhenNext]_whenvars

\* The pool's threads run, and so do the completions of when_any().
FairWhenSpec ==
  /\ WhenSpec
  /\ \A w \in Workers : WF_whenvars(WorkerStep(w))
  /\ \A c \in Calls : WF_whenvars(AnyStep(c))

-----------------------------------------------------------------------------
(***************************************************************************)
(* The promise of either call is set once only, though several inputs may  *)
(* end at the same time: to set it again would throw inside a completion.  *)
(***************************************************************************)
SetOnce == \A c \in Calls : Len(out[c]) <= 1

(***************************************************************************)
(* What when_all_p() answers: a value once all inputs are over, a null     *)
(* handle in the place of each that failed, and if it rethrows, only when  *)
(* all went well; an exception only if it rethrows and one failed.         *)
(***************************************************************************)
AllTells ==
  \A c \in Calls : kind[c] = "all" =>
    LET failed == {i \in DOMAIN in[c] : state[in[c][i]] = "failed"} IN
    /\ out[c] = <<"value">> =>
         /\ \A i \in DOMAIN in[c] : Over(in[c][i]) /\ (ret[c][i] = None <=> i \in failed)
         /\ rethrow[c] => failed = {}
    /\ out[c] = <<"exception">> => rethrow[c] /\ failed # {}

(***************************************************************************)
(* Every call is answered, as long as fewer calls of when_all_p() wait     *)
(* than there are workers: each of these keeps a worker, and the inputs    *)
(* they wait for may be in the queue behind them.                          *)
(***************************************************************************)
AnswersCome == \A c \in Calls : Pending(c) ~> ~Pending(c)
=============================================================================
