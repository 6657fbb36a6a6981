------------------------------- MODULE Barrier -------------------------------
(***************************************************************************)
(* One call of dispatcher::barrier() (afio.ipp): an immediate operation is *)
(* chained to each input operation, and runs dobarrier() when that input   *)
(* has completed. Each dobarrier() stores its input's handle and counts    *)
(* down; the one that reaches zero completes the operations of them all.   *)
(*                                                                         *)
(* Operation i of the barrier and input i share the index i. Chaining and  *)
(* completing an operation are as in OpEngine, of which this module keeps  *)
(* what a barrier can tell apart: whether the input is still in            *)
(* dispatcher_p::ops, has left it, or has set its future; and the thread   *)
(* on which an operation runs, that of its input's complete_async_op() or, *)
(* if its input had already left ops, the caller's.                        *)
(***************************************************************************)
EXTENDS Integers, FiniteSets

CONSTANT N   \* the size of the batch

ASSUME BarrierAssumption == N \in Nat \ {0}

Idx == 1..N
Null == 0            \* a null handle_ptr; the handle of input i is i
Unwritten == -1      \* an element of barrier_count_completed_state::out

VARIABLES
  callAt,    \* where the client is in barrier()
  item,      \* the item chain_async_ops() is at
  executing, \* the operation ~immediate_async_ops is executing, or 0
  input,     \* where input i is; "value" and "error" are its set future
  task,      \* where operation i of the barrier is
  pending,   \* the operations of the barrier in dispatcher_p::ops
  togo, out, \* barrier_count_completed_state
  cursor,    \* idx of the last dobarrier()'s loop
  output,    \* the futures of the barrier's operations
  fatal      \* a complete_async_op() did not find its operation

vars == <<callAt, item, executing, input, task, pending, togo, out, cursor,
          output, fatal>>

CallLabel == {"entry", "chaining", "immediates", "unwinding", "returned", "threw"}
TaskLabel == {"none", "completions", "detached", "toexecute", "storing",
              "counting", "deferred", "last", "issuing", "done"}
Output == [state : {"unset", "value", "error"}, handle : Idx \cup {Null, Unwritten}]

TypeOK ==
  /\ callAt \in CallLabel
  /\ item \in 1..N + 1
  /\ executing \in Idx \cup {0}
  /\ input \in [Idx -> {"inflight", "left", "value", "error"}]
  /\ task \in [Idx -> TaskLabel]
  /\ pending \in SUBSET Idx
  /\ togo \in 0..N
  /\ out \in [Idx -> Idx \cup {Null, Unwritten}]
  /\ cursor \in 1..N + 1
  /\ output \in [Idx -> Output]
  /\ fatal \in BOOLEAN

Ready(i) == input[i] \in {"value", "error"}

(***************************************************************************)
(* The inputs complete, by the engine.                                     *)
(***************************************************************************)

\* The input leaves ops, taking what is chained to it along.
InputExtract(i) ==
  /\ input[i] = "inflight"
  /\ input' = [input EXCEPT ![i] = "left"]
  /\ task' = [task EXCEPT ![i] = IF @ = "completions" THEN "detached" ELSE @]
  /\ UNCHANGED <<callAt, item, executing, pending, togo, out, cursor, output, fatal>>

InputSet(i) ==
  /\ input[i] = "left"
  /\ \E r \in {"value", "error"} : input' = [input EXCEPT ![i] = r]
  /\ UNCHANGED <<callAt, item, executing, task, pending, togo, out, cursor, output,
                 fatal>>

\* The completing thread executes the immediate operation it detached.
InputIssue(i) ==
  /\ task[i] = "detached" /\ Ready(i)
  /\ task' = [task EXCEPT ![i] = "storing"]
  /\ UNCHANGED <<callAt, item, executing, input, pending, togo, out, cursor, output,
                 fatal>>

(***************************************************************************)
(* The client, in barrier(): validate(false) looks at no input's result,   *)
(* then chain_async_ops() chains an operation per input.                   *)
(***************************************************************************)
Enter ==
  /\ callAt = "entry"
  /\ callAt' = "chaining"
  /\ UNCHANGED <<item, executing, input, task, pending, togo, out, cursor, output,
                 fatal>>

\* Mutant: an input already out of ops is taken for one still in flight.
Chain_Lost ==
  /\ callAt = "chaining" /\ item <= N
  /\ item' = item + 1
  /\ pending' = pending \cup {item}
  /\ task' = [task EXCEPT ![item] = "completions"]
  /\ UNCHANGED <<callAt, executing, input, togo, out, cursor, output, fatal>>

Chain ==
  /\ callAt = "chaining" /\ item <= N
  /\ item' = item + 1
  /\ pending' = pending \cup {item}
  /\ task' = [task EXCEPT ![item] = IF input[item] = "inflight"
                                      THEN "completions" ELSE "toexecute"]
  /\ UNCHANGED <<callAt, executing, input, togo, out, cursor, output, fatal>>

\* Chaining an item runs out of memory: what is chained stays chained.
ChainThrows ==
  /\ callAt = "chaining" /\ item <= N
  /\ callAt' = "unwinding"
  /\ UNCHANGED <<item, executing, input, task, pending, togo, out, cursor, output,
                 fatal>>

EndChain ==
  /\ callAt = "chaining" /\ item = N + 1
  /\ callAt' = "immediates"
  /\ UNCHANGED <<item, executing, input, task, pending, togo, out, cursor, output,
                 fatal>>

\* ~immediate_async_ops executes the call's immediates, one after another.
Execute(i) ==
  /\ callAt \in {"immediates", "unwinding"} /\ executing = 0
  /\ task[i] = "toexecute"
  /\ executing' = i
  /\ task' = [task EXCEPT ![i] = "storing"]
  /\ UNCHANGED <<callAt, item, input, pending, togo, out, cursor, output, fatal>>

Executed(i) ==
  /\ executing = i /\ task[i] \in {"deferred", "done"}
  /\ executing' = 0
  /\ UNCHANGED <<callAt, item, input, task, pending, togo, out, cursor, output, fatal>>

Return ==
  /\ callAt \in {"immediates", "unwinding"} /\ executing = 0
  /\ \A i \in Idx : task[i] # "toexecute"
  /\ callAt' = IF callAt = "immediates" THEN "returned" ELSE "threw"
  /\ UNCHANGED <<item, executing, input, task, pending, togo, out, cursor, output,
                 fatal>>

(***************************************************************************)
(* dobarrier().                                                            *)
(***************************************************************************)

\* get_handle(true) waits for the input, and is null if it is in error.
\* Mutant: it does not wait.
Store_NoWait(i) ==
  /\ task[i] = "storing"
  /\ out' = [out EXCEPT ![i] = IF input[i] = "value" THEN i ELSE Null]
  /\ task' = [task EXCEPT ![i] = "counting"]
  /\ UNCHANGED <<callAt, item, executing, input, pending, togo, cursor, output, fatal>>

Store(i) ==
  /\ task[i] = "storing" /\ Ready(i)
  /\ out' = [out EXCEPT ![i] = IF input[i] = "value" THEN i ELSE Null]
  /\ task' = [task EXCEPT ![i] = "counting"]
  /\ UNCHANGED <<callAt, item, executing, input, pending, togo, cursor, output, fatal>>

\* The value of togo at which a dobarrier() is the last one.
\* Mutant: off by one.
IsLast_Early(n) == n <= 1
IsLast(n) == n = 0

\* Returns (false, h) unless it is the last one: operation i stays in ops.
CountDown(i) ==
  /\ task[i] = "counting"
  /\ togo' = togo - 1
  /\ task' = [task EXCEPT ![i] = IF IsLast(togo') THEN "last" ELSE "deferred"]
  /\ UNCHANGED <<callAt, item, executing, input, pending, out, cursor, output, fatal>>

\* The last one waits for every other input's shared state.
WaitOthers(i) ==
  /\ task[i] = "last"
  /\ \A j \in Idx \ {i} : Ready(j)
  /\ cursor' = 1
  /\ task' = [task EXCEPT ![i] = "issuing"]
  /\ UNCHANGED <<callAt, item, executing, input, pending, togo, out, output, fatal>>

\* What output idx is completed with by the last dobarrier().
\* Mutant: with the handle alone, and no exception.
Result_HandleOnly(idx) == [state |-> "value", handle |-> out[idx]]
Result(idx) == [state |-> input[idx], handle |-> out[idx]]

InLoop == cursor <= N

\* One turn of its loop: complete_async_op(out[idx].first, out[idx].second, e).
IssueOutput(i) ==
  /\ task[i] = "issuing" /\ InLoop
  /\ \/ /\ cursor \in pending /\ out[cursor] # Unwritten
        /\ pending' = pending \ {cursor}
        /\ output' = [output EXCEPT ![cursor] = Result(cursor)]
        /\ UNCHANGED fatal
     \/ /\ cursor \notin pending \/ out[cursor] = Unwritten
        /\ fatal' = TRUE
        /\ UNCHANGED <<pending, output>>
  /\ cursor' = cursor + 1
  /\ UNCHANGED <<callAt, item, executing, input, task, togo, out>>

\* It returns (false, null), having completed itself.
Finish(i) ==
  /\ task[i] = "issuing" /\ cursor = N + 1
  /\ task' = [task EXCEPT ![i] = "done"]
  /\ UNCHANGED <<callAt, item, executing, input, pending, togo, out, cursor, output,
                 fatal>>

-----------------------------------------------------------------------------
Init ==
  /\ callAt = "entry"
  /\ item = 1
  /\ executing = 0
  /\ input = [i \in Idx |-> "inflight"]
  /\ task = [i \in Idx |-> "none"]
  /\ pending = {}
  /\ togo = N
  /\ out = [i \in Idx |-> Unwritten]
  /\ cursor = 1
  /\ output = [i \in Idx |-> [state |-> "unset", handle |-> Unwritten]]
  /\ fatal = FALSE

Quiescent ==
  /\ callAt \in {"returned", "threw"}
  /\ \A i \in Idx : Ready(i) /\ task[i] \in {"none", "deferred", "done"}
  /\ UNCHANGED vars

InputStep(i) == InputExtract(i) \/ InputSet(i) \/ InputIssue(i)

CallStep ==
  \/ Enter \/ Chain \/ EndChain \/ Return
  \/ \E i \in Idx : Execute(i) \/ Executed(i)

BarrierStep(i) ==
  \/ Store(i) \/ CountDown(i) \/ WaitOthers(i) \/ IssueOutput(i) \/ Finish(i)

Next ==
  \/ CallStep \/ ChainThrows
  \/ \E i \in Idx : InputStep(i) \/ BarrierStep(i)
  \/ Quiescent

Spec == Init /\ [][Next]_vars

\* Inputs complete (OpEngine's FuturesBecomeReady) and threads go on.
Fairness ==
  /\ WF_vars(CallStep)
  /\ \A i \in Idx : WF_vars(InputStep(i)) /\ WF_vars(BarrierStep(i))

FairSpec == Spec /\ Fairness

-----------------------------------------------------------------------------
(***************************************************************************)
(* The outputs "will only complete when the last of the input batch of ops *)
(* completes" (afio.hpp).                                                  *)
(***************************************************************************)
AfterLastInput ==
  \A i \in Idx : output[i].state # "unset" => \A j \in Idx : Ready(j)

(***************************************************************************)
(* The outputs "exactly match the input batch of ops (including their      *)
(* exception states)" (afio.hpp): same error state, same handle.           *)
(***************************************************************************)
OutputsMatchInputs ==
  \A i \in Idx :
    output[i].state # "unset" =>
      /\ output[i].state = input[i]
      /\ output[i].state = "value" => output[i].handle = i

\* Each operation of the barrier is completed once, from what was stored.
NeverFatal == ~fatal

(***************************************************************************)
(* Every output of a barrier() that returned completes; one left over by a *)
(* dobarrier() that mistook its turn never would.                          *)
(***************************************************************************)
OutputsComplete ==
  callAt = "returned" ~> \A i \in Idx : output[i].state # "unset"

(***************************************************************************)
(* "If an input op is in an exceptioned state at the point of entry into   *)
(* this function, this function will propagate the exception there and     *)
(* then" (afio.hpp): such a call does not go on to chain its operations.   *)
(* The code's does: it does not read the result of an input that is ready  *)
(* (Barrier_entry).                                                        *)
(***************************************************************************)
EntryErrorsThrown ==
  [][callAt = "entry" /\ callAt' = "chaining" =>
       \A i \in Idx : input[i] # "error"]_vars

-----------------------------------------------------------------------------
(***************************************************************************)
(* The inductive invariant behind these: togo counts the operations that   *)
(* have not yet counted down, one that has has stored its input's handle,  *)
(* and the last one completes exactly the operations its cursor passed.    *)
(***************************************************************************)
Counted(i) == task[i] \in {"deferred", "last", "issuing", "done"}

Uncounted == {i \in Idx : ~Counted(i)}

CountInv == togo = Cardinality(Uncounted)

StoredInv ==
  \A i \in Idx :
    Counted(i) \/ task[i] = "counting" =>
      Ready(i) /\ out[i] = IF input[i] = "value" THEN i ELSE Null

PendingInv ==
  \A i \in Idx : i \in pending <=> task[i] # "none" /\ output[i].state = "unset"

LastInv ==
  /\ \A i, j \in Idx :
       task[i] \in {"last", "issuing", "done"} =>
         /\ togo = 0
         /\ task[j] \in {"last", "issuing", "done"} => i = j
  /\ \A i \in Idx :
       output[i].state # "unset" <=>
         \E j \in Idx :
           \/ task[j] = "done"
           \/ task[j] = "issuing" /\ i < cursor

ChainedInv == \A i \in Idx : i >= item => task[i] = "none"

BarrierInv ==
  /\ CountInv /\ StoredInv /\ PendingInv /\ LastInv /\ ChainedInv
  /\ OutputsMatchInputs /\ ~fatal
=============================================================================
