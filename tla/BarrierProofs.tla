---------------------------- MODULE BarrierProofs ----------------------------
(* Proofs about Barrier for every size of the batch.                        *)
EXTENDS Barrier, FiniteSetTheorems, TLAPS

LEMMA IdxFacts ==
  /\ IsFiniteSet(Idx) /\ Cardinality(Idx) = N
  /\ N \in Nat /\ N > 0 /\ 0 \notin Idx /\ -1 \notin Idx
  /\ \A i \in Idx : i \in Int /\ 1 <= i /\ i <= N
  BY BarrierAssumption, FS_Interval DEF BarrierAssumption, Idx

LEMMA UncountedFinite ==
  /\ IsFiniteSet(Uncounted)
  /\ Cardinality(Uncounted) \in Nat
  /\ Cardinality(Uncounted) = 0 <=> Uncounted = {}
<1>1. Uncounted \in SUBSET Idx
  BY DEF Uncounted
<1>2. IsFiniteSet(Uncounted)
  BY <1>1, IdxFacts, FS_Subset
<1> QED
  BY <1>2, FS_CardinalityType, FS_EmptySet

\* Once an operation is the last one, all have counted down and stored.
LEMMA LastMeansAll ==
  ASSUME BarrierInv, NEW i \in Idx, task[i] \in {"last", "issuing", "done"}
  PROVE  \A j \in Idx :
           Counted(j) /\ Ready(j) /\ out[j] = IF input[j] = "value" THEN j ELSE Null
<1>1. togo = 0 /\ togo = Cardinality(Uncounted)
  BY DEF BarrierInv, LastInv, CountInv
<1>2. \A j \in Idx : Counted(j)
  BY <1>1, UncountedFinite DEF Uncounted
<1> QED
  BY <1>2 DEF BarrierInv, StoredInv

LEMMA NoOutputYet ==
  ASSUME BarrierInv, NEW k \in Idx, ~Counted(k)
  PROVE  \A i \in Idx : /\ output[i].state = "unset"
                        /\ task[i] \notin {"last", "issuing", "done"}
<1>1. \A i \in Idx : task[i] \notin {"last", "issuing", "done"}
  BY LastMeansAll
<1> QED
  BY <1>1 DEF BarrierInv, LastInv

\* A step that neither counts down nor completes anything, and moves the
\* operations only among the places before counting.
LEMMA EarlyInv ==
  ASSUME TypeOK, BarrierInv, NEW i \in Idx, ~Counted(i), task[i] # "counting",
         task'[i] \in {"completions", "detached", "toexecute", "storing", "counting"},
         \A j \in Idx : j # i => /\ task'[j] = task[j]
                                 /\ input'[j] = input[j]
                                 /\ out'[j] = out[j],
         task'[i] = "counting" =>
           Ready(i)' /\ out'[i] = IF input'[i] = "value" THEN i ELSE Null,
         task[i] # "none" \/ i \in pending',
         \A j \in Idx : j # i \/ task[i] # "none" => (j \in pending' <=> j \in pending),
         \A j \in Idx : j >= item' => j >= item /\ j # i,
         UNCHANGED <<togo, cursor, output, fatal>>
  PROVE  BarrierInv'
<1>1. \A j \in Idx : Counted(j)' <=> Counted(j)
  BY DEF Counted
<1>2. CountInv'
  BY <1>1 DEF BarrierInv, CountInv, Uncounted
<1>3. StoredInv'
  BY <1>1 DEF BarrierInv, StoredInv, Ready
<1>4. \A j \in Idx : /\ output[j].state = "unset"
                     /\ task[j] \notin {"last", "issuing", "done"}
  BY NoOutputYet
<1>5. PendingInv'
  BY <1>4 DEF BarrierInv, PendingInv
<1>6. \A j \in Idx : task'[j] \notin {"last", "issuing", "done"}
  BY <1>4
<1>7. LastInv'
  BY <1>4, <1>6 DEF LastInv
<1>8. ChainedInv'
  BY DEF BarrierInv, ChainedInv
<1>9. OutputsMatchInputs'
  BY <1>4 DEF OutputsMatchInputs
<1> QED
  BY <1>2, <1>3, <1>5, <1>7, <1>8, <1>9 DEF BarrierInv

\* An input that no dobarrier() has looked at may change.
LEMMA UnreadyInv ==
  ASSUME TypeOK, BarrierInv, NEW i \in Idx, ~Counted(i), task[i] # "counting",
         \A j \in Idx : j # i => input'[j] = input[j],
         UNCHANGED <<item, task, pending, togo, out, cursor, output, fatal>>
  PROVE  BarrierInv'
<1>1. CountInv' /\ PendingInv' /\ LastInv' /\ ChainedInv'
  BY DEF BarrierInv, CountInv, Uncounted, Counted, PendingInv, LastInv, ChainedInv
<1>2. StoredInv'
  BY DEF BarrierInv, StoredInv, Counted, Ready
<1>3. OutputsMatchInputs'
  BY NoOutputYet DEF OutputsMatchInputs
<1> QED
  BY <1>1, <1>2, <1>3 DEF BarrierInv

\* Counting down, be it as the last one or not.
LEMMA CountDownInv ==
  ASSUME TypeOK, BarrierInv, NEW i \in Idx, CountDown(i)
  PROVE  BarrierInv'
<1>1. /\ task[i] = "counting" /\ ~Counted(i) /\ togo' = togo - 1
      /\ task' = [task EXCEPT ![i] = IF togo' = 0 THEN "last" ELSE "deferred"]
      /\ UNCHANGED <<item, input, pending, out, cursor, output, fatal>>
  BY DEF CountDown, IsLast, Counted
<1>2. \A j \in Idx : /\ j # i => task'[j] = task[j]
                     /\ Counted(j)' <=> (Counted(j) \/ j = i)
  BY <1>1 DEF TypeOK, Counted
<1>3. task'[i] = IF togo' = 0 THEN "last" ELSE "deferred"
  BY <1>1 DEF TypeOK
<1>4. CountInv'
  <2>1. Uncounted' = Uncounted \ {i} /\ i \in Uncounted
    BY <1>1, <1>2 DEF Uncounted
  <2> QED
    BY <1>1, <2>1, UncountedFinite, FS_RemoveElement DEF BarrierInv, CountInv
<1>5. StoredInv'
  BY <1>1, <1>2 DEF BarrierInv, StoredInv, Ready
<1>6. \A j \in Idx : /\ output[j].state = "unset"
                     /\ task[j] \notin {"last", "issuing", "done"}
  BY <1>1, NoOutputYet
<1>7. PendingInv'
  BY <1>1, <1>2, <1>3 DEF BarrierInv, PendingInv
<1>8. LastInv'
  BY <1>1, <1>2, <1>3, <1>6 DEF LastInv
<1>9. ChainedInv' /\ OutputsMatchInputs'
  BY <1>1, <1>2, <1>6 DEF BarrierInv, ChainedInv, OutputsMatchInputs
<1> QED
  BY <1>1, <1>4, <1>5, <1>7, <1>8, <1>9 DEF BarrierInv

\* What the last one does keeps every operation counted.
LEMMA LastCounted ==
  ASSUME TypeOK, BarrierInv, NEW i \in Idx, task[i] \in {"last", "issuing"},
         NEW l \in {"issuing", "done"}, task' = [task EXCEPT ![i] = l],
         UNCHANGED <<togo, item, out, input>>
  PROVE  CountInv' /\ StoredInv' /\ ChainedInv'
<1>1. \A j \in Idx : task'[j] = IF j = i THEN l ELSE task[j]
  BY DEF TypeOK
<1>2. \A j \in Idx : Counted(j) /\ Counted(j)'
  BY <1>1, LastMeansAll DEF Counted
<1>3. Uncounted' = Uncounted
  BY <1>2 DEF Uncounted
<1>4. StoredInv'
  BY <1>2 DEF BarrierInv, StoredInv, Ready
<1>5. ChainedInv'
  BY <1>1 DEF BarrierInv, ChainedInv
<1> QED
  BY <1>3, <1>4, <1>5 DEF BarrierInv, CountInv

LEMMA WaitOthersInv ==
  ASSUME TypeOK, BarrierInv, NEW i \in Idx, WaitOthers(i)
  PROVE  BarrierInv'
<1>1. /\ task[i] = "last" /\ cursor' = 1
      /\ task' = [task EXCEPT ![i] = "issuing"]
      /\ UNCHANGED <<item, input, pending, togo, out, output, fatal>>
  BY DEF WaitOthers
<1>2. CountInv' /\ StoredInv' /\ ChainedInv'
  BY <1>1, LastCounted
<1>3. \A j \in Idx : task'[j] = IF j = i THEN "issuing" ELSE task[j]
  BY <1>1 DEF TypeOK
<1>4. PendingInv' /\ OutputsMatchInputs'
  BY <1>1, <1>3 DEF BarrierInv, PendingInv, OutputsMatchInputs
<1>5. \A j \in Idx : j # i => task[j] \notin {"last", "issuing", "done"}
  BY <1>1 DEF BarrierInv, LastInv
<1>6. \A j \in Idx : output[j].state = "unset" /\ ~(j < 1)
  BY <1>1, <1>5, IdxFacts DEF BarrierInv, LastInv
<1>7. LastInv'
  BY <1>1, <1>3, <1>5, <1>6 DEF BarrierInv, LastInv
<1> QED
  BY <1>1, <1>2, <1>4, <1>7 DEF BarrierInv

LEMMA IssueOutputInv ==
  ASSUME TypeOK, BarrierInv, NEW i \in Idx, IssueOutput(i)
  PROVE  BarrierInv'
<1>1. /\ task[i] = "issuing" /\ cursor <= N /\ cursor' = cursor + 1
      /\ UNCHANGED <<item, input, task, togo, out>>
  BY DEF IssueOutput, InLoop
<1>2. PICK k \in Idx : k = cursor
  BY <1>1, BarrierAssumption DEF TypeOK, Idx, BarrierAssumption
<1>3. \A j \in Idx : j # i => task[j] \notin {"last", "issuing", "done"}
  BY <1>1 DEF BarrierInv, LastInv
<1>4. \A j \in Idx : output[j].state # "unset" <=> j < k
  BY <1>1, <1>2, <1>3 DEF BarrierInv, LastInv
<1>5. \A j \in Idx : /\ Counted(j) /\ Ready(j)
                     /\ out[j] = IF input[j] = "value" THEN j ELSE Null
  BY <1>1, LastMeansAll
<1>6. k \in pending /\ out[k] # Unwritten
  BY <1>4, <1>5, IdxFacts DEF BarrierInv, PendingInv, Counted, Null, Unwritten
<1>7. /\ pending' = pending \ {k}
      /\ output' = [output EXCEPT ![k] = [state |-> input[k], handle |-> out[k]]]
      /\ fatal' = fatal
  BY <1>2, <1>6 DEF IssueOutput, Result
<1>8. \A j \in Idx : output'[j] = IF j = k THEN [state |-> input[k], handle |-> out[k]]
                                  ELSE output[j]
  BY <1>7 DEF TypeOK
<1>9. \A j \in Idx : j < k + 1 <=> j < k \/ j = k
  BY IdxFacts
<1>10. input[k] # "unset"
  BY <1>5 DEF Ready
<1>11. \A j \in Idx : output'[j].state # "unset" <=> j < k + 1
  BY <1>4, <1>8, <1>9, <1>10
<1>12. PendingInv'
  BY <1>1, <1>7, <1>8, <1>10 DEF BarrierInv, PendingInv
<1>13. LastInv'
  BY <1>1, <1>2, <1>3, <1>11 DEF BarrierInv, LastInv
<1>14. OutputsMatchInputs'
  BY <1>1, <1>5, <1>8 DEF BarrierInv, OutputsMatchInputs
<1>15. CountInv' /\ StoredInv' /\ ChainedInv'
  BY <1>1 DEF BarrierInv, CountInv, Uncounted, StoredInv, ChainedInv, Counted, Ready
<1> QED
  BY <1>7, <1>12, <1>13, <1>14, <1>15 DEF BarrierInv

LEMMA FinishInv ==
  ASSUME TypeOK, BarrierInv, NEW i \in Idx, Finish(i)
  PROVE  BarrierInv'
<1>1. /\ task[i] = "issuing" /\ cursor = N + 1
      /\ task' = [task EXCEPT ![i] = "done"]
      /\ UNCHANGED <<item, input, pending, togo, out, cursor, output, fatal>>
  BY DEF Finish
<1>2. CountInv' /\ StoredInv' /\ ChainedInv'
  BY <1>1, LastCounted
<1>3. \A j \in Idx : task'[j] = IF j = i THEN "done" ELSE task[j]
  BY <1>1 DEF TypeOK
<1>4. \A j \in Idx : j # i => task[j] \notin {"last", "issuing", "done"}
  BY <1>1 DEF BarrierInv, LastInv
<1>5. \A j \in Idx : j < N + 1
  BY IdxFacts
<1>6. PendingInv' /\ OutputsMatchInputs'
  BY <1>1, <1>3 DEF BarrierInv, PendingInv, OutputsMatchInputs
<1>7. \A j \in Idx : output[j].state # "unset"
  BY <1>1, <1>5 DEF BarrierInv, LastInv
<1>8. LastInv'
  BY <1>1, <1>3, <1>4, <1>7 DEF BarrierInv, LastInv
<1> QED
  BY <1>1, <1>2, <1>6, <1>8 DEF BarrierInv

LEMMA TypeNext == TypeOK /\ BarrierInv /\ [Next]_vars => TypeOK'
<1> SUFFICES ASSUME TypeOK, BarrierInv, [Next]_vars PROVE TypeOK'
  OBVIOUS
<1> USE IdxFacts DEF TypeOK, CallLabel, TaskLabel
<1>1. ASSUME NEW i \in Idx, InputStep(i) PROVE TypeOK'
  BY <1>1 DEF InputStep, InputExtract, InputSet, InputIssue
<1>2. CASE Chain
  <2>1. item \in Idx
    BY <1>2 DEF Chain, Idx
  <2>2. item' \in 1..N + 1 /\ pending' \in SUBSET Idx
    BY <1>2, <2>1 DEF Chain
  <2> QED
    BY <1>2, <2>1, <2>2 DEF Chain
<1>3. CASE Enter \/ EndChain \/ Return \/ ChainThrows
  BY <1>3 DEF Enter, EndChain, Return, ChainThrows
<1>4. ASSUME NEW i \in Idx, Execute(i) \/ Executed(i) PROVE TypeOK'
  BY <1>4 DEF Execute, Executed
<1>5. ASSUME NEW i \in Idx, Store(i) \/ WaitOthers(i) \/ Finish(i) PROVE TypeOK'
  BY <1>5 DEF Store, WaitOthers, Finish, Null, Unwritten
<1>6. ASSUME NEW i \in Idx, CountDown(i) PROVE TypeOK'
  <2>1. togo > 0
    <3>1. i \in Uncounted
      BY <1>6 DEF CountDown, Uncounted, Counted
    <3> QED
      BY <3>1, UncountedFinite DEF BarrierInv, CountInv
  <2> QED
    BY <1>6, <2>1 DEF CountDown
<1>7. ASSUME NEW i \in Idx, IssueOutput(i) PROVE TypeOK'
  <2>1. cursor \in Idx /\ cursor' \in 1..N + 1
    BY <1>7 DEF IssueOutput, InLoop, Idx
  <2>2. CASE cursor \in pending /\ out[cursor] # Unwritten
    <3>1. /\ pending' = pending \ {cursor} /\ fatal' = fatal
          /\ output' = [output EXCEPT ![cursor] = Result(cursor)]
      BY <1>7, <2>2 DEF IssueOutput
    <3>2. Ready(cursor)
      BY <1>7, <2>1, LastMeansAll DEF IssueOutput
    <3>3. Result(cursor) \in Output
      BY <2>1, <3>2 DEF Result, Output, Ready
    <3> QED
      BY <1>7, <2>1, <3>1, <3>3 DEF IssueOutput
  <2>3. CASE ~(cursor \in pending /\ out[cursor] # Unwritten)
    BY <1>7, <2>1, <2>3 DEF IssueOutput
  <2> QED
    BY <2>2, <2>3
<1>8. CASE UNCHANGED vars
  BY <1>8 DEF vars
<1> QED
  BY <1>1, <1>2, <1>3, <1>4, <1>5, <1>6, <1>7, <1>8
     DEF Next, CallStep, BarrierStep, Quiescent

LEMMA BarrierNext == TypeOK /\ BarrierInv /\ [Next]_vars => BarrierInv'
<1> SUFFICES ASSUME TypeOK, BarrierInv, [Next]_vars PROVE BarrierInv'
  OBVIOUS
<1>1. ASSUME UNCHANGED <<item, input, task, pending, togo, out, cursor, output, fatal>>
      PROVE  BarrierInv'
  BY <1>1 DEF BarrierInv, CountInv, Uncounted, StoredInv, PendingInv, LastInv,
              ChainedInv, OutputsMatchInputs, Counted, Ready
<1>2. ASSUME NEW i \in Idx, InputExtract(i) PROVE BarrierInv'
  <2>1. ~Ready(i) /\ ~Ready(i)' /\ ~Counted(i) /\ task[i] # "counting"
    BY <1>2 DEF InputExtract, Ready, TypeOK, BarrierInv, StoredInv
  <2>2. CASE task[i] = "completions"
    <3>1. task' = [task EXCEPT ![i] = "detached"]
      BY <1>2, <2>2 DEF InputExtract
    <3>2. /\ \A j \in Idx : j # i => task'[j] = task[j] /\ input'[j] = input[j]
          /\ task'[i] = "detached"
          /\ UNCHANGED <<item, pending, togo, out, cursor, output, fatal>>
      BY <1>2, <3>1 DEF InputExtract, TypeOK
    <3>3. \A j \in Idx : j >= item' => j >= item /\ j # i
      BY <2>2, <3>2 DEF BarrierInv, ChainedInv
    <3> QED
      BY <2>1, <2>2, <3>2, <3>3, EarlyInv
  <2>3. CASE task[i] # "completions"
    <3>1. task' = task
      BY <1>2, <2>3 DEF InputExtract, TypeOK
    <3> QED
      BY <1>2, <2>1, <3>1, UnreadyInv DEF InputExtract, TypeOK
  <2> QED
    BY <2>2, <2>3
<1>3. ASSUME NEW i \in Idx, InputSet(i) PROVE BarrierInv'
  <2>1. ~Counted(i) /\ task[i] # "counting"
    BY <1>3 DEF InputSet, Ready, BarrierInv, StoredInv
  <2>2. \A j \in Idx : j # i => input'[j] = input[j]
    BY <1>3 DEF InputSet, TypeOK
  <2> QED
    BY <1>3, <2>1, <2>2, UnreadyInv DEF InputSet
<1>4. ASSUME NEW i \in Idx, InputIssue(i) PROVE BarrierInv'
  <2>1. /\ ~Counted(i) /\ task[i] \notin {"none", "counting"} /\ task'[i] = "storing"
        /\ \A j \in Idx : j # i => task'[j] = task[j] /\ out'[j] = out[j]
        /\ UNCHANGED <<input, item, pending, togo, out, cursor, output, fatal>>
    BY <1>4 DEF InputIssue, Counted, Ready, TypeOK
  <2>2. \A j \in Idx : j >= item' => j >= item /\ j # i
    BY <2>1 DEF BarrierInv, ChainedInv
  <2> QED
    BY <2>1, <2>2, EarlyInv DEF Ready
<1>5. CASE Chain
  <2>1. PICK i \in Idx : i = item
    BY <1>5, BarrierAssumption DEF Chain, TypeOK, Idx, BarrierAssumption
  <2>2. task[i] = "none"
    BY <2>1, IdxFacts DEF BarrierInv, ChainedInv
  <2>3. /\ task'[i] \in {"completions", "toexecute"}
        /\ \A j \in Idx : j # i => task'[j] = task[j]
    BY <1>5, <2>1 DEF Chain, TypeOK
  <2>4. /\ ~Counted(i) /\ task[i] # "counting"
        /\ pending' = pending \cup {i} /\ item' = item + 1
        /\ UNCHANGED <<input, togo, out, cursor, output, fatal>>
    BY <1>5, <2>1, <2>2 DEF Chain, Counted
  <2>5. \A j \in Idx : j >= item' => j >= item /\ j # i
    BY <2>1, <2>4, IdxFacts
  <2> QED
    BY <2>2, <2>3, <2>4, <2>5, EarlyInv
<1>6. CASE Enter \/ EndChain \/ Return \/ ChainThrows
  BY <1>1, <1>6 DEF Enter, EndChain, Return, ChainThrows
<1>7. ASSUME NEW i \in Idx, Execute(i) PROVE BarrierInv'
  <2>1. /\ ~Counted(i) /\ task[i] \notin {"none", "counting"} /\ task'[i] = "storing"
        /\ \A j \in Idx : j # i => task'[j] = task[j] /\ out'[j] = out[j]
        /\ UNCHANGED <<input, item, pending, togo, out, cursor, output, fatal>>
    BY <1>7 DEF Execute, Counted, Ready, TypeOK
  <2>2. \A j \in Idx : j >= item' => j >= item /\ j # i
    BY <2>1 DEF BarrierInv, ChainedInv
  <2> QED
    BY <2>1, <2>2, EarlyInv DEF Ready
<1>8. ASSUME NEW i \in Idx, Executed(i) PROVE BarrierInv'
  BY <1>1, <1>8 DEF Executed
<1>9. ASSUME NEW i \in Idx, Store(i) PROVE BarrierInv'
  <2>1. /\ ~Counted(i) /\ task[i] \notin {"none", "counting"} /\ task'[i] = "counting"
        /\ \A j \in Idx : j # i => task'[j] = task[j] /\ out'[j] = out[j]
        /\ Ready(i)
        /\ out'[i] = IF input'[i] = "value" THEN i ELSE Null
        /\ UNCHANGED <<input, item, pending, togo, cursor, output, fatal>>
    BY <1>9 DEF Store, Counted, Ready, TypeOK
  <2>2. \A j \in Idx : j >= item' => j >= item /\ j # i
    BY <2>1 DEF BarrierInv, ChainedInv
  <2> QED
    BY <2>1, <2>2, EarlyInv DEF Ready
<1>10. CASE UNCHANGED vars
  BY <1>1, <1>10 DEF vars
<1> QED
  <2>1. ASSUME NEW i \in Idx, InputStep(i) PROVE BarrierInv'
    BY <1>2, <1>3, <1>4, <2>1 DEF InputStep
  <2>2. ASSUME NEW i \in Idx, BarrierStep(i) PROVE BarrierInv'
    BY <1>9, <2>2, CountDownInv, WaitOthersInv, IssueOutputInv, FinishInv DEF BarrierStep
  <2>3. CASE CallStep \/ ChainThrows
    BY <1>5, <1>6, <1>7, <1>8, <2>3 DEF CallStep
  <2> QED
    BY <1>10, <2>1, <2>2, <2>3 DEF Next, Quiescent

LEMMA BarrierInit == Init => TypeOK /\ BarrierInv
<1> SUFFICES ASSUME Init PROVE TypeOK /\ BarrierInv
  OBVIOUS
<1> USE IdxFacts
<1>1. TypeOK
  <2>1. output \in [Idx -> Output]
    BY DEF Init, Output
  <2>2. item \in 1..N + 1 /\ togo \in 0..N /\ cursor \in 1..N + 1
    BY DEF Init
  <2> QED
    BY <2>1, <2>2 DEF Init, TypeOK, CallLabel, TaskLabel
<1>2. CountInv
  <2>1. Uncounted = Idx
    BY DEF Init, Uncounted, Counted
  <2> QED
    BY <2>1 DEF Init, CountInv
<1>3. StoredInv /\ PendingInv /\ LastInv /\ ChainedInv /\ OutputsMatchInputs
  BY DEF Init, StoredInv, PendingInv, LastInv, ChainedInv, OutputsMatchInputs, Counted
<1> QED
  BY <1>1, <1>2, <1>3 DEF BarrierInv, Init

(***************************************************************************)
(* The inductive invariant of a barrier, in every reachable state.         *)
(***************************************************************************)
THEOREM BarrierInvariant == Spec => [](TypeOK /\ BarrierInv)
<1>1. TypeOK /\ BarrierInv /\ [Next]_vars => (TypeOK /\ BarrierInv)'
  BY TypeNext, BarrierNext
<1> QED
  BY <1>1, BarrierInit, PTL DEF Spec

(***************************************************************************)
(* No output completes before the last input has, each output has the      *)
(* state and the handle of its input, and each is completed once.          *)
(***************************************************************************)
THEOREM BarrierCorrect ==
  Spec => [](TypeOK /\ AfterLastInput /\ OutputsMatchInputs /\ NeverFatal)
<1>1. BarrierInv => AfterLastInput
  <2> SUFFICES ASSUME BarrierInv, NEW i \in Idx, output[i].state # "unset"
               PROVE  \A j \in Idx : Ready(j)
    BY DEF AfterLastInput
  <2>1. PICK k \in Idx : task[k] \in {"last", "issuing", "done"}
    BY DEF BarrierInv, LastInv
  <2> QED
    BY <2>1, LastMeansAll
<1>2. BarrierInv => OutputsMatchInputs /\ NeverFatal
  BY DEF BarrierInv, NeverFatal
<1> QED
  BY <1>1, <1>2, BarrierInvariant, PTL

=============================================================================
