---------------------------- MODULE WhenOpsProofs ----------------------------
(***************************************************************************)
(* Proofs about WhenOps, for any number of operations, calls and workers,  *)
(* and of waits at a time.                                                 *)
(***************************************************************************)
EXTENDS WhenOps, FiniteSetTheorems, FunctionTheorems, SequenceTheorems, TLAPS

Tasks == Ops \cup Calls
Posted(x) == (\E i \in DOMAIN queue : queue[i] = x) \/ (\E w \in Workers : task[w] = x)

(***************************************************************************)
(* Every task is in the pool once (OnceInv): an operation from when its    *)
(* precondition is over until it ends, a call of when_all_p() until it is  *)
(* answered (PostedInv).                                                   *)
(***************************************************************************)
OnceInv ==
  /\ \A i, j \in DOMAIN queue : queue[i] = queue[j] => i = j
  /\ \A v, w \in Workers : task[v] = task[w] /\ task[v] # None => v = w
  /\ \A i \in DOMAIN queue, w \in Workers : queue[i] # task[w]

PostedInv ==
  /\ \A o \in Ops : Posted(o) => state[o] = "scheduled" /\ (pre[o] # None => Over(pre[o]))
  /\ \A c \in Calls : Posted(c) => kind[c] = "all" /\ out[c] = <<>>

(***************************************************************************)
(* Only the first completion of when_any() that counted can have found     *)
(* zero, and the promise is not set before it has been (FiredInv).         *)
(***************************************************************************)
FiredInv ==
  \A c \in Calls :
    /\ IsFiniteSet(fired[c]) /\ count[c] = Cardinality(fired[c])
    /\ winner[c] \subseteq fired[c]
    /\ \A i, j \in winner[c] : i = j
    /\ winner[c] # {} => out[c] = <<>>
    /\ fired[c] = {} /\ kind[c] # "all" => out[c] = <<>>
    /\ kind[c] # "any" => fired[c] = {}
    /\ Len(out[c]) <= 1

(***************************************************************************)
(* What when_all_ops_do() has read is of inputs that are over (RetInv),    *)
(* and its answer is of all of them (OutInv).                              *)
(***************************************************************************)
RetInv ==
  \A c \in Calls :
    /\ Len(ret[c]) <= Len(in[c])
    /\ kind[c] # "all" => ret[c] = <<>>
    /\ \A i \in 1..Len(ret[c]) :
         /\ Over(in[c][i]) /\ (ret[c][i] = None <=> state[in[c][i]] = "failed")
         /\ rethrow[c] => state[in[c][i]] = "ok"

OutInv ==
  \A c \in Calls : kind[c] = "all" =>
    /\ out[c] = <<"value">> => Len(ret[c]) = Len(in[c])
    /\ out[c] = <<"exception">> =>
         rethrow[c] /\ \E i \in 1..Len(in[c]) : state[in[c][i]] = "failed"

WhenInv == WhenTypeOK /\ OnceInv /\ PostedInv /\ FiredInv /\ RetInv /\ OutInv

LEMMA Sets ==
  /\ IsFiniteSet(Ops) /\ Ops \cap Calls = {}
  /\ None \notin Ops /\ None \notin Calls /\ None # "all" /\ None # "any"
BY WhenAssumption

LEMMA SeqFacts ==
  ASSUME NEW S, NEW q \in Seq(S)
  PROVE  Len(q) \in Nat /\ DOMAIN q = 1..Len(q) /\ \A i \in 1..Len(q) : q[i] \in S
BY LenProperties, ElementOfSeq

LEMMA AppendFacts ==
  ASSUME NEW S, NEW q \in Seq(S), NEW x \in S
  PROVE  /\ Append(q, x) \in Seq(S) /\ Len(Append(q, x)) = Len(q) + 1
         /\ DOMAIN Append(q, x) = 1..(Len(q) + 1)
         /\ \A i \in 1..Len(q) : Append(q, x)[i] = q[i]
         /\ Append(q, x)[Len(q) + 1] = x
BY AppendProperties, SeqFacts

\* The completions of an operation, in some order, are each there once.
LEMMA OrderFacts ==
  ASSUME NEW next, IsFiniteSet(next), NEW s \in [1..Cardinality(next) -> next],
         \A p \in next : \E i \in DOMAIN s : s[i] = p
  PROVE  /\ s \in Seq(next) /\ Len(s) = Cardinality(next) /\ DOMAIN s = 1..Len(s)
         /\ \A i, j \in 1..Len(s) : s[i] = s[j] => i = j
         /\ \A i \in 1..Len(s) : s[i] \in next
<1> DEFINE n == Cardinality(next)
<1>1. n \in Nat
  BY FS_CardinalityType
<1>2. s \in Seq(next) /\ Len(s) = n /\ DOMAIN s = 1..n
  BY <1>1
<1>3. s \in Surjection(1..n, next)
  BY DEF Surjection
<1>4. IsFiniteSet(1..n) /\ Cardinality(1..n) = n
  <2>1. n - 1 + 1 = n /\ (1 > n => n = 0)
    BY <1>1
  <2> HIDE DEF n
  <2> QED
    BY <1>1, <2>1, FS_Interval
<1>5. s \in Injection(1..n, next)
  <2>1. Cardinality(1..n) = Cardinality(next)
    BY <1>4
  <2> QED
    BY <1>3, <1>4, <2>1, FS_SurjSameCardinalityImpliesInj
<1> QED
  BY <1>2, <1>5 DEF Injection, IsInjective

LEMMA InputFacts == \A ops \in Inputs : ops \in Seq(Ops)
<1> SUFFICES ASSUME NEW ops \in Inputs PROVE ops \in Seq(Ops)
  OBVIOUS
<1>1. CASE \E o \in Ops : ops = <<o>>
  BY <1>1
<1>2. CASE \E x \in {y \in Ops \X Ops : y[1] # y[2]} : ops = <<x[1], x[2]>>
  <2>1. PICK x \in Ops \X Ops : ops = <<x[1], x[2]>>
    BY <1>2
  <2>2. x[1] \in Ops /\ x[2] \in Ops
    OBVIOUS
  <2> QED
    BY <2>1, <2>2
<1> QED
  BY <1>1, <1>2 DEF Inputs

\* An Init state has every type and the invariant.
LEMMA WhenInitInv == WhenInit => WhenInv
<1> SUFFICES ASSUME WhenInit PROVE WhenInv
  OBVIOUS
<1> USE Sets DEF WhenInit
<1>1. WhenTypeOK
  BY DEF WhenTypeOK
<1>2. OnceInv /\ PostedInv
  BY DEF OnceInv, PostedInv, Posted
<1>3. FiredInv
  BY FS_EmptySet DEF FiredInv
<1>4. RetInv /\ OutInv
  BY DEF RetInv, OutInv
<1> QED
  BY <1>1, <1>2, <1>3, <1>4 DEF WhenInv

-----------------------------------------------------------------------------
(***************************************************************************)
(* What each change of the pool does to the tasks in it.                   *)
(***************************************************************************)
LEMMA PoolAppends ==
  ASSUME WhenTypeOK, OnceInv, NEW x \in Tasks, ~Posted(x),
         queue' = Append(queue, x), task' = task
  PROVE  OnceInv' /\ \A y : Posted(y)' => Posted(y) \/ y = x
<1> DEFINE n == Len(queue)
<1>1. /\ n \in Nat /\ DOMAIN queue = 1..n /\ DOMAIN queue' = 1..(n + 1)
      /\ \A i \in 1..n : queue'[i] = queue[i]
      /\ queue'[n + 1] = x
  BY SeqFacts, AppendFacts DEF WhenTypeOK, Tasks
<1>2. \A i \in 1..(n + 1) : i \in 1..n \/ i = n + 1
  BY <1>1
<1> HIDE DEF n
<1>3. OnceInv'
  BY <1>1, <1>2 DEF OnceInv, Posted
<1>4. \A y : Posted(y)' => Posted(y) \/ y = x
  BY <1>1, <1>2 DEF Posted
<1> QED
  BY <1>3, <1>4

LEMMA PoolTakes ==
  ASSUME WhenTypeOK, OnceInv, NEW w \in Workers, Take(w)
  PROVE  OnceInv' /\ \A y \in Tasks : Posted(y)' => Posted(y)
<1> DEFINE n == Len(queue)
<1>1. /\ n \in Nat /\ n > 0 /\ DOMAIN queue = 1..n /\ queue[1] = Head(queue)
      /\ Head(queue) \in Ops \cup Calls
      /\ queue' \in Seq(Ops \cup Calls) /\ DOMAIN queue' = 1..(n - 1)
      /\ \A i \in 1..(n - 1) : queue'[i] = queue[i + 1]
  BY HeadTailProperties, LenProperties, EmptySeq, SeqFacts DEF WhenTypeOK, Take
<1>2. \A i \in 1..(n - 1) : i + 1 \in 1..n /\ i + 1 # 1
  BY <1>1
<1>3. 1 \in 1..n /\ \A i, j \in 1..(n - 1) : i + 1 = j + 1 => i = j
  BY <1>1
<1>4. /\ task[w] = None /\ task'[w] = queue[1] /\ queue[1] # None
      /\ \A v \in Workers : v # w => task'[v] = task[v]
  BY Sets, <1>1 DEF WhenTypeOK, Take
<1> HIDE DEF n
<1>5. OnceInv'
  <2>1. \A i, j \in DOMAIN queue' : queue'[i] = queue'[j] => i = j
    BY <1>1, <1>2, <1>3 DEF OnceInv
  <2>2. \A v, u \in Workers : task'[v] = task'[u] /\ task'[v] # None => v = u
    BY <1>1, <1>3, <1>4 DEF OnceInv
  <2>3. \A i \in DOMAIN queue', v \in Workers : queue'[i] # task'[v]
    BY <1>1, <1>2, <1>3, <1>4 DEF OnceInv
  <2> QED
    BY <2>1, <2>2, <2>3 DEF OnceInv
<1>6. ASSUME NEW y \in Tasks, Posted(y)' PROVE Posted(y)
  <2>1. y # None
    BY Sets DEF Tasks
  <2>2. ASSUME NEW i \in 1..(n - 1), queue'[i] = y PROVE Posted(y)
    BY <2>2, <1>1, <1>2 DEF Posted
  <2>3. ASSUME NEW v \in Workers, task'[v] = y PROVE Posted(y)
    BY <2>1, <2>3, <1>1, <1>3, <1>4 DEF Posted
  <2> QED
    BY <1>1, <1>6, <2>2, <2>3 DEF Posted
<1> QED
  BY <1>5, <1>6

LEMMA PoolFrees ==
  ASSUME WhenTypeOK, OnceInv, NEW w \in Workers, task[w] \in Tasks, Free(w), queue' = queue
  PROVE  OnceInv' /\ \A y \in Tasks : Posted(y)' => Posted(y) /\ y # task[w]
<1>1. task'[w] = None /\ \A v \in Workers : v # w => task'[v] = task[v]
  BY DEF WhenTypeOK, Free
<1>2. \A i \in DOMAIN queue : queue[i] # None
  BY Sets, SeqFacts DEF WhenTypeOK
<1> QED
  BY <1>1, <1>2, Sets DEF OnceInv, Posted, Tasks

LEMMA PoolEnds ==
  ASSUME WhenTypeOK, OnceInv, NEW w \in Workers, task[w] \in Tasks, Free(w),
         NEW next \in SUBSET Ops, \A x \in next : ~Posted(x),
         NEW s \in [1..Cardinality(next) -> next],
         \A p \in next : \E i \in DOMAIN s : s[i] = p,
         queue' = queue \o s
  PROVE  /\ OnceInv' /\ queue' \in Seq(Tasks)
         /\ \A y \in Tasks : Posted(y)' => (Posted(y) /\ y # task[w]) \/ y \in next
<1> DEFINE n == Len(queue)
           m == Len(s)
<1>1. IsFiniteSet(next)
  BY Sets, FS_Subset
<1>2. /\ s \in Seq(next) /\ m = Cardinality(next) /\ DOMAIN s = 1..m
      /\ \A i, j \in 1..m : s[i] = s[j] => i = j
      /\ \A i \in 1..m : s[i] \in next
  BY <1>1, OrderFacts
<1>3. s \in Seq(Ops \cup Calls) /\ queue \in Seq(Ops \cup Calls)
  BY <1>2, SeqMonotonic DEF WhenTypeOK
<1>4. n \in Nat /\ m \in Nat /\ DOMAIN queue = 1..n /\ \A i \in 1..n : queue[i] \in Ops \cup Calls
  BY <1>2, <1>3, SeqFacts
<1>5. /\ queue' \in Seq(Tasks) /\ DOMAIN queue' = 1..(n + m)
      /\ \A i \in 1..(n + m) : queue'[i] = IF i <= n THEN queue[i] ELSE s[i - n]
  BY <1>3, <1>4, ConcatProperties, SeqFacts DEF Tasks
<1>6. \A i \in 1..(n + m) : \/ i \in 1..n /\ queue'[i] = queue[i]
                            \/ \E k \in 1..m : i = n + k /\ queue'[i] = s[k]
  <2> SUFFICES ASSUME NEW i \in 1..(n + m)
               PROVE  \/ i \in 1..n /\ queue'[i] = queue[i]
                      \/ \E k \in 1..m : i = n + k /\ queue'[i] = s[k]
    OBVIOUS
  <2>1. CASE i <= n
    BY <2>1, <1>4, <1>5
  <2>2. CASE ~(i <= n)
    <3>1. i - n \in 1..m /\ i = n + (i - n)
      BY <2>2, <1>4
    <3> QED
      BY <2>2, <3>1, <1>5
  <2> QED
    BY <2>1, <2>2
<1>7. task'[w] = None /\ \A v \in Workers : v # w => task'[v] = task[v]
  BY DEF WhenTypeOK, Free
<1>8. \A x \in next : x # None /\ (\A i \in 1..n : queue[i] # x) /\ (\A v \in Workers : task[v] # x)
  BY Sets, <1>4 DEF Posted
<1>9. \A i \in 1..n : queue[i] # None
  BY Sets, <1>4
<1> HIDE DEF n, m
<1>10. OnceInv'
  <2>1. ASSUME NEW i \in 1..(n + m), NEW j \in 1..(n + m), queue'[i] = queue'[j]
        PROVE  i = j
    <3>1. CASE i \in 1..n /\ queue'[i] = queue[i] /\ j \in 1..n /\ queue'[j] = queue[j]
      BY <2>1, <3>1, <1>4 DEF OnceInv
    <3>2. ASSUME NEW k \in 1..m, NEW l \in 1..m,
                 i = n + k, queue'[i] = s[k], j = n + l, queue'[j] = s[l]
          PROVE  i = j
      BY ZenonT(30), <2>1, <3>2, <1>2
    <3>3. ASSUME NEW k \in 1..m, i \in 1..n, queue'[i] = queue[i], queue'[j] = s[k]
          PROVE  FALSE
      BY <2>1, <3>3, <1>2, <1>8
    <3>4. ASSUME NEW k \in 1..m, j \in 1..n, queue'[j] = queue[j], queue'[i] = s[k]
          PROVE  FALSE
      BY <2>1, <3>4, <1>2, <1>8
    <3> QED
      BY <1>6, <3>1, <3>2, <3>3, <3>4
  <2>2. \A v, u \in Workers : task'[v] = task'[u] /\ task'[v] # None => v = u
    BY <1>7 DEF OnceInv
  <2>3. ASSUME NEW i \in 1..(n + m), NEW v \in Workers
        PROVE  queue'[i] # task'[v]
    <3>1. CASE i \in 1..n /\ queue'[i] = queue[i]
      BY <3>1, <1>4, <1>7, <1>9 DEF OnceInv
    <3>2. ASSUME NEW k \in 1..m, queue'[i] = s[k]
          PROVE  queue'[i] # task'[v]
      BY <3>2, <1>2, <1>7, <1>8
    <3> QED
      BY <1>6, <3>1, <3>2
  <2> QED
    BY <2>1, <2>2, <2>3, <1>5 DEF OnceInv
<1>11. ASSUME NEW y \in Tasks, Posted(y)'
       PROVE  (Posted(y) /\ y # task[w]) \/ y \in next
  <2>1. ASSUME NEW i \in 1..(n + m), queue'[i] = y
        PROVE  (Posted(y) /\ y # task[w]) \/ y \in next
    BY SMTT(20), <2>1, <1>2, <1>4, <1>6 DEF OnceInv, Posted
  <2>2. ASSUME NEW v \in Workers, task'[v] = y
        PROVE  (Posted(y) /\ y # task[w]) \/ y \in next
    <3>1. y # None
      BY Sets DEF Tasks
    <3> QED
      BY <2>2, <3>1, <1>7 DEF OnceInv, Posted
  <2> QED
    BY <1>5, <1>11, <2>1, <2>2 DEF Posted
<1> QED
  BY <1>5, <1>10, <1>11

-----------------------------------------------------------------------------
(***************************************************************************)
(* The steps.  An operation that is over stays as it is.                   *)
(***************************************************************************)
LEMMA WhenCases ==
  ASSUME [WhenNext]_whenvars, NEW P,
         ASSUME NEW o \in Ops, NEW p \in Ops \cup {None}, Schedule(o, p) PROVE P,
         ASSUME NEW c \in Calls, NEW again \in BOOLEAN, NEW ops \in Inputs,
                WhenAll(c, again, ops) PROVE P,
         ASSUME NEW c \in Calls, NEW again \in BOOLEAN, NEW ops \in Inputs,
                WhenAny(c, again, ops) PROVE P,
         ASSUME NEW w \in Workers, Take(w) PROVE P,
         ASSUME NEW w \in Workers, EndOp(w) PROVE P,
         ASSUME NEW w \in Workers, NEW c \in Calls, NextInput(w, c) PROVE P,
         ASSUME NEW w \in Workers, NEW c \in Calls, SetException(w, c) PROVE P,
         ASSUME NEW w \in Workers, NEW c \in Calls, SetValue(w, c) PROVE P,
         ASSUME NEW c \in Calls, NEW i \in DOMAIN in[c], Fire(c, i) PROVE P,
         ASSUME NEW c \in Calls, NEW i \in DOMAIN in[c], SetAny(c, i) PROVE P,
         ASSUME UNCHANGED whenvars PROVE P
  PROVE  P
BY DEF WhenNext, WorkerStep, AnyStep

LEMMA EndOpFacts ==
  ASSUME WhenInv, NEW w \in Workers, EndOp(w)
  PROVE  LET o == task[w] IN
         LET next == {p \in Ops : pre[p] = o /\ state[p] = "scheduled"} IN
         /\ o \in Ops /\ state[o] = "scheduled" /\ pre[o] # o
         /\ state' \in [Ops -> {"new", "scheduled", "ok", "failed"}]
         /\ state'[o] \in {"ok", "failed"} /\ \A p \in Ops : p # o => state'[p] = state[p]
         /\ OnceInv' /\ queue' \in Seq(Tasks)
         /\ \A y \in Tasks : Posted(y)' => (Posted(y) /\ y # o) \/ y \in next
<1> DEFINE o == task[w]
           next == {p \in Ops : pre[p] = o /\ state[p] = "scheduled"}
<1>1. o \in Ops /\ Posted(o)
  BY DEF EndOp, Posted
<1>2. state[o] = "scheduled" /\ (pre[o] # None => Over(pre[o])) /\ ~Over(o)
  BY <1>1 DEF WhenInv, PostedInv, Over
<1>3. o # None /\ pre[o] # o
  BY <1>1, <1>2, Sets
<1>4. PICK r \in {"ok", "failed"} : state' = [state EXCEPT ![o] = r]
  BY DEF EndOp
<1>5. /\ state' \in [Ops -> {"new", "scheduled", "ok", "failed"}]
      /\ state'[o] \in {"ok", "failed"} /\ \A p \in Ops : p # o => state'[p] = state[p]
  BY <1>1, <1>4 DEF WhenInv, WhenTypeOK
<1>6. PICK s \in [1..Cardinality(next) -> next] :
        /\ \A p \in next : \E i \in DOMAIN s : s[i] = p
        /\ queue' = queue \o s
  BY DEF EndOp
<1>7. next \in SUBSET Ops /\ task[w] \in Tasks /\ Free(w)
  BY <1>1 DEF EndOp, Tasks
<1>8. \A x \in next : ~Posted(x)
  BY <1>2, <1>3 DEF WhenInv, PostedInv
<1> HIDE DEF next
<1>9. /\ OnceInv' /\ queue' \in Seq(Tasks)
      /\ \A y \in Tasks : Posted(y)' => (Posted(y) /\ y # task[w]) \/ y \in next
  BY <1>6, <1>7, <1>8, PoolEnds DEF WhenInv
<1> QED
  BY <1>1, <1>2, <1>3, <1>5, <1>9 DEF next

LEMMA OverStays ==
  ASSUME WhenInv, [WhenNext]_whenvars
  PROVE  \A o \in Ops : Over(o) => state'[o] = state[o]
<1> DEFINE P == \A o \in Ops : Over(o) => state'[o] = state[o]
<1>1. ASSUME NEW o \in Ops, NEW p \in Ops \cup {None}, Schedule(o, p) PROVE P
  BY <1>1 DEF Schedule, WhenInv, WhenTypeOK, Over
<1>2. ASSUME NEW w \in Workers, EndOp(w) PROVE P
  BY <1>2, EndOpFacts DEF Over
<1>3. ASSUME UNCHANGED state PROVE P
  BY <1>3
<1>4. \/ \E o \in Ops, p \in Ops \cup {None} : Schedule(o, p)
      \/ \E w \in Workers : EndOp(w)
      \/ UNCHANGED state
  BY DEF WhenNext, WorkerStep, AnyStep, whenvars, WhenAll, WhenAny, Ask, Take, operations,
         NextInput, SetException, SetValue, Fire, SetAny
<1> HIDE DEF P
<1>5. P
  BY <1>1, <1>2, <1>3, <1>4
<1> QED
  BY <1>5 DEF P

LEMMA WhenTypeStep ==
  ASSUME WhenInv, [WhenNext]_whenvars
  PROVE  WhenTypeOK'
<1> USE Sets DEF WhenInv, operations, pool, args, progress
<1>1. ASSUME NEW o \in Ops, NEW p \in Ops \cup {None}, Schedule(o, p) PROVE WhenTypeOK'
  <2>1. queue' \in Seq(Ops \cup Calls)
    BY <1>1, AppendFacts DEF WhenTypeOK, Schedule
  <2> QED
    BY <1>1, <2>1 DEF WhenTypeOK, Schedule
<1>2. ASSUME NEW c \in Calls, NEW again \in BOOLEAN, NEW ops \in Inputs, WhenAll(c, again, ops)
      PROVE  WhenTypeOK'
  <2>1. queue' \in Seq(Ops \cup Calls)
    BY <1>2, AppendFacts DEF WhenTypeOK, WhenAll
  <2> QED
    BY <1>2, <2>1, InputFacts DEF WhenTypeOK, WhenAll, Ask
<1>3. ASSUME NEW c \in Calls, NEW again \in BOOLEAN, NEW ops \in Inputs, WhenAny(c, again, ops)
      PROVE  WhenTypeOK'
  BY <1>3, InputFacts DEF WhenTypeOK, WhenAny, Ask
<1>4. ASSUME NEW w \in Workers, Take(w) PROVE WhenTypeOK'
  <2>1. queue' \in Seq(Ops \cup Calls) /\ Head(queue) \in Ops \cup Calls
    BY <1>4, HeadTailProperties DEF WhenTypeOK, Take
  <2> QED
    BY <1>4, <2>1 DEF WhenTypeOK, Take
<1>5. ASSUME NEW w \in Workers, EndOp(w) PROVE WhenTypeOK'
  <2>1. queue' \in Seq(Ops \cup Calls)
    BY <1>5, EndOpFacts DEF Tasks
  <2>2. state' \in [Ops -> {"new", "scheduled", "ok", "failed"}]
    BY <1>5, EndOpFacts
  <2> QED
    BY <1>5, <2>1, <2>2 DEF WhenTypeOK, EndOp, Free
<1>6. ASSUME NEW w \in Workers, NEW c \in Calls, NextInput(w, c) PROVE WhenTypeOK'
  <2>1. Input(c) \in Ops
    BY <1>6, SeqFacts DEF WhenTypeOK, NextInput, Running, Input
  <2> QED
    BY <1>6, <2>1, AppendFacts DEF WhenTypeOK, NextInput
<1>7. ASSUME NEW w \in Workers, NEW c \in Calls, SetException(w, c) PROVE WhenTypeOK'
  BY <1>7, AppendFacts DEF WhenTypeOK, SetException, Set, Free
<1>8. ASSUME NEW w \in Workers, NEW c \in Calls, SetValue(w, c) PROVE WhenTypeOK'
  BY <1>8, AppendFacts DEF WhenTypeOK, SetValue, Set, Free
<1>9. ASSUME NEW c \in Calls, NEW i \in DOMAIN in[c], Fire(c, i) PROVE WhenTypeOK'
  <2>1. i \in Nat
    BY SeqFacts DEF WhenTypeOK
  <2> QED
    BY SMTT(20), <1>9, <2>1 DEF WhenTypeOK, Fire
<1>10. ASSUME NEW c \in Calls, NEW i \in DOMAIN in[c], SetAny(c, i) PROVE WhenTypeOK'
  BY <1>10, AppendFacts DEF WhenTypeOK, SetAny, Set
<1>11. ASSUME UNCHANGED whenvars PROVE WhenTypeOK'
  BY <1>11 DEF WhenTypeOK, whenvars
<1> HIDE DEF WhenInv
<1> QED
  BY <1>1, <1>2, <1>3, <1>4, <1>5, <1>6, <1>7, <1>8, <1>9, <1>10, <1>11, WhenCases

LEMMA PostedStep ==
  ASSUME WhenInv, [WhenNext]_whenvars
  PROVE  OnceInv' /\ PostedInv'
<1> DEFINE P == OnceInv' /\ PostedInv'
<1> USE Sets DEF WhenInv, operations, args, progress
<1>1. ASSUME NEW o \in Ops, NEW p \in Ops \cup {None}, Schedule(o, p) PROVE P
  <2>1. ~Posted(o)
    BY <1>1 DEF Schedule, PostedInv
  <2>2. /\ state'[o] = "scheduled" /\ pre'[o] = p
        /\ \A x \in Ops : x # o => state'[x] = state[x] /\ pre'[x] = pre[x]
        /\ state[o] = "new" /\ (p # None => p # o) /\ kind' = kind /\ out' = out
    BY <1>1 DEF Schedule, WhenTypeOK
  <2>3. \A x \in Ops : Over(x) => x # o /\ Over(x)'
    BY <2>2 DEF Over
  <2>4. CASE p = None \/ Over(p)
    <3>1. OnceInv' /\ \A y : Posted(y)' => Posted(y) \/ y = o
      BY <1>1, <2>1, <2>4, PoolAppends DEF Schedule, Tasks
    <3> QED
      BY ZenonT(30), <3>1, <2>2, <2>3, <2>4 DEF PostedInv, WhenTypeOK
  <2>5. CASE ~(p = None \/ Over(p))
    <3>1. queue' = queue /\ task' = task
      BY <1>1, <2>5 DEF Schedule
    <3>2. \A y : Posted(y)' = Posted(y)
      BY <3>1 DEF Posted
    <3>3. OnceInv'
      BY <3>1 DEF OnceInv
    <3> QED
      BY <3>2, <3>3, <2>1, <2>2, <2>3 DEF PostedInv, WhenTypeOK
  <2> QED
    BY <2>4, <2>5
<1>2. ASSUME NEW c \in Calls, NEW again \in BOOLEAN, NEW ops \in Inputs, WhenAll(c, again, ops)
      PROVE  P
  <2>1. kind[c] = None
    BY <1>2 DEF WhenAll, Ask, Asked
  <2>2. ~Posted(c)
    BY <2>1 DEF PostedInv
  <2>3. OnceInv' /\ \A y : Posted(y)' => Posted(y) \/ y = c
    BY <1>2, <2>2, PoolAppends DEF WhenAll, Ask, Tasks
  <2>4. /\ kind' = [kind EXCEPT ![c] = "all"] /\ out' = out /\ out[c] = <<>>
        /\ state' = state /\ pre' = pre
    BY <1>2, <2>1 DEF WhenAll, Ask, FiredInv
  <2> QED
    BY <2>3, <2>4 DEF PostedInv, WhenTypeOK, Over
<1>3. ASSUME NEW c \in Calls, NEW again \in BOOLEAN, NEW ops \in Inputs, WhenAny(c, again, ops)
      PROVE  P
  <2>1. kind[c] = None
    BY <1>3 DEF WhenAny, Ask, Asked
  <2>2. ~Posted(c)
    BY <2>1 DEF PostedInv
  <2>3. /\ kind' = [kind EXCEPT ![c] = "any"]
        /\ UNCHANGED <<out, state, pre, queue, task>>
    BY <1>3 DEF WhenAny, Ask
  <2>4. OnceInv' /\ \A y : Posted(y)' = Posted(y)
    BY <2>3 DEF OnceInv, Posted
  <2> QED
    BY <2>2, <2>3, <2>4 DEF PostedInv, WhenTypeOK, Over
<1>4. ASSUME NEW w \in Workers, Take(w) PROVE P
  <2>1. OnceInv' /\ \A y \in Tasks : Posted(y)' => Posted(y)
    BY <1>4, PoolTakes
  <2>2. UNCHANGED <<out, state, pre, kind>>
    BY <1>4 DEF Take
  <2> QED
    BY <2>1, <2>2 DEF PostedInv, Over, Tasks
<1>5. ASSUME NEW w \in Workers, EndOp(w) PROVE P
  <2> DEFINE o == task[w]
             next == {x \in Ops : pre[x] = o /\ state[x] = "scheduled"}
  <2>1. /\ o \in Ops /\ state[o] = "scheduled"
        /\ state'[o] \in {"ok", "failed"} /\ \A x \in Ops : x # o => state'[x] = state[x]
        /\ OnceInv' /\ pre[o] # o
        /\ \A y \in Tasks : Posted(y)' => (Posted(y) /\ y # o) \/ y \in next
    BY <1>5, EndOpFacts
  <2>2. UNCHANGED <<pre, kind, out>>
    BY <1>5 DEF EndOp
  <2>3. \A x \in Ops : Over(x) \/ x = o => Over(x)'
    BY <2>1 DEF Over
  <2> HIDE DEF o
  <2>4. ASSUME NEW x \in Ops, Posted(x)'
        PROVE  state'[x] = "scheduled" /\ (pre'[x] # None => Over(pre[x])')
    <3>1. CASE Posted(x) /\ x # o
      BY <3>1, <2>1, <2>2, <2>3 DEF PostedInv, WhenTypeOK
    <3>2. CASE x \in next
      BY <3>2, <2>1, <2>2, <2>3
    <3> QED
      BY <2>1, <2>4, <3>1, <3>2 DEF Tasks
  <2>5. ASSUME NEW c \in Calls, Posted(c)' PROVE kind'[c] = "all" /\ out'[c] = <<>>
    BY <2>1, <2>2, <2>5 DEF PostedInv, Tasks
  <2> QED
    BY <2>1, <2>2, <2>4, <2>5 DEF PostedInv, Over
<1>6. ASSUME UNCHANGED <<queue, task, state, pre, kind, out>> PROVE P
  BY <1>6 DEF OnceInv, PostedInv, Posted, Over
<1>7. ASSUME NEW w \in Workers, NEW c \in Calls, SetException(w, c) \/ SetValue(w, c) PROVE P
  <2>1. /\ task[w] = c /\ Free(w) /\ UNCHANGED <<queue, state, pre, kind>>
        /\ \A d \in Calls : d # c => out'[d] = out[d]
    BY <1>7 DEF SetException, SetValue, Running, Set, WhenTypeOK
  <2>2. OnceInv' /\ \A y \in Tasks : Posted(y)' => Posted(y) /\ y # task[w]
    BY <2>1, PoolFrees DEF Tasks
  <2> QED
    BY <2>1, <2>2 DEF PostedInv, Over, Tasks
<1>8. ASSUME NEW c \in Calls, NEW i \in DOMAIN in[c], SetAny(c, i) PROVE P
  <2>1. kind[c] # "all"
    BY <1>8 DEF SetAny, FiredInv
  <2>2. ~Posted(c)
    BY <2>1 DEF PostedInv
  <2>3. /\ UNCHANGED <<queue, task, state, pre, kind>>
        /\ \A d \in Calls : d # c => out'[d] = out[d]
    BY <1>8 DEF SetAny, Set, pool, WhenTypeOK
  <2>4. OnceInv' /\ \A y : Posted(y)' = Posted(y)
    BY <2>3 DEF OnceInv, Posted
  <2> QED
    BY <2>2, <2>3, <2>4 DEF PostedInv, Over
<1>9. ASSUME NEW w \in Workers, NEW c \in Calls, NextInput(w, c) PROVE P
  BY <1>6, <1>9 DEF NextInput, pool
<1>10. ASSUME NEW c \in Calls, NEW i \in DOMAIN in[c], Fire(c, i) PROVE P
  BY <1>6, <1>10 DEF Fire, pool
<1>11. ASSUME UNCHANGED whenvars PROVE P
  BY <1>6, <1>11 DEF whenvars, pool
<1> HIDE DEF WhenInv, P
<1>12. P
  BY <1>1, <1>2, <1>3, <1>4, <1>5, <1>7, <1>8, <1>9, <1>10, <1>11, WhenCases
<1> QED
  BY <1>12 DEF P

LEMMA FiredStep ==
  ASSUME WhenInv, [WhenNext]_whenvars
  PROVE  FiredInv'
<1> USE Sets DEF operations, pool, args, progress
<1>1. ASSUME UNCHANGED <<fired, count, winner, kind, out>> PROVE FiredInv'
  BY <1>1 DEF WhenInv, FiredInv
<1>2. ASSUME NEW c \in Calls, NEW again \in BOOLEAN, NEW ops \in Inputs,
             WhenAll(c, again, ops) \/ WhenAny(c, again, ops)
      PROVE  FiredInv'
  <2>1. kind[c] = None /\ UNCHANGED <<fired, count, winner, out>>
    BY <1>2 DEF WhenAll, WhenAny, Ask, Asked
  <2>2. kind'[c] \in {"all", "any"} /\ \A d \in Calls : d # c => kind'[d] = kind[d]
    BY <1>2 DEF WhenAll, WhenAny, Ask, WhenInv, WhenTypeOK
  <2> QED
    BY <2>1, <2>2 DEF WhenInv, FiredInv
<1>3. ASSUME NEW w \in Workers, NEW c \in Calls, SetException(w, c) \/ SetValue(w, c)
      PROVE  FiredInv'
  <2>1. Posted(c)
    BY <1>3 DEF SetException, SetValue, Running, Posted
  <2>2. kind[c] = "all" /\ out[c] = <<>>
    BY <2>1 DEF WhenInv, PostedInv
  <2>3. /\ UNCHANGED <<fired, count, winner, kind>>
        /\ Len(out'[c]) <= 1
        /\ \A d \in Calls : d # c => out'[d] = out[d]
    <3>1. PICK v \in {"value", "exception"} : out' = [out EXCEPT ![c] = Append(out[c], v)]
      BY <1>3 DEF SetException, SetValue, Set
    <3>2. Len(Append(out[c], v)) = 1
      BY <2>2
    <3> QED
      BY <1>3, <3>1, <3>2 DEF SetException, SetValue, WhenInv, WhenTypeOK
  <2> QED
    BY <2>2, <2>3 DEF WhenInv, FiredInv
<1>4. ASSUME NEW c \in Calls, NEW i \in DOMAIN in[c], Fire(c, i) PROVE FiredInv'
  <2>1. /\ kind[c] = "any" /\ i \notin fired[c]
        /\ UNCHANGED <<kind, out>>
        /\ \A d \in Calls : d # c => /\ fired'[d] = fired[d] /\ count'[d] = count[d]
                                     /\ winner'[d] = winner[d]
        /\ fired'[c] = fired[c] \cup {i} /\ count'[c] = count[c] + 1
        /\ winner'[c] = IF count[c] = 0 THEN winner[c] \cup {i} ELSE winner[c]
    BY <1>4 DEF Fire, FirstToFire, WhenInv, WhenTypeOK
  <2>2. /\ IsFiniteSet(fired[c]) /\ count[c] = Cardinality(fired[c])
        /\ winner[c] \subseteq fired[c] /\ \A j, k \in winner[c] : j = k
        /\ winner[c] # {} => out[c] = <<>>
        /\ fired[c] = {} => out[c] = <<>>
        /\ Len(out[c]) <= 1
    BY <2>1, Sets DEF WhenInv, FiredInv
  <2>3. IsFiniteSet(fired'[c]) /\ count'[c] = Cardinality(fired'[c])
    BY SMTT(20), <2>1, <2>2, FS_AddElement
  <2>4. count[c] = 0 => fired[c] = {}
    BY <2>2, FS_EmptySet
  <2>5. /\ winner'[c] \subseteq fired'[c] /\ \A j, k \in winner'[c] : j = k
        /\ winner'[c] # {} => out[c] = <<>>
    BY <2>1, <2>2, <2>4
  <2>6. kind[c] = "any" /\ fired'[c] # {}
    BY <2>1
  <2> DEFINE One(d) ==
        /\ IsFiniteSet(fired[d]) /\ count[d] = Cardinality(fired[d])
        /\ winner[d] \subseteq fired[d]
        /\ \A j, k \in winner[d] : j = k
        /\ winner[d] # {} => out[d] = <<>>
        /\ fired[d] = {} /\ kind[d] # "all" => out[d] = <<>>
        /\ kind[d] # "any" => fired[d] = {}
        /\ Len(out[d]) <= 1
  <2>7. One(c)'
    BY <2>1, <2>2, <2>3, <2>5, <2>6
  <2>8. \A d \in Calls : d # c => One(d)'
    BY <2>1 DEF WhenInv, FiredInv
  <2> QED
    BY <2>7, <2>8 DEF FiredInv
<1>5. ASSUME NEW c \in Calls, NEW i \in DOMAIN in[c], SetAny(c, i) PROVE FiredInv'
  <2>1. /\ i \in winner[c] /\ out[c] = <<>> /\ \A j, k \in winner[c] : j = k
        /\ winner[c] \subseteq fired[c]
    BY <1>5 DEF SetAny, WhenInv, FiredInv
  <2>2. /\ UNCHANGED <<kind, fired, count>>
        /\ \A d \in Calls : d # c => winner'[d] = winner[d] /\ out'[d] = out[d]
        /\ winner'[c] = winner[c] \ {i} /\ Len(out'[c]) <= 1
    BY <1>5, <2>1, AppendFacts DEF SetAny, Set, WhenInv, WhenTypeOK
  <2>3. winner'[c] = {} /\ fired[c] # {}
    BY <2>1, <2>2
  <2> QED
    BY <2>2, <2>3 DEF WhenInv, FiredInv
<1>6. \/ UNCHANGED <<fired, count, winner, kind, out>>
      \/ \E c \in Calls, again \in BOOLEAN, ops \in Inputs : WhenAll(c, again, ops) \/ WhenAny(c, again, ops)
      \/ \E w \in Workers, c \in Calls : SetException(w, c) \/ SetValue(w, c)
      \/ \E c \in Calls : \E i \in DOMAIN in[c] : Fire(c, i) \/ SetAny(c, i)
  BY DEF WhenNext, WorkerStep, AnyStep, whenvars, Schedule, Take, EndOp, NextInput
<1> QED
  BY <1>1, <1>2, <1>3, <1>4, <1>5, <1>6

LEMMA RetStep ==
  ASSUME WhenInv, [WhenNext]_whenvars
  PROVE  RetInv'
<1> USE Sets DEF operations, pool, args, progress
<1> DEFINE Read(c) == /\ Len(ret[c]) <= Len(in[c])
                      /\ \A i \in 1..Len(ret[c]) :
                           /\ Over(in[c][i]) /\ (ret[c][i] = None <=> state[in[c][i]] = "failed")
                           /\ rethrow[c] => state[in[c][i]] = "ok"
<1>1. \A c \in Calls : /\ Len(ret[c]) \in Nat /\ Len(in[c]) \in Nat
                       /\ \A i \in 1..Len(in[c]) : in[c][i] \in Ops
  BY SeqFacts DEF WhenInv, WhenTypeOK
<1>2. \A o \in Ops : Over(o) => Over(o)' /\ state'[o] = state[o]
  BY OverStays DEF Over
<1>3. ASSUME NEW d \in Calls, ret'[d] = ret[d], in'[d] = in[d], rethrow'[d] = rethrow[d] PROVE Read(d)'
  BY <1>1, <1>2, <1>3 DEF WhenInv, RetInv, Over
<1>4. ASSUME UNCHANGED <<ret, args>> PROVE RetInv'
  BY <1>3, <1>4 DEF WhenInv, RetInv
<1>5. ASSUME NEW c \in Calls, NEW again \in BOOLEAN, NEW ops \in Inputs,
             WhenAll(c, again, ops) \/ WhenAny(c, again, ops)
      PROVE  RetInv'
  <2>1. kind[c] # "all" /\ ret' = ret
    BY <1>5 DEF WhenAll, WhenAny, Ask, Asked
  <2>2. ret[c] = <<>> /\ Len(ret'[c]) = 0
    BY <2>1, EmptySeq DEF WhenInv, RetInv
  <2>3. /\ in'[c] = ops /\ \A d \in Calls : d # c =>
             kind'[d] = kind[d] /\ in'[d] = in[d] /\ rethrow'[d] = rethrow[d]
    BY <1>5 DEF WhenAll, WhenAny, Ask, WhenInv, WhenTypeOK
  <2>4. Len(in'[c]) \in Nat
    BY <2>3, InputFacts, LenProperties
  <2>5. Read(c)'
    BY <2>2, <2>4
  <2>6. \A d \in Calls : Read(d)'
    BY <1>3, <2>1, <2>3, <2>5
  <2>7. \A d \in Calls : kind'[d] # "all" => ret'[d] = <<>>
    BY <2>1, <2>2, <2>3 DEF WhenInv, RetInv
  <2> QED
    BY <2>6, <2>7 DEF RetInv
<1>6. ASSUME NEW w \in Workers, NEW c \in Calls, NextInput(w, c) PROVE RetInv'
  <2> DEFINE n == Len(ret[c])
             o == in[c][n + 1]
             r == IF state[o] = "ok" THEN o ELSE None
  <2>1. Posted(c) /\ n < Len(in[c]) /\ Over(o) /\ ~(rethrow[c] /\ state[o] = "failed")
    BY <1>6 DEF NextInput, Running, Input, Rethrown, Posted
  <2>2. kind[c] = "all" /\ o \in Ops /\ n \in Nat
    BY <2>1, <1>1 DEF WhenInv, PostedInv
  <2>3. UNCHANGED <<state, in, rethrow, kind>> /\ ret' = [ret EXCEPT ![c] = Append(ret[c], r)]
    BY <1>6 DEF NextInput, Input
  <2>4. ret[c] \in Seq(Ops \cup {None}) /\ r \in Ops \cup {None}
    BY <2>2 DEF WhenInv, WhenTypeOK
  <2>5. /\ ret'[c] = Append(ret[c], r) /\ Len(ret'[c]) = n + 1
        /\ \A d \in Calls : d # c => ret'[d] = ret[d]
        /\ \A i \in 1..n : ret'[c][i] = ret[c][i]
        /\ ret'[c][n + 1] = r
    BY <2>3, <2>4, AppendFacts DEF WhenInv, WhenTypeOK
  <2>6. /\ Over(o) /\ (r = None <=> state[o] = "failed")
        /\ rethrow[c] => state[o] = "ok"
    BY <2>1, <2>2 DEF Over
  <2>7. n + 1 <= Len(in[c]) /\ \A i \in 1..(n + 1) : i \in 1..n \/ i = n + 1
    BY <1>1, <2>1, <2>2
  <2>8. Read(c)
    BY DEF WhenInv, RetInv
  <2> HIDE DEF r
  <2>9. Read(c)'
    BY <2>3, <2>5, <2>6, <2>7, <2>8 DEF Over
  <2>10. \A d \in Calls : Read(d)'
    BY <1>3, <2>3, <2>5, <2>9
  <2>11. \A d \in Calls : kind'[d] # "all" => ret'[d] = <<>>
    BY <2>2, <2>3, <2>5 DEF WhenInv, RetInv
  <2> QED
    BY <2>10, <2>11 DEF RetInv
<1>7. \/ UNCHANGED <<ret, args>>
      \/ \E c \in Calls, again \in BOOLEAN, ops \in Inputs : WhenAll(c, again, ops) \/ WhenAny(c, again, ops)
      \/ \E w \in Workers, c \in Calls : NextInput(w, c)
  BY DEF WhenNext, WorkerStep, AnyStep, whenvars, Schedule, Take, EndOp, SetException, SetValue, Fire, SetAny
<1> QED
  BY <1>4, <1>5, <1>6, <1>7

LEMMA OutStep ==
  ASSUME WhenInv, [WhenNext]_whenvars
  PROVE  OutInv'
<1> USE Sets DEF operations, pool, args, progress
<1> DEFINE Told(c) ==
      /\ out[c] = <<"value">> => Len(ret[c]) = Len(in[c])
      /\ out[c] = <<"exception">> =>
           rethrow[c] /\ \E i \in 1..Len(in[c]) : state[in[c][i]] = "failed"
<1>1. \A c \in Calls : Len(in[c]) \in Nat /\ \A i \in 1..Len(in[c]) : in[c][i] \in Ops
  BY SeqFacts DEF WhenInv, WhenTypeOK
<1>2. \A o \in Ops : state[o] = "failed" => state'[o] = "failed"
  BY OverStays DEF Over
<1>3. ASSUME NEW d \in Calls, out'[d] = out[d], ret'[d] = ret[d], in'[d] = in[d],
             rethrow'[d] = rethrow[d], kind[d] = "all"
      PROVE  Told(d)'
  BY <1>1, <1>2, <1>3 DEF WhenInv, OutInv
<1>4. ASSUME UNCHANGED <<out, ret, args>> PROVE OutInv'
  BY <1>3, <1>4 DEF OutInv
<1>5. ASSUME NEW c \in Calls, NEW again \in BOOLEAN, NEW ops \in Inputs,
             WhenAll(c, again, ops) \/ WhenAny(c, again, ops)
      PROVE  OutInv'
  <2>1. out' = out /\ ret' = ret /\ out[c] = <<>>
    BY <1>5 DEF WhenAll, WhenAny, Ask, Asked, WhenInv, FiredInv
  <2>2. Told(c)'
    BY <2>1
  <2>3. \A d \in Calls : d # c =>
             kind'[d] = kind[d] /\ in'[d] = in[d] /\ rethrow'[d] = rethrow[d]
    BY <1>5 DEF WhenAll, WhenAny, Ask, WhenInv, WhenTypeOK
  <2> QED
    BY <1>3, <2>1, <2>2, <2>3 DEF OutInv
<1>6. ASSUME NEW w \in Workers, NEW c \in Calls, NextInput(w, c) PROVE OutInv'
  <2>1. Posted(c)
    BY <1>6 DEF NextInput, Running, Posted
  <2>2. out[c] = <<>> /\ UNCHANGED <<out, args>> /\ \A d \in Calls : d # c => ret'[d] = ret[d]
    BY <1>6, <2>1 DEF NextInput, WhenInv, PostedInv, WhenTypeOK
  <2>3. Told(c)'
    BY <2>2
  <2> QED
    BY <1>3, <2>2, <2>3 DEF OutInv
<1>7. ASSUME NEW w \in Workers, NEW c \in Calls, SetException(w, c) \/ SetValue(w, c) PROVE OutInv'
  <2>1. Posted(c)
    BY <1>7 DEF SetException, SetValue, Running, Posted
  <2>2. out[c] = <<>> /\ UNCHANGED <<ret, args, state>> /\ \A d \in Calls : d # c => out'[d] = out[d]
    BY <1>7, <2>1 DEF SetException, SetValue, Set, WhenInv, PostedInv, WhenTypeOK
  <2>3. CASE SetValue(w, c)
    <3>1. out'[c] = <<"value">> /\ Len(ret[c]) = Len(in[c])
      BY <2>2, <2>3 DEF SetValue, Set, WhenInv, WhenTypeOK
    <3> QED
      BY <1>3, <2>2, <3>1 DEF OutInv
  <2>4. CASE SetException(w, c)
    <3>1. /\ out'[c] = <<"exception">> /\ rethrow[c] /\ state[Input(c)] = "failed"
          /\ Len(ret[c]) < Len(in[c])
      BY <2>2, <2>4 DEF SetException, Set, Running, Rethrown, WhenInv, WhenTypeOK
    <3>2. Len(ret[c]) + 1 \in 1..Len(in[c])
      BY <3>1, <1>1, SeqFacts DEF WhenInv, WhenTypeOK
    <3>3. Told(c)'
      BY <2>2, <3>1, <3>2 DEF Input
    <3> QED
      BY <1>3, <2>2, <3>3 DEF OutInv
  <2> QED
    BY <1>7, <2>3, <2>4
<1>8. ASSUME NEW c \in Calls, NEW i \in DOMAIN in[c], SetAny(c, i) PROVE OutInv'
  <2>1. kind[c] # "all"
    BY <1>8 DEF SetAny, WhenInv, FiredInv
  <2>2. UNCHANGED <<ret, args>> /\ \A d \in Calls : d # c => out'[d] = out[d]
    BY <1>8 DEF SetAny, Set, WhenInv, WhenTypeOK
  <2> QED
    BY <1>3, <2>1, <2>2 DEF OutInv
<1>9. \/ UNCHANGED <<out, ret, args>>
      \/ \E c \in Calls, again \in BOOLEAN, ops \in Inputs : WhenAll(c, again, ops) \/ WhenAny(c, again, ops)
      \/ \E w \in Workers, c \in Calls : NextInput(w, c) \/ SetException(w, c) \/ SetValue(w, c)
      \/ \E c \in Calls : \E i \in DOMAIN in[c] : SetAny(c, i)
  BY DEF WhenNext, WorkerStep, AnyStep, whenvars, Schedule, Take, EndOp, Fire
<1> QED
  BY <1>4, <1>5, <1>6, <1>7, <1>8, <1>9

-----------------------------------------------------------------------------
(***************************************************************************)
(* The promise of either call is set once only, whatever the inputs and    *)
(* the other calls do, and an answer of when_all_p() says what became of   *)
(* every input.                                                            *)
(***************************************************************************)
THEOREM WhenCorrect == WhenSpec => [](WhenTypeOK /\ SetOnce /\ AllTells)
<1>1. WhenInv /\ [WhenNext]_whenvars => WhenInv'
  BY WhenTypeStep, PostedStep, FiredStep, RetStep, OutStep DEF WhenInv
<1>2. WhenInv => WhenTypeOK /\ SetOnce
  BY DEF WhenInv, FiredInv, SetOnce
<1>3. WhenInv => AllTells
  <2> SUFFICES ASSUME WhenInv, NEW c \in Calls, kind[c] = "all"
               PROVE  LET failed == {i \in DOMAIN in[c] : state[in[c][i]] = "failed"} IN
                      /\ out[c] = <<"value">> =>
                           /\ \A i \in DOMAIN in[c] : Over(in[c][i]) /\ (ret[c][i] = None <=> i \in failed)
                           /\ rethrow[c] => failed = {}
                      /\ out[c] = <<"exception">> => rethrow[c] /\ failed # {}
    BY DEF AllTells
  <2>1. DOMAIN in[c] = 1..Len(in[c])
    BY SeqFacts DEF WhenInv, WhenTypeOK
  <2>2. /\ out[c] = <<"value">> => Len(ret[c]) = Len(in[c])
        /\ out[c] = <<"exception">> =>
             rethrow[c] /\ \E i \in 1..Len(in[c]) : state[in[c][i]] = "failed"
    BY DEF WhenInv, OutInv
  <2>3. \A i \in 1..Len(ret[c]) :
           /\ Over(in[c][i]) /\ (ret[c][i] = None <=> state[in[c][i]] = "failed")
           /\ rethrow[c] => state[in[c][i]] = "ok"
    BY DEF WhenInv, RetInv
  <2> QED
    BY <2>1, <2>2, <2>3
<1> QED
  BY WhenInitInv, <1>1, <1>2, <1>3, PTL DEF WhenSpec
=============================================================================
