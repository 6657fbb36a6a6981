--------------------------- MODULE OpEngineProofs ---------------------------
(* Proofs about OpEngine for every number of operations and threads.       *)
EXTENDS OpEngine, TLAPS

(***************************************************************************)
(* While a call is inside chain_async_op(), it has an id.                  *)
(***************************************************************************)
SchedulingInv ==
  \A c \in Clients : callAt[c] \in {"insert", "enqueue"} => scheduling[c] \in OpId

TypeInv == TypeOK /\ SchedulingInv

LEMMA PushType ==
  ASSUME NEW s \in Seq(Frame), NEW fn \in {"body", "complete"}, NEW o \in OpId
  PROVE  <<[fn |-> fn, op |-> o]>> \o s \in Seq(Frame)
  BY DEF Frame

LEMMA PopType ==
  ASSUME NEW s \in Seq(Frame), s # <<>>
  PROVE  Tail(s) \in Seq(Frame)
  OBVIOUS

\* The data of the state stay in their types, and a call that is inserting
\* or queueing has an id.
THEOREM TypeInvariant == Spec => []TypeInv
<1>1. Init => TypeInv
  <2> SUFFICES ASSUME Init PROVE TypeInv
    OBVIOUS
  <2>1. monotoniccount \in 0..MaxOps
    BY EngineAssumption DEF EngineAssumption, Init
  <2>2. /\ bound \in [OpId -> Binding]
        /\ scheduling \in [Clients -> OpId \cup {NoOp}]
    BY DEF Init, Binding
  <2>3. stack \in [Thread -> Seq(Frame)]
    BY DEF Init
  <2>4. SchedulingInv
    BY DEF Init, SchedulingInv
  <2> QED
    BY <2>1, <2>2, <2>3, <2>4
       DEF Init, TypeInv, TypeOK, Outcome, CallLabel, BodyLabel, CompleteLabel
<1>2. TypeInv /\ [Next]_vars => TypeInv'
  <2> SUFFICES ASSUME TypeInv, [Next]_vars PROVE TypeInv'
    OBVIOUS
  <2> USE DEF TypeInv, TypeOK, SchedulingInv, CallLabel, BodyLabel, CompleteLabel,
          Outcome, opVars, callVars, frameVars, Thread
  <2>1. ASSUME NEW c \in Clients, NextItem(c) PROVE TypeInv'
    <3>1. monotoniccount' \in 0..MaxOps /\ monotoniccount' \in OpId
      BY <2>1, EngineAssumption DEF EngineAssumption, NextItem, OpId
    <3>2. bound' \in [OpId -> Binding]
      BY <2>1, <3>1 DEF NextItem
    <3>3. /\ callAt' \in [Clients -> CallLabel]
          /\ scheduling' \in [Clients -> OpId \cup {NoOp}]
          /\ SchedulingInv'
      BY <2>1, <3>1 DEF NextItem
    <3> QED
      BY <2>1, <3>1, <3>2, <3>3 DEF NextItem
  <2>2. ASSUME NEW c \in Clients, Insert(c) PROVE TypeInv'
    <3>1. scheduling[c] \in OpId
      BY <2>2 DEF Insert
    <3> DEFINE o == scheduling[c]
    <3>2. CASE Pre(o) \in ops
      <4>1. /\ completions' = [completions EXCEPT ![Pre(o)] = @ \cup {o}]
            /\ batch' = [batch EXCEPT ![c] = @ \cup {o}]
            /\ callAt' = [callAt EXCEPT ![c] = "next"]
            /\ scheduling' = [scheduling EXCEPT ![c] = NoOp]
        BY <2>2, <3>2 DEF Insert, StillInFlight
      <4>2. completions' \in [OpId -> SUBSET OpId]
        BY <3>1, <4>1
      <4> QED
        BY <2>2, <3>1, <4>1, <4>2 DEF Insert
    <3>3. CASE Pre(o) \notin ops
      <4>1. /\ UNCHANGED <<completions, batch, scheduling>>
            /\ callAt' = [callAt EXCEPT ![c] = "enqueue"]
        BY <2>2, <3>3 DEF Insert, StillInFlight
      <4> QED
        BY <2>2, <3>1, <4>1 DEF Insert
    <3> QED
      BY <3>2, <3>3
  <2>3. ASSUME NEW c \in Clients, Enqueue(c) PROVE TypeInv'
    <3>1. scheduling[c] \in OpId
      BY <2>3 DEF Enqueue
    <3>2. /\ pool' \in SUBSET OpId
          /\ toexecute' \in [Clients -> SUBSET OpId]
      BY <2>3, <3>1 DEF Enqueue
    <3> QED
      BY <2>3, <3>1, <3>2 DEF Enqueue
  <2>4. ASSUME NEW c \in Clients, ChainThrows(c) PROVE TypeInv'
    BY <2>4 DEF ChainThrows
  <2>5. ASSUME NEW c \in Clients, EndItems(c) PROVE TypeInv'
    BY <2>5 DEF EndItems
  <2>6. ASSUME NEW c \in Clients, RunCallImmediate(c) PROVE TypeInv'
    BY <2>6, PushType DEF RunCallImmediate, StartBody, Push
  <2>7. ASSUME NEW c \in Clients, EndCall(c) PROVE TypeInv'
    BY <2>7 DEF EndCall
  <2>8. ASSUME NEW c \in Clients, NEW o \in OpId, UserCompletes(c, o) PROVE TypeInv'
    BY <2>8, PushType DEF UserCompletes, CallComplete, Push
  <2>9. ASSUME NEW w \in Workers, RunWorker(w) PROVE TypeInv'
    BY <2>9, PushType DEF RunWorker, StartBody, Push
  <2>10. ASSUME NEW t \in Thread, NEW o \in OpId, BodyReturns(t, o) PROVE TypeInv'
    BY <2>10, PushType DEF BodyReturns, BodyOutcome, CallComplete, Push
  <2>11. ASSUME NEW t \in Thread, NEW o \in OpId, BodyDefers(t, o) PROVE TypeInv'
    BY <2>11 DEF BodyDefers
  <2>12. ASSUME NEW t \in Thread, NEW o \in OpId, BodyEnds(t, o) PROVE TypeInv'
    <3>1. stack' \in [Thread -> Seq(Frame)]
      BY <2>12, PopType DEF BodyEnds, Pop, On
    <3> QED
      BY <2>12, <3>1 DEF BodyEnds
  <2>13. ASSUME NEW t \in Thread, NEW o \in OpId, Extract(t, o) PROVE TypeInv'
    <3>1. CASE o \in ops
      <4>1. /\ ops' = ops \ {o}
            /\ detached' = [detached EXCEPT ![o] = completions[o]]
            /\ completions' = [completions EXCEPT ![o] = {}]
            /\ completeAt' = [completeAt EXCEPT ![o] = "set"]
            /\ UNCHANGED fatal
        BY <2>13, <3>1, Zenon DEF Extract
      <4>2. UNCHANGED <<opVars, future, pool, callVars, deferred, stack, bodyAt,
                        outcome>>
        BY <2>13, Zenon DEF Extract
      <4> QED
        BY <4>1, <4>2
    <3>2. CASE o \notin ops
      BY <2>13, <3>2 DEF Extract
    <3> QED
      BY <3>1, <3>2
  <2>14. ASSUME NEW t \in Thread, NEW o \in OpId, SetFuture(t, o) PROVE TypeInv'
    BY <2>14 DEF SetFuture
  <2>15. ASSUME NEW t \in Thread, NEW o \in OpId, RunFilters(t, o) PROVE TypeInv'
    BY <2>15 DEF RunFilters
  <2>16. ASSUME NEW t \in Thread, NEW o \in OpId, Issue(t, o) PROVE TypeInv'
    <3>1. PICK d \in detached[o] : detached' = [detached EXCEPT ![o] = @ \ {d}]
                                  /\ pool' = pool \cup {d}
      BY <2>16 DEF Issue
    <3> QED
      BY <2>16, <3>1 DEF Issue
  <2>17. ASSUME NEW t \in Thread, NEW o \in OpId, RunImmediate(t, o) PROVE TypeInv'
    BY <2>17, PushType DEF RunImmediate, StartBody, Push
  <2>18. ASSUME NEW t \in Thread, NEW o \in OpId, CompleteReturns(t, o) PROVE TypeInv'
    <3>1. stack' \in [Thread -> Seq(Frame)]
      BY <2>18, PopType DEF CompleteReturns, Pop, On
    <3> QED
      BY <2>18, <3>1 DEF CompleteReturns
  <2>19. CASE UNCHANGED vars
    BY <2>19 DEF vars
  <2> QED
    BY <2>1, <2>2, <2>3, <2>4, <2>5, <2>6, <2>7, <2>8, <2>9, <2>10, <2>11, <2>12,
       <2>13, <2>14, <2>15, <2>16, <2>17, <2>18, <2>19
       DEF Next, CallStep, FrameStep, Quiescent
<1> QED
  BY <1>1, <1>2, PTL DEF Spec

-----------------------------------------------------------------------------
(***************************************************************************)
(* The step lemma for EngineInv, one lemma per group of actions. In each,  *)
(* the first facts say how the places an operation may be held in change.  *)
(***************************************************************************)

LEMMA NextItemInv ==
  ASSUME TypeInv, EngineInv, NEW c \in Clients, NextItem(c)
  PROVE  EngineInv'
<1> DEFINE n == monotoniccount + 1
<1>1. /\ n \in OpId /\ monotoniccount' = n /\ n \notin ops
      /\ completeAt[n] = "none"
      /\ scheduling' = [scheduling EXCEPT ![c] = n]
      /\ callAt' = [callAt EXCEPT ![c] = "insert"]
      /\ callAt[c] \in {"idle", "next"}
      /\ UNCHANGED <<ops, completions, detached, pool, toexecute, deferred,
                     bodyAt, completeAt, fatal>>
  BY EngineAssumption
     DEF EngineAssumption, NextItem, TypeInv, TypeOK, EngineInv, CallInv, FreshIds,
         OpId, frameVars
<1>2. \A o \in OpId : o # n => bound'[o] = bound[o]
  BY DEF NextItem, TypeInv, TypeOK
<1>3. ~Held(n)
  BY <1>1 DEF EngineInv, HeldInv
<1>4. \A p \in OpId : n \notin completions[p] /\ n \notin detached[p]
  BY <1>1, <1>3 DEF Held, Chained, Detached, EngineInv, ChainInv
<1>5. ChainInv'
  BY <1>1, <1>2, <1>4 DEF EngineInv, ChainInv, Pre
<1>6. CallInv'
  <2>1. FreshIds'
    <3>1. monotoniccount \in Int /\ n > monotoniccount
      BY DEF TypeInv, TypeOK
    <3>2. \A o \in OpId : o \in Int
      BY EngineAssumption DEF OpId
    <3>3. \A o \in ops : o <= n /\ completeAt[o] \in {"none", "extract"}
      BY <3>1, <3>2 DEF EngineInv, CallInv, FreshIds, TypeInv, TypeOK
    <3>4. \A o \in OpId : o > n => completeAt[o] = "none"
      BY <3>1, <3>2 DEF EngineInv, CallInv, FreshIds
    <3>5. ASSUME NEW d \in Clients PROVE scheduling'[d] <= n
      <4>1. scheduling[d] \in Int /\ scheduling[d] <= monotoniccount
        BY <3>2 DEF EngineInv, CallInv, FreshIds, TypeInv, TypeOK, NoOp
      <4>2. scheduling'[d] \in {n, scheduling[d]}
        BY <1>1 DEF TypeInv, TypeOK
      <4> QED
        BY <3>1, <4>1, <4>2
    <3> QED
      BY <1>1, <3>3, <3>4, <3>5 DEF FreshIds
  <2>2. FreshCalls'
    <3> SUFFICES ASSUME NEW d \in Clients, callAt'[d] = "insert"
                 PROVE  scheduling'[d] \notin ops /\ completeAt[scheduling'[d]] = "none"
      BY <1>1 DEF FreshCalls
    <3>1. CASE d = c
      BY <1>1, <3>1 DEF TypeInv, TypeOK
    <3>2. CASE d # c
      BY <1>1, <3>2 DEF EngineInv, CallInv, FreshCalls, TypeInv, TypeOK
    <3> QED
      BY <3>1, <3>2
  <2>3. \A d \in Clients : scheduling[d] # n
    BY <1>1 DEF EngineInv, CallInv, FreshIds, TypeInv, TypeOK, NoOp, OpId
  <2>4. DistinctCalls'
    BY <1>1, <2>3 DEF EngineInv, CallInv, DistinctCalls, TypeInv, TypeOK
  <2> QED
    BY <1>1, <2>1, <2>2, <2>4 DEF EngineInv, CallInv, DistinctImmediates
<1>7. \A o \in OpId : Queueing(o)' <=> Queueing(o)
  BY <1>1 DEF Queueing, TypeInv, TypeOK
<1>8. ASSUME NEW o \in OpId
      PROVE  /\ Chained(o)' <=> Chained(o)
             /\ Detached(o)' <=> Detached(o)
             /\ Immediate(o)' <=> Immediate(o)
             /\ Running(o)' <=> Running(o)
             /\ Completing(o)' <=> Completing(o)
  BY <1>1 DEF Chained, Detached, Immediate, Running, Completing
<1>9. HeldInv'
  BY <1>1, <1>7, <1>8 DEF EngineInv, HeldInv, Held, HeldTwice
<1>10. FuturesInv'
  <2>1. UNCHANGED <<futures, batch>>
    BY DEF NextItem
  <2>2. n \notin futures /\ \A d \in Clients : n \notin batch[d]
    BY <1>1 DEF EngineInv, FuturesInv, TypeInv, TypeOK
  <2>3. bound'[n].pre \in futures \cup {NoOp}
    BY <1>1 DEF NextItem, TypeInv, TypeOK
  <2>4. \A o \in OpId : bound'[o].pre \in futures \cup {NoOp}
    BY <1>1, <1>2, <2>3 DEF EngineInv, FuturesInv, Pre
  <2>5. \A o \in OpId : o <= monotoniccount => o <= n
    BY EngineAssumption DEF EngineAssumption, OpId, TypeInv, TypeOK
  <2>6. /\ \A o \in futures : o <= n
        /\ \A d \in Clients : \A o \in batch[d] : o <= n
    BY <2>5 DEF EngineInv, FuturesInv, TypeInv, TypeOK
  <2>7. \A d \in Clients :
          callAt'[d] \in {"insert", "enqueue"} =>
            \/ d = c /\ scheduling'[d] = n
            \/ callAt[d] \in {"insert", "enqueue"} /\ scheduling'[d] = scheduling[d]
    BY <1>1 DEF TypeInv, TypeOK
  <2>8. \A d \in Clients :
          callAt'[d] \in {"insert", "enqueue"} =>
            /\ scheduling'[d] \notin futures
            /\ \A e \in Clients : scheduling'[d] \notin batch[e]
    BY <2>2, <2>7 DEF EngineInv, FuturesInv
  <2> QED
    BY <1>1, <2>1, <2>4, <2>6, <2>8 DEF FuturesInv, Pre
<1> QED
  BY <1>1, <1>5, <1>6, <1>9, <1>10 DEF EngineInv

\* An operation that is chained or queued joins the call's batch.
LEMMA QueuedFuturesInv ==
  ASSUME TypeInv, EngineInv, NEW c \in Clients,
         callAt[c] \in {"insert", "enqueue"},
         \A d \in Clients : d # c /\ callAt[d] \in {"insert", "enqueue"} =>
                             scheduling[d] # scheduling[c],
         batch' = [batch EXCEPT ![c] = @ \cup {scheduling[c]}],
         callAt' = [callAt EXCEPT ![c] = "next"],
         scheduling' = [scheduling EXCEPT ![c] = NoOp],
         UNCHANGED <<monotoniccount, bound, futures>>
  PROVE  FuturesInv'
<1> DEFINE o == scheduling[c]
<1>1. \A d \in Clients : \A q \in batch'[d] : q \in batch[d] \/ q = o
  BY DEF TypeInv, TypeOK
<1>2. o <= monotoniccount
  BY DEF EngineInv, CallInv, FreshIds
<1>3. \A d \in Clients :
        callAt'[d] \in {"insert", "enqueue"} =>
          callAt[d] \in {"insert", "enqueue"} /\ scheduling'[d] = scheduling[d] /\ d # c
  BY DEF TypeInv, TypeOK
<1>4. \A d \in Clients : \A q \in batch'[d] : q <= monotoniccount
  BY <1>1, <1>2 DEF EngineInv, FuturesInv
<1>5. \A d \in Clients :
        callAt'[d] \in {"insert", "enqueue"} =>
          /\ scheduling'[d] \notin futures
          /\ \A e \in Clients : scheduling'[d] \notin batch'[e]
  BY <1>1, <1>3 DEF EngineInv, FuturesInv
<1> QED
  BY <1>4, <1>5 DEF EngineInv, FuturesInv, Pre

LEMMA InsertInv ==
  ASSUME TypeInv, EngineInv, NEW c \in Clients, Insert(c)
  PROVE  EngineInv'
<1> DEFINE o == scheduling[c]
<1>1. /\ callAt[c] = "insert" /\ o \in OpId /\ ops' = ops \cup {o}
      /\ o \notin ops /\ completeAt[o] = "none" /\ o <= monotoniccount
      /\ UNCHANGED <<monotoniccount, bound, detached, pool, toexecute, deferred,
                     bodyAt, completeAt, fatal>>
  BY DEF Insert, TypeInv, TypeOK, SchedulingInv, EngineInv, CallInv, FreshCalls,
         FreshIds, opVars, frameVars
<1>2. ~Held(o)
  BY <1>1 DEF EngineInv, HeldInv
<1>3. \A q \in OpId : q \notin completions[o]
  BY <1>1 DEF EngineInv, ChainInv
<1>4. \A d \in Clients : d # c /\ callAt[d] \in {"insert", "enqueue"} => scheduling[d] # o
  BY <1>1 DEF EngineInv, CallInv, DistinctCalls
<1>5. FreshIds'
  <2>1. \A q \in ops' : q <= monotoniccount' /\ completeAt'[q] \in {"none", "extract"}
    BY <1>1 DEF EngineInv, CallInv, FreshIds
  <2>2. ASSUME NEW d \in Clients PROVE scheduling'[d] <= monotoniccount'
    <3>1. scheduling'[d] \in {NoOp, scheduling[d]}
      BY DEF Insert, TypeInv, TypeOK
    <3>2. NoOp <= monotoniccount
      BY DEF TypeInv, TypeOK, NoOp
    <3> QED
      BY <1>1, <3>1, <3>2 DEF EngineInv, CallInv, FreshIds
  <2> QED
    BY <1>1, <2>1, <2>2 DEF EngineInv, CallInv, FreshIds
<1>6. ASSUME NEW q \in OpId
      PROVE  /\ Detached(q)' <=> Detached(q)
             /\ Immediate(q)' <=> Immediate(q)
             /\ Running(q)' <=> Running(q)
             /\ Completing(q)' <=> Completing(q)
  BY <1>1 DEF Detached, Immediate, Running, Completing
<1>7. CASE StillInFlight(Pre(o))
  <2>0. FuturesInv'
    BY <1>1, <1>4, <1>7, QueuedFuturesInv DEF Insert, StillInFlight, opVars
  <2>1. /\ Pre(o) \in ops /\ Pre(o) \in OpId
        /\ completions' = [completions EXCEPT ![Pre(o)] = @ \cup {o}]
        /\ callAt' = [callAt EXCEPT ![c] = "next"]
        /\ scheduling' = [scheduling EXCEPT ![c] = NoOp]
    BY <1>7 DEF Insert, StillInFlight, TypeInv, TypeOK
  <2>2. ChainInv'
    BY <1>1, <1>3, <2>1 DEF EngineInv, ChainInv, Pre, TypeInv, TypeOK
  <2>3. /\ FreshCalls'
        /\ DistinctCalls'
    BY <1>1, <1>4, <2>1 DEF EngineInv, CallInv, FreshCalls, DistinctCalls, TypeInv, TypeOK
  <2>4. ASSUME NEW q \in OpId
        PROVE  /\ Chained(q)' <=> (Chained(q) \/ q = o)
               /\ Queueing(q)' <=> Queueing(q)
    BY <1>1, <1>3, <2>1 DEF Chained, Queueing, TypeInv, TypeOK
  <2>5. HeldInv'
    BY <1>1, <1>2, <1>6, <2>4 DEF EngineInv, HeldInv, Held, HeldTwice
  <2> QED
    BY <1>1, <1>5, <2>0, <2>2, <2>3, <2>5 DEF EngineInv, CallInv, DistinctImmediates
<1>8. CASE ~StillInFlight(Pre(o))
  <2>0. FuturesInv'
    <3>1. /\ callAt' = [callAt EXCEPT ![c] = "enqueue"]
          /\ UNCHANGED <<batch, scheduling, futures, monotoniccount, bound>>
      BY <1>8 DEF Insert, StillInFlight, opVars
    <3> QED
      BY <1>1, <3>1 DEF EngineInv, FuturesInv, Pre, TypeInv, TypeOK
  <2>1. /\ callAt' = [callAt EXCEPT ![c] = "enqueue"]
        /\ UNCHANGED <<completions, scheduling>>
    BY <1>8 DEF Insert, StillInFlight
  <2>2. ChainInv'
    BY <1>1, <2>1 DEF EngineInv, ChainInv, Pre
  <2>3. /\ FreshCalls'
        /\ DistinctCalls'
    BY <1>1, <1>4, <2>1 DEF EngineInv, CallInv, FreshCalls, DistinctCalls, TypeInv, TypeOK
  <2>4. ASSUME NEW q \in OpId
        PROVE  /\ Chained(q)' <=> Chained(q)
               /\ Queueing(q)' <=> (Queueing(q) \/ q = o)
    BY <1>1, <1>3, <2>1 DEF Chained, Queueing, TypeInv, TypeOK
  <2>5. HeldInv'
    BY <1>1, <1>2, <1>6, <2>4 DEF EngineInv, HeldInv, Held, HeldTwice
  <2> QED
    BY <1>1, <1>5, <2>0, <2>2, <2>3, <2>5 DEF EngineInv, CallInv, DistinctImmediates
<1> QED
  BY <1>7, <1>8

LEMMA EnqueueInv ==
  ASSUME TypeInv, EngineInv, NEW c \in Clients, Enqueue(c)
  PROVE  EngineInv'
<1> DEFINE o == scheduling[c]
<1>1. /\ callAt[c] = "enqueue" /\ o \in OpId
      /\ callAt' = [callAt EXCEPT ![c] = "next"]
      /\ scheduling' = [scheduling EXCEPT ![c] = NoOp]
      /\ UNCHANGED <<monotoniccount, ops, bound, completions, detached, deferred,
                     bodyAt, completeAt, fatal>>
  BY DEF Enqueue, TypeInv, TypeOK, SchedulingInv, opVars, frameVars
<1>2. Queueing(o)
  BY <1>1 DEF Queueing
<1>3. /\ o \in ops /\ ~Chained(o) /\ ~Detached(o) /\ ~Immediate(o) /\ o \notin pool
      /\ ~Running(o) /\ o \notin deferred /\ ~Completing(o)
  BY <1>1, <1>2 DEF EngineInv, HeldInv, Held, HeldTwice
<1>4. \A d \in Clients : d # c /\ callAt[d] \in {"insert", "enqueue"} => scheduling[d] # o
  BY <1>1 DEF EngineInv, CallInv, DistinctCalls
<1>5. FreshIds'
  <2>1. ASSUME NEW d \in Clients PROVE scheduling'[d] <= monotoniccount'
    <3>1. scheduling'[d] \in {NoOp, scheduling[d]}
      BY <1>1 DEF TypeInv, TypeOK
    <3>2. NoOp <= monotoniccount
      BY DEF TypeInv, TypeOK, NoOp
    <3> QED
      BY <1>1, <3>1, <3>2 DEF EngineInv, CallInv, FreshIds
  <2> QED
    BY <1>1, <2>1 DEF EngineInv, CallInv, FreshIds
<1>6. ChainInv' /\ FreshCalls' /\ DistinctCalls'
  BY <1>1 DEF EngineInv, ChainInv, Pre, CallInv, FreshCalls, DistinctCalls, TypeInv, TypeOK
<1>7. FuturesInv'
  BY <1>1, <1>4, QueuedFuturesInv DEF Enqueue, opVars
<1>8. ASSUME NEW q \in OpId
      PROVE  /\ Chained(q)' <=> Chained(q)
             /\ Detached(q)' <=> Detached(q)
             /\ Running(q)' <=> Running(q)
             /\ Completing(q)' <=> Completing(q)
             /\ Queueing(q)' <=> (Queueing(q) /\ q # o)
  BY <1>1, <1>4 DEF Chained, Detached, Running, Completing, Queueing, TypeInv, TypeOK
<1>9. CASE bound[o].immediate
  <2>1. toexecute' = [toexecute EXCEPT ![c] = @ \cup {o}] /\ pool' = pool
    BY <1>9 DEF Enqueue
  <2>2. DistinctImmediates'
    BY <1>3, <2>1 DEF EngineInv, CallInv, DistinctImmediates, Immediate, TypeInv, TypeOK
  <2>3. ASSUME NEW q \in OpId PROVE Immediate(q)' <=> (Immediate(q) \/ q = o)
    BY <2>1 DEF Immediate, TypeInv, TypeOK
  <2>4. HeldInv'
    BY <1>1, <1>2, <1>3, <1>8, <2>1, <2>3 DEF EngineInv, HeldInv, Held, HeldTwice
  <2> QED
    BY <1>1, <1>5, <1>6, <1>7, <2>2, <2>4 DEF EngineInv, CallInv
<1>10. CASE ~bound[o].immediate
  <2>1. pool' = pool \cup {o} /\ toexecute' = toexecute
    BY <1>10 DEF Enqueue
  <2>2. ASSUME NEW q \in OpId PROVE Immediate(q)' <=> Immediate(q)
    BY <2>1 DEF Immediate
  <2>3. HeldInv'
    BY <1>1, <1>2, <1>3, <1>8, <2>1, <2>2 DEF EngineInv, HeldInv, Held, HeldTwice
  <2> QED
    BY <1>1, <1>5, <1>6, <1>7, <2>1, <2>3 DEF EngineInv, CallInv, DistinctImmediates
<1> QED
  BY <1>9, <1>10

LEMMA ChainThrowsInv ==
  ASSUME TypeInv, EngineInv, NEW c \in Clients, ChainThrows(c)
  PROVE  EngineInv'
<1> DEFINE o == scheduling[c]
<1>1. /\ callAt[c] \in {"insert", "enqueue"} /\ o \in OpId /\ ops' = ops \ {o}
      /\ callAt' = [callAt EXCEPT ![c] = "immediates"]
      /\ scheduling' = [scheduling EXCEPT ![c] = NoOp]
      /\ UNCHANGED <<monotoniccount, bound, completions, detached, pool, toexecute,
                     deferred, bodyAt, completeAt, fatal>>
  BY DEF ChainThrows, TypeInv, TypeOK, SchedulingInv, opVars, frameVars
<1>2. \/ Queueing(o)
      \/ o \notin ops
  BY <1>1 DEF Queueing, EngineInv, CallInv, FreshCalls
<1>3. /\ ~Chained(o) /\ ~Detached(o) /\ ~Immediate(o) /\ o \notin pool
      /\ ~Running(o) /\ o \notin deferred /\ ~Completing(o)
  BY <1>1, <1>2 DEF EngineInv, HeldInv, Held, HeldTwice
<1>4. \A d \in Clients : d # c /\ callAt[d] \in {"insert", "enqueue"} => scheduling[d] # o
  BY <1>1 DEF EngineInv, CallInv, DistinctCalls
<1>5. /\ completions[o] = {}
      /\ \A q \in OpId : o \notin completions[q]
  <2>1. o \notin futures /\ o # NoOp
    BY <1>1, EngineAssumption DEF EngineInv, FuturesInv, OpId, NoOp, EngineAssumption
  <2>2. \A q \in OpId : Pre(q) # o
    BY <2>1 DEF EngineInv, FuturesInv
  <2> QED
    BY <1>1, <1>3, <2>2 DEF EngineInv, ChainInv, Chained, TypeInv, TypeOK
<1>6. ChainInv'
  BY <1>1, <1>5 DEF EngineInv, ChainInv, Pre
<1>7. \A d \in Clients : callAt'[d] \in {"insert", "enqueue"} =>
        callAt[d] \in {"insert", "enqueue"} /\ d # c /\ callAt'[d] = callAt[d]
        /\ scheduling'[d] = scheduling[d]
  BY <1>1 DEF TypeInv, TypeOK
<1>8. FreshIds'
  <2>1. ASSUME NEW d \in Clients PROVE scheduling'[d] <= monotoniccount'
    <3>1. scheduling'[d] \in {NoOp, scheduling[d]}
      BY <1>1 DEF TypeInv, TypeOK
    <3>2. NoOp <= monotoniccount
      BY DEF TypeInv, TypeOK, NoOp
    <3> QED
      BY <1>1, <3>1, <3>2 DEF EngineInv, CallInv, FreshIds
  <2> QED
    BY <1>1, <2>1 DEF EngineInv, CallInv, FreshIds
<1>9. FreshCalls' /\ DistinctCalls'
  BY <1>1, <1>7 DEF EngineInv, CallInv, FreshCalls, DistinctCalls
<1>10. FuturesInv'
  <2>1. futures' = futures /\ batch' = [batch EXCEPT ![c] = {}]
    BY DEF ChainThrows
  <2>2. \A d \in Clients : \A q \in batch'[d] : q \in batch[d]
    BY <2>1 DEF TypeInv, TypeOK
  <2> QED
    BY <1>1, <1>7, <2>1, <2>2 DEF EngineInv, FuturesInv, Pre
<1>11. ASSUME NEW q \in OpId
       PROVE  /\ Chained(q)' <=> Chained(q)
              /\ Detached(q)' <=> Detached(q)
              /\ Immediate(q)' <=> Immediate(q)
              /\ Running(q)' <=> Running(q)
              /\ Completing(q)' <=> Completing(q)
              /\ Queueing(q)' <=> (Queueing(q) /\ q # o)
  <2>1. Chained(q)' <=> Chained(q)
    BY <1>1, <1>5 DEF Chained
  <2>2. Queueing(q)' <=> (Queueing(q) /\ q # o)
    BY <1>1, <1>4 DEF Queueing, TypeInv, TypeOK
  <2> QED
    BY <1>1, <2>1, <2>2 DEF Detached, Immediate, Running, Completing
<1>12. HeldInv'
  BY <1>1, <1>2, <1>3, <1>11 DEF EngineInv, HeldInv, Held, HeldTwice
<1> QED
  BY <1>1, <1>6, <1>8, <1>9, <1>10, <1>12 DEF EngineInv, CallInv, DistinctImmediates

LEMMA EndItemsInv ==
  ASSUME TypeInv, EngineInv, NEW c \in Clients, EndItems(c)
  PROVE  EngineInv'
<1>1. /\ callAt[c] = "next"
      /\ callAt' = [callAt EXCEPT ![c] = "immediates"]
      /\ UNCHANGED <<monotoniccount, ops, bound, completions, detached, pool,
                     scheduling, batch, toexecute, futures, deferred, bodyAt,
                     completeAt, fatal>>
  BY DEF EndItems, opVars, frameVars
<1>2. \A d \in Clients : \A l \in {"insert", "enqueue"} : callAt'[d] = l <=> callAt[d] = l
  BY <1>1 DEF TypeInv, TypeOK
<1>3. ChainInv' /\ CallInv'
  BY <1>1, <1>2 DEF EngineInv, ChainInv, Pre, CallInv, FreshIds, FreshCalls,
                    DistinctCalls, DistinctImmediates
<1>4. FuturesInv'
  BY <1>1, <1>2 DEF EngineInv, FuturesInv, Pre
<1>5. \A q \in OpId : Queueing(q)' <=> Queueing(q)
  BY <1>1, <1>2 DEF Queueing
<1>6. ASSUME NEW q \in OpId
      PROVE  /\ Chained(q)' <=> Chained(q)
             /\ Detached(q)' <=> Detached(q)
             /\ Immediate(q)' <=> Immediate(q)
             /\ Running(q)' <=> Running(q)
             /\ Completing(q)' <=> Completing(q)
  BY <1>1 DEF Chained, Detached, Immediate, Running, Completing
<1>7. HeldInv'
  BY <1>1, <1>5, <1>6 DEF EngineInv, HeldInv, Held, HeldTwice
<1> QED
  BY <1>1, <1>3, <1>4, <1>7 DEF EngineInv

LEMMA EndCallInv ==
  ASSUME TypeInv, EngineInv, NEW c \in Clients, EndCall(c)
  PROVE  EngineInv'
<1>1. /\ callAt[c] = "immediates"
      /\ futures' = futures \cup batch[c]
      /\ batch' = [batch EXCEPT ![c] = {}]
      /\ callAt' = [callAt EXCEPT ![c] = "idle"]
      /\ UNCHANGED <<monotoniccount, ops, bound, completions, detached, pool,
                     scheduling, toexecute, deferred, bodyAt, completeAt, fatal>>
  BY DEF EndCall, opVars, frameVars
<1>2. \A d \in Clients : \A l \in {"insert", "enqueue"} : callAt'[d] = l <=> callAt[d] = l
  BY <1>1 DEF TypeInv, TypeOK
<1>3. ChainInv' /\ CallInv'
  BY <1>1, <1>2 DEF EngineInv, ChainInv, Pre, CallInv, FreshIds, FreshCalls,
                    DistinctCalls, DistinctImmediates
<1>4. \A d \in Clients : \A q \in batch'[d] : q \in batch[d]
  BY <1>1 DEF TypeInv, TypeOK
<1>5. FuturesInv'
  BY <1>1, <1>2, <1>4 DEF EngineInv, FuturesInv, Pre
<1>6. \A q \in OpId : Queueing(q)' <=> Queueing(q)
  BY <1>1, <1>2 DEF Queueing
<1>7. ASSUME NEW q \in OpId
      PROVE  /\ Chained(q)' <=> Chained(q)
             /\ Detached(q)' <=> Detached(q)
             /\ Immediate(q)' <=> Immediate(q)
             /\ Running(q)' <=> Running(q)
             /\ Completing(q)' <=> Completing(q)
  BY <1>1 DEF Chained, Detached, Immediate, Running, Completing
<1>8. HeldInv'
  BY <1>1, <1>6, <1>7 DEF EngineInv, HeldInv, Held, HeldTwice
<1> QED
  BY <1>1, <1>3, <1>5, <1>8 DEF EngineInv

(***************************************************************************)
(* The steps inside a frame, and those that start one, leave the calls and *)
(* the futures alone.                                                      *)
(***************************************************************************)
LEMMA FuturesKept ==
  ASSUME EngineInv,
         UNCHANGED <<monotoniccount, bound, callAt, scheduling, batch, futures>>
  PROVE  FuturesInv'
  BY DEF EngineInv, FuturesInv, Pre

LEMMA RunCallImmediateInv ==
  ASSUME TypeInv, EngineInv, NEW c \in Clients, RunCallImmediate(c)
  PROVE  EngineInv'
<1>1. PICK o \in toexecute[c] :
        /\ toexecute' = [toexecute EXCEPT ![c] = @ \ {o}]
        /\ bodyAt' = [bodyAt EXCEPT ![o] = "running"]
  BY DEF RunCallImmediate, StartBody
<1>2. UNCHANGED <<monotoniccount, ops, bound, completions, detached, pool, callAt,
                  scheduling, batch, futures, deferred, completeAt, fatal>>
  BY DEF RunCallImmediate, opVars
<1>3. o \in OpId /\ Immediate(o)
  BY <1>1 DEF Immediate, TypeInv, TypeOK
<1>4. ~Running(o) /\ o \notin deferred /\ ~Completing(o) /\ o \in ops
  BY <1>3 DEF EngineInv, HeldInv, Held, HeldTwice
<1>5. \A d \in Clients : d # c => o \notin toexecute[d]
  BY <1>1, <1>3 DEF EngineInv, CallInv, DistinctImmediates
<1>6. ChainInv' /\ FreshIds' /\ FreshCalls' /\ DistinctCalls'
  BY <1>2 DEF EngineInv, ChainInv, Pre, CallInv, FreshIds, FreshCalls, DistinctCalls
<1>7. DistinctImmediates'
  BY <1>1 DEF EngineInv, CallInv, DistinctImmediates, TypeInv, TypeOK
<1>8. FuturesInv'
  BY <1>2, FuturesKept
<1>9. ASSUME NEW q \in OpId
      PROVE  /\ Chained(q)' <=> Chained(q)
             /\ Detached(q)' <=> Detached(q)
             /\ Queueing(q)' <=> Queueing(q)
             /\ Completing(q)' <=> Completing(q)
  BY <1>2 DEF Chained, Detached, Queueing, Completing
<1>10. \A q \in OpId : /\ Immediate(q)' <=> (Immediate(q) /\ q # o)
                       /\ Running(q)' <=> (Running(q) \/ q = o)
  BY <1>1, <1>3, <1>5 DEF Immediate, Running, TypeInv, TypeOK
<1>11. HeldInv'
  BY <1>2, <1>3, <1>9, <1>10 DEF EngineInv, HeldInv, Held, HeldTwice
<1> QED
  BY <1>2, <1>6, <1>7, <1>8, <1>11 DEF EngineInv, CallInv

LEMMA RunWorkerInv ==
  ASSUME TypeInv, EngineInv, NEW w \in Workers, RunWorker(w)
  PROVE  EngineInv'
<1>1. PICK o \in pool :
        /\ pool' = pool \ {o}
        /\ bodyAt' = [bodyAt EXCEPT ![o] = "running"]
  BY DEF RunWorker, StartBody
<1>2. UNCHANGED <<monotoniccount, ops, bound, completions, detached, callAt,
                  scheduling, batch, toexecute, futures, deferred, completeAt, fatal>>
  BY DEF RunWorker, opVars, callVars
<1>3. o \in OpId
  BY <1>1 DEF TypeInv, TypeOK
<1>4. ChainInv' /\ CallInv'
  BY <1>2 DEF EngineInv, ChainInv, Pre, CallInv, FreshIds, FreshCalls, DistinctCalls,
              DistinctImmediates
<1>5. FuturesInv'
  BY <1>2, FuturesKept
<1>6. ASSUME NEW q \in OpId
      PROVE  /\ Chained(q)' <=> Chained(q)
             /\ Detached(q)' <=> Detached(q)
             /\ Immediate(q)' <=> Immediate(q)
             /\ Queueing(q)' <=> Queueing(q)
             /\ Completing(q)' <=> Completing(q)
  BY <1>2 DEF Chained, Detached, Immediate, Queueing, Completing
<1>7. \A q \in OpId : Running(q)' <=> (Running(q) \/ q = o)
  BY <1>1, <1>3 DEF Running, TypeInv, TypeOK
<1>8. HeldInv'
  BY <1>1, <1>2, <1>6, <1>7 DEF EngineInv, HeldInv, Held, HeldTwice
<1> QED
  BY <1>2, <1>4, <1>5, <1>8 DEF EngineInv

\* An operation about to be completed is in ops, and is nowhere else.
LEMMA CompletingAlone ==
  ASSUME TypeInv, EngineInv, NEW o \in OpId, Completing(o)
  PROVE  /\ o \in ops
         /\ ~Chained(o) /\ ~Detached(o) /\ ~Immediate(o) /\ ~Queueing(o)
         /\ o \notin pool /\ ~Running(o) /\ o \notin deferred
  BY DEF EngineInv, HeldInv, Held, HeldTwice

(***************************************************************************)
(* Whoever calls complete_async_op() for an operation in ops, be it the    *)
(* end of a body or a user, keeps everything but HeldInv, which depends on *)
(* where the operation was held before.                                    *)
(***************************************************************************)
LEMMA CallCompleteInv ==
  ASSUME TypeInv, EngineInv, NEW o \in OpId, o \in ops,
         completeAt' = [completeAt EXCEPT ![o] = "extract"],
         UNCHANGED <<monotoniccount, ops, bound, completions, detached, callAt,
                     scheduling, batch, toexecute, futures>>
  PROVE  ChainInv' /\ CallInv' /\ FuturesInv'
<1>1. /\ o <= monotoniccount /\ completeAt[o] \in {"none", "extract"}
      /\ monotoniccount \in Int /\ o \in Int
  BY EngineAssumption
     DEF EngineInv, CallInv, FreshIds, TypeInv, TypeOK, OpId, EngineAssumption
<1>2. ChainInv'
  BY <1>1 DEF EngineInv, ChainInv, Pre, TypeInv, TypeOK
<1>3. FreshIds'
  <2>1. \A q \in OpId : q > monotoniccount => q # o
    BY <1>1
  <2> QED
    BY <1>1, <2>1 DEF EngineInv, CallInv, FreshIds, TypeInv, TypeOK
<1>4. FreshCalls'
  BY DEF EngineInv, CallInv, FreshCalls, TypeInv, TypeOK
<1>5. DistinctCalls' /\ DistinctImmediates'
  BY DEF EngineInv, CallInv, DistinctCalls, DistinctImmediates
<1>6. FuturesInv'
  BY FuturesKept
<1> QED
  BY <1>2, <1>3, <1>4, <1>5, <1>6 DEF CallInv

LEMMA BodyReturnsInv ==
  ASSUME TypeInv, EngineInv, NEW t \in Thread, NEW o \in OpId, BodyReturns(t, o)
  PROVE  EngineInv'
<1>1. /\ Running(o)
      /\ completeAt' = [completeAt EXCEPT ![o] = "extract"]
      /\ bodyAt' = [bodyAt EXCEPT ![o] = "completing"]
      /\ UNCHANGED <<monotoniccount, ops, bound, completions, detached, pool, callAt,
                     scheduling, batch, toexecute, futures, deferred, fatal>>
  BY DEF BodyReturns, CallComplete, Running, opVars, callVars
<1>2. o \in ops
  BY <1>1 DEF EngineInv, HeldInv, Held
<1>3. ChainInv' /\ CallInv' /\ FuturesInv'
  BY <1>1, <1>2, CallCompleteInv
<1>4. ASSUME NEW q \in OpId
      PROVE  /\ Chained(q)' <=> Chained(q)
             /\ Detached(q)' <=> Detached(q)
             /\ Immediate(q)' <=> Immediate(q)
             /\ Queueing(q)' <=> Queueing(q)
             /\ Running(q)' <=> (Running(q) /\ q # o)
             /\ Completing(q)' <=> (Completing(q) \/ q = o)
  BY <1>1 DEF Chained, Detached, Immediate, Queueing, Running, Completing, TypeInv, TypeOK
<1>5. HeldInv'
  BY <1>1, <1>4 DEF EngineInv, HeldInv, Held, HeldTwice
<1> QED
  BY <1>1, <1>3, <1>5 DEF EngineInv

LEMMA UserCompletesInv ==
  ASSUME TypeInv, EngineInv, NEW c \in Clients, NEW o \in OpId, UserCompletes(c, o)
  PROVE  EngineInv'
<1>1. /\ o \in deferred /\ deferred' = deferred \ {o}
      /\ completeAt' = [completeAt EXCEPT ![o] = "extract"]
      /\ UNCHANGED <<monotoniccount, ops, bound, completions, detached, pool, callAt,
                     scheduling, batch, toexecute, futures, bodyAt, fatal>>
  BY DEF UserCompletes, CallComplete, opVars, callVars
<1>2. o \in ops
  BY <1>1 DEF EngineInv, HeldInv, Held
<1>3. ChainInv' /\ CallInv' /\ FuturesInv'
  BY <1>1, <1>2, CallCompleteInv
<1>4. ASSUME NEW q \in OpId
      PROVE  /\ Chained(q)' <=> Chained(q)
             /\ Detached(q)' <=> Detached(q)
             /\ Immediate(q)' <=> Immediate(q)
             /\ Queueing(q)' <=> Queueing(q)
             /\ Running(q)' <=> Running(q)
             /\ Completing(q)' <=> (Completing(q) \/ q = o)
  BY <1>1 DEF Chained, Detached, Immediate, Queueing, Running, Completing, TypeInv, TypeOK
<1>5. HeldInv'
  BY <1>1, <1>4 DEF EngineInv, HeldInv, Held, HeldTwice
<1> QED
  BY <1>1, <1>3, <1>5 DEF EngineInv

LEMMA BodyDefersInv ==
  ASSUME TypeInv, EngineInv, NEW t \in Thread, NEW o \in OpId, BodyDefers(t, o)
  PROVE  EngineInv'
<1>1. /\ Running(o) /\ deferred' = deferred \cup {o}
      /\ bodyAt' = [bodyAt EXCEPT ![o] = "deferring"]
      /\ UNCHANGED <<monotoniccount, ops, bound, completions, detached, pool, callAt,
                     scheduling, batch, toexecute, futures, completeAt, fatal>>
  BY DEF BodyDefers, Running, opVars, callVars
<1>2. ChainInv' /\ CallInv' /\ FuturesInv'
  <2>1. ChainInv' /\ CallInv'
    BY <1>1 DEF EngineInv, ChainInv, Pre, CallInv, FreshIds, FreshCalls,
                DistinctCalls, DistinctImmediates
  <2> QED
    BY <1>1, <2>1, FuturesKept
<1>3. ASSUME NEW q \in OpId
      PROVE  /\ Chained(q)' <=> Chained(q)
             /\ Detached(q)' <=> Detached(q)
             /\ Immediate(q)' <=> Immediate(q)
             /\ Queueing(q)' <=> Queueing(q)
             /\ Running(q)' <=> (Running(q) /\ q # o)
             /\ Completing(q)' <=> Completing(q)
  BY <1>1 DEF Chained, Detached, Immediate, Queueing, Running, Completing, TypeInv, TypeOK
<1>4. HeldInv'
  BY <1>1, <1>3 DEF EngineInv, HeldInv, Held, HeldTwice
<1> QED
  BY <1>1, <1>2, <1>4 DEF EngineInv

(***************************************************************************)
(* A step of complete_async_op() after the operation left ops moves no     *)
(* operation, unless it issues completions.                                *)
(***************************************************************************)
LEMMA LaterInv ==
  ASSUME TypeInv, EngineInv, NEW o \in OpId, NEW l \in {"filter", "issue", "done"},
         completeAt[o] \in {"set", "filter", "issue"},
         l = "done" => detached[o] = {},
         completeAt' = [completeAt EXCEPT ![o] = l],
         UNCHANGED <<monotoniccount, ops, bound, completions, detached, pool, callAt,
                     scheduling, batch, toexecute, futures, deferred, bodyAt, fatal>>
  PROVE  EngineInv'
<1>1. o \notin ops /\ o <= monotoniccount
  BY EngineAssumption
     DEF EngineInv, CallInv, FreshIds, TypeInv, TypeOK, OpId, EngineAssumption
<1>2. ChainInv'
  BY DEF EngineInv, ChainInv, Pre, TypeInv, TypeOK
<1>3. FreshIds'
  <2>1. \A q \in OpId : q > monotoniccount => q # o
    BY EngineAssumption DEF EngineInv, CallInv, FreshIds
  <2> QED
    BY <1>1, <2>1 DEF EngineInv, CallInv, FreshIds, TypeInv, TypeOK
<1>4. FreshCalls'
  BY DEF EngineInv, CallInv, FreshCalls, TypeInv, TypeOK, SchedulingInv
<1>5. CallInv' /\ FuturesInv'
  BY <1>3, <1>4, FuturesKept DEF EngineInv, CallInv, DistinctCalls, DistinctImmediates
<1>6. ASSUME NEW q \in OpId
      PROVE  /\ Chained(q)' <=> Chained(q)
             /\ Detached(q)' <=> Detached(q)
             /\ Immediate(q)' <=> Immediate(q)
             /\ Queueing(q)' <=> Queueing(q)
             /\ Running(q)' <=> Running(q)
             /\ Completing(q)' <=> Completing(q)
  BY DEF Chained, Detached, Immediate, Queueing, Running, Completing, TypeInv, TypeOK
<1>7. HeldInv'
  BY <1>6 DEF EngineInv, HeldInv, Held, HeldTwice
<1> QED
  BY <1>2, <1>5, <1>7 DEF EngineInv

LEMMA BodyEndsInv ==
  ASSUME TypeInv, EngineInv, NEW t \in Thread, NEW o \in OpId, BodyEnds(t, o)
  PROVE  EngineInv'
<1>1. /\ ~Running(o)
      /\ bodyAt' = [bodyAt EXCEPT ![o] = "done"]
      /\ UNCHANGED <<monotoniccount, ops, bound, completions, detached, pool, callAt,
                     scheduling, batch, toexecute, futures, deferred, completeAt,
                     fatal>>
  BY DEF BodyEnds, Running, opVars, callVars
<1>2. ChainInv' /\ CallInv' /\ FuturesInv'
  <2>1. ChainInv' /\ CallInv'
    BY <1>1 DEF EngineInv, ChainInv, Pre, CallInv, FreshIds, FreshCalls,
                DistinctCalls, DistinctImmediates
  <2> QED
    BY <1>1, <2>1, FuturesKept
<1>3. ASSUME NEW q \in OpId
      PROVE  /\ Chained(q)' <=> Chained(q)
             /\ Detached(q)' <=> Detached(q)
             /\ Immediate(q)' <=> Immediate(q)
             /\ Queueing(q)' <=> Queueing(q)
             /\ Running(q)' <=> Running(q)
             /\ Completing(q)' <=> Completing(q)
  BY <1>1 DEF Chained, Detached, Immediate, Queueing, Running, Completing, TypeInv, TypeOK
<1>4. HeldInv'
  BY <1>1, <1>3 DEF EngineInv, HeldInv, Held, HeldTwice
<1> QED
  BY <1>1, <1>2, <1>4 DEF EngineInv

LEMMA ExtractInv ==
  ASSUME TypeInv, EngineInv, NEW t \in Thread, NEW o \in OpId, Extract(t, o)
  PROVE  EngineInv'
<1>1. Completing(o)
  BY DEF Extract, Completing
<1>2. /\ o \in ops /\ ~Chained(o) /\ ~Detached(o) /\ ~Immediate(o) /\ ~Queueing(o)
      /\ o \notin pool /\ ~Running(o) /\ o \notin deferred
  BY <1>1, CompletingAlone
<1>3. /\ ops' = ops \ {o}
      /\ detached' = [detached EXCEPT ![o] = completions[o]]
      /\ completions' = [completions EXCEPT ![o] = {}]
      /\ completeAt' = [completeAt EXCEPT ![o] = "set"]
      /\ fatal' = fatal
  BY <1>2, Zenon DEF Extract
<1>4. UNCHANGED <<monotoniccount, bound, pool, callAt, scheduling, batch, toexecute,
                  futures, deferred, bodyAt>>
  BY DEF Extract, opVars, callVars
<1>5. detached[o] = {}
  BY <1>1 DEF Completing, EngineInv, ChainInv, TypeInv, TypeOK
<1>6. /\ o \notin completions[o]
      /\ \A q, p \in OpId : q \in completions[p] => Pre(q) = p /\ p \in ops
      /\ \A q, p \in OpId : q \in detached[p] => Pre(q) = p
  BY <1>2 DEF EngineInv, ChainInv, Chained
<1>7. \A q, p \in OpId : q \in completions'[p] => q \in completions[p] /\ p # o
  BY <1>3 DEF TypeInv, TypeOK
<1>8. \A q, p \in OpId :
        q \in detached'[p] <=> IF p = o THEN q \in completions[o] ELSE q \in detached[p]
  BY <1>3 DEF TypeInv, TypeOK
<1>9. ChainInv'
  <2>1. ASSUME NEW q \in OpId, NEW p \in OpId, q \in completions'[p]
        PROVE  Pre(q)' = p /\ p \in ops'
    BY <1>3, <1>4, <1>6, <1>7, <2>1 DEF Pre
  <2>2. ASSUME NEW q \in OpId, NEW p \in OpId, q \in detached'[p]
        PROVE  Pre(q)' = p /\ completeAt'[p] \in {"set", "filter", "issue"}
    <3>1. CASE p = o
      BY <1>3, <1>4, <1>6, <1>8, <2>2, <3>1 DEF Pre, TypeInv, TypeOK
    <3>2. CASE p # o
      <4>1. q \in detached[p] /\ completeAt'[p] = completeAt[p]
        BY <1>3, <1>8, <2>2, <3>2 DEF TypeInv, TypeOK
      <4> QED
        BY <1>4, <4>1 DEF Pre, EngineInv, ChainInv
    <3> QED
      BY <3>1, <3>2
  <2> QED
    BY <2>1, <2>2 DEF ChainInv
<1>10. FreshIds'
  <2>1. o <= monotoniccount /\ monotoniccount \in Int /\ o \in Int
    BY <1>2, EngineAssumption
       DEF EngineInv, CallInv, FreshIds, TypeInv, TypeOK, OpId, EngineAssumption
  <2>2. \A q \in OpId : q > monotoniccount => q # o
    BY <2>1
  <2> QED
    BY <1>3, <1>4, <2>2 DEF EngineInv, CallInv, FreshIds, TypeInv, TypeOK
<1>11. FreshCalls'
  BY <1>2, <1>3, <1>4 DEF EngineInv, CallInv, FreshCalls, TypeInv, TypeOK
<1>12. CallInv' /\ FuturesInv'
  BY <1>4, <1>10, <1>11, FuturesKept DEF EngineInv, CallInv, DistinctCalls, DistinctImmediates
<1>13. ASSUME NEW q \in OpId
       PROVE  /\ Chained(q)' <=> (Chained(q) /\ q \notin completions[o])
              /\ Detached(q)' <=> (Detached(q) \/ q \in completions[o])
  <2>1. \A p \in OpId : p # o => completions'[p] = completions[p]
    BY <1>3 DEF TypeInv, TypeOK
  <2>2. Chained(q)' <=> (Chained(q) /\ q \notin completions[o])
    BY <1>2, <1>3, <1>6, <1>7, <2>1 DEF Chained, TypeInv, TypeOK
  <2>3. Detached(q)' <=> (Detached(q) \/ q \in completions[o])
    BY <1>5, <1>8 DEF Detached
  <2> QED
    BY <2>2, <2>3
<1>14. \A q \in completions[o] : Chained(q)
  BY <1>2 DEF Chained
<1>15. ASSUME NEW q \in OpId
       PROVE  /\ Immediate(q)' <=> Immediate(q)
              /\ Queueing(q)' <=> Queueing(q)
              /\ Running(q)' <=> Running(q)
              /\ Completing(q)' <=> (Completing(q) /\ q # o)
  BY <1>3, <1>4 DEF Immediate, Queueing, Running, Completing, TypeInv, TypeOK
<1>16. HeldInv'
  <2> SUFFICES ASSUME NEW q \in OpId
               PROVE  (q \in ops' <=> Held(q)') /\ ~HeldTwice(q)'
    BY DEF HeldInv
  <2>1. CASE q = o
    BY <1>2, <1>3, <1>4, <1>6, <1>13, <1>15, <2>1 DEF Held, HeldTwice
  <2>2. CASE q # o
    BY <1>3, <1>4, <1>13, <1>14, <1>15, <2>2 DEF EngineInv, HeldInv, Held, HeldTwice
  <2> QED
    BY <2>1, <2>2
<1> QED
  BY <1>3, <1>9, <1>12, <1>16 DEF EngineInv

\* A detached completion taken from complete_async_op()'s stack is not also
\* detached elsewhere.
LEMMA ReleaseInv ==
  ASSUME TypeInv, EngineInv, NEW o \in OpId, NEW d \in detached[o],
         detached' = [detached EXCEPT ![o] = @ \ {d}],
         UNCHANGED <<monotoniccount, ops, bound, completions, callAt, scheduling,
                     batch, toexecute, futures, completeAt>>
  PROVE  /\ ChainInv' /\ CallInv' /\ FuturesInv'
         /\ d \in OpId /\ Detached(d)
         /\ \A q \in OpId : /\ Chained(q)' <=> Chained(q)
                            /\ Immediate(q)' <=> Immediate(q)
                            /\ Queueing(q)' <=> Queueing(q)
                            /\ Completing(q)' <=> Completing(q)
                            /\ Detached(q)' <=> (Detached(q) /\ q # d)
<1>1. d \in OpId /\ Detached(d)
  BY DEF Detached, TypeInv, TypeOK
<1>2. \A q, p \in OpId : q \in detached'[p] <=> q \in detached[p] /\ ~(p = o /\ q = d)
  BY DEF TypeInv, TypeOK
<1>3. \A p \in OpId : d \in detached[p] => p = o
  BY <1>1 DEF EngineInv, ChainInv
<1>4. ChainInv'
  BY <1>2 DEF EngineInv, ChainInv, Pre
<1>5. CallInv' /\ FuturesInv'
  BY FuturesKept DEF EngineInv, CallInv, FreshIds, FreshCalls, DistinctCalls,
                     DistinctImmediates
<1>6. \A q \in OpId : Detached(q)' <=> (Detached(q) /\ q # d)
  BY <1>1, <1>2, <1>3 DEF Detached
<1>7. \A q \in OpId : /\ Chained(q)' <=> Chained(q)
                      /\ Immediate(q)' <=> Immediate(q)
                      /\ Queueing(q)' <=> Queueing(q)
                      /\ Completing(q)' <=> Completing(q)
  BY DEF Chained, Immediate, Queueing, Completing
<1> QED
  BY <1>1, <1>4, <1>5, <1>6, <1>7

LEMMA IssueInv ==
  ASSUME TypeInv, EngineInv, NEW t \in Thread, NEW o \in OpId, Issue(t, o)
  PROVE  EngineInv'
<1>1. PICK d \in detached[o] : /\ detached' = [detached EXCEPT ![o] = @ \ {d}]
                               /\ pool' = pool \cup {d}
  BY DEF Issue
<1>2. UNCHANGED <<monotoniccount, ops, bound, completions, callAt, scheduling, batch,
                  toexecute, futures, deferred, bodyAt, completeAt, fatal>>
  BY DEF Issue, opVars, callVars, frameVars
<1>3. /\ ChainInv' /\ CallInv' /\ FuturesInv'
      /\ d \in OpId /\ Detached(d)
      /\ \A q \in OpId : /\ Chained(q)' <=> Chained(q)
                         /\ Immediate(q)' <=> Immediate(q)
                         /\ Queueing(q)' <=> Queueing(q)
                         /\ Completing(q)' <=> Completing(q)
                         /\ Detached(q)' <=> (Detached(q) /\ q # d)
  BY <1>1, <1>2, ReleaseInv
<1>4. \A q \in OpId : Running(q)' <=> Running(q)
  BY <1>2 DEF Running
<1>5. HeldInv'
  BY <1>1, <1>2, <1>3, <1>4 DEF EngineInv, HeldInv, Held, HeldTwice
<1> QED
  BY <1>2, <1>3, <1>5 DEF EngineInv

LEMMA RunImmediateInv ==
  ASSUME TypeInv, EngineInv, NEW t \in Thread, NEW o \in OpId, RunImmediate(t, o)
  PROVE  EngineInv'
<1>1. PICK d \in detached[o] : /\ detached' = [detached EXCEPT ![o] = @ \ {d}]
                               /\ bodyAt' = [bodyAt EXCEPT ![d] = "running"]
  BY DEF RunImmediate, StartBody
<1>2. UNCHANGED <<monotoniccount, ops, bound, completions, pool, callAt, scheduling,
                  batch, toexecute, futures, deferred, completeAt, fatal>>
  BY DEF RunImmediate, opVars, callVars
<1>3. /\ ChainInv' /\ CallInv' /\ FuturesInv'
      /\ d \in OpId /\ Detached(d)
      /\ \A q \in OpId : /\ Chained(q)' <=> Chained(q)
                         /\ Immediate(q)' <=> Immediate(q)
                         /\ Queueing(q)' <=> Queueing(q)
                         /\ Completing(q)' <=> Completing(q)
                         /\ Detached(q)' <=> (Detached(q) /\ q # d)
  BY <1>1, <1>2, ReleaseInv
<1>4. \A q \in OpId : Running(q)' <=> (Running(q) \/ q = d)
  BY <1>1, <1>3 DEF Running, TypeInv, TypeOK
<1>5. HeldInv'
  BY <1>2, <1>3, <1>4 DEF EngineInv, HeldInv, Held, HeldTwice
<1> QED
  BY <1>2, <1>3, <1>5 DEF EngineInv

-----------------------------------------------------------------------------
LEMMA EngineInvInit == Init => EngineInv
<1> SUFFICES ASSUME Init PROVE EngineInv
  OBVIOUS
<1>1. ChainInv
  BY DEF Init, ChainInv
<1>2. CallInv
  BY EngineAssumption
     DEF EngineAssumption, Init, CallInv, FreshIds, FreshCalls, DistinctCalls,
         DistinctImmediates, NoOp
<1>3. FuturesInv
  BY DEF Init, FuturesInv, Pre
<1>4. HeldInv
  BY DEF Init, HeldInv, Held, HeldTwice, Chained, Detached, Immediate, Queueing,
         Running, Completing
<1> QED
  BY <1>1, <1>2, <1>3, <1>4 DEF EngineInv, Init

LEMMA EngineInvNext == TypeInv /\ EngineInv /\ [Next]_vars => EngineInv'
<1> SUFFICES ASSUME TypeInv, EngineInv, [Next]_vars PROVE EngineInv'
  OBVIOUS
<1>1. ASSUME NEW c \in Clients, NextItem(c) \/ CallStep(c) PROVE EngineInv'
  BY <1>1, NextItemInv, InsertInv, EnqueueInv, ChainThrowsInv, EndItemsInv,
     RunCallImmediateInv, EndCallInv DEF CallStep
<1>2. ASSUME NEW c \in Clients, NEW o \in OpId, UserCompletes(c, o) PROVE EngineInv'
  BY <1>2, UserCompletesInv
<1>3. ASSUME NEW w \in Workers, RunWorker(w) PROVE EngineInv'
  BY <1>3, RunWorkerInv
<1>4. ASSUME NEW t \in Thread, NEW o \in OpId,
             SetFuture(t, o) \/ RunFilters(t, o) \/ CompleteReturns(t, o)
      PROVE  EngineInv'
  <2>1. PICK l \in {"filter", "issue", "done"} :
          /\ completeAt[o] \in {"set", "filter", "issue"}
          /\ l = "done" => detached[o] = {}
          /\ completeAt' = [completeAt EXCEPT ![o] = l]
    BY <1>4, Zenon DEF SetFuture, RunFilters, CompleteReturns
  <2>2. UNCHANGED <<monotoniccount, ops, bound, completions, detached, pool, callAt,
                    scheduling, batch, toexecute, futures, deferred, bodyAt, fatal>>
    BY <1>4 DEF SetFuture, RunFilters, CompleteReturns, opVars, callVars
  <2> QED
    BY <2>1, <2>2, LaterInv
<1>5. ASSUME NEW t \in Thread, FrameStep(t) PROVE EngineInv'
  BY <1>4, <1>5, BodyReturnsInv, BodyDefersInv, BodyEndsInv, ExtractInv, IssueInv,
     RunImmediateInv DEF FrameStep
<1>6. CASE UNCHANGED vars
  BY <1>6 DEF vars, EngineInv, ChainInv, Pre, CallInv, FreshIds, FreshCalls,
              DistinctCalls, DistinctImmediates, FuturesInv, HeldInv, Held, HeldTwice,
              Chained, Detached, Immediate, Queueing, Running, Completing
<1> QED
  BY <1>1, <1>2, <1>3, <1>5, <1>6 DEF Next, Quiescent

\* The data of the state stay in their types, in every reachable state.
THEOREM TypeCorrect == Spec => []TypeOK
<1>1. TypeInv => TypeOK
  BY DEF TypeInv
<1> QED
  BY <1>1, TypeInvariant, PTL

\* The inductive invariant that the theorems on the engine follow from.
THEOREM EngineInvariant == Spec => [](TypeInv /\ EngineInv)
<1>1. Init => EngineInv
  BY EngineInvInit
<1>2. TypeInv /\ EngineInv /\ [Next]_vars => EngineInv'
  BY EngineInvNext
<1> QED
  BY <1>1, <1>2, TypeInvariant, PTL DEF Spec

(***************************************************************************)
(* Every operation in ops is held in exactly one place: none is lost       *)
(* between chain_async_op() and complete_async_op(), none is issued twice. *)
(***************************************************************************)
THEOREM HeldOnceCorrect == Spec => []HeldOnce
<1>1. EngineInv => HeldOnce
  <2> SUFFICES ASSUME EngineInv, NEW o \in OpId
               PROVE  IF o \in ops THEN \E h \in Holders(o) : Holders(o) = {h}
                                   ELSE Holders(o) = {}
    BY DEF HeldOnce
  <2>1. (o \in ops <=> Held(o)) /\ ~HeldTwice(o)
    BY DEF EngineInv, HeldInv
  <2>2. CASE o \notin ops
    BY <2>1, <2>2 DEF Held, Holders
  <2>3. CASE Chained(o)
    BY <2>1, <2>3 DEF Held, HeldTwice, Holders
  <2>4. CASE Detached(o)
    BY <2>1, <2>4 DEF Held, HeldTwice, Holders
  <2>5. CASE Immediate(o)
    BY <2>1, <2>5 DEF Held, HeldTwice, Holders
  <2>6. CASE Queueing(o)
    BY <2>1, <2>6 DEF Held, HeldTwice, Holders
  <2>7. CASE o \in pool
    BY <2>1, <2>7 DEF Held, HeldTwice, Holders
  <2>8. CASE Running(o)
    BY <2>1, <2>8 DEF Held, HeldTwice, Holders
  <2>9. CASE o \in deferred
    BY <2>1, <2>9 DEF Held, HeldTwice, Holders
  <2>10. CASE Completing(o)
    BY <2>1, <2>10 DEF Held, HeldTwice, Holders
  <2> QED
    BY <2>1, <2>2, <2>3, <2>4, <2>5, <2>6, <2>7, <2>8, <2>9, <2>10 DEF Held
<1> QED
  BY <1>1, EngineInvariant, PTL

(***************************************************************************)
(* complete_async_op() always finds the operation it completes in ops: its *)
(* BOOST_AFIO_THROW_FATAL is never reached.                                *)
(***************************************************************************)
THEOREM NeverFatalCorrect == Spec => []NeverFatal
<1>1. EngineInv => NeverFatal
  BY DEF EngineInv, NeverFatal
<1> QED
  BY <1>1, EngineInvariant, PTL

-----------------------------------------------------------------------------
\* An operation that a thread starts was in ops, and no longer chained.
LEMMA StartForgotten ==
  ASSUME TypeInv, EngineInv, ForgottenInv, NEW o \in OpId, o \in ops, ~Chained(o),
         bodyAt' = [bodyAt EXCEPT ![o] = "running"],
         UNCHANGED <<monotoniccount, ops, bound, completions>>
  PROVE  ForgottenInv'
  BY DEF ForgottenInv, Chained, Pre, EngineInv, CallInv, FreshIds, TypeInv, TypeOK

LEMMA ForgottenNext ==
  TypeInv /\ EngineInv /\ ForgottenInv /\ [Next]_vars => ForgottenInv'
<1> SUFFICES ASSUME TypeInv, EngineInv, ForgottenInv, [Next]_vars PROVE ForgottenInv'
  OBVIOUS
<1> USE DEF Thread
<1>1. ASSUME UNCHANGED <<monotoniccount, ops, bound, completions, bodyAt>>
      PROVE  ForgottenInv'
  BY <1>1 DEF ForgottenInv, Chained, Pre
<1>2. ASSUME NEW c \in Clients, NextItem(c) PROVE ForgottenInv'
  <2> DEFINE n == monotoniccount + 1
  <2>1. /\ n \in OpId /\ n \notin ops /\ bodyAt[n] = "none" /\ monotoniccount' = n
        /\ \A o \in OpId : o <= monotoniccount => o <= n
    BY <1>2, EngineAssumption
       DEF NextItem, EngineAssumption, OpId, TypeInv, TypeOK, ForgottenInv, EngineInv,
           CallInv, FreshIds
  <2>2. \A o \in OpId : o # n => bound'[o] = bound[o]
    BY <1>2 DEF NextItem, TypeInv, TypeOK
  <2>3. UNCHANGED <<ops, completions, bodyAt>>
    BY <1>2 DEF NextItem, frameVars
  <2> QED
    BY <2>1, <2>2, <2>3 DEF ForgottenInv, Chained, Pre, TypeInv, TypeOK
<1>3. ASSUME NEW c \in Clients, Insert(c) PROVE ForgottenInv'
  <2>0. PICK o \in OpId : o = scheduling[c]
    BY <1>3 DEF Insert, TypeInv, SchedulingInv
  <2>1. /\ ops' = ops \cup {o} /\ o # NoOp
        /\ UNCHANGED <<monotoniccount, bound, bodyAt>>
    BY <1>3, <2>0, EngineAssumption
       DEF Insert, TypeInv, TypeOK, SchedulingInv, opVars, frameVars, NoOp, OpId,
           EngineAssumption
  <2>2. \A q \in OpId : Pre(q) # o
    BY <1>3, <2>0, <2>1 DEF Insert, EngineInv, FuturesInv
  <2>3. ASSUME NEW q \in OpId, Chained(q) PROVE Chained(q)'
    BY <1>3, <2>0, <2>1, <2>3 DEF Insert, StillInFlight, Chained, TypeInv, TypeOK
  <2>4. Chained(o)' \/ Pre(o) \notin ops
    <3>1. CASE Pre(o) \in ops
      <4>1. completions' = [completions EXCEPT ![Pre(o)] = @ \cup {o}]
        BY <1>3, <2>0, <3>1 DEF Insert, StillInFlight
      <4>2. Pre(o) \in OpId /\ Pre(o) \in ops' /\ o \in completions'[Pre(o)]
        BY <2>1, <3>1, <4>1 DEF TypeInv, TypeOK
      <4> QED
        BY <4>2 DEF Chained
    <3> QED
      BY <3>1
  <2>5. \A q \in OpId : Pre(q)' = Pre(q) /\ (Pre(q) \notin ops => Pre(q) \notin ops')
    BY <2>1, <2>2 DEF Pre
  <2>6. \A q \in ops' : Chained(q)' \/ Pre(q)' \notin ops'
    BY <2>1, <2>3, <2>4, <2>5 DEF ForgottenInv, TypeInv, TypeOK
  <2>7. \A q \in OpId :
          bodyAt'[q] # "none" => Pre(q)' \notin ops' /\ q <= monotoniccount'
    BY <2>1, <2>5 DEF ForgottenInv
  <2> QED
    BY <2>6, <2>7 DEF ForgottenInv
<1>4. ASSUME NEW c \in Clients, ChainThrows(c) PROVE ForgottenInv'
  <2> DEFINE o == scheduling[c]
  <2>1. /\ callAt[c] \in {"insert", "enqueue"}
        /\ o \in OpId /\ ops' = ops \ {o} /\ o # NoOp
        /\ UNCHANGED <<monotoniccount, bound, bodyAt, completions>>
    BY <1>4, EngineAssumption
       DEF ChainThrows, TypeInv, TypeOK, SchedulingInv, opVars, frameVars, NoOp,
           OpId, EngineAssumption
  <2>2. \A q \in OpId : q \notin completions[o]
    <3>1. \A q \in OpId : Pre(q) # o
      BY <2>1 DEF EngineInv, FuturesInv
    <3> QED
      BY <2>1, <3>1 DEF EngineInv, ChainInv
  <2>3. \A q \in OpId : Chained(q)' <=> Chained(q)
    BY <2>1, <2>2 DEF Chained
  <2> QED
    BY <2>1, <2>3 DEF ForgottenInv, Pre, TypeInv, TypeOK
<1>5. ASSUME NEW c \in Clients, RunCallImmediate(c) PROVE ForgottenInv'
  <2>1. PICK o \in toexecute[c] : bodyAt' = [bodyAt EXCEPT ![o] = "running"]
    BY <1>5 DEF RunCallImmediate, StartBody
  <2>2. o \in OpId /\ o \in ops /\ ~Chained(o)
    BY <2>1 DEF TypeInv, TypeOK, EngineInv, HeldInv, Held, HeldTwice, Immediate
  <2> QED
    BY <1>5, <2>1, <2>2, StartForgotten DEF RunCallImmediate, opVars
<1>6. ASSUME NEW w \in Workers, RunWorker(w) PROVE ForgottenInv'
  <2>1. PICK o \in pool : bodyAt' = [bodyAt EXCEPT ![o] = "running"]
    BY <1>6 DEF RunWorker, StartBody
  <2>2. o \in OpId /\ o \in ops /\ ~Chained(o)
    BY <2>1 DEF TypeInv, TypeOK, EngineInv, HeldInv, Held, HeldTwice
  <2> QED
    BY <1>6, <2>1, <2>2, StartForgotten DEF RunWorker, opVars
<1>7. ASSUME NEW t \in Thread, NEW p \in OpId, RunImmediate(t, p) PROVE ForgottenInv'
  <2>1. PICK o \in detached[p] : bodyAt' = [bodyAt EXCEPT ![o] = "running"]
    BY <1>7 DEF RunImmediate, StartBody
  <2>2. o \in OpId /\ o \in ops /\ ~Chained(o)
    BY <2>1 DEF TypeInv, TypeOK, EngineInv, HeldInv, Held, HeldTwice, Detached
  <2> QED
    BY <1>7, <2>1, <2>2, StartForgotten DEF RunImmediate, opVars
<1>8. ASSUME NEW t \in Thread, NEW o \in OpId,
             BodyReturns(t, o) \/ BodyDefers(t, o) \/ BodyEnds(t, o)
      PROVE  ForgottenInv'
  <2>1. PICK l \in BodyLabel : bodyAt' = [bodyAt EXCEPT ![o] = l] /\ bodyAt[o] # "none"
    BY <1>8 DEF BodyReturns, BodyDefers, BodyEnds, BodyLabel
  <2>2. UNCHANGED <<monotoniccount, ops, bound, completions>>
    BY <1>8 DEF BodyReturns, BodyDefers, BodyEnds, opVars
  <2> QED
    BY <2>1, <2>2 DEF ForgottenInv, Chained, Pre, TypeInv, TypeOK
<1>9. ASSUME NEW t \in Thread, NEW o \in OpId, Extract(t, o) PROVE ForgottenInv'
  <2>1. /\ ops' = ops \ {o}
        /\ completions' = [completions EXCEPT ![o] = {}]
        /\ UNCHANGED <<monotoniccount, bound, bodyAt>>
    <3>1. o \in ops
      BY <1>9, CompletingAlone DEF Extract, Completing
    <3> QED
      BY <1>9, <3>1, Zenon DEF Extract, opVars
  <2>2. ASSUME NEW q \in OpId, Chained(q) PROVE Chained(q)' \/ Pre(q) = o
    <3>1. PICK p \in ops : q \in completions[p]
      BY <2>2 DEF Chained
    <3>2. Pre(q) = p
      BY <3>1 DEF EngineInv, ChainInv, TypeInv, TypeOK
    <3> QED
      BY <2>1, <3>1, <3>2 DEF Chained, TypeInv, TypeOK
  <2> QED
    BY <2>1, <2>2 DEF ForgottenInv, Pre, TypeInv, TypeOK
<1>10. ASSUME NEW c \in Clients, Enqueue(c) \/ EndItems(c) \/ EndCall(c)
       PROVE  ForgottenInv'
  BY <1>1, <1>10 DEF Enqueue, EndItems, EndCall, opVars, frameVars
<1>11. ASSUME NEW t \in Thread, NEW o \in OpId,
              \/ UserCompletes(t, o) \/ SetFuture(t, o) \/ RunFilters(t, o)
              \/ Issue(t, o) \/ CompleteReturns(t, o)
       PROVE  ForgottenInv'
  BY <1>1, <1>11
     DEF UserCompletes, SetFuture, RunFilters, Issue, CompleteReturns, opVars, frameVars
<1>12. CASE UNCHANGED vars
  BY <1>1, <1>12 DEF vars
<1> QED
  BY <1>2, <1>3, <1>4, <1>5, <1>6, <1>7, <1>8, <1>9, <1>10, <1>11, <1>12
     DEF Next, CallStep, FrameStep, Quiescent

(***************************************************************************)
(* Once the body of an operation has begun, its precondition is no longer  *)
(* in the dispatcher's records, and never is again.                        *)
(***************************************************************************)
THEOREM PreconditionForgottenCorrect == Spec => []PreconditionForgotten
<1>1. Init => ForgottenInv
  BY DEF Init, ForgottenInv
<1>2. TypeInv /\ EngineInv /\ ForgottenInv /\ [Next]_vars => ForgottenInv'
  BY ForgottenNext
<1>3. ForgottenInv => PreconditionForgotten
  BY DEF ForgottenInv, PreconditionForgotten
<1> QED
  BY <1>1, <1>2, <1>3, EngineInvariant, PTL DEF Spec

-----------------------------------------------------------------------------
(***************************************************************************)
(* With EngineInv, inductive for ErrorsPropagate and for the refinement of *)
(* AbstractOps: a future is unset until complete_async_op() sets it to     *)
(* what it was called with (SetInv), that was found when the               *)
(* precondition's own future was set (OutcomeInv), and a future that a     *)
(* user has, or is to be given, is of an operation that went into ops      *)
(* (KnownInv).                                                             *)
(***************************************************************************)
SetInv ==
  \A o \in OpId :
    /\ future[o] = "unset" <=> completeAt[o] \in {"none", "extract", "set"}
    /\ future[o] # "unset" => future[o] = outcome[o]
    /\ o \in deferred => bound[o].kind = "user"

OutcomeInv ==
  \A o \in OpId :
    completeAt[o] # "none" /\ bound[o].kind = "io" /\ Pre(o) # NoOp =>
      \/ future[Pre(o)] = "value"
      \/ future[Pre(o)] = "error" /\ outcome[o] = "error"

Known(o) == o \in ops \/ completeAt[o] \notin {"none", "extract"}

KnownInv ==
  /\ \A o \in futures : Known(o)
  /\ \A c \in Clients : \A o \in batch[c] : Known(o)

ResultInv == SetInv /\ OutcomeInv /\ KnownInv

LEMMA OpIdFacts == NoOp \notin OpId /\ \A o \in OpId : o \in Int
BY EngineAssumption DEF OpId, NoOp, EngineAssumption

LEMMA ResultNextItem ==
  ASSUME TypeInv, EngineInv, ResultInv, NEW c \in Clients, NextItem(c)
  PROVE  ResultInv'
<1> DEFINE n == monotoniccount + 1
<1>1. /\ n \in OpId /\ monotoniccount' = n /\ completeAt[n] = "none"
      /\ n \notin ops /\ UNCHANGED <<ops, future, batch, futures, deferred, completeAt, outcome>>
  BY EngineAssumption
     DEF NextItem, EngineAssumption, OpId, TypeInv, TypeOK, EngineInv, CallInv, FreshIds, frameVars
<1>2. \A o \in OpId : o # n => bound'[o] = bound[o]
  BY DEF NextItem, TypeInv, TypeOK
<1>3. n \notin deferred
  BY <1>1 DEF EngineInv, HeldInv, Held
<1>4. SetInv'
  BY <1>1, <1>2, <1>3 DEF ResultInv, SetInv
<1>5. OutcomeInv'
  BY <1>1, <1>2 DEF ResultInv, OutcomeInv, Pre
<1>6. KnownInv'
  BY <1>1 DEF ResultInv, KnownInv, Known
<1> QED
  BY <1>4, <1>5, <1>6 DEF ResultInv

\* A call of complete_async_op() for an operation that was running or deferred.
LEMMA ResultCall ==
  ASSUME TypeInv, EngineInv, ResultInv, NEW o \in OpId, NEW r \in Outcome,
         completeAt[o] = "none", o \in ops,
         bound[o].kind = "io" /\ Pre(o) # NoOp =>
           future[Pre(o)] = "value" \/ (future[Pre(o)] = "error" /\ r = "error"),
         completeAt' = [completeAt EXCEPT ![o] = "extract"],
         outcome' = [outcome EXCEPT ![o] = r],
         deferred' \in SUBSET deferred,
         UNCHANGED <<ops, bound, future, batch, futures>>
  PROVE  ResultInv'
<1>1. /\ completeAt'[o] = "extract" /\ outcome'[o] = r
      /\ \A q \in OpId : q # o => completeAt'[q] = completeAt[q] /\ outcome'[q] = outcome[q]
  BY DEF TypeInv, TypeOK
<1>2. SetInv'
  BY <1>1 DEF ResultInv, SetInv
<1>3. OutcomeInv'
  BY <1>1 DEF ResultInv, OutcomeInv, Pre
<1>4. KnownInv'
  BY <1>1 DEF ResultInv, KnownInv, Known, TypeInv, TypeOK
<1> QED
  BY <1>2, <1>3, <1>4 DEF ResultInv

LEMMA ResultNext == TypeInv /\ EngineInv /\ ResultInv /\ [Next]_vars => ResultInv'
<1> SUFFICES ASSUME TypeInv, EngineInv, ResultInv, [Next]_vars PROVE ResultInv'
  OBVIOUS
<1> USE DEF Thread
<1>1. ASSUME ops \subseteq ops', deferred' = deferred,
             UNCHANGED <<bound, future, batch, futures, completeAt, outcome>>
      PROVE  ResultInv'
  BY <1>1 DEF ResultInv, SetInv, OutcomeInv, KnownInv, Known, Pre
<1>2. ASSUME NEW c \in Clients, NextItem(c) PROVE ResultInv'
  BY <1>2, ResultNextItem
<1>3. ASSUME NEW c \in Clients, Insert(c) \/ Enqueue(c) PROVE ResultInv'
  <2> DEFINE o == scheduling[c]
  <2>1. /\ o \in OpId /\ ops \subseteq ops' /\ o \in ops'
        /\ UNCHANGED <<bound, future, futures, completeAt, outcome, deferred>>
        /\ batch' = batch \/ batch' = [batch EXCEPT ![c] = @ \cup {o}]
    <3>1. CASE Insert(c)
      BY <3>1 DEF Insert, TypeInv, SchedulingInv, opVars, frameVars
    <3>2. CASE Enqueue(c)
      <4>1. o \in OpId /\ Queueing(o)
        BY <3>2 DEF Enqueue, TypeInv, SchedulingInv, Queueing
      <4>2. o \in ops
        BY <4>1 DEF EngineInv, HeldInv, Held
      <4> QED
        BY <3>2, <4>1, <4>2 DEF Enqueue, opVars, frameVars
    <3> QED
      BY <1>3, <3>1, <3>2
  <2>2. SetInv' /\ OutcomeInv'
    BY <2>1 DEF ResultInv, SetInv, OutcomeInv, Pre
  <2> HIDE DEF o
  <2>3. \A d \in Clients : \A q \in batch'[d] : q \in batch[d] \/ q = o
    BY ZenonT(30), <2>1 DEF TypeInv, TypeOK
  <2>4. \A q \in OpId : Known(q) \/ q = o => Known(q)'
    BY <2>1 DEF Known
  <2>5. /\ \A q \in futures : q \in OpId /\ Known(q)
        /\ \A d \in Clients : \A q \in batch[d] : q \in OpId /\ Known(q)
    BY DEF ResultInv, KnownInv, TypeInv, TypeOK
  <2>6. KnownInv'
    BY <2>1, <2>3, <2>4, <2>5 DEF KnownInv
  <2> QED
    BY <2>2, <2>6 DEF ResultInv
<1>4. ASSUME NEW c \in Clients, ChainThrows(c) PROVE ResultInv'
  <2> DEFINE o == scheduling[c]
  <2>1. /\ o \notin futures /\ \A d \in Clients : o \notin batch[d]
        /\ ops' = ops \ {o} /\ batch' = [batch EXCEPT ![c] = {}]
        /\ UNCHANGED <<bound, future, futures, completeAt, outcome, deferred>>
    BY <1>4 DEF ChainThrows, EngineInv, FuturesInv, opVars, frameVars
  <2>2. SetInv' /\ OutcomeInv'
    BY <2>1 DEF ResultInv, SetInv, OutcomeInv, Pre
  <2> HIDE DEF o
  <2>3. KnownInv'
    BY <2>1 DEF ResultInv, KnownInv, Known, TypeInv, TypeOK
  <2> QED
    BY <2>2, <2>3 DEF ResultInv
<1>5. ASSUME NEW c \in Clients, EndCall(c) PROVE ResultInv'
  <2>1. /\ futures' = futures \cup batch[c] /\ batch' = [batch EXCEPT ![c] = {}]
        /\ UNCHANGED <<ops, bound, future, completeAt, outcome, deferred>>
    BY <1>5 DEF EndCall, opVars, frameVars
  <2>2. SetInv' /\ OutcomeInv'
    BY <2>1 DEF ResultInv, SetInv, OutcomeInv, Pre
  <2>3. KnownInv'
    BY <2>1 DEF ResultInv, KnownInv, Known, TypeInv, TypeOK
  <2> QED
    BY <2>2, <2>3 DEF ResultInv
<1>6. ASSUME NEW t \in Thread, NEW o \in OpId, BodyReturns(t, o) PROVE ResultInv'
  <2>1. PICK r \in BodyOutcome(o) : CallComplete(t, o, r)
    BY <1>6 DEF BodyReturns
  <2>2. Running(o) /\ o \in ops /\ ~Completing(o)
    BY <1>6 DEF BodyReturns, Running, EngineInv, HeldInv, Held, HeldTwice
  <2>3. completeAt[o] = "none"
    BY <2>2 DEF Completing, EngineInv, CallInv, FreshIds
  <2>4. r \in Outcome
    BY <2>1 DEF BodyOutcome, Outcome
  <2>5. ASSUME bound[o].kind = "io", Pre(o) # NoOp
        PROVE  future[Pre(o)] = "value" \/ (future[Pre(o)] = "error" /\ r = "error")
    <3>1. Pre(o) \in OpId
      BY <2>5 DEF Pre, TypeInv, TypeOK, Binding
    <3>2. future[Pre(o)] \in {"value", "error"}
      BY <1>6, <2>5, <3>1 DEF BodyReturns, Ready, TypeInv, TypeOK, Outcome
    <3> QED
      BY <2>1, <2>5, <3>2 DEF BodyOutcome, Failed
  <2>6. /\ completeAt' = [completeAt EXCEPT ![o] = "extract"]
        /\ outcome' = [outcome EXCEPT ![o] = r]
        /\ UNCHANGED <<ops, bound, future, batch, futures, deferred>>
    BY <1>6, <2>1 DEF BodyReturns, CallComplete, opVars, callVars
  <2> QED
    BY <2>2, <2>3, <2>4, <2>5, <2>6, ResultCall
<1>7. ASSUME NEW c \in Clients, NEW o \in OpId, UserCompletes(c, o) PROVE ResultInv'
  <2>1. PICK r \in Outcome : CallComplete(c, o, r)
    BY <1>7 DEF UserCompletes
  <2>2. o \in deferred /\ o \in ops /\ ~Completing(o)
    BY <1>7 DEF UserCompletes, EngineInv, HeldInv, Held, HeldTwice
  <2>3. completeAt[o] = "none"
    BY <2>2 DEF Completing, EngineInv, CallInv, FreshIds
  <2>4. bound[o].kind # "io"
    BY <2>2 DEF ResultInv, SetInv
  <2>5. /\ completeAt' = [completeAt EXCEPT ![o] = "extract"]
        /\ outcome' = [outcome EXCEPT ![o] = r]
        /\ deferred' = deferred \ {o}
        /\ UNCHANGED <<ops, bound, future, batch, futures>>
    BY <1>7, <2>1 DEF UserCompletes, CallComplete, opVars, callVars
  <2> QED
    BY <2>2, <2>3, <2>4, <2>5, ResultCall
<1>8. ASSUME NEW t \in Thread, NEW o \in OpId, BodyDefers(t, o) PROVE ResultInv'
  <2>1. /\ bound[o].kind = "user" /\ deferred' = deferred \cup {o}
        /\ UNCHANGED <<ops, bound, future, batch, futures, completeAt, outcome>>
    BY <1>8 DEF BodyDefers, opVars, callVars
  <2> QED
    BY <2>1 DEF ResultInv, SetInv, OutcomeInv, KnownInv, Known, Pre
<1>9. ASSUME NEW t \in Thread, NEW o \in OpId, Extract(t, o) PROVE ResultInv'
  <2>1. o \in ops /\ completeAt[o] = "extract"
    BY <1>9, CompletingAlone DEF Extract, Completing
  <2>2. /\ ops' = ops \ {o} /\ completeAt' = [completeAt EXCEPT ![o] = "set"]
        /\ UNCHANGED <<bound, future, batch, futures, deferred, outcome>>
    BY <1>9, <2>1, Zenon DEF Extract, opVars, callVars
  <2>3. completeAt'[o] = "set" /\ \A q \in OpId : q # o => completeAt'[q] = completeAt[q]
    BY <2>2 DEF TypeInv, TypeOK
  <2>4. SetInv' /\ OutcomeInv'
    BY <2>1, <2>2, <2>3 DEF ResultInv, SetInv, OutcomeInv, Pre
  <2>5. KnownInv'
    BY <2>2, <2>3 DEF ResultInv, KnownInv, Known, TypeInv, TypeOK
  <2> QED
    BY <2>4, <2>5 DEF ResultInv
<1>10. ASSUME NEW t \in Thread, NEW o \in OpId, SetFuture(t, o) PROVE ResultInv'
  <2>1. /\ completeAt[o] = "set" /\ completeAt' = [completeAt EXCEPT ![o] = "filter"]
        /\ future' = [future EXCEPT ![o] = IF @ = "unset" THEN outcome[o] ELSE @]
        /\ UNCHANGED <<ops, bound, batch, futures, deferred, outcome>>
    BY <1>10 DEF SetFuture, opVars, callVars
  <2>2. future[o] = "unset"
    BY <2>1 DEF ResultInv, SetInv
  <2>3. /\ completeAt'[o] = "filter" /\ \A q \in OpId : q # o => completeAt'[q] = completeAt[q]
        /\ future'[o] = outcome[o] /\ \A q \in OpId : q # o => future'[q] = future[q]
    BY <2>1, <2>2 DEF TypeInv, TypeOK
  <2>4. outcome[o] # "unset"
    BY DEF TypeInv, TypeOK, Outcome
  <2>5. SetInv'
    BY <2>1, <2>3, <2>4 DEF ResultInv, SetInv
  <2>6. OutcomeInv'
    <3> SUFFICES ASSUME NEW q \in OpId, completeAt'[q] # "none", bound[q].kind = "io", Pre(q) # NoOp
                 PROVE  \/ future'[Pre(q)] = "value"
                        \/ future'[Pre(q)] = "error" /\ outcome[q] = "error"
      BY <2>1 DEF OutcomeInv, Pre
    <3>1. completeAt[q] # "none"
      BY <2>1, <2>3
    <3>2. future[Pre(q)] = "value" \/ (future[Pre(q)] = "error" /\ outcome[q] = "error")
      BY <3>1 DEF ResultInv, OutcomeInv
    <3>3. Pre(q) # o /\ Pre(q) \in OpId
      BY <2>2, <3>2 DEF Pre, TypeInv, TypeOK, Binding
    <3> QED
      BY <2>3, <3>2, <3>3
  <2>7. KnownInv'
    BY <2>1, <2>3 DEF ResultInv, KnownInv, Known, TypeInv, TypeOK
  <2> QED
    BY <2>5, <2>6, <2>7 DEF ResultInv
<1>11. ASSUME NEW t \in Thread, NEW o \in OpId, RunFilters(t, o) \/ CompleteReturns(t, o)
       PROVE  ResultInv'
  <2>1. PICK l \in {"issue", "done"} :
          /\ completeAt[o] \in {"filter", "issue"}
          /\ completeAt' = [completeAt EXCEPT ![o] = l]
          /\ UNCHANGED <<ops, bound, future, batch, futures, deferred, outcome>>
    BY <1>11 DEF RunFilters, CompleteReturns, opVars, callVars
  <2>2. /\ completeAt'[o] \in {"issue", "done"}
        /\ \A q \in OpId : q # o => completeAt'[q] = completeAt[q]
    BY <2>1 DEF TypeInv, TypeOK
  <2>3. SetInv' /\ OutcomeInv'
    BY <2>1, <2>2 DEF ResultInv, SetInv, OutcomeInv, Pre
  <2>4. KnownInv'
    BY <2>1, <2>2 DEF ResultInv, KnownInv, Known, TypeInv, TypeOK
  <2> QED
    BY <2>3, <2>4 DEF ResultInv
<1>12. ASSUME NEW c \in Clients, EndItems(c) \/ RunCallImmediate(c) PROVE ResultInv'
  BY <1>1, <1>12 DEF EndItems, RunCallImmediate, opVars, frameVars
<1>13. ASSUME NEW t \in Thread, RunWorker(t) PROVE ResultInv'
  BY <1>1, <1>13 DEF RunWorker, opVars, callVars
<1>14. ASSUME NEW t \in Thread, NEW o \in OpId, BodyEnds(t, o) \/ Issue(t, o) \/ RunImmediate(t, o)
       PROVE  ResultInv'
  BY <1>1, <1>14 DEF BodyEnds, Issue, RunImmediate, opVars, callVars, frameVars
<1>15. CASE UNCHANGED vars
  BY <1>1, <1>15 DEF vars
<1> QED
  BY <1>2, <1>3, <1>4, <1>5, <1>6, <1>7, <1>8, <1>9, <1>10, <1>11, <1>12, <1>13, <1>14, <1>15
     DEF Next, CallStep, FrameStep, Quiescent

THEOREM ResultInvariant == Spec => [](TypeInv /\ EngineInv /\ ResultInv)
<1>1. Init => ResultInv
  BY DEF Init, ResultInv, SetInv, OutcomeInv, KnownInv, Known, Pre
<1> QED
  BY <1>1, ResultNext, EngineInvariant, PTL DEF Spec

(***************************************************************************)
(* An error travels down a chain of engine operations, whatever order they *)
(* were scheduled, released and completed in.                              *)
(***************************************************************************)
THEOREM ErrorsPropagateCorrect == Spec => []ErrorsPropagate
<1>1. ResultInv => ErrorsPropagate
  BY DEF ResultInv, SetInv, OutcomeInv, ErrorsPropagate
<1> QED
  BY <1>1, ResultInvariant, PTL

-----------------------------------------------------------------------------
(***************************************************************************)
(* A completion leaves its precondition's keeping only through the loop of *)
(* complete_async_op(), or the immediates executed after it.               *)
(***************************************************************************)
Waits(o) == Chained(o) \/ Detached(o)

LEMMA ReleaseNext ==
  ASSUME TypeInv, EngineInv, ResultInv, [Next]_vars,
         NEW o \in OpId, Waits(o), ~Waits(o)'
  PROVE  Ready(Pre(o)) /\ completeAt[Pre(o)] = "issue"
<1> USE DEF Thread
<1> DEFINE Goal == Ready(Pre(o)) /\ completeAt[Pre(o)] = "issue"
<1>1. ASSUME ops \subseteq ops', UNCHANGED <<completions, detached>> PROVE Goal
  BY <1>1 DEF Waits, Chained, Detached
<1>2. ASSUME NEW c \in Clients, Insert(c) PROVE Goal
  <2>1. /\ ops \subseteq ops' /\ detached' = detached
        /\ \A q \in OpId : completions[q] \subseteq completions'[q]
    <3>1. completions' = completions \/ completions' = [completions EXCEPT ![Pre(scheduling[c])] = @ \cup {scheduling[c]}]
      BY <1>2 DEF Insert
    <3>2. \A q \in OpId : completions[q] \subseteq completions'[q]
      BY <3>1 DEF TypeInv, TypeOK
    <3> QED
      BY <1>2, <3>2 DEF Insert
  <2>2. ops \subseteq OpId
    BY DEF TypeInv, TypeOK
  <2>3. Chained(o) => Chained(o)'
    BY <2>1, <2>2 DEF Chained
  <2>4. Detached(o) => Detached(o)'
    BY <2>1 DEF Detached
  <2> QED
    BY <2>3, <2>4 DEF Waits
<1>3. ASSUME NEW c \in Clients, ChainThrows(c) PROVE Goal
  <2> DEFINE q == scheduling[c]
  <2>1. /\ q \in OpId /\ ops' = ops \ {q} /\ UNCHANGED <<completions, detached>>
        /\ q \notin futures /\ q # NoOp
    BY <1>3, OpIdFacts DEF ChainThrows, EngineInv, FuturesInv, TypeInv, SchedulingInv
  <2>2. o \notin completions[q]
    BY <2>1 DEF EngineInv, ChainInv, FuturesInv
  <2> QED
    BY <2>1, <2>2 DEF Waits, Chained, Detached
<1>4. ASSUME NEW t \in Thread, NEW p \in OpId, Extract(t, p) PROVE Goal
  <2>1. p \in ops
    BY <1>4, CompletingAlone DEF Extract, Completing
  <2>2. /\ ops' = ops \ {p} /\ detached' = [detached EXCEPT ![p] = completions[p]]
        /\ completions' = [completions EXCEPT ![p] = {}]
        /\ completeAt[p] = "extract"
    BY <1>4, <2>1, Zenon DEF Extract
  <2>3. detached'[p] = completions[p] /\ \A q \in OpId : q # p =>
          detached'[q] = detached[q] /\ completions'[q] = completions[q]
    BY <2>2 DEF TypeInv, TypeOK
  <2>4. o \notin detached[p]
    BY <2>2 DEF EngineInv, ChainInv
  <2> QED
    BY <2>1, <2>2, <2>3, <2>4 DEF Waits, Chained, Detached, TypeInv, TypeOK
<1>5. ASSUME NEW t \in Thread, NEW p \in OpId, Issue(t, p) \/ RunImmediate(t, p) PROVE Goal
  <2>1. PICK d \in detached[p] : /\ detached' = [detached EXCEPT ![p] = @ \ {d}]
                                 /\ UNCHANGED <<ops, completions>> /\ completeAt[p] = "issue"
    BY <1>5 DEF Issue, Issuing, RunImmediate
  <2>2. \A q \in OpId : o # d \/ q # p => (o \in detached[q] => o \in detached'[q])
    BY <2>1 DEF TypeInv, TypeOK
  <2>3. o \in detached[p]
    BY <2>1, <2>2 DEF Waits, Chained, Detached
  <2>4. Pre(o) = p
    BY <2>3 DEF EngineInv, ChainInv
  <2>5. future[p] # "unset"
    BY <2>1 DEF ResultInv, SetInv
  <2> QED
    BY <2>1, <2>4, <2>5 DEF Ready
<1>6. ASSUME NEW c \in Clients,
             \/ NextItem(c) \/ Enqueue(c) \/ EndItems(c) \/ RunCallImmediate(c) \/ EndCall(c)
             \/ \E q \in OpId : UserCompletes(c, q)
      PROVE  Goal
  BY <1>1, <1>6 DEF NextItem, Enqueue, EndItems, RunCallImmediate, EndCall, UserCompletes
<1>7. ASSUME NEW t \in Thread, NEW p \in OpId,
             \/ BodyReturns(t, p) \/ BodyDefers(t, p) \/ BodyEnds(t, p)
             \/ SetFuture(t, p) \/ RunFilters(t, p) \/ CompleteReturns(t, p)
      PROVE  Goal
  BY <1>1, <1>7 DEF BodyReturns, BodyDefers, BodyEnds, SetFuture, RunFilters, CompleteReturns
<1>8. ASSUME UNCHANGED vars PROVE Goal
  BY <1>1, <1>8 DEF vars
<1>9. ASSUME NEW c \in Clients, NextItem(c) \/ CallStep(c) PROVE Goal
  BY <1>2, <1>3, <1>6, <1>9 DEF CallStep
<1>10. ASSUME NEW c \in Clients, NEW q \in OpId, UserCompletes(c, q) PROVE Goal
  BY <1>6, <1>10
<1>11. ASSUME NEW t \in Thread, FrameStep(t) PROVE Goal
  BY <1>4, <1>5, <1>7, <1>11 DEF FrameStep
<1>12. ASSUME NEW w \in Workers, RunWorker(w) PROVE Goal
  BY <1>1, <1>12 DEF RunWorker
<1> HIDE DEF Goal
<1>13. Goal
  BY <1>8, <1>9, <1>10, <1>11, <1>12 DEF Next, Quiescent
<1> QED
  BY <1>13 DEF Goal

(***************************************************************************)
(* An operation chained to a precondition in flight is posted or executed  *)
(* only when that one's future is set and its filters have run.            *)
(***************************************************************************)
THEOREM ReleasedAfterFiltersCorrect == Spec => ReleasedAfterFilters
<1>1. TypeInv /\ EngineInv /\ ResultInv /\ [Next]_vars =>
        [\A o \in OpId :
           (Chained(o) \/ Detached(o)) /\ ~(Chained(o) \/ Detached(o))' =>
             Ready(Pre(o)) /\ completeAt[Pre(o)] = "issue"]_vars
  <2> SUFFICES ASSUME TypeInv, EngineInv, ResultInv, [Next]_vars, NEW o \in OpId,
                      Chained(o) \/ Detached(o), ~(Chained(o) \/ Detached(o))'
               PROVE  Ready(Pre(o)) /\ completeAt[Pre(o)] = "issue"
    OBVIOUS
  <2>1. Waits(o) /\ ~Waits(o)'
    BY DEF Waits
  <2> QED
    BY <2>1, ReleaseNext
<1> QED
  BY <1>1, ResultInvariant, PTL DEF Spec, ReleasedAfterFilters

-----------------------------------------------------------------------------
(***************************************************************************)
(* The refinement of AbstractOps.                                          *)
(***************************************************************************)
Live(o) == o \in ops \/ completeAt[o] = "set"

\* A step that none of it sees.
LEMMA AbsStays ==
  ASSUME \A o \in OpId : /\ future'[o] = future[o] /\ (Live(o)' <=> Live(o))
                         /\ Live(o) \/ future[o] # "unset" => bound'[o] = bound[o]
  PROVE  UNCHANGED Abs!vars
<1>1. ASSUME NEW o \in OpId PROVE AbsState'[o] = AbsState[o]
  <2>1. future'[o] = future[o] /\ (Live(o)' <=> Live(o))
    OBVIOUS
  <2>2. /\ AbsState[o] = IF future[o] # "unset" THEN future[o] ELSE IF Live(o) THEN "pending" ELSE "unscheduled"
        /\ AbsState'[o] = IF future'[o] # "unset" THEN future'[o] ELSE IF Live(o)' THEN "pending" ELSE "unscheduled"
    BY DEF AbsState, Live
  <2> QED
    BY <2>1, <2>2
<1>2. AbsState' = AbsState
  BY <1>1 DEF AbsState
<1>3. ASSUME NEW o \in OpId, AbsState[o] # "unscheduled" PROVE bound'[o] = bound[o]
  <2>1. AbsState[o] = IF future[o] # "unset" THEN future[o] ELSE IF Live(o) THEN "pending" ELSE "unscheduled"
    BY DEF AbsState, Live
  <2> QED
    BY <1>3, <2>1 DEF Live
<1>4. \A o \in OpId : /\ (IF AbsState[o] = "unscheduled" THEN NoOp ELSE Pre(o))'
                          = (IF AbsState[o] = "unscheduled" THEN NoOp ELSE Pre(o))
                      /\ (IF AbsState[o] = "unscheduled" THEN FALSE ELSE bound[o].kind = "io")'
                          = (IF AbsState[o] = "unscheduled" THEN FALSE ELSE bound[o].kind = "io")
  BY <1>2, <1>3 DEF Pre
<1> HIDE DEF AbsState
<1> QED
  BY <1>2, <1>4 DEF Abs!vars

LEMMA AbsMapped ==
  /\ \A o \in OpId : AbsState[o] = IF future[o] # "unset" THEN future[o]
                                   ELSE IF Live(o) THEN "pending" ELSE "unscheduled"
  /\ AbsState = [o \in OpId |-> AbsState[o]]
BY DEF AbsState, Live

\* The critical section that puts an operation in ops schedules it.
LEMMA AbsInsert ==
  ASSUME TypeInv, EngineInv, ResultInv, NEW c \in Clients, Insert(c)
  PROVE  Abs!Next
<1>1. PICK o \in OpId : o = scheduling[c]
  BY DEF TypeInv, SchedulingInv, Insert
<1>2. PICK p : p = Pre(o)
  OBVIOUS
<1>3. PICK s \in BOOLEAN : s = (bound[o].kind = "io")
  OBVIOUS
<1>4. /\ o \in OpId /\ o \notin ops /\ completeAt[o] = "none"
      /\ ops' = ops \cup {o} /\ UNCHANGED <<bound, future, completeAt>>
      /\ o \notin futures
  BY <1>1 DEF Insert, TypeInv, SchedulingInv, EngineInv, CallInv, FreshCalls, FuturesInv, opVars, frameVars
<1>5. future[o] = "unset" /\ ~Live(o)
  BY <1>4 DEF ResultInv, SetInv, Live
<1>6. p \in futures \cup {NoOp} /\ p \in OpId \cup {NoOp} /\ p # o
  BY <1>4, <1>2, OpIdFacts DEF EngineInv, FuturesInv, TypeInv, TypeOK
<1>7. p # NoOp => AbsState[p] # "unscheduled"
  <2> SUFFICES ASSUME p # NoOp PROVE AbsState[p] # "unscheduled"
    OBVIOUS
  <2>1. p \in OpId /\ Known(p)
    BY <1>6 DEF ResultInv, KnownInv
  <2>2. Live(p) \/ future[p] # "unset"
    BY <2>1 DEF Known, Live, ResultInv, SetInv
  <2>3. future[p] # "unscheduled"
    BY <2>1 DEF TypeInv, TypeOK, Outcome
  <2> QED
    BY <2>1, <2>2, <2>3, AbsMapped
<1>8. AbsState[o] = "unscheduled" /\ AbsState' = [AbsState EXCEPT ![o] = "pending"]
  <2>1. AbsState[o] = "unscheduled"
    BY <1>4, <1>5, AbsMapped
  <2>2. \A q \in OpId : Live(q)' <=> Live(q) \/ q = o
    BY <1>4 DEF Live
  <2>3. \A q \in OpId : AbsState'[q] = IF q = o THEN "pending" ELSE AbsState[q]
    BY <1>4, <1>5, <2>2, AbsMapped DEF AbsState, Live
  <2> QED
    BY <2>1, <2>3, AbsMapped DEF AbsState
<1>9. /\ \A q \in OpId : q # o => AbsState'[q] = AbsState[q] /\ Pre(q)' = Pre(q)
      /\ AbsState'[o] # "unscheduled" /\ Pre(o)' = p /\ bound' = bound
  <2>1. AbsState = [q \in OpId |-> AbsState[q]]
    BY AbsMapped
  <2> QED
    BY <1>4, <1>8, <1>2, <2>1 DEF Pre
<1> DEFINE needs == [q \in OpId |-> IF AbsState[q] = "unscheduled" THEN NoOp ELSE Pre(q)]
           strict == [q \in OpId |-> IF AbsState[q] = "unscheduled" THEN FALSE ELSE bound[q].kind = "io"]
<1>10. needs' = [needs EXCEPT ![o] = p]
  BY <1>4, <1>9
<1>11. strict' = [strict EXCEPT ![o] = s]
  BY <1>4, <1>9, <1>3
<1> HIDE DEF needs, strict
<1>12. Abs!Schedule(o, p, s)
  <2> SUFFICES /\ AbsState[o] = "unscheduled"
               /\ IF p = NoOp THEN TRUE ELSE AbsState[p] # "unscheduled"
               /\ AbsState' = [AbsState EXCEPT ![o] = "pending"]
               /\ needs' = [needs EXCEPT ![o] = p]
               /\ strict' = [strict EXCEPT ![o] = s]
    BY Zenon DEF Abs!Schedule, needs, strict
  <2> QED
    BY <1>7, <1>8, <1>10, <1>11
<1> QED
  BY <1>6, <1>12 DEF Abs!Next

\* When queueing it throws, it is withdrawn: nobody was given its future.
LEMMA AbsThrows ==
  ASSUME TypeInv, EngineInv, ResultInv, NEW c \in Clients, ChainThrows(c)
  PROVE  Abs!Next \/ UNCHANGED Abs!vars
<1>1. PICK o \in OpId : o = scheduling[c]
  BY DEF TypeInv, SchedulingInv, ChainThrows
<1>2. /\ o \in OpId /\ o \notin futures /\ ops' = ops \ {o}
      /\ callAt[c] \in {"insert", "enqueue"}
      /\ UNCHANGED <<bound, future, completeAt>>
  BY <1>1 DEF ChainThrows, TypeInv, SchedulingInv, EngineInv, FuturesInv, opVars, frameVars
<1>3. CASE o \notin ops
  <2>1. ops' = ops
    BY <1>2, <1>3
  <2> QED
    BY <1>2, <2>1, AbsStays DEF Live
<1>4. CASE o \in ops
  <2>1. Queueing(o)
    BY <1>1, <1>2, <1>4 DEF Queueing, EngineInv, CallInv, FreshCalls
  <2>2. completeAt[o] = "none"
    BY <1>2, <1>4, <2>1 DEF EngineInv, HeldInv, HeldTwice, Completing, CallInv, FreshIds
  <2>3. future[o] = "unset" /\ Live(o)
    BY <1>2, <1>4, <2>2 DEF ResultInv, SetInv, Live
  <2>4. \A q \in OpId : Pre(q) # o
    BY <1>2, OpIdFacts DEF EngineInv, FuturesInv
  <2>5. \A q \in OpId : Live(q)' <=> Live(q) /\ q # o
    BY <1>2, <2>2 DEF Live
  <2>6. AbsState[o] = "pending"
    BY <1>2, <2>3, AbsMapped
  <2>7. AbsState' = [AbsState EXCEPT ![o] = "unscheduled"]
    <3>1. \A q \in OpId : AbsState'[q] = IF q = o THEN "unscheduled" ELSE AbsState[q]
      BY <1>2, <2>3, <2>5, AbsMapped DEF AbsState, Live
    <3> QED
      BY <3>1, AbsMapped DEF AbsState
  <2>8. /\ \A q \in OpId : q # o => AbsState'[q] = AbsState[q] /\ Pre(q)' = Pre(q)
        /\ AbsState'[o] = "unscheduled" /\ bound' = bound
    <3>1. AbsState = [q \in OpId |-> AbsState[q]]
      BY AbsMapped
    <3> QED
      BY <1>2, <2>7, <3>1 DEF Pre
  <2> DEFINE needs == [q \in OpId |-> IF AbsState[q] = "unscheduled" THEN NoOp ELSE Pre(q)]
             strict == [q \in OpId |-> IF AbsState[q] = "unscheduled" THEN FALSE ELSE bound[q].kind = "io"]
  <2>9. needs' = [needs EXCEPT ![o] = NoOp]
    BY <1>2, <2>8
  <2>10. strict' = [strict EXCEPT ![o] = FALSE]
    BY <1>2, <2>8
  <2>11. \A q \in OpId : needs[q] # o
    BY <1>2, <2>4, OpIdFacts
  <2> HIDE DEF needs, strict
  <2>12. Abs!Withdraw(o)
    <3> SUFFICES /\ AbsState[o] = "pending" /\ \A q \in OpId : needs[q] # o
                 /\ AbsState' = [AbsState EXCEPT ![o] = "unscheduled"]
                 /\ needs' = [needs EXCEPT ![o] = NoOp]
                 /\ strict' = [strict EXCEPT ![o] = FALSE]
      BY Zenon DEF Abs!Withdraw, needs, strict
    <3> QED
      BY <2>6, <2>7, <2>9, <2>10, <2>11
  <2> QED
    BY <1>2, <2>12 DEF Abs!Next
<1> QED
  BY <1>3, <1>4

\* The store that sets an operation's future finishes it.
LEMMA AbsSet ==
  ASSUME TypeInv, EngineInv, ResultInv, NEW t \in Thread, NEW o \in OpId, SetFuture(t, o)
  PROVE  Abs!Next
<1>1. /\ completeAt[o] = "set" /\ completeAt' = [completeAt EXCEPT ![o] = "filter"]
      /\ future' = [future EXCEPT ![o] = IF @ = "unset" THEN outcome[o] ELSE @]
      /\ UNCHANGED <<ops, bound>>
  BY DEF SetFuture, opVars, callVars
<1> DEFINE r == outcome[o]
<1>2. future[o] = "unset" /\ Live(o) /\ r \in Outcome
  BY <1>1 DEF ResultInv, SetInv, Live, TypeInv, TypeOK
<1>3. /\ future'[o] = r /\ r # "unset" /\ \A q \in OpId : q # o =>
           future'[q] = future[q] /\ (Live(q)' <=> Live(q))
  BY <1>1, <1>2 DEF Live, TypeInv, TypeOK, Outcome
<1>4. AbsState[o] = "pending"
  BY <1>2, AbsMapped
<1>5. AbsState' = [AbsState EXCEPT ![o] = r]
  <2>1. \A q \in OpId : AbsState'[q] = IF q = o THEN r ELSE AbsState[q]
    BY <1>3, AbsMapped DEF AbsState, Live
  <2> QED
    BY <2>1, AbsMapped DEF AbsState
<1>6. /\ \A q \in OpId : q # o => AbsState'[q] = AbsState[q]
      /\ AbsState'[o] # "unscheduled" /\ \A q \in OpId : Pre(q)' = Pre(q)
  <2>1. AbsState = [q \in OpId |-> AbsState[q]]
    BY AbsMapped
  <2> QED
    BY <1>1, <1>2, <1>5, <2>1 DEF Pre, Outcome
<1> DEFINE needs == [q \in OpId |-> IF AbsState[q] = "unscheduled" THEN NoOp ELSE Pre(q)]
           strict == [q \in OpId |-> IF AbsState[q] = "unscheduled" THEN FALSE ELSE bound[q].kind = "io"]
<1>7. needs' = needs /\ strict' = strict
  <2>1. \A q \in OpId : AbsState'[q] = "unscheduled" <=> AbsState[q] = "unscheduled"
    BY <1>4, <1>6
  <2> QED
    BY <1>1, <1>6, <2>1
<1>8. ASSUME strict[o], needs[o] # NoOp
      PROVE  AbsState[needs[o]] = "value" \/ (AbsState[needs[o]] = "error" /\ r = "error")
  <2>1. bound[o].kind = "io" /\ needs[o] = Pre(o) /\ Pre(o) # NoOp
    BY <1>4, <1>8
  <2>2. Pre(o) \in OpId
    BY <2>1 DEF Pre, TypeInv, TypeOK, Binding
  <2>3. future[Pre(o)] = "value" \/ (future[Pre(o)] = "error" /\ r = "error")
    BY <1>1, <2>1 DEF ResultInv, OutcomeInv
  <2> QED
    BY <2>1, <2>2, <2>3, AbsMapped
<1> HIDE DEF needs, strict
<1>9. IF strict[o] /\ needs[o] # NoOp
        THEN AbsState[needs[o]] = "value" \/ (AbsState[needs[o]] = "error" /\ r = "error")
        ELSE TRUE
  BY <1>8
<1>10. Abs!Finish(o, r)
  BY <1>4, <1>5, <1>7, <1>9 DEF Abs!Finish, Abs!MayEnd, needs, strict
<1> QED
  BY <1>2, <1>10 DEF Abs!Next, Abs!Outcome, Outcome

LEMMA AbsStep ==
  ASSUME TypeInv, EngineInv, ResultInv, [Next]_vars
  PROVE  [Abs!Next]_(Abs!vars)
<1> USE DEF Thread
<1> DEFINE Q == Abs!Next \/ UNCHANGED Abs!vars
<1>1. ASSUME UNCHANGED <<ops, future, bound, completeAt>> PROVE Q
  BY <1>1, AbsStays DEF Live
<1>2. ASSUME NEW o \in OpId, NEW l \in {"extract", "issue", "done"},
             completeAt[o] # "set", completeAt' = [completeAt EXCEPT ![o] = l],
             UNCHANGED <<ops, future, bound>>
      PROVE  Q
  <2>1. \A q \in OpId : Live(q)' <=> Live(q)
    BY <1>2 DEF Live, TypeInv, TypeOK
  <2> QED
    BY <1>2, <2>1, AbsStays
<1>3. ASSUME NEW c \in Clients, NextItem(c) PROVE Q
  <2> DEFINE n == monotoniccount + 1
  <2>1. /\ n \in OpId /\ completeAt[n] = "none" /\ n \notin ops
        /\ UNCHANGED <<ops, future, completeAt>>
    BY <1>3, EngineAssumption
       DEF NextItem, EngineAssumption, OpId, TypeInv, TypeOK, EngineInv, CallInv, FreshIds, frameVars
  <2>2. ~Live(n) /\ future[n] = "unset"
    BY <2>1 DEF Live, ResultInv, SetInv
  <2>3. \A q \in OpId : q # n => bound'[q] = bound[q]
    BY <1>3 DEF NextItem, TypeInv, TypeOK
  <2>4. \A q \in OpId : Live(q)' <=> Live(q)
    BY <2>1 DEF Live
  <2> HIDE DEF n
  <2> QED
    BY <2>1, <2>2, <2>3, <2>4, AbsStays
<1>4. ASSUME NEW t \in Thread, NEW o \in OpId, Extract(t, o) PROVE Q
  <2>1. o \in ops
    BY <1>4, CompletingAlone DEF Extract, Completing
  <2>2. /\ ops' = ops \ {o} /\ completeAt' = [completeAt EXCEPT ![o] = "set"]
        /\ UNCHANGED <<bound, future>>
    BY <1>4, <2>1, Zenon DEF Extract, opVars
  <2>3. \A q \in OpId : Live(q)' <=> Live(q)
    BY <2>1, <2>2 DEF Live, TypeInv, TypeOK
  <2> QED
    BY <2>2, <2>3, AbsStays
<1>5. ASSUME NEW c \in Clients, NextItem(c) \/ CallStep(c) PROVE Q
  <2>1. CASE Enqueue(c) \/ EndItems(c) \/ RunCallImmediate(c) \/ EndCall(c)
    BY <1>1, <2>1 DEF Enqueue, EndItems, RunCallImmediate, EndCall, opVars, frameVars
  <2> QED
    BY <1>3, <1>5, <2>1, AbsInsert, AbsThrows DEF CallStep
<1>6. ASSUME NEW c \in Clients, NEW o \in OpId, UserCompletes(c, o) PROVE Q
  <2>1. o \in ops /\ o \in deferred
    BY <1>6 DEF UserCompletes, EngineInv, HeldInv, Held
  <2>2. completeAt[o] # "set"
    BY <2>1 DEF EngineInv, CallInv, FreshIds
  <2>3. completeAt' = [completeAt EXCEPT ![o] = "extract"] /\ UNCHANGED <<ops, future, bound>>
    BY <1>6 DEF UserCompletes, CallComplete, opVars
  <2> QED
    BY <1>2, <2>2, <2>3
<1>7. ASSUME NEW t \in Thread, NEW o \in OpId, BodyReturns(t, o) PROVE Q
  <2>1. o \in ops
    BY <1>7 DEF BodyReturns, Running, EngineInv, HeldInv, Held
  <2>2. completeAt[o] # "set"
    BY <2>1 DEF EngineInv, CallInv, FreshIds
  <2>3. completeAt' = [completeAt EXCEPT ![o] = "extract"] /\ UNCHANGED <<ops, future, bound>>
    BY <1>7 DEF BodyReturns, CallComplete, opVars
  <2> QED
    BY <1>2, <2>2, <2>3
<1>8. ASSUME NEW t \in Thread, NEW o \in OpId, RunFilters(t, o) \/ CompleteReturns(t, o) PROVE Q
  <2>1. PICK l \in {"issue", "done"} :
          /\ completeAt[o] # "set" /\ completeAt' = [completeAt EXCEPT ![o] = l]
          /\ UNCHANGED <<ops, future, bound>>
    BY <1>8 DEF RunFilters, CompleteReturns, opVars
  <2> QED
    BY <1>2, <2>1
<1>9. ASSUME NEW t \in Thread, FrameStep(t) PROVE Q
  <2>1. PICK o \in OpId :
          \/ BodyReturns(t, o) \/ BodyDefers(t, o) \/ BodyEnds(t, o)
          \/ Extract(t, o) \/ SetFuture(t, o) \/ RunFilters(t, o)
          \/ Issue(t, o) \/ RunImmediate(t, o) \/ CompleteReturns(t, o)
    BY <1>9 DEF FrameStep
  <2>2. CASE BodyDefers(t, o) \/ BodyEnds(t, o) \/ Issue(t, o) \/ RunImmediate(t, o)
    BY <1>1, <2>2 DEF BodyDefers, BodyEnds, Issue, RunImmediate, opVars, frameVars
  <2> QED
    BY <1>4, <1>7, <1>8, <2>1, <2>2, AbsSet
<1>10. ASSUME NEW w \in Workers, RunWorker(w) PROVE Q
  BY <1>1, <1>10 DEF RunWorker, opVars
<1>11. ASSUME UNCHANGED vars PROVE Q
  BY <1>1, <1>11 DEF vars
<1> HIDE DEF Q
<1>12. Q
  BY <1>5, <1>6, <1>9, <1>10, <1>11 DEF Next, Quiescent
<1> QED
  BY <1>12 DEF Q

(***************************************************************************)
(* The engine implements AbstractOps: a holder of futures sees operations  *)
(* that are scheduled, withdrawn or completed, once, after their           *)
(* preconditions and with their errors, and nothing else.                  *)
(***************************************************************************)
THEOREM EngineImplementsAbstractOps == Spec => ImplementsAbstractOps
<1>1. Init => Abs!Init
  <2> SUFFICES ASSUME Init PROVE Abs!Init
    OBVIOUS
  <2>1. AbsState = [o \in OpId |-> "unscheduled"]
    BY DEF Init, AbsState
  <2> QED
    BY <2>1 DEF Abs!Init
<1> QED
  BY <1>1, AbsStep, ResultInvariant, PTL DEF Spec, ImplementsAbstractOps, Abs!Spec
=============================================================================
