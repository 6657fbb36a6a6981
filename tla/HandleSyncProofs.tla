-------------------------- MODULE HandleSyncProofs --------------------------
(***************************************************************************)
(* Proofs about HandleSync when each sync and close of a handle is chained *)
(* to the last one, for any threads, sizes and number of modifications.    *)
(***************************************************************************)
EXTENDS HandleSync, TLAPS

(***************************************************************************)
(* The inductive invariant. What a sync owes is a stretch of the bytes     *)
(* written, from byteswrittenatlastfsync on (OwedInv). The writes a sync   *)
(* has to cover end before the end of its stretch (CoverInv), and those    *)
(* that are still dirty once it has flushed end behind it (DirtyInv).      *)
(***************************************************************************)
\* No two syncs or closes overlap.
AloneInv ==
  \A t, u \in Threads : at[t] \in Syncing /\ at[u] \in Syncing => t = u

\* The end of the bytes that thread t's sync is going to credit.
End(t) == byteswrittenatlastfsync + owed[t]

OwedInv ==
  /\ byteswrittenatlastfsync <= byteswritten
  /\ \A t \in Threads :
       /\ at[t] = "loaded" =>
            owed[t] >= byteswrittenatlastfsync /\ owed[t] <= byteswritten
       /\ at[t] \in {"subtracted", "flushed"} =>
            owed[t] >= 0 /\ End(t) <= byteswritten

\* A modification is made by one thread, and stamped by the time it completes.
ChangeInv ==
  /\ \A w \in Change : stamp[w] <= byteswritten /\ (stamp[w] # 0 => w \in completed)
  /\ \A w \in completed \cup dirty : w <= started
  /\ \A t \in Threads : at[t] = "written" =>
       change[t] \in 1..started /\ change[t] \notin completed
  /\ \A t, u \in Threads :
       at[t] = "written" /\ at[u] = "written" /\ change[t] = change[u] => t = u

DirtyInv ==
  \A w \in dirty : stamp[w] # 0 =>
    /\ stamp[w] > byteswrittenatlastfsync
    /\ \A t \in Threads : at[t] = "flushed" => stamp[w] > End(t)

CoverInv ==
  \A t \in Threads :
    /\ at[t] \in Syncing => mustcover[t] \subseteq completed
    /\ at[t] = "loaded" => \A w \in mustcover[t] : stamp[w] <= owed[t]
    /\ at[t] \in {"subtracted", "flushed"} => \A w \in mustcover[t] : stamp[w] <= End(t)
    /\ at[t] = "closeflushed" /\ SyncOnClose =>
         \A w \in mustcover[t] : stamp[w] # 0 => w \notin dirty

SyncInv == AloneInv /\ OwedInv /\ ChangeInv /\ DirtyInv /\ CoverInv

LEMMA Bounds ==
  /\ MaxChanges \in Nat
  /\ \A n \in Sizes : n \in Nat /\ n > 0
BY SyncAssumption

\* An Init state has every type and part of the invariant.
LEMMA SyncInit == Init => TypeOK /\ SyncInv
<1> SUFFICES ASSUME Init PROVE TypeOK /\ SyncInv
  OBVIOUS
<1> USE Bounds
<1>1. TypeOK
  BY DEF Init, TypeOK, Label, Change
<1>2. SyncInv
  BY DEF Init, SyncInv, AloneInv, OwedInv, ChangeInv, DirtyInv, CoverInv,
     Syncing, Change, End
<1> QED BY <1>1, <1>2

(***************************************************************************)
(* Every step keeps the types. SyncCredits needs OwedInv: a negative owed  *)
(* would bring byteswrittenatlastfsync below zero.                         *)
(***************************************************************************)
LEMMA SyncTypeStep == TypeOK /\ SyncInv /\ [Next]_vars => TypeOK'
<1> SUFFICES ASSUME TypeOK, SyncInv, [Next]_vars PROVE TypeOK'
  OBVIOUS
<1> USE Bounds DEF TypeOK, Label, Goto, Change, changes, counters
<1>1. ASSUME NEW t \in Threads, Pwritev(t) PROVE TypeOK'
  BY <1>1 DEF Pwritev
<1>2. ASSUME NEW t \in Threads, CountWritten(t) PROVE TypeOK'
  <2>1. byteswritten' \in Nat
    BY <1>2 DEF CountWritten, Counts
  <2>2. change[t] \in Change
    BY <1>2 DEF CountWritten, SyncInv, ChangeInv
  <2>3. stamp' \in [Change -> Nat]
    BY <1>2, <2>1 DEF CountWritten
  <2> QED BY <1>2, <2>1, <2>2, <2>3 DEF CountWritten
<1>3. ASSUME NEW t \in Threads, Zero(t) PROVE TypeOK'
  BY <1>3 DEF Zero
<1>4. ASSUME NEW t \in Threads, SyncLoads(t) PROVE TypeOK'
  BY <1>4 DEF SyncLoads
<1>5. ASSUME NEW t \in Threads, SyncSubtracts(t) PROVE TypeOK'
  BY SMTT(20), <1>5 DEF SyncSubtracts
<1>6. ASSUME NEW t \in Threads, SyncFlushes(t) PROVE TypeOK'
  BY <1>6 DEF SyncFlushes
<1>7. ASSUME NEW t \in Threads, SyncFails(t) PROVE TypeOK'
  BY <1>7 DEF SyncFails
<1>8. ASSUME NEW t \in Threads, SyncCredits(t) PROVE TypeOK'
  BY SMTT(20), <1>8 DEF SyncCredits, Credit, SyncInv, OwedInv
<1>9. ASSUME NEW t \in Threads, CloseBegins(t) PROVE TypeOK'
  BY <1>9 DEF CloseBegins
<1>10. ASSUME NEW t \in Threads, CloseFlushes(t) PROVE TypeOK'
  BY <1>10 DEF CloseFlushes
<1>11. ASSUME NEW t \in Threads, CloseFails(t) PROVE TypeOK'
  BY <1>11 DEF CloseFails
<1>12. ASSUME NEW t \in Threads, CloseFd(t) PROVE TypeOK'
  BY <1>12 DEF CloseFd
<1>13. CASE UNCHANGED vars
  BY <1>13 DEF vars
<1> QED
  BY <1>1, <1>2, <1>3, <1>4, <1>5, <1>6, <1>7, <1>8, <1>9, <1>10, <1>11,
     <1>12, <1>13 DEF Next

\* No step makes two syncs or closes overlap.
LEMMA AloneStep == ASSUME OneSync, TypeOK, SyncInv, [Next]_vars PROVE AloneInv'
<1> USE Bounds DEF TypeOK, Goto, Change, changes, counters, Syncing, End,
     SyncInv, AloneInv, OwedInv, ChangeInv, DirtyInv, CoverInv
<1>1. ASSUME NEW t \in Threads, Pwritev(t) PROVE AloneInv'
  BY <1>1 DEF Pwritev
<1>2. ASSUME NEW t \in Threads, CountWritten(t) PROVE AloneInv'
  BY <1>2 DEF CountWritten, Counts
<1>3. ASSUME NEW t \in Threads, Zero(t) PROVE AloneInv'
  BY <1>3 DEF Zero
<1>4. ASSUME NEW t \in Threads, SyncLoads(t) PROVE AloneInv'
  BY <1>4 DEF SyncLoads, MayStart
<1>5. ASSUME NEW t \in Threads, SyncSubtracts(t) PROVE AloneInv'
  BY <1>5 DEF SyncSubtracts
<1>6. ASSUME NEW t \in Threads, SyncFlushes(t) PROVE AloneInv'
  BY <1>6 DEF SyncFlushes
<1>7. ASSUME NEW t \in Threads, SyncFails(t) PROVE AloneInv'
  BY <1>7 DEF SyncFails
<1>8. ASSUME NEW t \in Threads, SyncCredits(t) PROVE AloneInv'
  BY <1>8 DEF SyncCredits, Credit
<1>9. ASSUME NEW t \in Threads, CloseBegins(t) PROVE AloneInv'
  BY <1>9 DEF CloseBegins, MayStart, Flushes, write_count_since_fsync
<1>10. ASSUME NEW t \in Threads, CloseFlushes(t) PROVE AloneInv'
  BY <1>10 DEF CloseFlushes
<1>11. ASSUME NEW t \in Threads, CloseFails(t) PROVE AloneInv'
  BY <1>11 DEF CloseFails
<1>12. ASSUME NEW t \in Threads, CloseFd(t) PROVE AloneInv'
  BY <1>12 DEF CloseFd
<1>13. CASE UNCHANGED vars
  BY <1>13 DEF vars
<1> QED
  BY <1>1, <1>2, <1>3, <1>4, <1>5, <1>6, <1>7, <1>8, <1>9, <1>10, <1>11,
     <1>12, <1>13 DEF Next

\* Every step keeps what syncs owe within what was written.
LEMMA OwedStep == ASSUME OneSync, TypeOK, SyncInv, [Next]_vars PROVE OwedInv'
<1> USE Bounds DEF TypeOK, Goto, Change, changes, counters, Syncing, End,
     SyncInv, AloneInv, OwedInv, ChangeInv, DirtyInv, CoverInv
<1>1. ASSUME NEW t \in Threads, Pwritev(t) PROVE OwedInv'
  BY <1>1 DEF Pwritev
<1>2. ASSUME NEW t \in Threads, CountWritten(t) PROVE OwedInv'
  BY SMTT(20), <1>2 DEF CountWritten, Counts
<1>3. ASSUME NEW t \in Threads, Zero(t) PROVE OwedInv'
  BY <1>3 DEF Zero
<1>4. ASSUME NEW t \in Threads, SyncLoads(t) PROVE OwedInv'
  BY <1>4 DEF SyncLoads, MayStart
<1>5. ASSUME NEW t \in Threads, SyncSubtracts(t) PROVE OwedInv'
  BY <1>5 DEF SyncSubtracts
<1>6. ASSUME NEW t \in Threads, SyncFlushes(t) PROVE OwedInv'
  BY <1>6 DEF SyncFlushes
<1>7. ASSUME NEW t \in Threads, SyncFails(t) PROVE OwedInv'
  BY <1>7 DEF SyncFails
<1>8. ASSUME NEW t \in Threads, SyncCredits(t) PROVE OwedInv'
  BY <1>8 DEF SyncCredits, Credit
<1>9. ASSUME NEW t \in Threads, CloseBegins(t) PROVE OwedInv'
  BY <1>9 DEF CloseBegins, MayStart, Flushes, write_count_since_fsync
<1>10. ASSUME NEW t \in Threads, CloseFlushes(t) PROVE OwedInv'
  BY <1>10 DEF CloseFlushes
<1>11. ASSUME NEW t \in Threads, CloseFails(t) PROVE OwedInv'
  BY <1>11 DEF CloseFails
<1>12. ASSUME NEW t \in Threads, CloseFd(t) PROVE OwedInv'
  BY <1>12 DEF CloseFd
<1>13. CASE UNCHANGED vars
  BY <1>13 DEF vars
<1> QED
  BY <1>1, <1>2, <1>3, <1>4, <1>5, <1>6, <1>7, <1>8, <1>9, <1>10, <1>11,
     <1>12, <1>13 DEF Next

\* Every step keeps the modifications apart, and stamps in range.
LEMMA ChangeStep == ASSUME OneSync, TypeOK, SyncInv, [Next]_vars PROVE ChangeInv'
<1> USE Bounds DEF TypeOK, Goto, Change, changes, counters, Syncing, End,
     SyncInv, AloneInv, OwedInv, ChangeInv, DirtyInv, CoverInv
<1>1. ASSUME NEW t \in Threads, Pwritev(t) PROVE ChangeInv'
  BY <1>1 DEF Pwritev
<1>2. ASSUME NEW t \in Threads, CountWritten(t) PROVE ChangeInv'
  BY <1>2 DEF CountWritten, Counts
<1>3. ASSUME NEW t \in Threads, Zero(t) PROVE ChangeInv'
  BY <1>3 DEF Zero
<1>4. ASSUME NEW t \in Threads, SyncLoads(t) PROVE ChangeInv'
  BY <1>4 DEF SyncLoads, MayStart
<1>5. ASSUME NEW t \in Threads, SyncSubtracts(t) PROVE ChangeInv'
  BY <1>5 DEF SyncSubtracts
<1>6. ASSUME NEW t \in Threads, SyncFlushes(t) PROVE ChangeInv'
  BY <1>6 DEF SyncFlushes
<1>7. ASSUME NEW t \in Threads, SyncFails(t) PROVE ChangeInv'
  BY <1>7 DEF SyncFails
<1>8. ASSUME NEW t \in Threads, SyncCredits(t) PROVE ChangeInv'
  BY <1>8 DEF SyncCredits, Credit
<1>9. ASSUME NEW t \in Threads, CloseBegins(t) PROVE ChangeInv'
  BY <1>9 DEF CloseBegins, MayStart, Flushes, write_count_since_fsync
<1>10. ASSUME NEW t \in Threads, CloseFlushes(t) PROVE ChangeInv'
  BY <1>10 DEF CloseFlushes
<1>11. ASSUME NEW t \in Threads, CloseFails(t) PROVE ChangeInv'
  BY <1>11 DEF CloseFails
<1>12. ASSUME NEW t \in Threads, CloseFd(t) PROVE ChangeInv'
  BY <1>12 DEF CloseFd
<1>13. CASE UNCHANGED vars
  BY <1>13 DEF vars
<1> QED
  BY <1>1, <1>2, <1>3, <1>4, <1>5, <1>6, <1>7, <1>8, <1>9, <1>10, <1>11,
     <1>12, <1>13 DEF Next

\* Every step keeps dirty writes behind what is credited.
LEMMA DirtyStep == ASSUME OneSync, TypeOK, SyncInv, [Next]_vars PROVE DirtyInv'
<1> USE Bounds DEF TypeOK, Goto, Change, changes, counters, Syncing, End,
     SyncInv, AloneInv, OwedInv, ChangeInv, DirtyInv, CoverInv
<1>1. ASSUME NEW t \in Threads, Pwritev(t) PROVE DirtyInv'
  BY <1>1 DEF Pwritev
<1>2. ASSUME NEW t \in Threads, CountWritten(t) PROVE DirtyInv'
  BY SMTT(20), <1>2 DEF CountWritten, Counts
<1>3. ASSUME NEW t \in Threads, Zero(t) PROVE DirtyInv'
  BY <1>3 DEF Zero
<1>4. ASSUME NEW t \in Threads, SyncLoads(t) PROVE DirtyInv'
  BY <1>4 DEF SyncLoads, MayStart
<1>5. ASSUME NEW t \in Threads, SyncSubtracts(t) PROVE DirtyInv'
  BY <1>5 DEF SyncSubtracts
<1>6. ASSUME NEW t \in Threads, SyncFlushes(t) PROVE DirtyInv'
  <2>1. CASE owed[t] # 0
    BY <1>6, <2>1 DEF SyncFlushes
  <2>2. CASE owed[t] = 0
    <3>1. \A u \in Threads : at'[u] = "flushed" => u = t
      BY <1>6 DEF SyncFlushes
    <3>2. End(t)' = byteswrittenatlastfsync
      BY <1>6, <2>2 DEF SyncFlushes
    <3> QED BY <1>6, <2>2, <3>1, <3>2 DEF SyncFlushes
  <2> QED BY <2>1, <2>2
<1>7. ASSUME NEW t \in Threads, SyncFails(t) PROVE DirtyInv'
  BY <1>7 DEF SyncFails
<1>8. ASSUME NEW t \in Threads, SyncCredits(t) PROVE DirtyInv'
  BY <1>8 DEF SyncCredits, Credit
<1>9. ASSUME NEW t \in Threads, CloseBegins(t) PROVE DirtyInv'
  BY <1>9 DEF CloseBegins, MayStart, Flushes, write_count_since_fsync
<1>10. ASSUME NEW t \in Threads, CloseFlushes(t) PROVE DirtyInv'
  BY <1>10 DEF CloseFlushes
<1>11. ASSUME NEW t \in Threads, CloseFails(t) PROVE DirtyInv'
  BY <1>11 DEF CloseFails
<1>12. ASSUME NEW t \in Threads, CloseFd(t) PROVE DirtyInv'
  BY <1>12 DEF CloseFd
<1>13. CASE UNCHANGED vars
  BY <1>13 DEF vars
<1> QED
  BY <1>1, <1>2, <1>3, <1>4, <1>5, <1>6, <1>7, <1>8, <1>9, <1>10, <1>11,
     <1>12, <1>13 DEF Next

\* Every step keeps what a sync has to cover within its stretch.
LEMMA CoverStep == ASSUME OneSync, TypeOK, SyncInv, [Next]_vars PROVE CoverInv'
<1> USE Bounds DEF TypeOK, Goto, Change, changes, counters, Syncing, End,
     SyncInv, AloneInv, OwedInv, ChangeInv, DirtyInv, CoverInv
<1>1. ASSUME NEW t \in Threads, Pwritev(t) PROVE CoverInv'
  BY <1>1 DEF Pwritev
<1>2. ASSUME NEW t \in Threads, CountWritten(t) PROVE CoverInv'
  BY <1>2 DEF CountWritten, Counts
<1>3. ASSUME NEW t \in Threads, Zero(t) PROVE CoverInv'
  BY <1>3 DEF Zero
<1>4. ASSUME NEW t \in Threads, SyncLoads(t) PROVE CoverInv'
  BY <1>4 DEF SyncLoads, MayStart
<1>5. ASSUME NEW t \in Threads, SyncSubtracts(t) PROVE CoverInv'
  BY <1>5 DEF SyncSubtracts
<1>6. ASSUME NEW t \in Threads, SyncFlushes(t) PROVE CoverInv'
  BY <1>6 DEF SyncFlushes
<1>7. ASSUME NEW t \in Threads, SyncFails(t) PROVE CoverInv'
  BY <1>7 DEF SyncFails
<1>8. ASSUME NEW t \in Threads, SyncCredits(t) PROVE CoverInv'
  BY <1>8 DEF SyncCredits, Credit
<1>9. ASSUME NEW t \in Threads, CloseBegins(t) PROVE CoverInv'
  BY <1>9 DEF CloseBegins, MayStart, Flushes, write_count_since_fsync
<1>10. ASSUME NEW t \in Threads, CloseFlushes(t) PROVE CoverInv'
  BY <1>10 DEF CloseFlushes
<1>11. ASSUME NEW t \in Threads, CloseFails(t) PROVE CoverInv'
  BY <1>11 DEF CloseFails
<1>12. ASSUME NEW t \in Threads, CloseFd(t) PROVE CoverInv'
  BY <1>12 DEF CloseFd
<1>13. CASE UNCHANGED vars
  BY <1>13 DEF vars
<1> QED
  BY <1>1, <1>2, <1>3, <1>4, <1>5, <1>6, <1>7, <1>8, <1>9, <1>10, <1>11,
     <1>12, <1>13 DEF Next

(***************************************************************************)
(* If each sync and close of a handle is chained to the last one, then     *)
(* however writes interleave with them: a sync that completes has covered  *)
(* every write that had completed when it began, close() closes no handle  *)
(* with such a write unflushed, and write_count_since_fsync() never wraps. *)
(***************************************************************************)
THEOREM ChainedSyncsCover ==
  ASSUME OneSync
  PROVE  Spec => [](TypeOK /\ SyncCoversWrites /\ CloseCoversWrites /\ CountNeverWraps)
<1>1. Init => TypeOK /\ SyncInv
  BY SyncInit
<1>2. (TypeOK /\ SyncInv) /\ [Next]_vars => (TypeOK /\ SyncInv)'
  BY SyncTypeStep, AloneStep, OwedStep, ChangeStep, DirtyStep, CoverStep DEF SyncInv
<1>3. ASSUME TypeOK, SyncInv
      PROVE  TypeOK /\ SyncCoversWrites /\ CloseCoversWrites /\ CountNeverWraps
  <2> USE <1>3 DEF SyncInv, TypeOK, Change
  <2>1. SyncCoversWrites
    BY DEF SyncCoversWrites, Missed, Written, CoverInv, DirtyInv, End
  <2>2. CloseCoversWrites
    BY DEF CloseCoversWrites, Missed, Written, CoverInv, Syncing
  <2>3. CountNeverWraps
    BY DEF CountNeverWraps, OwedInv, write_count_since_fsync
  <2> QED BY <2>1, <2>2, <2>3
<1> QED
  BY <1>1, <1>2, <1>3, PTL DEF Spec
=============================================================================
