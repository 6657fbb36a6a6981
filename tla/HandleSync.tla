----------------------------- MODULE HandleSync -----------------------------
(***************************************************************************)
(* What one open file handle knows of the data it has yet to flush: its    *)
(* counters byteswritten and byteswrittenatlastfsync, as dowrite(),        *)
(* dozero(), dotruncate(), dosync() and close() of the POSIX build use     *)
(* them (afio.ipp), each on a pool thread of its own, unless its operation *)
(* was chained to the other's.                                             *)
(*                                                                         *)
(* The operating system is external: a modification is dirty from its      *)
(* system call until an fsync() or, if the call fails, for ever after.     *)
(***************************************************************************)
EXTENDS Integers

CONSTANTS
  Threads,     \* pool threads that work on the handle
  MaxChanges,  \* bound on the modifications of the file
  Sizes,       \* how many bytes a write may write
  Kinds,       \* which modifications clients schedule
  OneSync,     \* whether clients chain each sync and close to the last one
  SyncOnClose  \* the handle was opened for sync_on_close and write

ASSUME SyncAssumption ==
  /\ MaxChanges \in Nat
  /\ Sizes \subseteq Nat \ {0}
  /\ Kinds \subseteq {"write", "zero"}
  /\ OneSync \in BOOLEAN /\ SyncOnClose \in BOOLEAN

Change == 1..MaxChanges

VARIABLES
  byteswritten,
  byteswrittenatlastfsync,
  open,        \* fd is not -999
  started,     \* how many modifications there have been
  stamp,       \* change -> byteswritten once its bytes were added
  dirty,       \* changes not on storage
  completed,   \* changes whose operation completed
  at,          \* thread -> where it is
  change,      \* thread -> the change it makes
  owed,        \* thread -> its bytestobesynced
  mustcover    \* thread -> what had completed when its sync or close began

counters == <<byteswritten, byteswrittenatlastfsync>>
changes == <<started, stamp>>
vars == <<counters, open, changes, dirty, completed, at, change, owed, mustcover>>

Label == {"idle", "written", "loaded", "subtracted", "flushed", "closing",
          "closeflushed"}
Syncing == {"loaded", "subtracted", "flushed", "closing", "closeflushed"}

TypeOK ==
  /\ byteswritten \in Nat
  /\ byteswrittenatlastfsync \in Nat
  /\ open \in BOOLEAN
  /\ started \in 0..MaxChanges
  /\ stamp \in [Change -> Nat]
  /\ dirty \in SUBSET Change
  /\ completed \in SUBSET Change
  /\ at \in [Threads -> Label]
  /\ change \in [Threads -> 0..MaxChanges]
  /\ owed \in [Threads -> Int]
  /\ mustcover \in [Threads -> SUBSET Change]

write_count_since_fsync == byteswritten - byteswrittenatlastfsync

Goto(t, l) == at' = [at EXCEPT ![t] = l]

(***************************************************************************)
(* Modifications.                                                          *)
(***************************************************************************)

\* dowrite(): pwritev() has written, and byteswritten is yet to know.  A write of
\* more than IOV_MAX buffers is several of these, the last of which may fail.
Pwritev(t) ==
  /\ at[t] = "idle" /\ open /\ started < MaxChanges /\ "write" \in Kinds
  /\ started' = started + 1
  /\ change' = [change EXCEPT ![t] = started']
  /\ dirty' = dirty \cup {started'}
  /\ Goto(t, "written")
  /\ UNCHANGED <<counters, open, stamp, completed, owed, mustcover>>

Counts(n) == n

CountWritten(t) ==
  /\ at[t] = "written"
  /\ \E n \in Sizes : byteswritten' = byteswritten + Counts(n)
  /\ stamp' = [stamp EXCEPT ![change[t]] = byteswritten']
  /\ completed' = completed \cup {change[t]}
  /\ Goto(t, "idle")
  /\ UNCHANGED <<byteswrittenatlastfsync, open, started, dirty, change, owed, mustcover>>

\* dozero() and dotruncate() change the file and count nothing.
Zero(t) ==
  /\ at[t] = "idle" /\ open /\ started < MaxChanges /\ "zero" \in Kinds
  /\ started' = started + 1
  /\ dirty' = dirty \cup {started'}
  /\ completed' = completed \cup {started'}
  /\ UNCHANGED <<counters, open, stamp, at, change, owed, mustcover>>

(***************************************************************************)
(* dosync(). Each access of an atomic counter is a step.                   *)
(***************************************************************************)
MayStart(t) ==
  at[t] = "idle" /\ (OneSync => \A u \in Threads : at[u] \notin Syncing)

SyncLoads(t) ==
  /\ MayStart(t)
  /\ owed' = [owed EXCEPT ![t] = byteswritten]
  /\ mustcover' = [mustcover EXCEPT ![t] = completed]
  /\ Goto(t, "loaded")
  /\ UNCHANGED <<counters, open, changes, dirty, completed, change>>

SyncSubtracts(t) ==
  /\ at[t] = "loaded"
  /\ owed' = [owed EXCEPT ![t] = @ - byteswrittenatlastfsync]
  /\ Goto(t, "subtracted")
  /\ UNCHANGED <<counters, open, changes, dirty, completed, change, mustcover>>

\* fsync(), if there is anything to be synced.
SyncFlushes(t) ==
  /\ at[t] = "subtracted"
  /\ open \/ owed[t] = 0
  /\ dirty' = IF owed[t] # 0 THEN {} ELSE dirty
  /\ Goto(t, "flushed")
  /\ UNCHANGED <<counters, open, changes, completed, change, owed, mustcover>>

\* fsync() fails, as it does on a closed handle: dosync() throws.
SyncFails(t) ==
  /\ at[t] = "subtracted" /\ owed[t] # 0
  /\ Goto(t, "idle")
  /\ UNCHANGED <<counters, open, changes, dirty, completed, change, owed, mustcover>>

\* Mutant: everything written by now is taken to be synced.
Credit_All(t) == write_count_since_fsync
\* Mutant: the total is credited, not the difference.
Credit_Total(t) == byteswritten
Credit(t) == owed[t]

SyncCredits(t) ==
  /\ at[t] = "flushed"
  /\ byteswrittenatlastfsync' = byteswrittenatlastfsync + Credit(t)
  /\ Goto(t, "idle")
  /\ UNCHANGED <<byteswritten, open, changes, dirty, completed, change, owed, mustcover>>

(***************************************************************************)
(* close().                                                                *)
(***************************************************************************)
\* Mutant: the handle is flushed only if it was never synced before.
Flushes_Once == SyncOnClose /\ write_count_since_fsync # 0 /\ byteswrittenatlastfsync = 0
Flushes == SyncOnClose /\ write_count_since_fsync # 0

CloseBegins(t) ==
  /\ MayStart(t) /\ open
  /\ mustcover' = [mustcover EXCEPT ![t] = completed]
  /\ Goto(t, IF Flushes THEN "closing" ELSE "closeflushed")
  /\ UNCHANGED <<counters, open, changes, dirty, completed, change, owed>>

CloseFlushes(t) ==
  /\ at[t] = "closing" /\ open
  /\ dirty' = {}
  /\ Goto(t, "closeflushed")
  /\ UNCHANGED <<counters, open, changes, completed, change, owed, mustcover>>

\* The fsync(), unlink() or ::close() of close() fails: the handle stays open.
CloseFails(t) ==
  /\ at[t] \in {"closing", "closeflushed"}
  /\ Goto(t, "idle")
  /\ UNCHANGED <<counters, open, changes, dirty, completed, change, owed, mustcover>>

CloseFd(t) ==
  /\ at[t] = "closeflushed"
  /\ open' = FALSE
  /\ Goto(t, "idle")
  /\ UNCHANGED <<counters, changes, dirty, completed, change, owed, mustcover>>

-----------------------------------------------------------------------------
Init ==
  /\ byteswritten = 0 /\ byteswrittenatlastfsync = 0
  /\ open = TRUE
  /\ started = 0
  /\ stamp = [w \in Change |-> 0]
  /\ dirty = {} /\ completed = {}
  /\ at = [t \in Threads |-> "idle"]
  /\ change = [t \in Threads |-> 0]
  /\ owed = [t \in Threads |-> 0]
  /\ mustcover = [t \in Threads |-> {}]

Next ==
  \E t \in Threads :
    \/ Pwritev(t) \/ CountWritten(t) \/ Zero(t)
    \/ SyncLoads(t) \/ SyncSubtracts(t) \/ SyncFlushes(t) \/ SyncFails(t)
    \/ SyncCredits(t)
    \/ CloseBegins(t) \/ CloseFlushes(t) \/ CloseFails(t) \/ CloseFd(t)

Spec == Init /\ [][Next]_vars

-----------------------------------------------------------------------------
\* What thread t's sync or close has to have put on storage, and has not.
Missed(t) == mustcover[t] \cap dirty

\* The modifications that dowrite() counted.
Written == {w \in Change : stamp[w] # 0}

(***************************************************************************)
(* "Schedule a batch of asynchronous content synchronisations with         *)
(* physical storage after preceding operations" (afio.hpp): when a sync is *)
(* about to complete, every modification that had completed when it began  *)
(* is on storage, whether this sync or an earlier one put it there. The    *)
(* code does not keep this promise: overlapping syncs skip a flush         *)
(* (HandleSync_race), and so does a sync of zeros, even without overlap    *)
(* (HandleSync_zero).                                                      *)
(***************************************************************************)
SyncCovers ==
  \A t \in Threads : at[t] = "flushed" => Missed(t) = {}

(***************************************************************************)
(* The promise dosync() does keep when syncs never overlap: it covers what *)
(* dowrite() wrote. A write whose bytes arrive between the fsync() and the *)
(* credit of a sync is left to the next one.                               *)
(***************************************************************************)
SyncCoversWrites ==
  \A t \in Threads : at[t] = "flushed" => Missed(t) \cap Written = {}

(***************************************************************************)
(* sync_on_close flushes "just before file close" (afio.hpp): close()      *)
(* closes no handle while a write that completed before it is unflushed.   *)
(***************************************************************************)
CloseCoversWrites ==
  SyncOnClose =>
    \A t \in Threads : at[t] = "closeflushed" => Missed(t) \cap Written = {}

(***************************************************************************)
(* write_count_since_fsync() is "how many bytes have been written since    *)
(* this handle was last fsynced" (afio.hpp): it never goes below zero,     *)
(* which as an unsigned number would be an enormous count.  It holds where *)
(* OneSync does; where two syncs overlap, as in HandleSync_race, both add  *)
(* the same bytes to the count of what is synced.                          *)
(***************************************************************************)
CountNeverWraps == write_count_since_fsync >= 0
=============================================================================
