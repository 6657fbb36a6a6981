------------------------------ MODULE FileData ------------------------------
(***************************************************************************)
(* What operations do to the data of a file: doread(), dowrite(), dozero() *)
(* and doextents() of async_file_io_dispatcher_compat (afio.ipp), on pool  *)
(* threads, on files that others write to, zero and truncate meanwhile.    *)
(* Reads and writes go to the system in batches of IOV_MAX buffers; zero   *)
(* punches holes, or writes zeros where the file system has none; extents  *)
(* walks from data to hole to data.                                        *)
(*                                                                         *)
(* A buffer is one block.  A system call is atomic, and transfers less     *)
(* than asked at the end of the file or, for a write, when space is short. *)
(* Calls that EINTR interrupts are repeated at once and left out, and so   *)
(* are filters_buffers and the counts of bytes (HandleSync has these).     *)
(***************************************************************************)
EXTENDS Integers, Sequences, FiniteSetsExt

CONSTANTS
  Threads,    \* pool threads
  Capacity,   \* blocks a file may have
  MaxBuffers, \* most buffers of a request
  IovMax      \* IOV_MAX

ASSUME DataAssumption ==
  /\ Capacity \in Nat \ {0} /\ MaxBuffers \in 1..Capacity /\ IovMax \in Nat \ {0}

VARIABLES
  data,      \* the blocks of the file that have storage
  size,
  punches,   \* the file system has FALLOC_FL_PUNCH_HOLE
  seeks,     \* and SEEK_DATA and SEEK_HOLE
  pc,        \* thread -> where it is
  kind,      \* thread -> its operation
  ranges,    \* thread -> <<first block, blocks>> of each range asked for
  r,         \* thread -> the range it is at
  n,         \* thread -> the buffer it is at
  moved,     \* thread -> bytesread or byteswritten
  landed,    \* history: thread -> <<range, buffer, block>> transferred
  short,     \* history: thread -> some write was short
  cut,       \* history: thread -> the file got shorter during the operation
  seek,      \* thread -> end of doextents(), or start while it looks for end
  out,       \* thread -> extents it found, <<first block, blocks>>
  always,    \* history: thread -> blocks that were data all the time
  ever       \* history: thread -> blocks that were data at some time

filesystem == <<data, size, punches, seeks>>
transfer == <<kind, ranges, r, n, moved, landed, short>>
scan == <<seek, out>>
seen == <<always, ever>>
datavars == <<filesystem, pc, transfer, cut, scan, seen>>

Block == 0..(Capacity - 1)
Range1 == {x \in Block \X (1..MaxBuffers) : x[1] + x[2] <= Capacity}
Kind == {"read", "write", "append", "zero", "extents"}
PC == {"idle", "batch", "punch", "seekdata", "seekhole", "report", "ok", "undefined"}

DataTypeOK ==
  /\ data \subseteq 0..(size - 1) /\ size \in 0..Capacity
  /\ punches \in BOOLEAN /\ seeks \in BOOLEAN
  /\ pc \in [Threads -> PC]
  /\ kind \in [Threads -> Kind \cup {"none"}]
  /\ \A t \in Threads :
       /\ ranges[t] \in Seq(Range1) /\ Len(ranges[t]) <= 2
       /\ r[t] \in 1..2 /\ n[t] \in 0..(MaxBuffers + IovMax)
       /\ moved[t] \in 0..(IF ranges[t] = <<>> THEN 0 ELSE ranges[t][r[t]][2])
       /\ landed[t] \subseteq (1..2) \X (0..MaxBuffers) \X Block
       /\ seek[t] \in 0..Capacity
       /\ out[t] \in Seq((0..Capacity) \X (0..Capacity))
       /\ always[t] \subseteq Block /\ ever[t] \subseteq Block
  /\ short \in [Threads -> BOOLEAN] /\ cut \in [Threads -> BOOLEAN]

Lesser(a, b) == IF a < b THEN a ELSE b
Goto(t, l) == pc' = [pc EXCEPT ![t] = l]

\* The operation is over.
Reset(t) ==
  /\ Goto(t, "idle")
  /\ kind' = [kind EXCEPT ![t] = "none"]
  /\ ranges' = [ranges EXCEPT ![t] = <<>>]
  /\ r' = [r EXCEPT ![t] = 1]
  /\ n' = [n EXCEPT ![t] = 0]
  /\ moved' = [moved EXCEPT ![t] = 0]
  /\ landed' = [landed EXCEPT ![t] = {}]
  /\ short' = [short EXCEPT ![t] = FALSE]
  /\ cut' = [cut EXCEPT ![t] = FALSE]
  /\ seek' = [seek EXCEPT ![t] = 0]
  /\ out' = [out EXCEPT ![t] = <<>>]
  /\ always' = [always EXCEPT ![t] = {}]
  /\ ever' = [ever EXCEPT ![t] = {}]
  /\ UNCHANGED filesystem

\* The file changes: those who scan it see it, sooner or later.
Store(d) ==
  /\ data' = d
  /\ always' = [t \in Threads |-> always[t] \cap d]
  /\ ever' = [t \in Threads |-> IF kind[t] = "extents" THEN ever[t] \cup d ELSE {}]

-----------------------------------------------------------------------------
(***************************************************************************)
(* doread() and dowrite(), and the fallback of dozero(), whose list of     *)
(* buffers ends with one for the remainder, which may be empty.            *)
(***************************************************************************)
Begin(t, k, asked) ==
  /\ pc[t] = "idle"
  /\ kind' = [kind EXCEPT ![t] = k]
  /\ ranges' = [ranges EXCEPT ![t] = asked]
  /\ Goto(t, IF k = "zero" THEN "punch" ELSE "batch")
  /\ UNCHANGED <<filesystem, r, n, moved, landed, short, cut, scan, seen>>

First(t) == ranges[t][r[t]][1]
Buffers(t) == ranges[t][r[t]][2]
Vecs(t) == IF kind[t] = "zero" THEN Buffers(t) + 1 ELSE Buffers(t)
Amount(t) == Lesser(IovMax, Buffers(t) - n[t])
Batch(t) == pc[t] = "batch" /\ n[t] < Vecs(t)

\* req.where + bytesread
\* Mutant: where the request begins, for every batch.
Offset_First(t) == First(t)
Offset(t) == First(t) + moved[t]

\* An append goes wherever the end of the file is.
\* Mutant: where the request says.
Where_Offset(t) == Offset(t)
Where(t) == IF kind[t] = "append" THEN size ELSE Offset(t)

Transferred(t, at, k) ==
  /\ landed' = [landed EXCEPT ![t] = @ \cup {<<r[t], n[t] + i, at + i>> : i \in 0..(k - 1)}]
  /\ moved' = [moved EXCEPT ![t] = @ + k]
  /\ n' = [n EXCEPT ![t] = @ + IovMax]
  /\ UNCHANGED <<pc, kind, ranges, r, cut, scan>>

Preadv(t) ==
  /\ Batch(t) /\ kind[t] = "read"
  /\ Transferred(t, Offset(t), Max({0, Lesser(Amount(t), size - Offset(t))}))
  /\ UNCHANGED <<filesystem, short, seen>>

Pwritev(t) ==
  /\ Batch(t) /\ kind[t] # "read"
  /\ \E k \in 0..Amount(t) :
       LET at == Where(t) IN
       /\ at + k <= Capacity /\ (k = 0 => Amount(t) = 0)
       /\ Transferred(t, at, k)
       /\ short' = [short EXCEPT ![t] = @ \/ k < Amount(t)]
       /\ Store(data \cup at..(at + k - 1))
       /\ size' = IF k = 0 THEN size ELSE Max({size, at + k})
  /\ UNCHANGED <<punches, seeks>>

\* The system call fails: with ENOSPC, say.
Error(t) ==
  /\ pc[t] = "punch" \/ Batch(t)
  /\ Reset(t)

\* Each range of zero() counts its bytes from 0.
\* Mutant: it goes on counting.
Recount_On(t) == moved[t]
Recount(t) == 0

NextRange(t) ==
  /\ pc[t] = "batch" /\ n[t] >= Vecs(t) /\ r[t] < Len(ranges[t])
  /\ r' = [r EXCEPT ![t] = @ + 1]
  /\ n' = [n EXCEPT ![t] = 0]
  /\ moved' = [moved EXCEPT ![t] = Recount(t)]
  /\ UNCHANGED <<filesystem, pc, kind, ranges, landed, short, cut, scan, seen>>

\* "Failed to read all buffers", "Failed to write all buffers"; zero does not look.
Complete(t) == kind[t] = "zero" \/ moved[t] = Buffers(t)

Finish(t) ==
  /\ pc[t] = "batch" /\ n[t] >= Vecs(t) /\ r[t] = Len(ranges[t])
  /\ IF Complete(t) THEN Goto(t, "ok") /\ UNCHANGED <<filesystem, transfer, cut, scan, seen>>
     ELSE Reset(t)

\* fallocate()
Punch(t) ==
  /\ pc[t] = "punch" /\ punches
  /\ Store(data \ First(t)..(First(t) + Buffers(t) - 1))
  /\ landed' = [landed EXCEPT ![t] =
       @ \cup {<<r[t], i, First(t) + i>> : i \in 0..(Buffers(t) - 1)}]
  /\ IF r[t] < Len(ranges[t]) THEN r' = [r EXCEPT ![t] = @ + 1] /\ UNCHANGED pc
     ELSE Goto(t, "ok") /\ UNCHANGED r
  /\ UNCHANGED <<size, punches, seeks, kind, ranges, n, moved, short, cut, scan>>

\* "The filing system may not support trim"
FallBack(t) ==
  /\ pc[t] = "punch" /\ ~punches
  /\ Goto(t, "batch")
  /\ UNCHANGED <<filesystem, transfer, cut, scan, seen>>

-----------------------------------------------------------------------------
(***************************************************************************)
(* doextents().                                                            *)
(***************************************************************************)
Extents(t) ==
  /\ pc[t] = "idle"
  /\ kind' = [kind EXCEPT ![t] = "extents"]
  /\ always' = [always EXCEPT ![t] = data]
  /\ ever' = [ever EXCEPT ![t] = data]
  /\ Goto(t, "seekdata")
  /\ UNCHANGED <<filesystem, ranges, r, n, moved, landed, short, cut, scan>>

DataFrom(b) == {d \in data : d >= b}

\* ENXIO: there is no more data.
SeekData(t) ==
  LET found == DataFrom(seek[t]) IN
  /\ pc[t] = "seekdata" /\ seeks
  /\ IF found = {} THEN Goto(t, "report") /\ UNCHANGED seek
     ELSE Goto(t, "seekhole") /\ seek' = [seek EXCEPT ![t] = Min(found)]
  /\ UNCHANGED <<filesystem, transfer, cut, out, seen>>

\* "Data region may have been concurrently deleted"
SeekHole(t) ==
  LET end == Min({b \in 0..size : b >= seek[t] /\ b \notin data}) IN
  /\ pc[t] = "seekhole"
  /\ IF seek[t] >= size THEN Goto(t, "report") /\ UNCHANGED scan
     ELSE /\ Goto(t, "seekdata")
          /\ seek' = [seek EXCEPT ![t] = end]
          /\ out' = [out EXCEPT ![t] =
               IF end > seek[t] THEN Append(@, <<seek[t], end - seek[t]>>) ELSE @]
  /\ UNCHANGED <<filesystem, transfer, cut, seen>>

\* EINVAL: "probably this filing system doesn't support extents"
WholeFile(t) ==
  /\ pc[t] = "seekdata" /\ ~seeks
  /\ out' = [out EXCEPT ![t] = <<<<0, size>>>>]
  /\ Goto(t, "report")
  /\ UNCHANGED <<filesystem, transfer, cut, seek, seen>>

\* "Coalesce sequences of contiguous data"
\* Mutant: as they were found.
Coalesced_Not(found) == found
Join(fixed, x) ==
  LET last == fixed[Len(fixed)] IN
  IF last[1] + last[2] = x[1] THEN [fixed EXCEPT ![Len(fixed)] = <<last[1], last[2] + x[2]>>]
  ELSE Append(fixed, x)
Coalesced(found) ==
  LET joined[i \in 1..Len(found)] ==
        IF i = 1 THEN <<found[1]>> ELSE Join(joined[i - 1], found[i])
  IN  joined[Len(found)]

Report(t) ==
  /\ pc[t] = "report" /\ out[t] # <<>>
  /\ out' = [out EXCEPT ![t] = Coalesced(out[t])]
  /\ Goto(t, "ok")
  /\ UNCHANGED <<filesystem, transfer, cut, seek, seen>>

\* out.front() of an empty vector.  Whatever it does, this is not followed up.
EmptyFront(t) ==
  /\ pc[t] = "report" /\ out[t] = <<>>
  /\ Goto(t, "undefined")
  /\ UNCHANGED <<filesystem, transfer, cut, scan, seen>>

-----------------------------------------------------------------------------
\* dotruncate(), or another process: the file gets shorter, or ends with a hole.
Truncate(s) ==
  /\ s # size
  /\ Store({b \in data : b < s})
  /\ size' = s
  /\ cut' = IF s < size THEN [t \in Threads |-> pc[t] # "idle"] ELSE cut
  /\ UNCHANGED <<punches, seeks, pc, transfer, scan>>

\* The operation has succeeded, or has done what nobody knows.
Return(t) == pc[t] \in {"ok", "undefined"} /\ Reset(t)

DataInit ==
  /\ size = 0 /\ data = {}
  /\ punches \in BOOLEAN /\ seeks \in BOOLEAN
  /\ pc = [t \in Threads |-> "idle"]
  /\ kind = [t \in Threads |-> "none"]
  /\ ranges = [t \in Threads |-> <<>>]
  /\ r = [t \in Threads |-> 1]
  /\ n = [t \in Threads |-> 0]
  /\ moved = [t \in Threads |-> 0]
  /\ landed = [t \in Threads |-> {}]
  /\ short = [t \in Threads |-> FALSE]
  /\ cut = [t \in Threads |-> FALSE]
  /\ seek = [t \in Threads |-> 0]
  /\ out = [t \in Threads |-> <<>>]
  /\ always = [t \in Threads |-> {}]
  /\ ever = [t \in Threads |-> {}]

DataStep(t) ==
  \/ Preadv(t) \/ Pwritev(t) \/ NextRange(t) \/ Finish(t) \/ Error(t)
  \/ Punch(t) \/ FallBack(t)
  \/ SeekData(t) \/ SeekHole(t) \/ WholeFile(t) \/ Report(t) \/ EmptyFront(t)

DataNext ==
  \/ \E s \in 0..Capacity : Truncate(s)
  \/ \E t \in Threads :
       \/ \E k \in {"read", "write"}, x \in Range1 : Begin(t, k, <<x>>)
       \/ \E k \in 1..MaxBuffers : Begin(t, "append", <<<<0, k>>>>)
       \/ \E x \in Range1 : Begin(t, "zero", <<x>>)
       \/ \E x, y \in Range1 : x[1] + x[2] <= y[1] /\ Begin(t, "zero", <<x, y>>)
       \/ Extents(t) \/ DataStep(t) \/ Return(t)

DataSpec == DataInit /\ [][DataNext]_datavars

-----------------------------------------------------------------------------
Wanted(t) ==
  UNION {{<<i, j, ranges[t][i][1] + j>> : j \in 0..(ranges[t][i][2] - 1)} : i \in DOMAIN ranges[t]}

(***************************************************************************)
(* A read or a write that succeeds has transferred every buffer, and each  *)
(* at its own place in the file: a short batch moves those after it, and   *)
(* is always noticed in the end.  zero() that succeeds has been over all   *)
(* of its ranges, whether the file system punches holes or zeros are       *)
(* written; but a write of zeros that is short goes unnoticed.             *)
(***************************************************************************)
BuffersLand ==
  \A t \in Threads :
    /\ pc[t] = "ok" /\ kind[t] \in {"read", "write", "zero"}
    /\ kind[t] = "zero" => ~short[t]
    => landed[t] = Wanted(t)

(***************************************************************************)
(* Two appends at the same time never write to the same place, batch by    *)
(* batch, and one that takes a single batch stays in one piece.            *)
(***************************************************************************)
AppendsApart ==
  LET blocks(t) == {x[3] : x \in landed[t]} IN
  /\ \A t, u \in Threads :
       t # u /\ kind[t] = "append" /\ kind[u] = "append" =>
         blocks(t) \cap blocks(u) = {} \/ cut[t] \/ cut[u]
  /\ \A t \in Threads :
       pc[t] = "ok" /\ kind[t] = "append" /\ Buffers(t) <= IovMax =>
         \E b \in Block : landed[t] = {<<1, j, b + j>> : j \in 0..(Buffers(t) - 1)}

(***************************************************************************)
(* extents() is "racy" (its documentation) but no more than it must be:    *)
(* what was data from the beginning to the end is in some extent, and what *)
(* an extent has was data at some time, if the file system can tell.  And  *)
(* "sequences of contiguous extents are merged into single extents"        *)
(* (afio.hpp): however the file changes during the walk, the extents are   *)
(* in order, apart, and never touch.                                       *)
(***************************************************************************)
Extent(x) == x[1]..(x[1] + x[2] - 1)
Reported(t) == UNION {Extent(out[t][i]) : i \in DOMAIN out[t]}
ExtentsHonest ==
  \A t \in Threads : pc[t] = "ok" /\ kind[t] = "extents" =>
    /\ always[t] \subseteq Reported(t)
    /\ seeks => Reported(t) \subseteq ever[t]
    /\ \A i \in 1..(Len(out[t]) - 1) : out[t][i][1] + out[t][i][2] < out[t][i + 1][1]

(***************************************************************************)
(* extents() of a file without data returns no extents.  A test has a case *)
(* for it, "extents() returns empty despite" storage being in use          *)
(* (atomic_log_append_test.cpp). FileData_empty shows that doextents()     *)
(* reads the front of an empty vector then.                                *)
(***************************************************************************)
ExtentsDefined == \A t \in Threads : pc[t] # "undefined"
=============================================================================
