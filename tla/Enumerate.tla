----------------------------- MODULE Enumerate -----------------------------
(***************************************************************************)
(* Directory enumeration: doenumerate() of async_file_io_dispatcher_compat *)
(* (afio.ipp), and the loop of its users, who restart and then ask for     *)
(* more until the operation says that this was the last batch.  Since      *)
(* dir() shares its handles, different users may well work on the same     *)
(* handle, and on the one position that the kernel keeps for it.           *)
(*                                                                         *)
(* Entries have a place in the order of the directory, and a d_reclen.  A  *)
(* dirent64, of Full units, holds any entry, and maxitems is not zero, so  *)
(* getdents() never asks for more room.  It returns as many entries as it  *)
(* has room for.  Globs, "." and ".." are left out.                        *)
(***************************************************************************)
EXTENDS Integers, FiniteSetsExt

CONSTANTS
  Users,
  Places,      \* number of places in the directory
  Full,        \* sizeof(dirent)
  MaxItems,    \* most that a user asks for
  MaxChanges,  \* bound on entries created and deleted by others
  Overlap      \* users share the handle at the same time, not in turn

ASSUME EnumerateAssumption ==
  /\ Places \in Nat /\ Full \in Nat \ {0} /\ MaxItems \in Nat \ {0}
  /\ MaxChanges \in Nat /\ Overlap \in BOOLEAN

VARIABLES
  reclen,      \* place -> d_reclen of the entry there, or 0
  changes,
  offset,      \* the place up to which the handle has been read
  at,
  maxitems,    \* user -> req.maxitems
  metadata,    \* user -> it asks for more than getdents() tells
  batch,       \* user -> entries of this call whose metadata it has yet to fetch
  more,        \* user -> what this call will return
  got,         \* user -> entries returned to it since it restarted
  twice,       \* user -> some entry came twice
  throughout,  \* history: user -> entries that are there since it restarted
  sometime     \* history: user -> entries that were there since

directory == <<reclen, changes>>
request == <<maxitems, metadata>>
result == <<batch, more, got, twice>>
history == <<throughout, sometime>>
enumvars == <<directory, offset, at, request, result, history>>

Place == 1..Places
Present == {p \in Place : reclen[p] > 0}
Stage == {"idle", "restart", "getdents", "metadata", "return", "finished"}

EnumTypeOK ==
  /\ reclen \in [Place -> 0..Full] /\ changes \in 0..MaxChanges
  /\ offset \in 0..Places
  /\ at \in [Users -> Stage]
  /\ maxitems \in [Users -> 0..MaxItems] /\ metadata \in [Users -> BOOLEAN]
  /\ batch \in [Users -> SUBSET Place] /\ more \in [Users -> BOOLEAN]
  /\ got \in [Users -> SUBSET Place] /\ twice \in [Users -> BOOLEAN]
  /\ throughout \in [Users -> SUBSET Place] /\ sometime \in [Users -> SUBSET Place]

Enter(u, l) == at' = [at EXCEPT ![u] = l]
Running(u) == at[u] \notin {"idle", "restart"}

-----------------------------------------------------------------------------
\* Others create, delete and replace entries.
Change(p, len) ==
  /\ changes < MaxChanges
  /\ reclen[p] # len
  /\ reclen' = [reclen EXCEPT ![p] = len]
  /\ changes' = changes + 1
  /\ throughout' = [u \in Users |-> throughout[u] \ {p}]
  /\ sometime' = [u \in Users |->
       IF Running(u) /\ len > 0 THEN sometime[u] \cup {p} ELSE sometime[u]]
  /\ UNCHANGED <<offset, at, request, result>>

\* enumerate() with restart.
Start(u, m, meta) ==
  /\ at[u] = "idle"
  /\ Overlap \/ \A v \in Users : at[v] = "idle"
  /\ maxitems' = [maxitems EXCEPT ![u] = m]
  /\ metadata' = [metadata EXCEPT ![u] = meta]
  /\ Enter(u, "restart")
  /\ UNCHANGED <<directory, offset, result, history>>

\* lseek64(fd, 0, SEEK_SET)
Rewound == 0

Restart(u) ==
  /\ at[u] = "restart"
  /\ offset' = Rewound
  /\ throughout' = [throughout EXCEPT ![u] = Present]
  /\ sometime' = [sometime EXCEPT ![u] = Present]
  /\ Enter(u, "getdents")
  /\ UNCHANGED <<directory, request, result>>

\* Bytes of the entries at the first places.
Upto[p \in 0..Places] == IF p = 0 THEN 0 ELSE Upto[p - 1] + reclen[p]

\* The entries after the position for which there is room.
Returned(room) == {p \in Present : p > offset /\ Upto[p] - Upto[offset] <= room}
Last(found) == Max({offset} \cup found)
Bytes(found) == Upto[Last(found)] - Upto[offset]

\* No entry could have been left out for want of room.
\* Mutant: the buffer is not full.
ThisBatchDone_Partial(room, bytes) == room - bytes > 0
ThisBatchDone(room, bytes) == room - bytes > Full

\* Nothing at all: the end.
\* Mutant: there may be more.
AtEnd_Never(bytes) == FALSE
AtEnd(bytes) == bytes = 0

\* Where the handle is read up to, when these have been returned.
\* Mutant: one further.
Position_Next(found) == Last(found) + 1
Position(found) == Last(found)

Getdents(u) ==
  LET room == Full * maxitems[u] IN
  LET found == Returned(room) IN
  /\ at[u] = "getdents"
  /\ offset' = Position(found)
  /\ twice' = [twice EXCEPT ![u] = @ \/ found \cap got[u] # {}]
  /\ got' = [got EXCEPT ![u] = @ \cup found]
  /\ IF AtEnd(Bytes(found))
     THEN /\ more' = [more EXCEPT ![u] = FALSE]
          /\ Enter(u, "return")
          /\ UNCHANGED batch
     ELSE /\ more' = [more EXCEPT ![u] = ~ThisBatchDone(room, Bytes(found))]
          /\ Enter(u, "metadata")
          /\ batch' = [batch EXCEPT ![u] = IF metadata[u] THEN found ELSE {}]
  /\ UNCHANGED <<directory, request, history>>

\* fetch_metadata() of an entry.
FetchMetadata(u, p) ==
  /\ at[u] = "metadata" /\ p \in batch[u]
  /\ reclen[p] > 0
  /\ batch' = [batch EXCEPT ![u] = @ \ {p}]
  /\ UNCHANGED <<directory, offset, at, request, more, got, twice, history>>

Fetched(u) ==
  /\ at[u] = "metadata" /\ batch[u] = {}
  /\ Enter(u, "return")
  /\ UNCHANGED <<directory, offset, request, result, history>>

\* The user asks for the next batch, without restart.
Continue(u) ==
  /\ at[u] = "return" /\ more[u]
  /\ Enter(u, "getdents")
  /\ UNCHANGED <<directory, offset, request, result, history>>

EndLoop(u) ==
  /\ at[u] = "return" /\ ~more[u]
  /\ Enter(u, "finished")
  /\ UNCHANGED <<directory, offset, request, result, history>>

Leave(u) ==
  /\ Enter(u, "idle")
  /\ maxitems' = [maxitems EXCEPT ![u] = 0]
  /\ metadata' = [metadata EXCEPT ![u] = FALSE]
  /\ batch' = [batch EXCEPT ![u] = {}]
  /\ more' = [more EXCEPT ![u] = FALSE]
  /\ got' = [got EXCEPT ![u] = {}]
  /\ twice' = [twice EXCEPT ![u] = FALSE]
  /\ throughout' = [throughout EXCEPT ![u] = {}]
  /\ sometime' = [sometime EXCEPT ![u] = {}]
  /\ UNCHANGED <<directory, offset>>

\* lstatat() fails for an entry that is gone, and the operation throws.
Throw(u) ==
  /\ at[u] = "metadata" /\ \E p \in batch[u] : reclen[p] = 0
  /\ Leave(u)

Use(u) == at[u] = "finished" /\ Leave(u)

EnumInit ==
  /\ reclen \in [Place -> 0..Full] /\ changes = 0
  /\ offset = 0
  /\ at = [u \in Users |-> "idle"]
  /\ maxitems = [u \in Users |-> 0]
  /\ metadata = [u \in Users |-> FALSE]
  /\ batch = [u \in Users |-> {}]
  /\ more = [u \in Users |-> FALSE]
  /\ got = [u \in Users |-> {}]
  /\ twice = [u \in Users |-> FALSE]
  /\ throughout = [u \in Users |-> {}]
  /\ sometime = [u \in Users |-> {}]

EnumStep(u) ==
  \/ Restart(u) \/ Getdents(u) \/ Fetched(u) \/ Continue(u) \/ EndLoop(u) \/ Throw(u)
  \/ \E p \in Place : FetchMetadata(u, p)

EnumNext ==
  \/ \E p \in Place, len \in 0..Full : Change(p, len)
  \/ \E u \in Users :
       \/ \E m \in 1..MaxItems, meta \in BOOLEAN : Start(u, m, meta)
       \/ EnumStep(u) \/ Use(u)

EnumSpec == EnumInit /\ [][EnumNext]_enumvars

\* Pool threads run what is scheduled, and users use their results.
FairEnumSpec == EnumSpec /\ \A u \in Users : WF_enumvars(EnumStep(u)) /\ WF_enumvars(Use(u))

-----------------------------------------------------------------------------
(***************************************************************************)
(* Whoever restarts, and asks for more until told that it has it all, has  *)
(* every entry that was there all the time, each once, and none that never *)
(* was there, whatever is created and deleted meanwhile, and whatever room *)
(* its entries need: "boolean returning false if done" (afio.hpp).         *)
(***************************************************************************)
EnumeratesAll ==
  \A u \in Users : at[u] = "finished" =>
    throughout[u] \subseteq got[u] /\ got[u] \subseteq sometime[u] /\ ~twice[u]

(***************************************************************************)
(* The loop ends: by the end of the directory, or by an exception.         *)
(***************************************************************************)
LoopEnds == \A u \in Users : Running(u) ~> at[u] = "idle"

(***************************************************************************)
(* With shared handles, it is enough "to set maxitems to a value large     *)
(* enough to guarantee a directory will be enumerated in a single shot"    *)
(* (Doxyfile, docs_enumerate).  With Overlap it is not: the restart and    *)
(* getdents() are two steps, and another user's may come in between.       *)
(***************************************************************************)
SingleShot ==
  \A u \in Users : at[u] = "finished" /\ maxitems[u] > Places => throughout[u] \subseteq got[u]
=============================================================================
