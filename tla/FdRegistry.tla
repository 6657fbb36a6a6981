----------------------------- MODULE FdRegistry -----------------------------
(***************************************************************************)
(* The dispatcher's registry of open handles: the map fds from descriptor  *)
(* to handle, which dofile() adds to when it has opened a file and close() *)
(* takes from when it has closed it (afio.ipp), each on a thread of its    *)
(* own. ~dispatcher() waits for the map to be empty and fd_count() is its  *)
(* size.                                                                   *)
(*                                                                         *)
(* The kernel is external: open() returns any descriptor that is free.     *)
(* close() may fail, and may then have freed the descriptor, as Linux does *)
(* whatever it returns, or not. A client does not close one handle from    *)
(* two threads at a time; it may close it, and then drop it.               *)
(***************************************************************************)
EXTENDS Integers, FiniteSets

CONSTANTS
  Handles,  \* async_io_handle_posix objects: a destroyed one is used again
  Fds,      \* the kernel's descriptors
  Nobody    \* no handle

ASSUME RegistryAssumption == Fds \subseteq Nat /\ Nobody \notin Handles

Closed == -999

VARIABLES
  descriptor,      \* kernel: descriptor -> the handle it was opened for
  fds,             \* the registry: descriptor -> the handle registered
  fd,              \* handle -> its descriptor
  has_been_added,
  at,              \* handle -> where the thread working on it is
  closingfd,       \* handle -> _fd of the close() under way
  closefailed      \* history: a ::close() failed

vars == <<descriptor, fds, fd, has_been_added, at, closingfd, closefailed>>

Label == {"none", "opened", "live", "closing", "closed"}

TypeOK ==
  /\ descriptor \in [Fds -> Handles \cup {Nobody}]
  /\ fds \in [Fds -> Handles \cup {Nobody}]
  /\ fd \in [Handles -> Fds \cup {Closed}]
  /\ has_been_added \in [Handles -> BOOLEAN]
  /\ at \in [Handles -> Label]
  /\ closingfd \in [Handles -> Fds \cup {Closed}]
  /\ closefailed \in BOOLEAN

Goto(h, l) == at' = [at EXCEPT ![h] = l]

(***************************************************************************)
(* dofile(): openat() and the handle's constructor.                        *)
(***************************************************************************)
Open(h) ==
  /\ at[h] = "none"
  /\ \E f \in Fds :
       /\ descriptor[f] = Nobody
       /\ descriptor' = [descriptor EXCEPT ![f] = h]
       /\ fd' = [fd EXCEPT ![h] = f]
  /\ Goto(h, "opened")
  /\ UNCHANGED <<fds, has_been_added, closingfd, closefailed>>

\* The map's insert() leaves an entry that has the key already.
Insert(h) == [fds EXCEPT ![fd[h]] = IF @ = Nobody THEN h ELSE @]

\* do_add_io_handle_to_parent() and int_add_io_handle().
Register(h) ==
  /\ at[h] = "opened"
  /\ fds' = Insert(h)
  /\ has_been_added' = [has_been_added EXCEPT ![h] = TRUE]
  /\ Goto(h, "live")
  /\ UNCHANGED <<descriptor, fd, closingfd, closefailed>>

(***************************************************************************)
(* close(): by doclose(), or by the destructor of a handle that is         *)
(* dropped, which may be because dofile() threw before it registered the   *)
(* handle (path(true)) or after (posix_fadvise()).                         *)
(***************************************************************************)
\* Mutant: fd is not reset.
AfterClose_Kept(h) == fd[h]
AfterClose(h) == Closed

\* Whoever's file the descriptor is by now; EBADF if it is nobody's.
CloseFd(h) ==
  /\ at[h] \in {"opened", "live", "closed"} /\ fd[h] >= 0
  /\ descriptor[fd[h]] # Nobody
  /\ closingfd' = [closingfd EXCEPT ![h] = fd[h]]
  /\ descriptor' = [descriptor EXCEPT ![fd[h]] = Nobody]
  /\ fd' = [fd EXCEPT ![h] = AfterClose(h)]
  /\ Goto(h, "closing")
  /\ UNCHANGED <<fds, has_been_added, closefailed>>

\* ::close() fails in doclose(), which throws: the handle keeps its fd and its
\* entry. In the destructor it ends the program.
CloseFails(h) ==
  /\ at[h] = "live"
  /\ descriptor' \in {descriptor, [descriptor EXCEPT ![fd[h]] = Nobody]}
  /\ closefailed' = TRUE
  /\ UNCHANGED <<fds, fd, has_been_added, at, closingfd>>

\* Mutant: the key is read from fd, by now reset.
Key_Reset(h) == fd[h]
Key(h) == closingfd[h]

\* "Deregister AFTER close of file handle": int_del_io_handle().
Deregister(h) ==
  /\ at[h] = "closing"
  /\ fds' = [f \in Fds |-> IF has_been_added[h] /\ f = Key(h) THEN Nobody ELSE fds[f]]
  /\ has_been_added' = [has_been_added EXCEPT ![h] = FALSE]
  /\ Goto(h, "closed")
  /\ UNCHANGED <<descriptor, fd, closingfd, closefailed>>

\* The destructor finds the handle closed.
Destroy(h) ==
  /\ at[h] = "closed" /\ fd[h] = Closed
  /\ closingfd' = [closingfd EXCEPT ![h] = Closed]
  /\ Goto(h, "none")
  /\ UNCHANGED <<descriptor, fds, fd, has_been_added, closefailed>>

-----------------------------------------------------------------------------
Init ==
  /\ descriptor = [f \in Fds |-> Nobody]
  /\ fds = [f \in Fds |-> Nobody]
  /\ fd = [h \in Handles |-> Closed]
  /\ has_been_added = [h \in Handles |-> FALSE]
  /\ at = [h \in Handles |-> "none"]
  /\ closingfd = [h \in Handles |-> Closed]
  /\ closefailed = FALSE

Next ==
  \E h \in Handles :
    Open(h) \/ Register(h) \/ CloseFd(h) \/ CloseFails(h) \/ Deregister(h) \/ Destroy(h)

Spec == Init /\ [][Next]_vars

-----------------------------------------------------------------------------
(***************************************************************************)
(* A handle that is not closed ("-999 is closed handle") has a descriptor  *)
(* that is open, and open for this very handle: however descriptors are    *)
(* reused, no close() closes the file of another handle. It holds as long  *)
(* as no ::close() has failed.                                             *)
(***************************************************************************)
OwnDescriptor ==
  ~closefailed => \A h \in Handles : fd[h] # Closed => descriptor[fd[h]] = h

(***************************************************************************)
(* The same whatever ::close() returned. FdRegistry_failed shows that      *)
(* the handle whose ::close() failed keeps a descriptor not its own.       *)
(***************************************************************************)
OwnDescriptorAlways ==
  \A h \in Handles : fd[h] # Closed => descriptor[fd[h]] \in {h, Nobody}

(***************************************************************************)
(* The registry has no entry that nobody is going to erase: an entry's     *)
(* handle exists, and its close(), begun or to come, has the entry's key.  *)
(* Otherwise ~dispatcher() would wait, in the end in vain, for a handle    *)
(* that is long gone, and a descriptor used again would never be counted.  *)
(***************************************************************************)
EntriesErased ==
  \A f \in Fds : fds[f] # Nobody =>
    LET h == fds[f] IN
    /\ has_been_added[h]
    /\ f = IF at[h] = "closing" THEN closingfd[h] ELSE fd[h]

(***************************************************************************)
(* fd_count() "Returns the number of open items in this dispatcher"        *)
(* (afio.hpp), at least while no handle is being opened or closed and no   *)
(* ::close() has failed. FdRegistry_reused shows that the code loses count *)
(* when a descriptor is used again at once.                                *)
(***************************************************************************)
FdCountAccurate ==
  ~closefailed /\ (\A h \in Handles : at[h] \in {"none", "live", "closed"}) =>
    Cardinality({f \in Fds : fds[f] # Nobody})
      = Cardinality({h \in Handles : at[h] = "live"})
=============================================================================
