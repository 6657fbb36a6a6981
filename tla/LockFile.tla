------------------------------ MODULE LockFile ------------------------------
(***************************************************************************)
(* The lock files of afio.ipp: a handle opened with os_lockable has a      *)
(* lock_file, the lock_files of one path in one process share an           *)
(* actual_lock_file through process_lockfile_registry, and that one locks  *)
(* regions of path.afiolockfile with fcntl().  The last byte of the lock   *)
(* file says that it is in use: every user reads-locks it, and whoever     *)
(* destroys an actual_lock_file unlinks the file if it can write-lock it.  *)
(*                                                                         *)
(* The model has one locked path and one region.  The kernel is external:  *)
(* locks belong to a process and an inode, and closing ANY descriptor of   *)
(* the inode drops all that the process has on it.  A process may end at   *)
(* any time, and leaves the lock file behind.                              *)
(***************************************************************************)
EXTENDS Integers, FiniteSets

CONSTANTS
  Processes,
  Slots,
  Handle,    \* handles with os_lockable: each is a slot of a process
  Actuals,   \* posix_actual_lock_file objects, of all processes
  Inodes,
  None,
  MaxOpens   \* bound on the times each slot is opened

Process(h) == h[1]
Type == {"read_lock", "write_lock", "unlock"}

ASSUME LockAssumption ==
  /\ Handle \subseteq Processes \X Slots
  /\ MaxOpens \in Nat
  /\ None \notin Processes \cup Actuals \cup Inodes \cup Handle

VARIABLES
  name,        \* kernel: the inode at path.afiolockfile
  inuse,       \* kernel: inode -> processes that read-lock its last byte
  deleting,    \* kernel: inode -> the process that write-locks its last byte
  region,      \* kernel: inode -> process -> its lock of the region
  lock_t,      \* process -> who holds process_lockfile_registry_lock
  registry,    \* process -> path_to_lockfile's weak pointer for the path
  fd,          \* actual_lock_file -> the inode its descriptor h is of
  actual,      \* handle -> its lock_file's actual
  at,          \* handle -> where the thread working on it is
  held,        \* handle -> the lock its user last asked for and got
  opens,       \* handle -> how often it was opened
  overlapped,  \* history: a process opened the path while it was destroying
               \* the actual_lock_file it had of it
  unmarked     \* history: a lock file was used without a mark in its last byte

kernel == <<name, inuse, deleting, region>>
process == <<lock_t, registry>>
history == <<overlapped, unmarked>>
vars == <<kernel, process, fd, actual, at, held, opens, history>>

\* posix_actual_lock_file's constructor and destructor, step by step.
Creating == {"lstat", "opened", "indicated"}
Destroying == {"expired", "unlink", "close", "erase", "erase again"}
Label == {"none", "open", "throwing", "dropping"} \cup Creating \cup Destroying

TypeOK ==
  /\ name \in Inodes \cup {None}
  /\ inuse \in [Inodes -> SUBSET Processes]
  /\ deleting \in [Inodes -> Processes \cup {None}]
  /\ region \in [Inodes -> [Processes -> Type]]
  /\ lock_t \in [Processes -> Handle \cup {None}]
  /\ registry \in [Processes -> Actuals \cup {None}]
  /\ fd \in [Actuals -> Inodes \cup {None}]
  /\ actual \in [Handle -> Actuals \cup {None}]
  /\ at \in [Handle -> Label]
  /\ held \in [Handle -> Type]
  /\ opens \in [Handle -> 0..MaxOpens]
  /\ overlapped \in BOOLEAN /\ unmarked \in BOOLEAN

Goto(h, l) == at' = [at EXCEPT ![h] = l]
Free(h) == lock_t[Process(h)] = None
Take(h) == Free(h) /\ lock_t' = [lock_t EXCEPT ![Process(h)] = h]
Give(h) == lock_t' = [lock_t EXCEPT ![Process(h)] = None]
Register(h, a) == registry' = [registry EXCEPT ![Process(h)] = a]

\* Who keeps an actual_lock_file alive.
Owners(a) == {h \in Handle : actual[h] = a /\ at[h] \in {"open", "dropping"}}
Ino(h) == fd[actual[h]]

-----------------------------------------------------------------------------
(***************************************************************************)
(* process_lockfile_registry::open() and lock_file's constructor: share    *)
(* the path's actual_lock_file, if there is one and it has not expired, or *)
(* make one, the registry's lock held all the while.                       *)
(***************************************************************************)
MayOpen(h) ==
  /\ at[h] = "none" /\ opens[h] < MaxOpens
  /\ opens' = [opens EXCEPT ![h] = @ + 1]
  /\ overlapped' = (overlapped \/ \E g \in Handle : Process(g) = Process(h) /\ at[g] \in Destroying)

OpenShared(h) ==
  LET a == registry[Process(h)] IN
  /\ MayOpen(h) /\ Free(h)
  /\ a # None /\ Owners(a) # {}
  /\ actual' = [actual EXCEPT ![h] = a]
  /\ Goto(h, "open")
  /\ UNCHANGED <<kernel, process, fd, held, unmarked>>

OpenNew(h) ==
  LET a == registry[Process(h)] IN
  /\ MayOpen(h) /\ Take(h)
  /\ a = None \/ Owners(a) = {}
  /\ Register(h, None)
  /\ \E b \in Actuals :
       /\ \A g \in Handle : actual[g] # b
       /\ actual' = [actual EXCEPT ![h] = b]
  /\ Goto(h, "lstat")
  /\ UNCHANGED <<kernel, fd, held, unmarked>>

(***************************************************************************)
(* posix_actual_lock_file's constructor.                                   *)
(***************************************************************************)
Unused(i) == name # i /\ \A a \in Actuals : fd[a] # i

\* lstat(path) and open(lockfilepath, O_CREAT).
OpenLockFile(h) ==
  /\ at[h] = "lstat"
  /\ \E i \in Inodes :
       /\ IF name = None THEN Unused(i) ELSE i = name
       /\ name' = i
       /\ fd' = [fd EXCEPT ![actual[h]] = i]
  /\ Goto(h, "opened")
  /\ UNCHANGED <<inuse, deleting, region, process, actual, held, opens, history>>

\* Blocks while another process write-locks the byte.
IndicateUse(h) ==
  LET i == Ino(h) IN
  /\ at[h] = "opened" /\ deleting[i] \in {None, Process(h)}
  /\ inuse' = [inuse EXCEPT ![i] = @ \cup {Process(h)}]
  /\ deleting' = [deleting EXCEPT ![i] = None]
  /\ Goto(h, "indicated")
  /\ UNCHANGED <<name, region, process, fd, actual, held, opens, history>>

\* Only EINTR is looked for: on any other error it goes on without the mark.
IndicateFails(h) ==
  /\ at[h] = "opened"
  /\ unmarked' = TRUE
  /\ Goto(h, "indicated")
  /\ UNCHANGED <<kernel, process, fd, actual, held, opens, overlapped>>

\* "did someone else delete it or even delete and recreate it?"
\* Mutant: the file is not looked up again.
StillThere_Assumed(h) == TRUE
\* Mutant: the path's inode is compared, not the lock file's.
StillThere_Path(h) == FALSE
StillThere(h) == name = Ino(h)

Opened(h) ==
  /\ at[h] = "indicated" /\ StillThere(h)
  /\ Register(h, actual[h]) /\ Give(h)
  /\ Goto(h, "open")
  /\ UNCHANGED <<kernel, fd, actual, held, opens, history>>

\* ::close() drops every lock of the process on the inode.
Close(h) ==
  LET i == Ino(h) IN
  LET p == Process(h) IN
  /\ inuse' = [inuse EXCEPT ![i] = @ \ {p}]
  /\ deleting' = [deleting EXCEPT ![i] = IF @ = p THEN None ELSE @]
  /\ region' = [region EXCEPT ![i][p] = "unlock"]
  /\ fd' = [fd EXCEPT ![actual[h]] = None]

OpenRetries(h) ==
  /\ at[h] = "indicated" /\ ~StillThere(h)
  /\ Close(h)
  /\ Goto(h, "lstat")
  /\ UNCHANGED <<name, process, actual, held, opens, history>>

\* lstat(path) fails, and with it the constructor: the destructor of its base
\* waits for the lock that its own open() holds, and the process is wedged.
OpenThrows(h) ==
  /\ at[h] = "lstat"
  /\ Goto(h, "throwing")
  /\ UNCHANGED <<kernel, process, fd, actual, held, opens, history>>

Wedged(p) == \E h \in Handle : Process(h) = p /\ at[h] = "throwing"

-----------------------------------------------------------------------------
(***************************************************************************)
(* lock(): F_SETLKW on a pool thread, enabled when it would not block.     *)
(* "TODO FIXME: Run through local_locks": nothing keeps two handles of one *)
(* process apart, so their users do.                                       *)
(***************************************************************************)
Granted(i, p, t) ==
  \A q \in Processes \ {p} :
    /\ t = "write_lock" => region[i][q] = "unlock"
    /\ t = "read_lock" => region[i][q] # "write_lock"

Lock(h, t) ==
  /\ at[h] = "open" /\ t # held[h]
  /\ \A g \in Handle \ {h} : Process(g) = Process(h) => held[g] = "unlock"
  /\ Granted(Ino(h), Process(h), t)
  /\ region' = [region EXCEPT ![Ino(h)][Process(h)] = t]
  /\ held' = [held EXCEPT ![h] = t]
  /\ UNCHANGED <<name, inuse, deleting, process, fd, actual, at, opens, history>>

-----------------------------------------------------------------------------
(***************************************************************************)
(* ~lock_file() takes the handle from handle_to_lockfile under the         *)
(* registry's lock, and drops its actual after that.                       *)
(***************************************************************************)
Drop(h) ==
  /\ at[h] = "open" /\ Free(h)
  /\ held' = [held EXCEPT ![h] = "unlock"]
  /\ Goto(h, "dropping")
  /\ UNCHANGED <<kernel, process, fd, actual, opens, history>>

Dropped(h) ==
  /\ at[h] = "dropping"
  /\ IF Owners(actual[h]) = {h}
       THEN Goto(h, "expired") /\ UNCHANGED actual
       ELSE Goto(h, "none") /\ actual' = [actual EXCEPT ![h] = None]
  /\ UNCHANGED <<kernel, process, fd, held, opens, history>>

(***************************************************************************)
(* ~posix_actual_lock_file() and ~actual_lock_file().                      *)
(***************************************************************************)
\* Mutant: other users' read locks do not count.
LastUser_Always(h) == TRUE
LastUser(h) == inuse[Ino(h)] \subseteq {Process(h)}

\* F_SETLK does not wait. Its own read lock becomes the write lock.
TryDelete(h) ==
  LET i == Ino(h) IN
  /\ at[h] = "expired"
  /\ IF LastUser(h) /\ deleting[i] \in {None, Process(h)}
       THEN /\ inuse' = [inuse EXCEPT ![i] = @ \ {Process(h)}]
            /\ deleting' = [deleting EXCEPT ![i] = Process(h)]
            /\ Goto(h, "unlink")
       ELSE Goto(h, "close") /\ UNCHANGED <<inuse, deleting>>
  /\ UNCHANGED <<name, region, process, fd, actual, held, opens, history>>

\* Whatever file has the name.
Unlink(h) ==
  /\ at[h] = "unlink" /\ name # None
  /\ name' = None
  /\ Goto(h, "close")
  /\ UNCHANGED <<inuse, deleting, region, process, fd, actual, held, opens, history>>

CloseLockFile(h) ==
  /\ at[h] = "close"
  /\ Close(h)
  /\ Goto(h, "erase")
  /\ UNCHANGED <<name, process, actual, held, opens, history>>

\* path_to_lockfile.erase(path), in both destructors, whoever's the entry is.
Erase(h) ==
  /\ at[h] = "erase" /\ Free(h)
  /\ Register(h, None)
  /\ Goto(h, "erase again")
  /\ UNCHANGED <<kernel, lock_t, fd, actual, held, opens, history>>

EraseAgain(h) ==
  /\ at[h] = "erase again" /\ Free(h)
  /\ Register(h, None)
  /\ actual' = [actual EXCEPT ![h] = None]
  /\ Goto(h, "none")
  /\ UNCHANGED <<kernel, lock_t, fd, held, opens, history>>

-----------------------------------------------------------------------------
(***************************************************************************)
(* A process ends, in the middle of anything, and may be started again:    *)
(* the kernel closes what it has open, and drops its locks.                *)
(***************************************************************************)
EndOf(p) ==
  LET gone == {h \in Handle : Process(h) = p} IN
  /\ inuse' = [i \in Inodes |-> inuse[i] \ {p}]
  /\ deleting' = [i \in Inodes |-> IF deleting[i] = p THEN None ELSE deleting[i]]
  /\ region' = [i \in Inodes |-> [region[i] EXCEPT ![p] = "unlock"]]
  /\ lock_t' = [lock_t EXCEPT ![p] = None]
  /\ registry' = [registry EXCEPT ![p] = None]
  /\ fd' = [a \in Actuals |-> IF \E h \in gone : actual[h] = a THEN None ELSE fd[a]]
  /\ actual' = [h \in Handle |-> IF h \in gone THEN None ELSE actual[h]]
  /\ at' = [h \in Handle |-> IF h \in gone THEN "none" ELSE at[h]]
  /\ held' = [h \in Handle |-> IF h \in gone THEN "unlock" ELSE held[h]]
  /\ UNCHANGED <<name, opens, history>>

Dies(p) ==
  /\ \E h \in Handle : Process(h) = p /\ at[h] # "none"
  /\ EndOf(p)

\* unlink() fails, as nothing has the name: it throws, out of a destructor.
UnlinkThrows(h) == at[h] = "unlink" /\ name = None /\ EndOf(Process(h))

-----------------------------------------------------------------------------
Init ==
  /\ name = None
  /\ inuse = [i \in Inodes |-> {}]
  /\ deleting = [i \in Inodes |-> None]
  /\ region = [i \in Inodes |-> [p \in Processes |-> "unlock"]]
  /\ lock_t = [p \in Processes |-> None]
  /\ registry = [p \in Processes |-> None]
  /\ fd = [a \in Actuals |-> None]
  /\ actual = [h \in Handle |-> None]
  /\ at = [h \in Handle |-> "none"]
  /\ held = [h \in Handle |-> "unlock"]
  /\ opens = [h \in Handle |-> 0]
  /\ overlapped = FALSE /\ unmarked = FALSE

\* The steps the library makes once it was called.
OpenStep(h) ==
  OpenLockFile(h) \/ IndicateUse(h) \/ IndicateFails(h) \/ Opened(h) \/ OpenRetries(h)
DropStep(h) ==
  \/ Dropped(h) \/ TryDelete(h) \/ Unlink(h) \/ UnlinkThrows(h) \/ CloseLockFile(h)
  \/ Erase(h) \/ EraseAgain(h)

Quiescent ==
  /\ \A h \in Handle :
       (at[h] = "none" /\ opens[h] = MaxOpens) \/ Wedged(Process(h))
  /\ UNCHANGED vars

Next ==
  \/ \E h \in Handle :
       \/ OpenShared(h) \/ OpenNew(h) \/ OpenThrows(h) \/ OpenStep(h)
       \/ Drop(h) \/ DropStep(h)
       \/ \E t \in Type : Lock(h, t)
  \/ \E p \in Processes : Dies(p)
  \/ Quiescent

Spec == Init /\ [][Next]_vars

(***************************************************************************)
(* Threads run, and a thread that spins for the registry's lock, which is  *)
(* given back or leaves the process wedged, gets it. Nobody has to open,   *)
(* lock or drop.                                                           *)
(***************************************************************************)
Fairness == \A h \in Handle : WF_vars(OpenStep(h)) /\ SF_vars(DropStep(h))

FairSpec == Spec /\ Fairness

-----------------------------------------------------------------------------
\* No process destroyed and opened the path at once, and every use was marked.
Undisturbed == ~overlapped /\ ~unmarked

(***************************************************************************)
(* A write lock of one process excludes the locks of all others. It takes  *)
(* that the two lock the same inode, whatever was unlinked and recreated   *)
(* in between and whoever ended in the middle, and that nobody's ::close() *)
(* drops another's locks. It holds as long as no process opens the path    *)
(* while it destroys its last actual_lock_file of it, and no fcntl() that  *)
(* marks the file fails.                                                   *)
(***************************************************************************)
Exclusion ==
  Undisturbed =>
    \A g, h \in Handle :
      Process(g) # Process(h) /\ held[g] = "write_lock" => held[h] = "unlock"

(***************************************************************************)
(* No lock file that a handle uses is unlinked, or two processes would     *)
(* lock two different files; and what ~posix_actual_lock_file() unlinks is *)
(* its own lock file, which is still there, so that unlink() does not      *)
(* fail, which would end the program. It holds as long as Exclusion.       *)
(***************************************************************************)
InUseStays ==
  Undisturbed => \A h \in Handle : at[h] \in {"open", "unlink"} => name = Ino(h)

(***************************************************************************)
(* "Place a write lock on the final byte as a way of detecting when this   *)
(* lock file no longer in use" (afio.ipp): a lock file that is used and    *)
(* marked is not unlinked. LockFile_overlapped shows one that is, by a     *)
(* destructor of the process that uses it.                                 *)
(***************************************************************************)
UseDetected ==
  ~unmarked => \A h \in Handle : at[h] = "open" => name = Ino(h)

(***************************************************************************)
(* "Place a read lock on the final byte as a way of detecting when this    *)
(* lock file no longer in use" (afio.ipp): the same where no process opens *)
(* and destroys at once. LockFile_unmarked shows that it takes the result  *)
(* of fcntl().                                                             *)
(***************************************************************************)
UseMarked ==
  ~overlapped => \A h \in Handle : at[h] = "open" => name = Ino(h)

(***************************************************************************)
(* Every open() ends, however often the lock file is deleted under it, and *)
(* so does every destruction, in processes that are not wedged.            *)
(***************************************************************************)
OpensAndDropsEnd ==
  \A h \in Handle : []<>(at[h] \in {"none", "open"} \/ Wedged(Process(h)))
=============================================================================
