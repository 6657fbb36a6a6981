--------------------------- MODULE RaceProtection ---------------------------
(***************************************************************************)
(* unlink(), atomic_relink() and link() of a file by its handle, where the *)
(* file system does these by name only (async_io_handle_posix, afio.ipp).  *)
(* int_verifymyinode() looks for the directory the file is in, with the    *)
(* handle's own path and DirCache, until the leaf name in it is this very  *)
(* file; then the operation runs relative to that directory.  Others       *)
(* rename files and directories all the while, and other threads of the    *)
(* process refresh the handle's path.                                      *)
(*                                                                         *)
(* A directory at None is one that this process may not enter.  The handle *)
(* does not hold its parent open; unlinkat() and linkat() with             *)
(* AT_EMPTY_PATH fail, as they do for a process without privileges.        *)
(***************************************************************************)
EXTENDS DirCache

CONSTANTS
  Leaves,      \* leaf names of files
  Mine,        \* the file of the handle, by inode
  Others,      \* other files
  Worker,      \* the thread that runs the operations; others make the other calls
  Refreshers,  \* threads that call path(true) on the file's handle
  MaxTries,    \* 10 in the code
  Alone        \* no path(true) of the file's handle overlaps an operation on it

ASSUME RaceAssumption ==
  /\ Worker \in Threads /\ MaxTries \in Nat \ {0} /\ Alone \in BOOLEAN
  /\ Mine \notin Others /\ None \notin Leaves \cup Others \cup Refreshers /\ Mine # None

VARIABLES
  entry,       \* file system: directory -> leaf -> file
  fpath,       \* the handle's _path: that of the directory, and the leaf
  got,         \* refresher -> what its readlink() gave, or None
  op,          \* what the worker runs
  pc,
  tries,
  req,         \* path(true) in int_verifymyinode()
  leaf,        \* path().filename()
  hit,         \* history: the file whose name the system call used
  disturbed,   \* history: others changed the verified directory since then
  moved        \* history: others renamed something during this call

files == <<entry, fpath, got>>
opvars == <<op, pc, tries, req, leaf, hit>>
racevars == <<cachevars, files, opvars, disturbed, moved>>

Operations == {"unlink", "relink", "link"}
NoName == <<None, None>>
Names == ((Paths \cup {None}) \X Leaves) \cup {NoName}
PC == {"idle", "readlink", "verify", "container", "verified", "call", "done"}

RaceTypeOK ==
  /\ CacheTypeOK
  /\ entry \in [Dirs -> [Leaves -> Others \cup {Mine, None}]]
  /\ fpath \in Names
  /\ got \in [Refreshers -> Names \cup {None}]
  /\ op \in Operations \cup {None}
  /\ pc \in PC
  /\ tries \in 0..(MaxTries - 1)
  /\ req \in Names
  /\ leaf \in Leaves \cup {None}
  /\ hit \in Others \cup {Mine, None}
  /\ disturbed \in BOOLEAN
  /\ moved \in BOOLEAN

\* readlink("/proc/self/fd/n"): no name for a file that is deleted.
WhereMine ==
  LET places == {x \in Dirs \X Leaves : entry[x[1]][x[2]] = Mine}
  IN  IF places = {} THEN NoName
      ELSE LET x == CHOOSE x \in places : TRUE IN <<where[x[1]], x[2]>>

-----------------------------------------------------------------------------
\* rename() by others, of a file and of a directory.
Verified == pc \in {"verified", "call"}

RenameFile(d, l, e, k) ==
  /\ renames < MaxRenames
  /\ <<d, l>> # <<e, k>> /\ entry[d][l] # None
  /\ renames' = renames + 1
  /\ entry' = [f \in Dirs |-> [n \in Leaves |->
       CASE <<f, n>> = <<d, l>> -> None
         [] <<f, n>> = <<e, k>> -> entry[d][l]
         [] OTHER -> entry[f][n]]]
  /\ disturbed' = (disturbed \/ (Verified /\ dir[dirh[Worker]] \in {d, e}))
  /\ moved' = (pc # "idle")
  /\ UNCHANGED <<where, handles, dirhcache, dircachelock, at, locals, during, raced, aliased,
                 fpath, got, opvars>>

RenameDir(d, p) ==
  /\ Rename(d, p)
  /\ moved' = (pc # "idle")
  /\ UNCHANGED <<files, opvars, disturbed>>

-----------------------------------------------------------------------------
(***************************************************************************)
(* path(true) of the file's handle on another thread.                      *)
(***************************************************************************)
RefreshRead(r) ==
  /\ got[r] = None
  /\ Alone => pc = "idle"
  /\ got' = [got EXCEPT ![r] = WhereMine]
  /\ UNCHANGED <<cachevars, entry, fpath, opvars, disturbed, moved>>

RefreshSet(r) ==
  /\ got[r] # None
  /\ fpath' = got[r]
  /\ got' = [got EXCEPT ![r] = None]
  /\ UNCHANGED <<cachevars, entry, opvars, disturbed, moved>>

-----------------------------------------------------------------------------
(***************************************************************************)
(* int_verifymyinode().                                                    *)
(***************************************************************************)
Begin(o) ==
  /\ pc = "idle" /\ at[Worker] = "idle"
  /\ Alone => \A r \in Refreshers : got[r] = None
  /\ op' = o
  /\ pc' = "readlink"
  /\ UNCHANGED <<cachevars, files, tries, req, leaf, hit, disturbed, moved>>

PathRead ==
  /\ pc = "readlink"
  /\ req' = WhereMine
  /\ pc' = "verify"
  /\ UNCHANGED <<cachevars, files, op, tries, leaf, hit, disturbed, moved>>

\* _path is set, and int_get_handle_to_containing_dir() called.
Container ==
  /\ pc = "verify"
  /\ fpath' = req
  /\ req[1] # None
  /\ GetHandleToDir(Worker, req[1])
  /\ pc' = "container"
  /\ UNCHANGED <<entry, got, op, tries, req, leaf, hit, disturbed, moved>>

End == /\ pc' = "idle" /\ op' = None /\ tries' = 0 /\ req' = NoName /\ leaf' = None
       /\ hit' = None /\ disturbed' = FALSE /\ moved' = FALSE

\* "Didn't find an entry with my name, so sleep and retry"; then ENOENT.
Retry == /\ tries < MaxTries - 1
         /\ tries' = tries + 1
         /\ pc' = "readlink"
         /\ UNCHANGED <<op, req, leaf, hit, disturbed, moved>>
GiveUp == tries = MaxTries - 1 /\ End

\* It throws, as "Path to containing directory may have gone stale".
NoContainer ==
  /\ \/ pc = "verify" /\ req[1] = None /\ fpath' = req
     \/ pc = "container" /\ at[Worker] = "idle" /\ fpath' = fpath
  /\ Retry \/ GiveUp
  /\ UNCHANGED <<cachevars, entry, got>>

\* lstatat(dirh, req.path.filename())
\* Mutant: whatever has the name.
Matches_Name(d, l) == entry[d][l] # None
Matches(d, l) == entry[d][l] = Mine

Verify ==
  /\ pc = "container" /\ at[Worker] = "returned"
  /\ Matches(dir[dirh[Worker]], req[2])
  /\ pc' = "verified"
  /\ UNCHANGED <<cachevars, files, op, tries, req, leaf, hit, disturbed, moved>>

Mismatch ==
  /\ pc = "container" /\ at[Worker] = "returned"
  /\ ~Matches(dir[dirh[Worker]], req[2])
  /\ Forget(Worker)
  /\ Retry \/ GiveUp
  /\ UNCHANGED files

-----------------------------------------------------------------------------
(***************************************************************************)
(* unlink(), atomic_relink() and link() once the directory is known.       *)
(***************************************************************************)
\* path().filename()
ReadLeaf ==
  /\ pc = "verified"
  /\ leaf' = fpath[2]
  /\ pc' = "call"
  /\ UNCHANGED <<cachevars, files, op, tries, req, hit, disturbed, moved>>

Target(d) == IF leaf = None THEN None ELSE entry[d][leaf]

\* unlinkat(), renameat() or linkat() fails, and the operation throws: the name is
\* not there, or the new name has no directory.
Fails ==
  /\ pc = "call"
  /\ Target(dir[dirh[Worker]]) = None \/ (op = "relink" /\ \E p \in Paths : \A e \in Dirs : where[e] # p)
  /\ Forget(Worker)
  /\ End
  /\ UNCHANGED files

\* The new name of link() is not in a modelled directory.
Call ==
  LET d == dir[dirh[Worker]] IN
  /\ pc = "call" /\ Target(d) # None
  /\ hit' = Target(d)
  /\ \/ /\ op = "unlink"
        /\ entry' = [entry EXCEPT ![d][leaf] = None]
        /\ req' = NoName
     \/ /\ op = "relink"
        /\ \E e \in Dirs, k \in Leaves :
             /\ where[e] # None /\ <<e, k>> # <<d, leaf>>
             /\ entry' = [f \in Dirs |-> [n \in Leaves |->
                  CASE <<f, n>> = <<d, leaf>> -> None
                    [] <<f, n>> = <<e, k>> -> Target(d)
                    [] OTHER -> entry[f][n]]]
             /\ req' = <<where[e], k>>
     \/ /\ op = "link"
        /\ UNCHANGED <<entry, req>>
  /\ pc' = "done"
  /\ UNCHANGED <<cachevars, fpath, got, op, tries, leaf, disturbed, moved>>

\* update_path: of unlink() and atomic_relink().
Done ==
  /\ pc = "done"
  /\ fpath' = IF op = "link" THEN fpath ELSE req
  /\ Forget(Worker)
  /\ End
  /\ UNCHANGED <<entry, got>>

-----------------------------------------------------------------------------
RaceInit ==
  /\ CacheInit
  /\ \E d \in Dirs, l \in Leaves, o \in [Leaves -> Others \cup {None}] :
       entry = [e \in Dirs |-> [k \in Leaves |->
                  IF e = d THEN IF k = l THEN Mine ELSE o[k] ELSE None]]
  /\ \A f \in Others : Cardinality({x \in Dirs \X Leaves : entry[x[1]][x[2]] = f}) <= 1
  /\ fpath = WhereMine
  /\ got = [r \in Refreshers |-> None]
  /\ op = None /\ pc = "idle" /\ tries = 0 /\ req = NoName /\ leaf = None
  /\ hit = None /\ disturbed = FALSE /\ moved = FALSE

RaceNext ==
  \/ \E d \in Dirs, p \in Paths \cup {None} : RenameDir(d, p)
  \/ \E d, e \in Dirs, l, k \in Leaves : RenameFile(d, l, e, k)
  \/ \E r \in Refreshers : RefreshRead(r) \/ RefreshSet(r)
  \/ \E o \in Operations : Begin(o)
  \/ PathRead \/ Container \/ NoContainer \/ Verify \/ Mismatch
  \/ ReadLeaf \/ Fails \/ Call \/ Done
  \/ /\ \/ \E h \in DirHandles : Drop(h)
        \/ \E t \in Threads : CacheStep(t)
        \/ \E t \in Threads \ {Worker} :
             \/ Path(t) \/ Keep(t) \/ Forget(t)
             \/ \E p \in Paths : GetHandleToDir(t, p)
     /\ UNCHANGED <<files, opvars, disturbed, moved>>

RaceSpec == RaceInit /\ [][RaceNext]_racevars

-----------------------------------------------------------------------------
(***************************************************************************)
(* Operations with race protection are "Race free up to the containing     *)
(* directory" (afio.hpp): the system call is about the name of the         *)
(* handle's own file, unless others changed the directory's entries after  *)
(* they were verified, whatever they did to it, to the directories above   *)
(* and to the names of the file before.                                    *)
(***************************************************************************)
RaceFree == hit \in {Mine, None} \/ disturbed

(***************************************************************************)
(* An operation that gives up after all tries, with ENOENT though its file *)
(* still has a name it can reach, was outrun by the renames of others      *)
(* during the call: nothing that earlier renames left in the cache or in   *)
(* the handle's path makes it fail. The exception is a containing handle   *)
(* that FindsCurrent excepts: the cache goes on to give it to operations.  *)
(***************************************************************************)
GivesUpOnlyIfOutrun ==
  [][ NoContainer \/ Mismatch =>
        \/ pc' # "idle" \/ moved \/ WhereMine[1] = None
        \/ dirh[Worker] \in raced \cup aliased ]_racevars
=============================================================================
