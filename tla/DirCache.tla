------------------------------ MODULE DirCache ------------------------------
(***************************************************************************)
(* The dispatcher's cache of directory handles, dirhcache (afio.ipp): weak *)
(* pointers by path.  get_handle_to_dir() first refreshes the path of all  *)
(* handles in it, each of which moves its entry when its path has changed, *)
(* and then finds the path, or opens the directory and adds it. Meanwhile  *)
(* other threads do the same, and other processes rename directories.      *)
(*                                                                         *)
(* The file system is external. Modelled directories are renamed from path *)
(* to path, or to and from somewhere that nobody asks for.                 *)
(***************************************************************************)
EXTENDS Integers, FiniteSets

CONSTANTS
  Dirs,        \* directories, by inode
  Paths,       \* where a directory may be
  DirHandles,  \* async_io_handle_posix objects of directories
  Threads,     \* pool threads that call get_handle_to_dir() or path(true)
  None,
  Expired,     \* a weak pointer whose handle is gone
  MaxRenames   \* bound on the renames by others

ASSUME CacheAssumption ==
  /\ MaxRenames \in Nat
  /\ None \notin Dirs \cup Paths \cup DirHandles \cup Threads
  /\ Expired \notin DirHandles /\ Expired # None

VARIABLES
  where,       \* file system: directory -> its path, if it has a modelled one
  renames,
  dir,         \* handle -> the directory it is open for
  path,        \* handle -> _path
  dirhcache,   \* path -> weak pointer to a handle
  kept,        \* handles that users have
  dircachelock,
  at,          \* thread -> where it is
  request,     \* thread -> req.path
  torefresh,   \* thread -> the handles it has yet to refresh
  dirh,        \* thread -> the handle it works on
  newpath,     \* thread -> what readlink() gave for it
  oldpath,     \* thread -> what _path was before
  during,      \* history: thread -> directories at req.path during its call
  raced,       \* history: handles whose path two threads set at once
  aliased      \* history: handles that were renamed while they were opened

handles == <<dir, path, kept>>
locals == <<request, torefresh, dirh, newpath, oldpath>>
cachevars == <<where, renames, handles, dirhcache, dircachelock, at, locals, during, raced, aliased>>

Label == {"idle", "refresh", "read", "changed", "updated", "lookup", "opened", "returned"}

CacheTypeOK ==
  /\ where \in [Dirs -> Paths \cup {None}]
  /\ renames \in 0..MaxRenames
  /\ dir \in [DirHandles -> Dirs \cup {None}]
  /\ path \in [DirHandles -> Paths \cup {None}]
  /\ dirhcache \in [Paths -> DirHandles \cup {None, Expired}]
  /\ kept \in SUBSET DirHandles
  /\ dircachelock \in Threads \cup {None}
  /\ at \in [Threads -> Label]
  /\ request \in [Threads -> Paths \cup {None}]
  /\ torefresh \in [Threads -> SUBSET DirHandles]
  /\ dirh \in [Threads -> DirHandles \cup {None}]
  /\ newpath \in [Threads -> Paths \cup {None}]
  /\ oldpath \in [Threads -> Paths \cup {None}]
  /\ during \in [Threads -> SUBSET Dirs]
  /\ raced \in SUBSET DirHandles /\ aliased \in SUBSET DirHandles

Goto(t, l) == at' = [at EXCEPT ![t] = l]
Unlocked == dircachelock = None

-----------------------------------------------------------------------------
\* Another process renames a directory.
Rename(d, p) ==
  /\ renames < MaxRenames
  /\ p # where[d] /\ \A e \in Dirs : p # None => where[e] # p
  /\ where' = [where EXCEPT ![d] = p]
  /\ renames' = renames + 1
  /\ during' = [t \in Threads |->
       IF p # None /\ p = request[t] THEN during[t] \cup {d} ELSE during[t]]
  /\ UNCHANGED <<handles, dirhcache, dircachelock, at, locals, raced, aliased>>

(***************************************************************************)
(* Handles are shared pointers: when the last goes, the handle closes, and *)
(* the cache's weak pointers to it expire.                                 *)
(***************************************************************************)
Live(h) == h \in kept \/ \E t \in Threads : dirh[t] = h

Expire(gone) ==
  /\ dir' = [h \in DirHandles |-> IF h \in gone THEN None ELSE dir[h]]
  /\ path' = [h \in DirHandles |-> IF h \in gone THEN None ELSE path[h]]
  /\ dirhcache' = [p \in Paths |-> IF dirhcache[p] \in gone THEN Expired ELSE dirhcache[p]]
  /\ torefresh' = [t \in Threads |-> torefresh[t] \ gone]
  /\ raced' = raced \ gone
  /\ aliased' = aliased \ gone

\* Thread t lets go of its dirh.
Release(t) ==
  /\ dirh' = [dirh EXCEPT ![t] = None]
  /\ Expire({h \in {dirh[t]} : h \notin kept /\ \A u \in Threads \ {t} : dirh[u] # h})

Drop(h) ==
  /\ h \in kept
  /\ kept' = kept \ {h}
  /\ Expire({h} \ {dirh[t] : t \in Threads})
  /\ UNCHANGED <<where, renames, dircachelock, at, request, dirh, newpath, oldpath, during>>

-----------------------------------------------------------------------------
(***************************************************************************)
(* int_directory_cached_handle_path_changed(): whoever's the old entry is, *)
(* it goes, and insert() leaves an entry that has the key already.         *)
(***************************************************************************)
Inserted(cache, p, h) ==
  IF p # None /\ cache[p] = None THEN [cache EXCEPT ![p] = h] ELSE cache
\* Mutant: the old entry stays.
Moved_Copied(cache, old, new, h) == Inserted(cache, new, h)
Moved(cache, old, new, h) ==
  Inserted(IF old = None THEN cache ELSE [cache EXCEPT ![old] = None], new, h)

(***************************************************************************)
(* path(true): readlink(), then the comparison with _path under pathlock,  *)
(* then, outside it, update_path().  Nothing keeps two threads that do     *)
(* this for one handle in order, nor what one puts into the cache from     *)
(* being out of date by then.                                              *)
(***************************************************************************)
Overlaps(t, h) == \E u \in Threads \ {t} : dirh[u] = h /\ at[u] \in {"read", "changed"}

Readlink(t, h) ==
  /\ raced' = IF Overlaps(t, h) THEN raced \cup {h} ELSE raced
  /\ dirh' = [dirh EXCEPT ![t] = h]
  /\ newpath' = [newpath EXCEPT ![t] = where[dir[h]]]
  /\ Goto(t, "read")

\* By a user, on a handle it has.
Path(t) ==
  /\ at[t] = "idle"
  /\ \E h \in kept : Readlink(t, h)
  /\ UNCHANGED <<where, renames, handles, dirhcache, dircachelock, request, torefresh, oldpath, during, aliased>>

\* get_handle_to_dir() goes on to the next handle, or the user's call returns.
Refreshed(t) == Goto(t, IF request[t] = None THEN "idle" ELSE "refresh")

Unchanged(t) ==
  /\ at[t] = "read" /\ path[dirh[t]] = newpath[t]
  /\ Release(t) /\ Refreshed(t)
  /\ newpath' = [newpath EXCEPT ![t] = None]
  /\ UNCHANGED <<where, renames, kept, dircachelock, request, oldpath, during>>

Changed(t) ==
  /\ at[t] = "read" /\ path[dirh[t]] # newpath[t]
  /\ oldpath' = [oldpath EXCEPT ![t] = path[dirh[t]]]
  /\ path' = [path EXCEPT ![dirh[t]] = newpath[t]]
  /\ Goto(t, "changed")
  /\ UNCHANGED <<where, renames, dir, kept, dirhcache, dircachelock, request, torefresh,
                 dirh, newpath, during, raced, aliased>>

\* The directory is elsewhere by now, and another thread asks for the path.
OutOfDate(t) ==
  /\ newpath[t] \notin {None, where[dir[dirh[t]]]}
  /\ \E u \in Threads \ {t} : request[u] = newpath[t]

UpdatePath(t) ==
  /\ at[t] = "changed" /\ Unlocked
  /\ dirhcache' = Moved(dirhcache, oldpath[t], newpath[t], dirh[t])
  /\ raced' = IF OutOfDate(t) THEN raced \cup {dirh[t]} ELSE raced
  /\ newpath' = [newpath EXCEPT ![t] = None]
  /\ oldpath' = [oldpath EXCEPT ![t] = None]
  /\ Goto(t, "updated")
  /\ UNCHANGED <<where, renames, handles, dircachelock, request, torefresh, dirh, during, aliased>>

\* path(true) has returned.
Updated(t) ==
  /\ at[t] = "updated"
  /\ Release(t) /\ Refreshed(t)
  /\ UNCHANGED <<where, renames, kept, dircachelock, request, newpath, oldpath, during>>

-----------------------------------------------------------------------------
(***************************************************************************)
(* get_handle_to_dir().                                                    *)
(***************************************************************************)
\* "First refresh all paths in the cache, eliminating any stale ptrs"
\* Mutant: nothing is refreshed.
ToRefresh_None == {}
ToRefresh == {dirhcache[p] : p \in Paths} \ {None, Expired}

GetHandleToDir(t, p) ==
  /\ at[t] = "idle" /\ Unlocked
  /\ request' = [request EXCEPT ![t] = p]
  /\ dirhcache' = [q \in Paths |-> IF dirhcache[q] = Expired THEN None ELSE dirhcache[q]]
  /\ torefresh' = [torefresh EXCEPT ![t] = ToRefresh]
  /\ during' = [during EXCEPT ![t] = {d \in Dirs : where[d] = p}]
  /\ Goto(t, "refresh")
  /\ UNCHANGED <<where, renames, handles, dircachelock, dirh, newpath, oldpath, raced, aliased>>

RefreshNext(t) ==
  /\ at[t] = "refresh"
  /\ \E h \in torefresh[t] :
       /\ Readlink(t, h)
       /\ torefresh' = [torefresh EXCEPT ![t] = @ \ {h}]
  /\ UNCHANGED <<where, renames, handles, dirhcache, dircachelock, request, oldpath, during, aliased>>

Found(t) ==
  LET h == dirhcache[request[t]] IN
  /\ at[t] = "refresh" /\ torefresh[t] = {} /\ Unlocked
  /\ h \in DirHandles
  /\ dirh' = [dirh EXCEPT ![t] = h]
  /\ Goto(t, "returned")
  /\ UNCHANGED <<where, renames, handles, dirhcache, dircachelock, request, torefresh, newpath,
                 oldpath, during, raced, aliased>>

NotFound(t) ==
  /\ at[t] = "refresh" /\ torefresh[t] = {} /\ Unlocked
  /\ dirhcache[request[t]] \notin DirHandles
  /\ dircachelock' = t
  /\ Goto(t, "lookup")
  /\ UNCHANGED <<where, renames, handles, dirhcache, locals, during, raced, aliased>>

\* dofile()'s openat().
OpenDir(t) ==
  /\ at[t] = "lookup"
  /\ \E d \in Dirs, h \in DirHandles :
       /\ where[d] = request[t]
       /\ dir[h] = None
       /\ dir' = [dir EXCEPT ![h] = d]
       /\ path' = [path EXCEPT ![h] = request[t]]
       /\ dirh' = [dirh EXCEPT ![t] = h]
  /\ Goto(t, "opened")
  /\ UNCHANGED <<where, renames, kept, dirhcache, dircachelock, request, torefresh, newpath,
                 oldpath, during, raced, aliased>>

Return(t) ==
  /\ request' = [request EXCEPT ![t] = None]
  /\ during' = [during EXCEPT ![t] = {}]

\* There is no such directory.
Throw(t) ==
  /\ at[t] = "lookup" /\ \A d \in Dirs : where[d] # request[t]
  /\ dircachelock' = None
  /\ Return(t)
  /\ Goto(t, "idle")
  /\ UNCHANGED <<where, renames, handles, dirhcache, torefresh, dirh, newpath, oldpath, raced, aliased>>

\* "May have renamed itself, if so add this entry point to the cache too"
Aliased(cache, p, new, h) == IF new = p THEN cache ELSE Inserted(cache, p, h)

\* do_add_io_handle_to_parent(): path(true), and the cache again to be sure.
AddItself(t) ==
  LET h == dirh[t] IN
  LET p == request[t] IN
  LET new == where[dir[h]] IN
  LET added == Inserted(IF new = p THEN dirhcache ELSE Moved(dirhcache, p, new, h), new, h) IN
  /\ at[t] = "opened"
  /\ path' = [path EXCEPT ![h] = new]
  /\ dirhcache' = Aliased(added, p, new, h)
  /\ aliased' = IF new = p THEN aliased ELSE aliased \cup {h}
  /\ dircachelock' = None
  /\ Goto(t, "returned")
  /\ UNCHANGED <<where, renames, dir, kept, locals, during, raced>>

\* The caller gives the handle to a user, or lets go of it.
Keep(t) ==
  /\ at[t] = "returned"
  /\ kept' = kept \cup {dirh[t]}
  /\ dirh' = [dirh EXCEPT ![t] = None]
  /\ Return(t)
  /\ Goto(t, "idle")
  /\ UNCHANGED <<where, renames, dir, path, dirhcache, dircachelock, torefresh, newpath, oldpath, raced, aliased>>

Forget(t) ==
  /\ at[t] = "returned"
  /\ Release(t) /\ Return(t)
  /\ Goto(t, "idle")
  /\ UNCHANGED <<where, renames, kept, dircachelock, newpath, oldpath>>

-----------------------------------------------------------------------------
CacheInit ==
  /\ where \in [Dirs -> Paths \cup {None}]
  /\ \A d, e \in Dirs : d # e /\ where[d] # None => where[d] # where[e]
  /\ renames = 0
  /\ dir = [h \in DirHandles |-> None]
  /\ path = [h \in DirHandles |-> None]
  /\ dirhcache = [p \in Paths |-> None]
  /\ kept = {}
  /\ dircachelock = None
  /\ at = [t \in Threads |-> "idle"]
  /\ request = [t \in Threads |-> None]
  /\ torefresh = [t \in Threads |-> {}]
  /\ dirh = [t \in Threads |-> None]
  /\ newpath = [t \in Threads |-> None]
  /\ oldpath = [t \in Threads |-> None]
  /\ during = [t \in Threads |-> {}]
  /\ raced = {} /\ aliased = {}

\* Steps of a call under way.
CacheStep(t) ==
  \/ Unchanged(t) \/ Changed(t) \/ UpdatePath(t) \/ Updated(t)
  \/ RefreshNext(t) \/ Found(t) \/ NotFound(t)
  \/ OpenDir(t) \/ Throw(t) \/ AddItself(t)

CacheNext ==
  \/ \E d \in Dirs, p \in Paths \cup {None} : Rename(d, p)
  \/ \E h \in DirHandles : Drop(h)
  \/ \E t \in Threads :
       \/ Path(t) \/ CacheStep(t) \/ Keep(t) \/ Forget(t)
       \/ \E p \in Paths : GetHandleToDir(t, p)

CacheSpec == CacheInit /\ [][CacheNext]_cachevars

-----------------------------------------------------------------------------
(***************************************************************************)
(* get_handle_to_dir() "Returns a handle to a directory from the cache, or *)
(* creates a new directory handle" (afio.ipp): of the directory that was   *)
(* at the path at some time during the call, however directories were      *)
(* renamed before it and are renamed during it. It holds of every handle   *)
(* but those renamed between their own openat() and readlink(), and those  *)
(* whose path two threads set at once.                                     *)
(***************************************************************************)
FindsCurrent ==
  \A t \in Threads : at[t] = "returned" =>
    dir[dirh[t]] \in during[t] \/ dirh[t] \in raced \cup aliased

(***************************************************************************)
(* The cache and its handles agree whenever no thread is at work: a handle *)
(* is found under the path it has, so that its next change of path takes   *)
(* its entry along; an entry left behind would serve the handle for any    *)
(* other directory that comes to be at its path. It holds of the handles   *)
(* that FindsCurrent holds of.                                             *)
(***************************************************************************)
EntriesAgree ==
  (\A t \in Threads : at[t] = "idle") =>
    \A p \in Paths : dirhcache[p] \in DirHandles =>
      path[dirhcache[p]] = p \/ dirhcache[p] \in raced \cup aliased

(***************************************************************************)
(* "First refresh all paths in the cache, eliminating any stale ptrs"      *)
(* (afio.ipp), where no directory is renamed while it is opened. It takes  *)
(* that nobody refreshes the same handles: DirCache_raced shows a handle   *)
(* returned of a directory that was not at the path during the call.       *)
(***************************************************************************)
FindsIfNoAlias ==
  aliased = {} => \A t \in Threads : at[t] = "returned" => dir[dirh[t]] \in during[t]

(***************************************************************************)
(* The same where no two threads set a path at once. DirCache_aliased      *)
(* shows that a refresh does not eliminate the second entry of a handle    *)
(* that "May have renamed itself" while it was opened.                     *)
(***************************************************************************)
FindsIfNoRace ==
  raced = {} => \A t \in Threads : at[t] = "returned" => dir[dirh[t]] \in during[t]
=============================================================================
