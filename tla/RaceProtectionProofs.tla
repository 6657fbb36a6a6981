------------------------ MODULE RaceProtectionProofs ------------------------
(***************************************************************************)
(* Proofs about RaceProtection, and what they need of DirCache, for any    *)
(* number of directories, names, handles and threads.                      *)
(***************************************************************************)
EXTENDS RaceProtection, TLAPS

Working == {"read", "changed", "updated", "opened", "returned"}
Asking == {"refresh", "lookup", "opened", "returned"}
Opened(h) == dir[h] \in Dirs

(***************************************************************************)
(* A handle that anyone can get at is open: nothing that expires is left   *)
(* in the cache or in a thread's hands.                                    *)
(***************************************************************************)
OpenInv ==
  /\ \A t \in Threads : at[t] \in Working => dirh[t] \in DirHandles /\ Opened(dirh[t])
  /\ \A t \in Threads : at[t] \in Asking => request[t] \in Paths
  /\ \A h \in kept : Opened(h)
  /\ \A p \in Paths : dirhcache[p] \in DirHandles => Opened(dirhcache[p])
  /\ \A t \in Threads : \A h \in torefresh[t] : Opened(h)

CacheInv == CacheTypeOK /\ OpenInv

LEMMA Names_ ==
  /\ None \notin Dirs /\ None \notin Paths /\ None \notin DirHandles /\ None \notin Threads
  /\ Expired \notin DirHandles /\ Expired # None
BY CacheAssumption

-----------------------------------------------------------------------------
(***************************************************************************)
(* DirCache.  A handle goes only when nobody has it.                       *)
(***************************************************************************)
LEMMA ExpireInv ==
  ASSUME CacheInv, NEW gone \in SUBSET DirHandles, Expire(gone)
  PROVE  /\ dir' \in [DirHandles -> Dirs \cup {None}]
         /\ path' \in [DirHandles -> Paths \cup {None}]
         /\ dirhcache' \in [Paths -> DirHandles \cup {None, Expired}]
         /\ torefresh' \in [Threads -> SUBSET DirHandles]
         /\ \A h \in DirHandles \ gone : dir'[h] = dir[h]
         /\ \A p \in Paths : dirhcache'[p] \in DirHandles => Opened(dirhcache[p])'
         /\ \A t \in Threads : \A h \in torefresh'[t] : Opened(h)'
<1> USE Names_ DEF CacheInv, CacheTypeOK
<1>1. /\ dir' \in [DirHandles -> Dirs \cup {None}]
      /\ path' \in [DirHandles -> Paths \cup {None}]
      /\ dirhcache' \in [Paths -> DirHandles \cup {None, Expired}]
      /\ torefresh' \in [Threads -> SUBSET DirHandles]
  BY DEF Expire
<1>2. \A h \in DirHandles \ gone : dir'[h] = dir[h]
  BY DEF Expire
<1>3. ASSUME NEW p \in Paths, dirhcache'[p] \in DirHandles PROVE Opened(dirhcache[p])'
  <2>1. dirhcache'[p] = dirhcache[p] /\ dirhcache[p] \in DirHandles \ gone
    BY <1>3 DEF Expire
  <2> QED
    BY <2>1, <1>2 DEF OpenInv, Opened
<1>4. ASSUME NEW t \in Threads, NEW h \in torefresh'[t] PROVE Opened(h)'
  <2>1. h \in torefresh[t] /\ h \in DirHandles \ gone
    BY DEF Expire
  <2> QED
    BY <2>1, <1>2 DEF OpenInv, Opened
<1> QED
  BY <1>1, <1>2, <1>3, <1>4

LEMMA ReleaseInv ==
  ASSUME CacheInv, NEW t \in Threads, at[t] \in Working, Release(t),
         kept' = kept, request' = request \/ request' = [request EXCEPT ![t] = None],
         NEW l \in {"idle", "refresh"}, at' = [at EXCEPT ![t] = l], l = "refresh" => request'[t] \in Paths
  PROVE  /\ OpenInv'
         /\ dir' \in [DirHandles -> Dirs \cup {None}]
         /\ path' \in [DirHandles -> Paths \cup {None}]
         /\ dirhcache' \in [Paths -> DirHandles \cup {None, Expired}]
         /\ torefresh' \in [Threads -> SUBSET DirHandles]
         /\ dirh' \in [Threads -> DirHandles \cup {None}]
         /\ \A u \in Threads \ {t} : /\ dirh'[u] = dirh[u]
                                     /\ at[u] \in Working => dir'[dirh[u]] = dir[dirh[u]]
<1> USE Names_
<1> DEFINE gone == {h \in {dirh[t]} : h \notin kept /\ \A u \in Threads \ {t} : dirh[u] # h}
<1>1. dirh[t] \in DirHandles /\ Expire(gone)
  BY DEF CacheInv, OpenInv, Release
<1>2. gone \in SUBSET DirHandles
  BY <1>1
<1>3. dirh' = [dirh EXCEPT ![t] = None]
  BY DEF Release
<1>4. dirh' \in [Threads -> DirHandles \cup {None}] /\ \A u \in Threads \ {t} : dirh'[u] = dirh[u]
  BY <1>3 DEF CacheInv, CacheTypeOK
<1>5. (\A h \in kept : h \notin gone) /\ \A u \in Threads \ {t} : dirh[u] \notin gone
  OBVIOUS
<1> HIDE DEF gone
<1>6. /\ dir' \in [DirHandles -> Dirs \cup {None}]
      /\ path' \in [DirHandles -> Paths \cup {None}]
      /\ dirhcache' \in [Paths -> DirHandles \cup {None, Expired}]
      /\ torefresh' \in [Threads -> SUBSET DirHandles]
      /\ \A h \in DirHandles \ gone : dir'[h] = dir[h]
      /\ \A p \in Paths : dirhcache'[p] \in DirHandles => Opened(dirhcache[p])'
      /\ \A u \in Threads : \A h \in torefresh'[u] : Opened(h)'
  BY <1>1, <1>2, ExpireInv
<1>7. \A h \in kept' : Opened(h)'
  BY <1>5, <1>6 DEF CacheInv, CacheTypeOK, OpenInv, Opened
<1>8. \A u \in Threads \ {t} : at[u] \in Working => dir'[dirh[u]] = dir[dirh[u]]
  BY <1>5, <1>6 DEF CacheInv, OpenInv
<1>9. \A u \in Threads : u # t => at'[u] = at[u] /\ request'[u] = request[u]
  BY DEF CacheInv, CacheTypeOK
<1>10. at'[t] = l /\ l \notin Working /\ (l \in Asking => request'[t] \in Paths)
  BY DEF CacheInv, CacheTypeOK, Working, Asking
<1>11. \A u \in Threads : at'[u] \in Working => dirh'[u] \in DirHandles /\ Opened(dirh[u])'
  BY <1>4, <1>8, <1>9, <1>10 DEF CacheInv, OpenInv, Opened
<1>12. \A u \in Threads : at'[u] \in Asking => request'[u] \in Paths
  BY <1>9, <1>10 DEF CacheInv, OpenInv
<1> QED
  BY <1>4, <1>6, <1>7, <1>8, <1>11, <1>12 DEF OpenInv

LEMMA MovedType ==
  ASSUME NEW cache \in [Paths -> DirHandles \cup {None, Expired}], NEW h \in DirHandles,
         NEW old \in Paths \cup {None}, NEW new \in Paths \cup {None}
  PROVE  /\ Moved(cache, old, new, h) \in [Paths -> DirHandles \cup {None, Expired}]
         /\ \A p \in Paths : Moved(cache, old, new, h)[p] \in {cache[p], None, h}
         /\ Inserted(cache, new, h) \in [Paths -> DirHandles \cup {None, Expired}]
         /\ \A p \in Paths : Inserted(cache, new, h)[p] \in {cache[p], h}
BY Names_ DEF Moved, Inserted

\* Thread t keeps the handle it has returned with, open for the same directory.
Held(t) ==
  /\ at'[t] = "returned" /\ dirh'[t] = dirh[t] /\ dir'[dirh[t]] = dir[dirh[t]]

LEMMA OthersStay ==
  ASSUME CacheInv, [CacheNext]_cachevars, NEW w \in Threads, at[w] = "returned"
  PROVE  Held(w) \/ Keep(w) \/ Forget(w)
<1> USE Names_ DEF CacheInv, CacheTypeOK, Goto, handles, locals
<1>1. /\ dirh[w] \in DirHandles /\ Opened(dirh[w])
  BY DEF OpenInv, Working
<1>2. ASSUME UNCHANGED <<at, dir, dirh>> PROVE Held(w)
  BY <1>2 DEF Held
<1>3. ASSUME NEW h \in kept, Drop(h) PROVE Held(w)
  BY <1>1, <1>3, ExpireInv DEF Drop, Held
<1>4. ASSUME NEW t \in Threads, CacheStep(t) \/ Keep(t) \/ Forget(t) \/ Path(t) \/ \E p \in Paths : GetHandleToDir(t, p)
      PROVE  Held(w) \/ Keep(w) \/ Forget(w)
  <2>1. CASE t = w
    BY <1>4, <2>1 DEF CacheStep, Unchanged, Changed, UpdatePath, Updated, RefreshNext, Found, NotFound,
       OpenDir, Throw, AddItself, Path, GetHandleToDir
  <2>2. CASE t # w
    <3>1. at'[w] = at[w]
      BY <1>4, <2>2 DEF CacheStep, Unchanged, Changed, UpdatePath, Updated, RefreshNext, Found, NotFound,
         OpenDir, Throw, AddItself, Path, GetHandleToDir, Keep, Forget, Refreshed, Readlink
    <3>2. dirh'[w] = dirh[w]
      BY <1>4, <2>2 DEF CacheStep, Unchanged, Changed, UpdatePath, Updated, RefreshNext, Found, NotFound,
         OpenDir, Throw, AddItself, Path, GetHandleToDir, Keep, Forget, Release, Readlink
    <3>3. CASE Release(t)
      <4> DEFINE gone == {h \in {dirh[t]} : h \notin kept /\ \A u \in Threads \ {t} : dirh[u] # h}
      <4>1. Expire(gone) /\ dirh[w] \notin gone
        BY <2>2, <3>3 DEF Release
      <4>2. dir'[dirh[w]] = dir[dirh[w]]
        BY <1>1, <4>1 DEF Expire
      <4> QED
        BY <3>1, <3>2, <4>2 DEF Held
    <3>4. CASE OpenDir(t)
      BY <1>1, <3>1, <3>2, <3>4 DEF OpenDir, Opened, Held
    <3>5. Release(t) \/ OpenDir(t) \/ dir' = dir
      BY <1>4 DEF CacheStep, Unchanged, Changed, UpdatePath, Updated, RefreshNext, Found, NotFound,
         Throw, AddItself, Path, GetHandleToDir, Keep, Forget
    <3> QED
      BY <3>1, <3>2, <3>3, <3>4, <3>5 DEF Held
  <2> QED
    BY <2>1, <2>2
<1>5. \/ UNCHANGED <<at, dir, dirh>>
      \/ \E h \in kept : Drop(h)
      \/ \E t \in Threads : CacheStep(t) \/ Keep(t) \/ Forget(t) \/ Path(t) \/ \E p \in Paths : GetHandleToDir(t, p)
  BY DEF CacheNext, cachevars, Rename, Drop
<1> QED
  BY <1>2, <1>3, <1>4, <1>5

\* Only handles are remembered.
LEMMA HistoryTypes ==
  ASSUME CacheInv, [CacheNext]_cachevars
  PROVE  raced' \in SUBSET DirHandles /\ aliased' \in SUBSET DirHandles
<1> USE DEF CacheInv, CacheTypeOK, OpenInv, Working, Expire, Release, Readlink
<1>1. ASSUME NEW t \in Threads, Unchanged(t) \/ Changed(t) \/ UpdatePath(t) \/ Updated(t)
      PROVE  raced' \in SUBSET DirHandles /\ aliased' \in SUBSET DirHandles
  BY <1>1 DEF Unchanged, Changed, UpdatePath, Updated
<1>2. ASSUME NEW t \in Threads, RefreshNext(t) \/ Found(t) \/ NotFound(t) \/ OpenDir(t) \/ Throw(t)
      PROVE  raced' \in SUBSET DirHandles /\ aliased' \in SUBSET DirHandles
  BY <1>2 DEF RefreshNext, Found, NotFound, OpenDir, Throw
<1>3. ASSUME NEW t \in Threads, AddItself(t)
      PROVE  raced' \in SUBSET DirHandles /\ aliased' \in SUBSET DirHandles
  BY <1>3 DEF AddItself
<1>4. ASSUME NEW t \in Threads, Path(t) \/ Keep(t) \/ Forget(t) \/ \E p \in Paths : GetHandleToDir(t, p)
      PROVE  raced' \in SUBSET DirHandles /\ aliased' \in SUBSET DirHandles
  BY <1>4 DEF Path, Keep, Forget, GetHandleToDir
<1>5. ASSUME NEW h \in DirHandles, Drop(h)
      PROVE  raced' \in SUBSET DirHandles /\ aliased' \in SUBSET DirHandles
  BY <1>5 DEF Drop
<1>6. ASSUME UNCHANGED <<raced, aliased>>
      PROVE  raced' \in SUBSET DirHandles /\ aliased' \in SUBSET DirHandles
  BY <1>6
<1>7. (\E d \in Dirs, p \in Paths \cup {None} : Rename(d, p)) \/ UNCHANGED cachevars => UNCHANGED <<raced, aliased>>
  BY DEF Rename, cachevars
<1> QED
  BY <1>1, <1>2, <1>3, <1>4, <1>5, <1>6, <1>7 DEF CacheNext, CacheStep

LEMMA CacheInvStep ==
  ASSUME CacheInv, [CacheNext]_cachevars
  PROVE  CacheInv'
<1> USE Names_ DEF handles, locals
<1> DEFINE Q == CacheInv'
<1>0. raced' \in SUBSET DirHandles /\ aliased' \in SUBSET DirHandles
  BY HistoryTypes
<1> USE <1>0
<1>1. ASSUME NEW d \in Dirs, NEW p \in Paths \cup {None}, Rename(d, p) PROVE Q
  <2>1. /\ where' = [where EXCEPT ![d] = p] /\ renames < MaxRenames /\ renames' = renames + 1
        /\ UNCHANGED <<handles, dirhcache, dircachelock, at, locals>>
        /\ during' \in [Threads -> SUBSET Dirs]
    BY <1>1 DEF Rename, CacheInv, CacheTypeOK
  <2>2. renames' \in 0..MaxRenames
    BY <2>1, CacheAssumption DEF CacheInv, CacheTypeOK
  <2>3. CacheTypeOK'
    BY <2>1, <2>2 DEF CacheInv, CacheTypeOK
  <2>4. OpenInv'
    BY <2>1 DEF CacheInv, OpenInv, Opened
  <2> QED
    BY <2>3, <2>4 DEF CacheInv
<1>2. ASSUME NEW h \in DirHandles, Drop(h) PROVE Q
  <2> DEFINE gone == {h} \ {dirh[t] : t \in Threads}
  <2>1. gone \in SUBSET DirHandles /\ Expire(gone) /\ kept' = kept \ {h}
    BY <1>2 DEF Drop
  <2>2. (\A k \in kept' : k \notin gone) /\ \A t \in Threads : dirh[t] \notin gone
    BY <2>1
  <2> HIDE DEF gone
  <2>3. /\ dir' \in [DirHandles -> Dirs \cup {None}]
        /\ path' \in [DirHandles -> Paths \cup {None}]
        /\ dirhcache' \in [Paths -> DirHandles \cup {None, Expired}]
        /\ torefresh' \in [Threads -> SUBSET DirHandles]
        /\ \A k \in DirHandles \ gone : dir'[k] = dir[k]
        /\ \A p \in Paths : dirhcache'[p] \in DirHandles => Opened(dirhcache[p])'
        /\ \A t \in Threads : \A k \in torefresh'[t] : Opened(k)'
    BY <2>1, ExpireInv
  <2>4. CacheTypeOK'
    BY <1>2, <2>1, <2>3 DEF Drop, CacheInv, CacheTypeOK
  <2>5. \A k \in kept' : Opened(k)'
    BY <2>1, <2>2, <2>3 DEF CacheInv, CacheTypeOK, OpenInv, Opened
  <2>6. \A t \in Threads : at'[t] \in Working => dirh'[t] \in DirHandles /\ Opened(dirh[t])'
    BY <1>2, <2>2, <2>3 DEF Drop, CacheInv, OpenInv, Opened
  <2>7. UNCHANGED <<at, request>>
    BY <1>2 DEF Drop
  <2> QED
    BY <2>3, <2>4, <2>5, <2>6, <2>7 DEF CacheInv, OpenInv
<1>3. ASSUME NEW t \in Threads, Path(t) PROVE Q
  BY <1>3 DEF Path, Readlink, Goto, CacheInv, CacheTypeOK, OpenInv, Opened, Working, Asking, Label
<1>4. ASSUME NEW t \in Threads, Unchanged(t) PROVE Q
  <2>1. PICK l \in {"idle", "refresh"} : at' = [at EXCEPT ![t] = l] /\ (l = "refresh" => request[t] # None)
    BY <1>4 DEF Unchanged, Refreshed, Goto
  <2>2. at[t] \in Working /\ Release(t) /\ kept' = kept /\ request' = request
    BY <1>4 DEF Unchanged, Working
  <2>3. request[t] # None => request'[t] \in Paths
    BY <2>2 DEF CacheInv, CacheTypeOK
  <2>4. /\ OpenInv'
        /\ dir' \in [DirHandles -> Dirs \cup {None}]
        /\ path' \in [DirHandles -> Paths \cup {None}]
        /\ dirhcache' \in [Paths -> DirHandles \cup {None, Expired}]
        /\ torefresh' \in [Threads -> SUBSET DirHandles]
        /\ dirh' \in [Threads -> DirHandles \cup {None}]
    BY <2>1, <2>2, <2>3, ReleaseInv
  <2>5. CacheTypeOK'
    BY <1>4, <2>1, <2>4 DEF Unchanged, CacheInv, CacheTypeOK, Label
  <2> QED
    BY <2>4, <2>5 DEF CacheInv
<1>5. ASSUME NEW t \in Threads, Changed(t) PROVE Q
  BY <1>5 DEF Changed, Goto, CacheInv, CacheTypeOK, OpenInv, Opened, Working, Asking, Label
<1>6. ASSUME NEW t \in Threads, UpdatePath(t) PROVE Q
  <2>1. at[t] = "changed" /\ dirh[t] \in DirHandles /\ Opened(dirh[t])
    BY <1>6 DEF UpdatePath, CacheInv, OpenInv, Working
  <2>2. /\ dirhcache' \in [Paths -> DirHandles \cup {None, Expired}]
        /\ \A p \in Paths : dirhcache'[p] \in {dirhcache[p], None, dirh[t]}
    BY <1>6, <2>1, MovedType DEF UpdatePath, CacheInv, CacheTypeOK
  <2>3. CacheTypeOK'
    BY <1>6, <2>2 DEF UpdatePath, Goto, CacheInv, CacheTypeOK, Label
  <2>4. OpenInv'
    BY <1>6, <2>1, <2>2 DEF UpdatePath, Goto, CacheInv, CacheTypeOK, OpenInv, Opened, Working, Asking
  <2> QED
    BY <2>3, <2>4 DEF CacheInv
<1>7. ASSUME NEW t \in Threads, Updated(t) PROVE Q
  <2>1. PICK l \in {"idle", "refresh"} : at' = [at EXCEPT ![t] = l] /\ (l = "refresh" => request[t] # None)
    BY <1>7 DEF Updated, Refreshed, Goto
  <2>2. at[t] \in Working /\ Release(t) /\ kept' = kept /\ request' = request
    BY <1>7 DEF Updated, Working
  <2>3. request[t] # None => request'[t] \in Paths
    BY <2>2 DEF CacheInv, CacheTypeOK
  <2>4. /\ OpenInv'
        /\ dir' \in [DirHandles -> Dirs \cup {None}]
        /\ path' \in [DirHandles -> Paths \cup {None}]
        /\ dirhcache' \in [Paths -> DirHandles \cup {None, Expired}]
        /\ torefresh' \in [Threads -> SUBSET DirHandles]
        /\ dirh' \in [Threads -> DirHandles \cup {None}]
    BY <2>1, <2>2, <2>3, ReleaseInv
  <2>5. CacheTypeOK'
    BY <1>7, <2>1, <2>4 DEF Updated, CacheInv, CacheTypeOK, Label
  <2> QED
    BY <2>4, <2>5 DEF CacheInv
<1>8. ASSUME NEW t \in Threads, RefreshNext(t) PROVE Q
  BY <1>8 DEF RefreshNext, Readlink, Goto, CacheInv, CacheTypeOK, OpenInv, Opened, Working, Asking, Label
<1>9. ASSUME NEW t \in Threads, Found(t) PROVE Q
  BY <1>9 DEF Found, Goto, CacheInv, CacheTypeOK, OpenInv, Opened, Working, Asking, Label
<1>10. ASSUME NEW t \in Threads, NotFound(t) PROVE Q
  BY <1>10 DEF NotFound, Goto, CacheInv, CacheTypeOK, OpenInv, Opened, Working, Asking, Label
<1>11. ASSUME NEW t \in Threads, OpenDir(t) PROVE Q
  <2>1. PICK d \in Dirs, h \in DirHandles :
          /\ dir' = [dir EXCEPT ![h] = d]
          /\ path' = [path EXCEPT ![h] = request[t]]
          /\ dirh' = [dirh EXCEPT ![t] = h]
    BY <1>11 DEF OpenDir
  <2>2. at[t] = "lookup" /\ at' = [at EXCEPT ![t] = "opened"]
        /\ UNCHANGED <<where, renames, kept, dirhcache, dircachelock, request, torefresh, newpath, oldpath, during>>
    BY <1>11 DEF OpenDir, Goto
  <2>3. \A k : Opened(k) /\ k \in DirHandles => Opened(k)'
    BY <2>1 DEF CacheInv, CacheTypeOK, Opened
  <2>4. CacheTypeOK'
    BY <2>1, <2>2 DEF CacheInv, CacheTypeOK, Label
  <2>5. OpenInv'
    BY <2>1, <2>2, <2>3 DEF CacheInv, CacheTypeOK, OpenInv, Opened, Working, Asking
  <2> QED
    BY <2>4, <2>5 DEF CacheInv
<1>12. ASSUME NEW t \in Threads, Throw(t) PROVE Q
  BY <1>12 DEF Throw, Return, Goto, CacheInv, CacheTypeOK, OpenInv, Opened, Working, Asking, Label
<1>13. ASSUME NEW t \in Threads, AddItself(t) PROVE Q
  <2> DEFINE h == dirh[t]
             p == request[t]
             new == where[dir[h]]
             before == IF new = p THEN dirhcache ELSE Moved(dirhcache, p, new, h)
             added == Inserted(before, new, h)
             C == [Paths -> DirHandles \cup {None, Expired}]
  <2>1. h \in DirHandles /\ Opened(h) /\ p \in Paths
    BY <1>13 DEF AddItself, CacheInv, OpenInv, Working, Asking
  <2>2. new \in Paths \cup {None} /\ dirhcache \in C
    BY <2>1 DEF CacheInv, CacheTypeOK, Opened
  <2>3. before \in C /\ \A q \in Paths : before[q] \in {dirhcache[q], None, h}
    BY <2>1, <2>2, MovedType
  <2>4. dirhcache' = Aliased(added, p, new, h)
    BY <1>13 DEF AddItself
  <2> HIDE DEF h, p, new, before
  <2>5. added \in C /\ \A q \in Paths : added[q] \in {dirhcache[q], None, h}
    BY <2>1, <2>2, <2>3, MovedType
  <2> HIDE DEF added
  <2>6. dirhcache' \in C /\ \A q \in Paths : dirhcache'[q] \in {dirhcache[q], None, h}
    BY <2>1, <2>2, <2>4, <2>5, MovedType DEF Aliased
  <2>7. /\ path' = [path EXCEPT ![h] = new] /\ dircachelock' = None
        /\ at[t] = "opened" /\ at' = [at EXCEPT ![t] = "returned"]
        /\ UNCHANGED <<where, renames, dir, kept, locals, during>>
    BY <1>13 DEF AddItself, Goto, h, new
  <2>8. CacheTypeOK'
    BY <2>2, <2>6, <2>7 DEF CacheInv, CacheTypeOK, Label
  <2>9. OpenInv'
    BY <2>1, <2>6, <2>7 DEF CacheInv, CacheTypeOK, OpenInv, Opened, Working, Asking
  <2> QED
    BY <2>8, <2>9 DEF CacheInv
<1>14. ASSUME NEW t \in Threads, Keep(t) PROVE Q
  BY <1>14 DEF Keep, Return, Goto, CacheInv, CacheTypeOK, OpenInv, Opened, Working, Asking, Label
<1>15. ASSUME NEW t \in Threads, Forget(t) PROVE Q
  <2>1. /\ at' = [at EXCEPT ![t] = "idle"] /\ at[t] \in Working /\ Release(t) /\ kept' = kept
        /\ request' = [request EXCEPT ![t] = None] /\ during' = [during EXCEPT ![t] = {}]
    BY <1>15 DEF Forget, Return, Goto, Working
  <2>2. /\ OpenInv'
        /\ dir' \in [DirHandles -> Dirs \cup {None}]
        /\ path' \in [DirHandles -> Paths \cup {None}]
        /\ dirhcache' \in [Paths -> DirHandles \cup {None, Expired}]
        /\ torefresh' \in [Threads -> SUBSET DirHandles]
        /\ dirh' \in [Threads -> DirHandles \cup {None}]
    BY <2>1, ReleaseInv
  <2>3. CacheTypeOK'
    BY <1>15, <2>1, <2>2 DEF Forget, CacheInv, CacheTypeOK, Label
  <2> QED
    BY <2>2, <2>3 DEF CacheInv
<1>16. ASSUME NEW t \in Threads, NEW p \in Paths, GetHandleToDir(t, p) PROVE Q
  <2>1. /\ at' = [at EXCEPT ![t] = "refresh"] /\ request' = [request EXCEPT ![t] = p]
        /\ torefresh' = [torefresh EXCEPT ![t] = ToRefresh]
        /\ dirhcache' = [q \in Paths |-> IF dirhcache[q] = Expired THEN None ELSE dirhcache[q]]
        /\ during' = [during EXCEPT ![t] = {d \in Dirs : where[d] = p}]
        /\ UNCHANGED <<where, renames, handles, dircachelock, dirh, newpath, oldpath>>
    BY <1>16 DEF GetHandleToDir, Goto
  <2>2. ToRefresh \subseteq DirHandles /\ \A h \in ToRefresh : Opened(h)
    BY DEF CacheInv, CacheTypeOK, OpenInv, ToRefresh
  <2>3. CacheTypeOK'
    BY <2>1, <2>2 DEF CacheInv, CacheTypeOK, Label
  <2>4. OpenInv'
    BY <2>1, <2>2 DEF CacheInv, CacheTypeOK, OpenInv, Opened, Working, Asking
  <2> QED
    BY <2>3, <2>4 DEF CacheInv
<1>17. ASSUME UNCHANGED cachevars PROVE Q
  BY <1>17 DEF cachevars, CacheInv, CacheTypeOK, OpenInv, Opened
<1> HIDE DEF Q
<1>18. Q
  BY <1>1, <1>2, <1>3, <1>4, <1>5, <1>6, <1>7, <1>8, <1>9, <1>10, <1>11, <1>12, <1>13, <1>14, <1>15,
     <1>16, <1>17 DEF CacheNext, CacheStep
<1> QED
  BY <1>18 DEF Q

-----------------------------------------------------------------------------
(***************************************************************************)
(* DirCache, for the handles that were not renamed while they were opened, *)
(* and whose path no two threads have set at once.                         *)
(***************************************************************************)
Apart == \A d, e \in Dirs : where[d] = where[e] /\ where[d] # None => d = e

Clean(h) == h \notin raced \cup aliased
Sets(t, h) == at[t] \in {"read", "changed"} /\ dirh[t] = h
Refreshing == {"refresh", "read", "changed", "updated"}

\* Nobody else has come by the handle of a directory that is being opened.
OpenedInv ==
  \A t \in Threads : at[t] = "opened" =>
    /\ dirh[t] \notin kept
    /\ \A p \in Paths : dirhcache[p] # dirh[t]
    /\ \A u \in Threads : dirh[t] \notin torefresh[u]
    /\ \A u \in Threads \ {t} : at[u] \in Working => dirh[u] # dirh[t]

\* One thread sets a handle's path at a time, and an entry of the cache is under
\* the path that its handle has, or had until that thread changed it.
FiledInv ==
  \A h \in DirHandles : Clean(h) =>
    /\ \A t, u \in Threads : Sets(t, h) /\ Sets(u, h) => t = u
    /\ \A t \in Threads : at[t] = "changed" /\ dirh[t] = h => path[h] = newpath[t]
    /\ \A p \in Paths : dirhcache[p] = h =>
         path[h] = p \/ \E t \in Threads : at[t] = "changed" /\ dirh[t] = h /\ oldpath[t] = p

\* Thread t saw the handle's directory at the path it asks for, or is yet to refresh
\* it, or is at it.
Seen(t, h) == dir[h] \in during[t]
Due(t, h) ==
  \/ h \in torefresh[t]
  \/ at[t] = "read" /\ dirh[t] = h
  \/ at[t] = "changed" /\ dirh[t] = h /\ oldpath[t] = request[t]

CallOf(t) ==
  /\ at[t] = "idle" => request[t] = None
  /\ request[t] # None =>
       /\ \A d \in Dirs : where[d] = request[t] => d \in during[t]
       /\ at[t] \in {"read", "changed"} /\ newpath[t] = request[t] => Seen(t, dirh[t])
       /\ at[t] \in Refreshing =>
            \A h \in DirHandles : Clean(h) /\ dirhcache[request[t]] = h => Due(t, h) \/ Seen(t, h)
  /\ at[t] = "opened" => Seen(t, dirh[t])
  /\ at[t] = "returned" => Seen(t, dirh[t]) \/ ~Clean(dirh[t])

CallInv == \A t \in Threads : CallOf(t)

FindInv == OpenedInv /\ FiledInv /\ CallInv

-----------------------------------------------------------------------------
Acts(t) ==
  \/ CacheStep(t) \/ Path(t) \/ Keep(t) \/ Forget(t)
  \/ \E p \in Paths : GetHandleToDir(t, p)

Stays(u) ==
  /\ at'[u] = at[u] /\ request'[u] = request[u] /\ dirh'[u] = dirh[u]
  /\ newpath'[u] = newpath[u] /\ oldpath'[u] = oldpath[u] /\ during'[u] = during[u]

LEMMA OthersSame ==
  ASSUME CacheInv, NEW t \in Threads, Acts(t)
  PROVE  where' = where /\ \A u \in Threads \ {t} : Stays(u)
<1> USE DEF locals, CacheInv, CacheTypeOK, Stays, Goto, Return, Refreshed, Release, Readlink
<1>1. CASE Unchanged(t) \/ Changed(t) \/ UpdatePath(t) \/ Updated(t)
  BY <1>1 DEF Unchanged, Changed, UpdatePath, Updated
<1>2. CASE RefreshNext(t) \/ Found(t) \/ NotFound(t) \/ OpenDir(t) \/ Throw(t) \/ AddItself(t)
  BY <1>2 DEF RefreshNext, Found, NotFound, OpenDir, Throw, AddItself
<1>3. CASE Path(t) \/ Keep(t) \/ Forget(t)
  BY <1>3 DEF Path, Keep, Forget
<1>4. ASSUME NEW p \in Paths, GetHandleToDir(t, p)
      PROVE  where' = where /\ \A u \in Threads \ {t} : Stays(u)
  BY <1>4 DEF GetHandleToDir
<1> QED
  BY <1>1, <1>2, <1>3, <1>4 DEF Acts, CacheStep

\* A call goes on as it was while others leave its handles and entries alone, or
\* put directories into the cache that are at the path it asks for.
LEMMA CallStays ==
  ASSUME CacheInv, NEW u \in Threads, CallOf(u), Stays(u), where' = where,
         at[u] \in Working => dir'[dirh[u]] = dir[dirh[u]],
         at[u] = "returned" /\ Clean(dirh[u])' => Clean(dirh[u]),
         \A h \in DirHandles : Clean(h)' /\ request[u] # None /\ dirhcache'[request[u]] = h =>
           \/ dir'[h] \in during[u]
           \/ /\ Clean(h) /\ dirhcache[request[u]] = h /\ dir'[h] = dir[h]
              /\ h \in torefresh[u] => h \in torefresh'[u]
  PROVE  CallOf(u)'
<1>1. at'[u] = "idle" => request'[u] = None
  BY DEF CallOf, Stays
<1>2. (at[u] = "opened" => Seen(u, dirh[u]))' /\ (at[u] = "returned" => Seen(u, dirh[u]) \/ ~Clean(dirh[u]))'
  BY DEF CallOf, Stays, Seen, Working
<1>3. ASSUME request[u] # None
      PROVE  /\ \A d \in Dirs : where[d] = request[u] => d \in during'[u]
             /\ at[u] \in {"read", "changed"} /\ newpath[u] = request[u] => Seen(u, dirh[u])'
  BY <1>3 DEF CallOf, Stays, Seen, Working
<1>4. ASSUME request[u] # None, at[u] \in Refreshing,
             NEW h \in DirHandles, Clean(h)', dirhcache'[request[u]] = h
      PROVE  Due(u, h)' \/ Seen(u, h)'
  <2>1. CASE dir'[h] \in during[u]
    BY <2>1 DEF Seen, Stays
  <2>2. CASE /\ Clean(h) /\ dirhcache[request[u]] = h /\ dir'[h] = dir[h]
             /\ h \in torefresh[u] => h \in torefresh'[u]
    <3>1. Due(u, h) \/ Seen(u, h)
      BY <1>4, <2>2 DEF CallOf
    <3>2. Seen(u, h) => Seen(u, h)'
      BY <2>2 DEF Seen, Stays
    <3>3. Due(u, h) => Due(u, h)'
      BY <2>2 DEF Due, Stays
    <3> QED
      BY <3>1, <3>2, <3>3
  <2> QED
    BY <1>4, <2>1, <2>2
<1> QED
  BY <1>1, <1>2, <1>3, <1>4 DEF CallOf, Stays

-----------------------------------------------------------------------------
\* What expires leaves the other handles and entries alone.
LEMMA ExpireLeaves ==
  ASSUME CacheInv, NEW gone \in SUBSET DirHandles, Expire(gone)
  PROVE  /\ \A h \in DirHandles \ gone : dir'[h] = dir[h] /\ path'[h] = path[h]
         /\ \A h \in DirHandles \ gone : Clean(h)' <=> Clean(h)
         /\ \A p \in Paths : dirhcache'[p] \in DirHandles =>
              dirhcache'[p] = dirhcache[p] /\ dirhcache[p] \notin gone
         /\ \A t \in Threads : torefresh'[t] = torefresh[t] \ gone
BY Names_ DEF CacheInv, CacheTypeOK, Expire, Clean

\* Handles go that no other thread has, and the thread that had them lets go.
LEMMA FindExpires ==
  ASSUME CacheInv, FindInv, NEW gone \in SUBSET DirHandles, Expire(gone),
         kept' \subseteq kept, where' = where,
         \A t \in Threads :
           \/ Stays(t) /\ dirh[t] \notin gone
           \/ /\ at[t] \in {"read", "updated", "returned"} /\ at'[t] \in {"idle", "refresh"}
              /\ CallOf(t)'
  PROVE  FindInv'
<1> USE Names_
<1>1. /\ \A h \in DirHandles \ gone : dir'[h] = dir[h] /\ path'[h] = path[h]
      /\ \A h \in DirHandles \ gone : Clean(h)' <=> Clean(h)
      /\ \A p \in Paths : dirhcache'[p] \in DirHandles =>
           dirhcache'[p] = dirhcache[p] /\ dirhcache[p] \notin gone
      /\ \A t \in Threads : torefresh'[t] = torefresh[t] \ gone
  BY ExpireLeaves
<1>2. \A t \in Threads : at'[t] \in Working => Stays(t) /\ dirh[t] \in DirHandles \ gone
  BY DEF Stays, CacheInv, OpenInv, Working
<1>3. OpenedInv'
  <2> SUFFICES ASSUME NEW t \in Threads, at'[t] = "opened"
               PROVE  /\ dirh'[t] \notin kept'
                      /\ \A p \in Paths : dirhcache'[p] # dirh'[t]
                      /\ \A u \in Threads : dirh'[t] \notin torefresh'[u]
                      /\ \A u \in Threads \ {t} : at'[u] \in Working => dirh'[u] # dirh'[t]
    BY DEF OpenedInv
  <2>1. at[t] = "opened" /\ dirh'[t] = dirh[t] /\ dirh[t] \in DirHandles
    BY <1>2 DEF Stays, Working
  <2>2. /\ dirh[t] \notin kept /\ \A p \in Paths : dirhcache[p] # dirh[t]
        /\ \A u \in Threads : dirh[t] \notin torefresh[u]
        /\ \A u \in Threads \ {t} : at[u] \in Working => dirh[u] # dirh[t]
    BY <2>1 DEF FindInv, OpenedInv
  <2> QED
    BY <1>1, <1>2, <2>1, <2>2 DEF Stays
<1>4. FiledInv'
  <2> SUFFICES ASSUME NEW h \in DirHandles, Clean(h)'
               PROVE  /\ \A t, u \in Threads : Sets(t, h)' /\ Sets(u, h)' => t = u
                      /\ \A t \in Threads : at'[t] = "changed" /\ dirh'[t] = h => path'[h] = newpath'[t]
                      /\ \A p \in Paths : dirhcache'[p] = h =>
                           \/ path'[h] = p
                           \/ \E t \in Threads : at'[t] = "changed" /\ dirh'[t] = h /\ oldpath'[t] = p
    BY DEF FiledInv
  <2>1. CASE h \in gone
    BY <1>1, <1>2, <2>1 DEF Sets, Stays, Working
  <2>2. CASE h \notin gone
    <3>1. Clean(h) /\ path'[h] = path[h]
      BY <1>1, <2>2
    <3>2. \A t \in Threads : Sets(t, h)' => Sets(t, h) /\ Stays(t)
      BY <1>2 DEF Sets, Stays, Working
    <3>3. \A t, u \in Threads : Sets(t, h)' /\ Sets(u, h)' => t = u
      BY <3>1, <3>2 DEF FindInv, FiledInv
    <3>4. \A t \in Threads : at'[t] = "changed" /\ dirh'[t] = h => path'[h] = newpath'[t]
      BY <1>2, <3>1 DEF FindInv, FiledInv, Stays, Working
    <3>5. ASSUME NEW p \in Paths, dirhcache'[p] = h
          PROVE  \/ path'[h] = p
                 \/ \E t \in Threads : at'[t] = "changed" /\ dirh'[t] = h /\ oldpath'[t] = p
      <4>1. dirhcache[p] = h
        BY <1>1, <3>5
      <4>2. path[h] = p \/ \E t \in Threads : at[t] = "changed" /\ dirh[t] = h /\ oldpath[t] = p
        BY <3>1, <4>1 DEF FindInv, FiledInv
      <4>3. ASSUME NEW t \in Threads, at[t] = "changed" PROVE Stays(t)
        BY <4>3
      <4> QED
        BY <3>1, <4>2, <4>3 DEF Stays
    <3> QED
      BY <3>3, <3>4, <3>5
  <2> QED
    BY <2>1, <2>2
<1>5. ASSUME NEW u \in Threads, Stays(u), dirh[u] \notin gone PROVE CallOf(u)'
  <2>1. CallOf(u) /\ Stays(u)
    BY <1>5 DEF FindInv, CallInv
  <2>2. at[u] \in Working => dirh[u] \in DirHandles \ gone
    BY <1>2, <1>5 DEF Stays
  <2>3. at[u] \in Working => dir'[dirh[u]] = dir[dirh[u]] /\ (Clean(dirh[u])' <=> Clean(dirh[u]))
    BY <1>1, <2>1, <2>2 DEF Stays, Clean
  <2>4. request[u] # None => request[u] \in Paths
    BY DEF CacheInv, CacheTypeOK
  <2>5. \A h \in DirHandles : Clean(h)' /\ request[u] # None /\ dirhcache'[request[u]] = h =>
          /\ Clean(h) /\ dirhcache[request[u]] = h /\ dir'[h] = dir[h]
          /\ h \in torefresh[u] => h \in torefresh'[u]
    BY <1>1, <2>4
  <2> QED
    BY <2>1, <2>3, <2>5, CallStays DEF Working
<1> QED
  BY <1>3, <1>4, <1>5 DEF FindInv, CallInv

LEMMA FindDrop ==
  ASSUME CacheInv, FindInv, NEW h \in DirHandles, Drop(h)
  PROVE  FindInv'
<1> DEFINE gone == {h} \ {dirh[t] : t \in Threads}
<1>1. /\ gone \in SUBSET DirHandles /\ Expire(gone) /\ \A t \in Threads : dirh[t] \notin gone
      /\ kept' \subseteq kept /\ where' = where
      /\ \A t \in Threads : Stays(t)
  BY DEF Drop, Stays
<1> HIDE DEF gone
<1> QED
  BY <1>1, FindExpires

\* What it has refreshed without a change is at the path asked for, or is not.
LEMMA FindReleased ==
  ASSUME CacheInv, FindInv, NEW t \in Threads, Unchanged(t) \/ Updated(t) \/ Forget(t)
  PROVE  FindInv'
<1> USE Names_
<1> DEFINE gone == {h \in {dirh[t]} : h \notin kept /\ \A u \in Threads \ {t} : dirh[u] # h}
<1>1. /\ Release(t) /\ kept' = kept /\ at[t] \in {"read", "updated", "returned"}
      /\ at[t] = "read" => path[dirh[t]] = newpath[t]
      /\ where' = where /\ \A u \in Threads \ {t} : Stays(u)
  BY OthersSame DEF Unchanged, Updated, Forget, Acts, CacheStep
<1>2. /\ gone \in SUBSET DirHandles /\ Expire(gone)
      /\ \A u \in Threads \ {t} : dirh[u] \notin gone
  BY <1>1 DEF Release, CacheInv, OpenInv, Working
<1> HIDE DEF gone
<1>3. CASE Forget(t)
  <2>1. at'[t] = "idle" /\ request'[t] = None
    BY <1>3 DEF Forget, Return, Goto, CacheInv, CacheTypeOK
  <2>2. CallOf(t)'
    BY <2>1 DEF CallOf
  <2> QED
    BY <1>1, <1>2, <2>1, <2>2, FindExpires
<1>4. CASE Unchanged(t) \/ Updated(t)
  <2>1. /\ at'[t] = IF request[t] = None THEN "idle" ELSE "refresh"
        /\ request' = request /\ during' = during /\ at[t] \in {"read", "updated"}
    BY <1>4 DEF Unchanged, Updated, Refreshed, Goto, CacheInv, CacheTypeOK
  <2>2. ASSUME request[t] # None, NEW h \in DirHandles, Clean(h)', dirhcache'[request[t]] = h
        PROVE  Due(t, h)' \/ Seen(t, h)'
    <3>1. request[t] \in Paths
      BY <2>2 DEF CacheInv, CacheTypeOK
    <3>2. h \notin gone /\ dirhcache[request[t]] = h
      BY <1>2, <2>2, <3>1, ExpireLeaves
    <3>3. Clean(h) /\ dir'[h] = dir[h] /\ torefresh'[t] = torefresh[t] \ gone
      BY <1>2, <2>2, <3>2, ExpireLeaves
    <3>4. Due(t, h) \/ Seen(t, h)
      BY <2>1, <2>2, <3>2, <3>3 DEF FindInv, CallInv, CallOf, Refreshing
    <3>5. CASE Seen(t, h)
      BY <2>1, <3>3, <3>5 DEF Seen
    <3>6. CASE h \in torefresh[t]
      BY <3>2, <3>3, <3>6 DEF Due
    <3>7. CASE at[t] = "read" /\ dirh[t] = h
      <4>1. \A u \in Threads : at[u] = "changed" /\ dirh[u] = h => FALSE
        BY <3>3, <3>7 DEF FindInv, FiledInv, Sets
      <4>2. path[h] = request[t]
        BY <3>1, <3>2, <3>3, <4>1 DEF FindInv, FiledInv
      <4>3. Seen(t, h)
        BY <1>1, <2>2, <3>7, <4>2 DEF FindInv, CallInv, CallOf
      <4> QED
        BY <3>5, <4>3
    <3> QED
      BY <2>1, <3>4, <3>5, <3>6, <3>7 DEF Due
  <2>3. \A d \in Dirs : request[t] # None /\ where[d] = request[t] => d \in during[t]
    BY DEF FindInv, CallInv, CallOf
  <2>4. CallOf(t)'
    BY <1>1, <2>1, <2>2, <2>3 DEF CallOf
  <2>5. at'[t] \in {"idle", "refresh"}
    BY <2>1
  <2> QED
    BY <1>1, <1>2, <2>4, <2>5, FindExpires
<1> QED
  BY <1>3, <1>4

LEMMA FindRename ==
  ASSUME CacheInv, FindInv, NEW d \in Dirs, NEW p \in Paths \cup {None}, Rename(d, p)
  PROVE  FindInv'
<1> USE Names_ DEF handles, locals
<1>1. /\ UNCHANGED <<handles, dirhcache, at, locals, raced, aliased>>
      /\ \A e \in Dirs : where'[e] = IF e = d THEN p ELSE where[e]
      /\ \A t \in Threads :
           during'[t] = IF p # None /\ p = request[t] THEN during[t] \cup {d} ELSE during[t]
  BY DEF Rename, CacheInv, CacheTypeOK
<1>2. OpenedInv' /\ FiledInv'
  BY <1>1 DEF FindInv, OpenedInv, FiledInv, Clean, Sets
<1>3. ASSUME NEW t \in Threads PROVE CallOf(t)'
  <2>1. during[t] \subseteq during'[t]
    BY <1>1
  <2>2. request[t] # None => \A e \in Dirs : where'[e] = request[t] => e \in during'[t]
    BY <1>1 DEF FindInv, CallInv, CallOf
  <2>3. CallOf(t)
    BY DEF FindInv, CallInv
  <2> QED
    BY <1>1, <2>1, <2>2, <2>3 DEF CallOf, Seen, Due, Clean
<1> QED
  BY <1>2, <1>3 DEF FindInv, CallInv

\* readlink() says where the directory is, at a time during the call.
LEMMA FindReadlink ==
  ASSUME CacheInv, FindInv, NEW t \in Threads, Path(t) \/ RefreshNext(t)
  PROVE  FindInv'
<1> USE Names_ DEF handles
<1>1. PICK h \in DirHandles :
        /\ Opened(h) /\ h \in kept \cup torefresh[t]
        /\ dirh' = [dirh EXCEPT ![t] = h] /\ newpath' = [newpath EXCEPT ![t] = where[dir[h]]]
        /\ raced' = IF Overlaps(t, h) THEN raced \cup {h} ELSE raced
        /\ at' = [at EXCEPT ![t] = "read"]
        /\ torefresh' = IF at[t] = "idle" THEN torefresh ELSE [torefresh EXCEPT ![t] = @ \ {h}]
  <2>1. CASE Path(t)
    BY <2>1 DEF Path, Readlink, Goto, CacheInv, CacheTypeOK, OpenInv
  <2>2. CASE RefreshNext(t)
    BY <2>2 DEF RefreshNext, Readlink, Goto, CacheInv, CacheTypeOK, OpenInv
  <2> QED
    BY <2>1, <2>2
<1>2. /\ at[t] \in {"idle", "refresh"} /\ aliased' = aliased
      /\ UNCHANGED <<where, dir, path, kept, dirhcache, request, oldpath, during>>
  BY DEF Path, RefreshNext
<1>3. /\ dirh'[t] = h /\ newpath'[t] = where[dir[h]] /\ at'[t] = "read"
      /\ torefresh'[t] = IF at[t] = "idle" THEN torefresh[t] ELSE torefresh[t] \ {h}
      /\ \A u \in Threads \ {t} : Stays(u) /\ torefresh'[u] = torefresh[u]
  BY <1>1, <1>2 DEF CacheInv, CacheTypeOK, Stays
<1>4. \A k \in DirHandles : Clean(k)' => Clean(k)
  BY <1>1, <1>2 DEF Clean
<1>5. OpenedInv'
  <2> SUFFICES ASSUME NEW u \in Threads, at'[u] = "opened"
               PROVE  /\ dirh'[u] \notin kept'
                      /\ \A p \in Paths : dirhcache'[p] # dirh'[u]
                      /\ \A v \in Threads : dirh'[u] \notin torefresh'[v]
                      /\ \A v \in Threads \ {u} : at'[v] \in Working => dirh'[v] # dirh'[u]
    BY DEF OpenedInv
  <2>1. u # t /\ at[u] = "opened" /\ dirh'[u] = dirh[u]
    BY <1>3 DEF Stays
  <2>2. /\ dirh[u] \notin kept /\ \A p \in Paths : dirhcache[p] # dirh[u]
        /\ \A v \in Threads : dirh[u] \notin torefresh[v]
        /\ \A v \in Threads \ {u} : at[v] \in Working => dirh[v] # dirh[u]
    BY <2>1 DEF FindInv, OpenedInv
  <2>3. dirh[u] # h
    BY <1>1, <2>2
  <2>4. \A v \in Threads : torefresh'[v] \subseteq torefresh[v]
    BY <1>3
  <2> QED
    BY <1>2, <1>3, <2>1, <2>2, <2>3, <2>4 DEF Stays
<1>6. FiledInv'
  <2> SUFFICES ASSUME NEW k \in DirHandles, Clean(k)'
               PROVE  /\ \A u, v \in Threads : Sets(u, k)' /\ Sets(v, k)' => u = v
                      /\ \A u \in Threads : at'[u] = "changed" /\ dirh'[u] = k => path'[k] = newpath'[u]
                      /\ \A p \in Paths : dirhcache'[p] = k =>
                           \/ path'[k] = p
                           \/ \E u \in Threads : at'[u] = "changed" /\ dirh'[u] = k /\ oldpath'[u] = p
    BY DEF FiledInv
  <2>1. /\ \A u, v \in Threads : Sets(u, k) /\ Sets(v, k) => u = v
        /\ \A u \in Threads : at[u] = "changed" /\ dirh[u] = k => path[k] = newpath[u]
        /\ \A p \in Paths : dirhcache[p] = k =>
             path[k] = p \/ \E u \in Threads : at[u] = "changed" /\ dirh[u] = k /\ oldpath[u] = p
    BY <1>4 DEF FindInv, FiledInv
  <2>2. \A u \in Threads \ {t} : Sets(u, k)' => Sets(u, k) /\ k # h
    BY <1>1, <1>3 DEF Sets, Stays, Clean, Overlaps
  <2>3. Sets(t, k)' => k = h
    BY <1>3 DEF Sets
  <2>4. \A u, v \in Threads : Sets(u, k)' /\ Sets(v, k)' => u = v
    BY <2>1, <2>2, <2>3
  <2>5. \A u \in Threads : at'[u] = "changed" => u # t /\ Stays(u)
    BY <1>3
  <2>6. \A u \in Threads : at[u] = "changed" => Stays(u)
    BY <1>2, <1>3
  <2> QED
    BY <1>2, <2>1, <2>4, <2>5, <2>6 DEF Stays
<1>7. ASSUME NEW u \in Threads PROVE CallOf(u)'
  <2>1. CallOf(u)
    BY DEF FindInv, CallInv
  <2>2. CASE u # t
    <3>1. Stays(u) /\ torefresh'[u] = torefresh[u] /\ where' = where /\ dir' = dir /\ dirhcache' = dirhcache
      BY <1>2, <1>3, <2>2
    <3>2. at[u] = "returned" /\ Clean(dirh[u])' => Clean(dirh[u])
      BY <1>2, <1>1, <3>1 DEF Clean, Stays
    <3> QED
      BY <1>4, <2>1, <3>1, <3>2, CallStays
  <2>3. CASE u = t
    <3>1. CASE at[t] = "idle"
      BY <1>2, <1>3, <2>1, <2>3, <3>1 DEF CallOf
    <3>2. CASE at[t] = "refresh"
      <4>1. request[t] # None => (where[dir[h]] = request[t] => dir[h] \in during[t])
        BY <1>1, <2>1, <2>3 DEF CallOf, Opened
      <4>2. request[t] # None /\ newpath'[t] = request[t] => Seen(t, dirh[t])'
        BY <1>2, <1>3, <4>1 DEF Seen
      <4>3. ASSUME request[t] # None, NEW k \in DirHandles, Clean(k)', dirhcache[request[t]] = k
            PROVE  Due(t, k)' \/ Seen(t, k)'
        <5>1. k \in torefresh[t] \/ Seen(t, k)
          BY <1>4, <2>1, <2>3, <3>2, <4>3 DEF CallOf, Refreshing, Due
        <5> QED
          BY <1>2, <1>3, <3>2, <5>1 DEF Due, Seen
      <4> QED
        BY <1>2, <1>3, <2>1, <2>3, <4>2, <4>3 DEF CallOf
    <3> QED
      BY <1>2, <3>1, <3>2
  <2> QED
    BY <2>2, <2>3
<1> QED
  BY <1>5, <1>6, <1>7 DEF FindInv, CallInv

\* Until a changed path is in the cache, its handle's entry is where the old one was.
LEMMA FindChanged ==
  ASSUME CacheInv, FindInv, NEW t \in Threads, Changed(t)
  PROVE  FindInv'
<1> USE Names_
<1> DEFINE h == dirh[t]
<1>1. /\ h \in DirHandles /\ at[t] = "read" /\ at'[t] = "changed"
      /\ dirh'[t] = h /\ newpath'[t] = newpath[t] /\ oldpath'[t] = path[h] /\ request'[t] = request[t]
      /\ \A k \in DirHandles : path'[k] = IF k = h THEN newpath[t] ELSE path[k]
      /\ UNCHANGED <<where, dir, kept, dirhcache, torefresh, during, raced, aliased>>
  BY DEF Changed, Goto, CacheInv, CacheTypeOK, OpenInv, Working
<1>2. \A u \in Threads \ {t} : Stays(u)
  BY OthersSame DEF Acts, CacheStep
<1> HIDE DEF h
<1>3. OpenedInv'
  <2>1. \A u \in Threads : at'[u] \in Working => at[u] \in Working /\ dirh'[u] = dirh[u]
    BY <1>1, <1>2 DEF Stays, Working, h
  <2>2. \A u \in Threads : at'[u] = "opened" => at[u] = "opened"
    BY <1>1, <1>2 DEF Stays
  <2> QED
    BY <1>1, <2>1, <2>2 DEF FindInv, OpenedInv, Working
<1>4. FiledInv'
  <2> SUFFICES ASSUME NEW k \in DirHandles, Clean(k)'
               PROVE  /\ \A u, v \in Threads : Sets(u, k)' /\ Sets(v, k)' => u = v
                      /\ \A u \in Threads : at'[u] = "changed" /\ dirh'[u] = k => path'[k] = newpath'[u]
                      /\ \A p \in Paths : dirhcache'[p] = k =>
                           \/ path'[k] = p
                           \/ \E u \in Threads : at'[u] = "changed" /\ dirh'[u] = k /\ oldpath'[u] = p
    BY DEF FiledInv
  <2>1. Clean(k)
    BY <1>1 DEF Clean
  <2>2. /\ \A u, v \in Threads : Sets(u, k) /\ Sets(v, k) => u = v
        /\ \A u \in Threads : at[u] = "changed" /\ dirh[u] = k => path[k] = newpath[u]
        /\ \A p \in Paths : dirhcache[p] = k =>
             path[k] = p \/ \E u \in Threads : at[u] = "changed" /\ dirh[u] = k /\ oldpath[u] = p
    BY <2>1 DEF FindInv, FiledInv
  <2>3. \A u \in Threads : Sets(u, k)' <=> Sets(u, k)
    BY <1>1, <1>2 DEF Sets, Stays, h
  <2>4. ASSUME NEW u \in Threads, at'[u] = "changed", dirh'[u] = k PROVE path'[k] = newpath'[u]
    <3>1. CASE u = t
      BY <1>1, <2>4, <3>1
    <3>2. CASE u # t
      <4>1. Stays(u)
        BY <1>2, <3>2
      <4>2. Sets(u, k)
        BY <2>4, <4>1 DEF Sets, Stays
      <4>3. k # h
        BY <1>1, <2>2, <3>2, <4>2 DEF Sets, h
      <4> QED
        BY <1>1, <2>2, <2>4, <4>1, <4>3 DEF Stays
    <3> QED
      BY <3>1, <3>2
  <2>5. ASSUME NEW p \in Paths, dirhcache'[p] = k
        PROVE  \/ path'[k] = p
               \/ \E u \in Threads : at'[u] = "changed" /\ dirh'[u] = k /\ oldpath'[u] = p
    <3>1. path[k] = p \/ \E u \in Threads : at[u] = "changed" /\ dirh[u] = k /\ oldpath[u] = p
      BY <1>1, <2>2, <2>5
    <3>2. CASE \E u \in Threads : at[u] = "changed" /\ dirh[u] = k /\ oldpath[u] = p
      <4>1. PICK u \in Threads : at[u] = "changed" /\ dirh[u] = k /\ oldpath[u] = p
        BY <3>2
      <4>2. Stays(u)
        BY <1>1, <1>2, <4>1
      <4> QED
        BY <4>1, <4>2 DEF Stays
    <3>3. CASE path[k] = p
      BY <1>1, <3>3
    <3> QED
      BY <3>1, <3>2, <3>3
  <2>6. \A u, v \in Threads : Sets(u, k)' /\ Sets(v, k)' => u = v
    BY <2>2, <2>3
  <2> QED
    BY <2>4, <2>5, <2>6
<1>5. ASSUME NEW u \in Threads PROVE CallOf(u)'
  <2>1. CallOf(u)
    BY DEF FindInv, CallInv
  <2>2. CASE u # t
    BY <1>1, <1>2, <2>1, <2>2, CallStays DEF Clean, Stays
  <2>3. CASE u = t
    <3>1. ASSUME request[t] # None, NEW k \in DirHandles, Clean(k), dirhcache[request[t]] = k
          PROVE  Due(t, k)' \/ Seen(t, k)'
      <4>1. request[t] \in Paths
        BY <3>1 DEF CacheInv, CacheTypeOK
      <4>2. Due(t, k) \/ Seen(t, k)
        BY <1>1, <2>1, <2>3, <3>1 DEF CallOf, Refreshing
      <4>3. CASE k = h
        <5>1. \A v \in Threads : at[v] = "changed" /\ dirh[v] = k => FALSE
          BY <1>1, <3>1, <4>3 DEF FindInv, FiledInv, Sets, h
        <5>2. path[k] = request[t]
          BY <3>1, <4>1, <5>1 DEF FindInv, FiledInv
        <5> QED
          BY <1>1, <4>3, <5>2 DEF Due
      <4>4. CASE k # h
        BY <1>1, <4>2, <4>4 DEF Due, Seen, h
      <4> QED
        BY <4>3, <4>4
    <3>2. \A k : Clean(k)' <=> Clean(k)
      BY <1>1 DEF Clean
    <3>3. Seen(t, dirh[t]) => Seen(t, dirh[t])'
      BY <1>1 DEF Seen, h
    <3> QED
      BY <1>1, <2>1, <2>3, <3>1, <3>2, <3>3 DEF CallOf
  <2> QED
    BY <2>2, <2>3
<1> QED
  BY <1>3, <1>4, <1>5 DEF FindInv, CallInv

\* An insertion files the handle under the path, if anything; a move takes its old entry away.
LEMMA MovedEntries ==
  ASSUME NEW cache \in [Paths -> DirHandles \cup {None, Expired}], NEW h \in DirHandles,
         NEW old \in Paths \cup {None}, NEW new \in Paths \cup {None}
  PROVE  /\ \A p \in Paths : Inserted(cache, new, h)[p] # cache[p] => p = new /\ Inserted(cache, new, h)[p] = h
         /\ \A p \in Paths : Moved(cache, old, new, h)[p] \in DirHandles =>
              \/ p = new /\ Moved(cache, old, new, h)[p] = h
              \/ p # old /\ Moved(cache, old, new, h)[p] = cache[p]
<1>1. \A c \in [Paths -> DirHandles \cup {None, Expired}], p \in Paths :
        Inserted(c, new, h)[p] # c[p] => p = new /\ Inserted(c, new, h)[p] = h
  BY DEF Inserted
<1> DEFINE c == IF old = None THEN cache ELSE [cache EXCEPT ![old] = None]
<1>2. c \in [Paths -> DirHandles \cup {None, Expired}]
  OBVIOUS
<1>3. \A p \in Paths : c[p] \in DirHandles => p # old /\ c[p] = cache[p]
  BY Names_
<1>4. Moved(cache, old, new, h) = Inserted(c, new, h)
  BY DEF Moved
<1> HIDE DEF c
<1> QED
  BY <1>1, <1>2, <1>3, <1>4

\* What is put into the cache is where the directory was when its path was read, and
\* still is if another thread asks for it.
LEMMA FindUpdated ==
  ASSUME CacheInv, FindInv, NEW t \in Threads, UpdatePath(t)
  PROVE  FindInv'
<1> USE Names_ DEF handles
<1> DEFINE h == dirh[t]
<1>1. /\ h \in DirHandles /\ Opened(h) /\ at[t] = "changed" /\ at'[t] = "updated"
      /\ dirh'[t] = h /\ request'[t] = request[t]
      /\ UNCHANGED <<where, dir, path, kept, torefresh, during, aliased>>
      /\ raced' = IF OutOfDate(t) THEN raced \cup {h} ELSE raced
  BY DEF UpdatePath, Goto, CacheInv, CacheTypeOK, OpenInv, Working
<1>2. \A u \in Threads \ {t} : Stays(u)
  BY OthersSame DEF Acts, CacheStep
<1>3. \A p \in Paths : dirhcache'[p] \in DirHandles =>
        \/ p = newpath[t] /\ dirhcache'[p] = h
        \/ p # oldpath[t] /\ dirhcache'[p] = dirhcache[p]
  <2>1. dirhcache' = Moved(dirhcache, oldpath[t], newpath[t], h)
    BY DEF UpdatePath
  <2>2. /\ dirhcache \in [Paths -> DirHandles \cup {None, Expired}]
        /\ oldpath[t] \in Paths \cup {None} /\ newpath[t] \in Paths \cup {None}
    BY DEF CacheInv, CacheTypeOK
  <2> QED
    BY <1>1, <2>1, <2>2, MovedEntries
<1> HIDE DEF h
<1>4. \A k \in DirHandles : Clean(k)' => Clean(k)
  BY <1>1 DEF Clean
<1>5. OpenedInv'
  <2> SUFFICES ASSUME NEW u \in Threads, at'[u] = "opened"
               PROVE  /\ dirh'[u] \notin kept'
                      /\ \A p \in Paths : dirhcache'[p] # dirh'[u]
                      /\ \A v \in Threads : dirh'[u] \notin torefresh'[v]
                      /\ \A v \in Threads \ {u} : at'[v] \in Working => dirh'[v] # dirh'[u]
    BY DEF OpenedInv
  <2>1. u # t /\ at[u] = "opened" /\ dirh'[u] = dirh[u] /\ dirh[u] \in DirHandles
    BY <1>1, <1>2 DEF Stays, CacheInv, OpenInv, Working
  <2>2. /\ dirh[u] \notin kept /\ \A p \in Paths : dirhcache[p] # dirh[u]
        /\ \A v \in Threads : dirh[u] \notin torefresh[v]
        /\ \A v \in Threads \ {u} : at[v] \in Working => dirh[v] # dirh[u]
    BY <2>1 DEF FindInv, OpenedInv
  <2>3. dirh[u] # h
    BY <1>1, <2>1, <2>2 DEF Working, h
  <2>4. \A v \in Threads : at'[v] \in Working => at[v] \in Working /\ dirh'[v] = dirh[v]
    BY <1>1, <1>2 DEF Stays, Working, h
  <2> QED
    BY <1>1, <1>3, <2>1, <2>2, <2>3, <2>4
<1>6. FiledInv'
  <2> SUFFICES ASSUME NEW k \in DirHandles, Clean(k)'
               PROVE  /\ \A u, v \in Threads : Sets(u, k)' /\ Sets(v, k)' => u = v
                      /\ \A u \in Threads : at'[u] = "changed" /\ dirh'[u] = k => path'[k] = newpath'[u]
                      /\ \A p \in Paths : dirhcache'[p] = k =>
                           \/ path'[k] = p
                           \/ \E u \in Threads : at'[u] = "changed" /\ dirh'[u] = k /\ oldpath'[u] = p
    BY DEF FiledInv
  <2>1. /\ \A u, v \in Threads : Sets(u, k) /\ Sets(v, k) => u = v
        /\ \A u \in Threads : at[u] = "changed" /\ dirh[u] = k => path[k] = newpath[u]
        /\ \A p \in Paths : dirhcache[p] = k =>
             path[k] = p \/ \E u \in Threads : at[u] = "changed" /\ dirh[u] = k /\ oldpath[u] = p
    BY <1>4 DEF FindInv, FiledInv
  <2>2. \A u \in Threads : Sets(u, k)' => Sets(u, k)
    BY <1>1, <1>2 DEF Sets, Stays
  <2>3. \A u, v \in Threads : Sets(u, k)' /\ Sets(v, k)' => u = v
    BY <2>1, <2>2
  <2>4. \A u \in Threads : at'[u] = "changed" => u # t /\ Stays(u)
    BY <1>1, <1>2
  <2>5. ASSUME NEW p \in Paths, dirhcache'[p] = k
        PROVE  \/ path'[k] = p
               \/ \E u \in Threads : at'[u] = "changed" /\ dirh'[u] = k /\ oldpath'[u] = p
    <3>1. CASE p = newpath[t] /\ k = h
      BY <1>1, <2>1, <3>1 DEF h
    <3>2. CASE p # oldpath[t] /\ dirhcache[p] = k
      <4>1. CASE path[k] = p
        BY <1>1, <4>1
      <4>2. ASSUME NEW u \in Threads, at[u] = "changed", dirh[u] = k, oldpath[u] = p
            PROVE  at'[u] = "changed" /\ dirh'[u] = k /\ oldpath'[u] = p
        BY <1>2, <3>2, <4>2 DEF Stays
      <4> QED
        BY <2>1, <3>2, <4>1, <4>2
    <3> QED
      BY <1>3, <2>5, <3>1, <3>2
  <2>6. \A u \in Threads : at'[u] = "changed" /\ dirh'[u] = k => path'[k] = newpath'[u]
    BY <1>1, <2>1, <2>4 DEF Stays
  <2> QED
    BY <2>3, <2>5, <2>6
<1>7. ASSUME NEW u \in Threads PROVE CallOf(u)'
  <2>1. CallOf(u)
    BY DEF FindInv, CallInv
  <2>2. CASE u # t
    <3>1. Stays(u) /\ where' = where /\ dir' = dir /\ torefresh' = torefresh
      BY <1>1, <1>2, <2>2
    <3>2. at[u] = "returned" /\ Clean(dirh[u])' => Clean(dirh[u])
      BY <1>1, <3>1 DEF Clean, Stays
    <3>3. ASSUME NEW k \in DirHandles, Clean(k)', request[u] # None, dirhcache'[request[u]] = k
          PROVE  dir'[k] \in during[u] \/ (Clean(k) /\ dirhcache[request[u]] = k)
      <4>1. request[u] \in Paths
        BY <3>3 DEF CacheInv, CacheTypeOK
      <4>2. CASE request[u] = newpath[t] /\ k = h
        <5>1. ~OutOfDate(t)
          BY <1>1, <3>3, <4>2 DEF Clean
        <5>2. where[dir[h]] = newpath[t]
          BY <2>2, <3>3, <4>2, <5>1 DEF OutOfDate, h
        <5>3. dir[h] \in Dirs
          BY <1>1 DEF Opened
        <5> QED
          BY <2>1, <3>1, <3>3, <4>2, <5>2, <5>3 DEF CallOf
      <4>3. CASE dirhcache'[request[u]] = dirhcache[request[u]]
        BY <1>4, <3>3, <4>3
      <4> QED
        BY <1>3, <3>3, <4>1, <4>2, <4>3
    <3> QED
      BY <2>1, <3>1, <3>2, <3>3, CallStays
  <2>3. CASE u = t
    <3>1. ASSUME request[t] # None, NEW k \in DirHandles, Clean(k)', dirhcache'[request[t]] = k
          PROVE  Due(t, k)' \/ Seen(t, k)'
      <4>1. request[t] \in Paths
        BY <3>1 DEF CacheInv, CacheTypeOK
      <4>2. CASE request[t] = newpath[t] /\ k = h
        <5>1. Seen(t, h)
          BY <1>1, <2>1, <2>3, <3>1, <4>2 DEF CallOf, h
        <5> QED
          BY <1>1, <4>2, <5>1 DEF Seen
      <4>3. CASE request[t] # oldpath[t] /\ dirhcache[request[t]] = k
        <5>1. Due(t, k) \/ Seen(t, k)
          BY <1>1, <1>4, <2>1, <2>3, <3>1, <4>3 DEF CallOf, Refreshing
        <5> QED
          BY <1>1, <4>3, <5>1 DEF Due, Seen
      <4> QED
        BY <1>3, <3>1, <4>1, <4>2, <4>3
    <3> QED
      BY <1>1, <2>1, <2>3, <3>1 DEF CallOf
  <2> QED
    BY <2>2, <2>3
<1> QED
  BY <1>5, <1>6, <1>7 DEF FindInv, CallInv

\* What leaves the paths alone, and adds no entry, leaves the cache as well filed.
LEMMA FiledStays ==
  ASSUME FiledInv, path' = path,
         \A h \in DirHandles : Clean(h)' => Clean(h),
         \A u \in Threads : at[u] = "changed" \/ at'[u] \in {"read", "changed"} => Stays(u),
         \A p \in Paths : dirhcache'[p] \in DirHandles => dirhcache'[p] = dirhcache[p]
  PROVE  FiledInv'
<1> SUFFICES ASSUME NEW k \in DirHandles, Clean(k)'
             PROVE  /\ \A u, v \in Threads : Sets(u, k)' /\ Sets(v, k)' => u = v
                    /\ \A u \in Threads : at'[u] = "changed" /\ dirh'[u] = k => path'[k] = newpath'[u]
                    /\ \A p \in Paths : dirhcache'[p] = k =>
                         \/ path'[k] = p
                         \/ \E u \in Threads : at'[u] = "changed" /\ dirh'[u] = k /\ oldpath'[u] = p
  BY DEF FiledInv
<1>1. /\ \A u, v \in Threads : Sets(u, k) /\ Sets(v, k) => u = v
      /\ \A u \in Threads : at[u] = "changed" /\ dirh[u] = k => path[k] = newpath[u]
      /\ \A p \in Paths : dirhcache[p] = k =>
           path[k] = p \/ \E u \in Threads : at[u] = "changed" /\ dirh[u] = k /\ oldpath[u] = p
  BY DEF FiledInv
<1>2. \A u \in Threads : Sets(u, k)' => Sets(u, k)
  BY DEF Sets, Stays
<1>3. \A u, v \in Threads : Sets(u, k)' /\ Sets(v, k)' => u = v
  BY <1>1, <1>2
<1>4. \A u \in Threads : at'[u] = "changed" /\ dirh'[u] = k => path'[k] = newpath'[u]
  BY <1>1 DEF Stays
<1>5. \A u \in Threads : at[u] = "changed" => Stays(u)
  OBVIOUS
<1>6. \A p \in Paths : dirhcache'[p] = k =>
         path'[k] = p \/ \E u \in Threads : at'[u] = "changed" /\ dirh'[u] = k /\ oldpath'[u] = p
  BY <1>1, <1>5 DEF Stays
<1> QED
  BY <1>3, <1>4, <1>6

\* Those who open a handle have it to themselves while nobody else comes by it.
LEMMA OpenedStays ==
  ASSUME CacheInv, OpenedInv, NEW t \in Threads, at[t] # "opened", at'[t] # "opened",
         \A u \in Threads \ {t} : Stays(u),
         \A u \in Threads \ {t} : at[u] = "opened" =>
           /\ dirh[u] \notin kept' /\ (at'[t] \in Working => dirh'[t] # dirh[u])
           /\ \A p \in Paths : dirhcache'[p] = dirh[u] => dirhcache[p] = dirh[u]
           /\ \A v \in Threads : dirh[u] \in torefresh'[v] => dirh[u] \in torefresh[v]
  PROVE  OpenedInv'
<1> SUFFICES ASSUME NEW u \in Threads, at'[u] = "opened"
             PROVE  /\ dirh'[u] \notin kept'
                    /\ \A p \in Paths : dirhcache'[p] # dirh'[u]
                    /\ \A v \in Threads : dirh'[u] \notin torefresh'[v]
                    /\ \A v \in Threads \ {u} : at'[v] \in Working => dirh'[v] # dirh'[u]
  BY DEF OpenedInv
<1>1. u # t /\ at[u] = "opened" /\ dirh'[u] = dirh[u]
  BY DEF Stays
<1>2. /\ \A p \in Paths : dirhcache[p] # dirh[u]
      /\ \A v \in Threads : dirh[u] \notin torefresh[v]
      /\ \A v \in Threads \ {u} : at[v] \in Working => dirh[v] # dirh[u]
  BY <1>1 DEF OpenedInv
<1>3. \A v \in Threads \ {u} : at'[v] \in Working => dirh'[v] # dirh'[u]
  BY <1>1, <1>2 DEF Stays
<1> QED
  BY <1>1, <1>2, <1>3

\* A call has all that the cache has at its path to refresh when it starts.
LEMMA FindAsk ==
  ASSUME CacheInv, FindInv, NEW t \in Threads, NEW p \in Paths, GetHandleToDir(t, p)
  PROVE  FindInv'
<1> USE Names_ DEF handles
<1>1. /\ at[t] = "idle" /\ at'[t] = "refresh" /\ request'[t] = p
      /\ during'[t] = {d \in Dirs : where[d] = p} /\ torefresh'[t] = ToRefresh
      /\ \A u \in Threads \ {t} : torefresh'[u] = torefresh[u]
      /\ UNCHANGED <<where, dir, path, kept, raced, aliased>>
      /\ \A q \in Paths : dirhcache'[q] \in {dirhcache[q], None}
  BY DEF GetHandleToDir, Goto, CacheInv, CacheTypeOK
<1>2. \A u \in Threads \ {t} : Stays(u)
  BY OthersSame DEF Acts
<1>3. \A q \in Paths : dirhcache'[q] \in DirHandles =>
        dirhcache'[q] = dirhcache[q] /\ dirhcache[q] \in ToRefresh
  BY <1>1 DEF ToRefresh
<1>4. OpenedInv'
  <2>1. ASSUME NEW u \in Threads \ {t}, at[u] = "opened"
        PROVE  /\ dirh[u] \notin kept'
               /\ \A q \in Paths : dirhcache'[q] = dirh[u] => dirhcache[q] = dirh[u]
               /\ \A v \in Threads : dirh[u] \in torefresh'[v] => dirh[u] \in torefresh[v]
    <3>1. dirh[u] \in DirHandles
      BY <2>1 DEF CacheInv, OpenInv, Working
    <3>2. dirh[u] \notin kept /\ \A q \in Paths : dirhcache[q] # dirh[u]
      BY <2>1 DEF FindInv, OpenedInv
    <3>3. dirh[u] \notin ToRefresh
      BY <3>1, <3>2 DEF ToRefresh
    <3> QED
      BY <1>1, <1>3, <3>1, <3>2, <3>3
  <2> QED
    BY <1>1, <1>2, <2>1, OpenedStays DEF FindInv, Working
<1>5. FiledInv'
  BY <1>1, <1>2, <1>3, FiledStays DEF FindInv, Clean
<1>6. ASSUME NEW u \in Threads PROVE CallOf(u)'
  <2>1. CASE u = t
    BY <1>1, <1>3, <2>1 DEF CallOf, Due
  <2>2. CASE u # t
    <3>1. CallOf(u) /\ Stays(u) /\ torefresh'[u] = torefresh[u]
      BY <1>1, <1>2, <2>2 DEF FindInv, CallInv
    <3>2. \A h \in DirHandles : Clean(h)' /\ request[u] # None /\ dirhcache'[request[u]] = h =>
            Clean(h) /\ dirhcache[request[u]] = h
      BY <1>1, <1>3 DEF Clean, CacheInv, CacheTypeOK
    <3>3. at[u] = "returned" /\ Clean(dirh[u])' => Clean(dirh[u])
      BY <1>1, <3>1 DEF Clean, Stays
    <3> QED
      BY <1>1, <3>1, <3>2, <3>3, CallStays
  <2> QED
    BY <2>1, <2>2
<1> QED
  BY <1>4, <1>5, <1>6 DEF FindInv, CallInv

\* All that was at the path it asks for is refreshed by then, and was seen there.
LEMMA FindFound ==
  ASSUME CacheInv, FindInv, NEW t \in Threads, Found(t)
  PROVE  FindInv'
<1> USE Names_ DEF handles
<1> DEFINE h == dirhcache[request[t]]
<1>1. /\ at[t] = "refresh" /\ torefresh[t] = {} /\ h \in DirHandles /\ request[t] \in Paths
      /\ at'[t] = "returned" /\ dirh'[t] = h /\ request'[t] = request[t]
      /\ UNCHANGED <<where, dir, path, kept, dirhcache, torefresh, during, raced, aliased>>
  BY DEF Found, Goto, CacheInv, CacheTypeOK, OpenInv, Asking
<1>2. \A u \in Threads \ {t} : Stays(u)
  BY OthersSame DEF Acts, CacheStep
<1>3. OpenedInv'
  <2>1. ASSUME NEW u \in Threads \ {t}, at[u] = "opened"
        PROVE  dirh[u] \notin kept /\ h # dirh[u]
    BY <1>1, <2>1 DEF FindInv, OpenedInv
  <2> QED
    BY <1>1, <1>2, <2>1, OpenedStays DEF FindInv
<1>4. FiledInv'
  BY <1>1, <1>2, FiledStays DEF FindInv, Clean
<1>5. ASSUME NEW u \in Threads PROVE CallOf(u)'
  <2>1. CASE u = t
    <3>1. CallOf(t)
      BY DEF FindInv, CallInv
    <3>2. Clean(h) => Seen(t, h)
      BY <1>1, <3>1, Names_ DEF CallOf, Refreshing, Due
    <3> QED
      BY <1>1, <2>1, <3>1, <3>2 DEF CallOf, Seen, Clean, Refreshing
  <2>2. CASE u # t
    <3>1. CallOf(u) /\ Stays(u)
      BY <1>2, <2>2 DEF FindInv, CallInv
    <3>2. \A k : Clean(k)' <=> Clean(k)
      BY <1>1 DEF Clean
    <3>3. at[u] = "returned" /\ Clean(dirh[u])' => Clean(dirh[u])
      BY <3>1, <3>2 DEF Stays, Clean
    <3> QED
      BY <1>1, <3>1, <3>2, <3>3, CallStays
  <2> QED
    BY <2>1, <2>2
<1> QED
  BY <1>3, <1>4, <1>5 DEF FindInv, CallInv

\* Whoever goes on to open the directory, or ends its call, leaves the cache as it is.
LEMMA FindOver ==
  ASSUME CacheInv, FindInv, NEW t \in Threads, NotFound(t) \/ Throw(t) \/ Keep(t)
  PROVE  FindInv'
<1> USE Names_ DEF handles, locals
<1>1. /\ at[t] \in {"refresh", "lookup", "returned"}
      /\ at'[t] \in {"lookup", "idle"} /\ (at'[t] = "idle" => request'[t] = None)
      /\ at'[t] = "lookup" => request'[t] = request[t] /\ during'[t] = during[t]
      /\ UNCHANGED <<where, dir, path, dirhcache, torefresh, raced, aliased>>
      /\ kept' = kept \/ (at[t] = "returned" /\ kept' = kept \cup {dirh[t]})
  BY DEF NotFound, Throw, Keep, Goto, Return, CacheInv, CacheTypeOK
<1>2. \A u \in Threads \ {t} : Stays(u)
  BY OthersSame DEF Acts, CacheStep
<1>3. OpenedInv'
  <2>1. ASSUME NEW u \in Threads \ {t}, at[u] = "opened" PROVE dirh[u] \notin kept'
    BY <1>1, <2>1 DEF FindInv, OpenedInv, Working
  <2> QED
    BY <1>1, <1>2, <2>1, OpenedStays DEF FindInv, Working
<1>4. FiledInv'
  BY <1>1, <1>2, FiledStays DEF FindInv, Clean
<1>5. ASSUME NEW u \in Threads PROVE CallOf(u)'
  <2>1. CASE u = t
    <3>1. CallOf(t)
      BY DEF FindInv, CallInv
    <3> QED
      BY <1>1, <2>1, <3>1 DEF CallOf, Refreshing
  <2>2. CASE u # t
    <3>1. CallOf(u) /\ Stays(u)
      BY <1>2, <2>2 DEF FindInv, CallInv
    <3>2. \A k : Clean(k)' <=> Clean(k)
      BY <1>1 DEF Clean
    <3>3. at[u] = "returned" /\ Clean(dirh[u])' => Clean(dirh[u])
      BY <3>1, <3>2 DEF Stays, Clean
    <3> QED
      BY <1>1, <3>1, <3>2, <3>3, CallStays
  <2> QED
    BY <2>1, <2>2
<1> QED
  BY <1>3, <1>4, <1>5 DEF FindInv, CallInv

\* A new handle is in nobody's hands, and its directory is at the path right then.
LEMMA FindOpen ==
  ASSUME CacheInv, FindInv, NEW t \in Threads, OpenDir(t)
  PROVE  FindInv'
<1> USE Names_
<1>1. PICK h \in DirHandles, d \in Dirs :
        /\ where[d] = request[t] /\ dir[h] = None
        /\ dir' = [dir EXCEPT ![h] = d]
        /\ path' = [path EXCEPT ![h] = request[t]]
        /\ dirh' = [dirh EXCEPT ![t] = h]
  BY DEF OpenDir
<1>2. /\ at[t] = "lookup" /\ at'[t] = "opened" /\ request[t] \in Paths /\ request'[t] = request[t]
      /\ dirh'[t] = h /\ dir'[h] = d
      /\ \A k \in DirHandles \ {h} : dir'[k] = dir[k] /\ path'[k] = path[k]
      /\ UNCHANGED <<where, kept, dirhcache, torefresh, during, raced, aliased>>
  BY <1>1 DEF OpenDir, Goto, CacheInv, CacheTypeOK, OpenInv, Asking
<1>3. \A u \in Threads \ {t} : Stays(u)
  BY OthersSame DEF Acts, CacheStep
<1>4. ~Opened(h)
  BY <1>1 DEF Opened
<1>5. /\ h \notin kept /\ \A p \in Paths : dirhcache[p] # h
      /\ \A u \in Threads : h \notin torefresh[u]
      /\ \A u \in Threads : at[u] \in Working => dirh[u] # h /\ dirh[u] \in DirHandles
  BY <1>4 DEF CacheInv, OpenInv
<1>6. \A k : Clean(k)' <=> Clean(k)
  BY <1>2 DEF Clean
<1>7. OpenedInv'
  <2> SUFFICES ASSUME NEW u \in Threads, at'[u] = "opened"
               PROVE  /\ dirh'[u] \notin kept'
                      /\ \A p \in Paths : dirhcache'[p] # dirh'[u]
                      /\ \A v \in Threads : dirh'[u] \notin torefresh'[v]
                      /\ \A v \in Threads \ {u} : at'[v] \in Working => dirh'[v] # dirh'[u]
    BY DEF OpenedInv
  <2>1. CASE u = t
    BY <1>2, <1>3, <1>5, <2>1 DEF Stays
  <2>2. CASE u # t
    <3>1. at[u] = "opened" /\ dirh'[u] = dirh[u] /\ dirh[u] # h
      BY <1>3, <1>5, <2>2 DEF Stays, Working
    <3>2. /\ dirh[u] \notin kept /\ \A p \in Paths : dirhcache[p] # dirh[u]
          /\ \A v \in Threads : dirh[u] \notin torefresh[v]
          /\ \A v \in Threads \ {u} : at[v] \in Working => dirh[v] # dirh[u]
      BY <3>1 DEF FindInv, OpenedInv
    <3> QED
      BY <1>2, <1>3, <3>1, <3>2 DEF Stays
  <2> QED
    BY <2>1, <2>2
<1>8. FiledInv'
  <2> SUFFICES ASSUME NEW k \in DirHandles, Clean(k)'
               PROVE  /\ \A u, v \in Threads : Sets(u, k)' /\ Sets(v, k)' => u = v
                      /\ \A u \in Threads : at'[u] = "changed" /\ dirh'[u] = k => path'[k] = newpath'[u]
                      /\ \A p \in Paths : dirhcache'[p] = k =>
                           \/ path'[k] = p
                           \/ \E u \in Threads : at'[u] = "changed" /\ dirh'[u] = k /\ oldpath'[u] = p
    BY DEF FiledInv
  <2>1. \A u \in Threads : at'[u] \in {"read", "changed"} \/ at[u] \in {"read", "changed"} =>
          u # t /\ Stays(u) /\ dirh[u] # h
    BY <1>2, <1>3, <1>5 DEF Stays, Working
  <2>2. CASE k = h
    BY <1>2, <1>5, <2>1, <2>2 DEF Sets, Stays
  <2>3. CASE k # h
    <3>1. Clean(k) /\ path'[k] = path[k]
      BY <1>2, <1>6, <2>3
    <3>2. /\ \A u, v \in Threads : Sets(u, k) /\ Sets(v, k) => u = v
          /\ \A u \in Threads : at[u] = "changed" /\ dirh[u] = k => path[k] = newpath[u]
          /\ \A p \in Paths : dirhcache[p] = k =>
               path[k] = p \/ \E u \in Threads : at[u] = "changed" /\ dirh[u] = k /\ oldpath[u] = p
      BY <3>1 DEF FindInv, FiledInv
    <3>3. \A u \in Threads : Sets(u, k)' => Sets(u, k)
      BY <2>1 DEF Sets, Stays
    <3>4. \A u, v \in Threads : Sets(u, k)' /\ Sets(v, k)' => u = v
      BY <3>2, <3>3
    <3>5. \A u \in Threads : at[u] = "changed" \/ at'[u] = "changed" => Stays(u)
      BY <2>1
    <3> QED
      BY <1>2, <3>1, <3>2, <3>4, <3>5 DEF Stays
  <2> QED
    BY <2>2, <2>3
<1>9. ASSUME NEW u \in Threads PROVE CallOf(u)'
  <2>1. CallOf(u)
    BY DEF FindInv, CallInv
  <2>2. CASE u = t
    <3>1. d \in during[t]
      BY <1>1, <1>2, <2>1, <2>2 DEF CallOf
    <3> QED
      BY <1>2, <2>1, <2>2, <3>1 DEF CallOf, Seen, Refreshing
  <2>3. CASE u # t
    <3>1. Stays(u)
      BY <1>3, <2>3
    <3>2. at[u] \in Working => dir'[dirh[u]] = dir[dirh[u]]
      BY <1>2, <1>5
    <3>3. at[u] = "returned" /\ Clean(dirh[u])' => Clean(dirh[u])
      BY <1>6, <3>1 DEF Stays, Clean
    <3>4. request[u] # None => request[u] \in Paths
      BY DEF CacheInv, CacheTypeOK
    <3>5. \A k \in DirHandles : Clean(k)' /\ request[u] # None /\ dirhcache'[request[u]] = k =>
            Clean(k) /\ dirhcache[request[u]] = k /\ dir'[k] = dir[k]
      BY <1>2, <1>5, <1>6, <3>4
    <3> QED
      BY <1>2, <2>1, <3>1, <3>2, <3>3, <3>5, CallStays
  <2> QED
    BY <2>2, <2>3
<1> QED
  BY <1>7, <1>8, <1>9 DEF FindInv, CallInv

\* A handle goes into the cache at the path its directory was opened at, if it is
\* there by now, or is one that was renamed while it was opened.
LEMMA FindAdd ==
  ASSUME CacheInv, FindInv, NEW t \in Threads, AddItself(t)
  PROVE  FindInv'
<1> USE Names_
<1> DEFINE h == dirh[t]
           p == request[t]
           new == where[dir[h]]
           first == IF new = p THEN dirhcache ELSE Moved(dirhcache, p, new, h)
           added == Inserted(first, new, h)
<1>1. /\ h \in DirHandles /\ dir[h] \in Dirs /\ p \in Paths /\ new \in Paths \cup {None}
      /\ at[t] = "opened" /\ at'[t] = "returned" /\ dirh'[t] = h /\ request'[t] = p
      /\ \A k \in DirHandles : path'[k] = IF k = h THEN new ELSE path[k]
      /\ aliased' = IF new = p THEN aliased ELSE aliased \cup {h}
      /\ UNCHANGED <<where, dir, kept, torefresh, during, raced>>
  BY DEF AddItself, Goto, locals, CacheInv, CacheTypeOK, OpenInv, Opened, Working, Asking
<1>2. \A u \in Threads \ {t} : Stays(u)
  BY OthersSame DEF Acts, CacheStep
<1>3. /\ h \notin kept /\ \A q \in Paths : dirhcache[q] # h
      /\ \A u \in Threads \ {t} : at[u] \in Working => dirh[u] # h
  BY <1>1 DEF FindInv, OpenedInv
<1>4. dirhcache' = Aliased(added, p, new, h) /\ dirhcache \in [Paths -> DirHandles \cup {None, Expired}]
  BY DEF AddItself, CacheInv, CacheTypeOK
<1> HIDE DEF h, p, new
<1>5. first \in [Paths -> DirHandles \cup {None, Expired}]
  BY <1>1, <1>4, MovedType
<1>6. \A q \in Paths : first[q] \in {dirhcache[q], None, h}
  BY <1>1, <1>4, MovedType
<1>7. new = p => first = dirhcache
  OBVIOUS
<1> HIDE DEF first
<1>8. added \in [Paths -> DirHandles \cup {None, Expired}] /\ \A q \in Paths : added[q] \in {first[q], h}
  BY <1>1, <1>5, MovedType
<1>9. \A q \in Paths : added[q] # first[q] => q = new
  BY <1>1, <1>5, MovedEntries
<1> HIDE DEF added
<1>10. \A q \in Paths : dirhcache'[q] \in {added[q], h}
  <2>1. \A q \in Paths : Inserted(added, p, h)[q] \in {added[q], h}
    BY <1>1, <1>8, MovedType
  <2> QED
    BY <1>4, <2>1 DEF Aliased
<1>11. \A q \in Paths : dirhcache'[q] \in {dirhcache[q], None, h}
  BY <1>6, <1>8, <1>10
<1>12. new = p => \A q \in Paths : dirhcache'[q] = h => q = p
  BY <1>3, <1>4, <1>7, <1>9 DEF Aliased
<1>13. \A k : Clean(k)' => Clean(k) /\ (k = h => new = p)
  BY <1>1 DEF Clean
<1>14. OpenedInv'
  <2>1. ASSUME NEW u \in Threads \ {t}, at[u] = "opened"
        PROVE  /\ dirh[u] \notin kept' /\ h # dirh[u]
               /\ \A q \in Paths : dirhcache'[q] = dirh[u] => dirhcache[q] = dirh[u]
    <3>1. dirh[u] \in DirHandles /\ dirh[u] # h /\ dirh[u] \notin kept
      BY <1>3, <2>1 DEF CacheInv, OpenInv, Working, FindInv, OpenedInv
    <3> QED
      BY <1>1, <1>11, <3>1
  <2> SUFFICES ASSUME NEW u \in Threads, at'[u] = "opened"
               PROVE  /\ dirh'[u] \notin kept'
                      /\ \A q \in Paths : dirhcache'[q] # dirh'[u]
                      /\ \A v \in Threads : dirh'[u] \notin torefresh'[v]
                      /\ \A v \in Threads \ {u} : at'[v] \in Working => dirh'[v] # dirh'[u]
    BY DEF OpenedInv
  <2>2. u # t /\ at[u] = "opened" /\ dirh'[u] = dirh[u]
    BY <1>1, <1>2 DEF Stays
  <2>3. /\ \A q \in Paths : dirhcache[q] # dirh[u]
        /\ \A v \in Threads : dirh[u] \notin torefresh[v]
        /\ \A v \in Threads \ {u} : at[v] \in Working => dirh[v] # dirh[u]
    BY <2>2 DEF FindInv, OpenedInv
  <2>4. \A v \in Threads \ {u} : at'[v] \in Working => dirh'[v] # dirh'[u]
    BY <1>1, <1>2, <2>1, <2>2, <2>3 DEF Stays
  <2> QED
    BY <1>1, <2>1, <2>2, <2>3, <2>4
<1>15. FiledInv'
  <2> SUFFICES ASSUME NEW k \in DirHandles, Clean(k)'
               PROVE  /\ \A u, v \in Threads : Sets(u, k)' /\ Sets(v, k)' => u = v
                      /\ \A u \in Threads : at'[u] = "changed" /\ dirh'[u] = k => path'[k] = newpath'[u]
                      /\ \A q \in Paths : dirhcache'[q] = k =>
                           \/ path'[k] = q
                           \/ \E u \in Threads : at'[u] = "changed" /\ dirh'[u] = k /\ oldpath'[u] = q
    BY DEF FiledInv
  <2>1. \A u \in Threads : at'[u] \in {"read", "changed"} \/ at[u] \in {"read", "changed"} =>
          u # t /\ Stays(u) /\ dirh[u] # h
    BY <1>1, <1>2, <1>3 DEF Stays, Working
  <2>2. CASE k = h
    BY <1>1, <1>12, <1>13, <2>1, <2>2 DEF Sets, Stays
  <2>3. CASE k # h
    <3>1. Clean(k) /\ path'[k] = path[k] /\ \A q \in Paths : dirhcache'[q] = k => dirhcache[q] = k
      BY <1>1, <1>11, <1>13, <2>3
    <3>2. /\ \A u, v \in Threads : Sets(u, k) /\ Sets(v, k) => u = v
          /\ \A u \in Threads : at[u] = "changed" /\ dirh[u] = k => path[k] = newpath[u]
          /\ \A q \in Paths : dirhcache[q] = k =>
               path[k] = q \/ \E u \in Threads : at[u] = "changed" /\ dirh[u] = k /\ oldpath[u] = q
      BY <3>1 DEF FindInv, FiledInv
    <3>3. \A u \in Threads : Sets(u, k)' => Sets(u, k)
      BY <2>1 DEF Sets, Stays
    <3>4. \A u, v \in Threads : Sets(u, k)' /\ Sets(v, k)' => u = v
      BY <3>2, <3>3
    <3>5. \A u \in Threads : at[u] = "changed" \/ at'[u] = "changed" => Stays(u)
      BY <2>1
    <3> QED
      BY <3>1, <3>2, <3>4, <3>5 DEF Stays
  <2> QED
    BY <2>2, <2>3
<1>16. ASSUME NEW u \in Threads PROVE CallOf(u)'
  <2>1. CallOf(u)
    BY DEF FindInv, CallInv
  <2>2. CASE u = t
    <3>1. dir[h] \in during[t]
      BY <1>1, <2>1, <2>2 DEF CallOf, Seen, h
    <3> QED
      BY <1>1, <2>1, <2>2, <3>1 DEF CallOf, Seen, Refreshing, p
  <2>3. CASE u # t
    <3>1. Stays(u)
      BY <1>2, <2>3
    <3>2. at[u] = "returned" /\ Clean(dirh[u])' => Clean(dirh[u])
      BY <1>13, <3>1 DEF Stays, Clean
    <3>3. ASSUME NEW k \in DirHandles, Clean(k)', request[u] # None, dirhcache'[request[u]] = k
          PROVE  dir'[k] \in during[u] \/ (Clean(k) /\ dirhcache[request[u]] = k)
      <4>1. request[u] \in Paths
        BY <3>3 DEF CacheInv, CacheTypeOK
      <4>2. CASE k = h
        <5>1. request[u] = new
          BY <1>12, <1>13, <3>3, <4>1, <4>2
        <5> QED
          BY <1>1, <2>1, <3>3, <4>2, <5>1 DEF CallOf, new
      <4>3. CASE k # h
        BY <1>11, <1>13, <3>3, <4>1, <4>3
      <4> QED
        BY <4>2, <4>3
    <3> QED
      BY <1>1, <2>1, <3>1, <3>2, <3>3, CallStays
  <2> QED
    BY <2>2, <2>3
<1> QED
  BY <1>14, <1>15, <1>16 DEF FindInv, CallInv

\* FindInv is inductive, given CacheInv.
LEMMA FindStep ==
  ASSUME CacheInv, FindInv, [CacheNext]_cachevars
  PROVE  FindInv'
<1>1. CASE UNCHANGED cachevars
  BY <1>1 DEF cachevars, handles, locals, FindInv, OpenedInv, FiledInv, CallInv, CallOf, Clean, Sets, Seen, Due
<1>2. ASSUME NEW t \in Threads,
             Path(t) \/ CacheStep(t) \/ Keep(t) \/ Forget(t) \/ \E p \in Paths : GetHandleToDir(t, p)
      PROVE  FindInv'
  BY <1>2, FindReleased, FindReadlink, FindChanged, FindUpdated, FindAsk, FindFound, FindOver, FindOpen, FindAdd
     DEF CacheStep
<1> QED
  BY <1>1, <1>2, FindRename, FindDrop DEF CacheNext

LEMMA FindInitInv == CacheInit => FindInv
<1> SUFFICES ASSUME CacheInit PROVE FindInv
  OBVIOUS
<1>1. OpenedInv
  BY DEF CacheInit, OpenedInv
<1>2. FiledInv
  BY Names_ DEF CacheInit, FiledInv, Sets
<1>3. CallInv
  BY DEF CacheInit, CallInv, CallOf
<1> QED
  BY <1>1, <1>2, <1>3 DEF FindInv

LEMMA CacheInitInv == CacheInit => CacheInv
<1> SUFFICES ASSUME CacheInit PROVE CacheInv
  OBVIOUS
<1>1. CacheTypeOK
  <2>1. 0 \in 0..MaxRenames
    BY CacheAssumption
  <2> QED
    BY <2>1 DEF CacheInit, CacheTypeOK, Label
<1> QED
  BY <1>1, Names_ DEF CacheInv, CacheInit, OpenInv, Working, Asking

LEMMA FindMeans ==
  ASSUME CacheInv, FindInv
  PROVE  FindsCurrent /\ EntriesAgree
<1>1. FindsCurrent
  BY DEF FindsCurrent, FindInv, CallInv, CallOf, Seen, Clean
<1>2. ASSUME \A t \in Threads : at[t] = "idle",
             NEW p \in Paths, dirhcache[p] \in DirHandles
      PROVE  path[dirhcache[p]] = p \/ dirhcache[p] \in raced \cup aliased
  BY <1>2 DEF FindInv, FiledInv, Clean
<1> QED
  BY <1>1, <1>2 DEF EntriesAgree

(***************************************************************************)
(* get_handle_to_dir() returns a directory that was at the path during the *)
(* call, and an idle cache agrees with the paths of its handles, for any   *)
(* number of threads, directories, paths, handles and renames, and for all *)
(* handles but those renamed between their own openat() and readlink() and *)
(* those whose path two threads set at once.                               *)
(***************************************************************************)
THEOREM CacheCorrect == CacheSpec => [](FindsCurrent /\ EntriesAgree)
<1>1. CacheInit => CacheInv /\ FindInv
  BY CacheInitInv, FindInitInv
<1>2. CacheInv /\ FindInv /\ [CacheNext]_cachevars => (CacheInv /\ FindInv)'
  BY CacheInvStep, FindStep
<1>3. CacheInv /\ FindInv => FindsCurrent /\ EntriesAgree
  BY FindMeans
<1> QED
  BY <1>1, <1>2, <1>3, PTL DEF CacheSpec

\* No two directories are at one path.
LEMMA ApartStep ==
  ASSUME CacheInv, Apart, [CacheNext]_cachevars
  PROVE  Apart'
<1>1. ASSUME NEW d \in Dirs, NEW p \in Paths \cup {None}, Rename(d, p) PROVE Apart'
  BY <1>1 DEF Rename, Apart, CacheInv, CacheTypeOK
<1>2. ASSUME where' = where PROVE Apart'
  BY <1>2 DEF Apart
<1>3. where' = where \/ \E d \in Dirs, p \in Paths \cup {None} : Rename(d, p)
  BY OthersSame DEF CacheNext, Acts, cachevars, Drop
<1> QED
  BY <1>1, <1>2, <1>3

-----------------------------------------------------------------------------
(***************************************************************************)
(* RaceProtection.  While an operation runs nobody else sets the handle's  *)
(* path (AloneInv), so the leaf that was verified is the one that the      *)
(* system call is given; and the directory handle stays open for the       *)
(* directory where it was verified (VerifiedInv).                          *)
(***************************************************************************)
AloneInv ==
  Alone =>
    /\ pc # "idle" => \A r \in Refreshers : got[r] = None
    /\ pc \in {"container", "verified"} => fpath = req
    /\ pc = "call" => leaf = req[2]

VerifiedInv ==
  /\ pc \in {"container", "verified", "call"} => req[2] \in Leaves
  /\ pc \in {"verified", "call", "done"} => at[Worker] = "returned"
  /\ Verified /\ ~disturbed => entry[dir[dirh[Worker]]][req[2]] = Mine
  /\ pc # "done" => hit = None
  /\ Alone /\ pc = "done" /\ ~disturbed => hit = Mine

FilesOK ==
  /\ entry \in [Dirs -> [Leaves -> Others \cup {Mine, None}]]
  /\ fpath \in Names
  /\ got \in [Refreshers -> Names \cup {None}]

OpOK ==
  /\ op \in Operations \cup {None}
  /\ pc \in PC
  /\ tries \in 0..(MaxTries - 1)
  /\ req \in Names
  /\ leaf \in Leaves \cup {None}
  /\ hit \in Others \cup {Mine, None}
  /\ disturbed \in BOOLEAN
  /\ moved \in BOOLEAN

RaceInv == CacheInv /\ FilesOK /\ OpOK /\ AloneInv /\ VerifiedInv

LEMMA NameFacts ==
  /\ Worker \in Threads /\ MaxTries \in Nat \ {0} /\ Alone \in BOOLEAN
  /\ Mine \notin Others /\ Mine # None /\ None \notin Leaves
  /\ NoName \in Names /\ NoName[1] = None
  /\ \A p \in Paths \cup {None}, l \in Leaves : <<p, l>> \in Names
<1>1. /\ Worker \in Threads /\ MaxTries \in Nat \ {0} /\ Alone \in BOOLEAN
      /\ Mine \notin Others /\ Mine # None /\ None \notin Leaves
  BY RaceAssumption
<1>2. NoName \in Names /\ NoName[1] = None /\ NoName[2] = None
  BY DEF NoName, Names
<1>3. \A p \in Paths \cup {None}, l \in Leaves : <<p, l>> \in Names
  BY DEF Names
<1> QED
  BY <1>1, <1>2, <1>3

LEMMA NameParts ==
  ASSUME NEW x, x \in Names
  PROVE  /\ x[1] \in Paths \cup {None} /\ x[2] \in Leaves \cup {None}
         /\ x[1] # None => x[2] \in Leaves
<1>1. CASE x = NoName
  BY <1>1 DEF NoName
<1>2. CASE x \in (Paths \cup {None}) \X Leaves
  BY <1>2
<1> QED
  BY <1>1, <1>2 DEF Names

LEMMA WhereMineType ==
  ASSUME CacheInv
  PROVE  WhereMine \in Names
<1> DEFINE places == {x \in Dirs \X Leaves : entry[x[1]][x[2]] = Mine}
           x == CHOOSE x \in places : TRUE
<1>1. CASE places = {}
  BY <1>1, NameFacts DEF WhereMine
<1>2. CASE places # {}
  <2>1. x \in places
    BY <1>2
  <2>2. x \in Dirs \X Leaves
    BY <2>1
  <2>3. x[1] \in Dirs /\ x[2] \in Leaves
    BY <2>2
  <2>4. where[x[1]] \in Paths \cup {None}
    BY <2>3 DEF CacheInv, CacheTypeOK
  <2>5. WhereMine = <<where[x[1]], x[2]>>
    BY <1>2 DEF WhereMine
  <2> HIDE DEF x
  <2> QED
    BY <2>3, <2>4, <2>5, NameFacts
<1> QED
  BY <1>1, <1>2

LEMMA RaceInitInv == RaceInit => RaceInv
<1> SUFFICES ASSUME RaceInit PROVE RaceInv
  OBVIOUS
<1>2. CacheInv
  BY CacheInitInv DEF RaceInit
<1>3. entry \in [Dirs -> [Leaves -> Others \cup {Mine, None}]]
  <2>1. PICK d \in Dirs, l \in Leaves, o \in [Leaves -> Others \cup {None}] :
          entry = [e \in Dirs |-> [k \in Leaves |->
                     IF e = d THEN IF k = l THEN Mine ELSE o[k] ELSE None]]
    BY DEF RaceInit
  <2> QED
    BY <2>1
<1>4. FilesOK
  BY <1>2, <1>3, WhereMineType DEF RaceInit, FilesOK
<1>5. 0 \in 0..(MaxTries - 1)
  BY NameFacts
<1>6. OpOK /\ AloneInv /\ VerifiedInv
  BY <1>5, NameFacts DEF RaceInit, OpOK, AloneInv, VerifiedInv, Verified, PC
<1> QED
  BY <1>2, <1>4, <1>6 DEF RaceInv

\* A step of the cache that is none of the operation's.
CacheAlone ==
  /\ \/ \E h \in DirHandles : Drop(h)
     \/ \E t \in Threads : CacheStep(t)
     \/ \E t \in Threads \ {Worker} :
          \/ Path(t) \/ Keep(t) \/ Forget(t)
          \/ \E p \in Paths : GetHandleToDir(t, p)
  /\ UNCHANGED <<files, opvars, disturbed, moved>>

\* Every step is one of the cache, or leaves all of it but the count of renames.
LEMMA CacheOrNot ==
  ASSUME RaceInv, [RaceNext]_racevars
  PROVE  [CacheNext]_cachevars
         \/ /\ UNCHANGED <<where, handles, dirhcache, dircachelock, at, locals, during, raced, aliased>>
            /\ renames' \in 0..MaxRenames
<1> USE NameFacts
<1>1. ASSUME NEW d \in Dirs, NEW e \in Dirs, NEW l \in Leaves, NEW k \in Leaves, RenameFile(d, l, e, k)
      PROVE  /\ UNCHANGED <<where, handles, dirhcache, dircachelock, at, locals, during, raced, aliased>>
             /\ renames' \in 0..MaxRenames
  BY <1>1, CacheAssumption DEF RenameFile, RaceInv, CacheInv, CacheTypeOK
<1>2. Container \/ Mismatch \/ Fails \/ Done \/ CacheAlone => CacheNext
  <2>1. Container => \E p \in Paths : GetHandleToDir(Worker, p)
    <3>1. req \in Names
      BY DEF RaceInv, OpOK
    <3>2. req[1] \in Paths \cup {None}
      BY <3>1, NameParts
    <3> QED
      BY <3>2 DEF Container
  <2>2. Mismatch \/ Fails \/ Done => Forget(Worker)
    BY DEF Mismatch, Fails, Done
  <2>3. CacheAlone => CacheNext
    BY DEF CacheAlone, CacheNext
  <2> QED
    BY <2>1, <2>2, <2>3 DEF CacheNext
<1>3. ASSUME NEW d \in Dirs, NEW p \in Paths \cup {None}, RenameDir(d, p) PROVE CacheNext
  BY <1>3 DEF RenameDir, CacheNext
<1>4. \/ UNCHANGED cachevars
      \/ Container \/ Mismatch \/ Fails \/ Done \/ CacheAlone
      \/ \E d \in Dirs, p \in Paths \cup {None} : RenameDir(d, p)
      \/ \E d, e \in Dirs, l, k \in Leaves : RenameFile(d, l, e, k)
  BY DEF RaceNext, racevars, CacheAlone, RefreshRead, RefreshSet, Begin, PathRead, NoContainer,
         Verify, ReadLeaf, Call
<1> QED
  BY <1>1, <1>2, <1>3, <1>4

LEMMA CacheSteps ==
  ASSUME RaceInv, [RaceNext]_racevars
  PROVE  CacheInv'
<1>1. CASE [CacheNext]_cachevars
  BY <1>1, CacheInvStep DEF RaceInv
<1>2. CASE /\ UNCHANGED <<where, handles, dirhcache, dircachelock, at, locals, during, raced, aliased>>
           /\ renames' \in 0..MaxRenames
  BY <1>2 DEF handles, locals, RaceInv, CacheInv, CacheTypeOK, OpenInv, Opened
<1> QED
  BY <1>1, <1>2, CacheOrNot

LEMMA WorkerHolds ==
  ASSUME RaceInv, pc \in {"verified", "call", "done"},
         CacheAlone \/ \E d \in Dirs, p \in Paths \cup {None} : RenameDir(d, p)
  PROVE  Held(Worker)
<1>1. at[Worker] = "returned" /\ Worker \in Threads
  BY NameFacts DEF RaceInv, VerifiedInv
<1>2. CASE CacheAlone
  <2>1. CacheNext
    BY <1>2 DEF CacheAlone, CacheNext
  <2>2. Held(Worker) \/ Keep(Worker) \/ Forget(Worker)
    BY <1>1, <2>1, OthersStay DEF RaceInv
  <2>3. ASSUME Keep(Worker) \/ Forget(Worker) PROVE Held(Worker)
    <3>1. at' = [at EXCEPT ![Worker] = "idle"]
      BY <2>3 DEF Keep, Forget, Goto
    <3>2. at'[Worker] = "idle"
      BY <1>1, <3>1 DEF RaceInv, CacheInv, CacheTypeOK
    <3>3. CASE \E h \in DirHandles : Drop(h)
      BY <1>1, <3>2, <3>3 DEF Drop
    <3>4. ASSUME NEW t \in Threads, CacheStep(t) PROVE FALSE
      BY <1>1, <3>2, <3>4 DEF CacheStep, Unchanged, Changed, UpdatePath, Updated, RefreshNext, Found, NotFound,
         OpenDir, Throw, AddItself, Refreshed, Readlink, Goto, RaceInv, CacheInv, CacheTypeOK
    <3>5. ASSUME NEW t \in Threads, t # Worker,
                 Path(t) \/ Keep(t) \/ Forget(t) \/ \E p \in Paths : GetHandleToDir(t, p)
          PROVE  FALSE
      BY <1>1, <3>2, <3>5 DEF Path, Keep, Forget, GetHandleToDir, Readlink, Goto, RaceInv, CacheInv, CacheTypeOK
    <3> QED
      BY <1>2, <3>3, <3>4, <3>5 DEF CacheAlone
  <2> QED
    BY <2>2, <2>3
<1>3. CASE \E d \in Dirs, p \in Paths \cup {None} : RenameDir(d, p)
  BY <1>1, <1>3 DEF RenameDir, Rename, Held, handles, locals
<1> QED
  BY <1>2, <1>3

-----------------------------------------------------------------------------
LEMMA EndInv ==
  ASSUME RaceInv, End, fpath' \in Names, UNCHANGED <<entry, got>>
  PROVE  FilesOK' /\ OpOK' /\ AloneInv' /\ VerifiedInv'
<1>1. 0 \in 0..(MaxTries - 1)
  BY NameFacts
<1>2. FilesOK' /\ OpOK'
  BY <1>1, NameFacts DEF RaceInv, FilesOK, OpOK, End, PC
<1>3. AloneInv' /\ VerifiedInv'
  BY DEF AloneInv, VerifiedInv, Verified, End
<1> QED
  BY <1>2, <1>3

LEMMA RaceStep ==
  ASSUME RaceInv, [RaceNext]_racevars
  PROVE  RaceInv'
<1> DEFINE Q == FilesOK' /\ OpOK' /\ AloneInv' /\ VerifiedInv'
<1> USE NameFacts DEF files, opvars, Verified
<1>1. ASSUME NEW d \in Dirs, NEW p \in Paths \cup {None}, RenameDir(d, p) PROVE Q
  <2>1. UNCHANGED <<files, opvars, disturbed>> /\ moved' = (pc # "idle")
    BY <1>1 DEF RenameDir
  <2>2. FilesOK' /\ OpOK' /\ AloneInv'
    BY <2>1 DEF RaceInv, FilesOK, OpOK, AloneInv
  <2>3. pc \in {"verified", "call", "done"} => Held(Worker)
    BY <1>1, WorkerHolds
  <2>4. VerifiedInv'
    BY <2>1, <2>3 DEF RaceInv, VerifiedInv, Held
  <2> QED
    BY <2>2, <2>4
<1>2. ASSUME NEW d \in Dirs, NEW e \in Dirs, NEW l \in Leaves, NEW k \in Leaves, RenameFile(d, l, e, k)
      PROVE  Q
  <2>1. /\ entry' = [f \in Dirs |-> [n \in Leaves |->
                        CASE <<f, n>> = <<d, l>> -> None
                          [] <<f, n>> = <<e, k>> -> entry[d][l]
                          [] OTHER -> entry[f][n]]]
        /\ disturbed' = (disturbed \/ (Verified /\ dir[dirh[Worker]] \in {d, e}))
        /\ moved' = (pc # "idle")
        /\ UNCHANGED <<at, locals, dir, fpath, got, opvars>>
    BY <1>2 DEF RenameFile, handles
  <2>2. \A f \in Dirs, n \in Leaves : f \notin {d, e} => entry'[f][n] = entry[f][n]
    BY <2>1
  <2>3. entry' \in [Dirs -> [Leaves -> Others \cup {Mine, None}]]
    BY <2>1 DEF RaceInv, FilesOK
  <2>4. FilesOK' /\ OpOK' /\ AloneInv'
    BY <2>1, <2>3 DEF RaceInv, FilesOK, OpOK, AloneInv
  <2>5. ASSUME Verified, ~disturbed' PROVE entry'[dir[dirh[Worker]]][req[2]] = Mine
    <3>1. dir[dirh[Worker]] \in Dirs /\ dir[dirh[Worker]] \notin {d, e}
      BY <2>1, <2>5 DEF RaceInv, VerifiedInv, CacheInv, OpenInv, Opened, Working
    <3>2. req[2] \in Leaves /\ entry[dir[dirh[Worker]]][req[2]] = Mine
      BY <2>1, <2>5 DEF RaceInv, VerifiedInv
    <3> QED
      BY <2>2, <3>1, <3>2
  <2>6. VerifiedInv'
    BY <2>1, <2>5 DEF RaceInv, VerifiedInv, locals
  <2> QED
    BY <2>4, <2>6
<1>3. ASSUME NEW r \in Refreshers, RefreshRead(r) PROVE Q
  BY <1>3, WhereMineType DEF RefreshRead, cachevars, handles, locals, RaceInv, FilesOK, OpOK, AloneInv, VerifiedInv
<1>4. ASSUME NEW r \in Refreshers, RefreshSet(r) PROVE Q
  BY <1>4 DEF RefreshSet, cachevars, handles, locals, RaceInv, FilesOK, OpOK, AloneInv, VerifiedInv
<1>5. ASSUME NEW o \in Operations, Begin(o) PROVE Q
  BY <1>5 DEF Begin, cachevars, handles, locals, RaceInv, FilesOK, OpOK, PC, AloneInv, VerifiedInv
<1>6. ASSUME PathRead PROVE Q
  BY <1>6, WhereMineType DEF PathRead, cachevars, handles, locals, RaceInv, FilesOK, OpOK, PC, AloneInv, VerifiedInv
<1>7. ASSUME Container PROVE Q
  <2>1. /\ pc = "verify" /\ pc' = "container" /\ fpath' = req /\ req[1] # None
        /\ UNCHANGED <<entry, got, op, tries, req, leaf, hit, disturbed, moved>>
    BY <1>7 DEF Container
  <2>2. req \in Names /\ req[2] \in Leaves
    <3>1. req \in Names
      BY DEF RaceInv, OpOK
    <3> QED
      BY <2>1, <3>1, NameParts
  <2>3. FilesOK' /\ OpOK'
    BY <2>1, <2>2 DEF RaceInv, FilesOK, OpOK, PC
  <2>4. AloneInv' /\ VerifiedInv'
    BY <2>1, <2>2 DEF RaceInv, AloneInv, VerifiedInv
  <2> QED
    BY <2>3, <2>4
<1>8. ASSUME NoContainer PROVE Q
  <2>1. /\ fpath' \in {fpath, req} /\ UNCHANGED <<cachevars, entry, got>>
        /\ pc \in {"verify", "container"}
    BY <1>8 DEF NoContainer
  <2>2. CASE Retry
    BY <2>1, <2>2 DEF Retry, RaceInv, FilesOK, OpOK, PC, AloneInv, VerifiedInv
  <2>3. CASE GiveUp
    <3>1. fpath' \in Names
      BY <2>1 DEF RaceInv, FilesOK, OpOK
    <3> QED
      BY <2>1, <2>3, <3>1, EndInv DEF GiveUp
  <2> QED
    BY <1>8, <2>2, <2>3 DEF NoContainer
<1>9. ASSUME Verify PROVE Q
  BY <1>9 DEF Verify, Matches, cachevars, handles, locals, RaceInv, FilesOK, OpOK, PC, AloneInv, VerifiedInv
<1>10. ASSUME Mismatch PROVE Q
  <2>1. UNCHANGED files /\ pc = "container"
    BY <1>10 DEF Mismatch
  <2>2. CASE Retry
    BY <2>1, <2>2 DEF Retry, RaceInv, FilesOK, OpOK, PC, AloneInv, VerifiedInv
  <2>3. CASE GiveUp
    <3>1. fpath' \in Names
      BY <2>1 DEF RaceInv, FilesOK
    <3> QED
      BY <2>1, <2>3, <3>1, EndInv DEF GiveUp
  <2> QED
    BY <1>10, <2>2, <2>3 DEF Mismatch
<1>11. ASSUME ReadLeaf PROVE Q
  <2>1. /\ pc = "verified" /\ pc' = "call" /\ leaf' = fpath[2]
        /\ UNCHANGED <<cachevars, files, op, tries, req, hit, disturbed, moved>>
    BY <1>11 DEF ReadLeaf
  <2>2. fpath \in Names /\ leaf' \in Leaves \cup {None}
    <3>1. fpath \in Names
      BY DEF RaceInv, FilesOK
    <3> QED
      BY <2>1, <3>1, NameParts
  <2>3. FilesOK' /\ OpOK'
    BY <2>1, <2>2 DEF RaceInv, FilesOK, OpOK, PC
  <2>4. AloneInv'
    BY <2>1 DEF RaceInv, AloneInv
  <2>5. VerifiedInv'
    BY <2>1 DEF cachevars, handles, locals, RaceInv, VerifiedInv
  <2> QED
    BY <2>3, <2>4, <2>5
<1>12. ASSUME Fails PROVE Q
  <2>1. End /\ UNCHANGED files
    BY <1>12 DEF Fails
  <2>2. fpath' \in Names
    BY <2>1 DEF RaceInv, FilesOK
  <2> QED
    BY <2>1, <2>2, EndInv
<1>13. ASSUME Call PROVE Q
  <2> DEFINE d == dir[dirh[Worker]]
  <2>1. /\ pc = "call" /\ leaf # None /\ Target(d) = entry[d][leaf] /\ hit' = Target(d) /\ pc' = "done"
        /\ UNCHANGED <<cachevars, fpath, got, op, tries, leaf, disturbed, moved>>
    BY <1>13 DEF Call, Target
  <2>2. d \in Dirs /\ leaf \in Leaves
    BY <2>1 DEF RaceInv, VerifiedInv, OpOK, CacheInv, OpenInv, Opened, Working
  <2>3. Target(d) \in Others \cup {Mine, None}
    BY <2>1, <2>2 DEF RaceInv, FilesOK
  <2>4. /\ entry' \in [Dirs -> [Leaves -> Others \cup {Mine, None}]]
        /\ req' \in Names
    <3>1. CASE entry' = [entry EXCEPT ![d][leaf] = None] /\ req' = NoName
      BY <3>1 DEF RaceInv, FilesOK
    <3>2. ASSUME NEW e \in Dirs, NEW k \in Leaves,
                 entry' = [f \in Dirs |-> [n \in Leaves |->
                             CASE <<f, n>> = <<d, leaf>> -> None
                               [] <<f, n>> = <<e, k>> -> Target(d)
                               [] OTHER -> entry[f][n]]],
                 req' = <<where[e], k>>
          PROVE  entry' \in [Dirs -> [Leaves -> Others \cup {Mine, None}]] /\ req' \in Names
      <4>1. where[e] \in Paths \cup {None}
        BY DEF RaceInv, CacheInv, CacheTypeOK
      <4> HIDE DEF d
      <4>2. entry' \in [Dirs -> [Leaves -> Others \cup {Mine, None}]]
        BY <2>3, <3>2 DEF RaceInv, FilesOK
      <4> QED
        BY <3>2, <4>1, <4>2
    <3>3. CASE UNCHANGED <<entry, req>>
      BY <3>3 DEF RaceInv, FilesOK, OpOK
    <3> QED
      BY <1>13, <3>1, <3>2, <3>3 DEF Call
  <2>5. Alone /\ ~disturbed => hit' = Mine
    BY <2>1 DEF RaceInv, AloneInv, VerifiedInv
  <2>6. at'[Worker] = "returned"
    BY <2>1 DEF RaceInv, VerifiedInv, cachevars
  <2> HIDE DEF d
  <2>7. FilesOK' /\ OpOK'
    BY <2>1, <2>3, <2>4 DEF RaceInv, FilesOK, OpOK, PC
  <2>8. AloneInv' /\ VerifiedInv'
    BY <2>1, <2>5, <2>6 DEF RaceInv, AloneInv, VerifiedInv
  <2> QED
    BY <2>7, <2>8
<1>14. ASSUME Done PROVE Q
  <2>1. End /\ UNCHANGED <<entry, got>> /\ fpath' \in {fpath, req}
    BY <1>14 DEF Done
  <2>2. fpath' \in Names
    BY <2>1 DEF RaceInv, FilesOK, OpOK
  <2> QED
    BY <2>1, <2>2, EndInv
<1>15. ASSUME CacheAlone PROVE Q
  <2>1. UNCHANGED <<files, opvars, disturbed, moved>>
    BY <1>15 DEF CacheAlone
  <2>2. FilesOK' /\ OpOK' /\ AloneInv'
    BY <2>1 DEF RaceInv, FilesOK, OpOK, AloneInv
  <2>3. pc \in {"verified", "call", "done"} => Held(Worker)
    BY <1>15, WorkerHolds
  <2>4. VerifiedInv'
    BY <2>1, <2>3 DEF RaceInv, VerifiedInv, Held
  <2> QED
    BY <2>2, <2>4
<1>16. ASSUME UNCHANGED racevars PROVE Q
  BY <1>16 DEF racevars, cachevars, handles, locals, RaceInv, FilesOK, OpOK, AloneInv, VerifiedInv
<1> HIDE DEF Q
<1>17. Q
  BY <1>1, <1>2, <1>3, <1>4, <1>5, <1>6, <1>7, <1>8, <1>9, <1>10, <1>11, <1>12, <1>13, <1>14, <1>15, <1>16
     DEF RaceNext, CacheAlone
<1> QED
  BY <1>17, CacheSteps DEF Q, RaceInv

(***************************************************************************)
(* Types, for whatever refreshes of the handle's path run beside it.       *)
(***************************************************************************)
THEOREM RaceTypes == RaceSpec => [](RaceTypeOK /\ OpenInv)
<1>1. RaceInv => RaceTypeOK /\ OpenInv
  BY DEF RaceInv, CacheInv, FilesOK, OpOK, RaceTypeOK
<1> QED
  BY RaceInitInv, RaceStep, <1>1, PTL DEF RaceSpec

(***************************************************************************)
(* unlink(), atomic_relink() and link() are race free up to the containing *)
(* directory if no path(true) of the handle overlaps them: RaceFree for    *)
(* any number of threads in the cache, renames and tries.                  *)
(***************************************************************************)
THEOREM RaceFreeAlone == ASSUME Alone PROVE RaceSpec => []RaceFree
<1>1. RaceInv => RaceFree
  BY DEF RaceInv, VerifiedInv, RaceFree
<1> QED
  BY RaceInitInv, RaceStep, <1>1, PTL DEF RaceSpec

-----------------------------------------------------------------------------
(***************************************************************************)
(* While nothing is renamed, what path(true) read stays true, and what was *)
(* at the path during the search still is.                                 *)
(***************************************************************************)
OutrunInv ==
  /\ pc \in {"verify", "container"} /\ ~moved => req = WhereMine
  /\ pc = "container" =>
       /\ req[1] # None
       /\ at[Worker] # "idle" => request[Worker] = req[1]
       /\ ~moved => \A d \in during[Worker] : where[d] = request[Worker]
       /\ ~moved /\ at[Worker] = "idle" => \A d \in Dirs : where[d] # req[1]

SearchInv == RaceInv /\ Apart /\ FindInv

LEMMA SearchInitInv == RaceInit => SearchInv /\ OutrunInv
<1> SUFFICES ASSUME RaceInit PROVE SearchInv /\ OutrunInv
  OBVIOUS
<1>1. RaceInv /\ FindInv
  BY RaceInitInv, FindInitInv DEF RaceInit
<1>2. Apart /\ OutrunInv
  BY DEF RaceInit, CacheInit, Apart, OutrunInv
<1> QED
  BY <1>1, <1>2 DEF SearchInv

LEMMA SearchStep ==
  ASSUME SearchInv, [RaceNext]_racevars
  PROVE  SearchInv'
<1>1. RaceInv'
  BY RaceStep DEF SearchInv
<1>2. CASE [CacheNext]_cachevars
  BY <1>1, <1>2, ApartStep, FindStep DEF SearchInv, RaceInv
<1>3. CASE UNCHANGED <<where, handles, dirhcache, dircachelock, at, locals, during, raced, aliased>>
  <2>1. Apart' /\ FindInv'
    BY <1>3 DEF handles, locals, SearchInv, Apart, FindInv, OpenedInv, FiledInv, CallInv, CallOf,
       Clean, Sets, Seen, Due
  <2> QED
    BY <1>1, <2>1 DEF SearchInv
<1> QED
  BY <1>2, <1>3, CacheOrNot DEF SearchInv

LEMMA WhereMineIs ==
  ASSUME WhereMine[1] # None
  PROVE  \E d \in Dirs, l \in Leaves : entry[d][l] = Mine /\ WhereMine = <<where[d], l>>
<1> DEFINE places == {x \in Dirs \X Leaves : entry[x[1]][x[2]] = Mine}
           x == CHOOSE x \in places : TRUE
<1>1. places # {}
  BY NameFacts DEF WhereMine
<1>2. x \in places
  BY <1>1
<1>3. x \in Dirs \X Leaves /\ entry[x[1]][x[2]] = Mine
  BY <1>2
<1>4. WhereMine = <<where[x[1]], x[2]>>
  BY <1>1 DEF WhereMine
<1> HIDE DEF x
<1> QED
  BY <1>3, <1>4

LEMMA WhereMineStays ==
  ASSUME UNCHANGED <<where, entry>>
  PROVE  WhereMine' = WhereMine
BY DEF WhereMine

\* The search goes on with what it looks for until it has returned or thrown.
LEMMA SearchGoesOn ==
  ASSUME CacheInv, OutrunInv, pc = "container", CacheAlone
  PROVE  \/ Stays(Worker)
         \/ /\ at'[Worker] # "idle" /\ at[Worker] # "idle"
            /\ request'[Worker] = request[Worker] /\ during'[Worker] = during[Worker]
         \/ /\ at'[Worker] = "idle" /\ at[Worker] # "idle" /\ during'[Worker] = {}
            /\ \A d \in Dirs : where[d] # request[Worker]
<1> DEFINE w == Worker
<1>0. w \in Threads
  BY RaceAssumption
<1>1. ASSUME NEW h \in DirHandles, Drop(h) PROVE Stays(w)
  BY <1>1 DEF Drop, Stays
<1>2. ASSUME NEW t \in Threads \ {w}, Acts(t) PROVE Stays(w)
  BY <1>0, <1>2, OthersSame
<1>3. ASSUME CacheStep(w) PROVE at[w] # "idle"
  BY <1>3 DEF CacheStep, Unchanged, Changed, UpdatePath, Updated, RefreshNext, Found, NotFound, OpenDir,
     Throw, AddItself
<1>4. ASSUME CacheStep(w), ~Throw(w)
      PROVE  at'[w] # "idle" /\ request'[w] = request[w] /\ during'[w] = during[w]
  <2>1. request[w] # None
    BY <1>3, <1>4 DEF OutrunInv
  <2> QED
    BY <1>0, <1>4, <2>1 DEF CacheStep, Unchanged, Changed, UpdatePath, Updated, RefreshNext, Readlink, Found,
       NotFound, OpenDir, AddItself, Refreshed, Goto, locals, CacheInv, CacheTypeOK
<1>5. ASSUME Throw(w)
      PROVE  at'[w] = "idle" /\ during'[w] = {} /\ \A d \in Dirs : where[d] # request[w]
  BY <1>0, <1>5 DEF Throw, Return, Goto, CacheInv, CacheTypeOK
<1>6. (\E h \in DirHandles : Drop(h)) \/ CacheStep(w) \/ \E t \in Threads \ {w} : Acts(t)
  BY <1>0 DEF CacheAlone, Acts
<1> QED
  BY <1>1, <1>2, <1>3, <1>4, <1>5, <1>6

LEMMA OutrunStep ==
  ASSUME SearchInv, OutrunInv, [RaceNext]_racevars
  PROVE  OutrunInv'
<1> USE DEF files, opvars
<1>0. Worker \in Threads /\ CacheInv
  BY RaceAssumption DEF SearchInv, RaceInv
<1>1. ASSUME UNCHANGED <<opvars, at, request>>, moved' = (pc # "idle") PROVE OutrunInv'
  BY <1>1 DEF OutrunInv
<1>2. ASSUME NEW d \in Dirs, NEW p \in Paths \cup {None}, RenameDir(d, p) PROVE OutrunInv'
  BY <1>1, <1>2 DEF RenameDir, Rename, locals
<1>3. ASSUME NEW d \in Dirs, NEW e \in Dirs, NEW l \in Leaves, NEW k \in Leaves, RenameFile(d, l, e, k)
      PROVE  OutrunInv'
  BY <1>1, <1>3 DEF RenameFile, locals
<1>4. ASSUME NEW r \in Refreshers, RefreshRead(r) \/ RefreshSet(r) PROVE OutrunInv'
  <2>1. UNCHANGED <<cachevars, entry, opvars, moved>>
    BY <1>4 DEF RefreshRead, RefreshSet
  <2>2. WhereMine' = WhereMine
    BY <2>1, WhereMineStays DEF cachevars
  <2> QED
    BY <2>1, <2>2 DEF cachevars, locals, OutrunInv
<1>5. ASSUME PathRead PROVE OutrunInv'
  <2>1. WhereMine' = WhereMine
    BY <1>5, WhereMineStays DEF PathRead, cachevars
  <2> QED
    BY <1>5, <2>1 DEF PathRead, OutrunInv
<1>6. ASSUME Container PROVE OutrunInv'
  <2>1. /\ UNCHANGED <<where, entry, req, moved>> /\ pc = "verify" /\ req[1] # None
        /\ at'[Worker] = "refresh" /\ request'[Worker] = req[1]
        /\ during'[Worker] = {d \in Dirs : where[d] = req[1]}
    BY <1>0, <1>6 DEF Container, GetHandleToDir, Goto, CacheInv, CacheTypeOK
  <2>2. WhereMine' = WhereMine
    BY <2>1, WhereMineStays
  <2> QED
    BY <2>1, <2>2 DEF OutrunInv
<1>7. ASSUME pc' \notin {"verify", "container"} PROVE OutrunInv'
  BY <1>7 DEF OutrunInv
<1>8. ASSUME (\E o \in Operations : Begin(o)) \/ NoContainer \/ Mismatch \/ Verify \/ ReadLeaf \/ Fails \/ Call \/ Done
      PROVE  OutrunInv'
  BY <1>7, <1>8 DEF Begin, NoContainer, Mismatch, Retry, GiveUp, End, Verify, ReadLeaf, Fails, Call, Done
<1>9. ASSUME CacheAlone PROVE OutrunInv'
  <2>1. UNCHANGED <<entry, pc, req, moved>>
    BY <1>9 DEF CacheAlone
  <2>2. where' = where
    BY <1>0, <1>9, OthersSame DEF CacheAlone, Acts, Drop
  <2>3. WhereMine' = WhereMine
    BY <2>1, <2>2, WhereMineStays
  <2>4. CASE pc # "container"
    BY <2>1, <2>3, <2>4 DEF OutrunInv
  <2>5. CASE pc = "container"
    BY <1>0, <1>9, <2>1, <2>2, <2>3, <2>5, SearchGoesOn DEF OutrunInv, Stays
  <2> QED
    BY <2>4, <2>5
<1>10. ASSUME UNCHANGED racevars PROVE OutrunInv'
  <2>1. WhereMine' = WhereMine
    BY <1>10, WhereMineStays DEF racevars, cachevars
  <2> QED
    BY <1>10, <2>1 DEF racevars, cachevars, locals, OutrunInv
<1> QED
  BY <1>2, <1>3, <1>4, <1>5, <1>6, <1>8, <1>9, <1>10 DEF RaceNext, CacheAlone

\* What is found of a file that nobody has renamed since is the directory it is in.
LEMMA FoundWhereMine ==
  ASSUME SearchInv, OutrunInv, NoContainer \/ Mismatch, ~moved, Clean(dirh[Worker])
  PROVE  WhereMine[1] = None
<1> SUFFICES ASSUME WhereMine[1] # None PROVE FALSE
  OBVIOUS
<1>1. PICK d \in Dirs, l \in Leaves : entry[d][l] = Mine /\ WhereMine = <<where[d], l>>
  BY WhereMineIs
<1>2. pc \in {"verify", "container"} /\ req = <<where[d], l>> /\ where[d] # None
  BY <1>1 DEF NoContainer, Mismatch, OutrunInv
<1>3. CASE pc = "verify"
  BY <1>2, <1>3 DEF NoContainer, Mismatch
<1>4. CASE pc = "container" /\ at[Worker] = "idle"
  BY <1>2, <1>4 DEF OutrunInv
<1>5. CASE pc = "container" /\ at[Worker] # "idle"
  <2> DEFINE e == dir[dirh[Worker]]
  <2>1. at[Worker] = "returned" /\ ~Matches(e, req[2]) /\ Worker \in Threads
    BY <1>5, RaceAssumption DEF NoContainer, Mismatch
  <2>2. e \in during[Worker] /\ e \in Dirs
    BY <2>1 DEF SearchInv, RaceInv, CacheInv, OpenInv, Opened, Working, FindInv, CallInv, CallOf, Seen
  <2>3. where[e] = where[d]
    BY <1>2, <1>5, <2>2 DEF OutrunInv
  <2>4. e = d
    BY <1>2, <2>2, <2>3 DEF SearchInv, Apart
  <2> QED
    BY <1>1, <1>2, <2>1, <2>4 DEF Matches
<1> QED
  BY <1>2, <1>3, <1>4, <1>5

(***************************************************************************)
(* GivesUpOnlyIfOutrun, for any number of threads in the cache, tries and  *)
(* renames: an operation gives up, with ENOENT, only if others renamed     *)
(* something during it, its file has no name that this process can reach,  *)
(* or the cache gave it a handle that CacheCorrect excepts.                *)
(***************************************************************************)
THEOREM GivesUpHonestly == RaceSpec => GivesUpOnlyIfOutrun
<1>1. SearchInv /\ OutrunInv /\ [RaceNext]_racevars => (SearchInv /\ OutrunInv)'
  BY SearchStep, OutrunStep
<1>2. SearchInv /\ OutrunInv =>
        [NoContainer \/ Mismatch =>
           \/ pc' # "idle" \/ moved \/ WhereMine[1] = None
           \/ dirh[Worker] \in raced \cup aliased]_racevars
  BY FoundWhereMine DEF Clean
<1> QED
  BY SearchInitInv, <1>1, <1>2, PTL DEF RaceSpec, GivesUpOnlyIfOutrun
=============================================================================
