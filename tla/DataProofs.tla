----------------------------- MODULE DataProofs -----------------------------
(***************************************************************************)
(* Proofs about FileData and Enumerate, for any number of threads, users,  *)
(* blocks, buffers, batches and entries.                                   *)
(*                                                                         *)
(* Both compute with recursive functions: the bytes of the first entries   *)
(* of a directory, and the extents that have been merged so far.  What     *)
(* these are for every input follows from the least element that any set   *)
(* of natural numbers has (LeastNat), here of counterexamples.             *)
(***************************************************************************)
EXTENDS FileData, Enumerate, WellFoundedInduction, TLAPS

LessNat == {x \in Nat \X Nat : x[1] < x[2]}

LEMMA LeastNat ==
  ASSUME NEW T \in SUBSET Nat, T # {}
  PROVE  \E m \in T : \A k \in T : m <= k
<1>1. IsWellFoundedOn(LessNat, Nat)
  BY NatLessThanWellFounded DEF OpToRel, LessNat
<1>2. PICK m \in T : \A k \in T : <<k, m>> \notin LessNat
  BY <1>1, WFMin
<1>3. \A k \in T : ~(k < m)
  BY <1>2 DEF LessNat
<1> QED
  BY <1>3

\* g begins with b, and goes on by step, which depends on the place too.
Stepwise(g, b, step, top) == g[0] = b /\ \A i \in 1..top : g[i] = step[<<i, g[i - 1]>>]

\* Such a g exists.
LEMMA RecursionExists ==
  ASSUME NEW S, NEW b \in S, NEW step \in [Nat \X S -> S], NEW top \in Nat
  PROVE  \E g \in [0..top -> S] : Stepwise(g, b, step, top)
<1> DEFINE Good(g, k) == g[0] = b /\ \A i \in 1..k : g[i] = step[<<i, g[i - 1]>>]
           T == {k \in Nat : ~\E g \in [0..k -> S] : Good(g, k)}
<1> SUFFICES ASSUME top \in T PROVE FALSE
  BY DEF Stepwise
<1>1. PICK m \in T : \A k \in T : m <= k
  <2>1. T \in SUBSET Nat
    OBVIOUS
  <2> HIDE DEF T
  <2> QED
    BY <2>1, LeastNat
<1>2. CASE m = 0
  <2> DEFINE g == [i \in 0..0 |-> b]
  <2>1. g \in [0..0 -> S] /\ g[0] = b /\ 1..0 = {}
    OBVIOUS
  <2>2. m \in T
    BY <1>1
  <2>3. ~\E f \in [0..0 -> S] : Good(f, 0)
    BY <1>2, <2>2
  <2> HIDE DEF g
  <2> QED
    BY <2>1, <2>3
<1>3. CASE m # 0
  <2>1. m \in Nat /\ m - 1 \in Nat /\ m - 1 \notin T
    <3>1. m \in Nat /\ \A k \in T : k \in Nat /\ m <= k
      BY <1>1
    <3> HIDE DEF T
    <3> QED
      BY <1>3, <3>1
  <2>2. PICK g \in [0..(m - 1) -> S] : Good(g, m - 1)
    BY <2>1
  <2> DEFINE f == [i \in 0..m |-> IF i = m THEN step[<<m, g[m - 1]>>] ELSE g[i]]
  <2>3. g[m - 1] \in S /\ step[<<m, g[m - 1]>>] \in S
    BY <2>1
  <2>4. f \in [0..m -> S]
    BY <2>1, <2>3
  <2>5. \A i \in 0..(m - 1) : f[i] = g[i]
    BY <2>1
  <2>6. f[m] = step[<<m, g[m - 1]>>]
    BY <2>1
  <2> HIDE DEF f
  <2>7. f[0] = b
    BY <2>1, <2>2, <2>5
  <2>8. ASSUME NEW i \in 1..m PROVE f[i] = step[<<i, f[i - 1]>>]
    <3>1. CASE i = m
      <4>1. f[m - 1] = g[m - 1]
        BY <2>1, <2>5
      <4> QED
        BY <2>6, <3>1, <4>1
    <3>2. CASE i # m
      <4>1. i \in 1..(m - 1) /\ i \in 0..(m - 1) /\ i - 1 \in 0..(m - 1)
        BY <2>1, <3>2
      <4>2. g[i] = step[<<i, g[i - 1]>>]
        BY <2>2, <4>1
      <4> QED
        BY <2>5, <4>1, <4>2
    <3> QED
      BY <3>1, <3>2
  <2> QED
    BY <1>1, <2>4, <2>7, <2>8
<1> QED
  BY <1>2, <1>3

\* A finite set of natural numbers, up to n, has a least and a greatest element.
LEMMA MaxIs ==
  ASSUME NEW top \in Nat, NEW S \in SUBSET (0..top), S # {}
  PROVE  Max(S) \in S /\ \A x \in S : x <= Max(S)
<1> DEFINE T == {top - x : x \in S}
<1>1. T \in SUBSET Nat /\ T # {}
  <2>1. \A x \in S : top - x \in Nat
    OBVIOUS
  <2> QED
    BY <2>1
<1>2. PICK m \in T : \A k \in T : m <= k
  <2> HIDE DEF T
  <2> QED
    BY <1>1, LeastNat
<1>3. PICK y \in S : m = top - y
  BY <1>2
<1>4. \A x \in S : x <= y
  BY <1>2, <1>3
<1> QED
  BY <1>4 DEF Max

LEMMA MinIs ==
  ASSUME NEW S \in SUBSET Nat, S # {}
  PROVE  Min(S) \in S /\ \A x \in S : Min(S) <= x
BY LeastNat DEF Min

-----------------------------------------------------------------------------
(***************************************************************************)
(* Enumerate: the bytes of the entries at the first places.                *)
(***************************************************************************)
LEMMA UptoIs ==
  ASSUME reclen \in [Place -> 0..Full]
  PROVE  /\ Upto \in [0..Places -> Nat]
         /\ Upto[0] = 0
         /\ \A p \in Place : Upto[p] = Upto[p - 1] + reclen[p]
<1> DEFINE step == [x \in Nat \X Nat |->
                     x[2] + (IF x[1] \in Place THEN reclen[x[1]] ELSE 0)]
           F(g) == [p \in 0..Places |-> IF p = 0 THEN 0 ELSE g[p - 1] + reclen[p]]
           J == CHOOSE g : g = F(g)
<1>1. Places \in Nat /\ Full \in Nat /\ Place = 1..Places
  BY EnumerateAssumption DEF Place
<1>2. step \in [Nat \X Nat -> Nat]
  BY <1>1
<1>3. PICK g \in [0..Places -> Nat] : Stepwise(g, 0, step, Places)
  <2> HIDE DEF step
  <2>1. 0 \in Nat
    OBVIOUS
  <2> QED
    BY <1>1, <1>2, <2>1, RecursionExists, Zenon
<1>4. \A i \in 1..Places : g[i] = g[i - 1] + reclen[i]
  <2> SUFFICES ASSUME NEW i \in 1..Places PROVE g[i] = g[i - 1] + reclen[i]
    OBVIOUS
  <2>1. i \in Nat /\ i - 1 \in 0..Places /\ g[i - 1] \in Nat /\ i \in Place
    BY <1>1
  <2>2. step[<<i, g[i - 1]>>] = g[i - 1] + reclen[i]
    BY <2>1
  <2> QED
    BY <1>3, <2>2 DEF Stepwise
<1>5. g = F(g)
  BY <1>1, <1>3, <1>4 DEF Stepwise
<1>6. J = F(J)
  <2> HIDE DEF F
  <2> QED
    BY <1>5
<1>7. Upto = J
  BY DEF Upto
<1> DEFINE Good(k) == J[k] \in Nat
           T == {k \in 0..Places : ~Good(k)}
<1>8. T = {}
  <2> SUFFICES ASSUME T # {} PROVE FALSE
    OBVIOUS
  <2>1. T \in SUBSET Nat
    OBVIOUS
  <2>2. PICK m \in T : \A k \in T : m <= k
    <3> HIDE DEF T
    <3> QED
      BY <2>1, LeastNat
  <2> HIDE DEF J
  <2>3. m # 0
    BY <1>1, <1>6
  <2>4. m \in Place /\ m - 1 \in 0..Places /\ J[m - 1] \in Nat
    BY <1>1, <2>2, <2>3
  <2>5. J[m] = J[m - 1] + reclen[m]
    BY <1>1, <1>6, <2>4
  <2> QED
    BY <1>1, <2>2, <2>4, <2>5
<1>9. /\ J = [p \in 0..Places |-> J[p]]
      /\ J[0] = 0
      /\ \A p \in Place : J[p] = J[p - 1] + reclen[p]
  <2> HIDE DEF J
  <2> QED
    BY <1>1, <1>6
<1>10. \A p \in 0..Places : J[p] \in Nat
  BY <1>8
<1>11. J \in [0..Places -> Nat]
  <2> HIDE DEF J
  <2> QED
    BY <1>9, <1>10
<1> QED
  BY <1>7, <1>9, <1>11, Zenon

\* The more places, the more bytes, by those of the last at least.
LEMMA UptoGrows ==
  ASSUME reclen \in [Place -> 0..Full], NEW a \in 0..Places, NEW b \in 0..Places, a <= b
  PROVE  /\ Upto[a] <= Upto[b]
         /\ a < b => Upto[a] + reclen[b] <= Upto[b]
         /\ (\A p \in (a + 1)..b : reclen[p] = 0) => Upto[a] = Upto[b]
<1> DEFINE Good(k) == /\ Upto[a] <= Upto[k]
                      /\ a < k => Upto[a] + reclen[k] <= Upto[k]
                      /\ (\A p \in (a + 1)..k : reclen[p] = 0) => Upto[a] = Upto[k]
           T == {k \in a..Places : ~Good(k)}
<1>1. Places \in Nat /\ Place = 1..Places /\ a \in Nat
  BY EnumerateAssumption DEF Place
<1>2. Upto \in [0..Places -> Nat] /\ \A p \in Place : Upto[p] = Upto[p - 1] + reclen[p]
  BY UptoIs
<1>3. T = {}
  <2> SUFFICES ASSUME T # {} PROVE FALSE
    OBVIOUS
  <2>1. T \in SUBSET Nat
    BY <1>1
  <2>2. PICK m \in T : \A k \in T : m <= k
    <3> HIDE DEF T
    <3> QED
      BY <2>1, LeastNat
  <2>3. m \in a..Places /\ ~Good(m)
    BY <2>2
  <2>4. m # a
    BY <1>1, <1>2, <2>3
  <2>5. m \in Place /\ m - 1 \in a..Places /\ Good(m - 1)
    <3>1. m \in Place /\ m - 1 \in a..Places /\ ~(m <= m - 1)
      BY <1>1, <2>3, <2>4
    <3>2. m - 1 \notin T
      <4> HIDE DEF T
      <4> QED
        BY <2>2, <3>1
    <3> QED
      BY <3>1, <3>2
  <2>6. Upto[m] = Upto[m - 1] + reclen[m] /\ reclen[m] \in Nat
    <3>1. reclen[m] \in 0..Full /\ Full \in Nat
      BY <2>5, EnumerateAssumption
    <3> HIDE DEF Good, T
    <3> QED
      BY <1>2, <2>5, <3>1
  <2>7. Upto[m] \in Nat /\ Upto[m - 1] \in Nat /\ Upto[a] \in Nat
    BY <1>1, <1>2, <2>5
  <2>8. ASSUME \A p \in (a + 1)..m : reclen[p] = 0 PROVE Upto[a] = Upto[m]
    <3>1. \A p \in (a + 1)..(m - 1) : reclen[p] = 0
      BY <1>1, <2>3, <2>8
    <3>2. reclen[m] = 0
      BY <1>1, <2>3, <2>4, <2>8
    <3> QED
      BY <2>5, <2>6, <2>7, <3>1, <3>2
  <2>9. Upto[a] <= Upto[m] /\ Upto[a] + reclen[m] <= Upto[m]
    BY <2>5, <2>6, <2>7
  <2> QED
    BY <2>3, <2>8, <2>9
<1>4. b \in a..Places
  BY <1>1
<1> QED
  BY <1>3, <1>4

\* The next entry after a place begins where those before the place end.
LEMMA NextEntry ==
  ASSUME reclen \in [Place -> 0..Full], NEW a \in 0..Places, NEW p \in Present, p > a
  PROVE  \E m \in Present : m > a /\ Upto[m] = Upto[a] + reclen[m]
<1> DEFINE T == {q \in Present : q > a}
<1>1. Places \in Nat /\ Place = 1..Places /\ a \in Nat
  BY EnumerateAssumption DEF Place
<1>2. PICK m \in T : \A k \in T : m <= k
  <2>1. T \in SUBSET Nat /\ p \in T
    BY <1>1 DEF Present
  <2> HIDE DEF T
  <2> QED
    BY <2>1, LeastNat
<1>3. m \in Place /\ m - 1 \in 0..Places /\ a <= m - 1 /\ m > a /\ m \in Present
  BY <1>1, <1>2 DEF Present
<1>4. \A q \in (a + 1)..(m - 1) : reclen[q] = 0
  <2> SUFFICES ASSUME NEW q \in (a + 1)..(m - 1) PROVE reclen[q] = 0
    OBVIOUS
  <2>1. q \in Place /\ q > a /\ q < m
    BY <1>1, <1>3
  <2>2. q \notin Present
    BY <1>1, <1>2, <2>1, <1>3
  <2>3. reclen[q] \in 0..Full
    BY <2>1
  <2> QED
    BY <2>1, <2>2, <2>3, EnumerateAssumption DEF Present
<1>5. Upto[a] = Upto[m - 1]
  BY <1>3, <1>4, UptoGrows
<1>6. Upto[m] = Upto[m - 1] + reclen[m]
  BY <1>3, UptoIs
<1> QED
  BY <1>3, <1>5, <1>6

\* Where a call leaves the position: at the last entry that it returns, if any.
LEMMA LastIs ==
  ASSUME EnumTypeOK, NEW room
  PROVE  /\ Last(Returned(room)) \in {offset} \cup Returned(room)
         /\ Last(Returned(room)) \in 0..Places
         /\ offset <= Last(Returned(room))
         /\ \A p \in Returned(room) : p <= Last(Returned(room))
<1> DEFINE found == Returned(room)
           S == {offset} \cup found
<1>1. Places \in Nat /\ offset \in 0..Places /\ found \subseteq 1..Places
  BY EnumerateAssumption DEF Returned, Present, Place, EnumTypeOK
<1>2. S \in SUBSET (0..Places) /\ S # {}
  BY <1>1
<1>3. Max(S) \in S /\ \A x \in S : x <= Max(S)
  <2> HIDE DEF S
  <2> QED
    BY <1>1, <1>2, MaxIs
<1> QED
  BY <1>2, <1>3 DEF Last

\* What a call passes by, it returns.
LEMMA NoneSkipped ==
  ASSUME EnumTypeOK, NEW room \in Nat, NEW p \in Present, p > offset,
         p <= Last(Returned(room))
  PROVE  p \in Returned(room)
<1> DEFINE l == Last(Returned(room))
<1>1. l \in Returned(room) /\ l \in 0..Places /\ p \in 0..Places /\ offset \in 0..Places
  BY LastIs, EnumerateAssumption DEF EnumTypeOK, Present, Place
<1>2. Upto[l] - Upto[offset] <= room
  BY <1>1 DEF Returned
<1>3. reclen \in [Place -> 0..Full]
  BY DEF EnumTypeOK
<1>4. Upto[p] <= Upto[l]
  BY <1>1, <1>3, UptoGrows
<1>5. Upto[p] \in Nat /\ Upto[l] \in Nat /\ Upto[offset] \in Nat
  BY <1>1, <1>3, UptoIs
<1> QED
  BY <1>2, <1>4, <1>5 DEF Returned

\* A call that returns nothing, or has room for another entry, has come to the end.
LEMMA NoneLeft ==
  ASSUME EnumTypeOK, NEW room \in Nat, Full <= room, NEW p \in Present, p > offset,
         \/ AtEnd(Bytes(Returned(room)))
         \/ ThisBatchDone(room, Bytes(Returned(room)))
  PROVE  p \in Returned(room) /\ ~AtEnd(Bytes(Returned(room)))
<1> DEFINE found == Returned(room)
           l == Last(found)
<1>1. Places \in Nat /\ Full \in Nat /\ Place = 1..Places /\ reclen \in [Place -> 0..Full]
      /\ offset \in 0..Places
  BY EnumerateAssumption DEF EnumTypeOK, Place
<1>2. /\ l \in {offset} \cup found /\ l \in 0..Places /\ offset <= l
      /\ \A q \in found : q <= l
  BY LastIs
<1>3. Upto \in [0..Places -> Nat]
  BY <1>1, UptoIs
<1>4. Upto[offset] \in Nat /\ Upto[l] \in Nat /\ Bytes(found) = Upto[l] - Upto[offset]
  BY <1>1, <1>2, <1>3 DEF Bytes
<1>5. ~AtEnd(Bytes(found))
  <2> SUFFICES ASSUME Bytes(found) = 0 PROVE FALSE
    BY DEF AtEnd
  <2>1. PICK m \in Present : m > offset /\ Upto[m] = Upto[offset] + reclen[m]
    BY <1>1, NextEntry
  <2>2. m \in 0..Places /\ reclen[m] \in 1..Full
    BY <1>1, <2>1 DEF Present
  <2>3. m \in found
    BY <1>4, <2>1, <2>2, <1>1 DEF Returned
  <2>4. m <= l
    BY <1>2, <2>3
  <2>5. Upto[m] <= Upto[l]
    BY <1>1, <1>2, <2>2, <2>4, UptoGrows
  <2> QED
    BY <1>4, <2>1, <2>2, <2>5
<1>6. p \in found
  <2>0. p <= l => p \in found
    BY NoneSkipped
  <2> SUFFICES ASSUME p > l PROVE FALSE
    BY <1>1, <1>2, <2>0 DEF Present
  <2>1. PICK m \in Present : m > l /\ Upto[m] = Upto[l] + reclen[m]
    BY <1>1, <1>2, NextEntry
  <2>2. m \in 0..Places /\ reclen[m] \in 1..Full
    BY <1>1, <2>1 DEF Present
  <2>3. ThisBatchDone(room, Bytes(found))
    BY <1>5
  <2>4. Upto[m] - Upto[offset] <= room
    <3>1. \A o, e, y \in Nat, f \in Nat, z \in Int :
            y <= f /\ z - (e - o) > f => (e + y) - o <= z
      OBVIOUS
    <3>2. reclen[m] \in Nat /\ reclen[m] <= Full /\ Upto[m] = Upto[l] + reclen[m] /\ room \in Int
      BY <1>1, <2>1, <2>2
    <3>3. room - (Upto[l] - Upto[offset]) > Full
      BY <1>4, <2>3 DEF ThisBatchDone
    <3> QED
      BY <1>1, <1>4, <3>1, <3>2, <3>3
  <2>5. m > offset
    BY <1>1, <1>2, <2>1, <2>2
  <2>6. m \in found
    BY <2>1, <2>4, <2>5 DEF Returned
  <2> QED
    BY <1>2, <2>1, <2>2, <2>6
<1> QED
  BY <1>5, <1>6

-----------------------------------------------------------------------------
(***************************************************************************)
(* Enumerate: types, for users in turn or at once.                         *)
(***************************************************************************)
LEMMA EnumTypeInit == EnumInit => EnumTypeOK
BY EnumerateAssumption DEF EnumInit, EnumTypeOK, Stage

LEMMA LeaveTypes ==
  ASSUME EnumTypeOK, NEW u \in Users, Leave(u)
  PROVE  EnumTypeOK'
BY EnumerateAssumption DEF EnumTypeOK, Leave, Enter, Stage, Place, directory

LEMMA EnumTypeStep == EnumTypeOK /\ [EnumNext]_enumvars => EnumTypeOK'
<1> SUFFICES ASSUME EnumTypeOK, [EnumNext]_enumvars PROVE EnumTypeOK'
  OBVIOUS
<1> USE EnumerateAssumption
<1>1. ASSUME NEW p \in Place, NEW len \in 0..Full, Change(p, len) PROVE EnumTypeOK'
  <2>1. reclen' \in [Place -> 0..Full] /\ changes' \in 0..MaxChanges
    BY <1>1 DEF EnumTypeOK, Change
  <2>2. throughout' \in [Users -> SUBSET Place] /\ sometime' \in [Users -> SUBSET Place]
    BY <1>1 DEF EnumTypeOK, Change
  <2> QED
    BY <1>1, <2>1, <2>2 DEF EnumTypeOK, Change, request, result
<1>2. ASSUME NEW u \in Users, NEW m \in 1..MaxItems, NEW meta \in BOOLEAN, Start(u, m, meta)
      PROVE  EnumTypeOK'
  BY <1>2 DEF EnumTypeOK, Start, Enter, Stage, directory, result, history
<1>3. ASSUME NEW u \in Users, Restart(u) PROVE EnumTypeOK'
  <2>1. Present \in SUBSET Place
    BY DEF Present
  <2> QED
    BY <1>3, <2>1 DEF EnumTypeOK, Restart, Rewound, Enter, Stage, directory, request, result
<1>4. ASSUME NEW u \in Users, Getdents(u) PROVE EnumTypeOK'
  <2> DEFINE found == Returned(Full * maxitems[u])
  <2>1. found \in SUBSET Place /\ Position(found) \in 0..Places
    BY LastIs DEF Returned, Present, Position
  <2> HIDE DEF found
  <2>2. offset' \in 0..Places
    BY <1>4, <2>1 DEF Getdents, found
  <2>3. got' \in [Users -> SUBSET Place] /\ twice' \in [Users -> BOOLEAN]
    BY <1>4, <2>1 DEF EnumTypeOK, Getdents, found
  <2>4. at' \in [Users -> Stage]
    BY <1>4 DEF EnumTypeOK, Getdents, Enter, Stage
  <2>5. more' \in [Users -> BOOLEAN]
    BY <1>4 DEF EnumTypeOK, Getdents, ThisBatchDone
  <2>6. batch' \in [Users -> SUBSET Place]
    BY <1>4, <2>1 DEF EnumTypeOK, Getdents, found
  <2> QED
    BY <1>4, <2>2, <2>3, <2>4, <2>5, <2>6 DEF EnumTypeOK, Getdents, directory, request, history,
         Place
<1>5. ASSUME NEW u \in Users, NEW p \in Place, FetchMetadata(u, p) PROVE EnumTypeOK'
  BY <1>5 DEF EnumTypeOK, FetchMetadata, directory, request, history, Place
<1>6. ASSUME NEW u \in Users, Fetched(u) \/ Continue(u) \/ EndLoop(u) PROVE EnumTypeOK'
  BY <1>6 DEF EnumTypeOK, Fetched, Continue, EndLoop, Enter, Stage, directory, request, result,
       history, Place
<1>7. ASSUME NEW u \in Users, Throw(u) \/ Use(u) PROVE EnumTypeOK'
  BY <1>7, LeaveTypes DEF Throw, Use
<1>8. CASE UNCHANGED enumvars
  BY <1>8 DEF EnumTypeOK, enumvars, directory, request, result, history, Place
<1> QED
  BY <1>1, <1>2, <1>3, <1>4, <1>5, <1>6, <1>7, <1>8 DEF EnumNext, EnumStep

(***************************************************************************)
(* Every state of an enumeration has its type: what getdents() returns are *)
(* places of the directory, and so is where it leaves the position.        *)
(***************************************************************************)
THEOREM EnumTypes == EnumSpec => []EnumTypeOK
<1>1. EnumInit => EnumTypeOK
  BY EnumTypeInit
<1>2. EnumTypeOK /\ [EnumNext]_enumvars => EnumTypeOK'
  BY EnumTypeStep
<1> QED
  BY <1>1, <1>2, PTL DEF EnumSpec

-----------------------------------------------------------------------------
(***************************************************************************)
(* Enumerate: what users have who take turns.  The position is one user's  *)
(* from the restart to the end of the loop; up to it, this user has what   *)
(* stayed there, and beyond it nothing yet.                                *)
(***************************************************************************)
InTurn == \A u, v \in Users : u # v /\ at[u] # "idle" => at[v] = "idle"

Asked == \A u \in Users : at[u] # "idle" => maxitems[u] >= 1

Unstarted == \A u \in Users : ~Running(u) => got[u] = {} /\ ~twice[u]

HasUpTo(u) ==
  /\ got[u] \subseteq 1..offset /\ throughout[u] \cap 1..offset \subseteq got[u]
  /\ got[u] \subseteq sometime[u] /\ ~twice[u]
  /\ throughout[u] \subseteq Present /\ Present \subseteq sometime[u]
Walked == \A u \in Users : Running(u) => HasUpTo(u)

HasAll(u) == at[u] = "finished" \/ (at[u] \in {"metadata", "return"} /\ ~more[u])
Told == \A u \in Users : HasAll(u) => throughout[u] \subseteq got[u]

EnumInv == EnumTypeOK /\ InTurn /\ Asked /\ Unstarted /\ Walked /\ Told

LEMMA EnumInvInit == EnumInit => EnumInv
<1> SUFFICES ASSUME EnumInit PROVE EnumInv
  OBVIOUS
<1>1. EnumTypeOK
  BY EnumTypeInit
<1> QED
  BY <1>1 DEF EnumInit, EnumInv, InTurn, Asked, Unstarted, Walked, Told, HasAll, Running

\* What the next batch adds to that of a user.
LEMMA GetdentsWalks ==
  ASSUME EnumInv, NEW u \in Users, Getdents(u)
  PROVE  /\ HasUpTo(u)'
         /\ ~more'[u] => throughout'[u] \subseteq got'[u]
<1> DEFINE room == Full * maxitems[u]
           found == Returned(room)
<1>1. /\ EnumTypeOK /\ EnumTypeOK' /\ HasUpTo(u) /\ maxitems[u] \in Nat /\ maxitems[u] >= 1
      /\ Places \in Nat /\ Full \in Nat /\ offset \in 0..Places
  <2>1. EnumTypeOK /\ Walked /\ Asked /\ at[u] = "getdents"
    BY DEF EnumInv, Getdents
  <2>2. EnumNext
    BY DEF EnumNext, EnumStep
  <2>3. EnumTypeOK'
    BY <2>1, <2>2, EnumTypeStep
  <2>4. maxitems[u] \in 0..MaxItems /\ maxitems[u] >= 1 /\ offset \in 0..Places
    BY <2>1 DEF EnumTypeOK, Asked
  <2>5. HasUpTo(u)
    BY <2>1 DEF Walked, Running
  <2> QED
    BY <2>1, <2>3, <2>4, <2>5, EnumerateAssumption
<1>2. room \in Nat /\ Full <= room
  <2>1. \A f, m \in Nat : m >= 1 => f * m \in Nat /\ f <= f * m
    OBVIOUS
  <2> QED
    BY <1>1, <2>1
<1>3. /\ offset' = Last(found) /\ got'[u] = got[u] \cup found
      /\ twice'[u] = (twice[u] \/ found \cap got[u] # {})
      /\ throughout'[u] = throughout[u] /\ sometime'[u] = sometime[u] /\ Present' = Present
      /\ more'[u] = (~AtEnd(Bytes(found)) /\ ~ThisBatchDone(room, Bytes(found)))
  <2> HIDE DEF found, room
  <2>1. /\ got \in [Users -> SUBSET Place] /\ twice \in [Users -> BOOLEAN]
        /\ more \in [Users -> BOOLEAN]
    BY <1>1 DEF EnumTypeOK
  <2>2. offset' = Last(found)
    BY DEF Getdents, Position, found, room
  <2>3. got'[u] = got[u] \cup found
    BY <2>1 DEF Getdents, found, room
  <2>4. twice'[u] = (twice[u] \/ found \cap got[u] # {})
    BY <2>1 DEF Getdents, found, room
  <2>5. throughout' = throughout /\ sometime' = sometime /\ Present' = Present
    BY DEF Getdents, history, directory, Present, Place
  <2>6. more'[u] = (~AtEnd(Bytes(found)) /\ ~ThisBatchDone(room, Bytes(found)))
    <3>1. CASE AtEnd(Bytes(found))
      BY <2>1, <3>1 DEF Getdents, found, room
    <3>2. CASE ~AtEnd(Bytes(found))
      BY <2>1, <3>2 DEF Getdents, found, room
    <3> QED
      BY <3>1, <3>2
  <2> QED
    BY <2>2, <2>3, <2>4, <2>5, <2>6
<1>4. /\ found \subseteq Present /\ \A p \in found : p > offset
      /\ Last(found) \in 0..Places /\ offset <= Last(found)
      /\ \A p \in found : p <= Last(found)
  BY <1>1, LastIs DEF Returned
<1>5. \A p \in Present : p > offset /\ p <= Last(found) => p \in found
  BY <1>1, <1>2, NoneSkipped
<1>6. ~more'[u] => \A p \in Present : p > offset => p \in found
  BY <1>1, <1>2, <1>3, NoneLeft
<1>7. Present \subseteq 1..Places
  BY DEF Present, Place
<1> HIDE DEF found, room
<1>8. got'[u] \subseteq 1..offset' /\ ~twice'[u]
  <2>1. got[u] \subseteq 1..offset /\ ~twice[u]
    BY <1>1 DEF HasUpTo
  <2>2. \A p \in found : p \in 1..Places
    BY <1>4, <1>7
  <2>3. found \cap got[u] = {}
    BY <1>1, <1>4, <2>1, <2>2
  <2>4. \A p \in got[u] \cup found : p \in 1..Last(found)
    BY <1>1, <1>4, <2>1, <2>2
  <2> QED
    BY <1>3, <2>1, <2>3, <2>4
<1>9. throughout'[u] \cap 1..offset' \subseteq got'[u]
  BY <1>1, <1>3, <1>4, <1>5, <1>7 DEF HasUpTo
<1>10. got'[u] \subseteq sometime'[u] /\ throughout'[u] \subseteq Present'
       /\ Present' \subseteq sometime'[u]
  BY <1>1, <1>3, <1>4 DEF HasUpTo
<1>11. ~more'[u] => throughout'[u] \subseteq got'[u]
  <2>1. /\ throughout[u] \cap 1..offset \subseteq got[u]
        /\ throughout[u] \subseteq Present
    BY <1>1 DEF HasUpTo
  <2>2. \A p \in 1..Places : p > offset \/ p \in 1..offset
    BY <1>1
  <2> QED
    BY <1>3, <1>6, <1>7, <2>1, <2>2
<1> QED
  BY <1>8, <1>9, <1>10, <1>11 DEF HasUpTo

\* A step of one user, while the others are idle.
LEMMA OneMoves ==
  ASSUME EnumInv, EnumTypeOK', NEW u \in Users,
         \A v \in Users : v # u =>
           at[v] = "idle" /\ at'[v] = "idle" /\ got'[v] = got[v] /\ twice'[v] = twice[v],
         at'[u] # "idle" => maxitems'[u] >= 1,
         ~Running(u)' => got'[u] = {} /\ ~twice'[u],
         Running(u)' => HasUpTo(u)',
         HasAll(u)' => throughout'[u] \subseteq got'[u]
  PROVE  EnumInv'
<1>1. InTurn' /\ Asked'
  BY DEF InTurn, Asked
<1>2. Unstarted'
  BY DEF EnumInv, Unstarted, Running
<1>3. Walked'
  <2> SUFFICES ASSUME NEW v \in Users, Running(v)' PROVE HasUpTo(v)'
    BY DEF Walked
  <2>1. v = u
    BY DEF Running
  <2> QED
    BY <2>1
<1>4. Told'
  BY DEF Told, HasAll
<1> QED
  BY <1>1, <1>2, <1>3, <1>4 DEF EnumInv

LEMMA EnumInvStep ==
  ASSUME ~Overlap, EnumInv, [EnumNext]_enumvars
  PROVE  EnumInv'
<1>1. EnumTypeOK /\ EnumTypeOK'
  BY EnumTypeStep DEF EnumInv
<1>2. /\ at \in [Users -> Stage] /\ got \in [Users -> SUBSET Place]
      /\ twice \in [Users -> BOOLEAN] /\ more \in [Users -> BOOLEAN]
      /\ maxitems \in [Users -> 0..MaxItems]
      /\ throughout \in [Users -> SUBSET Place] /\ sometime \in [Users -> SUBSET Place]
  BY <1>1 DEF EnumTypeOK
<1>3. ASSUME NEW u \in Users, at[u] # "idle" PROVE \A v \in Users : v # u => at[v] = "idle"
  BY <1>3 DEF EnumInv, InTurn
<1>4. ASSUME NEW p \in Place, NEW len \in 0..Full, Change(p, len) PROVE EnumInv'
  <2>1. /\ at' = at /\ got' = got /\ twice' = twice /\ more' = more /\ maxitems' = maxitems
        /\ offset' = offset
    BY <1>4 DEF Change, request, result
  <2>2. \A v \in Users : throughout'[v] = throughout[v] \ {p}
    BY <1>4 DEF Change
  <2>3. \A v \in Users :
          sometime'[v] = IF Running(v) /\ len > 0 THEN sometime[v] \cup {p} ELSE sometime[v]
    BY <1>4 DEF Change
  <2>4. /\ Present \ {p} \subseteq Present'
        /\ Present' \subseteq IF len > 0 THEN Present \cup {p} ELSE Present
    <3>1. \A q \in Place : reclen'[q] = IF q = p THEN len ELSE reclen[q]
      BY <1>1, <1>4 DEF Change, EnumTypeOK
    <3>2. Full \in Nat
      BY EnumerateAssumption
    <3> QED
      BY <3>1, <3>2 DEF Present, Place
  <2>5. InTurn' /\ Asked' /\ Unstarted'
    BY <2>1 DEF EnumInv, InTurn, Asked, Unstarted, Running
  <2>6. Walked'
    <3> SUFFICES ASSUME NEW v \in Users, Running(v) PROVE HasUpTo(v)'
      BY <2>1 DEF Walked, Running
    <3>1. HasUpTo(v)
      BY DEF EnumInv, Walked
    <3>2. throughout'[v] = throughout[v] \ {p} /\ sometime[v] \subseteq sometime'[v]
      BY <2>2, <2>3
    <3>3. Present' \subseteq sometime'[v]
      BY <2>3, <2>4, <3>1 DEF HasUpTo
    <3> QED
      BY <2>1, <2>4, <3>1, <3>2, <3>3 DEF HasUpTo
  <2>7. Told'
    BY <2>1, <2>2 DEF EnumInv, Told, HasAll
  <2> QED
    BY <1>1, <2>5, <2>6, <2>7 DEF EnumInv
<1>5. ASSUME NEW u \in Users, NEW m \in 1..MaxItems, NEW meta \in BOOLEAN, Start(u, m, meta)
      PROVE  EnumInv'
  <2>1. at[u] = "idle" /\ \A v \in Users : at[v] = "idle"
    BY <1>5 DEF Start
  <2>2. at'[u] = "restart" /\ maxitems'[u] = m /\ \A v \in Users : v # u => at'[v] = "idle"
    BY <1>2, <1>5, <2>1 DEF Start, Enter
  <2>3. got' = got /\ twice' = twice /\ got[u] = {} /\ ~twice[u]
    BY <1>5, <2>1 DEF Start, result, EnumInv, Unstarted, Running
  <2> QED
    BY <1>1, <2>1, <2>2, <2>3, OneMoves DEF Running, HasAll
<1>6. ASSUME NEW u \in Users, Restart(u) PROVE EnumInv'
  <2>1. at[u] = "restart" /\ \A v \in Users : v # u => at[v] = "idle"
    BY <1>3, <1>6 DEF Restart
  <2>2. at'[u] = "getdents" /\ \A v \in Users : v # u => at'[v] = "idle"
    BY <1>2, <1>6, <2>1 DEF Restart, Enter
  <2>3. /\ got' = got /\ twice' = twice /\ got[u] = {} /\ ~twice[u]
        /\ maxitems' = maxitems /\ maxitems[u] >= 1
    BY <1>6, <2>1 DEF Restart, result, request, EnumInv, Unstarted, Running, Asked
  <2>4. /\ throughout'[u] = Present /\ sometime'[u] = Present /\ offset' = 0
        /\ Present' = Present
    BY <1>2, <1>6 DEF Restart, Rewound, directory, Present, Place
  <2>5. 1..0 = {}
    OBVIOUS
  <2>6. HasUpTo(u)'
    BY <2>3, <2>4, <2>5 DEF HasUpTo
  <2> QED
    BY <1>1, <2>1, <2>2, <2>3, <2>6, OneMoves DEF Running, HasAll
<1>7. ASSUME NEW u \in Users, Getdents(u) PROVE EnumInv'
  <2>1. at[u] = "getdents" /\ \A v \in Users : v # u => at[v] = "idle"
    BY <1>3, <1>7 DEF Getdents
  <2>2. at'[u] \in {"return", "metadata"} /\ \A v \in Users : v # u => at'[v] = "idle"
    BY <1>2, <1>7, <2>1 DEF Getdents, Enter
  <2>3. /\ \A v \in Users : v # u => got'[v] = got[v] /\ twice'[v] = twice[v]
        /\ maxitems' = maxitems /\ maxitems[u] >= 1
    BY <1>2, <1>7, <2>1 DEF Getdents, request, EnumInv, Asked
  <2>4. HasUpTo(u)' /\ (~more'[u] => throughout'[u] \subseteq got'[u])
    BY <1>7, GetdentsWalks
  <2> QED
    BY <1>1, <2>1, <2>2, <2>3, <2>4, OneMoves DEF Running, HasAll
<1>8. ASSUME NEW u \in Users,
             Fetched(u) \/ Continue(u) \/ EndLoop(u) \/ \E p \in Place : FetchMetadata(u, p)
      PROVE  EnumInv'
  <2>1. at[u] \in {"metadata", "return"} /\ \A v \in Users : v # u => at[v] = "idle"
    BY <1>3, <1>8 DEF Fetched, Continue, EndLoop, FetchMetadata
  <2>2. /\ at'[u] \in {"metadata", "return", "getdents", "finished"}
        /\ \A v \in Users : v # u => at'[v] = "idle"
    BY <1>2, <1>8, <2>1 DEF Fetched, Continue, EndLoop, FetchMetadata, Enter
  <2>3. /\ got' = got /\ twice' = twice /\ more' = more /\ maxitems' = maxitems
        /\ offset' = offset /\ throughout' = throughout /\ sometime' = sometime
        /\ reclen' = reclen
    BY <1>8 DEF Fetched, Continue, EndLoop, FetchMetadata, directory, request, result, history
  <2>4. HasUpTo(u) /\ maxitems[u] >= 1 /\ (~more[u] => throughout[u] \subseteq got[u])
    BY <2>1 DEF EnumInv, Walked, Running, Asked, Told, HasAll
  <2>6. HasAll(u)' => ~more[u]
    <3>1. CASE EndLoop(u)
      BY <3>1 DEF EndLoop
    <3>2. CASE ~EndLoop(u)
      <4>1. at'[u] # "finished"
        BY <1>2, <1>8, <2>1, <3>2 DEF Fetched, Continue, FetchMetadata, Enter
      <4> QED
        BY <2>3, <4>1 DEF HasAll
    <3> QED
      BY <3>1, <3>2
  <2>5. HasUpTo(u)'
    BY <2>3, <2>4 DEF HasUpTo, Present, Place
  <2> QED
    BY <1>1, <2>1, <2>2, <2>3, <2>4, <2>5, <2>6, OneMoves DEF Running, HasAll
<1>9. ASSUME NEW u \in Users, Throw(u) \/ Use(u) PROVE EnumInv'
  <2>1. Leave(u) /\ \A v \in Users : v # u => at[v] = "idle"
    BY <1>3, <1>9 DEF Throw, Use
  <2>2. at'[u] = "idle" /\ \A v \in Users : v # u => at'[v] = "idle"
    BY <1>2, <2>1 DEF Leave, Enter
  <2>3. /\ got'[u] = {} /\ ~twice'[u]
        /\ \A v \in Users : v # u => got'[v] = got[v] /\ twice'[v] = twice[v]
    BY <1>2, <2>1 DEF Leave
  <2> QED
    BY <1>1, <2>1, <2>2, <2>3, OneMoves DEF Running, HasAll
<1>10. CASE UNCHANGED enumvars
  <2>1. /\ UNCHANGED <<reclen, offset, at, maxitems, more, got, twice, throughout, sometime>>
    BY <1>10 DEF enumvars, directory, request, result, history
  <2> QED
    BY <1>1, <2>1 DEF EnumInv, InTurn, Asked, Unstarted, Walked, HasUpTo, Told, HasAll, Running,
         Present, Place
<1> QED
  BY <1>4, <1>5, <1>6, <1>7, <1>8, <1>9, <1>10 DEF EnumNext, EnumStep

(***************************************************************************)
(* Users who take turns with a handle, as those do who open their own, get *)
(* every entry that stays in the directory, each once, and none that never *)
(* was there, however many entries a batch holds, whatever others create,  *)
(* delete and replace.                                                     *)
(***************************************************************************)
THEOREM EnumerateCorrect ==
  ASSUME ~Overlap
  PROVE  EnumSpec => []EnumeratesAll
<1>1. EnumInit => EnumInv
  BY EnumInvInit
<1>2. EnumInv /\ [EnumNext]_enumvars => EnumInv'
  BY EnumInvStep
<1>3. EnumInv => EnumeratesAll
  <2> SUFFICES ASSUME EnumInv, NEW u \in Users, at[u] = "finished"
               PROVE  throughout[u] \subseteq got[u] /\ got[u] \subseteq sometime[u] /\ ~twice[u]
    BY DEF EnumeratesAll
  <2>1. HasUpTo(u)
    BY DEF EnumInv, Walked, Running
  <2>2. HasAll(u)
    BY DEF HasAll
  <2>3. throughout[u] \subseteq got[u]
    BY <2>2 DEF EnumInv, Told
  <2> QED
    BY <2>1, <2>3 DEF HasUpTo
<1> QED
  BY <1>1, <1>2, <1>3, PTL DEF EnumSpec

-----------------------------------------------------------------------------
(***************************************************************************)
(* FileData: what holds of each thread.                                    *)
(***************************************************************************)
\* The buffers of the first k blocks of range i, which is x, each at its place.
Span(i, x, k) == {<<i, j, x[1] + j>> : j \in 0..(k - 1)}
Before(asked, i) == UNION {Span(j, asked[j], asked[j][2]) : j \in 1..(i - 1)}

Transfers == {"read", "write", "append", "zero"}
Walking == {"seekdata", "seekhole"}

\* Types, of the functions too.
Shaped ==
  /\ data \subseteq 0..(size - 1) /\ size \in 0..Capacity
  /\ punches \in BOOLEAN /\ seeks \in BOOLEAN
  /\ pc \in [Threads -> PC] /\ kind \in [Threads -> Kind \cup {"none"}]
  /\ ranges \in [Threads -> Seq(Range1)]
  /\ r \in [Threads -> 1..2] /\ n \in [Threads -> Nat] /\ moved \in [Threads -> Nat]
  /\ landed \in [Threads -> SUBSET ((1..2) \X (0..MaxBuffers) \X Block)]
  /\ short \in [Threads -> BOOLEAN] /\ cut \in [Threads -> BOOLEAN]
  /\ seek \in [Threads -> 0..Capacity]
  /\ out \in [Threads -> Seq((0..Capacity) \X (0..Capacity))]
  /\ always \in [Threads -> SUBSET Block] /\ ever \in [Threads -> SUBSET Block]

\* Which operation is where, and what it leaves alone.
Kinds(t) ==
  /\ (pc[t] = "idle") <=> (kind[t] = "none")
  /\ pc[t] = "batch" => kind[t] \in Transfers
  /\ pc[t] = "punch" => kind[t] = "zero" /\ n[t] = 0 /\ ~short[t]
  /\ pc[t] \in {"seekdata", "seekhole", "report", "undefined"} => kind[t] = "extents"
  /\ kind[t] \notin Transfers =>
       ranges[t] = <<>> /\ r[t] = 1 /\ n[t] = 0 /\ moved[t] = 0 /\ landed[t] = {} /\ ~short[t]
  /\ kind[t] # "extents" => seek[t] = 0 /\ out[t] = <<>>

\* The buffers it has come to, and those it has moved.
Counts(t) ==
  kind[t] \in Transfers =>
    /\ Len(ranges[t]) \in 1..2 /\ r[t] <= Len(ranges[t])
    /\ kind[t] # "zero" => Len(ranges[t]) = 1
    /\ n[t] <= MaxBuffers + IovMax /\ moved[t] <= Lesser(n[t], Buffers(t))

\* As long as nothing was short, buffers are at their places.
Lands(t) ==
  kind[t] \in {"read", "write", "zero"} /\ (kind[t] = "zero" => ~short[t]) =>
    /\ pc[t] = "punch" => landed[t] = Before(ranges[t], r[t])
    /\ pc[t] = "batch" /\ moved[t] = Lesser(n[t], Buffers(t)) =>
         landed[t] = Before(ranges[t], r[t]) \cup Span(r[t], ranges[t][r[t]], moved[t])
    /\ pc[t] = "batch" /\ kind[t] = "zero" => moved[t] = Lesser(n[t], Buffers(t))
    /\ pc[t] = "ok" => landed[t] = Wanted(t)

\* An append of one batch is all or none of it there.
OnePiece(t) ==
  kind[t] = "append" /\ Buffers(t) <= IovMax =>
    /\ pc[t] = "batch" =>
         \/ n[t] = 0 /\ moved[t] = 0 /\ landed[t] = {}
         \/ /\ n[t] >= Buffers(t)
            /\ \E b \in Block : landed[t] = {<<1, j, b + j>> : j \in 0..(moved[t] - 1)}
    /\ pc[t] = "ok" =>
         \E b \in Block : landed[t] = {<<1, j, b + j>> : j \in 0..(Buffers(t) - 1)}

\* What was appended is in the file, unless that was truncated.
Fits(t) == kind[t] = "append" /\ ~cut[t] => \A x \in landed[t] : x[3] < size

\* The walk has passed all the data there always was, up to where it is.
Scans(t) ==
  kind[t] = "extents" =>
    /\ always[t] \subseteq data /\ data \subseteq ever[t]
    /\ pc[t] \in Walking => \A b \in always[t] : b \in Reported(t) \/ b >= seek[t]
    /\ pc[t] \in {"report", "ok"} => always[t] \subseteq Reported(t)
    /\ seeks => Reported(t) \subseteq ever[t]

\* Extents: the blocks they cover, where they end, in order, and apart.
Cover(found) == UNION {Extent(found[i]) : i \in 1..Len(found)}
End(found) == found[Len(found)][1] + found[Len(found)][2]
Within(found) == \A i \in 1..Len(found) : found[i][1] + found[i][2] <= Capacity
Ordered(found) ==
  \A i \in 1..(Len(found) - 1) : found[i][1] + found[i][2] <= found[i + 1][1]
Tidy(found) == \A i \in 1..(Len(found) - 1) : found[i][1] + found[i][2] < found[i + 1][1]

\* Its extents are in order, and merged in the end.
InOrder(t) ==
  kind[t] = "extents" =>
    /\ Within(out[t]) /\ Ordered(out[t])
    /\ pc[t] \in Walking =>
         \A i \in 1..Len(out[t]) : out[t][i][1] + out[t][i][2] <= seek[t]
    /\ pc[t] = "ok" => Tidy(out[t])

Blocks(t) == {x[3] : x \in landed[t]}
Apart ==
  \A t, u \in Threads :
    t # u /\ kind[t] = "append" /\ kind[u] = "append" /\ ~cut[t] /\ ~cut[u] =>
      Blocks(t) \cap Blocks(u) = {}

Local(t) == Kinds(t) /\ Counts(t) /\ Lands(t) /\ OnePiece(t) /\ InOrder(t)
DataInv == Shaped /\ Apart /\ \A t \in Threads : Local(t) /\ Fits(t) /\ Scans(t)

-----------------------------------------------------------------------------
(***************************************************************************)
(* FileData: what Coalesced returns.                                       *)
(***************************************************************************)
Region == Nat \X Nat

LEMMA SeqOfLess ==
  ASSUME NEW A, NEW B, A \subseteq B, NEW s \in Seq(A)
  PROVE  s \in Seq(B)
<1>1. Len(s) \in Nat /\ s \in [1..Len(s) -> A]
  OBVIOUS
<1>2. s \in [1..Len(s) -> B]
  BY <1>1
<1> QED
  BY <1>1, <1>2

LEMMA AppendCovers ==
  ASSUME NEW found \in Seq(Region), NEW x \in Region
  PROVE  Cover(Append(found, x)) = Cover(found) \cup Extent(x)
<1> DEFINE new == Append(found, x)
<1>1. Len(found) \in Nat /\ Len(new) = Len(found) + 1
  OBVIOUS
<1>2. new[Len(new)] = x /\ \A i \in 1..Len(found) : new[i] = found[i]
  OBVIOUS
<1> HIDE DEF new
<1>3. 1..Len(new) = (1..Len(found)) \cup {Len(new)}
  BY <1>1
<1> QED
  BY <1>2, <1>3 DEF Cover

LEMMA AppendInOrder ==
  ASSUME NEW found \in Seq(Region), NEW x \in Region, Within(found), Ordered(found),
         \A i \in 1..Len(found) : found[i][1] + found[i][2] <= x[1],
         x[1] + x[2] <= Capacity
  PROVE  /\ Within(Append(found, x)) /\ Ordered(Append(found, x))
         /\ \A i \in 1..Len(Append(found, x)) :
              Append(found, x)[i][1] + Append(found, x)[i][2] <= x[1] + x[2]
<1> DEFINE new == Append(found, x)
           k == Len(found)
<1>1. k \in Nat /\ Len(new) = k + 1 /\ new[k + 1] = x /\ \A i \in 1..k : new[i] = found[i]
  OBVIOUS
<1>2. /\ x[1] \in Nat /\ x[2] \in Nat
      /\ \A i \in 1..k : found[i][1] \in Nat /\ found[i][2] \in Nat
  BY DEF Region
<1> HIDE DEF new
<1>3. \A i \in 1..(k + 1) : i = k + 1 \/ i \in 1..k
  BY <1>1
<1>4. Within(new)
  BY <1>1, <1>3 DEF Within
<1>5. \A i \in 1..(k + 1) : new[i][1] + new[i][2] <= x[1] + x[2]
  <2>1. x[1] + x[2] <= x[1] + x[2]
    BY <1>2
  <2>2. ASSUME NEW i \in 1..k PROVE new[i][1] + new[i][2] <= x[1] + x[2]
    <3>1. new[i] = found[i] /\ found[i][1] + found[i][2] <= x[1]
      BY <1>1
    <3>2. found[i][1] \in Nat /\ found[i][2] \in Nat
      BY <1>2
    <3> QED
      BY <1>2, <3>1, <3>2, SMTT(20)
  <2> QED
    BY <1>1, <1>3, <2>1, <2>2
<1>6. Ordered(new)
  <2> SUFFICES ASSUME NEW i \in 1..k PROVE new[i][1] + new[i][2] <= new[i + 1][1]
    BY <1>1 DEF Ordered
  <2>1. CASE i = k
    BY <1>1, <2>1
  <2>2. CASE i # k
    <3>1. i \in 1..(k - 1) /\ i + 1 \in 1..k
      BY <1>1, <2>2
    <3>2. found[i][1] + found[i][2] <= found[i + 1][1]
      BY <3>1 DEF Ordered
    <3> QED
      BY <1>1, <3>1, <3>2
  <2> QED
    BY <2>1, <2>2
<1> QED
  BY <1>1, <1>4, <1>5, <1>6 DEF new

LEMMA ExtentsJoin ==
  ASSUME NEW a \in Nat, NEW b \in Nat, NEW c \in Nat
  PROVE  Extent(<<a, b + c>>) = Extent(<<a, b>>) \cup Extent(<<a + b, c>>)
<1>1. a..(a + b + c - 1) = (a..(a + b - 1)) \cup ((a + b)..(a + b + c - 1))
  OBVIOUS
<1>2. Extent(<<a, b + c>>) = a..(a + (b + c) - 1) /\ a + (b + c) = a + b + c
  BY DEF Extent
<1> QED
  BY <1>1, <1>2 DEF Extent

\* Join appends an extent, or makes the last one longer.
LEMMA JoinIs ==
  ASSUME NEW fixed \in Seq(Region), fixed # <<>>, NEW x \in Region,
         Tidy(fixed), Within(fixed), End(fixed) <= x[1], x[1] + x[2] <= Capacity
  PROVE  /\ Join(fixed, x) \in Seq(Region) /\ Join(fixed, x) # <<>>
         /\ Tidy(Join(fixed, x)) /\ Within(Join(fixed, x))
         /\ End(Join(fixed, x)) = x[1] + x[2]
         /\ Cover(Join(fixed, x)) = Cover(fixed) \cup Extent(x)
<1> DEFINE k == Len(fixed)
           last == fixed[k]
<1>1. k \in Nat /\ k >= 1 /\ \A i \in 1..k : fixed[i] \in Region
  OBVIOUS
<1>2. last \in Region /\ last[1] \in Nat /\ last[2] \in Nat /\ x[1] \in Nat /\ x[2] \in Nat
  BY <1>1 DEF Region
<1>3. CASE last[1] + last[2] = x[1]
  <2> DEFINE y == <<last[1], last[2] + x[2]>>
             new == [fixed EXCEPT ![k] = y]
  <2>1. Join(fixed, x) = new
    BY <1>3 DEF Join
  <2>2. y \in Region /\ y[1] = last[1] /\ y[2] = last[2] + x[2]
    BY <1>2 DEF Region
  <2>3. /\ new \in Seq(Region) /\ Len(new) = k /\ new[k] = y
        /\ \A i \in 1..k : i # k => new[i] = fixed[i]
    <3> HIDE DEF y
    <3> QED
      BY <1>1, <2>2
  <2>4. new # <<>>
    BY <1>1, <2>3
  <2> HIDE DEF new, y, k
  <2>5. Tidy(new)
    <3> SUFFICES ASSUME NEW i \in 1..(k - 1) PROVE new[i][1] + new[i][2] < new[i + 1][1]
      BY <2>3 DEF Tidy
    <3>1. i \in 1..k /\ i # k /\ i + 1 \in 1..k /\ new[i] = fixed[i]
      BY <1>1, <2>3
    <3>2. fixed[i][1] + fixed[i][2] < fixed[i + 1][1]
      BY DEF Tidy, k
    <3>3. new[i + 1][1] = fixed[i + 1][1]
      BY <2>2, <2>3, <3>1
    <3> QED
      BY <3>1, <3>2, <3>3
  <2>6. Within(new)
    <3> SUFFICES ASSUME NEW i \in 1..k PROVE new[i][1] + new[i][2] <= Capacity
      BY <2>3 DEF Within
    <3>1. CASE i = k
      BY <1>2, <1>3, <2>2, <2>3, <3>1
    <3>2. CASE i # k
      BY <2>3, <3>2 DEF Within, k
    <3> QED
      BY <3>1, <3>2
  <2>7. End(new) = x[1] + x[2]
    BY <1>2, <1>3, <2>2, <2>3 DEF End
  <2>8. Extent(y) = Extent(last) \cup Extent(x)
    <3>1. last = <<last[1], last[2]>> /\ x = <<last[1] + last[2], x[2]>>
      <4>1. last \in Region /\ x \in Region /\ x[1] = last[1] + last[2]
        BY <1>2, <1>3
      <4>2. \A z \in Region : z = <<z[1], z[2]>>
        BY DEF Region
      <4> HIDE DEF last
      <4> QED
        BY <4>1, <4>2, Zenon
    <3>2. y = <<last[1], last[2] + x[2]>>
      BY DEF y
    <3> HIDE DEF last
    <3> QED
      BY <1>2, <3>1, <3>2, ExtentsJoin
  <2>9. Cover(new) = Cover(fixed) \cup Extent(x)
    <3>1. Cover(new) = UNION {Extent(new[i]) : i \in 1..k}
          /\ Cover(fixed) = UNION {Extent(fixed[i]) : i \in 1..k}
      BY <2>3 DEF Cover, k
    <3>2. k \in 1..k
      BY <1>1
    <3> QED
      BY <2>3, <2>8, <3>1, <3>2
  <2> QED
    BY <2>1, <2>3, <2>4, <2>5, <2>6, <2>7, <2>9
<1>4. CASE last[1] + last[2] # x[1]
  <2> DEFINE new == Append(fixed, x)
  <2>1. Join(fixed, x) = new
    BY <1>4 DEF Join
  <2>2. /\ new \in Seq(Region) /\ Len(new) = k + 1 /\ new[k + 1] = x /\ new # <<>>
        /\ \A i \in 1..k : new[i] = fixed[i]
    BY <1>1
  <2>3. Cover(new) = Cover(fixed) \cup Extent(x)
    BY AppendCovers
  <2>4. last[1] + last[2] < x[1]
    BY <1>2, <1>4 DEF End
  <2> HIDE DEF new, k
  <2>5. Tidy(new)
    <3> SUFFICES ASSUME NEW i \in 1..k PROVE new[i][1] + new[i][2] < new[i + 1][1]
      BY <1>1, <2>2 DEF Tidy
    <3>1. CASE i = k
      BY <2>2, <2>4, <3>1
    <3>2. CASE i # k
      <4>1. i \in 1..(k - 1) /\ i + 1 \in 1..k
        BY <1>1, <3>2
      <4>2. fixed[i][1] + fixed[i][2] < fixed[i + 1][1]
        BY <4>1 DEF Tidy, k
      <4> QED
        BY <2>2, <4>1, <4>2
    <3> QED
      BY <3>1, <3>2
  <2>6. Within(new)
    <3> SUFFICES ASSUME NEW i \in 1..(k + 1) PROVE new[i][1] + new[i][2] <= Capacity
      BY <2>2 DEF Within
    <3>1. CASE i = k + 1
      BY <2>2, <3>1
    <3>2. CASE i # k + 1
      <4>1. i \in 1..k
        BY <1>1, <3>2
      <4> QED
        BY <2>2, <4>1 DEF Within, k
    <3> QED
      BY <3>1, <3>2
  <2>7. End(new) = x[1] + x[2]
    BY <2>2 DEF End
  <2> QED
    BY <2>1, <2>2, <2>3, <2>5, <2>6, <2>7
<1> QED
  BY <1>3, <1>4

\* The sequence of what Coalesced has joined so far.
LEMMA JoinedExists ==
  ASSUME NEW found \in Seq(Region), found # <<>>
  PROVE  \E g \in [1..Len(found) -> Seq(Region)] :
           /\ Coalesced(found) = g[Len(found)]
           /\ g[1] = <<found[1]>>
           /\ \A i \in 2..Len(found) : g[i] = Join(g[i - 1], found[i])
<1> DEFINE N == Len(found)
           S == Seq(Region)
           Item(i) == found[IF i \in 1..N THEN i ELSE 1]
           step == [x \in Nat \X S |->
                     IF x[2] = <<>> THEN <<Item(x[1])>> ELSE Join(x[2], Item(x[1]))]
           F(g) == [i \in 1..N |-> IF i = 1 THEN <<found[1]>> ELSE Join(g[i - 1], found[i])]
           J == CHOOSE g : g = F(g)
<1>1. N \in Nat /\ N >= 1 /\ \A i \in Nat : Item(i) \in Region
  OBVIOUS
<1>2. ASSUME NEW f \in S, NEW y \in Region, f # <<>> PROVE Join(f, y) \in S /\ Join(f, y) # <<>>
  <2>1. Len(f) \in Nat /\ Len(f) >= 1 /\ f[Len(f)] \in Region
    <3>1. f \in Seq(Region) /\ f # <<>>
      BY <1>2
    <3> HIDE DEF S, Item, step, F, J, N
    <3> QED
      BY <3>1
  <2>2. <<f[Len(f)][1], f[Len(f)][2] + y[2]>> \in Region
    <3>1. \A p, q \in Region : <<p[1], p[2] + q[2]>> \in Region
      BY DEF Region
    <3> QED
      BY <1>2, <2>1, <3>1
  <2> DEFINE z == <<f[Len(f)][1], f[Len(f)][2] + y[2]>>
  <2>3. [f EXCEPT ![Len(f)] = z] \in S /\ Len([f EXCEPT ![Len(f)] = z]) = Len(f)
    <3> HIDE DEF z
    <3> QED
      BY <1>2, <2>1, <2>2 DEF z
  <2>4. Append(f, y) \in S /\ Append(f, y) # <<>>
    BY <1>2
  <2>5. Join(f, y) \in {[f EXCEPT ![Len(f)] = z], Append(f, y)}
    BY DEF Join
  <2>6. [f EXCEPT ![Len(f)] = z] # <<>>
    BY <2>1, <2>3
  <2> HIDE DEF z
  <2> QED
    BY <2>3, <2>4, <2>5, <2>6
<1>3. step \in [Nat \X S -> S] /\ \A x \in Nat \X S : step[x] # <<>>
  <2> SUFFICES ASSUME NEW x \in Nat \X S
               PROVE  /\ (IF x[2] = <<>> THEN <<Item(x[1])>> ELSE Join(x[2], Item(x[1]))) \in S
                      /\ (IF x[2] = <<>> THEN <<Item(x[1])>> ELSE Join(x[2], Item(x[1]))) # <<>>
    OBVIOUS
  <2>1. x[1] \in Nat /\ x[2] \in S /\ Item(x[1]) \in Region
    BY <1>1
  <2> HIDE DEF Item
  <2>2. <<Item(x[1])>> \in S /\ <<Item(x[1])>> # <<>>
    BY <2>1
  <2> QED
    BY <1>2, <2>1, <2>2
<1>4. PICK g \in [0..N -> S] : Stepwise(g, <<>>, step, N)
  <2> HIDE DEF step
  <2>1. <<>> \in S
    OBVIOUS
  <2> HIDE DEF S
  <2> QED
    BY <1>1, <1>3, <2>1, RecursionExists, Zenon
<1>5. /\ g[0] = <<>>
      /\ \A i \in 1..N : g[i] = step[<<i, g[i - 1]>>] /\ g[i - 1] \in S /\ <<i, g[i - 1]>> \in Nat \X S
  <2> HIDE DEF step, S
  <2>1. g[0] = <<>> /\ \A i \in 1..N : g[i] = step[<<i, g[i - 1]>>]
    BY <1>4 DEF Stepwise
  <2>2. \A i \in 1..N : i \in Nat /\ i - 1 \in 0..N
    BY <1>1
  <2>3. \A i \in 1..N : g[i - 1] \in S
    BY <1>4, <2>2
  <2> QED
    BY <2>1, <2>2, <2>3
<1>6. g[1] = <<found[1]>>
  <2>1. 1 \in 1..N
    BY <1>1
  <2>2. step[<<1, <<>>>>] = <<Item(1)>>
    <3>1. <<>> \in S
      OBVIOUS
    <3> HIDE DEF Item, S
    <3>2. <<1, <<>>>> \in Nat \X S
      BY <3>1
    <3> QED
      BY <3>2
  <2> HIDE DEF step, Item
  <2>3. g[1] = step[<<1, <<>>>>]
    BY <1>5, <2>1
  <2> QED
    BY <2>1, <2>2, <2>3 DEF Item
<1>7. ASSUME NEW i \in 2..N PROVE g[i] = Join(g[i - 1], found[i])
  <2>1. i \in 1..N /\ i - 1 \in 1..N /\ i \in Nat
    BY <1>1
  <2>2. g[i - 1] \in S /\ g[i - 1] # <<>> /\ g[i] = step[<<i, g[i - 1]>>]
    <3> HIDE DEF step, S
    <3> QED
      BY <1>3, <1>5, <2>1
  <2>3. step[<<i, g[i - 1]>>] = Join(g[i - 1], Item(i))
    <3> HIDE DEF Item, S
    <3>1. <<i, g[i - 1]>> \in Nat \X S
      BY <2>1, <2>2
    <3> QED
      BY <2>2, <3>1
  <2>4. Item(i) = found[i]
    BY <2>1
  <2> QED
    BY <2>2, <2>3, <2>4
<1> HIDE DEF step, Item
<1> DEFINE h == [i \in 1..N |-> g[i]]
<1>8. /\ h \in [1..N -> S] /\ h[1] = <<found[1]>>
      /\ \A i \in 2..N : h[i] = Join(h[i - 1], found[i])
  <2>1. \A i \in 2..N : i \in 1..N /\ i - 1 \in 1..N
    BY <1>1
  <2> QED
    BY <1>1, <1>4, <1>6, <1>7, <2>1
<1>9. h = F(h)
  <2> HIDE DEF h
  <2>1. \A i \in 1..N : i # 1 => i \in 2..N
    BY <1>1
  <2>2. \A i \in 1..N : h[i] = IF i = 1 THEN <<found[1]>> ELSE Join(h[i - 1], found[i])
    BY <1>8, <2>1
  <2>3. h = [i \in 1..N |-> h[i]]
    BY <1>8
  <2> QED
    BY <2>2, <2>3
<1>10. J = F(J)
  <2> HIDE DEF F
  <2> QED
    BY <1>9
<1>11. Coalesced(found) = J[N]
  BY DEF Coalesced
<1> HIDE DEF J, h
<1>12. /\ J = [i \in 1..N |-> J[i]] /\ J[1] = <<found[1]>>
       /\ \A i \in 2..N : J[i] = Join(J[i - 1], found[i])
  <2>1. 1 \in 1..N /\ \A i \in 2..N : i \in 1..N /\ i # 1
    BY <1>1
  <2> DEFINE G == F(J)
  <2>2. /\ G = [i \in 1..N |-> G[i]]
        /\ \A i \in 1..N : G[i] = IF i = 1 THEN <<found[1]>> ELSE Join(J[i - 1], found[i])
    BY Zenon
  <2>3. J = G
    BY <1>10
  <2> HIDE DEF G, F, N
  <2> QED
    BY <2>1, <2>2, <2>3
<1> DEFINE T == {i \in 1..N : J[i] # h[i]}
<1>13. T = {}
  <2> SUFFICES ASSUME T # {} PROVE FALSE
    OBVIOUS
  <2>1. T \in SUBSET Nat
    OBVIOUS
  <2>2. PICK m \in T : \A k \in T : m <= k
    <3> HIDE DEF T
    <3> QED
      BY <2>1, LeastNat
  <2>3. m \in 1..N /\ m # 1
    BY <1>8, <1>12, <2>2
  <2>4. m \in 2..N /\ m - 1 \in 1..N /\ m - 1 \notin T
    BY <1>1, <2>2, <2>3
  <2> QED
    BY <1>8, <1>12, <2>2, <2>4
<1>14. J[N] = h[N]
  BY <1>1, <1>13
<1> QED
  BY <1>8, <1>11, <1>14

(***************************************************************************)
(* The extents that are reported are those that were found, and none       *)
(* touches the next.                                                       *)
(***************************************************************************)
LEMMA CoalescedIs ==
  ASSUME NEW found \in Seq((0..Capacity) \X (0..Capacity)), found # <<>>,
         Within(found), Ordered(found)
  PROVE  /\ Coalesced(found) \in Seq((0..Capacity) \X (0..Capacity))
         /\ Within(Coalesced(found)) /\ Tidy(Coalesced(found))
         /\ Cover(Coalesced(found)) = Cover(found)
<1> DEFINE N == Len(found)
<1>1. N \in Nat /\ N >= 1 /\ \A i \in 1..N : found[i] \in Region
  BY DataAssumption DEF Region
<1>2. found \in Seq(Region)
  <2>1. (0..Capacity) \X (0..Capacity) \subseteq Region
    BY DataAssumption DEF Region
  <2> QED
    BY <2>1, SeqOfLess
<1>3. PICK g \in [1..N -> Seq(Region)] :
        /\ Coalesced(found) = g[N]
        /\ g[1] = <<found[1]>>
        /\ \A i \in 2..N : g[i] = Join(g[i - 1], found[i])
  BY <1>2, JoinedExists
<1> DEFINE FoundBy(i) == UNION {Extent(found[j]) : j \in 1..i}
           Good(i) == /\ g[i] # <<>> /\ Tidy(g[i]) /\ Within(g[i])
                      /\ End(g[i]) = found[i][1] + found[i][2]
                      /\ Cover(g[i]) = FoundBy(i)
           T == {i \in 1..N : ~Good(i)}
<1>4. \A i \in 1..N : found[i][1] + found[i][2] <= Capacity
  BY DEF Within
<1>5. Good(1)
  <2> DEFINE one == <<found[1]>>
  <2>1. /\ one # <<>> /\ Len(one) = 1 /\ one[1] = found[1]
    OBVIOUS
  <2>2. 1..1 = {1} /\ 1..(1 - 1) = {} /\ 1 \in 1..N
    BY <1>1
  <2> HIDE DEF one
  <2>3. Tidy(one) /\ Within(one) /\ End(one) = found[1][1] + found[1][2]
    BY <1>4, <2>1, <2>2 DEF Tidy, Within, End
  <2>4. Cover(one) = FoundBy(1)
    BY <2>1, <2>2 DEF Cover
  <2> QED
    BY <1>3, <2>1, <2>3, <2>4 DEF one
<1>6. T = {}
  <2> SUFFICES ASSUME T # {} PROVE FALSE
    OBVIOUS
  <2>1. T \in SUBSET Nat
    OBVIOUS
  <2>2. PICK m \in T : \A k \in T : m <= k
    <3> HIDE DEF T
    <3> QED
      BY <2>1, LeastNat
  <2>3. m \in 2..N /\ m - 1 \in 1..N /\ m \in 1..N
    <3>1. m \in 1..N /\ m # 1
      BY <1>5, <2>2
    <3> HIDE DEF T, N
    <3> QED
      BY <1>1, <3>1
  <2>4. m - 1 \notin T
    <3> HIDE DEF T, N
    <3> QED
      BY <1>1, <2>2, <2>3
  <2>5. Good(m - 1)
    BY <2>3, <2>4
  <2>6. g[m] = Join(g[m - 1], found[m])
    BY <1>3, <2>3
  <2>7. /\ g[m - 1] \in Seq(Region) /\ found[m] \in Region
        /\ found[m][1] + found[m][2] <= Capacity
    BY <1>1, <1>3, <1>4, <2>3
  <2>8. End(g[m - 1]) <= found[m][1]
    <3>1. m - 1 \in 1..(N - 1) /\ (m - 1) + 1 = m
      BY <1>1, <2>3
    <3>2. found[m - 1][1] + found[m - 1][2] <= found[(m - 1) + 1][1]
      BY <3>1 DEF Ordered
    <3> QED
      BY <2>5, <3>1, <3>2
  <2>9. /\ g[m] # <<>> /\ Tidy(g[m]) /\ Within(g[m]) /\ End(g[m]) = found[m][1] + found[m][2]
        /\ Cover(g[m]) = Cover(g[m - 1]) \cup Extent(found[m])
    <3> HIDE DEF T
    <3> QED
      BY <2>5, <2>6, <2>7, <2>8, JoinIs
  <2>10. FoundBy(m) = FoundBy(m - 1) \cup Extent(found[m])
    <3>1. 1..m = (1..(m - 1)) \cup {m}
      <4>1. m \in Nat /\ m >= 1
        BY <1>1, <2>3
      <4> HIDE DEF T
      <4> QED
        BY <4>1
    <3> QED
      BY <3>1
  <2>11. Good(m)
    BY <2>5, <2>9, <2>10
  <2> QED
    BY <2>2, <2>11
<1>7. Good(N)
  <2>1. N \in 1..N
    BY <1>1
  <2>2. N \notin T
    <3> HIDE DEF T
    <3> QED
      BY <1>6
  <2> HIDE DEF Good, N
  <2> QED
    BY <2>1, <2>2
<1>8. g[N] \in Seq((0..Capacity) \X (0..Capacity))
  <2> DEFINE s == g[N]
  <2>1. s \in Seq(Region) /\ Within(s)
    BY <1>1, <1>3, <1>7
  <2> HIDE DEF s
  <2>2. Len(s) \in Nat /\ \A i \in 1..Len(s) : s[i] \in Region
    BY <2>1
  <2>3. \A i \in 1..Len(s) : s[i][1] + s[i][2] <= Capacity
    BY <2>1 DEF Within
  <2>4. \A x \in Region : x[1] + x[2] <= Capacity => x \in (0..Capacity) \X (0..Capacity)
    BY DataAssumption DEF Region
  <2>5. \A i \in 1..Len(s) : s[i] \in (0..Capacity) \X (0..Capacity)
    BY <2>2, <2>3, <2>4
  <2>6. s \in Seq((0..Capacity) \X (0..Capacity))
    BY <2>1, <2>5, SMTT(20)
  <2> QED
    BY <2>6 DEF s
<1>9. Cover(found) = FoundBy(N)
  BY DEF Cover
<1> QED
  BY <1>3, <1>7, <1>8, <1>9

-----------------------------------------------------------------------------
(***************************************************************************)
(* FileData: buffers and where they go.                                    *)
(***************************************************************************)
\* The next m blocks.
After(i, x, k, m) == {<<i, k + j, (x[1] + k) + j>> : j \in 0..(m - 1)}

LEMMA SpanGrows ==
  ASSUME NEW i, NEW x, x[1] \in Nat, NEW k \in Nat, NEW m \in Nat
  PROVE  Span(i, x, k + m) = Span(i, x, k) \cup After(i, x, k, m)
<1> DEFINE rest == {<<i, k + j, (x[1] + k) + j>> : j \in 0..(m - 1)}
<1>1. ASSUME NEW j \in 0..(k + m - 1) PROVE <<i, j, x[1] + j>> \in Span(i, x, k) \cup rest
  <2>1. CASE j < k
    <3>1. j \in 0..(k - 1)
      BY <2>1
    <3> QED
      BY <3>1 DEF Span
  <2>2. CASE ~(j < k)
    <3>1. j - k \in 0..(m - 1) /\ k + (j - k) = j /\ (x[1] + k) + (j - k) = x[1] + j
      BY <2>2
    <3>2. <<i, k + (j - k), (x[1] + k) + (j - k)>> \in rest
      BY <3>1
    <3> QED
      BY <3>1, <3>2
  <2> QED
    BY <2>1, <2>2
<1>2. ASSUME NEW j \in 0..(k - 1) PROVE <<i, j, x[1] + j>> \in Span(i, x, k + m)
  <2>1. j \in 0..(k + m - 1)
    OBVIOUS
  <2> QED
    BY <2>1 DEF Span
<1>3. ASSUME NEW j \in 0..(m - 1) PROVE <<i, k + j, (x[1] + k) + j>> \in Span(i, x, k + m)
  <2>1. k + j \in 0..(k + m - 1) /\ (x[1] + k) + j = x[1] + (k + j)
    OBVIOUS
  <2> QED
    BY <2>1 DEF Span
<1> QED
  BY <1>1, <1>2, <1>3 DEF Span, After

LEMMA BeforeNext ==
  ASSUME NEW asked, NEW i \in Nat \ {0}
  PROVE  /\ Before(asked, i + 1) = Before(asked, i) \cup Span(i, asked[i], asked[i][2])
         /\ Before(asked, 1) = {}
<1>1. 1..((i + 1) - 1) = (1..(i - 1)) \cup {i} /\ 1..(1 - 1) = {}
  OBVIOUS
<1> QED
  BY <1>1 DEF Before

LEMMA WantedIs ==
  ASSUME NEW t \in Threads, ranges[t] \in Seq(Range1)
  PROVE  Wanted(t) = Before(ranges[t], Len(ranges[t]) + 1)
<1>1. DOMAIN ranges[t] = 1..((Len(ranges[t]) + 1) - 1)
  <2>1. Len(ranges[t]) \in Nat /\ DOMAIN ranges[t] = 1..Len(ranges[t])
    OBVIOUS
  <2>2. (Len(ranges[t]) + 1) - 1 = Len(ranges[t])
    BY <2>1
  <2> QED
    BY <2>1, <2>2
<1> QED
  BY <1>1 DEF Wanted, Before, Span

LEMMA MaxOfTwo ==
  ASSUME NEW a \in Int, NEW b \in Int
  PROVE  Max({a, b}) = IF a < b THEN b ELSE a
BY DEF Max

\* The range that an operation is at.
LEMMA RangeIs ==
  ASSUME Shaped, NEW t \in Threads, Counts(t), kind[t] \in Transfers
  PROVE  /\ ranges[t][r[t]] \in Range1 /\ r[t] \in 1..Len(ranges[t])
         /\ First(t) \in Block /\ Buffers(t) \in 1..MaxBuffers /\ First(t) + Buffers(t) <= Capacity
         /\ n[t] \in Nat /\ moved[t] \in Nat /\ Len(ranges[t]) \in Nat
<1>1. ranges[t] \in Seq(Range1) /\ r[t] \in 1..2 /\ r[t] <= Len(ranges[t])
      /\ n[t] \in Nat /\ moved[t] \in Nat
  BY DEF Shaped, Counts
<1>2. Len(ranges[t]) \in Nat /\ r[t] \in 1..Len(ranges[t])
  BY <1>1
<1>3. ranges[t][r[t]] \in Range1
  BY <1>1, <1>2
<1> QED
  BY <1>1, <1>2, <1>3 DEF Range1, First, Buffers

\* What the next system call asks for.
LEMMA AmountIs ==
  ASSUME Shaped, NEW t \in Threads, Counts(t), kind[t] \in Transfers, n[t] < Vecs(t)
  PROVE  /\ n[t] <= Buffers(t) /\ Amount(t) \in Nat /\ n[t] + Amount(t) = Lesser(n[t] + IovMax, Buffers(t))
         /\ moved[t] + Amount(t) <= Lesser(n[t] + IovMax, Buffers(t))
         /\ Lesser(n[t], Buffers(t)) = n[t]
         /\ n[t] + IovMax \in Nat /\ n[t] + IovMax > 0 /\ n[t] + IovMax <= MaxBuffers + IovMax
<1>1. /\ Buffers(t) \in Nat /\ Buffers(t) <= MaxBuffers /\ n[t] \in Nat /\ moved[t] \in Nat
      /\ IovMax \in Nat /\ IovMax > 0 /\ MaxBuffers \in Nat
  BY RangeIs, DataAssumption
<1>2. n[t] <= Buffers(t)
  BY <1>1 DEF Vecs
<1>3. moved[t] <= n[t]
  BY <1>1, <1>2 DEF Counts, Lesser
<1> QED
  BY <1>1, <1>2, <1>3 DEF Amount, Lesser

\* What a system call transfers, and what it leaves.
LEMMA TransferShapes ==
  ASSUME Shaped, NEW t \in Threads, Counts(t), kind[t] \in Transfers, n[t] < Vecs(t),
         NEW b \in Nat, NEW k \in Nat, k <= Amount(t), k > 0 => b + k <= Capacity,
         Transferred(t, b, k)
  PROVE  /\ landed' \in [Threads -> SUBSET ((1..2) \X (0..MaxBuffers) \X Block)]
         /\ moved' \in [Threads -> Nat] /\ n' \in [Threads -> Nat]
         /\ landed'[t] = landed[t] \cup {<<r[t], n[t] + i, b + i>> : i \in 0..(k - 1)}
         /\ moved'[t] = moved[t] + k /\ n'[t] = n[t] + IovMax
         /\ \A u \in Threads : u # t =>
              landed'[u] = landed[u] /\ moved'[u] = moved[u] /\ n'[u] = n[u]
<1> DEFINE moved1 == {<<r[t], n[t] + i, b + i>> : i \in 0..(k - 1)}
<1>1. /\ landed \in [Threads -> SUBSET ((1..2) \X (0..MaxBuffers) \X Block)]
      /\ moved \in [Threads -> Nat] /\ n \in [Threads -> Nat] /\ r[t] \in 1..2
  BY DEF Shaped
<1>2. /\ n[t] + IovMax \in Nat /\ n[t] + k <= Buffers(t) /\ n[t] \in Nat
      /\ Buffers(t) \in Nat /\ Buffers(t) <= MaxBuffers /\ MaxBuffers \in Nat /\ Capacity \in Nat
  BY AmountIs, RangeIs, DataAssumption DEF Lesser
<1>3. moved1 \subseteq (1..2) \X (0..MaxBuffers) \X Block
  <2> SUFFICES ASSUME NEW i \in 0..(k - 1)
               PROVE  r[t] \in 1..2 /\ n[t] + i \in 0..MaxBuffers /\ b + i \in Block
    OBVIOUS
  <2> HIDE DEF moved1
  <2>1. k > 0 /\ b + k <= Capacity /\ i \in Nat /\ i < k
    OBVIOUS
  <2>2. n[t] + i \in 0..MaxBuffers
    BY <1>2, <2>1
  <2>3. b + i \in Block
    BY <1>2, <2>1 DEF Block
  <2> QED
    BY <1>1, <2>2, <2>3
<1> HIDE DEF moved1
<1>4. landed' = [landed EXCEPT ![t] = landed[t] \cup moved1]
  BY DEF Transferred, moved1
<1>5. moved' = [moved EXCEPT ![t] = moved[t] + k] /\ n' = [n EXCEPT ![t] = n[t] + IovMax]
  BY DEF Transferred
<1>6. moved[t] + k \in Nat
  BY <1>1
<1>7. landed[t] \cup moved1 \in SUBSET ((1..2) \X (0..MaxBuffers) \X Block)
  BY <1>1, <1>3
<1>8. landed' \in [Threads -> SUBSET ((1..2) \X (0..MaxBuffers) \X Block)]
  BY <1>1, <1>4, <1>7
<1>9. moved' \in [Threads -> Nat] /\ n' \in [Threads -> Nat]
  BY <1>1, <1>2, <1>5, <1>6
<1>10. landed'[t] = landed[t] \cup moved1
  BY <1>1, <1>4
<1>11. \A u \in Threads : u # t => landed'[u] = landed[u] /\ moved'[u] = moved[u] /\ n'[u] = n[u]
  BY <1>1, <1>4, <1>5
<1>12. moved'[t] = moved[t] + k /\ n'[t] = n[t] + IovMax
  BY <1>1, <1>5
<1> QED
  BY <1>8, <1>9, <1>10, <1>11, <1>12 DEF moved1

LEMMA TransferKeeps ==
  ASSUME Shaped, NEW t \in Threads, Local(t), pc[t] = "batch", n[t] < Vecs(t),
         NEW b \in Nat, NEW k \in Nat, k <= Amount(t), k > 0 => b + k <= Capacity,
         Transferred(t, b, k),
         kind[t] = "zero" /\ ~short'[t] => ~short[t] /\ k = Amount(t),
         kind[t] # "append" => b = Offset(t),
         kind[t] = "append" /\ k = 0 => Amount(t) = 0
  PROVE  Local(t)'
<1>1. /\ kind[t] \in Transfers /\ Kinds(t) /\ Counts(t) /\ Lands(t) /\ OnePiece(t) /\ InOrder(t)
  BY DEF Local, Kinds
<1>2. /\ pc' = pc /\ kind' = kind /\ ranges' = ranges /\ r' = r /\ seek' = seek /\ out' = out
      /\ Buffers(t)' = Buffers(t) /\ First(t)' = First(t) /\ Vecs(t)' = Vecs(t)
  BY DEF Transferred, scan, Buffers, First, Vecs
<1>3. /\ landed'[t] = landed[t] \cup {<<r[t], n[t] + i, b + i>> : i \in 0..(k - 1)}
      /\ moved'[t] = moved[t] + k /\ n'[t] = n[t] + IovMax
  BY <1>1, TransferShapes
<1>4. /\ ranges[t][r[t]] \in Range1 /\ r[t] \in 1..Len(ranges[t])
      /\ First(t) \in Block /\ Buffers(t) \in 1..MaxBuffers /\ First(t) + Buffers(t) <= Capacity
      /\ n[t] \in Nat /\ moved[t] \in Nat
  BY <1>1, RangeIs
<1>5. /\ n[t] <= Buffers(t) /\ Amount(t) \in Nat
      /\ n[t] + Amount(t) = Lesser(n[t] + IovMax, Buffers(t))
      /\ moved[t] + Amount(t) <= Lesser(n[t] + IovMax, Buffers(t))
      /\ Lesser(n[t], Buffers(t)) = n[t]
      /\ n[t] + IovMax \in Nat /\ n[t] + IovMax > 0 /\ n[t] + IovMax <= MaxBuffers + IovMax
  BY <1>1, AmountIs
<1>6. Kinds(t)'
  BY <1>1, <1>2 DEF Kinds, Transfers
<1>7. Counts(t)'
  <2>1. moved'[t] <= Lesser(n'[t], Buffers(t))
    BY <1>3, <1>4, <1>5 DEF Lesser
  <2> QED
    BY <1>1, <1>2, <1>3, <1>5, <2>1 DEF Counts
<1>8. Lands(t)'
  <2> SUFFICES ASSUME kind[t] \in {"read", "write", "zero"}, kind[t] = "zero" => ~short'[t]
               PROVE  /\ moved'[t] = Lesser(n'[t], Buffers(t)) =>
                           landed'[t] = Before(ranges[t], r[t])
                                          \cup Span(r[t], ranges[t][r[t]], moved'[t])
                      /\ kind[t] = "zero" => moved'[t] = Lesser(n'[t], Buffers(t))
    BY <1>2 DEF Lands
  <2>1. kind[t] = "zero" => moved[t] = n[t] /\ k = Amount(t)
    BY <1>1, <1>5 DEF Lands
  <2>2. kind[t] = "zero" => moved'[t] = Lesser(n'[t], Buffers(t))
    BY <1>3, <1>5, <2>1
  <2>3. ASSUME moved'[t] = Lesser(n'[t], Buffers(t))
        PROVE  landed'[t] = Before(ranges[t], r[t]) \cup Span(r[t], ranges[t][r[t]], moved'[t])
    <3>1. moved[t] <= n[t]
      BY <1>1, <1>5 DEF Counts
    <3>2. moved[t] = n[t]
      BY <1>3, <1>4, <1>5, <2>3, <3>1
    <3>3. landed[t] = Before(ranges[t], r[t]) \cup Span(r[t], ranges[t][r[t]], n[t])
      BY <1>1, <1>5, <3>2 DEF Lands
    <3>4. b = First(t) + n[t] /\ First(t) = ranges[t][r[t]][1] /\ First(t) \in Nat
      BY <1>4, <3>2 DEF Offset, First, Block
    <3>5. Span(r[t], ranges[t][r[t]], n[t] + k) =
            Span(r[t], ranges[t][r[t]], n[t]) \cup After(r[t], ranges[t][r[t]], n[t], k)
      <4>1. ranges[t][r[t]][1] \in Nat
        BY <3>4
      <4> QED
        BY <1>4, <4>1, SpanGrows
    <3> QED
      BY <1>3, <3>2, <3>3, <3>4, <3>5 DEF After
  <2> QED
    BY <2>2, <2>3
<1>9. OnePiece(t)'
  <2> SUFFICES ASSUME kind[t] = "append", Buffers(t) <= IovMax
               PROVE  /\ n'[t] >= Buffers(t)
                      /\ \E c \in Block :
                           landed'[t] = {<<1, j, c + j>> : j \in 0..(moved'[t] - 1)}
    <3>1. pc'[t] = "batch"
      BY <1>2
    <3> QED
      BY <1>2, <3>1 DEF OnePiece
  <2>1. Vecs(t) = Buffers(t) /\ r[t] = 1 /\ n[t] < Buffers(t)
    BY <1>1, <1>4 DEF Vecs, Counts
  <2>2. CASE n[t] = 0 /\ moved[t] = 0 /\ landed[t] = {}
    <3>1. k > 0
      <4>1. Amount(t) # 0
        BY <1>4, <2>2, DataAssumption DEF Amount, Lesser
      <4> QED
        BY <4>1
    <3>2. b \in Block
      BY <3>1, DataAssumption DEF Block
    <3>3. landed'[t] = {<<1, j, b + j>> : j \in 0..(k - 1)}
      <4>1. \A i \in 0..(k - 1) : 0 + i = i
        OBVIOUS
      <4> QED
        BY <1>3, <2>1, <2>2, <4>1
    <3>4. moved'[t] = k
      BY <1>3, <2>2
    <3>5. n'[t] >= Buffers(t)
      BY <1>3, <1>4, DataAssumption
    <3> QED
      BY <3>2, <3>3, <3>4, <3>5
  <2>3. CASE n[t] >= Buffers(t)
    BY <1>4, <2>1, <2>3
  <2>4. \/ n[t] = 0 /\ moved[t] = 0 /\ landed[t] = {}
        \/ n[t] >= Buffers(t)
    BY <1>1 DEF OnePiece
  <2> QED
    BY <2>2, <2>3, <2>4
<1>10. InOrder(t)'
  BY <1>1, <1>2 DEF InOrder, Transfers
<1> QED
  BY <1>6, <1>7, <1>8, <1>9, <1>10 DEF Local

-----------------------------------------------------------------------------
(***************************************************************************)
(* FileData: what a step of a thread does to it, and to the others.        *)
(***************************************************************************)
Same(u) ==
  UNCHANGED <<pc[u], kind[u], ranges[u], r[u], n[u], moved[u], landed[u], short[u], seek[u], out[u]>>

\* Those who scan the file see what happens to it.
Watch(u) ==
  kind[u] = "extents" =>
    always'[u] \subseteq always[u] \cap data' /\ ever[u] \cup data' \subseteq ever'[u]

\* An append only adds blocks beyond the end of the file.
Grows(t) ==
  kind'[t] = "append" /\ ~cut'[t] =>
    \/ landed'[t] = {}
    \/ /\ kind[t] = "append" /\ ~cut[t]
       /\ \A x \in landed'[t] : x \in landed[t] \/ x[3] >= size

Proper(t) ==
  /\ Shaped' /\ Local(t)' /\ Fits(t)' /\ Scans(t)' /\ Grows(t)
  /\ size <= size' /\ seeks' = seeks
  /\ \A u \in Threads : u # t => Same(u) /\ cut'[u] = cut[u] /\ Watch(u)

LEMMA BlockIs == Block \subseteq Nat /\ Block \subseteq 0..Capacity
BY DataAssumption DEF Block

LEMMA DataIs ==
  ASSUME DataInv, NEW t \in Threads
  PROVE  /\ Shaped /\ Local(t) /\ Kinds(t) /\ Counts(t) /\ Lands(t) /\ OnePiece(t) /\ InOrder(t)
         /\ Fits(t) /\ Scans(t)
         /\ data \subseteq Block /\ size \in Nat /\ size <= Capacity /\ Capacity \in Nat /\ Capacity > 0
<1>1. Shaped /\ Local(t) /\ Fits(t) /\ Scans(t)
  BY DEF DataInv
<1>2. Kinds(t) /\ Counts(t) /\ Lands(t) /\ OnePiece(t) /\ InOrder(t)
  BY <1>1 DEF Local
<1>3. data \subseteq 0..(size - 1) /\ size \in 0..Capacity
  BY <1>1 DEF Shaped
<1>4. Capacity \in Nat /\ Capacity > 0
  BY DataAssumption
<1>5. size \in Nat /\ size <= Capacity
  BY <1>3, <1>4
<1>6. data \subseteq Block
  BY <1>3, <1>4, <1>5 DEF Block
<1> QED
  BY <1>1, <1>2, <1>4, <1>5, <1>6

LEMMA Unseen ==
  ASSUME DataInv, UNCHANGED <<data, always, ever>>, NEW u \in Threads
  PROVE  Watch(u)
BY DataIs DEF Watch, Scans

LEMMA Stored ==
  ASSUME DataInv, NEW d \in SUBSET Block, Store(d)
  PROVE  /\ data' = d
         /\ always' \in [Threads -> SUBSET Block] /\ ever' \in [Threads -> SUBSET Block]
         /\ \A u \in Threads : Watch(u)
<1>1. always \in [Threads -> SUBSET Block] /\ ever \in [Threads -> SUBSET Block]
  BY DEF DataInv, Shaped
<1> QED
  BY <1>1 DEF Store, Watch

LEMMA PreadvStep ==
  ASSUME DataInv, NEW t \in Threads, Preadv(t)
  PROVE  Proper(t)
<1> DEFINE k == Max({0, Lesser(Amount(t), size - Offset(t))})
<1>1. /\ Shaped /\ Local(t) /\ Counts(t) /\ size \in Nat /\ size <= Capacity /\ Capacity \in Nat
      /\ kind[t] = "read" /\ kind[t] \in Transfers /\ pc[t] = "batch" /\ n[t] < Vecs(t)
      /\ Transferred(t, Offset(t), k)
  BY DataIs DEF Preadv, Batch, Transfers
<1>2. Amount(t) \in Nat /\ Offset(t) \in Nat
  BY <1>1, AmountIs, RangeIs DEF Offset, Block
<1>3. k \in Nat /\ k <= Amount(t) /\ (k > 0 => Offset(t) + k <= Capacity)
  <2>1. Lesser(Amount(t), size - Offset(t)) \in Int
    BY <1>1, <1>2 DEF Lesser
  <2>2. k = IF 0 < Lesser(Amount(t), size - Offset(t)) THEN Lesser(Amount(t), size - Offset(t)) ELSE 0
    BY <2>1, MaxOfTwo
  <2> HIDE DEF k
  <2> QED
    BY <1>1, <1>2, <2>2 DEF Lesser
<1> HIDE DEF k
<1>4. /\ landed' \in [Threads -> SUBSET ((1..2) \X (0..MaxBuffers) \X Block)]
      /\ moved' \in [Threads -> Nat] /\ n' \in [Threads -> Nat]
      /\ \A u \in Threads : u # t =>
           landed'[u] = landed[u] /\ moved'[u] = moved[u] /\ n'[u] = n[u]
  BY <1>1, <1>2, <1>3, TransferShapes
<1>5. Local(t)'
  BY <1>1, <1>2, <1>3, TransferKeeps
<1>6. UNCHANGED <<data, size, punches, seeks, short, always, ever, pc, kind, ranges, r, cut, seek, out>>
  BY <1>1 DEF Preadv, Transferred, filesystem, seen, scan
<1>7. Shaped'
  BY <1>1, <1>4, <1>6 DEF Shaped
<1>8. Fits(t)' /\ Scans(t)' /\ Grows(t)
  BY <1>1, <1>6 DEF Fits, Scans, Grows
<1>9. \A u \in Threads : u # t => Same(u) /\ cut'[u] = cut[u]
  BY <1>4, <1>6 DEF Same
<1>10. \A u \in Threads : Watch(u)
  BY <1>6, Unseen
<1> QED
  BY <1>1, <1>5, <1>6, <1>7, <1>8, <1>9, <1>10 DEF Proper

LEMMA PwritevStep ==
  ASSUME DataInv, NEW t \in Threads, Pwritev(t)
  PROVE  Proper(t)
<1>1. /\ Shaped /\ Local(t) /\ Counts(t) /\ Fits(t) /\ data \subseteq Block
      /\ size \in Nat /\ size <= Capacity /\ Capacity \in Nat
      /\ kind[t] # "read" /\ kind[t] \in Transfers /\ pc[t] = "batch" /\ n[t] < Vecs(t)
      /\ data \subseteq 0..(size - 1)
  BY DataIs DEF Pwritev, Batch, Kinds, Shaped
<1>2. Amount(t) \in Nat /\ Offset(t) \in Nat /\ Where(t) \in Nat
  <2>1. Amount(t) \in Nat /\ First(t) \in Block /\ moved[t] \in Nat
    BY <1>1, AmountIs, RangeIs
  <2>2. First(t) \in Nat
    BY <2>1, BlockIs
  <2>3. Offset(t) \in Nat
    <3>1. \A a, b \in Nat : a + b \in Nat
      OBVIOUS
    <3> QED
      BY <2>1, <2>2, <3>1 DEF Offset
  <2> QED
    BY <1>1, <2>1, <2>3 DEF Where
<1>3. PICK k \in 0..Amount(t) :
        /\ Where(t) + k <= Capacity /\ (k = 0 => Amount(t) = 0)
        /\ Transferred(t, Where(t), k)
        /\ short' = [short EXCEPT ![t] = @ \/ k < Amount(t)]
        /\ Store(data \cup Where(t)..(Where(t) + k - 1))
        /\ size' = IF k = 0 THEN size ELSE Max({size, Where(t) + k})
  BY DEF Pwritev
<1> DEFINE b == Where(t)
           d == data \cup b..(b + k - 1)
<1>4. k \in Nat /\ k <= Amount(t) /\ b \in Nat /\ b + k <= Capacity
  BY <1>2, <1>3
<1>5. d \in SUBSET Block
  <2> HIDE DEF b
  <2>1. \A x \in b..(b + k - 1) : x \in Block
    BY <1>1, <1>4 DEF Block
  <2> QED
    BY <1>1, <2>1
<1>6. /\ data' = d
      /\ always' \in [Threads -> SUBSET Block] /\ ever' \in [Threads -> SUBSET Block]
      /\ \A u \in Threads : Watch(u)
  BY <1>3, <1>5, Stored
<1>7. /\ size' \in 0..Capacity /\ size <= size' /\ (k > 0 => b + k <= size')
      /\ d \subseteq 0..(size' - 1)
  <2> HIDE DEF b
  <2>1. b + k \in Int /\ size \in Int
    BY <1>1, <1>4
  <2>2. size' = IF k = 0 THEN size ELSE IF size < b + k THEN b + k ELSE size
    BY <1>3, <2>1, MaxOfTwo DEF b
  <2>3. size' \in 0..Capacity /\ size <= size' /\ (k > 0 => b + k <= size')
    BY <1>1, <1>4, <2>2
  <2>4. \A x \in b..(b + k - 1) : x \in 0..(size' - 1)
    <3>1. \A i, j, z \in Nat : (j > 0 => i + j <= z) => \A x \in i..(i + j - 1) : x \in 0..(z - 1)
      OBVIOUS
    <3>2. b \in Nat /\ k \in Nat /\ size' \in Nat
      BY <1>1, <1>4, <2>3
    <3> QED
      BY <2>3, <3>1, <3>2
  <2>5. 0..(size - 1) \subseteq 0..(size' - 1)
    <3>1. \A a, c \in Nat : a <= c => 0..(a - 1) \subseteq 0..(c - 1)
      OBVIOUS
    <3>2. size \in Nat /\ size' \in Nat /\ size <= size'
      BY <1>1, <2>3
    <3> QED
      BY <3>1, <3>2
  <2> QED
    BY <1>1, <2>3, <2>4, <2>5
<1> HIDE DEF d
<1>8. /\ landed' \in [Threads -> SUBSET ((1..2) \X (0..MaxBuffers) \X Block)]
      /\ moved' \in [Threads -> Nat] /\ n' \in [Threads -> Nat]
      /\ landed'[t] = landed[t] \cup {<<r[t], n[t] + i, b + i>> : i \in 0..(k - 1)}
      /\ \A u \in Threads : u # t =>
           landed'[u] = landed[u] /\ moved'[u] = moved[u] /\ n'[u] = n[u]
  BY <1>1, <1>3, <1>4, TransferShapes
<1>9. /\ short' \in [Threads -> BOOLEAN]
      /\ short'[t] = (short[t] \/ k < Amount(t))
      /\ \A u \in Threads : u # t => short'[u] = short[u]
  BY <1>1, <1>3 DEF Shaped
<1>10. Local(t)'
  <2>1. kind[t] = "zero" /\ ~short'[t] => ~short[t] /\ k = Amount(t)
    BY <1>2, <1>4, <1>9
  <2>2. kind[t] # "append" => b = Offset(t)
    BY DEF Where
  <2> QED
    BY <1>1, <1>3, <1>4, <2>1, <2>2, TransferKeeps
<1>11. UNCHANGED <<punches, seeks, pc, kind, ranges, r, cut, seek, out>>
  BY <1>3 DEF Pwritev, Transferred, scan
<1>12. Shaped'
  BY <1>1, <1>6, <1>7, <1>8, <1>9, <1>11 DEF Shaped
<1>13. ASSUME kind[t] = "append" PROVE \A i \in 0..(k - 1) : b + i >= size /\ b + i < size'
  BY <1>1, <1>4, <1>7, <1>13 DEF Where
<1>14. Fits(t)'
  <2> SUFFICES ASSUME kind[t] = "append", ~cut[t], NEW x \in landed'[t] PROVE x[3] < size'
    BY <1>11 DEF Fits
  <2>1. CASE x \in landed[t]
    <3>1. x[3] < size /\ x[3] \in Block
      BY <1>1, <2>1 DEF Fits, Shaped
    <3> QED
      BY <1>1, <1>7, <3>1 DEF Block
  <2>2. CASE x \notin landed[t]
    BY <1>8, <1>13, <2>2
  <2> QED
    BY <2>1, <2>2
<1>15. Scans(t)'
  BY <1>1, <1>11 DEF Scans, Transfers
<1>16. Grows(t)
  BY <1>8, <1>11, <1>13 DEF Grows
<1>17. \A u \in Threads : u # t => Same(u) /\ cut'[u] = cut[u]
  BY <1>8, <1>9, <1>11 DEF Same
<1> QED
  BY <1>6, <1>7, <1>10, <1>11, <1>12, <1>14, <1>15, <1>16, <1>17 DEF Proper

LEMMA ResetStep ==
  ASSUME DataInv, NEW t \in Threads, Reset(t)
  PROVE  Proper(t)
<1>1. Shaped /\ Capacity \in Nat /\ size \in Nat
  BY DataIs
<1>2. /\ pc'[t] = "idle" /\ kind'[t] = "none" /\ ranges'[t] = <<>> /\ r'[t] = 1 /\ n'[t] = 0
      /\ moved'[t] = 0 /\ landed'[t] = {} /\ ~short'[t] /\ seek'[t] = 0 /\ out'[t] = <<>>
  BY <1>1 DEF Shaped, Reset, Goto
<1>3. \A u \in Threads : u # t =>
        /\ Same(u) /\ cut'[u] = cut[u] /\ always'[u] = always[u] /\ ever'[u] = ever[u]
  BY <1>1 DEF Shaped, Reset, Goto, Same
<1>4. UNCHANGED <<data, size, punches, seeks>>
  BY DEF Reset, filesystem
<1>5. Shaped'
  <2>1. <<>> \in Seq(Range1) /\ <<>> \in Seq((0..Capacity) \X (0..Capacity)) /\ "idle" \in PC
        /\ 1 \in 1..2 /\ 0 \in Nat /\ 0 \in 0..Capacity
    BY <1>1 DEF PC
  <2>2. /\ pc' \in [Threads -> PC] /\ kind' \in [Threads -> Kind \cup {"none"}]
        /\ ranges' \in [Threads -> Seq(Range1)] /\ r' \in [Threads -> 1..2]
        /\ n' \in [Threads -> Nat] /\ moved' \in [Threads -> Nat]
    BY <1>1, <2>1 DEF Shaped, Reset, Goto
  <2>3. /\ landed' \in [Threads -> SUBSET ((1..2) \X (0..MaxBuffers) \X Block)]
        /\ short' \in [Threads -> BOOLEAN] /\ cut' \in [Threads -> BOOLEAN]
    BY <1>1 DEF Shaped, Reset
  <2>4. /\ seek' \in [Threads -> 0..Capacity]
        /\ out' \in [Threads -> Seq((0..Capacity) \X (0..Capacity))]
        /\ always' \in [Threads -> SUBSET Block] /\ ever' \in [Threads -> SUBSET Block]
    BY <1>1, <2>1 DEF Shaped, Reset
  <2> QED
    BY <1>1, <1>4, <2>2, <2>3, <2>4 DEF Shaped
<1>6. Local(t)'
  BY <1>2 DEF Local, Kinds, Counts, Lands, OnePiece, InOrder, Transfers
<1>7. Fits(t)' /\ Scans(t)' /\ Grows(t)
  BY <1>2 DEF Fits, Scans, Grows
<1>8. \A u \in Threads : u # t => Watch(u)
  BY <1>3, <1>4, DataIs DEF Watch, Scans
<1> QED
  BY <1>1, <1>3, <1>4, <1>5, <1>6, <1>7, <1>8 DEF Proper

\* What does not concern the scans.
LEMMA Quiet ==
  ASSUME DataInv, NEW t \in Threads, Shaped', Local(t)',
         UNCHANGED <<filesystem, seen, cut>>,
         kind'[t] # "extents",
         kind'[t] = "append" => (kind[t] = "append" \/ landed[t] = {}) /\ landed'[t] = landed[t],
         \A u \in Threads : u # t => Same(u)
  PROVE  Proper(t)
<1>1. Shaped /\ Fits(t) /\ size \in Nat
  BY DataIs
<1>2. UNCHANGED <<data, size, punches, seeks, always, ever, cut>>
  BY DEF filesystem, seen
<1>3. Fits(t)' /\ Scans(t)' /\ Grows(t)
  BY <1>1, <1>2 DEF Fits, Scans, Grows
<1>4. \A u \in Threads : Watch(u)
  BY <1>2, Unseen
<1> QED
  BY <1>1, <1>2, <1>3, <1>4 DEF Proper

LEMMA OneOrTwo ==
  ASSUME NEW a \in 1..2, NEW b \in 1..2, a <= b
  PROVE  (a < b /\ a = 1 /\ b = 2) \/ (~(a < b) /\ a = b)
OBVIOUS

LEMMA SpanOfNone ==
  ASSUME NEW i, NEW x
  PROVE  Span(i, x, 0) = {}
<1>1. 0..(0 - 1) = {}
  OBVIOUS
<1> QED
  BY <1>1 DEF Span

LEMMA BeginStep ==
  ASSUME DataInv, NEW t \in Threads, NEW k \in Transfers, NEW asked \in Seq(Range1),
         Len(asked) \in 1..2, k # "zero" => Len(asked) = 1, Begin(t, k, asked)
  PROVE  Proper(t)
<1>1. /\ Shaped /\ Kinds(t) /\ pc[t] = "idle"
      /\ r[t] = 1 /\ n[t] = 0 /\ moved[t] = 0 /\ landed[t] = {} /\ ~short[t]
      /\ seek[t] = 0 /\ out[t] = <<>> /\ kind[t] = "none"
  BY DataIs DEF Begin, Kinds, Transfers
<1>2. /\ kind'[t] = k /\ ranges'[t] = asked /\ pc'[t] = IF k = "zero" THEN "punch" ELSE "batch"
      /\ UNCHANGED <<filesystem, r, n, moved, landed, short, cut, seek, out, seen>>
  BY <1>1 DEF Begin, Goto, Shaped, scan
<1>3. \A u \in Threads : u # t => Same(u)
  BY <1>1, <1>2 DEF Begin, Goto, Same, Shaped
<1>4. Shaped'
  <2>1. /\ pc' \in [Threads -> PC] /\ kind' \in [Threads -> Kind \cup {"none"}]
        /\ ranges' \in [Threads -> Seq(Range1)]
    BY <1>1 DEF Begin, Goto, Shaped, PC, Kind, Transfers
  <2> QED
    BY <1>1, <1>2, <2>1 DEF Shaped, filesystem, seen
<1>5. asked[1] \in Range1 /\ asked[1][2] \in Nat /\ asked[1][2] > 0 /\ IovMax \in Nat
      /\ MaxBuffers \in Nat
  BY DataAssumption DEF Range1
<1>6. Kinds(t)'
  BY <1>1, <1>2 DEF Kinds, Transfers
<1>7. Counts(t)'
  <2>1. Lesser(0, asked[1][2]) = 0
    BY <1>5 DEF Lesser
  <2> QED
    BY <1>1, <1>2, <1>5, <2>1 DEF Counts, Buffers
<1>8. Lands(t)'
  <2>1. Before(asked, 1) = {} /\ Span(1, asked[1], 0) = {}
    BY BeforeNext, SpanOfNone
  <2> QED
    BY <1>1, <1>2, <2>1 DEF Lands
<1>9. OnePiece(t)' /\ InOrder(t)'
  BY <1>1, <1>2 DEF OnePiece, InOrder, Transfers
<1>10. Local(t)'
  BY <1>6, <1>7, <1>8, <1>9 DEF Local
<1>11. k # "extents"
  BY DEF Transfers
<1> QED
  BY <1>1, <1>2, <1>3, <1>4, <1>10, <1>11, Quiet

LEMMA NextRangeStep ==
  ASSUME DataInv, NEW t \in Threads, NextRange(t)
  PROVE  Proper(t)
<1>1. /\ Shaped /\ Kinds(t) /\ Counts(t) /\ Lands(t) /\ pc[t] = "batch" /\ n[t] >= Vecs(t)
      /\ r[t] < Len(ranges[t]) /\ kind[t] \in Transfers
  BY DataIs DEF NextRange, Kinds
<1>2. /\ Len(ranges[t]) = 2 /\ r[t] = 1 /\ kind[t] = "zero"
      /\ n[t] \in Nat /\ Buffers(t) \in Nat /\ Buffers(t) > 0 /\ ranges[t] \in Seq(Range1)
  <2>1. /\ Len(ranges[t]) \in 1..2 /\ r[t] \in 1..2
        /\ (kind[t] # "zero" => Len(ranges[t]) = 1) /\ ranges[t] \in Seq(Range1)
    BY <1>1 DEF Counts, Shaped
  <2>2. n[t] \in Nat /\ Buffers(t) \in 1..MaxBuffers
    BY <1>1, RangeIs
  <2>3. Len(ranges[t]) = 2 /\ r[t] = 1
    <3>1. r[t] <= Len(ranges[t])
      BY <1>1 DEF Counts
    <3> QED
      BY <1>1, <2>1, <3>1, OneOrTwo
  <2> QED
    BY <2>1, <2>2, <2>3, DataAssumption
<1>3. /\ r'[t] = 2 /\ n'[t] = 0 /\ moved'[t] = 0
      /\ UNCHANGED <<filesystem, pc, kind, ranges, landed, short, cut, seek, out, seen>>
  BY <1>1, <1>2 DEF NextRange, Recount, Shaped, scan
<1>4. \A u \in Threads : u # t => Same(u)
  BY <1>1, <1>3 DEF NextRange, Same, Shaped
<1>5. Shaped'
  <2>1. r' \in [Threads -> 1..2] /\ n' \in [Threads -> Nat] /\ moved' \in [Threads -> Nat]
    BY <1>1, <1>2 DEF NextRange, Recount, Shaped
  <2> QED
    BY <1>1, <1>3, <2>1 DEF Shaped, filesystem, seen
<1>6. Kinds(t)'
  BY <1>1, <1>2, <1>3 DEF Kinds, Transfers
<1>7. ranges[t][2] \in Range1 /\ ranges[t][2][2] \in Nat /\ MaxBuffers \in Nat /\ IovMax \in Nat
  BY <1>2, DataAssumption DEF Range1
<1>8. Lesser(0, ranges[t][2][2]) = 0
  BY <1>7 DEF Lesser
<1>9. Counts(t)'
  BY <1>1, <1>2, <1>3, <1>7, <1>8 DEF Counts, Buffers
<1>10. Lands(t)'
  <2> SUFFICES ASSUME ~short[t] PROVE landed[t] = Before(ranges[t], 2) \cup Span(2, ranges[t][2], 0)
    BY <1>1, <1>2, <1>3, <1>8 DEF Lands, Buffers
  <2>1. moved[t] = Lesser(n[t], Buffers(t))
    BY <1>1, <1>2 DEF Lands
  <2>2. moved[t] = Buffers(t)
    BY <1>1, <1>2, <2>1 DEF Lesser, Vecs
  <2>3. landed[t] = Before(ranges[t], 1) \cup Span(1, ranges[t][1], ranges[t][1][2])
    BY <1>1, <1>2, <2>1, <2>2 DEF Lands, Buffers
  <2>4. Before(ranges[t], 1 + 1) = Before(ranges[t], 1) \cup Span(1, ranges[t][1], ranges[t][1][2])
    BY BeforeNext
  <2> QED
    BY <2>3, <2>4, SpanOfNone
<1>11. OnePiece(t)' /\ InOrder(t)'
  BY <1>2, <1>3 DEF OnePiece, InOrder
<1>12. Local(t)'
  BY <1>6, <1>9, <1>10, <1>11 DEF Local
<1> QED
  BY <1>2, <1>3, <1>4, <1>5, <1>12, Quiet

LEMMA FinishStep ==
  ASSUME DataInv, NEW t \in Threads, Finish(t)
  PROVE  Proper(t)
<1>1. /\ Shaped /\ Kinds(t) /\ Counts(t) /\ Lands(t) /\ OnePiece(t) /\ pc[t] = "batch"
      /\ n[t] >= Vecs(t) /\ r[t] = Len(ranges[t]) /\ kind[t] \in Transfers
  BY DataIs DEF Finish, Kinds
<1>2. CASE ~Complete(t)
  BY <1>2, ResetStep DEF Finish
<1>3. CASE Complete(t)
  <2>1. /\ pc'[t] = "ok"
        /\ UNCHANGED <<filesystem, kind, ranges, r, n, moved, landed, short, cut, seek, out, seen>>
    BY <1>1, <1>3 DEF Finish, Goto, Shaped, transfer, scan
  <2>2. \A u \in Threads : u # t => Same(u)
    BY <1>1, <1>3, <2>1 DEF Finish, Goto, Same, Shaped
  <2>3. Shaped'
    <3>1. pc' = [pc EXCEPT ![t] = "ok"]
      BY <1>3 DEF Finish, Goto
    <3>2. pc' \in [Threads -> PC]
      BY <1>1, <3>1 DEF Shaped, PC
    <3> QED
      BY <1>1, <2>1, <3>2 DEF Shaped, filesystem, seen
  <2>4. /\ n[t] \in Nat /\ Buffers(t) \in Nat /\ Buffers(t) > 0 /\ ranges[t] \in Seq(Range1)
        /\ moved[t] \in Nat /\ r[t] \in 1..2 /\ Len(ranges[t]) \in 1..2
        /\ (kind[t] # "zero" => r[t] = 1)
    <3>1. n[t] \in Nat /\ Buffers(t) \in 1..MaxBuffers /\ moved[t] \in Nat
      BY <1>1, RangeIs
    <3>2. ranges[t] \in Seq(Range1) /\ r[t] \in 1..2 /\ Len(ranges[t]) \in 1..2
      BY <1>1 DEF Counts, Shaped
    <3>3. kind[t] # "zero" => r[t] = 1
      BY <1>1 DEF Counts
    <3> QED
      BY <3>1, <3>2, <3>3, DataAssumption
  <2>5. Lesser(n[t], Buffers(t)) = Buffers(t)
    BY <1>1, <2>4 DEF Vecs, Lesser
  <2>6. Kinds(t)' /\ Counts(t)'
    BY <1>1, <2>1 DEF Kinds, Counts, Transfers, Buffers
  <2>7. Lands(t)'
    <3> SUFFICES ASSUME kind[t] \in {"read", "write", "zero"}, kind[t] = "zero" => ~short[t]
                 PROVE  landed[t] = Wanted(t)
      BY <2>1 DEF Lands, Wanted
    <3>1. moved[t] = Buffers(t)
      BY <1>1, <1>3, <2>5 DEF Lands, Complete
    <3>2. landed[t] = Before(ranges[t], r[t]) \cup Span(r[t], ranges[t][r[t]], ranges[t][r[t]][2])
      BY <1>1, <2>5, <3>1 DEF Lands, Buffers
    <3>3. r[t] \in Nat \ {0}
      BY <2>4
    <3>4. Before(ranges[t], r[t] + 1) =
            Before(ranges[t], r[t]) \cup Span(r[t], ranges[t][r[t]], ranges[t][r[t]][2])
      BY <3>3, BeforeNext
    <3>5. Wanted(t) = Before(ranges[t], r[t] + 1)
      BY <1>1, <2>4, WantedIs
    <3> QED
      BY <3>2, <3>4, <3>5
  <2>8. OnePiece(t)'
    <3> SUFFICES ASSUME kind[t] = "append", Buffers(t) <= IovMax
                 PROVE  \E b \in Block :
                          landed[t] = {<<1, j, b + j>> : j \in 0..(Buffers(t) - 1)}
      BY <2>1 DEF OnePiece, Buffers
    <3>1. moved[t] = Buffers(t) /\ n[t] # 0
      BY <1>1, <1>3, <2>4 DEF Complete, Vecs
    <3> QED
      BY <1>1, <3>1 DEF OnePiece
  <2>9. InOrder(t)'
    BY <1>1, <2>1 DEF InOrder, Transfers
  <2>10. Local(t)'
    BY <2>6, <2>7, <2>8, <2>9 DEF Local
  <2>11. kind[t] # "extents"
    BY <1>1 DEF Transfers
  <2> QED
    BY <2>1, <2>2, <2>3, <2>10, <2>11, Quiet
<1> QED
  BY <1>2, <1>3

LEMMA FallBackStep ==
  ASSUME DataInv, NEW t \in Threads, FallBack(t)
  PROVE  Proper(t)
<1>1. /\ Shaped /\ Kinds(t) /\ Counts(t) /\ Lands(t) /\ pc[t] = "punch" /\ kind[t] = "zero"
      /\ n[t] = 0 /\ ~short[t] /\ kind[t] \in Transfers
  BY DataIs DEF FallBack, Kinds, Transfers
<1>2. /\ pc'[t] = "batch"
      /\ UNCHANGED <<filesystem, kind, ranges, r, n, moved, landed, short, cut, seek, out, seen>>
  BY <1>1 DEF FallBack, Goto, Shaped, transfer, scan
<1>3. \A u \in Threads : u # t => Same(u)
  BY <1>1, <1>2 DEF FallBack, Goto, Same, Shaped
<1>4. Shaped'
  <2>1. pc' \in [Threads -> PC]
    BY <1>1 DEF FallBack, Goto, Shaped, PC
  <2> QED
    BY <1>1, <1>2, <2>1 DEF Shaped, filesystem, seen
<1>5. Kinds(t)' /\ Counts(t)'
  BY <1>1, <1>2 DEF Kinds, Counts, Transfers, Buffers
<1>6. Lands(t)'
  <2>1. Buffers(t) \in Nat /\ moved[t] \in Nat
    BY <1>1, RangeIs
  <2>2. Lesser(n[t], Buffers(t)) = 0 /\ moved[t] = 0
    BY <1>1, <2>1 DEF Lesser, Counts
  <2> QED
    BY <1>1, <1>2, <2>2, SpanOfNone DEF Lands, Buffers
<1>7. OnePiece(t)' /\ InOrder(t)'
  BY <1>1, <1>2 DEF OnePiece, InOrder
<1>8. Local(t)'
  BY <1>5, <1>6, <1>7 DEF Local
<1> QED
  BY <1>1, <1>2, <1>3, <1>4, <1>8, Quiet

LEMMA PunchStep ==
  ASSUME DataInv, NEW t \in Threads, Punch(t)
  PROVE  Proper(t)
<1> DEFINE hole == {<<r[t], i, First(t) + i>> : i \in 0..(Buffers(t) - 1)}
           d == data \ First(t)..(First(t) + Buffers(t) - 1)
<1>1. /\ Shaped /\ Kinds(t) /\ Counts(t) /\ Lands(t) /\ pc[t] = "punch" /\ kind[t] = "zero"
      /\ n[t] = 0 /\ ~short[t] /\ kind[t] \in Transfers /\ data \subseteq Block
      /\ size \in Nat
  BY DataIs DEF Punch, Kinds, Transfers
<1>2. /\ r[t] \in 1..2 /\ Len(ranges[t]) \in 1..2 /\ r[t] <= Len(ranges[t])
      /\ First(t) \in Block /\ Buffers(t) \in 1..MaxBuffers /\ First(t) + Buffers(t) <= Capacity
      /\ ranges[t] \in Seq(Range1)
  BY <1>1, RangeIs DEF Counts, Shaped
<1>3. /\ data' = d
      /\ always' \in [Threads -> SUBSET Block] /\ ever' \in [Threads -> SUBSET Block]
      /\ \A u \in Threads : Watch(u)
  BY <1>1, Stored DEF Punch
<1>4. hole = Span(r[t], ranges[t][r[t]], ranges[t][r[t]][2])
  BY DEF Span, First, Buffers
<1>5. hole \subseteq (1..2) \X (0..MaxBuffers) \X Block
  <2> SUFFICES ASSUME NEW i \in 0..(Buffers(t) - 1)
               PROVE  r[t] \in 1..2 /\ i \in 0..MaxBuffers /\ First(t) + i \in Block
    OBVIOUS
  <2> HIDE DEF hole, d
  <2> QED
    BY <1>2, DataAssumption DEF Block
<1> HIDE DEF hole, d
<1>6. /\ landed' = [landed EXCEPT ![t] = landed[t] \cup hole]
      /\ UNCHANGED <<size, punches, seeks, kind, ranges, n, moved, short, cut, seek, out>>
  BY DEF Punch, hole, scan
<1>7. /\ landed'[t] = landed[t] \cup hole
      /\ \A u \in Threads : u # t => landed'[u] = landed[u]
      /\ landed' \in [Threads -> SUBSET ((1..2) \X (0..MaxBuffers) \X Block)]
  BY <1>1, <1>5, <1>6 DEF Shaped
<1>8. /\ \/ r[t] = 1 /\ Len(ranges[t]) = 2 /\ r'[t] = 2 /\ pc'[t] = "punch"
         \/ r[t] = Len(ranges[t]) /\ r'[t] = r[t] /\ pc'[t] = "ok"
      /\ \A u \in Threads : u # t => r'[u] = r[u] /\ pc'[u] = pc[u]
      /\ r' \in [Threads -> 1..2] /\ pc' \in [Threads -> PC]
  <2>1. CASE r[t] < Len(ranges[t])
    <3>1. r[t] = 1 /\ Len(ranges[t]) = 2
      BY <1>2, <2>1, OneOrTwo
    <3>2. r' = [r EXCEPT ![t] = 2] /\ pc' = pc
      BY <2>1, <3>1 DEF Punch
    <3> QED
      BY <1>1, <3>1, <3>2 DEF Shaped
  <2>2. CASE ~(r[t] < Len(ranges[t]))
    <3>1. r[t] = Len(ranges[t])
      BY <1>2, <2>2, OneOrTwo
    <3>2. r' = r /\ pc' = [pc EXCEPT ![t] = "ok"]
      BY <2>2 DEF Punch, Goto
    <3> QED
      BY <1>1, <3>1, <3>2 DEF Shaped, PC
  <2> QED
    BY <2>1, <2>2
<1>9. \A u \in Threads : u # t => Same(u) /\ cut'[u] = cut[u]
  BY <1>6, <1>7, <1>8 DEF Same
<1>10. Shaped'
  <2>1. data' \subseteq 0..(size' - 1)
    BY <1>1, <1>3, <1>6 DEF Shaped, d
  <2> QED
    BY <1>1, <1>3, <1>6, <1>7, <1>8, <2>1 DEF Shaped
<1>11. Kinds(t)'
  BY <1>1, <1>6, <1>8 DEF Kinds, Transfers
<1>12. moved[t] = 0
  BY <1>1, <1>2, RangeIs DEF Counts, Lesser
<1>13. Counts(t)'
  <2>1. r'[t] \in 1..Len(ranges[t]) /\ ranges[t][r'[t]] \in Range1
    <3>1. r'[t] = Len(ranges[t])
      BY <1>8
    <3>2. Len(ranges[t]) \in 1..Len(ranges[t])
      BY <1>2
    <3> QED
      BY <1>2, <3>1, <3>2
  <2>2. Lesser(0, ranges[t][r'[t]][2]) = 0
    BY <2>1 DEF Lesser, Range1
  <2> QED
    BY <1>1, <1>2, <1>6, <1>12, <2>1, <2>2 DEF Counts, Buffers
<1>14. Lands(t)'
  <2>1. r[t] \in Nat \ {0}
    BY <1>2
  <2>2. landed'[t] = Before(ranges[t], r[t] + 1)
    <3>1. landed[t] = Before(ranges[t], r[t])
      BY <1>1 DEF Lands
    <3>2. Before(ranges[t], r[t] + 1) = Before(ranges[t], r[t]) \cup hole
      BY <1>4, <2>1, BeforeNext
    <3> QED
      BY <1>7, <3>1, <3>2
  <2>3. CASE r[t] = 1 /\ r'[t] = 2 /\ pc'[t] = "punch"
    BY <1>6, <2>2, <2>3 DEF Lands
  <2>4. CASE r[t] = Len(ranges[t]) /\ pc'[t] = "ok"
    <3>1. Wanted(t) = landed'[t]
      BY <1>2, <2>2, <2>4, WantedIs
    <3>2. Wanted(t)' = Wanted(t)
      BY <1>6 DEF Wanted
    <3> QED
      BY <2>4, <3>1, <3>2 DEF Lands
  <2> QED
    BY <1>8, <2>3, <2>4
<1>15. OnePiece(t)' /\ InOrder(t)' /\ Fits(t)' /\ Scans(t)' /\ Grows(t)
  BY <1>1, <1>6 DEF OnePiece, InOrder, Fits, Scans, Grows
<1>16. Local(t)'
  BY <1>11, <1>13, <1>14, <1>15 DEF Local
<1> QED
  BY <1>1, <1>3, <1>6, <1>9, <1>10, <1>15, <1>16 DEF Proper

\* A step of a walk.
LEMMA Walks ==
  ASSUME DataInv, NEW t \in Threads, Shaped', kind[t] \in {"none", "extents"},
         kind'[t] = "extents", pc'[t] \notin {"idle", "batch", "punch"},
         UNCHANGED <<filesystem, ranges, r, n, moved, landed, short, cut>>,
         InOrder(t)', Scans(t)',
         \A u \in Threads : u # t => Same(u) /\ always'[u] = always[u] /\ ever'[u] = ever[u]
  PROVE  Proper(t)
<1>1. Kinds(t) /\ size \in Nat
  BY DataIs
<1>2. UNCHANGED <<data, size, punches, seeks>>
  BY DEF filesystem
<1>3. Kinds(t)'
  BY <1>1 DEF Kinds, Transfers
<1>4. Counts(t)' /\ Lands(t)' /\ OnePiece(t)'
  BY DEF Counts, Lands, OnePiece, Transfers
<1>5. Fits(t)' /\ Grows(t)
  BY DEF Fits, Grows
<1>6. \A u \in Threads : u # t => Watch(u)
  BY <1>2, DataIs DEF Watch, Scans
<1> QED
  BY <1>1, <1>2, <1>3, <1>4, <1>5, <1>6 DEF Proper, Local

LEMMA ReportedIs ==
  ASSUME NEW t \in Threads, NEW S, out[t] \in Seq(S)
  PROVE  Reported(t) = Cover(out[t])
<1>1. DOMAIN out[t] = 1..Len(out[t])
  OBVIOUS
<1> QED
  BY <1>1 DEF Reported, Cover

LEMMA CoverOfNone == Cover(<<>>) = {} /\ Within(<<>>) /\ Ordered(<<>>)
<1>1. Len(<<>>) = 0 /\ 1..0 = {} /\ 1..(0 - 1) = {}
  OBVIOUS
<1> QED
  BY <1>1 DEF Cover, Within, Ordered

LEMMA ExtentsStep ==
  ASSUME DataInv, NEW t \in Threads, Extents(t)
  PROVE  Proper(t)
<1>1. /\ Shaped /\ Kinds(t) /\ pc[t] = "idle" /\ kind[t] = "none" /\ data \subseteq Block
      /\ seek[t] = 0 /\ out[t] = <<>>
  BY DataIs DEF Extents, Kinds
<1>2. /\ kind'[t] = "extents" /\ pc'[t] = "seekdata" /\ always'[t] = data /\ ever'[t] = data
      /\ UNCHANGED <<filesystem, ranges, r, n, moved, landed, short, cut, seek, out>>
  BY <1>1 DEF Extents, Goto, Shaped, scan
<1>3. \A u \in Threads : u # t => Same(u) /\ always'[u] = always[u] /\ ever'[u] = ever[u]
  BY <1>1, <1>2 DEF Extents, Goto, Same, Shaped
<1>4. Shaped'
  <2>1. /\ pc' \in [Threads -> PC] /\ kind' \in [Threads -> Kind \cup {"none"}]
        /\ always' \in [Threads -> SUBSET Block] /\ ever' \in [Threads -> SUBSET Block]
    BY <1>1 DEF Extents, Goto, Shaped, PC, Kind
  <2> QED
    BY <1>1, <1>2, <2>1 DEF Shaped, filesystem
<1>5. InOrder(t)'
  <2>1. Len(out[t]) = 0 /\ 1..0 = {}
    BY <1>1
  <2> QED
    BY <1>1, <1>2, <2>1, CoverOfNone DEF InOrder
<1>6. Scans(t)'
  <2>1. Reported(t)' = {}
    BY <1>1, <1>2 DEF Reported
  <2>2. \A b \in data : b >= 0
    BY <1>1, BlockIs
  <2> QED
    BY <1>1, <1>2, <2>1, <2>2 DEF Scans, filesystem, Walking
<1> QED
  BY <1>1, <1>2, <1>3, <1>4, <1>5, <1>6, Walks

LEMMA SeekDataStep ==
  ASSUME DataInv, NEW t \in Threads, SeekData(t)
  PROVE  Proper(t)
<1> DEFINE found == DataFrom(seek[t])
<1>1. /\ Shaped /\ Kinds(t) /\ InOrder(t) /\ Scans(t) /\ pc[t] = "seekdata" /\ kind[t] = "extents"
      /\ data \subseteq Block /\ Capacity \in Nat /\ seek[t] \in 0..Capacity
  BY DataIs DEF SeekData, Kinds, Shaped
<1>2. UNCHANGED <<filesystem, kind, ranges, r, n, moved, landed, short, cut, out, seen>>
  BY DEF SeekData, transfer
<1>3. found \subseteq data /\ \A b \in data : b >= seek[t] => b \in found
  BY DEF DataFrom
<1>4. CASE found = {}
  <2>1. pc'[t] = "report" /\ seek' = seek
    BY <1>1, <1>4 DEF SeekData, Goto, Shaped
  <2>2. \A u \in Threads : u # t => Same(u) /\ always'[u] = always[u] /\ ever'[u] = ever[u]
    BY <1>1, <1>2, <1>4 DEF SeekData, Goto, Same, Shaped, seen
  <2>3. Shaped'
    <3>1. pc' = [pc EXCEPT ![t] = "report"]
      BY <1>4 DEF SeekData, Goto
    <3>2. pc' \in [Threads -> PC]
      BY <1>1, <3>1 DEF Shaped, PC
    <3> QED
      BY <1>1, <1>2, <2>1, <3>2 DEF Shaped, filesystem, seen
  <2>4. InOrder(t)'
    BY <1>1, <1>2, <2>1 DEF InOrder, Walking
  <2>5. Scans(t)'
    <3>1. Reported(t)' = Reported(t)
      BY <1>2 DEF Reported
    <3>2. always[t] \subseteq Reported(t)
      BY <1>1, <1>3, <1>4 DEF Scans, Walking
    <3> QED
      BY <1>1, <1>2, <2>1, <3>1, <3>2 DEF Scans, Walking, filesystem, seen
  <2> QED
    BY <1>1, <1>2, <2>1, <2>2, <2>3, <2>4, <2>5, Walks
<1>5. CASE found # {}
  <2>1. Min(found) \in found /\ \A x \in found : Min(found) <= x
    <3>1. found \in SUBSET Nat
      BY <1>1, <1>3, BlockIs
    <3> HIDE DEF found
    <3> QED
      BY <1>5, <3>1, MinIs
  <2> DEFINE m == Min(found)
  <2>2. m \in Block /\ m \in 0..Capacity /\ m >= seek[t]
    <3>1. m >= seek[t] /\ m \in Block
      BY <1>1, <2>1 DEF DataFrom
    <3> QED
      BY <3>1, BlockIs
  <2>3. pc' = [pc EXCEPT ![t] = "seekhole"] /\ seek' = [seek EXCEPT ![t] = m]
    BY <1>5 DEF SeekData, Goto
  <2> HIDE DEF m
  <2>4. pc'[t] = "seekhole" /\ seek'[t] = m
    BY <1>1, <2>3 DEF Shaped
  <2>5. \A u \in Threads : u # t => Same(u) /\ always'[u] = always[u] /\ ever'[u] = ever[u]
    BY <1>1, <1>2, <2>3 DEF Same, Shaped, seen
  <2>6. Shaped'
    <3>1. pc' \in [Threads -> PC] /\ seek' \in [Threads -> 0..Capacity]
      BY <1>1, <2>2, <2>3 DEF Shaped, PC
    <3> QED
      BY <1>1, <1>2, <3>1 DEF Shaped, filesystem, seen
  <2>7. InOrder(t)'
    <3>1. \A i \in 1..Len(out[t]) : out[t][i][1] + out[t][i][2] <= m
      <4> SUFFICES ASSUME NEW i \in 1..Len(out[t]) PROVE out[t][i][1] + out[t][i][2] <= m
        OBVIOUS
      <4>1. out[t][i] \in (0..Capacity) \X (0..Capacity)
        BY <1>1 DEF Shaped
      <4>2. out[t][i][1] + out[t][i][2] <= seek[t]
        BY <1>1 DEF InOrder, Walking
      <4>3. out[t][i][1] \in Nat /\ out[t][i][2] \in Nat /\ m \in Nat /\ seek[t] \in Nat
        BY <1>1, <2>2, <4>1
      <4> QED
        BY <2>2, <4>2, <4>3
    <3> QED
      BY <1>1, <1>2, <2>4, <3>1 DEF InOrder
  <2>8. Scans(t)'
    <3>1. Reported(t)' = Reported(t)
      BY <1>2 DEF Reported
    <3>2. \A b \in always[t] : b \in Reported(t) \/ b >= m
      BY <1>1, <1>3, <2>1 DEF Scans, Walking, m
    <3> QED
      BY <1>1, <1>2, <2>4, <3>1, <3>2 DEF Scans, filesystem, seen
  <2> QED
    BY <1>1, <1>2, <2>4, <2>5, <2>6, <2>7, <2>8, Walks
<1> QED
  BY <1>4, <1>5

LEMMA SeekHoleStep ==
  ASSUME DataInv, NEW t \in Threads, SeekHole(t)
  PROVE  Proper(t)
<1> DEFINE holes == {b \in 0..size : b >= seek[t] /\ b \notin data}
           end == Min(holes)
           s == seek[t]
           o == out[t]
<1>1. /\ Shaped /\ Kinds(t) /\ InOrder(t) /\ Scans(t) /\ pc[t] = "seekhole" /\ kind[t] = "extents"
      /\ data \subseteq Block /\ Capacity \in Nat /\ s \in Nat /\ s <= Capacity
      /\ size \in Nat /\ size <= Capacity /\ data \subseteq 0..(size - 1)
      /\ o \in Seq((0..Capacity) \X (0..Capacity))
      /\ out \in [Threads -> Seq((0..Capacity) \X (0..Capacity))]
      /\ seek \in [Threads -> 0..Capacity] /\ pc \in [Threads -> PC]
  <2>1. Shaped /\ Kinds(t) /\ InOrder(t) /\ Scans(t) /\ data \subseteq Block /\ Capacity \in Nat
        /\ size \in Nat /\ size <= Capacity
    BY DataIs
  <2>2. pc[t] = "seekhole" /\ kind[t] = "extents"
    BY <2>1 DEF SeekHole, Kinds
  <2>3. /\ data \subseteq 0..(size - 1) /\ o \in Seq((0..Capacity) \X (0..Capacity))
        /\ out \in [Threads -> Seq((0..Capacity) \X (0..Capacity))]
        /\ seek \in [Threads -> 0..Capacity] /\ pc \in [Threads -> PC] /\ s \in 0..Capacity
    BY <2>1 DEF Shaped
  <2> QED
    BY <2>1, <2>2, <2>3
<1>2. UNCHANGED <<filesystem, kind, ranges, r, n, moved, landed, short, cut, seen>>
  BY DEF SeekHole, transfer
<1>3. CASE s >= size
  <2>1. pc' = [pc EXCEPT ![t] = "report"] /\ seek' = seek /\ out' = out
    BY <1>3 DEF SeekHole, Goto, scan
  <2>2. \A u \in Threads : u # t => Same(u) /\ always'[u] = always[u] /\ ever'[u] = ever[u]
    BY <1>1, <1>2, <2>1 DEF Same, seen
  <2>3. pc' \in [Threads -> PC] /\ pc'[t] = "report"
    BY <1>1, <2>1 DEF PC
  <2>4. Shaped'
    BY <1>1, <1>2, <2>1, <2>3 DEF Shaped, filesystem, seen
  <2>5. InOrder(t)'
    BY <1>1, <1>2, <2>1, <2>3 DEF InOrder, Walking
  <2>6. Scans(t)'
    <3>1. Reported(t)' = Reported(t)
      BY <2>1 DEF Reported
    <3>2. \A b \in data : ~(b >= s)
      BY <1>1, <1>3
    <3>3. always[t] \subseteq Reported(t)
      BY <1>1, <3>2 DEF Scans, Walking
    <3> QED
      BY <1>1, <1>2, <2>3, <3>1, <3>3 DEF Scans, Walking, filesystem, seen
  <2> QED
    BY <1>1, <1>2, <2>1, <2>2, <2>3, <2>4, <2>5, <2>6, Walks
<1>4. CASE ~(s >= size)
  <2>1. end \in holes /\ \A x \in holes : end <= x
    <3>1. holes \in SUBSET Nat
      BY <1>1
    <3>2. size \in holes
      BY <1>1, <1>4
    <3> HIDE DEF holes
    <3> QED
      BY <3>1, <3>2, MinIs
  <2>2. end \in Nat /\ end <= Capacity /\ s <= end
    BY <1>1, <2>1
  <2>3. \A b \in Nat : s <= b /\ b < end => b \in data
    <3> SUFFICES ASSUME NEW b \in Nat, s <= b, b < end, b \notin data PROVE FALSE
      OBVIOUS
    <3>1. b \in 0..size
      BY <1>1, <2>1
    <3>2. b \in holes
      BY <3>1
    <3> QED
      BY <2>1, <2>2, <3>2
  <2> DEFINE x == <<s, end - s>>
             new == IF end > s THEN Append(o, x) ELSE o
  <2>4. /\ pc' = [pc EXCEPT ![t] = "seekdata"] /\ seek' = [seek EXCEPT ![t] = end]
        /\ out' = [out EXCEPT ![t] = new]
    BY <1>4 DEF SeekHole, Goto
  <2>5. x \in (0..Capacity) \X (0..Capacity) /\ x[1] = s /\ x[2] = end - s /\ x[1] + x[2] = end
    BY <1>1, <2>2
  <2>6. Len(o) \in Nat /\ \A i \in 1..Len(o) : o[i] \in (0..Capacity) \X (0..Capacity)
    BY <1>1
  <2>7. /\ new \in Seq((0..Capacity) \X (0..Capacity))
        /\ end > s => /\ Len(new) = Len(o) + 1 /\ new[Len(o) + 1] = x
                      /\ \A i \in 1..Len(o) : new[i] = o[i]
        /\ ~(end > s) => new = o
    <3>1. CASE end > s
      <4> HIDE DEF x, o, end
      <4>1. Append(o, x) \in Seq((0..Capacity) \X (0..Capacity))
            /\ Len(Append(o, x)) = Len(o) + 1 /\ Append(o, x)[Len(o) + 1] = x
            /\ \A i \in 1..Len(o) : Append(o, x)[i] = o[i]
        BY <1>1, <2>5, <2>6
      <4> QED
        BY <3>1, <4>1
    <3>2. CASE ~(end > s)
      BY <1>1, <3>2
    <3> QED
      BY <3>1, <3>2
  <2>8. /\ Cover(o) = Reported(t)
        /\ Cover(new) = Cover(o) \cup {b \in Nat : s <= b /\ b < end}
    <3>1. Cover(o) = Reported(t)
      BY <1>1, ReportedIs
    <3>2. CASE end > s
      <4>1. o \in Seq(Region) /\ x \in Region
        <5>1. (0..Capacity) \X (0..Capacity) \subseteq Region
          BY <1>1 DEF Region
        <5> QED
          BY <1>1, <2>5, <5>1, SeqOfLess
      <4>2. Cover(Append(o, x)) = Cover(o) \cup Extent(x)
        BY <4>1, AppendCovers
      <4>3. Extent(x) = s..(end - 1)
        BY <1>1, <2>2 DEF Extent
      <4>4. s..(end - 1) = {b \in Nat : s <= b /\ b < end}
        <5> HIDE DEF s, end
        <5> QED
          BY <1>1, <2>2
      <4> QED
        BY <3>1, <3>2, <4>2, <4>3, <4>4
    <3>3. CASE ~(end > s)
      <4>1. {b \in Nat : s <= b /\ b < end} = {}
        <5> HIDE DEF s, end
        <5> QED
          BY <1>1, <2>2, <3>3
      <4> QED
        BY <3>1, <3>3, <4>1
    <3> QED
      BY <3>2, <3>3
  <2> HIDE DEF new, end, holes, x
  <2>9. pc'[t] = "seekdata" /\ seek'[t] = end /\ out'[t] = new
    BY <1>1, <2>4
  <2>10. \A u \in Threads : u # t => Same(u) /\ always'[u] = always[u] /\ ever'[u] = ever[u]
    BY <1>1, <1>2, <2>4 DEF Same, seen
  <2>11. Shaped'
    <3>1. pc' \in [Threads -> PC] /\ seek' \in [Threads -> 0..Capacity]
      BY <1>1, <2>2, <2>4 DEF PC
    <3>2. out' \in [Threads -> Seq((0..Capacity) \X (0..Capacity))]
      BY <1>1, <2>4, <2>7
    <3> QED
      BY <1>1, <1>2, <3>1, <3>2 DEF Shaped, filesystem, seen
  <2>12. InOrder(t)'
    <3>1. Within(o) /\ Ordered(o) /\ \A i \in 1..Len(o) : o[i][1] + o[i][2] <= s
      BY <1>1 DEF InOrder, Walking
    <3>2. \A i \in 1..Len(o) : o[i][1] \in Nat /\ o[i][2] \in Nat
      BY <1>1, <2>6
    <3> HIDE DEF o, s
    <3>3. \A i \in 1..Len(o) : o[i][1] + o[i][2] <= end
      <4>1. end \in Nat /\ s \in Nat /\ s <= end
        BY <1>1, <2>2
      <4>2. \A a, c \in Nat : a + c <= s => a + c <= end
        BY <4>1
      <4> QED
        BY <3>1, <3>2, <4>2
    <3>4. CASE end > s
      <4>1. o \in Seq(Region) /\ x \in Region
        <5>1. (0..Capacity) \X (0..Capacity) \subseteq Region
          BY <1>1 DEF Region
        <5> QED
          BY <1>1, <2>5, <5>1, SeqOfLess
      <4>2. new = Append(o, x)
        BY <3>4 DEF new
      <4>3. /\ Within(new) /\ Ordered(new)
            /\ \A i \in 1..Len(new) : new[i][1] + new[i][2] <= end
        BY <2>2, <2>5, <3>1, <4>1, <4>2, AppendInOrder
      <4> QED
        BY <1>1, <1>2, <2>9, <4>3 DEF InOrder
    <3>5. CASE ~(end > s)
      <4>1. new = o
        BY <2>7, <3>5
      <4> QED
        BY <1>1, <1>2, <2>9, <3>1, <3>3, <4>1 DEF InOrder
    <3> QED
      BY <3>4, <3>5
  <2>13. Scans(t)'
    <3>1. Reported(t)' = Reported(t) \cup {b \in Nat : s <= b /\ b < end}
      <4>1. Reported(t)' = UNION {Extent(new[i]) : i \in DOMAIN new}
        BY <2>9 DEF Reported
      <4>2. DOMAIN new = 1..Len(new)
        BY <2>7
      <4> QED
        BY <2>8, <4>1, <4>2 DEF Cover
    <3>2. \A b \in always[t] : b \in Nat /\ (b \in Reported(t) \/ b >= s)
      <4>1. \A b \in always[t] : b \in Nat
        BY <1>1, BlockIs DEF Scans
      <4> QED
        BY <1>1, <4>1 DEF Scans, Walking
    <3>3. always'[t] = always[t] /\ ever'[t] = ever[t] /\ data' = data /\ seeks' = seeks
      BY <1>2 DEF filesystem, seen
    <3>4. \A b \in always[t] : b \in Reported(t)' \/ b >= end
      <4> HIDE DEF s
      <4> QED
        BY <1>1, <2>2, <3>1, <3>2
    <3>5. seeks => Reported(t)' \subseteq ever[t]
      <4>1. \A b \in Nat : s <= b /\ b < end => b \in ever[t]
        BY <1>1, <2>3 DEF Scans
      <4> QED
        BY <1>1, <3>1, <4>1 DEF Scans
    <3> QED
      BY <1>1, <1>2, <2>9, <3>3, <3>4, <3>5 DEF Scans
  <2> QED
    BY <1>1, <1>2, <2>9, <2>10, <2>11, <2>12, <2>13, Walks
<1> QED
  BY <1>3, <1>4

LEMMA WholeFileStep ==
  ASSUME DataInv, NEW t \in Threads, WholeFile(t)
  PROVE  Proper(t)
<1> DEFINE whole == <<0, size>>
           new == <<whole>>
<1>1. /\ Shaped /\ Kinds(t) /\ Scans(t) /\ size \in Nat /\ size <= Capacity /\ Capacity \in Nat
  BY DataIs
<1>2. pc[t] = "seekdata" /\ kind[t] = "extents" /\ ~seeks /\ data \subseteq 0..(size - 1)
  BY <1>1 DEF WholeFile, Kinds, Shaped
<1>3. /\ UNCHANGED <<filesystem, kind, ranges, r, n, moved, landed, short, cut, seek, seen>>
      /\ pc' = [pc EXCEPT ![t] = "report"] /\ out' = [out EXCEPT ![t] = new]
  BY DEF WholeFile, transfer, Goto
<1>4. whole \in (0..Capacity) \X (0..Capacity) /\ whole[1] = 0 /\ whole[2] = size
  BY <1>1
<1> HIDE DEF whole
<1>5. /\ new \in Seq((0..Capacity) \X (0..Capacity)) /\ Len(new) = 1 /\ new[1] = whole
  BY <1>4
<1> HIDE DEF new
<1>6. pc'[t] = "report" /\ out'[t] = new
  BY <1>1, <1>3 DEF Shaped
<1>7. \A u \in Threads : u # t => Same(u) /\ always'[u] = always[u] /\ ever'[u] = ever[u]
  BY <1>1, <1>3 DEF Same, Shaped, seen
<1>8. Shaped'
  <2>1. pc' \in [Threads -> PC] /\ out' \in [Threads -> Seq((0..Capacity) \X (0..Capacity))]
    BY <1>1, <1>3, <1>5 DEF Shaped, PC
  <2> QED
    BY <1>1, <1>3, <2>1 DEF Shaped, filesystem, seen
<1>9. InOrder(t)'
  <2>1. 1..1 = {1} /\ 1..(1 - 1) = {}
    OBVIOUS
  <2>2. Within(new) /\ Ordered(new)
    BY <1>1, <1>4, <1>5, <2>1 DEF Within, Ordered
  <2> QED
    BY <1>6, <2>2 DEF InOrder, Walking
<1>10. Scans(t)'
  <2>1. Reported(t)' = Extent(whole)
    <3>1. Reported(t)' = UNION {Extent(new[i]) : i \in DOMAIN new}
      BY <1>6 DEF Reported
    <3>2. DOMAIN new = {1}
      BY <1>5
    <3> QED
      BY <1>5, <3>1, <3>2
  <2>2. Extent(whole) = 0..(size - 1)
    <3>1. 0 + size - 1 = size - 1
      BY <1>1
    <3> QED
      BY <1>4, <3>1 DEF Extent
  <2> QED
    BY <1>1, <1>2, <1>3, <1>6, <2>1, <2>2 DEF Scans, Walking, filesystem, seen
<1> QED
  BY <1>2, <1>3, <1>6, <1>7, <1>8, <1>9, <1>10, Walks

LEMMA ReportStep ==
  ASSUME DataInv, NEW t \in Threads, Report(t)
  PROVE  Proper(t)
<1> DEFINE new == Coalesced(out[t])
<1>1. /\ Shaped /\ Kinds(t) /\ Scans(t) /\ InOrder(t) /\ Capacity \in Nat
  BY DataIs
<1>2. /\ pc[t] = "report" /\ kind[t] = "extents" /\ out[t] # <<>>
      /\ out[t] \in Seq((0..Capacity) \X (0..Capacity))
  BY <1>1 DEF Report, Kinds, Shaped
<1>3. /\ UNCHANGED <<filesystem, kind, ranges, r, n, moved, landed, short, cut, seek, seen>>
      /\ pc' = [pc EXCEPT ![t] = "ok"] /\ out' = [out EXCEPT ![t] = new]
  BY DEF Report, transfer, Goto
<1>4. Within(out[t]) /\ Ordered(out[t])
  BY <1>1, <1>2 DEF InOrder
<1>5. /\ new \in Seq((0..Capacity) \X (0..Capacity)) /\ Within(new) /\ Tidy(new)
      /\ Cover(new) = Cover(out[t])
  BY <1>2, <1>4, CoalescedIs
<1> HIDE DEF new
<1>6. pc'[t] = "ok" /\ out'[t] = new
  BY <1>1, <1>3 DEF Shaped
<1>7. \A u \in Threads : u # t => Same(u) /\ always'[u] = always[u] /\ ever'[u] = ever[u]
  BY <1>1, <1>3 DEF Same, Shaped, seen
<1>8. Shaped'
  <2>1. pc' \in [Threads -> PC] /\ out' \in [Threads -> Seq((0..Capacity) \X (0..Capacity))]
    BY <1>1, <1>3, <1>5 DEF Shaped, PC
  <2> QED
    BY <1>1, <1>3, <2>1 DEF Shaped, filesystem, seen
<1>9. Ordered(new)
  <2> SUFFICES ASSUME NEW i \in 1..(Len(new) - 1) PROVE new[i][1] + new[i][2] <= new[i + 1][1]
    BY DEF Ordered
  <2>1. i \in 1..Len(new) /\ i + 1 \in 1..Len(new)
    BY <1>5
  <2>2. new[i] \in (0..Capacity) \X (0..Capacity) /\ new[i + 1] \in (0..Capacity) \X (0..Capacity)
    BY <1>5, <2>1
  <2>3. new[i][1] \in Nat /\ new[i][2] \in Nat /\ new[i + 1][1] \in Nat
    BY <1>1, <2>2
  <2>4. new[i][1] + new[i][2] < new[i + 1][1]
    BY <1>5 DEF Tidy
  <2> QED
    BY <2>3, <2>4
<1>10. InOrder(t)'
  BY <1>5, <1>6, <1>9 DEF InOrder, Walking
<1>11. Scans(t)'
  <2>1. Reported(t)' = Cover(new)
    <3>1. DOMAIN new = 1..Len(new)
      BY <1>5
    <3> QED
      BY <1>6, <3>1 DEF Reported, Cover
  <2>2. Reported(t) = Cover(out[t])
    BY <1>2, ReportedIs
  <2> QED
    BY <1>1, <1>2, <1>3, <1>5, <1>6, <2>1, <2>2 DEF Scans, Walking, filesystem, seen
<1> QED
  BY <1>2, <1>3, <1>6, <1>7, <1>8, <1>10, <1>11, Walks

LEMMA EmptyFrontStep ==
  ASSUME DataInv, NEW t \in Threads, EmptyFront(t)
  PROVE  Proper(t)
<1>1. Shaped /\ Kinds(t) /\ Scans(t) /\ InOrder(t)
  BY DataIs
<1>2. pc[t] = "report" /\ kind[t] = "extents"
  BY <1>1 DEF EmptyFront, Kinds
<1>3. /\ UNCHANGED <<filesystem, kind, ranges, r, n, moved, landed, short, cut, seek, out, seen>>
      /\ pc' = [pc EXCEPT ![t] = "undefined"]
  BY DEF EmptyFront, transfer, Goto, scan
<1>4. pc'[t] = "undefined" /\ pc' \in [Threads -> PC]
  BY <1>1, <1>3 DEF Shaped, PC
<1>5. \A u \in Threads : u # t => Same(u) /\ always'[u] = always[u] /\ ever'[u] = ever[u]
  BY <1>1, <1>3 DEF Same, Shaped, seen
<1>6. Shaped'
  BY <1>1, <1>3, <1>4 DEF Shaped, filesystem, seen
<1>7. InOrder(t)'
  BY <1>1, <1>2, <1>3, <1>4 DEF InOrder, Walking
<1>8. Scans(t)'
  <2>1. Reported(t)' = Reported(t)
    BY <1>3 DEF Reported
  <2> QED
    BY <1>1, <1>2, <1>3, <1>4, <2>1 DEF Scans, Walking, filesystem, seen
<1> QED
  BY <1>2, <1>3, <1>4, <1>5, <1>6, <1>7, <1>8, Walks

-----------------------------------------------------------------------------
(***************************************************************************)
(* FileData: the inductive invariant.                                      *)
(***************************************************************************)
LEMMA LocalSame ==
  ASSUME NEW u \in Threads, Local(u), Same(u)
  PROVE  Local(u)'
<1>1. Kinds(u)'
  BY DEF Local, Kinds, Same
<1>2. Counts(u)'
  BY DEF Local, Counts, Same, Buffers
<1>3. Lands(u)'
  BY DEF Local, Lands, Same, Buffers, Wanted
<1>4. OnePiece(u)'
  BY DEF Local, OnePiece, Same, Buffers
<1>5. InOrder(u)'
  BY DEF Local, InOrder, Same
<1> QED
  BY <1>1, <1>2, <1>3, <1>4, <1>5 DEF Local

LEMMA ScansSame ==
  ASSUME NEW u \in Threads, Scans(u), Same(u), Watch(u), seeks' = seeks
  PROVE  Scans(u)'
<1>1. Reported(u)' = Reported(u)
  BY DEF Same, Reported
<1> QED
  BY <1>1 DEF Scans, Same, Watch

LEMMA ProperKeeps ==
  ASSUME DataInv, NEW t \in Threads, Proper(t)
  PROVE  DataInv'
<1>1. ASSUME NEW u \in Threads PROVE (Local(u) /\ Fits(u) /\ Scans(u))'
  <2>1. CASE u = t
    BY <2>1 DEF Proper
  <2>2. CASE u # t
    <3>1. /\ Same(u) /\ cut'[u] = cut[u] /\ Watch(u) /\ seeks' = seeks /\ size <= size'
          /\ size \in Nat /\ size' \in Nat
      BY <2>2, DataAssumption DEF Proper, DataInv, Shaped
    <3>2. Local(u) /\ Fits(u) /\ Scans(u)
      BY DataIs
    <3>3. Fits(u)'
      <4> SUFFICES ASSUME kind[u] = "append", ~cut[u], NEW x \in landed[u] PROVE x[3] < size'
        BY <3>1 DEF Fits, Same
      <4>1. x[3] < size /\ x[3] \in Nat
        <5>1. x[3] \in Block
          BY DEF DataInv, Shaped
        <5> QED
          BY <3>2, <5>1, BlockIs DEF Fits
      <4> QED
        BY <3>1, <4>1
    <3> QED
      BY <3>1, <3>2, <3>3, LocalSame, ScansSame
  <2> QED
    BY <2>1, <2>2
<1>2. ASSUME NEW u \in Threads, u # t, kind'[t] = "append", kind'[u] = "append", ~cut'[t], ~cut'[u]
      PROVE  Blocks(t)' \cap Blocks(u)' = {}
  <2>1. kind[u] = "append" /\ ~cut[u] /\ landed'[u] = landed[u] /\ Blocks(u)' = Blocks(u)
    BY <1>2 DEF Proper, Same, Blocks
  <2>2. \A x \in landed[u] : x[3] < size /\ x[3] \in Nat
    <3>1. \A x \in landed[u] : x[3] \in Block
      BY DEF DataInv, Shaped
    <3> QED
      BY <2>1, <3>1, BlockIs, DataIs DEF Fits
  <2>3. CASE landed'[t] = {}
    BY <2>3 DEF Blocks
  <2>4. CASE /\ kind[t] = "append" /\ ~cut[t]
             /\ \A x \in landed'[t] : x \in landed[t] \/ x[3] >= size
    <3>1. Blocks(t) \cap Blocks(u) = {}
      BY <1>2, <2>1, <2>4 DEF DataInv, Apart
    <3>2. size \in Nat
      BY DataIs
    <3> SUFFICES ASSUME NEW x \in landed'[t], NEW y \in landed[u], x[3] = y[3] PROVE FALSE
      BY <2>1 DEF Blocks
    <3>3. CASE x \in landed[t]
      BY <3>1, <3>3 DEF Blocks
    <3>4. CASE x[3] >= size
      BY <2>2, <3>2, <3>4
    <3> QED
      BY <2>4, <3>3, <3>4
  <2> QED
    BY <1>2, <2>3, <2>4 DEF Proper, Grows
<1>3. Apart'
  <2> SUFFICES ASSUME NEW u \in Threads, NEW v \in Threads, u # v,
                      kind'[u] = "append", kind'[v] = "append", ~cut'[u], ~cut'[v]
               PROVE  Blocks(u)' \cap Blocks(v)' = {}
    BY DEF Apart
  <2>1. CASE u = t
    BY <1>2, <2>1
  <2>2. CASE v = t
    BY <1>2, <2>2
  <2>3. CASE u # t /\ v # t
    <3>1. /\ kind[u] = "append" /\ kind[v] = "append" /\ ~cut[u] /\ ~cut[v]
          /\ Blocks(u)' = Blocks(u) /\ Blocks(v)' = Blocks(v)
      BY <2>3 DEF Proper, Same, Blocks
    <3> QED
      BY <3>1 DEF DataInv, Apart
  <2> QED
    BY <2>1, <2>2, <2>3
<1> QED
  BY <1>1, <1>3 DEF DataInv, Proper

LEMMA BeginKeeps ==
  ASSUME DataInv, NEW t \in Threads, NEW k \in Transfers, NEW asked \in Seq(Range1),
         Len(asked) = 1 \/ (Len(asked) = 2 /\ k = "zero"), Begin(t, k, asked)
  PROVE  DataInv'
<1>1. Len(asked) \in 1..2 /\ (k # "zero" => Len(asked) = 1)
  OBVIOUS
<1>2. Proper(t)
  BY <1>1, BeginStep
<1> QED
  BY <1>2, ProperKeeps

LEMMA TruncateStep ==
  ASSUME DataInv, NEW s \in 0..Capacity, Truncate(s)
  PROVE  DataInv'
<1> DEFINE d == {b \in data : b < s}
<1>1. Shaped /\ size \in Nat /\ data \subseteq Block /\ s \in Nat /\ Capacity \in Nat
  BY DataAssumption DEF DataInv, Shaped, Block, Truncate
<1>2. /\ data' = d
      /\ always' \in [Threads -> SUBSET Block] /\ ever' \in [Threads -> SUBSET Block]
      /\ \A u \in Threads : Watch(u)
  BY <1>1, Stored DEF Truncate
<1>3. /\ UNCHANGED <<punches, seeks, pc, kind, ranges, r, n, moved, landed, short, seek, out>>
      /\ size' = s /\ cut' = IF s < size THEN [t \in Threads |-> pc[t] # "idle"] ELSE cut
  BY DEF Truncate, transfer, scan
<1>4. d \subseteq 0..(s - 1)
  <2> SUFFICES ASSUME NEW b \in data, b < s PROVE b \in 0..(s - 1)
    OBVIOUS
  <2>1. b \in Nat
    BY <1>1, BlockIs
  <2> QED
    BY <1>1, <2>1
<1> HIDE DEF d
<1>5. Shaped'
  <2>1. cut' \in [Threads -> BOOLEAN] /\ data' \subseteq 0..(size' - 1) /\ size' \in 0..Capacity
    BY <1>1, <1>2, <1>3, <1>4 DEF Shaped
  <2> QED
    BY <1>1, <1>2, <1>3, <2>1 DEF Shaped
<1>6. ASSUME NEW u \in Threads PROVE (Local(u) /\ Fits(u) /\ Scans(u))'
  <2>1. Same(u) /\ Local(u) /\ Scans(u) /\ Kinds(u)
    BY <1>3, DataIs DEF Same
  <2>2. Local(u)' /\ Scans(u)'
    BY <1>2, <1>3, <2>1, LocalSame, ScansSame
  <2>3. CASE s < size
    BY <1>3, <2>1, <2>2, <2>3 DEF Fits, Kinds
  <2>4. CASE size <= s
    <3>1. Fits(u) /\ kind'[u] = kind[u] /\ landed'[u] = landed[u] /\ cut'[u] = cut[u]
      BY <1>1, <1>3, <2>4 DEF DataInv
    <3>2. \A x \in landed[u] : x[3] \in Nat
      <4>1. \A x \in landed[u] : x[3] \in Block
        BY <1>1 DEF Shaped
      <4> QED
        BY <4>1, BlockIs
    <3>3. Fits(u)'
      BY <1>1, <1>3, <2>4, <3>1, <3>2 DEF Fits
    <3> QED
      BY <2>2, <3>3
  <2> QED
    BY <1>1, <2>3, <2>4
<1>7. Apart'
  <2>1. CASE s < size
    <3>1. \A u \in Threads : kind'[u] = "append" => cut'[u]
      BY <1>3, <2>1, DataIs DEF Kinds
    <3> QED
      BY <3>1 DEF Apart
  <2>2. CASE ~(s < size)
    BY <1>3, <2>2 DEF DataInv, Apart, Blocks
  <2> QED
    BY <2>1, <2>2
<1> QED
  BY <1>5, <1>6, <1>7 DEF DataInv

LEMMA DataInvInit == DataInit => DataInv
<1> SUFFICES ASSUME DataInit PROVE DataInv
  OBVIOUS
<1>1. Shaped
  <2>1. <<>> \in Seq(Range1) /\ <<>> \in Seq((0..Capacity) \X (0..Capacity)) /\ "idle" \in PC
        /\ 0 \in 0..Capacity /\ Capacity \in Nat
    BY DataAssumption DEF PC
  <2> QED
    BY <2>1 DEF DataInit, Shaped
<1>2. ASSUME NEW t \in Threads PROVE Local(t) /\ Fits(t) /\ Scans(t)
  <2>1. Kinds(t)
    BY DEF DataInit, Kinds, Transfers
  <2>2. Counts(t) /\ Lands(t) /\ OnePiece(t) /\ InOrder(t)
    BY DEF DataInit, Counts, Lands, OnePiece, InOrder, Transfers
  <2>3. Fits(t) /\ Scans(t)
    BY DEF DataInit, Fits, Scans
  <2> QED
    BY <2>1, <2>2, <2>3 DEF Local
<1>3. Apart
  BY DEF DataInit, Apart
<1> QED
  BY <1>1, <1>2, <1>3 DEF DataInv

LEMMA DataInvStep == DataInv /\ [DataNext]_datavars => DataInv'
<1> SUFFICES ASSUME DataInv, [DataNext]_datavars PROVE DataInv'
  OBVIOUS
<1>1. ASSUME NEW s \in 0..Capacity, Truncate(s) PROVE DataInv'
  BY <1>1, TruncateStep
<1>2. ASSUME NEW t \in Threads, NEW k \in {"read", "write"}, NEW x \in Range1, Begin(t, k, <<x>>)
      PROVE  DataInv'
  <2> DEFINE asked == <<x>>
  <2>1. asked \in Seq(Range1) /\ Len(asked) = 1 /\ k \in Transfers /\ Begin(t, k, asked)
    BY <1>2 DEF Transfers
  <2> HIDE DEF asked
  <2> QED
    BY <2>1, BeginKeeps
<1>3. ASSUME NEW t \in Threads, NEW k \in 1..MaxBuffers, Begin(t, "append", <<<<0, k>>>>)
      PROVE  DataInv'
  <2>1. <<0, k>> \in Range1
    BY DataAssumption DEF Range1, Block
  <2>2. <<<<0, k>>>> \in Seq(Range1) /\ Len(<<<<0, k>>>>) = 1 /\ "append" \in Transfers
    BY <2>1 DEF Transfers
  <2> QED
    BY <1>3, <2>2, BeginKeeps
<1>4. ASSUME NEW t \in Threads, NEW x \in Range1, Begin(t, "zero", <<x>>) PROVE DataInv'
  <2> DEFINE asked == <<x>>
  <2>1. asked \in Seq(Range1) /\ Len(asked) = 1 /\ Begin(t, "zero", asked)
    BY <1>4
  <2> HIDE DEF asked
  <2> QED
    BY <2>1, BeginKeeps DEF Transfers
<1>5. ASSUME NEW t \in Threads, NEW x \in Range1, NEW y \in Range1, Begin(t, "zero", <<x, y>>)
      PROVE  DataInv'
  <2> DEFINE asked == <<x, y>>
  <2>1. asked \in Seq(Range1) /\ Len(asked) = 2 /\ Begin(t, "zero", asked)
    BY <1>5
  <2> HIDE DEF asked
  <2> QED
    BY <2>1, BeginKeeps DEF Transfers
<1>6. ASSUME NEW t \in Threads, Preadv(t) \/ Pwritev(t) \/ NextRange(t) \/ Finish(t)
      PROVE  DataInv'
  BY <1>6, PreadvStep, PwritevStep, NextRangeStep, FinishStep, ProperKeeps
<1>7. ASSUME NEW t \in Threads, Error(t) \/ Return(t) PROVE DataInv'
  BY <1>7, ResetStep, ProperKeeps DEF Error, Return
<1>8. ASSUME NEW t \in Threads, Punch(t) \/ FallBack(t) PROVE DataInv'
  BY <1>8, PunchStep, FallBackStep, ProperKeeps
<1>9. ASSUME NEW t \in Threads,
             \/ Extents(t) \/ SeekData(t) \/ SeekHole(t)
             \/ WholeFile(t) \/ Report(t) \/ EmptyFront(t)
      PROVE  DataInv'
  BY <1>9, ExtentsStep, SeekDataStep, SeekHoleStep, WholeFileStep, ReportStep, EmptyFrontStep,
     ProperKeeps
<1>10. CASE UNCHANGED datavars
  <2>1. UNCHANGED <<filesystem, pc, kind, ranges, r, n, moved, landed, short, cut, seek, out, seen>>
    BY <1>10 DEF datavars, transfer, scan
  <2>2. UNCHANGED <<data, size, punches, seeks, always, ever>>
    BY <2>1 DEF filesystem, seen
  <2>3. Shaped'
    BY <2>1, <2>2 DEF DataInv, Shaped
  <2>4. ASSUME NEW u \in Threads PROVE (Local(u) /\ Fits(u) /\ Scans(u))'
    <3>1. Same(u) /\ Watch(u) /\ Local(u) /\ Scans(u) /\ Fits(u)
      BY <2>1, <2>2, Unseen, DataIs DEF Same
    <3>2. Local(u)' /\ Scans(u)'
      BY <2>2, <3>1, LocalSame, ScansSame
    <3>3. Fits(u)'
      BY <2>1, <2>2, <3>1 DEF Fits
    <3> QED
      BY <3>2, <3>3
  <2>5. Apart'
    BY <2>1 DEF DataInv, Apart, Blocks
  <2> QED
    BY <2>3, <2>4, <2>5 DEF DataInv
<1>11. CASE DataNext
  <2>1. CASE \E s \in 0..Capacity : Truncate(s)
    BY <1>1, <2>1
  <2>2. CASE \E t \in Threads : \E k \in {"read", "write"}, x \in Range1 : Begin(t, k, <<x>>)
    BY <1>2, <2>2
  <2>3. CASE \E t \in Threads : \E k \in 1..MaxBuffers : Begin(t, "append", <<<<0, k>>>>)
    BY <1>3, <2>3
  <2>4. CASE \E t \in Threads : \E x \in Range1 : Begin(t, "zero", <<x>>)
    BY <1>4, <2>4
  <2>5. CASE \E t \in Threads : \E x, y \in Range1 :
               x[1] + x[2] <= y[1] /\ Begin(t, "zero", <<x, y>>)
    BY <1>5, <2>5
  <2>6. CASE \E t \in Threads : Extents(t) \/ DataStep(t) \/ Return(t)
    BY <1>6, <1>7, <1>8, <1>9, <2>6 DEF DataStep
  <2> QED
    BY <1>11, <2>1, <2>2, <2>3, <2>4, <2>5, <2>6, Zenon DEF DataNext
<1> QED
  BY <1>10, <1>11

LEMMA DataInvariant == DataSpec => []DataInv
BY DataInvInit, DataInvStep, PTL DEF DataSpec

(***************************************************************************)
(* Every state of the operations has its type: no batch begins beyond the  *)
(* buffers and the one that zero() adds, none moves more than was asked,   *)
(* and no extent is beyond the largest file.                               *)
(***************************************************************************)
THEOREM DataTypes == DataSpec => []DataTypeOK
<1>1. DataInv => DataTypeOK
  <2> SUFFICES ASSUME DataInv PROVE DataTypeOK
    OBVIOUS
  <2>1. Shaped
    BY DEF DataInv
  <2>2. ASSUME NEW t \in Threads
        PROVE  /\ ranges[t] \in Seq(Range1) /\ Len(ranges[t]) <= 2
               /\ r[t] \in 1..2 /\ n[t] \in 0..(MaxBuffers + IovMax)
               /\ moved[t] \in 0..(IF ranges[t] = <<>> THEN 0 ELSE ranges[t][r[t]][2])
    <3>1. Kinds(t) /\ Counts(t) /\ ranges[t] \in Seq(Range1) /\ r[t] \in 1..2
          /\ n[t] \in Nat /\ moved[t] \in Nat /\ MaxBuffers \in Nat /\ IovMax \in Nat
      BY <2>1, DataIs, DataAssumption DEF Shaped
    <3>2. CASE kind[t] \notin Transfers
      <4>1. ranges[t] = <<>> /\ n[t] = 0 /\ moved[t] = 0
        BY <3>1, <3>2 DEF Kinds
      <4> QED
        BY <3>1, <4>1
    <3>3. CASE kind[t] \in Transfers
      <4>1. Len(ranges[t]) \in 1..2 /\ n[t] <= MaxBuffers + IovMax
            /\ moved[t] <= Lesser(n[t], Buffers(t)) /\ Buffers(t) \in 1..MaxBuffers
        BY <2>1, <3>1, <3>3, RangeIs DEF Counts
      <4>2. ranges[t] # <<>> /\ Len(ranges[t]) <= 2
        <5>1. \A m \in 1..2 : m # 0 /\ m <= 2
          OBVIOUS
        <5>2. \A q : q = <<>> => Len(q) = 0
          OBVIOUS
        <5> QED
          BY <4>1, <5>1, <5>2, Zenon
      <4>3. \A a, b, c \in Nat : a <= Lesser(b, c) => a \in 0..c
        BY DEF Lesser
      <4>4. Buffers(t) \in Nat
        BY <3>1, <4>1
      <4>5. moved[t] \in 0..Buffers(t)
        BY <3>1, <4>1, <4>3, <4>4
      <4>6. \A a, b \in Nat : a <= b => a \in 0..b
        OBVIOUS
      <4>7. n[t] \in 0..(MaxBuffers + IovMax)
        BY <3>1, <4>1, <4>6
      <4> QED
        BY <3>1, <4>2, <4>5, <4>7 DEF Buffers
    <3> QED
      BY <3>2, <3>3
  <2> QED
    BY <2>1, <2>2 DEF Shaped, DataTypeOK
<1> QED
  BY <1>1, DataInvariant, PTL

(***************************************************************************)
(* Reads, writes and zeros that succeed have been to every block asked     *)
(* for, whatever IOV_MAX, however many buffers and threads there are, and  *)
(* however short single calls are.                                         *)
(***************************************************************************)
THEOREM BuffersAllLand == DataSpec => []BuffersLand
<1>1. DataInv => BuffersLand
  BY DataIs DEF BuffersLand, Lands
<1> QED
  BY <1>1, DataInvariant, PTL

(***************************************************************************)
(* Appends of any number of threads stay out of each other's way, unless   *)
(* the file is truncated, and each that fits one batch stays in one piece. *)
(***************************************************************************)
THEOREM AppendsStayApart == DataSpec => []AppendsApart
<1>1. DataInv => AppendsApart
  <2> SUFFICES ASSUME DataInv PROVE AppendsApart
    OBVIOUS
  <2>1. Apart
    BY DEF DataInv
  <2>2. \A t \in Threads : OnePiece(t)
    BY DataIs
  <2> QED
    BY <2>1, <2>2 DEF AppendsApart, Apart, Blocks, OnePiece
<1> QED
  BY <1>1, DataInvariant, PTL

(***************************************************************************)
(* What extents() returns covers what stays data, has nothing that never   *)
(* was, and no two extents that could have been one, for a file of any     *)
(* size that others write to, zero and truncate meanwhile.                 *)
(***************************************************************************)
THEOREM ExtentsAreHonest == DataSpec => []ExtentsHonest
<1>1. DataInv => ExtentsHonest
  BY DataIs DEF ExtentsHonest, Scans, InOrder, Tidy
<1> QED
  BY <1>1, DataInvariant, PTL

=============================================================================
