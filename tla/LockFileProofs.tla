--------------------------- MODULE LockFileProofs ---------------------------
(***************************************************************************)
(* Proofs about LockFile for any processes, handles and inodes. All holds  *)
(* until a process opens the path while it destroys an actual_lock_file of *)
(* it, or a lock file is used without a mark (Undisturbed).                *)
(*                                                                         *)
(* Within a process, who constructs or destroys an actual_lock_file is     *)
(* alone on the path (SoleInv), because the constructor holds the          *)
(* registry's lock (LockedInv) and all owners share the registered object  *)
(* (SharedInv, EntryInv). So nobody's ::close() drops another's locks, and *)
(* the byte's locks say who uses the file (UseInv); then what is used is   *)
(* not unlinked (StayInv), everybody locks one inode, and the kernel's     *)
(* exclusion is the handles' (RegionInv).                                  *)
(***************************************************************************)
EXTENDS LockFile, TLAPS

Busy == Creating \cup Destroying \cup {"throwing"}
Owning == {"open", "dropping"}

\* Where a handle's actual_lock_file has its file open, says so in the last
\* byte, and knows that the name is the file's.
HasFile == Owning \cup {"opened", "indicated", "expired", "unlink", "close"}
Indicates == Owning \cup {"indicated", "expired"}
Named == Owning \cup {"expired", "unlink"}

LockedInv ==
  \A h \in Handle : at[h] \in Creating \cup {"throwing"} => lock_t[Process(h)] = h

SoleInv ==
  \A g, h \in Handle :
    Process(g) = Process(h) /\ g # h /\ at[h] \in Busy => at[g] = "none"

NoneInv == \A h \in Handle : at[h] = "none" <=> actual[h] = None

ApartInv ==
  \A g, h \in Handle :
    actual[g] = actual[h] /\ actual[h] # None => Process(g) = Process(h)

SharedInv ==
  \A h \in Handle : at[h] \in Owning => registry[Process(h)] = actual[h]

EntryInv ==
  \A p \in Processes :
    registry[p] # None => \E h \in Handle : Process(h) = p /\ actual[h] = registry[p]

ObjectInv ==
  LockedInv /\ SoleInv /\ NoneInv /\ ApartInv /\ SharedInv /\ EntryInv

FdInv == \A h \in Handle : at[h] \in HasFile => Ino(h) \in Inodes

UseInv ==
  /\ \A h \in Handle : at[h] \in Indicates => Process(h) \in inuse[Ino(h)]
  /\ \A h \in Handle : at[h] = "unlink" => deleting[Ino(h)] = Process(h)
  /\ \A i \in Inodes : deleting[i] # None => inuse[i] = {}

StayInv == \A h \in Handle : at[h] \in Named => name = Ino(h)

RegionInv ==
  /\ \A h \in Handle :
       held[h] # "unlock" => at[h] = "open" /\ region[Ino(h)][Process(h)] = held[h]
  /\ \A g, h \in Handle :
       Process(g) = Process(h) /\ g # h /\ held[h] # "unlock" => held[g] = "unlock"
  /\ \A i \in Inodes : \A p, q \in Processes :
       region[i][p] = "write_lock" /\ p # q => region[i][q] = "unlock"

FileInv == FdInv /\ UseInv /\ StayInv

LockInv == TypeOK /\ ObjectInv /\ FileInv /\ RegionInv

-----------------------------------------------------------------------------
LEMMA LabelFacts ==
  /\ \A h \in Handle : Process(h) \in Processes /\ h # None
  /\ None \notin Actuals /\ None \notin Inodes /\ None \notin Processes
  /\ Busy \subseteq Label /\ HasFile \subseteq Label /\ Indicates \subseteq HasFile
  /\ Named \subseteq HasFile
BY LockAssumption
   DEF LockAssumption, Process, Busy, HasFile, Indicates, Named, Owning,
       Label, Creating, Destroying

\* Who constructs or destroys is alone in its process, and its object its own.
LEMMA Alone ==
  ASSUME TypeOK, ObjectInv, NEW h \in Handle, at[h] \in Busy
  PROVE  /\ \A g \in Handle : g # h /\ at[g] # "none" =>
              Process(g) # Process(h) /\ actual[g] # actual[h]
         /\ actual[h] \in Actuals
BY LabelFacts DEF ObjectInv, SoleInv, NoneInv, ApartInv, TypeOK, Busy, Creating, Destroying

\* The objects stay apart in every step that works on the files alone.
LEMMA ObjectStays ==
  ASSUME TypeOK, ObjectInv, NEW h \in Handle, NEW l \in Label,
         UNCHANGED <<process, actual>>, at' = [at EXCEPT ![h] = l],
         \/ at[h] \in Creating /\ l \in Creating \cup {"throwing"}
         \/ at[h] \in Destroying /\ l \in Destroying
         \/ at[h] \in Owning /\ l \in Owning
  PROVE  ObjectInv'
<1> USE DEF TypeOK, process, Busy, Creating, Destroying, Owning
<1>1. LockedInv'
  BY DEF ObjectInv, LockedInv
<1>2. SoleInv'
  BY DEF ObjectInv, SoleInv
<1>3. NoneInv' /\ SharedInv'
  BY DEF ObjectInv, NoneInv, SharedInv
<1>4. ApartInv' /\ EntryInv'
  BY DEF ObjectInv, ApartInv, EntryInv
<1> QED
  BY <1>1, <1>2, <1>3, <1>4 DEF ObjectInv

-----------------------------------------------------------------------------
\* When a process ends, the others' objects, descriptors and locks stay.
LEMMA EndTypes ==
  ASSUME TypeOK, NEW p \in Processes, EndOf(p)
  PROVE  TypeOK'
<1> USE LabelFacts DEF TypeOK
<1>1. /\ name' = name /\ opens' = opens /\ overlapped' = overlapped /\ unmarked' = unmarked
      /\ inuse' \in [Inodes -> SUBSET Processes] /\ deleting' \in [Inodes -> Processes \cup {None}]
  BY DEF EndOf, history
<1>2. region' \in [Inodes -> [Processes -> Type]]
  BY DEF EndOf, Type
<1>3. /\ lock_t' \in [Processes -> Handle \cup {None}]
      /\ registry' \in [Processes -> Actuals \cup {None}] /\ fd' \in [Actuals -> Inodes \cup {None}]
      /\ actual' \in [Handle -> Actuals \cup {None}]
  BY DEF EndOf
<1>4. at' \in [Handle -> Label] /\ held' \in [Handle -> Type]
  BY DEF EndOf, Label, Type
<1> QED
  BY <1>1, <1>2, <1>3, <1>4

LEMMA EndStep ==
  ASSUME LockInv, NEW p \in Processes, EndOf(p)
  PROVE  LockInv'
<1> USE LabelFacts DEF TypeOK
<1>0. TypeOK /\ ObjectInv /\ FileInv /\ RegionInv
  BY DEF LockInv
<1>1. /\ name' = name
      /\ \A h \in Handle : Process(h) = p =>
           at'[h] = "none" /\ actual'[h] = None /\ held'[h] = "unlock"
      /\ \A h \in Handle : Process(h) # p =>
           at'[h] = at[h] /\ actual'[h] = actual[h] /\ held'[h] = held[h]
  BY <1>0 DEF EndOf
<1>2. /\ \A i \in Inodes : inuse'[i] = inuse[i] \ {p}
      /\ \A i \in Inodes : deleting'[i] = IF deleting[i] = p THEN None ELSE deleting[i]
      /\ \A i \in Inodes : \A q \in Processes :
           region'[i][q] = IF q = p THEN "unlock" ELSE region[i][q]
      /\ \A q \in Processes : lock_t'[q] = IF q = p THEN None ELSE lock_t[q]
      /\ \A q \in Processes : registry'[q] = IF q = p THEN None ELSE registry[q]
  BY <1>0 DEF EndOf
<1>3. \A h \in Handle : Process(h) # p /\ at[h] # "none" => Ino(h)' = Ino(h)
  <2> SUFFICES ASSUME NEW h \in Handle, Process(h) # p, at[h] # "none" PROVE Ino(h)' = Ino(h)
    OBVIOUS
  <2>1. actual[h] \in Actuals /\ \A g \in Handle : Process(g) = p => actual[g] # actual[h]
    BY <1>0 DEF ObjectInv, NoneInv, ApartInv
  <2>2. fd'[actual[h]] = fd[actual[h]]
    BY <2>1 DEF EndOf
  <2> QED
    BY <1>1, <2>2 DEF Ino
<1>4. TypeOK'
  BY <1>0, EndTypes
<1>5. ObjectInv'
  <2>1. LockedInv'
    BY <1>0, <1>1, <1>2 DEF ObjectInv, LockedInv, Creating
  <2>5. SoleInv'
    <3> SUFFICES ASSUME NEW g \in Handle, NEW h \in Handle, Process(g) = Process(h), g # h,
                        at'[h] \in Busy
                 PROVE  at'[g] = "none"
      BY DEF SoleInv
    <3>1. Process(h) # p
      BY <1>1 DEF Busy, Creating, Destroying
    <3> QED
      BY <1>0, <1>1, <3>1 DEF ObjectInv, SoleInv
  <2>2. NoneInv' /\ ApartInv'
    BY <1>0, <1>1 DEF ObjectInv, NoneInv, ApartInv
  <2>3. SharedInv'
    BY <1>0, <1>1, <1>2 DEF ObjectInv, SharedInv, Owning
  <2>4. EntryInv'
    <3> SUFFICES ASSUME NEW q \in Processes, registry'[q] # None
                 PROVE  \E f \in Handle : Process(f) = q /\ actual'[f] = registry'[q]
      BY DEF EntryInv
    <3>1. q # p /\ registry'[q] = registry[q]
      BY <1>2
    <3>2. PICK f \in Handle : Process(f) = q /\ actual[f] = registry[q]
      BY <1>0, <3>1 DEF ObjectInv, EntryInv
    <3> QED
      BY <1>1, <3>1, <3>2
  <2> QED
    BY <2>1, <2>2, <2>3, <2>4, <2>5 DEF ObjectInv
<1>6. \A h \in Handle : at'[h] \in HasFile =>
        /\ Process(h) # p /\ at'[h] = at[h] /\ Ino(h)' = Ino(h) /\ Ino(h) \in Inodes
  BY <1>0, <1>1, <1>3 DEF FileInv, FdInv, HasFile, Owning
<1>7. FileInv'
  <2>1. FdInv' /\ StayInv'
    BY <1>0, <1>1, <1>6 DEF FileInv, FdInv, StayInv
  <2>2. ASSUME NEW h \in Handle, at'[h] \in Indicates PROVE Process(h) \in inuse'[Ino(h)']
    BY <1>0, <1>2, <1>6, <2>2 DEF FileInv, UseInv
  <2>3. ASSUME NEW h \in Handle, at'[h] = "unlink" PROVE deleting'[Ino(h)'] = Process(h)
    <3>1. at'[h] \in HasFile
      BY <2>3 DEF HasFile
    <3> QED
      BY <1>0, <1>2, <1>6, <2>3, <3>1 DEF FileInv, UseInv
  <2>4. \A i \in Inodes : deleting'[i] # None => inuse'[i] = {}
    BY <1>0, <1>2 DEF FileInv, UseInv
  <2> QED
    BY <2>1, <2>2, <2>3, <2>4 DEF FileInv, UseInv
<1>8. RegionInv'
  <2>1. ASSUME NEW h \in Handle, held'[h] # "unlock"
        PROVE  at'[h] = "open" /\ region'[Ino(h)'][Process(h)] = held'[h]
    <3>1. Process(h) # p /\ at'[h] = "open" /\ region[Ino(h)][Process(h)] = held'[h]
      BY <1>0, <1>1, <2>1 DEF RegionInv
    <3> QED
      BY <1>2, <1>6, <3>1 DEF HasFile, Owning
  <2>2. \A g, h \in Handle :
          Process(g) = Process(h) /\ g # h /\ held'[h] # "unlock" => held'[g] = "unlock"
    BY <1>0, <1>1 DEF RegionInv
  <2>3. \A i \in Inodes : \A q, r \in Processes :
          region'[i][q] = "write_lock" /\ q # r => region'[i][r] = "unlock"
    BY <1>0, <1>2 DEF RegionInv
  <2> QED
    BY <2>1, <2>2, <2>3 DEF RegionInv
<1> QED
  BY <1>4, <1>5, <1>7, <1>8 DEF LockInv

-----------------------------------------------------------------------------
LEMMA OpensType ==
  ASSUME TypeOK, NEW h \in Handle, MayOpen(h)
  PROVE  opens' \in [Handle -> 0..MaxOpens] /\ overlapped' \in BOOLEAN
<1>1. opens[h] + 1 \in 0..MaxOpens
  BY LockAssumption DEF LockAssumption, TypeOK, MayOpen
<1> QED
  BY <1>1 DEF TypeOK, MayOpen

LEMMA ByteTypes ==
  ASSUME TypeOK, NEW i \in Inodes, NEW s \in SUBSET Processes,
         NEW q \in Processes \cup {None},
         inuse' = [inuse EXCEPT ![i] = s], deleting' = [deleting EXCEPT ![i] = q]
  PROVE  inuse' \in [Inodes -> SUBSET Processes] /\ deleting' \in [Inodes -> Processes \cup {None}]
BY DEF TypeOK

LEMMA LockTypes == TypeOK /\ FdInv /\ NoneInv /\ ~unmarked' /\ [Next]_vars => TypeOK'
<1> SUFFICES ASSUME TypeOK, FdInv, NoneInv, ~unmarked', [Next]_vars PROVE TypeOK'
  OBVIOUS
<1> USE LabelFacts DEF TypeOK, Label, Creating, Destroying, Goto, kernel, process, history
<1>1. ASSUME NEW h \in Handle, OpenShared(h) PROVE TypeOK'
  <2>1. registry[Process(h)] \in Actuals
    BY <1>1 DEF OpenShared
  <2> QED
    BY <1>1, <2>1, OpensType DEF OpenShared
<1>2. ASSUME NEW h \in Handle, OpenNew(h) PROVE TypeOK'
  <2>1. opens' \in [Handle -> 0..MaxOpens] /\ overlapped' \in BOOLEAN
    BY <1>2, OpensType DEF OpenNew
  <2>2. actual' \in [Handle -> Actuals \cup {None}] /\ UNCHANGED <<kernel, fd, held, unmarked>>
    BY <1>2 DEF OpenNew
  <2>3. lock_t' \in [Processes -> Handle \cup {None}] /\ registry' \in [Processes -> Actuals \cup {None}]
    BY <1>2 DEF OpenNew, Take, Register
  <2>4. at' \in [Handle -> Label]
    BY <1>2 DEF OpenNew
  <2> QED
    BY <2>1, <2>2, <2>3, <2>4
<1>3. ASSUME NEW h \in Handle, OpenThrows(h) \/ Drop(h) \/ Dropped(h) PROVE TypeOK'
  BY ZenonT(30), <1>3 DEF OpenThrows, Drop, Dropped, Type
<1>4. ASSUME NEW h \in Handle, OpenLockFile(h) PROVE TypeOK'
  BY <1>4 DEF OpenLockFile
<1>5. ASSUME NEW h \in Handle, at[h] \in HasFile, IndicateUse(h) \/ TryDelete(h)
      PROVE  TypeOK'
  <2>1. Ino(h) \in Inodes
    BY <1>5 DEF FdInv
  <2>2. inuse' \in [Inodes -> SUBSET Processes] /\ deleting' \in [Inodes -> Processes \cup {None}]
    <3>1. inuse[Ino(h)] \subseteq Processes /\ Process(h) \in Processes
      BY <2>1
    <3>2. CASE IndicateUse(h)
      <4>1. /\ inuse' = [inuse EXCEPT ![Ino(h)] = inuse[Ino(h)] \cup {Process(h)}]
            /\ deleting' = [deleting EXCEPT ![Ino(h)] = None]
        BY <3>2 DEF IndicateUse
      <4> QED
        BY <2>1, <3>1, <4>1, ByteTypes
    <3>3. CASE TryDelete(h)
      <4>1. \/ UNCHANGED <<inuse, deleting>>
            \/ /\ inuse' = [inuse EXCEPT ![Ino(h)] = inuse[Ino(h)] \ {Process(h)}]
               /\ deleting' = [deleting EXCEPT ![Ino(h)] = Process(h)]
        BY <3>3 DEF TryDelete
      <4> QED
        BY <2>1, <3>1, <4>1, ByteTypes
    <3> QED
      BY <1>5, <3>2, <3>3
  <2>3. at' \in [Handle -> Label]
    BY <1>5 DEF IndicateUse, TryDelete
  <2>4. UNCHANGED <<name, region, process, fd, actual, held, opens, history>>
    BY <1>5 DEF IndicateUse, TryDelete
  <2> QED
    BY <2>2, <2>3, <2>4
<1>6. ASSUME NEW h \in Handle, at[h] \in HasFile, OpenRetries(h) \/ CloseLockFile(h)
      PROVE  TypeOK'
  <2>1. Ino(h) \in Inodes
    BY <1>6 DEF FdInv
  <2>2. Close(h) /\ UNCHANGED <<name, process, actual, held, opens, history>>
    BY <1>6 DEF OpenRetries, CloseLockFile
  <2>3. inuse' \in [Inodes -> SUBSET Processes] /\ deleting' \in [Inodes -> Processes \cup {None}]
    BY <2>1, <2>2 DEF Close
  <2>4. region' \in [Inodes -> [Processes -> Type]] /\ fd' \in [Actuals -> Inodes \cup {None}]
    BY <2>1, <2>2 DEF Close, Type
  <2>5. at' \in [Handle -> Label]
    BY <1>6 DEF OpenRetries, CloseLockFile
  <2> QED
    BY <2>2, <2>3, <2>4, <2>5
<1>7. ASSUME NEW h \in Handle, Opened(h) PROVE TypeOK'
  BY <1>7 DEF Opened, Register, Give, NoneInv
<1>8. ASSUME NEW h \in Handle, NEW t \in Type, Lock(h, t) PROVE TypeOK'
  BY <1>8 DEF Lock
<1>9. ASSUME NEW h \in Handle, Unlink(h) PROVE TypeOK'
  BY <1>9 DEF Unlink
<1>10. ASSUME NEW h \in Handle, Erase(h) \/ EraseAgain(h) PROVE TypeOK'
  BY <1>10 DEF Erase, EraseAgain, Register
<1>11. CASE UNCHANGED vars
  BY <1>11 DEF vars
<1>12. ASSUME NEW p \in Processes, EndOf(p) PROVE TypeOK'
  BY <1>12, EndTypes
<1> QED
  BY <1>1, <1>2, <1>3, <1>4, <1>5, <1>6, <1>7, <1>8, <1>9, <1>10, <1>11, <1>12
     DEF Next, OpenStep, DropStep, Quiescent, HasFile, Owning, IndicateUse,
         TryDelete, OpenRetries, CloseLockFile, IndicateFails, Dies, UnlinkThrows

-----------------------------------------------------------------------------
\* Opening finds nobody at work on the path in the process.
LEMMA MayOpenFacts ==
  ASSUME TypeOK, ObjectInv, ~overlapped', NEW h \in Handle, MayOpen(h), Free(h)
  PROVE  /\ \A g \in Handle : Process(g) = Process(h) => at[g] \in Owning \cup {"none"}
         /\ actual[h] = None
<1>1. ASSUME NEW g \in Handle, Process(g) = Process(h) PROVE at[g] \in Owning \cup {"none"}
  <2>1. at[g] \notin Destroying
    BY <1>1 DEF MayOpen
  <2>2. at[g] \notin Creating \cup {"throwing"}
    BY <1>1, LabelFacts DEF Free, ObjectInv, LockedInv
  <2> QED
    BY <2>1, <2>2 DEF TypeOK, Label, Owning
<1> QED
  BY <1>1 DEF MayOpen, ObjectInv, NoneInv

LEMMA ObjectOpenShared ==
  ASSUME TypeOK, ObjectInv, ~overlapped', NEW h \in Handle, OpenShared(h)
  PROVE  ObjectInv'
<1> DEFINE a == registry[Process(h)]
<1> USE LabelFacts DEF TypeOK, process, Owning
<1>1. /\ a \in Actuals /\ actual' = [actual EXCEPT ![h] = a] /\ at[h] = "none"
      /\ at' = [at EXCEPT ![h] = "open"] /\ UNCHANGED process
  BY DEF OpenShared, Goto, MayOpen
<1>2. PICK g \in Handle : Process(g) = Process(h) /\ actual[g] = a
  BY <1>1 DEF ObjectInv, EntryInv
<1>3. \A f \in Handle : Process(f) = Process(h) => at[f] \in Owning \cup {"none"}
  BY MayOpenFacts DEF OpenShared
<1>4. LockedInv'
  BY <1>1 DEF ObjectInv, LockedInv, Creating
<1>5. SoleInv'
  BY <1>1, <1>3 DEF ObjectInv, SoleInv, Busy, Creating, Destroying
<1>6. NoneInv' /\ SharedInv'
  BY <1>1 DEF ObjectInv, NoneInv, SharedInv
<1>7. ApartInv'
  BY <1>1, <1>2 DEF ObjectInv, ApartInv
<1>8. EntryInv'
  <2> SUFFICES ASSUME NEW p \in Processes, registry[p] # None
               PROVE  \E f \in Handle : Process(f) = p /\ actual'[f] = registry[p]
    BY <1>1 DEF EntryInv
  <2>1. PICK f \in Handle : Process(f) = p /\ actual[f] = registry[p]
    BY DEF ObjectInv, EntryInv
  <2> QED
    BY <1>1, <2>1
<1> QED
  BY <1>4, <1>5, <1>6, <1>7, <1>8 DEF ObjectInv

LEMMA ObjectOpenNew ==
  ASSUME TypeOK, ObjectInv, ~overlapped', NEW h \in Handle, OpenNew(h)
  PROVE  ObjectInv'
<1> USE LabelFacts DEF TypeOK, process, Owning
<1>1. PICK b \in Actuals : /\ \A g \in Handle : actual[g] # b
                           /\ actual' = [actual EXCEPT ![h] = b]
  BY DEF OpenNew
<1>2. /\ at[h] = "none" /\ at' = [at EXCEPT ![h] = "lstat"]
      /\ lock_t[Process(h)] = None /\ lock_t' = [lock_t EXCEPT ![Process(h)] = h]
      /\ registry' = [registry EXCEPT ![Process(h)] = None]
  BY DEF OpenNew, Goto, MayOpen, Take, Free, Register
<1>3. \A g \in Handle : Process(g) = Process(h) => at[g] = "none"
  <2> SUFFICES ASSUME NEW g \in Handle, Process(g) = Process(h), at[g] \in Owning
               PROVE  FALSE
    BY MayOpenFacts DEF OpenNew, Take
  <2>1. registry[Process(h)] = actual[g] /\ actual[g] # None
    BY DEF ObjectInv, SharedInv, NoneInv
  <2>2. g \in Owners(registry[Process(h)])
    BY <2>1 DEF Owners
  <2> QED
    BY <2>1, <2>2 DEF OpenNew
<1>4. LockedInv'
  BY <1>2 DEF ObjectInv, LockedInv, Creating
<1>5. SoleInv'
  BY <1>2, <1>3 DEF ObjectInv, SoleInv, Busy, Creating, Destroying
<1>6. NoneInv' /\ SharedInv'
  BY <1>1, <1>2, <1>3 DEF ObjectInv, NoneInv, SharedInv
<1>7. ApartInv'
  BY <1>1 DEF ObjectInv, ApartInv
<1>8. EntryInv'
  <2> SUFFICES ASSUME NEW p \in Processes, registry'[p] # None
               PROVE  \E f \in Handle : Process(f) = p /\ actual'[f] = registry'[p]
    BY DEF EntryInv
  <2>1. PICK f \in Handle : Process(f) = p /\ actual[f] = registry[p] /\ p # Process(h)
    BY <1>2 DEF ObjectInv, EntryInv
  <2> QED
    BY <1>1, <1>2, <2>1
<1> QED
  BY <1>4, <1>5, <1>6, <1>7, <1>8 DEF ObjectInv

LEMMA ObjectOpened ==
  ASSUME TypeOK, ObjectInv, NEW h \in Handle, Opened(h)
  PROVE  ObjectInv'
<1> USE LabelFacts DEF TypeOK, Owning
<1>1. /\ at[h] = "indicated" /\ at' = [at EXCEPT ![h] = "open"] /\ UNCHANGED actual
      /\ lock_t' = [lock_t EXCEPT ![Process(h)] = None]
      /\ registry' = [registry EXCEPT ![Process(h)] = actual[h]]
  BY DEF Opened, Goto, Give, Register
<1>2. \A g \in Handle : g # h /\ at[g] # "none" => Process(g) # Process(h)
  BY <1>1, Alone DEF Busy, Creating
<1>3. LockedInv'
  BY <1>1, <1>2 DEF ObjectInv, LockedInv, Creating
<1>4. SoleInv'
  BY <1>1, <1>2 DEF ObjectInv, SoleInv, Busy, Creating, Destroying
<1>5. NoneInv' /\ SharedInv'
  BY <1>1, <1>2 DEF ObjectInv, NoneInv, SharedInv
<1>6. ApartInv' /\ EntryInv'
  BY <1>1 DEF ObjectInv, ApartInv, EntryInv
<1> QED
  BY <1>3, <1>4, <1>5, <1>6 DEF ObjectInv

LEMMA ObjectDropped ==
  ASSUME TypeOK, ObjectInv, NEW h \in Handle, Dropped(h)
  PROVE  ObjectInv'
<1> USE LabelFacts DEF TypeOK, process, Owning
<1>1. at[h] = "dropping" /\ UNCHANGED process
  BY DEF Dropped
<1>2. registry[Process(h)] = actual[h] /\ actual[h] # None
  BY <1>1 DEF ObjectInv, SharedInv, NoneInv
<1>3. CASE Owners(actual[h]) = {h}
  <2>1. at' = [at EXCEPT ![h] = "expired"] /\ UNCHANGED actual
    BY <1>3 DEF Dropped, Goto
  <2>2. \A g \in Handle : Process(g) = Process(h) /\ g # h => at[g] = "none"
    <3> SUFFICES ASSUME NEW g \in Handle, Process(g) = Process(h), g # h, at[g] # "none"
                 PROVE  FALSE
      OBVIOUS
    <3>1. at[g] \in Owning
      BY <1>1 DEF ObjectInv, SoleInv, Busy, Label
    <3>2. g \in Owners(actual[h])
      BY <1>2, <3>1 DEF ObjectInv, SharedInv, Owners
    <3> QED
      BY <1>3, <3>2
  <2>3. LockedInv'
    BY <1>1, <2>1 DEF ObjectInv, LockedInv, Creating
  <2>4. SoleInv'
    BY <1>1, <2>1, <2>2 DEF ObjectInv, SoleInv, Busy, Creating, Destroying
  <2>5. NoneInv' /\ SharedInv'
    BY <1>1, <2>1 DEF ObjectInv, NoneInv, SharedInv
  <2>6. ApartInv' /\ EntryInv'
    BY <1>1, <2>1 DEF ObjectInv, ApartInv, EntryInv
  <2> QED
    BY <2>3, <2>4, <2>5, <2>6 DEF ObjectInv
<1>4. CASE Owners(actual[h]) # {h}
  <2>1. at' = [at EXCEPT ![h] = "none"] /\ actual' = [actual EXCEPT ![h] = None]
    BY <1>4 DEF Dropped, Goto
  <2>2. h \in Owners(actual[h])
    BY <1>1 DEF Owners
  <2>3. PICK g \in Handle : g # h /\ actual[g] = actual[h]
    BY <1>4, <2>2 DEF Owners
  <2>4. Process(g) = Process(h)
    BY <1>2, <2>3 DEF ObjectInv, ApartInv
  <2>5. LockedInv'
    BY <1>1, <2>1 DEF ObjectInv, LockedInv, Creating
  <2>6. SoleInv'
    BY <1>1, <2>1 DEF ObjectInv, SoleInv, Busy, Creating, Destroying
  <2>7. NoneInv' /\ SharedInv'
    BY <1>1, <2>1 DEF ObjectInv, NoneInv, SharedInv
  <2>8. ApartInv'
    BY <2>1 DEF ObjectInv, ApartInv
  <2>9. EntryInv'
    <3> SUFFICES ASSUME NEW p \in Processes, registry[p] # None
                 PROVE  \E f \in Handle : Process(f) = p /\ actual'[f] = registry[p]
      BY <1>1 DEF EntryInv
    <3>1. PICK f \in Handle : Process(f) = p /\ actual[f] = registry[p]
      BY DEF ObjectInv, EntryInv
    <3> QED
      BY <2>1, <2>3, <2>4, <3>1
  <2> QED
    BY <2>5, <2>6, <2>7, <2>8, <2>9 DEF ObjectInv
<1> QED
  BY <1>3, <1>4

LEMMA ObjectErase ==
  ASSUME TypeOK, ObjectInv, NEW h \in Handle, Erase(h) \/ EraseAgain(h)
  PROVE  ObjectInv'
<1> USE LabelFacts DEF TypeOK, Owning
<1>1. /\ at[h] \in {"erase", "erase again"} /\ UNCHANGED lock_t
      /\ registry' = [registry EXCEPT ![Process(h)] = None]
      /\ \/ at' = [at EXCEPT ![h] = "erase again"] /\ UNCHANGED actual
         \/ at' = [at EXCEPT ![h] = "none"] /\ actual' = [actual EXCEPT ![h] = None]
  BY DEF Erase, EraseAgain, Goto, Register
<1>2. \A g \in Handle : g # h /\ at[g] # "none" => Process(g) # Process(h)
  BY <1>1, Alone DEF Busy, Destroying
<1>3. LockedInv'
  BY <1>1 DEF ObjectInv, LockedInv, Creating
<1>4. SoleInv'
  BY ZenonT(30), <1>1, <1>2 DEF ObjectInv, SoleInv, Busy, Creating, Destroying
<1>5. NoneInv' /\ SharedInv'
  BY ZenonT(30), <1>1, <1>2 DEF ObjectInv, NoneInv, SharedInv
<1>6. ApartInv'
  BY <1>1 DEF ObjectInv, ApartInv
<1>7. EntryInv'
  <2> SUFFICES ASSUME NEW p \in Processes, registry'[p] # None
               PROVE  \E f \in Handle : Process(f) = p /\ actual'[f] = registry'[p]
    BY DEF EntryInv
  <2>1. PICK f \in Handle : Process(f) = p /\ actual[f] = registry[p] /\ p # Process(h)
    BY <1>1 DEF ObjectInv, EntryInv
  <2> QED
    BY <1>1, <2>1
<1> QED
  BY <1>3, <1>4, <1>5, <1>6, <1>7 DEF ObjectInv

LEMMA ObjectStep ==
  ASSUME TypeOK, ObjectInv, ~overlapped', ~unmarked', [Next]_vars,
         ~\E p \in Processes : EndOf(p)
  PROVE  ObjectInv'
<1>1. ASSUME NEW h \in Handle,
             \/ OpenLockFile(h) \/ IndicateUse(h) \/ OpenRetries(h) \/ OpenThrows(h)
             \/ Drop(h) \/ TryDelete(h) \/ Unlink(h) \/ CloseLockFile(h)
      PROVE  ObjectInv'
  <2>1. PICK l \in Label :
          /\ UNCHANGED <<process, actual>> /\ at' = [at EXCEPT ![h] = l]
          /\ \/ at[h] \in Creating /\ l \in Creating \cup {"throwing"}
             \/ at[h] \in Destroying /\ l \in Destroying
             \/ at[h] \in Owning /\ l \in Owning
    BY <1>1
       DEF OpenLockFile, IndicateUse, OpenRetries, OpenThrows, Drop, TryDelete, Unlink,
           CloseLockFile, Goto, Creating, Destroying, Owning, Label
  <2> QED
    BY <2>1, ObjectStays
<1>2. CASE UNCHANGED <<process, actual, at>>
  BY <1>2
     DEF ObjectInv, LockedInv, SoleInv, NoneInv, ApartInv, SharedInv, EntryInv, process
<1>3. ASSUME NEW h \in Handle, NEW t \in Type, Lock(h, t) PROVE ObjectInv'
  BY <1>2, <1>3 DEF Lock
<1>4. CASE UNCHANGED vars
  BY <1>2, <1>4 DEF vars
<1> QED
  BY <1>1, <1>3, <1>4, ObjectOpenShared, ObjectOpenNew, ObjectOpened, ObjectDropped,
     ObjectErase, LabelFacts
     DEF Next, OpenStep, DropStep, Quiescent, IndicateFails, Dies, UnlinkThrows

-----------------------------------------------------------------------------
\* Where a step leaves the last byte's locks alone, the file's users still are.
LEMMA FileStays ==
  ASSUME TypeOK, FileInv, NEW h \in Handle, NEW l \in Label,
         UNCHANGED <<kernel, fd>>, at' = [at EXCEPT ![h] = l],
         \A g \in Handle : at'[g] \in HasFile => actual'[g] = actual[g],
         l \in HasFile => at[h] \in HasFile,
         l \in Indicates => at[h] \in Indicates,
         l \in Named => at[h] \in Named,
         l # "unlink"
  PROVE  FileInv'
<1> USE LabelFacts DEF TypeOK, kernel
<1>1. \A g \in Handle : at'[g] \in HasFile => Ino(g)' = Ino(g)
  BY DEF Ino
<1>2. FdInv'
  BY <1>1 DEF FileInv, FdInv
<1>3. UseInv'
  BY <1>1 DEF FileInv, UseInv, HasFile
<1>4. StayInv'
  BY <1>1 DEF FileInv, StayInv
<1> QED
  BY <1>2, <1>3, <1>4 DEF FileInv

\* The registered object that OpenShared() takes over is one that has its file.
LEMMA FileOpenShared ==
  ASSUME TypeOK, ObjectInv, FileInv, NEW h \in Handle, OpenShared(h)
  PROVE  FileInv'
<1> USE LabelFacts DEF TypeOK, kernel
<1> DEFINE a == registry[Process(h)]
<1>1. /\ at[h] = "none" /\ at' = [at EXCEPT ![h] = "open"] /\ a # None
      /\ actual' = [actual EXCEPT ![h] = a] /\ UNCHANGED <<kernel, fd>>
  BY DEF OpenShared, MayOpen, Goto
<1>2. PICK g \in Handle : actual[g] = a /\ at[g] \in Owning
  BY DEF OpenShared, Owners, Owning
<1>3. Process(g) = Process(h) /\ g # h
  <2>1. PICK f \in Handle : Process(f) = Process(h) /\ actual[f] = a
    BY <1>1 DEF ObjectInv, EntryInv
  <2> QED
    BY <1>1, <1>2, <2>1 DEF ObjectInv, ApartInv, Owning
<1>4. /\ Ino(h)' = Ino(g)
      /\ \A f \in Handle : f # h => Ino(f)' = Ino(f)
  BY <1>1, <1>2 DEF Ino
<1>5. Ino(g) \in Inodes /\ name = Ino(g) /\ Process(h) \in inuse[Ino(g)]
  BY <1>2, <1>3 DEF FileInv, FdInv, UseInv, StayInv, Owning, HasFile, Indicates, Named
<1>6. FdInv' /\ StayInv'
  BY <1>1, <1>4, <1>5 DEF FileInv, FdInv, StayInv
<1>7. UseInv'
  BY <1>1, <1>4, <1>5 DEF FileInv, UseInv
<1> QED
  BY <1>6, <1>7 DEF FileInv

\* It creates the file only if nobody uses one by that name.
LEMMA FileOpenLockFile ==
  ASSUME TypeOK, ObjectInv, FileInv, NEW h \in Handle, OpenLockFile(h)
  PROVE  FileInv'
<1> USE LabelFacts DEF TypeOK
<1>1. PICK i \in Inodes : /\ name # None => i = name
                          /\ name' = i /\ fd' = [fd EXCEPT ![actual[h]] = i]
  BY DEF OpenLockFile
<1>2. /\ at[h] = "lstat" /\ at' = [at EXCEPT ![h] = "opened"]
      /\ UNCHANGED <<inuse, deleting, actual>>
  BY DEF OpenLockFile, Goto
<1>3. actual[h] \in Actuals /\ \A g \in Handle : g # h /\ at[g] # "none" => actual[g] # actual[h]
  BY <1>2, Alone DEF Busy, Creating
<1>4. /\ Ino(h)' = i
      /\ \A g \in Handle : g # h /\ at[g] # "none" => Ino(g)' = Ino(g)
  BY <1>1, <1>2, <1>3 DEF Ino
<1>5. FdInv'
  BY <1>2, <1>4 DEF FileInv, FdInv, HasFile, Owning
<1>6. UseInv'
  BY <1>2, <1>4 DEF FileInv, UseInv, Indicates, Owning
<1>7. StayInv'
  BY <1>1, <1>2, <1>4 DEF FileInv, StayInv, FdInv, Named, Owning, HasFile
<1> QED
  BY <1>5, <1>6, <1>7 DEF FileInv

LEMMA FileIndicateUse ==
  ASSUME TypeOK, ObjectInv, FileInv, NEW h \in Handle, IndicateUse(h)
  PROVE  FileInv'
<1> USE LabelFacts DEF TypeOK
<1> DEFINE i == Ino(h)
<1>1. /\ at[h] = "opened" /\ at' = [at EXCEPT ![h] = "indicated"]
      /\ UNCHANGED <<name, fd, actual>> /\ deleting[i] \in {None, Process(h)}
      /\ inuse' = [inuse EXCEPT ![i] = @ \cup {Process(h)}]
      /\ deleting' = [deleting EXCEPT ![i] = None]
  BY DEF IndicateUse, Goto
<1>2. \A g \in Handle : Ino(g)' = Ino(g)
  BY <1>1 DEF Ino
<1>3. i \in Inodes
  BY <1>1 DEF FileInv, FdInv, HasFile
<1>4. \A g \in Handle : g # h /\ at[g] # "none" => Process(g) # Process(h)
  BY <1>1, Alone DEF Busy, Creating
<1>5. FdInv' /\ StayInv'
  BY <1>1, <1>2 DEF FileInv, FdInv, StayInv, HasFile, Named, Owning
<1>6. UseInv'
  <2>1. ASSUME NEW g \in Handle, at'[g] \in Indicates PROVE Process(g) \in inuse'[Ino(g)]
    BY <1>1, <1>3, <2>1 DEF FileInv, UseInv, FdInv
  <2>2. ASSUME NEW g \in Handle, at'[g] = "unlink" PROVE deleting'[Ino(g)] = Process(g)
    BY <1>1, <1>3, <1>4, <2>2 DEF FileInv, UseInv
  <2>3. \A j \in Inodes : deleting'[j] # None => inuse'[j] = {}
    BY <1>1 DEF FileInv, UseInv
  <2> QED
    BY <1>2, <2>1, <2>2, <2>3 DEF UseInv
<1> QED
  BY <1>5, <1>6 DEF FileInv

\* What it knows of the file it has looked up.
LEMMA FileOpened ==
  ASSUME TypeOK, FileInv, NEW h \in Handle, Opened(h)
  PROVE  FileInv'
<1> USE LabelFacts DEF TypeOK, kernel
<1>1. /\ at[h] = "indicated" /\ name = Ino(h) /\ at' = [at EXCEPT ![h] = "open"]
      /\ UNCHANGED <<kernel, fd, actual>>
  BY DEF Opened, Goto, StillThere
<1>2. \A g \in Handle : Ino(g)' = Ino(g)
  BY <1>1 DEF Ino
<1> QED
  BY <1>1, <1>2 DEF FileInv, FdInv, UseInv, StayInv, HasFile, Indicates, Named, Owning

\* Nobody else of the process has locks for it to drop.
LEMMA FileClose ==
  ASSUME TypeOK, ObjectInv, FileInv, NEW h \in Handle, OpenRetries(h) \/ CloseLockFile(h)
  PROVE  FileInv'
<1> USE LabelFacts DEF TypeOK
<1> DEFINE i == Ino(h)
           p == Process(h)
<1>1. /\ at[h] \in {"indicated", "close"} /\ UNCHANGED <<name, actual>>
      /\ inuse' = [inuse EXCEPT ![i] = @ \ {p}]
      /\ deleting' = [deleting EXCEPT ![i] = IF @ = p THEN None ELSE @]
      /\ fd' = [fd EXCEPT ![actual[h]] = None]
      /\ at' = [at EXCEPT ![h] = "lstat"] \/ at' = [at EXCEPT ![h] = "erase"]
  BY DEF OpenRetries, CloseLockFile, Close, Goto
<1>2. i \in Inodes
  BY <1>1 DEF FileInv, FdInv, HasFile
<1>3. \A g \in Handle : g # h /\ at[g] # "none" => Process(g) # p /\ actual[g] # actual[h]
  BY <1>1, Alone DEF Busy, Creating, Destroying
<1>4. \A g \in Handle : at'[g] \in HasFile =>
        g # h /\ at'[g] = at[g] /\ at[g] # "none" /\ Ino(g)' = Ino(g)
  BY <1>1, <1>3 DEF Ino, HasFile, Owning
<1>5. FdInv' /\ StayInv'
  BY <1>1, <1>4 DEF FileInv, FdInv, StayInv
<1>6. UseInv'
  <2>1. ASSUME NEW g \in Handle, at'[g] \in Indicates PROVE Process(g) \in inuse'[Ino(g)']
    BY <1>1, <1>2, <1>3, <1>4, <2>1 DEF FileInv, UseInv
  <2>2. ASSUME NEW g \in Handle, at'[g] = "unlink" PROVE deleting'[Ino(g)'] = Process(g)
    <3>1. at'[g] \in HasFile
      BY <2>2 DEF HasFile
    <3> QED
      BY <1>1, <1>2, <1>3, <1>4, <2>2, <3>1 DEF FileInv, UseInv
  <2>3. \A j \in Inodes : deleting'[j] # None => inuse'[j] = {}
    BY <1>1 DEF FileInv, UseInv
  <2> QED
    BY <2>1, <2>2, <2>3 DEF UseInv
<1> QED
  BY <1>5, <1>6 DEF FileInv

\* It write-locks the byte only if no other process uses the file.
LEMMA FileTryDelete ==
  ASSUME TypeOK, ObjectInv, FileInv, NEW h \in Handle, TryDelete(h)
  PROVE  FileInv'
<1> USE LabelFacts DEF TypeOK
<1> DEFINE i == Ino(h)
<1>1. at[h] = "expired" /\ UNCHANGED <<name, fd, actual>>
  BY DEF TryDelete
<1>2. \A g \in Handle : Ino(g)' = Ino(g)
  BY <1>1 DEF Ino
<1>3. i \in Inodes
  BY <1>1 DEF FileInv, FdInv, HasFile
<1>4. \A g \in Handle : g # h /\ at[g] # "none" => Process(g) # Process(h)
  BY <1>1, Alone DEF Busy, Destroying
<1>5. CASE LastUser(h) /\ deleting[i] \in {None, Process(h)}
  <2>1. /\ inuse' = [inuse EXCEPT ![i] = @ \ {Process(h)}]
        /\ deleting' = [deleting EXCEPT ![i] = Process(h)]
        /\ at' = [at EXCEPT ![h] = "unlink"] /\ inuse[i] \subseteq {Process(h)}
    BY <1>5 DEF TryDelete, Goto, LastUser
  <2>2. FdInv' /\ StayInv'
    BY <1>1, <1>2, <2>1 DEF FileInv, FdInv, StayInv, HasFile, Named
  <2>3. ASSUME NEW g \in Handle, at'[g] \in Indicates PROVE Process(g) \in inuse'[Ino(g)]
    <3>1. g # h /\ at[g] \in Indicates /\ at[g] # "none"
      BY <2>1, <2>3 DEF Indicates, Owning
    <3>2. Process(g) \in inuse[Ino(g)] /\ Process(g) # Process(h)
      BY <1>4, <3>1 DEF FileInv, UseInv
    <3>3. Ino(g) \in Inodes
      BY <3>1 DEF FileInv, FdInv
    <3> QED
      BY <2>1, <3>2, <3>3
  <2>4. ASSUME NEW g \in Handle, at'[g] = "unlink" PROVE deleting'[Ino(g)] = Process(g)
    <3>1. CASE g = h
      BY <1>3, <2>1, <3>1
    <3>2. CASE g # h
      <4>1. at[g] = "unlink" /\ deleting[Ino(g)] = Process(g) /\ Process(g) # Process(h)
        BY <1>4, <2>1, <2>4, <3>2 DEF FileInv, UseInv
      <4> QED
        BY <1>5, <2>1, <4>1
    <3> QED
      BY <3>1, <3>2
  <2>5. \A j \in Inodes : deleting'[j] # None => inuse'[j] = {}
    BY <2>1 DEF FileInv, UseInv
  <2> QED
    BY <1>2, <2>2, <2>3, <2>4, <2>5 DEF FileInv, UseInv
<1>6. CASE ~(LastUser(h) /\ deleting[i] \in {None, Process(h)})
  <2>1. at' = [at EXCEPT ![h] = "close"] /\ UNCHANGED <<inuse, deleting>>
    BY <1>6 DEF TryDelete, Goto
  <2> QED
    BY <1>1, <1>2, <2>1
       DEF FileInv, FdInv, UseInv, StayInv, HasFile, Indicates, Named, Owning
<1> QED
  BY <1>5, <1>6

\* Then the file that it unlinks is one that nobody uses.
LEMMA FileUnlink ==
  ASSUME TypeOK, ObjectInv, FileInv, NEW h \in Handle, Unlink(h)
  PROVE  FileInv'
<1> USE LabelFacts DEF TypeOK
<1>1. /\ at[h] = "unlink" /\ name' = None /\ at' = [at EXCEPT ![h] = "close"]
      /\ UNCHANGED <<inuse, deleting, fd, actual>>
  BY DEF Unlink, Goto
<1>2. \A g \in Handle : Ino(g)' = Ino(g)
  BY <1>1 DEF Ino
<1>3. Ino(h) \in Inodes /\ name = Ino(h) /\ deleting[Ino(h)] = Process(h) /\ inuse[Ino(h)] = {}
  BY <1>1 DEF FileInv, FdInv, UseInv, StayInv, HasFile, Named
<1>4. \A g \in Handle : g # h => at[g] \notin Named
  <2> SUFFICES ASSUME NEW g \in Handle, g # h, at[g] \in Named PROVE FALSE
    OBVIOUS
  <2>1. Ino(g) = Ino(h)
    BY <1>3 DEF FileInv, StayInv
  <2>2. CASE at[g] = "unlink"
    BY <1>1, <1>3, <2>1, <2>2 DEF FileInv, UseInv, ObjectInv, SoleInv, Busy, Destroying
  <2>3. CASE at[g] # "unlink"
    <3>1. at[g] \in Indicates
      BY <2>3 DEF Named, Indicates
    <3> QED
      BY <1>3, <2>1, <3>1 DEF FileInv, UseInv
  <2> QED
    BY <2>2, <2>3
<1>5. FdInv' /\ UseInv'
  BY <1>1, <1>2 DEF FileInv, FdInv, UseInv, HasFile, Indicates, Owning
<1>6. StayInv'
  BY <1>1, <1>4 DEF StayInv, Named, Owning
<1> QED
  BY <1>5, <1>6 DEF FileInv

LEMMA FileStep ==
  ASSUME TypeOK, ObjectInv, FileInv, ~unmarked', [Next]_vars,
         ~\E p \in Processes : EndOf(p)
  PROVE  FileInv'
<1>1. CASE UNCHANGED <<kernel, fd, actual, at>>
  BY <1>1 DEF FileInv, FdInv, UseInv, StayInv, Ino, kernel
<1>2. CASE UNCHANGED vars
  BY <1>1, <1>2 DEF vars
<1>3. ASSUME NEW h \in Handle, NEW t \in Type, Lock(h, t) PROVE FileInv'
  <2>1. UNCHANGED <<name, inuse, deleting, fd, actual, at>>
    BY <1>3 DEF Lock
  <2> QED
    BY <2>1 DEF FileInv, FdInv, UseInv, StayInv, Ino
<1>4. ASSUME NEW h \in Handle, OpenNew(h) PROVE FileInv'
  <2>1. /\ UNCHANGED <<kernel, fd>> /\ at' = [at EXCEPT ![h] = "lstat"]
        /\ \A g \in Handle : g # h => actual'[g] = actual[g]
    BY <1>4 DEF OpenNew, Goto, TypeOK
  <2>2. \A g \in Handle : at'[g] \in HasFile => actual'[g] = actual[g]
    BY <2>1 DEF HasFile, Owning, TypeOK
  <2> QED
    BY <2>1, <2>2, FileStays DEF Label, Creating, HasFile, Indicates, Named, Owning
<1>5. ASSUME NEW h \in Handle, OpenThrows(h) \/ Drop(h) \/ Erase(h) \/ EraseAgain(h)
      PROVE  FileInv'
  <2>1. PICK l \in Label :
          /\ UNCHANGED <<kernel, fd>> /\ at' = [at EXCEPT ![h] = l]
          /\ \/ at[h] = "open" /\ l = "dropping"
             \/ l \in {"throwing", "erase again", "none"}
    BY <1>5 DEF OpenThrows, Drop, Erase, EraseAgain, Goto, Label, Creating, Destroying
  <2>2. \A g \in Handle : at'[g] \in HasFile => actual'[g] = actual[g]
    BY <1>5 DEF OpenThrows, Drop, Erase, EraseAgain, Goto, HasFile, Owning, TypeOK
  <2> QED
    BY <2>1, <2>2, FileStays DEF HasFile, Indicates, Named, Owning
<1>6. ASSUME NEW h \in Handle, Dropped(h) PROVE FileInv'
  <2>1. PICK l \in {"expired", "none"} :
          at[h] = "dropping" /\ UNCHANGED <<kernel, fd>> /\ at' = [at EXCEPT ![h] = l]
    BY <1>6 DEF Dropped, Goto
  <2>2. \A g \in Handle : at'[g] \in HasFile => actual'[g] = actual[g]
    BY <1>6 DEF Dropped, Goto, HasFile, Owning, TypeOK
  <2> QED
    BY <2>1, <2>2, FileStays
       DEF Label, Destroying, HasFile, Indicates, Named, Owning
<1> QED
  BY <1>2, <1>3, <1>4, <1>5, <1>6, FileOpenShared, FileOpenLockFile, FileIndicateUse,
     FileOpened, FileClose, FileTryDelete, FileUnlink, LabelFacts
     DEF Next, OpenStep, DropStep, Quiescent, IndicateFails, Dies, UnlinkThrows

-----------------------------------------------------------------------------
\* The kernel keeps processes apart on an inode; within one, the users do, and
\* only what nobody uses is closed.
LEMMA RegionStays ==
  ASSUME RegionInv, UNCHANGED <<region, held>>,
         \A h \in Handle : at[h] = "open" => at'[h] = "open" /\ Ino(h)' = Ino(h)
  PROVE  RegionInv'
BY DEF RegionInv

LEMMA RegionLock ==
  ASSUME TypeOK, FdInv, RegionInv, NEW h \in Handle, NEW t \in Type, Lock(h, t)
  PROVE  RegionInv'
<1> USE LabelFacts DEF TypeOK
<1> DEFINE i == Ino(h)
           p == Process(h)
<1>1. /\ at[h] = "open" /\ UNCHANGED <<at, fd, actual>>
      /\ \A g \in Handle \ {h} : Process(g) = p => held[g] = "unlock"
      /\ region' = [region EXCEPT ![i][p] = t] /\ held' = [held EXCEPT ![h] = t]
      /\ \A q \in Processes \ {p} :
           /\ t = "write_lock" => region[i][q] = "unlock"
           /\ t = "read_lock" => region[i][q] # "write_lock"
  BY DEF Lock, Granted
<1>2. \A g \in Handle : Ino(g)' = Ino(g)
  BY <1>1 DEF Ino
<1>3. i \in Inodes
  BY <1>1 DEF FdInv, HasFile, Owning
<1>4. ASSUME NEW g \in Handle, held'[g] # "unlock"
      PROVE  at'[g] = "open" /\ region'[Ino(g)][Process(g)] = held'[g]
  <2>1. CASE g = h
    BY <1>1, <1>3, <2>1
  <2>2. CASE g # h
    <3>1. /\ at[g] = "open" /\ held'[g] = held[g] /\ Process(g) # p
          /\ region[Ino(g)][Process(g)] = held[g]
      BY <1>1, <1>4, <2>2 DEF RegionInv
    <3>2. Ino(g) \in Inodes
      BY <3>1 DEF FdInv, HasFile, Owning
    <3> QED
      BY <1>1, <3>1, <3>2
  <2> QED
    BY <2>1, <2>2
<1>5. \A f, g \in Handle :
        Process(f) = Process(g) /\ f # g /\ held'[g] # "unlock" => held'[f] = "unlock"
  BY <1>1 DEF RegionInv
<1>6. ASSUME NEW j \in Inodes, NEW q \in Processes, NEW r \in Processes,
             region'[j][q] = "write_lock", q # r
      PROVE  region'[j][r] = "unlock"
  <2>1. region[j][q] = "write_lock" => region[j][r] = "unlock"
    BY <1>6 DEF RegionInv
  <2>2. \A s \in Processes : region'[j][s] = IF j = i /\ s = p THEN t ELSE region[j][s]
    BY <1>1, <1>3
  <2>3. j = i /\ r = p => t = "unlock"
    BY <1>1, <1>6, <2>2 DEF Type
  <2>4. j = i /\ q = p => region[j][r] = "unlock"
    BY <1>1, <1>6, <2>2
  <2> QED
    BY <1>6, <2>1, <2>2, <2>3, <2>4
<1> QED
  BY <1>2, <1>4, <1>5, <1>6 DEF RegionInv

LEMMA RegionClose ==
  ASSUME TypeOK, ObjectInv, FdInv, RegionInv,
         NEW h \in Handle, OpenRetries(h) \/ CloseLockFile(h)
  PROVE  RegionInv'
<1> USE LabelFacts DEF TypeOK
<1> DEFINE i == Ino(h)
           p == Process(h)
<1>1. /\ at[h] \in {"indicated", "close"} /\ UNCHANGED <<held, actual>>
      /\ region' = [region EXCEPT ![i][p] = "unlock"]
      /\ fd' = [fd EXCEPT ![actual[h]] = None]
      /\ at' = [at EXCEPT ![h] = "lstat"] \/ at' = [at EXCEPT ![h] = "erase"]
  BY DEF OpenRetries, CloseLockFile, Close, Goto
<1>2. i \in Inodes
  BY <1>1 DEF FdInv, HasFile
<1>3. \A g \in Handle : g # h /\ at[g] # "none" => Process(g) # p /\ actual[g] # actual[h]
  BY <1>1, Alone DEF Busy, Creating, Destroying
<1>4. ASSUME NEW g \in Handle, held[g] # "unlock"
      PROVE  at'[g] = "open" /\ region'[Ino(g)'][Process(g)] = held[g]
  <2>1. at[g] = "open" /\ region[Ino(g)][Process(g)] = held[g]
    BY <1>4 DEF RegionInv
  <2>2. g # h /\ Process(g) # p /\ actual[g] # actual[h]
    BY <1>1, <1>3, <2>1
  <2>3. Ino(g)' = Ino(g) /\ Ino(g) \in Inodes
    BY <1>1, <2>1, <2>2 DEF Ino, FdInv, HasFile, Owning
  <2> QED
    BY <1>1, <2>1, <2>2, <2>3
<1>5. \A j \in Inodes : \A q, r \in Processes :
        region'[j][q] = "write_lock" /\ q # r => region'[j][r] = "unlock"
  BY <1>1, <1>2 DEF RegionInv
<1> QED
  BY <1>1, <1>4, <1>5 DEF RegionInv

LEMMA RegionStep ==
  ASSUME TypeOK, ObjectInv, FdInv, RegionInv, ~unmarked', [Next]_vars,
         ~\E p \in Processes : EndOf(p)
  PROVE  RegionInv'
<1>1. CASE UNCHANGED vars
  BY <1>1, RegionStays DEF vars, kernel, Ino
<1>2. ASSUME NEW h \in Handle, OpenShared(h) \/ OpenNew(h) \/ OpenThrows(h) \/ Dropped(h)
                              \/ EraseAgain(h) \/ Erase(h)
      PROVE  RegionInv'
  <2>1. /\ UNCHANGED <<region, held, fd>> /\ at[h] # "open"
        /\ \A g \in Handle : g # h => at'[g] = at[g] /\ actual'[g] = actual[g]
    BY <1>2 DEF OpenShared, OpenNew, OpenThrows, Dropped, EraseAgain, Erase, MayOpen, Goto, kernel, TypeOK
  <2>2. \A g \in Handle : at[g] = "open" => at'[g] = "open" /\ Ino(g)' = Ino(g)
    BY <2>1 DEF Ino
  <2> QED
    BY <2>1, <2>2, RegionStays
<1>3. ASSUME NEW h \in Handle, Opened(h) \/ IndicateUse(h) \/ TryDelete(h) \/ Unlink(h)
      PROVE  RegionInv'
  <2>1. /\ UNCHANGED <<region, held, fd, actual>> /\ at[h] # "open"
        /\ \A g \in Handle : g # h => at'[g] = at[g]
    BY <1>3 DEF Opened, IndicateUse, TryDelete, Unlink, Goto, kernel, TypeOK
  <2>2. \A g \in Handle : at[g] = "open" => at'[g] = "open" /\ Ino(g)' = Ino(g)
    BY <2>1 DEF Ino
  <2> QED
    BY <2>1, <2>2, RegionStays
<1>4. ASSUME NEW h \in Handle, OpenLockFile(h) PROVE RegionInv'
  <2>1. /\ UNCHANGED <<region, held, actual>> /\ at[h] = "lstat"
        /\ \A g \in Handle : g # h => at'[g] = at[g]
        /\ \A a \in Actuals : a # actual[h] => fd'[a] = fd[a]
    BY <1>4 DEF OpenLockFile, Goto, TypeOK
  <2>2. \A g \in Handle : at[g] = "open" =>
          g # h /\ actual[g] # actual[h] /\ actual[g] \in Actuals
    BY <2>1, Alone DEF Busy, Creating, ObjectInv, NoneInv, TypeOK
  <2>3. \A g \in Handle : at[g] = "open" => at'[g] = "open" /\ Ino(g)' = Ino(g)
    BY <2>1, <2>2 DEF Ino
  <2> QED
    BY <2>1, <2>3, RegionStays
<1>5. ASSUME NEW h \in Handle, Drop(h) PROVE RegionInv'
  <2>1. /\ UNCHANGED <<region, fd, actual>> /\ at' = [at EXCEPT ![h] = "dropping"]
        /\ held' = [held EXCEPT ![h] = "unlock"]
    BY <1>5 DEF Drop, Goto, kernel
  <2>2. \A g \in Handle : Ino(g)' = Ino(g)
    BY <2>1 DEF Ino
  <2> QED
    BY <2>1, <2>2 DEF RegionInv, TypeOK
<1> QED
  BY <1>1, <1>2, <1>3, <1>4, <1>5, RegionLock, RegionClose,
     LabelFacts
     DEF Next, OpenStep, DropStep, Quiescent, IndicateFails, Dies, UnlinkThrows

-----------------------------------------------------------------------------
LEMMA LockInit == Init => LockInv
<1> SUFFICES ASSUME Init PROVE LockInv
  OBVIOUS
<1> USE LabelFacts DEF Init
<1>1. TypeOK
  <2>1. lock_t \in [Processes -> Handle \cup {None}] /\ registry \in [Processes -> Actuals \cup {None}]
    OBVIOUS
  <2>2. /\ inuse \in [Inodes -> SUBSET Processes] /\ deleting \in [Inodes -> Processes \cup {None}]
        /\ region \in [Inodes -> [Processes -> Type]]
    BY DEF Type
  <2>3. 0 \in 0..MaxOpens
    BY LockAssumption DEF LockAssumption
  <2>4. /\ at \in [Handle -> Label] /\ held \in [Handle -> Type] /\ opens \in [Handle -> 0..MaxOpens]
        /\ fd \in [Actuals -> Inodes \cup {None}] /\ actual \in [Handle -> Actuals \cup {None}]
    BY <2>3 DEF Label, Type
  <2> QED
    BY <2>1, <2>2, <2>4 DEF TypeOK
<1>2. ObjectInv
  BY DEF ObjectInv, LockedInv, SoleInv, NoneInv, ApartInv, SharedInv, EntryInv,
         Creating, Owning
<1>3. FileInv
  BY DEF FileInv, FdInv, UseInv, StayInv, HasFile, Indicates, Named, Owning
<1>4. RegionInv
  BY DEF RegionInv
<1> QED
  BY <1>1, <1>2, <1>3, <1>4 DEF LockInv

\* Nothing that was disturbed comes to be undisturbed.
LEMMA HistoryStays ==
  ASSUME overlapped \in BOOLEAN, unmarked \in BOOLEAN, [Next]_vars
  PROVE  /\ overlapped' \in BOOLEAN /\ unmarked' \in BOOLEAN
         /\ Undisturbed' => Undisturbed
<1> USE DEF Undisturbed, history
<1>1. ASSUME NEW h \in Handle, OpenShared(h) \/ OpenNew(h)
      PROVE  overlapped' \in BOOLEAN /\ unmarked' = unmarked /\ (overlapped => overlapped')
  BY <1>1 DEF OpenShared, OpenNew, MayOpen
<1>2. ASSUME NEW h \in Handle, IndicateFails(h) PROVE overlapped' = overlapped /\ unmarked'
  BY <1>2 DEF IndicateFails
<1>3. ASSUME NEW h \in Handle,
             \/ OpenThrows(h) \/ OpenLockFile(h) \/ IndicateUse(h) \/ Opened(h) \/ OpenRetries(h)
             \/ Drop(h) \/ Dropped(h) \/ TryDelete(h) \/ Unlink(h) \/ CloseLockFile(h)
             \/ Erase(h) \/ EraseAgain(h) \/ UnlinkThrows(h)
      PROVE  overlapped' = overlapped /\ unmarked' = unmarked
  BY <1>3
     DEF OpenThrows, OpenLockFile, IndicateUse, Opened, OpenRetries, Drop, Dropped, TryDelete,
         Unlink, CloseLockFile, Erase, EraseAgain, UnlinkThrows, EndOf
<1>4. ASSUME NEW h \in Handle, NEW t \in Type, Lock(h, t)
      PROVE  overlapped' = overlapped /\ unmarked' = unmarked
  BY <1>4 DEF Lock
<1>5. ASSUME NEW p \in Processes, Dies(p) PROVE overlapped' = overlapped /\ unmarked' = unmarked
  BY <1>5 DEF Dies, EndOf
<1>6. CASE UNCHANGED vars
  BY <1>6 DEF vars
<1> QED
  BY <1>1, <1>2, <1>3, <1>4, <1>5, <1>6 DEF Next, OpenStep, DropStep, Quiescent

LEMMA LockStep ==
  ASSUME LockInv, Undisturbed', [Next]_vars
  PROVE  LockInv'
<1>1. ~overlapped' /\ ~unmarked'
  BY DEF Undisturbed
<1>2. CASE \E p \in Processes : EndOf(p)
  BY <1>2, EndStep
<1>3. CASE ~\E p \in Processes : EndOf(p)
  BY <1>1, <1>3, LockTypes, ObjectStep, FileStep, RegionStep DEF LockInv, FileInv, ObjectInv
<1> QED
  BY <1>2, <1>3

(***************************************************************************)
(* For any processes and handles, whatever they open, drop and lock and    *)
(* whichever of them end in the middle: a write lock excludes all other    *)
(* processes' locks, and no lock file that is used is unlinked, until a    *)
(* process opens the path while it destroys its lock file, or uses one     *)
(* that it could not mark.                                                 *)
(***************************************************************************)
THEOREM LockFileCorrect == Spec => [](Exclusion /\ InUseStays)
<1> DEFINE Inv == /\ overlapped \in BOOLEAN /\ unmarked \in BOOLEAN
                  /\ Undisturbed => LockInv
<1>1. Init => Inv
  BY LockInit DEF Init
<1>2. Inv /\ [Next]_vars => Inv'
  BY HistoryStays, LockStep
<1>3. Inv => Exclusion /\ InUseStays
  <2> SUFFICES ASSUME LockInv PROVE Exclusion /\ InUseStays
    BY DEF Exclusion, InUseStays
  <2>1. \A h \in Handle : at[h] \in {"open", "unlink"} => name = Ino(h)
    BY DEF LockInv, FileInv, StayInv, Named, Owning
  <2>2. ASSUME NEW g \in Handle, NEW h \in Handle, Process(g) # Process(h),
               held[g] = "write_lock", held[h] # "unlock"
        PROVE  FALSE
    <3>1. /\ region[Ino(g)][Process(g)] = "write_lock" /\ region[Ino(h)][Process(h)] # "unlock"
          /\ at[g] = "open" /\ at[h] = "open"
      BY <2>2 DEF LockInv, RegionInv
    <3>2. Ino(g) = Ino(h) /\ Ino(g) \in Inodes
      BY <2>1, <3>1 DEF LockInv, FileInv, FdInv, HasFile, Owning
    <3> QED
      BY <2>2, <3>1, <3>2, LabelFacts DEF LockInv, RegionInv
  <2> QED
    BY <2>1, <2>2 DEF Exclusion, InUseStays
<1> QED
  BY <1>1, <1>2, <1>3, PTL DEF Spec
=============================================================================
