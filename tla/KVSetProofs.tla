---------------------------- MODULE KVSetProofs ----------------------------
(***************************************************************************)
(* Proofs about KVSet for every set of keys and values and every number of *)
(* entries: type correctness, no key in two entries, coherence of the      *)
(* cache with the file, and the pairs that the disk keeps.                 *)
(***************************************************************************)
EXTENDS KVSet, WellFoundedInduction, TLAPS

(* A set of naturals that is not empty has a least element. *)
LEMMA LowestExists ==
  ASSUME NEW S, S \subseteq Nat, S # {}
  PROVE  \E i \in S : \A j \in S : i <= j
<1> DEFINE R == {ss \in Nat \X Nat : ss[1] < ss[2]}
<1>1. IsWellFoundedOn(R, Nat)
  BY NatLessThanWellFounded DEF OpToRel
<1>2. PICK i \in S : \A j \in S : ~(<<j, i>> \in R)
  <2> HIDE DEF R
  <2> QED BY <1>1, WFMin
<1>3. ASSUME NEW j \in S
      PROVE  i <= j
  <2>1. i \in Nat /\ j \in Nat
    OBVIOUS
  <2>2. <<j, i>> \in Nat \X Nat /\ <<j, i>>[1] = j /\ <<j, i>>[2] = i
    BY <2>1
  <2>3. ~(j < i)
    BY <1>2, <2>2
  <2> QED BY <2>1, <2>3
<1> QED BY <1>3

(* What Lowest picks. *)
LEMMA LowestIsLeast ==
  ASSUME NEW S, S \subseteq Nat, S # {}
  PROVE  Lowest(S) \in S /\ \A j \in S : Lowest(S) <= j
BY LowestExists DEF Lowest

LEMMA SlotsAreNat == Slots \subseteq Nat /\ 0 \in Slots
BY SizeAssumption DEF Slots

(* The hand stops at an entry of the set, whatever the reference bits are. *)
LEMMA VictimIsSlot ==
  ASSUME NEW E, NEW p \in Slots
  PROVE  Victim(E, p) \in Slots
<1> DEFINE U == Unreferenced(E)
           Ahead == {i \in U : p <= i}
<1>0. U \subseteq Slots /\ p \in Nat /\ NoOfEntries \in Nat /\ U \subseteq Nat
  BY SlotsAreNat, SizeAssumption DEF Unreferenced
<1>1. CASE U = {}
  BY <1>1 DEF Victim
<1>2. CASE U # {}
  <2>1. \E i \in U : Swept(p, i) \cap U = {}
    <3>1. CASE Ahead # {}
      <4>1. PICK i \in Ahead : \A j \in Ahead : i <= j
        BY <3>1, <1>0, LowestExists
      <4>2. \A j \in p .. i - 1 : j \notin U
        BY <4>1, <1>0
      <4>3. Swept(p, i) = p .. i - 1
        BY <4>1 DEF Swept
      <4> QED BY <4>1, <4>2, <4>3
    <3>2. CASE Ahead = {}
      <4>1. PICK i \in U : \A j \in U : i <= j
        BY <1>2, <1>0, LowestExists
      <4>2. \A j \in U : j < p
        BY <3>2, <1>0
      <4>3. Swept(p, i) = (p .. NoOfEntries - 1) \cup (0 .. i - 1)
        BY <4>1, <4>2, <1>0 DEF Swept
      <4>4. \A j \in Swept(p, i) : j \notin U
        BY <4>1, <4>2, <4>3, <1>0
      <4> QED BY <4>1, <4>4
    <3> QED BY <3>1, <3>2
  <2>2. Victim(E, p) \in U
    BY <1>2, <2>1 DEF Victim
  <2> QED BY <2>2, <1>0
<1> QED BY <1>1, <1>2

LEMMA SlotForIsSlot ==
  ASSUME NEW E, NEW p \in Slots, NEW k
  PROVE  SlotFor(E, p, k) \in Slots
<1>1. Hits(E, k) \subseteq Slots /\ Holes(E) \subseteq Slots
  BY DEF Hits, Holes
<1>2. Hits(E, k) \subseteq Nat /\ Holes(E) \subseteq Nat
  BY <1>1, SlotsAreNat
<1>3. Hits(E, k) # {} => Lowest(Hits(E, k)) \in Slots
  BY <1>1, <1>2, LowestIsLeast
<1>4. Holes(E) # {} => Lowest(Holes(E)) \in Slots
  BY <1>1, <1>2, LowestIsLeast
<1> QED BY <1>3, <1>4, VictimIsSlot DEF SlotFor

(* Placing a pair keeps the entries and the hand well typed. *)
LEMMA PlacedType ==
  ASSUME NEW E \in [Slots -> Entry], NEW p \in Slots, NEW k \in Keys,
         NEW v \in Values \cup {Empty}
  PROVE  Placed(E, p, k, v) \in [Slots -> Entry]
<1> SUFFICES ASSUME NEW i \in Slots
             PROVE  Placed(E, p, k, v)[i] \in Entry
  BY DEF Placed
<1>1. E[i] \in Entry
  OBVIOUS
<1>2. [E[i] EXCEPT !.isReferenced = FALSE] \in Entry
  BY <1>1 DEF Entry
<1>3. [key |-> k, value |-> v, isReferenced |-> TRUE, valid |-> TRUE] \in Entry
  BY DEF Entry
<1> QED BY <1>1, <1>2, <1>3 DEF Placed

LEMMA HandAfterType ==
  ASSUME NEW E, NEW p \in Slots, NEW k
  PROVE  HandAfter(E, p, k) \in Slots
<1>1. Victim(E, p) \in 0 .. NoOfEntries - 1
  BY VictimIsSlot DEF Slots
<1> QED BY <1>1, SizeAssumption DEF HandAfter, Slots

(* What a set of entries looks like when no key is in two of them. *)
DistinctIn(E) ==
  \A i, j \in Slots : E[i].key \in Keys /\ E[i].key = E[j].key => i = j

(* The entry a put takes is the only one that can already hold the key: this *)
(* is what getEntryID is for.                                                *)
LEMMA SlotForIsOnly ==
  ASSUME NEW E \in [Slots -> Entry], NEW p \in Slots, NEW k \in Keys,
         DistinctIn(E), NEW i \in Slots, E[i].key = k
  PROVE  i = SlotFor(E, p, k)
<1>1. CASE Hits(E, k) # {}
  <2>1. Lowest(Hits(E, k)) \in Hits(E, k)
    <3>1. Hits(E, k) \subseteq Nat
      BY SlotsAreNat DEF Hits
    <3> QED BY <1>1, <3>1, LowestIsLeast
  <2>2. SlotFor(E, p, k) \in Slots /\ E[SlotFor(E, p, k)].key = k
    BY <1>1, <2>1 DEF SlotFor, Hits
  <2> QED BY <2>2 DEF DistinctIn
<1>2. CASE Hits(E, k) = {}
  <2>1. ~E[i].valid /\ i = Lowest(Holes(E))
    BY <1>2 DEF Hits
  <2>2. i \in Holes(E)
    BY <2>1 DEF Holes
  <2> QED BY <1>2, <2>1, <2>2 DEF SlotFor
<1> QED BY <1>1, <1>2

(* What Placed does to the entries it did not choose. *)
LEMMA PlacedElsewhere ==
  ASSUME NEW E \in [Slots -> Entry], NEW p \in Slots, NEW k, NEW v,
         NEW i \in Slots, i # SlotFor(E, p, k)
  PROVE  /\ Placed(E, p, k, v)[i].key = E[i].key
         /\ Placed(E, p, k, v)[i].value = E[i].value
         /\ Placed(E, p, k, v)[i].valid = E[i].valid
<1>1. E[i] \in Entry
  OBVIOUS
<1>2. CASE Missed(E, k) /\ i \in Cleared(E, p)
  <2>1. Placed(E, p, k, v)[i] = [E[i] EXCEPT !.isReferenced = FALSE]
    BY <1>2 DEF Placed
  <2> QED BY <1>1, <2>1 DEF Entry
<1>3. CASE ~(Missed(E, k) /\ i \in Cleared(E, p))
  <2>1. Placed(E, p, k, v)[i] = E[i]
    BY <1>3 DEF Placed
  <2> QED BY <2>1
<1> QED BY <1>2, <1>3

LEMMA PlacedThere ==
  ASSUME NEW E, NEW p \in Slots, NEW k, NEW v
  PROVE  Placed(E, p, k, v)[SlotFor(E, p, k)]
           = [key |-> k, value |-> v, isReferenced |-> TRUE, valid |-> TRUE]
BY SlotForIsSlot DEF Placed

(* Placing a pair gives no key two entries. *)
LEMMA PlacedDistinct ==
  ASSUME NEW E \in [Slots -> Entry], NEW p \in Slots, NEW k \in Keys, NEW v,
         DistinctIn(E)
  PROVE  DistinctIn(Placed(E, p, k, v))
<1> DEFINE s == SlotFor(E, p, k)
           F == Placed(E, p, k, v)
<1>0. F[s] = [key |-> k, value |-> v, isReferenced |-> TRUE, valid |-> TRUE]
  BY PlacedThere
<1>1. s \in Slots /\ F[s].key = k
  BY <1>0, SlotForIsSlot
<1>2. \A i \in Slots : i # s => F[i].key = E[i].key /\ E[i].key # k
  BY PlacedElsewhere, SlotForIsOnly
<1> HIDE DEF s, F
<1>3. DistinctIn(F)
  BY <1>1, <1>2 DEF DistinctIn
<1> QED BY <1>3 DEF F

-----------------------------------------------------------------------------
(* The inductive invariant.  The temporary file is the rewritten file until  *)
(* the file is replaced by it, and no entry is ahead of both.                *)
TempIsCopy ==
  /\ pc = "copied" => file # Absent /\ temp = Rewrite(file, call)
  /\ pc = "removed" => file = Absent

(* Next preserves type correctness. *)
LEMMA TypeStep == TypeOK /\ [Next]_vars => TypeOK'
<1> SUFFICES ASSUME TypeOK, [Next]_vars
             PROVE  TypeOK'
  OBVIOUS
<1> USE DEF TypeOK
<1>0. UnusedEntry \in Entry /\ 0 \in Slots
  BY SlotsAreNat DEF UnusedEntry, Entry
<1>1. ASSUME NEW c \in Calls, Acquire(c) PROVE TypeOK'
  BY <1>1 DEF Acquire
<1>2. CASE PutEntry
  <2>1. call.key \in Keys /\ call.value \in Values \cup {Empty} /\ call \in Calls
    BY <1>2 DEF PutEntry, Calls
  <2>2. entries' \in [Slots -> Entry] /\ evictionPointer' \in Slots
    BY <1>2, <2>1, PlacedType, HandAfterType DEF PutEntry
  <2> QED BY <1>2, <2>1, <2>2 DEF PutEntry
<1>3. CASE GetHit
  <2>1. call \in Calls
    BY <1>3 DEF GetHit
  <2>2. Lowest(Cached(call.key)) \in Slots
    <3>1. Cached(call.key) \subseteq Nat /\ Cached(call.key) \subseteq Slots
      BY SlotsAreNat DEF Cached
    <3> QED BY <1>3, <3>1, LowestIsLeast DEF GetHit
  <2> DEFINE i == Lowest(Cached(call.key))
  <2>3. entries[i] \in Entry
    BY <2>2
  <2>4. entries' \in [Slots -> Entry] /\ reply' \in Values \cup {Empty}
    BY <1>3, <2>2, <2>3 DEF GetHit, Entry
  <2> QED BY <1>3, <2>1, <2>4 DEF GetHit
<1>4. CASE GetMiss
  <2>1. call.key \in Keys /\ call \in Calls
    BY <1>4 DEF GetMiss, Calls
  <2>2. FindInFile(file, call.key) \in Values \cup {Empty}
    BY <2>1 DEF FindInFile, FileContents
  <2>3. entries' \in [Slots -> Entry] /\ evictionPointer' \in Slots
    BY <1>4, <2>1, <2>2, PlacedType, HandAfterType DEF GetMiss
  <2> QED BY <1>4, <2>1, <2>2, <2>3 DEF GetMiss
<1>5. CASE DeleteEntry
  <2>1. \A i \in Slots : [entries[i] EXCEPT !.valid = FALSE, !.isReferenced = FALSE] \in Entry
    BY DEF Entry
  <2>2. entries' \in [Slots -> Entry]
    BY <1>5, <2>1 DEF DeleteEntry, Dropped
  <2> QED BY <1>5, <2>2 DEF DeleteEntry
<1>6. CASE UpdateInFile
  <2>1. call \in Calls /\ call.key \in Keys /\ call.value \in Values \cup {Empty}
    BY <1>6 DEF UpdateInFile, WriteToFile, CopyToTemp, RemoveFile, RenameTemp,
      RemoveOrRenameFails, Calls
  <2>2. CASE WriteToFile
    BY <2>1, <2>2 DEF WriteToFile, FreshFile, FileContents
  <2>3. CASE CopyToTemp
    <3>1. Rewrite(file, call) \in FileContents
      BY <2>1, <2>3 DEF CopyToTemp, Rewrite, FileContents
    <3> QED BY <2>1, <2>3, <3>1 DEF CopyToTemp
  <2>4. CASE RemoveFile
    BY <2>1, <2>4 DEF RemoveFile
  <2>5. CASE RenameTemp
    BY <2>1, <2>5 DEF RenameTemp
  <2>6. CASE RemoveOrRenameFails
    BY <2>1, <2>6 DEF RemoveOrRenameFails
  <2> QED BY <1>6, <2>2, <2>3, <2>4, <2>5, <2>6 DEF UpdateInFile
<1>7. CASE Finish
  BY <1>7 DEF Finish
<1>8. CASE Crash \/ CrashWriting
  <2>1. entries' \in [Slots -> Entry] /\ evictionPointer' \in Slots /\ pc' = "down"
        /\ call' = NoCall /\ reply' = Empty /\ failed' = FALSE
    BY <1>0, <1>8 DEF Crash, CrashWriting, Die
  <2>2. CASE Crash
    BY <2>1, <2>2 DEF Crash
  <2>3. CASE CrashWriting
    <3>1. call \in Calls
      BY <2>3 DEF CrashWriting
    <3>2. CASE file = Absent
      BY <2>1, <2>3, <3>2 DEF CrashWriting, FileContents
    <3>3. CASE file # Absent
      <4>1. Rewrite(file, call) \in FileContents
        BY <3>1, <3>3 DEF Rewrite, FileContents, Calls
      <4>2. temp' \in FileContents
        BY <2>3, <3>3, <4>1 DEF CrashWriting, FileContents
      <4> QED BY <2>1, <2>3, <3>3, <4>2 DEF CrashWriting
    <3> QED BY <3>2, <3>3
  <2> QED BY <1>8, <2>2, <2>3
<1>9. CASE Restart
  <2>0. PICK n \in 0 .. NoOfEntries : \E s \in [0 .. n - 1 -> Lines(file)] :
          entries' = Restored(file, s)
    BY <1>9 DEF Restart
  <2>1. PICK s \in [0 .. n - 1 -> Lines(file)] : entries' = Restored(file, s)
    BY <2>0
  <2>2. ASSUME NEW i \in Slots, i \in DOMAIN s
        PROVE  [key |-> s[i], value |-> file[s[i]], isReferenced |-> FALSE, valid |-> TRUE]
                 \in Entry
    <3>1. s[i] \in Lines(file)
      BY <2>2
    <3>2. s[i] \in Keys /\ file[s[i]] \in Values \cup {Empty}
      BY <3>1 DEF Lines, FileContents
    <3> QED BY <3>2 DEF Entry
  <2>3. entries' \in [Slots -> Entry]
    BY <1>0, <2>1, <2>2 DEF Restored
  <2> QED BY <1>9, <2>3 DEF Restart
<1>10. CASE UNCHANGED vars
  BY <1>10 DEF vars
<1> QED
  BY <1>1, <1>2, <1>3, <1>4, <1>5, <1>6, <1>7, <1>8, <1>9, <1>10 DEF Next, Operation

(* The cache set and its files are well typed (KVCache.cpp, KVStore.cpp). *)
THEOREM TypeCorrect == Spec => []TypeOK
<1>1. Init => TypeOK
  <2>1. UnusedEntry \in Entry /\ 0 \in Slots
    BY SlotsAreNat DEF UnusedEntry, Entry
  <2> QED BY <2>1 DEF Init, TypeOK
<1> QED BY <1>1, TypeStep, PTL DEF Spec

-----------------------------------------------------------------------------
(* Next preserves the distinctness of the keys. *)
LEMMA DistinctStep == TypeOK /\ DistinctKeys /\ [Next]_vars => DistinctKeys'
<1> SUFFICES ASSUME TypeOK, DistinctKeys, [Next]_vars
             PROVE  DistinctKeys'
  OBVIOUS
<1>0. /\ DistinctIn(entries)
      /\ entries \in [Slots -> Entry]
      /\ DistinctIn(entries') => DistinctKeys'
  BY DEF DistinctKeys, DistinctIn, TypeOK
<1>1. ASSUME NEW v, call.key \in Keys,
             entries' = Placed(entries, evictionPointer, call.key, v)
      PROVE  DistinctKeys'
  BY <1>0, <1>1, PlacedDistinct DEF TypeOK
<1>2. CASE PutEntry
  <2>1. call.key \in Keys
    BY <1>2 DEF PutEntry, TypeOK, Calls
  <2> QED BY <1>1, <1>2, <2>1 DEF PutEntry
<1>3. CASE GetMiss
  <2>1. call.key \in Keys
    BY <1>3 DEF GetMiss, TypeOK, Calls
  <2> QED BY <1>1, <1>3, <2>1 DEF GetMiss
<1>4. ASSUME \A i \in Slots : entries'[i].key = entries[i].key
      PROVE  DistinctKeys'
  BY <1>4 DEF DistinctKeys
<1>5. CASE GetHit
  <2>1. \A i \in Slots : entries'[i].key = entries[i].key
    BY <1>0, <1>5 DEF GetHit, Entry
  <2> QED BY <1>4, <2>1
<1>6. CASE DeleteEntry
  <2>1. \A i \in Slots : entries'[i].key = entries[i].key
    BY <1>0, <1>6 DEF DeleteEntry, Dropped, Entry
  <2> QED BY <1>4, <2>1
<1>7. CASE Crash \/ CrashWriting
  BY <1>7, NameAssumption DEF Crash, CrashWriting, Die, UnusedEntry, DistinctKeys
<1>8. CASE Restart
  <2>0. PICK n \in 0 .. NoOfEntries : \E s \in [0 .. n - 1 -> Lines(file)] :
          Restorable(file, s) /\ entries' = Restored(file, s)
    BY <1>8 DEF Restart
  <2>1. PICK s \in [0 .. n - 1 -> Lines(file)] :
          Restorable(file, s) /\ entries' = Restored(file, s)
    BY <2>0
  <2>2. ASSUME NEW i \in Slots, entries'[i].key \in Keys
        PROVE  i \in DOMAIN s /\ entries'[i].key = s[i]
    BY <2>1, <2>2, NameAssumption DEF Restored, UnusedEntry
  <2>3. \A i, j \in DOMAIN s : s[i] = s[j] => i = j
    BY <2>1 DEF Restorable
  <2> QED BY <2>2, <2>3 DEF DistinctKeys
<1>9. CASE UNCHANGED entries
  BY <1>9 DEF DistinctKeys
<1> QED
  BY <1>2, <1>3, <1>5, <1>6, <1>7, <1>8, <1>9 DEF Next, Operation, Acquire, UpdateInFile,
    WriteToFile, CopyToTemp, RemoveFile, RenameTemp, RemoveOrRenameFails, Finish, vars

(* No key is in two entries of the set (KVCache.cpp:24-48). *)
THEOREM KeysStayDistinct == Spec => []DistinctKeys
<1>1. Init => DistinctKeys
  BY NameAssumption DEF Init, UnusedEntry, DistinctKeys
<1> QED BY <1>1, DistinctStep, TypeCorrect, PTL DEF Spec

(* The temporary file is the rewritten file from its copy to the removal. *)
LEMMA TempStep == TempIsCopy /\ [Next]_vars => TempIsCopy'
BY DEF TempIsCopy, Next, Acquire, Operation, PutEntry, GetHit, GetMiss, DeleteEntry,
   UpdateInFile, WriteToFile, CopyToTemp, RemoveFile, RenameTemp, RemoveOrRenameFails,
   Finish, Crash, CrashWriting, Die, Restart, vars

(* The copy has the value being written for the call's key, and every other  *)
(* line of the file.                                                         *)
LEMMA CopyIsWhole ==
  ASSUME TypeOK, TempIsCopy, pc = "copied"
  PROVE  /\ file # Absent /\ temp # Absent
         /\ FindInFile(temp, call.key) = call.value
         /\ \A k \in Keys \ {call.key} : FindInFile(temp, k) = FindInFile(file, k)
<1>1. call \in Calls /\ call.key \in Keys /\ call.value \in Values \cup {Empty}
  BY DEF TypeOK, Calls
<1>2. file \in FileContents /\ file # Absent /\ temp = Rewrite(file, call)
  BY DEF TypeOK, TempIsCopy
<1>3. temp \in FileContents /\ temp # Absent
  BY <1>1, <1>2, FileAssumption DEF Rewrite, FileContents
<1>4. /\ temp[call.key] = IF call.func = "put" THEN call.value ELSE NoLine
      /\ \A k \in Keys \ {call.key} : temp[k] = file[k]
  BY <1>1, <1>2 DEF Rewrite, FileContents
<1>5. call.func # "put" => call.value = Empty
  BY <1>1 DEF Calls
<1>6. FindInFile(temp, call.key) = call.value
  BY <1>1, <1>3, <1>4, <1>5, NameAssumption DEF FindInFile
<1> QED BY <1>2, <1>3, <1>4, <1>6 DEF FindInFile

(* Whatever fails and wherever the process dies, the disk loses or changes no *)
(* pair but the one being written, unless a write starts a new file beside an *)
(* orphaned copy (KVStore.cpp:68-125).                                        *)
THEOREM PairsStayOnDisk == Spec => DiskKeepsPairs
<1> DEFINE Kept(k) ==
      OnDisk'[k] # OnDisk[k] =>
        \/ call \in Calls /\ k = call.key /\ OnDisk'[k] = call.value
        \/ CopyForgotten
<1>1. ASSUME TypeOK, TempIsCopy, Next, NEW k \in Keys
      PROVE  Kept(k)
  <2> USE <1>1
  <2>0. \A f : FindInFile(f, k) = IF f = Absent \/ f[k] = NoLine THEN Empty ELSE f[k]
    BY DEF FindInFile
  <2>1. CASE UNCHANGED <<file, temp>>
    BY <2>1 DEF OnDisk
  <2>2. CASE WriteToFile
    <3>1. CASE temp # Absent
      BY <2>2, <3>1 DEF WriteToFile, CopyForgotten
    <3>2. CASE temp = Absent
      <4>1. call \in Calls /\ call.key \in Keys /\ call.value \in Values \cup {Empty}
        BY <2>2 DEF WriteToFile, TypeOK, Calls
      <4>2. file' \in FileContents /\ file' # Absent
        BY <2>2, <4>1, FileAssumption DEF WriteToFile, FreshFile, FileContents
      <4>3. file'[k] = IF k = call.key THEN call.value ELSE NoLine
        BY <2>2 DEF WriteToFile, FreshFile
      <4>4. OnDisk[k] = Empty
        BY <2>2, <3>2, <2>0 DEF WriteToFile, OnDisk
      <4>5. OnDisk'[k] = FindInFile(file', k)
        BY <4>2 DEF OnDisk
      <4>6. OnDisk'[k] = IF k = call.key THEN call.value ELSE Empty
        BY <2>0, <4>1, <4>2, <4>3, <4>5, NameAssumption
      <4> QED BY <4>1, <4>4, <4>6
    <3> QED BY <3>1, <3>2
  <2>3. CASE CopyToTemp
    <3>1. OnDisk'[k] = OnDisk[k]
      BY <2>3 DEF CopyToTemp, OnDisk
    <3> QED BY <3>1
  <2>4. CASE RemoveFile
    <3>1. call \in Calls
      BY <2>4 DEF RemoveFile, TypeOK, Calls
    <3>2. OnDisk[k] = FindInFile(file, k) /\ OnDisk'[k] = FindInFile(temp, k)
      BY <2>4, CopyIsWhole DEF RemoveFile, OnDisk
    <3> QED BY <2>4, <3>1, <3>2, CopyIsWhole DEF RemoveFile
  <2>5. CASE RenameTemp
    <3>1. OnDisk[k] = FindInFile(temp, k)
      BY <2>5 DEF RenameTemp, TempIsCopy, OnDisk
    <3>2. OnDisk'[k] = FindInFile(temp, k)
      BY <2>5 DEF RenameTemp, OnDisk
    <3> QED BY <3>1, <3>2
  <2>6. CASE CrashWriting
    <3>1. CASE file # Absent
      BY <2>6, <3>1 DEF CrashWriting, OnDisk
    <3>2. CASE file = Absent /\ temp # Absent
      BY <2>6, <3>2 DEF CrashWriting, CopyForgotten
    <3>3. CASE file = Absent /\ temp = Absent
      <4>1. file'[k] = NoLine /\ temp' = Absent
        BY <2>6, <3>3 DEF CrashWriting
      <4>2. OnDisk[k] = Empty /\ OnDisk'[k] = Empty
        BY <2>0, <3>3, <4>1 DEF OnDisk
      <4> QED BY <4>2
    <3> QED BY <3>1, <3>2, <3>3
  <2>7. \/ WriteToFile \/ CopyToTemp \/ RemoveFile \/ RenameTemp \/ CrashWriting
        \/ UNCHANGED <<file, temp>>
    BY <1>1 DEF Next, Acquire, Operation, PutEntry, GetHit, GetMiss, DeleteEntry,
       UpdateInFile, RemoveOrRenameFails, Finish, Crash, Restart
  <2> QED BY <2>1, <2>2, <2>3, <2>4, <2>5, <2>6, <2>7
<1>2. TypeOK /\ TempIsCopy /\ [Next]_vars => [\A k \in Keys : Kept(k)]_vars
  BY <1>1
<1>3. Init => TempIsCopy
  BY DEF Init, TempIsCopy
<1> QED BY <1>2, <1>3, TempStep, TypeCorrect, PTL DEF Spec, DiskKeepsPairs

-----------------------------------------------------------------------------
(* What CacheCoherent says of one entry. *)
CoherentAt(i) ==
  entries[i].valid => entries[i].key \in Keys /\ entries[i].value = Truth[entries[i].key]

(* Entries that keep their key and value, or become invalid, stay coherent   *)
(* when no key's truth changes.                                              *)
LEMMA FewerEntriesCoherent ==
  ASSUME \A k \in Keys : Truth'[k] = Truth[k],
         NEW i, CoherentAt(i),
         entries'[i].valid => /\ entries[i].valid
                              /\ entries'[i].key = entries[i].key
                              /\ entries'[i].value = entries[i].value
  PROVE  CoherentAt(i)'
BY DEF CoherentAt

(* Placing the call's key with its truth keeps the set coherent when no      *)
(* other key's truth changes.                                                *)
LEMMA PlacedCoherent ==
  ASSUME TypeOK, DistinctKeys, NEW v, call.key \in Keys,
         entries' = Placed(entries, evictionPointer, call.key, v),
         Truth'[call.key] = v,
         \A k \in Keys \ {call.key} : Truth'[k] = Truth[k],
         \A i \in Slots : CoherentAt(i)
  PROVE  \A i \in Slots : CoherentAt(i)'
<1> DEFINE s == SlotFor(entries, evictionPointer, call.key)
<1>0. entries \in [Slots -> Entry] /\ evictionPointer \in Slots /\ DistinctIn(entries)
  BY DEF TypeOK, DistinctKeys, DistinctIn
<1>1. entries'[s] = [key |-> call.key, value |-> v, isReferenced |-> TRUE, valid |-> TRUE]
  BY <1>0, PlacedThere
<1>2. \A i \in Slots : i # s => entries[i].key # call.key
  BY <1>0, SlotForIsOnly
<1>3. \A i \in Slots : i # s => /\ entries'[i].key = entries[i].key
                                /\ entries'[i].value = entries[i].value
                                /\ entries'[i].valid = entries[i].valid
  BY <1>0, PlacedElsewhere
<1>4. ASSUME NEW i \in Slots, i = s
      PROVE  CoherentAt(i)'
  BY <1>1, <1>4 DEF CoherentAt
<1>5. ASSUME NEW i \in Slots, i # s
      PROVE  CoherentAt(i)'
  <2>1. CoherentAt(i) /\ entries[i].key # call.key
    BY <1>2, <1>5
  <2> QED BY <1>3, <1>5, <2>1 DEF CoherentAt
<1> QED BY <1>4, <1>5

(* The step of updateInFile that replaces the file makes it say what the     *)
(* cache says already.                                                       *)
LEMMA UpdateKeepsTruth ==
  ASSUME TypeOK, TempIsCopy, UpdateInFile, ~failed'
  PROVE  \A k \in Keys : Truth'[k] = Truth[k]
<1> USE DEF Truth, Stored, FindInFile
<1>0. call \in Calls /\ call.key \in Keys /\ call.value \in Values \cup {Empty}
  BY DEF TypeOK, UpdateInFile, WriteToFile, CopyToTemp, RemoveFile, RenameTemp,
    RemoveOrRenameFails, Calls
<1>1. CASE WriteToFile
  <2>1. file' \in FileContents /\ file' # Absent
    BY <1>0, <1>1, FileAssumption DEF WriteToFile, FreshFile, FileContents
  <2>2. \A k \in Keys : file'[k] = IF k = call.key THEN call.value ELSE NoLine
    BY <1>1 DEF WriteToFile, FreshFile
  <2> QED BY <1>0, <1>1, <2>1, <2>2, NameAssumption DEF WriteToFile
<1>2. CASE CopyToTemp
  BY <1>2 DEF CopyToTemp
<1>3. CASE RemoveFile
  <2>1. file \in FileContents /\ file # Absent /\ temp = Rewrite(file, call)
    BY <1>3 DEF RemoveFile, TempIsCopy, TypeOK
  <2>2. temp \in FileContents /\ temp # Absent
    BY <1>0, <2>1, FileAssumption DEF Rewrite, FileContents
  <2>3. temp[call.key] = IF call.func = "put" THEN call.value ELSE NoLine
    BY <1>0, <2>1 DEF Rewrite, FileContents
  <2>4. \A k \in Keys \ {call.key} : temp[k] = file[k]
    BY <2>1 DEF Rewrite, FileContents
  <2>5. call.func # "put" => call.value = Empty
    BY <1>0 DEF Calls
  <2>6. FindInFile(temp, call.key) = call.value
    BY <1>0, <2>2, <2>3, <2>5, NameAssumption
  <2>7. \A k \in Keys \ {call.key} : FindInFile(temp, k) = FindInFile(file, k)
    BY <2>1, <2>2, <2>4
  <2> QED BY <1>3, <2>6, <2>7 DEF RemoveFile
<1>4. CASE RenameTemp
  BY <1>4 DEF RenameTemp
<1> QED
  BY <1>1, <1>2, <1>3, <1>4 DEF UpdateInFile, RemoveOrRenameFails

(* A failure is only forgotten when the process dies. *)
LEMMA FailureStays ==
  ASSUME [Next]_vars, ~(Crash \/ CrashWriting)
  PROVE  failed => failed'
BY DEF Next, Acquire, Operation, PutEntry, GetHit, GetMiss, DeleteEntry, UpdateInFile,
   WriteToFile, CopyToTemp, RemoveFile, RenameTemp, RemoveOrRenameFails, Finish, Restart, vars

(* Next preserves the coherence of every entry. *)
LEMMA CoherentStep ==
  ASSUME TypeOK, DistinctKeys, TempIsCopy, [Next]_vars, ~failed',
         \A i \in Slots : CoherentAt(i)
  PROVE  \A i \in Slots : CoherentAt(i)'
<1>1. ASSUME NEW c \in Calls, Acquire(c)
      PROVE  \A i \in Slots : CoherentAt(i)'
  <2>1. \A k \in Keys : Truth'[k] = Truth[k]
    BY <1>1 DEF Acquire, Truth, Stored
  <2> QED BY <1>1, <2>1, FewerEntriesCoherent DEF Acquire
<1>2. CASE PutEntry
  <2>1. call.key \in Keys
    BY <1>2 DEF PutEntry, TypeOK, Calls
  <2>2. /\ Truth'[call.key] = call.value
        /\ \A k \in Keys \ {call.key} : Truth'[k] = Truth[k]
    BY <1>2, <2>1 DEF PutEntry, Truth, Stored
  <2> QED BY <1>2, <2>1, <2>2, PlacedCoherent DEF PutEntry
<1>3. CASE GetHit
  <2>1. \A k \in Keys : Truth'[k] = Truth[k]
    BY <1>3 DEF GetHit, Truth, Stored
  <2>2. \A i \in Slots : /\ entries'[i].valid = entries[i].valid
                         /\ entries'[i].key = entries[i].key
                         /\ entries'[i].value = entries[i].value
    BY <1>3 DEF GetHit, TypeOK, Entry
  <2> QED BY <2>1, <2>2, FewerEntriesCoherent
<1>4. CASE GetMiss
  <2>1. call.key \in Keys
    BY <1>4 DEF GetMiss, TypeOK, Calls
  <2>2. /\ Truth'[call.key] = FindInFile(file, call.key)
        /\ \A k \in Keys \ {call.key} : Truth'[k] = Truth[k]
    BY <1>4, <2>1 DEF GetMiss, Truth, Stored
  <2> QED BY <1>4, <2>1, <2>2, PlacedCoherent DEF GetMiss
<1>5. CASE DeleteEntry
  <2>1. \A k \in Keys \ {call.key} : Truth'[k] = Truth[k]
    BY <1>5 DEF DeleteEntry, Truth, Stored
  <2>2. call.key \in Keys
    BY <1>5 DEF DeleteEntry, TypeOK, Calls
  <2>3. ASSUME NEW i \in Slots, entries'[i].valid
        PROVE  /\ entries[i].valid /\ entries[i].key # call.key
               /\ entries'[i] = entries[i]
    <3>0. entries[i] \in Entry
      BY DEF TypeOK
    <3>1. CASE entries[i].key = call.key
      <4>1. \A j \in Slots : entries[j].key = call.key => i <= j
        BY <2>2, <3>1, SlotsAreNat DEF DistinctKeys
      <4>2. ~entries'[i].valid
        BY <1>5, <3>0, <3>1, <4>1 DEF DeleteEntry, Dropped, Entry
      <4> QED BY <2>3, <4>2
    <3>2. CASE entries[i].key # call.key
      BY <1>5, <2>3, <3>2 DEF DeleteEntry, Dropped
    <3> QED BY <3>1, <3>2
  <2> QED BY <2>1, <2>3 DEF CoherentAt
<1>6. CASE UpdateInFile
  <2>1. entries' = entries
    BY <1>6 DEF UpdateInFile, WriteToFile, CopyToTemp, RemoveFile, RenameTemp,
      RemoveOrRenameFails
  <2> QED BY <1>6, <2>1, UpdateKeepsTruth, FewerEntriesCoherent
<1>7. CASE Finish
  <2>1. \A k \in Keys : Truth'[k] = Truth[k]
    BY <1>7 DEF Finish, Truth, Stored
  <2> QED BY <1>7, <2>1, FewerEntriesCoherent DEF Finish
<1>8. CASE Crash \/ CrashWriting
  BY <1>8 DEF Crash, CrashWriting, Die, UnusedEntry, CoherentAt
<1>9. CASE Restart
  <2>0. PICK n \in 0 .. NoOfEntries : \E s \in [0 .. n - 1 -> Lines(file)] :
          entries' = Restored(file, s)
    BY <1>9 DEF Restart
  <2>1. PICK s \in [0 .. n - 1 -> Lines(file)] : entries' = Restored(file, s)
    BY <2>0
  <2>2. ASSUME NEW i \in Slots, entries'[i].valid
        PROVE  /\ s[i] \in Lines(file)
               /\ entries'[i].key = s[i] /\ entries'[i].value = file[s[i]]
    BY <2>1, <2>2 DEF Restored, UnusedEntry
  <2>3. \A k \in Lines(file) : k \in Keys /\ Truth'[k] = file[k]
    BY <1>9 DEF Restart, Lines, Truth, Stored, FindInFile
  <2> QED BY <2>2, <2>3 DEF CoherentAt
<1>10. CASE UNCHANGED vars
  <2>1. \A k \in Keys : Truth'[k] = Truth[k]
    BY <1>10 DEF vars, Truth, Stored
  <2> QED BY <1>10, <2>1, FewerEntriesCoherent DEF vars
<1> QED
  BY <1>1, <1>2, <1>3, <1>4, <1>5, <1>6, <1>7, <1>8, <1>9, <1>10 DEF Next, Operation

(* Unless remove() or rename() has failed in this process, every valid entry *)
(* holds what a read of the file would give, the key being written excepted  *)
(* (KVCache.cpp:65-130, KVStore.cpp:68-125).                                 *)
THEOREM CacheStaysCoherent == Spec => []CacheCoherent
<1>1. Init => CacheCoherent /\ TempIsCopy
  BY DEF Init, CacheCoherent, TempIsCopy, UnusedEntry
<1>2. TypeOK /\ DistinctKeys /\ TempIsCopy /\ CacheCoherent /\ [Next]_vars => CacheCoherent'
  <2> SUFFICES ASSUME TypeOK, DistinctKeys, TempIsCopy, CacheCoherent, [Next]_vars, ~failed'
               PROVE  \A i \in Slots : CoherentAt(i)'
    BY DEF CacheCoherent, CoherentAt
  <2>1. CASE Crash \/ CrashWriting
    BY <2>1 DEF Crash, CrashWriting, Die, UnusedEntry, CoherentAt
  <2>2. CASE ~(Crash \/ CrashWriting)
    <3>1. ~failed
      BY <2>2, FailureStays
    <3>2. \A i \in Slots : CoherentAt(i)
      BY <3>1 DEF CacheCoherent, CoherentAt
    <3> QED BY <3>2, CoherentStep
  <2> QED BY <2>1, <2>2
<1> QED BY <1>1, <1>2, TempStep, TypeCorrect, KeysStayDistinct, PTL DEF Spec

-----------------------------------------------------------------------------
(* What the operation in progress has found out so far. *)
ReplyInv ==
  /\ pc \in {"update", "copied", "removed"} => call.func \in {"put", "del"}
  /\ pc \in {"called", "update"} => reply = Empty
  /\ pc = "copied" =>
       reply = IF call.func = "del" /\ file[call.key] # NoLine THEN Success ELSE Empty

LEMMA ReplyStep == ReplyInv /\ [Next]_vars => ReplyInv'
BY DEF ReplyInv, Next, Acquire, Operation, PutEntry, GetHit, GetMiss, DeleteEntry,
   UpdateInFile, WriteToFile, CopyToTemp, RemoveFile, RenameTemp, RemoveOrRenameFails,
   Finish, Crash, CrashWriting, Die, Restart, vars

(* While the disk works, every step of the set is a step of the map, or      *)
(* changes nothing there.                                                    *)
LEMMA WorkingStep ==
  ASSUME TypeOK, TempIsCopy, CacheCoherent, ReplyInv, ~failed, ~failed', [Next]_vars
  PROVE  [Map!MapNext]_(Map!mapVars)
<1> USE DEF MapPhase, MapReply, Map!mapVars
<1>0. ASSUME pc \in {"called", "update", "copied", "removed", "done"}
      PROVE  call \in Calls /\ call.key \in Keys /\ call.value \in Values \cup {Empty}
  BY <1>0 DEF TypeOK, Calls
<1>1. ASSUME NEW c \in Calls, Acquire(c)
      PROVE  Map!Invoke
  <2>1. MapValue' = MapValue
    BY <1>1 DEF Acquire, MapValue, Stored
  <2> QED BY <1>1, <2>1 DEF Acquire, Map!Invoke, Map!Calls, Calls
<1>2. CASE PutEntry \/ DeleteEntry
  <2>1. MapValue' = MapValue
    BY <1>2 DEF PutEntry, DeleteEntry, MapValue, Stored
  <2> QED BY <1>2, <2>1 DEF PutEntry, DeleteEntry
<1>3. CASE GetHit
  <2>1. MapValue' = MapValue
    BY <1>3 DEF GetHit, MapValue, Stored
  <2>2. reply' = MapValue[call.key]
    <3> DEFINE i == Lowest(Cached(call.key))
    <3>1. i \in Slots /\ entries[i].key = call.key /\ entries[i].valid
      <4>1. Cached(call.key) \subseteq Nat
        BY SlotsAreNat DEF Cached
      <4>2. i \in Cached(call.key)
        BY <1>3, <4>1, LowestIsLeast DEF GetHit
      <4> QED BY <4>2 DEF Cached
    <3>2. entries[i].value = Truth[call.key]
      BY <3>1 DEF CacheCoherent
    <3>3. Truth[call.key] = MapValue[call.key]
      BY <1>0, <1>3 DEF GetHit, Truth, MapValue
    <3> QED BY <1>3, <3>2, <3>3 DEF GetHit
  <2>3. Map!ApplyGet
    BY <1>3, <2>1, <2>2 DEF GetHit, Map!ApplyGet
  <2> QED BY <1>3, <2>3 DEF GetHit, Map!Apply, Map!MapNext
<1>4. CASE GetMiss
  <2>1. MapValue' = MapValue
    BY <1>4 DEF GetMiss, MapValue, Stored
  <2>2. reply' = MapValue[call.key]
    BY <1>0, <1>4 DEF GetMiss, MapValue, Stored
  <2>3. Map!ApplyGet
    BY <1>4, <2>1, <2>2 DEF GetMiss, Map!ApplyGet
  <2> QED BY <1>4, <2>3 DEF GetMiss, Map!Apply, Map!MapNext
<1>5. CASE WriteToFile
  <2>0. call.func \in {"put", "del"} /\ reply = Empty
    BY <1>5 DEF WriteToFile, ReplyInv
  <2>1. call.key \in Keys /\ call.value \in Values \cup {Empty} /\ call \in Calls
    BY <1>0, <1>5 DEF WriteToFile
  <2>2. file' # Absent
    BY <1>5, <2>1, FileAssumption DEF WriteToFile, FreshFile
  <2>3. MapValue = [k \in Keys |-> Empty]
    BY <1>5 DEF WriteToFile, MapValue, Stored, FindInFile
  <2>4. \A k \in Keys : MapValue'[k] = IF k = call.key THEN call.value ELSE Empty
    BY <1>5, <2>1, <2>2, NameAssumption
      DEF WriteToFile, MapValue, Stored, FindInFile, FreshFile
  <2>5. MapValue' = [MapValue EXCEPT ![call.key] = call.value]
    BY <2>1, <2>3, <2>4 DEF MapValue
  <2>6. call.func = "del" => call.value = Empty
    BY <2>1 DEF Calls
  <2>7. Map!ApplyPut \/ Map!ApplyDel
    BY <1>5, <2>0, <2>1, <2>3, <2>5, <2>6 DEF WriteToFile, Map!ApplyPut, Map!ApplyDel
  <2> QED BY <1>5, <2>7 DEF WriteToFile, Map!Apply, Map!MapNext
<1>6. CASE CopyToTemp
  <2>1. MapValue' = MapValue
    BY <1>6 DEF CopyToTemp, MapValue, Stored
  <2>2. reply = Empty
    BY <1>6 DEF CopyToTemp, ReplyInv
  <2> QED BY <1>6, <2>1, <2>2 DEF CopyToTemp
<1>7. CASE RemoveFile
  <2>0. call.func \in {"put", "del"} /\ call.key \in Keys /\ call.value \in Values \cup {Empty}
        /\ call \in Calls
    BY <1>0, <1>7 DEF RemoveFile, ReplyInv
  <2>1. file \in FileContents /\ file # Absent /\ temp = Rewrite(file, call)
    BY <1>7 DEF RemoveFile, TempIsCopy, TypeOK
  <2>2. temp \in FileContents /\ temp # Absent
    BY <2>0, <2>1, FileAssumption DEF Rewrite, FileContents
  <2>3. call.func = "del" => call.value = Empty
    BY <2>0 DEF Calls
  <2>4. FindInFile(temp, call.key) = call.value
    BY <2>0, <2>1, <2>2, <2>3, NameAssumption DEF Rewrite, FindInFile, FileContents
  <2>5. \A k \in Keys \ {call.key} : FindInFile(temp, k) = FindInFile(file, k)
    BY <2>0, <2>1, <2>2 DEF Rewrite, FindInFile, FileContents
  <2>6. MapValue' = [MapValue EXCEPT ![call.key] = call.value]
    BY <1>7, <2>0, <2>4, <2>5 DEF RemoveFile, MapValue, Stored
  <2>7. /\ call.func = "put" => reply = Empty
        /\ call.func = "del" => reply = Success \/ (MapValue[call.key] = Empty /\ reply = Empty)
    BY <1>7, <2>0, <2>1 DEF RemoveFile, ReplyInv, MapValue, Stored, FindInFile
  <2>8. Map!ApplyPut \/ Map!ApplyDel
    BY <1>7, <2>0, <2>3, <2>6, <2>7 DEF RemoveFile, Map!ApplyPut, Map!ApplyDel
  <2> QED BY <1>7, <2>8 DEF RemoveFile, Map!Apply, Map!MapNext
<1>8. CASE RenameTemp
  <2>1. MapValue' = MapValue
    BY <1>8 DEF RenameTemp, MapValue, Stored
  <2> QED BY <1>8, <2>1 DEF RenameTemp
<1>9. CASE Finish
  <2>1. MapValue' = MapValue
    BY <1>9 DEF Finish, MapValue, Stored
  <2> QED BY <1>9, <2>1 DEF Finish, Map!Return, Map!MapNext
<1>10. CASE Crash
  <2>1. pc # "removed" => MapValue' = MapValue
    BY <1>10 DEF Crash, Die, MapValue, Stored
  <2>2. pc = "removed" => file = Absent
    BY DEF TempIsCopy
  <2>3. pc = "removed" => MapValue' = [k \in Keys |-> Empty] /\ call.func # "get"
    BY <1>10, <2>2 DEF Crash, Die, MapValue, Stored, FindInFile, ReplyInv
  <2> QED BY <1>10, <2>1, <2>3 DEF Crash, Die, TypeOK, Map!Crash, Map!MapNext
<1>11. CASE Restart
  <2>1. MapValue' = MapValue
    BY <1>11 DEF Restart, MapValue, Stored
  <2> QED BY <1>11, <2>1 DEF Restart, Map!Restart, Map!MapNext
<1>13. CASE CrashWriting
  <2>1. ASSUME NEW k \in Keys
        PROVE  FindInFile(file', k) = FindInFile(file, k)
    BY <1>13 DEF CrashWriting, FindInFile
  <2>2. MapValue' = MapValue
    BY <1>13, <2>1 DEF CrashWriting, Die, MapValue, Stored
  <2> QED BY <1>13, <2>2 DEF CrashWriting, Die, Map!Crash, Map!MapNext
<1>12. CASE UNCHANGED vars
  <2>1. MapValue' = MapValue
    BY <1>12 DEF vars, MapValue, Stored
  <2> QED BY <1>12, <2>1 DEF vars
<1> QED
  BY <1>1, <1>2, <1>3, <1>4, <1>5, <1>6, <1>7, <1>8, <1>9, <1>10, <1>11, <1>12, <1>13
    DEF Next, Operation, UpdateInFile, RemoveOrRenameFails, Map!MapNext

(* The step that fails, and what follows it until the process dies.          *)
LEMMA FailedStep ==
  ASSUME TypeOK, [Next]_vars, failed \/ failed'
  PROVE  [Map!MapNext]_(Map!mapVars)
<1> USE DEF MapPhase
<1>1. CASE failed /\ (Crash \/ CrashWriting)
  <2>1. MapPhase' = "down" /\ call' = NoCall /\ MapReply' = Empty
    BY <1>1 DEF Crash, CrashWriting, Die, MapReply
  <2> QED BY <1>1, <2>1 DEF Map!Crash, Map!MapNext
<1>2. CASE failed /\ ~(Crash \/ CrashWriting)
  BY <1>2, FailureStays DEF Map!Fail, Map!MapNext
<1>3. CASE ~failed
  <2>1. RemoveOrRenameFails
    BY <1>3 DEF Next, Acquire, Operation, PutEntry, GetHit, GetMiss, DeleteEntry,
      UpdateInFile, WriteToFile, CopyToTemp, RemoveFile, RenameTemp, Finish,
      Crash, CrashWriting, Die, Restart, vars
  <2> QED BY <1>3, <2>1 DEF RemoveOrRenameFails, Map!Fail, Map!MapNext
<1> QED BY <1>1, <1>2, <1>3

(* The set with its file is the map of module KVMap: its operations are      *)
(* atomic, touch one key, and lose data only to a crash inside a write; a    *)
(* failed remove or rename ends this until the process restarts              *)
(* (KVCache.cpp:171-200, KVStore.cpp:117-124).                               *)
THEOREM SetImplementsMap == Spec => ImplementsMap
<1>1. Init => Map!MapInit
  <2>1. Init => MapValue = [k \in Keys |-> Empty]
    BY DEF Init, MapValue, Stored, FindInFile
  <2> QED BY <2>1 DEF Init, Map!MapInit, MapPhase, MapReply
<1>2. Init => ReplyInv /\ TempIsCopy
  BY DEF Init, ReplyInv, TempIsCopy
<1>3. TypeOK /\ TempIsCopy /\ CacheCoherent /\ ReplyInv /\ [Next]_vars
        => [Map!MapNext]_(Map!mapVars)
  BY WorkingStep, FailedStep
<1> QED
  BY <1>1, <1>2, <1>3, ReplyStep, TempStep, TypeCorrect, CacheStaysCoherent, PTL
    DEF Spec, ImplementsMap, Map!MapSpec
=============================================================================
