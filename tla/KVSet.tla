------------------------------- MODULE KVSet -------------------------------
(***************************************************************************)
(* One set of the write-through cache of the key-value server with the     *)
(* database file behind it: class CacheSet (KVCache.cpp) and the           *)
(* operations of KVStore (KVStore.cpp) that it calls, in                   *)
(* CS744/Assignment_4/server (the same code serves Assignment_5 and        *)
(* CS695/Assignment_2).  operateOnCache holds the set's mutex for the      *)
(* whole operation, so a set has at most one operation in progress; the    *)
(* steps of that operation that reach the disk are separate actions, since *)
(* the process may die between any two of them.                            *)
(*                                                                         *)
(* A file is a function from keys to the value on the key's line: the      *)
(* order of its lines is forgotten, and restoring takes them in any order. *)
(***************************************************************************)
EXTENDS Naturals

CONSTANTS
  Keys,        \* the keys that hash to this set, none of them empty
  Values,      \* the non-empty values a client can store
  Empty,       \* the empty string
  Success,     \* the string "Success"
  NoKey,       \* the key of an entry that was never used (the empty string)
  NoLine,      \* a key without a line in a file
  Absent,      \* a file that does not exist
  NoCall,      \* no operation in progress
  NoOfEntries  \* entries in the set (sizeOfSet on the command line)

ASSUME SizeAssumption == NoOfEntries \in Nat \ {0}
ASSUME NameAssumption ==
  /\ Empty \notin Values /\ NoLine \notin Values \cup {Empty}
  /\ NoKey \notin Keys
  /\ Success # Empty
ASSUME FileAssumption == Absent \notin [Keys -> Values \cup {Empty, NoLine}]

Slots == 0 .. NoOfEntries - 1

Entry ==
  [key : Keys \cup {NoKey}, value : Values \cup {Empty},
   isReferenced : BOOLEAN, valid : BOOLEAN]

UnusedEntry ==
  [key |-> NoKey, value |-> Empty, isReferenced |-> FALSE, valid |-> FALSE]

FileContents == [Keys -> Values \cup {Empty, NoLine}]

Calls ==
  [func : {"put"}, key : Keys, value : Values]
    \cup [func : {"get", "del"}, key : Keys, value : {Empty}]

VARIABLES
  entries,         \* the cache entries of the set
  evictionPointer, \* the clock hand
  file,            \* database/<setID>
  temp,            \* database/<setID>_temp
  call,            \* the operation that holds the set's mutex
  pc,              \* where that operation is
  reply,           \* what operateOnCache returns for it
  failed           \* history: remove() or rename() has failed in this process

vars == <<entries, evictionPointer, file, temp, call, pc, reply, failed>>

-----------------------------------------------------------------------------
(* Reading and rewriting a file. *)

FindInFile(f, k) ==
  IF f = Absent THEN Empty ELSE IF f[k] = NoLine THEN Empty ELSE f[k]

Lines(f) == IF f = Absent THEN {} ELSE {k \in Keys : f[k] # NoLine}

\* The copy updateInFile makes: the line of the call's key is replaced or
\* appended by a put, left out by a deletion; every other line is kept.
Rewrite(f, c) ==
  [f EXCEPT ![c.key] = IF c.func = "put" THEN c.value ELSE NoLine]

\* A file that does not exist is created with the one pair at hand, even when
\* the pair is that of a key to delete: its line then holds the empty value.
FreshFile(c) == [k \in Keys |-> IF k = c.key THEN c.value ELSE NoLine]

-----------------------------------------------------------------------------
(* Looking a key up and placing it. *)

Holes(E) == {i \in Slots : ~E[i].valid}

Lowest(S) == CHOOSE i \in S : \A j \in S : i <= j

\* Mutant of Hits: the search stops at the first hole.
HitsBeforeHole(E, k) ==
  {i \in Slots : E[i].key = k /\ E[i].valid /\ \A j \in Holes(E) : i < j}

\* getEntryID tests the key of every entry but the first invalid one, which it
\* remembers as the hole; an invalid entry that still holds the key is a hit.
Hits(E, k) ==
  {i \in Slots : E[i].key = k /\ (E[i].valid \/ i # Lowest(Holes(E)))}

\* The entries the hand can take, and those it clears on its way to i.
Unreferenced(E) == {i \in Slots : ~(E[i].isReferenced /\ E[i].valid)}

Swept(p, i) == IF p <= i THEN p .. i - 1 ELSE (p .. NoOfEntries - 1) \cup (0 .. i - 1)

\* Where the hand stops: the first unreferenced entry, or where it started once
\* it has been all the way round.
Victim(E, p) ==
  IF Unreferenced(E) = {} THEN p
  ELSE CHOOSE i \in Unreferenced(E) : Swept(p, i) \cap Unreferenced(E) = {}

Cleared(E, p) ==
  IF Unreferenced(E) = {} THEN Slots ELSE Swept(p, Victim(E, p))

\* The entry that a put of k takes.
SlotFor(E, p, k) ==
  IF Hits(E, k) # {} THEN Lowest(Hits(E, k))
  ELSE IF Holes(E) # {} THEN Lowest(Holes(E))
  ELSE Victim(E, p)

Missed(E, k) == Hits(E, k) = {} /\ Holes(E) = {}

\* putEntry on the cache: the chosen entry gets the pair; on a miss the entries
\* the hand passed lose their reference bit and the hand moves past the victim.
Placed(E, p, k, v) ==
  [i \in Slots |->
     IF i = SlotFor(E, p, k)
     THEN [key |-> k, value |-> v, isReferenced |-> TRUE, valid |-> TRUE]
     ELSE IF Missed(E, k) /\ i \in Cleared(E, p)
          THEN [E[i] EXCEPT !.isReferenced = FALSE]
          ELSE E[i]]

\* Mutant of HandAfter: the hand does not wrap around.
HandOffTheEnd(E, p, k) == IF ~Missed(E, k) THEN p ELSE Victim(E, p) + 1

HandAfter(E, p, k) ==
  IF ~Missed(E, k) THEN p
  ELSE IF Victim(E, p) = NoOfEntries - 1 THEN 0 ELSE Victim(E, p) + 1

-----------------------------------------------------------------------------
Init ==
  /\ entries = [i \in Slots |-> UnusedEntry]
  /\ evictionPointer = 0
  /\ file = Absent
  /\ temp = Absent
  /\ call = NoCall
  /\ pc = "idle"
  /\ reply = Empty
  /\ failed = FALSE

\* operateOnCache takes the set's mutex for one call.
Acquire(c) ==
  /\ pc = "idle"
  /\ call' = c
  /\ pc' = "called"
  /\ reply' = Empty
  /\ UNCHANGED <<entries, evictionPointer, file, temp, failed>>

\* putEntry: the cache first, then the file.
PutEntry ==
  /\ pc = "called" /\ call.func = "put"
  /\ entries' = Placed(entries, evictionPointer, call.key, call.value)
  /\ evictionPointer' = HandAfter(entries, evictionPointer, call.key)
  /\ pc' = "update"
  /\ UNCHANGED <<file, temp, call, reply, failed>>

\* Mutant of Cached: the valid flag is not tested.
CachedOrStale(k) == {i \in Slots : entries[i].key = k}

Cached(k) == {i \in Slots : entries[i].key = k /\ entries[i].valid}

\* getEntry, served from the cache.
GetHit ==
  /\ pc = "called" /\ call.func = "get"
  /\ Cached(call.key) # {}
  /\ LET i == Lowest(Cached(call.key)) IN
       /\ entries' = [entries EXCEPT ![i].isReferenced = TRUE]
       /\ reply' = entries[i].value
  /\ pc' = "done"
  /\ UNCHANGED <<evictionPointer, file, temp, call, failed>>

\* getEntry, served from the file: what was found is cached, the empty value of
\* an absent key too.
GetMiss ==
  /\ pc = "called" /\ call.func = "get"
  /\ Cached(call.key) = {}
  /\ entries' = Placed(entries, evictionPointer, call.key, FindInFile(file, call.key))
  /\ evictionPointer' = HandAfter(entries, evictionPointer, call.key)
  /\ reply' = FindInFile(file, call.key)
  /\ pc' = "done"
  /\ UNCHANGED <<file, temp, call, failed>>

\* Mutant of Dropped: only the reference bit is reset.
DroppedReference(E, k) ==
  [i \in Slots |-> IF E[i].key = k THEN [E[i] EXCEPT !.isReferenced = FALSE] ELSE E[i]]

\* The first entry with the key is invalidated, whether it was valid or not.
Dropped(E, k) ==
  [i \in Slots |->
     IF E[i].key = k /\ \A j \in Slots : E[j].key = k => i <= j
     THEN [E[i] EXCEPT !.valid = FALSE, !.isReferenced = FALSE]
     ELSE E[i]]

\* deleteEntry: the cache first, then the file.
DeleteEntry ==
  /\ pc = "called" /\ call.func = "del"
  /\ entries' = Dropped(entries, call.key)
  /\ pc' = "update"
  /\ UNCHANGED <<evictionPointer, file, temp, call, reply, failed>>

\* updateInFile when the file does not exist: writeToFile, and false.
WriteToFile ==
  /\ pc = "update" /\ file = Absent
  /\ file' = FreshFile(call)
  /\ pc' = "done"
  /\ UNCHANGED <<entries, evictionPointer, temp, call, reply, failed>>

\* Mutant of CopyToTemp: the copy is appended to the temporary file that an
\* update cut short has left, whose lines come first.
AppendToTemp ==
  /\ pc = "update" /\ file # Absent
  /\ temp' = [k \in Keys |-> IF k \in Lines(temp) THEN temp[k] ELSE Rewrite(file, call)[k]]
  /\ reply' = IF call.func = "del" /\ file[call.key] # NoLine THEN Success ELSE Empty
  /\ pc' = "copied"
  /\ UNCHANGED <<entries, evictionPointer, file, call, failed>>

\* updateInFile otherwise: first the copy, which finds out whether the key to
\* delete has a line.
CopyToTemp ==
  /\ pc = "update" /\ file # Absent
  /\ temp' = Rewrite(file, call)
  /\ reply' = IF call.func = "del" /\ file[call.key] # NoLine THEN Success ELSE Empty
  /\ pc' = "copied"
  /\ UNCHANGED <<entries, evictionPointer, file, call, failed>>

RemoveFile ==
  /\ pc = "copied"
  /\ file' = Absent
  /\ pc' = "removed"
  /\ UNCHANGED <<entries, evictionPointer, temp, call, reply, failed>>

RenameTemp ==
  /\ pc = "removed"
  /\ file' = temp
  /\ temp' = Absent
  /\ pc' = "done"
  /\ UNCHANGED <<entries, evictionPointer, call, reply, failed>>

\* remove() or rename() fails: a message, and the operation carries on.
RemoveOrRenameFails ==
  /\ pc \in {"copied", "removed"}
  /\ pc' = "done"
  /\ failed' = TRUE
  /\ UNCHANGED <<entries, evictionPointer, file, temp, call, reply>>

\* The operation returns and the mutex is released.
Finish ==
  /\ pc = "done"
  /\ pc' = "idle"
  /\ call' = NoCall
  /\ UNCHANGED <<entries, evictionPointer, file, temp, reply, failed>>

\* The process dies and its memory is lost.
Die ==
  /\ pc' = "down"
  /\ entries' = [i \in Slots |-> UnusedEntry]
  /\ evictionPointer' = 0
  /\ call' = NoCall
  /\ reply' = Empty
  /\ failed' = FALSE

\* Between two steps the files stay as they are.
Crash ==
  /\ pc # "down"
  /\ Die
  /\ UNCHANGED <<file, temp>>

\* While a file is being written, it stays behind with a part of its lines; the
\* single pair of a new file is written when it is closed.
CrashWriting ==
  /\ pc = "update"
  /\ Die
  /\ \/ /\ file = Absent
        /\ file' = [k \in Keys |-> NoLine]
        /\ UNCHANGED temp
     \/ /\ file # Absent
        /\ \E K \in SUBSET Keys :
             temp' = [k \in Keys |-> IF k \in K THEN Rewrite(file, call)[k] ELSE NoLine]
        /\ UNCHANGED file

\* What restoreFromFile can return: up to NoOfEntries pairs of the file, all of
\* them when they fit.  The temporary file is not looked at.
Restorable(f, s) ==
  /\ \A i, j \in DOMAIN s : s[i] = s[j] => i = j
  /\ DOMAIN s = Slots \/ {s[i] : i \in DOMAIN s} = Lines(f)

Restored(f, s) ==
  [i \in Slots |->
     IF i \in DOMAIN s
     THEN [key |-> s[i], value |-> f[s[i]], isReferenced |-> FALSE, valid |-> TRUE]
     ELSE UnusedEntry]

\* The constructors of KVCache and CacheSet, in a new process.
Restart ==
  /\ pc = "down"
  /\ pc' = "idle"
  /\ \E n \in 0 .. NoOfEntries : \E s \in [0 .. n - 1 -> Lines(file)] :
       /\ Restorable(file, s)
       /\ entries' = Restored(file, s)
  /\ UNCHANGED <<evictionPointer, file, temp, call, reply, failed>>

Operation == PutEntry \/ GetHit \/ GetMiss \/ DeleteEntry

UpdateInFile == WriteToFile \/ CopyToTemp \/ RemoveFile \/ RenameTemp \/ RemoveOrRenameFails

Next ==
  \/ \E c \in Calls : Acquire(c)
  \/ Operation
  \/ UpdateInFile
  \/ Finish
  \/ Crash
  \/ CrashWriting
  \/ Restart

Spec == Init /\ [][Next]_vars

-----------------------------------------------------------------------------
(* Type correctness of the cache set and of its files. *)
TypeOK ==
  /\ entries \in [Slots -> Entry]
  /\ evictionPointer \in Slots
  /\ file \in FileContents \cup {Absent}
  /\ temp \in FileContents \cup {Absent}
  /\ pc \in {"idle", "called", "update", "copied", "removed", "done", "down"}
  /\ call \in IF pc \in {"idle", "down"} THEN {NoCall} ELSE Calls
  /\ reply \in Values \cup {Empty, Success}
  /\ failed \in BOOLEAN

(* A key occupies at most one entry, counting the invalid entries that still *)
(* hold a deleted key: getEntryID can take a hole only after it has compared *)
(* the key with every other entry (KVCache.cpp:24-48).                       *)
DistinctKeys ==
  \A i, j \in Slots :
    entries[i].key \in Keys /\ entries[i].key = entries[j].key => i = j

\* The file as it is, or as it is about to be again.
Stored == IF pc = "removed" THEN temp ELSE file

\* What a valid entry for k must hold: the pair being written, or the file's.
Truth ==
  [k \in Keys |->
     IF pc \in {"update", "copied"} /\ call.key = k
     THEN call.value
     ELSE FindInFile(Stored, k)]

(* Every valid entry holds what a read of the file would give, through hits, *)
(* evictions, negative entries, deletions and restarts, except that the key  *)
(* being written is ahead of the file until the file has been replaced.  A   *)
(* failed remove or rename leaves the cache ahead of the file until the      *)
(* process restarts (KVCache.cpp:65-130, write-through).                     *)
CacheCoherent ==
  ~failed =>
    \A i \in Slots :
      entries[i].valid => entries[i].key \in Keys /\ entries[i].value = Truth[entries[i].key]

\* What the disk holds for each key: the file, or while there is none, the copy.
OnDisk == [k \in Keys |-> FindInFile(IF file # Absent THEN file ELSE temp, k)]

\* A new file is started although an earlier update left the only copy: it died,
\* or failed to rename, after it had removed the file.
CopyForgotten == pc = "update" /\ file = Absent /\ temp # Absent

(* Whatever fails and wherever the process dies, the disk goes on holding    *)
(* every pair but that of the key being written, which takes the value being *)
(* written: the copy that replaces the file has all its other lines and none *)
(* of an earlier, unfinished copy.  The one exception is CopyForgotten: the  *)
(* next write starts a new file without the pairs of an orphaned copy        *)
(* (KVStore.cpp:68-125).                                                     *)
DiskKeepsPairs ==
  [][\A k \in Keys :
       OnDisk'[k] # OnDisk[k] =>
         \/ call \in Calls /\ k = call.key /\ OnDisk'[k] = call.value
         \/ CopyForgotten]_vars

(* What the set is as a map. *)
MapValue == [k \in Keys |-> FindInFile(Stored, k)]

MapPhase ==
  IF failed THEN "failed"
  ELSE CASE pc = "idle" -> "ready"
         [] pc \in {"called", "update", "copied"} -> "called"
         [] pc \in {"removed", "done"} -> "applied"
         [] pc = "down" -> "down"

MapReply == IF pc = "copied" THEN Empty ELSE reply

Map == INSTANCE KVMap WITH map <- MapValue, phase <- MapPhase, reply <- MapReply

(* The set implements the map of module KVMap: an operation takes effect at  *)
(* one instant, replies accordingly, and touches no other key; a crash loses *)
(* the map only inside a write, and a failed remove or rename ends the       *)
(* promise until the next restart (KVCache.cpp:171-200, KVStore.cpp:117-124).*)
ImplementsMap == Map!MapSpec
=============================================================================
