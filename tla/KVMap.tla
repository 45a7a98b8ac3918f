------------------------------- MODULE KVMap -------------------------------
(***************************************************************************)
(* What one set of the key-value server promises to its callers            *)
(* (CS744/Assignment_4/server/KVCache.cpp, operateOnCache): a map that is  *)
(* read and written by one call at a time.  A call is made, takes effect   *)
(* at one instant, and returns a reply.  Caching, eviction, the file and   *)
(* its temporary copy are invisible here.  A crash forgets the call in     *)
(* progress; a crash in the middle of a write may also lose the whole map, *)
(* a crash at any other time loses nothing.  When the disk fails a write,  *)
(* nothing is promised until the process has been restarted.               *)
(***************************************************************************)
CONSTANTS
  Keys,    \* the keys that hash to this set
  Values,  \* the values a client can store
  Empty,   \* the empty string: the value read for a key that is absent
  Success, \* the string "Success" that a deletion replies
  NoCall   \* no call is in progress

Calls ==
  [func : {"put"}, key : Keys, value : Values]
    \cup [func : {"get", "del"}, key : Keys, value : {Empty}]

VARIABLES
  map,    \* the value of each key, Empty for an absent one
  call,   \* the call in progress
  phase,  \* "ready", "called", "applied", "down" or "failed"
  reply   \* what the last call that took effect answers

mapVars == <<map, call, phase, reply>>

MapInit ==
  /\ map = [k \in Keys |-> Empty]
  /\ call = NoCall
  /\ phase = "ready"
  /\ reply = Empty

Invoke ==
  /\ phase = "ready"
  /\ call' \in Calls
  /\ phase' = "called"
  /\ reply' = Empty
  /\ UNCHANGED map

ApplyPut ==
  /\ call.func = "put"
  /\ map' = [map EXCEPT ![call.key] = call.value]
  /\ reply' = Empty

ApplyGet ==
  /\ call.func = "get"
  /\ reply' = map[call.key]
  /\ UNCHANGED map

\* Deleting a key that is present succeeds.  What the deletion of an absent key
\* answers is left open: the code's answer depends on what the file looks like.
ApplyDel ==
  /\ call.func = "del"
  /\ map' = [map EXCEPT ![call.key] = Empty]
  /\ \/ reply' = Success
     \/ map[call.key] = Empty /\ reply' = Empty

Apply ==
  /\ phase = "called"
  /\ phase' = "applied"
  /\ ApplyPut \/ ApplyGet \/ ApplyDel
  /\ UNCHANGED call

Return ==
  /\ phase = "applied"
  /\ phase' = "ready"
  /\ call' = NoCall
  /\ UNCHANGED <<map, reply>>

Crash ==
  /\ phase # "down"
  /\ phase' = "down"
  /\ call' = NoCall
  /\ reply' = Empty
  /\ \/ UNCHANGED map
     \/ /\ phase = "applied"
        /\ call.func # "get"
        /\ map' = [k \in Keys |-> Empty]
     \/ phase = "failed"

\* The disk fails a write: until the process dies, anything goes.
Fail ==
  /\ phase \in {"called", "applied", "failed"}
  /\ phase' = "failed"

Restart ==
  /\ phase = "down"
  /\ phase' = "ready"
  /\ UNCHANGED <<map, call, reply>>

MapNext == Invoke \/ Apply \/ Return \/ Crash \/ Fail \/ Restart

MapSpec == MapInit /\ [][MapNext]_mapVars

=============================================================================
