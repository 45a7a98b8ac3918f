---------------------------- MODULE PeerNetwork ----------------------------
(***************************************************************************)
(* How peers find and watch each other (CS765/PeerNode/PeerNode.cpp).  A   *)
(* peer that starts listens, asks more than half of the seeds, one after   *)
(* the other, for their lists, connects to some of the peers it was told,  *)
(* and then serves.  Each connection has a thread that asks the other end  *)
(* every 13 seconds whether it lives; after Misses rounds in a row without *)
(* the right answer the thread drops the neighbor, reports it dead to the  *)
(* seeds of its peer and ends.  A peer that is asked by one that is not    *)
(* its neighbor connects back.                                             *)
(*                                                                         *)
(* Peers crash, lose everything and start again at the same address; seeds *)
(* do not.  Answers may be late; a peer that waits for a seed does not     *)
(* answer at all.  MaxFaults bounds the crashes and late answers together. *)
(* A connect fails only when nobody listens.  The other messages of the    *)
(* peers, blocks, are in BlockChain.                                       *)
(***************************************************************************)
EXTENDS SeedNode, FiniteSetsExt, Functions

CONSTANTS
  Misses,      \* rounds without answer: 3 in the code
  MaxLinks,    \* peers a joining peer connects to: 4 in the code
  MaxThreads,  \* bound: threads that watch the same peer at a time
  MaxFaults    \* bound: crashes of peers and late answers

ASSUME NetworkAssumption ==
  /\ Misses \in Nat \ {0} /\ MaxLinks \in Nat
  /\ MaxThreads \in Nat /\ MaxFaults \in Nat

(* A watch thread.  open: the process it connected to still lives.         *)
(* request and reply: the oldest one not read yet belongs to this round,   *)
(* or to an older one.  todo: seeds it has to report to.  A thread that    *)
(* waits for an answer may still miss one.                                 *)
Unread == {"none", "current", "old"}
Records == [at : {"none", "asks", "reads", "reports"}, dead : 0 .. Misses, open : BOOLEAN,
            request : Unread, reply : Unread, todo : SUBSET Seed]
Thread == {t \in Records : t.at = "reads" => t.dead < Misses}
NoThread == [at |-> "none", dead |-> 0, open |-> FALSE,
             request |-> "none", reply |-> "none", todo |-> {}]
NewThread == [NoThread EXCEPT !.at = "asks", !.open = TRUE]

VARIABLES
  phase,      \* of each peer: "down", "queries", "waits", "closes", "links" or "serves"
  seeds,      \* mSeeds
  unasked,    \* of these, the ones not asked yet
  asking,     \* the seed asked last
  found,      \* how often each peer was in an answer
  links,      \* how often it is still to connect to
  neighbors,  \* mNeighbors
  thread,     \* thread[p][q][n]: the n-th thread of p that watches q
  buried,     \* history: peers that have been reported dead
  faults

joinVars == <<phase, seeds, unasked, asking, found, links>>
watchVars == <<neighbors, thread>>
historyVars == <<buried, faults>>
vars == <<seedVars, joinVars, watchVars, historyVars>>

Slots == 1 .. MaxThreads
NoPeers == [q \in Peer |-> 0]
Total(list) == FoldFunction(LAMBDA a, b : a + b, 0, list)

Init ==
  /\ SeedInit
  /\ phase = [p \in Peer |-> "down"]
  /\ seeds = [p \in Peer |-> {}]
  /\ unasked = [p \in Peer |-> {}]
  /\ asking = [p \in Peer |-> Nobody]
  /\ found = [p \in Peer |-> NoPeers]
  /\ links = [p \in Peer |-> NoPeers]
  /\ neighbors = [p \in Peer |-> {}]
  /\ thread = [p \in Peer |-> [q \in Peer |-> [n \in Slots |-> NoThread]]]
  /\ buried = {} /\ faults = 0

(* _readSeedsFromFile: more than half of the seeds of the file, which      *)
(* ones depends on the order of the file.  (The comment in PeerNode.cpp    *)
(* says n/2; the line below it adds one, and OneKnowsTheOther needs it.)   *)
Enough == Cardinality(Seed) \div 2 + 1

Start(p) ==
  /\ phase[p] = "down"
  /\ \E chosen \in SUBSET Seed :
       /\ Cardinality(chosen) = Enough
       /\ seeds' = [seeds EXCEPT ![p] = chosen]
       /\ unasked' = [unasked EXCEPT ![p] = chosen]
  /\ phase' = [phase EXCEPT ![p] = "queries"]
  /\ UNCHANGED <<seedVars, asking, found, links, watchVars, historyVars>>

(* sendAndGetData: connect and ask, wait for the answer, close.            *)
Query(p, s) ==
  /\ phase[p] = "queries"
  /\ s \in unasked[p]
  /\ asking' = [asking EXCEPT ![p] = s]
  /\ unasked' = [unasked EXCEPT ![p] = @ \ {s}]
  /\ phase' = [phase EXCEPT ![p] = "waits"]
  /\ Arrives(s, ListRequest(p))
  /\ UNCHANGED <<seeds, found, links, watchVars, historyVars>>

(* What the seed knew before it entered the asker goes to the asker.       *)
Heard(p, s) == [q \in Peer |-> found[p][q] + IF q \in peers[s] THEN 1 ELSE 0]

ServePeerList(s) ==
  /\ HandlePeerList(s)
  /\ LET p == Head(batch[s]).from IN
       IF p = Nobody
       THEN UNCHANGED <<found, phase>>
       ELSE /\ found' = [found EXCEPT ![p] = Heard(p, s)]
            /\ phase' = [phase EXCEPT ![p] = "closes"]
  /\ UNCHANGED <<seeds, unasked, asking, links, watchVars, historyVars>>

HangUp(p) ==
  /\ phase[p] = "closes"
  /\ HangsUp(asking[p], p)
  /\ phase' = [phase EXCEPT ![p] = "queries"]
  /\ UNCHANGED <<seeds, unasked, asking, found, links, watchVars, historyVars>>

ServeClosed(s) ==
  /\ HandleClosed(s)
  /\ UNCHANGED <<joinVars, watchVars, historyVars>>

ServeDeadNode(s) ==
  /\ HandleDeadNode(s)
  /\ buried' = buried \cup {Head(batch[s]).about}
  /\ UNCHANGED <<joinVars, watchVars, faults>>

(* At most MaxLinks of the peers it was told, picked at random.            *)
Pick(p) ==
  /\ phase[p] = "queries" /\ unasked[p] = {}
  /\ \E list \in [Peer -> 0 .. Enough] :
       /\ \A q \in Peer : list[q] <= found[p][q]
       /\ Total(list) = Min({MaxLinks, Total(found[p])})
       /\ links' = [links EXCEPT ![p] = list]
  /\ phase' = [phase EXCEPT ![p] = "links"]
  /\ UNCHANGED <<seedVars, seeds, unasked, asking, found, watchVars, historyVars>>

(* p connects to q, makes it a neighbor and starts a thread that watches   *)
(* it; nothing happens when nobody listens there.                          *)
Free(p, q) == {n \in Slots : thread[p][q][n].at = "none"}

\* Mutant of Connects: the neighbor is entered before the connect fails.
ConnectsInAnyCase(p, q) ==
  /\ neighbors' = [neighbors EXCEPT ![p] = @ \cup {q}]
  /\ IF phase[q] = "down"
     THEN UNCHANGED thread
     ELSE /\ Free(p, q) # {}
          /\ thread' = [thread EXCEPT ![p][q][Min(Free(p, q))] = NewThread]

Connects(p, q) ==
  IF phase[q] = "down"
  THEN UNCHANGED watchVars
  ELSE /\ neighbors' = [neighbors EXCEPT ![p] = @ \cup {q}]
       /\ Free(p, q) # {}
       /\ thread' = [thread EXCEPT ![p][q][Min(Free(p, q))] = NewThread]

Link(p, q) ==
  /\ phase[p] = "links" /\ links[p][q] > 0
  /\ links' = [links EXCEPT ![p][q] = @ - 1]
  /\ Connects(p, q)
  /\ UNCHANGED <<seedVars, phase, seeds, unasked, asking, found, historyVars>>

Serve(p) ==
  /\ phase[p] = "links" /\ links[p] = NoPeers
  /\ phase' = [phase EXCEPT ![p] = "serves"]
  /\ UNCHANGED <<seedVars, seeds, unasked, asking, found, links, watchVars, historyVars>>

-----------------------------------------------------------------------------
(* The rounds of the n-th thread of p that watches q: ask, read what has   *)
(* come, and count.  An answer to an older round is as good as none.       *)
Missed(t) == [t EXCEPT !.at = "asks", !.dead = @ + 1, !.reply = "none"]
Aged(unread) == IF unread = "none" THEN "none" ELSE "old"
Asked(t) == [t EXCEPT !.at = "reads", !.reply = Aged(@),
                      !.request = IF @ = "none" THEN "current" ELSE "old"]
Becomes(p, q, n, t) == thread' = [thread EXCEPT ![p][q][n] = t]

\* Mutant of Ask: one round more (dead <= 3).
AskOnceMore(p, q, n) ==
  LET t == thread[p][q][n] IN
  /\ t.at = "asks"
  /\ Becomes(p, q, n, IF t.open THEN Asked(t) ELSE Missed(t))
  /\ UNCHANGED <<seedVars, joinVars, neighbors, historyVars>>

Ask(p, q, n) ==
  LET t == thread[p][q][n] IN
  /\ t.at = "asks" /\ t.dead < Misses
  /\ Becomes(p, q, n, IF t.open THEN Asked(t) ELSE Missed(t))
  /\ UNCHANGED <<seedVars, joinVars, neighbors, historyVars>>

Hear(p, q, n) ==
  LET t == thread[p][q][n] IN
  /\ t.at = "reads" /\ t.reply # "none"
  /\ Becomes(p, q, n, IF t.reply = "current"
                      THEN [t EXCEPT !.at = "asks", !.dead = 0, !.reply = "none"]
                      ELSE Missed(t))
  /\ UNCHANGED <<seedVars, joinVars, neighbors, historyVars>>

(* 13 seconds without an answer, or the connection is broken.              *)
Timeout(p, q, n) ==
  LET t == thread[p][q][n] IN
  /\ t.at = "reads" /\ t.reply = "none"
  /\ IF t.open /\ phase[q] # "waits"
     THEN faults < MaxFaults /\ faults' = faults + 1
     ELSE UNCHANGED faults
  /\ Becomes(p, q, n, Missed(t))
  /\ UNCHANGED <<seedVars, joinVars, neighbors, buried>>

(* The main thread of q reads all requests that wait on the connection,    *)
(* answers the oldest, and connects back if p is not its neighbor.         *)
Answered(t) ==
  [t EXCEPT !.request = "none",
            !.reply = IF @ # "none" THEN @
                      ELSE IF t.at = "reads" THEN t.request ELSE "old"]

\* Mutant of Answer: answers and does not connect back.
AnswerOnly(p, q, n) ==
  /\ phase[q] = "serves"
  /\ thread[p][q][n].request # "none"
  /\ Becomes(p, q, n, Answered(thread[p][q][n]))
  /\ UNCHANGED <<seedVars, joinVars, neighbors, historyVars>>

Answer(p, q, n) ==
  /\ phase[q] = "serves"
  /\ thread[p][q][n].request # "none"
  /\ IF p \in neighbors[q]
     THEN /\ Becomes(p, q, n, Answered(thread[p][q][n]))
          /\ UNCHANGED neighbors
     ELSE /\ Free(q, p) # {}
          /\ thread' = [thread EXCEPT ![p][q][n] = Answered(@),
                                      ![q][p][Min(Free(q, p))] = NewThread]
          /\ neighbors' = [neighbors EXCEPT ![q] = @ \cup {p}]
  /\ UNCHANGED <<seedVars, joinVars, historyVars>>

(* _removePeer, and one connection to each seed for the report.  What the  *)
(* end of the thread leaves unread on its connection is lost.              *)
\* Mutant of Bury: the address of the watching peer is looked up instead.
BuryOther(p, q, n) ==
  /\ thread[p][q][n].at = "asks" /\ thread[p][q][n].dead = Misses
  /\ neighbors' = [neighbors EXCEPT ![p] = @ \ {p}]
  /\ Becomes(p, q, n, [thread[p][q][n] EXCEPT !.at = "reports", !.todo = seeds[p]])
  /\ UNCHANGED <<seedVars, joinVars, historyVars>>

Bury(p, q, n) ==
  /\ thread[p][q][n].at = "asks" /\ thread[p][q][n].dead = Misses
  /\ neighbors' = [neighbors EXCEPT ![p] = @ \ {q}]
  /\ Becomes(p, q, n, [thread[p][q][n] EXCEPT !.at = "reports", !.todo = seeds[p]])
  /\ UNCHANGED <<seedVars, joinVars, historyVars>>

Report(p, q, n) ==
  LET t == thread[p][q][n] IN
  /\ t.at = "reports"
  /\ \E s \in t.todo :
       /\ Arrives(s, DeadNode(q))
       /\ Becomes(p, q, n, IF t.todo = {s} THEN NoThread ELSE [t EXCEPT !.todo = @ \ {s}])
  /\ UNCHANGED <<joinVars, neighbors, historyVars>>

-----------------------------------------------------------------------------
(* p dies with its threads.  Its connections break; a request a seed has   *)
(* not handled yet will be handled, and nobody reads the answer.           *)
Orphaned(events, p) ==
  [i \in DOMAIN events |-> IF events[i].from = p THEN [events[i] EXCEPT !.from = Nobody]
                           ELSE events[i]]
Cut(t) == [t EXCEPT !.open = FALSE, !.request = "none"]
Accepted(p) ==
  \/ phase[p] = "closes"
  \/ phase[p] = "waits" /\ \A i \in DOMAIN backlog[asking[p]] : backlog[asking[p]][i].from # p

Crash(p) ==
  /\ phase[p] # "down" /\ faults < MaxFaults
  /\ faults' = faults + 1
  /\ phase' = [phase EXCEPT ![p] = "down"]
  /\ seeds' = [seeds EXCEPT ![p] = {}]
  /\ unasked' = [unasked EXCEPT ![p] = {}]
  /\ found' = [found EXCEPT ![p] = NoPeers]
  /\ links' = [links EXCEPT ![p] = NoPeers]
  /\ neighbors' = [neighbors EXCEPT ![p] = {}]
  /\ thread' = [a \in Peer |-> [b \in Peer |-> [n \in Slots |->
                  IF a = p THEN NoThread
                  ELSE IF b = p THEN Cut(thread[a][b][n]) ELSE thread[a][b][n]]]]
  /\ backlog' = [s \in Seed |-> Orphaned(backlog[s], p)]
  /\ batch' = [s \in Seed |-> Orphaned(batch[s], p)]
  /\ ready' = [s \in Seed |-> IF s = asking[p] /\ Accepted(p) THEN Append(ready[s], Closed(p))
                              ELSE ready[s]]
  /\ UNCHANGED <<peers, asking, buried>>

SeedStep(s) ==
  \/ EpollWait(s) /\ UNCHANGED <<joinVars, watchVars, historyVars>>
  \/ ServeClosed(s)
  \/ ServePeerList(s)
  \/ ServeDeadNode(s)

Joining(p) ==
  \/ \E s \in Seed : Query(p, s)
  \/ HangUp(p)
  \/ Pick(p)
  \/ \E q \in Peer : Link(p, q)
  \/ Serve(p)

Watch(p, q, n) ==
  \/ Ask(p, q, n) \/ Hear(p, q, n) \/ Timeout(p, q, n)
  \/ Bury(p, q, n) \/ Report(p, q, n)

Next ==
  \/ \E s \in Seed : SeedStep(s)
  \/ \E p \in Peer : Start(p) \/ Joining(p) \/ Crash(p)
  \/ \E p \in Peer, q \in Peer, n \in Slots : Watch(p, q, n) \/ Answer(p, q, n)

Spec == Init /\ [][Next]_vars

(* Every thread runs on.  Nothing makes a peer start, crash or be late.    *)
FairSpec ==
  /\ Spec
  /\ \A s \in Seed : WF_vars(SeedStep(s))
  /\ \A p \in Peer : WF_vars(Joining(p))
  /\ \A p \in Peer, q \in Peer, n \in Slots : WF_vars(Watch(p, q, n)) /\ WF_vars(Answer(p, q, n))

-----------------------------------------------------------------------------
(* Every variable has its type.                                            *)
TypeOK ==
  /\ SeedTypeOK
  /\ phase \in [Peer -> {"down", "queries", "waits", "closes", "links", "serves"}]
  /\ seeds \in [Peer -> SUBSET Seed] /\ unasked \in [Peer -> SUBSET Seed]
  /\ asking \in [Peer -> Seed \cup {Nobody}]
  /\ found \in [Peer -> [Peer -> Nat]] /\ links \in [Peer -> [Peer -> Nat]]
  /\ neighbors \in [Peer -> SUBSET Peer]
  /\ thread \in [Peer -> [Peer -> [Slots -> Thread]]]
  /\ buried \in SUBSET Peer
  /\ faults \in 0 .. MaxFaults

(* Of any two peers that have their lists and were never reported dead,    *)
(* one was told about the other: more than half of the seeds were asked by *)
(* each, so one seed by both, and it told the second about the first       *)
(* (_readSeedsFromFile, SeedNode::handle).                                 *)
HasLists(p) == phase[p] \in {"links", "serves"}
OneKnowsTheOther ==
  \A p, q \in Peer : HasLists(p) /\ HasLists(q) /\ p # q /\ p \notin buried /\ q \notin buried
                       => found[p][q] > 0 \/ found[q][p] > 0

(* Whoever is a neighbor has a thread that will notice its death, however  *)
(* many threads watch it and whenever they end (_handlePeerLiveliness,     *)
(* _processOutput).                                                        *)
NeighborsWatched ==
  \A p \in Peer : \A q \in neighbors[p] : \E n \in Slots : thread[p][q][n].at \in {"asks", "reads"}

(* A peer that is down and stays down is no neighbor in the end.           *)
DeadForgotten ==
  \A p, q \in Peer : phase[q] = "down" ~> (q \notin neighbors[p] \/ phase[q] # "down")

(* A neighbor becomes a neighbor of its neighbor, as long as both live and *)
(* the first is not given up for late answers (_processOutput).            *)
NeighborsMutual ==
  \A p, q \in Peer : (q \in neighbors[p])
                       ~> (p \in neighbors[q] \/ q \notin neighbors[p] \/ phase[q] # "serves")

(* "Serve all requests that are received" (SeedNode.cpp:232): a peer that   *)
(* waits for its list waits no longer in the end.  It may wait for ever:    *)
(* the request can be the last event of a batch in which the seed meets a   *)
(* closed connection, and is skipped (SeedNode.cpp:233-245).                *)
RequestsServed == \A p \in Peer : phase[p] = "waits" ~> phase[p] # "waits"
=============================================================================
