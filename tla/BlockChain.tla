----------------------------- MODULE BlockChain -----------------------------
(***************************************************************************)
(* The block chain of one peer (CS765/PeerNode/BlockChain.cpp): blocks     *)
(* that arrive wait in a queue until the insertion thread finds their      *)
(* predecessor in the chain, and the mining thread extends the chain.      *)
(* The other peers are the environment: they extend any block that has     *)
(* been broadcast and send what has been broadcast in any order, any       *)
(* number of times or never.                                               *)
(*                                                                         *)
(* The insertion thread holds the lock of the waiting queue during a pass; *)
(* the map of the chain itself (cache) and mMiningOnBlock are read by the  *)
(* other threads without that lock.  A pass that has erased an entry goes  *)
(* on from the freed one: what it does then is undefined, and the model    *)
(* lets it end or go on with any entry it has not seen.                    *)
(***************************************************************************)
EXTENDS Naturals, FiniteSets

CONSTANTS
  Blocks,  \* the blocks that can come into being
  Genesis, \* mGenesisBlockHash, which no block has
  None

ASSUME BlocksAssumption == Genesis \notin Blocks /\ None \notin Blocks /\ Genesis # None

VARIABLES
  prev,       \* the predecessor of each block, None before the block exists
  public,     \* the blocks that other peers have
  cache,      \* the chain
  height,     \* of the blocks in the chain
  endBlocks,  \* the ends the mining thread chooses from
  unranked,   \* of these, the ones entered with height -1
  waiting,    \* mWaitingBlocks
  syncQueue,  \* blocks whose predecessors are to be asked for
  outgoing,   \* mBroadcastQueue
  mining,     \* mMiningOnBlock
  pass,       \* the insertion thread: "idle", "pass", "follow" or "add"
  toVisit,    \* entries the pass has not come to
  pending,    \* the entry being inserted, or None
  incoming,   \* the block whose message is being handled, or None
  pc,         \* the mining thread
  created,    \* genesisBlockCreated
  lastMined,  \* prevMiningOnHash
  target,     \* miningOnHash
  minted,     \* the block the mining thread has just created, or None
  asked,      \* history: blocks whose predecessor has been asked for
  mine,       \* history: blocks created here
  lateStart   \* history: the mining thread started after the first insertion

chainVars == <<cache, height, endBlocks, unranked>>
passVars == <<pass, toVisit, pending>>
minerVars == <<pc, created, lastMined, target, minted>>
worldVars == <<prev, public>>
queueVars == <<waiting, syncQueue, asked>>
vars == <<chainVars, passVars, minerVars, worldVars, queueVars, outgoing, mining, incoming, mine,
          lateStart>>

Init ==
  /\ prev = [b \in Blocks |-> None]
  /\ height = [b \in Blocks |-> 0]
  /\ public = {} /\ cache = {} /\ endBlocks = {} /\ unranked = {}
  /\ waiting = {} /\ syncQueue = {} /\ outgoing = {} /\ asked = {} /\ mine = {}
  /\ mining = None
  /\ pass = "idle" /\ toVisit = {} /\ pending = None
  /\ incoming = None
  /\ pc = "start" /\ created = FALSE /\ lastMined = Genesis /\ target = None /\ minted = None
  /\ lateStart = FALSE

\* mWaitingBlocksQueueMutex is free.
QueueFree == pass = "idle"

\* Blocks come into being one after the other.  They are only compared, so it
\* does not matter which one is next.
NextBlock == CHOOSE b \in Blocks : prev[b] = None

Unborn(b) == prev[b] = None /\ b = NextBlock

-----------------------------------------------------------------------------
(* The chain. *)

\* Mutant of InChain: a predecessor that waits is as good as one in the chain.
InChainOrQueue(p) == p = Genesis \/ p \in cache \/ p \in waiting

\* checkForPrevious finds a predecessor.
InChain(p) == p = Genesis \/ p \in cache

HeightAbove(p) == IF p = Genesis THEN 1 ELSE height[p] + 1

\* An end is replaced by its successor.  A block on an inner block is no end.
UpdateEndBlocks(b) ==
  IF endBlocks = {} THEN /\ endBlocks' = {b}
                         /\ UNCHANGED unranked
  ELSE IF b \notin endBlocks /\ prev[b] \in endBlocks
  THEN /\ endBlocks' = (endBlocks \ {prev[b]}) \cup {b}
       /\ unranked' = unranked \ {prev[b]}
  ELSE UNCHANGED <<endBlocks, unranked>>

\* _addBlock for a block whose predecessor is there.
Add(b) ==
  /\ cache' = cache \cup {b}
  /\ height' = [height EXCEPT ![b] = HeightAbove(prev[b])]
  /\ UpdateEndBlocks(b)

-----------------------------------------------------------------------------
(* The waiting queue. *)

\* Mutant of Orphan: a block whose predecessor waits is asked for, one whose
\* predecessor is unknown is not.
OrphanIfWaiting(b) == prev[b] # Genesis /\ prev[b] \in waiting

\* Neither the chain nor the queue has the predecessor.
Orphan(b) == prev[b] # Genesis /\ prev[b] \notin cache /\ prev[b] \notin waiting

\* The part of addToQueue under the lock.
Enqueue(b) ==
  /\ waiting' = waiting \cup {b}
  /\ IF b \notin waiting /\ Orphan(b)
     THEN syncQueue' = syncQueue \cup {b} /\ asked' = asked \cup {b}
     ELSE UNCHANGED <<syncQueue, asked>>

\* What addToQueue returns: the block is new, and its predecessor is not.
IsRelayed(b) == b \notin waiting /\ (prev[b] \in cache \/ prev[b] \in waiting)

-----------------------------------------------------------------------------
(* The messages: Handler::handle and the threads that send. *)

\* A block that is in the chain already is dropped; the chain is searched
\* without the lock.
Receive(b) ==
  /\ incoming = None
  /\ b \in public \ cache
  /\ incoming' = b
  /\ UNCHANGED <<chainVars, passVars, minerVars, worldVars, queueVars, outgoing, mining, mine,
                 lateStart>>

\* A block message is relayed, the answer to a sync request is not.
AddToQueue ==
  /\ incoming # None /\ QueueFree
  /\ Enqueue(incoming)
  /\ \/ outgoing' = IF IsRelayed(incoming) THEN outgoing \cup {incoming} ELSE outgoing
     \/ UNCHANGED outgoing
  /\ incoming' = None
  /\ UNCHANGED <<chainVars, passVars, minerVars, worldVars, mining, mine, lateStart>>

\* startBroadcastTask
Broadcast(b) ==
  /\ b \in outgoing
  /\ outgoing' = outgoing \ {b}
  /\ public' = public \cup {b}
  /\ UNCHANGED <<chainVars, passVars, minerVars, prev, queueVars, mining, incoming, mine, lateStart>>

\* startSyncTask: the answers are among the public blocks.
SendSync(b) ==
  /\ b \in syncQueue
  /\ syncQueue' = syncQueue \ {b}
  /\ UNCHANGED <<chainVars, passVars, minerVars, worldVars, waiting, asked, outgoing, mining,
                 incoming, mine, lateStart>>

\* Another peer extends the genesis block or one it has.
OtherMines(b) ==
  /\ Unborn(b)
  /\ \E p \in public \cup {Genesis} : prev' = [prev EXCEPT ![b] = p]
  /\ public' = public \cup {b}
  /\ UNCHANGED <<chainVars, passVars, minerVars, queueVars, outgoing, mining, incoming, mine,
                 lateStart>>

-----------------------------------------------------------------------------
(* The insertion thread: _keepCheckingBlocksForInsertion. *)

BeginPass ==
  /\ pass = "idle" /\ waiting # {}
  /\ pass' = "pass"
  /\ toVisit' = waiting
  /\ UNCHANGED <<chainVars, pending, minerVars, worldVars, queueVars, outgoing, mining, incoming,
                 mine, lateStart>>

\* Mutant of EntersAsEnd: every block does.
AlwaysEntersAsEnd(b) == b \notin endBlocks

\* A first block becomes an end before it has a height.
EntersAsEnd(b) == prev[b] = Genesis /\ b \notin endBlocks

\* Mutant of Visit: the pass ends at the first entry that has to wait.
VisitOrGiveUp(b) ==
  /\ pass = "pass" /\ b \in toVisit
  /\ toVisit' = IF InChain(prev[b]) THEN toVisit \ {b} ELSE {}
  /\ IF InChain(prev[b])
     THEN /\ pending' = b
          /\ pass' = IF prev[b] = mining THEN "follow" ELSE "add"
     ELSE UNCHANGED <<pass, pending>>
  /\ IF EntersAsEnd(b)
     THEN endBlocks' = endBlocks \cup {b} /\ unranked' = unranked \cup {b}
     ELSE UNCHANGED <<endBlocks, unranked>>
  /\ UNCHANGED <<cache, height, minerVars, worldVars, queueVars, outgoing, mining, incoming, mine,
                 lateStart>>

\* One entry: if its predecessor is in the chain it will be inserted, and mined on
\* if the predecessor is mined on.
Visit(b) ==
  /\ pass = "pass" /\ b \in toVisit
  /\ toVisit' = toVisit \ {b}
  /\ IF InChain(prev[b])
     THEN /\ pending' = b
          /\ pass' = IF prev[b] = mining THEN "follow" ELSE "add"
     ELSE UNCHANGED <<pass, pending>>
  /\ IF EntersAsEnd(b)
     THEN endBlocks' = endBlocks \cup {b} /\ unranked' = unranked \cup {b}
     ELSE UNCHANGED <<endBlocks, unranked>>
  /\ UNCHANGED <<cache, height, minerVars, worldVars, queueVars, outgoing, mining, incoming, mine,
                 lateStart>>

\* setMiningOnBlock
Follow ==
  /\ pass = "follow"
  /\ mining' = pending
  /\ pass' = "add"
  /\ UNCHANGED <<chainVars, toVisit, pending, minerVars, worldVars, queueVars, outgoing, incoming,
                 mine, lateStart>>

\* The entry is inserted and erased from the queue; the pass goes on from the
\* erased entry.
AddPending ==
  /\ pass = "add"
  /\ Add(pending)
  /\ waiting' = waiting \ {pending}
  /\ toVisit' \in {toVisit, {}}
  /\ pending' = None
  /\ pass' = "pass"
  /\ UNCHANGED <<minerVars, worldVars, syncQueue, asked, outgoing, mining, incoming, mine,
                 lateStart>>

EndPass ==
  /\ pass = "pass" /\ toVisit = {}
  /\ pass' = "idle"
  /\ UNCHANGED <<chainVars, toVisit, pending, minerVars, worldVars, queueVars, outgoing, mining,
                 incoming, mine, lateStart>>

-----------------------------------------------------------------------------
(* The mining thread: _createBlock. *)

StartMining ==
  /\ pc = "start"
  /\ mining' = Genesis
  /\ lateStart' = (cache # {} \/ pass = "add")
  /\ pc' = "settle"
  /\ UNCHANGED <<chainVars, passVars, created, lastMined, target, minted, worldVars, queueVars,
                 outgoing, incoming, mine>>

\* It waits until at most one block waits and there is nothing to ask for; it
\* only makes a first block if that was so at once and the chain is empty.
Settle ==
  /\ pc = "settle" /\ QueueFree
  /\ LET settled == Cardinality(waiting) <= 1 /\ syncQueue = {} IN
       /\ pc' = IF settled THEN "watch" ELSE "settle"
       /\ created' = (created \/ ~settled \/ cache # {})
  /\ UNCHANGED <<chainVars, passVars, lastMined, target, minted, worldVars, queueVars, outgoing,
                 mining, incoming, mine, lateStart>>

\* getMinigOnBlockUpdated, until there is another block to mine on.
Watch ==
  /\ pc = "watch" /\ QueueFree
  /\ ~(created /\ lastMined = mining)
  /\ target' = mining
  /\ pc' = "work"
  /\ UNCHANGED <<chainVars, passVars, created, lastMined, minted, worldVars, queueVars, outgoing,
                 mining, incoming, mine, lateStart>>

\* The first block is inserted without the queue ...
CreateFirst(b) ==
  /\ pc = "work" /\ ~created
  /\ Unborn(b)
  /\ prev' = [prev EXCEPT ![b] = Genesis]
  /\ cache' = cache \cup {b}
  /\ height' = [height EXCEPT ![b] = 1]
  /\ IF endBlocks = {} THEN endBlocks' = {b} ELSE UNCHANGED endBlocks
  /\ minted' = b
  /\ mine' = mine \cup {b}
  /\ pc' = "first"
  /\ UNCHANGED <<unranked, passVars, created, lastMined, target, public, queueVars, outgoing,
                 mining, incoming, lateStart>>

\* ... and then mined on and broadcast.
MineOnFirst ==
  /\ pc = "first"
  /\ mining' = minted
  /\ outgoing' = outgoing \cup {minted}
  /\ created' = TRUE
  /\ minted' = None
  /\ pc' = "watch"
  /\ UNCHANGED <<chainVars, passVars, lastMined, target, worldVars, queueVars, incoming, mine,
                 lateStart>>

\* Mutant of Create: the block extends the one the comparison was made with.
CreateOnTarget(b) ==
  /\ pc = "create"
  /\ Unborn(b)
  /\ prev' = [prev EXCEPT ![b] = target]
  /\ minted' = b
  /\ mine' = mine \cup {b}
  /\ lastMined' = target
  /\ pc' = "submit"
  /\ UNCHANGED <<chainVars, passVars, created, target, public, queueVars, outgoing, mining,
                 incoming, lateStart>>

\* The highest ends; equally high ones are told apart by their time stamps.
Best ==
  {e \in endBlocks \ unranked : \A f \in endBlocks \ unranked : height[f] <= height[e]}

\* _compareWithMaxHeightBlock
Compare ==
  /\ pc = "work" /\ created /\ QueueFree
  /\ \/ target \in Best /\ pc' = "create"
     \/ Best # {target} /\ pc' = "watch"
  /\ UNCHANGED <<chainVars, passVars, created, lastMined, target, minted, worldVars, queueVars,
                 outgoing, mining, incoming, mine, lateStart>>

\* The block extends what is mined on by now, which is read without the lock of
\* the queue.
Create(b) ==
  /\ pc = "create"
  /\ Unborn(b)
  /\ prev' = [prev EXCEPT ![b] = mining]
  /\ minted' = b
  /\ mine' = mine \cup {b}
  /\ lastMined' = target
  /\ pc' = "submit"
  /\ UNCHANGED <<chainVars, passVars, created, target, public, queueVars, outgoing, mining,
                 incoming, lateStart>>

\* Mutant of Submit: the queue is used without its lock.
SubmitUnlocked ==
  /\ pc = "submit"
  /\ Enqueue(minted)
  /\ outgoing' = outgoing \cup {minted}
  /\ minted' = None
  /\ pc' = "watch"
  /\ UNCHANGED <<chainVars, passVars, created, lastMined, target, worldVars, mining, incoming,
                 mine, lateStart>>

\* addToQueue and pushBroadcastBlock
Submit ==
  /\ pc = "submit" /\ QueueFree
  /\ Enqueue(minted)
  /\ outgoing' = outgoing \cup {minted}
  /\ minted' = None
  /\ pc' = "watch"
  /\ UNCHANGED <<chainVars, passVars, created, lastMined, target, worldVars, mining, incoming,
                 mine, lateStart>>

-----------------------------------------------------------------------------
Insertion == BeginPass \/ Follow \/ AddPending \/ EndPass \/ \E b \in Blocks : Visit(b)

Mining ==
  \/ StartMining \/ Settle \/ Watch \/ MineOnFirst \/ Compare \/ Submit
  \/ \E b \in Blocks : CreateFirst(b) \/ Create(b)

Messages ==
  \/ AddToQueue
  \/ \E b \in Blocks : Receive(b) \/ Broadcast(b) \/ SendSync(b) \/ OtherMines(b)

Next == Insertion \/ Mining \/ Messages

Spec == Init /\ [][Next]_vars

\* The insertion thread runs.
FairSpec == Spec /\ WF_vars(Insertion)

-----------------------------------------------------------------------------
(* Type correctness of the node's queues, chain and threads                  *)
(* (BlockChain.h:27-57).                                                     *)
TypeOK ==
  /\ prev \in [Blocks -> Blocks \cup {Genesis, None}]
  /\ height \in [Blocks -> Nat]
  /\ public \subseteq Blocks /\ cache \subseteq Blocks /\ waiting \subseteq Blocks
  /\ unranked \subseteq endBlocks /\ endBlocks \subseteq cache \cup {pending}
  /\ syncQueue \subseteq asked /\ asked \subseteq Blocks
  /\ outgoing \subseteq Blocks /\ mine \subseteq Blocks
  /\ mining \in cache \cup {pending, Genesis, None}
  /\ pass \in {"idle", "pass", "follow", "add"}
  /\ toVisit \subseteq waiting
  /\ pending \in waiting \cup {None} /\ incoming \in public \cup {None}
  /\ pc \in {"start", "settle", "watch", "work", "first", "create", "submit"}
  /\ created \in BOOLEAN /\ lateStart \in BOOLEAN
  /\ lastMined \in Blocks \cup {Genesis} /\ target \in Blocks \cup {Genesis, None}
  /\ minted \in mine \cup {None}

(* The chain is closed under predecessors, whatever order the blocks came    *)
(* in, and heights count the blocks down to the genesis block                *)
(* (BlockChain.cpp:127-138, 183-204).                                        *)
ChainConnected ==
  \A b \in cache : InChain(prev[b]) /\ height[b] = HeightAbove(prev[b])

(* No block waits for a predecessor that has never been asked for: what was  *)
(* taken for waiting when it came has not got lost since                     *)
(* (BlockChain.cpp:223-252).                                                 *)
OrphansRequested == \A b \in waiting : Orphan(b) => b \in asked

(* Once a block of the node is queued and may be broadcast, the block it      *)
(* extends is in the node's chain - although the mining thread reads what it *)
(* mines on without the lock of the queue, and that may be a block that is   *)
(* still being inserted (BlockChain.cpp:342-347, 99-103).                    *)
OwnBlocksConnected == \A b \in mine \ {minted} : InChain(prev[b])

(* The node never extends a block that has a successor in its own chain,     *)
(* unless blocks came in before the mining thread started                    *)
(* (BlockChain.cpp:97-103, 340-343).                                         *)
MinesOnTip ==
  [][pc = "create" /\ pc' = "submit" /\ ~lateStart
       => \A b \in mine' \ mine, c \in cache : prev[c] # prev'[b]]_vars

(* A block that waits and whose predecessor is in the chain gets into the    *)
(* chain, although a pass may end after each insertion                       *)
(* (BlockChain.cpp:74-111).                                                  *)
ReadyIsInserted == \A b \in Blocks : b \in waiting /\ InChain(prev[b]) ~> b \in cache

(* When the node mines, no block in its chain is higher than the one it      *)
(* mines on, as the comment at BlockChain.cpp:340 has it.                    *)
MinesOnHighest ==
  [][pc = "work" /\ pc' = "create" => \A b \in cache : height[b] <= height[target]]_vars

=============================================================================
