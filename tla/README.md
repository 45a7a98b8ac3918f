# Formal models of the IITB course systems

The repository holds the projects of several courses.  Four of them have
programs whose correctness is a matter of concurrency, order and failure: a
key-value server, a Chord ring made of such servers, an autoscaler of virtual
machines, and a peer-to-peer network that mines a block chain.  This directory
has TLA+ models of the core of all four, the TLC configurations that check
the models, and TLAPS proofs of what matters most for every value of the
parameters.  A few smaller programs are left (sections 3 and 7).

Paths below are relative to `src/`.  `PROJECT.json` maps every definition that
models code to the lines it models, and lists runs, mutants, hazards, findings
and theorems.

## 1. Inventory

### Key-value server: `CS744/Assignment_4`

| part | state | operations |
| --- | --- | --- |
| cache set and file (`server/KVCache.cpp`, `KVStore.cpp`) | per set: an array of entries (key, value, reference bit, valid bit), a clock hand, a mutex; on disk one file per set and a temporary copy | put, get, del (`operateOnCache`), restoring at start |
| event loop (`server/Server.cpp`) | epoll instance, the batch of events, the index in it | accept, wait, read, answer |
| handler and pool (`KVClientHandler.cpp`, `ThreadPool.cpp`) | task queue, result queue, worker threads | add a task, pop it, run it, push and fetch a result |
| client (`client/Client.cpp`) | a connection, the request it waits for | connect, send, read the answer, close |
| XML (`KVServerLibrary.cpp`) | none | parsing and formatting |

The loop reads a request, the handler queues a task; a put is answered at once,
for a get or a del the loop blocks until the pool has a result.  Workers call
the cache, which writes through to the file.

*Hard:* workers overtake each other; a result could meet the wrong client; the
loop blocks in `read` and in `getResults`; an empty read shortens the batch;
the process dies while a file is being replaced; invalid entries keep their
keys; a deletion writes a line into a new file.

*Correct means:* a set is a map with atomic operations, and the disk keeps every
pair but the one being written; an answer goes to the client that asked; requests are answered,
and in the order they were accepted.

The servers of `CS744/Assignment_5` and `CS695/Assignment_2` contain copies of
the cache, store and pool.

### Autoscaler: `CS695/Assignment_2/src/VMManager`

| part | state | operations |
| --- | --- | --- |
| manager (`Manager.cpp`) | maps from names of machines to records, termination flags, load statistics with a lock each | start, shut down, attach, sanitize |
| watch thread, one per machine | last sample of the utilisation | measure every second, update the statistics |
| load handler, one thread | verdicts of its loop over the statistics | every 45 seconds start or shut down one machine |
| window (`VmManager.cpp`, `Graph.cpp`) | GTK widgets | power on, shut down, draw |
| machine (`VM.cpp`) | a libvirt domain | create, shut down, query |
| client and server (`src/client`, `src/server`) | `server.dat`, the list of addresses | spread requests over the servers |

*Hard:* the handler combines verdicts of different moments and resets
statistics one by one while watch threads go on counting; clicks, the sanitizer
and the handler create and destroy the same machines; a new machine has a
record before it is on, and the sanitizer takes it for a dead one; the maps
have no lock.

*Correct means:* a machine is started or shut down only on load seen since the
last decision; the statistics never contradict themselves; under lasting load
all machines run, and there is always one that does or will.

### Peers and their block chain: `CS765`

| part | state | operations |
| --- | --- | --- |
| block chain (`PeerNode/BlockChain.cpp`) | the chain, its ends, waiting blocks, queues of blocks to broadcast and to ask for, the block to mine on | queue a block, insert waiting blocks, mine |
| message handler (`PeerNode/Handler.cpp`) | the chain | block, sync request, sync answer, liveness request; broadcast and sync threads |
| peer node (`PeerNode/PeerNode.cpp`) | neighbours, seeds, sockets | join through the seeds, ping, declare dead, serve |
| seed node (`SeedNode/SeedNode.cpp`) | list of peers | add, remove, send the list |
| data base, formats, helpers | a MySQL table per peer | insert and search blocks |
| flooder (`Flooder/`) | as a peer | a copy of the peer that also sends made-up blocks |

A peer asks more than half of the seeds for their lists, connects to some of the
peers it was told, and has a thread per connection that asks the other end every
13 seconds whether it lives.  A peer asked by a stranger connects back.  After
three rounds without the right answer a neighbor is dropped and reported to the
seeds.

*Hard:* blocks come in any order, more than once or never; the insertion,
mining, handler and sender threads share the chain, partly without a lock; a
pass over the waiting blocks erases the entry it stands on; forks.  Peers crash
and come back at the same address while old threads still watch them; late
answers; threads that find, add and remove the same neighbor; a peer that waits
for a seed answers nobody; the seed passes over events behind a closed
connection.

*Correct means:* the chain is closed under predecessors; what is missing is
asked for; what can be inserted is; a node extends the tip of its chain, and the
highest one.  Of two peers that have joined, one was told about the other; a
neighbor is watched, a dead one forgotten, and being neighbors is mutual; a
peer that asks for a list gets it.

### Chord ring: `CS744/Assignment_5`

`server/Server.cpp` adds to the key-value server a node identifier, a
predecessor and a table of fingers.  Operations: join through a contact
(FIND_PRED, TELL_SUCC, SET_SUCC, SET_PRED), look up successors and
predecessors, fill the fingers, propagate a refresh around the ring, answer,
forward or execute a request.  A node is one thread: while it waits for an
answer it reads nothing.  *Hard:* joins race with joins and with the
propagation; a node joins before it listens; lookups run over tables that are
out of date; nodes wait for each other; a refused connection ends the process;
an empty read loses requests; intervals that wrap around.  *Correct means:* the
members form one ring, every hash has one owner, the tables are right once a
refresh has passed, refreshes end, and the requests for a key are executed on
its owner.

### Other programs

| program | what it is |
| --- | --- |
| `CS631` | an HBase coprocessor that keeps a secondary index by hooks on put, delete and scan |
| `CS695/Assignment_1` | a KVM hypervisor with hypercalls for one guest |
| `CS699/Project` | a Flask server that drives the machines of a lab over ssh, an Android client, generated documentation |
| `MTP/XDP` | eBPF programs that parse packets and count them |

## 2. What is modelled

### `KVMap`, `KVSet`: one cache set and its file

`KVMap` is the promise: a map on which one call at a time is invoked, takes
effect at an instant, and returns; a crash forgets the call, and loses the map
only if it comes during a write.  `Fail` ends the promise until the next
restart: the disk has refused a write.

`KVSet` is the code.  `entries` and `evictionPointer` are `CacheSet`'s fields,
`file` and `temp` the two files, `call`, `pc` and `reply` the operation that
holds the mutex of the set, `failed` a history variable: `remove` or `rename`
has failed in this process.  One operation is in progress at a time
(`operateOnCache` locks for its whole body), but the steps that reach the disk
are separate actions:

| action | code |
| --- | --- |
| `Acquire`, `Finish` | `operateOnCache` takes and releases the mutex |
| `PutEntry`, `DeleteEntry` | the cache half of `CacheSet::putEntry`, `deleteEntry` |
| `GetHit`, `GetMiss` | `CacheSet::getEntry` |
| `WriteToFile`, `CopyToTemp`, `RemoveFile`, `RenameTemp` | the steps of `KVStore::updateInFile` |
| `RemoveOrRenameFails` | the error branches of `remove` and `rename` |
| `Crash`, `Restart` | the death of the process; `KVCache::KVCache` with `restoreFromFile` |
| `CrashWriting` | the death of the process while it writes a file, which keeps a part of its lines |

`SlotFor`, `Victim`, `Placed`, `HandAfter` are `getEntryID` and
`getEvictableEntryID`: the search for the key or the first hole, else the sweep
of the clock.  A file is a function from keys to the value on their line: order
is forgotten, and a restart loads any selection that fits.  Parsing of lines,
and values with separators in them, are left out.  Sets share nothing, so one
set stands for all.

### `KVServer`: clients, event loop and pool

`conn`, `sent`, `awaiting`, `inbox`, `eof` are the clients and their sockets;
`ready`, `batch`, `nfds`, `i`, `pc`, `current` the epoll instance and the main
thread; `queue`, `running`, `result`, `output` the pool; `store` is the map that
the cache sets implement, changed at one instant, as `SetImplementsMap` allows.
`expected` is a history variable: the map if each task took effect when it was
queued.

`Accept`, `EpollWait`, `EndBatch`, `HandleGarbage`, `HandlePut`,
`HandleGetDel`, `TakeResult`, `ReadEof` are the branches of the loop of
`Server::start` with `KVClientHandler::handle`; `PopTask`, `OperateOnCache`,
`PushResult` the steps of a worker.  `ReadEof` keeps what the code does: the
batch gets shorter and the index stays.  Epoll is edge-triggered: an event
enters `ready` when input arrives, and leaves it when it is reported.  Partial
reads and writes are not modelled (a request fits in one), nor are crashes of
the server (module `KVSet` has them).

### `Autoscaler`: manager, watch threads, load handler

`load` holds the statistics with their counters and flags; `Counted` and
`Judged` are the update of `_watch`, with the branches in the order of the code
and the utilisation abstracted to its four bands.  `domains`, `terminating` are
the manager's maps, `power` and `stopping` what the hypervisor knows,
`watchers` and `measuring` how many watch threads of a machine are before and
after their test of the flag.  The load handler is `Wake`, `Visit`,
`StartNewVm`, `ShutdownDue`, `BackToSleep`, `ResetStat`, `PowerOnNew`,
`ShutdownIdle`, `CloseIdle`; the other threads are `UserStart`, `UserShutdown`,
`Sanitize`, `Close`, and the guests `GuestObeys`, `GuestOff`.

`hot` and `quiet` are history variables: how many overloaded and idle samples
the statistics of a machine have seen since they were created or reset.

The maps are changed without a lock while the handler iterates over them; in
C++ that is undefined.  The model restricts changes of the maps to the times
when the handler does not iterate (`MapsQuiet`), and everything it shows is
about such runs.

### `BlockChain`: one peer

`cache`, `height`, `endBlocks` are the chain, `waiting`, `syncQueue`,
`outgoing` the queues, `mining` is `mMiningOnBlock`; `pass`, `toVisit`,
`pending` are the insertion thread, `pc`, `created`, `lastMined`, `target`,
`minted` the locals of the mining thread, `incoming` the message being handled.
`unranked` marks the ends entered with height -1.  `asked`, `mine` and
`lateStart` are history variables.

| actions | code |
| --- | --- |
| `BeginPass`, `Visit`, `Follow`, `AddPending`, `EndPass` | `_keepCheckingBlocksForInsertion`, `_addBlock`, `_updateEndBlocks` |
| `StartMining`, `Settle`, `Watch`, `CreateFirst`, `MineOnFirst`, `Compare`, `Create`, `Submit` | `_createBlock`, `_compareWithMaxHeightBlock` |
| `Receive`, `AddToQueue` | `Handler::handle`, `addToQueue` before and under the lock |
| `Broadcast`, `SendSync` | the sender threads |
| `OtherMines` | the environment |

The lock of the waiting queue is held for a whole pass (`QueueFree`), but the
steps inside a pass interleave with the threads that do not take it: the
lookup in `Receive`, and the mining thread between `Compare` and `Submit`.
`AddPending` erases the entry the iterator stands on and the code then advances
that iterator, which is undefined; the model lets the pass stop or go on with
any entry not seen yet.  Messages are neither kept nor counted: any public
block can arrive at any time, again or never, which covers loss, duplication
and reordering.  Equal heights are decided by time stamps in the code, by
choice here (`Best`).  Blocks are only compared, so the next one to come into
being is a fixed one (`NextBlock`).

### `Chord`: the ring

`status`, `pred`, `finger` are the nodes; `inbox` the requests that wait in
epoll, `task` what the one thread of a node is in the middle of (which operation,
for whom, whose answer it awaits), `answer` what has arrived for it, `hangups`
the closed connections it has yet to read as empty.  `served`, `refused` and
`lost` are history variables.

| actions | code |
| --- | --- |
| `TellSucc`, `TellPred`, `SetSucc`, `SetPred`, `FindSucc`, `FindPred`, `FindFinger` | the branches of `Server::start` for requests of other nodes, with `find_succ`, `find_pred`, `closest_prec_node` |
| `SuccFound`, `SuccOfFound`, `PredFound` | the same functions after the `read` they block in |
| `FingerLocal`, `FingerAsk`, `FingerFound`, `PassRefreshOn` | `updateFingers`, `fixFingers` and the request that goes on to the successor |
| `Join`, `LearnPred`, `LearnSucc`, `LinkSucc`, `Listen` | `makeContact` and `init` |
| `ExecuteKey`, `ForwardKey`, `DropKey` | a request for a key |
| `EmptyRead`, `CloseClient` | an empty read, which shortens the batch without advancing in it |
| `Dies` | every `exit` after a refused connection, to a node or (in `ExecuteKey`) to a client that no longer listens for its answer, and the exception when an empty answer is parsed |

Ports and identifiers are one.  `key_hash` is read from a string stream that is
at its end since the constructor, so it is uninitialised: `KeyHashes` are all
its values, and each step chooses one.  The cache behind an executed request is
that of `KVSet`.  `Paced` says whether a node is started only while the ring is
at rest.

### `SeedNode`, `PeerNetwork`: how peers find and watch each other

`SeedNode` has, per seed, its list `peers`, the connections in the `backlog`,
what is `ready` in epoll, and the `batch` in the hands of the loop.
`HandleClosed` keeps what the code does: an empty read shortens the batch *and*
moves on, so the last event of the batch is skipped (`AfterClosed`).

`PeerNetwork` adds the peers; a seed's answer is a step of the seed and of the
peer that waits for it.  `phase`, `seeds`, `unasked`, `asking`, `found`, `links` are the
progress of `PeerNode::init`; `neighbors` is `mNeighbors`; `thread[p][q]` are
the threads of `p` that watch `q`, with the oldest unread request and reply of
their connection marked as of this round or of an older one (a reply to an older
round fails `validateLivelinessReply`, which compares time stamps).  `buried`
is a history variable.  `Start` lets a peer keep any `Enough` of the seeds: the
code shuffles with an engine that always starts from the same seed, so what is
kept depends on the order of the peer's own seed file.

| actions | code |
| --- | --- |
| `Start`, `Query`, `HangUp`, `Pick`, `Link`, `Serve` | `init`, `_readSeedsFromFile`, `sendAndGetData`, `_getPeersFromSeeds` |
| `EpollWait`, `ServePeerList`, `ServeDeadNode`, `ServeClosed` | the loop of `SeedNode::start` with `handle`, `addPeer`, `removePeer`, `sendPeerList` |
| `Ask`, `Hear`, `Timeout`, `Bury`, `Report` | `_handlePeerLiveliness`, `_removePeer`, `_sendDeadMsgToSeeds` |
| `Answer` | `Handler::handle` for `Liveness_Request`, `_processOutput` |
| `Crash` | death of a process: its state is lost, its connections break, its requests stay on their way |

A peer that waits for a seed cannot answer, so its watchers may time out at any
time; other late answers are faults and count against `MaxFaults`.  A late
answer also stands for what a peer loses in its own loop, where an empty read
shortens the batch too.  In `_processOutput` the thread is started just before the neighbor is
inserted; the model does both in one step, which differs only if the thread
lives through its three rounds of 13 seconds before the next statement of its
parent.  What a thread leaves unread when it ends is lost.  Seeds do not crash.

## 3. Plan

Done: `KVMap`, `KVSet`, `KVServer`, `Autoscaler`, `BlockChain`, `Chord`,
`SeedNode`, `PeerNetwork`, each with its proofs.  Left, in this order:

1. `Gossip`: several `BlockChain` peers over the neighbors of `PeerNetwork`;
   agreement once nobody mines.
2. The clients of the autoscaler and `server.dat`.
3. `SecondaryIndex` (`CS631`): index and table under puts, deletes and scans.
4. The exam mode of the lab server (`CS699`), whose scripts save and restore a
   file.

Every safety property that a passing run checks is stated by a theorem.

## 4. Runs

All runs take between a second and about two minutes on two cores.

| run | instance | checks |
| --- | --- | --- |
| `kvset` | 3 keys, 2 values, 2 entries; `remove` and `rename` may fail, the process may die anywhere; symmetry | `TypeOK`, `DistinctKeys`, `CacheCoherent`, `DiskKeepsPairs`, `ImplementsMap` |
| `kvserver_safety` | 2 clients that may close, 2 workers, batches of 2, 2 requests each | `TypeOK`, `DirectHit`, `NoBlockedRead` |
| `kvserver_order` | 2 clients that stay, 1 worker, batches of 2, 2 requests each, 2 values | `ReadsSeeEarlierWrites`, `DrainedStoreIsExpected`, `EveryRequestAnswered` |
| `kvserver_overtake` | 2 clients that stay, 2 workers | finding: `ReadsSeeEarlierWrites` |
| `autoscaler_pair` | 2 machines, thresholds 1, 1, 1, all bands but the one that changes nothing, 1 click or failure, symmetry | `TypeOK`, `FlagsAgree`, `IdleIsEarned`, `OverloadIsEarned` |
| `autoscaler_live` | 2 machines, thresholds 0, 1, 1, busy or idle samples, 1 click or failure | `ScalesUp`, `AlwaysServed` |
| `blockchain` | 3 blocks | `TypeOK`, `ChainConnected`, `OrphansRequested`, `OwnBlocksConnected`, `MinesOnTip`, `ReadyIsInserted` |
| `blockchain_highest` | 4 blocks | finding: `MinesOnHighest` |
| `chord` | nodes 0, 3, 5, 7 on a circle of 8, started one after the other; 1 client, 1 kind of lost request | `TypeOK`, `OneRing`, `OneOwner`, `FingersRight`, `JamsOnlyBelowSmallest`, `RefreshEnds` |
| `chord_hash` | nodes 1, 3 on a circle of 4, 2 clients | finding: `KeyOnSameNode` |
| `network` | 2 peers, 1 seed, 3 misses, 2 links, 1 crash or late answer | `TypeOK`, `NeighborsWatched`, `DeadForgotten`, `NeighborsMutual` |
| `network_skips` | 2 peers, 1 seed, no links, no faults | finding: `RequestsServed` |

### What they show

- *Cache set.*  No key is in two entries, although deleted entries keep their
  keys; a valid entry holds what the file holds, or what the operation in
  progress is about to put there; to its callers the set is an atomic map that
  survives every crash but one in the middle of a write.  The disk, which is
  the file or while there is none its copy, loses no pair but the one being
  written, even if `remove` or `rename` fails or the process dies in the middle
  of writing a file: a copy never keeps lines of an earlier, unfinished one and
  never misses one of the file.  After a crash between `remove` and `rename`
  the pairs are under the temporary name, which no restart looks at, and the
  next write starts a new file without them: `CopyForgotten`, the exception.
  This is about the disk.  When `remove` or `rename` fails, the caller is told
  of success and the cache is ahead of the file: from then to the next restart
  `CacheCoherent` and `ImplementsMap` promise nothing, and no property says what
  the caller was told.
- *Server.*  `getResults` needs no matching of results to clients: the code's
  branches for results of other clients and for orphans are dead.  The loop
  never blocks in a read.  With one worker, answers are those of a sequential
  replay of the requests; with two, they are not (`kvserver_overtake`).  Every
  request is answered, also two of one batch, as long as nobody closes; when a
  client does, `ReadEof` drops the event of another, who waits for ever.
- *Autoscaler.*  The two flags of a machine contradict neither each other nor
  the counters; a machine is started or shut down only on samples collected
  since the last decision, in spite of everything that happens between the
  handler's reads; under lasting load all machines run in the end; there are
  always machines again.
- *Block chain.*  Blocks enter the chain only above their predecessors, with
  the right height; each orphan has been asked for; what the miner reads
  without the lock is a block that is in the chain by the time its successor is
  queued; a block that can be inserted is, however often a pass is cut short.
- *Chord ring.*  Whatever the order of the joins and the contacts, the members
  form the one sorted circle, unless a SET_SUCC or SET_PRED is lost or a node
  dies; each hash has one owner; one refresh per join leaves every finger right
  except those for points up to the smallest member or on a member; only lookups
  of such points make nodes wait for each other for ever; refreshes
  end, though nothing is said of runs in which a connection was refused or a
  request lost in a batch (`Blocked`).  Those
  exceptions are what the run taught: `find_succ` never treats an arc that
  passes 0 as one for points below its end.
- *Network of peers.*  Of two peers that have their lists, one was told about
  the other (theorem `OneIsTold`; no run checks it); each neighbor has a thread
  that will notice its death; a peer that
  stays dead is dropped, however old threads, new ones and restarts interleave;
  a neighbor becomes a neighbor of its neighbor.  Not every request for a
  list is answered (`network_skips`).

### Findings

- `kvserver_overtake`: a put is answered when its task is queued; with several
  workers a later get of the same client can run first.
- `blockchain_highest`: a fork that starts below an end never becomes an end;
  the node mines on a block that is not the highest of its chain.
- `chord_hash`: the hash of a key is never computed (`key_hash` stays
  uninitialised), so two requests for one key are executed on different nodes.
- `network_skips`: after a closed connection the seed skips the last event of the
  batch, in spite of "Serve all requests that are received"
  (`CS765/SeedNode/SeedNode.cpp:232`); the peer behind it waits for its list for
  ever.

Met while modelling, and without a run of their own:

- a del of an absent key on a set without a file writes a line with the empty
  value (`KVStore.cpp:76`), and the second such del reports success, which
  `testcases/output_generator.py:18-22` does not expect; `KVMap` leaves the
  answer to such a del open;
- an empty read of the key-value server shortens the batch by its last event
  (`Server.cpp:151-153`), which epoll does not report again: with two clients in
  one batch of which one has closed, `EveryRequestAnswered` fails
  (`MayClose = TRUE` in `KVServerOrder.cfg`);
- a peer keeps floor(n/2) + 1 of its n seeds, as it must for
  `OneKnowsTheOther`; the comment one line above says "Selecting only n/2 seeds
  out of n randomly" (`CS765/PeerNode/PeerNode.cpp:167`);
- a sample between 50 and 80 percent changes no counter, so "consecutive idle
  seconds" (`Manager.h:44`) need not be consecutive;
- two nodes of the ring that join at the same time can wait for each other
  (`Paced = FALSE`); after a lost SET_SUCC a refresh can run for ever; a single
  node does not own a hash equal to its identifier; a request that a node does
  not execute makes it block until that client sends again or closes;
- one late answer shifts all later ones on its connection, so a live peer is
  given up three rounds later; a peer given up by mistake is never entered into
  the lists again; one that dies before anybody watches it stays in them; a peer
  that restarts may be told about itself and become its own neighbor.

### Bounds

- `KVSet` needs none: keys, values and entries are finite.  Three keys in two
  entries force evictions, full sweeps of the hand and restarts that cannot
  load everything; two values tell stale from fresh.
- `KVServer`: `MaxRequests` requests per client.  Two let a request follow an
  answer, which is what overtaking and stale results need.  Batches of
  two hold the events of two clients, which a shortened batch needs.
  `EveryRequestAnswered` was also checked by hand with three clients and two
  workers, where one client has to wait for the next batch.
- `Autoscaler`: `MaxWatchers` watch threads per machine and `MaxEvents` clicks
  and failures.  With one watch thread per machine, a machine is not started
  again before its old thread has ended.  The counters need no bound, their
  thresholds reset them (`TypeOK` says so); `hot` and `quiet` stop counting one
  above the threshold.  Thresholds of 1 are passed, reset and missed; those of
  the code (10, 15, 5) are covered by the theorems, which hold for all of them.
- `BlockChain`: the number of blocks.  Three make a chain with a gap and a
  fork; the fork below an end needs four.  When all have been born the node may
  stop: deadlock is not checked there.
- `Chord`: `MaxLosses` kinds of requests that empty reads lose, `MaxHangups`
  closed connections remembered per node, `MaxClients` and `MaxRequests`.  Four
  of eight points give arcs of different lengths, one that passes 0 and a node
  at 0; the node at 5 starts the ring and the others join in any order through
  any member.  The safety properties were also checked by hand, without clients
  and losses, on random sets of four to six nodes on a circle of sixteen.  The
  ring may rest: deadlock is not checked.
- `PeerNetwork`: `MaxThreads` threads that watch one neighbor (a peer does not
  connect when all are in use), `MaxFaults` crashes and late answers.  Two peers
  and one crash give restarts, stale threads, duplicate threads and a seed that
  skips.  `OneKnowsTheOther` is not checked by a run: peers can choose different
  seeds only if there are three, and then the state space is too large to go
  with links and threads.  It was checked by hand with three seeds of which each
  peer asks two, one crash and no links, which come after the lists, and is
  proved for any number of seeds (`OneIsTold`).  The other safety
  properties were also checked by hand with one crash *and* one late answer, and
  with two seeds.  All peers may be down: deadlock is not checked.

### Fairness

- `KVServer`: weak fairness of the main thread and of each worker, which the
  operating system schedules.  Clients have none.
- `Autoscaler`: weak fairness of the handler, of each watch thread, of the
  sanitizer (which runs every second) and of a machine that was asked to shut
  down.  The second half of a shutdown never waits in the code; in the model it
  waits for `MapsQuiet`, again and again, hence strong fairness.
- `BlockChain`: weak fairness of the insertion thread, which loops every 100
  milliseconds.  Nothing else is fair: no message needs to arrive.
- `Chord`: weak fairness of the thread of each node; clients and the start of
  nodes have none.  That nodes are started one after the other (`Paced`) is an
  assumption about whoever starts them.
- `PeerNetwork`: weak fairness of the loop of each seed, of a peer that joins,
  of each watch thread and of each peer's answers.  Nothing makes a peer start,
  crash or answer late.

## 5. Proofs

Every theorem holds for all values of the constants under the assumptions named
in the modules: `Empty` and the other names are distinct from values, a set has
at least one entry, `MaxEvents` is positive, clients, machines, peers and seeds
are finite sets, thresholds and bounds are natural numbers, nodes are points of
the circle, powers of two are positive and grow (`PowerAssumption`: facts the
provers do not know, which TLC evaluates).

- `KVSetProofs`.  `TypeCorrect` and `KeysStayDistinct` are inductive as they
  stand, given the lemmas about `SlotFor`: it returns the only entry with the
  key if there is one.  `CacheStaysCoherent` needs `TempIsCopy`: until it
  replaces the file, the temporary file is the rewritten file, or a crash-free
  run could install something else.  `SetImplementsMap` maps each step
  to a step of `KVMap` or to a stutter; while the disk works (`WorkingStep`) it
  needs `CacheCoherent` for hits, and `ReplyInv`: what the copy has found out
  about the key is what the map says; the steps from a failed `remove` or
  `rename` to the death of the process are those of `Fail` (`FailedStep`).
  `PairsStayOnDisk` (with I/O errors and deaths in the middle of a file) has
  `CopyIsWhole`: when the file is about to be removed, the copy is the whole
  file but for the line of the key.  What a death leaves of an unfinished copy
  never becomes the file.
- `KVServerProofs`.  `TypeCorrect` carries `ServingEvent` (the loop waits for a
  result only while it serves an event) and `ResultOfTask`.
  `ResultsMeetTheirClient` proves `DirectHit` from `OneRead`: of all the tasks
  queued, running and finished at most one is a get or a del, and it belongs to
  the client the loop serves.  `DirectHit` alone is not inductive, for it says
  nothing of tasks on their way.
  `NeverBlocksInRead` needs `OneEvent`: every event on the ready list or not yet
  served is of a client with something to read, and no client has two of them,
  or serving one would take the input of the other.  `OneWorkerKeepsOrder` and
  `OneWorkerReadsItsWrites` assume a single worker.  Their invariant `InOrder`
  says without recursion what serving the tasks in order yields (of each key,
  the value of the last queued task that writes it, else what the store holds
  after the task at hand), and `ReadIsLast` that a get or a del is the last task
  there is, so that its result is still true when the loop takes it.
- `AutoscalerProofs`.  The invariant is `StatsOK` (each record is bounded,
  agrees with itself, and its flags are backed by `hot` and `quiet`), `RestOK`
  (types), and `CheckOK` (while the handler's verdict stands, the machines it
  has come to are overloaded).  `FlagsNeverDisagree`, `IdleShutdownIsEarned`
  and `NewMachineIsEarned` follow; the sample lemmas (`SampleAgrees`,
  `SampleEarned`) are the arithmetic of one update.
- `BlockChainProofs`.  The invariant adds to the four checked ones which blocks
  exist (`Types`), that a block in the hand of the insertion thread has its
  predecessor in the chain (`PassOK`), and that one in the hand of the miner
  has it there or still in the hand of the insertion thread (`MinerOK`): that
  is the race on `mMiningOnBlock`.  `MinesOnlyOnTips` needs `TipOK` (nothing in
  the chain, and nothing about to be added, has the block mined on as its
  predecessor) and `PrevBorn`.
- `ChordProofs`.  `TypeCorrect` needs the clauses of `TypeOK` about tasks: a
  node that refreshes, joins or looks up a predecessor knows for whom, or the
  request it sends next would name no node.  `RingDivided` is about the three
  conditions of ownership: if each member's predecessor is a member with none
  between them on the circle, every hash, also one beyond the circle, is owned
  by exactly its `Owner`.  It follows from `ClaimantIsClosest` and
  `ClosestClaims`, one for each direction, which reduce the wrapping intervals
  to distances.  That the predecessors are so is proved in `ChordRingProofs`.
- `ChordRingProofs`.  `OneRingHolds` and `OneOwnerHolds` are proved for every
  set of nodes and every size of the circle, under the hypothesis `Paced` that
  nodes are started one after the other: without it two nodes that join at once
  may find the same place, and the properties are not claimed.  Neither
  property is inductive, for neither speaks of a ring that is not at rest.
  Their invariant `LinkInv` was model-checked on the instance of the run
  `chord` before it was proved.  It has four parts.  `StatusInv` (what a node is
  in the middle of fits its status, and one node joins at a time) holds in any
  case, the other three as long as nobody dies and no SET_SUCC or SET_PRED is
  lost.  `RingInv`: on the `Circle` (the nodes that are up, and the one that
  joins from the moment it knows its neighbors) each link is right, or the
  message that puts it right is in the inbox or about to be sent; fingers point
  to the circle, wherever on it; and while a node still asks for its place no
  such message is under way.  `TokenInv`: a node owes an answer only to a node
  that waits for it, and only one, so that no answer is ever taken for that of
  another question.  `AnswerInv`: an answer is right for the node it is for.  A
  lookup may run over any number of nodes; what carries the proof over them
  without induction is `LooksUpFor`, which ties the point and the source of each
  question to the task of the node that asked it.  So the node where a lookup
  ends, which knows only its own links and its own fingers, answers with the
  successor of the point for whoever it was started (`LocalRight`), and each
  node on the way back passes it on unchanged (`PassedOn`).  There is one lemma
  per action, and the lemmas about the circle (`NotBetweenOthers`,
  `NotBetweenEarlier`) say that a new node comes between its neighbors only.
- `ChordThreadProofs`.  `FingersRightHolds` and `JamsHold` need to know how far a
  refresh has come and who waits for whom.  Their invariant `RefreshInv` holds
  under `Paced`, while nobody dies and no request is lost (`Unbroken`), which is
  when the two properties claim something; it was model-checked before it was
  proved.  Although each node is a thread, one thread of control goes through
  the ring (`OneThread`): one node joins or renews its fingers, or one request
  to renew them is under way.  What hands it on is at the end of an inbox that
  may hold a SET_SUCC, which must be read before (`OrderInv`): a refresh that
  overtook it would look points up past the new node.  All lookups are for the
  holder of the thread and for its point of the moment (`BehalfInv`), and no
  chain of lookups is a circle (`Ranked`: a rank that grows along the chain,
  which stands in for the recursion).  So nothing is being looked up while the
  holder waits for nobody (`Silence`), and only then does it hand the thread on.
  `NearerInv`: the lookup of a point beyond the first node asks nodes ever
  nearer to it (`HopIsNearer`), whatever the fingers hold.  `FoundInv` and
  `RenewedInv`: the answers to a refresh are right (`LocalClear`), and each
  finger is right or `Due`, which is to say that the refresh has not reached
  its node or its index yet; a node that joins makes all of them due, and a
  refresh that is back where it started leaves none.  `NoJam` then takes, of the
  nodes that wait for each other, the one nearest to their common point: the
  node it asks is nearer still.  The code's exception, points up to the smallest
  member or on one, is exactly where `HopIsNearer` and `LocalClear` fail.
- `PeerNetworkProofs`.  `NeighborsStayWatched` is inductive with the types: the
  interesting steps are those that reuse a thread's slot.  `OneIsTold` holds for
  any number of peers and seeds; its invariant is `Knowing`: `Requests` (a peer
  has at most one request on its way, and only to the seed it waits for, in the
  backlog or in the batch but not both, which epoll's order and crashes must not
  break), `Progress` (whom it has asked), `ListsKept` (a seed that has answered a
  peer keeps it in its list until it is reported), and `PairsTold` (of two peers
  answered by one seed, the later was told about the earlier).  Two majorities
  of the seeds share one, and the conclusion follows.

## 6. Only model-checked

Liveness (`EveryRequestAnswered`, `ScalesUp`, `AlwaysServed`,
`ReadyIsInserted`, `RefreshEnds`, `DeadForgotten`, `NeighborsMutual`) and the
findings; temporal properties under fairness and
ENABLED are beyond the installed provers, as is induction over data.

## 7. Not modelled

- Parsing and formatting (XML, messages, batch files), sockets that fail, sizes
  of buffers.
- `ThreadPool::shutdown`, which nothing calls.
- Data races on the maps of the manager and on the map of the chain: what the
  C++ program does in them is undefined.  `MapsQuiet` keeps the first out; the
  second is taken as if a lookup were one step.
- `server.dat`, libvirt and GTK.
- Time: sleeps and timeouts are interleavings.  Time stamps of blocks, with
  `_validateBlock`, which refuses blocks older than an hour.
- The data base of a peer, which holds what the map of its chain holds.
- Crashes of seeds, limits on backlogs, and messages between peers that TCP cuts
  or joins.
- Nodes of the ring that fail other than by their own exits: the code has no
  repair of the ring.
- The JavaScript of the repository (`CS699/Project`: jQuery, Underscore,
  `searchtools.js`, `doctools.js`, `websupport.js`, `modernizr`, `theme.js`,
  twice, in the generated documentation of a Flask server).  It is third-party
  code that a documentation generator has copied, and none of it is part of any
  of the programs.
- The components of section 1 that the plan names or that `PROJECT.json` lists
  with their reasons: vendored and generated code, user interfaces, a copied
  hash function, programs that only transform input to output.
