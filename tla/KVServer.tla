------------------------------ MODULE KVServer ------------------------------
(***************************************************************************)
(* The key-value server of CS744/Assignment_4/server: the event loop of    *)
(* Server::start, the request handler and the thread pool, with clients    *)
(* that send one request at a time and wait for the answer                 *)
(* (client/Client.cpp).                                                    *)
(*                                                                         *)
(* One main thread accepts connections, waits for edge-triggered events,   *)
(* reads a request per event and hands it to the pool.  A put is answered  *)
(* at once; for a get or a del the main thread blocks until the pool's     *)
(* output queue has a result.  The cache is the map of module KVMap: a     *)
(* worker's call takes effect at one instant (module KVSet implements it). *)
(***************************************************************************)
EXTENDS Naturals, Sequences, FiniteSets

CONSTANTS
  Clients,     \* connections, named by their file descriptors in the server
  Workers,     \* the threads of the pool
  Keys, Values,
  Empty,       \* the empty string
  Success,     \* the string "Success"
  None,        \* no request, no task
  MaxEvents,   \* MAX_EVENTS, events taken by one epoll_wait
  MaxRequests, \* bound: requests a client sends
  MayClose     \* whether clients close their connection

ASSUME EventsAssumption == MaxEvents \in Nat \ {0} /\ MaxRequests \in Nat
ASSUME ClientsAssumption == IsFiniteSet(Clients)

Requests ==
  [func : {"put"}, key : Keys, value : Values]
    \cup [func : {"get", "del"}, key : Keys, value : {Empty}]
    \cup [func : {"garbage"}, key : {Empty}, value : {Empty}]

Task(c, r) == [fd |-> c, func |-> r.func, key |-> r.key, value |-> r.value]

Tasks == {Task(c, r) : c \in Clients, r \in {q \in Requests : q.func # "garbage"}}

ASSUME NoneAssumption ==
  None \notin Requests \cup Tasks \cup Values \cup {Empty, Success}

VARIABLES
  conn,     \* "off", "pending" in the backlog, or "open"
  sent,     \* requests sent so far
  awaiting, \* the request whose answer the client waits for, or None
  inbox,    \* the request in the socket's receive buffer, or None
  eof,      \* whether the client has closed its end
  ready,    \* descriptors on the ready list of the epoll instance
  pc,       \* the main thread: "accept", "wait", "serve" or "result"
  batch,    \* events filled in by the last epoll_wait
  nfds,     \* how many of them the loop still believes in
  i,        \* the index of the event being served
  current,  \* the request the main thread waits for the pool to answer
  queue,    \* tasks for the workers
  running,  \* per worker: the task it has popped, or None
  result,   \* per worker: what operateOnCache returned, None before
  output,   \* results of gets and dels
  store,    \* the map behind the cache
  expected  \* history: the map if every task took effect when it was queued

clientVars == <<conn, sent, awaiting, inbox, eof>>
loopVars == <<ready, pc, batch, nfds, i, current>>
poolVars == <<queue, running, result, output, store>>
vars == <<clientVars, loopVars, poolVars, expected>>

EmptyMap == [k \in Keys |-> Empty]

Init ==
  /\ conn = [c \in Clients |-> "off"]
  /\ sent = [c \in Clients |-> 0]
  /\ awaiting = [c \in Clients |-> None]
  /\ inbox = [c \in Clients |-> None]
  /\ eof = [c \in Clients |-> FALSE]
  /\ ready = {}
  /\ pc = "accept"
  /\ batch = <<>>
  /\ nfds = 0
  /\ i = 1
  /\ current = None
  /\ queue = <<>>
  /\ running = [w \in Workers |-> None]
  /\ result = [w \in Workers |-> None]
  /\ output = <<>>
  /\ store = EmptyMap
  /\ expected = EmptyMap

-----------------------------------------------------------------------------
(* Clients. *)

\* An event on an accepted connection puts it on the ready list.
Raise(c) == ready' = IF conn[c] = "open" THEN ready \cup {c} ELSE ready

Connect(c) ==
  /\ conn[c] = "off"
  /\ conn' = [conn EXCEPT ![c] = "pending"]
  /\ UNCHANGED <<sent, awaiting, inbox, eof, loopVars, poolVars, expected>>

Send(c) ==
  /\ conn[c] # "off" /\ ~eof[c]
  /\ awaiting[c] = None
  /\ sent[c] < MaxRequests
  /\ \E r \in Requests :
       /\ awaiting' = [awaiting EXCEPT ![c] = r]
       /\ inbox' = [inbox EXCEPT ![c] = r]
  /\ sent' = [sent EXCEPT ![c] = @ + 1]
  /\ Raise(c)
  /\ UNCHANGED <<conn, eof, pc, batch, nfds, i, current, poolVars, expected>>

\* The client's input file is exhausted: it exits, and the server reads an
\* end of file.
Close(c) ==
  /\ MayClose
  /\ conn[c] # "off" /\ ~eof[c]
  /\ awaiting[c] = None
  /\ eof' = [eof EXCEPT ![c] = TRUE]
  /\ Raise(c)
  /\ UNCHANGED <<conn, sent, awaiting, inbox, pc, batch, nfds, i, current, poolVars, expected>>

-----------------------------------------------------------------------------
(* The main thread. *)

\* accept() takes one pending connection, if any; adding a descriptor that is
\* readable already puts it on the ready list.
Accept ==
  /\ pc = "accept"
  /\ pc' = "wait"
  /\ \/ \E c \in Clients :
          /\ conn[c] = "pending"
          /\ conn' = [conn EXCEPT ![c] = "open"]
          /\ ready' = IF inbox[c] # None \/ eof[c] THEN ready \cup {c} ELSE ready
     \/ /\ \A c \in Clients : conn[c] # "pending"
        /\ UNCHANGED <<conn, ready>>
  /\ UNCHANGED <<sent, awaiting, inbox, eof, batch, nfds, i, current, poolVars, expected>>

\* The arrays epoll_wait can fill in from the ready list R.
Batches(R) ==
  LET n == IF Cardinality(R) < MaxEvents THEN Cardinality(R) ELSE MaxEvents IN
  {b \in [1 .. n -> R] : \A j, k \in 1 .. n : b[j] = b[k] => j = k}

\* Mutant of EpollWait: the loop goes on at the index where it stopped.
EpollWaitKeepsIndex ==
  /\ pc = "wait"
  /\ \E b \in Batches(ready) :
       /\ batch' = b
       /\ nfds' = Len(b)
       /\ ready' = ready \ {b[j] : j \in 1 .. Len(b)}
  /\ pc' = "serve"
  /\ UNCHANGED <<clientVars, i, current, poolVars, expected>>

EpollWait ==
  /\ pc = "wait"
  /\ \E b \in Batches(ready) :
       /\ batch' = b
       /\ nfds' = Len(b)
       /\ ready' = ready \ {b[j] : j \in 1 .. Len(b)}
  /\ i' = 1
  /\ pc' = "serve"
  /\ UNCHANGED <<clientVars, current, poolVars, expected>>

EndBatch ==
  /\ pc = "serve" /\ i > nfds
  /\ pc' = "accept"
  /\ UNCHANGED <<clientVars, ready, batch, nfds, i, current, poolVars, expected>>

\* read() returns the request of the event's client.
Reads(c) ==
  /\ pc = "serve" /\ i <= nfds
  /\ batch[i] = c
  /\ inbox[c] # None
  /\ inbox' = [inbox EXCEPT ![c] = None]

\* write() of the response: the client goes on.
Answer(c) == awaiting' = [awaiting EXCEPT ![c] = None]

\* The effect of a task on a map.
Effect(m, t) ==
  IF t.func = "get" THEN m ELSE [m EXCEPT ![t.key] = t.value]

\* Mutant of AddTaskToQueue: the newest task is served first.
PushTaskOnStack(c, r) ==
  /\ queue' = <<Task(c, r)>> \o queue
  /\ expected' = Effect(expected, r)

AddTaskToQueue(c, r) ==
  /\ queue' = Append(queue, Task(c, r))
  /\ expected' = Effect(expected, r)

\* handle: a message that cannot be parsed is answered at once.
HandleGarbage(c) ==
  /\ Reads(c)
  /\ inbox[c].func = "garbage"
  /\ Answer(c)
  /\ i' = i + 1
  /\ UNCHANGED <<conn, sent, eof, ready, pc, batch, nfds, current, poolVars, expected>>

\* handle: a put is queued, and answered without waiting for it.
HandlePut(c) ==
  /\ Reads(c)
  /\ inbox[c].func = "put"
  /\ AddTaskToQueue(c, inbox[c])
  /\ Answer(c)
  /\ i' = i + 1
  /\ UNCHANGED <<conn, sent, eof, ready, pc, batch, nfds, current,
                 running, result, output, store>>

\* handle: a get or a del is queued, and the main thread waits in getResults.
HandleGetDel(c) ==
  /\ Reads(c)
  /\ inbox[c].func \in {"get", "del"}
  /\ AddTaskToQueue(c, inbox[c])
  /\ current' = inbox[c]
  /\ pc' = "result"
  /\ UNCHANGED <<conn, sent, awaiting, eof, ready, batch, nfds, i,
                 running, result, output, store>>

\* read() returns an end of file: the loop forgets one event, the last of the
\* batch, and looks at the same one again.
ReadEof ==
  /\ pc = "serve" /\ i <= nfds
  /\ inbox[batch[i]] = None /\ eof[batch[i]]
  /\ nfds' = nfds - 1
  /\ UNCHANGED <<clientVars, ready, pc, batch, i, current, poolVars, expected>>

\* Mutant of TakeResult: the loop stays on the event it has answered.
TakeResultStays ==
  /\ pc = "result" /\ output # <<>>
  /\ pc' = "serve"
  /\ output' = Tail(output)
  /\ current' = None
  /\ Answer(Head(output).fd)
  /\ UNCHANGED <<conn, sent, inbox, eof, ready, batch, nfds, i, queue, running, result,
                 store, expected>>

\* getResults returns the oldest result.  It is written to its own client when
\* that client is in the batch; otherwise it is an orphan, and the loop reads
\* the same event again.
TakeResult ==
  /\ pc = "result" /\ output # <<>>
  /\ pc' = "serve"
  /\ output' = Tail(output)
  /\ current' = None
  /\ IF \E j \in 1 .. nfds : batch[j] = Head(output).fd
     THEN Answer(Head(output).fd) /\ i' = i + 1
     ELSE UNCHANGED <<awaiting, i>>
  /\ UNCHANGED <<conn, sent, inbox, eof, ready, batch, nfds, queue, running, result,
                 store, expected>>

-----------------------------------------------------------------------------
(* The pool's threads: infiniteLoopFunction. *)

PopTask(w) ==
  /\ running[w] = None
  /\ queue # <<>>
  /\ running' = [running EXCEPT ![w] = Head(queue)]
  /\ queue' = Tail(queue)
  /\ UNCHANGED <<clientVars, loopVars, result, output, store, expected>>

\* What operateOnCache can return for a task: "Success" for a deletion of a
\* present key, either answer for an absent one (module KVMap).
Returns(t) ==
  CASE t.func = "put" -> {Empty}
    [] t.func = "get" -> {store[t.key]}
    [] t.func = "del" -> IF store[t.key] = Empty THEN {Empty, Success} ELSE {Success}

\* Mutant of OperateOnCache: a put has a result too.
OperateAlwaysResult(w) ==
  /\ running[w] # None /\ result[w] = None
  /\ store' = Effect(store, running[w])
  /\ \E s \in Returns(running[w]) : result' = [result EXCEPT ![w] = s]
  /\ UNCHANGED <<clientVars, loopVars, running, queue, output, expected>>

\* Mutant of OperateOnCache: a put writes only keys that are absent.
OperatePutIfAbsent(w) ==
  /\ running[w] # None /\ result[w] = None
  /\ store' = IF running[w].func = "put" /\ store[running[w].key] # Empty
              THEN store ELSE Effect(store, running[w])
  /\ \E s \in Returns(running[w]) :
       IF running[w].func = "put"
       THEN running' = [running EXCEPT ![w] = None] /\ UNCHANGED result
       ELSE result' = [result EXCEPT ![w] = s] /\ UNCHANGED running
  /\ UNCHANGED <<clientVars, loopVars, queue, output, expected>>

OperateOnCache(w) ==
  /\ running[w] # None /\ result[w] = None
  /\ store' = Effect(store, running[w])
  /\ \E s \in Returns(running[w]) :
       IF running[w].func = "put"
       THEN running' = [running EXCEPT ![w] = None] /\ UNCHANGED result
       ELSE result' = [result EXCEPT ![w] = s] /\ UNCHANGED running
  /\ UNCHANGED <<clientVars, loopVars, queue, output, expected>>

PushResult(w) ==
  /\ result[w] # None
  /\ output' = Append(output, [fd |-> running[w].fd, value |-> result[w]])
  /\ running' = [running EXCEPT ![w] = None]
  /\ result' = [result EXCEPT ![w] = None]
  /\ UNCHANGED <<clientVars, loopVars, queue, store, expected>>

-----------------------------------------------------------------------------
Client(c) == Connect(c) \/ Send(c) \/ Close(c)

Handle(c) == HandleGarbage(c) \/ HandlePut(c) \/ HandleGetDel(c)

Main ==
  \/ Accept \/ EpollWait \/ EndBatch \/ ReadEof \/ TakeResult
  \/ \E c \in Clients : Handle(c)

Worker(w) == PopTask(w) \/ OperateOnCache(w) \/ PushResult(w)

Next ==
  \/ \E c \in Clients : Client(c)
  \/ Main
  \/ \E w \in Workers : Worker(w)

Spec == Init /\ [][Next]_vars

\* The operating system runs every thread; clients may stop at any time.
FairSpec == Spec /\ WF_vars(Main) /\ \A w \in Workers : WF_vars(Worker(w))

-----------------------------------------------------------------------------
(* Type correctness of the clients, the event loop and the pool. *)
TypeOK ==
  /\ conn \in [Clients -> {"off", "pending", "open"}]
  /\ sent \in [Clients -> 0 .. MaxRequests]
  /\ awaiting \in [Clients -> Requests \cup {None}]
  /\ inbox \in [Clients -> Requests \cup {None}]
  /\ eof \in [Clients -> BOOLEAN]
  /\ ready \subseteq Clients
  /\ pc \in {"accept", "wait", "serve", "result"}
  /\ batch \in Seq(Clients) /\ Len(batch) <= MaxEvents
  /\ nfds \in 0 .. Len(batch)
  /\ i \in 1 .. Len(batch) + 1
  /\ current \in Requests \cup {None}
  /\ queue \in Seq(Tasks)
  /\ running \in [Workers -> Tasks \cup {None}]
  /\ result \in [Workers -> Values \cup {Empty, Success, None}]
  /\ output \in Seq([fd : Clients, value : Values \cup {Empty, Success}])
  /\ store \in [Keys -> Values \cup {Empty}]
  /\ expected \in [Keys -> Values \cup {Empty}]

(* A result is only ever there for the client the main thread is serving,    *)
(* and there is at most one: no answer goes to another client, and the       *)
(* "indirect hit" and "orphan" branches of the loop are never taken          *)
(* (Server.cpp:124-149).                                                     *)
DirectHit ==
  /\ Len(output) <= 1
  /\ output # <<>> => pc = "result" /\ i <= nfds /\ Head(output).fd = batch[i]

(* The main thread never reads a descriptor that has nothing to read: the    *)
(* descriptors are blocking, so it would stop serving everybody              *)
(* (Server.cpp:118-154).                                                     *)
NoBlockedRead ==
  pc = "serve" /\ i <= nfds => inbox[batch[i]] # None \/ eof[batch[i]]

(* A get returns what the requests served before it have left in the map, as *)
(* testcases/output_generator.py computes it: a put that has been answered   *)
(* is visible.                                                               *)
ReadsSeeEarlierWrites ==
  output # <<>> /\ current.func = "get" => Head(output).value = expected[current.key]

(* Once the pool has nothing left to do, the map is the one that serving the *)
(* requests in order would have produced.                                    *)
DrainedStoreIsExpected ==
  queue = <<>> /\ (\A w \in Workers : running[w] = None) => store = expected

(* Every request is answered, whatever the other clients send and however    *)
(* many events one epoll_wait returns.  It holds as long as no client closes *)
(* (Server.cpp:104-154); one that does makes the loop forget the last event  *)
(* of its batch.                                                             *)
EveryRequestAnswered == \A c \in Clients : awaiting[c] # None ~> awaiting[c] = None

=============================================================================
