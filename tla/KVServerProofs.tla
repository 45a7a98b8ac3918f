--------------------------- MODULE KVServerProofs ---------------------------
(***************************************************************************)
(* Proofs about KVServer for every number of clients and of threads: type  *)
(* correctness, that a result always finds its own client waiting, that    *)
(* the loop never blocks in a read, and what one thread guarantees about   *)
(* the order of the requests.                                              *)
(***************************************************************************)
EXTENDS KVServer, SequenceTheorems, FiniteSetTheorems, TLAPS

LEMMA TaskOfRequest ==
  ASSUME NEW c \in Clients, NEW r \in Requests, r.func # "garbage"
  PROVE  Task(c, r) \in Tasks
BY DEF Tasks

(* What a task is made of. *)
LEMMA TaskFields ==
  ASSUME NEW t \in Tasks
  PROVE  /\ t.fd \in Clients /\ t.func \in {"put", "get", "del"}
         /\ t.key \in Keys /\ t.value \in Values \cup {Empty}
<1>1. PICK c \in Clients, r \in {q \in Requests : q.func # "garbage"} : t = Task(c, r)
  BY DEF Tasks
<1>2. r.func \in {"put", "get", "del"} /\ r.key \in Keys /\ r.value \in Values \cup {Empty}
  BY DEF Requests
<1> QED BY <1>1, <1>2 DEF Task

LEMMA EffectType ==
  ASSUME NEW m \in [Keys -> Values \cup {Empty}], NEW t,
         t.key \in Keys, t.value \in Values \cup {Empty}
  PROVE  Effect(m, t) \in [Keys -> Values \cup {Empty}]
BY DEF Effect

(* The batch is never longer than MaxEvents. *)
LEMMA BatchType ==
  ASSUME NEW R, R \subseteq Clients, NEW b \in Batches(R)
  PROVE  b \in Seq(Clients) /\ Len(b) \in Nat /\ Len(b) <= MaxEvents
<1>1. Cardinality(R) \in Nat
  BY ClientsAssumption, FS_Subset, FS_CardinalityType
<1> DEFINE n == IF Cardinality(R) < MaxEvents THEN Cardinality(R) ELSE MaxEvents
<1>2. n \in Nat /\ n <= MaxEvents
  BY <1>1, EventsAssumption
<1>3. b \in [1 .. n -> R]
  BY DEF Batches
<1> HIDE DEF n
<1>4. b \in [1 .. n -> Clients]
  BY <1>3
<1>5. b \in Seq(Clients) /\ Len(b) = n
  BY <1>2, <1>4
<1> QED BY <1>2, <1>5

-----------------------------------------------------------------------------
(* The main thread waits for a result only while it serves an event of the   *)
(* batch.                                                                    *)
ServingEvent == pc = "result" => i <= nfds

(* A worker has a result only for a get or a del that it has popped. *)
ResultOfTask ==
  \A w \in Workers : result[w] # None => running[w] # None /\ running[w].func \in {"get", "del"}

LEMMA ServingStep == ServingEvent /\ [Next]_vars => ServingEvent'
BY DEF ServingEvent, Next, Client, Connect, Send, Close, Main, Accept, EpollWait, EndBatch,
   ReadEof, TakeResult, Handle, HandleGarbage, HandlePut, HandleGetDel, Reads, Worker,
   PopTask, OperateOnCache, PushResult, vars, clientVars, loopVars, poolVars

(* Next preserves type correctness. *)
LEMMA TypeStep == TypeOK /\ ServingEvent /\ ResultOfTask /\ [Next]_vars => TypeOK'
<1> SUFFICES ASSUME TypeOK, ServingEvent, ResultOfTask, [Next]_vars
             PROVE  TypeOK'
  OBVIOUS
<1> USE DEF TypeOK, clientVars, loopVars, poolVars
<1>0. Len(batch) \in Nat
  BY LenProperties
<1>1. ASSUME NEW c \in Clients, Connect(c) PROVE TypeOK'
  BY <1>1 DEF Connect
<1>2. ASSUME NEW c \in Clients, Send(c) PROVE TypeOK'
  <2>1. sent' \in [Clients -> 0 .. MaxRequests]
    BY <1>2, EventsAssumption DEF Send
  <2>2. ready' \subseteq Clients
    BY <1>2 DEF Send, Raise
  <2> QED BY <1>2, <2>1, <2>2 DEF Send
<1>3. ASSUME NEW c \in Clients, Close(c) PROVE TypeOK'
  BY <1>3 DEF Close, Raise
<1>4. CASE Accept
  BY <1>4 DEF Accept
<1>5. CASE EpollWait
  <2>1. batch' \in Seq(Clients) /\ Len(batch') \in Nat /\ Len(batch') <= MaxEvents
    BY <1>5, BatchType DEF EpollWait
  <2>2. ready' \subseteq Clients
    BY <1>5 DEF EpollWait
  <2> QED BY <1>5, <2>1, <2>2 DEF EpollWait
<1>6. CASE EndBatch
  BY <1>6 DEF EndBatch
<1>7. CASE ReadEof
  BY <1>0, <1>7 DEF ReadEof
<1>8. CASE TakeResult
  <2>1. output' \in Seq([fd : Clients, value : Values \cup {Empty, Success}])
    BY <1>8, HeadTailProperties DEF TakeResult
  <2>2. awaiting' \in [Clients -> Requests \cup {None}]
    BY <1>8 DEF TakeResult, Answer
  <2>3. i' \in 1 .. Len(batch') + 1
    BY <1>0, <1>8 DEF TakeResult, ServingEvent
  <2> QED BY <1>8, <2>1, <2>2, <2>3 DEF TakeResult
<1>9. ASSUME NEW c \in Clients, Reads(c), inbox[c].func # "garbage", AddTaskToQueue(c, inbox[c])
      PROVE  /\ inbox[c] \in Requests
             /\ queue' \in Seq(Tasks) /\ expected' \in [Keys -> Values \cup {Empty}]
  <2>1. inbox[c] \in Requests
    BY <1>9 DEF Reads
  <2>2. Task(c, inbox[c]) \in Tasks
    BY <1>9, <2>1, TaskOfRequest
  <2>3. inbox[c].key \in Keys /\ inbox[c].value \in Values \cup {Empty}
    BY <1>9, <2>1 DEF Requests
  <2>4. queue' \in Seq(Tasks)
    BY <1>9, <2>2, AppendProperties DEF AddTaskToQueue
  <2>5. expected' \in [Keys -> Values \cup {Empty}]
    BY <1>9, <2>3, EffectType DEF AddTaskToQueue
  <2> QED BY <2>1, <2>4, <2>5
<1>10. ASSUME NEW c \in Clients, HandleGarbage(c) PROVE TypeOK'
  BY <1>0, <1>10 DEF HandleGarbage, Reads, Answer
<1>11. ASSUME NEW c \in Clients, HandlePut(c) PROVE TypeOK'
  <2>1. queue' \in Seq(Tasks) /\ expected' \in [Keys -> Values \cup {Empty}]
    BY <1>9, <1>11 DEF HandlePut
  <2> QED BY <1>0, <1>11, <2>1 DEF HandlePut, Reads, Answer
<1>12. ASSUME NEW c \in Clients, HandleGetDel(c) PROVE TypeOK'
  <2>1. /\ inbox[c] \in Requests
        /\ queue' \in Seq(Tasks) /\ expected' \in [Keys -> Values \cup {Empty}]
    BY <1>9, <1>12 DEF HandleGetDel
  <2> QED BY <1>0, <1>12, <2>1 DEF HandleGetDel, Reads
<1>13. ASSUME NEW w \in Workers, PopTask(w) PROVE TypeOK'
  <2>1. Head(queue) \in Tasks /\ Tail(queue) \in Seq(Tasks)
    BY <1>13, HeadTailProperties DEF PopTask
  <2> QED BY <1>13, <2>1 DEF PopTask
<1>14. ASSUME NEW w \in Workers, OperateOnCache(w) PROVE TypeOK'
  <2>1. running[w] \in Tasks
    BY <1>14 DEF OperateOnCache
  <2>2. /\ running[w].key \in Keys /\ running[w].value \in Values \cup {Empty}
        /\ running[w].func \in {"put", "get", "del"}
    BY <2>1, TaskFields
  <2>3. store' \in [Keys -> Values \cup {Empty}]
    BY <1>14, <2>2, EffectType DEF OperateOnCache
  <2>4. Returns(running[w]) \subseteq Values \cup {Empty, Success}
    BY <2>2 DEF Returns
  <2>5. /\ running' \in [Workers -> Tasks \cup {None}]
        /\ result' \in [Workers -> Values \cup {Empty, Success, None}]
    BY <1>14, <2>4 DEF OperateOnCache
  <2> QED BY <1>14, <2>3, <2>5 DEF OperateOnCache
<1>15. ASSUME NEW w \in Workers, PushResult(w) PROVE TypeOK'
  <2>1. running[w] \in Tasks
    BY <1>15 DEF PushResult, ResultOfTask
  <2>5. running[w].fd \in Clients
    BY <2>1, TaskFields
  <2>2. result[w] \in Values \cup {Empty, Success}
    BY <1>15 DEF PushResult
  <2>3. [fd |-> running[w].fd, value |-> result[w]]
          \in [fd : Clients, value : Values \cup {Empty, Success}]
    BY <2>2, <2>5
  <2>4. output' \in Seq([fd : Clients, value : Values \cup {Empty, Success}])
    BY <1>15, <2>3, AppendProperties DEF PushResult
  <2> QED BY <1>15, <2>4 DEF PushResult
<1>16. CASE UNCHANGED vars
  BY <1>16 DEF vars
<1> QED
  BY <1>1, <1>2, <1>3, <1>4, <1>5, <1>6, <1>7, <1>8, <1>10, <1>11, <1>12, <1>13, <1>14,
     <1>15, <1>16 DEF Next, Client, Main, Handle, Worker

LEMMA ResultStep == TypeOK /\ ResultOfTask /\ [Next]_vars => ResultOfTask'
<1> SUFFICES ASSUME TypeOK, ResultOfTask, [Next]_vars
             PROVE  ResultOfTask'
  OBVIOUS
<1> USE DEF ResultOfTask
<1>1. ASSUME NEW w \in Workers, PopTask(w) PROVE ResultOfTask'
  BY <1>1 DEF PopTask, TypeOK
<1>2. ASSUME NEW w \in Workers, OperateOnCache(w) PROVE ResultOfTask'
  <2>1. running[w] \in Tasks
    BY <1>2 DEF OperateOnCache, TypeOK
  <2>2. running[w].func \in {"put", "get", "del"}
    BY <2>1, TaskFields
  <2> QED BY <1>2, <2>2 DEF OperateOnCache, TypeOK
<1>3. ASSUME NEW w \in Workers, PushResult(w) PROVE ResultOfTask'
  BY <1>3 DEF PushResult, TypeOK
<1>4. ASSUME UNCHANGED <<running, result>> PROVE ResultOfTask'
  BY <1>4
<1>5. CASE Main
  BY <1>4, <1>5 DEF Main, Accept, EpollWait, EndBatch, ReadEof, TakeResult, Handle,
     HandleGarbage, HandlePut, HandleGetDel, Reads, poolVars
<1>6. ASSUME NEW c \in Clients, Client(c) PROVE ResultOfTask'
  BY <1>4, <1>6 DEF Client, Connect, Send, Close, poolVars
<1>7. CASE UNCHANGED vars
  BY <1>4, <1>7 DEF vars, poolVars
<1> QED BY <1>1, <1>2, <1>3, <1>5, <1>6, <1>7 DEF Next, Worker

TypeInv == TypeOK /\ ServingEvent /\ ResultOfTask

LEMMA TypeInvInit == Init => TypeInv
<1> SUFFICES ASSUME Init PROVE TypeInv
  OBVIOUS
<1>1. EmptyMap \in [Keys -> Values \cup {Empty}]
  BY DEF EmptyMap
<1>2. TypeOK
  BY <1>1, EventsAssumption DEF Init, TypeOK
<1> QED BY <1>2 DEF TypeInv, Init, ServingEvent, ResultOfTask

(* Every behaviour of the server is well typed: in particular the loop's     *)
(* index and the event count never leave the array epoll_wait filled.        *)
THEOREM TypeCorrect == Spec => []TypeOK
<1>1. TypeInv /\ [Next]_vars => TypeInv'
  BY TypeStep, ServingStep, ResultStep DEF TypeInv
<1>2. TypeInv => TypeOK
  BY DEF TypeInv
<1> QED BY <1>1, <1>2, TypeInvInit, PTL DEF Spec

-----------------------------------------------------------------------------
(* Why a result meets its own client.  The main thread queues a get or a del *)
(* and then does nothing but wait, so at any time at most one of them is     *)
(* anywhere in the pool: in the queue (where it is the last task), with a    *)
(* worker, or in the output queue.                                           *)
IsRead(t) == t.func \in {"get", "del"}

Waits(fd) == pc = "result" /\ fd = batch[i]

ReadsQueued == \E n \in 1 .. Len(queue) : IsRead(queue[n])

ReadsRunning == \E w \in Workers : running[w] # None /\ IsRead(running[w])

QueuedRead ==
  \A n \in 1 .. Len(queue) : IsRead(queue[n]) => n = Len(queue) /\ Waits(queue[n].fd)

RunningRead ==
  \A w \in Workers : running[w] # None /\ IsRead(running[w]) =>
    /\ Waits(running[w].fd)
    /\ ~ReadsQueued
    /\ \A v \in Workers : running[v] # None /\ IsRead(running[v]) => v = w

OutputRead ==
  /\ ReadsQueued \/ ReadsRunning => output = <<>>
  /\ output # <<>> => Len(output) = 1 /\ Waits(Head(output).fd)

OneRead == QueuedRead /\ RunningRead /\ OutputRead

\* Nothing the pool has is touched, and the main thread stays where it is.
LEMMA OneReadFrame ==
  ASSUME OneRead, UNCHANGED <<queue, running, output>>,
         pc = "result" => UNCHANGED <<pc, batch, i>>
  PROVE  OneRead'
BY DEF OneRead, QueuedRead, RunningRead, OutputRead, ReadsQueued, ReadsRunning, Waits, IsRead

LEMMA OneReadQueue ==
  ASSUME OneRead, TypeOK, NEW c \in Clients, NEW r \in Requests, r.func # "garbage",
         pc = "serve", queue' = Append(queue, Task(c, r)),
         UNCHANGED <<running, output, batch>>,
         IsRead(r) => pc' = "result" /\ UNCHANGED i /\ c = batch[i]
  PROVE  OneRead'
<1> USE DEF Waits
<1>1. ~ReadsQueued /\ ~ReadsRunning /\ output = <<>>
  BY DEF OneRead, QueuedRead, RunningRead, OutputRead, ReadsQueued, ReadsRunning
<1>2. Task(c, r) \in Tasks /\ queue \in Seq(Tasks)
  BY TaskOfRequest DEF TypeOK
<1>3. /\ Len(queue') = Len(queue) + 1 /\ Len(queue) \in Nat
      /\ \A n \in 1 .. Len(queue) : queue'[n] = queue[n]
      /\ queue'[Len(queue) + 1] = Task(c, r)
  BY <1>2, AppendProperties, LenProperties
<1>4. Task(c, r).fd = c /\ Task(c, r).func = r.func
  BY DEF Task
<1>5. QueuedRead'
  BY <1>1, <1>3, <1>4 DEF QueuedRead, ReadsQueued, IsRead
<1>6. ~ReadsRunning' /\ output' = <<>>
  BY <1>1 DEF ReadsRunning, IsRead
<1>7. RunningRead'
  BY <1>6 DEF RunningRead, ReadsRunning
<1>8. OutputRead'
  BY <1>6 DEF OutputRead
<1> QED BY <1>5, <1>7, <1>8 DEF OneRead

LEMMA OneReadPop ==
  ASSUME OneRead, TypeOK, NEW w \in Workers, PopTask(w)
  PROVE  OneRead'
<1> USE DEF Waits, IsRead
<1>1. /\ queue \in Seq(Tasks) /\ queue # <<>> /\ running[w] = None
      /\ queue' = Tail(queue) /\ running' = [running EXCEPT ![w] = queue[1]]
      /\ UNCHANGED <<output, pc, batch, i>>
  BY HeadTailProperties DEF PopTask, TypeOK, loopVars
<1>2. /\ Len(queue') = Len(queue) - 1 /\ Len(queue) \in Nat \ {0}
      /\ \A n \in 1 .. Len(queue') : queue'[n] = queue[n + 1]
  BY <1>1, HeadTailProperties, LenProperties, EmptySeq
<1>3. running \in [Workers -> Tasks \cup {None}]
  BY DEF TypeOK
<1>4. /\ running'[w] = queue[1]
      /\ \A v \in Workers : v # w => running'[v] = running[v]
  BY <1>1, <1>3
<1>5. QueuedRead'
  <2> SUFFICES ASSUME NEW n \in 1 .. Len(queue'), IsRead(queue'[n])
               PROVE  n = Len(queue') /\ Waits(queue[n].fd)'
    BY DEF QueuedRead
  <2>1. n + 1 \in 1 .. Len(queue) /\ queue'[n] = queue[n + 1]
    BY <1>2
  <2>2. n + 1 = Len(queue) /\ Waits(queue[n + 1].fd)
    BY <2>1 DEF OneRead, QueuedRead
  <2>3. n = Len(queue')
    BY <1>2, <2>2
  <2>4. pc' = "result" /\ queue'[n].fd = batch'[i']
    BY <1>1, <2>1, <2>2
  <2> QED BY <2>3, <2>4
<1>6. CASE IsRead(queue[1])
  <2>1. Len(queue) = 1 /\ Waits(queue[1].fd) /\ ReadsQueued
    BY <1>2, <1>6 DEF OneRead, QueuedRead, ReadsQueued
  <2>2. ~ReadsRunning /\ output = <<>>
    BY <2>1 DEF OneRead, RunningRead, OutputRead, ReadsRunning
  <2>3. ~ReadsQueued'
    BY <1>2, <2>1 DEF ReadsQueued
  <2>4. RunningRead'
    BY <1>1, <1>4, <2>1, <2>2, <2>3 DEF RunningRead, ReadsRunning
  <2>5. OutputRead'
    BY <1>1, <2>2 DEF OutputRead
  <2> QED BY <1>5, <2>4, <2>5 DEF OneRead
<1>7. CASE ~IsRead(queue[1])
  <2>1. ReadsQueued' => ReadsQueued
    BY <1>2 DEF ReadsQueued
  <2>2. ReadsRunning' => ReadsRunning
    BY <1>4, <1>7 DEF ReadsRunning
  <2>3. RunningRead'
    BY <1>1, <1>4, <1>7, <2>1 DEF OneRead, RunningRead
  <2>4. OutputRead'
    BY <1>1, <2>1, <2>2 DEF OneRead, OutputRead
  <2> QED BY <1>5, <2>3, <2>4 DEF OneRead
<1> QED BY <1>6, <1>7

LEMMA OneReadOperate ==
  ASSUME OneRead, TypeOK, NEW w \in Workers, OperateOnCache(w)
  PROVE  OneRead'
<1> USE DEF Waits, IsRead
<1>1. /\ UNCHANGED <<queue, output, pc, batch, i>>
      /\ \A v \in Workers : running'[v] = running[v] \/ running'[v] = None
  BY DEF OperateOnCache, TypeOK, loopVars
<1>2. (ReadsQueued' <=> ReadsQueued) /\ (ReadsRunning' => ReadsRunning)
  BY <1>1 DEF ReadsQueued, ReadsRunning
<1>3. QueuedRead'
  BY <1>1 DEF OneRead, QueuedRead
<1>4. RunningRead'
  BY <1>1, <1>2 DEF OneRead, RunningRead
<1>5. OutputRead'
  BY <1>1, <1>2 DEF OneRead, OutputRead
<1> QED BY <1>3, <1>4, <1>5 DEF OneRead

LEMMA OneReadPush ==
  ASSUME OneRead, TypeOK, ResultOfTask, NEW w \in Workers, PushResult(w)
  PROVE  OneRead'
<1> USE DEF Waits, IsRead
<1> DEFINE answer == [fd |-> running[w].fd, value |-> result[w]]
<1>1. /\ running[w] # None /\ IsRead(running[w])
      /\ output' = Append(output, answer)
      /\ running' = [running EXCEPT ![w] = None]
      /\ UNCHANGED <<queue, pc, batch, i>>
  BY DEF PushResult, ResultOfTask, loopVars
<1>2. Waits(running[w].fd) /\ ~ReadsQueued /\ ReadsRunning /\ output = <<>>
  BY <1>1 DEF OneRead, RunningRead, OutputRead, ReadsRunning
<1>3. ~ReadsQueued'
  BY <1>1, <1>2 DEF ReadsQueued
<1>4. ~ReadsRunning'
  BY <1>1 DEF OneRead, RunningRead, ReadsRunning, TypeOK
<1>5. Len(output') = 1 /\ Head(output') = answer
  BY <1>1, <1>2
<1>6. QueuedRead'
  BY <1>1 DEF OneRead, QueuedRead
<1>7. RunningRead'
  BY <1>4 DEF RunningRead, ReadsRunning
<1>8. OutputRead'
  BY <1>1, <1>2, <1>3, <1>4, <1>5 DEF OutputRead
<1> QED BY <1>6, <1>7, <1>8 DEF OneRead

LEMMA OneReadTake ==
  ASSUME OneRead, TypeOK, TakeResult
  PROVE  OneRead'
<1>1. /\ output # <<>> /\ output \in Seq([fd : Clients, value : Values \cup {Empty, Success}])
      /\ output' = Tail(output)
      /\ UNCHANGED <<queue, running>>
  BY DEF TakeResult, TypeOK
<1>2. ~ReadsQueued /\ ~ReadsRunning /\ Len(output) = 1
  BY <1>1 DEF OneRead, OutputRead
<1>3. output' = <<>>
  BY <1>1, <1>2, HeadTailProperties, EmptySeq
<1>4. ~ReadsQueued' /\ ~ReadsRunning'
  BY <1>1, <1>2 DEF ReadsQueued, ReadsRunning
<1> QED
  BY <1>3, <1>4 DEF OneRead, QueuedRead, RunningRead, OutputRead, ReadsQueued, ReadsRunning

LEMMA OneReadStep == TypeOK /\ ResultOfTask /\ OneRead /\ [Next]_vars => OneRead'
<1> SUFFICES ASSUME TypeOK, ResultOfTask, OneRead, [Next]_vars
             PROVE  OneRead'
  OBVIOUS
<1>1. ASSUME NEW c \in Clients, Client(c) PROVE OneRead'
  BY <1>1, OneReadFrame DEF Client, Connect, Send, Close, loopVars, poolVars
<1>2. CASE Accept \/ EpollWait \/ EndBatch \/ ReadEof
  BY <1>2, OneReadFrame DEF Accept, EpollWait, EndBatch, ReadEof, poolVars
<1>3. CASE TakeResult
  BY <1>3, OneReadTake
<1>4. ASSUME NEW c \in Clients, HandleGarbage(c) PROVE OneRead'
  BY <1>4, OneReadFrame DEF HandleGarbage, Reads, poolVars
<1>5. ASSUME NEW c \in Clients, HandlePut(c) PROVE OneRead'
  <2>1. inbox[c] \in Requests
    BY <1>5 DEF HandlePut, Reads, TypeOK
  <2> QED
    BY <1>5, <2>1, OneReadQueue DEF HandlePut, Reads, AddTaskToQueue, IsRead
<1>6. ASSUME NEW c \in Clients, HandleGetDel(c) PROVE OneRead'
  <2>1. inbox[c] \in Requests
    BY <1>6 DEF HandleGetDel, Reads, TypeOK
  <2> QED
    BY <1>6, <2>1, OneReadQueue DEF HandleGetDel, Reads, AddTaskToQueue, IsRead
<1>7. ASSUME NEW w \in Workers, Worker(w) PROVE OneRead'
  BY <1>7, OneReadPop, OneReadOperate, OneReadPush DEF Worker
<1>8. CASE UNCHANGED vars
  BY <1>8, OneReadFrame DEF vars, loopVars, poolVars
<1> QED
  BY <1>1, <1>2, <1>3, <1>4, <1>5, <1>6, <1>7, <1>8 DEF Next, Main, Handle

(* Whatever the number of threads in the pool, getResults can only return    *)
(* the answer of the very client that is being served (Server.cpp:124-149).  *)
THEOREM ResultsMeetTheirClient == Spec => []DirectHit
<1> DEFINE Inv == TypeInv /\ OneRead
<1>1. Init => Inv
  <2>1. Init => OneRead
    BY DEF Init, OneRead, QueuedRead, RunningRead, OutputRead, ReadsQueued, ReadsRunning
  <2> QED BY <2>1, TypeInvInit
<1>2. Inv /\ [Next]_vars => Inv'
  BY TypeStep, ServingStep, ResultStep, OneReadStep DEF TypeInv
<1>3. Inv => DirectHit
  <2> SUFFICES ASSUME Inv PROVE DirectHit
    OBVIOUS
  <2>1. CASE output = <<>>
    BY <2>1 DEF DirectHit
  <2>2. CASE output # <<>>
    <3>1. Len(output) = 1 /\ Waits(Head(output).fd)
      BY <2>2 DEF OneRead, OutputRead
    <3>2. pc = "result" => i <= nfds
      BY DEF TypeInv, ServingEvent
    <3>3. Len(output) <= 1
      BY <3>1
    <3> QED BY <3>1, <3>2, <3>3 DEF Waits, DirectHit
  <2> QED BY <2>1, <2>2
<1> QED BY <1>1, <1>2, <1>3, PTL DEF Spec
-----------------------------------------------------------------------------
(* Why the loop never blocks in a read.  Events of the batch not served yet, *)
(* and those on the ready list, are of clients with something to read; no    *)
(* client has two of them, so serving one takes nothing from another.        *)
Readable(c) == inbox[c] # None \/ eof[c]

Unserved(n) == n \in 1 .. nfds /\ \/ pc = "serve" /\ n >= i
                                  \/ pc = "result" /\ n > i

EventsReadable ==
  /\ \A c \in ready : Readable(c)
  /\ \A n \in 1 .. nfds : Unserved(n) => Readable(batch[n]) /\ batch[n] \notin ready

EventsDistinct == \A n, m \in 1 .. nfds : batch[n] = batch[m] => n = m

(* A client whose request is not read, or not answered, sends no other.      *)
ClientsWait ==
  /\ \A c \in Clients : inbox[c] # None => awaiting[c] # None
  /\ pc = "result" => inbox[batch[i]] = None /\ awaiting[batch[i]] # None

OneEvent == EventsReadable /\ EventsDistinct /\ ClientsWait

LEMMA OneEventClient ==
  ASSUME TypeInv, OneEvent, NEW c \in Clients, Client(c)
  PROVE  OneEvent'
<1> USE DEF TypeInv, TypeOK, loopVars, OneEvent
<1>1. CASE Connect(c)
  BY <1>1 DEF Connect, EventsReadable, EventsDistinct, ClientsWait, Readable, Unserved
<1>2. CASE Send(c)
  <2>1. /\ inbox' = [inbox EXCEPT ![c] = inbox'[c]] /\ inbox'[c] # None
        /\ awaiting' = [awaiting EXCEPT ![c] = awaiting'[c]] /\ awaiting'[c] # None
    BY <1>2, NoneAssumption DEF Send
  <2>2. inbox[c] = None /\ ~eof[c] /\ awaiting[c] = None
    BY <1>2 DEF Send, ClientsWait
  <2>3. UNCHANGED <<eof, pc, batch, nfds, i>> /\ ready' \subseteq ready \cup {c}
    BY <1>2 DEF Send, Raise
  <2>4. \A d \in Clients : Readable(d) => Readable(d)'
    BY <2>1, <2>2, <2>3 DEF Readable
  <2>5. \A n \in 1 .. nfds : batch[n] \in Clients
    OBVIOUS
  <2>6. EventsReadable'
    <3>1. \A d \in ready' : Readable(d)'
      BY <2>1, <2>3, <2>4 DEF EventsReadable, Readable
    <3>2. ASSUME NEW n \in 1 .. nfds, Unserved(n)'
          PROVE  Readable(batch[n])' /\ batch[n] \notin ready'
      <4>1. Unserved(n)
        BY <2>3, <3>2 DEF Unserved
      <4>2. Readable(batch[n]) /\ batch[n] \notin ready /\ batch[n] \in Clients
        BY <2>5, <4>1 DEF EventsReadable
      <4>3. batch[n] # c
        BY <2>2, <4>2 DEF Readable
      <4> QED BY <2>3, <2>4, <4>2, <4>3
    <3> QED BY <2>3, <3>1, <3>2 DEF EventsReadable
  <2>7. ClientsWait'
    <3>1. pc' = "result" => batch[i] \in Clients
      BY <2>3, LenProperties DEF ServingEvent
    <3> QED BY <2>1, <2>2, <2>3, <3>1 DEF ClientsWait
  <2> QED BY <2>3, <2>6, <2>7 DEF EventsDistinct
<1>3. CASE Close(c)
  <2>1. eof' = [eof EXCEPT ![c] = TRUE] /\ UNCHANGED <<inbox, awaiting, pc, batch, nfds, i>>
    BY <1>3 DEF Close
  <2>2. inbox[c] = None /\ ~eof[c] /\ ready' \subseteq ready \cup {c}
    BY <1>3 DEF Close, Raise, ClientsWait
  <2>3. \A d \in Clients : Readable(d) => Readable(d)'
    BY <2>1, <2>2 DEF Readable
  <2>4. \A n \in 1 .. nfds : batch[n] \in Clients
    OBVIOUS
  <2>5. EventsReadable'
    BY <2>1, <2>2, <2>3, <2>4 DEF EventsReadable, Unserved, Readable
  <2> QED BY <2>1, <2>5 DEF EventsDistinct, ClientsWait
<1> QED BY <1>1, <1>2, <1>3 DEF Client

LEMMA OneEventWait ==
  ASSUME TypeInv, OneEvent, EpollWait
  PROVE  OneEvent'
<1>1. PICK b \in Batches(ready) :
        batch' = b /\ nfds' = Len(b) /\ ready' = ready \ {b[n] : n \in 1 .. Len(b)}
  BY DEF EpollWait
<1>2. /\ \A n \in 1 .. Len(b) : b[n] \in ready
      /\ \A n, m \in 1 .. Len(b) : b[n] = b[m] => n = m
  <2> DEFINE k == IF Cardinality(ready) < MaxEvents THEN Cardinality(ready) ELSE MaxEvents
  <2>1. b \in [1 .. k -> ready] /\ \A n, m \in 1 .. k : b[n] = b[m] => n = m
    BY DEF Batches
  <2>2. k \in Nat
    <3>1. Cardinality(ready) \in Nat
      BY ClientsAssumption, FS_Subset, FS_CardinalityType DEF TypeInv, TypeOK
    <3> QED BY <3>1, EventsAssumption
  <2> HIDE DEF k
  <2>3. Len(b) = k
    BY <2>1, <2>2
  <2> QED BY <2>1, <2>3
<1>3. pc' = "serve" /\ UNCHANGED <<inbox, eof, awaiting>>
  BY DEF EpollWait, clientVars
<1>4. EventsReadable'
  BY <1>1, <1>2, <1>3 DEF OneEvent, EventsReadable, Readable
<1>5. EventsDistinct'
  BY <1>1, <1>2 DEF EventsDistinct
<1> QED BY <1>3, <1>4, <1>5 DEF OneEvent, ClientsWait

LEMMA OneEventHandle ==
  ASSUME TypeInv, OneEvent, NEW c \in Clients, Handle(c)
  PROVE  OneEvent'
<1> USE DEF TypeInv, TypeOK
<1>1. /\ pc = "serve" /\ i \in 1 .. nfds /\ batch[i] = c /\ inbox[c] # None
      /\ inbox' = [inbox EXCEPT ![c] = None]
      /\ UNCHANGED <<eof, ready, batch, nfds>>
  BY LenProperties DEF Handle, HandleGarbage, HandlePut, HandleGetDel, Reads
<1>2. \/ pc' = "serve" /\ i' = i + 1 /\ awaiting' = [awaiting EXCEPT ![c] = None]
      \/ pc' = "result" /\ i' = i /\ awaiting' = awaiting
  BY <1>1 DEF Handle, HandleGarbage, HandlePut, HandleGetDel, Reads, Answer
<1>3. c \notin ready /\ awaiting[c] # None
  BY <1>1 DEF OneEvent, EventsReadable, ClientsWait, Unserved
<1>4. \A n \in 1 .. nfds : Unserved(n)' => Unserved(n) /\ n # i
  BY <1>1, <1>2 DEF Unserved
<1>5. \A n \in 1 .. nfds : n # i => batch[n] # c
  BY <1>1 DEF OneEvent, EventsDistinct
<1>6. \A d : d # c /\ Readable(d) => Readable(d)'
  BY <1>1 DEF Readable
<1>7. EventsReadable'
  BY <1>1, <1>3, <1>4, <1>5, <1>6 DEF OneEvent, EventsReadable
<1>8. ClientsWait'
  BY <1>1, <1>2, <1>3 DEF OneEvent, ClientsWait
<1> QED BY <1>1, <1>7, <1>8 DEF OneEvent, EventsDistinct

LEMMA OneEventTake ==
  ASSUME TypeInv, OneRead, OneEvent, TakeResult
  PROVE  OneEvent'
<1> USE DEF TypeInv, TypeOK
<1>1. pc = "result" /\ i \in 1 .. nfds /\ Head(output).fd = batch[i]
  BY DEF TakeResult, OneRead, OutputRead, Waits, ServingEvent
<1>2. /\ pc' = "serve" /\ i' = i + 1 /\ awaiting' = [awaiting EXCEPT ![batch[i]] = None]
      /\ UNCHANGED <<inbox, eof, ready, batch, nfds>>
  BY <1>1 DEF TakeResult, Answer
<1>3. \A n \in 1 .. nfds : Unserved(n)' => Unserved(n)
  BY <1>1, <1>2 DEF Unserved
<1>4. EventsReadable'
  BY <1>2, <1>3 DEF OneEvent, EventsReadable, Readable
<1>5. ClientsWait'
  BY <1>1, <1>2 DEF OneEvent, ClientsWait
<1> QED BY <1>2, <1>4, <1>5 DEF OneEvent, EventsDistinct

LEMMA OneEventStep == TypeInv /\ OneRead /\ OneEvent /\ [Next]_vars => OneEvent'
<1> SUFFICES ASSUME TypeInv, OneRead, OneEvent, [Next]_vars
             PROVE  OneEvent'
  OBVIOUS
<1>0. ASSUME UNCHANGED <<inbox, eof, awaiting, batch, nfds, ready>>,
             (pc' = pc /\ i' = i) \/ pc' \notin {"serve", "result"}
      PROVE  OneEvent'
  BY <1>0 DEF OneEvent, EventsReadable, EventsDistinct, ClientsWait, Readable, Unserved
<1>1. ASSUME NEW c \in Clients, Client(c) PROVE OneEvent'
  BY <1>1, OneEventClient
<1>2. CASE Accept
  <2>1. /\ pc' = "wait" /\ UNCHANGED <<inbox, eof, awaiting, batch, nfds>>
        /\ \A c \in ready' : c \in ready \/ Readable(c)
    BY <1>2 DEF Accept, Readable
  <2> QED BY <2>1 DEF OneEvent, EventsReadable, EventsDistinct, ClientsWait, Readable, Unserved
<1>3. CASE EpollWait
  BY <1>3, OneEventWait
<1>4. CASE EndBatch
  BY <1>0, <1>4 DEF EndBatch, clientVars
<1>5. CASE ReadEof
  <2>1. /\ nfds' = nfds - 1 /\ nfds \in Nat
        /\ UNCHANGED <<inbox, eof, awaiting, batch, ready, pc, i>>
    BY <1>5, LenProperties DEF ReadEof, clientVars, TypeInv, TypeOK
  <2> QED BY <2>1 DEF OneEvent, EventsReadable, EventsDistinct, ClientsWait, Readable, Unserved
<1>6. CASE TakeResult
  BY <1>6, OneEventTake
<1>7. ASSUME NEW c \in Clients, Handle(c) PROVE OneEvent'
  BY <1>7, OneEventHandle
<1>8. ASSUME NEW w \in Workers, Worker(w) PROVE OneEvent'
  BY <1>0, <1>8 DEF Worker, PopTask, OperateOnCache, PushResult, clientVars, loopVars
<1>9. CASE UNCHANGED vars
  BY <1>0, <1>9 DEF vars, clientVars, loopVars
<1> QED
  BY <1>1, <1>2, <1>3, <1>4, <1>5, <1>6, <1>7, <1>8, <1>9 DEF Next, Main

(* However many clients send and close, and however events are batched, the  *)
(* main thread reads only what is there to read (Server.cpp:118-154).        *)
THEOREM NeverBlocksInRead == Spec => []NoBlockedRead
<1> DEFINE Inv == TypeInv /\ OneRead /\ OneEvent
<1>1. Init => Inv
  <2>1. Init => OneRead
    BY DEF Init, OneRead, QueuedRead, RunningRead, OutputRead, ReadsQueued, ReadsRunning
  <2>2. Init => OneEvent
    BY DEF Init, OneEvent, EventsReadable, EventsDistinct, ClientsWait
  <2> QED BY <2>1, <2>2, TypeInvInit
<1>2. Inv /\ [Next]_vars => Inv'
  BY TypeStep, ServingStep, ResultStep, OneReadStep, OneEventStep DEF TypeInv
<1>3. Inv => NoBlockedRead
  BY DEF TypeInv, TypeOK, OneEvent, EventsReadable, Unserved, Readable, NoBlockedRead
<1> QED BY <1>1, <1>2, <1>3, PTL DEF Spec
-----------------------------------------------------------------------------
(* Order with one worker.  The map that serving the requests in order would  *)
(* have produced is the store after the task at hand and the queued ones: of *)
(* each key, the value is that of the last queued task that writes it.       *)
Writes(t, k) == t.func # "get" /\ t.key = k

Soon(w) == IF running[w] # None /\ result[w] = None THEN Effect(store, running[w]) ELSE store

LastWrite(n, k) ==
  Writes(queue[n], k) /\ \A m \in 1 .. Len(queue) : m > n => ~Writes(queue[m], k)

InOrder(w) ==
  \A k \in Keys :
    /\ \A n \in 1 .. Len(queue) : LastWrite(n, k) => expected[k] = queue[n].value
    /\ (\A n \in 1 .. Len(queue) : ~Writes(queue[n], k)) => expected[k] = Soon(w)[k]

(* A get or a del is the last task there is, and is that of the request the  *)
(* main thread waits for; what a get has returned is still in the store.     *)
Asks(t) == t.func = current.func /\ t.key = current.key

ReadIsLast(w) ==
  /\ \A n \in 1 .. Len(queue) : IsRead(queue[n]) => Asks(queue[n])
  /\ running[w] # None /\ IsRead(running[w]) => queue = <<>> /\ Asks(running[w])
  /\ result[w] # None /\ running[w].func = "get" => result[w] = store[running[w].key]
  /\ output # <<>> =>
       /\ queue = <<>> /\ running[w] = None
       /\ current.func = "get" => Head(output).value = store[current.key]

LEMMA EffectAt ==
  ASSUME NEW m \in [Keys -> Values \cup {Empty}], NEW t, NEW k \in Keys
  PROVE  Effect(m, t)[k] = IF Writes(t, k) THEN t.value ELSE m[k]
BY DEF Effect, Writes

\* Nothing the pool has is touched, and the main thread stays where it is.
LEMMA OrderFrame ==
  ASSUME NEW w, UNCHANGED <<queue, running, result, output, store, expected, current>>
  PROVE  (InOrder(w) => InOrder(w)') /\ (ReadIsLast(w) => ReadIsLast(w)')
BY DEF InOrder, ReadIsLast, Soon, LastWrite, Writes, Effect, Asks, IsRead

LEMMA OrderQueue ==
  ASSUME TypeInv, OneRead, NEW w \in Workers, InOrder(w), ReadIsLast(w),
         NEW c \in Clients, NEW r \in Requests, r.func # "garbage",
         pc = "serve", AddTaskToQueue(c, r), UNCHANGED <<running, result, output, store>>,
         current' = IF IsRead(r) THEN r ELSE current
  PROVE  InOrder(w)' /\ ReadIsLast(w)'
<1> USE DEF TypeInv, TypeOK
<1>1. Task(c, r) \in Tasks /\ r.key \in Keys /\ r.value \in Values \cup {Empty}
  BY TaskOfRequest DEF Requests
<1>2. /\ Len(queue') = Len(queue) + 1 /\ Len(queue) \in Nat
      /\ \A n \in 1 .. Len(queue) : queue'[n] = queue[n]
      /\ queue'[Len(queue) + 1] = Task(c, r)
  BY <1>1, AppendProperties, LenProperties DEF AddTaskToQueue
<1>3. Soon(w)' = Soon(w)
  BY DEF Soon, Effect
<1>4. \A k \in Keys : /\ Writes(Task(c, r), k) <=> Writes(r, k)
                      /\ expected'[k] = IF Writes(r, k) THEN r.value ELSE expected[k]
  BY EffectAt DEF AddTaskToQueue, Task, Writes
<1>5. ASSUME NEW k \in Keys
      PROVE  /\ \A n \in 1 .. Len(queue') : LastWrite(n, k)' => expected'[k] = queue'[n].value
             /\ (\A n \in 1 .. Len(queue') : ~Writes(queue'[n], k)) => expected'[k] = Soon(w)[k]
  <2>1. CASE Writes(r, k)
    <3>1. Writes(queue'[Len(queue')], k) /\ expected'[k] = r.value
      BY <1>2, <1>4, <2>1
    <3>2. queue'[Len(queue')].value = r.value /\ Len(queue') \in 1 .. Len(queue')
      BY <1>2 DEF Task
    <3>3. ASSUME NEW n \in 1 .. Len(queue'), LastWrite(n, k)' PROVE n = Len(queue')
      <4>1. ~(Len(queue') > n)
        BY <3>1, <3>2, <3>3 DEF LastWrite
      <4> QED BY <3>2, <4>1
    <3> QED BY <3>1, <3>2, <3>3
  <2>2. CASE ~Writes(r, k)
    <3>1. ~Writes(queue'[Len(queue) + 1], k) /\ expected'[k] = expected[k]
      BY <1>2, <1>4, <2>2
    <3>2. \A n \in 1 .. Len(queue') : LastWrite(n, k)' => n \in 1 .. Len(queue) /\ LastWrite(n, k)
      BY <1>2, <3>1 DEF LastWrite
    <3>3. \A n \in 1 .. Len(queue) : n \in 1 .. Len(queue')
      BY <1>2
    <3> QED BY <1>2, <3>1, <3>2, <3>3 DEF InOrder
  <2> QED BY <2>1, <2>2
<1>6. InOrder(w)'
  BY <1>3, <1>5 DEF InOrder
<1>7. ~ReadsQueued /\ ~ReadsRunning /\ output = <<>>
  BY DEF OneRead, QueuedRead, RunningRead, OutputRead, ReadsQueued, ReadsRunning, Waits
<1>8. ReadIsLast(w)'
  <2>1. \A n \in 1 .. Len(queue') : IsRead(queue'[n]) => Asks(queue[n])'
    <3> SUFFICES ASSUME NEW n \in 1 .. Len(queue'), IsRead(queue'[n])
                 PROVE  Asks(queue[n])'
      OBVIOUS
    <3>1. n \notin 1 .. Len(queue)
      BY <1>2, <1>7 DEF ReadsQueued
    <3>2. n = Len(queue) + 1 /\ queue'[n] = Task(c, r)
      BY <1>2, <3>1
    <3> QED BY <3>2 DEF Asks, Task, IsRead
  <2>2. ~(running'[w] # None /\ IsRead(running'[w]))
    BY <1>7 DEF ReadsRunning
  <2>3. result'[w] # None /\ running'[w].func = "get" => result'[w] = store'[running'[w].key]
    BY DEF ReadIsLast
  <2>4. output' = <<>>
    BY <1>7
  <2> QED BY <2>1, <2>2, <2>3, <2>4 DEF ReadIsLast
<1> QED BY <1>6, <1>8

LEMMA OrderPop ==
  ASSUME TypeInv, OneRead, NEW w \in Workers, InOrder(w), ReadIsLast(w), PopTask(w)
  PROVE  InOrder(w)' /\ ReadIsLast(w)'
<1> USE DEF TypeInv, TypeOK
<1>1. /\ queue # <<>> /\ running[w] = None /\ result[w] = None /\ output = <<>>
      /\ queue' = Tail(queue) /\ running'[w] = queue[1]
      /\ UNCHANGED <<result, output, store, expected, current>>
  BY HeadTailProperties DEF PopTask, loopVars, ResultOfTask, ReadIsLast
<1>2. /\ Len(queue') = Len(queue) - 1 /\ Len(queue) \in Nat \ {0}
      /\ \A n \in 1 .. Len(queue') : queue'[n] = queue[n + 1] /\ n + 1 \in 1 .. Len(queue)
  BY <1>1, HeadTailProperties, LenProperties, EmptySeq
<1>3. queue[1] \in Tasks /\ queue[1] # None
  BY <1>2, NoneAssumption, ElementOfSeq
<1>4. Soon(w) = store /\ Soon(w)' = Effect(store, queue[1])
  BY <1>1, <1>3 DEF Soon, Effect
<1>5. ASSUME NEW k \in Keys
      PROVE  /\ \A n \in 1 .. Len(queue') : LastWrite(n, k)' => expected[k] = queue'[n].value
             /\ (\A n \in 1 .. Len(queue') : ~Writes(queue'[n], k))
                  => expected[k] = Effect(store, queue[1])[k]
  <2>1. ASSUME NEW n \in 1 .. Len(queue'), LastWrite(n, k)'
        PROVE  expected[k] = queue'[n].value
    <3>1. \A m \in 1 .. Len(queue) : m > n + 1 => m - 1 \in 1 .. Len(queue') /\ m - 1 > n
      BY <1>2
    <3>2. ASSUME NEW m \in 1 .. Len(queue), m > n + 1 PROVE ~Writes(queue[m], k)
      <4>1. m - 1 \in 1 .. Len(queue') /\ m - 1 > n /\ queue'[m - 1] = queue[m]
        BY <1>2, <3>1, <3>2
      <4> QED BY <2>1, <4>1 DEF LastWrite
    <3>3. n + 1 \in 1 .. Len(queue) /\ LastWrite(n + 1, k)
      BY <1>2, <2>1, <3>2 DEF LastWrite
    <3>4. \A m \in 1 .. Len(queue) : LastWrite(m, k) => expected[k] = queue[m].value
      BY ZenonT(30) DEF InOrder
    <3>5. expected[k] = queue[n + 1].value
      <4> HIDE DEF TypeInv, TypeOK
      <4> QED BY <3>3, <3>4
    <3>6. queue'[n] = queue[n + 1]
      BY <1>2
    <3> QED BY <3>5, <3>6
  <2>2. ASSUME \A n \in 1 .. Len(queue') : ~Writes(queue'[n], k)
        PROVE  expected[k] = Effect(store, queue[1])[k]
    <3>1. \A m \in 1 .. Len(queue) : m > 1 => ~Writes(queue[m], k)
      <4> SUFFICES ASSUME NEW m \in 1 .. Len(queue), m > 1 PROVE ~Writes(queue[m], k)
        OBVIOUS
      <4>1. m - 1 \in 1 .. Len(queue') /\ queue'[m - 1] = queue[m]
        BY <1>2
      <4> QED BY <2>2, <4>1
    <3>2. Effect(store, queue[1])[k] = IF Writes(queue[1], k) THEN queue[1].value ELSE store[k]
      BY EffectAt
    <3>3. CASE Writes(queue[1], k)
      <4>1. 1 \in 1 .. Len(queue) /\ LastWrite(1, k)
        BY <1>2, <3>1, <3>3 DEF LastWrite
      <4> QED BY <3>2, <3>3, <4>1 DEF InOrder
    <3>4. CASE ~Writes(queue[1], k)
      <4>1. \A m \in 1 .. Len(queue) : ~Writes(queue[m], k)
        BY <1>2, <3>1, <3>4
      <4>2. expected[k] = Soon(w)[k]
        BY <4>1 DEF InOrder
      <4> QED BY <1>4, <3>2, <3>4, <4>2
    <3> QED BY <3>3, <3>4
  <2> QED BY <2>1, <2>2
<1>6. InOrder(w)'
  BY <1>1, <1>4, <1>5 DEF InOrder
<1>7. ReadIsLast(w)'
  <2>1. \A n \in 1 .. Len(queue') : IsRead(queue'[n]) => Asks(queue[n])'
    BY <1>1, <1>2 DEF ReadIsLast, Asks
  <2>2. ASSUME IsRead(queue[1]) PROVE queue' = <<>> /\ Asks(running[w])'
    <3>1. 1 \in 1 .. Len(queue)
      BY <1>2
    <3>2. Len(queue) = 1
      BY <2>2, <3>1 DEF OneRead, QueuedRead
    <3>3. queue' = <<>>
      BY <1>1, <1>2, <3>2, HeadTailProperties, EmptySeq
    <3> QED BY <1>1, <2>2, <3>1, <3>3 DEF ReadIsLast, Asks
  <2> QED BY <1>1, <2>1, <2>2 DEF ReadIsLast
<1> QED BY <1>6, <1>7

LEMMA OrderOperate ==
  ASSUME TypeInv, NEW w \in Workers, InOrder(w), ReadIsLast(w), OperateOnCache(w)
  PROVE  InOrder(w)' /\ ReadIsLast(w)'
<1> USE DEF TypeInv, TypeOK
<1> DEFINE t == running[w]
<1>1. /\ t # None /\ result[w] = None /\ t \in Tasks /\ output = <<>>
      /\ store' = Effect(store, t)
      /\ UNCHANGED <<queue, output, expected, current>>
  BY DEF OperateOnCache, loopVars, ReadIsLast
<1>2. t.func \in {"put", "get", "del"} /\ t.key \in Keys
  BY <1>1, TaskFields
<1>3. \/ t.func = "put" /\ running'[w] = None /\ result' = result
      \/ /\ t.func # "put" /\ running' = running /\ result'[w] # None
         /\ t.func = "get" => result'[w] = store[t.key]
  <2>1. PICK v \in Returns(t) : IF t.func = "put"
                                THEN running' = [running EXCEPT ![w] = None] /\ UNCHANGED result
                                ELSE result' = [result EXCEPT ![w] = v] /\ UNCHANGED running
    BY DEF OperateOnCache
  <2>2. t.func # "put" => v # None
    <3>1. Returns(t) \subseteq Values \cup {Empty, Success}
      BY <1>2 DEF Returns
    <3> QED BY <3>1, NoneAssumption
  <2>3. t.func = "get" => v = store[t.key]
    BY <2>1 DEF Returns
  <2> QED BY <2>1, <2>2, <2>3
<1>4. Soon(w) = store' /\ Soon(w)' = store'
  BY <1>1, <1>3 DEF Soon
<1>5. InOrder(w)'
  BY <1>1, <1>4 DEF InOrder, LastWrite
<1>6. t.func = "get" => store' = store
  BY <1>1 DEF Effect
<1>7. ReadIsLast(w)'
  BY <1>1, <1>3, <1>6 DEF ReadIsLast, Asks, IsRead
<1> QED BY <1>5, <1>7

LEMMA OrderPush ==
  ASSUME TypeInv, OneRead, NEW w \in Workers, InOrder(w), ReadIsLast(w), PushResult(w)
  PROVE  InOrder(w)' /\ ReadIsLast(w)'
<1> USE DEF TypeInv, TypeOK
<1> DEFINE answer == [fd |-> running[w].fd, value |-> result[w]]
<1>1. /\ result[w] # None /\ running[w] # None /\ IsRead(running[w])
      /\ output' = Append(output, answer)
      /\ running'[w] = None /\ result'[w] = None
      /\ UNCHANGED <<queue, store, expected, current>>
  BY DEF PushResult, loopVars, ResultOfTask, IsRead
<1>2. InOrder(w)'
  BY <1>1 DEF InOrder, LastWrite, Soon
<1>3. queue = <<>> /\ Asks(running[w])
  BY <1>1 DEF ReadIsLast
<1>4. output = <<>>
  BY <1>1 DEF OneRead, OutputRead, ReadsRunning
<1>5. Head(output').value = result[w]
  BY <1>1, <1>4
<1>6. current.func = "get" => result[w] = store[current.key]
  BY <1>1, <1>3 DEF ReadIsLast, Asks
<1>7. \A n \in 1 .. Len(queue') : IsRead(queue'[n]) => Asks(queue[n])'
  BY <1>1 DEF ReadIsLast, Asks
<1>8. ReadIsLast(w)'
  BY <1>1, <1>3, <1>5, <1>6, <1>7 DEF ReadIsLast
<1> QED BY <1>2, <1>8

LEMMA OrderTake ==
  ASSUME TypeInv, OneRead, NEW w \in Workers, InOrder(w), ReadIsLast(w), TakeResult
  PROVE  InOrder(w)' /\ ReadIsLast(w)'
<1>1. /\ output # <<>> /\ output \in Seq([fd : Clients, value : Values \cup {Empty, Success}])
      /\ output' = Tail(output) /\ Len(output) = 1
      /\ UNCHANGED <<queue, running, result, store, expected>>
  BY DEF TakeResult, TypeInv, TypeOK, OneRead, OutputRead
<1>2. output' = <<>>
  BY <1>1, HeadTailProperties, EmptySeq
<1>3. queue = <<>> /\ running[w] = None
  BY <1>1 DEF ReadIsLast
<1>4. Len(queue) = 0
  BY <1>3
<1>5. InOrder(w)'
  BY <1>1 DEF InOrder, Soon, LastWrite, Writes, Effect
<1>6. ReadIsLast(w)'
  BY <1>1, <1>2, <1>3, <1>4 DEF ReadIsLast
<1> QED BY <1>5, <1>6

LEMMA OrderStep ==
  ASSUME NEW w, Workers = {w}, TypeInv, OneRead, InOrder(w), ReadIsLast(w), [Next]_vars
  PROVE  InOrder(w)' /\ ReadIsLast(w)'
<1>1. ASSUME NEW c \in Clients, Client(c) PROVE InOrder(w)' /\ ReadIsLast(w)'
  BY <1>1, OrderFrame DEF Client, Connect, Send, Close, loopVars, poolVars
<1>2. CASE Accept \/ EpollWait \/ EndBatch \/ ReadEof
  BY <1>2, OrderFrame DEF Accept, EpollWait, EndBatch, ReadEof, poolVars
<1>3. CASE TakeResult
  BY <1>3, OrderTake
<1>4. ASSUME NEW c \in Clients, HandleGarbage(c) PROVE InOrder(w)' /\ ReadIsLast(w)'
  BY <1>4, OrderFrame DEF HandleGarbage, Reads, poolVars
<1>5. ASSUME NEW c \in Clients, HandlePut(c) \/ HandleGetDel(c)
      PROVE  InOrder(w)' /\ ReadIsLast(w)'
  <2>1. /\ inbox[c] \in Requests /\ inbox[c].func # "garbage" /\ pc = "serve"
        /\ AddTaskToQueue(c, inbox[c]) /\ UNCHANGED <<running, result, output, store>>
        /\ current' = IF IsRead(inbox[c]) THEN inbox[c] ELSE current
    BY <1>5 DEF HandlePut, HandleGetDel, Reads, IsRead, TypeInv, TypeOK
  <2> QED BY <2>1, OrderQueue
<1>6. ASSUME Worker(w) PROVE InOrder(w)' /\ ReadIsLast(w)'
  BY <1>6, OrderPop, OrderOperate, OrderPush DEF Worker
<1>7. CASE UNCHANGED vars
  BY <1>7, OrderFrame DEF vars, loopVars, poolVars
<1> QED
  BY <1>1, <1>2, <1>3, <1>4, <1>5, <1>6, <1>7 DEF Next, Main, Handle

(* With one worker, whatever is acknowledged early, the tasks take effect in *)
(* the order the loop accepted them, and so does what reads return.          *)
LEMMA OrderHolds ==
  ASSUME NEW w, Workers = {w}
  PROVE  Spec => [](TypeInv /\ OneRead /\ InOrder(w) /\ ReadIsLast(w))
<1> DEFINE Inv == TypeInv /\ OneRead /\ InOrder(w) /\ ReadIsLast(w)
<1>1. Init => Inv
  <2> SUFFICES ASSUME Init PROVE Inv
    OBVIOUS
  <2>1. OneRead
    BY DEF Init, OneRead, QueuedRead, RunningRead, OutputRead, ReadsQueued, ReadsRunning
  <2>2. InOrder(w) /\ ReadIsLast(w)
    BY DEF Init, InOrder, ReadIsLast, Soon
  <2> QED BY <2>1, <2>2, TypeInvInit
<1>2. Inv /\ [Next]_vars => Inv'
  BY TypeStep, ServingStep, ResultStep, OneReadStep, OrderStep DEF TypeInv
<1> QED BY <1>1, <1>2, PTL DEF Spec

(* With one worker, once the pool is idle, the map is the one that serving   *)
(* the requests one after the other would have produced.                     *)
THEOREM OneWorkerKeepsOrder ==
  ASSUME NEW w, Workers = {w}
  PROVE  Spec => []DrainedStoreIsExpected
<1> DEFINE Inv == TypeInv /\ OneRead /\ InOrder(w) /\ ReadIsLast(w)
<1>1. Inv => DrainedStoreIsExpected
  <2> SUFFICES ASSUME Inv, queue = <<>>, running[w] = None PROVE store = expected
    BY DEF DrainedStoreIsExpected
  <2>1. \A k \in Keys : expected[k] = store[k]
    BY DEF InOrder, Soon
  <2>2. store \in [Keys -> Values \cup {Empty}] /\ expected \in [Keys -> Values \cup {Empty}]
    BY DEF TypeInv, TypeOK
  <2> QED BY <2>1, <2>2
<1> QED BY <1>1, OrderHolds, PTL

(* With one worker, a get returns what the requests accepted before it have  *)
(* left, although puts are answered before they run                          *)
(* (KVClientHandler.cpp:31-55).                                              *)
THEOREM OneWorkerReadsItsWrites ==
  ASSUME NEW w, Workers = {w}
  PROVE  Spec => []ReadsSeeEarlierWrites
<1> DEFINE Inv == TypeInv /\ OneRead /\ InOrder(w) /\ ReadIsLast(w)
<1>1. Inv => ReadsSeeEarlierWrites
  <2> SUFFICES ASSUME Inv, output # <<>>, current.func = "get"
               PROVE  Head(output).value = expected[current.key]
    BY DEF ReadsSeeEarlierWrites
  <2>1. queue = <<>> /\ running[w] = None /\ Head(output).value = store[current.key]
    BY DEF ReadIsLast
  <2>2. \A k \in Keys : expected[k] = store[k]
    BY <2>1 DEF InOrder, Soon
  <2>3. store = expected
    BY <2>2 DEF TypeInv, TypeOK
  <2> QED BY <2>1, <2>3
<1> QED BY <1>1, OrderHolds, PTL
=============================================================================
