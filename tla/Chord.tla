------------------------------- MODULE Chord -------------------------------
(***************************************************************************)
(* The ring of key-value servers of CS744/Assignment_5: how a node joins   *)
(* through a contact, how lookups travel along the finger tables, how the  *)
(* refresh of the tables runs around the ring, and which node executes a   *)
(* request for a key.                                                      *)
(*                                                                         *)
(* A node is one thread.  It answers the requests it has read one by one,  *)
(* and while it waits for the answer to a request of its own it reads      *)
(* nothing.  Ports and node identifiers are one and the same here.         *)
(***************************************************************************)
EXTENDS Integers, Sequences, FiniteSets

CONSTANTS
    Node,        \* identifiers of the nodes, points of the circle
    Founders,    \* those that may be started without a contact
    Key,         \* keys that clients ask for
    Bits,        \* HASH_SIZE: the circle has 2^Bits points
    Paced,       \* whether a node is only started while the ring is at rest
    MaxLosses,   \* bound: kinds of requests that empty reads lose
    MaxClients,  \* bound: connections of clients
    MaxRequests, \* bound: requests of clients after their first
    MaxHangups   \* bound: closed connections remembered per node

Space == 2^Bits
Points == 0 .. Space - 1
Indices == 0 .. Bits - 1

ASSUME BitsAssumption == Bits \in Nat \ {0}
\* Powers of two are positive and grow, which the provers cannot find out themselves.
ASSUME PowerAssumption ==
    /\ \A i \in 0 .. Bits : 2^i \in Nat \ {0}
    /\ \A i, j \in 0 .. Bits : i < j => 2^i < 2^j
ASSUME NodeAssumption == Founders \subseteq Node /\ Node \subseteq Points
ASSUME BoundsAssumption ==
    /\ Paced \in BOOLEAN
    /\ MaxLosses \in Nat /\ MaxClients \in Nat /\ MaxRequests \in Nat /\ MaxHangups \in Nat

None == -1        \* no node, or no answer

VARIABLES
    status,   \* per node: off, joining (it does not listen yet), up, dead
    pred,     \* predecessor_nodeId
    finger,   \* fingerTable; its entry 0 is the successor
    inbox,    \* requests that wait to be read, in the order of epoll
    task,     \* what the thread of the node is in the middle of
    answer,   \* what has arrived for a node that waits: a set of at most one
    hangups,  \* connections closed by others whose empty read is to come
    sent,     \* how many clients have connected, and have sent again
    served,   \* history: the last request executed since pred changed, if any
    refused,  \* history: whether a connection has been refused
    lost      \* history: the kinds of requests lost to empty reads

ring == <<status, pred, finger>>
net == <<inbox, task, answer, hangups>>
history == <<served, refused, lost>>
vars == <<ring, net, sent, history>>

(* What a thread is doing, which point it looks up on whose behalf, who gets *)
(* the answer, the next finger to renew and the node whose answer it awaits. *)
Task(op, id, source, from) ==
    [op |-> op, id |-> id, source |-> source, from |-> from, next |-> 1, asks |-> None]

Doing(op) == Task(op, None, None, None)
Idle == Doing("idle")
Refresh(source) == Task("fingers", None, source, None)

Request(type, id, source, from) ==
    [type |-> type, id |-> id, source |-> source, from |-> from]

-----------------------------------------------------------------------------
(* Lookup in the own table: find_succ up to the point where it asks another *)
(* node, and closest_prec_node.                                             *)

Succ(n) == finger[n][0]

\* Mutant of Direct: the arc to the successor never passes the point 0.
DirectOnLine(n, id) == id > n /\ id <= Succ(n)

Direct(n, id) == id > n /\ (id <= Succ(n) \/ Succ(n) < n)

Precedes(f, n, id) ==
    \/ f > n /\ f <= id
    \/ id < n /\ f <= id
    \/ id < n /\ f > n

\* Mutant of ClosestIndex: when no finger precedes the point, the last one is taken.
ClosestIndexElseLast(n, id) ==
    LET I == {i \in Indices : Precedes(finger[n][i], n, id)}
    IN  IF I = {} THEN Bits - 1 ELSE CHOOSE i \in I : \A j \in I : j <= i

ClosestIndex(n, id) ==
    LET I == {i \in Indices : Precedes(finger[n][i], n, id)}
    IN  IF I = {} THEN 0 ELSE CHOOSE i \in I : \A j \in I : j <= i

Hop(n, id) == finger[n][ClosestIndex(n, id)]

Local(n, id, source) == Direct(n, id) \/ Hop(n, id) \in {source, n}

LocalSucc(n, id) == IF Direct(n, id) THEN Succ(n) ELSE n

\* Mutant of Start: the sum leaves the circle.
StartOffTheCircle(n, i) == n + 2^i - 1

(* The identifier updateFingers looks up for entry i. *)
Start(n, i) == (n + 2^i - 1) % Space

(* Ownership of a key with hash h, and the test whether the successor owns  *)
(* it: the conditions of start, and over && as in C++.                      *)

\* Mutant of OwnsKey: beyond the point 0 the own identifier is left out.
OwnsKeyBelow(n, p, h) ==
    \/ h <= n /\ h > p
    \/ h >= n /\ h > p /\ n <= p
    \/ h < n /\ h < p /\ n <= p

OwnsKey(n, p, h) ==
    \/ h <= n /\ h > p
    \/ h >= n /\ h > p /\ n <= p
    \/ h <= n /\ h < p /\ n <= p

ToSuccessor(n, s, h) ==
    \/ h > n /\ h <= s
    \/ h > n /\ h >= s /\ n >= s
    \/ h <= s /\ h < n /\ n >= s

(* What key_hash holds.  The stream it is to be read from was used for the  *)
(* identifier of the node, is at its end since and never cleared: nothing   *)
(* is written to it or read from it any more, and key_hash stays what it    *)
(* was before, uninitialised.  Space stands for all the larger values.      *)
KeyHashes == Points \cup {Space}

Owned(n) == {h \in KeyHashes : OwnsKey(n, pred[n], h)}
Passed(n) == {h \in KeyHashes : ToSuccessor(n, Succ(n), h)}

-----------------------------------------------------------------------------
Listens(n) == status[n] = "up"

Init ==
    /\ \E first \in Founders :
           status = [n \in Node |-> IF n = first THEN "up" ELSE "off"]
    /\ pred = [n \in Node |-> n]
    /\ finger = [n \in Node |-> [i \in Indices |-> n]]
    /\ inbox = [n \in Node |-> <<>>]
    /\ task = [n \in Node |-> Idle]
    /\ answer = [n \in Node |-> {}]
    /\ hangups = [n \in Node |-> 0]
    /\ sent = [clients |-> 0, again |-> 0]
    /\ served = {}
    /\ refused = FALSE
    /\ lost = {}

OneMore(h) == IF h < MaxHangups THEN h + 1 ELSE h

(* An answer reaches the node that waits for it; the empty answer is never  *)
(* sent, for write sends no bytes of an empty string.                       *)
Answered(n, to, v) ==
    IF to \in Node /\ v # None /\ task[to].asks = n
    THEN [answer EXCEPT ![to] = {v}] ELSE answer

(* exit, or an exception nobody catches.  Those who wait for the node read  *)
(* the end of the connection; the sockets of find_succ were never closed.   *)
Dies(n) ==
    /\ status' = [status EXCEPT ![n] = "dead"]
    /\ task' = [task EXCEPT ![n] = Idle]
    /\ inbox' = [inbox EXCEPT ![n] = <<>>]
    /\ answer' = [m \in Node |->
           IF m = n THEN {}
           ELSE IF task[m].asks = n /\ answer[m] = {} THEN {None} ELSE answer[m]]
    /\ hangups' = [m \in Node |->
           IF m # n /\ Listens(m) THEN OneMore(hangups[m]) ELSE hangups[m]]
    /\ refused' = TRUE
    /\ UNCHANGED <<pred, finger, served, lost>>

(* The node connects to another and waits for the answer. *)
Asks(n, box, d, type, t) ==
    /\ inbox' = [box EXCEPT ![d] = Append(@, Request(type, t.id, t.source, n))]
    /\ task' = [task EXCEPT ![n] = [t EXCEPT !.asks = d]]

(* It connects, writes and closes. *)
Tells(n, d, type, source) ==
    /\ inbox' = [inbox EXCEPT ![d] = Append(@, Request(type, source, source, n))]
    /\ hangups' = [hangups EXCEPT ![d] = OneMore(@)]

(* The batch of events ends, and k requests with it. *)
LosesBatch(n, box, k) ==
    /\ inbox' = [box EXCEPT ![n] = SubSeq(@, k + 1, Len(@))]
    /\ lost' = lost \cup {box[n][j].type : j \in 1 .. k}
    /\ Cardinality(lost') <= MaxLosses

-----------------------------------------------------------------------------
(* Requests of other nodes, read by the loop of start.                      *)

Reads(n, type) ==
    /\ Listens(n)
    /\ task[n].op = "idle"
    /\ inbox[n] # <<>>
    /\ Head(inbox[n]).type = type

Rest(n) == [inbox EXCEPT ![n] = Tail(@)]

TellSucc(n) ==
    /\ Reads(n, "TELL_SUCC")
    /\ inbox' = Rest(n)
    /\ answer' = Answered(n, Head(inbox[n]).from, Succ(n))
    /\ UNCHANGED <<ring, task, hangups, history>>

TellPred(n) ==
    /\ Reads(n, "TELL_PRED")
    /\ inbox' = Rest(n)
    /\ answer' = Answered(n, Head(inbox[n]).from, pred[n])
    /\ UNCHANGED <<ring, task, hangups, history>>

SetSucc(n) ==
    /\ Reads(n, "SET_SUCC")
    /\ inbox' = Rest(n)
    /\ finger' = [finger EXCEPT ![n][0] = Head(inbox[n]).source]
    /\ UNCHANGED <<status, pred, task, answer, hangups, history>>

SetPred(n) ==
    /\ Reads(n, "SET_PRED")
    /\ inbox' = Rest(n)
    /\ pred' = [pred EXCEPT ![n] = Head(inbox[n]).source]
    /\ served' = {}
    /\ UNCHANGED <<status, finger, task, answer, hangups, refused, lost>>

(* find_succ answers from the own table or asks the closest preceding node. *)
(* When nobody listens there, no answer is sent at all.                     *)
FindSucc(n) ==
    /\ Reads(n, "FIND_SUCC")
    /\ LET m == Head(inbox[n])
           hop == Hop(n, m.id)
       IN  \/ /\ Local(n, m.id, m.source)
              /\ answer' = Answered(n, m.from, LocalSucc(n, m.id))
              /\ inbox' = Rest(n)
              /\ UNCHANGED <<task, refused>>
           \/ /\ ~Local(n, m.id, m.source)
              /\ Listens(hop)
              /\ Asks(n, Rest(n), hop, "FIND_SUCC",
                      Task("find_succ", m.id, m.source, m.from))
              /\ UNCHANGED <<answer, refused>>
           \/ /\ ~Local(n, m.id, m.source)
              /\ ~Listens(hop)
              /\ inbox' = Rest(n)
              /\ refused' = TRUE
              /\ UNCHANGED <<task, answer>>
    /\ UNCHANGED <<ring, hangups, served, lost>>

(* find_pred, once the successor s is known: the own predecessor, or that   *)
(* of s.  When nobody listens there, no answer is sent.                     *)
PredOf(n, s, t, box) ==
    /\ \/ /\ s = n
          /\ answer' = [Answered(n, t.from, pred[n]) EXCEPT ![n] = {}]
          /\ inbox' = box
          /\ task' = [task EXCEPT ![n] = Idle]
          /\ UNCHANGED refused
       \/ /\ s # n /\ Listens(s)
          /\ Asks(n, box, s, "TELL_PRED", [t EXCEPT !.op = "tell_pred"])
          /\ answer' = [answer EXCEPT ![n] = {}]
          /\ UNCHANGED refused
       \/ /\ s # n /\ ~Listens(s)
          /\ inbox' = box
          /\ task' = [task EXCEPT ![n] = Idle]
          /\ answer' = [answer EXCEPT ![n] = {}]
          /\ refused' = TRUE
    /\ UNCHANGED <<ring, hangups, served, lost>>

(* An empty answer of find_succ is parsed, which throws. *)
FindPred(n) ==
    /\ Reads(n, "FIND_PRED")
    /\ LET m == Head(inbox[n])
           hop == Hop(n, m.id)
           t == Task("find_pred", m.id, m.source, m.from)
       IN  \/ /\ Local(n, m.id, m.source)
              /\ PredOf(n, LocalSucc(n, m.id), t, Rest(n))
           \/ /\ ~Local(n, m.id, m.source)
              /\ Listens(hop)
              /\ Asks(n, Rest(n), hop, "FIND_SUCC", t)
              /\ UNCHANGED <<ring, answer, hangups, history>>
           \/ /\ ~Local(n, m.id, m.source)
              /\ ~Listens(hop)
              /\ Dies(n)

\* Mutant of FindFinger: the refresh is passed on, the own table stays as it is.
FindFingerPassesOn(n) ==
    /\ Reads(n, "FIND_FINGER")
    /\ inbox' = Rest(n)
    /\ task' = IF Head(inbox[n]).source = n THEN task
               ELSE [task EXCEPT ![n] =
                       [Refresh(Head(inbox[n]).source) EXCEPT !.next = Bits]]
    /\ UNCHANGED <<ring, answer, hangups, history>>

\* Mutant of FindFinger: a refresh does not end where it started.
FindFingerNoEnd(n) ==
    /\ Reads(n, "FIND_FINGER")
    /\ inbox' = Rest(n)
    /\ task' = [task EXCEPT ![n] = Refresh(Head(inbox[n]).source)]
    /\ UNCHANGED <<ring, answer, hangups, history>>

(* A refresh that has come back to the node that started it ends.           *)
FindFinger(n) ==
    /\ Reads(n, "FIND_FINGER")
    /\ inbox' = Rest(n)
    /\ task' = IF Head(inbox[n]).source = n THEN task
               ELSE [task EXCEPT ![n] = Refresh(Head(inbox[n]).source)]
    /\ UNCHANGED <<ring, answer, hangups, history>>

(* A closed connection reads as empty, and the batch gets shorter by one    *)
(* while the index stays: the requests behind it in the batch are lost.  An *)
(* empty read with nothing behind it changes nothing.                       *)
EmptyRead(n) ==
    /\ Listens(n)
    /\ task[n].op = "idle"
    /\ hangups[n] > 0
    /\ \E k \in 1 .. Len(inbox[n]) : LosesBatch(n, inbox, k)
    /\ hangups' = [hangups EXCEPT ![n] = @ - 1]
    /\ UNCHANGED <<ring, task, answer, served, refused>>

-----------------------------------------------------------------------------
(* Requests for keys.  When the node does not execute one it does not       *)
(* advance in the batch either, and reads the same connection again: that   *)
(* of another node is closed, that of a client is open and the read blocks. *)

ReadsAgain(n, from, box) ==
    \/ /\ from = None
       /\ inbox' = box
       /\ task' = [task EXCEPT ![n] = Doing("read_client")]
       /\ UNCHANGED lost
    \/ /\ from # None
       /\ \E k \in 0 .. Len(box[n]) : LosesBatch(n, box, k)
       /\ UNCHANGED task

(* A client that no longer listens for its answer ends the node.            *)
ExecuteKey(n) ==
    /\ Reads(n, "KEY")
    /\ Owned(n) # {}
    /\ \/ /\ inbox' = Rest(n)
          /\ served' = {[node |-> n, key |-> Head(inbox[n]).id]}
          /\ UNCHANGED <<ring, task, answer, hangups, refused, lost>>
       \/ Dies(n)

ForwardKey(n) ==
    /\ Reads(n, "KEY")
    /\ Passed(n) \ Owned(n) # {}
    /\ LET s == Succ(n)
           m == Head(inbox[n])
       IN  \/ /\ Listens(s)
              /\ ReadsAgain(n, m.from,
                     [Rest(n) EXCEPT ![s] = Append(@, Request("KEY", m.id, None, n))])
              /\ hangups' = [hangups EXCEPT ![s] = OneMore(@)]
              /\ UNCHANGED <<ring, answer, served, refused>>
           \/ ~Listens(s) /\ Dies(n)

(* forward computes an identifier and sends nothing. *)
DropKey(n) ==
    /\ Reads(n, "KEY")
    /\ KeyHashes \ (Owned(n) \cup Passed(n)) # {}
    /\ ReadsAgain(n, Head(inbox[n]).from, Rest(n))
    /\ UNCHANGED <<ring, answer, hangups, served, refused>>

-----------------------------------------------------------------------------
(* Answers to requests of the own.                                          *)

Gets(n, op, v) == task[n].op = op /\ answer[n] = {v}

SuccFound(n, v) ==
    /\ Gets(n, "find_succ", v)
    /\ answer' = [Answered(n, task[n].from, v) EXCEPT ![n] = {}]
    /\ task' = [task EXCEPT ![n] = Idle]
    /\ UNCHANGED <<ring, inbox, hangups, history>>

SuccOfFound(n, v) ==
    /\ Gets(n, "find_pred", v)
    /\ IF v = None THEN Dies(n) ELSE PredOf(n, v, task[n], inbox)

PredFound(n, v) ==
    /\ Gets(n, "tell_pred", v)
    /\ answer' = [Answered(n, task[n].from, v) EXCEPT ![n] = {}]
    /\ task' = [task EXCEPT ![n] = Idle]
    /\ UNCHANGED <<ring, inbox, hangups, history>>

-----------------------------------------------------------------------------
(* updateFingers and the request that goes on to the successor: of a node   *)
(* that joins (fixFingers), and of one that serves FIND_FINGER.             *)

Renews(n) == task[n].op = "fingers" /\ task[n].next < Bits
Looks(n) == Renews(n) /\ task[n].asks = None

Renewed(t) == [t EXCEPT !.next = @ + 1, !.asks = None]

FingerLocal(n) ==
    /\ Looks(n)
    /\ LET id == Start(n, task[n].next)
       IN  /\ Local(n, id, n)
           /\ finger' = [finger EXCEPT ![n][task[n].next] = LocalSucc(n, id)]
    /\ task' = [task EXCEPT ![n] = Renewed(@)]
    /\ UNCHANGED <<status, pred, inbox, answer, hangups, history>>

FingerAsk(n) ==
    /\ Looks(n)
    /\ LET id == Start(n, task[n].next)
           hop == Hop(n, id)
       IN  /\ ~Local(n, id, n)
           /\ \/ /\ Listens(hop)
                 /\ inbox' = [inbox EXCEPT ![hop] =
                                 Append(@, Request("FIND_SUCC", id, n, n))]
                 /\ task' = [task EXCEPT ![n].asks = hop]
                 /\ UNCHANGED <<ring, answer, hangups, history>>
              \/ ~Listens(hop) /\ Dies(n)

FingerFound(n, v) ==
    /\ Renews(n)
    /\ Gets(n, "fingers", v)
    /\ IF v = None THEN Dies(n)
       ELSE /\ finger' = [finger EXCEPT ![n][task[n].next] = v]
            /\ task' = [task EXCEPT ![n] = Renewed(@)]
            /\ answer' = [answer EXCEPT ![n] = {}]
            /\ UNCHANGED <<status, pred, inbox, hangups, history>>

PassRefreshOn(n) ==
    /\ task[n].op = "fingers"
    /\ task[n].next = Bits
    /\ \/ /\ Listens(Succ(n))
          /\ Tells(n, Succ(n), "FIND_FINGER", task[n].source)
          /\ task' = [task EXCEPT ![n] =
                 IF status[n] = "joining" THEN Doing("listen") ELSE Idle]
          /\ UNCHANGED <<ring, answer, history>>
       \/ ~Listens(Succ(n)) /\ Dies(n)

-----------------------------------------------------------------------------
(* init of a node that is given a contact: makeContact, fixFingers, listen. *)

AtRest ==
    \A n \in Node : status[n] # "joining" /\ task[n] = Idle /\ inbox[n] = <<>>

Join(n, c) ==
    /\ status[n] = "off"
    /\ Listens(c)
    /\ Paced => AtRest
    /\ status' = [status EXCEPT ![n] = "joining"]
    /\ Asks(n, inbox, c, "FIND_PRED",
            Task("ask_pred", n, n, None))
    /\ UNCHANGED <<pred, finger, answer, hangups, history>>

LearnPred(n, p) ==
    /\ Gets(n, "ask_pred", p)
    /\ IF p = None \/ ~Listens(p) THEN Dies(n)
       ELSE /\ pred' = [pred EXCEPT ![n] = p]
            /\ served' = {}
            /\ hangups' = [hangups EXCEPT ![task[n].asks] = OneMore(@)]
            /\ Asks(n, inbox, p, "TELL_SUCC", [task[n] EXCEPT !.op = "ask_succ"])
            /\ answer' = [answer EXCEPT ![n] = {}]
            /\ UNCHANGED <<status, finger, refused, lost>>

(* The buffer of the first answer is used again: when the second is empty,  *)
(* the first is read once more.                                             *)
LearnSucc(n, s) ==
    /\ Gets(n, "ask_succ", s)
    /\ finger' = [finger EXCEPT ![n][0] = IF s = None THEN pred[n] ELSE s]
    /\ IF Listens(pred[n]) THEN Tells(n, pred[n], "SET_SUCC", n)
                           ELSE UNCHANGED <<inbox, hangups>>
    /\ task' = [task EXCEPT ![n] = Doing("link_succ")]
    /\ answer' = [answer EXCEPT ![n] = {}]
    /\ UNCHANGED <<status, pred, history>>

LinkSucc(n) ==
    /\ task[n].op = "link_succ"
    /\ \/ /\ Listens(Succ(n))
          /\ Tells(n, Succ(n), "SET_PRED", n)
          /\ task' = [task EXCEPT ![n] = Refresh(n)]
          /\ UNCHANGED <<ring, answer, history>>
       \/ ~Listens(Succ(n)) /\ Dies(n)

Listen(n) ==
    /\ task[n].op = "listen"
    /\ status' = [status EXCEPT ![n] = "up"]
    /\ task' = [task EXCEPT ![n] = Idle]
    /\ UNCHANGED <<pred, finger, inbox, answer, hangups, history>>

-----------------------------------------------------------------------------
(* Clients.  One whose request is not executed by the node it is connected  *)
(* to can send another on the same connection, or close it.                 *)

Connect(n, k) ==
    /\ Listens(n)
    /\ sent.clients < MaxClients
    /\ sent' = [sent EXCEPT !.clients = @ + 1]
    /\ inbox' = [inbox EXCEPT ![n] = Append(@, Request("KEY", k, None, None))]
    /\ UNCHANGED <<ring, task, answer, hangups, history>>

SendAgain(n, k) ==
    /\ task[n].op = "read_client"
    /\ sent.again < MaxRequests
    /\ sent' = [sent EXCEPT !.again = @ + 1]
    /\ inbox' = [inbox EXCEPT ![n] = <<Request("KEY", k, None, None)>> \o @]
    /\ task' = [task EXCEPT ![n] = Idle]
    /\ UNCHANGED <<ring, answer, hangups, history>>

CloseClient(n) ==
    /\ task[n].op = "read_client"
    /\ task' = [task EXCEPT ![n] = Idle]
    /\ \E k \in 0 .. Len(inbox[n]) : LosesBatch(n, inbox, k)
    /\ UNCHANGED <<ring, answer, hangups, sent, served, refused>>

-----------------------------------------------------------------------------
Serve(n) ==
    \/ TellSucc(n) \/ TellPred(n) \/ SetSucc(n) \/ SetPred(n)
    \/ FindSucc(n) \/ FindPred(n) \/ FindFinger(n)
    \/ ExecuteKey(n) \/ ForwardKey(n) \/ DropKey(n)

UpdateFingers(n) ==
    \/ FingerLocal(n) \/ FingerAsk(n) \/ PassRefreshOn(n)
    \/ \E v \in Node \cup {None} : FingerFound(n, v)

Lookup(n) == \E v \in Node \cup {None} :
    SuccFound(n, v) \/ SuccOfFound(n, v) \/ PredFound(n, v)

MakeContact(n) ==
    \/ \E v \in Node \cup {None} : LearnPred(n, v) \/ LearnSucc(n, v)
    \/ LinkSucc(n) \/ Listen(n)

Runs(n) == (Serve(n) \/ UpdateFingers(n) \/ Lookup(n) \/ MakeContact(n))
           /\ UNCHANGED sent

Next ==
    \/ \E n \in Node : Runs(n)
    \/ \E n \in Node : EmptyRead(n) /\ UNCHANGED sent
    \/ \E n, c \in Node : Join(n, c) /\ UNCHANGED sent
    \/ \E n \in Node, k \in Key : Connect(n, k) \/ SendAgain(n, k)
    \/ \E n \in Node : CloseClient(n)

Spec == Init /\ [][Next]_vars

(* Each node is a thread that the operating system schedules. *)
FairSpec == Spec /\ \A n \in Node : WF_vars(Runs(n))

-----------------------------------------------------------------------------
(* Properties                                                               *)

Status == {"off", "joining", "up", "dead"}
Questions == {"FIND_SUCC", "FIND_PRED", "TELL_SUCC", "TELL_PRED"}
Orders == {"SET_SUCC", "SET_PRED", "FIND_FINGER"}
Types == Questions \cup Orders \cup {"KEY"}
Operations == {"idle", "find_succ", "find_pred", "tell_pred", "fingers",
               "ask_pred", "ask_succ", "link_succ", "listen", "read_client"}

Requests ==
    [type : Questions \cup Orders, id : Points, source : Node, from : Node]
    \cup [type : {"KEY"}, id : Key, source : {None}, from : Node \cup {None}]

Tasks == [op : Operations, id : Points \cup {None}, source : Node \cup {None},
          from : Node \cup {None}, next : 1 .. Bits, asks : Node \cup {None}]

(* Every pointer, address in a request and address of an answer names a     *)
(* node, every identifier looked up is a point of the circle, and a node in *)
(* the middle of a lookup or a refresh knows on whose behalf.               *)
TypeOK ==
    /\ status \in [Node -> Status]
    /\ pred \in [Node -> Node]
    /\ finger \in [Node -> [Indices -> Node]]
    /\ inbox \in [Node -> Seq(Requests)]
    /\ task \in [Node -> Tasks]
    /\ \A n \in Node :
          /\ task[n].op = "fingers" => task[n].source \in Node
          /\ task[n].op \in {"find_pred", "ask_pred"} =>
                task[n].source \in Node /\ task[n].id \in Points
    /\ answer \in [Node -> SUBSET (Node \cup {None})]
    /\ hangups \in [Node -> 0 .. MaxHangups]
    /\ sent \in [clients : 0 .. MaxClients, again : 0 .. MaxRequests]
    /\ served \subseteq [node : Node, key : Key]
    /\ refused \in BOOLEAN
    /\ lost \subseteq Types

Members == {n \in Node : status[n] = "up"}
NobodyDead == \A n \in Node : status[n] # "dead"
Linked == lost \cap {"SET_SUCC", "SET_PRED"} = {}

Distance(a, b) == (b - a) % Space

(* The first member that follows point p on the circle, p itself included.  *)
Owner(p) ==
    CHOOSE m \in Members : \A x \in Members : Distance(p, m) <= Distance(p, x)

NextMember(n) == Owner((n + 1) % Space)
Smallest == CHOOSE m \in Members : \A x \in Members : m <= x

(* When the ring is at rest, the successors and the predecessors of its     *)
(* members are those of the one sorted circle of all members: each node     *)
(* found its place although lookups run over tables that are out of date,   *)
(* and nothing but a dead node or a lost SET_SUCC or SET_PRED undoes it.    *)
OneRing ==
    AtRest /\ NobodyDead /\ Linked
       => \A n \in Members :
             Succ(n) = NextMember(n) /\ pred[NextMember(n)] = n

(* One refresh per join, which uses the tables it renews, is enough: at     *)
(* rest each finger is the owner of the point it stands for.  The lookups   *)
(* go astray for the points up to the smallest member, and for those where  *)
(* a member sits.                                                           *)
FingersRight ==
    AtRest /\ NobodyDead /\ lost = {}
       => \A n \in Members, i \in Indices \ {0} :
             Start(n, i) > Smallest /\ Start(n, i) \notin Members
                => finger[n][i] = Owner(Start(n, i))

Waiting == {n \in Node : task[n].asks # None /\ answer[n] = {}}
AsksFor(n) == IF task[n].op = "fingers" THEN Start(n, task[n].next) ELSE task[n].id
Jams == {S \in SUBSET Waiting : S # {} /\ \A n \in S : task[n].asks \in S}

(* Nodes that wait read nothing, so nodes can wait for each other for ever. *)
(* When they do, one of them looks up a point up to the smallest member, or *)
(* a point where a member sits: all other lookups end.                      *)
JamsOnlyBelowSmallest ==
    Paced /\ ~refused /\ lost = {} =>
       \A S \in Jams : \E n \in S :
          AsksFor(n) <= Smallest \/ AsksFor(n) \in Members

Calm ==
    \A n \in Node :
       /\ status[n] # "joining"
       /\ \A j \in 1 .. Len(inbox[n]) : inbox[n][j].type \notin {"SET_SUCC", "SET_PRED"}

(* While no node is on its way into the ring, each hash has one node that   *)
(* executes the requests for it, the first at or after it on the circle:    *)
(* each node decides from its own predecessor only.  The one hash without a *)
(* node is that of a node that is alone.                                    *)
OneOwner ==
    Calm /\ NobodyDead /\ Linked =>
       \A n \in Members, h \in KeyHashes :
          Members # {n} \/ h # n => (OwnsKey(n, pred[n], h) <=> n = Owner(h % Space))

(* "Key on same node": as long as no predecessor changes, the requests for  *)
(* a key are all executed on one node.                                      *)
KeyOnSameNode ==
    [][\A e \in served, f \in served' : e.key = f.key => e.node = f.node]_served

Blocked ==
    \/ refused \/ lost # {}
    \/ Jams # {}
    \/ \E n \in Node : task[n].op = "read_client"

NoRefresh ==
    \A n \in Node :
       /\ task[n].op # "fingers"
       /\ \A j \in 1 .. Len(inbox[n]) : inbox[n][j].type # "FIND_FINGER"

(* A refresh does not run around the ring for ever: again and again none is *)
(* under way.  Excused (Blocked) are runs in which nodes wait for each      *)
(* other or for a client, and also all those in which a connection was ever *)
(* refused or a request lost in a batch: of these nothing is said.          *)
RefreshEnds == []<>(NoRefresh \/ Blocked)
=============================================================================
