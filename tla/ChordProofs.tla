---------------------------- MODULE ChordProofs ----------------------------
(***************************************************************************)
(* Proofs about Chord for every set of nodes and every size of the circle: *)
(* type correctness, and that the test by which a node claims a hash for   *)
(* itself divides the circle among the members without gap or overlap, as  *)
(* soon as every member knows its predecessor.                             *)
(***************************************************************************)
EXTENDS Chord, SequenceTheorems, WellFoundedInduction, TLAPS

LEMMA SpaceType == Space \in Nat \ {0}
BY PowerAssumption, BitsAssumption DEF Space

LEMMA NodesOnCircle == Node \subseteq Points /\ Points \subseteq Nat /\ None \notin Points
BY SpaceType, NodeAssumption DEF Points, None

LEMMA LeastNatural ==
    ASSUME NEW T, T \subseteq Nat, T # {}
    PROVE  \E m \in T : \A k \in T : m <= k
<1>1. PICK m \in T : \A k \in T : <<k, m>> \notin OpToRel(<, Nat)
  BY NatLessThanWellFounded, WFMin
<1>2. \A k \in T : ~(k < m)
  BY <1>1 DEF OpToRel
<1> QED BY <1>2

LEMMA GreatestUpTo ==
    ASSUME NEW b \in Nat, NEW I, I \subseteq 0 .. b, I # {}
    PROVE  \E m \in I : \A k \in I : k <= m
<1> DEFINE T == {b - i : i \in I}
<1>1. T \subseteq Nat /\ T # {}
  <2>1. \A i \in I : i \in 0 .. b /\ b - i \in Nat
    OBVIOUS
  <2>2. PICK i \in I : TRUE
    OBVIOUS
  <2>3. b - i \in T
    BY <2>2
  <2> QED BY <2>1, <2>3
<1>2. PICK t \in T : \A k \in T : t <= k
  BY <1>1, LeastNatural
<1>3. PICK m \in I : t = b - m
  BY <1>2
<1>4. \A k \in I : b - m <= b - k
  BY <1>2, <1>3
<1> QED BY <1>4

-----------------------------------------------------------------------------
(* Types of the helpers.                                                    *)

(* A task of a node that knows what the operation needs. *)
GoodTasks ==
    {t \in Tasks :
       /\ t.op = "fingers" => t.source \in Node
       /\ t.op \in {"find_pred", "ask_pred"} => t.source \in Node /\ t.id \in Points}

Inboxes == [Node -> Seq(Requests)]
Answers == [Node -> SUBSET (Node \cup {None})]

LEMMA TypeOKParts ==
    TypeOK <=> /\ status \in [Node -> Status]
               /\ pred \in [Node -> Node]
               /\ finger \in [Node -> [Indices -> Node]]
               /\ inbox \in Inboxes
               /\ task \in [Node -> GoodTasks]
               /\ answer \in Answers
               /\ hangups \in [Node -> 0 .. MaxHangups]
               /\ sent \in [clients : 0 .. MaxClients, again : 0 .. MaxRequests]
               /\ served \subseteq [node : Node, key : Key]
               /\ refused \in BOOLEAN
               /\ lost \subseteq Types
BY DEF TypeOK, GoodTasks, Inboxes, Answers

LEMMA TypeOKPrimed ==
    TypeOK' <=> /\ status' \in [Node -> Status]
                /\ pred' \in [Node -> Node]
                /\ finger' \in [Node -> [Indices -> Node]]
                /\ inbox' \in Inboxes
                /\ task' \in [Node -> GoodTasks]
                /\ answer' \in Answers
                /\ hangups' \in [Node -> 0 .. MaxHangups]
                /\ sent' \in [clients : 0 .. MaxClients, again : 0 .. MaxRequests]
                /\ served' \subseteq [node : Node, key : Key]
                /\ refused' \in BOOLEAN
                /\ lost' \subseteq Types
BY DEF TypeOK, GoodTasks, Inboxes, Answers

LEMMA IdleType == Idle \in GoodTasks
BY BitsAssumption DEF Idle, Doing, Task, GoodTasks, Tasks, Operations

(* The tasks that actions begin. *)
LEMMA LookupTask ==
    ASSUME NEW op \in {"find_succ", "find_pred", "ask_pred"}, NEW id \in Points,
           NEW source \in Node, NEW from \in Node \cup {None}
    PROVE  LET t == Task(op, id, source, from)
           IN  t \in GoodTasks /\ t.id = id /\ t.source = source
BY BitsAssumption DEF Task, GoodTasks, Tasks, Operations

LEMMA PlainTask ==
    ASSUME NEW op \in {"idle", "link_succ", "listen", "read_client"}
    PROVE  Doing(op) \in GoodTasks
BY BitsAssumption DEF Doing, Task, GoodTasks, Tasks, Operations

LEMMA RefreshTask ==
    ASSUME NEW source \in Node
    PROVE  Refresh(source) \in GoodTasks
BY BitsAssumption DEF Refresh, Task, GoodTasks, Tasks, Operations

LEMMA RequestType ==
    ASSUME NEW type \in Questions \cup Orders, NEW id \in Points,
           NEW source \in Node, NEW from \in Node
    PROVE  Request(type, id, source, from) \in Requests
BY DEF Request, Requests

LEMMA KeyRequestType ==
    ASSUME NEW k \in Key, NEW from \in Node \cup {None}
    PROVE  Request("KEY", k, None, from) \in Requests
BY DEF Request, Requests

LEMMA RequestFields ==
    ASSUME NEW m \in Requests
    PROVE  /\ m.type \in Types
           /\ m.from \in Node \cup {None}
           /\ m.type = "KEY" => m.id \in Key
           /\ m.type # "KEY" => m.id \in Points /\ m.source \in Node /\ m.from \in Node
BY DEF Requests, Types, Questions, Orders

LEMMA PostType ==
    ASSUME NEW box \in Inboxes, NEW d \in Node, NEW r \in Requests
    PROVE  [box EXCEPT ![d] = Append(@, r)] \in Inboxes
BY DEF Inboxes

(* What is read from an inbox, and what is left of it. *)
LEMMA ReadType ==
    ASSUME NEW n \in Node, NEW type, inbox \in Inboxes, Reads(n, type)
    PROVE  /\ Head(inbox[n]) \in Requests
           /\ Head(inbox[n]).type = type
           /\ Rest(n) \in Inboxes
           /\ type = "KEY" => Head(inbox[n]).id \in Key
           /\ type # "KEY" => /\ Head(inbox[n]).id \in Points
                              /\ Head(inbox[n]).source \in Node
                              /\ Head(inbox[n]).from \in Node
<1>1. inbox[n] \in Seq(Requests) /\ inbox[n] # <<>> /\ Head(inbox[n]).type = type
  BY DEF Inboxes, Reads
<1>2. Head(inbox[n]) \in Requests /\ Tail(inbox[n]) \in Seq(Requests)
  BY <1>1
<1>3. Rest(n) \in Inboxes
  BY <1>2 DEF Inboxes, Rest
<1> QED BY <1>1, <1>2, <1>3, RequestFields

LEMMA AnsweredType ==
    ASSUME NEW n, NEW to, NEW v \in Node \cup {None}, answer \in Answers
    PROVE  Answered(n, to, v) \in Answers
BY DEF Answered, Answers

LEMMA ClearedType ==
    ASSUME NEW n, NEW a \in Answers
    PROVE  [a EXCEPT ![n] = {}] \in Answers
BY DEF Answers

LEMMA OneMoreType ==
    ASSUME NEW h \in 0 .. MaxHangups
    PROVE  OneMore(h) \in 0 .. MaxHangups
BY BoundsAssumption DEF OneMore

LEMMA HangupsType ==
    ASSUME NEW d, hangups \in [Node -> 0 .. MaxHangups]
    PROVE  [hangups EXCEPT ![d] = OneMore(@)] \in [Node -> 0 .. MaxHangups]
BY OneMoreType

LEMMA TaskFields ==
    ASSUME NEW t \in GoodTasks
    PROVE  /\ t.id \in Points \cup {None} /\ t.source \in Node \cup {None}
           /\ t.from \in Node \cup {None} /\ t.next \in 1 .. Bits
           /\ t.asks \in Node \cup {None}
           /\ t.op = "fingers" => t.source \in Node
           /\ t.op \in {"find_pred", "ask_pred"} => t.source \in Node /\ t.id \in Points
BY DEF GoodTasks, Tasks

(* A lookup in the own table finds a node. *)
LEMMA LookupType ==
    ASSUME NEW n \in Node, NEW id, finger \in [Node -> [Indices -> Node]]
    PROVE  /\ Succ(n) \in Node /\ LocalSucc(n, id) \in Node
           /\ Hop(n, id) \in Node
<1>1. 0 \in Indices
  BY BitsAssumption DEF Indices
<1>2. ClosestIndex(n, id) \in Indices
  <2> DEFINE I == {i \in Indices : Precedes(finger[n][i], n, id)}
  <2>1. CASE I = {}
    BY <2>1, <1>1 DEF ClosestIndex
  <2>2. CASE I # {}
    <3>1. \E i \in I : \A j \in I : j <= i
      <4>1. I \subseteq 0 .. Bits - 1 /\ Bits - 1 \in Nat
        BY BitsAssumption DEF Indices
      <4> HIDE DEF I
      <4> QED BY <4>1, <2>2, GreatestUpTo
    <3> QED BY <3>1, <2>2 DEF ClosestIndex
  <2> QED BY <2>1, <2>2
<1> QED BY <1>1, <1>2 DEF Succ, LocalSucc, Hop

LEMMA StartType ==
    ASSUME NEW n \in Node, NEW i \in 0 .. Bits
    PROVE  Start(n, i) \in Points
<1>1. n + 2^i - 1 \in Int /\ Space \in Nat \ {0}
  BY SpaceType, NodesOnCircle, PowerAssumption, BitsAssumption
<1> QED BY <1>1 DEF Start, Points

(* A node that connects to another and waits for it. *)
LEMMA AsksType ==
    ASSUME NEW n \in Node, NEW box \in Inboxes, NEW d \in Node,
           NEW type \in Questions, NEW t \in GoodTasks,
           t.id \in Points, t.source \in Node,
           task \in [Node -> GoodTasks], Asks(n, box, d, type, t)
    PROVE  inbox' \in Inboxes /\ task' \in [Node -> GoodTasks]
<1>1. Request(type, t.id, t.source, n) \in Requests
  BY RequestType
<1>2. inbox' \in Inboxes
  BY <1>1, PostType DEF Asks
<1>3. [t EXCEPT !.asks = d] \in GoodTasks
  BY DEF GoodTasks, Tasks
<1> QED BY <1>2, <1>3 DEF Asks

LEMMA TellsType ==
    ASSUME NEW n \in Node, NEW d \in Node, NEW type \in Orders, NEW source \in Node,
           inbox \in Inboxes, hangups \in [Node -> 0 .. MaxHangups],
           Tells(n, d, type, source)
    PROVE  inbox' \in Inboxes /\ hangups' \in [Node -> 0 .. MaxHangups]
<1>1. Request(type, source, source, n) \in Requests
  BY RequestType, NodesOnCircle
<1> QED BY <1>1, PostType, HangupsType DEF Tells

LEMMA LosesBatchType ==
    ASSUME NEW n \in Node, NEW box \in Inboxes, NEW k \in 0 .. Len(box[n]),
           lost \subseteq Types, LosesBatch(n, box, k)
    PROVE  inbox' \in Inboxes /\ lost' \subseteq Types
<1>1. box[n] \in Seq(Requests) /\ Len(box[n]) \in Nat
  BY DEF Inboxes
<1>2. SubSeq(box[n], k + 1, Len(box[n])) \in Seq(Requests)
  BY <1>1, SubSeqProperties
<1>3. \A j \in 1 .. k : box[n][j].type \in Types
  BY <1>1, RequestFields
<1> QED BY <1>2, <1>3 DEF LosesBatch, Inboxes

LEMMA DiesType ==
    ASSUME TypeOK, NEW n \in Node, Dies(n), UNCHANGED sent
    PROVE  TypeOK'
<1> USE TypeOKParts
<1>1. status' \in [Node -> Status]
  BY DEF Dies, Status
<1>2. task' \in [Node -> GoodTasks]
  BY IdleType DEF Dies
<1>3. inbox' \in Inboxes
  BY EmptySeq DEF Dies, Inboxes
<1>4. answer' \in Answers
  BY DEF Dies, Answers
<1>5. hangups' \in [Node -> 0 .. MaxHangups]
  BY OneMoreType DEF Dies
<1> QED BY <1>1, <1>2, <1>3, <1>4, <1>5, TypeOKParts, TypeOKPrimed DEF Dies

-----------------------------------------------------------------------------
(* Type correctness, one lemma for each group of actions.                   *)

(* Requests of other nodes that are answered or obeyed at once. *)
LEMMA ObeyType ==
    ASSUME TypeOK, NEW n \in Node, UNCHANGED sent,
           TellSucc(n) \/ TellPred(n) \/ SetSucc(n) \/ SetPred(n) \/ FindFinger(n)
    PROVE  TypeOK'
<1> USE TypeOKParts, TypeOKPrimed
<1>1. CASE TellSucc(n)
  <2>1. Head(inbox[n]) \in Requests /\ Rest(n) \in Inboxes
    BY <1>1, ReadType DEF TellSucc
  <2>2. answer' \in Answers
    BY <1>1, LookupType, AnsweredType DEF TellSucc
  <2> QED BY <1>1, <2>1, <2>2 DEF TellSucc, ring, history
<1>2. CASE TellPred(n)
  <2>1. Head(inbox[n]) \in Requests /\ Rest(n) \in Inboxes
    BY <1>2, ReadType DEF TellPred
  <2>2. answer' \in Answers
    BY <1>2, AnsweredType DEF TellPred
  <2> QED BY <1>2, <2>1, <2>2 DEF TellPred, ring, history
<1>3. CASE SetSucc(n)
  <2>1. Head(inbox[n]).source \in Node /\ Rest(n) \in Inboxes
    BY <1>3, ReadType DEF SetSucc
  <2>2. finger' \in [Node -> [Indices -> Node]]
    BY <1>3, <2>1 DEF SetSucc
  <2> QED BY <1>3, <2>1, <2>2 DEF SetSucc, history
<1>4. CASE SetPred(n)
  <2>1. Head(inbox[n]).source \in Node /\ Rest(n) \in Inboxes
    BY <1>4, ReadType DEF SetPred
  <2> QED BY <1>4, <2>1 DEF SetPred
<1>5. CASE FindFinger(n)
  <2>1. Head(inbox[n]).source \in Node /\ Rest(n) \in Inboxes
    BY <1>5, ReadType DEF FindFinger
  <2>2. Refresh(Head(inbox[n]).source) \in GoodTasks
    BY <2>1, RefreshTask
  <2>3. task' \in [Node -> GoodTasks]
    BY <1>5, <2>2 DEF FindFinger
  <2> QED BY <1>5, <2>1, <2>3 DEF FindFinger, ring, history
<1> QED BY <1>1, <1>2, <1>3, <1>4, <1>5

LEMMA PredOfType ==
    ASSUME TypeOK, NEW n \in Node, NEW s \in Node, NEW t \in GoodTasks,
           t.id \in Points, t.source \in Node, NEW box \in Inboxes,
           PredOf(n, s, t, box), UNCHANGED sent
    PROVE  TypeOK'
<1> USE TypeOKParts, TypeOKPrimed
<1>1. inbox' \in Inboxes /\ task' \in [Node -> GoodTasks]
  <2>1. CASE inbox' = box /\ task' = [task EXCEPT ![n] = Idle]
    BY <2>1, IdleType
  <2>2. CASE Asks(n, box, s, "TELL_PRED", [t EXCEPT !.op = "tell_pred"])
    <3> DEFINE u == [t EXCEPT !.op = "tell_pred"]
    <3>1. u \in GoodTasks /\ u.id \in Points /\ u.source \in Node
      BY DEF GoodTasks, Tasks, Operations
    <3> HIDE DEF u
    <3> QED BY <2>2, <3>1, AsksType DEF Questions, u
  <2> QED BY <2>1, <2>2 DEF PredOf
<1>2. answer' \in Answers
  <2>1. Answered(n, t.from, pred[n]) \in Answers
    BY AnsweredType
  <2>2. CASE answer' = [Answered(n, t.from, pred[n]) EXCEPT ![n] = {}]
    BY <2>1, <2>2, ClearedType
  <2>3. CASE answer' = [answer EXCEPT ![n] = {}]
    BY <2>3, ClearedType
  <2> QED BY <2>2, <2>3 DEF PredOf
<1> QED BY <1>1, <1>2 DEF PredOf, ring

LEMMA FindType ==
    ASSUME TypeOK, NEW n \in Node, UNCHANGED sent, FindSucc(n) \/ FindPred(n)
    PROVE  TypeOK'
<1> USE TypeOKParts, TypeOKPrimed
<1> DEFINE m == Head(inbox[n])
           hop == Hop(n, m.id)
<1>1. /\ m \in Requests /\ Rest(n) \in Inboxes
      /\ m.id \in Points /\ m.source \in Node /\ m.from \in Node
  BY ReadType DEF FindSucc, FindPred
<1>2. hop \in Node /\ LocalSucc(n, m.id) \in Node
  BY LookupType
<1>3. CASE FindSucc(n)
  <2> DEFINE t == Task("find_succ", m.id, m.source, m.from)
  <2>1. t \in GoodTasks /\ t.id \in Points /\ t.source \in Node
    BY <1>1, LookupTask
  <2>2. Answered(n, m.from, LocalSucc(n, m.id)) \in Answers
    BY <1>2, AnsweredType
  <2> HIDE DEF t
  <2>3. Asks(n, Rest(n), hop, "FIND_SUCC", t) =>
           inbox' \in Inboxes /\ task' \in [Node -> GoodTasks]
    BY <1>1, <1>2, <2>1, AsksType DEF Questions
  <2>4. \/ inbox' = Rest(n) /\ task' = task
        \/ Asks(n, Rest(n), hop, "FIND_SUCC", t)
    BY <1>3 DEF FindSucc, t
  <2>5. answer' \in Answers /\ refused' \in BOOLEAN
    BY <1>3, <2>2 DEF FindSucc
  <2> QED BY <1>1, <1>3, <2>3, <2>4, <2>5 DEF FindSucc, ring
<1>4. CASE FindPred(n)
  <2> DEFINE t == Task("find_pred", m.id, m.source, m.from)
  <2>1. t \in GoodTasks /\ t.id \in Points /\ t.source \in Node
    BY <1>1, LookupTask
  <2> HIDE DEF t
  <2>2. CASE PredOf(n, LocalSucc(n, m.id), t, Rest(n))
    BY <1>1, <1>2, <2>1, <2>2, PredOfType
  <2>3. CASE Asks(n, Rest(n), hop, "FIND_SUCC", t) /\ UNCHANGED <<ring, answer, hangups, history>>
    <3>1. inbox' \in Inboxes /\ task' \in [Node -> GoodTasks]
      BY <1>1, <1>2, <2>1, <2>3, AsksType DEF Questions
    <3> QED BY <2>3, <3>1 DEF ring, history
  <2>4. CASE Dies(n)
    BY <2>4, DiesType
  <2> QED BY <1>4, <2>2, <2>3, <2>4 DEF FindPred, t
<1> QED BY <1>3, <1>4

(* Requests for keys. *)
LEMMA ReadsAgainType ==
    ASSUME TypeOK, NEW n \in Node, NEW from, NEW box \in Inboxes, ReadsAgain(n, from, box)
    PROVE  inbox' \in Inboxes /\ task' \in [Node -> GoodTasks] /\ lost' \subseteq Types
<1> USE TypeOKParts
<1>1. Doing("read_client") \in GoodTasks
  BY PlainTask
<1>2. CASE from = None
  <2>1. /\ inbox' = box /\ lost' = lost
        /\ task' = [task EXCEPT ![n] = Doing("read_client")]
    BY <1>2 DEF ReadsAgain
  <2> QED BY <1>1, <2>1
<1>3. CASE from # None
  BY <1>3, LosesBatchType DEF ReadsAgain
<1> QED BY <1>2, <1>3

LEMMA KeyType ==
    ASSUME TypeOK, NEW n \in Node, UNCHANGED sent,
           ExecuteKey(n) \/ ForwardKey(n) \/ DropKey(n)
    PROVE  TypeOK'
<1> USE TypeOKParts, TypeOKPrimed
<1> DEFINE m == Head(inbox[n])
<1>1. m \in Requests /\ Rest(n) \in Inboxes /\ m.id \in Key
  BY ReadType DEF ExecuteKey, ForwardKey, DropKey
<1>2. CASE ExecuteKey(n)
  <2>1. CASE Dies(n)
    BY <2>1, DiesType
  <2>2. CASE ~Dies(n)
    BY <1>1, <1>2, <2>2 DEF ExecuteKey, ring
  <2> QED BY <2>1, <2>2
<1>3. CASE ForwardKey(n)
  <2> DEFINE s == Succ(n)
             box == [Rest(n) EXCEPT ![s] = Append(@, Request("KEY", m.id, None, n))]
  <2>1. CASE Dies(n)
    BY <2>1, DiesType
  <2>2. CASE /\ ReadsAgain(n, m.from, box)
             /\ hangups' = [hangups EXCEPT ![s] = OneMore(@)]
             /\ UNCHANGED <<ring, answer, served, refused>>
    <3>1. box \in Inboxes
      BY <1>1, LookupType, KeyRequestType, PostType
    <3> HIDE DEF box
    <3>2. inbox' \in Inboxes /\ task' \in [Node -> GoodTasks] /\ lost' \subseteq Types
      BY <2>2, <3>1, ReadsAgainType
    <3> QED BY <2>2, <3>2, HangupsType DEF ring
  <2> QED BY <1>3, <2>1, <2>2 DEF ForwardKey
<1>4. CASE DropKey(n)
  <2>1. inbox' \in Inboxes /\ task' \in [Node -> GoodTasks] /\ lost' \subseteq Types
    BY <1>1, <1>4, ReadsAgainType DEF DropKey
  <2> QED BY <1>4, <2>1 DEF DropKey, ring
<1> QED BY <1>2, <1>3, <1>4

(* Answers that have arrived. *)
LEMMA LookupsType ==
    ASSUME TypeOK, NEW n \in Node, NEW v \in Node \cup {None}, UNCHANGED sent,
           SuccFound(n, v) \/ SuccOfFound(n, v) \/ PredFound(n, v)
    PROVE  TypeOK'
<1> USE TypeOKParts, TypeOKPrimed
<1>1. task[n] \in GoodTasks
  OBVIOUS
<1>2. CASE SuccFound(n, v) \/ PredFound(n, v)
  <2>1. Answered(n, task[n].from, v) \in Answers
    BY AnsweredType
  <2>2. answer' \in Answers
    <3>1. answer' = [Answered(n, task[n].from, v) EXCEPT ![n] = {}]
      BY <1>2 DEF SuccFound, PredFound
    <3> HIDE TypeOKParts, TypeOKPrimed
    <3> QED BY <2>1, <3>1, ClearedType
  <2>3. task' \in [Node -> GoodTasks]
    BY <1>2, IdleType DEF SuccFound, PredFound
  <2> QED BY <1>2, <2>2, <2>3 DEF SuccFound, PredFound, ring, history
<1>3. CASE SuccOfFound(n, v)
  <2>1. CASE v = None
    BY <1>3, <2>1, DiesType DEF SuccOfFound
  <2>2. CASE v # None
    <3>1. task[n].id \in Points /\ task[n].source \in Node
      BY <1>1, <1>3, TaskFields DEF SuccOfFound, Gets
    <3> QED BY <1>1, <1>3, <2>2, <3>1, PredOfType DEF SuccOfFound
  <2> QED BY <2>1, <2>2
<1> QED BY <1>2, <1>3

(* The refresh of the finger table. *)
LEMMA NextFinger ==
    ASSUME NEW t \in GoodTasks, t.next < Bits
    PROVE  Renewed(t) \in GoodTasks
<1>1. t \in Tasks /\ t.next + 1 \in 1 .. Bits
  BY BitsAssumption DEF GoodTasks, Tasks
<1> QED BY <1>1 DEF Renewed, GoodTasks, Tasks

LEMMA FingersType ==
    ASSUME TypeOK, NEW n \in Node, NEW v \in Node \cup {None}, UNCHANGED sent,
           FingerLocal(n) \/ FingerAsk(n) \/ PassRefreshOn(n) \/ FingerFound(n, v)
    PROVE  TypeOK'
<1> USE TypeOKParts, TypeOKPrimed
<1>1. task[n] \in GoodTasks /\ task[n].next \in 1 .. Bits /\ task[n].source \in Node
  BY TaskFields DEF FingerLocal, FingerAsk, PassRefreshOn, FingerFound, Looks, Renews, Gets
<1>2. Succ(n) \in Node /\ \A id : LocalSucc(n, id) \in Node /\ Hop(n, id) \in Node
  BY LookupType
<1>4. CASE FingerLocal(n)
  <2>1. task' \in [Node -> GoodTasks]
    <3>1. task' = [task EXCEPT ![n] = Renewed(@)]
      BY <1>4 DEF FingerLocal
    <3>2. task[n].next < Bits
      BY <1>4 DEF FingerLocal, Looks, Renews
    <3> QED BY <1>1, <3>1, <3>2, NextFinger
  <2>2. finger' \in [Node -> [Indices -> Node]]
    BY <1>2, <1>4 DEF FingerLocal
  <2> QED BY <1>4, <2>1, <2>2 DEF FingerLocal, history
<1>5. CASE FingerAsk(n)
  <2> DEFINE id == Start(n, task[n].next)
             hop == Hop(n, id)
  <2>1. CASE Dies(n)
    BY <2>1, DiesType
  <2>2. CASE /\ inbox' = [inbox EXCEPT ![hop] = Append(@, Request("FIND_SUCC", id, n, n))]
             /\ task' = [task EXCEPT ![n].asks = hop]
             /\ UNCHANGED <<ring, answer, hangups, history>>
    <3>1. id \in Points
      BY <1>1, StartType
    <3>2. Request("FIND_SUCC", id, n, n) \in Requests
      BY <3>1, RequestType DEF Questions
    <3>3. hop \in Node
      BY <1>2
    <3>4. [task[n] EXCEPT !.asks = hop] \in GoodTasks
      BY <1>1, <3>3 DEF GoodTasks, Tasks
    <3> HIDE DEF id, hop
    <3>5. inbox' \in Inboxes
      BY <2>2, <3>2, <3>3, PostType
    <3>6. task' \in [Node -> GoodTasks]
      BY <2>2, <3>4
    <3> QED BY <2>2, <3>5, <3>6 DEF ring, history
  <2> QED BY <1>5, <2>1, <2>2 DEF FingerAsk
<1>6. CASE FingerFound(n, v)
  <2>1. CASE v = None
    BY <1>6, <2>1, DiesType DEF FingerFound
  <2>2. CASE v # None
    <3>1. /\ finger' = [finger EXCEPT ![n][task[n].next] = v]
          /\ task' = [task EXCEPT ![n] = Renewed(@)]
          /\ task[n].next < Bits
          /\ answer' = [answer EXCEPT ![n] = {}]
          /\ UNCHANGED <<status, pred, inbox, hangups, history>>
      BY <1>6, <2>2 DEF FingerFound, Renews
    <3>2. task' \in [Node -> GoodTasks]
      BY <1>1, <3>1, NextFinger
    <3>3. answer' \in Answers
      BY <3>1, ClearedType
    <3>4. finger' \in [Node -> [Indices -> Node]]
      BY <2>2, <3>1
    <3> QED BY <3>1, <3>2, <3>3, <3>4 DEF history
  <2> QED BY <2>1, <2>2
<1>7. CASE PassRefreshOn(n)
  <2>1. CASE Dies(n)
    BY <2>1, DiesType
  <2>2. CASE /\ Tells(n, Succ(n), "FIND_FINGER", task[n].source)
             /\ task' = [task EXCEPT ![n] =
                    IF status[n] = "joining" THEN Doing("listen") ELSE Idle]
             /\ UNCHANGED <<ring, answer, history>>
    <3>1. inbox' \in Inboxes /\ hangups' \in [Node -> 0 .. MaxHangups]
      BY <1>1, <1>2, <2>2, TellsType DEF Orders
    <3>2. task' \in [Node -> GoodTasks]
      BY <2>2, IdleType, PlainTask
    <3> QED BY <2>2, <3>1, <3>2 DEF ring, history
  <2> QED BY <1>7, <2>1, <2>2 DEF PassRefreshOn
<1> QED BY <1>4, <1>5, <1>6, <1>7

(* The way of a node into the ring. *)
LEMMA ContactType ==
    ASSUME TypeOK, NEW n \in Node, NEW v \in Node \cup {None}, UNCHANGED sent,
           LearnPred(n, v) \/ LearnSucc(n, v) \/ LinkSucc(n) \/ Listen(n)
    PROVE  TypeOK'
<1> USE TypeOKParts, TypeOKPrimed
<1>1. task[n] \in GoodTasks
  OBVIOUS
<1>2. CASE LearnPred(n, v)
  <2>1. CASE Dies(n)
    BY <2>1, DiesType
  <2>2. CASE v = None \/ ~Listens(v)
    BY <1>2, <2>1, <2>2 DEF LearnPred
  <2>3. CASE ~(v = None \/ ~Listens(v))
    <3> DEFINE t == [task[n] EXCEPT !.op = "ask_succ"]
    <3>1. task[n].id \in Points /\ task[n].source \in Node
      BY <1>1, <1>2, TaskFields DEF LearnPred, Gets
    <3>2. t \in GoodTasks /\ t.id \in Points /\ t.source \in Node
      BY <1>1, <3>1 DEF GoodTasks, Tasks, Operations
    <3>3. Asks(n, inbox, v, "TELL_SUCC", t)
      BY <1>2, <2>3 DEF LearnPred
    <3> HIDE DEF t
    <3>4. inbox' \in Inboxes /\ task' \in [Node -> GoodTasks]
      BY <2>3, <3>2, <3>3, AsksType DEF Questions
    <3>5. /\ pred' = [pred EXCEPT ![n] = v]
          /\ served' = {}
          /\ hangups' = [hangups EXCEPT ![task[n].asks] = OneMore(@)]
          /\ answer' = [answer EXCEPT ![n] = {}]
          /\ UNCHANGED <<status, finger, refused, lost>>
      BY <1>2, <2>3 DEF LearnPred
    <3>6. hangups' \in [Node -> 0 .. MaxHangups] /\ answer' \in Answers
      BY <3>5, HangupsType, ClearedType
    <3>7. pred' \in [Node -> Node]
      BY <2>3, <3>5
    <3> QED BY <3>4, <3>5, <3>6, <3>7
  <2> QED BY <2>2, <2>3
<1>3. CASE LearnSucc(n, v)
  <2> DEFINE s == IF v = None THEN pred[n] ELSE v
  <2>1. s \in Node
    OBVIOUS
  <2>2. inbox' \in Inboxes /\ hangups' \in [Node -> 0 .. MaxHangups]
    <3>1. CASE Tells(n, pred[n], "SET_SUCC", n)
      BY <3>1, TellsType DEF Orders
    <3> QED BY <1>3, <3>1 DEF LearnSucc
  <2>3. task' \in [Node -> GoodTasks]
    BY <1>3, PlainTask DEF LearnSucc
  <2>4. /\ finger' = [finger EXCEPT ![n][0] = s]
        /\ answer' = [answer EXCEPT ![n] = {}]
        /\ UNCHANGED <<status, pred, history>>
    BY <1>3 DEF LearnSucc
  <2> HIDE DEF s
  <2>5. finger' \in [Node -> [Indices -> Node]] /\ answer' \in Answers
    BY <2>1, <2>4, ClearedType
  <2> QED BY <2>2, <2>3, <2>4, <2>5 DEF history
<1>4. CASE LinkSucc(n)
  <2>1. CASE Dies(n)
    BY <2>1, DiesType
  <2>2. CASE /\ Tells(n, Succ(n), "SET_PRED", n)
             /\ task' = [task EXCEPT ![n] = Refresh(n)]
             /\ UNCHANGED <<ring, answer, history>>
    <3>1. inbox' \in Inboxes /\ hangups' \in [Node -> 0 .. MaxHangups]
      BY <2>2, LookupType, TellsType DEF Orders
    <3> QED BY <2>2, <3>1, RefreshTask DEF ring, history
  <2> QED BY <1>4, <2>1, <2>2 DEF LinkSucc
<1>5. CASE Listen(n)
  <2>1. status' \in [Node -> Status]
    BY <1>5 DEF Listen, Status
  <2> QED BY <1>5, <2>1, IdleType DEF Listen, history
<1> QED BY <1>2, <1>3, <1>4, <1>5

(* Empty reads. *)
LEMMA EmptyReadType ==
    ASSUME TypeOK, NEW n \in Node, EmptyRead(n), UNCHANGED sent
    PROVE  TypeOK'
<1> USE TypeOKParts, TypeOKPrimed
<1>1. PICK j \in 1 .. Len(inbox[n]) : LosesBatch(n, inbox, j)
  BY DEF EmptyRead
<1>2. j \in 0 .. Len(inbox[n])
  BY <1>1 DEF Inboxes
<1>3. inbox' \in Inboxes /\ lost' \subseteq Types
  BY <1>1, <1>2, LosesBatchType
<1>4. hangups' \in [Node -> 0 .. MaxHangups]
  <2>1. hangups[n] - 1 \in 0 .. MaxHangups
    <3>1. hangups[n] \in 0 .. MaxHangups
      OBVIOUS
    <3>2. hangups[n] > 0
      BY DEF EmptyRead
    <3> HIDE TypeOKParts, TypeOKPrimed
    <3> QED BY <3>1, <3>2, BoundsAssumption
  <2> QED BY <2>1 DEF EmptyRead
<1> QED BY <1>3, <1>4 DEF EmptyRead, ring

(* A node that starts to join. *)
LEMMA JoinType ==
    ASSUME TypeOK, NEW n \in Node, NEW c \in Node, Join(n, c), UNCHANGED sent
    PROVE  TypeOK'
<1> USE TypeOKParts, TypeOKPrimed
<1> DEFINE t == Task("ask_pred", n, n, None)
<1>1. t \in GoodTasks /\ t.id \in Points /\ t.source \in Node
  <2>1. n \in Points
    BY NodesOnCircle
  <2> HIDE TypeOKParts, TypeOKPrimed
  <2> QED BY <2>1, LookupTask
<1>2. Asks(n, inbox, c, "FIND_PRED", t)
  BY DEF Join
<1> HIDE DEF t
<1>3. inbox' \in Inboxes /\ task' \in [Node -> GoodTasks]
  BY <1>1, <1>2, AsksType DEF Questions
<1>4. status' \in [Node -> Status]
  BY DEF Join, Status
<1> QED BY <1>3, <1>4 DEF Join, history

(* Clients. *)
LEMMA ClientType ==
    ASSUME TypeOK, NEW n \in Node, NEW k \in Key, Connect(n, k) \/ SendAgain(n, k)
    PROVE  TypeOK'
<1> USE TypeOKParts, TypeOKPrimed
<1>1. Request("KEY", k, None, None) \in Requests
  BY KeyRequestType
<1>2. sent' \in [clients : 0 .. MaxClients, again : 0 .. MaxRequests]
  <2>1. sent.clients < MaxClients => sent.clients + 1 \in 0 .. MaxClients
    BY BoundsAssumption
  <2>2. sent.again < MaxRequests => sent.again + 1 \in 0 .. MaxRequests
    BY BoundsAssumption
  <2> QED BY <2>1, <2>2 DEF Connect, SendAgain
<1>3. inbox' \in Inboxes
  <2>1. CASE Connect(n, k)
    BY <1>1, <2>1, PostType DEF Connect
  <2>2. CASE SendAgain(n, k)
    <3>1. <<Request("KEY", k, None, None)>> \in Seq(Requests) /\ inbox[n] \in Seq(Requests)
      BY <1>1 DEF Inboxes
    <3>2. <<Request("KEY", k, None, None)>> \o inbox[n] \in Seq(Requests)
      BY <3>1, ConcatProperties
    <3> QED BY <2>2, <3>2 DEF SendAgain, Inboxes
  <2> QED BY <2>1, <2>2
<1>4. task' \in [Node -> GoodTasks]
  BY IdleType DEF Connect, SendAgain
<1> QED BY <1>2, <1>3, <1>4 DEF Connect, SendAgain, ring, history

LEMMA CloseType ==
    ASSUME TypeOK, NEW n \in Node, CloseClient(n)
    PROVE  TypeOK'
<1> USE TypeOKParts, TypeOKPrimed
<1>1. PICK j \in 0 .. Len(inbox[n]) : LosesBatch(n, inbox, j)
  BY DEF CloseClient
<1>2. inbox' \in Inboxes /\ lost' \subseteq Types
  BY <1>1, LosesBatchType
<1> QED BY <1>2, IdleType DEF CloseClient, ring

LEMMA TypeInit == Init => TypeOK
<1> SUFFICES ASSUME Init PROVE TypeOK
  OBVIOUS
<1>1. status \in [Node -> Status]
  BY DEF Init, Status
<1>2. sent \in [clients : 0 .. MaxClients, again : 0 .. MaxRequests]
  BY BoundsAssumption DEF Init
<1>3. hangups \in [Node -> 0 .. MaxHangups]
  BY BoundsAssumption DEF Init
<1>4. inbox \in Inboxes
  BY EmptySeq DEF Init, Inboxes
<1>5. task \in [Node -> GoodTasks] /\ answer \in Answers
  BY IdleType DEF Init, Answers
<1> QED BY <1>1, <1>2, <1>3, <1>4, <1>5, TypeOKParts DEF Init

LEMMA TypeStep == TypeOK /\ [Next]_vars => TypeOK'
<1> SUFFICES ASSUME TypeOK, [Next]_vars PROVE TypeOK'
  OBVIOUS
<1>1. CASE UNCHANGED vars
  BY <1>1, TypeOKParts, TypeOKPrimed DEF vars, ring, net, history
<1>2. ASSUME NEW n \in Node, Runs(n) PROVE TypeOK'
  <2>1. UNCHANGED sent
    BY <1>2 DEF Runs
  <2>2. CASE Serve(n)
    BY <2>1, <2>2, ObeyType, FindType, KeyType DEF Serve
  <2>3. CASE UpdateFingers(n)
    BY <2>1, <2>3, FingersType DEF UpdateFingers
  <2>4. CASE Lookup(n)
    BY <2>1, <2>4, LookupsType DEF Lookup
  <2>5. CASE MakeContact(n)
    BY <2>1, <2>5, ContactType DEF MakeContact
  <2> QED BY <1>2, <2>2, <2>3, <2>4, <2>5 DEF Runs
<1>3. ASSUME NEW n \in Node, EmptyRead(n), UNCHANGED sent PROVE TypeOK'
  BY <1>3, EmptyReadType
<1>4. ASSUME NEW n \in Node, NEW c \in Node, Join(n, c), UNCHANGED sent PROVE TypeOK'
  BY <1>4, JoinType
<1>5. ASSUME NEW n \in Node, NEW k \in Key, Connect(n, k) \/ SendAgain(n, k) PROVE TypeOK'
  BY <1>5, ClientType
<1>6. ASSUME NEW n \in Node, CloseClient(n) PROVE TypeOK'
  BY <1>6, CloseType
<1> QED BY <1>1, <1>2, <1>3, <1>4, <1>5, <1>6 DEF Next

(* Pointers, requests, answers and tasks keep their types, for every set of *)
(* nodes: no lookup leaves the circle and no answer names nobody.           *)
THEOREM TypeCorrect == Spec => []TypeOK
<1> QED BY TypeInit, TypeStep, PTL DEF Spec

-----------------------------------------------------------------------------
(* The circle.                                                              *)

LEMMA DistanceOnCircle ==
    ASSUME NEW a \in Points, NEW b \in Points
    PROVE  Distance(a, b) = IF a <= b THEN b - a ELSE b - a + Space
BY SpaceType DEF Distance, Points

(* Where a hash lies on the circle. *)
LEMMA HashOnCircle ==
    ASSUME NEW h \in KeyHashes
    PROVE  /\ h % Space \in Points
           /\ h \in Points => h % Space = h
           /\ h = Space => h % Space = 0
           /\ h \in Points \/ h = Space
BY SpaceType DEF KeyHashes, Points

(* x lies strictly between p and n, going up from p; all other points do when *)
(* p and n are the same.                                                      *)
Between(p, x, n) == IF p < n THEN p < x /\ x < n ELSE x # n /\ x # p /\ (p < x \/ x < n)

KnowsPred(n) == pred[n] \in Members /\ \A x \in Members : ~Between(pred[n], x, n)

(* The member that claims a hash is at least as close to it as any other. *)
LEMMA ClaimantIsClosest ==
    ASSUME NEW p \in Points, NEW n \in Points, NEW x \in Points, NEW h \in KeyHashes,
           ~Between(p, x, n), OwnsKey(n, p, h)
    PROVE  Distance(h % Space, n) <= Distance(h % Space, x)
<1>1. h % Space \in Points
  BY HashOnCircle
<1>2. CASE h = Space
  <2>1. h % Space = 0 /\ Distance(0, n) = n /\ Distance(0, x) = x
    BY <1>1, <1>2, HashOnCircle, DistanceOnCircle, SpaceType DEF Points
  <2> QED BY <1>2, <2>1, SpaceType DEF Points, Between, OwnsKey
<1>3. CASE h \in Points
  <2>1. /\ Distance(h, n) = IF h <= n THEN n - h ELSE n - h + Space
        /\ Distance(h, x) = IF h <= x THEN x - h ELSE x - h + Space
        /\ h % Space = h
    BY <1>3, DistanceOnCircle, HashOnCircle
  <2> QED BY <1>3, <2>1, SpaceType DEF Points, Between, OwnsKey
<1> QED BY <1>2, <1>3, HashOnCircle

(* The closest member claims the hash, unless it is alone and sits there. *)
LEMMA ClosestClaims ==
    ASSUME NEW p \in Points, NEW n \in Points, NEW h \in KeyHashes,
           p # n \/ h # n,
           Distance(h % Space, n) <= Distance(h % Space, p)
    PROVE  OwnsKey(n, p, h)
<1>1. h % Space \in Points
  BY HashOnCircle
<1>2. CASE h = Space
  <2>1. h % Space = 0 /\ Distance(0, n) = n /\ Distance(0, p) = p
    BY <1>1, <1>2, HashOnCircle, DistanceOnCircle, SpaceType DEF Points
  <2> QED BY <1>2, <2>1, SpaceType DEF Points, OwnsKey
<1>3. CASE h \in Points
  <2>1. /\ Distance(h, n) = IF h <= n THEN n - h ELSE n - h + Space
        /\ Distance(h, p) = IF h <= p THEN p - h ELSE p - h + Space
        /\ h % Space = h
    BY <1>3, DistanceOnCircle, HashOnCircle
  <2> QED BY <1>3, <2>1, SpaceType DEF Points, OwnsKey
<1> QED BY <1>2, <1>3, HashOnCircle

LEMMA DistanceInjective ==
    ASSUME NEW a \in Points, NEW b \in Points, NEW c \in Points,
           Distance(a, b) = Distance(a, c)
    PROVE  b = c
<1>1. /\ Distance(a, b) = IF a <= b THEN b - a ELSE b - a + Space
      /\ Distance(a, c) = IF a <= c THEN c - a ELSE c - a + Space
  BY DistanceOnCircle
<1>2. /\ a \in Nat /\ b \in Nat /\ c \in Nat /\ Space \in Nat
      /\ a < Space /\ b < Space /\ c < Space
  BY SpaceType DEF Points
<1>3. (IF a <= b THEN b - a ELSE b - a + Space) = (IF a <= c THEN c - a ELSE c - a + Space)
  BY <1>1
<1> QED BY <1>2, <1>3

(* Owner is the one closest member. *)
LEMMA OwnerIsClosest ==
    ASSUME NEW q \in Points, Members \subseteq Points, Members # {}
    PROVE  /\ Owner(q) \in Members
           /\ \A x \in Members : Distance(q, Owner(q)) <= Distance(q, x)
           /\ \A m \in Members :
                 (\A x \in Members : Distance(q, m) <= Distance(q, x)) => m = Owner(q)
<1> DEFINE T == {Distance(q, m) : m \in Members}
<1>1. \A m \in Members : Distance(q, m) \in Nat
  BY DistanceOnCircle, SpaceType DEF Points
<1>2. T \subseteq Nat /\ T # {}
  BY <1>1
<1>3. PICK t \in T : \A u \in T : t <= u
  BY <1>2, LeastNatural
<1>4. \E m \in Members : \A x \in Members : Distance(q, m) <= Distance(q, x)
  BY <1>3
<1>5. /\ Owner(q) \in Members
      /\ \A x \in Members : Distance(q, Owner(q)) <= Distance(q, x)
  BY <1>4 DEF Owner
<1>6. ASSUME NEW m \in Members, \A x \in Members : Distance(q, m) <= Distance(q, x)
      PROVE  m = Owner(q)
  <2>1. Distance(q, m) = Distance(q, Owner(q))
    BY <1>1, <1>5, <1>6
  <2>2. m \in Points /\ Owner(q) \in Points
    BY <1>5
  <2> QED BY <2>1, <2>2, DistanceInjective
<1> QED BY <1>5, <1>6

(* When every member knows its predecessor, each hash belongs to the first  *)
(* member at or after it, and to no other: the conditions of start divide   *)
(* the circle without gap or overlap, whatever the number of members, their *)
(* places and the size of the circle.                                       *)
THEOREM RingDivided == TypeOK /\ (\A n \in Members : KnowsPred(n)) => OneOwner
<1> SUFFICES ASSUME TypeOK, \A n \in Members : KnowsPred(n),
                    NEW n \in Members, NEW h \in KeyHashes, Members # {n} \/ h # n
             PROVE  OwnsKey(n, pred[n], h) <=> n = Owner(h % Space)
  BY DEF OneOwner
<1>1. Members \subseteq Points /\ Members # {} /\ pred[n] \in Members
  BY NodesOnCircle DEF Members, KnowsPred
<1>2. h % Space \in Points
  BY HashOnCircle
<1>3. ASSUME OwnsKey(n, pred[n], h) PROVE n = Owner(h % Space)
  <2>1. \A x \in Members : Distance(h % Space, n) <= Distance(h % Space, x)
    BY <1>1, <1>3, ClaimantIsClosest DEF KnowsPred
  <2> QED BY <1>1, <1>2, <2>1, OwnerIsClosest
<1>4. ASSUME n = Owner(h % Space) PROVE OwnsKey(n, pred[n], h)
  <2>1. Distance(h % Space, n) <= Distance(h % Space, pred[n])
    BY <1>1, <1>2, <1>4, OwnerIsClosest
  <2>2. pred[n] # n \/ h # n
    <3>1. CASE pred[n] = n /\ h = n
      <4>1. PICK x \in Members : x # n
        BY <1>1, <3>1
      <4>2. Between(n, x, n)
        BY <1>1, <4>1, SpaceType DEF Between, Points
      <4> QED BY <3>1, <4>1, <4>2 DEF KnowsPred
    <3> QED BY <3>1
  <2> QED BY <1>1, <2>1, <2>2, ClosestClaims
<1> QED BY <1>3, <1>4
=============================================================================
