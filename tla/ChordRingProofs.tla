-------------------------- MODULE ChordRingProofs --------------------------
(***************************************************************************)
(* Proofs about the links of Chord for every set of nodes and every size   *)
(* of the circle: when nodes are started one after the other, each finds   *)
(* its place, although the lookups that lead it there run over finger      *)
(* tables that are out of date, and over several nodes.                    *)
(***************************************************************************)
EXTENDS ChordProofs

Asking(n) == task[n].op \in {"ask_pred", "ask_succ"}

(* The nodes that have a place on the circle: those that are up, and the    *)
(* one that joins once it has begun to tell its neighbors.                  *)
Circle == {n \in Node : status[n] \in {"up", "joining"} /\ ~Asking(n)}

(* No node of the circle lies between p and n.                              *)
Adjacent(p, n) == \A x \in Circle : ~Between(p, x, n)

Follows(p, s) == s \in Circle /\ Adjacent(p, s)
Leads(p, n) == p \in Circle /\ Adjacent(p, n)

-----------------------------------------------------------------------------
(* The inductive invariant.  What a node does fits its status.              *)

JoinOps == {"ask_pred", "ask_succ", "link_succ", "listen"}

Fits(n) ==
    /\ status[n] \in {"off", "dead"} => task[n] = Idle
    /\ task[n].op \in JoinOps => status[n] = "joining"
    /\ status[n] = "joining" => task[n].op \in JoinOps \cup {"fingers"}
    /\ status[n] = "off" \/ Asking(n) => \A i \in Indices : finger[n][i] = n

OneJoins == \A x, y \in Node : status[x] = "joining" /\ status[y] = "joining" => x = y

StatusInv == OneJoins /\ \A n \in Node : Fits(n)

(* The rest holds as long as nobody dies and no SET_SUCC or SET_PRED is     *)
(* lost.                                                                    *)
Intact == NobodyDead /\ Linked

Elems(s) == {s[k] : k \in 1 .. Len(s)}
Box(n) == Elems(inbox[n])
LinksTo(n, type) == {m \in Box(n) : m.type = type}
AskedOf(n) == {m \in Box(n) : m.type \in Questions}

(* Each link is right, or the message that puts it right is on its way, or  *)
(* about to be sent.                                                        *)
SuccKnown(n) ==
    /\ \A m \in LinksTo(n, "SET_SUCC") : Follows(n, m.source)
    /\ Follows(n, Succ(n)) \/ LinksTo(n, "SET_SUCC") # {}

PredKnown(n) ==
    /\ \A m \in LinksTo(n, "SET_PRED") : Leads(m.source, n)
    /\ \/ Leads(pred[n], n)
       \/ LinksTo(n, "SET_PRED") # {}
       \/ \E x \in Node : task[x].op = "link_succ" /\ Succ(x) = n

RingInv ==
    /\ \A n \in Circle : SuccKnown(n) /\ PredKnown(n)
    /\ \A n \in Circle, i \in Indices : finger[n][i] \in Circle
    /\ \A x \in Node : task[x].op = "link_succ" => Follows(x, Succ(x))
    /\ \A x, n \in Node, type \in {"SET_SUCC", "SET_PRED"} :
          Asking(x) => LinksTo(n, type) = {}

(* A node owes an answer to each node whose question it has not read or is  *)
(* in the middle of; and to each of them only one.                          *)
Serving == {"find_succ", "find_pred", "tell_pred"}
Resting == {"idle", "link_succ", "listen", "read_client"}
Rests(n) == task[n].op \in Resting \/ (task[n].op = "fingers" /\ task[n].next = Bits)

Owes(d, f) ==
    \/ \E m \in AskedOf(d) : m.from = f
    \/ task[d].op \in Serving /\ task[d].from = f

Single(s) ==
    \A a, b \in 1 .. Len(s) :
       s[a].type \in Questions /\ s[b].type \in Questions /\ s[a].from = s[b].from => a = b

OwesOnce(d) ==
    /\ Single(inbox[d])
    /\ task[d].op \in Serving => \A m \in AskedOf(d) : m.from # task[d].from

(* The successor of id is looked up for f, in the end for source.           *)
LooksUpFor(f, id, source) ==
    /\ source \in Node
    /\ \/ task[f].op \in {"find_succ", "find_pred"} /\ id = task[f].id /\ source = task[f].source
       \/ task[f].op = "fingers" /\ source = f
    /\ task[source].op = "ask_pred" => id = source

AskedInv(d, m) ==
    /\ m.type = "FIND_SUCC" => LooksUpFor(m.from, m.id, m.source)
    /\ m.type = "FIND_PRED" => task[m.from].op = "ask_pred" /\ m.id = m.from /\ m.source = m.from
    /\ m.type = "TELL_PRED" => task[m.from].op = "tell_pred"
    /\ m.type = "TELL_SUCC" => task[m.from].op = "ask_succ"

ServingInv(d) ==
    LET t == task[d]
    IN  /\ t.op \in Serving => t.from \in Node
        /\ t.op = "find_succ" => LooksUpFor(t.from, t.id, t.source)
        /\ t.op \in {"find_pred", "tell_pred"} =>
              task[t.from].op = "ask_pred" /\ t.id = t.from /\ t.source = t.from

TokenInv ==
    /\ \A d, f \in Node : Owes(d, f) => task[f].asks = d /\ answer[f] = {}
    /\ \A d \in Node : OwesOnce(d) /\ ServingInv(d)
    /\ \A d \in Node : \A m \in AskedOf(d) : AskedInv(d, m)
    /\ \A n \in Node : task[n].asks = None => answer[n] = {}
    /\ \A n \in Node : Rests(n) => task[n].asks = None

(* What has been answered, and which node has been asked, is right.         *)
RightAnswer(n, v) ==
    /\ v \in Circle
    /\ task[n].op \in {"find_succ", "find_pred"} /\ task[task[n].source].op = "ask_pred"
          => Adjacent(task[n].source, v)
    /\ task[n].op = "tell_pred" => Adjacent(v, task[n].source)
    /\ task[n].op = "ask_pred" => Adjacent(v, n)
    /\ task[n].op = "ask_succ" => Adjacent(n, v)

AnswerOf(n) ==
    /\ \A v \in answer[n] : RightAnswer(n, v)
    /\ task[n].op = "tell_pred" => Follows(task[n].source, task[n].asks)
    /\ task[n].op = "ask_succ" => task[n].asks = pred[n] /\ Leads(pred[n], n)

AnswerInv == \A n \in Node : AnswerOf(n)

Core == RingInv /\ TokenInv /\ AnswerInv

LinkInv == StatusInv /\ (Intact => Core)

-----------------------------------------------------------------------------
(* The circle.                                                              *)

LEMMA CircleNodes ==
    /\ Circle \subseteq Node
    /\ \A x \in Circle : x \in Nat /\ x < Space
    /\ \A x \in Node : x \in Nat /\ x < Space
BY NodesOnCircle, SpaceType DEF Circle, Points

(* Who is found directly follows the point that was looked up.              *)
LEMMA DirectFollows ==
    ASSUME NEW k \in Circle, NEW j \in Node, j \notin Circle, NEW s \in Circle,
           Adjacent(k, s), j > k, j <= s \/ s < k
    PROVE  Adjacent(j, s)
<1> SUFFICES ASSUME NEW x \in Circle, Between(j, x, s) PROVE FALSE
  BY DEF Adjacent
<1>1. ~Between(k, x, s) /\ j # s /\ j # x
  BY DEF Adjacent
<1> QED BY <1>1, CircleNodes DEF Between

LEMMA AloneFollows ==
    ASSUME NEW k \in Circle, NEW j \in Node, j \notin Circle, Adjacent(k, k)
    PROVE  Adjacent(j, k)
<1> SUFFICES ASSUME NEW x \in Circle, Between(j, x, k) PROVE FALSE
  BY DEF Adjacent
<1>1. ~Between(k, x, k)
  BY DEF Adjacent
<1> QED BY <1>1, CircleNodes DEF Between

(* The predecessor of the successor of a point is the predecessor of the    *)
(* point.                                                                   *)
LEMMA LeadsThrough ==
    ASSUME NEW j \in Node, j \notin Circle, NEW s \in Circle, NEW p \in Circle,
           Adjacent(j, s), Adjacent(p, s)
    PROVE  Adjacent(p, j)
<1> SUFFICES ASSUME NEW x \in Circle, Between(p, x, j) PROVE FALSE
  BY DEF Adjacent
<1>1. ~Between(p, x, s) /\ ~Between(j, p, s) /\ ~Between(j, x, s)
  BY DEF Adjacent
<1>2. j # s /\ j # x /\ j # p
  OBVIOUS
<1> QED BY <1>1, <1>2, CircleNodes DEF Between

LEMMA FollowsThrough ==
    ASSUME NEW j \in Node, j \notin Circle, NEW s \in Circle, NEW p \in Circle,
           Adjacent(p, j), Adjacent(p, s)
    PROVE  Adjacent(j, s)
<1> SUFFICES ASSUME NEW x \in Circle, Between(j, x, s) PROVE FALSE
  BY DEF Adjacent
<1>1. ~Between(p, x, s) /\ ~Between(p, s, j) /\ ~Between(p, x, j)
  BY DEF Adjacent
<1>2. j # s /\ j # x /\ j # p
  OBVIOUS
<1> QED BY <1>1, <1>2, CircleNodes DEF Between

LEMMA NotBetweenItself ==
    ASSUME NEW x \in Node, NEW y \in Node
    PROVE  ~Between(x, x, y) /\ ~Between(x, y, y)
BY CircleNodes DEF Between

(* A new node comes between its neighbors and no others.                    *)
LEMMA NotBetweenOthers ==
    ASSUME NEW j \in Node, j \notin Circle, NEW p \in Circle, Adjacent(p, j),
           NEW k \in Circle, NEW s \in Circle, Adjacent(k, s), k # p
    PROVE  ~Between(k, j, s)
<1>1. ~Between(p, k, j) /\ ~Between(k, p, s)
  BY DEF Adjacent
<1>2. j # k /\ j # s /\ j # p
  OBVIOUS
<1> QED BY <1>1, <1>2, CircleNodes DEF Between

LEMMA NotBetweenEarlier ==
    ASSUME NEW j \in Node, j \notin Circle, NEW s \in Circle, Adjacent(j, s),
           NEW k \in Circle, NEW n \in Circle, Adjacent(k, n), n # s
    PROVE  ~Between(k, j, n)
<1>1. ~Between(j, n, s) /\ ~Between(k, s, n)
  BY DEF Adjacent
<1>2. j # k /\ j # s /\ j # n
  OBVIOUS
<1> QED BY <1>1, <1>2, CircleNodes DEF Between

LEMMA OneLeads ==
    ASSUME NEW p \in Circle, NEW q \in Circle, NEW n \in Circle,
           Adjacent(p, n), Adjacent(q, n)
    PROVE  p = q
<1>1. ~Between(p, q, n) /\ ~Between(q, p, n) /\ ~Between(p, n, n) /\ ~Between(q, n, n)
  BY DEF Adjacent
<1> QED BY <1>1, CircleNodes DEF Between

(* A lookup in the own table.                                               *)
LEMMA ClosestType ==
    ASSUME NEW n \in Node, NEW id
    PROVE  LET I == {i \in Indices : Precedes(finger[n][i], n, id)}
           IN  /\ ClosestIndex(n, id) \in Indices
               /\ I = {} => ClosestIndex(n, id) = 0
               /\ I # {} => ClosestIndex(n, id) \in I
<1> DEFINE I == {i \in Indices : Precedes(finger[n][i], n, id)}
<1>1. CASE I = {}
  BY <1>1, BitsAssumption DEF ClosestIndex, Indices
<1>2. CASE I # {}
  <2>1. \E i \in I : \A j \in I : j <= i
    <3>1. I \subseteq 0 .. Bits - 1 /\ Bits - 1 \in Nat
      BY BitsAssumption DEF Indices
    <3> HIDE DEF I
    <3> QED BY <3>1, <1>2, GreatestUpTo
  <2>2. ClosestIndex(n, id) = CHOOSE i \in I : \A j \in I : j <= i
    BY <1>2 DEF ClosestIndex
  <2>3. ClosestIndex(n, id) \in I
    <3> HIDE DEF I
    <3> QED BY <2>1, <2>2
  <2> QED BY <1>2, <2>3
<1> QED BY <1>1, <1>2

(* No node asks itself unless it is alone.                                  *)
LEMMA HopElsewhere ==
    ASSUME TypeOK, NEW n \in Node, NEW id \in Points, Hop(n, id) = n
    PROVE  Succ(n) = n
<1>1. n \in Nat /\ id \in Nat
  BY CircleNodes, NodesOnCircle
<1>2. ~Precedes(n, n, id)
  BY <1>1 DEF Precedes
<1>3. ClosestIndex(n, id) = 0
  BY <1>2, ClosestType DEF Hop
<1> QED BY <1>3 DEF Hop, Succ

-----------------------------------------------------------------------------
(* What the inboxes hold.                                                   *)

LEMMA BoxType ==
    ASSUME TypeOK, NEW n \in Node
    PROVE  /\ inbox[n] \in Seq(Requests) /\ Len(inbox[n]) \in Nat
           /\ Box(n) \subseteq Requests
<1>1. inbox[n] \in Seq(Requests)
  BY DEF TypeOK
<1> QED BY <1>1 DEF Box, Elems

LEMMA ElemsAppend ==
    ASSUME NEW s \in Seq(Requests), NEW r \in Requests
    PROVE  Elems(Append(s, r)) = Elems(s) \cup {r}
<1> DEFINE t == Append(s, r)
<1>1. /\ Len(t) = Len(s) + 1 /\ Len(s) \in Nat /\ t[Len(s) + 1] = r
      /\ \A k \in 1 .. Len(s) : t[k] = s[k]
  BY AppendProperties
<1> HIDE DEF t
<1>2. Elems(t) \subseteq Elems(s) \cup {r}
  BY <1>1 DEF Elems
<1>3. Elems(s) \subseteq Elems(t)
  BY <1>1 DEF Elems
<1>4. r \in Elems(t)
  BY <1>1 DEF Elems
<1> QED BY <1>2, <1>3, <1>4 DEF t

(* The rest of a sequence is that sequence without its first k members.     *)
LEMMA ElemsDrop ==
    ASSUME NEW s \in Seq(Requests), NEW t \in Seq(Requests), NEW k \in 0 .. Len(s),
           Len(t) = Len(s) - k, \A i \in 1 .. Len(t) : t[i] = s[i + k]
    PROVE  /\ Elems(t) \subseteq Elems(s)
           /\ \A m \in Elems(s) : m \in Elems(t) \/ \E j \in 1 .. k : m = s[j]
           /\ Single(s) => Single(t)
<1>1. Len(s) \in Nat /\ Len(t) \in Nat
  OBVIOUS
<1>2. \A i \in 1 .. Len(t) : i + k \in 1 .. Len(s)
  BY <1>1
<1>3. Elems(t) \subseteq Elems(s)
  BY <1>2 DEF Elems
<1>4. ASSUME NEW m \in Elems(s) PROVE m \in Elems(t) \/ \E j \in 1 .. k : m = s[j]
  <2>1. PICK j \in 1 .. Len(s) : m = s[j]
    BY <1>4 DEF Elems
  <2>2. CASE j <= k
    BY <2>1, <2>2, <1>1
  <2>3. CASE j > k
    <3>1. j - k \in 1 .. Len(t) /\ t[j - k] = m
      BY <1>1, <2>1, <2>3
    <3> QED BY <3>1 DEF Elems
  <2> QED BY <2>1, <2>2, <2>3
<1>5. ASSUME Single(s),
             NEW a \in 1 .. Len(t), NEW b \in 1 .. Len(t),
             t[a].type \in Questions, t[b].type \in Questions, t[a].from = t[b].from
      PROVE  a = b
  <2>1. a + k = b + k
    BY <1>2, <1>5 DEF Single
  <2> QED BY <2>1, <1>1
<1> QED BY <1>3, <1>4, <1>5 DEF Single

LEMMA TailElems ==
    ASSUME NEW s \in Seq(Requests), s # <<>>
    PROVE  /\ Tail(s) \in Seq(Requests) /\ Head(s) \in Requests
           /\ Elems(s) = Elems(Tail(s)) \cup {Head(s)}
           /\ Single(s) =>
                /\ Single(Tail(s))
                /\ Head(s).type \in Questions =>
                     \A m \in Elems(Tail(s)) : m.type \in Questions => m.from # Head(s).from
<1> DEFINE t == Tail(s)
<1>1. /\ t \in Seq(Requests) /\ Len(t) = Len(s) - 1 /\ Len(s) \in Nat \ {0}
      /\ \A i \in 1 .. Len(t) : t[i] = s[i + 1]
      /\ Head(s) = s[1] /\ s[1] \in Requests
  BY HeadTailProperties, EmptySeq
<1> HIDE DEF t
<1>2. /\ Elems(t) \subseteq Elems(s)
      /\ \A m \in Elems(s) : m \in Elems(t) \/ m = s[1]
      /\ Single(s) => Single(t)
  BY <1>1, ElemsDrop
<1>3. s[1] \in Elems(s)
  BY <1>1 DEF Elems
<1>4. ASSUME Single(s), s[1].type \in Questions, NEW m \in Elems(t),
             m.type \in Questions, m.from = s[1].from
      PROVE  FALSE
  <2>1. PICK i \in 1 .. Len(t) : m = t[i]
    BY <1>4 DEF Elems
  <2>2. i + 1 \in 1 .. Len(s) /\ 1 \in 1 .. Len(s) /\ s[i + 1] = m
    BY <1>1, <2>1
  <2>3. i + 1 = 1
    BY <1>4, <2>2 DEF Single
  <2> QED BY <1>1, <2>3
<1> QED BY <1>1, <1>2, <1>3, <1>4 DEF t

LEMMA SingleAppend ==
    ASSUME NEW s \in Seq(Requests), NEW r \in Requests, Single(s),
           r.type \in Questions =>
              \A m \in Elems(s) : m.type \in Questions => m.from # r.from
    PROVE  Single(Append(s, r))
<1> DEFINE t == Append(s, r)
<1>1. /\ Len(t) = Len(s) + 1 /\ Len(s) \in Nat /\ t[Len(s) + 1] = r
      /\ \A k \in 1 .. Len(s) : t[k] = s[k]
  BY AppendProperties
<1> HIDE DEF t
<1>2. SUFFICES ASSUME NEW a \in 1 .. Len(t), NEW b \in 1 .. Len(t),
                      t[a].type \in Questions, t[b].type \in Questions, t[a].from = t[b].from
               PROVE  a = b
  BY DEF Single, t
<1>3. \A k \in 1 .. Len(s) : t[k] \in Elems(s)
  BY <1>1 DEF Elems
<1>4. CASE a \in 1 .. Len(s) /\ b \in 1 .. Len(s)
  BY <1>1, <1>2, <1>4 DEF Single
<1>5. CASE a = Len(s) + 1 /\ b \in 1 .. Len(s)
  BY <1>1, <1>2, <1>3, <1>5
<1>6. CASE b = Len(s) + 1 /\ a \in 1 .. Len(s)
  BY <1>1, <1>2, <1>3, <1>6
<1> QED BY <1>1, <1>4, <1>5, <1>6

LEMMA PrependElems ==
    ASSUME NEW s \in Seq(Requests), NEW r \in Requests
    PROVE  /\ Elems(<<r>> \o s) = Elems(s) \cup {r}
           /\ Single(s) /\ r.type \notin Questions => Single(<<r>> \o s)
<1> DEFINE t == <<r>> \o s
<1>1. <<r>> \in Seq(Requests) /\ Len(<<r>>) = 1
  OBVIOUS
<1>2. /\ Len(t) = Len(s) + 1 /\ Len(s) \in Nat
      /\ \A k \in 1 .. Len(t) : t[k] = IF k <= 1 THEN r ELSE s[k - 1]
  <2>1. Len(t) = 1 + Len(s) /\ Len(s) \in Nat
    BY <1>1, ConcatProperties
  <2>2. \A k \in 1 .. Len(<<r>>) + Len(s) :
           t[k] = IF k <= Len(<<r>>) THEN <<r>>[k] ELSE s[k - Len(<<r>>)]
    BY <1>1, ConcatProperties
  <2>3. \A k \in 1 .. Len(t) : k <= 1 => <<r>>[k] = r
    BY <2>1
  <2> QED BY <1>1, <2>1, <2>2, <2>3
<1> HIDE DEF t
<1>3. \A k \in 1 .. Len(s) : k + 1 \in 1 .. Len(t) /\ t[k + 1] = s[k]
  BY <1>2
<1>4. 1 \in 1 .. Len(t) /\ t[1] = r
  BY <1>2
<1>5. \A k \in 1 .. Len(t) : k = 1 \/ (k - 1 \in 1 .. Len(s) /\ t[k] = s[k - 1])
  BY <1>2
<1>6. Elems(t) = Elems(s) \cup {r}
  <2>1. Elems(t) \subseteq Elems(s) \cup {r}
    BY <1>4, <1>5 DEF Elems
  <2>2. Elems(s) \subseteq Elems(t)
    BY <1>3 DEF Elems
  <2>3. r \in Elems(t)
    BY <1>4 DEF Elems
  <2> QED BY <2>1, <2>2, <2>3
<1>7. ASSUME Single(s), r.type \notin Questions,
             NEW a \in 1 .. Len(t), NEW b \in 1 .. Len(t),
             t[a].type \in Questions, t[b].type \in Questions, t[a].from = t[b].from
      PROVE  a = b
  <2>1. a - 1 \in 1 .. Len(s) /\ b - 1 \in 1 .. Len(s) /\ t[a] = s[a - 1] /\ t[b] = s[b - 1]
    BY <1>4, <1>5, <1>7
  <2>2. a - 1 = b - 1
    BY <1>7, <2>1 DEF Single
  <2> QED BY <2>2
<1> QED BY <1>6, <1>7 DEF t, Single

-----------------------------------------------------------------------------
(* What a node does fits its status, whoever dies and whatever is lost.     *)

LEMMA StatusOthers ==
    ASSUME StatusInv, NEW n \in Node, Fits(n)',
           \A x \in Node : status'[x] = "joining" => status[x] = "joining",
           \A x \in Node \ {n} : /\ status'[x] = status[x] /\ task'[x] = task[x]
                                 /\ finger'[x] = finger[x]
    PROVE  StatusInv'
<1>1. OneJoins'
  BY DEF StatusInv, OneJoins
<1>2. ASSUME NEW x \in Node \ {n} PROVE Fits(x)'
  BY <1>2 DEF StatusInv, Fits, Asking
<1> QED BY <1>1, <1>2 DEF StatusInv

LEMMA StatusUp ==
    ASSUME TypeOK, StatusInv, NEW n \in Node, status[n] = "up", UNCHANGED status,
           task'[n].op \notin JoinOps,
           \A x \in Node \ {n} : task'[x] = task[x] /\ finger'[x] = finger[x]
    PROVE  StatusInv'
<1>1. Fits(n)'
  BY DEF Fits, Asking, JoinOps
<1> QED BY <1>1, StatusOthers

LEMMA StatusDies ==
    ASSUME TypeOK, StatusInv, NEW n \in Node, Dies(n)
    PROVE  StatusInv'
<1>1. /\ status' = [status EXCEPT ![n] = "dead"]
      /\ task' = [task EXCEPT ![n] = Idle] /\ finger' = finger
  BY DEF Dies
<1>2. status'[n] = "dead" /\ task'[n] = Idle
  BY <1>1 DEF TypeOK
<1>3. Fits(n)'
  BY <1>2 DEF Fits, Asking, Idle, Doing, Task, JoinOps
<1> QED BY <1>1, <1>3, StatusOthers DEF TypeOK

(* The operations that only a node that is up is in the middle of.          *)
LEMMA OpStatus ==
    ASSUME TypeOK, StatusInv, NEW n \in Node
    PROVE  /\ task[n].op \in Serving \cup {"read_client"} => status[n] = "up"
           /\ task[n].op = "fingers" => status[n] \in {"up", "joining"}
           /\ task[n].op \in JoinOps => status[n] = "joining"
<1>1. status[n] \in Status /\ Fits(n) /\ Idle.op = "idle"
  BY DEF TypeOK, StatusInv, Idle, Doing, Task
<1> QED BY <1>1 DEF Fits, Status, JoinOps, Serving

(* A node that asks another keeps its task, and waits for that node.        *)
LEMMA AsksTask ==
    ASSUME TypeOK, NEW n \in Node, NEW box, NEW d \in Node, NEW type, NEW t \in Tasks,
           Asks(n, box, d, type, t)
    PROVE  /\ task'[n].op = t.op /\ task'[n].id = t.id /\ task'[n].source = t.source
           /\ task'[n].from = t.from /\ task'[n].next = t.next /\ task'[n].asks = d
           /\ \A x \in Node \ {n} : task'[x] = task[x]
<1> DEFINE u == [t EXCEPT !.asks = d]
<1>1. /\ u.op = t.op /\ u.id = t.id /\ u.source = t.source
      /\ u.from = t.from /\ u.next = t.next /\ u.asks = d
  BY DEF Tasks
<1>2. task' = [task EXCEPT ![n] = u]
  BY DEF Asks
<1> HIDE DEF u
<1>3. task'[n] = u /\ \A x \in Node \ {n} : task'[x] = task[x]
  BY <1>2 DEF TypeOK
<1> QED BY <1>1, <1>3

(* A node that ends what it does.                                           *)
LEMMA IdleTask ==
    ASSUME TypeOK, NEW n \in Node, task' = [task EXCEPT ![n] = Idle]
    PROVE  /\ task'[n] = Idle /\ task'[n].op = "idle" /\ task'[n].asks = None
           /\ \A x \in Node \ {n} : task'[x] = task[x]
BY DEF TypeOK, Idle, Doing, Task

LEMMA Ops ==
    /\ Idle.op = "idle" /\ Idle.asks = None
    /\ \A op : Doing(op).op = op /\ Doing(op).asks = None
    /\ \A s : Refresh(s).op = "fingers" /\ Refresh(s).asks = None /\ Refresh(s).source = s
BY DEF Idle, Doing, Refresh, Task

(* Tasks that begin a lookup, or go on with it.                             *)
LEMMA NewLookup ==
    ASSUME NEW op \in {"find_succ", "find_pred", "ask_pred"}, NEW id \in Points,
           NEW source \in Node, NEW from \in Node \cup {None}
    PROVE  /\ Task(op, id, source, from) \in Tasks
           /\ Task(op, id, source, from).op = op
           /\ Task(op, id, source, from).id = id
           /\ Task(op, id, source, from).source = source
           /\ Task(op, id, source, from).from = from
<1>1. Task(op, id, source, from) \in Tasks
  BY LookupTask DEF GoodTasks
<1> QED BY <1>1 DEF Task

WithOp(t, op) == [t EXCEPT !.op = op]

LEMMA NextLookup ==
    ASSUME NEW t \in Tasks, NEW op \in Operations
    PROVE  /\ WithOp(t, op) \in Tasks /\ WithOp(t, op).op = op
           /\ WithOp(t, op).id = t.id /\ WithOp(t, op).source = t.source
           /\ WithOp(t, op).from = t.from
BY DEF Tasks, WithOp

(* What a node that reads a question has read.                              *)
LEMMA ReadHead ==
    ASSUME TypeOK, NEW n \in Node, NEW type, Reads(n, type)
    PROVE  LET m == Head(inbox[n])
           IN  /\ m \in Requests /\ m.type = type
               /\ type # "KEY" => m.id \in Points /\ m.source \in Node /\ m.from \in Node
BY ReadType, TypeOKParts

LEMMA HopNode ==
    ASSUME TypeOK, NEW n \in Node, NEW id
    PROVE  Hop(n, id) \in Node /\ LocalSucc(n, id) \in Node /\ Succ(n) \in Node
BY LookupType DEF TypeOK

LEMMA ServeStatus ==
    ASSUME TypeOK, StatusInv, NEW n \in Node, Serve(n)
    PROVE  StatusInv'
<1>1. status[n] = "up" /\ task[n].op = "idle"
  BY DEF Serve, TellSucc, TellPred, SetSucc, SetPred, FindSucc, FindPred, FindFinger,
         ExecuteKey, ForwardKey, DropKey, Reads, Listens
<1>2. CASE Dies(n)
  BY <1>2, StatusDies
<1>3. CASE TellSucc(n) \/ TellPred(n) \/ SetSucc(n) \/ SetPred(n)
             \/ (ExecuteKey(n) /\ ~Dies(n))
  <2>1. /\ task' = task /\ status' = status
        /\ \A x \in Node \ {n} : finger'[x] = finger[x]
    BY <1>3 DEF TellSucc, TellPred, SetSucc, SetPred, ExecuteKey, ring, TypeOK
  <2> QED BY <1>1, <2>1, StatusUp DEF JoinOps
<1>4. CASE FindFinger(n)
  <2>1. /\ status' = status /\ finger' = finger
        /\ task' = task \/ task' = [task EXCEPT ![n] = Refresh(Head(inbox[n]).source)]
    BY <1>4 DEF FindFinger, ring
  <2>2. task'[n].op \in {"idle", "fingers"} /\ \A x \in Node \ {n} : task'[x] = task[x]
    BY <1>1, <2>1, Ops DEF TypeOK
  <2> QED BY <1>1, <2>1, <2>2, StatusUp DEF JoinOps
<1>5. CASE FindSucc(n)
  <2> DEFINE m == Head(inbox[n])
             t == Task("find_succ", m.id, m.source, m.from)
  <2>1. /\ status' = status /\ finger' = finger
        /\ task' = task \/ Asks(n, Rest(n), Hop(n, m.id), "FIND_SUCC", t)
    BY <1>5 DEF FindSucc, ring
  <2>2. t \in Tasks /\ t.op = "find_succ" /\ Hop(n, m.id) \in Node
    <3>1. m.id \in Points /\ m.source \in Node /\ m.from \in Node
      BY <1>5, ReadHead DEF FindSucc
    <3> QED BY <3>1, NewLookup, HopNode
  <2> HIDE DEF t
  <2>3. task'[n].op \in {"idle", "find_succ"} /\ \A x \in Node \ {n} : task'[x] = task[x]
    BY <1>1, <2>1, <2>2, AsksTask
  <2> QED BY <1>1, <2>1, <2>3, StatusUp DEF JoinOps
<1>6. CASE FindPred(n) /\ ~Dies(n)
  <2> DEFINE m == Head(inbox[n])
             t == Task("find_pred", m.id, m.source, m.from)
             u == WithOp(t, "tell_pred")
             s == LocalSucc(n, m.id)
  <2>1. \/ PredOf(n, s, t, Rest(n))
        \/ Asks(n, Rest(n), Hop(n, m.id), "FIND_SUCC", t) /\ UNCHANGED ring
    BY <1>6 DEF FindPred
  <2>2. /\ t \in Tasks /\ t.op = "find_pred" /\ Hop(n, m.id) \in Node /\ s \in Node
        /\ u \in Tasks /\ u.op = "tell_pred"
    <3>1. m.id \in Points /\ m.source \in Node /\ m.from \in Node
      BY <1>6, ReadHead DEF FindPred
    <3>2. t \in Tasks /\ t.op = "find_pred"
      BY <3>1, NewLookup
    <3> HIDE DEF t
    <3> QED BY <3>2, NextLookup, HopNode DEF Operations
  <2> HIDE DEF t, u, s
  <2>3. /\ status' = status /\ finger' = finger
        /\ \/ task' = [task EXCEPT ![n] = Idle]
           \/ Asks(n, Rest(n), s, "TELL_PRED", u)
           \/ Asks(n, Rest(n), Hop(n, m.id), "FIND_SUCC", t)
    BY <2>1 DEF PredOf, ring, u, WithOp
  <2>4. /\ task'[n].op \in {"idle", "find_pred", "tell_pred"}
        /\ \A x \in Node \ {n} : task'[x] = task[x]
    <3>1. CASE task' = [task EXCEPT ![n] = Idle]
      BY <3>1, IdleTask
    <3>2. CASE Asks(n, Rest(n), s, "TELL_PRED", u)
      BY <2>2, <3>2, AsksTask
    <3>3. CASE Asks(n, Rest(n), Hop(n, m.id), "FIND_SUCC", t)
      BY <2>2, <3>3, AsksTask
    <3> QED BY <2>3, <3>1, <3>2, <3>3
  <2> QED BY <1>1, <2>3, <2>4, StatusUp DEF JoinOps
<1>7. CASE (ForwardKey(n) \/ DropKey(n)) /\ ~Dies(n)
  <2>1. /\ status' = status /\ finger' = finger
        /\ task' = task \/ task' = [task EXCEPT ![n] = Doing("read_client")]
    BY <1>7 DEF ForwardKey, DropKey, ReadsAgain, ring
  <2>2. task'[n].op \in {"idle", "read_client"} /\ \A x \in Node \ {n} : task'[x] = task[x]
    BY <1>1, <2>1, Ops DEF TypeOK
  <2> QED BY <1>1, <2>1, <2>2, StatusUp DEF JoinOps
<1> QED BY <1>2, <1>3, <1>4, <1>5, <1>6, <1>7 DEF Serve

LEMMA LookupStatus ==
    ASSUME TypeOK, StatusInv, NEW n \in Node, Lookup(n)
    PROVE  StatusInv'
<1>1. PICK v \in Node \cup {None} : SuccFound(n, v) \/ SuccOfFound(n, v) \/ PredFound(n, v)
  BY DEF Lookup
<1>2. status[n] = "up"
  BY <1>1, OpStatus DEF SuccFound, SuccOfFound, PredFound, Gets, Serving
<1>3. CASE SuccFound(n, v) \/ PredFound(n, v)
  <2>1. task' = [task EXCEPT ![n] = Idle] /\ status' = status /\ finger' = finger
    BY <1>3 DEF SuccFound, PredFound, ring
  <2> QED BY <1>2, <2>1, StatusUp, Ops DEF JoinOps, TypeOK
<1>4. CASE SuccOfFound(n, v) /\ v = None
  BY <1>4, StatusDies DEF SuccOfFound
<1>5. CASE SuccOfFound(n, v) /\ v # None
  <2> DEFINE u == WithOp(task[n], "tell_pred")
  <2>1. /\ status' = status /\ finger' = finger
        /\ \/ task' = [task EXCEPT ![n] = Idle]
           \/ Asks(n, inbox, v, "TELL_PRED", u)
    BY <1>5 DEF SuccOfFound, PredOf, ring, WithOp
  <2>2. u \in Tasks /\ u.op = "tell_pred" /\ v \in Node
    BY <1>5, NextLookup DEF TypeOK, Operations
  <2> HIDE DEF u
  <2>3. /\ task'[n].op \in {"idle", "tell_pred"}
        /\ \A x \in Node \ {n} : task'[x] = task[x]
    BY <2>1, <2>2, AsksTask, IdleTask
  <2> QED BY <1>2, <2>1, <2>3, StatusUp DEF JoinOps
<1> QED BY <1>1, <1>3, <1>4, <1>5

LEMMA FingersStatus ==
    ASSUME TypeOK, StatusInv, NEW n \in Node, UpdateFingers(n)
    PROVE  StatusInv'
<1>1. task[n].op = "fingers" /\ Fits(n) /\ status[n] \in {"up", "joining"}
  BY OpStatus DEF UpdateFingers, FingerLocal, FingerAsk, PassRefreshOn, FingerFound, Renews, Looks,
                  StatusInv
<1>2. ASSUME status' = status, \A x \in Node \ {n} : task'[x] = task[x] /\ finger'[x] = finger[x],
             task'[n].op = "fingers" \/ task'[n].op = IF status[n] = "joining" THEN "listen" ELSE "idle"
      PROVE  StatusInv'
  <2>1. Fits(n)'
    BY <1>1, <1>2 DEF Fits, Asking, JoinOps
  <2> QED BY <1>2, <2>1, StatusOthers
<1>3. CASE Dies(n)
  BY <1>3, StatusDies
<1>4. task[n] \in Tasks
  BY DEF TypeOK
<1>5. ASSUME task' = [task EXCEPT ![n] = Renewed(@)], status' = status,
             \A x \in Node \ {n} : finger'[x] = finger[x]
      PROVE  StatusInv'
  <2>1. Renewed(task[n]).op = "fingers"
    BY <1>1, <1>4 DEF Renewed, Tasks
  <2> QED BY <1>2, <1>5, <2>1 DEF TypeOK
<1>6. CASE FingerLocal(n)
  BY <1>5, <1>6 DEF FingerLocal, TypeOK
<1>7. CASE FingerAsk(n) /\ ~Dies(n)
  <2>1. \E d : task' = [task EXCEPT ![n].asks = d] /\ UNCHANGED ring
    BY <1>7 DEF FingerAsk
  <2>2. task'[n].op = "fingers" /\ \A x \in Node \ {n} : task'[x] = task[x]
    BY <1>1, <1>4, <2>1 DEF TypeOK, Tasks
  <2> QED BY <1>2, <2>1, <2>2 DEF ring
<1>8. CASE (\E v \in Node \cup {None} : FingerFound(n, v)) /\ ~Dies(n)
  BY <1>5, <1>8 DEF FingerFound, TypeOK
<1>9. CASE PassRefreshOn(n) /\ ~Dies(n)
  <2>1. /\ task' = [task EXCEPT ![n] = IF status[n] = "joining" THEN Doing("listen") ELSE Idle]
        /\ UNCHANGED ring
    BY <1>9 DEF PassRefreshOn
  <2>2. /\ task'[n].op = IF status[n] = "joining" THEN "listen" ELSE "idle"
        /\ \A x \in Node \ {n} : task'[x] = task[x]
    BY <2>1, Ops DEF TypeOK
  <2> QED BY <1>2, <2>1, <2>2 DEF ring
<1> QED BY <1>3, <1>6, <1>7, <1>8, <1>9 DEF UpdateFingers

LEMMA ContactStatus ==
    ASSUME TypeOK, StatusInv, NEW n \in Node, MakeContact(n)
    PROVE  StatusInv'
<1>1. task[n].op \in JoinOps /\ Fits(n) /\ status[n] = "joining"
  BY OpStatus DEF MakeContact, LearnPred, LearnSucc, LinkSucc, Listen, Gets, JoinOps, StatusInv
<1>2. CASE Dies(n)
  BY <1>2, StatusDies
<1>3. ASSUME NEW v \in Node \cup {None}, LearnPred(n, v), ~Dies(n) PROVE StatusInv'
  <2> DEFINE t == WithOp(task[n], "ask_succ")
  <2>1. /\ Asks(n, inbox, v, "TELL_SUCC", t) /\ UNCHANGED <<status, finger>>
        /\ task[n].op = "ask_pred" /\ v \in Node
    BY <1>3 DEF LearnPred, Gets, WithOp
  <2>2. t \in Tasks /\ t.op = "ask_succ"
    BY NextLookup DEF TypeOK, Operations
  <2> HIDE DEF t
  <2>3. task'[n].op = "ask_succ" /\ \A x \in Node \ {n} : task'[x] = task[x]
    BY <2>1, <2>2, AsksTask
  <2>4. Fits(n)'
    BY <1>1, <2>1, <2>3 DEF Fits, Asking, JoinOps
  <2> QED BY <2>1, <2>3, <2>4, StatusOthers
<1>4. ASSUME NEW v, LearnSucc(n, v) PROVE StatusInv'
  <2>1. /\ task' = [task EXCEPT ![n] = Doing("link_succ")] /\ status' = status
        /\ \A x \in Node \ {n} : finger'[x] = finger[x]
    BY <1>4 DEF LearnSucc, TypeOK
  <2>2. task'[n].op = "link_succ" /\ \A x \in Node \ {n} : task'[x] = task[x]
    BY <2>1, Ops DEF TypeOK
  <2>3. Fits(n)'
    BY <1>1, <2>1, <2>2 DEF Fits, Asking, JoinOps
  <2> QED BY <2>1, <2>2, <2>3, StatusOthers
<1>5. CASE LinkSucc(n) /\ ~Dies(n)
  <2>1. task' = [task EXCEPT ![n] = Refresh(n)] /\ status' = status /\ finger' = finger
    BY <1>5 DEF LinkSucc, ring
  <2>2. task'[n].op = "fingers" /\ \A x \in Node \ {n} : task'[x] = task[x]
    BY <2>1, Ops DEF TypeOK
  <2>3. Fits(n)'
    BY <1>1, <2>1, <2>2 DEF Fits, Asking, JoinOps
  <2> QED BY <2>1, <2>2, <2>3, StatusOthers
<1>6. CASE Listen(n)
  <2>1. /\ status' = [status EXCEPT ![n] = "up"] /\ task' = [task EXCEPT ![n] = Idle]
        /\ finger' = finger
    BY <1>6 DEF Listen
  <2>2. /\ task'[n].op = "idle" /\ status'[n] = "up"
        /\ \A x \in Node \ {n} : task'[x] = task[x] /\ status'[x] = status[x]
    BY <2>1, Ops DEF TypeOK
  <2>3. Fits(n)'
    BY <2>2 DEF Fits, Asking, JoinOps
  <2> QED BY <2>1, <2>2, <2>3, StatusOthers
<1> QED BY <1>2, <1>3, <1>4, <1>5, <1>6 DEF MakeContact

LEMMA JoinStatus ==
    ASSUME TypeOK, StatusInv, Paced, NEW n \in Node, NEW c \in Node, Join(n, c)
    PROVE  StatusInv'
<1> DEFINE t == Task("ask_pred", n, n, None)
<1>1. /\ status' = [status EXCEPT ![n] = "joining"] /\ finger' = finger /\ AtRest
      /\ Asks(n, inbox, c, "FIND_PRED", t) /\ status[n] = "off"
  BY DEF Join
<1>2. t \in Tasks /\ t.op = "ask_pred"
  <2>1. n \in Points
    BY NodesOnCircle
  <2> QED BY <2>1, NewLookup
<1> HIDE DEF t
<1>3. /\ task'[n].op = "ask_pred" /\ \A x \in Node \ {n} : task'[x] = task[x]
      /\ status'[n] = "joining" /\ \A x \in Node \ {n} : status'[x] = status[x]
  <2>1. task'[n].op = "ask_pred" /\ \A x \in Node \ {n} : task'[x] = task[x]
    BY <1>1, <1>2, AsksTask
  <2> QED BY <1>1, <2>1 DEF TypeOK
<1>4. OneJoins'
  BY <1>1, <1>3 DEF AtRest, OneJoins
<1>5. ASSUME NEW x \in Node PROVE Fits(x)'
  <2>1. Fits(x)
    BY DEF StatusInv
  <2>2. CASE x = n
    BY <1>1, <1>3, <2>1, <2>2 DEF Fits, JoinOps
  <2>3. CASE x # n
    BY <1>1, <1>3, <2>1, <2>3 DEF Fits, Asking
  <2> QED BY <2>2, <2>3
<1> QED BY <1>4, <1>5 DEF StatusInv

LEMMA ClientStatus ==
    ASSUME TypeOK, StatusInv, NEW n \in Node, UNCHANGED ring,
           \/ task' = task
           \/ task[n].op = "read_client" /\ task' = [task EXCEPT ![n] = Idle]
    PROVE  StatusInv'
<1>1. CASE task' = task
  BY <1>1 DEF StatusInv, OneJoins, Fits, Asking, ring
<1>2. CASE task[n].op = "read_client" /\ task' = [task EXCEPT ![n] = Idle]
  <2>1. status[n] = "up"
    BY <1>2, OpStatus
  <2>2. task'[n].op = "idle" /\ \A x \in Node \ {n} : task'[x] = task[x]
    BY <1>2, Ops DEF TypeOK
  <2> QED BY <2>1, <2>2, StatusUp DEF ring, JoinOps
<1> QED BY <1>1, <1>2

LEMMA StatusStep == Paced /\ TypeOK /\ StatusInv /\ [Next]_vars => StatusInv'
<1> SUFFICES ASSUME Paced, TypeOK, StatusInv, [Next]_vars PROVE StatusInv'
  OBVIOUS
<1>1. CASE UNCHANGED vars
  BY <1>1 DEF vars, ring, net, StatusInv, OneJoins, Fits, Asking
<1>2. ASSUME NEW n \in Node, Runs(n) PROVE StatusInv'
  BY <1>2, ServeStatus, LookupStatus, FingersStatus, ContactStatus DEF Runs
<1>3. ASSUME NEW n \in Node, EmptyRead(n) PROVE StatusInv'
  BY <1>3, ClientStatus DEF EmptyRead
<1>4. ASSUME NEW n \in Node, NEW c \in Node, Join(n, c) PROVE StatusInv'
  BY <1>4, JoinStatus
<1>5. ASSUME NEW n \in Node, NEW k \in Key, Connect(n, k) \/ SendAgain(n, k) PROVE StatusInv'
  BY <1>5, ClientStatus DEF Connect, SendAgain
<1>6. ASSUME NEW n \in Node, CloseClient(n) PROVE StatusInv'
  BY <1>6, ClientStatus DEF CloseClient
<1> QED BY <1>1, <1>2, <1>3, <1>4, <1>5, <1>6 DEF Next

-----------------------------------------------------------------------------
(* What a step leaves in the inboxes.                                       *)

LEMMA RestBox ==
    ASSUME TypeOK, NEW n \in Node, NEW type, Reads(n, type)
    PROVE  /\ Rest(n) \in Inboxes
           /\ \A x \in Node \ {n} : Rest(n)[x] = inbox[x]
           /\ Head(inbox[n]) \in Requests /\ Head(inbox[n]).type = type
           /\ Box(n) = Elems(Rest(n)[n]) \cup {Head(inbox[n])}
           /\ Single(inbox[n]) =>
                /\ Single(Rest(n)[n])
                /\ type \in Questions =>
                     \A m \in Elems(Rest(n)[n]) :
                        m.type \in Questions => m.from # Head(inbox[n]).from
<1>1. inbox[n] \in Seq(Requests) /\ inbox[n] # <<>> /\ Head(inbox[n]).type = type
  BY DEF TypeOK, Reads
<1>2. Rest(n)[n] = Tail(inbox[n]) /\ \A x \in Node \ {n} : Rest(n)[x] = inbox[x]
  BY DEF Rest, TypeOK
<1>3. Rest(n) \in Inboxes
  BY ReadType, TypeOKParts
<1> QED BY <1>1, <1>2, <1>3, TailElems DEF Box

LEMMA PostBox ==
    ASSUME NEW box \in Inboxes, NEW d \in Node, NEW r \in Requests,
           inbox' = [box EXCEPT ![d] = Append(@, r)]
    PROVE  /\ inbox' \in Inboxes
           /\ \A x \in Node \ {d} : inbox'[x] = box[x]
           /\ Box(d)' = Elems(box[d]) \cup {r}
           /\ \A x \in Node \ {d} : Box(x)' = Elems(box[x])
           /\ Single(box[d]) /\ (r.type \in Questions =>
                 \A m \in Elems(box[d]) : m.type \in Questions => m.from # r.from)
              => Single(inbox'[d])
<1>1. inbox'[d] = Append(box[d], r) /\ \A x \in Node \ {d} : inbox'[x] = box[x]
  BY DEF Inboxes
<1>2. box[d] \in Seq(Requests)
  BY DEF Inboxes
<1>3. inbox' \in Inboxes
  BY PostType
<1> QED BY <1>1, <1>2, <1>3, ElemsAppend, SingleAppend DEF Box

LEMMA DropBox ==
    ASSUME NEW n \in Node, NEW box \in Inboxes, NEW k \in 0 .. Len(box[n]),
           LosesBatch(n, box, k)
    PROVE  /\ \A x \in Node \ {n} : inbox'[x] = box[x] /\ Box(x)' = Elems(box[x])
           /\ Box(n)' \subseteq Elems(box[n])
           /\ \A m \in Elems(box[n]) : m \in Box(n)' \/ m.type \in lost'
           /\ Single(box[n]) => Single(inbox'[n])
           /\ lost \subseteq lost'
<1> DEFINE t == SubSeq(box[n], k + 1, Len(box[n]))
<1>1. box[n] \in Seq(Requests) /\ Len(box[n]) \in Nat
  BY DEF Inboxes
<1>2. inbox'[n] = t /\ \A x \in Node \ {n} : inbox'[x] = box[x]
  BY DEF Inboxes, LosesBatch
<1>3. t \in Seq(Requests) /\ Len(t) = Len(box[n]) - k /\ \A i \in 1 .. Len(t) : t[i] = box[n][i + k]
  <2>1. Len(t) = Len(box[n]) - k
    BY <1>1, SubSeqProperties
  <2>2. \A i \in 1 .. Len(t) : t[i] = box[n][k + 1 + i - 1] /\ k + 1 + i - 1 = i + k
    BY <1>1, <2>1, SubSeqProperties
  <2>3. t \in Seq(Requests)
    BY <1>1, SubSeqProperties
  <2> QED BY <2>1, <2>2, <2>3
<1> HIDE DEF t
<1>4. /\ Elems(t) \subseteq Elems(box[n])
      /\ \A m \in Elems(box[n]) : m \in Elems(t) \/ \E j \in 1 .. k : m = box[n][j]
      /\ Single(box[n]) => Single(t)
  BY <1>1, <1>3, ElemsDrop
<1>5. \A j \in 1 .. k : box[n][j].type \in lost'
  BY DEF LosesBatch
<1>6. lost \subseteq lost'
  BY DEF LosesBatch
<1> QED BY <1>2, <1>4, <1>5, <1>6 DEF Box

(* No SET_SUCC and no SET_PRED is lost when the links stay intact.          *)
LEMMA LinksKept ==
    ASSUME NEW n \in Node, NEW box \in Inboxes, NEW k \in 0 .. Len(box[n]),
           LosesBatch(n, box, k), Intact', NEW type \in {"SET_SUCC", "SET_PRED"},
           NEW m \in Elems(box[n]), m.type = type
    PROVE  m \in Box(n)'
<1>1. m \in Box(n)' \/ m.type \in lost'
  BY DropBox
<1> QED BY <1>1 DEF Intact, Linked

-----------------------------------------------------------------------------
(* What a step leaves as it is.                                             *)

LinkOps == {"ask_pred", "ask_succ", "link_succ"}

LEMMA CircleSame ==
    ASSUME \A x \in Node : /\ status'[x] \in {"up", "joining"} <=> status[x] \in {"up", "joining"}
                           /\ Asking(x)' <=> Asking(x)
    PROVE  Circle' = Circle
BY DEF Circle

LEMMA RingFrame ==
    ASSUME TypeOK, RingInv, Circle' = Circle,
           \A x \in Node : Succ(x)' = Succ(x),
           \A x \in Circle, i \in Indices : finger'[x][i] \in Circle,
           \A x \in Circle : pred'[x] = pred[x],
           \A x \in Node : task'[x].op = "link_succ" <=> task[x].op = "link_succ",
           \/ \A x \in Node : Asking(x)' => Asking(x)
           \/ \A x \in Node, type \in {"SET_SUCC", "SET_PRED"} : LinksTo(x, type) = {},
           \A x \in Node, type \in {"SET_SUCC", "SET_PRED"} :
              LinksTo(x, type)' = LinksTo(x, type)
    PROVE  RingInv'
<1>1. \A p, n : (Follows(p, n)' <=> Follows(p, n)) /\ (Leads(p, n)' <=> Leads(p, n))
  BY DEF Follows, Leads, Adjacent
<1>3. ASSUME NEW n \in Circle PROVE SuccKnown(n)'
  <2>1. SuccKnown(n) /\ n \in Node
    BY CircleNodes DEF RingInv
  <2>2. LinksTo(n, "SET_SUCC")' = LinksTo(n, "SET_SUCC")
    BY <2>1
  <2> QED BY <1>1, <2>1, <2>2 DEF SuccKnown
<1>4. ASSUME NEW n \in Circle PROVE PredKnown(n)'
  <2>1. PredKnown(n) /\ n \in Node /\ pred'[n] = pred[n]
    BY CircleNodes DEF RingInv
  <2>2. LinksTo(n, "SET_PRED")' = LinksTo(n, "SET_PRED")
    BY <2>1
  <2> QED BY <1>1, <2>1, <2>2 DEF PredKnown
<1>5. \A x \in Node : task'[x].op = "link_succ" => Follows(x, Succ(x))'
  BY <1>1 DEF RingInv
<1>6. \A n \in Circle, i \in Indices : finger'[n][i] \in Circle
  BY DEF RingInv
<1>7. \A x, n \in Node, type \in {"SET_SUCC", "SET_PRED"} :
         Asking(x)' => LinksTo(n, type)' = {}
  BY DEF RingInv
<1> QED BY <1>3, <1>4, <1>5, <1>6, <1>7 DEF RingInv

(* The task of one node changes, and it is neither about to join before nor *)
(* after.                                                                   *)
LEMMA RingFrameOne ==
    ASSUME TypeOK, RingInv, NEW n \in Node, UNCHANGED ring,
           task[n].op \notin LinkOps, task'[n].op \notin LinkOps,
           \A x \in Node \ {n} : task'[x] = task[x],
           \A x \in Node, type \in {"SET_SUCC", "SET_PRED"} :
              LinksTo(x, type)' = LinksTo(x, type)
    PROVE  Circle' = Circle /\ RingInv'
<1>1. \A x \in Node : Asking(x)' <=> Asking(x)
  BY DEF Asking, LinkOps
<1>2. \A x \in Node : task'[x].op = "link_succ" <=> task[x].op = "link_succ"
  BY DEF LinkOps
<1>3. Circle' = Circle
  BY <1>1, CircleSame DEF ring
<1>4. /\ \A x \in Node : Succ(x)' = Succ(x)
      /\ \A x \in Circle, i \in Indices : finger'[x][i] \in Circle
  BY DEF ring, Succ, RingInv
<1> QED BY <1>1, <1>2, <1>3, <1>4, RingFrame DEF ring

Free(n) == task[n].asks = None \/ answer[n] # {}

LEMMA NothingOwed ==
    ASSUME TypeOK, TokenInv, NEW n \in Node, Free(n), NEW d \in Node
    PROVE  /\ ~Owes(d, n)
           /\ \A m \in AskedOf(d) : m.from # n
           /\ task[d].op \in Serving => task[d].from # n
<1>1. d # None
  BY NodesOnCircle
<1>2. ~Owes(d, n)
  BY <1>1 DEF Free, TokenInv
<1> QED BY <1>2 DEF Owes

(* A question of a node is one of the messages in the inbox.                *)
LEMMA AskedFrom ==
    ASSUME TypeOK, NEW d \in Node, NEW m \in AskedOf(d)
    PROVE  m \in Requests /\ m.from \in Node /\ m.type \in Questions /\ Owes(d, m.from)
<1>1. m \in Requests /\ m.type \in Questions
  BY BoxType DEF AskedOf
<1>2. m.type # "KEY"
  BY <1>1 DEF Questions
<1> QED BY <1>1, <1>2, RequestFields DEF Owes

(* An answer stays right as long as nobody else begins to join.             *)
LEMMA AnswerFrame ==
    ASSUME TypeOK, TokenInv, NEW x \in Node, AnswerOf(x), Circle' = Circle,
           task'[x] = task[x], answer'[x] = answer[x], pred'[x] = pred[x],
           \A y \in Node : task'[y].op = "ask_pred" => task[y].op = "ask_pred"
    PROVE  AnswerOf(x)'
<1>1. \A p, n : Adjacent(p, n)' <=> Adjacent(p, n)
  BY DEF Adjacent
<1>2. task[x].op \in {"find_succ", "find_pred"} => task[x].source \in Node
  BY DEF TokenInv, ServingInv, LooksUpFor, Serving
<1>3. ASSUME NEW v \in answer[x] PROVE RightAnswer(x, v)'
  BY <1>1, <1>2 DEF AnswerOf, RightAnswer
<1> QED BY <1>1, <1>3 DEF AnswerOf, Follows, Leads

QuietTask(t) == t.asks = None /\ t.op \notin Serving \cup {"ask_pred", "ask_succ"}

(* A step of a node that nobody waits for, and that waits for nobody when   *)
(* it is done.                                                              *)
LEMMA QuietTokens ==
    ASSUME TypeOK, TokenInv, NEW n \in Node,
           \A x \in Node \ {n} : task'[x] = task[x] /\ answer'[x] = answer[x],
           Free(n), task[n].op \notin Serving, QuietTask(task'[n]), answer'[n] = {},
           \A x \in Node : AskedOf(x)' \subseteq AskedOf(x) /\ Single(inbox'[x])
    PROVE  TokenInv'
<1>1. \A d \in Node : /\ ~Owes(d, n)
                      /\ \A m \in AskedOf(d) : m.from # n
                      /\ task[d].op \in Serving => task[d].from # n
  BY NothingOwed
<1>2. \A d, f \in Node : Owes(d, f)' => Owes(d, f)
  BY DEF Owes, QuietTask
<1>3. ASSUME NEW d \in Node, NEW f \in Node, Owes(d, f)' PROVE task'[f].asks = d /\ answer'[f] = {}
  <2>1. f # n /\ task[f].asks = d /\ answer[f] = {}
    BY <1>1, <1>2, <1>3 DEF TokenInv
  <2> QED BY <2>1
<1>4. ASSUME NEW f \in Node, NEW id, NEW source, f # n, LooksUpFor(f, id, source)
      PROVE  LooksUpFor(f, id, source)'
  BY <1>4 DEF LooksUpFor, QuietTask
<1>5. ASSUME NEW d \in Node PROVE OwesOnce(d)' /\ ServingInv(d)'
  <2>1. CASE d = n
    BY <2>1 DEF OwesOnce, ServingInv, QuietTask, Serving
  <2>2. CASE d # n
    <3>1. OwesOnce(d) /\ ServingInv(d) /\ task'[d] = task[d] /\ Single(inbox'[d])
      BY <2>2 DEF TokenInv
    <3>2. OwesOnce(d)'
      BY <3>1 DEF OwesOnce
    <3>3. task[d].op \in Serving => task[d].from \in Node \ {n}
      BY <1>1, <3>1 DEF ServingInv
    <3>4. task[d].op = "find_succ" => LooksUpFor(task[d].from, task[d].id, task[d].source)'
      BY <1>4, <3>1, <3>3 DEF ServingInv, Serving
    <3> QED BY <3>1, <3>2, <3>3, <3>4 DEF ServingInv, Serving
  <2> QED BY <2>1, <2>2
<1>6. ASSUME NEW d \in Node, NEW m \in AskedOf(d)' PROVE AskedInv(d, m)'
  <2>1. m \in AskedOf(d) /\ AskedInv(d, m) /\ m.from \in Node \ {n}
    BY <1>1, AskedFrom DEF TokenInv
  <2> QED BY <1>4, <2>1 DEF AskedInv
<1>7. \A x \in Node : /\ task'[x].asks = None => answer'[x] = {}
                      /\ Rests(x)' => task'[x].asks = None
  BY DEF TokenInv, QuietTask, Rests
<1> QED BY <1>3, <1>5, <1>6, <1>7 DEF TokenInv

LEMMA TokensQuiet ==
    ASSUME TypeOK, TokenInv, AnswerInv, NEW n \in Node, Circle' = Circle,
           \A x \in Node \ {n} : pred'[x] = pred[x] /\ task'[x] = task[x] /\ answer'[x] = answer[x],
           Free(n), task[n].op \notin Serving, QuietTask(task'[n]), answer'[n] = {},
           \A x \in Node : AskedOf(x)' \subseteq AskedOf(x) /\ Single(inbox'[x])
    PROVE  TokenInv' /\ AnswerInv'
<1>1. TokenInv'
  BY QuietTokens
<1>2. ASSUME NEW x \in Node \ {n} PROVE AnswerOf(x)'
  <2>1. AnswerOf(x)
    BY DEF AnswerInv
  <2> QED BY <2>1, AnswerFrame DEF QuietTask
<1>3. AnswerOf(n)'
  BY DEF AnswerOf, QuietTask, Serving
<1> QED BY <1>1, <1>2, <1>3 DEF AnswerInv

(* The lookups of the others go on as before, when a node that none of them *)
(* is for takes up something else.                                          *)
LEMMA LooksUpFrame ==
    ASSUME NEW n \in Node, \A x \in Node \ {n} : task'[x] = task[x],
           task'[n].op = "ask_pred" => task[n].op = "ask_pred",
           NEW f \in Node \ {n}, NEW id, NEW source, LooksUpFor(f, id, source)
    PROVE  LooksUpFor(f, id, source)'
BY DEF LooksUpFor

LEMMA AskedFrame ==
    ASSUME TypeOK, TokenInv, NEW n \in Node, Free(n),
           \A x \in Node \ {n} : task'[x] = task[x],
           task'[n].op = "ask_pred" => task[n].op = "ask_pred",
           NEW d \in Node, NEW m \in AskedOf(d)
    PROVE  AskedInv(d, m)'
<1>1. AskedInv(d, m) /\ m.from \in Node \ {n}
  BY NothingOwed, AskedFrom DEF TokenInv
<1>2. m.type = "FIND_SUCC" => LooksUpFor(m.from, m.id, m.source)'
  BY <1>1, LooksUpFrame DEF AskedInv
<1> QED BY <1>1, <1>2 DEF AskedInv

LEMMA ServingFrame ==
    ASSUME TypeOK, TokenInv, NEW n \in Node, Free(n),
           \A x \in Node \ {n} : task'[x] = task[x],
           task'[n].op = "ask_pred" => task[n].op = "ask_pred",
           NEW d \in Node \ {n}
    PROVE  ServingInv(d)'
<1>1. ServingInv(d) /\ (task[d].op \in Serving => task[d].from \in Node \ {n})
  BY NothingOwed DEF TokenInv, ServingInv
<1>2. task[d].op = "find_succ" => LooksUpFor(task[d].from, task[d].id, task[d].source)'
  BY <1>1, LooksUpFrame DEF ServingInv, Serving
<1> QED BY <1>1, <1>2 DEF ServingInv, Serving

(* A node answers one that waits for it, and has nothing to do any more.    *)
LEMMA TokensAnswer ==
    ASSUME TypeOK, TokenInv, AnswerInv, NEW n \in Node, NEW f \in Node, NEW v,
           Circle' = Circle, UNCHANGED pred, Owes(n, f), Free(n),
           task[n].op \in Serving => task[n].from = f,
           \A x \in Node \ {n} : task'[x] = task[x],
           QuietTask(task'[n]),
           \/ answer' = [Answered(n, f, v) EXCEPT ![n] = {}]
           \/ answer' = Answered(n, f, v) /\ answer[n] = {},
           RightAnswer(f, v),
           \A x \in Node : AskedOf(x)' \subseteq AskedOf(x) /\ Single(inbox'[x]),
           \A m \in AskedOf(n)' : m.from # f
    PROVE  TokenInv' /\ AnswerInv'
<1>1. task[f].asks = n /\ answer[f] = {} /\ f # n
  BY NodesOnCircle DEF TokenInv, Free
<1>2. v # None
  BY NodesOnCircle, CircleNodes DEF RightAnswer
<1>3. /\ answer'[f] = {v} /\ answer'[n] = {}
      /\ \A x \in Node \ {n, f} : answer'[x] = answer[x]
  <2>1. Answered(n, f, v) = [answer EXCEPT ![f] = {v}]
    BY <1>1, <1>2 DEF Answered
  <2>2. answer \in [Node -> SUBSET (Node \cup {None})]
    BY DEF TypeOK
  <2> QED BY <1>1, <2>1, <2>2
<1>4. \A d \in Node : ~Owes(d, n)
  BY NothingOwed
<1>5. \A d, g \in Node : Owes(d, g)' => Owes(d, g) /\ g # f /\ g # n
  <2> SUFFICES ASSUME NEW d \in Node, NEW g \in Node, Owes(d, g)'
               PROVE  Owes(d, g) /\ g # f /\ g # n
    OBVIOUS
  <2>1. Owes(d, g)
    BY DEF Owes, QuietTask
  <2>2. ASSUME g = f PROVE FALSE
    <3>1. d = n
      BY <1>1, <2>1, <2>2 DEF TokenInv
    <3> QED BY <2>2, <3>1 DEF Owes, QuietTask
  <2> QED BY <1>4, <2>1, <2>2
<1>6. ASSUME NEW d \in Node, NEW g \in Node, Owes(d, g)' PROVE task'[g].asks = d /\ answer'[g] = {}
  BY <1>3, <1>5, <1>6 DEF TokenInv
<1>7. ASSUME NEW d \in Node PROVE OwesOnce(d)' /\ ServingInv(d)'
  <2>1. CASE d = n
    BY <2>1 DEF OwesOnce, ServingInv, QuietTask, Serving
  <2>2. CASE d # n
    <3>1. OwesOnce(d)'
      BY <2>2 DEF TokenInv, OwesOnce
    <3> QED BY <2>2, <3>1, ServingFrame DEF QuietTask
  <2> QED BY <2>1, <2>2
<1>8. ASSUME NEW d \in Node, NEW m \in AskedOf(d)' PROVE AskedInv(d, m)'
  BY <1>8, AskedFrame DEF QuietTask
<1>9. ASSUME NEW x \in Node, task'[x].asks = None PROVE answer'[x] = {}
  <2>1. x # f
    BY <1>1, <1>9, NodesOnCircle
  <2> QED BY <1>3, <1>9, <2>1 DEF TokenInv
<1>10. TokenInv'
  <2>1. \A x \in Node : Rests(x)' => task'[x].asks = None
    BY DEF TokenInv, QuietTask, Rests
  <2> QED BY <1>6, <1>7, <1>8, <1>9, <2>1 DEF TokenInv
<1>11. \A y \in Node : task'[y].op = "ask_pred" => task[y].op = "ask_pred"
  BY DEF QuietTask
<1>12. ASSUME NEW x \in Node \ {n, f} PROVE AnswerOf(x)'
  BY <1>3, <1>11, AnswerFrame DEF AnswerInv
<1>13. AnswerOf(n)'
  BY <1>3 DEF AnswerOf, QuietTask, Serving
<1>14. AnswerOf(f)'
  <2>1. \A p, q : Adjacent(p, q)' <=> Adjacent(p, q)
    BY DEF Adjacent
  <2>2. task[f].op \in {"find_succ", "find_pred"} => task[f].source \in Node
    BY DEF TokenInv, ServingInv, LooksUpFor, Serving
  <2>3. task'[f] = task[f]
    BY <1>1
  <2>4. RightAnswer(f, v)'
    BY <1>11, <2>1, <2>2, <2>3 DEF RightAnswer
  <2>5. AnswerOf(f)
    BY DEF AnswerInv
  <2> QED BY <1>3, <2>1, <2>3, <2>4, <2>5 DEF AnswerOf, Follows, Leads
<1> QED BY <1>10, <1>12, <1>13, <1>14 DEF AnswerInv

(* A node asks another.  What it serves meanwhile, it has served before or  *)
(* has just read.                                                           *)
LEMMA TokensAsk ==
    ASSUME TypeOK, TokenInv, AnswerInv, NEW n \in Node, NEW d \in Node, NEW r \in Requests,
           Circle' = Circle, Free(n),
           \A x \in Node \ {n} : /\ task'[x] = task[x] /\ answer'[x] = answer[x]
                                 /\ pred'[x] = pred[x],
           task'[n].asks = d, answer'[n] = {},
           ~Rests(n)', task'[n].op # "ask_pred",
           r.from = n, AskedInv(d, r)',
           \A x \in Node : Single(inbox'[x]),
           \A x \in Node \ {d} : AskedOf(x)' \subseteq AskedOf(x),
           AskedOf(d)' \subseteq AskedOf(d) \cup {r},
           task'[n].op \in Serving =>
              /\ Owes(n, task'[n].from)
              /\ \A m \in AskedOf(n)' : m.from # task'[n].from,
           ServingInv(n)',
           task'[n].op = "tell_pred" => Follows(task'[n].source, d),
           task'[n].op = "ask_succ" => d = pred'[n] /\ Leads(pred'[n], n)
    PROVE  TokenInv' /\ AnswerInv'
<1>1. \A x \in Node : ~Owes(x, n) /\ \A m \in AskedOf(x) : m.from # n
  BY NothingOwed
<1>2. task'[n].op \in Serving => task'[n].from \in Node
  BY DEF ServingInv
<1>3. ASSUME NEW x \in Node, NEW g \in Node, Owes(x, g)'
      PROVE  (x = d /\ g = n) \/ (Owes(x, g) /\ g # n)
  <2>1. CASE \E m \in AskedOf(x)' : m.from = g
    BY <1>1, <2>1 DEF Owes
  <2>2. CASE task'[x].op \in Serving /\ task'[x].from = g
    BY <1>1, <1>2, <2>2 DEF Owes
  <2> QED BY <1>3, <2>1, <2>2 DEF Owes
<1>4. ASSUME NEW x \in Node, NEW g \in Node, Owes(x, g)' PROVE task'[g].asks = x /\ answer'[g] = {}
  BY <1>3, <1>4 DEF TokenInv
<1>5. ASSUME NEW x \in Node PROVE OwesOnce(x)' /\ ServingInv(x)'
  <2>1. CASE x = n
    BY <2>1 DEF OwesOnce
  <2>2. CASE x # n
    <3>1. task[x].op \in Serving => task[x].from # n
      BY NothingOwed
    <3>2. OwesOnce(x)'
      BY <2>2, <3>1 DEF TokenInv, OwesOnce
    <3> QED BY <2>2, <3>2, ServingFrame
  <2> QED BY <2>1, <2>2
<1>6. ASSUME NEW x \in Node, NEW m \in AskedOf(x)' PROVE AskedInv(x, m)'
  <2>1. CASE m \in AskedOf(x)
    BY <2>1, AskedFrame
  <2>2. CASE m \notin AskedOf(x)
    <3>1. x = d /\ m = r
      BY <1>6, <2>2
    <3> QED BY <3>1
  <2> QED BY <2>1, <2>2
<1>7. \A x \in Node : /\ task'[x].asks = None => answer'[x] = {}
                      /\ Rests(x)' => task'[x].asks = None
  BY NodesOnCircle DEF TokenInv, Rests
<1>8. TokenInv'
  BY <1>4, <1>5, <1>6, <1>7 DEF TokenInv
<1>9. ASSUME NEW x \in Node \ {n} PROVE AnswerOf(x)'
  BY AnswerFrame DEF AnswerInv
<1>10. AnswerOf(n)'
  <2>1. \A p, q : /\ Follows(p, q)' <=> Follows(p, q)
                  /\ Leads(p, q)' <=> Leads(p, q)
    BY DEF Adjacent, Follows, Leads
  <2> QED BY <2>1 DEF AnswerOf
<1> QED BY <1>8, <1>9, <1>10 DEF AnswerInv

-----------------------------------------------------------------------------
(* While a node still asks for its place, all links are right.              *)

LEMMA Settled ==
    ASSUME TypeOK, StatusInv, RingInv, NEW x \in Node, Asking(x)
    PROVE  /\ x \notin Circle
           /\ \A n \in Circle : Follows(n, Succ(n)) /\ Leads(pred[n], n)
<1>1. \A n \in Node, type \in {"SET_SUCC", "SET_PRED"} : LinksTo(n, type) = {}
  BY DEF RingInv
<1>2. ASSUME NEW y \in Node, task[y].op = "link_succ" PROVE FALSE
  <2>1. status[x] = "joining" /\ status[y] = "joining"
    BY <1>2, OpStatus DEF Asking, JoinOps
  <2>2. x = y
    BY <2>1 DEF StatusInv, OneJoins
  <2> QED BY <1>2, <2>2 DEF Asking
<1>3. ASSUME NEW n \in Circle PROVE Follows(n, Succ(n)) /\ Leads(pred[n], n)
  BY <1>1, <1>2, CircleNodes DEF RingInv, SuccKnown, PredKnown
<1> QED BY <1>3 DEF Circle

LEMMA OnCircle ==
    ASSUME TypeOK, StatusInv, NEW n \in Node,
           status[n] = "up" \/ task[n].op \in {"fingers", "link_succ"}
    PROVE  n \in Circle
<1>1. status[n] \in {"up", "joining"} /\ (status[n] = "up" => task[n].op \notin JoinOps)
  BY OpStatus DEF JoinOps
<1> QED BY <1>1 DEF Circle, Asking, JoinOps

(* What a node finds in its own table is on the circle, and follows the     *)
(* node for which it looks, if that one still asks for its place.           *)
LEMMA LocalRight ==
    ASSUME TypeOK, StatusInv, RingInv, NEW n \in Circle, NEW id \in Points,
           NEW source \in Node, Local(n, id, source)
    PROVE  /\ LocalSucc(n, id) \in Circle
           /\ task[source].op = "ask_pred" /\ id = source
                => Adjacent(source, LocalSucc(n, id))
<1>1. n \in Node /\ 0 \in Indices
  BY CircleNodes, BitsAssumption DEF Indices
<1>2. Succ(n) \in Circle
  BY <1>1 DEF RingInv, Succ
<1>3. ASSUME task[source].op = "ask_pred", id = source
      PROVE  Adjacent(source, LocalSucc(n, id))
  <2>1. Asking(source)
    BY <1>3 DEF Asking
  <2>2. source \notin Circle /\ Adjacent(n, Succ(n))
    BY <2>1, Settled DEF Follows
  <2>3. CASE Direct(n, id)
    BY <1>2, <1>3, <2>2, <2>3, DirectFollows DEF LocalSucc, Direct
  <2>4. CASE ~Direct(n, id)
    <3>1. Hop(n, id) \in Circle
      <4>1. ClosestIndex(n, id) \in Indices
        BY <1>1, ClosestType
      <4> QED BY <4>1 DEF RingInv, Hop
    <3>2. Hop(n, id) = n
      BY <2>2, <2>4, <3>1 DEF Local
    <3>3. Succ(n) = n
      BY <1>1, <3>2, HopElsewhere
    <3> QED BY <1>3, <2>2, <2>4, <3>3, AloneFollows DEF LocalSucc
  <2> QED BY <2>3, <2>4
<1> QED BY <1>2, <1>3 DEF LocalSucc

-----------------------------------------------------------------------------
(* Reading a question, and asking one.                                      *)

AskedIn(s) == {m \in Elems(s) : m.type \in Questions}
LinksIn(s, type) == {m \in Elems(s) : m.type = type}

(* Inboxes from which nothing but answered questions has been taken.        *)
Leftover(box) ==
    /\ box \in Inboxes
    /\ \A x \in Node : Single(box[x]) /\ AskedIn(box[x]) \subseteq AskedOf(x)
    /\ \A x \in Node, type \in {"SET_SUCC", "SET_PRED"} : LinksIn(box[x], type) = LinksTo(x, type)

LEMMA InboxLeftover == TypeOK /\ TokenInv => Leftover(inbox)
BY TypeOKParts DEF Leftover, TokenInv, OwesOnce, AskedIn, AskedOf, LinksIn, LinksTo, Box

LEMMA LeftoverKept ==
    ASSUME NEW box, Leftover(box), inbox' = box
    PROVE  /\ \A x \in Node : Single(inbox'[x]) /\ AskedOf(x)' \subseteq AskedOf(x)
           /\ \A x \in Node : AskedOf(x)' = AskedIn(box[x])
           /\ \A x \in Node, type \in {"SET_SUCC", "SET_PRED"} : LinksTo(x, type)' = LinksTo(x, type)
BY DEF Leftover, AskedIn, AskedOf, LinksIn, LinksTo, Box

LEMMA ReadLeftover ==
    ASSUME TypeOK, TokenInv, NEW n \in Node, NEW type, Reads(n, type),
           type \notin {"SET_SUCC", "SET_PRED"}
    PROVE  Leftover(Rest(n))
<1> DEFINE m == Head(inbox[n])
<1>1. /\ Rest(n) \in Inboxes
      /\ \A x \in Node \ {n} : Rest(n)[x] = inbox[x]
      /\ m.type = type
      /\ Box(n) = Elems(Rest(n)[n]) \cup {m}
      /\ Single(Rest(n)[n])
  BY RestBox DEF TokenInv, OwesOnce
<1> HIDE DEF m
<1>2. ASSUME NEW x \in Node
      PROVE  Single(Rest(n)[x]) /\ AskedIn(Rest(n)[x]) \subseteq AskedOf(x)
  <2>1. CASE x = n
    BY <1>1, <2>1 DEF AskedIn, AskedOf
  <2>2. CASE x # n
    BY <1>1, <2>2 DEF AskedIn, AskedOf, TokenInv, OwesOnce, Box
  <2> QED BY <2>1, <2>2
<1>3. ASSUME NEW x \in Node, NEW l \in {"SET_SUCC", "SET_PRED"}
      PROVE  LinksIn(Rest(n)[x], l) = LinksTo(x, l)
  <2>1. CASE x = n
    BY <1>1, <2>1 DEF LinksIn, LinksTo
  <2>2. CASE x # n
    BY <1>1, <2>2 DEF LinksIn, LinksTo, Box
  <2> QED BY <2>1, <2>2
<1> QED BY <1>1, <1>2, <1>3 DEF Leftover

LEMMA QuestionRead ==
    ASSUME TypeOK, StatusInv, Core, NEW n \in Node, NEW type \in Questions, Reads(n, type)
    PROVE  LET m == Head(inbox[n])
           IN  /\ m \in Requests /\ m.type = type
               /\ m.id \in Points /\ m.source \in Node /\ m.from \in Node
               /\ Owes(n, m.from) /\ AskedInv(n, m)
               /\ n \in Circle /\ task[n].asks = None /\ answer[n] = {} /\ Free(n)
               /\ task[n].op = "idle" /\ m.from # n
               /\ Leftover(Rest(n))
               /\ \A q \in AskedIn(Rest(n)[n]) : q.from # m.from
<1> DEFINE m == Head(inbox[n])
<1>1. status[n] = "up" /\ task[n].op = "idle"
  BY DEF Reads, Listens
<1>2. n \in Circle /\ task[n].asks = None /\ answer[n] = {}
  BY <1>1, OnCircle DEF Core, TokenInv, Rests, Resting
<1>3. /\ Rest(n) \in Inboxes
      /\ \A x \in Node \ {n} : Rest(n)[x] = inbox[x]
      /\ m \in Requests /\ m.type = type
      /\ Box(n) = Elems(Rest(n)[n]) \cup {m}
      /\ Single(Rest(n)[n])
      /\ \A q \in Elems(Rest(n)[n]) : q.type \in Questions => q.from # m.from
  BY RestBox DEF Core, TokenInv, OwesOnce
<1> HIDE DEF m
<1>4. type \notin {"KEY", "SET_SUCC", "SET_PRED"}
  BY DEF Questions
<1>5. m.id \in Points /\ m.source \in Node /\ m.from \in Node
  BY <1>3, <1>4, RequestFields
<1>6. m \in AskedOf(n)
  BY <1>3 DEF AskedOf
<1>7. Owes(n, m.from) /\ AskedInv(n, m)
  BY <1>5, <1>6 DEF Owes, Core, TokenInv
<1>8. m.from # n
  BY <1>2, <1>5, <1>7, NodesOnCircle DEF Core, TokenInv
<1>9. Leftover(Rest(n))
  BY <1>4, ReadLeftover DEF Core
<1> QED BY <1>1, <1>2, <1>3, <1>5, <1>7, <1>8, <1>9 DEF m, Free, AskedIn

LEMMA QuestionPosted ==
    ASSUME TypeOK, TokenInv, NEW box, Leftover(box), NEW n \in Node, Free(n), NEW d \in Node,
           NEW r \in Requests, r.type \in Questions, r.from = n,
           inbox' = [box EXCEPT ![d] = Append(@, r)]
    PROVE  /\ \A x \in Node : Single(inbox'[x])
           /\ \A x \in Node \ {d} : AskedOf(x)' = AskedIn(box[x])
           /\ AskedOf(d)' = AskedIn(box[d]) \cup {r}
           /\ \A x \in Node, type \in {"SET_SUCC", "SET_PRED"} : LinksTo(x, type)' = LinksTo(x, type)
<1>1. box \in Inboxes
  BY DEF Leftover
<1>2. /\ \A x \in Node \ {d} : inbox'[x] = box[x] /\ Box(x)' = Elems(box[x])
      /\ Box(d)' = Elems(box[d]) \cup {r}
      /\ Single(box[d]) /\ (\A m \in Elems(box[d]) : m.type \in Questions => m.from # r.from)
            => Single(inbox'[d])
  BY <1>1, PostBox
<1>3. \A m \in Elems(box[d]) : m.type \in Questions => m.from # n
  BY NothingOwed DEF Leftover, AskedIn
<1>4. \A x \in Node : Single(inbox'[x])
  BY <1>2, <1>3 DEF Leftover
<1>5. r.type \notin {"SET_SUCC", "SET_PRED"}
  BY DEF Questions
<1>6. ASSUME NEW x \in Node, NEW type \in {"SET_SUCC", "SET_PRED"}
      PROVE  LinksTo(x, type)' = LinksTo(x, type)
  <2>1. LinksTo(x, type)' = LinksIn(box[x], type)
    BY <1>2, <1>5 DEF LinksTo, LinksIn
  <2> QED BY <2>1 DEF Leftover
<1> QED BY <1>2, <1>4, <1>6 DEF AskedIn, AskedOf

-----------------------------------------------------------------------------
(* The steps of nodes that answer and ask.                                  *)

LEMMA NoDeath == ASSUME TypeOK, NEW n \in Node, Intact' PROVE ~Dies(n)
BY DEF Dies, TypeOK, Intact, NobodyDead

(* A question is read and answered at once.                                 *)
LEMMA ReadAndAnswer ==
    ASSUME TypeOK, StatusInv, Core, NEW n \in Node, NEW type \in Questions, Reads(n, type),
           NEW v, RightAnswer(Head(inbox[n]).from, v),
           UNCHANGED ring, inbox' = Rest(n),
           task' = task \/ task' = [task EXCEPT ![n] = Idle],
           \/ answer' = [Answered(n, Head(inbox[n]).from, v) EXCEPT ![n] = {}]
           \/ answer' = Answered(n, Head(inbox[n]).from, v)
    PROVE  Core'
<1> DEFINE f == Head(inbox[n]).from
<1>1. /\ f \in Node /\ Owes(n, f) /\ task[n].asks = None /\ answer[n] = {} /\ Free(n)
      /\ task[n].op = "idle" /\ Leftover(Rest(n))
      /\ \A q \in AskedIn(Rest(n)[n]) : q.from # f
  BY QuestionRead
<1>2. task'[n].op = "idle" /\ QuietTask(task'[n]) /\ \A x \in Node \ {n} : task'[x] = task[x]
  BY <1>1, IdleTask DEF QuietTask, Serving
<1>3. /\ \A x \in Node : AskedOf(x)' \subseteq AskedOf(x) /\ Single(inbox'[x])
      /\ AskedOf(n)' = AskedIn(Rest(n)[n])
      /\ \A x \in Node, t \in {"SET_SUCC", "SET_PRED"} : LinksTo(x, t)' = LinksTo(x, t)
  BY <1>1, LeftoverKept
<1>4. Circle' = Circle /\ RingInv'
  BY <1>1, <1>2, <1>3, RingFrameOne DEF LinkOps, Core
<1>5. UNCHANGED pred /\ \A q \in AskedOf(n)' : q.from # f
  BY <1>1, <1>3 DEF ring
<1>6. task[n].op \notin Serving
  BY <1>1 DEF Serving
<1> HIDE DEF f
<1>7. RightAnswer(f, v) /\ \/ answer' = [Answered(n, f, v) EXCEPT ![n] = {}]
                           \/ answer' = Answered(n, f, v)
  BY DEF f
<1>8. TokenInv' /\ AnswerInv'
  BY <1>1, <1>2, <1>3, <1>4, <1>5, <1>6, <1>7, TokensAnswer DEF Core
<1> QED BY <1>4, <1>8 DEF Core

(* What the two questions about neighbors are answered with is right.       *)
LEMMA TellSuccCore ==
    ASSUME TypeOK, StatusInv, Core, NEW n \in Node, TellSucc(n)
    PROVE  Core'
<1> DEFINE f == Head(inbox[n]).from
<1>1. /\ Reads(n, "TELL_SUCC") /\ inbox' = Rest(n) /\ UNCHANGED <<ring, task>>
      /\ answer' = Answered(n, f, Succ(n))
  BY DEF TellSucc
<1>2. "TELL_SUCC" \in Questions
  BY DEF Questions
<1>3. f \in Node /\ Owes(n, f) /\ task[f].op = "ask_succ" /\ n \in Circle
  BY <1>1, <1>2, QuestionRead DEF AskedInv
<1>4. n = pred[f] /\ Leads(n, f)
  BY <1>3 DEF Core, TokenInv, AnswerInv, AnswerOf
<1>5. Asking(f) /\ f \notin Circle /\ Follows(n, Succ(n))
  BY <1>3, Settled DEF Core, Asking
<1>6. RightAnswer(f, Succ(n))
  BY <1>3, <1>4, <1>5, FollowsThrough DEF Follows, Leads, RightAnswer
<1> QED BY <1>1, <1>2, <1>6, ReadAndAnswer

LEMMA TellPredCore ==
    ASSUME TypeOK, StatusInv, Core, NEW n \in Node, TellPred(n)
    PROVE  Core'
<1> DEFINE f == Head(inbox[n]).from
           j == task[f].from
<1>1. /\ Reads(n, "TELL_PRED") /\ inbox' = Rest(n) /\ UNCHANGED <<ring, task>>
      /\ answer' = Answered(n, f, pred[n])
  BY DEF TellPred
<1>2. "TELL_PRED" \in Questions
  BY DEF Questions
<1>3. f \in Node /\ Owes(n, f) /\ task[f].op = "tell_pred" /\ n \in Circle
  BY <1>1, <1>2, QuestionRead DEF AskedInv
<1>4. task[f].asks = n /\ j \in Node /\ task[j].op = "ask_pred" /\ task[f].source = j
  BY <1>3 DEF Core, TokenInv, ServingInv, Serving
<1>5. Follows(j, n)
  BY <1>3, <1>4 DEF Core, AnswerInv, AnswerOf
<1>6. Asking(j) /\ j \notin Circle /\ Leads(pred[n], n)
  BY <1>3, <1>4, Settled DEF Core, Asking
<1>7. RightAnswer(f, pred[n])
  <2>1. Adjacent(pred[n], j) /\ pred[n] \in Circle
    BY <1>4, <1>5, <1>6, <1>3, LeadsThrough DEF Follows, Leads
  <2> QED BY <1>3, <1>4, <2>1 DEF RightAnswer
<1> QED BY <1>1, <1>2, <1>7, ReadAndAnswer

(* An answer that is right for the node that serves is right for the one    *)
(* that it serves.                                                          *)
LEMMA PassedOn ==
    ASSUME NEW f \in Node, NEW id, NEW source, NEW v, LooksUpFor(f, id, source),
           v \in Circle,
           task[source].op = "ask_pred" => Adjacent(source, v)
    PROVE  RightAnswer(f, v)
BY DEF LooksUpFor, RightAnswer

(* A node that serves a lookup asks another node on behalf of it.           *)
LEMMA AskForAnother ==
    ASSUME TypeOK, StatusInv, Core, NEW n \in Node, NEW d \in Node, NEW box, Leftover(box),
           NEW type \in {"FIND_SUCC", "TELL_PRED"}, NEW t \in Tasks,
           Asks(n, box, d, type, t), UNCHANGED ring, Free(n), task[n].op \notin LinkOps,
           answer'[n] = {}, \A x \in Node \ {n} : answer'[x] = answer[x],
           t.op \in Serving, t.id \in Points, t.source \in Node, t.from \in Node,
           Owes(n, t.from), \A q \in AskedIn(box[n]) : q.from # t.from,
           t.op = "find_succ" => LooksUpFor(t.from, t.id, t.source),
           t.op \in {"find_pred", "tell_pred"} =>
              task[t.from].op = "ask_pred" /\ t.id = t.from /\ t.source = t.from,
           type = "FIND_SUCC" <=> t.op \in {"find_succ", "find_pred"},
           type = "TELL_PRED" => Follows(t.source, d)
    PROVE  Core'
<1> DEFINE r == Request(type, t.id, t.source, n)
<1>1. r \in Requests /\ r.type = type /\ r.id = t.id /\ r.source = t.source /\ r.from = n
  BY RequestType DEF Request, Questions
<1>2. inbox' = [box EXCEPT ![d] = Append(@, r)]
  BY DEF Asks
<1> HIDE DEF r
<1>3. /\ task'[n].op = t.op /\ task'[n].id = t.id /\ task'[n].source = t.source
      /\ task'[n].from = t.from /\ task'[n].asks = d
      /\ \A x \in Node \ {n} : task'[x] = task[x]
  BY AsksTask
<1>4. /\ \A x \in Node : Single(inbox'[x])
      /\ \A x \in Node \ {d} : AskedOf(x)' = AskedIn(box[x])
      /\ AskedOf(d)' = AskedIn(box[d]) \cup {r}
      /\ \A x \in Node, l \in {"SET_SUCC", "SET_PRED"} : LinksTo(x, l)' = LinksTo(x, l)
  BY <1>1, <1>2, QuestionPosted DEF Core, Questions
<1>5. Circle' = Circle /\ RingInv'
  <2>1. task'[n].op \notin LinkOps
    BY <1>3 DEF LinkOps, Serving
  <2> QED BY <1>3, <1>4, <2>1, RingFrameOne DEF Core
<1>6. t.from # n /\ t.op # "ask_pred" /\ t.op \notin Resting \cup {"fingers"}
  BY NothingOwed DEF Core, Serving, Resting
<1>7. ServingInv(n)'
  <2>1. t.op = "find_succ" => LooksUpFor(t.from, t.id, t.source)'
    BY <1>3, <1>6, LooksUpFrame
  <2>2. t.op \in {"find_pred", "tell_pred"} => task'[t.from].op = "ask_pred"
    BY <1>3, <1>6
  <2> QED BY <1>3, <2>1, <2>2 DEF ServingInv
<1>8. AskedInv(d, r)'
  <2>1. task'[t.source].op = "ask_pred" => t.id = t.source
    <3>1. task'[t.source].op = "ask_pred" => task[t.source].op = "ask_pred"
      BY <1>3, <1>6
    <3> QED BY <3>1 DEF Serving, LooksUpFor
  <2>2. type = "FIND_SUCC" => LooksUpFor(n, t.id, t.source)'
    BY <1>3, <2>1 DEF LooksUpFor
  <2>3. type = "TELL_PRED" => task'[n].op = "tell_pred"
    BY <1>3 DEF Serving
  <2> QED BY <1>1, <2>2, <2>3 DEF AskedInv
<1>9. \A x \in Node : AskedIn(box[x]) \subseteq AskedOf(x)
  BY DEF Leftover
<1>10. \A q \in AskedOf(n)' : q.from # t.from
  BY <1>1, <1>4, <1>6
<1>11. TokenInv' /\ AnswerInv'
  <2>1. /\ \A x \in Node \ {d} : AskedOf(x)' \subseteq AskedOf(x)
        /\ AskedOf(d)' \subseteq AskedOf(d) \cup {r}
    BY <1>4, <1>9
  <2>2. /\ ~Rests(n)' /\ task'[n].op # "ask_pred"
        /\ task'[n].op \in Serving =>
             Owes(n, task'[n].from) /\ \A m \in AskedOf(n)' : m.from # task'[n].from
        /\ task'[n].op = "tell_pred" => Follows(task'[n].source, d)
        /\ task'[n].op # "ask_succ"
    BY <1>3, <1>6, <1>10 DEF Serving, Rests
  <2>3. TokenInv /\ AnswerInv /\ UNCHANGED pred
    BY DEF Core, ring
  <2> QED BY <1>1, <1>3, <1>4, <1>5, <1>7, <1>8, <2>1, <2>2, <2>3, TokensAsk
<1> QED BY <1>5, <1>11 DEF Core

LEMMA FindSuccCore ==
    ASSUME TypeOK, StatusInv, Core, NEW n \in Node, FindSucc(n), Intact'
    PROVE  Core'
<1> DEFINE m == Head(inbox[n])
           hop == Hop(n, m.id)
           t == Task("find_succ", m.id, m.source, m.from)
<1>1. Reads(n, "FIND_SUCC") /\ "FIND_SUCC" \in Questions /\ UNCHANGED ring
  BY DEF FindSucc, Questions
<1>2. /\ m \in Requests /\ m.type = "FIND_SUCC"
      /\ m.id \in Points /\ m.source \in Node /\ m.from \in Node
      /\ Owes(n, m.from) /\ AskedInv(n, m)
      /\ n \in Circle /\ task[n].asks = None /\ answer[n] = {} /\ Free(n)
      /\ task[n].op = "idle" /\ m.from # n
      /\ Leftover(Rest(n))
      /\ \A q \in AskedIn(Rest(n)[n]) : q.from # m.from
  BY <1>1, QuestionRead
<1>3. LooksUpFor(m.from, m.id, m.source)
  BY <1>2 DEF AskedInv
<1>4. CASE Local(n, m.id, m.source) /\ answer' = Answered(n, m.from, LocalSucc(n, m.id))
           /\ inbox' = Rest(n) /\ task' = task
  <2>1. /\ LocalSucc(n, m.id) \in Circle
        /\ task[m.source].op = "ask_pred" => Adjacent(m.source, LocalSucc(n, m.id))
    BY <1>2, <1>3, <1>4, LocalRight DEF Core, LooksUpFor
  <2>2. RightAnswer(m.from, LocalSucc(n, m.id))
    BY <1>2, <1>3, <2>1, PassedOn
  <2> QED BY <1>1, <1>4, <2>2, ReadAndAnswer
<1>5. CASE Asks(n, Rest(n), hop, "FIND_SUCC", t) /\ UNCHANGED answer
  <2> HIDE DEF m
  <2>1. /\ t \in Tasks /\ t.op = "find_succ" /\ t.id = m.id /\ t.source = m.source
        /\ t.from = m.from
    BY <1>2, NewLookup
  <2>2. hop \in Node
    BY HopNode
  <2>3. Asks(n, Rest(n), hop, "FIND_SUCC", t)
    BY <1>5
  <2> HIDE DEF t, hop
  <2>4. /\ t.op \in Serving /\ t.id \in Points /\ t.source \in Node /\ t.from \in Node
        /\ Owes(n, t.from) /\ \A q \in AskedIn(Rest(n)[n]) : q.from # t.from
        /\ LooksUpFor(t.from, t.id, t.source)
        /\ t.op = "find_succ"
    BY <1>2, <1>3, <2>1 DEF Serving
  <2>5. answer'[n] = {} /\ task[n].op \notin LinkOps
    BY <1>2, <1>5 DEF LinkOps
  <2> QED BY <1>1, <1>2, <1>5, <2>1, <2>2, <2>3, <2>4, <2>5, AskForAnother
<1>6. CASE inbox' = Rest(n) /\ task' = task /\ answer' = answer
  <2>1. Circle' = Circle /\ RingInv'
    BY <1>1, <1>2, <1>6, LeftoverKept, RingFrameOne DEF LinkOps, Core
  <2>2. TokenInv' /\ AnswerInv'
    BY <1>1, <1>2, <1>6, <2>1, LeftoverKept, TokensQuiet DEF QuietTask, Serving, Core, ring
  <2> QED BY <2>1, <2>2 DEF Core
<1> QED BY <1>4, <1>5, <1>6 DEF FindSucc

-----------------------------------------------------------------------------
(* The steps of a lookup that other nodes have helped with.                 *)

(* A node answers the one it serves, and has nothing to do any more.        *)
LEMMA AnswersAndRests ==
    ASSUME TypeOK, StatusInv, Core, NEW n \in Node, NEW f \in Node, NEW v, NEW box,
           Leftover(box), inbox' = box, UNCHANGED ring, Owes(n, f), Free(n),
           task[n].op \notin LinkOps, task[n].op \in Serving => task[n].from = f,
           task' = [task EXCEPT ![n] = Idle],
           answer' = [Answered(n, f, v) EXCEPT ![n] = {}], RightAnswer(f, v),
           \A q \in AskedIn(box[n]) : q.from # f
    PROVE  Core'
<1>1. /\ QuietTask(task'[n]) /\ task'[n].op \notin LinkOps
      /\ \A x \in Node \ {n} : task'[x] = task[x]
  BY IdleTask DEF QuietTask, Serving, LinkOps
<1>2. /\ \A x \in Node : AskedOf(x)' \subseteq AskedOf(x) /\ Single(inbox'[x])
      /\ AskedOf(n)' = AskedIn(box[n])
      /\ \A x \in Node, l \in {"SET_SUCC", "SET_PRED"} : LinksTo(x, l)' = LinksTo(x, l)
  BY LeftoverKept
<1>3. Circle' = Circle /\ RingInv'
  BY <1>1, <1>2, RingFrameOne DEF Core
<1>4. TokenInv' /\ AnswerInv'
  <2>1. UNCHANGED pred /\ \A q \in AskedOf(n)' : q.from # f
    BY <1>2 DEF ring
  <2> QED BY <1>1, <1>2, <1>3, <2>1, TokensAnswer DEF Core
<1> QED BY <1>3, <1>4 DEF Core

(* What a node that serves knows of the one it serves.                      *)
LEMMA Served ==
    ASSUME TypeOK, Core, NEW n \in Node, task[n].op \in Serving
    PROVE  /\ task[n].from \in Node /\ Owes(n, task[n].from)
           /\ Leftover(inbox) /\ \A q \in AskedIn(inbox[n]) : q.from # task[n].from
           /\ task[n].op = "find_succ" => LooksUpFor(task[n].from, task[n].id, task[n].source)
           /\ task[n].op \in {"find_pred", "tell_pred"} =>
                 /\ task[task[n].from].op = "ask_pred"
                 /\ task[n].id = task[n].from /\ task[n].source = task[n].from
<1>1. ServingInv(n) /\ OwesOnce(n) /\ Leftover(inbox)
  BY InboxLeftover DEF Core, TokenInv
<1>2. task[n].from \in Node /\ Owes(n, task[n].from)
  BY <1>1 DEF ServingInv, Owes
<1>3. \A q \in AskedIn(inbox[n]) : q.from # task[n].from
  BY <1>1 DEF OwesOnce, AskedIn, AskedOf, Box
<1> QED BY <1>1, <1>2, <1>3 DEF ServingInv

LEMMA SuccFoundCore ==
    ASSUME TypeOK, StatusInv, Core, NEW n \in Node, NEW v, SuccFound(n, v)
    PROVE  Core'
<1>1. /\ task[n].op = "find_succ" /\ answer[n] = {v} /\ Free(n)
      /\ task' = [task EXCEPT ![n] = Idle] /\ UNCHANGED <<ring, inbox>>
      /\ answer' = [Answered(n, task[n].from, v) EXCEPT ![n] = {}]
  BY DEF SuccFound, Gets, Free
<1>2. RightAnswer(n, v)
  BY <1>1 DEF Core, AnswerInv, AnswerOf
<1>3. LooksUpFor(task[n].from, task[n].id, task[n].source)
  BY <1>1, Served DEF Serving
<1>4. task[n].from \in Node
  BY <1>1, Served DEF Serving
<1>5. RightAnswer(task[n].from, v)
  <2>1. /\ v \in Circle
        /\ task[task[n].source].op = "ask_pred" => Adjacent(task[n].source, v)
    BY <1>1, <1>2 DEF RightAnswer
  <2> QED BY <1>3, <1>4, <2>1, PassedOn
<1> QED BY <1>1, <1>4, <1>5, Served, AnswersAndRests DEF Serving, LinkOps

LEMMA PredFoundCore ==
    ASSUME TypeOK, StatusInv, Core, NEW n \in Node, NEW v, PredFound(n, v)
    PROVE  Core'
<1>1. /\ task[n].op = "tell_pred" /\ answer[n] = {v} /\ Free(n)
      /\ task' = [task EXCEPT ![n] = Idle] /\ UNCHANGED <<ring, inbox>>
      /\ answer' = [Answered(n, task[n].from, v) EXCEPT ![n] = {}]
  BY DEF PredFound, Gets, Free
<1>2. RightAnswer(n, v)
  BY <1>1 DEF Core, AnswerInv, AnswerOf
<1>3. /\ task[n].from \in Node /\ task[task[n].from].op = "ask_pred"
      /\ task[n].source = task[n].from
  BY <1>1, Served DEF Serving
<1>4. RightAnswer(task[n].from, v)
  BY <1>1, <1>2, <1>3 DEF RightAnswer
<1> QED BY <1>1, <1>3, <1>4, Served, AnswersAndRests DEF Serving, LinkOps

(* find_pred, once the successor is known.                                  *)
LEMMA PredOfCore ==
    ASSUME TypeOK, StatusInv, Core, NEW n \in Circle, NEW s, NEW t \in Tasks, NEW box,
           Leftover(box), PredOf(n, s, t, box), Free(n),
           task[n].op \notin LinkOps, task[n].op \in Serving => task[n].from = t.from,
           t.op = "find_pred", t.from \in Node, t.from \in Points, t.id = t.from, t.source = t.from,
           task[t.from].op = "ask_pred", Owes(n, t.from),
           \A q \in AskedIn(box[n]) : q.from # t.from,
           Follows(t.from, s)
    PROVE  Core'
<1> DEFINE u == WithOp(t, "tell_pred")
<1>1. n \in Node /\ s \in Node /\ UNCHANGED ring
  BY CircleNodes DEF Follows, PredOf
<1>2. Asking(t.from) /\ t.from \notin Circle
  BY Settled DEF Core, Asking
<1>3. CASE s = n /\ answer' = [Answered(n, t.from, pred[n]) EXCEPT ![n] = {}]
           /\ inbox' = box /\ task' = [task EXCEPT ![n] = Idle]
  <2>1. Leads(pred[n], n)
    BY <1>2, Settled DEF Core
  <2>2. RightAnswer(t.from, pred[n])
    BY <1>2, <1>3, <2>1, LeadsThrough DEF RightAnswer, Leads, Follows
  <2> QED BY <1>1, <1>3, <2>2, AnswersAndRests
<1>4. CASE Asks(n, box, s, "TELL_PRED", u) /\ answer' = [answer EXCEPT ![n] = {}]
  <2>1. /\ u \in Tasks /\ u.op = "tell_pred" /\ u.id = t.id /\ u.source = t.source
        /\ u.from = t.from
    BY NextLookup DEF Operations
  <2>2. Asks(n, box, s, "TELL_PRED", u)
    BY <1>4
  <2>3. answer'[n] = {} /\ \A x \in Node \ {n} : answer'[x] = answer[x]
    BY <1>1, <1>4 DEF TypeOK
  <2> HIDE DEF u
  <2>4. /\ u.op \in Serving /\ u.id \in Points /\ u.source \in Node /\ u.from \in Node
        /\ Owes(n, u.from) /\ \A q \in AskedIn(box[n]) : q.from # u.from
        /\ u.op # "find_succ" /\ u.op # "find_pred"
        /\ task[u.from].op = "ask_pred" /\ u.id = u.from /\ u.source = u.from
        /\ Follows(u.source, s)
    BY <2>1 DEF Serving
  <2> QED BY <1>1, <2>1, <2>2, <2>3, <2>4, AskForAnother
<1>5. Listens(s)
  <2>1. s \in Circle /\ status[t.from] = "joining"
    BY <1>2, OpStatus DEF Follows, JoinOps
  <2>2. status[s] # "joining"
    BY <1>1, <1>2, <2>1 DEF StatusInv, OneJoins
  <2> QED BY <2>1, <2>2 DEF Circle, Listens
<1> QED BY <1>3, <1>4, <1>5 DEF PredOf, WithOp

LEMMA SuccOfFoundCore ==
    ASSUME TypeOK, StatusInv, Core, NEW n \in Node, NEW v, SuccOfFound(n, v)
    PROVE  Core'
<1>1. task[n].op = "find_pred" /\ answer[n] = {v} /\ Free(n)
  BY DEF SuccOfFound, Gets, Free
<1>2. RightAnswer(n, v)
  BY <1>1 DEF Core, AnswerInv, AnswerOf
<1>3. /\ task[n].from \in Node /\ task[task[n].from].op = "ask_pred"
      /\ task[n].id = task[n].from /\ task[n].source = task[n].from
      /\ Owes(n, task[n].from) /\ Leftover(inbox)
      /\ \A q \in AskedIn(inbox[n]) : q.from # task[n].from
  BY <1>1, Served DEF Serving
<1>4. v \in Circle /\ Follows(task[n].from, v)
  BY <1>1, <1>2, <1>3 DEF RightAnswer, Follows
<1>5. v # None
  BY <1>4, CircleNodes, NodesOnCircle
<1>6. PredOf(n, v, task[n], inbox)
  BY <1>5 DEF SuccOfFound
<1>7. n \in Circle /\ task[n] \in Tasks
  <2>1. status[n] = "up"
    BY <1>1, OpStatus DEF Serving
  <2> QED BY <2>1, OnCircle DEF TypeOK
<1>8. task[n].from \in Points
  BY <1>3, NodesOnCircle
<1> QED BY <1>1, <1>3, <1>4, <1>6, <1>7, <1>8, PredOfCore DEF LinkOps

LEMMA FindPredCore ==
    ASSUME TypeOK, StatusInv, Core, NEW n \in Node, FindPred(n), Intact'
    PROVE  Core'
<1> DEFINE m == Head(inbox[n])
           hop == Hop(n, m.id)
           t == Task("find_pred", m.id, m.source, m.from)
<1>1. Reads(n, "FIND_PRED") /\ "FIND_PRED" \in Questions
  BY DEF FindPred, Questions
<1>2. /\ m \in Requests /\ m.type = "FIND_PRED"
      /\ m.id \in Points /\ m.source \in Node /\ m.from \in Node
      /\ Owes(n, m.from) /\ AskedInv(n, m)
      /\ n \in Circle /\ task[n].asks = None /\ answer[n] = {} /\ Free(n)
      /\ task[n].op = "idle" /\ m.from # n
      /\ Leftover(Rest(n))
      /\ \A q \in AskedIn(Rest(n)[n]) : q.from # m.from
  BY <1>1, QuestionRead
<1>3. task[m.from].op = "ask_pred" /\ m.id = m.from /\ m.source = m.from
  BY <1>2 DEF AskedInv
<1>4. \/ Local(n, m.id, m.source) /\ PredOf(n, LocalSucc(n, m.id), t, Rest(n))
      \/ Asks(n, Rest(n), hop, "FIND_SUCC", t) /\ UNCHANGED <<ring, answer>>
  BY NoDeath DEF FindPred
<1>5. hop \in Node
  BY HopNode
<1> HIDE DEF m, hop
<1>6. /\ t \in Tasks /\ t.op = "find_pred" /\ t.id = m.id /\ t.source = m.source
      /\ t.from = m.from
  BY <1>2, NewLookup
<1> HIDE DEF t
<1>7. CASE Local(n, m.id, m.source) /\ PredOf(n, LocalSucc(n, m.id), t, Rest(n))
  <2>1. Follows(m.from, LocalSucc(n, m.id))
    BY <1>2, <1>3, <1>7, LocalRight DEF Core, Follows
  <2>2. /\ task[n].op \notin LinkOps \cup Serving
        /\ t.from \in Node /\ t.from \in Points /\ t.id = t.from /\ t.source = t.from
        /\ task[t.from].op = "ask_pred" /\ Owes(n, t.from)
        /\ \A q \in AskedIn(Rest(n)[n]) : q.from # t.from
        /\ Follows(t.from, LocalSucc(n, m.id))
    BY <1>2, <1>3, <1>6, <2>1 DEF LinkOps, Serving
  <2> QED BY <1>2, <1>6, <1>7, <2>2, PredOfCore
<1>8. CASE Asks(n, Rest(n), hop, "FIND_SUCC", t) /\ UNCHANGED <<ring, answer>>
  <2>1. /\ t.op \in Serving /\ t.id \in Points /\ t.source \in Node /\ t.from \in Node
        /\ Owes(n, t.from) /\ \A q \in AskedIn(Rest(n)[n]) : q.from # t.from
        /\ t.op = "find_pred"
        /\ task[t.from].op = "ask_pred" /\ t.id = t.from /\ t.source = t.from
    BY <1>2, <1>3, <1>6 DEF Serving
  <2>2. answer'[n] = {} /\ task[n].op \notin LinkOps /\ \A x \in Node \ {n} : answer'[x] = answer[x]
    BY <1>2, <1>8 DEF LinkOps
  <2> QED BY <1>2, <1>5, <1>6, <1>8, <2>1, <2>2, AskForAnother
<1> QED BY <1>4, <1>7, <1>8

-----------------------------------------------------------------------------
(* Steps that touch no link, ask nothing and answer nothing.                *)

LEMMA LeftoverPosted ==
    ASSUME TypeOK, NEW box, Leftover(box), NEW d \in Node, NEW r \in Requests,
           r.type \notin Questions \cup {"SET_SUCC", "SET_PRED"}
    PROVE  Leftover([box EXCEPT ![d] = Append(@, r)])
<1> DEFINE b == [box EXCEPT ![d] = Append(@, r)]
<1>1. box \in Inboxes /\ box[d] \in Seq(Requests)
  BY DEF Leftover, Inboxes
<1>2. b \in Inboxes /\ b[d] = Append(box[d], r) /\ \A x \in Node \ {d} : b[x] = box[x]
  BY <1>1, PostType DEF Inboxes
<1> HIDE DEF b
<1>3. Elems(b[d]) = Elems(box[d]) \cup {r} /\ Single(b[d])
  BY <1>1, <1>2, ElemsAppend, SingleAppend DEF Leftover
<1>4. ASSUME NEW x \in Node
      PROVE  Single(b[x]) /\ AskedIn(b[x]) \subseteq AskedOf(x)
  <2>1. AskedIn(b[d]) = AskedIn(box[d])
    BY <1>3 DEF AskedIn
  <2> QED BY <1>2, <1>3, <2>1 DEF Leftover
<1>5. ASSUME NEW x \in Node, NEW l \in {"SET_SUCC", "SET_PRED"}
      PROVE  LinksIn(b[x], l) = LinksTo(x, l)
  <2>1. LinksIn(b[d], l) = LinksIn(box[d], l)
    BY <1>3 DEF LinksIn
  <2> QED BY <1>2, <2>1 DEF Leftover
<1> QED BY <1>2, <1>4, <1>5 DEF Leftover, b

(* What a node finds when it has lost a part of a batch, but no link.       *)
LEMMA LeftoverDropped ==
    ASSUME TypeOK, NEW n \in Node, NEW box, Leftover(box), NEW k \in 0 .. Len(box[n]),
           LosesBatch(n, box, k), Intact'
    PROVE  /\ \A x \in Node : Single(inbox'[x]) /\ AskedOf(x)' \subseteq AskedOf(x)
           /\ \A x \in Node, type \in {"SET_SUCC", "SET_PRED"} : LinksTo(x, type)' = LinksTo(x, type)
<1>1. box \in Inboxes
  BY DEF Leftover
<1>2. /\ \A x \in Node \ {n} : inbox'[x] = box[x] /\ Box(x)' = Elems(box[x])
      /\ Box(n)' \subseteq Elems(box[n])
      /\ Single(box[n]) => Single(inbox'[n])
  BY <1>1, DropBox
<1>3. ASSUME NEW x \in Node PROVE Single(inbox'[x]) /\ AskedOf(x)' \subseteq AskedOf(x)
  BY <1>2 DEF Leftover, AskedIn, AskedOf
<1>4. ASSUME NEW x \in Node, NEW type \in {"SET_SUCC", "SET_PRED"}
      PROVE  LinksTo(x, type)' = LinksTo(x, type)
  <2>1. LinksTo(x, type)' = LinksIn(box[x], type)
    <3>1. CASE x = n
      BY <1>1, <1>2, <3>1, LinksKept DEF LinksTo, LinksIn
    <3>2. CASE x # n
      BY <1>2, <3>2 DEF LinksTo, LinksIn
    <3> QED BY <3>1, <3>2
  <2> QED BY <2>1 DEF Leftover
<1> QED BY <1>3, <1>4

LEMMA QuietCore ==
    ASSUME TypeOK, Core, NEW n \in Node, UNCHANGED ring, Free(n),
           task[n].op \notin Serving \cup LinkOps,
           QuietTask(task'[n]), task'[n].op \notin LinkOps, answer'[n] = {},
           \A x \in Node \ {n} : task'[x] = task[x] /\ answer'[x] = answer[x],
           \A x \in Node : Single(inbox'[x]) /\ AskedOf(x)' \subseteq AskedOf(x),
           \A x \in Node, type \in {"SET_SUCC", "SET_PRED"} : LinksTo(x, type)' = LinksTo(x, type)
    PROVE  Core'
<1>1. Circle' = Circle /\ RingInv'
  BY RingFrameOne DEF Core
<1>2. TokenInv' /\ AnswerInv'
  BY <1>1, TokensQuiet DEF Core, ring
<1> QED BY <1>1, <1>2 DEF Core

LEMMA SameTasksCore ==
    ASSUME TypeOK, Core, UNCHANGED <<ring, task, answer>>,
           \A x \in Node : Single(inbox'[x]) /\ AskedOf(x)' \subseteq AskedOf(x),
           \A x \in Node, type \in {"SET_SUCC", "SET_PRED"} : LinksTo(x, type)' = LinksTo(x, type)
    PROVE  Core'
<1>1. Circle' = Circle
  BY DEF Circle, Asking, ring
<1>2. RingInv'
  <2>1. \A x \in Node : Asking(x)' <=> Asking(x)
    BY DEF Asking
  <2>2. /\ \A x \in Node : Succ(x)' = Succ(x)
        /\ \A x \in Circle, i \in Indices : finger'[x][i] \in Circle
    BY DEF ring, Succ, Core, RingInv
  <2> QED BY <1>1, <2>1, <2>2, RingFrame DEF Core, ring
<1>3. \A d, f \in Node : Owes(d, f)' => Owes(d, f)
  BY DEF Owes
<1>4. ASSUME NEW d \in Node PROVE OwesOnce(d)'
  BY DEF Core, TokenInv, OwesOnce
<1>5. ASSUME NEW d \in Node PROVE ServingInv(d)'
  BY DEF Core, TokenInv, ServingInv, LooksUpFor
<1>6. ASSUME NEW d \in Node, NEW m \in AskedOf(d)' PROVE AskedInv(d, m)'
  <2>1. AskedInv(d, m)
    BY DEF Core, TokenInv
  <2> QED BY <2>1 DEF AskedInv, LooksUpFor
<1>7. TokenInv'
  BY <1>3, <1>4, <1>5, <1>6 DEF Core, TokenInv, Rests
<1>8. AnswerInv'
  BY <1>1, AnswerFrame DEF Core, AnswerInv, ring
<1> QED BY <1>2, <1>7, <1>8 DEF Core

(* What a node at rest knows.                                               *)
LEMMA RestsFree ==
    ASSUME Core, NEW n \in Node, Rests(n)
    PROVE  task[n].asks = None /\ answer[n] = {} /\ Free(n)
BY DEF Core, TokenInv, Free

LEMMA FindFingerCore ==
    ASSUME TypeOK, Core, NEW n \in Node, FindFinger(n)
    PROVE  Core'
<1>1. /\ Reads(n, "FIND_FINGER") /\ inbox' = Rest(n) /\ UNCHANGED <<ring, answer>>
      /\ \/ task' = task
         \/ task' = [task EXCEPT ![n] = Refresh(Head(inbox[n]).source)]
  BY DEF FindFinger
<1>2. task[n].op = "idle" /\ Rests(n)
  BY <1>1 DEF Reads, Rests, Resting
<1>3. task[n].asks = None /\ answer[n] = {} /\ Free(n)
  BY <1>2, RestsFree
<1>4. /\ task'[n].op \in {"idle", "fingers"} /\ task'[n].asks = None
      /\ \A x \in Node \ {n} : task'[x] = task[x]
  BY <1>1, <1>2, <1>3, Ops DEF TypeOK
<1>5. Leftover(Rest(n))
  BY <1>1, ReadLeftover DEF Core
<1> QED BY <1>1, <1>2, <1>3, <1>4, <1>5, LeftoverKept, QuietCore DEF QuietTask, Serving, LinkOps

LEMMA ExecuteKeyCore ==
    ASSUME TypeOK, Core, NEW n \in Node, ExecuteKey(n), Intact'
    PROVE  Core'
<1>1. Reads(n, "KEY") /\ inbox' = Rest(n) /\ UNCHANGED <<ring, task, answer>>
  BY NoDeath DEF ExecuteKey
<1>2. Leftover(Rest(n))
  BY <1>1, ReadLeftover DEF Core
<1> QED BY <1>1, <1>2, LeftoverKept, SameTasksCore

(* A node that has not executed a request reads again.                      *)
LEMMA ReadsAgainCore ==
    ASSUME TypeOK, Core, NEW n \in Node, task[n].op = "idle", NEW from, NEW box,
           Leftover(box), ReadsAgain(n, from, box), UNCHANGED <<ring, answer>>, Intact'
    PROVE  Core'
<1>1. Rests(n)
  BY DEF Rests, Resting
<1>2. task[n].asks = None /\ answer[n] = {} /\ Free(n)
  BY <1>1, RestsFree
<1>3. CASE inbox' = box /\ task' = [task EXCEPT ![n] = Doing("read_client")]
  <2>1. /\ task'[n].op = "read_client" /\ task'[n].asks = None
        /\ \A x \in Node \ {n} : task'[x] = task[x]
    BY <1>3, Ops DEF TypeOK
  <2> QED BY <1>2, <1>3, <2>1, LeftoverKept, QuietCore DEF QuietTask, Serving, LinkOps
<1>4. CASE (\E k \in 0 .. Len(box[n]) : LosesBatch(n, box, k)) /\ UNCHANGED task
  BY <1>4, LeftoverDropped, SameTasksCore
<1> QED BY <1>3, <1>4 DEF ReadsAgain

LEMMA ForwardKeyCore ==
    ASSUME TypeOK, Core, NEW n \in Node, ForwardKey(n), Intact'
    PROVE  Core'
<1> DEFINE m == Head(inbox[n])
           s == Succ(n)
           r == Request("KEY", m.id, None, n)
<1>1. Reads(n, "KEY") /\ task[n].op = "idle"
  BY DEF ForwardKey, Reads
<1>2. /\ ReadsAgain(n, m.from, [Rest(n) EXCEPT ![s] = Append(@, r)])
      /\ UNCHANGED <<ring, answer>>
  BY NoDeath DEF ForwardKey
<1>3. r \in Requests /\ r.type = "KEY" /\ s \in Node
  <2>1. m.id \in Key
    BY <1>1, ReadHead, RequestFields
  <2>2. r \in Requests
    BY <2>1, KeyRequestType
  <2> QED BY <2>2, HopNode DEF Request
<1> HIDE DEF m, s, r
<1>4. Leftover(Rest(n))
  BY <1>1, ReadLeftover DEF Core
<1>5. Leftover([Rest(n) EXCEPT ![s] = Append(@, r)])
  BY <1>3, <1>4, LeftoverPosted DEF Questions
<1> QED BY <1>1, <1>2, <1>5, ReadsAgainCore

LEMMA DropKeyCore ==
    ASSUME TypeOK, Core, NEW n \in Node, DropKey(n), Intact'
    PROVE  Core'
<1>1. /\ Reads(n, "KEY") /\ task[n].op = "idle" /\ UNCHANGED <<ring, answer>>
      /\ ReadsAgain(n, Head(inbox[n]).from, Rest(n))
  BY DEF DropKey, Reads
<1>2. Leftover(Rest(n))
  BY <1>1, ReadLeftover DEF Core
<1> QED BY <1>1, <1>2, ReadsAgainCore

LEMMA EmptyReadCore ==
    ASSUME TypeOK, Core, NEW n \in Node, EmptyRead(n), Intact'
    PROVE  Core'
<1>1. PICK k \in 1 .. Len(inbox[n]) : LosesBatch(n, inbox, k)
  BY DEF EmptyRead
<1>2. Leftover(inbox) /\ k \in 0 .. Len(inbox[n])
  BY InboxLeftover DEF Core
<1> QED BY <1>1, <1>2, LeftoverDropped, SameTasksCore DEF EmptyRead

LEMMA ConnectCore ==
    ASSUME TypeOK, Core, NEW n \in Node, NEW k \in Key, Connect(n, k)
    PROVE  Core'
<1> DEFINE r == Request("KEY", k, None, None)
<1>1. inbox' = [inbox EXCEPT ![n] = Append(@, r)] /\ UNCHANGED <<ring, task, answer>>
  BY DEF Connect
<1>2. r \in Requests /\ r.type = "KEY"
  BY KeyRequestType DEF Request
<1> HIDE DEF r
<1>3. Leftover([inbox EXCEPT ![n] = Append(@, r)])
  BY <1>2, InboxLeftover, LeftoverPosted DEF Core, Questions
<1> QED BY <1>1, <1>3, LeftoverKept, SameTasksCore

LEMMA SendAgainCore ==
    ASSUME TypeOK, Core, NEW n \in Node, NEW k \in Key, SendAgain(n, k)
    PROVE  Core'
<1> DEFINE r == Request("KEY", k, None, None)
<1>1. /\ inbox' = [inbox EXCEPT ![n] = <<r>> \o @] /\ UNCHANGED <<ring, answer>>
      /\ task[n].op = "read_client" /\ task' = [task EXCEPT ![n] = Idle]
  BY DEF SendAgain
<1>2. r \in Requests /\ r.type = "KEY"
  BY KeyRequestType DEF Request
<1> HIDE DEF r
<1>3. Rests(n) /\ Leftover(inbox)
  BY <1>1, InboxLeftover DEF Rests, Resting, Core
<1>4. task[n].asks = None /\ answer[n] = {} /\ Free(n)
  BY <1>3, RestsFree
<1>5. /\ inbox'[n] = <<r>> \o inbox[n] /\ \A x \in Node \ {n} : inbox'[x] = inbox[x]
      /\ inbox[n] \in Seq(Requests)
  BY <1>1 DEF TypeOK
<1>6. Box(n)' = Box(n) \cup {r} /\ Single(inbox'[n])
  BY <1>2, <1>3, <1>5, PrependElems DEF Box, Leftover, Questions
<1>7. ASSUME NEW x \in Node
      PROVE  /\ Single(inbox'[x]) /\ AskedOf(x)' \subseteq AskedOf(x)
             /\ \A type \in {"SET_SUCC", "SET_PRED"} : LinksTo(x, type)' = LinksTo(x, type)
  <2>1. CASE x = n
    BY <1>2, <1>6, <2>1 DEF AskedOf, LinksTo, Questions
  <2>2. CASE x # n
    BY <1>3, <1>5, <2>2 DEF AskedOf, LinksTo, Box, Leftover
  <2> QED BY <2>1, <2>2
<1> QED BY <1>1, <1>4, <1>7, IdleTask, QuietCore DEF QuietTask, Serving, LinkOps

LEMMA CloseClientCore ==
    ASSUME TypeOK, Core, NEW n \in Node, CloseClient(n), Intact'
    PROVE  Core'
<1>1. /\ UNCHANGED <<ring, answer>> /\ task[n].op = "read_client"
      /\ task' = [task EXCEPT ![n] = Idle]
  BY DEF CloseClient
<1>2. PICK k \in 0 .. Len(inbox[n]) : LosesBatch(n, inbox, k)
  BY DEF CloseClient
<1>3. Rests(n) /\ Leftover(inbox)
  BY <1>1, InboxLeftover DEF Rests, Resting, Core
<1>4. task[n].asks = None /\ answer[n] = {} /\ Free(n)
  BY <1>3, RestsFree
<1> QED BY <1>1, <1>2, <1>3, <1>4, LeftoverDropped, IdleTask, QuietCore
    DEF QuietTask, Serving, LinkOps

-----------------------------------------------------------------------------
(* The refresh of the finger tables.                                        *)

LEMMA PassRefreshOnCore ==
    ASSUME TypeOK, Core, NEW n \in Node, PassRefreshOn(n), Intact'
    PROVE  Core'
<1> DEFINE s == Succ(n)
           r == Request("FIND_FINGER", task[n].source, task[n].source, n)
<1>1. /\ task[n].op = "fingers" /\ task[n].next = Bits
      /\ inbox' = [inbox EXCEPT ![s] = Append(@, r)] /\ UNCHANGED <<ring, answer>>
      /\ task' = [task EXCEPT ![n] = IF status[n] = "joining" THEN Doing("listen") ELSE Idle]
  BY NoDeath DEF PassRefreshOn, Tells
<1>2. r \in Requests /\ r.type = "FIND_FINGER" /\ s \in Node
  <2>1. task[n].source \in Node /\ task[n].source \in Points
    BY <1>1, NodesOnCircle DEF TypeOK
  <2>2. r \in Requests
    BY <2>1, RequestType DEF Orders
  <2> QED BY <2>2, HopNode DEF Request
<1> HIDE DEF s, r
<1>3. Rests(n) /\ Leftover([inbox EXCEPT ![s] = Append(@, r)])
  BY <1>1, <1>2, InboxLeftover, LeftoverPosted DEF Rests, Core, Questions
<1>4. task[n].asks = None /\ answer[n] = {} /\ Free(n)
  BY <1>3, RestsFree
<1>5. /\ task'[n].op \in {"listen", "idle"} /\ task'[n].asks = None
      /\ \A x \in Node \ {n} : task'[x] = task[x]
  BY <1>1, Ops DEF TypeOK
<1> QED BY <1>1, <1>3, <1>4, <1>5, LeftoverKept, QuietCore DEF QuietTask, Serving, LinkOps

(* A finger is renewed with a node of the circle.                           *)
LEMMA RenewedCore ==
    ASSUME TypeOK, StatusInv, Core, NEW n \in Node, Renews(n), Free(n), NEW v \in Circle,
           finger' = [finger EXCEPT ![n][task[n].next] = v],
           task' = [task EXCEPT ![n] = Renewed(@)],
           answer'[n] = {}, \A x \in Node \ {n} : answer'[x] = answer[x],
           UNCHANGED <<status, pred, inbox>>
    PROVE  Core'
<1>1. task[n] \in Tasks /\ task[n].op = "fingers" /\ task[n].next \in 1 .. Bits - 1
  BY BitsAssumption DEF Renews, TypeOK, Tasks
<1>2. /\ task'[n].op = "fingers" /\ task'[n].asks = None
      /\ \A x \in Node \ {n} : task'[x] = task[x]
  <2>1. Renewed(task[n]).op = "fingers" /\ Renewed(task[n]).asks = None
    BY <1>1 DEF Renewed, Tasks
  <2> QED BY <2>1 DEF TypeOK
<1>3. 0 \in Indices /\ task[n].next \in Indices \ {0}
  BY <1>1, BitsAssumption DEF Indices
<1>4. \A x \in Node, i \in Indices :
         finger'[x][i] = finger[x][i] \/ (finger'[x][i] = v /\ x = n /\ i # 0)
  BY <1>3 DEF TypeOK
<1>5. \A x \in Node : Asking(x)' <=> Asking(x)
  BY <1>1, <1>2 DEF Asking
<1>6. Circle' = Circle
  BY <1>5, CircleSame
<1>7. RingInv'
  <2>1. /\ \A x \in Node : Succ(x)' = Succ(x)
        /\ \A x \in Circle, i \in Indices : finger'[x][i] \in Circle
    BY <1>3, <1>4, CircleNodes DEF Succ, Core, RingInv
  <2>2. \A x \in Node : task'[x].op = "link_succ" <=> task[x].op = "link_succ"
    BY <1>1, <1>2
  <2>3. \A x \in Node, type \in {"SET_SUCC", "SET_PRED"} : LinksTo(x, type)' = LinksTo(x, type)
    BY DEF LinksTo, Box
  <2> QED BY <1>5, <1>6, <2>1, <2>2, <2>3, RingFrame, CircleNodes DEF Core
<1>8. TokenInv' /\ AnswerInv'
  <2>1. \A x \in Node : AskedOf(x)' \subseteq AskedOf(x) /\ Single(inbox'[x])
    BY DEF AskedOf, Box, Core, TokenInv, OwesOnce
  <2> QED BY <1>1, <1>2, <1>6, <2>1, TokensQuiet DEF Core, QuietTask, Serving
<1> QED BY <1>7, <1>8 DEF Core

LEMMA FingerLocalCore ==
    ASSUME TypeOK, StatusInv, Core, NEW n \in Node, FingerLocal(n)
    PROVE  Core'
<1> DEFINE id == Start(n, task[n].next)
<1>1. /\ Renews(n) /\ task[n].asks = None /\ Local(n, id, n)
      /\ finger' = [finger EXCEPT ![n][task[n].next] = LocalSucc(n, id)]
      /\ task' = [task EXCEPT ![n] = Renewed(@)] /\ UNCHANGED <<status, pred, inbox, answer>>
  BY DEF FingerLocal, Looks
<1>2. id \in Points /\ n \in Circle
  <2>1. task[n].op = "fingers" /\ task[n].next \in 0 .. Bits
    BY <1>1 DEF Renews, TypeOK, Tasks
  <2> QED BY <2>1, StartType, OnCircle
<1>3. LocalSucc(n, id) \in Circle
  BY <1>1, <1>2, LocalRight DEF Core
<1>4. Free(n) /\ answer[n] = {}
  BY <1>1 DEF Free, Core, TokenInv
<1> QED BY <1>1, <1>3, <1>4, RenewedCore

LEMMA FingerFoundCore ==
    ASSUME TypeOK, StatusInv, Core, NEW n \in Node, NEW v, FingerFound(n, v), Intact'
    PROVE  Core'
<1>1. /\ Renews(n) /\ answer[n] = {v}
      /\ finger' = [finger EXCEPT ![n][task[n].next] = v]
      /\ task' = [task EXCEPT ![n] = Renewed(@)]
      /\ answer' = [answer EXCEPT ![n] = {}] /\ UNCHANGED <<status, pred, inbox>>
  BY NoDeath DEF FingerFound, Gets
<1>2. v \in Circle
  BY <1>1 DEF Core, AnswerInv, AnswerOf, RightAnswer
<1>3. answer'[n] = {} /\ \A x \in Node \ {n} : answer'[x] = answer[x]
  BY <1>1 DEF TypeOK
<1> QED BY <1>1, <1>2, <1>3, RenewedCore DEF Free

LEMMA FingerAskCore ==
    ASSUME TypeOK, StatusInv, Core, NEW n \in Node, FingerAsk(n), Intact'
    PROVE  Core'
<1>1. /\ task[n].op = "fingers" /\ task[n].next < Bits /\ task[n].asks = None
      /\ UNCHANGED <<ring, answer>>
  BY NoDeath DEF FingerAsk, Looks, Renews
<1>2. task[n] \in Tasks /\ task[n].next \in 0 .. Bits
  BY DEF TypeOK, Tasks
<1>3. PICK hop \in Node, r \in Requests :
         /\ r.type = "FIND_SUCC" /\ r.source = n /\ r.from = n
         /\ inbox' = [inbox EXCEPT ![hop] = Append(@, r)]
         /\ task'[n].op = "fingers" /\ task'[n].next = task[n].next /\ task'[n].asks = hop
  <2> DEFINE id == Start(n, task[n].next)
             hop == Hop(n, id)
             r == Request("FIND_SUCC", id, n, n)
  <2>1. id \in Points /\ hop \in Node
    BY <1>2, StartType, HopNode
  <2>2. r \in Requests /\ r.type = "FIND_SUCC" /\ r.source = n /\ r.from = n
    BY <2>1, RequestType DEF Request, Questions
  <2>3. inbox' = [inbox EXCEPT ![hop] = Append(@, r)]
    BY NoDeath DEF FingerAsk
  <2>4. task' = [task EXCEPT ![n].asks = hop]
    BY NoDeath DEF FingerAsk
  <2> HIDE DEF id, hop, r
  <2>5. task'[n].op = "fingers" /\ task'[n].next = task[n].next /\ task'[n].asks = hop
    BY <1>1, <1>2, <2>4 DEF TypeOK, Tasks
  <2> QED BY <2>1, <2>2, <2>3, <2>5
<1>5. \A x \in Node \ {n} : task'[x] = task[x]
  <2>1. \E d : task' = [task EXCEPT ![n].asks = d]
    BY NoDeath DEF FingerAsk
  <2> QED BY <2>1 DEF TypeOK
<1>6. Free(n) /\ answer[n] = {} /\ Leftover(inbox)
  BY <1>1, InboxLeftover DEF Free, Core, TokenInv
<1>7. /\ \A x \in Node : Single(inbox'[x])
      /\ \A x \in Node \ {hop} : AskedOf(x)' = AskedIn(inbox[x])
      /\ AskedOf(hop)' = AskedIn(inbox[hop]) \cup {r}
      /\ \A x \in Node, l \in {"SET_SUCC", "SET_PRED"} : LinksTo(x, l)' = LinksTo(x, l)
  <2>1. TokenInv /\ r.type \in Questions
    BY <1>3 DEF Core, Questions
  <2>2. r.from = n /\ inbox' = [inbox EXCEPT ![hop] = Append(@, r)]
    BY <1>3
  <2> QED BY <1>6, <2>1, <2>2, QuestionPosted
<1>8. Circle' = Circle /\ RingInv'
  BY <1>1, <1>3, <1>5, <1>7, RingFrameOne DEF LinkOps, Core
<1>9. AskedInv(hop, r)' /\ ServingInv(n)' /\ ~Rests(n)'
  <2>1. LooksUpFor(r.from, r.id, r.source)'
    BY <1>3, <1>5 DEF LooksUpFor
  <2>2. AskedInv(hop, r)'
    BY <1>3, <2>1 DEF AskedInv
  <2>3. task[n].next # Bits
    BY <1>1, <1>2, BitsAssumption
  <2>4. ServingInv(n)' /\ ~Rests(n)'
    BY <1>3, <2>3 DEF ServingInv, Serving, Rests, Resting
  <2> QED BY <2>2, <2>4
<1>10. TokenInv' /\ AnswerInv'
  <2>1. \A x \in Node : AskedIn(inbox[x]) \subseteq AskedOf(x)
    BY <1>6 DEF Leftover
  <2>2. /\ \A x \in Node \ {hop} : AskedOf(x)' \subseteq AskedOf(x)
        /\ AskedOf(hop)' \subseteq AskedOf(hop) \cup {r}
    BY <1>7, <2>1
  <2>3. task'[n].op \notin Serving \cup {"ask_pred", "tell_pred", "ask_succ"}
    BY <1>3 DEF Serving
  <2>4. \A x \in Node \ {n} : answer'[x] = answer[x] /\ pred'[x] = pred[x]
    BY <1>1 DEF ring
  <2> QED BY <1>1, <1>3, <1>5, <1>6, <1>7, <1>8, <1>9, <2>2, <2>3, <2>4, TokensAsk DEF Core
<1> QED BY <1>8, <1>10 DEF Core

LEMMA ListenCore ==
    ASSUME TypeOK, StatusInv, Core, NEW n \in Node, Listen(n)
    PROVE  Core'
<1>1. /\ task[n].op = "listen" /\ status' = [status EXCEPT ![n] = "up"]
      /\ task' = [task EXCEPT ![n] = Idle] /\ UNCHANGED <<pred, finger, inbox, answer>>
  BY DEF Listen
<1>2. status[n] = "joining" /\ Rests(n)
  BY <1>1, OpStatus DEF JoinOps, Rests, Resting
<1>3. task[n].asks = None /\ answer[n] = {} /\ Free(n)
  BY <1>2, RestsFree
<1>4. /\ status'[n] = "up" /\ \A x \in Node \ {n} : status'[x] = status[x]
      /\ task'[n].op = "idle" /\ task'[n].asks = None
      /\ \A x \in Node \ {n} : task'[x] = task[x]
  BY <1>1, IdleTask DEF TypeOK
<1>5. \A x \in Node : Asking(x)' <=> Asking(x)
  BY <1>1, <1>4 DEF Asking
<1>6. Circle' = Circle
  BY <1>2, <1>4, <1>5, CircleSame
<1>7. /\ \A x \in Node : AskedOf(x)' \subseteq AskedOf(x) /\ Single(inbox'[x])
      /\ \A x \in Node, type \in {"SET_SUCC", "SET_PRED"} : LinksTo(x, type)' = LinksTo(x, type)
  BY <1>1 DEF AskedOf, LinksTo, Box, Core, TokenInv, OwesOnce
<1>8. RingInv'
  <2>1. /\ \A x \in Node : Succ(x)' = Succ(x)
        /\ \A x \in Circle, i \in Indices : finger'[x][i] \in Circle
        /\ \A x \in Node : task'[x].op = "link_succ" <=> task[x].op = "link_succ"
    BY <1>1, <1>4 DEF Succ, Core, RingInv
  <2> QED BY <1>1, <1>5, <1>6, <1>7, <2>1, RingFrame DEF Core
<1>9. TokenInv' /\ AnswerInv'
  BY <1>1, <1>3, <1>4, <1>6, <1>7, TokensQuiet DEF Core, QuietTask, Serving
<1> QED BY <1>8, <1>9 DEF Core

-----------------------------------------------------------------------------
(* The links.                                                               *)

(* A link is read: what a node has read, and what is left.                  *)
LEMMA LinkRead ==
    ASSUME TypeOK, StatusInv, Core, NEW n \in Node, NEW type \in {"SET_SUCC", "SET_PRED"},
           Reads(n, type), inbox' = Rest(n), UNCHANGED <<status, task, answer>>,
           \A x \in Node \ {n} : pred'[x] = pred[x]
    PROVE  LET m == Head(inbox[n])
           IN  /\ n \in Circle /\ m \in LinksTo(n, type)
               /\ \A x \in Node, l \in {"SET_SUCC", "SET_PRED"} :
                     /\ LinksTo(x, l)' \subseteq LinksTo(x, l)
                     /\ x # n \/ l # type => LinksTo(x, l)' = LinksTo(x, l)
               /\ task[n].op = "idle"
               /\ \A x \in Node : ~Asking(x) /\ ~Asking(x)'
               /\ Circle' = Circle /\ TokenInv' /\ AnswerInv'
<1> DEFINE m == Head(inbox[n])
<1>1. status[n] = "up" /\ task[n].op = "idle"
  BY DEF Reads, Listens
<1>2. n \in Circle /\ Rests(n)
  BY <1>1, OnCircle DEF Rests, Resting
<1>3. task[n].asks = None /\ answer[n] = {} /\ Free(n)
  BY <1>2, RestsFree
<1>4. /\ \A x \in Node \ {n} : Rest(n)[x] = inbox[x]
      /\ m.type = type /\ Box(n) = Elems(Rest(n)[n]) \cup {m} /\ Single(Rest(n)[n])
  BY RestBox DEF Core, TokenInv, OwesOnce
<1> HIDE DEF m
<1>5. /\ m \in LinksTo(n, type)
      /\ \A x \in Node, l \in {"SET_SUCC", "SET_PRED"} :
            /\ LinksTo(x, l)' \subseteq LinksTo(x, l)
            /\ x # n \/ l # type => LinksTo(x, l)' = LinksTo(x, l)
  BY <1>4 DEF LinksTo, Box
<1>6. \A x \in Node : ~Asking(x) /\ ~Asking(x)'
  BY <1>5 DEF Core, RingInv, Asking
<1>7. Circle' = Circle
  BY <1>6, CircleSame
<1>8. \A x \in Node : AskedOf(x)' \subseteq AskedOf(x) /\ Single(inbox'[x])
  BY <1>4 DEF AskedOf, Box, Core, TokenInv, OwesOnce
<1>9. TokenInv' /\ AnswerInv'
  BY <1>1, <1>3, <1>7, <1>8, TokensQuiet DEF Core, QuietTask, Serving
<1> QED BY <1>1, <1>2, <1>5, <1>6, <1>7, <1>9 DEF m

LEMMA SetSuccCore ==
    ASSUME TypeOK, StatusInv, Core, NEW n \in Node, SetSucc(n)
    PROVE  Core'
<1> DEFINE v == Head(inbox[n]).source
<1>1. /\ Reads(n, "SET_SUCC") /\ inbox' = Rest(n)
      /\ finger' = [finger EXCEPT ![n][0] = v] /\ UNCHANGED <<status, pred, task, answer>>
  BY DEF SetSucc
<1>2. /\ n \in Circle /\ Head(inbox[n]) \in LinksTo(n, "SET_SUCC")
      /\ \A x \in Node, l \in {"SET_SUCC", "SET_PRED"} :
            /\ LinksTo(x, l)' \subseteq LinksTo(x, l)
            /\ x # n \/ l # "SET_SUCC" => LinksTo(x, l)' = LinksTo(x, l)
      /\ task[n].op = "idle"
      /\ \A x \in Node : ~Asking(x) /\ ~Asking(x)'
      /\ Circle' = Circle /\ TokenInv' /\ AnswerInv'
  BY <1>1, LinkRead
<1>3. Follows(n, v)
  BY <1>2 DEF Core, RingInv, SuccKnown
<1> HIDE DEF v
<1>4. /\ Succ(n)' = v /\ \A x \in Node \ {n} : Succ(x)' = Succ(x)
      /\ \A x \in Node, i \in Indices :
            finger'[x][i] = finger[x][i] \/ (finger'[x][i] = v /\ x = n)
  <2>1. 0 \in Indices /\ finger \in [Node -> [Indices -> Node]]
    BY BitsAssumption DEF TypeOK, Indices
  <2>2. finger' = [finger EXCEPT ![n][0] = v]
    BY <1>1
  <2>3. \A x \in Node, i \in Indices :
           finger'[x][i] = IF x = n /\ i = 0 THEN v ELSE finger[x][i]
    BY <2>1, <2>2
  <2> QED BY <2>1, <2>3 DEF Succ
<1>5. \A p, q : (Follows(p, q)' <=> Follows(p, q)) /\ (Leads(p, q)' <=> Leads(p, q))
  BY <1>2 DEF Follows, Leads, Adjacent
<1>6. ASSUME NEW x \in Circle PROVE SuccKnown(x)' /\ PredKnown(x)'
  <2>1. SuccKnown(x) /\ PredKnown(x) /\ x \in Node
    BY CircleNodes DEF Core, RingInv
  <2>2. SuccKnown(x)'
    <3>1. \A m \in LinksTo(x, "SET_SUCC")' : Follows(x, m.source)'
      BY <1>2, <1>5, <2>1 DEF SuccKnown
    <3>2. CASE x = n
      BY <1>3, <1>4, <1>5, <3>1, <3>2 DEF SuccKnown
    <3>3. CASE x # n
      <4>1. Succ(x)' = Succ(x) /\ LinksTo(x, "SET_SUCC")' = LinksTo(x, "SET_SUCC")
        BY <1>2, <1>4, <2>1, <3>3
      <4> QED BY <1>5, <2>1, <3>1, <4>1 DEF SuccKnown
    <3> QED BY <3>2, <3>3
  <2>3. LinksTo(x, "SET_PRED")' = LinksTo(x, "SET_PRED") /\ pred'[x] = pred[x]
    BY <1>1, <1>2, <2>1
  <2>4. \A y \in Node : task[y].op = "link_succ" => task'[y].op = "link_succ" /\ Succ(y)' = Succ(y)
    BY <1>1, <1>2, <1>4
  <2> QED BY <1>5, <2>1, <2>2, <2>3, <2>4 DEF PredKnown
<1>7. \A x \in Circle, i \in Indices : finger'[x][i] \in Circle
  BY <1>3, <1>4, CircleNodes DEF Core, RingInv, Follows
<1>8. \A x \in Node : task'[x].op = "link_succ" => Follows(x, Succ(x))'
  BY <1>1, <1>2, <1>4, <1>5 DEF Core, RingInv
<1>9. RingInv'
  BY <1>2, <1>6, <1>7, <1>8 DEF RingInv
<1> QED BY <1>2, <1>9 DEF Core

LEMMA SetPredCore ==
    ASSUME TypeOK, StatusInv, Core, NEW n \in Node, SetPred(n)
    PROVE  Core'
<1> DEFINE v == Head(inbox[n]).source
<1>1. /\ Reads(n, "SET_PRED") /\ inbox' = Rest(n)
      /\ pred' = [pred EXCEPT ![n] = v] /\ UNCHANGED <<status, finger, task, answer>>
  BY DEF SetPred
<1>2. pred'[n] = v /\ \A x \in Node \ {n} : pred'[x] = pred[x]
  BY <1>1 DEF TypeOK
<1>3. /\ n \in Circle /\ Head(inbox[n]) \in LinksTo(n, "SET_PRED")
      /\ \A x \in Node, l \in {"SET_SUCC", "SET_PRED"} :
            /\ LinksTo(x, l)' \subseteq LinksTo(x, l)
            /\ x # n \/ l # "SET_PRED" => LinksTo(x, l)' = LinksTo(x, l)
      /\ \A x \in Node : ~Asking(x) /\ ~Asking(x)'
      /\ Circle' = Circle /\ TokenInv' /\ AnswerInv'
  BY <1>1, <1>2, LinkRead
<1>4. Leads(v, n)
  BY <1>3 DEF Core, RingInv, PredKnown
<1> HIDE DEF v
<1>5. \A p, q : (Follows(p, q)' <=> Follows(p, q)) /\ (Leads(p, q)' <=> Leads(p, q))
  BY <1>3 DEF Follows, Leads, Adjacent
<1>6. \A x : Succ(x)' = Succ(x)
  BY <1>1 DEF Succ
<1>7. ASSUME NEW x \in Circle PROVE SuccKnown(x)' /\ PredKnown(x)'
  <2>1. SuccKnown(x) /\ PredKnown(x) /\ x \in Node
    BY CircleNodes DEF Core, RingInv
  <2>2. LinksTo(x, "SET_SUCC")' = LinksTo(x, "SET_SUCC")
    BY <1>3, <2>1
  <2>3. SuccKnown(x)'
    BY <1>5, <1>6, <2>1, <2>2 DEF SuccKnown
  <2>4. \A m \in LinksTo(x, "SET_PRED")' : Leads(m.source, x)'
    BY <1>3, <1>5, <2>1 DEF PredKnown
  <2>5. CASE x = n
    BY <1>2, <1>4, <1>5, <2>3, <2>4, <2>5 DEF PredKnown
  <2>6. CASE x # n
    <3>1. LinksTo(x, "SET_PRED")' = LinksTo(x, "SET_PRED") /\ pred'[x] = pred[x]
      BY <1>2, <1>3, <2>1, <2>6
    <3> QED BY <1>1, <1>5, <1>6, <2>1, <2>3, <2>4, <3>1 DEF PredKnown
  <2> QED BY <2>5, <2>6
<1>8. RingInv'
  BY <1>1, <1>3, <1>5, <1>6, <1>7 DEF Core, RingInv
<1> QED BY <1>3, <1>8 DEF Core

LEMMA LinkSuccCore ==
    ASSUME TypeOK, StatusInv, Core, NEW n \in Node, LinkSucc(n), Intact'
    PROVE  Core'
<1>1. /\ task[n].op = "link_succ" /\ task' = [task EXCEPT ![n] = Refresh(n)]
      /\ UNCHANGED <<ring, answer>>
  BY NoDeath DEF LinkSucc
<1>2. PICK s \in Node, r \in Requests :
         /\ s = Succ(n) /\ r.type = "SET_PRED" /\ r.source = n
         /\ inbox' = [inbox EXCEPT ![s] = Append(@, r)]
  <2> DEFINE r == Request("SET_PRED", n, n, n)
  <2>1. r \in Requests /\ r.type = "SET_PRED" /\ r.source = n
    BY NodesOnCircle, RequestType DEF Request, Orders
  <2>2. inbox' = [inbox EXCEPT ![Succ(n)] = Append(@, r)]
    BY NoDeath DEF LinkSucc, Tells
  <2> HIDE DEF r
  <2> QED BY <2>1, <2>2, HopNode
<1>3. n \in Circle /\ status[n] = "joining" /\ Rests(n) /\ Follows(n, s)
  BY <1>1, <1>2, OnCircle, OpStatus DEF JoinOps, Rests, Resting, Core, RingInv
<1>4. task[n].asks = None /\ answer[n] = {} /\ Free(n)
  BY <1>3, RestsFree
<1>5. /\ task'[n].op = "fingers" /\ task'[n].asks = None
      /\ \A x \in Node \ {n} : task'[x] = task[x]
  BY <1>1, Ops DEF TypeOK
<1>6. \A x \in Node : ~Asking(x) /\ ~Asking(x)' /\ (x # n => task[x].op # "link_succ")
  <2> SUFFICES ASSUME NEW x \in Node, x # n PROVE ~Asking(x) /\ task[x].op # "link_succ"
    BY <1>1, <1>5 DEF Asking
  <2>1. status[x] # "joining"
    BY <1>3 DEF StatusInv, OneJoins
  <2> QED BY <2>1, OpStatus DEF Asking, JoinOps
<1>7. Circle' = Circle
  BY <1>1, <1>6, CircleSame DEF ring
<1>8. /\ \A x \in Node \ {s} : inbox'[x] = inbox[x] /\ Box(x)' = Box(x)
      /\ Box(s)' = Box(s) \cup {r} /\ (Single(inbox[s]) => Single(inbox'[s]))
  <2>1. inbox \in Inboxes /\ r.type \notin Questions
    BY <1>2, TypeOKParts DEF Questions
  <2>2. /\ \A x \in Node \ {s} : inbox'[x] = inbox[x]
        /\ Box(s)' = Elems(inbox[s]) \cup {r}
        /\ Single(inbox[s]) => Single(inbox'[s])
    BY <1>2, <2>1, PostBox
  <2> QED BY <2>2 DEF Box
<1>9. /\ \A x \in Node : LinksTo(x, "SET_SUCC")' = LinksTo(x, "SET_SUCC")
      /\ \A x \in Node \ {s} : LinksTo(x, "SET_PRED")' = LinksTo(x, "SET_PRED")
      /\ LinksTo(s, "SET_PRED")' = LinksTo(s, "SET_PRED") \cup {r}
  BY <1>2, <1>8 DEF LinksTo
<1>10. \A p, q : (Follows(p, q)' <=> Follows(p, q)) /\ (Leads(p, q)' <=> Leads(p, q))
  BY <1>7 DEF Follows, Leads, Adjacent
<1>11. \A x : Succ(x)' = Succ(x)
  BY <1>1 DEF Succ, ring
<1>12. ASSUME NEW x \in Circle PROVE SuccKnown(x)' /\ PredKnown(x)'
  <2>1. SuccKnown(x) /\ PredKnown(x) /\ x \in Node
    BY CircleNodes DEF Core, RingInv
  <2>2. LinksTo(x, "SET_SUCC")' = LinksTo(x, "SET_SUCC")
    BY <1>9, <2>1
  <2>3. SuccKnown(x)'
    BY <1>10, <1>11, <2>1, <2>2 DEF SuccKnown
  <2>4. CASE x = s
    <3>1. Leads(n, s)
      BY <1>3 DEF Follows, Leads
    <3> QED BY <1>2, <1>9, <1>10, <2>1, <2>3, <2>4, <3>1 DEF PredKnown
  <2>5. CASE x # s
    <3>1. LinksTo(x, "SET_PRED")' = LinksTo(x, "SET_PRED") /\ pred'[x] = pred[x]
      BY <1>1, <1>9, <2>1, <2>5 DEF ring
    <3>2. ASSUME NEW y \in Node, task[y].op = "link_succ" PROVE Succ(y) # x
      BY <1>2, <1>6, <2>5, <3>2
    <3> QED BY <1>10, <2>1, <2>3, <3>1, <3>2 DEF PredKnown
  <2> QED BY <2>4, <2>5
<1>13. \A x \in Node : task'[x].op = "link_succ" => Follows(x, Succ(x))'
  BY <1>5, <1>6
<1>14. RingInv'
  BY <1>1, <1>6, <1>7, <1>12, <1>13 DEF Core, RingInv, ring
<1>15. TokenInv' /\ AnswerInv'
  <2>1. \A x \in Node : AskedOf(x)' \subseteq AskedOf(x) /\ Single(inbox'[x])
    BY <1>2, <1>8 DEF AskedOf, Questions, Core, TokenInv, OwesOnce
  <2> QED BY <1>1, <1>4, <1>5, <1>7, <2>1, TokensQuiet DEF Core, QuietTask, Serving, ring
<1> QED BY <1>14, <1>15 DEF Core

-----------------------------------------------------------------------------
(* A node finds its place.                                                  *)

LEMMA LearnPredCore ==
    ASSUME TypeOK, StatusInv, Core, NEW n \in Node, NEW p, LearnPred(n, p), Intact'
    PROVE  Core'
<1> DEFINE t == WithOp(task[n], "ask_succ")
<1>1. /\ task[n].op = "ask_pred" /\ answer[n] = {p} /\ Free(n)
      /\ pred' = [pred EXCEPT ![n] = p] /\ answer' = [answer EXCEPT ![n] = {}]
      /\ Asks(n, inbox, p, "TELL_SUCC", t) /\ UNCHANGED <<status, finger>>
  BY NoDeath DEF LearnPred, Gets, Free, WithOp
<1>2. p \in Circle /\ Adjacent(p, n) /\ Leads(p, n) /\ p \in Node
  <2>1. RightAnswer(n, p)
    BY <1>1 DEF Core, AnswerInv, AnswerOf
  <2> QED BY <1>1, <2>1, CircleNodes DEF RightAnswer, Leads
<1>3. t \in Tasks /\ t.op = "ask_succ" /\ t.id \in Points /\ t.source \in Node
  <2>1. task[n] \in Tasks /\ task[n].id \in Points /\ task[n].source \in Node
    BY <1>1 DEF TypeOK
  <2> QED BY <2>1, NextLookup DEF Operations
<1>4. PICK r \in Requests :
         /\ r.type = "TELL_SUCC" /\ r.from = n
         /\ inbox' = [inbox EXCEPT ![p] = Append(@, r)]
  <2> DEFINE r == Request("TELL_SUCC", t.id, t.source, n)
  <2>1. r \in Requests /\ r.type = "TELL_SUCC" /\ r.from = n
    BY <1>3, RequestType DEF Request, Questions
  <2>2. inbox' = [inbox EXCEPT ![p] = Append(@, r)]
    BY <1>1 DEF Asks
  <2> HIDE DEF r
  <2> QED BY <2>1, <2>2
<1>5. Asks(n, inbox, p, "TELL_SUCC", t)
  BY <1>1
<1> HIDE DEF t
<1>6. /\ task'[n].op = "ask_succ" /\ task'[n].asks = p
      /\ \A x \in Node \ {n} : task'[x] = task[x]
  BY <1>2, <1>3, <1>5, AsksTask
<1>7. Leftover(inbox) /\ r.type \in Questions
  BY <1>4, InboxLeftover DEF Core, Questions
<1>8. /\ \A x \in Node : Single(inbox'[x])
      /\ \A x \in Node \ {p} : AskedOf(x)' = AskedIn(inbox[x])
      /\ AskedOf(p)' = AskedIn(inbox[p]) \cup {r}
      /\ \A x \in Node, l \in {"SET_SUCC", "SET_PRED"} : LinksTo(x, l)' = LinksTo(x, l)
  <2>1. TokenInv /\ Free(n) /\ r.from = n /\ inbox' = [inbox EXCEPT ![p] = Append(@, r)]
    BY <1>1, <1>4 DEF Core
  <2> QED BY <1>2, <1>7, <2>1, QuestionPosted
<1>9. Asking(n) /\ n \notin Circle /\ \A x \in Node : Asking(x)' <=> Asking(x)
  BY <1>1, <1>6, Settled DEF Asking, Core
<1>10. Circle' = Circle
  BY <1>1, <1>9, CircleSame
<1>11. /\ pred'[n] = p /\ answer'[n] = {}
       /\ \A x \in Node \ {n} : pred'[x] = pred[x] /\ answer'[x] = answer[x]
  BY <1>1 DEF TypeOK
<1>12. RingInv'
  <2>1. /\ \A x \in Node : Succ(x)' = Succ(x)
        /\ \A x \in Circle, i \in Indices : finger'[x][i] \in Circle
        /\ \A x \in Node : task'[x].op = "link_succ" <=> task[x].op = "link_succ"
    BY <1>1, <1>6 DEF Succ, Core, RingInv
  <2>2. \A x \in Circle : pred'[x] = pred[x]
    BY <1>9, <1>11, CircleNodes
  <2> QED BY <1>8, <1>9, <1>10, <2>1, <2>2, RingFrame DEF Core
<1>13. TokenInv' /\ AnswerInv'
  <2>1. \A x \in Node : AskedIn(inbox[x]) \subseteq AskedOf(x)
    BY <1>7 DEF Leftover
  <2>2. /\ \A x \in Node \ {p} : AskedOf(x)' \subseteq AskedOf(x)
        /\ AskedOf(p)' \subseteq AskedOf(p) \cup {r}
    BY <1>2, <1>8, <2>1
  <2>3. AskedInv(p, r)'
    BY <1>4, <1>6 DEF AskedInv
  <2>4. /\ task'[n].op \notin Serving \cup {"ask_pred", "tell_pred"}
        /\ ServingInv(n)' /\ ~Rests(n)'
    BY <1>6 DEF Serving, ServingInv, Rests, Resting
  <2> QED BY <1>1, <1>2, <1>4, <1>6, <1>8, <1>10, <1>11, <2>2, <2>3, <2>4, TokensAsk DEF Core
<1> QED BY <1>12, <1>13 DEF Core

(* The circle gets one node more, between two neighbors.                    *)
LEMMA LearnSuccCore ==
    ASSUME TypeOK, StatusInv, Core, NEW n \in Node, NEW s, LearnSucc(n, s)
    PROVE  Core'
<1>1. /\ task[n].op = "ask_succ" /\ answer[n] = {s} /\ Free(n)
      /\ task' = [task EXCEPT ![n] = Doing("link_succ")]
      /\ answer' = [answer EXCEPT ![n] = {}] /\ UNCHANGED <<status, pred>>
  BY DEF LearnSucc, Gets, Free
<1>2. s \in Circle /\ Adjacent(n, s) /\ s \in Node /\ s # None
  <2>1. RightAnswer(n, s)
    BY <1>1 DEF Core, AnswerInv, AnswerOf
  <2> QED BY <1>1, <2>1, CircleNodes, NodesOnCircle DEF RightAnswer
<1>3. PICK q \in Circle : q = pred[n] /\ Adjacent(q, n) /\ q \in Node
  BY <1>1, CircleNodes DEF Core, AnswerInv, AnswerOf, Leads
<1>4. /\ Asking(n) /\ status[n] = "joining" /\ n \notin Circle
      /\ \A k \in Circle : Follows(k, Succ(k)) /\ Leads(pred[k], k)
  BY <1>1, OpStatus, Settled DEF Asking, JoinOps, Core
<1>5. \A x \in Node \ {n} : status[x] # "joining" /\ task[x].op \notin JoinOps
  BY <1>4, OpStatus DEF StatusInv, OneJoins
<1>6. Listens(q)
  <2>1. q # n
    BY <1>3, <1>4
  <2> QED BY <1>3, <1>5, <2>1 DEF Circle, Listens
<1>7. PICK r \in Requests :
         /\ r.type = "SET_SUCC" /\ r.source = n
         /\ inbox' = [inbox EXCEPT ![q] = Append(@, r)]
  <2> DEFINE r == Request("SET_SUCC", n, n, n)
  <2>1. r \in Requests /\ r.type = "SET_SUCC" /\ r.source = n
    BY NodesOnCircle, RequestType DEF Request, Orders
  <2>2. inbox' = [inbox EXCEPT ![q] = Append(@, r)]
    BY <1>3, <1>6 DEF LearnSucc, Tells
  <2> HIDE DEF r
  <2> QED BY <2>1, <2>2
<1>8. /\ \A x \in Node, i \in Indices :
            finger'[x][i] = IF x = n /\ i = 0 THEN s ELSE finger[x][i]
      /\ 0 \in Indices
  <2>1. 0 \in Indices /\ finger \in [Node -> [Indices -> Node]]
    BY BitsAssumption DEF TypeOK, Indices
  <2>2. finger' = [finger EXCEPT ![n][0] = s]
    BY <1>2 DEF LearnSucc
  <2> QED BY <2>1, <2>2
<1>9. Succ(n)' = s /\ \A x \in Node \ {n} : Succ(x)' = Succ(x)
  BY <1>8 DEF Succ
<1>10. /\ task'[n].op = "link_succ" /\ task'[n].asks = None /\ answer'[n] = {}
       /\ \A x \in Node \ {n} : task'[x] = task[x] /\ answer'[x] = answer[x]
  BY <1>1, Ops DEF TypeOK
<1>11. \A x \in Node : ~Asking(x)'
  BY <1>5, <1>10 DEF Asking, JoinOps
<1>12. Circle' = Circle \cup {n}
  <2>1. \A x \in Node \ {n} : x \in Circle' <=> x \in Circle
    BY <1>1, <1>10 DEF Circle, Asking
  <2>2. n \in Circle'
    BY <1>1, <1>4, <1>11 DEF Circle
  <2> QED BY <2>1, <2>2, CircleNodes DEF Circle
<1>13. \A x, y : Adjacent(x, y)' <=> Adjacent(x, y) /\ ~Between(x, n, y)
  BY <1>12 DEF Adjacent
<1>14. /\ \A x \in Node \ {q} : inbox'[x] = inbox[x] /\ Box(x)' = Box(x)
       /\ Box(q)' = Box(q) \cup {r} /\ (Single(inbox[q]) => Single(inbox'[q]))
  <2>1. inbox \in Inboxes /\ r.type \notin Questions
    BY <1>7, TypeOKParts DEF Questions
  <2>2. /\ \A x \in Node \ {q} : inbox'[x] = inbox[x]
        /\ Box(q)' = Elems(inbox[q]) \cup {r}
        /\ Single(inbox[q]) => Single(inbox'[q])
    BY <1>3, <1>7, <2>1, PostBox
  <2> QED BY <2>2 DEF Box
<1>15. \A x \in Node, l \in {"SET_SUCC", "SET_PRED"} :
          LinksTo(x, l)' = IF x = q /\ l = "SET_SUCC" THEN {r} ELSE {}
  <2>1. \A x \in Node, l \in {"SET_SUCC", "SET_PRED"} : LinksTo(x, l) = {}
    BY <1>4 DEF Core, RingInv
  <2> QED BY <1>7, <1>14, <2>1 DEF LinksTo
<1>16. ASSUME NEW k \in Circle' PROVE SuccKnown(k)'
  <2>1. k \in Node /\ (k = n \/ k \in Circle)
    BY <1>12, CircleNodes
  <2>2. CASE k = n
    <3>1. Follows(n, s)'
      BY <1>2, <1>12, <1>13, NotBetweenItself DEF Follows
    <3>2. n # q
      BY <1>3, <1>4
    <3> QED BY <1>9, <1>15, <2>1, <2>2, <3>1, <3>2 DEF SuccKnown
  <2>3. CASE k = q
    <3>1. Follows(q, n)'
      BY <1>3, <1>12, <1>13, NotBetweenItself DEF Follows
    <3> QED BY <1>7, <1>15, <2>1, <2>3, <3>1 DEF SuccKnown
  <2>4. CASE k # n /\ k # q
    <3>1. k \in Circle /\ Succ(k) \in Circle /\ Adjacent(k, Succ(k))
      BY <1>4, <2>1, <2>4 DEF Follows
    <3>2. ~Between(k, n, Succ(k))
      BY <1>3, <1>4, <2>4, <3>1, NotBetweenOthers
    <3>3. Follows(k, Succ(k))'
      BY <1>9, <1>12, <1>13, <2>1, <2>4, <3>1, <3>2 DEF Follows
    <3> QED BY <1>15, <2>1, <2>4, <3>3 DEF SuccKnown
  <2> QED BY <2>2, <2>3, <2>4
<1>17. ASSUME NEW k \in Circle' PROVE PredKnown(k)'
  <2>1. k \in Node /\ (k = n \/ k \in Circle) /\ LinksTo(k, "SET_PRED")' = {} /\ pred' = pred
    BY <1>1, <1>12, <1>15, CircleNodes
  <2>2. CASE k = n
    <3>1. Leads(pred[n], n)'
      BY <1>1, <1>3, <1>12, <1>13, NotBetweenItself DEF Leads
    <3> QED BY <2>1, <2>2, <3>1 DEF PredKnown
  <2>3. CASE k = s
    BY <1>9, <1>10, <2>1, <2>3 DEF PredKnown
  <2>4. CASE k # n /\ k # s
    <3>1. k \in Circle /\ pred[k] \in Circle /\ Adjacent(pred[k], k)
      BY <1>4, <2>1, <2>4 DEF Leads
    <3>2. ~Between(pred[k], n, k)
      BY <1>2, <1>4, <2>4, <3>1, NotBetweenEarlier
    <3>3. Leads(pred[k], k)'
      BY <1>1, <1>12, <1>13, <3>1, <3>2 DEF Leads
    <3> QED BY <2>1, <3>3 DEF PredKnown
  <2> QED BY <2>2, <2>3, <2>4
<1>18. \A k \in Circle', i \in Indices : finger'[k][i] \in Circle'
  <2>1. \A i \in Indices : finger[n][i] = n
    BY <1>4 DEF StatusInv, Fits
  <2> QED BY <1>2, <1>8, <1>12, <2>1, CircleNodes DEF Core, RingInv
<1>19. \A x \in Node : task'[x].op = "link_succ" => Follows(x, Succ(x))'
  <2>1. Follows(n, s)'
    BY <1>2, <1>12, <1>13, NotBetweenItself DEF Follows
  <2>2. \A x \in Node \ {n} : task'[x].op # "link_succ"
    BY <1>5, <1>10 DEF JoinOps
  <2> QED BY <1>9, <2>1, <2>2
<1>20. RingInv'
  BY <1>11, <1>16, <1>17, <1>18, <1>19 DEF RingInv
<1>21. TokenInv'
  <2>1. \A x \in Node : AskedOf(x)' \subseteq AskedOf(x) /\ Single(inbox'[x])
    BY <1>7, <1>14 DEF AskedOf, Questions, Core, TokenInv, OwesOnce
  <2> QED BY <1>1, <1>10, <2>1, QuietTokens DEF Core, QuietTask, Serving
<1>22. ASSUME NEW x \in Node PROVE AnswerOf(x)'
  <2>1. CASE x = n
    BY <1>10, <2>1 DEF AnswerOf
  <2>2. CASE x # n
    <3>1. task'[x] = task[x] /\ answer'[x] = answer[x] /\ task[x].op \notin JoinOps
      BY <1>5, <1>10, <2>2
    <3>2. task[x].op # "tell_pred"
      <4> SUFFICES ASSUME task[x].op = "tell_pred" PROVE FALSE
        OBVIOUS
      <4>1. task[x].from \in Node /\ task[task[x].from].op = "ask_pred"
        BY Served DEF Serving
      <4> QED BY <1>1, <1>5, <4>1 DEF JoinOps
    <3>3. \A y \in Node : task'[y].op # "ask_pred"
      BY <1>11 DEF Asking
    <3>4. task[x].op \in {"find_succ", "find_pred"} => task[x].source \in Node
      BY DEF Core, TokenInv, ServingInv, LooksUpFor, Serving
    <3>5. \A v \in answer[x] : v \in Circle'
      BY <1>12 DEF Core, AnswerInv, AnswerOf, RightAnswer
    <3> QED BY <3>1, <3>2, <3>3, <3>4, <3>5 DEF AnswerOf, RightAnswer, JoinOps
  <2> QED BY <2>1, <2>2
<1> QED BY <1>20, <1>21, <1>22 DEF Core, AnswerInv

LEMMA JoinCore ==
    ASSUME TypeOK, StatusInv, Core, Paced, NEW n \in Node, NEW c \in Node, Join(n, c)
    PROVE  Core'
<1> DEFINE t == Task("ask_pred", n, n, None)
<1>1. /\ status[n] = "off" /\ AtRest /\ status' = [status EXCEPT ![n] = "joining"]
      /\ UNCHANGED <<pred, finger, answer>> /\ Asks(n, inbox, c, "FIND_PRED", t)
  BY DEF Join
<1>2. t \in Tasks /\ t.op = "ask_pred"
  <2>1. n \in Points
    BY NodesOnCircle
  <2> QED BY <2>1, NewLookup
<1>3. PICK r \in Requests :
         /\ r.type = "FIND_PRED" /\ r.id = n /\ r.source = n /\ r.from = n
         /\ inbox' = [inbox EXCEPT ![c] = Append(@, r)]
  <2> DEFINE r == Request("FIND_PRED", n, n, n)
  <2>1. r \in Requests /\ r.type = "FIND_PRED" /\ r.id = n /\ r.source = n /\ r.from = n
    BY NodesOnCircle, RequestType DEF Request, Questions
  <2>2. inbox' = [inbox EXCEPT ![c] = Append(@, r)]
    BY <1>1 DEF Asks, Task
  <2> HIDE DEF r
  <2> QED BY <2>1, <2>2
<1>4. Asks(n, inbox, c, "FIND_PRED", t)
  BY <1>1
<1> HIDE DEF t
<1>5. /\ task'[n].op = "ask_pred" /\ task'[n].asks = c
      /\ \A x \in Node \ {n} : task'[x] = task[x]
  BY <1>2, <1>4, AsksTask
<1>6. /\ \A x \in Node : task[x].op = "idle" /\ task[x].asks = None /\ answer[x] = {}
      /\ \A x \in Node : AskedOf(x) = {}
      /\ \A x \in Node, l \in {"SET_SUCC", "SET_PRED"} : LinksTo(x, l) = {}
  <2>1. \A x \in Node : Box(x) = {}
    BY <1>1 DEF AtRest, Box, Elems
  <2>2. \A x \in Node : task[x].op = "idle" /\ task[x].asks = None
    BY <1>1, Ops DEF AtRest
  <2> QED BY <2>1, <2>2 DEF AskedOf, LinksTo, Core, TokenInv
<1>7. Free(n) /\ Leftover(inbox) /\ r.type \in Questions
  BY <1>3, <1>6, InboxLeftover DEF Free, Core, Questions
<1>8. /\ \A x \in Node : Single(inbox'[x])
      /\ \A x \in Node \ {c} : AskedOf(x)' = AskedIn(inbox[x])
      /\ AskedOf(c)' = AskedIn(inbox[c]) \cup {r}
      /\ \A x \in Node, l \in {"SET_SUCC", "SET_PRED"} : LinksTo(x, l)' = LinksTo(x, l)
  <2>1. TokenInv /\ r.from = n /\ inbox' = [inbox EXCEPT ![c] = Append(@, r)]
    BY <1>3 DEF Core
  <2> QED BY <1>7, <2>1, QuestionPosted
<1>9. /\ \A x \in Node \ {c} : AskedOf(x)' = {}
      /\ AskedOf(c)' = {r}
  <2>1. \A x \in Node : AskedIn(inbox[x]) = {}
    BY <1>6, <1>7 DEF Leftover
  <2> QED BY <1>8, <2>1
<1>10. Circle' = Circle
  <2>1. status'[n] = "joining" /\ \A x \in Node \ {n} : status'[x] = status[x]
    BY <1>1 DEF TypeOK
  <2>2. n \notin Circle /\ n \notin Circle'
    BY <1>1, <1>5 DEF Circle, Asking
  <2>3. \A x \in Node \ {n} : x \in Circle' <=> x \in Circle
    BY <1>5, <2>1 DEF Circle, Asking
  <2> QED BY <2>2, <2>3 DEF Circle
<1>11. RingInv'
  <2>1. /\ \A x \in Node : Succ(x)' = Succ(x)
        /\ \A x \in Circle, i \in Indices : finger'[x][i] \in Circle
        /\ \A x \in Node : task'[x].op = "link_succ" <=> task[x].op = "link_succ"
    BY <1>1, <1>5, <1>6 DEF Succ, Core, RingInv
  <2> QED BY <1>1, <1>6, <1>8, <1>10, <2>1, RingFrame DEF Core
<1>12. \A x \in Node : task'[x].op \notin Serving /\ (x # n => task'[x].op = "idle")
  BY <1>5, <1>6 DEF Serving
<1>13. TokenInv'
  <2>1. ASSUME NEW d \in Node, NEW f \in Node, Owes(d, f)' PROVE task'[f].asks = d /\ answer'[f] = {}
    <3>1. d = c /\ f = n
      BY <1>3, <1>9, <1>12, <2>1 DEF Owes
    <3> QED BY <1>1, <1>5, <1>6, <3>1
  <2>2. \A d \in Node : OwesOnce(d)' /\ ServingInv(d)'
    BY <1>8, <1>12 DEF OwesOnce, ServingInv, Serving
  <2>3. ASSUME NEW d \in Node, NEW m \in AskedOf(d)' PROVE AskedInv(d, m)'
    <3>1. m = r
      BY <1>9, <2>3
    <3> QED BY <1>3, <1>5, <3>1 DEF AskedInv
  <2>4. \A x \in Node : Rests(x)' => task'[x].asks = None
    BY <1>5, <1>6 DEF Rests, Resting
  <2> QED BY <1>1, <1>6, <2>1, <2>2, <2>3, <2>4 DEF TokenInv
<1>14. AnswerInv'
  BY <1>1, <1>5, <1>6, <1>12 DEF AnswerInv, AnswerOf, Serving
<1> QED BY <1>11, <1>13, <1>14 DEF Core

-----------------------------------------------------------------------------
(* All steps together.                                                      *)

(* What is lost stays so.                                                   *)
LEMMA LossesKept ==
    ASSUME [Next]_vars, \A n \in Node : ~Dies(n)
    PROVE  lost \subseteq lost'
<1>1. \A n, box, k : LosesBatch(n, box, k) => lost \subseteq lost'
  BY DEF LosesBatch
<1>2. CASE UNCHANGED vars
  BY <1>2 DEF vars, history
<1>3. ASSUME NEW n \in Node, Serve(n) PROVE lost \subseteq lost'
  BY <1>1, <1>3 DEF Serve, TellSucc, TellPred, SetSucc, SetPred, FindSucc, FindPred,
     PredOf, FindFinger, ExecuteKey, ForwardKey, DropKey, ReadsAgain, history
<1>4. ASSUME NEW n \in Node, UpdateFingers(n) \/ Lookup(n) \/ MakeContact(n)
      PROVE  lost \subseteq lost'
  BY <1>4 DEF UpdateFingers, FingerLocal, FingerAsk, FingerFound, PassRefreshOn, Lookup,
     SuccFound, SuccOfFound, PredOf, PredFound, MakeContact, LearnPred, LearnSucc, LinkSucc,
     Listen, history
<1>5. ASSUME NEW n \in Node, EmptyRead(n) \/ CloseClient(n) PROVE lost \subseteq lost'
  BY <1>1, <1>5 DEF EmptyRead, CloseClient
<1>6. ASSUME NEW n \in Node, NEW x, Join(n, x) \/ Connect(n, x) \/ SendAgain(n, x)
      PROVE  lost \subseteq lost'
  BY <1>6 DEF Join, Connect, SendAgain, history
<1> QED BY <1>2, <1>3, <1>4, <1>5, <1>6 DEF Next, Runs

(* A node that is dead stays so, and without Dies no other dies.            *)
LEMMA StatusKept ==
    ASSUME TypeOK, StatusInv, [Next]_vars, \A n \in Node : ~Dies(n), NEW x \in Node
    PROVE  status'[x] = "dead" <=> status[x] = "dead"
<1>1. \/ status' = status
      \/ \E n \in Node, st \in {"joining", "up"} :
            status[n] # "dead" /\ status' = [status EXCEPT ![n] = st]
  <2>1. CASE UNCHANGED vars
    BY <2>1 DEF vars, ring
  <2>2. ASSUME NEW n \in Node, Serve(n) PROVE status' = status
    BY <2>2 DEF Serve, TellSucc, TellPred, SetSucc, SetPred, FindSucc, FindPred,
       PredOf, FindFinger, ExecuteKey, ForwardKey, DropKey, ring
  <2>3. ASSUME NEW n \in Node, UpdateFingers(n) \/ Lookup(n) \/ (MakeContact(n) /\ ~Listen(n))
        PROVE  status' = status
    BY <2>3 DEF UpdateFingers, FingerLocal, FingerAsk, FingerFound, PassRefreshOn, Lookup,
       SuccFound, SuccOfFound, PredOf, PredFound, MakeContact, LearnPred, LearnSucc, LinkSucc, ring
  <2>4. ASSUME NEW n \in Node, EmptyRead(n) \/ CloseClient(n) PROVE status' = status
    BY <2>4 DEF EmptyRead, CloseClient, ring
  <2>5. ASSUME NEW n \in Node, NEW k, Connect(n, k) \/ SendAgain(n, k) PROVE status' = status
    BY <2>5 DEF Connect, SendAgain, ring
  <2>6. ASSUME NEW n \in Node, Listen(n) \/ \E c \in Node : Join(n, c)
        PROVE  \E st \in {"joining", "up"} : status' = [status EXCEPT ![n] = st]
    BY <2>6 DEF Listen, Join
  <2>7. ASSUME NEW n \in Node, Listen(n) \/ \E c \in Node : Join(n, c)
        PROVE  status[n] # "dead"
    BY <2>7, OpStatus DEF Listen, Join, JoinOps
  <2> QED BY <2>1, <2>2, <2>3, <2>4, <2>5, <2>6, <2>7 DEF Next, Runs
<1> QED BY <1>1 DEF TypeOK

(* Who is dead stays so.                                                    *)
LEMMA IntactBefore == TypeOK /\ StatusInv /\ [Next]_vars /\ Intact' => Intact
<1> SUFFICES ASSUME TypeOK, StatusInv, [Next]_vars, Intact' PROVE Intact
  OBVIOUS
<1>1. \A n \in Node : ~Dies(n)
  BY NoDeath
<1>2. lost \subseteq lost'
  BY <1>1, LossesKept
<1>3. \A x \in Node : status'[x] = "dead" <=> status[x] = "dead"
  BY <1>1, StatusKept
<1> QED BY <1>2, <1>3 DEF Intact, NobodyDead, Linked

LEMMA CoreStep ==
    ASSUME TypeOK, StatusInv, Core, Paced, [Next]_vars, Intact'
    PROVE  Core'
<1>1. CASE UNCHANGED vars
  <2>1. UNCHANGED <<ring, task, answer, inbox>>
    BY <1>1 DEF vars, net
  <2>2. Leftover(inbox)
    BY InboxLeftover DEF Core
  <2> QED BY <2>1, <2>2, LeftoverKept, SameTasksCore
<1>2. ASSUME NEW n \in Node, Serve(n) PROVE Core'
  BY <1>2, TellSuccCore, TellPredCore, SetSuccCore, SetPredCore, FindSuccCore, FindPredCore,
     FindFingerCore, ExecuteKeyCore, ForwardKeyCore, DropKeyCore DEF Serve
<1>3. ASSUME NEW n \in Node, UpdateFingers(n) PROVE Core'
  BY <1>3, FingerLocalCore, FingerAskCore, PassRefreshOnCore, FingerFoundCore DEF UpdateFingers
<1>4. ASSUME NEW n \in Node, Lookup(n) PROVE Core'
  BY <1>4, SuccFoundCore, SuccOfFoundCore, PredFoundCore DEF Lookup
<1>5. ASSUME NEW n \in Node, MakeContact(n) PROVE Core'
  BY <1>5, LearnPredCore, LearnSuccCore, LinkSuccCore, ListenCore DEF MakeContact
<1>6. ASSUME NEW n \in Node, EmptyRead(n) PROVE Core'
  BY <1>6, EmptyReadCore
<1>7. ASSUME NEW n \in Node, NEW c \in Node, Join(n, c) PROVE Core'
  BY <1>7, JoinCore
<1>8. ASSUME NEW n \in Node, NEW k \in Key, Connect(n, k) \/ SendAgain(n, k) PROVE Core'
  BY <1>8, ConnectCore, SendAgainCore
<1>9. ASSUME NEW n \in Node, CloseClient(n) PROVE Core'
  BY <1>9, CloseClientCore
<1> QED BY <1>1, <1>2, <1>3, <1>4, <1>5, <1>6, <1>7, <1>8, <1>9 DEF Next, Runs

LEMMA LinkStep == Paced /\ TypeOK /\ LinkInv /\ [Next]_vars => LinkInv'
<1> SUFFICES ASSUME Paced, TypeOK, LinkInv, [Next]_vars PROVE LinkInv'
  OBVIOUS
<1>1. StatusInv'
  BY StatusStep DEF LinkInv
<1>2. ASSUME Intact' PROVE Core'
  <2>1. Intact
    BY <1>2, IntactBefore DEF LinkInv
  <2> QED BY <1>2, <2>1, CoreStep DEF LinkInv
<1> QED BY <1>1, <1>2 DEF LinkInv

LEMMA LinkInit == Init => LinkInv
<1> SUFFICES ASSUME Init PROVE LinkInv
  OBVIOUS
<1>1. PICK first \in Node : status = [n \in Node |-> IF n = first THEN "up" ELSE "off"]
  BY NodeAssumption DEF Init
<1>2. /\ \A n \in Node : task[n] = Idle /\ task[n].op = "idle" /\ task[n].asks = None
      /\ \A n \in Node : answer[n] = {} /\ pred[n] = n
      /\ \A n \in Node, i \in Indices : finger[n][i] = n
  BY Ops DEF Init
<1>3. \A n \in Node : inbox[n] = <<>> /\ Box(n) = {} /\ AskedOf(n) = {}
                       /\ \A type : LinksTo(n, type) = {}
  BY DEF Init, Box, Elems, AskedOf, LinksTo
<1>4. Circle = {first}
  BY <1>1, <1>2 DEF Circle, Asking
<1>5. StatusInv
  BY <1>1, <1>2 DEF StatusInv, OneJoins, Fits, JoinOps
<1>6. RingInv
  <2>1. Adjacent(first, first)
    BY <1>4, NotBetweenItself DEF Adjacent
  <2>2. Succ(first) = first
    BY <1>2, BitsAssumption DEF Succ, Indices
  <2>3. Follows(first, Succ(first)) /\ Leads(pred[first], first)
    BY <1>2, <1>4, <2>1, <2>2 DEF Follows, Leads
  <2>4. SuccKnown(first) /\ PredKnown(first)
    BY <1>3, <2>3 DEF SuccKnown, PredKnown
  <2> QED BY <1>2, <1>3, <1>4, <2>4 DEF RingInv
<1>7. TokenInv
  <2>1. \A d, f \in Node : ~Owes(d, f)
    BY <1>2, <1>3 DEF Owes, Serving
  <2>2. \A d \in Node : OwesOnce(d) /\ ServingInv(d)
    BY <1>2, <1>3 DEF OwesOnce, ServingInv, Serving, Single
  <2> QED BY <1>2, <1>3, <2>1, <2>2 DEF TokenInv
<1>8. AnswerInv
  BY <1>2 DEF AnswerInv, AnswerOf
<1> QED BY <1>5, <1>6, <1>7, <1>8 DEF LinkInv, Core

-----------------------------------------------------------------------------
(* When nodes are started one after the other, each one finds its place:    *)
(* in every reachable state the links of the nodes on the circle are right, *)
(* or the message that puts them right is on its way; every question is     *)
(* answered at most once; and every answer is right for the node it is for, *)
(* however many nodes it has passed and whatever their finger tables hold.  *)
(* Without Paced two nodes that join at once may find the same place.       *)
THEOREM LinksRight == Paced => (Spec => []LinkInv)
<1> SUFFICES ASSUME Paced PROVE Spec => []LinkInv
  OBVIOUS
<1>1. Init => LinkInv
  BY LinkInit
<1>2. TypeOK /\ LinkInv /\ [Next]_vars => LinkInv'
  BY LinkStep
<1> QED BY <1>1, <1>2, TypeCorrect, PTL DEF Spec

(* The member after a node, with no other in between, is the first one that *)
(* follows it.                                                              *)
LEMMA NextIsClosest ==
    ASSUME NEW n \in Points, NEW s \in Points, NEW x \in Points, ~Between(n, x, s)
    PROVE  Distance((n + 1) % Space, s) <= Distance((n + 1) % Space, x)
<1>1. (n + 1) % Space = IF n + 1 = Space THEN 0 ELSE n + 1
  BY SpaceType DEF Points
<1>2. (n + 1) % Space \in Points
  BY <1>1, SpaceType DEF Points
<1> DEFINE q == (n + 1) % Space
<1>3. /\ Distance(q, s) = IF q <= s THEN s - q ELSE s - q + Space
      /\ Distance(q, x) = IF q <= x THEN x - q ELSE x - q + Space
  BY <1>2, DistanceOnCircle
<1> QED BY <1>1, <1>3, SpaceType DEF Points, Between

(* Nobody is on its way into the ring: the circle is made of the members.   *)
LEMMA CircleMembers ==
    ASSUME TypeOK, StatusInv, \A n \in Node : status[n] # "joining"
    PROVE  /\ Circle = Members
           /\ \A n \in Node : task[n].op \notin JoinOps
<1>1. \A n \in Node : task[n].op \notin JoinOps
  BY OpStatus
<1> QED BY <1>1 DEF Circle, Members, Asking, JoinOps

(* In a ring at rest, the links are those of the sorted circle.             *)
LEMMA RestedRing == TypeOK /\ LinkInv => OneRing
<1> SUFFICES ASSUME TypeOK, LinkInv, AtRest, NobodyDead, Linked, NEW n \in Members
             PROVE  Succ(n) = NextMember(n) /\ pred[NextMember(n)] = n
  BY DEF OneRing
<1>1. StatusInv /\ Core
  BY DEF LinkInv, Intact
<1>2. Circle = Members /\ \A x \in Node : task[x].op # "link_succ"
  BY <1>1, CircleMembers DEF AtRest, JoinOps
<1>3. \A x \in Node : \A type : LinksTo(x, type) = {}
  BY DEF AtRest, LinksTo, Box, Elems
<1>4. \A x \in Members : Follows(x, Succ(x)) /\ Leads(pred[x], x)
  BY <1>1, <1>2, <1>3, CircleNodes DEF Core, RingInv, SuccKnown, PredKnown
<1> DEFINE s == Succ(n)
<1>5. s \in Members /\ Adjacent(n, s)
  BY <1>2, <1>4 DEF Follows
<1> HIDE DEF s
<1>6. pred[s] = n
  <2>1. pred[s] \in Circle /\ Adjacent(pred[s], s) /\ s \in Circle /\ n \in Circle
    BY <1>2, <1>4, <1>5 DEF Leads
  <2> QED BY <1>5, <2>1, OneLeads
<1>7. Members \subseteq Points /\ Members # {} /\ (n + 1) % Space \in Points
  <2>1. Members \subseteq Points /\ Members # {}
    BY NodesOnCircle DEF Members
  <2>2. n \in Nat /\ Space \in Nat \ {0}
    BY <2>1, SpaceType DEF Points
  <2> QED BY <2>1, <2>2 DEF Points
<1>8. \A x \in Members : Distance((n + 1) % Space, s) <= Distance((n + 1) % Space, x)
  BY <1>2, <1>5, <1>7, NextIsClosest DEF Adjacent
<1>9. s = NextMember(n)
  BY <1>5, <1>7, <1>8, OwnerIsClosest DEF NextMember
<1> QED BY <1>6, <1>9 DEF s

(* While nobody is on its way into the ring, every member knows its         *)
(* predecessor, even if lookups and refreshes are under way.                *)
LEMMA CalmRing == TypeOK /\ LinkInv => OneOwner
<1> SUFFICES ASSUME TypeOK, LinkInv, Calm, NobodyDead, Linked PROVE OneOwner
  BY DEF OneOwner
<1>1. StatusInv /\ Core
  BY DEF LinkInv, Intact
<1>2. Circle = Members /\ \A x \in Node : task[x].op # "link_succ"
  BY <1>1, CircleMembers DEF Calm, JoinOps
<1>3. \A x \in Node : LinksTo(x, "SET_PRED") = {}
  BY DEF Calm, LinksTo, Box, Elems
<1>4. \A x \in Members : Leads(pred[x], x)
  BY <1>1, <1>2, <1>3, CircleNodes DEF Core, RingInv, PredKnown
<1>5. \A x \in Members : KnowsPred(x)
  BY <1>2, <1>4 DEF Leads, Adjacent, KnowsPred
<1> QED BY <1>5, RingDivided

(* "When the ring is at rest": the successors and the predecessors of its   *)
(* members are those of the one sorted circle of all members, for every set *)
(* of nodes that are started one after the other, in every order.           *)
THEOREM OneRingHolds == Paced => (Spec => []OneRing)
<1> SUFFICES ASSUME Paced PROVE Spec => []OneRing
  OBVIOUS
<1>1. TypeOK /\ LinkInv => OneRing
  BY RestedRing
<1>2. Spec => []LinkInv
  BY LinksRight
<1> QED BY <1>1, <1>2, TypeCorrect, PTL

(* While no node is on its way into the ring, each hash has the one node    *)
(* that executes the requests for it, the first at or after it, for every   *)
(* set of nodes that are started one after the other.                       *)
THEOREM OneOwnerHolds == Paced => (Spec => []OneOwner)
<1> SUFFICES ASSUME Paced PROVE Spec => []OneOwner
  OBVIOUS
<1>1. TypeOK /\ LinkInv => OneOwner
  BY CalmRing
<1>2. Spec => []LinkInv
  BY LinksRight
<1> QED BY <1>1, <1>2, TypeCorrect, PTL
=============================================================================
