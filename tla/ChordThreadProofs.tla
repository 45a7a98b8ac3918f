-------------------------- MODULE ChordThreadProofs --------------------------
(***************************************************************************)
(* Proofs about the lookups and the refreshes of Chord, for every set of   *)
(* nodes and every size of the circle: when nodes are started one after    *)
(* the other, one thread of control goes through the ring, although each   *)
(* node is a thread of its own.  From it follow which lookups end, and     *)
(* that one refresh per join puts the finger tables right.                 *)
(***************************************************************************)
EXTENDS ChordRingProofs

(* The rest holds as long as nobody dies and no request is lost.            *)
Unbroken == NobodyDead /\ lost = {}

-----------------------------------------------------------------------------
(* The inductive invariant.  A node that joins or that renews its fingers   *)
(* holds the thread of control, and a request to renew the next table hands *)
(* it on.                                                                   *)
HoldOps == {"ask_pred", "ask_succ", "link_succ", "fingers"}
Holders == {n \in Node : task[n].op \in HoldOps}
Awaiting == {n \in Node : LinksTo(n, "FIND_FINGER") # {}}

OneThread ==
    /\ \A x, y \in Holders : x = y
    /\ \A x, y \in Awaiting : x = y
    /\ Holders = {} \/ Awaiting = {}

(* A node reads the SET_SUCC of the node that joins before any request of   *)
(* the refresh that follows it, for it has only one of each in its inbox.   *)
Handed == Questions \cup {"FIND_FINGER"}

Orderly(s) ==
    \A a, b \in 1 .. Len(s) :
       /\ s[a].type = "FIND_FINGER" /\ s[b].type = "FIND_FINGER" => a = b
       /\ s[a].type = "SET_SUCC" /\ s[b].type \in Handed => a < b

OrderInv ==
    \A n \in Node :
       /\ Orderly(inbox[n])
       /\ LinksTo(n, "SET_SUCC") # {} => task[n].op \in {"idle", "read_client"}

(* All lookups are for the node that holds the thread and for the point it  *)
(* looks up now, and no chain of lookups runs in a circle: there is a rank  *)
(* that grows along it.                                                     *)
OnBehalf(id, r) ==
    /\ r \in Node
    /\ \/ task[r].op = "fingers" /\ id = Start(r, task[r].next)
       \/ task[r].op = "ask_pred" /\ id = r

BehalfInv ==
    \A n \in Node :
       /\ task[n].op \in Serving => OnBehalf(task[n].id, task[n].source)
       /\ \A m \in LinksTo(n, "FIND_SUCC") : OnBehalf(m.id, m.source)

Ranked ==
    \E rank \in [Node -> Nat] :
       \A n \in Node : task[n].op \in Serving => rank[task[n].from] < rank[n]

(* A node that is asked is up, and another.                                 *)
AskedUp == \A n \in Node : task[n].asks # None => task[n].asks \in Members \ {n}

ThreadInv == OneThread /\ OrderInv /\ BehalfInv /\ Ranked /\ AskedUp

(* Points beyond the first node of the circle: the lookup of one gets       *)
(* nearer with each node that it asks, and nearer than where it started.    *)
Beyond(p) == \E c \in Circle : c < p
Reachable(p) == p \notin Members /\ Beyond(p)

Asks4Succ == {"find_succ", "find_pred", "fingers"}

NearerAt(n) ==
    /\ task[n].asks # None /\ task[n].op \in Asks4Succ /\ Reachable(AsksFor(n))
          => Between(n, task[n].asks, AsksFor(n))
    /\ task[n].op = "find_succ" /\ task[task[n].source].op = "fingers" /\ Reachable(task[n].id)
          => Between(task[n].source, n, task[n].id)
    /\ \A m \in LinksTo(n, "FIND_SUCC") :
          task[m.source].op = "fingers" /\ Reachable(m.id) => Between(m.source, n, m.id)

NearerInv == \A n \in Node : NearerAt(n)

(* What a refresh finds is right, and the fingers are right but for those   *)
(* that the refresh has still to renew.                                     *)
Clear(p) == p \notin Circle /\ Beyond(p)

ForRefresh(n) ==
    \/ task[n].op = "fingers"
    \/ task[n].op = "find_succ" /\ task[task[n].source].op = "fingers"

FoundInv ==
    \A n \in Node : ForRefresh(n) /\ Clear(AsksFor(n))
       => \A v \in answer[n] : Adjacent(AsksFor(n), v)

FingerRight(n, i) == Clear(Start(n, i)) => Adjacent(Start(n, i), finger[n][i])

Ahead(n, h, source) == n = h \/ Between(h, n, source)

Due(n, i) ==
    \/ \E h \in Node : task[h].op = "link_succ"
    \/ \E h \in Node : /\ task[h].op = "fingers"
                       /\ IF n = h THEN i >= task[h].next ELSE Between(h, n, task[h].source)
    \/ \E h \in Node : \E m \in LinksTo(h, "FIND_FINGER") :
          h # m.source /\ Ahead(n, h, m.source)

RenewedInv ==
    /\ \A n \in Circle, i \in Indices \ {0} : FingerRight(n, i) \/ Due(n, i)
    /\ \A n \in Node :
          /\ task[n].op = "fingers" => task[n].source \in Circle
          /\ \A m \in LinksTo(n, "FIND_FINGER") : m.source \in Circle

Found == NearerInv /\ FoundInv /\ RenewedInv

Threaded == ThreadInv /\ Found

RefreshInv == Unbroken => Threaded

(* Whoever dies has been seen to refuse a connection.                       *)
DeathSeen == (\E n \in Node : status[n] = "dead") => refused

-----------------------------------------------------------------------------
(* The circle.                                                              *)

LEMMA BetweenOnwards ==
    ASSUME NEW a \in Nat, NEW b \in Nat, NEW d \in Nat, NEW c \in Nat,
           Between(a, b, c), Between(b, d, c)
    PROVE  Between(a, d, c) /\ d # a
BY DEF Between

LEMMA StartPoint ==
    ASSUME NEW n \in Node, NEW i \in 1 .. Bits
    PROVE  /\ Start(n, i) \in Points /\ Start(n, i) \in Nat
           /\ i < Bits => Start(n, i) # n
<1> DEFINE k == 2^i - 1
<1>1. Start(n, i) \in Points /\ Start(n, i) \in Nat
  <2>1. i \in 0 .. Bits
    OBVIOUS
  <2> QED BY <2>1, StartType, NodesOnCircle
<1>2. ASSUME i < Bits PROVE Start(n, i) # n
  <2>1. k \in Nat /\ 0 < k /\ k < Space
    <3>1. i \in 0 .. Bits /\ 0 \in 0 .. Bits /\ Bits \in 0 .. Bits /\ 0 < i
      BY BitsAssumption
    <3>2. 2^0 \in Nat \ {0} /\ 2^i \in Nat /\ 2^0 < 2^i /\ 2^i < Space /\ Space \in Nat
      BY <1>2, <3>1, PowerAssumption DEF Space
    <3> HIDE DEF Space
    <3> QED BY <3>2
  <2>2. n \in Nat /\ n < Space /\ Space \in Nat /\ Start(n, i) = (n + k) % Space
    <3>1. Start(n, i) = (n + 2^i - 1) % Space
      BY DEF Start
    <3>2. 2^i \in Nat /\ n \in Nat
      BY PowerAssumption, CircleNodes, BitsAssumption
    <3>3. n + 2^i - 1 = n + k
      BY <3>2
    <3> QED BY <3>1, <3>3, CircleNodes, SpaceType
  <2> HIDE DEF k
  <2>3. (n + k) % Space = IF n + k < Space THEN n + k ELSE n + k - Space
    BY <2>1, <2>2
  <2> QED BY <2>1, <2>2, <2>3
<1> QED BY <1>1, <1>2

LEMMA MembersOnCircle ==
    ASSUME TypeOK, StatusInv
    PROVE  Members \subseteq Circle
BY DEF Members, Circle, Asking, StatusInv, Fits, JoinOps

(* A node that asks another asks one that is nearer to the point, if there  *)
(* is a node on the circle below the point.                                 *)
LEMMA HopIsNearer ==
    ASSUME TypeOK, RingInv, NEW n \in Circle, NEW id \in Points, Beyond(id), id # n,
           Adjacent(n, Succ(n)), ~Direct(n, id), Hop(n, id) # n, Hop(n, id) # id
    PROVE  Between(n, Hop(n, id), id)
<1> DEFINE I == {i \in Indices : Precedes(finger[n][i], n, id)}
           h == Hop(n, id)
           s == Succ(n)
<1>1. n \in Node /\ n \in Nat /\ id \in Nat /\ h \in Nat /\ s \in Nat
  BY CircleNodes, NodesOnCircle, HopNode
<1>2. CASE I # {}
  <2>1. Precedes(h, n, id)
    BY <1>1, <1>2, ClosestType DEF Hop
  <2> HIDE DEF h
  <2>2. Between(n, h, id)
    BY <1>1, <2>1 DEF Precedes, Between, h
  <2> QED BY <2>2 DEF h
<1>3. CASE I = {}
  <2>1. h = s /\ ~Precedes(s, n, id)
    BY <1>1, <1>3, ClosestType DEF Hop, Succ
  <2>2. PICK c \in Circle : c < id
    BY DEF Beyond
  <2>3. ~Between(n, c, s) /\ c \in Nat
    BY CircleNodes DEF Adjacent
  <2>4. ~(id > n /\ (id <= s \/ s < n)) /\ s # n /\ s # id
    BY <2>1 DEF Direct
  <2> HIDE DEF h, s
  <2> QED BY <1>1, <2>1, <2>2, <2>3, <2>4 DEF Precedes, Between
<1> QED BY <1>2, <1>3

(* A lookup that has got nearer with each node ends with the node that      *)
(* follows the point.                                                       *)
LEMMA LocalClear ==
    ASSUME TypeOK, RingInv, NEW n \in Circle, NEW id \in Points, Clear(id),
           Follows(n, Succ(n)), NEW source \in Node, Local(n, id, source),
           source = n \/ Between(source, n, id)
    PROVE  Adjacent(id, LocalSucc(n, id))
<1>1. n \in Node /\ n \in Nat /\ id \in Nat /\ source \in Nat /\ id \notin Circle
  BY CircleNodes, NodesOnCircle DEF Clear
<1>2. CASE Direct(n, id)
  <2> DEFINE s == Succ(n)
  <2>1. s \in Circle /\ Adjacent(n, s) /\ id > n /\ (id <= s \/ s < n)
    BY <1>2 DEF Follows, Direct
  <2>2. LocalSucc(n, id) = s
    BY <1>2 DEF LocalSucc
  <2> HIDE DEF s
  <2> SUFFICES ASSUME NEW x \in Circle, Between(id, x, s) PROVE FALSE
    BY <2>2 DEF Adjacent
  <2>3. ~Between(n, x, s) /\ id # s /\ id # x /\ x \in Nat /\ s \in Nat
    BY <1>1, <2>1, CircleNodes DEF Adjacent
  <2> QED BY <1>1, <2>1, <2>3 DEF Between
<1>3. CASE ~Direct(n, id)
  <2>1. LocalSucc(n, id) = n /\ Hop(n, id) \in {source, n}
    BY <1>3 DEF LocalSucc, Local
  <2>2. CASE Hop(n, id) = n
    <3>1. Succ(n) = n
      BY <1>1, <2>2, HopElsewhere
    <3> SUFFICES ASSUME NEW x \in Circle, Between(id, x, n) PROVE FALSE
      BY <2>1 DEF Adjacent
    <3>2. ~Between(n, x, n) /\ x \in Nat
      BY <3>1, CircleNodes DEF Follows, Adjacent
    <3> QED BY <1>1, <3>2 DEF Between
  <2>3. CASE Hop(n, id) # n
    <3>1. Hop(n, id) = source /\ source # n /\ Between(source, n, id)
      BY <2>1, <2>3
    <3>2. source \in Circle
      <4>1. ClosestIndex(n, id) \in Indices
        BY <1>1, ClosestType
      <4> QED BY <3>1, <4>1 DEF Hop, RingInv
    <3>3. source # id /\ id # n
      BY <1>1, <3>2
    <3>4. Between(n, source, id)
      BY <1>3, <2>3, <3>1, <3>3, HopIsNearer DEF Clear, Follows
    <3> QED BY <1>1, <3>1, <3>4 DEF Between
  <2> QED BY <2>2, <2>3
<1> QED BY <1>2, <1>3

-----------------------------------------------------------------------------
(* What the inboxes hold, and in which order.                               *)

LEMMA OrderlyTail ==
    ASSUME NEW s \in Seq(Requests), s # <<>>, Orderly(s)
    PROVE  /\ Orderly(Tail(s))
           /\ Head(s).type \in Handed => LinksIn(s, "SET_SUCC") = {}
           /\ Head(s).type = "FIND_FINGER" => /\ LinksIn(s, "FIND_FINGER") = {Head(s)}
                                              /\ LinksIn(Tail(s), "FIND_FINGER") = {}
<1> DEFINE t == Tail(s)
<1>1. /\ t \in Seq(Requests) /\ Len(t) = Len(s) - 1 /\ Len(s) \in Nat \ {0}
      /\ \A i \in 1 .. Len(t) : t[i] = s[i + 1]
      /\ Head(s) = s[1]
  BY HeadTailProperties, EmptySeq
<1> HIDE DEF t
<1>2. /\ 1 \in 1 .. Len(s) /\ Len(t) \in Nat
      /\ \A i \in 1 .. Len(t) : i + 1 \in 1 .. Len(s) /\ i + 1 # 1 /\ i \in Nat
  BY <1>1
<1>3. Orderly(t)
  <2> SUFFICES ASSUME NEW a \in 1 .. Len(t), NEW b \in 1 .. Len(t)
               PROVE  /\ t[a].type = "FIND_FINGER" /\ t[b].type = "FIND_FINGER" => a = b
                      /\ t[a].type = "SET_SUCC" /\ t[b].type \in Handed => a < b
    BY DEF Orderly
  <2>1. t[a] = s[a + 1] /\ t[b] = s[b + 1] /\ a + 1 \in 1 .. Len(s) /\ b + 1 \in 1 .. Len(s)
        /\ a \in Nat /\ b \in Nat
    BY <1>1, <1>2
  <2>2. /\ s[a + 1].type = "FIND_FINGER" /\ s[b + 1].type = "FIND_FINGER" => a + 1 = b + 1
        /\ s[a + 1].type = "SET_SUCC" /\ s[b + 1].type \in Handed => a + 1 < b + 1
    BY <2>1 DEF Orderly
  <2> QED BY <2>1, <2>2
<1>4. ASSUME s[1].type \in Handed, NEW k \in 1 .. Len(s), s[k].type = "SET_SUCC" PROVE FALSE
  <2>1. k < 1
    BY <1>2, <1>4 DEF Orderly
  <2> QED BY <2>1
<1>5. ASSUME s[1].type = "FIND_FINGER", NEW k \in 1 .. Len(s), s[k].type = "FIND_FINGER"
      PROVE  k = 1
  BY <1>2, <1>5 DEF Orderly
<1>6. ASSUME s[1].type = "FIND_FINGER", NEW k \in 1 .. Len(t), t[k].type = "FIND_FINGER"
      PROVE  FALSE
  BY <1>1, <1>2, <1>5, <1>6
<1> QED BY <1>1, <1>2, <1>3, <1>4, <1>5, <1>6 DEF LinksIn, Elems, t

LEMMA OrderlyAppend ==
    ASSUME NEW s \in Seq(Requests), NEW r \in Requests, Orderly(s),
           r.type = "FIND_FINGER" => LinksIn(s, "FIND_FINGER") = {},
           r.type = "SET_SUCC" => \A m \in Elems(s) : m.type \notin Handed
    PROVE  Orderly(Append(s, r))
<1> DEFINE t == Append(s, r)
<1>1. /\ Len(t) = Len(s) + 1 /\ Len(s) \in Nat /\ t[Len(s) + 1] = r
      /\ \A k \in 1 .. Len(s) : t[k] = s[k]
  BY AppendProperties
<1> HIDE DEF t
<1>2. SUFFICES ASSUME NEW a \in 1 .. Len(t), NEW b \in 1 .. Len(t)
               PROVE  /\ t[a].type = "FIND_FINGER" /\ t[b].type = "FIND_FINGER" => a = b
                      /\ t[a].type = "SET_SUCC" /\ t[b].type \in Handed => a < b
  BY DEF Orderly, t
<1>3. \A k \in 1 .. Len(s) : t[k] \in Elems(s)
  BY <1>1 DEF Elems
<1>4. CASE a \in 1 .. Len(s) /\ b \in 1 .. Len(s)
  BY <1>1, <1>4 DEF Orderly
<1>5. CASE a = Len(s) + 1 /\ b \in 1 .. Len(s)
  BY <1>1, <1>3, <1>5 DEF LinksIn, Handed
<1>6. CASE b = Len(s) + 1 /\ a \in 1 .. Len(s)
  BY <1>1, <1>3, <1>6 DEF LinksIn
<1>7. CASE a = Len(s) + 1 /\ b = Len(s) + 1
  BY <1>1, <1>7 DEF Handed, Questions
<1> QED BY <1>1, <1>4, <1>5, <1>6, <1>7

LEMMA OrderlyPrepend ==
    ASSUME NEW s \in Seq(Requests), NEW r \in Requests, Orderly(s), r.type = "KEY"
    PROVE  Orderly(<<r>> \o s)
<1> DEFINE t == <<r>> \o s
<1>1. <<r>> \in Seq(Requests) /\ Len(<<r>>) = 1
  OBVIOUS
<1>2. /\ Len(t) = Len(s) + 1 /\ Len(s) \in Nat
      /\ \A k \in 1 .. Len(t) : t[k] = IF k <= 1 THEN r ELSE s[k - 1]
  <2>1. Len(t) = 1 + Len(s) /\ Len(s) \in Nat
    BY <1>1, ConcatProperties
  <2>2. \A k \in 1 .. Len(<<r>>) + Len(s) :
           t[k] = IF k <= Len(<<r>>) THEN <<r>>[k] ELSE s[k - Len(<<r>>)]
    BY <1>1, ConcatProperties
  <2>3. \A k \in 1 .. Len(t) : k <= 1 => <<r>>[k] = r
    BY <2>1
  <2> QED BY <1>1, <2>1, <2>2, <2>3
<1> HIDE DEF t
<1>3. SUFFICES ASSUME NEW a \in 1 .. Len(t), NEW b \in 1 .. Len(t)
               PROVE  /\ t[a].type = "FIND_FINGER" /\ t[b].type = "FIND_FINGER" => a = b
                      /\ t[a].type = "SET_SUCC" /\ t[b].type \in Handed => a < b
  BY DEF Orderly, t
<1>4. \A k \in 1 .. Len(t) : \/ k = 1 /\ t[k] = r
                             \/ k - 1 \in 1 .. Len(s) /\ t[k] = s[k - 1]
  BY <1>2
<1>5. r.type \notin Handed \cup {"SET_SUCC", "FIND_FINGER"}
  BY DEF Handed, Questions
<1>6. CASE a = 1 \/ b = 1
  BY <1>4, <1>5, <1>6 DEF Handed
<1>7. CASE a - 1 \in 1 .. Len(s) /\ b - 1 \in 1 .. Len(s)
           /\ t[a] = s[a - 1] /\ t[b] = s[b - 1]
  <2>1. /\ s[a - 1].type = "FIND_FINGER" /\ s[b - 1].type = "FIND_FINGER" => a - 1 = b - 1
        /\ s[a - 1].type = "SET_SUCC" /\ s[b - 1].type \in Handed => a - 1 < b - 1
    BY <1>7 DEF Orderly
  <2>2. a \in Nat /\ b \in Nat
    BY <1>2
  <2> QED BY <1>7, <2>1, <2>2
<1> QED BY <1>4, <1>6, <1>7

(* Inboxes from which requests have been read, and to which others than     *)
(* those of the thread may have been added.                                 *)
Kept(box) ==
    /\ box \in Inboxes
    /\ \A x \in Node :
          /\ Orderly(box[x])
          /\ LinksIn(box[x], "FIND_SUCC") \subseteq LinksTo(x, "FIND_SUCC")
          /\ LinksIn(box[x], "FIND_FINGER") = LinksTo(x, "FIND_FINGER")
          /\ LinksIn(box[x], "SET_SUCC") \subseteq LinksTo(x, "SET_SUCC")

LEMMA InboxKept == TypeOK /\ OrderInv => Kept(inbox)
BY TypeOKParts DEF Kept, OrderInv, LinksIn, LinksTo, Box

LEMMA ReadKept ==
    ASSUME TypeOK, OrderInv, NEW n \in Node, NEW type, Reads(n, type)
    PROVE  /\ type # "FIND_FINGER" => Kept(Rest(n))
           /\ type \in Handed => LinksTo(n, "SET_SUCC") = {}
           /\ Head(inbox[n]) \in LinksTo(n, type)
<1> DEFINE s == inbox[n]
<1>1. /\ Rest(n) \in Inboxes /\ \A x \in Node \ {n} : Rest(n)[x] = inbox[x]
      /\ Head(s).type = type /\ Box(n) = Elems(Rest(n)[n]) \cup {Head(s)}
  BY RestBox
<1>2. Rest(n)[n] = Tail(s) /\ s \in Seq(Requests) /\ s # <<>> /\ Orderly(s)
  BY DEF Rest, TypeOK, Reads, OrderInv
<1>3. Orderly(Tail(s)) /\ (type \in Handed => LinksIn(s, "SET_SUCC") = {})
  BY <1>1, <1>2, OrderlyTail
<1>4. Elems(s) = Box(n)
  BY DEF Box
<1>5. LinksTo(n, "SET_SUCC") = LinksIn(s, "SET_SUCC")
  BY <1>4 DEF LinksTo, LinksIn
<1> HIDE DEF s
<1>6. ASSUME NEW x \in Node, type # "FIND_FINGER"
      PROVE  /\ Orderly(Rest(n)[x])
             /\ LinksIn(Rest(n)[x], "FIND_SUCC") \subseteq LinksTo(x, "FIND_SUCC")
             /\ LinksIn(Rest(n)[x], "FIND_FINGER") = LinksTo(x, "FIND_FINGER")
             /\ LinksIn(Rest(n)[x], "SET_SUCC") \subseteq LinksTo(x, "SET_SUCC")
  <2>1. CASE x = n
    <3>1. Orderly(Rest(n)[x])
      BY <1>2, <1>3, <2>1
    <3> QED BY <1>1, <1>6, <2>1, <3>1 DEF LinksIn, LinksTo
  <2>2. CASE x # n
    <3>1. Kept(inbox)
      BY InboxKept
    <3> QED BY <1>1, <2>2, <3>1 DEF Kept
  <2> QED BY <2>1, <2>2
<1>7. Head(s) \in LinksTo(n, type)
  BY <1>1 DEF LinksTo
<1> QED BY <1>1, <1>3, <1>5, <1>6, <1>7 DEF Kept, s

Routine == {"KEY", "SET_PRED", "FIND_PRED", "TELL_SUCC", "TELL_PRED"}

LEMMA KeptPosted ==
    ASSUME NEW box, Kept(box), NEW d \in Node, NEW r \in Requests, r.type \in Routine
    PROVE  Kept([box EXCEPT ![d] = Append(@, r)])
<1> DEFINE b == [box EXCEPT ![d] = Append(@, r)]
<1>1. b \in Inboxes /\ box \in Inboxes
  BY PostType DEF Kept
<1>2. b[d] = Append(box[d], r) /\ \A x \in Node \ {d} : b[x] = box[x]
  BY <1>1 DEF Inboxes
<1>3. box[d] \in Seq(Requests) /\ Orderly(box[d])
  BY <1>1 DEF Inboxes, Kept
<1>4. r.type \notin {"FIND_SUCC", "FIND_FINGER", "SET_SUCC"}
  BY DEF Routine
<1>5. Orderly(b[d]) /\ Elems(b[d]) = Elems(box[d]) \cup {r}
  BY <1>2, <1>3, <1>4, OrderlyAppend, ElemsAppend
<1>6. \A type \in {"FIND_SUCC", "FIND_FINGER", "SET_SUCC"} :
         LinksIn(b[d], type) = LinksIn(box[d], type)
  BY <1>4, <1>5 DEF LinksIn
<1> HIDE DEF b
<1> SUFFICES Kept(b)
  BY DEF b
<1> QED BY <1>1, <1>2, <1>5, <1>6 DEF Kept

LEMMA KeptPrepended ==
    ASSUME NEW box, Kept(box), NEW d \in Node, NEW r \in Requests, r.type = "KEY"
    PROVE  Kept([box EXCEPT ![d] = <<r>> \o @])
<1> DEFINE b == [box EXCEPT ![d] = <<r>> \o @]
<1>1. box \in Inboxes /\ box[d] \in Seq(Requests) /\ Orderly(box[d])
  BY DEF Kept, Inboxes
<1>2. b[d] = <<r>> \o box[d] /\ \A x \in Node \ {d} : b[x] = box[x]
  BY <1>1 DEF Inboxes
<1>3. b \in Inboxes
  <2>1. <<r>> \in Seq(Requests)
    OBVIOUS
  <2>2. <<r>> \o box[d] \in Seq(Requests)
    BY <1>1, <2>1, ConcatProperties
  <2> QED BY <1>1, <2>2 DEF Inboxes
<1>4. Orderly(b[d]) /\ Elems(b[d]) = Elems(box[d]) \cup {r}
  BY <1>1, <1>2, OrderlyPrepend, PrependElems
<1>5. \A type \in {"FIND_SUCC", "FIND_FINGER", "SET_SUCC"} :
         LinksIn(b[d], type) = LinksIn(box[d], type)
  BY <1>4 DEF LinksIn
<1> HIDE DEF b
<1> SUFFICES Kept(b)
  BY DEF b
<1> QED BY <1>2, <1>3, <1>4, <1>5 DEF Kept

(* A batch in which no request is lost is empty.                            *)
LEMMA NothingLost ==
    ASSUME NEW n \in Node, NEW box \in Inboxes, NEW k \in 0 .. Len(box[n]),
           LosesBatch(n, box, k), Unbroken'
    PROVE  k = 0 /\ inbox' = box
<1> DEFINE s == box[n]
           t == SubSeq(s, k + 1, Len(s))
<1>1. s \in Seq(Requests) /\ Len(s) \in Nat
  BY DEF Inboxes
<1>2. k = 0
  <2> SUFFICES ASSUME k # 0 PROVE FALSE
    OBVIOUS
  <2>1. 1 \in 1 .. k
    BY <1>1
  <2>2. box[n][1].type \in lost'
    BY <2>1 DEF LosesBatch
  <2> QED BY <2>2 DEF Unbroken
<1>3. t = s
  <2>1. t \in Seq(Requests) /\ Len(t) = Len(s)
    BY <1>1, <1>2, SubSeqProperties
  <2>2. \A i \in 1 .. Len(s) : t[i] = s[i]
    <3>1. \A i \in 1 .. Len(s) : t[i] = s[k + 1 + i - 1] /\ k + 1 + i - 1 = i
      BY <1>1, <1>2, SubSeqProperties
    <3> QED BY <3>1
  <2> HIDE DEF t, s
  <2> QED BY <1>1, <2>1, <2>2, SeqEqual
<1>4. inbox' = [box EXCEPT ![n] = t]
  BY DEF LosesBatch
<1> HIDE DEF t
<1> QED BY <1>2, <1>3, <1>4 DEF Inboxes

-----------------------------------------------------------------------------
(* The thread of control.                                                   *)

(* While the holder of the thread waits for nobody, no node serves another, *)
(* and no question is on its way.                                           *)
LEMMA Silence ==
    ASSUME TypeOK, TokenInv, Ranked, \A h \in Holders : Free(h)
    PROVE  \A n \in Node : task[n].op \notin Serving /\ AskedOf(n) = {}
<1> DEFINE S == {n \in Node : task[n].op \in Serving}
<1>1. ASSUME NEW d \in Node, NEW f \in Node, Owes(d, f) PROVE f \notin Holders
  <2>1. ~Free(f)
    BY <1>1, NodesOnCircle DEF TokenInv, Free
  <2> QED BY <2>1
<1>2. S = {}
  <2> SUFFICES ASSUME S # {} PROVE FALSE
    OBVIOUS
  <2>1. PICK rank \in [Node -> Nat] :
           \A n \in Node : task[n].op \in Serving => rank[task[n].from] < rank[n]
    BY DEF Ranked
  <2>2. PICK n \in S : \A x \in S : rank[n] <= rank[x]
    <3> DEFINE T == {rank[x] : x \in S}
    <3>1. T \subseteq Nat /\ T # {}
      BY <2>1
    <3>2. PICK k \in T : \A j \in T : k <= j
      BY <3>1, LeastNatural
    <3>3. PICK n \in S : k = rank[n]
      BY <3>2
    <3> QED BY <3>2, <3>3
  <2> DEFINE f == task[n].from
  <2>3. n \in Node /\ task[n].op \in Serving /\ f \in Node /\ ServingInv(n)
    BY <2>2 DEF TokenInv, ServingInv
  <2>4. Owes(n, f) /\ rank[f] < rank[n]
    BY <2>1, <2>3 DEF Owes
  <2>5. f \notin S
    BY <2>1, <2>2, <2>3, <2>4
  <2>6. f \notin Holders
    BY <1>1, <2>3, <2>4
  <2>7. task[f].op \in Serving \cup HoldOps
    BY <2>3 DEF ServingInv, Serving, LooksUpFor, HoldOps
  <2> QED BY <2>3, <2>5, <2>6, <2>7 DEF Holders
<1>3. ASSUME NEW d \in Node, NEW m \in AskedOf(d) PROVE FALSE
  <2>1. m \in Requests /\ m.type \in Questions
    BY <1>3, BoxType DEF AskedOf
  <2>2. m.from \in Node
    BY <2>1, RequestFields DEF Questions
  <2>3. Owes(d, m.from) /\ AskedInv(d, m)
    BY <1>3, <2>2 DEF Owes, TokenInv
  <2>4. task[m.from].op \in Serving \cup HoldOps
    BY <2>1, <2>3 DEF Questions, AskedInv, LooksUpFor, Serving, HoldOps
  <2> QED BY <1>1, <1>2, <2>2, <2>3, <2>4 DEF Holders
<1> QED BY <1>2, <1>3

LEMMA NoLookups ==
    ASSUME \A n \in Node : AskedOf(n) = {}
    PROVE  \A n \in Node : LinksTo(n, "FIND_SUCC") = {}
BY DEF AskedOf, LinksTo, Questions

(* A node that takes part in a lookup knows its successor.                  *)
LEMMA KnowsSucc ==
    ASSUME TypeOK, StatusInv, RingInv, OrderInv, NEW n \in Circle,
           task[n].op \notin {"idle", "read_client"} \/ LinksTo(n, "SET_SUCC") = {}
    PROVE  Follows(n, Succ(n))
<1>1. n \in Node
  BY CircleNodes
<1>2. LinksTo(n, "SET_SUCC") = {}
  BY <1>1 DEF OrderInv
<1> QED BY <1>2 DEF RingInv, SuccKnown

LEMMA LinksAfter ==
    ASSUME NEW x \in Node, NEW type
    PROVE  LinksTo(x, type)' = LinksIn(inbox'[x], type)
BY DEF LinksTo, LinksIn, Box

(* A step that leaves the thread where it is.                               *)
LEMMA ThreadStays ==
    ASSUME TypeOK, Threaded, NEW n \in Node,
           Circle' = Circle, Members \subseteq Members',
           \A x \in Node \ {n} : task'[x] = task[x],
           \/ task'[n] = task[n]
           \/ /\ task[n].op \notin HoldOps
              /\ task'[n].op \in {"idle", "read_client"} /\ task'[n].asks = None,
           Kept(inbox'),
           \A x \in Node, i \in Indices \ {0} : finger'[x][i] = finger[x][i],
           \A x \in Node : \A v \in answer'[x] :
              v \in answer[x] \/ (ForRefresh(x) /\ Clear(AsksFor(x)) => Adjacent(AsksFor(x), v))
    PROVE  Threaded'
<1>1. \A x \in Node : \/ task'[x] = task[x]
                      \/ /\ task[x].op \notin HoldOps
                         /\ task'[x].op \in {"idle", "read_client"} /\ task'[x].asks = None
  OBVIOUS
<1>2. \A x \in Node :
         /\ Orderly(inbox'[x])
         /\ LinksTo(x, "FIND_SUCC")' \subseteq LinksTo(x, "FIND_SUCC")
         /\ LinksTo(x, "FIND_FINGER")' = LinksTo(x, "FIND_FINGER")
         /\ LinksTo(x, "SET_SUCC")' \subseteq LinksTo(x, "SET_SUCC")
  BY LinksAfter DEF Kept
<1>3. \A x \in Node : /\ task[x].op \in HoldOps => task'[x] = task[x]
                      /\ task'[x].op \in HoldOps => task'[x] = task[x]
                      /\ task'[x].op \in Serving => task'[x] = task[x]
  BY <1>1 DEF HoldOps, Serving
<1>4. Holders' = Holders /\ Awaiting' = Awaiting
  BY <1>2, <1>3 DEF Holders, Awaiting
<1>5. OneThread'
  BY <1>4 DEF OneThread, Threaded, ThreadInv
<1>6. OrderInv'
  BY <1>1, <1>2 DEF OrderInv, Threaded, ThreadInv
<1>7. \A id, r : OnBehalf(id, r) => OnBehalf(id, r)' /\ task'[r] = task[r]
  BY <1>3 DEF OnBehalf, HoldOps, Start
<1>8. BehalfInv'
  BY <1>2, <1>3, <1>7 DEF BehalfInv, Threaded, ThreadInv
<1>9. Ranked'
  BY <1>3 DEF Ranked, Threaded, ThreadInv
<1>10. AskedUp'
  BY <1>1, NodesOnCircle DEF AskedUp, Threaded, ThreadInv
<1>11. /\ \A p : Beyond(p)' <=> Beyond(p)
       /\ \A p : Clear(p)' <=> Clear(p)
       /\ \A p : Reachable(p)' => Reachable(p)
       /\ \A p, v : Adjacent(p, v)' <=> Adjacent(p, v)
  BY DEF Beyond, Clear, Reachable, Adjacent
<1>12. \A x \in Node : task'[x] = task[x] => AsksFor(x)' = AsksFor(x)
  BY DEF AsksFor, Start
<1>13. NearerInv'
  <2> SUFFICES ASSUME NEW x \in Node
               PROVE  NearerAt(x)'
    BY DEF NearerInv
  <2>1. NearerInv /\ BehalfInv
    BY DEF Threaded, ThreadInv, Found
  <2>2. ASSUME task'[x].asks # None, task'[x].op \in Asks4Succ, Reachable(AsksFor(x))'
        PROVE  Between(x, task'[x].asks, AsksFor(x)')
    <3>1. task'[x] = task[x]
      BY <1>1, <2>2
    <3>2. AsksFor(x)' = AsksFor(x)
      BY <1>12, <3>1
    <3>3. Reachable(AsksFor(x))
      BY <1>11, <2>2, <3>2 DEF Reachable
    <3> QED BY <2>1, <2>2, <3>1, <3>2, <3>3 DEF NearerInv, NearerAt
  <2>3. ASSUME task'[x].op = "find_succ", task'[task'[x].source].op = "fingers",
               Reachable(task[x].id)'
        PROVE  Between(task'[x].source, x, task'[x].id)
    <3>1. task'[x] = task[x]
      BY <1>3, <2>3 DEF Serving
    <3>2. OnBehalf(task[x].id, task[x].source)
      BY <2>1, <2>3, <3>1 DEF BehalfInv, Serving
    <3>3. task'[task[x].source] = task[task[x].source]
      BY <1>7, <3>2
    <3>4. Reachable(task[x].id)
      BY <1>11, <2>3, <3>1 DEF Reachable
    <3> QED BY <2>1, <2>3, <3>1, <3>3, <3>4 DEF NearerInv, NearerAt
  <2>4. ASSUME NEW m \in LinksTo(x, "FIND_SUCC")', task'[m.source].op = "fingers", Reachable(m.id)'
        PROVE  Between(m.source, x, m.id)
    <3>1. m \in LinksTo(x, "FIND_SUCC")
      BY <1>2
    <3>2. OnBehalf(m.id, m.source)
      BY <2>1, <3>1 DEF BehalfInv
    <3>3. task'[m.source] = task[m.source]
      BY <1>7, <3>2
    <3>4. Reachable(m.id)
      BY <1>11, <2>4
    <3> QED BY <2>1, <2>4, <3>1, <3>3, <3>4 DEF NearerInv, NearerAt
  <2> QED BY <2>2, <2>3, <2>4 DEF NearerAt, Between
<1>14. FoundInv'
  <2> SUFFICES ASSUME NEW x \in Node, ForRefresh(x)', Clear(AsksFor(x))', NEW v \in answer'[x]
               PROVE  Adjacent(AsksFor(x), v)'
    BY DEF FoundInv
  <2>1. task'[x] = task[x]
    BY <1>1 DEF ForRefresh
  <2>2. AsksFor(x)' = AsksFor(x)
    BY <1>12, <2>1
  <2>3. ForRefresh(x)
    <3>1. CASE task[x].op = "find_succ" /\ task'[task[x].source].op = "fingers"
      <4>1. OnBehalf(task[x].id, task[x].source)
        BY <3>1 DEF Threaded, ThreadInv, BehalfInv, Serving
      <4> QED BY <1>7, <3>1, <4>1 DEF ForRefresh
    <3> QED BY <2>1, <3>1 DEF ForRefresh
  <2>4. Clear(AsksFor(x))
    BY <1>11, <2>2 DEF Clear
  <2>5. Adjacent(AsksFor(x), v)
    BY <2>3, <2>4 DEF FoundInv, Threaded, Found
  <2> QED BY <2>2, <2>5 DEF Adjacent
<1>15. RenewedInv'
  <2>1. RenewedInv
    BY DEF Threaded, Found
  <2>2. ASSUME NEW x \in Circle', NEW i \in Indices \ {0} PROVE FingerRight(x, i)' \/ Due(x, i)'
    <3>1. x \in Circle /\ x \in Node
      BY CircleNodes
    <3>2. FingerRight(x, i) => FingerRight(x, i)'
      BY <3>1 DEF FingerRight, Clear, Beyond, Adjacent, Start
    <3>3. Due(x, i) => Due(x, i)'
      <4>1. \A h \in Node : task[h].op \in {"link_succ", "fingers"} => task'[h] = task[h]
        BY <1>3 DEF HoldOps
      <4> QED BY <1>2, <4>1 DEF Due, Ahead, Between
    <3> QED BY <2>1, <3>1, <3>2, <3>3 DEF RenewedInv
  <2>3. ASSUME NEW x \in Node
        PROVE  /\ task'[x].op = "fingers" => task'[x].source \in Circle'
               /\ \A m \in LinksTo(x, "FIND_FINGER")' : m.source \in Circle'
    BY <1>2, <1>3, <2>1 DEF RenewedInv, HoldOps
  <2> QED BY <2>2, <2>3 DEF RenewedInv
<1> QED BY <1>5, <1>6, <1>8, <1>9, <1>10, <1>13, <1>14, <1>15 DEF Threaded, ThreadInv, Found

-----------------------------------------------------------------------------
(* A node that serves another asks a third.                                 *)

Posted(box, d, r) == inbox' = [box EXCEPT ![d] = Append(@, r)]

LEMMA QuestionSent ==
    ASSUME NEW box, Kept(box), NEW d \in Node, NEW r \in Requests, r.type \in Questions,
           Posted(box, d, r), NEW x \in Node
    PROVE  /\ Orderly(inbox'[x])
           /\ \A m \in LinksTo(x, "FIND_SUCC")' :
                 m \in LinksTo(x, "FIND_SUCC") \/ (x = d /\ m = r /\ r.type = "FIND_SUCC")
           /\ LinksTo(x, "FIND_FINGER")' = LinksTo(x, "FIND_FINGER")
           /\ LinksTo(x, "SET_SUCC")' \subseteq LinksTo(x, "SET_SUCC")
<1>1. box \in Inboxes /\ \A y \in Node : box[y] \in Seq(Requests)
  BY DEF Kept, Inboxes
<1>2. inbox'[d] = Append(box[d], r) /\ \A y \in Node \ {d} : inbox'[y] = box[y]
  BY <1>1 DEF Inboxes, Posted
<1>3. r.type \notin {"FIND_FINGER", "SET_SUCC"}
  BY DEF Questions
<1>4. Orderly(inbox'[d]) /\ Elems(inbox'[d]) = Elems(box[d]) \cup {r}
  BY <1>1, <1>2, <1>3, OrderlyAppend, ElemsAppend DEF Kept
<1>5. /\ LinksTo(x, "FIND_SUCC")' = LinksIn(inbox'[x], "FIND_SUCC")
      /\ LinksTo(x, "FIND_FINGER")' = LinksIn(inbox'[x], "FIND_FINGER")
      /\ LinksTo(x, "SET_SUCC")' = LinksIn(inbox'[x], "SET_SUCC")
  BY LinksAfter
<1>6. /\ Orderly(box[x])
      /\ LinksIn(box[x], "FIND_SUCC") \subseteq LinksTo(x, "FIND_SUCC")
      /\ LinksIn(box[x], "FIND_FINGER") = LinksTo(x, "FIND_FINGER")
      /\ LinksIn(box[x], "SET_SUCC") \subseteq LinksTo(x, "SET_SUCC")
  BY DEF Kept
<1>7. CASE x # d
  <2>1. inbox'[x] = box[x]
    BY <1>2, <1>7
  <2> QED BY <1>5, <1>6, <2>1
<1>8. CASE x = d
  <2>1. /\ LinksIn(inbox'[x], "FIND_FINGER") = LinksIn(box[x], "FIND_FINGER")
        /\ LinksIn(inbox'[x], "SET_SUCC") = LinksIn(box[x], "SET_SUCC")
        /\ \A m \in LinksIn(inbox'[x], "FIND_SUCC") :
              m \in LinksIn(box[x], "FIND_SUCC") \/ (m = r /\ r.type = "FIND_SUCC")
    BY <1>3, <1>4, <1>8 DEF LinksIn
  <2>2. Orderly(inbox'[x])
    BY <1>4, <1>8
  <2> QED BY <1>5, <1>6, <1>8, <2>1, <2>2
<1> QED BY <1>7, <1>8

LEMMA ThreadAsks ==
    ASSUME TypeOK, TokenInv, Threaded, UNCHANGED ring,
           NEW n \in Node, n \notin Holders, Free(n), LinksTo(n, "SET_SUCC") = {},
           NEW d \in Members, d # n, NEW box, Kept(box), NEW r \in Requests,
           Posted(box, d, r), r.type \in Questions,
           task'[n].op \in Serving, task'[n].from \in Node \ {n}, task'[n].asks = d,
           OnBehalf(task'[n].id, task'[n].source),
           r.type = "FIND_SUCC" => r.id = task'[n].id /\ r.source = task'[n].source,
           \A x \in Node \ {n} : task'[x] = task[x] /\ answer'[x] = answer[x],
           answer'[n] = {},
           task'[n].op # "tell_pred" /\ Reachable(task'[n].id) => Between(n, d, task'[n].id),
           task[task'[n].source].op = "fingers" /\ Reachable(task'[n].id) =>
              task'[n].op = "find_succ" /\ Between(task'[n].source, n, task'[n].id)
    PROVE  Threaded'
<1>1. /\ Circle' = Circle /\ Members' = Members
      /\ \A x \in Node : x # n => task'[x] = task[x]
      /\ task'[n].op \notin HoldOps
  <2>1. task'[n].op \notin HoldOps /\ task[n].op \notin HoldOps
    BY DEF Holders, HoldOps, Serving
  <2>2. \A x \in Node : Asking(x)' <=> Asking(x)
    BY <2>1 DEF Asking, HoldOps
  <2>3. Circle' = Circle
    BY <2>2, CircleSame DEF ring
  <2> QED BY <2>1, <2>3 DEF Members, ring
<1>2. \A x \in Node :
         /\ Orderly(inbox'[x])
         /\ \A m \in LinksTo(x, "FIND_SUCC")' :
               m \in LinksTo(x, "FIND_SUCC") \/ (x = d /\ m = r /\ r.type = "FIND_SUCC")
         /\ LinksTo(x, "FIND_FINGER")' = LinksTo(x, "FIND_FINGER")
         /\ LinksTo(x, "SET_SUCC")' \subseteq LinksTo(x, "SET_SUCC")
  <2>1. d \in Node
    BY DEF Members
  <2> SUFFICES ASSUME NEW x \in Node
               PROVE  /\ Orderly(inbox'[x])
                      /\ \A m \in LinksTo(x, "FIND_SUCC")' :
                            \/ m \in LinksTo(x, "FIND_SUCC")
                            \/ x = d /\ m = r /\ r.type = "FIND_SUCC"
                      /\ LinksTo(x, "FIND_FINGER")' = LinksTo(x, "FIND_FINGER")
                      /\ LinksTo(x, "SET_SUCC")' \subseteq LinksTo(x, "SET_SUCC")
    OBVIOUS
  <2> QED BY <2>1, QuestionSent
<1>3. Holders' = Holders /\ Awaiting' = Awaiting
  BY <1>1, <1>2 DEF Holders, Awaiting
<1>4. OneThread' /\ OrderInv'
  <2>1. OneThread'
    BY <1>3 DEF OneThread, Threaded, ThreadInv
  <2>2. OrderInv'
    BY <1>1, <1>2 DEF OrderInv, Threaded, ThreadInv
  <2> QED BY <2>1, <2>2
<1>5. \A id, s : OnBehalf(id, s) => OnBehalf(id, s)' /\ task'[s] = task[s] /\ s # n
  <2>1. task[n].op \notin HoldOps
    BY DEF Holders
  <2> QED BY <1>1, <2>1 DEF OnBehalf, HoldOps, Start
<1>6. BehalfInv'
  <2> SUFFICES ASSUME NEW x \in Node
               PROVE  /\ task'[x].op \in Serving => OnBehalf(task[x].id, task[x].source)'
                      /\ \A m \in LinksTo(x, "FIND_SUCC")' : OnBehalf(m.id, m.source)'
    BY DEF BehalfInv
  <2>1. BehalfInv
    BY DEF Threaded, ThreadInv
  <2>2. task'[x].op \in Serving => OnBehalf(task'[x].id, task'[x].source)
    BY <1>1, <2>1 DEF BehalfInv
  <2>3. ASSUME NEW m \in LinksTo(x, "FIND_SUCC")' PROVE OnBehalf(m.id, m.source)
    <3>1. CASE m \in LinksTo(x, "FIND_SUCC")
      BY <2>1, <3>1 DEF BehalfInv
    <3>2. CASE m = r /\ r.type = "FIND_SUCC"
      BY <3>2
    <3> QED BY <1>2, <3>1, <3>2
  <2>4. ASSUME task'[x].op \in Serving PROVE OnBehalf(task[x].id, task[x].source)'
    <3>1. PICK id, s : id = task'[x].id /\ s = task'[x].source
      OBVIOUS
    <3>2. OnBehalf(id, s)'
      BY <1>5, <2>2, <2>4, <3>1
    <3> QED BY <3>1, <3>2 DEF OnBehalf
  <2> QED BY <1>5, <2>3, <2>4
<1>7. Ranked'
  <2>1. PICK rank \in [Node -> Nat] :
           \A x \in Node : task[x].op \in Serving => rank[task[x].from] < rank[x]
    BY DEF Threaded, ThreadInv, Ranked
  <2> DEFINE k == rank[task'[n].from] + 1
             new == [rank EXCEPT ![n] = k]
  <2>2. k \in Nat /\ new \in [Node -> Nat]
    BY <2>1
  <2>3. /\ new[n] = rank[task'[n].from] + 1 /\ \A x \in Node \ {n} : new[x] = rank[x]
        /\ rank[task'[n].from] \in Nat
    BY <2>1
  <2> HIDE DEF new
  <2>4. ASSUME NEW x \in Node, task'[x].op \in Serving PROVE new[task'[x].from] < new[x]
    <3>1. CASE x = n
      BY <2>3, <3>1
    <3>2. CASE x # n
      <4>1. task'[x] = task[x] /\ task[x].op \in Serving /\ task[x].from \in Node
        BY <1>1, <2>4, <3>2 DEF TokenInv, ServingInv
      <4>2. task[x].from # n
        BY <4>1, NothingOwed
      <4> QED BY <2>1, <2>3, <3>2, <4>1, <4>2
    <3> QED BY <3>1, <3>2
  <2> QED BY <2>2, <2>4 DEF Ranked
<1>8. AskedUp'
  BY <1>1 DEF AskedUp, Threaded, ThreadInv
<1>9. /\ \A p : Clear(p)' <=> Clear(p)
      /\ \A p : Reachable(p)' <=> Reachable(p)
      /\ \A p, v : Adjacent(p, v)' <=> Adjacent(p, v)
  BY <1>1 DEF Beyond, Clear, Reachable, Adjacent
<1>10. \A x \in Node : x # n => AsksFor(x)' = AsksFor(x)
  BY <1>1 DEF AsksFor, Start
<1>11. NearerInv'
  <2>1. NearerInv /\ BehalfInv
    BY DEF Threaded, ThreadInv, Found
  <2>2. OnBehalf(task'[n].id, task'[n].source) /\ AsksFor(n)' = task'[n].id
    BY <1>1 DEF AsksFor, HoldOps
  <2>3. task'[task'[n].source] = task[task'[n].source] /\ task'[n].source \in Node
    <3>1. task'[n].source \in Node
      BY <2>2 DEF OnBehalf
    <3> QED BY <1>5, <2>2, <3>1
  <2> SUFFICES ASSUME NEW x \in Node PROVE NearerAt(x)'
    BY DEF NearerInv
  <2>4. ASSUME task'[x].asks # None, task'[x].op \in Asks4Succ, Reachable(AsksFor(x))'
        PROVE  Between(x, task'[x].asks, AsksFor(x)')
    <3>1. CASE x = n
      <4>1. Reachable(task'[n].id) /\ task'[n].op # "tell_pred"
        BY <1>9, <2>2, <2>4, <3>1 DEF Asks4Succ, Reachable
      <4> QED BY <2>2, <3>1, <4>1
    <3>2. CASE x # n
      <4>1. task'[x] = task[x] /\ AsksFor(x)' = AsksFor(x)
        BY <1>1, <1>10, <3>2
      <4>2. Reachable(AsksFor(x))
        BY <1>9, <2>4, <4>1 DEF Reachable
      <4> QED BY <2>1, <2>4, <4>1, <4>2 DEF NearerInv, NearerAt
    <3> QED BY <3>1, <3>2
  <2>5. ASSUME task'[x].op = "find_succ", task'[task'[x].source].op = "fingers",
               Reachable(task[x].id)'
        PROVE  Between(task'[x].source, x, task'[x].id)
    <3>1. CASE x = n
      <4>1. Reachable(task'[n].id)
        BY <1>9, <2>5, <3>1 DEF Reachable
      <4> QED BY <2>3, <2>5, <3>1, <4>1
    <3>2. CASE x # n
      <4>1. task'[x] = task[x]
        BY <1>1, <3>2
      <4>2. OnBehalf(task[x].id, task[x].source)
        BY <2>1, <2>5, <4>1 DEF BehalfInv, Serving
      <4>3. task'[task[x].source] = task[task[x].source]
        BY <1>5, <4>2
      <4>4. Reachable(task[x].id)
        BY <1>9, <2>5, <4>1 DEF Reachable
      <4> QED BY <2>1, <2>5, <4>1, <4>3, <4>4 DEF NearerInv, NearerAt
    <3> QED BY <3>1, <3>2
  <2>6. ASSUME NEW m \in LinksTo(x, "FIND_SUCC")', task'[m.source].op = "fingers", Reachable(m.id)'
        PROVE  Between(m.source, x, m.id)
    <3>1. Reachable(m.id)
      BY <1>9, <2>6
    <3>2. CASE m \in LinksTo(x, "FIND_SUCC")
      <4>1. OnBehalf(m.id, m.source)
        BY <2>1, <3>2 DEF BehalfInv
      <4>2. task'[m.source] = task[m.source]
        BY <1>5, <4>1
      <4> QED BY <2>1, <2>6, <3>1, <3>2, <4>2 DEF NearerInv, NearerAt
    <3>3. CASE x = d /\ m = r /\ r.type = "FIND_SUCC"
      <4>1. m.id = task'[n].id /\ m.source = task'[n].source
        BY <3>3
      <4>2. task'[n].op = "find_succ" /\ Between(m.source, n, m.id) /\ Between(n, d, m.id)
        BY <2>3, <2>6, <3>1, <4>1
      <4>3. m.source \in Nat /\ m.id \in Nat /\ d \in Nat /\ n \in Nat
        <5>1. m.id \in Points /\ m.source \in Node
          BY <3>3, RequestFields
        <5> QED BY <5>1, CircleNodes, NodesOnCircle DEF Members
      <4> QED BY <3>3, <4>2, <4>3, BetweenOnwards
    <3> QED BY <1>2, <3>2, <3>3
  <2> QED BY <2>4, <2>5, <2>6 DEF NearerAt, Between
<1>12. FoundInv'
  <2> SUFFICES ASSUME NEW x \in Node, ForRefresh(x)', Clear(AsksFor(x))', NEW v \in answer'[x]
               PROVE  Adjacent(AsksFor(x), v)'
    BY DEF FoundInv
  <2>1. x # n
    OBVIOUS
  <2>2. task'[x] = task[x] /\ AsksFor(x)' = AsksFor(x) /\ v \in answer[x]
    BY <1>1, <1>10, <2>1
  <2>3. ForRefresh(x)
    <3>1. CASE task[x].op = "find_succ" /\ task'[task[x].source].op = "fingers"
      <4>1. OnBehalf(task[x].id, task[x].source)
        BY <3>1 DEF Threaded, ThreadInv, BehalfInv, Serving
      <4> QED BY <1>5, <3>1, <4>1 DEF ForRefresh
    <3> QED BY <2>2, <3>1 DEF ForRefresh
  <2>4. Clear(AsksFor(x))
    BY <1>9, <2>2 DEF Clear
  <2>5. Adjacent(AsksFor(x), v)
    BY <2>2, <2>3, <2>4 DEF FoundInv, Threaded, Found
  <2> QED BY <1>9, <2>2, <2>5 DEF Adjacent
<1>13. RenewedInv'
  <2>1. RenewedInv /\ finger' = finger
    BY DEF Threaded, Found, ring
  <2>2. ASSUME NEW x \in Circle', NEW i \in Indices \ {0} PROVE FingerRight(x, i)' \/ Due(x, i)'
    <3>1. x \in Circle /\ x \in Node
      BY <1>1, CircleNodes
    <3>2. FingerRight(x, i) => FingerRight(x, i)'
      BY <1>1, <2>1 DEF FingerRight, Clear, Beyond, Adjacent, Start
    <3>3. Due(x, i) => Due(x, i)'
      <4>1. \A h \in Node : task[h].op \in {"link_succ", "fingers"} => task'[h] = task[h]
        BY <1>1 DEF HoldOps, Holders
      <4> QED BY <1>2, <4>1 DEF Due, Ahead, Between
    <3> QED BY <2>1, <3>1, <3>2, <3>3 DEF RenewedInv
  <2>3. ASSUME NEW x \in Node
        PROVE  /\ task'[x].op = "fingers" => task'[x].source \in Circle'
               /\ \A m \in LinksTo(x, "FIND_FINGER")' : m.source \in Circle'
    BY <1>1, <1>2, <2>1 DEF RenewedInv, HoldOps
  <2> QED BY <2>2, <2>3 DEF RenewedInv
<1> QED BY <1>4, <1>6, <1>7, <1>8, <1>11, <1>12, <1>13 DEF Threaded, ThreadInv, Found

-----------------------------------------------------------------------------
(* The lookups that nodes do for each other.                                *)

LEMMA RoutineStep ==
    ASSUME TypeOK, Threaded, UNCHANGED ring, NEW n \in Node,
           \A x \in Node \ {n} : task'[x] = task[x],
           \/ task'[n] = task[n]
           \/ /\ task[n].op \notin HoldOps
              /\ task'[n].op \in {"idle", "read_client"} /\ task'[n].asks = None,
           Kept(inbox'),
           \A x \in Node : \A v \in answer'[x] :
              v \in answer[x] \/ (ForRefresh(x) /\ Clear(AsksFor(x)) => Adjacent(AsksFor(x), v))
    PROVE  Threaded'
<1>1. \A x \in Node : Asking(x)' <=> Asking(x)
  BY DEF Asking, HoldOps
<1>2. Circle' = Circle /\ Members' = Members /\ finger' = finger
  BY <1>1, CircleSame DEF ring, Members
<1> QED BY <1>2, ThreadStays

(* What a node is answered is the successor of the point it asked for.      *)
LEMMA RefreshLookup ==
    ASSUME NEW f \in Node, NEW id, NEW source, LooksUpFor(f, id, source),
           OnBehalf(id, source), ForRefresh(f)
    PROVE  task[source].op = "fingers" /\ AsksFor(f) = id
BY DEF LooksUpFor, OnBehalf, ForRefresh, AsksFor

LEMMA AnswersStay ==
    ASSUME TypeOK, NEW n \in Node, NEW f \in Node, NEW v,
           ForRefresh(f) /\ Clear(AsksFor(f)) => Adjacent(AsksFor(f), v),
           answer' \in {Answered(n, f, v), [Answered(n, f, v) EXCEPT ![n] = {}]},
           NEW x \in Node, NEW w \in answer'[x]
    PROVE  w \in answer[x] \/ (ForRefresh(x) /\ Clear(AsksFor(x)) => Adjacent(AsksFor(x), w))
<1>1. answer \in [Node -> SUBSET (Node \cup {None})]
  BY DEF TypeOK
<1>2. w \in answer[x] \/ (x = f /\ w = v)
  BY <1>1 DEF Answered
<1> QED BY <1>2

LEMMA QuestionHeld ==
    ASSUME TypeOK, StatusInv, Core, Threaded, NEW n \in Node,
           NEW type \in {"FIND_SUCC", "FIND_PRED", "TELL_SUCC", "TELL_PRED"}, Reads(n, type)
    PROVE  LET m == Head(inbox[n])
           IN  /\ m \in LinksTo(n, type) /\ Kept(Rest(n)) /\ LinksTo(n, "SET_SUCC") = {}
               /\ m \in Requests /\ m.type = type /\ AskedInv(n, m)
               /\ m.id \in Points /\ m.source \in Node /\ m.from \in Node \ {n}
               /\ n \in Members /\ n \in Circle /\ n \notin Holders
               /\ task[n].op = "idle" /\ Free(n) /\ answer[n] = {}
               /\ Follows(n, Succ(n))
<1> DEFINE m == Head(inbox[n])
<1>1. type \in Questions /\ type \in Handed /\ type # "FIND_FINGER"
  BY DEF Handed, Questions
<1>2. /\ m \in Requests /\ m.type = type /\ m.id \in Points /\ m.source \in Node
      /\ m.from \in Node \ {n} /\ AskedInv(n, m)
      /\ n \in Circle /\ answer[n] = {} /\ Free(n) /\ task[n].op = "idle"
  BY <1>1, QuestionRead
<1>3. m \in LinksTo(n, type) /\ Kept(Rest(n)) /\ LinksTo(n, "SET_SUCC") = {}
  BY <1>1, ReadKept DEF Threaded, ThreadInv
<1>4. n \in Members
  BY DEF Reads, Listens, Members
<1>5. Follows(n, Succ(n))
  BY <1>2, <1>3, KnowsSucc DEF Core, Threaded, ThreadInv
<1>6. n \notin Holders
  BY <1>2 DEF Holders, HoldOps
<1> QED BY <1>2, <1>3, <1>4, <1>5, <1>6

(* The node that is asked next is nearer to the point.                      *)
LEMMA AskedIsNearer ==
    ASSUME TypeOK, StatusInv, RingInv, NEW n \in Circle, NEW id \in Points, NEW source,
           Follows(n, Succ(n)), id # n, ~Local(n, id, source), Hop(n, id) \in Members,
           Reachable(id)
    PROVE  Between(n, Hop(n, id), id)
<1>1. Hop(n, id) # n /\ Hop(n, id) # id /\ ~Direct(n, id)
  BY DEF Local, Reachable
<1> QED BY <1>1, HopIsNearer DEF Reachable, Follows

LEMMA FindSuccThread ==
    ASSUME TypeOK, StatusInv, Core, Threaded, NEW n \in Node, FindSucc(n)
    PROVE  Threaded'
<1> DEFINE m == Head(inbox[n])
           hop == Hop(n, m.id)
           t == Task("find_succ", m.id, m.source, m.from)
<1>1. Reads(n, "FIND_SUCC") /\ UNCHANGED ring
  BY DEF FindSucc
<1>2. /\ m \in LinksTo(n, "FIND_SUCC") /\ Kept(Rest(n)) /\ LinksTo(n, "SET_SUCC") = {}
      /\ m \in Requests /\ m.type = "FIND_SUCC" /\ AskedInv(n, m)
      /\ m.id \in Points /\ m.source \in Node /\ m.from \in Node \ {n}
      /\ n \in Members /\ n \in Circle /\ n \notin Holders
      /\ task[n].op = "idle" /\ Free(n) /\ answer[n] = {}
      /\ Follows(n, Succ(n))
  BY <1>1, QuestionHeld
<1>3. LooksUpFor(m.from, m.id, m.source) /\ OnBehalf(m.id, m.source)
  BY <1>2 DEF AskedInv, Threaded, ThreadInv, BehalfInv
<1>4. task[m.source].op = "fingers" /\ Reachable(m.id) => Between(m.source, n, m.id)
  BY <1>2 DEF Threaded, Found, NearerInv, NearerAt
<1>5. CASE Local(n, m.id, m.source) /\ answer' = Answered(n, m.from, LocalSucc(n, m.id))
           /\ inbox' = Rest(n) /\ task' = task
  <2> DEFINE v == LocalSucc(n, m.id)
  <2> HIDE DEF m
  <2>1. ASSUME ForRefresh(m.from), Clear(AsksFor(m.from)) PROVE Adjacent(AsksFor(m.from), v)
    <3>1. task[m.source].op = "fingers" /\ AsksFor(m.from) = m.id
      BY <1>2, <1>3, <2>1, RefreshLookup
    <3>2. Clear(m.id) /\ Reachable(m.id)
      BY <2>1, <3>1, MembersOnCircle DEF Clear, Reachable
    <3>3. Adjacent(m.id, v)
      BY <1>2, <1>4, <1>5, <3>1, <3>2, LocalClear DEF Core
    <3> QED BY <3>1, <3>3
  <2> HIDE DEF v
  <2>2. \A x \in Node : \A w \in answer'[x] :
           w \in answer[x] \/ (ForRefresh(x) /\ Clear(AsksFor(x)) => Adjacent(AsksFor(x), w))
    BY <1>2, <1>5, <2>1, AnswersStay DEF v
  <2> QED BY <1>1, <1>2, <1>5, <2>2, RoutineStep
<1>6. CASE /\ ~Local(n, m.id, m.source) /\ Listens(hop)
           /\ Asks(n, Rest(n), hop, "FIND_SUCC", t) /\ UNCHANGED answer
  <2> DEFINE r == Request("FIND_SUCC", t.id, t.source, n)
  <2> HIDE DEF m
  <2>1. /\ t \in Tasks /\ t.op = "find_succ" /\ t.id = m.id /\ t.source = m.source
        /\ t.from = m.from
    BY <1>2, NewLookup
  <2>2. hop \in Members /\ hop # n /\ hop \in Node
    BY <1>6, HopNode DEF Members, Listens, Local
  <2>3. Reachable(m.id) => Between(n, hop, m.id)
    <3>1. Reachable(m.id) => m.id # n
      BY <1>2 DEF Reachable
    <3> QED BY <1>2, <1>6, <2>2, <3>1, AskedIsNearer DEF Core
  <2>4. Asks(n, Rest(n), hop, "FIND_SUCC", t)
    BY <1>6
  <2> HIDE DEF t, hop
  <2>5. /\ task'[n].op = "find_succ" /\ task'[n].id = m.id /\ task'[n].source = m.source
        /\ task'[n].from = m.from /\ task'[n].asks = hop
        /\ \A x \in Node \ {n} : task'[x] = task[x]
    BY <2>1, <2>2, <2>4, AsksTask
  <2>6. /\ r \in Requests /\ r.type = "FIND_SUCC" /\ r.id = m.id /\ r.source = m.source
        /\ r.type \in Questions
    BY <1>2, <2>1, RequestType DEF Request, Questions
  <2>7. Posted(Rest(n), hop, r)
    BY <2>4 DEF Asks, Posted
  <2> HIDE DEF r
  <2>8. task'[n].op \in Serving /\ task'[n].op # "tell_pred"
    BY <2>5 DEF Serving
  <2>9. /\ answer'[n] = {} /\ \A x \in Node \ {n} : answer'[x] = answer[x]
    BY <1>2, <1>6
  <2> QED BY <1>1, <1>2, <1>3, <1>4, <2>2, <2>3, <2>5, <2>6, <2>7, <2>8, <2>9, ThreadAsks DEF Core
<1>7. CASE inbox' = Rest(n) /\ task' = task /\ answer' = answer
  BY <1>1, <1>2, <1>7, RoutineStep
<1> QED BY <1>5, <1>6, <1>7 DEF FindSucc

LEMMA NoForRefresh ==
    ASSUME NEW f \in Node, task[f].op \in {"ask_pred", "ask_succ", "tell_pred", "find_pred"}
    PROVE  ~ForRefresh(f)
BY DEF ForRefresh

LEMMA PredOfThread ==
    ASSUME TypeOK, Core, Threaded, NEW n \in Members, n \in Node, NEW s \in Node, NEW t \in Tasks, NEW box,
           Kept(box), PredOf(n, s, t, box), Free(n), n \notin Holders,
           LinksTo(n, "SET_SUCC") = {},
           t.op = "find_pred", t.from \in Node \ {n}, t.from \in Points,
           t.id = t.from, t.source = t.from, task[t.from].op = "ask_pred"
    PROVE  Threaded'
<1>1. UNCHANGED ring /\ task[n].op \notin HoldOps
  BY DEF PredOf, Holders
<1>2. CASE /\ task' = [task EXCEPT ![n] = Idle] /\ inbox' = box
           /\ \/ answer' = [Answered(n, t.from, pred[n]) EXCEPT ![n] = {}]
              \/ answer' = [answer EXCEPT ![n] = {}]
  <2>1. /\ task'[n].op \in {"idle", "read_client"} /\ task'[n].asks = None
        /\ \A x \in Node \ {n} : task'[x] = task[x]
    BY <1>2, IdleTask
  <2>2. \A x \in Node : \A w \in answer'[x] :
           w \in answer[x] \/ (ForRefresh(x) /\ Clear(AsksFor(x)) => Adjacent(AsksFor(x), w))
    <3>1. ~ForRefresh(t.from)
      BY NoForRefresh
    <3>2. CASE answer' = [answer EXCEPT ![n] = {}]
      BY <3>2 DEF TypeOK
    <3>3. CASE answer' = [Answered(n, t.from, pred[n]) EXCEPT ![n] = {}]
      BY <3>1, <3>3, AnswersStay
    <3> QED BY <1>2, <3>2, <3>3
  <2> QED BY <1>1, <1>2, <2>1, <2>2, RoutineStep
<1>3. CASE /\ s # n /\ Listens(s) /\ answer' = [answer EXCEPT ![n] = {}]
           /\ Asks(n, box, s, "TELL_PRED", [t EXCEPT !.op = "tell_pred"])
  <2> DEFINE u == WithOp(t, "tell_pred")
             r == Request("TELL_PRED", u.id, u.source, n)
  <2>1. /\ u \in Tasks /\ u.op = "tell_pred" /\ u.id = t.id /\ u.source = t.source
        /\ u.from = t.from
    BY NextLookup DEF Operations
  <2>2. Asks(n, box, s, "TELL_PRED", u)
    BY <1>3 DEF WithOp
  <2> HIDE DEF u
  <2>3. /\ task'[n].op = "tell_pred" /\ task'[n].id = t.id /\ task'[n].source = t.source
        /\ task'[n].from = t.from /\ task'[n].asks = s
        /\ \A x \in Node \ {n} : task'[x] = task[x]
    BY <2>1, <2>2, AsksTask
  <2>4. r \in Requests /\ r.type = "TELL_PRED" /\ r.type \in Questions
    BY <2>1, RequestType DEF Request, Questions
  <2>5. Posted(box, s, r)
    BY <2>2 DEF Asks, Posted
  <2> HIDE DEF r
  <2>6. s \in Members /\ task'[n].op \in Serving
    BY <1>3, <2>3 DEF Members, Listens, Serving
  <2>7. /\ answer'[n] = {} /\ \A x \in Node \ {n} : answer'[x] = answer[x]
    BY <1>3 DEF TypeOK
  <2>8. OnBehalf(t.id, t.source)
    BY DEF OnBehalf
  <2> QED BY <1>1, <1>3, <2>3, <2>4, <2>5, <2>6, <2>7, <2>8, ThreadAsks DEF Core
<1> QED BY <1>2, <1>3 DEF PredOf

LEMMA FindPredThread ==
    ASSUME TypeOK, StatusInv, Core, Threaded, NEW n \in Node, FindPred(n), ~Dies(n)
    PROVE  Threaded'
<1> DEFINE m == Head(inbox[n])
           hop == Hop(n, m.id)
           t == Task("find_pred", m.id, m.source, m.from)
<1>1. Reads(n, "FIND_PRED")
  BY DEF FindPred
<1>2. /\ m \in LinksTo(n, "FIND_PRED") /\ Kept(Rest(n)) /\ LinksTo(n, "SET_SUCC") = {}
      /\ m \in Requests /\ m.type = "FIND_PRED" /\ AskedInv(n, m)
      /\ m.id \in Points /\ m.source \in Node /\ m.from \in Node \ {n}
      /\ n \in Members /\ n \in Circle /\ n \notin Holders
      /\ task[n].op = "idle" /\ Free(n) /\ answer[n] = {}
      /\ Follows(n, Succ(n))
  BY <1>1, QuestionHeld
<1>3. task[m.from].op = "ask_pred" /\ m.id = m.from /\ m.source = m.from
  BY <1>2 DEF AskedInv
<1>4. /\ t \in Tasks /\ t.op = "find_pred" /\ t.id = m.id /\ t.source = m.source
      /\ t.from = m.from
  <2> HIDE DEF m
  <2> QED BY <1>2, NewLookup
<1>5. CASE PredOf(n, LocalSucc(n, m.id), t, Rest(n))
  <2>1. LocalSucc(n, m.id) \in Node
    BY HopNode
  <2> HIDE DEF m, t
  <2> QED BY <1>2, <1>3, <1>4, <1>5, <2>1, PredOfThread
<1>6. CASE /\ ~Local(n, m.id, m.source) /\ Listens(hop)
           /\ Asks(n, Rest(n), hop, "FIND_SUCC", t) /\ UNCHANGED <<ring, answer>>
  <2> DEFINE r == Request("FIND_SUCC", t.id, t.source, n)
  <2> HIDE DEF m
  <2>1. hop \in Members /\ hop # n /\ hop \in Node
    BY <1>6, HopNode DEF Members, Listens, Local
  <2>2. Reachable(m.id) => Between(n, hop, m.id)
    <3>1. Reachable(m.id) => m.id # n
      BY <1>2 DEF Reachable
    <3> QED BY <1>2, <1>6, <2>1, <3>1, AskedIsNearer DEF Core
  <2>3. Asks(n, Rest(n), hop, "FIND_SUCC", t)
    BY <1>6
  <2> HIDE DEF t, hop
  <2>4. /\ task'[n].op = "find_pred" /\ task'[n].id = m.id /\ task'[n].source = m.source
        /\ task'[n].from = m.from /\ task'[n].asks = hop
        /\ \A x \in Node \ {n} : task'[x] = task[x]
    BY <1>4, <2>1, <2>3, AsksTask
  <2>5. /\ r \in Requests /\ r.type = "FIND_SUCC" /\ r.id = m.id /\ r.source = m.source
        /\ r.type \in Questions
    BY <1>2, <1>4, RequestType DEF Request, Questions
  <2>6. Posted(Rest(n), hop, r)
    BY <2>3 DEF Asks, Posted
  <2> HIDE DEF r
  <2>7. task'[n].op \in Serving /\ task'[n].op # "tell_pred"
    BY <2>4 DEF Serving
  <2>8. OnBehalf(m.id, m.source) /\ task[m.source].op # "fingers"
    BY <1>2, <1>3 DEF OnBehalf
  <2>9. /\ answer'[n] = {} /\ \A x \in Node \ {n} : answer'[x] = answer[x]
    BY <1>2, <1>6
  <2> QED BY <1>2, <1>6, <2>1, <2>2, <2>4, <2>5, <2>6, <2>7, <2>8, <2>9, ThreadAsks DEF Core
<1> QED BY <1>5, <1>6 DEF FindPred

LEMMA SuccFoundThread ==
    ASSUME TypeOK, StatusInv, Core, Threaded, NEW n \in Node, NEW v, SuccFound(n, v)
    PROVE  Threaded'
<1> DEFINE f == task[n].from
<1>1. /\ task[n].op = "find_succ" /\ answer[n] = {v} /\ UNCHANGED <<ring, inbox>>
      /\ answer' = [Answered(n, f, v) EXCEPT ![n] = {}]
      /\ task' = [task EXCEPT ![n] = Idle]
  BY DEF SuccFound, Gets
<1>2. f \in Node /\ LooksUpFor(f, task[n].id, task[n].source)
  BY <1>1, Served DEF Serving
<1>3. OnBehalf(task[n].id, task[n].source)
  BY <1>1 DEF Serving, Threaded, ThreadInv, BehalfInv
<1>4. ASSUME ForRefresh(f), Clear(AsksFor(f)) PROVE Adjacent(AsksFor(f), v)
  <2>1. task[task[n].source].op = "fingers" /\ AsksFor(f) = task[n].id
    BY <1>2, <1>3, <1>4, RefreshLookup
  <2>2. ForRefresh(n) /\ AsksFor(n) = task[n].id
    BY <1>1, <2>1 DEF ForRefresh, AsksFor
  <2> QED BY <1>1, <1>4, <2>1, <2>2 DEF FoundInv, Threaded, Found
<1>5. /\ task'[n].op \in {"idle", "read_client"} /\ task'[n].asks = None
      /\ \A x \in Node \ {n} : task'[x] = task[x]
  BY <1>1, IdleTask
<1>6. \A x \in Node : \A w \in answer'[x] :
         w \in answer[x] \/ (ForRefresh(x) /\ Clear(AsksFor(x)) => Adjacent(AsksFor(x), w))
  <2> HIDE DEF f
  <2> QED BY <1>1, <1>2, <1>4, AnswersStay
<1>7. Kept(inbox')
  BY <1>1, InboxKept DEF Threaded, ThreadInv
<1>8. task[n].op \notin HoldOps
  BY <1>1 DEF HoldOps
<1> QED BY <1>1, <1>5, <1>6, <1>7, <1>8, RoutineStep

LEMMA PredFoundThread ==
    ASSUME TypeOK, StatusInv, Core, Threaded, NEW n \in Node, NEW v, PredFound(n, v)
    PROVE  Threaded'
<1> DEFINE f == task[n].from
<1>1. /\ task[n].op = "tell_pred" /\ UNCHANGED <<ring, inbox>>
      /\ answer' = [Answered(n, f, v) EXCEPT ![n] = {}]
      /\ task' = [task EXCEPT ![n] = Idle]
  BY DEF PredFound, Gets
<1>2. f \in Node /\ task[f].op = "ask_pred"
  BY <1>1, Served DEF Serving
<1>3. /\ task'[n].op \in {"idle", "read_client"} /\ task'[n].asks = None
      /\ \A x \in Node \ {n} : task'[x] = task[x]
  BY <1>1, IdleTask
<1>4. \A x \in Node : \A w \in answer'[x] :
         w \in answer[x] \/ (ForRefresh(x) /\ Clear(AsksFor(x)) => Adjacent(AsksFor(x), w))
  <2> HIDE DEF f
  <2> QED BY <1>1, <1>2, NoForRefresh, AnswersStay
<1>5. Kept(inbox')
  BY <1>1, InboxKept DEF Threaded, ThreadInv
<1>6. task[n].op \notin HoldOps
  BY <1>1 DEF HoldOps
<1> QED BY <1>1, <1>3, <1>4, <1>5, <1>6, RoutineStep

LEMMA SuccOfFoundThread ==
    ASSUME TypeOK, StatusInv, Core, Threaded, NEW n \in Node, NEW v \in Node \cup {None},
           SuccOfFound(n, v), ~Dies(n)
    PROVE  Threaded'
<1>1. /\ task[n].op = "find_pred" /\ answer[n] = {v} /\ v \in Node
      /\ PredOf(n, v, task[n], inbox)
  BY NodesOnCircle DEF SuccOfFound, Gets
<1>2. /\ task[n].from \in Node /\ Owes(n, task[n].from)
      /\ task[task[n].from].op = "ask_pred"
      /\ task[n].id = task[n].from /\ task[n].source = task[n].from
  BY <1>1, Served DEF Serving
<1>3. task[n].from # n
  BY <1>1, <1>2
<1>4. n \in Members /\ n \notin Holders /\ Free(n) /\ task[n] \in Tasks
  <2>1. status[n] = "up"
    BY <1>1, OpStatus DEF Serving
  <2> QED BY <1>1, <2>1 DEF Members, Holders, HoldOps, Free, TypeOK
<1>5. Kept(inbox) /\ LinksTo(n, "SET_SUCC") = {}
  BY <1>1, InboxKept DEF Threaded, ThreadInv, OrderInv
<1> QED BY <1>1, <1>2, <1>3, <1>4, <1>5, NodesOnCircle, PredOfThread

LEMMA TellThread ==
    ASSUME TypeOK, StatusInv, Core, Threaded, NEW n \in Node, TellSucc(n) \/ TellPred(n)
    PROVE  Threaded'
<1> DEFINE f == Head(inbox[n]).from
<1>1. PICK type \in {"TELL_SUCC", "TELL_PRED"} : \E w :
         /\ Reads(n, type) /\ UNCHANGED <<ring, task>> /\ inbox' = Rest(n)
         /\ answer' = Answered(n, f, w)
  BY DEF TellSucc, TellPred
<1>2. /\ Kept(Rest(n)) /\ f \in Node /\ Head(inbox[n]).type = type /\ AskedInv(n, Head(inbox[n]))
  BY <1>1, QuestionHeld
<1>3. task[f].op \in {"ask_pred", "ask_succ", "tell_pred", "find_pred"}
  BY <1>2 DEF AskedInv
<1> HIDE DEF f
<1>4. PICK v : answer' = Answered(n, f, v)
  BY <1>1
<1>5. \A x \in Node : \A w \in answer'[x] :
         w \in answer[x] \/ (ForRefresh(x) /\ Clear(AsksFor(x)) => Adjacent(AsksFor(x), w))
  BY <1>2, <1>3, <1>4, NoForRefresh, AnswersStay
<1> QED BY <1>1, <1>2, <1>5, RoutineStep

-----------------------------------------------------------------------------
(* Steps that have nothing to do with the thread.                           *)

LEMMA UnbrokenIntact == (Unbroken => Intact) /\ (Unbroken' => Intact')
BY DEF Unbroken, Intact, Linked

LEMMA MessageStep ==
    ASSUME TypeOK, Threaded, NEW n \in Node, UNCHANGED <<status, task, answer>>, Kept(inbox'),
           \A x \in Node, i \in Indices \ {0} : finger'[x][i] = finger[x][i]
    PROVE  Threaded'
<1>1. Circle' = Circle /\ Members' = Members
  BY CircleSame DEF Asking, Members
<1> QED BY <1>1, ThreadStays

LEMMA StutterThread ==
    ASSUME TypeOK, Threaded, UNCHANGED vars
    PROVE  Threaded'
<1>1. UNCHANGED <<status, task, answer, inbox, finger>>
  BY DEF vars, ring, net
<1>2. CASE Node # {}
  <2>1. PICK n \in Node : TRUE
    BY <1>2
  <2>2. Kept(inbox')
    BY <1>1, InboxKept DEF Threaded, ThreadInv
  <2> QED BY <1>1, <2>1, <2>2, MessageStep
<1>3. CASE Node = {}
  <2>1. ThreadInv'
    <3>1. [n \in Node |-> 0] \in [Node -> Nat]
      OBVIOUS
    <3>2. Ranked'
      BY <1>3, <3>1 DEF Ranked
    <3> QED BY <1>3, <3>2 DEF ThreadInv, OneThread, Holders, Awaiting, OrderInv, BehalfInv, AskedUp
  <2>2. Found'
    BY <1>3 DEF Found, NearerInv, FoundInv, RenewedInv, Circle
  <2> QED BY <2>1, <2>2 DEF Threaded
<1> QED BY <1>2, <1>3

LEMMA LinksThread ==
    ASSUME TypeOK, Threaded, NEW n \in Node, SetSucc(n) \/ SetPred(n) \/ ExecuteKey(n), ~Dies(n)
    PROVE  Threaded'
<1>1. UNCHANGED <<status, task, answer>> /\ inbox' = Rest(n)
  BY DEF SetSucc, SetPred, ExecuteKey, ring
<1>2. PICK type \in {"SET_SUCC", "SET_PRED", "KEY"} : Reads(n, type)
  BY DEF SetSucc, SetPred, ExecuteKey
<1>3. Kept(inbox')
  BY <1>1, <1>2, ReadKept DEF Threaded, ThreadInv
<1>4. \A x \in Node, i \in Indices \ {0} : finger'[x][i] = finger[x][i]
  <2>1. CASE SetSucc(n)
    <3>1. finger' = [finger EXCEPT ![n][0] = Head(inbox[n]).source]
      BY <2>1 DEF SetSucc
    <3> QED BY <3>1 DEF TypeOK
  <2>2. CASE finger' = finger
    BY <2>2
  <2> QED BY <2>1, <2>2 DEF SetPred, ExecuteKey, ring
<1> QED BY <1>1, <1>3, <1>4, MessageStep

LEMMA ReadsAgainThread ==
    ASSUME TypeOK, Threaded, NEW n \in Node, task[n].op = "idle", NEW from, NEW box, Kept(box),
           ReadsAgain(n, from, box), UNCHANGED <<ring, answer>>, Unbroken'
    PROVE  Threaded'
<1>1. CASE inbox' = box /\ task' = [task EXCEPT ![n] = Doing("read_client")]
  <2>1. /\ task'[n].op = "read_client" /\ task'[n].asks = None /\ task[n].op \notin HoldOps
        /\ \A x \in Node \ {n} : task'[x] = task[x]
    BY <1>1, Ops DEF TypeOK, HoldOps
  <2> QED BY <1>1, <2>1, RoutineStep
<1>2. CASE /\ \E k \in 0 .. Len(box[n]) : LosesBatch(n, box, k)
           /\ UNCHANGED task
  <2>1. inbox' = box
    BY <1>2, NothingLost DEF Kept
  <2> QED BY <1>2, <2>1, MessageStep DEF ring
<1> QED BY <1>1, <1>2 DEF ReadsAgain

LEMMA PassKeyThread ==
    ASSUME TypeOK, Threaded, NEW n \in Node, ForwardKey(n) \/ DropKey(n), Unbroken'
    PROVE  Threaded'
<1> DEFINE m == Head(inbox[n])
           s == Succ(n)
           r == Request("KEY", m.id, None, n)
<1>1. Reads(n, "KEY") /\ task[n].op = "idle"
  BY DEF ForwardKey, DropKey, Reads
<1>2. /\ UNCHANGED <<ring, answer>>
      /\ \/ ReadsAgain(n, m.from, [Rest(n) EXCEPT ![s] = Append(@, r)])
         \/ ReadsAgain(n, m.from, Rest(n))
  BY NoDeath, UnbrokenIntact DEF ForwardKey, DropKey
<1>3. r \in Requests /\ r.type \in Routine /\ s \in Node
  <2>1. m.id \in Key
    BY <1>1, ReadHead, RequestFields
  <2>2. r \in Requests
    BY <2>1, KeyRequestType
  <2> QED BY <2>2, HopNode DEF Request, Routine
<1> HIDE DEF m, s, r
<1>4. Kept(Rest(n))
  BY <1>1, ReadKept DEF Threaded, ThreadInv
<1>5. Kept([Rest(n) EXCEPT ![s] = Append(@, r)])
  BY <1>3, <1>4, KeptPosted
<1> QED BY <1>1, <1>2, <1>4, <1>5, ReadsAgainThread

LEMMA EmptyReadThread ==
    ASSUME TypeOK, Threaded, NEW n \in Node, EmptyRead(n), Unbroken'
    PROVE  Threaded'
<1>1. PICK k \in 1 .. Len(inbox[n]) : LosesBatch(n, inbox, k)
  BY DEF EmptyRead
<1>2. inbox \in Inboxes /\ Len(inbox[n]) \in Nat
  BY BoxType, TypeOKParts
<1>3. k \in 0 .. Len(inbox[n]) /\ k # 0
  BY <1>2
<1> QED BY <1>1, <1>2, <1>3, NothingLost

LEMMA ConnectThread ==
    ASSUME TypeOK, Threaded, NEW n \in Node, NEW k \in Key, Connect(n, k)
    PROVE  Threaded'
<1> DEFINE r == Request("KEY", k, None, None)
<1>1. inbox' = [inbox EXCEPT ![n] = Append(@, r)] /\ UNCHANGED <<ring, task, answer>>
  BY DEF Connect
<1>2. r \in Requests /\ r.type \in Routine
  BY KeyRequestType DEF Request, Routine
<1> HIDE DEF r
<1>3. Kept([inbox EXCEPT ![n] = Append(@, r)])
  BY <1>2, InboxKept, KeptPosted DEF Threaded, ThreadInv
<1> QED BY <1>1, <1>3, MessageStep DEF ring

LEMMA ClientThread ==
    ASSUME TypeOK, Threaded, NEW n \in Node, CloseClient(n) \/ \E k \in Key : SendAgain(n, k),
           Unbroken'
    PROVE  Threaded'
<1>1. /\ UNCHANGED <<ring, answer>> /\ task[n].op = "read_client"
      /\ task' = [task EXCEPT ![n] = Idle]
  BY DEF CloseClient, SendAgain
<1>2. /\ task'[n].op = "idle" /\ task'[n].asks = None /\ task[n].op \notin HoldOps
      /\ \A x \in Node \ {n} : task'[x] = task[x]
  BY <1>1, IdleTask DEF HoldOps
<1>3. Kept(inbox)
  BY InboxKept DEF Threaded, ThreadInv
<1>4. CASE CloseClient(n)
  <2>1. inbox' = inbox
    BY <1>3, <1>4, NothingLost DEF CloseClient, Kept
  <2> QED BY <1>1, <1>2, <1>3, <2>1, RoutineStep
<1>5. ASSUME NEW k \in Key, SendAgain(n, k) PROVE Threaded'
  <2> DEFINE r == Request("KEY", k, None, None)
  <2>1. inbox' = [inbox EXCEPT ![n] = <<r>> \o @]
    BY <1>5 DEF SendAgain
  <2>2. r \in Requests /\ r.type = "KEY"
    BY KeyRequestType DEF Request
  <2> HIDE DEF r
  <2>3. Kept(inbox')
    BY <1>3, <2>1, <2>2, KeptPrepended
  <2> QED BY <1>1, <1>2, <2>3, RoutineStep
<1> QED BY <1>4, <1>5

LEMMA ListenThread ==
    ASSUME TypeOK, StatusInv, Threaded, NEW n \in Node, Listen(n)
    PROVE  Threaded'
<1>1. /\ task[n].op = "listen" /\ status' = [status EXCEPT ![n] = "up"]
      /\ task' = [task EXCEPT ![n] = Idle] /\ UNCHANGED <<finger, inbox, answer>>
  BY DEF Listen
<1>2. status[n] = "joining" /\ task[n].op \notin HoldOps
  BY <1>1, OpStatus DEF JoinOps, HoldOps
<1>3. /\ status'[n] = "up" /\ \A x \in Node \ {n} : status'[x] = status[x]
      /\ task'[n].op = "idle" /\ task'[n].asks = None
      /\ \A x \in Node \ {n} : task'[x] = task[x]
  BY <1>1, IdleTask DEF TypeOK
<1>4. \A x \in Node : Asking(x)' <=> Asking(x)
  BY <1>1, <1>3 DEF Asking
<1>5. Circle' = Circle /\ Members \subseteq Members'
  BY <1>2, <1>3, <1>4, CircleSame DEF Members
<1>6. Kept(inbox')
  BY <1>1, InboxKept DEF Threaded, ThreadInv
<1> QED BY <1>1, <1>2, <1>3, <1>5, <1>6, ThreadStays

-----------------------------------------------------------------------------
(* The thread goes on.  It does so while no lookup is under way.            *)

LEMMA QuietHolder ==
    ASSUME TypeOK, Core, Threaded, NEW n \in Holders, n \in Node, Free(n)
    PROVE  /\ \A x \in Node \ {n} : task[x].op \notin HoldOps
           /\ \A x \in Node : /\ task[x].op \notin Serving
                              /\ AskedOf(x) = {} /\ LinksTo(x, "FIND_SUCC") = {}
                              /\ LinksTo(x, "FIND_FINGER") = {}
           /\ LinksTo(n, "SET_SUCC") = {}
<1>1. \A x \in Node \ {n} : x \notin Holders
  BY DEF Threaded, ThreadInv, OneThread
<1>2. Awaiting = {}
  BY DEF Threaded, ThreadInv, OneThread
<1>3. \A h \in Holders : Free(h)
  BY <1>1 DEF Holders
<1>4. \A x \in Node : task[x].op \notin Serving /\ AskedOf(x) = {}
  BY <1>3, Silence DEF Core, Threaded, ThreadInv
<1>5. \A x \in Node : LinksTo(x, "FIND_SUCC") = {}
  BY <1>4, NoLookups
<1>6. LinksTo(n, "SET_SUCC") = {}
  BY DEF Threaded, ThreadInv, OrderInv, Holders, HoldOps
<1> QED BY <1>1, <1>2, <1>4, <1>5, <1>6 DEF Holders, Awaiting

LEMMA QuietStep ==
    ASSUME TypeOK, Threaded, NEW n \in Node,
           \A x \in Node : task[x].op \notin Serving /\ LinksTo(x, "FIND_SUCC")' = {},
           \A x \in Node \ {n} : task'[x] = task[x] /\ task[x].op \notin HoldOps,
           task'[n].op \notin Serving, Members \subseteq Members',
           task'[n].asks # None => task'[n].asks \in Members' \ {n} /\ task'[n].op # "fingers",
           task'[n].op = "fingers" => answer'[n] = {}
    PROVE  BehalfInv' /\ Ranked' /\ AskedUp' /\ NearerInv' /\ FoundInv'
<1>1. \A x \in Node : task'[x].op \notin Serving
  OBVIOUS
<1>2. \A x \in Node : task'[x].op \notin {"find_succ", "find_pred"}
                      /\ (task'[x].op = "fingers" => x = n)
  BY <1>1 DEF Serving, HoldOps
<1>3. BehalfInv'
  BY <1>1 DEF BehalfInv
<1>4. Ranked'
  <2>1. [x \in Node |-> 0] \in [Node -> Nat]
    OBVIOUS
  <2> QED BY <1>1, <2>1 DEF Ranked
<1>5. AskedUp'
  BY DEF AskedUp, Threaded, ThreadInv
<1>6. NearerInv'
  <2>1. \A x \in Node : task'[x].op \in Asks4Succ => task'[x].asks = None
    BY <1>2 DEF Asks4Succ
  <2> QED BY <1>2, <2>1 DEF NearerInv, NearerAt
<1>7. FoundInv'
  BY <1>2 DEF FoundInv, ForRefresh
<1> QED BY <1>3, <1>4, <1>5, <1>6, <1>7

(* A step of the node that holds the thread, in which it keeps it.          *)
LEMMA ThreadKept ==
    ASSUME TypeOK, Threaded, NEW n \in Node, Kept(inbox'), Members \subseteq Members',
           \A x \in Node : /\ task[x].op \notin Serving /\ LinksTo(x, "FIND_SUCC") = {}
                           /\ LinksTo(x, "FIND_FINGER") = {},
           \A x \in Node \ {n} : task'[x] = task[x] /\ task[x].op \notin HoldOps,
           task'[n].op \notin Serving, LinksTo(n, "SET_SUCC") = {},
           task'[n].asks # None => task'[n].asks \in Members' \ {n} /\ task'[n].op # "fingers",
           task'[n].op = "fingers" => answer'[n] = {}
    PROVE  /\ ThreadInv' /\ NearerInv' /\ FoundInv'
           /\ \A x \in Node : LinksTo(x, "FIND_FINGER")' = {}
<1>1. \A x \in Node :
         /\ Orderly(inbox'[x])
         /\ LinksTo(x, "FIND_SUCC")' = {} /\ LinksTo(x, "FIND_FINGER")' = {}
         /\ LinksTo(x, "SET_SUCC")' \subseteq LinksTo(x, "SET_SUCC")
  <2> SUFFICES ASSUME NEW x \in Node
               PROVE  /\ Orderly(inbox'[x])
                      /\ LinksTo(x, "FIND_SUCC")' = {} /\ LinksTo(x, "FIND_FINGER")' = {}
                      /\ LinksTo(x, "SET_SUCC")' \subseteq LinksTo(x, "SET_SUCC")
    OBVIOUS
  <2>1. /\ Orderly(inbox'[x])
        /\ LinksIn(inbox'[x], "FIND_SUCC") \subseteq LinksTo(x, "FIND_SUCC")
        /\ LinksIn(inbox'[x], "FIND_FINGER") = LinksTo(x, "FIND_FINGER")
        /\ LinksIn(inbox'[x], "SET_SUCC") \subseteq LinksTo(x, "SET_SUCC")
    BY DEF Kept
  <2> QED BY <2>1, LinksAfter
<1>2. BehalfInv' /\ Ranked' /\ AskedUp' /\ NearerInv' /\ FoundInv'
  BY <1>1, QuietStep
<1>3. OneThread'
  <2>1. Holders' \subseteq {n} /\ Awaiting' = {}
    BY <1>1 DEF Holders, Awaiting
  <2> QED BY <2>1 DEF OneThread
<1>4. OrderInv'
  BY <1>1 DEF OrderInv, Threaded, ThreadInv
<1> QED BY <1>1, <1>2, <1>3, <1>4 DEF ThreadInv

(* No finger is due while a node asks for its place, or nobody refreshes.   *)
LEMMA NothingDue ==
    ASSUME \A x \in Node : /\ task[x].op \notin {"link_succ", "fingers"}
                           /\ LinksTo(x, "FIND_FINGER") = {},
           NEW n, NEW i
    PROVE  ~Due(n, i)
BY DEF Due

LEMMA FingerStays ==
    ASSUME Circle' = Circle, NEW n, NEW i, finger'[n][i] = finger[n][i], FingerRight(n, i)
    PROVE  FingerRight(n, i)'
BY DEF FingerRight, Clear, Beyond, Adjacent, Start

-----------------------------------------------------------------------------
(* The refresh goes around the ring.                                        *)

LEMMA FindFingerThread ==
    ASSUME TypeOK, StatusInv, Core, Threaded, NEW n \in Node, FindFinger(n)
    PROVE  Threaded'
<1> DEFINE m == Head(inbox[n])
<1>1. /\ Reads(n, "FIND_FINGER") /\ inbox' = Rest(n) /\ UNCHANGED <<ring, answer>>
      /\ task' = IF m.source = n THEN task ELSE [task EXCEPT ![n] = Refresh(m.source)]
  BY DEF FindFinger
<1>2. n \in Circle /\ task[n].op = "idle" /\ task[n].asks = None /\ answer[n] = {}
  <2>1. status[n] = "up" /\ task[n].op = "idle"
    BY <1>1 DEF Reads, Listens
  <2>2. Rests(n)
    BY <2>1 DEF Rests, Resting
  <2> QED BY <2>1, <2>2, OnCircle, RestsFree
<1>3. /\ inbox[n] \in Seq(Requests) /\ inbox[n] # <<>> /\ Orderly(inbox[n])
      /\ m.type = "FIND_FINGER" /\ m \in LinksTo(n, "FIND_FINGER")
      /\ LinksTo(n, "SET_SUCC") = {}
      /\ \A x \in Node \ {n} : inbox'[x] = inbox[x]
      /\ inbox'[n] = Tail(inbox[n])
  <2>1. m \in LinksTo(n, "FIND_FINGER") /\ LinksTo(n, "SET_SUCC") = {}
    BY <1>1, ReadKept DEF Threaded, ThreadInv, Handed
  <2>2. inbox[n] \in Seq(Requests) /\ inbox[n] # <<>> /\ Orderly(inbox[n])
    BY <1>1 DEF TypeOK, Reads, Threaded, ThreadInv, OrderInv
  <2>3. (\A x \in Node \ {n} : inbox'[x] = inbox[x]) /\ inbox'[n] = Tail(inbox[n])
    BY <1>1 DEF Rest, TypeOK
  <2> QED BY <1>1, <2>1, <2>2, <2>3 DEF Reads
<1>4. /\ Orderly(inbox'[n]) /\ LinksTo(n, "FIND_FINGER") = {m}
      /\ LinksTo(n, "FIND_FINGER")' = {} /\ Elems(inbox'[n]) \subseteq Elems(inbox[n])
  <2>1. /\ Orderly(Tail(inbox[n])) /\ LinksIn(inbox[n], "FIND_FINGER") = {m}
        /\ LinksIn(Tail(inbox[n]), "FIND_FINGER") = {}
    BY <1>3, OrderlyTail
  <2>2. Elems(Tail(inbox[n])) \subseteq Elems(inbox[n])
    BY <1>3, TailElems
  <2> QED BY <1>3, <2>1, <2>2 DEF LinksTo, LinksIn, Box
<1> HIDE DEF m
<1>5. Holders = {} /\ Awaiting = {n}
  BY <1>4 DEF Threaded, ThreadInv, OneThread, Awaiting
<1>6. \A x \in Node : /\ task[x].op \notin Serving /\ task[x].op \notin HoldOps
                      /\ LinksTo(x, "FIND_SUCC") = {}
                      /\ x # n => LinksTo(x, "FIND_FINGER") = {}
  <2>1. \A x \in Node : task[x].op \notin Serving /\ AskedOf(x) = {}
    BY <1>5, Silence DEF Core, Threaded, ThreadInv
  <2> QED BY <1>5, <2>1, NoLookups DEF Holders, Awaiting
<1>7. \A x \in Node : \A type : LinksTo(x, type)' \subseteq LinksTo(x, type)
  BY <1>3, <1>4 DEF LinksTo, Box
<1>8. /\ \A x \in Node \ {n} : task'[x] = task[x]
      /\ m.source = n => task'[n] = task[n]
      /\ m.source # n => /\ task'[n].op = "fingers" /\ task'[n].asks = None
                         /\ task'[n].source = m.source /\ task'[n].next = 1
  BY <1>1 DEF TypeOK, Refresh, Task
<1>9. Circle' = Circle /\ Members' = Members /\ finger' = finger
  <2>1. \A x \in Node : Asking(x)' <=> Asking(x)
    BY <1>2, <1>8 DEF Asking
  <2> QED BY <1>1, <2>1, CircleSame DEF ring, Members
<1>10. BehalfInv' /\ Ranked' /\ AskedUp' /\ NearerInv' /\ FoundInv'
  <2>1. \A x \in Node : task[x].op \notin Serving /\ LinksTo(x, "FIND_SUCC")' = {}
    BY <1>6, <1>7
  <2>2. task'[n].op \notin Serving /\ task'[n].asks = None /\ answer'[n] = {}
    BY <1>1, <1>2, <1>6, <1>8 DEF Serving
  <2>3. \A x \in Node \ {n} : task'[x] = task[x] /\ task[x].op \notin HoldOps
    BY <1>6, <1>8
  <2> QED BY <1>9, <2>1, <2>2, <2>3, QuietStep
<1>11. OneThread'
  <2>1. Awaiting' = {}
    BY <1>4, <1>6, <1>7 DEF Awaiting
  <2>2. Holders' \subseteq {n}
    BY <1>6, <1>8 DEF Holders
  <2> QED BY <2>1, <2>2 DEF OneThread
<1>12. OrderInv'
  <2>1. \A x \in Node : Orderly(inbox'[x])
    BY <1>3, <1>4 DEF Threaded, ThreadInv, OrderInv
  <2> QED BY <1>3, <1>7, <1>8, <2>1 DEF OrderInv, Threaded, ThreadInv
<1>13. RenewedInv'
  <2>1. RenewedInv /\ m.source \in Circle
    BY <1>3 DEF Threaded, Found, RenewedInv
  <2>2. ASSUME NEW x \in Circle', NEW i \in Indices \ {0} PROVE FingerRight(x, i)' \/ Due(x, i)'
    <3>1. x \in Circle
      BY <1>9
    <3>2. CASE FingerRight(x, i)
      BY <1>9, <3>1, <3>2, FingerStays
    <3>3. CASE Due(x, i)
      <4>1. m.source # n /\ Ahead(x, n, m.source)
        BY <1>4, <1>6, <3>3 DEF Due, HoldOps
      <4>2. i >= 1
        BY BitsAssumption DEF Indices
      <4> QED BY <1>8, <4>1, <4>2 DEF Due, Ahead
    <3> QED BY <2>1, <3>1, <3>2, <3>3 DEF RenewedInv
  <2>3. \A x \in Node : /\ task'[x].op = "fingers" => task'[x].source \in Circle'
                        /\ \A k \in LinksTo(x, "FIND_FINGER")' : k.source \in Circle'
    BY <1>6, <1>7, <1>8, <1>9, <2>1 DEF RenewedInv, HoldOps
  <2> QED BY <2>2, <2>3 DEF RenewedInv
<1> QED BY <1>10, <1>11, <1>12, <1>13 DEF Threaded, ThreadInv, Found

LEMMA RenewedThread ==
    ASSUME TypeOK, StatusInv, Core, Threaded, NEW n \in Node, Renews(n), Free(n), NEW v,
           Clear(AsksFor(n)) => Adjacent(AsksFor(n), v),
           finger' = [finger EXCEPT ![n][task[n].next] = v],
           task' = [task EXCEPT ![n] = Renewed(@)],
           answer'[n] = {}, UNCHANGED <<status, inbox>>
    PROVE  Threaded'
<1> DEFINE k == task[n].next
<1>1. task[n] \in Tasks /\ task[n].op = "fingers" /\ k \in 1 .. Bits - 1
  BY BitsAssumption DEF Renews, TypeOK, Tasks
<1>2. /\ task'[n].op = "fingers" /\ task'[n].asks = None /\ task'[n].source = task[n].source
      /\ task'[n].next = k + 1
      /\ \A x \in Node \ {n} : task'[x] = task[x]
  <2>1. /\ Renewed(task[n]).op = "fingers" /\ Renewed(task[n]).asks = None
        /\ Renewed(task[n]).source = task[n].source /\ Renewed(task[n]).next = k + 1
    BY <1>1 DEF Renewed, Tasks
  <2> QED BY <2>1 DEF TypeOK
<1>3. n \in Holders
  BY <1>1 DEF Holders, HoldOps
<1>4. /\ \A x \in Node \ {n} : task[x].op \notin HoldOps
      /\ \A x \in Node : /\ task[x].op \notin Serving
                         /\ LinksTo(x, "FIND_SUCC") = {} /\ LinksTo(x, "FIND_FINGER") = {}
      /\ LinksTo(n, "SET_SUCC") = {}
  BY <1>3, QuietHolder
<1>5. Circle' = Circle /\ Members' = Members
  <2>1. \A x \in Node : Asking(x)' <=> Asking(x)
    BY <1>1, <1>2 DEF Asking
  <2> QED BY <2>1, CircleSame DEF Members
<1>6. \A x \in Node, i \in Indices \ {0} :
         finger'[x][i] = IF x = n /\ i = k THEN v ELSE finger[x][i]
  <2>1. k \in Indices
    BY <1>1 DEF Indices
  <2> HIDE DEF k
  <2>2. finger' = [finger EXCEPT ![n][k] = v] /\ finger \in [Node -> [Indices -> Node]]
    BY DEF k, TypeOK
  <2> QED BY <2>1, <2>2
<1>7. /\ ThreadInv' /\ NearerInv' /\ FoundInv'
      /\ \A x \in Node : LinksTo(x, "FIND_FINGER")' = {}
  <2>1. Kept(inbox')
    BY InboxKept DEF Threaded, ThreadInv
  <2>2. task'[n].op \notin Serving
    BY <1>2 DEF Serving
  <2> QED BY <1>2, <1>4, <1>5, <2>1, <2>2, ThreadKept
<1>8. RenewedInv'
  <2>1. RenewedInv
    BY DEF Threaded, Found
  <2>2. ASSUME NEW x \in Circle', NEW i \in Indices \ {0} PROVE FingerRight(x, i)' \/ Due(x, i)'
    <3>1. x \in Circle /\ x \in Node /\ i \in Nat /\ k \in Nat
      BY <1>1, <1>5, CircleNodes, BitsAssumption DEF Indices
    <3>2. CASE x = n /\ i = k
      <4>1. AsksFor(n) = Start(x, i) /\ finger'[x][i] = v
        BY <1>1, <1>6, <3>1, <3>2 DEF AsksFor
      <4>2. Clear(Start(x, i)) => Adjacent(Start(x, i), v)
        BY <4>1
      <4> QED BY <1>5, <4>1, <4>2 DEF FingerRight, Clear, Beyond, Adjacent, Start
    <3>3. CASE ~(x = n /\ i = k) /\ FingerRight(x, i)
      <4>1. finger'[x][i] = finger[x][i]
        BY <1>6, <3>1, <3>3
      <4> QED BY <1>5, <3>3, <4>1, FingerStays
    <3>4. CASE ~(x = n /\ i = k) /\ Due(x, i)
      <4>1. IF x = n THEN i >= k ELSE Between(n, x, task[n].source)
        <5>1. \A h \in Node : /\ task[h].op # "link_succ" /\ LinksTo(h, "FIND_FINGER") = {}
                              /\ task[h].op = "fingers" => h = n
          BY <1>1, <1>4 DEF HoldOps
        <5>2. PICK h \in Node : /\ task[h].op = "fingers"
                                /\ IF x = h THEN i >= task[h].next
                                   ELSE Between(h, x, task[h].source)
          BY <3>4, <5>1 DEF Due
        <5> QED BY <5>1, <5>2
      <4>2. IF x = n THEN i >= task'[n].next ELSE Between(n, x, task'[n].source)
        BY <1>2, <3>1, <3>4, <4>1
      <4> QED BY <1>2, <4>2 DEF Due, Between
    <3> QED BY <2>1, <3>1, <3>2, <3>3, <3>4 DEF RenewedInv
  <2>3. \A x \in Node : task'[x].op = "fingers" => task'[x].source \in Circle'
    BY <1>1, <1>2, <1>4, <1>5, <2>1 DEF RenewedInv, HoldOps
  <2> QED BY <1>7, <2>2, <2>3 DEF RenewedInv
<1> QED BY <1>7, <1>8 DEF Threaded, Found

(* What a refresh looks up, and the tables it looks it up in.               *)
LEMMA RefreshStart ==
    ASSUME TypeOK, StatusInv, Core, Threaded, NEW n \in Node, Renews(n)
    PROVE  LET id == AsksFor(n)
           IN  /\ id = Start(n, task[n].next) /\ id \in Points /\ id # n
               /\ n \in Circle /\ Follows(n, Succ(n)) /\ n \in Holders
<1>1. task[n].op = "fingers" /\ task[n].next \in 1 .. Bits /\ task[n].next < Bits
  BY DEF Renews, TypeOK, Tasks
<1>2. AsksFor(n) = Start(n, task[n].next)
  BY <1>1 DEF AsksFor
<1>3. Start(n, task[n].next) \in Points /\ Start(n, task[n].next) # n
  BY <1>1, StartPoint
<1>4. n \in Circle
  BY <1>1, OnCircle
<1>5. Follows(n, Succ(n))
  BY <1>1, <1>4, KnowsSucc DEF Core, Threaded, ThreadInv
<1> QED BY <1>1, <1>2, <1>3, <1>4, <1>5 DEF Holders, HoldOps

LEMMA FingerLocalThread ==
    ASSUME TypeOK, StatusInv, Core, Threaded, NEW n \in Node, FingerLocal(n)
    PROVE  Threaded'
<1> DEFINE id == AsksFor(n)
           v == LocalSucc(n, id)
<1>1. Renews(n) /\ task[n].asks = None
  BY DEF FingerLocal, Looks
<1>2. /\ id = Start(n, task[n].next) /\ id \in Points /\ id # n
      /\ n \in Circle /\ Follows(n, Succ(n))
  BY <1>1, RefreshStart
<1>3. /\ Local(n, id, n) /\ finger' = [finger EXCEPT ![n][task[n].next] = v]
      /\ task' = [task EXCEPT ![n] = Renewed(@)] /\ UNCHANGED <<status, inbox, answer>>
  BY <1>2 DEF FingerLocal
<1>4. Clear(id) => Adjacent(id, v)
  <2> HIDE DEF id
  <2> QED BY <1>2, <1>3, LocalClear DEF Core
<1>5. Free(n) /\ answer'[n] = {}
  BY <1>1, <1>3 DEF Free, Core, TokenInv
<1> QED BY <1>1, <1>3, <1>4, <1>5, RenewedThread

LEMMA FingerFoundThread ==
    ASSUME TypeOK, StatusInv, Core, Threaded, NEW n \in Node, NEW v, FingerFound(n, v), ~Dies(n)
    PROVE  Threaded'
<1>1. /\ Renews(n) /\ answer[n] = {v} /\ task[n].op = "fingers"
      /\ finger' = [finger EXCEPT ![n][task[n].next] = v]
      /\ task' = [task EXCEPT ![n] = Renewed(@)]
      /\ answer' = [answer EXCEPT ![n] = {}] /\ UNCHANGED <<status, inbox>>
  BY DEF FingerFound, Gets
<1>2. Clear(AsksFor(n)) => Adjacent(AsksFor(n), v)
  BY <1>1 DEF ForRefresh, FoundInv, Threaded, Found
<1>3. Free(n) /\ answer'[n] = {}
  BY <1>1 DEF Free, TypeOK
<1> QED BY <1>1, <1>2, <1>3, RenewedThread

LEMMA FingerAskThread ==
    ASSUME TypeOK, StatusInv, Core, Threaded, NEW n \in Node, FingerAsk(n), ~Dies(n)
    PROVE  Threaded'
<1> DEFINE id == AsksFor(n)
           hop == Hop(n, id)
           r == Request("FIND_SUCC", id, n, n)
<1>1. Renews(n) /\ task[n].op = "fingers" /\ task[n].asks = None
  BY DEF FingerAsk, Looks, Renews
<1>2. /\ id = Start(n, task[n].next) /\ id \in Points /\ id # n
      /\ n \in Circle /\ Follows(n, Succ(n)) /\ n \in Holders
  BY <1>1, RefreshStart
<1>3. /\ ~Local(n, id, n) /\ Listens(hop) /\ Posted(inbox, hop, r)
      /\ task' = [task EXCEPT ![n].asks = hop] /\ UNCHANGED <<ring, answer>>
  BY <1>2 DEF FingerAsk, Posted
<1>4. hop \in Members /\ hop # n /\ hop \in Node
  BY <1>3, HopNode DEF Members, Listens, Local
<1>5. r \in Requests /\ r.type = "FIND_SUCC" /\ r.id = id /\ r.source = n /\ r.type \in Questions
  BY <1>2, RequestType DEF Request, Questions
<1>6. Reachable(id) => Between(n, hop, id)
  <2> HIDE DEF id
  <2> QED BY <1>2, <1>3, <1>4, AskedIsNearer DEF Core
<1> HIDE DEF id, hop, r
<1>7. /\ task'[n].op = "fingers" /\ task'[n].next = task[n].next /\ task'[n].asks = hop
      /\ task'[n].source = task[n].source
      /\ \A x \in Node \ {n} : task'[x] = task[x]
  <2>1. task[n] \in Tasks
    BY DEF TypeOK
  <2> QED BY <1>1, <1>3, <2>1 DEF TypeOK, Tasks
<1>8. Free(n) /\ answer[n] = {}
  BY <1>1 DEF Free, Core, TokenInv
<1>9. /\ \A x \in Node \ {n} : task[x].op \notin HoldOps
      /\ \A x \in Node : /\ task[x].op \notin Serving
                         /\ LinksTo(x, "FIND_SUCC") = {} /\ LinksTo(x, "FIND_FINGER") = {}
      /\ LinksTo(n, "SET_SUCC") = {}
  BY <1>2, <1>8, QuietHolder
<1>10. Circle' = Circle /\ Members' = Members /\ finger' = finger
  <2>1. \A x \in Node : Asking(x)' <=> Asking(x)
    BY <1>1, <1>7 DEF Asking
  <2> QED BY <1>3, <2>1, CircleSame DEF Members, ring
<1>11. \A x \in Node :
          /\ Orderly(inbox'[x])
          /\ \A m \in LinksTo(x, "FIND_SUCC")' : x = hop /\ m = r
          /\ LinksTo(x, "FIND_FINGER")' = {}
          /\ LinksTo(x, "SET_SUCC")' \subseteq LinksTo(x, "SET_SUCC")
  <2> SUFFICES ASSUME NEW x \in Node
               PROVE  /\ Orderly(inbox'[x])
                      /\ \A m \in LinksTo(x, "FIND_SUCC")' : x = hop /\ m = r
                      /\ LinksTo(x, "FIND_FINGER")' = {}
                      /\ LinksTo(x, "SET_SUCC")' \subseteq LinksTo(x, "SET_SUCC")
    OBVIOUS
  <2>1. Kept(inbox)
    BY InboxKept DEF Threaded, ThreadInv
  <2>2. /\ Orderly(inbox'[x])
        /\ \A m \in LinksTo(x, "FIND_SUCC")' :
              m \in LinksTo(x, "FIND_SUCC") \/ (x = hop /\ m = r /\ r.type = "FIND_SUCC")
        /\ LinksTo(x, "FIND_FINGER")' = LinksTo(x, "FIND_FINGER")
        /\ LinksTo(x, "SET_SUCC")' \subseteq LinksTo(x, "SET_SUCC")
    BY <1>3, <1>4, <1>5, <2>1, QuestionSent
  <2> QED BY <1>9, <2>2
<1>12. \A x \in Node : task'[x].op \notin Serving /\ (task'[x].op = "fingers" => x = n)
  BY <1>7, <1>9 DEF Serving, HoldOps
<1>13. OneThread' /\ OrderInv'
  <2>1. Holders' \subseteq {n} /\ Awaiting' = {}
    BY <1>7, <1>9, <1>11 DEF Holders, Awaiting
  <2>2. OneThread'
    BY <2>1 DEF OneThread
  <2>3. OrderInv'
    BY <1>7, <1>9, <1>11 DEF OrderInv, Threaded, ThreadInv
  <2> QED BY <2>2, <2>3
<1>14. BehalfInv'
  <2>1. \A x \in Node : \A m \in LinksTo(x, "FIND_SUCC")' : OnBehalf(m.id, m.source)'
    BY <1>2, <1>5, <1>7, <1>11 DEF OnBehalf, Start
  <2> QED BY <1>12, <2>1 DEF BehalfInv
<1>15. Ranked'
  <2>1. [x \in Node |-> 0] \in [Node -> Nat]
    OBVIOUS
  <2> QED BY <1>12, <2>1 DEF Ranked
<1>16. AskedUp'
  BY <1>4, <1>7, <1>10 DEF AskedUp, Threaded, ThreadInv
<1>17. AsksFor(n)' = id /\ \A p : Reachable(p)' => Reachable(p)
  BY <1>1, <1>7, <1>10 DEF AsksFor, Start, id, Reachable, Beyond
<1>18. NearerInv'
  <2> SUFFICES ASSUME NEW x \in Node PROVE NearerAt(x)'
    BY DEF NearerInv
  <2>1. ASSUME task'[x].op \in Asks4Succ, Reachable(AsksFor(x))'
        PROVE  Between(x, task'[x].asks, AsksFor(x)')
    <3>1. x = n
      BY <1>12, <2>1 DEF Asks4Succ, Serving
    <3>2. Reachable(id)
      BY <1>17, <2>1, <3>1 DEF Reachable
    <3> QED BY <1>6, <1>7, <1>17, <3>1, <3>2
  <2>2. ASSUME NEW m \in LinksTo(x, "FIND_SUCC")', Reachable(m.id)'
        PROVE  Between(m.source, x, m.id)
    BY <1>5, <1>6, <1>11, <1>17, <2>2
  <2>3. task'[x].op # "find_succ"
    BY <1>12 DEF Serving
  <2> QED BY <2>1, <2>2, <2>3 DEF NearerAt, Between
<1>19. FoundInv'
  BY <1>3, <1>8, <1>12 DEF FoundInv, ForRefresh, Serving
<1>20. RenewedInv'
  <2>1. RenewedInv
    BY DEF Threaded, Found
  <2>2. ASSUME NEW x \in Circle', NEW i \in Indices \ {0} PROVE FingerRight(x, i)' \/ Due(x, i)'
    <3>1. x \in Circle
      BY <1>10
    <3>2. FingerRight(x, i) => FingerRight(x, i)'
      BY <1>10, FingerStays
    <3>3. ASSUME Due(x, i) PROVE Due(x, i)'
      <4>1. \A h \in Node : /\ task[h].op # "link_succ" /\ LinksTo(h, "FIND_FINGER") = {}
                            /\ task[h].op = "fingers" => h = n
        BY <1>1, <1>9 DEF HoldOps
      <4>2. IF x = n THEN i >= task[n].next ELSE Between(n, x, task[n].source)
        BY <3>3, <4>1 DEF Due
      <4> QED BY <1>7, <4>2 DEF Due, Between
    <3> QED BY <2>1, <3>1, <3>2, <3>3 DEF RenewedInv
  <2>3. \A x \in Node : task'[x].op = "fingers" => task'[x].source \in Circle'
    BY <1>1, <1>7, <1>10, <1>12, <2>1 DEF RenewedInv
  <2> QED BY <1>11, <2>2, <2>3 DEF RenewedInv
<1> QED BY <1>13, <1>14, <1>15, <1>16, <1>18, <1>19, <1>20 DEF Threaded, ThreadInv, Found

(* The refresh has come from n to its successor s, on the way to source.    *)
LEMMA FurtherOn ==
    ASSUME NEW n \in Circle, NEW s \in Circle, NEW x \in Circle, NEW source \in Circle,
           Adjacent(n, s), Between(n, x, source)
    PROVE  s # source /\ Ahead(x, s, source)
<1>1. ~Between(n, x, s) /\ ~Between(n, source, s)
  BY DEF Adjacent
<1> QED BY <1>1, CircleNodes DEF Ahead, Between

LEMMA PassRefreshOnThread ==
    ASSUME TypeOK, StatusInv, Core, Threaded, NEW n \in Node, PassRefreshOn(n), ~Dies(n)
    PROVE  Threaded'
<1>1. /\ task[n].op = "fingers" /\ task[n].next = Bits /\ UNCHANGED <<ring, answer>>
      /\ task' = [task EXCEPT ![n] = IF status[n] = "joining" THEN Doing("listen") ELSE Idle]
  BY DEF PassRefreshOn
<1>2. PICK s \in Node, source \in Node, r \in Requests :
         /\ s = Succ(n) /\ source = task[n].source /\ source \in Circle
         /\ r.type = "FIND_FINGER" /\ r.source = source /\ Posted(inbox, s, r)
  <2> DEFINE r == Request("FIND_FINGER", task[n].source, task[n].source, n)
  <2>1. Succ(n) \in Node /\ task[n].source \in Node /\ task[n].source \in Circle
    BY <1>1, HopNode DEF TypeOK, Threaded, Found, RenewedInv
  <2>2. r \in Requests /\ r.type = "FIND_FINGER" /\ r.source = task[n].source
    BY <2>1, NodesOnCircle, RequestType DEF Request, Orders
  <2>3. Posted(inbox, Succ(n), r)
    BY DEF PassRefreshOn, Tells, Posted
  <2> HIDE DEF r
  <2> QED BY <2>1, <2>2, <2>3
<1>3. n \in Circle /\ Follows(n, s) /\ n \in Holders
  <2>1. n \in Circle
    BY <1>1, OnCircle
  <2> QED BY <1>1, <1>2, <2>1, KnowsSucc DEF Core, Threaded, ThreadInv, Holders, HoldOps
<1>5. /\ task'[n].op \in {"listen", "idle"} /\ task'[n].asks = None
      /\ \A x \in Node \ {n} : task'[x] = task[x]
  BY <1>1, Ops DEF TypeOK
<1>6. Rests(n) /\ answer[n] = {} /\ Free(n)
  BY <1>1, RestsFree DEF Rests
<1>7. /\ \A x \in Node \ {n} : task[x].op \notin HoldOps
      /\ \A x \in Node : /\ task[x].op \notin Serving
                         /\ LinksTo(x, "FIND_SUCC") = {} /\ LinksTo(x, "FIND_FINGER") = {}
      /\ LinksTo(n, "SET_SUCC") = {}
  BY <1>3, <1>6, QuietHolder
<1>8. Circle' = Circle /\ Members' = Members /\ finger' = finger
  <2>1. \A x \in Node : Asking(x)' <=> Asking(x)
    BY <1>1, <1>5 DEF Asking
  <2> QED BY <1>1, <2>1, CircleSame DEF Members, ring
<1>9. /\ \A x \in Node : Orderly(inbox'[x])
      /\ LinksTo(s, "FIND_FINGER")' = {r}
      /\ \A x \in Node \ {s} : LinksTo(x, "FIND_FINGER")' = {}
      /\ \A x \in Node : /\ LinksTo(x, "FIND_SUCC")' = {}
                         /\ LinksTo(x, "SET_SUCC")' = LinksTo(x, "SET_SUCC")
  <2>1. /\ inbox[s] \in Seq(Requests) /\ inbox'[s] = Append(inbox[s], r)
        /\ \A x \in Node \ {s} : inbox'[x] = inbox[x]
    BY <1>2 DEF Posted, TypeOK
  <2>2. Elems(inbox'[s]) = Elems(inbox[s]) \cup {r}
    BY <2>1, ElemsAppend
  <2>3. \A x \in Node : Orderly(inbox[x])
    BY DEF Threaded, ThreadInv, OrderInv
  <2>4. LinksIn(inbox[s], "FIND_FINGER") = {}
    BY <1>2, <1>7 DEF LinksTo, LinksIn, Box
  <2>5. Orderly(inbox'[s])
    BY <1>2, <2>1, <2>3, <2>4, OrderlyAppend
  <2>6. \A x \in Node \ {s} : \A type : LinksTo(x, type)' = LinksTo(x, type)
    BY <2>1 DEF LinksTo, Box
  <2>7. \A type : LinksTo(s, type)' = LinksTo(s, type) \cup {m \in {r} : m.type = type}
    BY <2>2 DEF LinksTo, Box
  <2>8. \A x \in Node : Orderly(inbox'[x])
    BY <2>1, <2>3, <2>5
  <2>9. {m \in {r} : m.type = "FIND_FINGER"} = {r} /\ {m \in {r} : m.type = "SET_SUCC"} = {}
        /\ {m \in {r} : m.type = "FIND_SUCC"} = {}
    BY <1>2
  <2>10. /\ LinksTo(s, "FIND_FINGER")' = {r} /\ LinksTo(s, "FIND_SUCC")' = {}
         /\ LinksTo(s, "SET_SUCC")' = LinksTo(s, "SET_SUCC")
    BY <1>7, <2>7, <2>9
  <2> QED BY <1>7, <2>6, <2>8, <2>10
<1>10. BehalfInv' /\ Ranked' /\ AskedUp' /\ NearerInv' /\ FoundInv'
  <2>1. task'[n].op \notin Serving \cup {"fingers"}
    BY <1>5 DEF Serving
  <2> QED BY <1>5, <1>7, <1>8, <1>9, <2>1, QuietStep
<1>11. OneThread' /\ OrderInv'
  <2>1. Holders' = {} /\ Awaiting' \subseteq {s}
    BY <1>5, <1>7, <1>9 DEF Holders, HoldOps, Awaiting
  <2>2. OneThread'
    BY <2>1 DEF OneThread
  <2>3. OrderInv'
    BY <1>5, <1>7, <1>9 DEF OrderInv, Threaded, ThreadInv
  <2> QED BY <2>2, <2>3
<1>12. RenewedInv'
  <2>1. RenewedInv
    BY DEF Threaded, Found
  <2>2. ASSUME NEW x \in Circle', NEW i \in Indices \ {0} PROVE FingerRight(x, i)' \/ Due(x, i)'
    <3>1. x \in Circle /\ i < Bits /\ i \in Nat
      BY <1>8, BitsAssumption DEF Indices
    <3>2. FingerRight(x, i) => FingerRight(x, i)'
      BY <1>8, FingerStays
    <3>3. ASSUME Due(x, i) PROVE Due(x, i)'
      <4>1. \A h \in Node : /\ task[h].op # "link_succ" /\ LinksTo(h, "FIND_FINGER") = {}
                            /\ task[h].op = "fingers" => h = n
        BY <1>1, <1>7 DEF HoldOps
      <4>2. IF x = n THEN i >= Bits ELSE Between(n, x, source)
        BY <1>1, <1>2, <3>3, <4>1 DEF Due
      <4>3. Between(n, x, source)
        BY <3>1, <4>2, BitsAssumption
      <4>4. s # source /\ Ahead(x, s, source)
        BY <1>2, <1>3, <3>1, <4>3, FurtherOn DEF Follows
      <4> QED BY <1>2, <1>9, <4>4 DEF Due, Ahead
    <3> QED BY <2>1, <3>1, <3>2, <3>3 DEF RenewedInv
  <2>3. \A x \in Node : task'[x].op # "fingers"
    BY <1>5, <1>7 DEF HoldOps
  <2>4. \A x \in Node : \A k \in LinksTo(x, "FIND_FINGER")' : k.source \in Circle'
    BY <1>2, <1>8, <1>9
  <2> QED BY <2>2, <2>3, <2>4 DEF RenewedInv
<1> QED BY <1>10, <1>11, <1>12 DEF Threaded, ThreadInv, Found

-----------------------------------------------------------------------------
(* The thread begins with a node that joins.                                *)

LEMMA JoinThread ==
    ASSUME TypeOK, StatusInv, Threaded, Paced, NEW n \in Node, NEW c \in Node, Join(n, c)
    PROVE  Threaded'
<1> DEFINE t == Task("ask_pred", n, n, None)
<1>1. /\ AtRest /\ status[n] = "off" /\ Listens(c) /\ c # n
      /\ status' = [status EXCEPT ![n] = "joining"] /\ UNCHANGED <<finger, answer>>
      /\ Asks(n, inbox, c, "FIND_PRED", t)
  <2>1. /\ status[n] = "off" /\ AtRest /\ status' = [status EXCEPT ![n] = "joining"]
        /\ UNCHANGED <<pred, finger, answer>> /\ Asks(n, inbox, c, "FIND_PRED", t)
    BY DEF Join
  <2>2. Listens(c)
    BY DEF Join
  <2>3. c # n
    BY <2>1, <2>2 DEF Listens
  <2> QED BY <2>1, <2>2, <2>3
<1>2. t \in Tasks /\ t.op = "ask_pred"
  <2>1. n \in Points
    BY NodesOnCircle
  <2> QED BY <2>1, NewLookup
<1>3. PICK r \in Requests : r.type \in Routine /\ inbox' = [inbox EXCEPT ![c] = Append(@, r)]
  <2> DEFINE r == Request("FIND_PRED", n, n, n)
  <2>1. r \in Requests /\ r.type \in Routine
    BY NodesOnCircle, RequestType DEF Request, Questions, Routine
  <2>2. inbox' = [inbox EXCEPT ![c] = Append(@, r)]
    BY <1>1 DEF Asks, Task
  <2> HIDE DEF r
  <2> QED BY <2>1, <2>2
<1>4. Asks(n, inbox, c, "FIND_PRED", t)
  BY <1>1
<1> HIDE DEF t
<1>5. /\ task'[n].op = "ask_pred" /\ task'[n].asks = c
      /\ \A x \in Node \ {n} : task'[x] = task[x]
  BY <1>2, <1>4, AsksTask
<1>6. \A x \in Node : /\ task[x].op = "idle" /\ \A type : LinksTo(x, type) = {}
  <2>1. \A x \in Node : Box(x) = {}
    BY <1>1 DEF AtRest, Box, Elems
  <2>2. \A x \in Node : task[x].op = "idle"
    BY <1>1, Ops DEF AtRest
  <2> QED BY <2>1, <2>2 DEF LinksTo
<1>7. status'[n] = "joining" /\ \A x \in Node \ {n} : status'[x] = status[x]
  BY <1>1 DEF TypeOK
<1>8. Circle' = Circle /\ Members' = Members
  <2>1. n \notin Circle /\ n \notin Circle'
    BY <1>1, <1>5 DEF Circle, Asking
  <2>2. \A x \in Node \ {n} : x \in Circle' <=> x \in Circle
    BY <1>5, <1>7 DEF Circle, Asking
  <2> QED BY <1>1, <1>7, <2>1, <2>2 DEF Circle, Members
<1>9. Kept(inbox')
  <2>1. Kept(inbox)
    BY InboxKept DEF Threaded, ThreadInv
  <2> QED BY <1>3, <2>1, KeptPosted
<1>10. /\ ThreadInv' /\ NearerInv' /\ FoundInv'
       /\ \A x \in Node : LinksTo(x, "FIND_FINGER")' = {}
  <2>1. \A x \in Node : /\ task[x].op \notin Serving \cup HoldOps
                        /\ LinksTo(x, "FIND_SUCC") = {} /\ LinksTo(x, "FIND_FINGER") = {}
                        /\ LinksTo(x, "SET_SUCC") = {}
    BY <1>6 DEF Serving, HoldOps
  <2>2. task'[n].op \notin Serving \cup {"fingers"}
    BY <1>5 DEF Serving
  <2>3. task'[n].asks \in Members' \ {n}
    BY <1>1, <1>5, <1>8 DEF Members, Listens
  <2> QED BY <1>5, <1>8, <1>9, <2>1, <2>2, <2>3, ThreadKept
<1>11. RenewedInv'
  <2>1. \A x \in Node, i \in Indices : x \in Circle => finger'[x][i] = finger[x][i]
    BY <1>1
  <2>2. \A x, i : ~Due(x, i)
    BY <1>6, NothingDue
  <2>3. \A x \in Circle', i \in Indices \ {0} : FingerRight(x, i)'
    BY <1>1, <1>8, <2>2, FingerStays DEF Threaded, Found, RenewedInv
  <2>4. \A x \in Node : task'[x].op # "fingers"
    BY <1>5, <1>6
  <2> QED BY <1>10, <2>3, <2>4 DEF RenewedInv
<1> QED BY <1>10, <1>11 DEF Threaded, Found

LEMMA LearnPredThread ==
    ASSUME TypeOK, StatusInv, Core, Threaded, NEW n \in Node, NEW p, LearnPred(n, p), ~Dies(n)
    PROVE  Threaded'
<1> DEFINE t == WithOp(task[n], "ask_succ")
<1>1. /\ task[n].op = "ask_pred" /\ answer[n] = {p} /\ Free(n) /\ Listens(p)
      /\ answer' = [answer EXCEPT ![n] = {}]
      /\ Asks(n, inbox, p, "TELL_SUCC", t) /\ UNCHANGED <<status, finger>>
  BY DEF LearnPred, Gets, Free, WithOp
<1>2. p \in Circle /\ p \in Node /\ n \notin Circle /\ p # n /\ p \in Members
  <2>1. RightAnswer(n, p)
    BY <1>1 DEF Core, AnswerInv, AnswerOf
  <2>2. p \in Circle /\ n \notin Circle
    BY <1>1, <2>1 DEF RightAnswer, Circle, Asking
  <2> QED BY <1>1, <2>2, CircleNodes DEF Members, Listens
<1>3. t \in Tasks /\ t.op = "ask_succ" /\ t.id \in Points /\ t.source \in Node
  <2>1. task[n] \in Tasks /\ task[n].id \in Points /\ task[n].source \in Node
    BY <1>1 DEF TypeOK
  <2> QED BY <2>1, NextLookup DEF Operations
<1>4. PICK r \in Requests : r.type \in Routine /\ inbox' = [inbox EXCEPT ![p] = Append(@, r)]
  <2> DEFINE r == Request("TELL_SUCC", t.id, t.source, n)
  <2>1. r \in Requests /\ r.type \in Routine
    BY <1>3, RequestType DEF Request, Questions, Routine
  <2>2. inbox' = [inbox EXCEPT ![p] = Append(@, r)]
    BY <1>1 DEF Asks
  <2> HIDE DEF r
  <2> QED BY <2>1, <2>2
<1>5. Asks(n, inbox, p, "TELL_SUCC", t)
  BY <1>1
<1> HIDE DEF t
<1>6. /\ task'[n].op = "ask_succ" /\ task'[n].asks = p
      /\ \A x \in Node \ {n} : task'[x] = task[x]
  BY <1>2, <1>3, <1>5, AsksTask
<1>7. /\ \A x \in Node \ {n} : task[x].op \notin HoldOps
      /\ \A x \in Node : /\ task[x].op \notin Serving
                         /\ LinksTo(x, "FIND_SUCC") = {} /\ LinksTo(x, "FIND_FINGER") = {}
      /\ LinksTo(n, "SET_SUCC") = {}
  <2>1. n \in Holders
    BY <1>1 DEF Holders, HoldOps
  <2> QED BY <1>1, <2>1, QuietHolder
<1>8. Circle' = Circle /\ Members' = Members
  <2>1. \A x \in Node : Asking(x)' <=> Asking(x)
    BY <1>1, <1>6 DEF Asking
  <2> QED BY <1>1, <2>1, CircleSame DEF Members
<1>9. Kept(inbox')
  <2>1. Kept(inbox)
    BY InboxKept DEF Threaded, ThreadInv
  <2> QED BY <1>2, <1>4, <2>1, KeptPosted
<1>10. /\ ThreadInv' /\ NearerInv' /\ FoundInv'
       /\ \A x \in Node : LinksTo(x, "FIND_FINGER")' = {}
  <2>1. task'[n].op \notin Serving \cup {"fingers"}
    BY <1>6 DEF Serving
  <2> QED BY <1>2, <1>6, <1>7, <1>8, <1>9, <2>1, ThreadKept
<1>11. RenewedInv'
  <2>1. \A x \in Node : /\ task[x].op \notin {"link_succ", "fingers"}
                        /\ LinksTo(x, "FIND_FINGER") = {}
    BY <1>1, <1>7 DEF HoldOps
  <2>2. \A x, i : ~Due(x, i)
    BY <2>1, NothingDue
  <2>3. \A x \in Circle', i \in Indices \ {0} : FingerRight(x, i)'
    BY <1>1, <1>8, <2>2, FingerStays DEF Threaded, Found, RenewedInv
  <2>4. \A x \in Node : task'[x].op # "fingers"
    BY <1>6, <2>1
  <2> QED BY <1>10, <2>3, <2>4 DEF RenewedInv
<1> QED BY <1>10, <1>11 DEF Threaded, Found

(* The circle gets one node more, and all fingers are due.                  *)
LEMMA LearnSuccThread ==
    ASSUME TypeOK, StatusInv, Core, Threaded, NEW n \in Node, NEW s, LearnSucc(n, s)
    PROVE  Threaded'
<1>1. /\ task[n].op = "ask_succ" /\ Free(n) /\ n \in Holders
      /\ task' = [task EXCEPT ![n] = Doing("link_succ")] /\ UNCHANGED <<status, pred>>
      /\ answer' = [answer EXCEPT ![n] = {}]
  BY DEF LearnSucc, Gets, Free, Holders, HoldOps
<1>2. /\ task'[n].op = "link_succ" /\ task'[n].asks = None
      /\ \A x \in Node \ {n} : task'[x] = task[x]
  BY <1>1, Ops DEF TypeOK
<1>3. /\ \A x \in Node \ {n} : task[x].op \notin HoldOps
      /\ \A x \in Node : /\ task[x].op \notin Serving /\ AskedOf(x) = {}
                         /\ LinksTo(x, "FIND_SUCC") = {} /\ LinksTo(x, "FIND_FINGER") = {}
      /\ LinksTo(n, "SET_SUCC") = {}
  BY <1>1, QuietHolder
<1>4. Members' = Members /\ Circle \subseteq Circle'
  <2>1. \A x \in Node : Asking(x)' => Asking(x)
    BY <1>2 DEF Asking
  <2> QED BY <1>1, <2>1 DEF Members, Circle
<1>5. PICK q \in Circle : q = pred[n] /\ q \in Node /\ q # n
  <2>1. pred[n] \in Circle /\ n \notin Circle
    BY <1>1 DEF Core, AnswerInv, AnswerOf, Leads, Circle, Asking
  <2> QED BY <2>1, CircleNodes
<1>6. task[q].op \in {"idle", "read_client"} /\ Listens(q)
  <2>1. status[n] = "joining"
    BY <1>1, OpStatus DEF JoinOps
  <2>2. status[q] # "joining"
    BY <1>5, <2>1 DEF StatusInv, OneJoins
  <2>3. task[q].op \notin JoinOps \cup Serving \cup HoldOps
    BY <1>3, <1>5, <2>2, OpStatus
  <2>4. task[q].op \in Operations
    BY <1>5 DEF TypeOK, Tasks
  <2> QED BY <1>5, <2>2, <2>3, <2>4 DEF Operations, JoinOps, Serving, HoldOps, Circle, Listens
<1>7. PICK r \in Requests : r.type = "SET_SUCC" /\ Posted(inbox, q, r)
  <2> DEFINE r == Request("SET_SUCC", n, n, n)
  <2>1. r \in Requests /\ r.type = "SET_SUCC"
    BY NodesOnCircle, RequestType DEF Request, Orders
  <2>2. Posted(inbox, q, r)
    BY <1>5, <1>6 DEF LearnSucc, Tells, Posted
  <2> HIDE DEF r
  <2> QED BY <2>1, <2>2
<1>8. /\ \A x \in Node : Orderly(inbox'[x])
      /\ \A x \in Node \ {q} : \A type : LinksTo(x, type)' = LinksTo(x, type)
      /\ \A type \in {"FIND_SUCC", "FIND_FINGER"} : LinksTo(q, type)' = LinksTo(q, type)
  <2>1. /\ inbox[q] \in Seq(Requests) /\ inbox'[q] = Append(inbox[q], r)
        /\ \A x \in Node \ {q} : inbox'[x] = inbox[x]
    BY <1>5, <1>7 DEF Posted, TypeOK
  <2>2. \A x \in Node : Orderly(inbox[x])
    BY DEF Threaded, ThreadInv, OrderInv
  <2>3. \A m \in Elems(inbox[q]) : m.type \notin Handed
    BY <1>3, <1>5 DEF AskedOf, LinksTo, Box, Handed
  <2>4. Orderly(inbox'[q])
    BY <1>5, <1>7, <2>1, <2>2, <2>3, OrderlyAppend
  <2>5. Elems(inbox'[q]) = Elems(inbox[q]) \cup {r}
    BY <2>1, ElemsAppend
  <2>6. \A type \in {"FIND_SUCC", "FIND_FINGER"} : LinksTo(q, type)' = LinksTo(q, type)
    BY <1>7, <2>5 DEF LinksTo, Box
  <2>7. \A x \in Node \ {q} : \A type : LinksTo(x, type)' = LinksTo(x, type)
    BY <2>1 DEF LinksTo, Box
  <2> QED BY <2>1, <2>2, <2>4, <2>6, <2>7
<1>9. \A x \in Node : LinksTo(x, "FIND_SUCC")' = {} /\ LinksTo(x, "FIND_FINGER")' = {}
  BY <1>3, <1>5, <1>8
<1>10. BehalfInv' /\ Ranked' /\ AskedUp' /\ NearerInv' /\ FoundInv'
  <2>1. task'[n].op \notin Serving \cup {"fingers"}
    BY <1>2 DEF Serving
  <2> QED BY <1>2, <1>3, <1>4, <1>9, <2>1, QuietStep
<1>11. OneThread' /\ OrderInv'
  <2>1. Holders' \subseteq {n} /\ Awaiting' = {}
    BY <1>2, <1>3, <1>9 DEF Holders, Awaiting
  <2>2. OneThread'
    BY <2>1 DEF OneThread
  <2>3. \A x \in Node : LinksTo(x, "SET_SUCC")' # {} => task'[x].op \in {"idle", "read_client"}
    BY <1>2, <1>3, <1>5, <1>6, <1>8 DEF Threaded, ThreadInv, OrderInv
  <2> QED BY <1>8, <2>2, <2>3 DEF OrderInv
<1>12. RenewedInv'
  <2>1. \A x, i : Due(x, i)'
    BY <1>2 DEF Due
  <2>2. \A x \in Node : task'[x].op # "fingers"
    BY <1>2, <1>3 DEF HoldOps
  <2> QED BY <1>9, <2>1, <2>2 DEF RenewedInv
<1> QED BY <1>10, <1>11, <1>12 DEF Threaded, ThreadInv, Found

LEMMA LinkSuccThread ==
    ASSUME TypeOK, StatusInv, Core, Threaded, NEW n \in Node, LinkSucc(n), ~Dies(n)
    PROVE  Threaded'
<1>1. /\ task[n].op = "link_succ" /\ task' = [task EXCEPT ![n] = Refresh(n)]
      /\ UNCHANGED <<ring, answer>> /\ n \in Holders
  BY DEF LinkSucc, Holders, HoldOps
<1>2. PICK d \in Node, r \in Requests :
         r.type \in Routine /\ inbox' = [inbox EXCEPT ![d] = Append(@, r)]
  <2> DEFINE r == Request("SET_PRED", n, n, n)
  <2>1. r \in Requests /\ r.type \in Routine
    BY NodesOnCircle, RequestType DEF Request, Orders, Routine
  <2>2. inbox' = [inbox EXCEPT ![Succ(n)] = Append(@, r)]
    BY DEF LinkSucc, Tells
  <2> HIDE DEF r
  <2> QED BY <2>1, <2>2, HopNode
<1>3. n \in Circle /\ answer[n] = {} /\ Free(n)
  BY <1>1, OnCircle, RestsFree DEF Rests, Resting
<1>4. /\ task'[n].op = "fingers" /\ task'[n].asks = None
      /\ task'[n].source = n /\ task'[n].next = 1
      /\ \A x \in Node \ {n} : task'[x] = task[x]
  BY <1>1 DEF TypeOK, Refresh, Task
<1>5. /\ \A x \in Node \ {n} : task[x].op \notin HoldOps
      /\ \A x \in Node : /\ task[x].op \notin Serving
                         /\ LinksTo(x, "FIND_SUCC") = {} /\ LinksTo(x, "FIND_FINGER") = {}
      /\ LinksTo(n, "SET_SUCC") = {}
  BY <1>1, <1>3, QuietHolder
<1>6. Circle' = Circle /\ Members' = Members
  <2>1. \A x \in Node : Asking(x)' <=> Asking(x)
    BY <1>1, <1>4 DEF Asking
  <2> QED BY <1>1, <2>1, CircleSame DEF Members, ring
<1>7. Kept(inbox')
  <2>1. Kept(inbox)
    BY InboxKept DEF Threaded, ThreadInv
  <2> QED BY <1>2, <2>1, KeptPosted
<1>8. /\ ThreadInv' /\ NearerInv' /\ FoundInv'
      /\ \A x \in Node : LinksTo(x, "FIND_FINGER")' = {}
  <2>1. task'[n].op \notin Serving
    BY <1>4 DEF Serving
  <2> QED BY <1>1, <1>3, <1>4, <1>5, <1>6, <1>7, <2>1, ThreadKept
<1>9. RenewedInv'
  <2>1. ASSUME NEW x \in Circle', NEW i \in Indices \ {0} PROVE Due(x, i)'
    <3>1. x \in Nat /\ n \in Nat /\ i >= 1
      BY <1>6, CircleNodes, BitsAssumption DEF Indices
    <3>2. IF n = x THEN i >= task'[n].next ELSE Between(n, x, task'[n].source)
      BY <1>4, <3>1 DEF Between
    <3> QED BY <1>4, <3>2 DEF Due, Between
  <2>2. \A x \in Node : task'[x].op = "fingers" => task'[x].source \in Circle'
    BY <1>3, <1>4, <1>5, <1>6 DEF HoldOps
  <2> QED BY <1>8, <2>1, <2>2 DEF RenewedInv
<1> QED BY <1>8, <1>9 DEF Threaded, Found

-----------------------------------------------------------------------------
(* All steps together.                                                      *)

LEMMA ThreadStep ==
    ASSUME TypeOK, StatusInv, Core, Threaded, Paced, [Next]_vars, Unbroken'
    PROVE  Threaded'
<1>1. \A n \in Node : ~Dies(n)
  BY NoDeath, UnbrokenIntact
<1>2. CASE UNCHANGED vars
  BY <1>2, StutterThread
<1>3. ASSUME NEW n \in Node, Serve(n) PROVE Threaded'
  BY <1>1, <1>3, TellThread, LinksThread, FindSuccThread, FindPredThread, FindFingerThread,
     PassKeyThread DEF Serve
<1>4. ASSUME NEW n \in Node, UpdateFingers(n) PROVE Threaded'
  BY <1>1, <1>4, FingerLocalThread, FingerAskThread, FingerFoundThread, PassRefreshOnThread
     DEF UpdateFingers
<1>5. ASSUME NEW n \in Node, Lookup(n) PROVE Threaded'
  BY <1>1, <1>5, SuccFoundThread, SuccOfFoundThread, PredFoundThread DEF Lookup
<1>6. ASSUME NEW n \in Node, MakeContact(n) PROVE Threaded'
  BY <1>1, <1>6, LearnPredThread, LearnSuccThread, LinkSuccThread, ListenThread DEF MakeContact
<1>7. ASSUME NEW n \in Node, EmptyRead(n) PROVE Threaded'
  BY <1>7, EmptyReadThread
<1>8. ASSUME NEW n \in Node, NEW c \in Node, Join(n, c) PROVE Threaded'
  BY <1>8, JoinThread
<1>9. ASSUME NEW n \in Node, NEW k \in Key, Connect(n, k) \/ SendAgain(n, k) PROVE Threaded'
  BY <1>9, ConnectThread, ClientThread
<1>10. ASSUME NEW n \in Node, CloseClient(n) PROVE Threaded'
  BY <1>10, ClientThread
<1> QED BY <1>2, <1>3, <1>4, <1>5, <1>6, <1>7, <1>8, <1>9, <1>10 DEF Next, Runs

LEMMA UnbrokenBefore ==
    ASSUME TypeOK, StatusInv, [Next]_vars, Unbroken'
    PROVE  Unbroken
<1>1. \A n \in Node : ~Dies(n)
  BY NoDeath, UnbrokenIntact
<1>2. lost \subseteq lost'
  BY <1>1, LossesKept
<1>3. NobodyDead
  BY <1>1, StatusKept DEF Unbroken, NobodyDead
<1> QED BY <1>2, <1>3 DEF Unbroken

LEMMA RefreshStep ==
    Paced /\ TypeOK /\ LinkInv /\ RefreshInv /\ [Next]_vars => RefreshInv'
<1> SUFFICES ASSUME Paced, TypeOK, LinkInv, RefreshInv, [Next]_vars, Unbroken' PROVE Threaded'
  BY DEF RefreshInv
<1>1. Unbroken
  BY UnbrokenBefore DEF LinkInv
<1>2. StatusInv /\ Core /\ Threaded
  BY <1>1, UnbrokenIntact DEF LinkInv, RefreshInv
<1> QED BY <1>2, ThreadStep

LEMMA RefreshInit == Init => RefreshInv
<1> SUFFICES ASSUME Init PROVE Threaded
  BY DEF RefreshInv
<1>1. PICK first \in Node : status = [n \in Node |-> IF n = first THEN "up" ELSE "off"]
  BY NodeAssumption DEF Init
<1>2. /\ \A n \in Node : task[n].op = "idle" /\ task[n].asks = None
      /\ \A n \in Node, i \in Indices : finger[n][i] = n
  BY Ops DEF Init
<1>3. \A n \in Node : inbox[n] = <<>> /\ \A type : LinksTo(n, type) = {}
  BY DEF Init, Box, Elems, LinksTo
<1>4. Circle = {first}
  BY <1>1, <1>2 DEF Circle, Asking
<1>5. \A n \in Node : task[n].op \notin HoldOps \cup Serving \cup Asks4Succ
  BY <1>2 DEF HoldOps, Serving, Asks4Succ
<1>6. ThreadInv
  <2>1. OneThread
    BY <1>3, <1>5 DEF OneThread, Holders, Awaiting
  <2>2. OrderInv
    BY <1>3 DEF OrderInv, Orderly
  <2>3. BehalfInv
    BY <1>3, <1>5 DEF BehalfInv
  <2>4. [n \in Node |-> 0] \in [Node -> Nat]
    OBVIOUS
  <2>5. Ranked
    BY <1>5, <2>4 DEF Ranked
  <2>6. AskedUp
    BY <1>2 DEF AskedUp
  <2> QED BY <2>1, <2>2, <2>3, <2>5, <2>6 DEF ThreadInv
<1>7. NearerInv /\ FoundInv
  BY <1>2, <1>3, <1>5 DEF NearerInv, NearerAt, FoundInv, ForRefresh
<1>8. RenewedInv
  <2>1. ASSUME NEW i \in Indices \ {0} PROVE FingerRight(first, i)
    <3>1. finger[first][i] = first
      BY <1>2
    <3> QED BY <1>4, <3>1, NotBetweenItself DEF FingerRight, Adjacent, Between
  <2> QED BY <1>2, <1>3, <1>4, <2>1 DEF RenewedInv
<1> QED BY <1>6, <1>7, <1>8 DEF Threaded, Found

-----------------------------------------------------------------------------
(* When nodes are started one after the other, one thread of control goes   *)
(* through the ring: at any time one node joins or renews its fingers, or   *)
(* one request to renew them is on its way; all lookups are for that node,  *)
(* they never run in a circle, each asks a node that is nearer to a point   *)
(* beyond the first node; and the fingers that are not due are right.  It   *)
(* holds as long as nobody dies and no request is lost.                     *)
THEOREM RefreshesRight == Paced => (Spec => []RefreshInv)
<1> SUFFICES ASSUME Paced PROVE Spec => []RefreshInv
  OBVIOUS
<1>1. Init => RefreshInv
  BY RefreshInit
<1>2. TypeOK /\ LinkInv /\ RefreshInv /\ [Next]_vars => RefreshInv'
  BY RefreshStep
<1>3. Spec => []LinkInv
  BY LinksRight
<1> QED BY <1>1, <1>2, <1>3, TypeCorrect, PTL DEF Spec

-----------------------------------------------------------------------------
(* The fingers of a ring at rest.                                           *)

LEMMA FirstMember ==
    ASSUME Members # {}
    PROVE  /\ Members \subseteq Points /\ Members \subseteq Nat
           /\ Smallest \in Members /\ \A x \in Members : Smallest <= x
<1>1. Members \subseteq Points /\ Members \subseteq Nat
  BY NodesOnCircle DEF Members
<1>2. \E m \in Members : \A x \in Members : m <= x
  BY <1>1, LeastNatural
<1> QED BY <1>1, <1>2 DEF Smallest

LEMMA ArcIsClosest ==
    ASSUME NEW p \in Points, NEW s \in Points, NEW x \in Points, p # s, p # x, ~Between(p, x, s)
    PROVE  Distance(p, s) <= Distance(p, x)
<1>1. /\ Distance(p, s) = IF p <= s THEN s - p ELSE s - p + Space
      /\ Distance(p, x) = IF p <= x THEN x - p ELSE x - p + Space
  BY DistanceOnCircle
<1> QED BY <1>1, SpaceType DEF Points, Between

LEMMA RestedFingers == TypeOK /\ LinkInv /\ RefreshInv => FingersRight
<1> SUFFICES ASSUME TypeOK, LinkInv, RefreshInv, AtRest, NobodyDead, lost = {},
                    NEW n \in Members, NEW i \in Indices \ {0},
                    Start(n, i) > Smallest, Start(n, i) \notin Members
             PROVE  finger[n][i] = Owner(Start(n, i))
  BY DEF FingersRight
<1>1. Threaded /\ StatusInv /\ Core
  BY UnbrokenIntact DEF LinkInv, RefreshInv, Unbroken
<1>2. Circle = Members
  BY <1>1, CircleMembers DEF AtRest
<1>3. \A x \in Node : /\ task[x].op \notin {"link_succ", "fingers"}
                      /\ LinksTo(x, "FIND_FINGER") = {}
  <2>1. \A x \in Node : LinksTo(x, "FIND_FINGER") = {}
    BY DEF AtRest, LinksTo, Box, Elems
  <2> QED BY <2>1, Ops DEF AtRest
<1>4. FingerRight(n, i)
  BY <1>1, <1>2, <1>3, NothingDue DEF Threaded, Found, RenewedInv
<1>5. /\ Members \subseteq Points /\ Members \subseteq Nat /\ Members # {}
      /\ Smallest \in Members
  BY FirstMember
<1>6. Start(n, i) \in Points
  <2>1. n \in Node /\ i \in 1 .. Bits
    BY BitsAssumption DEF Members, Indices
  <2> QED BY <2>1, StartPoint
<1> DEFINE p == Start(n, i)
           v == finger[n][i]
<1>7. v \in Members /\ Adjacent(p, v)
  <2>1. Clear(p)
    BY <1>2, <1>5 DEF Clear, Beyond
  <2>2. v \in Circle
    BY <1>1, <1>2 DEF Core, RingInv
  <2> QED BY <1>2, <1>4, <2>1, <2>2 DEF FingerRight
<1> HIDE DEF p, v
<1>8. p \notin Members /\ p \in Points
  BY <1>6 DEF p
<1>9. \A x \in Members : Distance(p, v) <= Distance(p, x)
  BY <1>2, <1>5, <1>7, <1>8, ArcIsClosest DEF Adjacent
<1>10. v = Owner(p)
  BY <1>5, <1>7, <1>8, <1>9, OwnerIsClosest
<1> QED BY <1>10 DEF p, v

-----------------------------------------------------------------------------
(* Nodes that wait for each other.                                          *)

LEMMA DeathStep == TypeOK /\ StatusInv /\ DeathSeen /\ [Next]_vars => DeathSeen'
<1> SUFFICES ASSUME TypeOK, StatusInv, DeathSeen, [Next]_vars PROVE DeathSeen'
  OBVIOUS
<1>1. CASE \E n \in Node : Dies(n)
  BY <1>1 DEF Dies, DeathSeen
<1>2. CASE \A n \in Node : ~Dies(n)
  <2>1. refused => refused'
    <3>1. CASE UNCHANGED vars
      BY <3>1 DEF vars, history
    <3>2. ASSUME NEW n \in Node, Serve(n) PROVE refused => refused'
      BY <1>2, <3>2 DEF Serve, TellSucc, TellPred, SetSucc, SetPred, FindSucc, FindPred,
         PredOf, FindFinger, ExecuteKey, ForwardKey, DropKey, history
    <3>3. ASSUME NEW n \in Node, UpdateFingers(n) \/ Lookup(n) \/ MakeContact(n)
          PROVE  refused => refused'
      BY <1>2, <3>3 DEF UpdateFingers, FingerLocal, FingerAsk, FingerFound, PassRefreshOn,
         Lookup, SuccFound, SuccOfFound, PredOf, PredFound, MakeContact, LearnPred, LearnSucc,
         LinkSucc, Listen, history
    <3>4. ASSUME NEW n \in Node, NEW x,
                 EmptyRead(n) \/ CloseClient(n) \/ Join(n, x) \/ Connect(n, x) \/ SendAgain(n, x)
          PROVE  refused => refused'
      BY <3>4 DEF EmptyRead, CloseClient, Join, Connect, SendAgain, history
    <3> QED BY <3>1, <3>2, <3>3, <3>4 DEF Next, Runs
  <2> QED BY <1>2, <2>1, StatusKept DEF DeathSeen
<1> QED BY <1>1, <1>2

(* While the holder of the thread is told its predecessor, nobody looks up  *)
(* anything.                                                                *)
LEMMA LastQuestion ==
    ASSUME TypeOK, TokenInv, ThreadInv, NEW n \in Node, task[n].op = "tell_pred"
    PROVE  \A x \in Node \ {n} : task[x].op \notin Serving \cup {"fingers"}
<1> DEFINE r == task[n].from
<1>1. r \in Node /\ task[r].op = "ask_pred" /\ r \in Holders /\ Owes(n, r) /\ task[r].asks = n
  BY DEF TokenInv, ServingInv, Serving, Owes, Holders, HoldOps
<1> HIDE DEF r
<1>2. \A x \in Holders : x = r
  BY <1>1 DEF ThreadInv, OneThread
<1>3. \A x \in Node \ {n} : task[x].op \notin {"find_pred", "tell_pred", "fingers"}
  <2>1. \A x \in Node : task[x].op # "fingers"
    BY <1>1, <1>2 DEF Holders, HoldOps
  <2>2. ASSUME NEW x \in Node, task[x].op \in {"find_pred", "tell_pred"} PROVE x = n
    <3>1. task[x].from \in Node /\ task[task[x].from].op = "ask_pred" /\ Owes(x, task[x].from)
      BY <2>2 DEF TokenInv, ServingInv, Serving, Owes
    <3>2. task[x].from = r
      BY <1>2, <3>1 DEF Holders, HoldOps
    <3> QED BY <1>1, <3>1, <3>2 DEF TokenInv
  <2> QED BY <2>1, <2>2
<1>4. \A x \in Node : task[x].op # "find_succ"
  <2> DEFINE S == {x \in Node : task[x].op = "find_succ"}
  <2> SUFFICES ASSUME S # {} PROVE FALSE
    OBVIOUS
  <2>1. PICK rank \in [Node -> Nat] :
           \A x \in Node : task[x].op \in Serving => rank[task[x].from] < rank[x]
    BY DEF ThreadInv, Ranked
  <2>2. PICK x \in S : \A y \in S : rank[x] <= rank[y]
    <3> DEFINE T == {rank[y] : y \in S}
    <3>1. T \subseteq Nat /\ T # {}
      BY <2>1
    <3>2. PICK k \in T : \A j \in T : k <= j
      BY <3>1, LeastNatural
    <3>3. PICK y \in S : k = rank[y]
      BY <3>2
    <3> QED BY <3>2, <3>3
  <2> DEFINE f == task[x].from
  <2>3. x \in Node /\ task[x].op = "find_succ" /\ f \in Node
        /\ LooksUpFor(f, task[x].id, task[x].source)
    BY <2>2 DEF TokenInv, ServingInv, Serving
  <2>4. rank[f] < rank[x]
    BY <2>1, <2>3 DEF Serving
  <2>5. task[f].op # "find_succ"
    BY <2>1, <2>2, <2>3, <2>4
  <2>6. task[f].op \in {"find_pred", "fingers"}
    BY <2>3, <2>5 DEF LooksUpFor
  <2>7. f = n
    BY <1>3, <2>3, <2>6
  <2> QED BY <2>6, <2>7
<1> QED BY <1>3, <1>4 DEF Serving

LEMMA NearerByArc ==
    ASSUME NEW n \in Points, NEW a \in Points, NEW p \in Points, n # p, Between(n, a, p)
    PROVE  Distance(n, p) \in Nat /\ Distance(a, p) \in Nat /\ Distance(a, p) < Distance(n, p)
<1>1. /\ Distance(n, p) = IF n <= p THEN p - n ELSE p - n + Space
      /\ Distance(a, p) = IF a <= p THEN p - a ELSE p - a + Space
  BY DistanceOnCircle
<1> QED BY <1>1, SpaceType DEF Points, Between

(* The members among those who wait look up one and the same point, each    *)
(* asks another, and one that is nearer to it.                              *)
LEMMA NoJam == TypeOK /\ LinkInv /\ RefreshInv /\ DeathSeen => JamsOnlyBelowSmallest
<1> SUFFICES ASSUME TypeOK, LinkInv, RefreshInv, DeathSeen, ~refused, lost = {}, NEW S \in Jams,
                    \A n \in S : ~(AsksFor(n) <= Smallest \/ AsksFor(n) \in Members)
             PROVE  FALSE
  BY DEF JamsOnlyBelowSmallest
<1>1. Threaded /\ StatusInv /\ Core
  <2>1. Unbroken
    BY DEF DeathSeen, Unbroken, NobodyDead
  <2> QED BY <2>1, UnbrokenIntact DEF LinkInv, RefreshInv
<1> DEFINE M == S \cap Members
<1>2. /\ S \subseteq Node /\ S # {}
      /\ \A n \in S : task[n].asks # None /\ task[n].asks \in M /\ task[n].asks # n
  BY <1>1 DEF Jams, Waiting, AskedUp, Threaded, ThreadInv
<1>3. M # {}
  BY <1>2
<1>4. \A n \in M : task[n].op \in Asks4Succ \cup {"tell_pred"}
  <2> SUFFICES ASSUME NEW n \in M PROVE task[n].op \in Asks4Succ \cup {"tell_pred"}
    OBVIOUS
  <2>1. n \in Node /\ task[n].asks # None /\ status[n] = "up" /\ task[n].op \in Operations
    BY <1>2 DEF Members, TypeOK, Tasks
  <2>2. ~Rests(n)
    BY <1>1, <2>1 DEF Core, TokenInv
  <2>3. task[n].op \notin JoinOps
    BY <1>1, <2>1, OpStatus
  <2> QED BY <2>1, <2>2, <2>3 DEF Rests, Resting, JoinOps, Operations, Asks4Succ
<1>5. \A n \in M : task[n].op \in Asks4Succ
  <2> SUFFICES ASSUME NEW n \in M, task[n].op = "tell_pred" PROVE FALSE
    BY <1>4
  <2>1. task[n].asks \in M \ {n} /\ task[n].asks \in Node
    BY <1>2
  <2>2. task[task[n].asks].op \in Serving \cup {"fingers"}
    BY <1>4, <2>1 DEF Asks4Succ, Serving
  <2> QED BY <1>1, <1>2, <2>1, <2>2, LastQuestion DEF Core, Threaded
<1>6. PICK p : \A n \in M : AsksFor(n) = p
  <2>1. \A n \in M : \E h \in Holders : OnBehalf(AsksFor(n), h)
    <3> SUFFICES ASSUME NEW n \in M PROVE \E h \in Holders : OnBehalf(AsksFor(n), h)
      OBVIOUS
    <3>1. CASE task[n].op = "fingers"
      BY <1>2, <3>1 DEF AsksFor, OnBehalf, Holders, HoldOps
    <3>2. CASE task[n].op \in Serving
      <4>1. OnBehalf(task[n].id, task[n].source)
        BY <1>1, <1>2, <3>2 DEF Threaded, ThreadInv, BehalfInv
      <4>2. AsksFor(n) = task[n].id
        BY <3>2 DEF AsksFor, Serving
      <4> QED BY <4>1, <4>2 DEF OnBehalf, Holders, HoldOps
    <3> QED BY <1>5, <3>1, <3>2 DEF Asks4Succ, Serving
  <2>2. PICK h \in Holders : TRUE
    BY <1>3, <2>1
  <2>3. \A n \in M : OnBehalf(AsksFor(n), h)
    BY <1>1, <2>1, <2>2 DEF Threaded, ThreadInv, OneThread
  <2> QED BY <2>3 DEF OnBehalf
<1>7. /\ Members \subseteq Points /\ Members \subseteq Nat /\ Smallest \in Members
  BY <1>3, FirstMember
<1>8. p \in Points /\ p \notin Members /\ Beyond(p)
  <2>1. PICK n \in M : TRUE
    BY <1>3
  <2>2. p = AsksFor(n) /\ ~(p <= Smallest) /\ p \notin Members
    BY <1>6, <2>1
  <2>3. p \in Points \cup {None}
    <3>1. n \in Node /\ task[n].id \in Points \cup {None} /\ task[n].next \in 1 .. Bits
      BY <1>2 DEF TypeOK, Tasks
    <3> QED BY <2>2, <3>1, StartPoint DEF AsksFor
  <2>4. p \in Points /\ Smallest < p
    BY <1>7, <2>2, <2>3, NodesOnCircle DEF None
  <2> QED BY <1>1, <1>7, <2>2, <2>4, MembersOnCircle DEF Beyond
<1>9. \A n \in M : Between(n, task[n].asks, p)
  BY <1>1, <1>2, <1>5, <1>6, <1>8 DEF Threaded, Found, NearerInv, NearerAt, Reachable
<1> HIDE DEF M
<1>10. M \subseteq Points /\ p \notin M
  BY <1>7, <1>8 DEF M
<1> DEFINE D == {Distance(n, p) : n \in M}
<1>11. D \subseteq Nat /\ D # {}
  BY <1>2, <1>3, <1>8, <1>9, <1>10, NearerByArc DEF M
<1>12. PICK d \in D : \A e \in D : d <= e
  BY <1>11, LeastNatural
<1>13. PICK n \in M : d = Distance(n, p)
  BY <1>12
<1>14. task[n].asks \in M
  BY <1>2, <1>13 DEF M
<1>15. Distance(task[n].asks, p) < Distance(n, p)
  BY <1>8, <1>9, <1>10, <1>13, <1>14, NearerByArc
<1> QED BY <1>11, <1>12, <1>13, <1>14, <1>15

-----------------------------------------------------------------------------
(* "One refresh per join is enough": at rest each finger is the owner of    *)
(* the point it stands for, for every set of nodes that are started one     *)
(* after the other, although a refresh looks its points up in the very      *)
(* tables that it renews; but for the points up to the smallest member, and *)
(* those where a member sits.                                               *)
THEOREM FingersRightHolds == Paced => (Spec => []FingersRight)
<1> SUFFICES ASSUME Paced PROVE Spec => []FingersRight
  OBVIOUS
<1>1. TypeOK /\ LinkInv /\ RefreshInv => FingersRight
  BY RestedFingers
<1>2. (Spec => []LinkInv) /\ (Spec => []RefreshInv)
  BY LinksRight, RefreshesRight
<1> QED BY <1>1, <1>2, TypeCorrect, PTL

(* Nodes wait for each other for ever only in a lookup of a point up to the *)
(* smallest member, or of one where a member sits: all other lookups come   *)
(* nearer to their point with each node they ask.                           *)
THEOREM JamsHold == Spec => []JamsOnlyBelowSmallest
<1>1. CASE Paced
  <2>1. Init => DeathSeen
    BY DEF Init, DeathSeen
  <2>2. TypeOK /\ LinkInv /\ DeathSeen /\ [Next]_vars => DeathSeen'
    BY DeathStep DEF LinkInv
  <2>3. TypeOK /\ LinkInv /\ RefreshInv /\ DeathSeen => JamsOnlyBelowSmallest
    BY NoJam
  <2>4. (Spec => []LinkInv) /\ (Spec => []RefreshInv)
    BY <1>1, LinksRight, RefreshesRight
  <2> QED BY <2>1, <2>2, <2>3, <2>4, TypeCorrect, PTL DEF Spec
<1>2. CASE ~Paced
  <2>1. JamsOnlyBelowSmallest
    BY <1>2 DEF JamsOnlyBelowSmallest
  <2> QED BY <2>1, PTL
<1> QED BY <1>1, <1>2
=============================================================================
