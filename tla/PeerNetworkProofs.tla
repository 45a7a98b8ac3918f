------------------------ MODULE PeerNetworkProofs ------------------------
(***************************************************************************)
(* Proofs about PeerNetwork for every number of peers and seeds: type      *)
(* correctness, that every neighbor is watched, and that of two peers that *)
(* have their lists one was told about the other.                          *)
(***************************************************************************)
EXTENDS PeerNetwork, FiniteSetTheorems, SequenceTheorems, WellFoundedInduction, TLAPS

-----------------------------------------------------------------------------
(* Helpers.                                                                *)

LEMMA LeastIsThere ==
    ASSUME NEW S, S \subseteq Nat, S # {}
    PROVE  Min(S) \in S
<1>1. PICK m \in S : \A k \in S : <<k, m>> \notin OpToRel(<, Nat)
  BY NatLessThanWellFounded, WFMin
<1>2. \A k \in S : ~(k < m)
  BY <1>1 DEF OpToRel
<1>3. \A k \in S : m <= k
  BY <1>2
<1> QED BY <1>3 DEF Min

LEMMA EnoughType == Enough \in Nat /\ Cardinality(Seed) \in Nat /\ 2 * Enough > Cardinality(Seed)
<1>1. Cardinality(Seed) \in Nat
  BY SeedAssumption, FS_CardinalityType
<1> QED BY <1>1 DEF Enough

LEMMA EventTypes ==
    ASSUME NEW p \in Peer
    PROVE  ListRequest(p) \in Event /\ DeadNode(p) \in Event /\ Closed(p) \in Event
BY DEF ListRequest, DeadNode, Closed, Event

(* A part of a sequence, and what its places hold. *)
LEMMA Slice ==
    ASSUME NEW T, NEW s \in Seq(T), NEW a \in 1 .. Len(s) + 1, NEW b \in 0 .. Len(s), a <= b + 1
    PROVE  /\ SubSeq(s, a, b) \in Seq(T)
           /\ Len(SubSeq(s, a, b)) = b + 1 - a
           /\ \A i \in 1 .. b + 1 - a : SubSeq(s, a, b)[i] = s[a + i - 1]
<1>1. \A i \in a .. b : s[i] \in T
  OBVIOUS
<1> QED BY <1>1, SubSeqProperties, SMTT(20)

LEMMA NewThreadType == NoThread \in Thread /\ NewThread \in Thread
<1>1. NoThread \in Thread
  <2>1. 0 \in 0 .. Misses /\ {} \in SUBSET Seed
    BY NetworkAssumption
  <2> QED BY <2>1 DEF NoThread, Thread, Records, Unread
<1>2. NewThread \in Thread
  BY <1>1 DEF NewThread, NoThread, Thread, Records, Unread
<1> QED BY <1>1, <1>2

LEMMA ThreadTypes ==
    ASSUME NEW t \in Thread
    PROVE  /\ t.dead < Misses => Missed(t) \in Thread
           /\ t.dead < Misses => Asked(t) \in Thread
           /\ Answered(t) \in Thread
           /\ Cut(t) \in Thread
<1> USE NetworkAssumption DEF Thread, Records, Unread
<1>1. ASSUME t.dead < Misses PROVE Missed(t) \in Thread
  <2>1. t.dead + 1 \in 0 .. Misses
    BY <1>1
  <2> QED BY <2>1, Zenon DEF Missed
<1>2. ASSUME t.dead < Misses PROVE Asked(t) \in Thread
  BY <1>2 DEF Asked, Aged
<1>3. Answered(t) \in Thread
  BY DEF Answered
<1>4. Cut(t) \in Thread
  BY DEF Cut
<1> QED BY <1>1, <1>2, <1>3, <1>4

JoinTypeOK ==
  /\ phase \in [Peer -> {"down", "queries", "waits", "closes", "links", "serves"}]
  /\ seeds \in [Peer -> SUBSET Seed] /\ unasked \in [Peer -> SUBSET Seed]
  /\ asking \in [Peer -> Seed \cup {Nobody}]
  /\ found \in [Peer -> [Peer -> Nat]] /\ links \in [Peer -> [Peer -> Nat]]

WatchTypeOK ==
  /\ neighbors \in [Peer -> SUBSET Peer]
  /\ thread \in [Peer -> [Peer -> [Slots -> Thread]]]

HistoryTypeOK ==
  /\ buried \in SUBSET Peer
  /\ faults \in 0 .. MaxFaults

LEMMA TypeOKParts ==
    /\ TypeOK <=> SeedTypeOK /\ JoinTypeOK /\ WatchTypeOK /\ HistoryTypeOK
    /\ TypeOK' <=> SeedTypeOK' /\ JoinTypeOK' /\ WatchTypeOK' /\ HistoryTypeOK'
BY DEF TypeOK, JoinTypeOK, WatchTypeOK, HistoryTypeOK

-----------------------------------------------------------------------------
(* Types: the seeds.                                                       *)

LEMMA HeadTailTypes ==
    ASSUME NEW T, NEW s \in Seq(T), s # <<>>
    PROVE  Head(s) \in T /\ Tail(s) \in Seq(T)
OBVIOUS

LEMMA SeedStepTypes ==
    ASSUME TypeOK, NEW s \in Seed
    PROVE  /\ EpollWait(s) => SeedTypeOK'
           /\ HandleClosed(s) => SeedTypeOK'
           /\ HandlePeerList(s) => SeedTypeOK' /\ Head(batch[s]) \in Event
           /\ HandleDeadNode(s) => SeedTypeOK' /\ Head(batch[s]) \in Event
           /\ \A p \in Peer : Arrives(s, ListRequest(p)) => SeedTypeOK'
           /\ \A p \in Peer : Arrives(s, DeadNode(p)) => SeedTypeOK'
           /\ \A p \in Peer : HangsUp(s, p) => SeedTypeOK'
<1>0. SeedTypeOK
  BY DEF TypeOK
<1>1. /\ backlog[s] \in Seq(Event) /\ ready[s] \in Seq(Event) /\ batch[s] \in Seq(Event)
  BY <1>0 DEF SeedTypeOK
<1>2. EpollWait(s) => SeedTypeOK'
  <2>1. ASSUME NEW n \in {0, 1}, n <= Len(backlog[s])
        PROVE  /\ SubSeq(backlog[s], 1, n) \in Seq(Event)
               /\ SubSeq(backlog[s], n + 1, Len(backlog[s])) \in Seq(Event)
               /\ ready[s] \o SubSeq(backlog[s], 1, n) \in Seq(Event)
    <3>1. SubSeq(backlog[s], 1, n) \in Seq(Event)
      BY <1>1, <2>1, Slice
    <3>2. SubSeq(backlog[s], n + 1, Len(backlog[s])) \in Seq(Event)
      BY <1>1, <2>1, Slice
    <3> QED BY <1>1, <3>1, <3>2
  <2> QED BY <1>0, <2>1 DEF EpollWait, SeedTypeOK
<1>3. HandleClosed(s) => SeedTypeOK'
  <2>1. SUFFICES ASSUME batch[s] # <<>>
                 PROVE  AfterClosed(batch[s]) \in Seq(Event)
    BY <1>0 DEF HandleClosed, Handles, SeedTypeOK
  <2>3. CASE Len(batch[s]) = 1
    BY <1>1, <2>3, SubSeqEmpty DEF AfterClosed
  <2>4. CASE Len(batch[s]) > 1
    BY <1>1, <2>4, Slice DEF AfterClosed
  <2>5. Len(batch[s]) = 1 \/ Len(batch[s]) > 1
    <3>1. Len(batch[s]) \in Nat
      BY <1>1
    <3>2. Len(batch[s]) # 0
      BY <1>1, <2>1
    <3>3. \A k \in Nat : k # 0 => k = 1 \/ k > 1
      OBVIOUS
    <3> QED BY <3>1, <3>2, <3>3, Zenon
  <2> QED BY <2>3, <2>4, <2>5
<1>4. HandlePeerList(s) => SeedTypeOK' /\ Head(batch[s]) \in Event
  <2> SUFFICES ASSUME HandlePeerList(s) PROVE SeedTypeOK' /\ Head(batch[s]) \in Event
    OBVIOUS
  <2>1. Head(batch[s]) \in Event /\ Tail(batch[s]) \in Seq(Event)
    BY <1>1, HeadTailTypes DEF HandlePeerList, Handles
  <2>2. Head(batch[s]).about \in Peer
    BY <2>1 DEF Event
  <2> QED BY <1>0, <2>1, <2>2 DEF HandlePeerList, AddPeer, SeedTypeOK
<1>5. HandleDeadNode(s) => SeedTypeOK' /\ Head(batch[s]) \in Event
  <2> SUFFICES ASSUME HandleDeadNode(s) PROVE SeedTypeOK' /\ Head(batch[s]) \in Event
    OBVIOUS
  <2>1. Head(batch[s]) \in Event /\ Tail(batch[s]) \in Seq(Event)
    BY <1>1, HeadTailTypes DEF HandleDeadNode, Handles
  <2>2. Closed(Head(batch[s]).about) \in Event
    BY <2>1, EventTypes DEF Event
  <2>3. ready[s] \o <<>> \in Seq(Event) /\ ready[s] \o <<Closed(Head(batch[s]).about)>> \in Seq(Event)
    BY <1>1, <2>2
  <2>4. ready' \in [Seed -> Seq(Event)]
    BY <1>0, <2>3 DEF HandleDeadNode, SeedTypeOK
  <2> QED BY <1>0, <2>1, <2>4 DEF HandleDeadNode, SeedTypeOK
<1>6. ASSUME NEW p \in Peer
      PROVE  /\ Arrives(s, ListRequest(p)) => SeedTypeOK'
             /\ Arrives(s, DeadNode(p)) => SeedTypeOK'
             /\ HangsUp(s, p) => SeedTypeOK'
  <2>1. /\ Append(backlog[s], ListRequest(p)) \in Seq(Event)
        /\ Append(backlog[s], DeadNode(p)) \in Seq(Event)
        /\ Append(ready[s], Closed(p)) \in Seq(Event)
    BY <1>1, EventTypes
  <2> QED BY <1>0, <2>1 DEF Arrives, HangsUp, SeedTypeOK
<1> QED BY <1>2, <1>3, <1>4, <1>5, <1>6

-----------------------------------------------------------------------------
(* Types: the peers.                                                       *)

LEMMA TypeInit == Init => TypeOK
<1> SUFFICES ASSUME Init PROVE TypeOK
  OBVIOUS
<1>1. SeedTypeOK
  BY DEF Init, SeedInit, SeedTypeOK
<1>2. JoinTypeOK
  BY DEF Init, JoinTypeOK, NoPeers
<1>4. WatchTypeOK
  BY NewThreadType DEF Init, WatchTypeOK
<1>5. HistoryTypeOK
  BY NetworkAssumption DEF Init, HistoryTypeOK
<1> QED BY <1>1, <1>2, <1>4, <1>5, TypeOKParts

LEMMA FreeSlot ==
    ASSUME NEW p \in Peer, NEW q \in Peer, Free(p, q) # {}
    PROVE  Min(Free(p, q)) \in Slots /\ thread[p][q][Min(Free(p, q))].at = "none"
<1>1. Free(p, q) \subseteq Nat
  BY NetworkAssumption DEF Free, Slots
<1>2. Min(Free(p, q)) \in Free(p, q)
  BY <1>1, LeastIsThere
<1> QED BY <1>2 DEF Free

(* The thread table after the n-th thread of p for q has changed. *)
LEMMA ThreadChanges ==
    ASSUME WatchTypeOK, NEW p \in Peer, NEW q \in Peer, NEW n \in Slots, NEW t \in Thread
    PROVE  [thread EXCEPT ![p][q][n] = t] \in [Peer -> [Peer -> [Slots -> Thread]]]
BY DEF WatchTypeOK

LEMMA ConnectsTypes ==
    ASSUME WatchTypeOK, NEW p \in Peer, NEW q \in Peer, Connects(p, q)
    PROVE  WatchTypeOK'
<1>1. CASE phase[q] = "down"
  BY <1>1 DEF Connects, watchVars, WatchTypeOK
<1>2. CASE phase[q] # "down"
  <2>1. Min(Free(p, q)) \in Slots
    BY <1>2, FreeSlot DEF Connects
  <2>2. NewThread \in Thread
    BY NewThreadType
  <2>3. thread' \in [Peer -> [Peer -> [Slots -> Thread]]]
    <3>1. thread' = [thread EXCEPT ![p][q][Min(Free(p, q))] = NewThread]
      BY <1>2 DEF Connects
    <3> QED BY <3>1, <2>1, <2>2, ThreadChanges
  <2>4. neighbors' \in [Peer -> SUBSET Peer]
    <3>1. neighbors' = [neighbors EXCEPT ![p] = @ \cup {q}] /\ neighbors \in [Peer -> SUBSET Peer]
      BY <1>2 DEF Connects, WatchTypeOK
    <3> QED BY <3>1
  <2> QED BY <2>3, <2>4 DEF WatchTypeOK
<1> QED BY <1>1, <1>2

LEMMA JoinTypes ==
    ASSUME TypeOK, NEW p \in Peer, Start(p) \/ Joining(p)
    PROVE  TypeOK'
<1> USE DEF JoinTypeOK
<1>0. SeedTypeOK /\ JoinTypeOK /\ WatchTypeOK /\ HistoryTypeOK
  BY TypeOKParts
<1>1. UNCHANGED seedVars => SeedTypeOK'
  BY <1>0 DEF seedVars, SeedTypeOK
<1>2. UNCHANGED watchVars => WatchTypeOK'
  BY <1>0 DEF watchVars, WatchTypeOK
<1>3. UNCHANGED historyVars => HistoryTypeOK'
  BY <1>0 DEF historyVars, HistoryTypeOK
<1>4. CASE Start(p)
  <2>1. JoinTypeOK'
    BY <1>0, <1>4 DEF Start
  <2> QED BY <1>1, <1>2, <1>3, <1>4, <2>1, TypeOKParts DEF Start
<1>5. ASSUME NEW s \in Seed, Query(p, s) PROVE TypeOK'
  <2>1. JoinTypeOK'
    BY <1>0, <1>5 DEF Query
  <2>2. SeedTypeOK'
    BY <1>5, SeedStepTypes DEF Query
  <2> QED BY <1>2, <1>3, <1>5, <2>1, <2>2, TypeOKParts DEF Query
<1>6. CASE HangUp(p)
  <2>1. JoinTypeOK'
    BY <1>0, <1>6 DEF HangUp
  <2>2. SeedTypeOK'
    <3>1. CASE asking[p] \in Seed
      BY <1>6, <3>1, SeedStepTypes DEF HangUp
    <3>2. CASE asking[p] \notin Seed
      BY <1>0, <1>6, <3>2 DEF HangUp, HangsUp, SeedTypeOK
    <3> QED BY <3>1, <3>2
  <2> QED BY <1>2, <1>3, <1>6, <2>1, <2>2, TypeOKParts DEF HangUp
<1>7. CASE Pick(p)
  <2>1. ASSUME NEW list \in [Peer -> 0 .. Enough] PROVE list \in [Peer -> Nat]
    BY <2>1, EnoughType
  <2>2. links' \in [Peer -> [Peer -> Nat]]
    BY <1>0, <1>7, <2>1 DEF Pick
  <2>3. JoinTypeOK'
    BY <1>0, <1>7, <2>2 DEF Pick
  <2> QED BY <1>1, <1>2, <1>3, <1>7, <2>3, TypeOKParts DEF Pick
<1>8. ASSUME NEW q \in Peer, Link(p, q) PROVE TypeOK'
  <2>1. JoinTypeOK'
    BY <1>0, <1>8 DEF Link
  <2>2. WatchTypeOK'
    BY <1>0, <1>8, ConnectsTypes DEF Link
  <2> QED BY <1>1, <1>3, <1>8, <2>1, <2>2, TypeOKParts DEF Link
<1>9. CASE Serve(p)
  <2>1. JoinTypeOK'
    BY <1>0, <1>9 DEF Serve
  <2> QED BY <1>1, <1>2, <1>3, <1>9, <2>1, TypeOKParts DEF Serve
<1> QED BY <1>4, <1>5, <1>6, <1>7, <1>8, <1>9 DEF Joining

LEMMA SeedTypes ==
    ASSUME TypeOK, NEW s \in Seed, SeedStep(s)
    PROVE  TypeOK'
<1>0. SeedTypeOK /\ JoinTypeOK /\ WatchTypeOK /\ HistoryTypeOK
  BY TypeOKParts
<1>1. UNCHANGED joinVars => JoinTypeOK'
  BY <1>0 DEF joinVars, JoinTypeOK
<1>2. UNCHANGED watchVars => WatchTypeOK'
  BY <1>0 DEF watchVars, WatchTypeOK
<1>3. UNCHANGED historyVars => HistoryTypeOK'
  BY <1>0 DEF historyVars, HistoryTypeOK
<1>4. CASE EpollWait(s) /\ UNCHANGED <<joinVars, watchVars, historyVars>>
  <2>1. SeedTypeOK'
    BY <1>4, SeedStepTypes
  <2> QED BY <1>1, <1>2, <1>3, <1>4, <2>1, TypeOKParts
<1>5. CASE ServeClosed(s)
  <2>1. SeedTypeOK'
    BY <1>5, SeedStepTypes DEF ServeClosed
  <2> QED BY <1>1, <1>2, <1>3, <1>5, <2>1, TypeOKParts DEF ServeClosed
<1>6. CASE ServePeerList(s)
  <2>1. SeedTypeOK' /\ Head(batch[s]) \in Event
    BY <1>6, SeedStepTypes DEF ServePeerList
  <2> DEFINE p == Head(batch[s]).from
  <2>2. p \in Peer \cup {Nobody}
    BY <2>1 DEF Event
  <2>3. ASSUME p \in Peer PROVE Heard(p, s) \in [Peer -> Nat]
    BY <1>0, <2>3 DEF Heard, JoinTypeOK
  <2>4. JoinTypeOK'
    <3>1. CASE p = Nobody
      BY <1>0, <1>6, <3>1 DEF ServePeerList, JoinTypeOK
    <3>2. CASE p # Nobody
      BY <1>0, <1>6, <2>2, <2>3, <3>2 DEF ServePeerList, JoinTypeOK
    <3> QED BY <3>1, <3>2
  <2> QED BY <1>2, <1>3, <1>6, <2>1, <2>4, TypeOKParts DEF ServePeerList
<1>7. CASE ServeDeadNode(s)
  <2>1. SeedTypeOK' /\ Head(batch[s]) \in Event
    BY <1>7, SeedStepTypes DEF ServeDeadNode
  <2>2. HistoryTypeOK'
    BY <1>0, <1>7, <2>1 DEF ServeDeadNode, HistoryTypeOK, Event
  <2> QED BY <1>1, <1>2, <1>7, <2>1, <2>2, TypeOKParts DEF ServeDeadNode
<1> QED BY <1>4, <1>5, <1>6, <1>7 DEF SeedStep

LEMMA WatchTypes ==
    ASSUME TypeOK, NEW p \in Peer, NEW q \in Peer, NEW n \in Slots, Watch(p, q, n) \/ Answer(p, q, n)
    PROVE  TypeOK'
<1> DEFINE t == thread[p][q][n]
<1>0. SeedTypeOK /\ JoinTypeOK /\ WatchTypeOK /\ HistoryTypeOK
  BY TypeOKParts
<1>t. t \in Thread
  BY <1>0 DEF WatchTypeOK
<1>1. UNCHANGED seedVars => SeedTypeOK'
  BY <1>0 DEF seedVars, SeedTypeOK
<1>2. UNCHANGED joinVars => JoinTypeOK'
  BY <1>0 DEF joinVars, JoinTypeOK
<1>3. UNCHANGED historyVars => HistoryTypeOK'
  BY <1>0 DEF historyVars, HistoryTypeOK
<1>4. ASSUME NEW u \in Thread, Becomes(p, q, n, u), UNCHANGED neighbors PROVE WatchTypeOK'
  <2>1. thread' \in [Peer -> [Peer -> [Slots -> Thread]]]
    BY <1>0, <1>4, ThreadChanges DEF Becomes
  <2> QED BY <1>0, <1>4, <2>1 DEF WatchTypeOK
<1>5. CASE Ask(p, q, n)
  <2>1. (IF t.open THEN Asked(t) ELSE Missed(t)) \in Thread
    BY <1>t, <1>5, ThreadTypes DEF Ask
  <2>2. WatchTypeOK'
    BY <1>4, <1>5, <2>1 DEF Ask
  <2> QED BY <1>1, <1>2, <1>3, <1>5, <2>2, TypeOKParts DEF Ask
<1>6. CASE Hear(p, q, n)
  <2>1. t.at = "reads" /\ t.dead < Misses
    BY <1>t, <1>6 DEF Hear, Thread
  <2>2. [t EXCEPT !.at = "asks", !.dead = 0, !.reply = "none"] \in Thread
    <3>1. 0 \in 0 .. Misses
      BY NetworkAssumption
    <3>2. [t EXCEPT !.at = "asks", !.dead = 0, !.reply = "none"] \in Records
      BY <1>t, <3>1, Zenon DEF Thread, Records, Unread
    <3> QED BY <1>t, <3>2 DEF Thread, Records
  <2>3. WatchTypeOK'
    BY <1>4, <1>6, <1>t, <2>1, <2>2, ThreadTypes DEF Hear
  <2> QED BY <1>1, <1>2, <1>3, <1>6, <2>3, TypeOKParts DEF Hear
<1>7. CASE Timeout(p, q, n)
  <2>1. t.at = "reads" /\ t.dead < Misses
    BY <1>t, <1>7 DEF Timeout, Thread
  <2>2. WatchTypeOK'
    BY <1>4, <1>7, <1>t, <2>1, ThreadTypes DEF Timeout
  <2>3. HistoryTypeOK'
    BY <1>0, <1>7, NetworkAssumption DEF Timeout, HistoryTypeOK
  <2> QED BY <1>1, <1>2, <1>7, <2>2, <2>3, TypeOKParts DEF Timeout
<1>8. CASE Bury(p, q, n)
  <2>1. [t EXCEPT !.at = "reports", !.todo = seeds[p]] \in Thread
    BY <1>0, <1>t DEF Thread, Records, Unread, JoinTypeOK
  <2>2. thread' \in [Peer -> [Peer -> [Slots -> Thread]]]
    BY <1>0, <1>8, <2>1, ThreadChanges DEF Bury, Becomes
  <2>3. neighbors' \in [Peer -> SUBSET Peer]
    BY <1>0, <1>8 DEF Bury, WatchTypeOK
  <2>4. WatchTypeOK'
    BY <2>2, <2>3 DEF WatchTypeOK
  <2> QED BY <1>1, <1>2, <1>3, <1>8, <2>4, TypeOKParts DEF Bury
<1>9. CASE Report(p, q, n)
  <2>1. PICK s \in t.todo :
          /\ Arrives(s, DeadNode(q))
          /\ Becomes(p, q, n, IF t.todo = {s} THEN NoThread ELSE [t EXCEPT !.todo = @ \ {s}])
    BY <1>9 DEF Report
  <2>2. s \in Seed
    BY <1>t, <2>1 DEF Thread, Records
  <2>3. SeedTypeOK'
    BY <2>1, <2>2, SeedStepTypes
  <2>4. [t EXCEPT !.todo = @ \ {s}] \in Thread
    BY <1>t DEF Thread, Records, Unread
  <2>5. WatchTypeOK'
    BY <1>4, <1>9, <2>1, <2>4, NewThreadType DEF Report
  <2> QED BY <1>2, <1>3, <1>9, <2>3, <2>5, TypeOKParts DEF Report
<1>10. CASE Answer(p, q, n)
  <2>1. Answered(t) \in Thread
    BY <1>t, ThreadTypes
  <2>2. CASE p \in neighbors[q]
    <3>1. WatchTypeOK'
      BY <1>4, <1>10, <2>1, <2>2 DEF Answer
    <3> QED BY <1>1, <1>2, <1>3, <1>10, <3>1, TypeOKParts DEF Answer
  <2>3. CASE p \notin neighbors[q]
    <3>1. Min(Free(q, p)) \in Slots
      BY <1>10, <2>3, FreeSlot DEF Answer
    <3> DEFINE first == [thread EXCEPT ![p][q][n] = Answered(t)]
    <3>2. first \in [Peer -> [Peer -> [Slots -> Thread]]]
      BY <1>0, <2>1, ThreadChanges
    <3>3. thread' = [first EXCEPT ![q][p][Min(Free(q, p))] = NewThread]
      BY <1>10, <2>3 DEF Answer
    <3> HIDE DEF first
    <3>4. thread' \in [Peer -> [Peer -> [Slots -> Thread]]]
      BY <3>1, <3>2, <3>3, NewThreadType
    <3>5. neighbors' = [neighbors EXCEPT ![q] = @ \cup {p}] /\ neighbors \in [Peer -> SUBSET Peer]
      BY <1>0, <1>10, <2>3 DEF Answer, WatchTypeOK
    <3>6. WatchTypeOK'
      BY <3>4, <3>5 DEF WatchTypeOK
    <3> QED BY <1>1, <1>2, <1>3, <1>10, <3>6, TypeOKParts DEF Answer
  <2> QED BY <2>2, <2>3
<1> QED BY <1>5, <1>6, <1>7, <1>8, <1>9, <1>10 DEF Watch

LEMMA OrphanTypes ==
    ASSUME NEW e \in Seq(Event), NEW p
    PROVE  /\ Orphaned(e, p) \in Seq(Event)
           /\ Len(Orphaned(e, p)) = Len(e)
           /\ \A i \in 1 .. Len(e) :
                /\ Orphaned(e, p)[i].from = IF e[i].from = p THEN Nobody ELSE e[i].from
                /\ Orphaned(e, p)[i].about = e[i].about
                /\ Orphaned(e, p)[i].kind = e[i].kind
<1>1. DOMAIN e = 1 .. Len(e) /\ Len(e) \in Nat /\ \A i \in 1 .. Len(e) : e[i] \in Event
  OBVIOUS
<1>2. \A i \in 1 .. Len(e) : [e[i] EXCEPT !.from = Nobody] \in Event
  BY <1>1 DEF Event
<1>3. Orphaned(e, p) \in [1 .. Len(e) -> Event]
  BY <1>1, <1>2 DEF Orphaned
<1>4. Orphaned(e, p) \in Seq(Event) /\ Len(Orphaned(e, p)) = Len(e)
  BY <1>1, <1>3
<1>5. \A i \in 1 .. Len(e) :
        Orphaned(e, p)[i] = IF e[i].from = p THEN [e[i] EXCEPT !.from = Nobody] ELSE e[i]
  BY <1>1 DEF Orphaned
<1> QED BY <1>1, <1>4, <1>5 DEF Event

LEMMA CrashTypes ==
    ASSUME TypeOK, NEW p \in Peer, Crash(p)
    PROVE  TypeOK'
<1>0. SeedTypeOK /\ JoinTypeOK /\ WatchTypeOK /\ HistoryTypeOK
  BY TypeOKParts
<1>1. JoinTypeOK'
  BY <1>0 DEF Crash, JoinTypeOK, NoPeers
<1>2. neighbors' \in [Peer -> SUBSET Peer]
  BY <1>0 DEF Crash, WatchTypeOK
<1>3. thread' \in [Peer -> [Peer -> [Slots -> Thread]]]
  <2>1. ASSUME NEW a \in Peer, NEW b \in Peer, NEW n \in Slots
        PROVE  (IF a = p THEN NoThread
                ELSE IF b = p THEN Cut(thread[a][b][n]) ELSE thread[a][b][n]) \in Thread
    <3>1. thread[a][b][n] \in Thread
      BY <1>0 DEF WatchTypeOK
    <3> QED BY <3>1, NewThreadType, ThreadTypes
  <2> QED BY <2>1 DEF Crash
<1>4. WatchTypeOK'
  BY <1>2, <1>3 DEF WatchTypeOK
<1>5. HistoryTypeOK'
  BY <1>0, NetworkAssumption DEF Crash, HistoryTypeOK
<1>6. SeedTypeOK'
  <2>1. \A s \in Seed : Orphaned(backlog[s], p) \in Seq(Event) /\ Orphaned(batch[s], p) \in Seq(Event)
    BY <1>0, OrphanTypes DEF SeedTypeOK
  <2>2. \A s \in Seed : Append(ready[s], Closed(p)) \in Seq(Event)
    BY <1>0, EventTypes DEF SeedTypeOK
  <2>3. ready' \in [Seed -> Seq(Event)]
    BY <1>0, <2>2 DEF Crash, SeedTypeOK
  <2> QED BY <1>0, <2>1, <2>3 DEF Crash, SeedTypeOK
<1> QED BY <1>1, <1>4, <1>5, <1>6, TypeOKParts

LEMMA TypeStep == TypeOK /\ [Next]_vars => TypeOK'
<1> SUFFICES ASSUME TypeOK, [Next]_vars PROVE TypeOK'
  OBVIOUS
<1>1. CASE UNCHANGED vars
  BY <1>1, TypeOKParts DEF vars, seedVars, joinVars, watchVars, historyVars, SeedTypeOK, JoinTypeOK,
     WatchTypeOK, HistoryTypeOK
<1>2. CASE Next
  BY <1>2, SeedTypes, JoinTypes, WatchTypes, CrashTypes DEF Next
<1> QED BY <1>1, <1>2

(* Lists, queues, threads and counters keep their types, for any number of *)
(* peers and seeds.                                                        *)
THEOREM TypeCorrect == Spec => []TypeOK
<1> QED BY TypeInit, TypeStep, PTL DEF Spec

-----------------------------------------------------------------------------
(* Neighbors are watched.                                                  *)

Watching(t) == t.at \in {"asks", "reads"}

LEMMA WatchingKept ==
    ASSUME NEW t \in Thread, Watching(t)
    PROVE  Watching(Missed(t)) /\ Watching(Asked(t)) /\ Watching(Answered(t)) /\ Watching(Cut(t))
BY DEF Thread, Records, Watching, Missed, Asked, Answered, Cut

LEMMA WatchedInit == Init => NeighborsWatched
BY DEF Init, NeighborsWatched

(* One thread goes on watching, or is new; all others are as they were.    *)
LEMMA WatchedStays ==
    ASSUME WatchTypeOK, NeighborsWatched, WatchTypeOK',
           NEW p \in Peer, NEW q \in Peer, NEW n \in Slots,
           Watching(thread'[p][q][n]),
           \A a, b \in Peer : \A m \in Slots :
             <<a, b, m>> # <<p, q, n>> /\ Watching(thread[a][b][m]) => Watching(thread'[a][b][m]),
           \A a \in Peer : \A b \in neighbors'[a] : b \in neighbors[a] \/ <<a, b>> = <<p, q>>
    PROVE  NeighborsWatched'
<1> SUFFICES ASSUME NEW a \in Peer, NEW b \in neighbors'[a]
             PROVE  \E m \in Slots : Watching(thread'[a][b][m])
  BY DEF NeighborsWatched, Watching
<1>1. b \in Peer
  BY DEF WatchTypeOK
<1>2. CASE <<a, b>> = <<p, q>>
  BY <1>2
<1>3. CASE <<a, b>> # <<p, q>>
  <2>1. PICK m \in Slots : Watching(thread[a][b][m])
    BY <1>1, <1>3 DEF NeighborsWatched, Watching
  <2>2. Watching(thread'[a][b][m])
    BY <1>1, <1>3, <2>1
  <2> QED BY <2>2
<1> QED BY <1>2, <1>3

LEMMA WatchedConnects ==
    ASSUME WatchTypeOK, NeighborsWatched, NEW p \in Peer, NEW q \in Peer, Connects(p, q)
    PROVE  NeighborsWatched'
<1>1. CASE phase[q] = "down"
  BY <1>1 DEF Connects, watchVars, NeighborsWatched
<1>2. CASE phase[q] # "down"
  <2> DEFINE n == Min(Free(p, q))
  <2>1. n \in Slots /\ thread[p][q][n].at = "none"
    BY <1>2, FreeSlot DEF Connects
  <2>2. WatchTypeOK'
    BY ConnectsTypes
  <2>3. /\ thread' = [thread EXCEPT ![p][q][n] = NewThread]
        /\ neighbors' = [neighbors EXCEPT ![p] = @ \cup {q}]
    BY <1>2 DEF Connects
  <2> HIDE DEF n
  <2>4. thread'[p][q][n] = NewThread
    BY <2>1, <2>3 DEF WatchTypeOK
  <2>5. \A a, b \in Peer : \A m \in Slots :
          <<a, b, m>> # <<p, q, n>> => thread'[a][b][m] = thread[a][b][m]
    BY <2>1, <2>3 DEF WatchTypeOK
  <2>6. \A a \in Peer : \A b \in neighbors'[a] : b \in neighbors[a] \/ <<a, b>> = <<p, q>>
    BY <2>3 DEF WatchTypeOK
  <2>7. Watching(NewThread)
    BY DEF Watching, NewThread, NoThread
  <2> QED BY <2>1, <2>2, <2>4, <2>5, <2>6, <2>7, WatchedStays
<1> QED BY <1>1, <1>2

LEMMA WatchedBecomes ==
    ASSUME TypeOK, TypeOK', NeighborsWatched, NEW p \in Peer, NEW q \in Peer, NEW n \in Slots,
           NEW u, Becomes(p, q, n, u), UNCHANGED neighbors,
           Watching(thread[p][q][n]) => Watching(u)
    PROVE  NeighborsWatched'
<1>0. WatchTypeOK /\ WatchTypeOK'
  BY TypeOKParts
<1>1. \A a, b \in Peer : \A m \in Slots :
        thread'[a][b][m] = IF <<a, b, m>> = <<p, q, n>> THEN u ELSE thread[a][b][m]
  BY <1>0 DEF Becomes, WatchTypeOK
<1> SUFFICES ASSUME NEW a \in Peer, NEW b \in neighbors'[a]
             PROVE  \E m \in Slots : Watching(thread'[a][b][m])
  BY DEF NeighborsWatched, Watching
<1>2. b \in Peer /\ b \in neighbors[a]
  BY <1>0 DEF WatchTypeOK
<1>3. PICK m \in Slots : Watching(thread[a][b][m])
  BY <1>2 DEF NeighborsWatched, Watching
<1>4. Watching(thread'[a][b][m])
  BY <1>1, <1>2, <1>3
<1> QED BY <1>4

LEMMA WatchedWatch ==
    ASSUME TypeOK, TypeOK', NeighborsWatched, NEW p \in Peer, NEW q \in Peer, NEW n \in Slots,
           Watch(p, q, n) \/ Answer(p, q, n)
    PROVE  NeighborsWatched'
<1> DEFINE t == thread[p][q][n]
<1>0. WatchTypeOK /\ WatchTypeOK'
  BY TypeOKParts
<1>t. t \in Thread
  BY <1>0 DEF WatchTypeOK
<1>1. CASE Ask(p, q, n)
  <2>1. Becomes(p, q, n, IF t.open THEN Asked(t) ELSE Missed(t)) /\ UNCHANGED neighbors
    BY <1>1 DEF Ask
  <2>2. Watching(t) => Watching(IF t.open THEN Asked(t) ELSE Missed(t))
    BY <1>t, WatchingKept
  <2> QED BY <2>1, <2>2, WatchedBecomes
<1>2. CASE Hear(p, q, n)
  <2> DEFINE u == IF t.reply = "current"
                  THEN [t EXCEPT !.at = "asks", !.dead = 0, !.reply = "none"] ELSE Missed(t)
  <2>1. Becomes(p, q, n, u) /\ UNCHANGED neighbors
    BY <1>2 DEF Hear
  <2>2. Watching(u)
    BY <1>t DEF Watching, Missed, Thread, Records
  <2> HIDE DEF u
  <2> QED BY <2>1, <2>2, WatchedBecomes
<1>3. CASE Timeout(p, q, n)
  <2>1. Becomes(p, q, n, Missed(t)) /\ UNCHANGED neighbors
    BY <1>3 DEF Timeout
  <2>2. Watching(Missed(t))
    BY <1>t DEF Watching, Missed, Thread, Records
  <2> QED BY <2>1, <2>2, WatchedBecomes
<1>4. CASE Bury(p, q, n)
  <2> SUFFICES ASSUME NEW a \in Peer, NEW b \in neighbors'[a]
               PROVE  \E m \in Slots : Watching(thread'[a][b][m])
    BY DEF NeighborsWatched, Watching
  <2>1. b \in Peer /\ b \in neighbors[a] /\ <<a, b>> # <<p, q>>
    BY <1>0, <1>4 DEF Bury, WatchTypeOK
  <2>2. \A m \in Slots : thread'[a][b][m] = thread[a][b][m]
    BY <1>0, <1>4, <2>1 DEF Bury, Becomes, WatchTypeOK
  <2>3. PICK m \in Slots : Watching(thread[a][b][m])
    BY <2>1 DEF NeighborsWatched, Watching
  <2> QED BY <2>2, <2>3
<1>5. CASE Report(p, q, n)
  <2>1. PICK u : Becomes(p, q, n, u)
    BY <1>5 DEF Report
  <2>2. ~Watching(t) /\ UNCHANGED neighbors
    BY <1>5 DEF Report, Watching
  <2> QED BY <2>1, <2>2, WatchedBecomes
<1>6. CASE Answer(p, q, n)
  <2>1. Watching(t) => Watching(Answered(t))
    BY <1>t, WatchingKept
  <2>2. CASE p \in neighbors[q]
    <3>1. Becomes(p, q, n, Answered(t)) /\ UNCHANGED neighbors
      BY <1>6, <2>2 DEF Answer
    <3> QED BY <2>1, <3>1, WatchedBecomes
  <2>3. CASE p \notin neighbors[q]
    <3> DEFINE m == Min(Free(q, p))
    <3>1. m \in Slots /\ thread[q][p][m].at = "none"
      BY <1>6, <2>3, FreeSlot DEF Answer
    <3> DEFINE first == [thread EXCEPT ![p][q][n] = Answered(t)]
    <3>2. thread' = [first EXCEPT ![q][p][m] = NewThread]
      BY <1>6, <2>3 DEF Answer
    <3>3. neighbors' = [neighbors EXCEPT ![q] = @ \cup {p}]
      BY <1>6, <2>3 DEF Answer
    <3>4. /\ first \in [Peer -> [Peer -> [Slots -> Thread]]]
          /\ \A a, b \in Peer : \A k \in Slots :
               first[a][b][k] = IF <<a, b, k>> = <<p, q, n>> THEN Answered(t) ELSE thread[a][b][k]
      <4>1. Answered(t) \in Thread
        BY <1>t, ThreadTypes
      <4> QED BY <1>0, <4>1, ThreadChanges DEF WatchTypeOK
    <3> HIDE DEF first, m
    <3>5. /\ thread'[q][p][m] = NewThread
          /\ \A a, b \in Peer : \A k \in Slots :
               <<a, b, k>> # <<q, p, m>> => thread'[a][b][k] = first[a][b][k]
      BY <3>1, <3>2, <3>4
    <3>6. \A a, b \in Peer : \A k \in Slots :
            <<a, b, k>> # <<q, p, m>> /\ Watching(thread[a][b][k]) => Watching(thread'[a][b][k])
      <4> SUFFICES ASSUME NEW a \in Peer, NEW b \in Peer, NEW k \in Slots,
                          <<a, b, k>> # <<q, p, m>>, Watching(thread[a][b][k])
                   PROVE  Watching(first[a][b][k])
        BY <3>5
      <4>1. CASE <<a, b, k>> = <<p, q, n>>
        BY <2>1, <3>4, <4>1
      <4>2. CASE <<a, b, k>> # <<p, q, n>>
        BY <3>4, <4>2
      <4> QED BY <4>1, <4>2
    <3>7. Watching(NewThread)
      BY DEF Watching, NewThread, NoThread
    <3>8. \A a \in Peer : \A b \in neighbors'[a] : b \in neighbors[a] \/ <<a, b>> = <<q, p>>
      BY <1>0, <3>3 DEF WatchTypeOK
    <3> QED BY <1>0, <3>1, <3>5, <3>6, <3>7, <3>8, WatchedStays
  <2> QED BY <2>2, <2>3
<1> QED BY <1>1, <1>2, <1>3, <1>4, <1>5, <1>6 DEF Watch

LEMMA WatchedStep == TypeOK /\ TypeOK' /\ NeighborsWatched /\ [Next]_vars => NeighborsWatched'
<1> SUFFICES ASSUME TypeOK, TypeOK', NeighborsWatched, [Next]_vars PROVE NeighborsWatched'
  OBVIOUS
<1>0. WatchTypeOK /\ WatchTypeOK'
  BY TypeOKParts
<1>1. UNCHANGED watchVars => NeighborsWatched'
  BY DEF watchVars, NeighborsWatched
<1>2. CASE UNCHANGED vars
  BY <1>1, <1>2 DEF vars
<1>3. ASSUME NEW s \in Seed, SeedStep(s) PROVE NeighborsWatched'
  BY <1>1, <1>3 DEF SeedStep, ServeClosed, ServePeerList, ServeDeadNode
<1>4. ASSUME NEW p \in Peer, Start(p) \/ Joining(p) PROVE NeighborsWatched'
  BY <1>0, <1>1, <1>4, WatchedConnects DEF Start, Joining, Query, HangUp, Pick, Link, Serve
<1>5. ASSUME NEW p \in Peer, Crash(p) PROVE NeighborsWatched'
  <2> SUFFICES ASSUME NEW a \in Peer, NEW b \in neighbors'[a]
               PROVE  \E m \in Slots : Watching(thread'[a][b][m])
    BY DEF NeighborsWatched, Watching
  <2>1. a # p /\ b \in Peer /\ b \in neighbors[a]
    BY <1>0, <1>5 DEF Crash, WatchTypeOK
  <2>2. PICK m \in Slots : Watching(thread[a][b][m])
    BY <2>1 DEF NeighborsWatched, Watching
  <2>3. thread'[a][b][m] = IF b = p THEN Cut(thread[a][b][m]) ELSE thread[a][b][m]
    BY <1>5, <2>1 DEF Crash
  <2>4. thread[a][b][m] \in Thread
    BY <1>0, <2>1 DEF WatchTypeOK
  <2> QED BY <2>2, <2>3, <2>4, WatchingKept
<1>6. ASSUME NEW p \in Peer, NEW q \in Peer, NEW n \in Slots, Watch(p, q, n) \/ Answer(p, q, n)
      PROVE  NeighborsWatched'
  BY <1>6, WatchedWatch
<1> QED BY <1>2, <1>3, <1>4, <1>5, <1>6 DEF Next

(* Whatever crashes, is late or is told twice: for each neighbor of a peer *)
(* there is a thread that will notice its death.                           *)
THEOREM NeighborsStayWatched == Spec => []NeighborsWatched
<1>1. TypeOK /\ NeighborsWatched /\ [Next]_vars => (TypeOK /\ NeighborsWatched)'
  BY TypeStep, WatchedStep
<1> QED BY <1>1, TypeInit, WatchedInit, PTL DEF Spec

-----------------------------------------------------------------------------
(* Requests for lists: who waits for a seed has at most one request there, *)
(* and a request that can be answered is from one who waits.               *)

Waits(s) == {p \in Peer : phase[p] = "waits" /\ asking[p] = s}

Proper(q, W) ==
  \A i \in DOMAIN q : q[i].from \in Peer => q[i].about = q[i].from /\ q[i].from \in W
Once(q) == \A i, j \in DOMAIN q : q[i].from \in Peer /\ q[i].from = q[j].from => i = j
Apart(q, r) == \A i \in DOMAIN q, j \in DOMAIN r : q[i].from \in Peer => q[i].from # r[j].from
Anonymous(q) == \A i \in DOMAIN q : q[i].from \notin Peer

Orderly(b, l, r, W) ==
  /\ Proper(b, W) /\ Proper(l, W)
  /\ Once(b) /\ Once(l) /\ Apart(b, l)
  /\ Anonymous(r)

Requests == \A s \in Seed : Orderly(batch[s], backlog[s], ready[s], Waits(s))

(* The requests in r are those of a stretch of q. *)
Part(r, q, k) ==
  \A i \in DOMAIN r : r[i].from \in Peer => i + k \in DOMAIN q /\ r[i] = q[i + k]

LEMMA OrderlyParts ==
    ASSUME NEW b \in Seq(Event), NEW l \in Seq(Event), NEW r, NEW W, Orderly(b, l, r, W),
           NEW c \in Seq(Event), NEW m \in Seq(Event), NEW t, NEW V,
           NEW x \in Int, NEW y \in Int, Part(c, b, x), Part(m, l, y), Anonymous(t),
           \A i \in DOMAIN c : c[i].from \in W => c[i].from \in V,
           \A i \in DOMAIN m : m[i].from \in W => m[i].from \in V
    PROVE  Orderly(c, m, t, V)
<1>0. /\ DOMAIN b = 1 .. Len(b) /\ DOMAIN l = 1 .. Len(l)
      /\ DOMAIN c = 1 .. Len(c) /\ DOMAIN m = 1 .. Len(m)
  OBVIOUS
<1>1. Proper(c, V) /\ Proper(m, V)
  BY DEF Orderly, Proper, Part
<1>2. Once(c)
  <2> SUFFICES ASSUME NEW i \in DOMAIN c, NEW j \in DOMAIN c,
                      c[i].from \in Peer, c[i].from = c[j].from
               PROVE  i = j
    BY DEF Once
  <2>1. i + x \in DOMAIN b /\ j + x \in DOMAIN b /\ c[i] = b[i + x] /\ c[j] = b[j + x]
    BY DEF Part
  <2>2. i + x = j + x
    BY <2>1 DEF Orderly, Once
  <2> QED BY <1>0, <2>2
<1>3. Once(m)
  <2> SUFFICES ASSUME NEW i \in DOMAIN m, NEW j \in DOMAIN m,
                      m[i].from \in Peer, m[i].from = m[j].from
               PROVE  i = j
    BY DEF Once
  <2>1. i + y \in DOMAIN l /\ j + y \in DOMAIN l /\ m[i] = l[i + y] /\ m[j] = l[j + y]
    BY DEF Part
  <2>2. i + y = j + y
    BY <2>1 DEF Orderly, Once
  <2> QED BY <1>0, <2>2
<1>4. Apart(c, m)
  <2> SUFFICES ASSUME NEW i \in DOMAIN c, NEW j \in DOMAIN m,
                      c[i].from \in Peer, c[i].from = m[j].from
               PROVE  FALSE
    BY DEF Apart
  <2>1. i + x \in DOMAIN b /\ j + y \in DOMAIN l /\ c[i] = b[i + x] /\ m[j] = l[j + y]
    BY DEF Part
  <2> QED BY <2>1 DEF Orderly, Apart
<1> QED BY <1>1, <1>2, <1>3, <1>4 DEF Orderly

LEMMA PartOfItself == ASSUME NEW q \in Seq(Event) PROVE Part(q, q, 0)
<1>1. DOMAIN q = 1 .. Len(q) /\ Len(q) \in Nat
  OBVIOUS
<1>2. \A i \in DOMAIN q : i + 0 = i
  BY <1>1
<1> QED BY <1>2 DEF Part

LEMMA PartOfTail ==
    ASSUME NEW q \in Seq(Event), q # <<>>
    PROVE  Tail(q) \in Seq(Event) /\ Part(Tail(q), q, 1)
<1>1. Tail(q) \in Seq(Event) /\ Len(Tail(q)) = Len(q) - 1 /\ Len(q) \in Nat
  OBVIOUS
<1>2. \A i \in 1 .. Len(q) - 1 : Tail(q)[i] = q[i + 1]
  OBVIOUS
<1>3. DOMAIN Tail(q) = 1 .. Len(q) - 1 /\ DOMAIN q = 1 .. Len(q)
  BY <1>1
<1>4. \A i \in DOMAIN Tail(q) : i + 1 \in DOMAIN q
  BY <1>1, <1>3
<1> QED BY <1>1, <1>2, <1>3, <1>4 DEF Part

LEMMA PartOfAppend ==
    ASSUME NEW q \in Seq(Event), NEW e \in Event, e.from \notin Peer
    PROVE  Append(q, e) \in Seq(Event) /\ Part(Append(q, e), q, 0)
<1>1. /\ Append(q, e) \in Seq(Event) /\ Len(q) \in Nat
      /\ DOMAIN Append(q, e) = 1 .. Len(q) + 1 /\ DOMAIN q = 1 .. Len(q)
      /\ \A i \in 1 .. Len(q) : Append(q, e)[i] = q[i]
      /\ Append(q, e)[Len(q) + 1] = e
  OBVIOUS
<1>2. \A i \in DOMAIN Append(q, e) : i = Len(q) + 1 \/ (i + 0 = i /\ i \in 1 .. Len(q))
  <2>1. \A k \in Nat : \A i \in 1 .. k + 1 : i = k + 1 \/ (i + 0 = i /\ i \in 1 .. k)
    OBVIOUS
  <2> QED BY <1>1, <2>1, Zenon
<1> QED BY <1>1, <1>2 DEF Part

LEMMA PartOfOrphaned ==
    ASSUME NEW q \in Seq(Event), NEW p \in Peer
    PROVE  /\ Orphaned(q, p) \in Seq(Event) /\ Part(Orphaned(q, p), q, 0)
           /\ \A i \in DOMAIN Orphaned(q, p) : Orphaned(q, p)[i].from # p
<1>1. DOMAIN q = 1 .. Len(q) /\ Len(q) \in Nat /\ \A i \in 1 .. Len(q) : q[i] \in Event
  OBVIOUS
<1>2. Orphaned(q, p) \in Seq(Event) /\ DOMAIN Orphaned(q, p) = DOMAIN q
  <2>1. DOMAIN Orphaned(q, p) = DOMAIN q
    BY DEF Orphaned
  <2> QED BY <2>1, OrphanTypes
<1>3. \A i \in DOMAIN q :
        Orphaned(q, p)[i] = IF q[i].from = p THEN [q[i] EXCEPT !.from = Nobody] ELSE q[i]
  BY DEF Orphaned
<1>4. \A i \in DOMAIN q : Orphaned(q, p)[i].from = IF q[i].from = p THEN Nobody ELSE q[i].from
  BY <1>1, OrphanTypes
<1>5. \A i \in DOMAIN q : i + 0 = i
  BY <1>1
<1> QED BY <1>2, <1>3, <1>4, <1>5, SeedAssumption DEF Part

LEMMA AnonymousAppend ==
    ASSUME NEW q \in Seq(Event), Anonymous(q), NEW e \in Event, e.from \notin Peer
    PROVE  Anonymous(Append(q, e))
<1>1. /\ DOMAIN Append(q, e) = 1 .. Len(q) + 1 /\ DOMAIN q = 1 .. Len(q) /\ Len(q) \in Nat
      /\ \A i \in 1 .. Len(q) : Append(q, e)[i] = q[i]
      /\ Append(q, e)[Len(q) + 1] = e
  OBVIOUS
<1>2. \A i \in DOMAIN Append(q, e) : i = Len(q) + 1 \/ i \in 1 .. Len(q)
  BY <1>1
<1> QED BY <1>1, <1>2 DEF Anonymous

LEMMA NobodysEvents ==
    ASSUME NEW p \in Peer
    PROVE  /\ Closed(p) \in Event /\ Closed(p).from \notin Peer
           /\ DeadNode(p) \in Event /\ DeadNode(p).from \notin Peer
BY EventTypes, SeedAssumption DEF Closed, DeadNode

(* The steps of the seeds keep the requests in order.                      *)
LEMMA OrderlyAppend ==
    ASSUME NEW b \in Seq(Event), NEW l \in Seq(Event), NEW r, NEW W, Orderly(b, l, r, W),
           NEW p \in Peer, p \notin W
    PROVE  Orderly(b, Append(l, ListRequest(p)), r, W \cup {p})
<1> DEFINE m == Append(l, ListRequest(p))
<1>0. ListRequest(p) \in Event /\ ListRequest(p).from = p /\ ListRequest(p).about = p
  BY EventTypes DEF ListRequest
<1>1. /\ DOMAIN m = 1 .. Len(l) + 1 /\ DOMAIN l = 1 .. Len(l) /\ Len(l) \in Nat
      /\ \A i \in 1 .. Len(l) : m[i] = l[i]
      /\ m[Len(l) + 1] = ListRequest(p)
  BY <1>0
<1>2. \A i \in DOMAIN m : \/ i \in DOMAIN l /\ m[i] = l[i]
                          \/ i = Len(l) + 1 /\ m[i] = ListRequest(p)
  BY <1>1
<1> HIDE DEF m
<1>3. /\ \A i \in DOMAIN l : l[i].from # p
      /\ \A i \in DOMAIN b : b[i].from # p
  BY DEF Orderly, Proper
<1>4. Proper(b, W \cup {p}) /\ Once(b) /\ Anonymous(r)
  BY DEF Orderly, Proper
<1>5. Proper(m, W \cup {p})
  BY <1>0, <1>2 DEF Orderly, Proper
<1>6. Once(m)
  BY <1>0, <1>2, <1>3 DEF Orderly, Once
<1>7. Apart(b, m)
  BY <1>0, <1>2, <1>3 DEF Orderly, Apart
<1> QED BY <1>4, <1>5, <1>6, <1>7 DEF Orderly, m

LEMMA OrderlyWait ==
    ASSUME NEW l \in Seq(Event), NEW r \in Seq(Event), NEW W, Orderly(<<>>, l, r, W),
           NEW n \in Nat, n <= Len(l)
    PROVE  Orderly(r \o SubSeq(l, 1, n), SubSeq(l, n + 1, Len(l)), <<>>, W)
<1> DEFINE c == r \o SubSeq(l, 1, n)
           m == SubSeq(l, n + 1, Len(l))
<1>1. /\ SubSeq(l, 1, n) \in Seq(Event) /\ Len(SubSeq(l, 1, n)) = n
      /\ \A i \in 1 .. n : SubSeq(l, 1, n)[i] = l[i]
  BY Slice
<1>2. /\ m \in Seq(Event) /\ Len(m) = Len(l) - n
      /\ \A i \in 1 .. Len(l) - n : m[i] = l[i + n]
  BY Slice
<1>3. /\ c \in Seq(Event) /\ Len(c) = Len(r) + n
      /\ \A i \in 1 .. Len(r) : c[i] = r[i]
      /\ \A i \in Len(r) + 1 .. Len(r) + n : c[i] = SubSeq(l, 1, n)[i - Len(r)]
  BY <1>1
<1>4. \A i \in DOMAIN c : \/ i \in DOMAIN r /\ c[i] = r[i]
                          \/ i - Len(r) \in 1 .. n /\ c[i] = l[i - Len(r)]
  BY <1>1, <1>3
<1>5. \A i \in DOMAIN m : i + n \in n + 1 .. Len(l) /\ m[i] = l[i + n]
  BY <1>2
<1>6. DOMAIN l = 1 .. Len(l) /\ Len(l) \in Nat /\ Len(r) \in Nat
  OBVIOUS
<1>7. DOMAIN c \subseteq Int /\ DOMAIN m \subseteq Int
  BY <1>2, <1>3
<1> HIDE DEF c, m
<1>8. \A i \in DOMAIN c : c[i].from \in Peer => i - Len(r) \in 1 .. n /\ c[i] = l[i - Len(r)]
  BY <1>4 DEF Orderly, Anonymous
<1>9. Proper(c, W) /\ Proper(m, W)
  BY <1>5, <1>6, <1>8 DEF Orderly, Proper
<1>10. Once(c)
  <2> SUFFICES ASSUME NEW i \in DOMAIN c, NEW j \in DOMAIN c,
                      c[i].from \in Peer, c[i].from = c[j].from
               PROVE  i = j
    BY DEF Once
  <2>1. i - Len(r) = j - Len(r)
    BY <1>6, <1>8 DEF Orderly, Once
  <2> QED BY <1>6, <1>7, <2>1
<1>11. Once(m)
  <2> SUFFICES ASSUME NEW i \in DOMAIN m, NEW j \in DOMAIN m,
                      m[i].from \in Peer, m[i].from = m[j].from
               PROVE  i = j
    BY DEF Once
  <2>1. i + n = j + n
    BY <1>5, <1>6 DEF Orderly, Once
  <2> QED BY <1>7, <2>1
<1>12. Apart(c, m)
  <2> SUFFICES ASSUME NEW i \in DOMAIN c, NEW j \in DOMAIN m,
                      c[i].from \in Peer, c[i].from = m[j].from
               PROVE  FALSE
    BY DEF Apart
  <2>1. i - Len(r) = j + n
    BY <1>5, <1>6, <1>8 DEF Orderly, Once
  <2> QED BY <1>5, <1>6, <1>7, <1>8, <2>1
<1>13. Anonymous(<<>>)
  BY DEF Anonymous
<1> QED BY <1>9, <1>10, <1>11, <1>12, <1>13 DEF Orderly, c, m

Stretch(r, q) == \E k \in Int : Part(r, q, k)
Within(q, W, V) == \A i \in DOMAIN q : q[i].from \in W => q[i].from \in V

LEMMA OrderlyStretches ==
    ASSUME NEW b \in Seq(Event), NEW l \in Seq(Event), NEW r, NEW W, Orderly(b, l, r, W),
           NEW c \in Seq(Event), NEW m \in Seq(Event), NEW t, NEW V,
           Stretch(c, b), Stretch(m, l), Anonymous(t), Within(c, W, V), Within(m, W, V)
    PROVE  Orderly(c, m, t, V)
<1>1. PICK x \in Int, y \in Int : Part(c, b, x) /\ Part(m, l, y)
  BY DEF Stretch
<1>2. /\ \A i \in DOMAIN c : c[i].from \in W => c[i].from \in V
      /\ \A i \in DOMAIN m : m[i].from \in W => m[i].from \in V
  BY DEF Within
<1> QED BY <1>1, <1>2, OrderlyParts

LEMMA StretchOfItself == ASSUME NEW q \in Seq(Event) PROVE Stretch(q, q)
BY PartOfItself DEF Stretch

LEMMA WithinItself == ASSUME NEW q, NEW W PROVE Within(q, W, W)
BY DEF Within

LEMMA OrderlyHead ==
    ASSUME NEW b \in Seq(Event), NEW l \in Seq(Event), NEW r, NEW W, Orderly(b, l, r, W),
           W \subseteq Peer, b # <<>>
    PROVE  Orderly(Tail(b), l, r, W \ {Head(b).from})
<1>1. Tail(b) \in Seq(Event) /\ Part(Tail(b), b, 1) /\ Part(l, l, 0)
  BY PartOfTail, PartOfItself
<1>2. 1 \in DOMAIN b /\ b[1] = Head(b)
  OBVIOUS
<1>3. ASSUME NEW i \in DOMAIN Tail(b), Tail(b)[i].from \in W
      PROVE  Tail(b)[i].from \in W \ {Head(b).from}
  <2>1. Tail(b)[i] = b[i + 1] /\ i + 1 \in DOMAIN b
    BY <1>1, <1>3 DEF Part
  <2>2. i + 1 # 1
    BY <1>1, <1>3
  <2> QED BY <1>2, <1>3, <2>1, <2>2 DEF Orderly, Once
<1>4. ASSUME NEW i \in DOMAIN l, l[i].from \in W PROVE l[i].from \in W \ {Head(b).from}
  BY <1>2, <1>4 DEF Orderly, Apart
<1>5. Stretch(Tail(b), b) /\ Stretch(l, l) /\ Anonymous(r)
  BY <1>1 DEF Stretch, Orderly
<1>6. Within(Tail(b), W, W \ {Head(b).from}) /\ Within(l, W, W \ {Head(b).from})
  BY <1>3, <1>4 DEF Within
<1> DEFINE c == Tail(b)
           V == W \ {Head(b).from}
<1>7. c \in Seq(Event) /\ Stretch(c, b) /\ Within(c, W, V) /\ Within(l, W, V)
  BY <1>1, <1>5, <1>6
<1>8. c = Tail(b) /\ V = W \ {Head(b).from}
  OBVIOUS
<1> HIDE DEF c, V
<1>9. Orderly(c, l, r, V)
  BY <1>5, <1>7, OrderlyStretches
<1> QED BY <1>8, <1>9

LEMMA OrderlyClosed ==
    ASSUME NEW b \in Seq(Event), NEW l \in Seq(Event), NEW r, NEW W, Orderly(b, l, r, W), b # <<>>
    PROVE  Orderly(AfterClosed(b), l, r, W)
<1>1. Len(b) \in Nat /\ Len(b) # 0 /\ DOMAIN b = 1 .. Len(b)
  OBVIOUS
<1>2. AfterClosed(b) \in Seq(Event) /\ Part(AfterClosed(b), b, 1)
  <2>1. CASE Len(b) = 1
    <3>1. AfterClosed(b) = <<>>
      BY <2>1, SubSeqEmpty DEF AfterClosed
    <3> QED BY <3>1 DEF Part
  <2>2. CASE Len(b) > 1
    <3>1. /\ AfterClosed(b) \in Seq(Event) /\ Len(AfterClosed(b)) = Len(b) - 2
          /\ \A i \in 1 .. Len(b) - 2 : AfterClosed(b)[i] = b[i + 1]
      <4>1. 2 \in 1 .. Len(b) + 1 /\ Len(b) - 1 \in 0 .. Len(b) /\ 2 <= Len(b) - 1 + 1
        BY <1>1, <2>2
      <4>2. Len(b) - 1 + 1 - 2 = Len(b) - 2 /\ \A i \in Int : 2 + i - 1 = i + 1
        BY <1>1
      <4>3. DOMAIN AfterClosed(b) = 1 .. Len(b) - 2
        BY <4>1, <4>2, Slice DEF AfterClosed
      <4> QED BY <4>1, <4>2, Slice DEF AfterClosed
    <3>2. \A i \in DOMAIN AfterClosed(b) : i + 1 \in DOMAIN b /\ AfterClosed(b)[i] = b[i + 1]
      BY <1>1, <3>1
    <3> QED BY <3>1, <3>2 DEF Part
  <2> QED BY <1>1, <2>1, <2>2
<1>3. Stretch(AfterClosed(b), b) /\ Stretch(l, l) /\ Anonymous(r)
  BY <1>2, StretchOfItself DEF Stretch, Orderly
<1> QED BY <1>2, <1>3, WithinItself, OrderlyStretches

LEMMA OrderlyCrash ==
    ASSUME NEW b \in Seq(Event), NEW l \in Seq(Event), NEW r, NEW W, Orderly(b, l, r, W),
           NEW p \in Peer
    PROVE  Orderly(Orphaned(b, p), Orphaned(l, p), r, W \ {p})
<1>1. /\ Orphaned(b, p) \in Seq(Event) /\ Part(Orphaned(b, p), b, 0)
      /\ Orphaned(l, p) \in Seq(Event) /\ Part(Orphaned(l, p), l, 0)
      /\ \A i \in DOMAIN Orphaned(b, p) : Orphaned(b, p)[i].from # p
      /\ \A i \in DOMAIN Orphaned(l, p) : Orphaned(l, p)[i].from # p
  BY PartOfOrphaned
<1>2. Stretch(Orphaned(b, p), b) /\ Stretch(Orphaned(l, p), l) /\ Anonymous(r)
  BY <1>1 DEF Stretch, Orderly
<1>3. Within(Orphaned(b, p), W, W \ {p}) /\ Within(Orphaned(l, p), W, W \ {p})
  BY <1>1 DEF Within
<1> QED BY <1>1, <1>2, <1>3, OrderlyStretches

LEMMA OrderlyReport ==
    ASSUME NEW b \in Seq(Event), NEW l \in Seq(Event), NEW r, NEW W, Orderly(b, l, r, W),
           NEW p \in Peer
    PROVE  Orderly(b, Append(l, DeadNode(p)), r, W)
<1>1. /\ Append(l, DeadNode(p)) \in Seq(Event) /\ Part(Append(l, DeadNode(p)), l, 0)
      /\ Part(b, b, 0)
  BY NobodysEvents, PartOfAppend, PartOfItself
<1>2. Stretch(Append(l, DeadNode(p)), l) /\ Stretch(b, b) /\ Anonymous(r)
  BY <1>1 DEF Stretch, Orderly
<1> QED BY <1>1, <1>2, WithinItself, OrderlyStretches

LEMMA OrderlyReady ==
    ASSUME NEW b, NEW l, NEW r \in Seq(Event), NEW W, Orderly(b, l, r, W), NEW p \in Peer
    PROVE  /\ Append(r, Closed(p)) \in Seq(Event) /\ Orderly(b, l, Append(r, Closed(p)), W)
           /\ Orderly(b, l, r \o <<>>, W) /\ Orderly(b, l, r \o <<Closed(p)>>, W)
<1>1. Anonymous(Append(r, Closed(p)))
  BY NobodysEvents, AnonymousAppend DEF Orderly
<1>2. Closed(p) \in Event
  BY NobodysEvents
<1>3. r \o <<>> = r /\ r \o <<Closed(p)>> = Append(r, Closed(p)) /\ Append(r, Closed(p)) \in Seq(Event)
  BY <1>2
<1> QED BY <1>1, <1>3 DEF Orderly

LEMMA RequestsInit == Init => Requests
BY DEF Init, SeedInit, Requests, Orderly, Proper, Once, Apart, Anonymous

LEMMA RequestsSeed ==
    ASSUME TypeOK, Requests, NEW s \in Seed, SeedStep(s)
    PROVE  Requests'
<1>0. SeedTypeOK /\ JoinTypeOK
  BY TypeOKParts
<1>1. /\ \A r \in Seed : batch[r] \in Seq(Event) /\ backlog[r] \in Seq(Event) /\ ready[r] \in Seq(Event)
      /\ \A r \in Seed : Orderly(batch[r], backlog[r], ready[r], Waits(r))
      /\ \A r \in Seed : Waits(r) \subseteq Peer
  BY <1>0 DEF SeedTypeOK, Requests, Waits
<1>2. UNCHANGED joinVars => \A r \in Seed : Waits(r)' = Waits(r)
  BY DEF joinVars, Waits
<1> SUFFICES ASSUME NEW r \in Seed PROVE Orderly(batch'[r], backlog'[r], ready'[r], Waits(r)')
  BY DEF Requests
<1>3. CASE EpollWait(s) /\ UNCHANGED <<joinVars, watchVars, historyVars>>
  <2>1. CASE r # s
    <3>1. batch'[r] = batch[r] /\ backlog'[r] = backlog[r] /\ ready'[r] = ready[r]
      BY <1>0, <1>3, <2>1 DEF EpollWait, SeedTypeOK
    <3> QED BY <1>1, <1>2, <1>3, <3>1
  <2>2. CASE r = s
    <3>1. PICK n \in {0, 1} :
            /\ n <= Len(backlog[s])
            /\ batch' = [batch EXCEPT ![s] = ready[s] \o SubSeq(backlog[s], 1, n)]
            /\ backlog' = [backlog EXCEPT ![s] = SubSeq(@, n + 1, Len(@))]
      BY <1>3 DEF EpollWait
    <3>2. /\ batch'[s] = ready[s] \o SubSeq(backlog[s], 1, n)
          /\ backlog'[s] = SubSeq(backlog[s], n + 1, Len(backlog[s]))
          /\ ready'[s] = <<>> /\ batch[s] = <<>>
      BY <1>0, <1>3, <3>1 DEF EpollWait, SeedTypeOK
    <3>3. n \in Nat
      OBVIOUS
    <3>4. Orderly(<<>>, backlog[s], ready[s], Waits(s))
      BY <1>1, <3>2
    <3>5. Orderly(ready[s] \o SubSeq(backlog[s], 1, n), SubSeq(backlog[s], n + 1, Len(backlog[s])),
                  <<>>, Waits(s))
      BY <1>1, <3>1, <3>3, <3>4, OrderlyWait
    <3> QED BY <1>2, <1>3, <2>2, <3>2, <3>5
  <2> QED BY <2>1, <2>2
<1>4. CASE ServeClosed(s)
  <2>1. batch'[r] = (IF r = s THEN AfterClosed(batch[s]) ELSE batch[r]) /\ batch[s] # <<>>
    BY <1>0, <1>4 DEF ServeClosed, HandleClosed, Handles, SeedTypeOK
  <2>2. backlog'[r] = backlog[r] /\ ready'[r] = ready[r] /\ UNCHANGED joinVars
    BY <1>4 DEF ServeClosed, HandleClosed
  <2> QED BY <1>1, <1>2, <2>1, <2>2, OrderlyClosed
<1>5. CASE ServePeerList(s)
  <2> DEFINE p == Head(batch[s]).from
  <2>1. batch'[r] = (IF r = s THEN Tail(batch[s]) ELSE batch[r]) /\ batch[s] # <<>>
    BY <1>0, <1>5 DEF ServePeerList, HandlePeerList, Handles, SeedTypeOK
  <2>2. backlog'[r] = backlog[r] /\ ready'[r] = ready[r]
    BY <1>5 DEF ServePeerList, HandlePeerList
  <2>3. Head(batch[s]) \in Event /\ 1 \in DOMAIN batch[s] /\ batch[s][1] = Head(batch[s])
    BY <1>1, <2>1, HeadTailTypes
  <2>4. p \in Peer => phase[p] = "waits" /\ asking[p] = s
    BY <1>1, <2>3 DEF Orderly, Proper, Waits
  <2>5. Waits(r)' = IF r = s THEN Waits(s) \ {p} ELSE Waits(r)
    <3>1. CASE p = Nobody
      <4>1. Waits(r)' = Waits(r)
        BY <1>5, <3>1 DEF ServePeerList, Waits
      <4>2. p \notin Waits(s)
        BY <3>1, SeedAssumption DEF Waits
      <4> QED BY <4>1, <4>2
    <3>2. CASE p # Nobody
      <4>1. p \in Peer
        BY <2>3, <3>2 DEF Event
      <4>2. phase' = [phase EXCEPT ![p] = "closes"] /\ asking' = asking
        BY <1>5, <3>2 DEF ServePeerList
      <4>3. \A q \in Peer : phase'[q] = IF q = p THEN "closes" ELSE phase[q]
        BY <1>0, <4>1, <4>2 DEF JoinTypeOK
      <4> QED BY <2>4, <4>1, <4>2, <4>3 DEF Waits
    <3> QED BY <3>1, <3>2
  <2> HIDE DEF p
  <2>6. CASE r = s
    <3>1. Orderly(Tail(batch[s]), backlog[s], ready[s], Waits(s) \ {p})
      BY <1>1, <2>1, OrderlyHead DEF p
    <3> QED BY <2>1, <2>2, <2>5, <2>6, <3>1
  <2>7. CASE r # s
    BY <1>1, <2>1, <2>2, <2>5, <2>7
  <2> QED BY <2>6, <2>7
<1>6. CASE ServeDeadNode(s)
  <2> DEFINE e == Head(batch[s])
  <2>1. batch'[r] = (IF r = s THEN Tail(batch[s]) ELSE batch[r]) /\ batch[s] # <<>>
    BY <1>0, <1>6 DEF ServeDeadNode, HandleDeadNode, Handles, SeedTypeOK
  <2>2. backlog'[r] = backlog[r] /\ UNCHANGED joinVars
    BY <1>6 DEF ServeDeadNode, HandleDeadNode
  <2>3. e \in Event /\ e.about \in Peer
    <3>1. e \in Event
      BY <1>1, <2>1, HeadTailTypes
    <3> QED BY <3>1 DEF Event
  <2>4. /\ r # s => ready'[r] = ready[r]
        /\ ready'[s] \in {ready[s] \o <<>>, ready[s] \o <<Closed(e.about)>>}
    BY <1>0, <1>6 DEF ServeDeadNode, HandleDeadNode, SeedTypeOK
  <2> HIDE DEF e
  <2>5. CASE r = s
    <3>1. Part(Tail(batch[s]), batch[s], 1) /\ Tail(batch[s]) \in Seq(Event) /\ Part(backlog[s], backlog[s], 0)
      BY <1>1, <2>1, PartOfTail, PartOfItself
    <3>2. Orderly(Tail(batch[s]), backlog[s], ready[s], Waits(s))
      <4>1. Stretch(Tail(batch[s]), batch[s]) /\ Stretch(backlog[s], backlog[s]) /\ Anonymous(ready[s])
        BY <1>1, <3>1 DEF Stretch, Orderly
      <4> QED BY <1>1, <3>1, <4>1, WithinItself, OrderlyStretches
    <3>3. Orderly(Tail(batch[s]), backlog[s], ready'[s], Waits(s))
      <4>1. ready[s] \in Seq(Event)
        BY <1>1
      <4>2. /\ Orderly(Tail(batch[s]), backlog[s], ready[s] \o <<>>, Waits(s))
            /\ Orderly(Tail(batch[s]), backlog[s], ready[s] \o <<Closed(e.about)>>, Waits(s))
        BY <2>3, <3>2, <4>1, OrderlyReady
      <4>3. CASE ready'[s] = ready[s] \o <<>>
        BY <4>2, <4>3
      <4>4. CASE ready'[s] = ready[s] \o <<Closed(e.about)>>
        BY <4>2, <4>4
      <4> QED BY <2>4, <4>3, <4>4
    <3> QED BY <1>2, <2>1, <2>2, <2>5, <3>3
  <2>6. CASE r # s
    BY <1>1, <1>2, <2>1, <2>2, <2>4, <2>6
  <2> QED BY <2>5, <2>6
<1> QED BY <1>3, <1>4, <1>5, <1>6 DEF SeedStep

LEMMA RequestsQuery ==
    ASSUME TypeOK, Requests, NEW p \in Peer, NEW s \in Seed, Query(p, s)
    PROVE  Requests'
<1>0. SeedTypeOK /\ JoinTypeOK
  BY TypeOKParts
<1> SUFFICES ASSUME NEW r \in Seed PROVE Orderly(batch'[r], backlog'[r], ready'[r], Waits(r)')
  BY DEF Requests
<1>1. /\ batch[r] \in Seq(Event) /\ backlog[r] \in Seq(Event)
      /\ Orderly(batch[r], backlog[r], ready[r], Waits(r))
  BY <1>0 DEF SeedTypeOK, Requests
<1>2. /\ batch'[r] = batch[r] /\ ready'[r] = ready[r]
      /\ backlog'[r] = IF r = s THEN Append(backlog[r], ListRequest(p)) ELSE backlog[r]
  BY <1>0 DEF Query, Arrives, SeedTypeOK
<1>3. phase[p] = "queries"
  BY DEF Query
<1>4. \A q \in Peer : /\ phase'[q] = IF q = p THEN "waits" ELSE phase[q]
                      /\ asking'[q] = IF q = p THEN s ELSE asking[q]
  BY <1>0 DEF Query, JoinTypeOK
<1>5. Waits(r)' = (IF r = s THEN Waits(r) \cup {p} ELSE Waits(r)) /\ p \notin Waits(r)
  BY <1>3, <1>4 DEF Waits
<1> QED BY <1>1, <1>2, <1>5, OrderlyAppend

LEMMA RequestsPeer ==
    ASSUME TypeOK, Requests, NEW p \in Peer, Start(p) \/ Joining(p)
    PROVE  Requests'
<1>0. SeedTypeOK /\ JoinTypeOK
  BY TypeOKParts
<1>1. ASSUME UNCHANGED <<batch, backlog, ready, asking>>, NEW h, h # "waits",
             phase[p] # "waits", phase' = [phase EXCEPT ![p] = h]
      PROVE  Requests'
  <2>1. \A q \in Peer : phase'[q] = "waits" <=> phase[q] = "waits"
    BY <1>0, <1>1 DEF JoinTypeOK
  <2>2. \A r \in Seed : Waits(r)' = Waits(r)
    BY <1>1, <2>1 DEF Waits
  <2> QED BY <1>1, <2>2 DEF Requests
<1>2. CASE Start(p)
  BY <1>1, <1>2 DEF Start, seedVars
<1>3. CASE \E s \in Seed : Query(p, s)
  BY <1>3, RequestsQuery
<1>4. CASE HangUp(p)
  <2>1. /\ phase[p] = "closes" /\ phase' = [phase EXCEPT ![p] = "queries"]
        /\ UNCHANGED <<batch, backlog, asking>>
    BY <1>4 DEF HangUp, HangsUp
  <2>2. \A q \in Peer : phase'[q] = "waits" <=> phase[q] = "waits"
    BY <1>0, <2>1 DEF JoinTypeOK
  <2> SUFFICES ASSUME NEW r \in Seed PROVE Orderly(batch[r], backlog[r], ready'[r], Waits(r)')
    BY <2>1 DEF Requests
  <2>3. ready'[r] \in {ready[r], Append(ready[r], Closed(p))} /\ ready[r] \in Seq(Event)
    BY <1>0, <1>4 DEF HangUp, HangsUp, SeedTypeOK
  <2>4. Waits(r)' = Waits(r)
    BY <2>1, <2>2 DEF Waits
  <2>5. Orderly(batch[r], backlog[r], ready[r], Waits(r))
    BY DEF Requests
  <2> QED BY <2>3, <2>4, <2>5, OrderlyReady
<1>5. CASE Pick(p)
  BY <1>1, <1>5 DEF Pick, seedVars
<1>6. CASE \E q \in Peer : Link(p, q)
  BY <1>6 DEF Link, seedVars, Requests, Waits
<1>7. CASE Serve(p)
  BY <1>1, <1>7 DEF Serve, seedVars
<1> QED BY <1>2, <1>3, <1>4, <1>5, <1>6, <1>7 DEF Joining

LEMMA RequestsCrash ==
    ASSUME TypeOK, Requests, NEW p \in Peer, Crash(p)
    PROVE  Requests'
<1>0. SeedTypeOK /\ JoinTypeOK
  BY TypeOKParts
<1> SUFFICES ASSUME NEW r \in Seed PROVE Orderly(batch'[r], backlog'[r], ready'[r], Waits(r)')
  BY DEF Requests
<1>1. /\ batch[r] \in Seq(Event) /\ backlog[r] \in Seq(Event) /\ ready[r] \in Seq(Event)
      /\ Orderly(batch[r], backlog[r], ready[r], Waits(r))
  BY <1>0 DEF SeedTypeOK, Requests
<1>2. /\ batch'[r] = Orphaned(batch[r], p) /\ backlog'[r] = Orphaned(backlog[r], p)
      /\ ready'[r] \in {ready[r], Append(ready[r], Closed(p))}
  BY DEF Crash
<1>3. \A q \in Peer : phase'[q] = IF q = p THEN "down" ELSE phase[q]
  BY <1>0 DEF Crash, JoinTypeOK
<1>4. asking' = asking
  BY DEF Crash
<1>5. Waits(r)' = Waits(r) \ {p}
  BY <1>3, <1>4 DEF Waits
<1>6. Orderly(Orphaned(batch[r], p), Orphaned(backlog[r], p), ready[r], Waits(r) \ {p})
  BY <1>1, OrderlyCrash
<1>7. Orderly(Orphaned(batch[r], p), Orphaned(backlog[r], p), ready'[r], Waits(r) \ {p})
  <2>1. Orderly(Orphaned(batch[r], p), Orphaned(backlog[r], p), Append(ready[r], Closed(p)),
                Waits(r) \ {p})
    BY <1>1, <1>6, OrderlyReady
  <2> QED BY <1>2, <1>6, <2>1
<1> QED BY <1>2, <1>5, <1>7

LEMMA RequestsWatch ==
    ASSUME TypeOK, Requests, NEW p \in Peer, NEW q \in Peer, NEW n \in Slots,
           Watch(p, q, n) \/ Answer(p, q, n)
    PROVE  Requests'
<1>0. SeedTypeOK /\ WatchTypeOK
  BY TypeOKParts
<1>1. CASE UNCHANGED <<seedVars, joinVars>>
  BY <1>1 DEF seedVars, joinVars, Requests, Waits
<1>2. CASE Report(p, q, n)
  <2>1. PICK s \in thread[p][q][n].todo : Arrives(s, DeadNode(q))
    BY <1>2 DEF Report
  <2>2. UNCHANGED joinVars /\ \A r \in Seed : Waits(r)' = Waits(r)
    BY <1>2 DEF Report, joinVars, Waits
  <2> SUFFICES ASSUME NEW r \in Seed PROVE Orderly(batch'[r], backlog'[r], ready'[r], Waits(r))
    BY <2>2 DEF Requests
  <2>3. /\ batch'[r] = batch[r] /\ ready'[r] = ready[r]
        /\ backlog'[r] \in {backlog[r], Append(backlog[r], DeadNode(q))}
    BY <1>0, <2>1 DEF Arrives, SeedTypeOK
  <2>4. /\ batch[r] \in Seq(Event) /\ backlog[r] \in Seq(Event)
        /\ Orderly(batch[r], backlog[r], ready[r], Waits(r))
    BY <1>0 DEF SeedTypeOK, Requests
  <2> QED BY <2>3, <2>4, OrderlyReport
<1>3. Report(p, q, n) \/ UNCHANGED <<seedVars, joinVars>>
  BY DEF Watch, Ask, Hear, Timeout, Bury, Answer
<1> QED BY <1>1, <1>2, <1>3

LEMMA RequestsStep == TypeOK /\ Requests /\ [Next]_vars => Requests'
<1> SUFFICES ASSUME TypeOK, Requests, [Next]_vars PROVE Requests'
  OBVIOUS
<1>1. CASE UNCHANGED vars
  BY <1>1 DEF vars, seedVars, joinVars, Requests, Waits
<1>2. CASE Next
  BY <1>2, RequestsSeed, RequestsPeer, RequestsCrash, RequestsWatch DEF Next
<1> QED BY <1>1, <1>2

-----------------------------------------------------------------------------
(* What the seeds have told.                                               *)

(* p has the list of s.                                                    *)
Told(p, s) == s \in seeds[p] \ unasked[p] /\ ~(phase[p] = "waits" /\ asking[p] = s)

Progress ==
  \A p \in Peer :
    /\ IF phase[p] = "down" THEN seeds[p] = {} ELSE Cardinality(seeds[p]) = Enough
    /\ HasLists(p) => unasked[p] = {}

ListsKept == \A p \in Peer, s \in Seed : Told(p, s) /\ p \notin buried => p \in peers[s]

PairsTold ==
  \A p, q \in Peer, s \in Seed :
    Told(p, s) /\ Told(q, s) /\ p # q /\ p \notin buried /\ q \notin buried
      => found[p][q] > 0 \/ found[q][p] > 0

Knowing == Requests /\ Progress /\ ListsKept /\ PairsTold

LEMMA KnowingInit == Init => Knowing
<1> SUFFICES ASSUME Init PROVE Knowing
  OBVIOUS
<1>1. \A p \in Peer : seeds[p] = {} /\ phase[p] = "down"
  BY DEF Init
<1>2. \A p \in Peer, s \in Seed : ~Told(p, s)
  BY <1>1 DEF Told
<1> QED BY <1>1, <1>2, RequestsInit DEF Knowing, Progress, ListsKept, PairsTold, HasLists

(* Who gets an answer waits for it, and is entered.                        *)
LEMMA Addressee ==
    ASSUME TypeOK, Requests, NEW s \in Seed, ServePeerList(s)
    PROVE  /\ Head(batch[s]).about \in Peer
           /\ Head(batch[s]).from # Nobody
                => /\ Head(batch[s]).from \in Peer /\ Head(batch[s]).about = Head(batch[s]).from
                   /\ phase[Head(batch[s]).from] = "waits" /\ asking[Head(batch[s]).from] = s
<1>0. SeedTypeOK
  BY TypeOKParts
<1>1. batch[s] \in Seq(Event) /\ batch[s] # <<>>
  BY <1>0 DEF SeedTypeOK, ServePeerList, HandlePeerList, Handles
<1>2. 1 \in DOMAIN batch[s] /\ batch[s][1] = Head(batch[s])
  BY <1>1
<1>3. Head(batch[s]) \in Event
  BY <1>1, HeadTailTypes
<1>4. Head(batch[s]).about \in Peer /\ (Head(batch[s]).from # Nobody => Head(batch[s]).from \in Peer)
  BY <1>3 DEF Event
<1>5. Proper(batch[s], Waits(s))
  BY DEF Requests, Orderly
<1> QED BY <1>2, <1>4, <1>5 DEF Proper, Waits

(* Of one peer the phase changes, and its seeds, or nothing.               *)
LEMMA ProgressStep ==
    ASSUME TypeOK, Requests, Progress, [Next]_vars
    PROVE  Progress'
<1>0. JoinTypeOK
  BY TypeOKParts
<1>1. CASE UNCHANGED <<phase, seeds, unasked>>
  BY <1>1 DEF Progress, HasLists
<1>2. ASSUME NEW p \in Peer, NEW h, h \notin {"down", "links", "serves"}, phase[p] # "down",
             phase' = [phase EXCEPT ![p] = h], UNCHANGED seeds,
             \A q \in Peer : q # p => unasked'[q] = unasked[q]
      PROVE  Progress'
  <2>1. \A q \in Peer : phase'[q] = IF q = p THEN h ELSE phase[q]
    BY <1>0, <1>2 DEF JoinTypeOK
  <2> QED BY <1>2, <2>1 DEF Progress, HasLists
<1>3. ASSUME NEW p \in Peer, NEW h \in {"links", "serves"}, phase[p] # "down",
             phase' = [phase EXCEPT ![p] = h], UNCHANGED <<seeds, unasked>>, unasked[p] = {}
      PROVE  Progress'
  <2>1. \A q \in Peer : phase'[q] = IF q = p THEN h ELSE phase[q]
    BY <1>0, <1>3 DEF JoinTypeOK
  <2> QED BY <1>3, <2>1 DEF Progress, HasLists
<1>4. ASSUME NEW p \in Peer, Start(p) PROVE Progress'
  <2>1. PICK chosen \in SUBSET Seed :
          /\ Cardinality(chosen) = Enough
          /\ seeds' = [seeds EXCEPT ![p] = chosen]
          /\ unasked' = [unasked EXCEPT ![p] = chosen]
    BY <1>4 DEF Start
  <2>2. \A q \in Peer : /\ phase'[q] = IF q = p THEN "queries" ELSE phase[q]
                        /\ seeds'[q] = IF q = p THEN chosen ELSE seeds[q]
                        /\ unasked'[q] = IF q = p THEN chosen ELSE unasked[q]
    BY <1>0, <1>4, <2>1 DEF Start, JoinTypeOK
  <2> QED BY <2>1, <2>2 DEF Progress, HasLists
<1>5. ASSUME NEW p \in Peer, Joining(p) PROVE Progress'
  <2>1. ASSUME NEW s \in Seed, Query(p, s) PROVE Progress'
    <3>1. \A q \in Peer : q # p => unasked'[q] = unasked[q]
      BY <1>0, <2>1 DEF Query, JoinTypeOK
    <3> QED BY <1>2, <2>1, <3>1 DEF Query
  <2>2. CASE HangUp(p)
    BY <1>2, <2>2 DEF HangUp
  <2>3. CASE Pick(p)
    BY <1>3, <2>3 DEF Pick
  <2>4. CASE \E q \in Peer : Link(p, q)
    BY <1>1, <2>4 DEF Link
  <2>5. CASE Serve(p)
    <3>1. unasked[p] = {}
      BY <2>5 DEF Serve, Progress, HasLists
    <3> QED BY <1>3, <2>5, <3>1 DEF Serve
  <2> QED BY <1>5, <2>1, <2>2, <2>3, <2>4, <2>5 DEF Joining
<1>6. ASSUME NEW p \in Peer, Crash(p) PROVE Progress'
  <2>1. \A q \in Peer : /\ phase'[q] = IF q = p THEN "down" ELSE phase[q]
                        /\ seeds'[q] = IF q = p THEN {} ELSE seeds[q]
                        /\ unasked'[q] = IF q = p THEN {} ELSE unasked[q]
    BY <1>0, <1>6 DEF Crash, JoinTypeOK
  <2> QED BY <2>1 DEF Progress, HasLists
<1>7. ASSUME NEW s \in Seed, SeedStep(s) PROVE Progress'
  <2>1. CASE ServePeerList(s)
    <3>1. CASE Head(batch[s]).from = Nobody
      BY <1>1, <2>1, <3>1 DEF ServePeerList
    <3>2. CASE Head(batch[s]).from # Nobody
      <4> DEFINE p == Head(batch[s]).from
      <4>1. p \in Peer /\ phase[p] = "waits"
        BY <2>1, <3>2, Addressee
      <4>2. phase' = [phase EXCEPT ![p] = "closes"] /\ UNCHANGED <<seeds, unasked>>
        BY <2>1, <3>2 DEF ServePeerList
      <4> HIDE DEF p
      <4> QED BY <1>2, <4>1, <4>2
    <3> QED BY <3>1, <3>2
  <2>2. CASE ~ServePeerList(s)
    BY <1>1, <1>7, <2>2 DEF SeedStep, ServeClosed, ServeDeadNode, joinVars
  <2> QED BY <2>1, <2>2
<1>8. ASSUME NEW p \in Peer, NEW q \in Peer, NEW n \in Slots, Watch(p, q, n) \/ Answer(p, q, n)
      PROVE  Progress'
  BY <1>1, <1>8 DEF Watch, Ask, Hear, Timeout, Bury, Report, Answer, joinVars
<1>9. CASE UNCHANGED vars
  BY <1>1, <1>9 DEF vars, joinVars
<1> QED BY <1>4, <1>5, <1>6, <1>7, <1>8, <1>9 DEF Next

(* Nobody is told anything new, and nobody forgets what it was told.       *)
LEMMA NothingTold ==
    ASSUME ListsKept, PairsTold, buried \subseteq buried',
           \A p \in Peer, s \in Seed : Told(p, s)' => Told(p, s) /\ found'[p] = found[p],
           \A p \in Peer, s \in Seed : p \in peers[s] /\ p \notin buried' => p \in peers'[s]
    PROVE  ListsKept' /\ PairsTold'
<1>1. ListsKept'
  BY DEF ListsKept
<1>2. PairsTold'
  <2> SUFFICES ASSUME NEW p \in Peer, NEW q \in Peer, NEW s \in Seed, Told(p, s)', Told(q, s)', p # q,
                      p \notin buried', q \notin buried'
               PROVE  found'[p][q] > 0 \/ found'[q][p] > 0
    BY DEF PairsTold
  <2>1. Told(p, s) /\ Told(q, s) /\ found'[p] = found[p] /\ found'[q] = found[q]
    OBVIOUS
  <2> QED BY <2>1 DEF PairsTold
<1> QED BY <1>1, <1>2

(* An answer: the asker is entered and told of whoever was entered before. *)
LEMMA AnswerTells ==
    ASSUME TypeOK, Requests, ListsKept, PairsTold, NEW s \in Seed, ServePeerList(s)
    PROVE  ListsKept' /\ PairsTold'
<1>0. SeedTypeOK /\ JoinTypeOK
  BY TypeOKParts
<1> DEFINE p == Head(batch[s]).from
           a == Head(batch[s]).about
<1>1. /\ a \in Peer /\ \A r \in Seed : peers'[r] = IF r = s THEN peers[r] \cup {a} ELSE peers[r]
  BY <1>0, Addressee DEF ServePeerList, HandlePeerList, AddPeer, SeedTypeOK
<1>2. UNCHANGED <<buried, seeds, unasked, asking>>
  BY DEF ServePeerList, historyVars
<1>3. CASE p = Nobody
  <2>1. UNCHANGED <<found, phase>>
    BY <1>3 DEF ServePeerList
  <2>2. \A q \in Peer, r \in Seed : Told(q, r)' => Told(q, r) /\ found'[q] = found[q]
    BY <1>2, <2>1 DEF Told
  <2>3. \A q \in Peer, r \in Seed : q \in peers[r] => q \in peers'[r]
    BY <1>1
  <2> QED BY <1>2, <2>2, <2>3, NothingTold
<1>4. CASE p # Nobody
  <2>1. p \in Peer /\ a = p /\ phase[p] = "waits" /\ asking[p] = s
    BY <1>4, Addressee
  <2>2. /\ \A q \in Peer : /\ found'[q] = IF q = p THEN Heard(p, s) ELSE found[q]
                           /\ phase'[q] = IF q = p THEN "closes" ELSE phase[q]
    BY <1>0, <1>4, <2>1 DEF ServePeerList, JoinTypeOK
  <2>3. \A q \in Peer, r \in Seed : Told(q, r)' => Told(q, r) \/ <<q, r>> = <<p, s>>
    BY <1>2, <2>1, <2>2 DEF Told
  <2>4. \A q \in Peer : /\ found[p][q] \in Nat /\ Heard(p, s)[q] \in Nat
                        /\ Heard(p, s)[q] >= found[p][q]
                        /\ q \in peers[s] => Heard(p, s)[q] > 0
    <3> SUFFICES ASSUME NEW q \in Peer
                 PROVE  /\ found[p][q] \in Nat /\ Heard(p, s)[q] \in Nat
                        /\ Heard(p, s)[q] >= found[p][q]
                        /\ q \in peers[s] => Heard(p, s)[q] > 0
      OBVIOUS
    <3>1. found[p][q] \in Nat
      BY <1>0, <2>1 DEF JoinTypeOK
    <3>2. Heard(p, s)[q] = found[p][q] + IF q \in peers[s] THEN 1 ELSE 0
      BY DEF Heard
    <3> QED BY <3>1, <3>2
  <2> HIDE DEF p, a
  <2>5. ListsKept'
    BY <1>1, <1>2, <2>1, <2>3 DEF ListsKept
  <2>6. ASSUME NEW x \in Peer, NEW y \in Peer, NEW r \in Seed, Told(x, r)', Told(y, r)', x # y,
               x \notin buried, y \notin buried
        PROVE  found'[x][y] > 0 \/ found'[y][x] > 0
    <3>1. CASE Told(x, r) /\ Told(y, r)
      <4>1. found[x][y] > 0 \/ found[y][x] > 0
        BY <2>6, <3>1 DEF PairsTold
      <4> QED BY <2>1, <2>2, <2>4, <2>6, <4>1
    <3>2. CASE ~Told(x, r)
      <4>1. x = p /\ r = s /\ y # p
        BY <2>3, <2>6, <3>2
      <4>2. y \in peers[s]
        BY <2>3, <2>6, <4>1 DEF ListsKept
      <4> QED BY <2>1, <2>2, <2>4, <4>1, <4>2
    <3>3. CASE ~Told(y, r)
      <4>1. y = p /\ r = s /\ x # p
        BY <2>3, <2>6, <3>3
      <4>2. x \in peers[s]
        BY <2>3, <2>6, <4>1 DEF ListsKept
      <4> QED BY <2>1, <2>2, <2>4, <4>1, <4>2
    <3> QED BY <3>1, <3>2, <3>3
  <2>7. PairsTold'
    BY <1>2, <2>6 DEF PairsTold
  <2> QED BY <2>5, <2>7
<1> QED BY <1>3, <1>4

LEMMA TellingStep ==
    ASSUME TypeOK, Requests, ListsKept, PairsTold, [Next]_vars
    PROVE  ListsKept' /\ PairsTold'
<1>0. SeedTypeOK /\ JoinTypeOK
  BY TypeOKParts
<1>1. CASE UNCHANGED <<peers, buried, phase, seeds, unasked, asking, found>>
  BY <1>1, NothingTold DEF Told
<1>2. ASSUME NEW p \in Peer, UNCHANGED <<peers, buried>>,
             \A q \in Peer : q # p => /\ phase'[q] = phase[q] /\ seeds'[q] = seeds[q]
                                     /\ unasked'[q] = unasked[q] /\ asking'[q] = asking[q]
                                     /\ found'[q] = found[q],
             \A s \in Seed : Told(p, s)' => Told(p, s) /\ found'[p] = found[p]
      PROVE  ListsKept' /\ PairsTold'
  <2>1. \A q \in Peer, s \in Seed : Told(q, s)' => Told(q, s) /\ found'[q] = found[q]
    <3> SUFFICES ASSUME NEW q \in Peer, NEW s \in Seed, Told(q, s)'
                 PROVE  Told(q, s) /\ found'[q] = found[q]
      OBVIOUS
    <3>1. CASE q = p
      BY <1>2, <3>1
    <3>2. CASE q # p
      BY <1>2, <3>2 DEF Told
    <3> QED BY <3>1, <3>2
  <2> QED BY <1>2, <2>1, NothingTold
<1>3. ASSUME NEW p \in Peer, Start(p) PROVE ListsKept' /\ PairsTold'
  <2>1. PICK chosen \in SUBSET Seed : /\ seeds' = [seeds EXCEPT ![p] = chosen]
                                      /\ unasked' = [unasked EXCEPT ![p] = chosen]
    BY <1>3 DEF Start
  <2>2. \A q \in Peer : /\ q # p => phase'[q] = phase[q]
                        /\ seeds'[q] = IF q = p THEN chosen ELSE seeds[q]
                        /\ unasked'[q] = IF q = p THEN chosen ELSE unasked[q]
    BY <1>0, <1>3, <2>1 DEF Start, JoinTypeOK
  <2>3. UNCHANGED <<peers, buried, asking, found>>
    BY <1>3 DEF Start, seedVars, historyVars
  <2>4. \A s \in Seed : ~Told(p, s)'
    BY <2>2 DEF Told
  <2> QED BY <1>2, <2>2, <2>3, <2>4
<1>4. ASSUME NEW p \in Peer, Crash(p) PROVE ListsKept' /\ PairsTold'
  <2>1. \A q \in Peer : /\ q # p => phase'[q] = phase[q] /\ found'[q] = found[q]
                        /\ seeds'[q] = IF q = p THEN {} ELSE seeds[q]
                        /\ unasked'[q] = IF q = p THEN {} ELSE unasked[q]
    BY <1>0, <1>4 DEF Crash, JoinTypeOK
  <2>2. UNCHANGED <<peers, buried, asking>>
    BY <1>4 DEF Crash
  <2>3. \A s \in Seed : ~Told(p, s)'
    BY <2>1 DEF Told
  <2> QED BY <1>2, <2>1, <2>2, <2>3
<1>5. ASSUME NEW p \in Peer, Joining(p) PROVE ListsKept' /\ PairsTold'
  <2>1. ASSUME NEW h, phase' = [phase EXCEPT ![p] = h], phase[p] \notin {"waits"},
               UNCHANGED <<peers, buried, seeds, unasked, asking, found>>
        PROVE  ListsKept' /\ PairsTold'
    <3>1. \A q \in Peer : q # p => phase'[q] = phase[q]
      BY <1>0, <2>1 DEF JoinTypeOK
    <3>2. \A s \in Seed : Told(p, s)' => Told(p, s)
      BY <2>1 DEF Told
    <3> QED BY <1>2, <2>1, <3>1, <3>2
  <2>2. ASSUME NEW s \in Seed, Query(p, s) PROVE ListsKept' /\ PairsTold'
    <3>1. \A q \in Peer : /\ phase'[q] = IF q = p THEN "waits" ELSE phase[q]
                          /\ asking'[q] = IF q = p THEN s ELSE asking[q]
                          /\ unasked'[q] = IF q = p THEN unasked[q] \ {s} ELSE unasked[q]
      BY <1>0, <2>2 DEF Query, JoinTypeOK
    <3>2. UNCHANGED <<peers, buried, seeds, found>> /\ phase[p] = "queries"
      BY <2>2 DEF Query, Arrives, historyVars
    <3>3. \A r \in Seed : Told(p, r)' => Told(p, r)
      BY <3>1, <3>2 DEF Told
    <3> QED BY <1>2, <3>1, <3>2, <3>3
  <2>3. CASE HangUp(p)
    BY <2>1, <2>3 DEF HangUp, HangsUp, historyVars
  <2>4. CASE Pick(p)
    BY <2>1, <2>4 DEF Pick, seedVars, historyVars
  <2>5. CASE \E q \in Peer : Link(p, q)
    BY <1>1, <2>5 DEF Link, seedVars, historyVars
  <2>6. CASE Serve(p)
    BY <2>1, <2>6 DEF Serve, seedVars, historyVars
  <2> QED BY <1>5, <2>2, <2>3, <2>4, <2>5, <2>6 DEF Joining
<1>6. ASSUME NEW s \in Seed, SeedStep(s) PROVE ListsKept' /\ PairsTold'
  <2>1. CASE EpollWait(s) /\ UNCHANGED <<joinVars, watchVars, historyVars>>
    BY <1>1, <2>1 DEF EpollWait, joinVars, historyVars
  <2>2. CASE ServeClosed(s)
    BY <1>1, <2>2 DEF ServeClosed, HandleClosed, joinVars, historyVars
  <2>3. CASE ServePeerList(s)
    BY <2>3, AnswerTells
  <2>4. CASE ServeDeadNode(s)
    <3>1. /\ UNCHANGED joinVars /\ buried' = buried \cup {Head(batch[s]).about}
          /\ \A r \in Seed : peers[r] \ {Head(batch[s]).about} \subseteq peers'[r]
      BY <1>0, <2>4 DEF ServeDeadNode, HandleDeadNode, SeedTypeOK
    <3>2. \A p \in Peer, r \in Seed : Told(p, r)' => Told(p, r) /\ found'[p] = found[p]
      BY <3>1 DEF Told, joinVars
    <3>3. \A p \in Peer, r \in Seed : p \in peers[r] /\ p \notin buried' => p \in peers'[r]
      BY <3>1
    <3> QED BY <3>1, <3>2, <3>3, NothingTold
  <2> QED BY <1>6, <2>1, <2>2, <2>3, <2>4 DEF SeedStep
<1>7. ASSUME NEW p \in Peer, NEW q \in Peer, NEW n \in Slots, Watch(p, q, n) \/ Answer(p, q, n)
      PROVE  ListsKept' /\ PairsTold'
  BY <1>1, <1>7 DEF Watch, Ask, Hear, Timeout, Bury, Report, Arrives, Answer, joinVars, seedVars, historyVars
<1>8. CASE UNCHANGED vars
  BY <1>1, <1>8 DEF vars, joinVars, seedVars, historyVars
<1> QED BY <1>3, <1>4, <1>5, <1>6, <1>7, <1>8 DEF Next

LEMMA KnowingStep == TypeOK /\ Knowing /\ [Next]_vars => Knowing'
BY RequestsStep, ProgressStep, TellingStep DEF Knowing

(* Two majorities of the seeds have a seed in common.                      *)
LEMMA KnowingSuffices == TypeOK /\ Knowing => OneKnowsTheOther
<1> SUFFICES ASSUME TypeOK, Knowing, NEW p \in Peer, NEW q \in Peer, HasLists(p), HasLists(q), p # q,
                    p \notin buried, q \notin buried
             PROVE  found[p][q] > 0 \/ found[q][p] > 0
  BY DEF OneKnowsTheOther
<1>0. JoinTypeOK
  BY TypeOKParts
<1>1. /\ seeds[p] \subseteq Seed /\ seeds[q] \subseteq Seed
      /\ Cardinality(seeds[p]) = Enough /\ Cardinality(seeds[q]) = Enough
      /\ unasked[p] = {} /\ unasked[q] = {} /\ phase[p] # "waits" /\ phase[q] # "waits"
  BY <1>0 DEF JoinTypeOK, Knowing, Progress, HasLists
<1>2. Cardinality(seeds[p]) + Cardinality(seeds[q]) > Cardinality(Seed)
  BY <1>1, EnoughType
<1>3. PICK s \in Seed : s \in seeds[p] /\ s \in seeds[q]
  BY <1>1, <1>2, SeedAssumption, FS_MajoritiesIntersect
<1>4. Told(p, s) /\ Told(q, s)
  BY <1>1, <1>3 DEF Told
<1> QED BY <1>4 DEF Knowing, PairsTold

(* Whatever order the seeds are asked in and whoever dies meanwhile: two   *)
(* peers that have their lists and were never reported dead have a seed in *)
(* common, and it told one about the other.                                *)
THEOREM OneIsTold == Spec => []OneKnowsTheOther
<1>1. TypeOK /\ Knowing /\ [Next]_vars => (TypeOK /\ Knowing)'
  BY TypeStep, KnowingStep
<1> QED BY <1>1, TypeInit, KnowingInit, KnowingSuffices, PTL DEF Spec
=============================================================================
