------------------------------ MODULE SeedNode ------------------------------
(***************************************************************************)
(* The seed nodes (CS765/SeedNode/SeedNode.cpp).  A seed keeps a list of   *)
(* peers; it sends the list to who asks for it, and then enters the asker, *)
(* and it takes peers out that are reported dead.  Its one thread accepts  *)
(* at most one connection, waits for edge-triggered events and goes        *)
(* through the batch it got.  It never closes a connection: when the other *)
(* end does, that is one more event, at which the read finds nothing.      *)
(* What the peers do with the seeds is in PeerNetwork.                     *)
(***************************************************************************)
EXTENDS Naturals, Sequences, FiniteSets

CONSTANTS
  Peer,   \* addresses of peer nodes
  Seed,   \* addresses of seed nodes
  Nobody  \* the far end of a connection whose process has died

ASSUME SeedAssumption == IsFiniteSet(Peer) /\ IsFiniteSet(Seed) /\ Nobody \notin Peer

(* What a read finds on a connection: a request for the list, a report, or *)
(* nothing, after the other end has closed.  Of a request, from is who     *)
(* waits for the answer and about the address in the message.              *)
Event == [kind : {"Peer List", "Dead Node", "closed"}, from : Peer \cup {Nobody}, about : Peer]
ListRequest(p) == [kind |-> "Peer List", from |-> p, about |-> p]
DeadNode(p) == [kind |-> "Dead Node", from |-> Nobody, about |-> p]
Closed(p) == [kind |-> "closed", from |-> Nobody, about |-> p]

VARIABLES
  peers,    \* the list of each seed
  backlog,  \* connections not accepted yet, each by the message that waits on it
  ready,    \* events since the last epoll_wait, on accepted connections
  batch     \* events of the last epoll_wait not handled yet

seedVars == <<peers, backlog, ready, batch>>

SeedTypeOK ==
  /\ peers \in [Seed -> SUBSET Peer]
  /\ backlog \in [Seed -> Seq(Event)]
  /\ ready \in [Seed -> Seq(Event)]
  /\ batch \in [Seed -> Seq(Event)]

SeedInit ==
  /\ peers = [s \in Seed |-> {}]
  /\ backlog = [s \in Seed |-> <<>>]
  /\ ready = [s \in Seed |-> <<>>]
  /\ batch = [s \in Seed |-> <<>>]

(* A connection with its message arrives; an accepted one is closed.       *)
Arrives(s, e) ==
  /\ backlog' = [backlog EXCEPT ![s] = Append(@, e)]
  /\ UNCHANGED <<peers, ready, batch>>

HangsUp(s, p) ==
  /\ ready' = [ready EXCEPT ![s] = Append(@, Closed(p))]
  /\ UNCHANGED <<peers, backlog, batch>>

(* One accept, which may come too early for a connection that arrives      *)
(* while epoll_wait waits, and then everything that is ready.              *)
EpollWait(s) ==
  /\ batch[s] = <<>>
  /\ \E n \in {0, 1} :
       /\ n <= Len(backlog[s])
       /\ Len(ready[s]) + n > 0
       /\ batch' = [batch EXCEPT ![s] = ready[s] \o SubSeq(backlog[s], 1, n)]
       /\ backlog' = [backlog EXCEPT ![s] = SubSeq(@, n + 1, Len(@))]
  /\ ready' = [ready EXCEPT ![s] = <<>>]
  /\ UNCHANGED peers

Handles(s, kind) == batch[s] # <<>> /\ Head(batch[s]).kind = kind

(* The event at hand is passed over and the last one of the batch, if it   *)
(* is another, is skipped: an empty read shortens the batch (nfds--) and   *)
(* moves on in it (i++).  Nothing reports a skipped event again.           *)
AfterClosed(events) == SubSeq(events, 2, Len(events) - 1)

HandleClosed(s) ==
  /\ Handles(s, "closed")
  /\ batch' = [batch EXCEPT ![s] = AfterClosed(@)]
  /\ UNCHANGED <<peers, backlog, ready>>

(* sendPeerList and then addPeer, which does not enter a peer twice.       *)
AddPeer(list, p) == list \cup {p}

HandlePeerList(s) ==
  /\ Handles(s, "Peer List")
  /\ peers' = [peers EXCEPT ![s] = AddPeer(@, Head(batch[s]).about)]
  /\ batch' = [batch EXCEPT ![s] = Tail(@)]
  /\ UNCHANGED <<backlog, ready>>

(* The reporter closes at once: an event of its own, unless the close came *)
(* before the message was due to be read.                                  *)
HandleDeadNode(s) ==
  /\ Handles(s, "Dead Node")
  /\ peers' = [peers EXCEPT ![s] = @ \ {Head(batch[s]).about}]
  /\ batch' = [batch EXCEPT ![s] = Tail(@)]
  /\ \E closes \in {<<>>, <<Closed(Head(batch[s]).about)>>} :
       ready' = [ready EXCEPT ![s] = @ \o closes]
  /\ UNCHANGED backlog
=============================================================================
