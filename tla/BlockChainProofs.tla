-------------------------- MODULE BlockChainProofs --------------------------
(***************************************************************************)
(* Proofs about BlockChain, for any set of blocks: the chain stays         *)
(* connected, orphans are asked for, and what the node mines extends a tip *)
(* of its own chain.                                                       *)
(***************************************************************************)
EXTENDS BlockChain, TLAPS

\* The blocks that exist.
Born == {b \in Blocks : prev[b] # None}

\* Types, and which blocks exist.
Types ==
  /\ prev \in [Blocks -> Blocks \cup {Genesis, None}]
  /\ \A b \in Blocks : prev[b] # b
  /\ height \in [Blocks -> Nat]
  /\ public \subseteq Born /\ cache \subseteq Born /\ waiting \subseteq Born /\ mine \subseteq Born
  /\ outgoing \subseteq Born /\ syncQueue \subseteq asked /\ asked \subseteq Born
  /\ unranked \subseteq endBlocks /\ endBlocks \subseteq Blocks
  /\ endBlocks \subseteq cache \cup {pending}
  /\ mining \in cache \cup {pending, Genesis, None}
  /\ created \in BOOLEAN /\ lateStart \in BOOLEAN
  /\ lastMined \in Blocks \cup {Genesis} /\ target \in Blocks \cup {Genesis, None}
  /\ incoming \in public \cup {None}

\* The insertion thread: it has a block in hand exactly after it found one whose
\* predecessor is in the chain.
PassOK ==
  /\ pass \in {"idle", "pass", "follow", "add"}
  /\ toVisit \subseteq waiting /\ pending \notin toVisit
  /\ pending \in waiting \cup {None}
  /\ pending # None <=> pass \in {"follow", "add"}
  /\ pending # None => InChain(prev[pending])

\* The mining thread: it has a block in hand exactly after it created one.
MinerOK ==
  /\ pc \in {"start", "settle", "watch", "work", "first", "create", "submit"}
  /\ pc # "start" => mining # None
  /\ pc \in {"work", "create"} => target # None
  /\ minted \in mine \cup {None}
  /\ minted # None <=> pc \in {"first", "submit"}
  /\ pc = "first" => minted \in cache
  /\ minted # None => InChain(prev[minted]) \/ prev[minted] = pending

IInv == Types /\ PassOK /\ MinerOK /\ ChainConnected /\ OrphansRequested /\ OwnBlocksConnected

-----------------------------------------------------------------------------
LEMMA InitInv == Init => IInv
<1> SUFFICES ASSUME Init PROVE IInv
  OBVIOUS
<1> USE BlocksAssumption DEF Init
<1>1. prev \in [Blocks -> Blocks \cup {Genesis, None}] /\ \A b \in Blocks : prev[b] # b
  OBVIOUS
<1>2. Types
  BY <1>1 DEF Types
<1>3. PassOK /\ MinerOK
  BY DEF PassOK, MinerOK
<1>4. ChainConnected /\ OrphansRequested /\ OwnBlocksConnected
  BY DEF ChainConnected, OrphansRequested, OwnBlocksConnected
<1> QED BY <1>2, <1>3, <1>4 DEF IInv

(* A block joins the chain: the chain stays connected.                       *)
LEMMA AddKeepsChain ==
  ASSUME IInv, NEW b \in Born, InChain(prev[b]), UNCHANGED prev,
         cache' = cache \cup {b},
         height' = [height EXCEPT ![b] = HeightAbove(prev[b])]
  PROVE  ChainConnected' /\ height' \in [Blocks -> Nat]
<1> USE DEF IInv
<1>1. b \in Blocks /\ prev[b] \in Blocks \cup {Genesis} /\ prev[b] # b
  BY DEF Types, Born
<1>2. HeightAbove(prev[b]) \in Nat
  BY <1>1, BlocksAssumption DEF HeightAbove, Types
<1>3. height' \in [Blocks -> Nat]
  BY <1>1, <1>2 DEF Types
<1>4. ASSUME NEW c \in cache'
      PROVE  InChain(prev[c])' /\ height'[c] = HeightAbove(prev[c])'
  <2>1. InChain(prev[c])
    BY <1>4 DEF ChainConnected
  <2>2. InChain(prev[c])'
    BY <2>1 DEF InChain
  <2>3. c \in Blocks /\ prev[c] # c
    BY <1>1, <1>4 DEF Types, Born
  <2>4. ASSUME NEW p \in cache PROVE height'[p] = height[p]
    <3>1. p \in cache /\ p = b => height[b] = HeightAbove(prev[b])
      BY DEF ChainConnected
    <3>2. p \in Blocks
      BY DEF Types, Born
    <3> QED BY <1>1, <3>1, <3>2 DEF Types
  <2>5. HeightAbove(prev[c])' = HeightAbove(prev[c])
    BY <2>1, <2>4 DEF InChain, HeightAbove
  <2>6. CASE c = b
    BY <1>1, <2>2, <2>5, <2>6 DEF Types
  <2>7. CASE c # b
    <3>1. c \in cache
      BY <2>7
    <3>2. height'[c] = height[c] /\ height[c] = HeightAbove(prev[c])
      BY <2>4, <3>1 DEF ChainConnected
    <3> QED BY <2>2, <2>5, <3>2
  <2> QED BY <2>6, <2>7
<1> QED BY <1>3, <1>4 DEF ChainConnected

(* A block comes into being: nothing is said yet of it.                      *)
LEMMA BirthKeepsChain ==
  ASSUME IInv, NEW b \in Blocks, prev[b] = None, NEW p \in Blocks \cup {Genesis}, p # b,
         prev' = [prev EXCEPT ![b] = p]
  PROVE  /\ prev' \in [Blocks -> Blocks \cup {Genesis, None}]
         /\ \A c \in Blocks : prev'[c] # c
         /\ Born \subseteq Born' /\ b \in Born' /\ b \notin Born
         /\ \A c \in Born : prev'[c] = prev[c]
<1> USE DEF IInv, Types, Born
<1>1. prev' \in [Blocks -> Blocks \cup {Genesis, None}]
  OBVIOUS
<1>2. prev'[b] = p /\ \A c \in Blocks : c # b => prev'[c] = prev[c]
  OBVIOUS
<1> QED BY <1>1, <1>2, BlocksAssumption

(* A block is queued: whatever waits without predecessor has been asked for. *)
LEMMA EnqueueKeeps ==
  ASSUME IInv, NEW b \in Born, Enqueue(b), UNCHANGED <<prev, cache>>
  PROVE  /\ OrphansRequested'
         /\ waiting' \subseteq Born /\ waiting \subseteq waiting'
         /\ syncQueue' \subseteq asked' /\ asked' \subseteq Born
<1> USE DEF IInv, Enqueue
<1>1. ASSUME NEW c \in waiting', Orphan(c)' PROVE c \in asked'
  <2>1. Orphan(c)
    BY <1>1 DEF Orphan
  <2> QED BY <1>1, <2>1 DEF OrphansRequested
<1>2. OrphansRequested'
  BY <1>1 DEF OrphansRequested
<1> QED BY <1>2 DEF Types

-----------------------------------------------------------------------------
(* The steps. *)

LEMMA InsertionInv == ASSUME IInv, Insertion PROVE IInv'
<1> USE DEF IInv, minerVars, worldVars, queueVars, chainVars
<1>1. CASE BeginPass
  BY <1>1, BlocksAssumption
     DEF BeginPass, Types, Born, PassOK, MinerOK, ChainConnected, OrphansRequested,
         OwnBlocksConnected, InChain, HeightAbove, Orphan
<1>2. ASSUME NEW b \in Blocks, Visit(b) PROVE IInv'
  <2> USE <1>2 DEF Visit
  <2>1. b \in waiting /\ b \in Born /\ prev[b] # None /\ b # None /\ pending = None
    BY BlocksAssumption DEF PassOK, Types, Born
  <2>2. PassOK'
    BY <2>1 DEF PassOK, InChain
  <2>3. prev[b] = Genesis => InChain(prev[b])
    BY DEF InChain
  <2>4. endBlocks' \subseteq cache' \cup {pending'} /\ endBlocks' \subseteq Blocks
    BY <2>1, <2>3, BlocksAssumption DEF Types, EntersAsEnd
  <2>5. unranked' \subseteq endBlocks'
    BY DEF Types
  <2>6. mining \in cache \cup {pending', Genesis, None}
    BY <2>1 DEF Types
  <2>7. Types'
    BY <2>4, <2>5, <2>6 DEF Types, Born
  <2>8. minted # None => prev[minted] # None
    BY DEF MinerOK, Types, Born
  <2>9. MinerOK'
    BY <2>1, <2>8 DEF MinerOK, InChain
  <2>10. ChainConnected' /\ OrphansRequested' /\ OwnBlocksConnected'
    BY DEF ChainConnected, OrphansRequested, OwnBlocksConnected, InChain, HeightAbove, Orphan
  <2> QED BY <2>2, <2>7, <2>9, <2>10
<1>3. CASE Follow
  <2> USE <1>3 DEF Follow
  <2>1. Types' /\ PassOK'
    BY DEF Types, Born, PassOK, InChain
  <2>2. MinerOK'
    BY DEF MinerOK, PassOK, InChain
  <2>3. ChainConnected' /\ OrphansRequested' /\ OwnBlocksConnected'
    BY DEF ChainConnected, OrphansRequested, OwnBlocksConnected, InChain, HeightAbove, Orphan
  <2> QED BY <2>1, <2>2, <2>3
<1>4. CASE AddPending
  <2> USE <1>4 DEF AddPending, Add
  <2>1. pending \in Born /\ pending \in waiting /\ pending # None /\ InChain(prev[pending])
    BY DEF PassOK, Types
  <2>2. ChainConnected' /\ height' \in [Blocks -> Nat]
    BY <2>1, AddKeepsChain
  <2>3. /\ endBlocks' \subseteq cache' /\ endBlocks' \subseteq Blocks
        /\ unranked' \subseteq endBlocks'
    BY <2>1 DEF UpdateEndBlocks, Types, Born
  <2>4. mining \in cache' \cup {Genesis, None}
    BY DEF Types
  <2>5. Types'
    BY <2>1, <2>2, <2>3, <2>4 DEF Types, Born
  <2>6. PassOK'
    BY <2>1, BlocksAssumption DEF PassOK, Types, Born
  <2>7. MinerOK'
    BY DEF MinerOK, InChain
  <2>8. OrphansRequested'
    BY DEF OrphansRequested, Orphan
  <2>9. OwnBlocksConnected'
    BY DEF OwnBlocksConnected, InChain
  <2> QED BY <2>2, <2>5, <2>6, <2>7, <2>8, <2>9
<1>5. CASE EndPass
  BY <1>5 DEF EndPass, Types, Born, PassOK, MinerOK, ChainConnected, OrphansRequested,
              OwnBlocksConnected, InChain, HeightAbove, Orphan
<1> QED BY <1>1, <1>2, <1>3, <1>4, <1>5 DEF Insertion

LEMMA MessagesInv == ASSUME IInv, Messages PROVE IInv'
<1> USE DEF IInv, minerVars, passVars, chainVars
<1>1. CASE AddToQueue
  <2> USE <1>1 DEF AddToQueue, worldVars
  <2>1. incoming \in Born
    BY DEF Types
  <2>2. /\ OrphansRequested'
        /\ waiting' \subseteq Born /\ waiting \subseteq waiting'
        /\ syncQueue' \subseteq asked' /\ asked' \subseteq Born
    BY <2>1, EnqueueKeeps
  <2>3. outgoing' \subseteq Born
    BY <2>1 DEF Types
  <2>4. Types'
    BY <2>2, <2>3 DEF Types, Born
  <2>5. PassOK' /\ MinerOK' /\ ChainConnected' /\ OwnBlocksConnected'
    BY <2>2 DEF PassOK, MinerOK, ChainConnected, OwnBlocksConnected, InChain, HeightAbove
  <2> QED BY <2>2, <2>4, <2>5
<1>2. ASSUME NEW b \in Blocks, Receive(b) PROVE IInv'
  BY <1>2 DEF Receive, worldVars, queueVars, Types, Born, PassOK, MinerOK, ChainConnected,
              OrphansRequested, OwnBlocksConnected, InChain, HeightAbove, Orphan
<1>3. ASSUME NEW b \in Blocks, Broadcast(b) PROVE IInv'
  BY <1>3 DEF Broadcast, queueVars, Types, Born, PassOK, MinerOK, ChainConnected,
              OrphansRequested, OwnBlocksConnected, InChain, HeightAbove, Orphan
<1>4. ASSUME NEW b \in Blocks, SendSync(b) PROVE IInv'
  BY <1>4 DEF SendSync, worldVars, Types, Born, PassOK, MinerOK, ChainConnected,
              OrphansRequested, OwnBlocksConnected, InChain, HeightAbove, Orphan
<1>5. ASSUME NEW b \in Blocks, OtherMines(b) PROVE IInv'
  <2> USE <1>5 DEF OtherMines, Unborn, queueVars
  <2>1. PICK p \in public \cup {Genesis} : prev' = [prev EXCEPT ![b] = p]
    OBVIOUS
  <2>2. p \in Blocks \cup {Genesis} /\ p # b
    BY BlocksAssumption DEF Types, Born
  <2>3. /\ prev' \in [Blocks -> Blocks \cup {Genesis, None}]
        /\ \A c \in Blocks : prev'[c] # c
        /\ Born \subseteq Born' /\ b \in Born' /\ b \notin Born
        /\ \A c \in Born : prev'[c] = prev[c]
    BY <2>1, <2>2, BirthKeepsChain
  <2>4. Types'
    BY <2>3 DEF Types
  <2>5. /\ cache \subseteq Born /\ waiting \subseteq Born /\ mine \subseteq Born
        /\ minted \in Born \cup {None} /\ pending \in Born \cup {None}
    BY DEF Types, MinerOK, PassOK
  <2>6. PassOK' /\ MinerOK'
    BY <2>3, <2>5 DEF PassOK, MinerOK, InChain
  <2>7. ChainConnected'
    BY <2>3, <2>5 DEF ChainConnected, InChain, HeightAbove
  <2>8. OrphansRequested' /\ OwnBlocksConnected'
    BY <2>3, <2>5 DEF OrphansRequested, OwnBlocksConnected, InChain, Orphan
  <2> QED BY <2>4, <2>6, <2>7, <2>8
<1> QED BY <1>1, <1>2, <1>3, <1>4, <1>5 DEF Messages

LEMMA MiningInv == ASSUME IInv, Mining PROVE IInv'
<1> USE DEF IInv, passVars
<1>1. CASE StartMining \/ Settle \/ Watch \/ Compare
  <2> USE <1>1 DEF StartMining, Settle, Watch, Compare, chainVars, worldVars, queueVars
  <2>1. UNCHANGED <<chainVars, passVars, minted, worldVars, queueVars, outgoing, incoming, mine>>
    OBVIOUS
  <2>2. mining' \in {mining, Genesis} /\ (pc' # "start" => mining' # None)
    BY BlocksAssumption DEF MinerOK
  <2>3. target' \in {target, mining} /\ target' \in Blocks \cup {Genesis, None}
    BY BlocksAssumption DEF Types, PassOK, Born
  <2>4. Types'
    BY <2>1, <2>2, <2>3 DEF Types, Born
  <2>5. PassOK' /\ ChainConnected' /\ OrphansRequested' /\ OwnBlocksConnected'
    BY <2>1 DEF PassOK, ChainConnected, OrphansRequested, OwnBlocksConnected, InChain,
                HeightAbove, Orphan
  <2>6. MinerOK'
    BY <2>1, <2>2 DEF MinerOK, InChain
  <2> QED BY <2>4, <2>5, <2>6
<1>2. ASSUME NEW b \in Blocks, CreateFirst(b) PROVE IInv'
  <2> USE <1>2 DEF CreateFirst, Unborn, queueVars
  <2>1. /\ prev' \in [Blocks -> Blocks \cup {Genesis, None}]
        /\ \A c \in Blocks : prev'[c] # c
        /\ Born \subseteq Born' /\ b \in Born' /\ b \notin Born
        /\ \A c \in Born : prev'[c] = prev[c]
    BY BirthKeepsChain, BlocksAssumption
  <2>2. /\ cache \subseteq Born /\ waiting \subseteq Born /\ mine \subseteq Born
        /\ minted = None /\ pending \in Born \cup {None} /\ prev'[b] = Genesis /\ b # None
    BY BlocksAssumption DEF Types, MinerOK, PassOK
  <2>3. Types'
    BY <2>1, <2>2 DEF Types
  <2>4. PassOK'
    BY <2>1, <2>2 DEF PassOK, InChain
  <2>5. MinerOK'
    BY <2>1, <2>2 DEF MinerOK, InChain
  <2>6. ASSUME NEW c \in cache' PROVE InChain(prev[c])' /\ height'[c] = HeightAbove(prev[c])'
    <3>1. CASE c = b
      BY <2>2, <3>1 DEF InChain, HeightAbove, Types
    <3>2. CASE c # b
      <4>1. c \in cache /\ prev'[c] = prev[c] /\ height'[c] = height[c]
        BY <2>1, <2>2, <3>2 DEF Types, Born
      <4>2. InChain(prev[c]) /\ height[c] = HeightAbove(prev[c])
        BY <4>1 DEF ChainConnected
      <4>3. prev[c] = Genesis \/ (prev[c] # b /\ prev[c] \in Blocks)
        BY <2>1, <2>2, <4>2 DEF InChain, Types, Born
      <4> QED BY <4>1, <4>2, <4>3 DEF InChain, HeightAbove, Types
    <3> QED BY <3>1, <3>2
  <2>7. OrphansRequested'
    BY <2>1, <2>2 DEF OrphansRequested, Orphan
  <2>8. OwnBlocksConnected'
    <3>1. ASSUME NEW c \in mine PROVE prev'[c] = prev[c] /\ InChain(prev[c])
      BY <2>1, <2>2, BlocksAssumption DEF OwnBlocksConnected, Born
    <3> QED BY <3>1 DEF OwnBlocksConnected, InChain
  <2> QED BY <2>3, <2>4, <2>5, <2>6, <2>7, <2>8 DEF ChainConnected
<1>3. CASE MineOnFirst
  <2> USE <1>3 DEF MineOnFirst, chainVars, worldVars, queueVars
  <2>1. minted \in cache /\ minted \in Born /\ minted # None
    BY DEF MinerOK, Types
  <2>2. InChain(prev[minted])
    BY <2>1 DEF ChainConnected
  <2>3. Types' /\ MinerOK'
    BY <2>1 DEF Types, Born, MinerOK
  <2>4. PassOK' /\ ChainConnected' /\ OrphansRequested' /\ OwnBlocksConnected'
    BY <2>2 DEF PassOK, ChainConnected, OrphansRequested, OwnBlocksConnected, InChain,
                HeightAbove, Orphan
  <2> QED BY <2>3, <2>4
<1>4. ASSUME NEW b \in Blocks, Create(b) PROVE IInv'
  <2> USE <1>4 DEF Create, Unborn, queueVars, chainVars
  <2>1. mining # None /\ mining \in cache \cup {pending, Genesis} /\ minted = None
    BY DEF MinerOK, Types
  <2>2. /\ cache \subseteq Born /\ waiting \subseteq Born /\ mine \subseteq Born
        /\ pending \in Born \cup {None} /\ b \notin Born /\ b # None
    BY BlocksAssumption DEF Types, PassOK, Born
  <2>3. mining \in Blocks \cup {Genesis} /\ mining # b
    BY <2>1, <2>2, BlocksAssumption DEF Born
  <2>4. /\ prev' \in [Blocks -> Blocks \cup {Genesis, None}]
        /\ \A c \in Blocks : prev'[c] # c
        /\ Born \subseteq Born' /\ b \in Born' /\ b \notin Born
        /\ \A c \in Born : prev'[c] = prev[c]
    BY <2>3, BirthKeepsChain
  <2>5. target \in Blocks \cup {Genesis}
    BY DEF Types, MinerOK
  <2>6. Types'
    BY <2>2, <2>4, <2>5 DEF Types
  <2>7. PassOK'
    BY <2>2, <2>4 DEF PassOK, InChain
  <2>8. prev'[b] = mining
    BY DEF Types
  <2>9. MinerOK'
    BY <2>1, <2>2, <2>8 DEF MinerOK, InChain
  <2>10. ChainConnected'
    BY <2>2, <2>4 DEF ChainConnected, InChain, HeightAbove
  <2>11. OrphansRequested'
    BY <2>2, <2>4 DEF OrphansRequested, Orphan
  <2>12. OwnBlocksConnected'
    <3>1. ASSUME NEW c \in mine PROVE prev'[c] = prev[c] /\ InChain(prev[c])
      BY <2>1, <2>2, <2>4, BlocksAssumption DEF OwnBlocksConnected, Born
    <3> QED BY <3>1 DEF OwnBlocksConnected, InChain
  <2> QED BY <2>6, <2>7, <2>9, <2>10, <2>11, <2>12
<1>5. CASE Submit
  <2> USE <1>5 DEF Submit, chainVars, worldVars
  <2>1. minted \in Born /\ minted # None /\ prev[minted] # None
    BY DEF MinerOK, Types, Born
  <2>2. pending = None
    BY DEF QueueFree, PassOK
  <2>3. InChain(prev[minted])
    BY <2>1, <2>2 DEF MinerOK
  <2>4. /\ OrphansRequested'
        /\ waiting' \subseteq Born /\ waiting \subseteq waiting'
        /\ syncQueue' \subseteq asked' /\ asked' \subseteq Born
    BY <2>1, EnqueueKeeps
  <2>5. Types'
    BY <2>1, <2>4 DEF Types, Born
  <2>6. PassOK' /\ MinerOK' /\ ChainConnected'
    BY <2>4 DEF PassOK, MinerOK, ChainConnected, InChain, HeightAbove
  <2>7. OwnBlocksConnected'
    BY <2>3 DEF OwnBlocksConnected, InChain
  <2> QED BY <2>4, <2>5, <2>6, <2>7
<1> QED BY <1>1, <1>2, <1>3, <1>4, <1>5 DEF Mining

LEMMA StepInv == IInv /\ [Next]_vars => IInv'
<1> SUFFICES ASSUME IInv, [Next]_vars PROVE IInv'
  OBVIOUS
<1>1. CASE Next
  BY <1>1, InsertionInv, MiningInv, MessagesInv DEF Next
<1>2. CASE UNCHANGED vars
  BY <1>2 DEF IInv, vars, chainVars, passVars, minerVars, worldVars, queueVars, Types, Born,
              PassOK, MinerOK, ChainConnected, OrphansRequested, OwnBlocksConnected, InChain,
              HeightAbove, Orphan
<1> QED BY <1>1, <1>2

LEMMA InvHolds == Spec => []IInv
BY InitInv, StepInv, PTL DEF Spec

-----------------------------------------------------------------------------
(* The properties.                                                           *)

(* The queues, the chain and the threads of a peer keep their types          *)
(* (BlockChain.h:27-57).                                                     *)
THEOREM TypeCorrect == Spec => []TypeOK
<1>1. IInv => TypeOK
  BY DEF IInv, Types, Born, PassOK, MinerOK, TypeOK
<1> QED BY <1>1, InvHolds, PTL

(* Whatever order blocks arrive in, the chain has the predecessor of each    *)
(* block in it, one below its height (BlockChain.cpp:127-138).               *)
THEOREM ChainStaysConnected == Spec => []ChainConnected
<1>1. IInv => ChainConnected
  BY DEF IInv
<1> QED BY <1>1, InvHolds, PTL

(* Every block that waits without its predecessor has been asked for         *)
(* (BlockChain.cpp:223-252).                                                 *)
THEOREM OrphansAreRequested == Spec => []OrphansRequested
<1>1. IInv => OrphansRequested
  BY DEF IInv
<1> QED BY <1>1, InvHolds, PTL

(* What a node broadcasts of its own extends its own chain                   *)
(* (BlockChain.cpp:342-351).                                                 *)
THEOREM OwnBlocksStayConnected == Spec => []OwnBlocksConnected
<1>1. IInv => OwnBlocksConnected
  BY DEF IInv
<1> QED BY <1>1, InvHolds, PTL

-----------------------------------------------------------------------------
(* What the node mines on has no successor in its chain.                     *)

\* The one exception: a first block that is in the chain and not mined on yet.
\* Nobody else has it.
TipOK ==
  /\ pc = "start" => mining = None /\ pass # "follow"
  /\ pc = "first" => /\ minted \notin waiting \cup public \cup outgoing
                     /\ \A b \in Blocks : prev[b] # minted
  /\ ~lateStart /\ pc # "start" =>
       /\ \A c \in cache : prev[c] = mining => pc = "first" /\ c = minted
       /\ pass = "follow" => pending \notin cache
       /\ pass = "add" => prev[pending] # mining

LEMMA InsertionTip == ASSUME IInv, TipOK, Insertion PROVE TipOK'
<1> USE DEF IInv, minerVars, worldVars, queueVars, chainVars
<1>1. CASE BeginPass \/ EndPass
  BY <1>1 DEF BeginPass, EndPass, TipOK
<1>2. ASSUME NEW b \in Blocks, Visit(b) PROVE TipOK'
  <2> USE <1>2 DEF Visit
  <2>1. b \in waiting /\ prev[b] # None
    BY DEF PassOK, Types, Born
  <2>2. ~lateStart /\ pc # "start" /\ prev[b] = mining => b \notin cache
    BY <2>1 DEF TipOK
  <2>3. pass' = "follow" => prev[b] = mining /\ pending' = b
    OBVIOUS
  <2>4. pass' = "add" => prev[b] # mining /\ pending' = b
    OBVIOUS
  <2> QED BY <2>1, <2>2, <2>3, <2>4 DEF TipOK
<1>3. CASE Follow
  <2> USE <1>3 DEF Follow
  <2>1. pending \in Blocks /\ prev[pending] # pending /\ pc # "start"
    BY BlocksAssumption DEF PassOK, Types, Born, TipOK
  <2>2. ASSUME ~lateStart, NEW c \in cache PROVE prev[c] # pending
    <3>1. pending \notin cache
      BY <2>1, <2>2 DEF TipOK
    <3>2. prev[c] = Genesis \/ prev[c] \in cache
      BY DEF ChainConnected, InChain
    <3> QED BY <2>1, <3>1, <3>2, BlocksAssumption
  <2> QED BY <2>1, <2>2 DEF TipOK
<1>4. CASE AddPending
  <2> USE <1>4 DEF AddPending, Add
  <2>1. pending \in waiting
    BY BlocksAssumption DEF PassOK
  <2> QED BY <2>1 DEF TipOK
<1> QED BY <1>1, <1>2, <1>3, <1>4 DEF Insertion

LEMMA MessagesTip == ASSUME IInv, TipOK, Messages PROVE TipOK'
<1> USE DEF IInv, minerVars, passVars, chainVars
<1>1. pc = "first" => minted \in Born /\ minted \in Blocks
  BY DEF MinerOK, Types, Born
<1>2. CASE AddToQueue
  BY <1>1, <1>2 DEF AddToQueue, Enqueue, worldVars, Types, TipOK
<1>3. ASSUME NEW b \in Blocks, Receive(b) \/ SendSync(b) PROVE TipOK'
  BY <1>3 DEF Receive, SendSync, worldVars, queueVars, TipOK
<1>4. ASSUME NEW b \in Blocks, Broadcast(b) PROVE TipOK'
  BY <1>4 DEF Broadcast, queueVars, TipOK
<1>5. ASSUME NEW b \in Blocks, OtherMines(b) PROVE TipOK'
  <2> USE <1>5 DEF OtherMines, Unborn, queueVars
  <2>1. PICK p \in public \cup {Genesis} : prev' = [prev EXCEPT ![b] = p]
    OBVIOUS
  <2>2. prev'[b] = p /\ \A c \in Blocks : c # b => prev'[c] = prev[c]
    BY <2>1 DEF Types
  <2>3. b \notin cache /\ (pending # None => pending # b)
    BY BlocksAssumption DEF Types, PassOK, Born
  <2>4. pc = "first" => minted # b /\ minted # p
    BY <1>1, BlocksAssumption DEF Born, TipOK
  <2>5. pending # None => pending \in Blocks
    BY DEF PassOK, Types, Born
  <2>6. cache \subseteq Blocks
    BY DEF Types, Born
  <2>7. pass \in {"follow", "add"} => pending # None
    BY DEF PassOK
  <2> QED BY <2>2, <2>3, <2>4, <2>5, <2>6, <2>7 DEF TipOK
<1> QED BY <1>2, <1>3, <1>4, <1>5 DEF Messages

(* A block is born on blocks that exist.                                     *)
PrevBorn == \A b \in Born : prev[b] \in Born \cup {Genesis}

LEMMA StepPrevBorn == IInv /\ PrevBorn /\ [Next]_vars => PrevBorn'
<1> SUFFICES ASSUME IInv, PrevBorn, [Next]_vars PROVE PrevBorn'
  OBVIOUS
<1> USE DEF IInv
<1>1. CASE UNCHANGED prev
  BY <1>1 DEF PrevBorn, Born
<1>2. ASSUME NEW b \in Blocks, NEW p \in Born \cup {Genesis}, prev[b] = None,
             prev' = [prev EXCEPT ![b] = p]
      PROVE  PrevBorn'
  <2>1. p \in Blocks \cup {Genesis} /\ p # b
    BY <1>2, BlocksAssumption DEF Born
  <2>2. Born \subseteq Born' /\ \A c \in Born : prev'[c] = prev[c]
    BY <1>2, <2>1, BirthKeepsChain
  <2>3. prev'[b] = p /\ \A c \in Born' : c # b => c \in Born
    BY <1>2 DEF Types, Born
  <2> QED BY <1>2, <2>2, <2>3 DEF PrevBorn
<1>3. UNCHANGED prev \/ \E b \in Blocks : OtherMines(b) \/ CreateFirst(b) \/ Create(b)
  BY DEF Next, Insertion, Mining, Messages, BeginPass, Visit, Follow, AddPending, EndPass,
         StartMining, Settle, Watch, MineOnFirst, Compare, Submit, AddToQueue, Receive,
         Broadcast, SendSync, vars, worldVars
<1>4. ASSUME NEW b \in Blocks, OtherMines(b) PROVE PrevBorn'
  BY <1>2, <1>4 DEF OtherMines, Unborn, Types
<1>5. ASSUME NEW b \in Blocks, CreateFirst(b) PROVE PrevBorn'
  BY <1>2, <1>5 DEF CreateFirst, Unborn
<1>6. ASSUME NEW b \in Blocks, Create(b) PROVE PrevBorn'
  <2>1. mining \in Born \cup {Genesis}
    BY <1>6 DEF Create, Unborn, MinerOK, Types, PassOK
  <2> QED BY <1>2, <1>6, <2>1 DEF Create, Unborn
<1> QED BY <1>1, <1>3, <1>4, <1>5, <1>6

LEMMA MiningTip == ASSUME IInv, PrevBorn, TipOK, Mining PROVE TipOK'
<1> USE DEF IInv, passVars
<1>1. CASE StartMining
  BY <1>1 DEF StartMining, chainVars, worldVars, queueVars, TipOK
<1>2. CASE Settle \/ Watch \/ Compare
  BY <1>2 DEF Settle, Watch, Compare, chainVars, worldVars, queueVars, TipOK
<1>3. ASSUME NEW b \in Blocks, prev[b] = None
      PROVE  /\ b \notin cache \cup public \cup waiting \cup outgoing
             /\ b # mining /\ cache \subseteq Blocks
             /\ pass \in {"follow", "add"} => pending \in Blocks /\ pending # b
             /\ \A c \in Blocks : prev[c] # b
  <2>1. b \notin Born /\ b # Genesis /\ b # None
    BY <1>3, BlocksAssumption DEF Born
  <2>2. \A c \in Blocks : prev[c] # b
    BY <2>1 DEF PrevBorn, Born
  <2>3. pending \in Born \cup {None} /\ cache \subseteq Born
    BY DEF PassOK, Types
  <2> QED BY <2>1, <2>2, <2>3 DEF Types, PassOK, Born
<1>4. ASSUME NEW b \in Blocks, CreateFirst(b) PROVE TipOK'
  <2> USE <1>4 DEF CreateFirst, Unborn, queueVars
  <2>1. prev'[b] = Genesis /\ \A c \in Blocks : c # b => prev'[c] = prev[c]
    BY DEF Types
  <2>2. \A c \in Blocks : prev'[c] # b
    BY <1>3, <2>1, BlocksAssumption
  <2>3. b \notin waiting' \cup public' \cup outgoing'
    BY <1>3
  <2>4. ASSUME ~lateStart, NEW c \in cache', prev'[c] = mining PROVE c = b
    BY <1>3, <2>1, <2>4 DEF TipOK
  <2>5. ~lateStart => /\ pass = "follow" => pending \notin cache'
                      /\ pass = "add" => prev'[pending] # mining
    BY <1>3, <2>1 DEF TipOK
  <2> QED BY <2>2, <2>3, <2>4, <2>5 DEF TipOK
<1>5. CASE MineOnFirst
  <2> USE <1>5 DEF MineOnFirst, chainVars, worldVars, queueVars
  <2>1. cache \subseteq Blocks /\ \A c \in Blocks : prev[c] # minted
    BY DEF Types, Born, TipOK
  <2>2. pass \in {"follow", "add"} => pending \in Blocks
    BY DEF PassOK, Types, Born
  <2> QED BY <2>1, <2>2 DEF TipOK
<1>6. ASSUME NEW b \in Blocks, Create(b) PROVE TipOK'
  <2> USE <1>6 DEF Create, Unborn, queueVars, chainVars
  <2>1. \A c \in Blocks : c # b => prev'[c] = prev[c]
    BY DEF Types
  <2> QED BY <1>3, <2>1 DEF TipOK
<1>7. CASE Submit
  BY <1>7 DEF Submit, chainVars, worldVars, TipOK
<1> QED BY <1>1, <1>2, <1>4, <1>5, <1>6, <1>7 DEF Mining

LEMMA StepTip == IInv /\ PrevBorn /\ TipOK /\ [Next]_vars => TipOK'
<1> SUFFICES ASSUME IInv, PrevBorn, TipOK, [Next]_vars PROVE TipOK'
  OBVIOUS
<1>1. CASE Next
  BY <1>1, InsertionTip, MiningTip, MessagesTip DEF Next
<1>2. CASE UNCHANGED vars
  BY <1>2 DEF TipOK, vars, chainVars, passVars, minerVars, worldVars, queueVars
<1> QED BY <1>1, <1>2

(* Unless blocks came in before the mining thread started, the node never    *)
(* extends a block that has a successor in its own chain                     *)
(* (BlockChain.cpp:97-103, 340-343).                                         *)
THEOREM MinesOnlyOnTips == Spec => MinesOnTip
<1>1. Init => PrevBorn /\ TipOK
  BY DEF Init, PrevBorn, Born, TipOK
<1>2. IInv /\ TipOK /\ [Next]_vars
      => (pc = "create" /\ pc' = "submit" /\ ~lateStart
            => \A b \in mine' \ mine, c \in cache : prev[c] # prev'[b])
  <2> SUFFICES ASSUME IInv, TipOK, [Next]_vars, pc = "create", pc' = "submit", ~lateStart,
                      NEW b \in mine' \ mine, NEW c \in cache
               PROVE  prev[c] # prev'[b]
    OBVIOUS
  <2>1. PICK d \in Blocks : Create(d)
    BY DEF Next, Insertion, Mining, Messages, BeginPass, Visit, Follow, AddPending, EndPass,
           StartMining, Settle, Watch, MineOnFirst, Compare, Submit, AddToQueue, Receive,
           Broadcast, SendSync, OtherMines, CreateFirst, vars, minerVars
  <2>2. prev'[d] = mining /\ b = d
    BY <2>1 DEF Create, Unborn, IInv, Types
  <2> QED BY <2>2 DEF TipOK
<1> QED BY <1>1, <1>2, InvHolds, StepPrevBorn, StepTip, PTL DEF Spec, MinesOnTip
=============================================================================
