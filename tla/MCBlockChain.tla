---------------------------- MODULE MCBlockChain ----------------------------
(* BlockChain with three and with four blocks. *)
EXTENDS BlockChain

CONSTANTS b1, b2, b3, b4

ThreeBlocks == {b1, b2, b3}
FourBlocks == {b1, b2, b3, b4}
=============================================================================
