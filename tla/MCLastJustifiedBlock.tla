------------------------ MODULE MCLastJustifiedBlock ------------------------
(* Instances of LastJustifiedBlock for TLC.  EpochEnds is the set of epoch *)
(* end blocks: epochs of one block, long ones, and one that ends at the    *)
(* last block.                                                             *)
EXTENDS LastJustifiedBlock, FiniteSets

CONSTANT EpochEnds

MCAuthoritySetId ==
    [b \in 0 .. MaxBlock |-> Cardinality({e \in EpochEnds : e <= b})]
MCHash == {"hash"}
MCHeaderHash == [b \in Blocks |-> "hash"]
MCAuthoritySetHash == [s \in SetIds |-> "hash"]
MCCommitment == [k \in Blocks \X Blocks |-> "hash"]
=============================================================================
