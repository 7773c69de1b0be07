----------------------------- MODULE MCGuidance -----------------------------
EXTENDS Guidance, TLC

MCLocation == [kind |-> "location", rate |-> 0]
MCGeneric == [kind |-> "generic", rate |-> 0]
MCSwarm == [kind |-> "swarm", rate |-> 0]
MCSwarmFast == [kind |-> "swarm", rate |-> 1]
MCOptions == {MCGeneric, MCSwarm}

MCSymmetry == Permutations(SelMgrs)
=============================================================================
