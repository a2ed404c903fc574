---------------------------- MODULE MCTurnCycle ----------------------------
(* Instances of TurnCycle for TLC: the sets the configurations refer to.   *)
EXTENDS TurnCycle

MCNoSurplus == {0}
MCSomeSurplus == {0, 6}
=============================================================================
