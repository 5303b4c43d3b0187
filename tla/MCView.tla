-------------------------------- MODULE MCView --------------------------------
(* An instance of Combat and View for TLC: one player, one client.         *)
EXTENDS View

CONSTANT player

ThePlayer == {player}
=============================================================================
