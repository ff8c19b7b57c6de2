------------------------------- MODULE MCMoves -------------------------------
(* Small instances of Moves.                                               *)
EXTENDS Moves

CONSTANTS town, den

TownFirst == <<town, den>>
=============================================================================
