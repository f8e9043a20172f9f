------------------------------ MODULE MCSeeded ------------------------------
(* Values for the constants of SeededSwarm: who has which pieces.            *)
EXTENDS SeededSwarm

Seeders == [p \in Peers |-> Pieces]
LastPieceOnly == [p \in Peers |-> {NumPieces - 1}]
=============================================================================
