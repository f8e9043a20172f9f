------------------------------- MODULE MCSwarm -------------------------------
(* Values for the constants of Swarm: what a remote may say in each run.     *)
EXTENDS Swarm

Control == [type: {"Choke", "Unchoke", "Have", "Unknown"}]
Bitfields(sets) == [type: {"Bitfield"}, bits: sets]

\* A remote that says anything: it answers for any piece and any block, with
\* good or bad bytes, and its bitfield names every piece, one piece or none.
AnyMessage ==
    Control \cup Bitfields({Pieces, {0}, None}) \cup
    {m \in PieceMessage : m.size = "fits" \/ (m.data = "bad" /\ m.piece = 0)}

\* A remote that serves every piece but may send a block that does not match
\* its hash, and may answer late.
Serves ==
    [type: {"Unchoke"}] \cup Bitfields({Pieces}) \cup
    {m \in PieceMessage : m.size = "fits" /\ m.block \in BlockIdx}

\* A remote that may choke the peer in between, and has one piece only.
ServesSome ==
    [type: {"Choke", "Unchoke"}] \cup Bitfields({{0}, Pieces}) \cup
    {m \in PieceMessage : m.size = "fits" /\ m.block \in BlockIdx /\ m.data = "good"}

PeerSymmetry == Permutations(Peers)
=============================================================================
