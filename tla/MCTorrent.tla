----------------------------- MODULE MCTorrent -----------------------------
(* Torrents around the edges: empty, smaller than a piece, a multiple of one *)
(* or not, as long as a word holds and longer.                               *)
EXTENDS Torrent

MCTorrents == [length: 0 .. 20, piece_length: 3 .. 8]
=============================================================================
