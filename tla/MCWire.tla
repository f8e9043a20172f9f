------------------------------- MODULE MCWire -------------------------------
(* Bytes of five bits, integers of two bytes, seven pieces of which a remote *)
(* has the first or the last (in the second byte of a bitfield).              *)
EXTENDS Wire

\* Each byte of the torrent is its position: none is like another.
MCContents == [n \in 0 .. 20 |-> n]
MCProtocol == <<31, 0>>
MCExtensions == <<0>>
MCHash == <<32 - 1, 12>>
MCPeerId == <<7, 19>>
MCRemoteId == <<9, 0>>
Port == Cancel + 1
MCControl == {Unchoke, Port, None}
MCBitfields == {{0}, {6}}
=============================================================================
