---------------------------- MODULE Conversation ----------------------------
(***************************************************************************)
(* What a connection promises to both of its ends: the messages one side   *)
(* says are heard by the other whole, unchanged, in order and once.        *)
(***************************************************************************)
EXTENDS Naturals, Sequences

VARIABLES said, heard

Init == said = <<>> /\ heard = <<>>

\* A step of either end: some messages are said, the next one is heard.
Says == \E n \in 0 .. Len(said') : said = SubSeq(said', 1, n)
Hears == \/ heard' = heard
         \/ Len(heard) < Len(said) /\ heard' = Append(heard, said[Len(heard) + 1])

Next == Says /\ Hears

Spec == Init /\ [][Next]_<<said, heard>>
=============================================================================
