------------------------------ MODULE WorkPool ------------------------------
(***************************************************************************)
(* What the queues and the peers together promise about the pieces, with   *)
(* no connection, message or thread in it: a piece waits in the pool, is   *)
(* in the hands of one peer, or is done, and a done piece stays done.      *)
(* One step of one peer disposes of the piece it holds, if it wants to,    *)
(* and may take another one in the same step.                              *)
(***************************************************************************)
EXTENDS Naturals

CONSTANTS Pieces, Peers, None

VARIABLES queued, held, done

vars == <<queued, held, done>>

InHand(p) == {held[p]} \ {None}

Init ==
    /\ queued = Pieces
    /\ held = [p \in Peers |-> None]
    /\ done = {}

Step(p) ==
    \E finished \in SUBSET InHand(p) :
        LET pool == queued \cup (InHand(p) \ finished)
        IN  \E next \in pool \cup {None} :
                /\ queued' = pool \ {next}
                /\ held' = [held EXCEPT ![p] = next]
                /\ done' = done \cup finished

Next == \E p \in Peers : Step(p)

Spec == Init /\ [][Next]_vars
=============================================================================
