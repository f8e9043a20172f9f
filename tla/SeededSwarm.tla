----------------------------- MODULE SeededSwarm -----------------------------
(***************************************************************************)
(* The swarm of module Swarm among remotes that follow the protocol: each  *)
(* sends one bitfield, then unchokes, then answers every request it        *)
(* received with the right bytes, in any order and in good time.  Some of  *)
(* them may leave at any moment.                                           *)
(*                                                                         *)
(* The remotes are not part of the repository.  They are here because what *)
(* the code promises about progress it promises in their company only, and *)
(* because they keep the other book on what was requested: "asked" is what *)
(* arrived from the peer and was not answered yet.                         *)
(***************************************************************************)
EXTENDS Swarm

CONSTANTS Has,        \* the pieces that each remote has
          Quitters    \* the remotes that may leave

ASSUME SeededAssumption ==
    /\ Has \in [Peers -> SUBSET Pieces]
    /\ Quitters \subseteq Peers

VARIABLES greeting,   \* what each remote says next: "bitfield", "unchoke", "done"
          asked,      \* the <<piece, block>> each remote was asked for
          quitters    \* the remotes that may leave in this behaviour

seededVars == <<vars, greeting, asked, quitters>>

SeededInit ==
    /\ Init
    /\ greeting = [p \in Peers |-> "bitfield"]
    /\ asked = [p \in Peers |-> {}]
    /\ quitters \in SUBSET Quitters

\* What the remote may send now.
Greeting(p) ==
    CASE greeting[p] = "bitfield" -> {[type |-> "Bitfield", bits |-> Has[p]]}
      [] greeting[p] = "unchoke" -> {[type |-> "Unchoke"]}
      [] OTHER -> {}

Answer(r) == [type |-> "Piece", piece |-> r[1], block |-> r[2],
              data |-> "good", size |-> "fits"]

Owes(p) == Greeting(p) \cup {Answer(r) : r \in asked[p]}

\* The requests that the handler of this step wrote.
NewRequests(p) ==
    LET old == IF peers'[p].piece = peers[p].piece THEN peers[p].requested ELSE {}
    IN  {peers'[p].piece} \X (peers'[p].requested \ old)

Connects(p) ==
    /\ Handler(AsyncHandshakeWrite(p) \/ AsyncHandshakeRead(p) \/ AsyncNext(p))
    /\ UNCHANGED <<greeting, asked, quitters>>

MessageStarts(p) ==
    /\ Owes(p) # {}
    /\ Handler(AsyncReadLen(p))
    /\ UNCHANGED <<greeting, asked, quitters>>

KeepsAlive(p) ==
    /\ Handler(Keepalive(p))
    /\ UNCHANGED <<greeting, asked, quitters>>

Greets(p) ==
    /\ \E m \in Greeting(p) : Handler(AsyncHandleMessage(p, m, {}))
    /\ greeting' = [greeting EXCEPT ![p] = IF @ = "bitfield" THEN "unchoke" ELSE "done"]
    /\ asked' = [asked EXCEPT ![p] = @ \cup NewRequests(p)]
    /\ UNCHANGED quitters

Answers(p) ==
    /\ \E r \in asked[p] :
          /\ Handler(AsyncHandleMessage(p, Answer(r), {}))
          /\ asked' = [asked EXCEPT ![p] = (@ \ {r}) \cup NewRequests(p)]
    /\ UNCHANGED <<greeting, quitters>>

\* The remote leaves, or an operation of a closed peer fails.
Leaves(p) ==
    /\ p \in quitters
    /\ Handler(OperationFailed(p) \/ BodyFailed(p))
    /\ UNCHANGED <<greeting, asked, quitters>>

\* The timers of a peer whose remote has left.
Expires(p) ==
    /\ Handler(\E b \in BlockIdx : BlockTimeout(p, b) \/ StaleTimeout(p, b))
    /\ UNCHANGED <<greeting, asked, quitters>>

SeededNext ==
    \/ \E p \in Peers : \/ Connects(p) \/ KeepsAlive(p) \/ MessageStarts(p)
                        \/ Greets(p) \/ Answers(p) \/ Leaves(p) \/ Expires(p)
    \/ /\ MonitorRuns \/ MonitorReturns \/ IoRunReturns \/ Ended
       /\ UNCHANGED <<greeting, asked, quitters>>

(***************************************************************************)
(* Each remote that has something to say says it, and the two threads run. *)
(* Nobody has to leave.                                                    *)
(***************************************************************************)
SeededSpec ==
    /\ SeededInit /\ [][SeededNext]_seededVars
    /\ \A p \in Peers :
          /\ WF_seededVars(Connects(p))
          /\ WF_seededVars(MessageStarts(p))
          /\ WF_seededVars(Greets(p))
          /\ WF_seededVars(Answers(p))
    /\ WF_seededVars(MonitorRuns /\ UNCHANGED <<greeting, asked, quitters>>)
    /\ WF_seededVars(MonitorReturns /\ UNCHANGED <<greeting, asked, quitters>>)

----------------------------------------------------------------------------
\* Every variable keeps its type.
SeededTypeOK ==
    /\ TypeOK
    /\ greeting \in [Peers -> {"bitfield", "unchoke", "done"}]
    /\ asked \in [Peers -> SUBSET (Pieces \X BlockIdx)]
    /\ quitters \subseteq Quitters

\* While both sides are there they agree on what is outstanding: the peer
\* waits for exactly the blocks the remote was asked for, so that accept()
\* takes every answer, whatever the order in which the answers come.
BothBooksAgree ==
    \A p \in Peers :
        ~peers[p].closed /\ peers[p].chain \in Reading
            => /\ asked[p] = {<<peers[p].piece, b>> : b \in peers[p].requested}
               /\ \A r \in asked[p] :
                     Accept(peers[p].piece, peers[p].block, Answer(r)) = "Ok"

\* With remotes that have every piece and stay, the download completes: the
\* monitor writes every piece and returns.
DownloadCompletes == quitters = {} => <>(phase = "freed")

\* "find a piece to download; yield if we don't succeed right away"
\* (peer.cpp): a peer that yielded gets another turn, so that it does not
\* stay idle for ever while a piece its remote has waits in work_queue.
YieldedPeerTriesAgain ==
    \A p \in Peers :
        [](phase = "running" /\ greeting[p] = "done" /\ ~peers[p].closed /\ peers[p].piece = None /\ Queued \cap Has[p] # {}
            => <>(peers[p].piece # None \/ peers[p].closed \/ Queued \cap Has[p] = {}))
=============================================================================
