------------------------- MODULE CamouflageHandshake -------------------------
(***************************************************************************)
(* NewCamouflageConn (tls-camouflage.go) at both ends of one TCP            *)
(* connection.  Each end takes its TLS role from how it came by the         *)
(* connection (upgradeDialed and handshake in camouflage.go): a listener is *)
(* the server, a dialer the client, unless its context carries a            *)
(* simultaneous-connect hint that says it is not.  A hole punch joins two   *)
(* dials into one connection, or a dial with a listener, and nothing but    *)
(* the hints keeps the two roles apart.                                     *)
(*                                                                         *)
(* A message is a TLS flight.  In TLS 1.3 the client is through when it has *)
(* sent its Finished and the server when it has read it; in TLS 1.2, which  *)
(* a randomized hello may ask for and the server accepts, the server sends  *)
(* one more and the client is the last.  The deadline and the handshake's   *)
(* own context end a handshake that waits; cancelling the dial does not.    *)
(* An error of SetDeadline is logged and nothing else.  A TCP socket gives  *)
(* one only when its own end has closed it, and the one thing that closes it*)
(* before NewCamouflageConn returns, the handshake's context, also makes the*)
(* handshake fail; so neither call's error is an outcome here.              *)
(***************************************************************************)
EXTENDS Sequences

CONSTANTS Ends  \* the two ends of the connection

ASSUME EndsAssumption == \E a \in Ends : \E b \in Ends \ {a} : Ends = {a, b}

VARIABLES
    way,     \* how each end came by the connection
    legacy,  \* the version is TLS 1.2
    pc,      \* where NewCamouflageConn and its caller stand
    inbox,   \* flights on their way to the end
    armed,   \* ends whose socket carries the handshake deadline
    open,    \* ends whose socket is open
    broken,  \* the network has lost the connection
    late     \* ends whose deadline fired

vars == <<way, legacy, pc, inbox, armed, open, broken, late>>

Ways == {"accept", "dial", "dialAsClient", "dialAsServer"}
Waiting == {"awaitHello", "awaitFinished", "awaitFlight", "awaitServerFinished"}
Flights == {"ClientHello", "ServerFlight", "Finished", "ServerFinished", "Alert"}

Peer(e) == CHOOSE f \in Ends : f # e

TypeOK ==
    /\ way \in [Ends -> Ways]
    /\ legacy \in BOOLEAN
    /\ pc \in [Ends -> {"start", "clear", "done", "failed", "closed"} \cup Waiting]
    /\ inbox \in [Ends -> Seq(Flights)]
    /\ armed \subseteq Ends
    /\ open \subseteq Ends
    /\ broken \in BOOLEAN
    /\ late \subseteq armed

\* A connection has at most one accepting end.
Init ==
    /\ way \in [Ends -> Ways]
    /\ \A e, f \in Ends : way[e] = "accept" /\ way[f] = "accept" => e = f
    /\ legacy \in BOOLEAN
    /\ pc = [e \in Ends |-> "start"]
    /\ inbox = [e \in Ends |-> <<>>]
    /\ armed = {}
    /\ open = Ends
    /\ broken = FALSE
    /\ late = {}

\* Fault: the simultaneous-connect hint is not looked at.
IsClientWithoutHint(e) == way[e] # "accept"

\* direction == network.DirOutbound
IsClient(e) == way[e] \in {"dial", "dialAsClient"}

-----------------------------------------------------------------------------
\* e's inbox after reading, with a flight sent unless the peer has closed.
Exchange(e, rest, sent) ==
    inbox' = [inbox EXCEPT ![e] = rest,
                           ![Peer(e)] = IF Peer(e) \in open /\ ~broken
                                        THEN @ \o sent ELSE @]

\* The deadline is set, the client sends its hello, the server waits for one.
Start(e) ==
    /\ pc[e] = "start"
    /\ armed' = armed \cup {e}
    /\ \/ /\ IsClient(e)
          /\ pc' = [pc EXCEPT ![e] = "awaitFlight"]
          /\ Exchange(e, inbox[e], <<"ClientHello">>)
       \/ /\ ~IsClient(e)
          /\ pc' = [pc EXCEPT ![e] = "awaitHello"]
          /\ UNCHANGED inbox
    /\ UNCHANGED <<way, legacy, open, broken, late>>

\* The handshake goes on with the flight it waits for.
Proceed(e, at, flight, reply, next) ==
    /\ pc[e] = at
    /\ inbox[e] # <<>>
    /\ Head(inbox[e]) = flight
    /\ Exchange(e, Tail(inbox[e]), reply)
    /\ pc' = [pc EXCEPT ![e] = next]
    /\ UNCHANGED <<way, legacy, armed, open, broken, late>>

\* Fault: the server takes the hello for the whole handshake.
ServerFinishesEarly(e) ==
    Proceed(e, "awaitHello", "ClientHello", <<"ServerFlight">>, "clear")

ServerAnswers(e) ==
    Proceed(e, "awaitHello", "ClientHello", <<"ServerFlight">>, "awaitFinished")

ServerFinishes(e) ==
    Proceed(e, "awaitFinished", "Finished",
            IF legacy THEN <<"ServerFinished">> ELSE <<>>, "clear")

ClientAnswers(e) ==
    Proceed(e, "awaitFlight", "ServerFlight", <<"Finished">>,
            IF legacy THEN "awaitServerFinished" ELSE "clear")

ClientFinishes(e) ==
    Proceed(e, "awaitServerFinished", "ServerFinished", <<>>, "clear")

Expected(e) ==
    CASE pc[e] = "awaitHello" -> "ClientHello"
      [] pc[e] = "awaitFinished" -> "Finished"
      [] pc[e] = "awaitFlight" -> "ServerFlight"
      [] pc[e] = "awaitServerFinished" -> "ServerFinished"

\* Fault: a flight out of place is skipped.
UnexpectedSkipped(e) ==
    /\ pc[e] \in Waiting
    /\ inbox[e] # <<>>
    /\ Head(inbox[e]) # Expected(e)
    /\ Exchange(e, Tail(inbox[e]), <<>>)
    /\ UNCHANGED <<way, legacy, pc, armed, open, broken, late>>

\* Any other flight ends the handshake with an alert to the peer.
Unexpected(e) ==
    /\ pc[e] \in Waiting
    /\ inbox[e] # <<>>
    /\ Head(inbox[e]) # Expected(e)
    /\ Exchange(e, Tail(inbox[e]), IF Head(inbox[e]) = "Alert" THEN <<>> ELSE <<"Alert">>)
    /\ pc' = [pc EXCEPT ![e] = "failed"]
    /\ UNCHANGED <<way, legacy, armed, open, broken, late>>

\* A read fails: the peer closed its socket or the network lost the connection.
PeerGone(e) ==
    /\ pc[e] \in Waiting
    /\ broken \/ (inbox[e] = <<>> /\ Peer(e) \notin open)
    /\ pc' = [pc EXCEPT ![e] = "failed"]
    /\ UNCHANGED <<way, legacy, inbox, armed, open, broken, late>>

\* Fault: only the client's handshake is bounded.
DeadlineFiresAtClient(e) ==
    /\ pc[e] \in Waiting
    /\ IsClient(e)
    /\ pc' = [pc EXCEPT ![e] = "failed"]
    /\ open' \in {open, open \ {e}}
    /\ late' = late \cup {e}
    /\ UNCHANGED <<way, legacy, inbox, armed, broken>>

\* The socket's deadline or the handshake's context, equally long, expires; in
\* the second case the TLS library closes the socket itself.
DeadlineFires(e) ==
    /\ pc[e] \in Waiting
    /\ pc' = [pc EXCEPT ![e] = "failed"]
    /\ open' \in {open, open \ {e}}
    /\ late' = late \cup {e}
    /\ UNCHANGED <<way, legacy, inbox, armed, broken>>

\* conn.SetDeadline(time.Time{}) and the connection is handed on.
ClearDeadline(e) ==
    /\ pc[e] = "clear"
    /\ armed' = armed \ {e}
    /\ pc' = [pc EXCEPT ![e] = "done"]
    /\ UNCHANGED <<way, legacy, inbox, open, broken, late>>

\* Fault: the deadline is lifted on the error path too, before the close.
CloseRawUnarmed(e) ==
    /\ pc[e] = "failed"
    /\ armed' = armed \ {e}
    /\ open' = open \ {e}
    /\ pc' = [pc EXCEPT ![e] = "closed"]
    /\ UNCHANGED <<way, legacy, inbox, broken, late>>

\* Fault: the dialer returns the error and forgets the socket.
CloseRawOnAccept(e) ==
    /\ pc[e] = "failed"
    /\ open' = IF way[e] = "accept" THEN open \ {e} ELSE open
    /\ pc' = [pc EXCEPT ![e] = "closed"]
    /\ UNCHANGED <<way, legacy, inbox, armed, broken, late>>

\* The caller closes what NewCamouflageConn gave back as failed.
CloseRaw(e) ==
    /\ pc[e] = "failed"
    /\ open' = open \ {e}
    /\ pc' = [pc EXCEPT ![e] = "closed"]
    /\ UNCHANGED <<way, legacy, inbox, armed, broken, late>>

\* The network loses the connection, with what was under way.
Break ==
    /\ ~broken
    /\ broken' = TRUE
    /\ inbox' = [e \in Ends |-> <<>>]
    /\ UNCHANGED <<way, legacy, pc, armed, open, late>>

-----------------------------------------------------------------------------
Step(e) ==
    \/ Start(e) \/ ServerAnswers(e) \/ ServerFinishes(e) \/ ClientAnswers(e)
    \/ ClientFinishes(e) \/ Unexpected(e) \/ PeerGone(e) \/ ClearDeadline(e) \/ CloseRaw(e)

Terminated ==
    /\ \A e \in Ends : pc[e] \in {"done", "closed"}
    /\ broken
    /\ UNCHANGED vars

Next == (\E e \in Ends : Step(e) \/ DeadlineFires(e)) \/ Break \/ Terminated

Spec == Init /\ [][Next]_vars

\* Both ends run and deadlines fire in the end.
FairSpec ==
    Spec /\ \A e \in Ends : WF_vars(Step(e)) /\ WF_vars(DeadlineFires(e))

-----------------------------------------------------------------------------
\* The end that finishes last: it has read the other's Finished.
Last(e) == IsClient(e) = legacy

\* "two TLS clients must not be able to complete a handshake"
\* (holepunch_probe_test.go), nor can two servers; and whichever end the version
\* makes the last is through only after the other: whoever is done faces a peer of
\* the other role, and the last to be done faces one that is done as well.
DoneInPairs ==
    \A e \in Ends : pc[e] \in {"clear", "done"} =>
        /\ IsClient(e) # IsClient(Peer(e))
        /\ Last(e) => pc[Peer(e)] \in {"clear", "done"}

\* Whatever the roles, the peer and the network do, NewCamouflageConn ends: two
\* servers that wait for each other are freed by the deadline only.
HandshakeEnds ==
    \A e \in Ends : pc[e] = "start" ~> pc[e] \in {"done", "closed"}

\* The ways of meeting that must work: an ordinary dial of a listener, and a
\* hole punch whose two dials carry opposite hints.
WellMet ==
    \E e \in Ends :
        \/ way[e] = "accept" /\ way[Peer(e)] \in {"dial", "dialAsClient"}
        \/ way[e] = "dialAsServer" /\ way[Peer(e)] = "dialAsClient"

\* "client/server roles must succeed on the very same socket pair": ends that
\* are well met both complete unless the network or a deadline interferes.
WellMetComplete ==
    WellMet ~> (broken \/ late # {} \/ \A e \in Ends : pc[e] = "done")

\* Two servers wait for each other until the deadline; with a client at either end
\* the two never both wait while no flight is under way, so ends that do not suit
\* each other find out by themselves.
OnlyServersWaitInVain ==
    (\E e \in Ends : IsClient(e)) =>
        \/ broken
        \/ \E e \in Ends : pc[e] \notin Waiting \/ inbox[e] # <<>>

-----------------------------------------------------------------------------
(* The contract the handshake implements.                                   *)

Role(e) == IF IsClient(e) THEN "client" ELSE "server"

Result(e) ==
    CASE pc[e] \in {"start"} \cup Waiting -> "open"
      [] pc[e] = "clear" -> "agreed"
      [] pc[e] = "done" -> "handedOn"
      [] pc[e] = "failed" -> "failed"
      [] pc[e] = "closed" -> "givenUp"

Socket(e) ==
    IF e \notin open THEN "closed" ELSE IF e \in armed THEN "armed" ELSE "plain"

Contract == INSTANCE HandshakeContract
    WITH role <- [e \in Ends |-> Role(e)],
         lastRole <- IF legacy THEN "client" ELSE "server",
         result <- [e \in Ends |-> Result(e)],
         sock <- [e \in Ends |-> Socket(e)]

\* Whatever flights are exchanged, lost or out of place, the two callers see a
\* behaviour of the contract: success in pairs and for good, no deadline left on
\* what is handed on, no socket left open where the handshake was given up.
RefinesHandshakeContract == Contract!Spec
=============================================================================
