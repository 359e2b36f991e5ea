--------------------------- MODULE HandshakeProofs ---------------------------
(***************************************************************************)
(* Proofs about CamouflageHandshake.  What an end may conclude from being   *)
(* done rests on where the flights come from: each kind of flight is sent   *)
(* by one role only, in answer to one of the other role's, and the one that *)
(* lets the last end finish is sent by an end that is through.              *)
(***************************************************************************)
EXTENDS CamouflageHandshake, Integers, TLAPS

Carries(s) == {s[i] : i \in 1 .. Len(s)}

\* The handshake itself is over, and it succeeded.
Through(e) == pc[e] \in {"clear", "done"}

Opposite(e) == IsClient(e) # IsClient(Peer(e))

\* What a flight on its way to e says of the two ends.
Provenance(e) ==
    LET on == Carries(inbox[e])
    IN  /\ "ClientHello" \in on => IsClient(Peer(e))
        /\ "ServerFlight" \in on => IsClient(e) /\ Opposite(e)
        /\ "Finished" \in on => /\ ~IsClient(e) /\ Opposite(e)
                                /\ ~legacy => Through(Peer(e))
        /\ "ServerFinished" \in on => /\ legacy /\ IsClient(e) /\ Opposite(e)
                                      /\ Through(Peer(e))

\* What the place an end has reached says of the two.
Roles(e) ==
    /\ pc[e] = "awaitHello" => ~IsClient(e)
    /\ pc[e] = "awaitFlight" => IsClient(e)
    /\ pc[e] = "awaitFinished" => ~IsClient(e) /\ Opposite(e)
    /\ pc[e] = "awaitServerFinished" => legacy /\ IsClient(e) /\ Opposite(e)
    /\ Through(e) => Opposite(e) /\ (Last(e) => Through(Peer(e)))

Sockets(e) ==
    /\ pc[e] \in {"start", "clear", "done"} \cup Waiting => e \in open
    /\ pc[e] = "done" => e \notin armed
    /\ pc[e] = "closed" => e \notin open
    /\ pc[e] \in Waiting => e \in armed
    /\ e \in late => pc[e] \in {"failed", "closed"}

Undisturbed == ~broken /\ late = {}

\* Where a client c and a server s stand, and what is under way between them, when
\* neither the network nor a deadline has interfered.
InOrder(c, s) ==
    \/ /\ pc[c] = "start" /\ inbox[c] = <<>>
       /\ pc[s] \in {"start", "awaitHello"} /\ inbox[s] = <<>>
    \/ /\ pc[c] = "awaitFlight" /\ inbox[c] = <<>>
       /\ pc[s] \in {"start", "awaitHello"} /\ inbox[s] = <<"ClientHello">>
    \/ /\ pc[c] = "awaitFlight" /\ inbox[c] = <<"ServerFlight">>
       /\ pc[s] = "awaitFinished" /\ inbox[s] = <<>>
    \/ /\ IF legacy THEN pc[c] = "awaitServerFinished" ELSE Through(c)
       /\ inbox[c] = <<>>
       /\ pc[s] = "awaitFinished" /\ inbox[s] = <<"Finished">>
    \/ /\ legacy /\ pc[c] = "awaitServerFinished" /\ inbox[c] = <<"ServerFinished">>
       /\ Through(s) /\ inbox[s] = <<>>
    \/ Through(c) /\ inbox[c] = <<>> /\ Through(s) /\ inbox[s] = <<>>

Orderly(e) ==
    IsClient(e) /\ Opposite(e) /\ Undisturbed => InOrder(e, Peer(e))

\* Of two clients, the one that still waits has something to read.
TwoClients(e) ==
    ~Opposite(e) /\ IsClient(e) /\ ~broken =>
        (pc[e] \in Waiting /\ pc[Peer(e)] \in {"start"} \cup Waiting =>
            inbox[Peer(e)] # <<>>)

IInv ==
    /\ TypeOK
    /\ \A e \in Ends : Provenance(e) /\ Roles(e) /\ Sockets(e) /\ TwoClients(e)
    /\ \A e \in Ends : Orderly(e)

\* A connection handed on is open and carries no deadline that would cut it off
\* later; one given up has its socket closed on every error path.
HandedOnClean ==
    \A e \in Ends :
        /\ pc[e] = "done" => e \in open /\ e \notin armed
        /\ pc[e] = "closed" => e \notin open

\* Ends of opposite roles never fail each other.
WellMetUnharmed ==
    WellMet /\ Undisturbed => \A e \in Ends : pc[e] \notin {"failed", "closed"}

-----------------------------------------------------------------------------
(* The two ends, and sequences of flights.                                  *)

LEMMA PeerFacts ==
    ASSUME NEW e \in Ends
    PROVE  /\ Peer(e) \in Ends /\ Peer(e) # e /\ Peer(Peer(e)) = e
           /\ \A f \in Ends : f = e \/ f = Peer(e)
<1>1. PICK a \in Ends, b \in Ends : a # b /\ Ends = {a, b}
  BY EndsAssumption
<1>2. (e = a => Peer(e) = b) /\ (e = b => Peer(e) = a) /\ Peer(a) = b /\ Peer(b) = a
  BY <1>1 DEF Peer
<1>3. QED
  BY <1>1, <1>2

LEMMA CarriesNothing == Carries(<<>>) = {}
  BY DEF Carries

LEMMA CarriesTail ==
    ASSUME NEW s \in Seq(Flights), s # <<>>
    PROVE  /\ Tail(s) \in Seq(Flights) /\ Head(s) \in Carries(s)
           /\ Carries(Tail(s)) \subseteq Carries(s)
<1>1. /\ Tail(s) \in Seq(Flights) /\ Len(Tail(s)) = Len(s) - 1 /\ Len(s) \in Nat \ {0}
      /\ Head(s) = s[1]
      /\ \A i \in 1 .. Len(s) - 1 : Tail(s)[i] = s[i + 1]
  OBVIOUS
<1>2. \A i \in 1 .. Len(Tail(s)) : i + 1 \in 1 .. Len(s)
  BY <1>1
<1>3. QED
  BY <1>1, <1>2 DEF Carries

LEMMA CarriesOne ==
    ASSUME NEW s \in Seq(Flights), NEW m \in Flights
    PROVE  /\ s \o <<m>> \in Seq(Flights) /\ s \o <<m>> # <<>>
           /\ Carries(s \o <<m>>) \subseteq Carries(s) \cup {m}
<1>1. /\ s \o <<m>> \in Seq(Flights) /\ Len(s \o <<m>>) = Len(s) + 1 /\ Len(s) \in Nat
      /\ \A i \in 1 .. Len(s) : (s \o <<m>>)[i] = s[i]
      /\ (s \o <<m>>)[Len(s) + 1] = m
  OBVIOUS
<1>2. \A i \in 1 .. Len(s \o <<m>>) : i \in 1 .. Len(s) \/ i = Len(s) + 1
  BY <1>1
<1>3. QED
  BY <1>1, <1>2 DEF Carries

\* What an exchange leaves in the two inboxes.
LEMMA ExchangeSends ==
    ASSUME TypeOK, NEW e \in Ends, NEW rest \in Seq(Flights), NEW sent,
           Carries(rest) \subseteq Carries(inbox[e]),
           sent = <<>> \/ \E m \in Flights : sent = <<m>>,
           Exchange(e, rest, sent)
    PROVE  /\ inbox' \in [Ends -> Seq(Flights)]
           /\ Carries(inbox'[e]) \subseteq Carries(inbox[e])
           /\ Carries(inbox'[Peer(e)]) \subseteq
                  Carries(inbox[Peer(e)]) \cup {m \in Flights : sent = <<m>>}
           /\ inbox[Peer(e)] # <<>> => inbox'[Peer(e)] # <<>>
           /\ inbox'[e] = rest
           /\ Peer(e) \in open /\ ~broken /\ sent # <<>> => inbox'[Peer(e)] # <<>>
<1> DEFINE p == Peer(e)
           s == inbox[Peer(e)]
<1>1. p \in Ends /\ p # e
  BY PeerFacts
<1>2. s \in Seq(Flights)
  BY <1>1 DEF TypeOK
<1>3. /\ inbox' = [inbox EXCEPT ![e] = rest, ![p] = inbox'[p]]
      /\ inbox'[e] = rest
      /\ inbox'[p] = IF p \in open /\ ~broken THEN s \o sent ELSE s
  BY <1>1 DEF Exchange, TypeOK
<1>4. CASE sent = <<>>
  <2>1. inbox'[p] = s
    BY <1>2, <1>3, <1>4
  <2>2. QED
    BY <1>1, <1>2, <1>3, <1>4, <2>1 DEF TypeOK
<1>5. ASSUME NEW m \in Flights, sent = <<m>>
      PROVE  /\ inbox'[p] \in Seq(Flights)
             /\ Carries(inbox'[p]) \subseteq Carries(s) \cup {m}
             /\ s # <<>> => inbox'[p] # <<>>
             /\ p \in open /\ ~broken => inbox'[p] # <<>>
  BY <1>2, <1>3, <1>5, CarriesOne
<1>6. QED
  BY <1>1, <1>2, <1>3, <1>4, <1>5 DEF TypeOK

-----------------------------------------------------------------------------
(* The inductive step.                                                      *)

LEMMA InitInvariant == Init => IInv
<1> SUFFICES ASSUME Init PROVE IInv
  OBVIOUS
<1>1. TypeOK
  <2>1. <<>> \in Seq(Flights)
    OBVIOUS
  <2>2. QED
    BY <2>1 DEF Init, TypeOK
<1>2. ASSUME NEW e \in Ends
      PROVE  Provenance(e) /\ Roles(e) /\ Sockets(e) /\ TwoClients(e)
  <2>1. Carries(inbox[e]) = {}
    BY CarriesNothing DEF Init
  <2>2. pc[e] = "start" /\ e \in open /\ e \notin late
    BY DEF Init
  <2>3. QED
    BY <2>1, <2>2 DEF Provenance, Roles, Sockets, TwoClients, Through, Waiting
<1>3. ASSUME NEW e \in Ends PROVE Orderly(e)
  <2>1. Peer(e) \in Ends
    BY PeerFacts
  <2>2. QED
    BY <2>1 DEF Init, Orderly, InOrder
<1>4. QED
  BY <1>1, <1>2, <1>3 DEF IInv

\* A step of e, seen from both ends: e moves on, its peer does not, and what e
\* sends is one flight at most.  The four parts of the invariant follow from
\* what each kind of step sends and where it goes.
Moves(e, next, sent) ==
    /\ pc' = [pc EXCEPT ![e] = next]
    /\ UNCHANGED <<way, legacy, broken>>
    /\ inbox' \in [Ends -> Seq(Flights)]
    /\ Carries(inbox'[e]) \subseteq Carries(inbox[e])
    /\ Carries(inbox'[Peer(e)]) \subseteq Carries(inbox[Peer(e)]) \cup sent
    /\ inbox[Peer(e)] # <<>> => inbox'[Peer(e)] # <<>>

LEMMA UnchangedRoles ==
    ASSUME UNCHANGED <<way, legacy>>, NEW e \in Ends
    PROVE  IsClient(e)' = IsClient(e) /\ Opposite(e)' = Opposite(e) /\ Last(e)' = Last(e)
  BY DEF IsClient, Opposite, Last, Peer

\* Provenance and roles survive a step that goes where its role may go and
\* sends what its role may send.
LEMMA MoveKeeps ==
    ASSUME IInv, NEW e \in Ends, NEW next, NEW sent, Moves(e, next, sent),
           Through(e) => next \in {"clear", "done"},
           next = "awaitHello" => ~IsClient(e),
           next = "awaitFlight" => IsClient(e),
           next = "awaitFinished" => ~IsClient(e) /\ Opposite(e),
           next = "awaitServerFinished" => legacy /\ IsClient(e) /\ Opposite(e),
           next \in {"clear", "done"} => Opposite(e) /\ (Last(e) => Through(Peer(e))),
           "ClientHello" \in sent => IsClient(e),
           "ServerFlight" \in sent => ~IsClient(e) /\ Opposite(e),
           "Finished" \in sent => /\ IsClient(e) /\ Opposite(e)
                                  /\ ~legacy => next \in {"clear", "done"},
           "ServerFinished" \in sent => /\ legacy /\ ~IsClient(e) /\ Opposite(e)
                                        /\ next \in {"clear", "done"}
    PROVE  /\ \A f \in Ends : Provenance(f)' /\ Roles(f)'
           /\ inbox' \in [Ends -> Seq(Flights)]
           /\ inbox[Peer(e)] # <<>> => inbox'[Peer(e)] # <<>>
<1> DEFINE p == Peer(e)
<1>1. p \in Ends /\ p # e /\ Peer(p) = e /\ \A f \in Ends : f = e \/ f = p
  BY PeerFacts
<1>2. pc'[e] = next /\ pc'[p] = pc[p]
  BY <1>1 DEF Moves, IInv, TypeOK
<1>3. /\ IsClient(e)' = IsClient(e) /\ Opposite(e)' = Opposite(e) /\ Last(e)' = Last(e)
      /\ IsClient(p)' = IsClient(p) /\ Opposite(p)' = Opposite(p) /\ Last(p)' = Last(p)
      /\ legacy' = legacy
  BY <1>1, UnchangedRoles DEF Moves
<1>4. Opposite(p) = Opposite(e) /\ (Opposite(e) => IsClient(p) # IsClient(e))
  BY <1>1 DEF Opposite
<1>5. /\ Through(p)' = Through(p)
      /\ Through(e) => Through(e)'
      /\ Through(e)' <=> next \in {"clear", "done"}
  BY <1>2 DEF Through
<1>6. Peer(e)' = p /\ Peer(p)' = e
  BY <1>1 DEF Peer
<1>7. Provenance(e)'
  <2>1. Provenance(e)
    BY DEF IInv
  <2>2. Carries(inbox'[e]) \subseteq Carries(inbox[e])
    BY DEF Moves
  <2>3. QED
    BY <2>1, <2>2, <1>3, <1>5, <1>6 DEF Provenance
<1>8. Provenance(p)'
  <2>1. Provenance(p)
    BY <1>1 DEF IInv
  <2>2. Carries(inbox'[p]) \subseteq Carries(inbox[p]) \cup sent
    BY DEF Moves
  <2>3. QED
    BY <2>1, <2>2, <1>1, <1>3, <1>4, <1>5, <1>6 DEF Provenance, IsClient
<1>9. Roles(e)' /\ Roles(p)'
  <2>1. Roles(e) /\ Roles(p)
    BY <1>1 DEF IInv
  <2>2. QED
    BY <2>1, <1>1, <1>2, <1>3, <1>5, <1>6 DEF Roles
<1>10. \A f \in Ends : Provenance(f)' /\ Roles(f)'
  BY <1>1, <1>7, <1>8, <1>9
<1>11. QED
  BY <1>10 DEF Moves

\* Each step of the handshake proper is such a move.
LEMMA StepsMove ==
    ASSUME IInv, NEW e \in Ends,
           Step(e) \/ DeadlineFires(e)
    PROVE  /\ \A f \in Ends : Provenance(f)' /\ Roles(f)'
           /\ inbox' \in [Ends -> Seq(Flights)]
           /\ inbox[Peer(e)] # <<>> => inbox'[Peer(e)] # <<>>
<1> USE DEF IInv, TypeOK
<1>1. Peer(e) \in Ends /\ Peer(e) # e /\ Peer(Peer(e)) = e
  BY PeerFacts
<1>2. Provenance(e) /\ Roles(e)
  OBVIOUS
<1>3. inbox[e] # <<>> => /\ Tail(inbox[e]) \in Seq(Flights)
                         /\ Head(inbox[e]) \in Carries(inbox[e])
                         /\ Carries(Tail(inbox[e])) \subseteq Carries(inbox[e])
  BY CarriesTail
<1>4. <<>> \in Seq(Flights)
  OBVIOUS
\* A flight read, and perhaps one sent.
<1>5. ASSUME NEW m \in Flights, NEW at, NEW flight, NEW next,
             Proceed(e, at, flight, <<m>>, next)
      PROVE  Moves(e, next, {m}) /\ flight \in Carries(inbox[e])
  <2>1. {x \in Flights : <<m>> = <<x>>} = {m}
    OBVIOUS
  <2>2. QED
    BY <1>1, <1>3, <1>5, <2>1, ExchangeSends DEF Proceed, Moves
<1>6. ASSUME NEW at, NEW flight, NEW next, Proceed(e, at, flight, <<>>, next)
      PROVE  Moves(e, next, {}) /\ flight \in Carries(inbox[e])
  <2>1. {x \in Flights : <<>> = <<x>>} = {}
    OBVIOUS
  <2>2. QED
    BY <1>1, <1>3, <1>6, <2>1, ExchangeSends DEF Proceed, Moves
<1>7. CASE Start(e)
  <2>1. CASE IsClient(e)
    <3>1. Exchange(e, inbox[e], <<"ClientHello">>)
      BY <1>7, <2>1 DEF Start
    <3>2. "ClientHello" \in Flights
      BY DEF Flights
    <3>3. Moves(e, "awaitFlight", {"ClientHello"})
      <4>1. {x \in Flights : <<"ClientHello">> = <<x>>} = {"ClientHello"}
        BY <3>2
      <4>2. QED
        BY <1>7, <2>1, <3>1, <3>2, <4>1, ExchangeSends DEF Start, Moves
    <3>4. QED
      BY <1>7, <2>1, <3>3, MoveKeeps DEF Start, Through
  <2>2. CASE ~IsClient(e)
    <3>1. Moves(e, "awaitHello", {})
      BY <1>7, <2>2, <1>1 DEF Start, Moves
    <3>2. QED
      BY <1>7, <2>2, <3>1, MoveKeeps DEF Start, Through
  <2>3. QED
    BY <2>1, <2>2
<1>8. CASE ServerAnswers(e)
  <2>1. "ServerFlight" \in Flights
    BY DEF Flights
  <2>2. Moves(e, "awaitFinished", {"ServerFlight"}) /\ "ClientHello" \in Carries(inbox[e])
    BY <1>5, <1>8, <2>1 DEF ServerAnswers
  <2>3. pc[e] = "awaitHello" /\ ~IsClient(e) /\ IsClient(Peer(e))
    BY <1>2, <1>8, <2>2 DEF ServerAnswers, Proceed, Roles, Provenance
  <2>4. QED
    BY <2>2, <2>3, MoveKeeps DEF Through, Opposite
<1>9. CASE ServerFinishes(e)
  <2>1. "ServerFinished" \in Flights
    BY DEF Flights
  <2>2. CASE legacy
    <3>1. Proceed(e, "awaitFinished", "Finished", <<"ServerFinished">>, "clear")
      BY <1>9, <2>2 DEF ServerFinishes
    <3>2. Moves(e, "clear", {"ServerFinished"}) /\ "Finished" \in Carries(inbox[e])
      BY <1>5, <2>1, <3>1
    <3>3. ~IsClient(e) /\ Opposite(e) /\ ~Last(e)
      BY <1>2, <2>2, <3>2 DEF Provenance, Last, IsClient
    <3>4. QED
      BY <2>2, <3>2, <3>3, MoveKeeps
  <2>3. CASE ~legacy
    <3>1. Proceed(e, "awaitFinished", "Finished", <<>>, "clear")
      BY <1>9, <2>3 DEF ServerFinishes
    <3>2. Moves(e, "clear", {}) /\ "Finished" \in Carries(inbox[e])
      BY <1>6, <3>1
    <3>3. Opposite(e) /\ Through(Peer(e))
      BY <1>2, <2>3, <3>2 DEF Provenance
    <3>4. QED
      BY <3>2, <3>3, MoveKeeps
  <2>4. QED
    BY <2>2, <2>3
<1>10. CASE ClientAnswers(e)
  <2>1. "Finished" \in Flights
    BY DEF Flights
  <2>2. CASE legacy
    <3>1. Proceed(e, "awaitFlight", "ServerFlight", <<"Finished">>, "awaitServerFinished")
      BY <1>10, <2>2 DEF ClientAnswers
    <3>2. /\ Moves(e, "awaitServerFinished", {"Finished"})
          /\ "ServerFlight" \in Carries(inbox[e]) /\ pc[e] = "awaitFlight"
      BY <1>5, <2>1, <3>1 DEF Proceed
    <3>3. IsClient(e) /\ Opposite(e)
      BY <1>2, <3>2 DEF Provenance
    <3>4. QED
      BY <2>2, <3>2, <3>3, MoveKeeps DEF Through
  <2>3. CASE ~legacy
    <3>1. Proceed(e, "awaitFlight", "ServerFlight", <<"Finished">>, "clear")
      BY <1>10, <2>3 DEF ClientAnswers
    <3>2. Moves(e, "clear", {"Finished"}) /\ "ServerFlight" \in Carries(inbox[e])
      BY <1>5, <2>1, <3>1
    <3>3. IsClient(e) /\ Opposite(e) /\ ~Last(e)
      BY <1>2, <2>3, <3>2 DEF Provenance, Last, IsClient
    <3>4. QED
      BY <2>3, <3>2, <3>3, MoveKeeps
  <2>4. QED
    BY <2>2, <2>3
<1>11. CASE ClientFinishes(e)
  <2>1. Moves(e, "clear", {}) /\ "ServerFinished" \in Carries(inbox[e])
    BY <1>6, <1>11 DEF ClientFinishes
  <2>2. Opposite(e) /\ Through(Peer(e))
    BY <1>2, <2>1 DEF Provenance
  <2>3. QED
    BY <2>1, <2>2, MoveKeeps
<1>12. CASE Unexpected(e)
  <2>1. "Alert" \in Flights
    BY DEF Flights
  <2>2. ~Through(e)
    BY <1>12 DEF Unexpected, Through, Waiting
  <2>3. CASE Head(inbox[e]) = "Alert"
    <3>1. {x \in Flights : <<>> = <<x>>} = {}
      OBVIOUS
    <3>2. Exchange(e, Tail(inbox[e]), <<>>)
      BY <1>12, <2>3 DEF Unexpected
    <3>3. Moves(e, "failed", {})
      BY <1>3, <1>12, <3>1, <3>2, ExchangeSends DEF Unexpected, Moves
    <3>4. QED
      BY <2>2, <3>3, MoveKeeps
  <2>4. CASE Head(inbox[e]) # "Alert"
    <3>1. {x \in Flights : <<"Alert">> = <<x>>} = {"Alert"}
      BY <2>1
    <3>2. Exchange(e, Tail(inbox[e]), <<"Alert">>)
      BY <1>12, <2>4 DEF Unexpected
    <3>3. Moves(e, "failed", {"Alert"})
      BY <1>3, <1>12, <2>1, <3>1, <3>2, ExchangeSends DEF Unexpected, Moves
    <3>4. QED
      BY <2>2, <3>3, MoveKeeps
  <2>5. QED
    BY <2>3, <2>4
<1>13. CASE PeerGone(e) \/ DeadlineFires(e)
  <2>1. Moves(e, "failed", {}) /\ ~Through(e)
    BY <1>1, <1>13 DEF PeerGone, DeadlineFires, Moves, Through, Waiting
  <2>2. QED
    BY <2>1, MoveKeeps
<1>14. CASE ClearDeadline(e)
  <2>1. Moves(e, "done", {}) /\ Through(e)
    BY <1>1, <1>14 DEF ClearDeadline, Moves, Through
  <2>2. QED
    BY <1>2, <2>1, MoveKeeps DEF Roles
<1>15. CASE CloseRaw(e)
  <2>1. Moves(e, "closed", {}) /\ ~Through(e)
    BY <1>1, <1>15 DEF CloseRaw, Moves, Through
  <2>2. QED
    BY <2>1, MoveKeeps
<1>16. QED
  BY <1>7, <1>8, <1>9, <1>10, <1>11, <1>12, <1>13, <1>14, <1>15 DEF Step
\* Sockets, deadlines and the type of all but the inboxes.
LEMMA StepsKeepSockets ==
    ASSUME IInv, NEW e \in Ends, Step(e) \/ DeadlineFires(e)
    PROVE  TypeOK' /\ \A f \in Ends : Sockets(f)'
<1> USE DEF IInv, TypeOK, Waiting
<1>1. inbox' \in [Ends -> Seq(Flights)]
  BY StepsMove
<1>2. Sockets(e)
  OBVIOUS
<1>3. \A f \in Ends \ {e} : /\ pc'[f] = pc[f]
                            /\ f \in open' <=> f \in open
                            /\ f \in armed' <=> f \in armed
                            /\ f \in late' <=> f \in late
  BY DEF Step, Start, ServerAnswers, ServerFinishes, ClientAnswers, ClientFinishes,
     Proceed, Unexpected, PeerGone, DeadlineFires, ClearDeadline, CloseRaw
<1>4. ASSUME NEW f \in Ends PROVE Sockets(f)'
  <2>1. CASE f = e
    BY <1>2, <2>1
    DEF Sockets, Step, Start, ServerAnswers, ServerFinishes, ClientAnswers,
        ClientFinishes, Proceed, Unexpected, PeerGone, DeadlineFires,
        ClearDeadline, CloseRaw
  <2>2. CASE f # e
    <3>1. Sockets(f)
      OBVIOUS
    <3>2. QED
      BY <1>3, <2>2, <3>1 DEF Sockets
  <2>3. QED
    BY <2>1, <2>2
<1>5. TypeOK'
  <2>1. late' \subseteq armed'
    BY <1>2, <1>3
    DEF Sockets, Step, Start, ServerAnswers, ServerFinishes, ClientAnswers,
        ClientFinishes, Proceed, Unexpected, PeerGone, DeadlineFires,
        ClearDeadline, CloseRaw
  <2>2. QED
    BY <1>1, <2>1
    DEF Step, Start, ServerAnswers, ServerFinishes, ClientAnswers,
        ClientFinishes, Proceed, Unexpected, PeerGone, DeadlineFires,
        ClearDeadline, CloseRaw
<1>6. QED
  BY <1>4, <1>5

\* Of two clients, one that waits after its step has just sent its hello.
LEMMA ClientsOnlyStart ==
    ASSUME IInv, NEW e \in Ends, Step(e) \/ DeadlineFires(e),
           IsClient(e), ~Opposite(e), pc'[e] \in {"start"} \cup Waiting
    PROVE  /\ pc[e] = "start" /\ inbox'[e] = inbox[e]
           /\ Exchange(e, inbox[e], <<"ClientHello">>)
<1> USE DEF IInv, TypeOK, Waiting
<1>1. Peer(e) \in Ends /\ Peer(e) # e
  BY PeerFacts
<1>2. ~ServerAnswers(e)
  BY DEF ServerAnswers, Proceed, Roles
<1>3. ~(ClientAnswers(e) /\ pc'[e] = "awaitServerFinished")
  <2>1. ClientAnswers(e) => "ServerFlight" \in Carries(inbox[e])
    BY CarriesTail DEF ClientAnswers, Proceed
  <2>2. QED
    BY <2>1 DEF Provenance
<1>4. Start(e)
  BY <1>2, <1>3
  DEF Step, ServerFinishes, ClientAnswers, ClientFinishes, Proceed, Unexpected,
      PeerGone, DeadlineFires, ClearDeadline, CloseRaw
<1>5. QED
  BY <1>1, <1>4 DEF Start, Exchange

LEMMA StepsKeepTwoClients ==
    ASSUME IInv, NEW e \in Ends, Step(e) \/ DeadlineFires(e)
    PROVE  \A f \in Ends : TwoClients(f)'
<1> DEFINE p == Peer(e)
<1>1. p \in Ends /\ p # e /\ Peer(p) = e /\ \A f \in Ends : f = e \/ f = p
  BY PeerFacts
<1>2. /\ pc'[p] = pc[p]
      /\ pc' \in [Ends -> {"start", "clear", "done", "failed", "closed"} \cup Waiting]
      /\ UNCHANGED <<way, legacy, broken>>
  BY <1>1, StepsKeepSockets
  DEF IInv, TypeOK, Step, Start, ServerAnswers, ServerFinishes, ClientAnswers,
      ClientFinishes, Proceed, Unexpected, PeerGone, DeadlineFires, ClearDeadline,
      CloseRaw
<1>3. /\ IsClient(e)' = IsClient(e) /\ Opposite(e)' = Opposite(e)
      /\ IsClient(p)' = IsClient(p) /\ Opposite(p)' = Opposite(p)
      /\ Peer(e)' = p /\ Peer(p)' = e
  BY <1>1, <1>2, UnchangedRoles DEF Peer
<1>4. inbox[p] # <<>> => inbox'[p] # <<>>
  BY StepsMove
<1>5. TwoClients(e)'
  <2> SUFFICES ASSUME ~Opposite(e), IsClient(e), ~broken, pc'[e] \in Waiting,
                      pc[p] \in {"start"} \cup Waiting
               PROVE  inbox'[p] # <<>>
    BY <1>2, <1>3 DEF TwoClients
  <2>1. Exchange(e, inbox[e], <<"ClientHello">>)
    BY ClientsOnlyStart
  <2>2. p \in open
    BY <1>1 DEF IInv, Sockets
  <2>3. QED
    <3>1. "ClientHello" \in Flights /\ inbox[e] \in Seq(Flights) /\ TypeOK
      BY DEF Flights, IInv, TypeOK
    <3>2. QED
      BY <2>1, <2>2, <3>1, ExchangeSends
<1>6. TwoClients(p)'
  <2> SUFFICES ASSUME ~Opposite(p), IsClient(p), ~broken, pc[p] \in Waiting,
                      pc'[e] \in {"start"} \cup Waiting
               PROVE  inbox'[e] # <<>>
    BY <1>2, <1>3 DEF TwoClients
  <2>1. IsClient(e) /\ ~Opposite(e)
    BY <1>1 DEF Opposite, IsClient
  <2>2. pc[e] = "start" /\ inbox'[e] = inbox[e]
    BY <2>1, ClientsOnlyStart
  <2>3. TwoClients(p)
    BY <1>1 DEF IInv
  <2>4. QED
    BY <1>1, <2>2, <2>3 DEF TwoClients
<1>7. QED
  BY <1>1, <1>5, <1>6

\* One flight under way: what there is to know of it as a sequence.
LEMMA OneFlight ==
    ASSUME NEW m \in Flights
    PROVE  /\ <<>> \in Seq(Flights) /\ <<m>> \in Seq(Flights) /\ <<m>> # <<>>
           /\ Head(<<m>>) = m /\ Tail(<<m>>) = <<>>
           /\ <<>> \o <<m>> = <<m>> /\ <<m>> \o <<>> = <<m>> /\ <<>> \o <<>> = <<>>
  OBVIOUS

\* Between ends of opposite roles whatever arrives is what the reader waits for.
LEMMA StepsKeepOrder ==
    ASSUME IInv, NEW c \in Ends, NEW s \in Ends, s = Peer(c),
           IsClient(c), ~IsClient(s), Undisturbed, InOrder(c, s),
           NEW e \in Ends, Step(e), UNCHANGED <<legacy, broken, late>>
    PROVE  InOrder(c, s)'
<1> DEFINE flights == {"ClientHello", "ServerFlight", "Finished", "ServerFinished"}
<1>1. /\ c # s /\ Peer(s) = c /\ (e = c \/ e = s)
      /\ ~broken
  BY PeerFacts DEF Undisturbed
<1>2. pc \in [Ends -> {"start", "clear", "done", "failed", "closed"} \cup Waiting]
      /\ inbox \in [Ends -> Seq(Flights)]
  BY DEF IInv, TypeOK
<1>3. c \in open /\ s \in open
  BY DEF InOrder, Through, IInv, Sockets, Waiting
<1>4. \A m \in flights : /\ <<m>> # <<>> /\ Head(<<m>>) = m /\ Tail(<<m>>) = <<>>
                         /\ <<>> \o <<m>> = <<m>> /\ <<m>> \o <<>> = <<m>>
  BY OneFlight DEF Flights
<1>5. <<>> \o <<>> = <<>>
  OBVIOUS
<1>6. ASSUME NEW at, NEW flight, NEW reply, NEW next,
             Proceed(e, at, flight, reply, next)
      PROVE  /\ pc[e] = at /\ inbox[e] # <<>> /\ Head(inbox[e]) = flight
             /\ pc'[e] = next /\ pc'[Peer(e)] = pc[Peer(e)]
             /\ inbox'[e] = Tail(inbox[e])
             /\ inbox'[Peer(e)] = inbox[Peer(e)] \o reply
  BY <1>1, <1>2, <1>3, <1>6 DEF Proceed, Exchange
\* The client's steps.
<1>7. CASE e = c
  <2>1. CASE Start(c)
    <3>1. /\ pc[c] = "start" /\ pc'[c] = "awaitFlight" /\ pc'[s] = pc[s]
          /\ inbox'[c] = inbox[c] /\ inbox'[s] = inbox[s] \o <<"ClientHello">>
      BY <1>1, <1>2, <1>3, <2>1 DEF Start, Exchange
    <3>2. QED
      BY <1>4, <3>1 DEF InOrder, Through
  <2>2. CASE ClientAnswers(c)
    <3>1. /\ pc[c] = "awaitFlight" /\ inbox[c] # <<>>
          /\ pc'[c] = IF legacy THEN "awaitServerFinished" ELSE "clear"
          /\ pc'[s] = pc[s] /\ inbox'[c] = Tail(inbox[c])
          /\ inbox'[s] = inbox[s] \o <<"Finished">>
      BY <1>6, <1>7, <2>2 DEF ClientAnswers
    <3>2. inbox[c] = <<"ServerFlight">> /\ pc[s] = "awaitFinished" /\ inbox[s] = <<>>
      BY <3>1 DEF InOrder, Through
    <3>3. inbox'[c] = <<>> /\ inbox'[s] = <<"Finished">> /\ pc'[s] = "awaitFinished"
      BY <1>4, <3>1, <3>2
    <3>4. IF legacy' THEN pc'[c] = "awaitServerFinished" ELSE pc'[c] = "clear"
      BY <3>1
    <3>5. QED
      BY <3>3, <3>4 DEF InOrder, Through
  <2>3. CASE ClientFinishes(c)
    <3>1. /\ pc[c] = "awaitServerFinished" /\ inbox[c] # <<>> /\ pc'[c] = "clear"
          /\ pc'[s] = pc[s] /\ inbox'[c] = Tail(inbox[c])
          /\ inbox'[s] = inbox[s] \o <<>>
      BY <1>6, <1>7, <2>3 DEF ClientFinishes
    <3>2. inbox[c] = <<"ServerFinished">> /\ Through(s) /\ inbox[s] = <<>>
      BY <3>1 DEF InOrder, Through
    <3>3. QED
      BY <1>4, <1>5, <3>1, <3>2 DEF InOrder, Through
  <2>4. CASE ClearDeadline(c)
    BY <1>1, <1>2, <2>4 DEF ClearDeadline, InOrder, Through
  <2>5. ~ServerAnswers(c) /\ ~ServerFinishes(c) /\ ~CloseRaw(c)
    BY DEF ServerAnswers, ServerFinishes, Proceed, CloseRaw, InOrder, Through
  <2>6. ~PeerGone(c)
    BY <1>1, <1>3 DEF PeerGone
  <2>7. ~Unexpected(c)
    <3>1. inbox[c] # <<>> /\ pc[c] \in Waiting =>
             \/ pc[c] = "awaitFlight" /\ Head(inbox[c]) = "ServerFlight"
             \/ pc[c] = "awaitServerFinished" /\ Head(inbox[c]) = "ServerFinished"
      BY <1>4 DEF InOrder, Through, Waiting
    <3>2. QED
      BY <3>1 DEF Unexpected, Expected
  <2>8. QED
    BY <1>7, <2>1, <2>2, <2>3, <2>4, <2>5, <2>6, <2>7 DEF Step
\* The server's.
<1>8. CASE e = s
  <2>1. CASE Start(s)
    <3>1. /\ pc[s] = "start" /\ pc'[s] = "awaitHello" /\ pc'[c] = pc[c]
          /\ inbox' = inbox
      BY <1>1, <1>2, <2>1 DEF Start
    <3>2. QED
      BY <3>1 DEF InOrder, Through
  <2>2. CASE ServerAnswers(s)
    <3>1. /\ pc[s] = "awaitHello" /\ inbox[s] # <<>> /\ pc'[s] = "awaitFinished"
          /\ pc'[c] = pc[c] /\ inbox'[s] = Tail(inbox[s])
          /\ inbox'[c] = inbox[c] \o <<"ServerFlight">>
      BY <1>1, <1>6, <1>8, <2>2 DEF ServerAnswers
    <3>2. inbox[s] = <<"ClientHello">> /\ pc[c] = "awaitFlight" /\ inbox[c] = <<>>
      BY <3>1 DEF InOrder, Through
    <3>3. inbox'[s] = <<>> /\ inbox'[c] = <<"ServerFlight">> /\ pc'[c] = "awaitFlight"
      BY <1>4, <3>1, <3>2
    <3>4. QED
      BY <3>1, <3>3 DEF InOrder
  <2>3. CASE ServerFinishes(s)
    <3>1. /\ pc[s] = "awaitFinished" /\ inbox[s] # <<>> /\ pc'[s] = "clear"
          /\ pc'[c] = pc[c] /\ inbox'[s] = Tail(inbox[s])
          /\ legacy => inbox'[c] = inbox[c] \o <<"ServerFinished">>
          /\ ~legacy => inbox'[c] = inbox[c] \o <<>>
      BY <1>1, <1>6, <1>8, <2>3 DEF ServerFinishes
    <3>2. /\ inbox[s] = <<"Finished">> /\ inbox[c] = <<>>
          /\ IF legacy THEN pc[c] = "awaitServerFinished" ELSE Through(c)
      BY <3>1 DEF InOrder, Through
    <3>3. /\ inbox'[s] = <<>>
          /\ legacy => inbox'[c] = <<"ServerFinished">>
          /\ ~legacy => inbox'[c] = <<>>
      BY <1>4, <1>5, <3>1, <3>2
    <3>4. QED
      BY <3>1, <3>2, <3>3 DEF InOrder, Through
  <2>4. CASE ClearDeadline(s)
    BY <1>1, <1>2, <2>4 DEF ClearDeadline, InOrder, Through
  <2>5. ~ClientAnswers(s) /\ ~ClientFinishes(s) /\ ~CloseRaw(s)
    BY DEF ClientAnswers, ClientFinishes, Proceed, CloseRaw, InOrder, Through
  <2>6. ~PeerGone(s)
    BY <1>1, <1>3 DEF PeerGone
  <2>7. ~Unexpected(s)
    <3>1. inbox[s] # <<>> /\ pc[s] \in Waiting =>
             \/ pc[s] = "awaitHello" /\ Head(inbox[s]) = "ClientHello"
             \/ pc[s] = "awaitFinished" /\ Head(inbox[s]) = "Finished"
      BY <1>4 DEF InOrder, Through, Waiting
    <3>2. QED
      BY <3>1 DEF Unexpected, Expected
  <2>8. QED
    BY <1>8, <2>1, <2>2, <2>3, <2>4, <2>5, <2>6, <2>7 DEF Step
<1>9. QED
  BY <1>1, <1>7, <1>8

\* A deadline and the network are what the order does not cover.
LEMMA StepsKeepOrderly ==
    ASSUME IInv, NEW e \in Ends, Step(e) \/ DeadlineFires(e)
    PROVE  \A f \in Ends : Orderly(f)'
<1> SUFFICES ASSUME NEW f \in Ends, ~Orderly(f)'
             PROVE  FALSE
  BY DEF Orderly
<1>1. UNCHANGED <<way, legacy, broken>>
  BY DEF Step, Start, ServerAnswers, ServerFinishes, ClientAnswers, ClientFinishes,
     Proceed, Unexpected, PeerGone, DeadlineFires, ClearDeadline, CloseRaw
<1>2. IsClient(f) /\ Opposite(f) /\ Undisturbed' /\ ~InOrder(f, Peer(f))'
  BY <1>1, UnchangedRoles DEF Orderly
<1>3. Step(e) /\ late' = late
  BY <1>2
  DEF Undisturbed, Step, Start, ServerAnswers, ServerFinishes, ClientAnswers,
      ClientFinishes, Proceed, Unexpected, PeerGone, DeadlineFires, ClearDeadline,
      CloseRaw
<1>4. Undisturbed
  BY <1>1, <1>2, <1>3 DEF Undisturbed
<1>5. Peer(f) \in Ends /\ ~IsClient(Peer(f)) /\ InOrder(f, Peer(f)) /\ Peer(f)' = Peer(f)
  BY <1>2, <1>4, PeerFacts DEF IInv, Orderly, Opposite, Peer
<1>6. InOrder(f, Peer(f))'
  BY <1>1, <1>2, <1>3, <1>4, <1>5, StepsKeepOrder
<1>7. QED
  BY <1>2, <1>6

\* Losing the connection loses the flights with it.
LEMMA BreakKeeps == ASSUME IInv, Break PROVE IInv'
<1>1. TypeOK'
  <2>1. <<>> \in Seq(Flights)
    OBVIOUS
  <2>2. QED
    BY <2>1 DEF IInv, TypeOK, Break
<1>2. ASSUME NEW e \in Ends
      PROVE  (Provenance(e) /\ Roles(e) /\ Sockets(e) /\ TwoClients(e) /\ Orderly(e))'
  <2>1. Carries(inbox'[e]) = {}
    BY CarriesNothing DEF Break
  <2>2. Roles(e)' /\ Sockets(e)'
    BY DEF IInv, Break, Roles, Sockets, Through, Opposite, Last, IsClient, Peer
  <2>3. QED
    BY <2>1, <2>2 DEF Break, Provenance, TwoClients, Orderly, Undisturbed
<1>3. QED
  BY <1>1, <1>2 DEF IInv

LEMMA StepInvariant == IInv /\ [Next]_vars => IInv'
<1> SUFFICES ASSUME IInv, [Next]_vars PROVE IInv'
  OBVIOUS
<1>1. ASSUME NEW e \in Ends, Step(e) \/ DeadlineFires(e) PROVE IInv'
  BY <1>1, StepsMove, StepsKeepSockets, StepsKeepTwoClients, StepsKeepOrderly DEF IInv
<1>2. CASE Break
  BY <1>2, BreakKeeps
<1>3. CASE UNCHANGED vars
  BY <1>3
  DEF vars, IInv, TypeOK, Provenance, Roles, Sockets, TwoClients, Orderly, InOrder,
      Undisturbed, Through, Opposite, Last, IsClient, Peer, Carries
<1>4. QED
  BY <1>1, <1>2, <1>3 DEF Next, Terminated

\* The inductive invariant of the handshake.
THEOREM Invariance == Spec => []IInv
  BY InitInvariant, StepInvariant, PTL DEF Spec

-----------------------------------------------------------------------------
\* Flights, places and deadlines are what they are meant to be.
THEOREM TypeCorrect == Spec => []TypeOK
<1>1. IInv => TypeOK
  BY DEF IInv
<1>2. QED
  BY <1>1, Invariance, PTL

\* Whoever is done faces an end of the other role, and the end that the version
\* makes the last faces one that is done: two clients, or two servers, never get
\* through, whatever way the two came by the connection.
THEOREM DoneFacesDone == Spec => []DoneInPairs
<1>1. IInv => DoneInPairs
  BY DEF IInv, Roles, Through, Opposite, DoneInPairs
<1>2. QED
  BY <1>1, Invariance, PTL

\* A connection is handed on open and without deadline, or closed.
THEOREM HandOverIsClean == Spec => []HandedOnClean
<1>1. IInv => HandedOnClean
  BY DEF IInv, Sockets, HandedOnClean
<1>2. QED
  BY <1>1, Invariance, PTL

\* With a client at either end the deadline is not needed to end a wait: of two
\* clients one has the other's hello to read, and ends of opposite roles always have
\* a flight between them.
THEOREM NoWaitWithoutCause == Spec => []OnlyServersWaitInVain
<1>1. ASSUME IInv, NEW c \in Ends, IsClient(c), ~broken,
             \A e \in Ends : pc[e] \in Waiting
      PROVE  \E e \in Ends : inbox[e] # <<>>
  <2>1. Peer(c) \in Ends
    BY PeerFacts
  <2>2. CASE ~Opposite(c)
    <3>1. inbox[Peer(c)] # <<>>
      BY <1>1, <2>1, <2>2 DEF IInv, TwoClients
    <3>2. QED
      BY <2>1, <3>1
  <2>3. CASE Opposite(c)
    <3>1. Undisturbed
      <4>1. \A e \in Ends : e \notin late
        BY <1>1 DEF IInv, Sockets, Waiting
      <4>2. late \subseteq Ends
        BY <1>1 DEF IInv, TypeOK
      <4>3. QED
        BY <1>1, <4>1, <4>2 DEF Undisturbed
    <3>2. InOrder(c, Peer(c))
      BY <1>1, <2>3, <3>1 DEF IInv, Orderly
    <3>3. pc[c] \in Waiting /\ pc[Peer(c)] \in Waiting
      BY <1>1, <2>1
    <3>4. inbox[c] # <<>> \/ inbox[Peer(c)] # <<>>
      BY <3>2, <3>3, OneFlight DEF InOrder, Through, Waiting, Flights
    <3>5. QED
      BY <2>1, <3>4
  <2>4. QED
    BY <2>2, <2>3
<1>2. IInv => OnlyServersWaitInVain
  BY <1>1 DEF OnlyServersWaitInVain
<1>3. QED
  BY <1>2, Invariance, PTL

\* Ends that are well met never fail each other: only the network or a deadline can
\* keep them from completing, whatever the version and however their steps mix.
THEOREM WellMetIsEnough == Spec => []WellMetUnharmed
<1>1. ASSUME IInv, WellMet, Undisturbed, NEW e \in Ends
      PROVE  pc[e] \notin {"failed", "closed"}
  <2>1. PICK c \in Ends : IsClient(c) /\ ~IsClient(Peer(c))
    <3>1. PICK f \in Ends :
             \/ way[f] = "accept" /\ way[Peer(f)] \in {"dial", "dialAsClient"}
             \/ way[f] = "dialAsServer" /\ way[Peer(f)] = "dialAsClient"
      BY <1>1 DEF WellMet
    <3>2. ~IsClient(f) /\ IsClient(Peer(f))
      BY <3>1 DEF IsClient
    <3>3. QED
      BY <3>2, PeerFacts
  <2>2. InOrder(c, Peer(c))
    BY <1>1, <2>1 DEF IInv, Orderly, Opposite
  <2>3. e = c \/ e = Peer(c)
    BY PeerFacts
  <2>4. QED
    BY <2>2, <2>3 DEF InOrder, Through
<1>2. IInv => WellMetUnharmed
  BY <1>1 DEF WellMetUnharmed
<1>3. QED
  BY <1>2, Invariance, PTL

-----------------------------------------------------------------------------
(* Refinement: each step of an end is a step of the contract or none.       *)

LEMMA InitRefines == Init => Contract!Init
  BY DEF Init, Contract!Init, Role, Result, Socket, Waiting

\* What the contract sees of the other end never changes, nor do the roles.
LEMMA StepSeen ==
    ASSUME IInv, NEW e \in Ends, Step(e) \/ DeadlineFires(e)
    PROVE  /\ UNCHANGED [f \in Ends |-> Role(f)]
           /\ UNCHANGED (IF legacy THEN "client" ELSE "server")
           /\ [f \in Ends |-> Result(f)]' =
                  [[f \in Ends |-> Result(f)] EXCEPT ![e] = Result(e)']
           /\ [f \in Ends |-> Socket(f)]' =
                  [[f \in Ends |-> Socket(f)] EXCEPT ![e] = Socket(e)']
<1>1. UNCHANGED <<way, legacy>>
  BY DEF Step, Start, ServerAnswers, ServerFinishes, ClientAnswers, ClientFinishes,
     Proceed, Unexpected, PeerGone, DeadlineFires, ClearDeadline, CloseRaw
<1>2. \A f \in Ends \ {e} : /\ pc'[f] = pc[f]
                            /\ f \in open' <=> f \in open
                            /\ f \in armed' <=> f \in armed
  BY DEF IInv, TypeOK, Step, Start, ServerAnswers, ServerFinishes, ClientAnswers,
     ClientFinishes, Proceed, Unexpected, PeerGone, DeadlineFires, ClearDeadline,
     CloseRaw
<1>3. \A f \in Ends : Role(f)' = Role(f)
  BY <1>1 DEF Role, IsClient
<1>4. \A f \in Ends \ {e} : Result(f)' = Result(f) /\ Socket(f)' = Socket(f)
  BY <1>2 DEF Result, Socket
<1>5. QED
  BY <1>1, <1>3, <1>4

\* How the end itself changes.
LEMMA StepChanges ==
    ASSUME IInv, IInv', NEW e \in Ends, Step(e) \/ DeadlineFires(e)
    PROVE  \/ Result(e)' = Result(e) /\ Socket(e)' = Socket(e)
           \/ /\ Result(e) = "open" /\ Socket(e) = "plain"
              /\ Result(e)' = "open" /\ Socket(e)' = "armed"
           \/ /\ Result(e) = "open" /\ Socket(e) = "armed"
              /\ Result(e)' = "agreed" /\ Socket(e)' = "armed"
              /\ Opposite(e) /\ (Last(e) => Through(Peer(e)))
           \/ Result(e) = "agreed" /\ Result(e)' = "handedOn" /\ Socket(e)' = "plain"
           \/ /\ Result(e) = "open" /\ Socket(e) = "armed"
              /\ Result(e)' = "failed" /\ Socket(e)' \in {"armed", "closed"}
           \/ Result(e) = "failed" /\ Result(e)' = "givenUp" /\ Socket(e)' = "closed"
<1> USE DEF IInv, TypeOK, Waiting, Sockets, Result, Socket
<1>1. Sockets(e) /\ Sockets(e)'
  OBVIOUS
<1>2. CASE Start(e)
  BY <1>1, <1>2 DEF Start
<1>3. CASE ServerAnswers(e) \/ ServerFinishes(e) \/ ClientAnswers(e) \/ ClientFinishes(e)
  <2>1. /\ pc[e] \in Waiting /\ pc'[e] \in Waiting \cup {"clear"}
        /\ UNCHANGED <<armed, open, way, legacy>>
        /\ pc' = [pc EXCEPT ![e] = pc'[e]]
    BY <1>3 DEF ServerAnswers, ServerFinishes, ClientAnswers, ClientFinishes, Proceed
  <2>2. CASE pc'[e] \in Waiting
    BY <2>1, <2>2
  <2>3. CASE pc'[e] = "clear"
    <3>1. Opposite(e)' /\ (Last(e)' => Through(Peer(e))')
      BY <2>3 DEF Roles, Through
    <3>2. Opposite(e)' = Opposite(e) /\ Last(e)' = Last(e)
      BY <2>1, UnchangedRoles
    <3>3. Through(Peer(e))' = Through(Peer(e))
      BY <2>1, PeerFacts DEF Through, Peer
    <3>4. QED
      BY <1>1, <2>1, <2>3, <3>1, <3>2, <3>3
  <2>4. QED
    BY <2>1, <2>2, <2>3
<1>4. CASE Unexpected(e) \/ PeerGone(e) \/ DeadlineFires(e)
  BY <1>1, <1>4 DEF Unexpected, PeerGone, DeadlineFires
<1>5. CASE ClearDeadline(e)
  BY <1>1, <1>5 DEF ClearDeadline
<1>6. CASE CloseRaw(e)
  BY <1>1, <1>6 DEF CloseRaw
<1>7. QED
  BY <1>2, <1>3, <1>4, <1>5, <1>6 DEF Step

LEMMA StepRefines ==
    ASSUME IInv, IInv', NEW e \in Ends, Step(e) \/ DeadlineFires(e)
    PROVE  Contract!Next \/ UNCHANGED Contract!vars
<1> USE StepSeen
<1>1. CASE Result(e)' = Result(e) /\ Socket(e)' = Socket(e)
  BY <1>1 DEF Contract!vars
<1>2. CASE /\ Result(e) = "open" /\ Socket(e) = "plain"
           /\ Result(e)' = "open" /\ Socket(e)' = "armed"
  BY <1>2 DEF Contract!Next, Contract!Arm, Contract!Change
<1>3. CASE /\ Result(e) = "open" /\ Socket(e) = "armed"
           /\ Result(e)' = "agreed" /\ Socket(e)' = "armed"
           /\ Opposite(e) /\ (Last(e) => Through(Peer(e)))
  <2>1. ASSUME NEW f \in Ends \ {e}
        PROVE  /\ Role(f) # Role(e)
               /\ Role(e) = (IF legacy THEN "client" ELSE "server") =>
                     Result(f) \in {"agreed", "handedOn"}
    <3>1. f = Peer(e)
      BY PeerFacts
    <3>2. Role(f) # Role(e)
      BY <1>3, <3>1 DEF Opposite, Role, IsClient
    <3>3. Role(e) = (IF legacy THEN "client" ELSE "server") => Last(e)
      BY DEF Role, Last, IsClient, IInv, TypeOK
    <3>4. Through(f) => Result(f) \in {"agreed", "handedOn"}
      BY DEF Through, Result, Waiting
    <3>5. QED
      BY <1>3, <3>1, <3>2, <3>3, <3>4
  <2>2. Contract!Agree(e)
    BY <1>3, <2>1 DEF Contract!Agree, Contract!Change
  <2>3. QED
    BY <2>2 DEF Contract!Next
<1>4. CASE Result(e) = "agreed" /\ Result(e)' = "handedOn" /\ Socket(e)' = "plain"
  BY <1>4 DEF Contract!Next, Contract!HandOn, Contract!Change
<1>5. CASE /\ Result(e) = "open" /\ Socket(e) = "armed"
           /\ Result(e)' = "failed" /\ Socket(e)' \in {"armed", "closed"}
  BY <1>5 DEF Contract!Next, Contract!Fail, Contract!Change
<1>6. CASE Result(e) = "failed" /\ Result(e)' = "givenUp" /\ Socket(e)' = "closed"
  BY <1>6 DEF Contract!Next, Contract!GiveUp, Contract!Change
<1>7. QED
  BY StepChanges, <1>1, <1>2, <1>3, <1>4, <1>5, <1>6

\* The loss of the connection is seen only in what the ends then do.
LEMMA OthersStutter ==
    ASSUME Break \/ UNCHANGED vars
    PROVE  UNCHANGED Contract!vars
<1>1. UNCHANGED <<way, legacy, pc, open, armed>>
  BY DEF Break, vars
<1>2. QED
  BY <1>1 DEF Contract!vars, Role, IsClient, Result, Socket

\* The handshake as its two callers see it.
THEOREM Refinement == Spec => RefinesHandshakeContract
<1>1. IInv /\ IInv' /\ [Next]_vars => [Contract!Next]_Contract!vars
  BY StepRefines, OthersStutter DEF Next, Terminated
<1>2. QED
  BY InitRefines, <1>1, Invariance, PTL
  DEF Spec, RefinesHandshakeContract, Contract!Spec
=============================================================================
