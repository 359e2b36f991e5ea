---------------------------- MODULE GatedListener ----------------------------
(***************************************************************************)
(* camouflageGatedMaListener (camouflage.go): the accept side of the       *)
(* transport.  One goroutine (run) takes connections from the inner        *)
(* listener and dispatches each to a handshake goroutine, at most          *)
(* acceptQueueSize at a time; a finished handshake is offered on the       *)
(* unbuffered connChan to whoever calls Accept, until the connection's     *)
(* 30 s context ends.  Close cancels the listener's context, closes the    *)
(* inner listener and waits for every goroutine.                           *)
(*                                                                         *)
(* One connection is one element of Conns, and pc[c] is where the code     *)
(* that holds it stands:                                                   *)
(*   none       not dialled yet          dispatch   run blocks on the queue*)
(*   backlog    at the inner listener    handshake  inside NewCamouflageConn*)
(*   refused    reset, never accepted    offer      blocks on connChan     *)
(*   discard    about to release the     close      about to close the     *)
(*              resource-manager scope              socket                 *)
(*   finish     deferred wg.Done next    slot       deferred <-queue next  *)
(*   done       nobody runs for it                                         *)
(***************************************************************************)
EXTENDS Naturals, FiniteSets

CONSTANTS
    Conns,               \* inbound connections
    Silent,              \* those whose peer never completes the handshake
    Acceptors,           \* callers of Accept (the upgrader's loop)
    Closers,             \* callers of Close (the host; the upgrader's loop)
    QueueSize,           \* acceptQueueSize
    ClosedErrRecognised  \* the closed inner listener's error has the suffix
                         \* "use of closed network connection"

ASSUME QueueSizeAssumption == QueueSize \in Nat \ {0}
ASSUME SilentAssumption == Silent \subseteq Conns
ASSUME FlavourAssumption == ClosedErrRecognised \in BOOLEAN

VARIABLES
    ctxDone,    \* l.ctx is cancelled
    innerOpen,  \* the inner GatedMaListener is open
    runPc,      \* the run goroutine: in Accept, in dispatch, or returned
    pc,         \* see above
    spawned,    \* connections that got a handshake goroutine
    timedOut,   \* connections whose 30 s context reached its deadline
    queue,      \* tokens in l.queue
    wg,         \* the WaitGroup's counter
    openSock,   \* accepted sockets that are open
    doneCalls,  \* how often scope.Done was called for the connection
    delivered,  \* connections Accept returned to its caller
    acc,        \* the callers of Accept
    closer      \* the callers of Close

connVars == <<pc, spawned, timedOut, openSock, doneCalls, delivered>>
vars == <<ctxDone, innerOpen, runPc, pc, spawned, timedOut, queue, wg,
          openSock, doneCalls, delivered, acc, closer>>

ConnPcs == {"none", "backlog", "refused", "dispatch", "handshake", "offer",
            "discard", "close", "finish", "slot", "done"}

TypeOK ==
    /\ ctxDone \in BOOLEAN
    /\ innerOpen \in BOOLEAN
    /\ runPc \in {"accept", "dispatch", "returned"}
    /\ pc \in [Conns -> ConnPcs]
    /\ spawned \subseteq Conns
    /\ timedOut \subseteq Conns
    /\ queue \in Nat
    /\ wg \in Nat
    /\ openSock \subseteq Conns
    /\ doneCalls \in [Conns -> Nat]
    /\ delivered \subseteq Conns
    /\ acc \in [Acceptors -> {"idle", "waiting", "stopped"}]
    /\ closer \in [Closers -> {"idle", "inner", "wait", "returned"}]

\* Fault: the constructor forgets wg.Add(1).
InitialCountZero == 0

\* The count the constructor gives run: wg.Add(1) before go run().
InitialCount == 1

\* newCamouflageGatedMaListener.
Init ==
    /\ ctxDone = FALSE
    /\ innerOpen = TRUE
    /\ runPc = "accept"
    /\ pc = [c \in Conns |-> "none"]
    /\ spawned = {}
    /\ timedOut = {}
    /\ queue = 0
    /\ wg = InitialCount
    /\ openSock = {}
    /\ doneCalls = [c \in Conns |-> 0]
    /\ delivered = {}
    /\ acc = [a \in Acceptors |-> "idle"]
    /\ closer = [k \in Closers |-> "idle"]

-----------------------------------------------------------------------------
(* The inner listener: a peer connects; Accept fails for one connection.    *)

Arrive(c) ==
    /\ innerOpen
    /\ pc[c] = "none"
    /\ pc' = [pc EXCEPT ![c] = "backlog"]
    /\ UNCHANGED <<ctxDone, innerOpen, runPc, spawned, timedOut, queue, wg,
                   openSock, doneCalls, delivered, acc, closer>>

-----------------------------------------------------------------------------
(* The run goroutine.                                                       *)

RunAccepts(c) ==
    /\ runPc = "accept"
    /\ innerOpen
    /\ pc[c] = "backlog"
    /\ runPc' = "dispatch"
    /\ pc' = [pc EXCEPT ![c] = "dispatch"]
    /\ openSock' = openSock \cup {c}
    /\ UNCHANGED <<ctxDone, innerOpen, spawned, timedOut, queue, wg,
                   doneCalls, delivered, acc, closer>>

\* An Accept error not recognised as the listener's end comes with a nil scope
\* and the loop goes round: a connection was aborted, or the listener is closed
\* and says so in other words, in which case nothing changes.
RunContinues ==
    /\ runPc = "accept"
    /\ \/ \E c \in Conns : /\ pc[c] = "backlog"
                           /\ pc' = [pc EXCEPT ![c] = "refused"]
       \/ ~innerOpen /\ ~ClosedErrRecognised /\ UNCHANGED pc
    /\ UNCHANGED <<ctxDone, innerOpen, runPc, spawned, timedOut, queue, wg,
                   openSock, doneCalls, delivered, acc, closer>>

RunReturns ==
    /\ runPc = "accept"
    /\ ~innerOpen
    /\ ClosedErrRecognised
    /\ runPc' = "returned"
    /\ wg' = wg - 1
    /\ UNCHANGED <<ctxDone, innerOpen, queue, acc, closer, connVars>>

\* Fault: the connection's context has no deadline of its own.
CtxDoneNoTimeout(c) == ctxDone

\* ctx.Done() of the connection's context, a child of l.ctx.
CtxDone(c) == ctxDone \/ c \in timedOut

HasCtx(c) == pc[c] \in {"dispatch", "handshake", "offer"}

\* The timer of context.WithTimeout(l.ctx, acceptTimeout) fires.
Timeout(c) ==
    /\ HasCtx(c)
    /\ ~CtxDone(c)
    /\ timedOut' = timedOut \cup {c}
    /\ UNCHANGED <<ctxDone, innerOpen, runPc, pc, spawned, queue, wg,
                   openSock, doneCalls, delivered, acc, closer>>

\* Faults: one token too many; one handshake at a time.
QueueHasRoomOffByOne == queue <= QueueSize
QueueHasRoomSerial == queue < 1

\* A send on the buffered channel l.queue does not block.
QueueHasRoom == queue < QueueSize

\* Fault: the goroutine is started without wg.Add(1).
DispatchSpawnsUncounted(c) ==
    /\ pc[c] = "dispatch"
    /\ QueueHasRoom
    /\ queue' = queue + 1
    /\ spawned' = spawned \cup {c}
    /\ pc' = [pc EXCEPT ![c] = "handshake"]
    /\ runPc' = "accept"
    /\ UNCHANGED <<ctxDone, innerOpen, timedOut, wg, openSock, doneCalls,
                   delivered, acc, closer>>

\* The queue has room: wg.Add(1), go handshake, and run goes back to Accept.
DispatchSpawns(c) ==
    /\ pc[c] = "dispatch"
    /\ QueueHasRoom
    /\ queue' = queue + 1
    /\ wg' = wg + 1
    /\ spawned' = spawned \cup {c}
    /\ pc' = [pc EXCEPT ![c] = "handshake"]
    /\ runPc' = "accept"
    /\ UNCHANGED <<ctxDone, innerOpen, timedOut, openSock, doneCalls,
                   delivered, acc, closer>>

\* The context ends first: run itself discards the connection.
DispatchDrops(c) ==
    /\ pc[c] = "dispatch"
    /\ CtxDone(c)
    /\ pc' = [pc EXCEPT ![c] = "discard"]
    /\ UNCHANGED <<ctxDone, innerOpen, runPc, spawned, timedOut, queue, wg,
                   openSock, doneCalls, delivered, acc, closer>>

-----------------------------------------------------------------------------
(* The handshake goroutine.  NewCamouflageConn watches no context: only its *)
(* own deadline ends it, so Close does not interrupt it.                    *)

HandshakeSucceeds(c) ==
    /\ pc[c] = "handshake"
    /\ c \notin Silent
    /\ pc' = [pc EXCEPT ![c] = "offer"]
    /\ UNCHANGED <<ctxDone, innerOpen, runPc, spawned, timedOut, queue, wg,
                   openSock, doneCalls, delivered, acc, closer>>

\* Fault: the error path returns without discarding.
HandshakeFailsKeeping(c) ==
    /\ pc[c] = "handshake"
    /\ pc' = [pc EXCEPT ![c] = "finish"]
    /\ openSock' \in {openSock, openSock \ {c}}
    /\ UNCHANGED <<ctxDone, innerOpen, runPc, spawned, timedOut, queue, wg,
                   doneCalls, delivered, acc, closer>>

\* The TLS library has closed the socket when its context expired or the ALPN
\* check failed, and has left it open otherwise.
HandshakeFails(c) ==
    /\ pc[c] = "handshake"
    /\ pc' = [pc EXCEPT ![c] = "discard"]
    /\ openSock' \in {openSock, openSock \ {c}}
    /\ UNCHANGED <<ctxDone, innerOpen, runPc, spawned, timedOut, queue, wg,
                   doneCalls, delivered, acc, closer>>

\* Rendezvous on the unbuffered connChan with a caller blocked in Accept.
\* Both selects may take it although a context of theirs is already done.
Deliver(a, c) ==
    /\ pc[c] = "offer"
    /\ acc[a] = "waiting"
    /\ acc' = [acc EXCEPT ![a] = "idle"]
    /\ pc' = [pc EXCEPT ![c] = "finish"]
    /\ delivered' = delivered \cup {c}
    /\ UNCHANGED <<ctxDone, innerOpen, runPc, spawned, timedOut, queue, wg,
                   openSock, doneCalls, closer>>

\* Fault: an offer nobody took is forgotten.
OfferDropsForgetting(c) ==
    /\ pc[c] = "offer"
    /\ CtxDone(c)
    /\ pc' = [pc EXCEPT ![c] = "finish"]
    /\ UNCHANGED <<ctxDone, innerOpen, runPc, spawned, timedOut, queue, wg,
                   openSock, doneCalls, delivered, acc, closer>>

OfferDrops(c) ==
    /\ pc[c] = "offer"
    /\ CtxDone(c)
    /\ pc' = [pc EXCEPT ![c] = "discard"]
    /\ UNCHANGED <<ctxDone, innerOpen, runPc, spawned, timedOut, queue, wg,
                   openSock, doneCalls, delivered, acc, closer>>

\* discard: releaseScope first, the socket after it.
ReleaseScope(c) ==
    /\ pc[c] = "discard"
    /\ doneCalls' = [doneCalls EXCEPT ![c] = @ + 1]
    /\ pc' = [pc EXCEPT ![c] = "close"]
    /\ UNCHANGED <<ctxDone, innerOpen, runPc, spawned, timedOut, queue, wg,
                   openSock, delivered, acc, closer>>

CloseConn(c) ==
    /\ pc[c] = "close"
    /\ openSock' = openSock \ {c}
    /\ \/ /\ c \in spawned
          /\ pc' = [pc EXCEPT ![c] = "finish"]
          /\ UNCHANGED runPc
       \/ /\ c \notin spawned
          /\ pc' = [pc EXCEPT ![c] = "done"]
          /\ runPc' = "accept"
    /\ UNCHANGED <<ctxDone, innerOpen, spawned, timedOut, queue, wg,
                   doneCalls, delivered, acc, closer>>

\* The deferred calls run last to first: cancel, wg.Done, then <-queue.
WgDone(c) ==
    /\ pc[c] = "finish"
    /\ wg' = wg - 1
    /\ pc' = [pc EXCEPT ![c] = "slot"]
    /\ UNCHANGED <<ctxDone, innerOpen, runPc, spawned, timedOut, queue,
                   openSock, doneCalls, delivered, acc, closer>>

ReleaseSlot(c) ==
    /\ pc[c] = "slot"
    /\ queue' = queue - 1
    /\ pc' = [pc EXCEPT ![c] = "done"]
    /\ UNCHANGED <<ctxDone, innerOpen, runPc, spawned, timedOut, wg,
                   openSock, doneCalls, delivered, acc, closer>>

-----------------------------------------------------------------------------
(* The callers: Accept, and Close, which more than one may call.            *)

CallAccept(a) ==
    /\ acc[a] = "idle"
    /\ acc' = [acc EXCEPT ![a] = "waiting"]
    /\ UNCHANGED <<ctxDone, innerOpen, runPc, queue, wg, closer, connVars>>

\* Accept returns ErrListenerClosed; the upgrader's loop ends on it.
AcceptClosed(a) ==
    /\ acc[a] = "waiting"
    /\ ctxDone
    /\ acc' = [acc EXCEPT ![a] = "stopped"]
    /\ UNCHANGED <<ctxDone, innerOpen, runPc, queue, wg, closer, connVars>>

\* l.cancel() cancels the connections' contexts with the listener's.
CloseCancels(k) ==
    /\ closer[k] = "idle"
    /\ ctxDone' = TRUE
    /\ closer' = [closer EXCEPT ![k] = "inner"]
    /\ UNCHANGED <<innerOpen, runPc, queue, wg, acc, connVars>>

\* Fault: Close cancels and waits without closing the inner listener.
CloseInnerSkipped(k) ==
    /\ closer[k] = "inner"
    /\ closer' = [closer EXCEPT ![k] = "wait"]
    /\ UNCHANGED <<ctxDone, innerOpen, runPc, queue, wg, acc, connVars>>

\* Connections nobody accepted are reset with the inner listener.
CloseInner(k) ==
    /\ closer[k] = "inner"
    /\ innerOpen' = FALSE
    /\ pc' = [c \in Conns |-> IF pc[c] = "backlog" THEN "refused" ELSE pc[c]]
    /\ closer' = [closer EXCEPT ![k] = "wait"]
    /\ UNCHANGED <<ctxDone, runPc, spawned, timedOut, queue, wg, openSock,
                   doneCalls, delivered, acc>>

\* Fault: Close does not wait for the goroutines.
CloseReturnsEarly(k) ==
    /\ closer[k] = "wait"
    /\ closer' = [closer EXCEPT ![k] = "returned"]
    /\ UNCHANGED <<ctxDone, innerOpen, runPc, queue, wg, acc, connVars>>

CloseReturns(k) ==
    /\ closer[k] = "wait"
    /\ wg = 0
    /\ closer' = [closer EXCEPT ![k] = "returned"]
    /\ UNCHANGED <<ctxDone, innerOpen, runPc, queue, wg, acc, connVars>>

-----------------------------------------------------------------------------
Run == \/ RunReturns \/ RunContinues
       \/ \E c \in Conns : RunAccepts(c)

Dispatch(c) == DispatchSpawns(c) \/ DispatchDrops(c)

Handshake(c) ==
    \/ HandshakeSucceeds(c) \/ HandshakeFails(c) \/ OfferDrops(c)
    \/ \E a \in Acceptors : Deliver(a, c)

Discard(c) == ReleaseScope(c) \/ CloseConn(c)

Deferred(c) == WgDone(c) \/ ReleaseSlot(c)

Accept(a) == CallAccept(a) \/ AcceptClosed(a)

Close(k) == CloseCancels(k) \/ CloseInner(k) \/ CloseReturns(k)

\* Everybody returned: the only states in which the listener may stop.
Terminated ==
    /\ \A k \in Closers : closer[k] = "returned"
    /\ \A a \in Acceptors : acc[a] = "stopped"
    /\ \A c \in Conns : pc[c] \in {"none", "refused", "done"}
    /\ UNCHANGED vars

Next ==
    \/ Run
    \/ \E c \in Conns : \/ Arrive(c) \/ Timeout(c) \/ Dispatch(c)
                        \/ Handshake(c) \/ Discard(c) \/ Deferred(c)
    \/ \E a \in Acceptors : Accept(a)
    \/ \E k \in Closers : Close(k)
    \/ Terminated

Spec == Init /\ [][Next]_vars

\* The goroutines run, timers fire and NewCamouflageConn ends by its deadline.
\* Nobody is obliged to dial, to call Accept or to call Close.
Fairness ==
    /\ WF_vars(Run)
    /\ \A c \in Conns :
          /\ WF_vars(Timeout(c))
          /\ WF_vars(Dispatch(c))
          /\ WF_vars(HandshakeSucceeds(c) \/ HandshakeFails(c))
          /\ WF_vars(OfferDrops(c))
          /\ WF_vars(Discard(c))
          /\ WF_vars(Deferred(c))
    /\ \A k \in Closers : WF_vars(CloseInner(k) \/ CloseReturns(k))

FairSpec == Spec /\ Fairness

\* No deadline ever fires and silent peers' handshakes never end, but the
\* upgrader keeps calling Accept: what one silent peer may not disturb.
TarpitFairness ==
    /\ WF_vars(Run)
    /\ \A c \in Conns : /\ WF_vars(Dispatch(c))
                        /\ WF_vars(\E a \in Acceptors : Deliver(a, c))
                        /\ WF_vars(HandshakeSucceeds(c))
                        /\ WF_vars(Discard(c))
                        /\ WF_vars(Deferred(c))
    /\ \A a \in Acceptors : WF_vars(CallAccept(a))

TarpitSpec == Spec /\ TarpitFairness

-----------------------------------------------------------------------------
\* Connections whose handshake goroutine has not called wg.Done yet, and those
\* whose goroutine still holds its token of the queue.
Active == {c \in spawned : pc[c] \notin {"slot", "done"}}
Holders == {c \in spawned : pc[c] # "done"}

\* Custody: a connection the listener took and no longer works on has either
\* been handed to the caller of Accept, with its scope held and its socket open,
\* or had its scope released exactly once and its socket closed.  No path of
\* dispatch, handshake and discard leaks or releases twice.
NoLeak ==
    \A c \in Conns :
        /\ pc[c] \in {"finish", "slot", "done"} =>
              IF c \in delivered
              THEN doneCalls[c] = 0 /\ c \in openSock
              ELSE doneCalls[c] = 1 /\ c \notin openSock
        /\ doneCalls[c] <= 1

\* The bound of acceptQueueSize: no more handshakes run at once than the queue
\* has room for, whatever mix of timeouts, drops and deliveries frees its slots.
HandshakesBounded == Cardinality(Holders) <= QueueSize

CloseReturned == \E k \in Closers : closer[k] = "returned"

\* Once any Close has returned, run is gone and no goroutine will touch a
\* connection again; the only thing left to do is to give back queue tokens.
QuietAfterClose ==
    CloseReturned =>
        /\ runPc = "returned"
        /\ \A c \in Conns : pc[c] \in {"none", "refused", "slot", "done"}

\* dispatch calls wg.Add concurrently with Close's wg.Wait.  That is legal only
\* while the counter is positive: once it is zero it stays there.
NoAddAfterZero == [][wg = 0 => wg' = 0]_vars

\* Close returns, however many handshakes, offers and full queues it finds, with
\* nobody calling Accept and with several callers of Close.
CloseTerminates ==
    \A k \in Closers : closer[k] = "inner" ~> closer[k] = "returned"

\* Every connection taken from the inner listener leaves the listener, although
\* nobody may be calling Accept, and its slot in the queue is given back.
ConnSettles == \A c \in Conns : pc[c] = "dispatch" ~> pc[c] = "done"

\* "a silent peer must not break inbound connectivity" (accept_test.go): while
\* silent peers leave a slot free, an honest connection reaches the caller of
\* Accept even if no deadline ever fires.
HonestServed ==
    \A c \in Conns \ Silent :
        pc[c] = "backlog" ~>
            \/ c \in delivered
            \/ ctxDone \/ c \in timedOut
            \/ pc[c] \in {"refused", "discard"}

-----------------------------------------------------------------------------
(* Why these hold: the inductive invariant behind the safety properties.     *)

\* The WaitGroup counts run and the active goroutines, the queue its holders.
Counters ==
    /\ IsFiniteSet(spawned)
    /\ wg = (IF runPc = "returned" THEN 0 ELSE 1) + Cardinality(Active)
    /\ queue = Cardinality(Holders)
    /\ queue <= QueueSize

\* What a connection's pc says about who works on it.  run holds at most one.
Placement ==
    /\ \A c \in spawned : pc[c] \in {"handshake", "offer", "discard", "close",
                                     "finish", "slot", "done"}
    /\ \A c \in Conns \ spawned :
          pc[c] \in {"none", "backlog", "refused", "dispatch", "discard",
                     "close", "done"}
    /\ \A c, d \in Conns \ spawned :
          /\ pc[c] \in {"dispatch", "discard", "close"}
          /\ pc[d] \in {"dispatch", "discard", "close"}
          => c = d
    /\ \A c \in Conns \ spawned :
          pc[c] \in {"dispatch", "discard", "close"} => runPc = "dispatch"

\* Where the connection's scope and socket stand at each pc.
Custody ==
    \A c \in Conns :
        /\ pc[c] \in {"none", "backlog", "refused"} =>
              doneCalls[c] = 0 /\ c \notin openSock /\ c \notin delivered
        /\ pc[c] \in {"dispatch", "handshake", "offer"} =>
              doneCalls[c] = 0 /\ c \in openSock /\ c \notin delivered
        /\ pc[c] = "discard" => doneCalls[c] = 0 /\ c \notin delivered
        /\ pc[c] = "close" => doneCalls[c] = 1 /\ c \notin delivered
        /\ pc[c] \in {"finish", "slot", "done"} =>
              \/ c \in delivered /\ doneCalls[c] = 0 /\ c \in openSock
              \/ c \notin delivered /\ doneCalls[c] = 1 /\ c \notin openSock

\* How far a caller of Close has come tells what is closed already.
CloseProgress ==
    /\ \A k \in Closers :
          /\ closer[k] # "idle" => ctxDone
          /\ closer[k] \in {"wait", "returned"} => ~innerOpen
          /\ closer[k] = "returned" => wg = 0
    /\ runPc = "returned" => ~innerOpen
    /\ ~innerOpen => \A c \in Conns : pc[c] # "backlog"

IInv == TypeOK /\ Counters /\ Placement /\ Custody /\ CloseProgress

-----------------------------------------------------------------------------
(* The contract the listener implements.  Custody is read off the resources: *)
(* a connection is dropped when its scope is released and its socket closed, *)
(* wherever the code stands.                                                 *)

Accepted(c) == pc[c] \notin {"none", "backlog", "refused"}
Released(c) == doneCalls[c] = 1 /\ c \notin openSock

Place(c) ==
    IF c \in delivered THEN "handed"
    ELSE IF ~Accepted(c) THEN "outside"
    ELSE IF Released(c) THEN "dropped" ELSE "inside"

Phase == IF CloseReturned THEN "closed" ELSE IF ctxDone THEN "closing" ELSE "open"

Contract == INSTANCE ListenerContract
    WITH place <- [c \in Conns |-> Place(c)], phase <- Phase

\* Every behaviour of the listener is one of the contract: exactly one owner per
\* connection, nothing kept or taken once Close has returned.
RefinesContract == Contract!Spec
=============================================================================
