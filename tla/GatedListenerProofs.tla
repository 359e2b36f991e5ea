-------------------------- MODULE GatedListenerProofs --------------------------
(***************************************************************************)
(* Proofs about GatedListener: IInv is inductive, and the custody, slot     *)
(* bound, WaitGroup and quiescence properties follow from it for any set of *)
(* connections, of callers of Accept and Close, and any queue size, whether *)
(* or not run recognises the inner listener's closing error.                *)
(***************************************************************************)
EXTENDS GatedListener, FiniteSetTheorems, TLAPS

\* The two sets the counters count are finite.
LEMMA FiniteCounts ==
    ASSUME IInv
    PROVE  /\ IsFiniteSet(Active) /\ Cardinality(Active) \in Nat
           /\ IsFiniteSet(Holders) /\ Cardinality(Holders) \in Nat
<1>1. IsFiniteSet(spawned) /\ Active \in SUBSET spawned /\ Holders \in SUBSET spawned
  BY DEF IInv, Counters, Active, Holders
<1>2. IsFiniteSet(Active) /\ IsFiniteSet(Holders)
  BY <1>1, FS_Subset
<1>3. QED
  BY <1>2, FS_CardinalityType

LEMMA InitInv == Init => IInv
<1> SUFFICES ASSUME Init PROVE IInv
  OBVIOUS
<1>1. Active = {} /\ Holders = {}
  BY DEF Init, Active, Holders
<1>2. Counters
  BY <1>1, FS_EmptySet, QueueSizeAssumption DEF Init, InitialCount, Counters
<1>3. TypeOK /\ Placement /\ Custody /\ CloseProgress
  BY DEF Init, InitialCount, TypeOK, ConnPcs, Placement, Custody, CloseProgress
<1>4. QED
  BY <1>2, <1>3 DEF IInv

-----------------------------------------------------------------------------
(* Steps that leave both counters and the sets they count alone.             *)

\* A peer's connection reaches the inner listener.
LEMMA ArriveStep ==
    ASSUME IInv, NEW c \in Conns, Arrive(c)
    PROVE  IInv'
<1> USE DEF IInv, Arrive, connVars, CtxDone, HasCtx
<1>1. TypeOK' /\ Placement'
  BY DEF TypeOK, ConnPcs, Placement
<1>2. Active' = Active /\ Holders' = Holders
  BY DEF TypeOK, Placement, Active, Holders
<1>3. Counters'
  BY <1>2 DEF Counters
<1>4. Custody' /\ CloseProgress'
  BY DEF Custody, CloseProgress, TypeOK
<1>5. QED
  BY <1>1, <1>3, <1>4

\* An accept error is logged and the loop goes round.
LEMMA RunContinuesStep ==
    ASSUME IInv, RunContinues
    PROVE  IInv'
<1> USE DEF IInv, RunContinues, connVars, CtxDone, HasCtx
<1>1. TypeOK' /\ Placement'
  BY DEF TypeOK, ConnPcs, Placement
<1>2. Active' = Active /\ Holders' = Holders
  BY DEF TypeOK, Placement, Active, Holders
<1>3. Counters'
  BY <1>2 DEF Counters
<1>4. Custody' /\ CloseProgress'
  BY DEF Custody, CloseProgress, TypeOK
<1>5. QED
  BY <1>1, <1>3, <1>4

\* A connection's deadline fires.
LEMMA TimeoutStep ==
    ASSUME IInv, NEW c \in Conns, Timeout(c)
    PROVE  IInv'
<1> USE DEF IInv, Timeout, connVars, CtxDone, HasCtx
<1>1. TypeOK' /\ Placement'
  BY DEF TypeOK, ConnPcs, Placement
<1>2. Active' = Active /\ Holders' = Holders
  BY DEF TypeOK, Placement, Active, Holders
<1>3. Counters'
  BY <1>2 DEF Counters
<1>4. Custody' /\ CloseProgress'
  BY DEF Custody, CloseProgress, TypeOK
<1>5. QED
  BY <1>1, <1>3, <1>4

\* run gives up on the full queue.
LEMMA DispatchDropsStep ==
    ASSUME IInv, NEW c \in Conns, DispatchDrops(c)
    PROVE  IInv'
<1> USE DEF IInv, DispatchDrops, connVars, CtxDone, HasCtx
<1>1. TypeOK' /\ Placement'
  BY DEF TypeOK, ConnPcs, Placement
<1>2. Active' = Active /\ Holders' = Holders
  BY DEF TypeOK, Placement, Active, Holders
<1>3. Counters'
  BY <1>2 DEF Counters
<1>4. Custody' /\ CloseProgress'
  BY DEF Custody, CloseProgress, TypeOK
<1>5. QED
  BY <1>1, <1>3, <1>4

\* The handshake ends well.
LEMMA HandshakeSucceedsStep ==
    ASSUME IInv, NEW c \in Conns, HandshakeSucceeds(c)
    PROVE  IInv'
<1> USE DEF IInv, HandshakeSucceeds, connVars, CtxDone, HasCtx
<1>1. TypeOK' /\ Placement'
  BY DEF TypeOK, ConnPcs, Placement
<1>2. Active' = Active /\ Holders' = Holders
  BY DEF TypeOK, Placement, Active, Holders
<1>3. Counters'
  BY <1>2 DEF Counters
<1>4. Custody' /\ CloseProgress'
  BY DEF Custody, CloseProgress, TypeOK
<1>5. QED
  BY <1>1, <1>3, <1>4

\* The handshake ends with an error, the socket closed or not.
LEMMA HandshakeFailsStep ==
    ASSUME IInv, NEW c \in Conns, HandshakeFails(c)
    PROVE  IInv'
<1> USE DEF IInv, HandshakeFails, connVars, CtxDone, HasCtx
<1>1. TypeOK' /\ Placement'
  BY DEF TypeOK, ConnPcs, Placement
<1>2. Active' = Active /\ Holders' = Holders
  BY DEF TypeOK, Placement, Active, Holders
<1>3. Counters'
  BY <1>2 DEF Counters
<1>4. Custody' /\ CloseProgress'
  BY DEF Custody, CloseProgress, TypeOK
<1>5. QED
  BY <1>1, <1>3, <1>4

\* Rendezvous of offer and Accept.
LEMMA DeliverStep ==
    ASSUME IInv, NEW a \in Acceptors, NEW c \in Conns, Deliver(a, c)
    PROVE  IInv'
<1> USE DEF IInv, Deliver, connVars, CtxDone, HasCtx
<1>1. TypeOK' /\ Placement'
  BY DEF TypeOK, ConnPcs, Placement
<1>2. Active' = Active /\ Holders' = Holders
  BY DEF TypeOK, Placement, Active, Holders
<1>3. Counters'
  BY <1>2 DEF Counters
<1>4. Custody' /\ CloseProgress'
  BY DEF Custody, CloseProgress, TypeOK
<1>5. QED
  BY <1>1, <1>3, <1>4

\* The offer's context ends.
LEMMA OfferDropsStep ==
    ASSUME IInv, NEW c \in Conns, OfferDrops(c)
    PROVE  IInv'
<1> USE DEF IInv, OfferDrops, connVars, CtxDone, HasCtx
<1>1. TypeOK' /\ Placement'
  BY DEF TypeOK, ConnPcs, Placement
<1>2. Active' = Active /\ Holders' = Holders
  BY DEF TypeOK, Placement, Active, Holders
<1>3. Counters'
  BY <1>2 DEF Counters
<1>4. Custody' /\ CloseProgress'
  BY DEF Custody, CloseProgress, TypeOK
<1>5. QED
  BY <1>1, <1>3, <1>4

\* First half of discard.
LEMMA ReleaseScopeStep ==
    ASSUME IInv, NEW c \in Conns, ReleaseScope(c)
    PROVE  IInv'
<1> USE DEF IInv, ReleaseScope, connVars, CtxDone, HasCtx
<1>1. TypeOK' /\ Placement'
  BY DEF TypeOK, ConnPcs, Placement
<1>2. Active' = Active /\ Holders' = Holders
  BY DEF TypeOK, Placement, Active, Holders
<1>3. Counters'
  BY <1>2 DEF Counters
<1>4. Custody' /\ CloseProgress'
  BY DEF Custody, CloseProgress, TypeOK
<1>5. QED
  BY <1>1, <1>3, <1>4

\* Accept is called.
LEMMA CallAcceptStep ==
    ASSUME IInv, NEW a \in Acceptors, CallAccept(a)
    PROVE  IInv'
<1> USE DEF IInv, CallAccept, connVars, CtxDone, HasCtx
<1>1. TypeOK' /\ Placement'
  BY DEF TypeOK, ConnPcs, Placement
<1>2. Active' = Active /\ Holders' = Holders
  BY DEF TypeOK, Placement, Active, Holders
<1>3. Counters'
  BY <1>2 DEF Counters
<1>4. Custody' /\ CloseProgress'
  BY DEF Custody, CloseProgress, TypeOK
<1>5. QED
  BY <1>1, <1>3, <1>4

\* Accept returns ErrListenerClosed.
LEMMA AcceptClosedStep ==
    ASSUME IInv, NEW a \in Acceptors, AcceptClosed(a)
    PROVE  IInv'
<1> USE DEF IInv, AcceptClosed, connVars, CtxDone, HasCtx
<1>1. TypeOK' /\ Placement'
  BY DEF TypeOK, ConnPcs, Placement
<1>2. Active' = Active /\ Holders' = Holders
  BY DEF TypeOK, Placement, Active, Holders
<1>3. Counters'
  BY <1>2 DEF Counters
<1>4. Custody' /\ CloseProgress'
  BY DEF Custody, CloseProgress, TypeOK
<1>5. QED
  BY <1>1, <1>3, <1>4

\* First step of Close.
LEMMA CloseCancelsStep ==
    ASSUME IInv, NEW k \in Closers, CloseCancels(k)
    PROVE  IInv'
<1> USE DEF IInv, CloseCancels, connVars, CtxDone, HasCtx
<1>1. TypeOK' /\ Placement'
  BY DEF TypeOK, ConnPcs, Placement
<1>2. Active' = Active /\ Holders' = Holders
  BY DEF TypeOK, Placement, Active, Holders
<1>3. Counters'
  BY <1>2 DEF Counters
<1>4. Custody' /\ CloseProgress'
  BY DEF Custody, CloseProgress, TypeOK
<1>5. QED
  BY <1>1, <1>3, <1>4

\* Second step of Close.
LEMMA CloseInnerStep ==
    ASSUME IInv, NEW k \in Closers, CloseInner(k)
    PROVE  IInv'
<1> USE DEF IInv, CloseInner, connVars, CtxDone, HasCtx
<1>1. TypeOK' /\ Placement'
  BY DEF TypeOK, ConnPcs, Placement
<1>2. Active' = Active /\ Holders' = Holders
  BY DEF TypeOK, Placement, Active, Holders
<1>3. Counters'
  BY <1>2 DEF Counters
<1>4. Custody' /\ CloseProgress'
  BY DEF Custody, CloseProgress, TypeOK
<1>5. QED
  BY <1>1, <1>3, <1>4

\* Last step of Close.
LEMMA CloseReturnsStep ==
    ASSUME IInv, NEW k \in Closers, CloseReturns(k)
    PROVE  IInv'
<1> USE DEF IInv, CloseReturns, connVars, CtxDone, HasCtx
<1>1. TypeOK' /\ Placement'
  BY DEF TypeOK, ConnPcs, Placement
<1>2. Active' = Active /\ Holders' = Holders
  BY DEF TypeOK, Placement, Active, Holders
<1>3. Counters'
  BY <1>2 DEF Counters
<1>4. Custody' /\ CloseProgress'
  BY DEF Custody, CloseProgress, TypeOK
<1>5. QED
  BY <1>1, <1>3, <1>4

-----------------------------------------------------------------------------
(* Steps that move a counter.                                                *)

\* run ends: its wg.Done is covered by its own share of the counter.
LEMMA RunReturnsStep ==
    ASSUME IInv, RunReturns
    PROVE  IInv'
<1> USE DEF IInv, RunReturns, connVars
<1>1. Active' = Active /\ Holders' = Holders
  BY DEF Active, Holders
<1>2. wg = 1 + Cardinality(Active) /\ wg' = Cardinality(Active)
  BY FiniteCounts DEF Counters, TypeOK
<1>3. TypeOK' /\ Counters'
  BY <1>1, <1>2, FiniteCounts DEF TypeOK, Counters
<1>4. Placement' /\ Custody'
  BY DEF Placement, Custody, TypeOK
<1>5. wg # 0
  BY <1>2, FiniteCounts
<1>6. CloseProgress'
  BY <1>5 DEF CloseProgress, TypeOK
<1>7. QED
  BY <1>3, <1>4, <1>6

\* A handshake goroutine starts: run is alive, so the counter was positive.
LEMMA DispatchSpawnsStep ==
    ASSUME IInv, NEW c \in Conns, DispatchSpawns(c)
    PROVE  IInv'
<1> USE DEF IInv, DispatchSpawns, QueueHasRoom
<1>1. c \notin spawned /\ runPc = "dispatch"
  BY DEF Placement, TypeOK
<1>2. /\ Active' = Active \cup {c} /\ c \notin Active
      /\ Holders' = Holders \cup {c} /\ c \notin Holders
  BY <1>1 DEF Active, Holders, TypeOK
<1>3. /\ Cardinality(Active') = Cardinality(Active) + 1
      /\ Cardinality(Holders') = Cardinality(Holders) + 1
      /\ IsFiniteSet(spawned')
  BY <1>2, FiniteCounts, FS_AddElement DEF Counters
<1>4. TypeOK' /\ Placement'
  BY <1>1 DEF TypeOK, ConnPcs, Placement
<1>5. Counters'
  BY <1>1, <1>3, FiniteCounts, QueueSizeAssumption DEF Counters, TypeOK
<1>6. Custody'
  BY DEF Custody, TypeOK
<1>7. wg # 0
  BY <1>1, FiniteCounts DEF Counters
<1>8. CloseProgress'
  BY <1>1, <1>7 DEF CloseProgress, TypeOK
<1>9. QED
  BY <1>4, <1>5, <1>6, <1>8

\* Second half of discard, by the goroutine or by run itself.
LEMMA CloseConnStep ==
    ASSUME IInv, NEW c \in Conns, CloseConn(c)
    PROVE  IInv'
<1> USE DEF IInv, CloseConn
<1>1. TypeOK' /\ Placement'
  BY DEF TypeOK, ConnPcs, Placement
<1>2. Active' = Active /\ Holders' = Holders
  BY DEF TypeOK, Placement, Active, Holders
<1>3. c \notin spawned => runPc = "dispatch"
  BY DEF Placement
<1>4. Counters'
  BY <1>2, <1>3 DEF Counters
<1>5. Custody' /\ CloseProgress'
  BY <1>3 DEF Custody, CloseProgress, TypeOK
<1>6. QED
  BY <1>1, <1>4, <1>5

\* The goroutine's wg.Done: it was one of the active ones.
LEMMA WgDoneStep ==
    ASSUME IInv, NEW c \in Conns, WgDone(c)
    PROVE  IInv'
<1> USE DEF IInv, WgDone
<1>1. c \in spawned
  BY DEF Placement, TypeOK
<1>2. Active' = Active \ {c} /\ c \in Active /\ Holders' = Holders
  BY <1>1 DEF Active, Holders, TypeOK
<1>3. Cardinality(Active') = Cardinality(Active) - 1 /\ Cardinality(Active) # 0
  BY <1>2, FiniteCounts, FS_RemoveElement, FS_EmptySet
<1>4. wg # 0 /\ wg' \in Nat
  BY <1>3, FiniteCounts DEF Counters, TypeOK
<1>5. TypeOK' /\ Placement'
  BY <1>1, <1>4 DEF TypeOK, ConnPcs, Placement
<1>6. Counters'
  BY <1>2, <1>3, <1>4, FiniteCounts DEF Counters
<1>7. Custody'
  BY DEF Custody, TypeOK
<1>8. CloseProgress'
  BY <1>4 DEF CloseProgress, TypeOK
<1>9. QED
  BY <1>5, <1>6, <1>7, <1>8

\* The goroutine takes its token back from the queue.
LEMMA ReleaseSlotStep ==
    ASSUME IInv, NEW c \in Conns, ReleaseSlot(c)
    PROVE  IInv'
<1> USE DEF IInv, ReleaseSlot
<1>1. c \in spawned
  BY DEF Placement, TypeOK
<1>2. Holders' = Holders \ {c} /\ c \in Holders /\ Active' = Active
  BY <1>1 DEF Active, Holders, TypeOK
<1>3. Cardinality(Holders') = Cardinality(Holders) - 1 /\ Cardinality(Holders) # 0
  BY <1>2, FiniteCounts, FS_RemoveElement, FS_EmptySet
<1>4. queue' \in Nat /\ queue' = Cardinality(Holders') /\ queue' <= QueueSize
  BY <1>3, FiniteCounts, QueueSizeAssumption DEF Counters, TypeOK
<1>5. TypeOK' /\ Placement'
  BY <1>1, <1>4 DEF TypeOK, ConnPcs, Placement
<1>6. Counters'
  BY <1>2, <1>4 DEF Counters
<1>7. Custody' /\ CloseProgress'
  BY DEF Custody, CloseProgress, TypeOK
<1>8. QED
  BY <1>5, <1>6, <1>7

\* run takes a connection: it stays one and the same goroutine.
LEMMA RunAcceptsStep ==
    ASSUME IInv, NEW c \in Conns, RunAccepts(c)
    PROVE  IInv'
<1> USE DEF IInv, RunAccepts
<1>1. TypeOK' /\ Placement'
  BY DEF TypeOK, ConnPcs, Placement
<1>2. Active' = Active /\ Holders' = Holders
  BY DEF TypeOK, Placement, Active, Holders
<1>3. Counters'
  BY <1>2 DEF Counters
<1>4. Custody' /\ CloseProgress'
  BY DEF Custody, CloseProgress, TypeOK
<1>5. QED
  BY <1>1, <1>3, <1>4

-----------------------------------------------------------------------------
LEMMA StutterInv == IInv /\ UNCHANGED vars => IInv'
  BY DEF IInv, TypeOK, Counters, Placement, Custody, CloseProgress, Active,
         Holders, vars

LEMMA NextInv == IInv /\ [Next]_vars => IInv'
  BY ArriveStep, RunAcceptsStep, RunContinuesStep, RunReturnsStep, TimeoutStep,
     DispatchSpawnsStep, DispatchDropsStep, HandshakeSucceedsStep,
     HandshakeFailsStep, DeliverStep, OfferDropsStep, ReleaseScopeStep,
     CloseConnStep, WgDoneStep, ReleaseSlotStep, CallAcceptStep,
     AcceptClosedStep, CloseCancelsStep, CloseInnerStep, CloseReturnsStep,
     StutterInv
  DEF Next, Run, Dispatch, Handshake, Discard, Deferred, Accept, Close, Terminated

\* IInv holds of every reachable state of the listener.
THEOREM Invariance == Spec => []IInv
  BY InitInv, NextInv, PTL DEF Spec

\* The listener's variables keep their types; in particular neither the
\* WaitGroup nor the queue is ever taken below zero.
THEOREM TypeCorrect == Spec => []TypeOK
<1>1. IInv => TypeOK
  BY DEF IInv
<1>2. QED
  BY <1>1, Invariance, PTL

\* No path of dispatch, handshake and discard leaks a connection's scope or
\* socket, or releases its scope twice.
THEOREM NoLeakEver == Spec => []NoLeak
<1>1. IInv => NoLeak
  <2> SUFFICES ASSUME IInv, NEW c \in Conns
               PROVE  /\ pc[c] \in {"finish", "slot", "done"} =>
                            IF c \in delivered
                            THEN doneCalls[c] = 0 /\ c \in openSock
                            ELSE doneCalls[c] = 1 /\ c \notin openSock
                      /\ doneCalls[c] <= 1
    BY DEF NoLeak
  <2> QED
    BY DEF IInv, TypeOK, ConnPcs, Custody
<1>2. QED
  BY <1>1, Invariance, PTL

\* At most acceptQueueSize handshakes are in progress.
THEOREM HandshakesAreBounded == Spec => []HandshakesBounded
<1>1. IInv => HandshakesBounded
  BY DEF IInv, Counters, HandshakesBounded
<1>2. QED
  BY <1>1, Invariance, PTL

\* When wg.Wait has returned, run and every handshake goroutine are through.
LEMMA QuietState == IInv => QuietAfterClose
<1> SUFFICES ASSUME IInv, CloseReturned
             PROVE  /\ runPc = "returned"
                    /\ \A c \in Conns : pc[c] \in {"none", "refused", "slot", "done"}
  BY DEF QuietAfterClose
<1>1. wg = 0 /\ ~innerOpen
  BY DEF IInv, CloseProgress, CloseReturned
<1>2. runPc = "returned" /\ Cardinality(Active) = 0
  BY <1>1, FiniteCounts DEF IInv, Counters
<1>3. Active = {}
  BY <1>2, FiniteCounts, FS_EmptySet
<1>4. ASSUME NEW c \in Conns PROVE pc[c] \in {"none", "refused", "slot", "done"}
  <2>1. CASE c \in spawned
    BY <1>3, <2>1 DEF Active
  <2>2. CASE c \notin spawned
    BY <1>1, <1>2, <2>2 DEF IInv, Placement, CloseProgress
  <2>3. QED
    BY <2>1, <2>2
<1>5. QED
  BY <1>2, <1>4

\* After any Close has returned nothing runs but the return of queue tokens.
THEOREM QuietAfterCloseEver == Spec => []QuietAfterClose
  BY QuietState, Invariance, PTL

\* wg.Add never runs against a counter that wg.Wait may have seen at zero.
THEOREM NoAddAfterZeroEver == Spec => NoAddAfterZero
<1>1. IInv /\ [Next]_vars => (wg = 0 => wg' = 0)
  <2> SUFFICES ASSUME IInv, [Next]_vars, wg = 0 PROVE wg' = 0
    OBVIOUS
  <2>1. runPc = "returned" /\ Cardinality(Active) = 0
    BY FiniteCounts DEF IInv, Counters
  <2>2. Active = {}
    BY <2>1, FiniteCounts, FS_EmptySet
  <2>3. ASSUME NEW c \in Conns PROVE ~DispatchSpawns(c) /\ ~WgDone(c)
    BY <2>1, <2>2 DEF IInv, Placement, Active, DispatchSpawns, WgDone
  <2>4. ~RunReturns
    BY <2>1 DEF RunReturns
  <2>5. QED
    BY <2>3, <2>4
    DEF Next, Run, Dispatch, Handshake, Discard, Deferred, Accept, Close,
        Terminated, vars, Arrive, RunAccepts, RunContinues, Timeout,
        DispatchDrops, HandshakeSucceeds, HandshakeFails, Deliver, OfferDrops,
        ReleaseScope, CloseConn, ReleaseSlot, CallAccept, AcceptClosed,
        CloseCancels, CloseInner, CloseReturns
<1>2. QED
  BY <1>1, Invariance, PTL DEF Spec, NoAddAfterZero

-----------------------------------------------------------------------------
(* Refinement: which step of the contract each step of the listener is.      *)

LEMMA InitRefines == Init => Contract!Init
  BY DEF Init, Contract!Init, Place, Phase, Accepted, CloseReturned

\* run taking a connection is the contract's Take: it is alive, so no Close
\* has returned.
LEMMA RunAcceptsTakes ==
    ASSUME IInv, NEW c \in Conns, RunAccepts(c)
    PROVE  Contract!Take(c)
<1>1. Place(c) = "outside" /\ ~CloseReturned /\ Phase # "closed" /\ Phase' = Phase
  BY DEF IInv, RunAccepts, Place, Phase, Accepted, Custody, CloseProgress, CloseReturned
<1>2. ASSUME NEW d \in Conns, d # c PROVE Place(d)' = Place(d)
  BY <1>2 DEF IInv, TypeOK, RunAccepts, Place, Accepted, Released
<1>3. Place(c)' = "inside"
  BY DEF IInv, TypeOK, Custody, RunAccepts, Place, Accepted, Released
<1>4. QED
  BY <1>1, <1>2, <1>3 DEF Contract!Take, Contract!Move

\* The rendezvous is the contract's Hand.
LEMMA DeliverHands ==
    ASSUME IInv, NEW a \in Acceptors, NEW c \in Conns, Deliver(a, c)
    PROVE  Contract!Hand(c)
<1>1. Place(c) = "inside"
  BY DEF IInv, Deliver, Place, Accepted, Released, Custody
<1>2. ~CloseReturned
  BY QuietState DEF QuietAfterClose, Deliver
<1>3. Phase # "closed" /\ Phase' = Phase
  BY <1>2 DEF Deliver, Phase, CloseReturned
<1>4. ASSUME NEW d \in Conns, d # c PROVE Place(d)' = Place(d)
  BY <1>4 DEF IInv, TypeOK, Deliver, Place, Accepted, Released
<1>5. Place(c)' = "handed"
  BY DEF Deliver, Place
<1>6. QED
  BY <1>1, <1>3, <1>4, <1>5 DEF Contract!Hand, Contract!Move

\* Whichever of the two releases of discard comes last is the contract's Drop;
\* the first of them changes nothing.
LEMMA DiscardDrops ==
    ASSUME IInv, NEW c \in Conns, Discard(c)
    PROVE  Contract!Drop(c) \/ UNCHANGED Contract!vars
<1>1. Place(c) = "inside" \/ (Place(c) = "dropped" /\ pc[c] = "close")
  BY DEF IInv, Discard, ReleaseScope, CloseConn, Place, Accepted, Released, Custody
<1>2. ~CloseReturned
  BY QuietState DEF QuietAfterClose, Discard, ReleaseScope, CloseConn
<1>3. Phase # "closed" /\ Phase' = Phase
  BY <1>2 DEF Discard, ReleaseScope, CloseConn, Phase, CloseReturned
<1>4. ASSUME NEW d \in Conns, d # c PROVE Place(d)' = Place(d)
  BY <1>4 DEF IInv, TypeOK, Discard, ReleaseScope, CloseConn, Place, Accepted, Released
<1>5. Place(c)' \in {"inside", "dropped"} /\ (pc[c] = "close" => Place(c)' = "dropped")
  BY DEF IInv, TypeOK, Custody, Discard, ReleaseScope, CloseConn, Place, Accepted, Released
<1>6. QED
  BY <1>1, <1>3, <1>4, <1>5 DEF Contract!Drop, Contract!Move, Contract!vars

\* The first cancel is BeginClose, a later caller's changes nothing.
LEMMA CloseCancelsBegins ==
    ASSUME IInv, NEW k \in Closers, CloseCancels(k)
    PROVE  Contract!BeginClose \/ UNCHANGED Contract!vars
<1>1. \A c \in Conns : Place(c)' = Place(c)
  BY DEF CloseCancels, connVars, Place, Accepted, Released
<1>2. CloseReturned' = CloseReturned /\ (CloseReturned => ctxDone) /\ ctxDone'
  BY DEF IInv, TypeOK, CloseProgress, CloseCancels, CloseReturned
<1>3. QED
  BY <1>1, <1>2 DEF Phase, Contract!BeginClose, Contract!vars

\* The first Close to return is EndClose: nothing is inside any more.
LEMMA CloseReturnsEnds ==
    ASSUME IInv, IInv', NEW k \in Closers, CloseReturns(k)
    PROVE  Contract!EndClose \/ UNCHANGED Contract!vars
<1>1. \A c \in Conns : Place(c)' = Place(c)
  BY DEF CloseReturns, connVars, Place, Accepted, Released
<1>2. ctxDone /\ CloseReturned'
  BY DEF IInv, TypeOK, CloseProgress, CloseReturns, CloseReturned
<1>3. QuietAfterClose'
  BY QuietState, PTL
<1>4. ASSUME NEW c \in Conns PROVE Place(c) # "inside"
  <2>1. pc[c] \in {"none", "refused", "slot", "done"}
    BY <1>2, <1>3 DEF QuietAfterClose, CloseReturns, connVars
  <2>2. QED
    BY <2>1 DEF IInv, Custody, Place, Accepted, Released
<1>5. QED
  BY <1>1, <1>2, <1>4 DEF Phase, Contract!EndClose, Contract!vars

\* The socket the TLS library closes is still the listener's to discard.
LEMMA HandshakeFailsStutters ==
    ASSUME IInv, NEW c \in Conns, HandshakeFails(c)
    PROVE  UNCHANGED Contract!vars
<1>1. ASSUME NEW d \in Conns PROVE Place(d)' = Place(d)
  BY DEF IInv, TypeOK, Custody, HandshakeFails, Place, Accepted, Released
<1>2. Phase' = Phase
  BY DEF HandshakeFails, Phase, CloseReturned
<1>3. QED
  BY <1>1, <1>2 DEF Contract!vars

\* The contract does not see the other steps.
LEMMA OthersStutter ==
    ASSUME IInv,
           \/ RunContinues \/ RunReturns \/ UNCHANGED vars
           \/ \E c \in Conns : \/ Arrive(c) \/ Timeout(c) \/ Dispatch(c)
                               \/ HandshakeSucceeds(c) \/ OfferDrops(c)
                               \/ Deferred(c)
           \/ \E a \in Acceptors : Accept(a)
           \/ \E k \in Closers : CloseInner(k)
    PROVE  UNCHANGED Contract!vars
<1> USE DEF RunContinues, RunReturns, vars, connVars, Arrive, Timeout, Dispatch,
            DispatchSpawns, DispatchDrops, HandshakeSucceeds, OfferDrops,
            Deferred, WgDone, ReleaseSlot, Accept, CallAccept, AcceptClosed,
            CloseInner
<1>1. UNCHANGED <<delivered, doneCalls, openSock, ctxDone>>
  OBVIOUS
<1>2. ASSUME NEW d \in Conns PROVE Accepted(d)' = Accepted(d)
  BY DEF IInv, TypeOK, Accepted
<1>3. CloseReturned' = CloseReturned
  BY DEF IInv, TypeOK, CloseReturned
<1>4. QED
  BY <1>1, <1>2, <1>3 DEF Place, Phase, Released, Contract!vars

\* The listener implements its contract: one owner per connection at a time,
\* and a Close that has returned keeps nothing and takes nothing.
THEOREM Refinement == Spec => RefinesContract
<1>1. IInv /\ IInv' /\ [Next]_vars => [Contract!Next]_Contract!vars
  BY RunAcceptsTakes, DeliverHands, DiscardDrops, CloseCancelsBegins,
     CloseReturnsEnds, HandshakeFailsStutters, OthersStutter
  DEF Next, Run, Handshake, Close, Terminated, Contract!Next
<1>2. QED
  BY InitRefines, <1>1, Invariance, PTL DEF Spec, RefinesContract, Contract!Spec

-----------------------------------------------------------------------------
(* Progress: what a Close that waits is waiting for.  That it ends is a      *)
(* matter of fairness, but two facts behind it are not: someone it waits for *)
(* can always go on, and there are only so many steps to go.                 *)

\* The guards of the steps a goroutine takes without anybody's help, once the
\* listener's context is cancelled: RunReturns; Dispatch, HandshakeFails,
\* OfferDrops, Discard and Deferred.
RunCanReturn == runPc = "accept" /\ ~innerOpen /\ ClosedErrRecognised

CanGoOn(c) ==
    \/ pc[c] \in {"handshake", "discard", "close", "finish", "slot"}
    \/ pc[c] \in {"dispatch", "offer"} /\ CtxDone(c)

\* A Close that waits for a counter above zero waits for run, which can return, or
\* for a goroutine that can go on: the slots of a full queue, an absent caller of
\* Accept or a second caller of Close never hold it up for good.
CloseIsNotStuck ==
    \A k \in Closers : closer[k] = "wait" /\ ClosedErrRecognised =>
        wg = 0 \/ RunCanReturn \/ \E c \in Conns : pc[c] # "slot" /\ CanGoOn(c)

\* How far a connection has come.
Stage ==
    [p \in ConnPcs |->
        CASE p = "none" -> 0
          [] p = "backlog" -> 1
          [] p = "dispatch" -> 2
          [] p = "handshake" -> 3
          [] p = "offer" -> 4
          [] p = "discard" -> 5
          [] p = "close" -> 6
          [] p = "finish" -> 7
          [] p = "slot" -> 8
          [] p \in {"done", "refused"} -> 9]

\* The connections wg.Wait may still have to wait for, with the stages each has
\* left: one more step for every pair, at most.
InHand == {"dispatch", "handshake", "offer", "discard", "close", "finish"}
Debt == {d \in Conns \X (2 .. 7) : pc[d[1]] \in InHand /\ Stage[pc[d[1]]] <= d[2]}

\* A step of a handshake goroutine, or of run with a connection in its hands.
Work(c) == Dispatch(c) \/ Handshake(c) \/ Discard(c) \/ WgDone(c)

\* Once the inner listener is closed what a Close waits for can only shrink: no peer
\* adds a connection to it, every step of a goroutine takes something away, nothing
\* puts anything back, and a run that has returned does not start again.
WorksOff ==
    ~innerOpen =>
        /\ ~innerOpen'
        /\ Debt' \subseteq Debt
        /\ (\E c \in Conns : Work(c)) => Debt' # Debt
        /\ runPc = "returned" => runPc' = "returned"

DebtIsWorkedOff == [][WorksOff]_vars

\* run in dispatch has a connection in its hands.
RunHolds ==
    runPc = "dispatch" =>
        \E c \in Conns \ spawned : pc[c] \in {"dispatch", "discard", "close"}

LEMMA RunHoldsStep == IInv /\ RunHolds /\ [Next]_vars => RunHolds'
<1> SUFFICES ASSUME IInv, RunHolds, [Next]_vars, runPc' = "dispatch"
             PROVE  \E c \in Conns \ spawned' : pc'[c] \in {"dispatch", "discard", "close"}
  BY DEF RunHolds
<1> USE DEF IInv, TypeOK
<1>1. ASSUME NEW c \in Conns, RunAccepts(c) PROVE c \notin spawned' /\ pc'[c] = "dispatch"
  BY <1>1 DEF RunAccepts, Placement
<1>2. CASE \E c \in Conns : RunAccepts(c)
  BY <1>1, <1>2
<1>3. CASE ~ \E c \in Conns : RunAccepts(c)
  <2>1. runPc = "dispatch"
    BY <1>3
    DEF Next, Run, Dispatch, Handshake, Discard, Deferred, Accept, Close, Terminated,
        vars, connVars, Arrive, RunContinues, RunReturns, Timeout, DispatchSpawns,
        DispatchDrops, HandshakeSucceeds, HandshakeFails, Deliver, OfferDrops,
        ReleaseScope, CloseConn, WgDone, ReleaseSlot, CallAccept, AcceptClosed,
        CloseCancels, CloseInner, CloseReturns
  <2>2. PICK d \in Conns \ spawned : pc[d] \in {"dispatch", "discard", "close"}
    BY <2>1 DEF RunHolds
  <2>3. ASSUME NEW c \in Conns, DispatchSpawns(c) PROVE FALSE
    BY <2>3 DEF DispatchSpawns
  <2>4. ASSUME NEW c \in Conns, Discard(c) \/ DispatchDrops(c)
        PROVE  d \notin spawned' /\ pc'[d] \in {"dispatch", "discard", "close"}
    BY <2>2, <2>4 DEF Discard, DispatchDrops, ReleaseScope, CloseConn
  <2>5. ASSUME NEW c \in Conns,
               \/ Arrive(c) \/ Timeout(c) \/ Handshake(c) \/ Deferred(c)
        PROVE  d \notin spawned' /\ pc'[d] = pc[d]
    BY <2>2, <2>5
    DEF Placement, Arrive, Timeout, Handshake, HandshakeSucceeds, HandshakeFails, Deliver,
        OfferDrops, Deferred, WgDone, ReleaseSlot
  <2>6. CASE \/ RunContinues \/ RunReturns \/ UNCHANGED vars
             \/ \E a \in Acceptors : Accept(a)
             \/ \E k \in Closers : Close(k)
    <3>1. d \notin spawned' /\ pc'[d] = pc[d]
      BY <2>2, <2>6
      DEF RunContinues, RunReturns, vars, connVars, Accept, CallAccept, AcceptClosed,
          Close, CloseCancels, CloseInner, CloseReturns
    <3>2. QED
      BY <2>2, <3>1
  <2>7. QED
    BY <1>3, <2>2, <2>3, <2>4, <2>5, <2>6 DEF Next, Run, Dispatch, Terminated
<1>4. QED
  BY <1>2, <1>3

LEMMA RunHoldsAlways == Spec => []RunHolds
<1>1. Init => RunHolds
  BY DEF Init, RunHolds
<1>2. QED
  BY <1>1, RunHoldsStep, Invariance, PTL DEF Spec

\* While Close waits, whoever it waits for can go on.
THEOREM CloseIsNeverStuck == Spec => []CloseIsNotStuck
<1>1. ASSUME IInv, RunHolds, NEW k \in Closers, closer[k] = "wait",
             ClosedErrRecognised, wg # 0
      PROVE  RunCanReturn \/ \E c \in Conns : pc[c] # "slot" /\ CanGoOn(c)
  <2>1. ctxDone /\ ~innerOpen
    BY <1>1 DEF IInv, CloseProgress
  <2>2. \A c \in Conns : CtxDone(c)
    BY <2>1 DEF CtxDone
  <2>3. CASE runPc = "accept"
    BY <1>1, <2>1, <2>3 DEF RunCanReturn
  <2>4. CASE runPc = "dispatch"
    BY <1>1, <2>2, <2>4 DEF RunHolds, CanGoOn
  <2>5. CASE runPc = "returned"
    <3>1. Cardinality(Active) # 0
      BY <1>1, <2>5 DEF IInv, Counters
    <3>2. Active # {}
      BY <3>1, FS_EmptySet
    <3>3. PICK c \in spawned : pc[c] \notin {"slot", "done"}
      BY <3>2 DEF Active
    <3>4. c \in Conns /\ pc[c] \in {"handshake", "offer", "discard", "close", "finish"}
      BY <1>1, <3>3 DEF IInv, TypeOK, Placement
    <3>5. QED
      BY <2>2, <3>4 DEF CanGoOn
  <2>6. QED
    BY <1>1, <2>3, <2>4, <2>5 DEF IInv, TypeOK
<1>2. IInv /\ RunHolds => CloseIsNotStuck
  BY <1>1 DEF CloseIsNotStuck
<1>3. QED
  BY <1>2, Invariance, RunHoldsAlways, PTL

\* One connection's step forward.
LEMMA Forward ==
    ASSUME IInv, NEW c \in Conns, NEW to \in ConnPcs, Stage[pc[c]] < Stage[to],
           pc' = [pc EXCEPT ![c] = to]
    PROVE  \A d \in Conns : pc'[d] # pc[d] => Stage[pc[d]] < Stage[pc'[d]]
  BY DEF IInv, TypeOK

\* No step of anybody sends a connection back to the queue, to its handshake or to
\* connChan.
LEMMA StagesUp ==
    IInv /\ [Next]_vars => \A d \in Conns : pc'[d] # pc[d] => Stage[pc[d]] < Stage[pc'[d]]
<1> USE DEF ConnPcs
<1>1. ASSUME IInv, NEW c \in Conns,
             \/ Arrive(c) \/ Timeout(c) \/ Dispatch(c) \/ RunAccepts(c)
             \/ Handshake(c) \/ Discard(c) \/ Deferred(c)
      PROVE  \A d \in Conns : pc'[d] # pc[d] => Stage[pc[d]] < Stage[pc'[d]]
  <2>1. \/ pc' = pc
        \/ \E to \in ConnPcs : pc' = [pc EXCEPT ![c] = to] /\ Stage[pc[c]] < Stage[to]
    BY <1>1
    DEF Stage, Arrive, Timeout, Dispatch, DispatchSpawns, DispatchDrops, RunAccepts,
        Handshake, HandshakeSucceeds, HandshakeFails, Deliver, OfferDrops, Discard,
        ReleaseScope, CloseConn, Deferred, WgDone, ReleaseSlot
  <2>2. QED
    BY <1>1, <2>1, Forward
<1>2. ASSUME IInv, RunContinues \/ \E k \in Closers : CloseInner(k)
      PROVE  \A d \in Conns : pc'[d] # pc[d] => Stage[pc[d]] < Stage[pc'[d]]
  BY <1>2 DEF Stage, IInv, TypeOK, RunContinues, CloseInner
<1>3. ASSUME \/ RunReturns \/ UNCHANGED vars
             \/ \E a \in Acceptors : Accept(a)
             \/ \E k \in Closers : CloseCancels(k) \/ CloseReturns(k)
      PROVE  pc' = pc
  BY <1>3 DEF RunReturns, vars, connVars, Accept, CallAccept, AcceptClosed,
     CloseCancels, CloseReturns
<1>4. QED
  BY <1>1, <1>2, <1>3 DEF Next, Run, Close, Terminated

\* The step under DebtIsWorkedOff.
LEMMA WorksOffStep == IInv /\ [Next]_vars => WorksOff
<1> SUFFICES ASSUME IInv, [Next]_vars, ~innerOpen
             PROVE  /\ ~innerOpen'
                    /\ Debt' \subseteq Debt
                    /\ (\E c \in Conns : Work(c)) => Debt' # Debt
                    /\ runPc = "returned" => runPc' = "returned"
  BY DEF WorksOff
<1>1. ~innerOpen' /\ (runPc = "returned" => runPc' = "returned")
  <2>1. ASSUME NEW c \in Conns, runPc = "returned"
        PROVE  ~DispatchSpawns(c) /\ (CloseConn(c) => runPc' = runPc)
    BY <2>1 DEF IInv, Placement, DispatchSpawns, CloseConn
  <2>2. QED
    BY <2>1
    DEF Next, Run, Dispatch, Handshake, Discard, Deferred, Accept, Close, Terminated,
        vars, connVars, Arrive, RunAccepts, RunContinues, RunReturns, Timeout,
        DispatchSpawns, DispatchDrops, HandshakeSucceeds, HandshakeFails, Deliver,
        OfferDrops, ReleaseScope, CloseConn, WgDone, ReleaseSlot, CallAccept,
        AcceptClosed, CloseCancels, CloseInner, CloseReturns
<1>2. ASSUME NEW c \in Conns, pc'[c] \in InHand
      PROVE  pc[c] \in InHand /\ Stage[pc[c]] <= Stage[pc'[c]]
  <2>1. pc[c] \in ConnPcs
    BY DEF IInv, TypeOK
  <2>2. pc'[c] = pc[c] \/ Stage[pc[c]] < Stage[pc'[c]]
    BY StagesUp
  <2>3. pc[c] \notin {"none", "backlog"}
    <3>1. pc[c] # "backlog"
      BY DEF IInv, CloseProgress
    <3>2. CASE pc[c] = "none"
      <4>1. pc'[c] = "none"
        BY <3>2
        DEF IInv, TypeOK, Next, Run, Dispatch, Handshake, Discard, Deferred, Accept,
            Close, Terminated, vars, connVars, Arrive, RunAccepts, RunContinues,
            RunReturns, Timeout, DispatchSpawns, DispatchDrops, HandshakeSucceeds,
            HandshakeFails, Deliver, OfferDrops, ReleaseScope, CloseConn, WgDone,
            ReleaseSlot, CallAccept, AcceptClosed, CloseCancels, CloseInner, CloseReturns
      <4>2. QED
        BY <1>2, <4>1 DEF InHand
    <3>3. QED
      BY <3>1, <3>2
  <2>4. QED
    BY <1>2, <2>1, <2>2, <2>3 DEF InHand, ConnPcs, Stage
<1>3. Debt' \subseteq Debt
  <2>1. ASSUME NEW c \in Conns, NEW s \in 2 .. 7, pc'[c] \in InHand, Stage[pc'[c]] <= s
        PROVE  Stage[pc[c]] <= s
    BY <1>2, <2>1 DEF IInv, TypeOK, InHand, ConnPcs, Stage
  <2>2. QED
    BY <1>2, <2>1 DEF Debt
<1>4. ASSUME NEW c \in Conns, Work(c) PROVE Debt' # Debt
  <2>1. pc[c] \in InHand /\ pc'[c] \in ConnPcs /\ Stage[pc[c]] < Stage[pc'[c]]
    BY <1>4
    DEF IInv, TypeOK, Work, Dispatch, DispatchSpawns, DispatchDrops, Handshake,
        HandshakeSucceeds, HandshakeFails, Deliver, OfferDrops, Discard, ReleaseScope,
        CloseConn, WgDone, InHand, ConnPcs, Stage
  <2>2. Stage[pc[c]] \in 2 .. 7 /\ ~(Stage[pc'[c]] <= Stage[pc[c]])
    BY <2>1 DEF InHand, ConnPcs, Stage
  <2>3. <<c, Stage[pc[c]]>> \in Debt /\ <<c, Stage[pc[c]]>> \notin Debt'
    BY <2>1, <2>2 DEF Debt
  <2>4. QED
    BY <2>3
<1>5. QED
  BY <1>1, <1>3, <1>4

\* There is only so much to work off.
LEMMA DebtIsFinite == IInv => IsFiniteSet(Debt)
<1> SUFFICES ASSUME IInv PROVE IsFiniteSet(Debt)
  OBVIOUS
<1> DEFINE Held == {c \in Conns \ spawned : pc[c] \in {"dispatch", "discard", "close"}}
<1>1. IsFiniteSet(Held)
  <2>1. \A c, d \in Held : c = d
    BY DEF IInv, Placement
  <2>2. CASE Held = {}
    BY <2>2, FS_EmptySet
  <2>3. CASE Held # {}
    <3>1. PICK c \in Held : Held = {c}
      BY <2>1, <2>3
    <3>2. IsFiniteSet({c})
      BY FS_Singleton
    <3>3. QED
      BY <3>1, <3>2, Zenon
  <2>4. QED
    BY <2>2, <2>3
<1>2. IsFiniteSet(spawned \cup Held)
  BY <1>1, FS_Union DEF IInv, Counters
<1>3. IsFiniteSet((spawned \cup Held) \X (2 .. 7))
  <2>1. IsFiniteSet(2 .. 7)
    <3>1. \A a, b \in Int : IsFiniteSet(a .. b)
      BY FS_Interval, Zenon
    <3>2. 2 \in Int /\ 7 \in Int
      OBVIOUS
    <3>3. QED
      BY <3>1, <3>2, Zenon
  <2>2. QED
    BY <1>2, <2>1, FS_Product, Zenon
<1>4. Debt \subseteq (spawned \cup Held) \X (2 .. 7)
  BY DEF Debt, InHand, IInv, Placement
<1>5. QED
  BY <1>3, <1>4, FS_Subset

\* Close is bounded: what it waits for is finite and is worked off.
THEOREM CloseIsBounded == Spec => []IsFiniteSet(Debt) /\ DebtIsWorkedOff
<1>1. Spec => []IsFiniteSet(Debt)
  BY DebtIsFinite, Invariance, PTL
<1>2. Spec => DebtIsWorkedOff
  BY WorksOffStep, Invariance, PTL DEF Spec, DebtIsWorkedOff
<1>3. QED
  BY <1>1, <1>2

\* With fewer silent peers than slots a full queue holds an honest connection.
LEMMA SilentNeverFill ==
    ASSUME IInv, IsFiniteSet(Silent), Cardinality(Silent) < QueueSize, ~QueueHasRoom
    PROVE  \E c \in Conns \ Silent :
              pc[c] \in {"handshake", "offer", "discard", "close", "finish", "slot"}
<1>1. Cardinality(Holders) \in Nat /\ Cardinality(Silent) \in Nat /\ QueueSize \in Nat
  BY FiniteCounts, FS_CardinalityType, QueueSizeAssumption
<1>2. Cardinality(Silent) < Cardinality(Holders)
  BY <1>1 DEF IInv, TypeOK, Counters, QueueHasRoom
<1>3. ~(Holders \subseteq Silent)
  <2>1. Holders \subseteq Silent => Cardinality(Holders) <= Cardinality(Silent)
    BY FS_Subset
  <2>2. QED
    BY <1>1, <1>2, <2>1
<1>4. PICK c \in Holders : c \notin Silent
  BY <1>3
<1>5. QED
  BY <1>4 DEF Holders, IInv, TypeOK, Placement

\* "a silent peer must not break inbound connectivity" (accept_test.go): while silent
\* peers leave a slot, a connection that waits to be accepted or for a slot has
\* somebody before it who can go on with no deadline's and no silent peer's help:
\* run, which takes the next connection or has room for the one it holds, a goroutine
\* that winds up, or an honest connection in its handshake or on offer to Accept.
InboundIsNotStuck ==
    IsFiniteSet(Silent) /\ Cardinality(Silent) < QueueSize =>
        \A c \in Conns : pc[c] \in {"backlog", "dispatch"} =>
            \/ runPc = "accept" /\ innerOpen
            \/ QueueHasRoom /\ \E d \in Conns : pc[d] = "dispatch"
            \/ \E d \in Conns : pc[d] \in {"discard", "close", "finish", "slot"}
            \/ \E d \in Conns \ Silent : pc[d] \in {"handshake", "offer"}

\* Silent peers alone never keep the others out.
THEOREM InboundIsNeverStuck == Spec => []InboundIsNotStuck
<1>1. ASSUME IInv, RunHolds, IsFiniteSet(Silent), Cardinality(Silent) < QueueSize,
             NEW c \in Conns, pc[c] \in {"backlog", "dispatch"},
             ~(runPc = "accept" /\ innerOpen),
             ~ \E d \in Conns : pc[d] \in {"discard", "close", "finish", "slot"}
      PROVE  \/ QueueHasRoom /\ \E d \in Conns : pc[d] = "dispatch"
             \/ \E d \in Conns \ Silent : pc[d] \in {"handshake", "offer"}
  <2>1. runPc = "dispatch"
    <3>1. CASE pc[c] = "backlog"
      BY <1>1, <3>1 DEF IInv, TypeOK, CloseProgress
    <3>2. CASE pc[c] = "dispatch"
      BY <1>1, <3>2 DEF IInv, Placement
    <3>3. QED
      BY <1>1, <3>1, <3>2
  <2>2. \E d \in Conns : pc[d] = "dispatch"
    BY <1>1, <2>1 DEF RunHolds
  <2>3. CASE QueueHasRoom
    BY <2>2, <2>3
  <2>4. CASE ~QueueHasRoom
    BY <1>1, <2>4, SilentNeverFill
  <2>5. QED
    BY <2>3, <2>4
<1>2. IInv /\ RunHolds => InboundIsNotStuck
  BY <1>1 DEF InboundIsNotStuck
<1>3. QED
  BY <1>2, Invariance, RunHoldsAlways, PTL
================================================================================
