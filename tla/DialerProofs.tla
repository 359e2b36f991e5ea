---------------------------- MODULE DialerProofs ----------------------------
(***************************************************************************)
(* Proofs about Dialer, for any number of dials, any of them watched and    *)
(* any capacity of the update channel.  Custody says what a dial holds at   *)
(* each place of its code; the rest of the invariant follows an update from *)
(* the channel to its reader.  The refinement follows from both.            *)
(***************************************************************************)
EXTENDS Dialer, FiniteSetTheorems, TLAPS

\* What dial d holds, by where it stands.
Custody(d) ==
    /\ pc[d] = "idle" => scope[d] = "none" /\ d \notin sock
    /\ pc[d] \in {"peer", "connect", "upgraderScope"} => scope[d] = "held" /\ d \notin sock
    /\ pc[d] \in {"notify", "tls", "upgrade", "ok"} => scope[d] = "held" /\ d \in sock
    /\ pc[d] = "closeRaw" => scope[d] = "held"
    /\ pc[d] = "release" => scope[d] # "none" /\ d \notin sock
    /\ pc[d] = "err" => scope[d] # "held" /\ d \notin sock

Places == 1 .. Len(updates)

\* An update is in one place of the channel or with the reader.
SentOnce ==
    /\ \A i, j \in Places : updates[i] = updates[j] => i = j
    /\ \A i \in Places : updates[i] \notin told

\* Dials that cannot have reported yet.
Early(d) == pc[d] \in {"idle", "peer", "connect", "notify"}

IInv ==
    /\ TypeOK
    /\ \A d \in Dials : Custody(d)
    /\ SentOnce
    /\ \A d \in Dials : d \in Reported => ~Early(d)

-----------------------------------------------------------------------------
(* The inductive step, part by part.                                        *)

LEMMA InitInvariant == Init => IInv
<1> SUFFICES ASSUME Init PROVE IInv
  OBVIOUS
<1>1. Len(updates) = 0 /\ updates \in Seq(Dials)
  BY DEF Init
<1>2. TypeOK
  <2>1. Len(updates) <= ChanSize
    BY <1>1, ChanSizeAssumption
  <2>2. QED
    BY <1>1, <2>1 DEF Init, TypeOK, Pcs
<1>3. \A d \in Dials : Custody(d)
  BY DEF Init, Custody
<1>4. SentOnce /\ Reported = {}
  <2>1. Places = {}
    BY <1>1 DEF Places
  <2>2. QED
    BY <2>1 DEF Init, SentOnce, Places, Reported
<1>5. QED
  BY <1>2, <1>3, <1>4 DEF IInv

LEMMA TypeStep == TypeOK /\ [Next]_vars => TypeOK'
<1> SUFFICES ASSUME TypeOK, [Next]_vars PROVE TypeOK'
  OBVIOUS
<1> USE ChanSizeAssumption DEF TypeOK, Pcs, Goto
<1>1. ASSUME NEW d \in Dials, Step(d) PROVE TypeOK'
  <2>1. CASE Notify(d)
    <3>1. pc' \in [Dials -> Pcs] /\ told' \subseteq Dials /\ reader' \in BOOLEAN
      BY <2>1 DEF Notify
    <3>2. updates' \in Seq(Dials) /\ Len(updates') <= ChanSize
      <4>1. CASE updates' = Append(updates, d) /\ Len(updates) < ChanSize
        <5>1. Len(Append(updates, d)) = Len(updates) + 1 /\ Len(updates) \in Nat
          OBVIOUS
        <5>2. QED
          BY <4>1, <5>1
      <4>2. CASE updates' = updates
        BY <4>2
      <4>3. QED
        BY <2>1, <4>1, <4>2 DEF Notify, ChanReady
    <3>3. QED
      BY <2>1, <3>1, <3>2 DEF Notify
  <2>2. CASE ~Notify(d)
    BY <1>1, <2>2 DEF Step, OpenConnection, SetPeer, DialRaw, Camouflage,
       CloseRaw, Upgrade, UpgraderReleases, ReleaseScope
  <2>3. QED
    BY <2>1, <2>2
<1>2. ASSUME NEW d \in Dials, Cancel(d) PROVE TypeOK'
  BY <1>2 DEF Cancel
<1>3. CASE Receive
  <2>1. updates # <<>> => /\ Head(updates) \in Dials
                          /\ Tail(updates) \in Seq(Dials)
                          /\ Len(Tail(updates)) = Len(updates) - 1
    OBVIOUS
  <2>2. updates' \in Seq(Dials) /\ Len(updates') <= ChanSize
    BY <1>3, <2>1 DEF Receive
  <2>3. QED
    BY <1>3, <2>1, <2>2 DEF Receive
<1>4. CASE UNCHANGED vars
  BY <1>4 DEF vars
<1>5. QED
  BY <1>1, <1>2, <1>3, <1>4 DEF Next, Terminated

LEMMA CustodyStep ==
    TypeOK /\ [Next]_vars /\ (\A d \in Dials : Custody(d))
        => (\A d \in Dials : Custody(d)')
<1> SUFFICES ASSUME TypeOK, [Next]_vars, \A d \in Dials : Custody(d), NEW e \in Dials
             PROVE  Custody(e)'
  OBVIOUS
<1> USE DEF TypeOK, Pcs, Goto, Custody
<1>1. ASSUME NEW d \in Dials, Step(d) PROVE Custody(e)'
  <2>1. CASE d = e
    BY <1>1, <2>1 DEF Step, OpenConnection, SetPeer, DialRaw, Notify, Camouflage,
       CloseRaw, Upgrade, UpgraderReleases, ReleaseScope
  <2>2. CASE d # e
    <3>1. pc'[e] = pc[e] /\ scope'[e] = scope[e] /\ (e \in sock' <=> e \in sock)
      BY <1>1, <2>2 DEF Step, OpenConnection, SetPeer, DialRaw, Notify, Camouflage,
         CloseRaw, Upgrade, UpgraderReleases, ReleaseScope
    <3>2. QED
      BY <3>1
  <2>3. QED
    BY <2>1, <2>2
<1>2. CASE UNCHANGED <<pc, scope, sock>>
  BY <1>2
<1>3. QED
  BY <1>1, <1>2 DEF Next, Cancel, Receive, Terminated, vars

\* Sending appends a dial that is not yet reported, receiving moves the head
\* over to the reader, and no other step touches channel or reader.
LEMMA NotifySends ==
    ASSUME IInv, NEW d \in Dials, Notify(d)
    PROVE  /\ SentOnce'
           /\ \/ Reported' = Reported \cup {d}
              \/ UNCHANGED <<updates, told>>
           /\ d \notin Reported
<1>1. d \notin Reported
  BY DEF IInv, Early, Notify
<1>2. CASE reader
  BY <1>1, <1>2 DEF IInv, TypeOK, Notify, ChanReady, SentOnce, Places, Reported
<1>3. CASE ~reader /\ ChanReady
  <2>1. /\ updates' = Append(updates, d) /\ told' = told
        /\ Len(updates') = Len(updates) + 1
        /\ \A i \in Places : updates'[i] = updates[i]
        /\ updates'[Len(updates) + 1] = d
        /\ Len(updates) \in Nat
    BY <1>3 DEF IInv, TypeOK, Notify, Places
  <2>2. \A i \in Places' : i \in Places \/ i = Len(updates) + 1
    BY <2>1 DEF Places
  <2>3. \A i \in Places : i \in Places' /\ updates[i] # d
    BY <2>1, <1>1 DEF Places, Reported
  <2>4. Len(updates) + 1 \in Places' /\ d \notin told
    BY <2>1, <1>1 DEF Places, Reported
  <2>5. SentOnce'
    BY <2>1, <2>2, <2>3, <2>4 DEF IInv, SentOnce
  <2>6. Reported' = Reported \cup {d}
    <3>1. {updates'[i] : i \in Places'} = {updates[i] : i \in Places} \cup {d}
      BY <2>1, <2>2, <2>3, <2>4
    <3>2. QED
      BY <3>1, <2>1 DEF Reported, Places
  <2>7. QED
    BY <1>1, <2>5, <2>6
<1>4. CASE ~ChanReady
  BY <1>1, <1>4 DEF IInv, Notify, ChanReady, SentOnce, Places
<1>5. QED
  BY <1>2, <1>3, <1>4

LEMMA ReceiveMoves ==
    ASSUME IInv, Receive
    PROVE  SentOnce' /\ Reported' = Reported
<1>1. CASE updates = <<>>
  BY <1>1 DEF IInv, Receive, SentOnce, Places, Reported
<1>2. CASE updates # <<>>
  <2>1. /\ told' = told \cup {updates[1]}
        /\ Len(updates') = Len(updates) - 1
        /\ Len(updates) \in Nat \ {0}
        /\ \A i \in 1 .. Len(updates) - 1 : updates'[i] = updates[i + 1]
    BY <1>2 DEF IInv, TypeOK, Receive
  <2>2. \A i \in Places' : i + 1 \in Places /\ i + 1 # 1 /\ updates'[i] = updates[i + 1]
    BY <2>1 DEF Places
  <2>3. 1 \in Places /\ \A i \in Places : i = 1 \/ (i - 1 \in Places' /\ updates'[i - 1] = updates[i])
    BY <2>1 DEF Places
  <2>4. SentOnce'
    <3>1. \A i, j \in Places' : updates'[i] = updates'[j] => i + 1 = j + 1
      BY <2>2 DEF IInv, SentOnce
    <3>2. \A i, j \in Places' : i + 1 = j + 1 => i = j
      BY <2>1 DEF Places
    <3>3. \A i \in Places' : updates'[i] \notin told'
      BY <2>1, <2>2, <2>3 DEF IInv, SentOnce
    <3>4. QED
      BY <3>1, <3>2, <3>3 DEF SentOnce
  <2>5. {updates[i] : i \in Places} = {updates[1]} \cup {updates'[i] : i \in Places'}
    BY <2>2, <2>3
  <2>6. QED
    BY <2>1, <2>4, <2>5 DEF Reported, Places
<1>3. QED
  BY <1>1, <1>2

\* Apart from these two steps the update path is still, and no dial goes back.
LEMMA OthersAreQuiet ==
    ASSUME IInv, [Next]_vars, ~Receive, \A d \in Dials : ~Notify(d)
    PROVE  /\ UNCHANGED <<updates, told>>
           /\ \A d \in Dials : Early(d)' => Early(d)
<1> USE DEF IInv, TypeOK, Pcs, Goto, Early
<1>1. ASSUME NEW d \in Dials, Step(d)
      PROVE  /\ UNCHANGED <<updates, told>>
             /\ \A e \in Dials : Early(e)' => Early(e)
  BY <1>1 DEF Step, OpenConnection, SetPeer, DialRaw, Camouflage, CloseRaw,
     Upgrade, UpgraderReleases, ReleaseScope
<1>2. ASSUME NEW d \in Dials, Cancel(d)
      PROVE  UNCHANGED <<updates, told, pc>>
  BY <1>2 DEF Cancel
<1>3. QED
  BY <1>1, <1>2 DEF Next, Terminated, vars

LEMMA StepInvariant == IInv /\ [Next]_vars => IInv'
<1> SUFFICES ASSUME IInv, [Next]_vars PROVE IInv'
  OBVIOUS
<1>1. TypeOK' /\ \A d \in Dials : Custody(d)'
  BY TypeStep, CustodyStep DEF IInv
<1>2. SentOnce' /\ \A d \in Dials : d \in Reported' => ~Early(d)'
  <2>1. ASSUME NEW d \in Dials, Notify(d)
        PROVE  SentOnce' /\ \A e \in Dials : e \in Reported' => ~Early(e)'
    <3>1. Reported' \subseteq Reported \cup {d}
      BY <2>1, NotifySends DEF Reported
    <3>2. \A e \in Dials : e # d => (Early(e)' <=> Early(e))
      BY <2>1 DEF Notify, Goto, Early, IInv, TypeOK
    <3>3. ~Early(d)'
      BY <2>1 DEF Notify, Goto, Early, IInv, TypeOK
    <3>4. QED
      BY <2>1, <3>1, <3>2, <3>3, NotifySends DEF IInv
  <2>2. CASE Receive
    BY <2>2, ReceiveMoves DEF IInv, Early, Receive
  <2>3. CASE ~Receive /\ \A d \in Dials : ~Notify(d)
    BY <2>3, OthersAreQuiet DEF IInv, SentOnce, Places, Reported
  <2>4. QED
    BY <2>1, <2>2, <2>3
<1>3. QED
  BY <1>1, <1>2 DEF IInv

\* The inductive invariant of the dials.
THEOREM Invariance == Spec => []IInv
  BY InitInvariant, StepInvariant, PTL DEF Spec

-----------------------------------------------------------------------------
\* The update channel holds dials, never more than its capacity.
THEOREM TypeCorrect == Spec => []TypeOK
<1>1. IInv => TypeOK
  BY DEF IInv
<1>2. QED
  BY <1>1, Invariance, PTL

\* A failed dial leaves neither scope nor socket, a successful one hands both on.
THEOREM FailedDialsLeaveNothing == Spec => []NoLeak
<1>1. IInv => NoLeak
  BY DEF IInv, Custody, NoLeak
<1>2. QED
  BY <1>1, Invariance, PTL

\* The scope outlives the socket on every path.
THEOREM SocketsAreCovered == Spec => []ScopeCoversSocket
<1>1. IInv => ScopeCoversSocket
  BY DEF IInv, TypeOK, Pcs, Custody, ScopeCoversSocket
<1>2. QED
  BY <1>1, Invariance, PTL

\* An update tells of a connection that was made, and is sent once at most.
THEOREM UpdatesTell == Spec => []UpdatesAreTrue
<1>1. ASSUME IInv, NEW d \in Dials
      PROVE  Cardinality({i \in Places : updates[i] = d})
                 + (IF d \in told THEN 1 ELSE 0) <= 1
  <2> DEFINE at == {i \in Places : updates[i] = d}
  <2>1. CASE at = {}
    <3>1. Cardinality(at) = 0
      BY <2>1, FS_EmptySet
    <3>2. QED
      BY <3>1
  <2>2. ASSUME NEW i \in at PROVE Cardinality(at) = 1 /\ d \notin told
    <3>1. at = {i}
      BY <1>1, <2>2 DEF IInv, SentOnce
    <3>2. Cardinality(at) = 1
      BY <3>1, FS_Singleton
    <3>3. d \notin told
      BY <1>1, <2>2 DEF IInv, SentOnce
    <3>4. QED
      BY <3>2, <3>3
  <2>3. QED
    BY <2>1, <2>2
<1>2. IInv => UpdatesAreTrue
  BY <1>1 DEF IInv, UpdatesAreTrue, Places, Early
<1>3. QED
  BY <1>2, Invariance, PTL

-----------------------------------------------------------------------------
(* Refinement: each step of a dial is a step of its contract or none.       *)

LEMMA InitRefines == Init => Contract!Init
  BY DEF Init, Contract!Init, Holding, Reported

\* Dial d's holdings change or not; the others' never do.
LEMMA StepRefines ==
    ASSUME IInv, IInv', NEW d \in Dials, Step(d)
    PROVE  Contract!Next \/ UNCHANGED Contract!vars
<1> USE DEF IInv, TypeOK, Pcs, Goto
<1>1. ASSUME NEW e \in Dials, e # d PROVE Holding(e)' = Holding(e)
  BY <1>1 DEF Holding, Step, OpenConnection, SetPeer, DialRaw, Notify, Camouflage,
     CloseRaw, Upgrade, UpgraderReleases, ReleaseScope
<1>2. CASE Notify(d)
  <2>1. Holding(d) = "both" /\ Holding(d)' = "both"
    BY <1>2 DEF Notify, Holding, Custody
  <2>2. [e \in Dials |-> Holding(e)]' = [e \in Dials |-> Holding(e)]
    BY <1>1, <2>1
  <2>3. CASE UNCHANGED <<updates, told>>
    BY <2>2, <2>3 DEF Reported, Contract!vars
  <2>4. CASE Reported' = Reported \cup {d}
    BY <1>2, <2>1, <2>2, <2>4, NotifySends DEF Contract!Next, Contract!Report
  <2>5. QED
    BY <1>2, <2>3, <2>4, NotifySends
<1>3. CASE ~Notify(d)
  <2>1. Reported' = Reported
    BY <1>3 DEF Reported, Step, OpenConnection, SetPeer, DialRaw, Camouflage,
       CloseRaw, Upgrade, UpgraderReleases, ReleaseScope
  <2>2. \/ Holding(d)' = Holding(d)
        \/ Holding(d) = "nothing" /\ Holding(d)' = "scope"
        \/ Holding(d) = "scope" /\ Holding(d)' = "both"
        \/ Holding(d) = "both" /\ Holding(d)' = "scope"
        \/ Holding(d) = "both" /\ Holding(d)' = "handed"
        \/ Holding(d) = "scope" /\ Holding(d)' = "back"
    BY <1>3 DEF Holding, Custody, Step, OpenConnection, SetPeer, DialRaw, Camouflage,
       CloseRaw, Upgrade, UpgraderReleases, ReleaseScope
  <2>3. CASE Holding(d)' = Holding(d)
    <3>1. [e \in Dials |-> Holding(e)]' = [e \in Dials |-> Holding(e)]
      BY <1>1, <2>3
    <3>2. QED
      BY <2>1, <3>1 DEF Contract!vars
  <2>4. CASE Holding(d)' # Holding(d)
    <3>1. [e \in Dials |-> Holding(e)]'
              = [[e \in Dials |-> Holding(e)] EXCEPT ![d] = Holding(d)']
      BY <1>1
    <3>2. QED
      BY <2>1, <2>2, <2>4, <3>1 DEF Contract!Next, Contract!Open, Contract!Connect,
         Contract!Disconnect, Contract!HandOver, Contract!GiveBack, Contract!Move
  <2>5. QED
    BY <2>3, <2>4
<1>4. QED
  BY <1>2, <1>3

\* Cancelling and receiving are not the contract's.
LEMMA OthersStutter ==
    ASSUME IInv, Receive \/ UNCHANGED vars \/ \E d \in Dials : Cancel(d)
    PROVE  UNCHANGED Contract!vars
<1>1. UNCHANGED <<pc, scope, sock>>
  BY DEF Receive, vars, Cancel
<1>2. Reported' = Reported
  BY ReceiveMoves DEF vars, Cancel, Reported
<1>3. QED
  BY <1>1, <1>2 DEF Holding, Contract!vars

\* Every dial is one of the contract: connection inside scope, progress reported
\* once and while the connection stands.
THEOREM Refinement == Spec => RefinesDialContract
<1>1. IInv /\ IInv' /\ [Next]_vars => [Contract!Next]_Contract!vars
  BY StepRefines, OthersStutter DEF Next, Terminated
<1>2. QED
  BY InitRefines, <1>1, Invariance, PTL DEF Spec, RefinesDialContract, Contract!Spec
=============================================================================
