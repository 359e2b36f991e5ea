---------------------------- MODULE NatlabProofs ----------------------------
(***************************************************************************)
(* Proofs about Natlab.  The verdict reads logs, one exit code and, through *)
(* B, a file that any earlier run may have left.  It can be trusted because *)
(* the script orders the three: it removes the files before it starts B,    *)
(* starts A after B, and reads the logs only when A has exited.             *)
(***************************************************************************)
EXTENDS Natlab, Naturals, TLAPS

\* Whom the script has started, and whom it has stopped.
Stages ==
    /\ script \in {"build", "relay", "awaitRelay"} => pc["b"] = "off"
    /\ script \in {"build", "relay", "awaitRelay", "awaitAddr", "control"} =>
          pc["a"] = "off"
    /\ script = "pollB" => pc["a"] = "exited"
    /\ script \in {"pass", "die"} =>
          \A p \in Peers : pc[p] \in {"off", "exited", "killed"}
    /\ script = "waitA" => pc["a"] \in Running \cup {"closing", "exited"}

\* What a peer has reported by the time it stands where it stands.
Reports(p) ==
    /\ pc[p] = "off" => log[p] = {}
    /\ pc[p] \in {"ping", "confirm"} => "direct_conn" \in log[p]
    /\ pc[p] = "confirm" => "PASS" \in log[p]
    /\ "PASS" \in log[p] => {"direct_conn", "ping_ok"} \subseteq log[p]
    /\ rc[p] = "ok" => "PASS" \in log[p]
    /\ "FAIL" \in log[p] => pc[p] = "exited" /\ rc[p] = "fail"

\* Once the old files are removed, a.done is A's word of this run, and B
\* succeeds on nothing else.
DoneIsMeant ==
    /\ "a.done" \in files /\ script \notin {"build", "die"} => "PASS" \in log["a"]
    /\ rc["b"] = "ok" => "PASS" \in log["a"]

\* The relay runs, or has run, when the script waits for it, and not before.
RelayWaits ==
    /\ script \in {"build", "relay"} => relay = "off"
    /\ script = "awaitRelay" => relay # "off"

IInv ==
    /\ TypeOK /\ Stages /\ RelayWaits /\ DoneIsMeant /\ VerdictSound
    /\ \A p \in Peers : Reports(p)

-----------------------------------------------------------------------------
LEMMA InitInvariant == Init => IInv
  BY DEF Init, IInv, TypeOK, Stages, RelayWaits, DoneIsMeant, VerdictSound, Reports, Peers,
     Files, Running

\* The two peers are all there are.
LEMMA Two ==
    /\ "a" \in Peers /\ "b" \in Peers
    /\ \A p \in Peers : p = "a" \/ p = "b"
  BY DEF Peers

-----------------------------------------------------------------------------
(* A peer's step.                                                           *)

\* A peer that runs is one the script has started and not yet stopped.
LEMMA PeerRuns ==
    ASSUME IInv, NEW p \in Peers, pc[p] \in Running \cup {"closing"}
    PROVE  /\ script \in {"awaitAddr", "control", "waitA", "pollB"}
           /\ p = "a" => script = "waitA"
  BY Two DEF IInv, TypeOK, Stages, Running

\* A peer has run to its end, or runs one step further; it never starts anew.
LEMMA PeerMoves ==
    ASSUME IInv, NEW p \in Peers, Peer(p)
    PROVE  /\ pc[p] \in Running \cup {"closing"}
           /\ pc' = [pc EXCEPT ![p] = pc'[p]]
           /\ pc'[p] \in Running \cup {"closing", "exited"}
           /\ pc'[p] = "exited" => pc[p] = "closing"
           /\ log' = [log EXCEPT ![p] = log'[p]]
           /\ log[p] \subseteq log'[p] /\ log'[p] \subseteq Events
           /\ rc' = [rc EXCEPT ![p] = rc'[p]]
           /\ rc'[p] = "none" <=> pc'[p] \in Running
           /\ rc'[p] \in {"none", "ok", "fail"}
           /\ files' \subseteq Files
           /\ circuit' \in BOOLEAN /\ direct' \in {"none", "open", "closed"}
           /\ UNCHANGED <<script, relay>>
<1> USE DEF IInv, TypeOK, Go, Running, Events
<1>1. CASE ConnectRelay(p) \/ Reserve(p)
  BY <1>1 DEF ConnectRelay, Reserve
<1>2. CASE Publish(p)
  BY <1>2 DEF Publish, Files
<1>3. CASE Rendezvous(p)
  BY <1>3 DEF Rendezvous
<1>4. CASE ConnectCircuit(p)
  <2>1. circuit' \in BOOLEAN /\ UNCHANGED <<script, relay, rc, files, direct>>
        /\ Go(p, "circuit", "direct", {"circuit_connected"})
    BY <1>4 DEF ConnectCircuit
  <2>2. QED
    BY <2>1
<1>5. CASE SeeDirect(p) \/ Ping(p)
  BY <1>5 DEF SeeDirect, Ping
<1>6. CASE Confirm(p)
  BY <1>6 DEF Confirm, Files
<1>7. CASE Fail(p)
  BY <1>7 DEF Fail
<1>8. CASE Exit(p)
  BY <1>8 DEF Exit, Hangs
<1>9. QED
  BY <1>1, <1>2, <1>3, <1>4, <1>5, <1>6, <1>7, <1>8 DEF Peer

\* What it reports matches where it goes.
LEMMA PeerReports == ASSUME IInv, NEW p \in Peers, Peer(p) PROVE Reports(p)'
<1> USE PeerMoves DEF IInv, TypeOK, Reports, Go, Running
<1>1. CASE ConnectRelay(p) \/ Reserve(p)
  BY <1>1 DEF ConnectRelay, Reserve
<1>2. CASE Publish(p)
  BY <1>2 DEF Publish
<1>3. CASE Rendezvous(p) \/ ConnectCircuit(p)
  BY <1>3 DEF Rendezvous, ConnectCircuit
<1>4. CASE SeeDirect(p) \/ Ping(p)
  BY <1>4 DEF SeeDirect, Ping
<1>5. CASE Confirm(p)
  BY <1>5 DEF Confirm
<1>6. CASE Fail(p)
  BY <1>6 DEF Fail
<1>7. CASE Exit(p)
  BY <1>7 DEF Exit
<1>8. QED
  BY <1>1, <1>2, <1>3, <1>4, <1>5, <1>6, <1>7 DEF Peer

\* a.done is written by a peer that confirms: by A when it has passed, by B when
\* it is there already.
LEMMA PeerDone == ASSUME IInv, NEW p \in Peers, Peer(p) PROVE DoneIsMeant'
<1>1. log["a"] \subseteq log'["a"] /\ UNCHANGED script
  BY PeerMoves, Two DEF IInv, TypeOK
<1>2. CASE Confirm(p)
  <2>1. "PASS" \in log["a"]
    <3>1. CASE p = "a"
      BY <1>2, <3>1 DEF Confirm, Go, IInv, Reports
    <3>2. CASE p = "b"
      <4>1. script \notin {"build", "die"}
        BY <1>2, PeerRuns DEF Confirm, Go, Running
      <4>2. QED
        BY <1>2, <3>2, <4>1 DEF Confirm, IInv, DoneIsMeant
    <3>3. QED
      BY <3>1, <3>2, Two
  <2>2. QED
    BY <1>1, <2>1 DEF DoneIsMeant
<1>3. CASE ~Confirm(p)
  <2>1. "a.done" \in files' => "a.done" \in files
    BY <1>3
    DEF Peer, ConnectRelay, Reserve, Publish, Rendezvous, ConnectCircuit,
        SeeDirect, Ping, Fail, Exit
  <2>2. rc'["b"] = "ok" => rc["b"] = "ok"
    BY <1>3, Two
    DEF IInv, TypeOK, Peer, ConnectRelay, Reserve, Publish, Rendezvous,
        ConnectCircuit, SeeDirect, Ping, Fail, Exit
  <2>3. QED
    BY <1>1, <2>1, <2>2 DEF IInv, DoneIsMeant
<1>4. QED
  BY <1>2, <1>3

LEMMA PeerStep == ASSUME IInv, NEW p \in Peers, Peer(p) PROVE IInv'
<1>1. TypeOK'
  BY PeerMoves DEF IInv, TypeOK, Running
<1>2. Stages' /\ VerdictSound'
  BY PeerMoves, PeerRuns, Two DEF IInv, TypeOK, Stages, VerdictSound, Running
<1>3. \A q \in Peers : Reports(q)'
  <2>1. \A q \in Peers \ {p} : UNCHANGED <<pc[q], log[q], rc[q]>>
    BY PeerMoves DEF IInv, TypeOK
  <2>2. QED
    BY <2>1, PeerReports DEF IInv, Reports
<1>4. RelayWaits'
  BY PeerMoves DEF IInv, RelayWaits
<1>5. QED
  BY <1>1, <1>2, <1>3, <1>4, PeerDone DEF IInv

-----------------------------------------------------------------------------
(* The script's step.                                                       *)

\* Its end leaves the logs, and the exit code of whoever had exited.
LEMMA EndStep ==
    ASSUME IInv, NEW verdict \in {"pass", "die"}, End(verdict),
           verdict = "pass" => script = "pollB" /\ Verified
    PROVE  IInv'
<1> USE Two
<1>1. pc' \in [Peers -> {"off", "exited", "killed"}]
  BY DEF IInv, TypeOK, End
<1>2. \A p \in Peers : /\ pc'[p] \in {"off", "exited"} => pc'[p] = pc[p]
                       /\ pc[p] \in {"off", "exited"} => pc'[p] = pc[p]
                       /\ rc'[p] = IF pc'[p] = "exited" THEN rc[p] ELSE "none"
  BY DEF End
<1>3. TypeOK'
  <2>1. rc' \in [Peers -> {"none", "ok", "fail"}]
    BY DEF IInv, TypeOK, End
  <2>2. \A p \in Peers : (rc'[p] = "none") = (pc'[p] \in Running \cup {"off", "killed"})
    BY <1>1, <1>2 DEF IInv, TypeOK, Running
  <2>3. QED
    BY <1>1, <2>1, <2>2 DEF IInv, TypeOK, End, Hangs
<1>4. Stages'
  BY <1>1 DEF End, Stages
<1>5. \A p \in Peers : Reports(p)'
  BY <1>1, <1>2 DEF IInv, Reports, End
<1>6. DoneIsMeant'
  BY <1>2 DEF IInv, DoneIsMeant, End
<1>7. VerdictSound'
  <2>1. CASE verdict = "pass"
    BY <2>1 DEF IInv, Reports, Verified, VerdictSound, End
  <2>2. CASE verdict = "die"
    BY <2>2 DEF VerdictSound, End
  <2>3. QED
    BY <2>1, <2>2
<1>8. RelayWaits'
  BY DEF End, RelayWaits
<1>9. QED
  BY <1>3, <1>4, <1>5, <1>6, <1>7, <1>8 DEF IInv

\* Otherwise it goes on to the next stage, and may start a process.
LEMMA ScriptStep == ASSUME IInv, Script PROVE IInv'
<1> USE Two DEF Continue, nodeVars
<1>1. ASSUME NEW verdict, End(verdict), verdict = "die" PROVE IInv'
  BY <1>1, EndStep
<1>2. CASE Clean
  <2>1. CASE script' = "relay" /\ script = "build" /\ files' = {}
             /\ UNCHANGED <<relay, pc, direct, rc, log, circuit>>
    BY <2>1 DEF IInv, TypeOK, Stages, RelayWaits, DoneIsMeant, VerdictSound, Reports
  <2>2. QED
    BY <1>1, <1>2, <2>1 DEF Clean
<1>3. CASE StartRelay
  BY <1>3
  DEF StartRelay, IInv, TypeOK, Stages, RelayWaits, DoneIsMeant, VerdictSound, Reports
<1>4. CASE StartB
  <2>1. CASE script = "awaitRelay" /\ script' = "awaitAddr"
             /\ pc' = [pc EXCEPT !["b"] = "boot"]
             /\ UNCHANGED <<relay, files, direct, rc, log, circuit>>
    BY <2>1
    DEF IInv, TypeOK, Stages, RelayWaits, DoneIsMeant, VerdictSound, Reports, Running
  <2>2. QED
    BY <1>1, <1>4, <2>1 DEF StartB
<1>5. CASE AwaitAddr
  <2>1. CASE script = "awaitAddr" /\ script' = "control"
             /\ UNCHANGED <<relay, pc, files, direct, rc, log, circuit>>
    BY <2>1 DEF IInv, TypeOK, Stages, RelayWaits, DoneIsMeant, VerdictSound, Reports
  <2>2. QED
    BY <1>1, <1>5, <2>1 DEF AwaitAddr
<1>6. CASE StartA
  <2>1. CASE script = "control" /\ script' = "waitA"
             /\ pc' = [pc EXCEPT !["a"] = "boot"]
             /\ UNCHANGED <<relay, files, direct, rc, log, circuit>>
    BY <2>1
    DEF IInv, TypeOK, Stages, RelayWaits, DoneIsMeant, VerdictSound, Reports, Running
  <2>2. QED
    BY <1>1, <1>6, <2>1 DEF StartA
<1>7. CASE WaitA
  BY <1>7
  DEF WaitA, IInv, TypeOK, Stages, RelayWaits, DoneIsMeant, VerdictSound, Reports
<1>8. CASE Verdict
  <2>1. CASE Verified
    BY <1>8, <2>1, EndStep DEF Verdict
  <2>2. CASE ~Verified
    BY <1>1, <1>8, <2>2 DEF Verdict
  <2>3. QED
    BY <2>1, <2>2
<1>9. QED
  BY <1>2, <1>3, <1>4, <1>5, <1>6, <1>7, <1>8 DEF Script

-----------------------------------------------------------------------------
\* The relay, DCUtR and its tracers; the tracers report on hosts that run.
LEMMA EnvironmentStep ==
    ASSUME IInv,
           RelayStarts \/ RelayEnds \/ Punch \/ (\E p \in Peers : Trace(p))
    PROVE  IInv'
<1>1. CASE RelayStarts \/ RelayEnds \/ Punch
  <2>1. TypeOK'
    <3>1. CASE RelayStarts
      BY <1>1, <3>1 DEF RelayStarts, relayVars, IInv, TypeOK
    <3>2. CASE RelayEnds
      BY <1>1, <3>2 DEF RelayEnds, relayVars, IInv, TypeOK
    <3>3. CASE Punch
      BY <1>1, <3>3 DEF Punch, IInv, TypeOK
    <3>4. QED
      BY <1>1, <3>1, <3>2, <3>3
  <2>2. UNCHANGED <<script, pc, rc, log, files>>
    BY <1>1 DEF RelayStarts, RelayEnds, relayVars, Punch
  <2>3. RelayWaits'
    BY <1>1 DEF IInv, RelayWaits, RelayStarts, RelayEnds, relayVars, Punch
  <2>4. QED
    BY <2>1, <2>2, <2>3 DEF IInv, Stages, DoneIsMeant, VerdictSound, Reports
<1>2. ASSUME NEW p \in Peers, Trace(p) PROVE IInv'
  <2>1. PICK outcome \in {"missed", "punched"} :
           log' = [log EXCEPT ![p] = @ \cup {outcome}]
    BY <1>2 DEF Trace
  <2>2. pc[p] \in Running
    BY <1>2 DEF Trace, Hosting
  <2>3. script # "pass"
    BY <2>2, PeerRuns
  <2>4. log' \in [Peers -> SUBSET Events]
    BY <2>1 DEF IInv, TypeOK, Events
  <2>5. \A q \in Peers : \A e \in {"direct_conn", "ping_ok", "PASS", "FAIL"} :
           e \in log'[q] <=> e \in log[q]
    BY <2>1 DEF IInv, TypeOK
  <2>6. UNCHANGED <<script, relay, pc, rc, files, circuit, direct>>
    BY <1>2 DEF Trace
  <2>7. \A q \in Peers : Reports(q)'
    <3>1. \A q \in Peers : pc[q] = "off" => log'[q] = {}
      BY <2>1, <2>2 DEF IInv, TypeOK, Reports, Running
    <3>2. QED
      BY <2>5, <2>6, <3>1 DEF IInv, Reports
  <2>8. QED
    BY <2>3, <2>4, <2>5, <2>6, <2>7, Two
    DEF IInv, TypeOK, Stages, RelayWaits, DoneIsMeant, VerdictSound
<1>3. QED
  BY <1>1, <1>2

LEMMA StepInvariant == IInv /\ [Next]_vars => IInv'
<1> SUFFICES ASSUME IInv, [Next]_vars PROVE IInv'
  OBVIOUS
<1>1. CASE UNCHANGED vars
  BY <1>1
  DEF vars, IInv, TypeOK, Stages, RelayWaits, DoneIsMeant, VerdictSound, Reports
<1>2. QED
  BY <1>1, PeerStep, ScriptStep, EnvironmentStep DEF Next, Terminated

\* The inductive invariant of the lab.
THEOREM Invariance == Spec => []IInv
  BY InitInvariant, StepInvariant, PTL DEF Spec

-----------------------------------------------------------------------------
\* Processes, logs, files and connections are what they are meant to be, and a
\* process has an exit code exactly when it has one to give.
THEOREM TypeCorrect == Spec => []TypeOK
<1>1. IInv => TypeOK
  BY DEF IInv
<1>2. QED
  BY <1>1, Invariance, PTL

\* B exits with success only after A has passed, whatever an earlier run has left
\* in RUN_DIR and whoever else fails.
THEOREM AcceptorWaits == Spec => []AcceptorOutlives
<1>1. IInv => AcceptorOutlives
  BY DEF IInv, DoneIsMeant, AcceptorOutlives
<1>2. QED
  BY <1>1, Invariance, PTL

\* A green verdict means that both peers pinged over the punched connection.
THEOREM GreenIsSound == Spec => []VerdictSound
<1>1. IInv => VerdictSound
  BY DEF IInv
<1>2. QED
  BY <1>1, Invariance, PTL

-----------------------------------------------------------------------------
(* Why the lab ends.  That a step which can be taken is taken in the end is  *)
(* a matter of fairness; that one can, and that steps run out, is not.       *)

\* How far script, relay, a peer and the punched connection have come.
ScriptRank ==
    [build |-> 0, relay |-> 1, awaitRelay |-> 2, awaitAddr |-> 3, control |-> 4,
     waitA |-> 5, pollB |-> 6, pass |-> 7, die |-> 7]
RelayRank == [off |-> 0, starting |-> 1, up |-> 2, failed |-> 3, down |-> 4]
PeerRank ==
    [off |-> 0, boot |-> 1, reserve |-> 2, dcutr |-> 3, rendezvous |-> 4,
     circuit |-> 5, direct |-> 6, ping |-> 7, confirm |-> 8, closing |-> 9,
     exited |-> 10, killed |-> 10]
DirectRank == [none |-> 0, open |-> 1, closed |-> 2]

\* A value stays, or moves up in its order.
Keeps(rank, old, new) == new = old \/ rank[old] < rank[new]

\* Nobody goes back: script, relay, peers and punched connection move up in their
\* orders only and no report is taken back.
Upward ==
    /\ Keeps(ScriptRank, script, script')
    /\ Keeps(RelayRank, relay, relay')
    /\ \A p \in Peers : Keeps(PeerRank, pc[p], pc'[p]) /\ log[p] \subseteq log'[p]
    /\ Keeps(DirectRank, direct, direct')

\* Somebody goes on.
Moved == <<script, relay, pc, log, direct>>' # <<script, relay, pc, log, direct>>

\* Every step of script, relay, peers, tracers and DCUtR uses something up: the
\* sum of the ranks and of the reports grows with each, and it has a limit.
StepsUseUp == [][Upward /\ Moved]_vars

\* Until there is a verdict the script has a step of its own, or waits for A, which
\* runs under a timeout of its own or is closing its host.  Its other waits are
\* loops with a limit, whose exits leave no case out.
ScriptIsNotStuck ==
    \/ script \in {"pass", "die"}
    \/ script \in {"build", "relay", "awaitAddr", "control", "pollB"}
    \/ script = "awaitRelay" /\ relay \in {"up", "down", "starting", "failed"}
    \/ script = "waitA" /\ pc["a"] \in {"exited", "closing"} \cup Running

LEMMA PeerUpward == ASSUME IInv, NEW p \in Peers, Peer(p) PROVE Upward /\ Moved
<1> USE DEF IInv, TypeOK, Go, Running, PeerRank, Keeps
<1>1. UNCHANGED <<script, relay>> /\ \A q \in Peers : log[q] \subseteq log'[q]
  BY PeerMoves
<1>2. pc' = [pc EXCEPT ![p] = pc'[p]] /\ PeerRank[pc[p]] < PeerRank[pc'[p]]
  <2>1. CASE ConnectRelay(p) \/ Reserve(p) \/ Publish(p) \/ Rendezvous(p)
    BY <2>1 DEF ConnectRelay, Reserve, Publish, Rendezvous
  <2>2. CASE ConnectCircuit(p) \/ SeeDirect(p) \/ Ping(p)
    BY <2>2 DEF ConnectCircuit, SeeDirect, Ping
  <2>3. CASE Confirm(p) \/ Fail(p) \/ Exit(p)
    BY <2>3 DEF Confirm, Fail, Exit
  <2>4. QED
    BY <2>1, <2>2, <2>3 DEF Peer
<1>3. pc' # pc /\ \A q \in Peers : Keeps(PeerRank, pc[q], pc'[q])
  BY <1>2
<1>4. Keeps(DirectRank, direct, direct')
  <2>1. direct' \in {direct, Hangs(direct)}
    BY DEF Peer, ConnectRelay, Reserve, Publish, Rendezvous, ConnectCircuit,
       SeeDirect, Ping, Confirm, Fail, Exit
  <2>2. QED
    BY <2>1 DEF Hangs, DirectRank
<1>5. QED
  BY <1>1, <1>3, <1>4 DEF Upward, Moved

LEMMA EndUpward ==
    ASSUME IInv, NEW verdict \in {"pass", "die"}, End(verdict),
           script \notin {"pass", "die"}
    PROVE  Upward /\ Moved
<1> USE DEF IInv, TypeOK, End, Keeps
<1>1. ScriptRank[script] < ScriptRank[script']
  BY DEF ScriptRank
<1>2. Keeps(RelayRank, relay, relay') /\ Keeps(DirectRank, direct, direct')
  BY DEF RelayRank, DirectRank, Hangs
<1>3. \A p \in Peers : Keeps(PeerRank, pc[p], pc'[p]) /\ log[p] \subseteq log'[p]
  BY DEF PeerRank, Running
<1>4. QED
  BY <1>1, <1>2, <1>3 DEF Upward, Moved

LEMMA ScriptUpward == ASSUME IInv, Script PROVE Upward /\ Moved
<1> USE DEF Script, Clean, StartRelay, StartB, AwaitAddr, StartA, WaitA, Verdict
<1>1. CASE \E verdict \in {"pass", "die"} : End(verdict)
  BY <1>1, EndUpward
<1>2. CASE ~ \E verdict \in {"pass", "die"} : End(verdict)
  <2>1. /\ script' # script /\ ScriptRank[script] < ScriptRank[script']
        /\ UNCHANGED <<log, direct>>
        /\ relay' = relay \/ (relay' = "starting" /\ script = "relay")
        /\ \/ pc' = pc
           \/ pc' = [pc EXCEPT !["b"] = "boot"] /\ script = "awaitRelay"
           \/ pc' = [pc EXCEPT !["a"] = "boot"] /\ script = "control"
    BY <1>2 DEF Continue, nodeVars, ScriptRank
  <2>2. \A p \in Peers : Keeps(PeerRank, pc[p], pc'[p])
    BY <2>1, Two DEF IInv, TypeOK, Stages, Keeps, PeerRank
  <2>3. Keeps(RelayRank, relay, relay')
    BY <2>1 DEF IInv, RelayWaits, Keeps, RelayRank
  <2>4. QED
    BY <2>1, <2>2, <2>3 DEF Upward, Moved, Keeps
<1>3. QED
  BY <1>1, <1>2

LEMMA EnvironmentUpward ==
    ASSUME IInv,
           RelayStarts \/ RelayEnds \/ Punch \/ (\E p \in Peers : Trace(p))
    PROVE  Upward /\ Moved
<1> USE DEF Keeps
<1>1. CASE RelayStarts \/ RelayEnds \/ Punch
  BY <1>1
  DEF RelayStarts, RelayEnds, relayVars, Punch, RelayRank, DirectRank, Upward, Moved
<1>2. ASSUME NEW p \in Peers, Trace(p) PROVE Upward /\ Moved
  <2>1. PICK outcome : outcome \notin log[p] /\ log' = [log EXCEPT ![p] = @ \cup {outcome}]
    BY <1>2 DEF Trace
  <2>2. log' # log /\ \A q \in Peers : log[q] \subseteq log'[q]
    BY <2>1 DEF IInv, TypeOK
  <2>3. QED
    BY <1>2, <2>2 DEF Trace, Upward, Moved
<1>3. QED
  BY <1>1, <1>2

\* The lab cannot go on for ever: every step of anybody uses something up.
THEOREM StepsRunOut == Spec => StepsUseUp
<1>1. IInv /\ [Next]_vars => (Upward /\ Moved) \/ UNCHANGED vars
  BY PeerUpward, ScriptUpward, EnvironmentUpward DEF Next, Terminated
<1>2. QED
  BY <1>1, Invariance, PTL DEF Spec, StepsUseUp

\* And it does not stop without a verdict for want of somebody who can go on.
THEOREM ScriptIsNeverStuck == Spec => []ScriptIsNotStuck
<1>1. IInv => ScriptIsNotStuck
  BY DEF IInv, TypeOK, Stages, RelayWaits, ScriptIsNotStuck
<1>2. QED
  BY <1>1, Invariance, PTL
=============================================================================
