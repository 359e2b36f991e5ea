---------------------------- MODULE DpilabProofs ----------------------------
(***************************************************************************)
(* Proofs about Dpilab, for any number of rounds: what a green run of the   *)
(* DPI lab vouches for.  The argument follows node B: its rounds are over   *)
(* when it reports success, the script looks at nothing before it has, and  *)
(* each arm's verdict remembers on what it was given.                       *)
(***************************************************************************)
EXTENDS Dpilab, TLAPS

Ended == {"ok", "failed"}

\* Node B counts its rounds, and starts with none.
Counting ==
    /\ client \in {"connect", "use", "close"} => round < Rounds
    /\ client = "ok" => round = Rounds
    /\ script \in {"capture", "server"} => client = "off" /\ round = 0
    /\ script \in {"ndpi", "verify"} => client = "ok"

\* What the done file means while node A is there to see it.
DoneIsTrue ==
    /\ script = "build" => server = "off"
    /\ script \in {"capture", "server"} => "done" \notin files
    /\ server \in {"boot", "up"} /\ "done" \in files => client \in Ended
    /\ server = "left" => client \in Ended

\* An arm that passed was judged after all its rounds, the camouflage arm on a
\* flow without a finding.
Judged ==
    /\ \A a \in Arms : status[a] = "pass" => judged[a].rounds = Rounds
    /\ status["camouflage"] = "pass" =>
          LET seen == judged["camouflage"]
          IN  /\ seen.syns >= Rounds
              /\ seen.flow # NoFlow
              /\ seen.flow.tls /\ seen.flow.byDPI /\ seen.flow.browser
              /\ {"tell", "untriaged"} \cap seen.flow.risks = {}
    /\ script = "pass" => \A a \in Arms : status[a] = "pass"

IInv == TypeOK /\ Counting /\ DoneIsTrue /\ Judged

-----------------------------------------------------------------------------
LEMMA InitInvariant == Init => IInv
  BY RoundsAssumption
  DEF Init, IInv, TypeOK, Arms, MaxSyns, Counting, DoneIsTrue, Judged

\* The steps of tcpdump and of the nodes, of the script but for Verify, and none.
LEMMA TypeStep ==
    ASSUME TypeOK, Counting, [Next]_vars, ~Verify
    PROVE  TypeOK'
<1> USE RoundsAssumption DEF TypeOK, Arms, MaxSyns
<1>1. CASE CaptureStarts \/ CaptureDies
  BY <1>1 DEF CaptureStarts, CaptureDies
<1>2. CASE Server
  BY <1>2 DEF Server, ServerUp, ServerLeaves, ServerFails, serverRest
<1>3. CASE Client
  <2>1. CASE CloseRound
    BY <2>1 DEF CloseRound, clientRest, Counting
  <2>2. CASE Connect
    <3>1. MaxSyns \in 0 .. MaxSyns
      OBVIOUS
    <3>2. syns' \in 0 .. MaxSyns
      BY <2>2, <3>1 DEF Connect
    <3>3. QED
      BY <2>2, <3>2 DEF Connect, clientRest
  <2>3. CASE Use \/ ClientFails
    BY <2>3 DEF Use, ClientFails, clientRest
  <2>4. QED
    BY <1>3, <2>1, <2>2, <2>3 DEF Client
<1>4. CASE Script
  <2>1. CASE Die
    BY <2>1 DEF Die, Stopped
  <2>2. CASE NDPI /\ ~Die
    BY <2>2 DEF NDPI
  <2>3. CASE StartArm
    <3>1. 0 \in 0 .. Rounds /\ 0 \in 0 .. MaxSyns
      OBVIOUS
    <3>2. QED
      BY <2>3, <3>1 DEF StartArm, StartArmWith
  <2>4. CASE ~Die /\ ~NDPI /\ ~StartArm
    BY <1>4, <2>4 DEF Script, Build, StartServer, StartClient, TouchDone,
       StopCapture, Report
  <2>5. QED
    BY <2>1, <2>2, <2>3, <2>4
<1>5. CASE UNCHANGED vars
  BY <1>5 DEF vars
<1>6. QED
  BY <1>1, <1>2, <1>3, <1>4, <1>5 DEF Next, Terminated

LEMMA VerifyTypes ==
    ASSUME TypeOK, Verify
    PROVE  TypeOK'
<1> USE DEF TypeOK
<1>1. arm' \in Arms /\ status' \in [Arms -> {"none", "pass", "fail"}]
  BY DEF Verify, Arms
<1>2. judged' \in [Arms -> [flow : Flows \cup {NoFlow}, syns : 0 .. MaxSyns,
                            rounds : 0 .. Rounds]]
  BY DEF Verify
<1>3. QED
  BY <1>1, <1>2 DEF Verify

LEMMA CountingStep ==
    ASSUME TypeOK, Counting, [Next]_vars
    PROVE  Counting'
<1> USE RoundsAssumption DEF TypeOK, Counting
<1>1. CASE CaptureStarts \/ CaptureDies
  BY <1>1 DEF CaptureStarts, CaptureDies
<1>2. CASE Server
  BY <1>2 DEF Server, ServerUp, ServerLeaves, ServerFails, serverRest
<1>3. CASE Client
  BY <1>3 DEF Client, Connect, Use, CloseRound, ClientFails, clientRest
<1>4. CASE Script
  BY <1>4 DEF Script, Die, Build, StartArm, StartArmWith, StartServer, StartClient,
     TouchDone, StopCapture, NDPI, Verify, Report
<1>5. CASE UNCHANGED vars
  BY <1>5 DEF vars
<1>6. QED
  BY <1>1, <1>2, <1>3, <1>4, <1>5 DEF Next, Terminated

LEMMA DoneIsTrueStep ==
    ASSUME TypeOK, Counting, DoneIsTrue, [Next]_vars
    PROVE  DoneIsTrue'
<1> USE DEF TypeOK, Counting, DoneIsTrue, Ended
<1>1. CASE CaptureStarts \/ CaptureDies
  BY <1>1 DEF CaptureStarts, CaptureDies
<1>2. CASE Server
  BY <1>2 DEF Server, ServerUp, ServerLeaves, ServerFails, serverRest
<1>3. CASE Client
  BY <1>3 DEF Client, Connect, Use, CloseRound, ClientFails, clientRest
<1>4. CASE Script
  BY <1>4 DEF Script, Die, Stopped, Build, StartArm, StartArmWith, StartServer,
     StartClient, TouchDone, StopCapture, NDPI, Verify, Report
<1>5. CASE UNCHANGED vars
  BY <1>5 DEF vars
<1>6. QED
  BY <1>1, <1>2, <1>3, <1>4, <1>5 DEF Next, Terminated

\* Verify writes one arm's verdict together with what it rests on.
LEMMA VerifyJudges ==
    ASSUME TypeOK, Counting, Judged, Verify
    PROVE  Judged'
<1>1. \A a \in Arms : a # arm => status'[a] = status[a] /\ judged'[a] = judged[a]
  BY DEF Verify, TypeOK
<1>2. judged'[arm] = [flow |-> flow, syns |-> syns, rounds |-> round]
  BY DEF Verify, TypeOK
<1>3. status'[arm] = "pass" => ArmPasses
  BY DEF Verify, TypeOK
<1>4. round = Rounds
  BY DEF Verify, Counting
<1>5. \A a \in Arms : status'[a] = "pass" => judged'[a].rounds = Rounds
  BY <1>1, <1>2, <1>4 DEF Judged
<1>6. CASE arm = "camouflage"
  <2>1. status'[arm] = "pass" => ~Distinguishable
    BY <1>3, <1>6 DEF ArmPasses
  <2>2. syns \in Nat
    BY RoundsAssumption DEF TypeOK, MaxSyns
  <2>3. QED
    BY <1>2, <1>5, <1>6, <2>1, <2>2, RoundsAssumption
    DEF Judged, Distinguishable, Verify
<1>7. CASE arm # "camouflage"
  BY <1>1, <1>5, <1>7 DEF Judged, Verify, Arms
<1>8. QED
  BY <1>6, <1>7

LEMMA JudgedStep ==
    ASSUME TypeOK, Counting, Judged, [Next]_vars
    PROVE  Judged'
<1>1. CASE Verify
  BY <1>1, VerifyJudges
<1>2. CASE Report
  BY <1>2 DEF Judged, Report
<1>3. CASE ~Verify /\ ~Report
  <2>1. UNCHANGED <<status, judged>> /\ (script' = "pass" => script = "pass")
    BY <1>3
    DEF Next, vars, Terminated, CaptureStarts, CaptureDies, Server, ServerUp,
        ServerLeaves, ServerFails, serverRest, Client, Connect, Use, CloseRound,
        ClientFails, clientRest, Script, Die, Build, StartArm, StartArmWith,
        StartServer, StartClient, TouchDone, StopCapture, NDPI
  <2>2. QED
    BY <2>1 DEF Judged
<1>4. QED
  BY <1>1, <1>2, <1>3

\* The inductive invariant of the DPI lab.
THEOREM Invariance == Spec => []IInv
<1>1. IInv /\ [Next]_vars => IInv'
  BY TypeStep, VerifyTypes, CountingStep, DoneIsTrueStep, JudgedStep DEF IInv
<1>2. QED
  BY InitInvariant, <1>1, PTL DEF Spec

\* The lab's files, counters and verdicts stay what they are meant to be.
THEOREM TypeCorrect == Spec => []TypeOK
<1>1. IInv => TypeOK
  BY DEF IInv
<1>2. QED
  BY <1>1, Invariance, PTL

\* A green run has seen the camouflaged flow and nothing to tell it by, however
\* many rounds it was to have.
THEOREM GreenMeansMasked == Spec => []MaskingVerified
<1>1. IInv => MaskingVerified
  <2> SUFFICES ASSUME IInv, script = "pass"
               PROVE  LET seen == judged["camouflage"].flow
                      IN  /\ seen # NoFlow
                          /\ seen.tls /\ seen.byDPI /\ seen.browser
                          /\ seen.risks \subseteq {"deployment"}
    BY DEF MaskingVerified
  <2> DEFINE seen == judged["camouflage"].flow
  <2>1. /\ seen # NoFlow /\ seen.tls /\ seen.byDPI /\ seen.browser
        /\ {"tell", "untriaged"} \cap seen.risks = {}
    BY DEF IInv, Judged, Arms
  <2>2. seen \in Flows
    BY <2>1 DEF IInv, TypeOK, Arms
  <2>3. seen.risks \subseteq {"deployment"}
    BY <2>1, <2>2 DEF Flows, Risks
  <2>4. QED
    BY <2>1, <2>3
<1>2. QED
  BY <1>1, Invariance, PTL

\* Behind a green run are all the rounds of both arms.
THEOREM GreenMeansRounds == Spec => []RoundsReal
<1>1. IInv => RoundsReal
  BY DEF IInv, Judged, RoundsReal, Arms
<1>2. QED
  BY <1>1, Invariance, PTL

\* Node A does not leave before node B has ended.
THEOREM ServerStays == Spec => []ServerOutlives
<1>1. IInv => ServerOutlives
  BY DEF IInv, DoneIsTrue, Ended, ServerOutlives
<1>2. QED
  BY <1>1, Invariance, PTL

-----------------------------------------------------------------------------
\* The script waits for a node, without a limit of its own, only when the node has
\* been started, and for node A only when the done file that ends it is there and
\* node B's outcome, which decides how to go on, is known.
WaitIsAnswered ==
    /\ script = "dial" => client # "off" /\ server \in {"up", "left", "failed"}
    /\ script = "waitServer" =>
          /\ "done" \in files
          /\ server \in {"up", "left", "failed"}
          /\ client \in Ended

\* An address in the arm's directory is that of a node A which came up in this arm.
Addressed ==
    /\ script = "capture" => "a.addr" \notin files /\ server = "off"
    /\ script = "server" => server \in {"boot", "up", "failed"}
    /\ script = "server" /\ "a.addr" \in files => server # "boot"
    /\ script = "dial" => "a.addr" \in files

Waits == WaitIsAnswered /\ Addressed

LEMMA WaitsStep == IInv /\ Waits /\ [Next]_vars => Waits'
<1> SUFFICES ASSUME IInv, Waits, [Next]_vars PROVE Waits'
  OBVIOUS
<1> USE DEF Waits, WaitIsAnswered, Addressed, Ended
<1>1. CASE CaptureStarts \/ CaptureDies
  BY <1>1 DEF CaptureStarts, CaptureDies
<1>2. CASE Server
  <2>1. script # "capture" /\ UNCHANGED <<script, client>>
    BY <1>2 DEF Server, ServerUp, ServerLeaves, ServerFails, serverRest
  <2>2. CASE ServerUp
    BY <2>1, <2>2 DEF ServerUp
  <2>3. CASE ServerLeaves
    <3>1. script # "server"
      BY <2>3 DEF ServerLeaves, IInv, DoneIsTrue
    <3>2. QED
      BY <2>1, <2>3, <3>1 DEF ServerLeaves
  <2>4. CASE ServerFails
    BY <2>1, <2>4 DEF ServerFails
  <2>5. QED
    BY <1>2, <2>2, <2>3, <2>4 DEF Server
<1>3. CASE Client
  <2>1. UNCHANGED <<script, files, server>>
    BY <1>3 DEF Client, Connect, Use, CloseRound, ClientFails, clientRest
  <2>2. client \notin Ended /\ client' # "off"
    BY <1>3 DEF Client, Connect, Use, CloseRound, ClientFails
  <2>3. QED
    BY <2>1, <2>2
<1>4. CASE Script
  <2>1. CASE Build \/ StartArm
    BY <2>1 DEF Build, Die, StartArm, StartArmWith
  <2>2. CASE StartServer
    BY <2>2 DEF StartServer, Die
  <2>3. CASE StartClient
    BY <2>3 DEF StartClient, Die
  <2>4. CASE TouchDone
    BY <2>4 DEF TouchDone
  <2>5. CASE StopCapture \/ NDPI \/ Report
    BY <2>5 DEF StopCapture, NDPI, Report, Die
  <2>6. CASE Verify
    BY <2>6 DEF Verify
  <2>7. QED
    BY <1>4, <2>1, <2>2, <2>3, <2>4, <2>5, <2>6 DEF Script
<1>5. CASE UNCHANGED vars
  BY <1>5 DEF vars
<1>6. QED
  BY <1>1, <1>2, <1>3, <1>4, <1>5 DEF Next, Terminated

\* None of the script's waits is for a process that cannot end it.
THEOREM WaitsAreAnswered == Spec => []WaitIsAnswered
<1>1. Init => Waits
  BY DEF Init, Waits, WaitIsAnswered, Addressed
<1>2. Waits => WaitIsAnswered
  BY DEF Waits
<1>3. QED
  BY <1>1, <1>2, WaitsStep, Invariance, PTL DEF Spec
=============================================================================
