-------------------------------- MODULE Dpilab --------------------------------
(***************************************************************************)
(* The DPI lab: lab.sh runs two arms one after the other, the camouflage    *)
(* transport and stock TCP.  In each, tcpdump records the wire, node A      *)
(* serves and node B dials it Rounds times (dpilab/main.go), nDPI reads the *)
(* capture and dpilab/verify.go judges what it says.  Green needs both arms.*)
(*                                                                         *)
(* The nodes meet through two files: A's address, and done, which ends A.   *)
(* tcpdump may die at any time, which nothing in the script looks at; a SYN *)
(* may be sent twice; nDPI may say anything of a flow.  As all connections  *)
(* of an arm use one 5-tuple, nDPI makes one flow of them.                  *)
(***************************************************************************)
EXTENDS Naturals

CONSTANT Rounds  \* ROUNDS of lab.sh, given to dial and to -min-handshakes

ASSUME RoundsAssumption == Rounds \in Nat \ {0}

VARIABLES
    script,   \* where lab.sh stands
    arm,      \* the arm under way
    files,    \* the files in RUN_DIR
    capture,  \* tcpdump
    server,   \* node A
    client,   \* node B
    round,    \* rounds B has finished in this arm
    syns,     \* SYNs in this arm's capture
    flow,     \* what nDPI makes of this arm's capture
    judged,   \* what each arm was judged on: [flow, syns, rounds]
    status    \* arm_status

vars == <<script, arm, files, capture, server, client, round, syns, flow,
          judged, status>>

Arms == {"camouflage", "plain"}
Risks == {"tell", "deployment", "untriaged"}

\* A flow of the lab in nDPI's output, and whether its log names a browser.
Flows == [tls : BOOLEAN, byDPI : BOOLEAN, risks : SUBSET Risks, browser : BOOLEAN]
NoFlow == [tls |-> FALSE]

\* Bound: SYNs counted in a capture; verify.go looks for Rounds of them.
MaxSyns == Rounds + 1

TypeOK ==
    /\ script \in {"build", "arm", "capture", "server", "dial", "waitServer",
                   "ndpi", "verify", "report", "pass", "die"}
    /\ arm \in Arms
    /\ files \subseteq {"a.addr", "done"}
    /\ capture \in {"off", "starting", "on", "lost"}
    /\ server \in {"off", "boot", "up", "left", "failed"}
    /\ client \in {"off", "connect", "use", "close", "ok", "failed"}
    /\ round \in 0 .. Rounds
    /\ syns \in 0 .. MaxSyns
    /\ flow \in Flows \cup {NoFlow}
    /\ judged \in [Arms -> [flow : Flows \cup {NoFlow}, syns : 0 .. MaxSyns,
                            rounds : 0 .. Rounds]]
    /\ status \in [Arms -> {"none", "pass", "fail"}]

\* RUN_DIR may hold an earlier run's files.
Init ==
    /\ script = "build"
    /\ arm = "camouflage"
    /\ files \in SUBSET {"a.addr", "done"}
    /\ capture = "off"
    /\ server = "off"
    /\ client = "off"
    /\ round = 0
    /\ syns = 0
    /\ flow = NoFlow
    /\ judged = [a \in Arms |-> [flow |-> NoFlow, syns |-> 0, rounds |-> 0]]
    /\ status = [a \in Arms |-> "none"]

-----------------------------------------------------------------------------
\* tcpdump.
CaptureStarts ==
    /\ capture = "starting"
    /\ capture' \in {"on", "lost"}
    /\ UNCHANGED <<script, arm, files, server, client, round, syns, flow, judged, status>>

CaptureDies ==
    /\ capture = "on"
    /\ capture' = "lost"
    /\ UNCHANGED <<script, arm, files, server, client, round, syns, flow, judged, status>>

-----------------------------------------------------------------------------
\* Node A.
serverRest == <<script, arm, capture, client, round, syns, flow, judged, status>>

ServerUp ==
    /\ server = "boot"
    /\ \/ server' = "up" /\ files' = files \cup {"a.addr"}
       \/ server' = "failed" /\ UNCHANGED files
    /\ UNCHANGED serverRest

\* serve ends when the done file is there.
ServerLeaves ==
    /\ server = "up"
    /\ "done" \in files
    /\ server' = "left"
    /\ UNCHANGED <<files, serverRest>>

\* The timeout of the whole process, or a crash.
ServerFails ==
    /\ server = "up"
    /\ server' = "failed"
    /\ UNCHANGED <<files, serverRest>>

-----------------------------------------------------------------------------
\* Node B.
clientRest == <<script, arm, files, capture, server, flow, judged, status>>

\* h.Connect: one SYN or more, if the server is up a connection.
Connect ==
    /\ client = "connect"
    /\ syns' \in IF capture = "on"
                 THEN {s \in syns + 1 .. syns + 2 : s <= MaxSyns} \cup {MaxSyns}
                 ELSE {syns}
    /\ client' \in IF server = "up" THEN {"use", "failed"} ELSE {"failed"}
    /\ UNCHANGED <<round, clientRest>>

\* Ping, a reservation in the first round, the transfer.
Use ==
    /\ client = "use"
    /\ server = "up"
    /\ client' = "close"
    /\ UNCHANGED <<round, syns, clientRest>>

\* Fault: the loop makes one round too many.
CloseRoundOff ==
    /\ client = "close"
    /\ round' = round + 1
    /\ client' = IF round < Rounds THEN "connect" ELSE "ok"
    /\ UNCHANGED <<syns, clientRest>>

\* ClosePeer, then the next round.
CloseRound ==
    /\ client = "close"
    /\ round' = round + 1
    /\ client' = IF round' < Rounds THEN "connect" ELSE "ok"
    /\ UNCHANGED <<syns, clientRest>>

\* Fault: the transfer's stream has no deadline.
ClientFailsConnecting ==
    /\ client \in {"connect", "close"}
    /\ client' = "failed"
    /\ UNCHANGED <<round, syns, clientRest>>

\* An error of any call, the round's 45 seconds, the whole timeout.
ClientFails ==
    /\ client \in {"connect", "use", "close"}
    /\ client' = "failed"
    /\ UNCHANGED <<round, syns, clientRest>>

-----------------------------------------------------------------------------
\* The script.
Stopped(s) == IF s \in {"boot", "up"} THEN "failed" ELSE s

\* die, and the trap's cleanup.
Die ==
    /\ script' = "die"
    /\ server' = Stopped(server)
    /\ capture' = "off"
    /\ UNCHANGED <<arm, files, client, round, syns, flow, judged, status>>

Build ==
    /\ script = "build"
    /\ \/ /\ script' = "arm"
          /\ files' = {}
          /\ UNCHANGED <<arm, capture, server, client, round, syns, flow, judged, status>>
       \/ Die

StartArmWith(left) ==
    /\ script = "arm"
    /\ script' = "capture"
    /\ files' = left
    /\ capture' = "starting"
    /\ server' = "off"
    /\ client' = "off"
    /\ round' = 0
    /\ syns' = 0
    /\ flow' = NoFlow
    /\ UNCHANGED <<arm, judged, status>>

\* Fault: the arm before has left its done file.
StartArmKeeping == StartArmWith(files \ {"a.addr"})

StartArm == StartArmWith({})

\* "listening on" is in tcpdump's log, and stays there when tcpdump has gone.
StartServer ==
    /\ script = "capture"
    /\ \/ /\ capture \in {"on", "lost"}
          /\ script' = "server"
          /\ server' = "boot"
          /\ UNCHANGED <<arm, files, capture, client, round, syns, flow, judged, status>>
       \/ capture \in {"starting", "lost"} /\ Die

StartClient ==
    /\ script = "server"
    /\ \/ /\ "a.addr" \in files
          /\ script' = "dial"
          /\ client' = "connect"
          /\ UNCHANGED <<arm, files, capture, server, round, syns, flow, judged, status>>
       \/ "a.addr" \notin files /\ Die

TouchDone ==
    /\ script = "dial"
    /\ client \in {"ok", "failed"}
    /\ script' = "waitServer"
    /\ files' = files \cup {"done"}
    /\ UNCHANGED <<arm, capture, server, client, round, syns, flow, judged, status>>

\* Fault: dial's exit code is not looked at.
StopCaptureRegardless ==
    /\ script = "waitServer"
    /\ server \in {"left", "failed"}
    /\ script' = "ndpi"
    /\ capture' = "off"
    /\ UNCHANGED <<arm, files, server, client, round, syns, flow, judged, status>>

\* The server's exit code is ignored, as tcpdump's is; dial's is not.
StopCapture ==
    /\ script = "waitServer"
    /\ server \in {"left", "failed"}
    /\ \/ /\ client = "ok"
          /\ script' = "ndpi"
          /\ capture' = "off"
          /\ UNCHANGED <<arm, files, server, client, round, syns, flow, judged, status>>
       \/ client = "failed" /\ Die

\* ndpiReader fails, or says something of the flow if the capture has one.
NDPI ==
    /\ script = "ndpi"
    /\ \/ /\ flow' \in IF syns = 0 THEN {NoFlow} ELSE Flows
          /\ script' = "verify"
          /\ UNCHANGED <<arm, files, capture, server, client, round, syns, judged, status>>
       \/ Die

\* Fault: a risk that is in neither table is let through.
DistinguishableKnown ==
    \/ flow = NoFlow
    \/ syns < Rounds
    \/ ~flow.tls \/ ~flow.byDPI \/ "tell" \in flow.risks
    \/ ~flow.browser

\* runVerify has a finding.
Distinguishable ==
    \/ flow = NoFlow
    \/ syns < Rounds
    \/ ~flow.tls \/ ~flow.byDPI \/ {"tell", "untriaged"} \cap flow.risks # {}
    \/ ~flow.browser

\* report: the control arm wants a finding.
ArmPasses == Distinguishable = (arm = "plain")

\* verify fails if it cannot read or parse nDPI's output.
Verify ==
    /\ script = "verify"
    /\ status' \in {[status EXCEPT ![arm] = "fail"],
                    [status EXCEPT ![arm] = IF ArmPasses THEN "pass" ELSE "fail"]}
    /\ judged' = [judged EXCEPT ![arm] = [flow |-> flow, syns |-> syns, rounds |-> round]]
    /\ arm' = "plain"
    /\ script' = IF arm = "camouflage" THEN "arm" ELSE "report"
    /\ UNCHANGED <<files, capture, server, client, round, syns, flow>>

Report ==
    /\ script = "report"
    /\ script' = IF \A a \in Arms : status[a] = "pass" THEN "pass" ELSE "die"
    /\ UNCHANGED <<arm, files, capture, server, client, round, syns, flow, judged, status>>

-----------------------------------------------------------------------------
Server == ServerUp \/ ServerLeaves \/ ServerFails

Client == Connect \/ Use \/ CloseRound \/ ClientFails

Script ==
    \/ Build \/ StartArm \/ StartServer \/ StartClient \/ TouchDone
    \/ StopCapture \/ NDPI \/ Verify \/ Report

Terminated == script \in {"pass", "die"} /\ UNCHANGED vars

Next == CaptureStarts \/ CaptureDies \/ Server \/ Client \/ Script \/ Terminated

Spec == Init /\ [][Next]_vars

\* The processes run and their timeouts expire.
FairSpec == Spec /\ WF_vars(Script) /\ WF_vars(Server) /\ WF_vars(Client)

-----------------------------------------------------------------------------
\* "TRAFFIC MASKING VERIFIED" is said only if nDPI saw the camouflaged flow, as
\* TLS by its payload, from a browser, with no risk outside the allowed table:
\* a capture that was lost does not make the camouflage arm green.
MaskingVerified ==
    script = "pass" =>
        LET seen == judged["camouflage"].flow
        IN  /\ seen # NoFlow
            /\ seen.tls /\ seen.byDPI /\ seen.browser
            /\ seen.risks \subseteq {"deployment"}

\* Behind a green run each arm has completed all its rounds: SYNs alone do not
\* tell, since one that is sent twice counts twice, and neither does node A.
RoundsReal ==
    script = "pass" =>
        /\ \A a \in Arms : judged[a].rounds = Rounds
        /\ judged["camouflage"].syns >= Rounds

\* Node A leaves of its own accord only when node B has ended, whatever files the
\* other arm or an earlier run has left.
ServerOutlives == server = "left" => client \in {"ok", "failed"}

\* The lab comes to a verdict although capture, nodes and nDPI may fail.
LabEnds == <>(script \in {"pass", "die"})

\* "The control arm has to *not* look like browsing, otherwise the checks above
\* are not measuring anything" (verify.go, report): in a green run the checks
\* have been tried on a flow of the control arm.
ControlMeasures == script = "pass" => judged["plain"].flow # NoFlow
=============================================================================
