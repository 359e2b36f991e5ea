------------------------------- MODULE Natlab -------------------------------
(***************************************************************************)
(* The hole-punch lab: topology.sh starts a relay and two peers behind      *)
(* their NATs (natlab/main.go), and reads a verdict from their logs and     *)
(* from one exit code.  The peers meet through two files: B publishes its   *)
(* circuit address in b.addr, A reports the end of its checks in a.done.    *)
(*                                                                         *)
(* An action is what a process does between two points where it can wait,   *)
(* fail or be overtaken.  The relay, the NATs and DCUtR are the             *)
(* environment: a punch may succeed or not while the circuit stands, each   *)
(* side's tracer reports by itself, and every wait ends by its timeout.     *)
(* RUN_DIR may hold the files of an earlier run.                            *)
(***************************************************************************)

VARIABLES
    script,   \* where topology.sh stands
    relay,    \* the relay process
    pc,       \* where each peer's runPeer stands
    rc,       \* what runPeer returned, and so the exit code
    log,      \* what each peer has reported
    files,    \* the files in RUN_DIR
    circuit,  \* the relayed connection is open
    direct    \* the punched connection

vars == <<script, relay, pc, rc, log, files, circuit, direct>>

Peers == {"a", "b"}
Other(p) == IF p = "a" THEN "b" ELSE "a"

Running == {"boot", "reserve", "dcutr", "rendezvous", "circuit", "direct",
            "ping", "confirm"}
Hosting == Running \ {"boot"}
Files == {"b.addr", "a.done"}
Events == {"reservation", "circuit_connected", "punched", "missed",
           "direct_conn", "ping_ok", "PASS", "FAIL"}

TypeOK ==
    /\ script \in {"build", "relay", "awaitRelay", "awaitAddr", "control",
                   "waitA", "pollB", "pass", "die"}
    /\ relay \in {"off", "starting", "up", "down", "failed"}
    /\ pc \in [Peers -> {"off", "closing", "exited", "killed"} \cup Running]
    /\ rc \in [Peers -> {"none", "ok", "fail"}]
    /\ \A p \in Peers : (rc[p] = "none") = (pc[p] \in Running \cup {"off", "killed"})
    /\ log \in [Peers -> SUBSET Events]
    /\ files \subseteq Files
    /\ circuit \in BOOLEAN
    /\ direct \in {"none", "open", "closed"}

Init ==
    /\ script = "build"
    /\ relay = "off"
    /\ pc = [p \in Peers |-> "off"]
    /\ rc = [p \in Peers |-> "none"]
    /\ log = [p \in Peers |-> {}]
    /\ files \in SUBSET Files
    /\ circuit = FALSE
    /\ direct = "none"

-----------------------------------------------------------------------------
\* The relay.
relayVars == <<script, pc, rc, log, files, direct>>

RelayStarts ==
    /\ relay = "starting"
    /\ relay' \in {"up", "failed"}
    /\ UNCHANGED <<circuit, relayVars>>

\* The relay's own timeout: it started first, so it is the first to go.
RelayEnds ==
    /\ relay = "up"
    /\ relay' = "down"
    /\ circuit' = FALSE
    /\ UNCHANGED relayVars

-----------------------------------------------------------------------------
\* A peer.  Each step reports, then waits for the next thing.
Go(p, from, to, events) ==
    /\ pc[p] = from
    /\ pc' = [pc EXCEPT ![p] = to]
    /\ log' = [log EXCEPT ![p] = @ \cup events]

ConnectRelay(p) ==
    /\ relay = "up"
    /\ Go(p, "boot", "reserve", {})
    /\ UNCHANGED <<script, relay, rc, files, circuit, direct>>

Reserve(p) ==
    /\ relay = "up"
    /\ Go(p, "reserve", "dcutr", {"reservation"})
    /\ UNCHANGED <<script, relay, rc, files, circuit, direct>>

\* The DCUtR handler is up; the ready file tells of the circuit address.
Publish(p) ==
    /\ Go(p, "dcutr", IF p = "a" THEN "rendezvous" ELSE "direct", {})
    /\ files' = IF p = "b" THEN files \cup {"b.addr"} ELSE files
    /\ UNCHANGED <<script, relay, rc, circuit, direct>>

Rendezvous(p) ==
    /\ "b.addr" \in files
    /\ Go(p, "rendezvous", "circuit", {})
    /\ UNCHANGED <<script, relay, rc, files, circuit, direct>>

ConnectCircuit(p) ==
    /\ relay = "up"
    /\ pc[Other(p)] \in Hosting
    /\ Go(p, "circuit", "direct", {"circuit_connected"})
    /\ circuit' = TRUE
    /\ UNCHANGED <<script, relay, rc, files, direct>>

SeeDirect(p) ==
    /\ direct = "open"
    /\ Go(p, "direct", "ping", {"direct_conn"})
    /\ UNCHANGED <<script, relay, rc, files, circuit, direct>>

Ping(p) ==
    /\ direct = "open"
    /\ Go(p, "ping", "confirm", {"ping_ok", "PASS"})
    /\ UNCHANGED <<script, relay, rc, files, circuit, direct>>

\* A tells that it is done and returns; B waits to be told.
Confirm(p) ==
    /\ p = "a" \/ "a.done" \in files
    /\ Go(p, "confirm", "closing", {})
    /\ files' = files \cup {"a.done"}
    /\ rc' = [rc EXCEPT ![p] = "ok"]
    /\ UNCHANGED <<script, relay, circuit, direct>>

\* Fault: waitDirectConn polls on when its context is done.
FailNotDirect(p) ==
    /\ pc[p] \in Running \ {"direct"}
    /\ pc' = [pc EXCEPT ![p] = "closing"]
    /\ rc' = [rc EXCEPT ![p] = "fail"]
    /\ UNCHANGED <<script, relay, log, files, circuit, direct>>

\* Fault: the error is reported and the exit code stays zero.
FailExitsZero(p) ==
    /\ pc[p] \in Running
    /\ pc' = [pc EXCEPT ![p] = "closing"]
    /\ rc' = [rc EXCEPT ![p] = "ok"]
    /\ log' = [log EXCEPT ![p] = @ \cup {"FAIL"}]
    /\ UNCHANGED <<script, relay, files, circuit, direct>>

\* A call fails or the context of the whole run expires.
Fail(p) ==
    /\ pc[p] \in Running
    /\ pc' = [pc EXCEPT ![p] = "closing"]
    /\ rc' = [rc EXCEPT ![p] = "fail"]
    /\ UNCHANGED <<script, relay, log, files, circuit, direct>>

Hangs(d) == IF d = "open" THEN "closed" ELSE d

\* Fault: a process exits without having decided.
ExitForgetting(p) ==
    /\ Go(p, "closing", "exited", {})
    /\ rc' = [rc EXCEPT ![p] = "none"]
    /\ circuit' = FALSE
    /\ direct' = Hangs(direct)
    /\ UNCHANGED <<script, relay, files>>

\* The deferred h.Close takes both connections down; only then is FAIL reported.
Exit(p) ==
    /\ Go(p, "closing", "exited", IF rc[p] = "fail" THEN {"FAIL"} ELSE {})
    /\ circuit' = FALSE
    /\ direct' = Hangs(direct)
    /\ UNCHANGED <<script, relay, rc, files>>

Peer(p) ==
    \/ ConnectRelay(p) \/ Reserve(p) \/ Publish(p) \/ Rendezvous(p)
    \/ ConnectCircuit(p) \/ SeeDirect(p) \/ Ping(p) \/ Confirm(p)
    \/ Fail(p) \/ Exit(p)

-----------------------------------------------------------------------------
\* DCUtR, coordinated over the circuit.
Punch ==
    /\ circuit
    /\ direct = "none"
    /\ direct' = "open"
    /\ UNCHANGED <<script, relay, pc, rc, log, files, circuit>>

\* EndHolePunch at one side: it may miss a connection the other side has made.
Trace(p) ==
    /\ pc[p] \in Hosting
    /\ "circuit_connected" \in log["a"]
    /\ \E outcome \in IF direct = "none" THEN {"missed"} ELSE {"missed", "punched"} :
          /\ outcome \notin log[p]
          /\ log' = [log EXCEPT ![p] = @ \cup {outcome}]
    /\ UNCHANGED <<script, relay, pc, rc, files, circuit, direct>>

-----------------------------------------------------------------------------
\* The script.  Its end kills what still runs.
nodeVars == <<rc, log, circuit>>

End(verdict) ==
    /\ script' = verdict
    /\ relay' = IF relay = "off" THEN "off" ELSE "down"
    /\ pc' = [p \in Peers |->
                IF pc[p] \in {"off", "exited"} THEN pc[p] ELSE "killed"]
    /\ rc' = [p \in Peers |-> IF pc'[p] = "exited" THEN rc[p] ELSE "none"]
    /\ circuit' = FALSE
    /\ direct' = Hangs(direct)
    /\ UNCHANGED <<log, files>>

Continue(next) ==
    /\ script' = next
    /\ UNCHANGED nodeVars

\* Fault: the files of an earlier run stay.
CleanSkipped ==
    /\ script = "build"
    /\ \/ Continue("relay") /\ UNCHANGED <<relay, pc, files, direct>>
       \/ End("die")

\* The topology is built, old files are removed, the relay answers a ping.
Clean ==
    /\ script = "build"
    /\ \/ Continue("relay") /\ files' = {} /\ UNCHANGED <<relay, pc, direct>>
       \/ End("die")

StartRelay ==
    /\ script = "relay"
    /\ Continue("awaitRelay")
    /\ relay' = "starting"
    /\ UNCHANGED <<pc, files, direct>>

\* relay_up is in the log, and stays there when the relay has gone.
StartB ==
    /\ script = "awaitRelay"
    /\ \/ /\ relay \in {"up", "down"}
          /\ Continue("awaitAddr")
          /\ pc' = [pc EXCEPT !["b"] = "boot"]
          /\ UNCHANGED <<relay, files, direct>>
       \/ relay \in {"starting", "failed"} /\ End("die")

AwaitAddr ==
    /\ script = "awaitAddr"
    /\ \/ "b.addr" \in files /\ Continue("control") /\ UNCHANGED <<relay, pc, files, direct>>
       \/ "b.addr" \notin files /\ End("die")

\* The plain dial of B must fail before A is started.
StartA ==
    /\ script = "control"
    /\ \/ /\ Continue("waitA")
          /\ pc' = [pc EXCEPT !["a"] = "boot"]
          /\ UNCHANGED <<relay, files, direct>>
       \/ End("die")

WaitA ==
    /\ script = "waitA"
    /\ pc["a"] = "exited"
    /\ Continue("pollB")
    /\ UNCHANGED <<relay, pc, files, direct>>

\* The eight checks.
Verified ==
    /\ "reservation" \in log["b"]
    /\ "circuit_connected" \in log["a"]
    /\ \E p \in Peers : "punched" \in log[p]
    /\ \A p \in Peers : "direct_conn" \in log[p]
    /\ "ping_ok" \in log["a"]
    /\ rc["a"] = "ok"
    /\ "PASS" \in log["b"]

\* Twenty seconds at most are left to B; the logs are read as they are then.
Verdict ==
    /\ script = "pollB"
    /\ End(IF Verified THEN "pass" ELSE "die")

Script ==
    \/ Clean \/ StartRelay \/ StartB \/ AwaitAddr \/ StartA \/ WaitA \/ Verdict

Terminated == script \in {"pass", "die"} /\ UNCHANGED vars

Next ==
    \/ RelayStarts \/ RelayEnds
    \/ \E p \in Peers : Peer(p) \/ Trace(p)
    \/ Punch \/ Script \/ Terminated

Spec == Init /\ [][Next]_vars

\* The processes run and their contexts expire; no punch need ever happen.
FairSpec == Spec /\ WF_vars(Script) /\ \A p \in Peers : WF_vars(Peer(p))

-----------------------------------------------------------------------------
\* B closes its end with success only after A has passed, so the acceptor never
\* takes the punched connection from a dialer that still verifies it, whatever
\* files an earlier run has left.
AcceptorOutlives ==
    pc["b"] = "exited" /\ rc["b"] = "ok" => "PASS" \in log["a"]

\* A green verdict, drawn from greps and one exit code, means that both peers
\* have pinged over the punched connection and that A reported no failure.
VerdictSound ==
    script = "pass" =>
        /\ \A p \in Peers : {"direct_conn", "ping_ok", "PASS"} \subseteq log[p]
        /\ "FAIL" \notin log["a"]

\* The lab comes to a verdict although the relay, a peer or DCUtR may fail at
\* any point.
LabEnds == <>(script \in {"pass", "die"})

\* "Whoever finishes first must not tear the punched connection down under the
\* other peer" (natlab/main.go:246): a peer that has returned with success has
\* left behind a peer that has passed too, or had failed by itself.
FinisherSparesPeer ==
    \A p \in Peers : pc[p] = "exited" /\ rc[p] = "ok" =>
        "PASS" \in log[Other(p)] \/ rc[Other(p)] = "fail" \/ pc[Other(p)] = "killed"
=============================================================================
