# A model of libp2p-camouflage-transport

TLA+ models of the camouflage transport (a libp2p transport that wraps TCP in a
real TLS tunnel and cuts its first bytes into segments) and of the two labs that
test it, with TLC runs on small instances and TLAPS proofs for every instance.
Every module names the code it stands for; `PROJECT.json` maps each definition to
its lines under `src/`.

## 1. The system

| Component | Code | State it keeps | Operations |
|---|---|---|---|
| Transport and options | `camouflage.go` 46-222, `tls-camouflage.go` 84-111, 247-400 | settings, the TLS configuration with its certificate, the resource manager | the `With*` options, `NewCamouflageTransport`, `BuildCamouflageConfig` |
| Outbound dialling | `camouflage.go` 225-324 | per dial: resource-manager scope, TCP socket; the caller's update channel | `Dial`, `DialWithUpdates`, `dialRaw`, `upgradeDialed` |
| Inbound listener | `camouflage.go` 376-511 | context, WaitGroup, queue of 64 slots, unbuffered `connChan`; one `run` goroutine and one goroutine per handshake | `run`, `dispatch`, `handshake`, `Accept`, `Close` |
| `SpoofConn` | `dpi-spoof.go` | `bytesWritten`, configuration | `Write` in three ways (split at the name, fragments, passthrough) |
| TLS handshake | `tls-camouflage.go` 112-232 | deadline on the socket, TLS state | `NewCamouflageConn`, `clientTLSHandshake`, `serverTLSHandshake` |
| NAT lab | `natlab/main.go`, `natlab/topology.sh` | three processes, their logs and exit codes, two files, a relayed and a punched connection | `runRelay`, `runPeer`, the script's waits and verdict |
| DPI lab | `dpilab/` | two nodes, a capture, verdict tables | `serve`, `dial`, `runVerify`, `lab.sh` |

How they interact. A dial opens a scope with the resource manager, connects,
offers one progress update, wraps the socket in `SpoofConn`, runs the TLS
handshake over it as client and hands the tunnel to the libp2p upgrader (PSK,
Noise, multiplexer). The listener takes connections from an inner libp2p listener,
does the same as server in a goroutine of its own, and offers the result to the
upgrader's accept loop. A hole punch joins two dials into one TCP connection; the
DCUtR context says which of them plays the server. The NAT lab runs all of this
across two NATs; the DPI lab runs it, and stock TCP as a control, past a capture that
nDPI and `verify.go` judge.

What is hard. The listener: `Close`, `Accept`, `run` and the handshake goroutines
interleave freely over two channels, a WaitGroup and a context. `SpoofConn`:
counting bytes across short writes, errors and the end of the handshake phase. The
handshake: two ends whose roles come from two places, and a deadline that must end
what waits and spare what is done. Dialling: six steps that can fail, each with
something to give back. Options: the same name
reaches `SpoofConn` and TLS by different ways, and must be the same bytes at the end.
The labs: processes with clocks of their own which meet through files and are judged by
`grep` or by what a capture holds, if it was not lost. `PROJECT.json` lists the hazards at
their lines, with the properties that cover them.

What makes each correct:

- listener: each accepted connection is handed to a caller of `Accept` or has its
  scope released once and its socket closed; at most 64 handshakes; silent peers do
  not stop honest ones; `Close` returns, and then nothing runs;
- `SpoofConn`: `io.Writer`'s promise, the name never whole in a segment, the
  handshake phase ends exactly where configured, no loop turns on the spot;
- handshake: it completes only between opposite roles, ends in any case, and hands
  on a connection that is open and free of deadlines;
- dialling: no path leaks, the scope outlives the socket, no consumer of updates can
  hold a dial up;
- settings: the last valid option counts, and what it leaves is what wrapper and hello
  are made from: the name in the ClientHello is cut;
- NAT lab: a green verdict means what it says; no peer ends the other's check;
- DPI lab: green means that the camouflaged flow was seen, in all its rounds, without a
  tell, and that the control arm measured something.

## 2. Modules

| Module | Models | Checked by | Proofs |
|---|---|---|---|
| `ListenerContract` | abstract: each connection is outside, inside, handed or dropped; the listener is open, closing or closed | as a property of `GatedListener` | `GatedListenerProofs` |
| `GatedListener` | the inbound listener | `listener_*` | `GatedListenerProofs` |
| `SpoofConn` | `SpoofConn.Write` | `spoof`, within `Transport` | `SpoofConnProofs` |
| `Settings` | options and construction | `spoof`, within `Transport`; `settings_unknown` | `TransportProofs` |
| `Transport` | `Settings` and `SpoofConn` composed, with the ClientHello that is written over them | `spoof` | `TransportProofs` |
| `HandshakeContract` | abstract: the outcome at each end and its socket, without flights | as a property of `CamouflageHandshake` | `HandshakeProofs` |
| `CamouflageHandshake` | `NewCamouflageConn` at both ends | `handshake` | `HandshakeProofs` |
| `DialContract` | abstract: scope, connection and report of a dial | as a property of `Dialer` | `DialerProofs` |
| `Dialer` | `DialWithUpdates` and what it calls | `dialer` | `DialerProofs` |
| `Natlab` | peers, relay and script of the NAT lab | `natlab`, `natlab_teardown` | `NatlabProofs` |
| `Dpilab` | nodes, capture, verdict and script of the DPI lab | `dpilab`, `dpilab_control` | `DpilabProofs` |

`MC*` modules give the constants their values. Operators marked *Fault* are
plausible bugs; no specification uses them. `PROJECT.json` pairs each with the
definition it replaces and the property that then fails.

### GatedListener

One element of `Conns` is one inbound connection and `pc[c]` is where the code that
holds it stands: in `run` (`dispatch`), in its goroutine (`handshake`, `offer`,
`finish`, `slot`), in `discard` (`discard`, `close`), or nowhere. `queue` and `wg`
are the channel of slots and the WaitGroup as integers; `doneCalls` and `openSock`
are the scope and the socket. Actions follow the points where the code can be
overtaken: `DispatchSpawns` and `DispatchDrops` are the two arms of the select in
`dispatch`, `Deliver` and `OfferDrops` those of the select at the end of
`handshake`, `AcceptClosed` the second arm in `Accept`; `discard` is two steps (scope, then
socket) and the three deferred calls of the goroutine are two (`WgDone`, then
`ReleaseSlot`). `Close` is three steps: cancel, close the inner listener, wait.
`NewCamouflageConn` is one step that succeeds, or fails with the socket closed or
not; it watches no context. An inner listener that is closed resets what is in its
backlog. `ClosedErrRecognised` tells the two flavours apart: with `manet`'s
listener the closing error ends in "use of closed network connection", with the
shared TCP manager's it does not.

`ListenerContract` knows nothing of goroutines, slots or channels. `RefinesContract`
reads its state off the resources: a connection is dropped when its scope is
released and its socket closed, wherever the code stands, and the phase is closed
when some `Close` has returned.

### SpoofConn

A buffer is a length and the offset at which the name first occurs. One step is one
round of a loop: the underlying connection takes any prefix of the bytes offered,
with or without an error. `bytesWritten` is the code's counter and `streamed` the
truth. `delays` counts the random delays drawn (how long one lasts is left out); both
loops of `fragmentedWrite` are the action `Fragment`, of which the fragment loop only
`Spaces` its segments. TLS
serialises its writes, so one `Write` is under way at a time.

### CamouflageHandshake

Two ends of one TCP connection, each with the `way` it came by it: accepted, dialled,
or dialled with a hint for either role. Two dials model a simultaneous open. TLS is
its flights and an alert; a flight out of place ends the handshake. With `legacy` the
version is TLS 1.2, which the server accepts and a randomized hello may ask for: there
the client is the last to finish, in TLS 1.3 the server. The
socket's deadline and the handshake's own context are equally long and one action,
`DeadlineFires`, in which the TLS library may have closed the socket. `validateALPN`
is not an action: with the configuration the transport builds, Go's server either
negotiates a protocol of the list, none, or fails the handshake itself, so the branch
that refuses cannot be taken. Nor are errors of `SetDeadline` (tls-camouflage.go:159
and 175), which the code logs and ignores: a TCP socket refuses a deadline only after its
own end has closed it, and until `NewCamouflageConn` returns only the handshake's context
does that, whose end makes the handshake fail. Over another kind of connection a
deadline that could not be set would leave the context alone to end the handshake, and
one that could not be cleared would be handed on.

`HandshakeContract` is what the two callers see: each end's outcome is open, then agreed
and handed on, or failed and given up, and does not change again; ends agree only
across roles, one role only after the other; the deadline is on the socket exactly while
the outcome is open. It is what `Dialer` (`Camouflage`, `CloseRaw`) and `GatedListener`
(`HandshakeSucceeds`, `HandshakeFails`, `CloseConn`) take for granted when they make a
handshake one step. `RefinesHandshakeContract` reads its state off `pc`, `open` and
`armed`.

### Dialer

Several dials share one update channel. `Notify` is the select with its default:
a waiting consumer gets the value, else the buffer, else nobody. A failed upgrade has
closed the connection and released the scope itself, as `transport.Upgrader` does,
before `DialWithUpdates` releases it once more.

`DialContract` is what the resource manager, the operating system and the reader of
updates see of a dial. `RefinesDialContract` reads its state off scope, socket and
updates: the connection lies inside the scope on every path, and a dial is reported
once at most, while its connection stands.

### Settings

`ApplyOption` applies any option to the transport's fields, `Build` makes the
configuration from them. A certificate is the name on it. Numbers are a few of each
sign, since options look only at the sign.

### Transport

The two come together where `wrapConn` makes a `SpoofConn` from the transport's fields
and the client writes its ClientHello over it. `SpoofConn` looks for the transport's
name literally; TLS sends what SNI allows of the configuration's (`Sent`): no IP
address, no trailing dot. `ClientHello` writes a buffer with the name TLS sends at any
place, and the wrapper finds it if it is the name it looks for. `WrapDirectly` stands for
a use of the exported `NewSpoofConn` with any values. `Followed` is a bound: a
connection is followed only when the settings that do not reach the wrapper are the
defaults. Once a connection is wrapped the options given are forgotten.

### Natlab

`pc[p]` walks through `runPeer`; every wait can end by its context (`Fail`), after
which the deferred `h.Close` takes the connections down and FAIL is reported
(`Exit`). The script's loops either see what they wait for or give up. `Punch` and `Trace`
are DCUtR: it may or may not succeed while the circuit stands, and each side's tracer
reports by itself. RUN_DIR may hold an earlier run's files, which the script removes.
A's own ready file, which nobody reads, is left out.

### Dpilab

`arm` says which of the two arms is under way and `script` where `lab.sh` stands in it.
`capture` is `tcpdump`, which may never start or may die, and which the script does not
look at once its log says "listening on". `server` and `client` are the two nodes
(`serve`, and `dial` with its `Rounds` rounds of connecting, using and closing); a SYN
may be sent twice, so `syns` may run ahead of the rounds. All connections of an arm use
one 5-tuple, so nDPI makes one flow of them; what it says of it is any of `Flows`.
`Distinguishable` is the list of findings of `runVerify`, `ArmPasses` is `report`.
`judged` remembers on what each arm's verdict rested.

## 3. Runs

| Run | Instance | Shows |
|---|---|---|
| `listener_safety` | 3 connections, 2 slots, 1 caller of `Accept`, 2 of `Close` | custody, slot bound, legal use of the WaitGroup, quiet after `Close`, refinement of the contract, and that the invariant of the proofs holds |
| `listener_live` | 2 connections for 1 slot, 2 callers of `Close` | every `Close` returns and every connection leaves the listener though nobody need call `Accept` |
| `listener_tarpit` | 3 connections, one silent for ever, 2 slots, no deadline fires, the flavour that is not recognised | the honest ones get through |
| `listener_shared_close` | 2 connections, the flavour that is not recognised | a violation: `Close` waits for ever (finding 1) |
| `spoof` | up to 3 options over 5 names and 4 numbers, or any wrapper of 144 configurations; buffers up to 6 bytes in a stream of 9 | last valid option counts; byte accounting, splitting, fragments, delays; the name of the hello is cut |
| `settings_unknown` | up to 3 options | a violation: an unknown browser gets a random hello (finding 2) |
| `handshake` | two ends, all admissible pairs of ways, TLS 1.3 and 1.2, a network that may break | pairing of roles, no wait without a cause but between two servers, termination, completion of ends that are well met, refinement of the contract |
| `dialer` | 3 dials, 2 of them on a channel of one place | no leak, scope around socket, true updates, dials return, refinement of the contract |
| `natlab` | the lab | verdict sound, acceptor waits, the lab ends |
| `natlab_teardown` | the lab | a violation: the dialer does not wait (finding 3) |
| `dpilab` | both arms, 2 rounds | what a green run vouches for, node A waits for node B, the lab ends |
| `dpilab_control` | the same | a violation: the control arm passes on a capture without a flow (finding 4) |

Why the bounds are enough. In the listener the interesting cases are a full queue
with one more connection in `dispatch` (3 connections, 2 slots; 2 and 1), two calls of
`Close` in different phases, and an `Accept` that races both; the proofs remove the
bound for safety. In `SpoofConn` six bytes hold a name of three with bytes on both
sides, the handshake ends after 1 or 5, inside a buffer and inside a fragment, and
a stream of 9 allows a second call on either side of it. Three dials on a channel of one
place include a full channel, a waiting consumer and a dial without a channel. Three
options include a valid one overwritten and an invalid one between two valid ones. The five
names of `spoof` are the default and another one, both sent as they are, one TLS
shortens, one it leaves out and none.
Two rounds of the DPI lab are a first, which takes the reservation, and a last; SYNs are
counted up to `MaxSyns`, one more than the verdict looks for.
The handshake and the NAT lab have no bound: the code's own numbers are in the models,
so TLC's run of `Natlab`, which has no constants, is exhaustive.
`Terminated` and its like are stutters in states where the system may really stop, so
deadlock is checked everywhere.

Fairness. Liveness assumes that goroutines and processes that can run do run: weak
fairness of each goroutine's own steps. `listener_live` adds that a handshake ends
(its deadline is set before it starts and its context has the same length) and that the
timer of `acceptTimeout` fires; nobody is assumed to call `Accept`.
`listener_tarpit` assumes callers of `Accept` that keep calling, as the upgrader's
loop does, and no timer at all. `handshake` assumes deadlines fire; that only two servers
need one is a safety property, and ends that are well met complete unless a
deadline did fire. In `dialer` the calls a dial makes return (each has a timeout), and
the consumer owes nothing. In `natlab` processes run and the contexts given to them
expire; neither the relay nor DCUtR owes anything. In `dpilab` the script and the two
nodes run and their timeouts expire; `tcpdump` owes nothing.

## 4. Findings

1. `run` stops only on an error that ends in "use of closed network connection"
   (camouflage.go:427). The shared TCP manager's listener answers
   `transport.ErrListenerClosed`; `run` takes it for transient and calls `Accept`
   without pause, and `Close` never returns from `wg.Wait`. Where a PSK is set, as in
   Warpnet, libp2p gives the transport no shared manager, so only hosts without a PSK
   meet this flavour.
2. An empty or unknown browser name is documented to fall back to Chrome; it gets a
   random ClientHello.
3. natlab: the dialer leaves as soon as it has passed and takes the punched connection
   with it, although the comment above says whoever finishes first must not.
4. dpilab: the control arm must "not look like browsing, otherwise the checks above are
   not measuring anything", and passes on any finding. A capture that holds no flow is a
   finding, and nobody looks at what became of `tcpdump`, so a control arm on which
   nothing was measured is green. The camouflage arm does not have this fault
   (`MaskingVerified`).

Smaller things read off the code while modelling: topology.sh:223 accepts a
successful punch traced on one side, where natlab/README.md asks for both; `discard`
releases the scope before it closes the socket, dialling does the reverse; the
certificate cache is new for each configuration and so never hits; with a server name
set, which is the default, the fragment size has no effect (dpi-spoof.go:80), though
`WithFragmentSize` (camouflage.go:71) does not say so; a server name that is an IP
address or ends in a dot is not found by `SpoofConn`, since TLS sends it otherwise, and
the hello then goes out unsplit (`HelloSplit` excludes such names, and says so).

## 5. Proofs

`GatedListenerProofs`, for any set of connections and of callers, any queue size
above zero and either flavour:

- `Invariance`: `IInv` is inductive. The properties are not by themselves. `Counters`
  ties the two integers to the sets of goroutines they count (`wg` is one for `run`
  plus those that have not called `wg.Done`, `queue` is those that have not taken their
  token back); `Placement` says who may stand where, above all that `run` holds at most
  one connection without a goroutine and is then in `dispatch`; `Custody` gives scope
  and socket at every point; `CloseProgress` what is closed at each step of `Close`.
- From it: `TypeCorrect` (counters never negative), `NoLeakEver`,
  `HandshakesAreBounded`, `QuietAfterCloseEver` (`wg = 0` means `run` has returned and
  no goroutine is active), `NoAddAfterZeroEver` (`wg.Add` happens only while `run`
  still holds its own count).
- `Refinement`: every step is a step of `ListenerContract` or a stutter.
- What safety can say of progress. `CloseIsNeverStuck`: a `Close` that waits while the
  count is positive waits for `run`, which can return, or for a goroutine whose next step
  needs nobody else; the invariant adds that `run` in `dispatch` has a connection in its
  hands (`RunHolds`). `CloseIsBounded`: once the inner listener is closed, `Debt`, the
  connections in the listener's hands with the stages each has left, is finite, no step
  of anybody adds to it and every step of `run` or a goroutine on a connection takes from
  it. Together with the fairness of the goroutines these two are the argument for
  `CloseTerminates`. `InboundIsNeverStuck`: while silent peers leave a slot, a connection
  in the backlog or in `run`'s hands has somebody before it who can go on with no
  deadline's and no silent peer's help, which is what `HonestServed` rests on (lemma
  `SilentNeverFill`: a full queue then holds an honest connection).
  The guards in `CanGoOn` and `RunCanReturn` are those of the actions they
  name.

`SpoofConnProofs`, for any set of configurations, including non-positive fragment
sizes and handshake lengths, and any bounds on buffers and stream:
`TypeCorrect`, `HandshakeCounted`, `CallsAreReported`, `NameIsNeverWhole` (lemma
`CutInside`: the cut of a name of two bytes or more falls strictly inside it),
`HandshakeIsFragmented`, `RoundsMove`, `DelaysAreBounded`. The invariant relates
position, totals and stream in each mode, and the end of the slice under way to the cut.
For the delays it keeps a budget: the one delay of a split is paid for by the bytes of
its first slice, in a call that began within the handshake.

`TransportProofs`, for any names, amounts, lengths and number of options: all nine
properties of the run `spoof`. The invariant `TInv` keeps, while there is no connection,
that for each kind the last valid option is what the settings hold (`LastValid`, from
which the `CHOOSE` of `LastValidWins` follows), and once there is one SpoofConn's own
`IInv`; `Hello` ties them: the name the wrapper looks for is the transport's, and a
hello under way was written where the wrapper found it. `StepOfWrapper` says that every
step is one of the wrapper's or comes before it, so `SpoofConnProofs`' lemmas about steps
carry over. `HelloIsSplit` is the end to end statement.

`DialerProofs`, for any number of dials and any capacity of the channel:
`FailedDialsLeaveNothing`, `SocketsAreCovered`, `UpdatesTell`, and `Refinement` of
`DialContract`. `Custody` says what a dial holds at each point of the code; `SentOnce`
follows an update from the channel to its reader.

`HandshakeProofs`, for any two ends: `DoneFacesDone`, `HandOverIsClean`,
`NoWaitWithoutCause`, `WellMetIsEnough`, and `Refinement` of `HandshakeContract`. The
properties speak of places, the steps of messages, so the
invariant says what a flight on its way proves of its sender (`Provenance`: only one
role sends it, in answer to one of the other role's, and the flight that lets the last
end finish is sent by one that is through) and what each place proves of both roles.
`Orderly` goes further for ends of opposite roles that nobody has disturbed: it lists the
six situations client, server and the flight between them can be in. In each the flight
under way is the one its reader waits for, so neither can fail (`WellMetIsEnough`, the
safety half of `WellMetComplete`) and never do both wait for nothing.

`DpilabProofs`, for any number of rounds: `GreenMeansMasked`, `GreenMeansRounds`,
`ServerStays`. `Counting` follows node B's rounds, `DoneIsTrue` what the done file means
to a node A that can see it, `Judged` what each verdict was given. `WaitsAreAnswered`
looks at the script's waits without a limit: when it waits for node A, the node runs or
has ended, its done file is there and node B's outcome is known.

`NatlabProofs`, for the lab as it is, whatever files it finds: `AcceptorWaits`,
`GreenIsSound`, `StepsRunOut`, `ScriptIsNeverStuck`. The verdict trusts logs, an exit code and a file; the
invariant says why it may. `Stages` ties the script's stage to whom it has started and
stopped, `Reports` each peer's place to what it has reported (success only after PASS,
FAIL only by a process that has exited with it), and `DoneIsMeant` is the step in the
argument a grep cannot see: once the old files are gone, and before that nobody runs,
`a.done` is A's word of this run. The last two are
what safety says of `LabEnds`: `StepsUseUp` orders the places of script, relay, peers and
punched connection and shows that every step of anybody moves one up or adds a report, so
that the lab cannot go on for ever, and `ScriptIsNotStuck` that until the verdict the
script has a step of its own or waits for a peer that ends by its own timeout.

The proofs assume only the named ASSUMEs of the modules, which TLC evaluates in every
run. `TransportProofs` needs two of substance: every name but the empty one has a length
above zero, and `CoverAssumption`, that `Configs` contains what options can leave.
Model-checked only: all liveness (`CloseTerminates`, `ConnSettles`, `HonestServed`,
`HandshakeEnds`, `WellMetComplete`, `DialReturns`, both `LabEnds`), which is out of the
prover's reach. The progress theorems above are as far as safety goes towards it. Every
invariant and action property of the passing runs is a theorem.

## 6. Not modelled

- Forwarding methods of `CamouflageConn` and the transport (`Read`, `CanDial`, ...),
  keep-alive and linger: single calls without state.
- TLS and X.509 themselves, the contents of hellos and certificates. Of the SNI only
  what `Sent` says: which name goes out for which.
- Time as a number: a deadline may fire at any point where something waits. Random
  delays are counted, not measured, so whether their sum fits in the handshake timeout
  is open; `DelayBudget` bounds their number.
- `serverTLSHandshake`'s refusal of a protocol (`errALPNMismatch`): with the
  configuration the transport builds the branch cannot be taken.
- What nDPI does with a capture, and the tables of risks beyond their three kinds.
- The libp2p host options of the labs, images, CI.

## 7. Plan

Done: `ListenerContract`, `GatedListener` and its proofs first, since the accept side
is where most of the concurrency is; then `SpoofConn` with proofs,
`CamouflageHandshake`, `Dialer`, `Settings`, `Natlab`; then `Dpilab`, `DialContract`,
TLS 1.2, the delays, `Transport`, `HandshakeContract`, and proofs for all of these.

Left:

1. `GatedListener` and `Dialer` composed over one network through
   `CamouflageHandshake`, in place of the handshake as one step: a dial and the
   accepted connection settle the same way or both end.
2. `Natlab` with parameters (more peers, several punches), should the lab get them.
