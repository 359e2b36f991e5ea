--------------------------- MODULE SpoofConnProofs ---------------------------
(***************************************************************************)
(* Proofs about SpoofConn, for every configuration, buffer and behaviour of *)
(* the underlying connection.                                               *)
(***************************************************************************)
EXTENDS SpoofConn, TLAPS

\* What the provers are told of a configuration.
LEMMA ConfTypes ==
    ASSUME TypeOK
    PROVE  /\ conf.sniLen \in Nat /\ conf.fragmentSize \in Int
           /\ conf.handshakeLen \in Int /\ conf.maxDelay \in Int
           /\ FragSize \in Nat \ {0}
  BY ConfigsAssumption DEF TypeOK, FragSize

\* The cut inside a name of two bytes or more leaves a part on either side.
LEMMA CutInside ==
    ASSUME TypeOK, conf.sniLen > 1, NEW i \in Nat
    PROVE  Cut(i) \in Nat /\ i < Cut(i) /\ Cut(i) < i + conf.sniLen
<1>1. ASSUME NEW m \in Nat, m > 1
      PROVE  m \div 2 \in Nat /\ 0 < m \div 2 /\ m \div 2 < m
  BY <1>1
<1>2. QED
  BY <1>1, ConfTypes DEF Cut

\* A round of fragmentedWrite never offers more than is left.
LEMMA OfferedFits ==
    ASSUME TypeOK
    PROVE  Offered \in Int /\ Offered <= len - pos
<1>1. FragSize \in Int /\ len \in Int /\ pos \in Int
  BY ConfTypes DEF TypeOK
<1>2. QED
  BY <1>1 DEF Offered

\* Where a call in progress stands.
InCall ==
    /\ mode # "idle" => first + total = onWire /\ pos = onWire
    /\ mode = "pass" => PastHandshake /\ onWire = 0
    /\ mode = "frag" => conf.sniLen = 0 /\ pos < len
    /\ mode = "tracked" => conf.sniLen > 0 /\ pos < end /\ end <= len
    /\ mode = "tracked" /\ end # len => first = 0

\* A name that can be split is written in two slices: what is written next lies
\* on one side of the cut.
Split ==
    mode = "tracked" /\ sniAt # NoSni /\ conf.sniLen > 1 =>
        /\ sniAt + conf.sniLen <= len
        /\ \/ end = Cut(sniAt)
           \/ end = len /\ pos >= Cut(sniAt)

\* What the delays may still take: the one delay of a split is paid for by the
\* bytes of its first slice, in a call that began within the handshake.
Budget ==
    /\ delays <= bytesWritten
    /\ delays > 0 => delays <= conf.handshakeLen
    /\ mode = "tracked" /\ end # len =>
          /\ delays + onWire <= bytesWritten
          /\ bytesWritten - onWire < conf.handshakeLen

IInv ==
    /\ TypeOK
    /\ InCall
    /\ Split
    /\ Budget
    /\ CountsTheHandshake
    /\ bytesWritten <= streamed

LEMMA InitInv == Init => IInv
<1> SUFFICES ASSUME Init PROVE IInv
  OBVIOUS
<1>1. TypeOK
  BY DEF Init, Fresh, TypeOK, NoSni
<1>2. QED
  BY <1>1 DEF IInv, Init, Fresh, InCall, Split, Budget, CountsTheHandshake

LEMMA WriteStep ==
    ASSUME IInv, NEW n \in 0 .. MaxLen, NEW i \in NamePlaces(n), Write(n, i)
    PROVE  IInv'
<1>1. n \in Nat /\ (i = NoSni \/ (i \in Nat /\ i + conf.sniLen <= n))
  BY BoundsAssumption DEF NamePlaces, NoSni
<1>2. FirstSlice(n, i) \in Nat /\ FirstSlice(n, i) <= n /\ (n > 0 => FirstSlice(n, i) > 0)
  <2>1. i = NoSni \/ Cut(i) \in Int
    BY <1>1, ConfTypes DEF IInv, Cut
  <2>2. QED
    BY <1>1, <2>1 DEF FirstSlice
<1>3. PICK how \in {"pass", "tracked", "frag"} :
        /\ Begin(n, i, how)
        /\ how = "pass" => PastHandshake
        /\ how = "frag" => conf.sniLen = 0
        /\ how = "tracked" => conf.sniLen > 0
  BY DEF Write, WritePassing, WriteSplitting, WriteFragmenting
<1>4. TypeOK'
  BY <1>1, <1>2, <1>3, ConfTypes DEF IInv, TypeOK, Begin, NoSni
<1>5. InCall'
  BY <1>1, <1>2, <1>3 DEF IInv, TypeOK, Begin, InCall, PastHandshake
<1>6. Split'
  <2> SUFFICES ASSUME mode' = "tracked", i # NoSni, conf.sniLen > 1
               PROVE  i + conf.sniLen <= n /\ end' = Cut(i)
    BY <1>3 DEF Split, Begin, Cut
  <2>1. i + conf.sniLen <= n /\ i \in Nat
    BY <1>1
  <2>2. ~(Cut(i) <= 0) /\ ~(Cut(i) >= n)
    BY <2>1, <1>1, CutInside, ConfTypes DEF IInv
  <2>3. QED
    BY <1>3, <2>1, <2>2 DEF Begin, FirstSlice
<1>7. CountsTheHandshake' /\ (bytesWritten <= streamed)'
  BY <1>3 DEF IInv, CountsTheHandshake, Begin
<1>8. Budget'
  <2>1. mode' = "tracked" => ~PastHandshake
    BY <1>1 DEF Write, WritePassing, WriteSplitting, WriteFragmenting, Begin
  <2>2. delays' = delays /\ bytesWritten' = bytesWritten /\ onWire' = 0 /\ conf' = conf
    BY <1>3 DEF Begin
  <2>3. QED
    BY <2>1, <2>2, ConfTypes DEF IInv, TypeOK, Budget, PastHandshake
<1>9. QED
  BY <1>4, <1>5, <1>6, <1>7, <1>8 DEF IInv

LEMMA PassStep ==
    ASSUME IInv, NEW n \in 0 .. MaxLen, NEW err \in BOOLEAN, Pass(n, err)
    PROVE  IInv'
<1> USE BoundsAssumption, ConfTypes DEF IInv, Pass, Take, TypeOK
<1>1. TypeOK'
  OBVIOUS
<1>2. InCall' /\ Split'
  BY DEF InCall, Split
<1>3. CountsTheHandshake' /\ (bytesWritten <= streamed)' /\ Budget'
  BY DEF CountsTheHandshake, InCall, PastHandshake, Budget
<1>4. QED
  BY <1>1, <1>2, <1>3

\* The part of a round the underlying connection decides keeps its types.
LEMMA TakeTypes ==
    ASSUME TypeOK, NEW n \in 0 .. MaxLen, NEW offered, Take(n, offered)
    PROVE  /\ n \in Nat
           /\ conf' \in Configs /\ len' \in Nat /\ sniAt' \in Nat \cup {NoSni}
           /\ pos' \in Nat /\ streamed' \in Nat /\ onWire' \in Nat
           /\ seg' \in [from : Nat, to : Nat]
  BY BoundsAssumption DEF TypeOK, Take

LEMMA TrackStep ==
    ASSUME IInv, NEW n \in 0 .. MaxLen, NEW err \in BOOLEAN, Track(n, err)
    PROVE  IInv'
<1>1. TypeOK'
  <2>1. failed' \in BOOLEAN
    BY Zenon DEF IInv, Track, TypeOK
  <2>2. /\ bytesWritten' \in Nat /\ end' \in Nat
        /\ first' \in Nat /\ total' \in Nat /\ mode' \in {"idle", "tracked"}
    BY TakeTypes, SMT DEF IInv, Track, Count, SecondSlice, TypeOK
  <2>3. delays' \in Nat
    BY DEF IInv, TypeOK, Track, Pause
  <2>4. QED
    BY <2>1, <2>2, <2>3, TakeTypes DEF IInv, Track, TypeOK
<1> USE BoundsAssumption, ConfTypes
<1> USE DEF IInv, Track, Take, Count, SecondSlice
<1>2. InCall'
  <2>1. pos' = pos + n /\ onWire' = onWire + n /\ n \in Nat /\ pos + n <= end
        /\ mode' \in {"idle", "tracked"} /\ conf' = conf /\ len' = len
    BY DEF TypeOK
  <2>2. mode' = "tracked" =>
          /\ first' + total' = first + total + n
          /\ pos' < end' /\ end' <= len
    BY DEF TypeOK, InCall, Stops
  <2>3. QED
    BY <2>1, <2>2 DEF TypeOK, InCall
<1>3. Split'
  BY DEF TypeOK, InCall, Split, Cut, Stops, NoSni
<1>4. CountsTheHandshake' /\ (bytesWritten <= streamed)'
  BY DEF TypeOK, CountsTheHandshake
<1>5. Budget'
  <2>1. /\ n \in Nat /\ pos \in Nat /\ end \in Nat /\ len \in Nat
        /\ delays \in Nat /\ bytesWritten \in Nat /\ onWire \in Nat
        /\ onWire = pos /\ pos' = pos + n /\ onWire' = onWire + n
        /\ bytesWritten' = bytesWritten + n /\ conf' = conf /\ len' = len
        /\ pos < end
    BY DEF TypeOK, InCall
  <2>2. CASE delays' = delays
    <3>1. mode' = "tracked" /\ end' # len => end # len
      BY DEF TypeOK, InCall
    <3>2. QED
      BY <2>1, <2>2, <3>1 DEF Budget
  <2>3. CASE delays' = delays + 1 /\ pos' = end /\ end < len
    <3>1. ~(mode' = "tracked" /\ end' # len)
      BY <2>1, <2>3
    <3>2. delays + onWire <= bytesWritten /\ bytesWritten - onWire < conf.handshakeLen
      BY <2>1, <2>3 DEF Budget
    <3>3. QED
      BY <2>1, <2>3, <3>1, <3>2 DEF Budget
  <2>4. QED
    BY <2>2, <2>3 DEF Pause
<1>6. QED
  BY <1>1, <1>2, <1>3, <1>4, <1>5

LEMMA FragmentStep ==
    ASSUME IInv, NEW n \in 0 .. MaxLen, NEW err \in BOOLEAN, Fragment(n, err)
    PROVE  IInv'
<1>1. TypeOK'
  <2>1. failed' \in BOOLEAN
    BY Zenon DEF IInv, Fragment, TypeOK
  <2>2. /\ bytesWritten' \in Nat /\ end' \in Nat
        /\ first' \in Nat /\ total' \in Nat /\ mode' \in {"idle", "frag"}
    BY TakeTypes, SMT DEF IInv, Fragment, Count, TypeOK
  <2>3. delays' \in Nat
    BY DEF IInv, TypeOK, Fragment, Pause
  <2>4. QED
    BY <2>1, <2>2, <2>3, TakeTypes DEF IInv, Fragment, TypeOK
<1> USE BoundsAssumption, ConfTypes
<1> USE DEF IInv, Fragment, Take, Count
<1>2. InCall' /\ Split'
  BY DEF TypeOK, InCall, Split, Stops
<1>3. CountsTheHandshake' /\ (bytesWritten <= streamed)'
  BY DEF TypeOK, CountsTheHandshake
<1>4. Budget'
  BY DEF TypeOK, Budget, Pause, Spaces, Stops, StillHandshake
<1>5. QED
  BY <1>1, <1>2, <1>3, <1>4

LEMMA NextInv == IInv /\ [Next]_vars => IInv'
<1> SUFFICES ASSUME IInv, [Next]_vars PROVE IInv'
  OBVIOUS
<1>1. CASE UNCHANGED vars
  BY <1>1 DEF vars, IInv, TypeOK, InCall, Split, Budget, CountsTheHandshake,
              PastHandshake, Cut
<1>2. CASE Next
  BY <1>2, WriteStep, PassStep, TrackStep, FragmentStep DEF Next, Round
<1>3. QED
  BY <1>1, <1>2

\* IInv holds of every reachable state of the wrapper.
THEOREM Invariance == Spec => []IInv
  BY InitInv, NextInv, PTL DEF Spec

\* The wrapper's counters and offsets stay natural numbers.
THEOREM TypeCorrect == Spec => []TypeOK
<1>1. IInv => TypeOK
  BY DEF IInv
<1>2. QED
  BY <1>1, Invariance, PTL

\* bytesWritten is exact for as long as the handshake phase depends on it.
THEOREM HandshakeCounted == Spec => []CountsTheHandshake
<1>1. IInv => CountsTheHandshake
  BY DEF IInv
<1>2. QED
  BY <1>1, Invariance, PTL

\* The random delays number at most the handshake's bytes.
THEOREM DelaysAreBounded == Spec => []DelayBudget
<1>1. IInv => DelayBudget
  BY DEF IInv, Budget, DelayBudget
<1>2. QED
  BY <1>1, Invariance, PTL

-----------------------------------------------------------------------------
\* In a step that is no round of a call, no call is in progress.
LEMMA OnlyRounds ==
    ASSUME [Next]_vars, mode # "idle"
    PROVE  \/ UNCHANGED vars
           \/ \E n \in 0 .. MaxLen, err \in BOOLEAN : Round(n, err)
  BY DEF Next, Write, WritePassing, WriteSplitting, WriteFragmenting, Begin

\* The step under CallsReport: only a round ends a call.
LEMMA CallsStep ==
    IInv /\ [Next]_vars =>
    (mode # "idle" /\ mode' = "idle" =>
        /\ first' + total' = onWire'
        /\ pos' = onWire'
        /\ mode # "pass" /\ ~failed' => onWire' = len)
<1> SUFFICES ASSUME IInv, [Next]_vars, mode # "idle", mode' = "idle"
             PROVE  /\ first' + total' = onWire'
                    /\ pos' = onWire'
                    /\ mode # "pass" /\ ~failed' => onWire' = len
  OBVIOUS
<1>1. PICK n \in 0 .. MaxLen, err \in BOOLEAN : Round(n, err)
  BY OnlyRounds DEF vars
<1> USE BoundsAssumption DEF IInv, TypeOK, InCall, Take
<1>2. CASE Pass(n, err)
  BY <1>2 DEF Pass
<1>3. CASE Track(n, err)
  BY <1>3 DEF Track
<1>4. CASE Fragment(n, err)
  <2>1. n <= len - pos
    BY <1>4, OfferedFits DEF Fragment
  <2>2. QED
    BY <1>4, <2>1 DEF Fragment
<1>5. QED
  BY <1>1, <1>2, <1>3, <1>4 DEF Round

\* A call returns the number of bytes it put on the wire, a prefix of its
\* buffer, and reports an error unless that is all of it.
THEOREM CallsAreReported == Spec => CallsReport
  BY CallsStep, Invariance, PTL DEF Spec, CallsReport

\* The step under NameNeverWhole: a tracked round stays on its side of the cut.
LEMMA NameStep ==
    IInv /\ [Next]_vars =>
    (mode = "tracked" /\ sniAt # NoSni /\ conf.sniLen > 1 =>
        ~(seg'.from <= sniAt /\ sniAt + conf.sniLen <= seg'.to))
    \/ UNCHANGED vars
<1> SUFFICES ASSUME IInv, [Next]_vars, ~UNCHANGED vars, mode = "tracked",
                    sniAt # NoSni, conf.sniLen > 1
             PROVE  ~(seg'.from <= sniAt /\ sniAt + conf.sniLen <= seg'.to)
  OBVIOUS
<1>1. PICK n \in 0 .. MaxLen, err \in BOOLEAN : Track(n, err)
  BY OnlyRounds DEF Round, Pass, Fragment
<1>2. /\ seg'.from = pos /\ seg'.to = pos + n /\ n \in Nat /\ pos \in Nat
      /\ pos + n <= end /\ end \in Nat
  BY <1>1, BoundsAssumption DEF IInv, TypeOK, Track, Take
<1>3. sniAt \in Nat /\ Cut(sniAt) \in Nat /\ sniAt < Cut(sniAt) /\ Cut(sniAt) < sniAt + conf.sniLen
  BY CutInside DEF IInv, TypeOK
<1>4. end = Cut(sniAt) \/ pos >= Cut(sniAt)
  BY DEF IInv, Split
<1>5. QED
  BY <1>2, <1>3, <1>4, ConfTypes DEF IInv

\* No segment of a splitting call contains the whole name.
THEOREM NameIsNeverWhole == Spec => NameNeverWhole
  BY NameStep, Invariance, PTL DEF Spec, NameNeverWhole

\* The step under HandshakeFragmented.
LEMMA FragmentedStep ==
    IInv /\ [Next]_vars =>
    (conf.sniLen = 0 /\ streamed < conf.handshakeLen =>
        streamed' - streamed <= FragSize)
<1> SUFFICES ASSUME IInv, [Next]_vars, conf.sniLen = 0,
                    streamed < conf.handshakeLen
             PROVE  streamed' - streamed <= FragSize
  OBVIOUS
<1>1. ~PastHandshake
  BY ConfTypes DEF IInv, TypeOK, CountsTheHandshake, PastHandshake
<1>2. CASE streamed' = streamed
  BY <1>2, ConfTypes DEF IInv, TypeOK
<1>3. CASE streamed' # streamed
  <2>1. PICK n \in 0 .. MaxLen, err \in BOOLEAN : Round(n, err)
    BY <1>3 DEF Next, vars, Write, WritePassing, WriteSplitting,
                WriteFragmenting, Begin
  <2>2. Fragment(n, err)
    BY <2>1, <1>1 DEF Round, Pass, Track, IInv, InCall
  <2>3. Offered <= FragSize
    BY <1>1, ConfTypes DEF Offered, Drains, IInv, TypeOK
  <2>4. QED
    BY <2>2, <2>3, ConfTypes, BoundsAssumption DEF Fragment, Take, IInv, TypeOK, Offered
<1>4. QED
  BY <1>2, <1>3

\* Without a name, what starts within the handshake's bytes is a fragment.
THEOREM HandshakeIsFragmented == Spec => HandshakeFragmented
  BY FragmentedStep, Invariance, PTL DEF Spec, HandshakeFragmented

\* The step under RoundsMoveOn.
LEMMA RoundsStep ==
    IInv /\ [Next]_vars =>
    (mode # "idle" => mode' = "idle" \/ pos' > pos) \/ UNCHANGED vars
<1> SUFFICES ASSUME IInv, [Next]_vars, ~UNCHANGED vars, mode # "idle",
                    mode' # "idle"
             PROVE  pos' > pos
  OBVIOUS
<1>1. PICK n \in 0 .. MaxLen, err \in BOOLEAN : Round(n, err)
  BY OnlyRounds
<1>2. pos' = pos + n /\ ~Stops(n, err)
  BY <1>1 DEF Round, Pass, Track, Fragment, Take
<1>3. QED
  BY <1>2, BoundsAssumption DEF Stops, IInv, TypeOK

\* Every round moves forward or ends the call, so a call has finitely many.
THEOREM RoundsMove == Spec => RoundsMoveOn
  BY RoundsStep, Invariance, PTL DEF Spec, RoundsMoveOn
=============================================================================
