------------------------------ MODULE SpoofConn ------------------------------
(***************************************************************************)
(* SpoofConn (dpi-spoof.go): the wrapper that cuts the first bytes a        *)
(* connection writes into small TCP segments.  A buffer is its length and   *)
(* the offset at which the configured server name first occurs in it; what  *)
(* the underlying connection makes of one Write, any prefix of the bytes    *)
(* offered with or without an error, is a choice.  A segment is the bytes   *)
(* one underlying Write took.  TLS serialises its writes, so one call to    *)
(* Write is in progress at a time.                                          *)
(***************************************************************************)
EXTENDS Integers

CONSTANTS
    Configs,    \* what NewSpoofConn is given, the name as its length
    MaxLen,     \* bound: the longest buffer written
    MaxStream   \* bound: no call starts that could take the stream beyond it

ASSUME ConfigsAssumption ==
    Configs \subseteq
        [sniLen : Nat, fragmentSize : Int, handshakeLen : Int, maxDelay : Int]
ASSUME BoundsAssumption == MaxLen \in Nat /\ MaxStream \in Nat

VARIABLES
    conf,          \* the connection's configuration
    bytesWritten,  \* the field of that name
    mode,          \* idle, pass, tracked (sniSplitWrite), frag (fragmentedWrite)
    len,           \* length of the buffer of the current or last call
    sniAt,         \* where the name is in it, NoSni if nowhere
    pos,           \* offset of the first byte not yet offered (b = b[n:])
    end,           \* end of the slice trackedWrite was called on
    first,         \* n: what trackedWrite returned for the first slice
    total,         \* the variable of that name in the loops
    failed,        \* the last call returned an error
    streamed,      \* bytes the underlying connection has taken altogether
    onWire,        \* bytes it took in this call
    seg,           \* the bytes of the buffer in the last segment
    delays         \* random delays drawn altogether

vars == <<conf, bytesWritten, mode, len, sniAt, pos, end, first, total,
          failed, streamed, onWire, seg, delays>>

NoSni == -1

TypeOK ==
    /\ conf \in Configs
    /\ bytesWritten \in Nat
    /\ mode \in {"idle", "pass", "tracked", "frag"}
    /\ len \in Nat
    /\ sniAt \in Nat \cup {NoSni}
    /\ pos \in Nat
    /\ end \in Nat
    /\ first \in Nat
    /\ total \in Nat
    /\ failed \in BOOLEAN
    /\ streamed \in Nat
    /\ onWire \in Nat
    /\ seg \in [from : Nat, to : Nat]
    /\ delays \in Nat

\* A wrapper that has written nothing.
Fresh ==
    /\ bytesWritten = 0
    /\ mode = "idle"
    /\ len = 0
    /\ sniAt = NoSni
    /\ pos = 0
    /\ end = 0
    /\ first = 0
    /\ total = 0
    /\ failed = FALSE
    /\ streamed = 0
    /\ onWire = 0
    /\ seg = [from |-> 0, to |-> 0]
    /\ delays = 0

\* NewSpoofConn.
Init == conf \in Configs /\ Fresh

PastHandshake == bytesWritten >= conf.handshakeLen

-----------------------------------------------------------------------------
(* Write chooses among its three ways.                                      *)

\* Where bytes.Index may find the name in a buffer of n bytes.
NamePlaces(n) ==
    {NoSni} \cup {i \in 0 .. n : conf.sniLen > 0 /\ i + conf.sniLen <= n}

\* Fault: the cut falls before the name.
CutBeforeName(i) == i

\* cut := i + len(c.sni)/2
Cut(i) == i + conf.sniLen \div 2

\* sniSplitWrite: the first slice is the whole buffer when there is no name in
\* it or the cut would leave one side empty.
FirstSlice(n, i) ==
    IF i = NoSni \/ Cut(i) <= 0 \/ Cut(i) >= n THEN n ELSE Cut(i)

Begin(n, i, how) ==
    /\ mode = "idle"
    /\ streamed + n <= MaxStream
    /\ len' = n
    /\ sniAt' = i
    /\ pos' = 0
    /\ first' = 0
    /\ total' = 0
    /\ onWire' = 0
    /\ seg' = [from |-> 0, to |-> 0]
    /\ failed' = FALSE
    /\ end' = IF how = "tracked" THEN FirstSlice(n, i) ELSE n
    /\ mode' = IF n = 0 /\ how # "pass" THEN "idle" ELSE how
    /\ UNCHANGED <<conf, bytesWritten, streamed, delays>>

WritePassing(n, i) == PastHandshake /\ Begin(n, i, "pass")

WriteSplitting(n, i) == ~PastHandshake /\ conf.sniLen > 0 /\ Begin(n, i, "tracked")

WriteFragmenting(n, i) == ~PastHandshake /\ conf.sniLen = 0 /\ Begin(n, i, "frag")

-----------------------------------------------------------------------------
(* The rounds of the loops: the underlying connection takes n of the bytes  *)
(* offered, with or without an error.                                       *)

Take(n, offered) ==
    /\ n <= offered
    /\ pos' = pos + n
    /\ streamed' = streamed + n
    /\ onWire' = onWire + n
    /\ seg' = [from |-> pos, to |-> pos + n]
    /\ UNCHANGED <<conf, len, sniAt>>

\* Faults: bytes that came with an error are not counted; the count runs down.
CountOnSuccess(n, err) == bytesWritten' = bytesWritten + (IF err THEN 0 ELSE n)

CountDown(n, err) == bytesWritten' = bytesWritten - n

Count(n, err) == bytesWritten' = bytesWritten + n

\* Past the handshake the bytes are not counted and the result is passed on.
Pass(n, err) ==
    /\ mode = "pass"
    /\ Take(n, len)
    /\ total' = n
    /\ mode' = "idle"
    /\ failed' = err
    /\ UNCHANGED <<bytesWritten, end, first, delays>>

\* Fault: a round that took nothing and reported nothing is tried again.
StopsOnErrorOnly(n, err) == err

\* The loops end with io.ErrShortWrite or with the connection's error.
Stops(n, err) == n = 0 \/ err

\* time.Sleep(randDuration(c.maxDelay)): nothing is drawn without a positive maximum.
Pause(due) == delays' = IF due /\ conf.maxDelay > 0 THEN delays + 1 ELSE delays

\* Fault: the first slice's count is lost.
SecondSliceForgetting(n) == first' = 0 /\ total' = 0 /\ end' = len

\* sniSplitWrite goes on with b[cut:].
SecondSlice(n) == first' = total + n /\ total' = 0 /\ end' = len

\* One round of trackedWrite.
Track(n, err) ==
    /\ mode = "tracked"
    /\ Take(n, end - pos)
    /\ Count(n, err)
    /\ Pause(~Stops(n, err) /\ pos' = end /\ end < len)
    /\ \/ /\ Stops(n, err)
          /\ mode' = "idle"
          /\ failed' = TRUE
          /\ total' = total + n
          /\ UNCHANGED <<end, first>>
       \/ /\ ~Stops(n, err)
          /\ pos' < end
          /\ total' = total + n
          /\ UNCHANGED <<mode, failed, end, first>>
       \/ /\ ~Stops(n, err)
          /\ pos' = end /\ end < len
          /\ SecondSlice(n)
          /\ UNCHANGED <<mode, failed>>
       \/ /\ ~Stops(n, err)
          /\ pos' = end /\ end = len
          /\ mode' = "idle"
          /\ total' = total + n
          /\ UNCHANGED <<failed, end, first>>

FragSize == IF conf.fragmentSize <= 0 THEN 2 ELSE conf.fragmentSize

\* Fault: the drain starts when the next fragment would reach the limit.
DrainsEarly == bytesWritten + FragSize >= conf.handshakeLen

\* The loop has left the handshake and writes what remains in one piece.
Drains == PastHandshake

\* The slice one round offers.
Offered == IF Drains \/ len - pos < FragSize THEN len - pos ELSE FragSize

\* stillHandshake
StillHandshake(bytes) == bytes < conf.handshakeLen

\* Fault: the fragment loop sleeps before it looks at what Write has returned.
SpacesUnchecked(n, err) == ~Drains /\ pos' < len /\ StillHandshake(bytesWritten')

\* A fragment the connection took is spaced from the next one while the handshake
\* lasts; the drain loop spaces nothing.
Spaces(n, err) ==
    /\ ~Drains
    /\ ~Stops(n, err)
    /\ pos' < len
    /\ StillHandshake(bytesWritten')

\* One round of fragmentedWrite, of either of its loops.
Fragment(n, err) ==
    /\ mode = "frag"
    /\ Take(n, Offered)
    /\ Count(n, err)
    /\ total' = total + n
    /\ Pause(Spaces(n, err))
    /\ \/ /\ Stops(n, err)
          /\ mode' = "idle"
          /\ failed' = TRUE
       \/ /\ ~Stops(n, err)
          /\ mode' = IF pos' < len THEN "frag" ELSE "idle"
          /\ UNCHANGED failed
    /\ UNCHANGED <<end, first>>

-----------------------------------------------------------------------------
Write(n, i) == WritePassing(n, i) \/ WriteSplitting(n, i) \/ WriteFragmenting(n, i)

Round(n, err) == Pass(n, err) \/ Track(n, err) \/ Fragment(n, err)

Next ==
    \/ \E n \in 0 .. MaxLen : \E i \in NamePlaces(n) : Write(n, i)
    \/ \E n \in 0 .. MaxLen, err \in BOOLEAN : Round(n, err)

Spec == Init /\ [][Next]_vars

-----------------------------------------------------------------------------
\* io.Writer's promise: what a call returns is what went on the wire, which is a
\* prefix of its buffer with nothing skipped and nothing sent twice; and, but
\* for the passthrough, which repeats what the connection says, it is the whole
\* buffer unless an error is returned.
CallsReport ==
    [][mode # "idle" /\ mode' = "idle" =>
          /\ first' + total' = onWire'
          /\ pos' = onWire'
          /\ mode # "pass" /\ ~failed' => onWire' = len]_vars

\* Evasion by the name: no segment written while the handshake lasts contains
\* the whole server name, whatever short writes the connection makes (a name of
\* one byte cannot be split).
NameNeverWhole ==
    [][mode = "tracked" /\ sniAt # NoSni /\ conf.sniLen > 1 =>
          ~(seg'.from <= sniAt /\ sniAt + conf.sniLen <= seg'.to)]_vars

\* Evasion by fragments: without a name, every segment that starts within the
\* first handshakeLen bytes of the stream is at most a fragment long.
HandshakeFragmented ==
    [][conf.sniLen = 0 /\ streamed < conf.handshakeLen =>
          streamed' - streamed <= FragSize]_vars

\* bytesWritten is the length of the stream for as long as it decides anything,
\* through partial writes and errors, so a later call ends the handshake phase
\* neither early nor late.
CountsTheHandshake ==
    bytesWritten < conf.handshakeLen \/ streamed < conf.handshakeLen =>
        bytesWritten = streamed

\* No loop turns on the spot: a round moves forward or ends the call, so a
\* connection that takes nothing cannot hold the caller for ever.
RoundsMoveOn ==
    [][mode # "idle" => mode' = "idle" \/ pos' > pos]_vars

\* The delays cannot use up the handshake's deadline without bound: there are at
\* most as many as the handshake phase has bytes, and each follows a byte of its
\* own, whatever mixture of short writes, splits and fragments the calls make.
DelayBudget == delays > 0 => delays <= conf.handshakeLen /\ delays <= bytesWritten
=============================================================================
