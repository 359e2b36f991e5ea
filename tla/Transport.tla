------------------------------ MODULE Transport ------------------------------
(***************************************************************************)
(* Settings and SpoofConn composed: a transport is built from options, one  *)
(* of its connections is wrapped with what the options left, and over the   *)
(* wrapper a client's TLS library writes a ClientHello with the name from   *)
(* the CamouflageConfig.  The two names come by different ways: SpoofConn   *)
(* looks for the transport's own, literally, and TLS sends what SNI allows  *)
(* of the configuration's.  NewSpoofConn is exported, so a wrapper may also *)
(* come from elsewhere, with any values.                                    *)
(***************************************************************************)
EXTENDS SpoofConn, Sequences

CONSTANTS Names, DefaultName, Unknown, Amounts, Default, MaxOptions,
    NameLen,  \* the length of each name
    Sent      \* the name TLS puts into the hello for it, "" if none

VARIABLES stage, given, settings, config,
    wrapped,  \* no, by the transport, or directly
    helloAt   \* where the hello under way has its name

S == INSTANCE Settings

ASSUME NameAssumption ==
    /\ {DefaultName, ""} \subseteq Names
    /\ NameLen \in [Names -> Nat] /\ Sent \in [Names -> Names]
    /\ NameLen[""] = 0 /\ Sent[""] = ""
    /\ \A n \in Names \ {""} : NameLen[n] > 0
ASSUME AmountAssumption == Amounts \subseteq Int /\ Default \in Nat \ {0}
ASSUME OptionsAssumption == MaxOptions \in Nat
ASSUME UnknownAssumption == Unknown \notin S!Browsers
\* A wrapper may be given whatever the options can leave.
ASSUME CoverAssumption ==
    LET positive == {a \in Amounts : a > 0}
    IN  [sniLen : {NameLen[n] : n \in Names},
         fragmentSize : {S!DefaultFragmentSize} \cup positive,
         handshakeLen : {Default} \cup positive,
         maxDelay : {0} \cup positive] \subseteq Configs

connVars == vars
settingsVars == <<stage, given, settings, config>>
allVars == <<connVars, settingsVars, wrapped, helloAt>>

HelloDue == -2
Unwrapped == [sniLen |-> 0, fragmentSize |-> 0, handshakeLen |-> 0, maxDelay |-> 0]

AllTypeOK ==
    /\ S!TypeOK
    /\ wrapped = "no" => conf = Unwrapped
    /\ wrapped # "no" => TypeOK
    /\ wrapped \in {"no", "transport", "direct"}
    /\ helloAt \in Nat \cup {NoSni, HelloDue}

TransportInit ==
    /\ S!Init
    /\ conf = Unwrapped
    /\ Fresh
    /\ wrapped = "no"
    /\ helloAt = NoSni

-----------------------------------------------------------------------------
Construct ==
    /\ wrapped = "no"
    /\ S!ApplyOption \/ S!Build
    /\ UNCHANGED <<connVars, wrapped, helloAt>>

\* Bound: a connection is followed only if the settings it does not depend on are
\* the defaults.
Followed ==
    \A k \in {"connectTimeout", "handshakeTimeout", "browserFingerprint"} :
        settings[k] = S!Defaults[k]

\* Fault: the wrapper gets the name from before the options.
SpoofNameEarly == DefaultName

\* The name NewSpoofConn is given.
SpoofName == settings["sni"]

Wrap(how, with, hello) ==
    /\ wrapped = "no"
    /\ wrapped' = how
    /\ conf' = with
    /\ helloAt' = hello
    /\ UNCHANGED <<bytesWritten, mode, len, sniAt, pos, end, first, total, failed,
                   streamed, onWire, seg, delays, stage, settings, config>>

\* wrapConn for a dialled connection, which writes a hello, and the same call in
\* handshake for an accepted one, which does not.  The options are forgotten.
wrapConn ==
    /\ stage = "built"
    /\ Followed
    /\ given' = <<>>
    /\ \E hello \in {HelloDue, NoSni} :
          Wrap("transport",
               [sniLen |-> NameLen[SpoofName],
                fragmentSize |-> settings["fragmentSize"],
                handshakeLen |-> settings["handshakeLen"],
                maxDelay |-> settings["maxDelay"]], hello)

WrapDirectly ==
    /\ stage = "options" /\ given = <<>>
    /\ \E with \in Configs : Wrap("direct", with, NoSni)
    /\ UNCHANGED given

\* clientTLSHandshake's first write: the hello, with the name anywhere in it.
ClientHello ==
    /\ helloAt = HelloDue
    /\ \E n \in 1 .. MaxLen :
          LET sent == Sent[config.sni]
              places == {i \in 0 .. n : sent # "" /\ i + NameLen[sent] <= n}
          IN  \E i \in IF sent = "" THEN {NoSni} ELSE places :
                 /\ helloAt' = i
                 /\ Write(n, IF SpoofName = sent THEN i ELSE NoSni)
    /\ UNCHANGED <<settingsVars, wrapped>>

\* Any other write.
OtherWrite ==
    /\ wrapped # "no"
    /\ helloAt # HelloDue
    /\ \E n \in 0 .. MaxLen : \E i \in NamePlaces(n) : Write(n, i)
    /\ helloAt' = NoSni
    /\ UNCHANGED <<settingsVars, wrapped>>

ConnRound ==
    /\ \E n \in 0 .. MaxLen, err \in BOOLEAN : Round(n, err)
    /\ UNCHANGED <<settingsVars, wrapped, helloAt>>

Terminated == stage # "options" /\ wrapped = "no" /\ UNCHANGED allVars

TransportNext ==
    \/ Construct \/ wrapConn \/ WrapDirectly
    \/ ClientHello \/ OtherWrite \/ ConnRound
    \/ Terminated

TransportSpec == TransportInit /\ [][TransportNext]_allVars

-----------------------------------------------------------------------------
LastValidWins == wrapped = "no" => S!LastValidWins

\* No segment carries the whole server name of a ClientHello, for any options and
\* any short writes, if TLS sends the configured name as it is: it leaves out an IP
\* address and a trailing dot, and what remains is not looked for.
HelloSplit ==
    [][LET sent == Sent[config.sni]
       IN  /\ mode = "tracked" /\ helloAt >= 0
           /\ sent = config.sni /\ NameLen[sent] > 1
           => ~(seg'.from <= helloAt /\ helloAt + NameLen[sent] <= seg'.to)]_allVars
=============================================================================
