--------------------------- MODULE TransportProofs ---------------------------
(***************************************************************************)
(* Proofs about Transport: what the options leave, for any options in any   *)
(* order, and that every promise of SpoofConn survives the composition, so  *)
(* that a hello sent over it is cut inside its server name.                 *)
(***************************************************************************)
EXTENDS Transport, SpoofConnProofs

\* The indexes of the valid options of kind k.
Valid(k, g) == {i \in 1 .. Len(g) : g[i][1] = k /\ S!Acceptable(k, g[i][2])}

\* LastValidWins with the last valid option named by an existential.
LastValid(k) ==
    \/ Valid(k, given) = {} /\ settings[k] = S!Defaults[k]
    \/ \E i \in Valid(k, given) :
          /\ \A j \in Valid(k, given) : j <= i
          /\ settings[k] = given[i][2]

\* The type of the numbers: what CoverAssumption covers, in the wrapper's terms.
Covered ==
    /\ settings["fragmentSize"] \in {S!DefaultFragmentSize} \cup {a \in Amounts : a > 0}
    /\ settings["handshakeLen"] \in {Default} \cup {a \in Amounts : a > 0}
    /\ settings["maxDelay"] \in {0} \cup {a \in Amounts : a > 0}

\* Before there is a connection.
Waiting ==
    /\ conf = Unwrapped
    /\ Fresh
    /\ helloAt = NoSni
    /\ \A k \in S!Keys : LastValid(k)

\* A hello is written through the transport's own wrapper, and while it is written
\* the wrapper has found its name if it is the name the wrapper looks for.
Hello ==
    /\ stage = "built" => config.sni = settings["sni"]
    /\ wrapped = "transport" =>
          stage = "built" /\ conf.sniLen = NameLen[SpoofName]
    /\ helloAt # NoSni => wrapped = "transport"
    /\ helloAt >= 0 /\ SpoofName = Sent[config.sni] => sniAt = helloAt

TInv ==
    /\ S!TypeOK /\ Covered
    /\ wrapped \in {"no", "transport", "direct"}
    /\ helloAt \in Nat \cup {NoSni, HelloDue}
    /\ wrapped = "no" => Waiting
    /\ wrapped # "no" => IInv
    /\ Hello

LEMMA OptionTypes ==
    ASSUME NEW o \in S!Options
    PROVE  /\ o[1] \in S!Keys /\ o[2] \in S!Values(o[1]) /\ o = <<o[1], o[2]>>
  BY DEF S!Options

\* The last valid option of a kind is the one LastValidWins chooses.
LEMMA LastIsChosen ==
    ASSUME \A k \in S!Keys : LastValid(k)
    PROVE  S!LastValidWins
<1> SUFFICES ASSUME NEW k \in S!Keys
             PROVE  settings[k] =
                      IF Valid(k, given) = {} THEN S!Defaults[k]
                      ELSE given[CHOOSE i \in Valid(k, given) :
                                    \A j \in Valid(k, given) : j <= i][2]
  BY DEF S!LastValidWins, Valid
<1>1. CASE Valid(k, given) = {}
  BY <1>1 DEF LastValid
<1>2. CASE Valid(k, given) # {}
  <2>1. PICK i \in Valid(k, given) :
          /\ \A j \in Valid(k, given) : j <= i
          /\ settings[k] = given[i][2]
    BY <1>2 DEF LastValid
  <2> DEFINE c == CHOOSE m \in Valid(k, given) : \A j \in Valid(k, given) : j <= m
  <2>2. c \in Valid(k, given) /\ \A j \in Valid(k, given) : j <= c
    BY <2>1
  <2>3. c = i
    <3>1. c <= i /\ i <= c
      BY <2>1, <2>2
    <3>2. c \in Int /\ i \in Int
      BY <2>1, <2>2 DEF Valid
    <3> HIDE DEF c
    <3>3. QED
      BY <3>1, <3>2
  <2>4. QED
    BY <1>2, <2>1, <2>3
<1>3. QED
  BY <1>1, <1>2

LEMMA TInitInv == TransportInit => TInv
<1> SUFFICES ASSUME TransportInit PROVE TInv
  OBVIOUS
<1> USE DEF TransportInit, S!Init
<1>1. DOMAIN settings = S!Keys
  BY DEF S!Defaults
<1>2. /\ settings["fragmentSize"] = 2 /\ settings["handshakeLen"] = Default
      /\ settings["maxDelay"] = 0 /\ settings["sni"] = DefaultName
      /\ settings["browserFingerprint"] = "chrome"
      /\ settings["connectTimeout"] = Default /\ settings["handshakeTimeout"] = Default
  BY DEF S!Defaults, S!Keys, S!Numeric, S!DefaultFragmentSize
<1>3. S!TypeOK
  <2>1. \A k \in S!Numeric \ {"maxDelay"} : settings[k] \in Nat \ {0}
    BY <1>2, AmountAssumption DEF S!Numeric
  <2>2. MaxOptions \in Nat
    BY OptionsAssumption
  <2>3. given \in Seq(S!Options) /\ Len(given) <= MaxOptions
    BY <2>2
  <2>4. QED
    BY <1>1, <1>2, <2>1, <2>3, NameAssumption DEF S!TypeOK, S!Browsers
<1>4. Covered
  BY <1>2 DEF Covered, S!DefaultFragmentSize
<1>5. \A k \in S!Keys : LastValid(k)
  BY DEF LastValid, Valid
<1>6. QED
  BY <1>3, <1>4, <1>5 DEF TInv, Waiting, Hello, NoSni

-----------------------------------------------------------------------------
\* Applying an option keeps the types of the settings.
LEMMA ApplyTypes ==
    ASSUME S!TypeOK, Covered, S!ApplyOption
    PROVE  S!TypeOK' /\ Covered'
<1>1. PICK o \in S!Options :
        given' = Append(given, o) /\ settings' = S!Apply(o[1], o[2])
  BY DEF S!ApplyOption
<1>2. o[1] \in S!Keys /\ o[2] \in S!Values(o[1])
  BY OptionTypes
<1>3. CASE ~S!Acceptable(o[1], o[2])
  <2>1. settings' = settings
    BY <1>1, <1>3 DEF S!Apply
  <2>2. given' \in Seq(S!Options) /\ Len(given') <= MaxOptions
    BY <1>1, OptionsAssumption DEF S!TypeOK, S!ApplyOption
  <2>3. QED
    BY <2>1, <2>2 DEF S!TypeOK, S!ApplyOption, Covered
<1>4. CASE S!Acceptable(o[1], o[2])
  <2>1. settings' = [settings EXCEPT ![o[1]] = o[2]]
    BY <1>1, <1>4 DEF S!Apply
  <2>2. DOMAIN settings' = S!Keys
    BY <2>1 DEF S!TypeOK
  <2>3. \A k \in S!Keys : settings'[k] = IF k = o[1] THEN o[2] ELSE settings[k]
    BY <2>1 DEF S!TypeOK
  <2>4. given' \in Seq(S!Options) /\ Len(given') <= MaxOptions
    BY <1>1, OptionsAssumption DEF S!TypeOK, S!ApplyOption
  <2>5. \A kind \in S!Keys : \A v \in S!Values(kind) :
          S!Acceptable(kind, v) =>
            /\ kind \in S!Numeric => v \in Amounts /\ v \in Int
            /\ kind \in S!Numeric \ {"maxDelay"} => v > 0
            /\ kind = "maxDelay" => v >= 0
            /\ kind = "sni" => v \in Names
            /\ kind = "browserFingerprint" => v \in S!Browsers \cup {Unknown}
    BY AmountAssumption DEF S!Acceptable, S!Values, S!Keys, S!Numeric
  <2>6. \A k \in S!Numeric \ {"maxDelay"} : settings'[k] \in Nat \ {0}
    <3>1. o[1] \in S!Numeric \ {"maxDelay"} => o[2] \in Nat \ {0}
      BY <1>2, <1>4, <2>5
    <3>2. \A k \in S!Numeric \ {"maxDelay"} : k \in S!Keys /\ settings[k] \in Nat \ {0}
      BY DEF S!TypeOK, S!Keys
    <3>3. QED
      BY <2>3, <3>1, <3>2
  <2>7. /\ settings'["maxDelay"] \in Nat
        /\ settings'["sni"] \in Names
        /\ settings'["browserFingerprint"] \in S!Browsers \cup {Unknown}
    <3>1. /\ o[1] = "maxDelay" => o[2] \in Nat
          /\ o[1] = "sni" => o[2] \in Names
          /\ o[1] = "browserFingerprint" => o[2] \in S!Browsers \cup {Unknown}
      <4>1. o[1] = "maxDelay" => o[2] \in Int /\ o[2] >= 0
        BY <1>2, <1>4, <2>5 DEF S!Numeric
      <4>2. QED
        BY <1>2, <1>4, <2>5, <4>1
    <3>2. {"maxDelay", "sni", "browserFingerprint"} \subseteq S!Keys
      BY DEF S!Keys, S!Numeric
    <3>3. QED
      BY <2>3, <3>1, <3>2 DEF S!TypeOK
  <2>8. Covered'
    <3>1. o[1] \in {"fragmentSize", "handshakeLen"} => o[2] \in {a \in Amounts : a > 0}
      BY <1>2, <1>4, <2>5 DEF S!Numeric
    <3>2. o[1] = "maxDelay" => o[2] \in {0} \cup {a \in Amounts : a > 0}
      <4>1. o[1] = "maxDelay" => o[2] \in Amounts /\ o[2] \in Int /\ o[2] >= 0
        BY <1>2, <1>4, <2>5 DEF S!Numeric
      <4>2. QED
        BY <4>1
    <3>3. {"fragmentSize", "handshakeLen", "maxDelay"} \subseteq S!Keys
      BY DEF S!Keys, S!Numeric
    <3>4. QED
      BY <2>3, <3>1, <3>2, <3>3 DEF Covered
  <2>9. QED
    BY <2>2, <2>4, <2>6, <2>7, <2>8 DEF S!TypeOK, S!ApplyOption
<1>5. QED
  BY <1>3, <1>4

\* The last valid option stays known when one more is applied.
LEMMA ApplyLast ==
    ASSUME S!TypeOK, S!ApplyOption, NEW k \in S!Keys, LastValid(k)
    PROVE  LastValid(k)'
<1>1. PICK o \in S!Options :
        given' = Append(given, o) /\ settings' = S!Apply(o[1], o[2])
  BY DEF S!ApplyOption
<1> DEFINE n == Len(given)
<1>2. /\ n \in Nat /\ Len(given') = n + 1 /\ given'[n + 1] = o
      /\ \A i \in 1 .. n : given'[i] = given[i]
  BY <1>1 DEF S!TypeOK
<1>3. Valid(k, given') = Valid(k, given) \cup
          (IF o[1] = k /\ S!Acceptable(k, o[2]) THEN {n + 1} ELSE {})
  <2> DEFINE V(i) == i \in Valid(k, given')
  <2>1. \A i \in 1 .. n : i \in Valid(k, given') <=> i \in Valid(k, given)
    BY <1>2 DEF Valid
  <2>2. n + 1 \in Valid(k, given') <=> o[1] = k /\ S!Acceptable(k, o[2])
    BY <1>2 DEF Valid
  <2>3. Valid(k, given') \subseteq 1 .. n + 1 /\ Valid(k, given) \subseteq 1 .. n
    BY <1>2 DEF Valid
  <2>4. 1 .. n + 1 = (1 .. n) \cup {n + 1} /\ n + 1 \notin 1 .. n
    BY <1>2
  <2> HIDE DEF n
  <2>5. QED
    BY <2>1, <2>2, <2>3, <2>4
<1>4. CASE o[1] = k /\ S!Acceptable(k, o[2])
  <2>1. settings'[k] = o[2]
    BY <1>1, <1>4 DEF S!Apply, S!TypeOK
  <2>2. n + 1 \in Valid(k, given')
    BY <1>3, <1>4
  <2>3. \A j \in Valid(k, given') : j <= n + 1
    BY <1>2 DEF Valid
  <2>4. QED
    BY <2>1, <2>2, <2>3, <1>2 DEF LastValid
<1>5. CASE ~(o[1] = k /\ S!Acceptable(k, o[2]))
  <2>1. settings'[k] = settings[k]
    BY <1>1, <1>5 DEF S!Apply, S!TypeOK
  <2>2. Valid(k, given') = Valid(k, given)
    BY <1>3, <1>5
  <2>3. \A i \in Valid(k, given) : given'[i] = given[i]
    BY <1>2 DEF Valid
  <2>4. QED
    BY <2>1, <2>2, <2>3 DEF LastValid
<1>6. QED
  BY <1>4, <1>5

LEMMA ConstructStep ==
    ASSUME TInv, Construct
    PROVE  TInv'
<1>1. S!TypeOK /\ Covered /\ wrapped = "no" /\ Waiting
  BY DEF TInv, Construct
<1>2. wrapped' = "no" /\ helloAt' = helloAt /\ UNCHANGED connVars
  BY DEF Construct
<1>3. Fresh' /\ (conf = Unwrapped)'
  BY <1>1, <1>2 DEF Waiting, Fresh, connVars, vars, Unwrapped
<1>4. CASE S!ApplyOption
  <2>1. S!TypeOK' /\ Covered'
    BY <1>1, <1>4, ApplyTypes
  <2>2. \A k \in S!Keys : LastValid(k)'
    BY <1>1, <1>4, ApplyLast DEF Waiting
  <2>3. stage' = "options"
    BY <1>4 DEF S!ApplyOption
  <2>4. QED
    BY <1>1, <1>2, <1>3, <2>1, <2>2, <2>3 DEF TInv, Waiting, Hello, NoSni
<1>5. CASE S!Build
  <2>1. settings' = settings /\ given' = given
    BY <1>5 DEF S!Build
  <2>2. Covered' /\ \A k \in S!Keys : LastValid(k)'
    BY <1>1, <2>1 DEF Covered, Waiting, LastValid
  <2>3. stage' = "built" => config'.sni = settings["sni"]
    BY <1>5 DEF S!Build, S!BuildConfig
  <2>4. (config' # S!NoConfig) = (stage' = "built")
    <3>1. S!BuildConfig(settings) # S!NoConfig
      <4>1. DOMAIN S!BuildConfig(settings) # DOMAIN S!NoConfig
        BY DEF S!BuildConfig, S!NoConfig
      <4>2. QED
        BY <4>1
    <3>2. QED
      BY <1>1, <1>5, <3>1 DEF S!Build, S!TypeOK
  <2>5. S!TypeOK'
    BY <1>1, <1>5, <2>1, <2>4 DEF S!TypeOK, S!Build
  <2>6. QED
    BY <1>1, <1>2, <1>3, <2>1, <2>2, <2>3, <2>5 DEF TInv, Waiting, Hello, NoSni
<1>6. QED
  BY <1>4, <1>5 DEF Construct

\* What the options leave can be given to a wrapper.
LEMMA OptionsFit ==
    ASSUME S!TypeOK, Covered
    PROVE  [sniLen |-> NameLen[SpoofName], fragmentSize |-> settings["fragmentSize"],
            handshakeLen |-> settings["handshakeLen"],
            maxDelay |-> settings["maxDelay"]] \in Configs
<1>1. NameLen[SpoofName] \in {NameLen[n] : n \in Names}
  BY DEF S!TypeOK, SpoofName
<1>2. QED
  BY <1>1, CoverAssumption DEF Covered

\* A wrapper is new when its connection is wrapped.
LEMMA WrapStep ==
    ASSUME TInv, wrapConn \/ WrapDirectly
    PROVE  TInv'
<1>1. PICK how \in {"transport", "direct"}, with \in Configs, hello \in {HelloDue, NoSni} :
        /\ Wrap(how, with, hello)
        /\ how = "transport" => stage = "built" /\ with.sniLen = NameLen[SpoofName]
        /\ hello # NoSni => how = "transport"
        /\ given' = <<>>
  <2>1. CASE wrapConn
    <3> DEFINE c == [sniLen |-> NameLen[SpoofName],
                     fragmentSize |-> settings["fragmentSize"],
                     handshakeLen |-> settings["handshakeLen"],
                     maxDelay |-> settings["maxDelay"]]
    <3>1. c \in Configs /\ c.sniLen = NameLen[SpoofName]
      BY OptionsFit DEF TInv
    <3>2. /\ stage = "built" /\ given' = <<>>
          /\ \E hello \in {HelloDue, NoSni} : Wrap("transport", c, hello)
      BY <2>1 DEF wrapConn
    <3> HIDE DEF c
    <3>3. QED
      BY <3>1, <3>2
  <2>2. CASE WrapDirectly
    BY <2>2 DEF WrapDirectly
  <2>3. QED
    BY <2>1, <2>2
<1>2. Waiting /\ S!TypeOK /\ Covered
  BY <1>1 DEF TInv, Wrap
<1>3. conf' = with /\ Fresh'
  BY <1>1, <1>2 DEF Wrap, Waiting, Fresh
<1>4. IInv'
  <2>1. Init'
    BY <1>1, <1>3 DEF Init
  <2>2. QED
    BY <2>1, InitInv, PTL
<1>5. S!TypeOK' /\ Covered'
  <2>1. given' \in Seq(S!Options) /\ Len(given') <= MaxOptions
    BY <1>1, OptionsAssumption
  <2>2. QED
    BY <1>1, <1>2, <2>1 DEF Wrap, S!TypeOK, Covered
<1>6. /\ wrapped' = how /\ helloAt' = hello
      /\ stage' = stage /\ settings' = settings /\ config' = config
  BY <1>1 DEF Wrap
<1>7. Hello'
  BY <1>1, <1>3, <1>6 DEF TInv, Hello, SpoofName, HelloDue, NoSni
<1>8. QED
  BY <1>4, <1>5, <1>6, <1>7 DEF TInv, HelloDue, NoSni

\* A step of a connection is a step of its wrapper.
LEMMA ConnNext ==
    ASSUME TInv, ClientHello \/ OtherWrite \/ ConnRound
    PROVE  wrapped # "no" /\ Next /\ UNCHANGED <<settingsVars, wrapped>>
<1>1. CASE ClientHello
  <2>1. wrapped = "transport" /\ stage = "built" /\ conf.sniLen = NameLen[SpoofName]
    <3>1. helloAt = HelloDue
      BY <1>1 DEF ClientHello
    <3>2. HelloDue # NoSni
      BY DEF HelloDue, NoSni
    <3>3. QED
      BY <3>1, <3>2 DEF TInv, Hello
  <2>5. \A m \in 1 .. MaxLen : m \in 0 .. MaxLen
    BY BoundsAssumption
  <2> DEFINE sent == Sent[config.sni]
  <2>2. PICK n \in 1 .. MaxLen :
          \E i \in IF sent = "" THEN {NoSni}
                   ELSE {i \in 0 .. n : sent # "" /\ i + NameLen[sent] <= n} :
             Write(n, IF SpoofName = sent THEN i ELSE NoSni)
    BY <1>1 DEF ClientHello
  <2>3. PICK i \in IF sent = "" THEN {NoSni}
                   ELSE {i \in 0 .. n : sent # "" /\ i + NameLen[sent] <= n} :
          Write(n, IF SpoofName = sent THEN i ELSE NoSni)
    BY <2>2
  <2>4. (IF SpoofName = sent THEN i ELSE NoSni) \in NamePlaces(n)
    <3>1. CASE SpoofName = sent /\ sent # ""
      <4>1. SpoofName \in Names
        BY DEF TInv, S!TypeOK, SpoofName
      <4>2. conf.sniLen > 0 /\ i \in 0 .. n /\ i + conf.sniLen <= n
        BY <2>1, <2>3, <3>1, <4>1, NameAssumption
      <4>3. QED
        BY <3>1, <4>2 DEF NamePlaces
    <3>2. CASE ~(SpoofName = sent /\ sent # "")
      BY <2>3, <3>2 DEF NamePlaces
    <3>3. QED
      BY <3>1, <3>2
  <2>6. QED
    BY <1>1, <2>1, <2>3, <2>4, <2>5 DEF Next, ClientHello
<1>2. CASE OtherWrite
  BY <1>2 DEF OtherWrite, Next
<1>3. CASE ConnRound
  <2>1. wrapped # "no"
    BY <1>3 DEF TInv, Waiting, Fresh, ConnRound, Round, Pass, Track, Fragment
  <2>2. QED
    BY <1>3, <2>1 DEF ConnRound, Next
<1>4. QED
  BY <1>1, <1>2, <1>3

LEMMA ConnStep ==
    ASSUME TInv, ClientHello \/ OtherWrite \/ ConnRound
    PROVE  TInv'
<1>1. wrapped # "no" /\ Next /\ UNCHANGED <<settingsVars, wrapped>>
  BY ConnNext
<1>2. IInv'
  BY <1>1, NextInv DEF TInv
<1>3. conf' = conf
  BY <1>1 DEF Next, Write, WritePassing, WriteSplitting, WriteFragmenting, Begin,
              Round, Pass, Track, Fragment, Take
<1>4. S!TypeOK' /\ Covered'
  BY <1>1 DEF TInv, settingsVars, S!TypeOK, Covered
<1>5. helloAt' \in Nat \cup {NoSni, HelloDue} /\ (helloAt' # NoSni => wrapped = "transport")
  <2>1. CASE ClientHello
    <3>1. helloAt = HelloDue
      BY <2>1 DEF ClientHello
    <3>2. HelloDue # NoSni
      BY DEF HelloDue, NoSni
    <3>3. PICK n \in 1 .. MaxLen :
            helloAt' \in {NoSni} \cup 0 .. n
      BY <2>1 DEF ClientHello
    <3>4. QED
      BY <3>1, <3>2, <3>3 DEF TInv, Hello
  <2>2. CASE OtherWrite
    BY <2>2 DEF OtherWrite
  <2>3. CASE ConnRound
    BY <2>3 DEF ConnRound, TInv, Hello
  <2>4. QED
    BY <2>1, <2>2, <2>3
<1>6. helloAt' >= 0 /\ SpoofName = Sent[config.sni] => sniAt' = helloAt'
  <2>1. CASE ClientHello
    BY <2>1 DEF ClientHello, Write, WritePassing, WriteSplitting, WriteFragmenting, Begin
  <2>2. CASE OtherWrite
    BY <2>2 DEF OtherWrite, NoSni
  <2>3. CASE ConnRound
    BY <2>3 DEF ConnRound, Round, Pass, Track, Fragment, Take, TInv, Hello
  <2>4. QED
    BY <2>1, <2>2, <2>3
<1>7. QED
  BY <1>1, <1>2, <1>3, <1>4, <1>5, <1>6 DEF TInv, Hello, settingsVars, SpoofName

LEMMA TNextInv == TInv /\ [TransportNext]_allVars => TInv'
<1> SUFFICES ASSUME TInv, [TransportNext]_allVars PROVE TInv'
  OBVIOUS
<1>1. CASE UNCHANGED allVars
  <2>1. UNCHANGED <<connVars, settingsVars, wrapped, helloAt>>
    BY <1>1 DEF allVars
  <2>2. IInv => IInv'
    BY <2>1, NextInv DEF connVars
  <2>3. S!TypeOK' /\ Covered'
    BY <2>1 DEF TInv, settingsVars, S!TypeOK, Covered
  <2>4. Waiting => Waiting'
    BY <2>1 DEF connVars, vars, settingsVars, Waiting, Fresh, Unwrapped, LastValid
  <2>5. Hello'
    BY <2>1 DEF TInv, Hello, connVars, vars, settingsVars, SpoofName
  <2>6. QED
    BY <2>1, <2>2, <2>3, <2>4, <2>5 DEF TInv
<1>2. CASE TransportNext
  <2>1. CASE Terminated
    BY <1>1, <2>1 DEF Terminated
  <2>2. QED
    BY <1>2, <2>1, ConstructStep, WrapStep, ConnStep DEF TransportNext
<1>3. QED
  BY <1>1, <1>2

\* TInv holds of every reachable state of the composition.
THEOREM TransportInvariance == TransportSpec => []TInv
  BY TInitInv, TNextInv, PTL DEF TransportSpec

\* The transport's fields and its connection's counters keep their types.
THEOREM AllTypeCorrect == TransportSpec => []AllTypeOK
<1>1. TInv => AllTypeOK
  BY DEF TInv, AllTypeOK, Waiting, IInv
<1>2. QED
  BY <1>1, TransportInvariance, PTL

\* Of each kind the last valid option counts, and the default if there is none.
THEOREM LastValidOptionWins == TransportSpec => []LastValidWins
<1>1. TInv => LastValidWins
  BY LastIsChosen DEF TInv, Waiting, LastValidWins
<1>2. QED
  BY <1>1, TransportInvariance, PTL

\* The handshake's bytes are counted exactly, whatever the options left.
THEOREM TransportCounts == TransportSpec => []CountsTheHandshake
<1>1. TInv => CountsTheHandshake
  BY DEF TInv, Waiting, Fresh, IInv, CountsTheHandshake
<1>2. QED
  BY <1>1, TransportInvariance, PTL

\* The delays stay within the handshake's bytes, whatever the options left.
THEOREM TransportDelays == TransportSpec => []DelayBudget
<1>1. TInv => DelayBudget
  BY DEF TInv, Waiting, Fresh, IInv, Budget, DelayBudget
<1>2. QED
  BY <1>1, TransportInvariance, PTL

-----------------------------------------------------------------------------
\* Every step is one of the wrapper's or is taken before there is one.
LEMMA StepOfWrapper ==
    ASSUME TInv, [TransportNext]_allVars
    PROVE  \/ IInv /\ [Next]_vars
           \/ UNCHANGED vars
           \/ mode = "idle" /\ streamed = 0 /\ conf.handshakeLen = 0
<1>1. CASE UNCHANGED allVars
  BY <1>1 DEF allVars, connVars
<1>2. CASE wrapped = "no"
  BY <1>2 DEF TInv, Waiting, Fresh, Unwrapped
<1>3. CASE TransportNext /\ wrapped # "no"
  <2>1. \/ ClientHello \/ OtherWrite \/ ConnRound \/ UNCHANGED allVars
    BY <1>3 DEF TransportNext, Construct, wrapConn, WrapDirectly, Wrap, Terminated
  <2>2. QED
    BY <1>1, <1>3, <2>1, ConnNext DEF TInv
<1>4. QED
  BY <1>1, <1>2, <1>3

\* A wrapped connection's calls report what they put on the wire.
THEOREM TransportCalls == TransportSpec => CallsReport
<1>1. TInv /\ [TransportNext]_allVars =>
        [mode # "idle" /\ mode' = "idle" =>
          /\ first' + total' = onWire'
          /\ pos' = onWire'
          /\ mode # "pass" /\ ~failed' => onWire' = len]_vars
  BY StepOfWrapper, CallsStep
<1>2. QED
  BY <1>1, TransportInvariance, PTL DEF TransportSpec, CallsReport

\* No segment of a splitting call contains the whole name the options left.
THEOREM TransportSplits == TransportSpec => NameNeverWhole
<1>1. TInv /\ [TransportNext]_allVars =>
        [mode = "tracked" /\ sniAt # NoSni /\ conf.sniLen > 1 =>
          ~(seg'.from <= sniAt /\ sniAt + conf.sniLen <= seg'.to)]_vars
  BY StepOfWrapper, NameStep
<1>2. QED
  BY <1>1, TransportInvariance, PTL DEF TransportSpec, NameNeverWhole

\* With the empty name among the options, the handshake goes out in fragments.
THEOREM TransportFragments == TransportSpec => HandshakeFragmented
<1>1. TInv /\ [TransportNext]_allVars =>
        [conf.sniLen = 0 /\ streamed < conf.handshakeLen =>
          streamed' - streamed <= FragSize]_vars
  BY StepOfWrapper, FragmentedStep
<1>2. QED
  BY <1>1, TransportInvariance, PTL DEF TransportSpec, HandshakeFragmented

\* No write over a wrapped connection turns on the spot.
THEOREM TransportRounds == TransportSpec => RoundsMoveOn
<1>1. TInv /\ [TransportNext]_allVars =>
        [mode # "idle" => mode' = "idle" \/ pos' > pos]_vars
  BY StepOfWrapper, RoundsStep
<1>2. QED
  BY <1>1, TransportInvariance, PTL DEF TransportSpec, RoundsMoveOn

\* The server name of a ClientHello is never whole in a segment, for any options
\* and any short writes, when TLS sends the configured name as it is.
THEOREM HelloIsSplit == TransportSpec => HelloSplit
<1> DEFINE A ==
      LET sent == Sent[config.sni]
      IN  /\ mode = "tracked" /\ helloAt >= 0
          /\ sent = config.sni /\ NameLen[sent] > 1
          => ~(seg'.from <= helloAt /\ helloAt + NameLen[sent] <= seg'.to)
<1>1. TInv /\ [TransportNext]_allVars => [A]_allVars
  <2> SUFFICES ASSUME TInv, [TransportNext]_allVars, ~UNCHANGED allVars,
                      mode = "tracked", helloAt >= 0, Sent[config.sni] = config.sni,
                      NameLen[config.sni] > 1
               PROVE  ~(seg'.from <= helloAt /\ helloAt + NameLen[config.sni] <= seg'.to)
    BY Zenon
  <2>1. helloAt # NoSni
    BY DEF NoSni
  <2>2. wrapped = "transport"
    BY <2>1 DEF TInv, Hello
  <2>3. SpoofName = config.sni /\ sniAt = helloAt /\ conf.sniLen = NameLen[config.sni]
    BY <2>2 DEF TInv, Hello, SpoofName
  <2>4. ConnRound
    BY <2>2 DEF TransportNext, Construct, wrapConn, WrapDirectly, Wrap, Terminated,
                ClientHello, OtherWrite, Write, WritePassing, WriteSplitting,
                WriteFragmenting, Begin
  <2>5. IInv /\ Next /\ UNCHANGED <<settingsVars, wrapped, helloAt>>
    BY <2>4, ConnNext, <2>2 DEF TInv, ConnRound
  <2>6. ~UNCHANGED vars
    BY <2>5 DEF allVars, connVars
  <2>7. QED
    BY <2>1, <2>3, <2>5, <2>6, NameStep
<1>2. QED
  BY <1>1, TransportInvariance, PTL DEF TransportSpec, HelloSplit
=============================================================================
