------------------------------ MODULE Settings ------------------------------
(***************************************************************************)
(* Construction of a CamouflageTransport (camouflage.go, tls-camouflage.go) *)
(* from any sequence of options: NewCamouflageTransport sets the defaults,  *)
(* applies the options in order, and builds the CamouflageConfig, with its  *)
(* certificate, from what they left.  Connections then take their SNI from  *)
(* two places: SpoofConn from the transport, TLS from the configuration.    *)
(*                                                                         *)
(* Numbers are abstracted to Amounts, the default being Default; the order  *)
(* and the sign of a value are what the options look at.                    *)
(***************************************************************************)
EXTENDS Integers, Sequences

Browsers == {"chrome", "firefox", "safari", "edge", "ios", "android", "yandex"}

CONSTANTS
    Names,       \* server names; one is the default
    DefaultName,
    Unknown,     \* a string that is no Browser* constant
    Amounts,     \* numbers given to options, of any sign
    Default,     \* the built-in handshake length and timeouts
    MaxOptions   \* bound on the number of options

VARIABLES
    stage,     \* options are applied, or the transport is built, or it failed
    given,     \* the options applied so far
    settings,  \* the transport's fields
    config     \* its CamouflageConfig, or NoConfig

vars == <<stage, given, settings, config>>

Numeric == {"fragmentSize", "handshakeLen", "maxDelay", "connectTimeout",
            "handshakeTimeout"}
Keys == Numeric \cup {"sni", "browserFingerprint"}

Values(k) == CASE k \in Numeric -> Amounts
               [] k = "sni" -> Names
               [] k = "browserFingerprint" -> Browsers \cup {Unknown}

Options == UNION {{<<k, v>> : v \in Values(k)} : k \in Keys}

NoConfig == [sni |-> "none"]

DefaultFragmentSize == 2

\* The delay is the one number whose default, and whose least value, is zero.
Defaults == [k \in Keys |->
    CASE k = "maxDelay" -> 0
      [] k = "fragmentSize" -> DefaultFragmentSize
      [] k = "sni" -> DefaultName
      [] k = "browserFingerprint" -> "chrome"
      [] k \in {"handshakeLen", "connectTimeout", "handshakeTimeout"} -> Default]

Init ==
    /\ stage = "options"
    /\ given = <<>>
    /\ settings = Defaults
    /\ config = NoConfig

\* Fault: a zero is let through.
AcceptableZero(k, v) == k \in Numeric => v >= 0

\* The conditions in the With* options.
Acceptable(k, v) ==
    /\ k \in Numeric \ {"maxDelay"} => v > 0
    /\ k = "maxDelay" => v >= 0

\* Fault: the first valid option of a kind wins.
ApplyFirst(k, v) ==
    IF Acceptable(k, v) /\ settings[k] = Defaults[k]
    THEN [settings EXCEPT ![k] = v] ELSE settings

Apply(k, v) ==
    IF Acceptable(k, v) THEN [settings EXCEPT ![k] = v] ELSE settings

ApplyOption ==
    /\ stage = "options"
    /\ Len(given) < MaxOptions
    /\ \E o \in Options :
          /\ given' = Append(given, o)
          /\ settings' = Apply(o[1], o[2])
    /\ UNCHANGED <<stage, config>>

\* browserToHelloID: Yandex shows Chrome's hello, an unknown name a random one.
browserToHelloID(browser) ==
    CASE browser = "yandex" -> "chrome"
      [] browser \in Browsers \ {"yandex"} -> browser
      [] OTHER -> "randomized"

\* getOrGenerate on a new cache: a chain whose leaf bears the name.
CertFor(sni) == sni

\* BuildCamouflageConfig.
BuildConfig(s) ==
    [sni |-> s.sni, cert |-> CertFor(s.sni),
     hello |-> browserToHelloID(s.browserFingerprint),
     timeout |-> s.handshakeTimeout]

Build ==
    /\ stage = "options"
    /\ \/ stage' = "built" /\ config' = BuildConfig(settings)
       \/ stage' = "failed" /\ UNCHANGED config  \* inner transport, keys
    /\ UNCHANGED <<given, settings>>

Next == ApplyOption \/ Build \/ (stage # "options" /\ UNCHANGED vars)

Spec == Init /\ [][Next]_vars

-----------------------------------------------------------------------------
TypeOK ==
    /\ stage \in {"options", "built", "failed"}
    /\ given \in Seq(Options) /\ Len(given) <= MaxOptions
    /\ DOMAIN settings = Keys
    /\ \A k \in Numeric \ {"maxDelay"} : settings[k] \in Nat \ {0}
    /\ settings["maxDelay"] \in Nat
    /\ settings["sni"] \in Names
    /\ settings["browserFingerprint"] \in Browsers \cup {Unknown}
    /\ (config # NoConfig) = (stage = "built")

\* Options of different kinds do not disturb each other, and of one kind the last
\* valid one counts, with the default when there is none.
LastValidWins ==
    \A k \in Keys :
        LET valid == {i \in 1 .. Len(given) : given[i][1] = k /\ Acceptable(k, given[i][2])}
        IN  settings[k] = IF valid = {} THEN Defaults[k]
                          ELSE given[CHOOSE i \in valid : \A j \in valid : j <= i][2]

\* "Defaults to Chrome if empty or unknown" (WithBrowserFingerprint) and "Unknown
\* names fall back to Chrome" (browserToHelloID).
UnknownIsChrome ==
    stage = "built" /\ settings["browserFingerprint"] \notin Browsers =>
        config.hello = "chrome"
=============================================================================
