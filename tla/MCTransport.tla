----------------------------- MODULE MCTransport -----------------------------
(* Three options at most; five names: the default and another, both sent as  *)
(* they are, one with a trailing dot, an address, none.                     *)
EXTENDS Transport

MCConfigs == [sniLen : {0, 1, 2, 3}, fragmentSize : {-1, 1, 2, 3},
              handshakeLen : {1, 3, 5}, maxDelay : {0, 1, 3}]
MCNames == {"www", "host", "host.", "10.77.0.11", ""}
MCAmounts == {-1, 0, 1, 3}
MCNameLen == [n \in MCNames |->
    CASE n = "www" -> 3 [] n = "host" -> 2 [] n = "host." -> 3 [] n = "10.77.0.11" -> 3 [] n = "" -> 0]
MCSent == [n \in MCNames |->
    CASE n = "www" -> "www" [] n \in {"host", "host."} -> "host" [] OTHER -> ""]
=============================================================================
