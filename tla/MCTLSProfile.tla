----------------------------- MODULE MCTLSProfile -----------------------------
(***************************************************************************)
(* Profiles with up to three ciphers: two names of one TLS 1.2 suite, an   *)
(* insecure one, a TLS 1.3 one and two that the library does not know.     *)
(***************************************************************************)
EXTENDS TLSProfile, TLC

Names == ("ECDHE-RSA" :> "TLS_ECDHE_RSA") @@ ("TLS_ECDHE_RSA" :> "TLS_ECDHE_RSA")
           @@ ("DES" :> "TLS_RSA_3DES") @@ ("TLS_AES" :> "TLS_AES")

Ciphers == DOMAIN Names \cup {"UNKNOWN", "OTHER"}

Versions == {"", "TLS10", "TLS11", "TLS12", "TLS13"}

Lists(n) == UNION {[1..k -> Ciphers] : k \in 0..n}

SmallProfiles == [min : {"TLS12"}, ciphers : Lists(3)]
                   \cup [min : Versions, ciphers : Lists(1)]

IntermediateProfile == [min |-> "TLS12", ciphers |-> <<"ECDHE-RSA", "TLS_AES">>]

\* The default, a TLS 1.3 one, one with mixed ciphers and one that is refused.
ChangedProfiles == {IntermediateProfile,
                    [min |-> "TLS13", ciphers |-> <<"TLS_AES">>],
                    [min |-> "TLS12", ciphers |-> <<"DES", "UNKNOWN", "ECDHE-RSA">>],
                    [min |-> "TLS10", ciphers |-> <<"ECDHE-RSA">>]}

===============================================================================
