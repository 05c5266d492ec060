---------------------------- MODULE MC_TlsProfile ----------------------------
(* Five OpenSSL names: a TLS 1.3 name, two ECDHE names and an RSA name     *)
(* that tls.go maps, and a DHE name it does not.  The predefined profiles *)
(* keep the shape of configv1.TLSProfiles (Old adds RSA key exchange and  *)
(* TLS 1.0, Modern is TLS 1.3 only).  crypto/tls's default list holds the *)
(* ECDHE suites and not RSA key exchange.  Custom profiles have one or    *)
(* two of the names and any minimum version, or none.                     *)
EXTENDS TlsProfile

CONSTANTS NilValue, FetchErrorValue

T13 == "TLS_AES_128_GCM_SHA256"
EGCM == "ECDHE-RSA-AES128-GCM-SHA256"
ECHA == "ECDHE-ECDSA-CHACHA20-POLY1305"
RSA == "AES128-SHA"
DHE == "DHE-RSA-AES128-GCM-SHA256"

MCGoCipher ==
  (EGCM :> "TLS_ECDHE_RSA_WITH_AES_128_GCM_SHA256")
  @@ (ECHA :> "TLS_ECDHE_ECDSA_WITH_CHACHA20_POLY1305_SHA256")
  @@ (RSA :> "TLS_RSA_WITH_AES_128_CBC_SHA")

MCGoDefaultSuites ==
  {"TLS_ECDHE_RSA_WITH_AES_128_GCM_SHA256", "TLS_ECDHE_ECDSA_WITH_CHACHA20_POLY1305_SHA256"}

MCTLSProfiles ==
  [t \in {"Old", "Intermediate", "Modern"} |->
     CASE t = "Old" -> [ciphers |-> <<T13, EGCM, ECHA, DHE, RSA>>, minTLSVersion |-> "VersionTLS10"]
       [] t = "Intermediate" -> [ciphers |-> <<T13, EGCM, ECHA, DHE>>, minTLSVersion |-> "VersionTLS12"]
       [] OTHER -> [ciphers |-> <<T13>>, minTLSVersion |-> "VersionTLS13"]]

Names == {T13, EGCM, RSA, DHE}
CustomSpecs ==
  [ciphers : {<<a>> : a \in Names} \cup {<<a, b>> : a, b \in Names},
   minTLSVersion : {"", "VersionTLS10", "VersionTLS12", "VersionTLS13"}]

MCFetches ==
  {FetchErrorValue, NilValue}
  \cup {[type |-> t, custom |-> NilValue] : t \in {"Old", "Intermediate", "Modern", "Custom", ""}}
  \cup {[type |-> "Custom", custom |-> s] : s \in CustomSpecs}
=============================================================================
