----------------------------- MODULE TlsProfile -----------------------------
(***************************************************************************)
(* NewTLSConfigApplicator (src/pkg/tls/tls.go): the operator fetches the  *)
(* cluster's TLSSecurityProfile once, resolves it to a TLSProfileSpec,    *)
(* converts its OpenSSL cipher names and minimum version to crypto/tls    *)
(* values, and returns a closure that the webhook and metrics servers     *)
(* apply to their tls.Config.                                              *)
(*                                                                         *)
(* Cipher names are strings of OpenSSL's form; a Go suite is named by its *)
(* IANA name, as the crypto/tls constant is.  Protocol versions are 10,   *)
(* 11, 12, 13.  The predefined profiles (configv1.TLSProfiles) and the    *)
(* suites crypto/tls uses when Config.CipherSuites is nil are constants.  *)
(***************************************************************************)
EXTENDS Integers, Sequences, SequencesExt, FiniteSets

CONSTANTS
  Nil,              \* a nil pointer or slice
  FetchError,       \* GetAPIServerTLSProfile returned an error
  TLSProfiles,      \* configv1.TLSProfiles: profile type -> TLSProfileSpec
  opensslToGoCipher,\* the OpenSSL names tls.go maps to Go suites
  tls13Ciphers,     \* the TLS 1.3 names tls.go skips
  GoDefaultSuites,  \* the suites crypto/tls negotiates when CipherSuites is nil
  Fetches           \* what GetAPIServerTLSProfile may return

(* protocolVersionMap *)
protocolVersionMap ==
  [v \in {"VersionTLS10", "VersionTLS11", "VersionTLS12", "VersionTLS13"} |->
     CASE v = "VersionTLS10" -> 10 [] v = "VersionTLS11" -> 11
       [] v = "VersionTLS12" -> 12 [] OTHER -> 13]

(* A profile type the switch does not name resolves like a nil profile. *)
ResolveTLSProfileSpec(profile) ==
  CASE profile = Nil -> TLSProfiles["Intermediate"]
    [] profile.type = "Custom" /\ profile.custom # Nil -> profile.custom
    [] profile.type = "Custom" -> TLSProfiles["Intermediate"]
    [] profile.type = "Old" -> TLSProfiles["Old"]
    [] profile.type = "Modern" -> TLSProfiles["Modern"]
    [] OTHER -> TLSProfiles["Intermediate"]

(* TLS 1.3 names and names without a Go suite are skipped; nothing       *)
(* appended leaves the slice nil.                                        *)
CipherSuites(opensslCiphers) ==
  LET kept == SelectSeq(opensslCiphers, LAMBDA n : n \notin tls13Ciphers
                                                  /\ n \in DOMAIN opensslToGoCipher)
  IN  IF kept = <<>> THEN Nil ELSE [i \in DOMAIN kept |-> opensslToGoCipher[kept[i]]]

MinTLSVersion(v) == IF v \in DOMAIN protocolVersionMap THEN protocolVersionMap[v] ELSE 12

VARIABLES
  phase,        \* "start", "created" (closure returned), "applied"
  spec,         \* the TLSProfileSpec the closure was built from
  minVersion,   \* captured by the closure
  cipherSuites, \* captured by the closure
  config        \* the server's tls.Config: [MinVersion, CipherSuites]

vars == <<phase, spec, minVersion, cipherSuites, config>>

(* A server's tls.Config before TLSOpts run: zero values. *)
Init ==
  /\ phase = "start" /\ spec = Nil /\ minVersion = 0 /\ cipherSuites = Nil
  /\ config = [MinVersion |-> 0, CipherSuites |-> Nil]

(* A fetch error is logged and the nil profile resolves to Intermediate. *)
NewTLSConfigApplicator ==
  /\ phase = "start"
  /\ \E fetched \in Fetches :
       LET profile == IF fetched = FetchError THEN Nil ELSE fetched
           s == ResolveTLSProfileSpec(profile)
       IN  /\ spec' = s
           /\ minVersion' = MinTLSVersion(s.minTLSVersion)
           /\ cipherSuites' = CipherSuites(s.ciphers)
  /\ phase' = "created"
  /\ UNCHANGED config

(* controller-runtime calls the closure on the server's config. *)
ApplyTLSOpts ==
  /\ phase = "created"
  /\ config' = [MinVersion |-> minVersion, CipherSuites |-> cipherSuites]
  /\ phase' = "applied"
  /\ UNCHANGED <<spec, minVersion, cipherSuites>>

Next == NewTLSConfigApplicator \/ ApplyTLSOpts

Spec == Init /\ [][Next]_vars
-----------------------------------------------------------------------------
(* The suites a TLS 1.2 handshake may pick under config c. *)
Negotiable(c) == IF c.CipherSuites = Nil THEN GoDefaultSuites ELSE ToSet(c.CipherSuites)

(* The Go suites the resolved profile lists. *)
ProfileSuites(s) == {opensslToGoCipher[n] : n \in ToSet(s.ciphers) \cap DOMAIN opensslToGoCipher}

(* tls.go:177-183 says the applicator applies the profile's MinVersion   *)
(* and CipherSuites: a server that still accepts TLS 1.2 or older        *)
(* negotiates only suites the profile lists.  When none of the profile's *)
(* ciphers has a Go suite, CipherSuites returns nil and crypto/tls falls *)
(* back to its own default list.                                         *)
NegotiableWithinProfile ==
  phase = "applied" /\ config.MinVersion < 13
    => Negotiable(config) \subseteq ProfileSuites(spec)
=============================================================================
