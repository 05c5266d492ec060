\* Every fetch outcome: an error, no profile, each predefined type, a
\* Custom type without its spec, an unknown type, and the custom specs.
CONSTANTS
  NilValue = NilValue
  FetchErrorValue = FetchErrorValue
  Nil <- NilValue
  FetchError <- FetchErrorValue
  TLSProfiles <- MCTLSProfiles
  opensslToGoCipher <- MCGoCipher
  tls13Ciphers = {"TLS_AES_128_GCM_SHA256"}
  GoDefaultSuites <- MCGoDefaultSuites
  Fetches <- MCFetches
SPECIFICATION Spec
INVARIANT NegotiableWithinProfile
\* The closure is built and applied once, at start-up.
CHECK_DEADLOCK FALSE
