---------------------------- MODULE LibraryCodes ----------------------------
(***************************************************************************)
(* The codes package code declares, one record per const block, each with  *)
(* the HTTP statuses its comment offers to mappers.  The default tables of *)
(* package mapper (DefaultTables) are written separately.                  *)
(***************************************************************************)
\* Core and generic domain errors.
CoreCodes ==
  [internal |-> {500}, invalid |-> {400}, missing |-> {400}, unsupported |-> {400, 501}]

\* Runtime and operation control.
RuntimeCodes ==
  [unavailable |-> {503}, timeout |-> {504}, canceled |-> {499, 408},
   dependency_failed |-> {502, 424}, not_ready |-> {503}, draining |-> {503},
   overloaded |-> {503}, throttled |-> {429}]

\* Resources, state and concurrency.
ResourceCodes ==
  [not_found |-> {404}, already_exists |-> {409}, conflict |-> {409},
   precondition_failed |-> {412}, gone |-> {410}, stale_version |-> {409, 412},
   deprecation_rejected |-> {400, 410}]

\* Authentication, authorization and tokens.
AuthCodes ==
  [unauthenticated |-> {401}, invalid_credentials |-> {401},
   permission_denied |-> {403}, token_invalid |-> {401, 440},
   token_expired |-> {401, 440}, token_revoked |-> {401, 440},
   session_expired |-> {440, 401}]

\* The comments of this block that name a gRPC code too.
AuthGRPC ==
  [unauthenticated |-> 16, invalid_credentials |-> 16, permission_denied |-> 7]

\* Mutant: a code is declared, and no default table is told.
RateCodesNew ==
  [expired |-> {410, 400}, too_early |-> {425}, rate_limited |-> {429},
   quota_exceeded |-> {429, 403}, burst_exceeded |-> {429}]

\* Rates, quotas and lifecycles.
RateCodes ==
  [expired |-> {410, 400}, too_early |-> {425}, rate_limited |-> {429},
   quota_exceeded |-> {429, 403}]

Blocks == {CoreCodes, RuntimeCodes, ResourceCodes, AuthCodes, RateCodes}
=============================================================================
