---------------------------- MODULE DefaultTables ----------------------------
(***************************************************************************)
(* The library's codes (code/codes.go) with the HTTP status and the gRPC   *)
(* code (its number in google.golang.org/grpc/codes) each has by default   *)
(* (mapper/defaults.go).  Both tables are package variables of mapper that *)
(* every mapper.New copies.                                                *)
(***************************************************************************)

DefaultHTTP ==
  [internal |-> 500, dependency_failed |-> 502, timeout |-> 504,
   unavailable |-> 503, not_ready |-> 503, draining |-> 503, overloaded |-> 503,
   canceled |-> 408,
   invalid |-> 400, missing |-> 400, unsupported |-> 400, expired |-> 400,
   deprecation_rejected |-> 400, too_early |-> 425,
   not_found |-> 404, gone |-> 410,
   already_exists |-> 409, conflict |-> 409, stale_version |-> 409,
   precondition_failed |-> 412,
   unauthenticated |-> 401, invalid_credentials |-> 401, token_invalid |-> 401,
   token_expired |-> 401, token_revoked |-> 401, session_expired |-> 401,
   permission_denied |-> 403,
   throttled |-> 429, rate_limited |-> 429, quota_exceeded |-> 429]

DefaultGRPC ==
  [internal |-> 13, dependency_failed |-> 9, timeout |-> 4,
   unavailable |-> 14, not_ready |-> 14, draining |-> 14, overloaded |-> 14,
   canceled |-> 1,
   invalid |-> 3, missing |-> 3, unsupported |-> 3, expired |-> 9,
   deprecation_rejected |-> 9, too_early |-> 9,
   not_found |-> 5, gone |-> 5,
   already_exists |-> 6, conflict |-> 10, stale_version |-> 10,
   precondition_failed |-> 9,
   unauthenticated |-> 16, invalid_credentials |-> 16, token_invalid |-> 16,
   token_expired |-> 16, token_revoked |-> 16, session_expired |-> 16,
   permission_denied |-> 7,
   throttled |-> 8, rate_limited |-> 8, quota_exceeded |-> 8]
=============================================================================
