------------------------------ MODULE HttpUtil ------------------------------
(***************************************************************************)
(* mockgo/util/http.go: the checks that are wrapped around the handlers of *)
(* the http API.  A check yields the status the request is refused with,   *)
(* or Pass when it hands the request on.  Statuses have the names of       *)
(* net/http.  A request is a record: health tells whether its path ends    *)
(* with /health, auth whether its credentials are the configured ones,     *)
(* contentType and accept are the two headers, vars the path variables.    *)
(***************************************************************************)
EXTENDS Naturals, Sequences, SequencesExt

Pass == ""
JSON == "application/json"
Statuses == {"OK", "NoContent", "BadRequest", "Unauthorized", "NotFound", "UnsupportedMediaType",
             "InternalServerError"}

\* Applied to every route below the prefix of the API.
BasicAuthMiddleware(r) == IF r.health \/ r.auth THEN Pass ELSE "Unauthorized"

JSONContentTypeRequest(r) == IF r.contentType = JSON THEN Pass ELSE "UnsupportedMediaType"

JSONAcceptRequest(r) == IF r.accept = JSON THEN Pass ELSE "UnsupportedMediaType"

\* The router binds no variable to an empty segment, so a routed request passes.
PathParamRequest(r) == IF \E p \in DOMAIN r.vars : r.vars[p] = "" THEN "NotFound" ELSE Pass

\* What a chain of checks comes to: the outermost that refuses decides.
Chain(checks) ==
    LET refusal == SelectInSeq(checks, LAMBDA s : s # Pass)
    IN  IF refusal = 0 THEN Pass ELSE checks[refusal]

\* A string is written as it is, anything else as its JSON text if it has one.
WriteEntity(encodable) == IF encodable THEN "OK" ELSE "InternalServerError"
=============================================================================
