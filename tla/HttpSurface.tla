------------------------------ MODULE HttpSurface ------------------------------
(***************************************************************************)
(* One HTTP request from its arrival to its answer: body parser, router,   *)
(* ClaimAuthGuard, pipes, handler and GlobalHttpExceptionFilter, while     *)
(* claims come and go and tokens end.                                      *)
(*                                                                         *)
(* A path is the route that Express serves it with, and whether it is      *)
(* spelled as the route is declared: Express also takes a trailing slash   *)
(* and other letter case, which the filter's table does not.               *)
(***************************************************************************)
EXTENDS Disruptions

CONSTANTS
  Claims, Users, OwnerOf,        \* OwnerOf[c] is the identity of claim c
  Tokens, NoIdentity,
  Bearer,                        \* sub of a token; NoIdentity if it is no good
  Shapeless                      \* tokens whose header is the JSON text "null"

ASSUME HttpAssumption ==
  /\ OwnerOf \in [Claims -> Users]
  /\ NoIdentity \notin Users
  /\ Bearer \in [Tokens -> Users \cup {NoIdentity}]
  /\ \A t \in Shapeless : Bearer[t] = NoIdentity

VARIABLES
  rows,      \* claims that have a row
  expired, revoked,
  request,
  pc,        \* the command the request awaits, or "answered"
  status,    \* of the answer
  late,      \* its token had ended when the request arrived
  entered    \* createClaim has been called

worldVars == <<rows, expired, revoked>>
httpVars == <<worldVars, request, pc, status, late, entered, disruptions>>
-----------------------------------------------------------------------------
Methods == {"GET", "HEAD", "POST", "DELETE"}
\* / , /api/claims, .../actuator/health, /actuator/health, /actuator/prometheus
PlainRoutes == {"status", "claims", "claimsHealth", "health", "prometheus"}

\* The decorated handlers.  Express serves HEAD with the handler of GET.
Serves(route) ==
  CASE route = "claims"  -> {"GET", "HEAD", "POST"}
    [] route = "unknown" -> {}
    [] OTHER             -> {"GET", "HEAD"}
Guarded == {"claims", "claim"}   \* claimsHealth is @Public()

Path == [route : PlainRoutes \cup {"unknown"}, exact : {TRUE}, id : {"none"}]
          \cup [route : PlainRoutes \ {"status"}, exact : {FALSE}, id : {"none"}]
          \cup [route : {"claim"}, exact : BOOLEAN, id : Claims \cup {"actuator", "notUuid"}]
\* tooLarge: beyond REQUEST_BODY_LIMIT; malformed: no JSON; invalid: refused by
\* the ValidationPipe.
Request == [method : Methods, path : Path, token : Tokens,
            body : {"valid", "invalid", "malformed", "tooLarge"}]
-----------------------------------------------------------------------------
\* The filter.

\* Seeded fault: a route that is missing from the table.
AllowedButPrometheus(path) ==
  CASE path.route = "claims"                    -> {"GET", "POST"}
    [] path.route \in {"unknown", "prometheus"} -> Methods
    [] path.id = "actuator"                     -> Methods
    [] OTHER                                    -> {"GET"}
\* What the table and the regular expression of isKnownPathWithUnsupportedMethod
\* allow on a path; every method where they do not know it.
Allowed(path) ==
  CASE path.route = "claims"  -> {"GET", "POST"}
    [] path.route = "unknown" -> Methods
    [] path.id = "actuator"   -> Methods
    [] OTHER                  -> {"GET"}

IsKnownPathWithUnsupportedMethod ==
  request.path.exact /\ request.method \notin Allowed(request.path)

\* resolveStatus, of an HttpException with this status; any other exception is
\* taken for a 500.
ResolveStatus(code) ==
  IF code = 404 /\ IsKnownPathWithUnsupportedMethod THEN 405 ELSE code

Respond(code) == pc' = "answered" /\ status' = code
Throw(code) == Respond(ResolveStatus(code))
-----------------------------------------------------------------------------
HttpInit ==
  /\ rows \in SUBSET Claims
  /\ expired = {} /\ revoked = {}
  /\ request \in Request
  /\ pc = "arriving"
  /\ status = 0
  /\ late = FALSE
  /\ entered = FALSE
  /\ disruptions = NoDisruptions

\* json() and urlencoded(), before any route: a SyntaxError becomes a 400, the
\* error of a body that is too large is no HttpException.
ParserRefuses ==
  \/ request.body = "malformed" /\ Throw(400)
  \/ request.body = "tooLarge" /\ Throw(500)

\* extractToken and verifyToken up to the await.  Of "null" header.alg cannot be
\* read, and a TypeError is no HttpException.
RefusedToken == IF request.token \in Shapeless THEN 500 ELSE 401
Genuine == Bearer[request.token] # NoIdentity /\ request.token \notin expired

Routed ==
  LET route == request.path.route
  IN  \/ request.method \notin Serves(route) /\ Throw(404)
      \/ request.method \in Serves(route) /\ route \notin Guarded /\ Respond(200)
      \/ /\ request.method \in Serves(route) /\ route \in Guarded
         /\ \/ ~Genuine /\ Throw(RefusedToken)
            \/ Genuine /\ pc' = "exists" /\ UNCHANGED status

Arrive ==
  /\ pc = "arriving"
  /\ IF request.body \in {"malformed", "tooLarge"} THEN ParserRefuses ELSE Routed
  /\ late' = (request.token \in expired \cup revoked)
  /\ UNCHANGED <<worldVars, request, entered, disruptions>>

\* Seeded fault: a failed look-up counts as "not revoked".
PassesUnlessFound(o) == Throws(o) \/ request.token \notin revoked
\* isRevoked answers, and answers no.
Passes(o) == ~Throws(o) /\ request.token \notin revoked

\* Seeded fault: the global pipe is left out.
PipesButNoDto == request.path.id \notin {"actuator", "notUuid"}
\* ParseUUIDPipe and ValidationPipe accept the arguments of the handler.
PipesAccept ==
  /\ request.path.id \notin {"actuator", "notUuid"}
  /\ request.method = "POST" => request.body = "valid"

\* isRevoked: EXISTS, a failure of which is no HttpException; then the pipes.
Exists ==
  /\ pc = "exists"
  /\ \E o \in RedisRead :
       /\ Suffer(o)
       /\ IF Passes(o)
          THEN \/ ~PipesAccept /\ Throw(400)
               \/ PipesAccept /\ pc' = "handler" /\ UNCHANGED status
          ELSE Throw(IF Throws(o) THEN 500 ELSE 401)
  /\ UNCHANGED <<worldVars, request, late, entered>>

\* The where clause of getClaim.
OwnClaim(c) == c \in rows /\ OwnerOf[c] = Bearer[request.token]

\* getClaim and getAllClaims.
Read ==
  /\ pc = "handler" /\ request.method # "POST"
  /\ \E o \in DbRead :
       /\ Suffer(o)
       /\ \/ Throws(o) /\ Throw(500)
          \/ /\ ~Throws(o)
             /\ IF request.path.route = "claims" \/ OwnClaim(request.path.id)
                THEN Respond(200) ELSE Throw(404)
  /\ UNCHANGED <<worldVars, request, late, entered>>

\* createClaim, whose steps are those of ClaimCreation: 201, throttled,
\* "already being processed" or overloaded; after a failure also 500 (outside
\* its try block, or out of its catch clause) or 502.
Create ==
  /\ pc = "handler" /\ request.method = "POST"
  /\ entered' = TRUE
  /\ \/ (\E code \in {201, 429, 502, 503} : Throw(code)) /\ UNCHANGED disruptions
     \/ (\E code \in {201, 500, 502} : Throw(code)) /\ \E o \in Kinds : Suffer(o)
  /\ UNCHANGED <<worldVars, request, late>>

\* Others create and withdraw claims; the token expires or is revoked (other
\* tokens play no part).
WorldMoves ==
  /\ pc # "answered"
  /\ \/ /\ \E c \in Claims : rows' = IF c \in rows THEN rows \ {c} ELSE rows \cup {c}
        /\ UNCHANGED <<expired, revoked>>
     \/ expired' = expired \cup {request.token} /\ UNCHANGED <<rows, revoked>>
     \/ revoked' = revoked \cup {request.token} /\ UNCHANGED <<rows, expired>>
  /\ UNCHANGED <<request, pc, status, late, entered, disruptions>>

HttpNext == Arrive \/ Exists \/ Read \/ Create \/ WorldMoves
HttpSpec == HttpInit /\ [][HttpNext]_httpVars
-----------------------------------------------------------------------------
\* README: "All claim endpoints require Authorization".  What a claim route
\* gives or does, it does for a token that had not ended when the request came,
\* whether or not Redis answers; and a claim is shown to its owner only.
OnlyForBearers ==
  status \in {200, 201} /\ request.path.route \in Guarded =>
    /\ Bearer[request.token] # NoIdentity /\ ~late
    /\ request.path.route = "claim" => OwnerOf[request.path.id] = Bearer[request.token]

\* createClaim sees valid bodies of genuine tokens only, and no request that
\* has reached it is told that it was malformed, unauthorized or misplaced.
RefusedDoesNothing ==
  entered => /\ request.body = "valid" /\ ~late
             /\ status \notin {400, 401, 404, 405}

\* A 500 is the failure of a store, the error of the body parser that Nest does
\* not know, or a token of which verifyToken cannot read a field.
InternalErrorHasCause ==
  status = 500 => \/ Suffered(AllKinds) > 0
                  \/ request.body = "tooLarge"
                  \/ request.token \in Shapeless

\* The filter's table agrees with the routes that the controllers declare: a
\* 405 means that the path is served, but not with this method (HEAD, which
\* Express serves with GET, is not in the table) ...
NotAllowedIsTrue ==
  status = 405 /\ request.method # "HEAD" =>
    Serves(request.path.route) # {} /\ request.method \notin Serves(request.path.route)

\* ... and a 404, on a path spelled as declared, that nothing serves it, or
\* that there is no such claim.  (/api/claims/actuator is left out by design.)
NotFoundIsTrue ==
  status = 404 /\ request.path.exact /\ request.path.id # "actuator" =>
    \/ request.path.route = "unknown"
    \/ request.path.route = "claim" /\ request.method \in Serves("claim")

\* Whatever fails or changes on the way, the status that the filter answers
\* says what happened to the request.
StatusIsTrue == InternalErrorHasCause /\ NotAllowedIsTrue /\ NotFoundIsTrue
=============================================================================
