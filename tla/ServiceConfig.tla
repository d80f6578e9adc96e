----------------------------- MODULE ServiceConfig -----------------------------
(***************************************************************************)
(* From the environment of a process to its configuration, and to whom the *)
(* WebSocket server lets in.  The configuration is read while modules are  *)
(* loaded, then by bootstrap, and kept.                                    *)
(*                                                                         *)
(* A function that throws is an empty set of results.                      *)
(***************************************************************************)
EXTENDS Integers

CONSTANTS
  OptionalInts, RequiredInts,   \* names of variables
  Fallback,                     \* of the optional ones
  Raws,                         \* what an integer variable may say
  IntegerOf,                    \* Number of those that are integers to it
  Minimum,                      \* length of the required strings; 1 if none is given
  MaxText,                      \* bound on the length of a string
  Sites,                        \* host and port
  DefaultOrigin

Ints == OptionalInts \cup RequiredInts
Unset == {"absent", ""}
RequiredStrings == DOMAIN Minimum

\* The Origin header: a browser writes the origin of a page as URL.origin does,
\* other clients may send none.
PageOrigin == [scheme : {"http", "https"}, site : Sites, plain : {TRUE}]
NoOrigin == [scheme |-> "none", site |-> "none", plain |-> FALSE]

ASSUME ConfigAssumption ==
  /\ OptionalInts \cap RequiredInts = {}
  /\ Fallback \in [OptionalInts -> Nat \ {0}]
  /\ DOMAIN IntegerOf \subseteq Raws /\ IntegerOf \in [DOMAIN IntegerOf -> Int]
  /\ \A raw \in Unset \cap DOMAIN IntegerOf : IntegerOf[raw] = 0
  /\ DefaultOrigin \in PageOrigin
  /\ Minimum \in [RequiredStrings -> Nat \ {0}] /\ MaxText \in Nat

VARIABLES
  env,
  config,       \* cachedConfig: none, or one
  corsOrigin,   \* origin of the decorator's cors option
  phase,
  lastOrigin, verdict   \* Origin header of the last handshake, and the answer

configVars == <<env, config, corsOrigin, phase, lastOrigin, verdict>>

\* An origin is a scheme and a site, written as URL.origin writes it or not.
Origin == [scheme : {"http", "https", "ftp"}, site : Sites, plain : BOOLEAN]
\* Whether a URL has more to it: credentials, a path, a query, a fragment.
URL == [origin : Origin, more : BOOLEAN]
Wildcard == "*"
\* What parseOrigin may be given: nothing, blanks, a wildcard, no URL, a URL.
OriginText == [kind : {"absent", "blank", Wildcard, "garbage"}]
                 \cup [kind : {"url"}, url : URL]
\* A string is so long, and so much longer with the blanks around it; one of
\* length 0 is absent, empty, or nothing but blanks.
Setting == [length : 0..MaxText, blanks : 0..1]

Env == [int : [Ints -> Raws], text : [RequiredStrings -> Setting], origin : OriginText]
-----------------------------------------------------------------------------
\* Number, Number.isInteger and the test of the sign.
Positive(raw) ==
  IF raw \in DOMAIN IntegerOf THEN {IntegerOf[raw]} \cap (Nat \ {0}) ELSE {}

\* parsePositiveInt without a fallback, and parseOptionalInt.
ParseInt(name) ==
  IF env.int[name] \notin Unset THEN Positive(env.int[name])
  ELSE IF name \in OptionalInts THEN {Fallback[name]} ELSE {}

\* Seeded fault: the blanks count.
LongWithBlanks(text, minimum) == text.length + text.blanks >= minimum
\* The test of minimumLength, after trim.
LongEnough(text, minimum) == text.length >= minimum

\* parseRequiredString: the text without the blanks around it.
ParseString(name) ==
  IF env.text[name].length > 0 /\ LongEnough(env.text[name], Minimum[name])
  THEN {env.text[name].length} ELSE {}

\* Seeded fault: the origin is kept as it was written.
AsWritten(url) == url.origin
\* parsed.origin.
OriginOf(url) ==
  [scheme |-> url.origin.scheme, site |-> url.origin.site, plain |-> TRUE]

\* parseOrigin.
ParseOrigin ==
  CASE env.origin.kind \in {"absent", "blank"} -> {DefaultOrigin}
    [] env.origin.kind = "url" ->
         {OriginOf(url) : url \in {u \in {env.origin.url} :
                                     u.origin.scheme \in {"http", "https"} /\ ~u.more}}
    [] OTHER -> {}

\* loadClaimServiceConfig: no configuration if any part throws.
Loaded ==
  {[int |-> int, text |-> text, origin |-> origin] :
     int \in {f \in [Ints -> UNION {ParseInt(n) : n \in Ints}] :
                \A n \in Ints : f[n] \in ParseInt(n)},
     text \in {f \in [RequiredStrings -> 0..MaxText] :
                 \A n \in RequiredStrings : f[n] \in ParseString(n)},
     origin \in ParseOrigin}

\* getClaimServiceConfig.
Got == IF config = {} THEN Loaded ELSE config
-----------------------------------------------------------------------------
ConfigInit ==
  /\ env \in Env
  /\ config = {} /\ corsOrigin = {}
  /\ phase = "importing"
  /\ lastOrigin = NoOrigin
  /\ verdict = "none"

\* The first reading: by tracing-register.ts, which the image preloads, and
\* otherwise by the decorator of ClaimGateway, evaluated when main.ts imports
\* AppModule.  Both find the same environment and the same cache.
Import ==
  /\ phase = "importing"
  /\ config' = Got
  /\ corsOrigin' = {c.origin : c \in Got}
  /\ phase' = IF Got = {} THEN "failed" ELSE "starting"
  /\ UNCHANGED <<env, lastOrigin, verdict>>

\* bootstrap; a load that throws leaves the cache as it was.
Bootstrap ==
  /\ phase = "starting"
  /\ config' = IF Loaded = {} THEN config ELSE Loaded
  /\ phase' = IF Loaded = {} THEN "failed" ELSE "serving"
  /\ UNCHANGED <<env, corsOrigin, lastOrigin, verdict>>

\* resetClaimServiceConfig.
Reset ==
  /\ phase = "serving"
  /\ config' = {}
  /\ UNCHANGED <<env, corsOrigin, phase, lastOrigin, verdict>>

\* allowRequest of a handshake: isAllowedWebSocketOrigin.
Handshake(origin) ==
  /\ phase = "serving"
  /\ config' = Got
  /\ lastOrigin' = origin
  /\ verdict' = IF origin # NoOrigin /\ \E c \in Got : origin = c.origin
                THEN "admitted" ELSE "refused"
  /\ UNCHANGED <<env, corsOrigin, phase>>

ConfigNext ==
  \/ Import \/ Bootstrap \/ Reset
  \/ \E origin \in PageOrigin \cup {NoOrigin} : Handshake(origin)

ConfigSpec == ConfigInit /\ [][ConfigNext]_configVars
-----------------------------------------------------------------------------
\* A page of the URL that the operator has configured is let in however that
\* URL is written, no other page is, and a browser that is let in is also told
\* so by the CORS headers, which were fixed before main.ts read anything.
ConfiguredPagesOnly ==
  verdict # "none" =>
    LET configured == IF env.origin.kind = "url" THEN env.origin.url.origin
                      ELSE DefaultOrigin
        isItsPage == /\ lastOrigin.scheme = configured.scheme
                     /\ lastOrigin.site = configured.site
    IN  /\ verdict = "admitted" <=> isItsPage
        /\ verdict = "admitted" <=> lastOrigin \in corsOrigin

\* As far as its configuration goes, a process serves exactly if its environment
\* is in order: what is out of order stops it at the first reading, and never
\* at the second.
ServesIfInOrder ==
  LET inOrder ==
        /\ \A n \in Ints : \/ env.int[n] \in Unset /\ n \in OptionalInts
                           \/ env.int[n] \in {raw \in DOMAIN IntegerOf : IntegerOf[raw] > 0}
        /\ \A n \in RequiredStrings : env.text[n].length >= Minimum[n]
        /\ env.origin.kind \notin {Wildcard, "garbage"}
        /\ env.origin.kind = "url" => /\ env.origin.url.origin.scheme # "ftp"
                                      /\ ~env.origin.url.more
  IN  /\ phase \in {"starting", "serving"} => inOrder
      /\ phase = "failed" => ~inOrder /\ config = {}
=============================================================================
