-------------------------------- MODULE Logging --------------------------------
(***************************************************************************)
(* Correlation ids and log lines: CorrelationIdMiddleware, the             *)
(* AsyncLocalStorage of CorrelationContextService, and LoggerService.      *)
(*                                                                         *)
(* Requests and the worker loop write lines in any order.  What is logged  *)
(* is a tree; of its keys only their being sensitive matters.              *)
(***************************************************************************)
EXTENDS Naturals, Sequences, Functions, TLC

CONSTANTS
  Requests, Worker,      \* the tasks of the process
  Supplied,              \* well-formed ids a client may send
  NoId, Untold,          \* no id yet, and never one
  Trees, Depth,          \* what may be logged or written, and how deep each is
  Metadata,              \* second arguments of the logger
  Sensitive,             \* keys with password, token, secret, ... in them
  LogLevel               \* LOG_LEVEL, in lower case; "info" if it is unset

Tasks == Requests \cup {Worker}
Fresh(r) == <<"uuid", r>>                       \* randomUUID() for r
-----------------------------------------------------------------------------
\* Trees: a text, an Error, an array, an object.
Text(text)     == [kind |-> "text", text |-> text]
Error(name, message, more) ==
  [kind |-> "error", name |-> name, message |-> message, more |-> more]
Array(items)   == [kind |-> "array", items |-> items]
Object(fields) == [kind |-> "object", fields |-> fields]

IsTree(t) ==
  \/ t.kind = "text" /\ t = Text(t.text)
  \/ t.kind = "error" /\ t = Error(t.name, t.message, t.more)
  \/ t.kind = "array" /\ t = Array(t.items)
       /\ \A i \in DOMAIN t.items : ToString(i) \in STRING \ Sensitive
  \/ t.kind = "object" /\ t = Object(t.fields) /\ DOMAIN t.fields \subseteq STRING
Parts(t) ==
  CASE t.kind = "array"  -> Range(t.items)
    [] t.kind = "object" -> Range(t.fields)
    [] OTHER             -> {}

\* Trees are finite, and no key is that of a field of the line.
ASSUME LoggingAssumption ==
  /\ Worker \notin Requests
  /\ {NoId, Untold} \cap (Supplied \cup {Fresh(r) : r \in Requests}) = {}
  /\ Depth \in [Trees -> Nat]
  /\ \A t \in Trees :
       IsTree(t) /\ \A part \in Parts(t) : part \in Trees /\ Depth[part] < Depth[t]
  /\ Metadata \subseteq Trees
  /\ \A meta \in Metadata : meta.kind = "object" => "correlationId" \notin DOMAIN meta.fields
  /\ {"name", "message"} \cap Sensitive = {}

RedactedText == "[REDACTED]"
Redacted == Text(RedactedText)
OfError(error) == Object([name |-> Text(error.name), message |-> Text(error.message)])

\* Seeded fault: what is in an array is taken as it is.
SanitizeObjects(sanitized, value) ==
  CASE value.kind = "error"  -> OfError(value)
    [] value.kind = "object" ->
         Object([key \in DOMAIN value.fields |->
                   IF key \in Sensitive THEN Redacted ELSE sanitized[value.fields[key]]])
    [] OTHER -> value
\* sanitize of a value, given what it is of the parts.
SanitizeOf(sanitized, value) ==
  CASE value.kind = "error"  -> OfError(value)
    [] value.kind = "array"  -> Array([i \in DOMAIN value.items |-> sanitized[value.items[i]]])
    [] value.kind = "object" ->
         Object([key \in DOMAIN value.fields |->
                   IF key \in Sensitive THEN Redacted ELSE sanitized[value.fields[key]]])
    [] OTHER -> value
Sanitize[value \in Trees] == SanitizeOf(Sanitize, value)

\* What is written is a tree as well.
ASSUME WrittenAssumption == \A t \in Trees : Sanitize[t] \in Trees

\* { ...first, ...second }
Spread(first, second) ==
  [key \in DOMAIN first \cup DOMAIN second |->
     IF key \in DOMAIN second THEN second[key] ELSE first[key]]

\* What write makes of its second argument: the fields of an object.  A string
\* is the context of the line, except that error takes it for a stack.
Payload(level, meta) ==
  IF meta.kind \in {"object", "error"}
  THEN Sanitize[meta].fields
  ELSE [key \in {k \in {"stack", "context"} : meta.kind = "text" /\ (k = "stack" <=> level = "error")}
          |-> meta]

Levels == <<"debug", "verbose", "log", "warn", "error", "fatal">>
Priority(level) == CHOOSE i \in DOMAIN Levels : Levels[i] = level

\* shouldLog.
ShouldLog(level) ==
  Priority(level) >= Priority(IF LogLevel \in Range(Levels) THEN LogLevel ELSE "log")
-----------------------------------------------------------------------------
VARIABLES
  context,     \* getStore() in each task
  idHeader,    \* X-Correlation-ID of each response
  line         \* the last line that was written, who wrote it, and of what

logVars == <<context, idHeader, line>>

LogInit ==
  /\ context = [t \in Tasks |-> NoId]
  /\ idHeader = [r \in Requests |-> NoId]
  /\ line = [by |-> Worker, meta |-> Text("none"), fields |-> <<>>]

\* Seeded fault: the id is kept in a field of the service.
SharedContext(r, id) == [t \in Tasks |-> id]
\* AsyncLocalStorage.run: the store of the callback and what it awaits.
RunContext(r, id) == [context EXCEPT ![r] = id]

\* The middleware: a header that is not well-formed counts as none.
Use(r) ==
  /\ idHeader[r] = NoId
  /\ \E id \in Supplied \cup {Fresh(r)} :
       /\ idHeader' = [idHeader EXCEPT ![r] = id]
       /\ context' = RunContext(r, id)
  /\ UNCHANGED line

\* The body parser refuses the request: it runs before the middleware, and the
\* exception filter answers and logs without an id.
StayUntold(r) ==
  /\ idHeader[r] = NoId
  /\ idHeader' = [idHeader EXCEPT ![r] = Untold]
  /\ UNCHANGED <<context, line>>

\* write; the payload is spread last, over what the line has already.
Write(task, level, meta) ==
  /\ task \in Requests => idHeader[task] # NoId
  /\ ShouldLog(level)
  /\ LET id   == [key \in {k \in {"correlationId"} : context[task] # NoId} |-> Text(context[task])]
         base == Spread([level |-> Text(level)], id)
     IN  line' = [by |-> task, meta |-> meta, fields |-> Spread(base, Payload(level, meta))]
  /\ UNCHANGED <<context, idHeader>>

LogNext ==
  \/ \E r \in Requests : Use(r) \/ StayUntold(r)
  \/ \E task \in Tasks, level \in {"debug", "log", "error"}, meta \in Metadata :
       Write(task, level, meta)

LogSpec == LogInit /\ [][LogNext]_logVars
-----------------------------------------------------------------------------
\* The texts of a tree that JSON would show, each with the keys that lead to it,
\* innermost first; of an Error the name and the message.
Under(key, leaves) == {<<Append(leaf[1], key), leaf[2]>> : leaf \in leaves}
LeavesOf(leaves, tree) ==
  CASE tree.kind = "text"   -> {<<<<>>, tree.text>>}
    [] tree.kind = "error"  -> {<<<<"name">>, tree.name>>, <<<<"message">>, tree.message>>}
    [] tree.kind = "array"  -> UNION {Under(ToString(i), leaves[tree.items[i]]) : i \in DOMAIN tree.items}
    [] tree.kind = "object" -> UNION {Under(k, leaves[tree.fields[k]]) : k \in DOMAIN tree.fields}
Leaves[tree \in Trees] == LeavesOf(Leaves, tree)
Public(leaves) == {leaf \in leaves : Range(leaf[1]) \cap Sensitive = {}}

\* A line names the request that it was written for, by the id that its client
\* is told, however requests and the worker interleave; no other line names one.
LinesNameTheirRequest ==
  LET named == "correlationId" \in DOMAIN line.fields
  IN  /\ named => line.by # Worker /\ line.fields["correlationId"] = Text(idHeader[line.by])
      /\ ~named /\ line.fields # <<>> => line.by = Worker \/ idHeader[line.by] = Untold

\* What is under a sensitive key, at any depth, is not written, nor is what an
\* Error carries besides its message; everything else is, where it was.
OnlySecretsAreHidden ==
  line.meta.kind = "object" =>
    LET written == Leaves[Object([k \in DOMAIN line.meta.fields |-> line.fields[k]])]
    IN  /\ Public(written) = Public(Leaves[line.meta])
        /\ \A leaf \in written \ Public(written) : leaf[2] = RedactedText
=============================================================================
