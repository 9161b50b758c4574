---------------------------- MODULE McpProtocol ----------------------------
(***************************************************************************)
(* mcp_server.py: how a message to the MCP server is let in, checked,      *)
(* answered and dispatched, over HTTP and over a WebSocket, and the        *)
(* model selection that one HTTP tool call of the agent may take with it.  *)
(*                                                                         *)
(* A request is [surface, from, bearer, body, version, method, id, params, *)
(* tool, entry, token].  `params` tells whether they are the objects that  *)
(* the method needs, `tool` what its name stands for, `entry` the profile  *)
(* of its context.                                                         *)
(***************************************************************************)
EXTENDS Integers, Sequences

CONSTANT NoValue  \* an absent field

ASSUME AbsentAssumption == NoValue \notin Int

Loopback == 0

-----------------------------------------------------------------------------
(* Who may ask.  An entry of the allow-list is the set of addresses that it     *)
(* covers: one for an address, several for a range, none for a host's name.     *)

AllowedEntries(settings) == {{Loopback}, settings.host} \cup settings.extra

IpAllowed(settings, address) == \E entry \in AllowedEntries(settings) : address \in entry

\* _request_authorization_value: the header, or the query if that is allowed.
Bearer(settings, request) ==
  CASE request.bearer.header # NoValue -> request.bearer.header
    [] request.bearer.header = NoValue /\ settings.query -> request.bearer.query
    [] OTHER -> NoValue

Authenticated(settings, request) ==
  settings.bearer # NoValue => Bearer(settings, request) = settings.bearer

Answered(status, code, id) == [status |-> status, code |-> code, id |-> id]
NoAnswer == Answered(NoValue, NoValue, NoValue)
Result == 0  \* not an error code

\* Outside of the protocol a refusal is a plain response.
Refusal(settings, request) ==
  LET code(c) == IF request.surface = "http" THEN c ELSE NoValue
  IN  CASE ~IpAllowed(settings, request.from) -> Answered(403, code(-32000), NoValue)
        [] ~Authenticated(settings, request) -> Answered(401, code(-32001), NoValue)
        [] OTHER -> NoAnswer

-----------------------------------------------------------------------------
(* The server: the model requests retained, and the tools that were run, each   *)
(* with the selection it ran under.                                             *)

Idle == [retained |-> {}, ran |-> <<>>]

Retained(server, token) == {call \in server.retained : call.token = token}

\* discard_model_request
Discard(server, token) ==
  [server EXCEPT !.retained = @ \ Retained(server, token)]

\* _take_model_request: consumed whether it fits or not.
Fits(server, request) ==
  \E call \in Retained(server, request.token) :
    /\ request.from = Loopback
    /\ request.method = "tools/call" /\ request.id = call.id
    /\ request.params /\ request.tool = call.tool
    /\ request.entry = call.entry

Names == {"core", "custom", "breaking", "disabled", "meta", "unknown", "image"}

\* _handle_tool_call: what is not served is told so in a result.
Runs(request) == request.tool \in {"core", "custom", "breaking", "image"}

\* process_mcp_message
Reply(request) ==
  CASE request.method \in {"initialize", "tools/list", "tools/call"} /\ ~request.params -> -32602
    [] request.method = "tools/call" /\ request.params /\ request.tool \notin Names -> -32602
    [] request.method = "tools/call" /\ request.params /\ request.tool = "breaking" -> -32603
    [] request.method \in {"initialize", "tools/list"} /\ request.params -> Result
    [] request.method = "tools/call" /\ request.params /\ request.tool \in Names -> Result
    [] OTHER -> -32601

Dispatched(request) ==
  request.method = "tools/call" /\ request.params /\ request.tool \in Names /\ Runs(request)

\* Mutant: a message without an id is dispatched like any other.
ProcessedAlways(server, request, selection) ==
  [server EXCEPT !.ran = IF Dispatched(request)
                         THEN Append(@, [id |-> request.id, selection |-> selection]) ELSE @]

\* A message with an id is answered, one without is a notification.
Processed(server, request, selection) ==
  IF request.id = NoValue THEN server
  ELSE [server EXCEPT !.ran = IF Dispatched(request)
                              THEN Append(@, [id |-> request.id, selection |-> selection]) ELSE @]

\* handle_mcp_request after it has been let in
HttpAnswer(server, request) ==
  LET taken == Discard(server, request.token)
      selection == IF request.token = NoValue THEN NoValue ELSE request.entry
  IN  CASE request.body = "broken" ->
             [server |-> server, answer |-> Answered(400, -32700, NoValue)]
        [] request.body = "list" ->
             [server |-> server, answer |-> Answered(400, -32600, NoValue)]
        [] request.body = "object" /\ (~request.version \/ request.method = NoValue) ->
             [server |-> server, answer |-> Answered(400, -32600, request.id)]
        [] request.body = "object" /\ request.version /\ request.method # NoValue
           /\ request.token # NoValue /\ ~Fits(server, request) ->
             [server |-> taken, answer |-> Answered(400, -32600, request.id)]
        [] OTHER ->
             [server |-> Processed(IF request.token = NoValue THEN server ELSE taken,
                                   request, selection),
              answer |-> IF request.id = NoValue THEN Answered(204, NoValue, NoValue)
                         ELSE Answered(200, Reply(request), request.id)]

\* handle_websocket: one message, on a connection that was let in
SocketAnswer(server, request) ==
  CASE request.body = "broken" ->
         [server |-> server, answer |-> Answered(NoValue, -32700, NoValue)]
    [] request.body = "list" ->
         [server |-> server, answer |-> Answered(NoValue, -32600, NoValue)]
    [] OTHER -> [server |-> Processed(server, request, NoValue),
                 answer |-> IF request.id = NoValue THEN NoAnswer
                            ELSE Answered(NoValue, Reply(request), request.id)]

Serve(settings, server, request) ==
  LET refusal == Refusal(settings, request)
  IN  CASE refusal # NoAnswer -> [server |-> server, answer |-> refusal]
        [] refusal = NoAnswer /\ request.surface = "http" -> HttpAnswer(server, request)
        [] OTHER -> SocketAnswer(server, request)

=============================================================================
