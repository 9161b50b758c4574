------------------------- MODULE TrafficOperations -------------------------
(***************************************************************************)
(* What passes between the agent and a model: streams that come in whole   *)
(* or cut off, requests of several turns in the shape of each API, and the *)
(* choice of a model; and single messages to the MCP server.               *)
(***************************************************************************)
EXTENDS Integers, SequencesExt, OperationFrame, McpProtocol

MCT == INSTANCE MCTraffic
Model == INSTANCE ModelTraffic

\* A stream of tool calls ends, or is cut off after any fragment.
ReadCalls ==
  /\ Ready
  /\ \E sizes \in MCT!Sizes : \E stream \in MCT!Streams(sizes) :
       \E cut \in 1 .. Len(stream) :
         LET came == SubSeq(stream, 1, cut)
         IN  Answer([op |-> "calls", sizes |-> sizes, came |-> came],
                    [valid |-> Model!ValidCalls(Model!Assembled(
                       [i \in DOMAIN came |-> came[i].delta]))])

ReadText ==
  /\ Ready
  /\ \E chunks \in MCT!Chunks : \E lines \in MCT!Lines(chunks), seen \in BOOLEAN :
       Answer([op |-> "text", lines |-> lines], Model!ReadResponse(lines, seen))

\* A request after one or two turns: with tools, or the last one without.
AskAgain ==
  /\ Ready
  /\ \E api \in {"chat", "responses", "anthropic", "ollama"}, history \in MCT!Histories,
        tools \in BOOLEAN :
       \E turns \in {<<t>> : t \in MCT!Turns(1)}
                    \cup {<<t, u>> : t \in MCT!Turns(1), u \in MCT!Turns(2)} :
         /\ Len(turns) = 2 => MCT!GoesOn(turns[1], turns[2])
         /\ Answer([op |-> "ask", api |-> api, tools |-> tools],
                   [payload |-> Model!Payload(api, MCT!After(api, history, turns)
                      \o (IF tools THEN <<>> ELSE <<Model!Instruction>>), tools)])

ChooseModel ==
  /\ Ready
  /\ \E model \in Model!Models, chosen \in {"auto", "responses", "chat"}, official \in BOOLEAN :
       Answer([op |-> "model", model |-> model],
              [listed |-> model \in Model!Listed(Model!Models, chosen, official),
               error |-> Model!ConfigurationError(model, chosen, official),
               request |-> Model!RequestOf(model, chosen, official)])

-----------------------------------------------------------------------------
(* Any one message, to a server that retains the model selection of a tool *)
(* call or none.                                                             *)

Secured ==
  {[host |-> {}, extra |-> {}, bearer |-> NoValue, query |-> FALSE],
   [host |-> {1}, extra |-> {}, bearer |-> "token", query |-> FALSE],
   [host |-> {}, extra |-> {{1, 2}}, bearer |-> "token", query |-> TRUE]}
Bearers == {[header |-> h, query |-> q] : h \in {NoValue, "token", "other"}, q \in {NoValue, "token"}}

Requests ==
  [surface : {"http", "socket"}, from : {0, 2}, bearer : Bearers,
   body : {"object"}, version : BOOLEAN, method : {NoValue, "initialize", "tools/call", "other"},
   id : {NoValue, 1}, params : BOOLEAN, tool : {"core", "breaking", "disabled", "unknown", "blank"},
   entry : {1}, token : {NoValue, "t"}]
Unreadable ==
  [surface : {"http", "socket"}, from : {0}, bearer : {[header |-> NoValue, query |-> NoValue]},
   body : {"broken", "list"}, version : {TRUE}, method : {"other"}, id : {1},
   params : {TRUE}, tool : {"core"}, entry : {1}, token : {NoValue}]

\* The server retains no selection, or one that some of the requests fit.
Retaining ==
  {Idle,
   [Idle EXCEPT !.retained = {[token |-> "t", id |-> 1, tool |-> "core", entry |-> 1]}]}

ServeRequest ==
  /\ Ready
  /\ \E settings \in Secured, r \in Requests \cup Unreadable, server \in Retaining :
       LET served == Serve(settings, server, r)
       IN  /\ r.surface = "socket" => r.token = NoValue
           /\ Answer([op |-> "serve", settings |-> settings, sent |-> r],
                     [answer |-> served.answer, ran |-> served.server.ran])

TrafficNext == ReadCalls \/ ReadText \/ AskAgain \/ ChooseModel \/ ServeRequest

-----------------------------------------------------------------------------
(* Properties *)

\* The calls to run, of those that have begun to arrive: the ones whose
\* arguments are complete, and the ones of whose arguments nothing came.
Arrived ==
  LET fragments(c) == {i \in DOMAIN request.came : request.came[i].call = c}
      pieces(c) == {i \in fragments(c) : request.came[i].delta.args \notin {None, <<>>}}
      whole(c) == \E i \in pieces(c) : Last(request.came[i].delta.args).last
      runs(c) == fragments(c) # {} /\ (pieces(c) = {} \/ whole(c))
      calls == SelectSeq([c \in DOMAIN request.sizes |-> c], runs)
  IN  [i \in DOMAIN calls |->
         [name |-> MCT!Name(calls[i]),
          args |-> IF pieces(calls[i]) = {} THEN None
                   ELSE MCT!ArgsOf(calls[i], request.sizes[calls[i]])]]

NameAndArgs(calls) ==
  [i \in DOMAIN calls |-> [name |-> calls[i].name, args |-> calls[i].args]]

\* However the fragments of the calls interleave, are numbered or lack numbers,
\* and wherever the stream is cut, what is run are the calls that arrived, in
\* their order and with the arguments they were sent with; with the whole
\* stream, every call.  Text is read once, and a Responses stream that did not
\* complete gives nothing.
ArrivesWhole ==
  /\ request.op = "calls" => NameAndArgs(result.valid) = Arrived
  /\ request.op = "text" =>
       LET end == Last(request.lines)
       IN  IF end.type = "completed" /\ \A i \in DOMAIN end.output : end.output[i].complete
           THEN result.state = "done" /\ result.text = Model!TextOf(end.output)
           ELSE result.state = "failed"

\* "a stream cut off mid-arguments would otherwise run the tool with no
\* arguments": a call is run with the arguments that it was sent with.
CutCallsDoNotRun ==
  request.op = "calls" =>
    \A i \in DOMAIN result.valid :
      \E c \in DOMAIN request.sizes :
        /\ result.valid[i].name = MCT!Name(c)
        /\ result.valid[i].args = MCT!ArgsOf(c, request.sizes[c])

\* Whatever went wrong before, a request is one the API takes: each call has one
\* result, the results follow their calls in the same order with no text of the
\* user between; the assistant does not have the last word; without tools
\* Anthropic sees no calls; and a model that is offered or accepted for the
\* chosen API can be asked with tools.
RequestsFit ==
  /\ request.op = "ask" =>
       LET p == result.payload
           at(kind) == SelectSeq([i \in DOMAIN p |-> i], LAMBDA i : p[i].kind = kind)
           calls == at("call")
           results == at("result")
       IN  /\ [i \in DOMAIN calls |-> p[calls[i]].key] = [i \in DOMAIN results |-> p[results[i]].key]
           /\ \A k \in DOMAIN calls :
                /\ calls[k] < results[k]
                /\ \A i \in calls[k] .. results[k] : p[i].kind # "text"
           /\ Last(p).role # "assistant"
           /\ request.api = "anthropic" /\ ~request.tools => calls = <<>>
           /\ request.api = "anthropic" => Head(p).role = "user"
  /\ request.op = "model" =>
       /\ result.listed => result.error = None
       /\ result.error = None => ~result.request.refused

\* What models stream is read whole, and what they are sent they can take.
TrafficSound == ArrivesWhole /\ RequestsFit

\* A message that is let in and asks for an answer gets one, with its id; one
\* that does not is not answered and runs nothing; and a tool runs only in a
\* call that is answered with its result or its failure.
AnsweredOnce(settings, r, a, ran) ==
  LET letIn == Refusal(settings, r) = NoAnswer
  IN  /\ ~letIn => a.status \in {401, 403} /\ a.id = NoValue /\ ran = <<>>
      /\ letIn /\ r.body = "object" => a.id = r.id
      /\ letIn /\ r.body = "object" /\ r.id # NoValue => a.code # NoValue
      /\ r.id = NoValue => ran = <<>>
      /\ letIn /\ r.body = "object" /\ r.id = NoValue /\ a.code # NoValue =>
           ~r.version \/ r.method = NoValue \/ r.token # NoValue
      /\ ran # <<>> => a.code \in {Result, -32603} /\ Len(ran) = 1
      /\ a.code \in {-32600, -32601, -32602, -32700} => ran = <<>>

\* Every message that is served is answered by the protocol.
ProtocolSound ==
  request.op = "serve" =>
    AnsweredOnce(request.settings, request.sent, result.answer, result.ran)
=============================================================================
