---------------------------- MODULE ModelTraffic ----------------------------
(***************************************************************************)
(* llm_providers/ and the stream reader of agent.py: what goes to a model  *)
(* and what comes back.  Tool calls arrive in fragments, which are put     *)
(* together again; the conversation goes out in the shape the provider's   *)
(* API asks for; and a model is served by one of two OpenAI APIs.          *)
(*                                                                         *)
(* A tool call's arguments are a sequence of pieces, each of which knows   *)
(* whose it is, its place, and whether it is the last: the JSON parses     *)
(* when exactly the pieces of one call are there.                          *)
(***************************************************************************)
EXTENDS Integers, SequencesExt

CONSTANT None

-----------------------------------------------------------------------------
(* Tool calls in a stream *)

Parses(args) ==
  /\ args # <<>>
  /\ \A i \in DOMAIN args : args[i].call = args[1].call /\ args[i].at = i
  /\ args[Len(args)].last

Placeholder == [id |-> None, name |-> None, args |-> None]

\* Mutant: the offset of the indexes is not taken off.
SlotOfRaw(delta, slots, offset) ==
  IF delta.index # None
  THEN [at |-> delta.index + 1, offset |-> delta.index]
  ELSE [at |-> Len(slots) + 1, offset |-> offset]

\* _ensure_stream_tool_call_slot: indexes count from the first one seen; a
\* fragment without one starts a call if it carries an id or a name.
SlotOf(delta, slots, offset) ==
  IF delta.index # None
  THEN LET base == IF offset = None THEN delta.index ELSE offset
       IN  [at |-> (IF delta.index > base THEN delta.index - base ELSE 0) + 1,
            offset |-> base]
  ELSE [at |-> IF delta.id # None \/ delta.name # None \/ slots = <<>>
               THEN Len(slots) + 1 ELSE Len(slots),
        offset |-> offset]

NothingRead == [slots |-> <<>>, buffers |-> <<>>, offset |-> None]

Grown(seq, n, filler) ==
  [i \in DOMAIN seq \cup 1 .. n |-> IF i \in DOMAIN seq THEN seq[i] ELSE filler]

\* The loop over delta["tool_calls"].  Whole arguments come as an object; text
\* is buffered and attached once it parses.
ReadDelta(state, delta) ==
  LET place == SlotOf(delta, state.slots, state.offset)
      slots == Grown(state.slots, place.at, Placeholder)
      buffers == Grown(state.buffers, place.at, <<>>)
      old == slots[place.at]
      text == delta.args # None /\ ~delta.whole
      buffer == IF text THEN buffers[place.at] \o delta.args ELSE buffers[place.at]
      attached == CASE delta.args # None /\ delta.whole -> delta.args
                    [] text /\ Parses(buffer) -> buffer
                    [] OTHER -> old.args
      new == [id   |-> IF delta.id # None THEN delta.id ELSE old.id,
              name |-> IF delta.name # None THEN delta.name ELSE old.name,
              args |-> attached]
  IN  [slots |-> [slots EXCEPT ![place.at] = new],
       buffers |-> [buffers EXCEPT ![place.at] = buffer], offset |-> place.offset]

\* A buffer that never parsed is attached as it is, to be refused.
AttachBuffers(state) ==
  [i \in DOMAIN state.slots |->
     IF state.slots[i].args = None /\ state.buffers[i] # <<>>
     THEN [state.slots[i] EXCEPT !.args = state.buffers[i]] ELSE state.slots[i]]

\* What the stream's tool calls are, _compact_streamed_tool_calls included.
Assembled(deltas) ==
  SelectSeq(AttachBuffers(FoldLeft(ReadDelta, NothingRead, deltas)),
            LAMBDA slot : slot # Placeholder)

\* _tool_call_is_valid_for_execution: no arguments at all are fine.
Executable(call) == call.name # None /\ (call.args = None \/ Parses(call.args))

ValidCalls(calls) == SelectSeq(calls, Executable)

-----------------------------------------------------------------------------
(* The events of a Responses stream, and of a chat or JSONL stream.  A line    *)
(* is [type, text, output], output being the items of the finished response.   *)

TextOf(output) ==
  FlattenSeq([i \in DOMAIN output |->
    IF output[i].type = "message" THEN output[i].text ELSE <<>>])

CallsOf(output) == SelectSeq(output, LAMBDA item : item.type = "function_call")

\* _streamed_text_seen is the provider's: a stream that broke may have set it.
Started(seen) == [text |-> <<>>, output |-> None, seen |-> seen, state |-> "open"]

\* response.completed: text that was streamed is not repeated.
Completed(read, line) ==
  IF \E i \in DOMAIN line.output : ~line.output[i].complete
  THEN [read EXCEPT !.state = "failed"]
  ELSE [read EXCEPT !.output = line.output, !.state = "done",
                    !.text = IF read.seen THEN @ ELSE @ \o TextOf(line.output),
                    !.seen = FALSE]

\* parse_stream_line of the Responses API
ReadEvent(read, line) ==
  CASE read.state # "open" -> read
    [] line.type = "created" -> [read EXCEPT !.seen = FALSE]
    [] line.type = "text" -> [read EXCEPT !.text = @ \o line.text,
                                          !.seen = @ \/ line.text # <<>>]
    [] line.type = "completed" -> Completed(read, line)
    [] line.type \in {"incomplete", "failed"} -> [read EXCEPT !.state = "failed"]
    [] OTHER -> read

\* A Responses stream has to reach its terminal event.
ReadResponse(lines, seen) ==
  LET read == FoldLeft(ReadEvent, Started(seen), lines)
  IN  IF read.state = "open" THEN [read EXCEPT !.state = "failed"] ELSE read

-----------------------------------------------------------------------------
(* The conversation inside the tool loop.  A call is [id, name, valid]; a      *)
(* message is [role, text, calls, output, of, name].                           *)

Message(role, text) ==
  [role |-> role, text |-> text, calls |-> <<>>, output |-> None, of |-> None,
   name |-> None]

\* build_tool_call_assistant_message: the items of refused calls go.
KeptOutput(pending, calls) ==
  SelectSeq(pending, LAMBDA item :
    item.type = "function_call" => \E i \in DOMAIN calls : calls[i].id = item.id)

AsItems(calls) ==
  [i \in DOMAIN calls |-> [type |-> "function_call", id |-> calls[i].id, text |-> <<>>,
                           complete |-> TRUE]]

TextItem(text) == [type |-> "message", id |-> None, text |-> text, complete |-> TRUE]

ReplayedOutput(pending, calls, text) ==
  LET kept == KeptOutput(pending, calls)
  IN  IF CallsOf(kept) # <<>> THEN kept
      ELSE kept \o (IF text # <<>> THEN <<TextItem(text)>> ELSE <<>>) \o AsItems(calls)

AssistantCalls(api, calls, text, pending) ==
  [Message("assistant", IF api \in {"anthropic", "ollama"} THEN text ELSE <<>>)
     EXCEPT !.calls = calls,
            !.output = IF api = "responses" THEN ReplayedOutput(pending, calls, text)
                       ELSE None]

\* build_assistant_message
AssistantText(api, text, pending) ==
  [Message("assistant", text)
     EXCEPT !.output = IF api = "responses" /\ pending # <<>> THEN pending ELSE None]

\* build_tool_result_message
ToolResult(api, call) ==
  [Message("tool", <<"result">>)
     EXCEPT !.of = IF api = "ollama" THEN None ELSE call.id,
            !.name = IF api = "ollama" THEN call.name ELSE None]

Instruction == Message("system", <<"instruction">>)

\* One turn of the loop: [text, pending, calls], pending being the items of the
\* response.  `retried` are the two retries it may use.
AfterTurn(api, messages, turn, retried) ==
  LET valid == SelectSeq(turn.calls, LAMBDA c : c.valid)
      some == IF turn.text # <<>> THEN <<Message("assistant", turn.text)>> ELSE <<>>
  IN  CASE turn.calls = <<>> ->
             messages \o <<AssistantText(api, turn.text, turn.pending), Instruction>>
        [] turn.calls # <<>> /\ valid = <<>> -> messages \o some \o <<Instruction>>
        [] OTHER ->
             messages
             \o <<AssistantCalls(api, valid, turn.text, turn.pending)>>
             \o [i \in DOMAIN valid |-> ToolResult(api, valid[i])]
             \o (IF valid # turn.calls /\ ~retried THEN <<Instruction>> ELSE <<>>)

-----------------------------------------------------------------------------
(* The request that carries it: entries [role, kind, key] *)

Entry(role, kind, key) == [role |-> role, kind |-> kind, key |-> key]

TextEntry(message) ==
  IF message.text = <<>> THEN <<>> ELSE <<Entry(message.role, "text", None)>>

CallEntries(calls, keyed) ==
  [i \in DOMAIN calls |->
     Entry("assistant", "call", IF keyed THEN calls[i].id ELSE calls[i].name)]

\* Chat Completions: assistant messages with calls lose their text on the way.
ChatEntries(message) ==
  CASE message.role = "tool" -> <<Entry("tool", "result", message.of)>>
    [] message.calls # <<>> -> CallEntries(message.calls, TRUE)
    [] OTHER -> TextEntry(message)

OllamaEntries(message) ==
  CASE message.role = "tool" -> <<Entry("tool", "result", message.name)>>
    [] OTHER -> TextEntry(message) \o CallEntries(message.calls, FALSE)

\* _build_responses_input
ResponsesEntries(message) ==
  CASE message.output # None ->
         [i \in DOMAIN message.output |->
            LET item == message.output[i]
            IN  CASE item.type = "function_call" -> Entry("assistant", "call", item.id)
                  [] item.type = "message" -> Entry("assistant", "text", None)
                  [] OTHER -> Entry("assistant", "reasoning", None)]
    [] message.output = None /\ message.role = "tool" ->
         IF message.of = None THEN <<>> ELSE <<Entry("tool", "result", message.of)>>
    [] OTHER -> TextEntry(message) \o CallEntries(message.calls, TRUE)

\* Anthropic knows users and assistants; without tools the calls are told.
AnthropicEntries(message, tools) ==
  CASE message.role = "tool" ->
         <<IF tools THEN Entry("user", "result", message.of) ELSE Entry("user", "text", None)>>
    [] message.calls # <<>> ->
         TextEntry(message)
         \o (IF tools THEN CallEntries(message.calls, TRUE)
             ELSE [i \in DOMAIN message.calls |-> Entry("assistant", "text", None)])
    [] OTHER ->
         [i \in DOMAIN TextEntry(message) |->
            Entry(IF message.role = "assistant" THEN "assistant" ELSE "user", "text", None)]

\* Only what comes before the conversation is hoisted into `system`.
AnthropicPayload(messages, tools) ==
  LET Hoisted(i) == /\ messages[i].role = "system"
                    /\ \A j \in 1 .. i - 1 :
                         messages[j].role = "system" \/ AnthropicEntries(messages[j], tools) = <<>>
  IN  FlattenSeq([i \in DOMAIN messages |->
        IF Hoisted(i) THEN <<>> ELSE AnthropicEntries(messages[i], tools)])

\* build_payload of each provider
Payload(api, messages, tools) ==
  CASE api = "anthropic" -> AnthropicPayload(messages, tools)
    [] api = "responses" -> FlattenSeq([i \in DOMAIN messages |-> ResponsesEntries(messages[i])])
    [] api = "ollama" -> FlattenSeq([i \in DOMAIN messages |-> OllamaEntries(messages[i])])
    [] OTHER -> FlattenSeq([i \in DOMAIN messages |-> ChatEntries(messages[i])])

-----------------------------------------------------------------------------
(* Models of OpenAI, by the family their name tells *)

Models == {"gpt-4o", "gpt-5", "gpt-6-astra", "gpt-6-sol", "o3", "o3-pro",
           "o3-deep-research", "gpt-audio", "dall-e-3"}

DeepResearch(model) == model = "o3-deep-research"
ChatOnly(model) == model = "gpt-audio"
GptNamed(model) == model \in {"gpt-4o", "gpt-5", "gpt-6-astra", "gpt-6-sol", "gpt-audio"}
ReasoningModel(model) == model \notin {"gpt-4o", "gpt-audio", "dall-e-3"}
ResponsesOnly(model) == DeepResearch(model) \/ model = "o3-pro"

RequiresResponsesForTools(model) == ResponsesOnly(model) \/ model = "gpt-6-astra"

\* _configured_transport_from_values, and options_from_entry for a profile
\* saved before there was a choice.
FormTransport(chosen) == IF chosen \in {"auto", "responses", "chat"} THEN chosen ELSE "auto"
SavedTransport(saved) == IF saved = None THEN "chat" ELSE FormTransport(saved)

\* _resolve_api_transport
Transport(configured, official) ==
  CASE configured # "auto" -> configured
    [] configured = "auto" /\ official -> "responses"
    [] OTHER -> "chat"

\* filter_model_ids
Listed(models, chosen, official) ==
  LET transport == Transport(FormTransport(chosen), official)
      Fits(m) == /\ GptNamed(m) \/ ReasoningModel(m)
                 /\ ~DeepResearch(m)
                 /\ (transport = "responses" => ~ChatOnly(m))
                 /\ (transport = "chat" => ~RequiresResponsesForTools(m))
  IN  IF official THEN {m \in models : Fits(m)} ELSE models

\* model_configuration_error
ConfigurationError(model, chosen, official) ==
  LET transport == Transport(FormTransport(chosen), official)
  IN  CASE ~official -> None
        [] official /\ DeepResearch(model) -> "deep_research_model_not_supported"
        [] official /\ transport = "chat" /\ RequiresResponsesForTools(model) ->
             "model_requires_responses_api"
        [] official /\ transport = "responses" /\ ChatOnly(model) ->
             "model_requires_chat_completions_api"
        [] OTHER -> None

\* build_payload: what decides whether a request with tools can be made
RequestOf(model, saved, official) ==
  LET transport == Transport(SavedTransport(saved), official)
  IN  [transport |-> transport,
       refused |-> transport = "chat" /\ official /\ RequiresResponsesForTools(model)]
=============================================================================
