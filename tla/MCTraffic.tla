----------------------------- MODULE MCTraffic -----------------------------
(* What may come from a model and what a request may go through. *)
EXTENDS Integers, FiniteSets, SequencesExt

CONSTANT None

Traffic == INSTANCE ModelTraffic

-----------------------------------------------------------------------------
(* Streams of one or two calls whose arguments take up to two pieces. *)

Piece(call, at, n) == [call |-> call, at |-> at, last |-> at = n]
ArgsOf(call, n) == IF n = 0 THEN None ELSE [at \in 1 .. n |-> Piece(call, at, n)]
Name(call) == <<"tool", call>>

\* A fragment, and the call that it is of.
Fragment(call, index, id, name, args, whole) ==
  [call |-> call,
   delta |-> [index |-> index, id |-> id, name |-> name, args |-> args, whole |-> whole]]

\* OpenAI: a heading without arguments, then a piece at a time.
Fragments(call, n, index) ==
  <<Fragment(call, index, call, Name(call), <<>>, FALSE)>>
  \o [at \in 1 .. n |-> Fragment(call, index, None, None, <<Piece(call, at, n)>>, FALSE)]

\* Ollama: whole calls without index or id; Responses: with both.
Whole(call, n, index) ==
  <<Fragment(call, index, IF index = None THEN None ELSE call, Name(call),
             ArgsOf(call, n), index = None)>>

Merge(s, t, turn) ==
  [i \in DOMAIN turn |->
     LET k == Cardinality({j \in 1 .. i : turn[j] = turn[i]})
     IN  IF turn[i] = 1 THEN s[k] ELSE t[k]]

Merges(s, t) ==
  {Merge(s, t, turn) :
     turn \in {f \in [1 .. Len(s) + Len(t) -> {1, 2}] :
                 f[1] = 1 /\ Cardinality({i \in DOMAIN f : f[i] = 1}) = Len(s)}}

\* Indexes start anywhere, and may leave gaps.
Numberings == {<<0, 1>>, <<1, 2>>, <<0, 2>>}

Streams(sizes) ==
  IF Len(sizes) = 1
  THEN {Fragments(1, sizes[1], 0), Fragments(1, sizes[1], None), Whole(1, sizes[1], None)}
  ELSE UNION {Merges(Fragments(1, sizes[1], n[1]), Fragments(2, sizes[2], n[2])) :
                n \in Numberings}
       \cup {Whole(1, sizes[1], None) \o Whole(2, sizes[2], None),
             Whole(1, sizes[1], 0) \o Whole(2, sizes[2], 1)}

Sizes == [1 .. 1 -> 0 .. 2] \cup [1 .. 2 -> 0 .. 2]

-----------------------------------------------------------------------------
(* Lines of a Responses stream: text in up to two chunks, which may be empty,  *)
(* and an end.                                                                 *)

Line(type, text, output) == [type |-> type, text |-> text, output |-> output]
Chunks == BoundedSeq({<<>>, <<"words">>}, 2)
Item(type, text, complete) ==
  [type |-> type, id |-> 1, text |-> text, complete |-> complete]

Outputs(text) ==
  {<<Item("message", text, c)>> \o calls :
     c \in BOOLEAN, calls \in {<<>>, <<Item("function_call", <<>>, TRUE)>>}}

Lines(chunks) ==
  LET text == IF chunks = <<>> THEN <<"words">> ELSE FlattenSeq(chunks)
      start == <<Line("created", <<>>, None)>>
               \o [i \in DOMAIN chunks |-> Line("text", chunks[i], None)]
  IN  {start, start \o <<Line("incomplete", <<>>, None)>>, start \o <<Line("failed", <<>>, None)>>}
      \cup {start \o <<Line("other", <<>>, None), Line("completed", <<>>, output)>> :
              output \in Outputs(text)}

-----------------------------------------------------------------------------
(* Requests of up to two turns: a preamble, or calls, some of them malformed.  *)

Call(turn, k, valid) == [id |-> <<turn, k>>, name |-> Name(k), valid |-> valid]
Batches(turn) ==
  {[k \in 1 .. n |-> Call(turn, k, valid[k])] : n \in 1 .. 2, valid \in [1 .. 2 -> BOOLEAN]}
Reasoning == [type |-> "reasoning", id |-> None, text |-> <<>>, complete |-> TRUE]

\* The items of the response a turn came in.
Pending(text, calls) ==
  <<Reasoning>> \o (IF text = <<>> THEN <<>> ELSE <<Traffic!TextItem(text)>>)
  \o Traffic!AsItems(calls)

Turns(n) ==
  {[calls |-> calls, text |-> text, pending |-> Pending(text, calls)] :
     calls \in Batches(n), text \in {<<>>, <<"words">>}}
  \cup {[calls |-> <<>>, text |-> <<"words">>, pending |-> Pending(<<"words">>, <<>>)]}

Said(role) == Traffic!Message(role, <<role>>)
Histories ==
  {<<Said("system"), Said("user")>>,
   <<Said("system"), Said("user"), Said("assistant"), Said("user")>>}

\* The request after its turns.  The preamble and malformed calls each have one
\* retry; a second time ends the request.
After(api, history, turns) ==
  FoldLeft(LAMBDA messages, turn :
             Traffic!AfterTurn(api, messages, turn, Len(turns) = 2 /\ turn = turns[2]
               /\ \E i \in DOMAIN turns[1].calls : ~turns[1].calls[i].valid),
           history, turns)

AllBad(turn) == turn.calls # <<>> /\ \A i \in DOMAIN turn.calls : ~turn.calls[i].valid
SomeBad(turn) == \E i \in DOMAIN turn.calls : ~turn.calls[i].valid

\* Both turns of a request that goes on.
GoesOn(first, second) ==
  /\ ~(SomeBad(first) /\ AllBad(second))
  /\ second.calls # <<>>
=============================================================================
