------------------------- MODULE MCResponsesStream -------------------------
(***************************************************************************)
(* Requests of up to four items of every type, with identifiers missing,   *)
(* and streams of up to three chunks in which texts and two calls mix,     *)
(* start in any order, get their identifier late or never, or have their   *)
(* name in two parts.                                                      *)
(***************************************************************************)
EXTENDS ResponsesStream

Item(type, role, texts, call) == [type |-> type, role |-> role, texts |-> texts, call |-> call]

RoleNamesValue == {"", "user", "assistant", "tool", "system", "developer"}

InputItemsValue ==
  {Item("function_call", "", <<>>, c) : c \in 0 .. 2}
  \cup {Item("function_call_output", "", <<>>, c) : c \in 0 .. 1}
  \cup {Item("message", r, <<"t">>, 0) : r \in {"", "user", "system", "developer"}}
  \cup {Item("message", "system", <<>>, 0), Item("reasoning", "", <<>>, 0), Item("other", "", <<>>, 0)}

InstructionsValue == {<<>>, <<"u">>}

TokensValue == {"f", "g", "t", "u"}

Delta(index, call, name, arguments) ==
  [index |-> index, call |-> call, name |-> name, arguments |-> arguments]

Chunk(text, deltas, finish) == [text |-> text, calls |-> deltas, finish |-> finish]

ChunksValue ==
  { Chunk(<<>>, <<>>, ""),
    Chunk(<<"t">>, <<>>, ""),
    Chunk(<<"u">>, <<>>, "stop"),
    Chunk(<<>>, <<>>, "length"),
    Chunk(<<>>, <<Delta(1, 1, <<"f">>, <<>>)>>, ""),
    Chunk(<<>>, <<Delta(0, 2, <<"g">>, <<"t">>)>>, ""),
    Chunk(<<"t">>, <<Delta(0, 0, <<"f">>, <<"u">>), Delta(1, 0, <<>>, <<"t">>)>>, "tool_calls"),
    Chunk(<<>>, <<Delta(1, 0, <<"g">>, <<"t">>), Delta(1, 2, <<>>, <<"u">>)>>, "") }
=============================================================================
