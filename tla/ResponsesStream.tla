--------------------------- MODULE ResponsesStream ---------------------------
(* The Responses compatibility layer: one request of /v1/responses that is    *)
(* converted to a chat request (ResponsesInput) and whose answer, a stream of *)
(* chat chunks or one chat completion, is converted back                      *)
(* (responses_compat.go:360-742).  One goroutine does it all, so a chunk is   *)
(* consumed in one step, and the events it causes wait in `pending` for the   *)
(* writes, any of which may fail, or seem to succeed and be lost in a buffer. *)
(* A request asks for one choice: n is not among the fields the layer         *)
(* accepts.  Token counts are left out.                                       *)
EXTENDS ResponsesInput

CONSTANTS
  Chunks,      \* the chunks upstream may send
  MaxChunks,   \* bound on the chunks of a stream
  FirstRandom  \* identifiers from here on are drawn by randomID

(* A delta of a tool call; call is 0 where upstream names none *)
Deltas == [index : Int, call : 0 .. FirstRandom - 1, name : Seq(Tokens), arguments : Seq(Tokens)]

ASSUME StreamConstants ==
  /\ MaxChunks \in Nat /\ FirstRandom \in Nat \ {0}
  /\ Chunks \subseteq [text : Seq(Tokens), calls : Seq(Deltas), finish : STRING]

VARIABLES
  s,         \* responsesStreamState
  pending,   \* events not yet written, in order
  sent,      \* what the events written so far tell: a history of the stream
  client,    \* what the events that arrived tell the client
  cut,       \* TRUE: the connection to the client broke, and no write has noticed it yet
  heard,     \* the chunks consumed: a history of the stream
  streaming, \* the request asked for a stream
  error      \* the error of the audit record, Blank when there is none

responsesVars == <<phase, inputVars, s, pending, sent, client, cut, heard, streaming, error>>

(* The numbers of a finite set in increasing order *)
Ascending(S) ==
  CHOOSE f \in [1 .. Cardinality(S) -> S] :
    \A i, j \in 1 .. Cardinality(S) : i < j => f[i] < f[j]

(* The function f with the value v at k *)
With(f, k, v) == [i \in DOMAIN f \cup {k} |-> IF i = k THEN v ELSE f[i]]

None == [id |-> 0]

Fresh == [started |-> FALSE, message |-> None, tools |-> <<>>, count |-> 0, finish |-> Blank,
          drawn |-> FirstRandom]

-----------------------------------------------------------------------------
(* The client, an accumulator of events *)

Unseen == [status |-> "none", items |-> <<>>, output |-> <<>>]

Replay(seen, e) ==
  CASE e.type \in {"created", "in_progress"} -> [seen EXCEPT !.status = e.type]
    [] e.type = "item_added" -> [seen EXCEPT !.items = With(@, e.index, e.item)]
    [] e.type \in {"delta", "settled", "part", "part_done"} ->
         LET item == seen.items[e.index]
         IN  [seen EXCEPT !.items[e.index] =
                [item EXCEPT !.id = e.id,
                             !.content = IF e.type = "delta" THEN item.content \o e.content
                                         ELSE IF e.type = "part" THEN item.content ELSE e.content,
                             !.stage = IF e.type = "delta" THEN item.stage ELSE e.type]]
    [] e.type = "item_done" -> [seen EXCEPT !.items[e.index] = e.item]
    [] OTHER -> [seen EXCEPT !.status = e.type, !.output = e.output]

-----------------------------------------------------------------------------
(* The converter.  Each operator takes the state and the events so far, and returns both. *)

Emit(r, events) == [r EXCEPT !.out = @ \o events]

MessageItem(m, content, stage) ==
  [id |-> m.id, kind |-> "message", call |-> 0, name |-> <<>>, content |-> content, stage |-> stage]

CallItem(tool, content, stage) ==
  [id |-> tool.id, kind |-> "function_call", call |-> tool.call, name |-> tool.name,
   content |-> content, stage |-> stage]

(* start *)
Start(r) ==
  IF r.s.started THEN r
  ELSE [s |-> [r.s EXCEPT !.started = TRUE],
        out |-> r.out \o <<[type |-> "created"], [type |-> "in_progress"]>>]

(* addText: the first text opens the message *)
OpenMessage(r) ==
  IF r.s.message # None THEN r
  ELSE LET m == [id |-> r.s.drawn, index |-> r.s.count, text |-> <<>>]
       IN  [s |-> [r.s EXCEPT !.message = m, !.count = @ + 1, !.drawn = @ + 1],
            out |-> r.out \o
              <<[type |-> "item_added", index |-> m.index, item |-> MessageItem(m, <<>>, "added")],
                [type |-> "part", index |-> m.index, id |-> m.id]>>]

AddText(r, delta) ==
  IF delta = <<>> THEN r
  ELSE LET open == OpenMessage(r)
           m == open.s.message
       IN  Emit([open EXCEPT !.s.message.text = @ \o delta],
                <<[type |-> "delta", index |-> m.index, id |-> m.id, content |-> delta]>>)

(* addToolCall: the first delta of an index opens the call, a later one may complete its name *)
OpenTool(r, delta) ==
  IF delta.index \in DOMAIN r.s.tools
  THEN LET tool == r.s.tools[delta.index]
       IN  [r EXCEPT !.s.tools[delta.index] =
              [tool EXCEPT !.call = IF delta.call # 0 THEN delta.call ELSE tool.call,
                           !.name = tool.name \o delta.name]]
  ELSE LET drawn == r.s.drawn + (IF delta.call = 0 THEN 1 ELSE 0)
           tool == [id |-> drawn, call |-> IF delta.call = 0 THEN r.s.drawn ELSE delta.call,
                    name |-> delta.name, arguments |-> <<>>, index |-> r.s.count]
       IN  [s |-> [r.s EXCEPT !.tools = With(@, delta.index, tool), !.count = @ + 1,
                              !.drawn = drawn + 1],
            out |-> Append(r.out, [type |-> "item_added", index |-> tool.index,
                                   item |-> CallItem(tool, <<>>, "added")])]

WrongAddToolCall(r, delta) ==
  LET open == OpenTool(r, delta)
      tool == open.s.tools[delta.index]
  IN  IF delta.arguments = <<>> \/ delta.index \notin DOMAIN r.s.tools THEN open
      ELSE Emit([open EXCEPT !.s.tools[delta.index].arguments = @ \o delta.arguments],
                <<[type |-> "delta", index |-> tool.index, id |-> tool.id,
                   content |-> delta.arguments]>>)

AddToolCall(r, delta) ==
  LET open == OpenTool(r, delta)
      tool == open.s.tools[delta.index]
  IN  IF delta.arguments = <<>> THEN open
      ELSE Emit([open EXCEPT !.s.tools[delta.index].arguments = @ \o delta.arguments],
                <<[type |-> "delta", index |-> tool.index, id |-> tool.id,
                   content |-> delta.arguments]>>)

(* consume *)
Consume(chunk) ==
  LET begun == Start([s |-> s, out |-> <<>>])
      told == IF chunk.finish = Blank THEN begun ELSE [begun EXCEPT !.s.finish = chunk.finish]
  IN  FoldLeft(AddToolCall, AddText(told, chunk.text), chunk.calls)

StatusOf(finish) ==
  IF finish \in {"length", "content_filter"} THEN "incomplete" ELSE "completed"

CloseMessage ==
  LET m == s.message
  IN  IF m = None THEN <<>>
      ELSE <<[type |-> "settled", index |-> m.index, id |-> m.id, content |-> m.text],
             [type |-> "part_done", index |-> m.index, id |-> m.id, content |-> m.text],
             [type |-> "item_done", index |-> m.index, item |-> MessageItem(m, m.text, "closed")]>>

CloseTool(tool) ==
  <<[type |-> "settled", index |-> tool.index, id |-> tool.id, content |-> tool.arguments],
    [type |-> "item_done", index |-> tool.index, item |-> CallItem(tool, tool.arguments, "closed")]>>

(* The tools by the indexes of the chat stream, which need not be the order they were opened in *)
Tools == [i \in 1 .. Cardinality(DOMAIN s.tools) |-> s.tools[Ascending(DOMAIN s.tools)[i]]]

(* What was closed, in that order *)
Outputs ==
  LET m == s.message
  IN  (IF m = None THEN <<>> ELSE <<[index |-> m.index, item |-> MessageItem(m, m.text, "closed")]>>)
      \o [i \in 1 .. Len(Tools) |->
            [index |-> Tools[i].index, item |-> CallItem(Tools[i], Tools[i].arguments, "closed")]]

WrongFinalOutput(outputs) == [i \in DOMAIN outputs |-> outputs[i].item]

(* The items of the last event, by output index *)
FinalOutput(outputs) ==
  LET place == CHOOSE p \in [DOMAIN outputs -> DOMAIN outputs] :
                 /\ IsInjective(p)
                 /\ \A i, j \in DOMAIN outputs :
                      i < j => outputs[p[i]].index <= outputs[p[j]].index
  IN  [i \in DOMAIN outputs |-> outputs[place[i]].item]

(* finish *)
FinishStream ==
  CloseMessage \o FlattenSeq([i \in 1 .. Len(Tools) |-> CloseTool(Tools[i])])
    \o <<[type |-> StatusOf(s.finish), output |-> FinalOutput(Outputs)]>>

-----------------------------------------------------------------------------
(* chatResponseToResponses: the items of one completion.  A random call identifier is 0 here. *)
Buffered(completion) ==
  (IF completion.text = <<>> /\ completion.calls # <<>> THEN <<>>
   ELSE <<[kind |-> "message", call |-> 0, name |-> <<>>, content |-> completion.text]>>)
  \o [i \in 1 .. Len(completion.calls) |->
       LET c == completion.calls[i]
       IN  [kind |-> "function_call", call |-> c.call, name |-> c.name, content |-> c.arguments]]

(* The completion that a sequence of chunks spells, index by index *)
DeltasOf(chunks) == FlattenSeq([i \in 1 .. Len(chunks) |-> chunks[i].calls])

TextOf(chunks) == FlattenSeq([i \in 1 .. Len(chunks) |-> chunks[i].text])

ReasonsOf(chunks) ==
  FlattenSeq([i \in 1 .. Len(chunks) |-> IF chunks[i].finish = Blank THEN <<>> ELSE <<chunks[i].finish>>])

NameOf(deltas, k) ==
  FlattenSeq([j \in 1 .. Len(deltas) |-> IF deltas[j].index = k THEN deltas[j].name ELSE <<>>])

ArgumentsOf(deltas, k) ==
  FlattenSeq([j \in 1 .. Len(deltas) |-> IF deltas[j].index = k THEN deltas[j].arguments ELSE <<>>])

CallsOf(deltas, k) ==
  FlattenSeq([j \in 1 .. Len(deltas) |->
    IF deltas[j].index = k /\ deltas[j].call # 0 THEN <<deltas[j].call>> ELSE <<>>])

LastOr(list, default) == IF list = <<>> THEN default ELSE Last(list)

Completion(chunks) ==
  LET deltas == DeltasOf(chunks)
      indexes == {deltas[j].index : j \in 1 .. Len(deltas)}
      call(k) == [call |-> LastOr(CallsOf(deltas, k), 0), name |-> NameOf(deltas, k),
                  arguments |-> ArgumentsOf(deltas, k)]
  IN  [text |-> TextOf(chunks),
       calls |-> [i \in 1 .. Cardinality(indexes) |-> call(Ascending(indexes)[i])],
       finish |-> LastOr(ReasonsOf(chunks), Blank)]

-----------------------------------------------------------------------------
ResponsesInit ==
  /\ phase = "items" /\ given = <<>> /\ messages = <<>> /\ calls = <<>>
  /\ s = Fresh /\ pending = <<>> /\ heard = <<>> /\ error = Blank
  /\ sent = Unseen /\ client = Unseen /\ cut = FALSE
  /\ streaming \in BOOLEAN

delivery == <<sent, client, cut>>
streamVars == <<s, pending, delivery, heard, streaming, error>>

Convert == (AddItem \/ EndItems) /\ UNCHANGED streamVars

(* The chat request is sent and upstream answers it with status 200 *)
Post ==
  /\ phase = "post"
  /\ given' = <<>> /\ messages' = <<>>
  /\ phase' = "read"
  /\ UNCHANGED <<calls, streamVars>>

Reading == phase = "read" /\ pending = <<>>

ReadChunk ==
  /\ Reading /\ streaming /\ Len(heard) < MaxChunks
  /\ \E chunk \in Chunks :
       /\ LET r == Consume(chunk) IN s' = r.s /\ pending' = r.out
       /\ heard' = Append(heard, chunk)
  /\ UNCHANGED <<phase, inputVars, delivery, streaming, error>>

(* [DONE], or the end of the body without it *)
EndOfStream ==
  /\ Reading /\ streaming
  /\ IF s.started
     THEN pending' = FinishStream /\ phase' = "finish" /\ UNCHANGED error
     ELSE error' = "no_chunk" /\ phase' = "over" /\ UNCHANGED pending
  /\ UNCHANGED <<inputVars, s, delivery, heard, streaming>>

WrongBreakStream ==
  /\ Reading /\ streaming
  /\ phase' = "over"
  /\ UNCHANGED <<inputVars, s, pending, delivery, heard, streaming, error>>

(* A chunk that is not JSON, or a read that fails: nothing more is written *)
BreakStream ==
  /\ Reading /\ streaming
  /\ error' = "read" /\ phase' = "over"
  /\ UNCHANGED <<inputVars, s, pending, delivery, heard, streaming>>

(* What was written arrives, or it stays in a buffer: event only sees the error of Fprintf, *)
(* and Flush has none to return.  Nothing arrives after what was lost.                      *)
Deliver ==
  \/ ~cut /\ client' = sent' /\ UNCHANGED cut
  \/ cut' = TRUE /\ UNCHANGED client

(* event *)
Write ==
  /\ pending # <<>>
  /\ sent' = Replay(sent, Head(pending))
  /\ Deliver
  /\ pending' = Tail(pending)
  /\ phase' = IF phase = "finish" /\ Len(pending) = 1 THEN "over" ELSE phase
  /\ UNCHANGED <<inputVars, s, heard, streaming, error>>

WriteFails ==
  /\ pending # <<>>
  /\ error' = "write" /\ phase' = "over" /\ pending' = <<>>
  /\ UNCHANGED <<inputVars, s, delivery, heard, streaming>>

(* The identifiers that randomID draws for the items of an answer in one piece *)
Numbered(items) ==
  [i \in 1 .. Len(items) |->
     [id |-> FirstRandom + 2 * i, kind |-> items[i].kind, name |-> items[i].name,
      call |-> IF items[i].kind = "function_call" /\ items[i].call = 0
               THEN FirstRandom + 2 * i + 1 ELSE items[i].call,
      content |-> items[i].content, stage |-> "closed"]]

(* bufferedChatAsResponses: the body is read whole.  A write that fails is not noticed. *)
AnswerBuffered ==
  /\ Reading /\ ~streaming
  /\ \/ \E chunk \in Chunks :
          /\ heard' = <<chunk>>
          /\ sent' = LET c == Completion(<<chunk>>)
                     IN  [status |-> StatusOf(c.finish), items |-> <<>>,
                          output |-> Numbered(Buffered(c))]
          /\ Deliver
          /\ UNCHANGED error
     \/ error' = "read" /\ UNCHANGED <<heard, delivery>>
  /\ phase' = "over"
  /\ UNCHANGED <<inputVars, s, pending, streaming>>

ResponsesNext ==
  \/ Convert \/ Post \/ ReadChunk \/ EndOfStream \/ BreakStream
  \/ Write \/ WriteFails \/ AnswerBuffered

ResponsesSpec == ResponsesInit /\ [][ResponsesNext]_responsesVars

-----------------------------------------------------------------------------
Roles == RoleNames \ {Blank, "developer"}

MessageType == [role : Roles, texts : Seq(Tokens), calls : Seq(Nat)]

Stages == {"added", "part", "settled", "part_done", "closed"}

Items == [id : Nat, kind : {"message", "function_call"}, call : Nat, name : Seq(Tokens),
          content : Seq(Tokens), stage : Stages]

Finals == {"completed", "incomplete"}

(* The chat API knows no role "developer"; outputs of the stream take consecutive indexes; *)
(* only a stream that goes on has events to write.                                         *)
ResponsesTypeOK ==
  /\ phase \in {"items", "post", "read", "finish", "over", "refused"}
  /\ given \in Seq(InputItems \cup {InstructionItem(i) : i \in Instructions})
  /\ messages \in Seq(MessageType)
  /\ calls \in Seq(Nat)
  /\ s.started \in BOOLEAN
  /\ DOMAIN s.tools \subseteq Int
  /\ {s.tools[i].index : i \in DOMAIN s.tools}
       \cup (IF s.message = None THEN {} ELSE {s.message.index}) = 0 .. s.count - 1
  /\ pending # <<>> => phase \in {"read", "finish"}
  /\ \A seen \in {sent, client} :
       /\ seen.status \in {"none", "created", "in_progress"} \cup Finals
       /\ \A i \in DOMAIN seen.items : seen.items[i] \in Items
       /\ seen.output \in Seq(Items)
  /\ cut \in BOOLEAN
  /\ heard \in Seq(Chunks) /\ streaming \in BOOLEAN
  /\ error \in {Blank, "no_chunk", "read", "write"}

(* Whatever the chunks of a stream are and wherever it breaks, its events are a prefix of a *)
(* well-formed Responses stream: the state of the client is that of ResponseEvents          *)
(* (responses_compat.go:548-722, README.md:37).                                             *)
ClientView == INSTANCE ResponseEvents
                WITH status <- IF streaming THEN client.status ELSE "none",
                     items <- client.items,
                     output <- IF streaming THEN client.output ELSE <<>>

EventsWellFormed == ClientView!Spec

(* A stream that ends as a stream tells the client what the answer in one piece would have  *)
(* told it: the same items, the calls in the order of the chat stream or not, and the same  *)
(* status (responses_compat.go:360-396 and 548-722).  The one exception is an empty answer: *)
(* in one piece it has an empty message, as a stream no item.                               *)
Shown(item) ==
  [kind |-> item.kind, name |-> item.name, content |-> item.content,
   call |-> IF item.call < FirstRandom THEN item.call ELSE 0]

SameItems(list, items) ==
  /\ Len(list) = Len(items)
  /\ \E place \in [1 .. Len(list) -> 1 .. Len(items)] :
       IsInjective(place) /\ \A i \in 1 .. Len(list) : Shown(list[i]) = Shown(items[place[i]])

SameAsBuffered ==
  streaming /\ client.status \in Finals =>
    LET c == Completion(heard)
    IN  /\ client.status = StatusOf(c.finish)
        /\ IF c.text = <<>> /\ c.calls = <<>> THEN client.output = <<>>
           ELSE SameItems(client.output, Buffered(c))

(* The audit record of a stream has no error exactly when the last event was written, so a  *)
(* client that has the last event left no error, and a client that lacks it left one,       *)
(* wherever the stream broke, unless the connection broke and no later write noticed:       *)
(* event drops what becomes of Flush (responses_compat.go:510-545 and 737-741).             *)
AuditTellsTheEnd ==
  phase = "over" /\ streaming =>
    /\ error = Blank <=> sent.status \in Finals
    /\ client.status \in Finals => error = Blank
    /\ client.status \notin Finals => error # Blank \/ cut
=============================================================================
