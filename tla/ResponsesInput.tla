--------------------------- MODULE ResponsesInput ---------------------------
(* The request side of the Responses compatibility layer: the input items   *)
(* of a Responses request become the messages of a chat request             *)
(* (responses_compat.go:49-239, normalizeChatMessages of proxy.go).  Items   *)
(* are read one by one, as the loop of responsesItemsToMessages does.       *)
(* The texts of a message are a sequence of tokens; separators, the fields   *)
(* copied unchanged and the conversion of tools are left out.               *)
EXTENDS Integers, Sequences, SequencesExt, FiniteSetsExt

CONSTANTS
  Tokens,         \* of texts, arguments and names
  RoleNames,      \* what the role of an item may be
  InputItems,     \* the items a request may hold
  Instructions,   \* the texts of its instructions, <<>> when blank
  MaxItems        \* bound on the items of a request

(* A string that is absent *)
Blank == ""

ItemTypes == {"function_call", "function_call_output", "reasoning", "message"}

(* call is 0 where an item names none *)
RequestItems ==
  [type : ItemTypes \cup {"other"}, role : RoleNames, texts : Seq(Tokens), call : Nat]

ASSUME InputConstants ==
  /\ MaxItems \in Nat
  /\ {"system", "developer", "assistant", "tool"} \subseteq RoleNames
  /\ InputItems \subseteq RequestItems /\ Instructions \subseteq Seq(Tokens)

VARIABLES
  phase,      \* "items", "post", "read", "finish", "over", "refused"
  given,      \* the items read so far
  messages,   \* messages built so far
  calls       \* pendingCalls: function calls not yet in a message

inputVars == <<given, messages, calls>>

Message(role, texts) == [role |-> role, texts |-> texts, calls |-> <<>>]

\* Definitions named Wrong... are plausible defects of the definition they precede;
\* they are not part of the specification.
WrongFlush(sofar, pending) ==
  sofar \o [i \in 1 .. Len(pending) |->
              [role |-> "assistant", texts |-> <<>>, calls |-> <<pending[i]>>]]

(* The closure flushCalls: parallel calls become one assistant message *)
Flush(sofar, pending) ==
  IF pending = <<>> THEN sofar
  ELSE Append(sofar, [role |-> "assistant", texts |-> <<>>, calls |-> pending])

WrongChatRole(role) == role

ChatRole(role) == IF role = "developer" THEN "system" ELSE role

(* One iteration of the loop.  An item the chat API has no place for is refused. *)
AddItem ==
  /\ phase = "items" /\ Len(given) < MaxItems
  /\ \E item \in InputItems :
       /\ given' = Append(given, item)
       /\ \/ /\ item.type = "function_call" /\ item.call # 0
             /\ calls' = Append(calls, item.call)
             /\ UNCHANGED <<phase, messages>>
          \/ /\ item.type = "function_call_output" /\ item.call # 0
             /\ messages' = Append(Flush(messages, calls), [role |-> "tool", texts |-> <<>>, calls |-> <<item.call>>])
             /\ calls' = <<>>
             /\ UNCHANGED phase
          \/ /\ item.type = "reasoning"
             /\ UNCHANGED <<phase, messages, calls>>
          \/ /\ item.type = "message" /\ item.role # Blank
             /\ messages' = Append(Flush(messages, calls), Message(ChatRole(item.role), item.texts))
             /\ calls' = <<>>
             /\ UNCHANGED phase
          \/ /\ \/ item.type \in {"function_call", "function_call_output"} /\ item.call = 0
                \/ item.type = "message" /\ item.role = Blank
                \/ item.type \notin ItemTypes
             /\ phase' = "refused"
             /\ UNCHANGED <<messages, calls>>

SystemRoles == {"system", "developer"}

SystemTexts(list) ==
  FlattenSeq([i \in 1 .. Len(list) |-> IF list[i].role \in SystemRoles THEN list[i].texts ELSE <<>>])

Others(list) ==
  FlattenSeq([i \in 1 .. Len(list) |-> IF list[i].role \in SystemRoles THEN <<>> ELSE <<list[i]>>])

(* normalizeChatMessages: one system message, in front, with every system text.  A text *)
(* that is alone is kept as it is; blank ones are dropped when several are joined.      *)
Normalize(list) ==
  IF \A i \in 1 .. Len(list) : list[i].role \notin SystemRoles THEN list
  ELSE <<Message("system", SystemTexts(list))>> \o Others(list)

InstructionItem(instructions) ==
  [type |-> "message", role |-> "system", texts |-> instructions, call |-> 0]

(* The end of responsesItemsToMessages and its callers up to the chat request *)
EndItems ==
  /\ phase = "items"
  /\ \E instructions \in Instructions :
       LET all == Flush(messages, calls)
           led == IF instructions = <<>> THEN all ELSE <<Message("system", instructions)>> \o all
       IN  /\ messages' = Normalize(led)
           /\ given' = (IF instructions = <<>> THEN <<>> ELSE
                          <<InstructionItem(instructions)>>)
                       \o given
           /\ phase' = IF led = <<>> THEN "refused" ELSE "post"
  /\ calls' = <<>>

-----------------------------------------------------------------------------
(* What the conversion must keep, defined without its loop *)

IsSystem(item) == item.type = "message" /\ item.role \in SystemRoles

Instructed(list) ==
  FlattenSeq([i \in 1 .. Len(list) |-> IF IsSystem(list[i]) THEN list[i].texts ELSE <<>>])

(* No call stands before item k with nothing but calls and reasoning in between *)
Leads(list, k) ==
  ~ \E i \in 1 .. k - 1 :
      /\ list[i].type = "function_call"
      /\ \A j \in i .. k : list[j].type \in {"function_call", "reasoning"}

(* The calls, outputs and messages that were asked for; of each call, whether it leads *)
Asked(list) ==
  FlattenSeq([k \in 1 .. Len(list) |->
    IF IsSystem(list[k]) \/ list[k].type = "reasoning" THEN <<>>
    ELSE IF list[k].type = "message" THEN <<<<list[k].role, list[k].texts>>>>
    ELSE IF list[k].type = "function_call" THEN <<<<"function_call", list[k].call, Leads(list, k)>>>>
    ELSE <<<<"function_call_output", list[k].call>>>>])

(* Those that a message stands for; of each call, whether it is the first of its message *)
Contents(m) ==
  IF m.role \in SystemRoles THEN <<>>
  ELSE IF m.calls = <<>> THEN <<<<m.role, m.texts>>>>
  ELSE IF m.role = "tool" THEN <<<<"function_call_output", m.calls[1]>>>>
  ELSE [i \in 1 .. Len(m.calls) |-> <<"function_call", m.calls[i], i = 1>>]

Told(list) == FlattenSeq([i \in 1 .. Len(list) |-> Contents(list[i])])

(* The chat request holds every call, output and message of the Responses request, in *)
(* order, and its system texts in front, in order; calls share an assistant message   *)
(* exactly when nothing but reasoning stands between them (responses_compat.go:176-239,*)
(* proxy.go:432-466).                                                                 *)
ConversionFaithful ==
  phase = "post" =>
    /\ \A i \in 1 .. Len(messages) : messages[i].role \in SystemRoles => i = 1
    /\ SystemTexts(messages) = Instructed(given)
    /\ Told(messages) = Asked(given)
=============================================================================
