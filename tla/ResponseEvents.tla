--------------------------- MODULE ResponseEvents ---------------------------
(* What a client of the streaming Responses API may see: a response is      *)
(* announced, its output items are opened one after the other at the next   *)
(* output index, each grows by deltas and is then settled and closed with   *)
(* the content the deltas spelled, and one last event repeats every item.   *)
(* responses_compat.go promises this for every chat stream it converts      *)
(* (README.md:37).                                                          *)
EXTENDS Naturals, SequencesExt, FiniteSetsExt

VARIABLES
  status,   \* of the response: "none" until it is announced
  items,    \* the function from output indexes to the items opened so far
  output    \* the items of the last event, in its order

vars == <<status, items, output>>

Ended == {"completed", "incomplete"}

(* The stages of an item.  Only a message has a content part. *)
NextStages(item) ==
  CASE item.stage = "added" -> IF item.kind = "message" THEN {"part"} ELSE {"settled"}
    [] item.stage = "part" -> {"settled"}
    [] item.stage = "settled" -> IF item.kind = "message" THEN {"part_done"} ELSE {"closed"}
    [] item.stage = "part_done" -> {"closed"}
    [] OTHER -> {}

Grows(item) == item.stage = IF item.kind = "message" THEN "part" ELSE "added"

Init == status = "none" /\ items = <<>> /\ output = <<>>

Announce ==
  /\ \/ status = "none" /\ status' = "created"
     \/ status = "created" /\ status' = "in_progress"
  /\ UNCHANGED <<items, output>>

(* A new item takes the next index; indexes count from 0 *)
Open ==
  /\ status = "in_progress"
  /\ LET n == Cardinality(DOMAIN items)
     IN  /\ DOMAIN items' = 0 .. n
         /\ \A i \in DOMAIN items : items'[i] = items[i]
         /\ items'[n].stage = "added" /\ items'[n].content = <<>>
  /\ UNCHANGED <<status, output>>

(* Only one item changes at a time, and it keeps its identity *)
Changes(i) ==
  /\ status = "in_progress"
  /\ DOMAIN items' = DOMAIN items
  /\ \A j \in DOMAIN items \ {i} : items'[j] = items[j]
  /\ items'[i].id = items[i].id /\ items'[i].kind = items[i].kind
  /\ UNCHANGED <<status, output>>

Extend(i) ==
  /\ Changes(i)
  /\ Grows(items[i])
  /\ IsStrictPrefix(items[i].content, items'[i].content)
  /\ items'[i] = [items[i] EXCEPT !.content = items'[i].content]

(* The name and the call of a function call are final only when it is closed *)
Advance(i) ==
  /\ Changes(i)
  /\ items'[i].stage \in NextStages(items[i])
  /\ items'[i].content = items[i].content
  /\ items'[i].stage # "closed" => items'[i] = [items[i] EXCEPT !.stage = items'[i].stage]

End ==
  /\ status = "in_progress" /\ status' \in Ended
  /\ \A i \in DOMAIN items : items[i].stage = "closed"
  /\ DOMAIN output' = {i + 1 : i \in DOMAIN items}
  /\ \A i \in DOMAIN items : output'[i + 1] = items[i]
  /\ UNCHANGED items

Next ==
  \/ Announce \/ Open \/ End
  \/ \E i \in DOMAIN items : Extend(i) \/ Advance(i)

Spec == Init /\ [][Next]_vars
=============================================================================
