-------------------------------- MODULE Fifo --------------------------------
(* What the event loop expects of its overflow queue (Queue.zig): requests  *)
(* come out in the order they were pushed, each once, and a pop only finds  *)
(* nothing when everything pushed has come out.                             *)
EXTENDS Sequences

CONSTANTS Reqs, Null

VARIABLES items,   \* the requests that wait, oldest first
          answer   \* what the last pop returned: a request, or Null

vars == <<items, answer>>

Init == items = <<>> /\ answer = Null

Push(r) ==
  /\ items' = Append(items, r)
  /\ UNCHANGED answer

Pop ==
  /\ items # <<>>
  /\ answer' = Head(items)
  /\ items' = Tail(items)

PopNothing ==
  /\ items = <<>>
  /\ answer' = Null
  /\ UNCHANGED items

Next == (\E r \in Reqs : Push(r)) \/ Pop \/ PopNothing

Spec == Init /\ [][Next]_vars
=============================================================================
