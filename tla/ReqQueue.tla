------------------------------ MODULE ReqQueue ------------------------------
(* The overflow queue of the event loop (logs/src/Queue.zig): a singly      *)
(* linked list threaded through the `next` fields of the requests.  `items` *)
(* lists the requests that were pushed and not popped; it is not in the     *)
(* code.  A caller never pushes a request that is in the queue: for the     *)
(* event loop, that is what SingleOp of LogServer shows.                    *)
EXTENDS Integers, Sequences

CONSTANTS Reqs, Null

ASSUME NullOK == Null \notin Reqs

VARIABLES head, tail, next, items, popped

queueVars == <<head, tail, next, items, popped>>

Queued(r) == \E i \in DOMAIN items : items[i] = r

QueueInit ==
  /\ head = Null /\ tail = Null
  /\ next = [r \in Reqs |-> Null]
  /\ items = <<>>
  /\ popped = Null

Push(r) ==
  /\ ~Queued(r)
  /\ IF tail # Null
     THEN next' = [next EXCEPT ![tail] = r] /\ UNCHANGED head
     ELSE head' = r /\ UNCHANGED next
  /\ tail' = r
  /\ items' = Append(items, r)
  /\ UNCHANGED popped

(* The last request leaves: tail is reset with head.                        *)
TailAfter(h) == IF h = Null THEN Null ELSE tail

LinkCleared(r) == [next EXCEPT ![r] = Null]

Pop ==
  /\ head # Null
  /\ popped' = head
  /\ head' = next[head]
  /\ tail' = TailAfter(head')
  /\ next' = LinkCleared(head)
  /\ items' = Tail(items)

PopNothing ==
  /\ head = Null
  /\ popped' = Null
  /\ UNCHANGED <<head, tail, next, items>>

QueueNext == (\E r \in Reqs : Push(r)) \/ Pop \/ PopNothing

QueueSpec == QueueInit /\ [][QueueNext]_queueVars

-----------------------------------------------------------------------------
(* Every variable has its type.                                             *)
QueueTypeOK ==
  /\ head \in Reqs \cup {Null}
  /\ tail \in Reqs \cup {Null}
  /\ next \in [Reqs -> Reqs \cup {Null}]
  /\ items \in Seq(Reqs)
  /\ popped \in Reqs \cup {Null}

(* The list that starts at head runs through exactly the requests that wait,*)
(* in their order, and ends at tail.                                        *)
Linked ==
  /\ items = <<>> => head = Null /\ tail = Null
  /\ items # <<>> => head = items[1] /\ tail = items[Len(items)]
  /\ \A i \in 1..(Len(items) - 1) : next[items[i]] = items[i + 1]
  /\ \A i, j \in DOMAIN items : items[i] = items[j] => i = j

(* Whatever is not followed by another request in the queue has a null      *)
(* link, so that the assertion of push holds for every request that is not  *)
(* in the queue; it also holds for the last one, whose second push would    *)
(* tie the list into a loop.                                                *)
LinksCleared ==
  \A r \in Reqs : next[r] # Null => \E i \in 1..(Len(items) - 1) : items[i] = r

(* The linked list is a first-in first-out queue.                           *)
F == INSTANCE Fifo WITH answer <- popped

ImplementsFifo == F!Spec
=============================================================================
