------------------------------ MODULE Requests ------------------------------
(* The requests of the event loop between its pool and its overflow queue   *)
(* (logs/src/main.zig with freelist.zig and Queue.zig).  A request is the   *)
(* memory of a slot: init of the pool leaves it undefined, taking a slot    *)
(* overwrites all of it, the link of the queue too, and the queue is        *)
(* threaded through slots that the pool must not hand out.                  *)
(*                                                                          *)
(* FreeList and ReqQueue each assume something of their caller: that it     *)
(* releases what it holds, and that it pushes initialised requests that are *)
(* not in the queue.  Here the caller is the event loop, which keeps to     *)
(* both (SingleOp of LogServer).                                            *)
(*                                                                          *)
(* TakeDirty and ReleaseQueued are mutants of the definitions that follow   *)
(* them: the code with a plausible bug, used by no action.                  *)
EXTENDS FreeList, ReqQueue

ASSUME ReqsAreSlots == Reqs = Index

requests == <<vars, queueVars>>

(* The links of slots that were never taken are whatever the memory held.   *)
RequestsInit ==
  /\ Init
  /\ head = Null /\ tail = Null /\ items = <<>> /\ popped = Null
  /\ next \in [Reqs -> Reqs \cup {Null}]

(* recv_req.* = .{ .operation = .recv, .fd = result }                       *)
TakeDirty ==
  /\ Get
  /\ UNCHANGED queueVars

Take ==
  /\ Get
  /\ next' = [next EXCEPT ![answer'] = Null]
  /\ UNCHANGED <<head, tail, items, popped>>

TakeRefused == GetRefused /\ UNCHANGED queueVars

(* push_to_queue: only a request that was taken is ever queued.             *)
PushToQueue(r) ==
  /\ r \in held
  /\ Push(r)
  /\ UNCHANGED vars

(* The drain loop: what it pops it submits.                                 *)
DrainOne == (Pop \/ PopNothing) /\ UNCHANGED vars

(* A close has completed: it went through the ring, so the request is in    *)
(* the queue no longer.                                                     *)
ReleaseQueued(r) ==
  /\ Release(r)
  /\ UNCHANGED queueVars

ReleaseClosed(r) ==
  /\ ~Queued(r)
  /\ Release(r)
  /\ UNCHANGED queueVars

RequestsNext ==
  \/ Take
  \/ TakeRefused
  \/ \E r \in Reqs : PushToQueue(r)
  \/ DrainOne
  \/ \E r \in Reqs : ReleaseClosed(r)

RequestsSpec == RequestsInit /\ [][RequestsNext]_requests

=============================================================================
