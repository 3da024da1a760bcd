------------------------------ MODULE LogServer ------------------------------
(***************************************************************************)
(* The event loop of the log server (logs/src/main.zig).                   *)
(*                                                                         *)
(* One thread owns an io_uring: a submission queue `sq` of SqDepth entries *)
(* that it fills in user space, operations the kernel holds once           *)
(* io_uring_enter has consumed them (`accepting`, `inflight`), and a       *)
(* completion queue `cq`.  The user_data of an entry is a pointer to a Req *)
(* of a fixed pool; the handler of a completion is chosen by the           *)
(* `operation` the Req holds when the completion is handled, not by the    *)
(* operation that was submitted.  A request that finds no free submission  *)
(* entry waits in the overflow `queue`, and `stop_accept` then keeps new   *)
(* connections out until the queue has drained.                            *)
(*                                                                         *)
(* The kernel, the clients and the signals are the environment.  They act  *)
(* between any two steps of the thread.                                    *)
(*                                                                         *)
(* An operator that is defined just before another and shares the start of *)
(* its name is a mutant of it: the code with a plausible bug.  No action   *)
(* uses mutants; they show that the properties can fail.                   *)
(***************************************************************************)
EXTENDS Integers, Sequences, FiniteSets

CONSTANTS
  SqDepth,        \* sq_depth: entries of the submission queue
  Reqs,           \* the slots of req_pool
  AcceptReq,      \* the slot taken for the listener at start-up
  FD,             \* descriptors accept can return
  ListenFd,       \* the descriptor of the listener
  BufSize,        \* buf_size: bytes of the buffer inside a Req
  RuntimeSafety,  \* TRUE in Debug and ReleaseSafe builds: bounds are checked
  Faults,         \* the operations the kernel may complete with an error
  Signals,        \* whether SIGINT and SIGTERM are sent
  Backlog,        \* bound: connections waiting to be accepted
  MaxUnread,      \* bound: bytes the clients may have sent that are unread
  MaxAccepts      \* bound: no client connects while more accepts are armed

ReqOperation == {"accept", "recv", "close"}

ASSUME ConstantsOK ==
  /\ SqDepth \in Nat \ {0, 1}
  /\ BufSize \in Nat \ {0}
  /\ AcceptReq \in Reqs
  /\ ListenFd \notin FD
  /\ RuntimeSafety \in BOOLEAN
  /\ Faults \subseteq ReqOperation
  /\ Signals \in BOOLEAN
  /\ Backlog \in Nat
  /\ MaxUnread \in Nat
  /\ MaxAccepts \in Nat

VARIABLES
  pc,            \* where the thread is in the loop of main
  keep_running,  \* cleared by the signal handler
  sigpending,    \* a signal arrived while the thread was inside the kernel
  stop_accept,   \* the accept is not re-armed by the handlers
  reqs,          \* the contents of the pool
  free,          \* the slots the free list holds
  queue,         \* the overflow queue of Reqs
  sq,            \* prepared submission entries the kernel has not consumed
  accepting,     \* number of accept operations the kernel holds
  inflight,      \* recv and close operations the kernel holds
  cq,            \* completions not handled yet, oldest first
  todo,          \* how many of them copy_cqes has copied for this round
  sock,          \* the connections, by descriptor
  backlog        \* connections the kernel has queued on the listener

ring == <<sq, accepting, inflight, cq, todo>>
net  == <<sock, backlog>>
pool == <<reqs, free>>
vars == <<pc, keep_running, sigpending, stop_accept, pool, queue, ring, net>>

ConnReqs == Reqs \ {AcceptReq}

Running == pc \notin {"exit", "panic"}

-----------------------------------------------------------------------------
(* Entries of the two rings.  fd and start of a completion record what the  *)
(* kernel worked on: a completion proper carries only req, ok and n (the    *)
(* sign and the value of cqe.res), and fd for an accept.                    *)

AcceptSqe(r)   == [op |-> "accept", req |-> r, fd |-> ListenFd, start |-> 0]
RecvSqe(r, f, s) == [op |-> "recv", req |-> r, fd |-> f, start |-> s]
CloseSqe(r, f) == [op |-> "close", req |-> r, fd |-> f, start |-> 0]

Cqe(e, ok, f, n) ==
  [op |-> e.op, req |-> e.req, fd |-> f, start |-> e.start, ok |-> ok, n |-> n]

Sqe == [op : ReqOperation, req : Reqs, fd : FD \cup {ListenFd}, start : 0..BufSize]

CqeSet == [op : ReqOperation, req : Reqs, fd : FD \cup {ListenFd},
           start : 0..BufSize, ok : BOOLEAN, n : 0..BufSize]

(* ring.accept, ring.recv and ring.close fail with SubmissionQueueFull      *)
(* exactly when no entry is left.                                           *)
Remaining == SqDepth - Len(sq)
HasRoom == Remaining > 0

NoConn == [st |-> "free", unread |-> 0]
NoReq  == [operation |-> "none", fd |-> ListenFd, position |-> 0]

(* State at the first `while` iteration: the pool is untouched but for the  *)
(* accept request, whose entry is already prepared.                         *)
Init ==
  /\ pc = "top"
  /\ keep_running = TRUE
  /\ sigpending = FALSE
  /\ stop_accept = FALSE
  /\ reqs = [r \in Reqs |-> IF r = AcceptReq
                            THEN [NoReq EXCEPT !.operation = "accept"]
                            ELSE NoReq]
  /\ free = Reqs \ {AcceptReq}
  /\ queue = <<>>
  /\ sq = <<AcceptSqe(AcceptReq)>>
  /\ accepting = 0
  /\ inflight = {}
  /\ cq = <<>>
  /\ todo = 0
  /\ sock = [f \in FD |-> NoConn]
  /\ backlog = 0

-----------------------------------------------------------------------------
(* The top of the loop: keep_running, re-arming the accept, draining.       *)

RearmDueEarly == stop_accept /\ Remaining >= SqDepth \div 2
RearmDue == stop_accept /\ queue = <<>> /\ Remaining >= SqDepth \div 2

RearmAcceptIfEmpty ==
  /\ pc = "top" /\ keep_running
  /\ RearmDue
  /\ sq' = IF sq = <<>> THEN <<AcceptSqe(AcceptReq)>> ELSE sq
  /\ stop_accept' = FALSE
  /\ pc' = "enter"
  /\ UNCHANGED <<keep_running, sigpending, pool, queue, accepting, inflight, cq, todo, net>>

RearmAccept ==
  /\ pc = "top" /\ keep_running
  /\ RearmDue
  /\ sq' = Append(sq, AcceptSqe(AcceptReq))
  /\ stop_accept' = FALSE
  /\ pc' = "enter"
  /\ UNCHANGED <<keep_running, sigpending, pool, queue, accepting, inflight, cq, todo, net>>

NothingQueued ==
  /\ pc = "top" /\ keep_running
  /\ queue = <<>> /\ ~RearmDue
  /\ pc' = "enter"
  /\ UNCHANGED <<keep_running, sigpending, stop_accept, pool, queue, ring, net>>

BeginDrain ==
  /\ pc = "top" /\ keep_running
  /\ queue # <<>>
  /\ pc' = "drain"
  /\ UNCHANGED <<keep_running, sigpending, stop_accept, pool, queue, ring, net>>

(* What the drain loop prepares for a queued request: a recv is given the   *)
(* whole buffer (&r.buf), whatever the position of the request is.          *)
DrainSqe(r) ==
  CASE reqs[r].operation = "accept" -> AcceptSqe(r)
    [] reqs[r].operation = "recv"   -> RecvSqe(r, reqs[r].fd, 0)
    [] reqs[r].operation = "close"  -> CloseSqe(r, reqs[r].fd)

Drain ==
  /\ pc = "drain" /\ HasRoom /\ queue # <<>>
  /\ sq' = Append(sq, DrainSqe(Head(queue)))
  /\ queue' = Tail(queue)
  /\ UNCHANGED <<pc, keep_running, sigpending, stop_accept, pool,
                 accepting, inflight, cq, todo, net>>

EndDrainAfterOne ==
  /\ pc = "drain" /\ sq # <<>>
  /\ stop_accept' = (stop_accept \/ Remaining = 0)
  /\ pc' = "enter"
  /\ UNCHANGED <<keep_running, sigpending, pool, queue, ring, net>>

EndDrain ==
  /\ pc = "drain" /\ (~HasRoom \/ queue = <<>>)
  /\ stop_accept' = (stop_accept \/ Remaining = 0)
  /\ pc' = "enter"
  /\ UNCHANGED <<keep_running, sigpending, pool, queue, ring, net>>

-----------------------------------------------------------------------------
(* submit_and_wait(1) and copy_cqes.  A signal is only noticed by the wait  *)
(* if it arrives while the thread is inside the kernel; one that arrives    *)
(* between the test of keep_running and the system call is not.             *)

EnterKernel ==
  /\ pc = "enter"
  /\ pc' = "kernel"
  /\ UNCHANGED <<keep_running, sigpending, stop_accept, pool, queue, ring, net>>

Submit ==
  /\ pc = "kernel" /\ sq # <<>>
  /\ sq' = Tail(sq)
  /\ IF Head(sq).op = "accept"
     THEN accepting' = accepting + 1 /\ UNCHANGED inflight
     ELSE inflight' = inflight \cup {Head(sq)} /\ UNCHANGED accepting
  /\ UNCHANGED <<pc, keep_running, sigpending, stop_accept, pool, queue, cq, todo, net>>

ReturnFromKernel ==
  /\ keep_running' = (keep_running /\ ~sigpending)
  /\ sigpending' = FALSE

(* The local array `cqes` has room for SqDepth completions.                 *)
Round == IF Len(cq) < SqDepth THEN Len(cq) ELSE SqDepth

Reap ==
  /\ pc = "kernel" /\ sq = <<>> /\ cq # <<>>
  /\ todo' = Round
  /\ pc' = "handle"
  /\ ReturnFromKernel
  /\ UNCHANGED <<stop_accept, pool, queue, sq, accepting, inflight, cq, net>>

InterruptedRestarts ==
  /\ pc = "kernel" /\ sq = <<>> /\ cq = <<>> /\ sigpending
  /\ ReturnFromKernel
  /\ UNCHANGED <<pc, stop_accept, pool, queue, ring, net>>

Interrupted ==
  /\ pc = "kernel" /\ sq = <<>> /\ cq = <<>> /\ sigpending
  /\ pc' = "top"
  /\ ReturnFromKernel
  /\ UNCHANGED <<stop_accept, pool, queue, ring, net>>

-----------------------------------------------------------------------------
(* Handling one completion.  The handlers share the last step of the `for`. *)

Completion == Head(cq)

Handling(op) ==
  /\ pc = "handle" /\ todo > 0
  /\ Completion.ok
  /\ reqs[Completion.req].operation = op

NextCompletion ==
  /\ cq' = Tail(cq)
  /\ todo' = todo - 1
  /\ pc' = IF todo = 1 THEN "top" ELSE "handle"

(* push_to_queue *)
PushToQueue(r) == queue' = Append(queue, r) /\ stop_accept' = TRUE

(* Prepare e, or push its request to the overflow queue.                    *)
SubmitOrDrop(e) ==
  /\ sq' = IF HasRoom THEN Append(sq, e) ELSE sq
  /\ UNCHANGED <<queue, stop_accept>>

SubmitOrQueue(e) ==
  \/ HasRoom /\ sq' = Append(sq, e) /\ UNCHANGED <<queue, stop_accept>>
  \/ ~HasRoom /\ PushToQueue(e.req) /\ UNCHANGED sq

HandleError ==
  /\ pc = "handle" /\ todo > 0
  /\ ~Completion.ok
  /\ NextCompletion
  /\ UNCHANGED <<keep_running, sigpending, stop_accept, pool, queue,
                 sq, accepting, inflight, net>>

CloseNow(f) == sock' = [sock EXCEPT ![f] = NoConn]

RejectConnectionDeaf ==
  /\ Handling("accept")
  /\ free = {}
  /\ CloseNow(Completion.fd)
  /\ NextCompletion
  /\ UNCHANGED <<keep_running, sigpending, stop_accept, pool, queue, sq,
                 accepting, inflight, backlog>>

(* No slot is free: the connection is closed at once, the accept is left    *)
(* to be re-armed at the top of the loop.                                   *)
RejectConnection ==
  /\ Handling("accept")
  /\ free = {}
  /\ stop_accept' = TRUE
  /\ CloseNow(Completion.fd)
  /\ NextCompletion
  /\ UNCHANGED <<keep_running, sigpending, pool, queue, sq, accepting, inflight, backlog>>

(* req_pool.get and the initialisation of the slot.                         *)
TakeSlotTwice(r) ==
  /\ r \in free
  /\ reqs' = [reqs EXCEPT ![r] = [operation |-> "recv", fd |-> Completion.fd, position |-> 0]]
  /\ UNCHANGED free

TakeSlotStaleFd(r) ==
  /\ r \in free
  /\ free' = free \ {r}
  /\ reqs' = IF reqs[r] = NoReq
             THEN [reqs EXCEPT ![r].operation = "recv", ![r].fd = Completion.fd]
             ELSE [reqs EXCEPT ![r].operation = "recv", ![r].position = 0]

TakeSlotStalePosition(r) ==
  /\ r \in free
  /\ free' = free \ {r}
  /\ reqs' = [reqs EXCEPT ![r].operation = "recv", ![r].fd = Completion.fd]

TakeSlot(r) ==
  /\ r \in free
  /\ free' = free \ {r}
  /\ reqs' = [reqs EXCEPT ![r] = [operation |-> "recv", fd |-> Completion.fd, position |-> 0]]

(* The recv, and then the accept unless stop_accept, each of which may find *)
(* the submission queue full.                                               *)
AcceptConnection(r) ==
  /\ Handling("accept")
  /\ TakeSlot(r)
  /\ LET recv   == RecvSqe(r, Completion.fd, 0)
         accept == AcceptSqe(Completion.req)
     IN  \/ /\ ~HasRoom
            /\ PushToQueue(r)
            /\ UNCHANGED sq
         \/ /\ HasRoom /\ stop_accept
            /\ sq' = Append(sq, recv)
            /\ UNCHANGED <<queue, stop_accept>>
         \/ /\ Remaining > 1 /\ ~stop_accept
            /\ sq' = Append(Append(sq, recv), accept)
            /\ UNCHANGED <<queue, stop_accept>>
         \/ /\ Remaining = 1 /\ ~stop_accept
            /\ sq' = Append(sq, recv)
            /\ PushToQueue(Completion.req)
  /\ NextCompletion
  /\ UNCHANGED <<keep_running, sigpending, accepting, inflight, net>>

ToCloseForgotten(r) == reqs
ToClose(r) == [reqs EXCEPT ![r].operation = "close"]

(* recv returned 0: the request is turned into the close of its descriptor. *)
ReceiveEof ==
  /\ Handling("recv")
  /\ Completion.n = 0
  /\ LET r == Completion.req IN
       /\ reqs' = ToClose(r)
       /\ SubmitOrQueue(CloseSqe(r, reqs[r].fd))
  /\ NextCompletion
  /\ UNCHANGED <<keep_running, sigpending, free, accepting, inflight, net>>

NewPosition == reqs[Completion.req].position + Completion.n

WrapTooLate == IF NewPosition > BufSize THEN 0 ELSE NewPosition
NextPosition == IF NewPosition >= BufSize THEN 0 ELSE NewPosition

(* buf[position..new_position] is the data; the next recv goes behind it,   *)
(* or to the start of the buffer when the buffer is full.                   *)
ReceiveData ==
  /\ Handling("recv")
  /\ Completion.n > 0
  /\ RuntimeSafety => NewPosition <= BufSize
  /\ LET r == Completion.req IN
       /\ reqs' = [reqs EXCEPT ![r].position = NextPosition]
       /\ SubmitOrQueue(RecvSqe(r, reqs[r].fd, NextPosition))
  /\ NextCompletion
  /\ UNCHANGED <<keep_running, sigpending, free, accepting, inflight, net>>

(* The slice ends behind the buffer and the build checks bounds.            *)
SlicePanic ==
  /\ Handling("recv")
  /\ Completion.n > 0
  /\ RuntimeSafety /\ NewPosition > BufSize
  /\ pc' = "panic"
  /\ UNCHANGED <<keep_running, sigpending, stop_accept, pool, queue, ring, net>>

HandleClose ==
  /\ Handling("close")
  /\ free' = free \cup {Completion.req}
  /\ NextCompletion
  /\ UNCHANGED <<keep_running, sigpending, stop_accept, reqs, queue,
                 sq, accepting, inflight, net>>

-----------------------------------------------------------------------------
(* Shutdown: the listener is closed and its path unlinked, then the defers  *)
(* release the accept request, the pool and the ring, and the process ends. *)

Shutdown ==
  /\ pc = "top" /\ ~keep_running
  /\ pc' = "unwind"
  /\ UNCHANGED <<keep_running, sigpending, stop_accept, pool, queue, ring, net>>

Unwind ==
  /\ pc = "unwind"
  /\ pc' = "exit"
  /\ free' = free \cup {AcceptReq}
  /\ sq' = <<>> /\ accepting' = 0 /\ inflight' = {} /\ cq' = <<>> /\ todo' = 0
  /\ sock' = [f \in FD |-> NoConn]
  /\ backlog' = 0
  /\ UNCHANGED <<keep_running, sigpending, stop_accept, reqs, queue>>

-----------------------------------------------------------------------------
(* The kernel completes operations, in any order.                           *)

AcceptDone(f) ==
  /\ Running
  /\ accepting > 0 /\ backlog > 0
  /\ sock[f].st = "free"
  /\ accepting' = accepting - 1
  /\ backlog' = backlog - 1
  /\ sock' = [sock EXCEPT ![f] = [st |-> "up", unread |-> 0]]
  /\ cq' = Append(cq, Cqe(AcceptSqe(AcceptReq), TRUE, f, 0))
  /\ UNCHANGED <<pc, keep_running, sigpending, stop_accept, pool, queue, sq, inflight, todo>>

AcceptFails ==
  /\ Running
  /\ "accept" \in Faults
  /\ accepting > 0
  /\ accepting' = accepting - 1
  /\ cq' = Append(cq, Cqe(AcceptSqe(AcceptReq), FALSE, ListenFd, 0))
  /\ UNCHANGED <<pc, keep_running, sigpending, stop_accept, pool, queue,
                 sq, inflight, todo, net>>

(* The result of a recv into a window of the given length.  An empty window *)
(* is answered with 0, like the end of the stream.                          *)
RecvResults(conn, len) ==
  IF len = 0 \/ (conn.unread = 0 /\ conn.st = "fin")
  THEN {0}
  ELSE {n \in 1..len : n <= conn.unread}

RecvDone(e) ==
  /\ Running
  /\ e \in inflight /\ e.op = "recv"
  /\ \E n \in RecvResults(sock[e.fd], BufSize - e.start) :
       /\ sock' = [sock EXCEPT ![e.fd].unread = @ - n]
       /\ cq' = Append(cq, Cqe(e, TRUE, e.fd, n))
  /\ inflight' = inflight \ {e}
  /\ UNCHANGED <<pc, keep_running, sigpending, stop_accept, pool, queue,
                 sq, accepting, todo, backlog>>

(* The descriptor is gone even if close reports an error.                   *)
CloseDone(e) ==
  /\ Running
  /\ e \in inflight /\ e.op = "close"
  /\ \E ok \in {TRUE} \cup {b \in {FALSE} : "close" \in Faults} :
       cq' = Append(cq, Cqe(e, ok, e.fd, 0))
  /\ sock' = [sock EXCEPT ![e.fd] = NoConn]
  /\ inflight' = inflight \ {e}
  /\ UNCHANGED <<pc, keep_running, sigpending, stop_accept, pool, queue,
                 sq, accepting, todo, backlog>>

RecvFails(e) ==
  /\ Running
  /\ "recv" \in Faults
  /\ e \in inflight /\ e.op = "recv"
  /\ cq' = Append(cq, Cqe(e, FALSE, e.fd, 0))
  /\ inflight' = inflight \ {e}
  /\ UNCHANGED <<pc, keep_running, sigpending, stop_accept, pool, queue,
                 sq, accepting, todo, net>>

-----------------------------------------------------------------------------
(* Clients and signals.                                                     *)

(* Accept operations that are prepared, held by the kernel or queued.       *)
ArmedAccepts ==
  accepting + Cardinality({i \in DOMAIN sq : sq[i].op = "accept"})
            + Cardinality({i \in DOMAIN queue : queue[i] = AcceptReq})

PeerConnect ==
  /\ Running /\ pc # "unwind"
  /\ backlog < Backlog
  /\ ArmedAccepts <= MaxAccepts
  /\ backlog' = backlog + 1
  /\ UNCHANGED <<pc, keep_running, sigpending, stop_accept, pool, queue, ring, sock>>

Unread == {b \in FD \X (1..MaxUnread) : b[2] <= sock[b[1]].unread}

PeerSend(f) ==
  /\ Running
  /\ sock[f].st = "up" /\ Cardinality(Unread) < MaxUnread
  /\ sock' = [sock EXCEPT ![f].unread = @ + 1]
  /\ UNCHANGED <<pc, keep_running, sigpending, stop_accept, pool, queue, ring, backlog>>

PeerFinish(f) ==
  /\ Running
  /\ sock[f].st = "up"
  /\ sock' = [sock EXCEPT ![f].st = "fin"]
  /\ UNCHANGED <<pc, keep_running, sigpending, stop_accept, pool, queue, ring, backlog>>

(* sigHandler, for SIGINT and SIGTERM: it runs at once in user mode and on  *)
(* the return to user mode when the thread is inside the kernel.            *)
Signal ==
  /\ Signals
  /\ Running
  /\ IF pc = "kernel"
     THEN sigpending' = TRUE /\ UNCHANGED keep_running
     ELSE keep_running' = FALSE /\ UNCHANGED sigpending
  /\ UNCHANGED <<pc, stop_accept, pool, queue, ring, net>>

-----------------------------------------------------------------------------
LoopTop == RearmAccept \/ NothingQueued \/ BeginDrain \/ Drain \/ EndDrain \/ Shutdown \/ Unwind

SystemCall == EnterKernel \/ Submit \/ Reap \/ Interrupted

Handler ==
  \/ HandleError
  \/ RejectConnection
  \/ \E r \in Reqs : AcceptConnection(r)
  \/ ReceiveEof
  \/ ReceiveData
  \/ SlicePanic
  \/ HandleClose

Server == LoopTop \/ SystemCall \/ Handler

Kernel ==
  \/ \E f \in FD : AcceptDone(f)
  \/ AcceptFails
  \/ \E e \in inflight : RecvDone(e) \/ CloseDone(e) \/ RecvFails(e)

Clients ==
  \/ PeerConnect
  \/ \E f \in FD : PeerSend(f) \/ PeerFinish(f)

Next == Server \/ Kernel \/ Clients \/ Signal

Spec == Init /\ [][Next]_vars

(* The thread runs when it can, and the kernel answers every operation that *)
(* can complete.  Nothing is assumed of the clients and of the signals.     *)
Fairness ==
  /\ WF_vars(Server)
  /\ WF_vars(\E f \in FD : AcceptDone(f))
  /\ \A r \in ConnReqs : WF_vars(\E e \in inflight : e.req = r /\ (RecvDone(e) \/ CloseDone(e)))

FairSpec == Spec /\ Fairness

-----------------------------------------------------------------------------
(* Where a request can be.                                                  *)

Prepared(r)  == \E i \in DOMAIN sq : sq[i].req = r
InKernel(r)  == \E e \in inflight : e.req = r
Completed(r) == \E i \in DOMAIN cq : cq[i].req = r
Queued(r)    == \E i \in DOMAIN queue : queue[i] = r

Outstanding(r) == Prepared(r) \/ InKernel(r) \/ Completed(r) \/ Queued(r)

(* The thread sleeps in io_uring_enter and only the environment can wake it. *)
Asleep == pc = "kernel" /\ sq = <<>> /\ cq = <<>> /\ ~sigpending

-----------------------------------------------------------------------------
(* Every variable has its type, the submission queue never holds more than  *)
(* SqDepth entries, and the accept request always is an accept.             *)
TypeOK ==
  /\ pc \in {"top", "drain", "enter", "kernel", "handle", "unwind", "exit", "panic"}
  /\ keep_running \in BOOLEAN
  /\ sigpending \in BOOLEAN
  /\ stop_accept \in BOOLEAN
  /\ reqs \in [Reqs -> [operation : ReqOperation \cup {"none"},
                        fd : FD \cup {ListenFd}, position : 0..(BufSize - 1)]]
  /\ free \in SUBSET Reqs
  /\ queue \in Seq(Reqs)
  /\ sq \in Seq(Sqe) /\ Len(sq) <= SqDepth
  /\ accepting \in Nat
  /\ inflight \in SUBSET Sqe
  /\ cq \in Seq(CqeSet)
  /\ todo \in Nat /\ todo <= Len(cq)
  /\ sock \in [FD -> [st : {"free", "up", "fin"}, unread : Nat]]
  /\ backlog \in Nat

(* A request of a connection has at most one operation anywhere in the      *)
(* system: prepared, held by the kernel, completed or queued, and none once *)
(* it is back in the free list.  The accept request, of which several       *)
(* operations can be armed, is queued at most once.  The kernel writes into *)
(* the buffer of a request and the handlers change it, so two operations on *)
(* one request would race; and the queue is linked through the request, so  *)
(* it must not be pushed twice (assert(r.next == null) in Queue.push).      *)
SingleOp ==
  /\ \A i, j \in DOMAIN queue : queue[i] = queue[j] => i = j
  /\ \A r \in ConnReqs :
       /\ \A i, j \in DOMAIN sq : sq[i].req = r /\ sq[j].req = r => i = j
       /\ \A i, j \in DOMAIN cq : cq[i].req = r /\ cq[j].req = r => i = j
       /\ \A d, e \in inflight : d.req = r /\ e.req = r => d = e
       /\ Prepared(r) => ~InKernel(r) /\ ~Completed(r) /\ ~Queued(r)
       /\ InKernel(r) => ~Completed(r) /\ ~Queued(r)
       /\ Completed(r) => ~Queued(r)
       /\ r \in free => ~Outstanding(r)

(* The handler of a completion is chosen by what the request says when the  *)
(* completion is handled: it still says what was submitted, for the         *)
(* descriptor it was submitted for.                                         *)
DispatchMatches ==
  /\ \A i \in DOMAIN sq : sq[i].op = reqs[sq[i].req].operation
  /\ \A e \in inflight : e.op = reqs[e.req].operation /\ e.fd = reqs[e.req].fd
  /\ \A i \in DOMAIN cq :
       /\ cq[i].op = reqs[cq[i].req].operation
       /\ cq[i].op # "accept" => cq[i].fd = reqs[cq[i].req].fd

(* A connection that a request will still operate on.                       *)
Uses(r, f) ==
  /\ reqs[r].fd = f
  /\ \/ Prepared(r) \/ InKernel(r) \/ Queued(r)
     \/ \E i \in DOMAIN cq : cq[i].req = r /\ cq[i].ok /\ cq[i].op = "recv"

(* A connection the kernel has accepted and the loop has not seen yet.      *)
JustAccepted(f) == \E i \in DOMAIN cq : cq[i].op = "accept" /\ cq[i].ok /\ cq[i].fd = f

(* Descriptors are reused as soon as they are closed: no two requests ever  *)
(* operate on one descriptor, none on a closed one, and none on one whose   *)
(* accept has not been handled.  So data is never read from, and close is   *)
(* never applied to, the connection of somebody else.                       *)
DescriptorOwnership ==
  Running => \A f \in FD :
    /\ \A r \in ConnReqs : Uses(r, f) => sock[f].st # "free" /\ ~JustAccepted(f)
    /\ \A r, s \in ConnReqs : Uses(r, f) /\ Uses(s, f) => r = s

(* Without errors from the kernel nothing is lost: a slot that is not free  *)
(* has an operation outstanding, and an open connection belongs to a        *)
(* request or to an accept that is about to be handled.                     *)
NothingLost ==
  Faults = {} /\ Running =>
    /\ \A r \in ConnReqs : r \notin free => Outstanding(r)
    /\ \A f \in FD : sock[f].st # "free" =>
         JustAccepted(f) \/ \E r \in ConnReqs : Uses(r, f)

(* The server never stops listening for good: while the loop runs, an       *)
(* accept is armed, or its completion is pending, or stop_accept is set, so *)
(* that the top of the loop will arm one.  It holds as long as no accept    *)
(* completes with an error, which the loop does not re-arm.                 *)
AcceptNotLost ==
  "accept" \notin Faults /\ Running =>
    ArmedAccepts > 0 \/ Completed(AcceptReq) \/ stop_accept

(* The server only closes a connection whose client has finished and whose  *)
(* data has all been received, although an empty recv buffer would look     *)
(* just like the end of the stream.                                         *)
NoPrematureClose ==
  Running => \A r \in ConnReqs : \A f \in FD :
    Uses(r, f) /\ reqs[r].operation = "close" => sock[f] = [st |-> "fin", unread |-> 0]

(* The overflow queue never holds more than half of a submission queue,     *)
(* although the pool is twice its size: only an accept asks for two         *)
(* entries, and the first request that is turned away stops that.           *)
QueueBounded == Len(queue) <= (SqDepth + 1) \div 2

(* The loop sleeps with requests in the overflow queue only when it has     *)
(* handed a whole submission queue of operations to the kernel before.      *)
SleepsOnlyWhenFull ==
  Asleep /\ queue # <<>> => accepting + Cardinality(inflight) >= SqDepth

(* The handler reads the received data where the kernel has written it.     *)
(* It holds as long as no recv goes through the overflow queue.             *)
ReadsWhatArrived ==
  \A i \in DOMAIN cq :
    cq[i].ok /\ cq[i].op = "recv" => cq[i].start = reqs[cq[i].req].position

(* The slice of the received data (main.zig:218) ends inside the buffer.    *)
SliceInBounds ==
  \A i \in DOMAIN cq :
    cq[i].ok /\ cq[i].op = "recv" => reqs[cq[i].req].position + cq[i].n <= BufSize

(* Back-pressure: while requests wait in the overflow queue, no accept is   *)
(* prepared, unless it is the accept itself whose turn in the queue it is.  *)
Backpressure ==
  [][ queue # <<>> /\ Len(sq') > Len(sq) /\ sq'[Len(sq')].op = "accept"
        => Head(queue) = AcceptReq ]_vars

(* The overflow queue drains, and the accept is armed again, again and again. *)
(* This is not certain: submit_and_wait(1) sleeps although requests are     *)
(* queued or the accept is not armed, until some other client wakes it; and *)
(* rounds that fill the submission queue by themselves leave the queued     *)
(* requests no entry.                                                       *)
KeepsDraining == []<>(queue = <<>> /\ ~stop_accept)

(* Descriptors are interchangeable: what is shown of one holds of all.      *)
AnyFd == CHOOSE f \in FD : TRUE

(* A connection whose client has finished is closed.                        *)
FinishedIsClosed == sock[AnyFd].st = "fin" ~> sock[AnyFd].st = "free"

(* The handler of an accept is about to serve its connection with a slot of *)
(* the pool or, when every slot is in use, to turn it away.                 *)
HandlesAccept == pc = "handle" /\ todo > 0 /\ Completion.op = "accept"

(* While a connection waits in the backlog, or has been taken from it and   *)
(* not been handled, an accept comes to be handled.                         *)
BacklogIsServed ==
  (backlog = Backlog \/ Completed(AcceptReq)) ~> (HandlesAccept \/ ~Running)

(* If the overflow queue keeps draining, every finished connection is       *)
(* closed: none of the closes that were queued, drained or prepared is lost *)
(* or passed over for ever.                                                 *)
FinishedIsClosedIfDrained == KeepsDraining => FinishedIsClosed

(* A descriptor is left for the next connection.                            *)
DescriptorLeft == \E f \in FD : sock[f].st = "free"

(* Likewise the backlog is served, if also descriptors keep coming free:    *)
(* clients that never finish may hold them all.  The accept that was held   *)
(* back while requests were queued has been armed again.                    *)
BacklogIsServedIfDrained == KeepsDraining /\ []<>DescriptorLeft => BacklogIsServed

(* A signal is noticed when it reaches the thread inside the kernel, or in  *)
(* user mode anywhere but between the test of keep_running and the wait,    *)
(* where it is noticed only when a completion ends the wait.                *)
Noticed == sigpending \/ (~keep_running /\ pc \in {"handle", "top"})

(* A signal that is noticed stops the server, whatever it is waiting for.   *)
SignalStops == Noticed ~> ~Running

=============================================================================
