--------------------------- MODULE LogServerProofs ---------------------------
(***************************************************************************)
(* Safety of LogServer for every value of the constants.  In this order:   *)
(*   TypeInv       the types, the depth of the rings and the positions;    *)
(*   QueueInv      the bound of the overflow queue, and back-pressure;     *)
(*   DispatchInv   one operation per request, dispatched as submitted;     *)
(*   ListeningInv  the accept, which is armed or owed;                     *)
(*   FullInv       the loop, which sleeps on a full ring only;             *)
(*   PlaceInv      a completed recv, handled where its bytes are.          *)
(* Each rests on the ones before it.                                       *)
(***************************************************************************)
EXTENDS LogServer, FiniteSetTheorems, TLAPS

(* The drain loop finds an operation in every request it pops: a slot that   *)
(* was never given out has none.                                             *)
QueuedOps == \A i \in DOMAIN queue : reqs[queue[i]].operation \in ReqOperation

TypeInv == TypeOK /\ QueuedOps

(* Half of a submission queue of at least two entries is not nothing.        *)
LEMMA HalfDepth ==
  /\ SqDepth \div 2 \in Nat
  /\ SqDepth \div 2 >= 1
BY ConstantsOK

(* The entries and completions that are built have their types.              *)
LEMMA SqeTypes ==
  ASSUME NEW r \in Reqs, NEW f \in FD \cup {ListenFd}, NEW s \in 0..BufSize
  PROVE  AcceptSqe(r) \in Sqe /\ RecvSqe(r, f, s) \in Sqe /\ CloseSqe(r, f) \in Sqe
BY ConstantsOK DEF AcceptSqe, RecvSqe, CloseSqe, Sqe, ReqOperation

LEMMA AcceptSqeType == AcceptSqe(AcceptReq) \in Sqe
<1>1. 0 \in 0..BufSize /\ AcceptReq \in Reqs
  BY ConstantsOK
<1> QED  BY <1>1 DEF AcceptSqe, Sqe, ReqOperation

LEMMA CqeType ==
  ASSUME NEW e \in Sqe, NEW ok \in BOOLEAN, NEW f \in FD \cup {ListenFd}, NEW n \in 0..BufSize
  PROVE  Cqe(e, ok, f, n) \in CqeSet
BY DEF Cqe, Sqe, CqeSet

LEMMA DrainSqeType ==
  ASSUME TypeInv, queue # <<>>
  PROVE  DrainSqe(Head(queue)) \in Sqe
<1>1. /\ Head(queue) \in Reqs
      /\ reqs[Head(queue)].operation \in ReqOperation
      /\ reqs[Head(queue)].fd \in FD \cup {ListenFd}
  BY DEF TypeInv, TypeOK, QueuedOps
<1>2. 0 \in 0..BufSize
  BY ConstantsOK
<1> QED  BY <1>1, <1>2, SqeTypes DEF DrainSqe, ReqOperation

(* What a handler that prepares or queues one request does to the types.     *)
LEMMA SubmitOrQueueType ==
  ASSUME TypeOK, NEW e \in Sqe, SubmitOrQueue(e)
  PROVE  /\ sq' \in Seq(Sqe) /\ Len(sq') <= SqDepth
         /\ queue' \in Seq(Reqs)
         /\ stop_accept' \in BOOLEAN
<1>1. e.req \in Reqs
  BY DEF Sqe
<1>2. CASE HasRoom /\ sq' = Append(sq, e) /\ UNCHANGED <<queue, stop_accept>>
  <2>1. Append(sq, e) \in Seq(Sqe) /\ Len(Append(sq, e)) = Len(sq) + 1
    BY DEF TypeOK
  <2> QED  BY <1>2, <2>1, ConstantsOK DEF TypeOK, HasRoom, Remaining
<1>3. CASE ~HasRoom /\ PushToQueue(e.req) /\ UNCHANGED sq
  BY <1>1, <1>3 DEF TypeOK, PushToQueue
<1> QED  BY <1>2, <1>3 DEF SubmitOrQueue

LEMMA InitTypeInv == Init => TypeInv
<1> SUFFICES ASSUME Init PROVE TypeInv
  OBVIOUS
<1>1. AcceptSqe(AcceptReq) \in Sqe
  BY ConstantsOK, SqeTypes
<1>2. /\ sq \in Seq(Sqe) /\ Len(sq) <= SqDepth
  BY <1>1, ConstantsOK DEF Init
<1>3. reqs \in [Reqs -> [operation : ReqOperation \cup {"none"},
                         fd : FD \cup {ListenFd}, position : 0..(BufSize - 1)]]
  BY ConstantsOK DEF Init, NoReq, ReqOperation
<1>4. sock \in [FD -> [st : {"free", "up", "fin"}, unread : Nat]]
  BY DEF Init, NoConn
<1>5. queue \in Seq(Reqs) /\ cq \in Seq(CqeSet) /\ todo <= Len(cq) /\ QueuedOps
  BY DEF Init, QueuedOps
<1>6. free \in SUBSET Reqs /\ inflight \in SUBSET Sqe
  BY DEF Init
<1> QED  BY <1>2, <1>3, <1>4, <1>5, <1>6 DEF Init, TypeInv, TypeOK

-----------------------------------------------------------------------------
(* What the handlers share.                                                  *)

LEMMA CompletionType ==
  ASSUME TypeOK, todo > 0
  PROVE  /\ Completion \in CqeSet
         /\ Completion.req \in Reqs
         /\ Completion.fd \in FD \cup {ListenFd}
         /\ Completion.n \in 0..BufSize
<1>1. cq # <<>>
  BY DEF TypeOK
<1>2. Completion \in CqeSet
  BY <1>1 DEF TypeOK, Completion
<1> QED  BY <1>2 DEF CqeSet

LEMMA NextCompletionType ==
  ASSUME TypeOK, todo > 0, NextCompletion
  PROVE  /\ cq' \in Seq(CqeSet)
         /\ todo' \in Nat /\ todo' <= Len(cq')
         /\ pc' \in {"top", "handle"}
<1>1. cq # <<>>
  BY DEF TypeOK
<1>2. Tail(cq) \in Seq(CqeSet) /\ Len(Tail(cq)) = Len(cq) - 1
  BY <1>1 DEF TypeOK
<1> QED  BY <1>2 DEF TypeOK, NextCompletion

(* The operation of a request may change, as long as it stays one.           *)
LEMMA QueuedOpsKept ==
  ASSUME TypeInv, reqs' \in [Reqs -> [operation : ReqOperation \cup {"none"},
                                     fd : FD \cup {ListenFd}, position : 0..(BufSize - 1)]],
         \A r \in Reqs : reqs'[r] = reqs[r] \/ reqs'[r].operation \in ReqOperation,
         queue' = queue
           \/ (\E r \in Reqs : queue' = Append(queue, r) /\ reqs'[r].operation \in ReqOperation)
  PROVE  QueuedOps'
<1>1. \A i \in DOMAIN queue : queue[i] \in Reqs
  BY DEF TypeInv, TypeOK
<1>2. \A i \in DOMAIN queue : reqs'[queue[i]].operation \in ReqOperation
  BY <1>1 DEF TypeInv, QueuedOps
<1>3. CASE queue' = queue
  BY <1>2, <1>3 DEF QueuedOps
<1>4. ASSUME NEW r \in Reqs, queue' = Append(queue, r), reqs'[r].operation \in ReqOperation
      PROVE  QueuedOps'
  <2> SUFFICES ASSUME NEW i \in DOMAIN queue'
               PROVE  reqs'[queue'[i]].operation \in ReqOperation
    BY DEF QueuedOps
  <2>1. queue \in Seq(Reqs)
    BY DEF TypeInv, TypeOK
  <2>2. (i \in DOMAIN queue /\ queue'[i] = queue[i]) \/ queue'[i] = r
    BY <1>4, <2>1
  <2> QED  BY <1>2, <1>4, <2>2
<1> QED  BY <1>3, <1>4

-----------------------------------------------------------------------------
(* The top of the loop, the system call and the environment.                 *)

LEMMA LoopTopTypeInv ==
  ASSUME TypeInv, LoopTop
  PROVE  TypeInv'
<1> USE DEF TypeInv
<1>1. CASE RearmAccept
  <2>1. AcceptSqe(AcceptReq) \in Sqe
    BY ConstantsOK, SqeTypes
  <2>2. Append(sq, AcceptSqe(AcceptReq)) \in Seq(Sqe)
        /\ Len(Append(sq, AcceptSqe(AcceptReq))) = Len(sq) + 1
    BY <2>1 DEF TypeOK
  <2>3. Len(sq) + 1 <= SqDepth
    BY <1>1, HalfDepth, ConstantsOK DEF TypeOK, RearmAccept, RearmDue, Remaining
  <2> QED  BY <1>1, <2>2, <2>3 DEF TypeOK, QueuedOps, RearmAccept, pool, net
<1>2. CASE NothingQueued
  BY <1>2 DEF TypeOK, QueuedOps, NothingQueued, pool, ring, net
<1>3. CASE BeginDrain
  BY <1>3 DEF TypeOK, QueuedOps, BeginDrain, pool, ring, net
<1>4. CASE Drain
  <2>1. DrainSqe(Head(queue)) \in Sqe
    BY <1>4, DrainSqeType DEF Drain
  <2>2. Append(sq, DrainSqe(Head(queue))) \in Seq(Sqe)
        /\ Len(Append(sq, DrainSqe(Head(queue)))) = Len(sq) + 1
    BY <2>1 DEF TypeOK
  <2>3. Len(sq) + 1 <= SqDepth
    BY <1>4, ConstantsOK DEF TypeOK, Drain, HasRoom, Remaining
  <2>4. Tail(queue) \in Seq(Reqs)
        /\ \A i \in DOMAIN Tail(queue) : i + 1 \in DOMAIN queue /\ Tail(queue)[i] = queue[i + 1]
    BY <1>4 DEF TypeOK, Drain
  <2>5. QueuedOps'
    BY <1>4, <2>4 DEF QueuedOps, Drain, pool
  <2> QED  BY <1>4, <2>2, <2>3, <2>4, <2>5 DEF TypeOK, Drain, pool, net
<1>5. CASE EndDrain
  BY <1>5 DEF TypeOK, QueuedOps, EndDrain, pool, ring, net
<1>6. CASE Shutdown
  BY <1>6 DEF TypeOK, QueuedOps, Shutdown, pool, ring, net
<1>7. CASE Unwind
  <2>1. [f \in FD |-> NoConn] \in [FD -> [st : {"free", "up", "fin"}, unread : Nat]]
    BY DEF NoConn
  <2>2. sq' \in Seq(Sqe) /\ Len(sq') <= SqDepth /\ cq' \in Seq(CqeSet) /\ todo' <= Len(cq')
    BY <1>7, ConstantsOK DEF Unwind
  <2>3. free' \in SUBSET Reqs /\ inflight' \in SUBSET Sqe
    BY <1>7, ConstantsOK DEF TypeOK, Unwind
  <2>4. pc' = "exit" /\ accepting' = 0 /\ todo' = 0 /\ backlog' = 0
        /\ sock' = [f \in FD |-> NoConn]
        /\ UNCHANGED <<keep_running, sigpending, stop_accept, reqs, queue>>
    BY <1>7 DEF Unwind
  <2> QED  BY <2>1, <2>2, <2>3, <2>4 DEF TypeOK, QueuedOps
<1> QED  BY <1>1, <1>2, <1>3, <1>4, <1>5, <1>6, <1>7 DEF LoopTop

LEMMA SystemCallTypeInv ==
  ASSUME TypeInv, SystemCall
  PROVE  TypeInv'
<1> USE DEF TypeInv
<1>1. CASE EnterKernel
  BY <1>1 DEF TypeOK, QueuedOps, EnterKernel, pool, ring, net
<1>2. CASE Submit
  <2>1. Head(sq) \in Sqe /\ Tail(sq) \in Seq(Sqe) /\ Len(Tail(sq)) = Len(sq) - 1
    BY <1>2 DEF TypeOK, Submit
  <2>2. accepting' \in Nat /\ inflight' \in SUBSET Sqe
    BY <1>2, <2>1 DEF TypeOK, Submit
  <2>3. Len(Tail(sq)) <= SqDepth
    BY <2>1, ConstantsOK DEF TypeOK
  <2> QED  BY <1>2, <2>1, <2>2, <2>3 DEF TypeOK, QueuedOps, Submit, pool, net
<1>3. CASE Reap
  <2>1. todo' \in Nat /\ todo' <= Len(cq)
    BY <1>3, ConstantsOK DEF TypeOK, Reap, Round
  <2> QED  BY <1>3, <2>1 DEF TypeOK, QueuedOps, Reap, ReturnFromKernel, pool, net
<1>4. CASE Interrupted
  BY <1>4 DEF TypeOK, QueuedOps, Interrupted, ReturnFromKernel, pool, ring, net
<1> QED  BY <1>1, <1>2, <1>3, <1>4 DEF SystemCall

LEMMA PostType ==
  ASSUME TypeOK, NEW c \in CqeSet, cq' = Append(cq, c)
  PROVE  cq' \in Seq(CqeSet) /\ Len(cq') = Len(cq) + 1 /\ todo <= Len(cq')
<1>1. cq \in Seq(CqeSet) /\ todo \in Nat /\ todo <= Len(cq)
  BY DEF TypeOK
<1>2. Append(cq, c) \in Seq(CqeSet) /\ Len(Append(cq, c)) = Len(cq) + 1
  BY <1>1
<1> HIDE DEF CqeSet
<1> QED  BY <1>1, <1>2

LEMMA KernelTypeInv ==
  ASSUME TypeInv, Kernel
  PROVE  TypeInv'
<1> USE DEF TypeInv
<1>1. ASSUME NEW f \in FD, AcceptDone(f)
      PROVE  TypeInv'
  <2>1. Cqe(AcceptSqe(AcceptReq), TRUE, f, 0) \in CqeSet
    <3>1. 0 \in 0..BufSize
      BY ConstantsOK
    <3> QED  BY <3>1, AcceptSqeType, CqeType
  <2>2. cq' = Append(cq, Cqe(AcceptSqe(AcceptReq), TRUE, f, 0)) /\ UNCHANGED todo
    BY <1>1 DEF AcceptDone
  <2>3. cq' \in Seq(CqeSet) /\ todo' <= Len(cq')
    BY <2>1, <2>2, PostType
  <2>4. sock' \in [FD -> [st : {"free", "up", "fin"}, unread : Nat]]
    BY <1>1 DEF TypeOK, AcceptDone
  <2>5. accepting' \in Nat /\ backlog' \in Nat
    BY <1>1 DEF TypeOK, AcceptDone
  <2>6. UNCHANGED <<pc, keep_running, sigpending, stop_accept, pool, queue, sq, inflight, todo>>
    BY <1>1 DEF AcceptDone
  <2> QED  BY <2>3, <2>4, <2>5, <2>6 DEF TypeOK, QueuedOps, pool
<1>2. CASE AcceptFails
  <2>1. Cqe(AcceptSqe(AcceptReq), FALSE, ListenFd, 0) \in CqeSet
    <3>1. 0 \in 0..BufSize
      BY ConstantsOK
    <3> QED  BY <3>1, AcceptSqeType, CqeType
  <2>2. cq' = Append(cq, Cqe(AcceptSqe(AcceptReq), FALSE, ListenFd, 0)) /\ UNCHANGED todo
    BY <1>2 DEF AcceptFails
  <2>3. cq' \in Seq(CqeSet) /\ todo' <= Len(cq')
    BY <2>1, <2>2, PostType
  <2>4. accepting' \in Nat
    BY <1>2 DEF TypeOK, AcceptFails
  <2> QED  BY <1>2, <2>3, <2>4 DEF TypeOK, QueuedOps, AcceptFails, pool, net
<1>3. ASSUME NEW e \in inflight, RecvDone(e)
      PROVE  TypeInv'
  <2>1. e \in Sqe /\ e.fd \in FD \cup {ListenFd} /\ e.start \in 0..BufSize
    BY DEF TypeOK, Sqe
  <2>2. PICK n \in RecvResults(sock[e.fd], BufSize - e.start) :
             /\ sock' = [sock EXCEPT ![e.fd].unread = @ - n]
             /\ cq' = Append(cq, Cqe(e, TRUE, e.fd, n))
    BY <1>3 DEF RecvDone
  <2>3. n \in 0..BufSize /\ (n = 0 \/ n <= sock[e.fd].unread)
    BY <2>1, ConstantsOK DEF RecvResults
  <2>4. cq' \in Seq(CqeSet) /\ todo <= Len(cq')
    <3>1. Cqe(e, TRUE, e.fd, n) \in CqeSet
      BY <2>1, <2>3, CqeType
    <3> QED  BY <2>2, <3>1, PostType
  <2>5. sock' \in [FD -> [st : {"free", "up", "fin"}, unread : Nat]]
    <3>1. CASE e.fd \in FD
      <4>1. sock[e.fd].unread - n \in Nat
        BY <2>3, <3>1 DEF TypeOK
      <4> QED  BY <2>2, <3>1, <4>1 DEF TypeOK
    <3>2. CASE e.fd \notin FD
      BY <2>2, <3>2 DEF TypeOK
    <3> QED  BY <3>1, <3>2
  <2> QED  BY <1>3, <2>4, <2>5 DEF TypeOK, QueuedOps, RecvDone, pool
<1>4. ASSUME NEW e \in inflight, CloseDone(e)
      PROVE  TypeInv'
  <2>1. e \in Sqe /\ e.fd \in FD \cup {ListenFd}
    BY DEF TypeOK, Sqe
  <2>2. PICK ok \in BOOLEAN : cq' = Append(cq, Cqe(e, ok, e.fd, 0))
    BY <1>4 DEF CloseDone
  <2>3. cq' \in Seq(CqeSet) /\ todo <= Len(cq')
    <3>1. Cqe(e, ok, e.fd, 0) \in CqeSet
      BY <2>1, CqeType, ConstantsOK
    <3> QED  BY <2>2, <3>1, PostType
  <2>4. sock' \in [FD -> [st : {"free", "up", "fin"}, unread : Nat]]
    BY <1>4 DEF TypeOK, CloseDone, NoConn
  <2> QED  BY <1>4, <2>3, <2>4 DEF TypeOK, QueuedOps, CloseDone, pool
<1>5. ASSUME NEW e \in inflight, RecvFails(e)
      PROVE  TypeInv'
  <2>1. e \in Sqe /\ e.fd \in FD \cup {ListenFd}
    BY DEF TypeOK, Sqe
  <2>2. cq' \in Seq(CqeSet) /\ todo <= Len(cq')
    <3>1. FALSE \in BOOLEAN /\ 0 \in 0..BufSize
      BY ConstantsOK
    <3>2. Cqe(e, FALSE, e.fd, 0) \in CqeSet
      BY <2>1, <3>1, CqeType
    <3>3. cq' = Append(cq, Cqe(e, FALSE, e.fd, 0))
      BY <1>5 DEF RecvFails
    <3> QED  BY <3>2, <3>3, PostType
  <2> QED  BY <1>5, <2>2 DEF TypeOK, QueuedOps, RecvFails, pool, net
<1> QED  BY <1>1, <1>2, <1>3, <1>4, <1>5 DEF Kernel

LEMMA EnvironmentTypeInv ==
  ASSUME TypeInv, Clients \/ Signal
  PROVE  TypeInv'
<1> USE DEF TypeInv
<1>1. CASE PeerConnect
  BY <1>1 DEF TypeOK, QueuedOps, PeerConnect, pool, ring
<1>2. ASSUME NEW f \in FD, PeerSend(f)
      PROVE  TypeInv'
  <2>1. sock' \in [FD -> [st : {"free", "up", "fin"}, unread : Nat]]
    BY <1>2 DEF TypeOK, PeerSend
  <2> QED  BY <1>2, <2>1 DEF TypeOK, QueuedOps, PeerSend, pool, ring
<1>3. ASSUME NEW f \in FD, PeerFinish(f)
      PROVE  TypeInv'
  <2>1. sock' \in [FD -> [st : {"free", "up", "fin"}, unread : Nat]]
    BY <1>3 DEF TypeOK, PeerFinish
  <2> QED  BY <1>3, <2>1 DEF TypeOK, QueuedOps, PeerFinish, pool, ring
<1>4. CASE Signal
  BY <1>4 DEF TypeOK, QueuedOps, Signal, pool, ring, net
<1> QED  BY <1>1, <1>2, <1>3, <1>4 DEF Clients

-----------------------------------------------------------------------------
(* The handlers of the completions.                                          *)

LEMMA TakeSlotType ==
  ASSUME TypeOK, todo > 0, NEW r \in Reqs, TakeSlot(r)
  PROVE  /\ free' \in SUBSET Reqs
         /\ reqs' \in [Reqs -> [operation : ReqOperation \cup {"none"},
                                fd : FD \cup {ListenFd}, position : 0..(BufSize - 1)]]
         /\ reqs'[r].operation = "recv"
         /\ \A s \in Reqs \ {r} : reqs'[s] = reqs[s]
<1>1. [operation |-> "recv", fd |-> Completion.fd, position |-> 0]
        \in [operation : ReqOperation \cup {"none"},
             fd : FD \cup {ListenFd}, position : 0..(BufSize - 1)]
  BY CompletionType, ConstantsOK DEF ReqOperation
<1> QED  BY <1>1 DEF TypeOK, TakeSlot

LEMMA HandlerTypeInv ==
  ASSUME TypeInv, Handler
  PROVE  TypeInv'
<1> USE DEF TypeInv
<1>1. CASE HandleError
  <2>1. todo > 0 /\ NextCompletion
    BY <1>1 DEF HandleError
  <2> QED  BY <1>1, <2>1, NextCompletionType DEF TypeOK, QueuedOps, HandleError, pool, net
<1>2. CASE RejectConnection
  <2>1. todo > 0 /\ NextCompletion
    BY <1>2 DEF RejectConnection, Handling
  <2>2. sock' \in [FD -> [st : {"free", "up", "fin"}, unread : Nat]]
    BY <1>2 DEF TypeOK, RejectConnection, CloseNow, NoConn
  <2> QED  BY <1>2, <2>1, <2>2, NextCompletionType DEF TypeOK, QueuedOps, RejectConnection, pool
<1>3. ASSUME NEW r \in Reqs, AcceptConnection(r)
      PROVE  TypeInv'
  <2> DEFINE recv   == RecvSqe(r, Completion.fd, 0)
             accept == AcceptSqe(Completion.req)
  <2>1. todo > 0 /\ NextCompletion /\ TakeSlot(r)
    BY <1>3 DEF AcceptConnection, Handling
  <2>2. recv \in Sqe /\ accept \in Sqe /\ Completion.req \in Reqs
    BY <2>1, CompletionType, SqeTypes, ConstantsOK
  <2>3. \/ /\ queue' = Append(queue, r)
           /\ stop_accept' = TRUE
           /\ UNCHANGED sq
        \/ /\ HasRoom
           /\ sq' = Append(sq, recv)
           /\ UNCHANGED <<queue, stop_accept>>
        \/ /\ Remaining > 1
           /\ sq' = Append(Append(sq, recv), accept)
           /\ UNCHANGED <<queue, stop_accept>>
        \/ /\ Remaining = 1
           /\ sq' = Append(sq, recv)
           /\ queue' = Append(queue, Completion.req)
           /\ stop_accept' = TRUE
    BY <1>3 DEF AcceptConnection, PushToQueue
  <2>4. /\ Append(sq, recv) \in Seq(Sqe) /\ Len(Append(sq, recv)) = Len(sq) + 1
        /\ Append(Append(sq, recv), accept) \in Seq(Sqe)
        /\ Len(Append(Append(sq, recv), accept)) = Len(sq) + 2
    BY <2>2 DEF TypeOK
  <2> HIDE DEF recv, accept
  <2>5. sq' \in Seq(Sqe) /\ Len(sq') <= SqDepth
    <3>1. sq \in Seq(Sqe) /\ Len(sq) \in Nat /\ Len(sq) <= SqDepth
      BY DEF TypeOK
    <3>2. HasRoom => Len(sq) + 1 <= SqDepth
      BY <3>1, ConstantsOK DEF HasRoom, Remaining
    <3>3. Remaining > 1 => Len(sq) + 2 <= SqDepth
      BY <3>1, ConstantsOK DEF Remaining
    <3>4. Remaining = 1 => Len(sq) + 1 <= SqDepth
      BY <3>1, ConstantsOK DEF Remaining
    <3> QED  BY <2>3, <2>4, <3>1, <3>2, <3>3, <3>4
  <2>6. queue' \in Seq(Reqs) /\ stop_accept' \in BOOLEAN
    <3>1. queue \in Seq(Reqs) /\ stop_accept \in BOOLEAN
      BY DEF TypeOK
    <3>2. Append(queue, r) \in Seq(Reqs) /\ Append(queue, Completion.req) \in Seq(Reqs)
      BY <2>2, <3>1
    <3> QED  BY <2>3, <3>1, <3>2
  <2>7. reqs[Completion.req].operation = "accept"
    BY <1>3 DEF AcceptConnection, Handling
  <2>8. reqs'[Completion.req].operation \in ReqOperation /\ reqs'[r].operation \in ReqOperation
    BY <2>1, <2>2, <2>7, TakeSlotType DEF ReqOperation
  <2>9. QueuedOps'
    BY <2>1, <2>2, <2>3, <2>8, TakeSlotType, QueuedOpsKept
  <2> QED
    BY <1>3, <2>1, <2>5, <2>6, <2>9, TakeSlotType, NextCompletionType
       DEF TypeOK, AcceptConnection, net
<1>4. CASE ReceiveEof
  <2> DEFINE r == Completion.req
  <2>1. todo > 0 /\ NextCompletion /\ r \in Reqs
    BY <1>4, CompletionType DEF ReceiveEof, Handling
  <2>2. reqs' = ToClose(r) /\ SubmitOrQueue(CloseSqe(r, reqs[r].fd))
    BY <1>4 DEF ReceiveEof
  <2>3. CloseSqe(r, reqs[r].fd) \in Sqe /\ CloseSqe(r, reqs[r].fd).req = r
    <3>1. reqs[r].fd \in FD \cup {ListenFd} /\ 0 \in 0..BufSize
      BY <2>1, ConstantsOK DEF TypeOK
    <3> QED  BY <2>1, <3>1, SqeTypes DEF CloseSqe
  <2>4. /\ reqs' \in [Reqs -> [operation : ReqOperation \cup {"none"},
                               fd : FD \cup {ListenFd}, position : 0..(BufSize - 1)]]
        /\ reqs'[r].operation \in ReqOperation
        /\ \A s \in Reqs \ {r} : reqs'[s] = reqs[s]
    <3>1. reqs \in [Reqs -> [operation : ReqOperation \cup {"none"},
                             fd : FD \cup {ListenFd}, position : 0..(BufSize - 1)]]
      BY DEF TypeOK
    <3> QED  BY <2>1, <2>2, <3>1 DEF ToClose, ReqOperation
  <2>5. queue' = queue \/ queue' = Append(queue, r)
    BY <2>2, <2>3 DEF SubmitOrQueue, PushToQueue
  <2>6. QueuedOps'
    BY <2>1, <2>4, <2>5, QueuedOpsKept
  <2> QED
    BY <1>4, <2>1, <2>2, <2>3, <2>4, <2>6, SubmitOrQueueType, NextCompletionType
       DEF TypeOK, ReceiveEof, net
<1>5. CASE ReceiveData
  <2> DEFINE r == Completion.req
  <2>1. todo > 0 /\ NextCompletion /\ r \in Reqs /\ reqs[r].operation = "recv"
    BY <1>5, CompletionType DEF ReceiveData, Handling
  <2>2. /\ reqs' = [reqs EXCEPT ![r].position = NextPosition]
        /\ SubmitOrQueue(RecvSqe(r, reqs[r].fd, NextPosition))
    BY <1>5 DEF ReceiveData
  <2>3. NextPosition \in 0..(BufSize - 1)
    <3>1. reqs[r].position \in 0..(BufSize - 1)
      BY <2>1 DEF TypeOK
    <3>2. Completion.n \in 0..BufSize
      BY <2>1, CompletionType
    <3> HIDE DEF r
    <3>3. NewPosition \in Nat
      BY <3>1, <3>2, ConstantsOK DEF NewPosition, r
    <3> QED  BY <3>3, ConstantsOK DEF NextPosition
  <2>4. RecvSqe(r, reqs[r].fd, NextPosition) \in Sqe /\ RecvSqe(r, reqs[r].fd, NextPosition).req = r
    <3>1. reqs[r].fd \in FD \cup {ListenFd} /\ NextPosition \in 0..BufSize
      BY <2>1, <2>3, ConstantsOK DEF TypeOK
    <3> QED  BY <2>1, <3>1, SqeTypes DEF RecvSqe
  <2>5. /\ reqs' \in [Reqs -> [operation : ReqOperation \cup {"none"},
                               fd : FD \cup {ListenFd}, position : 0..(BufSize - 1)]]
        /\ reqs'[r].operation \in ReqOperation
        /\ \A s \in Reqs \ {r} : reqs'[s] = reqs[s]
    <3>1. reqs \in [Reqs -> [operation : ReqOperation \cup {"none"},
                             fd : FD \cup {ListenFd}, position : 0..(BufSize - 1)]]
      BY DEF TypeOK
    <3> QED  BY <2>1, <2>2, <2>3, <3>1 DEF ReqOperation
  <2>6. queue' = queue \/ queue' = Append(queue, r)
    BY <2>2, <2>4 DEF SubmitOrQueue, PushToQueue
  <2>7. QueuedOps'
    BY <2>1, <2>5, <2>6, QueuedOpsKept
  <2> QED
    BY <1>5, <2>1, <2>2, <2>4, <2>5, <2>7, SubmitOrQueueType, NextCompletionType
       DEF TypeOK, ReceiveData, net
<1>6. CASE SlicePanic
  BY <1>6 DEF TypeOK, QueuedOps, SlicePanic, pool, ring, net
<1>7. CASE HandleClose
  <2>1. todo > 0 /\ NextCompletion /\ Completion.req \in Reqs
    BY <1>7, CompletionType DEF HandleClose, Handling
  <2> QED  BY <1>7, <2>1, NextCompletionType DEF TypeOK, QueuedOps, HandleClose, net
<1> QED  BY <1>1, <1>2, <1>3, <1>4, <1>5, <1>6, <1>7 DEF Handler

-----------------------------------------------------------------------------
LEMMA TypeInvStep == TypeInv /\ [Next]_vars => TypeInv'
<1>1. TypeInv /\ Next => TypeInv'
  BY LoopTopTypeInv, SystemCallTypeInv, HandlerTypeInv, KernelTypeInv, EnvironmentTypeInv
     DEF Next, Server
<1>2. TypeInv /\ UNCHANGED vars => TypeInv'
  BY DEF TypeInv, TypeOK, QueuedOps, vars, pool, ring, net
<1> QED  BY <1>1, <1>2

LEMMA TypeInvHolds == Spec => []TypeInv
<1>1. TypeInv /\ [Next]_vars => TypeInv'
  BY TypeInvStep
<1> QED  BY InitTypeInv, <1>1, PTL DEF Spec

(* Every variable keeps its type, the submission queue never holds more than *)
(* SqDepth entries, and the position of a request stays inside its buffer.   *)
THEOREM TypeCorrect == Spec => []TypeOK
<1>1. TypeInv => TypeOK
  BY DEF TypeInv
<1> QED  BY TypeInvHolds, <1>1, PTL

-----------------------------------------------------------------------------
(* The overflow queue.                                                       *)

Half == (SqDepth + 1) \div 2

(* While anything is queued, the accept is held back.  Before that, a round  *)
(* has prepared at most two entries for each completion it has handled;      *)
(* from then on it prepares or queues at most one for each that is left.     *)
QueueInv ==
  /\ queue # <<>> => stop_accept
  /\ pc = "handle" /\ ~stop_accept => Len(sq) + 2 * todo <= 2 * SqDepth
  /\ pc = "handle" => Len(queue) + Len(sq) + todo <= SqDepth + Half
  /\ Len(queue) <= Half
  /\ \A r \in Reqs : reqs[r].operation = "accept" => r = AcceptReq

LEMMA HalfType == Half \in Nat /\ 2 * Half >= SqDepth /\ 2 * Half <= SqDepth + 1
BY ConstantsOK DEF Half

LEMMA InitQueueInv == Init => QueueInv
<1> SUFFICES ASSUME Init PROVE QueueInv
  OBVIOUS
<1>1. queue = <<>> /\ Len(queue) = 0 /\ pc = "top"
  BY DEF Init
<1>2. \A r \in Reqs : reqs[r].operation = "accept" => r = AcceptReq
  BY DEF Init, NoReq
<1> QED  BY <1>1, <1>2, HalfType DEF QueueInv

(* A handler makes at most one entry out of a completion; only an accept     *)
(* makes two, and only while the accept is not held back.                    *)
LEMMA RoundStep ==
  ASSUME TypeOK, QueueInv, pc = "handle", todo > 0, NextCompletion,
         \/ /\ Len(sq') <= Len(sq) + 1 /\ Len(sq') <= SqDepth
            /\ UNCHANGED queue
            /\ stop_accept' = stop_accept \/ stop_accept' = TRUE
         \/ /\ ~stop_accept
            /\ Len(sq') = Len(sq) + 2 /\ Len(sq') <= SqDepth
            /\ UNCHANGED <<queue, stop_accept>>
         \/ /\ Len(sq) = SqDepth
            /\ \E r \in Reqs : queue' = Append(queue, r)
            /\ stop_accept' = TRUE
            /\ UNCHANGED sq
         \/ /\ ~stop_accept
            /\ Len(sq) + 1 = SqDepth /\ Len(sq') = SqDepth
            /\ \E r \in Reqs : queue' = Append(queue, r)
            /\ stop_accept' = TRUE,
         sq' \in Seq(Sqe),
         \A r \in Reqs : reqs'[r].operation = "accept" => reqs[r].operation = "accept"
  PROVE  QueueInv'
<1>1. /\ queue \in Seq(Reqs) /\ Len(queue) \in Nat
      /\ sq \in Seq(Sqe) /\ Len(sq) \in Nat /\ Len(sq) <= SqDepth
      /\ Len(sq') \in Nat
      /\ todo \in Nat /\ todo' = todo - 1 /\ SqDepth \in Nat
      /\ stop_accept \in BOOLEAN
  BY ConstantsOK DEF TypeOK, NextCompletion
<1>2. /\ queue # <<>> => stop_accept
      /\ ~stop_accept => Len(sq) + 2 * todo <= 2 * SqDepth
      /\ Len(queue) + Len(sq) + todo <= SqDepth + Half
      /\ Len(queue) <= Half
  BY DEF QueueInv
<1>3. \A r \in Reqs : reqs'[r].operation = "accept" => r = AcceptReq
  BY DEF QueueInv
<1>4. ~stop_accept => Len(queue) = 0
  BY <1>1, <1>2
<1>5. CASE /\ Len(sq') <= Len(sq) + 1 /\ Len(sq') <= SqDepth
           /\ UNCHANGED queue
           /\ stop_accept' = stop_accept \/ stop_accept' = TRUE
  <2>1. ~stop_accept' => ~stop_accept
    BY <1>5
  <2>2. Len(sq') + 2 * todo' <= Len(sq) + 2 * todo
    BY <1>1, <1>5
  <2>3. ~stop_accept' => Len(sq') + 2 * todo' <= 2 * SqDepth
    BY <1>1, <1>2, <2>1, <2>2
  <2>4. Len(queue') + Len(sq') + todo' <= SqDepth + Half
    BY <1>1, <1>2, <1>5, HalfType
  <2>5. queue' # <<>> => stop_accept'
    <3>1. stop_accept => stop_accept'
      BY <1>5
    <3>2. queue' = queue
      BY <1>5
    <3> QED  BY <1>2, <3>1, <3>2
  <2> QED  BY <1>2, <1>3, <1>5, <2>3, <2>4, <2>5 DEF QueueInv
<1>6. CASE /\ ~stop_accept
           /\ Len(sq') = Len(sq) + 2 /\ Len(sq') <= SqDepth
           /\ UNCHANGED <<queue, stop_accept>>
  <2>1. Len(queue') + Len(sq') + todo' <= SqDepth + Half
    BY <1>1, <1>2, <1>4, <1>6, HalfType
  <2> QED  BY <1>1, <1>2, <1>3, <1>6, <2>1 DEF QueueInv
<1>7. CASE /\ Len(sq) = SqDepth
           /\ \E r \in Reqs : queue' = Append(queue, r)
           /\ stop_accept' = TRUE
           /\ UNCHANGED sq
  <2>1. Len(queue') = Len(queue) + 1
    BY <1>1, <1>7
  <2>2. Len(queue') <= Half
    BY <1>1, <1>2, <1>7, <2>1, HalfType
  <2>3. Len(queue') + Len(sq') + todo' <= SqDepth + Half
    BY <1>1, <1>2, <1>7, <2>1, HalfType
  <2> QED  BY <1>3, <1>7, <2>2, <2>3 DEF QueueInv
<1>8. CASE /\ ~stop_accept
           /\ Len(sq) + 1 = SqDepth /\ Len(sq') = SqDepth
           /\ \E r \in Reqs : queue' = Append(queue, r)
           /\ stop_accept' = TRUE
  <2>1. Len(queue') = 1
    BY <1>1, <1>4, <1>8
  <2>2. 2 * todo <= SqDepth + 1
    BY <1>1, <1>2, <1>8
  <2>3. todo <= Half
    BY <1>1, <2>2, HalfType
  <2> QED  BY <1>1, <1>3, <1>8, <2>1, <2>3, HalfType DEF QueueInv
<1> QED  BY <1>5, <1>6, <1>7, <1>8

(* ... and the others prepare nothing.                                       *)
LEMMA HandledQuietly ==
  ASSUME TypeOK, QueueInv, pc = "handle", todo > 0, NextCompletion,
         UNCHANGED <<sq, queue, reqs>>, stop_accept' = stop_accept \/ stop_accept' = TRUE
  PROVE  QueueInv'
<1>1. sq' \in Seq(Sqe) /\ Len(sq') \in Nat /\ Len(sq') <= SqDepth /\ Len(sq') = Len(sq)
  BY DEF TypeOK
<1>2. Len(sq') <= Len(sq) + 1
  BY <1>1
<1>3. \A r \in Reqs : reqs'[r].operation = "accept" => reqs[r].operation = "accept"
  OBVIOUS
<1> QED  BY <1>1, <1>2, <1>3, RoundStep

LEMMA SubmitOrQueueRound ==
  ASSUME TypeOK, QueueInv, pc = "handle", todo > 0, NextCompletion,
         NEW e \in Sqe, SubmitOrQueue(e),
         \A r \in Reqs : reqs'[r].operation = "accept" => reqs[r].operation = "accept"
  PROVE  QueueInv'
<1>1. sq \in Seq(Sqe) /\ Len(sq) \in Nat /\ Len(sq) <= SqDepth /\ SqDepth \in Nat
  BY ConstantsOK DEF TypeOK
<1>2. e.req \in Reqs
  BY DEF Sqe
<1>3. CASE HasRoom /\ sq' = Append(sq, e) /\ UNCHANGED <<queue, stop_accept>>
  <2>1. sq' \in Seq(Sqe) /\ Len(sq') = Len(sq) + 1
    BY <1>1, <1>3
  <2>2. Len(sq') <= SqDepth
    BY <1>1, <1>3, <2>1 DEF HasRoom, Remaining
  <2>3. Len(sq') <= Len(sq) + 1
    BY <1>1, <2>1
  <2> QED  BY <1>3, <2>1, <2>2, <2>3, RoundStep
<1>4. CASE ~HasRoom /\ PushToQueue(e.req) /\ UNCHANGED sq
  <2>1. Len(sq) = SqDepth
    BY <1>1, <1>4 DEF HasRoom, Remaining
  <2>2. queue' = Append(queue, e.req) /\ stop_accept' = TRUE
    BY <1>4 DEF PushToQueue
  <2>3. sq' \in Seq(Sqe)
    BY <1>1, <1>4
  <2> QED  BY <1>2, <1>4, <2>1, <2>2, <2>3, RoundStep
<1> QED  BY <1>3, <1>4 DEF SubmitOrQueue

LEMMA QueueInvStep ==
  ASSUME TypeInv, QueueInv, [Next]_vars
  PROVE  QueueInv'
<1>0. TypeOK /\ TypeOK'
  BY TypeInvStep DEF TypeInv
<1>1. /\ queue \in Seq(Reqs) /\ Len(queue) \in Nat
      /\ sq \in Seq(Sqe) /\ Len(sq) \in Nat /\ Len(sq) <= SqDepth
      /\ sq' \in Seq(Sqe) /\ Len(sq') \in Nat /\ Len(sq') <= SqDepth
      /\ SqDepth \in Nat /\ todo \in Nat
  BY <1>0, ConstantsOK DEF TypeOK
<1>2. CASE LoopTop
  <2>1. CASE RearmAccept
    BY <1>1, <2>1 DEF QueueInv, RearmAccept, RearmDue, pool
  <2>2. CASE NothingQueued
    BY <2>2 DEF QueueInv, NothingQueued, pool, ring
  <2>3. CASE BeginDrain
    BY <2>3 DEF QueueInv, BeginDrain, pool, ring
  <2>4. CASE Drain
    <3>1. queue' = Tail(queue) /\ Len(queue') = Len(queue) - 1
      BY <1>1, <2>4 DEF Drain
    <3> QED  BY <1>1, <2>4, <3>1, HalfType DEF QueueInv, Drain, pool
  <2>5. CASE EndDrain
    BY <2>5 DEF QueueInv, EndDrain, pool, ring
  <2>6. CASE Shutdown
    BY <2>6 DEF QueueInv, Shutdown, pool, ring
  <2>7. CASE Unwind
    BY <2>7 DEF QueueInv, Unwind
  <2> QED  BY <1>2, <2>1, <2>2, <2>3, <2>4, <2>5, <2>6, <2>7 DEF LoopTop
<1>3. CASE SystemCall
  <2>1. CASE EnterKernel
    BY <2>1 DEF QueueInv, EnterKernel, pool, ring
  <2>2. CASE Submit
    BY <2>2 DEF QueueInv, Submit, pool
  <2>3. CASE Reap
    <3>1. sq' = <<>> /\ Len(sq') = 0 /\ todo' <= SqDepth /\ todo' \in Nat
      BY <1>0, <1>1, <2>3 DEF TypeOK, Reap, Round
    <3> QED  BY <1>1, <2>3, <3>1, HalfType DEF QueueInv, Reap, pool
  <2>4. CASE Interrupted
    BY <2>4 DEF QueueInv, Interrupted, pool, ring
  <2> QED  BY <1>3, <2>1, <2>2, <2>3, <2>4 DEF SystemCall
<1>4. CASE Handler
  <2>1. CASE HandleError
    <3>1. /\ pc = "handle" /\ todo > 0 /\ NextCompletion
          /\ UNCHANGED <<sq, queue, stop_accept, reqs>>
      BY <2>1 DEF HandleError, pool
    <3> QED  BY <1>0, <3>1, HandledQuietly
  <2>2. CASE RejectConnection
    <3>1. /\ pc = "handle" /\ todo > 0 /\ NextCompletion
          /\ UNCHANGED <<sq, queue, reqs>> /\ stop_accept' = TRUE
      BY <2>2 DEF RejectConnection, Handling, pool
    <3> QED  BY <1>0, <3>1, HandledQuietly
  <2>3. ASSUME NEW r \in Reqs, AcceptConnection(r)
        PROVE  QueueInv'
    <3> DEFINE recv   == RecvSqe(r, Completion.fd, 0)
               accept == AcceptSqe(Completion.req)
    <3>1. pc = "handle" /\ todo > 0 /\ NextCompletion /\ TakeSlot(r)
      BY <2>3 DEF AcceptConnection, Handling
    <3>2. Completion.req \in Reqs /\ recv \in Sqe /\ accept \in Sqe
      BY <1>0, <3>1, CompletionType, SqeTypes, ConstantsOK
    <3>3. \A s \in Reqs : reqs'[s].operation = "accept" => reqs[s].operation = "accept"
      BY <1>0, <3>1, TakeSlotType
    <3>4. \/ /\ ~HasRoom
             /\ queue' = Append(queue, r)
             /\ stop_accept' = TRUE
             /\ UNCHANGED sq
          \/ /\ HasRoom
             /\ sq' = Append(sq, recv)
             /\ UNCHANGED <<queue, stop_accept>>
          \/ /\ ~stop_accept
             /\ sq' = Append(Append(sq, recv), accept)
             /\ UNCHANGED <<queue, stop_accept>>
          \/ /\ ~stop_accept /\ Remaining = 1
             /\ sq' = Append(sq, recv)
             /\ queue' = Append(queue, Completion.req)
             /\ stop_accept' = TRUE
      BY <2>3 DEF AcceptConnection, PushToQueue
    <3> HIDE DEF recv, accept
    <3>5. /\ Len(Append(sq, recv)) = Len(sq) + 1
          /\ Len(Append(Append(sq, recv), accept)) = Len(sq) + 2
      BY <1>1, <3>2
    <3>6. /\ ~HasRoom => Len(sq) = SqDepth
          /\ Remaining = 1 => Len(sq) + 1 = SqDepth
      BY <1>1 DEF HasRoom, Remaining
    <3>7. \/ /\ Len(sq') <= Len(sq) + 1 /\ Len(sq') <= SqDepth
             /\ UNCHANGED queue
             /\ stop_accept' = stop_accept \/ stop_accept' = TRUE
          \/ /\ ~stop_accept
             /\ Len(sq') = Len(sq) + 2 /\ Len(sq') <= SqDepth
             /\ UNCHANGED <<queue, stop_accept>>
          \/ /\ Len(sq) = SqDepth
             /\ \E s \in Reqs : queue' = Append(queue, s)
             /\ stop_accept' = TRUE
             /\ UNCHANGED sq
          \/ /\ ~stop_accept
             /\ Len(sq) + 1 = SqDepth /\ Len(sq') = SqDepth
             /\ \E s \in Reqs : queue' = Append(queue, s)
             /\ stop_accept' = TRUE
      BY <1>1, <3>2, <3>4, <3>5, <3>6
    <3> QED  BY <1>0, <1>1, <3>1, <3>3, <3>7, RoundStep
  <2>4. CASE ReceiveEof
    <3> DEFINE r == Completion.req
    <3>1. /\ pc = "handle" /\ todo > 0 /\ NextCompletion
          /\ reqs' = ToClose(r) /\ SubmitOrQueue(CloseSqe(r, reqs[r].fd))
      BY <2>4 DEF ReceiveEof, Handling
    <3>2. r \in Reqs /\ reqs[r].fd \in FD \cup {ListenFd} /\ 0 \in 0..BufSize
      <4>1. r \in Reqs
        BY <1>0, <3>1, CompletionType
      <4> QED  BY <1>0, <4>1, ConstantsOK DEF TypeOK
    <3>3. CloseSqe(r, reqs[r].fd) \in Sqe
      BY <3>2, SqeTypes
    <3>4. \A s \in Reqs : reqs'[s].operation = "accept" => reqs[s].operation = "accept"
      BY <1>0, <3>1, <3>2 DEF TypeOK, ToClose
    <3> QED  BY <1>0, <3>1, <3>3, <3>4, SubmitOrQueueRound
  <2>5. CASE ReceiveData
    <3> DEFINE r == Completion.req
    <3>1. /\ pc = "handle" /\ todo > 0 /\ NextCompletion
          /\ reqs' = [reqs EXCEPT ![r].position = NextPosition]
          /\ SubmitOrQueue(RecvSqe(r, reqs[r].fd, NextPosition))
      BY <2>5 DEF ReceiveData, Handling
    <3>2. r \in Reqs /\ reqs[r].fd \in FD \cup {ListenFd} /\ NextPosition \in 0..BufSize
      <4>1. r \in Reqs /\ Completion.n \in 0..BufSize
        BY <1>0, <3>1, CompletionType
      <4>2. reqs[r].fd \in FD \cup {ListenFd} /\ reqs[r].position \in 0..(BufSize - 1)
        BY <1>0, <4>1 DEF TypeOK
      <4> QED  BY <4>1, <4>2, ConstantsOK DEF NextPosition, NewPosition
    <3>3. RecvSqe(r, reqs[r].fd, NextPosition) \in Sqe
      BY <3>2, SqeTypes
    <3>4. \A s \in Reqs : reqs'[s].operation = "accept" => reqs[s].operation = "accept"
      BY <1>0, <3>1, <3>2 DEF TypeOK
    <3> QED  BY <1>0, <3>1, <3>3, <3>4, SubmitOrQueueRound
  <2>6. CASE SlicePanic
    BY <2>6 DEF QueueInv, SlicePanic, pool, ring
  <2>7. CASE HandleClose
    <3>1. /\ pc = "handle" /\ todo > 0 /\ NextCompletion
          /\ UNCHANGED <<sq, queue, stop_accept, reqs>>
      BY <2>7 DEF HandleClose, Handling
    <3> QED  BY <1>0, <3>1, HandledQuietly
  <2> QED  BY <1>4, <2>1, <2>2, <2>3, <2>4, <2>5, <2>6, <2>7 DEF Handler
<1>5. CASE Kernel \/ Clients \/ Signal
  <2>1. UNCHANGED <<pc, queue, stop_accept, sq, todo, reqs>>
    BY <1>5 DEF Kernel, Clients, AcceptDone, AcceptFails, RecvDone, RecvFails, CloseDone,
                PeerConnect, PeerSend, PeerFinish, Signal, pool, ring
  <2> QED  BY <2>1 DEF QueueInv
<1>6. CASE UNCHANGED vars
  BY <1>6 DEF QueueInv, vars, pool, ring
<1> QED  BY <1>2, <1>3, <1>4, <1>5, <1>6 DEF Next, Server

LEMMA QueueInvHolds == Spec => []QueueInv
<1>1. TypeInv /\ QueueInv /\ [Next]_vars => QueueInv'
  BY QueueInvStep
<1> QED  BY InitQueueInv, TypeInvHolds, <1>1, PTL DEF Spec

(* The overflow queue never holds more than half of a submission queue.      *)
THEOREM QueueIsBounded == Spec => []QueueBounded
<1>1. QueueInv => QueueBounded
  BY DEF QueueInv, QueueBounded, Half
<1> QED  BY QueueInvHolds, <1>1, PTL

-----------------------------------------------------------------------------
(* Back-pressure.                                                            *)

(* What one step appends to the submission queue.                            *)
LEMMA AppendedLast ==
  ASSUME NEW S, NEW s \in Seq(S), NEW e \in S
  PROVE  Append(s, e)[Len(Append(s, e))] = e
OBVIOUS

LEMMA BackpressureStep ==
  ASSUME TypeInv, QueueInv, [Next]_vars,
         queue # <<>>, Len(sq') > Len(sq), sq'[Len(sq')].op = "accept"
  PROVE  Head(queue) = AcceptReq
<1>0. /\ TypeOK /\ QueuedOps /\ stop_accept
      /\ sq \in Seq(Sqe) /\ Len(sq) \in Nat /\ queue \in Seq(Reqs)
      /\ Head(queue) \in Reqs
  BY DEF TypeInv, TypeOK, QueueInv
<1>1. CASE Drain
  <2>1. DrainSqe(Head(queue)) \in Sqe
    BY <1>1, DrainSqeType DEF Drain
  <2>2. DrainSqe(Head(queue)).op = "accept"
    BY <1>0, <1>1, <2>1, AppendedLast DEF Drain
  <2>3. reqs[Head(queue)].operation \in ReqOperation
    BY <1>0 DEF QueuedOps
  <2>4. reqs[Head(queue)].operation = "accept"
    BY <2>2, <2>3 DEF DrainSqe, RecvSqe, CloseSqe, ReqOperation
  <2> QED  BY <1>0, <2>4 DEF QueueInv
<1>2. ASSUME NEW e \in Sqe, e.op # "accept", SubmitOrQueue(e)
      PROVE  FALSE
  <2>1. sq' = Append(sq, e) \/ sq' = sq
    BY <1>2 DEF SubmitOrQueue
  <2> QED  BY <1>0, <1>2, <2>1, AppendedLast
<1>3. CASE ReceiveEof
  <2> DEFINE r == Completion.req
  <2>1. todo > 0 /\ SubmitOrQueue(CloseSqe(r, reqs[r].fd))
    BY <1>3 DEF ReceiveEof, Handling
  <2>2. r \in Reqs
    BY <1>0, <2>1, CompletionType
  <2>3. reqs[r].fd \in FD \cup {ListenFd} /\ 0 \in 0..BufSize
    BY <1>0, <2>2, ConstantsOK DEF TypeOK
  <2>4. CloseSqe(r, reqs[r].fd) \in Sqe /\ CloseSqe(r, reqs[r].fd).op # "accept"
    BY <2>2, <2>3, SqeTypes DEF CloseSqe
  <2> QED  BY <1>2, <2>1, <2>4
<1>4. CASE ReceiveData
  <2> DEFINE r == Completion.req
  <2>1. todo > 0 /\ SubmitOrQueue(RecvSqe(r, reqs[r].fd, NextPosition))
    BY <1>4 DEF ReceiveData, Handling
  <2>2. r \in Reqs /\ Completion.n \in 0..BufSize
    BY <1>0, <2>1, CompletionType
  <2>3. reqs[r].fd \in FD \cup {ListenFd} /\ reqs[r].position \in 0..(BufSize - 1)
    BY <1>0, <2>2 DEF TypeOK
  <2>4. NextPosition \in 0..BufSize
    BY <2>2, <2>3, ConstantsOK DEF NextPosition, NewPosition
  <2>5. RecvSqe(r, reqs[r].fd, NextPosition) \in Sqe
        /\ RecvSqe(r, reqs[r].fd, NextPosition).op # "accept"
    BY <2>2, <2>3, <2>4, SqeTypes DEF RecvSqe
  <2> QED  BY <1>2, <2>1, <2>5
<1>5. ASSUME NEW r \in Reqs, AcceptConnection(r)
      PROVE  FALSE
  <2> DEFINE recv == RecvSqe(r, Completion.fd, 0)
  <2>1. todo > 0 /\ (sq' = sq \/ sq' = Append(sq, recv))
    BY <1>0, <1>5 DEF AcceptConnection, Handling
  <2>2. recv \in Sqe /\ recv.op # "accept"
    BY <1>0, <2>1, CompletionType, SqeTypes, ConstantsOK DEF RecvSqe
  <2> HIDE DEF recv
  <2> QED  BY <1>0, <2>1, <2>2, AppendedLast
<1>6. CASE RearmAccept
  BY <1>6 DEF RearmAccept, RearmDue
<1>7. CASE Submit \/ Unwind
  <2>1. Len(sq') <= Len(sq)
    <3>1. CASE Submit
      BY <1>0, <3>1 DEF Submit
    <3>2. CASE Unwind
      BY <1>0, <3>2 DEF Unwind
    <3> QED  BY <1>7, <3>1, <3>2
  <2>2. Len(sq') \in Nat
    BY TypeInvStep DEF TypeInv, TypeOK
  <2> QED  BY <1>0, <2>1, <2>2
<1>8. CASE UNCHANGED sq
  BY <1>0, <1>8
<1>9. \/ Drain \/ ReceiveEof \/ ReceiveData \/ (\E r \in Reqs : AcceptConnection(r))
      \/ RearmAccept \/ Submit \/ Unwind \/ UNCHANGED sq
  <2>1. CASE LoopTop
    BY <2>1 DEF LoopTop, NothingQueued, BeginDrain, EndDrain, Shutdown, ring
  <2>2. CASE SystemCall
    BY <2>2 DEF SystemCall, EnterKernel, Reap, Interrupted, ring
  <2>3. CASE Handler
    BY <2>3 DEF Handler, HandleError, RejectConnection, SlicePanic, HandleClose, ring
  <2>4. CASE Kernel \/ Clients \/ Signal
    BY <2>4 DEF Kernel, Clients, AcceptDone, AcceptFails, RecvDone, RecvFails, CloseDone,
                PeerConnect, PeerSend, PeerFinish, Signal, ring
  <2>5. CASE UNCHANGED vars
    BY <2>5 DEF vars, ring
  <2> QED  BY <2>1, <2>2, <2>3, <2>4, <2>5 DEF Next, Server
<1> QED  BY <1>1, <1>3, <1>4, <1>5, <1>6, <1>7, <1>8, <1>9

(* While requests wait, the only accept that is prepared is the queued one.  *)
THEOREM BackpressureHolds == Spec => Backpressure
<1>1. TypeInv /\ QueueInv /\ [Next]_vars
        => [ queue # <<>> /\ Len(sq') > Len(sq) /\ sq'[Len(sq')].op = "accept"
               => Head(queue) = AcceptReq ]_vars
  BY BackpressureStep
<1> QED  BY TypeInvHolds, QueueInvHolds, <1>1, PTL DEF Spec, Backpressure

-----------------------------------------------------------------------------
(* One operation per request, dispatched as it was submitted: SingleOp and   *)
(* DispatchMatches, which need each other.                                   *)

(* A request of an entry of s, and whether it is that of only one entry.     *)
HasReq(s, r)  == \E i \in DOMAIN s : s[i].req = r
OnceReq(s, r) == \A i, j \in DOMAIN s : s[i].req = r /\ s[j].req = r => i = j
Once(s, r)    == \A i, j \in DOMAIN s : s[i] = r /\ s[j] = r => i = j

(* SingleOp, request by request.                                             *)
OneOp(r) ==
  /\ OnceReq(sq, r)
  /\ OnceReq(cq, r)
  /\ \A d, e \in inflight : d.req = r /\ e.req = r => d = e
  /\ Prepared(r) => ~InKernel(r) /\ ~Completed(r) /\ ~Queued(r)
  /\ InKernel(r) => ~Completed(r) /\ ~Queued(r)
  /\ Completed(r) => ~Queued(r)
  /\ r \in free => ~Prepared(r) /\ ~InKernel(r) /\ ~Completed(r) /\ ~Queued(r)

OneOpInv ==
  /\ \A r \in Reqs : Once(queue, r)
  /\ \A r \in ConnReqs : OneOp(r)

(* What was submitted is what the request says; for the descriptor too,      *)
(* except that an accept answers with the one it has opened.                 *)
Faithful(e, contents) ==
  /\ e.op = contents[e.req].operation
  /\ e.op # "accept" => e.fd = contents[e.req].fd

FaithfulInv ==
  /\ \A i \in DOMAIN sq : Faithful(sq[i], reqs)
  /\ \A e \in inflight : Faithful(e, reqs)
  /\ \A i \in DOMAIN cq : Faithful(cq[i], reqs)

(* The accept request is the only one that accepts, it stays so, and it is   *)
(* not given to a connection.                                                *)
ListenerInv ==
  /\ \A r \in Reqs : reqs[r].operation = "accept" <=> r = AcceptReq
  /\ \A e \in inflight : e.req # AcceptReq
  /\ Running => AcceptReq \notin free

DispatchInv == OneOpInv /\ FaithfulInv /\ ListenerInv

-----------------------------------------------------------------------------
(* Sequences.                                                                *)

LEMMA ReqAppended ==
  ASSUME NEW S, NEW s \in Seq(S), NEW e \in S, NEW r
  PROVE  /\ HasReq(Append(s, e), r) <=> HasReq(s, r) \/ e.req = r
         /\ OnceReq(s, r) /\ (e.req = r => ~HasReq(s, r)) => OnceReq(Append(s, e), r)
<1>1. /\ DOMAIN Append(s, e) = 1..(Len(s) + 1)
      /\ DOMAIN s = 1..Len(s) /\ Len(s) \in Nat
      /\ \A i \in 1..Len(s) : Append(s, e)[i] = s[i]
      /\ Append(s, e)[Len(s) + 1] = e
  OBVIOUS
<1> DEFINE t == Append(s, e)
<1> HIDE DEF t
<1>2. \A i \in DOMAIN t : (i \in DOMAIN s /\ t[i] = s[i]) \/ (i = Len(s) + 1 /\ t[i] = e)
  BY <1>1 DEF t
<1>3. Len(s) + 1 \in DOMAIN t /\ \A i \in DOMAIN s : i \in DOMAIN t /\ t[i] = s[i]
  BY <1>1 DEF t
<1>4. t[Len(s) + 1] = e
  BY <1>1 DEF t
<1>5. HasReq(t, r) <=> HasReq(s, r) \/ e.req = r
  BY <1>2, <1>3, <1>4 DEF HasReq
<1>6. OnceReq(s, r) /\ (e.req = r => ~HasReq(s, r)) => OnceReq(t, r)
  BY <1>2 DEF HasReq, OnceReq
<1> QED  BY <1>5, <1>6 DEF t

LEMMA ReqRemoved ==
  ASSUME NEW S, NEW s \in Seq(S), s # <<>>, NEW r
  PROVE  /\ HasReq(s, r) <=> HasReq(Tail(s), r) \/ Head(s).req = r
         /\ OnceReq(s, r) => OnceReq(Tail(s), r)
         /\ OnceReq(s, r) /\ Head(s).req = r => ~HasReq(Tail(s), r)
<1>1. /\ DOMAIN Tail(s) = 1..(Len(s) - 1)
      /\ DOMAIN s = 1..Len(s) /\ Len(s) \in Nat /\ Len(s) # 0
      /\ \A i \in 1..(Len(s) - 1) : Tail(s)[i] = s[i + 1]
      /\ Head(s) = s[1]
  OBVIOUS
<1> DEFINE t == Tail(s)
<1> HIDE DEF t
<1>2. \A i \in DOMAIN t : i \in Nat /\ i + 1 \in DOMAIN s /\ t[i] = s[i + 1] /\ i + 1 # 1
  BY <1>1 DEF t
<1>3. \A i \in DOMAIN s : i = 1 \/ (i - 1 \in DOMAIN t /\ t[i - 1] = s[i])
  BY <1>1 DEF t
<1>4. 1 \in DOMAIN s /\ Head(s) = s[1]
  BY <1>1
<1>5. HasReq(s, r) <=> HasReq(t, r) \/ Head(s).req = r
  BY <1>2, <1>3, <1>4 DEF HasReq
<1>6. OnceReq(s, r) => OnceReq(t, r)
  <2> SUFFICES ASSUME OnceReq(s, r), NEW i \in DOMAIN t, NEW j \in DOMAIN t,
                      t[i].req = r, t[j].req = r
               PROVE  i = j
    BY DEF OnceReq
  <2>1. i + 1 = j + 1
    BY <1>2 DEF OnceReq
  <2> QED  BY <1>2, <2>1
<1>7. OnceReq(s, r) /\ Head(s).req = r => ~HasReq(t, r)
  BY <1>2, <1>4 DEF HasReq, OnceReq
<1> QED  BY <1>5, <1>6, <1>7 DEF t

LEMMA ItemAppended ==
  ASSUME NEW S, NEW s \in Seq(S), NEW e \in S, NEW r
  PROVE  /\ (\E i \in DOMAIN Append(s, e) : Append(s, e)[i] = r)
              <=> (\E i \in DOMAIN s : s[i] = r) \/ e = r
         /\ Once(s, r) /\ (e = r => ~\E i \in DOMAIN s : s[i] = r) => Once(Append(s, e), r)
<1>1. /\ DOMAIN Append(s, e) = 1..(Len(s) + 1)
      /\ DOMAIN s = 1..Len(s) /\ Len(s) \in Nat
      /\ \A i \in 1..Len(s) : Append(s, e)[i] = s[i]
      /\ Append(s, e)[Len(s) + 1] = e
  OBVIOUS
<1> DEFINE t == Append(s, e)
<1> HIDE DEF t
<1>2. \A i \in DOMAIN t : (i \in DOMAIN s /\ t[i] = s[i]) \/ (i = Len(s) + 1 /\ t[i] = e)
  BY <1>1 DEF t
<1>3. Len(s) + 1 \in DOMAIN t /\ \A i \in DOMAIN s : i \in DOMAIN t /\ t[i] = s[i]
  BY <1>1 DEF t
<1>4. t[Len(s) + 1] = e
  BY <1>1 DEF t
<1>5. (\E i \in DOMAIN t : t[i] = r) <=> (\E i \in DOMAIN s : s[i] = r) \/ e = r
  BY <1>2, <1>3, <1>4
<1>6. Once(s, r) /\ (e = r => ~\E i \in DOMAIN s : s[i] = r) => Once(t, r)
  BY <1>2 DEF Once
<1> QED  BY <1>5, <1>6 DEF t

LEMMA ItemRemoved ==
  ASSUME NEW S, NEW s \in Seq(S), s # <<>>, NEW r
  PROVE  /\ (\E i \in DOMAIN s : s[i] = r) <=> (\E i \in DOMAIN Tail(s) : Tail(s)[i] = r) \/ Head(s) = r
         /\ Once(s, r) => Once(Tail(s), r)
         /\ Once(s, r) /\ Head(s) = r => ~\E i \in DOMAIN Tail(s) : Tail(s)[i] = r
<1>1. /\ DOMAIN Tail(s) = 1..(Len(s) - 1)
      /\ DOMAIN s = 1..Len(s) /\ Len(s) \in Nat /\ Len(s) # 0
      /\ \A i \in 1..(Len(s) - 1) : Tail(s)[i] = s[i + 1]
      /\ Head(s) = s[1]
  OBVIOUS
<1> DEFINE t == Tail(s)
<1> HIDE DEF t
<1>2. \A i \in DOMAIN t : i \in Nat /\ i + 1 \in DOMAIN s /\ t[i] = s[i + 1] /\ i + 1 # 1
  BY <1>1 DEF t
<1>3. \A i \in DOMAIN s : i = 1 \/ (i - 1 \in DOMAIN t /\ t[i - 1] = s[i])
  BY <1>1 DEF t
<1>4. 1 \in DOMAIN s /\ Head(s) = s[1]
  BY <1>1
<1>5. (\E i \in DOMAIN s : s[i] = r) <=> (\E i \in DOMAIN t : t[i] = r) \/ Head(s) = r
  BY <1>2, <1>3, <1>4
<1>6. Once(s, r) => Once(t, r)
  <2> SUFFICES ASSUME Once(s, r), NEW i \in DOMAIN t, NEW j \in DOMAIN t, t[i] = r, t[j] = r
               PROVE  i = j
    BY DEF Once
  <2>1. i + 1 = j + 1
    BY <1>2 DEF Once
  <2> QED  BY <1>2, <2>1
<1>7. Once(s, r) /\ Head(s) = r => ~\E i \in DOMAIN t : t[i] = r
  BY <1>2, <1>4 DEF Once
<1> QED  BY <1>5, <1>6, <1>7 DEF t

(* The entries of a sequence that has grown or shrunk by one.                *)
LEMMA EntriesAppended ==
  ASSUME NEW S, NEW s \in Seq(S), NEW e \in S, NEW i \in DOMAIN Append(s, e)
  PROVE  Append(s, e)[i] = e \/ \E j \in DOMAIN s : Append(s, e)[i] = s[j]
OBVIOUS

LEMMA EntriesRemoved ==
  ASSUME NEW S, NEW s \in Seq(S), s # <<>>
  PROVE  /\ \A i \in DOMAIN Tail(s) : \E j \in DOMAIN s : Tail(s)[i] = s[j]
         /\ \E j \in DOMAIN s : Head(s) = s[j]
OBVIOUS

-----------------------------------------------------------------------------
(* The places of a request, when the rings and the queue grow and shrink.    *)

LEMMA Unmoved ==
  /\ UNCHANGED sq => \A r : (Prepared(r)' <=> Prepared(r)) /\ (OnceReq(sq, r) => OnceReq(sq, r)')
  /\ UNCHANGED cq => \A r : (Completed(r)' <=> Completed(r)) /\ (OnceReq(cq, r) => OnceReq(cq, r)')
  /\ UNCHANGED queue => \A r : (Queued(r)' <=> Queued(r)) /\ (Once(queue, r) => Once(queue, r)')
  /\ UNCHANGED inflight => \A r : InKernel(r)' <=> InKernel(r)
BY DEF Prepared, Completed, Queued, InKernel, OnceReq, Once

LEMMA SqAppended ==
  ASSUME TypeOK, NEW e \in Sqe, sq' = Append(sq, e)
  PROVE  /\ \A r : Prepared(r)' <=> Prepared(r) \/ e.req = r
         /\ \A r : OnceReq(sq, r) /\ (e.req = r => ~Prepared(r)) => OnceReq(sq, r)'
         /\ \A i \in DOMAIN sq' : sq'[i] = e \/ \E j \in DOMAIN sq : sq'[i] = sq[j]
<1>1. sq \in Seq(Sqe)
  BY DEF TypeOK
<1>2. \A r : Prepared(r)' <=> Prepared(r) \/ e.req = r
  BY <1>1, ReqAppended DEF Prepared, HasReq
<1>3. \A r : OnceReq(sq, r) /\ (e.req = r => ~Prepared(r)) => OnceReq(sq, r)'
  BY <1>1, ReqAppended DEF Prepared, HasReq, OnceReq
<1> QED  BY <1>1, <1>2, <1>3, EntriesAppended

LEMMA CqAppended ==
  ASSUME TypeOK, NEW e \in CqeSet, cq' = Append(cq, e)
  PROVE  /\ \A r : Completed(r)' <=> Completed(r) \/ e.req = r
         /\ \A r : OnceReq(cq, r) /\ (e.req = r => ~Completed(r)) => OnceReq(cq, r)'
         /\ \A i \in DOMAIN cq' : cq'[i] = e \/ \E j \in DOMAIN cq : cq'[i] = cq[j]
<1>1. cq \in Seq(CqeSet)
  BY DEF TypeOK
<1>2. \A r : Completed(r)' <=> Completed(r) \/ e.req = r
  BY <1>1, ReqAppended DEF Completed, HasReq
<1>3. \A r : OnceReq(cq, r) /\ (e.req = r => ~Completed(r)) => OnceReq(cq, r)'
  BY <1>1, ReqAppended DEF Completed, HasReq, OnceReq
<1> QED  BY <1>1, <1>2, <1>3, EntriesAppended

LEMMA QueueAppended ==
  ASSUME TypeOK, NEW q \in Reqs, queue' = Append(queue, q)
  PROVE  /\ \A r : Queued(r)' <=> Queued(r) \/ q = r
         /\ \A r : Once(queue, r) /\ (q = r => ~Queued(r)) => Once(queue, r)'
<1>1. queue \in Seq(Reqs)
  BY DEF TypeOK
<1>2. \A r : Queued(r)' <=> Queued(r) \/ q = r
  BY <1>1, ItemAppended DEF Queued
<1>3. \A r : Once(queue, r) /\ (q = r => ~Queued(r)) => Once(queue, r)'
  BY <1>1, ItemAppended DEF Queued, Once
<1> QED  BY <1>2, <1>3

LEMMA SqRemoved ==
  ASSUME TypeOK, sq # <<>>, sq' = Tail(sq)
  PROVE  /\ \A r : Prepared(r) <=> Prepared(r)' \/ Head(sq).req = r
         /\ \A r : OnceReq(sq, r) => OnceReq(sq, r)'
         /\ \A r : OnceReq(sq, r) /\ Head(sq).req = r => ~Prepared(r)'
         /\ \A i \in DOMAIN sq' : \E j \in DOMAIN sq : sq'[i] = sq[j]
         /\ \E j \in DOMAIN sq : Head(sq) = sq[j]
<1>1. sq \in Seq(Sqe)
  BY DEF TypeOK
<1>2. ASSUME NEW r
      PROVE  Prepared(r) <=> Prepared(r)' \/ Head(sq).req = r
  <2>1. HasReq(sq, r) <=> HasReq(Tail(sq), r) \/ Head(sq).req = r
    BY <1>1, ReqRemoved
  <2>2. (HasReq(sq, r) <=> Prepared(r)) /\ (HasReq(Tail(sq), r) <=> Prepared(r)')
    BY DEF Prepared, HasReq
  <2> QED  BY <2>1, <2>2
<1>3. \A r : OnceReq(sq, r) => OnceReq(sq, r)'
  BY <1>1, ReqRemoved DEF OnceReq
<1>4. \A r : OnceReq(sq, r) /\ Head(sq).req = r => ~Prepared(r)'
  BY <1>1, ReqRemoved DEF Prepared, HasReq
<1> QED  BY <1>1, <1>2, <1>3, <1>4, EntriesRemoved

LEMMA CqRemoved ==
  ASSUME TypeOK, cq # <<>>, cq' = Tail(cq)
  PROVE  /\ \A r : Completed(r) <=> Completed(r)' \/ Head(cq).req = r
         /\ \A r : OnceReq(cq, r) => OnceReq(cq, r)'
         /\ \A r : OnceReq(cq, r) /\ Head(cq).req = r => ~Completed(r)'
         /\ \A i \in DOMAIN cq' : \E j \in DOMAIN cq : cq'[i] = cq[j]
         /\ \E j \in DOMAIN cq : Head(cq) = cq[j]
<1>1. cq \in Seq(CqeSet)
  BY DEF TypeOK
<1>2. ASSUME NEW r
      PROVE  Completed(r) <=> Completed(r)' \/ Head(cq).req = r
  <2>1. HasReq(cq, r) <=> HasReq(Tail(cq), r) \/ Head(cq).req = r
    BY <1>1, ReqRemoved
  <2>2. (HasReq(cq, r) <=> Completed(r)) /\ (HasReq(Tail(cq), r) <=> Completed(r)')
    BY DEF Completed, HasReq
  <2> QED  BY <2>1, <2>2
<1>3. \A r : OnceReq(cq, r) => OnceReq(cq, r)'
  BY <1>1, ReqRemoved DEF OnceReq
<1>4. \A r : OnceReq(cq, r) /\ Head(cq).req = r => ~Completed(r)'
  BY <1>1, ReqRemoved DEF Completed, HasReq
<1> QED  BY <1>1, <1>2, <1>3, <1>4, EntriesRemoved

LEMMA QueueRemoved ==
  ASSUME TypeOK, queue # <<>>, queue' = Tail(queue)
  PROVE  /\ Head(queue) \in Reqs
         /\ \A r : Queued(r) <=> Queued(r)' \/ Head(queue) = r
         /\ \A r : Once(queue, r) => Once(queue, r)'
         /\ \A r : Once(queue, r) /\ Head(queue) = r => ~Queued(r)'
<1>1. queue \in Seq(Reqs)
  BY DEF TypeOK
<1>2. ASSUME NEW r
      PROVE  Queued(r) <=> Queued(r)' \/ Head(queue) = r
  <2>1. (\E i \in DOMAIN queue : queue[i] = r)
           <=> (\E i \in DOMAIN Tail(queue) : Tail(queue)[i] = r) \/ Head(queue) = r
    BY <1>1, ItemRemoved
  <2> QED  BY <2>1 DEF Queued
<1>3. \A r : Once(queue, r) => Once(queue, r)'
  BY <1>1, ItemRemoved DEF Once
<1>4. \A r : Once(queue, r) /\ Head(queue) = r => ~Queued(r)'
  BY <1>1, ItemRemoved DEF Queued
<1> QED  BY <1>1, <1>2, <1>3, <1>4

-----------------------------------------------------------------------------
(* Steps.                                                                    *)

LEMMA InitDispatchInv == Init => DispatchInv
<1> SUFFICES ASSUME Init PROVE DispatchInv
  OBVIOUS
<1>1. /\ DOMAIN sq = {1} /\ sq[1] = AcceptSqe(AcceptReq)
      /\ DOMAIN cq = {} /\ DOMAIN queue = {} /\ inflight = {} /\ free = ConnReqs
  BY DEF Init, ConnReqs
<1>2. /\ reqs[AcceptReq].operation = "accept"
      /\ \A r \in ConnReqs : reqs[r].operation = "none"
  BY ConstantsOK DEF Init, NoReq, ConnReqs
<1>3. OneOpInv
  BY <1>1 DEF OneOpInv, OneOp, OnceReq, Once, Prepared, InKernel, Completed, Queued,
              AcceptSqe, ConnReqs
<1>4. FaithfulInv
  BY <1>1, <1>2 DEF FaithfulInv, Faithful, AcceptSqe
<1>5. ListenerInv
  BY <1>1, <1>2, ConstantsOK DEF ListenerInv, ConnReqs
<1> QED  BY <1>3, <1>4, <1>5 DEF DispatchInv

(* Nothing moves.                                                            *)
LEMMA QuietStep ==
  ASSUME DispatchInv, UNCHANGED <<sq, inflight, cq, queue, free, reqs>>, Running' => Running
  PROVE  DispatchInv'
<1>1. OneOpInv'
  BY DEF DispatchInv, OneOpInv, OneOp, OnceReq, Once, Prepared, InKernel, Completed, Queued
<1>2. FaithfulInv'
  BY DEF DispatchInv, FaithfulInv, Faithful
<1>3. ListenerInv'
  BY DEF DispatchInv, ListenerInv
<1> QED  BY <1>1, <1>2, <1>3 DEF DispatchInv

(* Only accepts are prepared or completed.                                   *)
LEMMA AcceptPrepared ==
  ASSUME TypeInv, DispatchInv, sq' = Append(sq, AcceptSqe(AcceptReq)),
         UNCHANGED <<inflight, cq, queue, free, reqs>>, Running' => Running
  PROVE  DispatchInv'
<1>1. AcceptSqe(AcceptReq) \in Sqe
  BY AcceptSqeType
<1>2. AcceptSqe(AcceptReq).req = AcceptReq /\ AcceptSqe(AcceptReq).op = "accept"
  BY DEF AcceptSqe
<1>3. /\ \A r : Prepared(r)' <=> Prepared(r) \/ AcceptReq = r
      /\ \A r \in ConnReqs : OnceReq(sq, r) => OnceReq(sq, r)'
      /\ \A i \in DOMAIN sq' : sq'[i] = AcceptSqe(AcceptReq) \/ \E j \in DOMAIN sq : sq'[i] = sq[j]
  BY <1>1, <1>2, SqAppended DEF TypeInv, ConnReqs
<1>4. OneOpInv'
  <2>1. \A r \in Reqs : Once(queue, r)'
    BY Unmoved DEF DispatchInv, OneOpInv
  <2>2. ASSUME NEW r \in ConnReqs
        PROVE  OneOp(r)'
    <3>1. /\ Prepared(r)' <=> Prepared(r)
          /\ InKernel(r)' <=> InKernel(r)
          /\ Completed(r)' <=> Completed(r)
          /\ Queued(r)' <=> Queued(r)
      BY <1>3, Unmoved DEF ConnReqs
    <3>2. OnceReq(sq, r)' /\ OnceReq(cq, r)'
      BY <1>3, Unmoved DEF DispatchInv, OneOpInv, OneOp
    <3> QED  BY <3>1, <3>2 DEF DispatchInv, OneOpInv, OneOp
  <2> QED  BY <2>1, <2>2 DEF OneOpInv
<1>5. FaithfulInv'
  BY <1>2, <1>3, ConstantsOK DEF DispatchInv, FaithfulInv, ListenerInv, Faithful
<1>6. ListenerInv'
  BY DEF DispatchInv, ListenerInv
<1> QED  BY <1>4, <1>5, <1>6 DEF DispatchInv

LEMMA AcceptCompleted ==
  ASSUME TypeInv, DispatchInv,
         NEW f \in FD \cup {ListenFd}, NEW ok \in BOOLEAN,
         cq' = Append(cq, Cqe(AcceptSqe(AcceptReq), ok, f, 0)),
         UNCHANGED <<inflight, sq, queue, free, reqs>>, Running' => Running
  PROVE  DispatchInv'
<1> DEFINE c == Cqe(AcceptSqe(AcceptReq), ok, f, 0)
<1>1. c \in CqeSet
  <2>1. 0 \in 0..BufSize
    BY ConstantsOK
  <2> QED  BY <2>1, AcceptSqeType, CqeType
<1>2. c.req = AcceptReq /\ c.op = "accept"
  BY DEF AcceptSqe, Cqe
<1> HIDE DEF c
<1>3. /\ \A r : Completed(r)' <=> Completed(r) \/ AcceptReq = r
      /\ \A r \in ConnReqs : OnceReq(cq, r) => OnceReq(cq, r)'
      /\ \A i \in DOMAIN cq' : cq'[i] = c \/ \E j \in DOMAIN cq : cq'[i] = cq[j]
  <2>1. cq' = Append(cq, c)
    BY DEF c
  <2> QED  BY <1>1, <1>2, <2>1, CqAppended DEF TypeInv, ConnReqs
<1>4. OneOpInv'
  <2>1. \A r \in Reqs : Once(queue, r)'
    BY Unmoved DEF DispatchInv, OneOpInv
  <2>2. ASSUME NEW r \in ConnReqs
        PROVE  OneOp(r)'
    <3>1. /\ Prepared(r)' <=> Prepared(r)
          /\ InKernel(r)' <=> InKernel(r)
          /\ Completed(r)' <=> Completed(r)
          /\ Queued(r)' <=> Queued(r)
      BY <1>3, Unmoved DEF ConnReqs
    <3>2. OnceReq(sq, r)' /\ OnceReq(cq, r)'
      BY <1>3, Unmoved DEF DispatchInv, OneOpInv, OneOp
    <3> QED  BY <3>1, <3>2 DEF DispatchInv, OneOpInv, OneOp
  <2> QED  BY <2>1, <2>2 DEF OneOpInv
<1>5. FaithfulInv'
  BY <1>2, <1>3, ConstantsOK DEF DispatchInv, FaithfulInv, ListenerInv, Faithful
<1>6. ListenerInv'
  BY DEF DispatchInv, ListenerInv
<1> QED  BY <1>4, <1>5, <1>6 DEF DispatchInv

(* A queued request is prepared.                                             *)
LEMMA DrainStep ==
  ASSUME TypeInv, QueueInv, DispatchInv, Drain
  PROVE  DispatchInv'
<1> DEFINE q == Head(queue)
           e == DrainSqe(q)
<1>1. TypeOK /\ queue # <<>> /\ queue' = Tail(queue) /\ sq' = Append(sq, e)
      /\ UNCHANGED <<pc, inflight, cq, free, reqs>>
  BY DEF TypeInv, Drain, pool
<1>2. q \in Reqs /\ e \in Sqe
  BY <1>1, DrainSqeType, QueueRemoved
<1>3. /\ e.req = q
      /\ e.op = reqs[q].operation
      /\ e.op # "accept" => e.fd = reqs[q].fd
  <2>1. reqs[q].operation \in ReqOperation
    BY <1>1 DEF TypeInv, TypeOK, QueuedOps
  <2> QED  BY <2>1 DEF DrainSqe, AcceptSqe, RecvSqe, CloseSqe, ReqOperation
<1> HIDE DEF e
<1>4. OneOpInv'
  <2>1. \A r \in Reqs : Once(queue, r)'
    BY <1>1, QueueRemoved DEF DispatchInv, OneOpInv
  <2>2. ASSUME NEW r \in ConnReqs
        PROVE  OneOp(r)'
    <3>0. OneOp(r) /\ Once(queue, r) /\ r \in Reqs
      BY DEF DispatchInv, OneOpInv, ConnReqs
    <3>1. Queued(r) <=> Queued(r)' \/ q = r
      BY <1>1, QueueRemoved
    <3>2. q = r => ~Queued(r)'
      BY <1>1, <3>0, QueueRemoved
    <3>3. Prepared(r)' <=> Prepared(r) \/ q = r
      BY <1>1, <1>2, <1>3, SqAppended
    <3>4. q = r => ~Prepared(r)
      BY <3>0, <3>1 DEF OneOp
    <3>5. OnceReq(sq, r)' /\ OnceReq(cq, r)'
      BY <1>1, <1>2, <1>3, <3>0, <3>4, SqAppended, Unmoved DEF OneOp
    <3>6. (InKernel(r)' <=> InKernel(r)) /\ (Completed(r)' <=> Completed(r))
      BY <1>1, Unmoved
    <3> QED  BY <1>1, <3>0, <3>1, <3>2, <3>3, <3>5, <3>6 DEF OneOp
  <2> QED  BY <2>1, <2>2 DEF OneOpInv
<1>5. FaithfulInv'
  <2>1. \A i \in DOMAIN sq' : sq'[i] = e \/ \E j \in DOMAIN sq : sq'[i] = sq[j]
    BY <1>1, <1>2, SqAppended
  <2> QED  BY <1>1, <1>3, <2>1 DEF DispatchInv, FaithfulInv, Faithful
<1>6. ListenerInv'
  BY <1>1 DEF DispatchInv, ListenerInv, Running
<1> QED  BY <1>4, <1>5, <1>6 DEF DispatchInv

(* The kernel consumes an entry.                                             *)
LEMMA SubmitStep ==
  ASSUME TypeInv, DispatchInv, Submit
  PROVE  DispatchInv'
<1> DEFINE e == Head(sq)
<1>1. TypeOK /\ sq # <<>> /\ sq' = Tail(sq)
      /\ UNCHANGED <<pc, cq, queue, free, reqs>>
      /\ inflight' = IF e.op = "accept" THEN inflight ELSE inflight \cup {e}
  BY DEF TypeInv, Submit, pool
<1>2. /\ e \in Sqe
      /\ \E j \in DOMAIN sq : e = sq[j]
      /\ \A i \in DOMAIN sq' : \E j \in DOMAIN sq : sq'[i] = sq[j]
  <2>1. sq \in Seq(Sqe)
    BY <1>1 DEF TypeOK
  <2> QED  BY <1>1, <2>1, SqRemoved
<1>3. e.op = reqs[e.req].operation /\ (e.op # "accept" => e.fd = reqs[e.req].fd)
  BY <1>2 DEF DispatchInv, FaithfulInv, Faithful
<1>4. e.req \in Reqs /\ (e.op = "accept" <=> e.req = AcceptReq)
  BY <1>2, <1>3 DEF Sqe, DispatchInv, ListenerInv
<1> HIDE DEF e
<1>5. OneOpInv'
  <2>1. \A r \in Reqs : Once(queue, r)'
    BY <1>1, Unmoved DEF DispatchInv, OneOpInv
  <2>2. ASSUME NEW r \in ConnReqs
        PROVE  OneOp(r)'
    <3>0. OneOp(r) /\ r # AcceptReq
      BY DEF DispatchInv, OneOpInv, ConnReqs
    <3>1. Prepared(r) <=> Prepared(r)' \/ e.req = r
      BY <1>1, SqRemoved DEF e
    <3>2. e.req = r => ~Prepared(r)'
      BY <1>1, <3>0, SqRemoved DEF OneOp, e
    <3>3. InKernel(r)' <=> InKernel(r) \/ e.req = r
      BY <1>1, <1>4, <3>0 DEF InKernel
    <3>4. \A d, g \in inflight' : d.req = r /\ g.req = r => d = g
      <4>1. \A d, g \in inflight : d.req = r /\ g.req = r => d = g
        BY <3>0 DEF OneOp
      <4>2. e.req = r => \A d \in inflight : d.req # r
        BY <3>0, <3>1 DEF OneOp, InKernel
      <4> QED  BY <1>1, <4>1, <4>2
    <3>5. OnceReq(sq, r)' /\ OnceReq(cq, r)'
      BY <1>1, <3>0, SqRemoved, Unmoved DEF OneOp
    <3>6. (Queued(r)' <=> Queued(r)) /\ (Completed(r)' <=> Completed(r))
      BY <1>1, Unmoved
    <3> QED  BY <1>1, <3>0, <3>1, <3>2, <3>3, <3>4, <3>5, <3>6 DEF OneOp
  <2> QED  BY <2>1, <2>2 DEF OneOpInv
<1>6. FaithfulInv'
  BY <1>1, <1>2, <1>3 DEF DispatchInv, FaithfulInv, Faithful
<1>7. ListenerInv'
  BY <1>1, <1>4 DEF DispatchInv, ListenerInv, Running
<1> QED  BY <1>5, <1>6, <1>7 DEF DispatchInv

(* The kernel answers an operation of a request.                             *)
LEMMA AnswerStep ==
  ASSUME TypeInv, DispatchInv, NEW e \in inflight, NEW ok \in BOOLEAN, NEW n \in 0..BufSize,
         cq' = Append(cq, Cqe(e, ok, e.fd, n)),
         inflight' = inflight \ {e},
         UNCHANGED <<sq, queue, free, reqs>>, Running' => Running
  PROVE  DispatchInv'
<1> DEFINE c == Cqe(e, ok, e.fd, n)
<1>1. TypeOK /\ e \in Sqe /\ c \in CqeSet
  <2>1. TypeOK /\ e \in Sqe /\ e.fd \in FD \cup {ListenFd}
    BY DEF TypeInv, TypeOK, Sqe
  <2> QED  BY <2>1, CqeType
<1>2. c.req = e.req /\ c.op = e.op /\ c.fd = e.fd /\ cq' = Append(cq, c)
  BY DEF Cqe
<1> HIDE DEF c
<1>3. OneOpInv'
  <2>1. \A r \in Reqs : Once(queue, r)'
    BY Unmoved DEF DispatchInv, OneOpInv
  <2>2. ASSUME NEW r \in ConnReqs
        PROVE  OneOp(r)'
    <3>0. OneOp(r)
      BY DEF DispatchInv, OneOpInv
    <3>1. \A d, g \in inflight : d.req = r /\ g.req = r => d = g
      BY <3>0 DEF OneOp
    <3>2. (InKernel(r) <=> InKernel(r)' \/ e.req = r) /\ (e.req = r => ~InKernel(r)')
      BY <3>1 DEF InKernel
    <3>3. Completed(r)' <=> Completed(r) \/ e.req = r
      BY <1>1, <1>2, CqAppended
    <3>4. e.req = r => ~Completed(r)
      BY <3>0, <3>2 DEF OneOp
    <3>5. OnceReq(sq, r)' /\ OnceReq(cq, r)'
      BY <1>1, <1>2, <3>0, <3>4, CqAppended, Unmoved DEF OneOp
    <3>6. (Queued(r)' <=> Queued(r)) /\ (Prepared(r)' <=> Prepared(r))
      BY Unmoved
    <3> QED  BY <3>0, <3>1, <3>2, <3>3, <3>5, <3>6 DEF OneOp
  <2> QED  BY <2>1, <2>2 DEF OneOpInv
<1>4. FaithfulInv'
  <2>1. \A i \in DOMAIN cq' : cq'[i] = c \/ \E j \in DOMAIN cq : cq'[i] = cq[j]
    BY <1>1, <1>2, CqAppended
  <2> QED  BY <1>2, <2>1 DEF DispatchInv, FaithfulInv, Faithful
<1>5. ListenerInv'
  BY DEF DispatchInv, ListenerInv
<1> QED  BY <1>3, <1>4, <1>5 DEF DispatchInv

(* A completion leaves the ring: its request is nowhere any more.            *)
LEMMA CompletionTaken ==
  ASSUME TypeInv, DispatchInv, todo > 0, NextCompletion
  PROVE  /\ Completion.req \in Reqs
         /\ Faithful(Completion, reqs)
         /\ \A r : Completed(r) <=> Completed(r)' \/ Completion.req = r
         /\ \A r \in ConnReqs : OnceReq(cq, r)'
         /\ \A i \in DOMAIN cq' : \E j \in DOMAIN cq : cq'[i] = cq[j]
         /\ \A r \in ConnReqs : Completion.req = r =>
              ~Completed(r)' /\ ~Prepared(r) /\ ~InKernel(r) /\ ~Queued(r) /\ r \notin free
<1>1. TypeOK /\ cq # <<>> /\ cq' = Tail(cq)
  BY DEF TypeInv, TypeOK, NextCompletion
<1>2. /\ \A r : Completed(r) <=> Completed(r)' \/ Completion.req = r
      /\ \A r : OnceReq(cq, r) => OnceReq(cq, r)'
      /\ \A r : OnceReq(cq, r) /\ Completion.req = r => ~Completed(r)'
      /\ \A i \in DOMAIN cq' : \E j \in DOMAIN cq : cq'[i] = cq[j]
      /\ \E j \in DOMAIN cq : Completion = cq[j]
  BY <1>1, CqRemoved DEF Completion
<1>3. Completion.req \in Reqs /\ Faithful(Completion, reqs)
  BY <1>1, <1>2, CompletionType DEF DispatchInv, FaithfulInv
<1>4. \A r \in ConnReqs : OneOp(r)
  BY DEF DispatchInv, OneOpInv
<1>5. \A r \in ConnReqs : OnceReq(cq, r)'
  BY <1>2, <1>4 DEF OneOp
<1>6. ASSUME NEW r \in ConnReqs, Completion.req = r
      PROVE  ~Completed(r)' /\ ~Prepared(r) /\ ~InKernel(r) /\ ~Queued(r) /\ r \notin free
  <2>1. OneOp(r)
    BY <1>4
  <2>2. Completed(r)
    BY <1>2, <1>6
  <2>3. ~Completed(r)'
    BY <1>2, <1>6, <2>1 DEF OneOp
  <2> QED  BY <2>1, <2>2, <2>3 DEF OneOp
<1> QED  BY <1>2, <1>3, <1>5, <1>6

(* ... and nothing else happens, but that the request may become free.       *)
LEMMA TakenStep ==
  ASSUME TypeInv, DispatchInv, todo > 0, pc = "handle", NextCompletion,
         UNCHANGED <<sq, inflight, queue, reqs>>,
         free' = free \/ (Completion.req \in ConnReqs /\ free' = free \cup {Completion.req})
  PROVE  DispatchInv'
<1>1. OneOpInv'
  <2>1. \A r \in Reqs : Once(queue, r)'
    BY Unmoved DEF DispatchInv, OneOpInv
  <2>2. ASSUME NEW r \in ConnReqs
        PROVE  OneOp(r)'
    <3>0. OneOp(r)
      BY DEF DispatchInv, OneOpInv
    <3>1. OnceReq(sq, r)' /\ OnceReq(cq, r)'
      BY <3>0, CompletionTaken, Unmoved DEF OneOp
    <3>2. /\ Prepared(r)' <=> Prepared(r)
          /\ InKernel(r)' <=> InKernel(r)
          /\ Queued(r)' <=> Queued(r)
      BY Unmoved
    <3>3. Completed(r) <=> Completed(r)' \/ Completion.req = r
      BY CompletionTaken
    <3>4. Completion.req = r => ~Completed(r)' /\ ~Prepared(r) /\ ~InKernel(r) /\ ~Queued(r)
      BY CompletionTaken
    <3>5. r \in free' => r \in free \/ Completion.req = r
      OBVIOUS
    <3> QED  BY <3>0, <3>1, <3>2, <3>3, <3>4, <3>5 DEF OneOp
  <2> QED  BY <2>1, <2>2 DEF OneOpInv
<1>2. FaithfulInv'
  BY CompletionTaken DEF DispatchInv, FaithfulInv, Faithful
<1>3. ListenerInv'
  <2>1. Running /\ (AcceptReq \in free' => AcceptReq \in free)
    BY DEF ConnReqs, Running
  <2> QED  BY <2>1 DEF DispatchInv, ListenerInv
<1> QED  BY <1>1, <1>2, <1>3 DEF DispatchInv

(* A request that is nowhere is prepared or queued, not both.                *)
LEMMA PlacedOnce ==
  ASSUME TypeOK, NEW e \in Sqe, ~Prepared(e.req), ~Queued(e.req), SubmitOrQueue(e)
  PROVE  /\ \A r : r # e.req => (Prepared(r)' <=> Prepared(r)) /\ (Queued(r)' <=> Queued(r))
         /\ Prepared(e.req)' \/ Queued(e.req)'
         /\ ~(Prepared(e.req)' /\ Queued(e.req)')
         /\ \A r : OnceReq(sq, r) => OnceReq(sq, r)'
         /\ \A r : Once(queue, r) => Once(queue, r)'
         /\ \A i \in DOMAIN sq' : sq'[i] = e \/ \E j \in DOMAIN sq : sq'[i] = sq[j]
<1>0. e.req \in Reqs
  BY DEF Sqe
<1>1. CASE HasRoom /\ sq' = Append(sq, e) /\ UNCHANGED <<queue, stop_accept>>
  <2>1. /\ \A r : Prepared(r)' <=> Prepared(r) \/ e.req = r
        /\ \A r : OnceReq(sq, r) => OnceReq(sq, r)'
        /\ \A i \in DOMAIN sq' : sq'[i] = e \/ \E j \in DOMAIN sq : sq'[i] = sq[j]
    BY <1>1, SqAppended
  <2>2. \A r : (Queued(r)' <=> Queued(r)) /\ (Once(queue, r) => Once(queue, r)')
    BY <1>1, Unmoved
  <2> QED  BY <2>1, <2>2
<1>2. CASE ~HasRoom /\ PushToQueue(e.req) /\ UNCHANGED sq
  <2>1. /\ \A r : Queued(r)' <=> Queued(r) \/ e.req = r
        /\ \A r : Once(queue, r) => Once(queue, r)'
    BY <1>0, <1>2, QueueAppended DEF PushToQueue
  <2>2. \A r : (Prepared(r)' <=> Prepared(r)) /\ (OnceReq(sq, r) => OnceReq(sq, r)')
    BY <1>2, Unmoved
  <2>3. \A i \in DOMAIN sq' : \E j \in DOMAIN sq : sq'[i] = sq[j]
    BY <1>2
  <2> QED  BY <2>1, <2>2, <2>3
<1> QED  BY <1>1, <1>2 DEF SubmitOrQueue

(* The request of a completion of a connection is used for e.                *)
LEMMA ReusedStep ==
  ASSUME TypeInv, DispatchInv, todo > 0, pc = "handle", NextCompletion,
         NEW c \in ConnReqs, Completion.req = c,
         NEW e \in Sqe, e.req = c, SubmitOrQueue(e),
         e.op = reqs'[c].operation, e.fd = reqs'[c].fd, e.op # "accept",
         \A r \in Reqs \ {c} : reqs'[r] = reqs[r],
         UNCHANGED <<inflight, free>>
  PROVE  DispatchInv'
<1>1. TypeOK /\ ~Prepared(c) /\ ~Queued(c) /\ ~InKernel(c) /\ ~Completed(c)' /\ c \notin free
  BY CompletionTaken DEF TypeInv
<1>2. OneOpInv'
  <2>1. \A r \in Reqs : Once(queue, r)'
    BY <1>1, PlacedOnce DEF DispatchInv, OneOpInv
  <2>2. ASSUME NEW r \in ConnReqs
        PROVE  OneOp(r)'
    <3>0. OneOp(r)
      BY DEF DispatchInv, OneOpInv
    <3>1. OnceReq(sq, r)' /\ OnceReq(cq, r)'
      BY <1>1, <3>0, CompletionTaken, PlacedOnce DEF OneOp
    <3>2. InKernel(r)' <=> InKernel(r)
      BY Unmoved
    <3>3. CASE r = c
      <4>1. ~(Prepared(r)' /\ Queued(r)')
        BY <1>1, <3>3, PlacedOnce
      <4> QED  BY <1>1, <3>0, <3>1, <3>2, <3>3, <4>1 DEF OneOp
    <3>4. CASE r # c
      <4>1. (Prepared(r)' <=> Prepared(r)) /\ (Queued(r)' <=> Queued(r))
        BY <1>1, <3>4, PlacedOnce
      <4>2. Completed(r) <=> Completed(r)'
        BY <3>4, CompletionTaken
      <4> QED  BY <3>0, <3>1, <3>2, <4>1, <4>2 DEF OneOp
    <3> QED  BY <3>3, <3>4
  <2> QED  BY <2>1, <2>2 DEF OneOpInv
<1>3. FaithfulInv'
  <2>1. ASSUME NEW i \in DOMAIN sq'
        PROVE  Faithful(sq'[i], reqs')
    <3>1. CASE sq'[i] = e
      BY <3>1 DEF Faithful
    <3>2. ASSUME NEW j \in DOMAIN sq, sq'[i] = sq[j]
          PROVE  Faithful(sq'[i], reqs')
      <4>1. sq[j].req # c /\ sq[j].req \in Reqs
        <5>1. sq[j] \in Sqe
          BY <1>1 DEF TypeOK
        <5> QED  BY <1>1, <5>1 DEF Prepared, Sqe
      <4> QED  BY <3>2, <4>1 DEF DispatchInv, FaithfulInv, Faithful
    <3> QED  BY <1>1, <3>1, <3>2, PlacedOnce
  <2>2. ASSUME NEW d \in inflight'
        PROVE  Faithful(d, reqs')
    <3>1. d \in inflight /\ d.req # c /\ d.req \in Reqs
      BY <1>1 DEF InKernel, TypeOK, Sqe
    <3> QED  BY <3>1 DEF DispatchInv, FaithfulInv, Faithful
  <2>3. ASSUME NEW i \in DOMAIN cq'
        PROVE  Faithful(cq'[i], reqs')
    <3>1. cq'[i].req # c
      BY <1>1 DEF Completed
    <3>2. PICK j \in DOMAIN cq : cq'[i] = cq[j]
      BY CompletionTaken
    <3>3. cq[j].req \in Reqs
      <4>1. cq[j] \in CqeSet
        BY <1>1 DEF TypeOK
      <4> QED  BY <4>1 DEF CqeSet
    <3> QED  BY <3>1, <3>2, <3>3 DEF DispatchInv, FaithfulInv, Faithful
  <2> QED  BY <2>1, <2>2, <2>3 DEF FaithfulInv
<1>4. ListenerInv'
  <2>1. Running /\ c # AcceptReq
    BY DEF ConnReqs, Running
  <2>2. reqs'[c].operation # "accept"
    OBVIOUS
  <2> QED  BY <2>1, <2>2 DEF DispatchInv, ListenerInv
<1> QED  BY <1>2, <1>3, <1>4 DEF DispatchInv

(* A connection is accepted: its recv is prepared or queued, and the accept  *)
(* may follow it.                                                            *)
LEMMA AcceptPlaces ==
  ASSUME TypeInv, QueueInv, DispatchInv, NEW r \in Reqs, AcceptConnection(r)
  PROVE  /\ Completion.req = AcceptReq /\ r \in ConnReqs /\ r \in free
         /\ ~Prepared(r) /\ ~Queued(r) /\ ~InKernel(r) /\ ~Completed(r)
         /\ \A q \in ConnReqs : q # r => (Prepared(q)' <=> Prepared(q)) /\ (Queued(q)' <=> Queued(q))
         /\ Prepared(r)' \/ Queued(r)'
         /\ ~(Prepared(r)' /\ Queued(r)')
         /\ \A q \in ConnReqs : OnceReq(sq, q) => OnceReq(sq, q)'
         /\ \A q \in Reqs : Once(queue, q)'
         /\ \A i \in DOMAIN sq' :
              \/ sq'[i] = RecvSqe(r, Completion.fd, 0)
              \/ sq'[i] = AcceptSqe(AcceptReq)
              \/ \E j \in DOMAIN sq : sq'[i] = sq[j]
<1> DEFINE recv   == RecvSqe(r, Completion.fd, 0)
           accept == AcceptSqe(AcceptReq)
<1>1. /\ TypeOK /\ pc = "handle" /\ todo > 0 /\ NextCompletion
      /\ r \in free /\ free' = free \ {r}
      /\ reqs' = [reqs EXCEPT ![r] = [operation |-> "recv", fd |-> Completion.fd, position |-> 0]]
      /\ UNCHANGED inflight
  BY DEF TypeInv, AcceptConnection, Handling, TakeSlot
<1>2. Completion.req = AcceptReq /\ r \in ConnReqs
  <2>1. Completion.req = AcceptReq
    BY <1>1, CompletionTaken DEF AcceptConnection, Handling, DispatchInv, ListenerInv
  <2>2. r # AcceptReq
    BY <1>1 DEF DispatchInv, ListenerInv, Running
  <2> QED  BY <2>1, <2>2 DEF ConnReqs
<1>3. recv \in Sqe /\ recv.req = r /\ recv.op = "recv" /\ recv.fd = Completion.fd
  <2>1. Completion.fd \in FD \cup {ListenFd} /\ 0 \in 0..BufSize
    BY <1>1, CompletionType, ConstantsOK
  <2> QED  BY <2>1, SqeTypes DEF RecvSqe
<1>4. accept \in Sqe /\ accept.req = AcceptReq /\ accept.op = "accept"
  BY AcceptSqeType DEF AcceptSqe
<1>5. \/ sq' = sq /\ queue' = Append(queue, r)
      \/ sq' = Append(sq, recv) /\ queue' = queue
      \/ sq' = Append(Append(sq, recv), accept) /\ queue' = queue
      \/ sq' = Append(sq, recv) /\ queue' = Append(queue, AcceptReq) /\ queue = <<>>
  <2>1. ~stop_accept => queue = <<>>
    BY DEF QueueInv
  <2> QED  BY <1>2, <2>1 DEF AcceptConnection, PushToQueue
<1> HIDE DEF recv, accept
<1>6. /\ ~Prepared(r) /\ ~Queued(r) /\ ~InKernel(r) /\ ~Completed(r)
  BY <1>1, <1>2 DEF DispatchInv, OneOpInv, OneOp
<1>7. sq \in Seq(Sqe) /\ queue \in Seq(Reqs)
  BY <1>1 DEF TypeOK
<1>8. /\ \A q \in ConnReqs : q # r => (Prepared(q)' <=> Prepared(q)) /\ (Queued(q)' <=> Queued(q))
      /\ Prepared(r)' \/ Queued(r)'
      /\ ~(Prepared(r)' /\ Queued(r)')
      /\ \A q \in ConnReqs : OnceReq(sq, q) => OnceReq(sq, q)'
      /\ \A q \in Reqs : Once(queue, q)'
      /\ \A i \in DOMAIN sq' :
           sq'[i] = recv \/ sq'[i] = accept \/ \E j \in DOMAIN sq : sq'[i] = sq[j]
  <2>0. \A q \in Reqs : Once(queue, q)
    BY DEF DispatchInv, OneOpInv
  <2>1. CASE sq' = sq /\ queue' = Append(queue, r)
    <3>1. \A q : Queued(q)' <=> Queued(q) \/ r = q
      BY <1>1, <2>1, QueueAppended
    <3>2. \A q \in Reqs : Once(queue, q)'
      BY <1>1, <1>6, <2>0, <2>1, QueueAppended
    <3>3. \A q : (Prepared(q)' <=> Prepared(q)) /\ (OnceReq(sq, q) => OnceReq(sq, q)')
      BY <2>1, Unmoved
    <3>4. \A i \in DOMAIN sq' : \E j \in DOMAIN sq : sq'[i] = sq[j]
      BY <2>1
    <3> QED  BY <1>6, <3>1, <3>2, <3>3, <3>4
  <2>2. ASSUME sq' = Append(sq, recv)
        PROVE  /\ \A q : Prepared(q)' <=> Prepared(q) \/ r = q
               /\ \A q : OnceReq(sq, q) => OnceReq(sq, q)'
               /\ \A i \in DOMAIN sq' : sq'[i] = recv \/ \E j \in DOMAIN sq : sq'[i] = sq[j]
    BY <1>1, <1>3, <1>6, <2>2, SqAppended
  <2>3. CASE sq' = Append(sq, recv) /\ queue' = queue
    <3>1. \A q : (Queued(q)' <=> Queued(q)) /\ (Once(queue, q) => Once(queue, q)')
      BY <2>3, Unmoved
    <3> QED  BY <1>6, <2>0, <2>2, <2>3, <3>1
  <2>4. CASE sq' = Append(Append(sq, recv), accept) /\ queue' = queue
    <3> DEFINE s == Append(sq, recv)
    <3>1. s \in Seq(Sqe) /\ sq' = Append(s, accept)
      BY <1>3, <1>7, <2>4
    <3>2. \A q : HasReq(s, q) <=> Prepared(q) \/ r = q
      <4>1. \A q : HasReq(s, q) <=> HasReq(sq, q) \/ recv.req = q
        BY <1>3, <1>7, ReqAppended
      <4>2. \A q : HasReq(sq, q) <=> Prepared(q)
        BY DEF Prepared, HasReq
      <4> QED  BY <1>3, <4>1, <4>2
    <3>3. \A q : OnceReq(sq, q) => OnceReq(s, q)
      BY <1>3, <1>6, <1>7, ReqAppended DEF Prepared, HasReq
    <3>4. \A i \in DOMAIN s : s[i] = recv \/ \E j \in DOMAIN sq : s[i] = sq[j]
      BY <1>3, <1>7, EntriesAppended
    <3> HIDE DEF s
    <3>5. \A q : Prepared(q)' <=> HasReq(s, q) \/ AcceptReq = q
      BY <1>4, <3>1, ReqAppended DEF Prepared, HasReq
    <3>6. \A q \in ConnReqs : OnceReq(s, q) => OnceReq(sq, q)'
      BY <1>4, <3>1, ReqAppended DEF OnceReq, ConnReqs
    <3>7. \A i \in DOMAIN sq' : sq'[i] = accept \/ \E j \in DOMAIN s : sq'[i] = s[j]
      BY <1>4, <3>1, EntriesAppended
    <3>8. \A q : (Queued(q)' <=> Queued(q)) /\ (Once(queue, q) => Once(queue, q)')
      BY <2>4, Unmoved
    <3>9. \A q \in ConnReqs : q # r => (Prepared(q)' <=> Prepared(q))
      BY <3>2, <3>5 DEF ConnReqs
    <3>10. \A i \in DOMAIN sq' :
             sq'[i] = recv \/ sq'[i] = accept \/ \E j \in DOMAIN sq : sq'[i] = sq[j]
      BY <3>4, <3>7
    <3>11. Prepared(r)'
      BY <3>2, <3>5
    <3> QED  BY <1>6, <2>0, <3>3, <3>6, <3>8, <3>9, <3>10, <3>11
  <2>5. CASE sq' = Append(sq, recv) /\ queue' = Append(queue, AcceptReq) /\ queue = <<>>
    <3>1. \A q : ~Queued(q)
      BY <2>5 DEF Queued
    <3>2. AcceptReq \in Reqs
      BY ConstantsOK
    <3>3. \A q : Queued(q)' <=> AcceptReq = q
      BY <1>1, <2>5, <3>1, <3>2, QueueAppended
    <3>4. \A q \in Reqs : Once(queue, q)'
      BY <1>1, <2>0, <2>5, <3>1, <3>2, QueueAppended
    <3>5. \A q \in ConnReqs : ~Queued(q)'
      BY <3>3 DEF ConnReqs
    <3> QED  BY <1>2, <2>2, <2>5, <3>1, <3>4, <3>5
  <2> QED  BY <1>5, <2>1, <2>3, <2>4, <2>5
<1> QED  BY <1>1, <1>2, <1>6, <1>8 DEF recv, accept

LEMMA AcceptStep ==
  ASSUME TypeInv, QueueInv, DispatchInv, NEW r \in Reqs, AcceptConnection(r)
  PROVE  DispatchInv'
<1> DEFINE recv   == RecvSqe(r, Completion.fd, 0)
           accept == AcceptSqe(AcceptReq)
<1>1. /\ TypeOK /\ pc = "handle" /\ todo > 0 /\ NextCompletion
      /\ r \in free /\ free' = free \ {r}
      /\ reqs' = [reqs EXCEPT ![r] = [operation |-> "recv", fd |-> Completion.fd, position |-> 0]]
      /\ UNCHANGED inflight
  BY DEF TypeInv, AcceptConnection, Handling, TakeSlot
<1>2. Completion.req = AcceptReq /\ r \in ConnReqs
  BY AcceptPlaces
<1>3. recv \in Sqe /\ recv.req = r /\ recv.op = "recv" /\ recv.fd = Completion.fd
  <2>1. Completion.fd \in FD \cup {ListenFd} /\ 0 \in 0..BufSize
    BY <1>1, CompletionType, ConstantsOK
  <2> QED  BY <2>1, SqeTypes DEF RecvSqe
<1>4. accept \in Sqe /\ accept.req = AcceptReq /\ accept.op = "accept"
  BY AcceptSqeType DEF AcceptSqe
<1>6. /\ ~Prepared(r) /\ ~Queued(r) /\ ~InKernel(r) /\ ~Completed(r)
  BY AcceptPlaces
<1>7. sq \in Seq(Sqe) /\ queue \in Seq(Reqs)
  BY <1>1 DEF TypeOK
<1>8. /\ \A q \in ConnReqs : q # r => (Prepared(q)' <=> Prepared(q)) /\ (Queued(q)' <=> Queued(q))
      /\ ~(Prepared(r)' /\ Queued(r)')
      /\ \A q \in ConnReqs : OnceReq(sq, q) => OnceReq(sq, q)'
      /\ \A q \in Reqs : Once(queue, q)'
      /\ \A i \in DOMAIN sq' :
           sq'[i] = recv \/ sq'[i] = accept \/ \E j \in DOMAIN sq : sq'[i] = sq[j]
  BY AcceptPlaces
<1> HIDE DEF recv, accept
<1>9. OneOpInv'
  <2>1. ASSUME NEW q \in ConnReqs
        PROVE  OneOp(q)'
    <3>0. OneOp(q)
      BY DEF DispatchInv, OneOpInv
    <3>1. OnceReq(sq, q)' /\ OnceReq(cq, q)'
      BY <1>1, <1>8, <3>0, CompletionTaken DEF OneOp
    <3>2. (InKernel(q)' <=> InKernel(q)) /\ (Completed(q) <=> Completed(q)')
      <4>1. Completion.req # q
        BY <1>2 DEF ConnReqs
      <4> QED  BY <1>1, <4>1, CompletionTaken, Unmoved
    <3>3. CASE q = r
      <4>1. ~InKernel(q)' /\ ~Completed(q)' /\ ~(Prepared(q)' /\ Queued(q)') /\ q \notin free'
        BY <1>1, <1>6, <1>8, <3>2, <3>3
      <4> QED  BY <1>1, <3>0, <3>1, <4>1 DEF OneOp
    <3>4. CASE q # r
      <4>1. (Prepared(q)' <=> Prepared(q)) /\ (Queued(q)' <=> Queued(q))
            /\ (q \in free' => q \in free)
        BY <1>1, <1>8, <3>4
      <4> QED  BY <1>1, <3>0, <3>1, <3>2, <4>1 DEF OneOp
    <3> QED  BY <3>3, <3>4
  <2> QED  BY <1>8, <2>1 DEF OneOpInv
<1>10. /\ reqs'[r].operation = "recv" /\ reqs'[r].fd = Completion.fd
       /\ \A q \in Reqs \ {r} : reqs'[q] = reqs[q]
  BY <1>1 DEF TypeOK
<1>11. reqs[AcceptReq].operation = "accept" /\ AcceptReq \in Reqs /\ AcceptReq # r
  BY <1>2, ConstantsOK DEF DispatchInv, ListenerInv, ConnReqs
<1>12. FaithfulInv'
  <2>1. ASSUME NEW i \in DOMAIN sq'
        PROVE  Faithful(sq'[i], reqs')
    <3>1. CASE sq'[i] = recv
      BY <1>3, <1>10, <3>1 DEF Faithful
    <3>2. CASE sq'[i] = accept
      BY <1>4, <1>10, <1>11, <3>2 DEF Faithful
    <3>3. ASSUME NEW j \in DOMAIN sq, sq'[i] = sq[j]
          PROVE  Faithful(sq'[i], reqs')
      <4>1. sq[j] \in Sqe
        BY <1>7
      <4>2. sq[j].req # r /\ sq[j].req \in Reqs
        BY <1>6, <4>1 DEF Prepared, Sqe
      <4> QED  BY <1>10, <3>3, <4>2 DEF DispatchInv, FaithfulInv, Faithful
    <3> QED  BY <1>8, <3>1, <3>2, <3>3
  <2>2. ASSUME NEW d \in inflight'
        PROVE  Faithful(d, reqs')
    <3>1. d \in inflight /\ d.req # r /\ d.req \in Reqs
      BY <1>1, <1>6 DEF InKernel, TypeOK, Sqe
    <3> QED  BY <1>10, <3>1 DEF DispatchInv, FaithfulInv, Faithful
  <2>3. ASSUME NEW i \in DOMAIN cq'
        PROVE  Faithful(cq'[i], reqs')
    <3>1. PICK j \in DOMAIN cq : cq'[i] = cq[j]
      BY <1>1, CompletionTaken
    <3>2. cq[j] \in CqeSet
      BY <1>1 DEF TypeOK
    <3>3. cq[j].req \in Reqs /\ cq[j].req # r
      BY <1>6, <3>2 DEF Completed, CqeSet
    <3> QED  BY <1>10, <3>1, <3>3 DEF DispatchInv, FaithfulInv, Faithful
  <2> QED  BY <2>1, <2>2, <2>3 DEF FaithfulInv
<1>13. ListenerInv'
  <2>1. \A q \in Reqs : reqs'[q].operation = "accept" <=> q = AcceptReq
    BY <1>10, <1>11 DEF DispatchInv, ListenerInv
  <2>2. AcceptReq \notin free'
    BY <1>1 DEF DispatchInv, ListenerInv, Running
  <2> QED  BY <1>1, <2>1, <2>2 DEF DispatchInv, ListenerInv
<1> QED  BY <1>9, <1>12, <1>13 DEF DispatchInv

(* A recv has completed: its request is used for a close or the next recv.   *)
LEMMA ReceivePlaces ==
  ASSUME TypeInv, DispatchInv, ReceiveEof \/ ReceiveData
  PROVE  \E c \in ConnReqs, e \in Sqe :
           /\ Completion.req = c /\ Completion.op = "recv"
           /\ e.req = c /\ SubmitOrQueue(e) /\ e.op # "accept"
           /\ e.op = reqs'[c].operation /\ e.fd = reqs'[c].fd
           /\ reqs'[c].fd = reqs[c].fd
           /\ \A r \in Reqs \ {c} : reqs'[r] = reqs[r]
           /\ \/ e.op = "close" /\ e.start = 0 /\ Completion.n = 0
              \/ e.op = "recv" /\ e.start = reqs'[c].position
<1>0. TypeOK
  BY DEF TypeInv
<1>1. CASE ReceiveEof
  <2>1. /\ pc = "handle" /\ todo > 0 /\ NextCompletion /\ Completion.n = 0
        /\ reqs[Completion.req].operation = "recv"
        /\ reqs' = ToClose(Completion.req)
        /\ SubmitOrQueue(CloseSqe(Completion.req, reqs[Completion.req].fd))
        /\ UNCHANGED <<inflight, free>>
    BY <1>1 DEF ReceiveEof, Handling
  <2>2. PICK c \in ConnReqs : Completion.req = c
    BY <2>1, CompletionTaken DEF DispatchInv, ListenerInv, ConnReqs
  <2>3. c \in Reqs /\ reqs[c].fd \in FD \cup {ListenFd} /\ 0 \in 0..BufSize
    BY <1>0, ConstantsOK DEF TypeOK, ConnReqs
  <2> DEFINE e == CloseSqe(c, reqs[c].fd)
  <2>4. e \in Sqe /\ e.req = c /\ e.op = "close" /\ e.start = 0 /\ e.fd = reqs[c].fd
    BY <2>3, SqeTypes DEF CloseSqe
  <2>5. /\ reqs'[c].operation = "close" /\ reqs'[c].fd = reqs[c].fd
        /\ \A r \in Reqs \ {c} : reqs'[r] = reqs[r]
    BY <1>0, <2>1, <2>2, <2>3 DEF TypeOK, ToClose
  <2>6. SubmitOrQueue(e)
    BY <2>1, <2>2
  <2>7. Completion.op = "recv"
    BY <2>1, CompletionTaken DEF Faithful
  <2> HIDE DEF e
  <2> QED  BY <2>1, <2>2, <2>4, <2>5, <2>6, <2>7
<1>2. CASE ReceiveData
  <2>1. /\ pc = "handle" /\ todo > 0 /\ NextCompletion
        /\ reqs[Completion.req].operation = "recv"
        /\ reqs' = [reqs EXCEPT ![Completion.req].position = NextPosition]
        /\ SubmitOrQueue(RecvSqe(Completion.req, reqs[Completion.req].fd, NextPosition))
        /\ UNCHANGED <<inflight, free>>
    BY <1>2 DEF ReceiveData, Handling
  <2>2. PICK c \in ConnReqs : Completion.req = c
    BY <2>1, CompletionTaken DEF DispatchInv, ListenerInv, ConnReqs
  <2>3. /\ c \in Reqs /\ reqs[c].fd \in FD \cup {ListenFd}
        /\ reqs[c].position \in 0..(BufSize - 1) /\ Completion.n \in 0..BufSize
    BY <1>0, <2>1, CompletionType DEF TypeOK, ConnReqs
  <2>4. NextPosition \in 0..BufSize
    BY <2>2, <2>3, ConstantsOK DEF NextPosition, NewPosition
  <2> DEFINE e == RecvSqe(c, reqs[c].fd, NextPosition)
  <2>5. /\ e \in Sqe /\ e.req = c /\ e.op = "recv" /\ e.fd = reqs[c].fd
        /\ e.start = NextPosition
    BY <2>3, <2>4, SqeTypes DEF RecvSqe
  <2>6. /\ reqs'[c].operation = "recv" /\ reqs'[c].fd = reqs[c].fd
        /\ reqs'[c].position = NextPosition
        /\ \A r \in Reqs \ {c} : reqs'[r] = reqs[r]
    BY <1>0, <2>1, <2>2, <2>3 DEF TypeOK
  <2>7. SubmitOrQueue(e)
    BY <2>1, <2>2
  <2>8. Completion.op = "recv"
    BY <2>1, CompletionTaken DEF Faithful
  <2> HIDE DEF e
  <2> QED  BY <2>1, <2>2, <2>5, <2>6, <2>7, <2>8
<1> QED  BY <1>1, <1>2

LEMMA HandlerDispatch ==
  ASSUME TypeInv, QueueInv, DispatchInv, Handler
  PROVE  DispatchInv'
<1>0. TypeOK
  BY DEF TypeInv
<1>1. CASE HandleError
  BY <1>1, TakenStep DEF HandleError, pool
<1>2. CASE RejectConnection
  BY <1>2, TakenStep DEF RejectConnection, Handling, pool
<1>3. ASSUME NEW r \in Reqs, AcceptConnection(r)
      PROVE  DispatchInv'
  BY <1>3, AcceptStep
<1>4. CASE ReceiveEof \/ ReceiveData
  <2>1. pc = "handle" /\ todo > 0 /\ NextCompletion /\ UNCHANGED <<inflight, free>>
    BY <1>4 DEF ReceiveEof, ReceiveData, Handling
  <2>2. PICK c \in ConnReqs, e \in Sqe :
          /\ Completion.req = c
          /\ e.req = c /\ SubmitOrQueue(e) /\ e.op # "accept"
          /\ e.op = reqs'[c].operation /\ e.fd = reqs'[c].fd
          /\ \A r \in Reqs \ {c} : reqs'[r] = reqs[r]
    BY <1>4, ReceivePlaces
  <2> QED  BY <2>1, <2>2, ReusedStep
<1>6. CASE SlicePanic
  BY <1>6, QuietStep DEF SlicePanic, Handling, Running, pool, ring
<1>7. CASE HandleClose
  <2>1. /\ pc = "handle" /\ todo > 0 /\ NextCompletion
        /\ reqs[Completion.req].operation = "close"
        /\ free' = free \cup {Completion.req}
        /\ UNCHANGED <<sq, inflight, queue, reqs>>
    BY <1>7 DEF HandleClose, Handling
  <2>2. Completion.req \in ConnReqs
    BY <2>1, CompletionTaken DEF DispatchInv, ListenerInv, ConnReqs
  <2> QED  BY <2>1, <2>2, TakenStep
<1> QED  BY <1>1, <1>2, <1>3, <1>4, <1>6, <1>7 DEF Handler

(* The process unwinds: only the overflow queue keeps its contents.          *)
LEMMA UnwindDispatch ==
  ASSUME DispatchInv, Unwind
  PROVE  DispatchInv'
<1>1. /\ DOMAIN sq' = {} /\ DOMAIN cq' = {} /\ inflight' = {}
      /\ free' = free \cup {AcceptReq} /\ pc' = "exit"
      /\ UNCHANGED <<reqs, queue>>
  BY DEF Unwind
<1>2. OneOpInv'
  <2>1. \A r \in Reqs : Once(queue, r)'
    BY <1>1, Unmoved DEF DispatchInv, OneOpInv
  <2>2. ASSUME NEW r \in ConnReqs
        PROVE  OneOp(r)'
    <3>1. ~Prepared(r)' /\ ~InKernel(r)' /\ ~Completed(r)' /\ (Queued(r)' <=> Queued(r))
      BY <1>1, Unmoved DEF Prepared, InKernel, Completed
    <3>2. r \in free' => r \in free
      BY <1>1 DEF ConnReqs
    <3> QED  BY <1>1, <3>1, <3>2 DEF DispatchInv, OneOpInv, OneOp, OnceReq
  <2> QED  BY <2>1, <2>2 DEF OneOpInv
<1>3. FaithfulInv' /\ ListenerInv'
  BY <1>1 DEF DispatchInv, FaithfulInv, ListenerInv, Running
<1> QED  BY <1>2, <1>3 DEF DispatchInv

LEMMA KernelDispatch ==
  ASSUME TypeInv, DispatchInv, Kernel
  PROVE  DispatchInv'
<1>0. 0 \in 0..BufSize
  BY ConstantsOK
<1>1. ASSUME NEW f \in FD, AcceptDone(f)
      PROVE  DispatchInv'
  BY <1>1, AcceptCompleted DEF AcceptDone, Running, pool
<1>2. CASE AcceptFails
  BY <1>2, AcceptCompleted DEF AcceptFails, Running, pool
<1>3. ASSUME NEW e \in inflight, RecvDone(e)
      PROVE  DispatchInv'
  <2>1. e.start \in 0..BufSize
    BY DEF TypeInv, TypeOK, Sqe
  <2>2. PICK n \in RecvResults(sock[e.fd], BufSize - e.start) : cq' = Append(cq, Cqe(e, TRUE, e.fd, n))
    BY <1>3 DEF RecvDone
  <2>3. n \in 0..BufSize
    BY <2>1, ConstantsOK DEF RecvResults
  <2>4. inflight' = inflight \ {e} /\ UNCHANGED <<sq, queue, free, reqs>> /\ (Running' => Running)
    BY <1>3 DEF RecvDone, Running, pool
  <2> QED  BY <2>2, <2>3, <2>4, AnswerStep
<1>4. ASSUME NEW e \in inflight, CloseDone(e)
      PROVE  DispatchInv'
  <2>1. PICK ok \in BOOLEAN : cq' = Append(cq, Cqe(e, ok, e.fd, 0))
    BY <1>4 DEF CloseDone
  <2>2. inflight' = inflight \ {e} /\ UNCHANGED <<sq, queue, free, reqs>> /\ (Running' => Running)
    BY <1>4 DEF CloseDone, Running, pool
  <2> QED  BY <1>0, <2>1, <2>2, AnswerStep
<1>5. ASSUME NEW e \in inflight, RecvFails(e)
      PROVE  DispatchInv'
  <2>1. /\ cq' = Append(cq, Cqe(e, FALSE, e.fd, 0)) /\ FALSE \in BOOLEAN
        /\ inflight' = inflight \ {e} /\ UNCHANGED <<sq, queue, free, reqs>> /\ (Running' => Running)
    BY <1>5 DEF RecvFails, Running, pool
  <2> QED  BY <1>0, <2>1, AnswerStep
<1> QED  BY <1>1, <1>2, <1>3, <1>4, <1>5 DEF Kernel

LEMMA DispatchInvStep ==
  ASSUME TypeInv, QueueInv, DispatchInv, [Next]_vars
  PROVE  DispatchInv'
<1>1. CASE LoopTop
  <2>1. CASE RearmAccept
    BY <2>1, AcceptPrepared DEF RearmAccept, Running, pool
  <2>2. CASE NothingQueued \/ BeginDrain \/ EndDrain \/ Shutdown
    BY <2>2, QuietStep DEF NothingQueued, BeginDrain, EndDrain, Shutdown, Running, pool, ring
  <2>3. CASE Drain
    BY <2>3, DrainStep
  <2>4. CASE Unwind
    BY <2>4, UnwindDispatch
  <2> QED  BY <1>1, <2>1, <2>2, <2>3, <2>4 DEF LoopTop
<1>2. CASE SystemCall
  <2>1. CASE EnterKernel \/ Reap \/ Interrupted
    BY <2>1, QuietStep DEF EnterKernel, Reap, Interrupted, Running, pool, ring
  <2>2. CASE Submit
    BY <2>2, SubmitStep
  <2> QED  BY <1>2, <2>1, <2>2 DEF SystemCall
<1>3. CASE Handler
  BY <1>3, HandlerDispatch
<1>4. CASE Kernel
  BY <1>4, KernelDispatch
<1>5. CASE Clients \/ Signal
  BY <1>5, QuietStep DEF Clients, Signal, PeerConnect, PeerSend, PeerFinish, Running, pool, ring
<1>6. CASE UNCHANGED vars
  BY <1>6, QuietStep DEF vars, Running, pool, ring
<1> QED  BY <1>1, <1>2, <1>3, <1>4, <1>5, <1>6 DEF Next, Server

LEMMA DispatchInvHolds == Spec => []DispatchInv
<1>1. TypeInv /\ QueueInv /\ DispatchInv /\ [Next]_vars => DispatchInv'
  BY DispatchInvStep
<1> QED  BY InitDispatchInv, TypeInvHolds, QueueInvHolds, <1>1, PTL DEF Spec

(* No request is in two places, whatever the depth of the ring, the size of  *)
(* the pool and the errors of the kernel.                                    *)
THEOREM RequestsAreSingle == Spec => []SingleOp
<1>1. TypeInv /\ DispatchInv => SingleOp
  <2> SUFFICES ASSUME TypeInv, DispatchInv PROVE SingleOp
    OBVIOUS
  <2>1. ASSUME NEW i \in DOMAIN queue, NEW j \in DOMAIN queue, queue[i] = queue[j]
        PROVE  i = j
    <3>1. queue[i] \in Reqs
      BY DEF TypeInv, TypeOK
    <3> QED  BY <2>1, <3>1 DEF DispatchInv, OneOpInv, Once
  <2>2. \A r \in ConnReqs : OneOp(r)
    BY DEF DispatchInv, OneOpInv
  <2> QED  BY <2>1, <2>2 DEF SingleOp, OneOp, OnceReq, Outstanding
<1> QED  BY TypeInvHolds, DispatchInvHolds, <1>1, PTL

(* Every completion is handled as what was submitted.                        *)
THEOREM DispatchIsFaithful == Spec => []DispatchMatches
<1>1. TypeInv /\ DispatchInv => DispatchMatches
  <2> SUFFICES ASSUME TypeInv, DispatchInv PROVE DispatchMatches
    OBVIOUS
  <2>1. ASSUME NEW e \in inflight
        PROVE  e.op = reqs[e.req].operation /\ e.fd = reqs[e.req].fd
    <3>1. e.req \in Reqs /\ e.req # AcceptReq /\ Faithful(e, reqs)
      BY DEF TypeInv, TypeOK, Sqe, DispatchInv, ListenerInv, FaithfulInv
    <3> QED  BY <3>1 DEF Faithful, DispatchInv, ListenerInv
  <2> QED  BY <2>1 DEF DispatchMatches, DispatchInv, FaithfulInv, Faithful
<1> QED  BY TypeInvHolds, DispatchInvHolds, <1>1, PTL

-----------------------------------------------------------------------------
(* The server keeps accepting.                                               *)

(* An accept is somewhere, or stop_accept says that one is owed; and the     *)
(* loop sees none of them fail.                                              *)
Listening ==
  \/ accepting > 0
  \/ Prepared(AcceptReq) \/ Queued(AcceptReq) \/ Completed(AcceptReq)
  \/ stop_accept = TRUE

ListeningInv ==
  "accept" \notin Faults =>
    /\ Running => Listening
    /\ \A i \in DOMAIN cq : cq[i].req = AcceptReq => cq[i].ok = TRUE

LEMMA SubmitKeeps ==
  ASSUME TypeOK, NEW e \in Sqe, SubmitOrQueue(e)
  PROVE  /\ stop_accept = TRUE => stop_accept' = TRUE
         /\ \A r : (Prepared(r) => Prepared(r)') /\ (Queued(r) => Queued(r)')
<1>1. CASE HasRoom /\ sq' = Append(sq, e) /\ UNCHANGED <<queue, stop_accept>>
  BY <1>1, SqAppended, Unmoved
<1>2. CASE ~HasRoom /\ PushToQueue(e.req) /\ UNCHANGED sq
  <2>1. e.req \in Reqs /\ queue' = Append(queue, e.req) /\ stop_accept' = TRUE
    BY <1>2 DEF Sqe, PushToQueue
  <2> QED  BY <1>2, <2>1, QueueAppended, Unmoved
<1> QED  BY <1>1, <1>2 DEF SubmitOrQueue

(* A handler that sees an accept arms another or leaves that to the top.     *)
LEMMA HandlerKeepsListening ==
  ASSUME TypeInv, QueueInv, DispatchInv, Handler, ~SlicePanic,
         \A i \in DOMAIN cq : cq[i].req = AcceptReq => cq[i].ok = TRUE
  PROVE  /\ stop_accept = TRUE => stop_accept' = TRUE
         /\ Prepared(AcceptReq) => Prepared(AcceptReq)'
         /\ Queued(AcceptReq) => Queued(AcceptReq)'
         /\ Completion.req = AcceptReq =>
               Prepared(AcceptReq)' \/ Queued(AcceptReq)' \/ stop_accept' = TRUE
<1>0. TypeOK /\ todo > 0 /\ NextCompletion
  BY DEF TypeInv, Handler, HandleError, RejectConnection, AcceptConnection, ReceiveEof,
         ReceiveData, HandleClose, Handling
<1>1. CASE HandleError
  <2>1. Completion.req # AcceptReq
    <3>1. cq # <<>> /\ cq' = Tail(cq)
      BY <1>0 DEF TypeOK, NextCompletion
    <3>2. \E j \in DOMAIN cq : Completion = cq[j]
      BY <1>0, <3>1, CqRemoved DEF Completion
    <3> QED  BY <1>1, <3>2 DEF HandleError
  <2>2. UNCHANGED <<sq, queue, stop_accept>>
    BY <1>1 DEF HandleError
  <2> QED  BY <2>1, <2>2, Unmoved
<1>2. CASE RejectConnection
  BY <1>2, Unmoved DEF RejectConnection
<1>3. ASSUME NEW r \in Reqs, AcceptConnection(r)
      PROVE  /\ stop_accept = TRUE => stop_accept' = TRUE
             /\ Prepared(AcceptReq) => Prepared(AcceptReq)'
             /\ Queued(AcceptReq) => Queued(AcceptReq)'
             /\ Prepared(AcceptReq)' \/ stop_accept' = TRUE
  <2> DEFINE recv   == RecvSqe(r, Completion.fd, 0)
             accept == AcceptSqe(AcceptReq)
  <2>1. recv \in Sqe /\ accept \in Sqe /\ accept.req = AcceptReq /\ AcceptReq \in Reqs
    <3>1. Completion.fd \in FD \cup {ListenFd} /\ 0 \in 0..BufSize
      BY <1>0, CompletionType, ConstantsOK
    <3> QED  BY <3>1, SqeTypes, AcceptSqeType, ConstantsOK DEF AcceptSqe
  <2>2. Completion.req = AcceptReq
    BY <1>0, <1>3, CompletionTaken DEF AcceptConnection, Handling, DispatchInv, ListenerInv
  <2>3. \/ sq' = sq /\ queue' = Append(queue, r) /\ stop_accept' = TRUE
        \/ sq' = Append(sq, recv) /\ queue' = queue /\ stop_accept /\ stop_accept' = stop_accept
        \/ sq' = Append(Append(sq, recv), accept) /\ queue' = queue /\ stop_accept' = stop_accept
        \/ sq' = Append(sq, recv) /\ queue' = Append(queue, AcceptReq) /\ stop_accept' = TRUE
    BY <1>3, <2>2 DEF AcceptConnection, PushToQueue
  <2> HIDE DEF recv, accept
  <2>4. CASE sq' = sq /\ queue' = Append(queue, r) /\ stop_accept' = TRUE
    BY <1>0, <2>4, QueueAppended, Unmoved
  <2>5. CASE sq' = Append(sq, recv) /\ queue' = queue /\ stop_accept /\ stop_accept' = stop_accept
    <3>1. stop_accept = TRUE
      BY <1>0, <2>5 DEF TypeOK
    <3> QED  BY <1>0, <2>1, <2>5, <3>1, SqAppended, Unmoved
  <2>6. CASE sq' = Append(Append(sq, recv), accept) /\ queue' = queue /\ stop_accept' = stop_accept
    <3> DEFINE s == Append(sq, recv)
    <3>1. s \in Seq(Sqe) /\ sq' = Append(s, accept)
      BY <1>0, <2>1, <2>6 DEF TypeOK
    <3> HIDE DEF s
    <3>2. Prepared(AcceptReq)'
      BY <2>1, <3>1, ReqAppended DEF Prepared, HasReq
    <3> QED  BY <2>6, <3>2, Unmoved
  <2>7. CASE sq' = Append(sq, recv) /\ queue' = Append(queue, AcceptReq) /\ stop_accept' = TRUE
    BY <1>0, <2>1, <2>7, SqAppended, QueueAppended
  <2> QED  BY <2>3, <2>4, <2>5, <2>6, <2>7
<1>4. ASSUME NEW e \in Sqe, SubmitOrQueue(e), Completion.req # AcceptReq
      PROVE  /\ stop_accept = TRUE => stop_accept' = TRUE
             /\ Prepared(AcceptReq) => Prepared(AcceptReq)'
             /\ Queued(AcceptReq) => Queued(AcceptReq)'
  BY <1>0, <1>4, SubmitKeeps
<1>5. reqs[Completion.req].operation # "accept" => Completion.req # AcceptReq
  BY ConstantsOK DEF DispatchInv, ListenerInv
<1>6. CASE ReceiveEof
  <2>1. reqs[Completion.req].operation = "recv"
        /\ SubmitOrQueue(CloseSqe(Completion.req, reqs[Completion.req].fd))
    BY <1>6 DEF ReceiveEof, Handling
  <2>2. Completion.req \in Reqs /\ reqs[Completion.req].fd \in FD \cup {ListenFd} /\ 0 \in 0..BufSize
    BY <1>0, CompletionType, ConstantsOK DEF TypeOK
  <2>3. CloseSqe(Completion.req, reqs[Completion.req].fd) \in Sqe
    BY <2>2, SqeTypes
  <2> QED  BY <1>4, <1>5, <2>1, <2>3
<1>7. CASE ReceiveData
  <2>1. reqs[Completion.req].operation = "recv"
        /\ SubmitOrQueue(RecvSqe(Completion.req, reqs[Completion.req].fd, NextPosition))
    BY <1>7 DEF ReceiveData, Handling
  <2>2. /\ Completion.req \in Reqs /\ reqs[Completion.req].fd \in FD \cup {ListenFd}
        /\ reqs[Completion.req].position \in 0..(BufSize - 1) /\ Completion.n \in 0..BufSize
    BY <1>0, CompletionType DEF TypeOK
  <2>3. NextPosition \in 0..BufSize
    BY <2>2, ConstantsOK DEF NextPosition, NewPosition
  <2>4. RecvSqe(Completion.req, reqs[Completion.req].fd, NextPosition) \in Sqe
    BY <2>2, <2>3, SqeTypes
  <2> QED  BY <1>4, <1>5, <2>1, <2>4
<1>8. CASE HandleClose
  <2>1. reqs[Completion.req].operation = "close" /\ UNCHANGED <<sq, queue, stop_accept>>
    BY <1>8 DEF HandleClose, Handling
  <2> QED  BY <1>5, <2>1, Unmoved
<1> QED  BY <1>1, <1>2, <1>3, <1>6, <1>7, <1>8 DEF Handler

LEMMA ListeningInvStep ==
  ASSUME TypeInv, QueueInv, DispatchInv, ListeningInv, [Next]_vars
  PROVE  ListeningInv'
<1> SUFFICES ASSUME "accept" \notin Faults
             PROVE  /\ Running' => Listening'
                    /\ \A i \in DOMAIN cq' : cq'[i].req = AcceptReq => cq'[i].ok = TRUE
  BY DEF ListeningInv
<1>0. /\ TypeOK
      /\ Running => Listening
      /\ \A i \in DOMAIN cq : cq[i].req = AcceptReq => cq[i].ok = TRUE
  BY DEF TypeInv, ListeningInv
<1>1. ASSUME UNCHANGED <<sq, queue, cq, accepting, stop_accept>>, Running' => Running
      PROVE  /\ Running' => Listening'
             /\ \A i \in DOMAIN cq' : cq'[i].req = AcceptReq => cq'[i].ok = TRUE
  BY <1>0, <1>1, Unmoved DEF Listening
<1>2. CASE LoopTop
  <2>1. CASE RearmAccept
    <3>1. sq' = Append(sq, AcceptSqe(AcceptReq)) /\ UNCHANGED cq
      BY <2>1 DEF RearmAccept
    <3>2. Prepared(AcceptReq)'
      BY <1>0, <3>1, AcceptSqeType, SqAppended DEF AcceptSqe
    <3> QED  BY <1>0, <3>1, <3>2 DEF Listening
  <2>2. CASE NothingQueued \/ BeginDrain \/ Shutdown
    BY <1>1, <2>2 DEF NothingQueued, BeginDrain, Shutdown, Running, pool, ring
  <2>3. CASE EndDrain
    <3>1. /\ UNCHANGED <<sq, queue, cq, accepting>> /\ Running
          /\ stop_accept = TRUE => stop_accept' = TRUE
      BY <2>3 DEF EndDrain, Running, ring
    <3> QED  BY <1>0, <3>1, Unmoved DEF Listening
  <2>4. CASE Drain
    <3>1. /\ sq' = Append(sq, DrainSqe(Head(queue))) /\ queue # <<>> /\ queue' = Tail(queue)
          /\ UNCHANGED <<cq, accepting, stop_accept>> /\ Running
      BY <2>4 DEF Drain, Running
    <3>2. /\ DrainSqe(Head(queue)) \in Sqe
          /\ DrainSqe(Head(queue)).req = Head(queue)
      <4>1. reqs[Head(queue)].operation \in ReqOperation
        BY <1>0, <3>1 DEF TypeOK, TypeInv, QueuedOps
      <4> QED  BY <3>1, <4>1, DrainSqeType DEF DrainSqe, AcceptSqe, RecvSqe, CloseSqe, ReqOperation
    <3>3. Prepared(AcceptReq) => Prepared(AcceptReq)'
      BY <1>0, <3>1, <3>2, SqAppended
    <3>4. Queued(AcceptReq) => Queued(AcceptReq)' \/ Prepared(AcceptReq)'
      <4>1. Queued(AcceptReq) => Queued(AcceptReq)' \/ Head(queue) = AcceptReq
        BY <1>0, <3>1, QueueRemoved
      <4>2. Head(queue) = AcceptReq => Prepared(AcceptReq)'
        BY <1>0, <3>1, <3>2, SqAppended
      <4> QED  BY <4>1, <4>2
    <3>5. Completed(AcceptReq)' <=> Completed(AcceptReq)
      BY <3>1, Unmoved
    <3> QED  BY <1>0, <3>1, <3>3, <3>4, <3>5 DEF Listening
  <2>5. CASE Unwind
    BY <2>5 DEF Unwind, Running
  <2> QED  BY <1>2, <2>1, <2>2, <2>3, <2>4, <2>5 DEF LoopTop
<1>3. CASE SystemCall
  <2>1. CASE EnterKernel \/ Reap \/ Interrupted
    BY <1>1, <2>1 DEF EnterKernel, Reap, Interrupted, Running, pool, ring
  <2>2. CASE Submit
    <3>1. /\ sq # <<>> /\ sq' = Tail(sq) /\ UNCHANGED <<queue, cq, stop_accept>> /\ Running
          /\ accepting' = IF Head(sq).op = "accept" THEN accepting + 1 ELSE accepting
      BY <2>2 DEF Submit, Running
    <3>2. accepting \in Nat
      BY <1>0 DEF TypeOK
    <3>3. Prepared(AcceptReq) => Prepared(AcceptReq)' \/ Head(sq).req = AcceptReq
      BY <1>0, <3>1, SqRemoved
    <3>4. Head(sq).req = AcceptReq => Head(sq).op = "accept"
      <4>1. PICK j \in DOMAIN sq : Head(sq) = sq[j]
        BY <1>0, <3>1, SqRemoved
      <4> QED  BY <4>1, ConstantsOK DEF DispatchInv, FaithfulInv, Faithful, ListenerInv
    <3>5. Head(sq).req = AcceptReq => accepting' > 0
      BY <3>1, <3>2, <3>4
    <3>6. accepting > 0 => accepting' > 0
      BY <3>1, <3>2
    <3>7. (Queued(AcceptReq)' <=> Queued(AcceptReq)) /\ (Completed(AcceptReq)' <=> Completed(AcceptReq))
      BY <3>1, Unmoved
    <3> QED  BY <1>0, <3>1, <3>3, <3>5, <3>6, <3>7 DEF Listening
  <2> QED  BY <1>3, <2>1, <2>2 DEF SystemCall
<1>4. CASE Handler
  <2>1. CASE SlicePanic
    BY <1>1, <2>1 DEF SlicePanic, Handling, Running, pool, ring
  <2>2. CASE Handler /\ ~SlicePanic
    <3>1. /\ todo > 0 /\ NextCompletion /\ pc = "handle" /\ accepting' = accepting
      BY <2>2 DEF Handler, HandleError, RejectConnection, AcceptConnection, ReceiveEof,
                  ReceiveData, HandleClose, Handling
    <3>2. \A i \in DOMAIN cq' : cq'[i].req = AcceptReq => cq'[i].ok = TRUE
      <4>1. \A i \in DOMAIN cq' : \E j \in DOMAIN cq : cq'[i] = cq[j]
        BY <3>1, CompletionTaken
      <4> QED  BY <1>0, <4>1
    <3>3. /\ stop_accept = TRUE => stop_accept' = TRUE
          /\ Prepared(AcceptReq) => Prepared(AcceptReq)'
          /\ Queued(AcceptReq) => Queued(AcceptReq)'
          /\ Completion.req = AcceptReq =>
                Prepared(AcceptReq)' \/ Queued(AcceptReq)' \/ stop_accept' = TRUE
      BY <1>0, <2>2, HandlerKeepsListening
    <3>4. Completed(AcceptReq) => Completed(AcceptReq)' \/ Completion.req = AcceptReq
      BY <3>1, CompletionTaken
    <3>5. Running
      BY <3>1 DEF Running
    <3> QED  BY <1>0, <3>1, <3>2, <3>3, <3>4, <3>5 DEF Listening
  <2> QED  BY <1>4, <2>1, <2>2
<1>5. CASE Kernel
  <2>1. ASSUME NEW c \in CqeSet, cq' = Append(cq, c), c.req = AcceptReq => c.ok = TRUE,
               UNCHANGED <<sq, queue, stop_accept>>, Running' => Running,
               accepting' = accepting \/ c.req = AcceptReq
        PROVE  /\ Running' => Listening'
               /\ \A i \in DOMAIN cq' : cq'[i].req = AcceptReq => cq'[i].ok = TRUE
    <3>1. /\ \A r : Completed(r)' <=> Completed(r) \/ c.req = r
          /\ \A i \in DOMAIN cq' : cq'[i] = c \/ \E j \in DOMAIN cq : cq'[i] = cq[j]
      BY <1>0, <2>1, CqAppended
    <3>2. (Prepared(AcceptReq)' <=> Prepared(AcceptReq)) /\ (Queued(AcceptReq)' <=> Queued(AcceptReq))
      BY <2>1, Unmoved
    <3> QED  BY <1>0, <2>1, <3>1, <3>2 DEF Listening
  <2>2. 0 \in 0..BufSize
    BY ConstantsOK
  <2>3. ASSUME NEW f \in FD, AcceptDone(f)
        PROVE  /\ Running' => Listening'
               /\ \A i \in DOMAIN cq' : cq'[i].req = AcceptReq => cq'[i].ok = TRUE
    <3> DEFINE c == Cqe(AcceptSqe(AcceptReq), TRUE, f, 0)
    <3>1. c \in CqeSet /\ c.req = AcceptReq /\ c.ok = TRUE
      BY <2>2, AcceptSqeType, CqeType DEF Cqe, AcceptSqe
    <3>2. cq' = Append(cq, c) /\ UNCHANGED <<sq, queue, stop_accept>> /\ (Running' => Running)
      BY <2>3 DEF AcceptDone, Running
    <3> HIDE DEF c
    <3> QED  BY <2>1, <3>1, <3>2
  <2>4. ~AcceptFails
    BY DEF AcceptFails
  <2>5. ASSUME NEW e \in inflight, RecvDone(e) \/ CloseDone(e) \/ RecvFails(e)
        PROVE  /\ Running' => Listening'
               /\ \A i \in DOMAIN cq' : cq'[i].req = AcceptReq => cq'[i].ok = TRUE
    <3>1. /\ e \in Sqe /\ e.fd \in FD \cup {ListenFd} /\ e.start \in 0..BufSize
          /\ e.req # AcceptReq
      BY <1>0 DEF TypeOK, Sqe, DispatchInv, ListenerInv
    <3>2. \E ok \in BOOLEAN, n \in 0..BufSize : cq' = Append(cq, Cqe(e, ok, e.fd, n))
      <4>1. CASE RecvDone(e)
        <5>1. PICK n \in RecvResults(sock[e.fd], BufSize - e.start) : cq' = Append(cq, Cqe(e, TRUE, e.fd, n))
          BY <4>1 DEF RecvDone
        <5>2. n \in 0..BufSize
          BY <3>1, ConstantsOK DEF RecvResults
        <5> QED  BY <5>1, <5>2
      <4>2. CASE CloseDone(e)
        BY <2>2, <4>2 DEF CloseDone
      <4>3. CASE RecvFails(e)
        BY <2>2, <4>3 DEF RecvFails
      <4> QED  BY <2>5, <4>1, <4>2, <4>3
    <3>3. PICK ok \in BOOLEAN, n \in 0..BufSize : cq' = Append(cq, Cqe(e, ok, e.fd, n))
      BY <3>2
    <3> DEFINE c == Cqe(e, ok, e.fd, n)
    <3>4. c \in CqeSet /\ c.req # AcceptReq
      BY <3>1, CqeType DEF Cqe
    <3>5. cq' = Append(cq, c)
      BY <3>3
    <3> HIDE DEF c
    <3>6. UNCHANGED <<sq, queue, stop_accept, accepting>> /\ (Running' => Running)
      BY <2>5 DEF RecvDone, CloseDone, RecvFails, Running
    <3> QED  BY <2>1, <3>4, <3>5, <3>6
  <2> QED  BY <1>5, <2>3, <2>4, <2>5 DEF Kernel
<1>6. CASE Clients \/ Signal
  BY <1>1, <1>6 DEF Clients, Signal, PeerConnect, PeerSend, PeerFinish, Running, pool, ring
<1>7. CASE UNCHANGED vars
  BY <1>1, <1>7 DEF vars, Running, pool, ring
<1> QED  BY <1>2, <1>3, <1>4, <1>5, <1>6, <1>7 DEF Next, Server

LEMMA ListeningInvHolds == Spec => []ListeningInv
<1>1. Init => ListeningInv
  <2> SUFFICES ASSUME Init PROVE ListeningInv
    OBVIOUS
  <2>1. DOMAIN sq = {1} /\ sq[1].req = AcceptReq /\ DOMAIN cq = {}
    BY DEF Init, AcceptSqe
  <2> QED  BY <2>1 DEF ListeningInv, Listening, Prepared
<1>2. TypeInv /\ QueueInv /\ DispatchInv /\ ListeningInv /\ [Next]_vars => ListeningInv'
  BY ListeningInvStep
<1> QED  BY <1>1, <1>2, TypeInvHolds, QueueInvHolds, DispatchInvHolds, PTL DEF Spec

(* Something of a sequence is counted.                                       *)
LEMMA CountPositive ==
  ASSUME NEW S, NEW s \in Seq(S), NEW T \in SUBSET DOMAIN s
  PROVE  Cardinality(T) \in Nat /\ (T # {} => Cardinality(T) > 0)
<1>1. IsFiniteSet(1..Len(s)) /\ DOMAIN s = 1..Len(s)
  BY FS_Interval
<1>2. IsFiniteSet(T)
  BY <1>1, FS_Subset
<1> QED  BY <1>2, FS_CardinalityType, FS_EmptySet

(* As long as no accept fails, the server never stops listening for good.    *)
THEOREM NeverDeaf == Spec => []AcceptNotLost
<1>1. TypeInv /\ DispatchInv /\ ListeningInv => AcceptNotLost
  <2> SUFFICES ASSUME TypeInv, DispatchInv, ListeningInv, "accept" \notin Faults, Running,
                      ~Completed(AcceptReq), stop_accept # TRUE
               PROVE  ArmedAccepts > 0
    BY DEF AcceptNotLost, TypeInv, TypeOK
  <2>1. accepting > 0 \/ Prepared(AcceptReq) \/ Queued(AcceptReq)
    BY DEF ListeningInv, Listening
  <2>2. accepting \in Nat /\ sq \in Seq(Sqe) /\ queue \in Seq(Reqs)
    BY DEF TypeInv, TypeOK
  <2> DEFINE A == {i \in DOMAIN sq : sq[i].op = "accept"}
             Q == {i \in DOMAIN queue : queue[i] = AcceptReq}
  <2>3. Cardinality(A) \in Nat /\ (A # {} => Cardinality(A) > 0)
    BY <2>2, CountPositive
  <2>4. Cardinality(Q) \in Nat /\ (Q # {} => Cardinality(Q) > 0)
    BY <2>2, CountPositive
  <2>5. Prepared(AcceptReq) => A # {}
    BY ConstantsOK DEF Prepared, DispatchInv, FaithfulInv, Faithful, ListenerInv
  <2>6. Queued(AcceptReq) => Q # {}
    BY DEF Queued
  <2>7. ArmedAccepts = accepting + Cardinality(A) + Cardinality(Q)
    BY DEF ArmedAccepts
  <2> HIDE DEF A, Q
  <2> QED  BY <2>1, <2>2, <2>3, <2>4, <2>5, <2>6, <2>7
<1> QED  BY <1>1, TypeInvHolds, DispatchInvHolds, ListeningInvHolds, PTL

-----------------------------------------------------------------------------
(* SleepsOnlyWhenFull.                                                       *)

(* What the loop hands to the kernel moves from place to place until it is   *)
(* completed.  The drain leaves requests in the queue only when it has       *)
(* filled the submission queue.                                              *)
HandedOver == Len(sq) + accepting + Cardinality(inflight) + Len(cq)

FullInv ==
  /\ IsFiniteSet(inflight)
  /\ pc \in {"enter", "kernel"} /\ queue # <<>> => HandedOver >= SqDepth

(* A request is handed over once: its entry is new to the kernel.            *)
LEMMA SubmittedIsNew ==
  ASSUME TypeInv, DispatchInv, sq # <<>>, sq' = Tail(sq), Head(sq).op # "accept"
  PROVE  Head(sq) \notin inflight
<1>1. PICK j \in DOMAIN sq : Head(sq) = sq[j]
  BY SqRemoved DEF TypeInv
<1>2. sq[j] \in Sqe
  BY DEF TypeInv, TypeOK
<1>3. sq[j].req \in ConnReqs
  BY <1>1, <1>2 DEF Sqe, DispatchInv, FaithfulInv, Faithful, ListenerInv, ConnReqs
<1>4. Prepared(sq[j].req) => ~InKernel(sq[j].req)
  BY <1>3 DEF DispatchInv, OneOpInv, OneOp
<1>5. Prepared(sq[j].req)
  BY DEF Prepared
<1> QED  BY <1>1, <1>4, <1>5 DEF InKernel

LEMMA FullInvStep ==
  ASSUME TypeInv, DispatchInv, FullInv, [Next]_vars
  PROVE  FullInv'
<1>0. /\ IsFiniteSet(inflight) /\ Cardinality(inflight) \in Nat
      /\ Len(sq) \in Nat /\ Len(cq) \in Nat /\ accepting \in Nat /\ SqDepth \in Nat
      /\ sq \in Seq(Sqe) /\ cq \in Seq(CqeSet)
  BY FS_CardinalityType, ConstantsOK DEF FullInv, TypeInv, TypeOK
<1>1. ASSUME UNCHANGED <<pc, queue, sq, accepting, inflight, cq>>
      PROVE  FullInv'
  BY <1>1 DEF FullInv, HandedOver
<1>2. ASSUME UNCHANGED inflight, pc' \notin {"enter", "kernel"}
      PROVE  FullInv'
  BY <1>0, <1>2 DEF FullInv
<1>3. CASE LoopTop
  <2>1. CASE RearmAccept \/ NothingQueued
    BY <1>0, <2>1 DEF RearmAccept, NothingQueued, RearmDue, FullInv, ring
  <2>2. CASE BeginDrain \/ Drain \/ Shutdown
    BY <1>2, <2>2 DEF BeginDrain, Drain, Shutdown, ring
  <2>3. CASE EndDrain
    <3>1. /\ UNCHANGED <<queue, sq, accepting, inflight, cq>>
          /\ queue # <<>> => ~(SqDepth - Len(sq) > 0)
      BY <2>3 DEF EndDrain, HasRoom, Remaining, ring
    <3>2. queue # <<>> => HandedOver >= SqDepth
      BY <1>0, <3>1 DEF HandedOver
    <3> QED  BY <1>0, <3>1, <3>2 DEF FullInv, HandedOver
  <2>4. CASE Unwind
    BY <2>4, FS_EmptySet DEF Unwind, FullInv
  <2> QED  BY <1>3, <2>1, <2>2, <2>3, <2>4 DEF LoopTop
<1>4. CASE SystemCall
  <2>1. CASE EnterKernel
    BY <2>1 DEF EnterKernel, FullInv, HandedOver, ring
  <2>2. CASE Reap \/ Interrupted
    BY <1>2, <2>2 DEF Reap, Interrupted, ring
  <2>3. CASE Submit
    <3>1. sq # <<>> /\ sq' = Tail(sq) /\ UNCHANGED <<pc, queue, cq>>
      BY <2>3 DEF Submit
    <3>2. Len(sq') = Len(sq) - 1 /\ Len(sq) > 0
      BY <1>0, <3>1
    <3>3. CASE Head(sq).op = "accept"
      <4>1. accepting' = accepting + 1 /\ inflight' = inflight
        BY <2>3, <3>3 DEF Submit
      <4>2. HandedOver' = HandedOver
        BY <1>0, <3>1, <3>2, <4>1 DEF HandedOver
      <4> QED  BY <3>1, <4>1, <4>2 DEF FullInv
    <3>4. CASE Head(sq).op # "accept"
      <4>1. accepting' = accepting /\ inflight' = inflight \cup {Head(sq)}
        BY <2>3, <3>4 DEF Submit
      <4>2. IsFiniteSet(inflight') /\ Cardinality(inflight') = Cardinality(inflight) + 1
        BY <1>0, <3>1, <3>4, <4>1, SubmittedIsNew, FS_AddElement
      <4>3. HandedOver' = HandedOver
        BY <1>0, <3>1, <3>2, <4>1, <4>2 DEF HandedOver
      <4> QED  BY <3>1, <4>2, <4>3 DEF FullInv
    <3> QED  BY <3>3, <3>4
  <2> QED  BY <1>4, <2>1, <2>2, <2>3 DEF SystemCall
<1>5. CASE Handler
  BY <1>2, <1>5 DEF Handler, HandleError, RejectConnection, AcceptConnection, ReceiveEof, ReceiveData,
    SlicePanic, HandleClose, NextCompletion, ring
<1>6. CASE Kernel
  <2>1. ASSUME NEW c, cq' = Append(cq, c), UNCHANGED <<pc, queue, sq>>, IsFiniteSet(inflight'),
               accepting' + Cardinality(inflight') = accepting + Cardinality(inflight) - 1,
               accepting' \in Nat
        PROVE  FullInv'
    <3>1. Len(cq') = Len(cq) + 1 /\ Len(sq') = Len(sq)
      BY <1>0, <2>1
    <3>2. Cardinality(inflight') \in Nat
      BY <2>1, FS_CardinalityType
    <3> DEFINE s == Len(sq)         l == Len(cq)
               a == accepting       b == accepting'
               m == Cardinality(inflight)
               n == Cardinality(inflight')
    <3>3. s \in Nat /\ l \in Nat /\ a \in Nat /\ m \in Nat
      BY <1>0
    <3>4. b \in Nat /\ n \in Nat
      BY <2>1, <3>2
    <3>5. b + n = a + m - 1
      BY <2>1
    <3> HIDE DEF s, l, a, b, m, n
    <3>6. s + b + n + (l + 1) = s + a + m + l
      BY <3>3, <3>4, <3>5
    <3>7. HandedOver' = HandedOver
      BY <3>1, <3>6 DEF HandedOver, s, l, a, b, m, n
    <3> QED  BY <2>1, <3>7 DEF FullInv
  <2>2. CASE (\E f \in FD : AcceptDone(f)) \/ AcceptFails
    <3>1. /\ accepting > 0 /\ accepting' = accepting - 1
          /\ UNCHANGED <<pc, queue, sq, inflight>>
          /\ \E c : cq' = Append(cq, c)
      BY <2>2 DEF AcceptDone, AcceptFails
    <3>2. accepting' \in Nat
      BY <1>0, <3>1
    <3> QED  BY <1>0, <2>1, <3>1, <3>2
  <2>3. ASSUME NEW e \in inflight, RecvDone(e) \/ CloseDone(e) \/ RecvFails(e)
        PROVE  FullInv'
    <3>1. /\ inflight' = inflight \ {e} /\ UNCHANGED <<pc, queue, sq, accepting>>
          /\ \E c : cq' = Append(cq, c)
      BY <2>3 DEF RecvDone, CloseDone, RecvFails
    <3>2. IsFiniteSet(inflight') /\ Cardinality(inflight') = Cardinality(inflight) - 1
      BY <1>0, <3>1, FS_RemoveElement
    <3> QED  BY <1>0, <2>1, <3>1, <3>2
  <2> QED  BY <1>6, <2>2, <2>3 DEF Kernel
<1>7. CASE Clients \/ Signal \/ UNCHANGED vars
  BY <1>1, <1>7 DEF Clients, Signal, PeerConnect, PeerSend, PeerFinish, vars, ring
<1> QED  BY <1>3, <1>4, <1>5, <1>6, <1>7 DEF Next, Server

(* The loop sleeps with requests in the overflow queue only when a whole     *)
(* submission queue of operations is with the kernel.                        *)
THEOREM SleepsFull == Spec => []SleepsOnlyWhenFull
<1>1. Init => FullInv
  BY FS_EmptySet DEF Init, FullInv
<1>2. TypeInv /\ DispatchInv /\ FullInv /\ [Next]_vars => FullInv'
  BY FullInvStep
<1>3. TypeInv /\ FullInv => SleepsOnlyWhenFull
  <2> SUFFICES ASSUME TypeInv, FullInv, Asleep, queue # <<>>
               PROVE  accepting + Cardinality(inflight) >= SqDepth
    BY DEF SleepsOnlyWhenFull
  <2>1. Len(sq) = 0 /\ Len(cq) = 0 /\ HandedOver >= SqDepth
    BY DEF Asleep, FullInv
  <2>2. accepting \in Nat /\ Cardinality(inflight) \in Nat
    BY FS_CardinalityType DEF FullInv, TypeInv, TypeOK
  <2> QED  BY <2>1, <2>2 DEF HandedOver
<1> QED  BY <1>1, <1>2, <1>3, TypeInvHolds, DispatchInvHolds, PTL DEF Spec

-----------------------------------------------------------------------------
(* ReadsWhatArrived and SliceInBounds.                                       *)

(* No recv waits in the overflow queue: nothing is drained with the start of *)
(* the buffer whatever the position of the request is.                       *)
NoRecvQueued == \A i \in DOMAIN queue : reqs[queue[i]].operation # "recv"

(* A recv fills the buffer from the position of its request, and its answer  *)
(* fits behind it.                                                           *)
InPlace(e, contents) == e.op = "recv" => e.start = contents[e.req].position

Fits(c) == c.op = "recv" /\ c.ok = TRUE => c.start + c.n <= BufSize

PlaceInv ==
  /\ pc # "panic"
  /\ \A i \in DOMAIN sq : InPlace(sq[i], reqs)
  /\ \A e \in inflight : InPlace(e, reqs)
  /\ \A i \in DOMAIN cq : InPlace(cq[i], reqs) /\ Fits(cq[i])

(* A completed recv is handled where it has filled the buffer.               *)
LEMMA InBounds ==
  ASSUME TypeInv, PlaceInv, NEW i \in DOMAIN cq, cq[i].ok, cq[i].op = "recv"
  PROVE  /\ cq[i].start = reqs[cq[i].req].position
         /\ reqs[cq[i].req].position + cq[i].n <= BufSize
<1>1. cq[i] \in CqeSet
  BY DEF TypeInv, TypeOK
<1>2. cq[i].ok = TRUE
  BY <1>1 DEF CqeSet
<1>3. cq[i].start = reqs[cq[i].req].position /\ cq[i].start + cq[i].n <= BufSize
  BY <1>2 DEF PlaceInv, InPlace, Fits
<1> QED  BY <1>3

(* Entries of other requests stay in place when one request changes.         *)
LEMMA OthersInPlace ==
  ASSUME NEW e, NEW r, e.req # r, \A q : q # r => reqs'[q] = reqs[q], InPlace(e, reqs)
  PROVE  InPlace(e, reqs')
BY DEF InPlace

LEMMA PlaceInvStep ==
  ASSUME TypeInv, QueueInv, DispatchInv, PlaceInv, NoRecvQueued, [Next]_vars
  PROVE  PlaceInv'
<1>1. ASSUME UNCHANGED <<sq, inflight, cq, reqs>>, pc' # "panic"
      PROVE  PlaceInv'
  BY <1>1 DEF PlaceInv, InPlace, Fits
<1>2. ASSUME NEW e \in Sqe, sq' = Append(sq, e), InPlace(e, reqs),
             UNCHANGED <<inflight, cq, reqs>>, pc' # "panic"
      PROVE  PlaceInv'
  BY <1>2, SqAppended DEF PlaceInv, TypeInv
<1>3. CASE LoopTop
  <2>1. CASE RearmAccept
    <3>1. InPlace(AcceptSqe(AcceptReq), reqs)
      BY DEF InPlace, AcceptSqe
    <3> QED  BY <1>2, <2>1, <3>1, AcceptSqeType DEF RearmAccept, pool
  <2>2. CASE NothingQueued \/ BeginDrain \/ EndDrain \/ Shutdown
    BY <1>1, <2>2 DEF NothingQueued, BeginDrain, EndDrain, Shutdown, pool, ring
  <2>3. CASE Drain
    <3>1. /\ sq' = Append(sq, DrainSqe(Head(queue))) /\ queue # <<>> /\ queue' = Tail(queue)
          /\ UNCHANGED <<inflight, cq, reqs>> /\ pc' # "panic"
      BY <2>3 DEF Drain, pool
    <3>2. reqs[Head(queue)].operation \in ReqOperation \ {"recv"}
      <4>1. reqs[Head(queue)].operation \in ReqOperation
        BY <3>1 DEF TypeOK, TypeInv, QueuedOps
      <4>2. 1 \in DOMAIN queue /\ Head(queue) = queue[1]
        BY <3>1 DEF TypeInv, TypeOK
      <4> QED  BY <4>1, <4>2 DEF NoRecvQueued
    <3>3. DrainSqe(Head(queue)) \in Sqe /\ DrainSqe(Head(queue)).op # "recv"
      BY <3>1, <3>2, DrainSqeType DEF DrainSqe, AcceptSqe, CloseSqe, ReqOperation
    <3> QED  BY <1>2, <3>1, <3>3 DEF InPlace
  <2>4. CASE Unwind
    BY <2>4 DEF Unwind, PlaceInv
  <2> QED  BY <1>3, <2>1, <2>2, <2>3, <2>4 DEF LoopTop
<1>4. CASE SystemCall
  <2>1. CASE EnterKernel \/ Reap \/ Interrupted
    BY <1>1, <2>1 DEF EnterKernel, Reap, Interrupted, pool, ring
  <2>2. CASE Submit
    <3>1. /\ sq # <<>> /\ sq' = Tail(sq) /\ UNCHANGED <<cq, reqs, pc>>
          /\ inflight' = inflight \/ inflight' = inflight \cup {Head(sq)}
      BY <2>2 DEF Submit, pool
    <3>2. /\ \A i \in DOMAIN sq' : \E j \in DOMAIN sq : sq'[i] = sq[j]
          /\ \E j \in DOMAIN sq : Head(sq) = sq[j]
      BY <3>1, SqRemoved DEF TypeInv
    <3> QED  BY <3>1, <3>2 DEF PlaceInv
  <2> QED  BY <1>4, <2>1, <2>2 DEF SystemCall
<1>5. CASE Handler
  <2>1. ASSUME todo > 0, NextCompletion
        PROVE  /\ pc' # "panic"
               /\ \A i \in DOMAIN cq' : InPlace(cq'[i], reqs) /\ Fits(cq'[i])
    <3>1. \A i \in DOMAIN cq' : \E j \in DOMAIN cq : cq'[i] = cq[j]
      BY <2>1, CompletionTaken
    <3> QED  BY <2>1, <3>1 DEF PlaceInv, NextCompletion
  <2>2. CASE HandleError \/ RejectConnection \/ HandleClose
    <3>1. todo > 0 /\ NextCompletion /\ UNCHANGED <<sq, inflight, reqs>>
      BY <2>2 DEF HandleError, RejectConnection, HandleClose, Handling, pool
    <3> QED  BY <2>1, <3>1 DEF PlaceInv
  <2>3. ASSUME NEW r \in Reqs, AcceptConnection(r)
        PROVE  PlaceInv'
    <3>1. /\ todo > 0 /\ NextCompletion /\ UNCHANGED inflight
          /\ reqs' = [reqs EXCEPT ![r] = [operation |-> "recv", fd |-> Completion.fd, position |-> 0]]
      BY <2>3 DEF AcceptConnection, Handling, TakeSlot
    <3>2. reqs'[r].position = 0 /\ \A q : q # r => reqs'[q] = reqs[q]
      BY <3>1 DEF TypeInv, TypeOK
    <3>3. /\ ~Prepared(r) /\ ~InKernel(r) /\ ~Completed(r)
          /\ \A i \in DOMAIN sq' :
               \/ sq'[i] = RecvSqe(r, Completion.fd, 0)
               \/ sq'[i] = AcceptSqe(AcceptReq)
               \/ \E j \in DOMAIN sq : sq'[i] = sq[j]
      BY <2>3, AcceptPlaces
    <3>4. /\ InPlace(RecvSqe(r, Completion.fd, 0), reqs')
          /\ InPlace(AcceptSqe(AcceptReq), reqs')
      BY <3>2 DEF InPlace, RecvSqe, AcceptSqe
    <3>5. \A i \in DOMAIN sq : InPlace(sq[i], reqs')
      BY <3>2, <3>3, OthersInPlace DEF PlaceInv, Prepared
    <3>6. \A e \in inflight : InPlace(e, reqs')
      BY <3>2, <3>3, OthersInPlace DEF PlaceInv, InKernel
    <3>7. \A i \in DOMAIN cq' : cq'[i].req # r
      <4>1. ~Completed(r)'
        BY <3>1, <3>3, CompletionTaken
      <4> QED  BY <4>1 DEF Completed
    <3>8. \A i \in DOMAIN cq' : InPlace(cq'[i], reqs') /\ Fits(cq'[i])
      BY <2>1, <3>1, <3>2, <3>7, OthersInPlace
    <3> QED  BY <2>1, <3>1, <3>3, <3>4, <3>5, <3>6, <3>8 DEF PlaceInv, Fits, InPlace
  <2>4. CASE ReceiveEof \/ ReceiveData
    <3>1. todo > 0 /\ NextCompletion /\ UNCHANGED inflight
      BY <2>4 DEF ReceiveEof, ReceiveData, Handling
    <3>2. PICK c \in ConnReqs, e \in Sqe :
            /\ Completion.req = c /\ e.req = c /\ SubmitOrQueue(e)
            /\ \A r \in Reqs \ {c} : reqs'[r] = reqs[r]
            /\ e.op = "close" \/ (e.op = "recv" /\ e.start = reqs'[c].position)
      BY <2>4, ReceivePlaces
    <3>3. ~Prepared(c) /\ ~InKernel(c) /\ ~Completed(c)'
      BY <3>1, <3>2, CompletionTaken
    <3>4. InPlace(e, reqs')
      BY <3>2 DEF InPlace
    <3>5. \A d \in Sqe \cup CqeSet : d.req # c /\ InPlace(d, reqs) => InPlace(d, reqs')
      BY <3>2 DEF InPlace, Sqe, CqeSet
    <3>6. \A i \in DOMAIN sq : InPlace(sq[i], reqs')
      <4>1. \A i \in DOMAIN sq : sq[i] \in Sqe /\ InPlace(sq[i], reqs)
        BY DEF PlaceInv, TypeInv, TypeOK
      <4>2. \A i \in DOMAIN sq : sq[i].req # c
        BY <3>3 DEF Prepared
      <4> QED  BY <3>5, <4>1, <4>2
    <3>7. \A d \in inflight : InPlace(d, reqs')
      BY <3>1, <3>3, <3>5 DEF PlaceInv, InKernel, TypeInv, TypeOK
    <3>8. \A i \in DOMAIN cq' : InPlace(cq'[i], reqs') /\ Fits(cq'[i])
      <4>1. \A i \in DOMAIN cq' : cq'[i] \in CqeSet /\ cq'[i].req # c
        <5>1. TypeInv'
          BY TypeInvStep
        <5> QED  BY <3>3, <5>1 DEF Completed, TypeInv, TypeOK
      <4> QED  BY <2>1, <3>1, <3>5, <4>1
    <3>9. \A i \in DOMAIN sq' : InPlace(sq'[i], reqs')
      <4>1. \A i \in DOMAIN sq' : sq'[i] = e \/ \E j \in DOMAIN sq : sq'[i] = sq[j]
        BY <3>2, SqAppended DEF SubmitOrQueue, TypeInv
      <4> QED  BY <3>4, <3>6, <4>1
    <3> QED  BY <2>1, <3>1, <3>7, <3>8, <3>9 DEF PlaceInv, Fits, InPlace
  <2>5. ~SlicePanic
    <3> SUFFICES ASSUME SlicePanic PROVE FALSE
      OBVIOUS
    <3>1. todo > 0 /\ Completion.ok /\ reqs[Completion.req].operation = "recv" /\ NewPosition > BufSize
      BY DEF SlicePanic, Handling
    <3>2. cq # <<>> /\ 1 \in DOMAIN cq /\ Completion = cq[1]
      BY <3>1 DEF TypeInv, TypeOK, Completion
    <3>3. cq[1].op = "recv"
      BY <3>1, <3>2 DEF DispatchInv, FaithfulInv, Faithful
    <3>4. reqs[cq[1].req].position + cq[1].n <= BufSize
      BY <3>1, <3>2, <3>3, InBounds
    <3>5. reqs[cq[1].req].position + cq[1].n \in Nat /\ BufSize \in Nat
      <4>1. cq[1] \in CqeSet
        BY <3>2 DEF TypeInv, TypeOK
      <4>2. cq[1].req \in Reqs /\ cq[1].n \in 0..BufSize
        BY <4>1 DEF CqeSet
      <4>3. reqs[cq[1].req].position \in 0..(BufSize - 1)
        BY <4>2 DEF TypeInv, TypeOK
      <4> QED  BY <4>2, <4>3, ConstantsOK
    <3> QED  BY <3>1, <3>2, <3>4, <3>5 DEF NewPosition
  <2> QED  BY <1>5, <2>2, <2>3, <2>4, <2>5 DEF Handler
<1>6. CASE Kernel
  <2>1. ASSUME NEW c \in CqeSet, cq' = Append(cq, c), InPlace(c, reqs), Fits(c),
               UNCHANGED <<pc, sq, reqs>>, inflight' \subseteq inflight
        PROVE  PlaceInv'
    <3>1. \A i \in DOMAIN cq' : cq'[i] = c \/ \E j \in DOMAIN cq : cq'[i] = cq[j]
      BY <2>1, CqAppended DEF TypeInv
    <3> QED  BY <2>1, <3>1 DEF PlaceInv
  <2>2. 0 \in 0..BufSize
    BY ConstantsOK
  <2>3. ASSUME NEW f \in FD \cup {ListenFd}, NEW ok \in BOOLEAN,
               cq' = Append(cq, Cqe(AcceptSqe(AcceptReq), ok, f, 0)),
               UNCHANGED <<pc, sq, inflight, reqs>>
        PROVE  PlaceInv'
    <3> DEFINE c == Cqe(AcceptSqe(AcceptReq), ok, f, 0)
    <3>1. c \in CqeSet /\ c.op = "accept"
      BY <2>2, AcceptSqeType, CqeType DEF Cqe, AcceptSqe
    <3>2. cq' = Append(cq, c)
      BY <2>3
    <3> HIDE DEF c
    <3>3. InPlace(c, reqs) /\ Fits(c)
      BY <3>1 DEF InPlace, Fits
    <3> QED  BY <2>1, <2>3, <3>1, <3>2, <3>3
  <2>4. ASSUME NEW f \in FD, AcceptDone(f)
        PROVE  PlaceInv'
    BY <2>3, <2>4 DEF AcceptDone, pool
  <2>5. CASE AcceptFails
    BY <2>3, <2>5 DEF AcceptFails, pool
  <2>6. ASSUME NEW e \in inflight, RecvDone(e) \/ CloseDone(e) \/ RecvFails(e)
        PROVE  PlaceInv'
    <3>1. /\ e \in Sqe /\ e.fd \in FD \cup {ListenFd} /\ e.start \in 0..BufSize /\ BufSize \in Nat
          /\ InPlace(e, reqs)
      BY ConstantsOK DEF TypeInv, TypeOK, Sqe, PlaceInv
    <3>2. \E ok \in BOOLEAN, n \in 0..BufSize :
            cq' = Append(cq, Cqe(e, ok, e.fd, n)) /\ (e.op = "recv" => e.start + n <= BufSize \/ ok # TRUE)
      <4>1. CASE RecvDone(e)
        <5>1. PICK n \in RecvResults(sock[e.fd], BufSize - e.start) : cq' = Append(cq, Cqe(e, TRUE, e.fd, n))
          BY <4>1 DEF RecvDone
        <5>2. n \in 0..BufSize /\ e.start + n <= BufSize
          BY <3>1, <5>1 DEF RecvResults
        <5> QED  BY <5>1, <5>2
      <4>2. CASE CloseDone(e)
        <5>1. e.op = "close" /\ \E ok \in BOOLEAN : cq' = Append(cq, Cqe(e, ok, e.fd, 0))
          BY <4>2 DEF CloseDone
        <5> QED  BY <2>2, <5>1
      <4>3. CASE RecvFails(e)
        BY <2>2, <4>3 DEF RecvFails
      <4> QED  BY <2>6, <4>1, <4>2, <4>3
    <3>3. PICK ok \in BOOLEAN, n \in 0..BufSize :
            cq' = Append(cq, Cqe(e, ok, e.fd, n)) /\ (e.op = "recv" => e.start + n <= BufSize \/ ok # TRUE)
      BY <3>2
    <3> DEFINE c == Cqe(e, ok, e.fd, n)
    <3>4. /\ c \in CqeSet /\ c.op = e.op /\ c.req = e.req /\ c.start = e.start /\ c.ok = ok /\ c.n = n
          /\ cq' = Append(cq, c)
      BY <3>1, <3>3, CqeType DEF Cqe
    <3> HIDE DEF c
    <3>5. InPlace(c, reqs) /\ Fits(c)
      BY <3>1, <3>3, <3>4 DEF InPlace, Fits
    <3>6. UNCHANGED <<pc, sq, reqs>> /\ inflight' \subseteq inflight
      BY <2>6 DEF RecvDone, CloseDone, RecvFails, pool
    <3> QED  BY <2>1, <3>4, <3>5, <3>6
  <2> QED  BY <1>6, <2>4, <2>5, <2>6 DEF Kernel
<1>7. CASE Clients \/ Signal \/ UNCHANGED vars
  <2>1. UNCHANGED <<pc, sq, inflight, cq, reqs>>
    BY <1>7 DEF Clients, Signal, PeerConnect, PeerSend, PeerFinish, vars, pool, ring
  <2> QED  BY <1>1, <2>1 DEF PlaceInv
<1> QED  BY <1>3, <1>4, <1>5, <1>6, <1>7 DEF Next, Server

LEMMA PlaceInvHolds == Spec /\ []NoRecvQueued => []PlaceInv
<1>1. Init => PlaceInv
  <2> SUFFICES ASSUME Init PROVE PlaceInv
    OBVIOUS
  <2>1. pc = "top" /\ DOMAIN sq = {1} /\ sq[1].op = "accept" /\ inflight = {} /\ DOMAIN cq = {}
    BY DEF Init, AcceptSqe
  <2> QED  BY <2>1 DEF PlaceInv, InPlace
<1>2. TypeInv /\ QueueInv /\ DispatchInv /\ PlaceInv /\ NoRecvQueued /\ [Next]_vars => PlaceInv'
  BY PlaceInvStep
<1> QED  BY <1>1, <1>2, TypeInvHolds, QueueInvHolds, DispatchInvHolds, PTL DEF Spec

(* As long as no recv waits in the overflow queue, the handler reads the     *)
(* data where the kernel has written it,                                     *)
THEOREM ReadsInPlace == Spec /\ []NoRecvQueued => []ReadsWhatArrived
<1>1. TypeInv /\ PlaceInv => ReadsWhatArrived
  BY InBounds DEF ReadsWhatArrived
<1> QED  BY <1>1, TypeInvHolds, PlaceInvHolds, PTL

(* and the slice of it ends inside the buffer, so that no bounds check       *)
(* fails, whatever the build checks.                                         *)
THEOREM SlicesInBounds == Spec /\ []NoRecvQueued => [](SliceInBounds /\ pc # "panic")
<1>1. TypeInv /\ PlaceInv => SliceInBounds /\ pc # "panic"
  BY InBounds DEF SliceInBounds, PlaceInv
<1> QED  BY <1>1, TypeInvHolds, PlaceInvHolds, PTL

=============================================================================
