----------------------- MODULE LogServerOwnershipProofs -----------------------
(* Who operates on a descriptor: DescriptorOwnership, NothingLost and        *)
(* NoPrematureClose of LogServer, for every value of the constants.          *)
EXTENDS LogServerProofs

(* An entry of s is in T, and at most one is.                                *)
Has(s, T)    == \E i \in DOMAIN s : s[i] \in T
OnceIn(s, T) == \A i, j \in DOMAIN s : s[i] \in T /\ s[j] \in T => i = j

(* Completions of accepts that have opened f, and of recvs of r.             *)
AcceptedCqes(f) == {c \in CqeSet : c.op = "accept" /\ c.ok = TRUE /\ c.fd = f}
ReceivedCqes(r) == {c \in CqeSet : c.op = "recv" /\ c.ok = TRUE /\ c.req = r}

Accepted(f) == Has(cq, AcceptedCqes(f))
Received(r) == Has(cq, ReceivedCqes(r))

(* A request that will still operate on its descriptor.                      *)
Busy(r) == Prepared(r) \/ InKernel(r) \/ Queued(r) \/ Received(r)

(* A descriptor is open from its accept to its close, it is accepted once    *)
(* before it is given to a request, and given to one request only.           *)
Owned ==
  /\ \A f \in FD : OnceIn(cq, AcceptedCqes(f))
  /\ \A f \in FD : Accepted(f) => sock[f].st # "free"
  /\ \A f \in FD : \A r \in ConnReqs :
       Busy(r) /\ reqs[r].fd = f => sock[f].st # "free" /\ ~Accepted(f)
  /\ \A f \in FD : \A r, s \in ConnReqs :
       Busy(r) /\ reqs[r].fd = f /\ Busy(s) /\ reqs[s].fd = f => r = s

OwnInv == Running => Owned

-----------------------------------------------------------------------------
(* What the steps do to the sets that an entry is in.                        *)

LEMMA HasAppended ==
  ASSUME NEW S, NEW s \in Seq(S), NEW e \in S, NEW T
  PROVE  /\ Has(Append(s, e), T) <=> Has(s, T) \/ e \in T
         /\ OnceIn(s, T) /\ (e \in T => ~Has(s, T)) => OnceIn(Append(s, e), T)
<1>1. /\ DOMAIN Append(s, e) = 1..(Len(s) + 1)
      /\ DOMAIN s = 1..Len(s) /\ Len(s) \in Nat
      /\ \A i \in 1..Len(s) : Append(s, e)[i] = s[i]
      /\ Append(s, e)[Len(s) + 1] = e
  OBVIOUS
<1> DEFINE t == Append(s, e)
<1> HIDE DEF t
<1>2. \A i \in DOMAIN t : (i \in DOMAIN s /\ t[i] = s[i]) \/ (i = Len(s) + 1 /\ t[i] = e)
  BY <1>1 DEF t
<1>3. \A i \in DOMAIN s : i \in DOMAIN t /\ t[i] = s[i]
  BY <1>1 DEF t
<1>4. Len(s) + 1 \in DOMAIN t /\ t[Len(s) + 1] = e
  BY <1>1 DEF t
<1>5. Has(t, T) <=> Has(s, T) \/ e \in T
  BY <1>2, <1>3, <1>4 DEF Has
<1>6. OnceIn(s, T) /\ (e \in T => ~Has(s, T)) => OnceIn(t, T)
  BY <1>2 DEF Has, OnceIn
<1> QED  BY <1>5, <1>6 DEF t

LEMMA HasRemoved ==
  ASSUME NEW S, NEW s \in Seq(S), s # <<>>, NEW T
  PROVE  /\ Has(s, T) <=> Has(Tail(s), T) \/ Head(s) \in T
         /\ OnceIn(s, T) => OnceIn(Tail(s), T)
         /\ OnceIn(s, T) /\ Head(s) \in T => ~Has(Tail(s), T)
<1>1. /\ DOMAIN Tail(s) = 1..(Len(s) - 1)
      /\ DOMAIN s = 1..Len(s) /\ Len(s) \in Nat /\ Len(s) # 0
      /\ \A i \in 1..(Len(s) - 1) : Tail(s)[i] = s[i + 1]
      /\ Head(s) = s[1]
  OBVIOUS
<1> DEFINE t == Tail(s)
<1> HIDE DEF t
<1>2. \A i \in DOMAIN t : i \in Nat /\ i + 1 \in DOMAIN s /\ t[i] = s[i + 1] /\ i + 1 # 1
  BY <1>1 DEF t
<1>3. \A i \in DOMAIN s : i = 1 \/ (i - 1 \in DOMAIN t /\ t[i - 1] = s[i])
  BY <1>1 DEF t
<1>4. 1 \in DOMAIN s /\ Head(s) = s[1]
  BY <1>1
<1>5. Has(s, T) <=> Has(t, T) \/ Head(s) \in T
  BY <1>2, <1>3, <1>4 DEF Has
<1>6. OnceIn(s, T) => OnceIn(t, T)
  <2> SUFFICES ASSUME OnceIn(s, T), NEW i \in DOMAIN t, NEW j \in DOMAIN t, t[i] \in T, t[j] \in T
               PROVE  i = j
    BY DEF OnceIn
  <2>1. i + 1 = j + 1
    BY <1>2 DEF OnceIn
  <2> QED  BY <1>2, <2>1
<1>7. OnceIn(s, T) /\ Head(s) \in T => ~Has(t, T)
  BY <1>2, <1>4 DEF Has, OnceIn
<1> QED  BY <1>5, <1>6, <1>7 DEF t

(* A completion is posted.                                                   *)
LEMMA Posted ==
  ASSUME TypeInv, NEW c \in CqeSet, cq' = Append(cq, c)
  PROVE  /\ \A T : Has(cq', T) <=> Has(cq, T) \/ c \in T
         /\ \A T : OnceIn(cq, T) /\ (c \in T => ~Has(cq, T)) => OnceIn(cq', T)
<1>1. cq \in Seq(CqeSet)
  BY DEF TypeInv, TypeOK
<1> QED  BY <1>1, HasAppended

(* A completion is handled.                                                  *)
LEMMA Handled ==
  ASSUME TypeInv, todo > 0, NextCompletion
  PROVE  /\ \A T : Has(cq, T) <=> Has(cq', T) \/ Completion \in T
         /\ \A T : OnceIn(cq, T) => OnceIn(cq', T)
         /\ \A T : OnceIn(cq, T) /\ Completion \in T => ~Has(cq', T)
<1>1. cq \in Seq(CqeSet) /\ cq # <<>> /\ cq' = Tail(cq)
  BY DEF TypeInv, TypeOK, NextCompletion
<1> QED  BY <1>1, HasRemoved DEF Completion

-----------------------------------------------------------------------------
(* The owners of the descriptors.                                            *)

(* Every request of a connection is as busy as before, with the same         *)
(* descriptor.                                                               *)
SameOwners ==
  \A r \in ConnReqs : (Busy(r)' <=> Busy(r)) /\ (Busy(r) => reqs'[r].fd = reqs[r].fd)

SameAccepted ==
  \A f \in FD : /\ Accepted(f)' <=> Accepted(f)
                /\ OnceIn(cq, AcceptedCqes(f)) => OnceIn(cq', AcceptedCqes(f))

LEMMA CqUnchanged ==
  ASSUME UNCHANGED cq
  PROVE  SameAccepted /\ \A r \in ConnReqs : Received(r)' <=> Received(r)
BY DEF SameAccepted, Accepted, Received, Has, OnceIn, AcceptedCqes, ReceivedCqes

LEMMA PlacesUnchanged ==
  ASSUME UNCHANGED <<sq, inflight, cq, queue, reqs>>
  PROVE  SameOwners /\ SameAccepted
<1>1. \A r \in ConnReqs : Busy(r)' <=> Busy(r)
  BY Unmoved, CqUnchanged DEF Busy
<1> QED  BY <1>1, CqUnchanged DEF SameOwners

(* Nothing but the rings moves.                                              *)
LEMMA LoopOwners ==
  ASSUME TypeInv, QueueInv, DispatchInv, LoopTop, ~Unwind
  PROVE  SameOwners /\ SameAccepted
<1>1. CASE RearmAccept
  <2>1. /\ sq' = Append(sq, AcceptSqe(AcceptReq)) /\ AcceptSqe(AcceptReq).req = AcceptReq
        /\ UNCHANGED <<inflight, cq, queue, reqs>>
    BY <1>1 DEF RearmAccept, AcceptSqe, pool
  <2>2. \A r \in ConnReqs : Prepared(r)' <=> Prepared(r)
    BY <2>1, AcceptSqeType, SqAppended DEF TypeInv, ConnReqs
  <2> QED  BY <2>1, <2>2, Unmoved, CqUnchanged DEF SameOwners, Busy
<1>2. CASE NothingQueued \/ BeginDrain \/ EndDrain \/ Shutdown
  BY <1>2, PlacesUnchanged DEF NothingQueued, BeginDrain, EndDrain, Shutdown, pool, ring
<1>3. CASE Drain
  <2>1. /\ sq' = Append(sq, DrainSqe(Head(queue))) /\ queue # <<>> /\ queue' = Tail(queue)
        /\ UNCHANGED <<inflight, cq, reqs>>
    BY <1>3 DEF Drain, pool
  <2>2. /\ DrainSqe(Head(queue)) \in Sqe
        /\ DrainSqe(Head(queue)).req = Head(queue)
    <3>1. reqs[Head(queue)].operation \in ReqOperation
      BY <2>1 DEF TypeOK, TypeInv, QueuedOps
    <3> QED  BY <2>1, <3>1, DrainSqeType DEF DrainSqe, AcceptSqe, RecvSqe, CloseSqe, ReqOperation
  <2>3. \A r : Prepared(r)' <=> Prepared(r) \/ Head(queue) = r
    BY <2>1, <2>2, SqAppended DEF TypeInv
  <2>4. \A r : Queued(r) <=> Queued(r)' \/ Head(queue) = r
    BY <2>1, QueueRemoved DEF TypeInv
  <2> QED  BY <2>1, <2>3, <2>4, Unmoved, CqUnchanged DEF SameOwners, Busy
<1> QED  BY <1>1, <1>2, <1>3 DEF LoopTop

LEMMA SystemCallOwners ==
  ASSUME TypeInv, DispatchInv, SystemCall
  PROVE  SameOwners /\ SameAccepted
<1>1. CASE EnterKernel \/ Reap \/ Interrupted
  BY <1>1, PlacesUnchanged DEF EnterKernel, Reap, Interrupted, pool, ring
<1>2. CASE Submit
  <2>1. /\ sq # <<>> /\ sq' = Tail(sq) /\ UNCHANGED <<cq, queue, reqs>>
        /\ inflight' = IF Head(sq).op = "accept" THEN inflight ELSE inflight \cup {Head(sq)}
    BY <1>2 DEF Submit, pool
  <2>2. \A r : Prepared(r) <=> Prepared(r)' \/ Head(sq).req = r
    BY <2>1, SqRemoved DEF TypeInv
  <2>3. Head(sq).op = "accept" <=> Head(sq).req = AcceptReq
    <3>1. PICK j \in DOMAIN sq : Head(sq) = sq[j]
      BY <2>1, SqRemoved DEF TypeInv
    <3>2. sq[j] \in Sqe
      BY DEF TypeInv, TypeOK
    <3>3. sq[j].req \in Reqs
      BY <3>2 DEF Sqe
    <3> QED  BY <3>1, <3>3 DEF DispatchInv, FaithfulInv, Faithful, ListenerInv
  <2>4. \A r \in ConnReqs : InKernel(r)' <=> InKernel(r) \/ Head(sq).req = r
    BY <2>1, <2>3 DEF InKernel, ConnReqs
  <2> QED  BY <2>1, <2>2, <2>4, Unmoved, CqUnchanged DEF SameOwners, Busy
<1> QED  BY <1>1, <1>2 DEF SystemCall


(* A completion that opened nothing and received nothing is handled.         *)
LEMMA SilentlyHandled ==
  ASSUME TypeInv, todo > 0, NextCompletion,
         \A f \in FD : Completion \notin AcceptedCqes(f),
         \A r \in ConnReqs : Completion \notin ReceivedCqes(r),
         UNCHANGED <<sq, inflight, queue, reqs>>
  PROVE  SameOwners /\ SameAccepted
<1>1. \A r \in ConnReqs : Received(r)' <=> Received(r)
  BY Handled DEF Received, ReceivedCqes
<1>2. SameAccepted
  BY Handled DEF SameAccepted, Accepted, AcceptedCqes
<1> QED  BY <1>1, <1>2, Unmoved DEF SameOwners, Busy

LEMMA ErrorOwners ==
  ASSUME TypeInv, HandleError
  PROVE  SameOwners /\ SameAccepted
<1>1. todo > 0 /\ NextCompletion /\ Completion.ok # TRUE /\ UNCHANGED <<sq, inflight, queue, reqs>>
  BY DEF HandleError, pool
<1>2. /\ \A f \in FD : Completion \notin AcceptedCqes(f)
      /\ \A r \in ConnReqs : Completion \notin ReceivedCqes(r)
  BY <1>1 DEF AcceptedCqes, ReceivedCqes
<1> QED  BY <1>1, <1>2, SilentlyHandled

LEMMA CloseOwners ==
  ASSUME TypeInv, DispatchInv, HandleClose
  PROVE  SameOwners /\ SameAccepted
<1>1. /\ todo > 0 /\ NextCompletion /\ UNCHANGED <<sq, inflight, queue, reqs>>
      /\ reqs[Completion.req].operation = "close"
  BY DEF HandleClose, Handling
<1>2. Completion.op = "close"
  BY <1>1, CompletionTaken DEF Faithful
<1>3. /\ \A f \in FD : Completion \notin AcceptedCqes(f)
      /\ \A r \in ConnReqs : Completion \notin ReceivedCqes(r)
  BY <1>2 DEF AcceptedCqes, ReceivedCqes
<1> QED  BY <1>1, <1>3, SilentlyHandled

(* The request of a completed recv goes on to its next operation.            *)
LEMMA ReceiveOwners ==
  ASSUME TypeInv, DispatchInv, ReceiveEof \/ ReceiveData
  PROVE  /\ SameOwners /\ SameAccepted
         /\ Completion.req \in ConnReqs /\ Completion \in ReceivedCqes(Completion.req)
<1>1. /\ todo > 0 /\ NextCompletion /\ UNCHANGED <<inflight, free>>
      /\ Completion \in CqeSet /\ Completion.ok = TRUE
  <2>1. todo > 0 /\ NextCompletion /\ UNCHANGED <<inflight, free>> /\ Completion.ok
    BY DEF ReceiveEof, ReceiveData, Handling
  <2>2. Completion \in CqeSet
    BY <2>1, CompletionType DEF TypeInv
  <2> QED  BY <2>1, <2>2 DEF CqeSet
<1>2. PICK c \in ConnReqs, e \in Sqe :
        /\ Completion.req = c /\ Completion.op = "recv"
        /\ e.req = c /\ SubmitOrQueue(e)
        /\ reqs'[c].fd = reqs[c].fd
        /\ \A r \in Reqs \ {c} : reqs'[r] = reqs[r]
  BY ReceivePlaces
<1>3. /\ Completion \in ReceivedCqes(c)
      /\ \A r \in ConnReqs \ {c} : Completion \notin ReceivedCqes(r)
      /\ \A f \in FD : Completion \notin AcceptedCqes(f)
  BY <1>1, <1>2 DEF ReceivedCqes, AcceptedCqes
<1>4. SameAccepted
  BY <1>1, <1>3, Handled DEF SameAccepted, Accepted, AcceptedCqes
<1>5. /\ \A r \in ConnReqs \ {c} : Received(r)' <=> Received(r)
      /\ Received(c)
  BY <1>1, <1>3, Handled DEF Received, ReceivedCqes
<1>6. /\ \A r : r # c => (Prepared(r)' <=> Prepared(r)) /\ (Queued(r)' <=> Queued(r))
      /\ Prepared(c)' \/ Queued(c)'
  <2>1. ~Prepared(c) /\ ~Queued(c)
    BY <1>1, <1>2, CompletionTaken
  <2> QED  BY <1>2, <2>1, PlacedOnce DEF TypeInv
<1>7. \A r \in ConnReqs : Busy(r)' <=> Busy(r)
  BY <1>1, <1>5, <1>6, Unmoved DEF Busy
<1>8. \A r \in ConnReqs : reqs'[r].fd = reqs[r].fd
  BY <1>2 DEF ConnReqs
<1> QED  BY <1>2, <1>3, <1>4, <1>7, <1>8 DEF SameOwners

(* A completed accept has opened a descriptor, and is handled once.          *)
LEMMA AcceptTaken ==
  ASSUME TypeInv, DispatchInv, Handling("accept"), NextCompletion
  PROVE  /\ Completion.op = "accept" /\ Completion.ok = TRUE /\ Completion \in CqeSet
         /\ \A r \in ConnReqs : Received(r)' <=> Received(r)
         /\ \A f \in FD : Accepted(f) <=> Accepted(f)' \/ f = Completion.fd
         /\ \A f \in FD : OnceIn(cq, AcceptedCqes(f)) => OnceIn(cq', AcceptedCqes(f))
         /\ \A f \in FD : OnceIn(cq, AcceptedCqes(f)) /\ f = Completion.fd => ~Accepted(f)'
<1>1. todo > 0 /\ Completion.ok /\ reqs[Completion.req].operation = "accept"
  BY DEF Handling
<1>2. Completion.op = "accept" /\ Completion.ok = TRUE /\ Completion \in CqeSet
  <2>1. Completion.op = "accept"
    BY <1>1, CompletionTaken DEF Faithful
  <2>2. Completion \in CqeSet
    BY <1>1, CompletionType DEF TypeInv
  <2> QED  BY <1>1, <2>1, <2>2 DEF CqeSet
<1>3. /\ \A r \in ConnReqs : Completion \notin ReceivedCqes(r)
      /\ \A f \in FD : Completion \in AcceptedCqes(f) <=> f = Completion.fd
  BY <1>2 DEF ReceivedCqes, AcceptedCqes
<1>4. \A r \in ConnReqs : Received(r)' <=> Received(r)
  BY <1>1, <1>3, Handled DEF Received, ReceivedCqes
<1>5. \A f \in FD : Accepted(f) <=> Accepted(f)' \/ f = Completion.fd
  BY <1>1, <1>3, Handled DEF Accepted, AcceptedCqes
<1>6. \A f \in FD : OnceIn(cq, AcceptedCqes(f)) /\ f = Completion.fd => ~Accepted(f)'
  BY <1>1, <1>3, Handled DEF Accepted, AcceptedCqes
<1>7. \A f \in FD : OnceIn(cq, AcceptedCqes(f)) => OnceIn(cq', AcceptedCqes(f))
  BY <1>1, Handled
<1> QED  BY <1>2, <1>4, <1>5, <1>6, <1>7

(* A slot is taken for the connection: nobody else becomes busy.             *)
LEMMA AcceptOwners ==
  ASSUME TypeInv, QueueInv, DispatchInv, NEW r \in Reqs, AcceptConnection(r)
  PROVE  /\ r \in ConnReqs /\ ~Busy(r) /\ Busy(r)' /\ reqs'[r].fd = Completion.fd
         /\ reqs'[r].operation = "recv"
         /\ \A q \in ConnReqs : q # r => (Busy(q)' <=> Busy(q)) /\ reqs'[q] = reqs[q]
<1>1. /\ Handling("accept") /\ NextCompletion /\ UNCHANGED inflight /\ r \in free
      /\ reqs' = [reqs EXCEPT ![r] = [operation |-> "recv", fd |-> Completion.fd, position |-> 0]]
  BY DEF AcceptConnection, TakeSlot
<1>2. r \in ConnReqs /\ ~Prepared(r) /\ ~Queued(r) /\ ~InKernel(r) /\ ~Completed(r)
  BY AcceptPlaces
<1>3. ~Received(r)
  BY <1>2 DEF Received, Has, ReceivedCqes, Completed
<1>4. /\ \A q \in ConnReqs : q # r => (Prepared(q)' <=> Prepared(q)) /\ (Queued(q)' <=> Queued(q))
      /\ Prepared(r)' \/ Queued(r)'
  BY AcceptPlaces
<1>5. \A q \in ConnReqs : Received(q)' <=> Received(q)
  BY <1>1, AcceptTaken
<1>6. /\ reqs'[r].fd = Completion.fd /\ reqs'[r].operation = "recv"
      /\ \A q \in ConnReqs : q # r => reqs'[q] = reqs[q]
  BY <1>1 DEF TypeInv, TypeOK, ConnReqs
<1>7. \A q \in ConnReqs : q # r => (Busy(q)' <=> Busy(q))
  BY <1>1, <1>4, <1>5, Unmoved DEF Busy
<1> QED  BY <1>2, <1>3, <1>4, <1>6, <1>7 DEF Busy

-----------------------------------------------------------------------------
(* The kernel.                                                               *)

LEMMA AcceptDoneOwners ==
  ASSUME TypeInv, NEW f \in FD, AcceptDone(f)
  PROVE  /\ SameOwners
         /\ \A g \in FD : Accepted(g)' <=> Accepted(g) \/ g = f
         /\ \A g \in FD : OnceIn(cq, AcceptedCqes(g)) /\ (g = f => ~Accepted(g))
                             => OnceIn(cq', AcceptedCqes(g))
<1> DEFINE c == Cqe(AcceptSqe(AcceptReq), TRUE, f, 0)
<1>1. c \in CqeSet /\ c.op = "accept" /\ c.ok = TRUE /\ c.fd = f
  <2>1. 0 \in 0..BufSize
    BY ConstantsOK
  <2> QED  BY <2>1, AcceptSqeType, CqeType DEF AcceptSqe, Cqe
<1>2. cq' = Append(cq, c) /\ UNCHANGED <<sq, inflight, queue, reqs>>
  BY DEF AcceptDone, pool
<1> HIDE DEF c
<1>3. /\ \A r \in ConnReqs : c \notin ReceivedCqes(r)
      /\ \A g \in FD : c \in AcceptedCqes(g) <=> g = f
  BY <1>1 DEF ReceivedCqes, AcceptedCqes
<1>4. \A r \in ConnReqs : Received(r)' <=> Received(r)
  BY <1>1, <1>2, <1>3, Posted DEF Received, ReceivedCqes
<1>5. \A g \in FD : Accepted(g)' <=> Accepted(g) \/ g = f
  BY <1>1, <1>2, <1>3, Posted DEF Accepted, AcceptedCqes
<1>6. \A g \in FD : OnceIn(cq, AcceptedCqes(g)) /\ (g = f => ~Accepted(g))
                       => OnceIn(cq', AcceptedCqes(g))
  BY <1>1, <1>2, <1>3, Posted DEF Accepted
<1> QED  BY <1>2, <1>4, <1>5, <1>6, Unmoved DEF SameOwners, Busy

(* A completion that opened nothing and received nothing is posted.          *)
LEMMA SilentlyPosted ==
  ASSUME TypeInv, NEW c \in CqeSet, cq' = Append(cq, c), c.ok # TRUE \/ c.op = "close"
  PROVE  SameAccepted /\ \A r \in ConnReqs : Received(r)' <=> Received(r)
<1>1. /\ \A f \in FD : c \notin AcceptedCqes(f)
      /\ \A r \in ConnReqs : c \notin ReceivedCqes(r)
  BY DEF AcceptedCqes, ReceivedCqes
<1> QED  BY <1>1, Posted DEF SameAccepted, Accepted, Received, AcceptedCqes, ReceivedCqes

LEMMA AcceptFailsOwners ==
  ASSUME TypeInv, AcceptFails
  PROVE  SameOwners /\ SameAccepted
<1> DEFINE c == Cqe(AcceptSqe(AcceptReq), FALSE, ListenFd, 0)
<1>1. c \in CqeSet /\ c.ok # TRUE
  <2>1. 0 \in 0..BufSize
    BY ConstantsOK
  <2> QED  BY <2>1, AcceptSqeType, CqeType DEF Cqe
<1>2. cq' = Append(cq, c) /\ UNCHANGED <<sq, inflight, queue, reqs>>
  BY DEF AcceptFails, pool
<1> HIDE DEF c
<1> QED  BY <1>1, <1>2, SilentlyPosted, Unmoved DEF SameOwners, Busy

(* What an operation of a request is answered with.                          *)
LEMMA Answered ==
  ASSUME TypeInv, DispatchInv, NEW e \in inflight, NEW ok \in BOOLEAN, NEW n \in 0..BufSize,
         inflight' = inflight \ {e}
  PROVE  /\ Cqe(e, ok, e.fd, n) \in CqeSet
         /\ e.req \in ConnReqs /\ e.fd = reqs[e.req].fd /\ e.op = reqs[e.req].operation
         /\ Busy(e.req) /\ ~Prepared(e.req) /\ ~Queued(e.req) /\ ~Received(e.req)
         /\ ~InKernel(e.req)'
         /\ \A r \in ConnReqs \ {e.req} : InKernel(r)' <=> InKernel(r)
<1>1. e \in Sqe /\ e.fd \in FD \cup {ListenFd} /\ e.req \in Reqs
  BY DEF TypeInv, TypeOK, Sqe
<1>2. e.req \in ConnReqs /\ InKernel(e.req) /\ OneOp(e.req)
  BY <1>1 DEF DispatchInv, ListenerInv, OneOpInv, ConnReqs, InKernel
<1>3. e.op = reqs[e.req].operation /\ e.fd = reqs[e.req].fd
  <2>1. Faithful(e, reqs) /\ e.op # "accept"
    BY <1>1 DEF DispatchInv, FaithfulInv, Faithful, ListenerInv
  <2> QED  BY <2>1 DEF Faithful
<1>4. ~Prepared(e.req) /\ ~Queued(e.req) /\ ~Completed(e.req)
  BY <1>2 DEF OneOp
<1>5. ~Received(e.req)
  BY <1>4 DEF Received, Has, ReceivedCqes, Completed
<1>6. ~InKernel(e.req)'
  BY <1>2 DEF OneOp, InKernel
<1>7. \A r \in ConnReqs \ {e.req} : InKernel(r)' <=> InKernel(r)
  BY DEF InKernel
<1> QED  BY <1>1, <1>2, <1>3, <1>4, <1>5, <1>6, <1>7, CqeType DEF Busy

LEMMA RecvDoneOwners ==
  ASSUME TypeInv, DispatchInv, NEW e \in inflight, RecvDone(e)
  PROVE  SameOwners /\ SameAccepted
<1>1. e.start \in 0..BufSize
  BY DEF TypeInv, TypeOK, Sqe
<1>2. PICK n \in RecvResults(sock[e.fd], BufSize - e.start) : cq' = Append(cq, Cqe(e, TRUE, e.fd, n))
  BY DEF RecvDone
<1>3. n \in 0..BufSize
  BY <1>1, ConstantsOK DEF RecvResults
<1>4. /\ e.op = "recv" /\ inflight' = inflight \ {e} /\ UNCHANGED <<sq, queue, reqs>>
  BY DEF RecvDone, pool
<1> DEFINE c == Cqe(e, TRUE, e.fd, n)
<1>5. c \in CqeSet /\ c.op = "recv" /\ c.ok = TRUE /\ c.req = e.req /\ cq' = Append(cq, c)
  BY <1>2, <1>3, <1>4, Answered DEF Cqe
<1> HIDE DEF c
<1>6. /\ \A f \in FD : c \notin AcceptedCqes(f)
      /\ \A r \in ConnReqs : c \in ReceivedCqes(r) <=> r = e.req
  BY <1>5 DEF AcceptedCqes, ReceivedCqes
<1>7. SameAccepted
  BY <1>5, <1>6, Posted DEF SameAccepted, Accepted, AcceptedCqes
<1>8. \A r \in ConnReqs : Received(r)' <=> Received(r) \/ r = e.req
  BY <1>5, <1>6, Posted DEF Received, ReceivedCqes
<1>9. e.req \in ConnReqs /\ Busy(e.req) /\ \A r \in ConnReqs \ {e.req} : InKernel(r)' <=> InKernel(r)
  BY <1>3, <1>4, Answered
<1>10. \A r \in ConnReqs : Busy(r)' <=> Busy(r)
  BY <1>4, <1>8, <1>9, Unmoved DEF Busy
<1> QED  BY <1>4, <1>7, <1>10 DEF SameOwners

(* A close, or an error, ends what the request has to do with its descriptor.*)
LEMMA EndedOwners ==
  ASSUME TypeInv, DispatchInv, NEW e \in inflight, CloseDone(e) \/ RecvFails(e)
  PROVE  /\ \A r \in ConnReqs : Busy(r)' <=> Busy(r) /\ r # e.req
         /\ UNCHANGED reqs /\ SameAccepted
<1>0. 0 \in 0..BufSize
  BY ConstantsOK
<1>1. PICK ok \in BOOLEAN : cq' = Append(cq, Cqe(e, ok, e.fd, 0)) /\ (ok # TRUE \/ e.op = "close")
  BY DEF CloseDone, RecvFails
<1>2. inflight' = inflight \ {e} /\ UNCHANGED <<sq, queue, reqs>>
  BY DEF CloseDone, RecvFails, pool
<1> DEFINE c == Cqe(e, ok, e.fd, 0)
<1>3. c \in CqeSet /\ (c.ok # TRUE \/ c.op = "close") /\ cq' = Append(cq, c)
  BY <1>0, <1>1, <1>2, Answered DEF Cqe
<1> HIDE DEF c
<1>4. SameAccepted /\ \A r \in ConnReqs : Received(r)' <=> Received(r)
  BY <1>3, SilentlyPosted
<1>5. /\ ~Prepared(e.req) /\ ~Queued(e.req) /\ ~Received(e.req) /\ ~InKernel(e.req)'
      /\ e.req \in ConnReqs
      /\ \A r \in ConnReqs \ {e.req} : InKernel(r)' <=> InKernel(r)
  BY <1>0, <1>1, <1>2, Answered
<1>6. \A r \in ConnReqs : (Prepared(r)' <=> Prepared(r)) /\ (Queued(r)' <=> Queued(r))
  BY <1>2, Unmoved
<1> QED  BY <1>2, <1>4, <1>5, <1>6 DEF Busy

-----------------------------------------------------------------------------
(* DescriptorOwnership.                                                      *)

LEMMA RunningBefore ==
  ASSUME [Next]_vars, Running'
  PROVE  Running
<1>1. CASE Server
  BY <1>1 DEF Server, LoopTop, SystemCall, Handler, RearmAccept, NothingQueued, BeginDrain, Drain,
    EndDrain, Shutdown, Unwind, EnterKernel, Submit, Reap, Interrupted, HandleError,
    RejectConnection, AcceptConnection, ReceiveEof, ReceiveData, SlicePanic, HandleClose, Handling,
    Running
<1>2. CASE Kernel \/ Clients \/ Signal
  BY <1>2 DEF Kernel, Clients, Signal, AcceptDone, AcceptFails, RecvDone, CloseDone, RecvFails,
    PeerConnect, PeerSend, PeerFinish
<1>3. CASE UNCHANGED vars
  BY <1>3 DEF vars, Running
<1> QED  BY <1>1, <1>2, <1>3 DEF Next

LEMMA OwnedKept ==
  ASSUME Owned, SameOwners, SameAccepted,
         \A f \in FD : sock[f].st # "free" => sock'[f].st # "free"
  PROVE  Owned'
<1>1. \A f \in FD : OnceIn(cq', AcceptedCqes(f))
  BY DEF Owned, SameAccepted
<1>2. \A f \in FD : Accepted(f)' => sock'[f].st # "free"
  BY DEF Owned, SameAccepted
<1>3. \A f \in FD : \A r \in ConnReqs :
        Busy(r)' /\ reqs'[r].fd = f => sock'[f].st # "free" /\ ~Accepted(f)'
  BY DEF Owned, SameOwners, SameAccepted
<1>4. \A f \in FD : \A r, s \in ConnReqs :
        Busy(r)' /\ reqs'[r].fd = f /\ Busy(s)' /\ reqs'[s].fd = f => r = s
  BY DEF Owned, SameOwners
<1> QED  BY <1>1, <1>2, <1>3, <1>4 DEF Owned, OnceIn, AcceptedCqes

(* A descriptor that is accepted is not open before.                         *)
LEMMA AcceptDoneOwned ==
  ASSUME TypeInv, Owned, NEW f \in FD, AcceptDone(f)
  PROVE  Owned'
<1>1. /\ sock[f].st = "free" /\ sock' = [sock EXCEPT ![f] = [st |-> "up", unread |-> 0]]
      /\ sock \in [FD -> [st : {"free", "up", "fin"}, unread : Nat]]
  BY DEF AcceptDone, TypeInv, TypeOK
<1>2. sock'[f].st # "free" /\ \A g \in FD : g # f => sock'[g] = sock[g]
  BY <1>1
<1>3. ~Accepted(f) /\ \A r \in ConnReqs : Busy(r) => reqs[r].fd # f
  BY <1>1 DEF Owned
<1>4. \A g \in FD : OnceIn(cq', AcceptedCqes(g))
  BY <1>3, AcceptDoneOwners DEF Owned
<1>5. \A g \in FD : Accepted(g)' <=> Accepted(g) \/ g = f
  BY AcceptDoneOwners
<1>6. \A r \in ConnReqs : Busy(r)' => Busy(r) /\ reqs'[r].fd = reqs[r].fd
  BY AcceptDoneOwners DEF SameOwners
<1>7. \A g \in FD : \A r \in ConnReqs :
        Busy(r)' /\ reqs'[r].fd = g => sock'[g].st # "free" /\ ~Accepted(g)'
  BY <1>2, <1>3, <1>5, <1>6 DEF Owned
<1>8. \A g \in FD : \A r, s \in ConnReqs :
        Busy(r)' /\ reqs'[r].fd = g /\ Busy(s)' /\ reqs'[s].fd = g => r = s
  BY <1>6 DEF Owned
<1>9. \A g \in FD : Accepted(g)' => sock'[g].st # "free"
  BY <1>2, <1>5 DEF Owned
<1> QED  BY <1>4, <1>7, <1>8, <1>9 DEF Owned, OnceIn, AcceptedCqes

(* A descriptor that is closed had one owner, which is done with it.         *)
LEMMA EndedOwned ==
  ASSUME TypeInv, DispatchInv, Owned, NEW e \in inflight, CloseDone(e) \/ RecvFails(e)
  PROVE  Owned'
<1>0. 0 \in 0..BufSize /\ TRUE \in BOOLEAN
  BY ConstantsOK
<1>1. sock' = [sock EXCEPT ![e.fd] = NoConn] \/ sock' = sock
  BY DEF CloseDone, RecvFails, net
<1>2. \A g \in FD : g # e.fd => sock'[g] = sock[g]
  BY <1>1 DEF TypeInv, TypeOK
<1>3. e.req \in ConnReqs /\ e.fd = reqs[e.req].fd /\ Busy(e.req)
  <2>1. inflight' = inflight \ {e}
    BY DEF CloseDone, RecvFails
  <2> QED  BY <1>0, <2>1, Answered
<1>4. \A r \in ConnReqs : Busy(r)' => Busy(r) /\ r # e.req /\ reqs'[r].fd = reqs[r].fd
  BY EndedOwners
<1>5. \A g \in FD : (Accepted(g)' <=> Accepted(g)) /\ OnceIn(cq', AcceptedCqes(g))
  BY EndedOwners DEF Owned, SameAccepted
<1>6. \A g \in FD : Accepted(g) => g # e.fd
  BY <1>3 DEF Owned
<1>7. \A r \in ConnReqs : Busy(r)' /\ reqs'[r].fd \in FD => reqs'[r].fd # e.fd
  BY <1>3, <1>4 DEF Owned
<1>8. \A g \in FD : Accepted(g)' => sock'[g].st # "free"
  BY <1>2, <1>5, <1>6 DEF Owned
<1>9. \A g \in FD : \A r \in ConnReqs :
        Busy(r)' /\ reqs'[r].fd = g => sock'[g].st # "free" /\ ~Accepted(g)'
  BY <1>2, <1>4, <1>5, <1>7 DEF Owned
<1>10. \A g \in FD : \A r, s \in ConnReqs :
        Busy(r)' /\ reqs'[r].fd = g /\ Busy(s)' /\ reqs'[s].fd = g => r = s
  BY <1>4 DEF Owned
<1> QED  BY <1>5, <1>8, <1>9, <1>10 DEF Owned, OnceIn, AcceptedCqes

(* A connection that is turned away belongs to nobody.                       *)
LEMMA RejectOwners ==
  ASSUME TypeInv, DispatchInv, RejectConnection
  PROVE  /\ SameOwners
         /\ sock' = [sock EXCEPT ![Completion.fd] = NoConn]
         /\ \A f \in FD : f # Completion.fd => sock'[f] = sock[f]
<1>1. /\ Handling("accept") /\ NextCompletion /\ UNCHANGED <<sq, inflight, queue, reqs>>
      /\ sock' = [sock EXCEPT ![Completion.fd] = NoConn]
  BY DEF RejectConnection, CloseNow, pool
<1>2. \A r \in ConnReqs : Received(r)' <=> Received(r)
  BY <1>1, AcceptTaken
<1>3. \A f \in FD : f # Completion.fd => sock'[f] = sock[f]
  BY <1>1 DEF TypeInv, TypeOK
<1> QED  BY <1>1, <1>2, <1>3, Unmoved DEF SameOwners, Busy

LEMMA RejectOwned ==
  ASSUME TypeInv, DispatchInv, Owned, RejectConnection
  PROVE  Owned'
<1>1. Handling("accept") /\ NextCompletion
  BY DEF RejectConnection
<1>2. \A f \in FD : OnceIn(cq', AcceptedCqes(f))
  BY <1>1, AcceptTaken DEF Owned
<1>3. \A f \in FD : Accepted(f)' => Accepted(f) /\ f # Completion.fd
  BY <1>1, AcceptTaken DEF Owned
<1>4. \A f \in FD : Accepted(f)' => sock'[f].st # "free"
  BY <1>3, RejectOwners DEF Owned
<1>5. \A r \in ConnReqs : Busy(r)' => Busy(r) /\ reqs'[r].fd = reqs[r].fd
  BY RejectOwners DEF SameOwners
<1>6. \A r \in ConnReqs : Busy(r) /\ reqs[r].fd \in FD => reqs[r].fd # Completion.fd
  BY <1>1, AcceptTaken DEF Owned
<1>7. \A f \in FD : \A r \in ConnReqs :
        Busy(r)' /\ reqs'[r].fd = f => sock'[f].st # "free" /\ ~Accepted(f)'
  BY <1>3, <1>5, <1>6, RejectOwners DEF Owned
<1>8. \A f \in FD : \A r, s \in ConnReqs :
        Busy(r)' /\ reqs'[r].fd = f /\ Busy(s)' /\ reqs'[s].fd = f => r = s
  BY <1>5 DEF Owned
<1> QED  BY <1>2, <1>4, <1>7, <1>8 DEF Owned, OnceIn, AcceptedCqes

(* An accepted descriptor goes to the slot that is taken for it.             *)
LEMMA AcceptOwned ==
  ASSUME TypeInv, QueueInv, DispatchInv, Owned, NEW r \in Reqs, AcceptConnection(r)
  PROVE  Owned'
<1>1. Handling("accept") /\ NextCompletion /\ UNCHANGED sock
  BY DEF AcceptConnection, net
<1>2. \A f \in FD : OnceIn(cq', AcceptedCqes(f))
  BY <1>1, AcceptTaken DEF Owned
<1>3. \A f \in FD : Accepted(f)' => Accepted(f) /\ f # Completion.fd
  BY <1>1, AcceptTaken DEF Owned
<1>4. \A f \in FD : f = Completion.fd =>
        sock[f].st # "free" /\ \A q \in ConnReqs : Busy(q) => reqs[q].fd # f
  BY <1>1, AcceptTaken DEF Owned
<1>5. /\ r \in ConnReqs /\ reqs'[r].fd = Completion.fd
      /\ \A q \in ConnReqs : Busy(q)' /\ q # r => Busy(q) /\ reqs'[q].fd = reqs[q].fd
  BY AcceptOwners
<1>6. \A f \in FD : Accepted(f)' => sock'[f].st # "free"
  BY <1>1, <1>3 DEF Owned
<1>7. ASSUME NEW f \in FD, NEW q \in ConnReqs, Busy(q)', reqs'[q].fd = f
      PROVE  sock'[f].st # "free" /\ ~Accepted(f)'
  <2>1. CASE q = r
    BY <1>1, <1>3, <1>4, <1>5, <1>7, <2>1
  <2>2. CASE q # r
    BY <1>1, <1>3, <1>5, <1>7, <2>2 DEF Owned
  <2> QED  BY <2>1, <2>2
<1>8. ASSUME NEW f \in FD, NEW q \in ConnReqs, NEW s \in ConnReqs,
             Busy(q)', reqs'[q].fd = f, Busy(s)', reqs'[s].fd = f
      PROVE  q = s
  <2>1. CASE q = r \/ s = r
    BY <1>4, <1>5, <1>8, <2>1
  <2>2. CASE q # r /\ s # r
    BY <1>5, <1>8, <2>2 DEF Owned
  <2> QED  BY <2>1, <2>2
<1> QED  BY <1>2, <1>6, <1>7, <1>8 DEF Owned, OnceIn, AcceptedCqes

(* The steps that change no owner leave no open connection closed.           *)
LEMMA OwnInvStep ==
  ASSUME TypeInv, QueueInv, DispatchInv, OwnInv, [Next]_vars
  PROVE  OwnInv'
<1> SUFFICES ASSUME Running' PROVE Owned'
  BY DEF OwnInv
<1>0. Running /\ Owned
  BY RunningBefore DEF OwnInv
<1>1. CASE LoopTop
  <2>1. ~Unwind
    BY DEF Unwind, Running
  <2>2. UNCHANGED sock
    BY <1>1, <2>1 DEF LoopTop, RearmAccept, NothingQueued, BeginDrain, Drain, EndDrain, Shutdown, net
  <2> QED  BY <1>0, <1>1, <2>1, <2>2, LoopOwners, OwnedKept
<1>2. CASE SystemCall
  <2>1. UNCHANGED sock
    BY <1>2 DEF SystemCall, EnterKernel, Submit, Reap, Interrupted, net
  <2> QED  BY <1>0, <1>2, <2>1, SystemCallOwners, OwnedKept
<1>3. CASE Handler
  <2>1. CASE HandleError
    <3>1. UNCHANGED sock
      BY <2>1 DEF HandleError, net
    <3> QED  BY <1>0, <2>1, <3>1, ErrorOwners, OwnedKept
  <2>2. CASE RejectConnection
    BY <1>0, <2>2, RejectOwned
  <2>3. ASSUME NEW r \in Reqs, AcceptConnection(r)
        PROVE  Owned'
    BY <1>0, <2>3, AcceptOwned
  <2>4. CASE ReceiveEof \/ ReceiveData
    <3>1. UNCHANGED sock
      BY <2>4 DEF ReceiveEof, ReceiveData, net
    <3> QED  BY <1>0, <2>4, <3>1, ReceiveOwners, OwnedKept
  <2>5. ~SlicePanic
    BY DEF SlicePanic, Running
  <2>6. CASE HandleClose
    <3>1. UNCHANGED sock
      BY <2>6 DEF HandleClose, net
    <3> QED  BY <1>0, <2>6, <3>1, CloseOwners, OwnedKept
  <2> QED  BY <1>3, <2>1, <2>2, <2>3, <2>4, <2>5, <2>6 DEF Handler
<1>4. CASE Kernel
  <2>1. ASSUME NEW f \in FD, AcceptDone(f)
        PROVE  Owned'
    BY <1>0, <2>1, AcceptDoneOwned
  <2>2. CASE AcceptFails
    <3>1. UNCHANGED sock
      BY <2>2 DEF AcceptFails, net
    <3> QED  BY <1>0, <2>2, <3>1, AcceptFailsOwners, OwnedKept
  <2>3. ASSUME NEW e \in inflight, RecvDone(e)
        PROVE  Owned'
    <3>1. \A f \in FD : sock'[f].st = sock[f].st
      BY <2>3 DEF RecvDone, TypeInv, TypeOK
    <3> QED  BY <1>0, <2>3, <3>1, RecvDoneOwners, OwnedKept
  <2>4. ASSUME NEW e \in inflight, CloseDone(e) \/ RecvFails(e)
        PROVE  Owned'
    BY <1>0, <2>4, EndedOwned
  <2> QED  BY <1>4, <2>1, <2>2, <2>3, <2>4 DEF Kernel
<1>5. CASE Clients
  <2>1. UNCHANGED <<sq, inflight, cq, queue, reqs>>
    BY <1>5 DEF Clients, PeerConnect, PeerSend, PeerFinish, pool, ring
  <2>2. \A f \in FD : sock[f].st # "free" => sock'[f].st # "free"
    <3>1. sock \in [FD -> [st : {"free", "up", "fin"}, unread : Nat]]
      BY DEF TypeInv, TypeOK
    <3>2. CASE PeerConnect
      BY <3>2 DEF PeerConnect
    <3>3. ASSUME NEW g \in FD, PeerSend(g)
          PROVE  \A f \in FD : sock'[f].st = sock[f].st
      BY <3>1, <3>3 DEF PeerSend
    <3>4. ASSUME NEW g \in FD, PeerFinish(g)
          PROVE  \A f \in FD : sock[f].st # "free" => sock'[f].st # "free"
      BY <3>1, <3>4 DEF PeerFinish
    <3> QED  BY <1>5, <3>2, <3>3, <3>4 DEF Clients
  <2> QED  BY <1>0, <2>1, <2>2, PlacesUnchanged, OwnedKept
<1>6. CASE Signal \/ UNCHANGED vars
  <2>1. UNCHANGED <<sq, inflight, cq, queue, reqs, sock>>
    BY <1>6 DEF Signal, vars, pool, ring, net
  <2> QED  BY <1>0, <2>1, PlacesUnchanged, OwnedKept
<1> QED  BY <1>1, <1>2, <1>3, <1>4, <1>5, <1>6 DEF Next, Server

LEMMA OwnInvHolds == Spec => []OwnInv
<1>1. Init => OwnInv
  <2> SUFFICES ASSUME Init PROVE Owned
    BY DEF OwnInv
  <2>1. DOMAIN cq = {} /\ DOMAIN queue = {} /\ inflight = {}
    BY DEF Init
  <2>2. \A r \in ConnReqs : ~Busy(r)
    BY <2>1 DEF Init, Busy, Prepared, InKernel, Queued, Received, Has, AcceptSqe, ConnReqs
  <2> QED  BY <2>1, <2>2 DEF Owned, Accepted, Has, OnceIn
<1>2. TypeInv /\ QueueInv /\ DispatchInv /\ OwnInv /\ [Next]_vars => OwnInv'
  BY OwnInvStep
<1> QED  BY <1>1, <1>2, TypeInvHolds, QueueInvHolds, DispatchInvHolds, PTL DEF Spec

(* The properties say the same of a request in the words of the model.       *)
LEMMA UsesIsBusy ==
  ASSUME TypeInv, NEW r, NEW f
  PROVE  /\ Uses(r, f) <=> Busy(r) /\ reqs[r].fd = f
         /\ JustAccepted(f) <=> Accepted(f)
<1>1. \A i \in DOMAIN cq : cq[i] \in CqeSet
  BY DEF TypeInv, TypeOK
<1>2. \A i \in DOMAIN cq : cq[i].ok \in BOOLEAN
  BY <1>1 DEF CqeSet
<1>3. (\E i \in DOMAIN cq : cq[i].req = r /\ cq[i].ok /\ cq[i].op = "recv") <=> Received(r)
  BY <1>1, <1>2 DEF Received, Has, ReceivedCqes
<1>4. JustAccepted(f) <=> Accepted(f)
  BY <1>1, <1>2 DEF JustAccepted, Accepted, Has, AcceptedCqes
<1> QED  BY <1>3, <1>4 DEF Uses, Busy

(* No two requests ever operate on one descriptor, and none on one that is   *)
(* closed or not handed over yet.                                            *)
THEOREM DescriptorsAreOwned == Spec => []DescriptorOwnership
<1>1. TypeInv /\ OwnInv => DescriptorOwnership
  <2> SUFFICES ASSUME TypeInv, Owned PROVE DescriptorOwnership
    BY DEF OwnInv, DescriptorOwnership
  <2> QED  BY UsesIsBusy DEF Owned, DescriptorOwnership
<1> QED  BY <1>1, TypeInvHolds, OwnInvHolds, PTL

-----------------------------------------------------------------------------
(* NothingLost.                                                              *)

(* No completion is an error, a slot that is not free is somewhere, and an   *)
(* open descriptor has been accepted just now or has an owner.               *)
AllOk == \A i \in DOMAIN cq : cq[i].ok = TRUE

SlotsKept == \A r \in ConnReqs : r \notin free => Outstanding(r)

HasOwner(f) == Accepted(f) \/ \E r \in ConnReqs : Busy(r) /\ reqs[r].fd = f

ConnsKept == \A f \in FD : sock[f].st # "free" => HasOwner(f)

KeptInv == Faults = {} /\ Running => AllOk /\ SlotsKept /\ ConnsKept

LEMMA AllOkStep ==
  ASSUME TypeInv, AllOk, [Next]_vars, Running', Faults = {}
  PROVE  AllOk'
<1>0. 0 \in 0..BufSize /\ \A c \in CqeSet : c.ok \in BOOLEAN
  BY ConstantsOK DEF CqeSet
<1>1. ASSUME UNCHANGED cq
      PROVE  AllOk'
  BY <1>1 DEF AllOk
<1>2. CASE LoopTop \/ SystemCall \/ Clients \/ Signal \/ UNCHANGED vars
  <2>1. UNCHANGED cq
    BY <1>2 DEF LoopTop, SystemCall, Clients, Signal, RearmAccept, NothingQueued, BeginDrain, Drain,
      EndDrain, Shutdown, Unwind, EnterKernel, Submit, Reap, Interrupted, PeerConnect, PeerSend,
      PeerFinish, vars, ring, Running
  <2> QED  BY <1>1, <2>1
<1>3. CASE Handler
  <2>1. todo > 0 /\ NextCompletion
    BY <1>3 DEF Handler, HandleError, RejectConnection, AcceptConnection, ReceiveEof, ReceiveData,
      SlicePanic, HandleClose, Handling, Running
  <2>2. cq \in Seq(CqeSet) /\ cq # <<>> /\ cq' = Tail(cq)
    BY <2>1 DEF TypeInv, TypeOK, NextCompletion
  <2> QED  BY <2>2, EntriesRemoved DEF AllOk
<1>4. CASE Kernel
  <2>1. ASSUME NEW c \in CqeSet, cq' = Append(cq, c), c.ok = TRUE
        PROVE  AllOk'
    BY <2>1, CqAppended DEF AllOk, TypeInv
  <2>2. ASSUME NEW f \in FD, AcceptDone(f)
        PROVE  AllOk'
    <3> DEFINE c == Cqe(AcceptSqe(AcceptReq), TRUE, f, 0)
    <3>1. c \in CqeSet /\ c.ok = TRUE /\ cq' = Append(cq, c)
      BY <1>0, <2>2, AcceptSqeType, CqeType DEF Cqe, AcceptDone
    <3> HIDE DEF c
    <3> QED  BY <2>1, <3>1
  <2>3. ~AcceptFails /\ \A e \in inflight : ~RecvFails(e)
    BY DEF AcceptFails, RecvFails
  <2>4. ASSUME NEW e \in inflight, RecvDone(e) \/ CloseDone(e)
        PROVE  AllOk'
    <3>1. e \in Sqe /\ e.fd \in FD \cup {ListenFd} /\ e.start \in 0..BufSize
      BY DEF TypeInv, TypeOK, Sqe
    <3>2. \E n \in 0..BufSize : cq' = Append(cq, Cqe(e, TRUE, e.fd, n))
      <4>1. CASE RecvDone(e)
        <5>1. PICK n \in RecvResults(sock[e.fd], BufSize - e.start) : cq' = Append(cq, Cqe(e, TRUE, e.fd, n))
          BY <4>1 DEF RecvDone
        <5>2. n \in 0..BufSize
          BY <3>1, ConstantsOK DEF RecvResults
        <5> QED  BY <5>1, <5>2
      <4>2. CASE CloseDone(e)
        BY <1>0, <4>2 DEF CloseDone
      <4> QED  BY <2>4, <4>1, <4>2
    <3>3. PICK n \in 0..BufSize : cq' = Append(cq, Cqe(e, TRUE, e.fd, n))
      BY <3>2
    <3>4. Cqe(e, TRUE, e.fd, n) \in CqeSet /\ Cqe(e, TRUE, e.fd, n).ok = TRUE
      BY <3>1, CqeType DEF Cqe
    <3> QED  BY <2>1, <3>3, <3>4
  <2> QED  BY <1>4, <2>2, <2>3, <2>4 DEF Kernel
<1> QED  BY <1>2, <1>3, <1>4 DEF Next, Server

(* A completion without an error is not handled as one.                      *)
LEMMA NoErrorHandled ==
  ASSUME TypeInv, AllOk
  PROVE  ~HandleError
<1> SUFFICES ASSUME HandleError PROVE FALSE
  OBVIOUS
<1>1. todo > 0 /\ NextCompletion /\ ~Completion.ok
  BY DEF HandleError
<1>2. cq \in Seq(CqeSet) /\ cq # <<>>
  BY <1>1 DEF TypeInv, TypeOK
<1>3. \E j \in DOMAIN cq : Completion = cq[j]
  BY <1>2, EntriesRemoved DEF Completion
<1> QED  BY <1>1, <1>3 DEF AllOk

LEMMA OutstandingUnmoved ==
  ASSUME UNCHANGED <<sq, inflight, cq, queue>>
  PROVE  \A r : Outstanding(r)' <=> Outstanding(r)
BY Unmoved DEF Outstanding

(* A request that leaves one place is at another then, or free.              *)
LEMMA SlotsKeptStep ==
  ASSUME TypeInv, QueueInv, DispatchInv, AllOk, SlotsKept, [Next]_vars, Running'
  PROVE  SlotsKept'
<1>1. ASSUME UNCHANGED <<sq, inflight, cq, queue, free>>
      PROVE  SlotsKept'
  BY <1>1, OutstandingUnmoved DEF SlotsKept
<1>2. CASE LoopTop
  <2>1. CASE RearmAccept
    <3>1. sq' = Append(sq, AcceptSqe(AcceptReq)) /\ UNCHANGED <<inflight, cq, queue, free>>
      BY <2>1 DEF RearmAccept, pool
    <3>2. \A r : Prepared(r) => Prepared(r)'
      BY <3>1, AcceptSqeType, SqAppended DEF TypeInv
    <3> QED  BY <3>1, <3>2, Unmoved DEF SlotsKept, Outstanding
  <2>2. CASE NothingQueued \/ BeginDrain \/ EndDrain \/ Shutdown
    BY <1>1, <2>2 DEF NothingQueued, BeginDrain, EndDrain, Shutdown, pool, ring
  <2>3. CASE Drain
    <3>1. /\ sq' = Append(sq, DrainSqe(Head(queue))) /\ queue # <<>> /\ queue' = Tail(queue)
          /\ UNCHANGED <<inflight, cq, free>>
      BY <2>3 DEF Drain, pool
    <3>2. /\ DrainSqe(Head(queue)) \in Sqe
          /\ DrainSqe(Head(queue)).req = Head(queue)
      <4>1. reqs[Head(queue)].operation \in ReqOperation
        BY <3>1 DEF TypeOK, TypeInv, QueuedOps
      <4> QED  BY <3>1, <4>1, DrainSqeType DEF DrainSqe, AcceptSqe, RecvSqe, CloseSqe, ReqOperation
    <3>3. \A r : Prepared(r)' <=> Prepared(r) \/ Head(queue) = r
      BY <3>1, <3>2, SqAppended DEF TypeInv
    <3>4. \A r : Queued(r) <=> Queued(r)' \/ Head(queue) = r
      BY <3>1, QueueRemoved DEF TypeInv
    <3> QED  BY <3>1, <3>3, <3>4, Unmoved DEF SlotsKept, Outstanding
  <2>4. ~Unwind
    BY DEF Unwind, Running
  <2> QED  BY <1>2, <2>1, <2>2, <2>3, <2>4 DEF LoopTop
<1>3. CASE SystemCall
  <2>1. CASE EnterKernel \/ Reap \/ Interrupted
    BY <1>1, <2>1 DEF EnterKernel, Reap, Interrupted, pool, ring
  <2>2. CASE Submit
    <3>1. /\ sq # <<>> /\ sq' = Tail(sq) /\ UNCHANGED <<cq, queue, free>>
          /\ inflight' = IF Head(sq).op = "accept" THEN inflight ELSE inflight \cup {Head(sq)}
      BY <2>2 DEF Submit, pool
    <3>2. \A r : Prepared(r) <=> Prepared(r)' \/ Head(sq).req = r
      BY <3>1, SqRemoved DEF TypeInv
    <3>3. Head(sq).op = "accept" => Head(sq).req = AcceptReq
      <4>1. PICK j \in DOMAIN sq : Head(sq) = sq[j]
        BY <3>1, SqRemoved DEF TypeInv
      <4>2. sq[j] \in Sqe
        BY DEF TypeInv, TypeOK
      <4>3. sq[j].req \in Reqs
        BY <4>2 DEF Sqe
      <4> QED  BY <4>1, <4>3 DEF DispatchInv, FaithfulInv, Faithful, ListenerInv
    <3>4. \A r \in ConnReqs : InKernel(r) \/ Head(sq).req = r => InKernel(r)'
      BY <3>1, <3>3 DEF InKernel, ConnReqs
    <3> QED  BY <3>1, <3>2, <3>4, Unmoved DEF SlotsKept, Outstanding
  <2> QED  BY <1>3, <2>1, <2>2 DEF SystemCall
<1>4. CASE Handler
  <2>0. todo > 0 /\ NextCompletion
    BY <1>4 DEF Handler, HandleError, RejectConnection, AcceptConnection, ReceiveEof, ReceiveData,
      SlicePanic, HandleClose, Handling, Running
  <2>1. \A r : Completed(r) <=> Completed(r)' \/ Completion.req = r
    BY <2>0, CompletionTaken
  <2>2. CASE RejectConnection
    <3>1. Completion.req = AcceptReq
      BY <2>0, <2>2, CompletionTaken DEF RejectConnection, Handling, DispatchInv, ListenerInv
    <3>2. \A r \in ConnReqs : Completed(r) => Completed(r)'
      BY <2>1, <3>1 DEF ConnReqs
    <3>3. UNCHANGED <<sq, inflight, queue, free>>
      BY <2>2 DEF RejectConnection, pool
    <3> QED  BY <3>2, <3>3, Unmoved DEF SlotsKept, Outstanding
  <2>3. ASSUME NEW r \in Reqs, AcceptConnection(r)
        PROVE  SlotsKept'
    <3>1. free' = free \ {r} /\ UNCHANGED inflight
      BY <2>3 DEF AcceptConnection, TakeSlot
    <3>2. /\ Completion.req = AcceptReq /\ (Prepared(r)' \/ Queued(r)')
          /\ \A q \in ConnReqs : q # r => (Prepared(q)' <=> Prepared(q)) /\ (Queued(q)' <=> Queued(q))
      BY <2>3, AcceptPlaces
    <3>3. \A q \in ConnReqs : Completed(q) => Completed(q)'
      BY <2>1, <3>2 DEF ConnReqs
    <3> QED  BY <3>1, <3>2, <3>3, Unmoved DEF SlotsKept, Outstanding
  <2>4. CASE ReceiveEof \/ ReceiveData
    <3>1. UNCHANGED <<inflight, free>>
      BY <2>4 DEF ReceiveEof, ReceiveData
    <3>2. PICK c \in ConnReqs, e \in Sqe : Completion.req = c /\ e.req = c /\ SubmitOrQueue(e)
      BY <2>4, ReceivePlaces
    <3>3. /\ \A r : r # c => (Prepared(r)' <=> Prepared(r)) /\ (Queued(r)' <=> Queued(r))
          /\ Prepared(c)' \/ Queued(c)'
      <4>1. ~Prepared(c) /\ ~Queued(c)
        BY <2>0, <3>2, CompletionTaken
      <4> QED  BY <3>2, <4>1, PlacedOnce DEF TypeInv
    <3>4. \A r \in ConnReqs : r # c /\ Completed(r) => Completed(r)'
      BY <2>1, <3>2
    <3> QED  BY <3>1, <3>3, <3>4, Unmoved DEF SlotsKept, Outstanding
  <2>5. CASE HandleClose
    <3>1. UNCHANGED <<sq, inflight, queue>> /\ free' = free \cup {Completion.req}
      BY <2>5 DEF HandleClose
    <3> QED  BY <2>1, <3>1, Unmoved DEF SlotsKept, Outstanding
  <2>6. ~SlicePanic
    BY DEF SlicePanic, Running
  <2> QED  BY <1>4, <2>2, <2>3, <2>4, <2>5, <2>6, NoErrorHandled DEF Handler
<1>5. CASE Kernel
  <2>1. ASSUME NEW c \in CqeSet, cq' = Append(cq, c), UNCHANGED <<sq, queue, free>>,
               \A r \in ConnReqs : InKernel(r) => InKernel(r)' \/ c.req = r
        PROVE  SlotsKept'
    <3>1. \A r : Completed(r)' <=> Completed(r) \/ c.req = r
      BY <2>1, CqAppended DEF TypeInv
    <3> QED  BY <2>1, <3>1, Unmoved DEF SlotsKept, Outstanding
  <2>2. 0 \in 0..BufSize
    BY ConstantsOK
  <2>3. ASSUME NEW f \in FD \cup {ListenFd}, NEW ok \in BOOLEAN,
               cq' = Append(cq, Cqe(AcceptSqe(AcceptReq), ok, f, 0)),
               UNCHANGED <<sq, queue, free, inflight>>
        PROVE  SlotsKept'
    <3>1. Cqe(AcceptSqe(AcceptReq), ok, f, 0) \in CqeSet
      BY <2>2, AcceptSqeType, CqeType
    <3> QED  BY <2>1, <2>3, <3>1, Unmoved
  <2>4. ASSUME NEW e \in inflight, RecvDone(e) \/ CloseDone(e) \/ RecvFails(e)
        PROVE  SlotsKept'
    <3>1. e \in Sqe /\ e.fd \in FD \cup {ListenFd} /\ e.start \in 0..BufSize
      BY DEF TypeInv, TypeOK, Sqe
    <3>2. inflight' = inflight \ {e} /\ UNCHANGED <<sq, queue, free>>
      BY <2>4 DEF RecvDone, CloseDone, RecvFails, pool
    <3>3. \E ok \in BOOLEAN, n \in 0..BufSize : cq' = Append(cq, Cqe(e, ok, e.fd, n))
      <4>1. CASE RecvDone(e)
        <5>1. PICK n \in RecvResults(sock[e.fd], BufSize - e.start) : cq' = Append(cq, Cqe(e, TRUE, e.fd, n))
          BY <4>1 DEF RecvDone
        <5>2. n \in 0..BufSize
          BY <3>1, ConstantsOK DEF RecvResults
        <5> QED  BY <5>1, <5>2
      <4>2. CASE CloseDone(e) \/ RecvFails(e)
        BY <2>2, <4>2 DEF CloseDone, RecvFails
      <4> QED  BY <2>4, <4>1, <4>2
    <3>4. PICK ok \in BOOLEAN, n \in 0..BufSize : cq' = Append(cq, Cqe(e, ok, e.fd, n))
      BY <3>3
    <3>5. Cqe(e, ok, e.fd, n) \in CqeSet /\ Cqe(e, ok, e.fd, n).req = e.req
      BY <3>1, CqeType DEF Cqe
    <3>6. \A r \in ConnReqs : InKernel(r) => InKernel(r)' \/ e.req = r
      BY <3>2 DEF InKernel
    <3> QED  BY <2>1, <3>2, <3>4, <3>5, <3>6
  <2>5. ASSUME NEW f \in FD, AcceptDone(f)
        PROVE  SlotsKept'
    BY <2>3, <2>5 DEF AcceptDone, pool
  <2>6. CASE AcceptFails
    BY <2>3, <2>6 DEF AcceptFails, pool
  <2> QED  BY <1>5, <2>4, <2>5, <2>6 DEF Kernel
<1>6. CASE Clients \/ Signal \/ UNCHANGED vars
  BY <1>1, <1>6 DEF Clients, Signal, PeerConnect, PeerSend, PeerFinish, vars, pool, ring
<1> QED  BY <1>2, <1>3, <1>4, <1>5, <1>6 DEF Next, Server

LEMMA SameOwnersKeep ==
  ASSUME SameOwners, SameAccepted, NEW f \in FD, HasOwner(f)
  PROVE  HasOwner(f)'
BY DEF HasOwner, SameOwners, SameAccepted

(* Whatever is open is accepted by somebody, and closed by its owner.        *)
LEMMA ConnsKeptStep ==
  ASSUME TypeInv, QueueInv, DispatchInv, AllOk, ConnsKept, [Next]_vars, Running', Faults = {}
  PROVE  ConnsKept'
<1>0. /\ sock \in [FD -> [st : {"free", "up", "fin"}, unread : Nat]]
      /\ 0 \in 0..BufSize /\ TRUE \in BOOLEAN
  BY ConstantsOK DEF TypeInv, TypeOK
<1>1. ASSUME SameOwners, SameAccepted, \A f \in FD : sock'[f].st # "free" => sock[f].st # "free"
      PROVE  ConnsKept'
  BY <1>1, SameOwnersKeep DEF ConnsKept
<1>2. CASE LoopTop
  <2>1. ~Unwind
    BY DEF Unwind, Running
  <2>2. UNCHANGED sock
    BY <1>2, <2>1 DEF LoopTop, RearmAccept, NothingQueued, BeginDrain, Drain, EndDrain, Shutdown, net
  <2> QED  BY <1>1, <1>2, <2>1, <2>2, LoopOwners
<1>3. CASE SystemCall
  <2>1. UNCHANGED sock
    BY <1>3 DEF SystemCall, EnterKernel, Submit, Reap, Interrupted, net
  <2> QED  BY <1>1, <1>3, <2>1, SystemCallOwners
<1>4. CASE Handler
  <2>1. CASE RejectConnection
    <3>1. Handling("accept") /\ NextCompletion
      BY <2>1 DEF RejectConnection
    <3>2. \A f \in FD : sock'[f].st # "free" => f # Completion.fd /\ sock[f].st # "free"
      BY <1>0, <2>1, RejectOwners DEF NoConn
    <3>3. \A f \in FD : f # Completion.fd => (Accepted(f) => Accepted(f)')
      BY <3>1, AcceptTaken
    <3>4. SameOwners
      BY <2>1, RejectOwners
    <3> QED  BY <3>2, <3>3, <3>4 DEF ConnsKept, HasOwner, SameOwners
  <2>2. ASSUME NEW r \in Reqs, AcceptConnection(r)
        PROVE  ConnsKept'
    <3>1. Handling("accept") /\ NextCompletion /\ UNCHANGED sock
      BY <2>2 DEF AcceptConnection, net
    <3>2. \A f \in FD : f # Completion.fd => (Accepted(f) => Accepted(f)')
      BY <3>1, AcceptTaken
    <3>3. /\ r \in ConnReqs /\ Busy(r)' /\ reqs'[r].fd = Completion.fd
          /\ \A q \in ConnReqs : Busy(q) => Busy(q)' /\ reqs'[q].fd = reqs[q].fd
      BY <2>2, AcceptOwners
    <3> SUFFICES ASSUME NEW f \in FD, sock[f].st # "free"
                 PROVE  HasOwner(f)'
      BY <3>1 DEF ConnsKept
    <3>4. CASE f = Completion.fd
      BY <3>3, <3>4 DEF HasOwner
    <3>5. CASE f # Completion.fd
      BY <3>2, <3>3, <3>5 DEF ConnsKept, HasOwner
    <3> QED  BY <3>4, <3>5
  <2>3. CASE ReceiveEof \/ ReceiveData
    <3>1. UNCHANGED sock
      BY <2>3 DEF ReceiveEof, ReceiveData, net
    <3> QED  BY <1>1, <2>3, <3>1, ReceiveOwners
  <2>4. CASE HandleClose
    <3>1. UNCHANGED sock
      BY <2>4 DEF HandleClose, net
    <3> QED  BY <1>1, <2>4, <3>1, CloseOwners
  <2>5. ~SlicePanic
    BY DEF SlicePanic, Running
  <2> QED  BY <1>4, <2>1, <2>2, <2>3, <2>4, <2>5, NoErrorHandled DEF Handler
<1>5. CASE Kernel
  <2>1. ASSUME NEW f \in FD, AcceptDone(f)
        PROVE  ConnsKept'
    <3>1. /\ \A g \in FD : Accepted(g)' <=> Accepted(g) \/ g = f
          /\ SameOwners
      BY <2>1, AcceptDoneOwners
    <3>2. \A g \in FD : g # f => sock'[g] = sock[g]
      BY <1>0, <2>1 DEF AcceptDone
    <3> QED  BY <3>1, <3>2 DEF ConnsKept, HasOwner, SameOwners
  <2>2. ~AcceptFails /\ \A e \in inflight : ~RecvFails(e)
    BY DEF AcceptFails, RecvFails
  <2>3. ASSUME NEW e \in inflight, RecvDone(e)
        PROVE  ConnsKept'
    <3>1. \A f \in FD : sock'[f].st = sock[f].st
      BY <1>0, <2>3 DEF RecvDone
    <3> QED  BY <1>1, <2>3, <3>1, RecvDoneOwners
  <2>4. ASSUME NEW e \in inflight, CloseDone(e)
        PROVE  ConnsKept'
    <3>1. \A f \in FD : sock'[f].st # "free" => f # e.fd /\ sock[f].st # "free"
      BY <1>0, <2>4 DEF CloseDone, NoConn
    <3>2. e.fd = reqs[e.req].fd
      <4>1. inflight' = inflight \ {e}
        BY <2>4 DEF CloseDone
      <4> QED  BY <1>0, <4>1, Answered
    <3>3. /\ \A r \in ConnReqs : Busy(r) /\ r # e.req => Busy(r)'
          /\ UNCHANGED reqs
          /\ \A f \in FD : Accepted(f) => Accepted(f)'
      BY <2>4, EndedOwners DEF SameAccepted
    <3> QED  BY <3>1, <3>2, <3>3 DEF ConnsKept, HasOwner
  <2> QED  BY <1>5, <2>1, <2>2, <2>3, <2>4 DEF Kernel
<1>6. CASE Clients
  <2>1. UNCHANGED <<sq, inflight, cq, queue, reqs>>
    BY <1>6 DEF Clients, PeerConnect, PeerSend, PeerFinish, pool, ring
  <2>2. \A f \in FD : sock'[f].st # "free" => sock[f].st # "free"
    BY <1>0, <1>6 DEF Clients, PeerConnect, PeerSend, PeerFinish
  <2> QED  BY <1>1, <2>1, <2>2, PlacesUnchanged
<1>7. CASE Signal \/ UNCHANGED vars
  <2>1. UNCHANGED <<sq, inflight, cq, queue, reqs, sock>>
    BY <1>7 DEF Signal, vars, pool, ring, net
  <2> QED  BY <1>1, <2>1, PlacesUnchanged
<1> QED  BY <1>2, <1>3, <1>4, <1>5, <1>6, <1>7 DEF Next, Server

LEMMA KeptInvHolds == Spec => []KeptInv
<1>1. Init => KeptInv
  <2> SUFFICES ASSUME Init PROVE AllOk /\ SlotsKept /\ ConnsKept
    BY DEF KeptInv
  <2>1. /\ DOMAIN cq = {} /\ free = ConnReqs
        /\ \A f \in FD : sock[f].st = "free"
    BY DEF Init, ConnReqs, NoConn
  <2> QED  BY <2>1 DEF AllOk, SlotsKept, ConnsKept
<1>2. TypeInv /\ QueueInv /\ DispatchInv /\ KeptInv /\ [Next]_vars => KeptInv'
  BY RunningBefore, AllOkStep, SlotsKeptStep, ConnsKeptStep DEF KeptInv
<1> QED  BY <1>1, <1>2, TypeInvHolds, QueueInvHolds, DispatchInvHolds, PTL DEF Spec

(* Without errors from the kernel no slot and no connection is forgotten.    *)
THEOREM NothingIsLost == Spec => []NothingLost
<1>1. TypeInv /\ KeptInv => NothingLost
  <2> SUFFICES ASSUME TypeInv, SlotsKept, ConnsKept
               PROVE  /\ \A r \in ConnReqs : r \notin free => Outstanding(r)
                      /\ \A f \in FD : sock[f].st # "free" =>
                            JustAccepted(f) \/ \E r \in ConnReqs : Uses(r, f)
    BY DEF KeptInv, NothingLost
  <2> QED  BY UsesIsBusy DEF SlotsKept, ConnsKept, HasOwner
<1> QED  BY <1>1, TypeInvHolds, KeptInvHolds, PTL

-----------------------------------------------------------------------------
(* NoPrematureClose.                                                         *)

(* The client of f has sent everything, and it has been received.            *)
Finished(f) == sock[f] = [st |-> "fin", unread |-> 0]

(* Completions that say the stream of f has ended.                           *)
EofCqes(f) == {c \in CqeSet : c.op = "recv" /\ c.ok = TRUE /\ c.fd = f /\ c.n = 0}

(* No recv is given an empty window, which would be answered with 0.         *)
Windows ==
  /\ \A i \in DOMAIN sq : sq[i].start < BufSize
  /\ \A e \in inflight : e.start < BufSize

EndsAreTrue ==
  /\ \A f \in FD : Has(cq, EofCqes(f)) => Finished(f)
  /\ \A r \in ConnReqs : \A f \in FD :
       Busy(r) /\ reqs[r].fd = f /\ reqs[r].operation = "close" => Finished(f)

CloseInv == Windows /\ (Running => EndsAreTrue)

LEMMA WindowsStep ==
  ASSUME TypeInv, QueueInv, DispatchInv, Windows, [Next]_vars
  PROVE  Windows'
<1>0. /\ \A e \in Sqe : e.start \in 0..BufSize
      /\ BufSize \in Nat \ {0}
  BY ConstantsOK DEF Sqe
<1>1. ASSUME UNCHANGED <<sq, inflight>>
      PROVE  Windows'
  BY <1>1 DEF Windows
<1>2. ASSUME NEW e \in Sqe, sq' = Append(sq, e), e.start < BufSize, UNCHANGED inflight
      PROVE  Windows'
  BY <1>2, SqAppended DEF Windows, TypeInv
<1>3. CASE LoopTop
  <2>1. CASE RearmAccept
    BY <1>0, <1>2, <2>1, AcceptSqeType DEF RearmAccept, AcceptSqe
  <2>2. CASE NothingQueued \/ BeginDrain \/ EndDrain \/ Shutdown
    BY <1>1, <2>2 DEF NothingQueued, BeginDrain, EndDrain, Shutdown, ring
  <2>3. CASE Drain
    <3>1. sq' = Append(sq, DrainSqe(Head(queue))) /\ queue # <<>> /\ UNCHANGED inflight
      BY <2>3 DEF Drain
    <3>2. DrainSqe(Head(queue)) \in Sqe /\ DrainSqe(Head(queue)).start = 0
      <4>1. reqs[Head(queue)].operation \in ReqOperation
        BY <3>1 DEF TypeOK, TypeInv, QueuedOps
      <4> QED  BY <3>1, <4>1, DrainSqeType DEF DrainSqe, AcceptSqe, RecvSqe, CloseSqe, ReqOperation
    <3> QED  BY <1>0, <1>2, <3>1, <3>2
  <2>4. CASE Unwind
    BY <2>4 DEF Unwind, Windows
  <2> QED  BY <1>3, <2>1, <2>2, <2>3, <2>4 DEF LoopTop
<1>4. CASE SystemCall
  <2>1. CASE EnterKernel \/ Reap \/ Interrupted
    BY <1>1, <2>1 DEF EnterKernel, Reap, Interrupted, ring
  <2>2. CASE Submit
    <3>1. /\ sq # <<>> /\ sq' = Tail(sq)
          /\ inflight' = inflight \/ inflight' = inflight \cup {Head(sq)}
      BY <2>2 DEF Submit
    <3>2. /\ \A i \in DOMAIN sq' : \E j \in DOMAIN sq : sq'[i] = sq[j]
          /\ \E j \in DOMAIN sq : Head(sq) = sq[j]
      BY <3>1, SqRemoved DEF TypeInv
    <3> QED  BY <3>1, <3>2 DEF Windows
  <2> QED  BY <1>4, <2>1, <2>2 DEF SystemCall
<1>5. CASE Handler
  <2>1. CASE HandleError \/ RejectConnection \/ SlicePanic \/ HandleClose
    BY <1>1, <2>1 DEF HandleError, RejectConnection, SlicePanic, HandleClose, ring
  <2>2. ASSUME NEW r \in Reqs, AcceptConnection(r)
        PROVE  Windows'
    <3>1. UNCHANGED inflight
      BY <2>2 DEF AcceptConnection
    <3>2. \A i \in DOMAIN sq' : sq'[i].start = 0 \/ \E j \in DOMAIN sq : sq'[i] = sq[j]
      BY <2>2, AcceptPlaces DEF RecvSqe, AcceptSqe
    <3> QED  BY <1>0, <3>1, <3>2 DEF Windows
  <2>3. CASE ReceiveEof \/ ReceiveData
    <3>1. PICK c \in ConnReqs, e \in Sqe :
            SubmitOrQueue(e) /\ (e.start = 0 \/ e.start = reqs'[c].position)
      BY <2>3, ReceivePlaces
    <3>2. e.start < BufSize
      <4>1. TypeInv'
        BY TypeInvStep
      <4>2. reqs'[c].position \in 0..(BufSize - 1)
        BY <4>1 DEF TypeInv, TypeOK, ConnReqs
      <4> QED  BY <1>0, <3>1, <4>2
    <3>3. UNCHANGED inflight /\ (sq' = Append(sq, e) \/ sq' = sq)
      BY <2>3, <3>1 DEF ReceiveEof, ReceiveData, SubmitOrQueue
    <3> QED  BY <1>1, <1>2, <3>2, <3>3
  <2> QED  BY <1>5, <2>1, <2>2, <2>3 DEF Handler
<1>6. CASE Kernel
  <2>1. CASE (\E f \in FD : AcceptDone(f)) \/ AcceptFails
    BY <1>1, <2>1 DEF AcceptDone, AcceptFails
  <2>2. ASSUME NEW e \in inflight, RecvDone(e) \/ CloseDone(e) \/ RecvFails(e)
        PROVE  Windows'
    <3>1. sq' = sq /\ inflight' = inflight \ {e}
      BY <2>2 DEF RecvDone, CloseDone, RecvFails
    <3> QED  BY <3>1 DEF Windows
  <2> QED  BY <1>6, <2>1, <2>2 DEF Kernel
<1>7. CASE Clients \/ Signal \/ UNCHANGED vars
  BY <1>1, <1>7 DEF Clients, Signal, PeerConnect, PeerSend, PeerFinish, vars, ring
<1> QED  BY <1>3, <1>4, <1>5, <1>6, <1>7 DEF Next, Server

(* The request of such a completion owns the descriptor.                     *)
LEMMA EofIsReceived ==
  ASSUME TypeInv, DispatchInv, NEW f \in FD, Has(cq, EofCqes(f))
  PROVE  \E r \in ConnReqs : Received(r) /\ reqs[r].fd = f
<1>1. PICK i \in DOMAIN cq : cq[i] \in EofCqes(f)
  BY DEF Has
<1>2. /\ cq[i] \in CqeSet /\ cq[i].op = "recv" /\ cq[i].ok = TRUE /\ cq[i].fd = f
      /\ Faithful(cq[i], reqs)
  BY <1>1 DEF EofCqes, DispatchInv, FaithfulInv
<1>3. cq[i].req \in ConnReqs /\ reqs[cq[i].req].fd = f
  <2>1. cq[i].req \in Reqs
    BY <1>2 DEF CqeSet
  <2> QED  BY <1>2, <2>1 DEF Faithful, DispatchInv, ListenerInv, ConnReqs
<1>4. Received(cq[i].req)
  BY <1>1, <1>2 DEF Received, Has, ReceivedCqes
<1> QED  BY <1>3, <1>4

(* What is received and closed stays true of a connection that is left.      *)
LEMMA EndsKept ==
  ASSUME EndsAreTrue, SameOwners,
         \A r \in ConnReqs : Busy(r) => reqs'[r].operation = reqs[r].operation,
         \A f \in FD : Has(cq', EofCqes(f)) => Has(cq, EofCqes(f)),
         \A f \in FD : Finished(f) => Finished(f)'
  PROVE  EndsAreTrue'
<1>1. \A f \in FD : Has(cq', EofCqes(f)) => Finished(f)'
  BY DEF EndsAreTrue
<1>2. \A r \in ConnReqs : \A f \in FD :
        Busy(r)' /\ reqs'[r].fd = f /\ reqs'[r].operation = "close" => Finished(f)'
  BY DEF EndsAreTrue, SameOwners
<1> QED  BY <1>1, <1>2 DEF EndsAreTrue, Has, EofCqes

(* A recv is answered with 0 at the end of the stream only.                  *)
LEMMA RecvDoneEnds ==
  ASSUME TypeInv, DispatchInv, Windows, EndsAreTrue, NEW e \in inflight, RecvDone(e)
  PROVE  EndsAreTrue'
<1>1. e.start \in 0..BufSize /\ e.start < BufSize /\ BufSize \in Nat
  BY ConstantsOK DEF TypeInv, TypeOK, Sqe, Windows
<1>2. PICK n \in RecvResults(sock[e.fd], BufSize - e.start) :
        /\ cq' = Append(cq, Cqe(e, TRUE, e.fd, n))
        /\ sock' = [sock EXCEPT ![e.fd].unread = @ - n]
  BY DEF RecvDone
<1>3. n \in 0..BufSize
  BY <1>1, <1>2 DEF RecvResults
<1>4. /\ e.op = "recv" /\ inflight' = inflight \ {e} /\ UNCHANGED reqs
  BY DEF RecvDone, pool
<1> DEFINE c == Cqe(e, TRUE, e.fd, n)
<1>5. c \in CqeSet /\ c.fd = e.fd /\ c.n = n /\ cq' = Append(cq, c)
  BY <1>2, <1>3, <1>4, Answered DEF Cqe
<1> HIDE DEF c
<1>6. sock \in [FD -> [st : {"free", "up", "fin"}, unread : Nat]]
  BY DEF TypeInv, TypeOK
<1>7. \A f \in FD : f # e.fd => sock'[f] = sock[f]
  BY <1>2, <1>6
<1>8. e.fd \in FD =>
        /\ n = 0 => Finished(e.fd)
        /\ Finished(e.fd) => n = 0
  <2> SUFFICES ASSUME e.fd \in FD
               PROVE  (n = 0 => Finished(e.fd)) /\ (Finished(e.fd) => n = 0)
    OBVIOUS
  <2> DEFINE s == sock[e.fd]
  <2>1. s.st \in {"free", "up", "fin"} /\ s.unread \in Nat
        /\ s = [st |-> s.st, unread |-> s.unread]
    BY <1>6
  <2>2. n \in RecvResults(s, BufSize - e.start) /\ BufSize - e.start # 0
    BY <1>1, <1>2
  <2> HIDE DEF s
  <2>3. n = 0 => s.unread = 0 /\ s.st = "fin"
    BY <2>2 DEF RecvResults
  <2>4. s.unread = 0 /\ s.st = "fin" => n = 0
    BY <2>2 DEF RecvResults
  <2>5. Finished(e.fd) <=> s.unread = 0 /\ s.st = "fin"
    BY <2>1 DEF Finished, s
  <2> QED  BY <2>3, <2>4, <2>5
<1>9. \A f \in FD : Finished(f) => Finished(f)'
  <2> SUFFICES ASSUME NEW f \in FD, Finished(f) PROVE Finished(f)'
    OBVIOUS
  <2>1. CASE f = e.fd
    <3>1. sock' = [sock EXCEPT ![f].unread = @ - 0] /\ sock[f] = [st |-> "fin", unread |-> 0]
      BY <1>2, <1>8, <2>1 DEF Finished
    <3>2. sock'[f] = [st |-> "fin", unread |-> 0]
      BY <1>6, <3>1
    <3> QED  BY <3>2 DEF Finished
  <2>2. CASE f # e.fd
    BY <1>7, <2>2 DEF Finished
  <2> QED  BY <2>1, <2>2
<1>10. \A f \in FD : Has(cq', EofCqes(f)) => Has(cq, EofCqes(f)) \/ (f = e.fd /\ n = 0)
  <2>1. \A f \in FD : Has(cq', EofCqes(f)) => Has(cq, EofCqes(f)) \/ c \in EofCqes(f)
    BY <1>5, Posted
  <2>2. \A f \in FD : c \in EofCqes(f) => f = e.fd /\ n = 0
    BY <1>5 DEF EofCqes
  <2> QED  BY <2>1, <2>2
<1>11. \A f \in FD : Has(cq', EofCqes(f)) => Finished(f)'
  BY <1>8, <1>9, <1>10 DEF EndsAreTrue
<1>12. \A r \in ConnReqs : \A f \in FD :
        Busy(r)' /\ reqs'[r].fd = f /\ reqs'[r].operation = "close" => Finished(f)'
  BY <1>4, <1>9, RecvDoneOwners DEF EndsAreTrue, SameOwners
<1> QED  BY <1>11, <1>12 DEF EndsAreTrue, Has, EofCqes

(* Who closes a descriptor is the only one that it concerned.                *)
LEMMA EndedEnds ==
  ASSUME TypeInv, DispatchInv, Owned, EndsAreTrue, NEW e \in inflight, CloseDone(e) \/ RecvFails(e)
  PROVE  EndsAreTrue'
<1>0. 0 \in 0..BufSize
  BY ConstantsOK
<1>1. PICK ok \in BOOLEAN : cq' = Append(cq, Cqe(e, ok, e.fd, 0)) /\ (ok # TRUE \/ e.op = "close")
  BY DEF CloseDone, RecvFails
<1>2. inflight' = inflight \ {e}
  BY DEF CloseDone, RecvFails
<1>3. sock' = [sock EXCEPT ![e.fd] = NoConn] \/ sock' = sock
  BY DEF CloseDone, RecvFails, net
<1>4. \A f \in FD : f # e.fd => sock'[f] = sock[f]
  BY <1>3 DEF TypeInv, TypeOK
<1>5. e.req \in ConnReqs /\ e.fd = reqs[e.req].fd /\ Busy(e.req) /\ ~Received(e.req)
  BY <1>0, <1>1, <1>2, Answered
<1>6. /\ \A r \in ConnReqs : Busy(r)' => Busy(r) /\ r # e.req
      /\ UNCHANGED reqs
  BY EndedOwners
<1>7. \A r \in ConnReqs : Busy(r)' /\ reqs[r].fd \in FD => reqs[r].fd # e.fd
  BY <1>5, <1>6 DEF Owned
<1>8. \A f \in FD : Has(cq', EofCqes(f)) => Has(cq, EofCqes(f))
  <2> DEFINE c == Cqe(e, ok, e.fd, 0)
  <2>1. c \in CqeSet /\ (c.ok # TRUE \/ c.op = "close") /\ cq' = Append(cq, c)
    BY <1>0, <1>1, <1>2, Answered DEF Cqe
  <2> HIDE DEF c
  <2>2. \A f \in FD : c \notin EofCqes(f)
    BY <2>1 DEF EofCqes
  <2> QED  BY <2>1, <2>2, Posted
<1>9. \A f \in FD : Has(cq, EofCqes(f)) => f # e.fd
  BY <1>5, EofIsReceived DEF Owned, Busy
<1>10. \A f \in FD : Has(cq', EofCqes(f)) => Finished(f)'
  BY <1>4, <1>8, <1>9 DEF EndsAreTrue, Finished
<1>11. \A r \in ConnReqs : \A f \in FD :
        Busy(r)' /\ reqs'[r].fd = f /\ reqs'[r].operation = "close" => Finished(f)'
  BY <1>4, <1>6, <1>7 DEF EndsAreTrue, Finished
<1> QED  BY <1>10, <1>11 DEF EndsAreTrue, Has, EofCqes

(* A new connection, or one that is turned away, is nobody's yet.            *)
LEMMA AcceptDoneEnds ==
  ASSUME TypeInv, EndsAreTrue, NEW f \in FD, AcceptDone(f)
  PROVE  EndsAreTrue'
<1>1. /\ sock[f].st = "free" /\ sock' = [sock EXCEPT ![f] = [st |-> "up", unread |-> 0]]
      /\ sock \in [FD -> [st : {"free", "up", "fin"}, unread : Nat]]
      /\ UNCHANGED reqs
  BY DEF AcceptDone, TypeInv, TypeOK, pool
<1>2. ~Finished(f) /\ \A g \in FD : g # f => sock'[g] = sock[g]
  BY <1>1 DEF Finished
<1>3. \A g \in FD : Finished(g) => Finished(g)'
  BY <1>2 DEF Finished
<1> DEFINE c == Cqe(AcceptSqe(AcceptReq), TRUE, f, 0)
<1>4. c \in CqeSet /\ c.op = "accept" /\ cq' = Append(cq, c)
  <2>1. 0 \in 0..BufSize
    BY ConstantsOK
  <2> QED  BY <2>1, AcceptSqeType, CqeType DEF AcceptSqe, Cqe, AcceptDone
<1> HIDE DEF c
<1>5. \A g \in FD : c \notin EofCqes(g)
  BY <1>4 DEF EofCqes
<1>6. \A g \in FD : Has(cq', EofCqes(g)) => Has(cq, EofCqes(g))
  BY <1>4, <1>5, Posted
<1> QED  BY <1>1, <1>3, <1>6, AcceptDoneOwners, EndsKept

LEMMA RejectEnds ==
  ASSUME TypeInv, DispatchInv, Owned, EndsAreTrue, RejectConnection
  PROVE  EndsAreTrue'
<1>1. Handling("accept") /\ NextCompletion /\ todo > 0 /\ UNCHANGED reqs
  BY DEF RejectConnection, Handling, pool
<1>2. \A f \in FD : f = Completion.fd => Accepted(f)
  BY <1>1, AcceptTaken
<1>3. \A r \in ConnReqs : Busy(r) /\ reqs[r].fd \in FD => reqs[r].fd # Completion.fd
  BY <1>2 DEF Owned
<1>4. \A f \in FD : Has(cq', EofCqes(f)) => Has(cq, EofCqes(f)) /\ f # Completion.fd
  <2>1. \A f \in FD : Has(cq', EofCqes(f)) => Has(cq, EofCqes(f))
    BY <1>1, Handled
  <2> QED  BY <1>3, <2>1, EofIsReceived DEF Busy
<1>5. \A f \in FD : f # Completion.fd /\ Finished(f) => Finished(f)'
  BY RejectOwners DEF Finished
<1>6. \A f \in FD : Has(cq', EofCqes(f)) => Finished(f)'
  BY <1>4, <1>5 DEF EndsAreTrue
<1>7. \A r \in ConnReqs : \A f \in FD :
        Busy(r)' /\ reqs'[r].fd = f /\ reqs'[r].operation = "close" => Finished(f)'
  BY <1>1, <1>3, <1>5, RejectOwners DEF EndsAreTrue, SameOwners
<1> QED  BY <1>6, <1>7 DEF EndsAreTrue, Has, EofCqes

(* A slot starts with a recv.                                                *)
LEMMA AcceptEnds ==
  ASSUME TypeInv, QueueInv, DispatchInv, EndsAreTrue, NEW r \in Reqs, AcceptConnection(r)
  PROVE  EndsAreTrue'
<1>1. NextCompletion /\ todo > 0 /\ UNCHANGED sock
  BY DEF AcceptConnection, Handling, net
<1>2. \A f \in FD : Has(cq', EofCqes(f)) => Has(cq, EofCqes(f))
  BY <1>1, Handled
<1>3. \A f \in FD : Finished(f)' <=> Finished(f)
  BY <1>1 DEF Finished
<1>4. \A q \in ConnReqs : q # r => (Busy(q)' <=> Busy(q)) /\ reqs'[q] = reqs[q]
  BY AcceptOwners
<1>5. reqs'[r].operation # "close"
  BY AcceptOwners
<1>6. \A q \in ConnReqs : \A f \in FD :
        Busy(q)' /\ reqs'[q].fd = f /\ reqs'[q].operation = "close" => Finished(f)'
  BY <1>3, <1>4, <1>5 DEF EndsAreTrue
<1> QED  BY <1>2, <1>3, <1>6 DEF EndsAreTrue, Has, EofCqes

(* A request turns into a close after the end of its stream only.            *)
LEMMA ReceiveEnds ==
  ASSUME TypeInv, DispatchInv, EndsAreTrue, ReceiveEof \/ ReceiveData
  PROVE  EndsAreTrue'
<1>1. NextCompletion /\ todo > 0 /\ UNCHANGED sock
  BY DEF ReceiveEof, ReceiveData, Handling, net
<1>2. PICK c \in ConnReqs, e \in Sqe :
        /\ Completion.req = c /\ Completion.op = "recv"
        /\ e.op = reqs'[c].operation /\ reqs'[c].fd = reqs[c].fd
        /\ \A r \in Reqs \ {c} : reqs'[r] = reqs[r]
        /\ \/ e.op = "close" /\ Completion.n = 0
           \/ e.op = "recv"
  BY ReceivePlaces
<1>3. \A f \in FD : Has(cq', EofCqes(f)) => Has(cq, EofCqes(f))
  BY <1>1, Handled
<1>4. \A f \in FD : Finished(f)' <=> Finished(f)
  BY <1>1 DEF Finished
<1>5. reqs'[c].operation = "close" /\ reqs[c].fd \in FD => Finished(reqs[c].fd)
  <2> SUFFICES ASSUME reqs'[c].operation = "close", reqs[c].fd \in FD
               PROVE  Has(cq, EofCqes(reqs[c].fd))
    BY DEF EndsAreTrue
  <2>1. Completion \in CqeSet /\ Completion.ok = TRUE
    BY ReceiveOwners DEF ReceivedCqes
  <2>2. Completion.n = 0 /\ Completion.fd = reqs[c].fd
    BY <1>1, <1>2, CompletionTaken DEF Faithful
  <2>3. Completion \in EofCqes(reqs[c].fd)
    BY <1>2, <2>1, <2>2 DEF EofCqes
  <2> QED  BY <1>1, <2>3, Handled
<1>6. \A r \in ConnReqs \ {c} : reqs'[r] = reqs[r]
  BY <1>2 DEF ConnReqs
<1>7. \A r \in ConnReqs : \A f \in FD :
        Busy(r)' /\ reqs'[r].fd = f /\ reqs'[r].operation = "close" => Finished(f)'
  BY <1>2, <1>4, <1>5, <1>6, ReceiveOwners DEF EndsAreTrue, SameOwners
<1> QED  BY <1>3, <1>4, <1>7 DEF EndsAreTrue, Has, EofCqes

LEMMA EndsStep ==
  ASSUME TypeInv, QueueInv, DispatchInv, Owned, Windows, EndsAreTrue, [Next]_vars, Running'
  PROVE  EndsAreTrue'
<1>1. ASSUME SameOwners, UNCHANGED reqs, \A f \in FD : Has(cq', EofCqes(f)) => Has(cq, EofCqes(f)),
             \A f \in FD : Finished(f) => Finished(f)'
      PROVE  EndsAreTrue'
  BY <1>1, EndsKept
<1>2. ASSUME UNCHANGED cq
      PROVE  \A f \in FD : Has(cq', EofCqes(f)) => Has(cq, EofCqes(f))
  BY <1>2
<1>3. ASSUME UNCHANGED sock
      PROVE  \A f \in FD : Finished(f) => Finished(f)'
  BY <1>3 DEF Finished
<1>4. CASE LoopTop
  <2>1. ~Unwind
    BY DEF Unwind, Running
  <2>2. UNCHANGED <<reqs, cq, sock>>
    BY <1>4, <2>1 DEF LoopTop, RearmAccept, NothingQueued, BeginDrain, Drain, EndDrain, Shutdown,
      pool, ring, net
  <2> QED  BY <1>1, <1>2, <1>3, <1>4, <2>1, <2>2, LoopOwners
<1>5. CASE SystemCall
  <2>1. UNCHANGED <<reqs, cq, sock>>
    BY <1>5 DEF SystemCall, EnterKernel, Submit, Reap, Interrupted, pool, ring, net
  <2> QED  BY <1>1, <1>2, <1>3, <1>5, <2>1, SystemCallOwners
<1>6. CASE Handler
  <2>1. CASE HandleError \/ HandleClose
    <3>1. NextCompletion /\ todo > 0 /\ UNCHANGED <<reqs, sock>>
      BY <2>1 DEF HandleError, HandleClose, Handling, pool, net
    <3>2. \A f \in FD : Has(cq', EofCqes(f)) => Has(cq, EofCqes(f))
      BY <3>1, Handled
    <3> QED  BY <1>1, <1>3, <2>1, <3>1, <3>2, ErrorOwners, CloseOwners
  <2>2. CASE RejectConnection
    BY <2>2, RejectEnds
  <2>3. ASSUME NEW r \in Reqs, AcceptConnection(r)
        PROVE  EndsAreTrue'
    BY <2>3, AcceptEnds
  <2>4. CASE ReceiveEof \/ ReceiveData
    BY <2>4, ReceiveEnds
  <2>5. ~SlicePanic
    BY DEF SlicePanic, Running
  <2> QED  BY <1>6, <2>1, <2>2, <2>3, <2>4, <2>5 DEF Handler
<1>7. CASE Kernel
  <2>1. ASSUME NEW f \in FD, AcceptDone(f)
        PROVE  EndsAreTrue'
    BY <2>1, AcceptDoneEnds
  <2>2. CASE AcceptFails
    <3> DEFINE c == Cqe(AcceptSqe(AcceptReq), FALSE, ListenFd, 0)
    <3>1. c \in CqeSet /\ c.op = "accept" /\ cq' = Append(cq, c) /\ UNCHANGED <<reqs, sock>>
      <4>1. 0 \in 0..BufSize
        BY ConstantsOK
      <4> QED  BY <2>2, <4>1, AcceptSqeType, CqeType DEF AcceptSqe, Cqe, AcceptFails, pool, net
    <3> HIDE DEF c
    <3>2. \A f \in FD : c \notin EofCqes(f)
      BY <3>1 DEF EofCqes
    <3>3. \A f \in FD : Has(cq', EofCqes(f)) => Has(cq, EofCqes(f))
      BY <3>1, <3>2, Posted
    <3> QED  BY <1>1, <1>3, <2>2, <3>1, <3>3, AcceptFailsOwners
  <2>3. ASSUME NEW e \in inflight, RecvDone(e)
        PROVE  EndsAreTrue'
    BY <2>3, RecvDoneEnds
  <2>4. ASSUME NEW e \in inflight, CloseDone(e) \/ RecvFails(e)
        PROVE  EndsAreTrue'
    BY <2>4, EndedEnds
  <2> QED  BY <1>7, <2>1, <2>2, <2>3, <2>4 DEF Kernel
<1>8. CASE Clients
  <2>1. UNCHANGED <<sq, inflight, cq, queue, reqs>>
    BY <1>8 DEF Clients, PeerConnect, PeerSend, PeerFinish, pool, ring
  <2>2. \A f \in FD : Finished(f) => Finished(f)'
    BY <1>8 DEF Clients, PeerConnect, PeerSend, PeerFinish, Finished, TypeInv, TypeOK
  <2> QED  BY <1>1, <1>2, <2>1, <2>2, PlacesUnchanged
<1>9. CASE Signal \/ UNCHANGED vars
  <2>1. UNCHANGED <<sq, inflight, cq, queue, reqs, sock>>
    BY <1>9 DEF Signal, vars, pool, ring, net
  <2> QED  BY <1>1, <1>2, <1>3, <2>1, PlacesUnchanged
<1> QED  BY <1>4, <1>5, <1>6, <1>7, <1>8, <1>9 DEF Next, Server

LEMMA CloseInvHolds == Spec => []CloseInv
<1>1. Init => CloseInv
  <2> SUFFICES ASSUME Init PROVE Windows /\ EndsAreTrue
    BY DEF CloseInv
  <2>1. /\ DOMAIN sq = {1} /\ sq[1].start = 0 /\ inflight = {} /\ DOMAIN cq = {}
        /\ \A r \in ConnReqs : reqs[r].operation = "none"
    BY DEF Init, AcceptSqe, NoReq, ConnReqs
  <2> QED  BY <2>1, ConstantsOK DEF Windows, EndsAreTrue, Has
<1>2. TypeInv /\ QueueInv /\ DispatchInv /\ OwnInv /\ CloseInv /\ [Next]_vars => CloseInv'
  <2> SUFFICES ASSUME TypeInv, QueueInv, DispatchInv, OwnInv, CloseInv, [Next]_vars
               PROVE  Windows' /\ (Running' => EndsAreTrue')
    BY DEF CloseInv
  <2>1. Running' => Owned /\ EndsAreTrue
    BY RunningBefore DEF OwnInv, CloseInv
  <2> QED  BY <2>1, WindowsStep, EndsStep DEF CloseInv
<1> QED  BY <1>1, <1>2, TypeInvHolds, QueueInvHolds, DispatchInvHolds, OwnInvHolds, PTL DEF Spec

(* The server closes a connection only after its client has finished and     *)
(* all its data has been received.                                           *)
THEOREM ClosesOnlyFinished == Spec => []NoPrematureClose
<1>1. TypeInv /\ CloseInv => NoPrematureClose
  BY UsesIsBusy DEF CloseInv, EndsAreTrue, NoPrematureClose, Finished
<1> QED  BY <1>1, TypeInvHolds, CloseInvHolds, PTL

=============================================================================
