------------------------- MODULE AgentStreamProofs -------------------------
(***************************************************************************)
(* Theorems about AgentStream, for any set of agents and any number of     *)
(* starts of the control plane.                                            *)
(***************************************************************************)
EXTENDS AgentStream, SequenceTheorems, TLAPS

\* What holds of one agent: its goroutine starts after the stream and ends
\* after it, it passes the wait only when the goroutine has ended, and a
\* stream that is up has the server's call at its other end.
AgentInv(a) ==
    /\ pc[a] = "connect" => receiver[a] = "none"
    /\ pc[a] = "closeSend" => receiver[a] = "ended"
    /\ receiver[a] = "ended" => link[a] # "up"
    /\ link[a] = "up" => handler[a] = "receiving"
    /\ up[a] \in Seq({"hello"})

IInv == TypeOK /\ \A a \in Agents : AgentInv(a)

AgentStep(a) ==
    \/ Connect(a) \/ SendHello(a) \/ Wait(a) \/ CloseSend(a)
    \/ CancelHandle(a) \/ CloseConn(a) \/ ReceiverEnds(a)
    \/ HandlerRecv(a) \/ HandlerError(a)
    \/ Interrupt(a) \/ Cut(a)

CpStep == Start \/ LoadConfig \/ NewPostgres \/ PingConnection \/ Listen

-----------------------------------------------------------------------------
(* The invariant                                                           *)

LEMMA InitIInv == Init => IInv
  BY AgentAssumption DEF Init, IInv, TypeOK, AgentInv

LEMMA CpKeeps ==
    ASSUME IInv, CpStep
    PROVE  IInv'
  <1> USE AgentAssumption
      DEF IInv, TypeOK, AgentInv, agentVars, streamVars
  <1>1. CASE Start
    BY <1>1 DEF Start
  <1>2. CASE LoadConfig
    BY <1>2 DEF LoadConfig
  <1>3. CASE NewPostgres
    BY <1>3 DEF NewPostgres
  <1>4. CASE PingConnection
    BY <1>4 DEF PingConnection
  <1>5. CASE Listen
    BY <1>5 DEF Listen
  <1> QED BY <1>1, <1>2, <1>3, <1>4, <1>5 DEF CpStep

LEMMA StopKeeps ==
    ASSUME IInv, Stop
    PROVE  IInv'
  BY DEF IInv, TypeOK, AgentInv, agentVars, Stop, Down

\* A step of one agent, or of the server for it, leaves the others alone.
LEMMA AgentKeeps ==
    ASSUME IInv, NEW a \in Agents, AgentStep(a)
    PROVE  IInv'
  <1> USE DEF IInv, TypeOK, AgentInv, cpVars, agentVars, streamVars, Exit, Down
  <1>1. CASE Connect(a)
    <2>1. CASE cp = "serving" /\ port = "dialled" /\ pc[a] = "connect"
               /\ pc' = [pc EXCEPT ![a] = "send"]
               /\ link' = [link EXCEPT ![a] = "up"]
               /\ handler' = [handler EXCEPT ![a] = "receiving"]
               /\ UNCHANGED <<exit, cpVars, receiver, notify, up>>
      BY <2>1
    <2>2. CASE pc[a] = "connect" /\ Exit(a, "fatal")
               /\ UNCHANGED <<link, handler, cpVars, receiver, notify, up>>
      BY <2>2
    <2> QED BY <1>1, <2>1, <2>2 DEF Connect
  <1>2. CASE SendHello(a)
    BY <1>2 DEF SendHello
  <1>3. CASE Wait(a)
    BY <1>3 DEF Wait
  <1>4. CASE CloseSend(a)
    BY <1>4 DEF CloseSend
  <1>5. CASE CancelHandle(a)
    BY <1>5 DEF CancelHandle
  <1>6. CASE CloseConn(a)
    BY <1>6 DEF CloseConn
  <1>7. CASE ReceiverEnds(a)
    BY <1>7 DEF ReceiverEnds
  <1>8. CASE HandlerRecv(a)
    BY <1>8 DEF HandlerRecv
  <1>9. CASE HandlerError(a)
    BY <1>9 DEF HandlerError
  <1>10. CASE Interrupt(a)
    BY <1>10 DEF Interrupt
  <1>11. CASE Cut(a)
    BY <1>11 DEF Cut
  <1> QED BY <1>1, <1>2, <1>3, <1>4, <1>5, <1>6, <1>7, <1>8, <1>9, <1>10, <1>11
      DEF AgentStep

LEMMA StutterKeeps ==
    ASSUME IInv, UNCHANGED vars
    PROVE  IInv'
  BY DEF IInv, TypeOK, AgentInv, vars, cpVars, agentVars, streamVars

LEMMA NextIInv == IInv /\ [Next]_vars => IInv'
  BY CpKeeps, StopKeeps, AgentKeeps, StutterKeeps DEF Next, AgentMain, CpStep, AgentStep

LEMMA Invariance == Spec => []IInv
  BY InitIInv, NextIInv, PTL DEF Spec

-----------------------------------------------------------------------------
(* The theorems                                                            *)

\* Every variable keeps its type.
THEOREM TypeCorrect == Spec => []TypeOK
<1>1. IInv => TypeOK
  BY DEF IInv
<1> QED BY Invariance, <1>1, PTL

\* For any number of agents: a stream ends by a failure or the death of one
\* side only, for each side waits for the other (lines 63 of the agent and 25
\* of the control plane).
THEOREM NobodyEndsFirst == Spec => []NeitherEndsFirst
<1>1. ASSUME IInv, NEW a \in Agents
      PROVE  /\ link[a] = "up" => handler[a] = "receiving" /\ receiver[a] # "ended"
             /\ "end" \notin {up[a][i] : i \in DOMAIN up[a]}
  <2>1. up[a] \in Seq({"hello"}) /\ DOMAIN up[a] = 1..Len(up[a])
    BY <1>1 DEF IInv, AgentInv
  <2>2. \A i \in DOMAIN up[a] : up[a][i] = "hello"
    BY <2>1
  <2> QED BY <1>1, <2>2 DEF IInv, AgentInv
<1>2. IInv => NeitherEndsFirst
  BY <1>1 DEF NeitherEndsFirst
<1> QED BY Invariance, <1>2, PTL
=============================================================================
