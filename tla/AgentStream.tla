------------------------------ MODULE AgentStream ------------------------------
(***************************************************************************)
(* Agents (infra/cmd/agent/main.go) and the control plane they connect to  *)
(* (infra/cmd/cp/main.go): one bidirectional gRPC stream per agent, from   *)
(* the start-up of the control plane to the exit of the agent.             *)
(*                                                                         *)
(* gRPC is modelled by what the two programs see of it.  Connect succeeds  *)
(* if the server listens where the agent dials, messages arrive in order,  *)
(* and a stream that has ended for any reason is "down" at both ends; the  *)
(* side that waits in Recv learns of it later.                             *)
(***************************************************************************)
EXTENDS Naturals, Sequences

CONSTANTS
    Agents,
    MaxStarts   \* how often the control plane is started, a bound

ASSUME AgentAssumption == MaxStarts \in Nat \ {0}

VARIABLES
    cp,        \* of the control plane: "off", or the next step of its main, or "serving"
    port,      \* where it listens: "none", "dialled" by the agents, or "other"
    starts,
    pc,        \* of an agent: the next step of its main, or "exited"
    receiver,  \* its goroutine: "none", "receiving" or "ended", waitc closed
    notify,    \* signal.Notify has been called
    exit,      \* how it ended: "none", "returned", "fatal", "cancelled", "killed"
    link,      \* its stream: "none", "up" or "down"
    up,        \* what it has sent and the server has not read
    handler    \* the server's call of Connect: "none", "receiving" or "ended"

cpVars == <<cp, port, starts>>
agentVars == <<pc, receiver, notify, exit>>
streamVars == <<link, up, handler>>
vars == <<cpVars, agentVars, streamVars>>

Init ==
    /\ cp = "off" /\ port = "none" /\ starts = 0
    /\ pc = [a \in Agents |-> "connect"]
    /\ receiver = [a \in Agents |-> "none"]
    /\ notify = [a \in Agents |-> FALSE]
    /\ exit = [a \in Agents |-> "none"]
    /\ link = [a \in Agents |-> "none"]
    /\ up = [a \in Agents |-> <<>>]
    /\ handler = [a \in Agents |-> "none"]

Down(l) == IF l = "up" THEN "down" ELSE l

-----------------------------------------------------------------------------
(* The start of the control plane                                          *)

Start ==
    /\ cp = "off" /\ starts < MaxStarts
    /\ cp' = "load" /\ starts' = starts + 1
    /\ UNCHANGED <<port, agentVars, streamVars>>

\* A file that is missing or invalid is an error that is printed; the start
\* goes on with the empty configuration.  It comes to the same here: a database
\* and an address are taken from either.
LoadConfig ==
    /\ cp = "load"
    /\ cp' = "database"
    /\ UNCHANGED <<port, starts, agentVars, streamVars>>

\* The pool is made and answers a ping, or the program panics.  The empty URL
\* stands for a server too, the one of the environment and the defaults.
NewPostgres ==
    /\ cp = "database"
    /\ cp' \in {"ping", "off"}
    /\ UNCHANGED <<port, starts, agentVars, streamVars>>

\* The second ping.
PingConnection ==
    /\ cp = "ping"
    /\ cp' \in {"listen", "off"}
    /\ UNCHANGED <<port, starts, agentVars, streamVars>>

\* Listen and Serve, or a fatal error when the port is taken.  The port of the
\* file is not validated and may be any; for the empty address the system picks
\* one, and its range has the one that the agents dial.
Listen ==
    /\ cp = "listen"
    /\ \/ cp' = "serving" /\ port' \in {"dialled", "other"}
       \/ cp' = "off" /\ UNCHANGED port
    /\ UNCHANGED <<starts, agentVars, streamVars>>

\* The control plane is killed: nothing in it handles a signal.
Stop ==
    /\ cp # "off"
    /\ cp' = "off" /\ port' = "none"
    /\ link' = [a \in Agents |-> Down(link[a])]
    /\ handler' = [a \in Agents |->
                     IF handler[a] = "receiving" THEN "ended" ELSE handler[a]]
    /\ UNCHANGED <<starts, agentVars, up>>

-----------------------------------------------------------------------------
(* The server's side of a stream                                           *)

\* The call of Connect reads a message and goes on; at the agent's end of the
\* stream it returns nil, and so ends the stream.
HandlerRecv(a) ==
    /\ handler[a] = "receiving" /\ up[a] # <<>>
    /\ up' = [up EXCEPT ![a] = Tail(@)]
    /\ IF Head(up[a]) = "end"
       THEN /\ handler' = [handler EXCEPT ![a] = "ended"]
            /\ link' = [link EXCEPT ![a] = Down(@)]
       ELSE UNCHANGED <<handler, link>>
    /\ UNCHANGED <<cpVars, agentVars>>

HandlerErrorIgnored(a) ==
    /\ handler[a] = "receiving" /\ link[a] = "down"
    /\ UNCHANGED vars

\* Recv fails since the stream is down, read to its end or not: the call
\* returns the error.
HandlerError(a) ==
    /\ handler[a] = "receiving" /\ link[a] = "down"
    /\ handler' = [handler EXCEPT ![a] = "ended"]
    /\ UNCHANGED <<cpVars, agentVars, link, up>>

-----------------------------------------------------------------------------
(* The agent                                                               *)

Exit(a, how) ==
    /\ pc' = [pc EXCEPT ![a] = "exited"]
    /\ exit' = [exit EXCEPT ![a] = how]

\* client.Connect: the stream is open, and the server's call runs, or the
\* agent logs a fatal error, which exits without the deferred calls.
Connect(a) ==
    /\ pc[a] = "connect"
    /\ \/ /\ cp = "serving" /\ port = "dialled"
          /\ pc' = [pc EXCEPT ![a] = "send"]
          /\ link' = [link EXCEPT ![a] = "up"]
          /\ handler' = [handler EXCEPT ![a] = "receiving"]
          /\ UNCHANGED exit
       \/ Exit(a, "fatal") /\ UNCHANGED <<link, handler>>
    /\ UNCHANGED <<cpVars, receiver, notify, up>>

\* The hello; an error is only logged.  Then the goroutine is started.
SendHello(a) ==
    /\ pc[a] = "send"
    /\ pc' = [pc EXCEPT ![a] = "wait"]
    /\ receiver' = [receiver EXCEPT ![a] = "receiving"]
    /\ up' = IF link[a] = "up" THEN [up EXCEPT ![a] = Append(@, "hello")] ELSE up
    /\ UNCHANGED <<cpVars, notify, exit, link, handler>>

ReceiverRetries(a) ==
    /\ receiver[a] = "receiving" /\ link[a] = "down"
    /\ UNCHANGED vars

\* Recv of the goroutine returns EOF or an error: waitc is closed.  The server
\* sends no command.
ReceiverEnds(a) ==
    /\ pc[a] # "exited"
    /\ receiver[a] = "receiving" /\ link[a] = "down"
    /\ receiver' = [receiver EXCEPT ![a] = "ended"]
    /\ UNCHANGED <<cpVars, pc, notify, exit, streamVars>>

WaitForNobody(a) ==
    /\ pc[a] = "wait"
    /\ pc' = [pc EXCEPT ![a] = "closeSend"]
    /\ UNCHANGED <<cpVars, receiver, notify, exit, streamVars>>

Wait(a) ==
    /\ pc[a] = "wait" /\ receiver[a] = "ended"
    /\ pc' = [pc EXCEPT ![a] = "closeSend"]
    /\ UNCHANGED <<cpVars, receiver, notify, exit, streamVars>>

CloseSend(a) ==
    /\ pc[a] = "closeSend"
    /\ pc' = [pc EXCEPT ![a] = "cancelHandle"]
    /\ up' = IF link[a] = "up" THEN [up EXCEPT ![a] = Append(@, "end")] ELSE up
    /\ UNCHANGED <<cpVars, receiver, notify, exit, link, handler>>

\* The first deferred call: signals are handled from here on.
CancelHandle(a) ==
    /\ pc[a] = "cancelHandle"
    /\ pc' = [pc EXCEPT ![a] = "closeConn"]
    /\ notify' = [notify EXCEPT ![a] = TRUE]
    /\ UNCHANGED <<cpVars, receiver, exit, streamVars>>

\* The second one, after which main returns.
CloseConn(a) ==
    /\ pc[a] = "closeConn"
    /\ Exit(a, "returned")
    /\ link' = [link EXCEPT ![a] = Down(@)]
    /\ UNCHANGED <<cpVars, receiver, notify, up, handler>>

\* SIGINT or SIGTERM: the goroutine of cancelHandle cancels the stream and
\* exits; without one the process is killed.
Interrupt(a) ==
    /\ pc[a] # "exited"
    /\ Exit(a, IF notify[a] THEN "cancelled" ELSE "killed")
    /\ link' = [link EXCEPT ![a] = Down(@)]
    /\ UNCHANGED <<cpVars, receiver, notify, up, handler>>

\* The network fails.
Cut(a) ==
    /\ link[a] = "up"
    /\ link' = [link EXCEPT ![a] = "down"]
    /\ UNCHANGED <<cpVars, agentVars, up, handler>>

AgentMain(a) ==
    \/ Connect(a) \/ SendHello(a) \/ Wait(a) \/ CloseSend(a)
    \/ CancelHandle(a) \/ CloseConn(a)

Next ==
    \/ Start \/ LoadConfig \/ NewPostgres \/ PingConnection \/ Listen \/ Stop
    \/ \E a \in Agents :
         \/ AgentMain(a) \/ ReceiverEnds(a)
         \/ HandlerRecv(a) \/ HandlerError(a)
         \/ Interrupt(a) \/ Cut(a)

Spec == Init /\ [][Next]_vars

\* The goroutines of the two programs run; nobody has to stop or fail.
LiveSpec ==
    /\ Spec
    /\ \A a \in Agents : /\ WF_vars(AgentMain(a)) /\ WF_vars(ReceiverEnds(a))
                         /\ WF_vars(HandlerRecv(a) \/ HandlerError(a))

-----------------------------------------------------------------------------
(* Properties                                                              *)

\* Every variable keeps its type.
TypeOK ==
    /\ cp \in {"off", "load", "database", "ping", "listen", "serving"}
    /\ port \in {"none", "dialled", "other"}
    /\ starts \in 0..MaxStarts
    /\ pc \in [Agents -> {"connect", "send", "wait", "closeSend", "cancelHandle",
                          "closeConn", "exited"}]
    /\ receiver \in [Agents -> {"none", "receiving", "ended"}]
    /\ notify \in [Agents -> BOOLEAN]
    /\ exit \in [Agents -> {"none", "returned", "fatal", "cancelled", "killed"}]
    /\ link \in [Agents -> {"none", "up", "down"}]
    /\ up \in [Agents -> Seq({"hello", "end"})]
    /\ handler \in [Agents -> {"none", "receiving", "ended"}]

\* Each side waits for the other to end the stream first: the agent ends its
\* half only when it has seen the stream end (63), the server returns nil only
\* at the agent's end (25).  So neither does: a healthy stream stays open, no
\* end of a half is ever sent, and the nil of the server is never returned.
NeitherEndsFirst ==
    \A a \in Agents :
        /\ link[a] = "up" => handler[a] = "receiving" /\ receiver[a] # "ended"
        /\ "end" \notin {up[a][i] : i \in DOMAIN up[a]}

\* The server's call for an agent returns after the agent has gone, however it
\* ended and whatever it had sent.
HandlersEnd ==
    \A a \in Agents : (pc[a] = "exited") ~> (handler[a] # "receiving")

\* An agent whose stream has ended does not hang: it exits.
AgentsEnd == \A a \in Agents : (link[a] = "down") ~> (pc[a] = "exited")

===============================================================================
