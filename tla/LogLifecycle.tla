------------------------------ MODULE LogLifecycle ------------------------------
(***************************************************************************)
(* The life of log server processes and of the path of their socket: what  *)
(* main (logs/src/main.zig) does before and after the loop that LogServer  *)
(* models.  Processes may be started while others run, and may crash.      *)
(*                                                                         *)
(* The wrappers of std.os.linux return a usize, an error as a large one:   *)
(* no comparison of theirs with -1 holds, and the errors of bind, listen   *)
(* and fcntl go unnoticed.                                                 *)
(***************************************************************************)
CONSTANTS Processes

ASSUME ProcessesOK == {"none", "stale", "dangling"} \cap Processes = {}

VARIABLES
    pc,         \* of a process: "off", "bind", "listen", "ring", "running", "close"
                \* or "unlink", the next step of main
    bound,      \* its socket is bound to the path it found free
    listening,
    path,       \* whose socket the path names: a process, "stale" or "none"
    crashed,    \* some process has crashed
    overlapped  \* two processes have been up at the same time

vars == <<pc, bound, listening, path, crashed, overlapped>>

Init ==
    /\ pc = [p \in Processes |-> "off"]
    /\ bound = [p \in Processes |-> FALSE]
    /\ listening = [p \in Processes |-> FALSE]
    /\ path = "none"
    /\ crashed = FALSE /\ overlapped = FALSE

Goto(p, l) == pc' = [pc EXCEPT ![p] = l]

CloseSocket(p) ==
    /\ bound' = [bound EXCEPT ![p] = FALSE]
    /\ listening' = [listening EXCEPT ![p] = FALSE]

\* The path when the socket of a process is closed: it stays, and names nothing.
Orphaned(p) == IF path = p THEN "stale" ELSE path

-----------------------------------------------------------------------------
(* Start-up                                                                *)

\* The arguments, the signal handlers, the configuration file and the socket.
\* Without a readable file main ends here, with nothing done.
Start(p) ==
    /\ pc[p] = "off"
    /\ Goto(p, "bind")
    /\ overlapped' = (overlapped \/ \E q \in Processes \ {p} : pc[q] # "off")
    /\ UNCHANGED <<bound, listening, path, crashed>>

\* bind fails when something is at the path, and main goes on.
Bind(p) ==
    /\ pc[p] = "bind"
    /\ IF path = "none"
       THEN path' = p /\ bound' = [bound EXCEPT ![p] = TRUE]
       ELSE UNCHANGED <<path, bound>>
    /\ Goto(p, "listen")
    /\ UNCHANGED <<listening, crashed, overlapped>>

\* listen fails on a socket that is not bound, and main goes on.
Listen(p) ==
    /\ pc[p] = "listen"
    /\ listening' = [listening EXCEPT ![p] = bound[p]]
    /\ Goto(p, "ring")
    /\ UNCHANGED <<bound, path, crashed, overlapped>>

\* "logs DB started" is logged and the loop entered.
MakeRing(p) ==
    /\ pc[p] = "ring"
    /\ Goto(p, "running")
    /\ UNCHANGED <<bound, listening, path, crashed, overlapped>>

-----------------------------------------------------------------------------
(* The end                                                                 *)

FailsKeepingPath(p) ==
    /\ pc[p] \in {"ring", "running"}
    /\ path' = Orphaned(p)
    /\ CloseSocket(p)
    /\ Goto(p, "off")
    /\ UNCHANGED <<crashed, overlapped>>

\* The ring or the pool cannot be had, or a wait for the ring fails in the
\* loop: the errdefer unlinks the path, whose ever it is, and the process ends.
Fails(p) ==
    /\ pc[p] \in {"ring", "running"}
    /\ path' = "none"
    /\ CloseSocket(p)
    /\ Goto(p, "off")
    /\ UNCHANGED <<crashed, overlapped>>

\* A signal, before the loop or in it, has ended the loop.
Shutdown(p) ==
    /\ pc[p] = "running"
    /\ Goto(p, "close")
    /\ UNCHANGED <<bound, listening, path, crashed, overlapped>>

Close(p) ==
    /\ pc[p] = "close"
    /\ path' = Orphaned(p)
    /\ CloseSocket(p)
    /\ Goto(p, "unlink")
    /\ UNCHANGED <<crashed, overlapped>>

\* The path is unlinked, whose ever it is by now.
Unlink(p) ==
    /\ pc[p] = "unlink"
    /\ path' = "none"
    /\ Goto(p, "off")
    /\ UNCHANGED <<bound, listening, crashed, overlapped>>

\* The process is killed, or panics.
Crash(p) ==
    /\ pc[p] # "off"
    /\ path' = Orphaned(p)
    /\ CloseSocket(p)
    /\ Goto(p, "off")
    /\ crashed' = TRUE
    /\ UNCHANGED overlapped

Next == \E p \in Processes :
    \/ Start(p) \/ Bind(p) \/ Listen(p) \/ MakeRing(p) \/ Fails(p)
    \/ Shutdown(p) \/ Close(p) \/ Unlink(p) \/ Crash(p)

Spec == Init /\ [][Next]_vars

-----------------------------------------------------------------------------
(* Properties                                                              *)

\* The steps of main.
Labels == {"off", "bind", "listen", "ring", "running", "close", "unlink"}

\* Every variable keeps its type.
TypeOK ==
    /\ pc \in [Processes -> Labels]
    /\ bound \in [Processes -> BOOLEAN]
    /\ listening \in [Processes -> BOOLEAN]
    /\ path \in Processes \cup {"none", "stale"}
    /\ {crashed, overlapped} \subseteq BOOLEAN

\* A client that connects to the path reaches p.
Reachable(p) == path = p /\ listening[p]

\* The path names the socket of at most the process that is bound to it: the
\* path of another is never taken over, though it may be removed.
PathIsBound == path \in Processes => bound[path]

\* A server that has started is reached by its clients, as long as no process
\* of the log server has ever crashed or run next to another: every way out of
\* main leaves a path at which the next one can be started.
AloneIsReachable ==
    \A p \in Processes :
        pc[p] = "running" /\ ~crashed /\ ~overlapped => Reachable(p)

\* Without a crash a path that names nothing is about to be removed, however
\* the processes overlap and whichever of their start-ups fail.
StaleNeedsCrash ==
    path = "stale" /\ ~crashed => \E p \in Processes : pc[p] = "unlink"

================================================================================
