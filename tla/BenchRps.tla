------------------------------ MODULE BenchRps ------------------------------
(***************************************************************************)
(* The load generator (bench/rps/main.go): one goroutine per connection    *)
(* writes lines through a buffer, counts those the buffer has taken, and   *)
(* adds its count to a total; main waits for all of them.  Buffers and     *)
(* sockets are measured in lines; a line is gone when its newline is.      *)
(*                                                                         *)
(* An operator that is defined just before another and shares the start of *)
(* its name is a mutant of it, used by no action.                          *)
(***************************************************************************)
EXTENDS Naturals, FiniteSets

CONSTANTS
    Workers,
    Msgs,       \* lines of a worker
    BufLines,   \* lines in the buffer of a worker
    SockLines   \* lines the kernel keeps for a connection

ASSUME WorkersOK == IsFiniteSet(Workers)
ASSUME SizesOK == Msgs \in Nat /\ BufLines \in Nat \ {0} /\ SockLines \in Nat \ {0}

VARIABLES
    main,       \* "spawning", "waiting" or "reported"
    wg,         \* the counter of the WaitGroup
    total, failed,
    pc,         \* of a worker: "unborn", "dialing", "writing", "emptying" (inside
                \* Write), "flushing" (the last Flush), "adding" or "done"
    count,      \* the lines that Write has taken without an error
    buffered,   \* the lines in the buffer of the worker
    socket,     \* the lines in the kernel
    delivered,  \* the lines the server has read
    broken      \* the workers whose connection the server has dropped

vars == <<main, wg, total, failed, pc, count, buffered, socket, delivered, broken>>

Zero == [w \in Workers |-> 0]

\* The lines of the workers, numbered, when each has got as far as f says.
Lines(f) == {l \in Workers \X (1..Msgs) : l[2] <= f[l[1]]}

Init ==
    /\ main = "spawning"
    /\ wg = 0 /\ total = 0 /\ failed = 0
    /\ pc = [w \in Workers |-> "unborn"]
    /\ count = Zero /\ buffered = Zero /\ socket = Zero /\ delivered = Zero
    /\ broken = {}

Goto(w, l) == pc' = [pc EXCEPT ![w] = l]

-----------------------------------------------------------------------------
(* main                                                                    *)

Spawn(w) ==
    /\ main = "spawning" /\ pc[w] = "unborn"
    /\ wg' = wg + 1
    /\ Goto(w, "dialing")
    /\ UNCHANGED <<main, total, failed, count, buffered, socket, delivered, broken>>

AllSpawned ==
    /\ main = "spawning"
    /\ \A w \in Workers : pc[w] # "unborn"
    /\ main' = "waiting"
    /\ UNCHANGED <<wg, total, failed, pc, count, buffered, socket, delivered, broken>>

\* wg.Wait returns and the numbers are printed.
Report ==
    /\ main = "waiting"
    /\ wg = 0
    /\ main' = "reported"
    /\ UNCHANGED <<wg, total, failed, pc, count, buffered, socket, delivered, broken>>

-----------------------------------------------------------------------------
(* A worker                                                                *)

Connected(w) ==
    /\ pc[w] = "dialing"
    /\ Goto(w, "writing")
    /\ UNCHANGED <<main, wg, total, failed, count, buffered, socket, delivered, broken>>

DialFailsUndone(w) ==
    /\ pc[w] = "dialing"
    /\ failed' = failed + 1
    /\ Goto(w, "done")
    /\ UNCHANGED <<main, wg, total, count, buffered, socket, delivered, broken>>

DialFails(w) ==
    /\ pc[w] = "dialing"
    /\ failed' = failed + 1
    /\ wg' = wg - 1
    /\ Goto(w, "done")
    /\ UNCHANGED <<main, total, count, buffered, socket, delivered, broken>>

\* Write with room in the buffer.
Write(w) ==
    /\ pc[w] = "writing"
    /\ count[w] < Msgs /\ buffered[w] < BufLines
    /\ count' = [count EXCEPT ![w] = @ + 1]
    /\ buffered' = [buffered EXCEPT ![w] = @ + 1]
    /\ UNCHANGED <<main, wg, total, failed, pc, socket, delivered, broken>>

\* Write without: the buffer is emptied first.
WriteFull(w) ==
    /\ pc[w] = "writing"
    /\ count[w] < Msgs /\ buffered[w] = BufLines
    /\ Goto(w, "emptying")
    /\ UNCHANGED <<main, wg, total, failed, count, buffered, socket, delivered, broken>>

Emptied(w) ==
    /\ pc[w] = "emptying"
    /\ buffered[w] = 0
    /\ Goto(w, "writing")
    /\ UNCHANGED <<main, wg, total, failed, count, buffered, socket, delivered, broken>>

\* The write of the buffer to the connection goes on as the kernel has room.
Put(w) ==
    /\ pc[w] \in {"emptying", "flushing"}
    /\ w \notin broken
    /\ buffered[w] > 0 /\ socket[w] < SockLines
    /\ buffered' = [buffered EXCEPT ![w] = @ - 1]
    /\ socket' = [socket EXCEPT ![w] = @ + 1]
    /\ UNCHANGED <<main, wg, total, failed, pc, count, delivered, broken>>

\* It fails inside Write: the loop ends, and the last Flush only returns the
\* same error again.
WriteFails(w) ==
    /\ pc[w] = "emptying"
    /\ w \in broken /\ buffered[w] > 0
    /\ Goto(w, "adding")
    /\ UNCHANGED <<main, wg, total, failed, count, buffered, socket, delivered, broken>>

LoopEndsUnflushed(w) ==
    /\ pc[w] = "writing"
    /\ count[w] = Msgs
    /\ Goto(w, "adding")
    /\ UNCHANGED <<main, wg, total, failed, count, buffered, socket, delivered, broken>>

LoopEnds(w) ==
    /\ pc[w] = "writing"
    /\ count[w] = Msgs
    /\ Goto(w, "flushing")
    /\ UNCHANGED <<main, wg, total, failed, count, buffered, socket, delivered, broken>>

\* The last Flush returns; its error is not looked at.
Flushed(w) ==
    /\ pc[w] = "flushing"
    /\ buffered[w] = 0 \/ w \in broken
    /\ Goto(w, "adding")
    /\ UNCHANGED <<main, wg, total, failed, count, buffered, socket, delivered, broken>>

\* The atomic addition; the connection is closed and the WaitGroup told.
Add(w) ==
    /\ pc[w] = "adding"
    /\ total' = total + count[w]
    /\ wg' = wg - 1
    /\ Goto(w, "done")
    /\ UNCHANGED <<main, failed, count, buffered, socket, delivered, broken>>

-----------------------------------------------------------------------------
(* The server                                                              *)

ServerReads(w) ==
    /\ socket[w] > 0
    /\ socket' = [socket EXCEPT ![w] = @ - 1]
    /\ delivered' = [delivered EXCEPT ![w] = @ + 1]
    /\ UNCHANGED <<main, wg, total, failed, pc, count, buffered, broken>>

\* The server drops the connection; what it has not read is lost.
ServerDrops(w) ==
    /\ pc[w] \notin {"unborn", "dialing"}
    /\ w \notin broken
    /\ broken' = broken \cup {w}
    /\ socket' = [socket EXCEPT ![w] = 0]
    /\ UNCHANGED <<main, wg, total, failed, pc, count, buffered, delivered>>

Worker(w) ==
    \/ Connected(w) \/ DialFails(w)
    \/ Write(w) \/ WriteFull(w) \/ Emptied(w) \/ Put(w) \/ WriteFails(w)
    \/ LoopEnds(w) \/ Flushed(w) \/ Add(w)

Next ==
    \/ \E w \in Workers : Spawn(w) \/ Worker(w) \/ ServerReads(w) \/ ServerDrops(w)
    \/ AllSpawned \/ Report

Spec == Init /\ [][Next]_vars

\* The goroutines run, and the server goes on reading.
LiveSpec ==
    /\ Spec
    /\ WF_vars(AllSpawned \/ Report)
    /\ \A w \in Workers :
         WF_vars(Spawn(w)) /\ WF_vars(Worker(w)) /\ WF_vars(ServerReads(w))

-----------------------------------------------------------------------------
(* Properties                                                              *)

\* The total that is reported is never less than what the server has read, and
\* exact for the connections that were kept: main waits for every worker, also
\* when it ends before the next one is started, and each counts what it sent,
\* whichever connections were refused or dropped half way.
TotalCoversDelivered ==
    main = "reported" =>
        /\ total >= Cardinality(Lines(delivered))
        /\ \A w \in Workers \ broken : count[w] = delivered[w] + socket[w]

\* main gets its report as long as the server goes on reading, whatever
\* connections it refuses or drops.
Reported == <>(main = "reported")
=============================================================================
