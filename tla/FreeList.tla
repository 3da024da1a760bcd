------------------------------ MODULE FreeList ------------------------------
(* The free list of the request pool (logs/src/freelist.zig): free_list is  *)
(* a stack of slot indices of which the first free_top are free.  `held`    *)
(* are the slots the callers have got and not released; it is not in the    *)
(* code.  A caller releases a slot it holds: for the event loop, that is    *)
(* what SingleOp of LogServer shows.                                        *)
(*                                                                          *)
(* An operator that is defined just before another and shares the start of  *)
(* its name is a mutant of it: the code with a plausible bug, used by no    *)
(* action.                                                                  *)
EXTENDS Integers, FiniteSets

CONSTANTS Size,   \* size of the pool
          None    \* null

ASSUME SizeOK == Size \in Nat \ {0} /\ None \notin 0..(Size - 1)

VARIABLES free_list, free_top, held, answer

vars == <<free_list, free_top, held, answer>>

Index == 0..(Size - 1)

(* init: free_list[i] = i *)
Init ==
  /\ free_list = [i \in Index |-> i]
  /\ free_top = Size
  /\ held = {}
  /\ answer = None

Get ==
  /\ free_top # 0
  /\ free_top' = free_top - 1
  /\ answer' = free_list[free_top']
  /\ held' = held \cup {answer'}
  /\ UNCHANGED free_list

GetRefused ==
  /\ free_top = 0
  /\ answer' = None
  /\ UNCHANGED <<free_list, free_top, held>>

ReleaseAlwaysFirst(s) ==
  /\ s \in held
  /\ free_list' = [free_list EXCEPT ![0] = s]
  /\ free_top' = free_top + 1
  /\ held' = held \ {s}
  /\ answer' = None

Release(s) ==
  /\ s \in held
  /\ free_list' = [free_list EXCEPT ![free_top] = s]
  /\ free_top' = free_top + 1
  /\ held' = held \ {s}
  /\ answer' = None

Next == Get \/ GetRefused \/ \E s \in Index : Release(s)

Spec == Init /\ [][Next]_vars

-----------------------------------------------------------------------------
FreeSlots == {free_list[i] : i \in 0..(free_top - 1)}

(* Every variable has its type; free_top stays within the array.            *)
TypeOK ==
  /\ free_list \in [Index -> Index]
  /\ free_top \in 0..Size
  /\ held \in SUBSET Index
  /\ answer \in Index \cup {None}

(* The stack holds every slot that is not handed out exactly once, however  *)
(* gets and releases alternate: no slot is lost, none can be given to two   *)
(* callers, and release never finds the stack full (its assertion).         *)
StackIsFreeSet ==
  /\ FreeSlots = Index \ held
  /\ \A i, j \in 0..(free_top - 1) : free_list[i] = free_list[j] => i = j
  /\ free_top + Cardinality(held) = Size

(* The free list is a pool.                                                 *)
P == INSTANCE Pool WITH Slots <- Index, free <- FreeSlots

ImplementsPool == P!Spec
=============================================================================
