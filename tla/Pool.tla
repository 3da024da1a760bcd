-------------------------------- MODULE Pool --------------------------------
(* What the log server expects of its request pool (freelist.zig): a slot   *)
(* is handed out to one user at a time, any free slot may be handed out,    *)
(* and a request for a slot is only refused when none is free.              *)
CONSTANTS Slots, None

VARIABLES free,    \* the slots nobody holds
          answer   \* what the last call returned: a slot, or None

vars == <<free, answer>>

Init == free = Slots /\ answer = None

Get(s) ==
  /\ s \in free
  /\ free' = free \ {s}
  /\ answer' = s

GetRefused ==
  /\ free = {}
  /\ answer' = None
  /\ UNCHANGED free

Release(s) ==
  /\ s \in Slots \ free
  /\ free' = free \cup {s}
  /\ answer' = None

Next == (\E s \in Slots : Get(s) \/ Release(s)) \/ GetRefused

Spec == Init /\ [][Next]_vars
=============================================================================
