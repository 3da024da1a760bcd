---------------------------- MODULE BenchRpsProofs ----------------------------
(***************************************************************************)
(* The total of BenchRps, for any finite set of workers and all sizes.     *)
(*                                                                         *)
(* The invariant follows the lines of a worker from its buffer through the *)
(* kernel to the server, and counts two sets: the workers that the         *)
(* WaitGroup still waits for, and the lines of those that have added       *)
(* theirs to the total.                                                    *)
(***************************************************************************)
EXTENDS BenchRps, FiniteSetTheorems, TLAPS

Labels == {"unborn", "dialing", "writing", "emptying", "flushing", "adding", "done"}

Types ==
    /\ main \in {"spawning", "waiting", "reported"}
    /\ wg \in Nat /\ total \in Nat /\ failed \in Nat
    /\ pc \in [Workers -> Labels]
    /\ count \in [Workers -> 0..Msgs]
    /\ buffered \in [Workers -> Nat] /\ socket \in [Workers -> Nat]
    /\ delivered \in [Workers -> Nat]
    /\ broken \subseteq Workers

\* Where the lines of a worker are: of a connection that was kept, none is lost.
LinesOf(w) ==
    /\ delivered[w] + socket[w] + buffered[w] <= count[w]
    /\ w \notin broken => delivered[w] + socket[w] + buffered[w] = count[w]
    /\ pc[w] \in {"unborn", "dialing"} => count[w] = 0 /\ buffered[w] = 0
    /\ pc[w] \in {"adding", "done"} => buffered[w] = 0 \/ w \in broken

\* The workers that have been spawned and have not told the WaitGroup.
Awaited == {w \in Workers : pc[w] \notin {"unborn", "done"}}

\* The lines that have been added to the total.
Added == {l \in Lines(count) : pc[l[1]] = "done"}

Counted == wg = Cardinality(Awaited) /\ total = Cardinality(Added)

\* How far main has got.
MainWaits ==
    /\ main # "spawning" => \A w \in Workers : pc[w] # "unborn"
    /\ main = "reported" => \A w \in Workers : pc[w] = "done"

IInv == Types /\ (\A w \in Workers : LinesOf(w)) /\ Counted /\ MainWaits

-----------------------------------------------------------------------------
(* The sets that are counted                                               *)

LEMMA CountedAreFinite ==
    /\ IsFiniteSet(Awaited)
    /\ \A f : IsFiniteSet(Lines(f))
    /\ IsFiniteSet(Added)
  <1>1. IsFiniteSet(1..Msgs)
    BY SizesOK, FS_Interval
  <1>2. IsFiniteSet(Workers \X (1..Msgs))
    BY <1>1, WorkersOK, FS_Product
  <1>3. \A f : Lines(f) \in SUBSET (Workers \X (1..Msgs))
    BY DEF Lines
  <1>4. \A f : IsFiniteSet(Lines(f))
    BY <1>2, <1>3, FS_Subset
  <1>5. Added \in SUBSET Lines(count)
    BY DEF Added
  <1>6. Awaited \in SUBSET Workers
    BY DEF Awaited
  <1>7. QED
    BY <1>4, <1>5, <1>6, WorkersOK, FS_Subset

\* A worker has as many lines as it counts.
LEMMA LinesOfOne ==
    ASSUME NEW w \in Workers, NEW n \in 0..Msgs
    PROVE  IsFiniteSet({w} \X (1..n)) /\ Cardinality({w} \X (1..n)) = n
  <1>1. n \in Nat /\ n \in Int /\ 1 \in Int
    BY SizesOK
  <1>2. IsFiniteSet(1..n) /\ Cardinality(1..n) = n
    <2>1. Cardinality(1..n) = IF 1 > n THEN 0 ELSE n - 1 + 1
      BY <1>1, FS_Interval
    <2>2. QED
      BY <1>1, <2>1, FS_Interval
  <1>3. IsFiniteSet({w}) /\ Cardinality({w}) = 1
    BY FS_Singleton
  <1>4. /\ IsFiniteSet({w} \X (1..n))
        /\ Cardinality({w} \X (1..n)) = Cardinality({w}) * Cardinality(1..n)
    BY <1>2, <1>3, FS_Product
  <1>5. QED
    BY <1>1, <1>2, <1>3, <1>4

\* Steps that end no worker and change no count of one that has ended leave
\* the total right, and those that move a worker between awaited labels leave
\* the WaitGroup right.
LEMMA SameCounted ==
    ASSUME Counted, UNCHANGED <<wg, total>>,
           \A w \in Workers : /\ pc'[w] = "done" <=> pc[w] = "done"
                              /\ pc'[w] = "unborn" <=> pc[w] = "unborn"
                              /\ pc[w] = "done" => count'[w] = count[w]
    PROVE  Counted'
  <1>1. Awaited' = Awaited
    BY DEF Awaited
  <1>2. Added' = Added
    BY DEF Added, Lines
  <1>3. QED
    BY <1>1, <1>2 DEF Counted

\* The WaitGroup waits for a worker that has been spawned.
LEMMA StillAwaited ==
    ASSUME Types, Counted, NEW w \in Workers, pc[w] \notin {"unborn", "done"}
    PROVE  /\ wg - 1 \in Nat
           /\ Cardinality(Awaited \ {w}) = wg - 1
  <1>1. w \in Awaited /\ IsFiniteSet(Awaited) /\ wg = Cardinality(Awaited)
    BY CountedAreFinite DEF Awaited, Counted
  <1>2. Cardinality(Awaited \ {w}) = Cardinality(Awaited) - 1
    BY <1>1, FS_RemoveElement
  <1>3. IsFiniteSet(Awaited \ {w})
    BY <1>1, FS_RemoveElement
  <1>4. Cardinality(Awaited \ {w}) \in Nat
    BY <1>3, FS_CardinalityType
  <1>5. QED
    BY <1>1, <1>2, <1>4

-----------------------------------------------------------------------------
(* The steps                                                               *)

LEMMA InitIInv == Init => IInv
  <1> SUFFICES ASSUME Init PROVE IInv
    OBVIOUS
  <1>1. Types
    BY SizesOK DEF Init, Types, Labels, Zero
  <1>2. \A w \in Workers : LinesOf(w)
    BY DEF Init, LinesOf, Zero
  <1>3. Awaited = {} /\ Added = {}
    BY DEF Init, Awaited, Added, Lines
  <1>4. Counted
    BY <1>3, FS_EmptySet DEF Init, Counted
  <1>5. QED
    BY <1>1, <1>2, <1>4 DEF Init, IInv, MainWaits

LEMMA SpawnKeeps ==
    ASSUME IInv, NEW w \in Workers, Spawn(w)
    PROVE  IInv'
  <1>1. /\ main = "spawning" /\ pc[w] = "unborn" /\ wg' = wg + 1
        /\ pc' = [pc EXCEPT ![w] = "dialing"]
        /\ UNCHANGED <<main, total, failed, count, buffered, socket, delivered, broken>>
    BY DEF Spawn, Goto
  <1>2. Types'
    BY <1>1 DEF IInv, Types, Labels
  <1>3. pc'[w] = "dialing" /\ \A v \in Workers : v # w => pc'[v] = pc[v]
    BY <1>1 DEF IInv, Types
  <1>4. \A v \in Workers : LinesOf(v)'
    BY <1>1, <1>3 DEF IInv, LinesOf
  <1>5. Awaited' = Awaited \cup {w} /\ w \notin Awaited
    BY <1>1, <1>3 DEF Awaited
  <1>6. Added' = Added
    BY <1>1, <1>3 DEF Added, Lines
  <1>7. Counted'
    BY <1>1, <1>5, <1>6, CountedAreFinite, FS_AddElement DEF IInv, Counted
  <1>8. MainWaits'
    BY <1>1 DEF MainWaits
  <1>9. QED
    BY <1>2, <1>4, <1>7, <1>8 DEF IInv

\* A worker that ends adds its lines to the total; one that was refused has none.
LEMMA EndKeeps ==
    ASSUME IInv, NEW w \in Workers, pc[w] \notin {"unborn", "done"},
           pc' = [pc EXCEPT ![w] = "done"], wg' = wg - 1, total' = total + count[w],
           failed' \in Nat, buffered[w] = 0 \/ w \in broken,
           UNCHANGED <<main, count, buffered, socket, delivered, broken>>
    PROVE  IInv'
  <1>1. wg - 1 \in Nat /\ Cardinality(Awaited \ {w}) = wg - 1
    BY StillAwaited DEF IInv
  <1>2. count[w] \in 0..Msgs /\ count[w] \in Nat
    BY SizesOK DEF IInv, Types
  <1>3. Types'
    BY <1>1, <1>2 DEF IInv, Types, Labels
  <1>4. pc'[w] = "done" /\ \A v \in Workers : v # w => pc'[v] = pc[v]
    BY DEF IInv, Types
  <1>5. \A v \in Workers : LinesOf(v)'
    BY <1>4 DEF IInv, LinesOf
  <1>6. Awaited' = Awaited \ {w}
    BY <1>4 DEF Awaited
  <1>7. Added' = Added \cup ({w} \X (1..count[w])) /\ Added \cap ({w} \X (1..count[w])) = {}
    <2> DEFINE mine == {w} \X (1..count[w])
    <2>1. Added \cap mine = {}
      BY DEF Added
    <2>2. ASSUME NEW l \in Added' PROVE l \in Added \cup mine
      <3>1. /\ l \in Workers \X (1..Msgs) /\ l[2] <= count[l[1]]
            /\ pc'[l[1]] = "done"
        BY <2>2 DEF Added, Lines
      <3>2. CASE l[1] = w
        BY <1>2, <3>1, <3>2, SizesOK
      <3>3. CASE l[1] # w
        BY <1>4, <3>1, <3>3 DEF Added, Lines
      <3>4. QED
        BY <3>2, <3>3
    <2>3. ASSUME NEW l \in mine PROVE l \in Added'
      <3>1. /\ l \in Workers \X (1..Msgs) /\ l[1] = w /\ l[2] <= count[w]
        BY <1>2, SizesOK
      <3>2. QED
        BY <1>4, <3>1 DEF Added, Lines
    <2>4. ASSUME NEW l \in Added PROVE l \in Added'
      <3>1. l[1] \in Workers /\ pc[l[1]] = "done"
        BY <2>4 DEF Added, Lines
      <3>2. pc'[l[1]] = "done"
        BY <1>4, <3>1
      <3>3. QED
        BY <2>4, <3>2 DEF Added, Lines
    <2>5. QED
      BY <2>1, <2>2, <2>3, <2>4
  <1>8. Cardinality(Added') = Cardinality(Added) + count[w]
    <2> DEFINE mine == {w} \X (1..count[w])
    <2>1. IsFiniteSet(mine) /\ Cardinality(mine) = count[w]
      BY <1>2, LinesOfOne
    <2>2. IsFiniteSet(Added) /\ Added' = Added \cup mine /\ Added \cap mine = {}
      BY <1>7, CountedAreFinite
    <2> HIDE DEF mine
    <2>3. Cardinality(Added \cup mine)
             = Cardinality(Added) + Cardinality(mine) - Cardinality(Added \cap mine)
      BY <2>1, <2>2, FS_Union
    <2>4. Cardinality(Added \cap mine) = 0 /\ Cardinality(Added) \in Nat
      BY <2>2, FS_EmptySet, FS_CardinalityType
    <2>5. QED
      BY <1>2, <2>1, <2>2, <2>3, <2>4
  <1>9. Counted'
    BY <1>1, <1>6, <1>8 DEF IInv, Counted
  <1>10. MainWaits'
    BY <1>4 DEF IInv, MainWaits
  <1>11. QED
    BY <1>3, <1>5, <1>9, <1>10 DEF IInv

\* A step that starts and ends no worker and moves the lines of one.
LEMMA MoveKeeps ==
    ASSUME IInv, NEW w \in Workers, UNCHANGED <<main, wg, total>>, Types',
           pc'[w] = "done" <=> pc[w] = "done", pc'[w] = "unborn" <=> pc[w] = "unborn",
           pc[w] = "done" => count'[w] = count[w],
           \A v \in Workers : v # w => /\ pc'[v] = pc[v] /\ count'[v] = count[v]
                                       /\ buffered'[v] = buffered[v]
                                       /\ socket'[v] = socket[v]
                                       /\ delivered'[v] = delivered[v]
                                       /\ v \in broken' <=> v \in broken,
           LinesOf(w)'
    PROVE  IInv'
  <1>1. Counted'
    BY SameCounted DEF IInv
  <1>2. \A v \in Workers : LinesOf(v)'
    BY DEF IInv, LinesOf
  <1>3. MainWaits'
    BY DEF IInv, MainWaits
  <1>4. QED
    BY <1>1, <1>2, <1>3 DEF IInv

LEMMA WriteKeeps ==
    ASSUME IInv, NEW w \in Workers, Write(w)
    PROVE  IInv'
  <1>1. /\ pc[w] = "writing" /\ count[w] < Msgs
        /\ count' = [count EXCEPT ![w] = @ + 1]
        /\ buffered' = [buffered EXCEPT ![w] = @ + 1]
        /\ UNCHANGED <<main, wg, total, failed, pc, socket, delivered, broken>>
    BY DEF Write
  <1>2. Types'
    BY <1>1, SizesOK DEF IInv, Types
  <1>3. /\ count'[w] = count[w] + 1 /\ buffered'[w] = buffered[w] + 1
        /\ \A v \in Workers : v # w => count'[v] = count[v] /\ buffered'[v] = buffered[v]
    BY <1>1 DEF IInv, Types
  <1>4. /\ count[w] \in Int /\ buffered[w] \in Int /\ socket[w] \in Int
        /\ delivered[w] \in Int
    BY DEF IInv, Types
  <1>5. LinesOf(w)'
    <2>1. /\ delivered[w] + socket[w] + buffered[w] <= count[w]
          /\ w \notin broken => delivered[w] + socket[w] + buffered[w] = count[w]
      BY DEF IInv, LinesOf
    <2>2. /\ delivered[w] + socket[w] + (buffered[w] + 1) <= count[w] + 1
          /\ w \notin broken =>
                 delivered[w] + socket[w] + (buffered[w] + 1) = count[w] + 1
      BY <1>4, <2>1
    <2>3. QED
      BY <1>1, <1>3, <2>2 DEF LinesOf
  <1>6. QED
    BY <1>1, <1>2, <1>3, <1>5, MoveKeeps

LEMMA PutKeeps ==
    ASSUME IInv, NEW w \in Workers, Put(w)
    PROVE  IInv'
  <1>1. /\ pc[w] \in {"emptying", "flushing"} /\ buffered[w] > 0
        /\ buffered' = [buffered EXCEPT ![w] = @ - 1]
        /\ socket' = [socket EXCEPT ![w] = @ + 1]
        /\ UNCHANGED <<main, wg, total, failed, pc, count, delivered, broken>>
    BY DEF Put
  <1>2. Types'
    BY <1>1 DEF IInv, Types
  <1>3. /\ buffered'[w] = buffered[w] - 1 /\ socket'[w] = socket[w] + 1
        /\ \A v \in Workers : v # w => buffered'[v] = buffered[v] /\ socket'[v] = socket[v]
    BY <1>1 DEF IInv, Types
  <1>4. /\ count[w] \in Int /\ buffered[w] \in Int /\ socket[w] \in Int
        /\ delivered[w] \in Int
    BY DEF IInv, Types
  <1>5. LinesOf(w)'
    BY <1>1, <1>3, <1>4 DEF IInv, LinesOf
  <1>6. QED
    BY <1>1, <1>2, <1>3, <1>5, MoveKeeps

LEMMA ServerReadsKeeps ==
    ASSUME IInv, NEW w \in Workers, ServerReads(w)
    PROVE  IInv'
  <1>1. /\ socket[w] > 0
        /\ socket' = [socket EXCEPT ![w] = @ - 1]
        /\ delivered' = [delivered EXCEPT ![w] = @ + 1]
        /\ UNCHANGED <<main, wg, total, failed, pc, count, buffered, broken>>
    BY DEF ServerReads
  <1>2. Types'
    BY <1>1 DEF IInv, Types
  <1>3. /\ socket'[w] = socket[w] - 1 /\ delivered'[w] = delivered[w] + 1
        /\ \A v \in Workers : v # w => socket'[v] = socket[v] /\ delivered'[v] = delivered[v]
    BY <1>1 DEF IInv, Types
  <1>4. /\ count[w] \in Int /\ buffered[w] \in Int /\ socket[w] \in Int
        /\ delivered[w] \in Int
    BY DEF IInv, Types
  <1>5. LinesOf(w)'
    BY <1>1, <1>3, <1>4 DEF IInv, LinesOf
  <1>6. QED
    BY <1>1, <1>2, <1>3, <1>5, MoveKeeps

LEMMA ServerDropsKeeps ==
    ASSUME IInv, NEW w \in Workers, ServerDrops(w)
    PROVE  IInv'
  <1>1. /\ pc[w] \notin {"unborn", "dialing"}
        /\ broken' = broken \cup {w} /\ socket' = [socket EXCEPT ![w] = 0]
        /\ UNCHANGED <<main, wg, total, failed, pc, count, buffered, delivered>>
    BY DEF ServerDrops
  <1>2. Types'
    BY <1>1 DEF IInv, Types
  <1>3. /\ socket'[w] = 0 /\ w \in broken'
        /\ \A v \in Workers : v # w => socket'[v] = socket[v]
    BY <1>1 DEF IInv, Types
  <1>4. /\ count[w] \in Int /\ buffered[w] \in Nat /\ socket[w] \in Nat
        /\ delivered[w] \in Nat
    BY DEF IInv, Types
  <1>5. delivered[w] + socket[w] + buffered[w] <= count[w]
    BY DEF IInv, LinesOf
  <1>6. delivered[w] + 0 + buffered[w] <= count[w]
    BY <1>4, <1>5
  <1>7. LinesOf(w)'
    <2>1. delivered'[w] + socket'[w] + buffered'[w] <= count'[w]
      BY <1>1, <1>3, <1>6
    <2>2. pc'[w] = pc[w]
      BY <1>1
    <2>3. QED
      BY <1>1, <1>3, <2>1, <2>2 DEF LinesOf
  <1>8. QED
    BY <1>1, <1>2, <1>3, <1>7, MoveKeeps

\* The steps of a worker that only go on in its code.
LEMMA LabelKeeps ==
    ASSUME IInv, NEW w \in Workers,
           \/ Connected(w) \/ WriteFull(w) \/ Emptied(w) \/ WriteFails(w)
           \/ LoopEnds(w) \/ Flushed(w)
    PROVE  IInv'
  <1>1. PICK l \in {"writing", "emptying", "adding", "flushing"} :
            /\ pc' = [pc EXCEPT ![w] = l]
            /\ l = "adding" => buffered[w] = 0 \/ w \in broken
    BY DEF Connected, WriteFull, Emptied, WriteFails, LoopEnds, Flushed, Goto
  <1>2. /\ pc[w] \notin {"unborn", "done"}
        /\ UNCHANGED <<main, wg, total, failed, count, buffered, socket, delivered, broken>>
    BY DEF Connected, WriteFull, Emptied, WriteFails, LoopEnds, Flushed
  <1>3. Types'
    BY <1>1, <1>2 DEF IInv, Types, Labels
  <1>4. pc'[w] = l /\ \A v \in Workers : v # w => pc'[v] = pc[v]
    BY <1>1 DEF IInv, Types
  <1>5. LinesOf(w)'
    BY <1>1, <1>2, <1>4 DEF IInv, LinesOf
  <1>6. QED
    BY <1>2, <1>3, <1>4, <1>5, MoveKeeps

LEMMA NextKeeps == IInv /\ [Next]_vars => IInv'
  <1> SUFFICES ASSUME IInv, [Next]_vars PROVE IInv'
    OBVIOUS
  <1>1. CASE UNCHANGED vars
    BY <1>1 DEF vars, IInv, Types, LinesOf, Counted, Awaited, Added, Lines, MainWaits
  <1>2. ASSUME NEW w \in Workers, DialFails(w) PROVE IInv'
    <2>1. /\ pc[w] = "dialing" /\ failed' = failed + 1 /\ wg' = wg - 1
          /\ pc' = [pc EXCEPT ![w] = "done"]
          /\ UNCHANGED <<main, total, count, buffered, socket, delivered, broken>>
      BY <1>2 DEF DialFails, Goto
    <2>2. count[w] = 0 /\ buffered[w] = 0 /\ total \in Nat /\ failed' \in Nat
      BY <2>1 DEF IInv, Types, LinesOf
    <2>3. total' = total + count[w]
      BY <2>1, <2>2
    <2>4. QED
      BY <2>1, <2>2, <2>3, EndKeeps
  <1>3. ASSUME NEW w \in Workers, Add(w) PROVE IInv'
    <2>1. /\ pc[w] = "adding" /\ total' = total + count[w] /\ wg' = wg - 1
          /\ pc' = [pc EXCEPT ![w] = "done"]
          /\ UNCHANGED <<main, failed, count, buffered, socket, delivered, broken>>
      BY <1>3 DEF Add, Goto
    <2>2. failed' \in Nat /\ (buffered[w] = 0 \/ w \in broken)
      BY <2>1 DEF IInv, Types, LinesOf
    <2>3. QED
      BY <2>1, <2>2, EndKeeps
  <1>4. ASSUME NEW w \in Workers, Spawn(w) \/ Worker(w) \/ ServerReads(w) \/ ServerDrops(w)
        PROVE  IInv'
    BY <1>2, <1>3, <1>4, SpawnKeeps, WriteKeeps, PutKeeps, ServerReadsKeeps,
       ServerDropsKeeps, LabelKeeps DEF Worker
  <1>5. CASE AllSpawned
    BY <1>5 DEF AllSpawned, IInv, Types, LinesOf, Counted, Awaited, Added, Lines, MainWaits
  <1>6. CASE Report
    <2>1. /\ main = "waiting" /\ wg = 0 /\ main' = "reported"
          /\ UNCHANGED <<wg, total, failed, pc, count, buffered, socket, delivered, broken>>
      BY <1>6 DEF Report
    <2>2. Awaited = {}
      BY <2>1, CountedAreFinite, FS_EmptySet DEF IInv, Counted
    <2>3. \A w \in Workers : pc[w] = "done"
      BY <2>1, <2>2 DEF Awaited, IInv, MainWaits
    <2>4. QED
      BY <2>1, <2>3 DEF IInv, Types, LinesOf, Counted, Awaited, Added, Lines, MainWaits
  <1>7. QED
    BY <1>1, <1>4, <1>5, <1>6 DEF Next

LEMMA IInvHolds == Spec => []IInv
  BY InitIInv, NextKeeps, PTL DEF Spec

-----------------------------------------------------------------------------
(* The theorem                                                             *)

\* The total that main prints covers every line the server has read, and the
\* count of a worker whose connection was kept is exact: the WaitGroup is not
\* zero before every worker has added, and what fails in the middle of a write
\* was counted before.
THEOREM TotalIsNotLess == Spec => []TotalCoversDelivered
  <1>1. ASSUME IInv, main = "reported"
        PROVE  /\ total >= Cardinality(Lines(delivered))
               /\ \A w \in Workers \ broken : count[w] = delivered[w] + socket[w]
    <2>1. \A w \in Workers : pc[w] = "done"
      BY <1>1 DEF IInv, MainWaits
    <2>2. \A w \in Workers : /\ count[w] \in Int /\ buffered[w] \in Nat
                             /\ socket[w] \in Nat /\ delivered[w] \in Nat
      BY <1>1 DEF IInv, Types
    <2>3. \A w \in Workers : delivered[w] <= count[w]
      BY <1>1, <2>2 DEF IInv, LinesOf
    <2>4. Lines(delivered) \subseteq Added
      <3> SUFFICES ASSUME NEW l \in Lines(delivered) PROVE l \in Added
        OBVIOUS
      <3>1. /\ l \in Workers \X (1..Msgs) /\ l[1] \in Workers /\ l[2] \in Int
            /\ l[2] <= delivered[l[1]]
        BY DEF Lines
      <3>2. l[2] <= count[l[1]]
        BY <2>2, <2>3, <3>1
      <3>3. QED
        BY <2>1, <3>1, <3>2 DEF Added, Lines
    <2>5. Cardinality(Lines(delivered)) <= Cardinality(Added)
      BY <2>4, CountedAreFinite, FS_Subset
    <2>6. total = Cardinality(Added) /\ total \in Nat /\ Cardinality(Lines(delivered)) \in Nat
      BY <1>1, CountedAreFinite, FS_CardinalityType DEF IInv, Counted, Types
    <2>7. \A w \in Workers \ broken : count[w] = delivered[w] + socket[w]
      BY <1>1, <2>1, <2>2 DEF IInv, LinesOf
    <2>8. QED
      BY <2>5, <2>6, <2>7
  <1>2. IInv => TotalCoversDelivered
    BY <1>1 DEF TotalCoversDelivered
  <1>3. QED
    BY <1>2, IInvHolds, PTL

=============================================================================
