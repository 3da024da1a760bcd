--------------------------- MODULE RequestsProofs ---------------------------
(* The free list is a pool and the linked list is a first-in first-out       *)
(* queue, for any size of the pool: each on its own, and with the queue      *)
(* threaded through the slots of the pool.                                   *)
EXTENDS Requests, FiniteSetTheorems, TLAPS

-----------------------------------------------------------------------------
(* The free list.                                                            *)

StackInv == TypeOK /\ StackIsFreeSet /\ IsFiniteSet(held)

LEMMA InitStackInv == Init => StackInv
<1> SUFFICES ASSUME Init PROVE StackInv
  OBVIOUS
<1>1. IsFiniteSet(held) /\ Cardinality(held) = 0
  BY FS_EmptySet DEF Init
<1>2. TypeOK
  BY SizeOK DEF Init, TypeOK, Index
<1>3. FreeSlots = Index \ held
  BY SizeOK DEF Init, FreeSlots, Index
<1>4. \A i, j \in 0..(free_top - 1) : free_list[i] = free_list[j] => i = j
  BY SizeOK DEF Init, Index
<1> QED  BY <1>1, <1>2, <1>3, <1>4, SizeOK DEF Init, StackInv, StackIsFreeSet

(* get takes the slot at the top of the stack.                               *)
LEMMA GetStep ==
  ASSUME StackInv, Get
  PROVE  /\ StackInv'
         /\ answer' \in FreeSlots /\ FreeSlots' = FreeSlots \ {answer'}
<1>1. /\ free_list \in [Index -> Index] /\ free_top \in 1..Size /\ held \in SUBSET Index
      /\ Size \in Nat /\ IsFiniteSet(held)
  BY SizeOK DEF StackInv, TypeOK, Get
<1>2. /\ free_list' = free_list /\ free_top' = free_top - 1
      /\ answer' = free_list[free_top - 1] /\ held' = held \cup {answer'}
  BY DEF Get
<1>3. free_top - 1 \in Index /\ answer' \in Index
  BY <1>1, <1>2 DEF Index
<1>4. answer' \in FreeSlots /\ answer' \notin held
  <2>1. answer' \in FreeSlots
    BY <1>1, <1>2 DEF FreeSlots
  <2> QED  BY <2>1 DEF StackInv, StackIsFreeSet
<1>5. FreeSlots' = FreeSlots \ {answer'}
  <2>1. \A i \in 0..(free_top - 2) : free_list[i] # answer'
    BY <1>1, <1>2 DEF StackInv, StackIsFreeSet
  <2>2. FreeSlots' = {free_list[i] : i \in 0..(free_top - 2)}
    BY <1>1, <1>2 DEF FreeSlots
  <2> QED  BY <1>1, <1>2, <2>1, <2>2 DEF FreeSlots
<1>6. TypeOK'
  BY <1>1, <1>2, <1>3 DEF TypeOK
<1>7. IsFiniteSet(held') /\ Cardinality(held') = Cardinality(held) + 1
  BY <1>1, <1>2, <1>4, FS_AddElement
<1>8. FreeSlots' = Index \ held'
  BY <1>2, <1>5 DEF StackInv, StackIsFreeSet
<1>9. \A i, j \in 0..(free_top' - 1) : free_list'[i] = free_list'[j] => i = j
  BY <1>1, <1>2 DEF StackInv, StackIsFreeSet
<1>10. free_top' + Cardinality(held') = Size
  <2>1. Cardinality(held) \in Nat /\ free_top + Cardinality(held) = Size
    BY <1>1, FS_CardinalityType DEF StackInv, StackIsFreeSet
  <2> QED  BY <1>1, <1>2, <1>7, <2>1
<1>11. Index' = Index
  BY DEF Index
<1> QED  BY <1>4, <1>5, <1>6, <1>7, <1>8, <1>9, <1>10, <1>11 DEF StackInv, StackIsFreeSet

(* release puts the slot on top of the stack, for which there is room.       *)
LEMMA ReleaseStep ==
  ASSUME StackInv, NEW s \in Index, Release(s)
  PROVE  /\ StackInv'
         /\ s \notin FreeSlots /\ FreeSlots' = FreeSlots \cup {s}
<1>1. /\ free_list \in [Index -> Index] /\ free_top \in 0..Size /\ held \in SUBSET Index
      /\ Size \in Nat /\ IsFiniteSet(held) /\ s \in held
  BY SizeOK DEF StackInv, TypeOK, Release
<1>2. /\ free_list' = [free_list EXCEPT ![free_top] = s] /\ free_top' = free_top + 1
      /\ answer' = None /\ held' = held \ {s}
  BY DEF Release
<1>3. /\ Cardinality(held) \in Nat /\ Cardinality(held) # 0
      /\ IsFiniteSet(held') /\ Cardinality(held') = Cardinality(held) - 1
  <2>1. Cardinality(held) \in Nat
    BY <1>1, FS_CardinalityType
  <2>2. Cardinality(held) # 0
    BY <1>1, FS_EmptySet
  <2> QED  BY <1>1, <1>2, <2>1, <2>2, FS_RemoveElement
<1>4. free_top < Size /\ free_top + Cardinality(held) = Size
  BY <1>1, <1>3 DEF StackInv, StackIsFreeSet
<1>5. free_top \in Index /\ \A i \in 0..(free_top - 1) : i \in Index
  BY <1>1, <1>4 DEF Index
<1>6. /\ free_list'[free_top] = s
      /\ \A i \in 0..(free_top - 1) : free_list'[i] = free_list[i]
  BY <1>1, <1>2, <1>5
<1>7. s \notin FreeSlots
  BY <1>1 DEF StackInv, StackIsFreeSet
<1>8. FreeSlots' = FreeSlots \cup {s}
  <2>1. FreeSlots' = {free_list'[i] : i \in 0..free_top}
    BY <1>1, <1>2 DEF FreeSlots
  <2>2. \A i \in 0..free_top : i = free_top \/ i \in 0..(free_top - 1)
    BY <1>1
  <2>3. free_top \in 0..free_top /\ \A i \in 0..(free_top - 1) : i \in 0..free_top
    BY <1>1
  <2> QED  BY <1>6, <2>1, <2>2, <2>3 DEF FreeSlots
<1>9. TypeOK'
  <2>1. free_list' \in [Index -> Index]
    BY <1>1, <1>2
  <2>2. free_top' \in 0..Size
    BY <1>1, <1>2, <1>4
  <2> QED  BY <1>1, <1>2, <2>1, <2>2 DEF TypeOK
<1>10. FreeSlots' = Index \ held'
  BY <1>1, <1>2, <1>8 DEF StackInv, StackIsFreeSet
<1>11. \A i, j \in 0..(free_top' - 1) : free_list'[i] = free_list'[j] => i = j
  <2> SUFFICES ASSUME NEW i \in 0..(free_top' - 1), NEW j \in 0..(free_top' - 1),
                      free_list'[i] = free_list'[j]
               PROVE  i = j
    OBVIOUS
  <2>1. /\ i = free_top \/ i \in 0..(free_top - 1)
        /\ j = free_top \/ j \in 0..(free_top - 1)
    BY <1>1, <1>2
  <2>2. \A k \in 0..(free_top - 1) : free_list[k] # s
    BY <1>7 DEF FreeSlots
  <2>3. i \in 0..(free_top - 1) /\ j \in 0..(free_top - 1) => i = j
    BY <1>6 DEF StackInv, StackIsFreeSet
  <2> QED  BY <1>6, <2>1, <2>2, <2>3
<1>12. free_top' + Cardinality(held') = Size
  BY <1>1, <1>2, <1>3, <1>4
<1> QED  BY <1>3, <1>7, <1>8, <1>9, <1>10, <1>11, <1>12 DEF StackInv, StackIsFreeSet

LEMMA StackInvStep == StackInv /\ [Next]_vars => StackInv'
<1> SUFFICES ASSUME StackInv, [Next]_vars PROVE StackInv'
  OBVIOUS
<1>1. CASE Get
  BY <1>1, GetStep
<1>2. CASE GetRefused
  BY <1>2 DEF StackInv, TypeOK, StackIsFreeSet, FreeSlots, GetRefused
<1>3. ASSUME NEW s \in Index, Release(s) PROVE StackInv'
  BY <1>3, ReleaseStep
<1>4. CASE UNCHANGED vars
  BY <1>4 DEF StackInv, TypeOK, StackIsFreeSet, FreeSlots, vars
<1> QED  BY <1>1, <1>2, <1>3, <1>4 DEF Next

LEMMA StackInvHolds == Spec => []StackInv
BY InitStackInv, StackInvStep, PTL DEF Spec

(* Every slot and index stays in range: free_list[free_top] is never read   *)
(* below the stack, release never writes above it.                          *)
THEOREM SlotsTypeCorrect == Spec => []TypeOK
<1>1. StackInv => TypeOK
  BY DEF StackInv
<1> QED  BY StackInvHolds, <1>1, PTL

(* The stack always is the set of the slots that are not handed out.         *)
THEOREM StackIsTheFreeSet == Spec => []StackIsFreeSet
<1>1. StackInv => StackIsFreeSet
  BY DEF StackInv
<1> QED  BY StackInvHolds, <1>1, PTL

(* get and release behave as those of a pool: the code implements Pool.      *)
THEOREM FreeListImplementsPool == Spec => ImplementsPool
<1>1. Init => P!Init
  <2> SUFFICES ASSUME Init PROVE P!Init
    OBVIOUS
  <2>1. FreeSlots = Index
    BY SizeOK DEF Init, FreeSlots, Index
  <2> QED  BY <2>1 DEF Init, P!Init
<1>2. StackInv /\ [Next]_vars => [P!Next]_P!vars
  <2> SUFFICES ASSUME StackInv, [Next]_vars PROVE [P!Next]_P!vars
    OBVIOUS
  <2>1. CASE Get
    <3>1. P!Get(answer')
      BY <2>1, GetStep DEF P!Get
    <3>2. answer' \in Index
      BY <2>1, GetStep DEF StackInv, StackIsFreeSet
    <3> QED  BY <3>1, <3>2 DEF P!Next
  <2>2. CASE GetRefused
    <3>1. 0..(free_top - 1) = {}
      BY <2>2 DEF GetRefused
    <3>2. FreeSlots = {} /\ FreeSlots' = FreeSlots /\ answer' = None
      BY <2>2, <3>1 DEF GetRefused, FreeSlots
    <3> QED  BY <3>2 DEF P!GetRefused, P!Next
  <2>3. ASSUME NEW s \in Index, Release(s) PROVE P!Next
    <3>1. P!Release(s)
      BY <2>3, ReleaseStep DEF P!Release, Release
    <3> QED  BY <3>1 DEF P!Next
  <2>4. CASE UNCHANGED vars
    BY <2>4 DEF vars, P!vars, FreeSlots
  <2> QED  BY <2>1, <2>2, <2>3, <2>4 DEF Next
<1> QED  BY StackInvHolds, <1>1, <1>2, PTL DEF Spec, ImplementsPool, P!Spec

-----------------------------------------------------------------------------
(* The linked list.                                                          *)

(* The list, and the links of the requests H that are initialised; the rest  *)
(* of the links may be anything.                                             *)
ListInv(H) ==
  /\ QueueTypeOK /\ Linked
  /\ \A r \in H : next[r] # Null => \E i \in 1..(Len(items) - 1) : items[i] = r
  /\ \A i \in DOMAIN items : items[i] \in H

LEMMA InitListInv == QueueInit => ListInv(Reqs)
BY DEF QueueInit, ListInv, QueueTypeOK, Linked

(* push ties the new request to the last one.                                *)
LEMMA PushStep ==
  ASSUME NEW H \in SUBSET Reqs, ListInv(H), NEW r \in H, Push(r)
  PROVE  ListInv(H)'
<1> DEFINE n == Len(items)
<1>1. /\ items \in Seq(Reqs) /\ n \in Nat
      /\ items' = Append(items, r) /\ items' \in Seq(Reqs) /\ Len(items') = n + 1
      /\ items'[n + 1] = r
      /\ \A i \in 1..n : items'[i] = items[i] /\ items[i] \in Reqs
      /\ tail' = r /\ popped' = popped
  BY DEF ListInv, QueueTypeOK, Push
<1>2. \A i \in 1..n : items[i] # r
  BY <1>1 DEF Push, Queued
<1>3. items = <<>> <=> n = 0
  BY <1>1
<1>0. r \in Reqs /\ \A i \in 1..(n + 1) : items'[i] \in H
  BY <1>1 DEF ListInv
<1>4. CASE tail # Null
  <2>1. n # 0 /\ tail = items[n] /\ head = items[1] /\ tail \in Reqs
    BY <1>1, <1>3, <1>4 DEF ListInv, Linked
  <2>2. next' = [next EXCEPT ![tail] = r] /\ head' = head
    BY <1>4 DEF Push
  <2>3. QueueTypeOK'
    BY <1>1, <2>1, <2>2 DEF ListInv, QueueTypeOK
  <2>4. next'[items[n]] = r
    BY <2>1, <2>2 DEF ListInv, QueueTypeOK
  <2>5. \A i \in 1..(n - 1) : next'[items[i]] = items[i + 1]
    <3> TAKE i \in 1..(n - 1)
    <3>1. items[i] # items[n]
      BY <1>1 DEF ListInv, Linked
    <3>2. next[items[i]] = items[i + 1]
      BY DEF ListInv, Linked
    <3> QED  BY <1>1, <2>1, <2>2, <3>1, <3>2 DEF ListInv, QueueTypeOK
  <2>6. \A i \in 1..n : next'[items'[i]] = items'[i + 1]
    <3> TAKE i \in 1..n
    <3>1. CASE i = n
      BY <1>1, <2>1, <2>4, <3>1
    <3>2. CASE i # n
      BY <1>1, <2>1, <2>5, <3>2
    <3> QED  BY <3>1, <3>2
  <2>7. \A i, j \in 1..(n + 1) : items'[i] = items'[j] => i = j
    BY <1>1, <1>2 DEF ListInv, Linked
  <2>8. Linked'
    BY <1>1, <2>1, <2>2, <2>6, <2>7 DEF Linked
  <2>9. ASSUME NEW q \in H, next'[q] # Null
        PROVE  \E i \in 1..n : items'[i] = q
    <3>1. CASE q = tail
      BY <1>1, <2>1, <3>1
    <3>2. CASE q # tail
      <4>1. next[q] # Null
        BY <2>1, <2>2, <2>9, <3>2 DEF ListInv, QueueTypeOK
      <4>2. PICK i \in 1..(n - 1) : items[i] = q
        BY <4>1 DEF ListInv
      <4> QED  BY <1>1, <4>2
    <3> QED  BY <3>1, <3>2
  <2> QED  BY <1>0, <1>1, <2>3, <2>8, <2>9 DEF ListInv
<1>5. CASE tail = Null
  <2>1. n = 0
    <3>1. n # 0 => tail = items[n] /\ items[n] \in Reqs
      BY <1>1, <1>3 DEF ListInv, Linked
    <3> QED  BY <1>5, <3>1, NullOK
  <2>2. head' = r /\ next' = next
    BY <1>5 DEF Push
  <2>3. \A q \in H : next[q] = Null
    BY <1>1, <2>1 DEF ListInv
  <2> QED  BY <1>0, <1>1, <2>1, <2>2, <2>3 DEF ListInv, QueueTypeOK, Linked
<1> QED  BY <1>4, <1>5

(* pop takes the oldest request and unlinks it.                              *)
LEMMA PopStep ==
  ASSUME NEW H \in SUBSET Reqs, ListInv(H), Pop
  PROVE  /\ ListInv(H)'
         /\ items # <<>> /\ popped' = Head(items)
<1> DEFINE n == Len(items)
<1>1. /\ items \in Seq(Reqs) /\ n \in Nat
      /\ popped' = head /\ head' = next[head] /\ tail' = TailAfter(head')
      /\ next' = [next EXCEPT ![head] = Null] /\ items' = Tail(items)
  BY DEF ListInv, QueueTypeOK, Pop, LinkCleared
<1>2. items # <<>> /\ n >= 1 /\ head = items[1] /\ tail = items[n] /\ head \in Reqs
  BY <1>1 DEF ListInv, Linked, Pop
<1>3. /\ items' \in Seq(Reqs) /\ Len(items') = n - 1
      /\ \A i \in 1..(n - 1) : items'[i] = items[i + 1]
      /\ \A i \in 1..n : items[i] \in Reqs
  BY <1>1, <1>2
<1>4. popped' = Head(items)
  BY <1>1, <1>2
<1>5. head' = IF n = 1 THEN Null ELSE items[2]
  <2>1. n = 1 => next[head] = Null
    BY <1>1, <1>2 DEF ListInv
  <2>2. n # 1 => next[items[1]] = items[2]
    <3>1. n # 1 => 1 \in 1..(n - 1)
      <4>1. n \in Nat /\ n >= 1
        BY <1>1, <1>2
      <4> HIDE DEF n
      <4> QED  BY <4>1
    <3>2. n # 1 => next[items[1]] = items[1 + 1]
      BY <3>1 DEF ListInv, Linked
    <3> QED  BY <3>2
  <2> QED  BY <1>1, <1>2, <2>1, <2>2
<1>6. tail' = IF n = 1 THEN Null ELSE items[n]
  <2>1. n # 1 => items[2] # Null
    BY <1>1, <1>2, <1>3, NullOK
  <2> QED  BY <1>1, <1>2, <1>5, <2>1 DEF TailAfter
<1>7. QueueTypeOK'
  BY <1>1, <1>2, <1>3, <1>5, <1>6 DEF ListInv, QueueTypeOK
<1>8. \A i \in 2..n : items[i] # head
  BY <1>1, <1>2 DEF ListInv, Linked
<1>9. \A i \in 1..(n - 2) : next'[items'[i]] = items'[i + 1]
  <2> TAKE i \in 1..(n - 2)
  <2>1. items'[i] = items[i + 1] /\ items'[i + 1] = items[i + 2] /\ items[i + 1] \in Reqs
    BY <1>1, <1>2, <1>3
  <2>2. next[items[i + 1]] = items[i + 2]
    BY <1>1, <1>2 DEF ListInv, Linked
  <2>3. items[i + 1] # head
    BY <1>1, <1>8
  <2> QED  BY <1>1, <2>1, <2>2, <2>3 DEF ListInv, QueueTypeOK
<1>10. \A i, j \in 1..(n - 1) : items'[i] = items'[j] => i = j
  <2> TAKE i, j \in 1..(n - 1)
  <2>1. items'[i] = items[i + 1] /\ items'[j] = items[j + 1]
    BY <1>3
  <2>2. items[i + 1] = items[j + 1] => i + 1 = j + 1
    BY <1>1 DEF ListInv, Linked
  <2> QED  BY <2>1, <2>2
<1>11. Linked'
  <2>1. items' # <<>> => n > 1 /\ items'[1] = items[2] /\ items'[n - 1] = items[n]
    BY <1>1, <1>2, <1>3
  <2>2. items' = <<>> => n = 1
    <3>1. items' = <<>> => Len(items') = 0
      OBVIOUS
    <3> QED  BY <1>1, <1>3, <3>1
  <2>3. items' = <<>> => head' = Null /\ tail' = Null
    BY <1>5, <1>6, <2>2
  <2>4. items' # <<>> => head' = items'[1] /\ tail' = items'[Len(items')]
    BY <1>3, <1>5, <1>6, <2>1
  <2>5. /\ \A i \in 1..(Len(items') - 1) : next'[items'[i]] = items'[i + 1]
        /\ \A i, j \in DOMAIN items' : items'[i] = items'[j] => i = j
    <3>1. Len(items') = n - 1 /\ DOMAIN items' = 1..(n - 1) /\ n \in Nat
      BY <1>1, <1>3
    <3> HIDE DEF n
    <3>2. 1..(Len(items') - 1) = 1..(n - 2)
      BY <3>1
    <3> QED  BY <3>1, <3>2, <1>9, <1>10
  <2> QED  BY <2>3, <2>4, <2>5 DEF Linked
<1>12. ASSUME NEW q \in H, next'[q] # Null
       PROVE  \E i \in 1..(n - 2) : items'[i] = q
  <2>1. q # head /\ next[q] # Null
    BY <1>1, <1>2, <1>12 DEF ListInv, QueueTypeOK
  <2>2. PICK i \in 1..(n - 1) : items[i] = q
    BY <2>1 DEF ListInv
  <2>3. i # 1
    BY <1>2, <2>1, <2>2
  <2>4. i - 1 \in 1..(n - 2) /\ items'[i - 1] = q
    BY <1>1, <1>3, <2>2, <2>3
  <2> QED  BY <2>4
<1>13. \A i \in DOMAIN items' : items'[i] \in H
  BY <1>1, <1>2, <1>3 DEF ListInv
<1>14. \A q \in H : next'[q] # Null => \E i \in 1..(Len(items') - 1) : items'[i] = q
  <2>1. Len(items') = n - 1 /\ n \in Nat
    BY <1>1, <1>3
  <2> HIDE DEF n
  <2>2. 1..(Len(items') - 1) = 1..(n - 2)
    BY <2>1
  <2> QED  BY <1>12, <2>2
<1> QED  BY <1>2, <1>4, <1>7, <1>11, <1>13, <1>14 DEF ListInv

LEMMA ListInvStep == ListInv(Reqs) /\ [QueueNext]_queueVars => ListInv(Reqs)'
<1> SUFFICES ASSUME ListInv(Reqs), [QueueNext]_queueVars PROVE ListInv(Reqs)'
  OBVIOUS
<1>1. ASSUME NEW r \in Reqs, Push(r) PROVE ListInv(Reqs)'
  BY <1>1, PushStep
<1>2. CASE Pop
  BY <1>2, PopStep
<1>3. CASE PopNothing
  BY <1>3 DEF ListInv, QueueTypeOK, Linked, PopNothing
<1>4. CASE UNCHANGED queueVars
  BY <1>4 DEF ListInv, QueueTypeOK, Linked, queueVars
<1> QED  BY <1>1, <1>2, <1>3, <1>4 DEF QueueNext

LEMMA ListInvHolds == QueueSpec => []ListInv(Reqs)
BY InitListInv, ListInvStep, PTL DEF QueueSpec

(* The ends of the list and every link are requests or null.                *)
THEOREM QueueTypeCorrect == QueueSpec => []QueueTypeOK
<1>1. ListInv(Reqs) => QueueTypeOK
  BY DEF ListInv
<1> QED  BY ListInvHolds, <1>1, PTL

(* The list from head runs through what waits, in order, and ends at tail.   *)
THEOREM ListIsLinked == QueueSpec => []Linked
<1>1. ListInv(Reqs) => Linked
  BY DEF ListInv
<1> QED  BY ListInvHolds, <1>1, PTL

(* The links of the requests that are not in the queue are null: the         *)
(* assertion in push holds.                                                  *)
THEOREM LinksAreCleared == QueueSpec => []LinksCleared
<1>1. ListInv(Reqs) => LinksCleared
  BY DEF ListInv, LinksCleared
<1> QED  BY ListInvHolds, <1>1, PTL

(* What Fifo says of the steps of the list.                                  *)
LEMMA FifoSteps ==
  ASSUME NEW H \in SUBSET Reqs, ListInv(H)
  PROVE  /\ \A r \in Reqs : Push(r) => F!Next
         /\ Pop \/ PopNothing => F!Next
<1>1. \A r \in Reqs : Push(r) => F!Next
  BY DEF Push, F!Push, F!Next
<1>2. Pop => F!Next
  BY PopStep DEF Pop, F!Pop, F!Next
<1>3. PopNothing => F!Next
  <2> SUFFICES ASSUME PopNothing PROVE F!Next
    OBVIOUS
  <2>1. items = <<>>
    <3>1. items # <<>> => items[1] \in Reqs /\ head = items[1]
      BY DEF ListInv, QueueTypeOK, Linked
    <3> QED  BY <3>1, NullOK DEF PopNothing
  <2> QED  BY <2>1 DEF PopNothing, F!PopNothing, F!Next
<1> QED  BY <1>1, <1>2, <1>3

(* push and pop behave as those of a first-in first-out queue.               *)
THEOREM QueueImplementsFifo == QueueSpec => ImplementsFifo
<1>1. QueueInit => F!Init
  BY DEF QueueInit, F!Init
<1>2. ListInv(Reqs) /\ [QueueNext]_queueVars => [F!Next]_F!vars
  <2> SUFFICES ASSUME ListInv(Reqs), [QueueNext]_queueVars PROVE [F!Next]_F!vars
    OBVIOUS
  <2>1. CASE QueueNext
    BY <2>1, FifoSteps DEF QueueNext
  <2>2. CASE UNCHANGED queueVars
    BY <2>2 DEF queueVars, F!vars
  <2> QED  BY <2>1, <2>2
<1> QED  BY ListInvHolds, <1>1, <1>2, PTL DEF QueueSpec, ImplementsFifo, F!Spec

-----------------------------------------------------------------------------
(* The requests between the two.                                             *)

(* Whatever waits in the queue is in use, and the links of the requests in   *)
(* use are those of the list.                                                *)
RequestsInv == ListInv(held)

(* The steps are those of a free list.                                       *)
LEMMA RequestsOverSlots == RequestsSpec => Spec
<1>1. RequestsInit => Init
  BY DEF RequestsInit
<1>2. [RequestsNext]_requests => [Next]_vars
  <2>1. ASSUME NEW r \in Reqs, ReleaseClosed(r) PROVE Next
    BY <2>1, ReqsAreSlots DEF ReleaseClosed, Next
  <2>2. Take \/ TakeRefused => Next
    BY DEF Take, TakeRefused, Next
  <2>3. (\E r \in Reqs : PushToQueue(r)) \/ DrainOne \/ UNCHANGED requests => UNCHANGED vars
    BY DEF PushToQueue, DrainOne, requests
  <2> QED  BY <2>1, <2>2, <2>3 DEF RequestsNext
<1> QED  BY <1>1, <1>2, PTL DEF RequestsSpec, Spec

(* Taking a slot clears its link, which may hold anything before, and is not *)
(* one of the list.                                                          *)
LEMMA TakeKeeps ==
  ASSUME StackInv, RequestsInv, Take
  PROVE  RequestsInv'
<1>1. /\ answer' \in Reqs /\ answer' \notin held /\ held' = held \cup {answer'}
      /\ next' = [next EXCEPT ![answer'] = Null]
      /\ UNCHANGED <<head, tail, items, popped>>
  <2>1. answer' \in FreeSlots /\ FreeSlots = Index \ held
    BY GetStep DEF Take, StackInv, StackIsFreeSet
  <2> QED  BY <2>1, ReqsAreSlots DEF Take, Get
<1>2. next \in [Reqs -> Reqs \cup {Null}] /\ items \in Seq(Reqs)
  BY DEF RequestsInv, ListInv, QueueTypeOK
<1>3. /\ next'[answer'] = Null
      /\ \A r \in Reqs : r # answer' => next'[r] = next[r]
  BY <1>1, <1>2
<1>4. \A i \in DOMAIN items : items[i] \in Reqs /\ items[i] # answer'
  BY <1>1, <1>2 DEF RequestsInv, ListInv
<1>5. QueueTypeOK'
  BY <1>1, <1>2 DEF RequestsInv, ListInv, QueueTypeOK
<1>6. \A i \in 1..(Len(items) - 1) : i \in DOMAIN items
  BY <1>2
<1>7. Linked'
  BY <1>1, <1>3, <1>4, <1>6 DEF RequestsInv, ListInv, Linked
<1>8. \A r \in held' : next'[r] # Null => \E i \in 1..(Len(items) - 1) : items[i] = r
  <2>1. held \subseteq Reqs
    BY ReqsAreSlots DEF StackInv, TypeOK
  <2> QED  BY <1>1, <1>3, <2>1 DEF RequestsInv, ListInv
<1> QED  BY <1>1, <1>5, <1>7, <1>8 DEF RequestsInv, ListInv

LEMMA RequestsInvStep ==
  ASSUME StackInv, RequestsInv, [RequestsNext]_requests
  PROVE  RequestsInv'
<1>0. held \in SUBSET Reqs
  BY ReqsAreSlots DEF StackInv, TypeOK
<1>1. CASE Take
  BY <1>1, TakeKeeps
<1>2. ASSUME UNCHANGED queueVars, held' = held
      PROVE  RequestsInv'
  BY <1>2 DEF RequestsInv, ListInv, QueueTypeOK, Linked, queueVars
<1>3. CASE TakeRefused \/ UNCHANGED requests
  BY <1>2, <1>3 DEF TakeRefused, GetRefused, requests, vars
<1>4. ASSUME NEW r \in Reqs, PushToQueue(r)
      PROVE  RequestsInv'
  <2>1. held' = held /\ Push(r) /\ r \in held
    BY <1>4 DEF PushToQueue, vars
  <2> QED  BY <1>0, <2>1, PushStep DEF RequestsInv, ListInv
<1>5. CASE DrainOne
  <2>1. held' = held
    BY <1>5 DEF DrainOne, vars
  <2>2. CASE Pop
    BY <1>0, <2>1, <2>2, PopStep DEF RequestsInv, ListInv
  <2>3. CASE PopNothing
    BY <2>1, <2>3 DEF RequestsInv, ListInv, QueueTypeOK, Linked, PopNothing
  <2> QED  BY <1>5, <2>2, <2>3 DEF DrainOne
<1>6. ASSUME NEW r \in Reqs, ReleaseClosed(r)
      PROVE  RequestsInv'
  <2>1. held' = held \ {r} /\ ~Queued(r) /\ UNCHANGED <<head, tail, next, items, popped>>
    BY <1>6 DEF ReleaseClosed, Release, queueVars
  <2>2. \A i \in DOMAIN items : items[i] # r
    BY <2>1 DEF Queued
  <2> QED  BY <2>1, <2>2 DEF RequestsInv, ListInv, QueueTypeOK, Linked
<1> QED  BY <1>1, <1>3, <1>4, <1>5, <1>6 DEF RequestsNext

LEMMA RequestsInvHolds == RequestsSpec => []RequestsInv
<1>1. RequestsInit => RequestsInv
  BY NullOK DEF RequestsInit, Init, RequestsInv, ListInv, QueueTypeOK, Linked
<1>2. StackInv /\ RequestsInv /\ [RequestsNext]_requests => RequestsInv'
  BY RequestsInvStep
<1> QED  BY <1>1, <1>2, RequestsOverSlots, StackInvHolds, PTL DEF RequestsSpec

(* With the queue threaded through its slots, the pool remains a pool,       *)
THEOREM RequestsImplementPool == RequestsSpec => ImplementsPool
BY RequestsOverSlots, FreeListImplementsPool, PTL

(* the list remains linked, although a slot brings any link into it,         *)
THEOREM RequestsAreLinked == RequestsSpec => []Linked
<1>1. RequestsInv => Linked
  BY DEF RequestsInv, ListInv
<1> QED  BY <1>1, RequestsInvHolds, PTL

(* it remains a first-in first-out queue,                                    *)
THEOREM RequestsImplementFifo == RequestsSpec => ImplementsFifo
<1>1. RequestsInit => F!Init
  BY DEF RequestsInit, F!Init
<1>2. StackInv /\ RequestsInv /\ [RequestsNext]_requests => [F!Next]_F!vars
  <2> SUFFICES ASSUME StackInv, RequestsInv, [RequestsNext]_requests PROVE [F!Next]_F!vars
    OBVIOUS
  <2>0. held \in SUBSET Reqs
    BY ReqsAreSlots DEF StackInv, TypeOK
  <2>1. ASSUME NEW r \in Reqs, PushToQueue(r) PROVE F!Next
    BY <2>0, <2>1, FifoSteps DEF PushToQueue, RequestsInv
  <2>2. CASE DrainOne
    BY <2>0, <2>2, FifoSteps DEF DrainOne, RequestsInv
  <2>3. Take => UNCHANGED F!vars
    BY DEF Take, F!vars
  <2>4. TakeRefused \/ (\E r \in Reqs : ReleaseClosed(r)) \/ UNCHANGED requests => UNCHANGED F!vars
    BY DEF TakeRefused, ReleaseClosed, requests, queueVars, F!vars
  <2> QED  BY <2>1, <2>2, <2>3, <2>4 DEF RequestsNext
<1>3. RequestsSpec => []StackInv
  BY RequestsOverSlots, StackInvHolds, PTL
<1> QED  BY <1>1, <1>2, <1>3, RequestsInvHolds, PTL DEF RequestsSpec, ImplementsFifo, F!Spec

(* and the assertion of push holds for every request that may be pushed.     *)
THEOREM PushAssertionHolds ==
  RequestsSpec => [](\A r \in held : ~Queued(r) => next[r] = Null)
<1>1. RequestsInv => \A r \in held : ~Queued(r) => next[r] = Null
  <2> SUFFICES ASSUME RequestsInv, NEW r \in held, next[r] # Null
               PROVE  Queued(r)
    OBVIOUS
  <2>1. items \in Seq(Reqs)
    BY DEF RequestsInv, ListInv, QueueTypeOK
  <2> QED  BY <2>1 DEF RequestsInv, ListInv, Queued
<1> QED  BY <1>1, RequestsInvHolds, PTL

=============================================================================
