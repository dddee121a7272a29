------------------------------ MODULE SortProofs ------------------------------
(***************************************************************************)
(* Proofs about the parallel sort, for arrays of any length, any elements  *)
(* and thresholds, and any number of failures.                             *)
(*                                                                         *)
(* The regions of any two processes are Laminar: apart, with at least the  *)
(* pivot of a common ancestor between them, or one on one side of the      *)
(* other's pivot, in which case that other has forked and writes no more.  *)
(* So a writer never disturbs what another process knows of the array:     *)
(* the loop's invariant (LoopExact), the two sides of a pivot              *)
(* (PartitionHolds), the order of a region whose process is done.  That    *)
(* elements are neither lost nor made is a matter of rearrangements, which *)
(* compose (RearrangesTwice) and extend from a part to the whole           *)
(* (RegionRearranges).                                                     *)
(***************************************************************************)
EXTENDS SortProperties, FiniteSetTheorems, FunctionTheorems, TLAPS

\* What r has done by then: the left child is forked, the right one is.
ForkedLeft(r) == pc[r] \in {"fork_right", "wait_lone", "wait_left", "wait_right"} \cup Exited
ForkedRight(r) == pc[r] \in {"wait_left", "wait_right"} \cup Exited

Apart(q, r) == q.end < r.start \/ r.end < q.start

Within(q, r) == r.start <= q.start /\ q.end <= r.end

\* q was forked by r or by one of its descendants.
Inside(q, r) ==
  /\ Within(q, r)
  /\ \/ ForkedLeft(r) /\ q.end <= left_index[r]
     \/ ForkedRight(r) /\ left_index[r] < q.start

Laminar ==
  \A q, r \in Regions :
    pc[q] # "none" /\ pc[r] # "none" /\ q # r => Apart(q, r) \/ Inside(q, r) \/ Inside(r, q)

\* The loop of partition, with the right index before the first element when
\* it has wrapped around.
LoopExactAt(r) ==
  LET i == left_index[r]
      j == right_index[r]
  IN  /\ Size(r) >= 2
      /\ r.start <= i
      /\ arr[r.end - 1] = pivot_val[r]
      /\ \A k \in Slots(r) : k < i => arr[k] < pivot_val[r]
      /\ \/ i <= j + 1 /\ j <= r.end - 2 /\ \A k \in Slots(r) : j < k => arr[k] >= pivot_val[r]
         \/ i = 0 /\ j = MaxUlong /\ arr[0] >= pivot_val[r]

LoopExact == \A r \in Regions : pc[r] = "loop" => LoopExactAt(r)

MidInside == \A r \in Regions : Partitioned(r) => left_index[r] \in Slots(r)

\* What a parent that waits for its right child knows of its left one.
LeftExact ==
  \A r \in Regions : pc[r] = "wait_right" =>
    /\ pc[Left(r)] \in Exited
    /\ left_success[r] => pc[Left(r)] = "succeeded"

\* Nobody works in a region ...
CalmAt(r) == \A q \in Regions : Running(q) => ~Within(q, r)

\* ... whose process has exited, unless parents were killed or kept from waiting.
CalmExited ==
  faults.wait = 0 /\ faults.kill = 0 => \A r \in Regions : pc[r] \in Exited => CalmAt(r)

\* A process that succeeded had only descendants that did.
AllSucceeded ==
  \A q, r \in Regions :
    pc[r] = "succeeded" /\ Within(q, r) /\ pc[q] # "none" => pc[q] = "succeeded"

\* Elements are lost only where a process is killed.
KeepsElements ==
  (\A r \in Regions : pc[r] # "killed") => Rearranges(arr, input, Indices)

IInv ==
  /\ TypeOK
  /\ Laminar
  /\ LoopExact
  /\ MidInside
  /\ PartitionHolds
  /\ LeftExact
  /\ CalmExited
  /\ SuccessMeansSorted
  /\ AllSucceeded
  /\ KeepsElements

------------------------------------------------------------------------------
(* Regions *)

\* The ends of a region are its start and its end, within the array.
LEMMA RegionType ==
  ASSUME NEW r \in Regions
  PROVE  /\ r.start \in Int /\ r.end \in Int
         /\ 0 <= r.start /\ r.start <= r.end /\ r.end <= N
         /\ Slots(r) \subseteq Indices
BY SizeAssumption DEF Regions, Slots, Indices

\* Elements, and the pivot before there is one, are integers.
LEMMA ValuesAreInts == \A v \in Values \cup {0} : v \in Int
<1>1. \A v \in Values : v \in Int
  BY ValuesAssumption
<1> QED
  BY <1>1

\* A region is known by its ends.
LEMMA RegionEqual ==
  ASSUME NEW q \in Regions, NEW r \in Regions, Within(q, r), Within(r, q)
  PROVE  q = r
<1>1. q.start = r.start /\ q.end = r.end
  BY RegionType DEF Within
<1>2. q = [start |-> q.start, end |-> q.end] /\ r = [start |-> r.start, end |-> r.end]
  BY DEF Regions
<1> QED
  BY <1>1, <1>2

\* Regions one of which is within the other are not apart.
LEMMA WithinNotApart ==
  ASSUME NEW q \in Regions, NEW r \in Regions, Within(q, r)
  PROVE  ~Apart(q, r) /\ ~Apart(r, q)
BY RegionType DEF Within, Apart

\* A region and two that it is within are not apart either.
LEMMA ApartNotBoth ==
  ASSUME NEW p \in Regions, NEW q \in Regions, NEW r \in Regions, Within(p, q), Within(p, r)
  PROVE  ~Apart(q, r)
BY RegionType DEF Within, Apart

\* The two sides of a pivot are regions, and smaller than the whole.
LEMMA Sides ==
  ASSUME NEW r \in Regions, left_index[r] \in Slots(r)
  PROVE  /\ Left(r) \in Regions /\ Within(Left(r), r) /\ Left(r) # r
         /\ Right(r) \in Regions /\ Within(Right(r), r) /\ Right(r) # r
         /\ Left(r).start = r.start /\ Left(r).end = left_index[r]
         /\ Right(r).start = left_index[r] + 1 /\ Right(r).end = r.end
<1>1. left_index[r] \in Int /\ r.start <= left_index[r] /\ left_index[r] < r.end
  BY RegionType DEF Slots
<1>2. /\ Left(r).start = r.start /\ Left(r).end = left_index[r]
      /\ Right(r).start = left_index[r] + 1 /\ Right(r).end = r.end
  BY DEF Left, Right
<1>3. left_index[r] \in 0..N /\ left_index[r] + 1 \in 0..N /\ r.start \in 0..N /\ r.end \in 0..N
  BY <1>1, RegionType, SizeAssumption
<1>4. Left(r) \in Regions /\ Right(r) \in Regions
  BY <1>1, <1>3 DEF Left, Right, Regions
<1>5. Left(r) # r /\ Right(r) # r
  BY <1>1, <1>2, RegionType
<1> QED
  BY <1>1, <1>2, <1>4, <1>5, RegionType DEF Within

------------------------------------------------------------------------------
(* What a step changes *)

Step(r) == Work(r) \/ Misfortune(r)

\* A step changes the locals of no other process.
LEMMA StepLocals ==
  ASSUME TypeOK, NEW r \in Regions, Step(r)
  PROVE  /\ \A q \in Regions \ {r} :
              /\ pivot_val'[q] = pivot_val[q] /\ left_index'[q] = left_index[q]
              /\ right_index'[q] = right_index[q] /\ left_success'[q] = left_success[q]
         /\ pc[r] \notin {"quicksort", "loop"} => left_index' = left_index
         /\ pc[r] # "wait_left" => left_success' = left_success
<1> USE DEF TypeOK, locals
<1>1. CASE Partition(r)
  BY <1>1 DEF Partition, Parts
<1>2. CASE ExtendLeft(r)
  BY <1>2 DEF ExtendLeft, InLoop
<1>3. CASE ExtendRight(r)
  BY <1>3 DEF ExtendRight, InLoop
<1>4. CASE WaitLeft(r)
  BY <1>4 DEF WaitLeft
<1>5. CASE locals' = locals
  BY <1>5
<1> QED
  BY <1>1, <1>2, <1>3, <1>4, <1>5
     DEF Step, Work, Misfortune, Mapped, NotMapped, Trivial, Sequential, Qsort, Exchange, Crash,
         PlacePivot, ForkLeft, ForkLeftFails, ForkRight, ForkRightFails, WaitLone, WaitRight,
         WaitFails, KillAtRest, KillInSwap, KillInQsort

\* Where a process can go from each of its steps.
Moves ==
  {<<"main", "quicksort">>, <<"quicksort", "qsort">>, <<"quicksort", "loop">>,
   <<"loop", "loop">>, <<"loop", "fork_left">>, <<"fork_right", "wait_lone">>,
   <<"wait_left", "wait_right">>}

\* The process that takes a step moves on or exits; or it forks a child.
LEMMA StepPc ==
  ASSUME TypeOK, NEW r \in Regions, Step(r)
  PROVE  /\ Running(r)
         /\ \/ \E s \in Steps : Goto(r, s) /\ (s \in Exited \/ <<pc[r], s>> \in Moves)
            \/ pc[r] = "fork_left" /\ ForkLeft(r)
            \/ pc[r] = "fork_right" /\ ForkRight(r)
<1> USE DEF Running, Exited, Steps, Moves
<1>1. CASE Mapped(r) \/ NotMapped(r)
  BY <1>1 DEF Mapped, NotMapped, Goto, Exit
<1>2. CASE Trivial(r) \/ Sequential(r) \/ Qsort(r)
  BY <1>2 DEF Trivial, Sequential, Qsort, Goto, Exit
<1>3. CASE Partition(r)
  BY <1>3 DEF Partition, Parts
<1>4. CASE ExtendLeft(r) \/ ExtendRight(r) \/ Exchange(r)
  <2>1. pc[r] = "loop" /\ pc' = pc
    BY <1>4 DEF ExtendLeft, ExtendRight, Exchange, Exchanges, InLoop
  <2>2. Goto(r, "loop")
    BY <2>1 DEF Goto, TypeOK
  <2> QED
    BY <2>1, <2>2
<1>5. CASE Crash(r) \/ PlacePivot(r)
  BY <1>5 DEF Crash, PlacePivot, Ends, InLoop
<1>6. CASE ForkLeft(r) \/ ForkRight(r)
  BY <1>6 DEF ForkLeft, ForkRight
<1>7. CASE ForkLeftFails(r) \/ ForkRightFails(r)
  BY <1>7 DEF ForkLeftFails, ForkRightFails, Exit
<1>8. CASE WaitLone(r) \/ WaitLeft(r) \/ WaitRight(r) \/ WaitFails(r)
  BY <1>8 DEF WaitLone, WaitLeft, WaitRight, WaitFails, Exit, Goto
<1>9. CASE KillAtRest(r) \/ KillInSwap(r) \/ KillInQsort(r)
  BY <1>9 DEF KillAtRest, KillInSwap, KillInQsort, Kill
<1> QED
  BY <1>1, <1>2, <1>3, <1>4, <1>5, <1>6, <1>7, <1>8, <1>9 DEF Step, Work, Misfortune

\* Only the process that takes a step and the child it forks, if any, are
\* elsewhere after it.
LEMMA StepOthers ==
  ASSUME TypeOK, NEW r \in Regions, Step(r), NEW q \in Regions, q # r
  PROVE  \/ pc'[q] = pc[q]
         \/ pc[r] = "fork_left" /\ ForkLeft(r) /\ q = Left(r) /\ pc'[q] = "quicksort"
         \/ pc[r] = "fork_right" /\ ForkRight(r) /\ q = Right(r) /\ pc'[q] = "quicksort"
<1> USE DEF TypeOK
<1>1. CASE \E s \in Steps : Goto(r, s)
  BY <1>1 DEF Goto
<1>2. CASE pc[r] = "fork_left" /\ ForkLeft(r)
  BY <1>2 DEF ForkLeft, Spawn
<1>3. CASE pc[r] = "fork_right" /\ ForkRight(r)
  BY <1>3 DEF ForkRight, Spawn
<1> QED
  BY <1>1, <1>2, <1>3, StepPc

\* What a process has forked it has forked, and its pivot stays where it is.
LEMMA StepForks ==
  ASSUME TypeOK, NEW r \in Regions, Step(r),
         left_index[r] \in Slots(r) \/ pc[r] \notin {"fork_left", "fork_right"}
  PROVE  /\ pc[r] # "none" /\ pc'[r] # "none"
         /\ ForkedLeft(r) => ForkedLeft(r)' /\ left_index' = left_index
         /\ ForkedRight(r) => ForkedRight(r)' /\ left_index' = left_index
<1>1. CASE \E s \in Steps : Goto(r, s) /\ (s \in Exited \/ <<pc[r], s>> \in Moves)
  <2>1. PICK s \in Steps : Goto(r, s) /\ (s \in Exited \/ <<pc[r], s>> \in Moves)
    BY <1>1
  <2>2. pc'[r] = s
    BY <2>1 DEF Goto, TypeOK
  <2>3. pc[r] # "none" /\ s # "none"
    BY <2>1, StepPc DEF Running, Exited, Moves
  <2>4. ForkedLeft(r) => s \in Exited \cup {"wait_lone", "wait_right"}
    BY <2>1, StepPc DEF ForkedLeft, Running, Moves
  <2>5. ForkedRight(r) => s \in Exited \cup {"wait_right"}
    BY <2>1, StepPc DEF ForkedRight, Running, Moves
  <2>6. ForkedLeft(r) \/ ForkedRight(r) => left_index' = left_index
    BY StepLocals DEF ForkedLeft, ForkedRight, Exited
  <2> QED
    BY <2>2, <2>3, <2>4, <2>5, <2>6 DEF ForkedLeft, ForkedRight
<1>2. CASE pc[r] = "fork_left" /\ ForkLeft(r)
  BY <1>2, Sides, StepLocals DEF ForkLeft, Spawn, ForkedLeft, ForkedRight, Exited, TypeOK
<1>3. CASE pc[r] = "fork_right" /\ ForkRight(r)
  BY <1>3, Sides, StepLocals DEF ForkRight, Spawn, ForkedLeft, ForkedRight, Exited, TypeOK
<1> QED
  BY <1>1, <1>2, <1>3, StepPc

\* What the two forks do, given that the pivot is in the region.
LEMMA ForkLeftEffect ==
  ASSUME TypeOK, NEW r \in Regions, left_index[r] \in Slots(r), ForkLeft(r)
  PROVE  /\ pc'[r] = "fork_right" /\ pc'[Left(r)] = "quicksort"
         /\ arr' = arr /\ left_index' = left_index
BY Sides DEF ForkLeft, Spawn, TypeOK, locals

\* The same for the right child.
LEMMA ForkRightEffect ==
  ASSUME TypeOK, NEW r \in Regions, left_index[r] \in Slots(r), ForkRight(r)
  PROVE  /\ pc'[r] = "wait_left" /\ pc'[Right(r)] = "quicksort"
         /\ arr' = arr /\ left_index' = left_index
BY Sides DEF ForkRight, Spawn, TypeOK, locals

------------------------------------------------------------------------------
(* What a step does to the array *)

\* r has moved elements about within its region.
Mixes(r) ==
  /\ \A i \in Indices \ Slots(r) : arr'[i] = arr[i]
  /\ \A i \in Slots(r) : \E k \in Slots(r) : arr'[i] = arr[k]

\* An element of a rearrangement comes from somewhere.
LEMMA RearrangesFrom ==
  ASSUME NEW S, IsFiniteSet(S), NEW a, NEW b, Rearranges(a, b, S),
         NEW i \in S, a[i] \in Values
  PROVE  \E k \in S : b[k] = a[i]
<1> DEFINE A == {j \in S : a[j] = a[i]}
           B == {j \in S : b[j] = a[i]}
<1>1. Cardinality(A) = Cardinality(B)
  BY DEF Rearranges
<1>2. IsFiniteSet(A) /\ IsFiniteSet(B)
  BY FS_Subset
<1>3. A # {}
  OBVIOUS
<1>4. B # {}
  BY <1>1, <1>2, <1>3, FS_EmptySet
<1> QED
  BY <1>4

\* A region has finitely many slots.
LEMMA SlotsFinite ==
  ASSUME NEW r \in Regions
  PROVE  IsFiniteSet(Slots(r))
BY RegionType, FS_Interval DEF Slots

\* swap, or its first half.
LEMMA SwapMixes ==
  ASSUME TypeOK, NEW r \in Regions, NEW i \in Slots(r), NEW j \in Slots(r),
         arr' = swap(i, j) \/ arr' = [arr EXCEPT ![i] = arr[j]]
  PROVE  arr' \in [Indices -> Values] /\ Mixes(r)
BY RegionType DEF Mixes, swap, TypeOK

\* The first and the last slot of a region in the loop, and those it looks at.
LEMMA LoopSlots ==
  ASSUME TypeOK, NEW r \in Regions, LoopExactAt(r)
  PROVE  /\ r.end - 1 \in Slots(r)
         /\ left_index[r] \in Slots(r)
         /\ left_index[r] <= right_index[r] /\ right_index[r] \in Indices =>
              /\ right_index[r] \in Slots(r) /\ left_index[r] <= r.end - 2
              /\ ~(left_index[r] = 0 /\ right_index[r] = MaxUlong)
         /\ left_index[r] > right_index[r] => left_index[r] = right_index[r] + 1
<1>1. left_index[r] \in 0..(N - 1) /\ right_index[r] \in 0..(N - 1) \cup {MaxUlong}
  BY DEF TypeOK, Indices
<1>2. /\ r.start \in Int /\ r.end \in Int /\ 0 <= r.start /\ r.end <= N
      /\ N \in Nat \ {0} /\ MaxUlong \in Nat /\ N <= MaxUlong
  BY RegionType, SizeAssumption
<1>3. r.end - r.start >= 2 /\ r.start <= left_index[r]
  BY DEF LoopExactAt, Size
<1>4. \/ left_index[r] <= right_index[r] + 1 /\ right_index[r] <= r.end - 2
      \/ left_index[r] = 0 /\ right_index[r] = MaxUlong
  BY DEF LoopExactAt
<1> QED
  BY <1>1, <1>2, <1>3, <1>4 DEF Slots, Indices

\* A process that must partition chooses a pivot in its region.
LEMMA PivotSlots ==
  ASSUME TypeOK, NEW r \in Regions, Size(r) >= 2
  PROVE  PivotIndex(r) \in Slots(r) /\ r.end - 1 \in Slots(r)
BY RegionType DEF PivotIndex, Slots, Size

\* Only writers change the array, in their own region.
LEMMA StepArray ==
  ASSUME TypeOK, LoopExact, NEW r \in Regions, Step(r)
  PROVE  /\ arr' \in [Indices -> Values]
         /\ arr' = arr \/ (Writes(r) /\ Mixes(r))
<1>1. CASE arr' = arr
  BY <1>1 DEF TypeOK
<1>2. CASE Qsort(r)
  <2>1. PICK a \in [Slots(r) -> Values] :
          /\ Rearranges(a, arr, Slots(r))
          /\ arr' = [i \in Indices |-> IF i \in Slots(r) THEN a[i] ELSE arr[i]]
    BY <1>2 DEF Qsort
  <2>2. \A i \in Slots(r) : \E k \in Slots(r) : arr[k] = a[i]
    BY <2>1, RearrangesFrom, SlotsFinite
  <2>3. Mixes(r)
    BY <2>1, <2>2, RegionType DEF Mixes
  <2>4. arr' \in [Indices -> Values]
    BY <2>1 DEF TypeOK
  <2> QED
    BY <1>2, <2>3, <2>4 DEF Qsort, Writes
<1>3. CASE /\ Parts(r)
           /\ \/ arr' = swap(PivotIndex(r), r.end - 1)
              \/ arr' = [arr EXCEPT ![PivotIndex(r)] = arr[r.end - 1]]
  BY <1>3, PivotSlots, SwapMixes DEF Parts, Writes
<1>4. CASE /\ Exchanges(r)
           /\ \/ arr' = swap(left_index[r], right_index[r])
              \/ arr' = [arr EXCEPT ![left_index[r]] = arr[right_index[r]]]
  <2>1. pc[r] = "loop" /\ LoopExactAt(r)
    BY <1>4 DEF Exchanges, InLoop, LoopExact
  <2>2. left_index[r] \in Slots(r) /\ right_index[r] \in Slots(r)
    BY <1>4, <2>1, LoopSlots DEF Exchanges, InLoop
  <2> QED
    BY <1>4, <2>1, <2>2, SwapMixes DEF Writes
<1>5. CASE /\ Ends(r)
           /\ \/ arr' = swap(left_index[r], r.end - 1)
              \/ arr' = [arr EXCEPT ![left_index[r]] = arr[r.end - 1]]
  <2>1. pc[r] = "loop" /\ LoopExactAt(r)
    BY <1>5 DEF Ends, LoopExact
  <2> QED
    BY <1>5, <2>1, LoopSlots, SwapMixes DEF Writes
<1>6. CASE KillInQsort(r)
  <2>1. PICK f \in [Slots(r) -> Slots(r)] :
          arr' = [i \in Indices |-> IF i \in Slots(r) THEN arr[f[i]] ELSE arr[i]]
    BY <1>6 DEF KillInQsort
  <2>2. \A i \in Slots(r) : f[i] \in Slots(r) /\ f[i] \in Indices
    BY <2>1, RegionType
  <2>3. arr' \in [Indices -> Values] /\ Mixes(r)
    BY <2>1, <2>2, RegionType DEF TypeOK, Mixes
  <2> QED
    BY <1>6, <2>3 DEF KillInQsort, Writes
<1>7. CASE KillInSwap(r)
  BY <1>3, <1>4, <1>5, <1>7 DEF KillInSwap
<1>8. CASE Partition(r)
  BY <1>3, <1>8 DEF Partition
<1>9. CASE Exchange(r)
  BY <1>4, <1>9 DEF Exchange
<1>10. CASE PlacePivot(r)
  BY <1>5, <1>10 DEF PlacePivot
<1>11. \/ Qsort(r) \/ Partition(r) \/ Exchange(r) \/ PlacePivot(r)
      \/ KillInSwap(r) \/ KillInQsort(r) \/ arr' = arr
  BY DEF Step, Work, Misfortune, Mapped, NotMapped, Trivial, Sequential, ExtendLeft,
         ExtendRight, Crash, ForkLeft, ForkLeftFails, ForkRight, ForkRightFails,
         WaitLone, WaitLeft, WaitRight, WaitFails, KillAtRest
<1> QED
  BY <1>1, <1>2, <1>6, <1>7, <1>8, <1>9, <1>10, <1>11

------------------------------------------------------------------------------
(* Regions that are given out stay laminar *)

\* Two writers have nothing in common.
LEMMA WritersApart ==
  ASSUME Laminar, NEW q \in Regions, NEW r \in Regions, q # r, Writes(q), Writes(r)
  PROVE  Apart(q, r)
BY DEF Laminar, Writes, Inside, ForkedLeft, ForkedRight, Exited

\* Regions that are apart share no slot.
LEMMA ApartDisjoint ==
  ASSUME NEW q \in Regions, NEW r \in Regions, Apart(q, r)
  PROVE  Slots(q) \cap Slots(r) = {}
BY RegionType DEF Apart, Slots

\* A region is new when it is forked.
LEMMA FreshLeft ==
  ASSUME Laminar, NEW r \in Regions, left_index[r] \in Slots(r), pc[r] = "fork_left"
  PROVE  pc[Left(r)] = "none"
<1> SUFFICES ASSUME pc[Left(r)] # "none"
             PROVE  FALSE
  OBVIOUS
<1>1. Apart(Left(r), r) \/ Inside(Left(r), r) \/ Inside(r, Left(r))
  BY Sides DEF Laminar
<1>2. ~Inside(Left(r), r)
  BY DEF Inside, ForkedLeft, ForkedRight, Exited
<1>3. ~Inside(r, Left(r))
  BY Sides, RegionEqual DEF Inside
<1> QED
  BY <1>1, <1>2, <1>3, Sides, WithinNotApart

\* The same for the right child.
LEMMA FreshRight ==
  ASSUME Laminar, NEW r \in Regions, left_index[r] \in Slots(r), pc[r] = "fork_right"
  PROVE  pc[Right(r)] = "none"
<1> SUFFICES ASSUME pc[Right(r)] # "none"
             PROVE  FALSE
  OBVIOUS
<1>1. Apart(Right(r), r) \/ Inside(Right(r), r) \/ Inside(r, Right(r))
  BY Sides DEF Laminar
<1>2. ~Inside(Right(r), r)
  BY Sides, RegionType DEF Inside, ForkedRight, Exited, Slots
<1>3. ~Inside(r, Right(r))
  BY Sides, RegionEqual DEF Inside
<1> QED
  BY <1>1, <1>2, <1>3, Sides, WithinNotApart

\* A step is felt by no other process there is.
LEMMA OthersStay ==
  ASSUME TypeOK, Laminar, MidInside, NEW s \in Regions, Step(s),
         NEW q \in Regions, q # s, pc[q] # "none"
  PROVE  pc'[q] = pc[q]
<1>1. pc[s] \in {"fork_left", "fork_right"} => left_index[s] \in Slots(s)
  BY DEF MidInside, Partitioned
<1> QED
  BY <1>1, StepOthers, FreshLeft, FreshRight

\* What is inside stays inside.
LEMMA InsideStays ==
  ASSUME TypeOK, Laminar, MidInside, NEW s \in Regions, Step(s),
         NEW q \in Regions, NEW r \in Regions, Inside(q, r), pc[r] # "none"
  PROVE  Inside(q, r)'
<1>1. CASE r = s
  <2>1. left_index[s] \in Slots(s) \/ pc[s] \notin {"fork_left", "fork_right"}
    BY DEF MidInside, Partitioned
  <2> QED
    BY <1>1, <2>1, StepForks DEF Inside, Within
<1>2. CASE r # s
  <2>1. left_index'[r] = left_index[r]
    BY <1>2, StepLocals
  <2>2. pc'[r] = pc[r]
    BY <1>2, OthersStay
  <2> QED
    BY <2>1, <2>2 DEF Inside, Within, ForkedLeft, ForkedRight
<1> QED
  BY <1>1, <1>2

\* A child is inside its parent, beside the other child, and lies to the
\* processes that were there before as its parent does.
LEMMA ChildInside ==
  ASSUME TypeOK, Laminar, MidInside, NEW s \in Regions, Step(s), NEW c \in Regions,
         \/ pc[s] = "fork_left" /\ ForkLeft(s) /\ c = Left(s)
         \/ pc[s] = "fork_right" /\ ForkRight(s) /\ c = Right(s)
  PROVE  /\ Inside(c, s)'
         /\ \A q \in Regions : pc[q] # "none" /\ q # s => Apart(q, c)' \/ Inside(c, q)'
<1>1. left_index[s] \in Slots(s) /\ Within(c, s) /\ left_index' = left_index
  BY Sides, ForkLeftEffect, ForkRightEffect DEF MidInside, Partitioned
<1>2. Inside(c, s)'
  BY <1>1, Sides, RegionType, ForkLeftEffect, ForkRightEffect
     DEF Inside, Within, ForkedLeft, ForkedRight, Slots
<1>3. ASSUME NEW q \in Regions, pc[q] # "none", q # s
      PROVE  Apart(q, c)' \/ Inside(c, q)'
  <2>1. pc[s] # "none"
    OBVIOUS
  <2>2. Apart(q, s) \/ Inside(q, s) \/ Inside(s, q)
    BY <1>3, <2>1 DEF Laminar
  <2>3. CASE Apart(q, s)
    BY <1>1, <2>3, RegionType DEF Apart, Within
  <2>4. CASE Inside(q, s)
    <3>1. pc[s] = "fork_right" /\ c = Right(s) /\ q.end <= left_index[s]
      BY <2>4 DEF Inside, ForkedLeft, ForkedRight, Exited
    <3>2. c.start = left_index[s] + 1 /\ left_index[s] \in Int
      BY <1>1, <3>1, Sides, RegionType DEF Slots
    <3> QED
      BY <3>1, <3>2, RegionType DEF Apart
  <2>5. CASE Inside(s, q)
    <3>1. Inside(s, q)'
      BY <1>3, <2>5, InsideStays
    <3>2. left_index'[q] \in Int
      BY <1>1, SizeAssumption DEF TypeOK, Indices
    <3>3. Within(c, q)
      BY <1>1, <2>5, RegionType DEF Inside, Within
    <3>4. /\ s.end <= left_index'[q] => c.end <= left_index'[q]
          /\ left_index'[q] < s.start => left_index'[q] < c.start
      BY <1>1, <3>2, RegionType DEF Within
    <3> QED
      BY <3>1, <3>3, <3>4 DEF Inside, Within
  <2> QED
    BY <2>2, <2>3, <2>4, <2>5
<1> QED
  BY <1>2, <1>3

\* So the regions given out stay laminar.
LEMMA LaminarStep ==
  ASSUME TypeOK, Laminar, MidInside, NEW s \in Regions, Step(s)
  PROVE  Laminar'
<1> SUFFICES ASSUME NEW q \in Regions, NEW r \in Regions, pc'[q] # "none", pc'[r] # "none", q # r
             PROVE  Apart(q, r)' \/ Inside(q, r)' \/ Inside(r, q)'
  BY DEF Laminar
<1>1. CASE pc[q] # "none" /\ pc[r] # "none"
  <2>1. Apart(q, r) \/ Inside(q, r) \/ Inside(r, q)
    BY <1>1 DEF Laminar
  <2> QED
    BY <1>1, <2>1, InsideStays DEF Apart
<1>2. ASSUME NEW p \in Regions, pc[p] = "none", pc'[p] # "none"
      PROVE  /\ p # s /\ pc[s] # "none"
             /\ \/ pc[s] = "fork_left" /\ ForkLeft(s) /\ p = Left(s)
                \/ pc[s] = "fork_right" /\ ForkRight(s) /\ p = Right(s)
  <2>1. pc[s] # "none" /\ p # s
    BY <1>2, StepPc DEF Running
  <2> QED
    BY <1>2, <2>1, StepOthers
<1>3. CASE pc[q] = "none"
  <2>1. r = s \/ pc[r] # "none"
    BY <1>2, <1>3
  <2> QED
    BY <1>2, <1>3, <2>1, ChildInside DEF Apart
<1>4. CASE pc[r] = "none"
  <2>1. q = s \/ pc[q] # "none"
    BY <1>2, <1>4
  <2> QED
    BY <1>2, <1>4, <2>1, ChildInside DEF Apart
<1> QED
  BY <1>1, <1>3, <1>4

------------------------------------------------------------------------------
(* The loop *)

\* Two processes that write leave each other's slots alone.
LEMMA OthersSlots ==
  ASSUME TypeOK, Laminar, LoopExact, NEW s \in Regions, Step(s),
         NEW q \in Regions, q # s, Writes(q)
  PROVE  \A i \in Slots(q) : arr'[i] = arr[i]
<1>1. arr' = arr \/ (Writes(s) /\ Mixes(s))
  BY StepArray
<1>2. Writes(s) => Slots(q) \cap Slots(s) = {}
  BY WritersApart, ApartDisjoint
<1> QED
  BY <1>1, <1>2, RegionType DEF Mixes

\* The step of another process does not disturb the loop.
LEMMA LoopOther ==
  ASSUME TypeOK, Laminar, LoopExact, MidInside, NEW s \in Regions, Step(s),
         NEW q \in Regions, q # s, pc'[q] = "loop"
  PROVE  LoopExactAt(q)'
<1>1. pc[q] = "loop" /\ LoopExactAt(q)
  BY StepOthers DEF LoopExact
<1>2. \A i \in Slots(q) : arr'[i] = arr[i]
  BY <1>1, OthersSlots DEF Writes
<1>3. /\ left_index'[q] = left_index[q] /\ right_index'[q] = right_index[q]
      /\ pivot_val'[q] = pivot_val[q]
  BY StepLocals
<1>4. q.end - 1 \in Slots(q)
  BY <1>1, LoopSlots
<1>5. left_index[q] = 0 => 0 \in Slots(q)
  BY <1>1, RegionType DEF LoopExactAt, Size, Slots
<1> QED
  BY <1>1, <1>2, <1>3, <1>4, <1>5 DEF LoopExactAt

\* partition begins.
LEMMA LoopBegins ==
  ASSUME TypeOK, NEW s \in Regions, Partition(s)
  PROVE  LoopExactAt(s)'
<1>1. /\ left_index'[s] = s.start /\ right_index'[s] = s.start + (Size(s) - 2)
      /\ pivot_val'[s] = arr[PivotIndex(s)] /\ Size(s) >= 2
      /\ arr' = swap(PivotIndex(s), s.end - 1)
  BY DEF Partition, Parts, TypeOK
<1>2. arr'[s.end - 1] = arr[PivotIndex(s)]
  BY <1>1, PivotSlots, RegionType DEF swap, TypeOK
<1>3. s.start + (Size(s) - 2) = s.end - 2 /\ s.start <= s.end - 2
  BY <1>1, RegionType DEF Size
<1>4. arr[PivotIndex(s)] \in Int
  BY <1>1, PivotSlots, RegionType, ValuesAssumption DEF TypeOK
<1>5. \A k \in Slots(s) : ~(k < s.start) /\ (s.end - 2 < k => k = s.end - 1)
  BY RegionType DEF Slots
<1> QED
  BY <1>1, <1>2, <1>3, <1>4, <1>5, RegionType DEF LoopExactAt

\* An element less than the pivot joins the left side.
LEMMA LoopExtendsLeft ==
  ASSUME TypeOK, NEW s \in Regions, LoopExactAt(s), ExtendLeft(s)
  PROVE  LoopExactAt(s)'
<1> DEFINE i == left_index[s]
           j == right_index[s]
<1>1. /\ left_index'[s] = i + 1 /\ right_index'[s] = j /\ pivot_val' = pivot_val /\ arr' = arr
      /\ i <= j /\ arr[i] < pivot_val[s] /\ i \in Nat /\ j \in Nat
  BY SizeAssumption DEF ExtendLeft, InLoop, BelongsLeft, TypeOK, Indices
<1>2. arr[i] \in Int /\ pivot_val[s] \in Int
  <2>1. i \in Indices
    BY DEF TypeOK
  <2>2. arr[i] \in Values /\ pivot_val[s] \in Values \cup {0}
    BY <2>1 DEF TypeOK
  <2> QED
    BY <2>2, ValuesAreInts
<1>3. ~(i = 0 /\ j = MaxUlong /\ arr[0] >= pivot_val[s])
  BY <1>1, <1>2
<1>4. \A k \in Slots(s) : k < i + 1 => arr[k] < pivot_val[s]
  BY <1>1, RegionType DEF LoopExactAt, Slots
<1>5. /\ Size(s) >= 2 /\ s.start <= i + 1
      /\ arr[s.end - 1] = pivot_val[s]
      /\ i + 1 <= j + 1 /\ j <= s.end - 2 /\ \A k \in Slots(s) : j < k => arr[k] >= pivot_val[s]
  BY <1>1, <1>3, RegionType DEF LoopExactAt
<1> QED
  BY <1>1, <1>4, <1>5 DEF LoopExactAt

\* Another one joins the right side; at slot 0 the index wraps around.
LEMMA LoopExtendsRight ==
  ASSUME TypeOK, NEW s \in Regions, LoopExactAt(s), ExtendRight(s)
  PROVE  LoopExactAt(s)'
<1> DEFINE i == left_index[s]
           j == right_index[s]
<1>1. /\ left_index'[s] = i /\ right_index'[s] = Decrement(j) /\ pivot_val' = pivot_val /\ arr' = arr
      /\ i <= j /\ arr[j] >= pivot_val[s] /\ j \in Indices /\ i \in Nat /\ j \in Nat
  BY SizeAssumption DEF ExtendRight, InLoop, BelongsRight, TypeOK, Indices
<1>2. j \in Slots(s) /\ i <= s.end - 2 /\ ~(i = 0 /\ j = MaxUlong)
  BY <1>1, LoopSlots
<1>3. /\ Size(s) >= 2 /\ s.start <= i /\ arr[s.end - 1] = pivot_val[s]
      /\ \A k \in Slots(s) : k < i => arr[k] < pivot_val[s]
      /\ j <= s.end - 2 /\ \A k \in Slots(s) : j < k => arr[k] >= pivot_val[s]
  BY <1>2 DEF LoopExactAt
<1>4. CASE j = 0
  BY <1>1, <1>3, <1>4 DEF LoopExactAt, Decrement
<1>5. CASE j # 0
  <2>1. \A k \in Slots(s) : j - 1 < k => arr[k] >= pivot_val[s]
    BY <1>1, <1>3, RegionType DEF Slots
  <2>2. i <= (j - 1) + 1 /\ j - 1 <= s.end - 2
    BY <1>1, <1>3, RegionType
  <2> QED
    BY <1>1, <1>3, <1>5, <2>1, <2>2 DEF LoopExactAt, Decrement
<1> QED
  BY <1>4, <1>5

\* Two elements on the wrong sides change places.
LEMMA LoopExchanges ==
  ASSUME TypeOK, NEW s \in Regions, LoopExactAt(s), Exchange(s)
  PROVE  LoopExactAt(s)'
<1> DEFINE i == left_index[s]
           j == right_index[s]
<1>1. /\ left_index' = left_index /\ right_index' = right_index /\ pivot_val' = pivot_val
      /\ arr' = swap(i, j) /\ i <= j /\ j \in Indices /\ i \in Nat /\ j \in Nat
  BY SizeAssumption DEF Exchange, Exchanges, InLoop, locals, TypeOK, Indices
<1>2. i \in Slots(s) /\ j \in Slots(s) /\ i <= s.end - 2 /\ ~(i = 0 /\ j = MaxUlong)
  BY <1>1, LoopSlots
<1>3. /\ Size(s) >= 2 /\ s.start <= i /\ arr[s.end - 1] = pivot_val[s]
      /\ \A k \in Slots(s) : k < i => arr[k] < pivot_val[s]
      /\ i <= j + 1
      /\ j <= s.end - 2 /\ \A k \in Slots(s) : j < k => arr[k] >= pivot_val[s]
  BY <1>2 DEF LoopExactAt
<1>4. \A k \in Slots(s) : k < i \/ j < k => arr'[k] = arr[k]
  BY <1>1, RegionType DEF swap, TypeOK, Slots
<1>5. s.end - 1 \in Slots(s) /\ j < s.end - 1
  BY <1>1, <1>3, RegionType, LoopSlots
<1> QED
  BY <1>1, <1>3, <1>4, <1>5 DEF LoopExactAt

\* So the invariant of the loop is kept by every step.
LEMMA LoopExactStep ==
  ASSUME TypeOK, Laminar, LoopExact, MidInside, NEW s \in Regions, Step(s)
  PROVE  LoopExact'
<1> SUFFICES ASSUME NEW q \in Regions, pc'[q] = "loop"
             PROVE  LoopExactAt(q)'
  BY DEF LoopExact
<1>1. CASE q # s
  BY <1>1, LoopOther
<1>2. CASE q = s
  <2>1. Partition(s) \/ ExtendLeft(s) \/ ExtendRight(s) \/ Exchange(s)
    <3>1. \A r \in {Left(s), Right(s)} : r # s \/ "quicksort" # "loop"
      OBVIOUS
    <3> QED
      BY <1>2
         DEF Step, Work, Misfortune, Mapped, NotMapped, Trivial, Sequential, Qsort, Crash, PlacePivot,
             ForkLeft, ForkLeftFails, ForkRight, ForkRightFails, WaitLone, WaitLeft, WaitRight,
             WaitFails, KillAtRest, KillInSwap, KillInQsort, Kill, Goto, Exit, Spawn, TypeOK
  <2>2. pc[s] = "loop" => LoopExactAt(s)
    BY DEF LoopExact
  <2> QED
    BY <1>2, <2>1, <2>2, LoopBegins, LoopExtendsLeft, LoopExtendsRight, LoopExchanges
       DEF ExtendLeft, ExtendRight, Exchange, Exchanges, InLoop
<1> QED
  BY <1>1, <1>2

------------------------------------------------------------------------------
(* The two sides of a pivot *)

\* A process has partitioned its region only if it has placed the pivot.
LEMMA StaysPartitioned ==
  ASSUME TypeOK, NEW s \in Regions, Step(s), ~PlacePivot(s), Partitioned(s)'
  PROVE  Partitioned(s)
BY DEF Step, Work, Misfortune, Mapped, NotMapped, Trivial, Sequential, Qsort, Partition, Parts,
       ExtendLeft, ExtendRight, Exchange, Exchanges, InLoop, Crash,
       ForkLeft, ForkLeftFails, ForkRight, ForkRightFails, WaitLone, WaitLeft, WaitRight,
       WaitFails, KillAtRest, KillInSwap, KillInQsort, Kill, Goto, Exit, TypeOK, Partitioned

\* The pivot's place is in the region.
LEMMA MidInsideStep ==
  ASSUME TypeOK, Laminar, LoopExact, MidInside, NEW s \in Regions, Step(s)
  PROVE  MidInside'
<1> SUFFICES ASSUME NEW q \in Regions, Partitioned(q)'
             PROVE  left_index'[q] \in Slots(q)
  BY DEF MidInside
<1>1. CASE q # s
  <2>1. pc'[q] = pc[q]
    BY <1>1, StepOthers DEF Partitioned
  <2> QED
    BY <1>1, <2>1, StepLocals DEF MidInside, Partitioned
<1>2. CASE q = s /\ PlacePivot(s)
  BY <1>2, LoopSlots DEF PlacePivot, Ends, LoopExact, locals
<1>3. CASE q = s /\ ~PlacePivot(s)
  <2>1. Partitioned(s)
    BY <1>3, StaysPartitioned
  <2> QED
    BY <1>3, <2>1, StepLocals DEF MidInside, Partitioned
<1> QED
  BY <1>1, <1>2, <1>3

\* What partition leaves behind when it returns.
PartitionedAt(r) ==
  \A i \in Slots(r) : IF i < left_index[r] THEN arr[i] < arr[left_index[r]]
                                           ELSE arr[i] >= arr[left_index[r]]

\* The last swap of partition puts the pivot between the two sides.
LEMMA PlacePivotParts ==
  ASSUME TypeOK, NEW s \in Regions, LoopExactAt(s), PlacePivot(s)
  PROVE  PartitionedAt(s)'
<1> DEFINE m == left_index[s]
           e == s.end - 1
<1>1. m \in Slots(s) /\ e \in Slots(s) /\ m = right_index[s] + 1
  BY LoopSlots DEF PlacePivot, Ends
<1>2. left_index'[s] = m /\ arr' = swap(m, e)
  BY DEF PlacePivot, locals
<1>3. right_index[s] \in Int /\ m \in Int /\ s.start \in Int /\ s.end \in Int
  BY RegionType, SizeAssumption DEF TypeOK, Indices
<1>4. /\ arr[e] = pivot_val[s]
      /\ \A k \in Slots(s) : k < m => arr[k] < pivot_val[s]
  BY DEF LoopExactAt
<1>5. \A k \in Slots(s) : m <= k => arr[k] >= pivot_val[s]
  <2>1. ~(m = 0 /\ right_index[s] = MaxUlong)
    BY <1>1, <1>3, SizeAssumption
  <2> QED
    BY <1>1, <1>3, <2>1 DEF LoopExactAt, Slots
<1>6. /\ arr'[m] = pivot_val[s] /\ arr'[e] = arr[m]
      /\ \A k \in Slots(s) : k # m /\ k # e => arr'[k] = arr[k]
  BY <1>1, <1>2, <1>4, RegionType DEF swap, TypeOK
<1>7. pivot_val[s] \in Int
  BY ValuesAreInts DEF TypeOK
<1>8. \A k \in Slots(s) : k < m => k # e
  BY <1>1, <1>3 DEF Slots
<1>9. ASSUME NEW k \in Slots(s)
      PROVE  IF k < m THEN arr'[k] < pivot_val[s] ELSE arr'[k] >= pivot_val[s]
  <2>1. k \in Int
    BY DEF Slots
  <2>2. CASE k < m
    BY <1>3, <1>4, <1>6, <1>8, <2>2
  <2>3. CASE k = m
    BY <1>3, <1>6, <1>7, <2>3
  <2>4. CASE k > m
    BY <1>1, <1>3, <1>5, <1>6, <2>1, <2>4
  <2> QED
    BY <1>3, <2>1, <2>2, <2>3, <2>4
<1> QED
  BY <1>2, <1>6, <1>9 DEF PartitionedAt

\* A process inside a region moves elements within one side of its pivot.
LEMMA PartsOther ==
  ASSUME TypeOK, Laminar, LoopExact, MidInside, NEW s \in Regions, Step(s),
         NEW q \in Regions, q # s, Partitioned(q), PartitionedAt(q)
  PROVE  PartitionedAt(q)'
<1> DEFINE m == left_index[q]
<1>1. left_index'[q] = m /\ m \in Slots(q) /\ m \in Int
  BY StepLocals DEF MidInside, Slots
<1>2. CASE arr' = arr
  BY <1>1, <1>2 DEF PartitionedAt
<1>3. CASE Writes(s) /\ Mixes(s)
  <2>1. Apart(q, s) \/ Inside(s, q)
    BY <1>3 DEF Laminar, Writes, Inside, ForkedLeft, ForkedRight, Exited, Partitioned
  <2>2. CASE Apart(q, s)
    <3>1. \A i \in Slots(q) : arr'[i] = arr[i]
      BY <1>3, <2>2, ApartDisjoint, RegionType DEF Mixes
    <3> QED
      BY <1>1, <3>1 DEF PartitionedAt
  <2>3. CASE Inside(s, q)
    <3>1. Slots(s) \subseteq Slots(q)
      BY <2>3, RegionType DEF Inside, Within, Slots
    <3>2. \/ \A k \in Slots(s) : k < m
          \/ \A k \in Slots(s) : m < k
      BY <1>1, <2>3, RegionType DEF Inside, Slots
    <3>3. m \notin Slots(s)
      BY <1>1, <3>2
    <3>4. arr'[m] = arr[m] /\ \A i \in Slots(q) \ Slots(s) : arr'[i] = arr[i]
      BY <1>1, <1>3, <3>3, RegionType DEF Mixes
    <3>5. ASSUME NEW i \in Slots(s)
          PROVE  IF i < m THEN arr'[i] < arr[m] ELSE arr'[i] >= arr[m]
      <4>1. PICK k \in Slots(s) : arr'[i] = arr[k]
        BY <1>3 DEF Mixes
      <4>2. i < m <=> k < m
        BY <1>1, <3>2 DEF Slots
      <4> QED
        BY <3>1, <4>1, <4>2 DEF PartitionedAt
    <3> QED
      BY <1>1, <3>4, <3>5 DEF PartitionedAt
  <2> QED
    BY <2>1, <2>2, <2>3
<1> QED
  BY <1>2, <1>3, StepArray

\* So the two sides stay what they were at the return of partition.
LEMMA PartitionHoldsStep ==
  ASSUME TypeOK, Laminar, LoopExact, MidInside, PartitionHolds, NEW s \in Regions, Step(s)
  PROVE  PartitionHolds'
<1> SUFFICES ASSUME NEW q \in Regions, Partitioned(q)'
             PROVE  PartitionedAt(q)'
  BY DEF PartitionHolds, PartitionedAt
<1>1. \A r \in Regions : Partitioned(r) => PartitionedAt(r)
  BY DEF PartitionHolds, PartitionedAt
<1>2. CASE q # s
  <2>1. pc'[q] = pc[q]
    BY <1>2, StepOthers DEF Partitioned
  <2> QED
    BY <1>1, <1>2, <2>1, PartsOther DEF Partitioned
<1>3. CASE q = s /\ PlacePivot(s)
  BY <1>3, PlacePivotParts DEF PlacePivot, Ends, LoopExact
<1>4. CASE q = s /\ ~PlacePivot(s)
  <2>1. Partitioned(s)
    BY <1>4, StaysPartitioned
  <2>2. arr' = arr /\ left_index' = left_index
    BY <2>1, StepArray, StepLocals DEF Partitioned, Writes
  <2> QED
    BY <1>1, <1>4, <2>1, <2>2 DEF PartitionedAt
<1> QED
  BY <1>2, <1>3, <1>4

------------------------------------------------------------------------------
(* Processes that are done *)

\* What a parent has learnt of its left child stays true: nobody comes back.
LEMMA LeftExactStep ==
  ASSUME TypeOK, Laminar, MidInside, LeftExact, NEW s \in Regions, Step(s)
  PROVE  LeftExact'
<1> SUFFICES ASSUME NEW q \in Regions, pc'[q] = "wait_right"
             PROVE  /\ pc'[Left(q)'] \in Exited
                    /\ left_success'[q] => pc'[Left(q)'] = "succeeded"
  BY DEF LeftExact
<1>1. CASE q = s
  <2>1. WaitLeft(s)
    BY <1>1
       DEF Step, Work, Misfortune, Mapped, NotMapped, Trivial, Sequential, Qsort, Partition,
           ExtendLeft, ExtendRight, Exchange, Exchanges, InLoop, Crash, PlacePivot,
           ForkLeft, ForkLeftFails, ForkRight, ForkRightFails, WaitLone, WaitRight,
           WaitFails, KillAtRest, KillInSwap, KillInQsort, Kill, Goto, Exit, Spawn, TypeOK
  <2>2. /\ pc[s] = "wait_left" /\ pc[Left(s)] \in Exited
        /\ left_success'[s] = (pc[Left(s)] = "succeeded")
        /\ left_index' = left_index
    BY <2>1 DEF WaitLeft, TypeOK
  <2>3. Left(s) \in Regions /\ Left(s) # s /\ pc[Left(s)] # "none"
    BY <1>1, <2>2, Sides DEF MidInside, Partitioned, Exited
  <2>4. pc'[Left(s)] = pc[Left(s)]
    BY <2>3, OthersStay
  <2> QED
    BY <1>1, <2>2, <2>4 DEF Left
<1>2. CASE q # s
  <2>1. /\ pc[q] = "wait_right" /\ left_success'[q] = left_success[q]
        /\ left_index'[q] = left_index[q]
    BY <1>2, StepOthers, StepLocals
  <2>2. /\ Left(q) \in Regions /\ pc[Left(q)] \in Exited
        /\ left_success[q] => pc[Left(q)] = "succeeded"
    BY <2>1, Sides DEF LeftExact, MidInside, Partitioned
  <2>3. Left(q) # s /\ pc[Left(q)] # "none"
    BY <2>2, StepPc DEF Running, Exited
  <2>4. pc'[Left(q)] = pc[Left(q)]
    BY <2>2, <2>3, OthersStay
  <2> QED
    BY <2>1, <2>2, <2>4 DEF Left
<1> QED
  BY <1>1, <1>2

\* Of two regions one within the other, the outer one has forked the inner.
LEMMA WithinInside ==
  ASSUME Laminar, NEW q \in Regions, NEW r \in Regions, q # r, Within(q, r),
         pc[q] # "none", pc[r] # "none"
  PROVE  Inside(q, r)
<1>1. Apart(q, r) \/ Inside(q, r) \/ Inside(r, q)
  BY DEF Laminar
<1> QED
  BY <1>1, WithinNotApart, RegionEqual DEF Inside

\* A region that is calm stays so, with the elements it has.
LEMMA CalmStays ==
  ASSUME TypeOK, Laminar, LoopExact, MidInside, NEW s \in Regions, Step(s),
         NEW r \in Regions, pc[r] \in Exited, CalmAt(r)
  PROVE  CalmAt(r)' /\ \A i \in Slots(r) : arr'[i] = arr[i]
<1>1. Running(s) /\ r # s /\ pc[s] # "none" /\ pc[r] # "none" /\ ~Within(s, r)
  BY StepPc DEF CalmAt, Running, Exited
<1>2. Apart(r, s) \/ Inside(r, s)
  BY <1>1 DEF Laminar, Inside
<1>3. \A i \in Slots(r) : arr'[i] = arr[i]
  <2>1. Writes(s) => Slots(r) \cap Slots(s) = {}
    BY <1>2, ApartDisjoint DEF Writes, Inside, ForkedLeft, ForkedRight, Exited
  <2> QED
    BY <2>1, StepArray, RegionType DEF Mixes
<1>4. ASSUME NEW q \in Regions, Running(q)', Within(q, r)
      PROVE  FALSE
  <2>1. ~Running(q)
    BY <1>4 DEF CalmAt
  <2>2. q # s
    BY <1>1, <2>1
  <2>3. \/ pc[s] = "fork_left" /\ q = Left(s)
        \/ pc[s] = "fork_right" /\ q = Right(s)
    BY <1>4, <2>1, <2>2, StepOthers DEF Running
  <2>4. left_index[s] \in Slots(s) /\ Within(q, s)
    BY <2>3, Sides DEF MidInside, Partitioned
  <2>5. Inside(r, s)
    BY <1>2, <1>4, <2>4, ApartNotBoth
  <2>6. pc[s] = "fork_right" /\ q = Right(s) /\ r.end <= left_index[s]
    BY <2>3, <2>5 DEF Inside, ForkedLeft, ForkedRight, Exited
  <2> QED
    BY <1>4, <2>4, <2>6, Sides, RegionType DEF Within, Slots
<1> QED
  BY <1>3, <1>4 DEF CalmAt, Within

\* Sorted sides make a sorted whole.
LEMMA SidesSorted ==
  ASSUME TypeOK, NEW r \in Regions, left_index[r] \in Slots(r), PartitionedAt(r),
         IsSorted(arr, Slots(Left(r))), IsSorted(arr, Slots(Right(r)))
  PROVE  IsSorted(arr, Slots(r))
<1> DEFINE m == left_index[r]
<1> SUFFICES ASSUME NEW i \in Slots(r), NEW j \in Slots(r), i < j
             PROVE  arr[i] <= arr[j]
  BY DEF IsSorted
<1>1. \A k \in Slots(r) : k \in Int /\ arr[k] \in Int
  BY RegionType, ValuesAreInts DEF TypeOK, Slots
<1>2. \A k \in Slots(r) : (k < m => k \in Slots(Left(r))) /\ (m < k => k \in Slots(Right(r)))
  BY Sides, RegionType DEF Slots
<1>3. /\ i < m => arr[i] < arr[m]
      /\ ~(j < m) => arr[j] >= arr[m]
  BY DEF PartitionedAt
<1>4. CASE j < m
  BY <1>1, <1>2, <1>4 DEF IsSorted
<1>5. CASE m < i
  BY <1>1, <1>2, <1>5 DEF IsSorted
<1>6. CASE i < m /\ ~(j < m)
  BY <1>1, <1>3, <1>6
<1>7. CASE i = m
  BY <1>1, <1>3, <1>7
<1> QED
  BY <1>1, <1>4, <1>5, <1>6, <1>7

\* Nobody works in a region if the children that were forked are done, and
\* nobody works in theirs.
LEMMA SidesCalm ==
  ASSUME Laminar, NEW r \in Regions, left_index[r] \in Slots(r),
         pc[r] \in {"wait_lone", "wait_right"}, CalmAt(Left(r)),
         pc[r] = "wait_right" => CalmAt(Right(r)),
         NEW q \in Regions, Running(q), q # r
  PROVE  ~Within(q, r)
<1> SUFFICES ASSUME Within(q, r)
             PROVE  FALSE
  OBVIOUS
<1>1. Inside(q, r)
  BY WithinInside DEF Running
<1>2. left_index[r] \in Int
  BY RegionType DEF Slots
<1>3. Within(q, Left(r)) \/ (pc[r] = "wait_right" /\ Within(q, Right(r)))
  BY <1>1, <1>2, Sides, RegionType DEF Inside, Within, ForkedRight, Exited
<1> QED
  BY <1>3 DEF CalmAt

\* The process that has just exited leaves its region calm ...
LEMMA CalmNow ==
  ASSUME TypeOK, Laminar, MidInside, LeftExact, NEW s \in Regions, Step(s), pc'[s] \in Exited,
         \/ pc[s] \notin {"fork_right", "wait_lone", "wait_left", "wait_right"}
         \/ /\ pc[s] \in {"wait_lone", "wait_right"} /\ CalmAt(Left(s))
            /\ pc[s] = "wait_right" => CalmAt(Right(s))
  PROVE  CalmAt(s)'
<1> SUFFICES ASSUME NEW q \in Regions, Running(q)', Within(q, s)
             PROVE  FALSE
  BY DEF CalmAt, Within
<1>1. q # s
  BY DEF Running
<1>2. ~ForkLeft(s) /\ ~ForkRight(s)
  <2>1. pc[s] \in {"fork_left", "fork_right"} => left_index[s] \in Slots(s)
    BY DEF MidInside, Partitioned
  <2> QED
    BY <2>1, ForkLeftEffect, ForkRightEffect DEF ForkLeft, ForkRight, Exited
<1>3. Running(q)
  BY <1>1, <1>2, StepPc DEF Goto, Running, TypeOK
<1>4. Inside(q, s)
  BY <1>1, <1>3, StepPc, WithinInside DEF Running
<1>5. pc[s] \in {"fork_right", "wait_lone", "wait_left", "wait_right"}
  BY <1>4, StepPc DEF Inside, ForkedLeft, ForkedRight, Running
<1> QED
  BY <1>1, <1>3, <1>5, SidesCalm DEF MidInside, Partitioned

\* ... if it has waited for its children, unless waitpid failed, or it was
\* killed.
LEMMA CalmExitedStep ==
  ASSUME TypeOK, Laminar, LoopExact, MidInside, LeftExact, CalmExited, NEW s \in Regions, Step(s)
  PROVE  CalmExited'
<1> SUFFICES ASSUME faults'.wait = 0, faults'.kill = 0, NEW r \in Regions, pc'[r] \in Exited
             PROVE  CalmAt(r)'
  BY DEF CalmExited
<1>1. /\ ~WaitFails(s) /\ ~KillAtRest(s) /\ ~KillInSwap(s) /\ ~KillInQsort(s)
      /\ faults.wait = 0 /\ faults.kill = 0
  <2>1. /\ faults.wait \in Nat /\ faults.kill \in Nat
        /\ DOMAIN faults = {"call", "wait", "kill"}
    <3>1. faults \in [{"call", "wait", "kill"} -> 0..MaxFaults]
      BY DEF TypeOK
    <3>2. faults.wait \in 0..MaxFaults /\ faults.kill \in 0..MaxFaults
      BY <3>1
    <3> QED
      BY <3>1, <3>2, MaxFaultsAssumption
  <2>2. ~WaitFails(s) /\ ~KillAtRest(s) /\ ~KillInSwap(s) /\ ~KillInQsort(s)
    <3>1. ~Fault("wait")
      BY <2>1 DEF Fault
    <3>2. ~Fault("kill")
      BY <2>1 DEF Fault
    <3> QED
      BY <3>1, <3>2 DEF WaitFails, KillAtRest, KillInSwap, KillInQsort, Kill
  <2>3. faults' = faults \/ faults' = [faults EXCEPT !["call"] = @ + 1]
    BY <2>2 DEF Step, Work, Misfortune, Mapped, NotMapped, Trivial, Sequential, Qsort, Partition,
           ExtendLeft, ExtendRight, Exchange, Crash, PlacePivot,
           ForkLeft, ForkLeftFails, ForkRight, ForkRightFails, WaitLone, WaitLeft, WaitRight, Fault
  <2> QED
    BY <2>1, <2>2, <2>3
<1>2. \A q \in Regions : pc[q] \in Exited => CalmAt(q)
  BY <1>1 DEF CalmExited
<1>3. CASE r # s
  <2>1. pc[r] \in Exited
    BY <1>3, StepOthers DEF Exited
  <2> QED
    BY <1>2, <2>1, CalmStays
<1>4. CASE r = s
  <2>1. \/ pc[s] \notin {"fork_right", "wait_lone", "wait_left", "wait_right"}
        \/ WaitLone(s) \/ WaitRight(s)
    BY <1>1, <1>4
       DEF Step, Work, Misfortune, Mapped, NotMapped, Trivial, Sequential, Qsort, Partition, Parts,
           ExtendLeft, ExtendRight, Exchange, Exchanges, InLoop, Crash, PlacePivot, Ends,
           ForkLeft, ForkLeftFails, ForkRight, ForkRightFails, WaitLeft, Goto, Exit, Spawn,
           TypeOK, Exited
  <2>2. CASE WaitLone(s) \/ WaitRight(s)
    <3>1. Left(s) \in Regions /\ Right(s) \in Regions
      BY <2>2, Sides DEF WaitLone, WaitRight, MidInside, Partitioned
    <3>2. pc[Left(s)] \in Exited /\ (pc[s] = "wait_right" => pc[Right(s)] \in Exited)
      BY <2>2 DEF WaitLone, WaitRight, LeftExact
    <3>3. pc[s] \in {"wait_lone", "wait_right"}
      BY <2>2 DEF WaitLone, WaitRight
    <3> QED
      BY <1>2, <1>4, <3>1, <3>2, <3>3, CalmNow
  <2> QED
    BY <1>4, <2>1, <2>2, CalmNow
<1> QED
  BY <1>3, <1>4

\* The region of a process that succeeded is in order, too.
DoneAt(r) == IsSorted(arr, Slots(r)) /\ CalmAt(r)

\* The process that has just succeeded leaves its region in order.
LEMMA DoneNow ==
  ASSUME TypeOK, Laminar, LoopExact, MidInside, PartitionHolds, LeftExact, SuccessMeansSorted,
         NEW s \in Regions, Step(s), pc'[s] = "succeeded"
  PROVE  DoneAt(s)'
<1>1. Trivial(s) \/ Qsort(s) \/ WaitRight(s)
  BY DEF Step, Work, Misfortune, Mapped, NotMapped, Sequential, Partition, Parts,
         ExtendLeft, ExtendRight, Exchange, Exchanges, InLoop, Crash, PlacePivot, Ends,
         ForkLeft, ForkLeftFails, ForkRight, ForkRightFails, WaitLone, WaitLeft,
         WaitFails, KillAtRest, KillInSwap, KillInQsort, Kill, Goto, Exit, Spawn, TypeOK
<1>2. CASE Trivial(s) \/ Qsort(s)
  <2>1. IsSorted(arr', Slots(s))
    <3>1. CASE Trivial(s)
      BY <3>1, RegionType DEF Trivial, Size, IsSorted, Slots
    <3>2. CASE Qsort(s)
      BY <3>2, RegionType DEF Qsort, IsSorted
    <3> QED
      BY <1>2, <3>1, <3>2
  <2>2. CalmAt(s)'
    BY <1>2, CalmNow DEF Trivial, Qsort, Exited
  <2> QED
    BY <2>1, <2>2 DEF DoneAt
<1>3. CASE WaitRight(s)
  <2>1. /\ pc[s] = "wait_right" /\ left_success[s] /\ pc[Right(s)] = "succeeded" /\ arr' = arr
    BY <1>3 DEF WaitRight, Exit, Goto, TypeOK
  <2>2. /\ left_index[s] \in Slots(s) /\ pc[Left(s)] = "succeeded"
        /\ Left(s) \in Regions /\ Right(s) \in Regions /\ PartitionedAt(s)
    BY <2>1, Sides DEF MidInside, LeftExact, PartitionHolds, PartitionedAt, Partitioned
  <2>3. DoneAt(Left(s)) /\ DoneAt(Right(s))
    BY <2>1, <2>2 DEF SuccessMeansSorted, DoneAt, CalmAt, Within
  <2>4. IsSorted(arr, Slots(s))
    BY <2>2, <2>3, SidesSorted DEF DoneAt
  <2>5. CalmAt(s)'
    BY <2>1, <2>3, CalmNow DEF DoneAt, Exited
  <2> QED
    BY <2>1, <2>4, <2>5 DEF DoneAt
<1> QED
  BY <1>1, <1>2, <1>3

\* So regions whose processes succeeded are in order after every step.
LEMMA SuccessStep ==
  ASSUME TypeOK, Laminar, LoopExact, MidInside, PartitionHolds, LeftExact, SuccessMeansSorted,
         NEW s \in Regions, Step(s)
  PROVE  SuccessMeansSorted'
<1> SUFFICES ASSUME NEW r \in Regions, pc'[r] = "succeeded"
             PROVE  DoneAt(r)'
  BY DEF SuccessMeansSorted, DoneAt, CalmAt, Within
<1>1. CASE r = s
  BY <1>1, DoneNow
<1>2. CASE r # s
  <2>1. pc[r] = "succeeded"
    BY <1>2, StepOthers
  <2>2. DoneAt(r)
    BY <2>1 DEF SuccessMeansSorted, DoneAt, CalmAt, Within
  <2>3. CalmAt(r)' /\ \A i \in Slots(r) : arr'[i] = arr[i]
    BY <2>1, <2>2, CalmStays DEF DoneAt, Exited
  <2> QED
    BY <2>2, <2>3 DEF DoneAt, IsSorted
<1> QED
  BY <1>1, <1>2

------------------------------------------------------------------------------
(* Elements are rearranged *)

\* The array has finitely many slots.
LEMMA IndicesFinite == IsFiniteSet(Indices)
BY SizeAssumption, FS_Interval DEF Indices

\* A swap rearranges the elements.
LEMMA SwapRearranges ==
  ASSUME TypeOK, NEW i \in Indices, NEW j \in Indices
  PROVE  Rearranges(swap(i, j), arr, Indices)
<1> SUFFICES ASSUME NEW v \in Values
             PROVE  Cardinality({k \in Indices : swap(i, j)[k] = v})
                      = Cardinality({k \in Indices : arr[k] = v})
  BY DEF Rearranges
<1> DEFINE A == {k \in Indices : swap(i, j)[k] = v}
           B == {k \in Indices : arr[k] = v}
           Other(k) == IF k = i THEN j ELSE IF k = j THEN i ELSE k
           f == [k \in A |-> Other(k)]
<1>1. \A k \in Indices : swap(i, j)[k] = arr[Other(k)]
  BY DEF swap, TypeOK
<1>2. \A k \in Indices : Other(k) \in Indices /\ Other(Other(k)) = k
  OBVIOUS
<1>3. f \in [A -> B]
  BY <1>1, <1>2
<1>4. ASSUME NEW b \in B
      PROVE  \E a \in A : f[a] = b
  <2>1. Other(b) \in A
    BY <1>1, <1>2
  <2> QED
    BY <1>2, <2>1
<1>5. \A a, b \in A : f[a] = f[b] => a = b
  BY <1>2
<1>6. IsFiniteSet(A)
  BY IndicesFinite, FS_Subset
<1> HIDE DEF A, B, f
<1>7. ExistsBijection(A, B)
  <2>1. f \in Bijection(A, B)
    BY <1>3, <1>4, <1>5, Fun_IsBij
  <2> QED
    BY <2>1 DEF ExistsBijection
<1>8. Cardinality(A) = Cardinality(B)
  BY <1>6, <1>7, FS_Bijection
<1> QED
  BY <1>8 DEF A, B

\* An array is rearranged if a region of it is and the rest stays.
LEMMA RegionRearranges ==
  ASSUME NEW r \in Regions, NEW a, NEW b, NEW c, Rearranges(a, b, Slots(r)),
         \A i \in Indices : c[i] = IF i \in Slots(r) THEN a[i] ELSE b[i]
  PROVE  Rearranges(c, b, Indices)
<1> SUFFICES ASSUME NEW v \in Values
             PROVE  Cardinality({k \in Indices : c[k] = v})
                      = Cardinality({k \in Indices : b[k] = v})
  BY DEF Rearranges
<1> DEFINE A == {k \in Slots(r) : a[k] = v}
           B == {k \in Slots(r) : b[k] = v}
           R == {k \in Indices \ Slots(r) : b[k] = v}
<1>1. /\ {k \in Indices : c[k] = v} = A \cup R
      /\ {k \in Indices : b[k] = v} = B \cup R
  BY RegionType
<1>2. IsFiniteSet(A) /\ IsFiniteSet(B) /\ IsFiniteSet(R)
  BY SlotsFinite, IndicesFinite, FS_Subset
<1>3. A \cap R = {} /\ B \cap R = {}
  OBVIOUS
<1>4. Cardinality(A) = Cardinality(B)
  BY DEF Rearranges
<1> HIDE DEF A, B, R
<1>5. Cardinality(A \cup R) = Cardinality(B \cup R)
  <2>1. Cardinality(A \cup R) = Cardinality(A) + Cardinality(R) - 0
    BY <1>2, <1>3, FS_Union, FS_EmptySet
  <2>2. Cardinality(B \cup R) = Cardinality(B) + Cardinality(R) - 0
    BY <1>2, <1>3, FS_Union, FS_EmptySet
  <2> QED
    BY <1>4, <2>1, <2>2
<1> QED
  BY <1>1, <1>5

\* The order of two rearrangements can be forgotten.
LEMMA RearrangesTwice ==
  ASSUME NEW S, NEW a, NEW b, NEW c, Rearranges(a, b, S), Rearranges(b, c, S)
  PROVE  Rearranges(a, c, S)
BY DEF Rearranges

\* Whatever a process does, elements are lost only when it is killed.
LEMMA StepRearranges ==
  ASSUME TypeOK, LoopExact, NEW s \in Regions, Step(s), pc'[s] # "killed"
  PROVE  Rearranges(arr', arr, Indices)
<1>1. CASE arr' = arr
  BY <1>1 DEF Rearranges
<1>2. CASE Qsort(s)
  <2>1. PICK a \in [Slots(s) -> Values] :
          /\ Rearranges(a, arr, Slots(s))
          /\ arr' = [i \in Indices |-> IF i \in Slots(s) THEN a[i] ELSE arr[i]]
    BY <1>2 DEF Qsort
  <2>2. \A i \in Indices : arr'[i] = IF i \in Slots(s) THEN a[i] ELSE arr[i]
    BY <2>1
  <2> QED
    BY <2>1, <2>2, RegionRearranges
<1>3. CASE Partition(s)
  BY <1>3, PivotSlots, RegionType, SwapRearranges DEF Partition, Parts
<1>4. CASE Exchange(s)
  <2>1. LoopExactAt(s)
    BY <1>4 DEF Exchange, Exchanges, InLoop, LoopExact
  <2> QED
    BY <1>4, <2>1, LoopSlots, RegionType, SwapRearranges DEF Exchange, Exchanges
<1>5. CASE PlacePivot(s)
  <2>1. LoopExactAt(s)
    BY <1>5 DEF PlacePivot, Ends, LoopExact
  <2> QED
    BY <1>5, <2>1, LoopSlots, RegionType, SwapRearranges DEF PlacePivot
<1>6. ~KillInSwap(s) /\ ~KillInQsort(s)
  BY DEF KillInSwap, KillInQsort, Kill, Goto, TypeOK
<1> QED
  BY <1>1, <1>2, <1>3, <1>4, <1>5, <1>6
     DEF Step, Work, Misfortune, Mapped, NotMapped, Trivial, Sequential, ExtendLeft,
         ExtendRight, Crash, ForkLeft, ForkLeftFails, ForkRight, ForkRightFails,
         WaitLone, WaitLeft, WaitRight, WaitFails, KillAtRest

\* So as long as no process is killed the array is a rearrangement of the file.
LEMMA KeepsElementsStep ==
  ASSUME TypeOK, Laminar, LoopExact, MidInside, KeepsElements, NEW s \in Regions, Step(s)
  PROVE  KeepsElements'
<1> SUFFICES ASSUME \A r \in Regions : pc'[r] # "killed"
             PROVE  Rearranges(arr', input', Indices)
  BY DEF KeepsElements
<1>1. input' = input
  BY DEF Step, Work, Misfortune, Mapped, NotMapped, Trivial, Sequential, Qsort, Partition,
         ExtendLeft, ExtendRight, Exchange, Crash, PlacePivot, ForkLeft, ForkLeftFails,
         ForkRight, ForkRightFails, WaitLone, WaitLeft, WaitRight, WaitFails,
         KillAtRest, KillInSwap, KillInQsort, given
<1>2. \A r \in Regions : pc[r] # "killed"
  <2>1. pc[s] # "killed"
    BY StepPc DEF Running, Exited
  <2> QED
    BY <2>1, OthersStay
<1>3. Rearranges(arr, input, Indices)
  BY <1>2 DEF KeepsElements
<1>4. Rearranges(arr', arr, Indices)
  BY StepRearranges
<1> QED
  BY <1>1, <1>3, <1>4, RearrangesTwice

\* A process succeeds after all its descendants, and they have no more.
LEMMA AllSucceededStep ==
  ASSUME TypeOK, Laminar, LoopExact, MidInside, LeftExact, SuccessMeansSorted, AllSucceeded,
         NEW s \in Regions, Step(s)
  PROVE  AllSucceeded'
<1> SUFFICES ASSUME NEW q \in Regions, NEW r \in Regions,
                    pc'[r] = "succeeded", Within(q, r), pc'[q] # "none"
             PROVE  pc'[q] = "succeeded"
  BY DEF AllSucceeded, Within
<1>1. CASE r # s
  <2>1. pc[r] = "succeeded"
    BY <1>1, StepOthers
  <2>2. CalmAt(r) /\ CalmAt(r)'
    BY <2>1, CalmStays DEF SuccessMeansSorted, CalmAt, Within, Exited
  <2>3. q # s
    BY <2>2, StepPc DEF CalmAt
  <2>4. pc[q] # "none"
    BY <2>2, <2>3, StepOthers DEF CalmAt, Running, Within, Exited
  <2> QED
    BY <2>1, <2>3, <2>4, OthersStay DEF AllSucceeded
<1>2. CASE r = s /\ q # s
  <2>1. Trivial(s) \/ Qsort(s) \/ WaitRight(s)
    BY <1>2
       DEF Step, Work, Misfortune, Mapped, NotMapped, Sequential, Partition, Parts,
           ExtendLeft, ExtendRight, Exchange, Exchanges, InLoop, Crash, PlacePivot, Ends,
           ForkLeft, ForkLeftFails, ForkRight, ForkRightFails, WaitLone, WaitLeft,
           WaitFails, KillAtRest, KillInSwap, KillInQsort, Kill, Goto, Exit, Spawn, TypeOK
  <2>2. pc'[q] = pc[q] /\ pc[q] # "none"
    BY <1>2, <2>1 DEF Trivial, Qsort, WaitRight, Exit, Goto, TypeOK
  <2>3. Inside(q, s)
    BY <1>2, <2>2, WithinInside, StepPc DEF Running
  <2>4. WaitRight(s)
    BY <2>1, <2>3 DEF Inside, ForkedLeft, ForkedRight, Trivial, Qsort, Exited
  <2>5. pc[s] = "wait_right" /\ left_success[s] /\ pc[Right(s)] = "succeeded"
    BY <1>2, <2>4 DEF WaitRight, Exit, Goto, TypeOK
  <2>6. left_index[s] \in Slots(s) /\ pc[Left(s)] = "succeeded"
    BY <2>5 DEF MidInside, LeftExact, Partitioned
  <2>7. Within(q, Left(s)) \/ Within(q, Right(s))
    <3>1. left_index[s] \in Int
      BY <2>6, RegionType DEF Slots
    <3> QED
      BY <2>3, <2>6, <3>1, Sides, RegionType DEF Inside, Within
  <2> QED
    BY <2>2, <2>5, <2>6, <2>7, Sides DEF AllSucceeded
<1> QED
  BY <1>1, <1>2

------------------------------------------------------------------------------
(* Types *)

\* One more fault is within the bound, and keeps each count within it.
LEMMA FaultType ==
  ASSUME TypeOK, NEW k \in {"call", "wait", "kill"}, Fault(k)
  PROVE  faults' \in [{"call", "wait", "kill"} -> 0..MaxFaults]
<1>1. faults \in [{"call", "wait", "kill"} -> 0..MaxFaults]
  BY DEF TypeOK
<1>2. \A j \in {"call", "wait", "kill"} : faults[j] \in Int /\ 0 <= faults[j]
  BY <1>1, MaxFaultsAssumption
<1>3. faults["call"] + faults["wait"] + faults["kill"] < MaxFaults
  BY DEF Fault
<1>4. faults[k] + 1 \in 0..MaxFaults
  <2>1. faults["call"] + 1 \in 0..MaxFaults /\ faults["wait"] + 1 \in 0..MaxFaults
        /\ faults["kill"] + 1 \in 0..MaxFaults
    BY <1>2, <1>3, MaxFaultsAssumption
  <2> QED
    BY <2>1
<1> QED
  BY <1>1, <1>4 DEF Fault

\* Every step keeps the counts within the bound.
LEMMA FaultsStep ==
  ASSUME TypeOK, NEW s \in Regions, Step(s)
  PROVE  faults' \in [{"call", "wait", "kill"} -> 0..MaxFaults]
<1>1. faults' = faults \/ Fault("call") \/ Fault("wait") \/ Fault("kill")
  BY DEF Step, Work, Misfortune, Mapped, NotMapped, Trivial, Sequential, Qsort, Partition,
         ExtendLeft, ExtendRight, Exchange, Crash, PlacePivot, ForkLeft, ForkLeftFails,
         ForkRight, ForkRightFails, WaitLone, WaitLeft, WaitRight, WaitFails,
         KillAtRest, KillInSwap, KillInQsort, Kill
<1>2. CASE faults' = faults
  BY <1>2 DEF TypeOK
<1> QED
  BY <1>1, <1>2, FaultType

\* The locals of partition: both indices stay in the region, or the right one
\* wraps around.
LEMMA LocalsType ==
  ASSUME TypeOK, LoopExact, NEW s \in Regions, Step(s)
  PROVE  /\ pivot_val' \in [Regions -> Values \cup {0}]
         /\ left_index' \in [Regions -> Indices]
         /\ right_index' \in [Regions -> Indices \cup {MaxUlong}]
         /\ left_success' \in [Regions -> BOOLEAN]
<1>1. CASE Partition(s)
  <2>1. /\ pivot_val' = [pivot_val EXCEPT ![s] = arr[PivotIndex(s)]]
        /\ left_index' = [left_index EXCEPT ![s] = s.start]
        /\ right_index' = [right_index EXCEPT ![s] = s.start + (Size(s) - 2)]
        /\ left_success' = left_success /\ Size(s) >= 2
    BY <1>1 DEF Partition, Parts
  <2>2. /\ s.start \in Indices /\ s.start + (Size(s) - 2) \in Indices
        /\ PivotIndex(s) \in Indices
    BY <2>1, RegionType, PivotSlots, SizeAssumption DEF Size, Indices
  <2> QED
    BY <2>1, <2>2 DEF TypeOK
<1>2. CASE ExtendLeft(s)
  <2>1. /\ pivot_val' = pivot_val /\ right_index' = right_index /\ left_success' = left_success
        /\ left_index' = [left_index EXCEPT ![s] = left_index[s] + 1]
        /\ LoopExactAt(s)' /\ pc' = pc /\ pc[s] = "loop"
    BY <1>2, LoopExtendsLeft DEF ExtendLeft, InLoop, LoopExact
  <2>2. left_index'[s] = left_index[s] + 1 /\ left_index[s] \in Indices
    BY <2>1 DEF TypeOK
  <2>3. left_index[s] <= right_index[s] /\ LoopExactAt(s) /\ BelongsLeft(s)
    BY <1>2 DEF ExtendLeft, InLoop, LoopExact
  <2>4. right_index[s] \in Indices
    <3>1. ~(left_index[s] = 0 /\ right_index[s] = MaxUlong /\ arr[0] >= pivot_val[s])
      <4>1. arr[left_index[s]] \in Int /\ pivot_val[s] \in Int
        BY <2>2, ValuesAreInts DEF TypeOK
      <4> QED
        BY <2>3, <4>1 DEF BelongsLeft
    <3>2. right_index[s] <= s.end - 2
      BY <2>3, <3>1 DEF LoopExactAt
    <3> QED
      BY <3>2, RegionType, SizeAssumption DEF TypeOK, Indices
  <2>5. left_index[s] + 1 \in Indices
    BY <2>2, <2>3, <2>4, LoopSlots, RegionType, SizeAssumption DEF Indices
  <2> QED
    BY <2>1, <2>5 DEF TypeOK
<1>3. CASE ExtendRight(s)
  <2>1. /\ pivot_val' = pivot_val /\ left_index' = left_index /\ left_success' = left_success
        /\ right_index' = [right_index EXCEPT ![s] = Decrement(right_index[s])]
        /\ right_index[s] \in Indices
    BY <1>3 DEF ExtendRight, BelongsRight
  <2>2. Decrement(right_index[s]) \in Indices \cup {MaxUlong}
    BY <2>1, SizeAssumption DEF Decrement, Indices
  <2> QED
    BY <2>1, <2>2 DEF TypeOK
<1>4. CASE WaitLeft(s)
  <2>1. left_success' \in [Regions -> BOOLEAN]
    BY <1>4 DEF WaitLeft, TypeOK
  <2> QED
    BY <1>4, <2>1 DEF WaitLeft, TypeOK
<1>5. CASE locals' = locals
  BY <1>5 DEF locals, TypeOK
<1> QED
  BY <1>1, <1>2, <1>3, <1>4, <1>5
     DEF Step, Work, Misfortune, Mapped, NotMapped, Trivial, Sequential, Qsort, Exchange, Crash,
         PlacePivot, ForkLeft, ForkLeftFails, ForkRight, ForkRightFails, WaitLone, WaitRight,
         WaitFails, KillAtRest, KillInSwap, KillInQsort

\* So every step keeps the variables to their types.
LEMMA TypeStep ==
  ASSUME TypeOK, LoopExact, NEW s \in Regions, Step(s)
  PROVE  TypeOK'
<1>1. par_threshold' = par_threshold /\ input' = input
  BY DEF Step, Work, Misfortune, Mapped, NotMapped, Trivial, Sequential, Qsort, Partition,
         ExtendLeft, ExtendRight, Exchange, Crash, PlacePivot, ForkLeft, ForkLeftFails,
         ForkRight, ForkRightFails, WaitLone, WaitLeft, WaitRight, WaitFails,
         KillAtRest, KillInSwap, KillInQsort, given
<1>2. pc' \in [Regions -> Steps]
  <2>1. CASE \E t \in Steps : Goto(s, t)
    BY <2>1 DEF Goto, TypeOK
  <2>2. CASE ForkLeft(s) \/ ForkRight(s)
    BY <2>2 DEF ForkLeft, ForkRight, Spawn, TypeOK, Steps
  <2> QED
    BY <2>1, <2>2, StepPc
<1> QED
  BY <1>1, <1>2, StepArray, LocalsType, FaultsStep DEF TypeOK

------------------------------------------------------------------------------
(* The theorems *)

\* The invariant holds of the initial states, is kept by every step of a
\* process, and by steps that change nothing.
LEMMA InvInit == Init => IInv
<1> SUFFICES ASSUME Init
             PROVE  IInv
  OBVIOUS
<1>1. /\ pc = [r \in Regions |-> IF r = Root THEN "main" ELSE "none"]
      /\ faults = [call |-> 0, wait |-> 0, kill |-> 0]
  BY DEF Init
<1>2. 0 \in Indices /\ 0 \in 0..MaxFaults
  BY SizeAssumption, MaxFaultsAssumption DEF Indices
<1>3. TypeOK
  BY <1>2 DEF Init, TypeOK, Steps
<1>4. \A r \in Regions : pc[r] \in {"main", "none"} /\ (pc[r] = "main" => r = Root)
  BY <1>1
<1>5. /\ Laminar /\ LoopExact /\ MidInside /\ PartitionHolds
      /\ LeftExact /\ CalmExited /\ SuccessMeansSorted /\ AllSucceeded
  BY <1>4 DEF Laminar, LoopExact, MidInside, PartitionHolds, Partitioned, LeftExact, CalmExited,
              SuccessMeansSorted, AllSucceeded, Exited
<1>6. KeepsElements
  BY DEF Init, KeepsElements, Rearranges
<1> QED
  BY <1>3, <1>5, <1>6 DEF IInv

LEMMA InvStep ==
  ASSUME IInv, NEW s \in Regions, Step(s)
  PROVE  IInv'
<1> USE DEF IInv
<1>1. TypeOK'
  BY TypeStep
<1>2. Laminar'
  BY LaminarStep
<1>3. LoopExact'
  BY LoopExactStep
<1>4. MidInside'
  BY MidInsideStep
<1>5. PartitionHolds'
  BY PartitionHoldsStep
<1>6. LeftExact'
  BY LeftExactStep
<1>7. CalmExited'
  BY CalmExitedStep
<1>8. SuccessMeansSorted'
  BY SuccessStep
<1>9. AllSucceeded'
  BY AllSucceededStep
<1>10. KeepsElements'
  BY KeepsElementsStep
<1> QED
  BY <1>1, <1>2, <1>3, <1>4, <1>5, <1>6, <1>7, <1>8, <1>9, <1>10

LEMMA InvStutter ==
  ASSUME IInv, UNCHANGED vars
  PROVE  IInv'
BY DEF IInv, vars, given, locals, TypeOK, Laminar, LoopExact, LoopExactAt, MidInside, PartitionHolds,
       Partitioned, LeftExact, CalmExited, CalmAt, SuccessMeansSorted, Apart, Inside, Within,
       ForkedLeft, ForkedRight, Left, Running, IsSorted, AllSucceeded, KeepsElements, Rearranges

\* The inductive invariant of the parallel sort.
THEOREM Invariance == Spec => []IInv
<1>1. Init => IInv
  BY InvInit
<1>2. IInv /\ [Next]_vars => IInv'
  BY InvStep, InvStutter DEF Next, Terminated, Step
<1> QED
  BY <1>1, <1>2, PTL DEF Spec

\* Every variable keeps to its values, whatever the file and the failures; the
\* unsigned indices leave the array only by the one wrap of right_index.
THEOREM TypeCorrect == Spec => []TypeOK
<1>1. IInv => TypeOK
  BY DEF IInv
<1> QED
  BY <1>1, Invariance, PTL

\* No two processes ever write to the same slot of the shared mapping.
THEOREM WritersAreDisjoint == Spec => []WritersDisjoint
<1>1. IInv => WritersDisjoint
  BY WritersApart, ApartDisjoint DEF IInv, WritersDisjoint
<1> QED
  BY <1>1, Invariance, PTL

\* What partition promises holds at its return and as long as its process
\* lives, while its children and theirs sort the two sides, or fail.
THEOREM PartitionCorrect == Spec => []PartitionHolds
<1>1. IInv => PartitionHolds
  BY DEF IInv
<1> QED
  BY <1>1, Invariance, PTL

\* A process that exits with 0 leaves its region sorted for good, and nobody
\* at work in it; in particular main the whole file.
THEOREM SuccessIsSorted == Spec => []SuccessMeansSorted
<1>1. IInv => SuccessMeansSorted
  BY DEF IInv
<1> QED
  BY <1>1, Invariance, PTL

\* When main exits with 0 the file has the elements it had, each as often: every
\* process that was started has exited with 0 then, so none was killed half way
\* through a swap or in qsort.
THEOREM ElementsKept == Spec => []SuccessKeepsElements
<1>1. IInv => SuccessKeepsElements
  <2> SUFFICES ASSUME IInv, pc[Root] = "succeeded"
               PROVE  Rearranges(arr, input, Indices)
    BY DEF SuccessKeepsElements
  <2>1. Root \in Regions /\ \A r \in Regions : Within(r, Root)
    BY RegionType, SizeAssumption DEF Root, Regions, Within
  <2>2. \A r \in Regions : pc[r] # "killed"
    BY <2>1 DEF IInv, AllSucceeded
  <2> QED
    BY <2>2 DEF IInv, KeepsElements
<1> QED
  BY <1>1, Invariance, PTL

\* Main leaves no process behind unless one was killed or waitpid failed,
\* not even when a fork failed or a process crashed.
THEOREM NoneLeftBehind == Spec => []NobodyLeftBehind
<1>1. IInv => NobodyLeftBehind
  <2> SUFFICES ASSUME IInv, pc[Root] \in Exited, faults.wait = 0, faults.kill = 0,
                      NEW r \in Regions, Running(r)
               PROVE  FALSE
    BY DEF NobodyLeftBehind, Quiet
  <2>1. Root \in Regions /\ Within(r, Root)
    BY RegionType, SizeAssumption DEF Root, Regions, Within
  <2> QED
    BY <2>1 DEF IInv, CalmExited, CalmAt
<1> QED
  BY <1>1, Invariance, PTL

\* No region is ever given to two processes, at the same time or one after the
\* other.
THEOREM RegionsOnce == Spec => EachRegionOnce
<1>1. IInv /\ [Next]_vars =>
        [\A r \in Regions : pc'[r] = "quicksort" => pc[r] \in {"none", "main", "quicksort"}]_vars
  <2> SUFFICES ASSUME IInv, NEW s \in Regions, Step(s), NEW r \in Regions, pc'[r] = "quicksort"
               PROVE  pc[r] \in {"none", "main", "quicksort"}
    BY DEF Next, Terminated, Step, vars
  <2>1. CASE r = s
    <3>1. pc[s] \in {"fork_left", "fork_right"} => left_index[s] \in Slots(s)
      BY DEF IInv, MidInside, Partitioned
    <3>2. ~ForkLeft(s) /\ ~ForkRight(s)
      BY <2>1, <3>1, ForkLeftEffect, ForkRightEffect DEF IInv, ForkLeft, ForkRight
    <3> QED
      BY <2>1, <3>2, StepPc DEF IInv, Goto, TypeOK, Exited, Moves
  <2>2. CASE r # s
    BY <2>2, OthersStay DEF IInv
  <2> QED
    BY <2>1, <2>2
<1> QED
  BY <1>1, Invariance, PTL DEF Spec, EachRegionOnce
===============================================================================
