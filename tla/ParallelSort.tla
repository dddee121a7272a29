----------------------------- MODULE ParallelSort -----------------------------
(***************************************************************************)
(* The parallel quicksort of csf_assign04 (parsort.c): a process partitions*)
(* its region of an array, forks a child for each side and waits for both; *)
(* regions no longer than par_threshold are left to qsort.  The array is a *)
(* shared mapping of a file, so all these processes write to one memory.   *)
(*                                                                         *)
(* A process is known by the region it sorts: no region is sorted twice    *)
(* (EachRegionOnce in SortProperties).  One step of a process is one turn  *)
(* of the loop of partition, or one call of qsort, fork or waitpid.  fork  *)
(* and waitpid may fail, and a process may be killed at any step.          *)
(***************************************************************************)
EXTENDS Integers, FiniteSets

CONSTANTS N,           \* the number of elements in the file
          Values,      \* the elements
          Thresholds,  \* what the user may give as par_threshold
          MaxUlong,    \* ULONG_MAX, on which an index below 0 wraps around
          MaxFaults    \* bound: system calls that fail, processes killed

\* An empty file cannot be mapped: main exits before it sorts anything.
ASSUME SizeAssumption == N \in Nat \ {0} /\ MaxUlong \in Nat /\ N <= MaxUlong
ASSUME ValuesAssumption == Values \subseteq Int /\ Thresholds \subseteq Nat
ASSUME MaxFaultsAssumption == MaxFaults \in Nat

VARIABLES
  par_threshold,  \* the command line's second argument
  arr,            \* the mapping of the file
  input,          \* history: the file as it was given
  pc,             \* what the process of each region does next
  pivot_val,      \* of partition
  left_index,     \* of partition, then mid
  right_index,    \* of partition
  left_success,   \* whether the left child is known to have exited with 0
  faults          \* how many calls failed and processes were killed

given == <<par_threshold, input>>
locals == <<pivot_val, left_index, right_index, left_success>>
vars == <<given, arr, pc, locals, faults>>

Indices == 0..(N - 1)
Regions == {r \in [start : 0..N, end : 0..N] : r.start <= r.end}
Root == [start |-> 0, end |-> N]

\* The slots of a region, and how many they are.
Slots(r) == r.start..(r.end - 1)
Size(r) == r.end - r.start

\* The regions of the children, on either side of mid.
Left(r) == [start |-> r.start, end |-> left_index[r]]
\* Bug: the pivot is sorted with the right side.
RightWithPivot(r) == [start |-> left_index[r], end |-> r.end]
\* Bug: the right side starts at the loop's other index.
RightFromIndex(r) == [start |-> right_index[r], end |-> r.end]
Right(r) == [start |-> left_index[r] + 1, end |-> r.end]

Exited == {"succeeded", "failed", "killed"}
Running(r) == pc[r] \notin Exited \cup {"none"}

\* a is b with the elements of S in another order, if any.
Rearranges(a, b, S) ==
  \A v \in Values : Cardinality({i \in S : a[i] = v}) = Cardinality({i \in S : b[i] = v})

IsSorted(a, S) == \A i, j \in S : i < j => a[i] <= a[j]

swap(i, j) == [arr EXCEPT ![i] = arr[j], ![j] = arr[i]]

Decrement(i) == IF i = 0 THEN MaxUlong ELSE i - 1

Init ==
  /\ par_threshold \in Thresholds
  /\ input \in [Indices -> Values]
  /\ arr = input
  /\ pc = [r \in Regions |-> IF r = Root THEN "main" ELSE "none"]
  /\ pivot_val = [r \in Regions |-> 0]
  /\ left_index = [r \in Regions |-> 0]
  /\ right_index = [r \in Regions |-> 0]
  /\ left_success = [r \in Regions |-> FALSE]
  /\ faults = [call |-> 0, wait |-> 0, kill |-> 0]

------------------------------------------------------------------------------
(* What a step does to the process that takes it *)

Goto(r, step) == pc' = [pc EXCEPT ![r] = step]

\* quicksort returns: a child hands its result to exit, main does likewise.
Exit(r, success) == Goto(r, IF success THEN "succeeded" ELSE "failed")

\* fork: the child starts at quicksort.
Spawn(r, child, step) == pc' = [pc EXCEPT ![r] = step, ![child] = "quicksort"]

\* One more fault of kind k.
Fault(k) ==
  /\ faults.call + faults.wait + faults.kill < MaxFaults
  /\ faults' = [faults EXCEPT ![k] = @ + 1]

------------------------------------------------------------------------------
(* main and the base cases of quicksort *)

\* The file is open and mapped ...
Mapped(r) ==
  /\ pc[r] = "main"
  /\ Goto(r, "quicksort")
  /\ UNCHANGED <<given, arr, locals, faults>>

\* ... or open, fstat or mmap failed.
NotMapped(r) ==
  /\ pc[r] = "main"
  /\ Fault("call")
  /\ Exit(r, FALSE)
  /\ UNCHANGED <<given, arr, locals>>

Trivial(r) ==
  /\ pc[r] = "quicksort"
  /\ Size(r) < 2
  /\ Exit(r, TRUE)
  /\ UNCHANGED <<given, arr, locals, faults>>

Sequential(r) ==
  /\ pc[r] = "quicksort"
  /\ Size(r) \in 2..par_threshold
  /\ Goto(r, "qsort")
  /\ UNCHANGED <<given, arr, locals, faults>>

\* qsort puts the region in order.
Qsort(r) ==
  /\ pc[r] = "qsort"
  /\ \E a \in [Slots(r) -> Values] :
       /\ IsSorted(a, Slots(r))
       /\ Rearranges(a, arr, Slots(r))
       /\ arr' = [i \in Indices |-> IF i \in Slots(r) THEN a[i] ELSE arr[i]]
  /\ Exit(r, TRUE)
  /\ UNCHANGED <<given, locals, faults>>

------------------------------------------------------------------------------
(* partition *)

PivotIndex(r) == r.start + Size(r) \div 2

Parts(r) == pc[r] = "quicksort" /\ Size(r) >= 2 /\ Size(r) > par_threshold

\* The pivot is stashed at the end of the region.
Partition(r) ==
  /\ Parts(r)
  /\ pivot_val' = [pivot_val EXCEPT ![r] = arr[PivotIndex(r)]]
  /\ arr' = swap(PivotIndex(r), r.end - 1)
  /\ left_index' = [left_index EXCEPT ![r] = r.start]
  /\ right_index' = [right_index EXCEPT ![r] = r.start + (Size(r) - 2)]
  /\ Goto(r, "loop")
  /\ UNCHANGED <<given, left_success, faults>>

InLoop(r) == pc[r] = "loop" /\ left_index[r] <= right_index[r]

\* Where the next elements belong; a right index that wrapped around is that of
\* no element.
\* Bug: an element equal to the pivot counts as less.
BelongsLeftIfEqual(r) == arr[left_index[r]] <= pivot_val[r]
BelongsLeft(r) == arr[left_index[r]] < pivot_val[r]
\* Bug: an element equal to the pivot belongs to neither side.
BelongsRightIfGreater(r) == right_index[r] \in Indices /\ arr[right_index[r]] > pivot_val[r]
BelongsRight(r) == right_index[r] \in Indices /\ arr[right_index[r]] >= pivot_val[r]

ExtendLeft(r) ==
  /\ InLoop(r)
  /\ BelongsLeft(r)
  /\ left_index' = [left_index EXCEPT ![r] = @ + 1]
  /\ UNCHANGED <<given, arr, pc, pivot_val, right_index, left_success, faults>>

ExtendRight(r) ==
  /\ InLoop(r)
  /\ ~BelongsLeft(r)
  /\ BelongsRight(r)
  /\ right_index' = [right_index EXCEPT ![r] = Decrement(@)]
  /\ UNCHANGED <<given, arr, pc, pivot_val, left_index, left_success, faults>>

Exchanges(r) ==
  /\ InLoop(r)
  /\ right_index[r] \in Indices
  /\ ~BelongsLeft(r)
  /\ ~BelongsRight(r)

Exchange(r) ==
  /\ Exchanges(r)
  /\ arr' = swap(left_index[r], right_index[r])
  /\ UNCHANGED <<given, pc, locals, faults>>

\* The element at ULONG_MAX is the one before the mapping: SIGSEGV, if nothing is
\* mapped there.  That is assumed; otherwise the loop would go on with whatever
\* lies there.
Crash(r) ==
  /\ InLoop(r)
  /\ ~BelongsLeft(r)
  /\ right_index[r] \notin Indices
  /\ Goto(r, "killed")
  /\ UNCHANGED <<given, arr, locals, faults>>

Ends(r) == pc[r] = "loop" /\ left_index[r] > right_index[r]

\* The loop is over; the pivot goes between the two sides.
PlacePivot(r) ==
  /\ Ends(r)
  /\ arr' = swap(left_index[r], r.end - 1)
  /\ Goto(r, "fork_left")
  /\ UNCHANGED <<given, locals, faults>>

------------------------------------------------------------------------------
(* The children *)

ForkLeft(r) ==
  /\ pc[r] = "fork_left"
  /\ Spawn(r, Left(r), "fork_right")
  /\ UNCHANGED <<given, arr, locals, faults>>

ForkLeftFails(r) ==
  /\ pc[r] = "fork_left"
  /\ Fault("call")
  /\ Exit(r, FALSE)
  /\ UNCHANGED <<given, arr, locals>>

ForkRight(r) ==
  /\ pc[r] = "fork_right"
  /\ Spawn(r, Right(r), "wait_left")
  /\ UNCHANGED <<given, arr, locals, faults>>

\* Bug: the parent does not wait for the left child.
ForkRightGivesUp(r) ==
  /\ pc[r] = "fork_right"
  /\ Fault("call")
  /\ Exit(r, FALSE)
  /\ UNCHANGED <<given, arr, locals>>

ForkRightFails(r) ==
  /\ pc[r] = "fork_right"
  /\ Fault("call")
  /\ Goto(r, "wait_lone")
  /\ UNCHANGED <<given, arr, locals>>

\* The only child is waited for, but whatever it returns the sort failed.
WaitLone(r) ==
  /\ pc[r] = "wait_lone"
  /\ pc[Left(r)] \in Exited
  /\ Exit(r, FALSE)
  /\ UNCHANGED <<given, arr, locals, faults>>

\* Bug: the exit status is looked at even if there is none (no WIFEXITED).
WaitLeftIfKilled(r) ==
  /\ pc[r] = "wait_left"
  /\ pc[Left(r)] \in Exited
  /\ left_success' = [left_success EXCEPT ![r] = pc[Left(r)] # "failed"]
  /\ Goto(r, "wait_right")
  /\ UNCHANGED <<given, arr, pivot_val, left_index, right_index, faults>>

\* Bug: the exit status is not looked at, only that there is one.
WaitLeftUnchecked(r) ==
  /\ pc[r] = "wait_left"
  /\ pc[Left(r)] \in Exited
  /\ left_success' = [left_success EXCEPT ![r] = pc[Left(r)] # "killed"]
  /\ Goto(r, "wait_right")
  /\ UNCHANGED <<given, arr, pivot_val, left_index, right_index, faults>>

WaitLeft(r) ==
  /\ pc[r] = "wait_left"
  /\ pc[Left(r)] \in Exited
  /\ left_success' = [left_success EXCEPT ![r] = pc[Left(r)] = "succeeded"]
  /\ Goto(r, "wait_right")
  /\ UNCHANGED <<given, arr, pivot_val, left_index, right_index, faults>>

WaitRight(r) ==
  /\ pc[r] = "wait_right"
  /\ pc[Right(r)] \in Exited
  /\ Exit(r, left_success[r] /\ pc[Right(r)] = "succeeded")
  /\ UNCHANGED <<given, arr, locals, faults>>

\* waitpid returns an error: the parent fails at once.
WaitFails(r) ==
  /\ pc[r] \in {"wait_lone", "wait_left", "wait_right"}
  /\ Fault("wait")
  /\ Exit(r, FALSE)
  /\ UNCHANGED <<given, arr, locals>>

------------------------------------------------------------------------------
(* Processes killed from outside *)

Kill(r) ==
  /\ Running(r)
  /\ Fault("kill")
  /\ Goto(r, "killed")

KillAtRest(r) ==
  /\ Kill(r)
  /\ UNCHANGED <<given, arr, locals>>

\* The first of swap's two assignments is done, the other is not.
KillInSwap(r) ==
  /\ Kill(r)
  /\ \/ Parts(r) /\ arr' = [arr EXCEPT ![PivotIndex(r)] = arr[r.end - 1]]
     \/ Exchanges(r) /\ arr' = [arr EXCEPT ![left_index[r]] = arr[right_index[r]]]
     \/ Ends(r) /\ arr' = [arr EXCEPT ![left_index[r]] = arr[r.end - 1]]
  /\ UNCHANGED <<given, locals>>

\* qsort may leave any mixture of the region's elements.
KillInQsort(r) ==
  /\ Kill(r)
  /\ pc[r] = "qsort"
  /\ \E f \in [Slots(r) -> Slots(r)] :
       arr' = [i \in Indices |-> IF i \in Slots(r) THEN arr[f[i]] ELSE arr[i]]
  /\ UNCHANGED <<given, locals>>

------------------------------------------------------------------------------
Work(r) ==
  \/ Mapped(r)
  \/ Trivial(r) \/ Sequential(r) \/ Qsort(r)
  \/ Partition(r) \/ ExtendLeft(r) \/ ExtendRight(r) \/ Exchange(r)
  \/ Crash(r) \/ PlacePivot(r)
  \/ ForkLeft(r) \/ ForkRight(r)
  \/ WaitLone(r) \/ WaitLeft(r) \/ WaitRight(r)

Misfortune(r) ==
  \/ NotMapped(r) \/ ForkLeftFails(r) \/ ForkRightFails(r) \/ WaitFails(r)
  \/ KillAtRest(r) \/ KillInSwap(r) \/ KillInQsort(r)

\* Nobody is left to take a step.
Quiet == \A r \in Regions : ~Running(r)
Terminated == Quiet /\ UNCHANGED vars

Next == (\E r \in Regions : Work(r) \/ Misfortune(r)) \/ Terminated

Spec == Init /\ [][Next]_vars

\* The system runs every process that can go on.
Fairness == \A r \in Regions : WF_vars(Work(r))
FairSpec == Spec /\ Fairness
===============================================================================
