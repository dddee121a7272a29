---------------------------- MODULE SortProperties ----------------------------
(* What should be true of the parallel sort of csf_assign04.                 *)
EXTENDS ParallelSort

Steps == {"none", "main", "quicksort", "qsort", "loop", "fork_left", "fork_right",
          "wait_lone", "wait_left", "wait_right"} \cup Exited

\* Every variable keeps to its values: right_index is the only one that ever
\* wraps around.
TypeOK ==
  /\ par_threshold \in Thresholds
  /\ input \in [Indices -> Values]
  /\ arr \in [Indices -> Values]
  /\ pc \in [Regions -> Steps]
  /\ pivot_val \in [Regions -> Values \cup {0}]
  /\ left_index \in [Regions -> Indices]
  /\ right_index \in [Regions -> Indices \cup {MaxUlong}]
  /\ left_success \in [Regions -> BOOLEAN]
  /\ faults \in [{"call", "wait", "kill"} -> 0..MaxFaults]

\* A process writes to its region in quicksort, partition and qsort; after it
\* forked it leaves the region to its children.
Writes(r) == pc[r] \in {"quicksort", "loop", "qsort"}

\* No two processes ever write to the same slot of the mapping they share,
\* however parents, children and orphans interleave.
WritersDisjoint ==
  \A q, r \in Regions : Writes(q) /\ Writes(r) /\ q # r => Slots(q) \cap Slots(r) = {}

\* No region is given to a process twice, over the whole run.
EachRegionOnce ==
  [][\A r \in Regions : pc'[r] = "quicksort" => pc[r] \in {"none", "main", "quicksort"}]_vars

Partitioned(r) == pc[r] \in {"fork_left", "fork_right", "wait_lone", "wait_left", "wait_right"}

\* What partition promises ("all elements to the left of the pivot will have
\* values less than the pivot element, and all elements to the right ...
\* greater than or equal"), from its return on: the children and their
\* children do not spoil it, even when they are killed half way.
PartitionHolds ==
  \A r \in Regions : Partitioned(r) =>
    LET mid == left_index[r] IN
    \A i \in Slots(r) : IF i < mid THEN arr[i] < arr[mid] ELSE arr[i] >= arr[mid]

\* A process that exits with 0 leaves its region sorted and nobody at work in
\* it, whatever failed elsewhere and whoever else is still at work.
SuccessMeansSorted ==
  \A r \in Regions : pc[r] = "succeeded" =>
    /\ IsSorted(arr, Slots(r))
    /\ \A q \in Regions : Running(q) => ~ (r.start <= q.start /\ q.end <= r.end)

\* When main exits with 0 the file has the elements it had: a process killed
\* half way through a swap, or in qsort, makes all its ancestors fail.
SuccessKeepsElements == pc[Root] = "succeeded" => Rearranges(arr, input, Indices)

\* When main exits no process it started is left behind ("need to wait for
\* the left side to finish"), unless one was killed or waitpid failed.
NobodyLeftBehind ==
  pc[Root] \in Exited /\ faults.wait = 0 /\ faults.kill = 0 => Quiet

\* Every run comes to an end, whatever fails, with all processes gone.
Terminates == <>Quiet

\* "the only reason that sorting should fail is if a child process can't be
\* created or if there is any other system call failure" (parsort.c:185).
FailsOnlyOnFault ==
  pc[Root] \in {"failed", "killed"} => \E k \in DOMAIN faults : faults[k] > 0
===============================================================================
