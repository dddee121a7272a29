------------------------------- MODULE CacheSim -------------------------------
(***************************************************************************)
(* The cache simulator of csf_assign03 (main.cpp): sets of slots that are  *)
(* searched by tag and replaced by the smallest timestamp, and the cycles  *)
(* each load and store of a trace costs.  The program's integers have 32   *)
(* bits: the counter of accesses wraps around, and so would the cost of an *)
(* access to a very large block.                                           *)
(***************************************************************************)
EXTENDS Integers, FiniteSets

CONSTANTS Word,         \* 2^32: addresses, timestamps and costs are below it
          Sizes,        \* what the user may give as a number
          WriteAllocs,  \* what the user may give as a policy for misses,
          WriteModes,   \* ... for stores
          Removals,     \* ... and for replacement
          Addresses,    \* the addresses in the trace
          MaxAccesses   \* bound: the lines of the trace

ASSUME WordAssumption == Word \in Nat \ {0} /\ Addresses \subseteq 0..(Word - 1)
ASSUME SizesAssumption == Sizes \subseteq 0..(Word - 1)
ASSUME MaxAccessesAssumption == MaxAccesses \in Nat

VARIABLES
  config,     \* the command line
  sets,       \* Cache: the slots of each set
  timestamp,  \* accesses so far, as far as the program knows
  stats,      \* main: what is printed in the end
  now,        \* history: accesses so far
  used        \* history: the access that last gave each slot its timestamp

vars == <<config, sets, timestamp, stats, now, used>>

------------------------------------------------------------------------------
(* The command line and the empty cache *)

isPowerOfTwo(n) == n > 0 /\ \E k \in 0..n : 2^k = n

Commands == [num_sets : Sizes, num_blocks : Sizes, num_bytes : Sizes,
             write_alloc : WriteAllocs, write_mode : WriteModes,
             remove_method : Removals]

\* What main does not refuse.
Accepted(c) ==
  /\ isPowerOfTwo(c.num_sets) /\ isPowerOfTwo(c.num_blocks) /\ isPowerOfTwo(c.num_bytes)
  /\ c.num_bytes >= 4
  /\ ~ (c.write_alloc = "no-write-allocate" /\ c.write_mode = "write-back")
  /\ c.remove_method \in {"lru", "fifo"}

Indexes == 0..(config.num_sets - 1)
Places == 0..(config.num_blocks - 1)

EmptySlot == [tag |-> 0, valid |-> FALSE, last_used |-> 0, dirty |-> FALSE]

Init ==
  /\ config \in {c \in Commands : Accepted(c)}
  /\ sets = [i \in Indexes |-> [k \in Places |-> EmptySlot]]
  /\ timestamp = 0
  /\ stats = [load_hits |-> 0, load_misses |-> 0, store_hits |-> 0,
              store_misses |-> 0, total_cycles |-> 0]
  /\ now = 0
  /\ used = [i \in Indexes |-> [k \in Places |-> 0]]

------------------------------------------------------------------------------
(* accessCache *)

Index(address) == (address \div config.num_bytes) % config.num_sets

\* A shift by all the bits of a word or more shifts by what is left of the
\* count modulo the bits.
Tag(address) ==
  LET unit == config.num_sets * config.num_bytes
  IN  address \div (IF unit < Word THEN unit ELSE unit \div Word)

First(S) == CHOOSE k \in S : \A j \in S : k <= j

Slots(address) == sets[Index(address)]

\* Bug: the search gives up at the first slot.
MatchesFirst(address) ==
  {k \in {0} : Slots(address)[k].valid /\ Slots(address)[k].tag = Tag(address)}
Matches(address) ==
  {k \in Places : Slots(address)[k].valid /\ Slots(address)[k].tag = Tag(address)}

Empty(address) == {k \in Places : ~Slots(address)[k].valid}

\* The slots with the smallest timestamp.
LeastUsed(address) ==
  {k \in Places : \A j \in Places :
     Slots(address)[k].last_used <= Slots(address)[j].last_used}

NextStamp == (timestamp + 1) % Word

\* Bug: the policy is not looked at.
TouchAlways(slot) == [slot EXCEPT !.last_used = NextStamp]

\* A hit is a use for LRU only.
Touch(slot) == IF config.remove_method = "lru"
               THEN [slot EXCEPT !.last_used = NextStamp] ELSE slot

\* Bug: a hit assigns the dirty bit, as a miss does.
MarkExactly(slot, is_store) ==
  [slot EXCEPT !.dirty = is_store /\ config.write_mode = "write-back"]

Mark(slot, is_store) ==
  IF is_store /\ config.write_mode = "write-back" THEN [slot EXCEPT !.dirty = TRUE] ELSE slot

Filled(address, is_store) ==
  [tag |-> Tag(address), valid |-> TRUE, last_used |-> NextStamp,
   dirty |-> is_store /\ config.write_mode = "write-back"]

\* The slot a missing block is put in.
Victim(address) ==
  First(IF Empty(address) # {} THEN Empty(address) ELSE LeastUsed(address))

\* The cycles to move a block, in the 32 bits of num_bytes.
BlockCycles == ((config.num_bytes \div 4) * 100) % Word

extra_cycles(address) ==
  LET slot == Slots(address)[Victim(address)] IN
  IF Empty(address) = {} /\ config.write_mode = "write-back" /\ slot.dirty
  THEN BlockCycles ELSE 0

Put(address, k, slot) ==
  sets' = [sets EXCEPT ![Index(address)] = [@ EXCEPT ![k] = slot]]

Stamped(address, k) == used' = [used EXCEPT ![Index(address)] = [@ EXCEPT ![k] = now + 1]]

\* timestamp++
Tick ==
  /\ now < MaxAccesses
  /\ now' = now + 1
  /\ timestamp' = NextStamp
  /\ UNCHANGED config

------------------------------------------------------------------------------
(* The loop of main: a line of the trace *)

\* One more access of some kind, and its cost.
Count(kind, cycles) ==
  stats' = [stats EXCEPT ![kind] = @ + 1, !.total_cycles = @ + (cycles % Word)]

Hit(address, is_store) ==
  LET k == First(Matches(address)) IN
  /\ Tick
  /\ Matches(address) # {}
  /\ Put(address, k, Mark(Touch(Slots(address)[k]), is_store))
  /\ IF config.remove_method = "lru" THEN Stamped(address, k) ELSE UNCHANGED used
  /\ IF is_store
     THEN Count("store_hits", IF config.write_mode = "write-through" THEN 101 ELSE 1)
     ELSE Count("load_hits", 1)

\* A store that misses goes to memory alone.
StoreBypasses(address) ==
  /\ Tick
  /\ Matches(address) = {}
  /\ config.write_alloc = "no-write-allocate"
  /\ Count("store_misses", 100)
  /\ UNCHANGED <<sets, used>>

\* The block is brought in.
Allocate(address, is_store) ==
  LET k == Victim(address)
      cost == 1 + BlockCycles + extra_cycles(address) IN
  /\ Tick
  /\ Matches(address) = {}
  /\ is_store => config.write_alloc # "no-write-allocate"
  /\ Put(address, k, Filled(address, is_store))
  /\ Stamped(address, k)
  /\ IF is_store
     THEN Count("store_misses",
                IF config.write_mode = "write-through" THEN cost + 100 ELSE cost + 1)
     ELSE Count("load_misses", cost)

Access(address, is_store) ==
  \/ Hit(address, is_store)
  \/ is_store /\ StoreBypasses(address)
  \/ Allocate(address, is_store)

\* The trace may end at any line.
Next == \E address \in Addresses, is_store \in BOOLEAN : Access(address, is_store)

Spec == Init /\ [][Next]_vars

------------------------------------------------------------------------------
Slot == [tag : 0..(Word - 1), valid : BOOLEAN, last_used : 0..(Word - 1), dirty : BOOLEAN]

\* Every variable keeps to its values, and every set has a slot to put a block
\* in: a command line that main accepts cannot make it index an empty vector.
TypeOK ==
  /\ config \in Commands /\ Accepted(config)
  /\ Indexes # {} /\ Places # {}
  /\ sets \in [Indexes -> [Places -> Slot]]
  /\ timestamp \in 0..(Word - 1)
  /\ stats \in [{"load_hits", "load_misses", "store_hits", "store_misses",
                 "total_cycles"} -> Nat]
  /\ now \in 0..MaxAccesses
  /\ used \in [Indexes -> [Places -> 0..now]]

\* A block is in one slot at most: the search that stops at the first match
\* cannot update one copy and leave another to be written back.
OneSlotPerBlock ==
  \A i \in Indexes : \A j, k \in Places :
    sets[i][j].valid /\ sets[i][k].valid /\ sets[i][j].tag = sets[i][k].tag => j = k

\* The slots that are taken, each as its set and its place in it, and the block
\* in such a slot.
Taken == {p \in Indexes \X Places : sets[p[1]][p[2]].valid}
BlockIn(p) == sets[p[1]][p[2]].tag * config.num_sets + p[1]
BlocksIn(S) == {BlockIn(p) : p \in S}

UsedAt(p) == used[p[1]][p[2]]

\* The pairs of blocks the first of which was used before the second, and the
\* blocks that have to be written back.
Older == {<<BlockIn(r[1]), BlockIn(r[2])>> :
            r \in {r \in Taken \X Taken : UsedAt(r[1]) < UsedAt(r[2])}}
Dirty == BlocksIn({p \in Taken : sets[p[1]][p[2]].dirty})

Reference == INSTANCE ReferenceCache WITH
  Blocks <- {address \div bytes : address \in Addresses, bytes \in Sizes \ {0}},
  resident <- BlocksIn(Taken),
  older <- Older,
  dirty <- Dirty,
  hits <- stats.load_hits + stats.store_hits,
  misses <- stats.load_misses + stats.store_misses,
  cycles <- stats.total_cycles

\* The simulator finds, replaces and writes back what a set-associative cache
\* with its policies would, and charges the cycles that takes: every access to an
\* address is the access of ReferenceCache to the block that address lies in.
ImplementsReference ==
  /\ Reference!Init
  /\ [][\A address \in Addresses, is_store \in BOOLEAN :
          Access(address, is_store)
            => Reference!Access(address \div config.num_bytes, is_store)]_vars
===============================================================================
