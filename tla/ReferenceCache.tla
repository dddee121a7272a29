---------------------------- MODULE ReferenceCache ----------------------------
(***************************************************************************)
(* What the cache simulator of csf_assign03 computes, with no slots, tags  *)
(* or timestamps: the blocks that are in a set-associative cache, in the   *)
(* order they would be replaced, those memory has an old copy of, and the  *)
(* time a trace of loads and stores takes: a cycle for every access to the *)
(* cache and a hundred for every word moved to or from memory.             *)
(***************************************************************************)
EXTENDS Naturals, FiniteSets

CONSTANT Blocks  \* the numbers of the blocks of memory

VARIABLES config,    \* the cache that is simulated
          resident,  \* the blocks in the cache
          older,     \* {<<b, c>> : b would be replaced before c}
          dirty,     \* the blocks whose copy in memory is out of date
          hits,      \* accesses that found their block
          misses,    \* and those that did not
          cycles     \* the time it took

vars == <<config, resident, older, dirty, hits, misses, cycles>>

Init ==
  /\ resident = {}
  /\ older = {}
  /\ dirty = {}
  /\ hits = 0
  /\ misses = 0
  /\ cycles = 0

IsLru == config.remove_method = "lru"
WritesBack == config.write_mode = "write-back"
Allocates == config.write_alloc = "write-allocate"

WordsPerBlock == config.num_bytes \div 4

\* The time to access the cache so many times and move so many words.
Takes(accesses, words) == cycles' = cycles + accesses + 100 * words

\* The words a store itself sends to memory.
Through(is_store) == IF is_store /\ ~WritesBack THEN 1 ELSE 0

\* The blocks that compete with b for a place.
Rivals(b) == {c \in resident : c % config.num_sets = b % config.num_sets}

Oldest(S) == {v \in S : \A c \in S : <<c, v>> \notin older}

\* The order without b, and with b as the last to be replaced.
Without(b) == {p \in older : b \notin {p[1], p[2]}}
MoveToEnd(b, others) == Without(b) \cup (others \X {b})

Hit(b, is_store) ==
  /\ b \in resident
  /\ older' = IF IsLru THEN MoveToEnd(b, resident \ {b}) ELSE older
  /\ dirty' = IF is_store /\ WritesBack THEN dirty \cup {b} ELSE dirty
  /\ hits' = hits + 1
  /\ Takes(1, Through(is_store))
  /\ UNCHANGED <<config, resident, misses>>

\* A store to a block that is not there and is not brought in.
Bypass(b) ==
  /\ b \notin resident
  /\ ~Allocates
  /\ misses' = misses + 1
  /\ Takes(0, 1)
  /\ UNCHANGED <<config, resident, older, dirty, hits>>

\* The block is brought in, in the place of the blocks in out; a store that is
\* not sent on is a second access.
Bring(b, is_store, out) ==
  /\ b \notin resident
  /\ is_store => Allocates
  /\ resident' = (resident \ out) \cup {b}
  /\ older' = {p \in older : p[1] \notin out /\ p[2] \notin out}
              \cup ((resident \ out) \X {b})
  /\ dirty' = (dirty \ out) \cup (IF is_store /\ WritesBack THEN {b} ELSE {})
  /\ misses' = misses + 1
  /\ Takes(IF is_store /\ WritesBack THEN 2 ELSE 1,
           WordsPerBlock * (1 + Cardinality(out \cap dirty)) + Through(is_store))
  /\ UNCHANGED <<config, hits>>

Fill(b, is_store) ==
  /\ Cardinality(Rivals(b)) < config.num_blocks
  /\ Bring(b, is_store, {})

Replace(b, is_store) ==
  /\ Cardinality(Rivals(b)) = config.num_blocks
  /\ \E v \in Oldest(Rivals(b)) : Bring(b, is_store, {v})

Access(b, is_store) ==
  Hit(b, is_store) \/ (is_store /\ Bypass(b)) \/ Fill(b, is_store) \/ Replace(b, is_store)

Next == \E b \in Blocks, is_store \in BOOLEAN : Access(b, is_store)

Spec == Init /\ [][Next]_vars
===============================================================================
