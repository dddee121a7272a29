------------------------------ MODULE CacheProofs ------------------------------
(***************************************************************************)
(* Proofs about the cache simulator, for words of any width, any sizes,    *)
(* policies and traces.  main accepts only sizes that give every access a  *)
(* set and every set a slot (Shape), so what accessCache indexes is there  *)
(* (WhereItGoes, WhichSlot); a block that misses is in no slot of its set, *)
(* so putting it in one keeps blocks apart (PutKeepsApart).                *)
(*                                                                         *)
(* The second part proves that the simulator is ReferenceCache, as long as *)
(* its integers do not wrap around (Ordinary): set index and tag make up   *)
(* the block (BlockOfSlot), timestamps order the slots as their uses did   *)
(* (StampsExact), and the full sets are those with too many rivals for the *)
(* reference (RivalsFillPlaces).                                           *)
(***************************************************************************)
EXTENDS CacheSim, FiniteSetTheorems, FunctionTheorems, TLAPS

\* A set of naturals has a least element: a first slot, an oldest timestamp.
LEMMA NatHasMin ==
  ASSUME NEW S \in SUBSET Nat, S # {}
  PROVE  \E k \in S : \A j \in S : k <= j
<1> DEFINE Below(k) == 1..k
<1> DEFINE T == {Below(k) : k \in S}
<1>1. T \subseteq FiniteSubsetsOf(Nat)
  <2> SUFFICES ASSUME NEW k \in S PROVE Below(k) \in FiniteSubsetsOf(Nat)
    OBVIOUS
  <2>1. IsFiniteSet(1..k)
    BY FS_Interval
  <2> QED  BY <2>1 DEF FiniteSubsetsOf
<1>2. PICK x \in T : \A y \in T : ~ (<<y, x>> \in StrictSubsetOrdering(Nat))
  <2> HIDE DEF T
  <2>1. T # {}
    BY DEF T
  <2> QED  BY <1>1, <2>1, FS_StrictSubsetOrderingWellFounded, WFMin
<1>3. PICK k \in S : x = Below(k)
  OBVIOUS
<1>4. ASSUME NEW j \in S, j < k PROVE FALSE
  <2>1. Below(j) \in T /\ Below(j) \subseteq Below(k) /\ k \in Below(k) /\ k \notin Below(j)
    BY <1>4
  <2>2. <<Below(j), Below(k)>> \in StrictSubsetOrdering(Nat)
    BY <2>1 DEF StrictSubsetOrdering
  <2> QED  BY <2>1, <2>2, <1>2, <1>3
<1> QED  BY <1>4

\* First picks the least, if there is any.
LEMMA FirstIsIn ==
  ASSUME NEW S \in SUBSET Nat, S # {}
  PROVE  First(S) \in S /\ \A j \in S : First(S) <= j
BY NatHasMin DEF First

\* What a division of naturals returns.
LEMMA Quotient ==
  ASSUME NEW a \in Nat, NEW d \in Nat \ {0}
  PROVE  /\ a \div d \in 0..a
         /\ a >= d => a \div d \in Nat \ {0}
<1> DEFINE q == a \div d
<1> DEFINE m == a % d
<1>1. q \in Int /\ m \in 0..(d - 1) /\ a = d * q + m
  OBVIOUS
<1> HIDE DEF q, m
<1>2. q >= 0
  <2> SUFFICES ASSUME q <= -1 PROVE FALSE
    BY <1>1
  <2>1. d * q <= d * (-1)
    BY <1>1
  <2> QED  BY <1>1, <2>1
<1>3. q <= a
  <2>1. d * q >= 1 * q
    BY <1>1, <1>2
  <2> QED  BY <1>1, <2>1
<1>4. a >= d => q # 0
  BY <1>1
<1> QED  BY <1>1, <1>2, <1>3, <1>4 DEF q

------------------------------------------------------------------------------
(* An access *)

\* main refuses every command line that would make a division or an index of
\* accessCache fail.
LEMMA Shape ==
  ASSUME TypeOK
  PROVE  /\ config.num_sets \in Nat \ {0} /\ config.num_sets < Word
         /\ config.num_blocks \in Nat \ {0} /\ config.num_blocks < Word
         /\ config.num_bytes \in Nat /\ config.num_bytes >= 4 /\ config.num_bytes < Word
         /\ Word \in Nat \ {0}
         /\ Indexes = 0..(config.num_sets - 1) /\ Places = 0..(config.num_blocks - 1)
<1>1. config \in Commands /\ Accepted(config)
  BY DEF TypeOK
<1>2. config.num_sets \in Sizes /\ config.num_blocks \in Sizes /\ config.num_bytes \in Sizes
  BY <1>1 DEF Commands
<1>3. config.num_sets > 0 /\ config.num_blocks > 0 /\ config.num_bytes >= 4
  BY <1>1 DEF Accepted, isPowerOfTwo
<1>4. Word \in Nat \ {0} /\ \A n \in Sizes : n \in Nat /\ n < Word
  BY WordAssumption, SizesAssumption
<1>5. /\ config.num_sets \in Nat /\ config.num_sets < Word
      /\ config.num_blocks \in Nat /\ config.num_blocks < Word
      /\ config.num_bytes \in Nat /\ config.num_bytes < Word
  BY <1>2, <1>4
<1> QED  BY <1>3, <1>4, <1>5 DEF Indexes, Places

\* The set, the tag and the timestamp of an access are in range.
LEMMA WhereItGoes ==
  ASSUME TypeOK, NEW address \in Addresses
  PROVE  /\ Index(address) \in Indexes
         /\ Tag(address) \in 0..(Word - 1)
         /\ NextStamp \in 0..(Word - 1)
         /\ sets \in [Indexes -> [Places -> Slot]]
         /\ used \in [Indexes -> [Places -> 0..now]]
         /\ Slots(address) \in [Places -> Slot]
<1>0. /\ address \in 0..(Word - 1) /\ Word \in Nat \ {0}
      /\ config.num_sets \in Nat \ {0} /\ config.num_bytes \in Nat \ {0}
  BY Shape, WordAssumption
<1>1. Index(address) \in Indexes
  <2>1. address \div config.num_bytes \in Nat
    BY <1>0, Quotient
  <2> QED  BY <1>0, <2>1, Shape DEF Index
<1>2. Tag(address) \in 0..(Word - 1)
  <2> DEFINE unit == config.num_sets * config.num_bytes
  <2> DEFINE divisor == IF unit < Word THEN unit ELSE unit \div Word
  <2>1. unit \in Nat \ {0}
    BY <1>0
  <2>2. divisor \in Nat \ {0}
    <3> HIDE DEF unit
    <3>1. unit >= Word => unit \div Word \in Nat \ {0}
      BY <1>0, <2>1, Quotient
    <3> QED  BY <1>0, <2>1, <3>1
  <2>3. Tag(address) = address \div divisor
    BY DEF Tag
  <2> HIDE DEF divisor
  <2>4. address \div divisor \in 0..address
    BY <1>0, <2>2, Quotient
  <2> QED  BY <1>0, <2>3, <2>4
<1>3. NextStamp \in 0..(Word - 1)
  BY <1>0 DEF NextStamp, TypeOK
<1> QED  BY <1>1, <1>2, <1>3 DEF TypeOK, Slots

\* Some slot has the smallest timestamp.
LEMMA LeastUsedExists ==
  ASSUME TypeOK, NEW address \in Addresses
  PROVE  LeastUsed(address) # {}
<1> DEFINE Stamps == {Slots(address)[k].last_used : k \in Places}
<1>1. Places # {} /\ \A k \in Places : Slots(address)[k].last_used \in Nat
  <2>1. Places # {}
    BY DEF TypeOK
  <2>2. ASSUME NEW k \in Places PROVE Slots(address)[k].last_used \in Nat
    <3>1. Slots(address)[k] \in Slot /\ Word \in Nat
      BY Shape, WhereItGoes
    <3> QED  BY <3>1 DEF Slot
  <2> QED  BY <2>1, <2>2
<1>2. Stamps \in SUBSET Nat /\ Stamps # {}
  BY <1>1
<1>3. PICK t \in Stamps : \A u \in Stamps : t <= u
  <2> HIDE DEF Stamps
  <2> QED  BY <1>2, NatHasMin
<1>4. PICK k \in Places : t = Slots(address)[k].last_used
  OBVIOUS
<1>5. k \in LeastUsed(address)
  BY <1>3, <1>4 DEF LeastUsed
<1> QED  BY <1>5

\* The slot that is found, and the one that is replaced, are slots of the set.
LEMMA WhichSlot ==
  ASSUME TypeOK, NEW address \in Addresses
  PROVE  /\ Matches(address) # {} => First(Matches(address)) \in Matches(address)
         /\ Victim(address) \in Places
<1>1. Places \in SUBSET Nat
  BY Shape
<1>2. /\ Matches(address) \in SUBSET Nat
      /\ Empty(address) \in SUBSET Places
      /\ LeastUsed(address) \in SUBSET Places
  BY <1>1 DEF Matches, Empty, LeastUsed
<1>3. Victim(address) \in Places
  <2>1. Empty(address) # {} => First(Empty(address)) \in Empty(address)
    BY <1>1, <1>2, FirstIsIn
  <2>2. First(LeastUsed(address)) \in LeastUsed(address)
    BY <1>1, <1>2, LeastUsedExists, FirstIsIn
  <2> QED  BY <1>2, <2>1, <2>2 DEF Victim
<1> QED  BY <1>2, <1>3, FirstIsIn

------------------------------------------------------------------------------
(* Types *)

\* Putting a slot in its place, and giving it the stamp of this access.
LEMMA PutKeepsTypes ==
  ASSUME TypeOK, NEW address \in Addresses, NEW k \in Places, NEW slot \in Slot,
         Tick, Put(address, k, slot), Stamped(address, k) \/ UNCHANGED used
  PROVE  /\ sets' \in [Indexes' -> [Places' -> Slot]]
         /\ used' \in [Indexes' -> [Places' -> 0..now']]
         /\ timestamp' \in 0..(Word - 1)
         /\ now' \in 0..MaxAccesses
         /\ config' = config /\ Indexes' = Indexes /\ Places' = Places
<1>1. config' = config /\ Indexes' = Indexes /\ Places' = Places
  BY DEF Tick, Indexes, Places
<1>2. /\ now \in 0..MaxAccesses /\ now' = now + 1 /\ now' \in 0..MaxAccesses
      /\ timestamp' \in 0..(Word - 1)
  BY WhereItGoes, MaxAccessesAssumption DEF Tick, TypeOK
<1>3. sets' \in [Indexes -> [Places -> Slot]]
  BY WhereItGoes DEF Put
<1>4. used' \in [Indexes -> [Places -> 0..now']]
  <2>1. used \in [Indexes -> [Places -> 0..now']]
    <3>1. \A i \in Indexes : used[i] \in [Places -> 0..now]
      BY WhereItGoes
    <3>2. \A i \in Indexes : used[i] \in [Places -> 0..now']
      BY <1>2, <3>1
    <3> QED  BY <3>2, WhereItGoes
  <2>2. now + 1 \in 0..now'
    BY <1>2
  <2>3. ASSUME Stamped(address, k) PROVE used' \in [Indexes -> [Places -> 0..now']]
    <3> DEFINE i == Index(address)
    <3> DEFINE row == [used[i] EXCEPT ![k] = now + 1]
    <3>1. used' = [used EXCEPT ![i] = row]
      BY <2>3 DEF Stamped
    <3>2. i \in Indexes
      BY WhereItGoes
    <3>3. row \in [Places -> 0..now']
      BY <2>1, <2>2, <3>2
    <3> HIDE DEF i, row
    <3> QED  BY <2>1, <3>1, <3>2, <3>3
  <2> QED  BY <2>1, <2>3
<1> QED  BY <1>1, <1>2, <1>3, <1>4

Kinds == {"load_hits", "load_misses", "store_hits", "store_misses"}

\* Costs are cut to a word before they are added.
LEMMA CountKeepsTypes ==
  ASSUME TypeOK, NEW kind \in Kinds, NEW cycles \in Int, Count(kind, cycles)
  PROVE  stats' \in [Kinds \cup {"total_cycles"} -> Nat]
<1> DEFINE cost == cycles % Word
<1> DEFINE totals == Kinds \cup {"total_cycles"}
<1>1. cost \in Nat
  BY Shape
<1>2. stats \in [totals -> Nat]
  BY DEF TypeOK, Kinds
<1>3. stats' = [stats EXCEPT ![kind] = @ + 1, !["total_cycles"] = @ + cost]
  BY DEF Count
<1>4. kind \in totals /\ "total_cycles" \in totals
  OBVIOUS
<1> HIDE DEF cost, totals
<1>5. stats' \in [totals -> Nat]
  BY <1>1, <1>2, <1>3, <1>4
<1> QED  BY <1>5 DEF totals

\* Every accepted command line makes a cache with a slot in every set.
LEMMA TypeInitially == Init => TypeOK
<1> SUFFICES ASSUME Init PROVE TypeOK
  OBVIOUS
<1>1. config \in Commands /\ Accepted(config)
  BY DEF Init
<1>2. config.num_sets \in Sizes /\ config.num_blocks \in Sizes
  BY <1>1 DEF Commands
<1>3. config.num_sets > 0 /\ config.num_blocks > 0
  BY <1>1 DEF Accepted, isPowerOfTwo
<1>4. 0 \in Indexes /\ 0 \in Places
  <2>1. \A n \in Sizes : n \in Nat
    BY WordAssumption, SizesAssumption
  <2> QED  BY <1>2, <1>3, <2>1 DEF Indexes, Places
<1>5. EmptySlot \in Slot
  BY WordAssumption DEF EmptySlot, Slot
<1> QED  BY <1>1, <1>4, <1>5, WordAssumption, MaxAccessesAssumption DEF Init, TypeOK

\* Types are kept by an access that finds its block,
LEMMA HitKeepsTypes ==
  ASSUME TypeOK, NEW address \in Addresses, NEW is_store \in BOOLEAN,
         Hit(address, is_store)
  PROVE  TypeOK'
<1> DEFINE k == First(Matches(address))
<1> DEFINE slot == Mark(Touch(Slots(address)[k]), is_store)
<1>1. k \in Places /\ Slots(address)[k] \in Slot
  BY WhereItGoes, WhichSlot DEF Hit, Matches
<1>2. slot \in Slot
  <2>1. Touch(Slots(address)[k]) \in Slot
    BY <1>1, WhereItGoes DEF Touch, Slot
  <2> QED  BY <2>1 DEF Mark, Slot
<1>3. Tick /\ Put(address, k, slot) /\ (Stamped(address, k) \/ UNCHANGED used)
  BY DEF Hit
<1> HIDE DEF k, slot
<1>4. stats' \in [Kinds \cup {"total_cycles"} -> Nat]
  <2>1. \E kind \in Kinds, cycles \in Int : Count(kind, cycles)
    BY DEF Hit, Kinds
  <2> QED  BY <2>1, CountKeepsTypes
<1> QED  BY <1>1, <1>2, <1>3, <1>4, PutKeepsTypes DEF TypeOK, Accepted, Kinds

\* ... by a store that goes to memory alone,
LEMMA BypassKeepsTypes ==
  ASSUME TypeOK, NEW address \in Addresses, StoreBypasses(address)
  PROVE  TypeOK'
<1>1. /\ config' = config /\ Indexes' = Indexes /\ Places' = Places
      /\ sets' = sets /\ used' = used /\ now' = now + 1
      /\ now \in 0..MaxAccesses /\ now' \in 0..MaxAccesses
      /\ timestamp' \in 0..(Word - 1)
  BY WhereItGoes, MaxAccessesAssumption DEF StoreBypasses, Tick, Indexes, Places, TypeOK
<1>2. stats' \in [Kinds \cup {"total_cycles"} -> Nat]
  <2>1. Count("store_misses", 100) /\ "store_misses" \in Kinds
    BY DEF StoreBypasses, Kinds
  <2> QED  BY <2>1, CountKeepsTypes
<1>3. used' \in [Indexes -> [Places -> 0..now']]
  <2>1. \A i \in Indexes : used[i] \in [Places -> 0..now']
    BY <1>1, WhereItGoes
  <2> QED  BY <1>1, <2>1, WhereItGoes
<1> QED  BY <1>1, <1>2, <1>3 DEF TypeOK, Accepted, Kinds

\* ... and by an access that brings its block in.
LEMMA AllocateKeepsTypes ==
  ASSUME TypeOK, NEW address \in Addresses, NEW is_store \in BOOLEAN,
         Allocate(address, is_store)
  PROVE  TypeOK'
<1> DEFINE k == Victim(address)
<1> DEFINE slot == Filled(address, is_store)
<1>1. k \in Places
  BY WhichSlot
<1>2. slot \in Slot
  BY WhereItGoes DEF Filled, Slot
<1>3. Tick /\ Put(address, k, slot) /\ Stamped(address, k)
  BY DEF Allocate
<1>4. stats' \in [Kinds \cup {"total_cycles"} -> Nat]
  <2> DEFINE cost == 1 + BlockCycles + extra_cycles(address)
  <2>1. BlockCycles \in Int
    <3>1. config.num_bytes \div 4 \in Nat
      BY Shape, Quotient
    <3> QED  BY <3>1, Shape DEF BlockCycles
  <2>2. cost \in Int
    BY <2>1 DEF extra_cycles
  <2>3. \/ Count("store_misses", cost + 100)
        \/ Count("store_misses", cost + 1)
        \/ Count("load_misses", cost)
    BY DEF Allocate
  <2>4. "store_misses" \in Kinds /\ "load_misses" \in Kinds
    BY DEF Kinds
  <2> HIDE DEF cost
  <2> QED  BY <2>2, <2>3, <2>4, CountKeepsTypes
<1> HIDE DEF k, slot
<1> QED  BY <1>1, <1>2, <1>3, <1>4, PutKeepsTypes DEF TypeOK, Accepted, Kinds

\* Types are kept by every step.
LEMMA TypePreserved == TypeOK /\ [Next]_vars => TypeOK'
<1> SUFFICES ASSUME TypeOK, [Next]_vars PROVE TypeOK'
  OBVIOUS
<1>1. CASE Next
  <2>1. PICK address \in Addresses, is_store \in BOOLEAN : Access(address, is_store)
    BY <1>1 DEF Next
  <2>2. CASE Hit(address, is_store)
    BY <2>2, HitKeepsTypes
  <2>3. CASE StoreBypasses(address)
    BY <2>3, BypassKeepsTypes
  <2>4. CASE Allocate(address, is_store)
    BY <2>4, AllocateKeepsTypes
  <2> QED  BY <2>1, <2>2, <2>3, <2>4 DEF Access
<1>2. CASE UNCHANGED vars
  BY <1>2 DEF vars, TypeOK, Commands, Accepted, Indexes, Places
<1> QED  BY <1>1, <1>2

\* The variables keep to their types for any word, sizes, policies and traces.
\* In particular every access finds its set and a slot of it: main refuses the
\* command lines that would make accessCache index an empty vector.
THEOREM TypeCorrect == Spec => []TypeOK
<1>1. TypeOK /\ [Next]_vars => TypeOK'
  BY TypePreserved
<1> QED  BY <1>1, TypeInitially, PTL DEF Spec

------------------------------------------------------------------------------
(* One slot for a block *)

\* A block is put only where it was, or where no other slot of its set has it.
LEMMA PutKeepsApart ==
  ASSUME TypeOK, OneSlotPerBlock, NEW address \in Addresses, NEW k \in Places,
         NEW slot \in Slot, Tick, Put(address, k, slot),
         \A j \in Places \ {k} :
           ~ (Slots(address)[j].valid /\ slot.valid /\ Slots(address)[j].tag = slot.tag)
  PROVE  OneSlotPerBlock'
<1> DEFINE i == Index(address)
<1>1. Indexes' = Indexes /\ Places' = Places
  BY DEF Tick, Indexes, Places
<1>2. i \in Indexes /\ sets \in [Indexes -> [Places -> Slot]]
  BY WhereItGoes
<1>3. /\ sets'[i][k] = slot
      /\ \A j \in Places \ {k} : sets'[i][j] = sets[i][j]
      /\ \A n \in Indexes \ {i} : sets'[n] = sets[n]
  BY <1>2 DEF Put
<1>4. \A j \in Places \ {k} :
        ~ (sets[i][j].valid /\ slot.valid /\ sets[i][j].tag = slot.tag)
  BY DEF Slots
<1> HIDE DEF i
<1> QED  BY <1>1, <1>2, <1>3, <1>4 DEF OneSlotPerBlock

\* No step gives a block a second slot.
LEMMA OneSlotPreserved == TypeOK /\ OneSlotPerBlock /\ [Next]_vars => OneSlotPerBlock'
<1> SUFFICES ASSUME TypeOK, OneSlotPerBlock, [Next]_vars PROVE OneSlotPerBlock'
  OBVIOUS
<1>1. ASSUME NEW address \in Addresses, NEW is_store \in BOOLEAN, Hit(address, is_store)
      PROVE  OneSlotPerBlock'
  <2> DEFINE k == First(Matches(address))
  <2> DEFINE slot == Mark(Touch(Slots(address)[k]), is_store)
  <2>1. k \in Places /\ Slots(address)[k] \in Slot
    BY <1>1, WhereItGoes, WhichSlot DEF Hit, Matches
  <2>2. /\ slot \in Slot
        /\ slot.valid = Slots(address)[k].valid /\ slot.tag = Slots(address)[k].tag
    BY <2>1, WhereItGoes DEF Touch, Mark, Slot
  <2>3. Tick /\ Put(address, k, slot)
    BY <1>1 DEF Hit
  <2> HIDE DEF k, slot
  <2>4. \A j \in Places \ {k} :
          ~ (Slots(address)[j].valid /\ slot.valid /\ Slots(address)[j].tag = slot.tag)
    BY <2>1, <2>2, WhereItGoes DEF OneSlotPerBlock, Slots
  <2> QED  BY <2>1, <2>2, <2>3, <2>4, PutKeepsApart
<1>2. ASSUME NEW address \in Addresses, StoreBypasses(address)
      PROVE  OneSlotPerBlock'
  BY <1>2 DEF StoreBypasses, Tick, OneSlotPerBlock, Indexes, Places
<1>3. ASSUME NEW address \in Addresses, NEW is_store \in BOOLEAN,
             Allocate(address, is_store)
      PROVE  OneSlotPerBlock'
  <2> DEFINE k == Victim(address)
  <2> DEFINE slot == Filled(address, is_store)
  <2>1. k \in Places
    BY WhichSlot
  <2>2. slot \in Slot /\ slot.tag = Tag(address)
    BY WhereItGoes DEF Filled, Slot
  <2>3. Tick /\ Put(address, k, slot) /\ Matches(address) = {}
    BY <1>3 DEF Allocate
  <2> HIDE DEF k, slot
  <2>4. \A j \in Places : ~ (Slots(address)[j].valid /\ Slots(address)[j].tag = slot.tag)
    BY <2>2, <2>3 DEF Matches
  <2> QED  BY <2>1, <2>2, <2>3, <2>4, PutKeepsApart
<1>4. CASE UNCHANGED vars
  BY <1>4 DEF vars, OneSlotPerBlock, Indexes, Places
<1> QED  BY <1>1, <1>2, <1>3, <1>4 DEF Next, Access

\* No block ever has two slots, whatever the trace and the policies: a store
\* cannot mark one copy while another is found or replaced.
THEOREM OneSlot == Spec => []OneSlotPerBlock
<1>1. Init => OneSlotPerBlock
  BY DEF Init, OneSlotPerBlock, EmptySlot
<1>2. TypeOK /\ OneSlotPerBlock /\ [Next]_vars => OneSlotPerBlock'
  BY OneSlotPreserved
<1> QED  BY <1>1, <1>2, TypeCorrect, PTL DEF Spec
------------------------------------------------------------------------------
(* The blocks in the cache *)

\* The policies main knows, and sizes and traces that keep the program's integers
\* from wrapping around.
Ordinary ==
  /\ config.write_alloc \in {"write-allocate", "no-write-allocate"}
  /\ config.write_mode \in {"write-through", "write-back"}
  /\ config.num_sets * config.num_bytes < Word
  /\ 200 * (config.num_bytes \div 4) + 101 < Word
  /\ now < Word

\* The block of an address.
Block(address) == address \div config.num_bytes

\* Whatever has the form of quotient and rest is that.
LEMMA DivModUnique ==
  ASSUME NEW d \in Nat \ {0}, NEW q \in Int, NEW r \in 0..(d - 1)
  PROVE  (q * d + r) \div d = q /\ (q * d + r) % d = r
OBVIOUS

\* Dividing by a product is dividing twice.
LEMMA DividesTwice ==
  ASSUME NEW a \in Nat, NEW m \in Nat \ {0}, NEW n \in Nat \ {0}
  PROVE  a \div (n * m) = (a \div m) \div n
<1> DEFINE q == a \div m
           r == a % m
           t == q \div n
           i == q % n
<1>1. q \in Nat /\ r \in 0..(m - 1) /\ a = q * m + r
  BY Quotient
<1>2. t \in Int /\ i \in 0..(n - 1) /\ q = t * n + i
  <2> HIDE DEF q
  <2> QED  BY <1>1
<1> HIDE DEF q, r, t, i
<1>3. i * m + r \in 0..(n * m - 1)
  <2>1. i * m <= (n - 1) * m
    BY <1>2
  <2>2. (n - 1) * m = n * m - m
    OBVIOUS
  <2>3. i * m \in Nat /\ n * m \in Nat
    BY <1>2
  <2> QED  BY <1>1, <2>1, <2>2, <2>3
<1>4. a = t * (n * m) + (i * m + r)
  <2>1. (t * n + i) * m = (t * n) * m + i * m
    BY <1>2
  <2>2. (t * n) * m = t * (n * m)
    BY <1>2
  <2>3. /\ a = (t * n + i) * m + r
        /\ (t * n) * m \in Int /\ i * m \in Int /\ r \in Int
    BY <1>1, <1>2
  <2> HIDE DEF q, r, t, i
  <2> QED  BY <2>1, <2>2, <2>3
<1>5. n * m \in Nat \ {0}
  OBVIOUS
<1>6. a \div (n * m) = t
  BY <1>2, <1>3, <1>4, <1>5, DivModUnique
<1> QED  BY <1>6 DEF t, q

\* The tag and the set of an address tell its block.
LEMMA BlockOfAddress ==
  ASSUME TypeOK, Ordinary, NEW address \in Addresses
  PROVE  /\ Block(address) \in Nat
         /\ Block(address) = Tag(address) * config.num_sets + Index(address)
         /\ Block(address) % config.num_sets = Index(address)
<1> DEFINE n == config.num_sets
           m == config.num_bytes
<1>1. n \in Nat \ {0} /\ m \in Nat \ {0} /\ address \in Nat
  BY Shape, WordAssumption
<1>2. Tag(address) = address \div (n * m)
  BY DEF Tag, Ordinary
<1>3. Tag(address) = Block(address) \div n
  BY <1>1, <1>2, DividesTwice DEF Block
<1>4. Block(address) \in Nat
  BY <1>1, Quotient DEF Block
<1>5. Index(address) = Block(address) % n
  BY DEF Index, Block
<1> HIDE DEF n
<1>6. Block(address) = (Block(address) \div n) * n + (Block(address) % n)
  BY <1>1, <1>4
<1> QED  BY <1>3, <1>4, <1>5, <1>6 DEF n

\* A slot that is taken, and the block in it.
LEMMA BlockOfSlot ==
  ASSUME TypeOK, NEW p \in Indexes \X Places
  PROVE  /\ p[1] \in Indexes /\ p[2] \in Places /\ p = <<p[1], p[2]>>
         /\ sets[p[1]][p[2]] \in Slot /\ used[p[1]][p[2]] \in 0..now
         /\ BlockIn(p) \in Nat
         /\ BlockIn(p) % config.num_sets = p[1]
         /\ BlockIn(p) \div config.num_sets = sets[p[1]][p[2]].tag
<1>1. p[1] \in Indexes /\ p[2] \in Places /\ p = <<p[1], p[2]>>
  OBVIOUS
<1>2. sets[p[1]][p[2]] \in Slot /\ used[p[1]][p[2]] \in 0..now
  BY <1>1 DEF TypeOK
<1>3. sets[p[1]][p[2]].tag \in Nat
  BY <1>2, WordAssumption DEF Slot
<1>4. config.num_sets \in Nat \ {0} /\ p[1] \in 0..(config.num_sets - 1)
  BY <1>1, Shape
<1>5. BlockIn(p) \in Nat
  BY <1>3, <1>4 DEF BlockIn
<1>6. /\ BlockIn(p) % config.num_sets = p[1]
      /\ BlockIn(p) \div config.num_sets = sets[p[1]][p[2]].tag
  <2> DEFINE t == sets[p[1]][p[2]].tag
  <2>1. t \in Int
    BY <1>3
  <2>2. BlockIn(p) = t * config.num_sets + p[1]
    BY DEF BlockIn
  <2> HIDE DEF t
  <2>3. BlockIn(p) % config.num_sets = p[1] /\ BlockIn(p) \div config.num_sets = t
    BY <1>4, <2>1, <2>2, DivModUnique
  <2> QED  BY <2>3 DEF t
<1> QED  BY <1>1, <1>2, <1>5, <1>6

\* Two slots that are taken hold different blocks.
LEMMA BlocksDiffer ==
  ASSUME TypeOK, OneSlotPerBlock, NEW p \in Taken, NEW q \in Taken, BlockIn(p) = BlockIn(q)
  PROVE  p = q
<1>1. p \in Indexes \X Places /\ q \in Indexes \X Places
  BY DEF Taken
<1>2. p[1] = q[1] /\ sets[p[1]][p[2]].tag = sets[q[1]][q[2]].tag
  BY <1>1, BlockOfSlot
<1>3. p[2] = q[2]
  BY <1>1, <1>2, BlockOfSlot DEF OneSlotPerBlock, Taken
<1> QED  BY <1>1, <1>2, <1>3, BlockOfSlot

\* The search by tag in a set finds a block exactly if it is in the cache.
LEMMA SearchFinds ==
  ASSUME TypeOK, Ordinary, NEW address \in Addresses
  PROVE  /\ \A k \in Matches(address) :
              /\ <<Index(address), k>> \in Taken
              /\ BlockIn(<<Index(address), k>>) = Block(address)
         /\ \A q \in Taken : BlockIn(q) = Block(address)
              => q[2] \in Matches(address) /\ q[1] = Index(address)
<1>1. ASSUME NEW k \in Matches(address)
      PROVE  /\ <<Index(address), k>> \in Taken
             /\ BlockIn(<<Index(address), k>>) = Block(address)
  BY WhereItGoes, BlockOfAddress DEF Matches, Slots, Taken, BlockIn
<1>2. ASSUME NEW q \in Taken, BlockIn(q) = Block(address)
      PROVE  q[2] \in Matches(address) /\ q[1] = Index(address)
  <2>1. q \in Indexes \X Places /\ sets[q[1]][q[2]].valid
    BY DEF Taken
  <2>2. q[1] = Index(address)
    BY <1>2, <2>1, BlockOfSlot, BlockOfAddress
  <2>3. sets[q[1]][q[2]].tag = Tag(address)
    <3>1. config.num_sets \in Nat \ {0} /\ Index(address) \in 0..(config.num_sets - 1)
      BY Shape, WhereItGoes
    <3>2. Tag(address) \in Int
      BY WhereItGoes
    <3>3. Block(address) \div config.num_sets = Tag(address)
      BY <3>1, <3>2, BlockOfAddress, DivModUnique
    <3> QED  BY <1>2, <2>1, <3>3, BlockOfSlot
  <2> QED  BY <2>1, <2>2, <2>3, BlockOfSlot DEF Matches, Slots
<1> QED  BY <1>1, <1>2

------------------------------------------------------------------------------
(* What a use of a slot does to the blocks *)

\* A block is put in slot p, or left there, and becomes the last to be used; the
\* block that was there, if another, is gone.
Uses(p, b, slot) ==
  /\ p \in Indexes \X Places
  /\ slot \in Slot /\ slot.valid
  /\ slot.tag * config.num_sets + p[1] = b
  /\ \A q \in Taken : BlockIn(q) = b => q = p
  /\ config' = config
  /\ sets' = [sets EXCEPT ![p[1]] = [@ EXCEPT ![p[2]] = slot]]

\* The block a slot gives up.
Out(p) == BlocksIn(Taken \cap {p})

\* Slots other than the one that is used keep what they have.
LEMMA UseEffect ==
  ASSUME TypeOK, NEW p, NEW b, NEW slot, Uses(p, b, slot)
  PROVE  /\ Taken' = Taken \cup {p}
         /\ BlockIn(p)' = b /\ (sets[p[1]][p[2]])' = slot
         /\ \A q \in Taken \ {p} :
              BlockIn(q)' = BlockIn(q) /\ (sets[q[1]][q[2]])' = sets[q[1]][q[2]]
<1>1. p \in Indexes \X Places /\ sets \in [Indexes -> [Places -> Slot]]
  BY DEF Uses, TypeOK
<1>2. Indexes' = Indexes /\ Places' = Places /\ config' = config
  BY DEF Uses, Indexes, Places
<1>3. (sets[p[1]][p[2]])' = slot
  BY <1>1 DEF Uses
<1>4. ASSUME NEW q \in (Indexes \X Places) \ {p}
      PROVE  (sets[q[1]][q[2]])' = sets[q[1]][q[2]]
  <2>1. q[1] # p[1] \/ q[2] # p[2]
    BY <1>1
  <2> QED  BY <1>1, <2>1 DEF Uses
<1>5. Taken' = Taken \cup {p}
  <2>1. Taken' = {q \in Indexes \X Places : (sets[q[1]][q[2]])'.valid}
    BY <1>2 DEF Taken
  <2> QED  BY <1>1, <1>3, <1>4, <2>1 DEF Taken, Uses
<1>6. BlockIn(p)' = b
  BY <1>2, <1>3 DEF BlockIn, Uses
<1>7. \A q \in Taken \ {p} : BlockIn(q)' = BlockIn(q)
  BY <1>2, <1>4 DEF BlockIn, Taken
<1> QED  BY <1>3, <1>4, <1>5, <1>6, <1>7 DEF Taken

\* What a slot gives up is nobody else's block.
LEMMA OutIsIts ==
  ASSUME TypeOK, OneSlotPerBlock, NEW p, NEW q \in Taken
  PROVE  BlockIn(q) \in Out(p) <=> q = p
BY BlocksDiffer DEF Out, BlocksIn

\* The blocks in the cache after a use,
LEMMA UseResident ==
  ASSUME TypeOK, OneSlotPerBlock, NEW p, NEW b, NEW slot, Uses(p, b, slot)
  PROVE  BlocksIn(Taken)' = (BlocksIn(Taken) \ Out(p)) \cup {b}
<1>1. BlocksIn(Taken)' = {BlockIn(q)' : q \in Taken'}
  BY DEF BlocksIn
<1>2. ASSUME NEW c \in BlocksIn(Taken)', c # b
      PROVE  c \in BlocksIn(Taken) \ Out(p)
  BY <1>1, <1>2, UseEffect, OutIsIts DEF BlocksIn
<1>3. ASSUME NEW c \in BlocksIn(Taken) \ Out(p)
      PROVE  c \in BlocksIn(Taken)'
  BY <1>1, <1>3, UseEffect, OutIsIts DEF BlocksIn
<1>4. b \in BlocksIn(Taken)'
  BY <1>1, UseEffect
<1> QED  BY <1>2, <1>3, <1>4

\* ... those memory has an old copy of,
LEMMA UseDirty ==
  ASSUME TypeOK, OneSlotPerBlock, NEW p, NEW b, NEW slot, Uses(p, b, slot)
  PROVE  Dirty' = (Dirty \ Out(p)) \cup (IF slot.dirty THEN {b} ELSE {})
<1> DEFINE New(q) == (sets[q[1]][q[2]])'
<1>1. Dirty' = {BlockIn(q)' : q \in {q \in Taken' : New(q).dirty}}
  BY DEF Dirty, BlocksIn
<1>2. ASSUME NEW q \in Taken', New(q).dirty
      PROVE  BlockIn(q)' \in (Dirty \ Out(p)) \cup (IF slot.dirty THEN {b} ELSE {})
  BY <1>2, UseEffect, OutIsIts DEF Dirty, BlocksIn
<1>3. ASSUME NEW c \in Dirty \ Out(p)
      PROVE  c \in Dirty'
  BY <1>1, <1>3, UseEffect, OutIsIts DEF Dirty, BlocksIn
<1>4. slot.dirty => b \in Dirty'
  BY <1>1, UseEffect
<1> HIDE DEF New
<1> QED  BY <1>1, <1>2, <1>3, <1>4

\* A pair of Older.
LEMMA OlderPair ==
  /\ \A q, r \in Taken : UsedAt(q) < UsedAt(r) => <<BlockIn(q), BlockIn(r)>> \in Older
  /\ \A x \in Older : \E q, r \in Taken :
       UsedAt(q) < UsedAt(r) /\ x = <<BlockIn(q), BlockIn(r)>>
<1>1. ASSUME NEW q \in Taken, NEW r \in Taken, UsedAt(q) < UsedAt(r)
      PROVE  <<BlockIn(q), BlockIn(r)>> \in Older
  <2> DEFINE z == <<q, r>>
  <2>1. z \in {r_1 \in Taken \X Taken : UsedAt(r_1[1]) < UsedAt(r_1[2])}
    BY <1>1
  <2> QED  BY <2>1 DEF Older
<1>2. ASSUME NEW x \in Older
      PROVE  \E q, r \in Taken : UsedAt(q) < UsedAt(r) /\ x = <<BlockIn(q), BlockIn(r)>>
  BY DEF Older
<1> QED  BY <1>1, <1>2

\* ... and the order they were used in, if the slot is stamped.
LEMMA UseOlder ==
  ASSUME TypeOK, OneSlotPerBlock, NEW p, NEW b, NEW slot, Uses(p, b, slot),
         used' = [used EXCEPT ![p[1]] = [@ EXCEPT ![p[2]] = now + 1]]
  PROVE  Older' = {x \in Older : x[1] \notin Out(p) /\ x[2] \notin Out(p)}
                    \cup ((BlocksIn(Taken) \ Out(p)) \X {b})
<1> DEFINE Rest == {x \in Older : x[1] \notin Out(p) /\ x[2] \notin Out(p)}
           Last == (BlocksIn(Taken) \ Out(p)) \X {b}
<1>1. p \in Indexes \X Places
  BY DEF Uses
<1>2. now \in Int
  BY MaxAccessesAssumption DEF TypeOK
<1>3. UsedAt(p)' = now + 1
  BY <1>1 DEF UsedAt, TypeOK
<1>4. ASSUME NEW q \in Taken \ {p}
      PROVE  UsedAt(q)' = UsedAt(q) /\ UsedAt(q) \in 0..now
  <2>1. q \in Indexes \X Places /\ (q[1] # p[1] \/ q[2] # p[2])
    BY <1>1 DEF Taken
  <2> QED  BY <1>1, <2>1, BlockOfSlot DEF UsedAt, TypeOK
<1>5. ASSUME NEW q \in Taken', NEW r \in Taken', UsedAt(q)' < UsedAt(r)'
      PROVE  <<BlockIn(q)', BlockIn(r)'>> \in Rest \cup Last
  <2>1. q # p
    BY <1>2, <1>3, <1>4, <1>5, UseEffect
  <2>2. q \in Taken /\ BlockIn(q)' = BlockIn(q) /\ BlockIn(q) \notin Out(p)
    BY <2>1, UseEffect, OutIsIts
  <2>3. CASE r = p
    BY <2>2, <2>3, UseEffect DEF BlocksIn
  <2>4. CASE r # p
    <3>1. r \in Taken /\ BlockIn(r)' = BlockIn(r) /\ BlockIn(r) \notin Out(p)
      BY <2>4, UseEffect, OutIsIts
    <3>2. UsedAt(q) < UsedAt(r)
      BY <1>4, <1>5, <2>1, <2>2, <2>4, <3>1
    <3> QED  BY <2>2, <3>1, <3>2, OlderPair
  <2> QED  BY <2>3, <2>4
<1>6. ASSUME NEW q \in Taken', NEW r \in Taken', UsedAt(q)' < UsedAt(r)'
      PROVE  <<BlockIn(q)', BlockIn(r)'>> \in Older'
  <2> DEFINE z == <<q, r>>
  <2>1. z \in {y \in Taken' \X Taken' : UsedAt(y[1])' < UsedAt(y[2])'}
    BY <1>6
  <2> QED  BY <2>1 DEF Older
<1>7. ASSUME NEW x \in Rest
      PROVE  x \in Older'
  <2>1. PICK q, r \in Taken : UsedAt(q) < UsedAt(r) /\ x = <<BlockIn(q), BlockIn(r)>>
    BY OlderPair
  <2>2. q # p /\ r # p
    BY <2>1, OutIsIts
  <2> QED  BY <1>4, <1>6, <2>1, <2>2, UseEffect
<1>8. ASSUME NEW x \in Last
      PROVE  x \in Older'
  <2>1. PICK q \in Taken : x = <<BlockIn(q), b>> /\ BlockIn(q) \notin Out(p)
    BY DEF BlocksIn
  <2>2. q # p
    BY <2>1, OutIsIts
  <2>3. UsedAt(q)' < UsedAt(p)'
    BY <1>2, <1>3, <1>4, <2>2
  <2> QED  BY <1>6, <2>1, <2>2, <2>3, UseEffect
<1>9. ASSUME NEW x \in Older'
      PROVE  x \in Rest \cup Last
  <2>1. PICK q, r \in Taken' :
          UsedAt(q)' < UsedAt(r)' /\ x = <<BlockIn(q)', BlockIn(r)'>>
    BY DEF Older
  <2> QED  BY <1>5, <2>1
<1> HIDE DEF Rest, Last
<1>10. Older' = Rest \cup Last
  BY <1>7, <1>8, <1>9
<1> QED  BY <1>10 DEF Rest, Last

------------------------------------------------------------------------------
(* Every access is one of the reference cache *)

\* Timestamps are those accesses have, and only a cache that writes back has
\* dirty slots.
StampsExact ==
  timestamp = now /\ \A i \in Indexes, k \in Places : sets[i][k].last_used = used[i][k]

DirtyWritesBack ==
  \A i \in Indexes, k \in Places : sets[i][k].dirty => config.write_mode = "write-back"

RefInv == TypeOK /\ OneSlotPerBlock /\ StampsExact /\ DirtyWritesBack

\* Cardinality means the same in both modules.
LEMMA SameCardinality == \A S : Reference!Cardinality(S) = Cardinality(S)
BY DEF Cardinality, Reference!Cardinality, IsFiniteSet, Reference!IsFiniteSet

\* The rivals of a block are as many as the slots that are taken in its set.
LEMMA RivalsFillPlaces ==
  ASSUME TypeOK, OneSlotPerBlock, Ordinary, NEW address \in Addresses
  PROVE  LET R == Reference!Rivals(Block(address)) IN
         /\ Empty(address) # {} => Cardinality(R) < config.num_blocks
         /\ Empty(address) = {} => Cardinality(R) = config.num_blocks
<1> DEFINE i == Index(address)
           V == Places \ Empty(address)
           R == Reference!Rivals(Block(address))
           f == [k \in V |-> BlockIn(<<i, k>>)]
<1>1. i \in Indexes /\ \A k \in V : <<i, k>> \in Taken
  BY WhereItGoes DEF Empty, Slots, Taken
<1>2. R = {c \in BlocksIn(Taken) : c % config.num_sets = i}
  BY BlockOfAddress DEF Reference!Rivals
<1>3. f \in [V -> R]
  <2> SUFFICES ASSUME NEW k \in V PROVE BlockIn(<<i, k>>) \in R
    OBVIOUS
  <2>1. <<i, k>> \in Taken /\ <<i, k>> \in Indexes \X Places
    BY <1>1 DEF Taken
  <2>2. BlockIn(<<i, k>>) % config.num_sets = i
    BY <2>1, BlockOfSlot
  <2> QED  BY <1>2, <2>1, <2>2 DEF BlocksIn
<1>4. \A j, k \in V : f[j] = f[k] => j = k
  BY <1>1, BlocksDiffer
<1>5. \A c \in R : \E k \in V : f[k] = c
  <2> SUFFICES ASSUME NEW c \in R PROVE \E k \in V : f[k] = c
    OBVIOUS
  <2>1. PICK q \in Taken : c = BlockIn(q)
    BY <1>2 DEF BlocksIn
  <2>2. q \in Indexes \X Places /\ q[1] = i
    BY <1>2, <2>1, BlockOfSlot DEF Taken
  <2>3. q[2] \in V /\ q = <<i, q[2]>>
    BY <2>2 DEF Taken, Empty, Slots
  <2> QED  BY <2>1, <2>3
<1>6. /\ config.num_blocks \in Nat \ {0} /\ Places = 0..(config.num_blocks - 1)
      /\ IsFiniteSet(Places) /\ Cardinality(Places) = config.num_blocks
  <2>1. config.num_blocks \in Nat \ {0} /\ Places = 0..(config.num_blocks - 1)
    BY Shape
  <2>2. config.num_blocks - 1 \in Int /\ ~ (0 > config.num_blocks - 1)
    BY <2>1
  <2> QED  BY <2>1, <2>2, FS_Interval
<1> HIDE DEF f, R
<1>7. ExistsBijection(V, R)
  <2>1. f \in Bijection(V, R)
    BY <1>3, <1>4, <1>5, Fun_IsBij
  <2> QED  BY <2>1 DEF ExistsBijection
<1>8. V \in SUBSET Places /\ IsFiniteSet(V)
  BY <1>6, FS_Subset
<1>9. Cardinality(R) = Cardinality(V)
  BY <1>7, <1>8, FS_Bijection
<1>10. CASE Empty(address) = {}
  BY <1>6, <1>9, <1>10 DEF R
<1>11. CASE Empty(address) # {}
  <2>1. V # Places
    BY <1>11 DEF Empty
  <2>2. Cardinality(V) <= Cardinality(Places) /\ Cardinality(V) # Cardinality(Places)
    BY <1>6, <1>8, <2>1, FS_Subset
  <2>3. Cardinality(V) \in Nat
    BY <1>8, FS_CardinalityType
  <2> QED  BY <1>6, <1>9, <1>11, <2>2, <2>3 DEF R
<1> QED  BY <1>10, <1>11 DEF R

\* The costs of an access are below the wrap.
LEMMA Costs ==
  ASSUME TypeOK, Ordinary
  PROVE  /\ config.num_bytes \div 4 \in Nat
         /\ BlockCycles = 100 * (config.num_bytes \div 4)
         /\ \A c \in 0..(200 * (config.num_bytes \div 4) + 101) : c % Word = c
<1>1. config.num_bytes \div 4 \in Nat
  BY Shape, Quotient
<1> DEFINE w == config.num_bytes \div 4
<1> HIDE DEF w
<1>2. w \in Nat /\ 200 * w + 101 < Word /\ Word \in Nat \ {0}
  BY <1>1, Shape DEF Ordinary, w
<1>3. (w * 100) % Word = 100 * w /\ \A c \in 0..(200 * w + 101) : c % Word = c
  BY <1>2
<1> QED  BY <1>1, <1>3 DEF w, BlockCycles

\* Counting an access.
LEMMA CountIs ==
  ASSUME TypeOK, Ordinary, NEW kind \in Kinds,
         NEW cycles \in 0..(200 * (config.num_bytes \div 4) + 101), Count(kind, cycles)
  PROVE  /\ stats'.total_cycles = stats.total_cycles + cycles
         /\ kind \in {"load_hits", "store_hits"} =>
              /\ stats'.load_hits + stats'.store_hits = stats.load_hits + stats.store_hits + 1
              /\ stats'.load_misses + stats'.store_misses = stats.load_misses + stats.store_misses
         /\ kind \in {"load_misses", "store_misses"} =>
              /\ stats'.load_hits + stats'.store_hits = stats.load_hits + stats.store_hits
              /\ stats'.load_misses + stats'.store_misses
                   = stats.load_misses + stats.store_misses + 1
<1>1. stats \in [Kinds \cup {"total_cycles"} -> Nat]
  BY DEF TypeOK, Kinds
<1>2. cycles % Word = cycles
  BY Costs
<1>3. stats' = [stats EXCEPT ![kind] = @ + 1, !["total_cycles"] = @ + cycles]
  BY <1>2 DEF Count
<1>4. /\ stats.load_hits \in Nat /\ stats.store_hits \in Nat
      /\ stats.load_misses \in Nat /\ stats.store_misses \in Nat
  BY <1>1 DEF Kinds
<1> QED  BY <1>1, <1>3, <1>4 DEF Kinds

\* A hit finds the block in the cache and makes it the last to be replaced, if
\* the policy is LRU.
LEMMA HitRefines ==
  ASSUME RefInv, Ordinary, NEW address \in Addresses, NEW is_store \in BOOLEAN,
         Hit(address, is_store)
  PROVE  Reference!Hit(Block(address), is_store)
<1> USE DEF RefInv
<1> DEFINE b == Block(address)
           i == Index(address)
           k == First(Matches(address))
           p == <<i, k>>
           old == sets[i][k]
           new == Mark(Touch(old), is_store)
<1>1. k \in Matches(address) /\ p \in Taken /\ BlockIn(p) = b
  BY WhichSlot, SearchFinds DEF Hit
<1>2. p \in Indexes \X Places /\ old \in Slot /\ old.valid /\ old.tag * config.num_sets + i = b
  BY <1>1, BlockOfSlot DEF Taken, BlockIn
<1>3. /\ new \in Slot /\ new.valid /\ new.tag = old.tag
      /\ new.dirty <=> old.dirty \/ (is_store /\ config.write_mode = "write-back")
  BY <1>2, WhereItGoes DEF Mark, Touch, Slot
<1>4. Uses(p, b, new)
  <2>1. \A q \in Taken : BlockIn(q) = b => q = p
    BY <1>1, BlocksDiffer
  <2>2. sets' = [sets EXCEPT ![i] = [@ EXCEPT ![k] = new]] /\ config' = config
    BY DEF Hit, Put, Tick, Slots
  <2> HIDE DEF new, i, k
  <2> QED  BY <1>2, <1>3, <2>1, <2>2 DEF Uses
<1>5. Out(p) = {b} /\ b \in BlocksIn(Taken)
  BY <1>1 DEF Out, BlocksIn
<1> HIDE DEF new, p
<1>6. BlocksIn(Taken)' = BlocksIn(Taken)
  BY <1>4, <1>5, UseResident
<1>7. Dirty' = IF is_store /\ Reference!WritesBack THEN Dirty \cup {b} ELSE Dirty
  <2>1. Dirty' = (Dirty \ {b}) \cup (IF new.dirty THEN {b} ELSE {})
    BY <1>4, <1>5, UseDirty
  <2>2. old.dirty <=> b \in Dirty
    BY <1>1, BlocksDiffer DEF Dirty, BlocksIn, p
  <2> QED  BY <1>3, <2>1, <2>2 DEF Reference!WritesBack
<1>8. Older' = IF Reference!IsLru THEN Reference!MoveToEnd(b, BlocksIn(Taken) \ {b}) ELSE Older
  <2>1. CASE config.remove_method = "lru"
    <3>1. used' = [used EXCEPT ![p[1]] = [@ EXCEPT ![p[2]] = now + 1]]
      BY <2>1 DEF Hit, Stamped, p
    <3>2. Older' = {x \in Older : x[1] \notin {b} /\ x[2] \notin {b}}
                     \cup ((BlocksIn(Taken) \ {b}) \X {b})
      BY <1>4, <1>5, <3>1, UseOlder
    <3> QED  BY <2>1, <3>2 DEF Reference!IsLru, Reference!MoveToEnd, Reference!Without
  <2>2. CASE config.remove_method # "lru"
    <3>1. used' = used
      BY <2>2 DEF Hit
    <3>2. Taken' = Taken /\ \A q \in Taken : BlockIn(q)' = BlockIn(q)
      BY <1>1, <1>4, UseEffect DEF p
    <3>3. Older' = {<<BlockIn(r[1])', BlockIn(r[2])'>> :
                      r \in {r \in Taken \X Taken : UsedAt(r[1]) < UsedAt(r[2])}}
      BY <3>1, <3>2 DEF Older, UsedAt
    <3>4. Older' = Older
      BY <3>2, <3>3 DEF Older
    <3> QED  BY <2>2, <3>4 DEF Reference!IsLru
  <2> QED  BY <2>1, <2>2
<1>9. /\ stats'.load_hits + stats'.store_hits = stats.load_hits + stats.store_hits + 1
      /\ stats'.load_misses + stats'.store_misses = stats.load_misses + stats.store_misses
      /\ stats'.total_cycles
           = stats.total_cycles + 1 + 100 * Reference!Through(is_store)
  <2> DEFINE cost == IF is_store /\ config.write_mode = "write-through" THEN 101 ELSE 1
  <2>1. \E kind \in {"load_hits", "store_hits"} : Count(kind, cost)
    BY DEF Hit
  <2>2. cost \in 0..(200 * (config.num_bytes \div 4) + 101)
    BY Costs
  <2>3. cost = 1 + 100 * Reference!Through(is_store)
    BY DEF Reference!Through, Reference!WritesBack, Ordinary
  <2>4. stats.total_cycles \in Nat /\ Reference!Through(is_store) \in {0, 1}
    BY DEF TypeOK, Reference!Through
  <2> HIDE DEF cost
  <2>5. PICK kind \in {"load_hits", "store_hits"} : Count(kind, cost)
    BY <2>1
  <2>6. kind \in Kinds
    BY DEF Kinds
  <2>7. /\ stats'.load_hits + stats'.store_hits = stats.load_hits + stats.store_hits + 1
        /\ stats'.load_misses + stats'.store_misses = stats.load_misses + stats.store_misses
        /\ stats'.total_cycles = stats.total_cycles + cost
    BY <2>2, <2>5, <2>6, CountIs
  <2> QED  BY <2>3, <2>4, <2>7
<1>10. config' = config
  BY DEF Hit, Tick
<1> QED  BY <1>5, <1>6, <1>7, <1>8, <1>9, <1>10 DEF Reference!Hit, Reference!Takes

\* A block that misses is not in the cache.
LEMMA MissIsAbsent ==
  ASSUME TypeOK, Ordinary, NEW address \in Addresses, Matches(address) = {}
  PROVE  Block(address) \notin BlocksIn(Taken)
BY SearchFinds DEF BlocksIn

\* A store that goes to memory alone changes nothing in the cache.
LEMMA BypassRefines ==
  ASSUME RefInv, Ordinary, NEW address \in Addresses, StoreBypasses(address)
  PROVE  Reference!Bypass(Block(address))
<1> USE DEF RefInv
<1>1. Block(address) \notin BlocksIn(Taken)
  BY MissIsAbsent DEF StoreBypasses
<1>2. sets' = sets /\ used' = used /\ config' = config
  BY DEF StoreBypasses, Tick
<1>3. BlocksIn(Taken)' = BlocksIn(Taken) /\ Older' = Older /\ Dirty' = Dirty
  BY <1>2 DEF BlocksIn, Older, Dirty, Taken, BlockIn, UsedAt, Indexes, Places
<1>4. /\ stats'.load_hits + stats'.store_hits = stats.load_hits + stats.store_hits
      /\ stats'.load_misses + stats'.store_misses = stats.load_misses + stats.store_misses + 1
      /\ stats'.total_cycles = stats.total_cycles + 100
  <2>1. Count("store_misses", 100) /\ "store_misses" \in Kinds
    BY DEF StoreBypasses, Kinds
  <2>2. 100 \in 0..(200 * (config.num_bytes \div 4) + 101)
    BY Costs
  <2> QED  BY <2>1, <2>2, CountIs
<1>5. ~Reference!Allocates
  BY DEF StoreBypasses, Reference!Allocates
<1>6. stats.total_cycles \in Nat
  BY DEF TypeOK
<1> QED
  BY <1>1, <1>2, <1>3, <1>4, <1>5, <1>6 DEF Reference!Bypass, Reference!Takes

\* A block that is brought in takes an empty place, or that of the oldest of its
\* rivals.
LEMMA VictimIsOldest ==
  ASSUME RefInv, Ordinary, NEW address \in Addresses
  PROVE  LET p == <<Index(address), Victim(address)>> IN
         /\ p \in Indexes \X Places
         /\ Empty(address) # {} => p \notin Taken
         /\ Empty(address) = {} =>
              p \in Taken /\ BlockIn(p) \in Reference!Oldest(Reference!Rivals(Block(address)))
<1> USE DEF RefInv
<1> DEFINE i == Index(address)
           k == Victim(address)
           p == <<i, k>>
           R == Reference!Rivals(Block(address))
<1>1. p \in Indexes \X Places
  BY WhereItGoes, WhichSlot
<1>2. Places \in SUBSET Nat
  BY Shape
<1>3. CASE Empty(address) # {}
  <2>1. k \in Empty(address)
    BY <1>2, <1>3, FirstIsIn DEF Victim, Empty
  <2>2. p \notin Taken
    BY <2>1 DEF Taken, Empty, Slots
  <2> QED  BY <1>1, <1>3, <2>2
<1>4. CASE Empty(address) = {}
  <2>1. p \in Taken
    BY <1>1, <1>4 DEF Taken, Empty, Slots
  <2>2. k \in LeastUsed(address)
    BY <1>1, <1>4, LeastUsedExists, FirstIsIn, <1>2 DEF Victim, LeastUsed
  <2>3. BlockIn(p) \in R
    <3>1. BlockIn(p) % config.num_sets = i
      BY <1>1, BlockOfSlot
    <3> QED  BY <2>1, <3>1, BlockOfAddress DEF Reference!Rivals, BlocksIn
  <2>4. ASSUME NEW c \in R, <<c, BlockIn(p)>> \in Older
        PROVE  FALSE
    <3>1. PICK q, r \in Taken :
            UsedAt(q) < UsedAt(r) /\ <<c, BlockIn(p)>> = <<BlockIn(q), BlockIn(r)>>
      BY <2>4, OlderPair
    <3>2. r = p /\ c = BlockIn(q)
      BY <2>1, <3>1, BlocksDiffer
    <3>3. q \in Indexes \X Places /\ q[1] = i
      BY <3>2, BlockOfSlot, BlockOfAddress DEF Reference!Rivals, Taken
    <3>4. sets[i][k].last_used <= sets[i][q[2]].last_used
      BY <2>2, <3>3 DEF LeastUsed, Slots
    <3>5. used[i][k] <= used[i][q[2]] /\ used[i][q[2]] < used[i][k]
      BY <1>1, <3>1, <3>2, <3>3, <3>4 DEF StampsExact, UsedAt
    <3>6. used[i][k] \in Int /\ used[i][q[2]] \in Int
      BY <1>1, <3>3, BlockOfSlot
    <3> QED  BY <3>5, <3>6
  <2> HIDE DEF p, R
  <2>5. BlockIn(p) \in Reference!Oldest(R)
    BY <2>3, <2>4 DEF Reference!Oldest
  <2> QED  BY <1>1, <1>4, <2>1, <2>5 DEF p, R
<1> QED  BY <1>1, <1>3, <1>4

\* A miss that allocates brings the block in.
LEMMA AllocateBrings ==
  ASSUME RefInv, Ordinary, NEW address \in Addresses, NEW is_store \in BOOLEAN,
         Allocate(address, is_store)
  PROVE  Reference!Bring(Block(address), is_store, Out(<<Index(address), Victim(address)>>))
<1> USE DEF RefInv
<1> DEFINE b == Block(address)
           i == Index(address)
           k == Victim(address)
           p == <<i, k>>
           new == Filled(address, is_store)
           w == config.num_bytes \div 4
<1>1. b \notin BlocksIn(Taken)
  BY MissIsAbsent DEF Allocate
<1>2. is_store => Reference!Allocates
  BY DEF Allocate, Ordinary, Reference!Allocates
<1>3. Uses(p, b, new)
  <2>1. p \in Indexes \X Places
    BY VictimIsOldest
  <2>2. /\ new \in Slot /\ new.valid
        /\ new.tag * config.num_sets + i = b
    BY WhereItGoes, BlockOfAddress DEF Filled, Slot
  <2>3. \A q \in Taken : BlockIn(q) = b => q = p
    BY <1>1 DEF BlocksIn
  <2>4. sets' = [sets EXCEPT ![i] = [@ EXCEPT ![k] = new]] /\ config' = config
    BY DEF Allocate, Put, Tick
  <2> HIDE DEF new, i, k
  <2> QED  BY <2>1, <2>2, <2>3, <2>4 DEF Uses
<1>4. new.dirty <=> is_store /\ Reference!WritesBack
  BY DEF Filled, Reference!WritesBack
<1>5. used' = [used EXCEPT ![p[1]] = [@ EXCEPT ![p[2]] = now + 1]]
  BY DEF Allocate, Stamped
<1>6. Out(p) \in SUBSET BlocksIn(Taken)
  BY DEF Out, BlocksIn
<1>7. extra_cycles(address) = 100 * (w * Cardinality(Out(p) \cap Dirty))
  <2>1. CASE Empty(address) # {}
    <3>1. Out(p) = {}
      BY <2>1, VictimIsOldest DEF Out, BlocksIn
    <3>2. Cardinality(Out(p) \cap Dirty) = 0
      BY <3>1, FS_EmptySet
    <3> QED  BY <2>1, <3>2, Costs DEF extra_cycles
  <2>2. CASE Empty(address) = {}
    <3>1. p \in Taken /\ p \in Indexes \X Places
      BY <2>2, VictimIsOldest
    <3>2. Out(p) = {BlockIn(p)}
      BY <3>1 DEF Out, BlocksIn
    <3>3. BlockIn(p) \in Dirty <=> sets[i][k].dirty
      BY <3>1, BlocksDiffer DEF Dirty, BlocksIn
    <3>4. CASE sets[i][k].dirty
      <4>1. Cardinality(Out(p) \cap Dirty) = 1
        <5>1. Out(p) \cap Dirty = {BlockIn(p)}
          BY <3>2, <3>3, <3>4
        <5> QED  BY <5>1, FS_Singleton
      <4>2. config.write_mode = "write-back"
        BY <3>1, <3>4 DEF DirtyWritesBack
      <4> QED  BY <2>2, <3>4, <4>1, <4>2, Costs DEF extra_cycles, Slots
    <3>5. CASE ~sets[i][k].dirty
      <4>1. Out(p) \cap Dirty = {}
        BY <3>2, <3>3, <3>5
      <4>2. Cardinality(Out(p) \cap Dirty) = 0
        BY <4>1, FS_EmptySet
      <4> QED  BY <2>2, <3>5, <4>2, Costs DEF extra_cycles, Slots
    <3> QED  BY <3>4, <3>5
  <2> QED  BY <2>1, <2>2
<1>8. Cardinality(Out(p) \cap Dirty) \in {0, 1}
  <2>1. IsFiniteSet({p})
    BY FS_Singleton
  <2>2. Out(p) = {} \/ \E c : Out(p) = {c}
    BY DEF Out, BlocksIn
  <2>3. Out(p) \cap Dirty = {} \/ \E c : Out(p) \cap Dirty = {c}
    BY <2>2
  <2> QED  BY <2>3, FS_EmptySet, FS_Singleton
<1> HIDE DEF new, p
<1>9. /\ stats'.load_hits + stats'.store_hits = stats.load_hits + stats.store_hits
      /\ stats'.load_misses + stats'.store_misses = stats.load_misses + stats.store_misses + 1
      /\ stats'.total_cycles
           = stats.total_cycles + (IF is_store /\ Reference!WritesBack THEN 2 ELSE 1)
               + 100 * (w * (1 + Cardinality(Out(p) \cap Dirty)) + Reference!Through(is_store))
  <2> DEFINE cost == 1 + BlockCycles + extra_cycles(address)
             total == IF is_store THEN IF config.write_mode = "write-through"
                                       THEN cost + 100 ELSE cost + 1
                      ELSE cost
             card == Cardinality(Out(p) \cap Dirty)
  <2>1. \E kind \in {"load_misses", "store_misses"} : Count(kind, total)
    BY DEF Allocate
  <2>2. w \in Nat /\ BlockCycles = 100 * w /\ card \in {0, 1}
    BY <1>8, Costs
  <2>3. cost = 1 + 100 * w + 100 * (w * card)
    BY <1>7, <2>2
  <2>4. card = 1 => config.write_mode = "write-back"
    <3>1. extra_cycles(address) # 0 => config.write_mode = "write-back"
      BY DEF extra_cycles
    <3>2. w # 0
      <4>1. config.num_bytes >= 4 /\ config.num_bytes \in Nat
        BY Shape
      <4> QED  BY <4>1, Quotient
    <3> QED  BY <1>7, <2>2, <3>1, <3>2
  <2>5. config.write_mode = "write-through" \/ config.write_mode = "write-back"
    BY DEF Ordinary
  <2>6. Reference!Through(is_store)
          = IF is_store /\ config.write_mode = "write-through" THEN 1 ELSE 0
    BY <2>5 DEF Reference!Through, Reference!WritesBack
  <2> HIDE DEF w, cost, card
  <2>7. total \in 0..(200 * w + 101)
    BY <2>2, <2>3, <2>4, <2>5
  <2>8. total = (IF is_store /\ config.write_mode = "write-back" THEN 2 ELSE 1)
               + 100 * (w * (1 + card) + Reference!Through(is_store))
    BY <2>2, <2>3, <2>5, <2>6
  <2> HIDE DEF total
  <2>9. PICK kind \in {"load_misses", "store_misses"} : Count(kind, total)
    BY <2>1
  <2>10. kind \in Kinds
    BY DEF Kinds
  <2>11. /\ stats'.load_hits + stats'.store_hits = stats.load_hits + stats.store_hits
         /\ stats'.load_misses + stats'.store_misses
              = stats.load_misses + stats.store_misses + 1
         /\ stats'.total_cycles = stats.total_cycles + total
    BY <2>7, <2>9, <2>10, CountIs DEF w
  <2>12. stats.total_cycles \in Nat
    BY DEF TypeOK
  <2>13. total \in Nat /\ w * (1 + card) \in Nat /\ Reference!Through(is_store) \in Nat
    BY <2>2, <2>6, <2>7
  <2> QED  BY <2>8, <2>11, <2>12, <2>13 DEF card, Reference!WritesBack
<1>10. /\ BlocksIn(Taken)' = (BlocksIn(Taken) \ Out(p)) \cup {b}
       /\ Dirty' = (Dirty \ Out(p))
                     \cup (IF is_store /\ Reference!WritesBack THEN {b} ELSE {})
       /\ Older' = {x \in Older : x[1] \notin Out(p) /\ x[2] \notin Out(p)}
                     \cup ((BlocksIn(Taken) \ Out(p)) \X {b})
  BY <1>3, <1>4, <1>5, UseResident, UseDirty, UseOlder
<1>11. config' = config
  BY DEF Allocate, Tick
<1> QED
  BY <1>1, <1>2, <1>9, <1>10, <1>11, SameCardinality
     DEF Reference!Bring, Reference!Takes, Reference!WordsPerBlock, p

\* So an access is a step of the reference cache.
LEMMA AccessRefines ==
  ASSUME RefInv, Ordinary, NEW address \in Addresses, NEW is_store \in BOOLEAN,
         Access(address, is_store)
  PROVE  Reference!Access(Block(address), is_store)
<1>1. CASE Hit(address, is_store)
  BY <1>1, HitRefines DEF Reference!Access
<1>2. CASE is_store /\ StoreBypasses(address)
  BY <1>2, BypassRefines DEF Reference!Access
<1>3. CASE Allocate(address, is_store)
  <2> DEFINE p == <<Index(address), Victim(address)>>
             R == Reference!Rivals(Block(address))
  <2>1. Reference!Bring(Block(address), is_store, Out(p))
    BY <1>3, AllocateBrings
  <2>2. CASE Empty(address) # {}
    <3>1. Out(p) = {}
      BY <2>2, VictimIsOldest DEF Out, BlocksIn
    <3>2. Cardinality(R) < config.num_blocks
      BY <2>2, RivalsFillPlaces DEF RefInv
    <3> QED  BY <2>1, <3>1, <3>2, SameCardinality DEF Reference!Access, Reference!Fill
  <2>3. CASE Empty(address) = {}
    <3>1. Out(p) = {BlockIn(p)} /\ BlockIn(p) \in Reference!Oldest(R)
      BY <2>3, VictimIsOldest DEF Out, BlocksIn
    <3>2. Cardinality(R) = config.num_blocks
      BY <2>3, RivalsFillPlaces DEF RefInv
    <3> QED  BY <2>1, <3>1, <3>2, SameCardinality DEF Reference!Access, Reference!Replace
  <2> QED  BY <2>2, <2>3
<1> QED  BY <1>1, <1>2, <1>3 DEF Access

\* A slot that is put in its place has the stamp it is said to have, and is dirty
\* only if the cache writes back.
LEMMA PutKeepsStamps ==
  ASSUME TypeOK, StampsExact, DirtyWritesBack, NEW address \in Addresses,
         NEW k \in Places, NEW slot \in Slot, Tick, now' < Word, Put(address, k, slot),
         \/ Stamped(address, k) /\ slot.last_used = NextStamp
         \/ used' = used /\ slot.last_used = Slots(address)[k].last_used,
         slot.dirty => config.write_mode = "write-back"
  PROVE  StampsExact' /\ DirtyWritesBack'
<1> DEFINE i == Index(address)
<1>1. /\ i \in Indexes /\ sets \in [Indexes -> [Places -> Slot]]
      /\ used \in [Indexes -> [Places -> 0..now]]
  BY WhereItGoes
<1>2. config' = config /\ Indexes' = Indexes /\ Places' = Places
  BY DEF Tick, Indexes, Places
<1>3. NextStamp = now + 1 /\ timestamp' = now'
  <2>1. timestamp = now /\ now' = now + 1 /\ now \in Nat /\ Word \in Nat \ {0}
    BY Shape, MaxAccessesAssumption DEF StampsExact, Tick, TypeOK
  <2> QED  BY <2>1 DEF NextStamp, Tick
<1>4. sets'[i][k] = slot
  BY <1>1 DEF Put
<1>5. ASSUME NEW n \in Indexes, NEW j \in Places, n # i \/ j # k
      PROVE  sets'[n][j] = sets[n][j]
  BY <1>1, <1>5 DEF Put
<1>6. CASE Stamped(address, k) /\ slot.last_used = NextStamp
  <2>1. used'[i][k] = now + 1
    BY <1>1, <1>6 DEF Stamped
  <2>2. \A n \in Indexes, j \in Places : n # i \/ j # k => used'[n][j] = used[n][j]
    BY <1>1, <1>6 DEF Stamped
  <2>3. used'[i][k] = sets'[i][k].last_used
    BY <1>3, <1>4, <1>6, <2>1
  <2> HIDE DEF i
  <2>4. \A n \in Indexes, j \in Places : sets'[n][j].last_used = used'[n][j]
    BY <1>5, <2>2, <2>3 DEF StampsExact
  <2>5. \A n \in Indexes, j \in Places : sets'[n][j].dirty => config.write_mode = "write-back"
    BY <1>4, <1>5 DEF DirtyWritesBack
  <2> QED  BY <1>2, <1>3, <2>4, <2>5 DEF StampsExact, DirtyWritesBack
<1>7. CASE used' = used /\ slot.last_used = Slots(address)[k].last_used
  <2>1. slot.last_used = sets[i][k].last_used
    BY <1>7 DEF Slots
  <2>2. sets[i][k].last_used = used[i][k]
    BY <1>1 DEF StampsExact
  <2>3. sets'[i][k].last_used = used'[i][k]
    BY <1>4, <1>7, <2>1, <2>2
  <2>4. used' = used
    BY <1>7
  <2> HIDE DEF i
  <2>5. \A n \in Indexes, j \in Places : sets'[n][j].last_used = used'[n][j]
    BY <1>5, <2>3, <2>4 DEF StampsExact
  <2>6. \A n \in Indexes, j \in Places : sets'[n][j].dirty => config.write_mode = "write-back"
    BY <1>4, <1>5 DEF DirtyWritesBack
  <2> QED  BY <1>2, <1>3, <2>5, <2>6 DEF StampsExact, DirtyWritesBack
<1> QED  BY <1>6, <1>7

\* Every access keeps the stamps exact, as long as they do not wrap around.
LEMMA StampsStep ==
  ASSUME RefInv, NEW address \in Addresses, NEW is_store \in BOOLEAN,
         Access(address, is_store), now' < Word
  PROVE  StampsExact' /\ DirtyWritesBack'
<1> USE DEF RefInv
<1>1. CASE Hit(address, is_store)
  <2> DEFINE k == First(Matches(address))
             old == Slots(address)[k]
             new == Mark(Touch(old), is_store)
  <2>1. k \in Places /\ old \in Slot
    BY <1>1, WhereItGoes, WhichSlot DEF Hit, Matches
  <2>2. /\ new \in Slot
        /\ new.last_used = IF config.remove_method = "lru" THEN NextStamp ELSE old.last_used
        /\ new.dirty => old.dirty \/ config.write_mode = "write-back"
    BY <2>1, WhereItGoes DEF Touch, Mark, Slot
  <2>3. old.dirty => config.write_mode = "write-back"
    BY <2>1, WhereItGoes DEF DirtyWritesBack, Slots
  <2>4. /\ Tick /\ Put(address, k, new)
        /\ IF config.remove_method = "lru" THEN Stamped(address, k) ELSE used' = used
    BY <1>1 DEF Hit
  <2> HIDE DEF k, new
  <2> QED  BY <2>1, <2>2, <2>3, <2>4, PutKeepsStamps
<1>2. CASE StoreBypasses(address)
  <2>1. timestamp = now /\ now' = now + 1 /\ now \in Nat /\ Word \in Nat \ {0}
    BY <1>2, Shape, MaxAccessesAssumption DEF StampsExact, StoreBypasses, Tick, TypeOK
  <2>2. timestamp' = now'
    BY <1>2, <2>1 DEF StoreBypasses, Tick, NextStamp
  <2> QED
    BY <1>2, <2>2
       DEF StoreBypasses, Tick, StampsExact, DirtyWritesBack, Indexes, Places
<1>3. CASE Allocate(address, is_store)
  <2> DEFINE k == Victim(address)
             new == Filled(address, is_store)
  <2>1. k \in Places
    BY WhichSlot
  <2>2. /\ new \in Slot /\ new.last_used = NextStamp
        /\ new.dirty => config.write_mode = "write-back"
    BY WhereItGoes DEF Filled, Slot
  <2>3. Tick /\ Put(address, k, new) /\ Stamped(address, k)
    BY <1>3 DEF Allocate
  <2> HIDE DEF k, new
  <2> QED  BY <2>1, <2>2, <2>3, PutKeepsStamps
<1> QED  BY <1>1, <1>2, <1>3 DEF Access

\* The empty cache is that of the reference.
LEMMA RefInitially == Init => RefInv /\ Reference!Init
<1> SUFFICES ASSUME Init PROVE RefInv /\ Reference!Init
  OBVIOUS
<1>1. \A i \in Indexes, k \in Places : sets[i][k] = EmptySlot /\ used[i][k] = 0
  BY DEF Init
<1>2. TypeOK /\ OneSlotPerBlock
  BY <1>1, TypeInitially DEF OneSlotPerBlock, EmptySlot
<1>3. StampsExact /\ DirtyWritesBack
  BY <1>1 DEF Init, StampsExact, DirtyWritesBack, EmptySlot
<1>4. Taken = {}
  BY <1>1 DEF Taken, EmptySlot
<1>5. BlocksIn(Taken) = {} /\ Older = {} /\ Dirty = {}
  BY <1>4 DEF BlocksIn, Older, Dirty
<1>6. stats.load_hits + stats.store_hits = 0 /\ stats.load_misses + stats.store_misses = 0
  BY DEF Init
<1>7. stats.total_cycles = 0
  BY DEF Init
<1> QED  BY <1>2, <1>3, <1>5, <1>6, <1>7 DEF RefInv, Reference!Init

\* The simulator is the reference cache, step by step: for all addresses, sizes
\* and policies that main accepts and knows it hits, misses, replaces and writes
\* back as a set-associative cache does, and its cycles are those of the words
\* that are moved; as long as the program's integers do not wrap around.
THEOREM SimulatesReference == Spec /\ []Ordinary => ImplementsReference
<1>1. RefInv /\ Ordinary' /\ [Next]_vars => RefInv'
  <2> SUFFICES ASSUME RefInv, Ordinary', [Next]_vars PROVE RefInv'
    OBVIOUS
  <2>1. TypeOK' /\ OneSlotPerBlock'
    BY TypePreserved, OneSlotPreserved DEF RefInv
  <2>2. StampsExact' /\ DirtyWritesBack'
    <3>1. CASE Next
      BY <3>1, StampsStep DEF Next, Ordinary
    <3>2. CASE UNCHANGED vars
      BY <3>2 DEF vars, RefInv, StampsExact, DirtyWritesBack, Indexes, Places
    <3> QED  BY <3>1, <3>2
  <2> QED  BY <2>1, <2>2 DEF RefInv
<1>2. RefInv /\ Ordinary =>
        [\A address \in Addresses, is_store \in BOOLEAN :
           Access(address, is_store)
             => Reference!Access(address \div config.num_bytes, is_store)]_vars
  BY AccessRefines DEF Block
<1> QED  BY <1>1, <1>2, RefInitially, PTL DEF Spec, ImplementsReference

================================================================================
