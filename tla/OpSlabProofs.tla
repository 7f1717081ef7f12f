----------------------------- MODULE OpSlabProofs -----------------------------
(***************************************************************************)
(* Theorems about OpSlab, for every number of slots, every width of the    *)
(* generation and every set of payloads.                                   *)
(***************************************************************************)
EXTENDS OpSlab, FiniteSetTheorems, TLAPS

-----------------------------------------------------------------------------
(* The token layout. *)

\* A token gives back the kind, index and generation it was made of
\* (Token::new and its accessors): the masks lose nothing in range.
LEMMA TokenRoundTrip ==
  ASSUME NEW kind \in TokenKind, NEW i \in Indices, NEW g \in 0 .. GenerationMask
  PROVE  /\ Kind(NewToken(kind, i, g)) = kind
         /\ Index(NewToken(kind, i, g)) = i
         /\ Generation(NewToken(kind, i, g)) = g
<1> DEFINE x == i + MaxSlots * g
<1>1. i % MaxSlots = i /\ g % (GenerationMask + 1) = g
  BY TokenAssumption, SMT DEF Indices
<1>2. x \in Nat /\ x % MaxSlots = i /\ x \div MaxSlots = g
  BY TokenAssumption, SMT DEF Indices
<1>3. KindBit(kind) \in {0, 1}
  BY DEF KindBit
<1>4. NewToken(kind, i, g) = KindBit(kind) + 2 * x
  BY <1>1 DEF NewToken
<1> HIDE DEF x
<1>5. /\ NewToken(kind, i, g) % 2 = KindBit(kind)
      /\ NewToken(kind, i, g) \div 2 = x
  BY <1>2, <1>3, <1>4, SMT
<1>6. Kind(NewToken(kind, i, g)) = kind
  BY <1>5 DEF Kind, KindBit, TokenKind
<1> QED
  BY <1>1, <1>2, <1>5, <1>6 DEF Index, Generation

\* Whatever word arrives as user data, its index is one a token can hold
\* (Token::index masks it).
LEMMA IndexInRange ==
  ASSUME NEW t \in Words
  PROVE  Index(t) \in Indices
BY TokenAssumption, SMT DEF Words, Index, Indices

\* slab.rs:99 "no issued token is ever zero".
LEMMA NeverZero ==
  ASSUME NEW kind \in TokenKind, NEW i \in Indices, NEW g \in Generations
  PROVE  NewToken(kind, i, g) # 0
<1>1. g \in 0 .. GenerationMask /\ g # 0
  BY TokenAssumption DEF Generations, FirstGeneration
<1>2. Generation(NewToken(kind, i, g)) = g
  BY <1>1, TokenRoundTrip
<1>3. Generation(0) = 0
  BY TokenAssumption, SMT DEF Generation
<1> QED
  BY <1>1, <1>2, <1>3

-----------------------------------------------------------------------------
(* Finite sets of slots. *)

\* Every set of slot indices is finite, so it can be counted.
LEMMA IndicesFinite ==
  ASSUME NEW S, S \subseteq Indices
  PROVE  IsFiniteSet(S) /\ Cardinality(S) \in Nat
<1>1. IsFiniteSet(Indices)
  BY FS_Interval, TokenAssumption DEF Indices
<1> QED
  BY <1>1, FS_Subset, FS_CardinalityType

\* A non-empty set of slot indices has a largest one, which Max names.
LEMMA MaxIndex ==
  ASSUME NEW S, S \subseteq Indices, S # {}
  PROVE  Max(S) \in S /\ \A j \in S : j <= Max(S)
<1> DEFINE T == {n \in Nat : MaxSlots - n \in S}
<1>1. T \subseteq Nat /\ T # {}
  <2>1. PICK j \in S : TRUE
    OBVIOUS
  <2>2. MaxSlots - j \in Nat /\ MaxSlots - (MaxSlots - j) = j
    BY TokenAssumption DEF Indices
  <2> QED
    BY <2>1, <2>2
<1>2. PICK n \in T : \A m \in T : ~(<<m, n>> \in OpToRel(<, Nat))
  BY <1>1, NatLessThanWellFounded, WFMin
<1>3. \A m \in T : n <= m
  <2> SUFFICES ASSUME NEW m \in T, m < n PROVE FALSE
    BY <1>1
  <2>1. <<m, n>> \in Nat \X Nat
    BY <1>1
  <2>2. <<m, n>> \in OpToRel(<, Nat)
    BY <2>1 DEF OpToRel
  <2> QED
    BY <1>2, <2>2
<1>4. \A j \in S : j <= MaxSlots - n
  <2> TAKE j \in S
  <2>1. MaxSlots - j \in T
    BY TokenAssumption DEF Indices
  <2> QED
    <3>1. n <= MaxSlots - j
      BY <1>3, <2>1
    <3> QED
      BY <1>1, <3>1, TokenAssumption DEF Indices
<1> HIDE DEF T
<1>5. MaxSlots - n \in S /\ \A j \in S : MaxSlots - n >= j
  BY <1>4, TokenAssumption DEF Indices, T
<1>6. Max(S) \in S /\ \A j \in S : Max(S) >= j
  BY <1>5 DEF Max
<1> QED
  BY <1>6, TokenAssumption DEF Indices

-----------------------------------------------------------------------------
(* Type correctness.                                                       *)

\* insert records a well-formed operation.
LEMMA NewOpType ==
  ASSUME NEW p \in Payloads
  PROVE  NewOp(p) \in Op
BY DEF NewOp, Op, Lifecycle, Observer, CancelState

\* Every change of one field keeps a record an operation.
LEMMA ChangedOpType ==
  ASSUME NEW op \in Op
  PROVE  /\ op.payload \in Payloads
         /\ \A next \in Lifecycle : Advanced(op, next) \in Op
         /\ Promoted(op) \in Op
         /\ [op EXCEPT !.observer = "Detached"] \in Op
         /\ \A c \in CancelState : [op EXCEPT !.cancel = c] \in Op
BY DEF Advanced, Promoted, Op, Lifecycle, Observer, CancelState

\* The slots an action can write.
LEMMA SlotInType ==
  ASSUME NEW g \in Generations, NEW n \in Indices \cup {NoSlot}
  PROVE  /\ \A op \in Op : SlotIn("Occupied", g, n, op) \in Slot
         /\ \A s \in SlotState \ {"Occupied"} : SlotIn(s, g, n, NoOp) \in Slot
BY DEF SlotIn, Slot, SlotState

\* The fields of a well-formed slot.
LEMMA SlotType ==
  ASSUME NEW s \in Slot
  PROVE  /\ s.generation \in Generations
         /\ s.state \in SlotState
         /\ s.nextFree \in Indices \cup {NoSlot}
         /\ s.state = "Occupied" => s.op \in Op
         /\ \A op \in Op : s.state = "Occupied" => [s EXCEPT !.op = op] \in Slot
BY DEF Slot, SlotState

\* Every action but the ones that rewrite all slots writes slot i only.
WritesOnly(i) ==
  /\ slots' \in [Indices -> Slot]
  /\ \A j \in Indices : j # i => slots'[j] = slots[j]

\* Slot i is in the vector, or is the one that extends it.
InVector(i) ==
  \/ i < len /\ len' = len
  \/ i = len /\ len' = len + 1

\* Writing a slot of the vector, or the one just past it as insert does when
\* it grows, keeps absent exactly the slots beyond the length.
LEMMA VectorExact ==
  ASSUME TypeOK, NEW i \in Indices, WritesOnly(i), slots'[i].state # "Absent",
         InVector(i)
  PROVE  /\ len' \in 0 .. MaxSlots
         /\ \A j \in Indices : slots'[j].state = "Absent" <=> j >= len'
<1>1. len \in 0 .. MaxSlots /\ len' \in 0 .. MaxSlots
  BY TokenAssumption DEF TypeOK, Indices, InVector
<1>2. ASSUME NEW j \in Indices
      PROVE  slots'[j].state = "Absent" <=> j >= len'
  <2>1. CASE j = i
    BY <1>1, <2>1 DEF Indices, InVector
  <2>2. CASE j # i
    <3>1. slots'[j] = slots[j] /\ (slots[j].state = "Absent" <=> j >= len)
      BY <2>2 DEF TypeOK, WritesOnly
    <3> QED
      BY <1>1, <2>2, <3>1 DEF Indices, InVector
  <2> QED
    BY <2>1, <2>2
<1> QED
  BY <1>1, <1>2

\* free_slot leaves well-formed slots, whether it recycles or retires.
LEMMA FreeSlotType ==
  ASSUME TypeOK, NEW i \in Indices, FreeSlot(i)
  PROVE  /\ WritesOnly(i)
         /\ slots'[i].state \in {"Vacant", "Retired"}
         /\ freeHead' \in Indices \cup {NoSlot}
<1>1. slots[i] \in Slot /\ slots[i].generation \in Generations
  BY SlotType DEF TypeOK
<1>2. NoSlot \in Indices \cup {NoSlot} /\ freeHead \in Indices \cup {NoSlot}
  BY DEF TypeOK
<1>3. CASE slots[i].generation >= GenerationMask
  <2> DEFINE s == SlotIn("Retired", slots[i].generation, NoSlot, NoOp)
  <2>1. slots' = [slots EXCEPT ![i] = s] /\ freeHead' = freeHead
    BY <1>3 DEF FreeSlot, TypeOK
  <2>2. s \in Slot /\ s.state = "Retired"
    BY <1>1, <1>2, SlotInType DEF SlotState, SlotIn
  <2> HIDE DEF s
  <2> QED
    BY <1>2, <2>1, <2>2 DEF TypeOK, WritesOnly
<1>4. CASE ~(slots[i].generation >= GenerationMask)
  <2> DEFINE s == SlotIn("Vacant", slots[i].generation + 1, freeHead, NoOp)
  <2>1. slots' = [slots EXCEPT ![i] = s] /\ freeHead' = i
    BY <1>4 DEF FreeSlot, TypeOK
  <2>2. slots[i].generation + 1 \in Generations
    BY <1>1, <1>4, TokenAssumption DEF Generations, FirstGeneration
  <2>3. s \in Slot /\ s.state = "Vacant"
    BY <1>2, <2>2, SlotInType DEF SlotState, SlotIn
  <2> HIDE DEF s
  <2> QED
    BY <2>1, <2>3 DEF TypeOK, WritesOnly
<1> QED
  BY <1>3, <1>4

\* Changing the operation of an occupied slot.
LEMMA SetOpType ==
  ASSUME TypeOK, NEW t \in Words, Occupied(t), NEW op \in Op, SetOp(t, op)
  PROVE  /\ WritesOnly(Index(t))
         /\ slots'[Index(t)].state = "Occupied"
<1>1. Index(t) \in Indices /\ slots[Index(t)] \in Slot
  BY IndexInRange DEF TypeOK
<1>2. slots[Index(t)].state = "Occupied"
  BY DEF Occupied, Holds
<1>3. [slots[Index(t)] EXCEPT !.op = op] \in Slot
  BY <1>1, <1>2, SlotType
<1>4. slots' = [slots EXCEPT ![Index(t)] = [slots[Index(t)] EXCEPT !.op = op]]
  BY DEF SetOp
<1>5. [slots[Index(t)] EXCEPT !.op = op].state = "Occupied"
  BY <1>1, <1>2 DEF Slot
<1> QED
  BY <1>1, <1>3, <1>4, <1>5 DEF TypeOK, WritesOnly

\* Claiming a slot, as insert does, leaves well-formed slots.
LEMMA OccupyType ==
  ASSUME TypeOK, NEW i \in Indices, NEW p \in Payloads, Occupy(i, p)
  PROVE  /\ WritesOnly(i)
         /\ slots'[i].state = "Occupied"
         /\ occupied' \in Int
<1> DEFINE s == SlotIn("Occupied", slots[i].generation, NoSlot, NewOp(p))
<1>1. slots' = [slots EXCEPT ![i] = s] /\ occupied' = occupied + 1
  BY DEF Occupy, TypeOK
<1>2. slots[i].generation \in Generations
  BY SlotType DEF TypeOK
<1>3. s \in Slot /\ s.state = "Occupied"
  BY <1>2, NewOpType, SlotInType DEF SlotIn
<1> HIDE DEF s
<1> QED
  BY <1>1, <1>3 DEF TypeOK, WritesOnly

-----------------------------------------------------------------------------
(* The free list, for each way a step can change it. *)

\* The vacant slots can be counted.
LEMMA VacantFinite ==
  IsFiniteSet(Vacant) /\ Cardinality(Vacant) \in Nat
BY IndicesFinite DEF Vacant

\* A set of slots has at most MaxSlots members.
LEMMA CardinalityBounded ==
  ASSUME NEW S, S \subseteq Indices
  PROVE  Cardinality(S) \in 0 .. MaxSlots
<1>1. IsFiniteSet(Indices) /\ Cardinality(Indices) = MaxSlots
  BY FS_Interval, TokenAssumption DEF Indices
<1>2. Cardinality(S) <= Cardinality(Indices)
  BY <1>1, FS_Subset
<1> QED
  BY <1>1, <1>2, IndicesFinite, TokenAssumption

\* No vacant slot appears, disappears or is linked anew.
LEMMA FreeListKept ==
  ASSUME FreeListExact, freeHead' = freeHead,
         \A i \in Indices : slots'[i].state = "Vacant" <=> slots[i].state = "Vacant",
         \A i \in Vacant : slots'[i].nextFree = slots[i].nextFree
  PROVE  FreeListExact'
<1>1. PICK pos \in [Indices -> 0 .. MaxSlots] : NumbersFreeList(pos)
  BY DEF FreeListExact
<1>2. Vacant' = Vacant
  BY DEF Vacant
<1>3. NumbersFreeList(pos)'
  BY <1>1, <1>2 DEF NumbersFreeList
<1> QED
  BY <1>3 DEF FreeListExact

\* insert takes the head of the list.
LEMMA FreeListPopped ==
  ASSUME TypeOK, FreeListExact, freeHead # NoSlot,
         freeHead' = slots[freeHead].nextFree,
         WritesOnly(freeHead), slots'[freeHead].state = "Occupied"
  PROVE  FreeListExact'
<1>1. PICK pos \in [Indices -> 0 .. MaxSlots] : NumbersFreeList(pos)
  BY DEF FreeListExact
<1> DEFINE n == Cardinality(Vacant)
<1>2. freeHead \in Vacant /\ pos[freeHead] = n
  BY <1>1 DEF NumbersFreeList
<1>3. Vacant' = Vacant \ {freeHead}
  BY <1>2 DEF Vacant, WritesOnly
<1>4. n \in Nat /\ Cardinality(Vacant') = n - 1
  BY <1>2, <1>3, VacantFinite, FS_RemoveElement
<1>5. \A i \in Vacant : i \in Indices /\ pos[i] \in 1 .. n /\ NoSlot # i
  BY <1>1 DEF NumbersFreeList, Vacant, Indices, NoSlot
<1>6. ASSUME NEW i \in Vacant'
      PROVE  /\ pos[i] \in 1 .. n - 1
             /\ IF pos[i] = 1
                  THEN slots'[i].nextFree = NoSlot
                  ELSE /\ slots'[i].nextFree \in Vacant'
                       /\ pos[slots'[i].nextFree] = pos[i] - 1
  <2>1. i \in Vacant /\ i # freeHead /\ pos[i] # n
    BY <1>1, <1>2, <1>3 DEF NumbersFreeList
  <2>2. pos[i] \in 1 .. n - 1
    BY <1>4, <1>5, <2>1
  <2>3. slots'[i] = slots[i]
    BY <1>5, <2>1 DEF WritesOnly
  <2>4. CASE pos[i] = 1
    BY <1>1, <2>1, <2>2, <2>3, <2>4 DEF NumbersFreeList
  <2>5. CASE pos[i] # 1
    <3>1. slots[i].nextFree \in Vacant /\ pos[slots[i].nextFree] = pos[i] - 1
      BY <1>1, <2>1, <2>5 DEF NumbersFreeList
    <3>2. slots[i].nextFree # freeHead
      BY <1>2, <1>4, <2>2, <3>1
    <3> QED
      BY <1>3, <2>2, <2>3, <2>5, <3>1, <3>2
  <2> QED
    BY <2>4, <2>5
<1>7. freeHead' = NoSlot => Vacant' = {}
  <2> HAVE freeHead' = NoSlot
  <2>1. n = 1
    BY <1>1, <1>2, <1>5 DEF NumbersFreeList
  <2> QED
    BY <1>4, <1>6, <2>1
<1>8. freeHead' # NoSlot => freeHead' \in Vacant' /\ pos[freeHead'] = Cardinality(Vacant')
  <2> HAVE freeHead' # NoSlot
  <2>1. freeHead' \in Vacant /\ pos[freeHead'] = n - 1
    BY <1>1, <1>2 DEF NumbersFreeList
  <2> QED
    BY <1>2, <1>3, <1>4, <2>1
<1>9. \A i, j \in Vacant' : pos[i] = pos[j] => i = j
  BY <1>1, <1>3 DEF NumbersFreeList
<1>10. NumbersFreeList(pos)'
  BY <1>4, <1>6, <1>7, <1>8, <1>9 DEF NumbersFreeList
<1> QED
  BY <1>10 DEF FreeListExact

\* free_slot puts a slot that was in use at the head of the list.
LEMMA FreeListPushed ==
  ASSUME TypeOK, FreeListExact, NEW i \in Indices, i \notin Vacant,
         WritesOnly(i), slots'[i].state = "Vacant",
         slots'[i].nextFree = freeHead, freeHead' = i
  PROVE  FreeListExact'
<1>1. PICK pos \in [Indices -> 0 .. MaxSlots] : NumbersFreeList(pos)
  BY DEF FreeListExact
<1>0. PICK n : n = Cardinality(Vacant)
  OBVIOUS
<1> DEFINE pos2 == [pos EXCEPT ![i] = n + 1]
<1>2. Vacant' = Vacant \cup {i}
  BY DEF Vacant, WritesOnly
<1>3. n \in Nat /\ Cardinality(Vacant') = n + 1
  BY <1>0, <1>2, VacantFinite, FS_AddElement
<1>4. Vacant' \subseteq Indices
  BY DEF Vacant
<1>5. n + 1 \in 0 .. MaxSlots
  BY <1>3, <1>4, CardinalityBounded
<1>6. pos2 \in [Indices -> 0 .. MaxSlots] /\ pos2[i] = n + 1
  BY <1>5
<1>7. \A j \in Vacant : /\ j \in Indices /\ j # i /\ pos2[j] = pos[j]
                       /\ pos[j] \in 1 .. n /\ slots'[j] = slots[j]
  BY <1>0, <1>1 DEF NumbersFreeList, Vacant, WritesOnly
<1> HIDE DEF pos2
<1>8. ASSUME NEW j \in Vacant'
      PROVE  /\ pos2[j] \in 1 .. n + 1
             /\ IF pos2[j] = 1
                  THEN slots'[j].nextFree = NoSlot
                  ELSE /\ slots'[j].nextFree \in Vacant'
                       /\ pos2[slots'[j].nextFree] = pos2[j] - 1
  <2>1. CASE j = i
    <3>1. CASE freeHead = NoSlot
      <4>1. n = 0
        BY <1>0, <1>1, <3>1, FS_EmptySet DEF NumbersFreeList
      <4> QED
        BY <1>6, <2>1, <3>1, <4>1
    <3>2. CASE freeHead # NoSlot
      <4>1. freeHead \in Vacant /\ pos[freeHead] = n
        BY <1>0, <1>1, <3>2 DEF NumbersFreeList
      <4>2. n >= 1 /\ pos2[freeHead] = n
        BY <1>7, <4>1
      <4> QED
        BY <1>2, <1>3, <1>6, <2>1, <4>1, <4>2
    <3> QED
      BY <3>1, <3>2
  <2>2. CASE j # i
    <3>1. j \in Vacant
      BY <1>2, <2>2
    <3>2. pos2[j] = pos[j] /\ pos[j] \in 1 .. n + 1 /\ slots'[j] = slots[j]
      BY <1>3, <1>7, <3>1
    <3>3. IF pos[j] = 1
            THEN slots[j].nextFree = NoSlot
            ELSE slots[j].nextFree \in Vacant /\ pos[slots[j].nextFree] = pos[j] - 1
      BY <1>1, <3>1 DEF NumbersFreeList
    <3> QED
      BY <1>2, <1>7, <3>2, <3>3
  <2> QED
    BY <2>1, <2>2
<1>9. \A j, k \in Vacant' : pos2[j] = pos2[k] => j = k
  <2> TAKE j, k \in Vacant'
  <2>1. \A x \in Vacant : pos2[x] # pos2[i]
    BY <1>3, <1>6, <1>7
  <2>2. j \in Vacant /\ k \in Vacant => (pos2[j] = pos2[k] => j = k)
    BY <1>1, <1>7 DEF NumbersFreeList
  <2> QED
    BY <1>2, <2>1, <2>2
<1>10. i # NoSlot
  BY DEF Indices, NoSlot
<1>11. NumbersFreeList(pos2)'
  BY <1>2, <1>3, <1>6, <1>8, <1>9, <1>10 DEF NumbersFreeList
<1> QED
  BY <1>6, <1>11 DEF FreeListExact

-----------------------------------------------------------------------------
(* drain, the step that frees many slots at once. *)

\* The number of recycled slots below a recycled one is its place in the
\* chain that drain puts on top of the free list.
LEMMA BelowFacts ==
  ASSUME NEW i \in Recycled
  PROVE  /\ Cardinality(Below(i)) \in Nat
         /\ Cardinality(Below(i)) < Cardinality(Recycled)
         /\ Below(i) = {} => Cardinality(Below(i)) = 0
         /\ Below(i) # {} =>
              /\ Max(Below(i)) \in Recycled
              /\ Cardinality(Below(i)) = Cardinality(Below(Max(Below(i)))) + 1
         /\ \A j \in Recycled : i < j => Cardinality(Below(i)) < Cardinality(Below(j))
<1>1. Recycled \subseteq Indices /\ \A j \in Recycled : Below(j) \subseteq Indices
  BY DEF Recycled, Drained, Below
<1>2. \A j \in Recycled : IsFiniteSet(Below(j)) /\ Cardinality(Below(j)) \in Nat
  BY <1>1, IndicesFinite
<1>3. IsFiniteSet(Recycled) /\ Cardinality(Recycled) \in Nat
  BY <1>1, IndicesFinite
<1>4. \A j \in Recycled : j \notin Below(j)
  BY <1>1 DEF Below, Indices
<1>5. \A j \in Recycled : Cardinality(Below(j) \cup {j}) = Cardinality(Below(j)) + 1
  BY <1>2, <1>4, FS_AddElement
<1>6. Cardinality(Below(i)) < Cardinality(Recycled)
  <2>1. Below(i) \cup {i} \subseteq Recycled
    BY DEF Below
  <2>2. Cardinality(Below(i) \cup {i}) <= Cardinality(Recycled)
    BY <1>3, <2>1, FS_Subset
  <2> QED
    BY <1>2, <1>3, <1>5, <2>2
<1>7. ASSUME Below(i) # {}
      PROVE  /\ Max(Below(i)) \in Recycled
             /\ Cardinality(Below(i)) = Cardinality(Below(Max(Below(i)))) + 1
  <2>1. Max(Below(i)) \in Below(i) /\ \A j \in Below(i) : j <= Max(Below(i))
    BY <1>1, <1>7, MaxIndex
  <2>2. PICK m \in Recycled : m = Max(Below(i)) /\ m < i
    BY <2>1 DEF Below
  <2>3. Below(i) = Below(m) \cup {m}
    <3>1. \A j \in Recycled : j < i <=> j < m \/ j = m
      BY <1>1, <2>1, <2>2 DEF Below, Indices
    <3> QED
      BY <2>2, <3>1 DEF Below
  <2> QED
    BY <1>5, <2>2, <2>3
<1>8. ASSUME NEW j \in Recycled, i < j
      PROVE  Cardinality(Below(i)) < Cardinality(Below(j))
  <2>1. Below(i) \cup {i} \subseteq Below(j)
    BY <1>1, <1>8 DEF Below, Indices
  <2>2. Cardinality(Below(i) \cup {i}) <= Cardinality(Below(j))
    BY <1>2, <2>1, FS_Subset
  <2> QED
    BY <1>2, <1>5, <2>2
<1> QED
  BY <1>2, <1>6, <1>7, <1>8, FS_EmptySet

\* drain leaves well-formed slots and a head in range.
LEMMA DrainType ==
  ASSUME TypeOK, Drain
  PROVE  TypeOK'
<1>1. Recycled \subseteq Indices /\ Drained \subseteq Indices
  BY DEF Recycled, Drained
<1>2. Recycled # {} => Max(Recycled) \in Indices
  BY <1>1, MaxIndex
<1>3. ASSUME NEW i \in Indices
      PROVE  /\ SlotAfterDrain(i) \in Slot
             /\ SlotAfterDrain(i).state = "Absent" <=> slots[i].state = "Absent"
  <2>1. slots[i] \in Slot /\ slots[i].generation \in Generations
    BY SlotType DEF TypeOK
  <2>2. NoSlot \in Indices \cup {NoSlot} /\ freeHead \in Indices \cup {NoSlot}
    BY DEF TypeOK
  <2>3. CASE i \in Recycled
    <3>1. LinkAfterDrain(i) \in Indices \cup {NoSlot}
      BY <1>1, <2>2, <2>3, BelowFacts DEF LinkAfterDrain
    <3>2. slots[i].generation + 1 \in Generations
      BY <2>1, <2>3, TokenAssumption DEF Generations, FirstGeneration, Recycled
    <3>3. SlotIn("Vacant", slots[i].generation + 1, LinkAfterDrain(i), NoOp) \in Slot
      BY <3>1, <3>2, SlotInType DEF SlotState
    <3>4. slots[i].state = "Occupied"
      BY <2>3 DEF Recycled, Drained
    <3> QED
      BY <2>3, <3>3, <3>4 DEF SlotAfterDrain, SlotIn
  <2>4. CASE i \notin Recycled /\ i \in Drained
    <3>1. SlotIn("Retired", slots[i].generation, NoSlot, NoOp) \in Slot
      BY <2>1, <2>2, SlotInType DEF SlotState
    <3>2. slots[i].state = "Occupied"
      BY <2>4 DEF Drained
    <3> QED
      BY <2>4, <3>1, <3>2 DEF SlotAfterDrain, SlotIn
  <2>5. CASE i \notin Drained
    BY <2>1, <2>5 DEF SlotAfterDrain, Recycled
  <2> QED
    BY <2>3, <2>4, <2>5
<1>4. slots' \in [Indices -> Slot]
  BY <1>3 DEF Drain
<1>5. freeHead' \in Indices \cup {NoSlot}
  BY <1>2 DEF Drain, TypeOK
<1>6. occupied' \in Int
  <2>1. Cardinality(Drained) \in Nat
    BY <1>1, IndicesFinite
  <2> QED
    BY <2>1 DEF Drain, TypeOK
<1>7. len' = len
  BY DEF Drain
<1>8. \A i \in Indices : slots'[i].state = "Absent" <=> i >= len'
  BY <1>3, <1>7 DEF Drain, TypeOK
<1> QED
  BY <1>4, <1>5, <1>6, <1>7, <1>8 DEF TypeOK

\* drain threads every slot it recycles onto the free list, on top of the
\* old one.
LEMMA FreeListDrained ==
  ASSUME TypeOK, FreeListExact, Drain
  PROVE  FreeListExact'
<1>1. PICK pos \in [Indices -> 0 .. MaxSlots] : NumbersFreeList(pos)
  BY DEF FreeListExact
<1>2. PICK n : n = Cardinality(Vacant)
  OBVIOUS
<1>3. PICK R : R = Recycled
  OBVIOUS
<1>4. PICK rank : rank = [i \in Indices |-> Cardinality(Below(i)) + 1]
  OBVIOUS
<1> DEFINE pos2 == [i \in Indices |-> IF i \in R THEN n + rank[i] ELSE pos[i]]
<1>5. R \subseteq Indices /\ R \cap Vacant = {} /\ Vacant \subseteq Indices
  BY <1>3 DEF Recycled, Drained, Vacant
<1>6. ASSUME NEW i \in Indices
      PROVE  slots'[i] = SlotAfterDrain(i)
  BY DEF Drain
<1>61. ASSUME NEW i \in R
       PROVE  slots'[i].state = "Vacant" /\ slots'[i].nextFree = LinkAfterDrain(i)
  <2>1. slots'[i] = SlotIn("Vacant", slots[i].generation + 1, LinkAfterDrain(i), NoOp)
    BY <1>3, <1>5, <1>6 DEF SlotAfterDrain
  <2> QED
    BY <2>1 DEF SlotIn
<1>62. ASSUME NEW i \in Indices, i \notin R
       PROVE  slots'[i].state = "Vacant" <=> slots[i].state = "Vacant"
  <2>1. CASE i \in Drained
    <3>1. slots'[i] = SlotIn("Retired", slots[i].generation, NoSlot, NoOp)
      BY <1>3, <1>6, <1>62, <2>1 DEF SlotAfterDrain
    <3>2. slots[i].state = "Occupied"
      BY <2>1 DEF Drained
    <3> QED
      BY <3>1, <3>2 DEF SlotIn
  <2>2. CASE i \notin Drained
    BY <1>3, <1>6, <1>62, <2>2 DEF SlotAfterDrain
  <2> QED
    BY <2>1, <2>2
<1>7. Vacant' = Vacant \cup R
  <2>1. ASSUME NEW i \in Indices
        PROVE  slots'[i].state = "Vacant" <=> i \in Vacant \/ i \in R
    BY <1>61, <1>62 DEF Vacant
  <2>2. Vacant' = {i \in Indices : slots'[i].state = "Vacant"}
    BY DEF Vacant
  <2> QED
    BY <1>5, <2>1, <2>2
<1>8. /\ n \in Nat /\ Cardinality(R) \in Nat
      /\ Cardinality(Vacant') = n + Cardinality(R)
  <2>1. IsFiniteSet(Vacant) /\ IsFiniteSet(R) /\ n \in Nat /\ Cardinality(R) \in Nat
    BY <1>2, <1>5, IndicesFinite
  <2> QED
    BY <1>2, <1>5, <1>7, <2>1, FS_Union, FS_EmptySet
<1>9. n + Cardinality(R) \in 0 .. MaxSlots
  BY <1>5, <1>7, <1>8, CardinalityBounded
<1>10. \A i \in R : rank[i] \in 1 .. Cardinality(R)
  <2> TAKE i \in R
  <2>1. rank[i] = Cardinality(Below(i)) + 1
    BY <1>4, <1>5
  <2> QED
    BY <1>3, <1>8, <2>1, BelowFacts
<1>11. \A i \in Vacant : pos[i] \in 1 .. n
  BY <1>1, <1>2 DEF NumbersFreeList
<1>12. \A i, j \in R : rank[i] = rank[j] => i = j
  <2> TAKE i, j \in R
  <2>1. rank[i] = Cardinality(Below(i)) + 1 /\ rank[j] = Cardinality(Below(j)) + 1
    BY <1>4, <1>5
  <2>2. i \in Int /\ j \in Int
    BY <1>5 DEF Indices
  <2>3. /\ Cardinality(Below(i)) \in Nat /\ Cardinality(Below(j)) \in Nat
        /\ i < j => Cardinality(Below(i)) < Cardinality(Below(j))
        /\ j < i => Cardinality(Below(j)) < Cardinality(Below(i))
    BY <1>3, BelowFacts
  <2> QED
    BY <2>1, <2>2, <2>3
<1>13. \A i \in R :
         LET next == slots'[i].nextFree IN
         IF rank[i] = 1 THEN next = freeHead
                        ELSE next \in R /\ rank[next] = rank[i] - 1
  <2> TAKE i \in R
  <2>1. slots'[i].nextFree = LinkAfterDrain(i)
    BY <1>61
  <2>2. rank[i] = Cardinality(Below(i)) + 1
    BY <1>4, <1>5
  <2>3. CASE Below(i) = {}
    BY <1>3, <2>1, <2>2, <2>3, BelowFacts DEF LinkAfterDrain
  <2>4. CASE Below(i) # {}
    <3>1. PICK m \in R : /\ m = Max(Below(i))
                        /\ Cardinality(Below(i)) = Cardinality(Below(m)) + 1
      BY <1>3, <2>4, BelowFacts
    <3>2. rank[m] = Cardinality(Below(m)) + 1 /\ Cardinality(Below(m)) \in Nat
      BY <1>3, <1>4, <1>5, BelowFacts
    <3> QED
      BY <2>1, <2>2, <2>4, <3>1, <3>2 DEF LinkAfterDrain
  <2> QED
    BY <2>3, <2>4
<1>14. IF R = {} THEN freeHead' = freeHead
                 ELSE freeHead' \in R /\ rank[freeHead'] = Cardinality(R)
  <2>1. CASE R = {}
    BY <1>3, <2>1 DEF Drain
  <2>2. CASE R # {}
    <3>1. PICK m : m = Max(R) /\ freeHead' = m
      BY <1>3, <2>2 DEF Drain
    <3>2. m \in R /\ \A j \in R : j <= m
      BY <1>5, <2>2, <3>1, MaxIndex
    <3>3. R = Below(m) \cup {m} /\ m \notin Below(m) /\ Below(m) \subseteq Indices
      <4>1. \A j \in R : j \in Int /\ (j < m <=> j # m)
        BY <1>5, <3>2 DEF Indices
      <4>2. Below(m) = {j \in R : j < m}
        BY <1>3 DEF Below
      <4>3. Below(m) = R \ {m}
        BY <4>1, <4>2
      <4> QED
        BY <1>5, <3>2, <4>3
    <3>4. Cardinality(R) = Cardinality(Below(m)) + 1
      BY <3>3, IndicesFinite, FS_AddElement
    <3> QED
      BY <1>4, <1>5, <2>2, <3>1, <3>2, <3>4
  <2> QED
    BY <2>1, <2>2
<1>15. pos2 \in [Indices -> 0 .. MaxSlots]
  <2> SUFFICES ASSUME NEW i \in Indices
               PROVE  (IF i \in R THEN n + rank[i] ELSE pos[i]) \in 0 .. MaxSlots
    OBVIOUS
  <2>1. CASE i \in R
    <3>1. rank[i] \in 1 .. Cardinality(R)
      BY <1>10, <2>1
    <3> QED
      BY <1>8, <1>9, <2>1, <3>1, TokenAssumption
  <2> QED
    BY <2>1
<1>16. /\ \A i \in R : pos2[i] = n + rank[i]
       /\ \A i \in Vacant : pos2[i] = pos[i]
  BY <1>5
<1> HIDE DEF pos2
<1>17. ASSUME NEW i \in Vacant'
       PROVE  /\ pos2[i] \in 1 .. n + Cardinality(R)
              /\ IF pos2[i] = 1
                   THEN slots'[i].nextFree = NoSlot
                   ELSE /\ slots'[i].nextFree \in Vacant'
                        /\ pos2[slots'[i].nextFree] = pos2[i] - 1
  <2>1. CASE i \in R
    <3>1. pos2[i] = n + rank[i] /\ pos2[i] \in 1 .. n + Cardinality(R)
      BY <1>8, <1>10, <1>16, <2>1
    <3>2. CASE rank[i] # 1
      <4>1. slots'[i].nextFree \in R /\ rank[slots'[i].nextFree] = rank[i] - 1
        BY <1>13, <2>1, <3>2
      <4>2. pos2[slots'[i].nextFree] = pos2[i] - 1 /\ pos2[i] # 1
        BY <1>8, <1>10, <1>16, <2>1, <3>1, <3>2, <4>1
      <4> QED
        BY <1>7, <3>1, <4>1, <4>2
    <3>3. CASE rank[i] = 1
      <4>1. slots'[i].nextFree = freeHead /\ pos2[i] = n + 1
        BY <1>13, <2>1, <3>1, <3>3
      <4>2. CASE freeHead = NoSlot
        <5>1. n = 0
          BY <1>1, <1>2, <4>2, FS_EmptySet DEF NumbersFreeList
        <5> QED
          BY <3>1, <4>1, <4>2, <5>1
      <4>3. CASE freeHead # NoSlot
        <5>1. freeHead \in Vacant /\ pos[freeHead] = n
          BY <1>1, <1>2, <4>3 DEF NumbersFreeList
        <5>2. n >= 1 /\ pos2[freeHead] = n
          BY <1>11, <1>16, <5>1
        <5> QED
          BY <1>7, <1>8, <3>1, <4>1, <5>1, <5>2
      <4> QED
        BY <4>2, <4>3
    <3> QED
      BY <3>2, <3>3
  <2>2. CASE i \in Vacant
    <3>1. slots'[i] = slots[i]
      BY <1>5, <1>6, <2>2 DEF SlotAfterDrain, Vacant, Recycled, Drained
    <3>2. pos2[i] = pos[i] /\ pos[i] \in 1 .. n + Cardinality(R)
      BY <1>8, <1>11, <1>16, <2>2
    <3>3. IF pos[i] = 1
            THEN slots[i].nextFree = NoSlot
            ELSE slots[i].nextFree \in Vacant /\ pos[slots[i].nextFree] = pos[i] - 1
      BY <1>1, <2>2 DEF NumbersFreeList
    <3> QED
      BY <1>7, <1>16, <3>1, <3>2, <3>3
  <2> QED
    BY <1>7, <2>1, <2>2
<1>18. \A i, j \in Vacant' : pos2[i] = pos2[j] => i = j
  <2> TAKE i, j \in Vacant'
  <2>1. \A x \in R, y \in Vacant : pos2[x] # pos2[y]
    BY <1>8, <1>10, <1>11, <1>16
  <2>2. i \in R /\ j \in R => (pos2[i] = pos2[j] => i = j)
    <3> HAVE i \in R /\ j \in R
    <3>1. pos2[i] = n + rank[i] /\ pos2[j] = n + rank[j]
      BY <1>16
    <3>2. rank[i] \in Int /\ rank[j] \in Int
      BY <1>8, <1>10
    <3> QED
      BY <1>8, <1>12, <3>1, <3>2
  <2>3. i \in Vacant /\ j \in Vacant => (pos2[i] = pos2[j] => i = j)
    BY <1>1, <1>16 DEF NumbersFreeList
  <2> QED
    BY <1>7, <2>1, <2>2, <2>3
<1>19. /\ freeHead' = NoSlot => Vacant' = {}
       /\ freeHead' # NoSlot => /\ freeHead' \in Vacant'
                               /\ pos2[freeHead'] = n + Cardinality(R)
  <2>1. CASE R = {}
    <3>1. Cardinality(R) = 0 /\ Vacant' = Vacant /\ freeHead' = freeHead
      BY <1>7, <1>14, <2>1, FS_EmptySet
    <3> QED
      BY <1>1, <1>2, <1>8, <1>16, <3>1 DEF NumbersFreeList
  <2>2. CASE R # {}
    <3>1. freeHead' \in R /\ rank[freeHead'] = Cardinality(R)
      BY <1>14, <2>2
    <3>2. freeHead' # NoSlot
      BY <1>5, <3>1 DEF Indices, NoSlot
    <3> QED
      BY <1>7, <1>16, <3>1, <3>2
  <2> QED
    BY <2>1, <2>2
<1>20. NumbersFreeList(pos2)'
  BY <1>8, <1>17, <1>18, <1>19 DEF NumbersFreeList
<1> QED
  BY <1>15, <1>20 DEF FreeListExact

-----------------------------------------------------------------------------
(* The inductive invariant.  TypeOK alone is not inductive: that insert    *)
(* stays inside the vector rests on the head of the free list being a      *)
(* vacant slot, and that on the shape of the whole list.                   *)

SlabInv == TypeOK /\ FreeListExact /\ OccupiedExact

\* A step that writes slot i only changes the count by what happens to i.
LEMMA OccupiedCounted ==
  ASSUME TypeOK, OccupiedExact, NEW i \in Indices, WritesOnly(i),
         occupied' = occupied
           + (IF slots'[i].state = "Occupied" THEN 1 ELSE 0)
           - (IF slots[i].state = "Occupied" THEN 1 ELSE 0)
  PROVE  OccupiedExact'
<1>1. IsFiniteSet(Drained) /\ Cardinality(Drained) \in Nat
  BY IndicesFinite DEF Drained
<1>2. i \in Drained <=> slots[i].state = "Occupied"
  BY DEF Drained
<1>3. CASE slots'[i].state = "Occupied"
  <2>1. Drained' = Drained \cup {i}
    BY <1>3 DEF Drained, WritesOnly
  <2>2. Cardinality(Drained') =
          IF i \in Drained THEN Cardinality(Drained) ELSE Cardinality(Drained) + 1
    BY <1>1, <2>1, FS_AddElement
  <2>3. occupied' = IF i \in Drained THEN occupied ELSE occupied + 1
    BY <1>1, <1>2, <1>3 DEF OccupiedExact
  <2> QED
    BY <2>2, <2>3 DEF OccupiedExact
<1>4. CASE slots'[i].state # "Occupied"
  <2>1. Drained' = Drained \ {i}
    BY <1>4 DEF Drained, WritesOnly
  <2>2. Cardinality(Drained') =
          IF i \in Drained THEN Cardinality(Drained) - 1 ELSE Cardinality(Drained)
    BY <1>1, <2>1, FS_RemoveElement
  <2>3. occupied' = IF i \in Drained THEN occupied - 1 ELSE occupied
    BY <1>1, <1>2, <1>4 DEF OccupiedExact
  <2> QED
    BY <2>2, <2>3 DEF OccupiedExact
<1> QED
  BY <1>3, <1>4

\* An empty slab satisfies the invariant.
LEMMA InitSlabInv == Init => SlabInv
<1> SUFFICES ASSUME Init PROVE SlabInv
  OBVIOUS
<1>1. FirstGeneration \in Generations /\ NoSlot \in Indices \cup {NoSlot}
  BY TokenAssumption DEF FirstGeneration, Generations
<1> DEFINE s == SlotIn("Absent", FirstGeneration, NoSlot, NoOp)
<1>2. s \in Slot /\ s.state = "Absent"
  BY <1>1, SlotInType DEF SlotState, SlotIn
<1>3. slots = [i \in Indices |-> s] /\ len = 0 /\ freeHead = NoSlot /\ occupied = 0
  BY DEF Init
<1> HIDE DEF s
<1>4. TypeOK
  BY <1>2, <1>3, TokenAssumption DEF TypeOK, Indices
<1>5. Vacant = {} /\ Drained = {}
  BY <1>2, <1>3 DEF Vacant, Drained
<1>6. OccupiedExact
  BY <1>3, <1>5, FS_EmptySet DEF OccupiedExact
<1>7. FreeListExact
  <2>1. PICK pos : pos = [i \in Indices |-> 0]
    OBVIOUS
  <2>2. pos \in [Indices -> 0 .. MaxSlots]
    BY <2>1, TokenAssumption
  <2>3. NumbersFreeList(pos)
    BY <1>3, <1>5 DEF NumbersFreeList
  <2> QED
    BY <2>2, <2>3 DEF FreeListExact
<1> QED
  BY <1>4, <1>6, <1>7 DEF SlabInv

\* insert from the free list keeps the invariant.
LEMMA InsertReusingKeeps ==
  ASSUME SlabInv, NEW p \in Payloads, InsertReusing(p)
  PROVE  SlabInv'
<1>1. TypeOK /\ FreeListExact /\ OccupiedExact
  BY DEF SlabInv
<1>2. /\ freeHead # NoSlot /\ freeHead' = slots[freeHead].nextFree
      /\ Occupy(freeHead, p) /\ len' = len
  BY DEF InsertReusing
<1>3. freeHead \in Indices /\ slots[freeHead].state = "Vacant"
  BY <1>1, <1>2 DEF FreeListExact, NumbersFreeList, Vacant
<1>4. /\ WritesOnly(freeHead) /\ slots'[freeHead].state = "Occupied"
      /\ occupied' \in Int
  BY <1>1, <1>2, <1>3, OccupyType
<1>5. InVector(freeHead)
  BY <1>1, <1>2, <1>3 DEF TypeOK, Indices, InVector
<1>6. TypeOK'
  <2>1. freeHead' \in Indices \cup {NoSlot}
    BY <1>1, <1>2, <1>3, SlotType DEF TypeOK
  <2>2. /\ len' \in 0 .. MaxSlots
        /\ \A j \in Indices : slots'[j].state = "Absent" <=> j >= len'
    BY <1>1, <1>3, <1>4, <1>5, VectorExact
  <2> QED
    BY <1>4, <2>1, <2>2 DEF TypeOK, WritesOnly
<1>7. FreeListExact'
  BY <1>1, <1>2, <1>4, FreeListPopped
<1>8. OccupiedExact'
  <2>1. occupied' = occupied + 1 /\ occupied \in Int
    BY <1>1, <1>2 DEF Occupy, TypeOK
  <2> QED
    BY <1>1, <1>3, <1>4, <2>1, OccupiedCounted
<1> QED
  BY <1>6, <1>7, <1>8 DEF SlabInv

\* insert that grows the vector keeps the invariant.
LEMMA InsertGrowingKeeps ==
  ASSUME SlabInv, NEW p \in Payloads, InsertGrowing(p)
  PROVE  SlabInv'
<1>1. TypeOK /\ FreeListExact /\ OccupiedExact
  BY DEF SlabInv
<1>2. len < MaxSlots /\ len' = len + 1 /\ Occupy(len, p) /\ freeHead' = freeHead
  BY DEF InsertGrowing
<1>3. len \in Indices /\ slots[len].state = "Absent"
  BY <1>1, <1>2, TokenAssumption DEF TypeOK, Indices
<1>4. WritesOnly(len) /\ slots'[len].state = "Occupied" /\ occupied' \in Int
  BY <1>1, <1>2, <1>3, OccupyType
<1>5. TypeOK'
  <2>1. /\ len' \in 0 .. MaxSlots
        /\ \A j \in Indices : slots'[j].state = "Absent" <=> j >= len'
    BY <1>1, <1>2, <1>3, <1>4, VectorExact DEF InVector
  <2> QED
    BY <1>1, <1>2, <1>4, <2>1 DEF TypeOK, WritesOnly
<1>6. FreeListExact'
  <2>1. \A i \in Indices : slots'[i].state = "Vacant" <=> slots[i].state = "Vacant"
    BY <1>3, <1>4 DEF WritesOnly
  <2>2. \A i \in Vacant : slots'[i].nextFree = slots[i].nextFree
    BY <1>3, <1>4 DEF WritesOnly, Vacant
  <2> QED
    BY <1>1, <1>2, <2>1, <2>2, FreeListKept
<1>7. OccupiedExact'
  <2>1. occupied' = occupied + 1 /\ occupied \in Int
    BY <1>1, <1>2 DEF Occupy, TypeOK
  <2> QED
    BY <1>1, <1>3, <1>4, <2>1, OccupiedCounted
<1> QED
  BY <1>5, <1>6, <1>7 DEF SlabInv

\* A step that writes an occupied or tombstone slot i: to another operation,
\* to a tombstone, or by freeing it.
LEMMA SlotChangeKeeps ==
  ASSUME SlabInv, NEW i \in Indices, i < len, len' = len, WritesOnly(i),
         slots[i].state \in {"Occupied", "Tombstone"},
         \/ FreeSlot(i)
         \/ slots'[i].state \in {"Occupied", "Tombstone"} /\ freeHead' = freeHead,
         occupied' = occupied
           + (IF slots'[i].state = "Occupied" THEN 1 ELSE 0)
           - (IF slots[i].state = "Occupied" THEN 1 ELSE 0)
  PROVE  SlabInv'
<1>1. TypeOK /\ FreeListExact /\ OccupiedExact
  BY DEF SlabInv
<1>2. /\ slots'[i].state # "Absent" /\ freeHead' \in Indices \cup {NoSlot}
  BY <1>1, FreeSlotType DEF TypeOK
<1>3. TypeOK'
  <2>1. InVector(i)
    BY DEF InVector
  <2>2. /\ len' \in 0 .. MaxSlots
        /\ \A j \in Indices : slots'[j].state = "Absent" <=> j >= len'
    BY <1>1, <1>2, <2>1, VectorExact
  <2>3. occupied' \in Int
    BY <1>1 DEF TypeOK
  <2> QED
    BY <1>2, <2>2, <2>3 DEF TypeOK, WritesOnly
<1>4. FreeListExact'
  <2>1. i \notin Vacant
    BY DEF Vacant
  <2>2. CASE slots'[i].state # "Vacant" /\ freeHead' = freeHead
    <3>1. \A j \in Indices : slots'[j].state = "Vacant" <=> slots[j].state = "Vacant"
      BY <2>2 DEF WritesOnly
    <3>2. \A j \in Vacant : slots'[j].nextFree = slots[j].nextFree
      BY <2>1 DEF WritesOnly, Vacant
    <3> QED
      BY <1>1, <2>2, <3>1, <3>2, FreeListKept
  <2>3. CASE FreeSlot(i)
    <3>1. CASE slots[i].generation >= GenerationMask
      <4>1. slots'[i] = SlotIn("Retired", slots[i].generation, NoSlot, NoOp)
        BY <1>1, <2>3, <3>1 DEF FreeSlot, TypeOK
      <4> QED
        BY <2>2, <2>3, <3>1, <4>1 DEF FreeSlot, SlotIn
    <3>2. CASE ~(slots[i].generation >= GenerationMask)
      <4>1. slots'[i] = SlotIn("Vacant", slots[i].generation + 1, freeHead, NoOp)
        BY <1>1, <2>3, <3>2 DEF FreeSlot, TypeOK
      <4>2. slots'[i].state = "Vacant" /\ slots'[i].nextFree = freeHead /\ freeHead' = i
        BY <2>3, <3>2, <4>1 DEF FreeSlot, SlotIn
      <4> QED
        BY <1>1, <2>1, <4>2, FreeListPushed
    <3> QED
      BY <3>1, <3>2
  <2> QED
    BY <2>2, <2>3
<1>5. OccupiedExact'
  BY <1>1, OccupiedCounted
<1> QED
  BY <1>3, <1>4, <1>5 DEF SlabInv

\* A step that only rewrites a live operation keeps the invariant.
LEMMA SetOpKeeps ==
  ASSUME SlabInv, NEW t \in Words, Occupied(t), NEW op \in Op, SetOp(t, op),
         UNCHANGED <<len, freeHead, occupied>>
  PROVE  SlabInv'
<1>1. TypeOK
  BY DEF SlabInv
<1>2. PICK i \in Indices : i = Index(t)
  BY IndexInRange
<1>3. i < len /\ slots[i].state = "Occupied"
  BY <1>2 DEF Occupied, Holds, SlotFor
<1>4. WritesOnly(i) /\ slots'[i].state = "Occupied"
  BY <1>1, <1>2, SetOpType
<1>5. occupied' = occupied /\ occupied \in Int
  BY <1>1 DEF TypeOK
<1> QED
  BY <1>3, <1>4, <1>5, SlotChangeKeeps

\* complete_cancel and cancel_request_not_enqueued keep the invariant.
LEMMA CancelOverKeeps ==
  ASSUME SlabInv, NEW t \in Words, NEW to \in CancelState, CancelOver(t, to)
  PROVE  SlabInv'
<1>1. TypeOK
  BY DEF SlabInv
<1>2. CASE Occupied(t) /\ SetOp(t, [OpOf(t) EXCEPT !.cancel = to]) /\ freeHead' = freeHead
  <2>1. OpOf(t) \in Op
    BY <1>1, <1>2, IndexInRange, SlotType DEF OpOf, Occupied, Holds, TypeOK
  <2>2. PICK op \in Op : op = [OpOf(t) EXCEPT !.cancel = to]
    BY <2>1, ChangedOpType
  <2>3. SetOp(t, op) /\ UNCHANGED <<len, freeHead, occupied>>
    BY <1>2, <2>2 DEF CancelOver
  <2> QED
    BY <1>2, <2>3, SetOpKeeps
<1>3. CASE Holds(t, "Tombstone") /\ FreeSlot(Index(t))
  <2>1. PICK i \in Indices : i = Index(t)
    BY IndexInRange
  <2>2. i < len /\ len' = len /\ slots[i].state = "Tombstone" /\ FreeSlot(i)
    BY <1>3, <2>1 DEF Holds, SlotFor, CancelOver
  <2>3. WritesOnly(i) /\ slots'[i].state # "Occupied"
    BY <1>1, <2>2, FreeSlotType
  <2>4. occupied' = occupied /\ occupied \in Int
    BY <1>1 DEF TypeOK, CancelOver
  <2> QED
    BY <2>2, <2>3, <2>4, SlotChangeKeeps
<1> QED
  BY <1>2, <1>3 DEF CancelOver

\* complete keeps the invariant, tombstone or not.
LEMMA CompleteKeeps ==
  ASSUME SlabInv, NEW t \in Words, Complete(t)
  PROVE  SlabInv'
<1>1. TypeOK
  BY DEF SlabInv
<1>2. PICK i \in Indices : i = Index(t)
  BY IndexInRange
<1>3. i < len /\ len' = len /\ slots[i].state = "Occupied"
  BY <1>2 DEF Complete, Occupied, Holds, SlotFor
<1>4. occupied' = occupied - 1 /\ occupied \in Int
  BY <1>1 DEF TypeOK, Complete
<1>5. CASE OpOf(t).cancel = "Pending"
  <2> DEFINE s == SlotIn("Tombstone", slots[i].generation, NoSlot, NoOp)
  <2>1. slots' = [slots EXCEPT ![i] = s] /\ freeHead' = freeHead
    BY <1>1, <1>2, <1>5 DEF Complete, TypeOK
  <2>2. slots[i].generation \in Generations /\ NoSlot \in Indices \cup {NoSlot}
    BY <1>1, SlotType DEF TypeOK
  <2>3. s \in Slot /\ s.state = "Tombstone"
    BY <2>2, SlotInType DEF SlotState, SlotIn
  <2> HIDE DEF s
  <2>4. WritesOnly(i) /\ slots'[i].state = "Tombstone"
    BY <1>1, <2>1, <2>3 DEF TypeOK, WritesOnly
  <2> QED
    BY <1>3, <1>4, <2>1, <2>4, SlotChangeKeeps
<1>6. CASE OpOf(t).cancel # "Pending"
  <2>1. FreeSlot(i)
    BY <1>2, <1>6 DEF Complete
  <2>2. WritesOnly(i) /\ slots'[i].state # "Occupied"
    BY <1>1, <2>1, FreeSlotType
  <2> QED
    BY <1>3, <1>4, <2>1, <2>2, SlotChangeKeeps
<1> QED
  BY <1>5, <1>6

\* promote_built_to_submitted keeps the invariant.
LEMMA PromoteKeeps ==
  ASSUME SlabInv, PromoteBuiltToSubmitted
  PROVE  SlabInv'
<1>1. TypeOK /\ FreeListExact /\ OccupiedExact
  BY DEF SlabInv
<1>2. len' = len /\ freeHead' = freeHead /\ occupied' = occupied
  BY DEF PromoteBuiltToSubmitted
<1>3. ASSUME NEW i \in Indices
      PROVE  /\ slots'[i] \in Slot
             /\ slots'[i].state = slots[i].state
             /\ slots[i].state # "Occupied" => slots'[i] = slots[i]
  <2>1. slots[i] \in Slot
    BY <1>1 DEF TypeOK
  <2>2. slots'[i] = IF slots[i].state = "Occupied"
                      THEN [slots[i] EXCEPT !.op = Promoted(slots[i].op)] ELSE slots[i]
    BY DEF PromoteBuiltToSubmitted
  <2>3. CASE slots[i].state = "Occupied"
    <3>1. PICK op \in Op : op = Promoted(slots[i].op)
      BY <2>1, <2>3, SlotType, ChangedOpType
    <3>2. slots'[i] = [slots[i] EXCEPT !.op = op]
      BY <2>2, <2>3, <3>1
    <3>3. [slots[i] EXCEPT !.op = op].state = "Occupied"
      BY <2>1, <2>3 DEF Slot
    <3> QED
      BY <2>1, <2>3, <3>2, <3>3, SlotType
  <2> QED
    BY <2>1, <2>2, <2>3
<1>4. TypeOK'
  <2>1. slots' \in [Indices -> Slot]
    <3>1. slots' = [i \in Indices |-> slots'[i]]
      BY DEF PromoteBuiltToSubmitted
    <3> QED
      BY <1>3, <3>1
  <2> QED
    BY <1>1, <1>2, <1>3, <2>1 DEF TypeOK
<1>5. FreeListExact'
  BY <1>1, <1>2, <1>3, FreeListKept DEF Vacant
<1>6. OccupiedExact'
  <2>1. Drained' = Drained
    BY <1>3 DEF Drained
  <2> QED
    BY <1>1, <1>2, <2>1 DEF OccupiedExact
<1> QED
  BY <1>4, <1>5, <1>6 DEF SlabInv

\* drain keeps the invariant.
LEMMA DrainKeeps ==
  ASSUME SlabInv, Drain
  PROVE  SlabInv'
<1>1. TypeOK /\ FreeListExact /\ OccupiedExact
  BY DEF SlabInv
<1>2. Drained' = {}
  <2>1. ASSUME NEW i \in Indices PROVE slots'[i].state # "Occupied"
    <3>1. slots'[i] = SlotAfterDrain(i)
      BY DEF Drain
    <3>2. CASE i \in Recycled
      <4>1. slots'[i] = SlotIn("Vacant", slots[i].generation + 1, LinkAfterDrain(i), NoOp)
        BY <3>1, <3>2 DEF SlotAfterDrain
      <4> QED
        BY <4>1 DEF SlotIn
    <3>3. CASE i \notin Recycled /\ i \in Drained
      <4>1. slots'[i] = SlotIn("Retired", slots[i].generation, NoSlot, NoOp)
        BY <3>1, <3>3 DEF SlotAfterDrain
      <4> QED
        BY <4>1 DEF SlotIn
    <3>4. CASE i \notin Drained
      BY <3>1, <3>4 DEF SlotAfterDrain, Recycled, Drained
    <3> QED
      BY <3>2, <3>3, <3>4
  <2> QED
    BY <2>1 DEF Drained
<1>3. occupied' = 0
  <2>1. Cardinality(Drained) \in Nat
    BY IndicesFinite DEF Drained
  <2> QED
    BY <1>1, <2>1 DEF Drain, OccupiedExact
<1>4. OccupiedExact'
  BY <1>2, <1>3, FS_EmptySet DEF OccupiedExact
<1> QED
  BY <1>1, <1>4, DrainType, FreeListDrained DEF SlabInv

\* A step that leaves the slab alone.
LEMMA UnchangedKeeps ==
  ASSUME SlabInv, UNCHANGED <<slots, len, freeHead, occupied>>
  PROVE  SlabInv'
<1>1. TypeOK /\ FreeListExact /\ OccupiedExact
  BY DEF SlabInv
<1>2. TypeOK'
  BY <1>1 DEF TypeOK
<1>3. FreeListExact'
  BY <1>1, FreeListKept
<1>4. OccupiedExact'
  BY <1>1 DEF OccupiedExact, Drained
<1> QED
  BY <1>2, <1>3, <1>4 DEF SlabInv

\* Every call keeps the invariant.
LEMMA NextKeepsSlabInv ==
  ASSUME SlabInv, [Next]_vars
  PROVE  SlabInv'
<1>1. TypeOK
  BY DEF SlabInv
<1>2. CASE UNCHANGED vars
  BY <1>2, UnchangedKeeps DEF vars
<1>3. ASSUME NEW p \in Payloads, Insert(p) PROVE SlabInv'
  <2>1. CASE InsertReusing(p)
    BY <2>1, InsertReusingKeeps
  <2>2. CASE InsertGrowing(p)
    BY <2>2, InsertGrowingKeeps
  <2>3. CASE InsertRefused(p)
    BY <2>3, UnchangedKeeps DEF InsertRefused
  <2> QED
    BY <1>3, <2>1, <2>2, <2>3 DEF Insert
<1>4. ASSUME NEW t \in Words, Occupied(t) PROVE OpOf(t) \in Op
  BY <1>1, <1>4, IndexInRange, SlotType DEF OpOf, Occupied, Holds, TypeOK
<1>5. ASSUME NEW t \in Words, NEW next \in Lifecycle, SetLifecycle(t, next)
      PROVE  SlabInv'
  <2>1. PICK op \in Op : op = Advanced(OpOf(t), next)
    BY <1>4, <1>5, ChangedOpType DEF SetLifecycle
  <2> QED
    BY <1>5, <2>1, SetOpKeeps DEF SetLifecycle
<1>6. ASSUME NEW t \in Words, Detach(t) PROVE SlabInv'
  <2>1. PICK op \in Op : op = [OpOf(t) EXCEPT !.observer = "Detached"]
    BY <1>4, <1>6, ChangedOpType DEF Detach
  <2> QED
    BY <1>6, <2>1, SetOpKeeps DEF Detach
<1>7. ASSUME NEW t \in Words, RegisterCancel(t) PROVE SlabInv'
  <2>1. PICK op \in Op : op = [OpOf(t) EXCEPT !.cancel = "Pending"]
    BY <1>4, <1>7, ChangedOpType DEF RegisterCancel, CancelState
  <2> QED
    BY <1>7, <2>1, SetOpKeeps DEF RegisterCancel
<1>8. ASSUME NEW t \in Words, CancelRequestNotEnqueued(t) \/ CompleteCancel(t)
      PROVE  SlabInv'
  BY <1>8, CancelOverKeeps DEF CancelRequestNotEnqueued, CompleteCancel, CancelState
<1>9. ASSUME NEW t \in Words, Unrecognised(t) PROVE SlabInv'
  BY <1>9, UnchangedKeeps DEF Unrecognised
<1> QED
  BY <1>2, <1>3, <1>5, <1>6, <1>7, <1>8, <1>9,
     CompleteKeeps, PromoteKeeps, DrainKeeps DEF Next

-----------------------------------------------------------------------------
(* Theorems. *)

\* The slab's inductive invariant holds in every reachable state.
THEOREM SlabInvariant == Spec => []SlabInv
<1>1. SlabInv /\ [Next]_vars => SlabInv'
  BY NextKeepsSlabInv
<1> QED
  BY <1>1, InitSlabInv, PTL DEF Spec

\* Every slot, the vector's length and the head of the free list stay in
\* their types whatever tokens the slab is called with (slab.rs:278-603).
THEOREM TypeCorrect == Spec => []TypeOK
<1>1. SlabInv => TypeOK
  BY DEF SlabInv
<1> QED
  BY <1>1, SlabInvariant, PTL

\* insert never finds an occupied slot at the head of the free list, so its
\* `unreachable!` (slab.rs:282) is unreachable, and no vacant slot is lost.
THEOREM FreeListCorrect == Spec => []FreeListExact
<1>1. SlabInv => FreeListExact
  BY DEF SlabInv
<1> QED
  BY <1>1, SlabInvariant, PTL

\* OpSlab::occupied counts the live operations, so its decrements in complete
\* and drain (slab.rs:512, 595) never underflow.
THEOREM OccupiedCorrect == Spec => []OccupiedExact
<1>1. SlabInv => OccupiedExact
  BY DEF SlabInv
<1> QED
  BY <1>1, SlabInvariant, PTL

\* No operation is named by user data 0, on any token layout (slab.rs:99-113).
THEOREM TokensNonZero == Spec => []NeverMintsZero
<1>1. Init => NeverMintsZero
  BY DEF Init, NeverMintsZero, Nothing, Minted
<1>2. SlabInv /\ NeverMintsZero /\ [Next]_vars => NeverMintsZero'
  <2> SUFFICES ASSUME SlabInv, NeverMintsZero, [Next]_vars PROVE NeverMintsZero'
    OBVIOUS
  <2>1. TypeOK /\ FreeListExact
    BY DEF SlabInv
  <2>2. ASSUME NEW i \in Indices, ret' = Minted(CurrentToken(i)) PROVE NeverMintsZero'
    <3>1. slots[i].generation \in Generations
      BY <2>1, SlotType DEF TypeOK
    <3>2. CurrentToken(i) # 0
      BY <3>1, NeverZero DEF CurrentToken, TokenKind
    <3> QED
      BY <2>2, <3>2 DEF NeverMintsZero, Minted
  <2>3. ASSUME NEW p \in Payloads, Insert(p) PROVE NeverMintsZero'
    <3>1. CASE InsertReusing(p)
      <4>1. freeHead \in Indices
        BY <2>1, <3>1 DEF InsertReusing, TypeOK
      <4> QED
        BY <2>2, <3>1, <4>1 DEF InsertReusing, Occupy
    <3>2. CASE InsertGrowing(p)
      <4>1. len \in Indices
        BY <2>1, <3>2, TokenAssumption DEF InsertGrowing, TypeOK, Indices
      <4> QED
        BY <2>2, <3>2, <4>1 DEF InsertGrowing, Occupy
    <3>3. CASE InsertRefused(p)
      BY <3>3 DEF InsertRefused, NeverMintsZero, Gave, Minted
    <3> QED
      BY <2>3, <3>1, <3>2, <3>3 DEF Insert
  <2>4. CASE UNCHANGED vars
    BY <2>4 DEF vars, NeverMintsZero
  <2>5. ASSUME ret' = Nothing PROVE NeverMintsZero'
    BY <2>5 DEF NeverMintsZero, Nothing, Minted
  <2>6. ASSUME NEW t \in Words, Complete(t) PROVE NeverMintsZero'
    BY <2>6 DEF Complete, NeverMintsZero, Gave, Minted
  <2>7. CASE Drain
    BY <2>7 DEF Drain, NeverMintsZero, Minted
  <2> QED
    BY <2>3, <2>4, <2>5, <2>6, <2>7 DEF Next, SetLifecycle, Detach, RegisterCancel,
       CancelRequestNotEnqueued, CompleteCancel, CancelOver, Unrecognised,
       PromoteBuiltToSubmitted
<1> QED
  BY <1>1, <1>2, SlabInvariant, PTL DEF Spec
-----------------------------------------------------------------------------
(* The slab implements a table of names that are never used twice. *)

\* The names are the tokens of an operation, one for each slot and generation.
LEMMA NameParts ==
  /\ \A t \in OpTokens : /\ Index(t) \in Indices /\ Generation(t) \in Generations
                         /\ t = NewToken("Operation", Index(t), Generation(t))
  /\ \A i \in Indices, g \in Generations :
       /\ NewToken("Operation", i, g) \in OpTokens
       /\ Index(NewToken("Operation", i, g)) = i /\ Generation(NewToken("Operation", i, g)) = g
<1>1. ASSUME NEW i \in Indices, NEW g \in Generations
      PROVE  /\ NewToken("Operation", i, g) \in OpTokens
             /\ Index(NewToken("Operation", i, g)) = i
             /\ Generation(NewToken("Operation", i, g)) = g
  <2>1. g \in 0 .. GenerationMask
    BY TokenAssumption DEF Generations, FirstGeneration
  <2> QED
    BY <2>1, TokenRoundTrip DEF OpTokens, TokenKind
<1>2. ASSUME NEW t \in OpTokens
      PROVE  /\ Index(t) \in Indices /\ Generation(t) \in Generations
             /\ t = NewToken("Operation", Index(t), Generation(t))
  <2>1. PICK i \in Indices, g \in Generations : t = NewToken("Operation", i, g)
    BY DEF OpTokens
  <2> QED
    BY <1>1, <2>1
<1> QED
  BY <1>1, <1>2

\* What a name stands for, by what its slot says.
EntryBySlot(t) ==
  LET s == slots[Index(t)]
      g == Generation(t)
  IN /\ s.generation # g =>
          EntryOf(t) = [op |-> NoOp, state |-> IF g < s.generation THEN "Done" ELSE "Unborn"]
     /\ s.generation = g /\ s.state \in {"Absent", "Vacant"} =>
          EntryOf(t) = [op |-> NoOp, state |-> "Unborn"]
     /\ s.generation = g /\ s.state = "Retired" =>
          EntryOf(t) = [op |-> NoOp, state |-> "Done"]
     /\ s.generation = g /\ s.state \in {"Occupied", "Tombstone"} =>
          EntryOf(t) = [op |-> s.op, state |-> s.state]
     /\ s.state # "Occupied" => s.op = NoOp
     /\ s.state \in SlotState /\ s.generation \in Generations /\ g \in Generations

LEMMA EntryIs == TypeOK => \A t \in OpTokens : EntryBySlot(t)
<1> SUFFICES ASSUME TypeOK, NEW t \in OpTokens PROVE EntryBySlot(t)
  OBVIOUS
<1> DEFINE i == Index(t)
<1>1. i \in Indices /\ Generation(t) \in Generations
  BY NameParts
<1>2. slots[i] \in Slot
  BY <1>1 DEF TypeOK
<1>3. slots[i].state # "Occupied" => slots[i].op = NoOp
  BY <1>2 DEF Slot
<1>4. slots[i].state \in SlotState /\ slots[i].generation \in Generations
  BY <1>2, SlotType
<1>5. slots[i].state = "Absent" <=> ~(i < len)
  BY <1>1 DEF TypeOK, Indices
<1>6. SlotFor(t) <=> slots[i].state # "Absent" /\ slots[i].generation = Generation(t)
  BY <1>5 DEF SlotFor
<1>7. ~(Generation(t) < Generation(t))
  BY <1>1 DEF Generations
<1> HIDE DEF i
<1>8. slots[Index(t)] = slots[i]
  BY DEF i
<1> QED
  BY <1>1, <1>3, <1>4, <1>6, <1>7, <1>8 DEF EntryBySlot, EntryOf, SlotState

LEMMA EntryWillBe == TypeOK' => \A t \in OpTokens : EntryBySlot(t)'
<1>1. TypeOK' => (\A t \in OpTokens : EntryBySlot(t))'
  BY EntryIs, PTL
<1> QED
  BY <1>1

\* An empty slab is an empty table.
LEMMA InitTable == Init => Table!TableInit
<1> SUFFICES ASSUME Init PROVE Table!TableInit
  OBVIOUS
<1>1. TypeOK
  BY InitSlabInv DEF SlabInv
<1>2. ASSUME NEW t \in OpTokens PROVE EntryOf(t) = Table!Entry("Unborn", NoOp)
  <2>1. slots[Index(t)].generation = FirstGeneration /\ slots[Index(t)].state = "Absent"
    BY NameParts DEF Init, SlotIn
  <2>2. ~(Generation(t) < FirstGeneration)
    BY NameParts, TokenAssumption DEF Generations, FirstGeneration
  <2> QED
    BY <1>1, <2>1, <2>2, EntryIs DEF EntryBySlot, Table!Entry
<1>3. ret = Table!Nothing
  BY DEF Init, Nothing, Table!Nothing
<1>4. Table!NoOp = NoOp
  BY DEF Table!NoOp, NoOp
<1> QED
  BY <1>2, <1>3, <1>4 DEF Table!TableInit

\* The names a call can move: the one its slot carries now.
LEMMA CurrentName ==
  ASSUME TypeOK, NEW i \in Indices
  PROVE  /\ CurrentToken(i) \in OpTokens
         /\ Index(CurrentToken(i)) = i
         /\ Generation(CurrentToken(i)) = slots[i].generation
         /\ \A t \in OpTokens : Index(t) = i /\ Generation(t) = slots[i].generation
                                  => t = CurrentToken(i)
<1>1. slots[i].generation \in Generations
  BY SlotType DEF TypeOK
<1> QED
  BY <1>1, NameParts DEF CurrentToken

\* Writing slot i moves no name but its current one, as long as the slot keeps
\* its generation or is freed for the next.
LEMMA OneEntry ==
  ASSUME TypeOK, TypeOK', NEW i \in Indices, WritesOnly(i),
         NEW n \in OpTokens, n = CurrentToken(i),
         \/ slots'[i].generation = slots[i].generation
         \/ slots'[i].generation = slots[i].generation + 1 /\ slots'[i].state = "Vacant",
         NEW e, EntryOf(n)' = e
  PROVE  Table!Set(n, e)
<1>1. ASSUME NEW t \in OpTokens, t # n PROVE EntryOf(t)' = EntryOf(t)
  <2>1. EntryBySlot(t) /\ EntryBySlot(t)' /\ Index(t) \in Indices
    BY EntryIs, EntryWillBe, NameParts
  <2>2. Index(t) = i => Generation(t) # slots[i].generation
    BY <1>1, CurrentName
  <2>3. CASE Index(t) # i
    <3>1. slots'[Index(t)] = slots[Index(t)]
      BY <2>1, <2>3 DEF WritesOnly
    <3> QED
      BY <2>1, <3>1 DEF EntryBySlot, SlotState
  <2>4. CASE Index(t) = i
    <3>1. EntryOf(t) = [op |-> NoOp, state |-> IF Generation(t) < slots[i].generation
                                                 THEN "Done" ELSE "Unborn"]
      BY <2>1, <2>2, <2>4 DEF EntryBySlot
    <3>2. slots[i].generation \in Int /\ Generation(t) \in Int
      BY <2>1, <2>4 DEF EntryBySlot, Generations
    <3>3. CASE slots'[i].generation = Generation(t)
      <4>1. slots'[i].state = "Vacant" /\ ~(Generation(t) < slots[i].generation)
        BY <2>2, <2>4, <3>2, <3>3
      <4> QED
        BY <2>1, <2>4, <3>1, <3>3, <4>1 DEF EntryBySlot
    <3>4. CASE slots'[i].generation # Generation(t)
      <4>1. (Generation(t) < slots'[i].generation) = (Generation(t) < slots[i].generation)
        BY <2>2, <2>4, <3>2, <3>4
      <4> QED
        BY <2>1, <2>4, <3>1, <3>4, <4>1 DEF EntryBySlot
    <3> QED
      BY <3>3, <3>4
  <2> QED
    BY <2>3, <2>4
<1> QED
  BY <1>1 DEF Table!Set

\* The slot of an operation gets another record: only its entry changes.
LEMMA ChangeMoves ==
  ASSUME TypeOK, TypeOK', NEW t \in Words, Occupied(t), NEW op \in Op, SetOp(t, op),
         ret' = Nothing
  PROVE  \E n \in OpTokens : /\ EntryOf(n) = Table!Entry("Occupied", OpOf(t))
                             /\ Table!Change(n, op)
<1> DEFINE i == Index(t)
<1>1. i \in Indices /\ slots[i].state = "Occupied" /\ slots[i] \in Slot
  BY IndexInRange DEF Occupied, Holds, TypeOK
<1>2. PICK n \in OpTokens : n = CurrentToken(i)
  BY <1>1, CurrentName
<1>3. Index(n) = i /\ Generation(n) = slots[i].generation
  BY <1>1, <1>2, CurrentName
<1>4. EntryOf(n) = Table!Entry("Occupied", OpOf(t))
  BY <1>1, <1>3, EntryIs DEF EntryBySlot, OpOf, Table!Entry
<1>5. /\ slots'[i].state = "Occupied" /\ slots'[i].op = op
      /\ slots'[i].generation = slots[i].generation
  <2>1. slots'[i] = [slots[i] EXCEPT !.op = op]
    BY <1>1 DEF SetOp, TypeOK
  <2> QED
    BY <1>1, <2>1 DEF Slot
<1>6. WritesOnly(i)
  BY <1>1 DEF WritesOnly, SetOp, TypeOK
<1>7. EntryOf(n)' = Table!Entry("Occupied", op)
  BY <1>3, <1>5, EntryWillBe DEF EntryBySlot, Table!Entry
<1>8. Table!Set(n, Table!Entry("Occupied", op))
  BY <1>1, <1>2, <1>5, <1>6, <1>7, OneEntry
<1> QED
  BY <1>2, <1>4, <1>8 DEF Table!Change, Table!Live, Table!Entry, Table!Nothing, Nothing

\* A slot that is freed leaves its name Done.
LEMMA FreeMoves ==
  ASSUME TypeOK, TypeOK', NEW i \in Indices, FreeSlot(i),
         NEW n \in OpTokens, n = CurrentToken(i)
  PROVE  Table!Set(n, Table!Entry("Done", NoOp))
<1>1. slots[i].generation \in Generations /\ slots'[i].generation \in Generations
  BY SlotType DEF TypeOK
<1>2. Index(n) = i /\ Generation(n) = slots[i].generation
  BY CurrentName
<1>3. WritesOnly(i)
  BY DEF WritesOnly, FreeSlot, TypeOK
<1>4. EntryBySlot(n)'
  BY EntryWillBe
<1>5. CASE slots[i].generation >= GenerationMask
  <2>1. slots'[i].state = "Retired" /\ slots'[i].generation = slots[i].generation
    BY <1>5 DEF FreeSlot, SlotIn, TypeOK
  <2>2. EntryOf(n)' = Table!Entry("Done", NoOp)
    BY <1>2, <1>4, <2>1 DEF EntryBySlot, Table!Entry
  <2> QED
    BY <1>3, <2>1, <2>2, OneEntry
<1>6. CASE ~(slots[i].generation >= GenerationMask)
  <2>1. slots'[i].state = "Vacant" /\ slots'[i].generation = slots[i].generation + 1
    BY <1>6 DEF FreeSlot, SlotIn, TypeOK
  <2>2. Generation(n) < slots'[i].generation
    BY <1>1, <1>2, <2>1 DEF Generations
  <2>3. EntryOf(n)' = Table!Entry("Done", NoOp)
    BY <1>1, <1>2, <1>4, <2>1, <2>2 DEF EntryBySlot, Table!Entry, Generations
  <2> QED
    BY <1>3, <2>1, <2>3, OneEntry
<1> QED
  BY <1>5, <1>6

\* Every call of the slab is a step of the table (slab.rs:278-603).
LEMMA OccupyImplements ==
  ASSUME TypeOK, TypeOK', NEW i \in Indices, NEW p \in Payloads, Occupy(i, p),
         slots[i].state \in {"Absent", "Vacant"}
  PROVE  Table!TableNext
<1>1. PICK n \in OpTokens : n = CurrentToken(i)
  BY CurrentName
<1>2. Index(n) = i /\ Generation(n) = slots[i].generation
  BY <1>1, CurrentName
<1>3. EntryOf(n).state = "Unborn"
  BY <1>2, EntryIs DEF EntryBySlot
<1>4. /\ slots'[i].state = "Occupied" /\ slots'[i].op = NewOp(p)
      /\ slots'[i].generation = slots[i].generation
  BY DEF Occupy, SlotIn, TypeOK
<1>5. WritesOnly(i)
  BY DEF WritesOnly, Occupy, TypeOK
<1>6. EntryOf(n)' = Table!Entry("Occupied", NewOp(p))
  BY <1>2, <1>4, EntryWillBe DEF EntryBySlot, Table!Entry
<1>7. Table!Set(n, Table!Entry("Occupied", NewOp(p)))
  BY <1>1, <1>4, <1>5, <1>6, OneEntry
<1>8. Table!NewOp(p) = NewOp(p) /\ Table!Minted(n) = Minted(n)
  BY DEF Table!NewOp, NewOp, Table!Minted, Minted
<1>9. Table!Place(n, p)
  BY <1>1, <1>3, <1>7, <1>8 DEF Table!Place, Occupy
<1> QED
  BY <1>9 DEF Table!TableNext

LEMMA InsertImplements ==
  ASSUME SlabInv, TypeOK', NEW p \in Payloads, Insert(p)
  PROVE  Table!TableNext
<1>1. TypeOK /\ FreeListExact
  BY DEF SlabInv
<1>2. CASE InsertReusing(p)
  <2>1. freeHead \in Indices /\ slots[freeHead].state = "Vacant"
    BY <1>1, <1>2 DEF InsertReusing, FreeListExact, NumbersFreeList, Vacant
  <2> QED
    BY <1>1, <1>2, <2>1, OccupyImplements DEF InsertReusing
<1>3. CASE InsertGrowing(p)
  <2>1. len \in Indices /\ slots[len].state = "Absent"
    BY <1>1, <1>3, TokenAssumption DEF InsertGrowing, TypeOK, Indices
  <2> QED
    BY <1>1, <1>3, <2>1, OccupyImplements DEF InsertGrowing
<1>4. CASE InsertRefused(p)
  <2>1. \A t \in OpTokens : EntryOf(t)' = EntryOf(t)
    BY <1>4 DEF InsertRefused, EntryOf, SlotFor
  <2>2. Table!Refuse(p)
    BY <1>4, <2>1 DEF InsertRefused, Table!Refuse, Table!Gave, Gave
  <2> QED
    BY <2>2 DEF Table!TableNext
<1> QED
  BY <1>2, <1>3, <1>4 DEF Insert

LEMMA RecordImplements ==
  ASSUME TypeOK, TypeOK', NEW t \in Words,
         \/ \E next \in Lifecycle : SetLifecycle(t, next)
         \/ Detach(t)
         \/ RegisterCancel(t)
  PROVE  Table!TableNext
<1>1. Occupied(t) => OpOf(t) \in Op
  BY IndexInRange, SlotType DEF Occupied, Holds, OpOf, TypeOK, Slot
<1>2. ASSUME NEW next \in Lifecycle, SetLifecycle(t, next) PROVE Table!TableNext
  <2>1. PICK n \in OpTokens : /\ EntryOf(n) = Table!Entry("Occupied", OpOf(t))
                              /\ Table!Change(n, Advanced(OpOf(t), next))
    BY <1>1, <1>2, ChangeMoves, ChangedOpType DEF SetLifecycle
  <2>2. Table!Advanced(OpOf(t), next) = Advanced(OpOf(t), next) /\ next \in Table!Lifecycle
    BY DEF Table!Advanced, Advanced, Table!Forward, Forward, Table!Lifecycle, Lifecycle
  <2>3. EntryOf(n).op = OpOf(t)
    BY <2>1 DEF Table!Entry
  <2>4. Table!Progress(n)
    BY <2>1, <2>2, <2>3 DEF Table!Progress
  <2> QED
    BY <2>4 DEF Table!TableNext
<1>3. ASSUME Detach(t) PROVE Table!TableNext
  <2>1. PICK n \in OpTokens : /\ EntryOf(n) = Table!Entry("Occupied", OpOf(t))
                              /\ Table!Change(n, [OpOf(t) EXCEPT !.observer = "Detached"])
    BY <1>1, <1>3, ChangeMoves, ChangedOpType DEF Detach
  <2>2. EntryOf(n).op = OpOf(t)
    BY <2>1 DEF Table!Entry
  <2>3. Table!Abandon(n)
    BY <2>1, <2>2 DEF Table!Abandon
  <2> QED
    BY <2>3 DEF Table!TableNext
<1>4. ASSUME RegisterCancel(t) PROVE Table!TableNext
  <2>1. PICK n \in OpTokens : /\ EntryOf(n) = Table!Entry("Occupied", OpOf(t))
                              /\ Table!Change(n, [OpOf(t) EXCEPT !.cancel = "Pending"])
    BY <1>1, <1>4, ChangeMoves, ChangedOpType DEF RegisterCancel, CancelState
  <2>2. EntryOf(n).op = OpOf(t) /\ EntryOf(n).state = "Occupied"
    BY <2>1 DEF Table!Entry
  <2>3. Table!Cancellation(n)
    BY <1>4, <2>1, <2>2 DEF Table!Cancellation, Table!MoveCancel, Table!Live, RegisterCancel
  <2> QED
    BY <2>3 DEF Table!TableNext
<1> QED
  BY <1>2, <1>3, <1>4

LEMMA CancelOverImplements ==
  ASSUME TypeOK, TypeOK', NEW t \in Words, NEW to \in {"NeverRequested", "Completed"},
         CancelOver(t, to)
  PROVE  Table!TableNext
<1>1. Index(t) \in Indices /\ ret' = Nothing
  BY IndexInRange DEF CancelOver
<1>2. CASE Occupied(t)
  <2>1. OpOf(t) \in Op
    BY <1>1, <1>2, SlotType DEF Occupied, Holds, OpOf, TypeOK, Slot
  <2>2. OpOf(t).cancel = "Pending" /\ SetOp(t, [OpOf(t) EXCEPT !.cancel = to])
    BY <1>2 DEF CancelOver, Occupied, Holds
  <2>3. PICK n \in OpTokens : /\ EntryOf(n) = Table!Entry("Occupied", OpOf(t))
                              /\ Table!Change(n, [OpOf(t) EXCEPT !.cancel = to])
    BY <1>1, <1>2, <2>1, <2>2, ChangeMoves, ChangedOpType DEF CancelState
  <2>4. EntryOf(n).op = OpOf(t) /\ EntryOf(n).state = "Occupied"
    BY <2>3 DEF Table!Entry
  <2>5. Table!Cancellation(n)
    BY <2>2, <2>3, <2>4 DEF Table!Cancellation, Table!MoveCancel, Table!Live
  <2> QED
    BY <2>5 DEF Table!TableNext
<1>3. CASE ~Occupied(t)
  <2>1. slots[Index(t)].state = "Tombstone" /\ FreeSlot(Index(t))
    BY <1>3 DEF CancelOver, Holds
  <2>2. PICK n \in OpTokens : n = CurrentToken(Index(t))
    BY <1>1, CurrentName
  <2>3. EntryOf(n).state = "Tombstone"
    BY <1>1, <2>1, <2>2, CurrentName, EntryIs DEF EntryBySlot
  <2>4. Table!Set(n, Table!Entry("Done", NoOp))
    BY <1>1, <2>1, <2>2, FreeMoves
  <2>5. Table!Bury(n)
    BY <1>1, <2>3, <2>4 DEF Table!Bury, Table!Nothing, Nothing, Table!NoOp, NoOp
  <2> QED
    BY <2>5 DEF Table!TableNext
<1> QED
  BY <1>2, <1>3

LEMMA CompleteImplements ==
  ASSUME TypeOK, TypeOK', NEW t \in Words, Complete(t)
  PROVE  Table!TableNext
<1> DEFINE i == Index(t)
<1>1. i \in Indices /\ slots[i].state = "Occupied" /\ ret' = Gave(slots[i].op.payload)
  BY IndexInRange DEF Complete, Occupied, Holds, OpOf
<1>2. PICK n \in OpTokens : n = CurrentToken(i)
  BY <1>1, CurrentName
<1>3. Index(n) = i /\ Generation(n) = slots[i].generation
  BY <1>1, <1>2, CurrentName
<1>4. EntryOf(n).state = "Occupied" /\ EntryOf(n).op = slots[i].op
  BY <1>1, <1>3, EntryIs DEF EntryBySlot
<1>5. Table!NoOp = NoOp /\ Table!Gave(slots[i].op.payload) = Gave(slots[i].op.payload)
  BY DEF Table!NoOp, NoOp, Table!Gave, Gave
<1>6. CASE slots[i].op.cancel = "Pending"
  <2>1. slots' = [slots EXCEPT ![i] = SlotIn("Tombstone", @.generation, NoSlot, NoOp)]
    BY <1>6 DEF Complete, OpOf
  <2>2. /\ slots'[i].state = "Tombstone" /\ slots'[i].op = NoOp
        /\ slots'[i].generation = slots[i].generation
    BY <1>1, <2>1 DEF SlotIn, TypeOK
  <2>3. WritesOnly(i)
    BY <1>1, <2>1 DEF WritesOnly, TypeOK
  <2>4. EntryOf(n)' = Table!Entry("Tombstone", NoOp)
    BY <1>3, <2>2, EntryWillBe DEF EntryBySlot, Table!Entry
  <2>5. Table!Set(n, Table!Entry("Tombstone", NoOp))
    BY <1>1, <1>2, <2>2, <2>3, <2>4, OneEntry
  <2>6. Table!Resolve(n)
    BY <1>1, <1>2, <1>4, <1>5, <1>6, <2>5 DEF Table!Resolve, Table!Live
  <2> QED
    BY <2>6 DEF Table!TableNext
<1>7. CASE slots[i].op.cancel # "Pending"
  <2>1. FreeSlot(i)
    BY <1>7 DEF Complete, OpOf
  <2>2. Table!Set(n, Table!Entry("Done", NoOp))
    BY <1>1, <1>2, <2>1, FreeMoves
  <2>3. Table!Resolve(n)
    BY <1>1, <1>2, <1>4, <1>5, <1>7, <2>2 DEF Table!Resolve, Table!Live
  <2> QED
    BY <2>3 DEF Table!TableNext
<1> QED
  BY <1>6, <1>7

LEMMA PromoteImplements ==
  ASSUME TypeOK, TypeOK', PromoteBuiltToSubmitted
  PROVE  Table!TableNext
<1>1. ASSUME NEW n \in OpTokens
      PROVE  EntryOf(n)' = IF EntryOf(n).state = "Occupied"
                             THEN Table!Entry("Occupied", Promoted(EntryOf(n).op))
                             ELSE EntryOf(n)
  <2> DEFINE i == Index(n)
  <2>1. EntryBySlot(n) /\ EntryBySlot(n)' /\ i \in Indices /\ slots[i] \in Slot
    BY EntryIs, EntryWillBe, NameParts DEF TypeOK
  <2>2. slots'[i] = IF slots[i].state = "Occupied"
                      THEN [slots[i] EXCEPT !.op = Promoted(@)] ELSE slots[i]
    BY <2>1 DEF PromoteBuiltToSubmitted
  <2>3. CASE slots[i].state = "Occupied"
    <3>1. /\ slots'[i].state = "Occupied" /\ slots'[i].op = Promoted(slots[i].op)
          /\ slots'[i].generation = slots[i].generation
      BY <2>1, <2>2, <2>3 DEF Slot
    <3>2. CASE slots[i].generation = Generation(n)
      BY <2>1, <2>3, <3>1, <3>2 DEF EntryBySlot, Table!Entry
    <3>3. CASE slots[i].generation # Generation(n)
      BY <2>1, <2>3, <3>1, <3>3 DEF EntryBySlot, Table!Entry
    <3> QED
      BY <3>2, <3>3
  <2>4. CASE slots[i].state # "Occupied"
    <3>1. slots'[i] = slots[i]
      BY <2>2, <2>4
    <3> QED
      BY <2>1, <2>4, <3>1 DEF EntryBySlot, SlotState
  <2> QED
    BY <2>3, <2>4
<1>2. \A op : Table!Promoted(op) = Promoted(op)
  BY DEF Table!Promoted, Promoted
<1>3. ret' = Table!Nothing
  BY DEF PromoteBuiltToSubmitted, Table!Nothing, Nothing
<1>4. Table!PromoteAll
  BY <1>1, <1>2, <1>3 DEF Table!PromoteAll, Table!Live
<1> QED
  BY <1>4 DEF Table!TableNext

\* drain hands out every live operation's payload under its own name.
LEMMA DrainImplements ==
  ASSUME TypeOK, TypeOK', Drain
  PROVE  Table!TableNext
<1> DEFINE LiveNames == {m \in OpTokens : EntryOf(m).state = "Occupied"}
<1>1. ASSUME NEW n \in OpTokens
      PROVE  /\ n \in LiveNames <=> /\ slots[Index(n)].state = "Occupied"
                                    /\ slots[Index(n)].generation = Generation(n)
             /\ n \in LiveNames => EntryOf(n).op = slots[Index(n)].op
  BY EntryIs DEF EntryBySlot, SlotState
<1>2. LiveNames = {CurrentToken(i) : i \in Drained}
  <2>1. ASSUME NEW n \in LiveNames PROVE n \in {CurrentToken(i) : i \in Drained}
    <3>1. Index(n) \in Drained
      BY <1>1, <2>1, NameParts DEF Drained
    <3>2. n = CurrentToken(Index(n))
      BY <1>1, <2>1, <3>1, CurrentName DEF Drained
    <3> QED
      BY <3>1, <3>2
  <2>2. ASSUME NEW i \in Drained PROVE CurrentToken(i) \in LiveNames
    <3>1. PICK n \in OpTokens : n = CurrentToken(i)
      BY CurrentName DEF Drained
    <3> QED
      BY <1>1, <2>2, <3>1, CurrentName DEF Drained
  <2> QED
    BY <2>1, <2>2
<1>3. ret' = <<"payloads", [n \in LiveNames |-> EntryOf(n).op.payload]>>
  <2>1. \A n \in LiveNames : OpOf(n).payload = EntryOf(n).op.payload
    BY <1>1 DEF OpOf
  <2>2. ret' = <<"payloads", [n \in LiveNames |-> OpOf(n).payload]>>
    BY <1>2 DEF Drain
  <2> QED
    BY <2>1, <2>2
<1>4. ASSUME NEW n \in OpTokens
      PROVE  EntryOf(n)' = IF EntryOf(n).state = "Occupied"
                             THEN Table!Entry("Done", NoOp) ELSE EntryOf(n)
  <2> DEFINE i == Index(n)
  <2>1. EntryBySlot(n) /\ EntryBySlot(n)' /\ i \in Indices
    BY EntryIs, EntryWillBe, NameParts
  <2>2. slots'[i] = SlotAfterDrain(i)
    BY <2>1 DEF Drain
  <2>3. slots[i].generation \in Nat /\ Generation(n) \in Nat
    BY <2>1, TokenAssumption DEF EntryBySlot, Generations, FirstGeneration
  <2>4. CASE i \in Recycled
    <3>1. slots'[i].state = "Vacant" /\ slots'[i].generation = slots[i].generation + 1
      BY <2>2, <2>4 DEF SlotAfterDrain, SlotIn
    <3>2. slots[i].state = "Occupied"
      BY <2>4 DEF Recycled, Drained
    <3>3. CASE slots[i].generation = Generation(n)
      <4>1. Generation(n) < slots'[i].generation /\ slots'[i].generation # Generation(n)
        BY <2>3, <3>1, <3>3
      <4> QED
        BY <2>1, <3>2, <3>3, <4>1 DEF EntryBySlot, Table!Entry
    <3>4. CASE slots[i].generation # Generation(n)
      <4>1. EntryOf(n) = [op |-> NoOp, state |-> IF Generation(n) < slots[i].generation
                                                   THEN "Done" ELSE "Unborn"]
        BY <2>1, <3>4 DEF EntryBySlot
      <4>2. CASE slots'[i].generation = Generation(n)
        <5>1. ~(Generation(n) < slots[i].generation)
          BY <2>3, <3>1, <4>2
        <5> QED
          BY <2>1, <3>1, <4>1, <4>2, <5>1 DEF EntryBySlot
      <4>3. CASE slots'[i].generation # Generation(n)
        <5>1. (Generation(n) < slots'[i].generation) = (Generation(n) < slots[i].generation)
          BY <2>3, <3>1, <3>4, <4>3
        <5> QED
          BY <2>1, <4>1, <4>3, <5>1 DEF EntryBySlot
      <4> QED
        BY <4>2, <4>3
    <3> QED
      BY <3>3, <3>4
  <2>5. CASE i \in Drained \ Recycled
    <3>1. slots'[i].state = "Retired" /\ slots'[i].generation = slots[i].generation
      BY <2>2, <2>5 DEF SlotAfterDrain, SlotIn
    <3>2. slots[i].state = "Occupied"
      BY <2>5 DEF Drained
    <3>3. CASE slots[i].generation = Generation(n)
      BY <2>1, <3>1, <3>2, <3>3 DEF EntryBySlot, Table!Entry
    <3>4. CASE slots[i].generation # Generation(n)
      BY <2>1, <3>1, <3>2, <3>4 DEF EntryBySlot, Table!Entry
    <3> QED
      BY <3>3, <3>4
  <2>6. CASE i \notin Drained
    <3>1. slots'[i] = slots[i] /\ slots[i].state # "Occupied"
      BY <2>1, <2>2, <2>6 DEF SlotAfterDrain, Recycled, Drained
    <3> QED
      BY <2>1, <3>1 DEF EntryBySlot, SlotState
  <2> QED
    BY <2>4, <2>5, <2>6 DEF Recycled
<1>5. Table!NoOp = NoOp
  BY DEF Table!NoOp, NoOp
<1>6. Table!TakeAll
  BY <1>3, <1>4, <1>5 DEF Table!TakeAll, Table!Live
<1> QED
  BY <1>6 DEF Table!TableNext

LEMMA NextImplements ==
  ASSUME SlabInv, [Next]_vars
  PROVE  [Table!TableNext]_(Table!tableVars)
<1>1. TypeOK
  BY DEF SlabInv
<1>2. TypeOK'
  BY NextKeepsSlabInv DEF SlabInv
<1>3. ASSUME NEW t \in Words, Unrecognised(t) PROVE Table!TableNext
  <2>1. \A n \in OpTokens : EntryOf(n)' = EntryOf(n)
    BY <1>3 DEF Unrecognised, EntryOf, SlotFor
  <2>2. Table!Ignore
    BY <1>3, <2>1 DEF Unrecognised, Table!Ignore, Table!Nothing, Nothing
  <2> QED
    BY <2>2 DEF Table!TableNext
<1>4. CASE UNCHANGED vars
  <2>1. \A n \in OpTokens : EntryOf(n)' = EntryOf(n)
    BY <1>4 DEF vars, EntryOf, SlotFor
  <2>2. UNCHANGED Table!tableVars
    BY <1>4, <2>1 DEF vars, Table!tableVars
  <2> QED
    BY <2>2
<1>5. ASSUME NEW t \in Words, CancelRequestNotEnqueued(t) \/ CompleteCancel(t)
      PROVE  Table!TableNext
  BY <1>1, <1>2, <1>5, CancelOverImplements DEF CancelRequestNotEnqueued, CompleteCancel
<1> QED
  BY <1>1, <1>2, <1>3, <1>4, <1>5, InsertImplements, RecordImplements,
     CompleteImplements, PromoteImplements, DrainImplements DEF Next

\* OpSlab implements OpTable for every layout of the token: no name is used
\* twice, a payload is handed back once and under its own name, and a slot
\* whose cancellation is still to report names nothing new (slab.rs:17-26,
\* 278-603).
THEOREM SlabImplementsTable == Spec => ImplementsTable
<1>1. SlabInv /\ [Next]_vars => [Table!TableNext]_(Table!tableVars)
  BY NextImplements
<1> QED
  BY <1>1, InitTable, SlabInvariant, PTL DEF Spec, ImplementsTable, Table!TableSpec
=============================================================================
