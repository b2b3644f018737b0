----------------------- MODULE MemoryManagementProofs -----------------------
(***************************************************************************)
(* Proofs about MemoryManagement, for every arena, alignment and table     *)
(* length: the allocator never hands out a byte twice, loses none, and     *)
(* implements Heap.                                                        *)
(***************************************************************************)
EXTENDS MCMemoryManagement, TLAPS

(* The invariant holds of the tables _malloc_array_init sets up. *)
LEMMA InitHeapInv == Init => HeapInv
<1> SUFFICES ASSUME Init PROVE HeapInv
  OBVIOUS
<1> USE HeapConstants DEF HeapConstants
<1>1. /\ 0 \in FreeSlots
      /\ Free_blocks[0] = WholeArena
      /\ \A i \in FreeSlots : i # 0 => Free_blocks[i] = NoBlock
      /\ \A i \in AllocatedSlots : Allocated_blocks[i] = NoBlock
  BY DEF Init, FreeSlots, AllocatedSlots
<1>2. TypeOK
  <2>1. WholeArena \in Block /\ NoBlock \in Block
    BY DEF Block, WholeArena, NoBlock, free_memory_end
  <2>2. Free_blocks \in [FreeSlots -> Block]
    BY <2>1 DEF Init
  <2>3. Allocated_blocks \in [AllocatedSlots -> Block]
    BY <2>1 DEF Init
  <2> QED
    BY <2>2, <2>3 DEF Init, TypeOK, Messages
<1>3. \A i \in FreeSlots : /\ WellFormed(Free_blocks[i])
                           /\ i >= Blocks_count => ~Free_blocks[i].is_valid
  BY <1>1 DEF Init, WellFormed, WholeArena, NoBlock, FreeSlots, free_memory_end
<1>4. \A i \in AllocatedSlots :
         /\ WellFormed(Allocated_blocks[i])
         /\ i >= Allocated_blocks_count => ~Allocated_blocks[i].is_valid
  BY <1>1 DEF WellFormed, NoBlock
<1>5. NoOverlap
  BY <1>1 DEF NoOverlap, NoBlock
<1>6. NoLeak
  BY <1>1 DEF NoLeak, Within, WholeArena, free_memory_end
<1> QED
  BY <1>2, <1>3, <1>4, <1>5, <1>6 DEF HeapInv

(* Rounding stays within size_t, also when the sum wraps around. *)
LEMMA RoundedType == ASSUME NEW size \in Sizes PROVE Rounded(size) \in 0 .. WORD - 1
<1> USE HeapConstants DEF HeapConstants
<1>1. size \in 0 .. WORD - 1 /\ WORD \in Nat \ {0} /\ ALIGN \in Nat \ {0}
  OBVIOUS
<1>2. size % ALIGN \in Nat
  BY <1>1
<1>3. size + (ALIGN - (size % ALIGN)) \in Int
  BY <1>1, <1>2
<1>4. \A x \in Int : x % WORD \in 0 .. WORD - 1
  BY <1>1
<1> QED
  BY <1>1, <1>3, <1>4 DEF Rounded

(* malloc keeps the invariant, the malloc that ends in fatal because the   *)
(* allocated table is full included.                                       *)
LEMMA MallocHeapInv == ASSUME HeapInv, NEW size \in Sizes, Malloc(size)
                       PROVE  HeapInv'
<1> USE HeapConstants DEF HeapConstants
<1> DEFINE n == Rounded(size)
<1>n. n \in 0 .. WORD - 1
  BY RoundedType
<1> HIDE DEF n
<1>1. PICK i \in FreeSlots : MallocFrom(i, n)
  BY DEF Malloc, n
<1> DEFINE F == Free_blocks[i]
           c == Allocated_blocks_count
           new == [start |-> F.start, end |-> F.start + n, size |-> n,
                   is_valid |-> TRUE]
           rest == [start |-> F.start + n, end |-> F.end, size |-> F.size - n,
                    is_valid |-> TRUE]
<1>2. /\ F \in Block /\ F.is_valid /\ F.size >= n
      /\ F.start + F.size = F.end
      /\ free_memory_start <= F.start /\ F.end <= free_memory_end
  BY <1>1 DEF MallocFrom, FirstMatch, Fits, HeapInv, TypeOK, WellFormed, Block
<1>3. /\ F.start \in 0 .. WORD - 1 /\ F.end \in 0 .. WORD - 1
      /\ F.size \in 0 .. WORD - 1
  BY <1>2 DEF Block
<1>4. new \in Block /\ rest \in Block
  BY <1>n, <1>2, <1>3 DEF Block
<1>5. /\ Free_blocks' \in [FreeSlots -> Block]
      /\ Free_blocks'[i] = rest
      /\ \A j \in FreeSlots : j # i => Free_blocks'[j] = Free_blocks[j]
  <2>1. Taken(F, n) = rest
    BY <1>2 DEF Taken, Block
  <2>2. Free_blocks \in [FreeSlots -> Block]
    BY DEF HeapInv, TypeOK
  <2>3. Free_blocks' = [Free_blocks EXCEPT ![i] = rest]
    BY <1>1, <2>1 DEF MallocFrom
  <2> HIDE DEF rest
  <2> QED
    BY <1>4, <2>2, <2>3
<1>6. /\ Allocated_blocks' \in [AllocatedSlots -> Block]
      /\ c \in AllocatedSlots => Allocated_blocks'[c] = new
      /\ \A j \in AllocatedSlots :
            j # c => Allocated_blocks'[j] = Allocated_blocks[j]
  BY <1>1, <1>4 DEF MallocFrom, HeapInv, TypeOK
<1>7. /\ \/ /\ c < allocated_table_length
            /\ Allocated_blocks_count' = c + 1 /\ halted' = "no"
         \/ /\ c = allocated_table_length
            /\ Allocated_blocks_count' = c /\ halted' = "allocated_table_full"
      /\ c \in 0 .. allocated_table_length
      /\ Blocks_count' = Blocks_count
  BY <1>1 DEF MallocFrom, Malloc, HeapInv, TypeOK
<1>8. TypeOK'
  BY <1>5, <1>6, <1>7 DEF TypeOK, Messages, HeapInv
<1>9. \A j \in FreeSlots :
         (WellFormed(Free_blocks[j])
            /\ (j >= Blocks_count => ~Free_blocks[j].is_valid))'
  <2> SUFFICES ASSUME NEW j \in FreeSlots
               PROVE  /\ WellFormed(Free_blocks'[j])
                      /\ j >= Blocks_count => ~Free_blocks'[j].is_valid
    BY <1>7 DEF WellFormed
  <2>1. CASE j = i
    <3>1. WellFormed(rest)
      BY <1>n, <1>2, <1>3 DEF WellFormed, free_memory_end
    <3>2. i < Blocks_count
      BY <1>1 DEF MallocFrom, FirstMatch
    <3>3. ~(i >= Blocks_count)
      BY <3>2 DEF FreeSlots, HeapInv, TypeOK
    <3> QED
      BY <2>1, <3>1, <3>3, <1>5
  <2>2. CASE j # i
    BY <2>2, <1>5 DEF HeapInv
  <2> QED
    BY <2>1, <2>2
<1>10. \A j \in AllocatedSlots :
         (WellFormed(Allocated_blocks[j])
            /\ (j >= Allocated_blocks_count => ~Allocated_blocks[j].is_valid))'
  <2> SUFFICES ASSUME NEW j \in AllocatedSlots
               PROVE  /\ WellFormed(Allocated_blocks'[j])
                      /\ j >= Allocated_blocks_count'
                            => ~Allocated_blocks'[j].is_valid
    BY DEF WellFormed
  <2>1. CASE j = c
    <3>1. WellFormed(new)
      BY <1>n, <1>2, <1>3 DEF WellFormed, free_memory_end
    <3>2. ~(j >= Allocated_blocks_count')
      BY <2>1, <1>7 DEF AllocatedSlots
    <3> HIDE DEF new
    <3> QED
      BY <2>1, <3>1, <3>2, <1>6
  <2>2. CASE j # c
    BY <2>2, <1>6, <1>7 DEF HeapInv, AllocatedSlots
  <2> QED
    BY <2>1, <2>2
<1>11. /\ \A b \in Block : Disjoint(b, F) => Disjoint(b, new) /\ Disjoint(b, rest)
       /\ \A b \in Block : Disjoint(F, b) => Disjoint(new, b) /\ Disjoint(rest, b)
       /\ Disjoint(new, rest)
  BY <1>n, <1>2, <1>3 DEF Disjoint, Block
<1>12. /\ \A j \in FreeSlots : Free_blocks[j] \in Block
       /\ \A j \in AllocatedSlots : Allocated_blocks[j] \in Block
  BY DEF HeapInv, TypeOK
<1>13. NoOverlap'
  <2>1. ASSUME NEW j \in AllocatedSlots, NEW k \in AllocatedSlots, j # k,
               Allocated_blocks'[j].is_valid, Allocated_blocks'[k].is_valid
        PROVE  Disjoint(Allocated_blocks'[j], Allocated_blocks'[k])
    BY <2>1, <1>2, <1>6, <1>11, <1>12 DEF HeapInv, NoOverlap, Disjoint
  <2>2. ASSUME NEW j \in FreeSlots, NEW k \in FreeSlots, j # k,
               Free_blocks'[j].is_valid, Free_blocks'[k].is_valid
        PROVE  Disjoint(Free_blocks'[j], Free_blocks'[k])
    BY <2>2, <1>2, <1>5, <1>11, <1>12 DEF HeapInv, NoOverlap
  <2>3. ASSUME NEW j \in AllocatedSlots, NEW k \in FreeSlots,
               Allocated_blocks'[j].is_valid, Free_blocks'[k].is_valid
        PROVE  Disjoint(Allocated_blocks'[j], Free_blocks'[k])
    BY <2>3, <1>2, <1>5, <1>6, <1>11, <1>12, ZenonT(40) DEF HeapInv, NoOverlap
  <2> QED
    BY <2>1, <2>2, <2>3 DEF NoOverlap, Disjoint
<1>14. NoLeak'
  <2> SUFFICES ASSUME halted' = "no",
                      NEW a \in free_memory_start .. free_memory_end - 1
               PROVE  \/ \E j \in AllocatedSlots : Within(a, Allocated_blocks'[j])
                      \/ \E j \in FreeSlots : Within(a, Free_blocks'[j])
    BY DEF NoLeak, Within
  <2>1. c \in AllocatedSlots
    BY <1>7 DEF AllocatedSlots
  <2>2. Within(a, F) => Within(a, new) \/ Within(a, rest)
    BY <1>n, <1>2, <1>3 DEF Within, free_memory_end
  <2>3. \/ \E j \in AllocatedSlots : Within(a, Allocated_blocks[j])
        \/ \E j \in FreeSlots : Within(a, Free_blocks[j])
    BY DEF HeapInv, NoLeak, Malloc
  <2>4. ASSUME NEW j \in AllocatedSlots, Within(a, Allocated_blocks[j])
        PROVE  Within(a, Allocated_blocks'[j])
    <3>1. j # c
      BY <2>4, <1>7 DEF HeapInv, Within, AllocatedSlots
    <3> QED
      BY <2>4, <3>1, <1>6
  <2> QED
    BY <2>1, <2>2, <2>3, <2>4, <1>5, <1>6
<1> QED
  BY <1>8, <1>9, <1>10, <1>13, <1>14 DEF HeapInv

(* What the two ways of giving a block b back have in common: the entry of *)
(* b is no longer in use, the bytes of b are free.  k is the free entry    *)
(* that changes, G what it becomes.                                        *)
LEMMA GiveBack ==
    ASSUME HeapInv, NEW i \in AllocatedSlots, Allocated_blocks[i].is_valid,
           ReleaseHolder(i), Allocated_blocks_count' = Allocated_blocks_count,
           NEW k \in FreeSlots, NEW G \in Block, G.is_valid, WellFormed(G),
           Free_blocks' = [Free_blocks EXCEPT ![k] = G],
           Blocks_count' \in 0 .. table_length, Blocks_count' >= Blocks_count,
           k < Blocks_count', halted' = "no", halted = "no",
           \A b \in Block :
              /\ b.is_valid /\ WellFormed(b)
              /\ Disjoint(b, Allocated_blocks[i])
              /\ ~Free_blocks[k].is_valid \/ Disjoint(b, Free_blocks[k])
              => Disjoint(b, G),
           \A a \in free_memory_start .. free_memory_end - 1 :
              Within(a, Allocated_blocks[i]) \/ Within(a, Free_blocks[k])
              => Within(a, G)
    PROVE  HeapInv'
<1> USE HeapConstants DEF HeapConstants
<1> DEFINE A == Allocated_blocks[i]
<1>1. /\ Free_blocks \in [FreeSlots -> Block]
      /\ Allocated_blocks \in [AllocatedSlots -> Block]
      /\ Allocated_blocks_count \in 0 .. allocated_table_length
      /\ Blocks_count \in 0 .. table_length
      /\ A \in Block
  BY DEF HeapInv, TypeOK
<1>2. /\ Free_blocks' \in [FreeSlots -> Block] /\ Free_blocks'[k] = G
      /\ \A j \in FreeSlots : j # k => Free_blocks'[j] = Free_blocks[j]
  BY <1>1
<1>3. Released(A) \in Block /\ ~Released(A).is_valid
  BY <1>1 DEF Released, Block
<1>4. /\ Allocated_blocks' \in [AllocatedSlots -> Block]
      /\ Allocated_blocks'[i] = Released(A)
      /\ \A j \in AllocatedSlots :
            j # i => Allocated_blocks'[j] = Allocated_blocks[j]
  BY <1>1, <1>3 DEF ReleaseHolder
<1>5. TypeOK'
  BY <1>1, <1>2, <1>4 DEF TypeOK, Messages
<1>6. \A j \in FreeSlots :
         (WellFormed(Free_blocks[j])
            /\ (j >= Blocks_count => ~Free_blocks[j].is_valid))'
  <2> SUFFICES ASSUME NEW j \in FreeSlots
               PROVE  /\ WellFormed(Free_blocks'[j])
                      /\ j >= Blocks_count' => ~Free_blocks'[j].is_valid
    BY DEF WellFormed
  <2>1. CASE j = k
    BY <2>1, <1>2 DEF FreeSlots
  <2>2. CASE j # k
    <3>1. j >= Blocks_count' => j >= Blocks_count
      BY <1>1 DEF FreeSlots
    <3> QED
      BY <2>2, <3>1, <1>2 DEF HeapInv
  <2> QED
    BY <2>1, <2>2
<1>7. \A j \in AllocatedSlots :
         (WellFormed(Allocated_blocks[j])
            /\ (j >= Allocated_blocks_count => ~Allocated_blocks[j].is_valid))'
  <2> SUFFICES ASSUME NEW j \in AllocatedSlots
               PROVE  /\ WellFormed(Allocated_blocks'[j])
                      /\ j >= Allocated_blocks_count
                            => ~Allocated_blocks'[j].is_valid
    BY DEF WellFormed
  <2>1. CASE j = i
    BY <2>1, <1>3, <1>4 DEF WellFormed
  <2>2. CASE j # i
    BY <2>2, <1>4 DEF HeapInv
  <2> QED
    BY <2>1, <2>2
<1>8. NoOverlap'
  <2>1. /\ \A b \in Block, c \in Block : Disjoint(b, c) <=> Disjoint(c, b)
        /\ \A j \in FreeSlots : Free_blocks[j] \in Block
                                /\ WellFormed(Free_blocks[j])
        /\ \A j \in AllocatedSlots : Allocated_blocks[j] \in Block
                                     /\ WellFormed(Allocated_blocks[j])
    BY <1>1 DEF Disjoint, HeapInv
  <2>2. ASSUME NEW j \in AllocatedSlots, NEW l \in AllocatedSlots, j # l,
               Allocated_blocks'[j].is_valid, Allocated_blocks'[l].is_valid
        PROVE  Disjoint(Allocated_blocks'[j], Allocated_blocks'[l])
    BY <2>2, <1>3, <1>4 DEF HeapInv, NoOverlap
  <2>3. ASSUME NEW j \in FreeSlots, j # k, Free_blocks[j].is_valid
        PROVE  Disjoint(Free_blocks[j], G) /\ Disjoint(G, Free_blocks[j])
    BY <2>1, <2>3 DEF HeapInv, NoOverlap
  <2>4. ASSUME NEW j \in FreeSlots, NEW l \in FreeSlots, j # l,
               Free_blocks'[j].is_valid, Free_blocks'[l].is_valid
        PROVE  Disjoint(Free_blocks'[j], Free_blocks'[l])
    BY <2>3, <2>4, <1>2 DEF HeapInv, NoOverlap
  <2>5. ASSUME NEW j \in AllocatedSlots, NEW l \in FreeSlots,
               Allocated_blocks'[j].is_valid, Free_blocks'[l].is_valid
        PROVE  Disjoint(Allocated_blocks'[j], Free_blocks'[l])
    <3>1. j # i /\ Allocated_blocks'[j] = Allocated_blocks[j]
      BY <2>5, <1>3, <1>4
    <3>2. Disjoint(Allocated_blocks[j], A)
      BY <3>1, <2>5 DEF HeapInv, NoOverlap
    <3>3. CASE l = k
      BY <3>1, <3>2, <3>3, <2>1, <2>5, <1>2 DEF HeapInv, NoOverlap
    <3>4. CASE l # k
      BY <3>1, <3>4, <2>5, <1>2 DEF HeapInv, NoOverlap
    <3> QED
      BY <3>3, <3>4
  <2> QED
    BY <2>2, <2>4, <2>5 DEF NoOverlap, Disjoint
<1>9. NoLeak'
  <2> SUFFICES ASSUME NEW a \in free_memory_start .. free_memory_end - 1
               PROVE  \/ \E j \in AllocatedSlots : Within(a, Allocated_blocks'[j])
                      \/ \E j \in FreeSlots : Within(a, Free_blocks'[j])
    BY DEF NoLeak, Within
  <2>1. \/ \E j \in AllocatedSlots : Within(a, Allocated_blocks[j])
        \/ \E j \in FreeSlots : Within(a, Free_blocks[j])
    BY DEF HeapInv, NoLeak
  <2> QED
    BY <2>1, <1>2, <1>4
<1> QED
  BY <1>5, <1>6, <1>7, <1>8, <1>9 DEF HeapInv

(* A block that ends where a free one begins joins it: the union has       *)
(* exactly the bytes of both.                                              *)
LEMMA MergedBlock ==
    ASSUME NEW A \in Block, NEW F \in Block, A.is_valid, F.is_valid,
           WellFormed(A), WellFormed(F), A.end = F.start
    PROVE  /\ Merged(F, A) \in Block
           /\ Merged(F, A).is_valid
           /\ WellFormed(Merged(F, A))
           /\ \A b \in Block : /\ b.is_valid /\ WellFormed(b)
                                /\ Disjoint(b, A) /\ Disjoint(b, F)
                                => Disjoint(b, Merged(F, A))
           /\ \A a \in free_memory_start .. free_memory_end - 1 :
                 Within(a, A) \/ Within(a, F) => Within(a, Merged(F, A))
<1> USE HeapConstants DEF HeapConstants
<1> DEFINE G == [start |-> A.start, end |-> F.end, size |-> F.size + A.size,
                 is_valid |-> TRUE]
<1>1. Merged(F, A) = G
  BY DEF Merged, Block
<1>2. /\ A.start \in Nat /\ A.end \in Nat /\ A.size \in Nat
      /\ F.start \in Nat /\ F.end \in Nat /\ F.size \in Nat
      /\ A.start < WORD /\ F.end < WORD
  BY DEF Block
<1>3. /\ A.start + A.size = A.end /\ F.start + F.size = F.end
      /\ free_memory_start <= A.start /\ F.end <= free_memory_end
  BY DEF WellFormed
<1>4. F.size + A.size \in 0 .. WORD - 1
  BY <1>2, <1>3
<1>5. G \in Block /\ G.is_valid
  BY <1>2, <1>4 DEF Block
<1>6. WellFormed(G)
  BY <1>2, <1>3 DEF WellFormed
<1>7. ASSUME NEW b \in Block, b.is_valid, WellFormed(b),
             Disjoint(b, A), Disjoint(b, F)
      PROVE  Disjoint(b, G)
  <2>1. /\ b.start \in Nat /\ b.end \in Nat /\ b.size \in Nat
        /\ b.start + b.size = b.end
    BY <1>7 DEF Block, WellFormed
  <2> QED
    BY <1>2, <1>3, <1>7, <2>1 DEF Disjoint
<1>8. ASSUME NEW a \in free_memory_start .. free_memory_end - 1,
             Within(a, A) \/ Within(a, F)
      PROVE  Within(a, G)
  BY <1>2, <1>3, <1>8 DEF Within, free_memory_end
<1> HIDE DEF G
<1> QED
  BY <1>1, <1>5, <1>6, <1>7, <1>8

(* free keeps the invariant, the free that ends in fatal because the free  *)
(* table is full included.                                                 *)
LEMMA FreeHeapInv == ASSUME HeapInv, NEW p \in Pointers, Free(p)
                     PROVE  HeapInv'
<1> USE HeapConstants DEF HeapConstants
<1>1. PICK i \in AllocatedSlots :
         /\ FirstHolder(i, p)
         /\ ReleaseHolder(i)
         /\ \/ \E k \in FreeSlots : MergeInto(k, Allocated_blocks[i])
            \/ AddFree(Allocated_blocks[i])
  BY DEF Free
<1> DEFINE A == Allocated_blocks[i]
<1>2. /\ A \in Block /\ A.is_valid /\ WellFormed(A)
      /\ Allocated_blocks_count' = Allocated_blocks_count /\ halted = "no"
  BY <1>1 DEF FirstHolder, Holds, HeapInv, TypeOK, Free
<1>3. ASSUME NEW k \in FreeSlots, MergeInto(k, A)
      PROVE  HeapInv'
  <2> DEFINE F == Free_blocks[k]
  <2>1. /\ F \in Block /\ F.is_valid /\ WellFormed(F) /\ A.end = F.start
        /\ k < Blocks_count
    BY <1>3 DEF MergeInto, FirstMerge, Merges, HeapInv, TypeOK
  <2>2. /\ Free_blocks' = [Free_blocks EXCEPT ![k] = Merged(F, A)]
        /\ Blocks_count' = Blocks_count /\ halted' = "no"
        /\ Blocks_count \in 0 .. table_length
    BY <1>2, <1>3 DEF MergeInto, HeapInv, TypeOK
  <2> DEFINE G == Merged(F, A)
  <2>3. /\ G \in Block /\ G.is_valid /\ WellFormed(G)
        /\ \A b \in Block : /\ b.is_valid /\ WellFormed(b)
                             /\ Disjoint(b, A) /\ Disjoint(b, F)
                             => Disjoint(b, G)
        /\ \A a \in free_memory_start .. free_memory_end - 1 :
              Within(a, A) \/ Within(a, F) => Within(a, G)
    BY <1>2, <2>1, MergedBlock
  <2>4. \A b \in Block : /\ b.is_valid /\ WellFormed(b)
                         /\ Disjoint(b, A)
                         /\ ~F.is_valid \/ Disjoint(b, F)
                         => Disjoint(b, G)
    BY <2>1, <2>3
  <2>5. /\ Blocks_count' \in 0 .. table_length
        /\ Blocks_count' >= Blocks_count /\ k < Blocks_count'
    BY <2>1, <2>2
  <2> HIDE DEF G
  <2>6. Free_blocks' = [Free_blocks EXCEPT ![k] = G]
    BY <2>2 DEF G
  <2> QED
    BY <1>1, <1>2, <2>2, <2>3, <2>4, <2>5, <2>6, GiveBack
<1>4. CASE AddFree(A) /\ Blocks_count # table_length
  <2> DEFINE k == Blocks_count
  <2>1. /\ k \in FreeSlots /\ k \in Nat /\ ~Free_blocks[k].is_valid
        /\ k + 1 \in 0 .. table_length
    BY <1>4 DEF HeapInv, TypeOK, FreeSlots
  <2>2. Blocks_count' = k + 1 /\ halted' = "no"
    BY <1>4 DEF AddFree
  <2>3. Free_blocks' = [Free_blocks EXCEPT ![k] = A]
    BY <1>4, <2>1 DEF AddFree, HeapInv, TypeOK
  <2>4. \A a \in free_memory_start .. free_memory_end - 1 :
           Within(a, A) \/ Within(a, Free_blocks[k]) => Within(a, A)
    BY <2>1 DEF Within
  <2>5. Blocks_count' \in 0 .. table_length /\ Blocks_count' >= k /\ k < Blocks_count'
    BY <2>1, <2>2
  <2> HIDE DEF k
  <2>6. Blocks_count' >= Blocks_count
    BY <2>5 DEF k
  <2> QED
    BY <1>1, <1>2, <2>1, <2>2, <2>3, <2>4, <2>5, <2>6, GiveBack
<1>5. CASE AddFree(A) /\ Blocks_count = table_length
  <2>1. /\ Free_blocks' = Free_blocks /\ Blocks_count' = Blocks_count
        /\ halted' = "free_table_full"
    BY <1>5 DEF AddFree, HeapInv, TypeOK, FreeSlots
  <2>2. Released(A) \in Block /\ ~Released(A).is_valid
    BY <1>2 DEF Released, Block
  <2>3. /\ Allocated_blocks' \in [AllocatedSlots -> Block]
        /\ Allocated_blocks'[i] = Released(A)
        /\ \A j \in AllocatedSlots :
              j # i => Allocated_blocks'[j] = Allocated_blocks[j]
    BY <1>1, <2>2 DEF ReleaseHolder, HeapInv, TypeOK
  <2>4. TypeOK'
    BY <1>2, <2>1, <2>3 DEF HeapInv, TypeOK, Messages
  <2>5. NoOverlap'
    BY <2>1, <2>2, <2>3 DEF HeapInv, NoOverlap, Disjoint
  <2>6. \A j \in AllocatedSlots :
           (WellFormed(Allocated_blocks[j])
             /\ (j >= Allocated_blocks_count => ~Allocated_blocks[j].is_valid))'
    BY <1>2, <2>2, <2>3 DEF HeapInv, WellFormed
  <2>7. \A j \in FreeSlots :
           (WellFormed(Free_blocks[j])
             /\ (j >= Blocks_count => ~Free_blocks[j].is_valid))'
    BY <2>1 DEF HeapInv, WellFormed
  <2>8. NoLeak'
    BY <2>1 DEF NoLeak
  <2> QED
    BY <2>4, <2>5, <2>6, <2>7, <2>8 DEF HeapInv
<1> QED
  BY <1>1, <1>3, <1>4, <1>5

(* The tables satisfy HeapInv after every sequence of calls. *)
THEOREM HeapInvariant == Spec => []HeapInv
<1>1. Init => HeapInv
  BY InitHeapInv
<1>2. HeapInv /\ [Next]_vars => HeapInv'
  <2> SUFFICES ASSUME HeapInv, [Next]_vars PROVE HeapInv'
    OBVIOUS
  <2>1. ASSUME NEW size \in Sizes, Malloc(size) PROVE HeapInv'
    BY <2>1, MallocHeapInv
  <2>2. ASSUME NEW p \in Pointers, Free(p) PROVE HeapInv'
    BY <2>2, FreeHeapInv
  <2>3. ASSUME UNCHANGED <<Free_blocks, Blocks_count, Allocated_blocks,
                           Allocated_blocks_count>>,
               halted' \in Messages, halted' # "no" \/ UNCHANGED halted
        PROVE  HeapInv'
    BY <2>3 DEF HeapInv, TypeOK, WellFormed, NoOverlap, NoLeak, Disjoint, Within
  <2>4. ASSUME NEW size \in Sizes, MallocFails(size) PROVE HeapInv'
    BY <2>3, <2>4 DEF MallocFails, Messages
  <2>5. ASSUME NEW p \in Pointers, FreeFails(p) PROVE HeapInv'
    BY <2>3, <2>5 DEF FreeFails, Messages
  <2>6. CASE UNCHANGED vars
    BY <2>3, <2>6 DEF vars, HeapInv, TypeOK
  <2> QED
    BY <2>1, <2>2, <2>4, <2>5, <2>6 DEF Next, Spin
<1> QED
  BY <1>1, <1>2, PTL DEF Spec

(* Field and count types, for every size of arena and tables. *)
THEOREM TypeCorrect == Spec => []TypeOK
  BY HeapInvariant, PTL DEF HeapInv

(* malloc never hands out a byte that is in use or that it also lists as   *)
(* free, whatever the sequence of calls, fatal ones included.              *)
THEOREM NeverOverlaps == Spec => []NoOverlap
  BY HeapInvariant, PTL DEF HeapInv

(* No byte of the arena is lost as long as no call has ended in fatal. *)
THEOREM NeverLeaks == Spec => []NoLeak
  BY HeapInvariant, PTL DEF HeapInv

-----------------------------------------------------------------------------
(* Alignment.                                                              *)

(* Quotient and remainder, as the solver needs them. *)
LEMMA DivMod ==
    ASSUME NEW N \in Int, N > 0, NEW x \in Int
    PROVE  /\ x \div N \in Int /\ x % N \in Int /\ 0 <= x % N /\ x % N < N
           /\ x = (x \div N) * N + (x % N)
<1>1. x \div N \in Int /\ x % N \in Int
  OBVIOUS
<1>2. 0 <= x % N /\ x % N < N
  OBVIOUS
<1>3. x = (x \div N) * N + (x % N)
  OBVIOUS
<1> QED
  BY <1>1, <1>2, <1>3

Multiple(x, N) == \E k \in Int : x = k * N

(* The remainder is 0 exactly for the multiples. *)
LEMMA MultipleMod ==
    ASSUME NEW N \in Int, N > 0, NEW x \in Int
    PROVE  x % N = 0 <=> Multiple(x, N)
<1> DEFINE q == x \div N
           r == x % N
<1>1. q \in Int /\ r \in Int /\ 0 <= r /\ r < N /\ x = q * N + r
  BY DivMod
<1> HIDE DEF q, r
<1>2. r = 0 => Multiple(x, N)
  BY <1>1 DEF Multiple
<1>3. ASSUME NEW k \in Int, x = k * N PROVE r = 0
  <2>1. r = (k - q) * N /\ k - q \in Int
    BY <1>1, <1>3
  <2>2. ASSUME NEW d \in Int, d >= 1 PROVE d * N >= N
    BY <2>2
  <2>3. ASSUME NEW d \in Int, d <= -1 PROVE d * N <= 0 - N
    BY <2>3
  <2>4. ~(k - q >= 1) /\ ~(k - q <= -1)
    BY <1>1, <2>1, <2>2, <2>3
  <2>5. k - q = 0
    BY <2>1, <2>4
  <2> QED
    BY <2>1, <2>5
<1> QED
  BY <1>2, <1>3 DEF Multiple, r

(* Multiples are closed under addition. *)
LEMMA MultipleSum ==
    ASSUME NEW N \in Int, NEW x \in Int, NEW y \in Int,
           Multiple(x, N), Multiple(y, N)
    PROVE  Multiple(x + y, N)
<1>1. PICK k \in Int : x = k * N
  BY DEF Multiple
<1>2. PICK l \in Int : y = l * N
  BY DEF Multiple
<1>3. x + y = (k + l) * N /\ k + l \in Int
  BY <1>1, <1>2
<1> QED
  BY <1>3 DEF Multiple

(* Rounding up gives a multiple of ALIGN, also when the sum wraps around. *)
LEMMA RoundedMultiple == ASSUME NEW size \in Sizes PROVE Multiple(Rounded(size), ALIGN)
<1>1. size \in Int /\ ALIGN \in Int /\ ALIGN > 0 /\ WORD \in Int /\ WORD > 0
  BY HeapConstants DEF HeapConstants
<1> DEFINE r == size % ALIGN
           q == size \div ALIGN
           y == size + (ALIGN - r)
<1>2. q \in Int /\ r \in Int /\ size = q * ALIGN + r
  BY <1>1, DivMod
<1>3. CASE r = 0
  BY <1>1, <1>3, MultipleMod DEF Rounded
<1>4. CASE r # 0
  <2>1. Rounded(size) = y % WORD /\ y \in Int
    BY <1>1, <1>2, <1>4 DEF Rounded
  <2> HIDE DEF r, q
  <2>2. y = (q + 1) * ALIGN /\ q + 1 \in Int
    BY <1>1, <1>2
  <2> HIDE DEF y
  <2>3. PICK k \in Int : WORD = k * ALIGN
    BY <1>1, WordIsAligned, MultipleMod DEF Multiple
  <2> DEFINE d == y \div WORD
             m == y % WORD
  <2>4. d \in Int /\ m \in Int /\ y = d * WORD + m
    BY <1>1, <2>1, DivMod
  <2> HIDE DEF d, m
  <2>5. m = ((q + 1) - d * k) * ALIGN
    <3>1. d * WORD = (d * k) * ALIGN
      BY <1>1, <2>3, <2>4
    <3>2. m = (q + 1) * ALIGN - (d * k) * ALIGN
      BY <1>1, <2>1, <2>2, <2>4, <3>1
    <3>3. d * k \in Int
      BY <2>3, <2>4
    <3> QED
      BY <1>1, <2>2, <3>2, <3>3
  <2>6. (q + 1) - d * k \in Int
    BY <2>2, <2>3, <2>4
  <2> QED
    BY <2>1, <2>5, <2>6 DEF Multiple, m
<1> QED
  BY <1>3, <1>4

(* A block whose front is a multiple of ALIGN leaves a rest that starts on *)
(* a boundary.                                                             *)
LEMMA RestOnBoundary ==
    ASSUME NEW F \in Block, OnBoundary(F), F.is_valid, NEW n \in Int, Multiple(n, ALIGN)
    PROVE  ((F.start + n) - free_memory_start) % ALIGN = 0
<1>1. /\ ALIGN \in Int /\ ALIGN > 0 /\ free_memory_start \in Int
      /\ F.start \in Int
  BY HeapConstants DEF HeapConstants, Block
<1> DEFINE x == F.start - free_memory_start
<1>2. x \in Int /\ x % ALIGN = 0
  BY <1>1 DEF OnBoundary
<1>3. (F.start + n) - free_memory_start = x + n
  BY <1>1
<1> HIDE DEF x
<1>4. x + n \in Int
  BY <1>2
<1>5. Multiple(x, ALIGN)
  BY <1>1, <1>2, MultipleMod
<1>6. Multiple(x + n, ALIGN)
  BY <1>1, <1>2, <1>5, MultipleSum
<1> QED
  BY <1>1, <1>3, <1>4, <1>6, MultipleMod

(* malloc cuts a free block where the next one is aligned again. *)
LEMMA MallocBoundary ==
    ASSUME HeapInv, BoundaryInv, NEW size \in Sizes, Malloc(size)
    PROVE  BoundaryInv'
<1> DEFINE n == Rounded(size)
<1>n. n \in Int /\ Multiple(n, ALIGN)
  BY RoundedType, RoundedMultiple
<1> HIDE DEF n
<1>1. PICK i \in FreeSlots : MallocFrom(i, n)
  BY DEF Malloc, n
<1> DEFINE F == Free_blocks[i]
           c == Allocated_blocks_count
<1>2. F \in Block /\ F.is_valid /\ OnBoundary(F)
  BY <1>1 DEF MallocFrom, FirstMatch, Fits, HeapInv, TypeOK, BoundaryInv
<1>3. ((F.start + n) - free_memory_start) % ALIGN = 0
  BY <1>n, <1>2, RestOnBoundary
<1>4. /\ Free_blocks'[i] = Taken(F, n)
      /\ \A j \in FreeSlots : j # i => Free_blocks'[j] = Free_blocks[j]
  BY <1>1 DEF MallocFrom, HeapInv, TypeOK
<1>5. \A j \in AllocatedSlots :
         \/ Allocated_blocks'[j].start = F.start
         \/ Allocated_blocks'[j] = Allocated_blocks[j]
  BY <1>1 DEF MallocFrom
<1>6. \A j \in FreeSlots : OnBoundary(Free_blocks'[j])
  <2>1. Taken(F, n).start = F.start + n
    BY DEF Taken
  <2>2. OnBoundary(Taken(F, n))
    BY <1>3, <2>1 DEF OnBoundary
  <2> QED
    BY <1>4, <2>2 DEF BoundaryInv
<1>7. \A j \in AllocatedSlots : OnBoundary(Allocated_blocks'[j])
  BY <1>2, <1>5 DEF BoundaryInv, OnBoundary
<1> QED
  BY <1>6, <1>7 DEF BoundaryInv, OnBoundary

(* free moves and merges blocks, and keeps their boundaries. *)
LEMMA FreeBoundary ==
    ASSUME HeapInv, BoundaryInv, NEW p \in Pointers, Free(p)
    PROVE  BoundaryInv'
<1>1. PICK i \in AllocatedSlots :
         /\ FirstHolder(i, p)
         /\ ReleaseHolder(i)
         /\ \/ \E k \in FreeSlots : MergeInto(k, Allocated_blocks[i])
            \/ AddFree(Allocated_blocks[i])
  BY DEF Free
<1> DEFINE A == Allocated_blocks[i]
<1>2. A.is_valid /\ OnBoundary(A)
  BY <1>1 DEF FirstHolder, Holds, BoundaryInv
<1>3. \A j \in AllocatedSlots :
         \/ ~Allocated_blocks'[j].is_valid
         \/ Allocated_blocks'[j] = Allocated_blocks[j]
  <2>1. ~Released(A).is_valid
    BY DEF Released
  <2>2. Allocated_blocks \in [AllocatedSlots -> Block]
    BY DEF HeapInv, TypeOK
  <2>3. Allocated_blocks' = [Allocated_blocks EXCEPT ![i] = Released(A)]
    BY <1>1 DEF ReleaseHolder
  <2> QED
    BY <2>1, <2>2, <2>3
<1>4. \A j \in FreeSlots : \/ Free_blocks'[j].start = A.start
                           \/ Free_blocks'[j] = Free_blocks[j]
  <2>1. ASSUME NEW k \in FreeSlots, MergeInto(k, A), NEW j \in FreeSlots
        PROVE  \/ Free_blocks'[j].start = A.start
               \/ Free_blocks'[j] = Free_blocks[j]
    BY <2>1 DEF MergeInto, Merged, HeapInv, TypeOK
  <2>2. ASSUME AddFree(A), NEW j \in FreeSlots
        PROVE  \/ Free_blocks'[j].start = A.start
               \/ Free_blocks'[j] = Free_blocks[j]
    BY <2>2 DEF AddFree
  <2> QED
    BY <1>1, <2>1, <2>2
<1>5. \A j \in FreeSlots : OnBoundary(Free_blocks'[j])
  BY <1>2, <1>4 DEF BoundaryInv, OnBoundary
<1>6. \A j \in AllocatedSlots : OnBoundary(Allocated_blocks'[j])
  BY <1>3 DEF BoundaryInv, OnBoundary
<1> QED
  BY <1>5, <1>6 DEF BoundaryInv, OnBoundary

(* Every block malloc hands out starts on an ALIGN boundary of the arena,  *)
(* after any sequence of splits, frees and merges, and for every size,     *)
(* those whose rounding wraps around size_t included ("align to 8 bytes",  *)
(* memory_management.cpp:33).                                              *)
THEOREM AlwaysAligned == Spec => []Aligned
<1>1. Init => BoundaryInv
  <2> SUFFICES ASSUME Init PROVE BoundaryInv
    OBVIOUS
  <2>1. /\ \A i \in FreeSlots : Free_blocks[i] = WholeArena \/ Free_blocks[i] = NoBlock
        /\ \A i \in AllocatedSlots : Allocated_blocks[i] = NoBlock
    BY DEF Init
  <2>2. /\ ALIGN \in Int /\ ALIGN > 0 /\ free_memory_start \in Int
    BY HeapConstants DEF HeapConstants
  <2>3. (free_memory_start - free_memory_start) % ALIGN = 0
    <3>1. free_memory_start - free_memory_start = 0 /\ 0 = 0 * ALIGN
      BY <2>2
    <3>2. Multiple(0, ALIGN)
      BY <3>1 DEF Multiple
    <3> QED
      BY <2>2, <3>1, <3>2, MultipleMod
  <2>4. OnBoundary(WholeArena) /\ OnBoundary(NoBlock)
    BY <2>3 DEF OnBoundary, WholeArena, NoBlock
  <2> QED
    BY <2>1, <2>4 DEF BoundaryInv
<1>2. HeapInv /\ BoundaryInv /\ [Next]_vars => BoundaryInv'
  <2> SUFFICES ASSUME HeapInv, BoundaryInv, [Next]_vars PROVE BoundaryInv'
    OBVIOUS
  <2>1. ASSUME UNCHANGED <<Free_blocks, Allocated_blocks>> PROVE BoundaryInv'
    BY <2>1 DEF BoundaryInv, OnBoundary
  <2> QED
    BY <2>1, MallocBoundary, FreeBoundary DEF Next, MallocFails, FreeFails, Spin, vars
<1>3. BoundaryInv => Aligned
  BY DEF BoundaryInv, OnBoundary, Aligned
<1> QED
  BY <1>1, <1>2, <1>3, HeapInvariant, PTL DEF Spec

-----------------------------------------------------------------------------
(* The blocks in use that are not empty. *)
Owned(i, blocks) == i \in AllocatedSlots /\ blocks[i].is_valid
                                         /\ blocks[i].size > 0

(* The blocks Heap sees are those of the table, before a step ... *)
LEMMA LiveIsOwned ==
    /\ \A i : Owned(i, Allocated_blocks) => Extent(Allocated_blocks[i]) \in live
    /\ \A b \in live : \E i : Owned(i, Allocated_blocks) /\ b = Extent(Allocated_blocks[i])
  BY DEF live, Owned, InUse

(* ... and after it. *)
LEMMA LiveIsOwnedNext ==
    /\ \A i : Owned(i, Allocated_blocks') => Extent(Allocated_blocks'[i]) \in live'
    /\ \A b \in live' : \E i : Owned(i, Allocated_blocks') /\ b = Extent(Allocated_blocks'[i])
  BY DEF live, Owned, InUse, Extent

(* A malloc of at least one byte that finds room is a Malloc of Heap; any  *)
(* other leaves the blocks in use as they were.                            *)
LEMMA MallocRefines == ASSUME HeapInv, NEW size \in Sizes, Malloc(size)
                       PROVE  TheHeap!Malloc \/ UNCHANGED live
<1> USE HeapConstants DEF HeapConstants
<1> DEFINE n == Rounded(size)
<1>n. n \in 0 .. WORD - 1
  BY RoundedType
<1> HIDE DEF n
<1>1. PICK i \in FreeSlots : MallocFrom(i, n)
  BY DEF Malloc, n
<1> DEFINE F == Free_blocks[i]
           c == Allocated_blocks_count
           new == [start |-> F.start, end |-> F.start + n, size |-> n,
                   is_valid |-> TRUE]
           b == [start |-> F.start, end |-> F.start + n]
<1>2. /\ F \in Block /\ F.is_valid /\ F.size >= n
      /\ F.start + F.size = F.end
      /\ free_memory_start <= F.start /\ F.end <= free_memory_end
  BY <1>1 DEF MallocFrom, FirstMatch, Fits, HeapInv, TypeOK, WellFormed
<1>3. F.start \in Nat /\ F.end \in Nat /\ F.size \in Nat
  BY <1>2 DEF Block
<1>4. /\ c \in AllocatedSlots => Allocated_blocks'[c] = new
      /\ \A j \in AllocatedSlots :
            j # c => Allocated_blocks'[j] = Allocated_blocks[j]
  BY <1>1 DEF MallocFrom, HeapInv, TypeOK
<1>5. c \in AllocatedSlots => ~Allocated_blocks[c].is_valid
  BY DEF HeapInv, TypeOK, AllocatedSlots
<1>6. Extent(new) = b
  BY DEF Extent
<1>7. \A j : j # c => (Owned(j, Allocated_blocks') <=> Owned(j, Allocated_blocks))
  BY <1>4 DEF Owned
<1>8. ~Owned(c, Allocated_blocks) /\ (Owned(c, Allocated_blocks') <=> c \in AllocatedSlots /\ n > 0)
  BY <1>4, <1>5 DEF Owned
<1>9. CASE ~(c \in AllocatedSlots /\ n > 0)
  <2>1. \A j : Owned(j, Allocated_blocks') <=> Owned(j, Allocated_blocks)
    BY <1>7, <1>8, <1>9
  <2>2. \A j : Owned(j, Allocated_blocks) => Allocated_blocks'[j] = Allocated_blocks[j]
    BY <1>4, <1>8 DEF Owned
  <2> QED
    BY <2>1, <2>2, LiveIsOwned, LiveIsOwnedNext
<1>10. CASE c \in AllocatedSlots /\ n > 0
  <2>1. live' = live \cup {b}
    <3>1. ASSUME NEW e \in live' PROVE e \in live \cup {b}
      <4>1. PICK j : Owned(j, Allocated_blocks') /\ e = Extent(Allocated_blocks'[j])
        BY LiveIsOwnedNext
      <4>2. CASE j = c
        BY <4>1, <4>2, <1>4, <1>6, <1>10
      <4>3. CASE j # c
        BY <4>1, <4>3, <1>4, <1>7, LiveIsOwned DEF Owned
      <4> QED
        BY <4>2, <4>3
    <3>2. ASSUME NEW e \in live PROVE e \in live'
      <4>1. PICK j : Owned(j, Allocated_blocks) /\ e = Extent(Allocated_blocks[j])
        BY LiveIsOwned
      <4>2. j # c /\ j \in AllocatedSlots
        BY <4>1, <1>8 DEF Owned
      <4> QED
        BY <4>1, <4>2, <1>4, <1>7, LiveIsOwnedNext
    <3>3. b \in live'
      <4>1. Owned(c, Allocated_blocks') /\ Allocated_blocks'[c] = new
        BY <1>4, <1>8, <1>10
      <4>2. Extent(Allocated_blocks'[c]) = b
        BY <4>1, <1>6
      <4> HIDE DEF new, b
      <4> QED
        BY <4>1, <4>2, LiveIsOwnedNext
    <3> QED
      BY <3>1, <3>2, <3>3
  <2>2. ASSUME NEW e \in live
        PROVE  TheHeap!Range(b) \cap TheHeap!Range(e) = {}
    <3>1. PICK j : Owned(j, Allocated_blocks) /\ e = Extent(Allocated_blocks[j])
      BY LiveIsOwned
    <3> DEFINE A == Allocated_blocks[j]
    <3>2. /\ A \in Block /\ A.size > 0 /\ e.start = A.start /\ e.end = A.end
          /\ Disjoint(A, F)
      BY <3>1, <1>2 DEF Owned, HeapInv, TypeOK, NoOverlap, Extent
    <3>3. A.start \in Nat /\ A.end \in Nat /\ A.size \in Nat
      BY <3>2 DEF Block
    <3>4. A.end <= F.start \/ F.end <= A.start
      BY <3>2, <3>3, <1>n, <1>2, <1>3, <1>10 DEF Disjoint
    <3>5. ASSUME NEW a \in b.start .. b.end - 1, a \in e.start .. e.end - 1
          PROVE  FALSE
      BY <3>2, <3>3, <3>4, <3>5, <1>n, <1>2, <1>3
    <3> QED
      BY <3>5 DEF TheHeap!Range
  <2>3. /\ b.start \in free_memory_start .. free_memory_end
        /\ b.end \in free_memory_start .. free_memory_end
        /\ b.start < b.end
        /\ b = [start |-> b.start, end |-> b.end]
    BY <1>n, <1>2, <1>3, <1>10 DEF free_memory_end
  <2> HIDE DEF b
  <2> QED
    BY <2>1, <2>2, <2>3 DEF TheHeap!Malloc
<1> QED
  BY <1>9, <1>10

(* A free gives up one block in use, and no other block of Heap is equal   *)
(* to it, because non-empty blocks in use share no byte.                   *)
LEMMA FreeRefines == ASSUME HeapInv, NEW p \in Pointers, Free(p)
                     PROVE  TheHeap!Free \/ UNCHANGED live
<1> USE HeapConstants DEF HeapConstants
<1>1. PICK i \in AllocatedSlots : FirstHolder(i, p) /\ ReleaseHolder(i)
  BY DEF Free
<1> DEFINE A == Allocated_blocks[i]
<1>2. /\ A \in Block /\ A.is_valid
      /\ Allocated_blocks \in [AllocatedSlots -> Block]
  BY <1>1 DEF FirstHolder, Holds, HeapInv, TypeOK
<1>3. Released(A) \in Block /\ ~Released(A).is_valid
  BY <1>2 DEF Released, Block
<1>4. /\ Allocated_blocks'[i] = Released(A)
      /\ \A j \in AllocatedSlots :
            j # i => Allocated_blocks'[j] = Allocated_blocks[j]
  BY <1>1, <1>2, <1>3 DEF ReleaseHolder
<1>5. /\ \A j : j # i => (Owned(j, Allocated_blocks') <=> Owned(j, Allocated_blocks))
      /\ ~Owned(i, Allocated_blocks')
  BY <1>3, <1>4 DEF Owned
<1>6. CASE ~(A.size > 0)
  <2>1. \A j : Owned(j, Allocated_blocks') <=> Owned(j, Allocated_blocks)
    BY <1>5, <1>6 DEF Owned
  <2>2. \A j : Owned(j, Allocated_blocks)
                 => Allocated_blocks'[j] = Allocated_blocks[j]
    BY <1>4, <1>6 DEF Owned
  <2> QED
    BY <2>1, <2>2, LiveIsOwned, LiveIsOwnedNext
<1>7. CASE A.size > 0
  <2>1. ASSUME NEW j, j # i, Owned(j, Allocated_blocks)
        PROVE  Extent(Allocated_blocks[j]) # Extent(A)
    <3> DEFINE B == Allocated_blocks[j]
    <3>1. B \in Block /\ B.is_valid /\ B.size > 0 /\ Disjoint(B, A)
      BY <2>1, <1>2 DEF Owned, HeapInv, TypeOK, NoOverlap
    <3>2. B.start + B.size = B.end /\ A.start + A.size = A.end
      BY <2>1, <1>2 DEF Owned, HeapInv, WellFormed
    <3>3. /\ B.start \in Nat /\ B.end \in Nat /\ B.size \in Nat
          /\ A.start \in Nat /\ A.end \in Nat /\ A.size \in Nat
      BY <3>1, <1>2 DEF Block
    <3>4. B.start # A.start
      BY <3>1, <3>2, <3>3, <1>7 DEF Disjoint
    <3>5. Extent(B).start = B.start /\ Extent(A).start = A.start
      BY DEF Extent
    <3> QED
      BY <3>4, <3>5
  <2>2. Extent(A) \in live
    BY <1>2, <1>7, LiveIsOwned DEF Owned
  <2>3. live' = live \ {Extent(A)}
    <3>1. ASSUME NEW e \in live' PROVE e \in live /\ e # Extent(A)
      <4>1. PICK j : Owned(j, Allocated_blocks') /\ e = Extent(Allocated_blocks'[j])
        BY LiveIsOwnedNext
      <4>2. /\ j # i /\ Owned(j, Allocated_blocks)
            /\ Allocated_blocks'[j] = Allocated_blocks[j]
        BY <4>1, <1>4, <1>5 DEF Owned
      <4> QED
        BY <4>1, <4>2, <2>1, LiveIsOwned
    <3>2. ASSUME NEW e \in live, e # Extent(A) PROVE e \in live'
      <4>1. PICK j : Owned(j, Allocated_blocks) /\ e = Extent(Allocated_blocks[j])
        BY LiveIsOwned
      <4>2. j # i
        BY <4>1, <3>2
      <4>3. /\ Owned(j, Allocated_blocks')
            /\ Allocated_blocks'[j] = Allocated_blocks[j]
        BY <4>1, <4>2, <1>4, <1>5 DEF Owned
      <4> QED
        BY <4>1, <4>3, LiveIsOwnedNext
    <3> QED
      BY <3>1, <3>2
  <2> QED
    BY <2>2, <2>3 DEF TheHeap!Free
<1> QED
  BY <1>6, <1>7

(* malloc and free implement the abstract heap, for every arena and every  *)
(* table length: to its callers the allocator only hands out bytes that    *)
(* nobody has and takes back one block at a time.                          *)
THEOREM RefinesHeap == Spec => ImplementsHeap
<1>1. Init => TheHeap!Init
  <2> SUFFICES ASSUME Init PROVE live = {}
    BY DEF TheHeap!Init
  <2>1. \A i \in AllocatedSlots : ~Allocated_blocks[i].is_valid
    BY DEF Init, NoBlock
  <2>2. \A i : ~Owned(i, Allocated_blocks)
    BY <2>1 DEF Owned
  <2> QED
    BY <2>2, LiveIsOwned
<1>2. HeapInv /\ [Next]_vars => [TheHeap!Next]_live
  <2> SUFFICES ASSUME HeapInv, [Next]_vars PROVE TheHeap!Next \/ UNCHANGED live
    OBVIOUS
  <2>1. ASSUME NEW size \in Sizes, Malloc(size)
        PROVE  TheHeap!Next \/ UNCHANGED live
    BY <2>1, MallocRefines DEF TheHeap!Next
  <2>2. ASSUME NEW p \in Pointers, Free(p)
        PROVE  TheHeap!Next \/ UNCHANGED live
    BY <2>2, FreeRefines DEF TheHeap!Next
  <2>3. ASSUME UNCHANGED Allocated_blocks PROVE UNCHANGED live
    BY <2>3 DEF live, InUse, Extent
  <2>4. ASSUME NEW size \in Sizes, MallocFails(size) PROVE UNCHANGED live
    BY <2>3, <2>4 DEF MallocFails
  <2>5. ASSUME NEW p \in Pointers, FreeFails(p) PROVE UNCHANGED live
    BY <2>3, <2>5 DEF FreeFails
  <2>6. CASE UNCHANGED vars
    BY <2>3, <2>6 DEF vars
  <2> QED
    BY <2>1, <2>2, <2>4, <2>5, <2>6 DEF Next, Spin
<1> QED
  BY <1>1, <1>2, HeapInvariant, PTL DEF Spec, ImplementsHeap, TheHeap!Spec
=============================================================================
