------------------------ MODULE MemorySystemProofs ------------------------
(***************************************************************************)
(* Facts about the memories for every address width and cache geometry:    *)
(* a clock edge keeps their contents well typed.                           *)
(***************************************************************************)
EXTENDS MemorySystem, TLAPS

\* Addresses split into a set index and a tag within the cache's arrays.
LEMMA AddressSplit ==
    ASSUME NEW a \in MemAddr
    PROVE  SetOf(a) \in SetIndex /\ TagOf(a) \in Tag
  BY MemoryAssumption DEF SetOf, TagOf, SetIndex, Tag, SetCount, MemAddr, MemSize

\* The power-on values of the lookup registers are in range.
LEMMA ZeroInRange == 0 \in MemAddr /\ 0 \in SetIndex /\ 0 \in Tag
  <1>1. 0 \in MemAddr /\ 0 \in SetIndex
    BY MemoryAssumption DEF MemAddr, MemSize, SetIndex, SetCount
  <1>2. TagOf(0) = 0
    BY MemoryAssumption DEF TagOf, SetCount
  <1> QED  BY <1>1, <1>2 DEF Tag

\* What data_mem shows at any address is a word.
LEMMA ReadType ==
    ASSUME ram_array \in [MemAddr -> RamByte], NEW a \in MemAddr
    PROVE  RDMem(a) \in RamWord
  BY MemoryAssumption DEF RDMem, RamWord, MemAddr, MemSize

\* A clock edge of the memories keeps them well typed.
LEMMA ClockTypes ==
    ASSUME MemTypeOK, NEW MemRead, NEW WE \in SUBSET (0 .. 3), NEW A \in MemAddr,
           NEW WD \in RamWord, MemPosEdge(MemRead, WE, A, WD)
    PROVE  MemTypeOK'
  <1>1. ram_array' \in [MemAddr -> RamByte]
    <2>1. ASSUME NEW a \in MemAddr, \E k \in WE : a = (A + k) % MemSize
          PROVE  WD[CHOOSE k \in WE : a = (A + k) % MemSize] \in RamByte
      BY <2>1 DEF RamWord
    <2> QED  BY <2>1 DEF MemPosEdge, RamWrite, MemTypeOK
  <1>2. hit' \in {0, 1} /\ A_tag' \in Tag /\ A_set' \in SetIndex
    BY AddressSplit DEF MemPosEdge, CacheLookup
  <1>3. cache_array' \in [SetIndex -> Block]
    <2> DEFINE old == cache_array[A_set].data
               merged == [k \in 0 .. 3 |-> IF k \in WE THEN WD[k] ELSE old[k]]
               Put(data) == [cache_array EXCEPT ![A_set] =
                                [valid |-> 1, tag |-> A_tag, data |-> data]]
    <2>1. merged \in RamWord /\ RDMem(A) \in RamWord
      BY ReadType DEF MemTypeOK, Block, RamWord
    <2>2. ASSUME NEW d \in RamWord PROVE Put(d) \in [SetIndex -> Block]
      BY DEF MemTypeOK, Block
    <2>3. \/ cache_array' = cache_array
          \/ cache_array' = Put(merged)
          \/ cache_array' = Put(RDMem(A))
      BY DEF MemPosEdge, CacheUpdate
    <2> QED  BY <2>1, <2>2, <2>3 DEF MemTypeOK
  <1> QED  BY <1>1, <1>2, <1>3 DEF MemTypeOK
=============================================================================
