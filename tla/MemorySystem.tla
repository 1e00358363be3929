---------------------------- MODULE MemorySystem ----------------------------
(***************************************************************************)
(* The memory stage's two memories, clocked together: data_mem.sv, a byte  *)
(* array written through on every store, and cache.sv, a direct-mapped     *)
(* array of one-word blocks in front of it.  Both see the address          *)
(* ALUResultM[16:0] of WHATEVER instruction is in M, at every clock edge.  *)
(*                                                                         *)
(* Three of the cache's signals are registers, so they lag: A_tag and      *)
(* A_set hold the address of the previous cycle, and hit compares that     *)
(* registered address with the array as it was a cycle before.             *)
(***************************************************************************)
EXTENDS Naturals

CONSTANTS
    MEM_ADDRESS_WIDTH,   \* bits of a data address (17)
    SET_ADDRESS_WIDTH,   \* bits that select a set of the cache (3)
    RamByte,             \* what a cell of ram_array holds
    ZeroByte             \* its power-on value

ASSUME MemoryAssumption ==
    /\ MEM_ADDRESS_WIDTH \in Nat /\ SET_ADDRESS_WIDTH \in Nat
    /\ 2 ^ MEM_ADDRESS_WIDTH \in Nat \ {0}
    /\ 2 ^ SET_ADDRESS_WIDTH \in Nat \ {0}
    /\ ZeroByte \in RamByte

VARIABLES
    ram_array,     \* data_mem.sv:17
    cache_array,   \* cache.sv:20, blocks {valid, tag, data}
    hit, A_tag, A_set

MemSize == 2 ^ MEM_ADDRESS_WIDTH
SetCount == 2 ^ SET_ADDRESS_WIDTH
MemAddr == 0 .. MemSize - 1

\* A[1+SET_ADDRESS_WIDTH:2] and A[ADDRESS_WIDTH-1:SET_ADDRESS_WIDTH+2]; the
\* byte offset A[1:0] is in neither.
SetOf(a) == (a \div 4) % SetCount
TagOf(a) == (a \div 4) \div SetCount

SetIndex == 0 .. SetCount - 1
Tag == {TagOf(a) : a \in MemAddr}
RamWord == [0 .. 3 -> RamByte]
Block == [valid : {0, 1}, tag : Tag, data : RamWord]

\* data_mem's RD: the four bytes from address a on, aligned or not.
RDMem(a) == [k \in 0 .. 3 |-> ram_array[(a + k) % MemSize]]

valid == cache_array[A_set].valid

\* What M reads: the block A_set points at on a hit, else the data memory.
FoundData(a) == IF hit = 1 THEN cache_array[A_set].data ELSE RDMem(a)

-----------------------------------------------------------------------------
MemInit ==
    /\ ram_array \in [MemAddr -> RamByte]
    /\ cache_array = [s \in SetIndex |->
                        [valid |-> 0, tag |-> 0, data |-> [k \in 0 .. 3 |-> ZeroByte]]]
    /\ hit = 0
    /\ A_tag = 0
    /\ A_set = 0

\* The enabled lanes of a store go to the bytes A, A+1, A+2 and A+3.
RamWrite(WE, A, WD) ==
    ram_array' = [a \in MemAddr |->
                    IF \E k \in WE : a = (A + k) % MemSize
                    THEN WD[CHOOSE k \in WE : a = (A + k) % MemSize]
                    ELSE ram_array[a]]

\* Mutant: the set is not cut to SET_ADDRESS_WIDTH bits.
CacheLookup_WideSet(A) ==
    /\ hit' = IF A_tag = cache_array[A_set].tag /\ valid = 1 THEN 1 ELSE 0
    /\ A_tag' = TagOf(A)
    /\ A_set' = A \div 4

\* The registered lookup: the address of this cycle is captured, the captured
\* address of the previous cycle is compared with the array.
CacheLookup(A) ==
    /\ hit' = IF A_tag = cache_array[A_set].tag /\ valid = 1 THEN 1 ELSE 0
    /\ A_tag' = TagOf(A)
    /\ A_set' = SetOf(A)

\* Mutants: a fill that leaves the old data in the block, and one that leaves
\* the block invalid.
CacheUpdate_StaleFill(MemRead, WE, A, WD) ==
    cache_array' = IF hit = 0 /\ MemRead = 1
                   THEN [cache_array EXCEPT ![A_set].valid = 1, ![A_set].tag = A_tag]
                   ELSE cache_array
CacheUpdate_InvalidFill(MemRead, WE, A, WD) ==
    cache_array' = IF hit = 0 /\ MemRead = 1
                   THEN [cache_array EXCEPT ![A_set] =
                           [valid |-> 0, tag |-> A_tag, data |-> RDMem(A)]]
                   ELSE cache_array

\* On a hit the enabled lanes of a store are merged into the block A_set;
\* otherwise a read fills that block with what data_mem shows at A.
CacheUpdate(MemRead, WE, A, WD) ==
    LET old == cache_array[A_set].data
        merged == [k \in 0 .. 3 |-> IF k \in WE THEN WD[k] ELSE old[k]]
        Put(data) == [cache_array EXCEPT ![A_set] =
                         [valid |-> 1, tag |-> A_tag, data |-> data]]
    IN  cache_array' =
            IF hit = 1 THEN (IF WE # {} THEN Put(merged) ELSE cache_array)
            ELSE (IF MemRead = 1 THEN Put(RDMem(A)) ELSE cache_array)

\* posedge CLK for both memories, driven by the instruction in M.
MemPosEdge(MemRead, WE, A, WD) ==
    /\ RamWrite(WE, A, WD)
    /\ CacheLookup(A)
    /\ CacheUpdate(MemRead, WE, A, WD)

MemTypeOK ==
    /\ ram_array \in [MemAddr -> RamByte]
    /\ cache_array \in [SetIndex -> Block]
    /\ hit \in {0, 1}
    /\ A_tag \in Tag
    /\ A_set \in SetIndex
=============================================================================
