---------------------------- MODULE MemoryBench ----------------------------
(***************************************************************************)
(* The memory system under every sequence of memory-stage instructions:    *)
(* req is what reg_file_m drives onto the memories (a load, a store or     *)
(* any other instruction, whose ALU result is an address to them too), and *)
(* the hazard unit's CacheStall holds a load in M while the cache misses.  *)
(* What comes next from the execute stage is arbitrary.                    *)
(***************************************************************************)
EXTENDS MemorySystem, HazardUnit

CONSTANT Requests   \* the memory-stage instructions that may arrive

Request == [MemRead : {0, 1}, WE : SUBSET (0 .. 3), A : MemAddr, WD : RamWord]

\* A load enables no write lane: MemWrite = 0 in its decoder row.
ASSUME RequestsAssumption ==
    /\ Requests \subseteq Request
    /\ \A r \in Requests : r.MemRead = 1 => r.WE = {}

VARIABLES
    req,      \* the instruction in M
    waited    \* clock edges the instruction in M has been held, up to WAIT_CAP

vars == <<ram_array, cache_array, hit, A_tag, A_set, req, waited>>

WAIT_CAP == 4   \* one more than StallBounded allows

Stalled == CacheStall(req.MemRead, hit)

\* The bubble a pipeline register is powered on with.
Idle == [MemRead |-> 0, WE |-> {}, A |-> 0, WD |-> [k \in 0 .. 3 |-> ZeroByte]]

Init ==
    /\ MemInit
    /\ req = Idle
    /\ waited = 0

ClockMemories == MemPosEdge(req.MemRead, req.WE, req.A, req.WD)

\* posedge CLK with StallM: reg_file_m keeps the load.
Hold ==
    /\ StallEMW(Stalled)
    /\ ClockMemories
    /\ waited' = IF waited < WAIT_CAP THEN waited + 1 ELSE waited
    /\ UNCHANGED req

\* posedge CLK without StallM: M goes to W, the next instruction enters M.
Advance ==
    /\ ~StallEMW(Stalled)
    /\ ClockMemories
    /\ req' \in Requests
    /\ waited' = 0

Next == Hold \/ Advance

\* The testbench toggles CLK in a loop, so a clock edge always comes.
Spec == Init /\ [][Next]_vars /\ WF_vars(Next)

-----------------------------------------------------------------------------
\* State of the bench: MemTypeOK of the memories, a request, a natural counter.
TypeOK ==
    /\ MemTypeOK
    /\ req \in Requests \cup {Idle}
    /\ waited \in Nat

\* The load in M completes in this cycle: its data goes to reg_file_w.
Completing == req.MemRead = 1 /\ ~Stalled

\* A load that hazard_unit held for at least two edges leaves M with the bytes
\* data_mem holds at its address: the fill of cache.sv:58 has reached the right
\* block, whatever was filled, merged or evicted before.
LateHitFresh ==
    Completing /\ waited >= 2 => FoundData(req.A) = RDMem(req.A)

\* hazard_unit.sv:66 holds a load for at most three edges: CacheStall can
\* never keep the pipeline stopped, although each fill is aimed by registers
\* that lag behind the address.
StallBounded == waited <= 3

\* Every cache stall ends: a load in M always reaches write-back.
StallEnds == Stalled ~> ~Stalled

\* cache/readme.md: the cache stores and loads "so there are no
\* inconsistencies": a valid block equals the word of memory it stands for.
CacheCoherent ==
    \A a \in MemAddr :
        LET b == cache_array[SetOf(a)]
        IN  a % 4 = 0 /\ b.valid = 1 /\ b.tag = TagOf(a) => b.data = RDMem(a)
=============================================================================
