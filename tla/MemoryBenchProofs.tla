------------------------- MODULE MemoryBenchProofs -------------------------
(***************************************************************************)
(* For every memory size, cache geometry and set of requests: a load that  *)
(* is held for two clock edges is answered from memory, and no load is     *)
(* held for more than three.                                               *)
(***************************************************************************)
EXTENDS MemoryBench, MemorySystemProofs

\* What reg_file_m holds is a request, and a load among them writes nothing.
LEMMA RequestType ==
    ASSUME req \in Requests \cup {Idle}
    PROVE  /\ req \in Request
           /\ req.MemRead = 1 => req.WE = {}
  BY RequestsAssumption, MemoryAssumption, ZeroInRange
  DEF Request, Idle, RamWord

\* Type correctness of the bench.
THEOREM TypeCorrect == Spec => []TypeOK
  <1>1. Init => TypeOK
    BY ZeroInRange, MemoryAssumption
    DEF Init, MemInit, TypeOK, MemTypeOK, Block, RamWord
  <1>2. TypeOK /\ [Next]_vars => TypeOK'
    <2> SUFFICES ASSUME TypeOK, [Next]_vars PROVE TypeOK'
      OBVIOUS
    <2>1. CASE Next
      <3>1. MemTypeOK'
        <4>1. req.WE \in SUBSET (0 .. 3) /\ req.A \in MemAddr /\ req.WD \in RamWord
          BY RequestType DEF TypeOK, Request
        <4>2. MemPosEdge(req.MemRead, req.WE, req.A, req.WD)
          BY <2>1 DEF Next, Hold, Advance, ClockMemories
        <4> QED  BY <4>1, <4>2, ClockTypes DEF TypeOK
      <3>2. req' \in Requests \cup {Idle} /\ waited' \in Nat
        BY <2>1 DEF TypeOK, Next, Hold, Advance
      <3> QED  BY <3>1, <3>2 DEF TypeOK
    <2>2. CASE UNCHANGED vars
      BY <2>2 DEF vars, TypeOK, MemTypeOK
    <2> QED  BY <2>1, <2>2
  <1> QED  BY <1>1, <1>2, PTL DEF Spec

-----------------------------------------------------------------------------
(* The three edges of a stall.  After the first the lookup registers hold  *)
(* the load's own set and tag; after the second the block they point at    *)
(* holds the load's word, because the fill of that edge was aimed by them; *)
(* after the third the registered comparison has seen that block.          *)

LookupAimed == A_tag = TagOf(req.A) /\ A_set = SetOf(req.A)

StallPhase ==
    /\ waited >= 1 => req.MemRead = 1 /\ LookupAimed
    /\ waited >= 2 => cache_array[A_set] =
                         [valid |-> 1, tag |-> A_tag, data |-> RDMem(req.A)]
    /\ waited >= 3 => hit = 1

\* A load writes nothing to memory, so what it reads does not move under it.
LEMMA LoadKeepsRam ==
    ASSUME TypeOK, RamWrite({}, req.A, req.WD)
    PROVE  ram_array' = ram_array
  BY DEF RamWrite, TypeOK, MemTypeOK

LEMMA StallPhaseStep == TypeOK /\ StallPhase /\ [Next]_vars => StallPhase'
  <1> SUFFICES ASSUME TypeOK, StallPhase, [Next]_vars PROVE StallPhase'
    OBVIOUS
  <1>1. CASE Hold
    <2>1. req' = req /\ req.MemRead = 1 /\ hit = 0 /\ waited \in Nat
      BY <1>1 DEF Hold, Stalled, StallEMW, CacheStall, TypeOK
    <2>1a. /\ waited' >= 2 => waited >= 1
           /\ waited' >= 3 => waited >= 2
      BY <1>1, <2>1 DEF Hold, WAIT_CAP
    <2>2. req.WE = {} /\ req \in Request
      BY <2>1, RequestType DEF TypeOK
    <2>3. MemPosEdge(1, {}, req.A, req.WD)
      BY <1>1, <2>1, <2>2 DEF Hold, ClockMemories
    <2>4. ram_array' = ram_array
      BY <2>3, LoadKeepsRam DEF MemPosEdge
    <2>5. RDMem(req.A)' = RDMem(req.A)
      BY <2>1, <2>4 DEF RDMem
    <2>6. LookupAimed'
      BY <2>1, <2>3 DEF MemPosEdge, CacheLookup, LookupAimed
    <2>7. A_set \in SetIndex /\ cache_array \in [SetIndex -> Block]
      BY DEF TypeOK, MemTypeOK
    <2>8. cache_array' = [cache_array EXCEPT ![A_set] =
                            [valid |-> 1, tag |-> A_tag, data |-> RDMem(req.A)]]
      BY <2>1, <2>3 DEF MemPosEdge, CacheUpdate
    <2>9. ASSUME waited' >= 2
          PROVE  cache_array'[A_set'] = [valid |-> 1, tag |-> A_tag', data |-> RDMem(req.A)']
      <3>1. LookupAimed
        BY <2>9, <2>1a DEF StallPhase
      <3>2. A_set' = A_set /\ A_tag' = A_tag
        BY <2>1, <2>6, <3>1 DEF LookupAimed
      <3> QED  BY <2>5, <2>7, <2>8, <3>2
    <2>10. ASSUME waited' >= 3 PROVE hit' = 1
      <3>1. cache_array[A_set].tag = A_tag /\ cache_array[A_set].valid = 1
        BY <2>10, <2>1a DEF StallPhase
      <3> QED  BY <2>3, <3>1 DEF MemPosEdge, CacheLookup, valid
    <2> QED  BY <2>1, <2>6, <2>9, <2>10 DEF StallPhase
  <1>2. CASE Advance
    BY <1>2 DEF Advance, StallPhase
  <1>3. CASE UNCHANGED vars
    BY <1>3 DEF vars, StallPhase, LookupAimed, RDMem
  <1> QED  BY <1>1, <1>2, <1>3 DEF Next

LEMMA StallPhaseInvariant == Spec => [](TypeOK /\ StallPhase)
  <1>1. Init => StallPhase
    BY DEF Init, StallPhase
  <1> QED  BY <1>1, StallPhaseStep, TypeCorrect, PTL DEF Spec

\* A load that was held for two edges or more leaves with its word of memory.
THEOREM LateHitFreshHolds == Spec => []LateHitFresh
  <1>1. TypeOK /\ StallPhase => LateHitFresh
    BY DEF TypeOK, StallPhase, LateHitFresh, Completing, Stalled, CacheStall, FoundData, LookupAimed
  <1> QED  BY <1>1, StallPhaseInvariant, PTL

\* Three edges always suffice: CacheStall cannot stop the pipeline.
THEOREM StallBoundedHolds == Spec => []StallBounded
  <1>1. Init => StallBounded
    BY DEF Init, StallBounded
  <1>2. TypeOK /\ StallPhase /\ StallBounded /\ [Next]_vars => StallBounded'
    BY DEF TypeOK, StallPhase, StallBounded, Next, Hold, Advance, Stalled, StallEMW, CacheStall, vars
  <1> QED  BY <1>1, <1>2, StallPhaseInvariant, PTL DEF Spec
=============================================================================
