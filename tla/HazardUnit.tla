----------------------------- MODULE HazardUnit -----------------------------
(***************************************************************************)
(* hazard_unit.sv and its subunits forward.sv and lwstall.sv, as functions *)
(* of the pipeline registers they are wired to.  Stalls and flushes are    *)
(* active high: a pipeline register loads when its EN input is 0.          *)
(***************************************************************************)
EXTENDS Naturals

FromMemory    == 2   \* 2'b10: ALUResultM replaces the operand
FromWriteback == 1   \* 2'b01: ResultW replaces the operand
NoForward     == 0

\* Mutant: the two comparisons in the other order.
Forward_WritebackFirst(RsE, RdM, RegWriteM, RdW, RegWriteW) ==
    IF RsE = RdW /\ RegWriteW = 1 /\ RsE # 0 THEN FromWriteback
    ELSE IF RsE = RdM /\ RegWriteM = 1 /\ RsE # 0 THEN FromMemory
    ELSE NoForward

\* The youngest older instruction that writes RsE wins, so M goes before W.
Forward(RsE, RdM, RegWriteM, RdW, RegWriteW) ==
    IF RsE = RdM /\ RegWriteM = 1 /\ RsE # 0 THEN FromMemory
    ELSE IF RsE = RdW /\ RegWriteW = 1 /\ RsE # 0 THEN FromWriteback
    ELSE NoForward

\* Mutant: the second source register is forgotten.
lwstall_Rs1Only(RdE, Rs1D, Rs2D, ResultSrcE) == ResultSrcE % 2 = 1 /\ RdE = Rs1D

\* A load in E (ResultSrcE[0]) and a reader of its destination in D.
lwstall(RdE, Rs1D, Rs2D, ResultSrcE) ==
    ResultSrcE % 2 = 1 /\ (RdE = Rs1D \/ RdE = Rs2D)

CacheStall(MemReadM, HitM) == MemReadM = 1 /\ HitM = 0

\* Mutant: the instruction fetched behind a jump stays in D.
FlushD_Never(PCSrcE) == FALSE
FlushD(PCSrcE) == PCSrcE = 1

\* Mutant: a jump does not clear E.
FlushE_LoadUseOnly(PCSrcE, lw) == lw
FlushE(PCSrcE, lw) == PCSrcE = 1 \/ lw

\* StallF and StallD are one signal; so are StallE, StallM and StallW.
StallFD(lw, cacheStall) == lw \/ cacheStall
StallEMW_Never(cacheStall) == FALSE         \* mutant: E, M and W do
StallEMW(cacheStall) == cacheStall
=============================================================================
