# Verification of the pipelined RISC-V processor

TLA+ models, TLC runs and TLAPS proofs for the five-stage RV32I processor of this
repository (`src/rtl/risc_v.sv` and the modules it instantiates), for the Verilator
testbench that drives it, and for the serial driver through which the testbench
shows results on a VBuddy board (`src/vbuddy/vbuddy.cpp`).

## 1. Inventory

| component | source (`src/rtl/` unless said) | state | operations | interacts with |
|---|---|---|---|---|
| ALU, flags | `alu/alu.sv`, `flags/flags.sv` | none | result, four flags, branch decision | operands from E, decision to the hazard unit and the PC |
| control unit | `control_unit/`, `we_decoder/`, `ld_decoder/` | none | decoder tables, store lanes, load extension | D (decode), M (lanes, extension) |
| sign extension | `sign_extend/` | none | five immediate formats | D |
| hazard unit | `hazard_unit/` | none | forwarding, load-use stall, cache stall, flush | every pipeline register |
| pipeline | `risc_v.sv`, `pc/`, `instr_mem/`, `reg_file/`, `reg_file_{d,e,m,w}/` | PC, D, E, M, W, registers | rising edge, falling edge, release of reset | all |
| memory stage | `cache/`, `data_mem/` | `ram_array`, `cache_array`, `hit`, `A_tag`, `A_set` | lookup, fill, merge, write-through | address and data from M, `hit` to the hazard unit |
| testbench | `src/testbench/risc_v/versions/risc_v_full_program_tb.h` | CLK, RST, `simcyc`, `started` | the clock loop, keys, plotting, the ways out | the processor's inputs, the board driver |
| board driver | `src/vbuddy/vbuddy.cpp:1012-1226` | the open port, one call in progress | open, close, 13 commands with an acknowledgement, 4 queries | testbench, serial library, board |
| serial library | `src/vbuddy/vbuddy.cpp:107-988` | descriptor; locals of the reading loops; the driver's receive buffer behind it | open, close, write, three kinds of read with timeouts, flush, available | operating system, clock |
| unit tests | `src/testbench/control_unit`, `src/testbench/sign_extend` | none | tables and functions of expected outputs | decoders, sign extension |
| unused | `data_mem_wrapper/`, `pipeline_risc_v_draft.sv` | | | not instantiated by `risc_v.sv` |
| tooling | `Makefile`, `scripts/`, `programs/`, other unit testbenches | | | |

In the processor what is hard is *time*. Five
instructions are in flight, the register file is written on the opposite edge
from everything else, the cache's three lookup signals lag one and two cycles
behind the address, and three mechanisms (load-use stall, cache stall, flush)
may all act on one clock edge. On the host side it is *the other end*: the program,
the board and the bytes on the line run concurrently, messages carry no number, the
driver waits without timeouts, and characters arrive between any two looks at the
clock. What makes each part correct:

* pipeline: it retires the instructions of the program, in order, with the effect
  they have when executed one at a time;
* hazard unit: operands are those of program order, wrong-path instructions leave
  no trace, a stall loses nothing;
* memory stage: a load gets the bytes memory holds, and no stall lasts for ever;
* combinational units: they compute what the instruction set defines, at the edges
  of the number range too;
* serial library: no character is lost, repeated or reordered by a reading function,
  result codes mean what their comments say, timeouts are kept;
* board driver: the board has executed a command when its function returns, a query
  returns the answer to that query, calls return;
* testbench: what the screen shows belongs together, a key is heard, every way out
  leaves the board switched off.

`PROJECT.json` lists the hazards at their source lines with the properties that
cover them.

## 2. Modules

```
Words  -- Alu ---------+
     \-- ControlUnit --+-- RiscV -- RiscVProperties -- MCRiscV
HazardUnit ------------+      \          \ INSTANCE Sequential
MemorySystem ----------+       \------- RiscVProofs (uses DatapathProofs,
     \-- MemoryBench -- MCMemoryBench                MemorySystemProofs)
              \-- MemoryBenchProofs
Alu, SignExtend -- UnitTests -- DatapathBench -- DatapathBenchProofs (uses DatapathProofs)
Serialib -- SerialBench -- SerialBenchProofs
       \-- Vbuddy -- MCVbuddy        Vbuddy: INSTANCE Commands (refinement)
              \-- VbuddyProofs
Testbench -- TestbenchProofs         Testbench: INSTANCE Commands (composition)
```

* **Words**: a word is the natural number of its bits; the width is a parameter
  (`BYTE_WIDTH`, four lanes to a word). Sums wrap with `Trunc`; a bitwise operator makes
  the word of a function from bit positions to bits.
* **Alu**: `alu.sv` and `flags.sv` as operators. `C` is the top bit of the widened
  sum or difference, as Verilog evaluates `{C, ALUResult} = SrcA - SrcB`.
* **ControlUnit**: the decoder tables. `WriteEnable` is the set of enabled lanes.
* **SignExtend**: `sign_extend.sv` at 32 bits, as the table that names the driver of
  each output bit, and the assembler's side of the instruction formats.
* **HazardUnit**: `forward.sv`, `lwstall.sv` and the stall and flush equations. The
  signals are active high in the code (the comment at `hazard_unit.sv:5` says
  otherwise).
* **MemorySystem**: both memories and their common rising edge, with the request as
  parameters, so that the pipeline and the bench conjoin the same actions. Verilator
  gives two-state registers that start at zero, and drops the high bits of an index,
  so addresses wrap.
* **MemoryBench**: the memory stage under arbitrary requests. `Hold` is a rising edge
  at which `StallM` keeps the load, `Advance` one at which the next instruction
  enters M.
* **RiscV**: the processor. One variable per register of the design (the pipeline
  registers are records with the fields of `reg_file_d/e/m/w.sv`), one operator per
  wire, one operator per `always_ff` block. `PosEdge` conjoins all blocks of the
  rising edge, `NegEdge` is the register file's, `ReleaseReset` is the edge at which
  the testbench lowers RST together with CLK: `pc.sv` is sensitive to `negedge RST`,
  so the PC loads there as well.
* **Sequential**: what the pipeline promises, a machine that executes one instruction
  to completion with the same decoders and ALU.
* **RiscVProperties**: the properties and the refinement mapping. The mapping tells a
  bubble from an instruction by a cleared `PCPlus4`, which is sound while the PC stays
  below the last word of the address space, as it does in every run.
* **UnitTests**: `control_unit_tb.cpp` as a table of rows, and `expected_value` of
  `sign_extend_tb.cpp` on sets of bit positions. The control unit's tests still drive the
  flags and read the PCSrc that the unit had before `flags.sv` took them over, so a row is
  applied to the decoders and `flags.sv` together. `Failing` is the set of a row's
  assertions that do not hold.
* **DatapathBench**: one instruction through decoder, ALU, flags and result selection,
  and every immediate through decoder and sign extension, against the instruction set
  and against `UnitTests`.
* **Serialib**: the Linux branches of class `serialib` and class `timeOut`. `read()` is
  non-blocking, so `readChar`, `readString` and `readBytes` are polling loops: the record
  `rd` holds the locals of the call in progress and its place in the loop, and there is
  one action per step between two looks at the clock or the port (`WaitChar`, `GotChar`,
  `NoChar`, `Late`, ...). `readString` calls `readChar` for each character with the time
  that is left. `elapsedTime_ms` is computed from seconds and microseconds as in the code
  and converted to unsigned long modulo `ULongMod`; a timer is the date at which it
  was started. `buf` holds the characters a call has stored, `zero` whether the 0 that ends
  a string stands behind them.
* **SerialBench**: a client that makes any call in any order while characters arrive,
  time passes and the clock may be set back. `owed` is a history variable: what has
  arrived and was neither handed out nor flushed.
* **Vbuddy**: the vbd functions over `Serialib`, the commands on their way to the board
  (`tx`), the bytes on their way back (`line`), and the board, which is external: it
  answers each command once, with a line that starts with `$`, or with `$`, digits, `*`
  (sometimes `$$`, as the comments at `vbuddy.cpp:1125-1127` report). A command is its letter; its
  arguments do not influence the protocol. `Parse` is what the queries do to a message,
  exceptions included. Faults (each counted, at most `MaxFaults`): a write that fails, an
  answer that is lost, a read that fails, and a process that is killed and started again.
* **Commands**: what the driver promises, in three variables: commands are executed once
  each and in order, a call returns when the board has caught up, and each fault lets the
  program run at most one command ahead.
* **Testbench**: `main()` over `Commands`. The processor is reduced to the cycle a
  register value was sampled in and the moment its pc is 0x60 (its own behaviour is
  `RiscV`); keys come one per `getchar`. `screen` is what the board shows, `last` a history
  variable: the last command it executed. The trace and the assembler call are left out.

An instruction is the record of the fields `risc_v.sv` extracts. Its immediate is
kept as the five words the five formats read out of its bits, so a decoder that
selects a wrong format reads a wrong value; that the selected format is the right
one is `SignExtend`'s property. `instr_mem` masks the address to the ROM's size
(its array is declared at `32'hBFC00000`, the PC starts at 0).

Definitions named `X_Something` beside a definition `X` are its mutants: the same
operation with a plausible mistake. Each is listed in `PROJECT.json` with the
property that it breaks; nothing else refers to them.

## 3. Runs

Passing:

| run | shows |
|---|---|
| `memory_stall` | a load is held at most three edges (`StallBounded`), so every cache stall ends (`StallEnds`); held for two or more, it leaves with the bytes of data memory (`LateHitFresh`) |
| `pipeline_sequential` | programs without loads, and programs that execute a single load not followed at once by an independent jump or branch, run as on `Sequential` (`ImplementsSequential`): forwarding, flushes, register file edges, reset and a cache miss together |
| `pipeline_loads` | with loads and stalls anywhere: operands are those of program order (`OperandsCurrent`), no load address is forwarded (`NoAddressForwarded`), D and E are empty behind a jump in M (`JumpShadowEmpty`) |
| `pipeline_spaced_loads` | if no load is followed at once by an independent jump, branch or load, nothing is lost under a stall and instructions retire in order; the loaded bytes are left open (`ImplementsAnyLoad`) |
| `datapath` | results, branches, sub-word accesses and immediates against the instruction set; the control unit's tests and the sign extension's reference function against the units: exactly the assertion on jal's `ResultSrc` fails, and exactly the negative jump offsets differ (`UnitTestsAgree`) |
| `serial_reads` | the buffer of the current call followed by the receive buffer is what arrived and was not handed out, and no more characters are stored than the caller allows (`StreamIntact`); result codes, and when the terminating 0 is written past the caller's buffer (`ResultMeaning`); a call that gives up has waited its time (`TimeoutHonest`); one that has a timeout returns (`TimedReadsReturn`), also when the clock is set back |
| `vbuddy_session` | `Vbuddy` implements `Commands` (`ImplementsCommands`); the three queries that flush return their own answer even after a fault, vbdFlag without one (`QueryExact`); calls return while there is no fault (`CallsReturn`) |
| `testbench` | value and cycle count belong together, from the first shown cycle on and with none missed (`ShownTogether`); q is heard (`QuitHeard`); however the loop ended, the program exits after vbdClose has returned, STOP is the last command and turning the LEDs off the one before it (`CleanEnd`); the program ends (`Terminates`) |

Violated, each a documented behaviour that the code does not have:

| run | what TLC finds |
|---|---|
| `cache_coherent` | the fill on the first held edge of a load puts memory's word at the load's address under the tag and set of the address before it (`cache.sv:58`): a load of 8 makes a valid block of address 0 with the word of address 8 |
| `lost_under_stall` | a jump or a load in E is flushed while a load in M waits for the cache |
| `jalr_base` | the base of a jalr is not forwarded |
| `early_reply` | a board that answers before the host's flush leaves the query waiting for ever |

`CacheCoherent` has other ways to fail, with longer traces: on a hit a store is merged into the block of the
previous address (`cache.sv:46`), and on a stale miss it leaves the block of its own address as it was.

Other disagreements met while modelling, without a run of their own: when the final
character is the last one that fits (or the timeout strikes on a full buffer),
`readStringNoTimeOut` and `readString` write the terminating 0 to `receivedString[maxNbBytes]`
(`vbuddy.cpp:712`, 775, 790), behind the array of a caller that passes its whole size, as
`ack` (80) and `vbdFlag` (10) do; `ResultMeaning` states exactly when, and the board's
answers (`$` and a line end, or `$1*`) are too short for it. The test of jal expects `ResultSrc` 3
(`control_unit_tb.cpp:301`), the decoder gives 2 (`main_decoder.sv:123`); `UnitTestsAgree`
has that assertion as the only one to fail. Besides, `V` is the overflow
of an addition, so blt of 1 and 2 is not taken (`alu.sv:54`; `SignedBranchPartial` says
what is left); auipc writes pc + 4 although `risc_v_single_instructions.h:430` expects the
sum; the reference function of `sign_extend_tb.cpp` does not extend the sign of a jump's
offset, so that test passes or fails with the random instruction (`UnitTestsAgree` says
which); `flushReceiver` returns true
whatever happens although its comment has zero on failure; `elapsedTime_ms` returns
milliseconds, its comment says microseconds.

The passing runs say what is left of each promise: `LateHitFresh` beside
`cache_coherent` (a load held for two edges or more; one that completes
at once on the hit of another address may get that block's bytes), `pipeline_spaced_loads` beside `lost_under_stall`,
`vbuddy_session` (whose board answers no query before the flush) beside `early_reply`; `OperandsCurrent` and the theorem on it exclude auipc (the
instruction behind one is given its ALU output, which is not what it writes) and
cover the ALU operand and the store data, not the base of a jalr. In the
`pipeline_sequential` programs the base of a jalr (x3) is written by the first
instruction and never again, far enough ahead of any jalr.

**Bounds.** The pipeline runs use 8-bit words of 2-bit bytes, four registers, a ROM of eight
instructions (16 in `pipeline_sequential`), 16 bytes of data memory and two cache sets; a
program is a three-instruction prologue and *every* sequence of four instructions over an
alphabet of eight to ten.
Hazards relate instructions at most three apart (E to W, plus one in D), so sequences
of four have each of them with a neighbour on either side; backward branches and the
wrap of the ROM address repeat them. `MAX_SIM_CYC` (12 to 20) lets each program drain
through its stalls. In `pipeline_sequential` the ROM is longer than the simulation fetches
in 18 cycles and a program with a load does not jump back, so that load is executed once:
a load that is executed again may hit a stale block (see `cache_coherent`). The memory runs have two sets and two tags per set, so blocks alias and
are evicted, and model values for bytes, because the memories only move them. The
datapath run is exhaustive over 4-bit operands (1-bit bytes): every sign combination,
overflow and shift distance occurs. Its immediates have at most
three 1 bits; the unit is a wiring table, and a wrong wire shows with one bit.
`WAIT_CAP` caps the counter of held edges one above the bound claimed.

`serial_reads` has two characters (one of them the final one), buffers of up to two and
timeouts of up to two milliseconds of two clock units, seconds of two milliseconds: a
buffer can be full, empty or ended by its last character, a call spans several seconds, and
`MaxClock` lies beyond every deadline from every start date. Sixty-four stands for the width of unsigned
long; a negative difference is still far from every timeout. `vbuddy_session` has
answers of one to four digits for a query's buffer of five (`QuerySize`, 10 in the code): two
digits fit exactly with both `$` and the `*`, three only if the second `$` stays away, four
not at all. (In the program: eight digits may be too long, nine are.) An answer that does not fit
leaves a message without `$`, on which `Parse` throws; `QueryExact` allows that only when
the answer with both `$` is too long. There are two faults, so that a second one can hit a session that is already out
of step. `testbench` runs 13 cycles: three plots of the pdf after a start in any cycle, with
one fault and up to two keys waiting.

**Fairness.** The testbench's `for` loop evaluates the next edge unconditionally, which
is `WF_vars(Next)`: a clock edge always comes. `SerialBench`: the calling thread runs and
time passes (no fairness for characters, errors or the client). `Vbuddy`: the process
runs, the board executes what it has received, the line delivers; no function is ever
obliged to be called. `Testbench`: the process runs, the board executes, and a call that
may return does. The pipeline
runs, the datapath bench and the testbench allow deadlock because the simulation ends after
`MAX_SIM_CYC` cycles and a sweep after its last operand; the memory, serial and driver
runs never stop.

## 4. Proofs

For every width, memory size, cache geometry, program and set of requests, for every
character set, limit and timeout of the serial library, for every set of answers and number
of faults of the driver, and for every number of cycles and keys of the testbench:

* `MemoryBenchProofs`: `TypeCorrect`, `LateHitFreshHolds`, `StallBoundedHolds`. The
  properties are not inductive: whether the third edge of a stall ends it depends on
  what the first two captured. The invariant `StallPhase` says what is known after each
  held edge: after one, `A_tag`/`A_set` are the load's own; after two, its block has been
  filled with memory's bytes under its tag; after three, `hit` is set. A held load
  enables no write lane (`RequestsAssumption`, from its decoder row), so memory does not
  change under it.
* `RiscVProofs`: `TypeCorrect` rests on the operator lemmas of `DatapathProofs` (each
  unit stays within its width) and `MemorySystemProofs`.
  `NoAddressForwardedHolds` follows from `LoadUseApart`: the instruction in E never reads
  the destination of a load in M, because `lwstall` put a bubble between them and every
  stall holds both.
  `OperandsCurrentHolds` needs more (`OperandsInv`): x0 reads as zero, the copies in E
  are equal to the register file for every register that M and W do not write (on the
  low phase of the clock, W has already been written), and an instruction that writes
  a link has bubbles in E and D behind it (`JumpShadow`), so forwarding `ALUResultM` never hands
  out a link's ALU output. `JumpShadowEmptyHolds` is the last part of it.
* `DatapathBenchProofs`: the six properties of the `datapath` run, for every operand and
  every width instead of 4-bit words, and for immediates with any number of 1 bits. The
  bench's state hardly matters (`BenchInv` is its type); the work is arithmetic.
  `ResultCorrectHolds` goes through the ALU's operations one by one: `AddSub` for the wrap,
  `SignedLess` for the two ways set-less-than compares, `ArithmeticShift` for the shift that
  fills its vacated bits with an or: `OrAdds` shows that or-ing a number below a power of two
  into a multiple of it is an addition, bit by bit (`LowBits`, `HighBits`).
  `BranchCorrectHolds` and `SignedBranchHolds` rest on `Difference` (the borrow of a
  subtraction is the order of the words), `RoundTripHolds` on `LanesDigits` (the lanes are
  the digits of a word in base 256) and `ExtendSigned`, `ImmediatesHold` on `DriverInverts`
  (`sign_extend.sv` reads each bit from where the assembler put it), `UnitTestsHold` on
  `TestsFail` (which assertions of which rows), `ExpectedValue` and `SignForgotten` (every
  instruction word).
* `SerialBenchProofs`: `TypeCorrect` and `StreamIntactHolds`. `StreamIntact` is not
  inductive: whether the character that `readChar` finds still fits the caller's buffer
  was decided by the loop test of `readString`, any number of polls earlier. `StreamInv`
  adds `Room`: while a call waits for a character its buffer is below the limit. Even
  the types need it, since `readBytes` computes how many bytes it still wants. The lemmas
  `MoveHead`, `MovePrefix` and `ArriveAtEnd` are the facts on sequences behind it.
  `ResultMeaningHolds` and `TimeoutHonestHolds` are action properties of the step that
  returns, and what it returns was settled by earlier ones: `CallInv` keeps which function
  loops where, that no character taken so far was the final one, that `readChar`'s own
  timer is the call's, and that the clock has not run back behind the call's start.
  `ReturnSteps` lists the ways to return, with the characters and the 0 they leave; `Elapsed` shows that `elapsedTime_ms`, with its
  borrow from the seconds and its wrap, never runs ahead of the clock.
* `VbuddyProofs`: `TypeCorrect` and `CommandsImplemented`, the refinement of `Commands`: the
  initial states map to initial states and every step of host, line and board to a step
  of `Commands` or to none. What a returning call must know is that the board has caught up,
  and it only sees bytes. `Balance` counts: commands not executed plus replies not
  read are at most the faults plus one for a call that is still waiting. A reply is counted
  by its terminator (`nl` or `*`), and `Framed` says that every `AckSize` characters of
  unread bytes contain one: a buffer that `ack` reads to its end has consumed a reply too, so
  no call returns without having used one up. `ReadInv` and `PortInv` tie the reading loop's
  locals to the call.
* `TestbenchProofs`: `TypeCorrect`, `QuitHeardHolds`, `CleanEndHolds`, `ShownTogetherHolds`.
  `QuitDue` keeps the position of the q among the keys below the cycles left until it is due;
  `EndInv` says that once the LEDs have been turned off that command is the last one issued or
  executed, and once vbdClose has been called STOP is, with it right in front; `FirstInv`
  keeps which cycle can be the first on the screen; `ShowInv` relates every cycle count in the queue to the command
  in front of it, to the count before it and to what the loop issues next, since with a fault the screen lags
  behind the program by a command or more.

Assumptions: the constants' types (`TimeAssumption` and `BenchAssumption` for the serial
library, `BoundAssumption` for the testbench); `WidthAssumption` (a shift distance is less
than the width: 2^5 = 32 in the hardware); `AckAssumption` (the 80 bytes of `ack` hold any
answer of the board); and facts of arithmetic that have nothing to do with the code but need induction over the
width: `PowerAssumption` and `ExponentAssumption` (powers of two are positive, multiply, and
the word's modulus is one) and `BinaryAssumption` (words and sequences of bits correspond one
to one). TLC evaluates all of them on each instance.

Only model-checked: liveness (`StallEnds`, `TimedReadsReturn`, `CallsReturn`, `Terminates`),
which is out of the prover's reach; the refinement of `Sequential` (`ImplementsSequential`,
`ImplementsAnyLoad`) and `StallLosesNothing`, which hold for restricted sets of programs and
need an invariant over all instructions in flight; and `QueryExact`, which needs
the content of every reply on the line, not only their number.

## 5. Not modelled

The Windows branches of the serial library (they use members that the class does not
declare, so they cannot be built), the arguments of the board's commands (`vbdHex` is modelled for the digits 0 to 5 its switch
has cases for; another digit would send an uninitialised message), what a terminating 0 behind a full
array overwrites in its caller (the driver's model goes on as if nothing were there), the trace file,
the draft and the single-cycle memory wrapper that nothing instantiates, and the build and
assembly tooling. The other unit testbenches (`alu_tb.cpp`, `reg_file_tb.cpp`, `pc_tb.cpp`,
`data_mem_wrapper_tb.cpp`, `risc_v_single_instructions.h`) drive fixed 32-bit vectors through one step, which
TLC's integers cannot hold; the units they test are swept at smaller widths instead. Fetches at addresses that are not multiples of four are not exercised:
the model keeps an instruction per byte address, but the programs place one at aligned
addresses only. A reset held for longer than the testbench's one cycle is a parameter
(`RESET_CYCLES`) that the runs leave at 1; only the PC is reset by the code, so a longer
one fetches the first instruction more than once.

## 6. Plan

1. `QueryExact` for every set of answers: after a flush, and with at most one fault, the
   unread bytes are the answer to the current query; what `Parse` makes of it.
2. `StallLosesNothing` for spaced programs, from an invariant on what may stand behind a
   load; then `ImplementsSequential` for programs without loads, from `OperandsInv` and an
   invariant that relates the PCs in flight.
