------------------------------- MODULE MCCpu -------------------------------
(***************************************************************************)
(* Cpu for TLC: 8-bit words of two 4-bit bytes, four words of RAM, a       *)
(* program of three instructions that TLC chooses when they are fetched,   *)
(* and the exception vectors of a kernel like ucore's.                     *)
(***************************************************************************)
EXTENDS Cpu

I == INSTANCE Isa WITH machine <- Machine

\* Whatever the pipeline, the MMU, the multiplier and the memory controller
\* overlap, what a program sees is its instructions one after the other, each
\* done completely or, if it faults, not at all, with interrupts in between: where
\* they are enabled or were when the instruction was fetched.  The one exception is
\* the branch that an interrupt in its delay slot loses.  OwnFaults and AfterProduct
\* below say where the comparison ends.
ImplementsIsa == I!LosingSpec

\* What armcpu/note asks for, 'take care for exception in delay slot': there is no
\* such exception, and a branch whose slot is interrupted is executed again.
KeepsBranches == I!Spec

\* CONSTRAINT of the runs that compare with Isa, which ask no more of a program from
\* here on: a store, MTC0 or TLBWI still waits in the memory stage while a fetch
\* faults, mmu.v has gone back to the fetch's address, and stage_mem.v:214-218 takes
\* the fault for one of the older instruction, which has had its effect.
OwnFaults ==
    ~(clk = 1 /\ mem.state = "WAIT_MMU" /\ mem.mmu_opt = "NONE" /\ mmu.state = "READ"
      /\ mmu_exc_code # "NONE")

\* CONSTRAINT of the same runs: MTHI and MTLO come when the last product is there, as
\* in the kernel, which has read HI and LO before it restores them (exception.S:208);
\* the multiplier would write its product over the register.
AfterProduct ==
    clk = 1 /\ mem.state = "READY" /\ ex2mem.mem_opt \in {"MTLO", "MTHI"} => lohi_ready

\* Every stall ends: the MMU, the memory controller and the multiplier answer.
StallEnds == []<>(~stall)

\* What accum_syscall.s tests: exceptions are precise.  An exception or interrupt
\* changes no register, and EPC is where the program goes on: the instruction that
\* has not been executed, or the branch whose delay slot that one is in.
PreciseExceptions ==
    [][mem.exc_code \notin {"NONE", "ERET"} /\ clk = 0 =>
          /\ Machine'.regs = Machine.regs
          /\ cp0'.reg.EPC = IF Machine.slot THEN Machine.pc - WORD ELSE Machine.pc]_vars

-----------------------------------------------------------------------------
MCRam == {0, 2, 4, 6}
MCDevice == {16, 18}
COM == 16       \* a byte to the serial port takes one period
SL811 == 18     \* a write to the USB controller takes several
MCWriteTicks == [d \in MCDevice |-> IF d = COM THEN 0 ELSE 5]

In(op, rs, rt, rd, imm) == [op |-> op, rs |-> rs, rt |-> rt, rd |-> rd, imm |-> imm]
START == 40
MCCode == {START, START + 2, START + 4}
END == KSEG0 + START + 8
MCRom ==
    \* the program ends in a loop
    (START + 6 :> NOP) @@ (START + 8 :> In("J", 0, 0, 0, END)) @@ (START + 10 :> NOP) @@
    (START + 12 :> In("J", 0, 0, 0, END)) @@ (START + 14 :> NOP) @@
    \* refill: the entry has been prepared
    (64 :> In("TLBWI", 0, 0, 0, 0)) @@ (66 :> In("ERET", 0, 0, 0, 0)) @@
    \* other exceptions: skip the instruction
    (72 :> In("MFC0", 0, 3, 0, "EPC")) @@ (74 :> In("ADDIU", 3, 3, 0, 2)) @@
    (76 :> In("MTC0", 0, 3, 0, "EPC")) @@ (78 :> In("ERET", 0, 0, 0, 0))

\* r1 is 6, in a page that must not be written, and 8, in one that is missing, once
\* r2 has been added; r4 is in a missing page too, the one of the loop at the end.
\* r3 as Status disables interrupts.
MCInstr == {
    In("ADDU", 1, 2, 1, 0), In("LW", 1, 2, 0, 0), In("SB", 1, 1, 0, 0), In("SW", 1, 2, 0, SIZE - 4),
    In("SW", 0, 2, 0, KSEG0 + COM), In("SW", 0, 1, 0, KSEG0 + SL811),
    In("BNE", 1, 3, 0, 4), In("JAL", 0, 0, 0, END), In("JALR", 4, 0, 1, 0),
    In("MULT", 1, 2, 0, 0), In("MFLO", 0, 0, 2, 0), In("MTHI", 1, 0, 0, 0),
    In("MTC0", 0, 1, 0, "EntryLo0"), In("MTC0", 0, 3, 0, "Status"),
    In("SYSCALL", 0, 0, 0, 0), In("FUNC", 0, 0, 1, 0) }

\* As the kernel saves Status: MFC0, and work with what it read.
MCInstrMfc0 == {
    In("MFC0", 0, 1, 0, "EBase"), In("ADDU", 1, 2, 1, 0), In("SW", 0, 1, 0, KSEG0 + COM),
    In("SYSCALL", 0, 0, 0, 0) }

Boots == {[pc |-> KSEG0 + START, npc |-> KSEG0 + START + 2, slot |-> FALSE, window |-> OPEN,
           regs |-> (0 :> 0 @@ 1 :> 6 @@ 2 :> 2 @@ 3 :> 8 @@ 4 :> 28), lohi |-> 0,
           ram |-> (0 :> 1 @@ 2 :> 10 @@ 4 :> 4 @@ 6 :> 143),
           tlb |-> (0 :> [vpn2 |-> 0, lo0 |-> Lo(14), lo1 |-> Lo(2)]),
           cp0 |-> [Index |-> 0, EntryLo0 |-> 14, EntryLo1 |-> 98, BadVAddr |-> 0, EntryHi |-> 0,
                    Status |-> 1, Cause |-> "NONE", EPC |-> 0, EBase |-> KSEG0 + 64],
           out |-> << >>]}
=============================================================================
