-------------------------------- MODULE Isa --------------------------------
(***************************************************************************)
(* What a program may rely on: the instructions the processor implements   *)
(* (armcpu/note), one per step, as functions from the state m of a machine *)
(* without a pipeline to the next, with its exceptions and interrupts.     *)
(***************************************************************************)
EXTENDS Arch

-----------------------------------------------------------------------------
(* The machine: pc and npc, the addresses of this instruction and the next,*)
(* slot, whether this one is in the delay slot of a branch that is taken,  *)
(* out, what the program has written to devices, and window: an interrupt  *)
(* may come before one of that many instructions (open: it is enabled).    *)

Goto(m, a) ==
    [m EXCEPT !.pc = a, !.npc = (a + WORD) % SIZE, !.slot = FALSE, !.window = 0]
Trap(m, e, epc, badvaddr) ==
    [Goto(m, Vector(m.cp0, e)) EXCEPT !.cp0 = setup_exc(@, e, epc, badvaddr)]
\* An exception of the instruction at pc: in a delay slot it is the branch
\* that will be executed again.
Raise(m, e, badvaddr) ==
    Trap(m, e, IF m.slot THEN m.pc - WORD ELSE m.pc, badvaddr)

Advance(m) == [m EXCEPT !.pc = m.npc, !.npc = (m.npc + WORD) % SIZE, !.slot = FALSE]
Branch(m, taken, dest) ==
    IF taken THEN [Advance(m) EXCEPT !.npc = dest, !.slot = TRUE] ELSE Advance(m)
Set(m, r, v) == IF r = 0 THEN m ELSE [m EXCEPT !.regs[r] = v]

Load(m, i, va) ==
    LET word == ReadPhys(m.ram, Aligned(Phys(m.tlb, va)))
    IN  Set(Advance(m), i.rt,
            CASE i.op = "LW" -> word
              [] i.op = "LB" -> SignExtended(Digit(word, va % WORD))
              [] i.op = "LBU" -> Digit(word, va % WORD))
Store(m, i, va) ==
    LET a == Aligned(Phys(m.tlb, va))
        v == IF i.op = "SW" THEN m.regs[i.rt]
             ELSE WithDigit(ReadPhys(m.ram, a), va % WORD, m.regs[i.rt] % BYTE)
    IN  IF a \in RAM THEN [Advance(m) EXCEPT !.ram[a] = v]
        ELSE IF a \in Device THEN [Advance(m) EXCEPT !.out = Append(@, <<a, v>>)]
        ELSE Advance(m)

\* One instruction, executed at m.pc.
Execute(m, i) ==
    LET rs == m.regs[i.rs]
        rt == m.regs[i.rt]
        va == (rs + i.imm) % SIZE
        link == (m.pc + 2 * WORD) % SIZE
    IN  CASE i.op = "NOP"   -> Advance(m)
          [] i.op = "ADDU"  -> Set(Advance(m), i.rd, (rs + rt) % SIZE)
          [] i.op = "SLT"   -> Set(Advance(m), i.rd, IF Signed(rs) < Signed(rt) THEN 1 ELSE 0)
          [] i.op = "ADDIU" -> Set(Advance(m), i.rt, va)
          [] i.op \in {"LW", "LB", "LBU"} ->
                LET e == exc_code(FALSE, i.op = "LW", m.tlb, va)
                IN  IF e = "NONE" THEN Load(m, i, va) ELSE Raise(m, e, va)
          [] i.op \in {"SW", "SB"} ->
                LET e == exc_code(TRUE, i.op = "SW", m.tlb, va)
                IN  IF e = "NONE" THEN Store(m, i, va) ELSE Raise(m, e, va)
          [] i.op = "BEQ"   -> Branch(m, rs = rt, (m.pc + WORD + i.imm) % SIZE)
          [] i.op = "BNE"   -> Branch(m, rs # rt, (m.pc + WORD + i.imm) % SIZE)
          [] i.op = "BLTZ"  -> Branch(m, Signed(rs) < 0, (m.pc + WORD + i.imm) % SIZE)
          [] i.op = "BGTZ"  -> Branch(m, Signed(rs) > 0, (m.pc + WORD + i.imm) % SIZE)
          [] i.op = "J"     -> Branch(m, TRUE, i.imm)
          [] i.op = "JAL"   -> Set(Branch(m, TRUE, i.imm), RA, link)
          [] i.op = "JR"    -> Branch(m, TRUE, rs)
          [] i.op = "JALR"  -> Set(Branch(m, TRUE, rs), i.rd, link)
          [] i.op = "MULT"  -> [Advance(m) EXCEPT !.lohi = rs * rt]
          [] i.op = "MFLO"  -> Set(Advance(m), i.rd, m.lohi % SIZE)
          [] i.op = "MFHI"  -> Set(Advance(m), i.rd, m.lohi \div SIZE)
          [] i.op = "MTLO"  -> [Advance(m) EXCEPT !.lohi = SIZE * (@ \div SIZE) + rs]
          [] i.op = "MTHI"  -> [Advance(m) EXCEPT !.lohi = (SIZE * rs) + (@ % SIZE)]
          [] i.op = "MFC0"  -> Set(Advance(m), i.rt, m.cp0[i.imm])
          [] i.op = "MTC0"  -> [Advance(m) EXCEPT !.cp0[i.imm] = rt]
          [] i.op = "TLBWI" -> [Advance(m) EXCEPT !.tlb[m.cp0.Index] =
                                   [vpn2 |-> m.cp0.EntryHi, lo0 |-> Lo(m.cp0.EntryLo0),
                                    lo1 |-> Lo(m.cp0.EntryLo1)]]
          [] i.op = "SYSCALL" -> Raise(m, "SYS", 0)
          [] i.op \in {"RI", "COP0"} -> Raise(m, "RI", i.imm)
          [] i.op = "FUNC"  -> Raise(m, "RI", ILLEGAL_FUNC)
          [] i.op = "ERET"  -> [Goto(m, m.cp0.EPC) EXCEPT !.cp0 = WithEXL(@, 0)]

-----------------------------------------------------------------------------
VARIABLES machine,  \* its state
          code      \* the program: physical address -> instruction

Fetched(a) == IF a \in DOMAIN code THEN code[a] ELSE NOP

\* What window may be after a step that leaves m: an instruction that disables
\* interrupts leaves fewer than the stages to those that have been fetched.
Windows(m) ==
    IF Enabled(m.cp0) THEN {OPEN} ELSE {0} \cup {w \in 0..OPEN : w < m.window}

fetch_exc == exc_code(FALSE, TRUE, machine.tlb, machine.pc)

Step ==
    LET i == Fetched(Phys(machine.tlb, machine.pc))
        m == IF fetch_exc = "NONE" THEN Execute(machine, i) ELSE Raise(machine, fetch_exc, machine.pc)
    IN  /\ i # Unset
        /\ \E w \in Windows(m) : machine' = [m EXCEPT !.window = w]
        /\ UNCHANGED code

\* An interrupt before the instruction at pc.
Interrupt ==
    /\ machine.window > 0
    /\ machine' = Raise(machine, "INT", machine.pc)
    /\ UNCHANGED code

\* What may not happen: an interrupt, or an exception of the fetch, in the slot of
\* a branch that is taken has the slot's own address as EPC, and the branch is lost.
LoseBranch ==
    /\ machine.slot
    /\ \/ machine.window > 0 /\ machine' = Trap(machine, "INT", machine.pc, machine.pc)
       \/ fetch_exc # "NONE" /\ machine' = Trap(machine, fetch_exc, machine.pc, machine.pc)
    /\ UNCHANGED code

\* The program is whatever has been loaded.
LoadProgram(a, i) ==
    /\ code[a] = Unset
    /\ code' = [code EXCEPT ![a] = i]
    /\ UNCHANGED machine

Init ==
    /\ code = [a \in CODE \cup DOMAIN Rom |-> IF a \in CODE THEN Unset ELSE Rom[a]]
    /\ machine \in Boot
Next == Step \/ Interrupt \/ \E a \in CODE, i \in Instr : LoadProgram(a, i)
Spec == Init /\ [][Next]_<<machine, code>>

\* The same but for branches lost.
LosingSpec == Init /\ [][Next \/ LoseBranch]_<<machine, code>>
=============================================================================
