-------------------------------- MODULE Cpu --------------------------------
(***************************************************************************)
(* The processor, armcpu/src: fetch, decode, execute and memory stages     *)
(* with their pipeline registers, forwarding, the multiplier, coprocessor  *)
(* 0, the MMU and the memory controller, one action for each edge of clk.  *)
(*                                                                         *)
(* An always block is an operator that gives the next value of its         *)
(* registers from their values before the edge.  clk_fast (clk50M) has     *)
(* RATIO periods between two edges of clk: the blocks that run on it are   *)
(* run RATIO times after each edge, and the latch of wb_reg, which settles *)
(* after each edge, is the operators wb_addr and wb_data.                  *)
(*                                                                         *)
(* The fields pc and slot of the stages, ctl.wrote and ex.lohi_before are  *)
(* history: no operator but Machine and what it uses reads them.           *)
(***************************************************************************)
EXTENDS Arch

CONSTANTS
    RATIO,          \* periods of clk_fast between two edges of clk
    WAIT_CYCLE,     \* of the multiplier
    WriteTicks,     \* device -> periods of clk_fast the controller needs after a write
    MAX_INTS        \* bound: interrupts a device raises

ASSUME CpuAssumption ==
    /\ RATIO \in Nat \ {0} /\ {WAIT_CYCLE, MAX_INTS} \subseteq Nat
    /\ WriteTicks \in [Device -> Nat]

VARIABLES
    clk,            \* the level since the last edge
    mem_addr,       \* stage_if: the address being fetched
    if2id, id2ex, ex2mem,   \* the pipeline registers
    regs,           \* register_file
    mem,            \* stage_mem
    cp0,            \* [reg, jmp_flag, jmp_dest]
    mult,           \* multiplier_wrapper
    mmu,            \* mmu
    ctl,            \* phy_mem_ctrl, with RAM and the devices
    int_req,        \* the interrupt line
    ints,           \* interrupts still to come
    code            \* the program

vars == <<clk, mem_addr, if2id, id2ex, ex2mem, regs, mem, cp0, mult, mmu, ctl, int_req, ints, code>>

Bubble == -1    \* the pc of a stage that holds no instruction

-----------------------------------------------------------------------------
(* The memory controller, clocked by clk_fast.                             *)

READING == ctl.state = "READ"
\* While the controller writes to RAM the bus carries the word written.
data_out(a) == IF ctl.state = "WRITE_RAM" /\ a \in RAM THEN ctl.data ELSE ReadPhys(ctl.ram, a)

WriteDevice(c, a, d) ==
    [c EXCEPT !.out = Append(@, <<a, d>>), !.wrote = TRUE, !.cnt = WriteTicks[a],
              !.state = IF WriteTicks[a] = 0 THEN "READ" ELSE "WRITE_DEVICE"]

is_write_posedge(c, is_write) == ~c.is_write_prev /\ is_write

\* One negative edge of clk_fast.
phy_mem_ctrl(c, is_write, a, d) ==
    LET l == [c EXCEPT !.is_write_prev = is_write]
    IN  CASE c.state = "READ" ->
               IF ~is_write_posedge(c, is_write) THEN l
               ELSE LET w == [l EXCEPT !.addr = a, !.data = d, !.cnt = 0]
                    IN  IF a \in RAM THEN [w EXCEPT !.state = "WRITE_RAM"]
                        ELSE IF a \in Device THEN WriteDevice(w, a, d) ELSE w
          [] c.state = "WRITE_RAM" ->   \* we rises after the first period, and RAM is written
               [l EXCEPT !.cnt = @ + 1, !.ram[c.addr] = c.data, !.wrote = @ \/ c.cnt = 0,
                         !.state = IF c.cnt + 1 = 2 THEN "RECOVERY_READ" ELSE @]
          [] c.state = "WRITE_DEVICE" ->
               [l EXCEPT !.cnt = @ - 1, !.state = IF c.cnt = 1 THEN "RECOVERY_READ" ELSE @]
          [] c.state = "RECOVERY_READ" -> [l EXCEPT !.state = "READ"]

-----------------------------------------------------------------------------
(* The MMU.                                                                *)

IsRead(opt) == opt \in {"LW", "LB", "LBU"}
IsWrite(opt) == opt \in {"SW", "SB"}

mem_unaligned_addr ==
    IF mmu.state = "READ" /\ mem.mmu_opt = "NONE" THEN mem_addr ELSE mem.mmu_addr
mem_align_require ==
    mem.mmu_opt \in {"LW", "SW"} \/ (mem.mmu_opt = "NONE" /\ mmu.state = "READ")
mmu_exc_code == exc_code(IsWrite(mem.mmu_opt), mem_align_require, mmu.tlb, mem_unaligned_addr)
dev_mem_addr == Aligned(Phys(mmu.tlb, mem_unaligned_addr))
dev_mem_is_write == mmu.state = "WRITE_DO_WRITE"
dev_mem_busy == ~READING \/ dev_mem_is_write
mmu_busy ==
    /\ mmu.state # "READ" \/ dev_mem_busy \/ IsWrite(mem.mmu_opt)
    /\ mmu_exc_code = "NONE"

selected_byte == Digit(data_out(dev_mem_addr), mem_unaligned_addr % WORD)
mmu_data_out ==
    CASE mem.mmu_opt = "LW"  -> data_out(dev_mem_addr)
      [] mem.mmu_opt = "LB"  -> SignExtended(selected_byte)
      [] mem.mmu_opt = "LBU" -> selected_byte
      [] OTHER -> 0

mmu_posedge ==
    LET m == IF mem.tlb_write = << >> THEN mmu
             ELSE [mmu EXCEPT !.tlb[mem.tlb_write[1]] = mem.tlb_write[2]]
    IN  CASE mmu.state = "READ" ->
               IF dev_mem_busy \/ mem.mmu_opt = "NONE" \/ mmu_exc_code # "NONE" THEN m
               ELSE [m EXCEPT !.data = mem.mmu_data,
                              !.state = CASE mem.mmu_opt = "SB" -> "WRITE_SB"
                                          [] mem.mmu_opt = "SW" -> "WRITE_DO_WRITE"
                                          [] OTHER -> "READ"]
          [] mmu.state = "WRITE_SB" ->
               [m EXCEPT !.state = "WRITE_DO_WRITE",
                         !.data = WithDigit(data_out(dev_mem_addr), mem_unaligned_addr % WORD, @ % BYTE)]
          [] mmu.state = "WRITE_DO_WRITE" -> [m EXCEPT !.state = "READ"]

-----------------------------------------------------------------------------
(* The multiplier, clocked by clk_fast, and the registers HI and LO.       *)

\* Mutant: ready is one count late, which the counter does not reach.
lohi_ready_late == mult.wait = WAIT_CYCLE + 2 /\ ~(ex2mem.mult_start /\ ~mult.start_prev)

lohi_ready == mult.wait = WAIT_CYCLE + 1 /\ ~(ex2mem.mult_start /\ ~mult.start_prev)
Lohi(opt, v) == IF opt = "MFLO" THEN v % SIZE ELSE v \div SIZE

\* One positive edge of clk_fast.
multiplier_wrapper(u, start, product, opt, data) ==
    LET go == start /\ ~u.start_prev
        r == IF ~go /\ u.wait = WAIT_CYCLE THEN product ELSE u.result
    IN  [start_prev |-> start,
         wait |-> IF go THEN 0 ELSE IF u.wait <= WAIT_CYCLE THEN u.wait + 1 ELSE u.wait,
         result |-> CASE opt = "LO" -> (SIZE * (r \div SIZE)) + data
                      [] opt = "HI" -> (SIZE * data) + (r % SIZE)
                      [] OTHER -> r]

\* What the blocks of clk_fast do between this edge of clk and the next.
clk_fast ==
    /\ ctl' = FoldLeft(LAMBDA c, t : phy_mem_ctrl(c, dev_mem_is_write', dev_mem_addr', mmu'.data),
                       [ctl EXCEPT !.wrote = @ /\ mem'.state # "READY"], [t \in 1..RATIO |-> t])
    /\ mult' = FoldLeft(LAMBDA u, t : multiplier_wrapper(u, ex2mem'.mult_start,
                            ex2mem'.opr1 * ex2mem'.opr2, mem'.lohi_opt, mem'.lohi_data),
                        mult, [t \in 1..RATIO |-> t])

-----------------------------------------------------------------------------
(* Coprocessor 0.                                                          *)

stall == mem.state # "READY"
clear == mem.exc_code # "NONE"
has_int_pending == int_req /\ Enabled(cp0.reg)

cp0_posedge ==
    CASE mem.exc_code = "NONE" ->
           [cp0 EXCEPT !.jmp_flag = FALSE,
                       !.reg = IF mem.cp0_write = << >> THEN @
                               ELSE [@ EXCEPT ![mem.cp0_write[1]] = mem.cp0_write[2]]]
      [] mem.exc_code = "ERET" ->
           [reg |-> WithEXL(cp0.reg, 0), jmp_flag |-> TRUE, jmp_dest |-> cp0.reg.EPC]
      [] OTHER ->
           [reg |-> setup_exc(cp0.reg, mem.exc_code, mem.exc_epc, mem.exc_badvaddr),
            jmp_flag |-> TRUE, jmp_dest |-> Vector(cp0.reg, mem.exc_code)]

-----------------------------------------------------------------------------
(* The register being written, and forwarding.                             *)

wb_addr ==
    IF \/ ex2mem.mem_opt = "READ_CP0"
       \/ stall /\ mem.wb_pe_mmu # mem.wb_pe_lohi
    THEN ex2mem.wb ELSE mem.ne_addr
wb_data ==
    IF ex2mem.mem_opt = "READ_CP0" THEN cp0.reg[CP0_VISIT_REG(ex2mem.mem_addr)]
    ELSE IF stall /\ mem.wb_pe_mmu /\ ~mem.wb_pe_lohi THEN mmu_data_out
    ELSE IF stall /\ mem.wb_pe_lohi /\ ~mem.wb_pe_mmu THEN Lohi(ex2mem.mem_opt, mult.result)
    ELSE mem.ne_data

register_file(r) == IF wb_addr # 0 /\ r = wb_addr THEN wb_data ELSE regs[r]

\* Mutant: the older of two results is taken.
forward_older(a, data) ==
    IF a = 0 THEN data
    ELSE IF wb_addr = a THEN wb_data
    ELSE IF ex2mem.wb = a /\ ex2mem.wb_from_alu THEN ex2mem.alu_result ELSE data

forward(a, data) ==
    IF a = 0 THEN data
    ELSE IF ex2mem.wb = a /\ ex2mem.wb_from_alu THEN ex2mem.alu_result
    ELSE IF wb_addr = a THEN wb_data ELSE data

reg1_data == forward(id2ex.reg1_addr, id2ex.reg1_data)
reg2_data == forward(id2ex.reg2_addr, id2ex.reg2_data)

alu(opt, a, b) ==
    CASE opt = "ADDU" -> (a + b) % SIZE
      [] opt = "LT"   -> IF Signed(a) < Signed(b) THEN 1 ELSE 0
      [] opt = "XOR"  -> a ^^ b
      [] opt = "PASS_OPR1" -> a
      [] OTHER -> 0

result_from_alu ==
    alu(id2ex.alu_opt, reg1_data, IF id2ex.alu_src = "IMM" THEN id2ex.imm ELSE reg2_data)

branch_flag ==
    \/ id2ex.branch_opt = "EQZ" /\ result_from_alu = 0
    \/ id2ex.branch_opt = "NEZ" /\ result_from_alu # 0
    \/ id2ex.branch_opt = "UNCOND"
branch_dest == IF id2ex.to_reg THEN reg2_data ELSE id2ex.dest

jmp_flag == cp0.jmp_flag \/ branch_flag
jmp_dest == IF cp0.jmp_flag THEN cp0.jmp_dest ELSE branch_dest

-----------------------------------------------------------------------------
(* Fetch.                                                                  *)

Fetched(c) == IF dev_mem_addr \in DOMAIN c THEN c[dev_mem_addr] ELSE NOP
Fetching == ~stall /\ ~clear /\ mmu_exc_code = "NONE" /\ ~has_int_pending

\* The instruction at a is chosen when it is first fetched.
LoadProgram ==
    IF Fetching /\ Fetched(code) = Unset
    THEN \E i \in Instr : code' = [code EXCEPT ![dev_mem_addr] = i]
    ELSE UNCHANGED code

stage_if_negedge == IF jmp_flag THEN jmp_dest ELSE if2id.next_pc

stage_if_posedge ==
    IF stall THEN if2id
    ELSE IF clear
    THEN [if2id EXCEPT !.exc_code = "NONE", !.exc_addr = mem_addr, !.instr = NOP, !.pc = Bubble]
    ELSE [exc_addr |-> mem_addr, next_pc |-> (mem_addr + WORD) % SIZE, pc |-> mem_addr, slot |-> FALSE,
          exc_code |-> CASE mmu_exc_code # "NONE" -> mmu_exc_code
                         [] mmu_exc_code = "NONE" /\ has_int_pending -> "INT"
                         [] OTHER -> "NONE",
          instr |-> IF Fetching THEN Fetched(code') ELSE NOP]

-----------------------------------------------------------------------------
(* Decode.  d is the register id2ex being filled.                          *)

reset(d) ==
    [branch_opt |-> "NONE", wb |-> 0, alu_opt |-> "NONE", imm |-> 0,
     reg1_addr |-> 0, reg1_data |-> 0, reg2_addr |-> 0, reg2_data |-> 0,
     mem_opt |-> "NONE", exc_code |-> "NONE", badvaddr |-> 0, pc |-> Bubble, slot |-> FALSE,
     epc |-> d.epc, to_reg |-> d.to_reg, dest |-> d.dest, alu_src |-> d.alu_src]
assign_reg1(d, i) == [d EXCEPT !.reg1_addr = i.rs, !.reg1_data = register_file(i.rs)]
assign_reg2(d, i) == [d EXCEPT !.reg2_addr = i.rt, !.reg2_data = register_file(i.rt)]
rs_as_reg2(d, i) == [d EXCEPT !.reg2_addr = i.rs, !.reg2_data = register_file(i.rs)]
alu_from_reg(d, opt) == [d EXCEPT !.alu_src = "REG", !.alu_opt = opt]
alu_from_imm(d, opt, imm) == [d EXCEPT !.alu_src = "IMM", !.alu_opt = opt, !.imm = imm]
proc_rtype(d, i, opt) ==
    [alu_from_reg(assign_reg2(assign_reg1(d, i), i), opt) EXCEPT !.wb = i.rd]
mem_opt(d, i, opt) ==
    [alu_from_imm(assign_reg2(assign_reg1(d, i), i), "ADDU", i.imm)
        EXCEPT !.wb = IF IsRead(opt) THEN i.rt ELSE @, !.mem_opt = opt]
wb_with_alu_imm(d, i, opt) == [alu_from_imm(assign_reg1(d, i), opt, i.imm) EXCEPT !.wb = i.rt]
proc_cond_branch(d, i, opt, cond) ==
    [alu_from_reg(d, opt) EXCEPT !.branch_opt = cond, !.to_reg = FALSE,
                                 !.dest = (if2id.next_pc + i.imm) % SIZE]
proc_instr_j(d, i) == [d EXCEPT !.branch_opt = "UNCOND", !.to_reg = FALSE, !.dest = i.imm]
proc_instr_jr(d, i) == [rs_as_reg2(d, i) EXCEPT !.branch_opt = "UNCOND", !.to_reg = TRUE]
proc_instr_jal(d, i) ==
    [proc_instr_j(d, i) EXCEPT !.reg1_data = (if2id.next_pc + WORD) % SIZE,
                               !.alu_opt = "PASS_OPR1", !.wb = RA]
proc_instr_jalr(d, i) == [proc_instr_jr(proc_instr_jal(d, i), i) EXCEPT !.wb = i.rd]
invalid_instruction(d, i) == [d EXCEPT !.exc_code = "RI", !.badvaddr = i.imm]
proc_cp0(d, i) ==
    CASE i.op = "ERET" -> [d EXCEPT !.exc_code = "ERET"]
      [] i.op = "TLBWI" -> [d EXCEPT !.mem_opt = "WRITE_TLB_IDX"]
      [] i.op = "MFC0" -> [d EXCEPT !.mem_opt = "READ_CP0", !.reg1_data = CP0[i.imm],
                                    !.alu_opt = "PASS_OPR1", !.wb = i.rt]
      [] i.op = "MTC0" -> [assign_reg2(d, i) EXCEPT !.mem_opt = "WRITE_CP0", !.reg1_data = CP0[i.imm],
                                                    !.alu_opt = "PASS_OPR1"]
      [] OTHER -> invalid_instruction(d, i)
proc_mfhilo(d, i) == [d EXCEPT !.mem_opt = i.op, !.wb = i.rd]
proc_mthilo(d, i) == [assign_reg1(d, i) EXCEPT !.mem_opt = i.op, !.alu_opt = "PASS_OPR1"]
proc_itype(d, i) ==
    CASE i.op = "BEQ"  -> proc_cond_branch(assign_reg2(assign_reg1(d, i), i), i, "XOR", "EQZ")
      [] i.op = "BNE"  -> proc_cond_branch(assign_reg2(assign_reg1(d, i), i), i, "XOR", "NEZ")
      [] i.op = "BLTZ" -> proc_cond_branch(assign_reg1(d, i), i, "LT", "NEZ")
      [] i.op = "BGTZ" -> proc_cond_branch(rs_as_reg2(d, i), i, "LT", "NEZ")
      [] i.op = "ADDIU" -> wb_with_alu_imm(d, i, "ADDU")
      [] IsRead(i.op) \/ IsWrite(i.op) -> mem_opt(d, i, i.op)
      [] OTHER -> invalid_instruction(d, i)

do_decode(d, i) ==
    CASE i.op = "NOP"  -> d
      [] i.op = "ADDU" -> proc_rtype(d, i, "ADDU")
      [] i.op = "SLT"  -> proc_rtype(d, i, "LT")
      [] i.op = "MULT" -> proc_rtype(d, i, "MULT")
      [] i.op = "FUNC" -> proc_rtype(d, i, "ILLEGAL")
      [] i.op = "J"    -> proc_instr_j(d, i)
      [] i.op = "JAL"  -> proc_instr_jal(d, i)
      [] i.op = "JR"   -> proc_instr_jr(d, i)
      [] i.op = "JALR" -> proc_instr_jalr(d, i)
      [] i.op \in {"MFHI", "MFLO"} -> proc_mfhilo(d, i)
      [] i.op \in {"MTHI", "MTLO"} -> proc_mthilo(d, i)
      [] i.op = "SYSCALL" -> [d EXCEPT !.exc_code = "SYS"]
      [] i.op \in {"MFC0", "MTC0", "TLBWI", "ERET", "COP0"} -> proc_cp0(d, i)
      [] OTHER -> proc_itype(d, i)

exc_epc(next_pc) == IF branch_flag THEN next_pc - 2 * WORD ELSE next_pc - WORD

stage_id_posedge ==
    IF stall THEN id2ex
    ELSE IF clear THEN reset(id2ex)
    ELSE LET d == [reset(id2ex) EXCEPT !.pc = if2id.pc, !.slot = branch_flag]
         IN  IF if2id.exc_code # "NONE"
             THEN [d EXCEPT !.exc_code = if2id.exc_code, !.epc = if2id.exc_addr,
                            !.badvaddr = if2id.exc_addr]
             ELSE do_decode([d EXCEPT !.epc = exc_epc(if2id.next_pc)], if2id.instr)

-----------------------------------------------------------------------------
(* Execute.                                                                *)

stage_ex_posedge(lohi) ==
    LET e == [ex2mem EXCEPT !.mult_start = FALSE]
        b == [e EXCEPT !.mem_opt = "NONE", !.wb = 0, !.exc_code = "NONE", !.wb_from_alu = FALSE,
                       !.pc = Bubble]
        x == [b EXCEPT !.epc = id2ex.epc, !.badvaddr = id2ex.badvaddr, !.pc = id2ex.pc,
                       !.slot = id2ex.slot]
        starts == id2ex.alu_opt = "MULT"
    IN  IF stall THEN IF clear THEN b ELSE e
        ELSE IF clear THEN b
        ELSE IF id2ex.exc_code # "NONE" THEN [x EXCEPT !.exc_code = id2ex.exc_code]
        ELSE IF id2ex.alu_opt = "ILLEGAL"
        THEN [x EXCEPT !.exc_code = "RI", !.badvaddr = ILLEGAL_FUNC]
        ELSE [x EXCEPT
                !.mult_start = starts,
                !.opr1 = IF starts THEN reg1_data ELSE @,
                !.opr2 = IF starts THEN reg2_data ELSE @,
                !.lohi_before = IF starts THEN lohi ELSE @,
                !.alu_result = result_from_alu, !.wb = id2ex.wb, !.mem_opt = id2ex.mem_opt,
                !.mem_addr = result_from_alu, !.mem_data = reg2_data,
                !.wb_from_alu = id2ex.mem_opt = "NONE"]

-----------------------------------------------------------------------------
(* The memory stage.                                                       *)

proc_mem_opt(m) ==
    CASE ex2mem.mem_opt = "WRITE_CP0" ->
           [m EXCEPT !.state = "WAIT_MMU", !.cp0_write = <<CP0_VISIT_REG(ex2mem.mem_addr), ex2mem.mem_data>>]
      [] ex2mem.mem_opt = "WRITE_TLB_IDX" ->
           [m EXCEPT !.state = "WAIT_MMU",
                     !.tlb_write = <<cp0.reg.Index, [vpn2 |-> cp0.reg.EntryHi,
                                     lo0 |-> Lo(cp0.reg.EntryLo0), lo1 |-> Lo(cp0.reg.EntryLo1)]>>]
      [] ex2mem.mem_opt \in {"MFLO", "MFHI"} -> [m EXCEPT !.state = "WAIT_LOHI", !.ne_addr = 0]
      [] ex2mem.mem_opt \in {"MTLO", "MTHI"} ->
           [m EXCEPT !.state = "WAIT_LOHI", !.lohi_data = ex2mem.alu_result,
                     !.lohi_opt = IF ex2mem.mem_opt = "MTLO" THEN "LO" ELSE "HI"]
      [] IsRead(ex2mem.mem_opt) \/ IsWrite(ex2mem.mem_opt) ->
           [m EXCEPT !.state = "WAIT_MMU", !.mmu_opt = ex2mem.mem_opt, !.mmu_addr = ex2mem.mem_addr,
                     !.mmu_data = ex2mem.mem_data, !.ne_addr = 0]
      [] OTHER -> m

stage_mem_negedge ==
    LET m == [mem EXCEPT !.mmu_opt = "NONE", !.cp0_write = << >>, !.tlb_write = << >>,
                         !.lohi_opt = "NONE"]
    IN  CASE mem.state = "READY" ->
               LET r == [m EXCEPT !.exc_code = ex2mem.exc_code, !.exc_epc = ex2mem.epc,
                                  !.exc_badvaddr = ex2mem.badvaddr]
               IN  IF ex2mem.exc_code # "NONE" THEN r
                   ELSE proc_mem_opt([r EXCEPT !.ne_addr = ex2mem.wb, !.ne_data = ex2mem.alu_result])
          [] mem.state = "WAIT_MMU" ->
               IF mmu_exc_code # "NONE"
               THEN [m EXCEPT !.state = "READY", !.exc_code = mmu_exc_code,
                              !.exc_badvaddr = mem.mmu_addr]
               ELSE IF ~mem.busy_latch \/ (~mmu_busy /\ IsWrite(ex2mem.mem_opt))
               THEN [m EXCEPT !.state = "READY", !.ne_data = mmu_data_out, !.ne_addr = ex2mem.wb]
               ELSE m
          [] mem.state = "WAIT_LOHI" ->
               IF mem.ready_latch
               THEN [m EXCEPT !.state = "READY", !.ne_addr = ex2mem.wb,
                              !.ne_data = Lohi(ex2mem.mem_opt, mult.result)]
               ELSE m

stage_mem_posedge ==
    [mem EXCEPT !.busy_latch = mmu_busy, !.ready_latch = lohi_ready,
                !.wb_pe_mmu = mem.state = "WAIT_MMU" /\ ~mmu_busy,
                !.wb_pe_lohi = mem.state = "WAIT_LOHI" /\ lohi_ready]

-----------------------------------------------------------------------------
(* The machine this implements: it executes an instruction when the memory *)
(* stage is done with it, and an exception at the edge that clears the     *)
(* pipeline.                                                               *)

Stages == SelectSeq(<<ex2mem, id2ex, if2id>>, LAMBDA s : s.pc # Bubble)

\* The oldest instruction has had its effect although it is in its stage.
Done ==
    \/ clk = 0 /\ ~stall /\ ~clear
    \/ ctl.wrote
    \/ /\ mem.state = "WAIT_MMU" /\ ex2mem.mem_opt \in {"WRITE_CP0", "WRITE_TLB_IDX"}
       /\ clk = 1 \/ (mem.cp0_write = << >> /\ mem.tlb_write = << >>)
    \/ mem.state = "WAIT_LOHI" /\ ex2mem.mem_opt \in {"MTLO", "MTHI"}

fetch_pc == IF clk = 0 THEN mem_addr ELSE stage_if_negedge
InFlight == IF Done /\ ex2mem.pc # Bubble THEN Tail(Stages) ELSE Stages
NextPcs == [s \in 1..Len(InFlight) |-> InFlight[s].pc] \o <<fetch_pc, (fetch_pc + WORD) % SIZE>>

\* Interrupts are enabled, or one is on its way behind that many instructions.
IntWindow ==
    IF Enabled(cp0.reg) THEN OPEN
    ELSE Max({0} \cup {s \in 1..Len(InFlight) : InFlight[s].exc_code = "INT"})

LohiValue ==
    IF ex2mem.mult_start /\ clk = 1 THEN ex2mem.lohi_before
    ELSE IF ~lohi_ready THEN ex2mem.opr1 * ex2mem.opr2 ELSE mult.result

Machine ==
    [pc |-> NextPcs[1], npc |-> NextPcs[2], slot |-> InFlight # << >> /\ InFlight[1].slot,
     window |-> IntWindow,
     regs |-> IF clk = 0 /\ ~stall /\ ~clear /\ wb_addr # 0
              THEN [regs EXCEPT ![wb_addr] = wb_data] ELSE regs,
     lohi |-> LohiValue, ram |-> ctl.ram, tlb |-> mmu.tlb, cp0 |-> cp0.reg, out |-> ctl.out]

-----------------------------------------------------------------------------
(* The edges of clk.                                                       *)

\* A device that has been served, or has nothing to say, lets its line fall.
Serve == int_req' = (int_req /\ mem.exc_code # "INT")

PosEdge ==
    /\ clk = 0
    /\ clk' = 1
    /\ LoadProgram
    /\ if2id' = stage_if_posedge
    /\ id2ex' = stage_id_posedge
    /\ ex2mem' = stage_ex_posedge(LohiValue)
    /\ regs' = IF wb_addr = 0 THEN regs ELSE [regs EXCEPT ![wb_addr] = wb_data]
    /\ mem' = stage_mem_posedge
    /\ cp0' = cp0_posedge
    /\ mmu' = mmu_posedge
    /\ Serve
    /\ UNCHANGED <<mem_addr, ints>>
    /\ clk_fast

NegEdge ==
    /\ clk = 1
    /\ clk' = 0
    /\ mem_addr' = stage_if_negedge
    /\ mem' = stage_mem_negedge
    /\ \/ UNCHANGED <<int_req, ints>>
       \/ ~int_req /\ ints > 0 /\ int_req' = TRUE /\ ints' = ints - 1
    /\ UNCHANGED <<if2id, id2ex, ex2mem, regs, cp0, mmu, code>>
    /\ clk_fast

\* The registers of each part, when the pipeline is empty and goes to the
\* program of machine m.
stage_if_registers(m) ==
    [instr |-> NOP, next_pc |-> m.pc, exc_code |-> "NONE", exc_addr |-> 0, pc |-> Bubble, slot |-> FALSE]
stage_id_registers == reset([epc |-> 0, to_reg |-> FALSE, dest |-> 0, alu_src |-> "REG"])
stage_ex_registers(m) ==
    [mem_opt |-> "NONE", mem_addr |-> 0, mem_data |-> 0, wb |-> 0, wb_from_alu |-> FALSE,
     alu_result |-> 0, exc_code |-> "NONE", epc |-> 0, badvaddr |-> 0, mult_start |-> FALSE,
     opr1 |-> 0, opr2 |-> 0, lohi_before |-> m.lohi, pc |-> Bubble, slot |-> FALSE]
stage_mem_registers ==
    [state |-> "READY", exc_code |-> "NONE", exc_epc |-> 0, exc_badvaddr |-> 0,
     cp0_write |-> << >>, tlb_write |-> << >>, mmu_opt |-> "NONE", mmu_addr |-> 0,
     mmu_data |-> 0, ne_addr |-> 0, ne_data |-> 0, lohi_opt |-> "NONE", lohi_data |-> 0,
     busy_latch |-> FALSE, ready_latch |-> FALSE, wb_pe_mmu |-> FALSE, wb_pe_lohi |-> FALSE]
cp0_registers(m) == [reg |-> m.cp0, jmp_flag |-> FALSE, jmp_dest |-> 0]
multiplier_registers(m) == [start_prev |-> FALSE, wait |-> WAIT_CYCLE + 1, result |-> m.lohi]
mmu_registers(m) == [state |-> "READ", data |-> 0, tlb |-> m.tlb]
phy_mem_ctrl_registers(m) ==
    [state |-> "READ", is_write_prev |-> FALSE, addr |-> 0, data |-> 0, cnt |-> 0,
     ram |-> m.ram, out |-> m.out, wrote |-> FALSE]

Init ==
    \E m \in Boot :
       /\ clk = 1 /\ mem_addr = m.pc /\ regs = m.regs
       /\ if2id = stage_if_registers(m)
       /\ id2ex = stage_id_registers
       /\ ex2mem = stage_ex_registers(m)
       /\ mem = stage_mem_registers
       /\ cp0 = cp0_registers(m)
       /\ mult = multiplier_registers(m)
       /\ mmu = mmu_registers(m)
       /\ ctl = phy_mem_ctrl_registers(m)
       /\ int_req = FALSE /\ ints = MAX_INTS
       /\ code = [a \in CODE \cup DOMAIN Rom |-> IF a \in CODE THEN Unset ELSE Rom[a]]

Next == PosEdge \/ NegEdge
\* The clock does not stop.
Spec == Init /\ [][Next]_vars /\ WF_vars(Next)
=============================================================================
