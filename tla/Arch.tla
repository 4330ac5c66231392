-------------------------------- MODULE Arch --------------------------------
(***************************************************************************)
(* Addresses, translation and coprocessor 0: what mmu.v and cp0.v compute  *)
(* without a clock, used by the processor (Cpu) and by what programs are   *)
(* promised of it (Isa).                                                   *)
(*                                                                         *)
(* Words have WORD bytes of BYTE values; addresses and registers share the *)
(* numbers 0..SIZE-1.  Encodings are left out: an instruction is a record  *)
(* [op, rs, rt, rd, imm], with the immediate already extended, and the     *)
(* program is kept in the physical words of code.  Privilege is left out:  *)
(* the processor has the flag (is_user_mode) and does not use it.          *)
(***************************************************************************)
EXTENDS Integers, Sequences, FiniteSetsExt, SequencesExt, Bitwise

CONSTANTS
    NREG,           \* general registers are 0..NREG-1
    RA,             \* the register jal writes
    BYTE, WORD,     \* values of a byte, bytes of a word
    PAGE,           \* bytes of a page
    KSEG0,          \* virtual addresses from here on are mapped directly
    RAM,            \* physical addresses of the words of RAM
    Device,         \* physical addresses of the devices one can write to
    GENERAL,        \* offset of the general exception vector, 0x180
    Instr,          \* the instructions a program is made of
    Rom,            \* the part of the program that is fixed: physical address -> Instr
    CODE,           \* the physical addresses of the other instructions
    Boot            \* the machine states a program may start in

ASSUME IsaAssumption ==
    /\ NREG \in Nat /\ RA \in 1..(NREG - 1) /\ {BYTE, WORD, PAGE} \subseteq Nat \ {0}
    /\ PAGE % WORD = 0 /\ KSEG0 % (2 * PAGE) = 0 /\ RAM \cup Device \subseteq Nat /\ RAM \cap Device = {}
    /\ DOMAIN Rom \cap CODE = {}

SIZE == BYTE ^ WORD
\* The instruction of a word nobody has chosen yet, and the one with code 0.
Unset == [op |-> "UNSET", rs |-> 0, rt |-> 0, rd |-> 0, imm |-> 0]
NOP == [Unset EXCEPT !.op = "NOP"]
\* BadVAddr after the one function code that stands for those the ALU does not know.
ILLEGAL_FUNC == SIZE - 1
\* Interrupts are open to all the instructions of a pipeline of so many stages.
OPEN == 3

-----------------------------------------------------------------------------
(* Address translation.                                                    *)

direct_mapping(va) == va >= KSEG0
VPN2(va) == va \div (2 * PAGE)
\* The entry for the even or the odd page of the pair.
Half(e, va) == IF (va \div PAGE) % 2 = 0 THEN e.lo0 ELSE e.lo1
hit_entry(tlb, va) ==
    {h \in {Half(tlb[i], va) : i \in {j \in DOMAIN tlb : tlb[j].vpn2 = VPN2(va)}} : h.v = 1}
\* The frames of several entries that match are or'ed, as wires are.
lookup_result(tlb, va) ==
    [pfn |-> FoldSet(LAMBDA h, acc : h.pfn | acc, 0, hit_entry(tlb, va)),
     d   |-> \E h \in hit_entry(tlb, va) : h.d = 1]
tlb_missing(tlb, va) == ~direct_mapping(va) /\ hit_entry(tlb, va) = {}
tlb_writable(tlb, va) == direct_mapping(va) \/ lookup_result(tlb, va).d
Phys(tlb, va) ==
    IF direct_mapping(va) THEN va - KSEG0 ELSE lookup_result(tlb, va).pfn * PAGE + (va % PAGE)
Aligned(a) == a - (a % WORD)

\* A miss hides a misaligned address: the note says ucore needs it so.
exc_code(write, aligned, tlb, va) ==
    IF tlb_missing(tlb, va) THEN IF write THEN "TLBS" ELSE "TLBL"
    ELSE IF write /\ ~tlb_writable(tlb, va) THEN "TLB_MOD"
    ELSE IF aligned /\ va % WORD # 0 THEN IF write THEN "ADES" ELSE "ADEL"
    ELSE "NONE"

-----------------------------------------------------------------------------
(* Coprocessor 0.                                                          *)

\* The internal numbers of the registers.
CP0 == [Index |-> 0, EntryLo0 |-> 1, EntryLo1 |-> 2, BadVAddr |-> 3, EntryHi |-> 5,
        Status |-> 7, Cause |-> 8, EPC |-> 9, EBase |-> 10]
CP0_VISIT_REG(n) == CHOOSE r \in DOMAIN CP0 : CP0[r] = n

IE(cp0) == cp0.Status % 2 = 1
EXL(cp0) == (cp0.Status \div 2) % 2 = 1
Enabled(cp0) == IE(cp0) /\ ~EXL(cp0)
WithEXL(cp0, b) == [cp0 EXCEPT !.Status = @ - (2 * ((@ \div 2) % 2)) + 2 * b]
\* EntryLo: PFN, D (bit 2), V (bit 1).
Lo(x) == [pfn |-> x \div 8, d |-> (x \div 4) % 2, v |-> (x \div 2) % 2]

IsRefill(e) == e \in {"TLBL", "TLBS"}
IsTlb(e) == IsRefill(e) \/ e = "TLB_MOD"
\* With EXL set only the program counter changes.
setup_exc(cp0, e, epc, badvaddr) ==
    IF EXL(cp0) THEN cp0
    ELSE [WithEXL(cp0, 1) EXCEPT
             !.EPC = epc, !.BadVAddr = badvaddr, !.Cause = e,
             !.EntryHi = IF IsTlb(e) THEN VPN2(badvaddr) ELSE @]
Vector(cp0, e) == cp0.EBase + (IF ~EXL(cp0) /\ IsRefill(e) THEN 0 ELSE GENERAL)

-----------------------------------------------------------------------------
(* Words and their bytes, and what the bus gives.                           *)

Signed(v) == IF v >= SIZE \div 2 THEN v - SIZE ELSE v
Digit(word, k) == (word \div (BYTE ^ k)) % BYTE
SignExtended(b) == IF b >= BYTE \div 2 THEN b + SIZE - BYTE ELSE b
ReadPhys(ram, a) == IF a \in RAM THEN ram[a] ELSE 0
WithDigit(word, k, b) == word + (b - Digit(word, k)) * (BYTE ^ k)
=============================================================================
