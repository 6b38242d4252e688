------------------------------- MODULE CpuDecode -------------------------------
(***************************************************************************)
(* hw/src/cpu/cpu.v: the control side of the CPU.  An instruction is in    *)
(* cycle t: which cycle comes after (Timing Generation Logic) and which    *)
(* control signals are on (Decode ROM logic).  The signals have their      *)
(* names of cpu.v; "write" stands for r_nw_out = 0, "clear_irq" for        *)
(* clear_rst or clear_nmi, whichever is being serviced.                    *)
(*                                                                         *)
(* cpu.v lists cycles and opcodes.  Here the cycles of an instruction that *)
(* has an operand are those of its addressing mode, up to the one in which *)
(* the data is on the bus, and then those of its operation.                *)
(***************************************************************************)
EXTENDS Sequences, Naturals

(* An opcode is an operation and an addressing mode, as its name in cpu.v says:
   ADC_ABSX is ADC, ABSX.  Two groups of opcodes are the sum of a number for
   each part. *)
GroupOne ==
  [ORA |-> \h00, AND |-> \h20, EOR |-> \h40, ADC |-> \h60,
   STA |-> \h80, LDA |-> \hA0, CMP |-> \hC0, SBC |-> \hE0]
GroupOneModes ==
  [INDX |-> \h01, ZP |-> \h05, IMM |-> \h09, ABS |-> \h0D,
   INDY |-> \h11, ZPX |-> \h15, ABSY |-> \h19, ABSX |-> \h1D]

GroupTwo ==
  [ASL |-> \h00, ROL |-> \h20, LSR |-> \h40, ROR |-> \h60, DEC |-> \hC0, INC |-> \hE0]
GroupTwoModes ==
  [ZP |-> \h06, ACC |-> \h0A, ABS |-> \h0E, ZPX |-> \h16, ABSX |-> \h1E]

Grouped(ops, modes) ==
  {<<o, m, ops[o] + modes[m]>> : o \in DOMAIN ops, m \in DOMAIN modes}

Branches == {"BCC", "BCS", "BEQ", "BMI", "BNE", "BPL", "BVC", "BVS"}

Single ==
  [BPL |-> \h10, BMI |-> \h30, BVC |-> \h50, BVS |-> \h70,
   BCC |-> \h90, BCS |-> \hB0, BNE |-> \hD0, BEQ |-> \hF0,
   BRK |-> \h00, JSR |-> \h20, RTI |-> \h40, RTS |-> \h60,
   PHP |-> \h08, PLP |-> \h28, PHA |-> \h48, PLA |-> \h68,
   CLC |-> \h18, SEC |-> \h38, CLI |-> \h58, SEI |-> \h78,
   CLV |-> \hB8, CLD |-> \hD8, SED |-> \hF8,
   TXA |-> \h8A, TYA |-> \h98, TXS |-> \h9A, TAY |-> \hA8, TAX |-> \hAA, TSX |-> \hBA,
   DEY |-> \h88, INY |-> \hC8, DEX |-> \hCA, INX |-> \hE8,
   NOP |-> \hEA, HLT |-> \h02]

Others ==
  { <<"BIT", "ZP", \h24>>, <<"BIT", "ABS", \h2C>>,
    <<"CPX", "IMM", \hE0>>, <<"CPX", "ZP", \hE4>>, <<"CPX", "ABS", \hEC>>,
    <<"CPY", "IMM", \hC0>>, <<"CPY", "ZP", \hC4>>, <<"CPY", "ABS", \hCC>>,
    <<"JMP", "ABS", \h4C>>, <<"JMP", "IND", \h6C>>,
    <<"LDX", "IMM", \hA2>>, <<"LDX", "ZP", \hA6>>, <<"LDX", "ZPY", \hB6>>,
    <<"LDX", "ABS", \hAE>>, <<"LDX", "ABSY", \hBE>>,
    <<"LDY", "IMM", \hA0>>, <<"LDY", "ZP", \hA4>>, <<"LDY", "ZPX", \hB4>>,
    <<"LDY", "ABS", \hAC>>, <<"LDY", "ABSX", \hBC>>,
    <<"SAX", "INDX", \h83>>, <<"SAX", "ZP", \h87>>, <<"SAX", "ABS", \h8F>>,
    <<"SAX", "ZPY", \h97>>,
    <<"STX", "ZP", \h86>>, <<"STX", "ABS", \h8E>>, <<"STX", "ZPY", \h96>>,
    <<"STY", "ZP", \h84>>, <<"STY", "ABS", \h8C>>, <<"STY", "ZPX", \h94>> }

Opcodes ==
  Others
    \cup (Grouped(GroupOne, GroupOneModes) \ {<<"STA", "IMM", \h89>>})
    \cup (Grouped(GroupTwo, GroupTwoModes) \ {<<"DEC", "ACC", \hCA>>, <<"INC", "ACC", \hEA>>})
    \cup {<<o, IF o \in Branches THEN "REL" ELSE "IMP", Single[o]>> : o \in DOMAIN Single}

(* The other bytes have no name, and do nothing. *)
Instruction ==
  [b \in 0 .. 255 |->
     IF \E e \in Opcodes : e[3] = b
       THEN LET e == CHOOSE e \in Opcodes : e[3] = b IN [op |-> e[1], mode |-> e[2]]
       ELSE [op |-> "none", mode |-> "IMP"]]

--------------------------------------------------------------------------------

(* The cycle in which the data is read or written. *)
DataCycle ==
  [IMM |-> 1, ZP |-> 2, ZPX |-> 3, ZPY |-> 3, ABS |-> 3,
   ABSX |-> 4, ABSY |-> 4, INDX |-> 5, INDY |-> 5]

AluOp ==
  [ADC |-> "adc_op", SBC |-> "adc_op", AND |-> "and_op", EOR |-> "eor_op",
   ORA |-> "ora_op", BIT |-> "bit_op", CMP |-> "cmp_op", CPX |-> "cmp_op", CPY |-> "cmp_op"]
LoadOp == [LDA |-> "lda_op", LDX |-> "ldx_op", LDY |-> "ldy_op"]
ToDor ==
  [STA |-> {"ac_to_dor"}, STX |-> {"x_to_dor"}, STY |-> {"y_to_dor"},
   SAX |-> {"ac_to_dor", "x_to_dor"}]
MemOp ==
  [ASL |-> "asl_mem_op", LSR |-> "lsr_mem_op", ROL |-> "rol_mem_op",
   ROR |-> "ror_mem_op", DEC |-> "dec_op", INC |-> "inc_op"]
AccOp ==
  [ASL |-> "asl_acc_op", LSR |-> "lsr_acc_op", ROL |-> "rol_acc_op", ROR |-> "ror_acc_op"]
IndexOp == [INX |-> "inx_op", INY |-> "iny_op", DEX |-> "dex_op", DEY |-> "dey_op"]
RegOp ==
  [CLC |-> "clc_op", CLD |-> "cld_op", CLI |-> "cli_op", CLV |-> "clv_op",
   SEC |-> "sec_op", SED |-> "sed_op", SEI |-> "sei_op",
   TAX |-> "tax_op", TAY |-> "tay_op", TSX |-> "tsx_op",
   TXA |-> "txa_op", TXS |-> "txs_op", TYA |-> "tya_op"]

--------------------------------------------------------------------------------
(* Timing. *)

(* The last cycle, and whether it fetches the next opcode on the way. *)
LastCycle(i) ==
  CASE i.mode \in DOMAIN DataCycle /\ i.op \in DOMAIN AluOp -> DataCycle[i.mode] + 1
    [] i.mode \in DOMAIN DataCycle /\ i.op \in DOMAIN MemOp -> DataCycle[i.mode] + 2
    [] i.op = "JMP" -> IF i.mode = "ABS" THEN 2 ELSE 4
    [] i.mode \in DOMAIN DataCycle /\ i.op # "JMP" /\ i.op \notin DOMAIN AluOp \cup DOMAIN MemOp ->
         DataCycle[i.mode]
    [] i.mode = "ACC" \/ i.op \in DOMAIN IndexOp -> 2
    [] i.op \in DOMAIN RegOp \cup {"NOP", "HLT"} -> 1
    [] i.op \in Branches \cup {"PHA", "PHP", "PLA", "PLP"} -> 3
    [] i.op \in {"JSR", "RTI", "RTS"} -> 5
    [] i.op \in {"BRK", "none"} -> 6

Prefetches(i) ==
  i.op \in DOMAIN AluOp \cup DOMAIN IndexOp \cup {"PHA", "PHP"} \/ i.mode = "ACC"

NotTaken(op, p) ==
  \/ p.c = 1 /\ op = "BCC"
  \/ p.c = 0 /\ op = "BCS"
  \/ p.n = 1 /\ op = "BPL"
  \/ p.n = 0 /\ op = "BMI"
  \/ p.v = 1 /\ op = "BVC"
  \/ p.v = 0 /\ op = "BVS"
  \/ p.z = 1 /\ op = "BNE"
  \/ p.z = 0 /\ op = "BEQ"

(* No carry into the high byte of the address: its cycle is left out. *)
SkipsCarry(i, t, acr) ==
  /\ acr = 0
  /\ i.op \in {"ADC", "AND", "CMP", "EOR", "LDA", "ORA", "SBC"}
  /\ \/ t = 2 /\ i.mode \in {"ABSX", "ABSY"}
     \/ t = 3 /\ i.mode = "INDY"

SamePage(t, acr, ai7) == t = 2 /\ acr = ai7

d_t(i, t, p, acr, ai7) ==
  CASE t = 0 -> 1
    [] t = LastCycle(i) -> IF Prefetches(i) THEN 1 ELSE 0
    [] t \notin {0, LastCycle(i)} ->
         IF \/ t = 1 /\ NotTaken(i.op, p)
            \/ i.op \in Branches /\ SamePage(t, acr, ai7)
           THEN 0
           ELSE IF SkipsCarry(i, t, acr) THEN t + 2 ELSE t + 1

--------------------------------------------------------------------------------
(* Control signals. *)

Index(mode) == IF mode \in {"ZPY", "ABSY"} THEN "y_to_ai" ELSE "x_to_ai"

(* The address, in the cycles before that of the data. *)
AddressCycles(mode, acr) ==
  LET carry == IF acr = 1 THEN {"aluinc_to_abh"} ELSE {}
  IN  CASE mode = "IMM" -> <<>>
        [] mode = "ZP" -> << {"zero_to_abh", "dl_to_abl"} >>
        [] mode \in {"ZPX", "ZPY"} ->
             << {Index(mode), "dl_to_bi"}, {"zero_to_abh", "alusum_to_abl"} >>
        [] mode = "ABS" ->
             << {"load_prg_byte", "zero_to_ai", "dl_to_bi"}, {"dl_to_abh", "alusum_to_abl"} >>
        [] mode \in {"ABSX", "ABSY"} ->
             << {"load_prg_byte", Index(mode), "dl_to_bi"},
                {"dl_to_abh", "alusum_to_abl", "zero_to_ai", "dl_to_bi"}, carry >>
        [] mode = "INDX" ->
             << {"x_to_ai", "dl_to_bi"}, {"zero_to_abh", "alusum_to_abl"},
                {"zero_to_abh", "aluinc_to_abl", "zero_to_ai", "dl_to_bi"},
                {"dl_to_abh", "alusum_to_abl"} >>
        [] mode = "INDY" ->
             << {"zero_to_abh", "dl_to_abl", "zero_to_ai", "dl_to_bi"},
                {"zero_to_abh", "aluinc_to_abl", "y_to_ai", "dl_to_bi"},
                {"dl_to_abh", "alusum_to_abl", "zero_to_ai", "dl_to_bi"}, carry >>

AluInputs(op) ==
  {CASE op = "CPX" -> "x_to_ai" [] op = "CPY" -> "y_to_ai" [] op \notin {"CPX", "CPY"} -> "ac_to_ai",
   IF op \in {"CMP", "CPX", "CPY", "SBC"} THEN "invdl_to_bi" ELSE "dl_to_bi"}
    \cup IF op = "BIT" THEN {"dl_bits67_to_p"} ELSE {}

MemInputs(op) ==
  {"dl_to_bi", CASE op = "DEC" -> "neg1_to_ai" [] op = "INC" -> "zero_to_ai"
                 [] op \notin {"DEC", "INC"} -> "dl_to_ai"}

(* Faulty: as the first 6502 did, writes back what was read before it writes
   the result. *)
OperandCycles_WritesTwice(op) ==
  CASE op \in DOMAIN AluOp  -> << {"load_prg_byte"} \cup AluInputs(op), {"load_prg_byte", AluOp[op]} >>
    [] op \in DOMAIN LoadOp -> << {"load_prg_byte", LoadOp[op]} >>
    [] op \in DOMAIN ToDor  -> << {"load_prg_byte", "write"} >>
    [] op \in DOMAIN MemOp  -> << MemInputs(op), {MemOp[op], "write"}, {"load_prg_byte", "write"} >>

(* The operation, from the cycle of the data; a store loads the data output
   register one cycle before. *)
OperandCycles(op) ==
  CASE op \in DOMAIN AluOp  -> << {"load_prg_byte"} \cup AluInputs(op), {"load_prg_byte", AluOp[op]} >>
    [] op \in DOMAIN LoadOp -> << {"load_prg_byte", LoadOp[op]} >>
    [] op \in DOMAIN ToDor  -> << {"load_prg_byte", "write"} >>
    [] op \in DOMAIN MemOp  -> << MemInputs(op), {MemOp[op]}, {"load_prg_byte", "write"} >>

WithOperand(i, t, acr) ==
  LET d == DataCycle[i.mode]
  IN  IF t < d
        THEN AddressCycles(i.mode, acr)[t] \cup IF t = d - 1 /\ i.op \in DOMAIN ToDor THEN ToDor[i.op] ELSE {}
        ELSE OperandCycles(i.op)[t - d + 1]

(* BRK, and the interrupts, which are a BRK that the program does not hold. *)
BrkCycles(irq_sel) ==
  << {"pch_to_dor", "one_to_abh", "s_to_abl", "neg1_to_ai", "s_to_bi"}
       \cup IF irq_sel = "BRK" THEN {"incpc_noload"} ELSE {},
     {"pcl_to_dor", "alusum_to_abl", "alusum_to_bi", "write"},
     {"p_to_dor", "alusum_to_abl", "alusum_to_bi", "write"},
     {"ff_to_abh", "one_to_i", "write",
      CASE irq_sel = "RST" -> "fc_to_abl" [] irq_sel = "NMI" -> "fa_to_abl" [] irq_sel = "BRK" -> "fe_to_abl"},
     {"ff_to_abh", "dl_to_s",
      CASE irq_sel = "RST" -> "fd_to_abl" [] irq_sel = "NMI" -> "fb_to_abl" [] irq_sel = "BRK" -> "ff_to_abl"},
     {"dl_to_pch", "s_to_pcl", "dl_to_abh", "s_to_abl", "alusum_to_s", "clear_irq"} >>

BranchCycles(ai7) ==
  << {"load_prg_byte", "dl_to_ai", "pcl_to_bi"},
     {"alusum_to_pcl", "alusum_to_abl", "pch_to_bi", IF ai7 = 1 THEN "neg1_to_ai" ELSE "one_to_ai"},
     {"alusum_to_pch", "alusum_to_abh"} >>

(* S is held in BI while the low byte of the target waits in S. *)
JsrCycles ==
  << {"incpc_noload", "one_to_abh", "s_to_abl", "s_to_bi", "dl_to_s"},
     {"pch_to_dor", "neg1_to_ai"},
     {"pcl_to_dor", "alusum_to_abl", "alusum_to_bi", "write"},
     {"load_prg_byte_noinc", "write"},
     {"dl_to_pch", "s_to_pcl", "dl_to_abh", "s_to_abl", "alusum_to_s"} >>

RtsCycles ==
  << {"zero_to_ai", "s_to_bi"},
     {"one_to_abh", "aluinc_to_abl", "aluinc_to_bi"},
     {"aluinc_to_abl", "dl_to_s"},
     {"dl_to_pch", "s_to_pcl", "aluinc_to_s"},
     {"load_prg_byte"} >>

RtiCycles ==
  << {"zero_to_ai", "s_to_bi"},
     {"one_to_abh", "aluinc_to_abl", "aluinc_to_bi"},
     {"aluinc_to_abl", "aluinc_to_bi", "dl_to_p"},
     {"aluinc_to_abl", "dl_to_s"},
     {"dl_to_pch", "s_to_pcl", "dl_to_abh", "s_to_abl", "aluinc_to_s"} >>

PushCycles(op) ==
  << {"one_to_abh", "s_to_abl", IF op = "PHA" THEN "ac_to_dor" ELSE "p_to_dor"},
     {"load_prg_byte_noinc", "s_to_ai", "neg1_to_bi", "write"},
     {"load_prg_byte", "alusum_to_s"} >>

PullCycles(op) ==
  << {"zero_to_ai", "s_to_bi"},
     {"one_to_abh", "aluinc_to_abl", "aluinc_to_s"},
     {"load_prg_byte_noinc", IF op = "PLA" THEN "lda_op" ELSE "dl_to_p"} >>

JmpCycles(mode) ==
  LET low  == {"load_prg_byte", "zero_to_ai", "dl_to_bi"}
      jump == {"dl_to_pch", "alusum_to_pcl", "dl_to_abh", "alusum_to_abl"}
  IN  IF mode = "ABS" THEN << low, jump >>
      ELSE << low, {"dl_to_abh", "alusum_to_abl"},
              {"aluinc_to_abl", "zero_to_ai", "dl_to_bi"}, jump >>

IndexInputs(op) ==
  CASE op = "INX" -> {"zero_to_ai", "x_to_bi"} [] op = "INY" -> {"zero_to_ai", "y_to_bi"}
    [] op = "DEX" -> {"x_to_ai", "neg1_to_bi"} [] op = "DEY" -> {"y_to_ai", "neg1_to_bi"}

WithoutOperand(i, irq_sel, ai7) ==
  CASE i.mode = "ACC" -> << {"ac_to_ai", "ac_to_bi"}, {"load_prg_byte", AccOp[i.op]} >>
    [] i.op \in DOMAIN IndexOp -> << IndexInputs(i.op), {"load_prg_byte", IndexOp[i.op]} >>
    [] i.op \in DOMAIN RegOp -> << {RegOp[i.op]} >>
    [] i.op \in Branches -> BranchCycles(ai7)
    [] i.op = "JMP" -> JmpCycles(i.mode)
    [] i.op = "JSR" -> JsrCycles
    [] i.op = "RTS" -> RtsCycles
    [] i.op = "RTI" -> RtiCycles
    [] i.op \in {"PHA", "PHP"} -> PushCycles(i.op)
    [] i.op \in {"PLA", "PLP"} -> PullCycles(i.op)
    [] i.op = "BRK" -> BrkCycles(irq_sel)
    [] i.op \in {"NOP", "HLT", "none"} -> <<>>

Controls(i, t, acr, ai7, irq_sel) ==
  IF t = 0 THEN {"load_prg_byte"}
  ELSE IF i.mode \in DOMAIN DataCycle /\ i.op # "JMP" THEN WithOperand(i, t, acr)
  ELSE LET cycles == WithoutOperand(i, irq_sel, ai7)
       IN  IF t \in DOMAIN cycles THEN cycles[t] ELSE {}
================================================================================
