----------------------------------- MODULE Cpu ---------------------------------
(***************************************************************************)
(* hw/src/cpu/cpu.v: the 6502.  One step is one clock.  A bus cycle lasts  *)
(* ClkPhases clocks on which the CPU is ready: on SamplePhase it takes the *)
(* data in, on phase 0 it latches its registers and begins the next cycle. *)
(* It has memory to itself, and any clock may find it not ready: then the  *)
(* debugger may write its registers.                                       *)
(*                                                                         *)
(* /IRQ is tied to 1 (rp2a03.v) and left out.                              *)
(***************************************************************************)
EXTENDS CpuDecode, CpuData, TLC

CONSTANTS
  ClkPhases,        \* 56 in cpu.v
  SamplePhase,      \* 28 in cpu.v
  HoldPhases,       \* clock phases on which it may be found not ready
  Scenes,           \* what the debugger has set up before the CPU runs
  Background(_)     \* memory where nothing has been written

ASSUME CpuAssumption ==
  /\ ClkPhases \in Nat /\ SamplePhase \in 2 .. ClkPhases - 1
  /\ HoldPhases \subseteq 0 .. ClkPhases - 1

Addresses == 0 .. 256 * 256 - 1

(* Memory and registers hold bytes. *)
ASSUME ScenesAssumption ==
  /\ \A a \in Addresses : Background(a) \in 0 .. 255
  /\ \A scene \in Scenes :
       /\ scene.pc \in Addresses
       /\ \A a \in DOMAIN scene.mem : scene.mem[a] \in 0 .. 255
       /\ scene.ac \in 0 .. 255 /\ scene.x \in 0 .. 255 /\ scene.y \in 0 .. 255
       /\ scene.c \in 0 .. 1

VARIABLES
  r, l,             \* registers, as in CpuData
  q_clk_phase,
  irq,              \* the interrupt latches
  lines,            \* nnmi_in and nres_in
  mem,              \* memory where it has been written
  left,             \* how often the lines may still fall and the debugger write
  setPc,            \* halves of PC that the debugger has written
  arch, doing       \* history: see CpuIsa

cpuVars == <<r, l, q_clk_phase, irq, lines, mem, left, setPc, arch, doing>>

Flags(s) == [c |-> s.c, d |-> s.d, i |-> s.i, n |-> s.n, v |-> s.v, z |-> s.z]
Visible(s, pc, m) == [pc |-> pc, ac |-> s.ac, x |-> s.x, y |-> s.y, s |-> s.s, mem |-> m] @@ Flags(s)

(* After rst_in the debugger holds the CPU, loads memory and sets registers;
   PC last, or else alone. *)
Init ==
  \E scene \in Scenes :
    /\ r = [ac |-> scene.ac, x |-> scene.x, y |-> scene.y, s |-> 255,
            c |-> scene.c, d |-> 0, i |-> 0, n |-> 0, v |-> 0, z |-> 0,
            abh |-> scene.pc \div 256, abl |-> scene.pc % 256,
            acr |-> 0, ai |-> 0, bi |-> 0, dor |-> 0, ir |-> \hEA, t |-> 0,
            pchs |-> scene.pc \div 256, pcls |-> scene.pc % 256]
    /\ l = [pch |-> scene.pc \div 256, pcl |-> scene.pc % 256, dl |-> 0, pd |-> 0, add |-> 0]
    /\ q_clk_phase = 1
    /\ irq = [sel |-> "RST", rst |-> FALSE, nres |-> TRUE, nmi |-> FALSE, nnmi |-> TRUE]
    /\ lines = [nres |-> TRUE, nnmi |-> TRUE]
    /\ mem = scene.mem
    /\ left = scene.left
    /\ setPc = {}
    /\ arch = Visible(r, scene.pc, mem)
    /\ doing = "none"

--------------------------------------------------------------------------------

instruction == Instruction[r.ir]
ai7 == Bit(r.ai, 7)

(* The carry of this cycle does not depend on it: what skips a cycle adds. *)
ctl == Controls(instruction, r.t, r.acr, ai7, irq.sel)
acr == Alu(ctl, r, l).acr
nextT == d_t(instruction, r.t, r, acr, ai7)

interrupts == irq.rst \/ irq.nmi
begins     == nextT = 1

d_ir == IF begins THEN IF interrupts THEN 0 ELSE l.pd ELSE r.ir
d_irq_sel ==
  IF ~begins THEN irq.sel
  ELSE IF irq.rst THEN "RST" ELSE IF irq.nmi THEN "NMI" ELSE "BRK"

(* Faulty: PC moves on although it is an interrupt that begins. *)
i_pc_Forced == On(ctl, {"incpc_noload", "load_prg_byte"})

i_pc == On(ctl, {"incpc_noload", "load_prg_byte"}) /\ ~(begins /\ interrupts)

a_out == Word(r.abh, r.abl)
d_in  == IF a_out \in DOMAIN mem THEN mem[a_out] ELSE Background(a_out)

clear_rst == "clear_irq" \in ctl /\ irq.sel = "RST"
clear_nmi == "clear_irq" \in ctl /\ irq.sel = "NMI"

(* On every clock of phase 0, whether or not the CPU is ready. *)
IrqLatches ==
  IF q_clk_phase = 0
    THEN [sel  |-> d_irq_sel,
          rst  |-> ~clear_rst /\ (irq.rst \/ (~lines.nres /\ irq.nres)),
          nres |-> lines.nres,
          nmi  |-> ~clear_nmi /\ (irq.nmi \/ (~lines.nnmi /\ irq.nnmi)),
          nnmi |-> lines.nnmi]
    ELSE irq

Latch ==
  /\ q_clk_phase = 0
  /\ r' = Phase1Registers(ctl, r, l, irq.sel, d_ir, nextT)
  /\ IF begins
       THEN /\ arch' = Visible(r', a_out, mem)
            /\ doing' = IF irq.rst THEN "reset" ELSE IF irq.nmi THEN "nmi" ELSE "instruction"
       ELSE UNCHANGED <<arch, doing>>
  /\ UNCHANGED <<l, mem>>

Written(a, v) == [b \in DOMAIN mem \cup {a} |-> IF b = a THEN v ELSE mem[b]]

(* The byte written lands in memory in the same cycle. *)
Sample ==
  /\ q_clk_phase = SamplePhase
  /\ l' = Phase2Registers(ctl, r, l, d_in, i_pc)
  /\ mem' = IF "write" \in ctl THEN Written(a_out, r.dor) ELSE mem
  /\ UNCHANGED <<r, arch, doing>>

Wait == q_clk_phase \notin {0, SamplePhase} /\ UNCHANGED <<r, l, mem, arch, doing>>

(* A clock on which the CPU is ready.  The debugger lets it go on when it has
   written both halves of PC, or none. *)
Clock ==
  /\ setPc \in {{}, {"PCL", "PCH"}}
  /\ Latch \/ Sample \/ Wait
  /\ irq' = IrqLatches
  /\ q_clk_phase' = (q_clk_phase + 1) % ClkPhases
  /\ setPc' = {}
  /\ UNCHANGED <<lines, left>>

--------------------------------------------------------------------------------
(* Clocks on which it is not. *)

WritePc(sel, v) ==
  /\ r' = IF sel = "PCH" THEN [r EXCEPT !.pchs = v, !.abh = v, !.t = 0]
                         ELSE [r EXCEPT !.pcls = v, !.abl = v, !.t = 0]
  /\ l' = IF sel = "PCH" THEN [l EXCEPT !.pch = v] ELSE [l EXCEPT !.pcl = v]
  /\ q_clk_phase' = 1
  /\ setPc' = setPc \cup {sel}
  /\ arch' = Visible(r', Word(l'.pch, l'.pcl), mem)
  /\ doing' = IF setPc' = {"PCL", "PCH"} THEN "none" ELSE "half set"

(* The other registers are written while a HLT holds the CPU, or after PC. *)
WriteRegister(sel, v) ==
  /\ doing \in {"half set", "none"} \/ (doing = "instruction" /\ instruction.op = "HLT" /\ r.t < 2)
  /\ r' = CASE sel = "AC" -> [r EXCEPT !.ac = v]
            [] sel = "X" -> [r EXCEPT !.x = v]
            [] sel = "Y" -> [r EXCEPT !.y = v]
            [] sel = "P" -> [r EXCEPT !.c = Bit(v, 0), !.z = Bit(v, 1), !.i = Bit(v, 2),
                                      !.d = Bit(v, 3), !.v = Bit(v, 6), !.n = Bit(v, 7)]
  /\ arch' = Visible(r', arch.pc, arch.mem)
  /\ UNCHANGED <<l, q_clk_phase, setPc, doing>>

DbgWrites == {<<"PCL", 0>>, <<"PCH", 128>>, <<"AC", 5>>, <<"X", 6>>, <<"Y", 0>>, <<"P", 195>>}

Hold ==
  /\ q_clk_phase \in HoldPhases
  /\ irq' = IrqLatches
  /\ \/ UNCHANGED <<r, l, q_clk_phase, setPc, left, arch, doing>>
     \/ /\ left.dbg > 0
        /\ left' = [left EXCEPT !.dbg = @ - 1]
        /\ \E w \in DbgWrites :
             \/ w[1] \in {"PCL", "PCH"} /\ WritePc(w[1], w[2])
             \/ w[1] \notin {"PCL", "PCH"} /\ WriteRegister(w[1], w[2])
  /\ UNCHANGED <<lines, mem>>

(* The PPU and the reset button pull their lines down and let go. *)
Fall(line) ==
  /\ lines[line] /\ left[line] > 0
  /\ lines' = [lines EXCEPT ![line] = FALSE]
  /\ left' = [left EXCEPT ![line] = @ - 1]
  /\ UNCHANGED <<r, l, q_clk_phase, irq, mem, setPc, arch, doing>>

Rise(line) ==
  /\ ~lines[line]
  /\ lines' = [lines EXCEPT ![line] = TRUE]
  /\ UNCHANGED <<r, l, q_clk_phase, irq, mem, left, setPc, arch, doing>>

Next == Clock \/ Hold \/ \E line \in DOMAIN lines : Fall(line) \/ Rise(line)

Spec == Init /\ [][Next]_cpuVars

--------------------------------------------------------------------------------
InstructionSet == INSTANCE CpuIsa
         WITH nmiLine <- irq.nnmi, owedNmi <- irq.nmi, rstLine <- irq.nres, owedRst <- irq.rst

(***************************************************************************)
(* The CPU executes its instruction set: whatever the cycles, prefetches   *)
(* and internal buses do, from the beginning of one instruction to that of *)
(* the next the program sees exactly that instruction; an interrupt comes  *)
(* between two instructions, is answered once, and pushes the address of   *)
(* the instruction it keeps from running (cpu.v, force_noinc_pc, "override *)
(* stage-0 PC increment"); and after the debugger has set PC, the opcode   *)
(* there is fetched first ("setup the address bus so the first opcode fill *)
(* be fetched as soon as rdy is asserted again").                          *)
(***************************************************************************)
ImplementsIsa == InstructionSet!Spec

Writes == "write" \in ctl
Stacks == r.abh = 1

(***************************************************************************)
(* An instruction is fetched first, and a store to an address that the     *)
(* program has chosen follows a read: sprdma.v leaves S_COOLDOWN in        *)
(* between (InstructionsAssumption of NesBus).                             *)
(***************************************************************************)
StoresFollowReads ==
  [][ r.t # r'.t /\ Writes' /\ ~Stacks' => ~Writes ]_cpuVars
================================================================================
