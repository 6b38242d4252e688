-------------------------------- MODULE PpuPort --------------------------------
(***************************************************************************)
(* The way from a program to video memory: CPU cycles on the PPU's         *)
(* registers, ppu_ri.v, the counters of ppu_bg.v, the palette of ppu.v and *)
(* memories that answer one clock late (hw/src/ppu, hw/src/nes_top.v).     *)
(* The picture is off, so that nobody else uses the address bus.           *)
(*                                                                         *)
(* An access holds the bus for CycleClks clocks and is followed by at      *)
(* least as many without one: the CPU fetches its next instruction.        *)
(***************************************************************************)
EXTENDS PpuRi, PpuBg, VideoMemory

CONSTANTS
  CycleClks,    \* clocks of a CPU cycle: 56 in cpu.v
  Accesses,     \* what the program does: [sel, r_nw, d]
  MaxRun,       \* bound: accesses of 0x2007 after each 0x2006
  MayCross      \* whether 0x2007 is read where the next address is in another memory

ASSUME PortAssumption ==
  /\ CycleClks \in Nat /\ CycleClks >= 2
  /\ Accesses \subseteq [sel : {0, 2, 5, 6, 7}, r_nw : BOOLEAN, d : Byte]
  /\ MaxRun \in Nat /\ MayCross \in BOOLEAN

VARIABLES
  ctr,        \* the scroll counters
  last_a,     \* the memories' registered address
  access,     \* the access on the bus, or the last one
  clks,       \* clocks left of it and of the pause after it
  run,        \* accesses of 0x2007 since the counters were loaded
  stored      \* the byte the last access stored in memory and where, if any

vars == <<ri, ctr, last_a, access, clks, run, stored>>

Init ==
  /\ ri = Reset
  /\ ctr = Split15(0)
  /\ last_a = 0
  /\ access = [sel |-> 0, r_nw |-> TRUE, d |-> 0]
  /\ clks = 0
  /\ run = 0
  /\ stored = <<>>

vram_a_out == AddressRi(ctr)

(* Each memory answers for its own registered address; which of them is heard
   depends on the address of now. *)
vram_d_in ==
  IF InCiram(vram_a_out) THEN CiramByte(CiramCell(last_a)) ELSE ChrByte(ChrCell(last_a))

Inputs ==
  [ncs |-> clks <= CycleClks, sel |-> access.sel, r_nw |-> access.r_nw, d |-> access.d,
   vram_a |-> vram_a_out, vram_d |-> vram_d_in, pram_d |-> PramByte(PramCell(vram_a_out)),
   vblank |-> FALSE, spr_ram_d |-> 0, overflow |-> FALSE, pri_col |-> FALSE]

Requests ==
  [inc_addr |-> inc_addr_out(Inputs), upd_cntrs |-> ri.upd_cntrs,
   inc_v |-> FALSE, inc_h |-> FALSE, upd_v |-> FALSE, upd_h |-> FALSE]

(* Where the byte of a write goes. *)
StoredBy(i) ==
  CASE pram_wr_out(i) -> <<"palette", PramCell(i.vram_a), i.d % 64>>
    [] vram_wr_out(i) /\ InCiram(i.vram_a) -> <<"names", CiramCell(i.vram_a), i.d>>
    [] vram_wr_out(i) /\ ~InCiram(i.vram_a) -> <<"patterns", ChrCell(i.vram_a), i.d>>
    [] OTHER -> <<>>

Clock ==
  /\ clks > 0
  /\ clks' = clks - 1
  /\ ri' = Clocked(Inputs)
  /\ ctr' = Counters(ctr, ri, Requests)
  /\ last_a' = vram_a_out
  /\ stored' = IF executes(Inputs.ncs) THEN StoredBy(Inputs) ELSE stored
  /\ UNCHANGED <<access, run>>

Crosses == InCiram(vram_a_out) # InCiram(AddressRi(AddressStep(ctr, ri.addr_incr)))

(* The CPU starts an access when the last one is over. *)
Start(acc) ==
  /\ clks = 0
  /\ acc.sel = 7 => run < MaxRun
  /\ acc.sel = 7 /\ acc.r_nw => MayCross \/ ~Crosses
  /\ access' = acc
  /\ clks' = 2 * CycleClks
  /\ run' = IF acc.sel = 7 THEN run + 1
            ELSE IF acc.sel = 6 /\ ri.byte_sel THEN 0 ELSE run
  /\ UNCHANGED <<ri, ctr, last_a, stored>>

Next == Clock \/ \E acc \in Accesses : Start(acc)

Spec == Init /\ [][Next]_vars

--------------------------------------------------------------------------------

(***************************************************************************)
(* The register interface, its latches and counters are the two addresses, *)
(* the toggle and the read buffer of VideoPort.  A second write to 0x2006  *)
(* and a read of 0x2007 take one more clock to reach the counters and the  *)
(* buffer; until then the mapping looks at where the value comes from.     *)
(***************************************************************************)
Latched == Joined15([fvc |-> ri.fv, vc |-> ri.v, hc |-> ri.h, vtc |-> ri.vt, htc |-> ri.ht])

Port == INSTANCE VideoPort
          WITH Data <- {acc.d : acc \in Accesses},
               t <- Latched,
               v <- IF ri.upd_cntrs THEN Latched ELSE Joined15(ctr),
               x <- ri.fh,
               w <- ri.byte_sel,
               incr32 <- ri.addr_incr,
               buf <- IF ri.rd_rdy THEN vram_d_in ELSE ri.rd_buf,
               out <- ri.cpu_d_out

ImplementsVideoPort == Port!Spec

================================================================================
