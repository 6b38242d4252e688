-------------------------------- MODULE BusProofs ------------------------------
(***************************************************************************)
(* What holds on the CPU's bus for every length of a CPU cycle, every page *)
(* size, every set of instructions and whatever the debugger does at any   *)
(* clock: the CPU reads from the address it has put out, a HLT breaks      *)
(* once, a write of 0x4014 starts one copy, which copies the page, and PPU *)
(* registers are obeyed once, the debugger's PPU_DISABLE among them.       *)
(***************************************************************************)
EXTENDS NesBus, TLAPS

Cycles == [a : 0 .. Base * Base - 1, r_nw : BOOLEAN, d : Byte, hlt : BOOLEAN]

LEMMA ConstantFacts ==
  /\ ClkPhases \in Nat /\ ClkPhases >= 3
  /\ SamplePhase \in Nat /\ SamplePhase >= 2
BY NesBusAssumption DEF NesBusAssumption

LEMMA InstructionFacts ==
  ASSUME NEW ins \in Instructions
  PROVE  /\ ins \in Seq(Cycles) /\ Len(ins) >= 1
         /\ ins[1].r_nw
         /\ \A i \in 2 .. Len(ins) : StartsCopy(ins[i]) => ins[i - 1].r_nw
<1>1. ins \in Seq(Cycles) /\ ins # <<>>
  BY NesBusAssumption DEF NesBusAssumption, Cycles
<1> QED BY <1>1, InstructionsAssumption DEF InstructionsAssumption

(* The phase counter, without its modulus. *)
LEMMA PhaseStep ==
  ASSUME NEW p \in 0 .. ClkPhases - 1
  PROVE  (p + 1) % ClkPhases = IF p = ClkPhases - 1 THEN 0 ELSE p + 1
BY ConstantFacts

--------------------------------------------------------------------------------
(* The CPU runs through its cycles, and only a read is followed by a write
   that starts a copy. *)
CpuOK ==
  /\ cpu \in Seq(Cycles) /\ Len(cpu) >= 1
  /\ \A i \in 2 .. Len(cpu) : StartsCopy(cpu[i]) => cpu[i - 1].r_nw
  /\ q_clk_phase \in 0 .. ClkPhases - 1
  /\ q_ready \in BOOLEAN

(* What the memories look at has been put out by the CPU, if the CPU had the
   bus on the clock before and is still in the same cycle. *)
AddressOK == q_ready /\ q_clk_phase # 1 => last_a = cycle.a

(* The break of a HLT is behind it as soon as its first clock is. *)
BreaksOK ==
  seen.breaks = IF q_clk_phase # 1 /\ cycle.hlt THEN 1 ELSE 0

(* A copy is under way, or cooling down, only in the write that started it,
   but for the first clock of the next cycle. *)
CopiesOK ==
  /\ dma_state \in {"S_READY", "S_ACTIVE", "S_COOLDOWN"}
  /\ dma_state = "S_ACTIVE" => StartsCopy(cycle)
  /\ dma_state = "S_COOLDOWN" /\ q_clk_phase # 1 => ~cycle.r_nw
  /\ dma_state = "S_COOLDOWN" /\ cycle.r_nw => q_clk_phase = 1
  /\ StartsCopy(cycle) /\ dma_state = "S_READY" => q_clk_phase = 1
  /\ seen.copies = IF StartsCopy(cycle) /\ dma_state # "S_READY" THEN 1 ELSE 0

IInv == CpuOK /\ AddressOK /\ BreaksOK /\ CopiesOK

LEMMA Initially == BusInit => IInv
<1> SUFFICES ASSUME BusInit PROVE IInv
  OBVIOUS
<1>1. /\ cpu \in Instructions /\ q_clk_phase = 1 /\ q_ready = FALSE
      /\ dma_state = "S_READY"
      /\ seen.breaks = 0 /\ seen.copies = 0
  BY DEF BusInit, DMA!Init
<1>2. CpuOK
  <2>1. /\ cpu \in Seq(Cycles) /\ Len(cpu) >= 1
        /\ \A i \in 2 .. Len(cpu) : StartsCopy(cpu[i]) => cpu[i - 1].r_nw
    BY <1>1, InstructionFacts
  <2>2. q_clk_phase \in 0 .. ClkPhases - 1
    BY <1>1, ConstantFacts
  <2>3. q_ready \in BOOLEAN
    BY <1>1
  <2> QED BY <2>1, <2>2, <2>3 DEF CpuOK
<1>3. cycle.r_nw
  <2>1. Head(cpu) = cpu[1]
    BY <1>2 DEF CpuOK
  <2> QED BY <1>1, <2>1, InstructionFacts DEF cycle
<1>4. AddressOK /\ BreaksOK /\ CopiesOK
  BY <1>1, <1>3 DEF AddressOK, BreaksOK, CopiesOK, StartsCopy
<1> QED BY <1>2, <1>4 DEF IInv

--------------------------------------------------------------------------------
(* A step of the CPU. *)

LEMMA CpuStep ==
  ASSUME CpuOK, Clock
  PROVE  /\ CpuOK'
         /\ ~EndOfCycle => cycle' = cycle
         /\ EndOfCycle /\ StartsCopy(cycle') => cycle.r_nw
<1>1. CpuClock
  BY DEF Clock
<1>2. (q_clk_phase \in 0 .. ClkPhases - 1)' /\ (q_ready \in BOOLEAN)'
  <2>1. q_ready' \in BOOLEAN
    BY <1>1 DEF CpuClock, ready_in
  <2>2. q_clk_phase' \in 0 .. ClkPhases - 1
    BY <1>1, PhaseStep, ConstantFacts DEF CpuClock, CpuOK
  <2> QED BY <2>1, <2>2
<1>3. CASE ~EndOfCycle
  BY <1>1, <1>2, <1>3 DEF CpuClock, CpuOK, cycle
<1>4. CASE EndOfCycle /\ Len(cpu) > 1
  <2>1. cpu' = Tail(cpu)
    BY <1>1, <1>4 DEF CpuClock
  <2>2. /\ cpu' \in Seq(Cycles) /\ Len(cpu') = Len(cpu) - 1
        /\ \A i \in 1 .. Len(cpu') : cpu'[i] = cpu[i + 1]
    BY <2>1, <1>4 DEF CpuOK
  <2>3. \A i \in 2 .. Len(cpu') : StartsCopy(cpu'[i]) => cpu'[i - 1].r_nw
    <3> TAKE i \in 2 .. Len(cpu')
    <3>1. /\ cpu'[i] = cpu[i + 1] /\ cpu'[i - 1] = cpu[i]
          /\ i + 1 \in 2 .. Len(cpu) /\ (i + 1) - 1 = i
      BY <2>2, <1>4 DEF CpuOK
    <3> QED BY <3>1 DEF CpuOK
  <2>4. cycle' = cpu[2] /\ cycle = cpu[1]
    BY <2>2, <1>4 DEF cycle, CpuOK
  <2>5. StartsCopy(cycle') => cycle.r_nw
    BY <2>4, <1>4 DEF CpuOK
  <2> QED BY <1>2, <1>4, <2>2, <2>3, <2>5 DEF CpuOK
<1>5. CASE EndOfCycle /\ ~(Len(cpu) > 1)
  <2>1. cpu' \in Instructions
    BY <1>1, <1>5 DEF CpuClock
  <2>2. cycle'.r_nw
    BY <2>1, InstructionFacts DEF cycle
  <2> QED BY <1>2, <1>5, <2>1, <2>2, InstructionFacts DEF CpuOK, StartsCopy
<1> QED BY <1>3, <1>4, <1>5

(* Who has the bus now decides whose address the memories look at next. *)
LEMMA AddressStep ==
  ASSUME CpuOK, Clock
  PROVE  AddressOK'
<1> SUFFICES ASSUME q_ready', q_clk_phase' # 1
             PROVE  last_a' = cycle'.a
  BY DEF AddressOK
<1>1. ready_in /\ last_a' = bus_a
  BY DEF Clock, CpuClock
<1>2. last_a' = cycle.a
  BY <1>1 DEF ready_in, bus_a
<1>3. ~EndOfCycle
  BY PhaseStep, ConstantFacts DEF Clock, CpuClock, EndOfCycle, CpuOK
<1> QED BY <1>2, <1>3, CpuStep

LEMMA BreaksStep ==
  ASSUME CpuOK, BreaksOK, Clock
  PROVE  BreaksOK'
<1>1. seen'.breaks = IF EndOfCycle THEN 0 ELSE Count(seen.breaks, brk_out /\ ~active)
  BY DEF Clock, History
<1>2. q_clk_phase' = IF rdy THEN (q_clk_phase + 1) % ClkPhases ELSE q_clk_phase
  BY DEF Clock, CpuClock
<1>3. rdy => ~active
  BY DEF rdy, ready_in
<1>4. CASE EndOfCycle
  BY <1>1, <1>2, <1>4, PhaseStep, ConstantFacts DEF EndOfCycle, BreaksOK, CpuOK
<1>5. CASE ~EndOfCycle /\ brk_out
  <2>1. q_clk_phase = 1 /\ cycle.hlt /\ rdy /\ q_clk_phase' = 2
    BY <1>2, <1>5, PhaseStep, ConstantFacts DEF brk_out, CpuOK
  <2>2. cycle'.hlt /\ seen.breaks = 0
    BY <1>5, <2>1, CpuStep DEF BreaksOK
  <2> QED BY <1>1, <1>3, <1>5, <2>1, <2>2 DEF BreaksOK, Count
<1>6. CASE ~EndOfCycle /\ ~brk_out
  <2>1. seen'.breaks = seen.breaks /\ cycle' = cycle
    BY <1>1, <1>6, CpuStep DEF Count
  <2>2. (q_clk_phase' # 1 /\ cycle.hlt) <=> (q_clk_phase # 1 /\ cycle.hlt)
    BY <1>2, <1>6, PhaseStep, ConstantFacts DEF EndOfCycle, brk_out, CpuOK
  <2> QED BY <2>1, <2>2 DEF BreaksOK
<1> QED BY <1>4, <1>5, <1>6

LEMMA CopiesStep ==
  ASSUME CpuOK, CopiesOK, Clock
  PROVE  CopiesOK'
<1>1. seen'.copies = IF EndOfCycle THEN 0 ELSE Count(seen.copies, Triggered)
  BY DEF Clock, History
<1>2. q_clk_phase' = IF rdy THEN (q_clk_phase + 1) % ClkPhases ELSE q_clk_phase
  BY DEF Clock, CpuClock
<1>3. dma_state = "S_ACTIVE" => ~rdy
  BY DEF rdy, ready_in, DMA!active_out
<1>4. DMA!Clock(cycle.a, cycle.r_nw, cycle.d, bus_q)
  BY DEF Clock, DmaClock
<1>5. \/ /\ dma_state = "S_READY" /\ StartsCopy(cycle) /\ dma_state' = "S_ACTIVE"
      \/ /\ dma_state = "S_READY" /\ ~StartsCopy(cycle) /\ dma_state' = "S_READY"
      \/ /\ dma_state = "S_ACTIVE" /\ dma_state' \in {"S_ACTIVE", "S_COOLDOWN"}
      \/ /\ dma_state = "S_COOLDOWN"
         /\ dma_state' = IF cycle.r_nw THEN "S_READY" ELSE "S_COOLDOWN"
  BY <1>4 DEF DMA!Clock, DMA!Trigger, DMA!Ready, DMA!Lookup, DMA!Latch, DMA!Store,
       DMA!Cooldown, DMA!active_out, DMA!storing, DMA!vars, StartsCopy
<1>6. CASE EndOfCycle
  <2>1. rdy /\ q_clk_phase = 0 /\ q_clk_phase' = 1
    BY <1>2, <1>6, PhaseStep, ConstantFacts DEF EndOfCycle, CpuOK
  <2>2. seen'.copies = 0
    BY <1>1, <1>6
  <2>3. StartsCopy(cycle') => cycle.r_nw
    BY <1>6, CpuStep
  <2>4. cycle.r_nw => dma_state' = "S_READY"
    BY <1>3, <1>5, <2>1 DEF CopiesOK, StartsCopy
  <2>5. dma_state' \in {"S_READY", "S_COOLDOWN"}
    BY <1>3, <1>5, <2>1 DEF CopiesOK
  <2> QED BY <2>1, <2>2, <2>3, <2>4, <2>5 DEF CopiesOK
<1>7. CASE ~EndOfCycle
  <2>1. cycle' = cycle
    BY <1>7, CpuStep
  <2>2. q_clk_phase' = 1 => q_clk_phase = 1
    BY <1>2, <1>7, PhaseStep, ConstantFacts DEF EndOfCycle, CpuOK
  <2>3. Triggered <=> dma_state = "S_READY" /\ dma_state' = "S_ACTIVE"
    BY DEF Triggered
  <2>4. dma_state' # "S_READY" /\ StartsCopy(cycle) => seen'.copies = 1
    BY <1>1, <1>5, <1>7, <2>3 DEF CopiesOK, Count, StartsCopy
  <2>5. ~(dma_state' # "S_READY" /\ StartsCopy(cycle)) => seen'.copies = 0
    BY <1>1, <1>5, <1>7, <2>3 DEF CopiesOK, Count, StartsCopy
  <2>6. StartsCopy(cycle) => dma_state' # "S_READY"
    BY <1>5 DEF StartsCopy
  <2> QED BY <1>5, <2>1, <2>2, <2>4, <2>5, <2>6 DEF CopiesOK, StartsCopy
<1> QED BY <1>6, <1>7

LEMMA Inductive == BusSpec => []IInv
<1>1. ASSUME IInv, [BusNext]_busVars
      PROVE  IInv'
  <2>1. CASE Clock
    BY <1>1, <2>1, CpuStep, AddressStep, BreaksStep, CopiesStep DEF IInv
  <2>2. ASSUME NEW p, HostSend(p)
        PROVE  IInv'
    BY <1>1, <2>2 DEF HostSend, cpuVars, dmaVars, IInv, CpuOK, AddressOK, BreaksOK, CopiesOK, cycle
  <2>3. CASE UNCHANGED busVars
    BY <1>1, <2>3 DEF busVars, cpuVars, dmaVars, IInv, CpuOK, AddressOK, BreaksOK, CopiesOK, cycle
  <2> QED BY <1>1, <2>1, <2>2, <2>3 DEF BusNext
<1> QED BY <1>1, Initially, PTL DEF BusSpec

--------------------------------------------------------------------------------

(***************************************************************************)
(* When the CPU takes its data in, the memories are looking at the address *)
(* of its own cycle, whoever had the bus before (q_ready of cpu.v).        *)
(***************************************************************************)
THEOREM OwnAddress == BusSpec => []CpuReadsOwnAddress
<1>1. IInv => CpuReadsOwnAddress
  BY ConstantFacts DEF IInv, AddressOK, CpuReadsOwnAddress, Samples, rdy
<1> QED BY <1>1, Inductive, PTL

(* A HLT stops the CPU once in its cycle, with breaks of the host before,
   after and at the same time (cpu.v, brk_out). *)
THEOREM BreaksOnce == BusSpec => []HltBreaksOnce
<1>1. IInv => HltBreaksOnce
  BY DEF IInv, BreaksOK, HltBreaksOnce, EndOfCycle
<1> QED BY <1>1, Inductive, PTL

(* A write of 0x4014 starts one copy, and nothing else starts one, for pages
   of any size and with breaks at any clock (sprdma.v, S_COOLDOWN). *)
THEOREM CopiesOnce == BusSpec => []OneCopyPerWrite
<1>1. IInv => OneCopyPerWrite
  BY DEF IInv, CopiesOK, OneCopyPerWrite, EndOfCycle
<1> QED BY <1>1, Inductive, PTL

--------------------------------------------------------------------------------
(* The PPU's addresses, without the division. *)

LEMMA PpuFacts ==
  /\ PpuCtrl \in Nat /\ PpuCtrl > 20 /\ PpuCtrl % 8 = 0
  /\ Base \in Nat /\ Base >= 16 /\ Base <= 256
BY HciAssumption, NesBusAssumption DEF HciAssumption, NesBusAssumption

LEMMA PpuRange ==
  ASSUME NEW a \in Nat
  PROVE  InPpu(a) <=> PpuCtrl <= a /\ a < 2 * PpuCtrl
BY PpuFacts DEF InPpu

(* A copy has the bus only in a write of 0x4014, which is not of the PPU. *)
LEMMA CopyNotOfPpu ==
  ASSUME CopiesOK, DMA!active_out
  PROVE  ~InPpu(cycle.a)
<1>1. cycle.a = DmaReg
  BY DEF CopiesOK, StartsCopy, DMA!active_out
<1>2. DmaReg \in Nat /\ ~(DmaReg < 2 * PpuCtrl)
  BY PpuFacts DEF DmaReg
<1> QED BY <1>1, <1>2, PpuRange

(* The register interface remembers whether its range is on the bus. *)
LEMMA EdgeStep ==
  ASSUME Clock
  PROVE  ri'.ncs_in = ppu_ri_ncs
<1>1. ri' = RI!Clocked(RegisterInputs)
  BY DEF Clock, RegisterClock
<1> DEFINE f == RI!EveryClock(RegisterInputs)
<1>2. f.ncs_in = ppu_ri_ncs
  BY DEF RI!EveryClock, RegisterInputs
<1> QED BY <1>1, <1>2 DEF RI!Clocked, RI!AfterRead, RI!AfterWrite, RI!WriteCtrl, RI!WriteMask, RI!WriteScroll, RI!WriteAddr

(* Instructions in which no cycle on a PPU register follows another one: all
   but the indexed and read-modify-write ones (see bus_indexed), fetched from
   elsewhere. *)
PpuApart ==
  \A ins \in Instructions :
    /\ ~InPpu(ins[1].a)
    /\ \A i \in 2 .. Len(ins) : InPpu(ins[i].a) => ~InPpu(ins[i - 1].a)

CpuApart == \A i \in 2 .. Len(cpu) : InPpu(cpu[i].a) => ~InPpu(cpu[i - 1].a)

(* A cycle on a register has been obeyed once, with /CS low from then on, or
   is still to be obeyed on its first clock. *)
ObeyOK ==
  ~seen.broken /\ InPpu(cycle.a) =>
    \/ seen.accesses = 1 /\ ~ri.ncs_in
    \/ seen.accesses = 0 /\ ri.ncs_in /\ q_clk_phase = 1

ObeyInv == CpuApart /\ ObeyOK

LEMMA ObeyInitially ==
  ASSUME PpuApart, BusInit
  PROVE  ObeyInv
<1>1. cpu \in Instructions
  BY DEF BusInit
<1>2. CpuApart
  BY <1>1 DEF PpuApart, CpuApart
<1>3. ~InPpu(cycle.a)
  <2>1. Head(cpu) = cpu[1]
    BY <1>1, InstructionFacts
  <2> QED BY <1>1, <2>1 DEF PpuApart, cycle
<1> QED BY <1>2, <1>3 DEF ObeyInv, ObeyOK

LEMMA ApartStep ==
  ASSUME PpuApart, CpuOK, CpuApart, Clock
  PROVE  /\ CpuApart'
         /\ EndOfCycle /\ InPpu(cycle'.a) => ~InPpu(cycle.a)
<1>1. CpuClock
  BY DEF Clock
<1>2. CASE ~EndOfCycle
  BY <1>1, <1>2 DEF CpuClock, CpuApart
<1>3. CASE EndOfCycle /\ Len(cpu) > 1
  <2>1. cpu' = Tail(cpu)
    BY <1>1, <1>3 DEF CpuClock
  <2>2. /\ cpu' \in Seq(Cycles) /\ Len(cpu') = Len(cpu) - 1
        /\ \A i \in 1 .. Len(cpu') : cpu'[i] = cpu[i + 1]
    BY <2>1, <1>3 DEF CpuOK
  <2>3. \A i \in 2 .. Len(cpu') : InPpu(cpu'[i].a) => ~InPpu(cpu'[i - 1].a)
    <3> TAKE i \in 2 .. Len(cpu')
    <3>1. /\ cpu'[i] = cpu[i + 1] /\ cpu'[i - 1] = cpu[i]
          /\ i + 1 \in 2 .. Len(cpu) /\ (i + 1) - 1 = i
      BY <2>2, <1>3 DEF CpuOK
    <3> QED BY <3>1 DEF CpuApart
  <2>4. cycle' = cpu[2] /\ cycle = cpu[1] /\ 2 \in 2 .. Len(cpu) /\ 2 - 1 = 1
    BY <2>2, <1>3 DEF cycle, CpuOK
  <2>5. InPpu(cycle'.a) => ~InPpu(cycle.a)
    BY <2>4 DEF CpuApart
  <2> QED BY <2>3, <2>5 DEF CpuApart
<1>4. CASE EndOfCycle /\ ~(Len(cpu) > 1)
  <2>1. cpu' \in Instructions
    BY <1>1, <1>4 DEF CpuClock
  <2>2. cycle' = cpu'[1]
    BY <2>1, InstructionFacts DEF cycle
  <2> QED BY <2>1, <2>2 DEF PpuApart, CpuApart
<1> QED BY <1>2, <1>3, <1>4

LEMMA ObeyStep ==
  ASSUME PpuApart, CpuOK, CopiesOK, ObeyInv, Clock
  PROVE  ObeyInv'
<1>1. CpuApart'
  BY ApartStep DEF ObeyInv
<1> SUFFICES ASSUME ~seen'.broken, InPpu(cycle'.a)
             PROVE  \/ seen'.accesses = 1 /\ ~ri'.ncs_in
                    \/ seen'.accesses = 0 /\ ri'.ncs_in /\ q_clk_phase' = 1
  BY <1>1 DEF ObeyInv, ObeyOK
<1>2. /\ seen'.accesses = IF EndOfCycle THEN 0 ELSE Count(seen.accesses, OwnAccess)
      /\ ~EndOfCycle => ~seen.broken /\ ~active
  BY DEF Clock, History
<1>3. q_clk_phase' = IF rdy THEN (q_clk_phase + 1) % ClkPhases ELSE q_clk_phase
  BY DEF Clock, CpuClock
<1>4. CASE EndOfCycle
  <2>1. ~active /\ ~DMA!active_out /\ q_clk_phase' = 1
    BY <1>3, <1>4, PhaseStep, ConstantFacts DEF EndOfCycle, rdy, ready_in, CpuOK
  <2>2. ~InPpu(cycle.a)
    BY <1>4, ApartStep DEF ObeyInv
  <2>3. ri'.ncs_in
    BY <2>1, <2>2, EdgeStep DEF ppu_ri_ncs, bus_a
  <2> QED BY <1>2, <1>4, <2>1, <2>3
<1>5. CASE ~EndOfCycle
  <2>1. cycle' = cycle
    BY <1>5, CpuStep
  <2>2. ~active /\ ~DMA!active_out
    BY <1>2, <1>5, <2>1, CopyNotOfPpu
  <2>3. ~ri'.ncs_in
    BY <2>1, <2>2, EdgeStep DEF ppu_ri_ncs, bus_a
  <2>4. OwnAccess <=> ri.ncs_in
    BY <2>1, <2>2 DEF OwnAccess, RI!executes, ppu_ri_ncs, bus_a
  <2>5. seen'.accesses = 1
    BY <1>2, <1>5, <2>1, <2>4 DEF Count, ObeyInv, ObeyOK
  <2> QED BY <2>3, <2>5
<1> QED BY <1>4, <1>5

(***************************************************************************)
(* A cycle of the CPU on a PPU register is obeyed exactly once, unless the *)
(* debugger breaks into it (ppu_ri.v, "prevents executing the same command *)
(* multiple times"), for every length of a cycle, whatever copies, breaks  *)
(* and sessions come in between, in instructions that keep such cycles     *)
(* apart.                                                                  *)
(***************************************************************************)
THEOREM ObeyedOnce ==
  ASSUME PpuApart
  PROVE  BusSpec => []PpuObeysOnce
<1>1. BusInit => ObeyInv
  BY ObeyInitially
<1>2. ASSUME IInv, ObeyInv, [BusNext]_busVars
      PROVE  ObeyInv'
  <2>1. CASE Clock
    BY <1>2, <2>1, ObeyStep DEF IInv
  <2>2. ASSUME NEW p, HostSend(p)
        PROVE  ObeyInv'
    BY <1>2, <2>2 DEF HostSend, cpuVars, ObeyInv, CpuApart, ObeyOK, cycle
  <2>3. CASE UNCHANGED busVars
    BY <1>2, <2>3 DEF busVars, cpuVars, ObeyInv, CpuApart, ObeyOK, cycle
  <2> QED BY <1>2, <2>1, <2>2, <2>3 DEF BusNext
<1>3. ObeyInv => PpuObeysOnce
  BY ConstantFacts DEF ObeyInv, ObeyOK, PpuObeysOnce, EndOfCycle
<1> QED BY <1>1, <1>2, <1>3, Inductive, PTL DEF BusSpec

--------------------------------------------------------------------------------
(* PPU_DISABLE, clock by clock. *)

(* It is entered from S_DECODE with its counter at 0, and left after six
   clocks. *)
LEMMA DisableClock ==
  ASSUME NEW brk, NEW din, Fsm(brk, din, 0, 0)
  PROVE  /\ q_state = "S_PPU_DISABLE" => PpuDisable
         /\ q_state # "S_PPU_DISABLE" /\ q_state' = "S_PPU_DISABLE" => q_decode_cnt' = 0
<1>1. q_state = "S_PPU_DISABLE" => PpuDisable
  BY DEF Fsm, Wait, ByteStates, Disabled, Decode, EchoHeader, EchoByte, MemHeader, MemReadDummy,
       MemReadByte, MemWriteByte, CpuRegRd, CpuRegWrSelect, CpuRegWrByte, QueryErrCode,
       CartSetCfgStart, CartSetCfgByte
<1>2. Decode => q_decode_cnt' = 0
  BY DEF Decode
<1>3. q_state # "S_PPU_DISABLE" /\ ~Decode => q_state' # "S_PPU_DISABLE"
  BY DEF Fsm, Wait, Disabled, EchoHeader, EchoByte, MemHeader, MemReadDummy,
       MemReadByte, MemWriteByte, CpuRegRd, CpuRegWrSelect, CpuRegWrByte, QueryErrCode,
       PpuDisable, CartSetCfgStart, CartSetCfgByte, Goto
<1> QED BY <1>1, <1>2, <1>3

(* What the registers do on a clock, as far as PPU_DISABLE is concerned. *)
LEMMA MaskWritten ==
  ASSUME Clock, RI!executes(ppu_ri_ncs), ~bus_r_nw, bus_a % 8 = 1, bus_d = 0
  PROVE  ~ri'.bg_en /\ ~ri'.spr_en
<1>1. ri' = RI!Clocked(RegisterInputs)
  BY DEF Clock, RegisterClock
<1>2. ri' = RI!WriteMask(RI!EveryClock(RegisterInputs), 0)
  BY <1>1 DEF RI!Clocked, RI!AfterWrite, RegisterInputs
<1>3. ~RI!Flag(0, 3) /\ ~RI!Flag(0, 4)
  BY DEF RI!Flag, RI!Field
<1> QED BY <1>2, <1>3 DEF RI!WriteMask

(* A read of a register gives one of these. *)
LEMMA ReadStep ==
  ASSUME Clock, RI!executes(ppu_ri_ncs) => bus_r_nw
  PROVE  /\ ~ri.bg_en => ~ri'.bg_en
         /\ ~ri.spr_en => ~ri'.spr_en
         /\ RI!executes(ppu_ri_ncs) /\ bus_a % 8 = 2 => ~ri'.byte_sel
<1> DEFINE f == RI!EveryClock(RegisterInputs)
<1>1. ri' = RI!Clocked(RegisterInputs)
  BY DEF Clock, RegisterClock
<1>2. ri' = IF RI!executes(ppu_ri_ncs) THEN RI!AfterRead(f, RegisterInputs) ELSE f
  BY <1>1 DEF RI!Clocked, RegisterInputs
<1>3. f.bg_en = ri.bg_en /\ f.spr_en = ri.spr_en
  BY DEF RI!EveryClock
<1>4. RI!AfterRead(f, RegisterInputs).bg_en = f.bg_en
  BY DEF RI!AfterRead
<1>5. RI!AfterRead(f, RegisterInputs).spr_en = f.spr_en
  BY DEF RI!AfterRead
<1>6. bus_a % 8 = 2 => RI!AfterRead(f, RegisterInputs).byte_sel = FALSE
  BY DEF RI!AfterRead, RegisterInputs
<1> HIDE DEF f
<1> QED BY <1>1, <1>2, <1>3, <1>4, <1>5, <1>6

(* /CS is high before 0x2001 and 0x2002, because address 0 has been there, and
   from 0x2001 on the picture is off. *)
DisableOK ==
  q_state = "S_PPU_DISABLE" =>
    /\ q_decode_cnt \in 0 .. 5
    /\ q_decode_cnt \in {2, 4} => q_addr = 0
    /\ q_decode_cnt = 3 => q_addr = PpuCtrl + 1 /\ ri.ncs_in
    /\ q_decode_cnt = 5 => q_addr = PpuCtrl + 2 /\ ri.ncs_in
    /\ q_decode_cnt \in {4, 5} => ~ri.bg_en /\ ~ri.spr_en

LEMMA DisableAddresses ==
  /\ ~InPpu(0) /\ InPpu(PpuCtrl + 1) /\ InPpu(PpuCtrl + 2)
  /\ (PpuCtrl + 1) % 8 = 1 /\ (PpuCtrl + 2) % 8 = 2
<1>1. /\ ~InPpu(0) /\ InPpu(PpuCtrl + 1) /\ InPpu(PpuCtrl + 2)
  BY PpuFacts, PpuRange
<1>2. (PpuCtrl + 1) % 8 = 1 /\ (PpuCtrl + 2) % 8 = 2
  BY PpuFacts
<1> QED BY <1>1, <1>2

LEMMA DisableStep ==
  ASSUME DisableOK, Clock
  PROVE  /\ DisableOK'
         /\ PpuDisableEnds => ~ri'.bg_en /\ ~ri'.spr_en /\ ~ri'.byte_sel
<1>1. Fsm(brk_out, bus_q, 0, 0)
  BY DEF Clock, HciClock
<1>2. CASE q_state # "S_PPU_DISABLE"
  BY <1>1, <1>2, DisableClock DEF DisableOK, PpuDisableEnds
<1>3. CASE q_state = "S_PPU_DISABLE"
  <2>1. /\ q_decode_cnt' = (q_decode_cnt + 1) % 8
        /\ q_addr' = CASE q_decode_cnt = 0 -> PpuCtrl
                       [] q_decode_cnt = 2 -> PpuCtrl + 1
                       [] q_decode_cnt = 4 -> PpuCtrl + 2
                       [] q_decode_cnt \in {1, 3, 5} -> 0
                       [] OTHER -> q_addr
        /\ q_state' = IF q_decode_cnt = 5 THEN "S_DECODE" ELSE "S_PPU_DISABLE"
    BY <1>1, <1>3, DisableClock DEF PpuDisable, NextDecodeCnt, Goto
  <2>2. /\ active /\ bus_a = q_addr
        /\ (bus_r_nw <=> q_decode_cnt \notin {1, 3})
        /\ q_decode_cnt = 3 => bus_d = 0
    BY <1>3 DEF active, bus_a, bus_r_nw, bus_d, cpu_r_nw, cpu_dout, MemWrite, PpuRegZero
  <2>3. (ppu_ri_ncs <=> ~InPpu(q_addr)) /\ (ri'.ncs_in <=> ~InPpu(q_addr))
    BY <2>2, EdgeStep DEF ppu_ri_ncs
  <2>4. CASE q_decode_cnt \in {0, 1}
    BY <1>3, <2>1, <2>4 DEF DisableOK, PpuDisableEnds
  <2>5. CASE q_decode_cnt = 2
    BY <1>3, <2>1, <2>3, <2>5, DisableAddresses DEF DisableOK, PpuDisableEnds
  <2>6. CASE q_decode_cnt = 3
    <3>1. ~ri'.bg_en /\ ~ri'.spr_en
      BY <1>3, <2>2, <2>3, <2>6, MaskWritten, DisableAddresses DEF DisableOK, RI!executes
    <3> QED BY <1>3, <2>1, <2>6, <3>1 DEF DisableOK, PpuDisableEnds
  <2>7. CASE q_decode_cnt \in {4, 5}
    <3>1. ~ri'.bg_en /\ ~ri'.spr_en
      BY <1>3, <2>2, <2>7, ReadStep DEF DisableOK
    <3>2. CASE q_decode_cnt = 4
      BY <1>3, <2>1, <2>3, <3>1, <3>2, DisableAddresses DEF DisableOK, PpuDisableEnds
    <3>3. CASE q_decode_cnt = 5
      <4>1. ~ri'.byte_sel
        BY <1>3, <2>2, <2>3, <3>3, ReadStep, DisableAddresses DEF DisableOK, RI!executes
      <4> QED BY <2>1, <3>1, <3>3, <4>1 DEF DisableOK
    <3> QED BY <2>7, <3>2, <3>3
  <2> QED BY <1>3, <2>4, <2>5, <2>6, <2>7 DEF DisableOK
<1> QED BY <1>2, <1>3

(***************************************************************************)
(* PPU_DISABLE turns the picture off and resets the write toggle, whatever *)
(* address, read or write was on the bus before it (hci.v, S_PPU_DISABLE). *)
(***************************************************************************)
THEOREM DisableTakesEffect == BusSpec => PpuDisableTakesEffect
<1>1. BusInit => DisableOK
  BY DEF BusInit, Init, DisableOK
<1>2. ASSUME DisableOK, [BusNext]_busVars
      PROVE  /\ DisableOK'
             /\ [PpuDisableEnds => ~ri'.bg_en /\ ~ri'.spr_en /\ ~ri'.byte_sel]_busVars
  <2>1. CASE Clock
    BY <1>2, <2>1, DisableStep
  <2>2. ASSUME NEW p, HostSend(p)
        PROVE  DisableOK' /\ ~PpuDisableEnds
    BY <1>2, <2>2 DEF HostSend, vars, hciRegs, DisableOK, PpuDisableEnds
  <2>3. CASE UNCHANGED busVars
    BY <1>2, <2>3 DEF busVars, vars, hciRegs, DisableOK
  <2> QED BY <1>2, <2>1, <2>2, <2>3 DEF BusNext
<1> QED BY <1>1, <1>2, PTL DEF BusSpec, PpuDisableTakesEffect

--------------------------------------------------------------------------------
(* A page, copied.  First what its addresses are... *)

LEMMA PageByte ==
  ASSUME NEW p \in Nat, NEW k \in 0 .. LastByte
  PROVE  /\ k \in Nat /\ k < Base
         /\ p * Base + k \in Nat
         /\ (p * Base + k) % Base = k
         /\ (p * Base + k) + 1 = p * Base + (k + 1)
<1>1. LastByte \in 0 .. Base - 1
  BY NesBusAssumption DEF NesBusAssumption
<1>2. k \in Nat /\ k < Base
  BY <1>1, PpuFacts
<1>3. p * Base \in Nat
  BY PpuFacts
<1> DEFINE n == p * Base
<1>4. n % Base = 0
  BY PpuFacts
<1>5. (n + k) % Base = k
  BY <1>2, PpuFacts
<1>6. n + k \in Nat /\ (n + k) + 1 = n + (k + 1)
  BY <1>2, <1>3
<1> QED BY <1>2, <1>5, <1>6

(* ...and the cells it goes to, which are different ones. *)
LEMMA FirstCell ==
  ASSUME NEW s \in 0 .. 255
  PROVE  (s + 0) % 256 = s
OBVIOUS

LEMMA NextCell ==
  ASSUME NEW s \in 0 .. 255, NEW k \in 0 .. 255
  PROVE  (((s + k) % 256) + 1) % 256 = (s + (k + 1)) % 256
OBVIOUS

LEMMA Cells256 ==
  ASSUME NEW n \in Nat
  PROVE  n % 256 \in 0 .. 255
OBVIOUS

LEMMA MemoryNotOfPpu ==
  ASSUME NEW a \in Nat, InMemory(a)
  PROVE  ~InPpu(a)
BY PpuFacts, PpuRange DEF InMemory

LEMMA OamDataOfPpu == InPpu(PpuCtrl + 4) /\ (PpuCtrl + 4) % 8 = 4
<1>1. InPpu(PpuCtrl + 4)
  BY PpuFacts, PpuRange
<1>2. (PpuCtrl + 4) % 8 = 4
  BY PpuFacts
<1> QED BY <1>1, <1>2

(* Sprite RAM and its address on a clock. *)
LEMMA SpriteRead ==
  ASSUME Clock, RI!executes(ppu_ri_ncs) => bus_r_nw
  PROVE  ri'.spr_ram_a = ri.spr_ram_a /\ oam' = oam
<1> DEFINE f == RI!EveryClock(RegisterInputs)
<1>1. ri' = RI!Clocked(RegisterInputs)
  BY DEF Clock, RegisterClock
<1>2. ri' = IF RI!executes(ppu_ri_ncs) THEN RI!AfterRead(f, RegisterInputs) ELSE f
  BY <1>1 DEF RI!Clocked, RegisterInputs
<1>3. f.spr_ram_a = ri.spr_ram_a
  BY DEF RI!EveryClock
<1>4. RI!AfterRead(f, RegisterInputs).spr_ram_a = f.spr_ram_a
  BY DEF RI!AfterRead
<1>5. oam' = oam
  BY DEF Clock, RegisterClock, RI!spr_ram_wr_out, RI!Writes, RegisterInputs
<1> HIDE DEF f
<1> QED BY <1>1, <1>2, <1>3, <1>4, <1>5

LEMMA SpriteWritten ==
  ASSUME Clock, RI!executes(ppu_ri_ncs), ~bus_r_nw
  PROVE  /\ ri'.spr_ram_a = IF bus_a % 8 = 3 THEN bus_d
                            ELSE IF bus_a % 8 = 4 THEN (ri.spr_ram_a + 1) % 256
                            ELSE ri.spr_ram_a
         /\ bus_a % 8 = 4 =>
              oam' = [c \in DOMAIN oam \cup {ri.spr_ram_a} |->
                        IF c = ri.spr_ram_a THEN bus_d ELSE oam[c]]
<1> DEFINE f == RI!EveryClock(RegisterInputs)
           i == RegisterInputs
<1>1. ri' = RI!AfterWrite(f, i) /\ i.sel = bus_a % 8 /\ i.d = bus_d
  BY DEF Clock, RegisterClock, RI!Clocked, RegisterInputs
<1>2. f.spr_ram_a = ri.spr_ram_a
  BY DEF RI!EveryClock
<1>3. RI!AfterWrite(f, i).spr_ram_a = IF i.sel = 3 THEN i.d
                                      ELSE IF i.sel = 4 THEN (f.spr_ram_a + 1) % 256
                                      ELSE f.spr_ram_a
  <2> HIDE DEF f, i
  <2> QED BY DEF RI!AfterWrite, RI!WriteCtrl, RI!WriteMask, RI!WriteScroll, RI!WriteAddr
<1>4. bus_a % 8 = 4 =>
        oam' = [c \in DOMAIN oam \cup {ri.spr_ram_a} |->
                  IF c = ri.spr_ram_a THEN bus_d ELSE oam[c]]
  BY DEF Clock, RegisterClock, RI!spr_ram_wr_out, RI!Writes, RegisterInputs
<1> HIDE DEF f, i
<1> QED BY <1>1, <1>2, <1>3, <1>4

(* Bytes of the host, on the line and in the receive FIFO, and what they can
   become: the sprite RAM address, the page of a copy, and where it started. *)
BytesOK ==
  /\ line \in Seq(Byte)
  /\ rx_fifo.entries \in Seq(Byte)
  /\ ~rx_empty => Len(rx_fifo.entries) >= 1
  /\ ri.spr_ram_a \in 0 .. 255
  /\ seen.page \in Byte
  /\ seen.start \in 0 .. 255

LEMMA LineStep ==
  ASSUME BytesOK, Clock
  PROVE  /\ (line \in Seq(Byte))'
         /\ (rx_fifo.entries \in Seq(Byte))'
         /\ (~rx_empty => Len(rx_fifo.entries) >= 1)'
<1>1. PICK arrives \in {FALSE} \cup {line # <<>> /\ rx_fifo.entries = <<>>} :
        /\ rx_fifo' = RX!Clocked(rx_fifo, rd_en(brk_out), arrives,
                                 IF arrives THEN Head(line) ELSE 0)
        /\ line' = IF arrives THEN Tail(line) ELSE line
  BY DEF Clock, HciClock, UartBuffers
<1> DEFINE b == IF arrives THEN Head(line) ELSE 0
           pop == RX!PopsFrom(rx_fifo, rd_en(brk_out))
           push == RX!PushesTo(rx_fifo, arrives)
           kept == IF pop THEN Tail(rx_fifo.entries) ELSE rx_fifo.entries
<1>2. arrives => line # <<>>
  OBVIOUS
<1>3. line' \in Seq(Byte) /\ b \in Byte
  <2>1. CASE arrives
    BY <1>1, <1>2, <2>1 DEF BytesOK
  <2>2. CASE ~arrives
    BY <1>1, <2>2, PpuFacts DEF BytesOK, Byte
  <2> QED BY <2>1, <2>2
<1>4. pop => ~rx_empty
  BY DEF RX!PopsFrom, rx_empty
<1>5. kept \in Seq(Byte) /\ Len(kept) = IF pop THEN Len(rx_fifo.entries) - 1 ELSE Len(rx_fifo.entries)
  BY <1>4 DEF BytesOK
<1>6. /\ rx_fifo'.entries = IF push THEN Append(kept, b) ELSE kept
      /\ rx_fifo'.empty <=> (rx_fifo.empty /\ ~push) \/ (Len(rx_fifo.entries) = 1 /\ pop)
  BY <1>1 DEF RX!Clocked
<1>7. (rx_fifo.entries \in Seq(Byte))'
  <2> HIDE DEF b, pop, push, kept
  <2> QED BY <1>3, <1>5, <1>6
<1>8. (~rx_empty => Len(rx_fifo.entries) >= 1)'
  <2> SUFFICES ASSUME ~rx_fifo'.empty PROVE Len(rx_fifo'.entries) >= 1
    BY DEF rx_empty
  <2>1. CASE push
    <3> HIDE DEF b, pop, push, kept
    <3> QED BY <1>3, <1>5, <1>6, <2>1
  <2>2. CASE ~push
    <3>1. ~rx_fifo.empty /\ Len(rx_fifo.entries) >= 1
      BY <1>6, <2>2 DEF BytesOK, rx_empty
    <3>2. Len(rx_fifo.entries) \in Nat /\ rx_fifo'.entries = kept
      BY <1>6, <2>2 DEF BytesOK
    <3>3. ~(Len(rx_fifo.entries) = 1 /\ pop)
      BY <1>6, <2>2
    <3>4. CASE pop
      <4> DEFINE n == Len(rx_fifo.entries)
      <4>1. Len(kept) = n - 1 /\ n # 1 /\ n >= 1 /\ n \in Nat
        BY <1>5, <3>1, <3>2, <3>3, <3>4
      <4>2. Len(kept) >= 1
        <5> HIDE DEF n, kept
        <5> QED BY ONLY <4>1
      <4> QED BY <3>2, <4>2
    <3>5. CASE ~pop
      BY <3>1, <3>2, <3>5
    <3> QED BY <3>4, <3>5
  <2> QED BY <2>1, <2>2
<1> QED BY <1>3, <1>7, <1>8

(* What the CPU and the debugger write is a byte. *)
LEMMA BusByte ==
  ASSUME CpuOK, BytesOK, active \/ ~DMA!active_out
  PROVE  bus_d \in Byte
<1>1. 0 \in Byte
  BY PpuFacts DEF Byte
<1>2. cycle.d \in Byte
  <2>1. cycle \in Cycles
    BY DEF cycle, CpuOK
  <2> QED BY <2>1 DEF Cycles
<1>3. ~bus_r_nw /\ active => cpu_dout \in Byte
  BY <1>1 DEF bus_r_nw, cpu_r_nw, cpu_dout, MemWrite, rd_data, BytesOK
<1> QED BY <1>1, <1>2, <1>3 DEF bus_d

LEMMA BytesStep ==
  ASSUME CpuOK, CopiesOK, BytesOK, Clock
  PROVE  BytesOK'
<1>1. (ri.spr_ram_a \in 0 .. 255)'
  <2>1. (ri.spr_ram_a + 1) % 256 \in 0 .. 255
    <3>1. ri.spr_ram_a \in 0 .. 255
      BY DEF BytesOK
    <3>2. ri.spr_ram_a + 1 \in Nat
      BY ONLY <3>1
    <3> QED BY <3>2, Cells256
  <2>2. CASE RI!executes(ppu_ri_ncs) => bus_r_nw
    BY <2>2, SpriteRead DEF BytesOK
  <2>3. CASE RI!executes(ppu_ri_ncs) /\ ~bus_r_nw /\ (active \/ ~DMA!active_out)
    <3>1. bus_d \in 0 .. 255
      <4>1. bus_d \in Byte
        BY <2>3, BusByte
      <4>2. \A d \in Byte : d \in 0 .. 255
        BY PpuFacts DEF Byte
      <4> QED BY ONLY <4>1, <4>2
    <3>2. ri'.spr_ram_a = IF bus_a % 8 = 3 THEN bus_d
                          ELSE IF bus_a % 8 = 4 THEN (ri.spr_ram_a + 1) % 256
                          ELSE ri.spr_ram_a
      BY <2>3, SpriteWritten
    <3>3. ri.spr_ram_a \in 0 .. 255
      BY DEF BytesOK
    <3> QED BY ONLY <2>1, <3>1, <3>2, <3>3
  <2>4. CASE RI!executes(ppu_ri_ncs) /\ ~bus_r_nw /\ ~active /\ DMA!active_out
    <3>1. bus_a % 8 = 4
      BY <2>4, OamDataOfPpu DEF bus_a, bus_r_nw, DMA!cpumc_a_out, DMA!cpumc_r_nw_out
    <3> QED BY <2>1, <2>4, <3>1, SpriteWritten
  <2> QED BY <2>2, <2>3, <2>4
<1>2. (seen.page \in Byte)' /\ (seen.start \in 0 .. 255)'
  <2>1. cycle \in Cycles
    BY DEF cycle, CpuOK
  <2>2. /\ seen'.page = IF Triggered THEN cycle.d ELSE seen.page
        /\ seen'.start = IF Triggered THEN ri.spr_ram_a ELSE seen.start
    BY DEF Clock, History
  <2> QED BY <2>1, <2>2 DEF BytesOK, Cycles
<1> QED BY <1>1, <1>2, LineStep DEF BytesOK

(* Bytes of the page that are in sprite RAM. *)
Copied(k) ==
  \A i \in 0 .. k - 1 :
    LET c == (seen.start + i) % 256
    IN  c \in DOMAIN oam /\ oam[c] = Cell(seen.page * Base + i)

(* The copy is at byte k: looking it up, with its address before the memories,
   or storing it, with /CS high since it was read. *)
CopyAt(k) ==
  /\ dma_addr = seen.page * Base + k
  /\ dma_cnt \in 0 .. 2
  /\ ri.spr_ram_a = (seen.start + k) % 256
  /\ Copied(k)
  /\ dma_cnt = 1 => last_a = dma_addr
  /\ dma_cnt = 2 => dma_data = Cell(dma_addr) /\ ri.ncs_in

CopyOK ==
  /\ dma_state # "S_ACTIVE" => dma_cnt = 0
  /\ DMA!active_out /\ ~active /\ ~seen.disturbed /\ PageInMemory(seen.page)
       => \E k \in 0 .. LastByte : CopyAt(k)

(* The debugger lets go of the bus in S_DECODE, which only reads. *)
LEMMA RunReads ==
  ASSUME Clock, active, ~active'
  PROVE  bus_r_nw
<1>1. Fsm(brk_out, bus_q, 0, 0)
  BY DEF Clock, HciClock
<1>2. q_state = "S_DECODE"
  BY <1>1 DEF Fsm, Wait, Disabled, Decode, EchoHeader, EchoByte, MemHeader, MemReadDummy,
       MemReadByte, MemWriteByte, CpuRegRd, CpuRegWrSelect, CpuRegWrByte, QueryErrCode,
       PpuDisable, CartSetCfgStart, CartSetCfgByte, Goto, active
<1> QED BY <1>2 DEF bus_r_nw, cpu_r_nw, MemWrite, PpuRegZero

(* The copy begins: nothing moves the sprite RAM address on that clock, but a
   debugger that stays. *)
LEMMA CopyBegins ==
  ASSUME CpuOK, CopiesOK, BytesOK, CopyOK, Clock, Triggered, ~active'
  PROVE  CopyAt(0)'
<1>1. /\ StartsCopy(cycle) /\ dma_addr' = cycle.d * Base /\ dma_cnt' = 0
  BY DEF Clock, DmaClock, DMA!Clock, DMA!Trigger, DMA!Ready, DMA!Lookup, DMA!Latch, DMA!Store,
       DMA!Cooldown, DMA!active_out, DMA!storing, DMA!vars, StartsCopy, Triggered, CopyOK
<1>2. seen'.page = cycle.d /\ seen'.start = ri.spr_ram_a
  BY DEF Clock, History
<1>3. ri'.spr_ram_a = ri.spr_ram_a
  <2>1. CASE active
    BY <2>1, RunReads, SpriteRead
  <2>2. CASE ~active
    <3>1. ~DMA!active_out /\ bus_a = DmaReg
      BY <1>1, <2>2 DEF Triggered, DMA!active_out, bus_a, StartsCopy
    <3>2. DmaReg \in Nat /\ ~(DmaReg < 2 * PpuCtrl)
      BY PpuFacts DEF DmaReg
    <3>3. ~RI!executes(ppu_ri_ncs)
      BY <3>1, <3>2, PpuRange DEF RI!executes, ppu_ri_ncs
    <3> QED BY <3>3, SpriteRead
  <2> QED BY <2>1, <2>2
<1>4. (ri.spr_ram_a + 0) % 256 = ri.spr_ram_a
  BY FirstCell DEF BytesOK
<1>5. cycle.d \in Nat
  <2>1. cycle \in Cycles
    BY DEF cycle, CpuOK
  <2> QED BY <2>1, PpuFacts DEF Cycles, Byte
<1>6. cycle.d * Base + 0 = cycle.d * Base
  BY <1>5, PpuFacts
<1>7. Copied(0)'
  BY DEF Copied
<1> QED BY <1>1, <1>2, <1>3, <1>4, <1>6, <1>7 DEF CopyAt

(* A clock of the copy: the byte is looked up, latched, or stored. *)
LEMMA CopyGoesOn ==
  ASSUME BytesOK, Clock, DMA!active_out, ~active, PageInMemory(seen.page),
         NEW k \in 0 .. LastByte, CopyAt(k)
  PROVE  /\ dma_state' = "S_ACTIVE" => \E j \in 0 .. LastByte : CopyAt(j)'
         /\ dma_state' = "S_COOLDOWN" => Copied(LastByte + 1)'
         /\ dma_state' # "S_ACTIVE" => dma_cnt' = 0
<1>1. seen.page \in Nat /\ k \in 0 .. 255 /\ LastByte \in Nat /\ k <= LastByte
  BY NesBusAssumption, PpuFacts DEF BytesOK, Byte, NesBusAssumption
<1>2. /\ dma_addr = seen.page * Base + k /\ dma_addr \in Nat
      /\ dma_addr % Base = k /\ dma_addr + 1 = seen.page * Base + (k + 1)
  BY <1>1, PageByte DEF CopyAt
<1>3. InMemory(dma_addr) /\ ~InPpu(dma_addr)
  BY <1>2, MemoryNotOfPpu DEF PageInMemory
<1>4. seen'.page = seen.page /\ seen'.start = seen.start
  BY DEF Clock, History, Triggered, DMA!active_out
<1>5. DMA!Clock(cycle.a, cycle.r_nw, cycle.d, bus_q)
  BY DEF Clock, DmaClock
<1>6. last_a' = bus_a /\ dma_state = "S_ACTIVE"
  BY DEF Clock, DMA!active_out
<1>7. CASE dma_cnt = 0
  <2>1. bus_a = dma_addr /\ bus_r_nw
    BY <1>6, <1>7 DEF bus_a, bus_r_nw, DMA!cpumc_a_out, DMA!cpumc_r_nw_out, DMA!storing, DMA!active_out
  <2>2. dma_cnt' = 1 /\ dma_addr' = dma_addr /\ dma_state' = "S_ACTIVE"
    BY <1>5, <1>6, <1>7 DEF DMA!Clock, DMA!Trigger, DMA!Ready, DMA!Lookup, DMA!Latch, DMA!Store,
         DMA!Cooldown, DMA!active_out, DMA!storing, DMA!vars
  <2>3. ri'.spr_ram_a = ri.spr_ram_a /\ oam' = oam
    BY <2>1, SpriteRead
  <2>4. CopyAt(k)'
    BY <1>4, <1>6, <2>1, <2>2, <2>3 DEF CopyAt, Copied
  <2> QED BY <2>2, <2>4
<1>8. CASE dma_cnt = 1
  <2>1. bus_a = dma_addr /\ bus_r_nw
    BY <1>6, <1>8 DEF bus_a, bus_r_nw, DMA!cpumc_a_out, DMA!cpumc_r_nw_out, DMA!storing, DMA!active_out
  <2>2. dma_cnt' = 2 /\ dma_addr' = dma_addr /\ dma_state' = "S_ACTIVE" /\ dma_data' = bus_q
    BY <1>5, <1>6, <1>8 DEF DMA!Clock, DMA!Trigger, DMA!Ready, DMA!Lookup, DMA!Latch, DMA!Store,
         DMA!Cooldown, DMA!active_out, DMA!storing, DMA!vars
  <2>3. ri'.spr_ram_a = ri.spr_ram_a /\ oam' = oam
    BY <2>1, SpriteRead
  <2>4. bus_q = Cell(dma_addr)
    BY <1>3, <1>8, <2>1 DEF bus_q, CopyAt
  <2>5. ri'.ncs_in
    BY <1>3, <2>1, EdgeStep DEF ppu_ri_ncs
  <2>6. CopyAt(k)'
    BY <1>4, <2>2, <2>3, <2>4, <2>5 DEF CopyAt, Copied
  <2> QED BY <2>2, <2>6
<1>9. CASE dma_cnt = 2
  <2>1. bus_a = PpuCtrl + 4 /\ ~bus_r_nw /\ bus_d = Cell(dma_addr)
    BY <1>6, <1>9 DEF bus_a, bus_r_nw, bus_d, DMA!cpumc_a_out, DMA!cpumc_r_nw_out, DMA!cpumc_d_out,
         DMA!storing, DMA!active_out, CopyAt
  <2>2. RI!executes(ppu_ri_ncs)
    BY <1>9, <2>1, OamDataOfPpu DEF RI!executes, ppu_ri_ncs, CopyAt
  <2>3. /\ ri'.spr_ram_a = (ri.spr_ram_a + 1) % 256
        /\ oam' = [c \in DOMAIN oam \cup {ri.spr_ram_a} |->
                     IF c = ri.spr_ram_a THEN Cell(dma_addr) ELSE oam[c]]
    <3>1. bus_a % 8 = 4
      BY <2>1, OamDataOfPpu
    <3> QED BY <2>1, <2>2, <3>1, SpriteWritten
  <2>4. /\ dma_cnt' = 0
        /\ IF dma_addr % Base = LastByte
             THEN dma_state' = "S_COOLDOWN"
             ELSE dma_addr' = dma_addr + 1 /\ dma_state' = "S_ACTIVE"
    BY <1>5, <1>6, <1>9 DEF DMA!Clock, DMA!Trigger, DMA!Ready, DMA!Lookup, DMA!Latch, DMA!Store,
         DMA!Cooldown, DMA!active_out, DMA!storing, DMA!vars
  <2>5. ri.spr_ram_a = (seen.start + k) % 256 /\ seen.start \in 0 .. 255
    BY DEF CopyAt, BytesOK
  <2>6. Copied(k + 1)'
    <3> SUFFICES ASSUME NEW i \in 0 .. (k + 1) - 1
                 PROVE  LET c == (seen.start + i) % 256
                        IN  c \in DOMAIN oam' /\ oam'[c] = Cell(seen.page * Base + i)
      BY <1>4 DEF Copied
    <3> DEFINE c == (seen.start + i) % 256
    <3>1. CASE i = k
      BY <1>2, <2>3, <2>5, <3>1
    <3>2. CASE i # k
      <4>1. i \in 0 .. k - 1
        BY <1>1, <3>2
      <4>2. c # ri.spr_ram_a
        <5>1. (seen.start + i) % 256 # (seen.start + k) % 256
          <6> DEFINE s == seen.start
          <6>1. s \in 0 .. 255 /\ k \in 0 .. 255
            BY <1>1, <2>5
          <6>2. (s + i) % 256 # (s + k) % 256
            <7> HIDE DEF s
            <7> QED BY ONLY <4>1, <6>1
          <6> QED BY <6>2
        <5> QED BY ONLY <5>1, <2>5, Zenon
      <4>3. c \in DOMAIN oam /\ oam[c] = Cell(seen.page * Base + i)
        BY <4>1 DEF CopyAt, Copied
      <4>4. c \in DOMAIN oam' /\ oam'[c] = Cell(seen.page * Base + i)
        <5> HIDE DEF c
        <5> QED BY <2>3, <4>2, <4>3
      <4> QED BY <4>4
    <3> QED BY <3>1, <3>2
  <2>7. CASE k = LastByte
    BY <1>2, <2>4, <2>6, <2>7
  <2>8. CASE k # LastByte
    <3>1. k + 1 \in 0 .. LastByte
      BY <1>1, <2>8
    <3>2. (ri.spr_ram_a + 1) % 256 = (seen.start + (k + 1)) % 256
      <4>1. (((seen.start + k) % 256) + 1) % 256 = (seen.start + (k + 1)) % 256
        <5>1. seen.start \in 0 .. 255 /\ k \in 0 .. 255
          BY <1>1, <2>5
        <5> QED BY ONLY <5>1, NextCell
      <4> QED BY ONLY <4>1, <2>5, Zenon
    <3>3. CopyAt(k + 1)'
      BY <1>2, <1>4, <2>3, <2>4, <2>6, <2>8, <3>2 DEF CopyAt
    <3> QED BY <1>2, <2>4, <2>8, <3>1, <3>3
  <2> QED BY <2>7, <2>8
<1> QED BY <1>7, <1>8, <1>9 DEF CopyAt

LEMMA CopyStep ==
  ASSUME CpuOK, CopiesOK, BytesOK, CopyOK, Clock
  PROVE  /\ CopyOK'
         /\ CopyEnds /\ ~seen'.disturbed /\ PageInMemory(seen.page) => Copied(LastByte + 1)'
<1>1. seen'.disturbed <=> ~Triggered /\ (seen.disturbed \/ (DMA!active_out /\ active))
  BY DEF Clock, History
<1>2. DMA!Clock(cycle.a, cycle.r_nw, cycle.d, bus_q)
  BY DEF Clock, DmaClock
<1>3. CASE ~DMA!active_out
  <2>1. dma_cnt' = 0 /\ (dma_state' = "S_ACTIVE" => Triggered)
    BY <1>2, <1>3 DEF DMA!Clock, DMA!Trigger, DMA!Ready, DMA!Lookup, DMA!Latch, DMA!Store,
         DMA!Cooldown, DMA!active_out, DMA!storing, DMA!vars, CopyOK, Triggered
  <2>2. 0 \in 0 .. LastByte
    BY NesBusAssumption, PpuFacts DEF NesBusAssumption
  <2> QED BY <1>3, <2>1, <2>2, CopyBegins DEF CopyOK, CopyEnds, DMA!active_out
<1>4. CASE DMA!active_out
  <2>1. ~Triggered /\ seen'.page = seen.page
    BY <1>4 DEF Triggered, DMA!active_out, Clock, History
  <2>2. dma_state' # "S_ACTIVE" => dma_cnt' = 0
    BY <1>2, <1>4 DEF DMA!Clock, DMA!Trigger, DMA!Ready, DMA!Lookup, DMA!Latch, DMA!Store,
         DMA!Cooldown, DMA!active_out, DMA!storing, DMA!vars
  <2>3. CASE seen'.disturbed \/ ~PageInMemory(seen.page)
    BY <2>1, <2>2, <2>3 DEF CopyOK, PageInMemory
  <2>4. CASE ~seen'.disturbed /\ PageInMemory(seen.page)
    <3>1. ~active /\ ~seen.disturbed
      BY <1>1, <1>4, <2>1, <2>4
    <3>2. PICK k \in 0 .. LastByte : CopyAt(k)
      BY <1>4, <2>4, <3>1 DEF CopyOK
    <3>3. /\ dma_state' = "S_ACTIVE" => \E j \in 0 .. LastByte : CopyAt(j)'
          /\ dma_state' = "S_COOLDOWN" => Copied(LastByte + 1)'
      BY <1>4, <2>4, <3>1, <3>2, CopyGoesOn
    <3> QED BY <2>2, <3>3 DEF CopyOK, CopyEnds, DMA!active_out
  <2> QED BY <2>3, <2>4
<1> QED BY <1>3, <1>4

(***************************************************************************)
(* A copy of memory that the debugger does not break into has put the page *)
(* into sprite RAM when it ends, byte for byte and wrapping around at the  *)
(* end (sprdma.v), for every page, every address it starts at, every       *)
(* length of a page and of a CPU cycle, and whatever the debugger did      *)
(* before.                                                                 *)
(***************************************************************************)
THEOREM PageCopied == BusSpec => DmaCopiesPage
<1>1. BusInit => BytesOK /\ CopyOK
  <2> SUFFICES ASSUME BusInit PROVE BytesOK /\ CopyOK
    OBVIOUS
  <2>1. /\ line = <<>> /\ rx_fifo = RX!NewQueue /\ ri = RI!Reset
        /\ seen.page = 0 /\ seen.start = 0
        /\ dma_state = "S_READY" /\ dma_cnt = 0
    BY DEF BusInit, Init, DMA!Init
  <2>2. rx_fifo.entries = <<>> /\ rx_empty /\ ri.spr_ram_a = 0
    BY <2>1 DEF RX!NewQueue, RI!Reset, rx_empty
  <2>3. BytesOK
    BY <2>1, <2>2, PpuFacts DEF BytesOK, Byte
  <2> QED BY <2>1, <2>3 DEF CopyOK, DMA!active_out
<1>2. ASSUME IInv, BytesOK, CopyOK, [BusNext]_busVars
      PROVE  /\ BytesOK' /\ CopyOK'
             /\ [ CopyEnds /\ ~seen'.disturbed /\ PageInMemory(seen.page) =>
                    \A i \in 0 .. LastByte :
                      LET c == (seen.start + i) % 256
                      IN  c \in DOMAIN oam' /\ oam'[c] = Cell(seen.page * Base + i) ]_busVars
  <2>1. CASE Clock
    <3>1. BytesOK' /\ CopyOK'
      BY <1>2, <2>1, BytesStep, CopyStep DEF IInv
    <3>2. ASSUME CopyEnds, ~seen'.disturbed, PageInMemory(seen.page), NEW i \in 0 .. LastByte
          PROVE  LET c == (seen.start + i) % 256
                 IN  c \in DOMAIN oam' /\ oam'[c] = Cell(seen.page * Base + i)
      <4>1. Copied(LastByte + 1)'
        BY <1>2, <2>1, <3>2, CopyStep DEF IInv
      <4>2. seen'.page = seen.page /\ seen'.start = seen.start
        BY <2>1, <3>2 DEF Clock, History, Triggered, CopyEnds
      <4>3. i \in 0 .. (LastByte + 1) - 1
        BY NesBusAssumption, PpuFacts DEF NesBusAssumption
      <4> QED BY <4>1, <4>2, <4>3 DEF Copied
    <3> QED BY <3>1, <3>2
  <2>2. ASSUME NEW p \in HostPackets \cup {<<OP_DBG_BRK>>}, HostSend(p)
        PROVE  BytesOK' /\ CopyOK' /\ ~CopyEnds
    <3>1. /\ line' = p
          /\ UNCHANGED <<q_state, rx_fifo, dma_state, dma_addr, dma_cnt, dma_data,
                         ri, oam, last_a, seen>>
      BY <2>2 DEF HostSend, vars, hciRegs, dmaVars
    <3>2. p \in Seq(Byte)
      <4>1. 3 \in Byte
        BY PpuFacts DEF Byte
      <4>2. <<OP_DBG_BRK>> \in Seq(Byte)
        BY <4>1 DEF OP_DBG_BRK
      <4> QED BY <4>2, NesBusAssumption DEF NesBusAssumption
    <3>3. BytesOK'
      BY <1>2, <3>1, <3>2 DEF BytesOK, rx_empty
    <3>4. CopyOK' /\ ~CopyEnds
      BY <1>2, <3>1 DEF CopyOK, CopyAt, Copied, CopyEnds, active, DMA!active_out
    <3> QED BY <3>3, <3>4
  <2>3. CASE UNCHANGED busVars
    BY <1>2, <2>3 DEF busVars, vars, hciRegs, dmaVars, BytesOK, rx_empty,
                      CopyOK, CopyAt, Copied, active, DMA!active_out
  <2> QED BY <1>2, <2>1, <2>2, <2>3 DEF BusNext
<1> QED BY <1>1, <1>2, Inductive, PTL DEF BusSpec, DmaCopiesPage

================================================================================
