-------------------------------- MODULE SprDma ---------------------------------
(***************************************************************************)
(* hw/src/cpu/sprdma.v: sprite DMA.  It watches the CPU's own bus for a    *)
(* write to 0x4014, then stops the CPU and copies one page of memory to    *)
(* the sprite RAM, three clocks for each byte.                             *)
(*                                                                         *)
(* One step is one clock edge.  Its inputs are the address, direction and  *)
(* data the CPU drives and the byte on the shared bus; they are parameters *)
(* of the actions.                                                         *)
(***************************************************************************)
EXTENDS Naturals

CONSTANTS
  Base,       \* number of values of a byte: 256
  LastByte,   \* offset of the last byte of a page that is copied: 255
  DmaReg,     \* 0x4014
  OamData     \* 0x2004

VARIABLES
  q_state,
  q_addr,    \* the byte being copied
  q_cnt,     \* clock within the copy of one byte
  q_data     \* the byte read

vars == <<q_state, q_addr, q_cnt, q_data>>

Init ==
  /\ q_state = "S_READY"
  /\ q_addr = 0
  /\ q_cnt = 0
  /\ q_data = 0

(* What it drives while it is active. *)
active_out     == q_state = "S_ACTIVE"
storing        == active_out /\ q_cnt = 2
cpumc_r_nw_out == ~storing
cpumc_a_out    == IF storing THEN OamData ELSE IF active_out THEN q_addr ELSE 0
cpumc_d_out    == IF storing THEN q_data ELSE 0

(* The CPU writes the number of a page to 0x4014. *)
Trigger(cpu_a, cpu_r_nw, cpu_d) ==
  /\ q_state = "S_READY"
  /\ cpu_a = DmaReg /\ ~cpu_r_nw
  /\ q_state' = "S_ACTIVE"
  /\ q_addr' = cpu_d * Base
  /\ UNCHANGED <<q_cnt, q_data>>

Ready(cpu_a, cpu_r_nw) ==
  /\ q_state = "S_READY"
  /\ ~(cpu_a = DmaReg /\ ~cpu_r_nw)
  /\ UNCHANGED vars

Lookup ==
  /\ active_out /\ q_cnt = 0
  /\ q_cnt' = 1
  /\ UNCHANGED <<q_state, q_addr, q_data>>

Latch(din) ==
  /\ active_out /\ q_cnt = 1
  /\ q_data' = din
  /\ q_cnt' = 2
  /\ UNCHANGED <<q_state, q_addr>>

(* Faulty: leaves for S_READY, where the write that started it is seen again. *)
Store_NoCooldown ==
  /\ storing
  /\ q_cnt' = 0
  /\ IF q_addr % Base = LastByte
       THEN q_state' = "S_READY" /\ UNCHANGED q_addr
       ELSE q_addr' = q_addr + 1 /\ UNCHANGED q_state
  /\ UNCHANGED q_data

(* Faulty: ends with one byte still to copy. *)
Store_EndsEarly ==
  /\ storing
  /\ q_cnt' = 0
  /\ IF q_addr % Base = LastByte - 1
       THEN q_state' = "S_COOLDOWN" /\ UNCHANGED q_addr
       ELSE q_addr' = q_addr + 1 /\ UNCHANGED q_state
  /\ UNCHANGED q_data

Store ==
  /\ storing
  /\ q_cnt' = 0
  /\ IF q_addr % Base = LastByte
       THEN q_state' = "S_COOLDOWN" /\ UNCHANGED q_addr
       ELSE q_addr' = q_addr + 1 /\ UNCHANGED q_state
  /\ UNCHANGED q_data

(* The CPU goes on with the write cycle that started the copy; not before a
   read is it safe to watch for the next. *)
Cooldown(cpu_r_nw) ==
  /\ q_state = "S_COOLDOWN"
  /\ q_state' = IF cpu_r_nw THEN "S_READY" ELSE "S_COOLDOWN"
  /\ UNCHANGED <<q_addr, q_cnt, q_data>>

Clock(cpu_a, cpu_r_nw, cpu_d, din) ==
  \/ Trigger(cpu_a, cpu_r_nw, cpu_d)
  \/ Ready(cpu_a, cpu_r_nw)
  \/ Lookup
  \/ Latch(din)
  \/ Store
  \/ Cooldown(cpu_r_nw)
================================================================================
