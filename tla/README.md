# fpga_nes in TLA+

A verification development of `fpga_nes`, a Nintendo Entertainment System in
Verilog (`src/hw/src`) with a debugger program for the PC (`src/sw/src`).
The modules here are translated from that source, checked with TLC on small
instances, and, for eight of them (the FIFO, the debugger alone and on its serial
line, the console's bus, the CPU, the port to video memory, the joypads and the sound
channels), proved with TLAPS for every value of their constants.

1. [The system](#1-the-system): components, state, interactions, what is hard
2. [The modules](#2-the-modules): which module models which code
3. [Reading the models](#3-reading-the-models): clocks, edges, abstractions
4. [The runs](#4-the-runs): questions, bounds, results
5. [Fairness](#5-fairness)
6. [Where the code and its comments disagree](#6-where-the-code-and-its-comments-disagree)
7. [The proofs](#7-the-proofs)
8. [What is not modelled, and the plan](#8-what-is-not-modelled-and-the-plan)

## 1. The system

Everything in the FPGA runs on one clock of 100 MHz; all concurrency is that of
registers which change together on its edge.  The hard part is not parallelism
as such but *who has looked at what when*: memories that answer one clock late,
registers that stand between a decision and its effect, buses with three
masters, and components that act on edges of signals which somebody else moves.

```
 PC: NesDbg                      FPGA (nes_top.v)
 scripts, LoadRom                                     +-------------------+
      | packets       +------+  bytes  +-----+  bus   |  CPU   sprite DMA |
 SerialComm ----wire--| UART |---------| HCI |---+----|  joypads   APU    |
                      |2 FIFO|         +-----+   |    +-------------------+
                      +------+           |  active (CPU not ready)
                                         |       |
                                         +-------+---- RAM, cartridge PRG
                                         |       +---- PPU registers
                                         +------------ PPU: counters, sprites,
                                                       palette, VGA --- VRAM, CHR
```

| component | source | state | operations | what makes it correct |
|---|---|---|---|---|
| FIFO | `cmn/fifo/fifo.v` | two pointers, two flags, slots | read, write, both on one clock, reset | it is a queue; nothing is dropped or invented |
| UART | `cmn/uart/*` | baud divider, two FIFOs, receiver, transmitter, parity latch | receive a bit/byte, send a bit/byte | every byte once and in order; no FIFO overflows |
| HCI, the debugger | `hci/hci.v` | state, byte and work counters, address, error code, cartridge configuration, send request | 13 packets, break by the CPU | every packet is obeyed as documented and ends; the stream of bytes never gets out of step |
| host: line | `dbgpacket.cpp`, `serialcomm.cpp` | the port, what it waits for | open with an echo, send a packet, receive an answer or give up after 5 s, close | an answer is the one to the packet just sent |
| host: program | `main.cpp`, `nesdbg.cpp` | nested calls and message loops | start, raw debugger, load a ROM, close, be killed | a console that listens is found; a ROM that was sent runs |
| host: scripts | `scriptmgr.cpp`, `scriptmgrdlg.cpp` | runs under way, the dialog's tally | functions for Lua, run, tally, end the dialog | its picture of the console is right; runs end and are counted |
| console bus | `nes_top.v`, `cpu/rp2a03.v` | the memories' registered addresses | give the bus to debugger, DMA or CPU | the reader gets the byte at *its* address |
| CPU | `cpu/cpu.v` | registers, internal buses, cycle of the instruction, clock phase, ready delay, interrupt latches | bus cycles, interrupts, HLT, debugger access | it executes the instruction set, stands still when it is not ready and loses nothing |
| sprite DMA | `cpu/sprdma.v` | state, address, clock of a byte, byte | trigger, copy, cool down | one copy for each write of 0x4014, all of the page, and it ends |
| PPU registers | `ppu/ppu_ri.v` | scroll latches, toggle, read buffer, control bits, vertical blank | reads and writes of 0x2000-0x2007, on the edge of the address range | each CPU cycle is one access; latches and toggle are what programs rely on |
| PPU background | `ppu/ppu_bg.v` | five counters, fetched tile, shift registers | step, load, fetch, shift | the picture is the scrolled playfield |
| PPU sprites | `ppu/ppu_spr.v` | sprite RAM, the next line's eight, their pixels | evaluate, fetch, shift | the first eight in range, their rows, priority, flags |
| video memory | `ppu/ppu.v`, `vram.v`, `cart/cart.v` | palette, name tables, patterns | read, write, mirror | addresses reach the cell they name |
| picture timing | `ppu/ppu_vga.v`, `vga_sync.v` | position, vertical blank | next pixel | coordinates, blank and pixel pulse agree |
| joypads | `cpu/jp.v` | scan counter, two scanned and two read registers, strobe | scan, strobe, read | a strobe takes one scan; each read gives the next button |
| APU | `cpu/apu/*` | dividers, envelopes, sweeps, length counters, sequence | register writes, frame pulses | the sequence of pulses and who wins when two fall on one clock |

How they interact.  The host sends bytes and waits for answers whose length it
knows; there is no framing, acknowledgement or checksum.  The host's one thread
serves its windows wherever it waits for the user, so that its functions are
called from inside each other.  The debugger stops
the CPU by taking the bus (`active`), and every one of its reads and writes goes
over the CPU's or the PPU's own bus.  The DMA takes the bus from the CPU in the
same way, but does not look at the debugger.  The PPU listens to the CPU's bus
and executes an access when its address range is *entered*.

The behaviours that are hard here, with their lines, are the `hazards` of
`PROJECT.json`: simultaneous accesses of one FIFO, registered requests and stale
flags, late memories, edges that come twice or not at all when the bus changes
hands, breaks at any clock of any cycle, instructions that overlap and interrupts
that come between them, counters at zero and at their ends, packets that nobody
answers, programs that end in the middle of one, and message boxes behind which
the user goes on.

## 2. The modules

| module | models | state and actions |
|---|---|---|
| `ByteQueue` | what `fifo.v` promises | `queue`: entries and the two flags; `Clock`, `Reset`. `Clocked` is the function other modules step their FIFOs with |
| `Fifo` | `fifo.v` as written | the registers of the code under their names; `Clock(rd_en, wr_en, wr_data)`, `Reset`. Refines `ByteQueue` (`ImplementsByteQueue`) |
| `Hci` | `hci.v` and the FIFOs and parity latch of `uart.v` | the registers under their names; one action for each state of `case (q_state)` (the identical memory reads and writes of the two buses share theirs), `Wait` where a state has no byte to work on. Free inputs: break, received byte, sent byte, what is read |
| `HciLink` | the debugger on its line: `Hci`, the UART's timing, memories, CPU registers, `dbgpacket.cpp`, the host's side of `serialcomm.cpp` | `Clock` steps everything in the FPGA together, `HostSend(p)` sends a packet. The host keeps an image of what it has written |
| `DbgPackets` | `dbgpacket.cpp`, `dbgpacket.h` | operators: each packet's bytes and the length of its answer; the raw debugger's parser |
| `Console` | `hci.v` as the host sees it | one packet at a time, byte by byte, without clocks or FIFOs: `Consume`, `AnswerByte`, `CpuHalts`, `CpuEnablesPpu`, `ResetButton` |
| `HciConsole` | | the refinement: `HciLink` implements `Console` |
| `Windows` | the Win32 calls that the host makes (external) | `stack`: the calls under way, message loops within message loops; boxes, dialogs, closing |
| `SerialComm` | `serialcomm.cpp` | `SendData`, `ReceiveData`, `OpenPort`, `ClosePort`; history of what an observer of the packets knows |
| `NesDbg` | `main.cpp`, `nesdbg.cpp` | start and end, the echo on connection, raw debugger, `LoadRom` packet by packet |
| `ScriptMgr` | `scriptmgr.cpp`, `scriptmgrdlg.cpp` | the script dialog, its runs and tally, and each function a script may call |
| `Host` | | `NesDbg` and `ScriptMgr` on `Console`, with users, kills and resets |
| `SprDma` | `sprdma.v` | one action for each branch of its `always` block |
| `PpuRi` | `ppu_ri.v` | the registers as fields of one record, `Clocked` gives the next one |
| `NesBus` | `nes_top.v`, `rp2a03.v` and the CPU's ready, phase and break logic, with `Hci`, `SprDma`, `PpuRi` and sprite RAM | `Clock` steps them all, `HostSend(p)` lets the host send. A CPU instruction is the sequence of its bus cycles |
| `CpuDecode` | the opcodes, the timing generation and the decoding of `cpu.v` | `Instruction`: each opcode's operation and addressing mode, the other bytes being no operations; `d_t`: the next cycle of an instruction; `Controls`: the control lines of a cycle |
| `CpuBytes`, `CpuData` | buses, adder, registers of `cpu.v` | what the control lines do on either phase of the clock |
| `Cpu` | `cpu.v` clock by clock, with memory of its own | `Clock` (latch, sample, or neither), `Hold` (not ready, with the debugger's writes), `Fall` and `Rise` of /NMI and /RESET. Refines `CpuIsa` (`ImplementsIsa`) |
| `CpuIsa` | the instruction set | registers, flags and memory as a program sees them; an instruction or an interrupt is a step |
| `PpuBg` | the counters of `ppu_bg.v` | operators on a record of the five counters |
| `VideoMemory` | `cart.v`'s, `vram.v`'s and `ppu.v`'s addresses | operators; contents are constants |
| `VideoPort` | what a program may believe of 0x2000, 0x2002, 0x2005-0x2007 | the two addresses `t` and `v`, `x`, `w` and the read buffer, one action for each access |
| `PpuPort` | CPU cycles on `PpuRi`, `PpuBg` and the late memories | `Start(access)` and `Clock`. Refines `VideoPort` (`ImplementsVideoPort`) |
| `PpuVga` | `ppu_vga.v`'s and `vga_sync.v`'s coordinates and blank | position on the VGA screen; `NextPixel` |
| `PpuTiles` | fetches and shift registers of `ppu_bg.v` | a record of fetched bytes and shift registers; `TileAfterPixel` |
| `PpuSpr` | `ppu_spr.v` | sprite RAM, the two lists of the next line's sprites and the shift registers; `SprPixel` |
| `PpuPicture` | `ppu.v`: all of the above together, pixel by pixel, with register accesses | `Pixel`; the playfield and the sprites as functions of position, latches and sprite RAM are its reference |
| `ApuChannels` | divider, envelope, length counter, sweep, frame counter, `apu_pulse.v`, `apu_triangle.v`, `apu_noise.v` | operators on records of registers, one for each block and each channel; `PulseNext`, `TriangleNext`, `NoiseNext` |
| `Apu` | `apu.v` under a program's writes | one channel with the frame counter; `Clock(held)`, `Write(w)` |
| `Joypads` | `jp.v` between two joypads and a program | `Clock(held)`, `Access(acc)`, `Move(p, b)` |
| `FifoProofs`, `HciProofs`, `LinkProofs`, `BusProofs`, `CpuProofs`, `JoypadProofs`, `ApuProofs`, `PortProofs` | | theorems about `Fifo`, `Hci`, `HciLink`, `NesBus`, `Cpu`, `Joypads`, `Apu` and `PpuPort` |
| `MCHciLink`, `MCHost`, `MCNesBus`, `MCCpu`, `MCPpuPort`, `MCPpuPicture`, `MCApu` | | packets, files, programs and scenes for TLC |

`map` in `PROJECT.json` gives the lines behind every definition.  Definitions
with a suffix (`Store_NoCooldown`) are deliberately faulty variants of the one
they precede; no specification uses them.  They document, one for each property
of each run, a plausible mistake that the property would reveal.

## 3. Reading the models

*A step is a clock edge.*  `q_x' = ...` is the value the code assigns to `d_x`.
Combinational outputs are operators over the current state.  Registers keep the
code's names, except that `PpuRi` has them as fields of `ri`.

*Late memories.*  A block RAM registers its address (`block_ram.v`); `last_a` is
that register, and a byte read is the one at `last_a`.  Which memory is heard
depends on the address of now (`nes_top.v`, `cart.v`).

*Widths.*  `Base` is the number of values of a byte; counters and addresses
wrap at their width.  `HciLink` runs with bytes of four bits, `NesBus` and
`PpuPort` with eight.

*What was abstracted, and why it does not matter to what is checked:*

- The serial line delivers bytes whole and intact.  The receiver reports a byte
  one clock after a tick of the baud divider, the transmitter too; distances of
  bytes are in ticks.  The divider counts 162 clocks in the code and 12 in the
  run: what matters is that the debugger is done with its own accesses before
  the next tick, for which 12 is just enough with FIFOs of four
  (`LinkAssumption`).
- In `HciLink` the host's baud rate is never higher than the FPGA's, as is the
  case for 38400 baud against 100 MHz / 162 / 16 = 38580.  This is what keeps
  ECHO from overflowing the transmit FIFO.
- In `HciLink` a CPU that runs writes no memory the host compares; in `NesBus`
  memory is not written at all and `Cell(a)` is the byte at `a`.
- In `NesBus` a CPU cycle lasts 4 clocks (56), data are taken on clock 2 (28),
  and a page is 4 bytes (256): a break can still come at any clock of any
  cycle, before, on and after the one that counts.  PC writes by the debugger,
  which restart the cycle, and interrupts are `Cpu`'s subject, which has memory
  to itself and no bus to share.
- A host byte arrives when the debugger has taken the last; answers leave at
  once.  The timing of the line is `HciLink`'s subject.
- `PpuPort` keeps the picture off: nobody else moves the address.  `PpuPicture`
  has the picture on and no accesses of 0x2007.  Its step is a pixel, of eight
  clocks in the code: its last clock, on which counters and shift registers
  move, or one before, on which a register access falls.
- In `PpuPicture` the screen is 16 x 3 pixels with nine VGA lines, there are
  four sprites of two rows and two of them fit on a line, where the code has
  256 x 240, 521, 64, eight or sixteen, and eight.  Fetching takes the same
  columns after the line as in the code, scaled.  Name table rows of 30 and 31,
  which are attributes, are exempt from `ShowsPlayfield`.
- The sound channels have nothing in common but the frame counter and the
  program: `Apu` looks at one of them at a time, any of them.  A flag that the
  code keeps twice (halt of the length counter, loop of the envelope) is one.
- APU and joypads are wired to the CPU's own address (`rp2a03.v`, `cpu_a`), not
  to the bus: a debug break leaves a held access standing on their inputs
  instead of taking it away, so `held` may lengthen an access but not repeat it.
- An access of the joypads lasts a CPU cycle, and may follow another one directly,
  on the other address or on the same: indexed stores and read-modify-writes of
  cpu.v put out one address in consecutive cycles.  jp.v sees one access in them,
  the first, and `granted` and `reads` count as it does.
- A joypad answers a clock after it was asked.  What is on its line before is
  never looked at, because the next slot takes it in.

*The host.*  `Host` puts the program on `Console`, whose bytes are whole; that the
debugger with its clocks and FIFOs is such a console is checked separately
(`ImplementsConsole`).

- A call is a record on `stack`; a function that shows a box or a dialog, or waits
  for an answer, stays there while the loop inside serves other windows.  Which
  windows still take input follows from who owns a box: the dialogs have the
  main window for their owner, message boxes and the file dialog have none.
- Users and scripts are assumed to send only what the console will listen to
  (`Heeded`): after `DbgRun` nothing but a break or a query.  The code does not
  enforce it, but the whole protocol rests on it, and `AnswersBelong` and `InStep`
  say that it is enough.  They say nothing of packets that are sent too early.
  `LoadRom` and the connecting echo are not bound by it.
- The timeout of 5 s is longer than anything the console has under way: a read
  returns short only when nothing more will come (`MayReceive`).  It does happen,
  after the console has been reset or when it was lost before.
- The program may be a release build, in which `assert` evaluates its expression and
  nothing else (`util.h:60`), or a debug build, which stops at an assertion that
  fails: where `assert(m_hWndDlg)` does (`AssertionFails`), it goes on or ends (`Killed`).
  `print` and calls with wrong arguments write text only.
- A reset of the console is looked at while nothing is on the line.  It is not
  part of `ConsoleSpec`: `HciLink` starts from reset and is not reset again.
- `MaxDepth` bounds the calls under way when the user starts another, `MaxLine`
  the bytes in the serial driver, `MaxCount` the bytes that a packet may move;
  the latter cuts only what a console that has lost step takes for a count.

*The CPU.*

- A bus cycle has 3 clocks (56): the latch on phase 0, one on which nothing
  happens, and the sample on phase 2 (28).  Nothing else looks at the phase.
- The CPU may be found not ready on any phase but 0 (`HoldPhases`).  The sprite
  DMA never stops it there; the debugger can, see section 6.
- /IRQ is tied to 1 (`rp2a03.v:146`) and left out; HLT is a no-operation that
  lasts until it is resumed, as `NesBus` has the break it asks for.
- The debugger writes both halves of PC or none before the CPU goes on, and other
  registers during a HLT or after PC, as the host does.
- `CpuDecode` was compared with the case statements of `cpu.v` opcode by opcode
  and cycle by cycle: timing and control lines are those of the code.

## 4. The runs

| run | question | instance | distinct states |
|---|---|---|---|
| `fifo_ring` | is the ring a queue, whatever both sides do? | 2 values, 4 slots | all |
| `link` | do packets of any kind, order and length do what they say, with the CPU breaking at any clock? | 2 cells of each memory, blocks of 0, 2 and 6 bytes, ECHO, registers, configuration, queries, an unknown opcode, FIFOs of 4, data that look like opcodes | 1.8 million |
| `bus_break` | does a program get its reads, copies and HLTs when the host breaks in at any clock, again and again? | loads, copies by STA and by INC, HLT | 0.6 million |
| `bus_session` | does a debugging session leave PPU and CPU as it should? | PPU registers, pushes, HLT; both memories read and written, PPU_DISABLE, in any order | 0.5 million |
| `port` | do 0x2000, 0x2002 and 0x2005-0x2007 in any order reach the right place and the right cell? | scroll positions, addresses around 0x21ff and 0x3f21, steps of 1 and 32, reads and writes, palette and mirroring, a register that does not answer | 3.9 million |
| `picture` | is the picture the one the registers ask for? | frames of six scenes, two accesses on any clocks | 2.4 million |
| `sound` | do notes, envelopes and sweeps go their way? | six scenes of the four channels, two writes on any clocks, the CPU held in one | 1.5 million |
| `joypads` | do reads give the buttons? | 3 buttons in slots of 4 clocks, two moves, any accesses, in consecutive cycles too | 4.2 million |
| `host_scripts` | do runs of scripts end and add up, whatever the user does behind their boxes, and is the console found again? | runs of up to two scripts that start and stop the console, wait for it, read and write a register, and meet the box of a `.prg` file that cannot be opened; nested runs, the dialog ended and opened again, kills anywhere, a second start, resets | 0.4 million |
| `host_rom` | do scripts, the raw debugger and ROM files share one line without taking each other's answers, and does a ROM run? | three files (a bank of each kind, cut short; no banks; refused with two boxes), three texts of the raw debugger, scripts with reads, writes, registers and `.prg` files, up to 4 bytes waiting on the line, resets | 1.6 million |
| `cpu` | do the cycles of `cpu.v` execute the instruction set? | every byte as an opcode, operands and registers at their edges, stack and branches across pages, interrupts on any clock, debugger | 0.4 million |
| `bus_indexed` | see section 6 | | |

What they show, property by property:

- **`ImplementsByteQueue`**: clock for clock the ring with its flags is the
  abstract queue.  **`FlagsMatchPointers`**: the flags hide at most one entry or
  slot, so that no accepted access under- or overflows.  **`NeverWedged`**: both flags are never set together with more than
  two slots.  With two slots they can be: the parameter `ADDR_BITS` of `fifo.v`
  is safe only because it is larger than 1 wherever it is used.
- **`AnswersMatch`**: the bytes the host gets are those its packet asked for,
  in their places.  **`ImplementsConsole`**: every byte of the line is obeyed once
  and in order, lands in memories, registers and configuration, and is answered,
  as the `Console` of the host runs has it, although bytes wait in FIFOs, reads
  count two clocks for a byte and breaks come in between.  **`StopBelieved`**: a console the host thinks stopped is stopped.
- **`BuffersKeepUp`, `FlagsHonest`**: neither FIFO meets a write when full, and
  the simultaneous access that makes its flags stale does not happen.
- **`GuardedSendsAccepted`**: the debugger looks at `tx_full`
  only when no request of its own is on the way, so that no byte of an answer
  is dropped, whatever the transmitter does.
- **`EveryPacketCompletes`**: no packet hangs half-way.
- **`CpuReadsOwnAddress`**: when the CPU takes data, memory looks at the CPU's
  address although debugger or DMA had the bus until just now.
- **`OneCopyPerWrite`, `DmaCopiesPage`**: a write of 0x4014 starts one copy, for
  an instruction that writes after two reads as well, broken into or not; a
  copy of memory that the debugger does not interrupt has put the page into
  sprite RAM, around its end, when it is over.
- **`HltBreaksOnce`**: a HLT stops the CPU exactly once, when resumed too.
- **`PpuObeysOnce`**: a register cycle the debugger does not break into is one
  access.
- **`PpuDisableTakesEffect`**: whatever was on the bus before, PPU_DISABLE leaves
  the picture off and the toggle reset.
- **`CpuProceeds`**: while the debugger stays out the CPU's cycles keep ending.
- **`ImplementsVideoPort`**: the latches, counters, read buffer and palette are
  the two-address port that programs are written for.
- **`ShowsPlayfield`**: the background pixel is the one at the scrolled position,
  through tiles fetched up to a line ahead, lines made twice for the VGA screen
  and counters that are stepped and reloaded.  Lines on which the program wrote
  are exempt, the lines after them are not.
- **`ShowsSprites`**: the sprite pixel is that of the first sprite among the
  first that fit on its line, in front or behind, with sprite RAM written
  meanwhile.  **`OverflowTells`**: the overflow bit is set by a line with more sprites
  than fit, kept for the rest of the frame, and not set unless a line has filled
  all places.  A line with exactly as many as fit is left open, since code and
  comment differ on it (section 6).  **`HitTells`**: a meeting of sprite 0 and the
  background on the screen is never missed, and nothing else is taken for one but
  what happens beyond the right edge: sprite 0's own hidden columns, or another
  sprite that is still shown there when sprite 0 takes its place (section 6).
- **`BlankWithoutFetches`, `BlankToldOnce`**: from the vertical blank bit on, no
  fetch touches the address until the picture begins; a program that polls is
  told of each blank at most once.
- **`QuartersAlternate`**: quarter and half frames alternate in both modes, from
  the write of a mode on, wherever the sequence was.
- **`EnvelopeDecays`**: from a restart on the volume falls step by step on the
  quarter frames its period says.  **`SweepGoesOneWay`**: a sweep does not wrap
  around at either end of the periods.  **`NoiseNeverDies`**: the shift register
  never becomes zero.  **`NoClicks`**: the triangle goes on where it stopped.
  **`NotesEnd`**: a note that is not held ends by itself.
- **`ReadsGiveButtons`**: after a strobe the reads give the buttons in their
  order, each as it was in one of the last two scans, and then ones; a read of the
  same address in the next cycle gives the same button again.

- **`AnswersBelong`**: callers of `ReceiveData` ignore its result; they may, because
  as long as the console was not lost every read returns in full, with the answer
  to the packet before it, although scripts, the raw debugger and `LoadRom` share the
  line and several unacknowledged writes may wait on it.  **`InStep`**: when nothing is under way, host and
  console agree on where the console is, and no answer is left over.
- **`WaitEndsHalted`**: `WaitForHlt` lets its script go on only when the console has
  stopped.  **`RunsEnd`**: a run of scripts comes to its end, whatever the user does
  behind its boxes; where its dialog has been ended, with its loop in a release
  build, or at the assertion in a debug build.  **`TallyAddsUp`**: the dialog then
  shows each script of the last run counted once, and none of another run, after
  runs inside runs too.
- **`RefusalMeansLost`**: a console between two packets, with nothing on the line, is
  always found; only one that was running, or was cut off, is refused.  That it is
  found by its own answer is not claimed (section 6).
  **`RomRuns`**: a ROM that has been sent ends up in both memories, with
  configuration, reset vector and PPU as it needs them, and runs, although
  `LoadRom` never asks.
- **`ImplementsIsa`**: from the beginning of an instruction to that of the next, the
  program sees exactly that instruction, although the last cycle of the one
  overlaps the first of the other, results are latched a cycle late and indexed
  addresses are put out before their carry is known; an interrupt comes between
  two instructions, once for each edge, and pushes the address of the instruction
  it displaces.  **`StoresFollowReads`**: in every instruction a store to an address
  of the program's choice comes after a read, which is what brings `sprdma.v` out
  of its cool-down and what `NesBus` assumes of its programs.

Three of these are refinements, each with its mapping next to it.  `Fifo` maps
its ring to the sequence of entries.  `HciLink` maps the FIFOs, the UART's
registers and the request under way to the bytes of `Console`'s line and answers,
the registers of the debugger's state machine to a packet's header and count
(PPU_DISABLE is seen as over when it begins, QUERY_ERR_CODE as still on the line
until it is answered), and the wrap of its small memories to `Console`'s cells;
it has no fairness, as `EveryPacketCompletes` says the rest.  `Cpu` maps its
interrupt latches to what `CpuIsa` owes, and keeps the program's view of its
registers in two history variables that it sets where an instruction begins.
`PpuPort` refines `VideoPort` in the same way, access by access.

The bounds.  A FIFO of four slots has every distance of its pointers including
the wrap; blocks of six bytes are longer than FIFOs of four; two cells and
addresses 1 and 3 wrap around; the bus runs allow one packet in flight and any
number of packets one after the other, and let a break fall on each clock of
each cycle.  `MaxRun` bounds the accesses of 0x2007 after an address; the
addresses were chosen so that the carries, the mirroring and the palette's edge
are within two accesses.  `MaxAccesses` = 2 register accesses in `picture` make
one change and one change back, or an address and an access, or two reads of
0x2002, in any two places; frames go on for ever.  A line of two tiles has a
first tile (fetched on the line before), a last one, and the fine scroll between
them; two sprites of four fit on a line, so that there are a third and a fourth
to be left out.  In `sound` the marks of the sequence are 1, 2, 4, 5 and 7 APU
cycles and keep their order and their parity of half frames; periods have three
bits in two registers, of which a sweep can leave the range within two steps;
`MaxWrites` = 2 is one write under which another falls, or a mode and a note.
In `joypads` reads go on past the last button, and strobes fall on any clock of
a scan; `MaxMoves` = 2 presses and releases a button, or two of them.
In the host runs blocks have 2 bytes (1 KB) and banks two or one of them, so that
a ROM has several packets of each kind, the last one with the reset vector; data
bytes are opcodes, so that a console out of step does something.  In `host_scripts`
`MaxDepth` = 6 lets a run start inside a run behind a box of the first, and
`MaxScripts` = 2 has the loop go on to another script after such a run, or after its
dialog is gone; `MaxStarts` = 1 is one start after the session at hand has ended or
been killed.  `host_rom` has all three menus, `MaxLine` = 4 bytes on the line, so that packets wait behind one another and behind the rest of a longer one, and
`MaxDepth` = 3 for a script of a run; the program is started once and not killed.
A script's data do not matter to runs and tallies, nor boxes within boxes to the
line, so that each run leaves out what the other is about.
In `cpu` a scene is a few bytes of program with everything around it filled
with `JMP` to itself; addressing scenes take all 256 opcodes with operands that
cross, meet and miss page ends, arithmetic ones all operations without an address
on five values for each operand and both carries.  Interrupt scenes hold one fall
of /NMI, or one each of /NMI and /RESET, on any clock of instructions that fetch
ahead and that do not, of BRK, and of branches taken, not taken and to another
page.

## 5. Fairness

The clock never stops: in `HciLink`, `NesBus` and `Apu` the weak fairness of
`Clock` is the only fairness assumed, the one of an oscillator.  Nothing is
assumed of the host, who may stop sending for ever, of the CPU, who may never
break, nor of a program, which need not write anything.  `CpuProceeds` is
conditional on the debugger staying out, `NotesEnd` on a program that leaves the
note alone and does not hold it (a held CPU may stand in a write for ever).

In `Host` the program's thread and the console go on (`Going`): a thread that the
system runs, and the debugger's clock.  That suffices for `RomRuns`.  For
`RunsEnd`, `ScriptsSpec` adds that a program on the console comes to its HLT (weak:
it runs until then), and that a script calls only finitely many functions and
that boxes and the dialog are closed at some time (strong, since another box or
call may come in between each time): without them a run waits for a user or a
program for ever, as the code does.  The main window may be closed for good, so
`host_scripts` does not check for deadlock.

The other specifications have safety properties only and state no fairness.

## 6. Where the code and its comments disagree

One run ends in a counterexample; its property is a sentence of a comment.

- **`bus_indexed`**: `nes_top.v` has the PPU "snoop the CPU address bus for
  register reads/writes".  An indexed store reads its target first; the range
  is entered by the read, and the write is never seen.

What follows came up while modelling.  The models do as the code does, or leave
the case out where that is said; no run is about it.

- `hci.v:575` puts address 0 between the registers of PPU_DISABLE because the PPU
  only sees its range being entered, but not before the first one, "Write 0x2000
  to 0." (`hci.v:581`).  After a packet that left an address in 0x2000-0x3FFF on
  the bus, 0x2000 keeps its value, and vertical blank interrupts stay on.
  `PpuDisableTakesEffect` is about the two others.
- `ppu_ri.v:216-218` evaluates on the edge to "prevent executing the same command
  multiple times".  A break in the middle of a register cycle moves the bus away
  and back, and the command is executed twice: `PpuObeysOnce` is about cycles that
  are not broken into.
- `ppu_ri.v:192-194` takes the byte of a 0x2007 read when the address has already
  been stepped: across 0x1FFF/0x2000 or 0x3FFF/0x0000 the read buffer is filled
  from the other memory.  `port` has no such access (`MayCross`).
- A stop of the debugger that falls exactly on clock phase 0 of the last cycle of
  an instruction leaves the interrupt latches running while the CPU stands
  (`cpu.v:404`).  If /NMI falls then, the next clock begins an interrupt although
  PC has already moved past the opcode (`cpu.v:724-727`, `2162`): on return an
  opcode is left out.  On phase 0 of the cycle in which an NMI is answered
  (`clear_nmi`, `cpu.v:419`) each further edge during such a stop is lost.
  `HoldPhases` leaves phase 0 out.
- `Done` clears the script dialog's handle while a script waits behind a box of
  `LoadAsm`.  When it goes on, `assert(m_hWndDlg)` fails where the progress or the
  output is written (`scriptmgrdlg.cpp:211`, `278`): a debug build stops, a release
  build passes over it.  The model has both.
- `SerialComm` opens the port while bytes of the program before it may still be on
  their way.  A program that is killed just after it has sent its echo leaves an
  answer that the next one takes for the answer to its own; that one's answer is
  then read for the next packet.  `RefusalMeansLost` is about refusals only.
- `jp.v:152` has "Only update internal state one time per read/write", and takes an
  address that does not change for one access.  Two accesses of 0x4016 in
  consecutive cycles are two for a program, and one here: a strobe by STA $4016,X
  or INC $4016 is lost behind the instruction's own read.
- LDX with ABS,Y and LDY with ABS,X always take the cycle that other reads save
  when the index stays on its page.  The debugger has no register number for S.
- `fifo.v` calls `empty` "FIFO is empty (reads invalid)".  A write on the clock
  that reads the only entry leaves an entry and `empty` set; it cannot be read
  until the next write.  In this system the two sides never meet
  (`FlagsHonest`).
- `ppu_spr.v` calls the overflow flag "more than 8 sprites on one scanline" (line 45);
  it is set with the eighth (lines 168-173).  `OverflowTells` leaves a line with
  exactly eight open.
- `ppu_spr.v` says of `primary_out` "final sprite is the primary object (sprite 0)"
  (line 48).  It is read from the buffer, whose first entry is overwritten for the next
  line in columns 260 and 261 while a sprite with X of 253 or more is still shifted out:
  if sprite 0 is the first of the next line and the background is opaque there, the
  sprite 0 bit is set by another sprite.  Scene `Edge` of `picture` has it.
- `apu_triangle.v` describes its output `active_out` as "length counter > 0"; it
  is off as well when the linear counter is at zero.
- `apu_envelope_generator.v` says of a restart that "the divider's period is
  immediately reloaded"; the divider is left alone, and the first step of a
  decay may come early (the one step of tolerance in `EnvelopeDecays`).

## 7. The proofs

| theorem | statement |
|---|---|
| `FifoProofs!TypeCorrect` | `Spec => []TypeOK` (proved only, no run repeats it) |
| `FifoProofs!FlagsCorrect` | `Spec => []FlagsMatchPointers` |
| `FifoProofs!NotWedged` | `Depth > 2 => (Spec => []NeverWedged)` |
| `FifoProofs!RingImplementsQueue` | `Spec => ImplementsByteQueue` |
| `FifoProofs!FlagsBracket` | `Spec => []FlagsBracketEntries` |
| `HciProofs!TypeCorrect` | `Spec => []TypeOK` |
| `HciProofs!NoneUnderWay` | `Spec => []NoRequestUnderWay` |
| `HciProofs!GuardedSends` | `Spec => GuardedSendsAccepted` |
| `LinkProofs!LinkInductive` | `LinkSpec => []LinkInv`, the inductive invariant of the link |
| `LinkProofs!LinkAnswersMatch` | `LinkSpec => []AnswersMatch` |
| `LinkProofs!LinkBuffersKeepUp` | `LinkSpec => []BuffersKeepUp` |
| `LinkProofs!LinkFlagsHonest` | `LinkSpec => []FlagsHonest` |
| `LinkProofs!LinkStopBelieved` | `LinkSpec => []StopBelieved` |
| `LinkProofs!LinkImageTrue` | `LinkSpec => []ImageTrue` (proved only; `ImageTrue` is stated next to it) |
| `BusProofs!OwnAddress` | `BusSpec => []CpuReadsOwnAddress` |
| `BusProofs!BreaksOnce` | `BusSpec => []HltBreaksOnce` |
| `BusProofs!CopiesOnce` | `BusSpec => []OneCopyPerWrite` |
| `BusProofs!PageCopied` | `BusSpec => DmaCopiesPage` |
| `BusProofs!ObeyedOnce` | `PpuApart` implies `BusSpec => []PpuObeysOnce` |
| `BusProofs!DisableTakesEffect` | `BusSpec => PpuDisableTakesEffect` |
| `CpuProofs!TypeCorrect` | `Spec => []TypeOK` (proved only) |
| `CpuProofs!StoresAfterReads` | `Spec => StoresFollowReads` |
| `JoypadProofs!ButtonsRead` | `Spec => []ReadsGiveButtons` |
| `ApuProofs!Alternates` | `Spec => []QuartersAlternate` |
| `ApuProofs!TriangleGlides` | `Spec => NoClicks` |
| `ApuProofs!EnvelopeFalls` | `Spec => []EnvelopeDecays` |
| `ApuProofs!SweepsOneWay` | `Spec => SweepGoesOneWay` |
| `ApuProofs!NoiseGoesOn` | `Spec => []NoiseNeverDies` |
| `PortProofs!PortImplementsVideoPort` | `~MayCross` implies `Spec => ImplementsVideoPort` |

*Assumptions.*  `Fifo`: `Depth` is a natural number of at least 2, there is a
value.  Nothing needs `Depth` to be a power of two: pointers wrap at `Depth`.
`Hci`: bytes have at least sixteen values (opcodes and register numbers are
bytes), FIFOs at least two slots, and the registers that PPU_DISABLE writes are
addresses of two bytes.  `HciLink`: `LinkAssumption` says that the divider counts
more than eight clocks, the length of PPU_DISABLE, and at least two for each slot
of the transmit FIFO and four more (162 against 20 in the code, with FIFOs of
eight), that consecutive bytes of the host are no closer than a byte of the
transmitter is long, and that the number of values of a byte is a multiple of
sixteen, since half of the flags of register P are kept when it is written;
`PacketsAssumption` says what a packet of each opcode carries: bytes, counts and
addresses of two bytes, blocks that do not run over the end of the memory they are
in (CPU memory ends below the PPU's registers here), and a configuration of five
bytes.  Memories have any size and are mirrored; the set of packets, their order
and their data are arbitrary.  `NesBus`: the CPU samples on a phase after the first,
before the last; a byte has at most 256 values, since `PpuRi` has eight bits; the
PPU's registers begin at a multiple of eight, below 0x4014; and
`InstructionsAssumption`: an instruction begins with a read, and a write of 0x4014
comes after one.  That cpu.v has no other instructions is what `StoresAfterReads`
proves.  `ObeyedOnce` has one hypothesis more, `PpuApart`: no instruction has two
cycles on PPU registers one after the other, and none is fetched from there.  The
indexed stores do have such cycles, and for them the statement is false: that is
the finding of `bus_indexed`.  `Cpu`: the CPU samples on a phase after the
first two, before the next cycle, and what is in memory and registers at the
start are bytes (`ScenesAssumption`).  `Joypads`: at least two buttons, slots of an even number of
clocks, at least four, and a CPU cycle of at least two clocks.  `Apu`: the sequence's marks ascend, writes
are of its registers, and the channels begin with registers in their ranges, the
shift register of the noise channel not at 0 (its reset value is 1).  A period's
lower register holds one to eight bits of it and the upper one none to three; the
shift register has two to sixteen bits and its second tap is one of them above the
lowest.  `PpuPort`: a CPU cycle of at least two clocks, so that a request is served
before the next access, and accesses of bytes to the five registers;
`PortImplementsVideoPort` has the hypothesis `~MayCross`: 0x2007 is not read where the
next address is in another memory, since that read gets a byte of the wrong one
(section 6).

*The ring.*  `TypeOK /\ FlagsMatchPointers` is inductive.  `FlagsMatchPointers` is
weaker than one would write first ("`empty` iff there is nothing") because of
stale flags, and just strong enough: equal pointers mean exactly one flag, and
a set flag means a distance of 0 or 1.  From it, `ContentsStep` computes what a
clock does to the sequence of entries, slot by slot, and `StepImplements` maps
every clock to a clock of `ByteQueue`.  `FlagsBracket` is proved of the queue
and carried over by the refinement.

*The debugger.*  `NoRequestUnderWay` alone is not inductive: it says that where
`tx_full` is about to be believed, `q_wr_en` is off, and this holds because such
a state is entered without a request, or after the dummy clock that the parity
of `q_execute_cnt` marks.  `IInv` therefore joins the types of all registers,
the fact that both FIFOs are bracketed (`Bracketed`, from `ByteQueue`), and
`NoRequestUnderWay`.  Each state of the machine has a lemma; `FsmStep` puts them
together.  `GuardedSends` follows from `IInv` because a request accepted by
`~tx_full` meets a FIFO nobody else writes to.

*The link.*  `LinkInv` has three parts.  The first follows the packet under way:
`OnCourse(h, u, k)` says of a host `h`, the bytes `u` still to be read and the number
`k` of answers given that either the packet is over and the console is as `h`
remembers it (`Idle`), or there is a packet `p` of which `j` bytes have been taken
(`Rest`), the state machine stands where that leaves it (`AtStep`, one disjunct for
each state), and what `h` expects still follows from what the console holds
(`Owes`): a memory that is being written lacks of the image exactly the bytes not
yet taken (`StoredFrom`, `OneWritten`).  Each state of the machine has a lemma that
takes one clock along this course (`FsmCourse` joins them), given nothing but the
byte at the head of `u`.  The second part is about order: the bytes still to be read
are the one just received or those of the FIFO, then the line; the answers are those
at the host, then the transmit FIFO, then the request under way (`Unread`,
`Answered`).  A host that sends a packet without an answer sends the next one at
once, so that the debugger may be at work for the host *before* the packet on the
line (`Queued`); the first byte of that packet arrives a whole number of ticks
later, when the one before is over (`OverWhenAnswered`, `QueueMoves`).  The third
part is time (`Timing`, `Pacing`), counted from the last tick of the divider: a
received byte is taken on the first clock after it was stored, or one later if the
CPU broke on that clock; ECHO answers on the clock after, and its byte has left, or
leaves on this very tick, when the next one comes (`EchoPace`); a memory read has
filled the transmit FIFO before the next tick (`ReadPace`), so that a slot that is
freed on a tick is filled within the next two clocks.  This is what keeps the two
sides of each FIFO apart (`FlagsHonest`), on which everything else rests.  With all
of it inductive, the five properties are read off: `StopBelieved` and `ImageTrue`
because a debugger with nothing to read and no packet under way is `Idle`
(`QuietIsIdle`).

*The bus.*  `OwnAddress` is about a hand-over: the CPU becomes ready a clock after
the others have let go of the bus, and the memories look at its address from that
clock on.  `AddressOK` says so of every phase but the one on which a cycle begins,
where the address is new.  `BreaksOK` and `CopiesOK` tie the two history counters
to the phase and to the DMA's state: a HLT breaks on the first clock of its
cycle, and a DMA that is active or cools down is in the write that started it,
but for the first clock of the cycle after.  This last exception is why the
instructions' reads matter: a write that follows a write of 0x4014 would find the
DMA still cooling down, and be missed.  `CpuOK` carries these facts about
instructions from one cycle to the next.  Breaks of the host come on any clock,
pages have any size, and programs are any sequences of cycles that the
assumption admits.

*The PPU's registers.*  All three theorems turn on /CS, which the register
interface remembers from the clock before (`EdgeStep`).  `ObeyOK` follows a cycle of
the CPU on a register: it has been obeyed and /CS is low, or it is on its first
clock with /CS still high, because the cycle before was elsewhere (`PpuApart`) and
the bus was the CPU's own when it ended; a copy never gets in between, since the
write that starts one is not on a register (`CopyNotOfPpu`).  `DisableOK` follows
PPU_DISABLE through its six clocks: address 0 raises /CS before 0x2001 and 0x2002, and
from 0x2001 on the picture is off.  Nothing is claimed of 0x2000, see section 6.
`CopyOK` says where a copy is: at byte `k`, with `k` bytes in sprite RAM, the sprite RAM
address at the next cell, the memories looking at byte `k` before it is latched,
and /CS high before it is stored, which is why the copied page must be memory and
not registers.  It speaks of clocks on which the debugger is out; what it may have
done on the clock on which it lets go was a read (`RunReads`), so that the copy
begins at the sprite RAM address the program has left (`CopyBegins`).  That this
address is a byte needs the bytes of the host to be bytes on their way through line
and FIFO (`BytesOK`).

*The CPU.*  `TypeOK` is inductive by itself; the work is in the adder, whose sum of
two bytes and a carry must fit nine bits, and in the buses.  For `StoresAfterReads`,
`KindOK` first says which operations come with which addressing modes, for all 256
opcodes, and `WriteCycles` from it the only cycles in which an instruction may
write: one for a store, a read-modify-write or a push, several for BRK and JSR.
`CycleOK` adds that a cycle is never beyond the last of its instruction, and that
where BRK and JSR write, the address bus shows the stack's page: the page is put
there in their first cycle and nothing moves it until the last write
(`StackPage`).  An instruction never stays in a cycle or goes back to one
(`NextCycle`), so that the cycle before the one write does not write, and a cycle
that begins an instruction never does.

*The joypads.*  `ScanInv` is about the scan alone.  `Signals` reads latch, clock and
the clock the joypads saw last off the slot and the clock within it; `Shown` says
that outside the latch a joypad shows the last picture, moved on by `Shifts`; and
`Found` that each found button is of the last picture if its slot has begun since
the latch (`Fresh`), and of the picture before otherwise.  This is why a strobe
between two slots hands over buttons of two scans, and never of a third.
`ReadsOK` is about the program's side: the register of a joypad holds, from its
first bit, what is left of the hand-over, then ones.  An access, if it is the first
of its address, is counted in the
history when it begins and by jp.v a clock later, so that `ReadsOK` speaks of both:
until a read has shifted, the register is one behind (`Shifting`), and until a
strobe has handed over, nothing is claimed of it, but that the scan's last two
pictures are those the strobe was promised (`Granting`).

*The frame counter.*  `QuartersAlternate` depends on what comes next (`expect`) and
where the sequence is (`InStep`).  A write of the mode lasts a CPU cycle and
restarts the sequence on one of its clocks, so that inside a write the invariant
says either that this clock is still to come (`ToRestart`) or that it has been
(`Restarted`); a CPU held in the write restarts the sequence again and again, and
nothing is claimed.

*The channels.*  `TriangleGlides` needs only that its step stays below 32.  For
`EnvelopeFalls`, `EnvOK` says where a decay is: `decay` quarter frames after the
restart the volume has fallen `n` times, with the divider where
`decay + div = first + n * period`, `first` being what the divider held at the
restart; the property follows because `first` and `div` are both below the period,
so that `n` is the quotient or one more (`FallsBetween`).  A restart that finds the
divider above a period made shorter since counts as unknown, for its first step may
be any number of quarter frames.  `SweepsOneWay` is about one clock of a period in
its range: without the complement the target is the period or more, and if it does
not fit, its top bit silences the channel and stops the sweep; with it the target is
the period or less, or below 0, and then its top bit is set too (`SweepStep`).
`NoiseGoesOn` shows that the only value one shift away from 0,
a single bit at the bottom, is fed back at the top in either mode (`ShiftStep`).

*The port to video memory.*  An access is executed on one clock, the first with /CS
low, and the refinement maps that clock to a step of `VideoPort` and every other to a
stutter.  `AccessOK` says when: /CS of the clock before tells that clock from the
rest of the access, and the two requests that outlive it, `upd_cntrs` and `rd_rdy`,
are only up on the clock after.  There the mapping looks through them, to the latches
that are about to be loaded and to the byte about to come, and `QuietClock` shows that
carrying them out changes nothing that is seen.  The byte comes from the memory that is
addressed *after* the counters have stepped, at the address of before: `SameMemory`
holds because the access did not cross.  The rest is arithmetic: `BitsWritten` shows
that five fields filled by the code are one number of fifteen bits with some replaced,
and `SplitJoins` that the counters step like that number, wrapping at 32768.

*What is left to TLC.*  Liveness and `ENABLED` are beyond the prover, so
`EveryPacketCompletes`, `CpuProceeds`, `NotesEnd`, `RunsEnd` and `RomRuns` are
checked only.  What recursive definitions compute for all inputs cannot be proved
either, since the installed provers cannot instantiate induction theorems over
operators; the modules with proofs contain none.  `Host` and `PpuPicture`
have model-checked properties only, and of `HciLink` `EveryPacketCompletes`, which is
liveness, and `ImplementsConsole`: its mapping rests on the configuration bytes and
the cells of `Console`, which `LinkInv` does not follow yet.  That `Cpu`
implements the instruction set is checked, not proved: it is a statement about
each operation's data.

## 8. What is not modelled, and the plan

In this order:

1. **Proofs**: the counters of `PpuBg` (a vertical counter below 30 stays there while
   the picture steps it), that `HciLink` implements `Console` (`ImplementsConsole`),
   the answers of `Host`.
2. **UART bits**: receiver and transmitter against the drift of two clocks
   (`uart_rx.v:126`), as a refinement of `HciLink`'s instants.
3. **Abstract specifications**: the joypads as a snapshot that reads go through,
   the frame counter as an alternation, each refined by its module.
4. **The DMA under a debugger** (`nes_top.v:242`): what a copy that is broken into
   leaves in sprite RAM.  `DmaCopiesPage` is about copies left alone; the others
   are only started once (`OneCopyPerWrite`).

Left out for good: the colour table, the audio mixer and its pulse width
modulator (tables and analogue detail), drawing and fonts of the PC program, the
Lua library, whose code is not here, and with it what a script's result is when
it returns none (`scriptmgr.cpp:131`), `.prg` files of no or one byte, whose
length less two is cut to 65534 or 65535 (`scriptmgr.cpp:482`; longer files than
64 KB are read up to there), pin assignments and build files.
