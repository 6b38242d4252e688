--------------------------------- MODULE NesDbg --------------------------------
(***************************************************************************)
(* The debugger program of sw/src: its start and its end (main.cpp,        *)
(* nesdbg.cpp, SerialComm::Init), the raw debug dialog and the loading of  *)
(* ROM files.                                                              *)
(***************************************************************************)
EXTENDS SerialComm

CONSTANTS
  RawTexts,             \* what the user types into the raw debugger
  Roms,                 \* contents of the ROM files, as sequences of bytes
  BlockSize,            \* bytes sent in one packet: 1 KB in the code
  PrgBank, ChrBank,     \* sizes of the banks: 16 KB and 8 KB
  MaxStarts             \* bound: how often the program is started

ASSUME NesDbgAssumption ==
  /\ BlockSize \in Nat \ {0} /\ PrgBank \in Nat /\ ChrBank \in Nat
  /\ PrgBank >= 4
  /\ PrgBank % BlockSize = 0 /\ ChrBank % BlockSize = 0

VARIABLE starts

(* WinMain gets this far, then returns through the destructors. *)
Ends(text) == stack' = <<Box(text), Frame("Exit")>>

--------------------------------------------------------------------------------
(* Start and end. *)

InitString == <<78, 69, 83, 0>>    \* "NES" and its terminator

Start ==
  /\ stack = <<>> /\ starts < MaxStarts
  /\ stack' = <<Frame("WinMain")>>
  /\ starts' = starts + 1
  /\ quit' = FALSE
  /\ NoTraffic

(* No window, or no font: without the font the program ends silently. *)
WindowFails ==
  /\ At("WinMain")
  /\ \/ \E text \in {"RegisterClassEx failed.", "CreateWindow failed."} : Ends(text)
     \/ Become(Frame("Exit"))
  /\ NoTraffic
  /\ UNCHANGED <<quit, starts>>

PortFails ==
  /\ At("WinMain")
  /\ \/ /\ \E text \in {"\"COM5\" file not found.", "Unknown error initializing COM5"} : Ends(text)
        /\ NoTraffic
     \/ /\ \E call \in {"getting comm state", "setting comm state", "setting timeout state"} :
             Ends("Error " \o call \o " for COM5.")
        /\ OpenPort
  /\ UNCHANGED <<quit, starts>>

PortOpens ==
  /\ At("WinMain")
  /\ Become(Frame("Init"))
  /\ OpenPort
  /\ UNCHANGED <<quit, starts>>

(* Faulty: the terminator is not sent, and so does not come back. *)
SendEcho_WithoutTerminator ==
  /\ At("Init")
  /\ SendData(EchoPacket(SubSeq(InitString, 1, 3)), <<>>)
  /\ Become(Frame("EchoRead"))
  /\ UNCHANGED <<quit, starts>>

SendEcho ==
  /\ At("Init")
  /\ SendData(EchoPacket(InitString), <<>>)
  /\ Become(Frame("EchoRead"))
  /\ UNCHANGED <<quit, starts>>

(* The script manager comes last; without a Lua machine the program ends. *)
CheckEcho ==
  /\ At("EchoRead")
  /\ \E before \in Junk :
       LET got == Received(Len(InitString), before)
       IN  /\ ReceiveData(EchoPacket(InitString), got)
           /\ IF got = InitString
                THEN Become(Frame("GetMessage")) \/ Become(Frame("Exit"))
                ELSE Ends("NES FPGA not connected.")
  /\ UNCHANGED <<quit, starts>>

(* GetMessage has met WM_QUIT. *)
LeaveMain ==
  /\ At("GetMessage") /\ quit
  /\ Become(Frame("Exit"))
  /\ NoTraffic
  /\ UNCHANGED <<quit, starts>>

Exit ==
  /\ At("Exit")
  /\ Return
  /\ ClosePort
  /\ UNCHANGED <<quit, starts>>

(* The program is killed, or crashes: the system closes the port and drops
   what has not been transmitted. *)
Kill ==
  /\ stack # <<>>
  /\ stack' = <<>>
  /\ open' = FALSE /\ answers' = <<>>
  /\ \E n \in 0 .. Len(line) : line' = SubSeq(line, 1, n)
  /\ tracked' = "lost" /\ loaded' = <<>>
  /\ UNCHANGED <<misled, quit, starts>>

--------------------------------------------------------------------------------
(* The raw debug dialog. *)

LaunchRawDbgDlg ==
  /\ MenuPicked("RawDebug")
  /\ Call(Dialog("RawDbgDlg"))
  /\ NoTraffic
  /\ UNCHANGED <<quit, starts>>

(* Every packet is followed by a read, of no bytes if it has no answer. *)
RawSend ==
  /\ Pressed("RawDbgDlg")
  /\ \E text \in RawTexts, beyond \in Junk :
       LET p == CreateObjFromString(text, beyond)
       IN  IF p = NoPacket
             THEN Call(Box("Invalid data.")) /\ NoTraffic
             ELSE /\ Heeded(p)
                  /\ SendData(p, <<>>)
                  /\ Call([at |-> "RawRead", p |-> p])
  /\ UNCHANGED <<quit, starts>>

RawRead ==
  /\ At("RawRead")
  /\ \E before \in Junk :
       LET p == Head(stack).p IN ReceiveData(p, Received(p.expects, before))
  /\ Return
  /\ UNCHANGED <<quit, starts>>

RawDone ==
  /\ Pumping /\ Live("RawDbgDlg") # {}
  /\ EndDialog("RawDbgDlg")
  /\ NoTraffic
  /\ UNCHANGED <<quit, starts>>

--------------------------------------------------------------------------------
(* Loading a ROM. *)

(* The buffer is larger than any file; what the file does not fill is beyond.
   Positions start at 0 as in the code. *)
FileByte(rom, beyond, i) == IF i < Len(rom) THEN rom[i + 1] ELSE beyond
FileBytes(rom, beyond, first, n) == [i \in 1 .. n |-> FileByte(rom, beyond, first + i - 1)]

Bit(n, power) == (n \div power) % 2

(* The header checks.  Every one is made, and each has a box of its own. *)
Complaints(rom, beyond) ==
  LET b(i) == FileByte(rom, beyond, i)
      unless(ok, text) == IF ok THEN <<>> ELSE <<Box(text)>>
  IN  unless(FileBytes(rom, beyond, 0, 4) = <<78, 69, 83, 26>>, "Invalid ROM header.")
      \o unless(b(4) <= 2 /\ b(5) <= 1, "Too many ROM banks.")
      \o unless(Bit(b(6), 8) = 0, "Only horizontal and vertical mirroring are supported.")
      \o unless(b(6) \div 16 = 0 /\ b(7) \div 16 = 0, "Only mapper 0 is supported.")

(* Faulty: CHR blocks are read from where PRG data starts. *)
RomBlocks_ChrFromPrg(rom, beyond) ==
  LET prg == FileByte(rom, beyond, 4) * PrgBank
      chr == FileByte(rom, beyond, 5) * ChrBank
      block(first, i) == FileBytes(rom, beyond, first + (BlockSize * i), BlockSize)
  IN  [i \in 1 .. prg \div BlockSize |->
         CpuMemWrPacket(32768 + (BlockSize * (i - 1)), block(16, i - 1))]
      \o [i \in 1 .. chr \div BlockSize |->
            PpuMemWrPacket(BlockSize * (i - 1), block(16, i - 1))]

RomBlocks(rom, beyond) ==
  LET prg == FileByte(rom, beyond, 4) * PrgBank
      chr == FileByte(rom, beyond, 5) * ChrBank
      block(first, i) == FileBytes(rom, beyond, first + (BlockSize * i), BlockSize)
  IN  [i \in 1 .. prg \div BlockSize |->
         CpuMemWrPacket(32768 + (BlockSize * (i - 1)), block(16, i - 1))]
      \o [i \in 1 .. chr \div BlockSize |->
            PpuMemWrPacket(BlockSize * (i - 1), block(16 + prg, i - 1))]

(* The reset vector is the last word but one of PRG; a file without PRG has
   it in bytes 12 and 13 of its header. *)
Vector(rom, beyond) ==
  FileBytes(rom, beyond, (16 + (FileByte(rom, beyond, 4) * PrgBank)) - 4, 2)

(* All that is sent, in its order; nothing of it is answered. *)
RomPackets(rom, beyond) ==
  <<DbgHltPacket, PpuDisablePacket, CartSetCfgPacket(FileBytes(rom, beyond, 0, 16))>>
  \o RomBlocks(rom, beyond)
  \o <<CpuRegWrPacket(CpuReg.Pcl, Vector(rom, beyond)[1]),
       CpuRegWrPacket(CpuReg.Pch, Vector(rom, beyond)[2]),
       DbgRunPacket>>

LoadRom ==
  /\ MenuPicked("LoadRom")
  /\ Call(Frame("GetOpenFileName"))
  /\ NoTraffic
  /\ UNCHANGED <<quit, starts>>

(* The user cancels, or WM_QUIT ends the file dialog. *)
NoFile ==
  /\ At("GetOpenFileName")
  /\ Return
  /\ NoTraffic
  /\ UNCHANGED <<quit, starts>>

FileFails ==
  /\ At("GetOpenFileName") /\ ~quit
  /\ \E text \in {"Failed to open ROM file.", "Failed to read data from ROM file."} :
       Become(Box(text))
  /\ NoTraffic
  /\ UNCHANGED <<quit, starts>>

(* The boxes of a file that is refused are answered one after the other. *)
FileRead ==
  /\ At("GetOpenFileName") /\ ~quit
  /\ \E rom \in Roms, beyond \in Junk :
       LET boxes == Complaints(rom, beyond)
       IN  IF boxes = <<>>
             THEN Become([at |-> "LoadRom", rom |-> rom, todo |-> RomPackets(rom, beyond)])
             ELSE stack' = boxes \o Tail(stack)
  /\ NoTraffic
  /\ UNCHANGED <<quit, starts>>

RomPacket ==
  /\ At("LoadRom")
  /\ LET f == Head(stack)
         last == Len(f.todo) = 1
     IN  /\ SendData(Head(f.todo), IF last /\ tracked # "lost" THEN f.rom ELSE <<>>)
         /\ IF last THEN Return ELSE Become([f EXCEPT !.todo = Tail(@)])
  /\ UNCHANGED <<quit, starts>>

--------------------------------------------------------------------------------

(* What the program does by itself. *)
NesDbgGoesOn ==
  \/ SendEcho
  \/ CheckEcho
  \/ LeaveMain
  \/ Exit
  \/ RawRead
  \/ RomPacket

(* What the user and the system do. *)
NesDbgUsed ==
  \/ Start
  \/ WindowFails
  \/ PortFails
  \/ PortOpens
  \/ LaunchRawDbgDlg
  \/ RawSend
  \/ RawDone
  \/ LoadRom
  \/ NoFile
  \/ FileFails
  \/ FileRead
================================================================================
