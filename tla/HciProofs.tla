------------------------------- MODULE HciProofs -------------------------------
(***************************************************************************)
(* The debugger's registers and FIFOs keep their types, and no guarded     *)
(* answer is dropped, for every byte width, FIFO depth and environment.    *)
(***************************************************************************)
EXTENDS Hci, TLAPS

LEMMA ConstantFacts ==
  /\ Base \in Nat /\ Base >= 16
  /\ FifoDepth \in Nat /\ FifoDepth >= 2
  /\ PpuCtrl \in 0 .. Wide - 3
BY HciAssumption DEF HciAssumption, Wide

(* One clock of a queue keeps its type and the honesty of its flags, so that a
   queue that does not claim to be empty has an entry to read. *)
LEMMA ReceiveQueue ==
  ASSUME NEW f \in RX!Queues, RX!Bracketed(f),
         NEW rd \in BOOLEAN, NEW wr \in BOOLEAN, NEW d \in Byte
  PROVE  RX!Clocked(f, rd, wr, d) \in RX!Queues /\ RX!Bracketed(RX!Clocked(f, rd, wr, d))
<1> DEFINE pop == rd /\ ~f.empty
           push == wr /\ ~f.full
           kept == IF pop THEN Tail(f.entries) ELSE f.entries
           next == IF push THEN Append(kept, d) ELSE kept
           n == Len(f.entries)
           gone == IF pop THEN 1 ELSE 0
           added == IF push THEN 1 ELSE 0
<1>1. /\ f.entries \in Seq(Byte) /\ n \in Nat
      /\ f.empty \in BOOLEAN /\ f.full \in BOOLEAN
  BY DEF RX!Queues
<1>2. /\ n <= FifoDepth
      /\ n = 0 => f.empty
      /\ f.empty => n <= 1
      /\ n = FifoDepth => f.full
      /\ f.full => n >= FifoDepth - 1
  BY DEF RX!Bracketed
<1>3. kept \in Seq(Byte) /\ Len(kept) = n - gone
  BY <1>1, <1>2
<1>4. next \in Seq(Byte) /\ Len(next) = Len(kept) + added
  <2>1. CASE push
    BY <1>3, <2>1
  <2>2. CASE ~push
    <3>1. next = kept /\ added = 0
      BY <2>2
    <3> HIDE DEF kept, next, added
    <3> QED BY <1>3, <3>1
  <2> QED BY <2>1, <2>2
<1>5. RX!Clocked(f, rd, wr, d) =
        [entries |-> next,
         empty   |-> (f.empty /\ ~push) \/ (n = 1 /\ pop),
         full    |-> (f.full /\ ~pop) \/ (n = FifoDepth - 1 /\ push)]
  BY DEF RX!Clocked, RX!PopsFrom, RX!PushesTo
<1>6. RX!Clocked(f, rd, wr, d) \in RX!Queues
  BY <1>4, <1>5 DEF RX!Queues
<1>7. RX!Bracketed(RX!Clocked(f, rd, wr, d))
  BY <1>1, <1>2, <1>3, <1>4, <1>5, ConstantFacts DEF RX!Bracketed
<1> QED BY <1>6, <1>7

LEMMA TransmitQueue ==
  ASSUME NEW f \in TX!Queues, TX!Bracketed(f),
         NEW rd \in BOOLEAN, NEW wr \in BOOLEAN, NEW d \in Byte
  PROVE  TX!Clocked(f, rd, wr, d) \in TX!Queues /\ TX!Bracketed(TX!Clocked(f, rd, wr, d))
<1>1. TX!Clocked(f, rd, wr, d) = RX!Clocked(f, rd, wr, d)
  BY DEF TX!Clocked, RX!Clocked, TX!PopsFrom, RX!PopsFrom, TX!PushesTo, RX!PushesTo
<1>2. f \in RX!Queues /\ RX!Bracketed(f)
  BY DEF TX!Queues, RX!Queues, TX!Bracketed, RX!Bracketed
<1>3. RX!Clocked(f, rd, wr, d) \in RX!Queues /\ RX!Bracketed(RX!Clocked(f, rd, wr, d))
  BY <1>2, ReceiveQueue
<1> QED BY <1>1, <1>3 DEF TX!Queues, RX!Queues, TX!Bracketed, RX!Bracketed

(* Arithmetic of bytes and addresses. *)
LEMMA WideType == Wide \in Nat /\ Wide >= 256
BY ConstantFacts DEF Wide

LEMMA JoinedType ==
  ASSUME NEW hi \in Byte, NEW n \in Nat
  PROVE  LowByte(n) \in Byte /\ Joined(hi, LowByte(n)) \in 0 .. Wide - 1
<1>1. LowByte(n) \in Byte
  BY ConstantFacts DEF LowByte, Byte
<1>2. hi \in Nat /\ Base \in Nat /\ hi <= Base - 1
  BY ConstantFacts DEF Byte
<1>3. hi * Base \in Nat /\ hi * Base <= (Base - 1) * Base
  BY <1>2
<1>4. (Base - 1) * Base = Wide - Base
  BY <1>2 DEF Wide
<1> QED BY <1>1, <1>2, <1>3, <1>4, WideType DEF Joined, Byte

LEMMA LessOneType ==
  ASSUME NEW n \in 0 .. 2 * Wide - 1
  PROVE  /\ LessOne(n) \in 0 .. 2 * Wide - 1
         /\ n % 2 = 1 => LessOne(n) % 2 = 0
BY WideType DEF LessOne

LEMMA NextAddrType ==
  ASSUME q_addr \in 0 .. Wide - 1
  PROVE  NextAddr \in 0 .. Wide - 1
BY WideType DEF NextAddr

LEMMA BytesSmall ==
  ASSUME NEW b \in Byte
  PROVE  b \in 0 .. Wide - 1 /\ b \in 0 .. 2 * Wide - 1
<1>1. Base <= Wide
  BY ConstantFacts DEF Wide
<1> QED BY <1>1, WideType, ConstantFacts DEF Byte

--------------------------------------------------------------------------------

(* The registers of hci.v: their types, and what is known of a request under
   way. *)
RegsOK ==
  /\ q_state \in States
  /\ q_decode_cnt \in 0 .. 7
  /\ q_execute_cnt \in 0 .. 2 * Wide - 1
  /\ q_addr \in 0 .. Wide - 1
  /\ q_err_code \in [parity : BOOLEAN, opcode : BOOLEAN]
  /\ q_cart_cfg \in Seq(Byte)
  /\ Len(q_cart_cfg) = 5
  /\ q_cart_cfg_upd \in BOOLEAN
  /\ q_tx_data \in Byte
  /\ q_wr_en \in BOOLEAN
  /\ NoRequestUnderWay

BuffersOK ==
  /\ q_rx_parity_err \in BOOLEAN
  /\ RX!TypeOK /\ RX!FlagsBracketEntries
  /\ TX!TypeOK /\ TX!FlagsBracketEntries

IInv == RegsOK /\ BuffersOK

LEMMA IInvTypeOK == IInv => TypeOK
BY DEF IInv, RegsOK, BuffersOK, TypeOK

(* A receive FIFO that does not claim to be empty has a byte to look at. *)
LEMMA ReadByte ==
  ASSUME BuffersOK, ~rx_empty
  PROVE  rd_data \in Byte
BY DEF BuffersOK, rx_empty, rd_data, RX!TypeOK, RX!Queues, RX!FlagsBracketEntries,
       RX!Bracketed

LEMMA InitIInv == Init => IInv
<1> SUFFICES ASSUME Init PROVE IInv
  OBVIOUS
<1>1. 0 \in Byte
  BY ConstantFacts DEF Byte
<1>2. RegsOK
  <2>1. 0 \in 0 .. Wide - 1 /\ 0 \in 0 .. 2 * Wide - 1 /\ 0 \in 0 .. 7
    BY WideType
  <2>2. q_cart_cfg \in Seq(Byte) /\ Len(q_cart_cfg) = 5
    BY <1>1 DEF Init
  <2>3. q_state \in States /\ NoRequestUnderWay
    BY DEF Init, States, NoRequestUnderWay
  <2> QED BY <1>1, <2>1, <2>2, <2>3 DEF Init, RegsOK
<1>3. RX!NewQueue \in RX!Queues /\ RX!Bracketed(RX!NewQueue)
  BY ConstantFacts DEF RX!NewQueue, RX!Queues, RX!Bracketed
<1>4. TX!NewQueue \in TX!Queues /\ TX!Bracketed(TX!NewQueue)
  BY ConstantFacts DEF TX!NewQueue, TX!Queues, TX!Bracketed
<1>5. BuffersOK
  BY <1>3, <1>4 DEF Init, BuffersOK, RX!TypeOK, TX!TypeOK, RX!FlagsBracketEntries,
                    TX!FlagsBracketEntries
<1> QED BY <1>2, <1>5 DEF IInv

LEMMA BuffersStep ==
  ASSUME IInv,
         NEW brk \in BOOLEAN, NEW rx_done_tick \in BOOLEAN, NEW rx_data \in Byte,
         NEW parity_err \in BOOLEAN, NEW tx_done_tick \in BOOLEAN,
         UartBuffers(brk, rx_done_tick, rx_data, parity_err, tx_done_tick)
  PROVE  BuffersOK'
<1>1. rd_en(brk) \in BOOLEAN
  BY DEF rd_en
<1>2. rx_fifo' \in RX!Queues /\ RX!Bracketed(rx_fifo')
  BY <1>1, ReceiveQueue DEF IInv, BuffersOK, UartBuffers, RX!TypeOK, RX!FlagsBracketEntries
<1>3. tx_fifo' \in TX!Queues /\ TX!Bracketed(tx_fifo')
  BY TransmitQueue
     DEF IInv, BuffersOK, RegsOK, UartBuffers, TX!TypeOK, TX!FlagsBracketEntries
<1>4. q_rx_parity_err' \in BOOLEAN
  BY DEF IInv, BuffersOK, UartBuffers
<1> QED BY <1>2, <1>3, <1>4
        DEF BuffersOK, RX!TypeOK, TX!TypeOK, RX!FlagsBracketEntries,
            TX!FlagsBracketEntries

(* What the defaults of the always block leave behind. *)
LEMMA NoSendType == NoSend => q_tx_data' \in Byte /\ q_wr_en' = FALSE
<1>1. 0 \in Byte
  BY ConstantFacts DEF Byte
<1> QED BY <1>1 DEF NoSend

LEMMA NoCfgType ==
  RegsOK /\ NoCfg
    => q_cart_cfg' \in Seq(Byte) /\ Len(q_cart_cfg') = 5 /\ q_cart_cfg_upd' \in BOOLEAN
<1>1. RegsOK /\ NoCfg => q_cart_cfg' = q_cart_cfg /\ q_cart_cfg_upd' \in BOOLEAN
  BY DEF NoCfg
<1> QED BY <1>1 DEF RegsOK

LEMMA ErrorsType ==
  ASSUME NEW unknown \in BOOLEAN, Errors(unknown)
  PROVE  q_err_code' \in [parity : BOOLEAN, opcode : BOOLEAN]
BY DEF Errors

LEMMA SendType ==
  ASSUME NEW b \in Byte, Send(b)
  PROVE  q_tx_data' \in Byte /\ q_wr_en' \in BOOLEAN
BY DEF Send

LEMMA DecodeCntType == q_decode_cnt \in 0 .. 7 => NextDecodeCnt \in 0 .. 7
BY DEF NextDecodeCnt

(* The four registers a state of the machine decides about, and the rest. *)
LEMMA RegsFromParts ==
  ASSUME q_state' \in States,
         q_decode_cnt' \in 0 .. 7,
         q_execute_cnt' \in 0 .. 2 * Wide - 1,
         q_addr' \in 0 .. Wide - 1,
         q_err_code' \in [parity : BOOLEAN, opcode : BOOLEAN],
         q_cart_cfg' \in Seq(Byte), Len(q_cart_cfg') = 5, q_cart_cfg_upd' \in BOOLEAN,
         q_tx_data' \in Byte, q_wr_en' \in BOOLEAN,
         NoRequestUnderWay'
  PROVE  RegsOK'
BY DEF RegsOK, Wide

(* A clock that sends nothing leaves no request under way. *)
LEMMA SilentStep == q_wr_en' = FALSE => NoRequestUnderWay'
BY DEF NoRequestUnderWay

(* Nor does one whose next state does not look at tx_full. *)
LEMMA UnguardedStep ==
  q_state' \in {"S_DISABLED", "S_DECODE", "S_ECHO_STG_1"} => NoRequestUnderWay'
BY DEF NoRequestUnderWay

LEMMA DecodeTargetType == \A op : DecodeTarget(op) \in States
BY DEF DecodeTarget, States

(* The bytes the debugger makes up itself. *)
LEMMA OwnBytes ==
  /\ 0 \in Byte /\ 1 \in Byte
  /\ q_err_code \in [parity : BOOLEAN, opcode : BOOLEAN] => ErrByte \in Byte
BY ConstantFacts DEF Byte, ErrByte

LEMMA MemHeaderStep ==
  ASSUME IInv, NEW stg0 \in States, NEW stg1 \in States, NEW k \in {1, 2},
         MemHeader(stg0, stg1, k)
  PROVE  RegsOK'
<1>1. rd_data \in Byte
  BY ReadByte DEF IInv, MemHeader
<1>2. q_decode_cnt' \in 0 .. 7
  BY DecodeCntType DEF IInv, RegsOK, MemHeader
<1>3. q_addr' \in 0 .. Wide - 1
  <2>1. Joined(rd_data, LowByte(q_addr)) \in 0 .. Wide - 1
    <3>1. q_addr \in Nat
      BY WideType DEF IInv, RegsOK
    <3> QED BY <1>1, <3>1, JoinedType
  <2>2. rd_data \in 0 .. Wide - 1
    BY <1>1, BytesSmall
  <2> QED BY <2>1, <2>2 DEF IInv, RegsOK, MemHeader
<1>4. q_execute_cnt' \in 0 .. 2 * Wide - 1
  <2>1. Joined(rd_data, LowByte(q_execute_cnt)) \in 0 .. Wide - 1
    <3>1. q_execute_cnt \in Nat
      BY WideType DEF IInv, RegsOK
    <3> QED BY <1>1, <3>1, JoinedType
  <2>2. k * Joined(rd_data, LowByte(q_execute_cnt)) \in 0 .. 2 * Wide - 1
    <3>1. CASE k = 1 BY <2>1, <3>1, WideType
    <3>2. CASE k = 2 BY <2>1, <3>2, WideType
    <3> QED BY <3>1, <3>2
  <2>3. rd_data \in 0 .. 2 * Wide - 1
    BY <1>1, BytesSmall
  <2> QED BY <2>2, <2>3 DEF IInv, RegsOK, MemHeader
<1>5. q_state' \in States
  <2>1. "S_DECODE" \in States
    BY DEF States
  <2> QED BY <2>1 DEF MemHeader, Goto
<1>6. NoSend /\ NoCfg /\ Errors(FALSE)
  BY DEF MemHeader
<1> QED BY <1>2, <1>3, <1>4, <1>5, <1>6, NoSendType, NoCfgType, ErrorsType, SilentStep,
           RegsFromParts DEF IInv

LEMMA MemReadStep ==
  ASSUME IInv, NEW stg1 \in {"S_CPU_MEM_RD_STG_1", "S_PPU_MEM_RD_STG_1"}, NEW din \in Byte,
         MemReadDummy(stg1) \/ MemReadByte(stg1, din)
  PROVE  RegsOK'
<1>1. q_execute_cnt' \in 0 .. 2 * Wide - 1
  BY LessOneType DEF IInv, RegsOK, MemReadDummy, MemReadByte
<1>2. q_err_code' \in [parity : BOOLEAN, opcode : BOOLEAN]
  BY ErrorsType DEF MemReadDummy, MemReadByte
<1>3. NoCfg /\ q_decode_cnt' = q_decode_cnt
  BY DEF MemReadDummy, MemReadByte
<1>4. CASE MemReadDummy(stg1)
  <2>1. q_state' = q_state /\ q_addr' = q_addr /\ NoSend
    BY <1>4 DEF MemReadDummy
  <2> QED BY <1>1, <1>2, <1>3, <2>1, NoSendType, NoCfgType, SilentStep, RegsFromParts
          DEF IInv, RegsOK
<1>5. CASE MemReadByte(stg1, din)
  <2>1. q_state' \in States
    <3>1. stg1 \in States /\ "S_DECODE" \in States
      BY DEF States
    <3> QED BY <1>5, <3>1 DEF MemReadByte, Goto
  <2>2. q_addr' \in 0 .. Wide - 1
    BY <1>5, NextAddrType DEF MemReadByte, IInv, RegsOK
  <2>3. q_tx_data' \in Byte /\ q_wr_en' \in BOOLEAN
    BY <1>5, SendType DEF MemReadByte
  <2>4. q_execute_cnt' % 2 = 0
    BY <1>5, LessOneType DEF MemReadByte, IInv, RegsOK
  <2>5. q_state' = stg1 \/ q_state' = "S_DECODE"
    BY <1>5 DEF MemReadByte, Goto
  <2>6. NoRequestUnderWay'
    BY <2>4, <2>5 DEF NoRequestUnderWay
  <2> QED BY <1>1, <1>2, <1>3, <2>1, <2>2, <2>3, <2>6, NoCfgType, RegsFromParts
          DEF IInv, RegsOK
<1> QED BY <1>4, <1>5

LEMMA DisabledStep ==
  ASSUME IInv, NEW brk \in BOOLEAN, Disabled(brk)
  PROVE  RegsOK'
<1>1. q_state' \in {"S_DISABLED", "S_DECODE"} /\ q_state' \in States
  BY DEF Disabled, Goto, States
<1>2. q_tx_data' \in Byte /\ q_wr_en' \in BOOLEAN
  BY OwnBytes, NoSendType, SendType DEF Disabled
<1>3. UNCHANGED <<q_decode_cnt, q_execute_cnt, q_addr>> /\ NoCfg /\ Errors(FALSE)
  BY DEF Disabled
<1> QED BY <1>1, <1>2, <1>3, NoCfgType, ErrorsType, UnguardedStep, RegsFromParts
        DEF IInv, RegsOK

LEMMA DecodeStep ==
  ASSUME IInv, Decode
  PROVE  RegsOK'
<1>1. q_state' \in States
  BY DecodeTargetType DEF Decode, Goto
<1>2. q_tx_data' \in Byte /\ q_wr_en' \in BOOLEAN
  BY OwnBytes, NoSendType, SendType DEF Decode
<1>3. NoRequestUnderWay'
  <2>1. CASE rd_data = OP_QUERY_DBG_BRK
    <3>1. DecodeTarget(rd_data) = "S_DECODE"
      BY <2>1 DEF DecodeTarget, OP_QUERY_DBG_BRK, OP_ECHO, OP_CPU_MEM_RD, OP_CPU_MEM_WR,
                  OP_CPU_REG_RD, OP_CPU_REG_WR, OP_QUERY_ERR_CODE, OP_PPU_MEM_RD,
                  OP_PPU_MEM_WR, OP_PPU_DISABLE, OP_CART_SET_CFG, OP_DBG_RUN
    <3> QED BY <3>1, UnguardedStep DEF Decode, Goto
  <2>2. CASE rd_data # OP_QUERY_DBG_BRK
    BY <2>2, NoSendType, SilentStep DEF Decode
  <2> QED BY <2>1, <2>2
<1>4. q_decode_cnt' \in 0 .. 7 /\ UNCHANGED <<q_execute_cnt, q_addr>> /\ NoCfg
  BY DEF Decode
<1>5. q_err_code' \in [parity : BOOLEAN, opcode : BOOLEAN]
  <2>1. (rd_data > OP_CART_SET_CFG) \in BOOLEAN
    OBVIOUS
  <2> QED BY <2>1, ErrorsType DEF Decode
<1> QED BY <1>1, <1>2, <1>3, <1>4, <1>5, NoCfgType, RegsFromParts DEF IInv, RegsOK

LEMMA EchoStep ==
  ASSUME IInv, EchoHeader \/ EchoByte
  PROVE  RegsOK'
<1>1. rd_data \in Byte
  BY ReadByte DEF IInv, EchoHeader, EchoByte
<1>2. q_state' \in {"S_ECHO_STG_0", "S_ECHO_STG_1", "S_DECODE"} /\ q_state' \in States
  BY DEF EchoHeader, EchoByte, Goto, States
<1>3. q_decode_cnt' \in 0 .. 7 /\ q_addr' = q_addr /\ NoCfg /\ Errors(FALSE)
  BY DecodeCntType DEF EchoHeader, EchoByte, IInv, RegsOK
<1>4. q_execute_cnt' \in 0 .. 2 * Wide - 1
  <2>1. q_execute_cnt \in Nat
    BY WideType DEF IInv, RegsOK
  <2>2. Joined(rd_data, LowByte(q_execute_cnt)) \in 0 .. Wide - 1
    BY <1>1, <2>1, JoinedType
  <2>3. Joined(rd_data, LowByte(q_execute_cnt)) \in 0 .. 2 * Wide - 1
    BY <2>2, WideType
  <2>4. rd_data \in 0 .. 2 * Wide - 1
    BY <1>1, BytesSmall
  <2>5. LessOne(q_execute_cnt) \in 0 .. 2 * Wide - 1
    BY LessOneType DEF IInv, RegsOK
  <2> QED BY <2>3, <2>4, <2>5 DEF EchoHeader, EchoByte
<1>5. /\ q_tx_data' \in Byte /\ q_wr_en' \in BOOLEAN
      /\ NoRequestUnderWay'
  <2>1. CASE EchoHeader
    BY <2>1, NoSendType, SilentStep DEF EchoHeader
  <2>2. CASE EchoByte
    <3>1. q_state' \in {"S_DECODE", "S_ECHO_STG_1"} /\ Send(rd_data)
      BY <2>2 DEF EchoByte, Goto
    <3> QED BY <1>1, <3>1, SendType, UnguardedStep
  <2> QED BY <2>1, <2>2
<1> QED BY <1>2, <1>3, <1>4, <1>5, NoCfgType, ErrorsType, RegsFromParts
        DEF IInv, RegsOK

LEMMA MemWriteStep ==
  ASSUME IInv, NEW stg1 \in States, MemWriteByte(stg1)
  PROVE  RegsOK'
<1>1. q_state' \in States
  <2>1. "S_DECODE" \in States
    BY DEF States
  <2> QED BY <2>1 DEF MemWriteByte, Goto
<1>2. q_execute_cnt' \in 0 .. 2 * Wide - 1
  BY LessOneType DEF IInv, RegsOK, MemWriteByte
<1>3. q_addr' \in 0 .. Wide - 1
  BY NextAddrType DEF IInv, RegsOK, MemWriteByte
<1>4. q_decode_cnt' = q_decode_cnt /\ NoSend /\ NoCfg /\ Errors(FALSE)
  BY DEF MemWriteByte
<1> QED BY <1>1, <1>2, <1>3, <1>4, NoSendType, NoCfgType, ErrorsType, SilentStep,
           RegsFromParts DEF IInv, RegsOK

(* Registers and the error code: one byte in or out. *)
LEMMA OneByteStep ==
  ASSUME IInv, NEW din \in Byte,
         CpuRegRd(din) \/ CpuRegWrSelect \/ CpuRegWrByte \/ QueryErrCode
  PROVE  RegsOK'
<1>1. /\ q_state' \in {"S_DECODE", "S_CPU_REG_WR_STG_1"} /\ q_state' \in States
      /\ UNCHANGED <<q_decode_cnt, q_execute_cnt>> /\ NoCfg /\ Errors(FALSE)
  BY DEF CpuRegRd, CpuRegWrSelect, CpuRegWrByte, QueryErrCode, Goto, States
<1>2. q_addr' \in 0 .. Wide - 1
  <2>1. CASE CpuRegWrSelect
    BY <2>1, ReadByte, BytesSmall DEF CpuRegWrSelect, IInv
  <2>2. CASE ~CpuRegWrSelect
    BY <2>2 DEF CpuRegRd, CpuRegWrByte, QueryErrCode, IInv, RegsOK
  <2> QED BY <2>1, <2>2
<1>3. q_tx_data' \in Byte /\ q_wr_en' \in BOOLEAN
  <2>1. CASE CpuRegRd(din)
    BY <2>1, SendType DEF CpuRegRd
  <2>2. CASE CpuRegWrSelect \/ CpuRegWrByte
    BY <2>2, NoSendType DEF CpuRegWrSelect, CpuRegWrByte
  <2>3. CASE QueryErrCode
    BY <2>3, OwnBytes, SendType DEF QueryErrCode, IInv, RegsOK
  <2> QED BY <2>1, <2>2, <2>3
<1>4. NoRequestUnderWay'
  BY <1>1 DEF NoRequestUnderWay
<1> QED BY <1>1, <1>2, <1>3, <1>4, NoCfgType, ErrorsType, RegsFromParts DEF IInv, RegsOK

LEMMA PpuDisableStep ==
  ASSUME IInv, PpuDisable
  PROVE  RegsOK'
<1>1. q_state' \in States /\ q_execute_cnt' = q_execute_cnt
  BY DEF PpuDisable, Goto, States
<1>2. q_decode_cnt' \in 0 .. 7
  BY DecodeCntType DEF PpuDisable, IInv, RegsOK
<1>3. q_addr' \in 0 .. Wide - 1
  <2>1. q_addr' \in {PpuCtrl, PpuCtrl + 1, PpuCtrl + 2, 0, q_addr}
    <3>1. q_addr' = CASE q_decode_cnt = 0 -> PpuCtrl
                      [] q_decode_cnt = 2 -> PpuCtrl + 1
                      [] q_decode_cnt = 4 -> PpuCtrl + 2
                      [] q_decode_cnt \in {1, 3, 5} -> 0
                      [] OTHER -> q_addr
      BY DEF PpuDisable
    <3> QED BY <3>1
  <2>2. PpuCtrl \in Nat /\ PpuCtrl + 2 <= Wide - 1 /\ Wide \in Nat
    BY ConstantFacts, WideType
  <2>3. q_addr \in 0 .. Wide - 1
    BY DEF IInv, RegsOK
  <2> QED BY <2>1, <2>2, <2>3
<1>4. NoSend /\ NoCfg /\ Errors(FALSE)
  BY DEF PpuDisable
<1> QED BY <1>1, <1>2, <1>3, <1>4, NoSendType, NoCfgType, ErrorsType, SilentStep,
           RegsFromParts DEF IInv, RegsOK

LEMMA CartCfgStep ==
  ASSUME IInv, CartSetCfgStart \/ CartSetCfgByte
  PROVE  RegsOK'
<1>1. /\ q_state' \in States
      /\ UNCHANGED <<q_decode_cnt, q_addr>> /\ NoSend /\ Errors(FALSE)
  BY DEF CartSetCfgStart, CartSetCfgByte, Goto, States
<1>2. q_execute_cnt' \in 0 .. 2 * Wide - 1
  <2>1. 4 \in 0 .. 2 * Wide - 1
    BY WideType
  <2>2. LessOne(q_execute_cnt) \in 0 .. 2 * Wide - 1
    BY LessOneType DEF IInv, RegsOK
  <2> QED BY <2>1, <2>2 DEF CartSetCfgStart, CartSetCfgByte
<1>3. q_cart_cfg' \in Seq(Byte) /\ Len(q_cart_cfg') = 5 /\ q_cart_cfg_upd' \in BOOLEAN
  <2>1. CASE CartSetCfgStart
    BY <2>1, NoCfgType DEF CartSetCfgStart, IInv
  <2>2. CASE CartSetCfgByte
    <3>1. rd_data \in Byte
      BY <2>2, ReadByte DEF CartSetCfgByte, IInv
    <3>2. q_cart_cfg \in Seq(Byte) /\ Len(q_cart_cfg) = 5
      BY DEF IInv, RegsOK
    <3>3. Tail(q_cart_cfg) \in Seq(Byte) /\ Len(Tail(q_cart_cfg)) = 4
      BY <3>2
    <3>4. q_cart_cfg_upd' \in BOOLEAN
      BY <2>2 DEF CartSetCfgByte
    <3>5. q_cart_cfg' = Append(Tail(q_cart_cfg), rd_data)
      BY <2>2 DEF CartSetCfgByte
    <3> QED BY <3>1, <3>3, <3>4, <3>5
  <2> QED BY <2>1, <2>2
<1> QED BY <1>1, <1>2, <1>3, NoSendType, ErrorsType, SilentStep, RegsFromParts
        DEF IInv, RegsOK

LEMMA WaitStep ==
  ASSUME IInv, Wait
  PROVE  RegsOK'
<1>1. /\ UNCHANGED <<q_state, q_decode_cnt, q_execute_cnt, q_addr>>
      /\ NoSend /\ NoCfg /\ Errors(FALSE)
  BY DEF Wait
<1> QED BY <1>1, NoSendType, NoCfgType, ErrorsType, SilentStep, RegsFromParts
        DEF IInv, RegsOK

(* One clock of the state machine, whatever it is in the middle of; a CPU
   register need only be there when one is read. *)
LEMMA FsmStep ==
  ASSUME IInv, NEW brk \in BOOLEAN, NEW cpu_din \in Byte, NEW vram_din \in Byte, NEW reg_in,
         q_state = "S_CPU_REG_RD" /\ ~rx_empty => reg_in \in Byte,
         Fsm(brk, cpu_din, vram_din, reg_in)
  PROVE  RegsOK'
<1>1. /\ "S_CPU_MEM_RD_STG_0" \in States /\ "S_CPU_MEM_RD_STG_1" \in States
      /\ "S_CPU_MEM_WR_STG_0" \in States /\ "S_CPU_MEM_WR_STG_1" \in States
      /\ "S_PPU_MEM_RD_STG_0" \in States /\ "S_PPU_MEM_RD_STG_1" \in States
      /\ "S_PPU_MEM_WR_STG_0" \in States /\ "S_PPU_MEM_WR_STG_1" \in States
  BY DEF States
<1>2. CASE Wait
  BY <1>2, WaitStep
<1>3. CASE Disabled(brk)
  BY <1>3, DisabledStep
<1>4. CASE Decode
  BY <1>4, DecodeStep
<1>5. CASE EchoHeader \/ EchoByte
  BY <1>5, EchoStep
<1>6. CASE MemHeader("S_CPU_MEM_RD_STG_0", "S_CPU_MEM_RD_STG_1", 2)
  BY <1>1, <1>6, MemHeaderStep
<1>7. CASE MemReadDummy("S_CPU_MEM_RD_STG_1") \/ MemReadByte("S_CPU_MEM_RD_STG_1", cpu_din)
  BY <1>7, MemReadStep
<1>8. CASE MemHeader("S_CPU_MEM_WR_STG_0", "S_CPU_MEM_WR_STG_1", 1)
  BY <1>1, <1>8, MemHeaderStep
<1>9. CASE MemWriteByte("S_CPU_MEM_WR_STG_1") \/ MemWriteByte("S_PPU_MEM_WR_STG_1")
  BY <1>1, <1>9, MemWriteStep
<1>10. CASE CpuRegRd(reg_in) \/ CpuRegWrSelect \/ CpuRegWrByte \/ QueryErrCode
  <2>1. CASE CpuRegRd(reg_in)
    <3>1. reg_in \in Byte
      BY <2>1 DEF CpuRegRd
    <3> QED BY <2>1, <3>1, OneByteStep
  <2>2. CASE CpuRegWrSelect \/ CpuRegWrByte \/ QueryErrCode
    <3>1. 0 \in Byte
      BY OwnBytes
    <3> QED BY <2>2, <3>1, OneByteStep
  <2> QED BY <1>10, <2>1, <2>2
<1>11. CASE MemHeader("S_PPU_MEM_RD_STG_0", "S_PPU_MEM_RD_STG_1", 2)
  BY <1>1, <1>11, MemHeaderStep
<1>12. CASE MemReadDummy("S_PPU_MEM_RD_STG_1") \/ MemReadByte("S_PPU_MEM_RD_STG_1", vram_din)
  BY <1>12, MemReadStep
<1>13. CASE MemHeader("S_PPU_MEM_WR_STG_0", "S_PPU_MEM_WR_STG_1", 1)
  BY <1>1, <1>13, MemHeaderStep
<1>14. CASE PpuDisable
  BY <1>14, PpuDisableStep
<1>15. CASE CartSetCfgStart \/ CartSetCfgByte
  BY <1>15, CartCfgStep
<1> QED BY <1>2, <1>3, <1>4, <1>5, <1>6, <1>7, <1>8, <1>9, <1>10, <1>11, <1>12, <1>13,
           <1>14, <1>15 DEF Fsm

LEMMA NextIInv == IInv /\ [Next]_vars => IInv'
<1>1. ASSUME IInv, Next PROVE IInv'
  <2>1. PICK brk \in BOOLEAN, rx_done_tick \in BOOLEAN, tx_done_tick \in BOOLEAN,
             parity_err \in BOOLEAN, rx_data \in Byte, din \in Byte :
          /\ Fsm(brk, din, din, din)
          /\ UartBuffers(brk, rx_done_tick, rx_data, parity_err, tx_done_tick)
    BY <1>1 DEF Next
  <2>2. RegsOK'
    BY <1>1, <2>1, FsmStep
  <2>3. BuffersOK'
    BY <1>1, <2>1, BuffersStep
  <2> QED BY <2>2, <2>3 DEF IInv
<1>2. ASSUME IInv, UNCHANGED vars PROVE IInv'
  BY <1>2 DEF IInv, RegsOK, BuffersOK, NoRequestUnderWay, vars, hciRegs,
              RX!TypeOK, RX!FlagsBracketEntries, RX!Bracketed,
              TX!TypeOK, TX!FlagsBracketEntries, TX!Bracketed
<1> QED BY <1>1, <1>2

LEMMA Inductive == Spec => []IInv
BY InitIInv, NextIInv, PTL DEF Spec

(* Every register keeps its width and both FIFOs stay queues of bytes, for
   every width of a byte, every depth and every order of inputs (hci.v
   registers, fifo.v). *)
THEOREM TypeCorrect == Spec => []TypeOK
BY Inductive, IInvTypeOK, PTL

(* Where the debugger is about to believe tx_full, no request of its own is
   still on the way to the FIFO (the dummy clock of hci.v's reads). *)
THEOREM NoneUnderWay == Spec => []NoRequestUnderWay
<1>1. IInv => NoRequestUnderWay
  BY DEF IInv, RegsOK
<1> QED BY <1>1, Inductive, PTL

(***************************************************************************)
(* No byte of a memory, register or error-code answer is dropped: the FIFO *)
(* a guarded request meets is never full, whatever the depth of the FIFO   *)
(* and however the transmitter drains it.                                  *)
(***************************************************************************)
THEOREM GuardedSends == Spec => GuardedSendsAccepted
<1>1. ASSUME IInv, [Next]_vars
      PROVE  [(q_state \in GuardedStates /\ q_wr_en') => ~(tx_full')]_vars
  <2> SUFFICES ASSUME Next, q_state \in GuardedStates, q_wr_en'
               PROVE  ~(tx_full')
    BY <1>1
  <2>1. PICK brk \in BOOLEAN, rx_done_tick \in BOOLEAN, tx_done_tick \in BOOLEAN,
             parity_err \in BOOLEAN, rx_data \in Byte, din \in Byte :
          /\ Fsm(brk, din, din, din)
          /\ UartBuffers(brk, rx_done_tick, rx_data, parity_err, tx_done_tick)
    BY DEF Next
  <2>2. /\ ~tx_full
        /\ \/ q_state \in {"S_CPU_REG_RD", "S_QUERY_ERR_CODE"}
           \/ /\ q_state \in {"S_CPU_MEM_RD_STG_1", "S_PPU_MEM_RD_STG_1"}
              /\ q_execute_cnt % 2 = 1
    <3>1. ~NoSend
      BY DEF NoSend
    <3>2. \/ CpuRegRd(din) \/ QueryErrCode
          \/ MemReadByte("S_CPU_MEM_RD_STG_1", din)
          \/ MemReadByte("S_PPU_MEM_RD_STG_1", din)
      BY <2>1, <3>1 DEF Fsm, GuardedStates, Wait, Disabled, Decode, EchoHeader, EchoByte,
           MemHeader, MemReadDummy, MemWriteByte, CpuRegWrSelect, CpuRegWrByte, PpuDisable,
           CartSetCfgStart, CartSetCfgByte
    <3> QED BY <3>2 DEF CpuRegRd, QueryErrCode, MemReadByte
  <2>3. ~q_wr_en
    BY <1>1, <2>2 DEF IInv, RegsOK, NoRequestUnderWay
  <2>4. tx_fifo'.full = ((tx_fifo.full /\ ~TX!PopsFrom(tx_fifo, tx_done_tick))
                           \/ (Len(tx_fifo.entries) = FifoDepth - 1
                                 /\ TX!PushesTo(tx_fifo, q_wr_en)))
    BY <2>1 DEF UartBuffers, TX!Clocked
  <2> QED BY <2>2, <2>3, <2>4 DEF tx_full, TX!PushesTo
<1> QED BY <1>1, Inductive, PTL DEF Spec, GuardedSendsAccepted

================================================================================
