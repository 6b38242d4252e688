------------------------------- MODULE MCHciLink -------------------------------
(* HciLink with bytes of four bits, memories of two cells, FIFOs of four
   entries and a handful of packets, whose data bytes look like opcodes. *)
EXTENDS HciConsole

Only(op) == [op |-> op]

(* Memory traffic of both buses, with no bytes, two that wrap around the
   mirrored memory, and more than a FIFO holds; and everything else: stopping
   and starting, registers, configuration, queries and an unknown opcode. *)
SomePackets ==
  [op : {OP_CPU_MEM_RD}, addr : {1}, n : {0, 6}]
  \cup [op : {OP_CPU_MEM_WR}, addr : {3}, data : {<<3, 4>>}]
  \cup [op : {OP_PPU_MEM_RD}, addr : {3}, n : {2}]
  \cup [op : {OP_PPU_MEM_WR}, addr : {1}, data : {<<>>, <<3, 4>>}]
  \cup {Only(op) : op \in {OP_DBG_BRK, OP_DBG_RUN, OP_QUERY_DBG_BRK, OP_QUERY_ERR_CODE,
                           OP_PPU_DISABLE, 13}}
  \cup [op : {OP_ECHO}, data : {<<>>, <<4, 3, 7, 4, 11>>}]
  \cup [op : {OP_CPU_REG_RD}, sel : {2, 6}]
  \cup [op : {OP_CPU_REG_WR}, sel : {2, 6}, val : {4}]
  \cup [op : {OP_CART_SET_CFG}, data : {<<1, 2, 3, 4, 5>>}]
================================================================================
