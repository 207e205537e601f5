---------------------------- MODULE BlockMemories ----------------------------
(***************************************************************************)
(* The memory cells of the input design on their way to RAMs.  During the  *)
(* resolution, instances of single_port_ram and dual_port_ram become RAMs  *)
(* at once, and Yosys memories become block memories or read only memories *)
(* (BlockMemories.cc), which are mapped to RAMs when all are resolved.     *)
(*                                                                         *)
(* An address is a sequence of nets, the least significant first; sigcmp   *)
(* compares nets.  A RAM is recorded by its wires: for each of its ports   *)
(* the addresses it is driven by (more than one: cascaded multiplexers),   *)
(* the write ports its data and its write enable come from, and for each   *)
(* read port of the cell the RAM port it is read from.  An empty data or   *)
(* enable list is a port tied to pad pins and to zero.  Clocks, read       *)
(* enables and initial contents are deleted by the code, and are not here. *)
(***************************************************************************)
EXTENDS Integers, Sequences, FiniteSets, SequencesExt

CONSTANTS
  Designs,     \* memory cells of a design, and whether there is a LUT RAM block
  LutramMin,   \* LUTRAM_INFERENCE_THRESHOLD_MIN
  LutramMax    \* LUTRAM_INFERENCE_THRESHOLD_MAX

Net == Nat \ {0}

(* The address lines it takes to tell a number of words apart, at least    *)
(* one.                                                                    *)
Distinguish(lines, words) ==
  2 ^ lines >= words /\ \A n \in 1..(lines - 1) : 2 ^ n < words

(***************************************************************************)
(* rd and wr are the addresses of the read and the write ports.  A "mem"   *)
(* is a $mem cell: all its addresses have one width.  A "ram" is an        *)
(* instance of a RAM primitive, whose ports both read and write.           *)
(***************************************************************************)
IsCell(c) ==
  /\ c.rd \in Seq(Seq(Net)) /\ c.wr \in Seq(Seq(Net))
  /\ \A i \in DOMAIN c.rd : c.rd[i] # <<>>
  /\ c.dbits \in Nat \ {0} /\ c.size \in Nat \ {0}
  /\ \/ /\ c.cell = "mem" /\ c.rd # <<>>
        /\ \A i \in DOMAIN c.rd : Len(c.rd[i]) = Len(c.rd[1])
        /\ \A i \in DOMAIN c.wr : Len(c.wr[i]) = Len(c.rd[1])
        /\ \E n \in DOMAIN c.rd[1] : Distinguish(n, c.size)
     \/ /\ c.cell = "ram" /\ c.wr = c.rd /\ Len(c.rd) \in {1, 2}
        /\ \A i \in DOMAIN c.rd : c.size >= 2 ^ Len(c.rd[i])
        /\ \E i \in DOMAIN c.rd : c.size = 2 ^ Len(c.rd[i])

ASSUME BlockMemoriesAssumption ==
  /\ \A d \in Designs :
        /\ d.lutram \in BOOLEAN
        /\ d.cells \in Seq(Range(d.cells)) /\ \A i \in DOMAIN d.cells : IsCell(d.cells[i])
  /\ LutramMin \in Nat /\ LutramMax \in Nat

VARIABLES
  design,
  unresolved,             \* cells the traversal has still to reach
  block_memory_list,
  read_only_memory_list,
  wires,                  \* of the RAMs, in the order they are created
  stuck,                  \* is there a node the partial map has no case for?
  outcome                 \* "ok", "abort" or "undefined"

block_vars ==
  <<design, unresolved, block_memory_list, read_only_memory_list, wires, stuck, outcome>>

Cell(c) == design.cells[c]
Reads(c) == Len(Cell(c).rd)
Writes(c) == Len(Cell(c).wr)

-----------------------------------------------------------------------------
(***************************************************************************)
(* perform_optimization prunes the addresses of a memory to the lines its  *)
(* size calls for, at least one.                                           *)
(***************************************************************************)

NeededWidth(c) == CHOOSE n \in DOMAIN Cell(c).rd[1] : Distinguish(n, Cell(c).size)

(***************************************************************************)
(* prune_signal joins the pruned addresses with combine_lists, which       *)
(* leaves out a line of a later address that the list has already.         *)
(***************************************************************************)
PruneSignal(ports, width) ==
  LET first == SubSeq(ports[1], 1, width)
      others == FlattenSeq([i \in 1..(Len(ports) - 1) |-> SubSeq(ports[i + 1], 1, width)])
  IN  FoldLeft(LAMBDA list, net : IF net \in Range(list) THEN list ELSE Append(list, net),
               first, others)

Optimized(ports, c) ==
  IF ports # <<>> /\ NeededWidth(c) < Len(ports[1])
    THEN PruneSignal(ports, NeededWidth(c))
    ELSE FlattenSeq(ports)

(***************************************************************************)
(* A block memory: its cell, the nets of all its read addresses and of all *)
(* its write addresses, each in one list, and the width of one address.    *)
(***************************************************************************)
BlockMemory(c) ==
  [cell  |-> c,
   rd    |-> Optimized(Cell(c).rd, c),
   wr    |-> Optimized(Cell(c).wr, c),
   abits |-> NeededWidth(c)]

(* The i-th of the addresses in a list.                                    *)
Chunk(m, list, i) == [k \in 1..m.abits |-> list[(i - 1) * m.abits + k]]

Whole(m, list, n) == Len(list) = n * m.abits

-----------------------------------------------------------------------------
(* RAMs.                                                                   *)

Port(addr, data, we) == [addr |-> addr, data |-> data, we |-> we]

ReadPort(addr) == Port(<<addr>>, <<>>, <<>>)
WritePort(addr, w) == Port(<<addr>>, <<w>>, <<w>>)

Ram(c, ports, out, muxed) == [cell |-> c, ports |-> ports, out |-> out, muxed |-> muxed]

(* An instance of single_port_ram or dual_port_ram.                        *)
Primitive(c) ==
  Ram(c, [p \in DOMAIN Cell(c).rd |-> WritePort(Cell(c).rd[p], p)],
      [p \in DOMAIN Cell(c).rd |-> p], FALSE)

(* create_r_single_port_ram, create_2r_dual_port_ram                       *)
ReadOnly(m) ==
  Ram(m.cell, [p \in 1..Reads(m.cell) |-> ReadPort(Chunk(m, m.rd, p))],
      [p \in 1..Reads(m.cell) |-> p], FALSE)

(* split_cascade_port: a chain of multiplexers, unless one address is all. *)
Cascade(m, list) == [i \in 1..(Len(list) \div m.abits) |-> Chunk(m, list, i)]

CanCascade(m, list, n) == Whole(m, list, 1) \/ Whole(m, list, n)

(* create_nr_single_port_ram                                               *)
Multiplexed(m) ==
  Ram(m.cell, <<Port(Cascade(m, m.rd), <<>>, <<>>)>>, [r \in 1..Reads(m.cell) |-> 1], TRUE)

(* create_rw_single_port_ram, create_rw_dual_port_ram                      *)
OneReadOneWrite(m) ==
  IF m.rd = m.wr
    THEN Ram(m.cell, <<WritePort(m.rd, 1)>>, <<1>>, FALSE)
    ELSE Ram(m.cell, <<ReadPort(m.rd), WritePort(m.wr, 1)>>, <<1>>, FALSE)

(* Which of two addresses is this one?  The first, if both are.            *)
Match(m, addr, list) ==
  CASE Chunk(m, list, 1) = addr -> 1
    [] Chunk(m, list, 1) # addr /\ Chunk(m, list, 2) = addr -> 2
    [] OTHER -> 0

Other(i) == 3 - i

(* create_r2w_dual_port_ram                                                *)
OneReadTwoWrites(m) ==
  LET w == Match(m, m.rd, m.wr)
  IN  Ram(m.cell, <<WritePort(m.rd, w), WritePort(Chunk(m, m.wr, Other(w)), Other(w))>>,
          <<1>>, FALSE)

(* Mutation: the second read port is read where the first one matched.     *)
TwoReadsOneWrite_OutputsInOrder(m) ==
  LET r == Match(m, m.wr, m.rd)
  IN  Ram(m.cell, <<WritePort(m.wr, 1), ReadPort(Chunk(m, m.rd, Other(r)))>>, <<1, 2>>, FALSE)

(* create_2rw_dual_port_ram                                                *)
TwoReadsOneWrite(m) ==
  LET r == Match(m, m.wr, m.rd)
  IN  Ram(m.cell, <<WritePort(m.wr, 1), ReadPort(Chunk(m, m.rd, Other(r)))>>,
          [i \in {1, 2} |-> IF i = r THEN 1 ELSE 2], FALSE)

(***************************************************************************)
(* create_2r2w_dual_port_ram looks for the write port of the first read    *)
(* address, and gives both RAM ports the address of their read port.  The  *)
(* data are crossed when the second write port matched; the enables are    *)
(* not.                                                                    *)
(***************************************************************************)
TwoReadsTwoWrites(m) ==
  LET w == Match(m, Chunk(m, m.rd, 1), m.wr)
  IN  Ram(m.cell, <<Port(<<Chunk(m, m.rd, 1)>>, <<w>>, <<1>>),
                    Port(<<Chunk(m, m.rd, 2)>>, <<Other(w)>>, <<2>>)>>, <<1, 2>>, FALSE)

(* create_nrmw_dual_port_ram                                               *)
ManyReadsManyWrites(m) ==
  LET all == [w \in 1..Writes(m.cell) |-> w]
  IN  Ram(m.cell, <<Port(Cascade(m, m.rd), <<>>, <<>>), Port(Cascade(m, m.wr), all, all)>>,
          [r \in 1..Reads(m.cell) |-> 1], TRUE)

-----------------------------------------------------------------------------
(***************************************************************************)
(* What becomes of a block memory: at most one RAM, a failed assertion, or *)
(* a read past the end of a list of address pins, after which the program  *)
(* may do anything.                                                        *)
(***************************************************************************)
Result(is, rams) == [is |-> is, rams |-> rams]
Made(ram) == Result("ok", <<ram>>)
Unmapped == Result("ok", <<>>)
Abort == Result("abort", <<>>)
Undefined == Result("undefined", <<>>)

(* There is a block for LUT RAMs, and the memory is of a size for it.      *)
ForLutram(m) ==
  design.lutram /\ 2 ^ m.abits * Cell(m.cell).dbits \in LutramMin..LutramMax

(* map_rom_to_mem_hardblocks                                               *)
MapRom(m) ==
  LET reads == Reads(m.cell)
  IN  CASE ForLutram(m) -> Unmapped
        [] ~ForLutram(m) /\ reads = 1 -> Made(ReadOnly(m))
        [] ~ForLutram(m) /\ reads = 2 ->
             IF Whole(m, m.rd, 2) THEN Made(ReadOnly(m)) ELSE Abort
        [] ~ForLutram(m) /\ reads > 2 ->
             IF CanCascade(m, m.rd, reads) THEN Made(Multiplexed(m)) ELSE Abort

(* Without a match the memory goes to create_nrmw_dual_port_ram, which     *)
(* asserts more than two reads and more than two writes.                   *)
IfMatch(match, ram) == IF match # 0 THEN Made(ram) ELSE Abort

ReadsAndWrites(c) == <<Reads(c), Writes(c)>>

MapPorts(m) ==
  CASE ReadsAndWrites(m.cell) = <<1, 1>> -> Made(OneReadOneWrite(m))
    [] ReadsAndWrites(m.cell) = <<1, 2>> ->
         IF ~Whole(m, m.wr, 2) THEN Undefined
         ELSE IfMatch(Match(m, m.rd, m.wr), OneReadTwoWrites(m))
    [] ReadsAndWrites(m.cell) = <<2, 1>> ->
         IF ~Whole(m, m.rd, 2) THEN Undefined
         ELSE IfMatch(Match(m, m.wr, m.rd), TwoReadsOneWrite(m))
    [] ReadsAndWrites(m.cell) = <<2, 2>> ->
         CASE ~Whole(m, m.rd, 2) -> Abort
           [] Whole(m, m.rd, 2) /\ ~Whole(m, m.wr, 2) -> Undefined
           [] OTHER -> IfMatch(Match(m, Chunk(m, m.rd, 1), m.wr), TwoReadsTwoWrites(m))
    [] OTHER ->
         IF /\ Reads(m.cell) > 2 /\ CanCascade(m, m.rd, Reads(m.cell))
            /\ Writes(m.cell) > 2 /\ CanCascade(m, m.wr, Writes(m.cell))
           THEN Made(ManyReadsManyWrites(m))
           ELSE Abort

(* map_bram_to_mem_hardblocks                                              *)
MapBram(m) == IF ForLutram(m) THEN Unmapped ELSE MapPorts(m)

(***************************************************************************)
(* partial_map_node has no case for the multiplexers of shared ports, nor  *)
(* for a memory that was left unmapped.                                    *)
(***************************************************************************)
Take(result) ==
  /\ wires' = wires \o result.rams
  /\ stuck' = (stuck \/ (result.is = "ok" /\ \A i \in DOMAIN result.rams : result.rams[i].muxed))
  /\ outcome' = result.is

-----------------------------------------------------------------------------
BlockInit ==
  /\ design \in Designs
  /\ unresolved = DOMAIN design.cells
  /\ block_memory_list = <<>> /\ read_only_memory_list = <<>>
  /\ wires = <<>>
  /\ stuck = FALSE /\ outcome = "ok"

(* resolve_single_port_ram, resolve_dual_port_ram                          *)
ResolvePrimitive(c) ==
  /\ c \in unresolved /\ Cell(c).cell = "ram"
  /\ unresolved' = unresolved \ {c}
  /\ wires' = Append(wires, Primitive(c))
  /\ UNCHANGED <<design, block_memory_list, read_only_memory_list, stuck, outcome>>

(* resolve_ymem_node, resolve_ymem2_node                                   *)
ResolveYmem(c) ==
  /\ c \in unresolved /\ Cell(c).cell = "mem"
  /\ unresolved' = unresolved \ {c}
  /\ IF Writes(c) = 0
       THEN /\ read_only_memory_list' = <<BlockMemory(c)>> \o read_only_memory_list
            /\ UNCHANGED block_memory_list
       ELSE /\ block_memory_list' = <<BlockMemory(c)>> \o block_memory_list
            /\ UNCHANGED read_only_memory_list
  /\ UNCHANGED <<design, wires, stuck, outcome>>

(* iterate_block_memories: the block memories first.                       *)
IterateBrams ==
  /\ outcome = "ok" /\ unresolved = {} /\ block_memory_list # <<>>
  /\ Take(MapBram(Head(block_memory_list)))
  /\ block_memory_list' = Tail(block_memory_list)
  /\ UNCHANGED <<design, unresolved, read_only_memory_list>>

IterateRoms ==
  /\ outcome = "ok" /\ unresolved = {}
  /\ block_memory_list = <<>> /\ read_only_memory_list # <<>>
  /\ Take(MapRom(Head(read_only_memory_list)))
  /\ read_only_memory_list' = Tail(read_only_memory_list)
  /\ UNCHANGED <<design, unresolved, block_memory_list>>

(* No memory is left to be mapped.                                         *)
BlockDone ==
  outcome = "ok" /\ unresolved = {} /\ block_memory_list = <<>> /\ read_only_memory_list = <<>>

BlockStep ==
  \/ \E c \in unresolved : ResolvePrimitive(c) \/ ResolveYmem(c)
  \/ IterateBrams
  \/ IterateRoms
=============================================================================
