--------------------------- MODULE MemoryMapping ---------------------------
(***************************************************************************)
(* From the memory cells of a design to the memories of the output: the    *)
(* resolution and the mapping of block memories (BlockMemories) create the *)
(* RAMs that iterate_memories splits and pads and the partial map makes    *)
(* hard or soft (Memories).  Then the output is clocked, and every memory  *)
(* cell has to answer as the abstract Ram does.                            *)
(***************************************************************************)
EXTENDS Memories, BlockMemories

CONSTANTS
  MaxClocks,      \* bound: clock edges of the output
  ChangingClocks  \* bound: edges after which nets change before the outputs are looked at

ASSUME MappingAssumption == MaxClocks \in Nat /\ ChangingClocks \in Nat

VARIABLES
  contents,   \* leaf memory, line, pin -> label, once the output is made
  applied,    \* the inputs of the last edge, and the nets as they are now
  out,        \* what the read ports of the cells return now
  edges

output_vars == <<contents, applied, out, edges>>
vars == <<memories_vars, block_vars, output_vars>>

-----------------------------------------------------------------------------
(* create_single_port_ram, create_dual_port_ram: the RAM of the last wires.*)

(* create_nr_single_port_ram pads its data for all the reads of the ROM.   *)
DataBits(ram) ==
  IF ram.muxed /\ Len(ram.ports) = 1
    THEN Reads(ram.cell) * Cell(ram.cell).dbits
    ELSE Cell(ram.cell).dbits

ShapeOf(ram) ==
  [addr |-> [p \in DOMAIN ram.ports |-> Len(ram.ports[p].addr[1])],
   data |-> DataBits(ram)]

Creates == wires' # wires

CreateOrStop ==
  CASE outcome' # "ok" -> Stop
    [] outcome' = "ok" /\ Creates -> CreateRam(ShapeOf(wires'[Len(wires')]))
    [] outcome' = "ok" /\ ~Creates -> UNCHANGED memories_vars

Blocks ==
  /\ stage = "create"
  /\ BlockStep
  /\ CreateOrStop
  /\ UNCHANGED output_vars

Iterate ==
  /\ stage = "create" => BlockDone
  /\ IterateStep
  /\ UNCHANGED <<block_vars, output_vars>>

-----------------------------------------------------------------------------
(* The memories of the output.                                             *)

Leaf(i) == nodes'[i].made \in {"hard", "soft"}

(* What a memory holds before the first edge.                              *)
Initial(n, i) ==
  [line \in [1..AddrWidth(n) -> Bit] |-> [j \in 1..DataWidth(n) |-> <<0, i, line, j>>]]

PartialMapTop ==
  /\ stage = "map"
  /\ IF stuck THEN Stop ELSE PartialMap
  /\ contents' =
       IF stage' = "mapped"
         THEN [i \in {i \in DOMAIN nodes : Leaf(i)} |-> Initial(nodes[i], i)]
         ELSE contents
  /\ UNCHANGED <<block_vars, applied, out, edges>>

AddressesOf(c) == Range(Cell(c).rd) \cup Range(Cell(c).wr)

Nets == UNION {Range(port) : port \in UNION {AddressesOf(c) : c \in DOMAIN design.cells}}

WritePorts == UNION {{<<c, w>> : w \in 1..Writes(c)} : c \in DOMAIN design.cells}

(* The address lines of port p of RAM r, and the line it makes memory i    *)
(* look at, when the nets have these values.                               *)
Lines(r, p, nets) ==
  [i \in DOMAIN wires[r].ports[p].addr[1] |-> nets[wires[r].ports[p].addr[1][i]]]

LineOf(i, p, nets) == Line(nodes[i], p, Lines(nodes[i].ram, p, nets))

(* Does port p of memory i write at this edge?  A port tied to zero does   *)
(* not.                                                                    *)
WritesAt(i, p, in) ==
  LET ram == wires[nodes[i].ram]
  IN  /\ ram.ports[p].we # <<>> /\ <<ram.cell, ram.ports[p].we[1]>> \in in.enabled
      /\ Holds(nodes[i].we[p], Lines(nodes[i].ram, p, in.value))

(* The label that port p of memory i takes in on pin j.  Pads are one.     *)
DataAt(i, p, j) ==
  LET ram == wires[nodes[i].ram]
  IN  IF nodes[i].data[p][j] = Pad \/ ram.ports[p].data = <<>>
        THEN <<0>>
        ELSE <<edges + 1, ram.cell, ram.ports[p].data[1], nodes[i].data[p][j]>>

(***************************************************************************)
(* One edge.  When two ports write to one line, the bits of one of them    *)
(* win: in a hard block those of the port that is simulated last           *)
(* (dual_port_ram of primitives.v), in a soft RAM it depends on the bits,  *)
(* as the two are merged by OR.  A port of a hard block latches what it    *)
(* finds when it is simulated, after its own write, at the address of the  *)
(* edge; a soft RAM is read after the edge, at the present address.        *)
(***************************************************************************)
After(i, ports, in, last, line, j) ==
  LET writing == {p \in ports : WritesAt(i, p, in) /\ LineOf(i, p, in.value) = line}
  IN  IF writing = {} THEN contents[i][line][j]
      ELSE IF last \in writing THEN DataAt(i, last, j)
      ELSE DataAt(i, CHOOSE p \in writing : TRUE, j)

Simulated(i, p, last) ==
  IF nodes[i].made = "hard" /\ p # last THEN {p} ELSE DOMAIN nodes[i].addr

Seen(i, p, in, last, j) ==
  After(i, Simulated(i, p, last), in, last,
        LineOf(i, p, IF nodes[i].made = "hard" THEN in.value ELSE in.now), j)

(* The pins that the multiplexers of the outputs let through for bit b of  *)
(* port q of RAM r, at the address on these lines.                         *)
Leaves(r) == {i \in DOMAIN contents : nodes[i].ram = r}

Through(r, q, lines, b) ==
  UNION {{<<i, j>> : j \in {j \in DOMAIN nodes[i].out[q] : ReadAt(i, q, lines, b, j)}}
         : i \in Leaves(r)}

OnlyOne(labels) == IF \E l \in labels : labels = {l} THEN CHOOSE l \in labels : TRUE ELSE <<>>

(* The multiplexers are switched by the present address.                   *)
ReadBit(r, q, in, last, b) ==
  OnlyOne({Seen(x[1], q, in, last, x[2]) : x \in Through(r, q, Lines(r, q, in.now), b)})

RamOf(c) == CHOOSE r \in DOMAIN wires : wires[r].cell = c

-----------------------------------------------------------------------------
(* Which bit of which memory holds bit b of word a of cell c.              *)

WidestPort(s) == IF Len(s.addr) = 2 /\ s.addr[2] > s.addr[1] THEN 2 ELSE 1

Bits(a, width) == [k \in 1..width |-> (a \div 2 ^ (k - 1)) % 2]

CellBit(c, a, b) ==
  LET r == RamOf(c)
      p == WidestPort(rams[r])
      bits == Bits(a, Widest(rams[r]))
  IN  OnlyOne({contents[x[1]][Line(nodes[x[1]], p, bits)][x[2]] : x \in Through(r, p, bits, b)})

CellContents ==
  IF stage # "mapped" THEN <<>>
  ELSE [c \in DOMAIN design.cells |-> [a \in 0..(Cell(c).size - 1) |->
          [b \in 1..Cell(c).dbits |-> CellBit(c, a, b)]]]

Promise == INSTANCE Ram WITH mem <- CellContents

-----------------------------------------------------------------------------
Clock(in, last) ==
  /\ stage = "mapped" /\ edges < MaxClocks
  /\ Promise!InRange(in)
  /\ edges' = edges + 1
  /\ applied' = in
  /\ contents' = [i \in DOMAIN contents |-> [line \in DOMAIN contents[i] |->
                    [j \in DOMAIN contents[i][line] |->
                       After(i, DOMAIN nodes[i].addr, in, last, line, j)]]]
  /\ out' = [c \in DOMAIN design.cells |-> [r \in 1..Reads(c) |->
               [b \in 1..Cell(c).dbits |->
                  ReadBit(RamOf(c), wires[RamOf(c)].out[r], in, last, b)]]]
  /\ UNCHANGED <<memories_vars, block_vars>>

Held(in) == in.now = in.value

Inputs ==
  {in \in [value : [Nets -> Bit], enabled : SUBSET WritePorts, now : [Nets -> Bit]] :
     Held(in) \/ edges < ChangingClocks}

-----------------------------------------------------------------------------
MappingInit ==
  /\ MemoriesInit
  /\ BlockInit
  /\ contents = <<>> /\ applied = <<>> /\ out = <<>> /\ edges = 0

Flow == Blocks \/ Iterate \/ PartialMapTop

(* What an edge does does not depend on what the nets changed to before    *)
(* it, so edges are tried only from states in which they held.             *)
ClockTick ==
  /\ edges > 0 => Held(applied)
  /\ \E in \in Inputs, last \in {1, 2} : Clock(in, last)

MappingNext == Flow \/ ClockTick

MappingSpec == MappingInit /\ [][MappingNext]_vars /\ WF_vars(Flow)

-----------------------------------------------------------------------------
(* Properties.                                                             *)

(***************************************************************************)
(* The memories of the output do what the memory cells of the design do:   *)
(* no write is lost, doubled or misplaced, and no read is answered from    *)
(* another port or cell, nor from another word while its address holds.    *)
(* When the address changes after the edge, the block that has latched a   *)
(* word and the multiplexers that choose a block disagree: the answer may  *)
(* be a word that was never asked for, but its address is made of lines    *)
(* that were at the port before or after.                                  *)
(***************************************************************************)
Answers == Promise!Spec

(***************************************************************************)
(* A write port that reaches a RAM does so in one piece: the port of the   *)
(* RAM that has its data has its enable and its address too.               *)
(***************************************************************************)
WritePortsWhole ==
  \A r \in DOMAIN wires : ~wires[r].muxed =>
    \A p \in DOMAIN wires[r].ports :
      LET port == wires[r].ports[p]
      IN  /\ port.we = port.data
          /\ port.data # <<>> =>
               \A i \in DOMAIN port.addr[1] :
                 port.addr[1][i] = Cell(wires[r].cell).wr[port.data[1]][i]

(* Every memory is mapped or refused.                                      *)
MappingEnds == <>(stage \in {"mapped", "error"})
=============================================================================
