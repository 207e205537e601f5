------------------------------ MODULE Memories ------------------------------
(***************************************************************************)
(* The random access memories of a design, from memories.cc: single port   *)
(* and dual port RAMs are created, cut in depth and in width until every   *)
(* piece fits the RAM block of the architecture, padded to the size of the *)
(* block, and given to a hard block or to flip-flops by the partial map.   *)
(*                                                                         *)
(* A RAM has one port or two, so "kind" is a number of ports; the lists    *)
(* sp_memory_list and dp_memory_list are memory_list[1] and memory_list[2].*)
(* iterate_memories is a fixed sequence of loops over one list each        *)
(* (Program): every loop takes the list over (work), empties it, and puts  *)
(* back what it keeps.                                                     *)
(*                                                                         *)
(* A pin of a memory node is the number of the address line or of the data *)
(* bit of the RAM it stands for, or Pad.  A depth cut hangs an AND gate on *)
(* the write enable of each piece and a multiplexer on each output: we and *)
(* sel are the gates and the multiplexers a piece has come behind.         *)
(***************************************************************************)
EXTENDS Integers, Sequences, FiniteSets

CONSTANTS
  Archs,          \* the RAM blocks and memory options of the architectures
  HardAddrLimit,  \* HARD_RAM_ADDR_LIMIT
  SoftAddrLimit   \* SOFT_RAM_ADDR_LIMIT

Kinds == {1, 2}
Positive == Nat \ {0}
Bit == {0, 1}

(***************************************************************************)
(* blocks: the RAM models of the architecture, by kind, with the least and *)
(* the greatest width of an address port (min_size, size) and the width of *)
(* a data port.  depth is split_memory_depth: -1 and -2 stand for the      *)
(* least and the greatest, 0 for unset.  width is split_memory_width.      *)
(***************************************************************************)
IsArch(a) ==
  /\ DOMAIN a.blocks \subseteq Kinds
  /\ \A k \in DOMAIN a.blocks :
        a.blocks[k] \in [addr_min : Positive, addr : Positive, data : Positive]
  /\ a.depth \in {-2, -1} \cup Nat
  /\ a.width \in BOOLEAN
  /\ a.depth_threshold \in Nat /\ a.width_threshold \in Nat

(* The shape of a RAM: the width of the address of each port, and of data. *)
Shape == {s \in [addr : Seq(Positive), data : Positive] : Len(s.addr) \in Kinds}

ASSUME MemoriesAssumption ==
  /\ \A a \in Archs : IsArch(a)
  /\ HardAddrLimit \in Nat /\ SoftAddrLimit \in Nat

VARIABLES
  arch,
  rams,         \* the shapes of the RAMs, in the order they are created
  nodes,        \* the memory nodes, in the order they are allocated
  memory_list,  \* indexes of nodes, by kind, the head first
  work,         \* temp: what the loop has still to look at
  loop,         \* which loop of Program runs; 0 while RAMs are created
  stage

memories_vars == <<arch, rams, nodes, memory_list, work, loop, stage>>

Pad == 0

Ports(r) == DOMAIN rams[r].addr

Widest(s) == IF Len(s.addr) = 2 /\ s.addr[2] > s.addr[1] THEN s.addr[2] ELSE s.addr[1]

-----------------------------------------------------------------------------
(***************************************************************************)
(* The sizes memories are split to.  register_hard_blocks also writes them *)
(* into the ports of the model, so they are the widths of the block's      *)
(* address and data ports from there on.                                   *)
(***************************************************************************)
SplitDepth(k) ==
  CASE arch.depth = -1 -> arch.blocks[k].addr_min
    [] arch.depth > 0  -> arch.depth
    [] OTHER           -> arch.blocks[k].addr

SplitWidth(k) == IF arch.width THEN 1 ELSE arch.blocks[k].data

-----------------------------------------------------------------------------
(* The size of a memory against the soft logic thresholds.                 *)

AddrWidth(n) == Len(n.addr[1])
DataWidth(n) == Len(n.data[1])

LargeEnough(n) ==
  2 ^ AddrWidth(n) > arch.depth_threshold \/ DataWidth(n) > arch.width_threshold

Kind(n) == Len(n.addr)

-----------------------------------------------------------------------------
(* Creation of RAMs.                                                       *)

AddrPins(width, widest) == [i \in 1..widest |-> IF i <= width THEN i ELSE Pad]

NewMemory(r, s) ==
  [ram  |-> r,
   addr |-> [p \in DOMAIN s.addr |-> AddrPins(s.addr[p], Widest(s))],
   data |-> [p \in DOMAIN s.addr |-> [i \in 1..s.data |-> i]],
   out  |-> [p \in DOMAIN s.addr |-> [i \in 1..s.data |-> i]],
   we   |-> [p \in DOMAIN s.addr |-> <<>>],
   sel  |-> [p \in DOMAIN s.addr |-> <<>>],
   made |-> "memory"]

CreateRam(s) ==
  /\ stage = "create"
  /\ rams' = Append(rams, s)
  /\ nodes' = Append(nodes, NewMemory(Len(rams) + 1, s))
  /\ memory_list' =
       [memory_list EXCEPT ![Len(s.addr)] = <<Len(nodes) + 1>> \o @]
  /\ UNCHANGED <<arch, work, loop, stage>>

-----------------------------------------------------------------------------
(* iterate_memories.                                                       *)

Has(k) == k \in DOMAIN arch.blocks

Only(k, loops) == IF Has(k) THEN loops ELSE <<>>

Filters == Only(1, << <<"filter", 1>> >>) \o Only(2, << <<"filter", 2>> >>)

SplitAndPad(k) ==
  Only(k, << <<"depth", k>>, <<"width", k>> >> \o Filters \o << <<"pad", k>> >>)

Program == Filters \o SplitAndPad(1) \o SplitAndPad(2)

Pass == Program[loop][1]
ListKind == Program[loop][2]

TooDeep(n) == AddrWidth(n) > HardAddrLimit

(* Mutation: the list is looked through without being taken over.          *)
StartLoop_ListKept(l) ==
  /\ loop' = l
  /\ IF l > Len(Program)
       THEN /\ stage' = "map"
            /\ memory_list' = [k \in Kinds |-> <<>>]
            /\ UNCHANGED work
       ELSE /\ stage' = "iterate"
            /\ work' = memory_list[Program[l][2]]
            /\ UNCHANGED memory_list

(* free_memory_lists drops the lists when the last loop is over.           *)
StartLoop(l) ==
  /\ loop' = l
  /\ IF l > Len(Program)
       THEN /\ stage' = "map"
            /\ memory_list' = [k \in Kinds |-> <<>>]
            /\ UNCHANGED work
       ELSE /\ stage' = "iterate"
            /\ work' = memory_list[Program[l][2]]
            /\ memory_list' = [memory_list EXCEPT ![Program[l][2]] = <<>>]

(***************************************************************************)
(* iterate_memories is called only if the architecture has a RAM block,    *)
(* and first checks the depth of every memory, also of a kind that has     *)
(* none.                                                                   *)
(***************************************************************************)
IterateMemories ==
  /\ stage = "create"
  /\ CASE DOMAIN arch.blocks = {} ->
             stage' = "map" /\ UNCHANGED <<memory_list, work, loop>>
       [] DOMAIN arch.blocks # {} /\ (\E k \in Kinds : \E i \in DOMAIN memory_list[k] :
                                        TooDeep(nodes[memory_list[k][i]])) ->
             stage' = "error" /\ UNCHANGED <<memory_list, work, loop>>
       [] OTHER -> StartLoop(1)
  /\ UNCHANGED <<arch, rams, nodes>>

Looking(pass) == stage = "iterate" /\ work # <<>> /\ Pass = pass

(* Mutation: the same loop starts again.                                   *)
NextLoop_Again ==
  /\ stage = "iterate" /\ work = <<>>
  /\ StartLoop(loop)
  /\ UNCHANGED <<arch, rams, nodes>>

NextLoop ==
  /\ stage = "iterate" /\ work = <<>>
  /\ StartLoop(loop + 1)
  /\ UNCHANGED <<arch, rams, nodes>>

Current == work[1]
Node == nodes[Current]

(* insert_in_vptr_list puts a node in front of its list.                   *)
Listing(ns) == memory_list' = [memory_list EXCEPT ![ListKind] = ns \o @]

Replaced(by) == [nodes EXCEPT ![Current].made = "cut"] \o by

(***************************************************************************)
(* split_sp_memory_depth and split_dp_memory_depth take the first address  *)
(* line off: the memory named __S is written and read when it is 1, __H    *)
(* when it is 0.  The pieces are split in turn, __S first.                 *)
(***************************************************************************)
Choice(pin, is) == [pin |-> pin, is |-> is]

(* Mutation: the inverter of the second port's write enable is left out.   *)
DepthPiece_WriteNotInverted(n, is) ==
  [n EXCEPT !.addr = [p \in DOMAIN n.addr |-> Tail(n.addr[p])],
            !.we   = [p \in DOMAIN n.addr |->
                        Append(n.we[p], Choice(n.addr[p][1], IF p = 2 THEN 1 ELSE is))],
            !.sel  = [p \in DOMAIN n.addr |-> Append(n.sel[p], Choice(n.addr[p][1], is))]]

(* Mutation: the multiplexers of both ports look at the first port.        *)
DepthPiece_OneSelector(n, is) ==
  [n EXCEPT !.addr = [p \in DOMAIN n.addr |-> Tail(n.addr[p])],
            !.we   = [p \in DOMAIN n.addr |-> Append(n.we[p], Choice(n.addr[p][1], is))],
            !.sel  = [p \in DOMAIN n.addr |->
                        Append(n.sel[p], Choice(n.addr[p][1], IF p = 2 THEN 0 ELSE is))]]

DepthPiece(n, is) ==
  [n EXCEPT !.addr = [p \in DOMAIN n.addr |-> Tail(n.addr[p])],
            !.we   = [p \in DOMAIN n.addr |-> Append(n.we[p], Choice(n.addr[p][1], is))],
            !.sel  = [p \in DOMAIN n.addr |-> Append(n.sel[p], Choice(n.addr[p][1], is))]]

Keep ==
  /\ Listing(<<Current>>)
  /\ work' = Tail(work)
  /\ UNCHANGED nodes

SplitMemoryDepth ==
  /\ Looking("depth")
  /\ IF AddrWidth(Node) <= SplitDepth(ListKind)
       THEN Keep
       ELSE /\ nodes' = Replaced(<<DepthPiece(Node, 1), DepthPiece(Node, 0)>>)
            /\ work' = <<Len(nodes) + 1, Len(nodes) + 2>> \o Tail(work)
            /\ UNCHANGED memory_list
  /\ UNCHANGED <<arch, rams, loop, stage>>

(***************************************************************************)
(* split_sp_memory_width and split_dp_memory_width: piece i takes the next *)
(* target data and output pins of every port, the last what remains.       *)
(***************************************************************************)
NumPieces(width, target) == (width + target - 1) \div target

Share(pins, i, target) ==
  SubSeq(pins, i * target + 1,
         IF (i + 1) * target < Len(pins) THEN (i + 1) * target ELSE Len(pins))

WidthPiece(n, i, target) ==
  [n EXCEPT !.data = [p \in DOMAIN n.addr |-> Share(n.data[p], i, target)],
            !.out  = [p \in DOMAIN n.addr |-> Share(n.out[p], i, target)]]

SplitMemoryWidth ==
  /\ Looking("width")
  /\ LET target == SplitWidth(ListKind)
         num == NumPieces(DataWidth(Node), target)
     IN  IF DataWidth(Node) <= target
           THEN Keep
           ELSE /\ nodes' = Replaced([i \in 1..num |-> WidthPiece(Node, i - 1, target)])
                /\ Listing([i \in 1..num |-> Len(nodes) + num + 1 - i])
                /\ work' = Tail(work)
  /\ UNCHANGED <<arch, rams, loop, stage>>

(* filter_memories_by_soft_logic_cutoff                                    *)
FilterMemory ==
  /\ Looking("filter")
  /\ Listing(IF LargeEnough(Node) THEN <<Current>> ELSE <<>>)
  /\ work' = Tail(work)
  /\ UNCHANGED <<arch, rams, nodes, loop, stage>>

PadTo(pins, size) ==
  pins \o [i \in 1..(IF size > Len(pins) THEN size - Len(pins) ELSE 0) |-> Pad]

(* Mutation: the outputs of the second port are left as they are.          *)
Padded_OneOutput(n, k) ==
  [n EXCEPT !.addr = [p \in DOMAIN n.addr |-> PadTo(n.addr[p], SplitDepth(k))],
            !.data = [p \in DOMAIN n.addr |-> PadTo(n.data[p], SplitWidth(k))],
            !.out  = [p \in DOMAIN n.addr |->
                        IF p = 2 THEN n.out[p] ELSE PadTo(n.out[p], SplitWidth(k))]]

Padded(n, k) ==
  [n EXCEPT !.addr = [p \in DOMAIN n.addr |-> PadTo(n.addr[p], SplitDepth(k))],
            !.data = [p \in DOMAIN n.addr |-> PadTo(n.data[p], SplitWidth(k))],
            !.out  = [p \in DOMAIN n.addr |-> PadTo(n.out[p], SplitWidth(k))]]

PadMemory ==
  /\ Looking("pad")
  /\ nodes' = [nodes EXCEPT ![Current] = Padded(Node, ListKind)]
  /\ Listing(<<Current>>)
  /\ work' = Tail(work)
  /\ UNCHANGED <<arch, rams, loop, stage>>

-----------------------------------------------------------------------------
(***************************************************************************)
(* The MEMORY case of partial_map_node, for every memory the traversal     *)
(* finds.  create_decoder refuses to build a memory of flip-flops with too *)
(* many address lines.                                                     *)
(***************************************************************************)
IsHard(n) == Has(Kind(n)) /\ LargeEnough(n)

Mapped(n) ==
  CASE n.made = "cut" -> n
    [] n.made # "cut" /\ IsHard(n)  -> [n EXCEPT !.made = "hard"]
    [] n.made # "cut" /\ ~IsHard(n) -> [n EXCEPT !.made = "soft"]

PartialMap ==
  /\ stage = "map"
  /\ IF \E i \in DOMAIN nodes :
          nodes[i].made # "cut" /\ ~IsHard(nodes[i]) /\ AddrWidth(nodes[i]) > SoftAddrLimit
       THEN stage' = "error" /\ UNCHANGED nodes
       ELSE stage' = "mapped" /\ nodes' = [i \in DOMAIN nodes |-> Mapped(nodes[i])]
  /\ UNCHANGED <<arch, rams, memory_list, work, loop>>

(* Another part of the resolution or of the partial map gives up.          *)
Stop ==
  /\ stage \in {"create", "map"}
  /\ stage' = "error"
  /\ UNCHANGED <<arch, rams, nodes, memory_list, work, loop>>

-----------------------------------------------------------------------------
MemoriesInit ==
  /\ arch \in Archs
  /\ rams = <<>> /\ nodes = <<>>
  /\ memory_list = [k \in Kinds |-> <<>>]
  /\ work = <<>> /\ loop = 0
  /\ stage = "create"

IterateStep ==
  IterateMemories \/ NextLoop \/ SplitMemoryDepth \/ SplitMemoryWidth
    \/ FilterMemory \/ PadMemory

MemoriesNext ==
  (\E s \in Shape : CreateRam(s)) \/ IterateStep \/ PartialMap \/ Stop

MemoriesSpec == MemoriesInit /\ [][MemoriesNext]_memories_vars

-----------------------------------------------------------------------------
(* Properties.                                                             *)

Pin == Nat
IsNode(n) ==
  /\ n.ram \in DOMAIN rams
  /\ n.addr \in [Ports(n.ram) -> Seq(Pin)]
  /\ n.data \in [Ports(n.ram) -> Seq(Pin)] /\ n.out \in [Ports(n.ram) -> Seq(Pin)]
  /\ n.we \in [Ports(n.ram) -> Seq([pin : Pin, is : Bit])]
  /\ n.sel \in [Ports(n.ram) -> Seq([pin : Pin, is : Bit])]
  /\ n.made \in {"memory", "cut", "hard", "soft"}

(* Every variable of the pass has its type.                                *)
MemoriesTypeOK ==
  /\ IsArch(arch)
  /\ \A r \in DOMAIN rams : rams[r] \in Shape
  /\ \A i \in DOMAIN nodes : IsNode(nodes[i])
  /\ memory_list \in [Kinds -> Seq(DOMAIN nodes)]
  /\ work \in Seq(DOMAIN nodes)
  /\ loop \in 0..Len(Program) + 1
  /\ stage \in {"create", "iterate", "map", "mapped", "error"}

Remaining(r) == {i \in DOMAIN nodes : nodes[i].ram = r /\ nodes[i].made # "cut"}

(* What port p of RAM r can address: a narrower port has zeros on top.     *)
Addresses(r, p) ==
  {a \in [1..Widest(rams[r]) -> Bit] :
     \A i \in 1..Widest(rams[r]) : i > rams[r].addr[p] => a[i] = 0}

Value(a, pin) == IF pin = Pad THEN 0 ELSE a[pin]
Holds(choices, a) == \A j \in DOMAIN choices : Value(a, choices[j].pin) = choices[j].is
Line(n, p, a) == [i \in DOMAIN n.addr[p] |-> Value(a, n.addr[p][i])]

(* Pin j of port p of piece i carries bit b at address a.                  *)
ReadAt(i, p, a, b, j) == Holds(nodes[i].sel[p], a) /\ nodes[i].out[p][j] = b
WrittenAt(i, p, a, b, j) == Holds(nodes[i].we[p], a) /\ nodes[i].data[p][j] = b

(***************************************************************************)
(* Splitting covers every cell once: at every address, on every port,      *)
(* every bit of a RAM is read from exactly one pin of exactly one piece,   *)
(* and it is that pin it is written through - whatever the order in which  *)
(* depth splits, width splits and padding came.                            *)
(***************************************************************************)
CellsCoveredOnce ==
  \A r \in DOMAIN rams : \A p \in Ports(r) : \A a \in Addresses(r, p) : \A b \in 1..rams[r].data :
    \E i \in Remaining(r) : \E j \in DOMAIN nodes[i].out[p] :
      /\ \A i2 \in Remaining(r) : \A j2 \in DOMAIN nodes[i2].out[p] :
            ReadAt(i2, p, a, b, j2) <=> (i2 = i /\ j2 = j)
      /\ \A i2 \in Remaining(r) : \A j2 \in DOMAIN nodes[i2].data[p] :
            WrittenAt(i2, p, a, b, j2) <=> (i2 = i /\ j2 = j)

(***************************************************************************)
(* Two ports of a RAM share its cells: what port q writes at an address is *)
(* what port p reads at the same address, and only there - also when one   *)
(* address is narrower than the other, and within one port.                *)
(***************************************************************************)
PortsShareCells ==
  \A r \in DOMAIN rams : \A i \in Remaining(r) : \A p, q \in Ports(r) :
    /\ nodes[i].out[p] = nodes[i].data[q]
    /\ \A a \in Addresses(r, p), c \in Addresses(r, q) :
         Holds(nodes[i].sel[p], a) /\ Holds(nodes[i].we[q], c) =>
           ((Line(nodes[i], p, a) = Line(nodes[i], q, c)) <=> (a = c))

(***************************************************************************)
(* The lists never hold a memory that was freed, nor a memory twice: a     *)
(* loop looks at a memory once, and a cut memory is gone from every list.  *)
(***************************************************************************)
Occurs(i) ==
  {x \in Kinds \X (1..Len(nodes)) :
     x[2] \in DOMAIN memory_list[x[1]] /\ memory_list[x[1]][x[2]] = i}
  \cup {<<0, j>> : j \in {j \in DOMAIN work : work[j] = i}}

ListsHoldNodesOnce ==
  \A i \in DOMAIN nodes :
    /\ \A x, y \in Occurs(i) : x = y
    /\ nodes[i].made = "cut" => Occurs(i) = {}

(***************************************************************************)
(* A memory given to a hard block has exactly the pins of the block's      *)
(* ports: the thresholds that decide at the end decide as the filters did, *)
(* and no memory reaches the block without having been split and padded.   *)
(***************************************************************************)
HardFits ==
  \A i \in DOMAIN nodes : nodes[i].made = "hard" =>
    \A p \in DOMAIN nodes[i].addr :
      /\ Len(nodes[i].addr[p]) = SplitDepth(Kind(nodes[i]))
      /\ Len(nodes[i].data[p]) = SplitWidth(Kind(nodes[i]))
      /\ Len(nodes[i].out[p]) = SplitWidth(Kind(nodes[i]))
=============================================================================
