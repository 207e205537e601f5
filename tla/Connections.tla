---------------------------- MODULE Connections ----------------------------
(***************************************************************************)
(* How the parmys pass carries the connections of a design through its     *)
(* netlist and back: to_netlist builds nodes, pins and nets, the partial   *)
(* mapping removes the buffers that stand for connection statements while  *)
(* it walks over the nets they join, remove_unused_logic detaches what no  *)
(* output depends on, and update_design writes a new module by walking the *)
(* netlist once more.  The pass stops with an error where the code does.   *)
(*                                                                         *)
(* The cells are those the pass hands through (type SKIP): flip-flops,     *)
(* gates of the Yosys library and black boxes.  The resolution leaves them *)
(* alone, and so do the memory, multiplier and adder passes in between.    *)
(* A bit is a name; the widths of ports and the text of names are left     *)
(* out.                                                                    *)
(***************************************************************************)
EXTENDS NetGraph

CONSTANTS
  Names,        \* the identifiers of cells and the bits of wires
  Designs,      \* the designs the pass may be given
  GND_NAME, VCC_NAME, HBPAD_NAME   \* the bits 0, 1 and x

Constants3 == {GND_NAME, VCC_NAME, HBPAD_NAME}

(***************************************************************************)
(* A design: the bits of its ports, its cells, each with a name and the    *)
(* bits of its pins, and its connections <<lhs, rhs>>, in order.           *)
(***************************************************************************)
(* The sources of values that are not cells, in the order of their nodes.  *)
SourceBits(d) == <<GND_NAME, VCC_NAME, HBPAD_NAME>> \o d.inputs

CellOutputs(d) == UNION {ToSet(d.cells[c].outs) : c \in DOMAIN d.cells}

Bits(d) ==
  ToSet(SourceBits(d)) \cup ToSet(d.outputs) \cup (UNION {ToSet(m) : m \in ToSet(d.connections)}) \cup
  UNION {ToSet(c.ins) \cup ToSet(c.outs) : c \in ToSet(d.cells)}

(* The bits b takes its value from, itself included.                       *)
UpstreamBits(d, b) == ClosureOf({b}, ToSet(d.connections))

(* The pins that drive bit b: <<cell, pin>>, <<input, 1>>, <<constant, 1>>. *)
SourcesOf(d, b) ==
  LET up == UpstreamBits(d, b)
  IN  {<<s, 1>> : s \in up \cap (ToSet(d.inputs) \cup Constants3)} \cup
      UNION {{<<c.name, i>> : i \in {i \in DOMAIN c.outs : c.outs[i] \in up}} :
               c \in ToSet(d.cells)}

DesignLinks(d) ==
  (UNION {UNION {{<<s, <<c.name, i>>>> : s \in SourcesOf(d, c.ins[i])} :
                   i \in DOMAIN c.ins} : c \in ToSet(d.cells)}) \cup
  UNION {{<<s, <<o, 1>>>> : s \in SourcesOf(d, o)} : o \in ToSet(d.outputs)}

(* What feeds what, by name.                                               *)
Feeds(d) == {<<l[1][1], l[2][1]>> : l \in DesignLinks(d)}

(* What a value from an input or a constant can get to.                    *)
Reached(d) == ClosureOf(ToSet(d.inputs) \cup Constants3, Feeds(d))

(* The outputs and what they depend on, directly or not.                   *)
NeededNames(d) == ClosureOf(ToSet(d.outputs), Reversed(Feeds(d)))

Cell == [name : Names, ins : Seq(Names), outs : Seq(Names)]

(* An identifier names one cell or one wire of the module.  Yosys cleans a *)
(* design before the pass sees it: a bit is on the left of one connection  *)
(* at most, and the ports and constants are not.  A cell that no value     *)
(* gets to is never visited; the pass assumes there is none.               *)
IsDesign(d) ==
  /\ d \in [inputs : Seq(Names), outputs : Seq(Names), cells : Seq(Cell),
            connections : Seq(Names \X Names)]
  /\ IsInjective(SourceBits(d)) /\ IsInjective(d.outputs)
  /\ \A i, j \in DOMAIN d.cells : d.cells[i].name = d.cells[j].name => i = j
  /\ {c.name : c \in ToSet(d.cells)} \cap Bits(d) = {}
  /\ \A i, j \in DOMAIN d.connections :
        d.connections[i][1] = d.connections[j][1] => i = j
  /\ \A m \in ToSet(d.connections) : m[1] \notin ToSet(d.inputs) \cup Constants3
  /\ {c.name : c \in ToSet(d.cells)} \subseteq Reached(d)

ASSUME DesignsAssumption ==
  Constants3 \subseteq Names /\ \A d \in Designs : IsDesign(d)

VARIABLES
  design,
  graph,        \* the nodes, pins and nets
  output_nets,  \* output_nets_hash: the net that was made for a bit
  cstr_bits_seen, \* the bits named so far
  stage,
  position,     \* the cell, connection or root the running loop has reached
  calls,        \* the traversal calls in progress
  marked,       \* the nodes with the mark of the running traversal
  written       \* the module update_design builds

vars == <<design, graph, output_nets, cstr_bits_seen, stage, position, calls,
          marked, written>>

importVars == <<output_nets, cstr_bits_seen>>
walkVars == <<calls, marked>>

Stages == {"cells", "connections", "hook_up", "map", "sweep", "write",
           "outputs", "done", "refused"}

(* Cells by name with the wires of their pins, and what drives each output.*)
Nothing == [cells |-> <<>>, connects |-> {}]

Refuse == stage' = "refused"

-----------------------------------------------------------------------------
(* Building the netlist.                                                   *)

(* An output pin on net bit; nets maps the bits to their nets.             *)
NewDriver(g, n, net, name) ==
  LET pinned == AllocatePin(g, name)
      owned == AddOutputPinToNode(pinned, n, LastPin(pinned))
  IN  AddDriverPinToNet(owned, net, LastPin(owned))

(* A constant or an input: a node with one output pin on a net of its own. *)
(* The pin of an input has a name, that of a constant has not.             *)
SourceNode(g, bit) ==
  LET constant == bit \in Constants3
      node == AllocateNode(g, IF constant THEN "constant" ELSE "input", bit)
      net == AllocateNet(node, bit)
  IN  NewDriver(net, LastNode(node), LastNet(net), IF constant THEN NoName ELSE <<bit, 0>>)

(* An input pin, not on a net yet: it waits for hook_up_nets.              *)
NewReader(g, n, bit) ==
  LET pinned == AllocatePin(g, <<bit, 0>>)
  IN  AddInputPinToNode(pinned, n, LastPin(pinned))

OutputNode(g, bit) ==
  LET node == AllocateNode(g, "output", bit)
  IN  NewReader(node, LastNode(node), bit)

(* create_top_driver_nets, then the top inputs, then the top outputs.      *)
TopGraph(d) ==
  LET sources == Accumulate(LAMBDA g, b : SourceNode(g, b), EmptyGraph, SourceBits(d))
  IN  Accumulate(LAMBDA g, b : OutputNode(g, b), sources, d.outputs)

(* The sources were allocated first, one node and one net each.            *)
Gnd == 1
Vcc == 2
Pad == 3
Inputs(d) == [i \in DOMAIN d.inputs |-> 3 + i]
Outputs(d) == [i \in DOMAIN d.outputs |-> 3 + Len(d.inputs) + i]

Init ==
  /\ design \in Designs
  /\ graph = TopGraph(design)
  /\ output_nets = [b \in ToSet(SourceBits(design)) |->
                      CHOOSE i \in DOMAIN SourceBits(design) : SourceBits(design)[i] = b]
  /\ cstr_bits_seen = ToSet(design.inputs) \cup ToSet(design.outputs)
  /\ stage = "cells"
  /\ position = 1
  /\ calls = <<>> /\ marked = {}
  /\ written = Nothing

(* map_output_port gives the net of the bit another driver if there is     *)
(* such a net, and makes one otherwise.  A state of the import is the      *)
(* graph and the hash table.                                               *)
DriveBit(s, n, bit) ==
  LET made == bit \notin DOMAIN s.nets
      g == IF made THEN AllocateNet(s.graph, bit) ELSE s.graph
      nets == [b \in DOMAIN s.nets \cup {bit} |->
                 IF made /\ b = bit THEN LastNet(g) ELSE s.nets[b]]
  IN  [graph |-> NewDriver(g, n, nets[bit], NoName), nets |-> nets]

NamedNode(type, name, ins, outs) ==
  LET node == AllocateNode(graph, type, name)
      n == LastNode(node)
      read == Accumulate(LAMBDA g, b : NewReader(g, n, b), node, ins)
  IN  Accumulate(LAMBDA s, b : DriveBit(s, n, b),
               [graph |-> read, nets |-> output_nets], outs)

Import(type, name, ins, outs) ==
  LET made == NamedNode(type, name, ins, outs)
  IN  /\ graph' = made.graph
      /\ output_nets' = made.nets
      /\ cstr_bits_seen' = cstr_bits_seen \cup ToSet(ins) \cup ToSet(outs)

ImportCell ==
  /\ stage = "cells" /\ position \in DOMAIN design.cells
  /\ LET c == design.cells[position] IN Import("skip", c.name, c.ins, c.outs)
  /\ position' = position + 1
  /\ UNCHANGED <<design, stage, walkVars, written>>

LastCell ==
  /\ stage = "cells" /\ position \notin DOMAIN design.cells
  /\ stage' = "connections" /\ position' = 1
  /\ UNCHANGED <<design, graph, importVars, walkVars, written>>

(* A connection becomes a buffer, unless nothing so far has named the bit  *)
(* it drives.  A connection that is imported names its right-hand side,    *)
(* and a later one may then be wanted that would have been dropped before. *)
Wanted_RightHandSide(m) == m[2] \in cstr_bits_seen

Wanted(m) == m[1] \in cstr_bits_seen

ImportConnection ==
  /\ stage = "connections" /\ position \in DOMAIN design.connections
  /\ LET m == design.connections[position]
     IN  IF Wanted(m) THEN Import("buf", m[1], <<m[2]>>, <<m[1]>>)
         ELSE UNCHANGED <<graph, importVars>>
  /\ position' = position + 1
  /\ UNCHANGED <<design, stage, walkVars, written>>

LastConnection ==
  /\ stage = "connections" /\ position \notin DOMAIN design.connections
  /\ stage' = "hook_up" /\ position' = 1
  /\ UNCHANGED <<design, graph, importVars, walkVars, written>>

(* hook_up_nets: the cells and buffers in the order they were made, then   *)
(* the top outputs; each input pin goes on the net of its name.            *)
InternalNodes ==
  LET before == 3 + Len(design.inputs) + Len(design.outputs)
  IN  [k \in 1 .. LastNode(graph) - before |-> before + k]

Unhooked == InternalNodes \o Outputs(design)

BitOf(p) == graph.pins[p].name[1]

HookUpNode(g, n) ==
  Accumulate(LAMBDA h, p : AddFanoutPinToNet(h, output_nets[BitOf(p)], p), g, g.nodes[n].ins)

HookUp ==
  /\ stage = "hook_up"
  /\ IF \E n \in ToSet(Unhooked) : \E p \in ToSet(graph.nodes[n].ins) :
           BitOf(p) \notin DOMAIN output_nets
     THEN Refuse /\ UNCHANGED graph
     ELSE /\ graph' = Accumulate(LAMBDA g, n : HookUpNode(g, n), graph, Unhooked)
          /\ stage' = "map"
  /\ UNCHANGED <<design, importVars, position, walkVars, written>>

-----------------------------------------------------------------------------
(* The two depth-first traversals, partial mapping and writing.  A call    *)
(* holds the node, the number of the output pin, the net of that pin and   *)
(* the number of the next reader.  The readers of the net are looked up    *)
(* anew at every step: the net may have grown since.                       *)

Roots ==
  IF stage = "map" THEN Inputs(design) \o <<Gnd, Vcc, Pad>>
  ELSE <<Gnd, Vcc, Pad>> \o Inputs(design)

Call(n, i) ==
  [node |-> n, pin |-> i, reader |-> 1,
   net |-> IF i \in DOMAIN graph.nodes[n].outs
           THEN graph.pins[graph.nodes[n].outs[i]].net ELSE Null]

Running == Last(calls)
Continue(call) == Append(Front(calls), call)

Walking == stage \in {"map", "write"}

(* cell_hard_block names the wire of an input pin after the driver of its  *)
(* net: after the pin if that has a name, else after the node.             *)
WireOf(p) ==
  IF graph.pins[p].name # NoName THEN graph.pins[p].name
  ELSE <<graph.nodes[graph.pins[p].node].name, 0>>

DriversOf(p) == graph.nets[graph.pins[p].net].drivers

WrittenCell(n) ==
  LET c == graph.nodes[n]
  IN  [name |-> c.name,
       ins |-> [i \in DOMAIN c.ins |-> WireOf(DriversOf(c.ins[i])[1])],
       outs |-> [i \in DOMAIN c.outs |-> graph.pins[c.outs[i]].name]]

(* A buffer the mapping left, or a cell input with several drivers.        *)
Unwritable(n) ==
  \/ graph.nodes[n].type = "buf"
  \/ /\ graph.nodes[n].type = "skip"
     /\ \E p \in ToSet(graph.nodes[n].ins) : Len(DriversOf(p)) > 1

(* Entering a node marks it; the writer also writes it, before its readers.*)
Visit(n) ==
  /\ calls' = Append(IF calls = <<>> THEN <<>>
                     ELSE Continue([Running EXCEPT !.reader = @ + 1]), Call(n, 1))
  /\ marked' = marked \cup {n}
  /\ IF stage = "write" /\ Unwritable(n)
     THEN Refuse /\ UNCHANGED written
     ELSE /\ UNCHANGED stage
          /\ written' = IF stage = "write" /\ graph.nodes[n].type = "skip"
                        THEN [written EXCEPT !.cells = Append(@, WrittenCell(n))]
                        ELSE written

VisitRoot ==
  /\ Walking /\ calls = <<>> /\ position \in DOMAIN Roots
  /\ Visit(Roots[position])
  /\ position' = position + 1
  /\ UNCHANGED <<design, graph, importVars>>

Reader(call) == graph.nets[call.net].fanouts[call.reader]

AtReader ==
  /\ Walking /\ calls # <<>> /\ Running.net # Null
  /\ Running.reader \in DOMAIN graph.nets[Running.net].fanouts

Unmarked(p) == p # Null /\ graph.pins[p].node \notin marked

VisitReader ==
  /\ AtReader /\ Unmarked(Reader(Running))
  /\ Visit(graph.pins[Reader(Running)].node)
  /\ UNCHANGED <<design, graph, importVars, position>>

SkipReader ==
  /\ AtReader /\ ~Unmarked(Reader(Running))
  /\ calls' = Continue([Running EXCEPT !.reader = @ + 1])
  /\ UNCHANGED <<design, graph, importVars, position, stage, marked, written>>

NextOutputPin_SamePin ==
  /\ Walking /\ calls # <<>> /\ Running.net # Null
  /\ Running.reader \notin DOMAIN graph.nets[Running.net].fanouts
  /\ calls' = Continue(Call(Running.node, Running.pin))
  /\ UNCHANGED <<design, graph, importVars, position, stage, marked, written>>

NextOutputPin ==
  /\ Walking /\ calls # <<>> /\ Running.net # Null
  /\ Running.reader \notin DOMAIN graph.nets[Running.net].fanouts
  /\ calls' = Continue(Call(Running.node, Running.pin + 1))
  /\ UNCHANGED <<design, graph, importVars, position, stage, marked, written>>

(* eliminate_buffer: the readers of the buffer move to the net it reads,   *)
(* unless its own net has other drivers.                                   *)
InputNet(n) == graph.pins[graph.nodes[n].ins[1]].net
OutputNet(n) == graph.pins[graph.nodes[n].outs[1]].net

EliminateBuffer_PinKept(n) ==
  IF Len(graph.nets[OutputNet(n)].drivers) > 1 THEN graph
  ELSE FreeNode(JoinNets(graph, InputNet(n), OutputNet(n)), n)

EliminateBuffer(n) ==
  IF Len(graph.nets[OutputNet(n)].drivers) > 1 THEN graph
  ELSE FreeNode(DeletePin(JoinNets(graph, InputNet(n), OutputNet(n)),
                          graph.nodes[n].ins[1]), n)

(* instantiate_hard_block names the output pins that have no name yet.     *)
InstantiateHardBlock_PinName(g, n) ==
  [g EXCEPT !.pins = [p \in DOMAIN @ |->
     IF @[p].node = n /\ @[p].output THEN [@[p] EXCEPT !.name = <<g.nodes[n].name, 1>>]
     ELSE @[p]]]

InstantiateHardBlock(g, n) ==
  [g EXCEPT !.pins = [p \in DOMAIN @ |->
     IF @[p].node = n /\ @[p].output /\ @[p].name = NoName
     THEN [@[p] EXCEPT !.name = <<g.nodes[n].name, g.pins[p].slot>>] ELSE @[p]]]

PartialMapNode(n) ==
  CASE graph.nodes[n].type = "buf" -> EliminateBuffer(n)
    [] graph.nodes[n].type = "skip" -> InstantiateHardBlock(graph, n)
    [] OTHER -> graph

(* join_nets refuses a buffer that reads the net it drives.                *)
LoopsBack(n) ==
  graph.nodes[n].type = "buf" /\ InputNet(n) = OutputNet(n)
  /\ Len(graph.nets[OutputNet(n)].drivers) = 1

Return ==
  /\ Walking /\ calls # <<>> /\ Running.net = Null
  /\ calls' = Front(calls)
  /\ IF stage = "map" /\ LoopsBack(Running.node)
     THEN Refuse /\ UNCHANGED graph
     ELSE /\ UNCHANGED stage
          /\ graph' = IF stage = "map" THEN PartialMapNode(Running.node) ELSE graph
  /\ UNCHANGED <<design, importVars, position, marked, written>>

TraversalDone ==
  /\ Walking /\ calls = <<>> /\ position \notin DOMAIN Roots
  /\ stage' = IF stage = "map" THEN "sweep" ELSE "outputs"
  /\ position' = 1
  /\ marked' = {}
  /\ UNCHANGED <<design, graph, importVars, calls, written>>

-----------------------------------------------------------------------------
(* The edges from node to node.                                            *)
Edges ==
  UNION {{<<graph.pins[d].node, graph.pins[p].node>> :
            d \in ToSet(m.drivers), p \in ToSet(m.fanouts) \ {Null}} :
           m \in {m \in ToSet(graph.nets) : m.live}}

(* remove_unused_logic in one step (NetlistCleanup has its searches): what *)
(* the forward search finds and no output depends on stops reading nets.   *)
Useless ==
  LET sources == ToSet(Roots)
  IN  ClosureOf(sources, Edges)
        \ (ClosureOf(ToSet(Outputs(design)), Reversed(Edges)) \cup sources)

(* Only the places in a net are emptied: the pins keep their net.          *)
WithoutReaders(m, nodes) ==
  [m EXCEPT !.fanouts = [k \in DOMAIN @ |->
     IF @[k] # Null /\ graph.pins[@[k]].node \in nodes THEN Null ELSE @[k]]]

RemoveUnusedLogic ==
  /\ stage = "sweep"
  /\ LET useless == Useless
     IN  graph' = [graph EXCEPT !.nets =
                     [m \in DOMAIN @ |-> WithoutReaders(@[m], useless)]]
  /\ stage' = "write"
  /\ UNCHANGED <<design, importVars, position, walkVars, written>>

(* update_design last connects every top output to all drivers of its net. *)
OutputWire(p) ==
  IF graph.nodes[graph.pins[p].node].type = "skip" /\ graph.pins[p].name # NoName
  THEN graph.pins[p].name
  ELSE <<graph.nodes[graph.pins[p].node].name, 0>>

ConnectOutputs_FirstDriver ==
  [written EXCEPT !.connects =
     {<<graph.nodes[n].name, OutputWire(DriversOf(graph.nodes[n].ins[1])[1])>> :
        n \in ToSet(Outputs(design))}]

ConnectOutputs ==
  [written EXCEPT !.connects =
     UNION {{<<graph.nodes[n].name, OutputWire(p)>> :
               p \in ToSet(DriversOf(graph.nodes[n].ins[1]))} :
              n \in ToSet(Outputs(design))}]

WriteOutputs ==
  /\ stage = "outputs"
  /\ written' = ConnectOutputs
  /\ stage' = "done"
  /\ UNCHANGED <<design, graph, importVars, position, walkVars>>

Next ==
  \/ ImportCell \/ LastCell \/ ImportConnection \/ LastConnection \/ HookUp
  \/ VisitRoot \/ VisitReader \/ SkipReader \/ NextOutputPin \/ Return
  \/ TraversalDone \/ RemoveUnusedLogic \/ WriteOutputs

Spec == Init /\ [][Next]_vars

(* One thread runs the pass and does nothing else.                         *)
FairSpec == Spec /\ WF_vars(Next)

-----------------------------------------------------------------------------
(* Properties.                                                             *)

LiveNodes == {n \in DOMAIN graph.nodes : graph.nodes[n].live}
LiveNets == {m \in DOMAIN graph.nets : graph.nets[m].live}
LivePins == {p \in DOMAIN graph.pins : graph.pins[p].live}
Hooked == \E m \in DOMAIN graph.nets : graph.nets[m].fanouts # <<>>

(* No pointer that is still followed leads to a freed object: not from a   *)
(* live node to its pins, from a live net to its drivers and readers, from *)
(* their pins back, nor from a call in progress to its node and the net    *)
(* whose readers it runs through, although join_nets frees nets and        *)
(* eliminate_buffer frees nodes below those calls.                         *)
NoDangling ==
  /\ stage \in Stages
  /\ \A n \in LiveNodes :
        ToSet(graph.nodes[n].ins \o graph.nodes[n].outs) \ {Null} \subseteq LivePins
  /\ \A m \in LiveNets :
        /\ ToSet(graph.nets[m].drivers \o graph.nets[m].fanouts) \ {Null} \subseteq LivePins
        /\ \A p \in ToSet(graph.nets[m].drivers \o graph.nets[m].fanouts) \ {Null} :
              graph.pins[p].node \in LiveNodes
  /\ \A p \in LivePins : graph.pins[p].net \in LiveNets \cup {Null}
  /\ \A k \in DOMAIN calls :
        calls[k].node \in LiveNodes /\ calls[k].net \in LiveNets \cup {Null}

(* Nodes and nets are agreed with by their pins: the pin in a slot of a    *)
(* live node names this node and slot, and the pin at a place of a live    *)
(* net, unless the place was emptied, names this net and place.            *)
(* eliminate_buffer empties the place a pin names: a wrong number would    *)
(* cut off another reader of the net.                                      *)
PointersAgree ==
  /\ \A n \in LiveNodes :
        /\ \A i \in DOMAIN graph.nodes[n].ins :
              LET p == graph.pins[graph.nodes[n].ins[i]]
              IN  p.node = n /\ p.slot = i /\ ~p.output
        /\ \A i \in DOMAIN graph.nodes[n].outs :
              LET p == graph.pins[graph.nodes[n].outs[i]]
              IN  p.node = n /\ p.slot = i /\ p.output
  /\ \A m \in LiveNets :
        /\ \A k \in DOMAIN graph.nets[m].drivers :
              LET p == graph.pins[graph.nets[m].drivers[k]]
              IN  p.net = m /\ p.place = k /\ p.output
        /\ \A k \in DOMAIN graph.nets[m].fanouts : graph.nets[m].fanouts[k] # Null =>
              LET p == graph.pins[graph.nets[m].fanouts[k]]
              IN  p.net = m /\ p.place = k /\ ~p.output

(* A cell is written once at most, however many paths of the netlist lead  *)
(* to it, and no two pins of the new module drive the same wire.           *)
WrittenOnce ==
  /\ \A i, j \in DOMAIN written.cells :
        written.cells[i].name = written.cells[j].name => i = j
  /\ \A i, j \in DOMAIN written.cells :
        \A k \in DOMAIN written.cells[i].outs, l \in DOMAIN written.cells[j].outs :
           written.cells[i].outs[k] = written.cells[j].outs[l] => i = j /\ k = l

(* A design in which every bit that is read has one driver, and in which a *)
(* connection takes its value from an earlier one only through a bit that  *)
(* a port or a cell mentions.                                              *)
Mentioned ==
  ToSet(design.inputs) \cup ToSet(design.outputs) \cup
  UNION {ToSet(c.ins) \cup ToSet(c.outs) : c \in ToSet(design.cells)}

ReadBits ==
  ToSet(design.outputs) \cup (UNION {ToSet(c.ins) : c \in ToSet(design.cells)}) \cup
  {m[2] : m \in ToSet(design.connections)}

Sound ==
  /\ \A b \in ReadBits : Cardinality(SourcesOf(design, b)) = 1
  /\ \A b \in CellOutputs(design) : \A m \in ToSet(design.connections) : m[1] # b
  /\ \A j, k \in DOMAIN design.connections :
        j < k /\ design.connections[k][2] = design.connections[j][1]
          => design.connections[j][1] \in Mentioned

(* The pass finishes on every sound design: no buffer survives to be       *)
(* refused by the writer, and no pin is left without a net.                *)
SoundAccepted == Sound => stage # "refused"

(* What the written module connects: the pins that drive a wire, and the   *)
(* wires its cells and outputs read.                                       *)
WireSources(w) ==
  {<<b, 1>> : b \in {b \in ToSet(SourceBits(design)) : w = <<b, 0>>}} \cup
  UNION {{<<c.name, i>> : i \in {i \in DOMAIN c.outs : c.outs[i] = w}} :
           c \in ToSet(written.cells)}

WrittenLinks ==
  (UNION {UNION {{<<s, <<c.name, i>>>> : s \in WireSources(c.ins[i])} :
                   i \in DOMAIN c.ins} : c \in ToSet(written.cells)}) \cup
  UNION {{<<s, <<m[1], 1>>>> : s \in WireSources(m[2])} : m \in written.connects}

Contract ==
  INSTANCE Wiring WITH
    given <- DesignLinks(design),
    needed <- NeededNames(design),
    links <- IF ~Hooked THEN DesignLinks(design)
             ELSE IF stage = "done" THEN WrittenLinks
             ELSE GraphLinks(graph)

(* The pass implements the contract of Wiring: from the design through the *)
(* netlist, the removal of the buffers and the sweep to the module that is *)
(* written, every reader keeps exactly its sources, and only readers that  *)
(* no output depends on are taken out.                                     *)
LinksKept == Contract!Spec

(* Both traversals end although the nets they run through grow: the pass   *)
(* writes the design or reports an error.                                  *)
PassEnds == <>(stage \in {"done", "refused"})
=============================================================================
