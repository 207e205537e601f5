------------------------------ MODULE NetGraph ------------------------------
(***************************************************************************)
(* The pointer structure of a netlist and the primitives of                *)
(* netlist_utils.cc that change it.  A node owns input and output pins, a  *)
(* pin knows its node and the slot it fills there, its net and the place   *)
(* it has among the drivers or the fanouts of the net, and a net lists its *)
(* drivers and its fanouts.  Every link is stored at both ends, and each   *)
(* primitive has to keep the ends in agreement.                            *)
(*                                                                         *)
(* An object is named by the position at which it was allocated, 0 is the  *)
(* null pointer, and freeing an object leaves it in place with live unset, *)
(* so that a pointer to it can be recognised.                              *)
(***************************************************************************)
EXTENDS Naturals, FiniteSets, Iteration

Null == 0
NoName == <<>>

EmptyGraph == [nodes |-> <<>>, pins |-> <<>>, nets |-> <<>>]

(* What was allocated last.                                                *)
LastNode(g) == Len(g.nodes)
LastPin(g) == Len(g.pins)
LastNet(g) == Len(g.nets)

AllocateNode(g, type, name) ==
  [g EXCEPT !.nodes = Append(@,
     [type |-> type, name |-> name, ins |-> <<>>, outs |-> <<>>, live |-> TRUE])]

AllocatePin(g, name) ==
  [g EXCEPT !.pins = Append(@,
     [name |-> name, node |-> Null, slot |-> 0, net |-> Null, place |-> 0,
      output |-> FALSE, live |-> TRUE])]

AllocateNet(g, name) ==
  [g EXCEPT !.nets = Append(@,
     [name |-> name, drivers |-> <<>>, fanouts |-> <<>>, live |-> TRUE])]

(* allocate_more_input_pins makes a slot at the end and                    *)
(* add_input_pin_to_node fills it.                                         *)
AddInputPinToNode(g, n, p) ==
  [g EXCEPT !.nodes[n].ins = Append(@, p),
            !.pins[p].node = n,
            !.pins[p].slot = Len(g.nodes[n].ins) + 1]

AddOutputPinToNode(g, n, p) ==
  [g EXCEPT !.nodes[n].outs = Append(@, p),
            !.pins[p].node = n,
            !.pins[p].slot = Len(g.nodes[n].outs) + 1,
            !.pins[p].output = TRUE]

AddFanoutPinToNet(g, net, p) ==
  [g EXCEPT !.nets[net].fanouts = Append(@, p),
            !.pins[p].net = net,
            !.pins[p].place = Len(g.nets[net].fanouts) + 1]

AddDriverPinToNet(g, net, p) ==
  [g EXCEPT !.nets[net].drivers = Append(@, p),
            !.pins[p].net = net,
            !.pins[p].place = Len(g.nets[net].drivers) + 1]

FreeNet(g, net) == [g EXCEPT !.nets[net].live = FALSE]

(* A node goes with the pins that are still in its slots.                  *)
FreeNode(g, n) ==
  LET gone == ToSet(g.nodes[n].ins \o g.nodes[n].outs)
  IN  [g EXCEPT !.nodes[n].live = FALSE,
                !.pins = [p \in DOMAIN @ |->
                            IF p \in gone THEN [@[p] EXCEPT !.live = FALSE] ELSE @[p]]]

(* An input pin leaves its slot in the node and its place in the net       *)
(* empty; the slots and places after it keep their numbers.                *)
DeletePin(g, p) ==
  [g EXCEPT !.nodes[g.pins[p].node].ins[g.pins[p].slot] = Null,
            !.nets[g.pins[p].net].fanouts[g.pins[p].place] = Null,
            !.pins[p].live = FALSE]

(* The readers of other go to the end of the readers of into.  A net that  *)
(* keeps its old place numbers would leave the moved pins pointing at the  *)
(* places of other pins.                                                   *)
JoinNets_StalePlaces(g, into, other) ==
  LET moved == SelectSeq(g.nets[other].fanouts, LAMBDA p : p # Null)
  IN  FreeNet([g EXCEPT !.nets[into].fanouts = @ \o moved,
                        !.pins = [p \in DOMAIN @ |->
                          IF p \in ToSet(moved) THEN [@[p] EXCEPT !.net = into] ELSE @[p]]],
              other)

JoinNets(g, into, other) ==
  FreeNet(Accumulate(LAMBDA h, p : IF p = Null THEN h ELSE AddFanoutPinToNet(h, into, p),
                   g, g.nets[other].fanouts),
          other)

-----------------------------------------------------------------------------
(* What the pointers mean: the nets a net takes its value from, itself     *)
(* included, when the buffers between them are looked through, and the     *)
(* output pins, of a gate, an input or a constant, that drive it.          *)
Buffers(g) == {n \in DOMAIN g.nodes : g.nodes[n].live /\ g.nodes[n].type = "buf"}

Buffered(g) ==
  {<<g.pins[g.nodes[n].outs[1]].net, g.pins[g.nodes[n].ins[1]].net>> : n \in Buffers(g)}

Upstream(g, net) == ClosureOf({net}, Buffered(g))

TrueDrivers(g, net) ==
  {p \in UNION {ToSet(g.nets[m].drivers) : m \in Upstream(g, net)} :
     g.nodes[g.pins[p].node].type # "buf"}

(* The end of a link: which pin of which node.                             *)
End(g, p) == <<g.nodes[g.pins[p].node].name, g.pins[p].slot>>

(* Every link <<source, sink>>, the sinks being the pins some net lists as *)
(* its readers.                                                            *)
GraphLinks(g) ==
  UNION {{<<End(g, d), End(g, p)>> : d \in TrueDrivers(g, m),
            p \in {q \in ToSet(g.nets[m].fanouts) \ {Null} :
                     g.nodes[g.pins[q].node].type # "buf"}} :
           m \in {m \in DOMAIN g.nets : g.nets[m].live}}
=============================================================================
