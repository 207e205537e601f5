-------------------------- MODULE ConnectionsProofs --------------------------
(***************************************************************************)
(* Proofs about Connections for every design.                              *)
(*                                                                         *)
(* First what each primitive of NetGraph and each fold of them does to the *)
(* pointers; then the invariant, which says how the nodes lie in the       *)
(* netlist, that the two ends of every link agree and where the calls of a *)
(* traversal stand; then, action by action, that it is kept, and what      *)
(* follows from it.                                                        *)
(***************************************************************************)
EXTENDS Connections, Induction, FiniteSetTheorems, SequenceTheorems

-----------------------------------------------------------------------------
(* The pointer structure.                                                  *)

PinNames == {NoName} \cup (Names \X Nat)

NodeTypes == {"constant", "input", "output", "skip", "buf"}

NodeRecord ==
  [type : NodeTypes, name : Names, ins : Seq(Nat), outs : Seq(Nat), live : BOOLEAN]
PinRecord ==
  [name : PinNames, node : Nat, slot : Nat, net : Nat, place : Nat,
   output : BOOLEAN, live : BOOLEAN]
NetRecord ==
  [name : Names, drivers : Seq(Nat), fanouts : Seq(Nat), live : BOOLEAN]

GraphSet ==
  [nodes : Seq(NodeRecord), pins : Seq(PinRecord), nets : Seq(NetRecord)]

LiveNode(g, n) == n \in DOMAIN g.nodes /\ g.nodes[n].live
LivePin(g, p) == p \in DOMAIN g.pins /\ g.pins[p].live
LiveNet(g, m) == m \in DOMAIN g.nets /\ g.nets[m].live

(* A live node has live pins in its slots, and they know their slot.       *)
InSlotOK(g, n, i) ==
  LET p == g.nodes[n].ins[i]
  IN  /\ LivePin(g, p)
      /\ g.pins[p].node = n /\ g.pins[p].slot = i /\ ~g.pins[p].output

OutSlotOK(g, n, i) ==
  LET p == g.nodes[n].outs[i]
  IN  /\ LivePin(g, p)
      /\ g.pins[p].node = n /\ g.pins[p].slot = i /\ g.pins[p].output

NodeOK(g, n) ==
  /\ \A i \in DOMAIN g.nodes[n].ins : InSlotOK(g, n, i)
  /\ \A i \in DOMAIN g.nodes[n].outs : OutSlotOK(g, n, i)

(* A live pin is in its slot of a live node; an output pin drives a live   *)
(* net at its place there, an input pin is on a live net or on none.       *)
OutPinOK(g, p) ==
  LET q == g.pins[p]
  IN  /\ LiveNode(g, q.node)
      /\ q.slot \in DOMAIN g.nodes[q.node].outs /\ g.nodes[q.node].outs[q.slot] = p
      /\ LiveNet(g, q.net)
      /\ q.place \in DOMAIN g.nets[q.net].drivers /\ g.nets[q.net].drivers[q.place] = p

InPinOK(g, p) ==
  LET q == g.pins[p]
  IN  /\ LiveNode(g, q.node)
      /\ q.slot \in DOMAIN g.nodes[q.node].ins /\ g.nodes[q.node].ins[q.slot] = p
      /\ q.net = Null \/ LiveNet(g, q.net)

PinOK(g, p) == IF g.pins[p].output THEN OutPinOK(g, p) ELSE InPinOK(g, p)

(* A live net lists live pins that know their place.                       *)
DriverOK(g, m, k) ==
  LET p == g.nets[m].drivers[k]
  IN  /\ LivePin(g, p)
      /\ g.pins[p].net = m /\ g.pins[p].place = k /\ g.pins[p].output

FanoutOK(g, m, k) ==
  LET p == g.nets[m].fanouts[k]
  IN  p # Null => /\ LivePin(g, p)
                  /\ g.pins[p].net = m /\ g.pins[p].place = k /\ ~g.pins[p].output

NetOK(g, m) ==
  /\ \A k \in DOMAIN g.nets[m].drivers : DriverOK(g, m, k)
  /\ \A k \in DOMAIN g.nets[m].fanouts : FanoutOK(g, m, k)

Agree(g) ==
  /\ \A n \in DOMAIN g.nodes : g.nodes[n].live => NodeOK(g, n)
  /\ \A p \in DOMAIN g.pins : g.pins[p].live => PinOK(g, p)
  /\ \A m \in DOMAIN g.nets : g.nets[m].live => NetOK(g, m)

(* An input pin that is on a net is listed there.                          *)
Placed(g) ==
  \A p \in DOMAIN g.pins :
    LET q == g.pins[p]
    IN  q.live /\ ~q.output /\ q.net # Null
          => q.place \in DOMAIN g.nets[q.net].fanouts /\ g.nets[q.net].fanouts[q.place] = p

(* The buffers of connections have one input and one output.               *)
BuffersOK(g) ==
  \A n \in DOMAIN g.nodes : g.nodes[n].live /\ g.nodes[n].type = "buf"
    => Len(g.nodes[n].ins) = 1 /\ Len(g.nodes[n].outs) = 1

(* A net is made for what drives it.                                       *)
Driven(g) == \A m \in DOMAIN g.nets : g.nets[m].drivers # <<>>

(* While the netlist is built nothing is freed and no net is read.         *)
Fresh(g) ==
  /\ g \in GraphSet /\ Agree(g)
  /\ \A n \in DOMAIN g.nodes : g.nodes[n].live
  /\ \A p \in DOMAIN g.pins : g.pins[p].live /\ (~g.pins[p].output => g.pins[p].net = Null)
  /\ \A m \in DOMAIN g.nets : g.nets[m].live /\ g.nets[m].fanouts = <<>>

-----------------------------------------------------------------------------
(* The primitives, field by field.                                         *)

(* What membership in GraphSet says of a netlist and its parts.            *)
LEMMA GraphType ==
  ASSUME NEW g \in GraphSet
  PROVE  /\ g.nodes \in Seq(NodeRecord) /\ g.pins \in Seq(PinRecord)
         /\ g.nets \in Seq(NetRecord)
         /\ LastNode(g) \in Nat /\ LastPin(g) \in Nat /\ LastNet(g) \in Nat
         /\ DOMAIN g.nodes = 1 .. LastNode(g) /\ DOMAIN g.pins = 1 .. LastPin(g)
         /\ DOMAIN g.nets = 1 .. LastNet(g)
         /\ \A n \in DOMAIN g.nodes : g.nodes[n] \in NodeRecord
         /\ \A p \in DOMAIN g.pins : g.pins[p] \in PinRecord
         /\ \A m \in DOMAIN g.nets : g.nets[m] \in NetRecord
<1>1. g.nodes \in Seq(NodeRecord) /\ g.pins \in Seq(PinRecord) /\ g.nets \in Seq(NetRecord)
  BY DEF GraphSet
<1> QED BY <1>1 DEF LastNode, LastPin, LastNet

(* A netlist is made of its three lists.                                   *)
LEMMA GraphMake ==
  ASSUME NEW nodes \in Seq(NodeRecord), NEW pins \in Seq(PinRecord), NEW nets \in Seq(NetRecord)
  PROVE  [nodes |-> nodes, pins |-> pins, nets |-> nets] \in GraphSet
BY DEF GraphSet

(* Setting one field of a netlist leaves the other two.                    *)
LEMMA ThreeFields ==
  ASSUME NEW g \in GraphSet
  PROVE  /\ \A x : [g EXCEPT !.nodes = x] = [nodes |-> x, pins |-> g.pins, nets |-> g.nets]
         /\ \A x : [g EXCEPT !.pins = x] = [nodes |-> g.nodes, pins |-> x, nets |-> g.nets]
         /\ \A x : [g EXCEPT !.nets = x] = [nodes |-> g.nodes, pins |-> g.pins, nets |-> x]
<1> DEFINE A == Seq(NodeRecord)
           B == Seq(PinRecord)
           C == Seq(NetRecord)
<1>1. g \in [nodes : A, pins : B, nets : C]
  BY DEF GraphSet
<1> HIDE DEF A, B, C
<1> QED BY <1>1

(* A new node, without pins.                                               *)
LEMMA AllocateNodeIs ==
  ASSUME NEW g \in GraphSet, NEW type \in NodeTypes, NEW name \in Names
  PROVE  LET h == AllocateNode(g, type, name)
         IN  /\ h \in GraphSet /\ h.pins = g.pins /\ h.nets = g.nets
             /\ LastNode(h) = LastNode(g) + 1
             /\ \A n \in DOMAIN g.nodes : h.nodes[n] = g.nodes[n]
             /\ h.nodes[LastNode(h)] =
                  [type |-> type, name |-> name, ins |-> <<>>, outs |-> <<>>, live |-> TRUE]
<1> DEFINE r == [type |-> type, name |-> name, ins |-> <<>>, outs |-> <<>>, live |-> TRUE]
           h == [nodes |-> Append(g.nodes, r), pins |-> g.pins, nets |-> g.nets]
<1>1. AllocateNode(g, type, name) = h
  BY ThreeFields, Zenon DEF AllocateNode
<1>2. r \in NodeRecord
  BY DEF NodeRecord
<1> HIDE DEF r
<1>3. /\ Append(g.nodes, r) \in Seq(NodeRecord)
      /\ Len(Append(g.nodes, r)) = Len(g.nodes) + 1
      /\ \A n \in DOMAIN g.nodes : Append(g.nodes, r)[n] = g.nodes[n]
      /\ Append(g.nodes, r)[Len(g.nodes) + 1] = r
  BY <1>2, GraphType
<1>4. h \in GraphSet
  BY <1>3, GraphType, GraphMake
<1> QED BY <1>1, <1>3, <1>4 DEF LastNode, r

(* allocate_nnet adds a net without pins at the end.                       *)
LEMMA AllocateNetIs ==
  ASSUME NEW g \in GraphSet, NEW name \in Names
  PROVE  LET h == AllocateNet(g, name)
         IN  /\ h \in GraphSet /\ h.pins = g.pins /\ h.nodes = g.nodes
             /\ LastNet(h) = LastNet(g) + 1
             /\ \A m \in DOMAIN g.nets : h.nets[m] = g.nets[m]
             /\ h.nets[LastNet(h)] =
                  [name |-> name, drivers |-> <<>>, fanouts |-> <<>>, live |-> TRUE]
<1> DEFINE r == [name |-> name, drivers |-> <<>>, fanouts |-> <<>>, live |-> TRUE]
           h == [nodes |-> g.nodes, pins |-> g.pins, nets |-> Append(g.nets, r)]
<1>1. AllocateNet(g, name) = h
  BY ThreeFields, Zenon DEF AllocateNet
<1>2. r \in NetRecord
  BY DEF NetRecord
<1> HIDE DEF r
<1>3. /\ Append(g.nets, r) \in Seq(NetRecord)
      /\ Len(Append(g.nets, r)) = Len(g.nets) + 1
      /\ \A n \in DOMAIN g.nets : Append(g.nets, r)[n] = g.nets[n]
      /\ Append(g.nets, r)[Len(g.nets) + 1] = r
  BY <1>2, GraphType
<1>4. h \in GraphSet
  BY <1>3, GraphType, GraphMake
<1> QED BY <1>1, <1>3, <1>4 DEF LastNet, r

(* One object replaced.                                                    *)
PutNode(g, n, r) == [g EXCEPT !.nodes[n] = r]
PutPin(g, p, r) == [g EXCEPT !.pins[p] = r]
PutNet(g, m, r) == [g EXCEPT !.nets[m] = r]

(* Replacing a node leaves the others.                                     *)
LEMMA PutNodeIs ==
  ASSUME NEW g \in GraphSet, NEW n \in DOMAIN g.nodes, NEW r \in NodeRecord
  PROVE  LET h == PutNode(g, n, r)
         IN  /\ h \in GraphSet /\ h.pins = g.pins /\ h.nets = g.nets
             /\ LastNode(h) = LastNode(g) /\ h.nodes[n] = r
             /\ \A x \in DOMAIN g.nodes : x # n => h.nodes[x] = g.nodes[x]
<1> DEFINE s == [g.nodes EXCEPT ![n] = r]
           h == [nodes |-> s, pins |-> g.pins, nets |-> g.nets]
<1>1. PutNode(g, n, r) = h
  BY ThreeFields, Zenon DEF PutNode
<1>2. s \in Seq(NodeRecord) /\ Len(s) = Len(g.nodes) /\ s[n] = r
      /\ \A x \in DOMAIN g.nodes : x # n => s[x] = g.nodes[x]
  BY GraphType
<1> HIDE DEF s
<1>3. h \in GraphSet
  BY <1>2, GraphType, GraphMake
<1> QED BY <1>1, <1>2, <1>3 DEF LastNode

(* Replacing a pin leaves the others.                                      *)
LEMMA PutPinIs ==
  ASSUME NEW g \in GraphSet, NEW p \in DOMAIN g.pins, NEW r \in PinRecord
  PROVE  LET h == PutPin(g, p, r)
         IN  /\ h \in GraphSet /\ h.nodes = g.nodes /\ h.nets = g.nets
             /\ LastPin(h) = LastPin(g) /\ h.pins[p] = r
             /\ \A x \in DOMAIN g.pins : x # p => h.pins[x] = g.pins[x]
<1> DEFINE s == [g.pins EXCEPT ![p] = r]
           h == [nodes |-> g.nodes, pins |-> s, nets |-> g.nets]
<1>1. PutPin(g, p, r) = h
  BY ThreeFields, Zenon DEF PutPin
<1>2. s \in Seq(PinRecord) /\ Len(s) = Len(g.pins) /\ s[p] = r
      /\ \A x \in DOMAIN g.pins : x # p => s[x] = g.pins[x]
  BY GraphType
<1> HIDE DEF s
<1>3. h \in GraphSet
  BY <1>2, GraphType, GraphMake
<1> QED BY <1>1, <1>2, <1>3 DEF LastPin

(* Replacing a net leaves the others.                                      *)
LEMMA PutNetIs ==
  ASSUME NEW g \in GraphSet, NEW m \in DOMAIN g.nets, NEW r \in NetRecord
  PROVE  LET h == PutNet(g, m, r)
         IN  /\ h \in GraphSet /\ h.nodes = g.nodes /\ h.pins = g.pins
             /\ LastNet(h) = LastNet(g) /\ h.nets[m] = r
             /\ \A x \in DOMAIN g.nets : x # m => h.nets[x] = g.nets[x]
<1> DEFINE s == [g.nets EXCEPT ![m] = r]
           h == [nodes |-> g.nodes, pins |-> g.pins, nets |-> s]
<1>1. PutNet(g, m, r) = h
  BY ThreeFields, Zenon DEF PutNet
<1>2. s \in Seq(NetRecord) /\ Len(s) = Len(g.nets) /\ s[m] = r
      /\ \A x \in DOMAIN g.nets : x # m => s[x] = g.nets[x]
  BY GraphType
<1> HIDE DEF s
<1>3. h \in GraphSet
  BY <1>2, GraphType, GraphMake
<1> QED BY <1>1, <1>2, <1>3 DEF LastNet

(* allocate_npin adds a pin that is nowhere yet.                           *)
LEMMA AllocatePinIs ==
  ASSUME NEW g \in GraphSet, NEW name \in PinNames
  PROVE  LET h == AllocatePin(g, name)
         IN  /\ h \in GraphSet /\ h.nodes = g.nodes /\ h.nets = g.nets
             /\ LastPin(h) = LastPin(g) + 1
             /\ \A m \in DOMAIN g.pins : h.pins[m] = g.pins[m]
             /\ h.pins[LastPin(h)] =
                  [name |-> name, node |-> Null, slot |-> 0, net |-> Null, place |-> 0,
                   output |-> FALSE, live |-> TRUE]
<1> DEFINE r == [name |-> name, node |-> Null, slot |-> 0, net |-> Null, place |-> 0,
                 output |-> FALSE, live |-> TRUE]
           h == [nodes |-> g.nodes, pins |-> Append(g.pins, r), nets |-> g.nets]
<1>1. AllocatePin(g, name) = h
  BY ThreeFields, Zenon DEF AllocatePin
<1>2. r \in PinRecord
  BY DEF PinRecord, Null
<1> HIDE DEF r
<1>3. /\ Append(g.pins, r) \in Seq(PinRecord)
      /\ Len(Append(g.pins, r)) = Len(g.pins) + 1
      /\ \A n \in DOMAIN g.pins : Append(g.pins, r)[n] = g.pins[n]
      /\ Append(g.pins, r)[Len(g.pins) + 1] = r
  BY <1>2, GraphType
<1>4. h \in GraphSet
  BY <1>3, GraphType, GraphMake
<1> QED BY <1>1, <1>3, <1>4 DEF LastPin, r

(* A record of a node with one field changed.                                *)
LEMMA NodeExcept ==
  ASSUME NEW r \in NodeRecord
  PROVE  /\ \A x \in Seq(Nat) :
              /\ [r EXCEPT !.ins = x] \in NodeRecord
              /\ [r EXCEPT !.ins = x] =
                   [type |-> r.type, name |-> r.name, ins |-> x, outs |-> r.outs, live |-> r.live]
         /\ \A x \in Seq(Nat) :
              /\ [r EXCEPT !.outs = x] \in NodeRecord
              /\ [r EXCEPT !.outs = x] =
                   [type |-> r.type, name |-> r.name, ins |-> r.ins, outs |-> x, live |-> r.live]
         /\ \A x \in BOOLEAN :
              /\ [r EXCEPT !.live = x] \in NodeRecord
              /\ [r EXCEPT !.live = x] =
                   [type |-> r.type, name |-> r.name, ins |-> r.ins, outs |-> r.outs, live |-> x]
<1> DEFINE T1 == NodeTypes
           T2 == Seq(Nat)
           R == [type : T1, name : Names, ins : T2, outs : T2, live : BOOLEAN]
<1>1. r \in R
  BY DEF NodeRecord
<1> HIDE DEF T1, T2
<1>2. \A x \in T2 :
        /\ [r EXCEPT !.ins = x] \in R
        /\ [r EXCEPT !.ins = x] =
             [type |-> r.type, name |-> r.name, ins |-> x, outs |-> r.outs, live |-> r.live]
  BY <1>1
<1>3. \A x \in T2 :
        /\ [r EXCEPT !.outs = x] \in R
        /\ [r EXCEPT !.outs = x] =
             [type |-> r.type, name |-> r.name, ins |-> r.ins, outs |-> x, live |-> r.live]
  BY <1>1
<1>4. \A x \in BOOLEAN :
        /\ [r EXCEPT !.live = x] \in R
        /\ [r EXCEPT !.live = x] =
             [type |-> r.type, name |-> r.name, ins |-> r.ins, outs |-> r.outs, live |-> x]
  BY <1>1
<1> QED BY <1>2, <1>3, <1>4 DEF R, NodeRecord, T1, T2

(* One field of a node is set, the others stay.                            *)
LEMMA NodeWithIns ==
  ASSUME NEW r \in NodeRecord, NEW x \in Seq(Nat)
  PROVE  /\ [r EXCEPT !.ins = x] \in NodeRecord
         /\ [r EXCEPT !.ins = x] =
              [type |-> r.type, name |-> r.name, ins |-> x, outs |-> r.outs, live |-> r.live]
BY NodeExcept, Zenon

(* One field of a node is set, the others stay.                            *)
LEMMA NodeWithOuts ==
  ASSUME NEW r \in NodeRecord, NEW x \in Seq(Nat)
  PROVE  /\ [r EXCEPT !.outs = x] \in NodeRecord
         /\ [r EXCEPT !.outs = x] =
              [type |-> r.type, name |-> r.name, ins |-> r.ins, outs |-> x, live |-> r.live]
BY NodeExcept, Zenon

(* One field of a node is set, the others stay.                            *)
LEMMA NodeWithLive ==
  ASSUME NEW r \in NodeRecord, NEW x \in BOOLEAN
  PROVE  /\ [r EXCEPT !.live = x] \in NodeRecord
         /\ [r EXCEPT !.live = x] =
              [type |-> r.type, name |-> r.name, ins |-> r.ins, outs |-> r.outs, live |-> x]
BY NodeExcept, Zenon

(* A record of a pin with one field changed.                                 *)
LEMMA PinExcept ==
  ASSUME NEW r \in PinRecord
  PROVE  /\ \A x \in PinNames :
              /\ [r EXCEPT !.name = x] \in PinRecord
              /\ [r EXCEPT !.name = x] =
                   [name |-> x, node |-> r.node, slot |-> r.slot, net |-> r.net, place |-> r.place, output |-> r.output, live |-> r.live]
         /\ \A x \in Nat :
              /\ [r EXCEPT !.node = x] \in PinRecord
              /\ [r EXCEPT !.node = x] =
                   [name |-> r.name, node |-> x, slot |-> r.slot, net |-> r.net, place |-> r.place, output |-> r.output, live |-> r.live]
         /\ \A x \in Nat :
              /\ [r EXCEPT !.slot = x] \in PinRecord
              /\ [r EXCEPT !.slot = x] =
                   [name |-> r.name, node |-> r.node, slot |-> x, net |-> r.net, place |-> r.place, output |-> r.output, live |-> r.live]
         /\ \A x \in Nat :
              /\ [r EXCEPT !.net = x] \in PinRecord
              /\ [r EXCEPT !.net = x] =
                   [name |-> r.name, node |-> r.node, slot |-> r.slot, net |-> x, place |-> r.place, output |-> r.output, live |-> r.live]
         /\ \A x \in Nat :
              /\ [r EXCEPT !.place = x] \in PinRecord
              /\ [r EXCEPT !.place = x] =
                   [name |-> r.name, node |-> r.node, slot |-> r.slot, net |-> r.net, place |-> x, output |-> r.output, live |-> r.live]
         /\ \A x \in BOOLEAN :
              /\ [r EXCEPT !.output = x] \in PinRecord
              /\ [r EXCEPT !.output = x] =
                   [name |-> r.name, node |-> r.node, slot |-> r.slot, net |-> r.net, place |-> r.place, output |-> x, live |-> r.live]
         /\ \A x \in BOOLEAN :
              /\ [r EXCEPT !.live = x] \in PinRecord
              /\ [r EXCEPT !.live = x] =
                   [name |-> r.name, node |-> r.node, slot |-> r.slot, net |-> r.net, place |-> r.place, output |-> r.output, live |-> x]
<1> DEFINE T1 == PinNames
           R == [name : T1, node : Nat, slot : Nat, net : Nat, place : Nat, output : BOOLEAN, live : BOOLEAN]
<1>1. r \in R
  BY DEF PinRecord
<1> HIDE DEF T1
<1>2. \A x \in T1 :
        /\ [r EXCEPT !.name = x] \in R
        /\ [r EXCEPT !.name = x] =
             [name |-> x, node |-> r.node, slot |-> r.slot, net |-> r.net, place |-> r.place, output |-> r.output, live |-> r.live]
  BY <1>1
<1>3. \A x \in Nat :
        /\ [r EXCEPT !.node = x] \in R
        /\ [r EXCEPT !.node = x] =
             [name |-> r.name, node |-> x, slot |-> r.slot, net |-> r.net, place |-> r.place, output |-> r.output, live |-> r.live]
  BY <1>1
<1>4. \A x \in Nat :
        /\ [r EXCEPT !.slot = x] \in R
        /\ [r EXCEPT !.slot = x] =
             [name |-> r.name, node |-> r.node, slot |-> x, net |-> r.net, place |-> r.place, output |-> r.output, live |-> r.live]
  BY <1>1
<1>5. \A x \in Nat :
        /\ [r EXCEPT !.net = x] \in R
        /\ [r EXCEPT !.net = x] =
             [name |-> r.name, node |-> r.node, slot |-> r.slot, net |-> x, place |-> r.place, output |-> r.output, live |-> r.live]
  BY <1>1
<1>6. \A x \in Nat :
        /\ [r EXCEPT !.place = x] \in R
        /\ [r EXCEPT !.place = x] =
             [name |-> r.name, node |-> r.node, slot |-> r.slot, net |-> r.net, place |-> x, output |-> r.output, live |-> r.live]
  BY <1>1
<1>7. \A x \in BOOLEAN :
        /\ [r EXCEPT !.output = x] \in R
        /\ [r EXCEPT !.output = x] =
             [name |-> r.name, node |-> r.node, slot |-> r.slot, net |-> r.net, place |-> r.place, output |-> x, live |-> r.live]
  BY <1>1
<1>8. \A x \in BOOLEAN :
        /\ [r EXCEPT !.live = x] \in R
        /\ [r EXCEPT !.live = x] =
             [name |-> r.name, node |-> r.node, slot |-> r.slot, net |-> r.net, place |-> r.place, output |-> r.output, live |-> x]
  BY <1>1
<1> QED BY <1>2, <1>3, <1>4, <1>5, <1>6, <1>7, <1>8 DEF R, PinRecord, T1

(* One field of a pin is set, the others stay.                             *)
LEMMA PinWithName ==
  ASSUME NEW r \in PinRecord, NEW x \in PinNames
  PROVE  /\ [r EXCEPT !.name = x] \in PinRecord
         /\ [r EXCEPT !.name = x] =
              [name |-> x, node |-> r.node, slot |-> r.slot, net |-> r.net, place |-> r.place, output |-> r.output, live |-> r.live]
BY PinExcept, Zenon

(* One field of a pin is set, the others stay.                             *)
LEMMA PinWithNode ==
  ASSUME NEW r \in PinRecord, NEW x \in Nat
  PROVE  /\ [r EXCEPT !.node = x] \in PinRecord
         /\ [r EXCEPT !.node = x] =
              [name |-> r.name, node |-> x, slot |-> r.slot, net |-> r.net, place |-> r.place, output |-> r.output, live |-> r.live]
BY PinExcept, Zenon

(* One field of a pin is set, the others stay.                             *)
LEMMA PinWithSlot ==
  ASSUME NEW r \in PinRecord, NEW x \in Nat
  PROVE  /\ [r EXCEPT !.slot = x] \in PinRecord
         /\ [r EXCEPT !.slot = x] =
              [name |-> r.name, node |-> r.node, slot |-> x, net |-> r.net, place |-> r.place, output |-> r.output, live |-> r.live]
BY PinExcept, Zenon

(* One field of a pin is set, the others stay.                             *)
LEMMA PinWithNet ==
  ASSUME NEW r \in PinRecord, NEW x \in Nat
  PROVE  /\ [r EXCEPT !.net = x] \in PinRecord
         /\ [r EXCEPT !.net = x] =
              [name |-> r.name, node |-> r.node, slot |-> r.slot, net |-> x, place |-> r.place, output |-> r.output, live |-> r.live]
BY PinExcept, Zenon

(* One field of a pin is set, the others stay.                             *)
LEMMA PinWithPlace ==
  ASSUME NEW r \in PinRecord, NEW x \in Nat
  PROVE  /\ [r EXCEPT !.place = x] \in PinRecord
         /\ [r EXCEPT !.place = x] =
              [name |-> r.name, node |-> r.node, slot |-> r.slot, net |-> r.net, place |-> x, output |-> r.output, live |-> r.live]
BY PinExcept, Zenon

(* One field of a pin is set, the others stay.                             *)
LEMMA PinWithOutput ==
  ASSUME NEW r \in PinRecord, NEW x \in BOOLEAN
  PROVE  /\ [r EXCEPT !.output = x] \in PinRecord
         /\ [r EXCEPT !.output = x] =
              [name |-> r.name, node |-> r.node, slot |-> r.slot, net |-> r.net, place |-> r.place, output |-> x, live |-> r.live]
BY PinExcept, Zenon

(* One field of a pin is set, the others stay.                             *)
LEMMA PinWithLive ==
  ASSUME NEW r \in PinRecord, NEW x \in BOOLEAN
  PROVE  /\ [r EXCEPT !.live = x] \in PinRecord
         /\ [r EXCEPT !.live = x] =
              [name |-> r.name, node |-> r.node, slot |-> r.slot, net |-> r.net, place |-> r.place, output |-> r.output, live |-> x]
BY PinExcept, Zenon

(* A record of a net with one field changed.                                 *)
LEMMA NetExcept ==
  ASSUME NEW r \in NetRecord
  PROVE  /\ \A x \in Seq(Nat) :
              /\ [r EXCEPT !.drivers = x] \in NetRecord
              /\ [r EXCEPT !.drivers = x] =
                   [name |-> r.name, drivers |-> x, fanouts |-> r.fanouts, live |-> r.live]
         /\ \A x \in Seq(Nat) :
              /\ [r EXCEPT !.fanouts = x] \in NetRecord
              /\ [r EXCEPT !.fanouts = x] =
                   [name |-> r.name, drivers |-> r.drivers, fanouts |-> x, live |-> r.live]
         /\ \A x \in BOOLEAN :
              /\ [r EXCEPT !.live = x] \in NetRecord
              /\ [r EXCEPT !.live = x] =
                   [name |-> r.name, drivers |-> r.drivers, fanouts |-> r.fanouts, live |-> x]
<1> DEFINE T1 == Seq(Nat)
           R == [name : Names, drivers : T1, fanouts : T1, live : BOOLEAN]
<1>1. r \in R
  BY DEF NetRecord
<1> HIDE DEF T1
<1>2. \A x \in T1 :
        /\ [r EXCEPT !.drivers = x] \in R
        /\ [r EXCEPT !.drivers = x] =
             [name |-> r.name, drivers |-> x, fanouts |-> r.fanouts, live |-> r.live]
  BY <1>1
<1>3. \A x \in T1 :
        /\ [r EXCEPT !.fanouts = x] \in R
        /\ [r EXCEPT !.fanouts = x] =
             [name |-> r.name, drivers |-> r.drivers, fanouts |-> x, live |-> r.live]
  BY <1>1
<1>4. \A x \in BOOLEAN :
        /\ [r EXCEPT !.live = x] \in R
        /\ [r EXCEPT !.live = x] =
             [name |-> r.name, drivers |-> r.drivers, fanouts |-> r.fanouts, live |-> x]
  BY <1>1
<1> QED BY <1>2, <1>3, <1>4 DEF R, NetRecord, T1

(* One field of a net is set, the others stay.                             *)
LEMMA NetWithDrivers ==
  ASSUME NEW r \in NetRecord, NEW x \in Seq(Nat)
  PROVE  /\ [r EXCEPT !.drivers = x] \in NetRecord
         /\ [r EXCEPT !.drivers = x] =
              [name |-> r.name, drivers |-> x, fanouts |-> r.fanouts, live |-> r.live]
BY NetExcept, Zenon

(* One field of a net is set, the others stay.                             *)
LEMMA NetWithFanouts ==
  ASSUME NEW r \in NetRecord, NEW x \in Seq(Nat)
  PROVE  /\ [r EXCEPT !.fanouts = x] \in NetRecord
         /\ [r EXCEPT !.fanouts = x] =
              [name |-> r.name, drivers |-> r.drivers, fanouts |-> x, live |-> r.live]
BY NetExcept, Zenon

(* One field of a net is set, the others stay.                             *)
LEMMA NetWithLive ==
  ASSUME NEW r \in NetRecord, NEW x \in BOOLEAN
  PROVE  /\ [r EXCEPT !.live = x] \in NetRecord
         /\ [r EXCEPT !.live = x] =
              [name |-> r.name, drivers |-> r.drivers, fanouts |-> r.fanouts, live |-> x]
BY NetExcept, Zenon

(* A pin becomes an input of a node.                                       *)
LEMMA AddInputPinToNodeIs ==
  ASSUME NEW g \in GraphSet, NEW n \in DOMAIN g.nodes, NEW p \in DOMAIN g.pins
  PROVE  LET h == AddInputPinToNode(g, n, p)
         IN  /\ h \in GraphSet /\ h.nets = g.nets
             /\ LastNode(h) = LastNode(g) /\ LastPin(h) = LastPin(g)
             /\ \A x \in DOMAIN g.nodes : x # n => h.nodes[x] = g.nodes[x]
             /\ h.nodes[n] = [type |-> g.nodes[n].type, name |-> g.nodes[n].name, ins |-> Append(g.nodes[n].ins, p), outs |-> g.nodes[n].outs, live |-> g.nodes[n].live]
             /\ \A x \in DOMAIN g.pins : x # p => h.pins[x] = g.pins[x]
             /\ h.pins[p] = [name |-> g.pins[p].name, node |-> n, slot |-> Len(g.nodes[n].ins) + 1, net |-> g.pins[p].net, place |-> g.pins[p].place, output |-> g.pins[p].output, live |-> g.pins[p].live]
<1> DEFINE c == [g.nodes[n] EXCEPT !.ins = Append(@, p)]
           g0 == PutNode(g, n, c)
           r1 == [g0.pins[p] EXCEPT !.node = n]
           g1 == PutPin(g0, p, r1)
           r2 == [g1.pins[p] EXCEPT !.slot = Len(g.nodes[n].ins) + 1]
           g2 == PutPin(g1, p, r2)
<1>1. AddInputPinToNode(g, n, p) = g2
  BY Zenon DEF AddInputPinToNode, PutNode, PutPin
<1>2. g.nodes[n] \in NodeRecord /\ p \in Nat /\ n \in Nat /\ g.pins[p] \in PinRecord
      /\ g.nodes[n].ins \in Seq(Nat)
  BY GraphType DEF NodeRecord
<1>3. Append(g.nodes[n].ins, p) \in Seq(Nat) /\ Len(g.nodes[n].ins) + 1 \in Nat
  BY <1>2
<1>4. c \in NodeRecord /\ c = [type |-> g.nodes[n].type, name |-> g.nodes[n].name, ins |-> Append(g.nodes[n].ins, p), outs |-> g.nodes[n].outs, live |-> g.nodes[n].live]
  <2> DEFINE r == g.nodes[n]
             s == Append(g.nodes[n].ins, p)
  <2>1. r \in NodeRecord /\ s \in Seq(Nat) /\ c = [r EXCEPT !.ins = s]
    BY <1>2, <1>3, Zenon
  <2>2. [r EXCEPT !.ins = s] \in NodeRecord
        /\ [r EXCEPT !.ins = s] = [type |-> r.type, name |-> r.name, ins |-> s, outs |-> r.outs, live |-> r.live]
    BY <2>1, NodeWithIns, Zenon
  <2> HIDE DEF c
  <2> QED BY <2>1, <2>2
<1> HIDE DEF c
<1>5. /\ g0 \in GraphSet /\ g0.pins = g.pins /\ g0.nets = g.nets
      /\ LastNode(g0) = LastNode(g) /\ g0.nodes[n] = c
      /\ \A x \in DOMAIN g.nodes : x # n => g0.nodes[x] = g.nodes[x]
  BY <1>4, PutNodeIs
<1> HIDE DEF g0
<1>6. LastPin(g0) = LastPin(g) /\ DOMAIN g0.pins = DOMAIN g.pins
  BY <1>5, GraphType DEF LastPin
<1>7. r1 \in PinRecord /\ r1 = [name |-> g.pins[p].name, node |-> n, slot |-> g.pins[p].slot, net |-> g.pins[p].net, place |-> g.pins[p].place, output |-> g.pins[p].output, live |-> g.pins[p].live]
  <2> DEFINE r == g.pins[p]
             y == n
  <2>1. r \in PinRecord /\ y \in Nat /\ r = [name |-> g.pins[p].name, node |-> g.pins[p].node, slot |-> g.pins[p].slot, net |-> g.pins[p].net, place |-> g.pins[p].place, output |-> g.pins[p].output, live |-> g.pins[p].live]
    BY <1>2, <1>3 DEF PinRecord
  <2>2. g0.pins[p] = r
    BY <1>2, <1>5, <1>6
  <2>3. r1 = [r EXCEPT !.node = y]
    BY <2>2, Zenon
  <2>9. y = n
    OBVIOUS
  <2> HIDE DEF r, y
  <2>4. [r EXCEPT !.node = y] \in PinRecord
        /\ [r EXCEPT !.node = y] = [name |-> r.name, node |-> y, slot |-> r.slot, net |-> r.net, place |-> r.place, output |-> r.output, live |-> r.live]
    BY <2>1, PinWithNode, Zenon
  <2> HIDE DEF r1
  <2> QED BY <2>1, <2>3, <2>4, <2>9
<1> HIDE DEF r1
<1>8. /\ g1 \in GraphSet /\ g1.nodes = g0.nodes /\ g1.nets = g0.nets
      /\ LastPin(g1) = LastPin(g) /\ DOMAIN g1.pins = DOMAIN g.pins /\ g1.pins[p] = r1
      /\ \A x \in DOMAIN g.pins : x # p => g1.pins[x] = g.pins[x]
  <2>1. p \in DOMAIN g0.pins /\ g0 \in GraphSet
    BY <1>5, <1>6
  <2>2. /\ g1 \in GraphSet /\ g1.nodes = g0.nodes /\ g1.nets = g0.nets
        /\ LastPin(g1) = LastPin(g0) /\ g1.pins[p] = r1
        /\ \A x \in DOMAIN g0.pins : x # p => g1.pins[x] = g0.pins[x]
    BY <1>7, <2>1, PutPinIs
  <2> HIDE DEF g1
  <2>3. DOMAIN g1.pins = DOMAIN g.pins
    BY <1>6, <2>2, <1>5, <1>6, GraphType
  <2> QED BY <2>2, <2>3, <1>5, <1>6
<1> HIDE DEF g1
<1>9. r2 \in PinRecord /\ r2 = [name |-> g.pins[p].name, node |-> n, slot |-> Len(g.nodes[n].ins) + 1, net |-> g.pins[p].net, place |-> g.pins[p].place, output |-> g.pins[p].output, live |-> g.pins[p].live]
  <2> DEFINE r == r1
             y == Len(g.nodes[n].ins) + 1
  <2>1. r \in PinRecord /\ y \in Nat /\ r = [name |-> g.pins[p].name, node |-> n, slot |-> g.pins[p].slot, net |-> g.pins[p].net, place |-> g.pins[p].place, output |-> g.pins[p].output, live |-> g.pins[p].live]
    BY <1>2, <1>3, <1>7 DEF PinRecord
  <2>2. g1.pins[p] = r
    BY <1>7, <1>8
  <2>3. r2 = [r EXCEPT !.slot = y]
    BY <2>2, Zenon
  <2>9. y = Len(g.nodes[n].ins) + 1
    OBVIOUS
  <2> HIDE DEF r, y
  <2>4. [r EXCEPT !.slot = y] \in PinRecord
        /\ [r EXCEPT !.slot = y] = [name |-> r.name, node |-> r.node, slot |-> y, net |-> r.net, place |-> r.place, output |-> r.output, live |-> r.live]
    BY <2>1, PinWithSlot, Zenon
  <2> HIDE DEF r2, r1
  <2> QED BY <2>1, <2>3, <2>4, <2>9
<1> HIDE DEF r2
<1>10. /\ g2 \in GraphSet /\ g2.nodes = g0.nodes /\ g2.nets = g0.nets
      /\ LastPin(g2) = LastPin(g) /\ DOMAIN g2.pins = DOMAIN g.pins /\ g2.pins[p] = r2
      /\ \A x \in DOMAIN g.pins : x # p => g2.pins[x] = g.pins[x]
  <2>1. p \in DOMAIN g1.pins /\ g1 \in GraphSet
    BY <1>8
  <2>2. /\ g2 \in GraphSet /\ g2.nodes = g1.nodes /\ g2.nets = g1.nets
        /\ LastPin(g2) = LastPin(g1) /\ g2.pins[p] = r2
        /\ \A x \in DOMAIN g1.pins : x # p => g2.pins[x] = g1.pins[x]
    BY <1>9, <2>1, PutPinIs
  <2> HIDE DEF g2
  <2>3. DOMAIN g2.pins = DOMAIN g.pins
    BY <1>6, <2>2, <1>8, GraphType
  <2> QED BY <2>2, <2>3, <1>8
<1> HIDE DEF g2
<1>11. LastNode(g2) = LastNode(g)
  BY <1>5, <1>10 DEF LastNode
<1> QED BY <1>1, <1>4, <1>5, <1>9, <1>10, <1>11

(* A pin becomes an output of a node.                                      *)
LEMMA AddOutputPinToNodeIs ==
  ASSUME NEW g \in GraphSet, NEW n \in DOMAIN g.nodes, NEW p \in DOMAIN g.pins
  PROVE  LET h == AddOutputPinToNode(g, n, p)
         IN  /\ h \in GraphSet /\ h.nets = g.nets
             /\ LastNode(h) = LastNode(g) /\ LastPin(h) = LastPin(g)
             /\ \A x \in DOMAIN g.nodes : x # n => h.nodes[x] = g.nodes[x]
             /\ h.nodes[n] = [type |-> g.nodes[n].type, name |-> g.nodes[n].name, ins |-> g.nodes[n].ins, outs |-> Append(g.nodes[n].outs, p), live |-> g.nodes[n].live]
             /\ \A x \in DOMAIN g.pins : x # p => h.pins[x] = g.pins[x]
             /\ h.pins[p] = [name |-> g.pins[p].name, node |-> n, slot |-> Len(g.nodes[n].outs) + 1, net |-> g.pins[p].net, place |-> g.pins[p].place, output |-> TRUE, live |-> g.pins[p].live]
<1> DEFINE c == [g.nodes[n] EXCEPT !.outs = Append(@, p)]
           g0 == PutNode(g, n, c)
           r1 == [g0.pins[p] EXCEPT !.node = n]
           g1 == PutPin(g0, p, r1)
           r2 == [g1.pins[p] EXCEPT !.slot = Len(g.nodes[n].outs) + 1]
           g2 == PutPin(g1, p, r2)
           r3 == [g2.pins[p] EXCEPT !.output = TRUE]
           g3 == PutPin(g2, p, r3)
<1>1. AddOutputPinToNode(g, n, p) = g3
  BY Zenon DEF AddOutputPinToNode, PutNode, PutPin
<1>2. g.nodes[n] \in NodeRecord /\ p \in Nat /\ n \in Nat /\ g.pins[p] \in PinRecord
      /\ g.nodes[n].outs \in Seq(Nat)
  BY GraphType DEF NodeRecord
<1>3. Append(g.nodes[n].outs, p) \in Seq(Nat) /\ Len(g.nodes[n].outs) + 1 \in Nat
  BY <1>2
<1>4. c \in NodeRecord /\ c = [type |-> g.nodes[n].type, name |-> g.nodes[n].name, ins |-> g.nodes[n].ins, outs |-> Append(g.nodes[n].outs, p), live |-> g.nodes[n].live]
  <2> DEFINE r == g.nodes[n]
             s == Append(g.nodes[n].outs, p)
  <2>1. r \in NodeRecord /\ s \in Seq(Nat) /\ c = [r EXCEPT !.outs = s]
    BY <1>2, <1>3, Zenon
  <2>2. [r EXCEPT !.outs = s] \in NodeRecord
        /\ [r EXCEPT !.outs = s] = [type |-> r.type, name |-> r.name, ins |-> r.ins, outs |-> s, live |-> r.live]
    BY <2>1, NodeWithOuts, Zenon
  <2> HIDE DEF c
  <2> QED BY <2>1, <2>2
<1> HIDE DEF c
<1>5. /\ g0 \in GraphSet /\ g0.pins = g.pins /\ g0.nets = g.nets
      /\ LastNode(g0) = LastNode(g) /\ g0.nodes[n] = c
      /\ \A x \in DOMAIN g.nodes : x # n => g0.nodes[x] = g.nodes[x]
  BY <1>4, PutNodeIs
<1> HIDE DEF g0
<1>6. LastPin(g0) = LastPin(g) /\ DOMAIN g0.pins = DOMAIN g.pins
  BY <1>5, GraphType DEF LastPin
<1>7. r1 \in PinRecord /\ r1 = [name |-> g.pins[p].name, node |-> n, slot |-> g.pins[p].slot, net |-> g.pins[p].net, place |-> g.pins[p].place, output |-> g.pins[p].output, live |-> g.pins[p].live]
  <2> DEFINE r == g.pins[p]
             y == n
  <2>1. r \in PinRecord /\ y \in Nat /\ r = [name |-> g.pins[p].name, node |-> g.pins[p].node, slot |-> g.pins[p].slot, net |-> g.pins[p].net, place |-> g.pins[p].place, output |-> g.pins[p].output, live |-> g.pins[p].live]
    BY <1>2, <1>3 DEF PinRecord
  <2>2. g0.pins[p] = r
    BY <1>2, <1>5, <1>6
  <2>3. r1 = [r EXCEPT !.node = y]
    BY <2>2, Zenon
  <2>9. y = n
    OBVIOUS
  <2> HIDE DEF r, y
  <2>4. [r EXCEPT !.node = y] \in PinRecord
        /\ [r EXCEPT !.node = y] = [name |-> r.name, node |-> y, slot |-> r.slot, net |-> r.net, place |-> r.place, output |-> r.output, live |-> r.live]
    BY <2>1, PinWithNode, Zenon
  <2> HIDE DEF r1
  <2> QED BY <2>1, <2>3, <2>4, <2>9
<1> HIDE DEF r1
<1>8. /\ g1 \in GraphSet /\ g1.nodes = g0.nodes /\ g1.nets = g0.nets
      /\ LastPin(g1) = LastPin(g) /\ DOMAIN g1.pins = DOMAIN g.pins /\ g1.pins[p] = r1
      /\ \A x \in DOMAIN g.pins : x # p => g1.pins[x] = g.pins[x]
  <2>1. p \in DOMAIN g0.pins /\ g0 \in GraphSet
    BY <1>5, <1>6
  <2>2. /\ g1 \in GraphSet /\ g1.nodes = g0.nodes /\ g1.nets = g0.nets
        /\ LastPin(g1) = LastPin(g0) /\ g1.pins[p] = r1
        /\ \A x \in DOMAIN g0.pins : x # p => g1.pins[x] = g0.pins[x]
    BY <1>7, <2>1, PutPinIs
  <2> HIDE DEF g1
  <2>3. DOMAIN g1.pins = DOMAIN g.pins
    BY <1>6, <2>2, <1>5, <1>6, GraphType
  <2> QED BY <2>2, <2>3, <1>5, <1>6
<1> HIDE DEF g1
<1>9. r2 \in PinRecord /\ r2 = [name |-> g.pins[p].name, node |-> n, slot |-> Len(g.nodes[n].outs) + 1, net |-> g.pins[p].net, place |-> g.pins[p].place, output |-> g.pins[p].output, live |-> g.pins[p].live]
  <2> DEFINE r == r1
             y == Len(g.nodes[n].outs) + 1
  <2>1. r \in PinRecord /\ y \in Nat /\ r = [name |-> g.pins[p].name, node |-> n, slot |-> g.pins[p].slot, net |-> g.pins[p].net, place |-> g.pins[p].place, output |-> g.pins[p].output, live |-> g.pins[p].live]
    BY <1>2, <1>3, <1>7 DEF PinRecord
  <2>2. g1.pins[p] = r
    BY <1>7, <1>8
  <2>3. r2 = [r EXCEPT !.slot = y]
    BY <2>2, Zenon
  <2>9. y = Len(g.nodes[n].outs) + 1
    OBVIOUS
  <2> HIDE DEF r, y
  <2>4. [r EXCEPT !.slot = y] \in PinRecord
        /\ [r EXCEPT !.slot = y] = [name |-> r.name, node |-> r.node, slot |-> y, net |-> r.net, place |-> r.place, output |-> r.output, live |-> r.live]
    BY <2>1, PinWithSlot, Zenon
  <2> HIDE DEF r2, r1
  <2> QED BY <2>1, <2>3, <2>4, <2>9
<1> HIDE DEF r2
<1>10. /\ g2 \in GraphSet /\ g2.nodes = g0.nodes /\ g2.nets = g0.nets
      /\ LastPin(g2) = LastPin(g) /\ DOMAIN g2.pins = DOMAIN g.pins /\ g2.pins[p] = r2
      /\ \A x \in DOMAIN g.pins : x # p => g2.pins[x] = g.pins[x]
  <2>1. p \in DOMAIN g1.pins /\ g1 \in GraphSet
    BY <1>8
  <2>2. /\ g2 \in GraphSet /\ g2.nodes = g1.nodes /\ g2.nets = g1.nets
        /\ LastPin(g2) = LastPin(g1) /\ g2.pins[p] = r2
        /\ \A x \in DOMAIN g1.pins : x # p => g2.pins[x] = g1.pins[x]
    BY <1>9, <2>1, PutPinIs
  <2> HIDE DEF g2
  <2>3. DOMAIN g2.pins = DOMAIN g.pins
    BY <1>6, <2>2, <1>8, GraphType
  <2> QED BY <2>2, <2>3, <1>8
<1> HIDE DEF g2
<1>11. r3 \in PinRecord /\ r3 = [name |-> g.pins[p].name, node |-> n, slot |-> Len(g.nodes[n].outs) + 1, net |-> g.pins[p].net, place |-> g.pins[p].place, output |-> TRUE, live |-> g.pins[p].live]
  <2> DEFINE r == r2
             y == TRUE
  <2>1. r \in PinRecord /\ y \in BOOLEAN /\ r = [name |-> g.pins[p].name, node |-> n, slot |-> Len(g.nodes[n].outs) + 1, net |-> g.pins[p].net, place |-> g.pins[p].place, output |-> g.pins[p].output, live |-> g.pins[p].live]
    BY <1>2, <1>3, <1>9 DEF PinRecord
  <2>2. g2.pins[p] = r
    BY <1>9, <1>10
  <2>3. r3 = [r EXCEPT !.output = y]
    BY <2>2, Zenon
  <2>9. y = TRUE
    OBVIOUS
  <2> HIDE DEF r, y
  <2>4. [r EXCEPT !.output = y] \in PinRecord
        /\ [r EXCEPT !.output = y] = [name |-> r.name, node |-> r.node, slot |-> r.slot, net |-> r.net, place |-> r.place, output |-> y, live |-> r.live]
    BY <2>1, PinWithOutput, Zenon
  <2> HIDE DEF r3, r2
  <2> QED BY <2>1, <2>3, <2>4, <2>9
<1> HIDE DEF r3
<1>12. /\ g3 \in GraphSet /\ g3.nodes = g0.nodes /\ g3.nets = g0.nets
      /\ LastPin(g3) = LastPin(g) /\ DOMAIN g3.pins = DOMAIN g.pins /\ g3.pins[p] = r3
      /\ \A x \in DOMAIN g.pins : x # p => g3.pins[x] = g.pins[x]
  <2>1. p \in DOMAIN g2.pins /\ g2 \in GraphSet
    BY <1>10
  <2>2. /\ g3 \in GraphSet /\ g3.nodes = g2.nodes /\ g3.nets = g2.nets
        /\ LastPin(g3) = LastPin(g2) /\ g3.pins[p] = r3
        /\ \A x \in DOMAIN g2.pins : x # p => g3.pins[x] = g2.pins[x]
    BY <1>11, <2>1, PutPinIs
  <2> HIDE DEF g3
  <2>3. DOMAIN g3.pins = DOMAIN g.pins
    BY <1>6, <2>2, <1>10, GraphType
  <2> QED BY <2>2, <2>3, <1>10
<1> HIDE DEF g3
<1>13. LastNode(g3) = LastNode(g)
  BY <1>5, <1>12 DEF LastNode
<1> QED BY <1>1, <1>4, <1>5, <1>11, <1>12, <1>13

(* A pin reads a net.                                                      *)
LEMMA AddFanoutPinToNetIs ==
  ASSUME NEW g \in GraphSet, NEW m \in DOMAIN g.nets, NEW p \in DOMAIN g.pins
  PROVE  LET h == AddFanoutPinToNet(g, m, p)
         IN  /\ h \in GraphSet /\ h.nodes = g.nodes
             /\ LastNet(h) = LastNet(g) /\ LastPin(h) = LastPin(g)
             /\ \A x \in DOMAIN g.nets : x # m => h.nets[x] = g.nets[x]
             /\ h.nets[m] = [name |-> g.nets[m].name, drivers |-> g.nets[m].drivers, fanouts |-> Append(g.nets[m].fanouts, p), live |-> g.nets[m].live]
             /\ \A x \in DOMAIN g.pins : x # p => h.pins[x] = g.pins[x]
             /\ h.pins[p] = [name |-> g.pins[p].name, node |-> g.pins[p].node, slot |-> g.pins[p].slot, net |-> m, place |-> Len(g.nets[m].fanouts) + 1, output |-> g.pins[p].output, live |-> g.pins[p].live]
<1> DEFINE c == [g.nets[m] EXCEPT !.fanouts = Append(@, p)]
           g0 == PutNet(g, m, c)
           r1 == [g0.pins[p] EXCEPT !.net = m]
           g1 == PutPin(g0, p, r1)
           r2 == [g1.pins[p] EXCEPT !.place = Len(g.nets[m].fanouts) + 1]
           g2 == PutPin(g1, p, r2)
<1>1. AddFanoutPinToNet(g, m, p) = g2
  BY Zenon DEF AddFanoutPinToNet, PutNet, PutPin
<1>2. g.nets[m] \in NetRecord /\ p \in Nat /\ m \in Nat /\ g.pins[p] \in PinRecord
      /\ g.nets[m].fanouts \in Seq(Nat)
  BY GraphType DEF NetRecord
<1>3. Append(g.nets[m].fanouts, p) \in Seq(Nat) /\ Len(g.nets[m].fanouts) + 1 \in Nat
  BY <1>2
<1>4. c \in NetRecord /\ c = [name |-> g.nets[m].name, drivers |-> g.nets[m].drivers, fanouts |-> Append(g.nets[m].fanouts, p), live |-> g.nets[m].live]
  <2> DEFINE r == g.nets[m]
             s == Append(g.nets[m].fanouts, p)
  <2>1. r \in NetRecord /\ s \in Seq(Nat) /\ c = [r EXCEPT !.fanouts = s]
    BY <1>2, <1>3, Zenon
  <2>2. [r EXCEPT !.fanouts = s] \in NetRecord
        /\ [r EXCEPT !.fanouts = s] = [name |-> r.name, drivers |-> r.drivers, fanouts |-> s, live |-> r.live]
    BY <2>1, NetWithFanouts, Zenon
  <2> HIDE DEF c
  <2> QED BY <2>1, <2>2
<1> HIDE DEF c
<1>5. /\ g0 \in GraphSet /\ g0.pins = g.pins /\ g0.nodes = g.nodes
      /\ LastNet(g0) = LastNet(g) /\ g0.nets[m] = c
      /\ \A x \in DOMAIN g.nets : x # m => g0.nets[x] = g.nets[x]
  BY <1>4, PutNetIs, ZenonT(60)
<1> HIDE DEF g0
<1>6. LastPin(g0) = LastPin(g) /\ DOMAIN g0.pins = DOMAIN g.pins
  BY <1>5, GraphType DEF LastPin
<1>7. r1 \in PinRecord /\ r1 = [name |-> g.pins[p].name, node |-> g.pins[p].node, slot |-> g.pins[p].slot, net |-> m, place |-> g.pins[p].place, output |-> g.pins[p].output, live |-> g.pins[p].live]
  <2> DEFINE r == g.pins[p]
             y == m
  <2>1. r \in PinRecord /\ y \in Nat /\ r = [name |-> g.pins[p].name, node |-> g.pins[p].node, slot |-> g.pins[p].slot, net |-> g.pins[p].net, place |-> g.pins[p].place, output |-> g.pins[p].output, live |-> g.pins[p].live]
    BY <1>2, <1>3 DEF PinRecord
  <2>2. g0.pins[p] = r
    BY <1>2, <1>5, <1>6
  <2>3. r1 = [r EXCEPT !.net = y]
    BY <2>2, Zenon
  <2>9. y = m
    OBVIOUS
  <2> HIDE DEF r, y
  <2>4. [r EXCEPT !.net = y] \in PinRecord
        /\ [r EXCEPT !.net = y] = [name |-> r.name, node |-> r.node, slot |-> r.slot, net |-> y, place |-> r.place, output |-> r.output, live |-> r.live]
    BY <2>1, PinWithNet, Zenon
  <2> HIDE DEF r1
  <2> QED BY <2>1, <2>3, <2>4, <2>9
<1> HIDE DEF r1
<1>8. /\ g1 \in GraphSet /\ g1.nodes = g0.nodes /\ g1.nets = g0.nets
      /\ LastPin(g1) = LastPin(g) /\ DOMAIN g1.pins = DOMAIN g.pins /\ g1.pins[p] = r1
      /\ \A x \in DOMAIN g.pins : x # p => g1.pins[x] = g.pins[x]
  <2>1. p \in DOMAIN g0.pins /\ g0 \in GraphSet
    BY <1>5, <1>6
  <2>2. /\ g1 \in GraphSet /\ g1.nodes = g0.nodes /\ g1.nets = g0.nets
        /\ LastPin(g1) = LastPin(g0) /\ g1.pins[p] = r1
        /\ \A x \in DOMAIN g0.pins : x # p => g1.pins[x] = g0.pins[x]
    BY <1>7, <2>1, PutPinIs
  <2> HIDE DEF g1
  <2>3. DOMAIN g1.pins = DOMAIN g.pins
    BY <1>6, <2>2, <1>5, <1>6, GraphType
  <2> QED BY <2>2, <2>3, <1>5, <1>6
<1> HIDE DEF g1
<1>9. r2 \in PinRecord /\ r2 = [name |-> g.pins[p].name, node |-> g.pins[p].node, slot |-> g.pins[p].slot, net |-> m, place |-> Len(g.nets[m].fanouts) + 1, output |-> g.pins[p].output, live |-> g.pins[p].live]
  <2> DEFINE r == r1
             y == Len(g.nets[m].fanouts) + 1
  <2>1. r \in PinRecord /\ y \in Nat /\ r = [name |-> g.pins[p].name, node |-> g.pins[p].node, slot |-> g.pins[p].slot, net |-> m, place |-> g.pins[p].place, output |-> g.pins[p].output, live |-> g.pins[p].live]
    BY <1>2, <1>3, <1>7 DEF PinRecord
  <2>2. g1.pins[p] = r
    BY <1>7, <1>8
  <2>3. r2 = [r EXCEPT !.place = y]
    BY <2>2, Zenon
  <2>9. y = Len(g.nets[m].fanouts) + 1
    OBVIOUS
  <2> HIDE DEF r, y
  <2>4. [r EXCEPT !.place = y] \in PinRecord
        /\ [r EXCEPT !.place = y] = [name |-> r.name, node |-> r.node, slot |-> r.slot, net |-> r.net, place |-> y, output |-> r.output, live |-> r.live]
    BY <2>1, PinWithPlace, Zenon
  <2> HIDE DEF r2, r1
  <2> QED BY <2>1, <2>3, <2>4, <2>9
<1> HIDE DEF r2
<1>10. /\ g2 \in GraphSet /\ g2.nodes = g0.nodes /\ g2.nets = g0.nets
      /\ LastPin(g2) = LastPin(g) /\ DOMAIN g2.pins = DOMAIN g.pins /\ g2.pins[p] = r2
      /\ \A x \in DOMAIN g.pins : x # p => g2.pins[x] = g.pins[x]
  <2>1. p \in DOMAIN g1.pins /\ g1 \in GraphSet
    BY <1>8
  <2>2. /\ g2 \in GraphSet /\ g2.nodes = g1.nodes /\ g2.nets = g1.nets
        /\ LastPin(g2) = LastPin(g1) /\ g2.pins[p] = r2
        /\ \A x \in DOMAIN g1.pins : x # p => g2.pins[x] = g1.pins[x]
    BY <1>9, <2>1, PutPinIs
  <2> HIDE DEF g2
  <2>3. DOMAIN g2.pins = DOMAIN g.pins
    BY <1>6, <2>2, <1>8, GraphType
  <2> QED BY <2>2, <2>3, <1>8
<1> HIDE DEF g2
<1>11. LastNet(g2) = LastNet(g)
  BY <1>5, <1>10 DEF LastNet
<1> QED BY <1>1, <1>4, <1>5, <1>9, <1>10, <1>11

(* A pin drives a net.                                                     *)
LEMMA AddDriverPinToNetIs ==
  ASSUME NEW g \in GraphSet, NEW m \in DOMAIN g.nets, NEW p \in DOMAIN g.pins
  PROVE  LET h == AddDriverPinToNet(g, m, p)
         IN  /\ h \in GraphSet /\ h.nodes = g.nodes
             /\ LastNet(h) = LastNet(g) /\ LastPin(h) = LastPin(g)
             /\ \A x \in DOMAIN g.nets : x # m => h.nets[x] = g.nets[x]
             /\ h.nets[m] = [name |-> g.nets[m].name, drivers |-> Append(g.nets[m].drivers, p), fanouts |-> g.nets[m].fanouts, live |-> g.nets[m].live]
             /\ \A x \in DOMAIN g.pins : x # p => h.pins[x] = g.pins[x]
             /\ h.pins[p] = [name |-> g.pins[p].name, node |-> g.pins[p].node, slot |-> g.pins[p].slot, net |-> m, place |-> Len(g.nets[m].drivers) + 1, output |-> g.pins[p].output, live |-> g.pins[p].live]
<1> DEFINE c == [g.nets[m] EXCEPT !.drivers = Append(@, p)]
           g0 == PutNet(g, m, c)
           r1 == [g0.pins[p] EXCEPT !.net = m]
           g1 == PutPin(g0, p, r1)
           r2 == [g1.pins[p] EXCEPT !.place = Len(g.nets[m].drivers) + 1]
           g2 == PutPin(g1, p, r2)
<1>1. AddDriverPinToNet(g, m, p) = g2
  BY Zenon DEF AddDriverPinToNet, PutNet, PutPin
<1>2. g.nets[m] \in NetRecord /\ p \in Nat /\ m \in Nat /\ g.pins[p] \in PinRecord
      /\ g.nets[m].drivers \in Seq(Nat)
  BY GraphType DEF NetRecord
<1>3. Append(g.nets[m].drivers, p) \in Seq(Nat) /\ Len(g.nets[m].drivers) + 1 \in Nat
  BY <1>2
<1>4. c \in NetRecord /\ c = [name |-> g.nets[m].name, drivers |-> Append(g.nets[m].drivers, p), fanouts |-> g.nets[m].fanouts, live |-> g.nets[m].live]
  <2> DEFINE r == g.nets[m]
             s == Append(g.nets[m].drivers, p)
  <2>1. r \in NetRecord /\ s \in Seq(Nat) /\ c = [r EXCEPT !.drivers = s]
    BY <1>2, <1>3, Zenon
  <2>2. [r EXCEPT !.drivers = s] \in NetRecord
        /\ [r EXCEPT !.drivers = s] = [name |-> r.name, drivers |-> s, fanouts |-> r.fanouts, live |-> r.live]
    BY <2>1, NetWithDrivers, Zenon
  <2> HIDE DEF c
  <2> QED BY <2>1, <2>2
<1> HIDE DEF c
<1>5. /\ g0 \in GraphSet /\ g0.pins = g.pins /\ g0.nodes = g.nodes
      /\ LastNet(g0) = LastNet(g) /\ g0.nets[m] = c
      /\ \A x \in DOMAIN g.nets : x # m => g0.nets[x] = g.nets[x]
  BY <1>4, PutNetIs, ZenonT(60)
<1> HIDE DEF g0
<1>6. LastPin(g0) = LastPin(g) /\ DOMAIN g0.pins = DOMAIN g.pins
  BY <1>5, GraphType DEF LastPin
<1>7. r1 \in PinRecord /\ r1 = [name |-> g.pins[p].name, node |-> g.pins[p].node, slot |-> g.pins[p].slot, net |-> m, place |-> g.pins[p].place, output |-> g.pins[p].output, live |-> g.pins[p].live]
  <2> DEFINE r == g.pins[p]
             y == m
  <2>1. r \in PinRecord /\ y \in Nat /\ r = [name |-> g.pins[p].name, node |-> g.pins[p].node, slot |-> g.pins[p].slot, net |-> g.pins[p].net, place |-> g.pins[p].place, output |-> g.pins[p].output, live |-> g.pins[p].live]
    BY <1>2, <1>3 DEF PinRecord
  <2>2. g0.pins[p] = r
    BY <1>2, <1>5, <1>6
  <2>3. r1 = [r EXCEPT !.net = y]
    BY <2>2, Zenon
  <2>9. y = m
    OBVIOUS
  <2> HIDE DEF r, y
  <2>4. [r EXCEPT !.net = y] \in PinRecord
        /\ [r EXCEPT !.net = y] = [name |-> r.name, node |-> r.node, slot |-> r.slot, net |-> y, place |-> r.place, output |-> r.output, live |-> r.live]
    BY <2>1, PinWithNet, Zenon
  <2> HIDE DEF r1
  <2> QED BY <2>1, <2>3, <2>4, <2>9
<1> HIDE DEF r1
<1>8. /\ g1 \in GraphSet /\ g1.nodes = g0.nodes /\ g1.nets = g0.nets
      /\ LastPin(g1) = LastPin(g) /\ DOMAIN g1.pins = DOMAIN g.pins /\ g1.pins[p] = r1
      /\ \A x \in DOMAIN g.pins : x # p => g1.pins[x] = g.pins[x]
  <2>1. p \in DOMAIN g0.pins /\ g0 \in GraphSet
    BY <1>5, <1>6
  <2>2. /\ g1 \in GraphSet /\ g1.nodes = g0.nodes /\ g1.nets = g0.nets
        /\ LastPin(g1) = LastPin(g0) /\ g1.pins[p] = r1
        /\ \A x \in DOMAIN g0.pins : x # p => g1.pins[x] = g0.pins[x]
    BY <1>7, <2>1, PutPinIs
  <2> HIDE DEF g1
  <2>3. DOMAIN g1.pins = DOMAIN g.pins
    BY <1>6, <2>2, <1>5, <1>6, GraphType
  <2> QED BY <2>2, <2>3, <1>5, <1>6
<1> HIDE DEF g1
<1>9. r2 \in PinRecord /\ r2 = [name |-> g.pins[p].name, node |-> g.pins[p].node, slot |-> g.pins[p].slot, net |-> m, place |-> Len(g.nets[m].drivers) + 1, output |-> g.pins[p].output, live |-> g.pins[p].live]
  <2> DEFINE r == r1
             y == Len(g.nets[m].drivers) + 1
  <2>1. r \in PinRecord /\ y \in Nat /\ r = [name |-> g.pins[p].name, node |-> g.pins[p].node, slot |-> g.pins[p].slot, net |-> m, place |-> g.pins[p].place, output |-> g.pins[p].output, live |-> g.pins[p].live]
    BY <1>2, <1>3, <1>7 DEF PinRecord
  <2>2. g1.pins[p] = r
    BY <1>7, <1>8
  <2>3. r2 = [r EXCEPT !.place = y]
    BY <2>2, Zenon
  <2>9. y = Len(g.nets[m].drivers) + 1
    OBVIOUS
  <2> HIDE DEF r, y
  <2>4. [r EXCEPT !.place = y] \in PinRecord
        /\ [r EXCEPT !.place = y] = [name |-> r.name, node |-> r.node, slot |-> r.slot, net |-> r.net, place |-> y, output |-> r.output, live |-> r.live]
    BY <2>1, PinWithPlace, Zenon
  <2> HIDE DEF r2, r1
  <2> QED BY <2>1, <2>3, <2>4, <2>9
<1> HIDE DEF r2
<1>10. /\ g2 \in GraphSet /\ g2.nodes = g0.nodes /\ g2.nets = g0.nets
      /\ LastPin(g2) = LastPin(g) /\ DOMAIN g2.pins = DOMAIN g.pins /\ g2.pins[p] = r2
      /\ \A x \in DOMAIN g.pins : x # p => g2.pins[x] = g.pins[x]
  <2>1. p \in DOMAIN g1.pins /\ g1 \in GraphSet
    BY <1>8
  <2>2. /\ g2 \in GraphSet /\ g2.nodes = g1.nodes /\ g2.nets = g1.nets
        /\ LastPin(g2) = LastPin(g1) /\ g2.pins[p] = r2
        /\ \A x \in DOMAIN g1.pins : x # p => g2.pins[x] = g1.pins[x]
    BY <1>9, <2>1, PutPinIs
  <2> HIDE DEF g2
  <2>3. DOMAIN g2.pins = DOMAIN g.pins
    BY <1>6, <2>2, <1>8, GraphType
  <2> QED BY <2>2, <2>3, <1>8
<1> HIDE DEF g2
<1>11. LastNet(g2) = LastNet(g)
  BY <1>5, <1>10 DEF LastNet
<1> QED BY <1>1, <1>4, <1>5, <1>9, <1>10, <1>11

(* From g to h node n gets an input pin that is on no net.                 *)
ReaderAdded(g, h, n, bit) ==
  LET P == LastPin(g) + 1
      r == g.nodes[n]
  IN  /\ h \in GraphSet /\ h.nets = g.nets
      /\ LastPin(h) = P /\ LastNode(h) = LastNode(g)
      /\ \A x \in DOMAIN g.nodes : x # n => h.nodes[x] = g.nodes[x]
      /\ h.nodes[n] = [type |-> r.type, name |-> r.name, ins |-> Append(r.ins, P),
                       outs |-> r.outs, live |-> r.live]
      /\ \A p \in DOMAIN g.pins : h.pins[p] = g.pins[p]
      /\ h.pins[P] = [name |-> <<bit, 0>>, node |-> n, slot |-> Len(r.ins) + 1,
                      net |-> Null, place |-> 0, output |-> FALSE, live |-> TRUE]

(* An input pin that is on no net.                                         *)
LEMMA NewReaderIs ==
  ASSUME NEW g \in GraphSet, NEW n \in DOMAIN g.nodes, NEW bit \in Names
  PROVE  ReaderAdded(g, NewReader(g, n, bit), n, bit)
<1> DEFINE P == LastPin(g) + 1
           a == AllocatePin(g, <<bit, 0>>)
           h == AddInputPinToNode(a, n, P)
<1>1. <<bit, 0>> \in PinNames
  BY DEF PinNames
<1>2. /\ a \in GraphSet /\ a.nodes = g.nodes /\ a.nets = g.nets /\ LastPin(a) = P
      /\ \A m \in DOMAIN g.pins : a.pins[m] = g.pins[m]
      /\ a.pins[P] = [name |-> <<bit, 0>>, node |-> Null, slot |-> 0, net |-> Null, place |-> 0,
                      output |-> FALSE, live |-> TRUE]
      /\ LastNode(a) = LastNode(g)
  BY <1>1, AllocatePinIs DEF LastNode
<1>3. NewReader(g, n, bit) = h
  BY <1>2, Zenon DEF NewReader
<1> HIDE DEF a
<1>4. P \in Nat /\ P \notin DOMAIN g.pins /\ DOMAIN a.pins = DOMAIN g.pins \cup {P}
  BY <1>2, GraphType
<1>5. P \in DOMAIN a.pins /\ n \in DOMAIN a.nodes
  BY <1>2, <1>4
<1>6. /\ h \in GraphSet /\ h.nets = a.nets
      /\ LastNode(h) = LastNode(a) /\ LastPin(h) = LastPin(a)
      /\ \A x \in DOMAIN a.nodes : x # n => h.nodes[x] = a.nodes[x]
      /\ h.nodes[n] = [type |-> a.nodes[n].type, name |-> a.nodes[n].name,
                       ins |-> Append(a.nodes[n].ins, P), outs |-> a.nodes[n].outs,
                       live |-> a.nodes[n].live]
      /\ \A x \in DOMAIN a.pins : x # P => h.pins[x] = a.pins[x]
      /\ h.pins[P] = [name |-> a.pins[P].name, node |-> n, slot |-> Len(a.nodes[n].ins) + 1,
                      net |-> a.pins[P].net, place |-> a.pins[P].place,
                      output |-> a.pins[P].output, live |-> a.pins[P].live]
  BY <1>2, <1>5, AddInputPinToNodeIs, Zenon
<1> HIDE DEF h, P
<1>7. \A p \in DOMAIN g.pins : h.pins[p] = g.pins[p]
  BY <1>2, <1>4, <1>6
<1> QED BY <1>2, <1>3, <1>6, <1>7 DEF P, ReaderAdded

(* From g to h node n gets an output pin on net m.                         *)
DriverAdded(g, h, n, m, name) ==
  LET P == LastPin(g) + 1
      r == g.nodes[n]
      t == g.nets[m]
  IN  /\ h \in GraphSet
      /\ LastPin(h) = P /\ LastNode(h) = LastNode(g) /\ LastNet(h) = LastNet(g)
      /\ \A x \in DOMAIN g.nodes : x # n => h.nodes[x] = g.nodes[x]
      /\ h.nodes[n] = [type |-> r.type, name |-> r.name, ins |-> r.ins,
                       outs |-> Append(r.outs, P), live |-> r.live]
      /\ \A x \in DOMAIN g.nets : x # m => h.nets[x] = g.nets[x]
      /\ h.nets[m] = [name |-> t.name, drivers |-> Append(t.drivers, P),
                      fanouts |-> t.fanouts, live |-> t.live]
      /\ \A p \in DOMAIN g.pins : h.pins[p] = g.pins[p]
      /\ h.pins[P] = [name |-> name, node |-> n, slot |-> Len(r.outs) + 1, net |-> m,
                      place |-> Len(t.drivers) + 1, output |-> TRUE, live |-> TRUE]

(* An output pin, on a net.                                                *)
LEMMA NewDriverIs ==
  ASSUME NEW g \in GraphSet, NEW n \in DOMAIN g.nodes, NEW m \in DOMAIN g.nets,
         NEW name \in PinNames
  PROVE  DriverAdded(g, NewDriver(g, n, m, name), n, m, name)
<1> DEFINE P == LastPin(g) + 1
           a == AllocatePin(g, name)
           b == AddOutputPinToNode(a, n, P)
           h == AddDriverPinToNet(b, m, P)
<1>2. /\ a \in GraphSet /\ a.nodes = g.nodes /\ a.nets = g.nets /\ LastPin(a) = P
      /\ \A x \in DOMAIN g.pins : a.pins[x] = g.pins[x]
      /\ a.pins[P] = [name |-> name, node |-> Null, slot |-> 0, net |-> Null, place |-> 0,
                      output |-> FALSE, live |-> TRUE]
      /\ LastNode(a) = LastNode(g) /\ LastNet(a) = LastNet(g)
  BY AllocatePinIs DEF LastNode, LastNet
<1> HIDE DEF a
<1>4. P \in Nat /\ P \notin DOMAIN g.pins /\ DOMAIN a.pins = DOMAIN g.pins \cup {P}
  BY <1>2, GraphType
<1>5. P \in DOMAIN a.pins /\ n \in DOMAIN a.nodes
  BY <1>2, <1>4
<1>6. /\ b \in GraphSet /\ b.nets = a.nets
      /\ LastNode(b) = LastNode(a) /\ LastPin(b) = LastPin(a)
      /\ \A x \in DOMAIN a.nodes : x # n => b.nodes[x] = a.nodes[x]
      /\ b.nodes[n] = [type |-> a.nodes[n].type, name |-> a.nodes[n].name,
                       ins |-> a.nodes[n].ins, outs |-> Append(a.nodes[n].outs, P),
                       live |-> a.nodes[n].live]
      /\ \A x \in DOMAIN a.pins : x # P => b.pins[x] = a.pins[x]
      /\ b.pins[P] = [name |-> a.pins[P].name, node |-> n, slot |-> Len(a.nodes[n].outs) + 1,
                      net |-> a.pins[P].net, place |-> a.pins[P].place,
                      output |-> TRUE, live |-> a.pins[P].live]
  BY <1>2, <1>5, AddOutputPinToNodeIs, Zenon
<1>7. NewDriver(g, n, m, name) = h
  <2> DEFINE c == AllocatePin(g, name)
  <2>0. c = a
    BY DEF a
  <2>1. NewDriver(g, n, m, name)
          = AddDriverPinToNet(AddOutputPinToNode(c, n, LastPin(c)), m,
                              LastPin(AddOutputPinToNode(c, n, LastPin(c))))
    BY Zenon DEF NewDriver
  <2> HIDE DEF c, b
  <2>2. LastPin(a) = P /\ LastPin(b) = P
    BY <1>2, <1>6
  <2> QED BY <2>0, <2>1, <2>2, Zenon DEF b
<1> HIDE DEF b, P
<1>8. /\ \A x \in DOMAIN g.pins : b.pins[x] = g.pins[x]
      /\ b.pins[P] = [name |-> name, node |-> n, slot |-> Len(g.nodes[n].outs) + 1,
                      net |-> Null, place |-> 0, output |-> TRUE, live |-> TRUE]
      /\ DOMAIN b.pins = DOMAIN a.pins /\ LastNet(b) = LastNet(g)
  BY <1>2, <1>4, <1>6, GraphType DEF LastNet
<1>9. m \in DOMAIN b.nets /\ P \in DOMAIN b.pins
  BY <1>2, <1>5, <1>6, <1>8
<1>10. /\ h \in GraphSet /\ h.nodes = b.nodes
       /\ LastNet(h) = LastNet(b) /\ LastPin(h) = LastPin(b)
       /\ \A x \in DOMAIN b.nets : x # m => h.nets[x] = b.nets[x]
       /\ h.nets[m] = [name |-> b.nets[m].name, drivers |-> Append(b.nets[m].drivers, P),
                       fanouts |-> b.nets[m].fanouts, live |-> b.nets[m].live]
       /\ \A x \in DOMAIN b.pins : x # P => h.pins[x] = b.pins[x]
       /\ h.pins[P] = [name |-> b.pins[P].name, node |-> b.pins[P].node, slot |-> b.pins[P].slot,
                       net |-> m, place |-> Len(b.nets[m].drivers) + 1,
                       output |-> b.pins[P].output, live |-> b.pins[P].live]
  BY <1>6, <1>9, AddDriverPinToNetIs, Zenon
<1> HIDE DEF h
<1>11. \A p \in DOMAIN g.pins : h.pins[p] = g.pins[p]
  BY <1>4, <1>8, <1>10
<1>12. LastNode(h) = LastNode(g)
  BY <1>2, <1>6, <1>10 DEF LastNode
<1>13. h.pins[P] = [name |-> name, node |-> n, slot |-> Len(g.nodes[n].outs) + 1, net |-> m,
                    place |-> Len(g.nets[m].drivers) + 1, output |-> TRUE, live |-> TRUE]
  BY <1>2, <1>6, <1>8, <1>10
<1> QED BY <1>2, <1>6, <1>7, <1>8, <1>10, <1>11, <1>12, <1>13 DEF P, DriverAdded

-----------------------------------------------------------------------------
(* Building keeps the two ends of every link together.                     *)

(* The three parts of the agreement of pointers.                           *)
LEMMA AgreeParts ==
  ASSUME NEW g, Agree(g)
  PROVE  /\ \A n \in DOMAIN g.nodes : g.nodes[n].live => NodeOK(g, n)
         /\ \A p \in DOMAIN g.pins : g.pins[p].live => PinOK(g, p)
         /\ \A m \in DOMAIN g.nets : g.nets[m].live => NetOK(g, m)
BY DEF Agree

(* What was allocated stays what it is while the netlist is built, up to   *)
(* the slots and places that are added.                                    *)
PinsKept(g, h) == \A p \in DOMAIN g.pins : p \in DOMAIN h.pins /\ h.pins[p] = g.pins[p]

(* The pins of node n keep their slots; the pins of net m their places.     *)
SlotsKept(g, h, n) ==
  \A p \in DOMAIN g.pins : g.pins[p].node = n =>
    /\ p \in DOMAIN h.pins /\ h.pins[p].live = g.pins[p].live
    /\ h.pins[p].node = g.pins[p].node /\ h.pins[p].slot = g.pins[p].slot
    /\ h.pins[p].output = g.pins[p].output

PlacesKept(g, h, m) ==
  \A p \in DOMAIN g.pins : g.pins[p].net = m =>
    /\ p \in DOMAIN h.pins /\ h.pins[p].live = g.pins[p].live
    /\ h.pins[p].net = g.pins[p].net /\ h.pins[p].place = g.pins[p].place
    /\ h.pins[p].output = g.pins[p].output

(* Net m of h lists at most the readers it lists in g.                      *)
FewerPlaces(g, h, m) ==
  \A k \in DOMAIN h.nets[m].fanouts :
    /\ k \in DOMAIN g.nets[m].fanouts
    /\ h.nets[m].fanouts[k] = Null \/ h.nets[m].fanouts[k] = g.nets[m].fanouts[k]

(* A node that keeps its slots, and whose pins keep theirs, agrees with     *)
(* its pins as before.                                                     *)
LEMMA NodeOKSame ==
  ASSUME NEW g, NEW h, NEW n, NodeOK(g, n), SlotsKept(g, h, n),
         h.nodes[n].ins = g.nodes[n].ins, h.nodes[n].outs = g.nodes[n].outs
  PROVE  NodeOK(h, n)
<1>1. ASSUME NEW i \in DOMAIN h.nodes[n].ins PROVE InSlotOK(h, n, i)
  <2> DEFINE p == g.nodes[n].ins[i]
  <2>1. InSlotOK(g, n, i)
    BY Zenon DEF NodeOK
  <2>2. /\ p \in DOMAIN g.pins /\ g.pins[p].live
        /\ g.pins[p].node = n /\ g.pins[p].slot = i /\ ~g.pins[p].output
    BY <2>1, Zenon DEF InSlotOK, LivePin
  <2>3. h.nodes[n].ins[i] = p
    OBVIOUS
  <2> HIDE DEF p
  <2>4. /\ p \in DOMAIN h.pins /\ h.pins[p].live
        /\ h.pins[p].node = n /\ h.pins[p].slot = i /\ ~h.pins[p].output
    BY <2>2 DEF SlotsKept
  <2> QED BY <2>3, <2>4 DEF InSlotOK, LivePin
<1>2. ASSUME NEW i \in DOMAIN h.nodes[n].outs PROVE OutSlotOK(h, n, i)
  <2> DEFINE p == g.nodes[n].outs[i]
  <2>1. OutSlotOK(g, n, i)
    BY Zenon DEF NodeOK
  <2>2. /\ p \in DOMAIN g.pins /\ g.pins[p].live
        /\ g.pins[p].node = n /\ g.pins[p].slot = i /\ g.pins[p].output
    BY <2>1, Zenon DEF OutSlotOK, LivePin
  <2>3. h.nodes[n].outs[i] = p
    OBVIOUS
  <2> HIDE DEF p
  <2>4. /\ p \in DOMAIN h.pins /\ h.pins[p].live
        /\ h.pins[p].node = n /\ h.pins[p].slot = i /\ h.pins[p].output
    BY <2>2 DEF SlotsKept
  <2> QED BY <2>3, <2>4 DEF OutSlotOK, LivePin
<1> QED BY <1>1, <1>2, Zenon DEF NodeOK

(* A net that keeps its drivers and gets no reader, and whose pins keep     *)
(* their places, agrees with its pins as before.                           *)
LEMMA NetOKSame ==
  ASSUME NEW g, NEW h, NEW m, NetOK(g, m), PlacesKept(g, h, m), FewerPlaces(g, h, m),
         h.nets[m].drivers = g.nets[m].drivers
  PROVE  NetOK(h, m)
<1>1. ASSUME NEW k \in DOMAIN h.nets[m].drivers PROVE DriverOK(h, m, k)
  <2> DEFINE p == g.nets[m].drivers[k]
  <2>1. DriverOK(g, m, k)
    BY Zenon DEF NetOK
  <2>2. /\ p \in DOMAIN g.pins /\ g.pins[p].live
        /\ g.pins[p].net = m /\ g.pins[p].place = k /\ g.pins[p].output
    BY <2>1, Zenon DEF DriverOK, LivePin
  <2>3. h.nets[m].drivers[k] = p
    OBVIOUS
  <2> HIDE DEF p
  <2>4. /\ p \in DOMAIN h.pins /\ h.pins[p].live
        /\ h.pins[p].net = m /\ h.pins[p].place = k /\ h.pins[p].output
    BY <2>2 DEF PlacesKept
  <2> QED BY <2>3, <2>4 DEF DriverOK, LivePin
<1>2. ASSUME NEW k \in DOMAIN h.nets[m].fanouts PROVE FanoutOK(h, m, k)
  <2>1. CASE h.nets[m].fanouts[k] = Null
    BY <2>1, Zenon DEF FanoutOK
  <2>2. CASE h.nets[m].fanouts[k] # Null
    <3> DEFINE p == g.nets[m].fanouts[k]
    <3>1. k \in DOMAIN g.nets[m].fanouts /\ h.nets[m].fanouts[k] = p
      BY <2>2 DEF FewerPlaces
    <3>2. FanoutOK(g, m, k)
      BY <3>1, Zenon DEF NetOK
    <3>3. /\ p \in DOMAIN g.pins /\ g.pins[p].live
          /\ g.pins[p].net = m /\ g.pins[p].place = k /\ ~g.pins[p].output
      BY <2>2, <3>1, <3>2, Zenon DEF FanoutOK, LivePin
    <3> HIDE DEF p
    <3>4. /\ p \in DOMAIN h.pins /\ h.pins[p].live
          /\ h.pins[p].net = m /\ h.pins[p].place = k /\ ~h.pins[p].output
      BY <3>3 DEF PlacesKept
    <3> QED BY <3>1, <3>4 DEF FanoutOK, LivePin
  <2> QED BY <2>1, <2>2
<1> QED BY <1>1, <1>2, Zenon DEF NetOK

(* A node whose slots and pins stay still agrees with its pins.            *)
LEMMA NodeOKKept ==
  ASSUME NEW g, NEW h, NEW n, NodeOK(g, n), PinsKept(g, h),
         h.nodes[n].ins = g.nodes[n].ins, h.nodes[n].outs = g.nodes[n].outs
  PROVE  NodeOK(h, n)
<1>1. SlotsKept(g, h, n)
  BY DEF SlotsKept, PinsKept
<1> QED BY <1>1, NodeOKSame

(* A net whose lists and pins stay still agrees with its pins.             *)
LEMMA NetOKKept ==
  ASSUME NEW g, NEW h, NEW m, NetOK(g, m), PinsKept(g, h),
         h.nets[m].drivers = g.nets[m].drivers, h.nets[m].fanouts = g.nets[m].fanouts
  PROVE  NetOK(h, m)
<1>1. PlacesKept(g, h, m)
  BY DEF PlacesKept, PinsKept
<1>2. FewerPlaces(g, h, m)
  BY DEF FewerPlaces
<1> QED BY <1>1, <1>2, NetOKSame

(* Allocating a node keeps a netlist in which nothing reads a net yet.     *)
LEMMA AllocateNodeFresh ==
  ASSUME NEW g, Fresh(g), NEW type \in NodeTypes, NEW name \in Names
  PROVE  Fresh(AllocateNode(g, type, name))
<1> DEFINE h == AllocateNode(g, type, name)
           N == LastNode(g) + 1
<1>0. g \in GraphSet /\ Agree(g)
  BY DEF Fresh
<1>1. /\ h \in GraphSet /\ h.pins = g.pins /\ h.nets = g.nets /\ LastNode(h) = N
      /\ \A n \in DOMAIN g.nodes : h.nodes[n] = g.nodes[n]
      /\ h.nodes[N] = [type |-> type, name |-> name, ins |-> <<>>, outs |-> <<>>, live |-> TRUE]
  BY <1>0, AllocateNodeIs
<1> HIDE DEF h
<1>2. DOMAIN h.nodes = DOMAIN g.nodes \cup {N} /\ N \notin DOMAIN g.nodes
  BY <1>0, <1>1, GraphType
<1> HIDE DEF N
<1>3. \A n \in DOMAIN h.nodes : NodeOK(h, n)
  <2> SUFFICES ASSUME NEW n \in DOMAIN h.nodes PROVE NodeOK(h, n)
    OBVIOUS
  <2>1. CASE n = N
    BY <1>1, <2>1 DEF NodeOK
  <2>2. CASE n # N
    <3>1. n \in DOMAIN g.nodes /\ NodeOK(g, n) /\ h.nodes[n] = g.nodes[n]
      BY <1>1, <1>2, <2>2, Zenon DEF Fresh, Agree
    <3> QED BY <1>1, <3>1, NodeOKKept DEF PinsKept
  <2> QED BY <2>1, <2>2
<1>4. \A p \in DOMAIN h.pins : PinOK(h, p)
  <2> SUFFICES ASSUME NEW p \in DOMAIN h.pins PROVE PinOK(h, p)
    OBVIOUS
  <2>1. PinOK(g, p)
    BY <1>1 DEF Fresh, Agree
  <2>2. LiveNode(g, g.pins[p].node) => LiveNode(h, g.pins[p].node) /\ h.nodes[g.pins[p].node] = g.nodes[g.pins[p].node]
    BY <1>1, <1>2 DEF LiveNode
  <2> QED BY <1>1, <2>1, <2>2 DEF PinOK, InPinOK, OutPinOK, LiveNet
<1>5. \A m \in DOMAIN h.nets : NetOK(h, m)
  BY <1>1, NetOKKept DEF Fresh, Agree, PinsKept
<1>6. \A n \in DOMAIN h.nodes : h.nodes[n].live
  BY <1>1, <1>2 DEF Fresh
<1>7. Agree(h)
  BY <1>3, <1>4, <1>5 DEF Agree
<1> QED BY <1>1, <1>6, <1>7 DEF Fresh, h

(* Allocating a net keeps a netlist in which nothing reads a net yet.      *)
LEMMA AllocateNetFresh ==
  ASSUME NEW g, Fresh(g), NEW name \in Names
  PROVE  Fresh(AllocateNet(g, name))
<1> DEFINE h == AllocateNet(g, name)
           M == LastNet(g) + 1
<1>0. g \in GraphSet /\ Agree(g)
  BY DEF Fresh
<1>1. /\ h \in GraphSet /\ h.pins = g.pins /\ h.nodes = g.nodes /\ LastNet(h) = M
      /\ \A n \in DOMAIN g.nets : h.nets[n] = g.nets[n]
      /\ h.nets[M] = [name |-> name, drivers |-> <<>>, fanouts |-> <<>>, live |-> TRUE]
  BY <1>0, AllocateNetIs
<1> HIDE DEF h
<1>2. DOMAIN h.nets = DOMAIN g.nets \cup {M} /\ M \notin DOMAIN g.nets
  BY <1>0, <1>1, GraphType
<1> HIDE DEF M
<1>3. \A m \in DOMAIN h.nets : NetOK(h, m)
  <2> SUFFICES ASSUME NEW n \in DOMAIN h.nets PROVE NetOK(h, n)
    OBVIOUS
  <2>1. CASE n = M
    BY <1>1, <2>1 DEF NetOK
  <2>2. CASE n # M
    <3>1. n \in DOMAIN g.nets /\ NetOK(g, n) /\ h.nets[n] = g.nets[n]
      BY <1>1, <1>2, <2>2, Zenon DEF Fresh, Agree
    <3> QED BY <1>1, <3>1, NetOKKept DEF PinsKept
  <2> QED BY <2>1, <2>2
<1>4. \A p \in DOMAIN h.pins : PinOK(h, p)
  <2> SUFFICES ASSUME NEW p \in DOMAIN h.pins PROVE PinOK(h, p)
    OBVIOUS
  <2>1. PinOK(g, p)
    BY <1>1 DEF Fresh, Agree
  <2>2. LiveNet(g, g.pins[p].net) => LiveNet(h, g.pins[p].net) /\ h.nets[g.pins[p].net] = g.nets[g.pins[p].net]
    BY <1>1, <1>2 DEF LiveNet
  <2> QED BY <1>1, <2>1, <2>2 DEF PinOK, InPinOK, OutPinOK, LiveNode
<1>5. \A n \in DOMAIN h.nodes : NodeOK(h, n)
  BY <1>1, NodeOKKept DEF Fresh, Agree, PinsKept
<1>6. \A n \in DOMAIN h.nets : h.nets[n].live /\ h.nets[n].fanouts = <<>>
  BY <1>1, <1>2 DEF Fresh
<1>7. Agree(h)
  BY <1>3, <1>4, <1>5, <1>1 DEF Agree, Fresh
<1> QED BY <1>1, <1>6, <1>7 DEF Fresh, h

(* What Append does to a list of pins.                                     *)
LEMMA AppendFacts ==
  ASSUME NEW s \in Seq(Nat), NEW x \in Nat
  PROVE  /\ Append(s, x) \in Seq(Nat) /\ Append(s, x) # <<>>
         /\ Len(s) \in Nat /\ Len(Append(s, x)) = Len(s) + 1
         /\ DOMAIN s = 1 .. Len(s)
         /\ DOMAIN Append(s, x) = DOMAIN s \cup {Len(s) + 1}
         /\ Len(s) + 1 \notin DOMAIN s
         /\ Append(s, x)[Len(s) + 1] = x
         /\ \A i \in DOMAIN s : Append(s, x)[i] = s[i]
OBVIOUS

(* An input pin that is not on a net yet agrees with its node.             *)
LEMMA NewReaderFresh ==
  ASSUME NEW g, Fresh(g), NEW n \in DOMAIN g.nodes, NEW bit \in Names
  PROVE  Fresh(NewReader(g, n, bit))
<1> DEFINE h == NewReader(g, n, bit)
           P == LastPin(g) + 1
           r == g.nodes[n]
           I == Len(r.ins) + 1
           s == Append(r.ins, P)
<1>0. g \in GraphSet /\ Agree(g)
  BY DEF Fresh
<1>1. /\ h \in GraphSet /\ h.nets = g.nets
      /\ LastPin(h) = P /\ LastNode(h) = LastNode(g)
      /\ \A x \in DOMAIN g.nodes : x # n => h.nodes[x] = g.nodes[x]
      /\ h.nodes[n] = [type |-> r.type, name |-> r.name, ins |-> s,
                       outs |-> r.outs, live |-> r.live]
      /\ \A p \in DOMAIN g.pins : h.pins[p] = g.pins[p]
      /\ h.pins[P] = [name |-> <<bit, 0>>, node |-> n, slot |-> I,
                      net |-> Null, place |-> 0, output |-> FALSE, live |-> TRUE]
  <2>1. ReaderAdded(g, h, n, bit)
    BY <1>0, NewReaderIs
  <2> HIDE DEF h
  <2> QED BY <2>1, Zenon DEF ReaderAdded
<1> HIDE DEF h
<1>2. /\ DOMAIN h.pins = DOMAIN g.pins \cup {P} /\ P \notin DOMAIN g.pins
      /\ DOMAIN h.nodes = DOMAIN g.nodes /\ P \in Nat /\ r.ins \in Seq(Nat)
  <2>1. r \in NodeRecord /\ P \in Nat
    BY <1>0, GraphType
  <2>2. r.ins \in Seq(Nat)
    BY <2>1 DEF NodeRecord
  <2> HIDE DEF r
  <2> QED BY <1>0, <1>1, <2>1, <2>2, GraphType
<1>3. /\ DOMAIN s = DOMAIN r.ins \cup {I} /\ I \notin DOMAIN r.ins /\ s[I] = P
      /\ \A i \in DOMAIN r.ins : s[i] = r.ins[i]
  BY <1>2, AppendFacts
<1> HIDE DEF P, I, s
<1>3a. /\ h.nodes[n].outs = r.outs /\ h.nodes[n].ins = s /\ h.nodes[n].live = r.live
       /\ h.pins[P].node = n /\ h.pins[P].slot = I /\ h.pins[P].net = Null
       /\ ~h.pins[P].output /\ h.pins[P].live
  BY <1>1
<1>3b. PinsKept(g, h)
  BY <1>1, <1>2 DEF PinsKept
<1>4. \A x \in DOMAIN h.nodes : NodeOK(h, x)
  <2> SUFFICES ASSUME NEW x \in DOMAIN h.nodes PROVE NodeOK(h, x)
    OBVIOUS
  <2>0. NodeOK(g, x)
    BY <1>0, <1>2 DEF Fresh, Agree
  <2>1. CASE x = n
    <3>1. \A i \in DOMAIN h.nodes[x].ins : InSlotOK(h, x, i)
      <4> SUFFICES ASSUME NEW i \in DOMAIN h.nodes[x].ins PROVE InSlotOK(h, x, i)
        OBVIOUS
      <4>1. h.nodes[x].ins = s /\ g.nodes[x] = r
        BY <1>3a, <2>1
      <4>2. CASE i = I
        <5>1. h.nodes[x].ins[i] = P
          BY <1>3, <4>1, <4>2
        <5>2. P \in DOMAIN h.pins
          BY <1>2
        <5> QED BY <1>3a, <2>1, <4>2, <5>1, <5>2 DEF InSlotOK, LivePin
      <4>3. CASE i \in DOMAIN r.ins
        <5>1. h.nodes[x].ins[i] = r.ins[i]
          BY <1>3, <4>1, <4>3
        <5>2. InSlotOK(g, x, i)
          BY <2>0, <4>1, <4>3 DEF NodeOK
        <5> QED BY <1>3b, <4>1, <5>1, <5>2 DEF InSlotOK, LivePin, PinsKept
      <4> QED BY <1>3, <4>1, <4>2, <4>3
    <3>2. \A i \in DOMAIN h.nodes[x].outs : OutSlotOK(h, x, i)
      <4> SUFFICES ASSUME NEW i \in DOMAIN h.nodes[x].outs PROVE OutSlotOK(h, x, i)
        OBVIOUS
      <4>1. h.nodes[x].outs = g.nodes[x].outs
        BY <1>3a, <2>1
      <4>2. OutSlotOK(g, x, i)
        BY <2>0, <4>1 DEF NodeOK
      <4> QED BY <1>3b, <4>1, <4>2 DEF OutSlotOK, LivePin, PinsKept
    <3> QED BY <3>1, <3>2 DEF NodeOK
  <2>2. CASE x # n
    <3>1. h.nodes[x] = g.nodes[x]
      BY <1>1, <1>2, <2>2
    <3> QED BY <1>3b, <2>0, <3>1, NodeOKKept
  <2> QED BY <2>1, <2>2
<1>5. \A p \in DOMAIN h.pins : PinOK(h, p)
  <2> SUFFICES ASSUME NEW p \in DOMAIN h.pins PROVE PinOK(h, p)
    OBVIOUS
  <2>1. CASE p = P
    <3>1. LiveNode(h, n)
      BY <1>1, <1>2, <1>3a DEF LiveNode, Fresh
    <3> QED BY <1>3, <1>3a, <2>1, <3>1 DEF PinOK, InPinOK
  <2>2. CASE p # P
    <3>1. p \in DOMAIN g.pins /\ PinOK(g, p) /\ h.pins[p] = g.pins[p]
      BY <1>1, <1>2, <2>2 DEF Fresh, Agree
    <3> DEFINE q == g.pins[p]
    <3>2. LiveNode(g, q.node) => LiveNode(h, q.node)
      BY <1>1, <1>2, <1>3a, Zenon DEF LiveNode
    <3>3. CASE q.output
      <4>1. OutPinOK(g, p)
        BY <3>1, <3>3, Zenon DEF PinOK
      <4>2. h.nodes[q.node].outs = g.nodes[q.node].outs
        BY <1>1, <1>2, <1>3a, <4>1, Zenon DEF OutPinOK, LiveNode
      <4>3. LiveNet(h, q.net)
        BY <1>1, <4>1, Zenon DEF OutPinOK, LiveNet
      <4> QED BY <1>1, <3>1, <3>2, <3>3, <4>1, <4>2, <4>3, ZenonT(60) DEF PinOK, OutPinOK
    <3>4. CASE ~q.output
      <4>1. InPinOK(g, p)
        BY <3>1, <3>4 DEF PinOK
      <4>2. q.slot \in DOMAIN h.nodes[q.node].ins /\ h.nodes[q.node].ins[q.slot] = p
        <5>1. q.node \in DOMAIN g.nodes /\ q.slot \in DOMAIN g.nodes[q.node].ins
              /\ g.nodes[q.node].ins[q.slot] = p
          BY <4>1, Zenon DEF InPinOK, LiveNode
        <5>2. CASE q.node = n
          <6> HIDE DEF q
          <6> QED BY <1>2, <1>3, <1>3a, <5>1, <5>2
        <5>3. CASE q.node # n
          <6> HIDE DEF q
          <6>1. h.nodes[q.node] = g.nodes[q.node]
            BY <1>1, <1>2, <1>3a, <5>1, <5>3
          <6> QED BY <5>1, <6>1
        <5> QED BY <5>2, <5>3
      <4> QED BY <1>1, <3>1, <3>2, <3>4, <4>1, <4>2 DEF PinOK, InPinOK, LiveNet
    <3> QED BY <3>3, <3>4
  <2> QED BY <2>1, <2>2
<1>6. \A m \in DOMAIN h.nets : NetOK(h, m)
  BY <1>1, <1>3b, NetOKKept DEF Fresh, Agree
<1>7. Agree(h)
  BY <1>4, <1>5, <1>6 DEF Agree
<1>8. \A x \in DOMAIN h.nodes : h.nodes[x].live
  BY <1>1, <1>2, <1>3a DEF Fresh
<1>9. \A p \in DOMAIN h.pins : h.pins[p].live /\ (~h.pins[p].output => h.pins[p].net = Null)
  BY <1>1, <1>2, <1>3a DEF Fresh
<1> QED BY <1>1, <1>7, <1>8, <1>9 DEF Fresh, h

(* An output pin agrees with its node and with its net.                    *)
LEMMA NewDriverFresh ==
  ASSUME NEW g, Fresh(g), NEW n \in DOMAIN g.nodes, NEW m \in DOMAIN g.nets,
         NEW name \in PinNames
  PROVE  Fresh(NewDriver(g, n, m, name))
<1> DEFINE h == NewDriver(g, n, m, name)
           P == LastPin(g) + 1
           r == g.nodes[n]
           t == g.nets[m]
           I == Len(r.outs) + 1
           s == Append(r.outs, P)
           K == Len(t.drivers) + 1
           u == Append(t.drivers, P)
<1>0. g \in GraphSet /\ Agree(g)
  BY DEF Fresh
<1>1. /\ h \in GraphSet
      /\ LastPin(h) = P /\ LastNode(h) = LastNode(g) /\ LastNet(h) = LastNet(g)
      /\ \A x \in DOMAIN g.nodes : x # n => h.nodes[x] = g.nodes[x]
      /\ h.nodes[n] = [type |-> r.type, name |-> r.name, ins |-> r.ins,
                       outs |-> s, live |-> r.live]
      /\ \A x \in DOMAIN g.nets : x # m => h.nets[x] = g.nets[x]
      /\ h.nets[m] = [name |-> t.name, drivers |-> u,
                      fanouts |-> t.fanouts, live |-> t.live]
      /\ \A p \in DOMAIN g.pins : h.pins[p] = g.pins[p]
      /\ h.pins[P] = [name |-> name, node |-> n, slot |-> I, net |-> m,
                      place |-> K, output |-> TRUE, live |-> TRUE]
  <2>1. DriverAdded(g, h, n, m, name)
    BY <1>0, NewDriverIs
  <2> HIDE DEF h
  <2> QED BY <2>1, Zenon DEF DriverAdded
<1> HIDE DEF h
<1>2. /\ DOMAIN h.pins = DOMAIN g.pins \cup {P} /\ P \notin DOMAIN g.pins
      /\ DOMAIN h.nodes = DOMAIN g.nodes /\ DOMAIN h.nets = DOMAIN g.nets
      /\ P \in Nat /\ r.outs \in Seq(Nat) /\ t.drivers \in Seq(Nat) /\ m \in Nat \ {0}
  <2>1. r \in NodeRecord /\ t \in NetRecord /\ P \in Nat
    BY <1>0, GraphType
  <2>2. r.outs \in Seq(Nat) /\ t.drivers \in Seq(Nat)
    BY <2>1 DEF NodeRecord, NetRecord
  <2> HIDE DEF r, t
  <2> QED BY <1>0, <1>1, <2>1, <2>2, GraphType
<1>3. /\ DOMAIN s = DOMAIN r.outs \cup {I} /\ I \notin DOMAIN r.outs /\ s[I] = P
      /\ \A i \in DOMAIN r.outs : s[i] = r.outs[i]
      /\ DOMAIN u = DOMAIN t.drivers \cup {K} /\ K \notin DOMAIN t.drivers /\ u[K] = P
      /\ \A i \in DOMAIN t.drivers : u[i] = t.drivers[i]
  BY <1>2, AppendFacts
<1> HIDE DEF P, I, s, K, u
<1>3a. /\ h.nodes[n].outs = s /\ h.nodes[n].ins = r.ins /\ h.nodes[n].live = r.live
       /\ h.nets[m].drivers = u /\ h.nets[m].fanouts = t.fanouts /\ h.nets[m].live = t.live
       /\ h.pins[P].node = n /\ h.pins[P].slot = I /\ h.pins[P].net = m /\ h.pins[P].place = K
       /\ h.pins[P].output /\ h.pins[P].live
  BY <1>1
<1>3b. PinsKept(g, h)
  BY <1>1, <1>2 DEF PinsKept
<1>4. \A x \in DOMAIN h.nodes : NodeOK(h, x)
  <2> SUFFICES ASSUME NEW x \in DOMAIN h.nodes PROVE NodeOK(h, x)
    OBVIOUS
  <2>0. NodeOK(g, x)
    BY <1>0, <1>2 DEF Fresh, Agree
  <2>1. CASE x = n
    <3>1. \A i \in DOMAIN h.nodes[x].outs : OutSlotOK(h, x, i)
      <4> SUFFICES ASSUME NEW i \in DOMAIN h.nodes[x].outs PROVE OutSlotOK(h, x, i)
        OBVIOUS
      <4>1. h.nodes[x].outs = s /\ g.nodes[x] = r
        BY <1>3a, <2>1
      <4>2. CASE i = I
        <5>1. h.nodes[x].outs[i] = P
          BY <1>3, <4>1, <4>2
        <5>2. P \in DOMAIN h.pins
          BY <1>2
        <5> QED BY <1>3a, <2>1, <4>2, <5>1, <5>2 DEF OutSlotOK, LivePin
      <4>3. CASE i \in DOMAIN r.outs
        <5>1. h.nodes[x].outs[i] = r.outs[i]
          BY <1>3, <4>1, <4>3
        <5>2. OutSlotOK(g, x, i)
          BY <2>0, <4>1, <4>3 DEF NodeOK
        <5> QED BY <1>3b, <4>1, <5>1, <5>2 DEF OutSlotOK, LivePin, PinsKept
      <4> QED BY <1>3, <4>1, <4>2, <4>3
    <3>2. \A i \in DOMAIN h.nodes[x].ins : InSlotOK(h, x, i)
      <4> SUFFICES ASSUME NEW i \in DOMAIN h.nodes[x].ins PROVE InSlotOK(h, x, i)
        OBVIOUS
      <4>1. h.nodes[x].ins = g.nodes[x].ins
        BY <1>3a, <2>1
      <4>2. InSlotOK(g, x, i)
        BY <2>0, <4>1 DEF NodeOK
      <4> QED BY <1>3b, <4>1, <4>2 DEF InSlotOK, LivePin, PinsKept
    <3> QED BY <3>1, <3>2, Zenon DEF NodeOK
  <2>2. CASE x # n
    <3>1. h.nodes[x] = g.nodes[x]
      BY <1>1, <1>2, <2>2
    <3> QED BY <1>3b, <2>0, <3>1, NodeOKKept
  <2> QED BY <2>1, <2>2
<1>5. \A p \in DOMAIN h.pins : PinOK(h, p)
  <2> SUFFICES ASSUME NEW p \in DOMAIN h.pins PROVE PinOK(h, p)
    BY Zenon
  <2>1. CASE p = P
    <3>1. LiveNode(h, n) /\ LiveNet(h, m)
      BY <1>1, <1>2, <1>3a DEF LiveNode, LiveNet, Fresh
    <3> QED BY <1>3, <1>3a, <2>1, <3>1 DEF PinOK, OutPinOK
  <2>2. CASE p # P
    <3>1. p \in DOMAIN g.pins /\ PinOK(g, p) /\ h.pins[p] = g.pins[p]
      BY <1>1, <1>2, <2>2 DEF Fresh, Agree
    <3> DEFINE q == g.pins[p]
    <3>2. LiveNode(g, q.node) => LiveNode(h, q.node)
      BY <1>1, <1>2, <1>3a DEF LiveNode
    <3>3. CASE q.output
      <4>1. OutPinOK(g, p)
        BY <3>1, <3>3 DEF PinOK
      <4>2. q.slot \in DOMAIN h.nodes[q.node].outs /\ h.nodes[q.node].outs[q.slot] = p
        <5>1. q.node \in DOMAIN g.nodes /\ q.slot \in DOMAIN g.nodes[q.node].outs
              /\ g.nodes[q.node].outs[q.slot] = p
          BY <4>1 DEF OutPinOK, LiveNode
        <5>2. CASE q.node = n
          BY <1>3, <1>3a, <5>1, <5>2
        <5>3. CASE q.node # n
          BY <1>1, <5>1, <5>3
        <5> QED BY <5>2, <5>3
      <4>3. LiveNet(h, q.net) /\ q.place \in DOMAIN h.nets[q.net].drivers
            /\ h.nets[q.net].drivers[q.place] = p
        <5>1. q.net \in DOMAIN g.nets /\ g.nets[q.net].live /\ q.place \in DOMAIN g.nets[q.net].drivers
              /\ g.nets[q.net].drivers[q.place] = p
          BY <4>1 DEF OutPinOK, LiveNet
        <5>2. CASE q.net = m
          BY <1>2, <1>3, <1>3a, <5>1, <5>2 DEF LiveNet
        <5>3. CASE q.net # m
          BY <1>1, <1>2, <5>1, <5>3 DEF LiveNet
        <5> QED BY <5>2, <5>3
      <4> QED BY <3>1, <3>2, <3>3, <4>1, <4>2, <4>3 DEF PinOK, OutPinOK
    <3>4. CASE ~q.output
      <4>1. InPinOK(g, p)
        BY <3>1, <3>4 DEF PinOK
      <4>2. h.nodes[q.node].ins = g.nodes[q.node].ins
        BY <1>1, <1>2, <1>3a, <4>1 DEF InPinOK, LiveNode
      <4>3. q.net = Null
        BY <3>1, <3>4 DEF Fresh
      <4> QED BY <3>1, <3>2, <3>4, <4>1, <4>2, <4>3 DEF PinOK, InPinOK
    <3> QED BY <3>3, <3>4
  <2> QED BY <2>1, <2>2
<1>6. \A x \in DOMAIN h.nets : NetOK(h, x)
  <2> SUFFICES ASSUME NEW x \in DOMAIN h.nets PROVE NetOK(h, x)
    OBVIOUS
  <2>0. NetOK(g, x) /\ g.nets[x].fanouts = <<>>
    BY <1>0, <1>2 DEF Fresh, Agree
  <2>1. h.nets[x].fanouts = <<>>
    BY <1>1, <1>2, <1>3a, <2>0
  <2>2. \A k \in DOMAIN h.nets[x].drivers : DriverOK(h, x, k)
    <3>1. CASE x = m
      <4>1. ASSUME NEW k \in DOMAIN t.drivers PROVE DriverOK(h, m, k)
        <5>1. DriverOK(g, m, k)
          BY <2>0, <3>1 DEF NetOK
        <5> DEFINE p == t.drivers[k]
        <5>2. LivePin(g, p) /\ g.pins[p].net = m /\ g.pins[p].place = k /\ g.pins[p].output
          BY <5>1 DEF DriverOK
        <5>3. h.nets[m].drivers[k] = p
          BY <1>3, <1>3a
        <5>4. LivePin(h, p) /\ h.pins[p] = g.pins[p]
          BY <1>3b, <5>2 DEF LivePin, PinsKept
        <5> HIDE DEF p
        <5> QED BY <5>2, <5>3, <5>4 DEF DriverOK
      <4>2. DriverOK(h, m, K)
        BY <1>2, <1>3, <1>3a DEF DriverOK, LivePin
      <4> QED BY <1>3, <1>3a, <3>1, <4>1, <4>2
    <3>2. CASE x # m
      <4>1. h.nets[x] = g.nets[x]
        BY <1>1, <1>2, <3>2
      <4> QED BY <1>3b, <2>0, <4>1, NetOKKept DEF NetOK
    <3> QED BY <3>1, <3>2
  <2> QED BY <2>1, <2>2 DEF NetOK
<1>7. Agree(h)
  BY <1>4, <1>5, <1>6 DEF Agree
<1>8. \A x \in DOMAIN h.nodes : h.nodes[x].live
  BY <1>1, <1>2, <1>3a DEF Fresh
<1>9. \A p \in DOMAIN h.pins : h.pins[p].live /\ (~h.pins[p].output => h.pins[p].net = Null)
  BY <1>1, <1>2, <1>3a DEF Fresh
<1>10. \A x \in DOMAIN h.nets : h.nets[x].live /\ h.nets[x].fanouts = <<>>
  BY <1>1, <1>2, <1>3a DEF Fresh
<1> QED BY <1>1, <1>7, <1>8, <1>9, <1>10 DEF Fresh, h

-----------------------------------------------------------------------------
(* The folds the netlist is built with, as sequences of steps.             *)

(* The input pins of a node.                                               *)
Readers(base, n0, seq) == Accumulate(LAMBDA g, b : NewReader(g, n0, b), base, seq)

IsReaders(f, base, n0, seq) ==
  /\ f[0] = base
  /\ \A k \in 1 .. Len(seq) : f[k] = NewReader(f[k - 1], n0, seq[k])
  /\ Readers(base, n0, seq) = f[Len(seq)]

(* The fold is what its last step gives, and each step applies the         *)
(* operator once.                                                          *)
LEMMA FoldReaders ==
  ASSUME NEW base, NEW seq, Len(seq) \in Nat, NEW n0
  PROVE  \E f : IsReaders(f, base, n0, seq)
<1> DEFINE n == Len(seq)
           Steps(f, k) == f[0] = base /\ \A j \in 1 .. k : f[j] = NewReader(f[j - 1], n0, seq[j])
           Rest(f) == [k \in 0 .. n |-> TheOnly({NewReader(v, n0, seq[k]) : v \in {f[k - 1]}})]
           Is(f) == f = [k \in 0 .. n |-> IF k = 0 THEN base
                                     ELSE TheOnly({NewReader(v, n0, seq[k]) : v \in {f[k - 1]}})]
           S == {k \in Nat : \E f : Steps(f, k)}
<1>1. Readers(base, n0, seq) = (CHOOSE f : Is(f))[n]
  BY Zenon DEF Accumulate, Readers
<1>2. \A f : \A k \in 0 .. n : Rest(f)[k] = NewReader(f[k - 1], n0, seq[k])
  <2> TAKE f
  <2> TAKE k \in 0 .. n
  <2>1. {NewReader(v, n0, seq[k]) : v \in {f[k - 1]}} = {NewReader(f[k - 1], n0, seq[k])}
    OBVIOUS
  <2>2. TheOnly({NewReader(v, n0, seq[k]) : v \in {f[k - 1]}}) = NewReader(f[k - 1], n0, seq[k])
    BY <2>1, Zenon DEF TheOnly
  <2> QED BY <2>2
<1>3. \A f : Is(f) <=> f = [k \in 0 .. n |-> IF k = 0 THEN base ELSE Rest(f)[k]]
  OBVIOUS
<1> HIDE DEF Rest, Is
<1>4. 0 \in S
  <2>1. Steps([j \in {0} |-> base], 0)
    OBVIOUS
  <2> QED BY <2>1
<1>5. ASSUME NEW k \in S PROVE k + 1 \in S
  <2>1. PICK f : Steps(f, k)
    OBVIOUS
  <2> DEFINE g == [j \in 0 .. k + 1 |-> IF j = k + 1 THEN NewReader(f[k], n0, seq[k + 1]) ELSE f[j]]
  <2>2. \A j \in 1 .. k + 1 : IF j = k + 1 THEN j - 1 = k ELSE j \in 1 .. k
    OBVIOUS
  <2>3. g[0] = base /\ \A j \in 1 .. k + 1 : /\ g[j - 1] = f[j - 1]
                                             /\ g[j] = IF j = k + 1 THEN NewReader(f[k], n0, seq[k + 1]) ELSE f[j]
    BY <2>1
  <2>4. \A j \in 1 .. k + 1 : g[j] = NewReader(f[j - 1], n0, seq[j])
    <3> HIDE DEF g
    <3> QED BY <2>1, <2>2, <2>3
  <2> HIDE DEF g
  <2>5. Steps(g, k + 1)
    BY <2>3, <2>4
  <2> QED BY <2>5
<1>6. n \in S
  <2>1. S \in SUBSET Nat
    OBVIOUS
  <2> HIDE DEF S
  <2> QED BY <1>4, <1>5, <2>1, SetInduction
<1>7. PICK f : Steps(f, n)
  BY <1>6
<1>8. \E h : Is(h)
  <2> DEFINE h == [k \in 0 .. n |-> f[k]]
  <2>1. \A k \in 0 .. n : h[k] = f[k] /\ (k # 0 => k \in 1 .. n /\ h[k - 1] = f[k - 1])
    OBVIOUS
  <2>2. \A k \in 0 .. n : f[k] = IF k = 0 THEN base ELSE Rest(h)[k]
    BY <1>2, <1>7, <2>1, ZenonT(60)
  <2> QED BY <1>3, <2>2
<1>9. Is(CHOOSE f2 : Is(f2))
  BY <1>8, Zenon
<1>10. \A h : Is(h) => Steps(h, n)
  <2> TAKE h
  <2>1. \A k \in 1 .. n : k \in 0 .. n /\ k # 0
    OBVIOUS
  <2>2. h = [k \in 0 .. n |-> IF k = 0 THEN base ELSE Rest(h)[k]]
          => h[0] = base /\ \A k \in 1 .. n : h[k] = Rest(h)[k]
    OBVIOUS
  <2> QED BY <1>2, <1>3, <2>1, <2>2
<1> QED BY <1>1, <1>9, <1>10 DEF IsReaders

(* The output pins of a node.                                              *)
Drivers(base, n0, seq) == Accumulate(LAMBDA s, b : DriveBit(s, n0, b), base, seq)

IsDrivers(f, base, n0, seq) ==
  /\ f[0] = base
  /\ \A k \in 1 .. Len(seq) : f[k] = DriveBit(f[k - 1], n0, seq[k])
  /\ Drivers(base, n0, seq) = f[Len(seq)]

(* The fold is what its last step gives, and each step applies the         *)
(* operator once.                                                          *)
LEMMA FoldDrivers ==
  ASSUME NEW base, NEW seq, Len(seq) \in Nat, NEW n0
  PROVE  \E f : IsDrivers(f, base, n0, seq)
<1> DEFINE n == Len(seq)
           Steps(f, k) == f[0] = base /\ \A j \in 1 .. k : f[j] = DriveBit(f[j - 1], n0, seq[j])
           Rest(f) == [k \in 0 .. n |-> TheOnly({DriveBit(v, n0, seq[k]) : v \in {f[k - 1]}})]
           Is(f) == f = [k \in 0 .. n |-> IF k = 0 THEN base
                                     ELSE TheOnly({DriveBit(v, n0, seq[k]) : v \in {f[k - 1]}})]
           S == {k \in Nat : \E f : Steps(f, k)}
<1>1. Drivers(base, n0, seq) = (CHOOSE f : Is(f))[n]
  BY Zenon DEF Accumulate, Drivers
<1>2. \A f : \A k \in 0 .. n : Rest(f)[k] = DriveBit(f[k - 1], n0, seq[k])
  <2> TAKE f
  <2> TAKE k \in 0 .. n
  <2>1. {DriveBit(v, n0, seq[k]) : v \in {f[k - 1]}} = {DriveBit(f[k - 1], n0, seq[k])}
    OBVIOUS
  <2>2. TheOnly({DriveBit(v, n0, seq[k]) : v \in {f[k - 1]}}) = DriveBit(f[k - 1], n0, seq[k])
    BY <2>1, Zenon DEF TheOnly
  <2> QED BY <2>2
<1>3. \A f : Is(f) <=> f = [k \in 0 .. n |-> IF k = 0 THEN base ELSE Rest(f)[k]]
  OBVIOUS
<1> HIDE DEF Rest, Is
<1>4. 0 \in S
  <2>1. Steps([j \in {0} |-> base], 0)
    OBVIOUS
  <2> QED BY <2>1
<1>5. ASSUME NEW k \in S PROVE k + 1 \in S
  <2>1. PICK f : Steps(f, k)
    OBVIOUS
  <2> DEFINE g == [j \in 0 .. k + 1 |-> IF j = k + 1 THEN DriveBit(f[k], n0, seq[k + 1]) ELSE f[j]]
  <2>2. \A j \in 1 .. k + 1 : IF j = k + 1 THEN j - 1 = k ELSE j \in 1 .. k
    OBVIOUS
  <2>3. g[0] = base /\ \A j \in 1 .. k + 1 : /\ g[j - 1] = f[j - 1]
                                             /\ g[j] = IF j = k + 1 THEN DriveBit(f[k], n0, seq[k + 1]) ELSE f[j]
    BY <2>1
  <2>4. \A j \in 1 .. k + 1 : g[j] = DriveBit(f[j - 1], n0, seq[j])
    <3> HIDE DEF g
    <3> QED BY <2>1, <2>2, <2>3
  <2> HIDE DEF g
  <2>5. Steps(g, k + 1)
    BY <2>3, <2>4
  <2> QED BY <2>5
<1>6. n \in S
  <2>1. S \in SUBSET Nat
    OBVIOUS
  <2> HIDE DEF S
  <2> QED BY <1>4, <1>5, <2>1, SetInduction
<1>7. PICK f : Steps(f, n)
  BY <1>6
<1>8. \E h : Is(h)
  <2> DEFINE h == [k \in 0 .. n |-> f[k]]
  <2>1. \A k \in 0 .. n : h[k] = f[k] /\ (k # 0 => k \in 1 .. n /\ h[k - 1] = f[k - 1])
    OBVIOUS
  <2>2. \A k \in 0 .. n : f[k] = IF k = 0 THEN base ELSE Rest(h)[k]
    BY <1>2, <1>7, <2>1
  <2> QED BY <1>3, <2>2
<1>9. Is(CHOOSE f2 : Is(f2))
  BY <1>8, Zenon
<1>10. \A h : Is(h) => Steps(h, n)
  <2> TAKE h
  <2>1. \A k \in 1 .. n : k \in 0 .. n /\ k # 0
    OBVIOUS
  <2>2. h = [k \in 0 .. n |-> IF k = 0 THEN base ELSE Rest(h)[k]]
          => h[0] = base /\ \A k \in 1 .. n : h[k] = Rest(h)[k]
    OBVIOUS
  <2> QED BY <1>2, <1>3, <2>1, <2>2
<1> QED BY <1>1, <1>9, <1>10 DEF IsDrivers

(* The nodes of constants and inputs.                                      *)
SourceNodes(base, seq) == Accumulate(LAMBDA g, b : SourceNode(g, b), base, seq)

IsSourceNodes(f, base, seq) ==
  /\ f[0] = base
  /\ \A k \in 1 .. Len(seq) : f[k] = SourceNode(f[k - 1], seq[k])
  /\ SourceNodes(base, seq) = f[Len(seq)]

(* The fold is what its last step gives, and each step applies the         *)
(* operator once.                                                          *)
LEMMA FoldSources ==
  ASSUME NEW base, NEW seq, Len(seq) \in Nat
  PROVE  \E f : IsSourceNodes(f, base, seq)
<1> DEFINE n == Len(seq)
           Steps(f, k) == f[0] = base /\ \A j \in 1 .. k : f[j] = SourceNode(f[j - 1], seq[j])
           Rest(f) == [k \in 0 .. n |-> TheOnly({SourceNode(v, seq[k]) : v \in {f[k - 1]}})]
           Is(f) == f = [k \in 0 .. n |-> IF k = 0 THEN base
                                     ELSE TheOnly({SourceNode(v, seq[k]) : v \in {f[k - 1]}})]
           S == {k \in Nat : \E f : Steps(f, k)}
<1>1. SourceNodes(base, seq) = (CHOOSE f : Is(f))[n]
  BY Zenon DEF Accumulate, SourceNodes
<1>2. \A f : \A k \in 0 .. n : Rest(f)[k] = SourceNode(f[k - 1], seq[k])
  <2> TAKE f
  <2> TAKE k \in 0 .. n
  <2>1. {SourceNode(v, seq[k]) : v \in {f[k - 1]}} = {SourceNode(f[k - 1], seq[k])}
    OBVIOUS
  <2>2. TheOnly({SourceNode(v, seq[k]) : v \in {f[k - 1]}}) = SourceNode(f[k - 1], seq[k])
    BY <2>1, Zenon DEF TheOnly
  <2> QED BY <2>2
<1>3. \A f : Is(f) <=> f = [k \in 0 .. n |-> IF k = 0 THEN base ELSE Rest(f)[k]]
  OBVIOUS
<1> HIDE DEF Rest, Is
<1>4. 0 \in S
  <2>1. Steps([j \in {0} |-> base], 0)
    OBVIOUS
  <2> QED BY <2>1
<1>5. ASSUME NEW k \in S PROVE k + 1 \in S
  <2>1. PICK f : Steps(f, k)
    OBVIOUS
  <2> DEFINE g == [j \in 0 .. k + 1 |-> IF j = k + 1 THEN SourceNode(f[k], seq[k + 1]) ELSE f[j]]
  <2>2. \A j \in 1 .. k + 1 : IF j = k + 1 THEN j - 1 = k ELSE j \in 1 .. k
    OBVIOUS
  <2>3. g[0] = base /\ \A j \in 1 .. k + 1 : /\ g[j - 1] = f[j - 1]
                                             /\ g[j] = IF j = k + 1 THEN SourceNode(f[k], seq[k + 1]) ELSE f[j]
    BY <2>1
  <2>4. \A j \in 1 .. k + 1 : g[j] = SourceNode(f[j - 1], seq[j])
    <3> HIDE DEF g
    <3> QED BY <2>1, <2>2, <2>3
  <2> HIDE DEF g
  <2>5. Steps(g, k + 1)
    BY <2>3, <2>4
  <2> QED BY <2>5
<1>6. n \in S
  <2>1. S \in SUBSET Nat
    OBVIOUS
  <2> HIDE DEF S
  <2> QED BY <1>4, <1>5, <2>1, SetInduction
<1>7. PICK f : Steps(f, n)
  BY <1>6
<1>8. \E h : Is(h)
  <2> DEFINE h == [k \in 0 .. n |-> f[k]]
  <2>1. \A k \in 0 .. n : h[k] = f[k] /\ (k # 0 => k \in 1 .. n /\ h[k - 1] = f[k - 1])
    OBVIOUS
  <2>2. \A k \in 0 .. n : f[k] = IF k = 0 THEN base ELSE Rest(h)[k]
    BY <1>2, <1>7, <2>1, ZenonT(60)
  <2> QED BY <1>3, <2>2
<1>9. Is(CHOOSE f2 : Is(f2))
  BY <1>8, Zenon
<1>10. \A h : Is(h) => Steps(h, n)
  <2> TAKE h
  <2>1. \A k \in 1 .. n : k \in 0 .. n /\ k # 0
    OBVIOUS
  <2>2. h = [k \in 0 .. n |-> IF k = 0 THEN base ELSE Rest(h)[k]]
          => h[0] = base /\ \A k \in 1 .. n : h[k] = Rest(h)[k]
    OBVIOUS
  <2> QED BY <1>2, <1>3, <2>1, <2>2
<1> QED BY <1>1, <1>9, <1>10 DEF IsSourceNodes

(* The nodes of outputs.                                                   *)
OutputNodes(base, seq) == Accumulate(LAMBDA g, b : OutputNode(g, b), base, seq)

IsOutputNodes(f, base, seq) ==
  /\ f[0] = base
  /\ \A k \in 1 .. Len(seq) : f[k] = OutputNode(f[k - 1], seq[k])
  /\ OutputNodes(base, seq) = f[Len(seq)]

(* The fold is what its last step gives, and each step applies the         *)
(* operator once.                                                          *)
LEMMA FoldOutputs ==
  ASSUME NEW base, NEW seq, Len(seq) \in Nat
  PROVE  \E f : IsOutputNodes(f, base, seq)
<1> DEFINE n == Len(seq)
           Steps(f, k) == f[0] = base /\ \A j \in 1 .. k : f[j] = OutputNode(f[j - 1], seq[j])
           Rest(f) == [k \in 0 .. n |-> TheOnly({OutputNode(v, seq[k]) : v \in {f[k - 1]}})]
           Is(f) == f = [k \in 0 .. n |-> IF k = 0 THEN base
                                     ELSE TheOnly({OutputNode(v, seq[k]) : v \in {f[k - 1]}})]
           S == {k \in Nat : \E f : Steps(f, k)}
<1>1. OutputNodes(base, seq) = (CHOOSE f : Is(f))[n]
  BY Zenon DEF Accumulate, OutputNodes
<1>2. \A f : \A k \in 0 .. n : Rest(f)[k] = OutputNode(f[k - 1], seq[k])
  <2> TAKE f
  <2> TAKE k \in 0 .. n
  <2>1. {OutputNode(v, seq[k]) : v \in {f[k - 1]}} = {OutputNode(f[k - 1], seq[k])}
    OBVIOUS
  <2>2. TheOnly({OutputNode(v, seq[k]) : v \in {f[k - 1]}}) = OutputNode(f[k - 1], seq[k])
    BY <2>1, Zenon DEF TheOnly
  <2> QED BY <2>2
<1>3. \A f : Is(f) <=> f = [k \in 0 .. n |-> IF k = 0 THEN base ELSE Rest(f)[k]]
  OBVIOUS
<1> HIDE DEF Rest, Is
<1>4. 0 \in S
  <2>1. Steps([j \in {0} |-> base], 0)
    OBVIOUS
  <2> QED BY <2>1
<1>5. ASSUME NEW k \in S PROVE k + 1 \in S
  <2>1. PICK f : Steps(f, k)
    OBVIOUS
  <2> DEFINE g == [j \in 0 .. k + 1 |-> IF j = k + 1 THEN OutputNode(f[k], seq[k + 1]) ELSE f[j]]
  <2>2. \A j \in 1 .. k + 1 : IF j = k + 1 THEN j - 1 = k ELSE j \in 1 .. k
    OBVIOUS
  <2>3. g[0] = base /\ \A j \in 1 .. k + 1 : /\ g[j - 1] = f[j - 1]
                                             /\ g[j] = IF j = k + 1 THEN OutputNode(f[k], seq[k + 1]) ELSE f[j]
    BY <2>1
  <2>4. \A j \in 1 .. k + 1 : g[j] = OutputNode(f[j - 1], seq[j])
    <3> HIDE DEF g
    <3> QED BY <2>1, <2>2, <2>3
  <2> HIDE DEF g
  <2>5. Steps(g, k + 1)
    BY <2>3, <2>4
  <2> QED BY <2>5
<1>6. n \in S
  <2>1. S \in SUBSET Nat
    OBVIOUS
  <2> HIDE DEF S
  <2> QED BY <1>4, <1>5, <2>1, SetInduction
<1>7. PICK f : Steps(f, n)
  BY <1>6
<1>8. \E h : Is(h)
  <2> DEFINE h == [k \in 0 .. n |-> f[k]]
  <2>1. \A k \in 0 .. n : h[k] = f[k] /\ (k # 0 => k \in 1 .. n /\ h[k - 1] = f[k - 1])
    OBVIOUS
  <2>2. \A k \in 0 .. n : f[k] = IF k = 0 THEN base ELSE Rest(h)[k]
    BY <1>2, <1>7, <2>1
  <2> QED BY <1>3, <2>2
<1>9. Is(CHOOSE f2 : Is(f2))
  BY <1>8, Zenon
<1>10. \A h : Is(h) => Steps(h, n)
  <2> TAKE h
  <2>1. \A k \in 1 .. n : k \in 0 .. n /\ k # 0
    OBVIOUS
  <2>2. h = [k \in 0 .. n |-> IF k = 0 THEN base ELSE Rest(h)[k]]
          => h[0] = base /\ \A k \in 1 .. n : h[k] = Rest(h)[k]
    OBVIOUS
  <2> QED BY <1>2, <1>3, <2>1, <2>2
<1> QED BY <1>1, <1>9, <1>10 DEF IsOutputNodes

-----------------------------------------------------------------------------
(* What a node was made for.                                               *)

(* The first i of the bits ins name the input pins of node n, the first j  *)
(* of the bits outs name the nets of its output pins.                      *)
NodeHas(g, n, type, name, ins, i, outs, j) ==
  /\ n \in DOMAIN g.nodes
  /\ g.nodes[n].type = type /\ g.nodes[n].name = name
  /\ Len(g.nodes[n].ins) = i /\ Len(g.nodes[n].outs) = j
  /\ \A k \in 1 .. i : g.pins[g.nodes[n].ins[k]].name = <<ins[k], 0>>
  /\ \A k \in 1 .. j : g.nets[g.pins[g.nodes[n].outs[k]].net].name = outs[k]

NodeIs(g, n, type, name, ins, outs) == NodeHas(g, n, type, name, ins, Len(ins), outs, Len(outs))

(* The names of output pins: those of cells are given by the mapping.      *)
DriverNames(c, slot) ==
  IF c.type = "input" THEN {<<c.name, 0>>}
  ELSE IF c.type = "skip" THEN {NoName, <<c.name, slot>>} ELSE {NoName}

PinNamesOK(g) ==
  \A p \in DOMAIN g.pins : g.pins[p].live /\ g.pins[p].output
    => g.pins[p].name \in DriverNames(g.nodes[g.pins[p].node], g.pins[p].slot)

(* nets has the net of every name there is.                                *)
NamedNets(g, nets) ==
  /\ \A b \in DOMAIN nets : b \in Names /\ nets[b] \in DOMAIN g.nets /\ g.nets[nets[b]].name = b
  /\ \A m \in DOMAIN g.nets : g.nets[m].name \in DOMAIN nets /\ nets[g.nets[m].name] = m

(* From g to h only node n changes, besides what is added.                 *)
Grows(g, h, n) ==
  /\ \A x \in DOMAIN g.nodes : x # n => x \in DOMAIN h.nodes /\ h.nodes[x] = g.nodes[x]
  /\ PinsKept(g, h)
  /\ \A m \in DOMAIN g.nets : m \in DOMAIN h.nets /\ h.nets[m].name = g.nets[m].name

(* What two additions leave alone, both leave alone.                       *)
LEMMA GrowsTwice ==
  ASSUME NEW g, NEW h, NEW k, NEW n, Grows(g, h, n), Grows(h, k, n)
  PROVE  Grows(g, k, n)
BY Zenon DEF Grows, PinsKept

(* A node the addition does not touch keeps its pins and their names.      *)
LEMMA NodeHasKept ==
  ASSUME NEW g, NEW h, NEW n, Fresh(g), Grows(g, h, n), NEW x, x # n,
         NEW type, NEW name, NEW ins, NEW i, NEW outs, NEW j,
         NodeHas(g, x, type, name, ins, i, outs, j)
  PROVE  NodeHas(h, x, type, name, ins, i, outs, j)
<1>1. x \in DOMAIN g.nodes /\ NodeOK(g, x) /\ g \in GraphSet
  BY DEF NodeHas, Fresh, Agree
<1>2. g.nodes[x].ins \in Seq(Nat) /\ g.nodes[x].outs \in Seq(Nat)
  <2>1. g.nodes[x] \in NodeRecord
    BY <1>1, GraphType
  <2> QED BY <2>1 DEF NodeRecord
<1>3. h.nodes[x] = g.nodes[x] /\ x \in DOMAIN h.nodes
  BY <1>1 DEF Grows
<1>4. Len(g.nodes[x].ins) = i /\ DOMAIN g.nodes[x].ins = 1 .. i
      /\ Len(g.nodes[x].outs) = j /\ DOMAIN g.nodes[x].outs = 1 .. j
  <2>1. Len(g.nodes[x].ins) = i /\ Len(g.nodes[x].outs) = j
    BY Zenon DEF NodeHas
  <2> DEFINE u == g.nodes[x].ins
             v == g.nodes[x].outs
  <2>2. u \in Seq(Nat) /\ v \in Seq(Nat) /\ Len(u) = i /\ Len(v) = j
    BY <1>2, <2>1
  <2> HIDE DEF u, v
  <2>3. DOMAIN u = 1 .. i /\ DOMAIN v = 1 .. j
    BY <2>2
  <2> QED BY <2>2, <2>3 DEF u, v
<1>5. ASSUME NEW k \in 1 .. i
      PROVE  h.pins[h.nodes[x].ins[k]].name = <<ins[k], 0>>
  <2>1. g.nodes[x].ins[k] \in DOMAIN g.pins
    BY <1>1, <1>4, Zenon DEF NodeOK, InSlotOK, LivePin
  <2> QED BY <1>3, <1>5, <2>1 DEF NodeHas, Grows, PinsKept
<1>6. ASSUME NEW k \in 1 .. j
      PROVE  h.nets[h.pins[h.nodes[x].outs[k]].net].name = outs[k]
  <2> DEFINE p == g.nodes[x].outs[k]
  <2>1. p \in DOMAIN g.pins /\ g.pins[p].live /\ g.pins[p].output
    BY <1>1, <1>4, Zenon DEF NodeOK, OutSlotOK, LivePin
  <2>2. g.pins[p].net \in DOMAIN g.nets
    BY <2>1, Zenon DEF Fresh, Agree, PinOK, OutPinOK, LiveNet
  <2>3. h.pins[p] = g.pins[p] /\ h.nets[g.pins[p].net].name = g.nets[g.pins[p].net].name
    BY <2>1, <2>2, Zenon DEF Grows, PinsKept
  <2>4. g.nets[g.pins[p].net].name = outs[k]
    BY DEF NodeHas
  <2> QED BY <1>3, <2>3, <2>4, Zenon
<1> QED BY <1>3, <1>4, <1>5, <1>6, Zenon DEF NodeHas

(* Node n has one input pin more.                                          *)
ReaderMore(g, h, n, type, name, ins, i, outs, j) ==
  /\ Fresh(h) /\ Grows(g, h, n) /\ LastNode(h) = LastNode(g) /\ h.nets = g.nets
  /\ NodeHas(h, n, type, name, ins, i + 1, outs, j)
  /\ PinNamesOK(g) => PinNamesOK(h)

(* Another input pin.                                                      *)
LEMMA NewReaderHas ==
  ASSUME NEW g, Fresh(g), NEW n, NEW type, NEW name, NEW ins \in Seq(Names), NEW i \in Nat,
         NEW outs, NEW j, i + 1 \in DOMAIN ins,
         NodeHas(g, n, type, name, ins, i, outs, j)
  PROVE  ReaderMore(g, NewReader(g, n, ins[i + 1]), n, type, name, ins, i, outs, j)
<1> DEFINE h == NewReader(g, n, ins[i + 1])
           P == LastPin(g) + 1
           r == g.nodes[n]
           s == Append(r.ins, P)
           bit == ins[i + 1]
<1>0. g \in GraphSet /\ Agree(g) /\ n \in DOMAIN g.nodes /\ bit \in Names
  <2>1. n \in DOMAIN g.nodes
    BY Zenon DEF NodeHas
  <2> QED BY <2>1 DEF Fresh
<1>1. /\ h \in GraphSet /\ h.nets = g.nets
      /\ LastPin(h) = P /\ LastNode(h) = LastNode(g)
      /\ \A x \in DOMAIN g.nodes : x # n => h.nodes[x] = g.nodes[x]
      /\ h.nodes[n] = [type |-> r.type, name |-> r.name, ins |-> s,
                       outs |-> r.outs, live |-> r.live]
      /\ \A p \in DOMAIN g.pins : h.pins[p] = g.pins[p]
      /\ h.pins[P] = [name |-> <<bit, 0>>, node |-> n, slot |-> Len(r.ins) + 1,
                      net |-> Null, place |-> 0, output |-> FALSE, live |-> TRUE]
  <2>1. ReaderAdded(g, h, n, bit)
    BY <1>0, NewReaderIs
  <2> HIDE DEF h
  <2> QED BY <2>1, Zenon DEF ReaderAdded
<1>1a. Fresh(h)
  BY <1>0, NewReaderFresh, Zenon
<1> HIDE DEF h
<1>2. /\ DOMAIN h.pins = DOMAIN g.pins \cup {P} /\ P \notin DOMAIN g.pins
      /\ DOMAIN h.nodes = DOMAIN g.nodes /\ P \in Nat /\ r \in NodeRecord
  BY <1>0, <1>1, GraphType
<1>3. r.ins \in Seq(Nat) /\ r.outs \in Seq(Nat)
  BY <1>2 DEF NodeRecord
<1>4. /\ Len(s) = i + 1 /\ s[i + 1] = P /\ DOMAIN r.ins = 1 .. i
      /\ \A k \in 1 .. i : s[k] = r.ins[k]
  <2>1. Len(r.ins) = i
    BY DEF NodeHas
  <2> QED BY <1>2, <1>3, <2>1, AppendFacts
<1>5. Len(r.outs) = j /\ DOMAIN r.outs = 1 .. j
  <2>1. Len(r.outs) = j
    BY Zenon DEF NodeHas
  <2> HIDE DEF r
  <2> QED BY <1>3, <2>1
<1> HIDE DEF s, P, bit
<1>6. /\ h.nodes[n].ins = s /\ h.nodes[n].outs = r.outs
      /\ h.nodes[n].type = r.type /\ h.nodes[n].name = r.name
      /\ h.pins[P].name = <<bit, 0>> /\ ~h.pins[P].output
  BY <1>1
<1>7. Grows(g, h, n)
  BY <1>1, <1>2 DEF Grows, PinsKept
<1>8. NodeOK(g, n)
  BY <1>0 DEF Fresh, Agree
<1>9. ASSUME NEW k \in 1 .. i + 1 PROVE h.pins[s[k]].name = <<ins[k], 0>>
  <2>1. CASE k = i + 1
    BY <1>4, <1>6, <2>1, Zenon DEF bit
  <2>2. CASE k # i + 1
    <3>1. k \in 1 .. i
      BY <2>2
    <3>2. r.ins[k] \in DOMAIN g.pins
      BY <1>4, <1>8, <3>1 DEF NodeOK, InSlotOK, LivePin
    <3> QED BY <1>1, <1>4, <3>1, <3>2, ZenonT(60) DEF NodeHas
  <2> QED BY <2>1, <2>2
<1>10. ASSUME NEW k \in 1 .. j PROVE h.nets[h.pins[r.outs[k]].net].name = outs[k]
  <2>1. r.outs[k] \in DOMAIN g.pins
    BY <1>5, <1>8, Zenon DEF NodeOK, OutSlotOK, LivePin
  <2> QED BY <1>1, <2>1, Zenon DEF NodeHas
<1>11. NodeHas(h, n, type, name, ins, i + 1, outs, j)
  <2>1. r.type = type /\ r.name = name
    BY Zenon DEF NodeHas
  <2> QED BY <1>0, <1>2, <1>4, <1>5, <1>6, <1>9, <1>10, <2>1, Zenon DEF NodeHas
<1>12. ASSUME PinNamesOK(g) PROVE PinNamesOK(h)
  <2> SUFFICES ASSUME NEW p \in DOMAIN h.pins, h.pins[p].live, h.pins[p].output
               PROVE  h.pins[p].name \in DriverNames(h.nodes[h.pins[p].node], h.pins[p].slot)
    BY DEF PinNamesOK
  <2>1. p \in DOMAIN g.pins /\ h.pins[p] = g.pins[p]
    BY <1>1, <1>2, <1>6
  <2>2. g.pins[p].name \in DriverNames(g.nodes[g.pins[p].node], g.pins[p].slot)
    BY <1>12, <2>1 DEF PinNamesOK
  <2>3. g.pins[p].node \in DOMAIN g.nodes
    BY <2>1 DEF Fresh, Agree, PinOK, OutPinOK, LiveNode
  <2>4. h.nodes[g.pins[p].node].type = g.nodes[g.pins[p].node].type
        /\ h.nodes[g.pins[p].node].name = g.nodes[g.pins[p].node].name
    BY <1>1, <1>6, <2>3
  <2> QED BY <2>1, <2>2, <2>4 DEF DriverNames
<1> QED BY <1>1, <1>1a, <1>7, <1>11, <1>12, Zenon DEF h, bit, ReaderMore

(* Node n has one output pin more, on net m.                               *)
DriverMore(g, h, n, m, type, name, ins, i, outs, j) ==
  /\ Fresh(h) /\ Grows(g, h, n)
  /\ LastNode(h) = LastNode(g) /\ LastNet(h) = LastNet(g)
  /\ \A x \in DOMAIN g.nets : h.nets[x].name = g.nets[x].name
  /\ \A x \in DOMAIN g.nets : x # m => h.nets[x] = g.nets[x]
  /\ h.nets[m].drivers # <<>>
  /\ NodeHas(h, n, type, name, ins, i, outs, j + 1)
  /\ PinNamesOK(g) => PinNamesOK(h)

(* Another output pin.                                                     *)
LEMMA NewDriverHas ==
  ASSUME NEW g, Fresh(g), NEW n, NEW type, NEW name, NEW ins, NEW i,
         NEW outs \in Seq(Names), NEW j \in Nat, j + 1 \in DOMAIN outs,
         NodeHas(g, n, type, name, ins, i, outs, j),
         NEW m \in DOMAIN g.nets, g.nets[m].name = outs[j + 1],
         NEW pname \in PinNames, pname \in DriverNames(g.nodes[n], j + 1)
  PROVE  DriverMore(g, NewDriver(g, n, m, pname), n, m, type, name, ins, i, outs, j)
<1> DEFINE h == NewDriver(g, n, m, pname)
           P == LastPin(g) + 1
           r == g.nodes[n]
           t == g.nets[m]
           s == Append(r.outs, P)
           u == Append(t.drivers, P)
<1>0. g \in GraphSet /\ Agree(g) /\ n \in DOMAIN g.nodes
  BY DEF Fresh, NodeHas
<1>1. /\ h \in GraphSet
      /\ LastPin(h) = P /\ LastNode(h) = LastNode(g) /\ LastNet(h) = LastNet(g)
      /\ \A x \in DOMAIN g.nodes : x # n => h.nodes[x] = g.nodes[x]
      /\ h.nodes[n] = [type |-> r.type, name |-> r.name, ins |-> r.ins,
                       outs |-> s, live |-> r.live]
      /\ \A x \in DOMAIN g.nets : x # m => h.nets[x] = g.nets[x]
      /\ h.nets[m] = [name |-> t.name, drivers |-> u,
                      fanouts |-> t.fanouts, live |-> t.live]
      /\ \A p \in DOMAIN g.pins : h.pins[p] = g.pins[p]
      /\ h.pins[P] = [name |-> pname, node |-> n, slot |-> Len(r.outs) + 1, net |-> m,
                      place |-> Len(t.drivers) + 1, output |-> TRUE, live |-> TRUE]
  <2>1. DriverAdded(g, h, n, m, pname)
    BY <1>0, NewDriverIs
  <2> HIDE DEF h
  <2> QED BY <2>1, Zenon DEF DriverAdded
<1>1a. Fresh(h)
  BY <1>0, NewDriverFresh, Zenon
<1> HIDE DEF h
<1>2. /\ DOMAIN h.pins = DOMAIN g.pins \cup {P} /\ P \notin DOMAIN g.pins
      /\ DOMAIN h.nodes = DOMAIN g.nodes /\ DOMAIN h.nets = DOMAIN g.nets
      /\ P \in Nat /\ r \in NodeRecord /\ t \in NetRecord
  BY <1>0, <1>1, GraphType
<1>3. r.ins \in Seq(Nat) /\ r.outs \in Seq(Nat) /\ t.drivers \in Seq(Nat)
  BY <1>2 DEF NodeRecord, NetRecord
<1>4. /\ Len(s) = j + 1 /\ s[j + 1] = P /\ DOMAIN r.outs = 1 .. j
      /\ \A k \in 1 .. j : s[k] = r.outs[k]
      /\ Len(r.outs) = j
  <2>1. Len(r.outs) = j
    BY DEF NodeHas
  <2> QED BY <1>2, <1>3, <2>1, AppendFacts
<1>4a. u # <<>>
  BY <1>2, <1>3, AppendFacts, ZenonT(60)
<1>5. Len(r.ins) = i /\ DOMAIN r.ins = 1 .. i
  <2>1. Len(r.ins) = i
    BY Zenon DEF NodeHas
  <2> HIDE DEF r
  <2> QED BY <1>3, <2>1
<1> HIDE DEF s, P, u
<1>6. /\ h.nodes[n].outs = s /\ h.nodes[n].ins = r.ins
      /\ h.nodes[n].type = r.type /\ h.nodes[n].name = r.name
      /\ h.pins[P].name = pname /\ h.pins[P].net = m /\ h.pins[P].node = n
      /\ h.pins[P].slot = j + 1
      /\ h.nets[m].name = t.name /\ h.nets[m].drivers # <<>>
  BY <1>1, <1>4, <1>4a
<1>6a. \A x \in DOMAIN g.nets : h.nets[x].name = g.nets[x].name
  BY <1>1, <1>6, Zenon
<1>7. Grows(g, h, n)
  BY <1>1, <1>2, <1>6a DEF Grows, PinsKept
<1>8. NodeOK(g, n)
  BY <1>0 DEF Fresh, Agree
<1>9. ASSUME NEW k \in 1 .. i PROVE h.pins[r.ins[k]].name = <<ins[k], 0>>
  <2>1. r.ins[k] \in DOMAIN g.pins
    BY <1>5, <1>8 DEF NodeOK, InSlotOK, LivePin
  <2> QED BY <1>1, <2>1, Zenon DEF NodeHas
<1>10. ASSUME NEW k \in 1 .. j + 1 PROVE h.nets[h.pins[s[k]].net].name = outs[k]
  <2>1. CASE k = j + 1
    BY <1>4, <1>6, <2>1
  <2>2. CASE k # j + 1
    <3>1. k \in 1 .. j
      BY <2>2
    <3>2. r.outs[k] \in DOMAIN g.pins /\ g.pins[r.outs[k]].live /\ g.pins[r.outs[k]].output
      BY <1>4, <1>8, <3>1, Zenon DEF NodeOK, OutSlotOK, LivePin
    <3>3. g.pins[r.outs[k]].net \in DOMAIN g.nets
      BY <3>2 DEF Fresh, Agree, PinOK, OutPinOK, LiveNet
    <3>4. h.pins[r.outs[k]] = g.pins[r.outs[k]]
      BY <1>1, <3>2, Zenon
    <3>5. g.nets[g.pins[r.outs[k]].net].name = outs[k]
      BY <3>1, Zenon DEF NodeHas
    <3> HIDE DEF r
    <3> QED BY <1>4, <1>6a, <3>1, <3>3, <3>4, <3>5
  <2> QED BY <2>1, <2>2
<1>11. NodeHas(h, n, type, name, ins, i, outs, j + 1)
  <2>1. r.type = type /\ r.name = name
    BY DEF NodeHas
  <2> QED BY <1>0, <1>2, <1>4, <1>5, <1>6, <1>9, <1>10, <2>1, ZenonT(60) DEF NodeHas
<1>12. ASSUME PinNamesOK(g) PROVE PinNamesOK(h)
  <2> SUFFICES ASSUME NEW p \in DOMAIN h.pins, h.pins[p].live, h.pins[p].output
               PROVE  h.pins[p].name \in DriverNames(h.nodes[h.pins[p].node], h.pins[p].slot)
    BY DEF PinNamesOK
  <2>1. CASE p = P
    BY <1>6, <2>1, Zenon DEF DriverNames
  <2>2. CASE p # P
    <3>1. p \in DOMAIN g.pins /\ h.pins[p] = g.pins[p]
      BY <1>1, <1>2, <2>2
    <3>2. g.pins[p].name \in DriverNames(g.nodes[g.pins[p].node], g.pins[p].slot)
      BY <1>12, <3>1, Zenon DEF PinNamesOK
    <3>3. g.pins[p].node \in DOMAIN g.nodes
      BY <3>1 DEF Fresh, Agree, PinOK, OutPinOK, LiveNode
    <3>4. h.nodes[g.pins[p].node].type = g.nodes[g.pins[p].node].type
          /\ h.nodes[g.pins[p].node].name = g.nodes[g.pins[p].node].name
      BY <1>1, <1>6, <3>3
    <3> QED BY <3>1, <3>2, <3>4 DEF DriverNames
  <2> QED BY <2>1, <2>2
<1> QED BY <1>1, <1>1a, <1>6, <1>6a, <1>7, <1>11, <1>12, Zenon DEF h, DriverMore

(* What the import keeps: a net for every name, with a driver.             *)
Imported(g, nets) ==
  /\ Fresh(g) /\ NamedNets(g, nets) /\ Driven(g) /\ PinNamesOK(g)
  /\ nets = [b \in DOMAIN nets |-> nets[b]]

(* There is one net more, with a name no other net has.                    *)
NetMore(g, h, nets, name) ==
  LET N == [b \in DOMAIN nets \cup {name} |-> IF b = name THEN LastNet(h) ELSE nets[b]]
  IN  /\ Fresh(h) /\ NamedNets(h, N) /\ LastNode(h) = LastNode(g) /\ h.nodes = g.nodes
      /\ h.pins = g.pins
      /\ \A n : Grows(g, h, n)
      /\ PinNamesOK(g) => PinNamesOK(h)
      /\ LastNet(h) \in DOMAIN h.nets
      /\ LastNet(h) \notin DOMAIN g.nets
      /\ \A m \in DOMAIN h.nets : m # LastNet(h) => m \in DOMAIN g.nets /\ h.nets[m] = g.nets[m]

(* With a net for a new name every name has its net still.                 *)
LEMMA AllocateNetHas ==
  ASSUME NEW g, NEW nets, Fresh(g), NamedNets(g, nets), NEW name \in Names \ DOMAIN nets
  PROVE  NetMore(g, AllocateNet(g, name), nets, name)
<1> DEFINE h == AllocateNet(g, name)
           M == LastNet(g) + 1
           N == [b \in DOMAIN nets \cup {name} |-> IF b = name THEN LastNet(h) ELSE nets[b]]
<1>0. g \in GraphSet
  BY DEF Fresh
<1>1. /\ h \in GraphSet /\ h.pins = g.pins /\ h.nodes = g.nodes /\ LastNet(h) = M
      /\ \A m \in DOMAIN g.nets : h.nets[m] = g.nets[m]
      /\ h.nets[LastNet(h)] = [name |-> name, drivers |-> <<>>, fanouts |-> <<>>, live |-> TRUE]
  BY <1>0, AllocateNetIs, Zenon
<1>1a. Fresh(h)
  BY AllocateNetFresh, Zenon
<1> HIDE DEF h
<1>2. DOMAIN h.nets = DOMAIN g.nets \cup {M} /\ M \notin DOMAIN g.nets
  BY <1>0, <1>1, GraphType
<1> HIDE DEF M
<1>3. /\ DOMAIN N = DOMAIN nets \cup {name} /\ N[name] = M
      /\ \A b \in DOMAIN nets : N[b] = nets[b]
      /\ h.nets[M].name = name
  BY <1>1
<1> HIDE DEF N
<1>4. NamedNets(h, N)
  <2>1. ASSUME NEW b \in DOMAIN N
        PROVE  b \in Names /\ N[b] \in DOMAIN h.nets /\ h.nets[N[b]].name = b
    BY <1>1, <1>2, <1>3 DEF NamedNets
  <2>2. ASSUME NEW m \in DOMAIN h.nets
        PROVE  h.nets[m].name \in DOMAIN N /\ N[h.nets[m].name] = m
    BY <1>1, <1>2, <1>3 DEF NamedNets
  <2> QED BY <2>1, <2>2 DEF NamedNets
<1>5. \A n : Grows(g, h, n)
  BY <1>1, <1>2 DEF Grows, PinsKept
<1>6. PinNamesOK(g) => PinNamesOK(h)
  BY <1>1 DEF PinNamesOK
<1>7. LastNode(h) = LastNode(g)
  BY <1>1 DEF LastNode
<1> QED BY <1>1, <1>1a, <1>2, <1>4, <1>5, <1>6, <1>7 DEF h, N, NetMore

(* Node n drives one bit more.                                             *)
DriveMore(s, d, n, type, name, ins, i, outs, j) ==
  /\ Imported(d.graph, d.nets) /\ Grows(s.graph, d.graph, n)
  /\ LastNode(d.graph) = LastNode(s.graph)
  /\ DOMAIN d.nets = DOMAIN s.nets \cup {outs[j + 1]}
  /\ \A b \in DOMAIN s.nets : d.nets[b] = s.nets[b]
  /\ NodeHas(d.graph, n, type, name, ins, i, outs, j + 1)

(* map_output_port puts an output pin on the net of its bit, which it      *)
(* makes if there is none.                                                 *)
LEMMA DriveBitHas ==
  ASSUME NEW s, Imported(s.graph, s.nets), NEW n, NEW type, NEW name, NEW ins, NEW i,
         NEW outs \in Seq(Names), NEW j \in Nat, j + 1 \in DOMAIN outs,
         NodeHas(s.graph, n, type, name, ins, i, outs, j), type # "input"
  PROVE  DriveMore(s, DriveBit(s, n, outs[j + 1]), n, type, name, ins, i, outs, j)
<1> DEFINE bit == outs[j + 1]
           made == bit \notin DOMAIN s.nets
           a == IF made THEN AllocateNet(s.graph, bit) ELSE s.graph
           N == [b \in DOMAIN s.nets \cup {bit} |->
                   IF made /\ b = bit THEN LastNet(a) ELSE s.nets[b]]
           h == NewDriver(a, n, N[bit], NoName)
<1>1. DriveBit(s, n, bit) = [graph |-> h, nets |-> N]
  BY Zenon DEF DriveBit
<1>2. bit \in Names /\ NoName \in PinNames /\ Fresh(s.graph) /\ NamedNets(s.graph, s.nets)
      /\ PinNamesOK(s.graph) /\ Driven(s.graph)
      /\ s.nets = [b \in DOMAIN s.nets |-> s.nets[b]]
  BY DEF PinNames, Imported
<1>3. /\ Fresh(a) /\ NamedNets(a, N) /\ PinNamesOK(a) /\ Grows(s.graph, a, n)
      /\ LastNode(a) = LastNode(s.graph) /\ a.nodes = s.graph.nodes /\ a.pins = s.graph.pins
      /\ N[bit] \in DOMAIN a.nets /\ a.nets[N[bit]].name = bit
      /\ \A m \in DOMAIN a.nets : m # N[bit] => m \in DOMAIN s.graph.nets /\ a.nets[m] = s.graph.nets[m]
      /\ \A b \in DOMAIN s.nets : N[b] = s.nets[b]
  <2>1. CASE made
    <3> DEFINE b0 == AllocateNet(s.graph, bit)
               N0 == [b \in DOMAIN s.nets \cup {bit} |-> IF b = bit THEN LastNet(b0) ELSE s.nets[b]]
    <3>1. /\ Fresh(b0) /\ NamedNets(b0, N0) /\ PinNamesOK(b0) /\ Grows(s.graph, b0, n)
          /\ LastNode(b0) = LastNode(s.graph) /\ b0.nodes = s.graph.nodes
          /\ b0.pins = s.graph.pins
          /\ LastNet(b0) \in DOMAIN b0.nets
          /\ \A m \in DOMAIN b0.nets : m # LastNet(b0) => m \in DOMAIN s.graph.nets /\ b0.nets[m] = s.graph.nets[m]
      <4>1. bit \in Names \ DOMAIN s.nets
        BY <1>2, <2>1
      <4> HIDE DEF bit
      <4>2. NetMore(s.graph, b0, s.nets, bit)
        BY <1>2, <4>1, AllocateNetHas
      <4> HIDE DEF b0
      <4> QED BY <1>2, <4>2, Zenon DEF NetMore
    <3>2. a = b0 /\ N = N0
      BY <2>1
    <3> HIDE DEF a, b0
    <3>3. N0[bit] = LastNet(b0) /\ \A b \in DOMAIN s.nets : N0[b] = s.nets[b]
      BY <2>1
    <3> HIDE DEF N, N0
    <3>4. b0.nets[N0[bit]].name = bit
      <4>1. b0.nets[LastNet(b0)].name \in DOMAIN N0 /\ N0[b0.nets[LastNet(b0)].name] = LastNet(b0)
            /\ b0.nets[N0[bit]].name = bit
        <5>1. bit \in DOMAIN N0
          BY DEF N0
        <5> QED BY <3>1, <3>3, <5>1 DEF NamedNets
      <4> QED BY <4>1
    <3> QED BY <3>1, <3>2, <3>3, <3>4
  <2>2. CASE ~made
    <3>1. a = s.graph
      BY <2>2
    <3>2. N = s.nets
      <4>1. N = [b \in DOMAIN s.nets |-> s.nets[b]]
        BY <2>2
      <4> QED BY <1>2, <4>1
    <3> HIDE DEF a, N
    <3>3. Grows(a, a, n)
      BY DEF Grows, PinsKept
    <3>4. N[bit] \in DOMAIN a.nets /\ a.nets[N[bit]].name = bit
      BY <1>2, <2>2, <3>1, <3>2 DEF NamedNets
    <3> QED BY <1>2, <3>1, <3>2, <3>3, <3>4
  <2> QED BY <2>1, <2>2
<1>4. DOMAIN N = DOMAIN s.nets \cup {bit}
  OBVIOUS
<1>4a. N = [b \in DOMAIN N |-> N[b]]
  BY Zenon
<1> HIDE DEF a, N, bit
<1>5. NodeHas(a, n, type, name, ins, i, outs, j)
  <2>1. \A k \in 1 .. j : s.graph.pins[s.graph.nodes[n].outs[k]].net \in DOMAIN s.graph.nets
    <3> TAKE k \in 1 .. j
    <3>1. n \in DOMAIN s.graph.nodes /\ NodeOK(s.graph, n) /\ s.graph \in GraphSet
      BY <1>2, Zenon DEF NodeHas, Fresh, Agree
    <3>2. s.graph.nodes[n].outs \in Seq(Nat)
      <4>1. s.graph.nodes[n] \in NodeRecord
        BY <3>1, GraphType
      <4> QED BY <4>1 DEF NodeRecord
    <3>3. k \in DOMAIN s.graph.nodes[n].outs
      <4>1. Len(s.graph.nodes[n].outs) = j
        BY DEF NodeHas
      <4> QED BY <3>2, <4>1
    <3> DEFINE p == s.graph.nodes[n].outs[k]
    <3>4. p \in DOMAIN s.graph.pins /\ s.graph.pins[p].live /\ s.graph.pins[p].output
      BY <3>1, <3>3, Zenon DEF NodeOK, OutSlotOK, LivePin
    <3> QED BY <1>2, <3>4, Zenon DEF Fresh, Agree, PinOK, OutPinOK, LiveNet
  <2>2. \A m \in DOMAIN s.graph.nets : a.nets[m].name = s.graph.nets[m].name
    BY <1>3 DEF Grows
  <2> QED BY <1>3, <2>1, <2>2, ZenonT(60) DEF NodeHas
<1>6. NoName \in DriverNames(a.nodes[n], j + 1)
  BY <1>5, Zenon DEF NodeHas, DriverNames
<1>6a. a.nets[N[bit]].name = outs[j + 1]
  BY <1>3 DEF bit
<1>7. /\ Fresh(h) /\ Grows(a, h, n)
      /\ LastNode(h) = LastNode(a) /\ LastNet(h) = LastNet(a)
      /\ \A x \in DOMAIN a.nets : h.nets[x].name = a.nets[x].name
      /\ \A x \in DOMAIN a.nets : x # N[bit] => h.nets[x] = a.nets[x]
      /\ h.nets[N[bit]].drivers # <<>>
      /\ NodeHas(h, n, type, name, ins, i, outs, j + 1)
      /\ PinNamesOK(a) => PinNamesOK(h)
  <2>1. DriverMore(a, h, n, N[bit], type, name, ins, i, outs, j)
    BY <1>2, <1>3, <1>5, <1>6, <1>6a, NewDriverHas
  <2> HIDE DEF h
  <2> QED BY <2>1, Zenon DEF DriverMore
<1> HIDE DEF h
<1>8. DOMAIN h.nets = DOMAIN a.nets
  BY <1>3, <1>7, GraphType DEF Fresh
<1>9. NamedNets(h, N)
  BY <1>3, <1>7, <1>8 DEF NamedNets
<1>10. Driven(h)
  BY <1>2, <1>3, <1>7, <1>8 DEF Driven
<1>11. Grows(s.graph, h, n)
  BY <1>3, <1>7, GrowsTwice
<1>12. Imported(h, N)
  BY <1>3, <1>4a, <1>7, <1>9, <1>10 DEF Imported
<1> DEFINE d == [graph |-> h, nets |-> N]
<1>13. d.graph = h /\ d.nets = N
  OBVIOUS
<1> HIDE DEF d
<1>14. DriveBit(s, n, outs[j + 1]) = d
  BY <1>1 DEF d, bit
<1> QED BY <1>3, <1>4, <1>7, <1>11, <1>12, <1>13, <1>14 DEF bit, DriveMore

(* A node without pins yet.                                                *)
NodeMore(g, h, type, name) ==
  /\ Fresh(h) /\ LastNode(h) = LastNode(g) + 1 /\ h.nets = g.nets /\ h.pins = g.pins
  /\ LastNode(h) \notin DOMAIN g.nodes
  /\ \A n : Grows(g, h, n)
  /\ \A ins, outs : NodeHas(h, LastNode(h), type, name, ins, 0, outs, 0)
  /\ PinNamesOK(g) => PinNamesOK(h)

(* A node without pins has what its first zero bits name.                  *)
LEMMA AllocateNodeHas ==
  ASSUME NEW g, Fresh(g), NEW type \in NodeTypes, NEW name \in Names
  PROVE  NodeMore(g, AllocateNode(g, type, name), type, name)
<1> DEFINE h == AllocateNode(g, type, name)
           N == LastNode(g) + 1
<1>0. g \in GraphSet
  BY DEF Fresh
<1>1. /\ h \in GraphSet /\ h.pins = g.pins /\ h.nets = g.nets
      /\ LastNode(h) = N
      /\ \A n \in DOMAIN g.nodes : h.nodes[n] = g.nodes[n]
      /\ h.nodes[N] = [type |-> type, name |-> name, ins |-> <<>>, outs |-> <<>>, live |-> TRUE]
  BY <1>0, AllocateNodeIs
<1>1a. Fresh(h)
  BY AllocateNodeFresh, Zenon
<1> HIDE DEF h
<1>2. DOMAIN h.nodes = DOMAIN g.nodes \cup {N} /\ N \notin DOMAIN g.nodes
  BY <1>0, <1>1, GraphType
<1> HIDE DEF N
<1>3. \A n : Grows(g, h, n)
  BY <1>1, <1>2 DEF Grows, PinsKept
<1>4. \A ins, outs : NodeHas(h, N, type, name, ins, 0, outs, 0)
  BY <1>1, <1>2 DEF NodeHas
<1>5. ASSUME PinNamesOK(g) PROVE PinNamesOK(h)
  <2> SUFFICES ASSUME NEW p \in DOMAIN h.pins, h.pins[p].live, h.pins[p].output
               PROVE  h.pins[p].name \in DriverNames(h.nodes[h.pins[p].node], h.pins[p].slot)
    BY DEF PinNamesOK
  <2>1. p \in DOMAIN g.pins /\ h.pins[p] = g.pins[p]
    BY <1>1
  <2>2. g.pins[p].name \in DriverNames(g.nodes[g.pins[p].node], g.pins[p].slot)
    BY <1>5, <2>1 DEF PinNamesOK
  <2>3. g.pins[p].node \in DOMAIN g.nodes
    BY <2>1 DEF Fresh, Agree, PinOK, OutPinOK, LiveNode
  <2> QED BY <1>1, <2>1, <2>2, <2>3
<1> QED BY <1>1, <1>1a, <1>2, <1>3, <1>4, <1>5 DEF NodeMore, h, N

(* A cell or a buffer of the design becomes a node.                        *)
NodeImported(g, nets, made, type, name, ins, outs) ==
  /\ Imported(made.graph, made.nets)
  /\ LastNode(made.graph) = LastNode(g) + 1
  /\ Grows(g, made.graph, LastNode(g) + 1)
  /\ NodeIs(made.graph, LastNode(g) + 1, type, name, ins, outs)
  /\ DOMAIN made.nets = DOMAIN nets \cup ToSet(outs)
  /\ \A b \in DOMAIN nets : made.nets[b] = nets[b]

(* A cell or a connection becomes a node with the pins its bits name, and  *)
(* the rest stays.                                                         *)
LEMMA NamedNodeIs ==
  ASSUME Imported(graph, output_nets), NEW type \in NodeTypes, type # "input",
         NEW name \in Names, NEW ins \in Seq(Names), NEW outs \in Seq(Names)
  PROVE  NodeImported(graph, output_nets, NamedNode(type, name, ins, outs), type, name, ins, outs)
<1> DEFINE N == LastNode(graph) + 1
           node == AllocateNode(graph, type, name)
           read == Readers(node, N, ins)
           base == [graph |-> read, nets |-> output_nets]
           made == Drivers(base, N, outs)
<1>0. Len(ins) \in Nat /\ Len(outs) \in Nat /\ DOMAIN ins = 1 .. Len(ins) /\ DOMAIN outs = 1 .. Len(outs)
  OBVIOUS
<1>1. /\ Fresh(graph) /\ NamedNets(graph, output_nets) /\ Driven(graph) /\ PinNamesOK(graph)
      /\ output_nets = [b \in DOMAIN output_nets |-> output_nets[b]]
  BY DEF Imported
<1>2. NodeMore(graph, node, type, name)
  BY <1>1, AllocateNodeHas
<1>3. NamedNode(type, name, ins, outs) = made
  <2> DEFINE m == LastNode(node)
  <2>1. m = N
    BY <1>2 DEF NodeMore
  <2>2. NamedNode(type, name, ins, outs)
          = Drivers([graph |-> Readers(node, m, ins), nets |-> output_nets], m, outs)
    BY Zenon DEF NamedNode, Readers, Drivers
  <2> HIDE DEF m, node, N
  <2> QED BY <2>1, <2>2, Zenon
<1> HIDE DEF node
<1>4. /\ Fresh(node) /\ LastNode(node) = N /\ node.nets = graph.nets /\ Grows(graph, node, N)
      /\ NodeHas(node, N, type, name, ins, 0, outs, 0) /\ PinNamesOK(node)
  BY <1>1, <1>2 DEF NodeMore
<1> HIDE DEF N
<1>5. PICK f : /\ f[0] = node
               /\ \A k \in 1 .. Len(ins) : f[k] = NewReader(f[k - 1], N, ins[k])
               /\ read = f[Len(ins)]
  <2>1. PICK f : IsReaders(f, node, N, ins)
    BY <1>0, FoldReaders, Zenon
  <2> QED BY <2>1, Zenon DEF IsReaders
<1> HIDE DEF read
<1> DEFINE R(k) == /\ Fresh(f[k]) /\ Grows(graph, f[k], N) /\ LastNode(f[k]) = N
                   /\ f[k].nets = graph.nets /\ PinNamesOK(f[k])
                   /\ NodeHas(f[k], N, type, name, ins, k, outs, 0)
           S == {k \in Nat : R(k)}
<1>6. R(0)
  BY <1>4, <1>5
<1>7. ASSUME NEW k \in 0 .. Len(ins) - 1, R(k) PROVE R(k + 1)
  <2> DEFINE h == NewReader(f[k], N, ins[k + 1])
  <2>1. k \in Nat /\ k + 1 \in 1 .. Len(ins) /\ (k + 1) - 1 = k /\ k + 1 \in DOMAIN ins
    BY <1>0
  <2>2. f[k + 1] = h
    BY <1>5, <2>1
  <2>3. ReaderMore(f[k], h, N, type, name, ins, k, outs, 0)
    BY <1>7, <2>1, NewReaderHas
  <2> HIDE DEF h
  <2>4. Fresh(h) /\ Grows(f[k], h, N) /\ LastNode(h) = LastNode(f[k]) /\ h.nets = f[k].nets
        /\ NodeHas(h, N, type, name, ins, k + 1, outs, 0) /\ PinNamesOK(h)
    BY <1>7, <2>3 DEF ReaderMore
  <2>5. Grows(graph, h, N)
    BY <1>7, <2>4, GrowsTwice
  <2> QED BY <1>7, <2>2, <2>4, <2>5
<1> HIDE DEF R
<1>8. R(Len(ins))
  <2>1. 0 \in S /\ \A k \in 0 .. Len(ins) - 1 : k \in S => k + 1 \in S
    BY <1>0, <1>6, <1>7
  <2> HIDE DEF S
  <2>2. \A k \in 0 .. Len(ins) : k \in S
    BY <1>0, <2>1, InductionUpto
  <2> QED BY <1>0, <2>2 DEF S
<1>9. /\ Fresh(read) /\ Grows(graph, read, N) /\ LastNode(read) = N
      /\ read.nets = graph.nets /\ PinNamesOK(read)
      /\ NodeHas(read, N, type, name, ins, Len(ins), outs, 0)
  BY <1>5, <1>8 DEF R
<1>10. Imported(read, output_nets)
  <2>1. NamedNets(read, output_nets)
    BY <1>1, <1>9 DEF NamedNets
  <2>2. Driven(read)
    BY <1>1, <1>9 DEF Driven
  <2> QED BY <1>1, <1>9, <2>1, <2>2 DEF Imported
<1>11. base.graph = read /\ base.nets = output_nets
  OBVIOUS
<1> HIDE DEF base
<1>12. PICK e : /\ e[0] = base
                /\ \A k \in 1 .. Len(outs) : e[k] = DriveBit(e[k - 1], N, outs[k])
                /\ made = e[Len(outs)]
  <2>1. PICK e : IsDrivers(e, base, N, outs)
    BY <1>0, FoldDrivers, Zenon
  <2> QED BY <2>1, Zenon DEF IsDrivers
<1> HIDE DEF made
<1> DEFINE D(k) == /\ Imported(e[k].graph, e[k].nets) /\ Grows(graph, e[k].graph, N)
                   /\ LastNode(e[k].graph) = N
                   /\ DOMAIN e[k].nets = DOMAIN output_nets \cup {outs[i] : i \in 1 .. k}
                   /\ \A b \in DOMAIN output_nets : e[k].nets[b] = output_nets[b]
                   /\ NodeHas(e[k].graph, N, type, name, ins, Len(ins), outs, k)
           T == {k \in Nat : D(k)}
<1>13. D(0)
  BY <1>9, <1>10, <1>11, <1>12
<1>14. ASSUME NEW k \in 0 .. Len(outs) - 1, D(k) PROVE D(k + 1)
  <2> DEFINE d == DriveBit(e[k], N, outs[k + 1])
  <2>1. k \in Nat /\ k + 1 \in 1 .. Len(outs) /\ (k + 1) - 1 = k /\ k + 1 \in DOMAIN outs
        /\ 1 .. (k + 1) = (1 .. k) \cup {k + 1}
    BY <1>0
  <2>2. e[k + 1] = d
    BY <1>12, <2>1
  <2>3. DriveMore(e[k], d, N, type, name, ins, Len(ins), outs, k)
    BY <1>14, <2>1, DriveBitHas
  <2> HIDE DEF d
  <2>4. /\ Imported(d.graph, d.nets) /\ Grows(e[k].graph, d.graph, N)
        /\ LastNode(d.graph) = LastNode(e[k].graph)
        /\ DOMAIN d.nets = DOMAIN e[k].nets \cup {outs[k + 1]}
        /\ \A b \in DOMAIN e[k].nets : d.nets[b] = e[k].nets[b]
        /\ NodeHas(d.graph, N, type, name, ins, Len(ins), outs, k + 1)
    BY <2>3 DEF DriveMore
  <2>5. Grows(graph, d.graph, N)
    BY <1>14, <2>4, GrowsTwice
  <2>6. {outs[i] : i \in 1 .. (k + 1)} = {outs[i] : i \in 1 .. k} \cup {outs[k + 1]}
    BY <2>1
  <2>7. DOMAIN d.nets = DOMAIN output_nets \cup {outs[i] : i \in 1 .. (k + 1)}
    BY <1>14, <2>4, <2>6
  <2>8. \A b \in DOMAIN output_nets : d.nets[b] = output_nets[b]
    BY <1>14, <2>4
  <2> QED BY <1>14, <2>2, <2>4, <2>5, <2>7, <2>8
<1> HIDE DEF D
<1>15. D(Len(outs))
  <2>1. 0 \in T /\ \A k \in 0 .. Len(outs) - 1 : k \in T => k + 1 \in T
    BY <1>0, <1>13, <1>14
  <2> HIDE DEF T
  <2>2. \A k \in 0 .. Len(outs) : k \in T
    BY <1>0, <2>1, InductionUpto
  <2> QED BY <1>0, <2>2 DEF T
<1>16. {outs[i] : i \in 1 .. Len(outs)} = ToSet(outs)
  BY <1>0 DEF ToSet
<1> QED BY <1>3, <1>12, <1>15, <1>16 DEF D, N, NodeImported, NodeIs

-----------------------------------------------------------------------------
(* The netlist the import starts with.                                     *)

SourceType(bit) == IF bit \in Constants3 THEN "constant" ELSE "input"

SourceMore(g, h, bit) ==
  /\ Fresh(h) /\ Driven(h) /\ PinNamesOK(h)
  /\ LastNode(h) = LastNode(g) + 1 /\ LastNet(h) = LastNet(g) + 1
  /\ LastNode(h) \notin DOMAIN g.nodes
  /\ Grows(g, h, LastNode(h))
  /\ h.nets[LastNet(h)].name = bit
  /\ NodeIs(h, LastNode(h), SourceType(bit), bit, <<>>, <<bit>>)

(* A constant or an input becomes a node that drives a net of its own.     *)
LEMMA SourceNodeHas ==
  ASSUME NEW g, Fresh(g), Driven(g), PinNamesOK(g), NEW bit \in Names
  PROVE  SourceMore(g, SourceNode(g, bit), bit)
<1> DEFINE type == SourceType(bit)
           a == AllocateNode(g, type, bit)
           b == AllocateNet(a, bit)
           N == LastNode(g) + 1
           M == LastNet(g) + 1
           pname == IF bit \in Constants3 THEN NoName ELSE <<bit, 0>>
           h == NewDriver(b, N, M, pname)
<1>0. g \in GraphSet /\ type \in NodeTypes /\ pname \in PinNames
  <2>1. pname \in PinNames
    BY DEF PinNames
  <2>2. type \in NodeTypes
    BY DEF SourceType, NodeTypes
  <2> QED BY <2>1, <2>2 DEF Fresh
<1>1. NodeMore(g, a, type, bit)
  BY <1>0, AllocateNodeHas
<1>2. LastNode(a) = N /\ LastNet(a) = LastNet(g) /\ Fresh(a)
  BY <1>1 DEF NodeMore, LastNet
<1>3. /\ b \in GraphSet /\ b.pins = a.pins /\ b.nodes = a.nodes
      /\ LastNet(b) = M
      /\ \A m \in DOMAIN a.nets : b.nets[m] = a.nets[m]
      /\ b.nets[LastNet(b)] =
                  [name |-> bit, drivers |-> <<>>, fanouts |-> <<>>, live |-> TRUE]
      /\ Fresh(b)
  <2>1. Fresh(b) /\ a \in GraphSet
    BY <1>2, AllocateNetFresh DEF Fresh
  <2> QED BY <1>2, <2>1, AllocateNetIs
<1>4. SourceNode(g, bit) = h
  <2> DEFINE ty == IF bit \in Constants3 THEN "constant" ELSE "input"
             a1 == AllocateNode(g, ty, bit)
             b1 == AllocateNet(a1, bit)
  <2>1. SourceNode(g, bit) = NewDriver(b1, LastNode(a1), LastNet(b1), pname)
    BY Zenon DEF SourceNode
  <2>2. a1 = a
    BY DEF SourceType
  <2> HIDE DEF a1
  <2>3. b1 = b
    BY <2>2
  <2> HIDE DEF b1, a, b
  <2> QED BY <1>2, <1>3, <2>1, <2>2, <2>3
<1> HIDE DEF a, b, h, pname
<1>5. /\ Grows(g, a, N) /\ N \notin DOMAIN g.nodes /\ a.nets = g.nets
      /\ NodeHas(a, N, type, bit, <<>>, 0, <<bit>>, 0) /\ PinNamesOK(a)
  BY <1>1, <1>2 DEF NodeMore
<1>6. DOMAIN b.nets = DOMAIN g.nets \cup {M} /\ M \notin DOMAIN g.nets
      /\ DOMAIN a.nets = DOMAIN g.nets
  BY <1>0, <1>3, <1>5, GraphType
<1> HIDE DEF N, M
<1>7. Grows(a, b, N)
  BY <1>3, <1>5, <1>6 DEF Grows, PinsKept
<1>8. NodeHas(b, N, type, bit, <<>>, 0, <<bit>>, 0) /\ PinNamesOK(b)
  BY <1>3, <1>5 DEF NodeHas, PinNamesOK
<1>9. pname \in DriverNames(b.nodes[N], 0 + 1)
  <2>1. b.nodes[N].type = type /\ b.nodes[N].name = bit
    BY <1>8 DEF NodeHas
  <2> QED BY <2>1 DEF DriverNames, pname, SourceType
<1>10. DriverMore(b, h, N, M, type, bit, <<>>, 0, <<bit>>, 0)
  <2> DEFINE outs == <<bit>>
  <2>1. outs \in Seq(Names) /\ 0 + 1 \in DOMAIN outs /\ outs[0 + 1] = bit
    OBVIOUS
  <2>2. M \in DOMAIN b.nets /\ b.nets[M].name = outs[0 + 1]
    BY <1>3, <1>6, <2>1
  <2> HIDE DEF outs
  <2>3. NodeHas(b, N, type, bit, <<>>, 0, outs, 0)
    BY <1>8 DEF outs
  <2> DEFINE j == 0
  <2>4. j \in Nat /\ j = 0
    OBVIOUS
  <2> HIDE DEF j
  <2>5. DriverMore(b, h, N, M, type, bit, <<>>, 0, outs, j)
    BY <1>0, <1>3, <1>9, <2>1, <2>2, <2>3, <2>4, NewDriverHas DEF h
  <2> QED BY <2>4, <2>5 DEF outs
<1>11. /\ Fresh(h) /\ Grows(b, h, N)
       /\ LastNode(h) = LastNode(b) /\ LastNet(h) = LastNet(b)
       /\ \A x \in DOMAIN b.nets : h.nets[x].name = b.nets[x].name
       /\ \A x \in DOMAIN b.nets : x # M => h.nets[x] = b.nets[x]
       /\ h.nets[M].drivers # <<>>
       /\ NodeHas(h, N, type, bit, <<>>, 0, <<bit>>, 0 + 1)
       /\ PinNamesOK(h)
  BY <1>8, <1>10 DEF DriverMore
<1>12. Grows(g, h, N)
  <2>1. Grows(g, b, N)
    BY <1>5, <1>7, GrowsTwice
  <2> QED BY <1>11, <2>1, GrowsTwice
<1>13. Driven(h)
  <2>1. DOMAIN h.nets = DOMAIN b.nets
    BY <1>3, <1>11, GraphType DEF Fresh
  <2> QED BY <1>3, <1>5, <1>6, <1>11, <2>1 DEF Driven
<1>14. NodeIs(h, N, type, bit, <<>>, <<bit>>)
  <2>1. Len(<<>>) = 0 /\ Len(<<bit>>) = 0 + 1
    OBVIOUS
  <2> QED BY <1>11, <2>1 DEF NodeIs
<1>15. LastNode(b) = N
  BY <1>2, <1>3 DEF LastNode
<1>16. h.nets[M].name = bit
  BY <1>3, <1>6, <1>11
<1> QED BY <1>3, <1>4, <1>5, <1>11, <1>12, <1>13, <1>14, <1>15, <1>16 DEF SourceMore, N, M

OutputMore(g, h, bit) ==
  /\ Fresh(h) /\ PinNamesOK(h)
  /\ LastNode(h) = LastNode(g) + 1 /\ h.nets = g.nets
  /\ LastNode(h) \notin DOMAIN g.nodes
  /\ Grows(g, h, LastNode(h))
  /\ NodeIs(h, LastNode(h), "output", bit, <<bit>>, <<>>)

(* A top output becomes a node with one input pin.                         *)
LEMMA OutputNodeHas ==
  ASSUME NEW g, Fresh(g), PinNamesOK(g), NEW bit \in Names
  PROVE  OutputMore(g, OutputNode(g, bit), bit)
<1> DEFINE a == AllocateNode(g, "output", bit)
           N == LastNode(g) + 1
           h == NewReader(a, N, bit)
<1>1. NodeMore(g, a, "output", bit)
  <2> DEFINE type == "output"
  <2>1. type \in NodeTypes
    BY DEF NodeTypes
  <2> HIDE DEF type
  <2>2. NodeMore(g, AllocateNode(g, type, bit), type, bit)
    BY <2>1, AllocateNodeHas
  <2> QED BY <2>2 DEF type
<1>2. LastNode(a) = N
  BY <1>1 DEF NodeMore
<1>3. OutputNode(g, bit) = h
  BY <1>2, Zenon DEF OutputNode
<1> HIDE DEF a, h
<1>4. /\ Fresh(a) /\ Grows(g, a, N) /\ N \notin DOMAIN g.nodes /\ a.nets = g.nets
      /\ NodeHas(a, N, "output", bit, <<bit>>, 0, <<>>, 0) /\ PinNamesOK(a)
  BY <1>1, <1>2 DEF NodeMore
<1> HIDE DEF N
<1>5. ReaderMore(a, h, N, "output", bit, <<bit>>, 0, <<>>, 0)
  <2> DEFINE ins == <<bit>>
             i == 0
  <2>1. ins \in Seq(Names) /\ i + 1 \in DOMAIN ins /\ ins[i + 1] = bit /\ i \in Nat /\ i = 0
    OBVIOUS
  <2>2. NodeHas(a, N, "output", bit, ins, i, <<>>, 0)
    BY <1>4
  <2> HIDE DEF ins, i
  <2>3. ReaderMore(a, NewReader(a, N, ins[i + 1]), N, "output", bit, ins, i, <<>>, 0)
    BY <1>4, <2>1, <2>2, NewReaderHas
  <2>4. ReaderMore(a, h, N, "output", bit, ins, i, <<>>, 0)
    BY <2>1, <2>3 DEF h
  <2> QED BY <2>1, <2>4 DEF ins
<1>6. /\ Fresh(h) /\ Grows(a, h, N) /\ LastNode(h) = N /\ h.nets = a.nets
      /\ NodeHas(h, N, "output", bit, <<bit>>, 0 + 1, <<>>, 0) /\ PinNamesOK(h)
  BY <1>2, <1>4, <1>5 DEF ReaderMore
<1>7. Grows(g, h, N)
  BY <1>4, <1>6, GrowsTwice
<1>8. NodeIs(h, N, "output", bit, <<bit>>, <<>>)
  <2>1. Len(<<>>) = 0 /\ Len(<<bit>>) = 0 + 1
    OBVIOUS
  <2> QED BY <1>6, <2>1 DEF NodeIs
<1> QED BY <1>3, <1>4, <1>6, <1>7, <1>8 DEF OutputMore, N

-----------------------------------------------------------------------------
(* The nodes of the netlist in the order they are made: the constants and  *)
(* inputs, the outputs, c cells, and buffers for some of the first k       *)
(* connections.  Only buffers are freed.                                   *)

SourceCount(d) == Len(SourceBits(d))
Before(d) == SourceCount(d) + Len(d.outputs)

BufferFor(g, d, n, j) ==
  NodeIs(g, n, "buf", d.connections[j][1], <<d.connections[j][2]>>, <<d.connections[j][1]>>)

(* The nodes that are never freed.                                         *)
SourceHas(g, d, i) ==
  /\ NodeIs(g, i, SourceType(SourceBits(d)[i]), SourceBits(d)[i], <<>>, <<SourceBits(d)[i]>>)
  /\ g.nodes[i].live

OutputHas(g, d, i) ==
  /\ NodeIs(g, SourceCount(d) + i, "output", d.outputs[i], <<d.outputs[i]>>, <<>>)
  /\ g.nodes[SourceCount(d) + i].live

CellHas(g, d, i) ==
  /\ NodeIs(g, Before(d) + i, "skip", d.cells[i].name, d.cells[i].ins, d.cells[i].outs)
  /\ g.nodes[Before(d) + i].live

Layout(g, d, c, k) ==
  /\ \A i \in 1 .. SourceCount(d) : SourceHas(g, d, i)
  /\ \A i \in 1 .. Len(d.outputs) : OutputHas(g, d, i)
  /\ \A i \in 1 .. c : CellHas(g, d, i)
  /\ \A n \in DOMAIN g.nodes : n > Before(d) + c /\ g.nodes[n].live
       => \E j \in 1 .. k : BufferFor(g, d, n, j)
  /\ LastNode(g) >= Before(d) + c

(* Which connections are imported.                                         *)
BuffersMade(g, d, nets, k) ==
  /\ \A j \in 1 .. k : d.connections[j][1] \in DOMAIN nets
       => \E n \in DOMAIN g.nodes : BufferFor(g, d, n, j)
  /\ \A m, n \in DOMAIN g.nodes :
       g.nodes[m].type = "buf" /\ g.nodes[n].type = "buf" /\ g.nodes[m].name = g.nodes[n].name
         => m = n

(* What has been named, and what has a net.                                *)
MentionedBits(d) ==
  ToSet(d.inputs) \cup ToSet(d.outputs) \cup
  UNION {ToSet(c.ins) \cup ToSet(c.outs) : c \in ToSet(d.cells)}

Seen(g, d, nets, seen, k) ==
  /\ DOMAIN nets \subseteq seen \cup Constants3
  /\ \A j \in 1 .. k : d.connections[j][1] \in MentionedBits(d) => d.connections[j][1] \in DOMAIN nets
  /\ \A n \in DOMAIN g.nodes : g.nodes[n].type = "buf" =>
       \E i \in 1 .. k :
         /\ BufferFor(g, d, n, i)
         /\ d.connections[i][2] \in seen
         /\ \A j \in i .. k : d.connections[j][1] = d.connections[i][2]
              => d.connections[j][1] \in DOMAIN nets

ImportedCells(d, c) ==
  UNION {ToSet(d.cells[i].ins) \cup ToSet(d.cells[i].outs) : i \in 1 .. c}
ImportedOutputs(d, c) == UNION {ToSet(d.cells[i].outs) : i \in 1 .. c}

(* c cells are imported, or all cells and k connections.                   *)
CellsInv(g, d, nets, seen, c) ==
  /\ Imported(g, nets)
  /\ Layout(g, d, c, 0) /\ LastNode(g) = Before(d) + c
  /\ DOMAIN nets \subseteq seen \cup Constants3
  /\ ToSet(d.inputs) \cup ToSet(d.outputs) \cup ImportedCells(d, c) \subseteq seen
  /\ ToSet(SourceBits(d)) \cup ImportedOutputs(d, c) \subseteq DOMAIN nets

ConnectionsInv(g, d, nets, seen, k) ==
  /\ Imported(g, nets)
  /\ Layout(g, d, Len(d.cells), k)
  /\ BuffersMade(g, d, nets, k)
  /\ Seen(g, d, nets, seen, k)
  /\ MentionedBits(d) \subseteq seen
  /\ ToSet(SourceBits(d)) \cup CellOutputs(d) \subseteq DOMAIN nets

ImportInv ==
  /\ design \in Designs
  /\ stage = "cells" =>
       /\ position \in 1 .. Len(design.cells) + 1
       /\ CellsInv(graph, design, output_nets, cstr_bits_seen, position - 1)
  /\ stage = "connections" =>
       /\ position \in 1 .. Len(design.connections) + 1
       /\ ConnectionsInv(graph, design, output_nets, cstr_bits_seen, position - 1)
  /\ stage = "hook_up" =>
       ConnectionsInv(graph, design, output_nets, cstr_bits_seen, Len(design.connections))
  /\ stage \in {"cells", "connections", "hook_up"} =>
       calls = <<>> /\ marked = {} /\ written = Nothing

(* After the import.                                                       *)
AllHooked(g) ==
  \A p \in DOMAIN g.pins : g.pins[p].live /\ ~g.pins[p].output => g.pins[p].net # Null

SameSources(g, d) ==
  \A p \in DOMAIN g.pins : g.pins[p].live /\ ~g.pins[p].output =>
    LET b == g.nets[g.pins[p].net].name
    IN  /\ b \in UpstreamBits(d, g.pins[p].name[1])
        /\ SourcesOf(d, b) = SourcesOf(d, g.pins[p].name[1])

NetNamesDiffer(g) ==
  \A k, m \in DOMAIN g.nets : g.nets[k].name = g.nets[m].name => k = m

BufferNamesDiffer(g) ==
  \A m, n \in DOMAIN g.nodes :
    g.nodes[m].type = "buf" /\ g.nodes[n].type = "buf" /\ g.nodes[m].name = g.nodes[n].name => m = n

HookedGraph(g, d) ==
  /\ g \in GraphSet /\ Agree(g) /\ Driven(g) /\ PinNamesOK(g) /\ AllHooked(g)
  /\ Layout(g, d, Len(d.cells), Len(d.connections))
  /\ NetNamesDiffer(g) /\ BufferNamesDiffer(g)

-----------------------------------------------------------------------------
(* The traversals.                                                         *)

NetOf(g, n, i) == IF i \in DOMAIN g.nodes[n].outs THEN g.pins[g.nodes[n].outs[i]].net ELSE Null

(* The calls cs of a traversal of g that has marked M.                     *)
CallOK(g, M, c) ==
  /\ LiveNode(g, c.node) /\ c.node \in M
  /\ c.pin \in 1 .. Len(g.nodes[c.node].outs) + 1 /\ c.reader \in Nat \ {0}
  /\ c.net = NetOf(g, c.node, c.pin)

CallRecord == [node : Nat, pin : Nat, net : Nat, reader : Nat]

CallsOK(g, M, cs) ==
  /\ cs \in Seq(CallRecord)
  /\ \A k \in DOMAIN cs : CallOK(g, M, cs[k])
  /\ \A j, k \in DOMAIN cs : cs[j].node = cs[k].node => j = k

(* A call in progress has yet to come to reader k of output pin i of n.    *)
Ahead(cs, n, i, k) ==
  \E c \in DOMAIN cs :
    cs[c].node = n /\ (cs[c].pin < i \/ (cs[c].pin = i /\ cs[c].reader <= k))

OnStack(cs, n) == \E c \in DOMAIN cs : cs[c].node = n

(* The readers a marked node leads to are marked, or a call is on its way. *)
Reader0(g, n, i, k) == g.nets[NetOf(g, n, i)].fanouts[k]

Closing(g, M, cs, n) ==
  \A i \in DOMAIN g.nodes[n].outs :
    \A k \in DOMAIN g.nets[NetOf(g, n, i)].fanouts :
      LET p == Reader0(g, n, i, k)
      IN  p # Null => g.pins[p].node \in M \/ Ahead(cs, n, i, k)

WalkClosed(g, M, cs) ==
  /\ M \subseteq DOMAIN g.nodes
  /\ \A n \in M : g.nodes[n].live => Closing(g, M, cs, n)

(* What the mapping has made of a node it has left.                        *)
MappedNode(g, n) ==
  /\ g.nodes[n].type = "skip" /\ g.nodes[n].live =>
       \A i \in DOMAIN g.nodes[n].outs : g.pins[g.nodes[n].outs[i]].name = <<g.nodes[n].name, i>>
  /\ g.nodes[n].type = "buf" /\ g.nodes[n].live =>
       Len(g.nets[NetOf(g, n, 1)].drivers) > 1

(* M: what the mapping has visited.                                        *)
Covered(g, d, M) ==
  /\ WalkClosed(g, M, <<>>) /\ 1 .. SourceCount(d) \subseteq M
  /\ \A n \in M : MappedNode(g, n)

(* What is written so far are cells of S, each once, with their own wires. *)
WrittenFrom(g, w, S) ==
  /\ w = [cells |-> w.cells, connects |-> w.connects]
  /\ w.cells \in Seq(ToSet(w.cells))
  /\ \A i \in DOMAIN w.cells :
       /\ \E n \in S : LiveNode(g, n) /\ g.nodes[n].type = "skip" /\ w.cells[i].name = g.nodes[n].name
       /\ \A k \in DOMAIN w.cells[i].outs : w.cells[i].outs[k] = <<w.cells[i].name, k>>
  /\ \A i, j \in DOMAIN w.cells : w.cells[i].name = w.cells[j].name => i = j

-----------------------------------------------------------------------------
(* The invariants.                                                         *)
Walks == {"map", "write"}

GraphInv ==
  /\ ImportInv /\ stage \in Stages
  /\ graph \in GraphSet /\ Agree(graph)
  /\ stage \in {"map", "sweep", "write", "outputs", "done"} => HookedGraph(graph, design)
  /\ stage \in {"map", "sweep"} => Placed(graph)
  /\ CallsOK(graph, marked, calls)
  /\ stage \notin Walks \cup {"refused"} => calls = <<>> /\ marked = {}

WalkInv ==
  /\ stage \in {"cells", "connections", "hook_up", "map", "sweep"} => written = Nothing
  /\ stage \in {"hook_up", "sweep"} => position = 1
  /\ stage \in Walks =>
       /\ position \in 1 .. SourceCount(design) + 1
       /\ WalkClosed(graph, marked, calls)
       /\ \A i \in DOMAIN Roots : i < position => Roots[i] \in marked
  /\ stage = "map" => \A n \in marked : OnStack(calls, n) \/ MappedNode(graph, n)
  /\ stage \in {"sweep", "write", "outputs"} =>
       \E M \in SUBSET DOMAIN graph.nodes : Covered(graph, design, M) /\ marked \subseteq M
  /\ stage = "write" => WrittenFrom(graph, written, marked)
  /\ WrittenFrom(graph, written, DOMAIN graph.nodes)

MeaningInv ==
  stage \in {"map", "sweep", "write", "outputs", "done"} => SameSources(graph, design)

(* What is known of a design.                                              *)
LEMMA DesignFacts ==
  ASSUME NEW d \in Designs
  PROVE  /\ SourceBits(d) \in Seq(Names) /\ SourceCount(d) = 3 + Len(d.inputs)
         /\ d.inputs \in Seq(Names) /\ d.outputs \in Seq(Names)
         /\ d.cells \in Seq(Cell) /\ d.connections \in Seq(Names \X Names)
         /\ SourceCount(d) \in Nat /\ Before(d) \in Nat
         /\ DOMAIN SourceBits(d) = 1 .. SourceCount(d)
         /\ \A i, j \in DOMAIN SourceBits(d) : SourceBits(d)[i] = SourceBits(d)[j] => i = j
         /\ \A i, j \in DOMAIN d.outputs : d.outputs[i] = d.outputs[j] => i = j
<1>1. IsDesign(d) /\ Constants3 \subseteq Names
  BY DesignsAssumption
<1>2. d \in [inputs : Seq(Names), outputs : Seq(Names), cells : Seq(Cell),
             connections : Seq(Names \X Names)]
      /\ IsInjective(SourceBits(d)) /\ IsInjective(d.outputs)
  BY <1>1 DEF IsDesign
<1>3. /\ d.inputs \in Seq(Names) /\ d.outputs \in Seq(Names)
      /\ d.cells \in Seq(Cell) /\ d.connections \in Seq(Names \X Names)
  BY <1>2
<1>4. <<GND_NAME, VCC_NAME, HBPAD_NAME>> \in Seq(Names)
      /\ Len(<<GND_NAME, VCC_NAME, HBPAD_NAME>>) = 3
  BY <1>1 DEF Constants3
<1>5. SourceBits(d) \in Seq(Names) /\ Len(SourceBits(d)) = 3 + Len(d.inputs)
  <2> DEFINE s == <<GND_NAME, VCC_NAME, HBPAD_NAME>>
  <2>1. s \in Seq(Names) /\ Len(s) = 3 /\ SourceBits(d) = s \o d.inputs
    BY <1>4 DEF SourceBits
  <2> HIDE DEF s
  <2>2. s \o d.inputs \in Seq(Names) /\ Len(s \o d.inputs) = Len(s) + Len(d.inputs)
    BY <1>3, <2>1, ConcatProperties
  <2> QED BY <2>1, <2>2
<1>6. SourceCount(d) = 3 + Len(d.inputs) /\ DOMAIN SourceBits(d) = 1 .. SourceCount(d)
  BY <1>5 DEF SourceCount
<1>7. SourceCount(d) \in Nat /\ Before(d) \in Nat
  <2>1. Len(d.inputs) \in Nat /\ Len(d.outputs) \in Nat
    BY <1>3
  <2>2. SourceCount(d) \in Nat
    BY <1>6, <2>1
  <2>3. Before(d) = SourceCount(d) + Len(d.outputs)
    BY Zenon DEF Before
  <2> QED BY <2>1, <2>2, <2>3
<1> QED BY <1>2, <1>3, <1>5, <1>6, <1>7 DEF IsInjective

(* A cell of a design.                                                     *)
LEMMA CellFacts ==
  ASSUME NEW d \in Designs, NEW i \in DOMAIN d.cells
  PROVE  /\ d.cells[i].name \in Names
         /\ d.cells[i].ins \in Seq(Names) /\ d.cells[i].outs \in Seq(Names)
         /\ i \in 1 .. Len(d.cells)
<1>1. d.cells \in Seq(Cell)
  BY DesignFacts
<1>2. d.cells[i] \in Cell
  BY <1>1
<1> QED BY <1>1, <1>2 DEF Cell

(* The nodes of constants, inputs and outputs.                             *)
TopMade(g, d) ==
  /\ Fresh(g) /\ Driven(g) /\ PinNamesOK(g)
  /\ LastNode(g) = Before(d) /\ LastNet(g) = SourceCount(d)
  /\ \A i \in 1 .. SourceCount(d) : g.nets[i].name = SourceBits(d)[i]
  /\ \A i \in 1 .. SourceCount(d) :
       NodeIs(g, i, SourceType(SourceBits(d)[i]), SourceBits(d)[i], <<>>, <<SourceBits(d)[i]>>)
  /\ \A i \in 1 .. Len(d.outputs) :
       NodeIs(g, SourceCount(d) + i, "output", d.outputs[i], <<d.outputs[i]>>, <<>>)

(* The empty netlist agrees with itself.                                   *)
LEMMA EmptyGraphFresh ==
  /\ Fresh(EmptyGraph) /\ Driven(EmptyGraph) /\ PinNamesOK(EmptyGraph)
  /\ LastNode(EmptyGraph) = 0 /\ LastNet(EmptyGraph) = 0
<1>1. EmptyGraph.nodes = <<>> /\ EmptyGraph.pins = <<>> /\ EmptyGraph.nets = <<>>
  BY DEF EmptyGraph
<1>2. EmptyGraph \in GraphSet
  <2>1. <<>> \in Seq(NodeRecord) /\ <<>> \in Seq(PinRecord) /\ <<>> \in Seq(NetRecord)
    OBVIOUS
  <2> QED BY <2>1 DEF GraphSet, EmptyGraph
<1>3. DOMAIN EmptyGraph.nodes = {} /\ DOMAIN EmptyGraph.pins = {} /\ DOMAIN EmptyGraph.nets = {}
  BY <1>1
<1>4. Agree(EmptyGraph)
  BY <1>3 DEF Agree
<1>5. LastNode(EmptyGraph) = 0 /\ LastNet(EmptyGraph) = 0
  BY <1>1 DEF LastNode, LastNet
<1> QED BY <1>2, <1>3, <1>4, <1>5 DEF Fresh, Driven, PinNamesOK

(* create_top_driver_nets and the top ports: the sources come first, one   *)
(* node and one net each, then the outputs.                                *)
LEMMA TopGraphIs ==
  ASSUME NEW d \in Designs
  PROVE  TopMade(TopGraph(d), d)
<1> DEFINE bits == SourceBits(d)
           C == SourceCount(d)
           src == SourceNodes(EmptyGraph, bits)
           top == OutputNodes(src, d.outputs)
<1>0. /\ bits \in Seq(Names) /\ C \in Nat /\ Len(bits) = C /\ DOMAIN bits = 1 .. C
      /\ d.outputs \in Seq(Names) /\ Len(d.outputs) \in Nat
      /\ DOMAIN d.outputs = 1 .. Len(d.outputs)
      /\ Before(d) = C + Len(d.outputs)
  BY DesignFacts DEF SourceCount, Before
<1>1. TopGraph(d) = top
  BY Zenon DEF TopGraph, SourceNodes, OutputNodes
<1> HIDE DEF bits, C
<1>2. PICK f : /\ f[0] = EmptyGraph
               /\ \A k \in 1 .. Len(bits) : f[k] = SourceNode(f[k - 1], bits[k])
               /\ src = f[Len(bits)]
  <2>1. PICK f : IsSourceNodes(f, EmptyGraph, bits)
    BY <1>0, FoldSources, Zenon
  <2> QED BY <2>1, Zenon DEF IsSourceNodes
<1> HIDE DEF src
<1> DEFINE R(k) == /\ Fresh(f[k]) /\ Driven(f[k]) /\ PinNamesOK(f[k])
                   /\ LastNode(f[k]) = k /\ LastNet(f[k]) = k
                   /\ \A i \in 1 .. k : f[k].nets[i].name = bits[i]
                   /\ \A i \in 1 .. k :
                        NodeIs(f[k], i, SourceType(bits[i]), bits[i], <<>>, <<bits[i]>>)
           S == {k \in Nat : R(k)}
<1>3. R(0)
  BY <1>2, EmptyGraphFresh
<1>4. ASSUME NEW k \in 0 .. C - 1, R(k) PROVE R(k + 1)
  <2> DEFINE b == bits[k + 1]
             h == SourceNode(f[k], b)
  <2>1. k \in Nat /\ k + 1 \in 1 .. C /\ (k + 1) - 1 = k /\ b \in Names
        /\ 1 .. (k + 1) = (1 .. k) \cup {k + 1} /\ k + 1 \notin 1 .. k
    BY <1>0
  <2>2. f[k + 1] = h
    BY <1>0, <1>2, <2>1
  <2>3. SourceMore(f[k], h, b)
    <3> HIDE DEF b
    <3> QED BY <1>4, <2>1, SourceNodeHas
  <2> HIDE DEF h
  <2>4. /\ Fresh(h) /\ Driven(h) /\ PinNamesOK(h)
        /\ LastNode(h) = k + 1 /\ LastNet(h) = k + 1
        /\ Grows(f[k], h, k + 1)
        /\ h.nets[k + 1].name = b
        /\ NodeIs(h, k + 1, SourceType(b), b, <<>>, <<b>>)
    BY <1>4, <2>3 DEF SourceMore
  <2>5. DOMAIN f[k].nets = 1 .. k
    BY <1>4, GraphType DEF Fresh
  <2>6. \A i \in 1 .. (k + 1) : h.nets[i].name = bits[i]
    BY <1>4, <2>1, <2>4, <2>5 DEF Grows
  <2>7. \A i \in 1 .. k : NodeIs(h, i, SourceType(bits[i]), bits[i], <<>>, <<bits[i]>>)
    <3> TAKE i \in 1 .. k
    <3>1. NodeIs(f[k], i, SourceType(bits[i]), bits[i], <<>>, <<bits[i]>>) /\ i # k + 1
      BY <1>4, <2>1
    <3> QED BY <1>4, <2>4, <3>1, NodeHasKept DEF NodeIs
  <2>8. \A i \in 1 .. (k + 1) :
          NodeIs(h, i, SourceType(bits[i]), bits[i], <<>>, <<bits[i]>>)
    BY <2>1, <2>4, <2>7
  <2> QED BY <2>2, <2>4, <2>6, <2>8
<1> HIDE DEF R
<1>5. R(C)
  <2>1. 0 \in S /\ \A k \in 0 .. C - 1 : k \in S => k + 1 \in S
    BY <1>0, <1>3, <1>4
  <2> HIDE DEF S
  <2>2. \A k \in 0 .. C : k \in S
    BY <1>0, <2>1, InductionUpto
  <2> QED BY <1>0, <2>2 DEF S
<1>6. PICK e : /\ e[0] = src
               /\ \A k \in 1 .. Len(d.outputs) : e[k] = OutputNode(e[k - 1], d.outputs[k])
               /\ top = e[Len(d.outputs)]
  <2>1. PICK e : IsOutputNodes(e, src, d.outputs)
    BY <1>0, FoldOutputs, Zenon
  <2> QED BY <2>1, Zenon DEF IsOutputNodes
<1> HIDE DEF top
<1> DEFINE O(k) == /\ Fresh(e[k]) /\ PinNamesOK(e[k])
                   /\ LastNode(e[k]) = C + k /\ e[k].nets = src.nets
                   /\ \A i \in 1 .. C :
                        NodeIs(e[k], i, SourceType(bits[i]), bits[i], <<>>, <<bits[i]>>)
                   /\ \A i \in 1 .. k :
                        NodeIs(e[k], C + i, "output", d.outputs[i], <<d.outputs[i]>>, <<>>)
           T == {k \in Nat : O(k)}
<1>7. O(0)
  BY <1>0, <1>2, <1>5, <1>6 DEF R
<1>8. ASSUME NEW k \in 0 .. Len(d.outputs) - 1, O(k) PROVE O(k + 1)
  <2> DEFINE b == d.outputs[k + 1]
             h == OutputNode(e[k], b)
  <2>1. k \in Nat /\ k + 1 \in 1 .. Len(d.outputs) /\ (k + 1) - 1 = k /\ b \in Names
        /\ 1 .. (k + 1) = (1 .. k) \cup {k + 1} /\ k + 1 \notin 1 .. k
        /\ C + (k + 1) = (C + k) + 1
    BY <1>0
  <2>2. e[k + 1] = h
    BY <1>6, <2>1
  <2>3. OutputMore(e[k], h, b)
    <3> HIDE DEF b
    <3> QED BY <1>8, <2>1, OutputNodeHas
  <2> HIDE DEF h
  <2>4. /\ Fresh(h) /\ PinNamesOK(h)
        /\ LastNode(h) = C + (k + 1) /\ h.nets = src.nets
        /\ Grows(e[k], h, C + (k + 1))
        /\ NodeIs(h, C + (k + 1), "output", b, <<b>>, <<>>)
    BY <1>8, <2>1, <2>3 DEF OutputMore
  <2>5. \A i \in 1 .. C : NodeIs(h, i, SourceType(bits[i]), bits[i], <<>>, <<bits[i]>>)
    <3> TAKE i \in 1 .. C
    <3>1. NodeIs(e[k], i, SourceType(bits[i]), bits[i], <<>>, <<bits[i]>>)
      BY <1>8
    <3>2. i # C + (k + 1)
      BY <1>0
    <3> QED BY <1>8, <2>4, <3>1, <3>2, NodeHasKept DEF NodeIs
  <2>6. \A i \in 1 .. k : NodeIs(h, C + i, "output", d.outputs[i], <<d.outputs[i]>>, <<>>)
    <3> TAKE i \in 1 .. k
    <3>1. NodeIs(e[k], C + i, "output", d.outputs[i], <<d.outputs[i]>>, <<>>)
      BY <1>8
    <3>2. C + i # C + (k + 1)
      BY <1>0
    <3> QED BY <1>8, <2>4, <3>1, <3>2, NodeHasKept DEF NodeIs
  <2>7. \A i \in 1 .. (k + 1) :
          NodeIs(h, C + i, "output", d.outputs[i], <<d.outputs[i]>>, <<>>)
    BY <2>1, <2>4, <2>6
  <2> QED BY <2>2, <2>4, <2>5, <2>7
<1> HIDE DEF O
<1>9. O(Len(d.outputs))
  <2>1. 0 \in T /\ \A k \in 0 .. Len(d.outputs) - 1 : k \in T => k + 1 \in T
    BY <1>0, <1>7, <1>8
  <2> HIDE DEF T
  <2>2. \A k \in 0 .. Len(d.outputs) : k \in T
    BY <1>0, <2>1, InductionUpto
  <2> QED BY <1>0, <2>2 DEF T
<1>10. /\ Fresh(top) /\ PinNamesOK(top)
       /\ LastNode(top) = Before(d) /\ top.nets = src.nets
       /\ \A i \in 1 .. C :
            NodeIs(top, i, SourceType(bits[i]), bits[i], <<>>, <<bits[i]>>)
       /\ \A i \in 1 .. Len(d.outputs) :
            NodeIs(top, C + i, "output", d.outputs[i], <<d.outputs[i]>>, <<>>)
  BY <1>0, <1>6, <1>9 DEF O
<1>11. /\ Driven(src) /\ LastNet(src) = C
       /\ \A i \in 1 .. C : src.nets[i].name = bits[i]
  BY <1>0, <1>2, <1>5 DEF R
<1>12. Driven(top) /\ LastNet(top) = C /\ \A i \in 1 .. C : top.nets[i].name = bits[i]
  BY <1>10, <1>11 DEF Driven, LastNet
<1> QED BY <1>1, <1>10, <1>12 DEF TopMade, bits, C

(* Another node leaves a node what it was made for.                        *)
LEMMA NodeIsKept ==
  ASSUME NEW g, NEW h, Fresh(g), Grows(g, h, LastNode(g) + 1), NEW x, NEW type, NEW name,
         NEW ins, NEW outs, NodeIs(g, x, type, name, ins, outs)
  PROVE  x \in DOMAIN g.nodes /\ NodeIs(h, x, type, name, ins, outs)
<1>1. x \in DOMAIN g.nodes
  BY DEF NodeIs, NodeHas
<1>2. x # LastNode(g) + 1
  BY <1>1, GraphType DEF Fresh
<1> QED BY <1>1, <1>2, NodeHasKept DEF NodeIs

(* A new node leaves the others what they are.                             *)
LEMMA LayoutKept ==
  ASSUME NEW g, NEW h, Fresh(g), Fresh(h), Grows(g, h, LastNode(g) + 1),
         LastNode(h) = LastNode(g) + 1,
         NEW d, NEW c \in Nat, NEW k \in Nat, Before(d) \in Nat, Layout(g, d, c, k)
  PROVE  /\ \A i \in 1 .. SourceCount(d) : SourceHas(h, d, i)
         /\ \A i \in 1 .. Len(d.outputs) : OutputHas(h, d, i)
         /\ \A i \in 1 .. c : CellHas(h, d, i)
         /\ \A n \in DOMAIN g.nodes : n > Before(d) + c
              => \E j \in 1 .. k : BufferFor(h, d, n, j)
         /\ LastNode(h) >= Before(d) + c
<1>1. \A n \in DOMAIN g.nodes : g.nodes[n].live
  BY DEF Fresh
<1>2. \A n \in DOMAIN h.nodes : h.nodes[n].live
  BY DEF Fresh
<1>3. \A n \in DOMAIN g.nodes : n \in DOMAIN h.nodes
  BY GraphType DEF Fresh
<1>4. \A i \in 1 .. SourceCount(d) : SourceHas(h, d, i)
  <2> TAKE i \in 1 .. SourceCount(d)
  <2>1. NodeIs(g, i, SourceType(SourceBits(d)[i]), SourceBits(d)[i], <<>>, <<SourceBits(d)[i]>>)
    BY DEF Layout, SourceHas
  <2>2. NodeIs(h, i, SourceType(SourceBits(d)[i]), SourceBits(d)[i], <<>>, <<SourceBits(d)[i]>>)
        /\ i \in DOMAIN g.nodes
    BY <2>1, NodeIsKept
  <2> QED BY <1>2, <1>3, <2>2 DEF SourceHas
<1>5. \A i \in 1 .. Len(d.outputs) : OutputHas(h, d, i)
  <2> TAKE i \in 1 .. Len(d.outputs)
  <2>1. NodeIs(g, SourceCount(d) + i, "output", d.outputs[i], <<d.outputs[i]>>, <<>>)
    BY DEF Layout, OutputHas
  <2>2. NodeIs(h, SourceCount(d) + i, "output", d.outputs[i], <<d.outputs[i]>>, <<>>)
        /\ SourceCount(d) + i \in DOMAIN g.nodes
    BY <2>1, NodeIsKept
  <2> QED BY <1>2, <1>3, <2>2 DEF OutputHas
<1>6. \A i \in 1 .. c : CellHas(h, d, i)
  <2> TAKE i \in 1 .. c
  <2>1. NodeIs(g, Before(d) + i, "skip", d.cells[i].name, d.cells[i].ins, d.cells[i].outs)
    BY DEF Layout, CellHas
  <2>2. NodeIs(h, Before(d) + i, "skip", d.cells[i].name, d.cells[i].ins, d.cells[i].outs)
        /\ Before(d) + i \in DOMAIN g.nodes
    BY <2>1, NodeIsKept
  <2> QED BY <1>2, <1>3, <2>2 DEF CellHas
<1>7. ASSUME NEW n \in DOMAIN g.nodes, n > Before(d) + c
      PROVE  \E j \in 1 .. k : BufferFor(h, d, n, j)
  <2>1. PICK j \in 1 .. k : BufferFor(g, d, n, j)
    BY <1>1, <1>7 DEF Layout
  <2>2. BufferFor(h, d, n, j)
    BY <2>1, NodeIsKept DEF BufferFor
  <2> QED BY <2>2
<1>8. LastNode(h) >= Before(d) + c
  <2>1. LastNode(g) >= Before(d) + c /\ LastNode(g) \in Nat
    BY GraphType DEF Layout, Fresh
  <2> QED BY <2>1
<1> QED BY <1>4, <1>5, <1>6, <1>7, <1>8

(* Only the nodes of connections are buffers.                              *)
LEMMA OtherNodes ==
  ASSUME NEW g, Fresh(g), NEW d \in Designs, NEW c \in Nat, NEW k, Layout(g, d, c, k),
         NEW n \in DOMAIN g.nodes, n <= Before(d) + c
  PROVE  g.nodes[n].type # "buf"
<1>0. Before(d) = SourceCount(d) + Len(d.outputs) /\ SourceCount(d) \in Nat /\ Len(d.outputs) \in Nat
  BY DesignFacts DEF Before
<1>1. n \in Nat /\ n >= 1
  BY GraphType DEF Fresh
<1>2. CASE n <= SourceCount(d)
  <2>1. SourceHas(g, d, n)
    BY <1>0, <1>1, <1>2 DEF Layout
  <2> QED BY <2>1 DEF SourceHas, NodeIs, NodeHas, SourceType
<1>3. CASE n > SourceCount(d) /\ n <= Before(d)
  <2>1. n - SourceCount(d) \in 1 .. Len(d.outputs) /\ SourceCount(d) + (n - SourceCount(d)) = n
    BY <1>0, <1>1, <1>3
  <2>2. OutputHas(g, d, n - SourceCount(d))
    BY <2>1, Zenon DEF Layout
  <2> QED BY <2>1, <2>2 DEF OutputHas, NodeIs, NodeHas
<1>4. CASE n > Before(d)
  <2>1. n - Before(d) \in 1 .. c /\ Before(d) + (n - Before(d)) = n
    BY <1>0, <1>1, <1>4
  <2>2. CellHas(g, d, n - Before(d))
    BY <2>1 DEF Layout
  <2> QED BY <2>1, <2>2, Zenon DEF CellHas, NodeIs, NodeHas
<1> QED BY <1>0, <1>1, <1>2, <1>3, <1>4

(* The import starts with no cell imported.                                *)
LEMMA InitImports ==
  ASSUME Init
  PROVE  ImportInv
<1> DEFINE d == design
           g == graph
           bits == SourceBits(d)
           nets == output_nets
<1>0. /\ d \in Designs /\ g = TopGraph(d) /\ stage = "cells" /\ position = 1
      /\ nets = [b \in ToSet(bits) |-> CHOOSE i \in DOMAIN bits : bits[i] = b]
      /\ cstr_bits_seen = ToSet(d.inputs) \cup ToSet(d.outputs)
      /\ calls = <<>> /\ marked = {} /\ written = Nothing
  BY DEF Init
<1>1. TopMade(g, d)
  BY <1>0, TopGraphIs
<1> HIDE DEF d, g, nets
<1>2. /\ bits \in Seq(Names) /\ DOMAIN bits = 1 .. SourceCount(d)
      /\ \A i, j \in DOMAIN bits : bits[i] = bits[j] => i = j
      /\ Before(d) \in Nat /\ d.inputs \in Seq(Names)
      /\ d.cells \in Seq(Cell)
  BY <1>0, DesignFacts
<1>3. \A b \in ToSet(bits) : nets[b] \in DOMAIN bits /\ bits[nets[b]] = b
  <2> HIDE DEF bits
  <2> TAKE b \in ToSet(bits)
  <2>1. \E i \in DOMAIN bits : bits[i] = b
    BY DEF ToSet
  <2>2. nets[b] = CHOOSE i \in DOMAIN bits : bits[i] = b
    BY <1>0
  <2> QED BY <2>1, <2>2
<1>4. DOMAIN nets = ToSet(bits) /\ nets = [b \in DOMAIN nets |-> nets[b]]
  BY <1>0
<1>5. DOMAIN g.nets = DOMAIN bits
  <2>1. DOMAIN g.nets = 1 .. LastNet(g)
    BY <1>1, GraphType DEF Fresh, TopMade
  <2> QED BY <1>1, <1>2, <2>1 DEF TopMade
<1>6. NamedNets(g, nets)
  <2>1. ASSUME NEW b \in DOMAIN nets
        PROVE  b \in Names /\ nets[b] \in DOMAIN g.nets /\ g.nets[nets[b]].name = b
    <3>1. nets[b] \in DOMAIN g.nets /\ bits[nets[b]] = b
      BY <1>3, <1>4, <1>5
    <3>2. g.nets[nets[b]].name = bits[nets[b]]
      BY <1>1, <1>2, <1>5, <3>1 DEF TopMade
    <3>3. b \in Names
      <4> HIDE DEF bits
      <4>0. \A s \in Seq(Names) : \A i \in DOMAIN s : s[i] \in Names
        OBVIOUS
      <4>1. bits[nets[b]] \in Names
        BY <1>2, <1>5, <3>1, <4>0, Zenon
      <4> QED BY <3>1, <4>1
    <3> QED BY <3>1, <3>2, <3>3
  <2>2. ASSUME NEW m \in DOMAIN g.nets
        PROVE  g.nets[m].name \in DOMAIN nets /\ nets[g.nets[m].name] = m
    <3>1. g.nets[m].name = bits[m] /\ m \in DOMAIN bits
      BY <1>1, <1>2, <1>5 DEF TopMade
    <3>2. bits[m] \in ToSet(bits)
      BY <3>1 DEF ToSet
    <3>3. nets[bits[m]] = m
      BY <1>2, <1>3, <3>1, <3>2
    <3> QED BY <1>4, <3>1, <3>2, <3>3
  <2> QED BY <2>1, <2>2 DEF NamedNets
<1>7. Imported(g, nets)
  BY <1>1, <1>4, <1>6 DEF Imported, TopMade
<1>8. Layout(g, d, 0, 0) /\ LastNode(g) = Before(d) + 0
  <2>1. DOMAIN g.nodes = 1 .. Before(d) /\ \A n \in DOMAIN g.nodes : g.nodes[n].live
    BY <1>1, GraphType DEF TopMade, Fresh
  <2>2. LastNode(g) = Before(d) /\ Before(d) + 0 = Before(d)
    BY <1>1, <1>2 DEF TopMade
  <2>3. \A i \in 1 .. SourceCount(d) : SourceHas(g, d, i)
    BY <1>1, <2>1, Zenon DEF TopMade, SourceHas, NodeIs, NodeHas
  <2>4. \A i \in 1 .. Len(d.outputs) : OutputHas(g, d, i)
    BY <1>1, <2>1, Zenon DEF TopMade, OutputHas, NodeIs, NodeHas
  <2>5. \A n \in DOMAIN g.nodes : ~(n > Before(d) + 0)
    BY <1>2, <2>1
  <2> QED BY <1>2, <2>2, <2>3, <2>4, <2>5 DEF Layout
<1>9. DOMAIN nets \subseteq cstr_bits_seen \cup Constants3
  <2>1. \A i \in DOMAIN bits : bits[i] \in ToSet(d.inputs) \cup Constants3
    <3> DEFINE s == <<GND_NAME, VCC_NAME, HBPAD_NAME>>
    <3>1. s \in Seq(Constants3) /\ Len(s) = 3 /\ bits = s \o d.inputs
      BY DEF SourceBits, Constants3
    <3> HIDE DEF s, bits
    <3> TAKE i \in DOMAIN bits
    <3>2. d.inputs \in Seq(ToSet(d.inputs))
      BY <1>2 DEF ToSet
    <3> DEFINE U == ToSet(d.inputs) \cup Constants3
    <3>3. s \in Seq(U) /\ d.inputs \in Seq(U)
      BY <3>1, <3>2
    <3> HIDE DEF U
    <3>4. bits \in Seq(U)
      BY <3>1, <3>3, ConcatProperties
    <3>5. bits[i] \in U
      BY <3>4
    <3> QED BY <3>5 DEF U
  <2> QED BY <1>0, <1>4, <2>1 DEF ToSet
<1>10. ImportedCells(d, 0) = {} /\ ImportedOutputs(d, 0) = {}
  BY DEF ImportedCells, ImportedOutputs
<1>11. CellsInv(g, d, nets, cstr_bits_seen, 0)
  <2>1. 0 \in Nat
    OBVIOUS
  <2> QED BY <1>0, <1>4, <1>7, <1>8, <1>9, <1>10 DEF CellsInv
<1>12. position - 1 = 0 /\ position \in 1 .. Len(d.cells) + 1
  BY <1>0, <1>2
<1> QED BY <1>0, <1>11, <1>12 DEF ImportInv, d, g, nets

(* Importing a cell keeps what is known of the import.                     *)
LEMMA ImportCellKeeps ==
  ASSUME ImportInv, ImportCell
  PROVE  ImportInv'
<1> DEFINE d == design
           g == graph
           nets == output_nets
           seen == cstr_bits_seen
           p == position
           c == d.cells[p]
           made == NamedNode("skip", c.name, c.ins, c.outs)
           h == made.graph
           N == LastNode(g) + 1
<1>0. /\ d \in Designs /\ stage = "cells" /\ p \in DOMAIN d.cells
      /\ CellsInv(g, d, nets, seen, p - 1)
      /\ calls = <<>> /\ marked = {} /\ written = Nothing
  BY DEF ImportInv, ImportCell
<1>1. /\ c.name \in Names /\ c.ins \in Seq(Names) /\ c.outs \in Seq(Names)
      /\ p \in 1 .. Len(d.cells) /\ d.cells \in Seq(Cell)
      /\ Before(d) \in Nat /\ SourceCount(d) \in Nat
  BY <1>0, CellFacts, DesignFacts
<1>1a. p \in Nat /\ p - 1 \in Nat /\ p + 1 \in 1 .. Len(d.cells) + 1 /\ (p + 1) - 1 = p
       /\ Before(d) + p = (Before(d) + (p - 1)) + 1 /\ 1 .. p = (1 .. p - 1) \cup {p}
       /\ Before(d) + p > Before(d) + (p - 1)
  <2>1. Len(d.cells) \in Nat
    BY <1>1
  <2> QED BY <1>1, <2>1
<1>2. /\ graph' = h /\ output_nets' = made.nets
      /\ cstr_bits_seen' = (seen \cup ToSet(c.ins)) \cup ToSet(c.outs)
      /\ position' = p + 1 /\ design' = d /\ stage' = stage
      /\ calls' = calls /\ marked' = marked /\ written' = written
  BY Zenon DEF ImportCell, Import, walkVars
<1>3. NodeImported(g, nets, made, "skip", c.name, c.ins, c.outs)
  <2> DEFINE type == "skip"
  <2>1. type \in NodeTypes /\ type # "input"
    BY DEF NodeTypes
  <2>2. Imported(g, nets)
    BY <1>0 DEF CellsInv
  <2> HIDE DEF type, c
  <2>3. NodeImported(g, nets, NamedNode(type, c.name, c.ins, c.outs), type, c.name, c.ins, c.outs)
    BY <1>1, <2>1, <2>2, NamedNodeIs
  <2> QED BY <2>3 DEF type
<1> HIDE DEF made, c, d, g, nets, seen, p
<1>4. /\ Imported(h, made.nets) /\ LastNode(h) = N /\ Grows(g, h, N)
      /\ NodeIs(h, N, "skip", c.name, c.ins, c.outs)
      /\ DOMAIN made.nets = DOMAIN nets \cup ToSet(c.outs)
  BY <1>3 DEF NodeImported
<1>5. /\ Imported(g, nets) /\ Fresh(g) /\ Fresh(h) /\ Layout(g, d, p - 1, 0)
      /\ LastNode(g) = Before(d) + (p - 1) /\ N = Before(d) + p
  BY <1>0, <1>1a, <1>4 DEF CellsInv, Imported
<1>6. /\ \A i \in 1 .. SourceCount(d) : SourceHas(h, d, i)
      /\ \A i \in 1 .. Len(d.outputs) : OutputHas(h, d, i)
      /\ \A i \in 1 .. (p - 1) : CellHas(h, d, i)
  <2>1. 0 \in Nat
    OBVIOUS
  <2> HIDE DEF h
  <2> QED BY <1>1, <1>1a, <1>4, <1>5, <2>1, LayoutKept, Zenon
<1>7. CellHas(h, d, p)
  <2>1. h.nodes[N].live
    BY <1>4, <1>5, Zenon DEF Fresh, NodeIs, NodeHas
  <2> QED BY <1>4, <1>5, <2>1 DEF CellHas, c
<1>8. Layout(h, d, p, 0)
  <2>1. DOMAIN h.nodes = 1 .. LastNode(h) /\ LastNode(h) \in Nat
    BY <1>5, GraphType DEF Fresh
  <2>2. \A n \in DOMAIN h.nodes : ~(n > Before(d) + p)
    BY <1>1, <1>1a, <1>4, <1>5, <2>1
  <2>3. LastNode(h) >= Before(d) + p
    BY <1>1, <1>1a, <1>4, <1>5
  <2> QED BY <1>1a, <1>6, <1>7, <2>2, <2>3 DEF Layout
<1>9. /\ ImportedCells(d, p) = ImportedCells(d, p - 1) \cup (ToSet(c.ins) \cup ToSet(c.outs))
      /\ ImportedOutputs(d, p) = ImportedOutputs(d, p - 1) \cup ToSet(c.outs)
  <2> DEFINE Both(i) == ToSet(d.cells[i].ins) \cup ToSet(d.cells[i].outs)
             Outs(i) == ToSet(d.cells[i].outs)
  <2>1. UNION {Both(i) : i \in 1 .. p} = (UNION {Both(i) : i \in 1 .. p - 1}) \cup Both(p)
    <3> HIDE DEF Both
    <3> QED BY <1>1a
  <2>2. UNION {Outs(i) : i \in 1 .. p} = (UNION {Outs(i) : i \in 1 .. p - 1}) \cup Outs(p)
    <3> HIDE DEF Outs
    <3> QED BY <1>1a
  <2> QED BY <2>1, <2>2 DEF ImportedCells, ImportedOutputs, c
<1>10. CellsInv(h, d, made.nets, (seen \cup ToSet(c.ins)) \cup ToSet(c.outs), p)
  <2> DEFINE s == (seen \cup ToSet(c.ins)) \cup ToSet(c.outs)
  <2>1. DOMAIN nets \subseteq seen \cup Constants3
        /\ ToSet(d.inputs) \cup ToSet(d.outputs) \cup ImportedCells(d, p - 1) \subseteq seen
        /\ ToSet(SourceBits(d)) \cup ImportedOutputs(d, p - 1) \subseteq DOMAIN nets
    BY <1>0 DEF CellsInv
  <2>2. DOMAIN made.nets \subseteq s \cup Constants3
    BY <1>4, <2>1
  <2>3. ToSet(d.inputs) \cup ToSet(d.outputs) \cup ImportedCells(d, p) \subseteq s
    BY <1>9, <2>1
  <2>4. ToSet(SourceBits(d)) \cup ImportedOutputs(d, p) \subseteq DOMAIN made.nets
    BY <1>4, <1>9, <2>1
  <2> QED BY <1>4, <1>5, <1>8, <2>2, <2>3, <2>4 DEF CellsInv
<1>11. /\ design' \in Designs /\ stage' = "cells" /\ position' \in 1 .. Len(design'.cells) + 1
       /\ CellsInv(graph', design', output_nets', cstr_bits_seen', position' - 1)
       /\ calls' = <<>> /\ marked' = {} /\ written' = Nothing
  BY <1>0, <1>1a, <1>2, <1>10
<1> QED BY <1>11 DEF ImportInv

(* The cells are imported, and no connection yet.                          *)
LEMMA LastCellKeeps ==
  ASSUME ImportInv, LastCell
  PROVE  ImportInv'
<1> DEFINE d == design
           g == graph
           nets == output_nets
           seen == cstr_bits_seen
           C == Len(d.cells)
<1>0. /\ d \in Designs /\ stage = "cells" /\ position \notin DOMAIN d.cells
      /\ position \in 1 .. C + 1
      /\ CellsInv(g, d, nets, seen, position - 1)
      /\ calls = <<>> /\ marked = {} /\ written = Nothing
  BY DEF ImportInv, LastCell
<1>1. /\ stage' = "connections" /\ position' = 1 /\ design' = d /\ graph' = g
      /\ output_nets' = nets /\ cstr_bits_seen' = seen
      /\ calls' = calls /\ marked' = marked /\ written' = written
  BY DEF LastCell, importVars, walkVars
<1> HIDE DEF d, g, nets, seen, C
<1>2. DOMAIN d.cells = 1 .. C /\ C \in Nat /\ Len(d.connections) \in Nat /\ Before(d) \in Nat
  BY <1>0, DesignFacts DEF C
<1>3. position - 1 = C
  BY <1>0, <1>2
<1>4. /\ Imported(g, nets) /\ Layout(g, d, C, 0) /\ LastNode(g) = Before(d) + C
      /\ DOMAIN nets \subseteq seen \cup Constants3
      /\ ToSet(d.inputs) \cup ToSet(d.outputs) \cup ImportedCells(d, C) \subseteq seen
      /\ ToSet(SourceBits(d)) \cup ImportedOutputs(d, C) \subseteq DOMAIN nets
  BY <1>0, <1>3 DEF CellsInv
<1>5. \A n \in DOMAIN g.nodes : g.nodes[n].type # "buf"
  <2> TAKE n \in DOMAIN g.nodes
  <2>1. Fresh(g)
    BY <1>4 DEF Imported
  <2>2. n <= Before(d) + C
    BY <1>4, <2>1, GraphType DEF Fresh
  <2> QED BY <1>0, <1>2, <1>4, <2>1, <2>2, OtherNodes
<1>6. BuffersMade(g, d, nets, 0) /\ Seen(g, d, nets, seen, 0)
  BY <1>4, <1>5 DEF BuffersMade, Seen
<1>7. MentionedBits(d) \subseteq seen
  <2>1. \A c \in ToSet(d.cells) : \E i \in 1 .. C : c = d.cells[i]
    BY <1>2 DEF ToSet
  <2>2. UNION {ToSet(c.ins) \cup ToSet(c.outs) : c \in ToSet(d.cells)} \subseteq ImportedCells(d, C)
    BY <2>1 DEF ImportedCells
  <2> QED BY <1>4, <2>2 DEF MentionedBits
<1>8. CellOutputs(d) \subseteq ImportedOutputs(d, C)
  BY <1>2 DEF CellOutputs, ImportedOutputs
<1>9. ConnectionsInv(g, d, nets, seen, 0)
  BY <1>4, <1>6, <1>7, <1>8 DEF ConnectionsInv, C
<1>10. position' - 1 = 0 /\ position' \in 1 .. Len(d.connections) + 1
  BY <1>1, <1>2
<1> QED BY <1>0, <1>1, <1>9, <1>10 DEF ImportInv

(* A connection of a design.                                               *)
LEMMA ConnectionFacts ==
  ASSUME NEW d \in Designs, NEW k \in DOMAIN d.connections
  PROVE  /\ d.connections[k][1] \in Names /\ d.connections[k][2] \in Names
         /\ d.connections[k][1] \notin ToSet(d.inputs) \cup Constants3
         /\ \A j \in DOMAIN d.connections : d.connections[j][1] = d.connections[k][1] => j = k
         /\ DOMAIN d.connections = 1 .. Len(d.connections)
<1>1. d.connections \in Seq(Names \X Names)
  BY DesignFacts
<1>2. d.connections[k] \in Names \X Names /\ d.connections[k] \in ToSet(d.connections)
      /\ DOMAIN d.connections = 1 .. Len(d.connections)
  BY <1>1 DEF ToSet
<1>3. IsDesign(d)
  BY DesignsAssumption
<1>4. \A i, j \in DOMAIN d.connections : d.connections[i][1] = d.connections[j][1] => i = j
  BY <1>3 DEF IsDesign
<1>5. \A m \in ToSet(d.connections) : m[1] \notin ToSet(d.inputs) \cup Constants3
  BY <1>3 DEF IsDesign
<1> QED BY <1>2, <1>4, <1>5

(* The buffers before and after an import.                                 *)
LEMMA BufferBefore ==
  ASSUME NEW g, Fresh(g), NEW d \in Designs, NEW c \in Nat, NEW k, Layout(g, d, c, k),
         NEW n \in DOMAIN g.nodes, g.nodes[n].type = "buf"
  PROVE  \E j \in 1 .. k : BufferFor(g, d, n, j)
<1>1. ~(n <= Before(d) + c)
  BY OtherNodes
<1>2. n \in Nat /\ Before(d) + c \in Nat
  BY DesignFacts, GraphType DEF Fresh
<1>3. n > Before(d) + c
  BY <1>1, <1>2
<1> QED BY <1>3 DEF Layout, Fresh

(* A connection that nothing has asked for is left out.                    *)
LEMMA SkipConnection ==
  ASSUME NEW g, NEW d \in Designs, NEW nets, NEW seen, NEW k \in Nat,
         ConnectionsInv(g, d, nets, seen, k), k + 1 \in DOMAIN d.connections,
         d.connections[k + 1][1] \notin seen
  PROVE  ConnectionsInv(g, d, nets, seen, k + 1)
<1> DEFINE l == d.connections[k + 1][1]
<1>1. 1 .. (k + 1) = (1 .. k) \cup {k + 1} /\ \A i \in 1 .. k : i .. (k + 1) = (i .. k) \cup {k + 1}
  OBVIOUS
<1>2. /\ Imported(g, nets)
      /\ Layout(g, d, Len(d.cells), k)
      /\ BuffersMade(g, d, nets, k)
      /\ Seen(g, d, nets, seen, k)
      /\ MentionedBits(d) \subseteq seen
      /\ ToSet(SourceBits(d)) \cup CellOutputs(d) \subseteq DOMAIN nets
  BY DEF ConnectionsInv
<1>3. l \notin DOMAIN nets
  <2>1. l \notin Constants3
    BY ConnectionFacts
  <2> QED BY <1>2, <2>1 DEF Seen
<1>4. Layout(g, d, Len(d.cells), k + 1)
  BY <1>1, <1>2 DEF Layout
<1>5. BuffersMade(g, d, nets, k + 1)
  BY <1>1, <1>2, <1>3 DEF BuffersMade
<1>6. Seen(g, d, nets, seen, k + 1)
  <2>1. \A j \in 1 .. (k + 1) : d.connections[j][1] \in MentionedBits(d)
          => d.connections[j][1] \in DOMAIN nets
    BY <1>1, <1>2 DEF Seen
  <2>2. ASSUME NEW n \in DOMAIN g.nodes, g.nodes[n].type = "buf"
        PROVE  \E i \in 1 .. (k + 1) :
                 /\ BufferFor(g, d, n, i) /\ d.connections[i][2] \in seen
                 /\ \A j \in i .. (k + 1) : d.connections[j][1] = d.connections[i][2]
                      => d.connections[j][1] \in DOMAIN nets
    <3>1. PICK i \in 1 .. k : /\ BufferFor(g, d, n, i) /\ d.connections[i][2] \in seen
                 /\ \A j \in i .. k : d.connections[j][1] = d.connections[i][2]
                      => d.connections[j][1] \in DOMAIN nets
      BY <1>2, <2>2 DEF Seen
    <3>2. \A j \in i .. (k + 1) : d.connections[j][1] = d.connections[i][2]
                      => d.connections[j][1] \in DOMAIN nets
      BY <1>1, <3>1
    <3> QED BY <1>1, <3>1, <3>2
  <2> QED BY <1>2, <2>1, <2>2 DEF Seen
<1> QED BY <1>2, <1>4, <1>5, <1>6 DEF ConnectionsInv

(* A connection becomes a buffer that reads its right-hand side and drives *)
(* its left-hand side.                                                     *)
LEMMA MakeBuffer ==
  ASSUME NEW g, NEW d \in Designs, NEW nets, NEW seen, NEW k \in Nat,
         ConnectionsInv(g, d, nets, seen, k), k + 1 \in DOMAIN d.connections,
         d.connections[k + 1][1] \in seen, NEW made,
         NodeImported(g, nets, made, "buf", d.connections[k + 1][1],
                      <<d.connections[k + 1][2]>>, <<d.connections[k + 1][1]>>)
  PROVE  ConnectionsInv(made.graph, d, made.nets,
                        seen \cup {d.connections[k + 1][2], d.connections[k + 1][1]}, k + 1)
<1> DEFINE l == d.connections[k + 1][1]
           r == d.connections[k + 1][2]
           h == made.graph
           N == LastNode(g) + 1
           C == Len(d.cells)
           late == seen \cup {r, l}
<1>1. 1 .. (k + 1) = (1 .. k) \cup {k + 1} /\ \A i \in 1 .. k : i .. (k + 1) = (i .. k) \cup {k + 1}
      /\ (k + 1) .. (k + 1) = {k + 1} /\ k + 1 \in Nat
  OBVIOUS
<1>2. /\ Imported(g, nets) /\ Fresh(g)
      /\ Layout(g, d, C, k)
      /\ BuffersMade(g, d, nets, k)
      /\ Seen(g, d, nets, seen, k)
      /\ MentionedBits(d) \subseteq seen
      /\ ToSet(SourceBits(d)) \cup CellOutputs(d) \subseteq DOMAIN nets
  BY DEF ConnectionsInv, Imported
<1>3. /\ Imported(h, made.nets) /\ LastNode(h) = N /\ Grows(g, h, N)
      /\ NodeIs(h, N, "buf", l, <<r>>, <<l>>)
      /\ DOMAIN made.nets = DOMAIN nets \cup ToSet(<<l>>) /\ Fresh(h)
  BY DEF NodeImported, Imported
<1>4. DOMAIN made.nets = DOMAIN nets \cup {l}
  BY <1>3 DEF ToSet
<1>5. C \in Nat /\ Before(d) \in Nat
  BY DesignFacts
<1>6. /\ \A j \in 1 .. k : d.connections[j][1] # l
      /\ k + 1 \in 1 .. Len(d.connections) /\ DOMAIN d.connections = 1 .. Len(d.connections)
  <2>1. /\ \A j \in DOMAIN d.connections : d.connections[j][1] = l => j = k + 1
        /\ DOMAIN d.connections = 1 .. Len(d.connections) /\ Len(d.connections) \in Nat
    BY ConnectionFacts, DesignFacts
  <2>2. \A j \in 1 .. k : j \in DOMAIN d.connections /\ j # k + 1
    BY <2>1
  <2> QED BY <2>1, <2>2
<1> HIDE DEF h, N, C, l, r, late
<1>7. BufferFor(h, d, N, k + 1)
  BY <1>3 DEF BufferFor, l, r
<1>8. /\ \A i \in 1 .. SourceCount(d) : SourceHas(h, d, i)
      /\ \A i \in 1 .. Len(d.outputs) : OutputHas(h, d, i)
      /\ \A i \in 1 .. C : CellHas(h, d, i)
      /\ \A n \in DOMAIN g.nodes : n > Before(d) + C
              => \E j \in 1 .. k : BufferFor(h, d, n, j)
      /\ LastNode(h) >= Before(d) + C
  BY <1>2, <1>3, <1>5, LayoutKept DEF N
<1>9. DOMAIN h.nodes = DOMAIN g.nodes \cup {N} /\ N \notin DOMAIN g.nodes
  BY <1>2, <1>3, GraphType DEF Fresh, N
<1>10. Layout(h, d, C, k + 1)
  <2>1. \A n \in DOMAIN h.nodes : n > Before(d) + C /\ h.nodes[n].live
       => \E j \in 1 .. (k + 1) : BufferFor(h, d, n, j)
    BY <1>1, <1>7, <1>8, <1>9
  <2> QED BY <1>8, <2>1 DEF Layout
<1>11. \A n \in DOMAIN g.nodes : h.nodes[n].type = g.nodes[n].type /\ h.nodes[n].name = g.nodes[n].name
  BY <1>3, <1>9, Zenon DEF Grows
<1>12. h.nodes[N].type = "buf" /\ h.nodes[N].name = l
  BY <1>3 DEF NodeIs, NodeHas
<1>13. \A n \in DOMAIN g.nodes, j \in 1 .. k : BufferFor(g, d, n, j) => BufferFor(h, d, n, j)
  BY <1>2, <1>3, NodeIsKept DEF BufferFor, N
<1>14. \A n \in DOMAIN g.nodes : g.nodes[n].type = "buf" => g.nodes[n].name # l
  <2> TAKE n \in DOMAIN g.nodes
  <2> HAVE g.nodes[n].type = "buf"
  <2>1. PICK j \in 1 .. k : BufferFor(g, d, n, j)
    BY <1>2, <1>5, BufferBefore, Zenon
  <2>2. g.nodes[n].name = d.connections[j][1]
    BY <2>1 DEF BufferFor, NodeIs, NodeHas
  <2> QED BY <1>6, <2>2
<1>15. BuffersMade(h, d, made.nets, k + 1)
  <2>1. ASSUME NEW j \in 1 .. (k + 1), d.connections[j][1] \in DOMAIN made.nets
        PROVE  \E n \in DOMAIN h.nodes : BufferFor(h, d, n, j)
    <3>1. CASE j = k + 1
      BY <1>7, <1>9, <3>1
    <3>2. CASE j # k + 1
      <4>1. j \in 1 .. k
        BY <1>1, <3>2
      <4>2. d.connections[j][1] \in DOMAIN nets
        BY <1>4, <1>6, <2>1, <4>1
      <4>3. PICK n \in DOMAIN g.nodes : BufferFor(g, d, n, j)
        BY <1>2, <4>1, <4>2 DEF BuffersMade
      <4> QED BY <1>9, <1>13, <4>1, <4>3
    <3> QED BY <3>1, <3>2
  <2>2. ASSUME NEW m \in DOMAIN h.nodes, NEW n \in DOMAIN h.nodes,
               h.nodes[m].type = "buf", h.nodes[n].type = "buf", h.nodes[m].name = h.nodes[n].name
        PROVE  m = n
    <3>1. CASE m = N /\ n # N
      BY <1>9, <1>11, <1>12, <1>14, <2>2, <3>1
    <3>2. CASE n = N /\ m # N
      BY <1>9, <1>11, <1>12, <1>14, <2>2, <3>2
    <3>3. CASE m # N /\ n # N
      BY <1>2, <1>9, <1>11, <2>2, <3>3 DEF BuffersMade
    <3> QED BY <3>1, <3>2, <3>3
  <2> QED BY <2>1, <2>2 DEF BuffersMade
<1>16. Seen(h, d, made.nets, late, k + 1)
  <2>1. DOMAIN nets \subseteq seen \cup Constants3
    BY <1>2 DEF Seen
  <2>2. DOMAIN made.nets \subseteq late \cup Constants3
    BY <1>4, <2>1 DEF late
  <2>3. \A j \in 1 .. (k + 1) : d.connections[j][1] \in MentionedBits(d)
          => d.connections[j][1] \in DOMAIN made.nets
    BY <1>1, <1>2, <1>4 DEF Seen, l
  <2>4. ASSUME NEW n \in DOMAIN h.nodes, h.nodes[n].type = "buf"
        PROVE  \E i \in 1 .. (k + 1) :
                 /\ BufferFor(h, d, n, i) /\ d.connections[i][2] \in late
                 /\ \A j \in i .. (k + 1) : d.connections[j][1] = d.connections[i][2]
                      => d.connections[j][1] \in DOMAIN made.nets
    <3>1. CASE n = N
      <4>1. \A j \in (k + 1) .. (k + 1) : d.connections[j][1] \in DOMAIN made.nets
        BY <1>1, <1>4 DEF l
      <4>2. k + 1 \in 1 .. (k + 1) /\ d.connections[k + 1][2] \in late
        BY <1>1 DEF r, late
      <4> QED BY <1>7, <3>1, <4>1, <4>2
    <3>2. CASE n # N
      <4>1. n \in DOMAIN g.nodes /\ g.nodes[n].type = "buf"
        BY <1>9, <1>11, <2>4, <3>2
      <4>2. PICK i \in 1 .. k : /\ BufferFor(g, d, n, i) /\ d.connections[i][2] \in seen
                 /\ \A j \in i .. k : d.connections[j][1] = d.connections[i][2]
                      => d.connections[j][1] \in DOMAIN nets
        BY <1>2, <4>1 DEF Seen
      <4>3. \A j \in i .. (k + 1) : d.connections[j][1] = d.connections[i][2]
                      => d.connections[j][1] \in DOMAIN made.nets
        BY <1>1, <1>4, <4>2 DEF l
      <4>4. BufferFor(h, d, n, i)
        BY <1>13, <4>1, <4>2
      <4> QED BY <1>1, <4>2, <4>3, <4>4 DEF late
    <3> QED BY <3>1, <3>2
  <2> QED BY <2>2, <2>3, <2>4 DEF Seen
<1>17. MentionedBits(d) \subseteq late /\ ToSet(SourceBits(d)) \cup CellOutputs(d) \subseteq DOMAIN made.nets
  BY <1>2, <1>4 DEF late
<1>18. ConnectionsInv(h, d, made.nets, late, k + 1)
  BY <1>3, <1>10, <1>15, <1>16, <1>17 DEF ConnectionsInv, C
<1> QED BY <1>18 DEF h, late, l, r

(* Importing a connection, or leaving it out, keeps what is known of the   *)
(* import.                                                                 *)
LEMMA ImportConnectionKeeps ==
  ASSUME ImportInv, ImportConnection
  PROVE  ImportInv'
<1> DEFINE d == design
           g == graph
           nets == output_nets
           seen == cstr_bits_seen
           p == position
           m == d.connections[p]
           l == m[1]
           r == m[2]
           ins == <<r>>
           outs == <<l>>
           made == NamedNode("buf", l, ins, outs)
<1>0. /\ d \in Designs /\ stage = "connections" /\ p \in DOMAIN d.connections
      /\ p \in 1 .. Len(d.connections) + 1
      /\ ConnectionsInv(g, d, nets, seen, p - 1)
      /\ calls = <<>> /\ marked = {} /\ written = Nothing
  BY DEF ImportInv, ImportConnection
<1>1. p \in 1 .. Len(d.connections) /\ Len(d.connections) \in Nat
      /\ l \in Names /\ r \in Names /\ ins \in Seq(Names) /\ outs \in Seq(Names)
  <2>1. l \in Names /\ r \in Names /\ DOMAIN d.connections = 1 .. Len(d.connections)
    BY <1>0, ConnectionFacts
  <2>2. Len(d.connections) \in Nat
    BY <1>0, DesignFacts
  <2> QED BY <1>0, <2>1, <2>2
<1>2. p \in Nat /\ p - 1 \in Nat /\ (p - 1) + 1 = p /\ (p + 1) - 1 = p
      /\ p + 1 \in 1 .. Len(d.connections) + 1
  BY <1>1
<1>3. /\ IF l \in seen
         THEN /\ graph' = made.graph /\ output_nets' = made.nets
              /\ cstr_bits_seen' = (seen \cup ToSet(ins)) \cup ToSet(outs)
         ELSE graph' = g /\ output_nets' = nets /\ cstr_bits_seen' = seen
      /\ position' = p + 1 /\ design' = d /\ stage' = stage
      /\ calls' = calls /\ marked' = marked /\ written' = written
  BY Zenon DEF ImportConnection, Import, Wanted, importVars, walkVars
<1>4. (seen \cup ToSet(ins)) \cup ToSet(outs) = seen \cup {r, l}
  BY DEF ToSet
<1>5. NodeImported(g, nets, made, "buf", l, ins, outs)
  <2> DEFINE type == "buf"
  <2>1. type \in NodeTypes /\ type # "input"
    BY DEF NodeTypes
  <2>2. Imported(g, nets)
    BY <1>0 DEF ConnectionsInv
  <2> HIDE DEF type, ins, outs, l
  <2>3. NodeImported(g, nets, NamedNode(type, l, ins, outs), type, l, ins, outs)
    BY <1>1, <2>1, <2>2, NamedNodeIs
  <2> QED BY <2>3 DEF type
<1> HIDE DEF made, d, g, nets, seen, p
<1>6. ConnectionsInv(graph', d, output_nets', cstr_bits_seen', p)
  <2> DEFINE k == p - 1
  <2>1. k \in Nat /\ k + 1 = p /\ k + 1 \in DOMAIN d.connections
    BY <1>0, <1>2
  <2>2. ConnectionsInv(g, d, nets, seen, k)
    BY <1>0
  <2> HIDE DEF k
  <2>3. CASE l \in seen
    <3>1. NodeImported(g, nets, made, "buf", d.connections[k + 1][1],
                      <<d.connections[k + 1][2]>>, <<d.connections[k + 1][1]>>)
      BY <1>5, <2>1
    <3>2. ConnectionsInv(made.graph, d, made.nets,
                        seen \cup {d.connections[k + 1][2], d.connections[k + 1][1]}, k + 1)
      BY <1>0, <2>1, <2>2, <2>3, <3>1, MakeBuffer
    <3>3. graph' = made.graph /\ output_nets' = made.nets /\ cstr_bits_seen' = seen \cup {r, l}
      BY <1>3, <1>4, <2>3
    <3> QED BY <2>1, <3>2, <3>3
  <2>4. CASE l \notin seen
    <3>1. ConnectionsInv(g, d, nets, seen, k + 1)
      BY <1>0, <2>1, <2>2, <2>4, SkipConnection
    <3> QED BY <1>3, <2>1, <2>4, <3>1
  <2> QED BY <2>3, <2>4
<1>7. /\ design' \in Designs /\ stage' = "connections" /\ position' \in 1 .. Len(design'.connections) + 1
       /\ ConnectionsInv(graph', design', output_nets', cstr_bits_seen', position' - 1)
       /\ calls' = <<>> /\ marked' = {} /\ written' = Nothing
  BY <1>0, <1>2, <1>3, <1>6
<1> QED BY <1>7 DEF ImportInv

(* All connections have been looked at.                                    *)
LEMMA LastConnectionKeeps ==
  ASSUME ImportInv, LastConnection
  PROVE  ImportInv'
<1>1. /\ stage = "connections" /\ position \notin DOMAIN design.connections
      /\ position \in 1 .. Len(design.connections) + 1 /\ design \in Designs
      /\ ConnectionsInv(graph, design, output_nets, cstr_bits_seen, position - 1)
      /\ calls = <<>> /\ marked = {} /\ written = Nothing
  BY DEF ImportInv, LastConnection
<1>2. /\ stage' = "hook_up" /\ design' = design /\ graph' = graph
      /\ output_nets' = output_nets /\ cstr_bits_seen' = cstr_bits_seen
      /\ calls' = calls /\ marked' = marked /\ written' = written
  BY DEF LastConnection, importVars, walkVars
<1>3. position - 1 = Len(design.connections)
  <2>1. design.connections \in Seq(Names \X Names)
    BY <1>1, DesignFacts
  <2>2. DOMAIN design.connections = 1 .. Len(design.connections) /\ Len(design.connections) \in Nat
    BY <2>1
  <2> QED BY <1>1, <2>2
<1> QED BY <1>1, <1>2, <1>3 DEF ImportInv

-----------------------------------------------------------------------------
(* What edges lead to.                                                     *)

Grown(v, edges) == v \cup {e[2] : e \in {e \in edges : e[1] \in v}}

IsKnown(f, from, edges) ==
  /\ f[0] = from
  /\ \A k \in 1 .. Cardinality(edges) : f[k] = Grown(f[k - 1], edges)
  /\ ClosureOf(from, edges) = f[Cardinality(edges)]

(* The closure is computed step by step.                                   *)
LEMMA FoldClosure ==
  ASSUME NEW from, NEW edges, Cardinality(edges) \in Nat
  PROVE  \E f : IsKnown(f, from, edges)
<1> DEFINE n == Cardinality(edges)
           Steps(f, k) == f[0] = from /\ \A j \in 1 .. k : f[j] = Grown(f[j - 1], edges)
           Rest(f) == [k \in 0 .. n |-> UNION {v \cup {e[2] : e \in {e \in edges : e[1] \in v}} : v \in {f[k - 1]}}]
           Is(f) == f = [k \in 0 .. n |-> IF k = 0 THEN from
                           ELSE UNION {v \cup {e[2] : e \in {e \in edges : e[1] \in v}} : v \in {f[k - 1]}}]
           S == {k \in Nat : \E f : Steps(f, k)}
<1>1. ClosureOf(from, edges) = (CHOOSE f : Is(f))[n]
  BY Zenon DEF ClosureOf
<1>2. \A f : \A k \in 0 .. n : Rest(f)[k] = Grown(f[k - 1], edges)
  <2> TAKE f
  <2> TAKE k \in 0 .. n
  <2>1. UNION {v \cup {e[2] : e \in {e \in edges : e[1] \in v}} : v \in {f[k - 1]}}
          = f[k - 1] \cup {e[2] : e \in {e \in edges : e[1] \in f[k - 1]}}
    OBVIOUS
  <2> QED BY <2>1 DEF Grown
<1>3. \A f : Is(f) <=> f = [k \in 0 .. n |-> IF k = 0 THEN from ELSE Rest(f)[k]]
  OBVIOUS
<1> HIDE DEF Rest, Is
<1>4. 0 \in S
  <2>1. Steps([j \in {0} |-> from], 0)
    OBVIOUS
  <2> QED BY <2>1
<1>5. ASSUME NEW k \in S PROVE k + 1 \in S
  <2>1. PICK f : Steps(f, k)
    OBVIOUS
  <2> DEFINE g == [j \in 0 .. k + 1 |-> IF j = k + 1 THEN Grown(f[k], edges) ELSE f[j]]
  <2>2. \A j \in 1 .. k + 1 : IF j = k + 1 THEN j - 1 = k ELSE j \in 1 .. k
    OBVIOUS
  <2>3. g[0] = from /\ \A j \in 1 .. k + 1 : /\ g[j - 1] = f[j - 1]
                                             /\ g[j] = IF j = k + 1 THEN Grown(f[k], edges) ELSE f[j]
    BY <2>1
  <2>4. \A j \in 1 .. k + 1 : g[j] = Grown(f[j - 1], edges)
    <3> HIDE DEF g
    <3> QED BY <2>1, <2>2, <2>3
  <2> HIDE DEF g
  <2>5. Steps(g, k + 1)
    BY <2>3, <2>4
  <2> QED BY <2>5
<1>6. n \in S
  <2>1. S \in SUBSET Nat
    OBVIOUS
  <2> HIDE DEF S
  <2> QED BY <1>4, <1>5, <2>1, SetInduction
<1>7. PICK f : Steps(f, n)
  BY <1>6
<1>8. \E h : Is(h)
  <2> DEFINE h == [k \in 0 .. n |-> f[k]]
  <2>1. \A k \in 0 .. n : h[k] = f[k] /\ (k # 0 => k \in 1 .. n /\ h[k - 1] = f[k - 1])
    OBVIOUS
  <2>2. \A k \in 0 .. n : f[k] = IF k = 0 THEN from ELSE Rest(h)[k]
    BY <1>2, <1>7, <2>1
  <2> QED BY <1>3, <2>2
<1>9. Is(CHOOSE f2 : Is(f2))
  BY <1>8, Zenon
<1>10. \A h : Is(h) => Steps(h, n)
  <2> TAKE h
  <2>1. \A k \in 1 .. n : k \in 0 .. n /\ k # 0
    OBVIOUS
  <2>2. h = [k \in 0 .. n |-> IF k = 0 THEN from ELSE Rest(h)[k]]
          => h[0] = from /\ \A k \in 1 .. n : h[k] = Rest(h)[k]
    OBVIOUS
  <2> QED BY <1>2, <1>3, <2>1, <2>2
<1> QED BY <1>1, <1>9, <1>10 DEF IsKnown

(* A set that edges do not lead out of.                                    *)
Closed(v, edges) == \A e \in edges : e[1] \in v => e[2] \in v

(* So many steps as there are edges are enough: each but the last goes     *)
(* along an edge that no step before it could take.                        *)
LEMMA ClosureFacts ==
  ASSUME NEW from, NEW edges, IsFiniteSet(edges)
  PROVE  /\ from \subseteq ClosureOf(from, edges)
         /\ Closed(ClosureOf(from, edges), edges)
         /\ \A v : from \subseteq v /\ Closed(v, edges) => ClosureOf(from, edges) \subseteq v
<1> DEFINE n == Cardinality(edges)
<1>0. n \in Nat
  BY FS_CardinalityType
<1>1. PICK f : /\ f[0] = from
               /\ \A k \in 1 .. n : f[k] = Grown(f[k - 1], edges)
               /\ ClosureOf(from, edges) = f[n]
  <2>1. PICK f : IsKnown(f, from, edges)
    BY <1>0, FoldClosure
  <2> QED BY <2>1 DEF IsKnown
<1> DEFINE Used(k) == {e \in edges : e[1] \in f[k]}
<1>1a. ASSUME NEW k \in 0 .. n - 1
       PROVE f[k + 1] = Grown(f[k], edges)
  <2>1. k + 1 \in 1 .. n /\ (k + 1) - 1 = k
    BY <1>0
  <2> QED BY <1>1, <2>1
<1> DEFINE T == {k \in Nat : from \subseteq f[k]}
<1>2. from \subseteq f[n]
  <2>1. 0 \in T
    BY <1>1
  <2>2. \A k \in 0 .. n - 1 : k \in T => k + 1 \in T
    BY <1>1a DEF Grown
  <2> HIDE DEF T
  <2>3. n \in T
    BY <1>0, <2>1, <2>2, InductionUpto
  <2> QED BY <2>3 DEF T
<1>3. ASSUME NEW v, from \subseteq v, Closed(v, edges) PROVE f[n] \subseteq v
  <2> DEFINE V == {k \in Nat : f[k] \subseteq v}
  <2>1. 0 \in V
    BY <1>1, <1>3
  <2>2. ASSUME NEW k \in 0 .. n - 1, k \in V PROVE k + 1 \in V
    <3>1. f[k + 1] \subseteq v
      BY <1>1a, <1>3, <2>2 DEF Grown, Closed
    <3> QED BY <2>2, <3>1
  <2> HIDE DEF V
  <2>3. n \in V
    BY <1>0, <2>1, <2>2, InductionUpto
  <2> QED BY <2>3 DEF V
<1> DEFINE W == {k \in Nat : Closed(f[k], edges) \/ Cardinality(Used(k)) >= k + 1}
<1>4. \A k \in Nat : IsFiniteSet(Used(k)) /\ Cardinality(Used(k)) \in Nat
                     /\ Cardinality(Used(k)) <= n
  <2> TAKE k \in Nat
  <2>1. Used(k) \in SUBSET edges
    OBVIOUS
  <2> HIDE DEF Used
  <2> QED BY <2>1, FS_Subset, FS_CardinalityType
<1>5. 0 \in W
  <2>1. CASE Used(0) = {}
    BY <2>1 DEF Closed
  <2>2. CASE Used(0) # {}
    <3>1. Cardinality(Used(0)) # 0
      BY <1>4, <2>2, FS_EmptySet
    <3> QED BY <1>4, <3>1
  <2> QED BY <2>1, <2>2
<1>6. ASSUME NEW k \in 0 .. n - 1, k \in W PROVE k + 1 \in W
  <2>0. k \in Nat /\ k + 1 \in Nat
    OBVIOUS
  <2>1. f[k + 1] = Grown(f[k], edges)
    BY <1>1a
  <2>2. CASE Closed(f[k], edges)
    <3>1. f[k + 1] = f[k]
      BY <2>1, <2>2 DEF Grown, Closed
    <3> QED BY <2>0, <2>2, <3>1
  <2>3. CASE ~Closed(f[k], edges)
    <3>1. Cardinality(Used(k)) >= k + 1
      BY <1>6, <2>3
    <3>2. Used(k) \in SUBSET Used(k + 1)
      BY <2>1 DEF Grown
    <3>3. CASE Used(k) = Used(k + 1)
      <4>1. Closed(f[k + 1], edges)
        BY <2>1, <3>3 DEF Closed, Grown
      <4> QED BY <2>0, <4>1
    <3>4. CASE Used(k) # Used(k + 1)
      <4>1. Cardinality(Used(k)) <= Cardinality(Used(k + 1))
            /\ Cardinality(Used(k)) # Cardinality(Used(k + 1))
        <5> HIDE DEF Used
        <5> QED BY <1>4, <2>0, <3>2, <3>4, FS_Subset
      <4>2. Cardinality(Used(k)) \in Nat /\ Cardinality(Used(k + 1)) \in Nat
        BY <1>4, <2>0
      <4>3. Cardinality(Used(k + 1)) >= (k + 1) + 1
        <5> DEFINE a == Cardinality(Used(k))
                   b == Cardinality(Used(k + 1))
        <5>1. a \in Nat /\ b \in Nat /\ a >= k + 1 /\ a <= b /\ a # b
          BY <3>1, <4>1, <4>2
        <5> HIDE DEF a, b
        <5>2. b >= (k + 1) + 1
          BY <2>0, <5>1
        <5> QED BY <5>2 DEF b
      <4> QED BY <2>0, <4>3
    <3> QED BY <3>3, <3>4
  <2> QED BY <2>2, <2>3
<1>7. Closed(f[n], edges)
  <2> HIDE DEF W
  <2>1. n \in W
    BY <1>0, <1>5, <1>6, InductionUpto
  <2>2. Closed(f[n], edges) \/ Cardinality(Used(n)) >= n + 1
    BY <2>1 DEF W
  <2>3. Cardinality(Used(n)) <= n /\ Cardinality(Used(n)) \in Nat
    BY <1>0, <1>4
  <2> HIDE DEF Used, n
  <2> QED BY <1>0, <2>2, <2>3
<1> QED BY <1>1, <1>2, <1>3, <1>7

(* What a sequence lists is finite.                                        *)
LEMMA ToSetFinite ==
  ASSUME NEW T, NEW s \in Seq(T)
  PROVE  IsFiniteSet(ToSet(s))
<1>1. DOMAIN s = 1 .. Len(s) /\ Len(s) \in Nat
  OBVIOUS
<1>2. IsFiniteSet(1 .. Len(s))
  BY <1>1, FS_Interval
<1>3. s \in Surjection(1 .. Len(s), ToSet(s))
  <2>1. s \in [1 .. Len(s) -> ToSet(s)]
    BY <1>1 DEF ToSet
  <2> QED BY <1>1, <2>1 DEF Surjection, ToSet
<1> QED BY <1>2, <1>3, FS_Surjection

(* The input pins of a node go on the nets of their names.                 *)
HookPins(base, seq) == Accumulate(LAMBDA h, p : AddFanoutPinToNet(h, output_nets[BitOf(p)], p), base, seq)

IsHookPins(f, base, seq) ==
  /\ f[0] = base
  /\ \A k \in 1 .. Len(seq) : f[k] = AddFanoutPinToNet(f[k - 1], output_nets[BitOf(seq[k])], seq[k])
  /\ HookPins(base, seq) = f[Len(seq)]

(* The fold is what its last step gives, and each step applies the         *)
(* operator once.                                                          *)
LEMMA FoldHookPins ==
  ASSUME NEW base, NEW seq, Len(seq) \in Nat
  PROVE  \E f : IsHookPins(f, base, seq)
<1> DEFINE n == Len(seq)
           Steps(f, k) == f[0] = base /\ \A j \in 1 .. k : f[j] = AddFanoutPinToNet(f[j - 1], output_nets[BitOf(seq[j])], seq[j])
           Rest(f) == [k \in 0 .. n |-> TheOnly({AddFanoutPinToNet(v, output_nets[BitOf(seq[k])], seq[k]) : v \in {f[k - 1]}})]
           Is(f) == f = [k \in 0 .. n |-> IF k = 0 THEN base
                                     ELSE TheOnly({AddFanoutPinToNet(v, output_nets[BitOf(seq[k])], seq[k]) : v \in {f[k - 1]}})]
           S == {k \in Nat : \E f : Steps(f, k)}
<1>1. HookPins(base, seq) = (CHOOSE f : Is(f))[n]
  BY Zenon DEF Accumulate, HookPins
<1>2. \A f : \A k \in 0 .. n : Rest(f)[k] = AddFanoutPinToNet(f[k - 1], output_nets[BitOf(seq[k])], seq[k])
  <2> TAKE f
  <2> TAKE k \in 0 .. n
  <2>1. {AddFanoutPinToNet(v, output_nets[BitOf(seq[k])], seq[k]) : v \in {f[k - 1]}} = {AddFanoutPinToNet(f[k - 1], output_nets[BitOf(seq[k])], seq[k])}
    OBVIOUS
  <2>2. TheOnly({AddFanoutPinToNet(v, output_nets[BitOf(seq[k])], seq[k]) : v \in {f[k - 1]}}) = AddFanoutPinToNet(f[k - 1], output_nets[BitOf(seq[k])], seq[k])
    BY <2>1, Zenon DEF TheOnly
  <2> QED BY <2>2
<1>3. \A f : Is(f) <=> f = [k \in 0 .. n |-> IF k = 0 THEN base ELSE Rest(f)[k]]
  OBVIOUS
<1> HIDE DEF Rest, Is
<1>4. 0 \in S
  <2>1. Steps([j \in {0} |-> base], 0)
    OBVIOUS
  <2> QED BY <2>1
<1>5. ASSUME NEW k \in S PROVE k + 1 \in S
  <2>1. PICK f : Steps(f, k)
    OBVIOUS
  <2> DEFINE g == [j \in 0 .. k + 1 |-> IF j = k + 1 THEN AddFanoutPinToNet(f[k], output_nets[BitOf(seq[k + 1])], seq[k + 1]) ELSE f[j]]
  <2>2. \A j \in 1 .. k + 1 : IF j = k + 1 THEN j - 1 = k ELSE j \in 1 .. k
    OBVIOUS
  <2>3. g[0] = base /\ \A j \in 1 .. k + 1 : /\ g[j - 1] = f[j - 1]
                                             /\ g[j] = IF j = k + 1 THEN AddFanoutPinToNet(f[k], output_nets[BitOf(seq[k + 1])], seq[k + 1]) ELSE f[j]
    BY <2>1
  <2>4. \A j \in 1 .. k + 1 : g[j] = AddFanoutPinToNet(f[j - 1], output_nets[BitOf(seq[j])], seq[j])
    <3> HIDE DEF g
    <3> QED BY <2>1, <2>2, <2>3
  <2> HIDE DEF g
  <2>5. Steps(g, k + 1)
    BY <2>3, <2>4
  <2> QED BY <2>5
<1>6. n \in S
  <2>1. S \in SUBSET Nat
    OBVIOUS
  <2> HIDE DEF S
  <2> QED BY <1>4, <1>5, <2>1, SetInduction
<1>7. PICK f : Steps(f, n)
  BY <1>6
<1>8. \E h : Is(h)
  <2> DEFINE h == [k \in 0 .. n |-> f[k]]
  <2>1. \A k \in 0 .. n : h[k] = f[k] /\ (k # 0 => k \in 1 .. n /\ h[k - 1] = f[k - 1])
    OBVIOUS
  <2>2. \A k \in 0 .. n : f[k] = IF k = 0 THEN base ELSE Rest(h)[k]
    BY <1>2, <1>7, <2>1
  <2> QED BY <1>3, <2>2
<1>9. Is(CHOOSE f2 : Is(f2))
  BY <1>8, Zenon
<1>10. \A h : Is(h) => Steps(h, n)
  <2> TAKE h
  <2>1. \A k \in 1 .. n : k \in 0 .. n /\ k # 0
    OBVIOUS
  <2>2. h = [k \in 0 .. n |-> IF k = 0 THEN base ELSE Rest(h)[k]]
          => h[0] = base /\ \A k \in 1 .. n : h[k] = Rest(h)[k]
    OBVIOUS
  <2> QED BY <1>2, <1>3, <2>1, <2>2
<1> QED BY <1>1, <1>9, <1>10 DEF IsHookPins

(* The input pins of all nodes.                                            *)
HookNodes(base, seq) == Accumulate(LAMBDA g, n : HookUpNode(g, n), base, seq)

IsHookNodes(f, base, seq) ==
  /\ f[0] = base
  /\ \A k \in 1 .. Len(seq) : f[k] = HookUpNode(f[k - 1], seq[k])
  /\ HookNodes(base, seq) = f[Len(seq)]

(* The fold is what its last step gives, and each step applies the         *)
(* operator once.                                                          *)
LEMMA FoldHookNodes ==
  ASSUME NEW base, NEW seq, Len(seq) \in Nat
  PROVE  \E f : IsHookNodes(f, base, seq)
<1> DEFINE n == Len(seq)
           Steps(f, k) == f[0] = base /\ \A j \in 1 .. k : f[j] = HookUpNode(f[j - 1], seq[j])
           Rest(f) == [k \in 0 .. n |-> TheOnly({HookUpNode(v, seq[k]) : v \in {f[k - 1]}})]
           Is(f) == f = [k \in 0 .. n |-> IF k = 0 THEN base
                                     ELSE TheOnly({HookUpNode(v, seq[k]) : v \in {f[k - 1]}})]
           S == {k \in Nat : \E f : Steps(f, k)}
<1>1. HookNodes(base, seq) = (CHOOSE f : Is(f))[n]
  BY Zenon DEF Accumulate, HookNodes
<1>2. \A f : \A k \in 0 .. n : Rest(f)[k] = HookUpNode(f[k - 1], seq[k])
  <2> TAKE f
  <2> TAKE k \in 0 .. n
  <2>1. {HookUpNode(v, seq[k]) : v \in {f[k - 1]}} = {HookUpNode(f[k - 1], seq[k])}
    OBVIOUS
  <2>2. TheOnly({HookUpNode(v, seq[k]) : v \in {f[k - 1]}}) = HookUpNode(f[k - 1], seq[k])
    BY <2>1, Zenon DEF TheOnly
  <2> QED BY <2>2
<1>3. \A f : Is(f) <=> f = [k \in 0 .. n |-> IF k = 0 THEN base ELSE Rest(f)[k]]
  OBVIOUS
<1> HIDE DEF Rest, Is
<1>4. 0 \in S
  <2>1. Steps([j \in {0} |-> base], 0)
    OBVIOUS
  <2> QED BY <2>1
<1>5. ASSUME NEW k \in S PROVE k + 1 \in S
  <2>1. PICK f : Steps(f, k)
    OBVIOUS
  <2> DEFINE g == [j \in 0 .. k + 1 |-> IF j = k + 1 THEN HookUpNode(f[k], seq[k + 1]) ELSE f[j]]
  <2>2. \A j \in 1 .. k + 1 : IF j = k + 1 THEN j - 1 = k ELSE j \in 1 .. k
    OBVIOUS
  <2>3. g[0] = base /\ \A j \in 1 .. k + 1 : /\ g[j - 1] = f[j - 1]
                                             /\ g[j] = IF j = k + 1 THEN HookUpNode(f[k], seq[k + 1]) ELSE f[j]
    BY <2>1
  <2>4. \A j \in 1 .. k + 1 : g[j] = HookUpNode(f[j - 1], seq[j])
    <3> HIDE DEF g
    <3> QED BY <2>1, <2>2, <2>3
  <2> HIDE DEF g
  <2>5. Steps(g, k + 1)
    BY <2>3, <2>4
  <2> QED BY <2>5
<1>6. n \in S
  <2>1. S \in SUBSET Nat
    OBVIOUS
  <2> HIDE DEF S
  <2> QED BY <1>4, <1>5, <2>1, SetInduction
<1>7. PICK f : Steps(f, n)
  BY <1>6
<1>8. \E h : Is(h)
  <2> DEFINE h == [k \in 0 .. n |-> f[k]]
  <2>1. \A k \in 0 .. n : h[k] = f[k] /\ (k # 0 => k \in 1 .. n /\ h[k - 1] = f[k - 1])
    OBVIOUS
  <2>2. \A k \in 0 .. n : f[k] = IF k = 0 THEN base ELSE Rest(h)[k]
    BY <1>2, <1>7, <2>1, ZenonT(60)
  <2> QED BY <1>3, <2>2
<1>9. Is(CHOOSE f2 : Is(f2))
  BY <1>8, Zenon
<1>10. \A h : Is(h) => Steps(h, n)
  <2> TAKE h
  <2>1. \A k \in 1 .. n : k \in 0 .. n /\ k # 0
    OBVIOUS
  <2>2. h = [k \in 0 .. n |-> IF k = 0 THEN base ELSE Rest(h)[k]]
          => h[0] = base /\ \A k \in 1 .. n : h[k] = Rest(h)[k]
    OBVIOUS
  <2> QED BY <1>2, <1>3, <2>1, <2>2
<1> QED BY <1>1, <1>9, <1>10 DEF IsHookNodes

(* The readers of one net move to another.                                 *)
MoveReaders(base, into, seq) == Accumulate(LAMBDA h, p : IF p = Null THEN h ELSE AddFanoutPinToNet(h, into, p), base, seq)

IsMoveReaders(f, base, into, seq) ==
  /\ f[0] = base
  /\ \A k \in 1 .. Len(seq) : f[k] = (IF seq[k] = Null THEN f[k - 1] ELSE AddFanoutPinToNet(f[k - 1], into, seq[k]))
  /\ MoveReaders(base, into, seq) = f[Len(seq)]

(* The fold is what its last step gives, and each step applies the         *)
(* operator once.                                                          *)
LEMMA FoldMoved ==
  ASSUME NEW base, NEW seq, Len(seq) \in Nat, NEW into
  PROVE  \E f : IsMoveReaders(f, base, into, seq)
<1> DEFINE n == Len(seq)
           Steps(f, k) == f[0] = base /\ \A j \in 1 .. k : f[j] = (IF seq[j] = Null THEN f[j - 1] ELSE AddFanoutPinToNet(f[j - 1], into, seq[j]))
           Rest(f) == [k \in 0 .. n |-> TheOnly({(IF seq[k] = Null THEN v ELSE AddFanoutPinToNet(v, into, seq[k])) : v \in {f[k - 1]}})]
           Is(f) == f = [k \in 0 .. n |-> IF k = 0 THEN base
                                     ELSE TheOnly({(IF seq[k] = Null THEN v ELSE AddFanoutPinToNet(v, into, seq[k])) : v \in {f[k - 1]}})]
           S == {k \in Nat : \E f : Steps(f, k)}
<1>1. MoveReaders(base, into, seq) = (CHOOSE f : Is(f))[n]
  BY Zenon DEF Accumulate, MoveReaders
<1>2. \A f : \A k \in 0 .. n : Rest(f)[k] = (IF seq[k] = Null THEN f[k - 1] ELSE AddFanoutPinToNet(f[k - 1], into, seq[k]))
  <2> TAKE f
  <2> TAKE k \in 0 .. n
  <2>1. {(IF seq[k] = Null THEN v ELSE AddFanoutPinToNet(v, into, seq[k])) : v \in {f[k - 1]}} = {(IF seq[k] = Null THEN f[k - 1] ELSE AddFanoutPinToNet(f[k - 1], into, seq[k]))}
    OBVIOUS
  <2>2. TheOnly({(IF seq[k] = Null THEN v ELSE AddFanoutPinToNet(v, into, seq[k])) : v \in {f[k - 1]}}) = (IF seq[k] = Null THEN f[k - 1] ELSE AddFanoutPinToNet(f[k - 1], into, seq[k]))
    BY <2>1, Zenon DEF TheOnly
  <2> QED BY <2>2
<1>3. \A f : Is(f) <=> f = [k \in 0 .. n |-> IF k = 0 THEN base ELSE Rest(f)[k]]
  OBVIOUS
<1> HIDE DEF Rest, Is
<1>4. 0 \in S
  <2>1. Steps([j \in {0} |-> base], 0)
    OBVIOUS
  <2> QED BY <2>1
<1>5. ASSUME NEW k \in S PROVE k + 1 \in S
  <2>1. PICK f : Steps(f, k)
    OBVIOUS
  <2> DEFINE g == [j \in 0 .. k + 1 |-> IF j = k + 1 THEN (IF seq[k + 1] = Null THEN f[k] ELSE AddFanoutPinToNet(f[k], into, seq[k + 1])) ELSE f[j]]
  <2>2. \A j \in 1 .. k + 1 : IF j = k + 1 THEN j - 1 = k ELSE j \in 1 .. k
    OBVIOUS
  <2>3. g[0] = base /\ \A j \in 1 .. k + 1 : /\ g[j - 1] = f[j - 1]
                                             /\ g[j] = IF j = k + 1 THEN (IF seq[k + 1] = Null THEN f[k] ELSE AddFanoutPinToNet(f[k], into, seq[k + 1])) ELSE f[j]
    BY <2>1
  <2>4. \A j \in 1 .. k + 1 : g[j] = (IF seq[j] = Null THEN f[j - 1] ELSE AddFanoutPinToNet(f[j - 1], into, seq[j]))
    <3> HIDE DEF g
    <3> QED BY <2>1, <2>2, <2>3
  <2> HIDE DEF g
  <2>5. Steps(g, k + 1)
    BY <2>3, <2>4
  <2> QED BY <2>5
<1>6. n \in S
  <2>1. S \in SUBSET Nat
    OBVIOUS
  <2> HIDE DEF S
  <2> QED BY <1>4, <1>5, <2>1, SetInduction
<1>7. PICK f : Steps(f, n)
  BY <1>6
<1>8. \E h : Is(h)
  <2> DEFINE h == [k \in 0 .. n |-> f[k]]
  <2>1. \A k \in 0 .. n : h[k] = f[k] /\ (k # 0 => k \in 1 .. n /\ h[k - 1] = f[k - 1])
    OBVIOUS
  <2>2. \A k \in 0 .. n : f[k] = IF k = 0 THEN base ELSE Rest(h)[k]
    BY <1>2, <1>7, <2>1
  <2> QED BY <1>3, <2>2
<1>9. Is(CHOOSE f2 : Is(f2))
  BY <1>8, Zenon
<1>10. \A h : Is(h) => Steps(h, n)
  <2> TAKE h
  <2>1. \A k \in 1 .. n : k \in 0 .. n /\ k # 0
    OBVIOUS
  <2>2. h = [k \in 0 .. n |-> IF k = 0 THEN base ELSE Rest(h)[k]]
          => h[0] = base /\ \A k \in 1 .. n : h[k] = Rest(h)[k]
    OBVIOUS
  <2> QED BY <1>2, <1>3, <2>1, <2>2
<1> QED BY <1>1, <1>9, <1>10 DEF IsMoveReaders

(* Input pin p, on no net so far, is on net m.                             *)
PinHooked(g, h, m, p) ==
  /\ h \in GraphSet /\ Agree(h) /\ Placed(h)
  /\ h.nodes = g.nodes
  /\ DOMAIN h.pins = DOMAIN g.pins /\ DOMAIN h.nets = DOMAIN g.nets
  /\ \A x \in DOMAIN g.pins : x # p => h.pins[x] = g.pins[x]
  /\ h.pins[p].name = g.pins[p].name /\ h.pins[p].node = g.pins[p].node
  /\ h.pins[p].slot = g.pins[p].slot /\ h.pins[p].net = m
  /\ h.pins[p].output = g.pins[p].output /\ h.pins[p].live = g.pins[p].live
  /\ \A x \in DOMAIN g.nets : h.nets[x].name = g.nets[x].name
       /\ h.nets[x].drivers = g.nets[x].drivers /\ h.nets[x].live = g.nets[x].live

(* A waiting input pin goes to the end of the readers of a net.            *)
LEMMA HookPin ==
  ASSUME NEW g \in GraphSet, Agree(g), Placed(g), NEW m, LiveNet(g, m), NEW p, LivePin(g, p),
         ~g.pins[p].output, g.pins[p].net = Null
  PROVE  PinHooked(g, AddFanoutPinToNet(g, m, p), m, p)
<1> DEFINE h == AddFanoutPinToNet(g, m, p)
           t == g.nets[m]
           q == g.pins[p]
           s == Append(t.fanouts, p)
<1>0. m \in DOMAIN g.nets /\ p \in DOMAIN g.pins /\ t.live /\ q.live /\ g \in GraphSet
  BY DEF LiveNet, LivePin
<1>1. /\ h \in GraphSet /\ h.nodes = g.nodes
      /\ LastNet(h) = LastNet(g) /\ LastPin(h) = LastPin(g)
      /\ \A x \in DOMAIN g.nets : x # m => h.nets[x] = g.nets[x]
      /\ h.nets[m] = [name |-> t.name, drivers |-> t.drivers, fanouts |-> s, live |-> t.live]
      /\ \A x \in DOMAIN g.pins : x # p => h.pins[x] = g.pins[x]
      /\ h.pins[p] = [name |-> q.name, node |-> q.node, slot |-> q.slot, net |-> m,
                      place |-> Len(t.fanouts) + 1, output |-> q.output, live |-> q.live]
  <2>1. m \in DOMAIN g.nets /\ p \in DOMAIN g.pins /\ g \in GraphSet
    BY <1>0
  <2> QED BY <2>1, AddFanoutPinToNetIs, Zenon
<1> HIDE DEF h
<1>2. /\ DOMAIN h.pins = DOMAIN g.pins /\ DOMAIN h.nets = DOMAIN g.nets
      /\ p \in Nat /\ m \in Nat /\ t \in NetRecord
      /\ \A x \in DOMAIN g.nets : x # Null
  BY <1>0, <1>1, GraphType DEF Null
<1>3. t.fanouts \in Seq(Nat)
  BY <1>2 DEF NetRecord
<1>4. /\ DOMAIN s = DOMAIN t.fanouts \cup {Len(t.fanouts) + 1}
      /\ Len(t.fanouts) + 1 \notin DOMAIN t.fanouts
      /\ s[Len(t.fanouts) + 1] = p /\ \A i \in DOMAIN t.fanouts : s[i] = t.fanouts[i]
  BY <1>2, <1>3, AppendFacts
<1> DEFINE K == Len(t.fanouts) + 1
<1> HIDE DEF s
<1>5. /\ h.nets[m].name = t.name /\ h.nets[m].drivers = t.drivers /\ h.nets[m].live = t.live
      /\ h.nets[m].fanouts = s
      /\ h.pins[p].name = q.name /\ h.pins[p].node = q.node /\ h.pins[p].slot = q.slot
      /\ h.pins[p].net = m /\ h.pins[p].place = K
      /\ h.pins[p].output = q.output /\ h.pins[p].live = q.live
  BY <1>1
<1> HIDE DEF K
<1>6. \A x \in DOMAIN g.pins :
        /\ h.pins[x].name = g.pins[x].name /\ h.pins[x].node = g.pins[x].node
        /\ h.pins[x].slot = g.pins[x].slot /\ h.pins[x].output = g.pins[x].output
        /\ h.pins[x].live = g.pins[x].live
        /\ g.pins[x].output => h.pins[x] = g.pins[x]
  BY <1>1, <1>5
<1>7. \A x \in DOMAIN g.nets : h.nets[x].name = g.nets[x].name
        /\ h.nets[x].drivers = g.nets[x].drivers /\ h.nets[x].live = g.nets[x].live
  BY <1>1, <1>5
<1>8. ASSUME NEW n \in DOMAIN h.nodes, h.nodes[n].live PROVE NodeOK(h, n)
  <2>1. NodeOK(g, n)
    BY <1>1, <1>8 DEF Agree
  <2>2. h.nodes[n].ins = g.nodes[n].ins /\ h.nodes[n].outs = g.nodes[n].outs
    BY <1>1
  <2>3. SlotsKept(g, h, n)
    BY <1>1, <1>2, <1>6 DEF SlotsKept
  <2> QED BY <2>1, <2>2, <2>3, NodeOKSame
<1>9. ASSUME NEW x \in DOMAIN h.pins, h.pins[x].live PROVE PinOK(h, x)
  <2>1. PinOK(g, x) /\ x \in DOMAIN g.pins
    BY <1>2, <1>6, <1>9 DEF Agree
  <2>2. CASE g.pins[x].output
    <3>1. OutPinOK(g, x) /\ h.pins[x] = g.pins[x]
      BY <1>6, <2>1, <2>2, Zenon DEF PinOK
    <3>2. OutPinOK(h, x)
      <4> DEFINE r == g.pins[x]
      <4>1. /\ LiveNode(g, r.node) /\ LiveNet(g, r.net)
            /\ r.slot \in DOMAIN g.nodes[r.node].outs /\ g.nodes[r.node].outs[r.slot] = x
            /\ r.place \in DOMAIN g.nets[r.net].drivers /\ g.nets[r.net].drivers[r.place] = x
        BY <3>1, Zenon DEF OutPinOK
      <4>2. h.pins[x] = r
        BY <3>1
      <4> HIDE DEF r
      <4>3. /\ LiveNode(h, r.node) /\ r.slot \in DOMAIN h.nodes[r.node].outs
            /\ h.nodes[r.node].outs[r.slot] = x
        BY <1>1, <4>1 DEF LiveNode
      <4>4. /\ LiveNet(h, r.net) /\ r.place \in DOMAIN h.nets[r.net].drivers
            /\ h.nets[r.net].drivers[r.place] = x
        BY <1>1, <1>2, <1>7, <4>1 DEF LiveNet
      <4> QED BY <4>2, <4>3, <4>4 DEF OutPinOK
    <3> QED BY <2>2, <3>1, <3>2 DEF PinOK
  <2>3. CASE ~g.pins[x].output
    <3>1. InPinOK(g, x)
      BY <2>1, <2>3 DEF PinOK
    <3>2. h.pins[x].net = Null \/ LiveNet(h, h.pins[x].net)
      <4>1. CASE x = p
        BY <1>0, <1>2, <1>5, <4>1 DEF LiveNet
      <4>2. CASE x # p
        BY <1>1, <1>2, <1>7, <2>1, <3>1, <4>2, Zenon DEF LiveNet, InPinOK
      <4> QED BY <4>1, <4>2
    <3>3. InPinOK(h, x)
      BY <1>1, <1>6, <2>1, <3>1, <3>2 DEF InPinOK, LiveNode
    <3> QED BY <1>6, <2>1, <2>3, <3>3 DEF PinOK
  <2> QED BY <2>2, <2>3
<1>10. ASSUME NEW x \in DOMAIN h.nets, h.nets[x].live PROVE NetOK(h, x)
  <2>1. NetOK(g, x) /\ x \in DOMAIN g.nets
    BY <1>2, <1>7, <1>10, Zenon DEF Agree
  <2>2. \A k \in DOMAIN h.nets[x].drivers : DriverOK(h, x, k)
    <3> TAKE k \in DOMAIN h.nets[x].drivers
    <3>1. DriverOK(g, x, k)
      BY <1>7, <2>1 DEF NetOK
    <3> QED BY <1>2, <1>6, <1>7, <2>1, <3>1, ZenonT(60) DEF DriverOK, LivePin
  <2>3. ASSUME NEW k \in DOMAIN g.nets[x].fanouts, g.nets[x].fanouts[k] # Null
        PROVE  LET y == g.nets[x].fanouts[k]
               IN  LivePin(h, y) /\ h.pins[y].net = x /\ h.pins[y].place = k /\ ~h.pins[y].output
    <3> DEFINE y == g.nets[x].fanouts[k]
    <3>1. LivePin(g, y) /\ g.pins[y].net = x /\ g.pins[y].place = k /\ ~g.pins[y].output
      BY <2>1, <2>3 DEF NetOK, FanoutOK
    <3>2. y # p
      BY <1>2, <2>1, <3>1
    <3> QED BY <1>1, <1>2, <3>1, <3>2, Zenon DEF LivePin
  <2>4. CASE x # m
    <3>1. h.nets[x] = g.nets[x]
      BY <1>1, <2>1, <2>4, Zenon
    <3>2. \A k \in DOMAIN h.nets[x].fanouts : FanoutOK(h, x, k)
      BY <2>3, <3>1 DEF FanoutOK
    <3> QED BY <2>2, <3>2 DEF NetOK
  <2>5. CASE x = m
    <3> SUFFICES ASSUME NEW k \in DOMAIN s PROVE FanoutOK(h, m, k)
      BY <1>5, <2>2, <2>5, Zenon DEF NetOK
    <3>1. CASE k = K
      BY <1>0, <1>2, <1>4, <1>5, <3>1 DEF FanoutOK, LivePin, K
    <3>2. CASE k # K
      <4>1. k \in DOMAIN g.nets[x].fanouts /\ s[k] = g.nets[x].fanouts[k]
        BY <1>4, <2>5, <3>2 DEF K
      <4> QED BY <1>5, <2>3, <2>5, <4>1 DEF FanoutOK
    <3> QED BY <3>1, <3>2
  <2> QED BY <2>4, <2>5
<1>11. Agree(h)
  BY <1>8, <1>9, <1>10, Zenon DEF Agree
<1>12. Placed(h)
  <2> SUFFICES ASSUME NEW x \in DOMAIN h.pins, h.pins[x].live, ~h.pins[x].output, h.pins[x].net # Null
               PROVE  h.pins[x].place \in DOMAIN h.nets[h.pins[x].net].fanouts
                      /\ h.nets[h.pins[x].net].fanouts[h.pins[x].place] = x
    BY DEF Placed
  <2>1. CASE x = p
    BY <1>4, <1>5, <2>1, Zenon DEF K
  <2>2. CASE x # p
    <3>1. h.pins[x] = g.pins[x] /\ x \in DOMAIN g.pins
      BY <1>1, <1>2, <2>2, Zenon
    <3>2. g.pins[x].place \in DOMAIN g.nets[g.pins[x].net].fanouts
          /\ g.nets[g.pins[x].net].fanouts[g.pins[x].place] = x
      BY <3>1 DEF Placed
    <3>3. g.pins[x].net \in DOMAIN g.nets
      BY <3>1 DEF Agree, PinOK, InPinOK, LiveNet
    <3>4. CASE g.pins[x].net = m
      BY <1>4, <1>5, <3>1, <3>2, <3>4
    <3>5. CASE g.pins[x].net # m
      BY <1>1, <3>1, <3>2, <3>3, <3>5
    <3> QED BY <3>4, <3>5
  <2> QED BY <2>1, <2>2, Zenon
<1> QED BY <1>1, <1>2, <1>5, <1>7, <1>11, <1>12 DEF PinHooked, h

-----------------------------------------------------------------------------
(* hook_up_nets: the pins P are on the nets of their names.                *)
PinsHooked(g, P) ==
  /\ g \in GraphSet /\ Agree(g) /\ Placed(g)
  /\ g.nodes = graph.nodes
  /\ DOMAIN g.pins = DOMAIN graph.pins /\ DOMAIN g.nets = DOMAIN graph.nets
  /\ \A p \in DOMAIN graph.pins :
       /\ g.pins[p].name = graph.pins[p].name /\ g.pins[p].node = graph.pins[p].node
       /\ g.pins[p].slot = graph.pins[p].slot /\ g.pins[p].output = graph.pins[p].output
       /\ g.pins[p].live = graph.pins[p].live
       /\ graph.pins[p].output => g.pins[p] = graph.pins[p]
       /\ ~graph.pins[p].output
            => g.pins[p].net = IF p \in P THEN output_nets[BitOf(p)] ELSE Null
  /\ \A m \in DOMAIN graph.nets :
       /\ g.nets[m].name = graph.nets[m].name /\ g.nets[m].drivers = graph.nets[m].drivers
       /\ g.nets[m].live = graph.nets[m].live

(* One input pin more is on the net of its name.                           *)
LEMMA HookOnePin ==
  ASSUME Imported(graph, output_nets), NEW g, NEW P, PinsHooked(g, P),
         NEW p \in DOMAIN graph.pins, ~graph.pins[p].output, p \notin P,
         BitOf(p) \in DOMAIN output_nets
  PROVE  PinsHooked(AddFanoutPinToNet(g, output_nets[BitOf(p)], p), P \cup {p})
<1> DEFINE m == output_nets[BitOf(p)]
           h == AddFanoutPinToNet(g, m, p)
<1>1. m \in DOMAIN graph.nets /\ graph.nets[m].live /\ graph.pins[p].live
  BY DEF Imported, NamedNets, Fresh
<1>2. LiveNet(g, m) /\ LivePin(g, p) /\ ~g.pins[p].output /\ g.pins[p].net = Null
      /\ g \in GraphSet /\ Agree(g) /\ Placed(g)
  BY <1>1 DEF PinsHooked, LiveNet, LivePin
<1>3. PinHooked(g, h, m, p)
  <2> HIDE DEF m
  <2> QED BY <1>2, HookPin
<1> HIDE DEF h
<1>4. /\ g.nodes = graph.nodes
      /\ DOMAIN g.pins = DOMAIN graph.pins /\ DOMAIN g.nets = DOMAIN graph.nets
  BY DEF PinsHooked
<1>5. ASSUME NEW x \in DOMAIN graph.pins
      PROVE  /\ h.pins[x].name = graph.pins[x].name /\ h.pins[x].node = graph.pins[x].node
             /\ h.pins[x].slot = graph.pins[x].slot /\ h.pins[x].output = graph.pins[x].output
             /\ h.pins[x].live = graph.pins[x].live
             /\ graph.pins[x].output => h.pins[x] = graph.pins[x]
             /\ ~graph.pins[x].output
                  => h.pins[x].net = IF x \in P \cup {p} THEN output_nets[BitOf(x)] ELSE Null
  <2>1. CASE x = p
    BY <1>3, <1>4, <2>1 DEF PinHooked, PinsHooked
  <2>2. CASE x # p
    BY <1>3, <1>4, <2>2 DEF PinHooked, PinsHooked
  <2> QED BY <2>1, <2>2
<1>6. ASSUME NEW x \in DOMAIN graph.nets
      PROVE  /\ h.nets[x].name = graph.nets[x].name /\ h.nets[x].drivers = graph.nets[x].drivers
             /\ h.nets[x].live = graph.nets[x].live
  BY <1>3 DEF PinHooked, PinsHooked
<1>7. h \in GraphSet /\ Agree(h) /\ Placed(h) /\ h.nodes = graph.nodes
      /\ DOMAIN h.pins = DOMAIN graph.pins /\ DOMAIN h.nets = DOMAIN graph.nets
  BY <1>3, <1>4 DEF PinHooked
<1>8. PinsHooked(h, P \cup {p})
  BY <1>5, <1>6, <1>7 DEF PinsHooked
<1> QED BY <1>8 DEF h

(* The input pins of a set of nodes.                                       *)
PinsOf(S) == {p \in DOMAIN graph.pins : ~graph.pins[p].output /\ graph.pins[p].node \in S}

(* The input pins of one node more are on the nets of their names.         *)
LEMMA HookOneNode ==
  ASSUME Imported(graph, output_nets), NEW g, NEW S, PinsHooked(g, PinsOf(S)),
         NEW n \in DOMAIN graph.nodes \ S,
         \A p \in ToSet(graph.nodes[n].ins) : BitOf(p) \in DOMAIN output_nets
  PROVE  PinsHooked(HookUpNode(g, n), PinsOf(S \cup {n}))
<1> DEFINE s == graph.nodes[n].ins
           P(k) == PinsOf(S) \cup {s[i] : i \in 1 .. k}
<1>0. /\ g.nodes = graph.nodes /\ Fresh(graph) /\ NodeOK(graph, n) /\ graph \in GraphSet
      /\ Agree(graph)
  BY DEF PinsHooked, Imported, Fresh, Agree
<1>1. s \in Seq(Nat) /\ Len(s) \in Nat /\ DOMAIN s = 1 .. Len(s)
  <2>1. graph.nodes[n] \in NodeRecord
    BY <1>0, GraphType
  <2>2. s \in Seq(Nat)
    BY <2>1, Zenon DEF NodeRecord
  <2> QED BY <2>2
<1>2. \A i \in 1 .. Len(s) : /\ s[i] \in DOMAIN graph.pins /\ graph.pins[s[i]].node = n
                             /\ graph.pins[s[i]].slot = i /\ ~graph.pins[s[i]].output
  BY <1>0, <1>1 DEF NodeOK, InSlotOK, LivePin
<1>3. \A i \in 1 .. Len(s) : BitOf(s[i]) \in DOMAIN output_nets
  BY <1>1 DEF ToSet
<1>4. HookUpNode(g, n) = HookPins(g, s)
  BY <1>0, Zenon DEF HookUpNode, HookPins
<1> HIDE DEF s
<1>5. PICK f : /\ f[0] = g
               /\ \A k \in 1 .. Len(s) : f[k] = AddFanoutPinToNet(f[k - 1], output_nets[BitOf(s[k])], s[k])
               /\ HookPins(g, s) = f[Len(s)]
  <2>1. PICK f : IsHookPins(f, g, s)
    BY <1>1, FoldHookPins, Zenon
  <2> QED BY <2>1, Zenon DEF IsHookPins
<1> DEFINE T == {k \in Nat : PinsHooked(f[k], P(k))}
<1>6. 0 \in T
  <2>1. P(0) = PinsOf(S)
    OBVIOUS
  <2> QED BY <1>5, <2>1
<1>7. ASSUME NEW k \in 0 .. Len(s) - 1, k \in T PROVE k + 1 \in T
  <2>1. k \in Nat /\ k + 1 \in 1 .. Len(s) /\ (k + 1) - 1 = k /\ 1 .. (k + 1) = (1 .. k) \cup {k + 1}
        /\ k + 1 \notin 1 .. k /\ \A i \in 1 .. k : i \in 1 .. Len(s)
    BY <1>1
  <2> DEFINE p == s[k + 1]
  <2>2. p \notin P(k)
    <3>1. p \notin PinsOf(S)
      BY <1>2, <2>1 DEF PinsOf
    <3>2. \A i \in 1 .. k : s[i] # p
      BY <1>2, <2>1
    <3> QED BY <3>1, <3>2
  <2>3. P(k + 1) = P(k) \cup {p}
    BY <2>1
  <2>4. p \in DOMAIN graph.pins /\ ~graph.pins[p].output /\ BitOf(p) \in DOMAIN output_nets
    BY <1>2, <1>3, <2>1
  <2>5. PinsHooked(f[k], P(k))
    BY <1>7
  <2>6. f[k + 1] = AddFanoutPinToNet(f[k], output_nets[BitOf(p)], p)
    BY <1>5, <2>1
  <2> HIDE DEF P, p
  <2>7. PinsHooked(f[k + 1], P(k) \cup {p})
    BY <2>2, <2>4, <2>5, <2>6, HookOnePin
  <2>8. PinsHooked(f[k + 1], P(k + 1))
    BY <2>3, <2>7
  <2> QED BY <2>1, <2>8
<1>8. PinsHooked(f[Len(s)], P(Len(s)))
  <2>0. 0 \in T /\ \A k \in 0 .. Len(s) - 1 : k \in T => k + 1 \in T
    BY <1>6, <1>7
  <2> HIDE DEF T
  <2>1. \A k \in 0 .. Len(s) : k \in T
    BY <1>1, <2>0, InductionUpto
  <2>2. Len(s) \in T
    BY <1>1, <2>1
  <2> HIDE DEF P
  <2> QED BY <2>2 DEF T
<1>9. P(Len(s)) = PinsOf(S \cup {n})
  <2>1. \A i \in 1 .. Len(s) : s[i] \in PinsOf(S \cup {n})
    BY <1>2 DEF PinsOf
  <2>2. ASSUME NEW p \in PinsOf(S \cup {n}), p \notin PinsOf(S)
        PROVE  \E i \in 1 .. Len(s) : p = s[i]
    <3>1. p \in DOMAIN graph.pins /\ ~graph.pins[p].output /\ graph.pins[p].node = n
      BY <2>2 DEF PinsOf
    <3>2. InPinOK(graph, p)
      BY <1>0, <3>1 DEF Fresh, Agree, PinOK
    <3> QED BY <1>1, <3>1, <3>2 DEF InPinOK, s
  <2>3. PinsOf(S) \subseteq PinsOf(S \cup {n})
    BY DEF PinsOf
  <2> QED BY <2>1, <2>2, <2>3
<1> QED BY <1>4, <1>5, <1>8, <1>9

-----------------------------------------------------------------------------
(* What no step after the import changes: what a node was made for.  Only  *)
(* buffers are freed.                                                      *)
Reshaped(g, h) ==
  /\ DOMAIN h.nodes = DOMAIN g.nodes /\ DOMAIN h.pins = DOMAIN g.pins
  /\ DOMAIN h.nets = DOMAIN g.nets
  /\ \A n \in DOMAIN g.nodes :
       /\ h.nodes[n].type = g.nodes[n].type /\ h.nodes[n].name = g.nodes[n].name
       /\ h.nodes[n].live => g.nodes[n].live /\ h.nodes[n] = g.nodes[n]
       /\ g.nodes[n].live /\ g.nodes[n].type # "buf" => h.nodes[n].live
  /\ \A p \in DOMAIN g.pins :
       /\ h.pins[p].node = g.pins[p].node /\ h.pins[p].slot = g.pins[p].slot
       /\ h.pins[p].output = g.pins[p].output
       /\ h.pins[p].live => g.pins[p].live
       /\ ~g.pins[p].output => h.pins[p].name = g.pins[p].name
       /\ g.pins[p].output => h.pins[p].net = g.pins[p].net /\ h.pins[p].place = g.pins[p].place
  /\ \A m \in DOMAIN g.nets :
       h.nets[m].name = g.nets[m].name /\ h.nets[m].drivers = g.nets[m].drivers

(* A node that is still live was made for the same bits.                   *)
LEMMA NodeIsReshaped ==
  ASSUME NEW g \in GraphSet, Agree(g), NEW h, Reshaped(g, h), NEW x, h.nodes[x].live,
         NEW type, NEW name, NEW ins, NEW outs, NodeIs(g, x, type, name, ins, outs)
  PROVE  NodeIs(h, x, type, name, ins, outs)
<1>1. x \in DOMAIN g.nodes
  BY DEF NodeIs, NodeHas
<1>2. h.nodes[x] = g.nodes[x] /\ g.nodes[x].live /\ x \in DOMAIN h.nodes
  BY <1>1 DEF Reshaped
<1>3. NodeOK(g, x)
  BY <1>1, <1>2 DEF Agree
<1>4. g.nodes[x].ins \in Seq(Nat) /\ g.nodes[x].outs \in Seq(Nat)
  <2>1. g.nodes[x] \in NodeRecord
    BY <1>1, GraphType, Zenon
  <2> QED BY <2>1 DEF NodeRecord
<1>5. Len(g.nodes[x].ins) = Len(ins) /\ DOMAIN g.nodes[x].ins = 1 .. Len(ins)
      /\ Len(g.nodes[x].outs) = Len(outs) /\ DOMAIN g.nodes[x].outs = 1 .. Len(outs)
  <2>1. Len(g.nodes[x].ins) = Len(ins) /\ Len(g.nodes[x].outs) = Len(outs)
    BY Zenon DEF NodeIs, NodeHas
  <2> DEFINE u == g.nodes[x].ins
             v == g.nodes[x].outs
  <2>2. u \in Seq(Nat) /\ v \in Seq(Nat) /\ Len(u) = Len(ins) /\ Len(v) = Len(outs)
    BY <1>4, <2>1
  <2> HIDE DEF u, v
  <2>3. DOMAIN u = 1 .. Len(ins) /\ DOMAIN v = 1 .. Len(outs)
    BY <2>2
  <2> QED BY <2>2, <2>3 DEF u, v
<1>6. ASSUME NEW k \in 1 .. Len(ins) PROVE h.pins[h.nodes[x].ins[k]].name = <<ins[k], 0>>
  <2>1. LivePin(g, g.nodes[x].ins[k]) /\ ~g.pins[g.nodes[x].ins[k]].output
    BY <1>3, <1>5 DEF NodeOK, InSlotOK
  <2>2. h.pins[g.nodes[x].ins[k]].name = g.pins[g.nodes[x].ins[k]].name
    BY <2>1, Zenon DEF Reshaped, LivePin
  <2> QED BY <1>2, <2>2, Zenon DEF NodeIs, NodeHas
<1>7. ASSUME NEW k \in 1 .. Len(outs)
      PROVE  h.nets[h.pins[h.nodes[x].outs[k]].net].name = outs[k]
  <2> DEFINE p == g.nodes[x].outs[k]
  <2>1. LivePin(g, p) /\ g.pins[p].output
    BY <1>3, <1>5 DEF NodeOK, OutSlotOK
  <2>2. h.pins[p].net = g.pins[p].net
    BY <2>1, Zenon DEF Reshaped, LivePin
  <2>3. g.pins[p].net \in DOMAIN g.nets
    BY <2>1, Zenon DEF Agree, PinOK, OutPinOK, LivePin, LiveNet
  <2>4. h.nets[g.pins[p].net].name = g.nets[g.pins[p].net].name
    BY <2>3, Zenon DEF Reshaped
  <2>5. g.nets[g.pins[p].net].name = outs[k]
    BY Zenon DEF NodeIs, NodeHas
  <2> QED BY <1>2, <2>2, <2>4, <2>5
<1>8. h.nodes[x].type = type /\ h.nodes[x].name = name
  BY <1>2 DEF NodeIs, NodeHas
<1> QED BY <1>2, <1>5, <1>6, <1>7, <1>8, Zenon DEF NodeIs, NodeHas

(* The order of the nodes survives what the mapping and the sweep do.      *)
LEMMA LayoutReshaped ==
  ASSUME NEW g \in GraphSet, Agree(g), NEW h, h \in GraphSet, Reshaped(g, h),
         NEW d, NEW c, NEW k, Layout(g, d, c, k)
  PROVE  Layout(h, d, c, k)
<1>1. \A i \in 1 .. SourceCount(d) : SourceHas(h, d, i)
  <2> TAKE i \in 1 .. SourceCount(d)
  <2>1. SourceHas(g, d, i)
    BY Zenon DEF Layout
  <2>2. i \in DOMAIN g.nodes /\ g.nodes[i].type # "buf" /\ g.nodes[i].live
    BY <2>1 DEF SourceHas, NodeIs, NodeHas, SourceType
  <2>3. h.nodes[i].live
    BY <2>2 DEF Reshaped
  <2> QED BY <2>1, <2>3, NodeIsReshaped DEF SourceHas
<1>2. \A i \in 1 .. Len(d.outputs) : OutputHas(h, d, i)
  <2> TAKE i \in 1 .. Len(d.outputs)
  <2>1. OutputHas(g, d, i)
    BY Zenon DEF Layout
  <2> DEFINE n == SourceCount(d) + i
  <2>2. n \in DOMAIN g.nodes /\ g.nodes[n].type # "buf" /\ g.nodes[n].live
    BY <2>1 DEF OutputHas, NodeIs, NodeHas
  <2>3. h.nodes[n].live
    BY <2>2 DEF Reshaped
  <2> QED BY <2>1, <2>3, NodeIsReshaped DEF OutputHas
<1>3. \A i \in 1 .. c : CellHas(h, d, i)
  <2> TAKE i \in 1 .. c
  <2>1. CellHas(g, d, i)
    BY Zenon DEF Layout
  <2> DEFINE n == Before(d) + i
  <2>2. n \in DOMAIN g.nodes /\ g.nodes[n].type # "buf" /\ g.nodes[n].live
    BY <2>1, Zenon DEF CellHas, NodeIs, NodeHas
  <2>3. h.nodes[n].live
    BY <2>2 DEF Reshaped
  <2> QED BY <2>1, <2>3, NodeIsReshaped DEF CellHas
<1>4. ASSUME NEW n \in DOMAIN h.nodes, n > Before(d) + c, h.nodes[n].live
      PROVE  \E j \in 1 .. k : BufferFor(h, d, n, j)
  <2>1. n \in DOMAIN g.nodes /\ g.nodes[n].live
    BY <1>4 DEF Reshaped
  <2>2. PICK j \in 1 .. k : BufferFor(g, d, n, j)
    BY <1>4, <2>1 DEF Layout
  <2> QED BY <1>4, <2>2, NodeIsReshaped DEF BufferFor
<1>5. LastNode(h) >= Before(d) + c
  <2>1. LastNode(h) = LastNode(g)
    <3>1. DOMAIN g.nodes = 1 .. LastNode(g) /\ DOMAIN h.nodes = 1 .. LastNode(h)
          /\ LastNode(g) \in Nat /\ LastNode(h) \in Nat /\ DOMAIN g.nodes = DOMAIN h.nodes
      BY GraphType DEF Reshaped
    <3> QED BY <3>1
  <2> QED BY <2>1 DEF Layout
<1> QED BY <1>1, <1>2, <1>3, <1>4, <1>5 DEF Layout

(* The nodes hook_up_nets goes through: every node with input pins, once.  *)
LEMMA UnhookedIs ==
  ASSUME NEW d \in Designs, design = d, Fresh(graph), NEW k, Layout(graph, d, Len(d.cells), k)
  PROVE  /\ Len(Unhooked) \in Nat /\ DOMAIN Unhooked = 1 .. Len(Unhooked)
         /\ \A i, j \in DOMAIN Unhooked : Unhooked[i] = Unhooked[j] => i = j
         /\ \A i \in DOMAIN Unhooked : Unhooked[i] \in DOMAIN graph.nodes
         /\ \A n \in DOMAIN graph.nodes : n > SourceCount(d) => n \in ToSet(Unhooked)
<1> DEFINE B == Before(d)
           A == LastNode(graph) - B
           C == SourceCount(d)
           O == Len(d.outputs)
           s == InternalNodes
           t == Outputs(d)
<1>1. /\ C = 3 + Len(d.inputs) /\ Len(d.inputs) \in Nat /\ O \in Nat /\ C \in Nat
      /\ DOMAIN d.outputs = 1 .. O /\ B = C + O /\ Len(d.cells) \in Nat
  BY DesignFacts DEF Before
<1>2. LastNode(graph) \in Nat /\ DOMAIN graph.nodes = 1 .. LastNode(graph)
      /\ LastNode(graph) >= B + Len(d.cells)
  BY GraphType DEF Fresh, Layout
<1>3. A \in Nat /\ B \in Nat /\ LastNode(graph) = B + A
  <2> DEFINE L == LastNode(graph)
             K == Len(d.cells)
  <2>1. L \in Nat /\ L >= B + K /\ B = C + O /\ C \in Nat /\ O \in Nat /\ K \in Nat
    BY <1>1, <1>2
  <2> HIDE DEF L, B, C, O, K
  <2>2. L - B \in Nat /\ B \in Nat /\ L = B + (L - B)
    BY <2>1
  <2> QED BY <2>2 DEF L
<1>4. s = [i \in 1 .. A |-> B + i]
  BY <1>1 DEF InternalNodes
<1>5. t = [i \in 1 .. O |-> C + i]
  BY <1>1 DEF Outputs
<1>6. Unhooked = s \o t
  BY DEF Unhooked
<1> HIDE DEF A, B, C, O, s, t
<1>7. s \in Seq(Nat) /\ Len(s) = A /\ \A i \in 1 .. A : s[i] = B + i
  BY <1>3, <1>4
<1>8. t \in Seq(Nat) /\ Len(t) = O /\ \A i \in 1 .. O : t[i] = C + i
  BY <1>1, <1>5
<1>9. /\ Unhooked \in Seq(Nat) /\ Len(Unhooked) = A + O
      /\ \A i \in 1 .. A + O : Unhooked[i] = IF i <= A THEN B + i ELSE C + (i - A)
  <2>1. /\ s \o t \in Seq(Nat) /\ Len(s \o t) = A + O
        /\ \A i \in 1 .. A + O : (s \o t)[i] = IF i <= A THEN s[i] ELSE t[i - A]
    BY <1>7, <1>8, ConcatProperties
  <2>2. \A i \in 1 .. A + O : IF i <= A THEN i \in 1 .. A ELSE i - A \in 1 .. O
    BY <1>1, <1>3
  <2> QED BY <1>6, <1>7, <1>8, <2>1, <2>2
<1>10. Len(Unhooked) \in Nat /\ DOMAIN Unhooked = 1 .. A + O
  BY <1>1, <1>3, <1>9
<1>11. ASSUME NEW i \in 1 .. A + O, NEW j \in 1 .. A + O, Unhooked[i] = Unhooked[j] PROVE i = j
  <2>1. (IF i <= A THEN B + i ELSE C + (i - A)) = IF j <= A THEN B + j ELSE C + (j - A)
    BY <1>9, <1>11
  <2> QED BY <1>1, <1>3, <2>1
<1>12. ASSUME NEW i \in 1 .. A + O PROVE Unhooked[i] \in DOMAIN graph.nodes
  <2>1. (IF i <= A THEN B + i ELSE C + (i - A)) \in 1 .. B + A
    BY <1>1, <1>3
  <2> QED BY <1>2, <1>3, <1>9, <2>1
<1>13. ASSUME NEW n \in DOMAIN graph.nodes, n > C PROVE n \in ToSet(Unhooked)
  <2>1. CASE n > B
    <3>0. n \in Nat /\ n <= B + A
      BY <1>2, <1>3
    <3>1. n - B \in 1 .. A + O /\ n - B <= A /\ B + (n - B) = n
      <4>1. A \in Nat /\ B \in Nat /\ O \in Nat
        BY <1>1, <1>3
      <4> QED BY <2>1, <3>0, <4>1
    <3>2. Unhooked[n - B] = n
      BY <1>9, <3>1
    <3> QED BY <1>10, <3>1, <3>2 DEF ToSet
  <2>2. CASE n <= B
    <3> DEFINE i == (n - C) + A
    <3>1. i \in 1 .. A + O /\ ~(i <= A) /\ C + (i - A) = n
      <4>1. n \in Nat /\ A \in Nat /\ C \in Nat /\ O \in Nat /\ n > C /\ n <= C + O
        BY <1>1, <1>2, <1>3, <1>13, <2>2
      <4> HIDE DEF A, C, O
      <4> QED BY <4>1
    <3> HIDE DEF i
    <3>2. Unhooked[i] = n
      BY <1>9, <3>1
    <3> QED BY <1>10, <3>1, <3>2 DEF ToSet
  <2> QED BY <1>1, <1>2, <1>3, <2>1, <2>2
<1> QED BY <1>9, <1>10, <1>11, <1>12, <1>13 DEF C

(* hook_up_nets as a whole.                                                *)
LEMMA HookUpAll ==
  ASSUME Imported(graph, output_nets), NEW d \in Designs, design = d,
         NEW k, Layout(graph, d, Len(d.cells), k),
         \A n \in ToSet(Unhooked) : \A p \in ToSet(graph.nodes[n].ins) : BitOf(p) \in DOMAIN output_nets
  PROVE  PinsHooked(Accumulate(LAMBDA g, n : HookUpNode(g, n), graph, Unhooked),
                    {p \in DOMAIN graph.pins : ~graph.pins[p].output})
<1> DEFINE s == Unhooked
           S(j) == {s[i] : i \in 1 .. j}
           all == HookNodes(graph, s)
<1>0. Fresh(graph) /\ graph \in GraphSet /\ Agree(graph)
  BY DEF Imported, Fresh
<1>1. /\ Len(s) \in Nat /\ DOMAIN s = 1 .. Len(s)
      /\ \A i, j \in DOMAIN s : s[i] = s[j] => i = j
      /\ \A i \in DOMAIN s : s[i] \in DOMAIN graph.nodes
      /\ \A n \in DOMAIN graph.nodes : n > SourceCount(d) => n \in ToSet(s)
  BY <1>0, UnhookedIs
<1>2. Accumulate(LAMBDA g, n : HookUpNode(g, n), graph, Unhooked) = all
  BY Zenon DEF HookNodes
<1>3. \A i \in DOMAIN s : \A p \in ToSet(graph.nodes[s[i]].ins) : BitOf(p) \in DOMAIN output_nets
  BY DEF ToSet
<1> HIDE DEF s
<1>4. PICK f : /\ f[0] = graph
               /\ \A j \in 1 .. Len(s) : f[j] = HookUpNode(f[j - 1], s[j])
               /\ all = f[Len(s)]
  <2>1. PICK f : IsHookNodes(f, graph, s)
    BY <1>1, FoldHookNodes, Zenon
  <2> QED BY <2>1, Zenon DEF IsHookNodes
<1> HIDE DEF all
<1> DEFINE T == {j \in Nat : PinsHooked(f[j], PinsOf(S(j)))}
<1>5. 0 \in T
  <2>1. PinsOf(S(0)) = {}
    BY DEF PinsOf
  <2>2. PinsHooked(graph, {})
    <3>1. Placed(graph)
      BY <1>0 DEF Placed, Fresh
    <3> QED BY <1>0, <3>1 DEF PinsHooked, Fresh
  <2> HIDE DEF S
  <2> QED BY <1>4, <2>1, <2>2
<1>6. ASSUME NEW j \in 0 .. Len(s) - 1, j \in T PROVE j + 1 \in T
  <2>1. j \in Nat /\ j + 1 \in 1 .. Len(s) /\ (j + 1) - 1 = j /\ 1 .. (j + 1) = (1 .. j) \cup {j + 1}
        /\ j + 1 \notin 1 .. j /\ \A i \in 1 .. j : i \in 1 .. Len(s)
    BY <1>1
  <2> DEFINE n == s[j + 1]
  <2>2. n \in DOMAIN graph.nodes \ S(j)
    BY <1>1, <2>1
  <2>3. S(j + 1) = S(j) \cup {n}
    BY <2>1
  <2>4. PinsHooked(f[j], PinsOf(S(j)))
    BY <1>6
  <2>5. f[j + 1] = HookUpNode(f[j], n)
    BY <1>4, <2>1
  <2>6. \A p \in ToSet(graph.nodes[n].ins) : BitOf(p) \in DOMAIN output_nets
    BY <1>1, <1>3, <2>1
  <2> HIDE DEF S, n
  <2>7. PinsHooked(HookUpNode(f[j], n), PinsOf(S(j) \cup {n}))
    BY <2>2, <2>4, <2>6, HookOneNode
  <2>8. PinsHooked(f[j + 1], PinsOf(S(j + 1)))
    BY <2>3, <2>5, <2>7
  <2> QED BY <2>1, <2>8
<1>7. PinsHooked(all, PinsOf(S(Len(s))))
  <2>0. 0 \in T /\ \A j \in 0 .. Len(s) - 1 : j \in T => j + 1 \in T
    BY <1>5, <1>6
  <2> HIDE DEF T
  <2>1. \A j \in 0 .. Len(s) : j \in T
    BY <1>1, <2>0, InductionUpto
  <2>2. Len(s) \in T
    BY <1>1, <2>1
  <2> HIDE DEF S
  <2>3. PinsHooked(f[Len(s)], PinsOf(S(Len(s))))
    BY <2>2 DEF T
  <2> QED BY <1>4, <2>3
<1>8. PinsOf(S(Len(s))) = {p \in DOMAIN graph.pins : ~graph.pins[p].output}
  <2>1. S(Len(s)) = ToSet(s)
    BY <1>1 DEF ToSet
  <2>2. ASSUME NEW p \in DOMAIN graph.pins, ~graph.pins[p].output
        PROVE  graph.pins[p].node \in ToSet(s)
    <3> DEFINE n == graph.pins[p].node
    <3>1. InPinOK(graph, p)
      BY <1>0, <2>2 DEF Fresh, Agree, PinOK
    <3>2. n \in DOMAIN graph.nodes /\ graph.pins[p].slot \in DOMAIN graph.nodes[n].ins
      BY <3>1 DEF InPinOK, LiveNode
    <3>3. n \in Nat /\ n >= 1 /\ SourceCount(d) \in Nat
      BY <1>0, <3>2, GraphType, DesignFacts
    <3>4. ASSUME n <= SourceCount(d) PROVE FALSE
      <4>1. n \in 1 .. SourceCount(d)
        BY <3>3, <3>4
      <4>2. SourceHas(graph, d, n)
        BY <4>1, Zenon DEF Layout
      <4>3. Len(graph.nodes[n].ins) = 0
        BY <4>2, Zenon DEF SourceHas, NodeIs, NodeHas
      <4>4. graph.nodes[n].ins \in Seq(Nat)
        <5>1. graph.nodes[n] \in NodeRecord
          BY <1>0, <3>2, GraphType
        <5> QED BY <5>1 DEF NodeRecord
      <4> QED BY <3>2, <4>3, <4>4
    <3>5. n > SourceCount(d)
      BY <3>3, <3>4
    <3> QED BY <1>1, <3>2, <3>5
  <2> QED BY <2>1, <2>2 DEF PinsOf
<1> QED BY <1>2, <1>7, <1>8

(* After hook_up_nets the net of a pin has the name of the pin.            *)
AsNamed(g) ==
  \A p \in DOMAIN g.pins : g.pins[p].live /\ ~g.pins[p].output
    => g.nets[g.pins[p].net].name = g.pins[p].name[1]

(* An input pin belongs to a node hook_up_nets goes through.               *)
LEMMA ReaderUnhooked ==
  ASSUME NEW d \in Designs, design = d, Fresh(graph), NEW k, Layout(graph, d, Len(d.cells), k),
         NEW p \in DOMAIN graph.pins, ~graph.pins[p].output
  PROVE  \E n \in ToSet(Unhooked) : n \in DOMAIN graph.nodes /\ p \in ToSet(graph.nodes[n].ins)
<1> DEFINE n == graph.pins[p].node
<1>0. graph \in GraphSet
  BY DEF Fresh
<1>1. InPinOK(graph, p)
  BY DEF Fresh, Agree, PinOK
<1>2. /\ n \in DOMAIN graph.nodes /\ graph.pins[p].slot \in DOMAIN graph.nodes[n].ins
      /\ graph.nodes[n].ins[graph.pins[p].slot] = p
  BY <1>1 DEF InPinOK, LiveNode
<1>3. n \in Nat /\ n >= 1 /\ SourceCount(d) \in Nat
  BY <1>0, <1>2, GraphType, DesignFacts
<1>4. ASSUME n <= SourceCount(d) PROVE FALSE
  <2>1. n \in 1 .. SourceCount(d)
    BY <1>3, <1>4
  <2>2. SourceHas(graph, d, n)
    BY <2>1, Zenon DEF Layout
  <2>3. Len(graph.nodes[n].ins) = 0
    BY <2>2, Zenon DEF SourceHas, NodeIs, NodeHas
  <2>4. graph.nodes[n].ins \in Seq(Nat)
    <3>1. graph.nodes[n] \in NodeRecord
      BY <1>0, <1>2, GraphType
    <3> QED BY <3>1 DEF NodeRecord
  <2> QED BY <1>2, <2>3, <2>4
<1>5. n > SourceCount(d)
  BY <1>3, <1>4
<1>6. n \in ToSet(Unhooked)
  BY <1>2, <1>5, UnhookedIs, Zenon
<1>7. p \in ToSet(graph.nodes[n].ins)
  BY <1>2 DEF ToSet
<1> QED BY <1>2, <1>6, <1>7

HookedUp(g, d) ==
  HookedGraph(g, d) /\ Placed(g) /\ AsNamed(g)

(* Unless it stops, hook_up_nets puts every input pin on the net of its    *)
(* name.                                                                   *)
LEMMA HookUpMakes ==
  ASSUME ImportInv, HookUp, stage' # "refused"
  PROVE  stage' = "map" /\ HookedUp(graph', design)
<1> DEFINE d == design
           h == graph'
           K == Len(d.connections)
           Ins == {p \in DOMAIN graph.pins : ~graph.pins[p].output}
<1>0. d \in Designs /\ ConnectionsInv(graph, d, output_nets, cstr_bits_seen, K)
  BY DEF ImportInv, HookUp
<1>1. Imported(graph, output_nets) /\ Layout(graph, d, Len(d.cells), K)
      /\ BuffersMade(graph, d, output_nets, K)
  BY <1>0 DEF ConnectionsInv
<1>2. /\ Fresh(graph) /\ NamedNets(graph, output_nets) /\ Driven(graph) /\ PinNamesOK(graph)
      /\ graph \in GraphSet /\ Agree(graph)
  BY <1>1 DEF Imported, Fresh
<1>3. /\ \A n \in ToSet(Unhooked) : \A p \in ToSet(graph.nodes[n].ins) : BitOf(p) \in DOMAIN output_nets
      /\ h = Accumulate(LAMBDA g, n : HookUpNode(g, n), graph, Unhooked)
      /\ stage' = "map"
  BY Zenon DEF HookUp, Refuse
<1>4. PinsHooked(h, Ins)
  BY <1>0, <1>1, <1>3, HookUpAll
<1> HIDE DEF h
<1>5. /\ h \in GraphSet /\ Agree(h) /\ Placed(h)
      /\ h.nodes = graph.nodes
      /\ DOMAIN h.pins = DOMAIN graph.pins /\ DOMAIN h.nets = DOMAIN graph.nets
      /\ \A p \in DOMAIN graph.pins :
           /\ h.pins[p].name = graph.pins[p].name /\ h.pins[p].node = graph.pins[p].node
           /\ h.pins[p].slot = graph.pins[p].slot /\ h.pins[p].output = graph.pins[p].output
           /\ h.pins[p].live = graph.pins[p].live
           /\ graph.pins[p].output => h.pins[p] = graph.pins[p]
           /\ ~graph.pins[p].output => h.pins[p].net = output_nets[BitOf(p)]
      /\ \A m \in DOMAIN graph.nets :
           /\ h.nets[m].name = graph.nets[m].name /\ h.nets[m].drivers = graph.nets[m].drivers
           /\ h.nets[m].live = graph.nets[m].live
  BY <1>4 DEF PinsHooked
<1>6. Reshaped(graph, h)
  BY <1>2, <1>5 DEF Reshaped, Fresh
<1>7. Layout(h, d, Len(d.cells), K)
  BY <1>1, <1>2, <1>5, <1>6, LayoutReshaped, Zenon
<1>8. ASSUME NEW p \in DOMAIN graph.pins, ~graph.pins[p].output
      PROVE  /\ h.pins[p].net \in DOMAIN graph.nets
             /\ h.nets[h.pins[p].net].name = h.pins[p].name[1]
  <2>1. BitOf(p) \in DOMAIN output_nets
    BY <1>0, <1>1, <1>2, <1>3, <1>8, ReaderUnhooked
  <2>2. output_nets[BitOf(p)] \in DOMAIN graph.nets
        /\ graph.nets[output_nets[BitOf(p)]].name = BitOf(p)
    BY <1>2, <2>1 DEF NamedNets
  <2> QED BY <1>5, <1>8, <2>2 DEF BitOf
<1>9. \A m \in DOMAIN graph.nets : m # Null
  BY <1>2, GraphType DEF Null
<1>10. AllHooked(h) /\ AsNamed(h)
  BY <1>5, <1>8, <1>9 DEF AllHooked, AsNamed
<1>11. Driven(h)
  BY <1>2, <1>5 DEF Driven
<1>12. PinNamesOK(h)
  BY <1>2, <1>5 DEF PinNamesOK
<1>13. NetNamesDiffer(h)
  <2>1. \A m \in DOMAIN graph.nets : output_nets[graph.nets[m].name] = m
    BY <1>2 DEF NamedNets
  <2> QED BY <1>5, <2>1 DEF NetNamesDiffer
<1>14. BufferNamesDiffer(h)
  BY <1>1, <1>5 DEF BufferNamesDiffer, BuffersMade
<1> QED BY <1>3, <1>5, <1>7, <1>10, <1>11, <1>12, <1>13, <1>14 DEF HookedUp, HookedGraph, h

-----------------------------------------------------------------------------
(* The readers S of another net are at the end of the readers of net into. *)
Moved(g, h, into, S) ==
  /\ h \in GraphSet /\ h.nodes = g.nodes
  /\ DOMAIN h.pins = DOMAIN g.pins /\ DOMAIN h.nets = DOMAIN g.nets
  /\ S \subseteq DOMAIN g.pins
  /\ \A x \in DOMAIN g.nets : x # into => h.nets[x] = g.nets[x]
  /\ h.nets[into].name = g.nets[into].name /\ h.nets[into].drivers = g.nets[into].drivers
  /\ h.nets[into].live = g.nets[into].live
  /\ \A i \in DOMAIN g.nets[into].fanouts :
       i \in DOMAIN h.nets[into].fanouts /\ h.nets[into].fanouts[i] = g.nets[into].fanouts[i]
  /\ \A i \in DOMAIN h.nets[into].fanouts : i \notin DOMAIN g.nets[into].fanouts =>
       LET p == h.nets[into].fanouts[i]
       IN  p \in S /\ h.pins[p].net = into /\ h.pins[p].place = i
  /\ \A p \in DOMAIN g.pins :
       /\ h.pins[p].name = g.pins[p].name /\ h.pins[p].node = g.pins[p].node
       /\ h.pins[p].slot = g.pins[p].slot /\ h.pins[p].output = g.pins[p].output
       /\ h.pins[p].live = g.pins[p].live
       /\ p \notin S => h.pins[p] = g.pins[p]
       /\ p \in S => /\ h.pins[p].net = into
                     /\ h.pins[p].place \in DOMAIN h.nets[into].fanouts
                     /\ h.pins[p].place \notin DOMAIN g.nets[into].fanouts
                     /\ h.nets[into].fanouts[h.pins[p].place] = p

(* One reader more has moved to the end of the net the buffer reads.       *)
LEMMA MoveOneReader ==
  ASSUME NEW g \in GraphSet, NEW into \in DOMAIN g.nets, NEW h, NEW S, Moved(g, h, into, S),
         NEW p \in DOMAIN g.pins, p \notin S
  PROVE  Moved(g, AddFanoutPinToNet(h, into, p), into, S \cup {p})
<1> DEFINE e == AddFanoutPinToNet(h, into, p)
           t == h.nets[into]
           q == h.pins[p]
           s == Append(t.fanouts, p)
           K == Len(t.fanouts) + 1
           F == DOMAIN g.nets[into].fanouts
<1>0. /\ h \in GraphSet /\ h.nodes = g.nodes
      /\ DOMAIN h.pins = DOMAIN g.pins /\ DOMAIN h.nets = DOMAIN g.nets
      /\ into \in DOMAIN h.nets /\ p \in DOMAIN h.pins
  BY DEF Moved
<1>1. /\ e \in GraphSet /\ e.nodes = h.nodes
      /\ LastNet(e) = LastNet(h) /\ LastPin(e) = LastPin(h)
      /\ \A x \in DOMAIN h.nets : x # into => e.nets[x] = h.nets[x]
      /\ e.nets[into] = [name |-> t.name, drivers |-> t.drivers, fanouts |-> s, live |-> t.live]
      /\ \A x \in DOMAIN h.pins : x # p => e.pins[x] = h.pins[x]
      /\ e.pins[p] = [name |-> q.name, node |-> q.node, slot |-> q.slot, net |-> into,
                      place |-> K, output |-> q.output, live |-> q.live]
  BY <1>0, AddFanoutPinToNetIs, ZenonT(60)
<1> HIDE DEF e
<1>2. /\ DOMAIN e.pins = DOMAIN g.pins /\ DOMAIN e.nets = DOMAIN g.nets
      /\ p \in Nat /\ t \in NetRecord
  BY <1>0, <1>1, GraphType
<1>3. t.fanouts \in Seq(Nat)
  BY <1>2 DEF NetRecord
<1>4. /\ DOMAIN s = DOMAIN t.fanouts \cup {K} /\ K \notin DOMAIN t.fanouts
      /\ s[K] = p /\ \A i \in DOMAIN t.fanouts : s[i] = t.fanouts[i]
  BY <1>2, <1>3, AppendFacts
<1> HIDE DEF s, K
<1>5. /\ e.nets[into].name = t.name /\ e.nets[into].drivers = t.drivers
      /\ e.nets[into].live = t.live /\ e.nets[into].fanouts = s
      /\ e.pins[p].name = q.name /\ e.pins[p].node = q.node /\ e.pins[p].slot = q.slot
      /\ e.pins[p].net = into /\ e.pins[p].place = K
      /\ e.pins[p].output = q.output /\ e.pins[p].live = q.live
  BY <1>1
<1>6. /\ \A x \in DOMAIN g.nets : x # into => e.nets[x] = g.nets[x]
      /\ e.nets[into].name = g.nets[into].name /\ e.nets[into].drivers = g.nets[into].drivers
      /\ e.nets[into].live = g.nets[into].live
  BY <1>0, <1>1, <1>5 DEF Moved
<1>7. \A i \in F : i \in DOMAIN t.fanouts /\ t.fanouts[i] = g.nets[into].fanouts[i]
  BY DEF Moved
<1>8. \A i \in F : i \in DOMAIN s /\ s[i] = g.nets[into].fanouts[i]
  BY <1>4, <1>7
<1>9. ASSUME NEW i \in DOMAIN s, i \notin F
      PROVE  s[i] \in S \cup {p} /\ e.pins[s[i]].net = into /\ e.pins[s[i]].place = i
  <2>1. CASE i = K
    BY <1>4, <1>5, <2>1
  <2>2. CASE i # K
    <3>1. i \in DOMAIN t.fanouts /\ s[i] = t.fanouts[i]
      BY <1>4, <2>2
    <3>2. s[i] \in S /\ h.pins[s[i]].net = into /\ h.pins[s[i]].place = i
      BY <1>9, <3>1 DEF Moved
    <3>3. s[i] \in DOMAIN h.pins /\ s[i] # p
      <4> QED BY <1>0, <3>2 DEF Moved
    <3> QED BY <1>1, <3>2, <3>3
  <2> QED BY <2>1, <2>2
<1>10. ASSUME NEW x \in DOMAIN g.pins
       PROVE  /\ e.pins[x].name = g.pins[x].name /\ e.pins[x].node = g.pins[x].node
              /\ e.pins[x].slot = g.pins[x].slot /\ e.pins[x].output = g.pins[x].output
              /\ e.pins[x].live = g.pins[x].live
              /\ x \notin S \cup {p} => e.pins[x] = g.pins[x]
              /\ x \in S \cup {p} => /\ e.pins[x].net = into
                                     /\ e.pins[x].place \in DOMAIN s
                                     /\ e.pins[x].place \notin F
                                     /\ s[e.pins[x].place] = x
  <2>1. CASE x = p
    <3>1. K \notin F
      BY <1>4, <1>7, Zenon
    <3> QED BY <1>4, <1>5, <2>1, <3>1 DEF Moved
  <2>2. CASE x # p
    <3>1. e.pins[x] = h.pins[x]
      BY <1>0, <1>1, <2>2, Zenon
    <3> QED BY <1>4, <2>2, <3>1 DEF Moved
  <2> QED BY <2>1, <2>2, Zenon
<1>11. Moved(g, e, into, S \cup {p})
  <2>1. S \cup {p} \subseteq DOMAIN g.pins
    BY DEF Moved
  <2>2. e \in GraphSet /\ e.nodes = g.nodes
        /\ DOMAIN e.pins = DOMAIN g.pins /\ DOMAIN e.nets = DOMAIN g.nets
    BY <1>0, <1>1, <1>2 DEF Moved
  <2>3. \A i \in DOMAIN g.nets[into].fanouts :
          i \in DOMAIN e.nets[into].fanouts /\ e.nets[into].fanouts[i] = g.nets[into].fanouts[i]
    BY <1>5, <1>8
  <2>4. \A i \in DOMAIN e.nets[into].fanouts : i \notin DOMAIN g.nets[into].fanouts =>
          LET x == e.nets[into].fanouts[i]
          IN  x \in S \cup {p} /\ e.pins[x].net = into /\ e.pins[x].place = i
    BY <1>5, <1>9
  <2>5. \A x \in DOMAIN g.pins :
          /\ e.pins[x].name = g.pins[x].name /\ e.pins[x].node = g.pins[x].node
          /\ e.pins[x].slot = g.pins[x].slot /\ e.pins[x].output = g.pins[x].output
          /\ e.pins[x].live = g.pins[x].live
          /\ x \notin S \cup {p} => e.pins[x] = g.pins[x]
          /\ x \in S \cup {p} => /\ e.pins[x].net = into
                                /\ e.pins[x].place \in DOMAIN e.nets[into].fanouts
                                /\ e.pins[x].place \notin DOMAIN g.nets[into].fanouts
                                /\ e.nets[into].fanouts[e.pins[x].place] = x
    BY <1>5, <1>10
  <2> QED BY <2>1, <2>2, <2>3, <2>4, <2>5, <1>6, ZenonT(60) DEF Moved
<1> QED BY <1>11 DEF e

(* join_nets moves every reader of the other net.                          *)
LEMMA MovedAll ==
  ASSUME NEW g \in GraphSet, Agree(g), NEW into \in DOMAIN g.nets, NEW other, LiveNet(g, other)
  PROVE  Moved(g, MoveReaders(g, into, g.nets[other].fanouts), into,
               ToSet(g.nets[other].fanouts) \ {Null})
<1> DEFINE s == g.nets[other].fanouts
           S(j) == {s[i] : i \in 1 .. j} \ {Null}
           all == MoveReaders(g, into, s)
<1>1. NetOK(g, other) /\ other \in DOMAIN g.nets
  BY DEF Agree, LiveNet
<1>2. s \in Seq(Nat)
  <2>1. g.nets[other] \in NetRecord
    BY <1>1, GraphType
  <2> QED BY <2>1 DEF NetRecord
<1>3. /\ Len(s) \in Nat /\ DOMAIN s = 1 .. Len(s)
      /\ \A i \in DOMAIN s : s[i] # Null => s[i] \in DOMAIN g.pins
      /\ \A i, j \in DOMAIN s : s[i] # Null /\ s[i] = s[j] => i = j
  <2>1. \A i \in DOMAIN s : s[i] # Null => s[i] \in DOMAIN g.pins /\ g.pins[s[i]].place = i
    BY <1>1 DEF NetOK, FanoutOK, LivePin
  <2> HIDE DEF s
  <2> QED BY <1>2, <2>1
<1> HIDE DEF s
<1>4. PICK f : /\ f[0] = g
               /\ \A k \in 1 .. Len(s) :
                    f[k] = (IF s[k] = Null THEN f[k - 1] ELSE AddFanoutPinToNet(f[k - 1], into, s[k]))
               /\ all = f[Len(s)]
  <2>1. PICK f : IsMoveReaders(f, g, into, s)
    BY <1>3, FoldMoved, Zenon
  <2> QED BY <2>1, Zenon DEF IsMoveReaders
<1> HIDE DEF all
<1> DEFINE T == {j \in Nat : Moved(g, f[j], into, S(j))}
<1>5. 0 \in T
  <2>1. S(0) = {}
    OBVIOUS
  <2>2. Moved(g, g, into, {})
    BY DEF Moved
  <2> HIDE DEF S
  <2> QED BY <1>4, <2>1, <2>2
<1>6. ASSUME NEW j \in 0 .. Len(s) - 1, j \in T PROVE j + 1 \in T
  <2>1. j \in Nat /\ j + 1 \in 1 .. Len(s) /\ (j + 1) - 1 = j /\ 1 .. (j + 1) = (1 .. j) \cup {j + 1}
        /\ j + 1 \notin 1 .. j /\ \A i \in 1 .. j : i \in 1 .. Len(s)
    BY <1>3
  <2> DEFINE p == s[j + 1]
  <2>2. Moved(g, f[j], into, S(j))
    BY <1>6
  <2>3. f[j + 1] = (IF p = Null THEN f[j] ELSE AddFanoutPinToNet(f[j], into, p))
    BY <1>4, <2>1
  <2>4. p # Null => p \in DOMAIN g.pins /\ p \notin S(j)
    BY <1>3, <2>1
  <2>5. S(j + 1) = IF p = Null THEN S(j) ELSE S(j) \cup {p}
    BY <2>1
  <2> HIDE DEF S, p
  <2>6. CASE p = Null
    BY <2>1, <2>2, <2>3, <2>5, <2>6
  <2>7. CASE p # Null
    <3>1. Moved(g, AddFanoutPinToNet(f[j], into, p), into, S(j) \cup {p})
      BY <2>2, <2>4, <2>7, MoveOneReader
    <3>2. Moved(g, f[j + 1], into, S(j + 1))
      BY <2>3, <2>5, <2>7, <3>1
    <3> QED BY <2>1, <3>2
  <2> QED BY <2>6, <2>7
<1>7. Moved(g, all, into, S(Len(s)))
  <2>0. 0 \in T /\ \A j \in 0 .. Len(s) - 1 : j \in T => j + 1 \in T
    BY <1>5, <1>6
  <2> HIDE DEF T
  <2>1. \A j \in 0 .. Len(s) : j \in T
    BY <1>3, <2>0, InductionUpto
  <2>2. Len(s) \in T
    BY <1>3, <2>1
  <2> HIDE DEF S
  <2>3. Moved(g, f[Len(s)], into, S(Len(s)))
    BY <2>2 DEF T
  <2> QED BY <1>4, <2>3
<1>8. S(Len(s)) = ToSet(s) \ {Null}
  BY <1>3 DEF ToSet
<1> QED BY <1>7, <1>8 DEF all, s

(* free_nnet leaves all but its net as it was.                             *)
LEMMA FreeNetIs ==
  ASSUME NEW g \in GraphSet, NEW m \in DOMAIN g.nets
  PROVE  LET h == FreeNet(g, m)
         IN  /\ h \in GraphSet /\ h.nodes = g.nodes /\ h.pins = g.pins
             /\ LastNet(h) = LastNet(g)
             /\ \A x \in DOMAIN g.nets : x # m => h.nets[x] = g.nets[x]
             /\ h.nets[m] = [name |-> g.nets[m].name, drivers |-> g.nets[m].drivers,
                             fanouts |-> g.nets[m].fanouts, live |-> FALSE]
<1> DEFINE r == [g.nets[m] EXCEPT !.live = FALSE]
<1>1. FreeNet(g, m) = PutNet(g, m, r)
  BY Zenon DEF FreeNet, PutNet
<1>2. g.nets[m] \in NetRecord
  BY GraphType
<1>3. r \in NetRecord /\ r = [name |-> g.nets[m].name, drivers |-> g.nets[m].drivers,
                              fanouts |-> g.nets[m].fanouts, live |-> FALSE]
  BY <1>2, NetWithLive
<1> DEFINE h == PutNet(g, m, r)
<1>4. r \in NetRecord
  BY <1>3
<1> HIDE DEF r
<1>5. /\ h \in GraphSet /\ h.nodes = g.nodes /\ h.pins = g.pins
      /\ LastNet(h) = LastNet(g) /\ h.nets[m] = r
      /\ \A x \in DOMAIN g.nets : x # m => h.nets[x] = g.nets[x]
  BY <1>4, PutNetIs
<1> HIDE DEF h
<1> QED BY <1>1, <1>3, <1>5 DEF h

(* An input pin leaves slot i of node n and place k of net m.              *)
PinDeleted(g, h, p, n, m, i, k) ==
  /\ h \in GraphSet
  /\ LastNode(h) = LastNode(g) /\ LastPin(h) = LastPin(g) /\ LastNet(h) = LastNet(g)
  /\ \A x \in DOMAIN g.nodes : x # n => h.nodes[x] = g.nodes[x]
  /\ h.nodes[n] = [type |-> g.nodes[n].type, name |-> g.nodes[n].name,
                   ins |-> [g.nodes[n].ins EXCEPT ![i] = Null],
                   outs |-> g.nodes[n].outs, live |-> g.nodes[n].live]
  /\ \A x \in DOMAIN g.nets : x # m => h.nets[x] = g.nets[x]
  /\ h.nets[m] = [name |-> g.nets[m].name, drivers |-> g.nets[m].drivers,
                  fanouts |-> [g.nets[m].fanouts EXCEPT ![k] = Null],
                  live |-> g.nets[m].live]
  /\ \A x \in DOMAIN g.pins : x # p => h.pins[x] = g.pins[x]
  /\ h.pins[p] = [name |-> g.pins[p].name, node |-> g.pins[p].node,
                  slot |-> g.pins[p].slot, net |-> g.pins[p].net,
                  place |-> g.pins[p].place, output |-> g.pins[p].output, live |-> FALSE]

(* delete_npin empties the slot and the place the pin names.               *)
LEMMA DeletePinIs ==
  ASSUME NEW g \in GraphSet, NEW p \in DOMAIN g.pins, NEW n \in DOMAIN g.nodes,
         NEW m \in DOMAIN g.nets, NEW i \in DOMAIN g.nodes[n].ins, NEW k \in DOMAIN g.nets[m].fanouts,
         g.pins[p].node = n, g.pins[p].net = m, g.pins[p].slot = i, g.pins[p].place = k
  PROVE  PinDeleted(g, DeletePin(g, p), p, n, m, i, k)
<1> DEFINE r0 == [g.nodes[n] EXCEPT !.ins[i] = Null]
           g0 == PutNode(g, n, r0)
           r1 == [g0.nets[m] EXCEPT !.fanouts[k] = Null]
           g1 == PutNet(g0, m, r1)
           r2 == [g1.pins[p] EXCEPT !.live = FALSE]
           g2 == PutPin(g1, p, r2)
<1>1. DeletePin(g, p) = g2
  <2>1. DeletePin(g, p) =
          LET n2 == g.pins[p].node
              m2 == g.pins[p].net
              h0 == PutNode(g, n2, [g.nodes[n2] EXCEPT !.ins[g.pins[p].slot] = Null])
              h1 == PutNet(h0, m2, [h0.nets[m2] EXCEPT !.fanouts[g.pins[p].place] = Null])
          IN  PutPin(h1, p, [h1.pins[p] EXCEPT !.live = FALSE])
    BY Zenon DEF DeletePin, PutNode, PutNet, PutPin
  <2> QED BY <2>1, Zenon
<1>2. /\ g.nodes[n] \in NodeRecord /\ g.nets[m] \in NetRecord /\ g.pins[p] \in PinRecord
      /\ g.nodes[n].ins \in Seq(Nat) /\ g.nets[m].fanouts \in Seq(Nat) /\ Null \in Nat
  <2>1. g.nodes[n] \in NodeRecord /\ g.nets[m] \in NetRecord /\ g.pins[p] \in PinRecord
    BY GraphType
  <2>2. g.nodes[n].ins \in Seq(Nat)
    BY <2>1 DEF NodeRecord
  <2>3. g.nets[m].fanouts \in Seq(Nat)
    BY <2>1 DEF NetRecord
  <2> QED BY <2>1, <2>2, <2>3 DEF Null
<1>3. [g.nodes[n].ins EXCEPT ![i] = Null] \in Seq(Nat)
      /\ [g.nets[m].fanouts EXCEPT ![k] = Null] \in Seq(Nat)
  <2>1. \A s \in Seq(Nat) : \A j \in DOMAIN s : [s EXCEPT ![j] = Null] \in Seq(Nat)
    BY DEF Null
  <2> QED BY <1>2, <2>1
<1>4. r0 \in NodeRecord
      /\ r0 = [type |-> g.nodes[n].type, name |-> g.nodes[n].name,
               ins |-> [g.nodes[n].ins EXCEPT ![i] = Null],
               outs |-> g.nodes[n].outs, live |-> g.nodes[n].live]
  <2> DEFINE r == g.nodes[n]
             s == [r.ins EXCEPT ![i] = Null]
  <2>1. r0 = [r EXCEPT !.ins = s]
    BY Zenon
  <2>2. r \in NodeRecord /\ s \in Seq(Nat)
    BY <1>2, <1>3
  <2>3. [r EXCEPT !.ins = s] \in NodeRecord
        /\ [r EXCEPT !.ins = s] =
             [type |-> r.type, name |-> r.name, ins |-> s, outs |-> r.outs, live |-> r.live]
    BY <2>2, NodeWithIns, Zenon
  <2> HIDE DEF r0
  <2> QED BY <2>1, <2>3
<1> HIDE DEF r0
<1>5. /\ g0 \in GraphSet /\ g0.pins = g.pins /\ g0.nets = g.nets
      /\ LastNode(g0) = LastNode(g) /\ g0.nodes[n] = r0
      /\ \A x \in DOMAIN g.nodes : x # n => g0.nodes[x] = g.nodes[x]
  BY <1>4, PutNodeIs
<1> HIDE DEF g0
<1>6. r1 \in NetRecord
      /\ r1 = [name |-> g.nets[m].name, drivers |-> g.nets[m].drivers,
               fanouts |-> [g.nets[m].fanouts EXCEPT ![k] = Null], live |-> g.nets[m].live]
  <2> DEFINE r == g.nets[m]
             s == [r.fanouts EXCEPT ![k] = Null]
  <2>0. g0.nets[m] = r
    BY <1>5
  <2>1. r1 = [r EXCEPT !.fanouts = s]
    BY <2>0, Zenon
  <2>2. r \in NetRecord /\ s \in Seq(Nat)
    BY <1>2, <1>3
  <2>3. [r EXCEPT !.fanouts = s] \in NetRecord
        /\ [r EXCEPT !.fanouts = s] =
             [name |-> r.name, drivers |-> r.drivers, fanouts |-> s, live |-> r.live]
    BY <2>2, NetWithFanouts, Zenon
  <2> HIDE DEF r1
  <2> QED BY <2>1, <2>3
<1> HIDE DEF r1
<1>7. m \in DOMAIN g0.nets /\ p \in DOMAIN g0.pins
  BY <1>5
<1>8. /\ g1 \in GraphSet /\ g1.nodes = g0.nodes /\ g1.pins = g0.pins
      /\ LastNet(g1) = LastNet(g0) /\ g1.nets[m] = r1
      /\ \A x \in DOMAIN g0.nets : x # m => g1.nets[x] = g0.nets[x]
  BY <1>5, <1>6, <1>7, PutNetIs
<1> HIDE DEF g1
<1>9. r2 \in PinRecord
      /\ r2 = [name |-> g.pins[p].name, node |-> g.pins[p].node,
               slot |-> g.pins[p].slot, net |-> g.pins[p].net,
               place |-> g.pins[p].place, output |-> g.pins[p].output, live |-> FALSE]
  <2> DEFINE r == g.pins[p]
  <2>0. g1.pins[p] = r
    BY <1>5, <1>8
  <2>1. r2 = [r EXCEPT !.live = FALSE]
    BY <2>0, Zenon
  <2>2. r \in PinRecord
    BY <1>2
  <2> HIDE DEF r2, r
  <2>3. [r EXCEPT !.live = FALSE] \in PinRecord
        /\ [r EXCEPT !.live = FALSE] =
             [name |-> r.name, node |-> r.node, slot |-> r.slot, net |-> r.net,
              place |-> r.place, output |-> r.output, live |-> FALSE]
    BY <2>2, PinWithLive
  <2> QED BY <2>1, <2>3 DEF r
<1> HIDE DEF r2
<1>10. /\ g2 \in GraphSet /\ g2.nodes = g1.nodes /\ g2.nets = g1.nets
       /\ LastPin(g2) = LastPin(g1) /\ g2.pins[p] = r2
       /\ \A x \in DOMAIN g1.pins : x # p => g2.pins[x] = g1.pins[x]
  <2>1. g1 \in GraphSet /\ p \in DOMAIN g1.pins
    BY <1>7, <1>8
  <2>2. r2 \in PinRecord
    BY <1>9
  <2> QED BY <2>1, <2>2, PutPinIs
<1> HIDE DEF g2
<1>11. LastNode(g2) = LastNode(g) /\ LastPin(g2) = LastPin(g) /\ LastNet(g2) = LastNet(g)
  BY <1>5, <1>8, <1>10 DEF LastNode, LastPin, LastNet
<1>12. /\ g2.nodes = g0.nodes /\ g2.nets = g1.nets /\ g2.pins[p] = r2
       /\ \A x \in DOMAIN g.pins : x # p => g2.pins[x] = g.pins[x]
       /\ \A x \in DOMAIN g.nets : x # m => g2.nets[x] = g.nets[x]
  BY <1>5, <1>8, <1>10
<1>13. g2.nodes[n] = r0 /\ g2.nets[m] = r1
  BY <1>5, <1>8, <1>12
<1> QED BY <1>1, <1>4, <1>5, <1>6, <1>9, <1>10, <1>11, <1>12, <1>13 DEF PinDeleted

(* free_nnode frees a node with the pins in its slots.                     *)
LEMMA FreeNodeIs ==
  ASSUME NEW g \in GraphSet, NEW n \in DOMAIN g.nodes
  PROVE  LET h == FreeNode(g, n)
             gone == ToSet(g.nodes[n].ins \o g.nodes[n].outs)
         IN  /\ h \in GraphSet /\ h.nets = g.nets
             /\ LastNode(h) = LastNode(g) /\ LastPin(h) = LastPin(g)
             /\ \A x \in DOMAIN g.nodes : x # n => h.nodes[x] = g.nodes[x]
             /\ h.nodes[n] = [type |-> g.nodes[n].type, name |-> g.nodes[n].name,
                              ins |-> g.nodes[n].ins, outs |-> g.nodes[n].outs, live |-> FALSE]
             /\ \A p \in DOMAIN g.pins : p \notin gone => h.pins[p] = g.pins[p]
             /\ \A p \in DOMAIN g.pins : p \in gone =>
                  h.pins[p] = [name |-> g.pins[p].name, node |-> g.pins[p].node,
                               slot |-> g.pins[p].slot, net |-> g.pins[p].net,
                               place |-> g.pins[p].place, output |-> g.pins[p].output, live |-> FALSE]
<1> DEFINE r == [g.nodes[n] EXCEPT !.live = FALSE]
           gone == ToSet(g.nodes[n].ins \o g.nodes[n].outs)
           g0 == PutNode(g, n, r)
           Gone(p) == [g.pins[p] EXCEPT !.live = FALSE]
           F == [p \in DOMAIN g.pins |-> IF p \in gone THEN Gone(p) ELSE g.pins[p]]
           h == [g0 EXCEPT !.pins = F]
<1>1. r \in NodeRecord
      /\ r = [type |-> g.nodes[n].type, name |-> g.nodes[n].name,
              ins |-> g.nodes[n].ins, outs |-> g.nodes[n].outs, live |-> FALSE]
  <2>1. g.nodes[n] \in NodeRecord
    BY GraphType
  <2> QED BY <2>1, NodeWithLive
<1>2. /\ g0 \in GraphSet /\ g0.pins = g.pins /\ g0.nets = g.nets
      /\ LastNode(g0) = LastNode(g) /\ g0.nodes[n] = r
      /\ \A x \in DOMAIN g.nodes : x # n => g0.nodes[x] = g.nodes[x]
  <2>1. r \in NodeRecord
    BY <1>1
  <2> HIDE DEF r
  <2> QED BY <2>1, PutNodeIs
<1>3. FreeNode(g, n) = [g0 EXCEPT !.pins = [p \in DOMAIN g0.pins |->
                            IF p \in gone THEN [g0.pins[p] EXCEPT !.live = FALSE] ELSE g0.pins[p]]]
  BY Zenon DEF FreeNode, PutNode
<1> HIDE DEF g0, r
<1>4. FreeNode(g, n) = h
  BY <1>2, <1>3
<1>5. \A p \in DOMAIN g.pins :
        /\ Gone(p) \in PinRecord
        /\ Gone(p) = [name |-> g.pins[p].name, node |-> g.pins[p].node,
                      slot |-> g.pins[p].slot, net |-> g.pins[p].net,
                      place |-> g.pins[p].place, output |-> g.pins[p].output, live |-> FALSE]
  <2> TAKE p \in DOMAIN g.pins
  <2>1. g.pins[p] \in PinRecord
    BY GraphType
  <2> QED BY <2>1, PinWithLive
<1> HIDE DEF Gone, gone
<1>6. F \in Seq(PinRecord) /\ Len(F) = LastPin(g)
  <2>1. DOMAIN g.pins = 1 .. LastPin(g) /\ LastPin(g) \in Nat
        /\ \A p \in DOMAIN g.pins : g.pins[p] \in PinRecord
    BY GraphType
  <2>2. \A p \in 1 .. LastPin(g) : (IF p \in gone THEN Gone(p) ELSE g.pins[p]) \in PinRecord
    BY <1>5, <2>1
  <2>3. F = [p \in 1 .. LastPin(g) |-> IF p \in gone THEN Gone(p) ELSE g.pins[p]]
    BY <2>1
  <2> QED BY <2>1, <2>2, <2>3
<1>7. \A p \in DOMAIN g.pins : F[p] = IF p \in gone THEN Gone(p) ELSE g.pins[p]
  OBVIOUS
<1> HIDE DEF F
<1>8. h = [nodes |-> g0.nodes, pins |-> F, nets |-> g0.nets]
  BY <1>2, ThreeFields
<1>9. h \in GraphSet /\ h.nets = g0.nets /\ h.nodes = g0.nodes /\ h.pins = F
  <2>1. g0.nodes \in Seq(NodeRecord) /\ g0.nets \in Seq(NetRecord)
    BY <1>2, GraphType
  <2> QED BY <1>6, <1>8, <2>1, GraphMake
<1> HIDE DEF h
<1>10. /\ h \in GraphSet /\ h.nets = g.nets
       /\ LastNode(h) = LastNode(g) /\ LastPin(h) = LastPin(g)
       /\ \A x \in DOMAIN g.nodes : x # n => h.nodes[x] = g.nodes[x]
       /\ h.nodes[n] = r
  BY <1>2, <1>6, <1>9 DEF LastNode, LastPin
<1>11. /\ \A p \in DOMAIN g.pins : p \notin gone => h.pins[p] = g.pins[p]
       /\ \A p \in DOMAIN g.pins : p \in gone => h.pins[p] = Gone(p)
  BY <1>7, <1>9, Zenon
<1> QED BY <1>1, <1>4, <1>5, <1>10, <1>11 DEF gone

-----------------------------------------------------------------------------
(* The removal of buffer n, with input pin q on net into and output pin o  *)
(* on net other.                                                           *)
ReadersOf(g, m) == ToSet(g.nets[m].fanouts) \ {Null}

BufferGone(g, h, n, q, o, into, other) ==
  /\ h \in GraphSet
  /\ DOMAIN h.nodes = DOMAIN g.nodes /\ DOMAIN h.pins = DOMAIN g.pins
  /\ DOMAIN h.nets = DOMAIN g.nets
  /\ \A x \in DOMAIN g.nodes :
       /\ h.nodes[x].type = g.nodes[x].type /\ h.nodes[x].name = g.nodes[x].name
       /\ x # n => h.nodes[x] = g.nodes[x]
  /\ ~h.nodes[n].live
  /\ \A m \in DOMAIN g.nets :
       /\ h.nets[m].name = g.nets[m].name /\ h.nets[m].drivers = g.nets[m].drivers
       /\ m # other => h.nets[m].live = g.nets[m].live
       /\ m # into => h.nets[m].fanouts = g.nets[m].fanouts
  /\ ~h.nets[other].live
  /\ \A i \in DOMAIN g.nets[into].fanouts :
       /\ i \in DOMAIN h.nets[into].fanouts
       /\ h.nets[into].fanouts[i] =
            IF i = g.pins[q].place THEN Null ELSE g.nets[into].fanouts[i]
  /\ \A i \in DOMAIN h.nets[into].fanouts : i \notin DOMAIN g.nets[into].fanouts =>
       LET p == h.nets[into].fanouts[i]
       IN  p \in ReadersOf(g, other) /\ h.pins[p].net = into /\ h.pins[p].place = i
  /\ ReadersOf(g, other) \subseteq DOMAIN g.pins /\ q \notin ReadersOf(g, other)
  /\ \A p \in DOMAIN g.pins :
       /\ h.pins[p].name = g.pins[p].name /\ h.pins[p].node = g.pins[p].node
       /\ h.pins[p].slot = g.pins[p].slot /\ h.pins[p].output = g.pins[p].output
       /\ h.pins[p].live = IF p \in {q, o} THEN FALSE ELSE g.pins[p].live
       /\ p \notin ReadersOf(g, other) =>
            h.pins[p].net = g.pins[p].net /\ h.pins[p].place = g.pins[p].place
       /\ p \in ReadersOf(g, other) =>
            /\ h.pins[p].net = into
            /\ h.pins[p].place \in DOMAIN h.nets[into].fanouts
            /\ h.pins[p].place \notin DOMAIN g.nets[into].fanouts
            /\ h.nets[into].fanouts[h.pins[p].place] = p

(* eliminate_buffer in whole: the readers move, the places of the buffer's *)
(* pins are emptied, and nothing else changes.                             *)
LEMMA BufferGoes ==
  ASSUME NEW g \in GraphSet, Agree(g), Placed(g), NEW n \in DOMAIN g.nodes,
         NEW q, NEW o, NEW into, NEW other,
         g.nodes[n].ins = <<q>>, g.nodes[n].outs = <<o>>,
         LivePin(g, q), g.pins[q].node = n, g.pins[q].slot = 1, ~g.pins[q].output,
         LivePin(g, o), g.pins[o].output,
         g.pins[q].net = into, into # Null, g.pins[o].net = other, into # other
  PROVE  BufferGone(g, FreeNode(DeletePin(JoinNets(g, into, other), q), n), n, q, o, into, other)
<1> DEFINE S == ReadersOf(g, other)
           j == MoveReaders(g, into, g.nets[other].fanouts)
           e == JoinNets(g, into, other)
           d == DeletePin(e, q)
           h == FreeNode(d, n)
           K == g.pins[q].place
           F == DOMAIN g.nets[into].fanouts
<1>1. LiveNet(g, into) /\ LiveNet(g, other) /\ K \in F /\ g.nets[into].fanouts[K] = q
      /\ q \in DOMAIN g.pins /\ o \in DOMAIN g.pins /\ q # o
      /\ into \in DOMAIN g.nets /\ other \in DOMAIN g.nets
  <2>1. PinOK(g, q) /\ PinOK(g, o)
    BY DEF Agree, LivePin
  <2>2. LiveNet(g, into) /\ LiveNet(g, other)
    BY <2>1 DEF PinOK, InPinOK, OutPinOK
  <2>3. K \in F /\ g.nets[into].fanouts[K] = q
    BY DEF Placed, LivePin
  <2> QED BY <2>2, <2>3 DEF LiveNet, LivePin
<1>2. Moved(g, j, into, S)
  BY <1>1, MovedAll DEF ReadersOf
<1>3. q \notin S
  <2> SUFFICES ASSUME q \in S PROVE FALSE
    OBVIOUS
  <2>1. PICK i \in DOMAIN g.nets[other].fanouts : g.nets[other].fanouts[i] = q /\ q # Null
    BY DEF ReadersOf, ToSet
  <2>2. FanoutOK(g, other, i)
    BY <1>1 DEF Agree, LiveNet, NetOK
  <2> QED BY <2>1, <2>2 DEF FanoutOK
<1>4. e = FreeNet(j, other)
  BY Zenon DEF JoinNets, MoveReaders
<1> HIDE DEF j, S
<1>5. /\ j \in GraphSet /\ j.nodes = g.nodes
      /\ DOMAIN j.pins = DOMAIN g.pins /\ DOMAIN j.nets = DOMAIN g.nets
      /\ j.pins[q] = g.pins[q] /\ other \in DOMAIN j.nets
      /\ j.nets[other] = g.nets[other]
      /\ K \in DOMAIN j.nets[into].fanouts
  BY <1>1, <1>2, <1>3 DEF Moved
<1>6. /\ e \in GraphSet /\ e.nodes = j.nodes /\ e.pins = j.pins
      /\ LastNet(e) = LastNet(j)
      /\ \A x \in DOMAIN j.nets : x # other => e.nets[x] = j.nets[x]
      /\ e.nets[other] = [name |-> j.nets[other].name, drivers |-> j.nets[other].drivers,
                          fanouts |-> j.nets[other].fanouts, live |-> FALSE]
  <2>1. LET f == FreeNet(j, other)
        IN  /\ f \in GraphSet /\ f.nodes = j.nodes /\ f.pins = j.pins
            /\ LastNet(f) = LastNet(j)
            /\ \A x \in DOMAIN j.nets : x # other => f.nets[x] = j.nets[x]
            /\ f.nets[other] = [name |-> j.nets[other].name, drivers |-> j.nets[other].drivers,
                                fanouts |-> j.nets[other].fanouts, live |-> FALSE]
    BY <1>5, FreeNetIs
  <2> QED BY <1>4, <2>1, Zenon
<1> HIDE DEF e
<1>7. /\ q \in DOMAIN e.pins /\ n \in DOMAIN e.nodes /\ into \in DOMAIN e.nets
      /\ 1 \in DOMAIN e.nodes[n].ins /\ K \in DOMAIN e.nets[into].fanouts
      /\ e.pins[q].node = n /\ e.pins[q].net = into /\ e.pins[q].slot = 1 /\ e.pins[q].place = K
      /\ e.nets[into] = j.nets[into] /\ e.nodes[n] = g.nodes[n] /\ DOMAIN e.nets = DOMAIN g.nets
      /\ e.pins[q] = g.pins[q]
  <2>1. e.nets[into] = j.nets[into] /\ DOMAIN e.nets = DOMAIN g.nets
    BY <1>1, <1>5, <1>6, GraphType
  <2> QED BY <1>1, <1>5, <1>6, <2>1
<1>8. /\ d \in GraphSet
      /\ LastNode(d) = LastNode(e) /\ LastPin(d) = LastPin(e) /\ LastNet(d) = LastNet(e)
      /\ \A x \in DOMAIN e.nodes : x # n => d.nodes[x] = e.nodes[x]
      /\ d.nodes[n] = [type |-> e.nodes[n].type, name |-> e.nodes[n].name,
                       ins |-> [e.nodes[n].ins EXCEPT ![1] = Null],
                       outs |-> e.nodes[n].outs, live |-> e.nodes[n].live]
      /\ \A x \in DOMAIN e.nets : x # into => d.nets[x] = e.nets[x]
      /\ d.nets[into] = [name |-> e.nets[into].name, drivers |-> e.nets[into].drivers,
                         fanouts |-> [e.nets[into].fanouts EXCEPT ![K] = Null],
                         live |-> e.nets[into].live]
      /\ \A x \in DOMAIN e.pins : x # q => d.pins[x] = e.pins[x]
      /\ d.pins[q] = [name |-> e.pins[q].name, node |-> e.pins[q].node,
                      slot |-> e.pins[q].slot, net |-> e.pins[q].net,
                      place |-> e.pins[q].place, output |-> e.pins[q].output, live |-> FALSE]
  <2>1. PinDeleted(e, d, q, n, into, 1, K)
    BY <1>6, <1>7, DeletePinIs, Zenon
  <2> HIDE DEF d
  <2> QED BY <2>1, Zenon DEF PinDeleted
<1> HIDE DEF d
<1>9. n \in DOMAIN d.nodes /\ DOMAIN d.nodes = DOMAIN g.nodes /\ DOMAIN d.pins = DOMAIN g.pins
      /\ DOMAIN d.nets = DOMAIN g.nets
  BY <1>5, <1>6, <1>7, <1>8, GraphType
<1>10. d.nodes[n].ins = <<Null>> /\ d.nodes[n].outs = <<o>>
  <2>1. [<<q>> EXCEPT ![1] = Null] = <<Null>>
    OBVIOUS
  <2> QED BY <1>7, <1>8, <2>1
<1>11. ToSet(d.nodes[n].ins \o d.nodes[n].outs) = {Null, o}
  <2> DEFINE s == <<Null>>
             t == <<o>>
  <2>1. o \in Nat /\ Null \in Nat
    BY <1>1, GraphType DEF Null
  <2>2. s \in Seq(Nat) /\ t \in Seq(Nat) /\ Len(s) = 1 /\ Len(t) = 1 /\ s[1] = Null /\ t[1] = o
    BY <2>1
  <2> HIDE DEF s, t
  <2>3. s \o t \in Seq(Nat) /\ Len(s \o t) = 2 /\ (s \o t)[1] = Null /\ (s \o t)[2] = o
    BY <2>2, ConcatProperties
  <2>4. DOMAIN (s \o t) = {1, 2}
    BY <2>3
  <2>5. ToSet(s \o t) = {Null, o}
    BY <2>3, <2>4 DEF ToSet
  <2> QED BY <1>10, <2>5 DEF s, t
<1>12. Null \notin DOMAIN g.pins
  BY GraphType DEF Null
<1>13. /\ h \in GraphSet /\ h.nets = d.nets
       /\ LastNode(h) = LastNode(d) /\ LastPin(h) = LastPin(d)
       /\ \A x \in DOMAIN d.nodes : x # n => h.nodes[x] = d.nodes[x]
       /\ h.nodes[n] = [type |-> d.nodes[n].type, name |-> d.nodes[n].name,
                        ins |-> d.nodes[n].ins, outs |-> d.nodes[n].outs, live |-> FALSE]
       /\ \A p \in DOMAIN d.pins : p # o => h.pins[p] = d.pins[p]
       /\ h.pins[o] = [name |-> d.pins[o].name, node |-> d.pins[o].node,
                       slot |-> d.pins[o].slot, net |-> d.pins[o].net,
                       place |-> d.pins[o].place, output |-> d.pins[o].output, live |-> FALSE]
  <2>1. /\ h \in GraphSet /\ h.nets = d.nets
        /\ LastNode(h) = LastNode(d) /\ LastPin(h) = LastPin(d)
        /\ \A x \in DOMAIN d.nodes : x # n => h.nodes[x] = d.nodes[x]
        /\ h.nodes[n] = [type |-> d.nodes[n].type, name |-> d.nodes[n].name,
                         ins |-> d.nodes[n].ins, outs |-> d.nodes[n].outs, live |-> FALSE]
        /\ \A p \in DOMAIN d.pins : p \notin {Null, o} => h.pins[p] = d.pins[p]
        /\ \A p \in DOMAIN d.pins : p \in {Null, o} =>
             h.pins[p] = [name |-> d.pins[p].name, node |-> d.pins[p].node,
                          slot |-> d.pins[p].slot, net |-> d.pins[p].net,
                          place |-> d.pins[p].place, output |-> d.pins[p].output, live |-> FALSE]
    <3> DEFINE gone == ToSet(d.nodes[n].ins \o d.nodes[n].outs)
    <3>1. /\ h \in GraphSet /\ h.nets = d.nets
          /\ LastNode(h) = LastNode(d) /\ LastPin(h) = LastPin(d)
          /\ \A x \in DOMAIN d.nodes : x # n => h.nodes[x] = d.nodes[x]
          /\ h.nodes[n] = [type |-> d.nodes[n].type, name |-> d.nodes[n].name,
                           ins |-> d.nodes[n].ins, outs |-> d.nodes[n].outs, live |-> FALSE]
          /\ \A p \in DOMAIN d.pins : p \notin gone => h.pins[p] = d.pins[p]
          /\ \A p \in DOMAIN d.pins : p \in gone =>
               h.pins[p] = [name |-> d.pins[p].name, node |-> d.pins[p].node,
                            slot |-> d.pins[p].slot, net |-> d.pins[p].net,
                            place |-> d.pins[p].place, output |-> d.pins[p].output, live |-> FALSE]
      BY <1>8, <1>9, FreeNodeIs, Zenon
    <3>2. gone = {Null, o}
      BY <1>11
    <3> HIDE DEF h, gone
    <3> QED BY <3>1, <3>2
  <2> HIDE DEF h
  <2> QED BY <1>1, <1>9, <1>12, <2>1
<1> HIDE DEF h, K, F
<1>14. DOMAIN h.nodes = DOMAIN g.nodes /\ DOMAIN h.pins = DOMAIN g.pins /\ DOMAIN h.nets = DOMAIN g.nets
  BY <1>8, <1>9, <1>13, GraphType
<1>15. \A x \in DOMAIN g.nodes :
         /\ h.nodes[x].type = g.nodes[x].type /\ h.nodes[x].name = g.nodes[x].name
         /\ x # n => h.nodes[x] = g.nodes[x]
  BY <1>5, <1>6, <1>7, <1>8, <1>9, <1>13
<1>16. ~h.nodes[n].live
  BY <1>13
<1>17. ASSUME NEW m \in DOMAIN g.nets
       PROVE  /\ h.nets[m].name = g.nets[m].name /\ h.nets[m].drivers = g.nets[m].drivers
              /\ m # other => h.nets[m].live = g.nets[m].live
              /\ m # into => h.nets[m].fanouts = g.nets[m].fanouts
  <2>1. CASE m = into
    <3>1. /\ j.nets[into].name = g.nets[into].name /\ j.nets[into].drivers = g.nets[into].drivers
          /\ j.nets[into].live = g.nets[into].live
      BY <1>2 DEF Moved
    <3> QED BY <1>7, <1>8, <1>13, <2>1, <3>1
  <2>2. CASE m = other
    BY <1>1, <1>5, <1>6, <1>7, <1>8, <1>13, <2>2
  <2>3. CASE m # into /\ m # other
    <3>1. j.nets[m] = g.nets[m]
      BY <1>2, <2>3 DEF Moved
    <3> QED BY <1>5, <1>6, <1>7, <1>8, <1>13, <2>3, <3>1
  <2> QED BY <2>1, <2>2, <2>3
<1>18. ~h.nets[other].live
  BY <1>1, <1>6, <1>7, <1>8, <1>13
<1>19. /\ DOMAIN h.nets[into].fanouts = DOMAIN j.nets[into].fanouts
       /\ \A i \in DOMAIN j.nets[into].fanouts :
            h.nets[into].fanouts[i] = IF i = K THEN Null ELSE j.nets[into].fanouts[i]
  <2> DEFINE s == e.nets[into].fanouts
  <2>1. h.nets[into].fanouts = [s EXCEPT ![K] = Null]
    BY <1>8, <1>13
  <2>2. s = j.nets[into].fanouts
    BY <1>7
  <2> HIDE DEF s
  <2>3. DOMAIN [s EXCEPT ![K] = Null] = DOMAIN s
        /\ \A i \in DOMAIN s : [s EXCEPT ![K] = Null][i] = IF i = K THEN Null ELSE s[i]
    BY Zenon
  <2> QED BY <2>1, <2>2, <2>3
<1>20. /\ \A i \in DOMAIN g.nets[into].fanouts :
            /\ i \in DOMAIN h.nets[into].fanouts
            /\ h.nets[into].fanouts[i] = IF i = K THEN Null ELSE g.nets[into].fanouts[i]
  BY <1>2, <1>19 DEF Moved
<1>21. ASSUME NEW p \in DOMAIN g.pins
       PROVE  /\ h.pins[p].name = j.pins[p].name /\ h.pins[p].node = j.pins[p].node
              /\ h.pins[p].slot = j.pins[p].slot /\ h.pins[p].output = j.pins[p].output
              /\ h.pins[p].live = IF p \in {q, o} THEN FALSE ELSE j.pins[p].live
              /\ h.pins[p].net = j.pins[p].net /\ h.pins[p].place = j.pins[p].place
  <2>1. e.pins[p] = j.pins[p] /\ p \in DOMAIN e.pins
    BY <1>5, <1>6
  <2>2. CASE p = q
    <3>1. h.pins[p] = d.pins[p]
      BY <1>1, <1>9, <1>13, <2>2
    <3> QED BY <1>8, <2>1, <2>2, <3>1
  <2>3. CASE p = o
    <3>1. d.pins[o] = e.pins[o]
      BY <1>1, <1>8, <2>1, <2>3
    <3>2. /\ h.pins[o].name = d.pins[o].name /\ h.pins[o].node = d.pins[o].node
          /\ h.pins[o].slot = d.pins[o].slot /\ h.pins[o].output = d.pins[o].output
          /\ ~h.pins[o].live /\ h.pins[o].live \in BOOLEAN
          /\ h.pins[o].net = d.pins[o].net /\ h.pins[o].place = d.pins[o].place
      BY <1>13
    <3> QED BY <2>1, <2>3, <3>1, <3>2
  <2>4. CASE p # q /\ p # o
    <3>1. h.pins[p] = e.pins[p]
      BY <1>8, <1>9, <1>13, <2>1, <2>4
    <3> QED BY <2>1, <2>4, <3>1
  <2> QED BY <2>2, <2>3, <2>4
<1>22. ASSUME NEW i \in DOMAIN h.nets[into].fanouts, i \notin DOMAIN g.nets[into].fanouts
       PROVE  LET p == h.nets[into].fanouts[i]
              IN  p \in S /\ h.pins[p].net = into /\ h.pins[p].place = i
  <2>1. i # K
    BY <1>1, <1>22 DEF F
  <2> DEFINE p == h.nets[into].fanouts[i]
  <2>2. p = j.nets[into].fanouts[i]
    BY <1>19, <2>1
  <2>3. p \in S /\ p \in DOMAIN g.pins /\ j.pins[p].net = into /\ j.pins[p].place = i
    BY <1>2, <1>19, <1>22, <2>2 DEF Moved
  <2> QED BY <1>21, <2>3
<1>23. ASSUME NEW p \in DOMAIN g.pins
       PROVE  /\ h.pins[p].name = g.pins[p].name /\ h.pins[p].node = g.pins[p].node
              /\ h.pins[p].slot = g.pins[p].slot /\ h.pins[p].output = g.pins[p].output
              /\ h.pins[p].live = IF p \in {q, o} THEN FALSE ELSE g.pins[p].live
              /\ p \notin S => h.pins[p].net = g.pins[p].net /\ h.pins[p].place = g.pins[p].place
              /\ p \in S => /\ h.pins[p].net = into
                            /\ h.pins[p].place \in DOMAIN h.nets[into].fanouts
                            /\ h.pins[p].place \notin DOMAIN g.nets[into].fanouts
                            /\ h.nets[into].fanouts[h.pins[p].place] = p
  <2>1. /\ j.pins[p].name = g.pins[p].name /\ j.pins[p].node = g.pins[p].node
        /\ j.pins[p].slot = g.pins[p].slot /\ j.pins[p].output = g.pins[p].output
        /\ j.pins[p].live = g.pins[p].live
        /\ p \notin S => j.pins[p] = g.pins[p]
        /\ p \in S => /\ j.pins[p].net = into
                      /\ j.pins[p].place \in DOMAIN j.nets[into].fanouts
                      /\ j.pins[p].place \notin DOMAIN g.nets[into].fanouts
                      /\ j.nets[into].fanouts[j.pins[p].place] = p
    BY <1>2 DEF Moved
  <2>2. p \in S => j.pins[p].place # K
    BY <1>1, <2>1 DEF F
  <2>3. CASE p \in S
    <3> DEFINE x == j.pins[p].place
    <3>1. /\ x \in DOMAIN j.nets[into].fanouts /\ x \notin DOMAIN g.nets[into].fanouts /\ x # K
          /\ j.nets[into].fanouts[x] = p /\ j.pins[p].net = into
      BY <2>1, <2>2, <2>3
    <3>2. x \in DOMAIN h.nets[into].fanouts /\ h.nets[into].fanouts[x] = p
      BY <1>19, <3>1
    <3>3. h.pins[p].place = x
      BY <1>21
    <3> HIDE DEF x
    <3>4. /\ h.pins[p].net = into
          /\ h.pins[p].place \in DOMAIN h.nets[into].fanouts
          /\ h.pins[p].place \notin DOMAIN g.nets[into].fanouts
          /\ h.nets[into].fanouts[h.pins[p].place] = p
      BY <1>21, <3>1, <3>2, <3>3
    <3>5. /\ h.pins[p].name = g.pins[p].name /\ h.pins[p].node = g.pins[p].node
          /\ h.pins[p].slot = g.pins[p].slot /\ h.pins[p].output = g.pins[p].output
          /\ h.pins[p].live = IF p \in {q, o} THEN FALSE ELSE g.pins[p].live
      BY <1>21, <2>1, ZenonT(60)
    <3> QED BY <2>3, <3>4, <3>5
  <2>4. CASE p \notin S
    BY <1>21, <2>1, <2>4, ZenonT(60)
  <2> QED BY <2>3, <2>4
<1>24. S \subseteq DOMAIN g.pins
  BY <1>2 DEF Moved
<1> QED BY <1>3, <1>13, <1>14, <1>15, <1>16, <1>17, <1>18, <1>20, <1>22, <1>23, <1>24, Zenon
        DEF BufferGone, S, h, K, d, e

(* A buffer the mapping removes: its output pin is alone on its net.       *)
Removable(g, n, q, o, into, other) ==
  /\ LiveNode(g, n) /\ g.nodes[n].type = "buf"
  /\ g.nodes[n].ins = <<q>> /\ g.nodes[n].outs = <<o>>
  /\ LivePin(g, q) /\ g.pins[q].node = n /\ g.pins[q].slot = 1 /\ ~g.pins[q].output
  /\ g.pins[q].net = into /\ LiveNet(g, into)
  /\ LivePin(g, o) /\ g.pins[o].node = n /\ g.pins[o].slot = 1 /\ g.pins[o].output
  /\ g.pins[o].net = other /\ LiveNet(g, other) /\ into # other
  /\ g.nets[other].drivers = <<o>>

(* A reader of a live net is a live input pin that names the net.          *)
LEMMA ReadersFacts ==
  ASSUME NEW g, Agree(g), NEW m, LiveNet(g, m), NEW p \in ReadersOf(g, m)
  PROVE  LivePin(g, p) /\ g.pins[p].net = m /\ ~g.pins[p].output
<1>1. PICK i \in DOMAIN g.nets[m].fanouts : g.nets[m].fanouts[i] = p /\ p # Null
  BY DEF ReadersOf, ToSet
<1>2. FanoutOK(g, m, i)
  BY DEF Agree, NetOK, LiveNet
<1> QED BY <1>1, <1>2 DEF FanoutOK

(* The other nodes agree with their pins when a buffer is gone.            *)
LEMMA GoneNodes ==
  ASSUME NEW g \in GraphSet, Agree(g), NEW h, NEW n, NEW q, NEW o, NEW into, NEW other,
         Removable(g, n, q, o, into, other), BufferGone(g, h, n, q, o, into, other),
         NEW x \in DOMAIN h.nodes, h.nodes[x].live
  PROVE  x # n /\ x \in DOMAIN g.nodes /\ g.nodes[x].live /\ h.nodes[x] = g.nodes[x] /\ NodeOK(h, x)
<1>1. x # n /\ x \in DOMAIN g.nodes /\ h.nodes[x] = g.nodes[x] /\ g.nodes[x].live
  BY DEF BufferGone
<1>2. NodeOK(g, x)
  BY <1>1 DEF Agree
<1>3. \A p \in DOMAIN g.pins : g.pins[p].node = x =>
        /\ p \in DOMAIN h.pins /\ h.pins[p].live = g.pins[p].live
        /\ h.pins[p].node = g.pins[p].node /\ h.pins[p].slot = g.pins[p].slot
        /\ h.pins[p].output = g.pins[p].output
  <2>1. g.pins[q].node = n /\ g.pins[o].node = n
    BY DEF Removable
  <2>2. \A p \in DOMAIN g.pins :
          /\ p \in DOMAIN h.pins
          /\ h.pins[p].live = IF p \in {q, o} THEN FALSE ELSE g.pins[p].live
          /\ h.pins[p].node = g.pins[p].node /\ h.pins[p].slot = g.pins[p].slot
          /\ h.pins[p].output = g.pins[p].output
    BY DEF BufferGone
  <2> QED BY <1>1, <2>1, <2>2
<1>4. SlotsKept(g, h, x)
  BY <1>3 DEF SlotsKept
<1> QED BY <1>1, <1>2, <1>4, NodeOKSame

(* The remaining pins agree with their nodes and nets when a buffer is     *)
(* gone.                                                                   *)
LEMMA GonePins ==
  ASSUME NEW g \in GraphSet, Agree(g), Placed(g), NEW h, NEW n, NEW q, NEW o, NEW into, NEW other,
         Removable(g, n, q, o, into, other), BufferGone(g, h, n, q, o, into, other),
         NEW p \in DOMAIN h.pins, h.pins[p].live
  PROVE  p \notin {q, o} /\ p \in DOMAIN g.pins /\ g.pins[p].live /\ PinOK(h, p)
<1>1. p \notin {q, o} /\ p \in DOMAIN g.pins /\ g.pins[p].live
  BY DEF BufferGone
<1>2. PinOK(g, p)
  BY <1>1 DEF Agree
<1>3. /\ h.pins[p].node = g.pins[p].node /\ h.pins[p].slot = g.pins[p].slot
      /\ h.pins[p].output = g.pins[p].output
      /\ p \notin ReadersOf(g, other) =>
            h.pins[p].net = g.pins[p].net /\ h.pins[p].place = g.pins[p].place
      /\ p \in ReadersOf(g, other) => h.pins[p].net = into
  BY <1>1 DEF BufferGone
<1>4. LiveNode(g, g.pins[p].node) /\ g.pins[p].node # n
  <2>1. CASE g.pins[p].output
    <3>1. OutPinOK(g, p)
      BY <1>2, <2>1 DEF PinOK
    <3>2. \A i \in DOMAIN g.nodes[n].outs : g.nodes[n].outs[i] = o
      BY DEF Removable
    <3> QED BY <1>1, <3>1, <3>2 DEF OutPinOK
  <2>2. CASE ~g.pins[p].output
    <3>1. InPinOK(g, p)
      BY <1>2, <2>2 DEF PinOK
    <3>2. \A i \in DOMAIN g.nodes[n].ins : g.nodes[n].ins[i] = q
      BY DEF Removable
    <3> QED BY <1>1, <3>1, <3>2 DEF InPinOK
  <2> QED BY <2>1, <2>2
<1>5. LiveNode(h, g.pins[p].node) /\ h.nodes[g.pins[p].node] = g.nodes[g.pins[p].node]
  BY <1>4 DEF BufferGone, LiveNode
<1>6. \A m : LiveNet(g, m) /\ m # other => LiveNet(h, m) /\ h.nets[m].drivers = g.nets[m].drivers
  BY DEF BufferGone, LiveNet
<1>7. CASE g.pins[p].output
  <2>1. OutPinOK(g, p)
    BY <1>2, <1>7 DEF PinOK
  <2>2. p \notin ReadersOf(g, other)
    BY <1>7, ReadersFacts DEF Removable
  <2>3. g.pins[p].net # other
    <3>1. \A i \in DOMAIN g.nets[other].drivers : g.nets[other].drivers[i] = o
      BY DEF Removable
    <3> QED BY <1>1, <2>1, <3>1 DEF OutPinOK
  <2>4. OutPinOK(h, p)
    BY <1>3, <1>5, <1>6, <2>1, <2>2, <2>3 DEF OutPinOK
  <2> QED BY <1>1, <1>3, <1>7, <2>4 DEF PinOK
<1>8. CASE ~g.pins[p].output
  <2>1. InPinOK(g, p)
    BY <1>2, <1>8 DEF PinOK
  <2>2. LiveNet(h, into)
    BY <1>6 DEF Removable
  <2>3. g.pins[p].net = other => p \in ReadersOf(g, other)
    <3>1. ASSUME g.pins[p].net = other PROVE p \in ReadersOf(g, other)
      <4>1. other # Null /\ p # Null
        BY <1>1, GraphType DEF Removable, LiveNet, Null
      <4>2. g.pins[p].place \in DOMAIN g.nets[other].fanouts
            /\ g.nets[other].fanouts[g.pins[p].place] = p
        BY <1>1, <1>8, <3>1, <4>1 DEF Placed
      <4> QED BY <4>1, <4>2 DEF ReadersOf, ToSet
    <3> QED BY <3>1
  <2>4. InPinOK(h, p)
    BY <1>3, <1>5, <1>6, <2>1, <2>2, <2>3 DEF InPinOK
  <2> QED BY <1>1, <1>3, <1>8, <2>4 DEF PinOK
<1> QED BY <1>1, <1>7, <1>8

(* The remaining nets agree with their pins when a buffer is gone.         *)
LEMMA GoneNets ==
  ASSUME NEW g \in GraphSet, Agree(g), Placed(g), NEW h, NEW n, NEW q, NEW o, NEW into, NEW other,
         Removable(g, n, q, o, into, other), BufferGone(g, h, n, q, o, into, other),
         NEW m \in DOMAIN h.nets, h.nets[m].live
  PROVE  m # other /\ m \in DOMAIN g.nets /\ g.nets[m].live /\ NetOK(h, m)
<1>1. m # other /\ m \in DOMAIN g.nets /\ g.nets[m].live
      /\ h.nets[m].drivers = g.nets[m].drivers
  BY DEF BufferGone
<1>2. NetOK(g, m)
  BY <1>1 DEF Agree
<1>3. \A p \in DOMAIN g.pins :
        /\ p \in DOMAIN h.pins /\ h.pins[p].output = g.pins[p].output
        /\ p \notin {q, o} => h.pins[p].live = g.pins[p].live
        /\ p \notin ReadersOf(g, other) =>
              h.pins[p].net = g.pins[p].net /\ h.pins[p].place = g.pins[p].place
  BY DEF BufferGone
<1>4. \A p \in ReadersOf(g, other) : LivePin(g, p) /\ g.pins[p].net = other /\ ~g.pins[p].output
  BY ReadersFacts DEF Removable
<1>5. \A k \in DOMAIN h.nets[m].drivers : DriverOK(h, m, k)
  <2> TAKE k \in DOMAIN h.nets[m].drivers
  <2> DEFINE p == g.nets[m].drivers[k]
  <2>1. LivePin(g, p) /\ g.pins[p].net = m /\ g.pins[p].place = k /\ g.pins[p].output
    BY <1>1, <1>2 DEF NetOK, DriverOK
  <2>2. p # q /\ p # o
    BY <1>1, <2>1 DEF Removable
  <2>3. p \notin ReadersOf(g, other)
    BY <1>4, <2>1, Zenon
  <2> QED BY <1>1, <1>3, <2>1, <2>2, <2>3 DEF DriverOK, LivePin
<1>6. ASSUME NEW k \in DOMAIN g.nets[m].fanouts, g.nets[m].fanouts[k] # Null, g.nets[m].fanouts[k] # q
      PROVE  LET p == g.nets[m].fanouts[k]
             IN  LivePin(h, p) /\ h.pins[p].net = m /\ h.pins[p].place = k /\ ~h.pins[p].output
  <2> DEFINE p == g.nets[m].fanouts[k]
  <2>1. LivePin(g, p) /\ g.pins[p].net = m /\ g.pins[p].place = k /\ ~g.pins[p].output
    BY <1>2, <1>6 DEF NetOK, FanoutOK
  <2>2. p # o
    BY <2>1 DEF Removable
  <2>3. p \notin ReadersOf(g, other)
    BY <1>1, <1>4, <2>1
  <2> QED BY <1>3, <1>6, <2>1, <2>2, <2>3, Zenon DEF LivePin
<1>7. \A k \in DOMAIN h.nets[m].fanouts : FanoutOK(h, m, k)
  <2>1. CASE m # into
    <3>1. h.nets[m].fanouts = g.nets[m].fanouts
      BY <1>1, <2>1 DEF BufferGone
    <3>2. \A k \in DOMAIN g.nets[m].fanouts : g.nets[m].fanouts[k] # Null => g.nets[m].fanouts[k] # q
      BY <1>2, <2>1 DEF NetOK, FanoutOK, Removable
    <3> QED BY <1>6, <3>1, <3>2 DEF FanoutOK
  <2>2. CASE m = into
    <3> TAKE k \in DOMAIN h.nets[m].fanouts
    <3>1. CASE k \in DOMAIN g.nets[into].fanouts
      <4>1. h.nets[into].fanouts[k] = IF k = g.pins[q].place THEN Null ELSE g.nets[into].fanouts[k]
        BY <3>1 DEF BufferGone
      <4>2. g.nets[into].fanouts[k] # Null /\ g.nets[into].fanouts[k] = q => k = g.pins[q].place
        BY <1>2, <2>2, <3>1 DEF NetOK, FanoutOK
      <4> QED BY <1>6, <2>2, <3>1, <4>1, <4>2 DEF FanoutOK
    <3>2. CASE k \notin DOMAIN g.nets[into].fanouts
      <4> DEFINE p == h.nets[into].fanouts[k]
      <4>1. p \in ReadersOf(g, other) /\ h.pins[p].net = into /\ h.pins[p].place = k
            /\ q \notin ReadersOf(g, other)
        BY <2>2, <3>2 DEF BufferGone
      <4>2. LivePin(g, p) /\ ~g.pins[p].output
        BY <1>4, <4>1
      <4>3. p # o /\ p # q
        BY <4>1, <4>2 DEF Removable
      <4>4. LivePin(h, p) /\ ~h.pins[p].output
        BY <1>3, <4>2, <4>3, Zenon DEF LivePin
      <4> QED BY <2>2, <4>1, <4>4 DEF FanoutOK
    <3> QED BY <3>1, <3>2
  <2> QED BY <2>1, <2>2, Zenon
<1> QED BY <1>1, <1>5, <1>7 DEF NetOK

(* All pointers agree when a buffer is gone.                               *)
LEMMA GoneAgree ==
  ASSUME NEW g \in GraphSet, Agree(g), Placed(g), NEW h, NEW n, NEW q, NEW o, NEW into, NEW other,
         Removable(g, n, q, o, into, other), BufferGone(g, h, n, q, o, into, other)
  PROVE  Agree(h)
BY GoneNodes, GonePins, GoneNets DEF Agree

(* Every reader is where it says when a buffer is gone.                    *)
LEMMA GonePlaced ==
  ASSUME NEW g \in GraphSet, Agree(g), Placed(g), NEW h, NEW n, NEW q, NEW o, NEW into, NEW other,
         Removable(g, n, q, o, into, other), BufferGone(g, h, n, q, o, into, other)
  PROVE  Placed(h)
<1> SUFFICES ASSUME NEW p \in DOMAIN h.pins, h.pins[p].live, ~h.pins[p].output, h.pins[p].net # Null
             PROVE  h.pins[p].place \in DOMAIN h.nets[h.pins[p].net].fanouts
                    /\ h.nets[h.pins[p].net].fanouts[h.pins[p].place] = p
  BY DEF Placed
<1>1. p \notin {q, o} /\ p \in DOMAIN g.pins /\ g.pins[p].live
  BY DEF BufferGone
<1>2. CASE p \in ReadersOf(g, other)
  <2>1. h.pins[p].net = into /\ h.pins[p].place \in DOMAIN h.nets[into].fanouts
        /\ h.nets[into].fanouts[h.pins[p].place] = p
    BY <1>1, <1>2 DEF BufferGone
  <2> QED BY <2>1
<1>3. CASE p \notin ReadersOf(g, other)
  <2> DEFINE m == g.pins[p].net
             k == g.pins[p].place
  <2>1. h.pins[p].net = m /\ h.pins[p].place = k /\ ~g.pins[p].output
    BY <1>1, <1>3 DEF BufferGone
  <2>2. k \in DOMAIN g.nets[m].fanouts /\ g.nets[m].fanouts[k] = p
    BY <1>1, <2>1 DEF Placed
  <2>3. m \in DOMAIN g.nets
    BY <1>1, <2>1 DEF Agree, PinOK, InPinOK, LiveNet
  <2>4. CASE m = into
    <3>1. g.nets[into].fanouts[g.pins[q].place] = q
      <4>1. q \in DOMAIN g.pins /\ g.pins[q].live /\ ~g.pins[q].output /\ g.pins[q].net = into /\ into # Null
        BY <2>1, <2>4 DEF Removable, LivePin
      <4> QED BY <4>1 DEF Placed
    <3>2. k # g.pins[q].place
      BY <1>1, <2>2, <2>4, <3>1, Zenon
    <3> QED BY <2>1, <2>2, <2>4, <3>2 DEF BufferGone
  <2>5. CASE m # into
    <3>1. h.nets[m].fanouts = g.nets[m].fanouts
      BY <2>3, <2>5 DEF BufferGone
    <3> QED BY <2>1, <2>2, <3>1
  <2> QED BY <2>4, <2>5
<1> QED BY <1>2, <1>3, Zenon

(* Taking a buffer out changes only what the mapping may change.           *)
LEMMA GoneReshaped ==
  ASSUME NEW g \in GraphSet, Agree(g), NEW h, NEW n, NEW q, NEW o, NEW into, NEW other,
         Removable(g, n, q, o, into, other), BufferGone(g, h, n, q, o, into, other)
  PROVE  Reshaped(g, h)
<1>1. DOMAIN h.nodes = DOMAIN g.nodes /\ DOMAIN h.pins = DOMAIN g.pins
      /\ DOMAIN h.nets = DOMAIN g.nets
  BY DEF BufferGone
<1>2. \A x \in DOMAIN g.nodes :
        /\ h.nodes[x].type = g.nodes[x].type /\ h.nodes[x].name = g.nodes[x].name
        /\ x # n => h.nodes[x] = g.nodes[x]
  BY DEF BufferGone
<1>3. ~h.nodes[n].live /\ g.nodes[n].type = "buf"
  BY DEF BufferGone, Removable
<1>4. \A p \in DOMAIN g.pins :
        /\ h.pins[p].name = g.pins[p].name /\ h.pins[p].node = g.pins[p].node
        /\ h.pins[p].slot = g.pins[p].slot /\ h.pins[p].output = g.pins[p].output
        /\ h.pins[p].live = IF p \in {q, o} THEN FALSE ELSE g.pins[p].live
        /\ p \notin ReadersOf(g, other) =>
              h.pins[p].net = g.pins[p].net /\ h.pins[p].place = g.pins[p].place
  BY DEF BufferGone
<1>5. \A p \in ReadersOf(g, other) : ~g.pins[p].output
  BY ReadersFacts DEF Removable
<1>6. \A m \in DOMAIN g.nets :
        h.nets[m].name = g.nets[m].name /\ h.nets[m].drivers = g.nets[m].drivers
  BY DEF BufferGone
<1> QED BY <1>1, <1>2, <1>3, <1>4, <1>5, <1>6 DEF Reshaped

(* What Reshaped keeps of the names and drivers.                           *)
LEMMA ReshapedKeeps ==
  ASSUME NEW g, NEW h, Reshaped(g, h)
  PROVE  /\ Driven(g) => Driven(h)
         /\ NetNamesDiffer(g) => NetNamesDiffer(h)
         /\ BufferNamesDiffer(g) => BufferNamesDiffer(h)
<1>1. Driven(g) => Driven(h)
  BY DEF Reshaped, Driven
<1>2. NetNamesDiffer(g) => NetNamesDiffer(h)
  BY DEF Reshaped, NetNamesDiffer
<1>3. BufferNamesDiffer(g) => BufferNamesDiffer(h)
  BY DEF Reshaped, BufferNamesDiffer
<1> QED BY <1>1, <1>2, <1>3

(* Taking a buffer out keeps what is known of the imported netlist.        *)
LEMMA GoneKeeps ==
  ASSUME NEW g \in GraphSet, Placed(g), NEW h, NEW n, NEW q, NEW o, NEW into, NEW other,
         NEW d \in Designs, HookedGraph(g, d),
         Removable(g, n, q, o, into, other), BufferGone(g, h, n, q, o, into, other)
  PROVE  HookedGraph(h, d) /\ Placed(h) /\ Reshaped(g, h)
<1>0. Agree(g) /\ h \in GraphSet
  BY DEF HookedGraph, BufferGone
<1>1. Agree(h) /\ Placed(h) /\ Reshaped(g, h)
  BY <1>0, GoneAgree, GonePlaced, GoneReshaped
<1>2. Layout(h, d, Len(d.cells), Len(d.connections))
  BY <1>0, <1>1, LayoutReshaped DEF HookedGraph
<1>3. Driven(h) /\ NetNamesDiffer(h) /\ BufferNamesDiffer(h)
  BY <1>1, ReshapedKeeps, Zenon DEF HookedGraph
<1>4. PinNamesOK(h)
  <2>1. PinNamesOK(g)
    BY DEF HookedGraph
  <2>2. \A p \in DOMAIN h.pins :
          /\ p \in DOMAIN g.pins
          /\ h.pins[p].name = g.pins[p].name /\ h.pins[p].node = g.pins[p].node
          /\ h.pins[p].slot = g.pins[p].slot /\ h.pins[p].output = g.pins[p].output
          /\ h.pins[p].live => g.pins[p].live
    BY DEF BufferGone
  <2>3. \A x \in DOMAIN g.nodes :
          h.nodes[x].type = g.nodes[x].type /\ h.nodes[x].name = g.nodes[x].name
    BY DEF BufferGone
  <2>4. \A p \in DOMAIN g.pins : g.pins[p].live => g.pins[p].node \in DOMAIN g.nodes
    BY DEF HookedGraph, Agree, PinOK, InPinOK, OutPinOK, LiveNode
  <2> SUFFICES ASSUME NEW p \in DOMAIN h.pins, h.pins[p].live, h.pins[p].output
               PROVE  h.pins[p].name \in DriverNames(h.nodes[h.pins[p].node], h.pins[p].slot)
    BY DEF PinNamesOK
  <2>5. g.pins[p].name \in DriverNames(g.nodes[g.pins[p].node], g.pins[p].slot)
    BY <2>1, <2>2 DEF PinNamesOK
  <2>6. g.pins[p].node \in DOMAIN g.nodes
    BY <2>2, <2>4
  <2> QED BY <2>2, <2>3, <2>5, <2>6 DEF DriverNames
<1>5. AllHooked(h)
  <2> SUFFICES ASSUME NEW p \in DOMAIN h.pins, h.pins[p].live, ~h.pins[p].output
               PROVE  h.pins[p].net # Null
    BY DEF AllHooked
  <2>1. p \in DOMAIN g.pins /\ g.pins[p].live /\ ~g.pins[p].output
        /\ (p \notin ReadersOf(g, other) => h.pins[p].net = g.pins[p].net)
        /\ (p \in ReadersOf(g, other) => h.pins[p].net = into)
    BY DEF BufferGone
  <2>2. into # Null
    BY GraphType DEF Removable, LiveNet, Null
  <2> QED BY <2>1, <2>2 DEF HookedGraph, AllHooked
<1> QED BY <1>0, <1>1, <1>2, <1>3, <1>4, <1>5 DEF HookedGraph

-----------------------------------------------------------------------------
(* instantiate_hard_block gives names to output pins of n that have none.  *)
Named(g, h, n) ==
  /\ h \in GraphSet /\ h.nodes = g.nodes /\ h.nets = g.nets
  /\ DOMAIN h.pins = DOMAIN g.pins
  /\ \A p \in DOMAIN g.pins :
       /\ h.pins[p].node = g.pins[p].node /\ h.pins[p].slot = g.pins[p].slot
       /\ h.pins[p].net = g.pins[p].net /\ h.pins[p].place = g.pins[p].place
       /\ h.pins[p].output = g.pins[p].output /\ h.pins[p].live = g.pins[p].live
       /\ h.pins[p].name =
            IF g.pins[p].node = n /\ g.pins[p].output /\ g.pins[p].name = NoName
            THEN <<g.nodes[n].name, g.pins[p].slot>> ELSE g.pins[p].name

(* instantiate_hard_block names the output pins of its node that have no   *)
(* name and changes nothing else.                                          *)
LEMMA InstantiateNames ==
  ASSUME NEW g \in GraphSet, NEW n \in DOMAIN g.nodes
  PROVE  Named(g, InstantiateHardBlock(g, n), n)
<1> DEFINE New(p) == g.pins[p].node = n /\ g.pins[p].output /\ g.pins[p].name = NoName
           With(p) == [g.pins[p] EXCEPT !.name = <<g.nodes[n].name, g.pins[p].slot>>]
           F == [p \in DOMAIN g.pins |-> IF New(p) THEN With(p) ELSE g.pins[p]]
           h == [g EXCEPT !.pins = F]
<1>1. InstantiateHardBlock(g, n) = h
  BY Zenon DEF InstantiateHardBlock
<1>2. \A p \in DOMAIN g.pins :
        /\ With(p) \in PinRecord
        /\ With(p) = [name |-> <<g.nodes[n].name, g.pins[p].slot>>, node |-> g.pins[p].node,
                      slot |-> g.pins[p].slot, net |-> g.pins[p].net,
                      place |-> g.pins[p].place, output |-> g.pins[p].output,
                      live |-> g.pins[p].live]
  <2> TAKE p \in DOMAIN g.pins
  <2> DEFINE r == g.pins[p]
             y == <<g.nodes[n].name, g.pins[p].slot>>
  <2>1. r \in PinRecord /\ g.nodes[n] \in NodeRecord
    BY GraphType
  <2>2. y \in PinNames
    BY <2>1 DEF PinNames, PinRecord, NodeRecord
  <2> HIDE DEF r, y
  <2>3. [r EXCEPT !.name = y] \in PinRecord
        /\ [r EXCEPT !.name = y] = [name |-> y, node |-> r.node, slot |-> r.slot, net |-> r.net,
                                    place |-> r.place, output |-> r.output, live |-> r.live]
    BY <2>1, <2>2, PinWithName
  <2> QED BY <2>3 DEF r, y
<1>3. \A p \in DOMAIN g.pins : g.pins[p] \in PinRecord
  BY GraphType
<1> HIDE DEF New, With
<1>4. F \in Seq(PinRecord) /\ Len(F) = LastPin(g)
  <2>1. DOMAIN g.pins = 1 .. LastPin(g) /\ LastPin(g) \in Nat
    BY GraphType
  <2>2. \A p \in 1 .. LastPin(g) : (IF New(p) THEN With(p) ELSE g.pins[p]) \in PinRecord
    BY <1>2, <1>3, <2>1
  <2>3. F = [p \in 1 .. LastPin(g) |-> IF New(p) THEN With(p) ELSE g.pins[p]]
    BY <2>1
  <2> QED BY <2>1, <2>2, <2>3
<1>5. \A p \in DOMAIN g.pins : F[p] = IF New(p) THEN With(p) ELSE g.pins[p]
  OBVIOUS
<1> HIDE DEF F
<1>6. h = [nodes |-> g.nodes, pins |-> F, nets |-> g.nets]
  BY ThreeFields
<1>7. h \in GraphSet /\ h.nets = g.nets /\ h.nodes = g.nodes /\ h.pins = F
  <2>1. g.nodes \in Seq(NodeRecord) /\ g.nets \in Seq(NetRecord)
    BY GraphType
  <2> HIDE DEF h
  <2> QED BY <1>4, <1>6, <2>1, GraphMake DEF h
<1> HIDE DEF h
<1>8. DOMAIN h.pins = DOMAIN g.pins
  BY <1>4, <1>7, GraphType
<1>9. ASSUME NEW p \in DOMAIN g.pins
      PROVE  /\ h.pins[p].node = g.pins[p].node /\ h.pins[p].slot = g.pins[p].slot
             /\ h.pins[p].net = g.pins[p].net /\ h.pins[p].place = g.pins[p].place
             /\ h.pins[p].output = g.pins[p].output /\ h.pins[p].live = g.pins[p].live
             /\ h.pins[p].name = IF New(p) THEN <<g.nodes[n].name, g.pins[p].slot>> ELSE g.pins[p].name
  BY <1>2, <1>5, <1>7
<1> QED BY <1>1, <1>7, <1>8, <1>9 DEF Named, New

(* Names do not matter to pointers.                                        *)
LEMMA NamedAgree ==
  ASSUME NEW g \in GraphSet, Agree(g), NEW h, NEW n, Named(g, h, n)
  PROVE  Agree(h)
<1>1. /\ h.nodes = g.nodes /\ h.nets = g.nets /\ DOMAIN h.pins = DOMAIN g.pins
      /\ \A p \in DOMAIN g.pins :
           /\ h.pins[p].node = g.pins[p].node /\ h.pins[p].slot = g.pins[p].slot
           /\ h.pins[p].net = g.pins[p].net /\ h.pins[p].place = g.pins[p].place
           /\ h.pins[p].output = g.pins[p].output /\ h.pins[p].live = g.pins[p].live
  BY DEF Named
<1>2. \A x : NodeOK(g, x) => NodeOK(h, x)
  <2>1. ASSUME NEW x, NodeOK(g, x) PROVE NodeOK(h, x)
    BY <1>1, <2>1, NodeOKSame DEF SlotsKept
  <2> QED BY <2>1
<1>3. \A m : NetOK(g, m) => NetOK(h, m)
  <2>1. ASSUME NEW m, NetOK(g, m) PROVE NetOK(h, m)
    <3>1. PlacesKept(g, h, m)
      BY <1>1 DEF PlacesKept
    <3>2. FewerPlaces(g, h, m)
      BY <1>1 DEF FewerPlaces
    <3>3. h.nets[m].drivers = g.nets[m].drivers
      BY <1>1
    <3> QED BY <2>1, <3>1, <3>2, <3>3, NetOKSame
  <2> QED BY <2>1
<1>4. \A p \in DOMAIN g.pins : PinOK(g, p) => PinOK(h, p)
  <2>1. ASSUME NEW p \in DOMAIN g.pins, OutPinOK(g, p) PROVE OutPinOK(h, p)
    BY <1>1, <2>1, ZenonT(60) DEF OutPinOK, LiveNode, LiveNet
  <2>2. ASSUME NEW p \in DOMAIN g.pins, InPinOK(g, p) PROVE InPinOK(h, p)
    BY <1>1, <2>2, ZenonT(60) DEF InPinOK, LiveNode, LiveNet
  <2>3. \A p \in DOMAIN g.pins : h.pins[p].output = g.pins[p].output
    BY <1>1
  <2> QED BY <2>1, <2>2, <2>3, Zenon DEF PinOK
<1> QED BY <1>1, <1>2, <1>3, <1>4 DEF Agree

(* Naming pins keeps what is known of the imported netlist.                *)
LEMMA NamedKeeps ==
  ASSUME NEW g \in GraphSet, NEW d \in Designs, HookedGraph(g, d), NEW h, NEW n \in DOMAIN g.nodes,
         g.nodes[n].type = "skip", Named(g, h, n)
  PROVE  HookedGraph(h, d) /\ (Placed(g) => Placed(h)) /\ Reshaped(g, h)
<1>0. Agree(g) /\ h \in GraphSet
  BY DEF HookedGraph, Named
<1>1. /\ h.nodes = g.nodes /\ h.nets = g.nets /\ DOMAIN h.pins = DOMAIN g.pins
      /\ \A p \in DOMAIN g.pins :
           /\ h.pins[p].node = g.pins[p].node /\ h.pins[p].slot = g.pins[p].slot
           /\ h.pins[p].net = g.pins[p].net /\ h.pins[p].place = g.pins[p].place
           /\ h.pins[p].output = g.pins[p].output /\ h.pins[p].live = g.pins[p].live
           /\ ~g.pins[p].output => h.pins[p].name = g.pins[p].name
  BY DEF Named
<1>2. Agree(h)
  BY <1>0, NamedAgree
<1>3. Reshaped(g, h)
  <2>1. \A x \in DOMAIN g.nodes : g.nodes[x].live => g.nodes[x].live
    OBVIOUS
  <2> QED BY <1>1 DEF Reshaped
<1>4. Layout(h, d, Len(d.cells), Len(d.connections))
  BY <1>0, <1>3, LayoutReshaped DEF HookedGraph
<1>5. Driven(h) /\ NetNamesDiffer(h) /\ BufferNamesDiffer(h)
  BY <1>3, ReshapedKeeps DEF HookedGraph
<1>6. AllHooked(h)
  BY <1>1 DEF HookedGraph, AllHooked
<1>7. Placed(g) => Placed(h)
  BY <1>1 DEF Placed
<1>8. PinNamesOK(h)
  <2> SUFFICES ASSUME NEW p \in DOMAIN h.pins, h.pins[p].live, h.pins[p].output
               PROVE  h.pins[p].name \in DriverNames(h.nodes[h.pins[p].node], h.pins[p].slot)
    BY DEF PinNamesOK
  <2>1. p \in DOMAIN g.pins /\ g.pins[p].live /\ g.pins[p].output
        /\ h.pins[p].node = g.pins[p].node /\ h.pins[p].slot = g.pins[p].slot
    BY <1>1
  <2>2. g.pins[p].name \in DriverNames(g.nodes[g.pins[p].node], g.pins[p].slot)
    BY <2>1 DEF HookedGraph, PinNamesOK
  <2>3. h.pins[p].name = g.pins[p].name \/
        (g.pins[p].node = n /\ h.pins[p].name = <<g.nodes[n].name, g.pins[p].slot>>)
    BY <2>1 DEF Named
  <2>4. <<g.nodes[n].name, g.pins[p].slot>> \in DriverNames(g.nodes[n], g.pins[p].slot)
    BY DEF DriverNames
  <2> QED BY <1>1, <2>1, <2>2, <2>3, <2>4
<1> QED BY <1>0, <1>2, <1>3, <1>4, <1>5, <1>6, <1>7, <1>8 DEF HookedGraph

-----------------------------------------------------------------------------
(* remove_unused_logic empties places of nets.                             *)
Trimmed(g, h, useless) ==
  /\ h \in GraphSet /\ h.nodes = g.nodes /\ h.pins = g.pins
  /\ DOMAIN h.nets = DOMAIN g.nets
  /\ \A m \in DOMAIN g.nets :
       /\ h.nets[m].name = g.nets[m].name /\ h.nets[m].drivers = g.nets[m].drivers
       /\ h.nets[m].live = g.nets[m].live
       /\ DOMAIN h.nets[m].fanouts = DOMAIN g.nets[m].fanouts
       /\ \A k \in DOMAIN g.nets[m].fanouts :
            LET p == g.nets[m].fanouts[k]
            IN  h.nets[m].fanouts[k] = IF p # Null /\ g.pins[p].node \in useless THEN Null ELSE p

(* remove_unused_logic empties the places of the readers of useless nodes  *)
(* and changes nothing else.                                               *)
LEMMA SweepTrims ==
  ASSUME graph \in GraphSet, RemoveUnusedLogic
  PROVE  Trimmed(graph, graph', Useless)
<1> DEFINE g == graph
           U == Useless
           To(p) == IF p # Null /\ g.pins[p].node \in U THEN Null ELSE p
           Cut(m) == [k \in DOMAIN g.nets[m].fanouts |-> To(g.nets[m].fanouts[k])]
           With(m) == [g.nets[m] EXCEPT !.fanouts = Cut(m)]
           F == [m \in DOMAIN g.nets |-> With(m)]
           h == [g EXCEPT !.nets = F]
<1>1. graph' = h
  <2>1. graph' = [graph EXCEPT !.nets =
                    [m \in DOMAIN graph.nets |-> WithoutReaders(graph.nets[m], Useless)]]
    BY Zenon DEF RemoveUnusedLogic
  <2>2. \A m \in DOMAIN g.nets : WithoutReaders(g.nets[m], Useless) = With(m)
    BY Zenon DEF WithoutReaders
  <2>3. [m \in DOMAIN graph.nets |-> WithoutReaders(graph.nets[m], Useless)] = F
    <3> HIDE DEF With
    <3> QED BY <2>2
  <2> QED BY <2>1, <2>3, Zenon
<1> HIDE DEF U
<1>2. \A m \in DOMAIN g.nets :
        /\ With(m) \in NetRecord
        /\ With(m) = [name |-> g.nets[m].name, drivers |-> g.nets[m].drivers,
                      fanouts |-> Cut(m), live |-> g.nets[m].live]
        /\ DOMAIN Cut(m) = DOMAIN g.nets[m].fanouts
        /\ \A k \in DOMAIN g.nets[m].fanouts : Cut(m)[k] = To(g.nets[m].fanouts[k])
  <2> TAKE m \in DOMAIN g.nets
  <2> DEFINE r == g.nets[m]
             s == r.fanouts
             y == Cut(m)
  <2>1. r \in NetRecord
    BY GraphType
  <2>2. s \in Seq(Nat)
    BY <2>1 DEF NetRecord
  <2>3. \A p \in Nat : To(p) \in Nat
    BY DEF Null
  <2> HIDE DEF To
  <2>4. y \in Seq(Nat)
    <3>1. y = [k \in DOMAIN s |-> To(s[k])]
      OBVIOUS
    <3>2. Len(s) \in Nat /\ DOMAIN s = 1 .. Len(s) /\ \A k \in DOMAIN s : s[k] \in Nat
      BY <2>2
    <3> HIDE DEF s, y
    <3> QED BY <2>3, <3>1, <3>2
  <2>5. DOMAIN y = DOMAIN s /\ \A k \in DOMAIN s : y[k] = To(s[k])
    OBVIOUS
  <2> HIDE DEF r, y, Cut
  <2>6. [r EXCEPT !.fanouts = y] \in NetRecord
        /\ [r EXCEPT !.fanouts = y] = [name |-> r.name, drivers |-> r.drivers, fanouts |-> y, live |-> r.live]
    BY <2>1, <2>4, NetWithFanouts
  <2> QED BY <2>5, <2>6, Zenon DEF r, y
<1> HIDE DEF With, Cut
<1>3. F \in Seq(NetRecord) /\ Len(F) = LastNet(g)
  <2>1. DOMAIN g.nets = 1 .. LastNet(g) /\ LastNet(g) \in Nat
    BY GraphType
  <2>2. F = [m \in 1 .. LastNet(g) |-> With(m)]
    BY <2>1
  <2> QED BY <1>2, <2>1, <2>2
<1>4. \A m \in DOMAIN g.nets : F[m] = With(m)
  OBVIOUS
<1> HIDE DEF F
<1>5. h = [nodes |-> g.nodes, pins |-> g.pins, nets |-> F]
  BY ThreeFields
<1>6. h \in GraphSet /\ h.nets = F /\ h.nodes = g.nodes /\ h.pins = g.pins
  <2>1. g.nodes \in Seq(NodeRecord) /\ g.pins \in Seq(PinRecord)
    BY GraphType
  <2> HIDE DEF h
  <2> QED BY <1>3, <1>5, <2>1, GraphMake DEF h
<1> HIDE DEF h
<1>7. DOMAIN h.nets = DOMAIN g.nets
  BY <1>3, <1>6, GraphType
<1>8. ASSUME NEW m \in DOMAIN g.nets
      PROVE  /\ h.nets[m].name = g.nets[m].name /\ h.nets[m].drivers = g.nets[m].drivers
             /\ h.nets[m].live = g.nets[m].live
             /\ DOMAIN h.nets[m].fanouts = DOMAIN g.nets[m].fanouts
             /\ \A k \in DOMAIN g.nets[m].fanouts : h.nets[m].fanouts[k] = To(g.nets[m].fanouts[k])
  BY <1>2, <1>4, <1>6
<1> QED BY <1>1, <1>6, <1>7, <1>8 DEF Trimmed, U

(* The sweep keeps what is known of the imported netlist.                  *)
LEMMA TrimmedKeeps ==
  ASSUME NEW g \in GraphSet, NEW d \in Designs, HookedGraph(g, d), NEW h, NEW U, Trimmed(g, h, U)
  PROVE  HookedGraph(h, d) /\ Reshaped(g, h)
<1>0. Agree(g) /\ h \in GraphSet
  BY DEF HookedGraph, Trimmed
<1>1. /\ h.nodes = g.nodes /\ h.pins = g.pins /\ DOMAIN h.nets = DOMAIN g.nets
      /\ \A m \in DOMAIN g.nets :
           /\ h.nets[m].name = g.nets[m].name /\ h.nets[m].drivers = g.nets[m].drivers
           /\ h.nets[m].live = g.nets[m].live
           /\ DOMAIN h.nets[m].fanouts = DOMAIN g.nets[m].fanouts
           /\ \A k \in DOMAIN g.nets[m].fanouts : h.nets[m].fanouts[k] \in {Null, g.nets[m].fanouts[k]}
  BY DEF Trimmed
<1>2. \A x : NodeOK(g, x) => NodeOK(h, x)
  <2>1. ASSUME NEW x, NodeOK(g, x) PROVE NodeOK(h, x)
    BY <1>1, <2>1, NodeOKSame DEF SlotsKept
  <2> QED BY <2>1
<1>3. \A m \in DOMAIN g.nets : NetOK(g, m) => NetOK(h, m)
  <2>1. ASSUME NEW m \in DOMAIN g.nets, NetOK(g, m) PROVE NetOK(h, m)
    <3>1. PlacesKept(g, h, m)
      BY <1>1 DEF PlacesKept
    <3>2. FewerPlaces(g, h, m)
      BY <1>1 DEF FewerPlaces
    <3>3. h.nets[m].drivers = g.nets[m].drivers
      BY <1>1
    <3> QED BY <2>1, <3>1, <3>2, <3>3, NetOKSame
  <2> QED BY <2>1
<1>4. \A p \in DOMAIN g.pins : PinOK(g, p) => PinOK(h, p)
  <2>1. ASSUME NEW p \in DOMAIN g.pins, OutPinOK(g, p) PROVE OutPinOK(h, p)
    BY <1>1, <2>1, ZenonT(60) DEF OutPinOK, LiveNode, LiveNet
  <2>2. ASSUME NEW p \in DOMAIN g.pins, InPinOK(g, p) PROVE InPinOK(h, p)
    BY <1>1, <2>2, ZenonT(60) DEF InPinOK, LiveNode, LiveNet
  <2>3. \A p \in DOMAIN g.pins : h.pins[p].output = g.pins[p].output
    BY <1>1
  <2> QED BY <2>1, <2>2, <2>3, Zenon DEF PinOK
<1>5. Agree(h)
  BY <1>0, <1>1, <1>2, <1>3, <1>4 DEF Agree
<1>6. Reshaped(g, h)
  BY <1>1 DEF Reshaped
<1>7. Layout(h, d, Len(d.cells), Len(d.connections))
  BY <1>0, <1>6, LayoutReshaped DEF HookedGraph
<1>8. Driven(h) /\ NetNamesDiffer(h) /\ BufferNamesDiffer(h)
  BY <1>6, ReshapedKeeps DEF HookedGraph
<1>9. AllHooked(h) /\ PinNamesOK(h)
  BY <1>1 DEF HookedGraph, AllHooked, PinNamesOK
<1> QED BY <1>0, <1>5, <1>6, <1>7, <1>8, <1>9 DEF HookedGraph

-----------------------------------------------------------------------------
(* The stack of calls.                                                     *)
LEMMA StackFacts ==
  ASSUME NEW cs \in Seq(CallRecord), cs # <<>>
  PROVE  LET L == Len(cs)
         IN  /\ L \in Nat \ {0} /\ DOMAIN cs = 1 .. L
             /\ Last(cs) = cs[L] /\ cs[L] \in CallRecord
             /\ Front(cs) \in Seq(CallRecord) /\ DOMAIN Front(cs) = 1 .. L - 1
             /\ \A i \in 1 .. L - 1 : Front(cs)[i] = cs[i]
<1> DEFINE L == Len(cs)
           R == CallRecord
<1>0. cs \in Seq(R)
  OBVIOUS
<1> HIDE DEF R
<1>1. L \in Nat \ {0} /\ DOMAIN cs = 1 .. L /\ \A i \in 1 .. L : cs[i] \in R
  BY <1>0
<1>2. Last(cs) = cs[L]
  BY DEF Last
<1>3. Front(cs) = [i \in 1 .. L - 1 |-> cs[i]]
  BY <1>1 DEF Front
<1>4. L - 1 \in Nat /\ L \in 1 .. L /\ \A i \in 1 .. L - 1 : i \in 1 .. L
  BY <1>1
<1> HIDE DEF L
<1>5. Front(cs) \in Seq(R) /\ DOMAIN Front(cs) = 1 .. L - 1
      /\ \A i \in 1 .. L - 1 : Front(cs)[i] = cs[i]
  BY <1>1, <1>3, <1>4
<1> QED BY <1>1, <1>2, <1>4, <1>5 DEF L, R

(* What a new call does to the stack.                                      *)
LEMMA StackPush ==
  ASSUME NEW cs \in Seq(CallRecord), NEW c \in CallRecord
  PROVE  LET e == Append(cs, c)
         IN  /\ e \in Seq(CallRecord) /\ e # <<>>
             /\ DOMAIN e = DOMAIN cs \cup {Len(cs) + 1} /\ Len(cs) + 1 \notin DOMAIN cs
             /\ e[Len(cs) + 1] = c /\ \A i \in DOMAIN cs : e[i] = cs[i]
<1> DEFINE R == CallRecord
<1>0. cs \in Seq(R) /\ c \in R
  OBVIOUS
<1> HIDE DEF R
<1>1. LET e == Append(cs, c)
      IN  /\ e \in Seq(R) /\ e # <<>>
          /\ DOMAIN e = DOMAIN cs \cup {Len(cs) + 1} /\ Len(cs) + 1 \notin DOMAIN cs
          /\ e[Len(cs) + 1] = c /\ \A i \in DOMAIN cs : e[i] = cs[i]
  BY <1>0
<1> QED BY <1>1 DEF R

(* What a call that goes on does to the stack.                             *)
LEMMA StackReplace ==
  ASSUME NEW cs \in Seq(CallRecord), cs # <<>>, NEW c \in CallRecord
  PROVE  LET e == Append(Front(cs), c)
         IN  /\ e \in Seq(CallRecord) /\ DOMAIN e = DOMAIN cs
             /\ e[Len(cs)] = c /\ \A i \in DOMAIN cs : i # Len(cs) => e[i] = cs[i]
<1> DEFINE f == Front(cs)
           L == Len(cs)
<1>1. /\ L \in Nat \ {0} /\ DOMAIN cs = 1 .. L
      /\ f \in Seq(CallRecord) /\ DOMAIN f = 1 .. L - 1
      /\ \A i \in 1 .. L - 1 : f[i] = cs[i]
  BY StackFacts
<1> HIDE DEF f, L
<1>2. Len(f) = L - 1 /\ Len(f) + 1 = L
  BY <1>1
<1>3. /\ Append(f, c) \in Seq(CallRecord)
      /\ DOMAIN Append(f, c) = DOMAIN f \cup {Len(f) + 1}
      /\ Append(f, c)[Len(f) + 1] = c /\ \A i \in DOMAIN f : Append(f, c)[i] = f[i]
  BY <1>1, StackPush
<1>4. DOMAIN f \cup {L} = 1 .. L /\ \A i \in 1 .. L : i # L => i \in 1 .. L - 1
  BY <1>1
<1> QED BY <1>1, <1>2, <1>3, <1>4 DEF f, L

(* A call goes on to the next reader.                                      *)
LEMMA CallNextReader ==
  ASSUME NEW c \in CallRecord
  PROVE  [c EXCEPT !.reader = @ + 1] = [node |-> c.node, pin |-> c.pin, reader |-> c.reader + 1, net |-> c.net]
         /\ [c EXCEPT !.reader = @ + 1] \in CallRecord
BY DEF CallRecord

(* The running call goes on with another reader or pin of its node.        *)
LEMMA CallsContinue ==
  ASSUME NEW g, NEW M, NEW cs, CallsOK(g, M, cs), cs # <<>>,
         NEW c \in CallRecord, CallOK(g, M, c), c.node = Last(cs).node
  PROVE  CallsOK(g, M, Append(Front(cs), c))
<1> DEFINE e == Append(Front(cs), c)
           L == Len(cs)
<1>1. cs \in Seq(CallRecord)
  BY DEF CallsOK
<1>2. L \in DOMAIN cs /\ Last(cs) = cs[L]
  BY <1>1, StackFacts
<1>3. /\ e \in Seq(CallRecord) /\ DOMAIN e = DOMAIN cs
      /\ e[L] = c /\ \A i \in DOMAIN cs : i # L => e[i] = cs[i]
  BY <1>1, StackReplace
<1> HIDE DEF e, L
<1>4. \A k \in DOMAIN cs : e[k].node = cs[k].node
  BY <1>2, <1>3
<1>5. \A k \in DOMAIN e : CallOK(g, M, e[k])
  BY <1>3 DEF CallsOK
<1>6. \A j, k \in DOMAIN e : e[j].node = e[k].node => j = k
  BY <1>3, <1>4 DEF CallsOK
<1> QED BY <1>3, <1>5, <1>6 DEF CallsOK, e

(* A call for a node that is marked now.                                   *)
LEMMA CallsPush ==
  ASSUME NEW g, NEW M, NEW cs, CallsOK(g, M, cs), NEW c \in CallRecord,
         CallOK(g, M \cup {c.node}, c), cs = <<>> \/ c.node \notin M
  PROVE  CallsOK(g, M \cup {c.node}, Append(cs, c))
<1> DEFINE e == Append(cs, c)
           L == Len(cs) + 1
<1>1. cs \in Seq(CallRecord)
  BY DEF CallsOK
<1>2. /\ e \in Seq(CallRecord)
      /\ DOMAIN e = DOMAIN cs \cup {L} /\ L \notin DOMAIN cs
      /\ e[L] = c /\ \A i \in DOMAIN cs : e[i] = cs[i]
  BY <1>1, StackPush
<1>3. cs = <<>> => DOMAIN cs = {}
  OBVIOUS
<1> HIDE DEF e, L
<1>4. \A k \in DOMAIN e : CallOK(g, M \cup {c.node}, e[k])
  BY <1>2 DEF CallsOK, CallOK
<1>5. \A k \in DOMAIN cs : cs[k].node \in M
  BY DEF CallsOK, CallOK
<1>6. \A j, k \in DOMAIN e : e[j].node = e[k].node => j = k
  BY <1>2, <1>3, <1>5 DEF CallsOK
<1> QED BY <1>2, <1>4, <1>6 DEF CallsOK, e

(* Returning leaves the other calls, none of which is of the node that is  *)
(* left.                                                                   *)
LEMMA CallsPop ==
  ASSUME NEW g, NEW M, NEW cs, CallsOK(g, M, cs), cs # <<>>
  PROVE  /\ CallsOK(g, M, Front(cs))
         /\ \A k \in DOMAIN Front(cs) : Front(cs)[k].node # Last(cs).node
<1> DEFINE e == Front(cs)
           L == Len(cs)
<1>1. cs \in Seq(CallRecord)
  BY DEF CallsOK
<1>2. /\ e \in Seq(CallRecord) /\ Last(cs) = cs[L] /\ L \in DOMAIN cs
      /\ \A i \in DOMAIN e : i \in DOMAIN cs /\ i # L /\ e[i] = cs[i]
  <2>1. /\ L \in Nat \ {0} /\ DOMAIN cs = 1 .. L /\ Last(cs) = cs[L]
        /\ e \in Seq(CallRecord) /\ DOMAIN e = 1 .. L - 1
        /\ \A i \in 1 .. L - 1 : e[i] = cs[i]
    BY <1>1, StackFacts
  <2> HIDE DEF e, L
  <2>2. L \in 1 .. L /\ \A i \in 1 .. L - 1 : i \in 1 .. L /\ i # L
    BY <2>1
  <2> QED BY <2>1, <2>2
<1> HIDE DEF e, L
<1>3. \A k \in DOMAIN e : CallOK(g, M, e[k])
  BY <1>2 DEF CallsOK
<1>4. \A j, k \in DOMAIN e : e[j].node = e[k].node => j = k
  BY <1>2 DEF CallsOK
<1>5. \A k \in DOMAIN e : e[k].node # cs[L].node
  BY <1>2 DEF CallsOK
<1> QED BY <1>2, <1>3, <1>4, <1>5 DEF CallsOK, e

(* The outputs of a live node stay on their nets.                          *)
LEMMA NetOfReshaped ==
  ASSUME NEW g \in GraphSet, Agree(g), NEW h, Reshaped(g, h), NEW n, LiveNode(h, n)
  PROVE  LiveNode(g, n) /\ h.nodes[n] = g.nodes[n] /\ \A i : NetOf(h, n, i) = NetOf(g, n, i)
<1>1. LiveNode(g, n) /\ h.nodes[n] = g.nodes[n]
  BY DEF Reshaped, LiveNode
<1>2. ASSUME NEW i \in DOMAIN g.nodes[n].outs
      PROVE  h.pins[g.nodes[n].outs[i]].net = g.pins[g.nodes[n].outs[i]].net
  <2>1. OutSlotOK(g, n, i)
    BY <1>1 DEF Agree, NodeOK, LiveNode
  <2> QED BY <2>1 DEF OutSlotOK, LivePin, Reshaped
<1> QED BY <1>1, <1>2 DEF NetOf

(* The calls in progress survive what happens to the netlist below them,   *)
(* as long as their nodes do.                                              *)
LEMMA CallsReshaped ==
  ASSUME NEW g \in GraphSet, Agree(g), NEW h, Reshaped(g, h), NEW M, NEW cs, CallsOK(g, M, cs),
         \A k \in DOMAIN cs : LiveNode(h, cs[k].node)
  PROVE  CallsOK(h, M, cs)
<1>1. ASSUME NEW k \in DOMAIN cs PROVE CallOK(h, M, cs[k])
  <2>1. CallOK(g, M, cs[k]) /\ LiveNode(h, cs[k].node)
    BY DEF CallsOK
  <2>2. h.nodes[cs[k].node] = g.nodes[cs[k].node]
        /\ \A i : NetOf(h, cs[k].node, i) = NetOf(g, cs[k].node, i)
    BY <2>1, NetOfReshaped
  <2> QED BY <2>1, <2>2 DEF CallOK
<1> QED BY <1>1 DEF CallsOK

(* The net of a pin that a live node drives.                               *)
LEMMA NetOfLive ==
  ASSUME NEW g \in GraphSet, Agree(g), NEW n, LiveNode(g, n), NEW i \in DOMAIN g.nodes[n].outs
  PROVE  LiveNet(g, NetOf(g, n, i)) /\ NetOf(g, n, i) # Null
<1> DEFINE p == g.nodes[n].outs[i]
<1>1. OutSlotOK(g, n, i)
  BY DEF Agree, NodeOK, LiveNode
<1>2. LivePin(g, p) /\ g.pins[p].output
  BY <1>1 DEF OutSlotOK
<1>3. OutPinOK(g, p)
  BY <1>2, Zenon DEF Agree, PinOK, LivePin
<1>4. LiveNet(g, g.pins[p].net)
  BY <1>3, Zenon DEF OutPinOK
<1>5. g.pins[p].net # Null
  <2>1. DOMAIN g.nets = 1 .. LastNet(g) /\ LastNet(g) \in Nat
    BY GraphType, Zenon
  <2>2. g.pins[p].net \in DOMAIN g.nets
    BY <1>4 DEF LiveNet
  <2> HIDE DEF p
  <2> QED BY <2>1, <2>2 DEF Null
<1> QED BY <1>4, <1>5 DEF NetOf

(* A reader of a live net is an input of a live node.                      *)
LEMMA ReaderLive ==
  ASSUME NEW g \in GraphSet, Agree(g), NEW m, LiveNet(g, m), NEW k \in DOMAIN g.nets[m].fanouts,
         g.nets[m].fanouts[k] # Null
  PROVE  LET p == g.nets[m].fanouts[k]
         IN  LivePin(g, p) /\ ~g.pins[p].output /\ g.pins[p].net = m /\ g.pins[p].place = k
             /\ LiveNode(g, g.pins[p].node) /\ InPinOK(g, p)
<1> DEFINE p == g.nets[m].fanouts[k]
<1>1. FanoutOK(g, m, k)
  BY Zenon DEF Agree, NetOK, LiveNet
<1>2. LivePin(g, p) /\ ~g.pins[p].output /\ g.pins[p].net = m /\ g.pins[p].place = k
  BY <1>1 DEF FanoutOK
<1>3. InPinOK(g, p)
  BY <1>2 DEF Agree, PinOK, LivePin
<1> QED BY <1>2, <1>3, Zenon DEF InPinOK

(* The roots of a traversal are the nodes of the constants and inputs.     *)
LEMMA RootFacts ==
  ASSUME NEW d \in Designs, design = d
  PROVE  /\ DOMAIN Roots = 1 .. SourceCount(d) /\ SourceCount(d) \in Nat
         /\ \A i \in DOMAIN Roots : Roots[i] \in 1 .. SourceCount(d)
         /\ \A n \in 1 .. SourceCount(d) : \E i \in DOMAIN Roots : Roots[i] = n
<1> DEFINE I == Len(d.inputs)
           C == SourceCount(d)
           s == Inputs(d)
           t == <<Gnd, Vcc, Pad>>
<1>1. I \in Nat /\ DOMAIN d.inputs = 1 .. I /\ C = 3 + I
  BY DesignFacts
<1>2. s = [i \in 1 .. I |-> 3 + i]
  BY <1>1 DEF Inputs
<1>3. s \in Seq(Nat) /\ Len(s) = I /\ \A i \in 1 .. I : s[i] = 3 + i
  <2> HIDE DEF I, s
  <2> QED BY <1>1, <1>2
<1>4. t \in Seq(Nat) /\ Len(t) = 3 /\ t[1] = 1 /\ t[2] = 2 /\ t[3] = 3
  BY DEF Gnd, Vcc, Pad
<1>5. Roots = IF stage = "map" THEN s \o t ELSE t \o s
  BY DEF Roots
<1> HIDE DEF I, s, t, C
<1>6. CASE stage = "map"
  <2>0. /\ s \o t \in Seq(Nat) /\ Len(s \o t) = Len(s) + Len(t)
        /\ \A i \in 1 .. Len(s) + Len(t) : (s \o t)[i] = IF i <= Len(s) THEN s[i] ELSE t[i - Len(s)]
    BY <1>3, <1>4, ConcatProperties
  <2>1. /\ s \o t \in Seq(Nat) /\ Len(s \o t) = I + 3
        /\ \A i \in 1 .. I + 3 : (s \o t)[i] = IF i <= I THEN s[i] ELSE t[i - I]
    BY <1>3, <1>4, <2>0
  <2> DEFINE r == s \o t
  <2>2. DOMAIN r = 1 .. I + 3
    BY <2>1
  <2>3. \A i \in 1 .. I + 3 : r[i] = IF i <= I THEN 3 + i ELSE i - I
    <3> TAKE i \in 1 .. I + 3
    <3>1. i \in 1 .. I \/ i = I + 1 \/ i = I + 2 \/ i = I + 3
      BY <1>1
    <3>2. (I + 1) - I = 1 /\ (I + 2) - I = 2 /\ (I + 3) - I = 3
      BY <1>1
    <3> QED BY <1>1, <1>3, <1>4, <2>1, <3>1, <3>2
  <2>4. Roots = r
    BY <1>5, <1>6
  <2> HIDE DEF r
  <2>5. \A i \in 1 .. I + 3 : r[i] \in 1 .. C
    BY <1>1, <2>3
  <2>7. DOMAIN Roots = 1 .. C
    BY <1>1, <2>2, <2>4
  <2>6. ASSUME NEW n \in 1 .. C PROVE \E i \in 1 .. I + 3 : r[i] = n
    <3>1. CASE n > 3
      <4>1. n - 3 \in 1 .. I + 3 /\ n - 3 <= I /\ 3 + (n - 3) = n
        BY <1>1, <3>1
      <4> QED BY <2>3, <4>1
    <3>2. CASE n <= 3
      <4>1. I + n \in 1 .. I + 3 /\ ~(I + n <= I) /\ (I + n) - I = n
        BY <1>1, <3>2
      <4> QED BY <2>3, <4>1
    <3> QED BY <1>1, <3>1, <3>2
  <2>9. /\ DOMAIN Roots = 1 .. C /\ C \in Nat
        /\ \A i \in DOMAIN Roots : Roots[i] \in 1 .. C
        /\ \A n \in 1 .. C : \E i \in DOMAIN Roots : Roots[i] = n
    <3>1. 1 .. C = 1 .. I + 3
      BY <1>1
    <3>2. \A i \in 1 .. C : Roots[i] \in 1 .. C
      BY <2>4, <2>5, <3>1
    <3>3. \A n \in 1 .. C : \E i \in 1 .. C : Roots[i] = n
      BY <2>4, <2>6, <3>1
    <3>4. C \in Nat
      BY <1>1
    <3> QED BY <2>7, <3>2, <3>3, <3>4
  <2> QED BY <2>9 DEF C
<1>7. CASE stage # "map"
  <2>0. /\ t \o s \in Seq(Nat) /\ Len(t \o s) = Len(t) + Len(s)
        /\ \A i \in 1 .. Len(t) + Len(s) : (t \o s)[i] = IF i <= Len(t) THEN t[i] ELSE s[i - Len(t)]
    BY <1>3, <1>4, ConcatProperties
  <2>1. /\ t \o s \in Seq(Nat) /\ Len(t \o s) = 3 + I
        /\ \A i \in 1 .. 3 + I : (t \o s)[i] = IF i <= 3 THEN t[i] ELSE s[i - 3]
    BY <1>3, <1>4, <2>0
  <2> DEFINE r == t \o s
  <2>2. DOMAIN r = 1 .. 3 + I
    BY <2>1
  <2>3. \A i \in 1 .. 3 + I : r[i] = i
    <3> TAKE i \in 1 .. 3 + I
    <3>1. CASE i <= 3
      <4>1. i = 1 \/ i = 2 \/ i = 3
        BY <1>1, <3>1
      <4> QED BY <1>4, <2>1, <3>1, <4>1
    <3>2. CASE ~(i <= 3)
      <4>1. i - 3 \in 1 .. I /\ 3 + (i - 3) = i
        BY <1>1, <3>2
      <4> QED BY <1>3, <2>1, <3>2, <4>1
    <3> QED BY <3>1, <3>2
  <2>4. Roots = r
    BY <1>5, <1>7
  <2> HIDE DEF r
  <2>9. /\ DOMAIN Roots = 1 .. C /\ C \in Nat
        /\ \A i \in DOMAIN Roots : Roots[i] \in 1 .. C
        /\ \A n \in 1 .. C : \E i \in DOMAIN Roots : Roots[i] = n
    BY <1>1, <2>2, <2>3, <2>4
  <2> QED BY <2>9 DEF C
<1> QED BY <1>6, <1>7

(* The constants and inputs are never freed.                               *)
LEMMA RootLive ==
  ASSUME NEW d \in Designs, NEW g, HookedGraph(g, d), NEW n \in 1 .. SourceCount(d)
  PROVE  LiveNode(g, n) /\ g.nodes[n].type \in {"constant", "input"}
<1>1. SourceHas(g, d, n)
  BY DEF HookedGraph, Layout
<1> QED BY <1>1 DEF SourceHas, NodeIs, NodeHas, LiveNode, SourceType

(* Which nodes are buffers, and what they look like.                       *)
LEMMA BufferIs ==
  ASSUME NEW d \in Designs, NEW g, HookedGraph(g, d), NEW n, LiveNode(g, n), g.nodes[n].type = "buf"
  PROVE  \E j \in 1 .. Len(d.connections) : BufferFor(g, d, n, j)
<1>0. Layout(g, d, Len(d.cells), Len(d.connections)) /\ g \in GraphSet
  BY DEF HookedGraph
<1> DEFINE C == SourceCount(d)
           O == Len(d.outputs)
           N == Len(d.cells)
<1>1. C \in Nat /\ O \in Nat /\ N \in Nat /\ Before(d) = C + O
  BY DesignFacts DEF Before
<1>2. n \in Nat /\ n >= 1
  BY <1>0, GraphType DEF LiveNode
<1>3. ASSUME n <= Before(d) + N PROVE FALSE
  <2>1. CASE n <= C
    <3>1. SourceHas(g, d, n)
      BY <1>0, <1>1, <1>2, <2>1 DEF Layout
    <3> QED BY <3>1 DEF SourceHas, NodeIs, NodeHas, SourceType
  <2>2. CASE n > C /\ n <= C + O
    <3>1. n - C \in 1 .. O /\ C + (n - C) = n
      BY <1>1, <1>2, <2>2
    <3>2. OutputHas(g, d, n - C)
      BY <1>0, <3>1 DEF Layout
    <3> QED BY <3>1, <3>2, Zenon DEF OutputHas, NodeIs, NodeHas
  <2>3. CASE n > C + O
    <3> DEFINE B == Before(d)
    <3>1. n - B \in 1 .. N /\ B + (n - B) = n
      BY <1>1, <1>2, <1>3, <2>3
    <3>2. CellHas(g, d, n - B)
      BY <1>0, <3>1 DEF Layout
    <3> QED BY <3>1, <3>2, Zenon DEF CellHas, NodeIs, NodeHas
  <2> QED BY <1>1, <1>2, <2>1, <2>2, <2>3
<1>4. n > Before(d) + N
  BY <1>1, <1>2, <1>3
<1> QED BY <1>0, <1>4 DEF Layout, LiveNode

(* A sequence of length one.                                               *)
LEMMA OneElement ==
  ASSUME NEW s \in Seq(Nat), Len(s) = 1
  PROVE  s = <<s[1]>> /\ DOMAIN s = {1}
OBVIOUS

(* The pins of a live buffer.                                              *)
BufferShape(g, n, q, o) ==
  /\ g.nodes[n].ins = <<q>> /\ g.nodes[n].outs = <<o>>
  /\ DOMAIN g.nodes[n].outs = {1}
  /\ LivePin(g, q) /\ g.pins[q].node = n /\ g.pins[q].slot = 1 /\ ~g.pins[q].output
  /\ LiveNet(g, g.pins[q].net)
  /\ LivePin(g, o) /\ g.pins[o].node = n /\ g.pins[o].slot = 1 /\ g.pins[o].output
  /\ LiveNet(g, g.pins[o].net)
  /\ g.pins[o].place \in DOMAIN g.nets[g.pins[o].net].drivers
  /\ g.nets[g.pins[o].net].drivers[g.pins[o].place] = o

(* A live buffer has one input pin and one output pin, each on a live net. *)
LEMMA BufferPins ==
  ASSUME NEW d \in Designs, NEW g, HookedGraph(g, d), NEW n, LiveNode(g, n), g.nodes[n].type = "buf"
  PROVE  BufferShape(g, n, g.nodes[n].ins[1], g.nodes[n].outs[1])
<1> DEFINE q == g.nodes[n].ins[1]
           o == g.nodes[n].outs[1]
<1>1. g \in GraphSet /\ Agree(g) /\ AllHooked(g)
  BY DEF HookedGraph
<1>2. PICK j \in 1 .. Len(d.connections) : BufferFor(g, d, n, j)
  BY BufferIs
<1>3. g.nodes[n].ins \in Seq(Nat) /\ g.nodes[n].outs \in Seq(Nat)
  <2>1. g.nodes[n] \in NodeRecord
    BY <1>1, GraphType, Zenon DEF LiveNode
  <2> QED BY <2>1 DEF NodeRecord
<1>4. Len(g.nodes[n].ins) = 1 /\ Len(g.nodes[n].outs) = 1
  <2>1. \A x : Len(<<x>>) = 1
    OBVIOUS
  <2> QED BY <1>2, <2>1 DEF BufferFor, NodeIs, NodeHas
<1>5. /\ g.nodes[n].ins = <<q>> /\ g.nodes[n].outs = <<o>>
      /\ DOMAIN g.nodes[n].outs = {1} /\ DOMAIN g.nodes[n].ins = {1}
  BY <1>3, <1>4, OneElement, Zenon
<1>6. NodeOK(g, n)
  BY <1>1 DEF Agree, LiveNode
<1>7. InSlotOK(g, n, 1) /\ OutSlotOK(g, n, 1)
  BY <1>5, <1>6 DEF NodeOK
<1>8. /\ LivePin(g, q) /\ g.pins[q].node = n /\ g.pins[q].slot = 1 /\ ~g.pins[q].output
      /\ LivePin(g, o) /\ g.pins[o].node = n /\ g.pins[o].slot = 1 /\ g.pins[o].output
  BY <1>7, Zenon DEF InSlotOK, OutSlotOK
<1>9. InPinOK(g, q) /\ OutPinOK(g, o)
  BY <1>1, <1>8, Zenon DEF Agree, PinOK, LivePin
<1>10. g.pins[q].net # Null
  BY <1>1, <1>8 DEF AllHooked, LivePin
<1> QED BY <1>5, <1>8, <1>9, <1>10, Zenon DEF InPinOK, OutPinOK, BufferShape

(* eliminate_buffer.                                                       *)
LEMMA BufferEliminated ==
  ASSUME NEW d \in Designs, HookedGraph(graph, d), Placed(graph),
         NEW n, LiveNode(graph, n), graph.nodes[n].type = "buf",
         ~(InputNet(n) = OutputNet(n) /\ Len(graph.nets[OutputNet(n)].drivers) = 1)
  PROVE  \/ /\ EliminateBuffer(n) = graph
            /\ Len(graph.nets[OutputNet(n)].drivers) > 1
         \/ LET q == graph.nodes[n].ins[1]
                o == graph.nodes[n].outs[1]
            IN  /\ Removable(graph, n, q, o, graph.pins[q].net, graph.pins[o].net)
                /\ BufferGone(graph, EliminateBuffer(n), n, q, o, graph.pins[q].net, graph.pins[o].net)
<1> DEFINE q == graph.nodes[n].ins[1]
           o == graph.nodes[n].outs[1]
           into == graph.pins[q].net
           other == graph.pins[o].net
<1>0. graph \in GraphSet /\ Agree(graph) /\ Driven(graph)
  BY Zenon DEF HookedGraph
<1>1. InputNet(n) = into /\ OutputNet(n) = other
  BY DEF InputNet, OutputNet
<1>2. CASE Len(graph.nets[other].drivers) > 1
  BY <1>1, <1>2, Zenon DEF EliminateBuffer
<1>3. CASE ~(Len(graph.nets[other].drivers) > 1)
  <2>1. /\ graph.nodes[n].ins = <<q>> /\ graph.nodes[n].outs = <<o>>
        /\ LivePin(graph, q) /\ graph.pins[q].node = n /\ graph.pins[q].slot = 1 /\ ~graph.pins[q].output
        /\ LiveNet(graph, into)
        /\ LivePin(graph, o) /\ graph.pins[o].node = n /\ graph.pins[o].slot = 1 /\ graph.pins[o].output
        /\ LiveNet(graph, other)
        /\ graph.pins[o].place \in DOMAIN graph.nets[other].drivers
        /\ graph.nets[other].drivers[graph.pins[o].place] = o
    <3>1. BufferShape(graph, n, q, o)
      BY BufferPins, Zenon
    <3> QED BY <3>1, Zenon DEF BufferShape
  <2>2. graph.nets[other].drivers \in Seq(Nat) /\ graph.nets[other].drivers # <<>>
    <3>1. graph.nets[other] \in NetRecord /\ graph.nets[other].drivers # <<>>
      BY <1>0, <2>1, GraphType, Zenon DEF LiveNet, Driven
    <3> QED BY <3>1, Zenon DEF NetRecord
  <2>3. Len(graph.nets[other].drivers) = 1
    <3> DEFINE s == graph.nets[other].drivers
    <3>1. s \in Seq(Nat) /\ s # <<>> /\ ~(Len(s) > 1)
      BY <1>3, <2>2, Zenon
    <3> HIDE DEF s
    <3>2. Len(s) = 1
      <4>1. Len(s) \in Nat \ {0}
        BY <3>1, EmptySeq, Zenon
      <4> DEFINE L == Len(s)
      <4>2. L \in Nat \ {0} /\ ~(L > 1)
        BY <3>1, <4>1
      <4> HIDE DEF L
      <4>3. L = 1
        BY <4>2
      <4> QED BY <4>3 DEF L
    <3> QED BY <3>2 DEF s
  <2>4. graph.nets[other].drivers = <<o>>
    <3> DEFINE s == graph.nets[other].drivers
               k == graph.pins[o].place
    <3>1. s \in Seq(Nat) /\ Len(s) = 1 /\ k \in DOMAIN s /\ s[k] = o
      BY <2>1, <2>2, <2>3, Zenon
    <3> HIDE DEF s, k
    <3>2. s = <<s[1]>> /\ DOMAIN s = {1}
      BY <3>1, OneElement
    <3>3. s = <<o>>
      BY <3>1, <3>2, Zenon
    <3> QED BY <3>3, Zenon DEF s
  <2>5. into # other
    BY <1>1, <2>3
  <2>6. Removable(graph, n, q, o, into, other)
    BY <2>1, <2>4, <2>5, Zenon DEF Removable
  <2>7. EliminateBuffer(n) = FreeNode(DeletePin(JoinNets(graph, into, other), q), n)
    BY <1>1, <1>3, Zenon DEF EliminateBuffer
  <2>8. n \in DOMAIN graph.nodes /\ into # Null
    <3>1. DOMAIN graph.nets = 1 .. LastNet(graph) /\ LastNet(graph) \in Nat
      BY <1>0, GraphType
    <3>2. into \in DOMAIN graph.nets
      BY <2>1, Zenon DEF LiveNet
    <3> HIDE DEF into
    <3> QED BY <3>1, <3>2 DEF Null, LiveNode
  <2>9. BufferGone(graph, EliminateBuffer(n), n, q, o, into, other)
    <3> HIDE DEF q, o, into, other
    <3>1. graph.pins[q].net = into /\ graph.pins[o].net = other
      BY DEF into, other
    <3>2. BufferGone(graph, FreeNode(DeletePin(JoinNets(graph, into, other), q), n), n, q, o, into, other)
      BY <1>0, <2>1, <2>5, <2>8, <3>1, BufferGoes
    <3> QED BY <2>7, <3>2
  <2> QED BY <2>6, <2>9, Zenon
<1> QED BY <1>2, <1>3, Zenon

(* Doing nothing changes only what may change.                             *)
LEMMA ReshapedSelf ==
  ASSUME NEW g
  PROVE  Reshaped(g, g)
BY DEF Reshaped

(* What partial mapping does to the node it leaves.                        *)
MappedTo(g, h, d, n) ==
  /\ HookedGraph(h, d) /\ Placed(h) /\ Reshaped(g, h)
  /\ \A x : LiveNode(g, x) /\ x # n => LiveNode(h, x)

(* partial_map_node keeps what is known of the imported netlist, and frees *)
(* no node but the one it is given.                                        *)
LEMMA PartialMapped ==
  ASSUME NEW d \in Designs, HookedGraph(graph, d), Placed(graph),
         NEW n, LiveNode(graph, n), ~LoopsBack(n)
  PROVE  MappedTo(graph, PartialMapNode(n), d, n)
<1>0. graph \in GraphSet /\ n \in DOMAIN graph.nodes
  BY DEF HookedGraph, LiveNode
<1>1. CASE graph.nodes[n].type = "buf"
  <2> DEFINE q == graph.nodes[n].ins[1]
             o == graph.nodes[n].outs[1]
             into == graph.pins[q].net
             other == graph.pins[o].net
             h == EliminateBuffer(n)
  <2>1. PartialMapNode(n) = h
    BY <1>1 DEF PartialMapNode
  <2>2. ~(InputNet(n) = OutputNet(n) /\ Len(graph.nets[OutputNet(n)].drivers) = 1)
    BY <1>1 DEF LoopsBack
  <2>3. h = graph \/ (Removable(graph, n, q, o, into, other) /\ BufferGone(graph, h, n, q, o, into, other))
    BY <1>1, <2>2, BufferEliminated
  <2> HIDE DEF h, q, o, into, other
  <2>4. CASE h = graph
    BY <2>1, <2>4, ReshapedSelf DEF MappedTo
  <2>5. CASE Removable(graph, n, q, o, into, other) /\ BufferGone(graph, h, n, q, o, into, other)
    <3>1. HookedGraph(h, d) /\ Placed(h) /\ Reshaped(graph, h)
      BY <1>0, <2>5, GoneKeeps
    <3>2. \A x : LiveNode(graph, x) /\ x # n => LiveNode(h, x)
      BY <2>5 DEF BufferGone, LiveNode
    <3> QED BY <2>1, <3>1, <3>2 DEF MappedTo
  <2> QED BY <2>3, <2>4, <2>5
<1>2. CASE graph.nodes[n].type = "skip"
  <2> DEFINE h == InstantiateHardBlock(graph, n)
  <2>1. PartialMapNode(n) = h
    BY <1>2 DEF PartialMapNode
  <2>2. Named(graph, h, n)
    BY <1>0, InstantiateNames
  <2> HIDE DEF h
  <2>3. HookedGraph(h, d) /\ Placed(h) /\ Reshaped(graph, h)
    BY <1>0, <1>2, <2>2, NamedKeeps
  <2>4. h.nodes = graph.nodes
    BY <2>2 DEF Named
  <2> QED BY <2>1, <2>3, <2>4 DEF MappedTo, LiveNode
<1>3. CASE graph.nodes[n].type \notin {"buf", "skip"}
  <2>1. PartialMapNode(n) = graph
    BY <1>3 DEF PartialMapNode
  <2> QED BY <2>1, ReshapedSelf DEF MappedTo
<1> QED BY <1>1, <1>2, <1>3

-----------------------------------------------------------------------------
(* The graph invariant, action by action.                                  *)

AfterImport == {"map", "sweep", "write", "outputs", "done"}

(* While the netlist is built, its pointers agree.                         *)
LEMMA ImportedGraph ==
  ASSUME NEW g, NEW d, NEW nets, NEW seen, NEW c,
         CellsInv(g, d, nets, seen, c) \/ ConnectionsInv(g, d, nets, seen, c)
  PROVE  g \in GraphSet /\ Agree(g)
BY DEF CellsInv, ConnectionsInv, Imported, Fresh

(* No call in progress is of a freed node, if there is none.               *)
LEMMA NoCalls ==
  ASSUME NEW g, NEW M
  PROVE  CallsOK(g, M, <<>>)
BY DEF CallsOK

(* While the netlist is built the import invariant says it all.            *)
Importing == stage \in {"cells", "connections", "hook_up"}

(* While the netlist is built, what is known of the import is all there is *)
(* to know.                                                                *)
LEMMA ImportGraphInv ==
  ImportInv /\ Importing => GraphInv
<1> SUFFICES ASSUME ImportInv, Importing PROVE GraphInv
  OBVIOUS
<1>0. stage \in {"cells", "connections", "hook_up"}
  BY DEF Importing
<1>1. graph \in GraphSet /\ Agree(graph)
  BY <1>0, ImportedGraph DEF ImportInv
<1>2. calls = <<>> /\ marked = {} /\ CallsOK(graph, marked, calls)
  BY <1>0, NoCalls DEF ImportInv
<1>3. /\ stage \in Stages /\ stage \notin {"map", "sweep", "write", "outputs", "done"}
      /\ stage \notin {"map", "sweep"}
  BY <1>0 DEF Stages
<1> QED BY <1>1, <1>2, <1>3 DEF GraphInv

(* The invariant holds initially.                                          *)
LEMMA InitGraph ==
  ASSUME Init
  PROVE  GraphInv
<1>1. ImportInv
  BY InitImports
<1>2. Importing
  BY DEF Init, Importing
<1> QED BY <1>1, <1>2, ImportGraphInv

(* The steps of the import keep the invariant.                             *)
LEMMA ImportStep ==
  ASSUME GraphInv, ImportCell \/ LastCell \/ ImportConnection \/ LastConnection
  PROVE  GraphInv'
<1>1. ImportInv
  BY DEF GraphInv
<1>2. ImportInv'
  BY <1>1, ImportCellKeeps, LastCellKeeps, ImportConnectionKeeps, LastConnectionKeeps
<1>3. Importing'
  BY DEF ImportCell, LastCell, ImportConnection, LastConnection, Importing
<1>4. ImportInv' /\ Importing' => GraphInv'
  BY ImportGraphInv, PTL
<1> QED BY <1>2, <1>3, <1>4

(* Later the import invariant has nothing to say.                          *)
LEMMA LaterInv ==
  ASSUME design' \in Designs, stage' \in AfterImport \cup {"refused"},
         graph' \in GraphSet, Agree(graph'),
         stage' # "refused" => HookedGraph(graph', design'),
         stage' \in {"map", "sweep"} => Placed(graph'),
         CallsOK(graph', marked', calls'),
         stage' \notin Walks \cup {"refused"} => calls' = <<>> /\ marked' = {}
  PROVE  GraphInv'
<1>1. ImportInv'
  BY DEF ImportInv, AfterImport
<1>2. stage' \in Stages
  BY DEF Stages, AfterImport
<1> QED BY <1>1, <1>2 DEF GraphInv, AfterImport

(* Putting the input pins on their nets keeps the invariant.               *)
LEMMA HookUpStep ==
  ASSUME GraphInv, HookUp
  PROVE  GraphInv'
<1>1. /\ ImportInv /\ design \in Designs /\ design' = design /\ calls' = calls /\ marked' = marked
      /\ calls = <<>> /\ marked = {} /\ graph \in GraphSet /\ Agree(graph)
  BY DEF GraphInv, ImportInv, HookUp, walkVars
<1>2. CallsOK(graph', marked', calls')
  BY <1>1, NoCalls
<1>3. CASE stage' = "refused"
  <2>1. graph' = graph
    BY <1>3 DEF HookUp, Refuse
  <2> QED BY <1>1, <1>2, <1>3, <2>1, LaterInv DEF Walks
<1>4. CASE stage' # "refused"
  <2>1. stage' = "map" /\ HookedUp(graph', design)
    BY <1>1, <1>4, HookUpMakes
  <2>2. HookedGraph(graph', design') /\ Placed(graph') /\ graph' \in GraphSet /\ Agree(graph')
    BY <1>1, <2>1 DEF HookedUp, HookedGraph
  <2> QED BY <1>1, <1>2, <2>1, <2>2, LaterInv DEF AfterImport, Walks
<1> QED BY <1>3, <1>4

(* A call of a live node is one the invariant allows.                      *)
LEMMA CallMade ==
  ASSUME graph \in GraphSet, Agree(graph), NEW n, LiveNode(graph, n), NEW M, n \in M,
         NEW i, i \in 1 .. Len(graph.nodes[n].outs) + 1
  PROVE  Call(n, i) \in CallRecord /\ CallOK(graph, M, Call(n, i)) /\ Call(n, i).node = n
<1>1. graph.nodes[n].outs \in Seq(Nat) /\ n \in Nat
  <2>1. graph.nodes[n] \in NodeRecord /\ n \in Nat
    BY GraphType DEF LiveNode
  <2> QED BY <2>1 DEF NodeRecord
<1>2. i \in Nat
  BY <1>1
<1>3. NetOf(graph, n, i) \in Nat
  <2>1. CASE i \in DOMAIN graph.nodes[n].outs
    <3>1. NetOf(graph, n, i) \in DOMAIN graph.nets
      BY <2>1, NetOfLive DEF LiveNet
    <3> QED BY <3>1, GraphType
  <2>2. CASE i \notin DOMAIN graph.nodes[n].outs
    BY <2>2 DEF NetOf, Null
  <2> QED BY <2>1, <2>2
<1>4. Call(n, i) = [node |-> n, pin |-> i, reader |-> 1, net |-> NetOf(graph, n, i)]
  BY DEF Call, NetOf
<1> DEFINE N == NetOf(graph, n, i)
           c == [node |-> n, pin |-> i, reader |-> 1, net |-> N]
<1>5. c \in CallRecord /\ c.node = n /\ c.pin = i /\ c.reader = 1 /\ c.net = N
  <2> HIDE DEF N
  <2> QED BY <1>1, <1>2, <1>3 DEF CallRecord, N
<1>6. Call(n, i) = c
  BY <1>4
<1> HIDE DEF c
<1>7. CallOK(graph, M, c)
  BY <1>5 DEF CallOK
<1> QED BY <1>5, <1>6, <1>7

(* The call that stands at a reader.                                       *)
LEMMA RunningFacts ==
  ASSUME GraphInv, calls # <<>>
  PROVE  /\ Running \in CallRecord /\ CallOK(graph, marked, Running)
         /\ Running = calls[Len(calls)] /\ Len(calls) \in DOMAIN calls
         /\ Running.net # Null => Running.pin \in DOMAIN graph.nodes[Running.node].outs
                                  /\ LiveNet(graph, Running.net)
         /\ Running.net = Null => Running.pin \notin DOMAIN graph.nodes[Running.node].outs
<1>1. CallsOK(graph, marked, calls) /\ graph \in GraphSet /\ Agree(graph)
  BY DEF GraphInv
<1>2. calls \in Seq(CallRecord)
  BY <1>1 DEF CallsOK
<1>3. Running = calls[Len(calls)] /\ Len(calls) \in DOMAIN calls /\ Running \in CallRecord
  BY <1>2, StackFacts DEF Running
<1>4. CallOK(graph, marked, Running)
  BY <1>1, <1>3 DEF CallsOK
<1>5. LiveNode(graph, Running.node) /\ Running.net = NetOf(graph, Running.node, Running.pin)
  BY <1>4 DEF CallOK
<1>6. Running.pin \in DOMAIN graph.nodes[Running.node].outs
        => LiveNet(graph, Running.net) /\ Running.net # Null
  BY <1>1, <1>5, NetOfLive
<1>7. Running.pin \notin DOMAIN graph.nodes[Running.node].outs => Running.net = Null
  BY <1>5 DEF NetOf
<1> QED BY <1>3, <1>4, <1>6, <1>7

(* What holds during a traversal.                                          *)
LEMMA WalkingFacts ==
  ASSUME GraphInv, stage \in Walks
  PROVE  /\ design \in Designs /\ HookedGraph(graph, design)
         /\ graph \in GraphSet /\ Agree(graph)
         /\ CallsOK(graph, marked, calls) /\ calls \in Seq(CallRecord)
         /\ stage = "map" => Placed(graph)
BY DEF GraphInv, ImportInv, Walks, CallsOK

(* A call that goes on is a call again.                                    *)
LEMMA NextReaderOK ==
  ASSUME GraphInv, calls # <<>>
  PROVE  CallsOK(graph, marked, Continue([Running EXCEPT !.reader = @ + 1]))
<1> DEFINE c == [Running EXCEPT !.reader = @ + 1]
<1>1. CallsOK(graph, marked, calls)
  BY DEF GraphInv
<1>2. Running \in CallRecord /\ CallOK(graph, marked, Running)
  BY RunningFacts
<1>3. c \in CallRecord /\ c = [node |-> Running.node, pin |-> Running.pin,
                                 reader |-> Running.reader + 1, net |-> Running.net]
  <2> DEFINE r == Running
  <2> HIDE DEF r
  <2>1. [r EXCEPT !.reader = @ + 1] \in CallRecord
        /\ [r EXCEPT !.reader = @ + 1] = [node |-> r.node, pin |-> r.pin, reader |-> r.reader + 1, net |-> r.net]
    BY <1>2, CallNextReader DEF r
  <2> QED BY <2>1 DEF r
<1> HIDE DEF c
<1>4. c.node = Running.node /\ c.pin = Running.pin /\ c.net = Running.net
      /\ c.reader = Running.reader + 1
  BY <1>3
<1>5. CallOK(graph, marked, c)
  BY <1>2, <1>4 DEF CallOK
<1>6. c.node = Last(calls).node
  BY <1>4 DEF Running
<1>7. CallsOK(graph, marked, Append(Front(calls), c))
  BY <1>1, <1>3, <1>5, <1>6, CallsContinue
<1> QED BY <1>7 DEF Continue, c

(* Entering a node keeps the invariant.                                    *)
LEMMA VisitStep ==
  ASSUME GraphInv, stage \in Walks, NEW n, LiveNode(graph, n), calls = <<>> \/ n \notin marked,
         Visit(n), design' = design, graph' = graph
  PROVE  GraphInv'
<1> DEFINE cs == IF calls = <<>> THEN <<>> ELSE Continue([Running EXCEPT !.reader = @ + 1])
           c == Call(n, 1)
<1>1. calls' = Append(cs, c) /\ marked' = marked \cup {n}
  BY DEF Visit
<1>2. CallsOK(graph, marked, cs)
  <2>1. CASE calls = <<>>
    BY <2>1, NoCalls
  <2>2. CASE calls # <<>>
    BY <2>2, NextReaderOK
  <2> QED BY <2>1, <2>2
<1>3. cs = <<>> \/ n \notin marked
  OBVIOUS
<1>4. c \in CallRecord /\ CallOK(graph, marked \cup {n}, c) /\ c.node = n
  <2>1. graph.nodes[n].outs \in Seq(Nat)
    BY WalkingFacts, GraphType DEF LiveNode, NodeRecord
  <2>2. 1 \in 1 .. Len(graph.nodes[n].outs) + 1
    <3> DEFINE L == Len(graph.nodes[n].outs)
    <3>1. L \in Nat
      BY <2>1
    <3> HIDE DEF L
    <3> QED BY <3>1 DEF L
  <2> QED BY <2>2, WalkingFacts, CallMade
<1> HIDE DEF cs, c
<1>5. CallsOK(graph', marked', calls')
  BY <1>1, <1>2, <1>3, <1>4, CallsPush
<1>6. stage' \in Walks \cup {"refused"} /\ (stage' = stage \/ stage' = "refused")
  BY DEF Visit, Refuse
<1>7. /\ stage' \in AfterImport \cup {"refused"}
      /\ stage' \in {"map", "sweep"} => Placed(graph')
  BY <1>6, WalkingFacts DEF AfterImport, Walks
<1> QED BY <1>5, <1>6, <1>7, WalkingFacts, LaterInv

(* Entering a constant or an input keeps the invariant.                    *)
LEMMA VisitRootStep ==
  ASSUME GraphInv, VisitRoot
  PROVE  GraphInv'
<1>1. stage \in Walks /\ calls = <<>> /\ position \in DOMAIN Roots
  BY DEF VisitRoot, Walking, Walks
<1>2. Roots[position] \in 1 .. SourceCount(design)
  BY <1>1, WalkingFacts, RootFacts
<1>3. LiveNode(graph, Roots[position])
  BY <1>1, <1>2, WalkingFacts, RootLive
<1>4. Visit(Roots[position]) /\ design' = design /\ graph' = graph
  BY DEF VisitRoot
<1> DEFINE n == Roots[position]
<1> HIDE DEF n
<1> QED BY <1>1, <1>3, <1>4, VisitStep DEF n

(* The reader the running call stands at, if there is one.                 *)
LEMMA AtReaderFacts ==
  ASSUME GraphInv, AtReader, Reader(Running) # Null
  PROVE  /\ stage \in Walks /\ LiveNode(graph, graph.pins[Reader(Running)].node)
         /\ LivePin(graph, Reader(Running)) /\ ~graph.pins[Reader(Running)].output
         /\ graph.pins[Reader(Running)].net = Running.net
<1>1. stage \in Walks /\ calls # <<>> /\ Running.net # Null
      /\ Running.reader \in DOMAIN graph.nets[Running.net].fanouts
  BY DEF AtReader, Walking, Walks
<1>2. LiveNet(graph, Running.net)
  BY <1>1, RunningFacts
<1> DEFINE m == Running.net
           k == Running.reader
           p == graph.nets[m].fanouts[k]
<1>3. Reader(Running) = p
  BY DEF Reader
<1>4. graph \in GraphSet /\ Agree(graph)
  BY <1>1, WalkingFacts
<1>5. LiveNet(graph, m) /\ k \in DOMAIN graph.nets[m].fanouts /\ p # Null
  BY <1>1, <1>2, <1>3
<1>6. LivePin(graph, p) /\ ~graph.pins[p].output /\ graph.pins[p].net = m
      /\ LiveNode(graph, graph.pins[p].node)
  <2> HIDE DEF m, k
  <2> QED BY <1>4, <1>5, ReaderLive
<1> HIDE DEF p
<1> QED BY <1>1, <1>3, <1>6

(* Entering the node of a reader keeps the invariant.                      *)
LEMMA VisitReaderStep ==
  ASSUME GraphInv, VisitReader
  PROVE  GraphInv'
<1> DEFINE n == graph.pins[Reader(Running)].node
<1>1. AtReader /\ Reader(Running) # Null /\ n \notin marked
  BY DEF VisitReader, Unmarked
<1>2. Visit(n) /\ design' = design /\ graph' = graph
  BY DEF VisitReader
<1>3. stage \in Walks /\ LiveNode(graph, n)
  BY <1>1, AtReaderFacts
<1> HIDE DEF n
<1> QED BY <1>1, <1>2, <1>3, VisitStep

(* A step of a call that changes the stack and nothing else.               *)
LEMMA CallStep ==
  ASSUME GraphInv, stage \in Walks, CallsOK(graph, marked, calls'),
         design' = design, graph' = graph, stage' = stage, marked' = marked
  PROVE  GraphInv'
<1>1. /\ stage' \in AfterImport \cup {"refused"} /\ stage' \in Walks
      /\ stage' \in {"map", "sweep"} => Placed(graph')
  BY WalkingFacts DEF AfterImport, Walks
<1> QED BY <1>1, WalkingFacts, LaterInv

(* Passing over a reader keeps the invariant.                              *)
LEMMA SkipReaderStep ==
  ASSUME GraphInv, SkipReader
  PROVE  GraphInv'
<1>1. stage \in Walks /\ calls # <<>>
  BY DEF SkipReader, AtReader, Walking, Walks
<1>2. CallsOK(graph, marked, calls')
  BY <1>1, NextReaderOK DEF SkipReader
<1> QED BY <1>1, <1>2, CallStep DEF SkipReader

(* Going on to the next output pin keeps the invariant.                    *)
LEMMA NextOutputPinStep ==
  ASSUME GraphInv, NextOutputPin
  PROVE  GraphInv'
<1> DEFINE n == Running.node
           i == Running.pin
           c == Call(n, i + 1)
<1>1. stage \in Walks /\ calls # <<>> /\ Running.net # Null
  BY DEF NextOutputPin, Walking, Walks
<1>2. CallOK(graph, marked, Running) /\ i \in DOMAIN graph.nodes[n].outs
  BY <1>1, RunningFacts
<1>3. LiveNode(graph, n) /\ n \in marked
  BY <1>2 DEF CallOK
<1>4. i + 1 \in 1 .. Len(graph.nodes[n].outs) + 1
  <2> DEFINE u == graph.nodes[n].outs
  <2>1. u \in Seq(Nat) /\ i \in DOMAIN u
    BY <1>1, <1>2, <1>3, WalkingFacts, GraphType DEF LiveNode, NodeRecord
  <2> HIDE DEF u, i
  <2>2. i + 1 \in 1 .. Len(u) + 1
    BY <2>1
  <2> QED BY <2>2 DEF u
<1> HIDE DEF i
<1>5. c \in CallRecord /\ CallOK(graph, marked, c) /\ c.node = n
  <2> HIDE DEF n
  <2> QED BY <1>1, <1>3, <1>4, WalkingFacts, CallMade
<1>6. calls' = Append(Front(calls), c)
  BY DEF NextOutputPin, Continue, i
<1> HIDE DEF c
<1>7. CallsOK(graph, marked, calls')
  BY <1>1, <1>5, <1>6, WalkingFacts, CallsContinue DEF Running
<1> QED BY <1>1, <1>7, CallStep DEF NextOutputPin

(* Leaving a node, with all that is done to the netlist then, keeps the    *)
(* invariant.                                                              *)
LEMMA ReturnStep ==
  ASSUME GraphInv, Return
  PROVE  GraphInv'
<1> DEFINE n == Running.node
<1>1. stage \in Walks /\ calls # <<>> /\ calls' = Front(calls)
      /\ design' = design /\ marked' = marked
  BY DEF Return, Walking, Walks
<1>2. CallsOK(graph, marked, Front(calls))
      /\ \A k \in DOMAIN Front(calls) : Front(calls)[k].node # n
  BY <1>1, WalkingFacts, CallsPop DEF Running
<1>3. LiveNode(graph, n)
  BY <1>1, RunningFacts DEF CallOK
<1>4. CASE stage = "map" /\ ~LoopsBack(n)
  <2> DEFINE h == PartialMapNode(n)
  <2>1. graph' = h /\ stage' = "map"
    BY <1>4 DEF Return
  <2>2. Placed(graph)
    BY <1>1, <1>4, WalkingFacts
  <2>3. MappedTo(graph, h, design, n)
    BY <1>1, <1>3, <1>4, <2>2, WalkingFacts, PartialMapped
  <2> HIDE DEF h
  <2>4. HookedGraph(h, design) /\ Placed(h) /\ Reshaped(graph, h) /\ h \in GraphSet /\ Agree(h)
    BY <2>3 DEF MappedTo, HookedGraph
  <2>5. \A k \in DOMAIN Front(calls) : LiveNode(h, Front(calls)[k].node)
    BY <1>2, <2>3 DEF MappedTo, CallsOK, CallOK
  <2>6. CallsOK(h, marked, Front(calls))
    BY <1>1, <1>2, <2>4, <2>5, WalkingFacts, CallsReshaped
  <2> QED BY <1>1, <2>1, <2>4, <2>6, WalkingFacts, LaterInv DEF AfterImport, Walks
<1>5. CASE ~(stage = "map" /\ ~LoopsBack(n))
  <2>1. graph' = graph /\ (stage' = stage \/ stage' = "refused")
    BY <1>5 DEF Return, Refuse
  <2>2. /\ stage' \in AfterImport \cup {"refused"} /\ stage' \in Walks \cup {"refused"}
        /\ stage' \in {"map", "sweep"} => Placed(graph')
    BY <1>1, <2>1, WalkingFacts DEF AfterImport, Walks
  <2> QED BY <1>1, <1>2, <2>1, <2>2, WalkingFacts, LaterInv
<1> QED BY <1>4, <1>5

(* The end of a traversal keeps the invariant.                             *)
LEMMA TraversalDoneStep ==
  ASSUME GraphInv, TraversalDone
  PROVE  GraphInv'
<1>1. /\ stage \in Walks /\ calls' = <<>> /\ marked' = {} /\ graph' = graph /\ design' = design
      /\ stage' = IF stage = "map" THEN "sweep" ELSE "outputs"
  BY DEF TraversalDone, Walking, Walks
<1>2. /\ stage' \in AfterImport \cup {"refused"} /\ stage' \notin Walks \cup {"refused"}
      /\ stage' \in {"map", "sweep"} => Placed(graph')
  BY <1>1, WalkingFacts DEF AfterImport, Walks
<1> QED BY <1>1, <1>2, WalkingFacts, NoCalls, LaterInv

(* The sweep keeps the invariant.                                          *)
LEMMA SweepStep ==
  ASSUME GraphInv, RemoveUnusedLogic
  PROVE  GraphInv'
<1>1. /\ design \in Designs /\ HookedGraph(graph, design) /\ graph \in GraphSet
      /\ calls = <<>> /\ marked = {} /\ stage' = "write"
      /\ calls' = calls /\ marked' = marked /\ design' = design
  BY DEF GraphInv, ImportInv, RemoveUnusedLogic, Walks, walkVars
<1>2. Trimmed(graph, graph', Useless)
  BY <1>1, SweepTrims
<1>3. HookedGraph(graph', design)
  BY <1>1, <1>2, TrimmedKeeps
<1>4. graph' \in GraphSet /\ Agree(graph')
  BY <1>3 DEF HookedGraph
<1> QED BY <1>1, <1>3, <1>4, NoCalls, LaterInv DEF AfterImport, Walks

(* Writing the outputs keeps the invariant.                                *)
LEMMA WriteOutputsStep ==
  ASSUME GraphInv, WriteOutputs
  PROVE  GraphInv'
<1>1. /\ design \in Designs /\ HookedGraph(graph, design) /\ graph \in GraphSet /\ Agree(graph)
      /\ calls = <<>> /\ marked = {} /\ stage' = "done"
      /\ calls' = calls /\ marked' = marked /\ design' = design /\ graph' = graph
  BY DEF GraphInv, ImportInv, WriteOutputs, Walks, walkVars
<1> QED BY <1>1, NoCalls, LaterInv DEF AfterImport, Walks

(* Doing nothing keeps the invariant.                                      *)
LEMMA GraphStutter ==
  ASSUME GraphInv, UNCHANGED vars
  PROVE  GraphInv'
<1>1. /\ design' = design /\ graph' = graph /\ output_nets' = output_nets
      /\ cstr_bits_seen' = cstr_bits_seen /\ stage' = stage /\ position' = position
      /\ calls' = calls /\ marked' = marked /\ written' = written
  BY DEF vars
<1>2. ImportInv'
  BY <1>1 DEF GraphInv, ImportInv
<1> QED BY <1>1, <1>2 DEF GraphInv

(* Every step keeps the invariant.                                         *)
LEMMA GraphNext ==
  ASSUME GraphInv, [Next]_vars
  PROVE  GraphInv'
BY ImportStep, HookUpStep, VisitRootStep, VisitReaderStep, SkipReaderStep, NextOutputPinStep,
   ReturnStep, TraversalDoneStep, SweepStep, WriteOutputsStep, GraphStutter DEF Next

(* The inductive invariant of the pass: while a design is imported, walked *)
(* through, swept and written, the pointers of the netlist agree, its      *)
(* nodes are those of the design in order, and every call in progress is   *)
(* of a live node and at a live net, although buffers are freed below the  *)
(* calls.                                                                  *)
THEOREM GraphInvariant == Spec => []GraphInv
<1>1. Init => GraphInv
  BY InitGraph
<1>2. GraphInv /\ [Next]_vars => GraphInv'
  BY GraphNext
<1> QED BY <1>1, <1>2, PTL DEF Spec

(* An element of a concatenation is an element of a part.                  *)
LEMMA InEither ==
  ASSUME NEW S, NEW s \in Seq(S), NEW t \in Seq(S), NEW x \in ToSet(s \o t)
  PROVE  (\E i \in DOMAIN s : x = s[i]) \/ (\E i \in DOMAIN t : x = t[i])
<1>1. PICK i \in DOMAIN (s \o t) : x = (s \o t)[i]
  BY Zenon DEF ToSet
<1> QED BY <1>1

(* The agreement of pointers is PointersAgree.                             *)
LEMMA AgreeSaid ==
  ASSUME graph \in GraphSet, Agree(graph)
  PROVE  PointersAgree
<1>1. ASSUME NEW n \in LiveNodes, NEW i \in DOMAIN graph.nodes[n].ins
      PROVE  LET p == graph.pins[graph.nodes[n].ins[i]]
             IN  p.node = n /\ p.slot = i /\ ~p.output
  BY <1>1 DEF Agree, NodeOK, InSlotOK, LiveNodes
<1>2. ASSUME NEW n \in LiveNodes, NEW i \in DOMAIN graph.nodes[n].outs
      PROVE  LET p == graph.pins[graph.nodes[n].outs[i]]
             IN  p.node = n /\ p.slot = i /\ p.output
  BY <1>2 DEF Agree, NodeOK, OutSlotOK, LiveNodes
<1>3. ASSUME NEW m \in LiveNets, NEW k \in DOMAIN graph.nets[m].drivers
      PROVE  LET p == graph.pins[graph.nets[m].drivers[k]]
             IN  p.net = m /\ p.place = k /\ p.output
  BY <1>3 DEF Agree, NetOK, DriverOK, LiveNets
<1>4. ASSUME NEW m \in LiveNets, NEW k \in DOMAIN graph.nets[m].fanouts, graph.nets[m].fanouts[k] # Null
      PROVE  LET p == graph.pins[graph.nets[m].fanouts[k]]
             IN  p.net = m /\ p.place = k /\ ~p.output
  BY <1>4 DEF Agree, NetOK, FanoutOK, LiveNets
<1> QED BY <1>1, <1>2, <1>3, <1>4, Zenon DEF PointersAgree

(* The invariant leaves no dangling pointer.                               *)
LEMMA NothingDangles ==
  ASSUME GraphInv
  PROVE  NoDangling
<1>0. graph \in GraphSet /\ Agree(graph) /\ CallsOK(graph, marked, calls) /\ stage \in Stages
  BY Zenon DEF GraphInv
<1>1. ASSUME NEW n \in LiveNodes
      PROVE  ToSet(graph.nodes[n].ins \o graph.nodes[n].outs) \ {Null} \subseteq LivePins
  <2> SUFFICES ASSUME NEW p \in ToSet(graph.nodes[n].ins \o graph.nodes[n].outs)
               PROVE  p \in LivePins
    OBVIOUS
  <2>1. /\ n \in DOMAIN graph.nodes /\ NodeOK(graph, n)
        /\ graph.nodes[n].ins \in Seq(Nat) /\ graph.nodes[n].outs \in Seq(Nat)
    BY <1>0, GraphType DEF LiveNodes, Agree, NodeRecord
  <2>2. \/ \E i \in DOMAIN graph.nodes[n].ins : p = graph.nodes[n].ins[i]
        \/ \E i \in DOMAIN graph.nodes[n].outs : p = graph.nodes[n].outs[i]
    BY <2>1, InEither
  <2>3. CASE \E i \in DOMAIN graph.nodes[n].ins : p = graph.nodes[n].ins[i]
    <3>1. PICK i \in DOMAIN graph.nodes[n].ins : p = graph.nodes[n].ins[i]
      BY <2>3
    <3>2. InSlotOK(graph, n, i)
      BY <2>1, Zenon DEF NodeOK
    <3> QED BY <3>1, <3>2 DEF InSlotOK, LivePin, LivePins
  <2>4. CASE \E i \in DOMAIN graph.nodes[n].outs : p = graph.nodes[n].outs[i]
    <3>1. PICK i \in DOMAIN graph.nodes[n].outs : p = graph.nodes[n].outs[i]
      BY <2>4
    <3>2. OutSlotOK(graph, n, i)
      BY <2>1, Zenon DEF NodeOK
    <3> QED BY <3>1, <3>2 DEF OutSlotOK, LivePin, LivePins
  <2> QED BY <2>2, <2>3, <2>4, Zenon
<1>2. ASSUME NEW p, LivePin(graph, p)
      PROVE  graph.pins[p].node \in LiveNodes /\ graph.pins[p].net \in LiveNets \cup {Null}
  <2>1. PinOK(graph, p)
    BY <1>0, <1>2 DEF Agree, LivePin
  <2> QED BY <2>1 DEF PinOK, OutPinOK, InPinOK, LiveNode, LiveNet, LiveNodes, LiveNets
<1>3. ASSUME NEW m \in LiveNets,
             NEW p \in ToSet(graph.nets[m].drivers \o graph.nets[m].fanouts) \ {Null}
      PROVE  p \in LivePins /\ graph.pins[p].node \in LiveNodes
  <2>1. /\ m \in DOMAIN graph.nets /\ NetOK(graph, m)
        /\ graph.nets[m].drivers \in Seq(Nat) /\ graph.nets[m].fanouts \in Seq(Nat)
    BY <1>0, GraphType DEF LiveNets, Agree, NetRecord
  <2>2. \/ \E i \in DOMAIN graph.nets[m].drivers : p = graph.nets[m].drivers[i]
        \/ \E i \in DOMAIN graph.nets[m].fanouts : p = graph.nets[m].fanouts[i]
    BY <2>1, InEither
  <2>3. LivePin(graph, p)
    <3>1. CASE \E k \in DOMAIN graph.nets[m].drivers : p = graph.nets[m].drivers[k]
      <4>1. PICK k \in DOMAIN graph.nets[m].drivers : p = graph.nets[m].drivers[k]
        BY <3>1
      <4>2. DriverOK(graph, m, k)
        BY <2>1, Zenon DEF NetOK
      <4> QED BY <4>1, <4>2 DEF DriverOK
    <3>2. CASE \E k \in DOMAIN graph.nets[m].fanouts : p = graph.nets[m].fanouts[k]
      <4>1. PICK k \in DOMAIN graph.nets[m].fanouts : p = graph.nets[m].fanouts[k]
        BY <3>2
      <4>2. FanoutOK(graph, m, k)
        BY <2>1, Zenon DEF NetOK
      <4> QED BY <1>3, <4>1, <4>2 DEF FanoutOK
    <3> QED BY <2>2, <3>1, <3>2, Zenon
  <2> QED BY <1>2, <2>3 DEF LivePin, LivePins
<1>4. ASSUME NEW k \in DOMAIN calls
      PROVE  calls[k].node \in LiveNodes /\ calls[k].net \in LiveNets \cup {Null}
  <2> DEFINE c == calls[k]
  <2>1. CallOK(graph, marked, c)
    BY <1>0 DEF CallsOK
  <2> HIDE DEF c
  <2>2. LiveNode(graph, c.node) /\ c.net = NetOf(graph, c.node, c.pin)
    BY <2>1 DEF CallOK
  <2>3. LiveNet(graph, c.net) \/ c.net = Null
    <3>1. CASE c.pin \in DOMAIN graph.nodes[c.node].outs
      BY <1>0, <2>2, <3>1, NetOfLive
    <3>2. CASE c.pin \notin DOMAIN graph.nodes[c.node].outs
      BY <2>2, <3>2 DEF NetOf
    <3> QED BY <3>1, <3>2
  <2>4. c.net \in LiveNets \cup {Null}
    BY <2>3 DEF LiveNet, LiveNets
  <2>5. c.node \in LiveNodes
    BY <2>2 DEF LiveNode, LiveNodes
  <2> QED BY <2>4, <2>5 DEF c
<1>5. \A p \in LivePins : graph.pins[p].net \in LiveNets \cup {Null}
  BY <1>2 DEF LivePins, LivePin
<1>6. \A n \in LiveNodes :
        ToSet(graph.nodes[n].ins \o graph.nodes[n].outs) \ {Null} \subseteq LivePins
  BY <1>1
<1>7. \A m \in LiveNets :
        /\ ToSet(graph.nets[m].drivers \o graph.nets[m].fanouts) \ {Null} \subseteq LivePins
        /\ \A p \in ToSet(graph.nets[m].drivers \o graph.nets[m].fanouts) \ {Null} :
              graph.pins[p].node \in LiveNodes
  BY <1>3
<1>8. \A k \in DOMAIN calls :
        calls[k].node \in LiveNodes /\ calls[k].net \in LiveNets \cup {Null}
  BY <1>4
<1> QED BY <1>0, <1>5, <1>6, <1>7, <1>8 DEF NoDangling

(* For every design, both ends of every link of the netlist agree in every *)
(* state of the pass.                                                      *)
THEOREM PointersAlwaysAgree == Spec => []PointersAgree
<1>1. GraphInv => PointersAgree
  BY AgreeSaid DEF GraphInv
<1> QED BY <1>1, GraphInvariant, PTL

(* For every design, no pointer that is still followed leads to a freed    *)
(* node, pin or net, nor does a call in progress hold one, however nets    *)
(* are joined and nodes freed below the calls.                             *)
THEOREM NothingEverDangles == Spec => []NoDangling
<1>1. GraphInv => NoDangling
  BY NothingDangles
<1> QED BY <1>1, GraphInvariant, PTL
==============================================================================
