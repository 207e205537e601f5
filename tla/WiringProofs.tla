---------------------------- MODULE WiringProofs ----------------------------
(***************************************************************************)
(* What Connections makes of a design, for every design: no cell is        *)
(* written twice, no sound design is refused, and the module that is       *)
(* written connects what the design connects, as Wiring promises.          *)
(*                                                                         *)
(* On top of the invariant of ConnectionsProofs: where the walk over the   *)
(* nets stands; what each pin of the graph has to do with the cells and    *)
(* the names of the design it was made from; which links the nets, the     *)
(* sweep and the writer make of that; each kept action by action.          *)
(***************************************************************************)
EXTENDS ConnectionsProofs

(* Reader k of output pin i of node n has been seen to.                    *)
ReaderDone(g, M, n, i, k) ==
  LET p == Reader0(g, n, i, k) IN p # Null => g.pins[p].node \in M

(* The calls cs2 are ahead of what cs are ahead of, but for what M has.    *)
AheadStill(g, M, cs, cs2) ==
  \A n : LiveNode(g, n) =>
    \A i \in DOMAIN g.nodes[n].outs : \A k \in DOMAIN g.nets[NetOf(g, n, i)].fanouts :
      Ahead(cs, n, i, k) => ReaderDone(g, M, n, i, k) \/ Ahead(cs2, n, i, k)

(* A traversal that marks more nodes stays closed if its calls still come  *)
(* to what they came to, and the new nodes are closed.                     *)
LEMMA ClosedStill ==
  ASSUME NEW g, NEW M, NEW cs, WalkClosed(g, M, cs), NEW M2, M \subseteq M2,
         M2 \subseteq DOMAIN g.nodes, NEW cs2, AheadStill(g, M2, cs, cs2),
         \A n \in M2 \ M : LiveNode(g, n) => Closing(g, M2, cs2, n)
  PROVE  WalkClosed(g, M2, cs2)
<1> SUFFICES ASSUME NEW n \in M2, LiveNode(g, n) PROVE Closing(g, M2, cs2, n)
  BY DEF WalkClosed, LiveNode
<1>1. CASE n \notin M
  BY <1>1
<1>2. CASE n \in M
  <2>1. Closing(g, M, cs, n)
    BY <1>2 DEF WalkClosed, LiveNode
  <2> SUFFICES ASSUME NEW i \in DOMAIN g.nodes[n].outs,
                      NEW k \in DOMAIN g.nets[NetOf(g, n, i)].fanouts,
                      Reader0(g, n, i, k) # Null
               PROVE  g.pins[Reader0(g, n, i, k)].node \in M2 \/ Ahead(cs2, n, i, k)
    BY DEF Closing
  <2>2. g.pins[Reader0(g, n, i, k)].node \in M \/ Ahead(cs, n, i, k)
    BY <2>1 DEF Closing
  <2> QED BY <2>2 DEF AheadStill, ReaderDone
<1> QED BY <1>1, <1>2

(* The output slots of a live node and the places among the readers of its *)
(* nets are counted from one.                                              *)
LEMMA Slots ==
  ASSUME NEW g \in GraphSet, Agree(g), NEW n, LiveNode(g, n), NEW i \in DOMAIN g.nodes[n].outs,
         NEW k \in DOMAIN g.nets[NetOf(g, n, i)].fanouts
  PROVE  /\ Len(g.nodes[n].outs) \in Nat /\ DOMAIN g.nodes[n].outs = 1 .. Len(g.nodes[n].outs)
         /\ i \in Nat /\ i >= 1 /\ k \in Nat /\ k >= 1
         /\ Len(g.nets[NetOf(g, n, i)].fanouts) \in Nat
         /\ DOMAIN g.nets[NetOf(g, n, i)].fanouts = 1 .. Len(g.nets[NetOf(g, n, i)].fanouts)
<1>1. g.nodes[n].outs \in Seq(Nat)
  BY GraphType DEF LiveNode, NodeRecord
<1>2. LiveNet(g, NetOf(g, n, i))
  BY NetOfLive
<1> DEFINE m == NetOf(g, n, i)
<1>3. g.nets[m].fanouts \in Seq(Nat)
  <2> HIDE DEF m
  <2> QED BY <1>2, GraphType DEF LiveNet, NetRecord, m
<1>4. \A s \in Seq(Nat) : /\ Len(s) \in Nat /\ DOMAIN s = 1 .. Len(s)
                          /\ \A x \in DOMAIN s : x \in Nat /\ x >= 1
  OBVIOUS
<1> DEFINE F == g.nets[m].fanouts
           O == g.nodes[n].outs
<1>5. Len(F) \in Nat /\ DOMAIN F = 1 .. Len(F) /\ \A x \in DOMAIN F : x \in Nat /\ x >= 1
  BY <1>3, <1>4
<1>6. Len(O) \in Nat /\ DOMAIN O = 1 .. Len(O) /\ \A x \in DOMAIN O : x \in Nat /\ x >= 1
  BY <1>1, <1>4
<1>7. i \in DOMAIN O /\ k \in DOMAIN F
  OBVIOUS
<1> HIDE DEF F, O, m
<1> QED BY <1>5, <1>6, <1>7 DEF F, O, m

(* The call that enters a node is ahead of all its readers.                *)
LEMMA EnteredClosing ==
  ASSUME NEW g \in GraphSet, Agree(g), NEW n, LiveNode(g, n), NEW M, NEW cs, NEW c \in DOMAIN cs,
         cs[c].node = n, cs[c].pin = 1, cs[c].reader = 1
  PROVE  Closing(g, M, cs, n)
<1> SUFFICES ASSUME NEW i \in DOMAIN g.nodes[n].outs,
                    NEW k \in DOMAIN g.nets[NetOf(g, n, i)].fanouts
             PROVE  Ahead(cs, n, i, k)
  BY DEF Closing
<1>1. i \in Nat /\ i >= 1 /\ k \in Nat /\ k >= 1
  BY Slots
<1>2. 1 < i \/ (1 = i /\ 1 <= k)
  BY <1>1
<1> QED BY <1>2 DEF Ahead

(* The running call r goes on as r2.                                       *)
GoesOn(g, M, r, r2) ==
  /\ r2.node = r.node
  /\ \A i \in DOMAIN g.nodes[r.node].outs : \A k \in DOMAIN g.nets[NetOf(g, r.node, i)].fanouts :
       r.pin < i \/ (r.pin = i /\ r.reader <= k)
         => ReaderDone(g, M, r.node, i, k) \/ r2.pin < i \/ (r2.pin = i /\ r2.reader <= k)

(* The running call may go on, past readers that are marked, without any   *)
(* call missing a reader it had yet to come to.                            *)
LEMMA ContinuedAhead ==
  ASSUME NEW g, NEW M, NEW cs \in Seq(CallRecord), cs # <<>>, NEW r2 \in CallRecord,
         GoesOn(g, M, Last(cs), r2)
  PROVE  AheadStill(g, M, cs, Append(Front(cs), r2))
<1> DEFINE L == Len(cs)
           cs2 == Append(Front(cs), r2)
<1>1. DOMAIN cs2 = DOMAIN cs /\ cs2[L] = r2 /\ \A c \in DOMAIN cs : c # L => cs2[c] = cs[c]
  BY StackReplace
<1>2. Last(cs) = cs[L] /\ L \in DOMAIN cs
  BY StackFacts
<1> HIDE DEF L, cs2
<1>3. SUFFICES ASSUME NEW n, LiveNode(g, n), NEW i \in DOMAIN g.nodes[n].outs,
                      NEW k \in DOMAIN g.nets[NetOf(g, n, i)].fanouts, Ahead(cs, n, i, k)
               PROVE  ReaderDone(g, M, n, i, k) \/ Ahead(cs2, n, i, k)
  BY DEF AheadStill, cs2
<1>4. PICK c \in DOMAIN cs :
        cs[c].node = n /\ (cs[c].pin < i \/ (cs[c].pin = i /\ cs[c].reader <= k))
  BY <1>3 DEF Ahead
<1>5. CASE c # L
  BY <1>1, <1>4, <1>5 DEF Ahead
<1>6. CASE c = L
  <2>1. cs[L].node = n /\ (cs[L].pin < i \/ (cs[L].pin = i /\ cs[L].reader <= k))
    BY <1>4, <1>6
  <2>2. ReaderDone(g, M, n, i, k) \/ r2.pin < i \/ (r2.pin = i /\ r2.reader <= k)
    BY <1>2, <1>3, <2>1 DEF GoesOn
  <2>3. r2.node = n
    BY <1>2, <2>1 DEF GoesOn
  <2>4. cs2[L].node = n /\ L \in DOMAIN cs2 /\ cs2[L] = r2
    BY <1>1, <1>2, <2>3
  <2> QED BY <2>2, <2>4 DEF Ahead
<1> QED BY <1>5, <1>6

(* The same calls come to the same readers.                                *)
LEMMA AheadSame ==
  ASSUME NEW g, NEW M
  PROVE  \A cs : AheadStill(g, M, cs, cs)
BY DEF AheadStill

(* Another call on the stack takes no reader from the calls below it.      *)
LEMMA AheadPush ==
  ASSUME NEW g, NEW M, NEW cs, NEW cs1 \in Seq(CallRecord), NEW c \in CallRecord,
         AheadStill(g, M, cs, cs1)
  PROVE  AheadStill(g, M, cs, Append(cs1, c))
<1> DEFINE e == Append(cs1, c)
<1>1. DOMAIN cs1 \subseteq DOMAIN e /\ \A x \in DOMAIN cs1 : e[x] = cs1[x]
  BY StackPush
<1> HIDE DEF e
<1>2. \A n, i, k : Ahead(cs1, n, i, k) => Ahead(e, n, i, k)
  BY <1>1 DEF Ahead
<1>3. AheadStill(g, M, cs, e)
  BY <1>2 DEF AheadStill
<1> QED BY <1>3 DEF e

(* From g to h the nets gain no readers but those of M.                    *)
NoNewReaders(g, h, M) ==
  \A n, i : LiveNode(h, n) /\ i \in DOMAIN h.nodes[n].outs =>
    \A k \in DOMAIN h.nets[NetOf(g, n, i)].fanouts :
      LET p == h.nets[NetOf(g, n, i)].fanouts[k]
      IN  p # Null =>
            \/ k \in DOMAIN g.nets[NetOf(g, n, i)].fanouts /\ p = g.nets[NetOf(g, n, i)].fanouts[k]
            \/ h.pins[p].node \in M

(* A change of the netlist that gives no net of a marked node a reader of  *)
(* its own leaves the traversal closed.                                    *)
LEMMA ClosedReshaped ==
  ASSUME NEW g \in GraphSet, Agree(g), NEW h, Reshaped(g, h), NEW M, NEW cs,
         WalkClosed(g, M, cs), NoNewReaders(g, h, M)
  PROVE  WalkClosed(h, M, cs)
<1>1. M \subseteq DOMAIN h.nodes
  BY DEF WalkClosed, Reshaped
<1>2. ASSUME NEW n \in M, h.nodes[n].live, NEW i \in DOMAIN h.nodes[n].outs,
             NEW k \in DOMAIN h.nets[NetOf(h, n, i)].fanouts, Reader0(h, n, i, k) # Null
      PROVE  h.pins[Reader0(h, n, i, k)].node \in M \/ Ahead(cs, n, i, k)
  <2> DEFINE m == NetOf(g, n, i)
             p == Reader0(h, n, i, k)
  <2>1. LiveNode(h, n)
    BY <1>1, <1>2 DEF LiveNode
  <2>2. LiveNode(g, n) /\ h.nodes[n] = g.nodes[n] /\ NetOf(h, n, i) = m
    BY <2>1, NetOfReshaped
  <2>3. LiveNet(g, m) /\ i \in DOMAIN g.nodes[n].outs
    BY <1>2, <2>2, NetOfLive
  <2>4. k \in DOMAIN h.nets[m].fanouts /\ p = h.nets[m].fanouts[k]
    BY <1>2, <2>2 DEF Reader0
  <2>5. \/ k \in DOMAIN g.nets[m].fanouts /\ p = g.nets[m].fanouts[k]
        \/ h.pins[p].node \in M
    BY <1>2, <2>1, <2>4 DEF NoNewReaders
  <2>6. ASSUME k \in DOMAIN g.nets[m].fanouts, p = g.nets[m].fanouts[k]
        PROVE  h.pins[p].node \in M \/ Ahead(cs, n, i, k)
    <3>1. p # Null
      BY <1>2
    <3>2. p = Reader0(g, n, i, k)
      BY <2>6, Zenon DEF Reader0
    <3> HIDE DEF p, m
    <3>3. LivePin(g, p)
      BY <2>3, <2>6, <3>1, ReaderLive
    <3>4. h.pins[p].node = g.pins[p].node
      BY <3>3 DEF Reshaped, LivePin
    <3>5. Closing(g, M, cs, n)
      BY <1>2, <2>2 DEF WalkClosed, LiveNode
    <3>6. g.pins[p].node \in M \/ Ahead(cs, n, i, k)
      BY <2>3, <2>6, <3>1, <3>2, <3>5 DEF Closing, m
    <3> QED BY <3>4, <3>6
  <2> QED BY <2>5, <2>6
<1>3. \A n \in M : h.nodes[n].live => Closing(h, M, cs, n)
  BY <1>2, Zenon DEF Closing
<1> QED BY <1>1, <1>3 DEF WalkClosed

(* Pins do not lose their names.                                           *)
NamesKept(g, h) ==
  \A p \in DOMAIN g.pins : g.pins[p].name # NoName => h.pins[p].name = g.pins[p].name

(* What the mapping has made of a node stays, if the netlist keeps the     *)
(* names and the drivers.                                                  *)
LEMMA MappedReshaped ==
  ASSUME NEW g \in GraphSet, Agree(g), NEW h, Reshaped(g, h), NamesKept(g, h),
         NEW n \in DOMAIN g.nodes, BuffersOK(g), MappedNode(g, n)
  PROVE  MappedNode(h, n)
<1> SUFFICES ASSUME h.nodes[n].live PROVE MappedNode(h, n)
  BY DEF MappedNode
<1>1. LiveNode(h, n)
  BY DEF LiveNode, Reshaped
<1>2. LiveNode(g, n) /\ h.nodes[n] = g.nodes[n] /\ \A i : NetOf(h, n, i) = NetOf(g, n, i)
  BY <1>1, NetOfReshaped
<1>3. ASSUME g.nodes[n].type = "skip", NEW i \in DOMAIN g.nodes[n].outs
      PROVE  h.pins[h.nodes[n].outs[i]].name = <<h.nodes[n].name, i>>
  <2> DEFINE p == g.nodes[n].outs[i]
  <2>1. g.pins[p].name = <<g.nodes[n].name, i>>
    BY <1>2, <1>3 DEF MappedNode, LiveNode
  <2>2. p \in DOMAIN g.pins
    BY <1>2, <1>3, Zenon DEF Agree, NodeOK, OutSlotOK, LivePin, LiveNode
  <2>3. g.pins[p].name # NoName
    BY <2>1 DEF NoName
  <2> HIDE DEF p
  <2>4. h.pins[p].name = g.pins[p].name
    BY <2>2, <2>3 DEF NamesKept
  <2> QED BY <1>2, <2>1, <2>4, Zenon DEF p
<1>4. ASSUME g.nodes[n].type = "buf"
      PROVE  Len(h.nets[NetOf(h, n, 1)].drivers) > 1
  <2>1. Len(g.nets[NetOf(g, n, 1)].drivers) > 1
    BY <1>2, <1>4 DEF MappedNode, LiveNode
  <2>2. g.nodes[n].outs \in Seq(Nat) /\ Len(g.nodes[n].outs) = 1
    BY <1>2, <1>4, GraphType DEF BuffersOK, LiveNode, NodeRecord
  <2>3. 1 \in DOMAIN g.nodes[n].outs
    BY <2>2
  <2>4. NetOf(g, n, 1) \in DOMAIN g.nets
    BY <1>2, <2>3, NetOfLive DEF LiveNet
  <2>5. h.nets[NetOf(g, n, 1)].drivers = g.nets[NetOf(g, n, 1)].drivers
    BY <2>4 DEF Reshaped
  <2> QED BY <1>2, <2>1, <2>5
<1>5. h.nodes[n].type = g.nodes[n].type
  BY <1>2
<1> QED BY <1>2, <1>3, <1>4, <1>5, Zenon DEF MappedNode

-----------------------------------------------------------------------------
(* The three ways in which the graph changes after the import.             *)

(* Naming output pins gives no net a reader.                               *)
LEMMA NamedQuiet ==
  ASSUME NEW g \in GraphSet, NEW h, NEW x, Named(g, h, x), NEW M
  PROVE  NoNewReaders(g, h, M) /\ NamesKept(g, h)
<1>1. h.nets = g.nets
  BY DEF Named
<1>2. NoNewReaders(g, h, M)
  BY <1>1 DEF NoNewReaders
<1>3. NamesKept(g, h)
  BY DEF Named, NamesKept
<1> QED BY <1>2, <1>3

(* The sweep gives no net a reader.                                        *)
LEMMA TrimmedQuiet ==
  ASSUME NEW g \in GraphSet, Agree(g), NEW h, Reshaped(g, h), NEW U, Trimmed(g, h, U), NEW M
  PROVE  NoNewReaders(g, h, M) /\ NamesKept(g, h)
<1>1. NamesKept(g, h)
  BY DEF Trimmed, NamesKept
<1>2. ASSUME NEW n, NEW i, LiveNode(h, n), i \in DOMAIN h.nodes[n].outs
      PROVE  NetOf(g, n, i) \in DOMAIN g.nets
  <2>1. LiveNode(g, n) /\ h.nodes[n] = g.nodes[n]
    BY <1>2, NetOfReshaped
  <2> QED BY <1>2, <2>1, NetOfLive DEF LiveNet
<1>3. \A m \in DOMAIN g.nets : \A k \in DOMAIN h.nets[m].fanouts :
        h.nets[m].fanouts[k] # Null => k \in DOMAIN g.nets[m].fanouts
                                       /\ h.nets[m].fanouts[k] = g.nets[m].fanouts[k]
  BY DEF Trimmed
<1>4. NoNewReaders(g, h, M)
  BY <1>2, <1>3 DEF NoNewReaders
<1> QED BY <1>1, <1>4

(* Removing a buffer that is left gives marked nodes only readers which    *)
(* are marked: those of the buffer were visited before it is left.         *)
LEMMA GoneQuiet ==
  ASSUME NEW g \in GraphSet, Agree(g), NEW h, NEW n, NEW q, NEW o, NEW into, NEW other,
         Removable(g, n, q, o, into, other), BufferGone(g, h, n, q, o, into, other), Reshaped(g, h),
         NEW M, NEW cs, Closing(g, M, cs, n), ~OnStack(cs, n)
  PROVE  NoNewReaders(g, h, M) /\ NamesKept(g, h)
<1>1. NamesKept(g, h)
  BY DEF BufferGone, NamesKept
<1>2. ASSUME NEW p \in ReadersOf(g, other)
      PROVE  h.pins[p].node \in M
  <2>1. PICK k \in DOMAIN g.nets[other].fanouts : g.nets[other].fanouts[k] = p /\ p # Null
    BY DEF ReadersOf, ToSet
  <2>2. g.nodes[n].outs = <<o>> /\ g.pins[o].net = other
    BY DEF Removable
  <2>3. 1 \in DOMAIN g.nodes[n].outs /\ g.nodes[n].outs[1] = o
    BY <2>2
  <2>4. NetOf(g, n, 1) = other
    BY <2>2, <2>3 DEF NetOf
  <2>5. k \in DOMAIN g.nets[NetOf(g, n, 1)].fanouts /\ Reader0(g, n, 1, k) = p
    BY <2>1, <2>4 DEF Reader0
  <2>6. g.pins[p].node \in M \/ Ahead(cs, n, 1, k)
    BY <2>1, <2>3, <2>5 DEF Closing
  <2>7. ~Ahead(cs, n, 1, k)
    BY DEF Ahead, OnStack
  <2>8. h.pins[p].node = g.pins[p].node
    BY DEF BufferGone
  <2> QED BY <2>6, <2>7, <2>8
<1>3. ASSUME NEW m \in DOMAIN g.nets, NEW k \in DOMAIN h.nets[m].fanouts, h.nets[m].fanouts[k] # Null
      PROVE  \/ k \in DOMAIN g.nets[m].fanouts /\ h.nets[m].fanouts[k] = g.nets[m].fanouts[k]
             \/ h.pins[h.nets[m].fanouts[k]].node \in M
  <2>1. CASE m # into
    <3>1. h.nets[m].fanouts = g.nets[m].fanouts
      BY <2>1 DEF BufferGone
    <3> QED BY <1>3, <3>1
  <2>2. CASE m = into /\ k \in DOMAIN g.nets[m].fanouts
    <3>1. h.nets[into].fanouts[k] = IF k = g.pins[q].place THEN Null ELSE g.nets[into].fanouts[k]
      BY <2>2 DEF BufferGone
    <3> QED BY <1>3, <2>2, <3>1
  <2>3. CASE m = into /\ k \notin DOMAIN g.nets[m].fanouts
    <3>1. h.nets[into].fanouts[k] \in ReadersOf(g, other)
      BY <2>3 DEF BufferGone
    <3> QED BY <1>2, <2>3, <3>1
  <2> QED BY <2>1, <2>2, <2>3
<1>4. ASSUME NEW x, NEW i, LiveNode(h, x), i \in DOMAIN h.nodes[x].outs
      PROVE  NetOf(g, x, i) \in DOMAIN g.nets
  <2>1. LiveNode(g, x) /\ h.nodes[x] = g.nodes[x]
    BY <1>4, NetOfReshaped
  <2> QED BY <1>4, <2>1, NetOfLive DEF LiveNet
<1>5. NoNewReaders(g, h, M)
  BY <1>3, <1>4 DEF NoNewReaders
<1> QED BY <1>1, <1>5

(* The buffers of connections keep one input and one output.               *)
LEMMA HookedBuffers ==
  ASSUME NEW d \in Designs, NEW g, HookedGraph(g, d)
  PROVE  BuffersOK(g)
<1> SUFFICES ASSUME NEW n \in DOMAIN g.nodes, g.nodes[n].live, g.nodes[n].type = "buf"
             PROVE  Len(g.nodes[n].ins) = 1 /\ Len(g.nodes[n].outs) = 1
  BY DEF BuffersOK
<1>1. LiveNode(g, n)
  BY DEF LiveNode
<1>2. BufferShape(g, n, g.nodes[n].ins[1], g.nodes[n].outs[1])
  BY <1>1, BufferPins, Zenon
<1>3. PICK q, o : g.nodes[n].ins = <<q>> /\ g.nodes[n].outs = <<o>>
  BY <1>2, ZenonT(60) DEF BufferShape
<1> QED BY <1>3

(* A cell whose pins the mapping has just named.                           *)
LEMMA NamedMapped ==
  ASSUME NEW g \in GraphSet, Agree(g), PinNamesOK(g), NEW h, NEW n, LiveNode(g, n),
         g.nodes[n].type = "skip", Named(g, h, n)
  PROVE  MappedNode(h, n)
<1>1. h.nodes = g.nodes
  BY DEF Named
<1> SUFFICES ASSUME NEW i \in DOMAIN g.nodes[n].outs
             PROVE  h.pins[g.nodes[n].outs[i]].name = <<g.nodes[n].name, i>>
  BY <1>1, Zenon DEF MappedNode
<1> DEFINE p == g.nodes[n].outs[i]
<1>2. LivePin(g, p) /\ g.pins[p].node = n /\ g.pins[p].slot = i /\ g.pins[p].output
  BY DEF Agree, LiveNode, NodeOK, OutSlotOK
<1> HIDE DEF p
<1>3. g.pins[p].name \in DriverNames(g.nodes[n], i)
  BY <1>2 DEF PinNamesOK, LivePin
<1>4. g.pins[p].name \in {NoName, <<g.nodes[n].name, i>>}
  BY <1>3 DEF DriverNames
<1>5. h.pins[p].name = IF g.pins[p].node = n /\ g.pins[p].output /\ g.pins[p].name = NoName
                       THEN <<g.nodes[n].name, g.pins[p].slot>> ELSE g.pins[p].name
  BY <1>2 DEF Named, LivePin
<1>6. h.pins[p].name = <<g.nodes[n].name, i>>
  BY <1>2, <1>4, <1>5
<1> QED BY <1>6 DEF p

(* What leaving node n does to the rest, M being marked and cs the calls   *)
(* that are left.                                                          *)
Leaves(g, h, M, n) == NoNewReaders(g, h, M) /\ NamesKept(g, h) /\ MappedNode(h, n)

(* A node that needs no change is left as it is.                           *)
LEMMA SelfLeaves ==
  ASSUME NEW g, NEW M, NEW n, MappedNode(g, n)
  PROVE  Leaves(g, g, M, n)
BY DEF Leaves, NoNewReaders, NamesKept

(* Leaving a node maps it, and brings up no reader that the traversal has  *)
(* not come to.                                                            *)
LEMMA LeavesNode ==
  ASSUME NEW d \in Designs, HookedGraph(graph, d), Placed(graph),
         NEW n, LiveNode(graph, n), ~LoopsBack(n),
         NEW M, NEW cs, Closing(graph, M, cs, n), ~OnStack(cs, n)
  PROVE  Leaves(graph, PartialMapNode(n), M, n)
<1>0. graph \in GraphSet /\ Agree(graph) /\ PinNamesOK(graph) /\ n \in DOMAIN graph.nodes
  BY DEF HookedGraph, LiveNode
<1>1. CASE graph.nodes[n].type = "buf"
  <2> DEFINE q == graph.nodes[n].ins[1]
             o == graph.nodes[n].outs[1]
             into == graph.pins[q].net
             other == graph.pins[o].net
             h == EliminateBuffer(n)
  <2>1. PartialMapNode(n) = h
    BY <1>1 DEF PartialMapNode
  <2>2. ~(InputNet(n) = OutputNet(n) /\ Len(graph.nets[OutputNet(n)].drivers) = 1)
    BY <1>1, Zenon DEF LoopsBack
  <2>3. \/ h = graph /\ Len(graph.nets[OutputNet(n)].drivers) > 1
        \/ Removable(graph, n, q, o, into, other) /\ BufferGone(graph, h, n, q, o, into, other)
    BY <1>1, <2>2, BufferEliminated, Zenon
  <2>4. DOMAIN graph.nodes[n].outs = {1}
    <3>1. BufferShape(graph, n, graph.nodes[n].ins[1], graph.nodes[n].outs[1])
      BY <1>1, BufferPins
    <3> QED BY <3>1, Zenon DEF BufferShape
  <2>5. NetOf(graph, n, 1) = OutputNet(n)
    BY <2>4 DEF NetOf, OutputNet
  <2> HIDE DEF h, q, o, into, other
  <2>6. CASE h = graph /\ Len(graph.nets[OutputNet(n)].drivers) > 1
    <3>1. MappedNode(graph, n)
      BY <1>1, <2>5, <2>6 DEF MappedNode
    <3>2. Leaves(graph, graph, M, n)
      BY <3>1, SelfLeaves
    <3> QED BY <2>1, <2>6, <3>2
  <2>7. CASE Removable(graph, n, q, o, into, other) /\ BufferGone(graph, h, n, q, o, into, other)
    <3>1. Reshaped(graph, h)
      BY <1>0, <2>7, GoneKeeps
    <3>2. NoNewReaders(graph, h, M) /\ NamesKept(graph, h)
      BY <1>0, <2>7, <3>1, GoneQuiet
    <3>3. ~h.nodes[n].live
      BY <2>7 DEF BufferGone
    <3>4. MappedNode(h, n)
      BY <3>3 DEF MappedNode
    <3> QED BY <2>1, <3>2, <3>4 DEF Leaves
  <2> QED BY <2>3, <2>6, <2>7
<1>2. CASE graph.nodes[n].type = "skip"
  <2> DEFINE h == InstantiateHardBlock(graph, n)
  <2>1. PartialMapNode(n) = h
    BY <1>2 DEF PartialMapNode
  <2>2. Named(graph, h, n)
    BY <1>0, InstantiateNames
  <2> HIDE DEF h
  <2>3. NoNewReaders(graph, h, M) /\ NamesKept(graph, h)
    BY <1>0, <2>2, NamedQuiet
  <2>4. MappedNode(h, n)
    BY <1>0, <1>2, <2>2, NamedMapped
  <2> QED BY <2>1, <2>3, <2>4 DEF Leaves
<1>3. CASE graph.nodes[n].type \notin {"buf", "skip"}
  <2>1. PartialMapNode(n) = graph
    BY <1>3, Zenon DEF PartialMapNode
  <2>2. MappedNode(graph, n)
    BY <1>3 DEF MappedNode
  <2>3. Leaves(graph, graph, M, n)
    BY <2>2, SelfLeaves
  <2> QED BY <2>1, <2>3
<1> QED BY <1>1, <1>2, <1>3

-----------------------------------------------------------------------------
(* The calls, step by step.                                                *)

(* The readers of a node the mapping visited were visited too.             *)
LEMMA CoveredReader ==
  ASSUME NEW g, NEW d, NEW M, Covered(g, d, M), NEW n \in M, LiveNode(g, n),
         NEW i \in DOMAIN g.nodes[n].outs, NEW k \in DOMAIN g.nets[NetOf(g, n, i)].fanouts,
         Reader0(g, n, i, k) # Null
  PROVE  g.pins[Reader0(g, n, i, k)].node \in M
<1>1. Closing(g, M, <<>>, n)
  BY DEF Covered, WalkClosed, LiveNode
<1>2. g.pins[Reader0(g, n, i, k)].node \in M \/ Ahead(<<>>, n, i, k)
  BY <1>1 DEF Closing
<1>3. ~Ahead(<<>>, n, i, k)
  BY DEF Ahead
<1> QED BY <1>2, <1>3

(* The running call goes past a reader that M has or that is not there.    *)
LEMMA PastReader ==
  ASSUME GraphInv, NEW M, AtReader, Reader(Running) # Null => graph.pins[Reader(Running)].node \in M
  PROVE  AheadStill(graph, M, calls, Continue([Running EXCEPT !.reader = @ + 1]))
         /\ Continue([Running EXCEPT !.reader = @ + 1]) \in Seq(CallRecord)
<1> DEFINE r == Running
           r2 == [r EXCEPT !.reader = @ + 1]
<1>1. calls # <<>> /\ r.net # Null /\ stage \in Walks
  BY DEF AtReader, Walking, Walks
<1>2. r \in CallRecord /\ CallOK(graph, marked, r) /\ r.pin \in DOMAIN graph.nodes[r.node].outs
  BY <1>1, RunningFacts
<1>3. calls \in Seq(CallRecord) /\ graph \in GraphSet /\ Agree(graph)
  BY <1>1, WalkingFacts, Zenon
<1>4. r = Last(calls) /\ Reader(Running) = graph.nets[r.net].fanouts[r.reader]
  BY DEF Running, Reader
<1>5. Reader(Running) # Null => graph.pins[Reader(Running)].node \in M
  OBVIOUS
<1> HIDE DEF r
<1>6. r2 \in CallRecord /\ r2.node = r.node /\ r2.pin = r.pin /\ r2.reader = r.reader + 1
  <2>1. r2 \in CallRecord /\ r2 = [node |-> r.node, pin |-> r.pin, reader |-> r.reader + 1, net |-> r.net]
    BY <1>2, CallNextReader
  <2> QED BY <2>1
<1> HIDE DEF r2
<1>7. LiveNode(graph, r.node) /\ r.net = NetOf(graph, r.node, r.pin)
  BY <1>2, Zenon DEF CallOK
<1>8. ReaderDone(graph, M, r.node, r.pin, r.reader)
  BY <1>4, <1>5, <1>7 DEF ReaderDone, Reader0
<1>9. r.reader \in Nat /\ r.pin \in Nat
  BY <1>2 DEF CallRecord
<1>10. GoesOn(graph, M, r, r2)
  <2> SUFFICES ASSUME NEW i \in DOMAIN graph.nodes[r.node].outs,
                      NEW k \in DOMAIN graph.nets[NetOf(graph, r.node, i)].fanouts,
                      r.pin < i \/ (r.pin = i /\ r.reader <= k)
               PROVE  ReaderDone(graph, M, r.node, i, k) \/ r2.pin < i \/ (r2.pin = i /\ r2.reader <= k)
    BY <1>6 DEF GoesOn
  <2>1. k \in Nat
    BY <1>3, <1>7, Slots
  <2>2. CASE r.pin < i
    BY <1>6, <2>2
  <2>3. CASE r.pin = i /\ r.reader <= k
    <3>1. r.reader = k \/ r.reader + 1 <= k
      BY <1>9, <2>1, <2>3
    <3> QED BY <1>6, <1>8, <2>3, <3>1
  <2> QED BY <2>2, <2>3
<1>11. AheadStill(graph, M, calls, Append(Front(calls), r2))
  BY <1>1, <1>3, <1>4, <1>6, <1>10, ContinuedAhead
<1>12. Append(Front(calls), r2) \in Seq(CallRecord)
  BY <1>1, <1>3, <1>6, StackReplace
<1> QED BY <1>11, <1>12 DEF Continue, r, r2

(* What a live node stands for.                                            *)
IsSource(g, d, n) == n \in 1 .. SourceCount(d) /\ SourceHas(g, d, n)
IsOutput(g, d, n) == \E i \in 1 .. Len(d.outputs) : n = SourceCount(d) + i /\ OutputHas(g, d, i)
IsCell(g, d, n) == \E i \in 1 .. Len(d.cells) : n = Before(d) + i /\ CellHas(g, d, i)
IsBuffer(g, d, n) == \E j \in 1 .. Len(d.connections) : BufferFor(g, d, n, j)

(* A live node is that of a constant or an input, of an output, of a cell  *)
(* or of a connection.                                                     *)
LEMMA LayoutKinds ==
  ASSUME NEW d \in Designs, NEW g \in GraphSet, Layout(g, d, Len(d.cells), Len(d.connections)),
         NEW n, LiveNode(g, n)
  PROVE  IsSource(g, d, n) \/ IsOutput(g, d, n) \/ IsCell(g, d, n) \/ IsBuffer(g, d, n)
<1>0. Layout(g, d, Len(d.cells), Len(d.connections)) /\ g \in GraphSet
  OBVIOUS
<1> DEFINE C == SourceCount(d)
           O == Len(d.outputs)
           N == Len(d.cells)
           B == Before(d)
<1>1. C \in Nat /\ O \in Nat /\ N \in Nat /\ B = C + O
  BY DesignFacts DEF Before
<1>2. n \in Nat /\ n >= 1
  BY <1>0, GraphType DEF LiveNode
<1>3. CASE n <= C
  <2>1. n \in 1 .. C
    BY <1>1, <1>2, <1>3
  <2>2. SourceHas(g, d, n)
    BY <1>0, <2>1 DEF Layout
  <2> QED BY <2>1, <2>2 DEF IsSource
<1>4. CASE n > C /\ n <= C + O
  <2>1. n - C \in 1 .. O /\ C + (n - C) = n
    BY <1>1, <1>2, <1>4
  <2>2. OutputHas(g, d, n - C)
    BY <1>0, <2>1 DEF Layout
  <2> QED BY <2>1, <2>2 DEF IsOutput
<1>5. CASE n > C + O /\ n <= B + N
  <2>1. n - B \in 1 .. N /\ B + (n - B) = n
    BY <1>1, <1>2, <1>5
  <2>2. CellHas(g, d, n - B)
    BY <1>0, <2>1 DEF Layout
  <2> QED BY <2>1, <2>2 DEF IsCell
<1>6. CASE n > B + N
  <2>1. \E j \in 1 .. Len(d.connections) : BufferFor(g, d, n, j)
    BY <1>0, <1>6 DEF Layout, LiveNode
  <2> QED BY <2>1 DEF IsBuffer
<1> QED BY <1>1, <1>2, <1>3, <1>4, <1>5, <1>6

(* A live node is that of a constant or an input, of an output, of a cell  *)
(* or of a connection.                                                     *)
LEMMA NodeKinds ==
  ASSUME NEW d \in Designs, NEW g, HookedGraph(g, d), NEW n, LiveNode(g, n)
  PROVE  IsSource(g, d, n) \/ IsOutput(g, d, n) \/ IsCell(g, d, n) \/ IsBuffer(g, d, n)
<1>1. g \in GraphSet /\ Layout(g, d, Len(d.cells), Len(d.connections))
  BY DEF HookedGraph
<1> QED BY <1>1, LayoutKinds

(* The type of a node says what it stands for.                             *)
LEMMA KindTypes ==
  ASSUME NEW d, NEW g, NEW n
  PROVE  /\ IsSource(g, d, n) => g.nodes[n].type \in {"constant", "input"}
         /\ IsOutput(g, d, n) => g.nodes[n].type = "output"
         /\ IsCell(g, d, n) => g.nodes[n].type = "skip"
         /\ IsBuffer(g, d, n) => g.nodes[n].type = "buf"
<1>1. IsSource(g, d, n) => g.nodes[n].type \in {"constant", "input"}
  BY DEF IsSource, SourceHas, NodeIs, NodeHas, SourceType
<1>2. IsOutput(g, d, n) => g.nodes[n].type = "output"
  BY Zenon DEF IsOutput, OutputHas, NodeIs, NodeHas
<1>3. IsCell(g, d, n) => g.nodes[n].type = "skip"
  BY Zenon DEF IsCell, CellHas, NodeIs, NodeHas
<1>4. IsBuffer(g, d, n) => g.nodes[n].type = "buf"
  BY Zenon DEF IsBuffer, BufferFor, NodeIs, NodeHas
<1> QED BY <1>1, <1>2, <1>3, <1>4

(* A live node of type SKIP is that of a cell.                             *)
LEMMA SkipIsCell ==
  ASSUME NEW d \in Designs, NEW g, HookedGraph(g, d), NEW n, LiveNode(g, n), g.nodes[n].type = "skip"
  PROVE  IsCell(g, d, n)
BY NodeKinds, KindTypes

(* No two cells have the same name.                                        *)
LEMMA CellNamesDiffer ==
  ASSUME NEW d \in Designs, NEW g, NEW m, NEW n, IsCell(g, d, m), IsCell(g, d, n),
         g.nodes[m].name = g.nodes[n].name
  PROVE  m = n
<1>1. PICK i \in 1 .. Len(d.cells) : m = Before(d) + i /\ CellHas(g, d, i)
  BY DEF IsCell
<1>2. PICK j \in 1 .. Len(d.cells) : n = Before(d) + j /\ CellHas(g, d, j)
  BY DEF IsCell
<1>3. g.nodes[m].name = d.cells[i].name /\ g.nodes[n].name = d.cells[j].name
  BY <1>1, <1>2, Zenon DEF CellHas, NodeIs, NodeHas
<1>4. i \in DOMAIN d.cells /\ j \in DOMAIN d.cells
  BY DesignFacts
<1>5. i = j
  BY <1>3, <1>4, DesignsAssumption DEF IsDesign
<1> QED BY <1>1, <1>2, <1>5

-----------------------------------------------------------------------------
(* What the writer adds.                                                   *)

(* What is written of some nodes is written of more.                       *)
LEMMA WrittenMore ==
  ASSUME NEW g, NEW w, NEW S, WrittenFrom(g, w, S), NEW S2, S \subseteq S2
  PROVE  WrittenFrom(g, w, S2)
BY DEF WrittenFrom

(* Nothing is written of no node.                                          *)
LEMMA NothingWritten ==
  ASSUME NEW g, NEW S
  PROVE  WrittenFrom(g, Nothing, S)
<1>1. Nothing.cells = <<>> /\ Nothing = [cells |-> Nothing.cells, connects |-> Nothing.connects]
  BY DEF Nothing
<1>2. DOMAIN Nothing.cells = {}
  BY <1>1
<1> QED BY <1>1, <1>2 DEF WrittenFrom

(* Appending to a sequence, whose elements are those it has.               *)
LEMMA AppendSelf ==
  ASSUME NEW s, s \in Seq(ToSet(s)), NEW x
  PROVE  LET e == Append(s, x)
         IN  /\ e \in Seq(ToSet(e)) /\ Len(s) \in Nat
             /\ DOMAIN e = DOMAIN s \cup {Len(s) + 1} /\ Len(s) + 1 \notin DOMAIN s
             /\ e[Len(s) + 1] = x /\ \A i \in DOMAIN s : e[i] = s[i]
<1> DEFINE T == ToSet(s) \cup {x}
           e == Append(s, x)
           L == Len(s)
<1>1. s \in Seq(T)
  OBVIOUS
<1>2. x \in T
  OBVIOUS
<1> HIDE DEF T
<1>3. e \in Seq(T) /\ Len(e) = L + 1 /\ L \in Nat /\ DOMAIN s = 1 .. L /\ DOMAIN e = 1 .. L + 1
  BY <1>1, <1>2
<1>4. e[L + 1] = x /\ \A i \in 1 .. L : e[i] = s[i]
  BY <1>1, <1>2
<1> HIDE DEF e, L
<1>5. \A i \in DOMAIN e : e[i] \in ToSet(e)
  BY DEF ToSet
<1>6. e \in Seq(ToSet(e))
  <2>1. e = [i \in 1 .. L + 1 |-> e[i]]
    BY <1>3
  <2>2. L + 1 \in Nat
    BY <1>3
  <2> QED BY <1>3, <1>5, <2>1, <2>2
<1>7. DOMAIN e = DOMAIN s \cup {L + 1} /\ L + 1 \notin DOMAIN s
  BY <1>3
<1> QED BY <1>3, <1>4, <1>6, <1>7 DEF e, L

(* Writing the cell of a node that was not marked keeps the written cells  *)
(* apart.                                                                  *)
LEMMA WrittenAppend ==
  ASSUME NEW d \in Designs, NEW g, HookedGraph(g, d), NEW w, NEW S, WrittenFrom(g, w, S),
         NEW n, LiveNode(g, n), g.nodes[n].type = "skip", n \notin S,
         NEW c, c.name = g.nodes[n].name, \A k \in DOMAIN c.outs : c.outs[k] = <<c.name, k>>
  PROVE  WrittenFrom(g, [w EXCEPT !.cells = Append(@, c)], S \cup {n})
<1> DEFINE s == w.cells
           e == Append(s, c)
           v == [w EXCEPT !.cells = e]
           L == Len(s) + 1
<1>1. w = [cells |-> s, connects |-> w.connects] /\ s \in Seq(ToSet(s))
  BY DEF WrittenFrom
<1>2. v = [cells |-> e, connects |-> w.connects]
  <2> HIDE DEF e, s
  <2> QED BY <1>1
<1>3. /\ e \in Seq(ToSet(e)) /\ DOMAIN e = DOMAIN s \cup {L} /\ L \notin DOMAIN s
      /\ e[L] = c /\ \A i \in DOMAIN s : e[i] = s[i]
  BY <1>1, AppendSelf
<1>4. /\ \A i \in DOMAIN s :
           /\ \E x \in S : LiveNode(g, x) /\ g.nodes[x].type = "skip" /\ s[i].name = g.nodes[x].name
           /\ \A k \in DOMAIN s[i].outs : s[i].outs[k] = <<s[i].name, k>>
      /\ \A i, j \in DOMAIN s : s[i].name = s[j].name => i = j
  BY DEF WrittenFrom
<1> HIDE DEF s, e, L
<1>5. ASSUME NEW i \in DOMAIN s PROVE s[i].name # c.name
  <2>1. PICK x \in S : LiveNode(g, x) /\ g.nodes[x].type = "skip" /\ s[i].name = g.nodes[x].name
    BY <1>4
  <2>2. IsCell(g, d, x) /\ IsCell(g, d, n)
    BY <2>1, SkipIsCell
  <2>3. g.nodes[x].name = g.nodes[n].name => x = n
    BY <2>2, CellNamesDiffer
  <2> QED BY <2>1, <2>3
<1>6. ASSUME NEW i \in DOMAIN e
      PROVE  /\ \E x \in S \cup {n} : LiveNode(g, x) /\ g.nodes[x].type = "skip" /\ e[i].name = g.nodes[x].name
             /\ \A k \in DOMAIN e[i].outs : e[i].outs[k] = <<e[i].name, k>>
  <2>1. CASE i \in DOMAIN s
    <3>1. e[i] = s[i]
      BY <1>3, <2>1
    <3> QED BY <1>4, <2>1, <3>1
  <2>2. CASE i = L
    <3>1. e[i] = c
      BY <1>3, <2>2
    <3> QED BY <3>1
  <2> QED BY <1>3, <2>1, <2>2
<1>7. ASSUME NEW i \in DOMAIN e, NEW j \in DOMAIN e, e[i].name = e[j].name PROVE i = j
  <2>1. CASE i \in DOMAIN s /\ j \in DOMAIN s
    BY <1>3, <1>4, <1>7, <2>1
  <2>2. CASE i \in DOMAIN s /\ j = L
    BY <1>3, <1>5, <1>7, <2>2
  <2>3. CASE i = L /\ j \in DOMAIN s
    BY <1>3, <1>5, <1>7, <2>3
  <2> QED BY <1>3, <2>1, <2>2, <2>3
<1>8. v.cells = e /\ v.connects = w.connects
  BY <1>2
<1> HIDE DEF v
<1>9. v = [cells |-> v.cells, connects |-> v.connects]
  BY <1>2, <1>8
<1>10. WrittenFrom(g, v, S \cup {n})
  BY <1>3, <1>6, <1>7, <1>8, <1>9 DEF WrittenFrom
<1> QED BY <1>10 DEF v, e, s

(* The writer at a node the mapping has visited.                           *)
LEMMA VisitWrites ==
  ASSUME NEW d \in Designs, HookedGraph(graph, d), stage = "write",
         NEW M, Covered(graph, d, M), NEW n \in M, LiveNode(graph, n),
         graph.nodes[n].type = "skip" => n \notin marked,
         WrittenFrom(graph, written, marked), Visit(n)
  PROVE  WrittenFrom(graph, written', marked')
<1>1. marked' = marked \cup {n}
  BY DEF Visit
<1>2. CASE written' = written
  BY <1>1, <1>2, WrittenMore
<1>3. CASE written' # written
  <2>1. graph.nodes[n].type = "skip" /\ written' = [written EXCEPT !.cells = Append(@, WrittenCell(n))]
    BY <1>3 DEF Visit
  <2> DEFINE c == WrittenCell(n)
  <2>2. c.name = graph.nodes[n].name /\ c.outs = [i \in DOMAIN graph.nodes[n].outs |-> graph.pins[graph.nodes[n].outs[i]].name]
    BY Zenon DEF WrittenCell
  <2>3. \A i \in DOMAIN graph.nodes[n].outs : graph.pins[graph.nodes[n].outs[i]].name = <<graph.nodes[n].name, i>>
    BY <2>1, Zenon DEF Covered, MappedNode, LiveNode
  <2>4. \A k \in DOMAIN c.outs : c.outs[k] = <<c.name, k>>
    BY <2>2, <2>3, Zenon
  <2> HIDE DEF c
  <2>5. WrittenFrom(graph, [written EXCEPT !.cells = Append(@, c)], marked \cup {n})
    BY <2>1, <2>2, <2>4, WrittenAppend, Zenon
  <2> QED BY <1>1, <2>1, <2>5 DEF c
<1> QED BY <1>2, <1>3

-----------------------------------------------------------------------------
(* The walk invariant, action by action.                                   *)

(* What a step of a traversal has to show.                                 *)
LEMMA WalkKept ==
  ASSUME stage' \in Walks, position' \in 1 .. SourceCount(design') + 1,
         WalkClosed(graph', marked', calls'), \A i \in DOMAIN Roots' : i < position' => Roots'[i] \in marked',
         stage' = "map" => /\ written' = Nothing
                           /\ \A n \in marked' : OnStack(calls', n) \/ MappedNode(graph', n),
         stage' = "write" => \E M \in SUBSET DOMAIN graph'.nodes :
                               Covered(graph', design', M) /\ marked' \subseteq M,
         WrittenFrom(graph', written', marked')
  PROVE  WalkInv'
<1>1. marked' \subseteq DOMAIN graph'.nodes
  BY DEF WalkClosed
<1>2. WrittenFrom(graph', written', DOMAIN graph'.nodes)
  BY <1>1, WrittenMore
<1>3. /\ stage' \notin {"cells", "connections", "hook_up", "sweep", "outputs"}
      /\ stage' = "map" \/ stage' = "write"
  BY DEF Walks
<1> QED BY <1>2, <1>3 DEF WalkInv

(* Nothing changes once the pass has stopped.                              *)
LEMMA RefusedKept ==
  ASSUME stage' = "refused", WrittenFrom(graph', written', DOMAIN graph'.nodes)
  PROVE  WalkInv'
<1>1. stage' \notin Walks
  BY DEF Walks
<1> QED BY <1>1 DEF WalkInv

(* The invariant of the traversals holds initially.                        *)
LEMMA InitWalk ==
  ASSUME Init
  PROVE  WalkInv
<1>1. stage = "cells" /\ written = Nothing
  BY DEF Init
<1>2. stage \notin Walks
  BY <1>1 DEF Walks
<1> QED BY <1>1, <1>2, NothingWritten DEF WalkInv

(* The import keeps the invariant of the traversals.                       *)
LEMMA ImportWalk ==
  ASSUME GraphInv, WalkInv, ImportCell \/ LastCell \/ ImportConnection \/ LastConnection
  PROVE  WalkInv'
<1>1. written = Nothing /\ written' = Nothing
  BY DEF WalkInv, ImportCell, LastCell, ImportConnection, LastConnection
<1>2. /\ stage' \in {"cells", "connections", "hook_up"}
      /\ stage' = "hook_up" => position' = 1
  BY DEF ImportCell, LastCell, ImportConnection, LastConnection
<1>3. stage' \notin Walks
  BY <1>2 DEF Walks
<1>4. WrittenFrom(graph', written', DOMAIN graph'.nodes)
  BY <1>1, NothingWritten
<1> QED BY <1>1, <1>2, <1>3, <1>4 DEF WalkInv

RootsKnown ==
  /\ DOMAIN Roots = 1 .. SourceCount(design) /\ SourceCount(design) \in Nat
  /\ \A n \in 1 .. SourceCount(design) : \E i \in DOMAIN Roots : Roots[i] = n

DesignGiven == design \in Designs

(* The roots of a traversal are the constants and inputs, in some order.   *)
LEMMA RootsAreKnown ==
  DesignGiven => RootsKnown
BY RootFacts DEF RootsKnown, DesignGiven

(* The roots of a traversal are the constants and inputs, in some order.   *)
LEMMA RootsPrimed ==
  ASSUME design' \in Designs
  PROVE  /\ DOMAIN Roots' = 1 .. SourceCount(design') /\ SourceCount(design') \in Nat
         /\ \A n \in 1 .. SourceCount(design') : \E i \in DOMAIN Roots' : Roots'[i] = n
<1>1. DesignGiven' => RootsKnown'
  BY RootsAreKnown, PTL
<1> QED BY <1>1 DEF RootsKnown, DesignGiven

(* Putting the pins on their nets keeps the invariant of the traversals.   *)
LEMMA HookUpWalk ==
  ASSUME GraphInv, WalkInv, HookUp
  PROVE  WalkInv'
<1>1. /\ stage = "hook_up" /\ written = Nothing /\ written' = written /\ position = 1
      /\ position' = position /\ calls' = calls /\ marked' = marked
      /\ calls = <<>> /\ marked = {} /\ design' = design /\ design \in Designs
  BY DEF HookUp, WalkInv, walkVars, GraphInv, ImportInv
<1>2. \A S : WrittenFrom(graph', written', S)
  BY <1>1, NothingWritten
<1>3. CASE stage' = "refused"
  BY <1>2, <1>3, RefusedKept
<1>4. CASE stage' = "map"
  <2>1. WalkClosed(graph', marked', calls')
    BY <1>1 DEF WalkClosed
  <2>2. 1 \in 1 .. SourceCount(design') + 1
    <3> DEFINE L == SourceCount(design')
    <3>1. L \in Nat
      BY <1>1, RootsPrimed
    <3> HIDE DEF L
    <3> QED BY <3>1 DEF L
  <2>3. \A i \in DOMAIN Roots' : ~(i < 1)
    <3>1. DOMAIN Roots' = 1 .. SourceCount(design') /\ SourceCount(design') \in Nat
      BY <1>1, RootsPrimed
    <3> QED BY <3>1
  <2>4. position' = 1 /\ marked' = {} /\ written' = Nothing
    BY <1>1
  <2>5. stage' \in Walks
    BY <1>4 DEF Walks
  <2> QED BY <1>2, <1>4, <2>1, <2>2, <2>3, <2>4, <2>5, WalkKept
<1> QED BY <1>3, <1>4 DEF HookUp, Refuse

(* A call that goes on stays the call of its node.                         *)
LEMMA OnStackContinued ==
  ASSUME NEW cs \in Seq(CallRecord), cs # <<>>, NEW c \in CallRecord, c.node = Last(cs).node
  PROVE  \A n : OnStack(cs, n) => OnStack(Append(Front(cs), c), n)
<1> DEFINE L == Len(cs)
           e == Append(Front(cs), c)
<1>1. DOMAIN e = DOMAIN cs /\ e[L] = c /\ \A x \in DOMAIN cs : x # L => e[x] = cs[x]
  BY StackReplace
<1>2. Last(cs) = cs[L]
  BY StackFacts
<1> HIDE DEF e, L
<1>3. \A x \in DOMAIN cs : x \in DOMAIN e /\ e[x].node = cs[x].node
  BY <1>1, <1>2
<1>4. \A n : OnStack(cs, n) => OnStack(e, n)
  BY <1>3 DEF OnStack
<1> QED BY <1>4 DEF e

(* Another call leaves those below it.                                     *)
LEMMA OnStackPushed ==
  ASSUME NEW cs \in Seq(CallRecord), NEW c \in CallRecord
  PROVE  /\ \A n : OnStack(cs, n) => OnStack(Append(cs, c), n)
         /\ OnStack(Append(cs, c), c.node)
<1> DEFINE e == Append(cs, c)
           L == Len(cs) + 1
<1>1. DOMAIN e = DOMAIN cs \cup {L} /\ e[L] = c /\ \A x \in DOMAIN cs : e[x] = cs[x]
  BY StackPush
<1> HIDE DEF e, L
<1>2. (\A n : OnStack(cs, n) => OnStack(e, n)) /\ OnStack(e, c.node)
  BY <1>1 DEF OnStack
<1> QED BY <1>2 DEF e

(* What entering node n does to the calls.                                 *)
Entered(n) ==
  /\ WalkClosed(graph, marked', calls')
  /\ \A x : OnStack(calls, x) => OnStack(calls', x)
  /\ OnStack(calls', n)

(* Entering a node leaves the traversal closed: the readers of the node    *)
(* are all ahead.                                                          *)
LEMMA EnterNode ==
  ASSUME GraphInv, stage \in Walks, WalkClosed(graph, marked, calls),
         NEW n, LiveNode(graph, n), Visit(n),
         calls = <<>> \/ (AtReader /\ graph.pins[Reader(Running)].node = n)
  PROVE  Entered(n)
<1> DEFINE cs == IF calls = <<>> THEN <<>> ELSE Continue([Running EXCEPT !.reader = @ + 1])
           c == Call(n, 1)
           e == Append(cs, c)
           M == marked \cup {n}
<1>1. calls' = e /\ marked' = M
  BY DEF Visit
<1>2. graph \in GraphSet /\ Agree(graph) /\ calls \in Seq(CallRecord)
  BY WalkingFacts
<1>3. cs \in Seq(CallRecord) /\ AheadStill(graph, M, calls, cs) /\ \A x : OnStack(calls, x) => OnStack(cs, x)
  <2>1. CASE calls = <<>>
    <3>1. cs = calls
      BY <2>1
    <3> QED BY <1>2, <3>1, AheadSame
  <2>2. CASE calls # <<>>
    <3> DEFINE r2 == [Running EXCEPT !.reader = @ + 1]
    <3>1. AtReader /\ (Reader(Running) # Null => graph.pins[Reader(Running)].node \in M)
      BY <2>2
    <3>2. AheadStill(graph, M, calls, Continue(r2)) /\ Continue(r2) \in Seq(CallRecord)
      <4> HIDE DEF M
      <4> QED BY <3>1, PastReader
    <3>3. r2 \in CallRecord /\ r2.node = Last(calls).node
      <4> DEFINE r == Running
      <4>1. r \in CallRecord
        BY <2>2, RunningFacts
      <4> HIDE DEF r
      <4>2. [r EXCEPT !.reader = @ + 1] \in CallRecord /\ [r EXCEPT !.reader = @ + 1].node = r.node
        BY <4>1, CallNextReader, ZenonT(60)
      <4> QED BY <4>2 DEF r, Running
    <3> HIDE DEF r2
    <3>4. \A x : OnStack(calls, x) => OnStack(Append(Front(calls), r2), x)
      BY <1>2, <2>2, <3>3, OnStackContinued
    <3>5. cs = Continue(r2)
      BY <2>2 DEF r2
    <3> QED BY <3>2, <3>4, <3>5 DEF Continue
  <2> QED BY <2>1, <2>2
<1>4. c \in CallRecord /\ c.node = n /\ c.pin = 1 /\ c.reader = 1
  <2>1. graph.nodes[n].outs \in Seq(Nat)
    BY <1>2, GraphType DEF LiveNode, NodeRecord
  <2>2. 1 \in 1 .. Len(graph.nodes[n].outs) + 1
    <3> DEFINE L == Len(graph.nodes[n].outs)
    <3>1. L \in Nat
      BY <2>1
    <3> HIDE DEF L
    <3> QED BY <3>1 DEF L
  <2>3. c \in CallRecord /\ c.node = n
    <3>1. n \in {n}
      OBVIOUS
    <3> QED BY <1>2, <2>2, <3>1, CallMade
  <2>4. c.pin = 1 /\ c.reader = 1
    BY DEF Call
  <2> QED BY <2>3, <2>4
<1> HIDE DEF cs, c
<1>5. /\ DOMAIN e = DOMAIN cs \cup {Len(cs) + 1} /\ e[Len(cs) + 1] = c
      /\ \A x : OnStack(cs, x) => OnStack(e, x)
      /\ OnStack(e, c.node)
  BY <1>3, <1>4, StackPush, OnStackPushed
<1>6. AheadStill(graph, M, calls, e)
  <2> HIDE DEF M
  <2> QED BY <1>3, <1>4, AheadPush
<1>7. Closing(graph, M, e, n)
  <2> HIDE DEF M, e
  <2>1. Len(cs) + 1 \in DOMAIN e /\ e[Len(cs) + 1].node = n /\ e[Len(cs) + 1].pin = 1 /\ e[Len(cs) + 1].reader = 1
    BY <1>4, <1>5
  <2> QED BY <1>2, <2>1, EnteredClosing
<1>8. marked \subseteq M /\ M \subseteq DOMAIN graph.nodes
      /\ \A x \in M \ marked : LiveNode(graph, x) => Closing(graph, M, e, x)
  BY <1>7 DEF WalkClosed, LiveNode
<1> HIDE DEF e, M
<1>9. WalkClosed(graph, M, e)
  BY <1>6, <1>8, ClosedStill
<1> QED BY <1>1, <1>3, <1>4, <1>5, <1>9 DEF Entered

(* The writer comes only to nodes the mapping visited.                     *)
LEMMA CoveredNext ==
  ASSUME WalkInv, stage = "write", GraphInv, NEW n, LiveNode(graph, n),
         n \in 1 .. SourceCount(design) \/
         (AtReader /\ Reader(Running) # Null /\ graph.pins[Reader(Running)].node = n)
  PROVE  \E M \in SUBSET DOMAIN graph.nodes : Covered(graph, design, M) /\ marked \cup {n} \subseteq M
<1>1. PICK M \in SUBSET DOMAIN graph.nodes : Covered(graph, design, M) /\ marked \subseteq M
  BY DEF WalkInv
<1>2. CASE n \in 1 .. SourceCount(design)
  <2>1. n \in M
    BY <1>1, <1>2 DEF Covered
  <2> QED BY <1>1, <2>1
<1>3. CASE AtReader /\ Reader(Running) # Null /\ graph.pins[Reader(Running)].node = n
  <2> DEFINE r == Running
  <2>1. calls # <<>> /\ r.net # Null /\ r.reader \in DOMAIN graph.nets[r.net].fanouts
    BY <1>3 DEF AtReader
  <2>2. CallOK(graph, marked, r) /\ r.pin \in DOMAIN graph.nodes[r.node].outs
    BY <2>1, RunningFacts
  <2>3. Reader(Running) = graph.nets[r.net].fanouts[r.reader]
    BY DEF Reader
  <2> HIDE DEF r
  <2>4. LiveNode(graph, r.node) /\ r.node \in marked /\ r.net = NetOf(graph, r.node, r.pin)
    BY <2>2 DEF CallOK
  <2>5. Reader0(graph, r.node, r.pin, r.reader) = Reader(Running)
    BY <2>3, <2>4 DEF Reader0
  <2>6. graph.pins[Reader0(graph, r.node, r.pin, r.reader)].node \in M
    BY <1>1, <1>3, <2>1, <2>2, <2>4, <2>5, CoveredReader
  <2>7. n \in M
    BY <1>3, <2>5, <2>6
  <2> QED BY <1>1, <2>7
<1> QED BY <1>2, <1>3

(* Entering a node keeps the invariant of the traversals; the writer       *)
(* enters the node of a cell once.                                         *)
LEMMA VisitWalk ==
  ASSUME GraphInv, WalkInv, stage \in Walks, NEW n, LiveNode(graph, n), Visit(n),
         design' = design, graph' = graph,
         \/ calls = <<>> /\ n \in 1 .. SourceCount(design)
         \/ AtReader /\ Reader(Running) # Null /\ graph.pins[Reader(Running)].node = n /\ n \notin marked,
         position' \in 1 .. SourceCount(design') + 1,
         \A i \in DOMAIN Roots : i < position' => Roots[i] \in marked'
  PROVE  WalkInv'
<1>1. WalkClosed(graph, marked, calls) /\ design \in Designs /\ HookedGraph(graph, design)
  BY WalkingFacts DEF WalkInv
<1>2. Entered(n)
  BY <1>1, EnterNode
<1>3. marked' = marked \cup {n}
  BY DEF Visit
<1>4. graph.nodes[n].type = "skip" => n \notin marked
  <2>1. n \in 1 .. SourceCount(design) => graph.nodes[n].type # "skip"
    <3> SUFFICES ASSUME n \in 1 .. SourceCount(design) PROVE graph.nodes[n].type # "skip"
      OBVIOUS
    <3>1. graph.nodes[n].type \in {"constant", "input"}
      BY <1>1, RootLive
    <3> QED BY <3>1
  <2> QED BY <2>1
<1>5. CASE stage' = stage /\ stage = "map"
  <2>1. written' = Nothing
    BY <1>5 DEF Visit, WalkInv
  <2>2. \A x \in marked' : OnStack(calls', x) \/ MappedNode(graph', x)
    BY <1>2, <1>3, <1>5 DEF WalkInv, Entered
  <2>3. Roots' = Roots
    BY <1>5 DEF Roots, Inputs
  <2> QED BY <1>2, <1>5, <2>1, <2>2, <2>3, NothingWritten, WalkKept DEF Entered
<1>6. CASE stage' = stage /\ stage = "write"
  <2>1. PICK M \in SUBSET DOMAIN graph.nodes : Covered(graph, design, M) /\ marked \cup {n} \subseteq M
    BY <1>6, CoveredNext
  <2>2. WrittenFrom(graph, written, marked)
    BY <1>6 DEF WalkInv
  <2>3. WrittenFrom(graph, written', marked')
    BY <1>1, <1>4, <1>6, <2>1, <2>2, VisitWrites
  <2>4. Roots' = Roots
    BY <1>6 DEF Roots, Inputs
  <2> QED BY <1>2, <1>3, <1>6, <2>1, <2>3, <2>4, WalkKept DEF Entered
<1>7. CASE stage' = "refused"
  <2>1. written' = written
    <3>1. stage # "refused"
      BY DEF Walks
    <3> QED BY <1>7, <3>1 DEF Visit, Refuse
  <2>2. WrittenFrom(graph, written, DOMAIN graph.nodes)
    BY DEF WalkInv
  <2> QED BY <1>7, <2>1, <2>2, RefusedKept
<1>8. stage' = stage \/ stage' = "refused"
  BY DEF Visit, Refuse
<1> QED BY <1>5, <1>6, <1>7, <1>8 DEF Walks

(* The roots depend on the design and the stage.                           *)
LEMMA RootsSame ==
  ASSUME design' = design, stage' = stage
  PROVE  Roots' = Roots
BY DEF Roots, Inputs

(* Entering a constant or an input keeps the invariant of the traversals.  *)
LEMMA VisitRootWalk ==
  ASSUME GraphInv, WalkInv, VisitRoot
  PROVE  WalkInv'
<1> DEFINE n == Roots[position]
           L == SourceCount(design)
<1>1. stage \in Walks /\ calls = <<>> /\ position \in DOMAIN Roots
  BY DEF VisitRoot, Walking, Walks
<1>2. DOMAIN Roots = 1 .. L /\ L \in Nat /\ n \in 1 .. L
  BY <1>1, WalkingFacts, RootFacts
<1>3. LiveNode(graph, n)
  BY <1>1, <1>2, WalkingFacts, RootLive
<1>4. Visit(n) /\ design' = design /\ graph' = graph /\ position' = position + 1
  BY DEF VisitRoot
<1>5. position' \in 1 .. SourceCount(design') + 1
  <2> HIDE DEF L
  <2>1. position + 1 \in 1 .. L + 1
    BY <1>1, <1>2
  <2> QED BY <1>4, <2>1 DEF L
<1>6. ASSUME NEW i \in DOMAIN Roots, i < position'
      PROVE  Roots[i] \in marked'
  <2>1. i < position \/ i = position
    <3> HIDE DEF L
    <3> QED BY <1>1, <1>2, <1>4, <1>6
  <2>2. marked' = marked \cup {n}
    BY <1>4 DEF Visit
  <2>3. i < position => Roots[i] \in marked
    BY <1>1 DEF WalkInv
  <2> QED BY <2>1, <2>2, <2>3
<1>7. \A i \in DOMAIN Roots : i < position' => Roots[i] \in marked'
  BY <1>6
<1>8. n \in 1 .. SourceCount(design)
  BY <1>2
<1> HIDE DEF n, L
<1> QED BY <1>1, <1>3, <1>4, <1>5, <1>7, <1>8, VisitWalk

(* Entering the node of a reader keeps the invariant of the traversals.    *)
LEMMA VisitReaderWalk ==
  ASSUME GraphInv, WalkInv, VisitReader
  PROVE  WalkInv'
<1> DEFINE n == graph.pins[Reader(Running)].node
<1>1. AtReader /\ Reader(Running) # Null /\ n \notin marked
  BY DEF VisitReader, Unmarked
<1>2. Visit(n) /\ design' = design /\ graph' = graph /\ position' = position
  BY DEF VisitReader
<1>3. stage \in Walks /\ LiveNode(graph, n)
  BY <1>1, AtReaderFacts
<1>4. position' \in 1 .. SourceCount(design') + 1
  BY <1>2, <1>3 DEF WalkInv
<1>5. marked \subseteq marked'
  BY <1>2 DEF Visit
<1>6. \A i \in DOMAIN Roots : i < position' => Roots[i] \in marked'
  BY <1>2, <1>3, <1>5 DEF WalkInv
<1>7. AtReader /\ Reader(Running) # Null /\ graph.pins[Reader(Running)].node = n /\ n \notin marked
  BY <1>1
<1> HIDE DEF n
<1> QED BY <1>2, <1>3, <1>4, <1>6, <1>7, VisitWalk

(* The running call goes on as r2.                                         *)
LEMMA ContinueWalk ==
  ASSUME GraphInv, WalkInv, stage \in Walks, calls # <<>>, NEW r2 \in CallRecord,
         r2.node = Running.node, calls' = Append(Front(calls), r2),
         AheadStill(graph, marked, calls, calls'),
         design' = design, graph' = graph, position' = position, stage' = stage,
         marked' = marked, written' = written
  PROVE  WalkInv'
<1>1. WalkClosed(graph, marked, calls) /\ calls \in Seq(CallRecord)
  BY WalkingFacts DEF WalkInv
<1>2. WalkClosed(graph, marked, calls')
  <2>1. marked \subseteq DOMAIN graph.nodes
    BY <1>1 DEF WalkClosed
  <2>2. marked \ marked = {} /\ marked \subseteq marked
    OBVIOUS
  <2> DEFINE cs2 == calls'
  <2>3. AheadStill(graph, marked, calls, cs2)
    OBVIOUS
  <2> HIDE DEF cs2
  <2>4. WalkClosed(graph, marked, cs2)
    BY <1>1, <2>1, <2>2, <2>3, ClosedStill
  <2> QED BY <2>4 DEF cs2
<1>3. \A x : OnStack(calls, x) => OnStack(calls', x)
  <2>1. r2.node = Last(calls).node
    BY DEF Running
  <2> QED BY <1>1, <2>1, OnStackContinued
<1>4. Roots' = Roots
  BY RootsSame
<1>5. stage = "map" => written' = Nothing /\ \A n \in marked' : OnStack(calls', n) \/ MappedNode(graph', n)
  BY <1>3 DEF WalkInv
<1>6. stage = "write" => \E M \in SUBSET DOMAIN graph.nodes : Covered(graph, design, M) /\ marked \subseteq M
  BY DEF WalkInv
<1>7. WrittenFrom(graph, written, marked)
  <2>1. CASE stage = "map"
    BY <1>5, <2>1, NothingWritten
  <2>2. CASE stage = "write"
    BY <2>2 DEF WalkInv
  <2> QED BY <2>1, <2>2 DEF Walks
<1>8. position' \in 1 .. SourceCount(design') + 1 /\ \A i \in DOMAIN Roots : i < position' => Roots[i] \in marked'
  BY DEF WalkInv
<1> QED BY <1>2, <1>4, <1>5, <1>6, <1>7, <1>8, WalkKept

(* Passing over a reader keeps the invariant of the traversals.            *)
LEMMA SkipReaderWalk ==
  ASSUME GraphInv, WalkInv, SkipReader
  PROVE  WalkInv'
<1> DEFINE r2 == [Running EXCEPT !.reader = @ + 1]
<1>1. AtReader /\ stage \in Walks /\ calls # <<>>
  BY DEF SkipReader, AtReader, Walking, Walks
<1>2. Reader(Running) # Null => graph.pins[Reader(Running)].node \in marked
  BY DEF SkipReader, Unmarked
<1>3. AheadStill(graph, marked, calls, Continue(r2))
  BY <1>1, <1>2, PastReader
<1>4. r2 \in CallRecord /\ r2.node = Running.node
  <2> DEFINE r == Running
  <2>1. r \in CallRecord
    BY <1>1, RunningFacts
  <2> HIDE DEF r
  <2>2. [r EXCEPT !.reader = @ + 1] \in CallRecord /\ [r EXCEPT !.reader = @ + 1].node = r.node
    BY <2>1, CallNextReader, ZenonT(60)
  <2> QED BY <2>2 DEF r
<1>5. calls' = Continue(r2)
  BY DEF SkipReader
<1> HIDE DEF r2
<1> QED BY <1>1, <1>3, <1>4, <1>5, ContinueWalk DEF Continue, SkipReader

(* Going on to the next output pin keeps the invariant of the traversals.  *)
LEMMA NextOutputPinWalk ==
  ASSUME GraphInv, WalkInv, NextOutputPin
  PROVE  WalkInv'
<1> DEFINE r == Running
           c == Call(r.node, r.pin + 1)
<1>1. stage \in Walks /\ calls # <<>> /\ r.net # Null
      /\ r.reader \notin DOMAIN graph.nets[r.net].fanouts
  BY DEF NextOutputPin, Walking, Walks
<1>2. r \in CallRecord /\ CallOK(graph, marked, r) /\ r.pin \in DOMAIN graph.nodes[r.node].outs
  BY <1>1, RunningFacts
<1>3. calls \in Seq(CallRecord) /\ graph \in GraphSet /\ Agree(graph)
  BY <1>1, WalkingFacts
<1>4. r = Last(calls) /\ calls' = Append(Front(calls), c)
  BY DEF Running, NextOutputPin, Continue
<1>5. c.node = r.node /\ c.pin = r.pin + 1 /\ c.reader = 1
  BY DEF Call
<1> HIDE DEF r
<1>6. LiveNode(graph, r.node) /\ r.node \in marked /\ r.net = NetOf(graph, r.node, r.pin)
  BY <1>2 DEF CallOK
<1>7. c \in CallRecord
  <2>1. r.pin + 1 \in 1 .. Len(graph.nodes[r.node].outs) + 1
    <3> DEFINE u == graph.nodes[r.node].outs
               i == r.pin
    <3>1. u \in Seq(Nat)
      BY <1>3, <1>6, GraphType DEF LiveNode, NodeRecord
    <3>2. i \in DOMAIN u
      BY <1>2
    <3> HIDE DEF u, i
    <3>3. i + 1 \in 1 .. Len(u) + 1
      BY <3>1, <3>2
    <3> QED BY <3>3 DEF u, i
  <2> QED BY <1>3, <1>6, <2>1, CallMade
<1> HIDE DEF c
<1>8. GoesOn(graph, marked, r, c)
  <2> SUFFICES ASSUME NEW i \in DOMAIN graph.nodes[r.node].outs,
                      NEW k \in DOMAIN graph.nets[NetOf(graph, r.node, i)].fanouts,
                      r.pin < i \/ (r.pin = i /\ r.reader <= k)
               PROVE  c.pin < i \/ (c.pin = i /\ c.reader <= k)
    BY <1>5 DEF GoesOn
  <2> DEFINE F == Len(graph.nets[NetOf(graph, r.node, i)].fanouts)
  <2>1. i \in Nat /\ k \in Nat /\ k >= 1 /\ F \in Nat
        /\ DOMAIN graph.nets[NetOf(graph, r.node, i)].fanouts = 1 .. F
    BY <1>3, <1>6, Slots
  <2>2. r.pin \in Nat /\ r.reader \in Nat \ {0}
    BY <1>2 DEF CallRecord, CallOK
  <2>3. ~(r.pin = i /\ r.reader <= k)
    <3> SUFFICES ASSUME r.pin = i, r.reader <= k PROVE FALSE
      OBVIOUS
    <3>1. DOMAIN graph.nets[r.net].fanouts = 1 .. F
      BY <1>6, <2>1
    <3> HIDE DEF F
    <3>2. k <= F
      BY <2>1
    <3>3. r.reader \in 1 .. F
      BY <2>1, <2>2, <3>2
    <3> QED BY <1>1, <3>1, <3>3
  <2>4. r.pin < i
    BY <2>3
  <2> HIDE DEF F
  <2>5. r.pin + 1 < i \/ (r.pin + 1 = i /\ 1 <= k)
    BY <2>1, <2>2, <2>4
  <2> QED BY <1>5, <2>5
<1>9. AheadStill(graph, marked, calls, Append(Front(calls), c))
  BY <1>1, <1>3, <1>4, <1>7, <1>8, ContinuedAhead
<1>10. c.node = Running.node
  BY <1>5 DEF r
<1> QED BY <1>1, <1>4, <1>7, <1>9, <1>10, ContinueWalk DEF NextOutputPin

(* A call that has come to its end is ahead of nothing.                    *)
LEMMA PoppedAhead ==
  ASSUME GraphInv, stage \in Walks, calls # <<>>, Running.net = Null, NEW M
  PROVE  AheadStill(graph, M, calls, Front(calls))
<1> DEFINE L == Len(calls)
           cs == Front(calls)
           r == Running
<1>1. graph \in GraphSet /\ Agree(graph) /\ calls \in Seq(CallRecord)
  BY WalkingFacts
<1>2. L \in Nat \ {0} /\ DOMAIN calls = 1 .. L /\ DOMAIN cs = 1 .. L - 1
      /\ \A i \in 1 .. L - 1 : cs[i] = calls[i]
  BY <1>1, StackFacts
<1>3. r = calls[L] /\ CallOK(graph, marked, r) /\ r.pin \notin DOMAIN graph.nodes[r.node].outs
  BY RunningFacts
<1> HIDE DEF L, cs, r
<1>4. SUFFICES ASSUME NEW n, LiveNode(graph, n), NEW i \in DOMAIN graph.nodes[n].outs,
                      NEW k \in DOMAIN graph.nets[NetOf(graph, n, i)].fanouts, Ahead(calls, n, i, k)
               PROVE  Ahead(cs, n, i, k)
  BY DEF AheadStill, cs
<1>5. PICK c \in DOMAIN calls :
        calls[c].node = n /\ (calls[c].pin < i \/ (calls[c].pin = i /\ calls[c].reader <= k))
  BY <1>4 DEF Ahead
<1>6. CASE c # L
  <2>1. c \in DOMAIN cs /\ cs[c] = calls[c]
    BY <1>2, <1>6
  <2> QED BY <1>5, <2>1 DEF Ahead
<1>7. CASE c = L
  <2> DEFINE O == Len(graph.nodes[n].outs)
  <2>1. r.node = n /\ (r.pin < i \/ r.pin = i)
    BY <1>3, <1>5, <1>7
  <2>2. O \in Nat /\ DOMAIN graph.nodes[n].outs = 1 .. O /\ i \in Nat
    BY <1>1, <1>4, Slots
  <2>3. r.pin \in 1 .. O + 1 /\ r.pin \notin 1 .. O
    BY <1>3, <2>1, <2>2 DEF CallOK
  <2> HIDE DEF O
  <2>4. i <= O
    BY <1>4, <2>2
  <2> QED BY <2>1, <2>2, <2>3, <2>4
<1> QED BY <1>6, <1>7

(* Returning from a call leaves those below it.                            *)
LEMMA OnStackPopped ==
  ASSUME NEW cs \in Seq(CallRecord), cs # <<>>
  PROVE  \A n : OnStack(cs, n) /\ n # Last(cs).node => OnStack(Front(cs), n)
<1> DEFINE L == Len(cs)
           f == Front(cs)
<1>1. L \in Nat \ {0} /\ DOMAIN cs = 1 .. L /\ Last(cs) = cs[L]
      /\ DOMAIN f = 1 .. L - 1 /\ \A i \in 1 .. L - 1 : f[i] = cs[i]
  BY StackFacts
<1> HIDE DEF L, f
<1>2. ASSUME NEW n, OnStack(cs, n), n # Last(cs).node
      PROVE  OnStack(f, n)
  <2>1. PICK c \in DOMAIN cs : cs[c].node = n
    BY <1>2 DEF OnStack
  <2>2. c # L
    BY <1>1, <1>2, <2>1
  <2>3. c \in DOMAIN f /\ f[c] = cs[c]
    BY <1>1, <2>2
  <2> QED BY <2>1, <2>3 DEF OnStack
<1>3. \A n : OnStack(cs, n) /\ n # Last(cs).node => OnStack(f, n)
  BY <1>2
<1> QED BY <1>3 DEF f

(* Leaving a node keeps the invariant of the traversals.                   *)
LEMMA ReturnWalk ==
  ASSUME GraphInv, WalkInv, Return
  PROVE  WalkInv'
<1> DEFINE n == Running.node
           cs == Front(calls)
<1>1. stage \in Walks /\ calls # <<>> /\ Running.net = Null /\ calls' = cs
      /\ design' = design /\ marked' = marked /\ position' = position /\ written' = written
  BY DEF Return, Walking, Walks
<1>2. /\ design \in Designs /\ HookedGraph(graph, design) /\ graph \in GraphSet /\ Agree(graph)
      /\ CallsOK(graph, marked, calls) /\ calls \in Seq(CallRecord)
      /\ WalkClosed(graph, marked, calls)
  BY <1>1, WalkingFacts DEF WalkInv
<1>3. ~OnStack(cs, n)
  BY <1>1, <1>2, CallsPop DEF Running, OnStack
<1>4. LiveNode(graph, n) /\ n \in marked
  BY <1>1, RunningFacts DEF CallOK
<1>5. \A x : OnStack(calls, x) /\ x # n => OnStack(cs, x)
  BY <1>1, <1>2, OnStackPopped DEF Running
<1>6. AheadStill(graph, marked, calls, cs)
  BY <1>1, PoppedAhead
<1> HIDE DEF n, cs
<1>7. WalkClosed(graph, marked, cs)
  <2>1. marked \subseteq DOMAIN graph.nodes
    BY <1>2 DEF WalkClosed
  <2>2. marked \ marked = {} /\ marked \subseteq marked
    OBVIOUS
  <2> QED BY <1>2, <1>6, <2>1, <2>2, ClosedStill
<1>8. position' \in 1 .. SourceCount(design') + 1 /\ \A i \in DOMAIN Roots : i < position' => Roots[i] \in marked'
  BY <1>1 DEF WalkInv
<1>9. CASE stage' = "refused"
  <2>1. graph' = graph
    <3>1. stage # "refused"
      BY <1>1 DEF Walks
    <3> QED BY <1>9, <3>1 DEF Return, Refuse
  <2>2. WrittenFrom(graph, written, DOMAIN graph.nodes)
    BY DEF WalkInv
  <2> QED BY <1>1, <1>9, <2>1, <2>2, RefusedKept
<1>10. CASE stage = "map" /\ stage' # "refused"
  <2> DEFINE h == PartialMapNode(n)
  <2>1. ~LoopsBack(n) /\ graph' = h /\ stage' = "map"
    BY <1>10 DEF Return, Refuse, n
  <2>2. Placed(graph)
    BY <1>1, <1>10, WalkingFacts
  <2>3. MappedTo(graph, h, design, n)
    BY <1>2, <1>4, <2>1, <2>2, PartialMapped
  <2>4. Closing(graph, marked, cs, n)
    BY <1>4, <1>7 DEF WalkClosed, LiveNode
  <2>5. Leaves(graph, h, marked, n)
    BY <1>2, <1>3, <1>4, <2>1, <2>2, <2>4, LeavesNode
  <2> HIDE DEF h
  <2>6. Reshaped(graph, h)
    BY <2>3 DEF MappedTo
  <2>7. WalkClosed(h, marked, cs)
    BY <1>2, <1>7, <2>5, <2>6, ClosedReshaped DEF Leaves
  <2>8. BuffersOK(graph)
    BY <1>2, HookedBuffers
  <2>9. ASSUME NEW x \in marked PROVE OnStack(cs, x) \/ MappedNode(h, x)
    <3>1. CASE x = n
      BY <2>5, <3>1 DEF Leaves
    <3>2. CASE x # n /\ ~OnStack(cs, x)
      <4>1. MappedNode(graph, x)
        BY <1>5, <1>10, <3>2 DEF WalkInv
      <4>2. x \in DOMAIN graph.nodes
        BY <1>2 DEF WalkClosed
      <4> QED BY <1>2, <2>5, <2>6, <2>8, <4>1, <4>2, MappedReshaped DEF Leaves
    <3> QED BY <3>1, <3>2
  <2>10. written' = Nothing
    BY <1>1, <1>10 DEF WalkInv
  <2>11. Roots' = Roots
    BY <1>1, <1>10, <2>1, RootsSame
  <2>12. \A x \in marked' : OnStack(calls', x) \/ MappedNode(graph', x)
    BY <1>1, <2>1, <2>9
  <2>13. stage' \in Walks /\ stage' # "write"
    BY <2>1 DEF Walks
  <2> QED BY <1>1, <1>8, <2>1, <2>7, <2>10, <2>11, <2>12, <2>13, NothingWritten, WalkKept
<1>11. CASE stage = "write" /\ stage' # "refused"
  <2>1. graph' = graph /\ stage' = stage
    BY <1>11 DEF Return, Refuse
  <2>2. Roots' = Roots
    BY <1>1, <2>1, RootsSame
  <2>3. \E M \in SUBSET DOMAIN graph.nodes : Covered(graph, design, M) /\ marked \subseteq M
    BY <1>11 DEF WalkInv
  <2>4. WrittenFrom(graph, written, marked)
    BY <1>11 DEF WalkInv
  <2> QED BY <1>1, <1>7, <1>8, <1>11, <2>1, <2>2, <2>3, <2>4, WalkKept
<1> QED BY <1>1, <1>9, <1>10, <1>11 DEF Walks

(* When a traversal ends, all it had to visit is visited.                  *)
LEMMA TraversalDoneWalk ==
  ASSUME GraphInv, WalkInv, TraversalDone
  PROVE  WalkInv'
<1> DEFINE L == SourceCount(design)
<1>1. /\ stage \in Walks /\ calls = <<>> /\ position \notin DOMAIN Roots /\ position' = 1
      /\ marked' = {} /\ design' = design /\ graph' = graph /\ written' = written
      /\ stage' = IF stage = "map" THEN "sweep" ELSE "outputs"
  BY DEF TraversalDone, Walking, Walks
<1>2. design \in Designs
  BY <1>1, WalkingFacts
<1>3. WrittenFrom(graph', written', DOMAIN graph'.nodes)
  BY <1>1 DEF WalkInv
<1>4. CASE stage = "map"
  <2>1. DOMAIN Roots = 1 .. L /\ L \in Nat /\ \A n \in 1 .. L : \E i \in DOMAIN Roots : Roots[i] = n
    BY <1>2, RootFacts
  <2>2. position \in 1 .. L + 1
    BY <1>1 DEF WalkInv
  <2>3. \A i \in DOMAIN Roots : i < position
    <3> HIDE DEF L
    <3> QED BY <1>1, <2>1, <2>2
  <2>4. 1 .. L \subseteq marked
    <3>1. \A i \in DOMAIN Roots : Roots[i] \in marked
      BY <1>1, <2>3 DEF WalkInv
    <3> QED BY <2>1, <3>1
  <2>5. WalkClosed(graph, marked, <<>>)
    BY <1>1 DEF WalkInv
  <2>6. \A n \in marked : MappedNode(graph, n)
    <3>1. \A n : ~OnStack(<<>>, n)
      BY DEF OnStack
    <3> QED BY <1>1, <1>4, <3>1 DEF WalkInv
  <2>7. Covered(graph, design, marked) /\ marked \in SUBSET DOMAIN graph.nodes
    BY <2>4, <2>5, <2>6 DEF Covered, WalkClosed
  <2>8. \E M \in SUBSET DOMAIN graph'.nodes : Covered(graph', design', M) /\ marked' \subseteq M
    BY <1>1, <2>7
  <2>9. stage' = "sweep" /\ written' = Nothing
    BY <1>1, <1>4 DEF WalkInv
  <2>10. stage' \notin Walks
    BY <2>9 DEF Walks
  <2> QED BY <1>1, <1>3, <2>8, <2>9, <2>10 DEF WalkInv
<1>5. CASE stage = "write"
  <2>1. stage' = "outputs" /\ stage' \notin Walks
    BY <1>1, <1>5 DEF Walks
  <2>2. \E M \in SUBSET DOMAIN graph'.nodes : Covered(graph', design', M) /\ marked' \subseteq M
    <3>1. PICK M \in SUBSET DOMAIN graph.nodes : Covered(graph, design, M)
      BY <1>5 DEF WalkInv
    <3>2. {} \subseteq M
      OBVIOUS
    <3> QED BY <1>1, <3>1, <3>2
  <2> QED BY <1>1, <1>3, <2>1, <2>2 DEF WalkInv
<1> QED BY <1>1, <1>4, <1>5 DEF Walks

(* The sweep keeps what the mapping covered.                               *)
LEMMA SweepWalk ==
  ASSUME GraphInv, WalkInv, RemoveUnusedLogic
  PROVE  WalkInv'
<1>1. /\ design \in Designs /\ HookedGraph(graph, design) /\ graph \in GraphSet /\ Agree(graph)
      /\ calls' = <<>> /\ marked' = {} /\ stage' = "write" /\ stage = "sweep"
      /\ design' = design /\ position' = 1 /\ written' = Nothing
  BY DEF GraphInv, ImportInv, RemoveUnusedLogic, Walks, walkVars, WalkInv
<1>2. Trimmed(graph, graph', Useless)
  BY <1>1, SweepTrims
<1> DEFINE h == graph'
<1>3. HookedGraph(h, design) /\ Reshaped(graph, h)
  BY <1>1, <1>2, TrimmedKeeps
<1>4. PICK M \in SUBSET DOMAIN graph.nodes : Covered(graph, design, M)
  BY <1>1 DEF WalkInv
<1> HIDE DEF h
<1>5. NoNewReaders(graph, h, M) /\ NamesKept(graph, h)
  BY <1>1, <1>2, <1>3, TrimmedQuiet DEF h
<1>6. WalkClosed(h, M, <<>>)
  BY <1>1, <1>3, <1>4, <1>5, ClosedReshaped DEF Covered
<1>7. \A n \in M : MappedNode(h, n)
  <2>1. BuffersOK(graph)
    BY <1>1, HookedBuffers
  <2> SUFFICES ASSUME NEW n \in M PROVE MappedNode(h, n)
    OBVIOUS
  <2>2. n \in DOMAIN graph.nodes /\ MappedNode(graph, n)
    BY <1>4 DEF Covered
  <2> QED BY <1>1, <1>3, <1>5, <2>1, <2>2, MappedReshaped
<1>8. Covered(h, design, M) /\ M \in SUBSET DOMAIN h.nodes
  BY <1>3, <1>4, <1>6, <1>7 DEF Covered, Reshaped
<1>9. WalkClosed(h, {}, <<>>)
  BY DEF WalkClosed
<1>10. \E X \in SUBSET DOMAIN graph'.nodes : Covered(graph', design', X) /\ marked' \subseteq X
  <2>1. {} \subseteq M
    OBVIOUS
  <2> QED BY <1>1, <1>8, <2>1 DEF h
<1>11. 1 \in 1 .. SourceCount(design') + 1 /\ \A i \in DOMAIN Roots' : ~(i < 1)
  <2> DEFINE L == SourceCount(design')
  <2>1. DOMAIN Roots' = 1 .. L /\ L \in Nat
    BY <1>1, RootsPrimed
  <2> HIDE DEF L
  <2>2. 1 \in 1 .. L + 1 /\ \A i \in DOMAIN Roots' : ~(i < 1)
    BY <2>1
  <2> QED BY <2>2 DEF L
<1>12. stage' \in Walks /\ stage' # "map"
  BY <1>1 DEF Walks
<1>13. WalkClosed(graph', marked', calls')
  BY <1>1, <1>9 DEF h
<1> QED BY <1>1, <1>10, <1>11, <1>12, <1>13, NothingWritten, WalkKept

(* Writing the outputs keeps the written cells.                            *)
LEMMA WriteOutputsWalk ==
  ASSUME GraphInv, WalkInv, WriteOutputs
  PROVE  WalkInv'
<1>1. stage' = "done" /\ graph' = graph /\ written' = ConnectOutputs
  BY DEF WriteOutputs
<1>2. stage' \notin Walks
  BY <1>1 DEF Walks
<1>3. WrittenFrom(graph, written, DOMAIN graph.nodes)
  BY DEF WalkInv
<1> DEFINE X == UNION {{<<graph.nodes[n].name, OutputWire(p)>> :
               p \in ToSet(DriversOf(graph.nodes[n].ins[1]))} :
              n \in ToSet(Outputs(design))}
           v == [written EXCEPT !.connects = X]
<1>4. ConnectOutputs = v
  BY DEF ConnectOutputs
<1> HIDE DEF X
<1>5. v.cells = written.cells /\ v = [cells |-> v.cells, connects |-> v.connects]
  <2>1. written = [cells |-> written.cells, connects |-> written.connects]
    BY <1>3 DEF WrittenFrom
  <2>2. v = [cells |-> written.cells, connects |-> X]
    BY <2>1
  <2> QED BY <2>2
<1> HIDE DEF v
<1>6. WrittenFrom(graph, v, DOMAIN graph.nodes)
  BY <1>3, <1>5 DEF WrittenFrom
<1>7. WrittenFrom(graph', written', DOMAIN graph'.nodes)
  BY <1>1, <1>4, <1>6
<1> QED BY <1>1, <1>2, <1>7 DEF WalkInv

(* Doing nothing keeps the invariant of the traversals.                    *)
LEMMA WalkStutter ==
  ASSUME WalkInv, UNCHANGED vars
  PROVE  WalkInv'
<1>1. /\ design' = design /\ graph' = graph /\ stage' = stage /\ position' = position
      /\ calls' = calls /\ marked' = marked /\ written' = written
  BY DEF vars
<1>2. Roots' = Roots
  BY <1>1, RootsSame
<1> QED BY <1>1, <1>2 DEF WalkInv

(* Every step keeps the invariant of the traversals.                       *)
LEMMA WalkNext ==
  ASSUME GraphInv, WalkInv, [Next]_vars
  PROVE  WalkInv'
BY ImportWalk, HookUpWalk, VisitRootWalk, VisitReaderWalk, SkipReaderWalk, NextOutputPinWalk,
   ReturnWalk, TraversalDoneWalk, SweepWalk, WriteOutputsWalk, WalkStutter DEF Next

(* The traversals close what they mark, the mapping names the pins of each *)
(* cell it leaves, and the writer writes only cells it marks.              *)
THEOREM WalkInvariant == Spec => []WalkInv
<1>1. Init => WalkInv
  BY InitWalk
<1>2. GraphInv /\ WalkInv /\ [Next]_vars => WalkInv'
  BY WalkNext
<1> QED BY <1>1, <1>2, GraphInvariant, PTL DEF Spec

(* The invariant gives that cells and wires are written once.              *)
LEMMA OncePerCell ==
  ASSUME WalkInv
  PROVE  WrittenOnce
<1>1. WrittenFrom(graph, written, DOMAIN graph.nodes)
  BY DEF WalkInv
<1>2. \A i, j \in DOMAIN written.cells :
        written.cells[i].name = written.cells[j].name => i = j
  BY <1>1 DEF WrittenFrom
<1>3. ASSUME NEW i \in DOMAIN written.cells, NEW j \in DOMAIN written.cells,
             NEW k \in DOMAIN written.cells[i].outs, NEW l \in DOMAIN written.cells[j].outs,
             written.cells[i].outs[k] = written.cells[j].outs[l]
      PROVE  i = j /\ k = l
  <2>1. /\ written.cells[i].outs[k] = <<written.cells[i].name, k>>
        /\ written.cells[j].outs[l] = <<written.cells[j].name, l>>
    BY <1>1 DEF WrittenFrom
  <2>2. written.cells[i].name = written.cells[j].name /\ k = l
    <3>1. <<written.cells[i].name, k>> = <<written.cells[j].name, l>>
      BY <1>3, <2>1, Zenon
    <3> QED BY <3>1
  <2> QED BY <1>2, <2>2
<1> QED BY <1>2, <1>3 DEF WrittenOnce

(* For every design, and however many paths lead to a cell, the writer     *)
(* writes it once at most, and no two output pins of the written cells     *)
(* have the same wire.                                                     *)
THEOREM CellsWrittenOnce == Spec => []WrittenOnce
<1>1. WalkInv => WrittenOnce
  BY OncePerCell
<1> QED BY <1>1, WalkInvariant, PTL

(* The bits a bit takes its value from.                                    *)
LEMMA UpFacts ==
  ASSUME NEW d \in Designs, NEW b
  PROVE  /\ b \in UpstreamBits(d, b)
         /\ \A j \in DOMAIN d.connections :
              d.connections[j][1] \in UpstreamBits(d, b) => d.connections[j][2] \in UpstreamBits(d, b)
         /\ \A v : b \in v /\ (\A j \in DOMAIN d.connections :
                                 d.connections[j][1] \in v => d.connections[j][2] \in v)
                     => UpstreamBits(d, b) \subseteq v
<1> DEFINE E == ToSet(d.connections)
           U == ClosureOf({b}, E)
<1>1. d.connections \in Seq(Names \X Names)
  BY DesignFacts
<1>2. IsFiniteSet(E)
  BY <1>1, ToSetFinite
<1>3. \A v : Closed(v, E) <=> \A j \in DOMAIN d.connections : d.connections[j][1] \in v => d.connections[j][2] \in v
  BY DEF Closed, ToSet
<1> HIDE DEF E
<1>4. {b} \subseteq U /\ Closed(U, E) /\ \A v : {b} \subseteq v /\ Closed(v, E) => U \subseteq v
  BY <1>2, ClosureFacts
<1>5. UpstreamBits(d, b) = U
  BY DEF UpstreamBits, E
<1> HIDE DEF U
<1> QED BY <1>3, <1>4, <1>5

(* What a bit takes its value from takes it from no more.                  *)
LEMMA UpTransitive ==
  ASSUME NEW d \in Designs, NEW b, NEW x \in UpstreamBits(d, b)
  PROVE  UpstreamBits(d, x) \subseteq UpstreamBits(d, b)
<1>1. \A j \in DOMAIN d.connections :
        d.connections[j][1] \in UpstreamBits(d, b) => d.connections[j][2] \in UpstreamBits(d, b)
  BY UpFacts
<1> QED BY <1>1, UpFacts

(* A bit on the left of a connection has the value of the right.           *)
LEMMA UpOfLeft ==
  ASSUME NEW d \in Designs, NEW j \in DOMAIN d.connections
  PROVE  UpstreamBits(d, d.connections[j][1])
           = {d.connections[j][1]} \cup UpstreamBits(d, d.connections[j][2])
<1> DEFINE a == d.connections[j][1]
           r == d.connections[j][2]
           v == {a} \cup UpstreamBits(d, r)
<1>1. a \in UpstreamBits(d, a) /\ r \in UpstreamBits(d, a)
  BY UpFacts
<1>2. UpstreamBits(d, r) \subseteq UpstreamBits(d, a)
  BY <1>1, UpTransitive
<1>3. ASSUME NEW i \in DOMAIN d.connections, d.connections[i][1] \in v
      PROVE  d.connections[i][2] \in v
  <2>1. CASE d.connections[i][1] = a
    <3>1. i = j
      BY <2>1, ConnectionFacts
    <3> QED BY <3>1, UpFacts
  <2>2. CASE d.connections[i][1] \in UpstreamBits(d, r)
    BY <2>2, UpFacts
  <2> QED BY <1>3, <2>1, <2>2
<1>4. a \in v
  OBVIOUS
<1> HIDE DEF v
<1>5. UpstreamBits(d, a) \subseteq v
  <2>1. \A i \in DOMAIN d.connections : d.connections[i][1] \in v => d.connections[i][2] \in v
    BY <1>3
  <2> HIDE DEF a
  <2> QED BY <1>4, <2>1, UpFacts
<1> QED BY <1>1, <1>2, <1>5 DEF v

(* A bit no connection drives takes its value from itself.                 *)
LEMMA UpOfOther ==
  ASSUME NEW d \in Designs, NEW b, \A j \in DOMAIN d.connections : d.connections[j][1] # b
  PROVE  UpstreamBits(d, b) = {b}
<1> DEFINE v == {b}
<1>1. b \in v /\ \A i \in DOMAIN d.connections : d.connections[i][1] \in v => d.connections[i][2] \in v
  OBVIOUS
<1> HIDE DEF v
<1>2. UpstreamBits(d, b) \subseteq v
  BY <1>1, UpFacts
<1> QED BY <1>2, UpFacts DEF v

(* Pin e, of an input, a constant or a cell, drives bit x itself.          *)
Gives(d, e, x) ==
  \/ x \in ToSet(d.inputs) \cup Constants3 /\ e = <<x, 1>>
  \/ \E c \in DOMAIN d.cells : \E i \in DOMAIN d.cells[c].outs :
       d.cells[c].outs[i] = x /\ e = <<d.cells[c].name, i>>

(* The sources of a bit are the pins that give a bit it takes its value    *)
(* from.                                                                   *)
LEMMA SourcesAre ==
  ASSUME NEW d, NEW b
  PROVE  \A e : e \in SourcesOf(d, b) <=> \E x \in UpstreamBits(d, b) : Gives(d, e, x)
<1> DEFINE U == UpstreamBits(d, b)
<1> HIDE DEF U
<1>1. ASSUME NEW e
      PROVE  e \in {<<s, 1>> : s \in U \cap (ToSet(d.inputs) \cup Constants3)}
               <=> \E x \in U : x \in ToSet(d.inputs) \cup Constants3 /\ e = <<x, 1>>
  OBVIOUS
<1>2. ASSUME NEW e
      PROVE  e \in UNION {{<<c.name, i>> : i \in {i \in DOMAIN c.outs : c.outs[i] \in U}} : c \in ToSet(d.cells)}
               <=> \E x \in U : \E c \in DOMAIN d.cells : \E i \in DOMAIN d.cells[c].outs :
                     d.cells[c].outs[i] = x /\ e = <<d.cells[c].name, i>>
  <2>1. ASSUME e \in UNION {{<<c.name, i>> : i \in {i \in DOMAIN c.outs : c.outs[i] \in U}} : c \in ToSet(d.cells)}
        PROVE  \E x \in U : \E c \in DOMAIN d.cells : \E i \in DOMAIN d.cells[c].outs :
                     d.cells[c].outs[i] = x /\ e = <<d.cells[c].name, i>>
    <3>1. PICK c \in ToSet(d.cells) : e \in {<<c.name, i>> : i \in {i \in DOMAIN c.outs : c.outs[i] \in U}}
      BY <2>1
    <3>2. PICK i \in DOMAIN c.outs : c.outs[i] \in U /\ e = <<c.name, i>>
      BY <3>1
    <3>3. PICK k \in DOMAIN d.cells : d.cells[k] = c
      BY <3>1 DEF ToSet
    <3> QED BY <3>2, <3>3
  <2>2. ASSUME NEW x \in U, NEW c \in DOMAIN d.cells, NEW i \in DOMAIN d.cells[c].outs,
               d.cells[c].outs[i] = x, e = <<d.cells[c].name, i>>
        PROVE  e \in UNION {{<<m.name, k>> : k \in {k \in DOMAIN m.outs : m.outs[k] \in U}} : m \in ToSet(d.cells)}
    <3> DEFINE m == d.cells[c]
    <3>1. m \in ToSet(d.cells)
      BY DEF ToSet
    <3>2. e \in {<<m.name, k>> : k \in {k \in DOMAIN m.outs : m.outs[k] \in U}}
      BY <2>2
    <3> HIDE DEF m
    <3> QED BY <3>1, <3>2
  <2> QED BY <2>1, <2>2
<1>3. SourcesOf(d, b) = {<<s, 1>> : s \in U \cap (ToSet(d.inputs) \cup Constants3)} \cup
        UNION {{<<c.name, i>> : i \in {i \in DOMAIN c.outs : c.outs[i] \in U}} : c \in ToSet(d.cells)}
  BY Zenon DEF SourcesOf, U
<1>4. ASSUME NEW e
      PROVE  e \in SourcesOf(d, b) <=> \E x \in U : Gives(d, e, x)
  BY <1>1, <1>2, <1>3 DEF Gives
<1> QED BY <1>4 DEF U

(* Images, one of a sequence at a time, are finite.                        *)
LEMMA ImageFinite ==
  ASSUME NEW n \in Nat, NEW f, DOMAIN f = 1 .. n
  PROVE  IsFiniteSet({f[i] : i \in 1 .. n})
<1> DEFINE T == {f[i] : i \in 1 .. n}
           g == [i \in 1 .. n |-> f[i]]
<1>1. IsFiniteSet(1 .. n)
  BY FS_Interval
<1>2. g \in Surjection(1 .. n, T)
  BY DEF Surjection
<1> HIDE DEF g
<1> QED BY <1>1, <1>2, FS_Surjection

(* The bits of the sources are those of the inputs and the constants.      *)
LEMMA SourceBitsAre ==
  ASSUME NEW d \in Designs
  PROVE  ToSet(d.inputs) \cup Constants3 = ToSet(SourceBits(d))
<1> DEFINE I == d.inputs
           s == <<GND_NAME, VCC_NAME, HBPAD_NAME>>
<1>1. s \in Seq(Names) /\ s[1] = GND_NAME /\ s[2] = VCC_NAME /\ s[3] = HBPAD_NAME /\ Len(s) = 3
  BY DesignsAssumption DEF Constants3
<1>2. I \in Seq(Names)
  BY DesignFacts
<1>3. SourceBits(d) = s \o I
  BY DEF SourceBits
<1> HIDE DEF s, I
<1>4. /\ Len(s \o I) = Len(s) + Len(I) /\ Len(I) \in Nat
      /\ \A i \in 1 .. Len(s) : (s \o I)[i] = s[i]
      /\ \A i \in 1 .. Len(I) : (s \o I)[Len(s) + i] = I[i]
      /\ DOMAIN (s \o I) = 1 .. Len(s) + Len(I) /\ DOMAIN I = 1 .. Len(I)
  <2>1. /\ (s \o I) \in Seq(Names) /\ Len(s \o I) = Len(s) + Len(I)
        /\ \A i \in 1 .. Len(s) + Len(I) :
             (s \o I)[i] = IF i <= Len(s) THEN s[i] ELSE I[i - Len(s)]
    BY <1>1, <1>2, ConcatProperties
  <2> DEFINE m == Len(I)
             u == s \o I
  <2>2. m \in Nat /\ DOMAIN I = 1 .. m
    BY <1>2
  <2>3. DOMAIN u = 1 .. Len(u)
    BY <2>1
  <2> HIDE DEF m, u
  <2>4. Len(u) = 3 + m /\ \A i \in 1 .. 3 + m : u[i] = IF i <= 3 THEN s[i] ELSE I[i - 3]
    BY <1>1, <2>1 DEF m, u
  <2>5. /\ \A i \in 1 .. 3 : u[i] = s[i]
        /\ \A i \in 1 .. m : u[3 + i] = I[i]
    <3>1. \A i \in 1 .. 3 : u[i] = s[i]
      BY <2>2, <2>4
    <3>2. ASSUME NEW i \in 1 .. m PROVE u[3 + i] = I[i]
      <4>1. 3 + i \in 1 .. 3 + m /\ ~(3 + i <= 3) /\ (3 + i) - 3 = i
        BY <2>2
      <4> QED BY <2>4, <4>1
    <3> QED BY <3>1, <3>2
  <2> QED BY <1>1, <2>2, <2>3, <2>4, <2>5 DEF m, u
<1> DEFINE t == s \o I
<1> HIDE DEF t
<1>5. /\ DOMAIN t = 1 .. 3 + Len(I) /\ \A i \in 1 .. 3 : t[i] = s[i]
      /\ \A i \in 1 .. Len(I) : t[3 + i] = I[i]
  BY <1>1, <1>4 DEF t
<1>6. Constants3 \subseteq ToSet(t)
  <2>1. t[1] = GND_NAME /\ t[2] = VCC_NAME /\ t[3] = HBPAD_NAME /\ {1, 2, 3} \subseteq DOMAIN t
    BY <1>1, <1>4, <1>5
  <2> QED BY <2>1 DEF Constants3, ToSet
<1>7. ToSet(I) \subseteq ToSet(t)
  <2> SUFFICES ASSUME NEW i \in DOMAIN I PROVE I[i] \in ToSet(t)
    BY DEF ToSet
  <2>1. 3 + i \in DOMAIN t /\ t[3 + i] = I[i]
    BY <1>4, <1>5
  <2> QED BY <2>1 DEF ToSet
<1>8. ToSet(t) \subseteq ToSet(I) \cup Constants3
  <2> SUFFICES ASSUME NEW i \in DOMAIN t PROVE t[i] \in ToSet(I) \cup Constants3
    BY DEF ToSet
  <2>1. CASE i \in 1 .. 3
    <3>1. i = 1 \/ i = 2 \/ i = 3
      BY <2>1
    <3> QED BY <1>1, <1>5, <2>1, <3>1 DEF Constants3
  <2>2. CASE i \notin 1 .. 3
    <3>1. i - 3 \in 1 .. Len(I) /\ 3 + (i - 3) = i
      BY <1>4, <1>5, <2>2
    <3>2. t[i] = I[i - 3]
      BY <1>5, <3>1
    <3> QED BY <1>4, <3>1, <3>2 DEF ToSet
  <2> QED BY <2>1, <2>2
<1> QED BY <1>3, <1>6, <1>7, <1>8 DEF t, I

(* A bit has finitely many sources.                                        *)
LEMMA SourcesFinite ==
  ASSUME NEW d \in Designs, NEW b
  PROVE  IsFiniteSet(SourcesOf(d, b))
<1> DEFINE I == d.inputs
           N == Len(d.cells)
           C == SourceCount(d)
           f == [i \in 1 .. C |-> <<SourceBits(d)[i], 1>>]
           h(c) == [i \in DOMAIN d.cells[c].outs |-> <<d.cells[c].name, i>>]
           B(c) == {<<d.cells[c].name, i>> : i \in DOMAIN d.cells[c].outs}
           k == [c \in 1 .. N |-> B(c)]
           A == {f[i] : i \in 1 .. C}
           S == {k[c] : c \in 1 .. N}
<1>1. C \in Nat /\ N \in Nat /\ DOMAIN SourceBits(d) = 1 .. C /\ DOMAIN d.cells = 1 .. N
  BY DesignFacts
<1>2. IsFiniteSet(A)
  <2>1. DOMAIN f = 1 .. C
    OBVIOUS
  <2> HIDE DEF f, C
  <2> QED BY <1>1, <2>1, ImageFinite
<1>3. ASSUME NEW c \in 1 .. N PROVE IsFiniteSet(B(c))
  <2> DEFINE L == Len(d.cells[c].outs)
             g == h(c)
  <2>1. L \in Nat /\ DOMAIN d.cells[c].outs = 1 .. L
    BY <1>1, CellFacts
  <2>2. DOMAIN g = 1 .. L /\ B(c) = {g[i] : i \in 1 .. L}
    BY <2>1
  <2> HIDE DEF g, L
  <2>3. IsFiniteSet({g[i] : i \in 1 .. L})
    BY <2>1, <2>2, ImageFinite
  <2> QED BY <2>2, <2>3
<1>4. IsFiniteSet(S) /\ \A T \in S : IsFiniteSet(T)
  <2>1. DOMAIN k = 1 .. N /\ \A c \in 1 .. N : k[c] = B(c)
    OBVIOUS
  <2> HIDE DEF k, N, B
  <2>2. IsFiniteSet(S)
    BY <1>1, <2>1, ImageFinite
  <2> QED BY <1>3, <2>1, <2>2
<1>5. \A c \in 1 .. N : B(c) \in S
  OBVIOUS
<1>6. ToSet(I) \cup Constants3 = ToSet(SourceBits(d))
  BY SourceBitsAre
<1>7. SourcesOf(d, b) \subseteq A \cup UNION S
  <2> SUFFICES ASSUME NEW e \in SourcesOf(d, b) PROVE e \in A \cup UNION S
    OBVIOUS
  <2>1. PICK x : Gives(d, e, x)
    BY SourcesAre
  <2>2. CASE x \in ToSet(I) \cup Constants3 /\ e = <<x, 1>>
    <3>1. PICK i \in 1 .. C : SourceBits(d)[i] = x
      BY <1>1, <1>6, <2>2 DEF ToSet
    <3>2. f[i] = e
      BY <2>2, <3>1
    <3> HIDE DEF f
    <3> QED BY <3>2
  <2>3. CASE \E c \in DOMAIN d.cells : \E i \in DOMAIN d.cells[c].outs :
               d.cells[c].outs[i] = x /\ e = <<d.cells[c].name, i>>
    <3>1. PICK c \in 1 .. N : \E i \in DOMAIN d.cells[c].outs : e = <<d.cells[c].name, i>>
      BY <1>1, <2>3
    <3>2. e \in B(c)
      BY <3>1
    <3> HIDE DEF B, S
    <3> QED BY <1>5, <3>2
  <2> QED BY <2>1, <2>2, <2>3 DEF Gives
<1> HIDE DEF A, S
<1>8. IsFiniteSet(UNION S)
  BY <1>4, FS_UNION
<1>9. IsFiniteSet(A \cup UNION S)
  BY <1>2, <1>8, FS_Union
<1> QED BY <1>7, <1>9, FS_Subset

(* What a node was made with, slot by slot.                                *)
SlotsAre(g, n, type, name, ins, outs) ==
  /\ g.nodes[n].type = type /\ g.nodes[n].name = name
  /\ DOMAIN g.nodes[n].ins = 1 .. Len(ins) /\ DOMAIN g.nodes[n].outs = 1 .. Len(outs)
  /\ \A k \in 1 .. Len(ins) : g.pins[g.nodes[n].ins[k]].name = <<ins[k], 0>>
  /\ \A k \in 1 .. Len(outs) : g.nets[g.pins[g.nodes[n].outs[k]].net].name = outs[k]

(* The slots of a node, from how it was made.                              *)
LEMMA NodeSlots ==
  ASSUME NEW g \in GraphSet, NEW n, NEW type, NEW name, NEW ins, NEW outs,
         NodeIs(g, n, type, name, ins, outs)
  PROVE  SlotsAre(g, n, type, name, ins, outs)
<1>1. /\ n \in DOMAIN g.nodes
      /\ g.nodes[n].type = type /\ g.nodes[n].name = name
      /\ Len(g.nodes[n].ins) = Len(ins) /\ Len(g.nodes[n].outs) = Len(outs)
      /\ \A k \in 1 .. Len(ins) : g.pins[g.nodes[n].ins[k]].name = <<ins[k], 0>>
      /\ \A k \in 1 .. Len(outs) : g.nets[g.pins[g.nodes[n].outs[k]].net].name = outs[k]
  BY DEF NodeIs, NodeHas
<1>2. g.nodes[n].ins \in Seq(Nat) /\ g.nodes[n].outs \in Seq(Nat)
  BY <1>1, GraphType DEF NodeRecord
<1> DEFINE I == g.nodes[n].ins
           O == g.nodes[n].outs
<1>3. DOMAIN I = 1 .. Len(I) /\ DOMAIN O = 1 .. Len(O)
  BY <1>2
<1> HIDE DEF I, O
<1>4. DOMAIN I = 1 .. Len(ins) /\ DOMAIN O = 1 .. Len(outs)
  BY <1>1, <1>3 DEF I, O
<1> QED BY <1>1, <1>4, Zenon DEF I, O, SlotsAre

(* Output pin p of a live node drives bit a.                               *)
FromSource(g, d, p, a) ==
  /\ IsSource(g, d, g.pins[p].node) /\ g.pins[p].slot = 1
  /\ a = SourceBits(d)[g.pins[p].node] /\ g.nodes[g.pins[p].node].name = a

FromCell(g, d, p, a) ==
  \E c \in DOMAIN d.cells :
    /\ g.pins[p].node = Before(d) + c /\ g.nodes[g.pins[p].node].name = d.cells[c].name
    /\ g.nodes[g.pins[p].node].type = "skip"
    /\ g.pins[p].slot \in DOMAIN d.cells[c].outs /\ d.cells[c].outs[g.pins[p].slot] = a

FromBuffer(g, d, p, a) ==
  /\ g.nodes[g.pins[p].node].type = "buf" /\ g.nodes[g.pins[p].node].name = a /\ g.pins[p].slot = 1
  /\ \E j \in DOMAIN d.connections :
       BufferFor(g, d, g.pins[p].node, j) /\ a = d.connections[j][1]

(* Every output pin is that of a constant or an input, of a cell or of a   *)
(* buffer, and drives the net of its bit in the design.                    *)
LEMMA DriverKinds ==
  ASSUME NEW d \in Designs, NEW g, HookedGraph(g, d), NEW p, LivePin(g, p), g.pins[p].output
  PROVE  LET a == g.nets[g.pins[p].net].name
         IN  FromSource(g, d, p, a) \/ FromCell(g, d, p, a) \/ FromBuffer(g, d, p, a)
<1> DEFINE n == g.pins[p].node
           k == g.pins[p].slot
           a == g.nets[g.pins[p].net].name
<1>0. g \in GraphSet /\ Agree(g)
  BY Zenon DEF HookedGraph
<1>1. LiveNode(g, n) /\ k \in DOMAIN g.nodes[n].outs /\ g.nodes[n].outs[k] = p
  BY <1>0 DEF Agree, LivePin, PinOK, OutPinOK
<1>2. IsSource(g, d, n) \/ IsOutput(g, d, n) \/ IsCell(g, d, n) \/ IsBuffer(g, d, n)
  BY <1>1, NodeKinds, Zenon
<1> HIDE DEF n, k
<1>3. ASSUME NEW type, NEW name, NEW ins, NEW outs, NodeIs(g, n, type, name, ins, outs)
      PROVE  k \in 1 .. Len(outs) /\ a = outs[k] /\ g.nodes[n].type = type /\ g.nodes[n].name = name
  <2>1. /\ g.nodes[n].type = type /\ g.nodes[n].name = name
        /\ DOMAIN g.nodes[n].outs = 1 .. Len(outs)
        /\ \A i \in 1 .. Len(outs) : g.nets[g.pins[g.nodes[n].outs[i]].net].name = outs[i]
    <3>1. SlotsAre(g, n, type, name, ins, outs)
      BY <1>0, <1>3, NodeSlots, Zenon
    <3> QED BY <3>1, Zenon DEF SlotsAre
  <2>2. k \in 1 .. Len(outs)
    BY <1>1, <2>1, Zenon
  <2>3. g.nets[g.pins[g.nodes[n].outs[k]].net].name = outs[k]
    BY <2>1, <2>2
  <2> QED BY <1>1, <2>1, <2>2, <2>3, Zenon
<1>4. CASE IsSource(g, d, n)
  <2> DEFINE b == SourceBits(d)[n]
             s == <<b>>
  <2>1. NodeIs(g, n, SourceType(b), b, <<>>, s)
    BY <1>4 DEF IsSource, SourceHas
  <2>2. Len(s) = 1 /\ s[1] = b
    OBVIOUS
  <2> HIDE DEF s, b
  <2>3. k \in 1 .. Len(s) /\ a = s[k] /\ g.nodes[n].name = b
    BY <1>3, <2>1
  <2>4. k = 1
    BY <2>2, <2>3
  <2>5. a = b
    BY <2>2, <2>3, <2>4
  <2> QED BY <1>4, <2>3, <2>4, <2>5 DEF FromSource, b, n, k
<1>5. CASE IsOutput(g, d, n)
  <2>1. PICK i \in 1 .. Len(d.outputs) : n = SourceCount(d) + i /\ OutputHas(g, d, i)
    BY <1>5 DEF IsOutput
  <2> DEFINE s == <<>>
             t == <<d.outputs[i]>>
             type == "output"
             o == d.outputs[i]
  <2>2. NodeIs(g, n, type, o, t, s)
    BY <2>1, Zenon DEF OutputHas
  <2>3. Len(s) = 0
    OBVIOUS
  <2> HIDE DEF s, t, type, o
  <2>4. k \in 1 .. Len(s)
    BY <1>3, <2>2, Zenon
  <2> QED BY <2>3, <2>4
<1>6. CASE IsCell(g, d, n)
  <2>1. PICK c \in 1 .. Len(d.cells) : n = Before(d) + c /\ CellHas(g, d, c)
    BY <1>6 DEF IsCell
  <2> DEFINE s == d.cells[c].outs
             t == d.cells[c].ins
             type == "skip"
             m == d.cells[c].name
  <2>2. NodeIs(g, n, type, m, t, s)
    BY <2>1, Zenon DEF CellHas
  <2>3. c \in DOMAIN d.cells
    BY DesignFacts
  <2>4. s \in Seq(Names)
    BY <2>3, CellFacts
  <2>5. DOMAIN s = 1 .. Len(s)
    BY <2>4
  <2> HIDE DEF s, t, type, m
  <2>6. k \in 1 .. Len(s) /\ a = s[k] /\ g.nodes[n].type = type /\ g.nodes[n].name = m
    BY <1>3, <2>2
  <2> HIDE DEF a
  <2> QED BY <2>1, <2>3, <2>5, <2>6 DEF FromCell, s, type, m, n, k, a
<1>7. CASE IsBuffer(g, d, n)
  <2>1. PICK j \in 1 .. Len(d.connections) : BufferFor(g, d, n, j)
    BY <1>7 DEF IsBuffer
  <2> DEFINE l == d.connections[j][1]
             s == <<l>>
             t == <<d.connections[j][2]>>
             type == "buf"
  <2>2. NodeIs(g, n, type, l, t, s)
    BY <2>1, Zenon DEF BufferFor
  <2>3. Len(s) = 1 /\ s[1] = l
    OBVIOUS
  <2> HIDE DEF s, t, type, l
  <2>4. k \in 1 .. Len(s) /\ a = s[k] /\ g.nodes[n].type = type /\ g.nodes[n].name = l
    BY <1>3, <2>2
  <2>5. k = 1
    BY <2>3, <2>4
  <2>6. a = l
    BY <2>3, <2>4, <2>5
  <2>7. j \in DOMAIN d.connections
    <3>1. d.connections \in Seq(Names \X Names)
      BY DesignFacts
    <3> QED BY <3>1
  <2> QED BY <2>1, <2>4, <2>5, <2>6, <2>7 DEF FromBuffer, l, type, n, k
<1> QED BY <1>2, <1>4, <1>5, <1>6, <1>7 DEF n, k, a

(* Input pin p of a live node reads bit b.                                 *)
ToOutput(g, d, p, b) ==
  \E i \in DOMAIN d.outputs :
    /\ g.pins[p].node = SourceCount(d) + i /\ g.nodes[g.pins[p].node].type = "output"
    /\ g.nodes[g.pins[p].node].name = b /\ g.pins[p].slot = 1 /\ d.outputs[i] = b

ToCell(g, d, p, b) ==
  \E c \in DOMAIN d.cells :
    /\ g.pins[p].node = Before(d) + c /\ g.nodes[g.pins[p].node].name = d.cells[c].name
    /\ g.nodes[g.pins[p].node].type = "skip"
    /\ g.pins[p].slot \in DOMAIN d.cells[c].ins /\ d.cells[c].ins[g.pins[p].slot] = b

ToBuffer(g, d, p, b) ==
  /\ g.nodes[g.pins[p].node].type = "buf"
  /\ \E j \in DOMAIN d.connections :
       BufferFor(g, d, g.pins[p].node, j) /\ b = d.connections[j][2]

(* Every input pin is that of an output, of a cell or of a buffer, and is  *)
(* named after the bit it reads in the design.                             *)
LEMMA ReaderKinds ==
  ASSUME NEW d \in Designs, NEW g \in GraphSet, Agree(g), NEW p, LivePin(g, p), ~g.pins[p].output,
         LET n == g.pins[p].node
         IN  IsSource(g, d, n) \/ IsOutput(g, d, n) \/ IsCell(g, d, n) \/ IsBuffer(g, d, n)
  PROVE  LET b == g.pins[p].name[1]
         IN  ToOutput(g, d, p, b) \/ ToCell(g, d, p, b) \/ ToBuffer(g, d, p, b)
<1> DEFINE n == g.pins[p].node
           k == g.pins[p].slot
           b == g.pins[p].name[1]
<1>1. LiveNode(g, n) /\ k \in DOMAIN g.nodes[n].ins /\ g.nodes[n].ins[k] = p
  BY DEF Agree, LivePin, PinOK, InPinOK
<1>2. IsSource(g, d, n) \/ IsOutput(g, d, n) \/ IsCell(g, d, n) \/ IsBuffer(g, d, n)
  BY Zenon
<1> HIDE DEF n, k
<1>3. ASSUME NEW type, NEW name, NEW ins, NEW outs, NodeIs(g, n, type, name, ins, outs)
      PROVE  k \in 1 .. Len(ins) /\ b = ins[k] /\ g.nodes[n].type = type /\ g.nodes[n].name = name
  <2>1. /\ g.nodes[n].type = type /\ g.nodes[n].name = name
        /\ DOMAIN g.nodes[n].ins = 1 .. Len(ins)
        /\ \A i \in 1 .. Len(ins) : g.pins[g.nodes[n].ins[i]].name = <<ins[i], 0>>
    <3>1. SlotsAre(g, n, type, name, ins, outs)
      BY <1>3, NodeSlots
    <3> QED BY <3>1, Zenon DEF SlotsAre
  <2>2. k \in 1 .. Len(ins)
    BY <1>1, <2>1
  <2>3. g.pins[g.nodes[n].ins[k]].name = <<ins[k], 0>>
    BY <2>1, <2>2
  <2> QED BY <1>1, <2>1, <2>2, <2>3
<1>4. CASE IsSource(g, d, n)
  <2> DEFINE c == SourceBits(d)[n]
             s == <<>>
             t == <<c>>
  <2>1. NodeIs(g, n, SourceType(c), c, s, t)
    BY <1>4 DEF IsSource, SourceHas
  <2>2. Len(s) = 0
    OBVIOUS
  <2> HIDE DEF s, t, c
  <2>3. k \in 1 .. Len(s)
    BY <1>3, <2>1
  <2> QED BY <2>2, <2>3
<1>5. CASE IsOutput(g, d, n)
  <2>1. PICK i \in 1 .. Len(d.outputs) : n = SourceCount(d) + i /\ OutputHas(g, d, i)
    BY <1>5 DEF IsOutput
  <2> DEFINE s == <<>>
             o == d.outputs[i]
             t == <<o>>
             type == "output"
  <2>2. NodeIs(g, n, type, o, t, s)
    BY <2>1, Zenon DEF OutputHas
  <2>3. Len(t) = 1 /\ t[1] = o
    OBVIOUS
  <2>4. i \in DOMAIN d.outputs
    BY DesignFacts
  <2> HIDE DEF s, t, type, o
  <2>5. k \in 1 .. Len(t) /\ b = t[k] /\ g.nodes[n].type = type /\ g.nodes[n].name = o
    BY <1>3, <2>2
  <2>6. k = 1
    BY <2>3, <2>5
  <2>7. b = o
    BY <2>3, <2>5, <2>6, Zenon
  <2> HIDE DEF b
  <2> QED BY <2>1, <2>4, <2>5, <2>6, <2>7 DEF ToOutput, o, type, n, k, b
<1>6. CASE IsCell(g, d, n)
  <2>1. PICK c \in 1 .. Len(d.cells) : n = Before(d) + c /\ CellHas(g, d, c)
    BY <1>6 DEF IsCell
  <2> DEFINE s == d.cells[c].outs
             t == d.cells[c].ins
             type == "skip"
             m == d.cells[c].name
  <2>2. NodeIs(g, n, type, m, t, s)
    BY <2>1, Zenon DEF CellHas
  <2>3. c \in DOMAIN d.cells
    BY DesignFacts
  <2>4. t \in Seq(Names)
    BY <2>3, CellFacts
  <2>5. DOMAIN t = 1 .. Len(t)
    BY <2>4
  <2> HIDE DEF s, t, type, m
  <2>6. k \in 1 .. Len(t) /\ b = t[k] /\ g.nodes[n].type = type /\ g.nodes[n].name = m
    BY <1>3, <2>2
  <2> HIDE DEF b
  <2> QED BY <2>1, <2>3, <2>5, <2>6 DEF ToCell, t, type, m, n, k, b
<1>7. CASE IsBuffer(g, d, n)
  <2>1. PICK j \in 1 .. Len(d.connections) : BufferFor(g, d, n, j)
    BY <1>7 DEF IsBuffer
  <2> DEFINE l == d.connections[j][1]
             r == d.connections[j][2]
             s == <<l>>
             t == <<r>>
             type == "buf"
  <2>2. NodeIs(g, n, type, l, t, s)
    BY <2>1, Zenon DEF BufferFor
  <2>3. Len(t) = 1 /\ t[1] = r
    OBVIOUS
  <2> HIDE DEF s, t, type, l, r
  <2>4. k \in 1 .. Len(t) /\ b = t[k] /\ g.nodes[n].type = type
    BY <1>3, <2>2
  <2>5. k = 1
    BY <2>3, <2>4
  <2>6. b = r
    BY <2>3, <2>4, <2>5
  <2>7. j \in DOMAIN d.connections
    <3>1. d.connections \in Seq(Names \X Names)
      BY DesignFacts
    <3> QED BY <3>1
  <2> HIDE DEF b
  <2> QED BY <2>1, <2>4, <2>6, <2>7 DEF ToBuffer, r, type, n, b
<1> QED BY <1>2, <1>4, <1>5, <1>6, <1>7, Zenon DEF n, b

(* A bit on the left of a connection that nothing drives itself.           *)
LEMMA SourcesThrough ==
  ASSUME NEW d \in Designs, NEW j \in DOMAIN d.connections,
         \A e : ~Gives(d, e, d.connections[j][1])
  PROVE  SourcesOf(d, d.connections[j][1]) = SourcesOf(d, d.connections[j][2])
<1> DEFINE a == d.connections[j][1]
           r == d.connections[j][2]
<1>1. UpstreamBits(d, a) = {a} \cup UpstreamBits(d, r)
  BY UpOfLeft
<1>2. \A e : ~Gives(d, e, a)
  OBVIOUS
<1> HIDE DEF a, r
<1>3. \A e : e \in SourcesOf(d, a) <=> \E x \in UpstreamBits(d, a) : Gives(d, e, x)
  BY SourcesAre
<1>4. \A e : e \in SourcesOf(d, r) <=> \E x \in UpstreamBits(d, r) : Gives(d, e, x)
  BY SourcesAre
<1>5. \A e : e \in SourcesOf(d, a) <=> e \in SourcesOf(d, r)
  BY <1>1, <1>2, <1>3, <1>4
<1> DEFINE A == SourcesOf(d, a)
           R == SourcesOf(d, r)
<1>6. \A e : e \in A <=> e \in R
  BY <1>5
<1> HIDE DEF A, R
<1>7. A = R
  BY <1>6
<1> QED BY <1>7 DEF A, R, a, r

(* Once they are hooked up, input pins are on live nets.                   *)
LEMMA ReadNet ==
  ASSUME NEW d \in Designs, NEW g, HookedGraph(g, d), NEW p, LivePin(g, p), ~g.pins[p].output
  PROVE  LiveNet(g, g.pins[p].net)
<1>1. InPinOK(g, p)
  BY DEF HookedGraph, Agree, LivePin, PinOK
<1>2. g.pins[p].net # Null
  BY DEF HookedGraph, AllHooked, LivePin
<1> QED BY <1>1, <1>2 DEF InPinOK

(* What pin p reads still has the sources of the bit p is named after.     *)
MeansTheSame(g, d, p) ==
  LET b == g.nets[g.pins[p].net].name
  IN  /\ b \in UpstreamBits(d, g.pins[p].name[1])
      /\ SourcesOf(d, b) = SourcesOf(d, g.pins[p].name[1])

(* The meaning of a netlist, pin by pin.                                   *)
LEMMA SameSourcesIs ==
  ASSUME NEW g, NEW d
  PROVE  SameSources(g, d)
           <=> \A p \in DOMAIN g.pins : g.pins[p].live /\ ~g.pins[p].output => MeansTheSame(g, d, p)
BY DEF SameSources, MeansTheSame

(* A pin that stays on its net keeps its meaning.                          *)
LEMMA SamePinSources ==
  ASSUME NEW d \in Designs, NEW g, HookedGraph(g, d), NEW h, Reshaped(g, h),
         NEW p, LivePin(g, p), ~g.pins[p].output, MeansTheSame(g, d, p),
         h.pins[p].net = g.pins[p].net
  PROVE  MeansTheSame(h, d, p)
<1>1. g.pins[p].net \in DOMAIN g.nets
  BY ReadNet DEF LiveNet
<1>2. h.nets[g.pins[p].net].name = g.nets[g.pins[p].net].name
  BY <1>1 DEF Reshaped
<1>3. h.pins[p].name = g.pins[p].name
  BY DEF Reshaped, LivePin
<1> QED BY <1>2, <1>3 DEF MeansTheSame

(* A change that moves no pin to another net keeps the meaning.            *)
LEMMA SourcesReshaped ==
  ASSUME NEW d \in Designs, NEW g, HookedGraph(g, d), NEW h, Reshaped(g, h), SameSources(g, d),
         \A p \in DOMAIN g.pins : h.pins[p].net = g.pins[p].net
  PROVE  SameSources(h, d)
<1> SUFFICES ASSUME NEW p \in DOMAIN h.pins, h.pins[p].live, ~h.pins[p].output
             PROVE  MeansTheSame(h, d, p)
  BY SameSourcesIs
<1>1. LivePin(g, p) /\ ~g.pins[p].output /\ h.pins[p].net = g.pins[p].net
  BY DEF Reshaped, LivePin
<1>2. MeansTheSame(g, d, p)
  BY <1>1, SameSourcesIs DEF LivePin
<1> QED BY <1>1, <1>2, SamePinSources

(* The bit of a connection that drives its net alone is given by nothing.  *)
LEMMA AloneGives ==
  ASSUME NEW d \in Designs, NEW g, HookedGraph(g, d), NEW n, NEW q, NEW o, NEW into, NEW other,
         Removable(g, n, q, o, into, other), NEW j \in DOMAIN d.connections, BufferFor(g, d, n, j)
  PROVE  /\ g.nets[other].name = d.connections[j][1]
         /\ \A e : ~Gives(d, e, d.connections[j][1])
<1> DEFINE a == d.connections[j][1]
           s == <<a>>
           t == <<d.connections[j][2]>>
           type == "buf"
<1>0. g \in GraphSet /\ Agree(g) /\ NetNamesDiffer(g)
  BY DEF HookedGraph
<1>1. NodeIs(g, n, type, a, t, s) /\ Len(s) = 1 /\ s[1] = a
  BY Zenon DEF BufferFor
<1>2. g.nodes[n].outs = <<o>> /\ g.pins[o].net = other /\ LiveNet(g, other) /\ g.nets[other].drivers = <<o>>
      /\ g.pins[o].node = n /\ g.nodes[n].type = "buf"
  BY DEF Removable
<1>3. g.nets[other].name = a
  <2> HIDE DEF s, t, type, a
  <2>1. SlotsAre(g, n, type, a, t, s)
    BY <1>0, <1>1, NodeSlots, Zenon
  <2>2. \A k \in 1 .. Len(s) : g.nets[g.pins[g.nodes[n].outs[k]].net].name = s[k]
    BY <2>1 DEF SlotsAre
  <2>3. 1 \in 1 .. Len(s)
    BY <1>1
  <2>4. g.nets[g.pins[g.nodes[n].outs[1]].net].name = s[1]
    BY <2>2, <2>3
  <2>5. g.nodes[n].outs[1] = o
    BY <1>2
  <2> QED BY <1>1, <1>2, <2>4, <2>5
<1>4. a \notin ToSet(d.inputs) \cup Constants3
  BY ConnectionFacts
<1>5. ASSUME NEW c \in DOMAIN d.cells, NEW i \in DOMAIN d.cells[c].outs, d.cells[c].outs[i] = a
      PROVE  FALSE
  <2> DEFINE x == Before(d) + c
             ci == d.cells[c].ins
             co == d.cells[c].outs
             skip == "skip"
             m == d.cells[c].name
             p == g.nodes[x].outs[i]
  <2>1. c \in 1 .. Len(d.cells) /\ co \in Seq(Names)
    BY CellFacts
  <2>2. CellHas(g, d, c)
    BY <2>1 DEF HookedGraph, Layout
  <2>3. NodeIs(g, x, skip, m, ci, co) /\ LiveNode(g, x)
    BY <2>2, Zenon DEF CellHas, NodeIs, NodeHas, LiveNode
  <2>4. i \in 1 .. Len(co) /\ co[i] = a
    BY <1>5, <2>1
  <2> HIDE DEF x, ci, co, m, skip
  <2>5. SlotsAre(g, x, skip, m, ci, co)
    BY <1>0, <2>3, NodeSlots, Zenon
  <2>6. g.nets[g.pins[p].net].name = a /\ i \in DOMAIN g.nodes[x].outs /\ g.nodes[x].type = skip
    BY <2>4, <2>5 DEF SlotsAre
  <2>7. LivePin(g, p) /\ g.pins[p].node = x /\ g.pins[p].output
    <3>1. NodeOK(g, x)
      BY <1>0, <2>3, Zenon DEF Agree, LiveNode
    <3>2. OutSlotOK(g, x, i)
      BY <2>6, <3>1, Zenon DEF NodeOK
    <3> QED BY <3>2 DEF OutSlotOK
  <2> HIDE DEF p
  <2>8. LiveNet(g, g.pins[p].net) /\ g.pins[p].place \in DOMAIN g.nets[g.pins[p].net].drivers
        /\ g.nets[g.pins[p].net].drivers[g.pins[p].place] = p
    BY <1>0, <2>7 DEF Agree, LivePin, PinOK, OutPinOK
  <2>9. g.pins[p].net = other
    BY <1>0, <1>2, <1>3, <2>6, <2>8 DEF NetNamesDiffer, LiveNet
  <2>10. p = o
    BY <1>2, <2>8, <2>9
  <2>11. x = n
    BY <1>2, <2>7, <2>10
  <2> QED BY <1>2, <2>6, <2>11 DEF skip
<1>6. \A e : ~Gives(d, e, a)
  BY <1>4, <1>5 DEF Gives
<1> QED BY <1>3, <1>6

(* The readers of a buffer that is removed get a net of the same sources.  *)
LEMMA GoneSources ==
  ASSUME NEW d \in Designs, NEW g, HookedGraph(g, d), Placed(g), SameSources(g, d),
         NEW h, NEW n, NEW q, NEW o, NEW into, NEW other,
         Removable(g, n, q, o, into, other), BufferGone(g, h, n, q, o, into, other), Reshaped(g, h)
  PROVE  SameSources(h, d)
<1>0. g \in GraphSet /\ Agree(g)
  BY DEF HookedGraph
<1>1. LivePin(g, q) /\ ~g.pins[q].output /\ g.pins[q].node = n /\ g.nodes[n].type = "buf"
      /\ g.pins[q].net = into /\ LiveNode(g, n) /\ LiveNet(g, into) /\ LiveNet(g, other)
  BY DEF Removable
<1>2. PICK j \in DOMAIN d.connections : BufferFor(g, d, n, j) /\ g.pins[q].name[1] = d.connections[j][2]
  <2>1. IsSource(g, d, n) \/ IsOutput(g, d, n) \/ IsCell(g, d, n) \/ IsBuffer(g, d, n)
    BY <1>1, NodeKinds
  <2> DEFINE b == g.pins[q].name[1]
  <2>2. ToOutput(g, d, q, b) \/ ToCell(g, d, q, b) \/ ToBuffer(g, d, q, b)
    BY <1>0, <1>1, <2>1, ReaderKinds
  <2> HIDE DEF b
  <2>3. ToBuffer(g, d, q, b)
    BY <1>1, <2>2 DEF ToOutput, ToCell
  <2> QED BY <1>1, <2>3 DEF ToBuffer, b
<1> DEFINE a == d.connections[j][1]
           r == d.connections[j][2]
           b == g.nets[into].name
<1>3. g.nets[other].name = a /\ \A e : ~Gives(d, e, a)
  BY <1>2, AloneGives
<1>4. SourcesOf(d, a) = SourcesOf(d, r)
  BY <1>3, SourcesThrough
<1>5. b \in UpstreamBits(d, r) /\ SourcesOf(d, b) = SourcesOf(d, r)
  <2>1. MeansTheSame(g, d, q)
    BY <1>1, SameSourcesIs DEF LivePin
  <2> QED BY <1>1, <1>2, <2>1 DEF MeansTheSame
<1>6. UpstreamBits(d, r) \subseteq UpstreamBits(d, a)
  BY UpOfLeft
<1> HIDE DEF a, r, b
<1> SUFFICES ASSUME NEW p \in DOMAIN h.pins, h.pins[p].live, ~h.pins[p].output
             PROVE  MeansTheSame(h, d, p)
  BY SameSourcesIs
<1>7. LivePin(g, p) /\ ~g.pins[p].output
  BY DEF Reshaped, LivePin
<1>8. MeansTheSame(g, d, p)
  BY <1>7, SameSourcesIs DEF LivePin
<1>9. CASE p \notin ReadersOf(g, other)
  <2>1. h.pins[p].net = g.pins[p].net
    BY <1>7, <1>9 DEF BufferGone, LivePin
  <2> QED BY <1>7, <1>8, <2>1, SamePinSources
<1>10. CASE p \in ReadersOf(g, other)
  <2> DEFINE c == g.pins[p].name[1]
  <2>1. g.pins[p].net = other
    BY <1>0, <1>1, <1>10, ReadersFacts
  <2>2. a \in UpstreamBits(d, c) /\ SourcesOf(d, a) = SourcesOf(d, c)
    BY <1>3, <1>8, <2>1 DEF MeansTheSame
  <2>3. h.pins[p].net = into /\ h.pins[p].name = g.pins[p].name
    BY <1>7, <1>10 DEF BufferGone, LivePin
  <2>4. h.nets[into].name = b
    BY <1>1 DEF BufferGone, LiveNet, b
  <2> HIDE DEF c
  <2>5. b \in UpstreamBits(d, c)
    <3>1. UpstreamBits(d, a) \subseteq UpstreamBits(d, c)
      BY <2>2, UpTransitive
    <3> QED BY <1>5, <1>6, <3>1
  <2>6. SourcesOf(d, b) = SourcesOf(d, c)
    BY <1>4, <1>5, <2>2
  <2> QED BY <2>3, <2>4, <2>5, <2>6 DEF MeansTheSame, c
<1> QED BY <1>9, <1>10

(* Mapping node n of the graph keeps what the pins read.                   *)
LEMMA MappedSources ==
  ASSUME NEW d \in Designs, HookedGraph(graph, d), Placed(graph), SameSources(graph, d),
         NEW n, LiveNode(graph, n), ~LoopsBack(n)
  PROVE  SameSources(PartialMapNode(n), d)
<1>0. graph \in GraphSet /\ Agree(graph) /\ n \in DOMAIN graph.nodes
  BY DEF HookedGraph, LiveNode
<1>1. CASE graph.nodes[n].type = "buf"
  <2> DEFINE q == graph.nodes[n].ins[1]
             o == graph.nodes[n].outs[1]
             into == graph.pins[q].net
             other == graph.pins[o].net
             h == EliminateBuffer(n)
  <2>1. PartialMapNode(n) = h
    BY <1>1 DEF PartialMapNode
  <2>2. ~(InputNet(n) = OutputNet(n) /\ Len(graph.nets[OutputNet(n)].drivers) = 1)
    BY <1>1, Zenon DEF LoopsBack
  <2>3. \/ h = graph
        \/ Removable(graph, n, q, o, into, other) /\ BufferGone(graph, h, n, q, o, into, other)
    BY <1>1, <2>2, BufferEliminated
  <2> HIDE DEF h, q, o, into, other
  <2>4. CASE h = graph
    BY <2>1, <2>4
  <2>5. CASE Removable(graph, n, q, o, into, other) /\ BufferGone(graph, h, n, q, o, into, other)
    <3>1. Reshaped(graph, h)
      BY <1>0, <2>5, GoneKeeps
    <3>2. SameSources(h, d)
      BY <2>5, <3>1, GoneSources
    <3> QED BY <2>1, <3>2
  <2> QED BY <2>3, <2>4, <2>5
<1>2. CASE graph.nodes[n].type = "skip"
  <2> DEFINE h == InstantiateHardBlock(graph, n)
  <2>1. PartialMapNode(n) = h
    BY <1>2 DEF PartialMapNode
  <2>2. Named(graph, h, n)
    BY <1>0, InstantiateNames
  <2> HIDE DEF h
  <2>3. Reshaped(graph, h)
    BY <1>0, <1>2, <2>2, NamedKeeps
  <2>4. \A p \in DOMAIN graph.pins : h.pins[p].net = graph.pins[p].net
    BY <2>2 DEF Named
  <2>5. SameSources(h, d)
    BY <2>3, <2>4, SourcesReshaped
  <2> QED BY <2>1, <2>5
<1>3. CASE graph.nodes[n].type \notin {"buf", "skip"}
  <2>1. PartialMapNode(n) = graph
    BY <1>3 DEF PartialMapNode
  <2> QED BY <2>1
<1> QED BY <1>1, <1>2, <1>3

(* hook_up_nets puts every pin on the net of its bit.                      *)
LEMMA HookUpMeaning ==
  ASSUME GraphInv, HookUp, stage' # "refused"
  PROVE  SameSources(graph', design')
<1>1. ImportInv /\ design \in Designs /\ design' = design
  BY DEF GraphInv, ImportInv, HookUp
<1>2. HookedUp(graph', design)
  BY <1>1, HookUpMakes
<1> DEFINE h == graph'
           d == design
<1>3. AsNamed(h)
  BY <1>2 DEF HookedUp
<1> HIDE DEF h
<1>4. ASSUME NEW p \in DOMAIN h.pins, h.pins[p].live, ~h.pins[p].output
      PROVE  MeansTheSame(h, d, p)
  <2> DEFINE b == h.pins[p].name[1]
  <2>1. h.nets[h.pins[p].net].name = b
    BY <1>3, <1>4 DEF AsNamed
  <2> HIDE DEF b
  <2>2. b \in UpstreamBits(d, b)
    BY <1>1, UpFacts
  <2> QED BY <2>1, <2>2 DEF MeansTheSame, b
<1>5. SameSources(h, d)
  BY <1>4, SameSourcesIs
<1> QED BY <1>1, <1>5 DEF h

(* Leaving a node keeps what the pins read.                                *)
LEMMA ReturnMeaning ==
  ASSUME GraphInv, MeaningInv, Return, stage' # "refused"
  PROVE  SameSources(graph', design')
<1> DEFINE n == Running.node
<1>1. stage \in Walks /\ calls # <<>> /\ design' = design
  BY DEF Return, Walking, Walks
<1>2. design \in Designs /\ HookedGraph(graph, design) /\ SameSources(graph, design)
  BY <1>1, WalkingFacts DEF MeaningInv, Walks
<1>3. LiveNode(graph, n)
  BY <1>1, RunningFacts DEF CallOK
<1>4. CASE stage = "map"
  <2>1. ~LoopsBack(n) /\ graph' = PartialMapNode(n)
    BY <1>4 DEF Return, Refuse
  <2>2. Placed(graph)
    BY <1>1, <1>4, WalkingFacts
  <2> HIDE DEF n
  <2>3. SameSources(PartialMapNode(n), design)
    BY <1>2, <1>3, <2>1, <2>2, MappedSources
  <2> QED BY <1>1, <2>1, <2>3
<1>5. CASE stage # "map"
  <2>1. graph' = graph
    BY <1>5 DEF Return
  <2> QED BY <1>1, <1>2, <2>1
<1> QED BY <1>4, <1>5

(* The sweep keeps what the pins read.                                     *)
LEMMA SweepMeaning ==
  ASSUME GraphInv, MeaningInv, RemoveUnusedLogic
  PROVE  SameSources(graph', design')
<1>1. /\ design \in Designs /\ HookedGraph(graph, design) /\ graph \in GraphSet
      /\ design' = design /\ SameSources(graph, design)
  BY DEF GraphInv, ImportInv, RemoveUnusedLogic, MeaningInv
<1>2. Trimmed(graph, graph', Useless)
  BY <1>1, SweepTrims
<1> DEFINE h == graph'
           U == Useless
<1> HIDE DEF h, U
<1>3. Trimmed(graph, h, U)
  BY <1>2 DEF h, U
<1>4. Reshaped(graph, h)
  BY <1>1, <1>3, TrimmedKeeps
<1>5. \A p \in DOMAIN graph.pins : h.pins[p].net = graph.pins[p].net
  BY <1>3 DEF Trimmed
<1>6. SameSources(h, design)
  BY <1>1, <1>4, <1>5, SourcesReshaped
<1> QED BY <1>1, <1>6 DEF h

(* Every step keeps what the pins read.                                    *)
LEMMA MeaningNext ==
  ASSUME GraphInv, MeaningInv, [Next]_vars
  PROVE  MeaningInv'
<1> DEFINE Later == {"map", "sweep", "write", "outputs", "done"}
<1>1. CASE stage' \notin Later
  BY <1>1 DEF MeaningInv
<1>2. CASE stage' \in Later /\ HookUp
  BY <1>2, HookUpMeaning DEF MeaningInv
<1>3. CASE stage' \in Later /\ Return
  BY <1>3, ReturnMeaning DEF MeaningInv
<1>4. CASE stage' \in Later /\ RemoveUnusedLogic
  BY <1>4, SweepMeaning DEF MeaningInv
<1>5. ASSUME graph' = graph, design' = design, stage \in Later PROVE MeaningInv'
  BY <1>5 DEF MeaningInv
<1>6. CASE ImportCell \/ LastCell \/ ImportConnection \/ LastConnection
  BY <1>6 DEF MeaningInv, ImportCell, LastCell, ImportConnection, LastConnection
<1>7. CASE VisitRoot \/ VisitReader \/ SkipReader \/ NextOutputPin \/ TraversalDone
  BY <1>5, <1>7 DEF VisitRoot, VisitReader, SkipReader, NextOutputPin, TraversalDone, AtReader, Walking
<1>8. CASE WriteOutputs
  BY <1>5, <1>8 DEF WriteOutputs
<1>9. CASE UNCHANGED vars
  BY <1>9 DEF vars, MeaningInv
<1> QED BY <1>1, <1>2, <1>3, <1>4, <1>6, <1>7, <1>8, <1>9 DEF Next

(* Every pin keeps the sources its bit has in the design.                  *)
THEOREM MeaningInvariant == Spec => []MeaningInv
<1>1. Init => MeaningInv
  BY DEF Init, MeaningInv
<1>2. GraphInv /\ MeaningInv /\ [Next]_vars => MeaningInv'
  BY MeaningNext
<1> QED BY <1>1, <1>2, GraphInvariant, PTL DEF Spec

-----------------------------------------------------------------------------
(* Sound designs are accepted.                                             *)

(* Which bits are the left-hand side of a connection.                      *)
IsLeft(d, b) == \E j \in DOMAIN d.connections : d.connections[j][1] = b

SoundFacts(d) ==
  /\ \A b : (\E i \in DOMAIN d.outputs : d.outputs[i] = b)
            \/ (\E c \in DOMAIN d.cells : \E i \in DOMAIN d.cells[c].ins : d.cells[c].ins[i] = b)
            \/ (\E j \in DOMAIN d.connections : d.connections[j][2] = b)
       => \E e : SourcesOf(d, b) = {e}
  /\ \A b, e : IsLeft(d, b) => ~Gives(d, e, b)
  /\ \A j, k \in DOMAIN d.connections :
       j < k /\ d.connections[k][2] = d.connections[j][1]
         => d.connections[j][1] \in MentionedBits(d)

(* What it says of the design to be sound.                                 *)
LEMMA SoundMeans ==
  ASSUME design \in Designs, Sound
  PROVE  SoundFacts(design)
<1> DEFINE d == design
<1>1. ASSUME NEW b,
             \/ \E i \in DOMAIN d.outputs : d.outputs[i] = b
             \/ \E c \in DOMAIN d.cells : \E i \in DOMAIN d.cells[c].ins : d.cells[c].ins[i] = b
             \/ \E j \in DOMAIN d.connections : d.connections[j][2] = b
      PROVE  \E e : SourcesOf(d, b) = {e}
  <2>1. b \in ReadBits
    <3>1. CASE \E i \in DOMAIN d.outputs : d.outputs[i] = b
      <4>1. b \in ToSet(d.outputs)
        BY <3>1 DEF ToSet
      <4> QED BY <4>1 DEF ReadBits
    <3>2. CASE \E c \in DOMAIN d.cells : \E i \in DOMAIN d.cells[c].ins : d.cells[c].ins[i] = b
      <4>1. PICK c \in DOMAIN d.cells : \E i \in DOMAIN d.cells[c].ins : d.cells[c].ins[i] = b
        BY <3>2
      <4>2. d.cells[c] \in ToSet(d.cells) /\ b \in ToSet(d.cells[c].ins)
        BY <4>1 DEF ToSet
      <4>3. b \in UNION {ToSet(m.ins) : m \in ToSet(d.cells)}
        BY <4>2
      <4> QED BY <4>3 DEF ReadBits
    <3>3. CASE \E j \in DOMAIN d.connections : d.connections[j][2] = b
      <4>1. b \in {m[2] : m \in ToSet(d.connections)}
        BY <3>3 DEF ToSet
      <4> QED BY <4>1 DEF ReadBits
    <3> QED BY <1>1, <3>1, <3>2, <3>3
  <2>2. Cardinality(SourcesOf(d, b)) = 1
    BY <2>1 DEF Sound
  <2>3. IsFiniteSet(SourcesOf(d, b))
    BY SourcesFinite
  <2> QED BY <2>2, <2>3, FS_Singleton
<1>2. ASSUME NEW b, NEW e, IsLeft(d, b), Gives(d, e, b)
      PROVE  FALSE
  <2>1. PICK j \in DOMAIN d.connections : d.connections[j][1] = b
    BY <1>2 DEF IsLeft
  <2>2. b \notin ToSet(d.inputs) \cup Constants3
    BY <2>1, ConnectionFacts
  <2>3. PICK c \in DOMAIN d.cells : \E i \in DOMAIN d.cells[c].outs : d.cells[c].outs[i] = b
    BY <1>2, <2>2 DEF Gives
  <2>4. b \in ToSet(d.cells[c].outs)
    BY <2>3 DEF ToSet
  <2>5. b \in CellOutputs(d)
    BY <2>4 DEF CellOutputs
  <2>6. d.connections[j] \in ToSet(d.connections)
    BY DEF ToSet
  <2> QED BY <2>1, <2>5, <2>6 DEF Sound
<1>3. ASSUME NEW j \in DOMAIN d.connections, NEW k \in DOMAIN d.connections,
             j < k, d.connections[k][2] = d.connections[j][1]
      PROVE  d.connections[j][1] \in MentionedBits(d)
  BY <1>3 DEF Sound, Mentioned, MentionedBits
<1> QED BY <1>1, <1>2, <1>3 DEF SoundFacts

(* In a sound design a bit that is read is driven by a source or on the    *)
(* left of a connection.                                                   *)
LEMMA ReadGiven ==
  ASSUME NEW d \in Designs, NEW b, NEW e, SourcesOf(d, b) = {e}, ~IsLeft(d, b)
  PROVE  Gives(d, e, b)
<1>1. UpstreamBits(d, b) = {b}
  BY UpOfOther DEF IsLeft
<1>2. e \in SourcesOf(d, b)
  OBVIOUS
<1> QED BY <1>1, <1>2, SourcesAre

(* A bit that something drives itself has a net.                           *)
LEMMA GivenHasNet ==
  ASSUME NEW d \in Designs, NEW nets, ToSet(SourceBits(d)) \cup CellOutputs(d) \subseteq DOMAIN nets,
         NEW b, NEW e, Gives(d, e, b)
  PROVE  b \in DOMAIN nets
<1>1. CASE b \in ToSet(d.inputs) \cup Constants3
  BY <1>1, SourceBitsAre
<1>2. CASE \E c \in DOMAIN d.cells : \E i \in DOMAIN d.cells[c].outs : d.cells[c].outs[i] = b
  <2>1. PICK c \in DOMAIN d.cells : b \in ToSet(d.cells[c].outs)
    BY <1>2 DEF ToSet
  <2>2. b \in CellOutputs(d)
    BY <2>1 DEF CellOutputs
  <2> QED BY <2>2
<1> QED BY <1>1, <1>2 DEF Gives

(* Bits that outputs and cells read are mentioned.                         *)
LEMMA MentionedReads ==
  ASSUME NEW d, NEW b,
         \/ \E i \in DOMAIN d.outputs : d.outputs[i] = b
         \/ \E c \in DOMAIN d.cells : \E i \in DOMAIN d.cells[c].ins : d.cells[c].ins[i] = b
  PROVE  b \in MentionedBits(d)
<1>1. CASE \E i \in DOMAIN d.outputs : d.outputs[i] = b
  <2>1. b \in ToSet(d.outputs)
    BY <1>1 DEF ToSet
  <2> QED BY <2>1 DEF MentionedBits
<1>2. CASE \E c \in DOMAIN d.cells : \E i \in DOMAIN d.cells[c].ins : d.cells[c].ins[i] = b
  <2>1. PICK c \in DOMAIN d.cells : b \in ToSet(d.cells[c].ins)
    BY <1>2 DEF ToSet
  <2>2. d.cells[c] \in ToSet(d.cells)
    BY DEF ToSet
  <2>3. b \in UNION {ToSet(m.ins) \cup ToSet(m.outs) : m \in ToSet(d.cells)}
    BY <2>1, <2>2
  <2> QED BY <2>3 DEF MentionedBits
<1> QED BY <1>1, <1>2

(* Every bit a pin reads has a net when hook_up_nets looks for it.         *)
LEMMA NetsFound ==
  ASSUME NEW d \in Designs, NEW g, NEW nets, NEW seen,
         ConnectionsInv(g, d, nets, seen, Len(d.connections)), SoundFacts(d),
         NEW n \in DOMAIN g.nodes, NEW p \in ToSet(g.nodes[n].ins)
  PROVE  g.pins[p].name[1] \in DOMAIN nets
<1> DEFINE K == Len(d.connections)
           b == g.pins[p].name[1]
<1>1. /\ Imported(g, nets) /\ Layout(g, d, Len(d.cells), K) /\ Seen(g, d, nets, seen, K)
      /\ ToSet(SourceBits(d)) \cup CellOutputs(d) \subseteq DOMAIN nets
  BY DEF ConnectionsInv
<1>2. g \in GraphSet /\ Agree(g) /\ LiveNode(g, n)
  BY <1>1 DEF Imported, Fresh, LiveNode
<1>3. LivePin(g, p) /\ ~g.pins[p].output /\ g.pins[p].node = n
  <2>1. PICK i \in DOMAIN g.nodes[n].ins : g.nodes[n].ins[i] = p
    BY DEF ToSet
  <2>2. InSlotOK(g, n, i)
    BY <1>2 DEF Agree, LiveNode, NodeOK
  <2> QED BY <2>1, <2>2 DEF InSlotOK
<1>4. IsSource(g, d, n) \/ IsOutput(g, d, n) \/ IsCell(g, d, n) \/ IsBuffer(g, d, n)
  BY <1>1, <1>2, LayoutKinds
<1>5. ToOutput(g, d, p, b) \/ ToCell(g, d, p, b) \/ ToBuffer(g, d, p, b)
  BY <1>2, <1>3, <1>4, ReaderKinds
<1> HIDE DEF b
<1>6. d.connections \in Seq(Names \X Names) /\ K \in Nat /\ DOMAIN d.connections = 1 .. K
  BY DesignFacts
<1> HIDE DEF K
<1>7. \A j \in 1 .. K : d.connections[j][1] \in MentionedBits(d) => d.connections[j][1] \in DOMAIN nets
  BY <1>1 DEF Seen
<1>8. ASSUME ToOutput(g, d, p, b) \/ ToCell(g, d, p, b)
      PROVE  b \in DOMAIN nets
  <2>1. \/ \E i \in DOMAIN d.outputs : d.outputs[i] = b
        \/ \E c \in DOMAIN d.cells : \E i \in DOMAIN d.cells[c].ins : d.cells[c].ins[i] = b
    BY <1>8, Zenon DEF ToOutput, ToCell
  <2>2. PICK e : SourcesOf(d, b) = {e}
    BY <2>1 DEF SoundFacts
  <2>3. CASE IsLeft(d, b)
    <3>1. b \in MentionedBits(d)
      BY <2>1, MentionedReads
    <3> QED BY <1>6, <1>7, <2>3, <3>1 DEF IsLeft
  <2>4. CASE ~IsLeft(d, b)
    <3>1. Gives(d, e, b)
      BY <2>2, <2>4, ReadGiven
    <3> QED BY <1>1, <3>1, GivenHasNet
  <2> QED BY <2>3, <2>4, Zenon
<1>9. ASSUME ToBuffer(g, d, p, b)
      PROVE  b \in DOMAIN nets
  <2>1. PICK k \in DOMAIN d.connections : BufferFor(g, d, n, k) /\ b = d.connections[k][2]
    BY <1>3, <1>9 DEF ToBuffer
  <2>2. g.nodes[n].type = "buf"
    BY <1>3, <1>9 DEF ToBuffer
  <2>3. PICK i \in 1 .. K :
          /\ BufferFor(g, d, n, i)
          /\ \A j \in i .. K : d.connections[j][1] = d.connections[i][2]
               => d.connections[j][1] \in DOMAIN nets
    BY <1>1, <2>2 DEF Seen
  <2>4. i = k
    <3>1. g.nodes[n].name = d.connections[k][1] /\ g.nodes[n].name = d.connections[i][1]
      BY <2>1, <2>3, Zenon DEF BufferFor, NodeIs, NodeHas
    <3> QED BY <1>6, <2>1, <2>3, <3>1, ConnectionFacts
  <2>5. PICK e : SourcesOf(d, b) = {e}
    BY <2>1 DEF SoundFacts
  <2>6. CASE IsLeft(d, b)
    <3>1. PICK j \in DOMAIN d.connections : d.connections[j][1] = b
      BY <2>6 DEF IsLeft
    <3>2. CASE j < k
      <4>1. d.connections[j][1] \in MentionedBits(d)
        BY <2>1, <3>1, <3>2 DEF SoundFacts
      <4> QED BY <1>6, <1>7, <3>1, <4>1
    <3>3. CASE ~(j < k)
      <4>1. j \in i .. K
        BY <1>6, <2>4, <3>1, <3>3
      <4> QED BY <2>1, <2>3, <2>4, <3>1, <4>1
    <3> QED BY <3>2, <3>3
  <2>7. CASE ~IsLeft(d, b)
    <3>1. Gives(d, e, b)
      BY <2>5, <2>7, ReadGiven
    <3> QED BY <1>1, <3>1, GivenHasNet
  <2> QED BY <2>6, <2>7
<1> QED BY <1>5, <1>8, <1>9 DEF b

(* hook_up_nets finds every net in a sound design.                         *)
LEMMA HookUpAccepts ==
  ASSUME GraphInv, HookUp, SoundFacts(design)
  PROVE  stage' # "refused"
<1> SUFFICES ASSUME stage' = "refused" PROVE FALSE
  OBVIOUS
<1>1. /\ design \in Designs
      /\ ConnectionsInv(graph, design, output_nets, cstr_bits_seen, Len(design.connections))
  BY DEF GraphInv, ImportInv, HookUp
<1>2. PICK n \in ToSet(Unhooked) : \E p \in ToSet(graph.nodes[n].ins) : BitOf(p) \notin DOMAIN output_nets
  BY DEF HookUp
<1>3. PICK p \in ToSet(graph.nodes[n].ins) : BitOf(p) \notin DOMAIN output_nets
  BY <1>2
<1>4. n \in DOMAIN graph.nodes
  <2>1. Fresh(graph) /\ Layout(graph, design, Len(design.cells), Len(design.connections))
    BY <1>1 DEF ConnectionsInv, Imported
  <2>2. PICK k \in DOMAIN Unhooked : Unhooked[k] = n
    BY <1>2 DEF ToSet
  <2>3. Len(design.connections) \in Nat
    BY <1>1, DesignFacts
  <2> QED BY <1>1, <2>1, <2>2, <2>3, UnhookedIs
<1>5. graph.pins[p].name[1] \in DOMAIN output_nets
  BY <1>1, <1>3, <1>4, NetsFound
<1> QED BY <1>3, <1>5 DEF BitOf

(* A connection whose two sides have the same sources each is not sound.   *)
LEMMA NoRing ==
  ASSUME NEW d \in Designs, SoundFacts(d), NEW j \in DOMAIN d.connections,
         d.connections[j][1] \in UpstreamBits(d, d.connections[j][2])
  PROVE  FALSE
<1> DEFINE a == d.connections[j][1]
           b == d.connections[j][2]
           Z == {x \in UpstreamBits(d, b) : a \in UpstreamBits(d, x)}
<1>1. a \in UpstreamBits(d, b)
  OBVIOUS
<1>2. b \in Z
  BY <1>1, UpFacts
<1>3. ASSUME NEW i \in DOMAIN d.connections, d.connections[i][1] \in Z
      PROVE  d.connections[i][2] \in Z
  <2> DEFINE x == d.connections[i][1]
             y == d.connections[i][2]
  <2>1. x \in UpstreamBits(d, b) /\ a \in UpstreamBits(d, x)
    BY <1>3
  <2>2. y \in UpstreamBits(d, b)
    BY <2>1, UpFacts
  <2>3. UpstreamBits(d, x) = {x} \cup UpstreamBits(d, y)
    BY UpOfLeft
  <2>4. CASE x = a
    <3>1. i = j
      BY <2>4, ConnectionFacts
    <3> QED BY <1>1, <2>2, <3>1
  <2>5. CASE x # a
    <3>1. a \in UpstreamBits(d, y)
      BY <2>1, <2>3, <2>5
    <3> QED BY <2>2, <3>1
  <2> QED BY <2>4, <2>5
<1>4. UpstreamBits(d, b) \subseteq Z
  <2> HIDE DEF Z, a
  <2>1. \A i \in DOMAIN d.connections : d.connections[i][1] \in Z => d.connections[i][2] \in Z
    BY <1>3
  <2> QED BY <1>2, <2>1, UpFacts
<1>5. PICK e : SourcesOf(d, b) = {e}
  BY DEF SoundFacts
<1>6. PICK x \in UpstreamBits(d, b) : Gives(d, e, x)
  <2>1. e \in SourcesOf(d, b)
    BY <1>5
  <2> QED BY <2>1, SourcesAre
<1>7. a \in UpstreamBits(d, x)
  BY <1>4
<1>8. IsLeft(d, x)
  <2>1. CASE x = a
    BY <2>1 DEF IsLeft
  <2>2. CASE x # a /\ ~IsLeft(d, x)
    <3>1. UpstreamBits(d, x) = {x}
      BY <2>2, UpOfOther DEF IsLeft
    <3> QED BY <1>7, <2>2, <3>1
  <2> QED BY <2>1, <2>2
<1> QED BY <1>6, <1>8 DEF SoundFacts

(* A pin is known by its node and its slot there.                          *)
LEMMA SameSlot ==
  ASSUME NEW g, Agree(g), NEW p, LivePin(g, p), g.pins[p].output,
         NEW q, LivePin(g, q), g.pins[q].output,
         g.pins[p].node = g.pins[q].node, g.pins[p].slot = g.pins[q].slot
  PROVE  p = q
<1>1. OutPinOK(g, p) /\ OutPinOK(g, q)
  BY DEF Agree, LivePin, PinOK
<1> QED BY <1>1 DEF OutPinOK

(* Pins of inputs, constants and cells give their bits.                    *)
LEMMA EndGives ==
  ASSUME NEW d \in Designs, NEW g, NEW p, NEW a, FromSource(g, d, p, a) \/ FromCell(g, d, p, a)
  PROVE  Gives(d, End(g, p), a)
<1>1. CASE FromSource(g, d, p, a)
  <2> DEFINE n == g.pins[p].node
  <2>1. n \in DOMAIN SourceBits(d) /\ SourceBits(d)[n] = a /\ End(g, p) = <<a, 1>>
    BY <1>1, DesignFacts DEF FromSource, IsSource, End
  <2> HIDE DEF n
  <2>2. a \in ToSet(SourceBits(d))
    BY <2>1 DEF ToSet
  <2> QED BY <2>1, <2>2, SourceBitsAre DEF Gives
<1>2. CASE FromCell(g, d, p, a)
  BY <1>2 DEF FromCell, End, Gives
<1> QED BY <1>1, <1>2

(* Cells and wires have different names.                                   *)
LEMMA NamesApart ==
  ASSUME NEW d \in Designs, NEW c \in DOMAIN d.cells
  PROVE  /\ d.cells[c].name \notin ToSet(SourceBits(d))
         /\ \A i \in DOMAIN d.cells : d.cells[i].name = d.cells[c].name => i = c
<1>1. IsDesign(d)
  BY DesignsAssumption
<1>2. {m.name : m \in ToSet(d.cells)} \cap Bits(d) = {}
      /\ \A i, j \in DOMAIN d.cells : d.cells[i].name = d.cells[j].name => i = j
  BY <1>1 DEF IsDesign
<1>3. d.cells[c].name \in {m.name : m \in ToSet(d.cells)}
  BY DEF ToSet
<1>4. ToSet(SourceBits(d)) \subseteq Bits(d)
  BY DEF Bits
<1> QED BY <1>2, <1>3, <1>4

(* Two pins of inputs, constants and cells never have the same name and    *)
(* number.                                                                 *)
LEMMA EndsDiffer ==
  ASSUME NEW d \in Designs, NEW g, Agree(g),
         NEW p, LivePin(g, p), g.pins[p].output, NEW q, LivePin(g, q), g.pins[q].output,
         NEW a, FromSource(g, d, p, a) \/ FromCell(g, d, p, a),
         NEW b, FromSource(g, d, q, b) \/ FromCell(g, d, q, b),
         End(g, p) = End(g, q)
  PROVE  p = q
<1> DEFINE m == g.pins[p].node
           n == g.pins[q].node
<1>1. g.nodes[m].name = g.nodes[n].name /\ g.pins[p].slot = g.pins[q].slot
  BY DEF End
<1>2. ASSUME NEW r, NEW c, FromSource(g, d, r, c)
      PROVE  /\ g.pins[r].node \in DOMAIN SourceBits(d)
             /\ SourceBits(d)[g.pins[r].node] = g.nodes[g.pins[r].node].name
             /\ g.nodes[g.pins[r].node].name \in ToSet(SourceBits(d))
  <2>1. /\ g.pins[r].node \in DOMAIN SourceBits(d)
        /\ SourceBits(d)[g.pins[r].node] = g.nodes[g.pins[r].node].name
    BY <1>2, DesignFacts, Zenon DEF FromSource, IsSource
  <2> QED BY <2>1 DEF ToSet
<1>3. ASSUME NEW r, NEW c, FromCell(g, d, r, c)
      PROVE  \E i \in DOMAIN d.cells : g.pins[r].node = Before(d) + i
                                       /\ g.nodes[g.pins[r].node].name = d.cells[i].name
  BY <1>3, Zenon DEF FromCell
<1>4. CASE FromSource(g, d, p, a) /\ FromSource(g, d, q, b)
  <2>1. m \in DOMAIN SourceBits(d) /\ n \in DOMAIN SourceBits(d) /\ SourceBits(d)[m] = SourceBits(d)[n]
    BY <1>1, <1>2, <1>4
  <2> HIDE DEF m, n
  <2>2. m = n
    BY <2>1, DesignFacts
  <2> QED BY <1>1, <2>2, SameSlot, Zenon DEF m, n
<1>5. CASE FromCell(g, d, p, a) /\ FromCell(g, d, q, b)
  <2>1. PICK i \in DOMAIN d.cells : m = Before(d) + i /\ g.nodes[m].name = d.cells[i].name
    BY <1>3, <1>5
  <2>2. PICK j \in DOMAIN d.cells : n = Before(d) + j /\ g.nodes[n].name = d.cells[j].name
    BY <1>3, <1>5
  <2>3. i = j
    BY <1>1, <2>1, <2>2, NamesApart
  <2>4. m = n
    BY <2>1, <2>2, <2>3
  <2> QED BY <1>1, <2>4, SameSlot
<1>6. ASSUME NEW r, NEW c, FromSource(g, d, r, c), NEW s, NEW e, FromCell(g, d, s, e),
             g.nodes[g.pins[r].node].name = g.nodes[g.pins[s].node].name
      PROVE  FALSE
  <2>1. g.nodes[g.pins[r].node].name \in ToSet(SourceBits(d))
    BY <1>2, <1>6
  <2>2. PICK j \in DOMAIN d.cells : g.nodes[g.pins[s].node].name = d.cells[j].name
    BY <1>3, <1>6
  <2> QED BY <1>6, <2>1, <2>2, NamesApart
<1> QED BY <1>1, <1>4, <1>5, <1>6

(* One buffer at most drives a bit.                                        *)
LEMMA BufferDriver ==
  ASSUME NEW d, NEW g, HookedGraph(g, d),
         NEW p, LivePin(g, p), g.pins[p].output, NEW q, LivePin(g, q), g.pins[q].output,
         NEW a, FromBuffer(g, d, p, a), FromBuffer(g, d, q, a)
  PROVE  p = q
<1>1. Agree(g) /\ BufferNamesDiffer(g)
  BY Zenon DEF HookedGraph
<1>2. g.pins[p].node \in DOMAIN g.nodes /\ g.pins[q].node \in DOMAIN g.nodes
  BY <1>1 DEF Agree, LivePin, PinOK, OutPinOK, LiveNode
<1>3. g.pins[p].node = g.pins[q].node /\ g.pins[p].slot = g.pins[q].slot
  BY <1>1, <1>2 DEF FromBuffer, BufferNamesDiffer
<1> QED BY <1>1, <1>3, SameSlot

(* In a sound design a net that is read has one driver.                    *)
LEMMA OneDriver ==
  ASSUME NEW d \in Designs, SoundFacts(d), NEW g, HookedGraph(g, d), NEW m, LiveNet(g, m),
         IsLeft(d, g.nets[m].name) \/ \E e : SourcesOf(d, g.nets[m].name) = {e}
  PROVE  ~(Len(g.nets[m].drivers) > 1)
<1> DEFINE a == g.nets[m].name
<1>1. Agree(g) /\ g \in GraphSet
  BY DEF HookedGraph
<1>2. ASSUME NEW i \in DOMAIN g.nets[m].drivers
      PROVE  LET p == g.nets[m].drivers[i]
             IN  /\ LivePin(g, p) /\ g.pins[p].output /\ g.pins[p].place = i
                 /\ g.nets[g.pins[p].net].name = a
                 /\ FromSource(g, d, p, a) \/ FromCell(g, d, p, a) \/ FromBuffer(g, d, p, a)
  <2> DEFINE p == g.nets[m].drivers[i]
  <2>1. DriverOK(g, m, i)
    BY <1>1 DEF Agree, LiveNet, NetOK
  <2>2. LivePin(g, p) /\ g.pins[p].net = m /\ g.pins[p].place = i /\ g.pins[p].output
    BY <2>1 DEF DriverOK
  <2> HIDE DEF p
  <2>3. FromSource(g, d, p, a) \/ FromCell(g, d, p, a) \/ FromBuffer(g, d, p, a)
    BY <2>2, DriverKinds
  <2> QED BY <2>2, <2>3 DEF p
<1>3. ASSUME NEW i \in DOMAIN g.nets[m].drivers, NEW j \in DOMAIN g.nets[m].drivers
      PROVE  i = j
  <2> DEFINE p == g.nets[m].drivers[i]
             q == g.nets[m].drivers[j]
  <2>1. LivePin(g, p) /\ g.pins[p].output /\ g.pins[p].place = i
        /\ (FromSource(g, d, p, a) \/ FromCell(g, d, p, a) \/ FromBuffer(g, d, p, a))
    BY <1>2, Zenon
  <2>2. LivePin(g, q) /\ g.pins[q].output /\ g.pins[q].place = j
        /\ (FromSource(g, d, q, a) \/ FromCell(g, d, q, a) \/ FromBuffer(g, d, q, a))
    BY <1>2
  <2> HIDE DEF p, q
  <2>3. CASE IsLeft(d, a)
    <3>1. \A e : ~Gives(d, e, a)
      BY <2>3 DEF SoundFacts
    <3> HIDE DEF a
    <3>2. FromBuffer(g, d, p, a) /\ FromBuffer(g, d, q, a)
      BY <2>1, <2>2, <3>1, EndGives
    <3>3. p = q
      BY <2>1, <2>2, <3>2, BufferDriver
    <3> QED BY <2>1, <2>2, <3>3
  <2>4. CASE ~IsLeft(d, a)
    <3>1. PICK e : SourcesOf(d, a) = {e}
      BY <2>4
    <3>2. a \in UpstreamBits(d, a)
      BY UpFacts
    <3> HIDE DEF a
    <3>3. (FromSource(g, d, p, a) \/ FromCell(g, d, p, a)) /\ (FromSource(g, d, q, a) \/ FromCell(g, d, q, a))
      BY <2>1, <2>2, <2>4 DEF FromBuffer, IsLeft
    <3>4. Gives(d, End(g, p), a) /\ Gives(d, End(g, q), a)
      BY <3>3, EndGives
    <3>5. End(g, p) \in SourcesOf(d, a) /\ End(g, q) \in SourcesOf(d, a)
      BY <3>2, <3>4, SourcesAre
    <3>6. End(g, p) = End(g, q)
      BY <3>1, <3>5
    <3>7. p = q
      BY <1>1, <2>1, <2>2, <3>3, <3>6, EndsDiffer
    <3> QED BY <2>1, <2>2, <3>7
  <2> QED BY <2>3, <2>4, Zenon
<1> SUFFICES ASSUME Len(g.nets[m].drivers) > 1 PROVE FALSE
  OBVIOUS
<1>4. g.nets[m].drivers \in Seq(Nat)
  BY <1>1, GraphType DEF NetRecord, LiveNet
<1> DEFINE s == g.nets[m].drivers
<1>5. 1 \in DOMAIN s /\ 2 \in DOMAIN s
  BY <1>4
<1> HIDE DEF s
<1>6. \A i, j \in DOMAIN s : i = j
  BY <1>3 DEF s
<1>7. 1 = 2
  BY <1>5, <1>6
<1> QED BY <1>7

(* What a skip node or a buffer reads or drives, when the writer comes.    *)
LEMMA SoundWritable ==
  ASSUME NEW d \in Designs, design = d, SoundFacts(d), HookedGraph(graph, d), SameSources(graph, d),
         NEW n, LiveNode(graph, n), MappedNode(graph, n)
  PROVE  ~Unwritable(n)
<1>0. graph \in GraphSet /\ Agree(graph)
  BY DEF HookedGraph
<1>1. ASSUME graph.nodes[n].type = "buf" PROVE FALSE
  <2> DEFINE o == graph.nodes[n].outs[1]
             m == graph.pins[o].net
             a == graph.nets[m].name
  <2>1. BufferShape(graph, n, graph.nodes[n].ins[1], o)
    BY <1>1, BufferPins, Zenon
  <2>2. LivePin(graph, o) /\ graph.pins[o].node = n /\ graph.pins[o].output /\ LiveNet(graph, m)
        /\ DOMAIN graph.nodes[n].outs = {1}
    BY <2>1, Zenon DEF BufferShape
  <2>3. Len(graph.nets[m].drivers) > 1
    BY <1>1, <2>2, Zenon DEF MappedNode, LiveNode, NetOf
  <2> HIDE DEF o
  <2>4. FromSource(graph, d, o, a) \/ FromCell(graph, d, o, a) \/ FromBuffer(graph, d, o, a)
    BY <2>2, DriverKinds
  <2> HIDE DEF a
  <2>5. ~FromCell(graph, d, o, a)
    BY <1>1, <2>2 DEF FromCell
  <2>6. ~FromSource(graph, d, o, a)
    BY <1>1, <2>2, KindTypes DEF FromSource
  <2>7. IsLeft(d, a)
    BY <2>4, <2>5, <2>6 DEF FromBuffer, IsLeft
  <2> HIDE DEF m
  <2> QED BY <2>2, <2>3, <2>7, OneDriver DEF a
<1>2. ASSUME graph.nodes[n].type = "skip", NEW p \in ToSet(graph.nodes[n].ins), Len(DriversOf(p)) > 1
      PROVE  FALSE
  <2>1. PICK i \in DOMAIN graph.nodes[n].ins : graph.nodes[n].ins[i] = p
    BY DEF ToSet
  <2>2. LivePin(graph, p) /\ ~graph.pins[p].output /\ graph.pins[p].node = n
    BY <1>0, <2>1 DEF Agree, LiveNode, NodeOK, InSlotOK
  <2> DEFINE m == graph.pins[p].net
             b == graph.pins[p].name[1]
  <2>3. LiveNet(graph, m)
    BY <2>2, ReadNet
  <2>4. SourcesOf(d, graph.nets[m].name) = SourcesOf(d, b)
    BY <2>2, SameSourcesIs DEF LivePin, MeansTheSame
  <2>5. IsSource(graph, d, n) \/ IsOutput(graph, d, n) \/ IsCell(graph, d, n) \/ IsBuffer(graph, d, n)
    BY NodeKinds
  <2>6. ToOutput(graph, d, p, b) \/ ToCell(graph, d, p, b) \/ ToBuffer(graph, d, p, b)
    BY <1>0, <2>2, <2>5, ReaderKinds
  <2> HIDE DEF b
  <2>7. ToCell(graph, d, p, b)
    BY <1>2, <2>2, <2>6 DEF ToOutput, ToBuffer
  <2>8. PICK e : SourcesOf(d, b) = {e}
    BY <2>7 DEF ToCell, SoundFacts
  <2> HIDE DEF m
  <2>9. ~(Len(graph.nets[m].drivers) > 1)
    BY <2>3, <2>4, <2>8, OneDriver
  <2> QED BY <1>2, <2>9 DEF DriversOf, m
<1> QED BY <1>1, <1>2 DEF Unwritable

(* The writer refuses no node of a sound design.                           *)
LEMMA VisitAccepts ==
  ASSUME GraphInv, WalkInv, MeaningInv, stage \in Walks, NEW n, LiveNode(graph, n), Visit(n), SoundFacts(design),
         n \in 1 .. SourceCount(design) \/
         (AtReader /\ Reader(Running) # Null /\ graph.pins[Reader(Running)].node = n)
  PROVE  stage' # "refused"
<1>1. design \in Designs /\ HookedGraph(graph, design) /\ SameSources(graph, design)
  BY WalkingFacts DEF MeaningInv, Walks
<1>2. CASE stage # "write"
  BY <1>2 DEF Visit, Walks
<1>3. CASE stage = "write"
  <2>1. PICK M \in SUBSET DOMAIN graph.nodes : Covered(graph, design, M) /\ marked \cup {n} \subseteq M
    BY <1>3, CoveredNext
  <2>2. MappedNode(graph, n)
    BY <2>1 DEF Covered
  <2>3. ~Unwritable(n)
    BY <1>1, <2>2, SoundWritable
  <2> QED BY <1>3, <2>3 DEF Visit
<1> QED BY <1>2, <1>3

(* The mapping meets no buffer that reads the net it drives alone.         *)
LEMMA SoundJoins ==
  ASSUME NEW d \in Designs, SoundFacts(d), HookedGraph(graph, d), SameSources(graph, d),
         NEW n, LiveNode(graph, n)
  PROVE  ~LoopsBack(n)
<1> SUFFICES ASSUME graph.nodes[n].type = "buf", InputNet(n) = OutputNet(n) PROVE FALSE
  BY DEF LoopsBack
<1>0. graph \in GraphSet /\ Agree(graph)
  BY DEF HookedGraph
<1> DEFINE q == graph.nodes[n].ins[1]
           o == graph.nodes[n].outs[1]
           m == graph.pins[o].net
           a == graph.nets[m].name
           b == graph.pins[q].name[1]
<1>1. BufferShape(graph, n, q, o)
  BY BufferPins, Zenon
<1>2. /\ LivePin(graph, o) /\ graph.pins[o].node = n /\ graph.pins[o].output /\ LiveNet(graph, m)
      /\ LivePin(graph, q) /\ graph.pins[q].node = n /\ ~graph.pins[q].output
  BY <1>1, Zenon DEF BufferShape
<1>3. graph.pins[q].net = m
  BY DEF InputNet, OutputNet
<1> HIDE DEF o, q
<1>4. FromSource(graph, d, o, a) \/ FromCell(graph, d, o, a) \/ FromBuffer(graph, d, o, a)
  BY <1>2, DriverKinds
<1>5. IsSource(graph, d, n) \/ IsOutput(graph, d, n) \/ IsCell(graph, d, n) \/ IsBuffer(graph, d, n)
  BY NodeKinds
<1>6. ToOutput(graph, d, q, b) \/ ToCell(graph, d, q, b) \/ ToBuffer(graph, d, q, b)
  BY <1>0, <1>2, <1>5, ReaderKinds
<1>7. a \in UpstreamBits(d, b)
  BY <1>2, <1>3, SameSourcesIs DEF LivePin, MeansTheSame
<1> HIDE DEF a, b, m
<1>8. FromBuffer(graph, d, o, a)
  <2>1. ~FromCell(graph, d, o, a)
    BY <1>2 DEF FromCell
  <2>2. ~FromSource(graph, d, o, a)
    BY <1>2, KindTypes DEF FromSource
  <2> QED BY <1>4, <2>1, <2>2
<1>9. PICK j \in DOMAIN d.connections : a = d.connections[j][1] /\ graph.nodes[n].name = a
  BY <1>2, <1>8 DEF FromBuffer
<1>10. ToBuffer(graph, d, q, b)
  BY <1>2, <1>6 DEF ToOutput, ToCell
<1>11. PICK k \in DOMAIN d.connections : BufferFor(graph, d, n, k) /\ b = d.connections[k][2]
  BY <1>2, <1>10 DEF ToBuffer
<1>12. graph.nodes[n].name = d.connections[k][1]
  BY <1>11, Zenon DEF BufferFor, NodeIs, NodeHas
<1>13. k = j
  BY <1>9, <1>12, ConnectionFacts
<1> QED BY <1>7, <1>9, <1>11, <1>13, NoRing

(* No step refuses a sound design.                                         *)
LEMMA AcceptNext ==
  ASSUME GraphInv, WalkInv, MeaningInv, [Next]_vars, SoundFacts(design), stage # "refused"
  PROVE  stage' # "refused"
<1>1. CASE HookUp
  BY <1>1, HookUpAccepts
<1>2. CASE VisitRoot
  <2> DEFINE n == Roots[position]
             L == SourceCount(design)
  <2>1. stage \in Walks /\ position \in DOMAIN Roots /\ Visit(n)
    BY <1>2 DEF VisitRoot, Walking, Walks
  <2>2. DOMAIN Roots = 1 .. L /\ L \in Nat /\ n \in 1 .. L
    BY <2>1, WalkingFacts, RootFacts
  <2>3. LiveNode(graph, n)
    BY <2>1, <2>2, WalkingFacts, RootLive
  <2>4. n \in 1 .. SourceCount(design)
    BY <2>2
  <2> HIDE DEF n, L
  <2> QED BY <2>1, <2>3, <2>4, VisitAccepts
<1>3. CASE VisitReader
  <2> DEFINE n == graph.pins[Reader(Running)].node
  <2>1. AtReader /\ Reader(Running) # Null /\ Visit(n)
    BY <1>3 DEF VisitReader, Unmarked
  <2>2. stage \in Walks /\ LiveNode(graph, n)
    BY <2>1, AtReaderFacts
  <2>3. AtReader /\ Reader(Running) # Null /\ graph.pins[Reader(Running)].node = n
    BY <2>1
  <2> HIDE DEF n
  <2> QED BY <2>1, <2>2, <2>3, VisitAccepts
<1>4. CASE Return
  <2> DEFINE n == Running.node
  <2>1. stage \in Walks /\ calls # <<>>
    BY <1>4 DEF Return, Walking, Walks
  <2>2. design \in Designs /\ HookedGraph(graph, design) /\ SameSources(graph, design)
    BY <2>1, WalkingFacts DEF MeaningInv, Walks
  <2>3. LiveNode(graph, n)
    BY <2>1, RunningFacts DEF CallOK
  <2> HIDE DEF n
  <2>4. ~LoopsBack(n)
    BY <2>2, <2>3, SoundJoins
  <2> QED BY <1>4, <2>4 DEF Return, n
<1>5. CASE ImportCell \/ LastCell \/ ImportConnection \/ LastConnection
  BY <1>5 DEF ImportCell, LastCell, ImportConnection, LastConnection
<1>6. CASE SkipReader \/ NextOutputPin \/ TraversalDone \/ RemoveUnusedLogic \/ WriteOutputs
  BY <1>6 DEF SkipReader, NextOutputPin, TraversalDone, RemoveUnusedLogic, WriteOutputs
<1>7. CASE UNCHANGED vars
  BY <1>7 DEF vars
<1> QED BY <1>1, <1>2, <1>3, <1>4, <1>5, <1>6, <1>7 DEF Next

(* The design is not changed.                                              *)
LEMMA DesignStays ==
  ASSUME [Next]_vars
  PROVE  design' = design
BY DEF Next, vars, ImportCell, LastCell, ImportConnection, LastConnection, HookUp, VisitRoot, VisitReader,
       SkipReader, NextOutputPin, Return, TraversalDone, RemoveUnusedLogic, WriteOutputs

(* The pass finishes on every sound design: hook_up_nets finds a net for   *)
(* every bit that is read, join_nets is never given one net twice, and the *)
(* writer meets neither a buffer nor a cell input with several drivers.    *)
THEOREM SoundDesignsAccepted == Spec => []SoundAccepted
<1>1. Init => SoundAccepted
  BY DEF Init, SoundAccepted
<1>2. GraphInv /\ WalkInv /\ MeaningInv /\ SoundAccepted /\ [Next]_vars => SoundAccepted'
  <2> SUFFICES ASSUME GraphInv, WalkInv, MeaningInv, SoundAccepted, [Next]_vars, Sound'
               PROVE  stage' # "refused"
    BY DEF SoundAccepted
  <2>1. design' = design
    BY DesignStays
  <2>2. Sound
    BY <2>1 DEF Sound, ReadBits, Mentioned
  <2>3. design \in Designs
    BY DEF GraphInv, ImportInv
  <2>4. SoundFacts(design)
    BY <2>2, <2>3, SoundMeans
  <2>5. stage # "refused"
    BY <2>2 DEF SoundAccepted
  <2> QED BY <2>4, <2>5, AcceptNext
<1> QED BY <1>1, <1>2, GraphInvariant, WalkInvariant, MeaningInvariant, PTL DEF Spec

-----------------------------------------------------------------------------
(* The links of the netlist are those of the design.                       *)

(* A node that drives a net feeds the nodes that read it, whether or not   *)
(* the net still has them on its list.                                     *)
Feeding(g, a, b) ==
  \E p, q \in DOMAIN g.pins :
    /\ LivePin(g, p) /\ g.pins[p].output /\ g.pins[p].node = a
    /\ LivePin(g, q) /\ ~g.pins[q].output /\ g.pins[q].node = b
    /\ g.pins[p].net = g.pins[q].net

(* A net has the sources the design gives its bit.                         *)
NetsMean(g, d) ==
  \A m : LiveNet(g, m) =>
    {End(g, p) : p \in TrueDrivers(g, m)} = SourcesOf(d, g.nets[m].name)

AtPlace(g, q) ==
  /\ g.pins[q].place \in DOMAIN g.nets[g.pins[q].net].fanouts
  /\ g.nets[g.pins[q].net].fanouts[g.pins[q].place] = q

(* The nets list the readers that are not nodes of U.                      *)
Listed(g, U) ==
  /\ \A m : LiveNet(g, m) => \A k \in DOMAIN g.nets[m].fanouts :
       g.nets[m].fanouts[k] # Null => g.pins[g.nets[m].fanouts[k]].node \notin U
  /\ \A q : LivePin(g, q) /\ ~g.pins[q].output /\ g.pins[q].node \notin U => AtPlace(g, q)

(* The sweep has taken the nodes of U off the lists of the nets: none of   *)
(* them feeds a node that is left, and the cells among them are those no   *)
(* output of the design depends on.                                        *)
Swept(g, d, U) ==
  /\ Listed(g, U)
  /\ \A a, b : Feeding(g, a, b) /\ b \notin U => a \notin U
  /\ \A i \in 1 .. Before(d) : i \notin U
  /\ \A c \in DOMAIN d.cells : Before(d) + c \in U <=> d.cells[c].name \notin NeededNames(d)

(* The writer has visited M and written the cells in it.                   *)
Writing(U, M) ==
  /\ M \cap U = {} /\ \A n \in M : LiveNode(graph, n) /\ ~Unwritable(n)
  /\ ToSet(written.cells) = {WrittenCell(n) : n \in {n \in M : graph.nodes[n].type = "skip"}}

LinkInv ==
  /\ stage \in {"map", "sweep", "write", "outputs"} => NetsMean(graph, design)
  /\ stage = "write" =>
       \E U \in SUBSET DOMAIN graph.nodes : Swept(graph, design, U) /\ Writing(U, marked)
  /\ stage = "outputs" =>
       \E U \in SUBSET DOMAIN graph.nodes : \E M \in SUBSET DOMAIN graph.nodes :
         /\ Swept(graph, design, U) /\ Writing(U, M)
         /\ WalkClosed(graph, M, <<>>) /\ 1 .. SourceCount(design) \subseteq M

(* The nets of a buffer.                                                   *)
LiveBuf(g, n) == LiveNode(g, n) /\ g.nodes[n].type = "buf"
NetIn(g, n) == g.pins[g.nodes[n].ins[1]].net
NetOut(g, n) == g.pins[g.nodes[n].outs[1]].net

(* The nets upstream of a net are the least set that holds it and, with    *)
(* the net a buffer drives, the net it reads.                              *)
LEMMA UpstreamFacts ==
  ASSUME NEW g \in GraphSet, NEW m
  PROVE  /\ m \in Upstream(g, m)
         /\ \A n : LiveBuf(g, n) /\ NetOut(g, n) \in Upstream(g, m) => NetIn(g, n) \in Upstream(g, m)
         /\ \A v : m \in v /\ (\A n : LiveBuf(g, n) /\ NetOut(g, n) \in v => NetIn(g, n) \in v)
                     => Upstream(g, m) \subseteq v
<1> DEFINE E == Buffered(g)
           U == ClosureOf({m}, E)
           N == LastNode(g)
           f == [n \in 1 .. N |-> <<NetOut(g, n), NetIn(g, n)>>]
           F == {f[n] : n \in 1 .. N}
<1>1. N \in Nat /\ DOMAIN g.nodes = 1 .. N
  BY GraphType
<1>2. IsFiniteSet(F)
  <2>1. DOMAIN f = 1 .. N
    OBVIOUS
  <2> HIDE DEF f, N
  <2> QED BY <1>1, <2>1, ImageFinite
<1>3. \A e : e \in E <=> \E n : LiveBuf(g, n) /\ e = <<NetOut(g, n), NetIn(g, n)>>
  BY DEF Buffered, Buffers, LiveBuf, LiveNode, NetIn, NetOut
<1>4. E \subseteq F
  BY <1>1, <1>3 DEF LiveBuf, LiveNode
<1> HIDE DEF F, E
<1>5. IsFiniteSet(E)
  BY <1>2, <1>4, FS_Subset
<1>6. \A v : Closed(v, E) <=> \A n : LiveBuf(g, n) /\ NetOut(g, n) \in v => NetIn(g, n) \in v
  <2> SUFFICES ASSUME NEW v
               PROVE  Closed(v, E) <=> \A n : LiveBuf(g, n) /\ NetOut(g, n) \in v => NetIn(g, n) \in v
    OBVIOUS
  <2> DEFINE in(n) == NetIn(g, n)
             out(n) == NetOut(g, n)
             buf(n) == LiveBuf(g, n)
  <2>0. \A e : e \in E <=> \E n : buf(n) /\ e = <<out(n), in(n)>>
    BY <1>3
  <2> HIDE DEF in, out, buf
  <2>1. ASSUME Closed(v, E), NEW n, buf(n), out(n) \in v PROVE in(n) \in v
    <3> DEFINE e == <<out(n), in(n)>>
    <3>1. e \in E /\ e[1] = out(n) /\ e[2] = in(n)
      BY <2>0, <2>1
    <3> HIDE DEF e
    <3> QED BY <2>1, <3>1 DEF Closed
  <2>2. ASSUME \A n : buf(n) /\ out(n) \in v => in(n) \in v, NEW e \in E, e[1] \in v PROVE e[2] \in v
    <3>1. PICK n : buf(n) /\ e = <<out(n), in(n)>>
      BY <2>0
    <3>2. e[1] = out(n) /\ e[2] = in(n)
      BY <3>1
    <3> QED BY <2>2, <3>1, <3>2
  <2>3. Closed(v, E) <=> \A n : buf(n) /\ out(n) \in v => in(n) \in v
    BY <2>1, <2>2 DEF Closed
  <2> QED BY <2>3 DEF in, out, buf
<1>7. {m} \subseteq U /\ Closed(U, E) /\ \A v : {m} \subseteq v /\ Closed(v, E) => U \subseteq v
  BY <1>5, ClosureFacts
<1>8. Upstream(g, m) = U
  BY DEF Upstream, E
<1> HIDE DEF U
<1> QED BY <1>6, <1>7, <1>8

(* What is upstream of an upstream net is upstream.                        *)
LEMMA UpstreamTransitive ==
  ASSUME NEW g \in GraphSet, NEW m, NEW k \in Upstream(g, m)
  PROVE  Upstream(g, k) \subseteq Upstream(g, m)
<1>1. \A n : LiveBuf(g, n) /\ NetOut(g, n) \in Upstream(g, m) => NetIn(g, n) \in Upstream(g, m)
  BY UpstreamFacts
<1> DEFINE v == Upstream(g, m)
<1>2. k \in v /\ \A n : LiveBuf(g, n) /\ NetOut(g, n) \in v => NetIn(g, n) \in v
  BY <1>1
<1> HIDE DEF v
<1>3. Upstream(g, k) \subseteq v
  BY <1>2, UpstreamFacts
<1> QED BY <1>3 DEF v

(* A live buffer reads one live net and drives one.                        *)
LEMMA BufferNets ==
  ASSUME NEW d \in Designs, NEW g, HookedGraph(g, d), NEW n, LiveBuf(g, n)
  PROVE  /\ LiveNet(g, NetIn(g, n)) /\ LiveNet(g, NetOut(g, n))
         /\ BufferShape(g, n, g.nodes[n].ins[1], g.nodes[n].outs[1])
<1>1. BufferShape(g, n, g.nodes[n].ins[1], g.nodes[n].outs[1])
  BY BufferPins DEF LiveBuf
<1> QED BY <1>1 DEF BufferShape, NetIn, NetOut

(* Upstream of a live net there are only live nets.                        *)
LEMMA UpstreamLive ==
  ASSUME NEW d \in Designs, NEW g, HookedGraph(g, d), NEW m, LiveNet(g, m), NEW k \in Upstream(g, m)
  PROVE  LiveNet(g, k)
<1> DEFINE v == {x \in DOMAIN g.nets : LiveNet(g, x)}
<1>1. m \in v
  BY DEF LiveNet
<1>2. \A n : LiveBuf(g, n) /\ NetOut(g, n) \in v => NetIn(g, n) \in v
  BY BufferNets DEF LiveNet
<1>3. g \in GraphSet
  BY DEF HookedGraph
<1> HIDE DEF v
<1>4. Upstream(g, m) \subseteq v
  BY <1>1, <1>2, <1>3, UpstreamFacts
<1> QED BY <1>4 DEF v

(* Output pin p of a node that is no buffer, on a net m takes its value    *)
(* from.                                                                   *)
TruePin(g, m, p) ==
  /\ LivePin(g, p) /\ g.pins[p].output /\ g.pins[p].net \in Upstream(g, m)
  /\ g.nodes[g.pins[p].node].type # "buf"

(* The drivers of a live net are the output pins on it.                    *)
LEMMA DriversAre ==
  ASSUME NEW g, Agree(g), NEW m, LiveNet(g, m)
  PROVE  \A p : p \in ToSet(g.nets[m].drivers) <=> LivePin(g, p) /\ g.pins[p].output /\ g.pins[p].net = m
<1>1. ASSUME NEW p \in ToSet(g.nets[m].drivers)
      PROVE  LivePin(g, p) /\ g.pins[p].output /\ g.pins[p].net = m
  <2>1. PICK i \in DOMAIN g.nets[m].drivers : g.nets[m].drivers[i] = p
    BY DEF ToSet
  <2>2. DriverOK(g, m, i)
    BY DEF Agree, NetOK, LiveNet
  <2> QED BY <2>1, <2>2 DEF DriverOK
<1>2. ASSUME NEW p, LivePin(g, p), g.pins[p].output, g.pins[p].net = m
      PROVE  p \in ToSet(g.nets[m].drivers)
  <2>1. OutPinOK(g, p)
    BY <1>2 DEF Agree, LivePin, PinOK
  <2> QED BY <1>2, <2>1 DEF OutPinOK, ToSet
<1> QED BY <1>1, <1>2

(* The true drivers of a net are the pins, not of buffers, that drive it   *)
(* or a net upstream of it.                                                *)
LEMMA TrueDriversAre ==
  ASSUME NEW d \in Designs, NEW g, HookedGraph(g, d), NEW m, LiveNet(g, m)
  PROVE  \A p : p \in TrueDrivers(g, m) <=> TruePin(g, m, p)
<1> DEFINE Up == Upstream(g, m)
<1>0. Agree(g)
  BY DEF HookedGraph
<1>1. \A k \in Up : LiveNet(g, k)
  BY UpstreamLive
<1> HIDE DEF Up
<1>2. \A p : p \in TrueDrivers(g, m) <=>
        (\E k \in Up : p \in ToSet(g.nets[k].drivers)) /\ g.nodes[g.pins[p].node].type # "buf"
  BY DEF TrueDrivers, Up
<1>3. \A p : (\E k \in Up : p \in ToSet(g.nets[k].drivers))
               <=> LivePin(g, p) /\ g.pins[p].output /\ g.pins[p].net \in Up
  BY <1>0, <1>1, DriversAre
<1> QED BY <1>2, <1>3 DEF TruePin, Up

(* A change that keeps the nodes and the slots of the pins keeps the name  *)
(* and number of a pin.                                                    *)
LEMMA EndReshaped ==
  ASSUME NEW d \in Designs, NEW g, HookedGraph(g, d), NEW h, Reshaped(g, h), NEW p, LivePin(g, p)
  PROVE  End(h, p) = End(g, p)
<1>1. PinOK(g, p) /\ p \in DOMAIN g.pins
  BY DEF HookedGraph, Agree, LivePin
<1>2. g.pins[p].node \in DOMAIN g.nodes
  BY <1>1 DEF PinOK, OutPinOK, InPinOK, LiveNode
<1>3. h.pins[p].node = g.pins[p].node /\ h.pins[p].slot = g.pins[p].slot
  BY <1>1 DEF Reshaped
<1>4. h.nodes[g.pins[p].node].name = g.nodes[g.pins[p].node].name
  BY <1>2 DEF Reshaped
<1> QED BY <1>3, <1>4 DEF End

(* The nets that are left keep the output pins that drive them.            *)
PinsStay(g, h) ==
  \A m : LiveNet(h, m) => LiveNet(g, m) /\ \A p : TruePin(h, m, p) <=> TruePin(g, m, p)

(* Nets that keep their true drivers keep their meaning.                   *)
LEMMA MeanKept ==
  ASSUME NEW d \in Designs, NEW g, HookedGraph(g, d), NEW h, HookedGraph(h, d), Reshaped(g, h),
         PinsStay(g, h), NetsMean(g, d)
  PROVE  NetsMean(h, d)
<1> SUFFICES ASSUME NEW m, LiveNet(h, m)
             PROVE  {End(h, p) : p \in TrueDrivers(h, m)} = SourcesOf(d, h.nets[m].name)
  BY DEF NetsMean
<1>1. LiveNet(g, m) /\ \A p : TruePin(h, m, p) <=> TruePin(g, m, p)
  BY DEF PinsStay
<1>2. TrueDrivers(h, m) = TrueDrivers(g, m)
  <2>1. \A p : p \in TrueDrivers(h, m) <=> p \in TrueDrivers(g, m)
    BY <1>1, TrueDriversAre
  <2> QED BY <2>1
<1>3. \A p \in TrueDrivers(g, m) : End(h, p) = End(g, p)
  <2>1. \A p \in TrueDrivers(g, m) : LivePin(g, p)
    BY <1>1, TrueDriversAre DEF TruePin
  <2> QED BY <2>1, EndReshaped
<1>4. {End(h, p) : p \in TrueDrivers(h, m)} = {End(g, p) : p \in TrueDrivers(g, m)}
  BY <1>2, <1>3
<1>5. h.nets[m].name = g.nets[m].name
  BY <1>1 DEF Reshaped, LiveNet
<1>6. {End(g, p) : p \in TrueDrivers(g, m)} = SourcesOf(d, g.nets[m].name)
  BY <1>1 DEF NetsMean
<1> QED BY <1>4, <1>5, <1>6

(* Every pin stays on its net.                                             *)
NetsStay(g, h) ==
  /\ h.nodes = g.nodes
  /\ \A p \in DOMAIN g.pins : h.pins[p].net = g.pins[p].net /\ h.pins[p].live = g.pins[p].live
  /\ \A m \in DOMAIN g.nets : h.nets[m].live = g.nets[m].live

(* Buffers whose pins stay on their nets stay between the same nets.       *)
LEMMA SameBuffers ==
  ASSUME NEW d \in Designs, NEW g, HookedGraph(g, d), NEW h, NetsStay(g, h)
  PROVE  \A n : /\ LiveBuf(h, n) <=> LiveBuf(g, n)
                /\ LiveBuf(g, n) => NetIn(h, n) = NetIn(g, n) /\ NetOut(h, n) = NetOut(g, n)
<1> SUFFICES ASSUME NEW n
             PROVE  /\ LiveBuf(h, n) <=> LiveBuf(g, n)
                    /\ LiveBuf(g, n) => NetIn(h, n) = NetIn(g, n) /\ NetOut(h, n) = NetOut(g, n)
  OBVIOUS
<1>1. LiveBuf(h, n) <=> LiveBuf(g, n)
  BY DEF LiveBuf, LiveNode, NetsStay
<1>2. ASSUME LiveBuf(g, n)
      PROVE  NetIn(h, n) = NetIn(g, n) /\ NetOut(h, n) = NetOut(g, n)
  <2>1. BufferShape(g, n, g.nodes[n].ins[1], g.nodes[n].outs[1])
    BY <1>2, BufferNets
  <2>2. g.nodes[n].ins[1] \in DOMAIN g.pins /\ g.nodes[n].outs[1] \in DOMAIN g.pins
    BY <2>1 DEF BufferShape, LivePin
  <2> QED BY <2>2 DEF NetsStay, NetIn, NetOut
<1> QED BY <1>1, <1>2

(* What is upstream of a net depends only on the nodes and on the nets of  *)
(* the pins.                                                               *)
LEMMA SameUpstream ==
  ASSUME NEW d \in Designs, NEW g, HookedGraph(g, d), NEW h, HookedGraph(h, d), NetsStay(g, h), NEW m
  PROVE  Upstream(h, m) = Upstream(g, m)
<1>1. \A n : /\ LiveBuf(h, n) <=> LiveBuf(g, n)
             /\ LiveBuf(g, n) => NetIn(h, n) = NetIn(g, n) /\ NetOut(h, n) = NetOut(g, n)
  BY SameBuffers
<1>2. g \in GraphSet /\ h \in GraphSet
  BY DEF HookedGraph
<1> DEFINE u == Upstream(g, m)
           v == Upstream(h, m)
<1>3. m \in u /\ \A n : LiveBuf(g, n) /\ NetOut(g, n) \in u => NetIn(g, n) \in u
  BY <1>2, UpstreamFacts
<1>4. m \in v /\ \A n : LiveBuf(h, n) /\ NetOut(h, n) \in v => NetIn(h, n) \in v
  BY <1>2, UpstreamFacts
<1> HIDE DEF u, v
<1>5. m \in u /\ \A n : LiveBuf(h, n) /\ NetOut(h, n) \in u => NetIn(h, n) \in u
  BY <1>1, <1>3
<1>6. m \in v /\ \A n : LiveBuf(g, n) /\ NetOut(g, n) \in v => NetIn(g, n) \in v
  BY <1>1, <1>4
<1>7. Upstream(h, m) \subseteq u
  BY <1>2, <1>5, UpstreamFacts
<1>8. Upstream(g, m) \subseteq v
  BY <1>2, <1>6, UpstreamFacts
<1> QED BY <1>7, <1>8 DEF u, v

(* If no pin leaves its net, every net keeps its true drivers.             *)
LEMMA SamePins ==
  ASSUME NEW d \in Designs, NEW g, HookedGraph(g, d), NEW h, HookedGraph(h, d), Reshaped(g, h),
         NetsStay(g, h)
  PROVE  PinsStay(g, h)
<1> SUFFICES ASSUME NEW m, LiveNet(h, m)
             PROVE  LiveNet(g, m) /\ \A p : TruePin(h, m, p) <=> TruePin(g, m, p)
  BY DEF PinsStay
<1>1. LiveNet(g, m)
  BY DEF LiveNet, Reshaped, NetsStay
<1>2. Upstream(h, m) = Upstream(g, m)
  BY SameUpstream
<1>3. DOMAIN h.pins = DOMAIN g.pins /\ h.nodes = g.nodes
  BY DEF Reshaped, NetsStay
<1>4. \A p \in DOMAIN g.pins :
        /\ h.pins[p].net = g.pins[p].net /\ h.pins[p].live = g.pins[p].live
        /\ h.pins[p].node = g.pins[p].node /\ h.pins[p].output = g.pins[p].output
  BY DEF Reshaped, NetsStay
<1>5. \A p : TruePin(h, m, p) <=> TruePin(g, m, p)
  <2> SUFFICES ASSUME NEW p PROVE TruePin(h, m, p) <=> TruePin(g, m, p)
    OBVIOUS
  <2>1. CASE p \in DOMAIN g.pins
    BY <1>2, <1>3, <1>4, <2>1 DEF TruePin, LivePin
  <2>2. CASE p \notin DOMAIN g.pins
    BY <1>3, <2>2 DEF TruePin, LivePin
  <2> QED BY <2>1, <2>2
<1> QED BY <1>1, <1>5

(* What is left of the buffers and their nets when buffer n, from net into *)
(* to net other, is gone.                                                  *)
BuffersLeft(g, h, n, into, other) ==
  \A x : LiveBuf(g, x) =>
    /\ x = n => NetIn(g, x) = into /\ NetOut(g, x) = other
    /\ x # n =>
         /\ LiveBuf(h, x) /\ NetOut(h, x) = NetOut(g, x) /\ NetOut(g, x) # other
         /\ NetIn(h, x) = IF NetIn(g, x) = other THEN into ELSE NetIn(g, x)

(* Removing a buffer leaves the others, and those that read its net now    *)
(* read the net it read.                                                   *)
LEMMA GoneBuffers ==
  ASSUME NEW d \in Designs, NEW g, HookedGraph(g, d), Placed(g), NEW h, NEW n, NEW q, NEW o, NEW into, NEW other,
         Removable(g, n, q, o, into, other), BufferGone(g, h, n, q, o, into, other)
  PROVE  /\ BuffersLeft(g, h, n, into, other)
         /\ \A x : LiveBuf(h, x) => LiveBuf(g, x) /\ x # n
<1> DEFINE R == ReadersOf(g, other)
<1>1. ASSUME NEW x, LiveBuf(g, x), x = n
      PROVE  NetIn(g, x) = into /\ NetOut(g, x) = other
  <2>1. g.nodes[n].ins = <<q>> /\ g.nodes[n].outs = <<o>> /\ g.pins[q].net = into /\ g.pins[o].net = other
    BY DEF Removable
  <2>2. g.nodes[n].ins[1] = q /\ g.nodes[n].outs[1] = o
    BY <2>1
  <2> QED BY <1>1, <2>1, <2>2 DEF NetIn, NetOut
<1>2. ASSUME NEW x, LiveBuf(g, x), x # n
      PROVE  /\ LiveBuf(h, x) /\ NetOut(h, x) = NetOut(g, x) /\ NetOut(g, x) # other
             /\ NetIn(h, x) = IF NetIn(g, x) = other THEN into ELSE NetIn(g, x)
  <2> DEFINE i == g.nodes[x].ins[1]
             u == g.nodes[x].outs[1]
  <2>0. x \in DOMAIN g.nodes /\ h.nodes[x] = g.nodes[x] /\ DOMAIN h.nodes = DOMAIN g.nodes
    BY <1>2 DEF BufferGone, LiveBuf, LiveNode
  <2>1. LiveBuf(h, x)
    BY <1>2, <2>0 DEF LiveBuf, LiveNode
  <2>2. BufferShape(g, x, i, u)
    BY <1>2, BufferNets
  <2> HIDE DEF i, u
  <2>3. LivePin(g, i) /\ LivePin(g, u) /\ i \in DOMAIN g.pins /\ u \in DOMAIN g.pins
        /\ ~g.pins[i].output /\ g.pins[u].output /\ g.pins[u].node = x
    BY <2>2 DEF BufferShape, LivePin
  <2>4. g.pins[u].net # other
    <3>1. SUFFICES ASSUME g.pins[u].net = other PROVE FALSE
      OBVIOUS
    <3>2. u \in ToSet(g.nets[other].drivers)
      BY <2>2, <3>1 DEF BufferShape, ToSet
    <3>3. g.nets[other].drivers = <<o>> /\ g.pins[o].node = n
      BY DEF Removable
    <3>4. u = o
      BY <3>2, <3>3 DEF ToSet
    <3> QED BY <1>2, <2>3, <3>3, <3>4
  <2>5. Agree(g) /\ LiveNet(g, other) /\ other # Null
    BY DEF HookedGraph, Removable, LiveNet, Null, GraphSet
  <2>6. u \notin R
    BY <2>3, <2>5, ReadersFacts
  <2>7. h.pins[u].net = g.pins[u].net
    BY <2>3, <2>6 DEF BufferGone
  <2>8. h.pins[i].net = IF g.pins[i].net = other THEN into ELSE g.pins[i].net
    <3>1. CASE i \in R
      <4>1. g.pins[i].net = other
        BY <2>5, <3>1, ReadersFacts
      <4>2. h.pins[i].net = into
        BY <2>3, <3>1 DEF BufferGone
      <4> QED BY <4>1, <4>2
    <3>2. CASE i \notin R
      <4>1. h.pins[i].net = g.pins[i].net
        BY <2>3, <3>2 DEF BufferGone
      <4>2. g.pins[i].net # other
        <5>1. SUFFICES ASSUME g.pins[i].net = other PROVE FALSE
          OBVIOUS
        <5>2. g.pins[i].place \in DOMAIN g.nets[other].fanouts /\ g.nets[other].fanouts[g.pins[i].place] = i
          BY <2>3, <2>5, <5>1 DEF Placed, LivePin
        <5>3. i # Null
          BY <2>3, GraphType DEF HookedGraph, Null
        <5>4. i \in R
          BY <5>2, <5>3 DEF ReadersOf, ToSet
        <5> QED BY <3>2, <5>4
      <4> QED BY <4>1, <4>2
    <3> QED BY <3>1, <3>2
  <2>9. NetIn(g, x) = g.pins[i].net /\ NetOut(g, x) = g.pins[u].net
        /\ NetIn(h, x) = h.pins[i].net /\ NetOut(h, x) = h.pins[u].net
    BY <2>0 DEF NetIn, NetOut, i, u
  <2> QED BY <2>1, <2>4, <2>7, <2>8, <2>9
<1>3. ASSUME NEW x, LiveBuf(h, x)
      PROVE  LiveBuf(g, x) /\ x # n
  <2>1. x # n /\ x \in DOMAIN g.nodes
    BY <1>3 DEF LiveBuf, LiveNode, BufferGone
  <2>2. h.nodes[x] = g.nodes[x]
    BY <2>1 DEF BufferGone
  <2> QED BY <1>3, <2>1, <2>2 DEF LiveBuf, LiveNode
<1> QED BY <1>1, <1>2, <1>3 DEF BuffersLeft

(* Removing a buffer takes only its own net out of what is upstream of     *)
(* another.                                                                *)
LEMMA GoneUpstream ==
  ASSUME NEW d \in Designs, NEW g, HookedGraph(g, d), Placed(g), NEW h, HookedGraph(h, d),
         NEW n, NEW q, NEW o, NEW into, NEW other,
         Removable(g, n, q, o, into, other), BufferGone(g, h, n, q, o, into, other),
         NEW m, LiveNet(h, m)
  PROVE  /\ Upstream(h, m) \subseteq Upstream(g, m)
         /\ Upstream(g, m) \subseteq Upstream(h, m) \cup {other}
<1> DEFINE u == Upstream(g, m)
           w == Upstream(h, m)
           v == w \cup {x \in {other} : into \in w}
<1>1. g \in GraphSet /\ h \in GraphSet
  BY DEF HookedGraph
<1>2. BuffersLeft(g, h, n, into, other) /\ \A x : LiveBuf(h, x) => LiveBuf(g, x) /\ x # n
  BY GoneBuffers
<1>3. m \in u /\ \A x : LiveBuf(g, x) /\ NetOut(g, x) \in u => NetIn(g, x) \in u
  BY <1>1, UpstreamFacts
<1>4. m \in w /\ \A x : LiveBuf(h, x) /\ NetOut(h, x) \in w => NetIn(h, x) \in w
  BY <1>1, UpstreamFacts
<1>5. other \notin w
  <2>1. ~LiveNet(h, other)
    BY DEF BufferGone, LiveNet
  <2> QED BY <2>1, UpstreamLive
<1>6. LiveBuf(g, n)
  BY DEF Removable, LiveBuf
<1> HIDE DEF u, w
<1>7. \A x : LiveBuf(h, x) /\ NetOut(h, x) \in u => NetIn(h, x) \in u
  <2> SUFFICES ASSUME NEW x, LiveBuf(h, x), NetOut(h, x) \in u PROVE NetIn(h, x) \in u
    OBVIOUS
  <2>1. LiveBuf(g, x) /\ NetOut(h, x) = NetOut(g, x)
        /\ NetIn(h, x) = IF NetIn(g, x) = other THEN into ELSE NetIn(g, x)
    BY <1>2 DEF BuffersLeft
  <2>2. NetIn(g, n) = into /\ NetOut(g, n) = other
    BY <1>2, <1>6 DEF BuffersLeft
  <2>3. NetIn(g, x) \in u
    BY <1>3, <2>1
  <2> QED BY <1>3, <1>6, <2>1, <2>2, <2>3
<1>8. \A x : LiveBuf(g, x) /\ NetOut(g, x) \in v => NetIn(g, x) \in v
  <2> SUFFICES ASSUME NEW x, LiveBuf(g, x), NetOut(g, x) \in v PROVE NetIn(g, x) \in v
    OBVIOUS
  <2>1. CASE x = n
    BY <1>2, <1>5, <2>1 DEF BuffersLeft
  <2>2. CASE x # n
    <3>1. LiveBuf(h, x) /\ NetOut(h, x) = NetOut(g, x) /\ NetOut(g, x) # other
          /\ NetIn(h, x) = IF NetIn(g, x) = other THEN into ELSE NetIn(g, x)
      BY <1>2, <2>2 DEF BuffersLeft
    <3>2. NetIn(h, x) \in w
      BY <1>4, <3>1
    <3> QED BY <3>1, <3>2
  <2> QED BY <2>1, <2>2
<1>9. Upstream(h, m) \subseteq u
  BY <1>1, <1>3, <1>7, UpstreamFacts
<1>10. v \subseteq w \cup {other} /\ m \in v
  BY <1>4
<1> HIDE DEF v
<1>11. Upstream(g, m) \subseteq v
  BY <1>1, <1>8, <1>10, UpstreamFacts
<1>12. Upstream(g, m) \subseteq w \cup {other}
  BY <1>10, <1>11
<1> QED BY <1>9, <1>12 DEF u, w

(* Removing a buffer keeps the true drivers of every net that is left.     *)
LEMMA GonePinsStay ==
  ASSUME NEW d \in Designs, NEW g, HookedGraph(g, d), Placed(g), NEW h, HookedGraph(h, d), Reshaped(g, h),
         NEW n, NEW q, NEW o, NEW into, NEW other,
         Removable(g, n, q, o, into, other), BufferGone(g, h, n, q, o, into, other)
  PROVE  PinsStay(g, h)
<1> SUFFICES ASSUME NEW m, LiveNet(h, m)
             PROVE  LiveNet(g, m) /\ \A p : TruePin(h, m, p) <=> TruePin(g, m, p)
  BY DEF PinsStay
<1>1. LiveNet(g, m)
  BY DEF LiveNet, BufferGone
<1>2. Upstream(h, m) \subseteq Upstream(g, m) /\ Upstream(g, m) \subseteq Upstream(h, m) \cup {other}
  BY GoneUpstream
<1>3. Agree(g) /\ LiveNet(g, other) /\ g.nets[other].drivers = <<o>>
      /\ g.pins[o].node = n /\ ~g.pins[q].output /\ g.nodes[n].type = "buf"
  BY DEF HookedGraph, Removable
<1>4. ASSUME NEW p, LivePin(g, p)
      PROVE  g.pins[p].node \in DOMAIN g.nodes
  <2>1. PinOK(g, p)
    BY <1>3, <1>4 DEF Agree, LivePin
  <2> QED BY <2>1 DEF PinOK, OutPinOK, InPinOK, LiveNode
<1>5. \A p \in DOMAIN g.pins :
        /\ h.pins[p].node = g.pins[p].node /\ h.pins[p].output = g.pins[p].output
        /\ h.pins[p].live => g.pins[p].live
        /\ p \notin {q, o} => h.pins[p].live = g.pins[p].live
        /\ g.pins[p].output => h.pins[p].net = g.pins[p].net
  BY ZenonT(60) DEF Reshaped, BufferGone
<1>6. \A x \in DOMAIN g.nodes : h.nodes[x].type = g.nodes[x].type
  BY DEF Reshaped
<1>7. DOMAIN h.pins = DOMAIN g.pins
  BY DEF Reshaped
<1>8. ASSUME NEW p, TruePin(h, m, p)
      PROVE  TruePin(g, m, p)
  <2>1. p \in DOMAIN g.pins /\ LivePin(g, p)
    BY <1>5, <1>7, <1>8 DEF TruePin, LivePin
  <2>2. g.pins[p].node \in DOMAIN g.nodes
    BY <1>4, <2>1
  <2> QED BY <1>2, <1>5, <1>6, <1>8, <2>1, <2>2 DEF TruePin
<1>9. ASSUME NEW p, TruePin(g, m, p)
      PROVE  TruePin(h, m, p)
  <2>1. p \in DOMAIN g.pins /\ LivePin(g, p) /\ g.pins[p].output
    BY <1>9 DEF TruePin, LivePin
  <2>2. g.pins[p].node \in DOMAIN g.nodes
    BY <1>4, <2>1
  <2>3. p # o /\ p # q
    BY <1>3, <1>9 DEF TruePin
  <2>4. g.pins[p].net # other
    <3>1. SUFFICES ASSUME g.pins[p].net = other PROVE FALSE
      OBVIOUS
    <3>2. p \in ToSet(g.nets[other].drivers)
      BY <1>3, <2>1, <3>1, DriversAre
    <3>3. p = o
      BY <1>3, <3>2 DEF ToSet
    <3> QED BY <2>3, <3>3
  <2>5. LivePin(h, p)
    BY <1>5, <1>7, <2>1, <2>3 DEF LivePin
  <2> QED BY <1>2, <1>5, <1>6, <1>9, <2>1, <2>2, <2>4, <2>5 DEF TruePin
<1> QED BY <1>1, <1>8, <1>9

(* Mapping a node keeps what the nets mean.                                *)
LEMMA MappedMeans ==
  ASSUME NEW d \in Designs, HookedGraph(graph, d), Placed(graph), NetsMean(graph, d),
         NEW n, LiveNode(graph, n), ~LoopsBack(n)
  PROVE  NetsMean(PartialMapNode(n), d)
<1>0. graph \in GraphSet /\ Agree(graph) /\ n \in DOMAIN graph.nodes
  BY DEF HookedGraph, LiveNode
<1>1. CASE graph.nodes[n].type = "buf"
  <2> DEFINE q == graph.nodes[n].ins[1]
             o == graph.nodes[n].outs[1]
             into == graph.pins[q].net
             other == graph.pins[o].net
             h == EliminateBuffer(n)
  <2>1. PartialMapNode(n) = h
    BY <1>1 DEF PartialMapNode
  <2>2. ~(InputNet(n) = OutputNet(n) /\ Len(graph.nets[OutputNet(n)].drivers) = 1)
    BY <1>1, Zenon DEF LoopsBack
  <2>3. \/ h = graph
        \/ Removable(graph, n, q, o, into, other) /\ BufferGone(graph, h, n, q, o, into, other)
    BY <1>1, <2>2, BufferEliminated
  <2> HIDE DEF h, q, o, into, other
  <2>4. CASE h = graph
    BY <2>1, <2>4
  <2>5. CASE Removable(graph, n, q, o, into, other) /\ BufferGone(graph, h, n, q, o, into, other)
    <3>1. HookedGraph(h, d) /\ Reshaped(graph, h)
      BY <1>0, <2>5, GoneKeeps
    <3>2. PinsStay(graph, h)
      BY <2>5, <3>1, GonePinsStay
    <3>3. NetsMean(h, d)
      BY <3>1, <3>2, MeanKept
    <3> QED BY <2>1, <3>3
  <2> QED BY <2>3, <2>4, <2>5
<1>2. CASE graph.nodes[n].type = "skip"
  <2> DEFINE h == InstantiateHardBlock(graph, n)
  <2>1. PartialMapNode(n) = h
    BY <1>2 DEF PartialMapNode
  <2>2. Named(graph, h, n)
    BY <1>0, InstantiateNames
  <2> HIDE DEF h
  <2>3. HookedGraph(h, d) /\ Reshaped(graph, h)
    BY <1>0, <1>2, <2>2, NamedKeeps
  <2>4. NetsStay(graph, h)
    BY <2>2 DEF Named, NetsStay
  <2>5. PinsStay(graph, h)
    BY <2>3, <2>4, SamePins
  <2>6. NetsMean(h, d)
    BY <2>3, <2>5, MeanKept
  <2> QED BY <2>1, <2>6
<1>3. CASE graph.nodes[n].type \notin {"buf", "skip"}
  <2>1. PartialMapNode(n) = graph
    BY <1>3 DEF PartialMapNode
  <2> QED BY <2>1
<1> QED BY <1>1, <1>2, <1>3

(* Taking readers off the nets keeps what the nets mean.                   *)
LEMMA TrimmedMeans ==
  ASSUME NEW d \in Designs, NEW g, HookedGraph(g, d), NetsMean(g, d), NEW h, NEW U, Trimmed(g, h, U)
  PROVE  NetsMean(h, d) /\ NetsStay(g, h)
<1>0. g \in GraphSet
  BY DEF HookedGraph
<1>1. HookedGraph(h, d) /\ Reshaped(g, h)
  BY <1>0, TrimmedKeeps
<1>2. NetsStay(g, h)
  BY DEF Trimmed, NetsStay
<1>3. PinsStay(g, h)
  BY <1>1, <1>2, SamePins
<1> QED BY <1>1, <1>2, <1>3, MeanKept

-----------------------------------------------------------------------------
(* After hook_up_nets the buffers join the nets of the connections.        *)
BufferJoins(g, d, n, j) ==
  /\ LiveBuf(g, n)
  /\ g.nets[NetOut(g, n)].name = d.connections[j][1]
  /\ g.nets[NetIn(g, n)].name = d.connections[j][2]

Joined(g, d) ==
  /\ \A n : LiveBuf(g, n) => \E j \in DOMAIN d.connections : BufferJoins(g, d, n, j)
  /\ \A j \in DOMAIN d.connections : \A m \in DOMAIN g.nets :
       g.nets[m].name = d.connections[j][1] => \E n : BufferJoins(g, d, n, j)
  /\ \A m \in DOMAIN g.nets : g.nets[m].live

(* The buffer of a connection lies between the nets of its two bits.       *)
LEMMA BufferNamed ==
  ASSUME NEW d \in Designs, NEW g, HookedGraph(g, d), AsNamed(g), NEW n, LiveBuf(g, n), NEW j,
         BufferFor(g, d, n, j)
  PROVE  BufferJoins(g, d, n, j)
<1> DEFINE q == g.nodes[n].ins[1]
           o == g.nodes[n].outs[1]
           l == d.connections[j][1]
           r == d.connections[j][2]
<1>1. BufferShape(g, n, q, o)
  BY BufferNets
<1>2. g \in GraphSet
  BY DEF HookedGraph
<1> HIDE DEF l, r
<1>3. SlotsAre(g, n, "buf", l, <<r>>, <<l>>)
  <2> DEFINE type == "buf"
             ins == <<r>>
             outs == <<l>>
  <2>1. NodeIs(g, n, type, l, ins, outs)
    BY DEF BufferFor, l, r
  <2> HIDE DEF type, ins, outs
  <2>2. SlotsAre(g, n, type, l, ins, outs)
    BY <1>2, <2>1, NodeSlots
  <2> QED BY <2>2 DEF type, ins, outs
<1>4. g.pins[q].name = <<r, 0>> /\ g.nets[g.pins[o].net].name = l
  <2> DEFINE ins == <<r>>
             outs == <<l>>
  <2>1. Len(ins) = 1 /\ Len(outs) = 1 /\ 1 \in 1 .. 1 /\ ins[1] = r /\ outs[1] = l
    OBVIOUS
  <2>2. SlotsAre(g, n, "buf", l, ins, outs)
    BY <1>3
  <2> HIDE DEF ins, outs
  <2>3. g.pins[g.nodes[n].ins[1]].name = <<ins[1], 0>> /\ g.nets[g.pins[g.nodes[n].outs[1]].net].name = outs[1]
    BY <2>1, <2>2 DEF SlotsAre
  <2> QED BY <2>1, <2>3
<1> HIDE DEF q, o
<1>5. LivePin(g, q) /\ ~g.pins[q].output
  BY <1>1 DEF BufferShape
<1>6. g.nets[g.pins[q].net].name = g.pins[q].name[1]
  BY <1>5 DEF AsNamed, LivePin
<1>7. g.nets[g.pins[q].net].name = r
  BY <1>4, <1>6
<1> QED BY <1>4, <1>7 DEF BufferJoins, NetIn, NetOut, q, o, l, r

(* When the pins are on their nets, the live buffers are the connections   *)
(* of the design.                                                          *)
LEMMA HookUpJoins ==
  ASSUME ImportInv, HookUp, stage' # "refused"
  PROVE  Joined(graph', design)
<1> DEFINE d == design
           h == graph'
           K == Len(d.connections)
           Ins == {p \in DOMAIN graph.pins : ~graph.pins[p].output}
<1>0. d \in Designs /\ ConnectionsInv(graph, d, output_nets, cstr_bits_seen, K)
  BY DEF ImportInv, HookUp
<1>1. Imported(graph, output_nets) /\ Layout(graph, d, Len(d.cells), K)
      /\ BuffersMade(graph, d, output_nets, K)
  BY <1>0 DEF ConnectionsInv
<1>2. /\ Fresh(graph) /\ NamedNets(graph, output_nets) /\ graph \in GraphSet /\ Agree(graph)
  BY <1>1 DEF Imported, Fresh
<1>3. /\ \A n \in ToSet(Unhooked) : \A p \in ToSet(graph.nodes[n].ins) : BitOf(p) \in DOMAIN output_nets
      /\ h = Accumulate(LAMBDA g, n : HookUpNode(g, n), graph, Unhooked)
  BY Zenon DEF HookUp, Refuse
<1>4. PinsHooked(h, Ins)
  BY <1>0, <1>1, <1>3, HookUpAll
<1>5. HookedUp(h, d)
  BY <1>0, HookUpMakes
<1> HIDE DEF h
<1>6. HookedGraph(h, d) /\ AsNamed(h) /\ Layout(h, d, Len(d.cells), K) /\ h \in GraphSet
  BY <1>5 DEF HookedUp, HookedGraph
<1>7. /\ h.nodes = graph.nodes /\ DOMAIN h.nets = DOMAIN graph.nets
      /\ \A m \in DOMAIN graph.nets :
           h.nets[m].name = graph.nets[m].name /\ h.nets[m].live = graph.nets[m].live
  BY <1>4 DEF PinsHooked
<1>8. DOMAIN d.connections = 1 .. K
  BY <1>0, DesignFacts
<1>9. Reshaped(graph, h)
  <2>1. \A n \in DOMAIN graph.nodes : graph.nodes[n].live
    BY <1>2 DEF Fresh
  <2> QED BY <1>4, <1>7, <2>1 DEF Reshaped, PinsHooked
<1>10. ASSUME NEW n, LiveBuf(h, n)
       PROVE  \E j \in DOMAIN d.connections : BufferJoins(h, d, n, j)
  <2>1. \E j \in 1 .. K : BufferFor(h, d, n, j)
    BY <1>0, <1>6, <1>10, BufferIs DEF LiveBuf
  <2> QED BY <1>0, <1>6, <1>8, <1>10, <2>1, BufferNamed
<1>11. ASSUME NEW j \in DOMAIN d.connections, NEW m \in DOMAIN h.nets, h.nets[m].name = d.connections[j][1]
       PROVE  \E n : BufferJoins(h, d, n, j)
  <2>1. d.connections[j][1] \in DOMAIN output_nets
    BY <1>2, <1>7, <1>11 DEF NamedNets
  <2>2. PICK n \in DOMAIN graph.nodes : BufferFor(graph, d, n, j)
    BY <1>1, <1>8, <2>1 DEF BuffersMade
  <2>3. h.nodes[n].live /\ graph.nodes[n].live
    BY <1>2, <1>7 DEF Fresh
  <2>4. BufferFor(h, d, n, j)
    <3> DEFINE type == "buf"
               name == d.connections[j][1]
               ins == <<d.connections[j][2]>>
               outs == <<d.connections[j][1]>>
    <3>1. NodeIs(graph, n, type, name, ins, outs)
      BY <2>2 DEF BufferFor
    <3> HIDE DEF type, name, ins, outs
    <3>2. NodeIs(h, n, type, name, ins, outs)
      BY <1>2, <1>9, <2>3, <3>1, NodeIsReshaped
    <3> QED BY <3>2 DEF BufferFor, type, name, ins, outs
  <2>5. LiveBuf(h, n)
    <3>1. h.nodes[n].type = "buf"
      BY <2>4 DEF BufferFor, NodeIs, NodeHas
    <3> QED BY <1>7, <2>3, <3>1 DEF LiveBuf, LiveNode
  <2> QED BY <1>0, <1>6, <2>4, <2>5, BufferNamed
<1>12. \A m \in DOMAIN h.nets : h.nets[m].live
  BY <1>2, <1>7 DEF Fresh
<1>13. Joined(h, d)
  BY <1>10, <1>11, <1>12 DEF Joined
<1> QED BY <1>13 DEF h

(* Pin p of a node that is no buffer drives bit x from end e.              *)
PinGives(g, p, e, x) ==
  /\ LivePin(g, p) /\ g.pins[p].output /\ g.nodes[g.pins[p].node].type # "buf"
  /\ End(g, p) = e /\ g.nets[g.pins[p].net].name = x

(* The output pin in a slot gives the bit the slot was made for.           *)
LEMMA SlotGives ==
  ASSUME NEW g \in GraphSet, Agree(g), NEW n, LiveNode(g, n), NEW type, type # "buf", NEW name, NEW ins, NEW outs,
         NodeIs(g, n, type, name, ins, outs), NEW i \in 1 .. Len(outs)
  PROVE  PinGives(g, g.nodes[n].outs[i], <<name, i>>, outs[i])
<1>1. SlotsAre(g, n, type, name, ins, outs)
  BY NodeSlots
<1>2. /\ g.nodes[n].type = type /\ g.nodes[n].name = name /\ i \in DOMAIN g.nodes[n].outs
      /\ g.nets[g.pins[g.nodes[n].outs[i]].net].name = outs[i]
  BY <1>1 DEF SlotsAre
<1>3. OutSlotOK(g, n, i)
  BY <1>2 DEF Agree, NodeOK, LiveNode
<1> QED BY <1>2, <1>3 DEF PinGives, OutSlotOK, End

(* Whatever gives a bit in the design is an output pin on the net of that  *)
(* bit.                                                                    *)
LEMMA GivesPin ==
  ASSUME NEW d \in Designs, NEW g, HookedGraph(g, d), NEW e, NEW x, Gives(d, e, x)
  PROVE  \E p : PinGives(g, p, e, x)
<1>0. g \in GraphSet /\ Agree(g) /\ Layout(g, d, Len(d.cells), Len(d.connections))
  BY DEF HookedGraph
<1>1. CASE x \in ToSet(d.inputs) \cup Constants3 /\ e = <<x, 1>>
  <2>1. x \in ToSet(SourceBits(d))
    BY <1>1, SourceBitsAre
  <2>2. PICK i \in DOMAIN SourceBits(d) : SourceBits(d)[i] = x
    BY <2>1 DEF ToSet
  <2>3. i \in 1 .. SourceCount(d)
    BY DesignFacts
  <2>4. SourceHas(g, d, i)
    BY <1>0, <2>3 DEF Layout
  <2> DEFINE type == SourceType(x)
             ins == <<>>
             outs == <<x>>
  <2>5. NodeIs(g, i, type, x, ins, outs) /\ g.nodes[i].live
    BY <2>2, <2>4 DEF SourceHas
  <2>6. type # "buf"
    BY DEF SourceType
  <2>7. 1 \in 1 .. Len(outs) /\ outs[1] = x
    OBVIOUS
  <2>8. i \in DOMAIN g.nodes
    BY <2>5 DEF NodeIs, NodeHas
  <2> HIDE DEF type, ins, outs
  <2>9. PinGives(g, g.nodes[i].outs[1], <<x, 1>>, outs[1])
    BY <1>0, <2>5, <2>6, <2>7, <2>8, SlotGives DEF LiveNode
  <2> QED BY <1>1, <2>7, <2>9
<1>2. CASE \E c \in DOMAIN d.cells : \E i \in DOMAIN d.cells[c].outs :
             d.cells[c].outs[i] = x /\ e = <<d.cells[c].name, i>>
  <2>0. PICK c \in DOMAIN d.cells : \E i \in DOMAIN d.cells[c].outs :
             d.cells[c].outs[i] = x /\ e = <<d.cells[c].name, i>>
    BY <1>2
  <2>1. PICK i \in DOMAIN d.cells[c].outs :
             d.cells[c].outs[i] = x /\ e = <<d.cells[c].name, i>>
    BY <2>0
  <2>2. c \in 1 .. Len(d.cells) /\ d.cells[c].outs \in Seq(Names)
    BY CellFacts
  <2>3. CellHas(g, d, c)
    BY <1>0, <2>2 DEF Layout
  <2> DEFINE type == "skip"
             name == d.cells[c].name
             ins == d.cells[c].ins
             outs == d.cells[c].outs
             n == Before(d) + c
  <2>4. NodeIs(g, n, type, name, ins, outs) /\ g.nodes[n].live
    BY <2>3 DEF CellHas
  <2>5. i \in 1 .. Len(outs)
    BY <2>2
  <2>6. type # "buf"
    OBVIOUS
  <2>7. n \in DOMAIN g.nodes
    BY <2>4 DEF NodeIs, NodeHas
  <2>8. outs[i] = x /\ e = <<name, i>>
    BY <2>1
  <2> HIDE DEF type, name, ins, outs, n
  <2>9. PinGives(g, g.nodes[n].outs[i], <<name, i>>, outs[i])
    BY <1>0, <2>4, <2>5, <2>6, <2>7, SlotGives DEF LiveNode
  <2> QED BY <2>8, <2>9
<1> QED BY <1>1, <1>2 DEF Gives

(* A pin that is no buffer's gives its end to the bit of its net.          *)
LEMMA TruePinGives ==
  ASSUME NEW d \in Designs, NEW g, HookedGraph(g, d), NEW p, LivePin(g, p), g.pins[p].output,
         g.nodes[g.pins[p].node].type # "buf"
  PROVE  /\ FromSource(g, d, p, g.nets[g.pins[p].net].name) \/ FromCell(g, d, p, g.nets[g.pins[p].net].name)
         /\ Gives(d, End(g, p), g.nets[g.pins[p].net].name)
<1> DEFINE a == g.nets[g.pins[p].net].name
<1>1. FromSource(g, d, p, a) \/ FromCell(g, d, p, a) \/ FromBuffer(g, d, p, a)
  BY DriverKinds
<1> HIDE DEF a
<1>2. ~FromBuffer(g, d, p, a)
  BY DEF FromBuffer
<1>3. Gives(d, End(g, p), a)
  BY <1>1, <1>2, EndGives
<1> QED BY <1>1, <1>2, <1>3 DEF a

(* A netlist whose buffers are the connections of the design gives each    *)
(* net the sources the design gives its bit.                               *)
LEMMA JoinedMeans ==
  ASSUME NEW d \in Designs, NEW g, HookedGraph(g, d), Joined(g, d)
  PROVE  NetsMean(g, d)
<1> SUFFICES ASSUME NEW m, LiveNet(g, m)
             PROVE  {End(g, p) : p \in TrueDrivers(g, m)} = SourcesOf(d, g.nets[m].name)
  BY DEF NetsMean
<1> DEFINE b == g.nets[m].name
           u == Upstream(g, m)
           up == UpstreamBits(d, b)
<1>0. g \in GraphSet /\ Agree(g) /\ NetNamesDiffer(g) /\ m \in DOMAIN g.nets
  BY DEF HookedGraph, LiveNet
<1>1. m \in u /\ \A n : LiveBuf(g, n) /\ NetOut(g, n) \in u => NetIn(g, n) \in u
  BY <1>0, UpstreamFacts
<1>2. \A k \in u : LiveNet(g, k)
  BY UpstreamLive
<1>3. \A p : p \in TrueDrivers(g, m) <=> TruePin(g, m, p)
  BY TrueDriversAre
<1>4. \A e : e \in SourcesOf(d, b) <=> \E x \in up : Gives(d, e, x)
  BY SourcesAre
<1>5. b \in up /\ \A j \in DOMAIN d.connections :
        d.connections[j][1] \in up => d.connections[j][2] \in up
  BY UpFacts
<1> HIDE DEF u, up
<1>6. \A k \in u : g.nets[k].name \in up
  <2> DEFINE v == {k \in DOMAIN g.nets : g.nets[k].name \in up}
  <2>1. m \in v
    BY <1>0, <1>5
  <2>2. \A n : LiveBuf(g, n) /\ NetOut(g, n) \in v => NetIn(g, n) \in v
    <3> SUFFICES ASSUME NEW n, LiveBuf(g, n), NetOut(g, n) \in v PROVE NetIn(g, n) \in v
      OBVIOUS
    <3>1. PICK j \in DOMAIN d.connections : BufferJoins(g, d, n, j)
      BY DEF Joined
    <3>2. NetIn(g, n) \in DOMAIN g.nets
      BY BufferNets DEF LiveNet
    <3> QED BY <1>5, <3>1, <3>2 DEF BufferJoins
  <2> HIDE DEF v
  <2>3. u \subseteq v
    BY <1>0, <2>1, <2>2, UpstreamFacts DEF u
  <2> QED BY <2>3 DEF v
<1>7. \A x \in up : \E k \in u : g.nets[k].name = x
  <2> DEFINE w == {g.nets[k].name : k \in u}
  <2>1. b \in w
    BY <1>1
  <2>2. \A j \in DOMAIN d.connections : d.connections[j][1] \in w => d.connections[j][2] \in w
    <3> SUFFICES ASSUME NEW j \in DOMAIN d.connections, d.connections[j][1] \in w
                 PROVE  d.connections[j][2] \in w
      OBVIOUS
    <3>1. PICK k \in u : g.nets[k].name = d.connections[j][1]
      OBVIOUS
    <3>2. k \in DOMAIN g.nets
      BY <1>2 DEF LiveNet
    <3>3. PICK n : BufferJoins(g, d, n, j)
      BY <3>1, <3>2 DEF Joined
    <3>4. LiveBuf(g, n) /\ NetOut(g, n) \in DOMAIN g.nets /\ g.nets[NetOut(g, n)].name = g.nets[k].name
      BY <3>1, <3>3, BufferNets DEF BufferJoins, LiveNet
    <3>5. NetOut(g, n) = k
      BY <1>0, <3>2, <3>4 DEF NetNamesDiffer
    <3>6. NetIn(g, n) \in u
      BY <1>1, <3>4, <3>5
    <3> QED BY <3>3, <3>6 DEF BufferJoins
  <2> HIDE DEF w, b
  <2>3. up \subseteq w
    BY <2>1, <2>2, UpFacts DEF up
  <2> QED BY <2>3 DEF w
<1>8. ASSUME NEW p, TruePin(g, m, p)
      PROVE  End(g, p) \in SourcesOf(d, b)
  <2>1. LivePin(g, p) /\ g.pins[p].output /\ g.pins[p].net \in u /\ g.nodes[g.pins[p].node].type # "buf"
    BY <1>8 DEF TruePin, u
  <2>2. Gives(d, End(g, p), g.nets[g.pins[p].net].name)
    BY <2>1, TruePinGives
  <2> QED BY <1>4, <1>6, <2>1, <2>2
<1>9. ASSUME NEW e \in SourcesOf(d, b)
      PROVE  \E p : TruePin(g, m, p) /\ End(g, p) = e
  <2>1. PICK x \in up : Gives(d, e, x)
    BY <1>4
  <2>2. PICK k \in u : g.nets[k].name = x
    BY <1>7
  <2>3. PICK p : PinGives(g, p, e, x)
    BY <2>1, GivesPin
  <2>4. LivePin(g, p) /\ g.pins[p].output /\ g.nodes[g.pins[p].node].type # "buf"
        /\ End(g, p) = e /\ g.nets[g.pins[p].net].name = x
    BY <2>3 DEF PinGives
  <2>5. LiveNet(g, g.pins[p].net)
    BY <1>0, <2>4 DEF Agree, LivePin, PinOK, OutPinOK
  <2>6. g.pins[p].net = k
    BY <1>0, <1>2, <2>2, <2>4, <2>5 DEF NetNamesDiffer, LiveNet
  <2> QED BY <2>4, <2>6 DEF TruePin, u
<1> HIDE DEF b
<1>10. {End(g, p) : p \in TrueDrivers(g, m)} = SourcesOf(d, b)
  BY <1>3, <1>8, <1>9
<1> QED BY <1>10 DEF b

(* After hook_up_nets every net means what its bit means in the design.    *)
LEMMA HookUpMeans ==
  ASSUME GraphInv, HookUp, stage' # "refused"
  PROVE  NetsMean(graph', design')
<1>1. ImportInv /\ design \in Designs /\ design' = design
  BY DEF GraphInv, ImportInv, HookUp
<1>2. HookedUp(graph', design) /\ Joined(graph', design)
  BY <1>1, HookUpMakes, HookUpJoins
<1> DEFINE h == graph'
<1> HIDE DEF h
<1>3. HookedGraph(h, design) /\ Joined(h, design)
  BY <1>2 DEF HookedUp, h
<1>4. NetsMean(h, design)
  BY <1>1, <1>3, JoinedMeans
<1> QED BY <1>1, <1>4 DEF h

(* Input t of the design reads bit b.                                      *)
Reads(d, t, b) ==
  \/ \E i \in DOMAIN d.outputs : t = <<d.outputs[i], 1>> /\ b = d.outputs[i]
  \/ \E c \in DOMAIN d.cells : \E i \in DOMAIN d.cells[c].ins :
       t = <<d.cells[c].name, i>> /\ b = d.cells[c].ins[i]

(* The links of the design, one by one: a reader, the bit it reads and a   *)
(* source of that bit.                                                     *)
LEMMA DesignLinksAre ==
  ASSUME NEW d
  PROVE  \A l : l \in DesignLinks(d) <=>
           \E t, b : Reads(d, t, b) /\ \E e \in SourcesOf(d, b) : l = <<e, t>>
<1> DEFINE S(b) == SourcesOf(d, b)
           D == DesignLinks(d)
<1>1. D = (UNION {UNION {{<<s, <<c.name, i>>>> : s \in S(c.ins[i])} :
                   i \in DOMAIN c.ins} : c \in ToSet(d.cells)}) \cup
          UNION {{<<s, <<o, 1>>>> : s \in S(o)} : o \in ToSet(d.outputs)}
  BY DEF DesignLinks
<1> HIDE DEF S, D
<1>2. \A l : l \in D <=>
        \/ \E c \in ToSet(d.cells) : \E i \in DOMAIN c.ins : \E e \in S(c.ins[i]) : l = <<e, <<c.name, i>>>>
        \/ \E o \in ToSet(d.outputs) : \E e \in S(o) : l = <<e, <<o, 1>>>>
  BY <1>1
<1>3. \A l : l \in D <=>
        \/ \E k \in DOMAIN d.cells : \E i \in DOMAIN d.cells[k].ins : \E e \in S(d.cells[k].ins[i]) :
             l = <<e, <<d.cells[k].name, i>>>>
        \/ \E i \in DOMAIN d.outputs : \E e \in S(d.outputs[i]) : l = <<e, <<d.outputs[i], 1>>>>
  BY <1>2 DEF ToSet
<1>4. \A l : l \in D <=> \E t, b : Reads(d, t, b) /\ \E e \in S(b) : l = <<e, t>>
  BY <1>3 DEF Reads
<1> QED BY <1>4 DEF S, D

(* Input pin q of a node that is no buffer reads bit b as input t.         *)
Reading(g, q) == LivePin(g, q) /\ ~g.pins[q].output /\ g.nodes[g.pins[q].node].type # "buf"

PinReads(g, q, t, b) == Reading(g, q) /\ End(g, q) = t /\ g.pins[q].name[1] = b

(* The input pin in a slot reads the bit the slot was made for.            *)
LEMMA SlotReads ==
  ASSUME NEW g \in GraphSet, Agree(g), NEW n, LiveNode(g, n), NEW type, type # "buf", NEW name, NEW ins, NEW outs,
         NodeIs(g, n, type, name, ins, outs), NEW i \in 1 .. Len(ins)
  PROVE  PinReads(g, g.nodes[n].ins[i], <<name, i>>, ins[i])
<1>1. SlotsAre(g, n, type, name, ins, outs)
  BY NodeSlots
<1>2. /\ g.nodes[n].type = type /\ g.nodes[n].name = name /\ i \in DOMAIN g.nodes[n].ins
      /\ g.pins[g.nodes[n].ins[i]].name = <<ins[i], 0>>
  BY <1>1 DEF SlotsAre
<1>3. InSlotOK(g, n, i)
  BY <1>2 DEF Agree, NodeOK, LiveNode
<1> DEFINE x == ins[i]
<1>4. <<x, 0>>[1] = x
  OBVIOUS
<1>5. g.pins[g.nodes[n].ins[i]].name[1] = x
  BY <1>2, <1>4
<1> HIDE DEF x
<1>6. PinReads(g, g.nodes[n].ins[i], <<name, i>>, x)
  BY <1>2, <1>3, <1>5 DEF PinReads, Reading, InSlotOK, End
<1> QED BY <1>6 DEF x

(* Whatever reads a bit in the design is an input pin with the name of     *)
(* that bit.                                                               *)
LEMMA ReadsPin ==
  ASSUME NEW d \in Designs, NEW g, HookedGraph(g, d), NEW t, NEW b, Reads(d, t, b)
  PROVE  \E q : PinReads(g, q, t, b)
<1>0. g \in GraphSet /\ Agree(g) /\ Layout(g, d, Len(d.cells), Len(d.connections))
  BY DEF HookedGraph
<1>1. ASSUME NEW i \in DOMAIN d.outputs, t = <<d.outputs[i], 1>>, b = d.outputs[i]
      PROVE  \E q : PinReads(g, q, t, b)
  <2>1. i \in 1 .. Len(d.outputs)
    BY DesignFacts
  <2>2. OutputHas(g, d, i)
    BY <1>0, <2>1 DEF Layout
  <2> DEFINE type == "output"
             o == d.outputs[i]
             ins == <<o>>
             outs == <<>>
             n == SourceCount(d) + i
  <2>3. NodeIs(g, n, type, o, ins, outs) /\ g.nodes[n].live
    BY <2>2 DEF OutputHas
  <2>4. type # "buf" /\ 1 \in 1 .. Len(ins) /\ ins[1] = o
    OBVIOUS
  <2>5. n \in DOMAIN g.nodes
    BY <2>3 DEF NodeIs, NodeHas
  <2>6. t = <<o, 1>> /\ b = o
    BY <1>1
  <2> HIDE DEF type, o, ins, outs, n
  <2>7. PinReads(g, g.nodes[n].ins[1], <<o, 1>>, ins[1])
    BY <1>0, <2>3, <2>4, <2>5, SlotReads DEF LiveNode
  <2> QED BY <2>4, <2>6, <2>7
<1>2. ASSUME NEW c \in DOMAIN d.cells, NEW i \in DOMAIN d.cells[c].ins,
             t = <<d.cells[c].name, i>>, b = d.cells[c].ins[i]
      PROVE  \E q : PinReads(g, q, t, b)
  <2>1. c \in 1 .. Len(d.cells) /\ d.cells[c].ins \in Seq(Names)
    BY CellFacts
  <2>2. CellHas(g, d, c)
    BY <1>0, <2>1 DEF Layout
  <2> DEFINE type == "skip"
             name == d.cells[c].name
             ins == d.cells[c].ins
             outs == d.cells[c].outs
             n == Before(d) + c
  <2>3. NodeIs(g, n, type, name, ins, outs) /\ g.nodes[n].live
    BY <2>2 DEF CellHas
  <2>4. type # "buf" /\ i \in 1 .. Len(ins)
    BY <2>1
  <2>5. n \in DOMAIN g.nodes
    BY <2>3 DEF NodeIs, NodeHas
  <2>6. t = <<name, i>> /\ b = ins[i]
    BY <1>2
  <2> HIDE DEF type, name, ins, outs, n
  <2>7. PinReads(g, g.nodes[n].ins[i], <<name, i>>, ins[i])
    BY <1>0, <2>3, <2>4, <2>5, SlotReads DEF LiveNode
  <2> QED BY <2>6, <2>7
<1> QED BY <1>1, <1>2 DEF Reads

(* The node and the net of a live pin are live.                            *)
LEMMA PinNode ==
  ASSUME NEW d \in Designs, NEW g, HookedGraph(g, d), NEW q, LivePin(g, q)
  PROVE  /\ g.pins[q].node \in DOMAIN g.nodes /\ LiveNode(g, g.pins[q].node)
         /\ LiveNet(g, g.pins[q].net)
<1>1. PinOK(g, q)
  BY DEF HookedGraph, Agree, LivePin
<1>2. CASE g.pins[q].output
  BY <1>1, <1>2 DEF PinOK, OutPinOK, LiveNode
<1>3. CASE ~g.pins[q].output
  BY <1>1, <1>3, ReadNet DEF PinOK, InPinOK, LiveNode
<1> QED BY <1>2, <1>3

(* Where a reader is, and what it reads.                                   *)
LEMMA ReadingIs ==
  ASSUME NEW d \in Designs, NEW g, HookedGraph(g, d), NEW q, Reading(g, q)
  PROVE  /\ ToOutput(g, d, q, g.pins[q].name[1]) \/ ToCell(g, d, q, g.pins[q].name[1])
         /\ Reads(d, End(g, q), g.pins[q].name[1])
<1> DEFINE b == g.pins[q].name[1]
           n == g.pins[q].node
<1>0. g \in GraphSet /\ Agree(g)
  BY DEF HookedGraph
<1>1. LivePin(g, q) /\ ~g.pins[q].output /\ g.nodes[g.pins[q].node].type # "buf"
  BY DEF Reading
<1>2. LiveNode(g, n)
  BY <1>1, PinNode
<1>3. IsSource(g, d, n) \/ IsOutput(g, d, n) \/ IsCell(g, d, n) \/ IsBuffer(g, d, n)
  BY <1>2, NodeKinds
<1>4. ToOutput(g, d, q, b) \/ ToCell(g, d, q, b) \/ ToBuffer(g, d, q, b)
  BY <1>0, <1>1, <1>3, ReaderKinds
<1> HIDE DEF b
<1>5. ToOutput(g, d, q, b) \/ ToCell(g, d, q, b)
  BY <1>1, <1>4 DEF ToBuffer
<1>6. Reads(d, End(g, q), b)
  BY <1>5 DEF ToOutput, ToCell, Reads, End
<1> QED BY <1>5, <1>6 DEF b

(* The links of the netlist, one by one: a net, a true driver of it and a  *)
(* reader in its list.                                                     *)
LEMMA GraphLinksAre ==
  ASSUME NEW d \in Designs, NEW g, HookedGraph(g, d)
  PROVE  \A l : l \in GraphLinks(g) <=>
           \E m, p, q : /\ LiveNet(g, m) /\ p \in TrueDrivers(g, m)
                        /\ q \in ToSet(g.nets[m].fanouts) /\ q # Null
                        /\ g.nodes[g.pins[q].node].type # "buf"
                        /\ l = <<End(g, p), End(g, q)>>
<1> DEFINE T(m) == TrueDrivers(g, m)
           e(p) == End(g, p)
           D == GraphLinks(g)
           R(m) == {q \in ToSet(g.nets[m].fanouts) \ {Null} : g.nodes[g.pins[q].node].type # "buf"}
<1>1. D = UNION {{<<e(p), e(q)>> : p \in T(m), q \in R(m)} : m \in {m \in DOMAIN g.nets : g.nets[m].live}}
  BY DEF GraphLinks
<1>2. \A m : \A q : q \in R(m) <=> q \in ToSet(g.nets[m].fanouts) /\ q # Null
                                     /\ g.nodes[g.pins[q].node].type # "buf"
  OBVIOUS
<1> HIDE DEF T, e, D, R
<1>3. \A l : l \in D <=> \E m \in {m \in DOMAIN g.nets : g.nets[m].live} :
                            \E p \in T(m), q \in R(m) : l = <<e(p), e(q)>>
  BY <1>1
<1>4. \A l : l \in D <=>
           \E m, p, q : /\ LiveNet(g, m) /\ p \in T(m)
                        /\ q \in ToSet(g.nets[m].fanouts) /\ q # Null
                        /\ g.nodes[g.pins[q].node].type # "buf"
                        /\ l = <<e(p), e(q)>>
  BY <1>2, <1>3 DEF LiveNet
<1> QED BY <1>4 DEF T, e, D

(* The readers on the list of some net.                                    *)
LEMMA ListedReaders ==
  ASSUME NEW d \in Designs, NEW g, HookedGraph(g, d), NEW U, Listed(g, U)
  PROVE  /\ \A m, q : LiveNet(g, m) /\ q \in ToSet(g.nets[m].fanouts) /\ q # Null
              => LivePin(g, q) /\ ~g.pins[q].output /\ g.pins[q].net = m /\ g.pins[q].node \notin U
         /\ \A q : LivePin(g, q) /\ ~g.pins[q].output /\ g.pins[q].node \notin U
              => LiveNet(g, g.pins[q].net) /\ q \in ToSet(g.nets[g.pins[q].net].fanouts) /\ q # Null
<1>0. g \in GraphSet /\ Agree(g)
  BY DEF HookedGraph
<1>1. ASSUME NEW m, NEW q, LiveNet(g, m), q \in ToSet(g.nets[m].fanouts), q # Null
      PROVE  LivePin(g, q) /\ ~g.pins[q].output /\ g.pins[q].net = m /\ g.pins[q].node \notin U
  <2>1. PICK k \in DOMAIN g.nets[m].fanouts : g.nets[m].fanouts[k] = q
    BY <1>1 DEF ToSet
  <2>2. FanoutOK(g, m, k)
    BY <1>0, <1>1 DEF Agree, NetOK, LiveNet
  <2>3. g.pins[q].node \notin U
    BY <1>1, <2>1 DEF Listed
  <2> QED BY <1>1, <2>1, <2>2, <2>3 DEF FanoutOK
<1>2. ASSUME NEW q, LivePin(g, q), ~g.pins[q].output, g.pins[q].node \notin U
      PROVE  LiveNet(g, g.pins[q].net) /\ q \in ToSet(g.nets[g.pins[q].net].fanouts) /\ q # Null
  <2>1. AtPlace(g, q)
    BY <1>2 DEF Listed
  <2>2. q # Null
    BY <1>0, <1>2, GraphType DEF LivePin, Null
  <2>3. LiveNet(g, g.pins[q].net)
    BY <1>2, PinNode
  <2> QED BY <2>1, <2>2, <2>3 DEF AtPlace, ToSet
<1> QED BY <1>1, <1>2

(* The true drivers of the net a pin reads are the sources of the bit it   *)
(* was made for.                                                           *)
LEMMA ReaderSources ==
  ASSUME NEW d \in Designs, NEW g, HookedGraph(g, d), NetsMean(g, d), SameSources(g, d),
         NEW q, LivePin(g, q), ~g.pins[q].output
  PROVE  {End(g, p) : p \in TrueDrivers(g, g.pins[q].net)} = SourcesOf(d, g.pins[q].name[1])
<1>1. LiveNet(g, g.pins[q].net)
  BY PinNode
<1>2. {End(g, p) : p \in TrueDrivers(g, g.pins[q].net)} = SourcesOf(d, g.nets[g.pins[q].net].name)
  BY <1>1 DEF NetsMean
<1>3. MeansTheSame(g, d, q)
  BY SameSourcesIs DEF LivePin
<1> QED BY <1>2, <1>3 DEF MeansTheSame

(* K has the names of the readers that are on the lists.                   *)
KeepsNames(g, U, K) ==
  \A q : Reading(g, q) => (g.pins[q].node \notin U <=> End(g, q)[1] \in K)

(* If the lists of the nets hold all readers but those of some nodes, the  *)
(* netlist has the links of the design into the other nodes.               *)
LEMMA LinksAre ==
  ASSUME NEW d \in Designs, NEW g, HookedGraph(g, d), NetsMean(g, d), SameSources(g, d),
         NEW U, Listed(g, U), NEW K, KeepsNames(g, U, K)
  PROVE  GraphLinks(g) = {l \in DesignLinks(d) : l[2][1] \in K}
<1> DEFINE S(b) == SourcesOf(d, b)
<1>1. ASSUME NEW l \in GraphLinks(g)
      PROVE  l \in DesignLinks(d) /\ l[2][1] \in K
  <2>1. PICK m, p, q : /\ LiveNet(g, m) /\ p \in TrueDrivers(g, m)
                       /\ q \in ToSet(g.nets[m].fanouts) /\ q # Null
                       /\ g.nodes[g.pins[q].node].type # "buf"
                       /\ l = <<End(g, p), End(g, q)>>
    BY GraphLinksAre
  <2>2. LivePin(g, q) /\ ~g.pins[q].output /\ g.pins[q].net = m /\ g.pins[q].node \notin U
    BY <2>1, ListedReaders
  <2>3. Reading(g, q)
    BY <2>1, <2>2 DEF Reading
  <2> DEFINE b == g.pins[q].name[1]
             e == End(g, p)
             t == End(g, q)
  <2>4. Reads(d, t, b)
    BY <2>3, ReadingIs
  <2>5. e \in S(b)
    BY <2>1, <2>2, ReaderSources
  <2>6. l = <<e, t>>
    BY <2>1
  <2>7. t[1] \in K
    BY <2>2, <2>3 DEF KeepsNames
  <2> HIDE DEF b, e, t, S
  <2>8. l[2] = t
    BY <2>6
  <2>9. l \in DesignLinks(d)
    BY <2>4, <2>5, <2>6, DesignLinksAre DEF S
  <2> QED BY <2>7, <2>8, <2>9
<1>2. ASSUME NEW l \in DesignLinks(d), l[2][1] \in K
      PROVE  l \in GraphLinks(g)
  <2>1. PICK t, b : Reads(d, t, b) /\ \E e \in S(b) : l = <<e, t>>
    BY DesignLinksAre
  <2>2. PICK e \in S(b) : l = <<e, t>>
    BY <2>1
  <2> HIDE DEF S
  <2>3. l[2] = t
    BY <2>2
  <2>4. PICK q : PinReads(g, q, t, b)
    BY <2>1, ReadsPin
  <2>5. Reading(g, q) /\ End(g, q) = t /\ g.pins[q].name[1] = b
    BY <2>4 DEF PinReads
  <2>6. g.pins[q].node \notin U
    BY <1>2, <2>3, <2>5 DEF KeepsNames
  <2>7. LivePin(g, q) /\ ~g.pins[q].output /\ g.nodes[g.pins[q].node].type # "buf"
    BY <2>5 DEF Reading
  <2> DEFINE m == g.pins[q].net
  <2>8. LiveNet(g, m) /\ q \in ToSet(g.nets[m].fanouts) /\ q # Null
    BY <2>6, <2>7, ListedReaders
  <2>9. {End(g, p) : p \in TrueDrivers(g, m)} = S(b)
    BY <2>5, <2>7, ReaderSources DEF S
  <2> HIDE DEF m
  <2>10. PICK p \in TrueDrivers(g, m) : End(g, p) = e
    BY <2>2, <2>9
  <2>11. l = <<End(g, p), End(g, q)>>
    BY <2>2, <2>5, <2>10
  <2> QED BY <2>7, <2>8, <2>10, <2>11, GraphLinksAre
<1> QED BY <1>1, <1>2

(* As long as every reader is at its place.                                *)
LEMMA AllLinks ==
  ASSUME NEW d \in Designs, NEW g, HookedGraph(g, d), NetsMean(g, d), SameSources(g, d), Placed(g)
  PROVE  GraphLinks(g) = DesignLinks(d)
<1> DEFINE K == {End(g, q)[1] : q \in DOMAIN g.pins}
<1>0. g \in GraphSet
  BY DEF HookedGraph
<1>1. Listed(g, {})
  <2> SUFFICES ASSUME NEW q, LivePin(g, q), ~g.pins[q].output
               PROVE  AtPlace(g, q)
    BY DEF Listed
  <2>1. LiveNet(g, g.pins[q].net)
    BY PinNode
  <2>2. g.pins[q].net # Null
    BY <1>0, <2>1, GraphType DEF LiveNet, Null
  <2> QED BY <2>2 DEF Placed, LivePin, AtPlace
<1>2. KeepsNames(g, {}, K)
  BY DEF KeepsNames, Reading, LivePin
<1>3. GraphLinks(g) = {l \in DesignLinks(d) : l[2][1] \in K}
  <2> HIDE DEF K
  <2> QED BY <1>1, <1>2, LinksAre
<1>4. ASSUME NEW l \in DesignLinks(d)
      PROVE  l[2][1] \in K
  <2>1. PICK t, b : Reads(d, t, b) /\ \E e \in SourcesOf(d, b) : l = <<e, t>>
    BY DesignLinksAre
  <2>2. PICK e : l = <<e, t>>
    BY <2>1
  <2>3. l[2] = t
    BY <2>2
  <2>4. PICK q : PinReads(g, q, t, b)
    BY <2>1, ReadsPin
  <2>5. q \in DOMAIN g.pins /\ End(g, q) = t
    BY <2>4 DEF PinReads, Reading, LivePin
  <2> QED BY <2>3, <2>5
<1> QED BY <1>3, <1>4

(* Pin q reads what pin p drives, through buffers or not.                  *)
Linked(g, p, q) == Reading(g, q) /\ p \in TrueDrivers(g, g.pins[q].net)

NodeName(g, p) == g.nodes[g.pins[p].node].name

(* The links of the design are the pairs of a reading pin and a true       *)
(* driver of its net.                                                      *)
LEMMA LinkPins ==
  ASSUME NEW d \in Designs, NEW g, HookedGraph(g, d), NetsMean(g, d), SameSources(g, d)
  PROVE  \A l : l \in DesignLinks(d) <=> \E p, q : Linked(g, p, q) /\ l = <<End(g, p), End(g, q)>>
<1> DEFINE S(b) == SourcesOf(d, b)
<1>1. ASSUME NEW l \in DesignLinks(d)
      PROVE  \E p, q : Linked(g, p, q) /\ l = <<End(g, p), End(g, q)>>
  <2>1. PICK t, b : Reads(d, t, b) /\ \E e \in S(b) : l = <<e, t>>
    BY DesignLinksAre
  <2>2. PICK e \in S(b) : l = <<e, t>>
    BY <2>1
  <2>3. PICK q : PinReads(g, q, t, b)
    BY <2>1, ReadsPin
  <2>4. Reading(g, q) /\ End(g, q) = t /\ g.pins[q].name[1] = b
    BY <2>3 DEF PinReads
  <2>5. {End(g, p) : p \in TrueDrivers(g, g.pins[q].net)} = S(b)
    BY <2>4, ReaderSources DEF Reading
  <2> HIDE DEF S
  <2>6. PICK p \in TrueDrivers(g, g.pins[q].net) : End(g, p) = e
    BY <2>2, <2>5
  <2>7. l = <<End(g, p), End(g, q)>>
    BY <2>2, <2>4, <2>6
  <2> QED BY <2>4, <2>6, <2>7 DEF Linked
<1>2. ASSUME NEW p, NEW q, Linked(g, p, q)
      PROVE  <<End(g, p), End(g, q)>> \in DesignLinks(d)
  <2> DEFINE b == g.pins[q].name[1]
             e == End(g, p)
             t == End(g, q)
  <2>1. Reads(d, t, b)
    BY <1>2, ReadingIs DEF Linked
  <2>2. e \in S(b)
    BY <1>2, ReaderSources DEF Linked, Reading
  <2> HIDE DEF b, e, t, S
  <2>3. <<e, t>> \in DesignLinks(d)
    BY <2>1, <2>2, DesignLinksAre DEF S
  <2> QED BY <2>3 DEF e, t
<1> QED BY <1>1, <1>2

(* One name feeds another in the design if a pin of the one drives a pin   *)
(* of the other in the netlist.                                            *)
LEMMA FeedsAre ==
  ASSUME NEW d \in Designs, NEW g, HookedGraph(g, d), NetsMean(g, d), SameSources(g, d)
  PROVE  \A f : f \in Feeds(d) <=> \E p, q : Linked(g, p, q) /\ f = <<NodeName(g, p), NodeName(g, q)>>
<1> DEFINE D == DesignLinks(d)
<1>1. \A l : l \in D <=> \E p, q : Linked(g, p, q) /\ l = <<End(g, p), End(g, q)>>
  BY LinkPins
<1>2. Feeds(d) = {<<l[1][1], l[2][1]>> : l \in D}
  BY DEF Feeds
<1>3. \A p, q : LET l == <<End(g, p), End(g, q)>>
                IN  l[1][1] = NodeName(g, p) /\ l[2][1] = NodeName(g, q)
  BY DEF End, NodeName
<1> HIDE DEF D
<1>4. ASSUME NEW f \in Feeds(d)
      PROVE  \E p, q : Linked(g, p, q) /\ f = <<NodeName(g, p), NodeName(g, q)>>
  <2>1. PICK l \in D : f = <<l[1][1], l[2][1]>>
    BY <1>2
  <2>2. PICK p, q : Linked(g, p, q) /\ l = <<End(g, p), End(g, q)>>
    BY <1>1
  <2>3. l[1][1] = NodeName(g, p) /\ l[2][1] = NodeName(g, q)
    BY <1>3, <2>2
  <2> QED BY <2>1, <2>2, <2>3
<1>5. ASSUME NEW p, NEW q, Linked(g, p, q)
      PROVE  <<NodeName(g, p), NodeName(g, q)>> \in Feeds(d)
  <2> DEFINE l == <<End(g, p), End(g, q)>>
  <2>1. l \in D
    BY <1>1, <1>5
  <2>2. l[1][1] = NodeName(g, p) /\ l[2][1] = NodeName(g, q)
    BY <1>3
  <2> HIDE DEF l
  <2>3. <<l[1][1], l[2][1]>> \in Feeds(d)
    BY <1>2, <2>1
  <2> QED BY <2>2, <2>3
<1> QED BY <1>4, <1>5

(* Both pins of a link are live, on live nets, and the first is an output. *)
LEMMA LinkedPins ==
  ASSUME NEW d \in Designs, NEW g, HookedGraph(g, d), NEW p, NEW q, Linked(g, p, q)
  PROVE  /\ LivePin(g, p) /\ g.pins[p].output /\ g.nodes[g.pins[p].node].type # "buf"
         /\ TruePin(g, g.pins[q].net, p)
         /\ LivePin(g, q) /\ LiveNet(g, g.pins[q].net)
<1>1. LivePin(g, q) /\ p \in TrueDrivers(g, g.pins[q].net)
  BY DEF Linked, Reading
<1>2. LiveNet(g, g.pins[q].net)
  BY <1>1, PinNode
<1>3. TruePin(g, g.pins[q].net, p)
  BY <1>1, <1>2, TrueDriversAre
<1> QED BY <1>1, <1>2, <1>3 DEF TruePin

(* There are finitely many pairs of names one of which feeds the other.    *)
LEMMA FeedsFinite ==
  ASSUME NEW d \in Designs, NEW g, HookedGraph(g, d), NetsMean(g, d), SameSources(g, d)
  PROVE  IsFiniteSet(Feeds(d)) /\ IsFiniteSet(Reversed(Feeds(d)))
<1> DEFINE N == LastPin(g)
           f == [p \in 1 .. N |-> NodeName(g, p)]
           A == {f[p] : p \in 1 .. N}
           E == Feeds(d)
<1>1. N \in Nat /\ DOMAIN g.pins = 1 .. N
  BY GraphType DEF HookedGraph
<1>2. IsFiniteSet(A)
  <2>1. DOMAIN f = 1 .. N
    OBVIOUS
  <2> HIDE DEF f, N
  <2> QED BY <1>1, <2>1, ImageFinite
<1>3. \A p, q : Linked(g, p, q) => NodeName(g, p) \in A /\ NodeName(g, q) \in A
  BY <1>1, LinkedPins DEF LivePin
<1> HIDE DEF A
<1>4. E \subseteq A \X A
  BY <1>3, FeedsAre
<1>5. Reversed(E) \subseteq A \X A
  BY <1>4 DEF Reversed
<1>6. IsFiniteSet(A \X A)
  BY <1>2, FS_Product
<1> HIDE DEF E
<1>7. IsFiniteSet(E) /\ IsFiniteSet(Reversed(E))
  BY <1>4, <1>5, <1>6, FS_Subset
<1> QED BY <1>7 DEF E

(* The needed names are the least set that holds the outputs and, with a   *)
(* name, those that feed it.                                               *)
LEMMA NeededFacts ==
  ASSUME NEW d \in Designs, NEW g, HookedGraph(g, d), NetsMean(g, d), SameSources(g, d)
  PROVE  /\ ToSet(d.outputs) \subseteq NeededNames(d)
         /\ \A p, q : Linked(g, p, q) /\ NodeName(g, q) \in NeededNames(d) => NodeName(g, p) \in NeededNames(d)
         /\ \A v : /\ ToSet(d.outputs) \subseteq v
                   /\ \A p, q : Linked(g, p, q) /\ NodeName(g, q) \in v => NodeName(g, p) \in v
                   => NeededNames(d) \subseteq v
<1> DEFINE E == Reversed(Feeds(d))
           N == ClosureOf(ToSet(d.outputs), E)
<1>1. IsFiniteSet(E)
  BY FeedsFinite
<1>2. \A e : e \in E <=> \E p, q : Linked(g, p, q) /\ e = <<NodeName(g, q), NodeName(g, p)>>
  <2>1. \A f : f \in Feeds(d) <=> \E p, q : Linked(g, p, q) /\ f = <<NodeName(g, p), NodeName(g, q)>>
    BY FeedsAre
  <2> DEFINE F == Feeds(d)
  <2>2. \A e : e \in E <=> \E f \in F : e = <<f[2], f[1]>>
    BY DEF Reversed
  <2> HIDE DEF E, F
  <2>3. ASSUME NEW e \in E
        PROVE  \E p, q : Linked(g, p, q) /\ e = <<NodeName(g, q), NodeName(g, p)>>
    <3>1. PICK f \in F : e = <<f[2], f[1]>>
      BY <2>2
    <3>2. PICK p, q : Linked(g, p, q) /\ f = <<NodeName(g, p), NodeName(g, q)>>
      BY <2>1 DEF F
    <3>3. f[1] = NodeName(g, p) /\ f[2] = NodeName(g, q)
      BY <3>2
    <3> QED BY <3>1, <3>2, <3>3
  <2>4. ASSUME NEW p, NEW q, Linked(g, p, q)
        PROVE  <<NodeName(g, q), NodeName(g, p)>> \in E
    <3> DEFINE f == <<NodeName(g, p), NodeName(g, q)>>
    <3>1. f \in F
      BY <2>1, <2>4 DEF F
    <3>2. f[1] = NodeName(g, p) /\ f[2] = NodeName(g, q)
      OBVIOUS
    <3> HIDE DEF f
    <3>3. <<f[2], f[1]>> \in E
      BY <2>2, <3>1
    <3> QED BY <3>2, <3>3
  <2> QED BY <2>3, <2>4
<1> HIDE DEF E
<1>3. \A v : Closed(v, E) <=> \A p, q : Linked(g, p, q) /\ NodeName(g, q) \in v => NodeName(g, p) \in v
  <2> SUFFICES ASSUME NEW v
               PROVE  Closed(v, E) <=> \A p, q : Linked(g, p, q) /\ NodeName(g, q) \in v => NodeName(g, p) \in v
    OBVIOUS
  <2>1. ASSUME Closed(v, E), NEW p, NEW q, Linked(g, p, q), NodeName(g, q) \in v
        PROVE  NodeName(g, p) \in v
    <3> DEFINE e == <<NodeName(g, q), NodeName(g, p)>>
    <3>1. e \in E /\ e[1] = NodeName(g, q) /\ e[2] = NodeName(g, p)
      BY <1>2, <2>1
    <3> HIDE DEF e
    <3> QED BY <2>1, <3>1 DEF Closed
  <2>2. ASSUME \A p, q : Linked(g, p, q) /\ NodeName(g, q) \in v => NodeName(g, p) \in v,
               NEW e \in E, e[1] \in v
        PROVE  e[2] \in v
    <3>1. PICK p, q : Linked(g, p, q) /\ e = <<NodeName(g, q), NodeName(g, p)>>
      BY <1>2
    <3>2. e[1] = NodeName(g, q) /\ e[2] = NodeName(g, p)
      BY <3>1
    <3> QED BY <2>2, <3>1, <3>2
  <2> QED BY <2>1, <2>2 DEF Closed
<1>4. ToSet(d.outputs) \subseteq N /\ Closed(N, E) /\ \A v : ToSet(d.outputs) \subseteq v /\ Closed(v, E) => N \subseteq v
  BY <1>1, ClosureFacts
<1>5. NeededNames(d) = N
  BY DEF NeededNames, E
<1> HIDE DEF N
<1> QED BY <1>3, <1>4, <1>5

(* Every cell is downstream of an input or a constant.                     *)
LEMMA ReachedFacts ==
  ASSUME NEW d \in Designs, NEW g, HookedGraph(g, d), NetsMean(g, d), SameSources(g, d), NEW v,
         ToSet(SourceBits(d)) \subseteq v,
         \A p, q : Linked(g, p, q) /\ NodeName(g, p) \in v => NodeName(g, q) \in v
  PROVE  \A c \in DOMAIN d.cells : d.cells[c].name \in v
<1> DEFINE E == Feeds(d)
           S == ToSet(d.inputs) \cup Constants3
<1>1. IsFiniteSet(E)
  BY FeedsFinite
<1>2. Closed(v, E)
  <2> SUFFICES ASSUME NEW e \in E, e[1] \in v PROVE e[2] \in v
    BY DEF Closed
  <2>1. PICK p, q : Linked(g, p, q) /\ e = <<NodeName(g, p), NodeName(g, q)>>
    BY FeedsAre
  <2>2. e[1] = NodeName(g, p) /\ e[2] = NodeName(g, q)
    BY <2>1
  <2> QED BY <2>1, <2>2
<1>3. S \subseteq v
  BY SourceBitsAre
<1>4. Reached(d) = ClosureOf(S, E)
  BY DEF Reached
<1> HIDE DEF S, E
<1>5. Reached(d) \subseteq v
  BY <1>1, <1>2, <1>3, <1>4, ClosureFacts
<1>6. {c.name : c \in ToSet(d.cells)} \subseteq Reached(d)
  BY DesignsAssumption DEF IsDesign
<1>7. \A c \in DOMAIN d.cells : d.cells[c] \in ToSet(d.cells)
  BY DEF ToSet
<1> QED BY <1>5, <1>6, <1>7

(* What feeds a node of X is in X.                                         *)
BackClosed(g, X) == \A a, b : Feeding(g, a, b) /\ b \in X => a \in X

(* A driver and a reader of one net make the one node feed the other.      *)
LEMMA FeedPins ==
  ASSUME NEW g, NEW p, LivePin(g, p), g.pins[p].output,
         NEW q, LivePin(g, q), ~g.pins[q].output, g.pins[p].net = g.pins[q].net
  PROVE  Feeding(g, g.pins[p].node, g.pins[q].node)
BY DEF Feeding, LivePin

(* Nor can buffers lead out of X.                                          *)
LEMMA BackThrough ==
  ASSUME NEW d \in Designs, NEW g, HookedGraph(g, d), NEW X, BackClosed(g, X),
         NEW q, LivePin(g, q), ~g.pins[q].output, g.pins[q].node \in X,
         NEW p, TruePin(g, g.pins[q].net, p)
  PROVE  g.pins[p].node \in X
<1> DEFINE m == g.pins[q].net
           From(k) == \A x : LivePin(g, x) /\ g.pins[x].output /\ g.pins[x].net = k => g.pins[x].node \in X
           v == {k \in DOMAIN g.nets : From(k)}
<1>0. g \in GraphSet /\ LiveNet(g, m)
  BY PinNode DEF HookedGraph
<1>1. m \in v
  <2>1. From(m)
    BY FeedPins DEF BackClosed
  <2> QED BY <1>0, <2>1 DEF LiveNet
<1>2. \A n : LiveBuf(g, n) /\ NetOut(g, n) \in v => NetIn(g, n) \in v
  <2> SUFFICES ASSUME NEW n, LiveBuf(g, n), NetOut(g, n) \in v PROVE NetIn(g, n) \in v
    OBVIOUS
  <2> DEFINE i == g.nodes[n].ins[1]
             o == g.nodes[n].outs[1]
  <2>1. BufferShape(g, n, i, o) /\ NetIn(g, n) \in DOMAIN g.nets
    BY BufferNets DEF LiveNet
  <2>2. NetIn(g, n) = g.pins[i].net /\ NetOut(g, n) = g.pins[o].net
    BY DEF NetIn, NetOut
  <2> HIDE DEF i, o
  <2>3. /\ LivePin(g, i) /\ g.pins[i].node = n /\ ~g.pins[i].output
        /\ LivePin(g, o) /\ g.pins[o].node = n /\ g.pins[o].output
    BY <2>1 DEF BufferShape
  <2>4. n \in X
    BY <2>2, <2>3
  <2>5. From(NetIn(g, n))
    BY <2>2, <2>3, <2>4, FeedPins DEF BackClosed
  <2> QED BY <2>1, <2>5
<1> HIDE DEF v
<1>3. Upstream(g, m) \subseteq v
  BY <1>0, <1>1, <1>2, UpstreamFacts
<1>4. LivePin(g, p) /\ g.pins[p].output /\ g.pins[p].net \in Upstream(g, m)
  BY DEF TruePin
<1> QED BY <1>3, <1>4 DEF v

(* No cell has the name of an output.                                      *)
LEMMA CellNotOutput ==
  ASSUME NEW d \in Designs, NEW c \in DOMAIN d.cells, NEW i \in DOMAIN d.outputs
  PROVE  d.cells[c].name # d.outputs[i]
<1>1. {x.name : x \in ToSet(d.cells)} \cap Bits(d) = {}
  BY DesignsAssumption DEF IsDesign
<1>2. d.outputs[i] \in ToSet(d.outputs) /\ d.cells[c] \in ToSet(d.cells)
  BY DEF ToSet
<1>3. ToSet(d.outputs) \subseteq Bits(d)
  BY DEF Bits
<1> QED BY <1>1, <1>2, <1>3

(* Where a cell's name is found.                                           *)
LEMMA CellOfReader ==
  ASSUME NEW d \in Designs, NEW g, HookedGraph(g, d), NEW q, Reading(g, q),
         NEW c \in DOMAIN d.cells, d.cells[c].name = NodeName(g, q)
  PROVE  g.pins[q].node = Before(d) + c
<1> DEFINE b == g.pins[q].name[1]
<1>1. ToOutput(g, d, q, b) \/ ToCell(g, d, q, b)
  BY ReadingIs
<1> HIDE DEF b
<1>2. CASE ToOutput(g, d, q, b)
  <2>1. PICK i \in DOMAIN d.outputs : g.nodes[g.pins[q].node].name = b /\ d.outputs[i] = b
    BY <1>2 DEF ToOutput
  <2> QED BY <2>1, CellNotOutput DEF NodeName
<1>3. CASE ToCell(g, d, q, b)
  <2>1. PICK i \in DOMAIN d.cells : g.pins[q].node = Before(d) + i /\ NodeName(g, q) = d.cells[i].name
    BY <1>3 DEF ToCell, NodeName
  <2>2. i = c
    BY <2>1, NamesApart
  <2> QED BY <2>1, <2>2
<1> QED BY <1>1, <1>2, <1>3

(* A true driver belongs to an input, to a constant or to a cell.          *)
LEMMA CellOfDriver ==
  ASSUME NEW d \in Designs, NEW g, HookedGraph(g, d), NEW p, NEW q, Linked(g, p, q)
  PROVE  \/ g.pins[p].node \in 1 .. SourceCount(d) /\ NodeName(g, p) \in ToSet(SourceBits(d))
         \/ \E c \in DOMAIN d.cells : g.pins[p].node = Before(d) + c /\ NodeName(g, p) = d.cells[c].name
<1> DEFINE a == g.nets[g.pins[p].net].name
<1>1. FromSource(g, d, p, a) \/ FromCell(g, d, p, a)
  BY LinkedPins, TruePinGives
<1> HIDE DEF a
<1>2. CASE FromSource(g, d, p, a)
  <2>1. g.pins[p].node \in 1 .. SourceCount(d) /\ NodeName(g, p) = SourceBits(d)[g.pins[p].node]
    BY <1>2 DEF FromSource, IsSource, NodeName
  <2>2. g.pins[p].node \in DOMAIN SourceBits(d)
    BY <2>1, DesignFacts
  <2> QED BY <2>1, <2>2 DEF ToSet
<1>3. CASE FromCell(g, d, p, a)
  BY <1>3 DEF FromCell, NodeName
<1> QED BY <1>1, <1>2, <1>3

(* A value gets to every cell, so a set nothing leads into has none.       *)
LEMMA CellsReached ==
  ASSUME NEW d \in Designs, NEW g, HookedGraph(g, d), NetsMean(g, d), SameSources(g, d),
         NEW X, BackClosed(g, X), \A i \in 1 .. SourceCount(d) : i \notin X
  PROVE  \A c \in DOMAIN d.cells : Before(d) + c \notin X
<1> DEFINE v == {y \in Names : \A c \in DOMAIN d.cells : d.cells[c].name = y => Before(d) + c \notin X}
<1>1. ToSet(SourceBits(d)) \subseteq v
  <2>1. ToSet(SourceBits(d)) \subseteq Names
    BY DesignFacts DEF ToSet
  <2> QED BY <2>1, NamesApart
<1>2. ASSUME NEW p, NEW q, Linked(g, p, q), NodeName(g, p) \in v
      PROVE  NodeName(g, q) \in v
  <2>1. NodeName(g, q) \in Names
    <3>1. g.pins[q].node \in DOMAIN g.nodes
      BY <1>2, LinkedPins, PinNode
    <3>2. g.nodes[g.pins[q].node] \in NodeRecord
      BY <3>1, GraphType DEF HookedGraph
    <3> QED BY <3>2 DEF NodeRecord, NodeName
  <2>2. ASSUME NEW c \in DOMAIN d.cells, d.cells[c].name = NodeName(g, q), Before(d) + c \in X
        PROVE  FALSE
    <3>1. Reading(g, q) /\ LivePin(g, q) /\ ~g.pins[q].output /\ TruePin(g, g.pins[q].net, p)
      BY <1>2, LinkedPins DEF Linked, Reading
    <3>2. g.pins[q].node \in X
      BY <2>2, <3>1, CellOfReader
    <3>3. g.pins[p].node \in X
      BY <3>1, <3>2, BackThrough
    <3>4. \E i \in DOMAIN d.cells : g.pins[p].node = Before(d) + i /\ NodeName(g, p) = d.cells[i].name
      BY <1>2, <3>3, CellOfDriver
    <3> QED BY <1>2, <3>3, <3>4
  <2> QED BY <2>1, <2>2
<1>3. \A c \in DOMAIN d.cells : d.cells[c].name \in v
  <2> HIDE DEF v
  <2> QED BY <1>1, <1>2, ReachedFacts
<1> QED BY <1>3

(* The edges the sweep follows are the pairs of nodes one of which feeds   *)
(* the other.                                                              *)
LEMMA FeedingEdges ==
  ASSUME NEW d \in Designs, HookedGraph(graph, d), Placed(graph)
  PROVE  /\ \A a, b : <<a, b>> \in Edges <=> Feeding(graph, a, b)
         /\ \A e \in Edges : e = <<e[1], e[2]>>
         /\ IsFiniteSet(Edges)
<1> DEFINE D(m) == ToSet(m.drivers)
           R(m) == ToSet(m.fanouts) \ {Null}
           M == {m \in ToSet(graph.nets) : m.live}
           n(p) == graph.pins[p].node
           K == {m \in DOMAIN graph.nets : LiveNet(graph, m)}
<1>0. graph \in GraphSet /\ Agree(graph)
  BY DEF HookedGraph
<1>1. Edges = UNION {{<<n(p), n(q)>> : p \in D(m), q \in R(m)} : m \in M}
  BY DEF Edges
<1>2. \A m : m \in M <=> \E k \in K : m = graph.nets[k]
  BY DEF ToSet, LiveNet
<1>3. \A k \in K : \A p : p \in D(graph.nets[k]) <=> LivePin(graph, p) /\ graph.pins[p].output /\ graph.pins[p].net = k
  BY <1>0, DriversAre
<1>4. Listed(graph, {})
  <2> SUFFICES ASSUME NEW q, LivePin(graph, q), ~graph.pins[q].output
               PROVE  AtPlace(graph, q)
    BY DEF Listed
  <2>1. LiveNet(graph, graph.pins[q].net)
    BY PinNode
  <2>2. graph.pins[q].net # Null
    BY <1>0, <2>1, GraphType DEF LiveNet, Null
  <2> QED BY <2>2 DEF Placed, LivePin, AtPlace
<1>5. \A k \in K : \A q : q \in R(graph.nets[k]) <=> LivePin(graph, q) /\ ~graph.pins[q].output /\ graph.pins[q].net = k
  BY <1>4, ListedReaders DEF LiveNet
<1>6. \A p : LivePin(graph, p) => graph.pins[p].net \in K
  BY PinNode DEF LiveNet
<1> HIDE DEF D, R, M, K
<1>7. \A e : e \in Edges <=> \E m \in M : \E p \in D(m), q \in R(m) : e = <<n(p), n(q)>>
  BY <1>1
<1>8. \A e : e \in Edges <=>
        \E p, q : /\ LivePin(graph, p) /\ graph.pins[p].output
                  /\ LivePin(graph, q) /\ ~graph.pins[q].output
                  /\ graph.pins[p].net = graph.pins[q].net /\ e = <<n(p), n(q)>>
  <2>1. \A e : e \in Edges <=> \E k \in K : \E p \in D(graph.nets[k]), q \in R(graph.nets[k]) : e = <<n(p), n(q)>>
    BY <1>2, <1>7
  <2> QED BY <1>3, <1>5, <1>6, <2>1
<1>9. \A a, b : <<a, b>> \in Edges <=> Feeding(graph, a, b)
  <2> SUFFICES ASSUME NEW a, NEW b PROVE <<a, b>> \in Edges <=> Feeding(graph, a, b)
    OBVIOUS
  <2>1. <<a, b>> \in Edges <=>
        \E p, q : /\ LivePin(graph, p) /\ graph.pins[p].output
                  /\ LivePin(graph, q) /\ ~graph.pins[q].output
                  /\ graph.pins[p].net = graph.pins[q].net /\ a = n(p) /\ b = n(q)
    BY <1>8
  <2> QED BY <2>1 DEF Feeding, LivePin
<1>10. \A e \in Edges : e = <<e[1], e[2]>>
  BY <1>8
<1>11. IsFiniteSet(Edges)
  <2> DEFINE N == DOMAIN graph.nodes
  <2>1. IsFiniteSet(N)
    BY <1>0, GraphType, FS_Interval
  <2>2. \A p : LivePin(graph, p) => n(p) \in N
    BY PinNode
  <2> HIDE DEF N, n
  <2>3. Edges \subseteq N \X N
    BY <1>8, <2>2
  <2>4. IsFiniteSet(N \X N)
    BY <2>1, FS_Product
  <2> QED BY <2>3, <2>4, FS_Subset
<1> QED BY <1>9, <1>10, <1>11

(* F: what the forward search finds, from the sources; B: what the         *)
(* backward search finds, from the outputs.                                *)
Forward(g, d, F) ==
  /\ \A i \in 1 .. SourceCount(d) : i \in F
  /\ \A a, b : Feeding(g, a, b) /\ a \in F => b \in F

Backward(g, d, B) ==
  /\ \A i \in 1 .. Len(d.outputs) : SourceCount(d) + i \in B
  /\ BackClosed(g, B)
  /\ \A X : (\A i \in 1 .. Len(d.outputs) : SourceCount(d) + i \in X) /\ BackClosed(g, X) => B \subseteq X

(* The sweep takes out what the forward search found and the backward      *)
(* search did not.                                                         *)
LEMMA UselessIs ==
  ASSUME design \in Designs, HookedGraph(graph, design), Placed(graph)
  PROVE  \E F, B : /\ Forward(graph, design, F) /\ Backward(graph, design, B)
                   /\ F \subseteq DOMAIN graph.nodes
                   /\ Useless = F \ (B \cup (1 .. SourceCount(design)))
<1> DEFINE S == ToSet(Roots)
           O == ToSet(Outputs(design))
           E == Edges
           F == ClosureOf(S, E)
           B == ClosureOf(O, Reversed(E))
           N == DOMAIN graph.nodes
<1>0. graph \in GraphSet
  BY DEF HookedGraph
<1>1. S = 1 .. SourceCount(design)
  BY RootFacts DEF ToSet
<1>2. \A x : x \in O <=> \E i \in 1 .. Len(design.outputs) : x = SourceCount(design) + i
  <2>1. DOMAIN design.outputs = 1 .. Len(design.outputs) /\ SourceCount(design) = 3 + Len(design.inputs)
    BY DesignFacts
  <2>2. Outputs(design) = [i \in 1 .. Len(design.outputs) |-> SourceCount(design) + i]
    BY <2>1 DEF Outputs
  <2> QED BY <2>2 DEF ToSet
<1>3. (\A a, b : <<a, b>> \in E <=> Feeding(graph, a, b)) /\ (\A e \in E : e = <<e[1], e[2]>>) /\ IsFiniteSet(E)
  BY FeedingEdges
<1>4. \A a, b : Feeding(graph, a, b) => a \in N /\ b \in N
  BY PinNode DEF Feeding
<1>5. N = 1 .. LastNode(graph) /\ S \subseteq N
  <2>1. \A i \in 1 .. SourceCount(design) : i \in N
    BY RootLive DEF LiveNode
  <2> QED BY <1>0, <1>1, <2>1, GraphType
<1> HIDE DEF S, O, E, N
<1>6. \A e \in E : e[1] \in N /\ e[2] \in N
  BY <1>3, <1>4
<1>7. S \subseteq F /\ Closed(F, E) /\ F \subseteq N
  <2>1. Closed(N, E)
    BY <1>6 DEF Closed
  <2> QED BY <1>3, <1>5, <2>1, ClosureFacts
<1>8. \A e : e \in Reversed(E) <=> \E a, b : <<a, b>> \in E /\ e = <<b, a>>
  <2>1. \A e : e \in Reversed(E) <=> \E f \in E : e = <<f[2], f[1]>>
    BY DEF Reversed
  <2>2. ASSUME NEW e \in Reversed(E)
        PROVE  \E a, b : <<a, b>> \in E /\ e = <<b, a>>
    <3>1. PICK f \in E : e = <<f[2], f[1]>>
      BY <2>1
    <3>2. <<f[1], f[2]>> \in E
      BY <1>3
    <3> QED BY <3>1, <3>2
  <2>3. ASSUME NEW a, NEW b, <<a, b>> \in E
        PROVE  <<b, a>> \in Reversed(E)
    <3> DEFINE f == <<a, b>>
    <3>1. f \in E /\ f[1] = a /\ f[2] = b
      BY <2>3
    <3> HIDE DEF f
    <3>2. <<f[2], f[1]>> \in Reversed(E)
      BY <2>1, <3>1
    <3> QED BY <3>1, <3>2
  <2> QED BY <2>2, <2>3
<1>9. IsFiniteSet(Reversed(E))
  <2>1. IsFiniteSet(N)
    BY <1>0, <1>5, GraphType, FS_Interval
  <2>2. IsFiniteSet(N \X N)
    BY <2>1, FS_Product
  <2>3. Reversed(E) \subseteq N \X N
    BY <1>6 DEF Reversed
  <2> QED BY <2>2, <2>3, FS_Subset
<1>10. O \subseteq B /\ Closed(B, Reversed(E)) /\ \A v : O \subseteq v /\ Closed(v, Reversed(E)) => B \subseteq v
  BY <1>9, ClosureFacts
<1>11. \A v : Closed(v, Reversed(E)) <=> BackClosed(graph, v)
  <2> SUFFICES ASSUME NEW v PROVE Closed(v, Reversed(E)) <=> BackClosed(graph, v)
    OBVIOUS
  <2>1. ASSUME Closed(v, Reversed(E)), NEW a, NEW b, Feeding(graph, a, b), b \in v
        PROVE  a \in v
    <3> DEFINE e == <<b, a>>
    <3>1. e \in Reversed(E) /\ e[1] = b /\ e[2] = a
      BY <1>3, <1>8, <2>1
    <3> HIDE DEF e
    <3> QED BY <2>1, <3>1 DEF Closed
  <2>2. ASSUME BackClosed(graph, v), NEW e \in Reversed(E), e[1] \in v
        PROVE  e[2] \in v
    <3>1. PICK a, b : <<a, b>> \in E /\ e = <<b, a>>
      BY <1>8
    <3>2. e[1] = b /\ e[2] = a /\ Feeding(graph, a, b)
      BY <1>3, <3>1
    <3> QED BY <2>2, <3>2 DEF BackClosed
  <2> QED BY <2>1, <2>2 DEF Closed, BackClosed
<1>12. Useless = F \ (B \cup S)
  BY DEF Useless, S, O, E
<1> HIDE DEF F, B
<1>13. Forward(graph, design, F)
  <2>1. ASSUME NEW a, NEW b, Feeding(graph, a, b), a \in F
        PROVE  b \in F
    <3> DEFINE e == <<a, b>>
    <3>1. e \in E /\ e[1] = a /\ e[2] = b
      BY <1>3, <2>1
    <3> HIDE DEF e
    <3> QED BY <1>7, <2>1, <3>1 DEF Closed
  <2> QED BY <1>1, <1>7, <2>1 DEF Forward
<1>14. Backward(graph, design, B)
  BY <1>2, <1>10, <1>11 DEF Backward
<1> QED BY <1>1, <1>7, <1>12, <1>13, <1>14 DEF N

(* A pin of a buffer is its only input or its only output.                 *)
LEMMA BufferOnly ==
  ASSUME NEW d \in Designs, NEW g, HookedGraph(g, d), NEW p, LivePin(g, p),
         g.nodes[g.pins[p].node].type = "buf"
  PROVE  /\ LiveBuf(g, g.pins[p].node)
         /\ g.pins[p].output => g.pins[p].net = NetOut(g, g.pins[p].node)
         /\ ~g.pins[p].output => g.pins[p].net = NetIn(g, g.pins[p].node)
<1> DEFINE n == g.pins[p].node
           i == g.nodes[n].ins[1]
           o == g.nodes[n].outs[1]
<1>1. LiveBuf(g, n)
  BY PinNode DEF LiveBuf
<1>2. BufferShape(g, n, i, o)
  BY <1>1, BufferNets
<1>3. PinOK(g, p)
  BY DEF HookedGraph, Agree, LivePin
<1>4. ASSUME g.pins[p].output PROVE p = o
  <2>1. g.pins[p].slot \in DOMAIN g.nodes[n].outs /\ g.nodes[n].outs[g.pins[p].slot] = p
    BY <1>3, <1>4 DEF PinOK, OutPinOK
  <2>2. g.pins[p].slot = 1
    BY <1>2, <2>1 DEF BufferShape
  <2> QED BY <2>1, <2>2
<1>5. ASSUME ~g.pins[p].output PROVE p = i
  <2>1. g.pins[p].slot \in DOMAIN g.nodes[n].ins /\ g.nodes[n].ins[g.pins[p].slot] = p
    BY <1>3, <1>5 DEF PinOK, InPinOK
  <2>2. g.nodes[n].ins = <<i>>
    BY <1>2 DEF BufferShape
  <2> HIDE DEF i
  <2>3. DOMAIN <<i>> = {1}
    OBVIOUS
  <2>4. g.pins[p].slot = 1
    BY <2>1, <2>2, <2>3
  <2>5. g.nodes[n].ins[1] = i
    BY DEF i
  <2> QED BY <2>1, <2>4, <2>5
<1> QED BY <1>1, <1>4, <1>5 DEF NetIn, NetOut

(* The search finds the cells whose names are needed.                      *)
LEMMA NeededFound ==
  ASSUME NEW d \in Designs, NEW g, HookedGraph(g, d), NetsMean(g, d), SameSources(g, d),
         NEW B, Backward(g, d, B), NEW c \in DOMAIN d.cells, d.cells[c].name \in NeededNames(d)
  PROVE  Before(d) + c \in B
<1> DEFINE v == {y \in Names : \A i \in DOMAIN d.cells : d.cells[i].name = y => Before(d) + i \in B}
<1>0. BackClosed(g, B) /\ \A i \in 1 .. Len(d.outputs) : SourceCount(d) + i \in B
  BY DEF Backward
<1>1. ToSet(d.outputs) \subseteq v
  <2>1. ToSet(d.outputs) \subseteq Names
    BY DesignFacts DEF ToSet
  <2>2. \A y \in ToSet(d.outputs) : \A i \in DOMAIN d.cells : d.cells[i].name # y
    BY CellNotOutput DEF ToSet
  <2> QED BY <2>1, <2>2
<1>2. ASSUME NEW p, NEW q, Linked(g, p, q), NodeName(g, q) \in v
      PROVE  NodeName(g, p) \in v
  <2>1. Reading(g, q) /\ LivePin(g, q) /\ ~g.pins[q].output /\ TruePin(g, g.pins[q].net, p) /\ LivePin(g, p)
    BY <1>2, LinkedPins DEF Linked, Reading
  <2>2. g.pins[q].node \in B
    <3> DEFINE b == g.pins[q].name[1]
    <3>1. ToOutput(g, d, q, b) \/ ToCell(g, d, q, b)
      BY <2>1, ReadingIs
    <3> HIDE DEF b
    <3>2. CASE ToOutput(g, d, q, b)
      <4>1. DOMAIN d.outputs = 1 .. Len(d.outputs)
        BY DesignFacts
      <4> QED BY <1>0, <3>2, <4>1 DEF ToOutput
    <3>3. CASE ToCell(g, d, q, b)
      BY <1>2, <3>3 DEF ToCell, NodeName
    <3> QED BY <3>1, <3>2, <3>3
  <2>3. g.pins[p].node \in B
    BY <1>0, <2>1, <2>2, BackThrough
  <2>4. NodeName(g, p) \in Names
    <3>1. g.pins[p].node \in DOMAIN g.nodes
      BY <2>1, PinNode
    <3>2. g.nodes[g.pins[p].node] \in NodeRecord
      BY <3>1, GraphType DEF HookedGraph
    <3> QED BY <3>2 DEF NodeRecord, NodeName
  <2>5. ASSUME NEW i \in DOMAIN d.cells, d.cells[i].name = NodeName(g, p)
        PROVE  Before(d) + i \in B
    <3>1. \/ NodeName(g, p) \in ToSet(SourceBits(d))
          \/ \E k \in DOMAIN d.cells : g.pins[p].node = Before(d) + k /\ NodeName(g, p) = d.cells[k].name
      BY <1>2, CellOfDriver
    <3>2. PICK k \in DOMAIN d.cells : g.pins[p].node = Before(d) + k /\ NodeName(g, p) = d.cells[k].name
      BY <2>5, <3>1, NamesApart
    <3>3. k = i
      BY <2>5, <3>2, NamesApart
    <3> QED BY <2>3, <3>2, <3>3
  <2> QED BY <2>4, <2>5
<1>3. NeededNames(d) \subseteq v
  <2> HIDE DEF v
  <2> QED BY <1>1, <1>2, NeededFacts
<1> QED BY <1>3

(* And no others.                                                          *)
LEMMA FoundNeeded ==
  ASSUME NEW d \in Designs, NEW g, HookedGraph(g, d), NetsMean(g, d), SameSources(g, d),
         NEW B, Backward(g, d, B), NEW c \in DOMAIN d.cells, Before(d) + c \in B
  PROVE  d.cells[c].name \in NeededNames(d)
<1> DEFINE N == NeededNames(d)
           True(m) == \A p : TruePin(g, m, p) => NodeName(g, p) \in N
           X == {n \in DOMAIN g.nodes : IF g.nodes[n].type = "buf" THEN True(NetIn(g, n)) ELSE g.nodes[n].name \in N}
<1>0. g \in GraphSet /\ Layout(g, d, Len(d.cells), Len(d.connections))
  BY DEF HookedGraph
<1>1. /\ ToSet(d.outputs) \subseteq N
      /\ \A p, q : Linked(g, p, q) /\ NodeName(g, q) \in N => NodeName(g, p) \in N
  BY NeededFacts
<1> HIDE DEF N
<1>2. ASSUME NEW i \in 1 .. Len(d.outputs)
      PROVE  SourceCount(d) + i \in X
  <2>1. OutputHas(g, d, i)
    BY <1>0 DEF Layout
  <2>2. /\ SourceCount(d) + i \in DOMAIN g.nodes /\ g.nodes[SourceCount(d) + i].type = "output"
        /\ g.nodes[SourceCount(d) + i].name = d.outputs[i]
    BY <2>1 DEF OutputHas, NodeIs, NodeHas
  <2>3. d.outputs[i] \in ToSet(d.outputs)
    BY DesignFacts DEF ToSet
  <2> QED BY <1>1, <2>2, <2>3
<1>3. ASSUME NEW a, NEW b, Feeding(g, a, b), b \in X
      PROVE  a \in X
  <2>1. PICK p, q : /\ LivePin(g, p) /\ g.pins[p].output /\ g.pins[p].node = a
                    /\ LivePin(g, q) /\ ~g.pins[q].output /\ g.pins[q].node = b
                    /\ g.pins[p].net = g.pins[q].net
    BY <1>3 DEF Feeding
  <2> DEFINE m == g.pins[q].net
  <2>2. LiveNet(g, m) /\ a \in DOMAIN g.nodes
    BY <2>1, PinNode
  <2>3. m \in Upstream(g, m) /\ \A n : LiveBuf(g, n) /\ NetOut(g, n) \in Upstream(g, m) => NetIn(g, n) \in Upstream(g, m)
    BY <1>0, UpstreamFacts
  <2>4. True(m)
    <3>1. CASE g.nodes[b].type = "buf"
      <4>1. m = NetIn(g, b)
        BY <2>1, <3>1, BufferOnly
      <4> QED BY <1>3, <3>1, <4>1
    <3>2. CASE g.nodes[b].type # "buf"
      <4>1. NodeName(g, q) \in N /\ Reading(g, q)
        BY <1>3, <2>1, <3>2 DEF NodeName, Reading
      <4>2. \A x : TruePin(g, m, x) => Linked(g, x, q)
        BY <2>2, <4>1, TrueDriversAre DEF Linked
      <4> QED BY <1>1, <4>1, <4>2
    <3> QED BY <3>1, <3>2
  <2>5. CASE g.nodes[a].type = "buf"
    <3>1. LiveBuf(g, a) /\ NetOut(g, a) = m
      BY <2>1, <2>5, BufferOnly
    <3>2. NetIn(g, a) \in Upstream(g, m)
      BY <2>3, <3>1
    <3>3. Upstream(g, NetIn(g, a)) \subseteq Upstream(g, m)
      BY <1>0, <3>2, UpstreamTransitive
    <3>4. True(NetIn(g, a))
      BY <2>4, <3>3 DEF TruePin
    <3> QED BY <2>2, <2>5, <3>4
  <2>6. CASE g.nodes[a].type # "buf"
    <3>1. TruePin(g, m, p)
      BY <2>1, <2>3, <2>6 DEF TruePin
    <3>2. NodeName(g, p) \in N
      BY <2>4, <3>1
    <3> QED BY <2>1, <2>2, <2>6, <3>2 DEF NodeName
  <2> QED BY <2>5, <2>6
<1>4. B \subseteq X
  <2> HIDE DEF X
  <2> QED BY <1>2, <1>3 DEF Backward, BackClosed
<1>5. c \in 1 .. Len(d.cells)
  BY CellFacts
<1>6. CellHas(g, d, c)
  BY <1>0, <1>5 DEF Layout
<1>7. g.nodes[Before(d) + c].type = "skip" /\ g.nodes[Before(d) + c].name = d.cells[c].name
  BY <1>6 DEF CellHas, NodeIs, NodeHas
<1> QED BY <1>4, <1>7 DEF N

(* No node feeds a constant or an input.                                   *)
LEMMA SourceReadsNothing ==
  ASSUME NEW d \in Designs, NEW g, HookedGraph(g, d), NEW a, NEW b, Feeding(g, a, b)
  PROVE  b \notin 1 .. SourceCount(d)
<1> SUFFICES ASSUME b \in 1 .. SourceCount(d) PROVE FALSE
  OBVIOUS
<1>1. PICK q \in DOMAIN g.pins : LivePin(g, q) /\ ~g.pins[q].output /\ g.pins[q].node = b
  BY DEF Feeding
<1>2. g.pins[q].slot \in DOMAIN g.nodes[b].ins
  BY <1>1 DEF HookedGraph, Agree, LivePin, PinOK, InPinOK
<1>3. SourceHas(g, d, b)
  BY DEF HookedGraph, Layout
<1>4. Len(g.nodes[b].ins) = 0 /\ b \in DOMAIN g.nodes
  BY <1>3 DEF SourceHas, NodeIs, NodeHas
<1>5. g.nodes[b].ins \in Seq(Nat)
  BY <1>4, GraphType DEF HookedGraph, NodeRecord
<1> QED BY <1>2, <1>4, <1>5

(* After the sweep the lists of the nets hold exactly the readers that     *)
(* were not taken out.                                                     *)
LEMMA TrimmedListed ==
  ASSUME NEW d \in Designs, NEW g, HookedGraph(g, d), Placed(g), NEW h, NEW U, Trimmed(g, h, U)
  PROVE  /\ Listed(h, U)
         /\ \A a, b : Feeding(h, a, b) <=> Feeding(g, a, b)
<1>1. /\ h.nodes = g.nodes /\ h.pins = g.pins /\ DOMAIN h.nets = DOMAIN g.nets
      /\ \A m \in DOMAIN g.nets :
           /\ h.nets[m].live = g.nets[m].live
           /\ DOMAIN h.nets[m].fanouts = DOMAIN g.nets[m].fanouts
           /\ \A k \in DOMAIN g.nets[m].fanouts :
                LET p == g.nets[m].fanouts[k]
                IN  h.nets[m].fanouts[k] = IF p # Null /\ g.pins[p].node \in U THEN Null ELSE p
  BY DEF Trimmed
<1>2. \A a, b : Feeding(h, a, b) <=> Feeding(g, a, b)
  BY <1>1 DEF Feeding, LivePin
<1>3. ASSUME NEW m, LiveNet(h, m), NEW k \in DOMAIN h.nets[m].fanouts, h.nets[m].fanouts[k] # Null
      PROVE  h.pins[h.nets[m].fanouts[k]].node \notin U
  BY <1>1, <1>3 DEF LiveNet
<1>4. ASSUME NEW q, LivePin(h, q), ~h.pins[q].output, h.pins[q].node \notin U
      PROVE  AtPlace(h, q)
  <2> DEFINE m == g.pins[q].net
             k == g.pins[q].place
  <2>1. LivePin(g, q) /\ ~g.pins[q].output /\ g.pins[q].node \notin U
    BY <1>1, <1>4 DEF LivePin
  <2>2. LiveNet(g, m)
    BY <2>1, PinNode
  <2>3. m # Null
    BY <2>2, GraphType DEF HookedGraph, LiveNet, Null
  <2>4. k \in DOMAIN g.nets[m].fanouts /\ g.nets[m].fanouts[k] = q
    BY <2>1, <2>3 DEF Placed, LivePin
  <2>5. k \in DOMAIN h.nets[m].fanouts /\ h.nets[m].fanouts[k] = q
    BY <1>1, <2>1, <2>2, <2>4 DEF LiveNet
  <2> QED BY <1>1, <2>5 DEF AtPlace
<1> QED BY <1>2, <1>3, <1>4 DEF Listed

(* What the sweep takes off the lists.                                     *)
LEMMA SweptBy ==
  ASSUME NEW d \in Designs, NEW g, HookedGraph(g, d), Placed(g), NetsMean(g, d), SameSources(g, d),
         NEW F, Forward(g, d, F), F \subseteq DOMAIN g.nodes, NEW B, Backward(g, d, B),
         NEW U, U = F \ (B \cup (1 .. SourceCount(d))), NEW h, Trimmed(g, h, U)
  PROVE  Swept(h, d, U)
<1>0. BackClosed(g, B) /\ \A i \in 1 .. Len(d.outputs) : SourceCount(d) + i \in B
  BY DEF Backward
<1>1. Listed(h, U) /\ \A a, b : Feeding(h, a, b) <=> Feeding(g, a, b)
  BY TrimmedListed
<1>2. ASSUME NEW a, NEW b, Feeding(h, a, b), b \notin U
      PROVE  a \notin U
  <2> SUFFICES ASSUME a \in F, a \notin B PROVE FALSE
    OBVIOUS
  <2>1. Feeding(g, a, b)
    BY <1>1, <1>2
  <2>2. b \in F
    BY <2>1 DEF Forward
  <2>3. b \in B
    BY <1>2, <2>1, <2>2, SourceReadsNothing
  <2> QED BY <1>0, <2>1, <2>3 DEF BackClosed
<1>3. /\ SourceCount(d) \in Nat /\ Len(d.outputs) \in Nat
      /\ Before(d) = SourceCount(d) + Len(d.outputs)
  BY DesignFacts DEF Before
<1>4. ASSUME NEW i \in 1 .. Before(d)
      PROVE  i \notin U
  <2>1. CASE i \in 1 .. SourceCount(d)
    BY <2>1
  <2>2. CASE i \notin 1 .. SourceCount(d)
    <3>1. i - SourceCount(d) \in 1 .. Len(d.outputs) /\ SourceCount(d) + (i - SourceCount(d)) = i
      BY <1>3, <2>2
    <3>2. i \in B
      BY <1>0, <3>1
    <3> QED BY <3>2
  <2> QED BY <2>1, <2>2
<1>5. ASSUME NEW c \in DOMAIN d.cells
      PROVE  Before(d) + c \in U <=> d.cells[c].name \notin NeededNames(d)
  <2> DEFINE X == DOMAIN g.nodes \ F
             n == Before(d) + c
  <2>1. c \in 1 .. Len(d.cells)
    BY CellFacts
  <2>2. n \in DOMAIN g.nodes
    BY <2>1 DEF HookedGraph, Layout, CellHas, NodeIs, NodeHas
  <2>3. c \in Nat /\ c >= 1
    <3>1. d.cells \in Seq(Cell)
      BY DesignFacts
    <3> QED BY <3>1
  <2>4. n \notin 1 .. SourceCount(d)
    <3>1. n > SourceCount(d)
      BY <1>3, <2>3
    <3> HIDE DEF n
    <3> QED BY <1>3, <3>1
  <2>5. BackClosed(g, X)
    <3>1. \A a, b : Feeding(g, a, b) => a \in DOMAIN g.nodes
      BY PinNode DEF Feeding
    <3>2. \A a, b : Feeding(g, a, b) /\ a \in F => b \in F
      BY DEF Forward
    <3> QED BY <3>1, <3>2 DEF BackClosed
  <2>6. \A i \in 1 .. SourceCount(d) : i \notin X
    BY DEF Forward
  <2>7. n \notin X
    <3> HIDE DEF X
    <3> QED BY <2>5, <2>6, CellsReached
  <2>8. n \in B <=> d.cells[c].name \in NeededNames(d)
    BY NeededFound, FoundNeeded
  <2> HIDE DEF n
  <2>9. n \in U <=> d.cells[c].name \notin NeededNames(d)
    BY <2>2, <2>4, <2>7, <2>8
  <2> QED BY <2>9 DEF n
<1> QED BY <1>1, <1>2, <1>4, <1>5 DEF Swept

(* The sweep takes out exactly the cells no output depends on, and no node *)
(* it takes out feeds one that is left.                                    *)
LEMMA SweepSwept ==
  ASSUME GraphInv, NetsMean(graph, design), SameSources(graph, design), RemoveUnusedLogic
  PROVE  \E U \in SUBSET DOMAIN graph'.nodes : Swept(graph', design', U)
<1>1. /\ design \in Designs /\ HookedGraph(graph, design) /\ graph \in GraphSet /\ Placed(graph)
      /\ design' = design
  BY DEF GraphInv, ImportInv, RemoveUnusedLogic
<1>2. Trimmed(graph, graph', Useless)
  BY <1>1, SweepTrims
<1>3. PICK F, B : /\ Forward(graph, design, F) /\ Backward(graph, design, B)
                  /\ F \subseteq DOMAIN graph.nodes
                  /\ Useless = F \ (B \cup (1 .. SourceCount(design)))
  BY <1>1, UselessIs
<1> DEFINE h == graph'
           U == Useless
<1>4. DOMAIN h.nodes = DOMAIN graph.nodes
  BY <1>2 DEF Trimmed
<1> HIDE DEF h, U
<1>5. Swept(h, design, U)
  BY <1>1, <1>2, <1>3, SweptBy DEF h, U
<1>6. U \in SUBSET DOMAIN h.nodes
  BY <1>3, <1>4 DEF U
<1> QED BY <1>1, <1>5, <1>6 DEF h

(* The readers that are left are those of the needed names.                *)
LEMMA SweptKeeps ==
  ASSUME NEW d \in Designs, NEW g, HookedGraph(g, d), NetsMean(g, d), SameSources(g, d),
         NEW U, Swept(g, d, U)
  PROVE  KeepsNames(g, U, NeededNames(d))
<1> DEFINE N == NeededNames(d)
<1>0. /\ \A i \in 1 .. Before(d) : i \notin U
      /\ \A c \in DOMAIN d.cells : Before(d) + c \in U <=> d.cells[c].name \notin N
  BY DEF Swept
<1>1. SUFFICES ASSUME NEW q, Reading(g, q)
               PROVE  g.pins[q].node \notin U <=> End(g, q)[1] \in N
  BY DEF KeepsNames
<1> DEFINE b == g.pins[q].name[1]
<1>2. ToOutput(g, d, q, b) \/ ToCell(g, d, q, b)
  BY <1>1, ReadingIs
<1>3. End(g, q)[1] = g.nodes[g.pins[q].node].name
  BY DEF End
<1> HIDE DEF b
<1>4. CASE ToOutput(g, d, q, b)
  <2>1. PICK i \in DOMAIN d.outputs : /\ g.pins[q].node = SourceCount(d) + i
                                      /\ g.nodes[g.pins[q].node].name = b /\ d.outputs[i] = b
    BY <1>4 DEF ToOutput
  <2>2. SourceCount(d) + i \in 1 .. Before(d)
    <3>1. SourceCount(d) \in Nat /\ d.outputs \in Seq(Names)
      BY DesignFacts
    <3> QED BY <3>1 DEF Before
  <2>3. b \in N
    <3>1. ToSet(d.outputs) \subseteq N
      BY NeededFacts
    <3>2. b \in ToSet(d.outputs)
      BY <2>1 DEF ToSet
    <3> QED BY <3>1, <3>2
  <2> QED BY <1>0, <1>3, <2>1, <2>2, <2>3
<1>5. CASE ToCell(g, d, q, b)
  BY <1>0, <1>3, <1>5 DEF ToCell
<1> QED BY <1>2, <1>4, <1>5

-----------------------------------------------------------------------------
(* The link invariant, action by action.                                   *)

(* What the writer makes of a node depends only on the netlist.            *)
LEMMA WrittenSame ==
  ASSUME graph' = graph
  PROVE  \A n : (Unwritable(n)' <=> Unwritable(n)) /\ WrittenCell(n)' = WrittenCell(n)
BY DEF Unwritable, WrittenCell, WireOf, DriversOf

(* As long as the netlist and the written cells stay, what has been        *)
(* written stays what the visited nodes are.                               *)
LEMMA WritingSame ==
  ASSUME graph' = graph, written'.cells = written.cells, NEW U, NEW M, Writing(U, M)
  PROVE  Writing(U, M)'
<1>1. /\ M \cap U = {} /\ \A n \in M : LiveNode(graph, n) /\ ~Unwritable(n)
      /\ ToSet(written.cells) = {WrittenCell(n) : n \in {n \in M : graph.nodes[n].type = "skip"}}
  BY DEF Writing
<1>2. \A n : (Unwritable(n)' <=> Unwritable(n)) /\ WrittenCell(n)' = WrittenCell(n)
  BY WrittenSame
<1>3. \A n \in M : LiveNode(graph', n) /\ ~Unwritable(n)'
  BY <1>1, <1>2
<1>4. {WrittenCell(n)' : n \in {n \in M : graph'.nodes[n].type = "skip"}}
        = {WrittenCell(n) : n \in {n \in M : graph.nodes[n].type = "skip"}}
  BY <1>2
<1>5. ToSet(written.cells)' = ToSet(written.cells)
  BY DEF ToSet
<1> QED BY <1>1, <1>3, <1>4, <1>5 DEF Writing

(* Appending an element to a list adds it to its elements.                 *)
LEMMA AppendSet ==
  ASSUME NEW s, s \in Seq(ToSet(s)), NEW x
  PROVE  ToSet(Append(s, x)) = ToSet(s) \cup {x}
<1> DEFINE e == Append(s, x)
           L == Len(s) + 1
<1>1. DOMAIN e = DOMAIN s \cup {L} /\ e[L] = x /\ \A i \in DOMAIN s : e[i] = s[i]
  BY AppendSelf
<1>2. L \notin DOMAIN s
  BY AppendSelf
<1> HIDE DEF e, L
<1>3. ToSet(e) = ToSet(s) \cup {x}
  BY <1>1, <1>2 DEF ToSet
<1> QED BY <1>3 DEF e

(* Entering a cell writes it, and nothing else.                            *)
LEMMA VisitWriting ==
  ASSUME stage = "write", stage' # "refused", NEW U, Writing(U, marked),
         WrittenFrom(graph, written, marked), NEW n, LiveNode(graph, n), n \notin U,
         Visit(n), graph' = graph
  PROVE  Writing(U, marked)'
<1> DEFINE T(X) == {x \in X : graph.nodes[x].type = "skip"}
           W(X) == {WrittenCell(x) : x \in T(X)}
<1>0. /\ marked \cap U = {} /\ \A x \in marked : LiveNode(graph, x) /\ ~Unwritable(x)
      /\ ToSet(written.cells) = W(marked)
  BY DEF Writing
<1>1. /\ marked' = marked \cup {n} /\ ~Unwritable(n)
      /\ written' = IF graph.nodes[n].type = "skip"
                    THEN [written EXCEPT !.cells = Append(@, WrittenCell(n))]
                    ELSE written
  BY DEF Visit, Refuse
<1>2. ToSet(written'.cells) = W(marked')
  <2>1. CASE graph.nodes[n].type = "skip"
    <3> DEFINE s == written.cells
               c == WrittenCell(n)
               e == Append(s, c)
    <3>1. written = [cells |-> s, connects |-> written.connects] /\ s \in Seq(ToSet(s))
      BY DEF WrittenFrom
    <3>2. ToSet(e) = ToSet(s) \cup {c}
      BY <3>1, AppendSet
    <3>3. T(marked') = T(marked) \cup {n}
      BY <1>1, <2>1
    <3>4. W(marked') = W(marked) \cup {c}
      <4> HIDE DEF T
      <4> QED BY <3>3
    <3>5. written' = [written EXCEPT !.cells = e]
      BY <1>1, <2>1
    <3> HIDE DEF s, e, c, W
    <3>6. written'.cells = e
      BY <3>1, <3>5
    <3> QED BY <1>0, <3>2, <3>4, <3>6 DEF s
  <2>2. CASE graph.nodes[n].type # "skip"
    <3>1. T(marked') = T(marked)
      BY <1>1, <2>2
    <3>2. W(marked') = W(marked)
      <4> HIDE DEF T
      <4> QED BY <3>1
    <3> HIDE DEF W
    <3> QED BY <1>0, <1>1, <2>2, <3>2
  <2> QED BY <2>1, <2>2
<1>3. \A x : (Unwritable(x)' <=> Unwritable(x)) /\ WrittenCell(x)' = WrittenCell(x)
  BY WrittenSame
<1>4. {WrittenCell(x)' : x \in {x \in marked' : graph'.nodes[x].type = "skip"}} = W(marked')
  BY <1>3
<1>5. \A x \in marked' : LiveNode(graph', x) /\ ~Unwritable(x)'
  BY <1>0, <1>1, <1>3
<1>6. marked' \cap U = {}
  BY <1>0, <1>1
<1>7. ToSet(written.cells)' = {WrittenCell(x)' : x \in {x \in marked' : graph'.nodes[x].type = "skip"}}
  <2>1. ToSet(written.cells)' = ToSet(written'.cells)
    BY DEF ToSet
  <2> HIDE DEF W
  <2> QED BY <1>2, <1>4, <2>1
<1> QED BY <1>5, <1>6, <1>7 DEF Writing

(* Nothing changes for the links while netlist, written cells and marks    *)
(* stay.                                                                   *)
LEMMA StillLinks ==
  ASSUME LinkInv, graph' = graph, design' = design, written' = written, marked' = marked,
         stage' = stage
  PROVE  LinkInv'
<1>1. ASSUME stage = "write"
      PROVE  \E U \in SUBSET DOMAIN graph.nodes : Swept(graph, design, U) /\ Writing(U, marked)'
  <2>1. PICK U \in SUBSET DOMAIN graph.nodes : Swept(graph, design, U) /\ Writing(U, marked)
    BY <1>1 DEF LinkInv
  <2>2. PICK M : M = marked
    OBVIOUS
  <2>3. Writing(U, M)
    BY <2>1, <2>2
  <2>4. Writing(U, M)'
    BY <2>3, WritingSame
  <2>5. Writing(U, marked)'
    BY <2>2, <2>4
  <2> QED BY <2>1, <2>5
<1>2. ASSUME stage = "outputs"
      PROVE  \E U \in SUBSET DOMAIN graph.nodes : \E M \in SUBSET DOMAIN graph.nodes :
               /\ Swept(graph, design, U) /\ Writing(U, M)'
               /\ WalkClosed(graph, M, <<>>) /\ 1 .. SourceCount(design) \subseteq M
  <2>1. PICK U \in SUBSET DOMAIN graph.nodes : \E M \in SUBSET DOMAIN graph.nodes :
               /\ Swept(graph, design, U) /\ Writing(U, M)
               /\ WalkClosed(graph, M, <<>>) /\ 1 .. SourceCount(design) \subseteq M
    BY <1>2 DEF LinkInv
  <2>2. PICK M \in SUBSET DOMAIN graph.nodes :
               /\ Swept(graph, design, U) /\ Writing(U, M)
               /\ WalkClosed(graph, M, <<>>) /\ 1 .. SourceCount(design) \subseteq M
    BY <2>1
  <2>3. Writing(U, M)'
    BY <2>2, WritingSame
  <2> QED BY <2>2, <2>3
<1> QED BY <1>1, <1>2 DEF LinkInv

(* Entering a node that was not swept keeps the invariant of the links.    *)
LEMMA VisitLinks ==
  ASSUME WalkInv, LinkInv, stage \in Walks, NEW n, LiveNode(graph, n), Visit(n),
         graph' = graph, design' = design,
         \A U : stage = "write" /\ Swept(graph, design, U) => n \notin U
  PROVE  LinkInv'
<1>1. stage' \in {stage, "refused"}
  BY DEF Visit, Refuse
<1>2. CASE stage' = "refused"
  BY <1>2 DEF LinkInv
<1>3. CASE stage' # "refused" /\ stage = "map"
  BY <1>1, <1>3 DEF LinkInv
<1>4. CASE stage' # "refused" /\ stage = "write"
  <2>1. PICK U \in SUBSET DOMAIN graph.nodes : Swept(graph, design, U) /\ Writing(U, marked)
    BY <1>4 DEF LinkInv
  <2>2. WrittenFrom(graph, written, marked)
    BY <1>4 DEF WalkInv
  <2>3. Writing(U, marked)'
    BY <1>4, <2>1, <2>2, VisitWriting
  <2>4. NetsMean(graph, design)
    BY <1>4 DEF LinkInv
  <2> QED BY <1>1, <1>4, <2>1, <2>3, <2>4 DEF LinkInv
<1> QED BY <1>1, <1>2, <1>3, <1>4 DEF Walks

(* Entering a constant or an input keeps it.                               *)
LEMMA VisitRootLinks ==
  ASSUME GraphInv, WalkInv, LinkInv, VisitRoot
  PROVE  LinkInv'
<1> DEFINE n == Roots[position]
           L == SourceCount(design)
<1>1. stage \in Walks /\ position \in DOMAIN Roots
  BY DEF VisitRoot, Walking, Walks
<1>2. design \in Designs /\ n \in 1 .. L
  BY <1>1, WalkingFacts, RootFacts
<1>3. Visit(n) /\ design' = design /\ graph' = graph
  BY DEF VisitRoot
<1>4. n \in 1 .. Before(design)
  <2>1. L \in Nat /\ design.outputs \in Seq(Names)
    BY <1>2, DesignFacts
  <2> HIDE DEF n, L
  <2>2. n \in 1 .. (L + Len(design.outputs))
    BY <1>2, <2>1
  <2> QED BY <2>2 DEF Before, L
<1>5. \A U : Swept(graph, design, U) => n \notin U
  <2> HIDE DEF n
  <2> QED BY <1>4 DEF Swept
<1>6. LiveNode(graph, n)
  BY <1>1, <1>2, WalkingFacts, RootLive
<1> HIDE DEF n, L
<1> QED BY <1>1, <1>3, <1>5, <1>6, VisitLinks

(* Entering a reader keeps it: a reader in a list was not swept.           *)
LEMMA VisitReaderLinks ==
  ASSUME GraphInv, WalkInv, LinkInv, VisitReader
  PROVE  LinkInv'
<1> DEFINE p == Reader(Running)
           n == graph.pins[p].node
<1>1. AtReader /\ p # Null
  BY DEF VisitReader, Unmarked
<1>2. Visit(n) /\ design' = design /\ graph' = graph
  BY DEF VisitReader
<1>3. stage \in Walks /\ LiveNode(graph, n)
  BY <1>1, AtReaderFacts
<1>4. calls # <<>> /\ Running.net # Null /\ Running.reader \in DOMAIN graph.nets[Running.net].fanouts
  BY <1>1 DEF AtReader
<1>5. LiveNet(graph, Running.net)
  BY <1>4, RunningFacts
<1>6. p = graph.nets[Running.net].fanouts[Running.reader]
  BY DEF Reader
<1> HIDE DEF p
<1>7. \A U : Swept(graph, design, U) => n \notin U
  BY <1>1, <1>4, <1>5, <1>6 DEF Swept, Listed
<1> HIDE DEF n
<1> QED BY <1>2, <1>3, <1>7, VisitLinks

(* Leaving a node keeps it: a buffer that is removed takes no true driver  *)
(* from a net.                                                             *)
LEMMA ReturnLinks ==
  ASSUME GraphInv, LinkInv, Return
  PROVE  LinkInv'
<1> DEFINE n == Running.node
<1>1. /\ stage \in Walks /\ calls # <<>> /\ design' = design /\ written' = written /\ marked' = marked
      /\ stage' \in {stage, "refused"}
  BY DEF Return, Walking, Walks, Refuse
<1>2. design \in Designs /\ HookedGraph(graph, design)
  BY <1>1, WalkingFacts
<1>3. LiveNode(graph, n)
  BY <1>1, RunningFacts DEF CallOK
<1>4. CASE stage' = "refused"
  BY <1>4 DEF LinkInv
<1>5. CASE stage' # "refused" /\ stage = "map"
  <2>1. ~LoopsBack(n) /\ graph' = PartialMapNode(n)
    BY <1>5 DEF Return, Refuse
  <2>2. Placed(graph) /\ NetsMean(graph, design)
    BY <1>1, <1>5, WalkingFacts DEF LinkInv
  <2> HIDE DEF n
  <2>3. NetsMean(PartialMapNode(n), design)
    BY <1>2, <1>3, <2>1, <2>2, MappedMeans
  <2> QED BY <1>1, <1>5, <2>1, <2>3 DEF LinkInv
<1>6. CASE stage' # "refused" /\ stage # "map"
  <2>1. graph' = graph
    BY <1>6 DEF Return
  <2> QED BY <1>1, <1>6, <2>1, StillLinks
<1> QED BY <1>4, <1>5, <1>6

(* At the end of the writing, the nodes that were visited are closed and   *)
(* were all written.                                                       *)
LEMMA TraversalDoneLinks ==
  ASSUME GraphInv, WalkInv, LinkInv, TraversalDone
  PROVE  LinkInv'
<1> DEFINE L == SourceCount(design)
<1>1. /\ stage \in Walks /\ calls = <<>> /\ position \notin DOMAIN Roots
      /\ design' = design /\ graph' = graph /\ written' = written
      /\ stage' = IF stage = "map" THEN "sweep" ELSE "outputs"
  BY DEF TraversalDone, Walking, Walks
<1>2. design \in Designs
  BY <1>1, WalkingFacts
<1>3. CASE stage = "map"
  BY <1>1, <1>3 DEF LinkInv
<1>4. CASE stage = "write"
  <2>1. DOMAIN Roots = 1 .. L /\ L \in Nat /\ \A n \in 1 .. L : \E i \in DOMAIN Roots : Roots[i] = n
    BY <1>2, RootFacts
  <2>2. position \in 1 .. L + 1
    BY <1>1 DEF WalkInv
  <2>3. \A i \in DOMAIN Roots : i < position
    <3> HIDE DEF L
    <3> QED BY <1>1, <2>1, <2>2
  <2>4. PICK M : M = marked
    OBVIOUS
  <2>5. 1 .. L \subseteq M
    <3>1. \A i \in DOMAIN Roots : Roots[i] \in marked
      BY <1>1, <2>3 DEF WalkInv
    <3> QED BY <2>1, <2>4, <3>1
  <2>6. WalkClosed(graph, M, <<>>)
    BY <1>1, <2>4 DEF WalkInv
  <2>7. M \in SUBSET DOMAIN graph.nodes
    BY <2>6 DEF WalkClosed
  <2>8. PICK U \in SUBSET DOMAIN graph.nodes : Swept(graph, design, U) /\ Writing(U, marked)
    BY <1>4 DEF LinkInv
  <2>9. Writing(U, M)
    BY <2>4, <2>8
  <2>10. Writing(U, M)'
    BY <1>1, <2>9, WritingSame
  <2>11. NetsMean(graph, design) /\ stage' = "outputs"
    BY <1>1, <1>4 DEF LinkInv
  <2> QED BY <1>1, <2>5, <2>6, <2>7, <2>8, <2>10, <2>11 DEF LinkInv
<1> QED BY <1>1, <1>3, <1>4 DEF Walks

(* The sweep establishes it for the writer.                                *)
LEMMA SweepLinks ==
  ASSUME GraphInv, WalkInv, MeaningInv, LinkInv, RemoveUnusedLogic
  PROVE  LinkInv'
<1>1. /\ design \in Designs /\ HookedGraph(graph, design) /\ graph \in GraphSet
      /\ design' = design /\ written' = written /\ written = Nothing /\ marked' = {}
      /\ stage = "sweep" /\ stage' = "write"
      /\ SameSources(graph, design) /\ NetsMean(graph, design)
  BY DEF GraphInv, ImportInv, RemoveUnusedLogic, Walks, walkVars, WalkInv, MeaningInv, LinkInv
<1>2. PICK U \in SUBSET DOMAIN graph'.nodes : Swept(graph', design', U)
  BY <1>1, SweepSwept
<1>3. NetsMean(graph', design')
  <2> DEFINE h == graph'
             X == Useless
  <2>1. Trimmed(graph, h, X)
    BY <1>1, SweepTrims
  <2> HIDE DEF h, X
  <2>2. NetsMean(h, design)
    BY <1>1, <2>1, TrimmedMeans
  <2> QED BY <1>1, <2>2 DEF h
<1>4. Writing(U, marked)'
  <2>1. ToSet(written.cells)' = {}
    <3>1. written'.cells = <<>>
      BY <1>1 DEF Nothing
    <3> QED BY <3>1 DEF ToSet
  <2> QED BY <1>1, <2>1 DEF Writing
<1> QED BY <1>1, <1>2, <1>3, <1>4 DEF LinkInv

(* Every step keeps the invariant of the links.                            *)
LEMMA LinkNext ==
  ASSUME GraphInv, WalkInv, MeaningInv, LinkInv, [Next]_vars
  PROVE  LinkInv'
<1>1. CASE ImportCell \/ LastCell \/ ImportConnection \/ LastConnection
  <2>1. stage' \in {"cells", "connections", "hook_up"}
    BY <1>1 DEF ImportCell, LastCell, ImportConnection, LastConnection
  <2> QED BY <2>1 DEF LinkInv
<1>2. CASE HookUp
  <2>1. stage' \in {"map", "refused"}
    BY <1>2 DEF HookUp, Refuse
  <2>2. stage' # "refused" => NetsMean(graph', design')
    BY <1>2, HookUpMeans
  <2> QED BY <2>1, <2>2 DEF LinkInv
<1>3. CASE SkipReader
  BY <1>3, StillLinks DEF SkipReader
<1>4. CASE NextOutputPin
  BY <1>4, StillLinks DEF NextOutputPin
<1>5. CASE WriteOutputs
  BY <1>5 DEF WriteOutputs, LinkInv
<1>6. CASE UNCHANGED vars
  BY <1>6, StillLinks DEF vars
<1> QED BY <1>1, <1>2, <1>3, <1>4, <1>5, <1>6, VisitRootLinks, VisitReaderLinks, ReturnLinks,
           TraversalDoneLinks, SweepLinks DEF Next

(* The nets keep the sources the design gives them, the sweep takes off    *)
(* exactly the readers no output depends on, and the writer has written    *)
(* the cells it has visited, none of them among those.                     *)
THEOREM LinkInvariant == Spec => []LinkInv
<1>1. Init => LinkInv
  BY DEF Init, LinkInv
<1>2. GraphInv /\ WalkInv /\ MeaningInv /\ LinkInv /\ [Next]_vars => LinkInv'
  BY LinkNext
<1> QED BY <1>1, <1>2, GraphInvariant, WalkInvariant, MeaningInvariant, PTL DEF Spec

-----------------------------------------------------------------------------
(* What is written.                                                        *)

(* A finished walk: from the sources, along the lists of the nets, over    *)
(* no buffer and no node of U.                                             *)
Walked(g, d, U, M) ==
  /\ Swept(g, d, U) /\ WalkClosed(g, M, <<>>) /\ 1 .. SourceCount(d) \subseteq M
  /\ M \cap U = {} /\ \A n \in M : LiveNode(g, n) /\ g.nodes[n].type # "buf"

(* What an entered node feeds was entered, unless it was swept.            *)
LEMMA Onward ==
  ASSUME NEW d \in Designs, NEW g, HookedGraph(g, d), NEW U, Listed(g, U),
         NEW M, WalkClosed(g, M, <<>>), NEW a \in M, NEW b, Feeding(g, a, b), b \notin U
  PROVE  b \in M
<1>1. PICK p, q \in DOMAIN g.pins :
        /\ LivePin(g, p) /\ g.pins[p].output /\ g.pins[p].node = a
        /\ LivePin(g, q) /\ ~g.pins[q].output /\ g.pins[q].node = b
        /\ g.pins[p].net = g.pins[q].net
  BY DEF Feeding
<1> DEFINE i == g.pins[p].slot
           k == g.pins[q].place
           m == g.pins[q].net
<1>2. AtPlace(g, q)
  BY <1>1 DEF Listed
<1>3. k \in DOMAIN g.nets[m].fanouts /\ g.nets[m].fanouts[k] = q
  BY <1>2 DEF AtPlace
<1>4. LiveNode(g, a)
  BY <1>1, PinNode
<1>5. i \in DOMAIN g.nodes[a].outs /\ g.nodes[a].outs[i] = p
  BY <1>1 DEF HookedGraph, Agree, LivePin, PinOK, OutPinOK
<1>6. NetOf(g, a, i) = m
  BY <1>1, <1>5 DEF NetOf
<1>7. q # Null
  BY <1>1, GraphType DEF HookedGraph, Null
<1>8. Reader0(g, a, i, k) = q
  BY <1>3, <1>6 DEF Reader0
<1>9. Closing(g, M, <<>>, a)
  BY <1>4 DEF WalkClosed, LiveNode
<1>10. ~Ahead(<<>>, a, i, k)
  BY DEF Ahead
<1> HIDE DEF i, k, m
<1> QED BY <1>1, <1>3, <1>5, <1>6, <1>7, <1>8, <1>9, <1>10 DEF Closing

(* A walk from the sources gets to every cell that is left.                *)
LEMMA CellsVisited ==
  ASSUME NEW d \in Designs, NEW g, HookedGraph(g, d), NetsMean(g, d), SameSources(g, d),
         NEW U, Swept(g, d, U), NEW M, WalkClosed(g, M, <<>>), 1 .. SourceCount(d) \subseteq M,
         NEW c \in DOMAIN d.cells, Before(d) + c \notin U
  PROVE  Before(d) + c \in M
<1> DEFINE X == {n \in DOMAIN g.nodes : n \notin U /\ n \notin M}
           n0 == Before(d) + c
<1>1. Listed(g, U) /\ \A a, b : Feeding(g, a, b) /\ b \notin U => a \notin U
  BY DEF Swept
<1>2. BackClosed(g, X)
  <2> SUFFICES ASSUME NEW a, NEW b, Feeding(g, a, b), b \in X PROVE a \in X
    BY DEF BackClosed
  <2>1. a \in DOMAIN g.nodes
    BY PinNode DEF Feeding
  <2>2. a \notin U
    BY <1>1
  <2>3. a \notin M
    BY <1>1, Onward
  <2> QED BY <2>1, <2>2, <2>3
<1>3. \A i \in 1 .. SourceCount(d) : i \notin X
  OBVIOUS
<1>4. n0 \notin X
  <2> HIDE DEF X
  <2> QED BY <1>2, <1>3, CellsReached
<1>5. c \in 1 .. Len(d.cells)
  BY CellFacts
<1>6. n0 \in DOMAIN g.nodes
  BY <1>5 DEF HookedGraph, Layout, CellHas, NodeIs, NodeHas
<1>7. n0 \notin U
  OBVIOUS
<1> HIDE DEF n0
<1>8. n0 \in M
  BY <1>4, <1>6, <1>7
<1> QED BY <1>8 DEF n0

(* The sources and the cells that are left are all there is outside U that *)
(* is neither a buffer nor an output.                                      *)
LEMMA DriverVisited ==
  ASSUME NEW d \in Designs, NEW g, HookedGraph(g, d), NetsMean(g, d), SameSources(g, d),
         NEW U, NEW M, Walked(g, d, U, M), NEW p, LivePin(g, p), g.pins[p].output,
         g.nodes[g.pins[p].node].type # "buf", g.pins[p].node \notin U
  PROVE  g.pins[p].node \in M
<1> DEFINE a == g.nets[g.pins[p].net].name
<1>1. FromSource(g, d, p, a) \/ FromCell(g, d, p, a)
  BY TruePinGives
<1> HIDE DEF a
<1>2. CASE FromSource(g, d, p, a)
  BY <1>2 DEF FromSource, IsSource, Walked
<1>3. CASE FromCell(g, d, p, a)
  BY <1>3, CellsVisited DEF FromCell, Walked
<1> QED BY <1>1, <1>2, <1>3

(* The buffers that are left carry nothing: what drives the net of a       *)
(* reader drives it directly.                                              *)
LEMMA DirectDrivers ==
  ASSUME NEW d \in Designs, NEW g, HookedGraph(g, d), NetsMean(g, d), SameSources(g, d),
         NEW U, NEW M, Walked(g, d, U, M), NEW q, LivePin(g, q), ~g.pins[q].output,
         g.pins[q].node \notin U
  PROVE  \A p : TruePin(g, g.pins[q].net, p) <=>
           /\ LivePin(g, p) /\ g.pins[p].output /\ g.pins[p].net = g.pins[q].net
           /\ g.nodes[g.pins[p].node].type # "buf"
<1> DEFINE m == g.pins[q].net
           Out(k) == \A x : LivePin(g, x) /\ g.pins[x].output /\ g.pins[x].net = k
                              => g.pins[x].node \notin M /\ g.pins[x].node \notin U
           v == {k \in DOMAIN g.nets : k = m \/ Out(k)}
<1>0. /\ Listed(g, U) /\ WalkClosed(g, M, <<>>)
      /\ \A a, b : Feeding(g, a, b) /\ b \notin U => a \notin U
      /\ \A n \in M : g.nodes[n].type # "buf"
  BY DEF Walked, Swept
<1>1. g \in GraphSet /\ LiveNet(g, m)
  BY PinNode DEF HookedGraph
<1>2. m \in v
  BY <1>1 DEF LiveNet
<1>3. \A n : LiveBuf(g, n) /\ NetOut(g, n) \in v => NetIn(g, n) \in v
  <2> SUFFICES ASSUME NEW n, LiveBuf(g, n), NetOut(g, n) \in v PROVE NetIn(g, n) \in v
    OBVIOUS
  <2> DEFINE i == g.nodes[n].ins[1]
             o == g.nodes[n].outs[1]
  <2>1. BufferShape(g, n, i, o) /\ NetIn(g, n) \in DOMAIN g.nets
    BY BufferNets DEF LiveNet
  <2>2. NetIn(g, n) = g.pins[i].net /\ NetOut(g, n) = g.pins[o].net
    BY DEF NetIn, NetOut
  <2> HIDE DEF i, o
  <2>3. /\ LivePin(g, i) /\ g.pins[i].node = n /\ ~g.pins[i].output
        /\ LivePin(g, o) /\ g.pins[o].node = n /\ g.pins[o].output
    BY <2>1 DEF BufferShape
  <2>4. n \notin M
    BY <1>0 DEF LiveBuf
  <2>5. n \notin U
    <3>1. CASE NetOut(g, n) = m
      <4>1. Feeding(g, n, g.pins[q].node)
        BY <2>2, <2>3, <3>1, FeedPins
      <4> QED BY <1>0, <4>1
    <3>2. CASE Out(NetOut(g, n))
      BY <2>2, <2>3, <3>2
    <3> QED BY <3>1, <3>2
  <2>6. ASSUME NEW x, LivePin(g, x), g.pins[x].output, g.pins[x].net = NetIn(g, n)
        PROVE  g.pins[x].node \notin M /\ g.pins[x].node \notin U
    <3>1. Feeding(g, g.pins[x].node, n)
      BY <2>2, <2>3, <2>6, FeedPins
    <3> QED BY <1>0, <2>4, <2>5, <3>1, Onward
  <2>7. Out(NetIn(g, n))
    BY <2>6
  <2> QED BY <2>1, <2>7
<1>4. m \in Upstream(g, m) /\ Upstream(g, m) \subseteq v
  <2> HIDE DEF v
  <2> QED BY <1>1, <1>2, <1>3, UpstreamFacts
<1>5. ASSUME NEW p, TruePin(g, m, p)
      PROVE  g.pins[p].net = m
  <2>1. LivePin(g, p) /\ g.pins[p].output /\ g.pins[p].net \in Upstream(g, m) /\ g.nodes[g.pins[p].node].type # "buf"
    BY <1>5 DEF TruePin
  <2>2. SUFFICES ASSUME Out(g.pins[p].net) PROVE FALSE
    BY <1>4, <2>1
  <2>3. g.pins[p].node \notin M /\ g.pins[p].node \notin U
    BY <2>1, <2>2
  <2> QED BY <2>1, <2>3, DriverVisited
<1>6. \A p : TruePin(g, m, p) <=>
           /\ LivePin(g, p) /\ g.pins[p].output /\ g.pins[p].net = m
           /\ g.nodes[g.pins[p].node].type # "buf"
  <2> HIDE DEF m, v
  <2> QED BY <1>4, <1>5 DEF TruePin
<1> QED BY <1>6

(* The state in which the last wires are written.                          *)
Finished(U, M) ==
  /\ design \in Designs /\ HookedGraph(graph, design)
  /\ NetsMean(graph, design) /\ SameSources(graph, design)
  /\ Walked(graph, design, U, M) /\ Writing(U, M)
  /\ \A n : LiveNode(graph, n) /\ graph.nodes[n].type = "skip" /\ n \notin U => MappedNode(graph, n)

(* Before the outputs are connected, exactly the cells that were not swept *)
(* have been written.                                                      *)
LEMMA OutputsFinished ==
  ASSUME GraphInv, WalkInv, MeaningInv, LinkInv, stage = "outputs"
  PROVE  \E U, M : Finished(U, M)
<1>1. /\ design \in Designs /\ HookedGraph(graph, design)
      /\ NetsMean(graph, design) /\ SameSources(graph, design)
  BY DEF GraphInv, ImportInv, MeaningInv, LinkInv
<1>2. PICK U \in SUBSET DOMAIN graph.nodes : \E M \in SUBSET DOMAIN graph.nodes :
         /\ Swept(graph, design, U) /\ Writing(U, M)
         /\ WalkClosed(graph, M, <<>>) /\ 1 .. SourceCount(design) \subseteq M
  BY DEF LinkInv
<1>3. PICK M \in SUBSET DOMAIN graph.nodes :
         /\ Swept(graph, design, U) /\ Writing(U, M)
         /\ WalkClosed(graph, M, <<>>) /\ 1 .. SourceCount(design) \subseteq M
  BY <1>2
<1>4. PICK V \in SUBSET DOMAIN graph.nodes : Covered(graph, design, V)
  BY DEF WalkInv
<1>5. Walked(graph, design, U, M)
  BY <1>3 DEF Walked, Writing, Unwritable
<1>6. ASSUME NEW n, LiveNode(graph, n), graph.nodes[n].type = "skip", n \notin U
      PROVE  MappedNode(graph, n)
  <2>1. IsCell(graph, design, n)
    BY <1>1, <1>6, SkipIsCell
  <2>2. PICK c \in 1 .. Len(design.cells) : n = Before(design) + c
    BY <2>1 DEF IsCell
  <2>3. c \in DOMAIN design.cells
    BY <1>1, DesignFacts
  <2>4. n \in V
    BY <1>1, <1>3, <1>4, <1>6, <2>2, <2>3, CellsVisited DEF Covered
  <2> QED BY <1>4, <2>4 DEF Covered
<1> QED BY <1>1, <1>3, <1>5, <1>6 DEF Finished

(* The cells in the new module are those that are left.                    *)
LEMMA CellsAre ==
  ASSUME NEW U, NEW M, Finished(U, M)
  PROVE  \A c : c \in ToSet(written.cells) <=>
           \E n : LiveNode(graph, n) /\ graph.nodes[n].type = "skip" /\ n \notin U /\ c = WrittenCell(n)
<1>1. ToSet(written.cells) = {WrittenCell(n) : n \in {n \in M : graph.nodes[n].type = "skip"}}
  BY DEF Finished, Writing
<1>2. \A n : n \in M /\ graph.nodes[n].type = "skip" <=>
        LiveNode(graph, n) /\ graph.nodes[n].type = "skip" /\ n \notin U
  <2> SUFFICES ASSUME NEW n, graph.nodes[n].type = "skip"
               PROVE  n \in M <=> LiveNode(graph, n) /\ n \notin U
    OBVIOUS
  <2>1. ASSUME n \in M PROVE LiveNode(graph, n) /\ n \notin U
    BY <2>1 DEF Finished, Walked
  <2>2. ASSUME LiveNode(graph, n), n \notin U PROVE n \in M
    <3>1. IsCell(graph, design, n)
      BY <2>2, SkipIsCell DEF Finished
    <3>2. PICK c \in 1 .. Len(design.cells) : n = Before(design) + c
      BY <3>1 DEF IsCell
    <3>3. c \in DOMAIN design.cells
      BY DesignFacts DEF Finished
    <3> QED BY <2>2, <3>2, <3>3, CellsVisited DEF Finished, Walked
  <2> QED BY <2>1, <2>2
<1> HIDE DEF Finished
<1>3. \A c : c \in ToSet(written.cells) <=> \E n \in M : graph.nodes[n].type = "skip" /\ c = WrittenCell(n)
  BY <1>1
<1> QED BY <1>2, <1>3

(* What a written cell drives.                                             *)
CellWires(n, c) ==
  /\ c.name = graph.nodes[n].name
  /\ DOMAIN c.ins = DOMAIN graph.nodes[n].ins /\ DOMAIN c.outs = DOMAIN graph.nodes[n].outs
  /\ \A i \in DOMAIN c.ins : c.ins[i] = WireOf(DriversOf(graph.nodes[n].ins[i])[1])
  /\ \A i \in DOMAIN c.outs : c.outs[i] = <<graph.nodes[n].name, i>>

(* The writer names the outputs of a cell after the cell, and its inputs   *)
(* after their first drivers.                                              *)
LEMMA WrittenWires ==
  ASSUME NEW U, NEW M, Finished(U, M), NEW n, LiveNode(graph, n), graph.nodes[n].type = "skip", n \notin U
  PROVE  CellWires(n, WrittenCell(n))
<1> DEFINE c == WrittenCell(n)
           I == DOMAIN graph.nodes[n].ins
           O == DOMAIN graph.nodes[n].outs
           a(i) == WireOf(DriversOf(graph.nodes[n].ins[i])[1])
           b(i) == graph.pins[graph.nodes[n].outs[i]].name
<1>1. c = [name |-> graph.nodes[n].name, ins |-> [i \in I |-> a(i)], outs |-> [i \in O |-> b(i)]]
  BY Zenon DEF WrittenCell
<1>2. \A i \in O : b(i) = <<graph.nodes[n].name, i>>
  BY DEF Finished, MappedNode, LiveNode
<1> HIDE DEF c, I, O, a, b
<1>3. /\ c.name = graph.nodes[n].name /\ DOMAIN c.ins = I /\ DOMAIN c.outs = O
      /\ \A i \in I : c.ins[i] = a(i)
      /\ \A i \in O : c.outs[i] = b(i)
  BY <1>1
<1>4. \A i \in DOMAIN c.outs : c.outs[i] = <<graph.nodes[n].name, i>>
  BY <1>2, <1>3
<1> QED BY <1>3, <1>4 DEF CellWires, c, I, O, a

(* The wire an output pin stands for in the new module.                    *)
PinWire(p) ==
  IF graph.nodes[graph.pins[p].node].type = "skip"
  THEN <<graph.nodes[graph.pins[p].node].name, graph.pins[p].slot>>
  ELSE <<graph.nodes[graph.pins[p].node].name, 0>>

(* Cells and outputs name the wire of a driver in the same way.            *)
LEMMA PinWires ==
  ASSUME NEW U, NEW M, Finished(U, M), NEW p, LivePin(graph, p), graph.pins[p].output,
         graph.pins[p].node \notin U
  PROVE  WireOf(p) = PinWire(p) /\ OutputWire(p) = PinWire(p)
<1> DEFINE n == graph.pins[p].node
           c == graph.nodes[n]
           x == graph.pins[p].name
           s == graph.pins[p].slot
<1>1. x \in DriverNames(c, s)
  BY DEF Finished, HookedGraph, PinNamesOK, LivePin
<1>2. LiveNode(graph, n)
  BY PinNode DEF Finished
<1>3. <<c.name, 0>> # NoName /\ <<c.name, s>> # NoName
  BY DEF NoName
<1>4. CASE c.type = "skip"
  <2>1. MappedNode(graph, n)
    BY <1>2, <1>4 DEF Finished
  <2>2. s \in DOMAIN graph.nodes[n].outs /\ graph.nodes[n].outs[s] = p
    BY DEF Finished, HookedGraph, Agree, LivePin, PinOK, OutPinOK
  <2>3. x = <<c.name, s>>
    BY <1>2, <1>4, <2>1, <2>2 DEF MappedNode, LiveNode
  <2> QED BY <1>3, <1>4, <2>3 DEF PinWire, WireOf, OutputWire
<1>5. CASE c.type # "skip"
  <2>1. x \in {NoName, <<c.name, 0>>}
    BY <1>1, <1>5 DEF DriverNames
  <2> QED BY <1>3, <1>5, <2>1 DEF PinWire, WireOf, OutputWire
<1> QED BY <1>4, <1>5

CellWire(U, n, i, w) ==
  /\ LiveNode(graph, n) /\ graph.nodes[n].type = "skip" /\ n \notin U
  /\ i \in DOMAIN graph.nodes[n].outs /\ w = <<graph.nodes[n].name, i>>

(* A wire carries the input or constant it is named after, or the output   *)
(* of a written cell.                                                      *)
LEMMA WireSourcesAre ==
  ASSUME NEW U, NEW M, Finished(U, M), NEW w
  PROVE  \A e : e \in WireSources(w) <=>
           \/ \E b \in ToSet(SourceBits(design)) : w = <<b, 0>> /\ e = <<b, 1>>
           \/ e = w /\ \E n, i : CellWire(U, n, i, w)
<1> DEFINE S == ToSet(SourceBits(design))
           C == ToSet(written.cells)
<1>1. WireSources(w) = {<<b, 1>> : b \in {b \in S : w = <<b, 0>>}}
           \cup UNION {{<<c.name, i>> : i \in {i \in DOMAIN c.outs : c.outs[i] = w}} : c \in C}
  BY DEF WireSources
<1>2. \A c : c \in C <=>
        \E n : LiveNode(graph, n) /\ graph.nodes[n].type = "skip" /\ n \notin U /\ c = WrittenCell(n)
  BY CellsAre
<1> HIDE DEF S, C
<1>3. \A e : e \in WireSources(w) <=>
        \/ \E b \in S : w = <<b, 0>> /\ e = <<b, 1>>
        \/ \E c \in C : \E i \in DOMAIN c.outs : c.outs[i] = w /\ e = <<c.name, i>>
  BY <1>1
<1>4. ASSUME NEW c \in C, NEW i \in DOMAIN c.outs, c.outs[i] = w, NEW e, e = <<c.name, i>>
      PROVE  e = w /\ \E n, k : CellWire(U, n, k, w)
  <2>1. PICK n : LiveNode(graph, n) /\ graph.nodes[n].type = "skip" /\ n \notin U /\ c = WrittenCell(n)
    BY <1>2
  <2>2. CellWires(n, c)
    BY <2>1, WrittenWires
  <2>3. CellWire(U, n, i, w) /\ e = w
    BY <1>4, <2>1, <2>2 DEF CellWires, CellWire
  <2> QED BY <2>3
<1>5. ASSUME NEW n, NEW i, CellWire(U, n, i, w)
      PROVE  \E c \in C : \E k \in DOMAIN c.outs : c.outs[k] = w /\ w = <<c.name, k>>
  <2> DEFINE c == WrittenCell(n)
  <2>1. LiveNode(graph, n) /\ graph.nodes[n].type = "skip" /\ n \notin U
    BY <1>5 DEF CellWire
  <2>2. CellWires(n, c)
    BY <2>1, WrittenWires
  <2> HIDE DEF c
  <2>3. c \in C
    BY <1>2, <2>1 DEF c
  <2>4. i \in DOMAIN c.outs /\ c.outs[i] = w /\ w = <<c.name, i>>
    BY <1>5, <2>2 DEF CellWires, CellWire
  <2> QED BY <2>3, <2>4
<1>6. \A e : e \in WireSources(w) <=>
           \/ \E b \in S : w = <<b, 0>> /\ e = <<b, 1>>
           \/ e = w /\ \E n, i : CellWire(U, n, i, w)
  BY <1>3, <1>4, <1>5
<1> QED BY <1>6 DEF S

(* No slot has the number zero, so the wire of a cell is never that of an  *)
(* input.                                                                  *)
LEMMA SlotNotZero ==
  ASSUME NEW g \in GraphSet, NEW n \in DOMAIN g.nodes, NEW i \in DOMAIN g.nodes[n].outs
  PROVE  i # 0
<1>1. g.nodes[n].outs \in Seq(Nat)
  BY GraphType DEF NodeRecord
<1> QED BY <1>1

(* A wire carries the pin it is named after; that of a buffer, nothing.    *)
LEMMA WireCarries ==
  ASSUME NEW U, NEW M, Finished(U, M), NEW p, LivePin(graph, p), graph.pins[p].output,
         graph.pins[p].node \notin U
  PROVE  \A e : e \in WireSources(PinWire(p)) <=>
           graph.nodes[graph.pins[p].node].type # "buf" /\ e = End(graph, p)
<1> DEFINE n == graph.pins[p].node
           a == graph.nets[graph.pins[p].net].name
           w == PinWire(p)
           S == ToSet(SourceBits(design))
<1>0. /\ design \in Designs /\ HookedGraph(graph, design) /\ graph \in GraphSet
  BY DEF Finished, HookedGraph
<1>1. LiveNode(graph, n) /\ n \in DOMAIN graph.nodes
  BY <1>0, PinNode
<1>2. \A e : e \in WireSources(w) <=>
           \/ \E b \in S : w = <<b, 0>> /\ e = <<b, 1>>
           \/ e = w /\ \E k, i : CellWire(U, k, i, w)
  BY WireSourcesAre
<1>3. FromSource(graph, design, p, a) \/ FromCell(graph, design, p, a) \/ FromBuffer(graph, design, p, a)
  BY <1>0, DriverKinds
<1>4. End(graph, p) = <<graph.nodes[n].name, graph.pins[p].slot>>
  BY DEF End
<1>5. ASSUME NEW x, w = <<x, 0>>, NEW k, NEW i, CellWire(U, k, i, w) PROVE FALSE
  <2>1. k \in DOMAIN graph.nodes /\ i \in DOMAIN graph.nodes[k].outs /\ w = <<graph.nodes[k].name, i>>
    BY <1>5 DEF CellWire, LiveNode
  <2>2. i # 0
    BY <1>0, <2>1, SlotNotZero
  <2> HIDE DEF w
  <2> QED BY <1>5, <2>1, <2>2
<1>6. w = IF graph.nodes[n].type = "skip" THEN <<graph.nodes[n].name, graph.pins[p].slot>>
          ELSE <<graph.nodes[n].name, 0>>
  BY DEF PinWire
<1> HIDE DEF n, a, w, S
<1>7. CASE FromSource(graph, design, p, a)
  <2>1. graph.nodes[n].type \in {"constant", "input"}
    BY <1>7, KindTypes DEF FromSource, n
  <2>2. graph.nodes[n].name = a /\ graph.pins[p].slot = 1 /\ a \in S
    <3>1. n \in DOMAIN SourceBits(design) /\ a = SourceBits(design)[n]
      BY <1>0, <1>7, DesignFacts DEF FromSource, IsSource, n
    <3> QED BY <1>7, <3>1 DEF FromSource, n, S, ToSet
  <2>3. w = <<a, 0>> /\ End(graph, p) = <<a, 1>>
    BY <1>4, <1>6, <2>1, <2>2
  <2>4. \A e : e \in WireSources(w) <=> e = <<a, 1>>
    BY <1>2, <1>5, <2>2, <2>3
  <2> QED BY <2>1, <2>3, <2>4 DEF n, w
<1>8. CASE FromCell(graph, design, p, a)
  <2>1. graph.nodes[n].type = "skip"
    BY <1>8 DEF FromCell, n
  <2>2. graph.pins[p].slot \in DOMAIN graph.nodes[n].outs
    BY DEF Finished, HookedGraph, Agree, LivePin, PinOK, OutPinOK, n
  <2>3. graph.pins[p].slot # 0
    BY <1>0, <1>1, <2>2, SlotNotZero
  <2>4. w = End(graph, p)
    BY <1>4, <1>6, <2>1
  <2>5. CellWire(U, n, graph.pins[p].slot, w)
    BY <1>1, <1>4, <2>1, <2>2, <2>4 DEF CellWire, n
  <2>6. \A b : w # <<b, 0>>
    BY <1>4, <2>3, <2>4
  <2>7. \A e : e \in WireSources(w) <=> e = w
    BY <1>2, <2>5, <2>6
  <2> QED BY <2>1, <2>4, <2>7 DEF n, w
<1>9. CASE FromBuffer(graph, design, p, a)
  <2>1. graph.nodes[n].type = "buf" /\ graph.nodes[n].name = a
    BY <1>9 DEF FromBuffer, n
  <2>2. a \notin S
    <3>1. PICK j \in DOMAIN design.connections : a = design.connections[j][1]
      BY <1>9 DEF FromBuffer
    <3> QED BY <1>0, <3>1, ConnectionFacts, SourceBitsAre DEF S
  <2>3. w = <<a, 0>>
    BY <1>6, <2>1
  <2>4. \A e : e \notin WireSources(w)
    BY <1>2, <1>5, <2>2, <2>3
  <2> QED BY <2>1, <2>4 DEF n, w
<1> QED BY <1>3, <1>7, <1>8, <1>9

(* A link that is left: pin p drives the net that pin q reads.             *)
LinkLeft(U, p, q) ==
  /\ LivePin(graph, q) /\ ~graph.pins[q].output /\ graph.pins[q].node \notin U
  /\ graph.nodes[graph.pins[q].node].type # "buf"
  /\ LivePin(graph, p) /\ graph.pins[p].output /\ graph.pins[p].net = graph.pins[q].net
  /\ graph.nodes[graph.pins[p].node].type # "buf"

(* The links of the netlist after the sweep are the pairs of a driver and  *)
(* a reader of one net, where the reader was not swept.                    *)
LEMMA LeftLinks ==
  ASSUME NEW U, NEW M, Finished(U, M)
  PROVE  \A l : l \in GraphLinks(graph) <=>
           \E p, q : LinkLeft(U, p, q) /\ l = <<End(graph, p), End(graph, q)>>
<1>0. /\ design \in Designs /\ HookedGraph(graph, design) /\ NetsMean(graph, design)
      /\ SameSources(graph, design) /\ Walked(graph, design, U, M) /\ Listed(graph, U)
  BY DEF Finished, Walked, Swept
<1>1. \A l : l \in GraphLinks(graph) <=>
           \E m, p, q : /\ LiveNet(graph, m) /\ p \in TrueDrivers(graph, m)
                        /\ q \in ToSet(graph.nets[m].fanouts) /\ q # Null
                        /\ graph.nodes[graph.pins[q].node].type # "buf"
                        /\ l = <<End(graph, p), End(graph, q)>>
  BY <1>0, GraphLinksAre
<1>2. /\ \A m, q : LiveNet(graph, m) /\ q \in ToSet(graph.nets[m].fanouts) /\ q # Null
              => LivePin(graph, q) /\ ~graph.pins[q].output /\ graph.pins[q].net = m /\ graph.pins[q].node \notin U
      /\ \A q : LivePin(graph, q) /\ ~graph.pins[q].output /\ graph.pins[q].node \notin U
              => LiveNet(graph, graph.pins[q].net) /\ q \in ToSet(graph.nets[graph.pins[q].net].fanouts) /\ q # Null
  BY <1>0, ListedReaders
<1>3. ASSUME NEW p, NEW q, LivePin(graph, q), ~graph.pins[q].output, graph.pins[q].node \notin U,
             graph.nodes[graph.pins[q].node].type # "buf"
      PROVE  p \in TrueDrivers(graph, graph.pins[q].net) <=> LinkLeft(U, p, q)
  <2>1. p \in TrueDrivers(graph, graph.pins[q].net) <=> TruePin(graph, graph.pins[q].net, p)
    BY <1>0, <1>2, <1>3, TrueDriversAre
  <2>2. TruePin(graph, graph.pins[q].net, p) <=>
           /\ LivePin(graph, p) /\ graph.pins[p].output /\ graph.pins[p].net = graph.pins[q].net
           /\ graph.nodes[graph.pins[p].node].type # "buf"
    BY <1>0, <1>3, DirectDrivers
  <2> QED BY <1>3, <2>1, <2>2 DEF LinkLeft
<1>4. ASSUME NEW l \in GraphLinks(graph)
      PROVE  \E p, q : LinkLeft(U, p, q) /\ l = <<End(graph, p), End(graph, q)>>
  <2>1. PICK m, p, q : /\ LiveNet(graph, m) /\ p \in TrueDrivers(graph, m)
                        /\ q \in ToSet(graph.nets[m].fanouts) /\ q # Null
                        /\ graph.nodes[graph.pins[q].node].type # "buf"
                        /\ l = <<End(graph, p), End(graph, q)>>
    BY <1>1
  <2>2. LivePin(graph, q) /\ ~graph.pins[q].output /\ graph.pins[q].net = m /\ graph.pins[q].node \notin U
    BY <1>2, <2>1
  <2>3. LinkLeft(U, p, q)
    BY <1>3, <2>1, <2>2
  <2> QED BY <2>1, <2>3
<1>5. ASSUME NEW p, NEW q, LinkLeft(U, p, q), NEW l, l = <<End(graph, p), End(graph, q)>>
      PROVE  l \in GraphLinks(graph)
  <2>1. /\ LivePin(graph, q) /\ ~graph.pins[q].output /\ graph.pins[q].node \notin U
        /\ graph.nodes[graph.pins[q].node].type # "buf"
    BY <1>5 DEF LinkLeft
  <2>2. p \in TrueDrivers(graph, graph.pins[q].net)
    BY <1>3, <1>5, <2>1
  <2>3. LiveNet(graph, graph.pins[q].net) /\ q \in ToSet(graph.nets[graph.pins[q].net].fanouts) /\ q # Null
    BY <1>2, <2>1
  <2> QED BY <1>1, <1>5, <2>1, <2>2, <2>3
<1> QED BY <1>4, <1>5

(* The drivers of the net a pin reads, and the wires they stand for.       *)
DriverWires(U, q) ==
  /\ \A p : p \in ToSet(DriversOf(q)) <=>
       LivePin(graph, p) /\ graph.pins[p].output /\ graph.pins[p].net = graph.pins[q].net
  /\ DriversOf(q) \in Seq(Nat) /\ DriversOf(q)[1] \in ToSet(DriversOf(q))
  /\ \A p \in ToSet(DriversOf(q)) :
       /\ WireOf(p) = PinWire(p) /\ OutputWire(p) = PinWire(p)
       /\ \A e : e \in WireSources(PinWire(p)) <=>
            graph.nodes[graph.pins[p].node].type # "buf" /\ e = End(graph, p)

(* The wires of the drivers of a net carry just the drivers.               *)
LEMMA WiresRead ==
  ASSUME NEW U, NEW M, Finished(U, M), NEW q, LivePin(graph, q), ~graph.pins[q].output,
         graph.pins[q].node \notin U
  PROVE  DriverWires(U, q)
<1> DEFINE m == graph.pins[q].net
           D == DriversOf(q)
<1>0. /\ design \in Designs /\ HookedGraph(graph, design) /\ graph \in GraphSet /\ Agree(graph)
      /\ Driven(graph)
      /\ \A a, b : Feeding(graph, a, b) /\ b \notin U => a \notin U
  BY DEF Finished, HookedGraph, Walked, Swept
<1>1. LiveNet(graph, m) /\ m \in DOMAIN graph.nets
  BY <1>0, PinNode DEF LiveNet
<1>2. D = graph.nets[m].drivers
  BY DEF DriversOf
<1>3. D \in Seq(Nat) /\ D # <<>>
  <2>1. graph.nets[m] \in NetRecord
    BY <1>0, <1>1, GraphType
  <2> QED BY <1>0, <1>1, <1>2, <2>1 DEF NetRecord, Driven
<1>4. \A p : p \in ToSet(D) <=> LivePin(graph, p) /\ graph.pins[p].output /\ graph.pins[p].net = m
  BY <1>0, <1>1, <1>2, DriversAre
<1> HIDE DEF D, m
<1>5. D[1] \in ToSet(D)
  <2>1. 1 \in DOMAIN D
    BY <1>3
  <2> QED BY <2>1 DEF ToSet
<1>6. ASSUME NEW p \in ToSet(D)
      PROVE  /\ WireOf(p) = PinWire(p) /\ OutputWire(p) = PinWire(p)
             /\ \A e : e \in WireSources(PinWire(p)) <=>
                  graph.nodes[graph.pins[p].node].type # "buf" /\ e = End(graph, p)
  <2>1. LivePin(graph, p) /\ graph.pins[p].output /\ graph.pins[p].net = graph.pins[q].net
    BY <1>4 DEF m
  <2>2. graph.pins[p].node \notin U
    BY <1>0, <2>1, FeedPins
  <2> QED BY <2>1, <2>2, PinWires, WireCarries
<1> QED BY <1>3, <1>4, <1>5, <1>6 DEF DriverWires, D, m

CellLink(l) ==
  \E c \in ToSet(written.cells) : \E i \in DOMAIN c.ins : \E s \in WireSources(c.ins[i]) :
    l = <<s, <<c.name, i>>>>

(* A link of a written cell is a link of the netlist.                      *)
LEMMA CellLinksLeft ==
  ASSUME NEW U, NEW M, Finished(U, M), NEW l, CellLink(l)
  PROVE  \E p, q : LinkLeft(U, p, q) /\ l = <<End(graph, p), End(graph, q)>>
<1>1. PICK c \in ToSet(written.cells) : \E i \in DOMAIN c.ins : \E s \in WireSources(c.ins[i]) :
        l = <<s, <<c.name, i>>>>
  BY DEF CellLink
<1>2. PICK i \in DOMAIN c.ins : \E s \in WireSources(c.ins[i]) : l = <<s, <<c.name, i>>>>
  BY <1>1
<1>3. PICK s \in WireSources(c.ins[i]) : l = <<s, <<c.name, i>>>>
  BY <1>2
<1>4. PICK n : LiveNode(graph, n) /\ graph.nodes[n].type = "skip" /\ n \notin U /\ c = WrittenCell(n)
  BY CellsAre
<1>5. CellWires(n, c)
  BY <1>4, WrittenWires
<1> DEFINE q == graph.nodes[n].ins[i]
<1>6. InSlotOK(graph, n, i)
  BY <1>4, <1>5 DEF Finished, HookedGraph, Agree, NodeOK, LiveNode, CellWires
<1>7. /\ LivePin(graph, q) /\ ~graph.pins[q].output /\ graph.pins[q].node = n
      /\ End(graph, q) = <<c.name, i>>
  BY <1>5, <1>6 DEF InSlotOK, End, CellWires
<1>8. c.ins[i] = WireOf(DriversOf(q)[1])
  BY <1>5 DEF CellWires
<1> HIDE DEF q
<1>9. DriverWires(U, q)
  BY <1>4, <1>7, WiresRead
<1> DEFINE p == DriversOf(q)[1]
<1>10. p \in ToSet(DriversOf(q))
  BY <1>9 DEF DriverWires
<1>11. s \in WireSources(PinWire(p))
  BY <1>3, <1>8, <1>9, <1>10 DEF DriverWires
<1>12. graph.nodes[graph.pins[p].node].type # "buf" /\ s = End(graph, p)
  BY <1>9, <1>10, <1>11 DEF DriverWires
<1>13. LinkLeft(U, p, q)
  BY <1>4, <1>7, <1>9, <1>10, <1>12 DEF DriverWires, LinkLeft
<1> QED BY <1>3, <1>7, <1>12, <1>13

(* A link of the netlist into a cell is written with the cell, which has a *)
(* single driver at every input.                                           *)
LEMMA LeftCellLinks ==
  ASSUME NEW U, NEW M, Finished(U, M), NEW p, NEW q, LinkLeft(U, p, q),
         graph.nodes[graph.pins[q].node].type = "skip"
  PROVE  CellLink(<<End(graph, p), End(graph, q)>>)
<1> DEFINE n == graph.pins[q].node
           i == graph.pins[q].slot
           c == WrittenCell(n)
<1>1. LivePin(graph, q) /\ ~graph.pins[q].output /\ n \notin U
  BY DEF LinkLeft
<1>2. LiveNode(graph, n)
  BY <1>1, PinNode DEF Finished
<1>3. c \in ToSet(written.cells)
  BY <1>1, <1>2, CellsAre
<1>4. CellWires(n, c)
  BY <1>1, <1>2, WrittenWires
<1>5. i \in DOMAIN graph.nodes[n].ins /\ graph.nodes[n].ins[i] = q
  BY <1>1 DEF Finished, HookedGraph, Agree, LivePin, PinOK, InPinOK
<1>6. DriverWires(U, q)
  BY <1>1, WiresRead
<1>7. n \in M
  <2>1. IsCell(graph, design, n)
    BY <1>2, SkipIsCell DEF Finished
  <2>2. PICK k \in 1 .. Len(design.cells) : n = Before(design) + k
    BY <2>1 DEF IsCell
  <2>3. k \in DOMAIN design.cells
    BY DesignFacts DEF Finished
  <2> HIDE DEF n
  <2> QED BY <1>1, <2>2, <2>3, CellsVisited DEF Finished, Walked
<1>8. ~Unwritable(n)
  BY <1>7 DEF Finished, Writing
<1>9. ~(Len(DriversOf(q)) > 1)
  <2>1. q \in ToSet(graph.nodes[n].ins)
    BY <1>5 DEF ToSet
  <2> QED BY <1>8, <2>1 DEF Unwritable
<1>10. DriversOf(q)[1] = p
  <2>1. p \in ToSet(DriversOf(q))
    BY <1>6 DEF DriverWires, LinkLeft
  <2>2. PICK k \in DOMAIN DriversOf(q) : DriversOf(q)[k] = p
    BY <2>1 DEF ToSet
  <2> DEFINE D == DriversOf(q)
  <2>3. D \in Seq(Nat)
    BY <1>6 DEF DriverWires
  <2> HIDE DEF D
  <2>4. \A x \in DOMAIN D : ~(Len(D) > 1) => x = 1
    BY <2>3
  <2> QED BY <1>9, <2>2, <2>4 DEF D
<1>11. i \in DOMAIN c.ins /\ c.ins[i] = PinWire(p)
  BY <1>4, <1>5, <1>6, <1>10, ZenonT(60) DEF CellWires, DriverWires
<1>12. End(graph, p) \in WireSources(PinWire(p))
  BY <1>6 DEF DriverWires, LinkLeft
<1>13. End(graph, q) = <<c.name, i>>
  BY <1>4 DEF End, CellWires
<1> HIDE DEF n, i, c
<1> QED BY <1>3, <1>11, <1>12, <1>13 DEF CellLink

-----------------------------------------------------------------------------
OutputLink(l) ==
  \E m \in ConnectOutputs.connects : \E s \in WireSources(m[2]) : l = <<s, <<m[1], 1>>>>

(* The connections of the outputs, one by one.                             *)
LEMMA ConnectsAre ==
  ASSUME WrittenFrom(graph, written, DOMAIN graph.nodes)
  PROVE  /\ ConnectOutputs.cells = written.cells
         /\ \A m : m \in ConnectOutputs.connects <=>
              \E n \in ToSet(Outputs(design)) : \E p \in ToSet(DriversOf(graph.nodes[n].ins[1])) :
                m = <<graph.nodes[n].name, OutputWire(p)>>
<1> DEFINE X == UNION {{<<graph.nodes[n].name, OutputWire(p)>> :
               p \in ToSet(DriversOf(graph.nodes[n].ins[1]))} :
              n \in ToSet(Outputs(design))}
           v == [written EXCEPT !.connects = X]
<1>1. ConnectOutputs = v
  BY DEF ConnectOutputs
<1>2. \A m : m \in X <=>
        \E n \in ToSet(Outputs(design)) : \E p \in ToSet(DriversOf(graph.nodes[n].ins[1])) :
          m = <<graph.nodes[n].name, OutputWire(p)>>
  OBVIOUS
<1> HIDE DEF X
<1>3. v.cells = written.cells /\ v.connects = X
  <2>1. written = [cells |-> written.cells, connects |-> written.connects]
    BY DEF WrittenFrom
  <2>2. v = [cells |-> written.cells, connects |-> X]
    BY <2>1
  <2> QED BY <2>2
<1> QED BY <1>1, <1>2, <1>3

(* The top outputs are the nodes of type OUTPUT_NODE, and each reads with  *)
(* one pin.                                                                *)
LEMMA OutputPin ==
  ASSUME NEW U, NEW M, Finished(U, M), NEW n
  PROVE  n \in ToSet(Outputs(design)) <=>
           /\ LiveNode(graph, n) /\ graph.nodes[n].type = "output" /\ n \notin U
           /\ graph.nodes[n].ins = <<graph.nodes[n].ins[1]>>
<1>0. /\ design \in Designs /\ HookedGraph(graph, design) /\ graph \in GraphSet
      /\ \A i \in 1 .. Before(design) : i \notin U
  BY DEF Finished, HookedGraph, Walked, Swept
<1>1. n \in ToSet(Outputs(design)) <=> \E i \in 1 .. Len(design.outputs) : n = SourceCount(design) + i
  <2>1. DOMAIN design.outputs = 1 .. Len(design.outputs) /\ SourceCount(design) = 3 + Len(design.inputs)
    BY <1>0, DesignFacts
  <2>2. Outputs(design) = [i \in 1 .. Len(design.outputs) |-> SourceCount(design) + i]
    BY <2>1 DEF Outputs
  <2> QED BY <2>2 DEF ToSet
<1>2. ASSUME NEW i \in 1 .. Len(design.outputs), n = SourceCount(design) + i
      PROVE  /\ LiveNode(graph, n) /\ graph.nodes[n].type = "output" /\ n \notin U
             /\ graph.nodes[n].ins = <<graph.nodes[n].ins[1]>>
  <2>1. OutputHas(graph, design, i)
    BY <1>0 DEF HookedGraph, Layout
  <2>2. /\ n \in DOMAIN graph.nodes /\ graph.nodes[n].type = "output" /\ graph.nodes[n].live
        /\ Len(graph.nodes[n].ins) = Len(<<design.outputs[i]>>)
    BY <1>2, <2>1 DEF OutputHas, NodeIs, NodeHas
  <2>3. graph.nodes[n].ins \in Seq(Nat)
    BY <1>0, <2>2, GraphType DEF NodeRecord
  <2>4. graph.nodes[n].ins = <<graph.nodes[n].ins[1]>>
    BY <2>2, <2>3, OneElement
  <2>5. n \in 1 .. Before(design)
    <3>1. SourceCount(design) \in Nat /\ design.outputs \in Seq(Names)
      BY <1>0, DesignFacts
    <3> QED BY <1>2, <3>1 DEF Before
  <2> QED BY <1>0, <2>2, <2>4, <2>5 DEF LiveNode
<1>3. ASSUME LiveNode(graph, n), graph.nodes[n].type = "output"
      PROVE  \E i \in 1 .. Len(design.outputs) : n = SourceCount(design) + i
  <2>1. IsSource(graph, design, n) \/ IsOutput(graph, design, n) \/ IsCell(graph, design, n) \/ IsBuffer(graph, design, n)
    BY <1>0, <1>3, NodeKinds
  <2>2. IsOutput(graph, design, n)
    BY <1>3, <2>1, KindTypes
  <2> QED BY <2>2 DEF IsOutput
<1> QED BY <1>1, <1>2, <1>3

(* A connection of an output is a link of the netlist.                     *)
LEMMA OutputLinksLeft ==
  ASSUME NEW U, NEW M, Finished(U, M), WrittenFrom(graph, written, DOMAIN graph.nodes),
         NEW l, OutputLink(l)
  PROVE  \E p, q : LinkLeft(U, p, q) /\ l = <<End(graph, p), End(graph, q)>>
<1>1. PICK m \in ConnectOutputs.connects : \E s \in WireSources(m[2]) : l = <<s, <<m[1], 1>>>>
  BY DEF OutputLink
<1>2. PICK s \in WireSources(m[2]) : l = <<s, <<m[1], 1>>>>
  BY <1>1
<1>3. PICK n \in ToSet(Outputs(design)) : \E p \in ToSet(DriversOf(graph.nodes[n].ins[1])) :
        m = <<graph.nodes[n].name, OutputWire(p)>>
  BY ConnectsAre
<1>4. PICK p \in ToSet(DriversOf(graph.nodes[n].ins[1])) : m = <<graph.nodes[n].name, OutputWire(p)>>
  BY <1>3
<1>5. m[1] = graph.nodes[n].name /\ m[2] = OutputWire(p)
  BY <1>4
<1> DEFINE q == graph.nodes[n].ins[1]
<1>6. /\ LiveNode(graph, n) /\ graph.nodes[n].type = "output" /\ n \notin U
      /\ graph.nodes[n].ins = <<q>>
  BY OutputPin
<1>7. InSlotOK(graph, n, 1)
  <2> HIDE DEF q
  <2>1. 1 \in DOMAIN graph.nodes[n].ins
    BY <1>6
  <2> QED BY <1>6, <2>1 DEF Finished, HookedGraph, Agree, NodeOK, LiveNode
<1>8. /\ LivePin(graph, q) /\ ~graph.pins[q].output /\ graph.pins[q].node = n
      /\ End(graph, q) = <<graph.nodes[n].name, 1>>
  BY <1>7 DEF InSlotOK, End
<1>9. p \in ToSet(DriversOf(q))
  OBVIOUS
<1> HIDE DEF q
<1>10. DriverWires(U, q)
  BY <1>6, <1>8, WiresRead
<1>11. s \in WireSources(PinWire(p))
  BY <1>2, <1>5, <1>9, <1>10 DEF DriverWires
<1>12. graph.nodes[graph.pins[p].node].type # "buf" /\ s = End(graph, p)
  BY <1>9, <1>10, <1>11 DEF DriverWires
<1>13. LinkLeft(U, p, q)
  BY <1>6, <1>8, <1>9, <1>10, <1>12 DEF DriverWires, LinkLeft
<1> QED BY <1>2, <1>5, <1>8, <1>12, <1>13

(* A link of the netlist into an output is connected.                      *)
LEMMA LeftOutputLinks ==
  ASSUME NEW U, NEW M, Finished(U, M), WrittenFrom(graph, written, DOMAIN graph.nodes),
         NEW p, NEW q, LinkLeft(U, p, q), graph.nodes[graph.pins[q].node].type # "skip"
  PROVE  OutputLink(<<End(graph, p), End(graph, q)>>)
<1> DEFINE n == graph.pins[q].node
           m == <<graph.nodes[n].name, OutputWire(p)>>
<1>1. LivePin(graph, q) /\ ~graph.pins[q].output /\ n \notin U
  BY DEF LinkLeft
<1>2. LiveNode(graph, n)
  BY <1>1, PinNode DEF Finished
<1>3. graph.nodes[n].type = "output" /\ graph.pins[q].slot = 1
  <2> DEFINE b == graph.pins[q].name[1]
  <2>1. Reading(graph, q)
    BY DEF LinkLeft, Reading
  <2>2. ToOutput(graph, design, q, b) \/ ToCell(graph, design, q, b)
    BY <2>1, ReadingIs DEF Finished
  <2> QED BY <2>2 DEF ToOutput, ToCell
<1>4. graph.nodes[n].ins[1] = q
  BY <1>1, <1>3 DEF Finished, HookedGraph, Agree, LivePin, PinOK, InPinOK
<1>5. n \in ToSet(Outputs(design))
  <2>1. graph.nodes[n].ins \in Seq(Nat)
    BY <1>2, GraphType DEF Finished, HookedGraph, LiveNode, NodeRecord
  <2>2. IsOutput(graph, design, n)
    <3>1. IsSource(graph, design, n) \/ IsOutput(graph, design, n) \/ IsCell(graph, design, n) \/ IsBuffer(graph, design, n)
      BY <1>2, NodeKinds DEF Finished
    <3> QED BY <1>3, <3>1, KindTypes
  <2>3. PICK i \in 1 .. Len(design.outputs) : n = SourceCount(design) + i /\ OutputHas(graph, design, i)
    BY <2>2 DEF IsOutput
  <2>4. Len(graph.nodes[n].ins) = Len(<<design.outputs[i]>>)
    BY <2>3 DEF OutputHas, NodeIs, NodeHas
  <2>5. Len(<<design.outputs[i]>>) = 1
    OBVIOUS
  <2>6. graph.nodes[n].ins = <<graph.nodes[n].ins[1]>>
    BY <2>1, <2>4, <2>5, OneElement
  <2> HIDE DEF n
  <2> QED BY <1>1, <1>2, <1>3, <2>6, OutputPin
<1>6. DriverWires(U, q)
  BY <1>1, WiresRead
<1>7. p \in ToSet(DriversOf(q))
  BY <1>6 DEF DriverWires, LinkLeft
<1>8. m \in ConnectOutputs.connects
  BY <1>4, <1>5, <1>7, ConnectsAre
<1>9. m[1] = graph.nodes[n].name /\ m[2] = PinWire(p)
  BY <1>6, <1>7 DEF DriverWires
<1>10. End(graph, p) \in WireSources(PinWire(p))
  BY <1>6, <1>7 DEF DriverWires, LinkLeft
<1>11. End(graph, q) = <<graph.nodes[n].name, 1>>
  BY <1>3 DEF End
<1> HIDE DEF m, n
<1>12. <<End(graph, p), End(graph, q)>> = <<End(graph, p), <<m[1], 1>>>>
  BY <1>9, <1>11
<1> QED BY <1>8, <1>9, <1>10, <1>12 DEF OutputLink

(* Connecting the outputs leaves what every wire carries.                  *)
LEMMA SourcesThen ==
  ASSUME written'.cells = written.cells, design' = design
  PROVE  \A w : WireSources(w)' = WireSources(w)
BY DEF WireSources, ToSet

(* When the outputs are connected, the written links are those of cells    *)
(* and those of outputs.                                                   *)
LEMMA LinksThen ==
  ASSUME written' = ConnectOutputs, ConnectOutputs.cells = written.cells, design' = design
  PROVE  \A l : l \in WrittenLinks' <=> CellLink(l) \/ OutputLink(l)
<1> DEFINE C == ToSet(written.cells)
           X == ConnectOutputs.connects
           S(w) == WireSources(w)
<1>1. \A w : WireSources(w)' = S(w)
  BY SourcesThen
<1>2. ToSet(written.cells)' = C /\ written'.connects = X
  BY DEF ToSet
<1>3. WrittenLinks' =
       (UNION {UNION {{<<s, <<c.name, i>>>> : s \in S(c.ins[i])} : i \in DOMAIN c.ins} : c \in C}) \cup
       UNION {{<<s, <<m[1], 1>>>> : s \in S(m[2])} : m \in X}
  <2>1. WrittenLinks' =
       (UNION {UNION {{<<s, <<c.name, i>>>> : s \in WireSources(c.ins[i])'} : i \in DOMAIN c.ins} : c \in ToSet(written.cells)'}) \cup
       UNION {{<<s, <<m[1], 1>>>> : s \in WireSources(m[2])'} : m \in written'.connects}
    BY DEF WrittenLinks
  <2> HIDE DEF C, X, S
  <2> QED BY <1>1, <1>2, <2>1
<1> HIDE DEF C, X, S
<1>4. \A l : l \in WrittenLinks' <=>
        \/ \E c \in C : \E i \in DOMAIN c.ins : \E s \in S(c.ins[i]) : l = <<s, <<c.name, i>>>>
        \/ \E m \in X : \E s \in S(m[2]) : l = <<s, <<m[1], 1>>>>
  BY <1>3
<1> QED BY <1>4 DEF CellLink, OutputLink, C, X, S

(* The new module has the links the netlist has.                           *)
LEMMA WrittenLinksAre ==
  ASSUME GraphInv, WalkInv, MeaningInv, LinkInv, WriteOutputs
  PROVE  WrittenLinks' = GraphLinks(graph)
<1>1. stage = "outputs" /\ written' = ConnectOutputs /\ design' = design
  BY DEF WriteOutputs
<1>2. PICK U, M : Finished(U, M)
  BY <1>1, OutputsFinished
<1>3. WrittenFrom(graph, written, DOMAIN graph.nodes)
  BY DEF WalkInv
<1>4. \A l : l \in WrittenLinks' <=> CellLink(l) \/ OutputLink(l)
  BY <1>1, <1>3, ConnectsAre, LinksThen
<1>5. \A l : l \in GraphLinks(graph) <=>
           \E p, q : LinkLeft(U, p, q) /\ l = <<End(graph, p), End(graph, q)>>
  BY <1>2, LeftLinks
<1>6. ASSUME NEW l, CellLink(l) \/ OutputLink(l)
      PROVE  l \in GraphLinks(graph)
  <2>1. \E p, q : LinkLeft(U, p, q) /\ l = <<End(graph, p), End(graph, q)>>
    BY <1>2, <1>3, <1>6, CellLinksLeft, OutputLinksLeft
  <2> QED BY <1>5, <2>1
<1>7. ASSUME NEW l \in GraphLinks(graph)
      PROVE  CellLink(l) \/ OutputLink(l)
  <2>1. PICK p, q : LinkLeft(U, p, q) /\ l = <<End(graph, p), End(graph, q)>>
    BY <1>5
  <2> DEFINE e == <<End(graph, p), End(graph, q)>>
  <2>2. CellLink(e) \/ OutputLink(e)
    BY <1>2, <1>3, <2>1, LeftCellLinks, LeftOutputLinks
  <2> HIDE DEF e
  <2>3. l = e
    BY <2>1 DEF e
  <2> QED BY <2>2, <2>3
<1>8. \A l : l \in WrittenLinks' <=> l \in GraphLinks(graph)
  BY <1>4, <1>6, <1>7
<1> QED BY <1>8

(* The links of the contract, named.                                       *)
LinksNow ==
  IF ~Hooked THEN DesignLinks(design)
  ELSE IF stage = "done" THEN WrittenLinks
  ELSE GraphLinks(graph)

TrimmedLinks == {l \in DesignLinks(design) : l[2][1] \in NeededNames(design)}

(* Nothing is hooked up while the netlist is built.                        *)
LEMMA ImportHooksNothing ==
  ImportInv /\ Importing => ~Hooked
<1> SUFFICES ASSUME ImportInv, Importing PROVE ~Hooked
  OBVIOUS
<1>1. Fresh(graph)
  BY DEF Importing, ImportInv, CellsInv, ConnectionsInv, Imported
<1> QED BY <1>1 DEF Fresh, Hooked

(* Before the sweep the netlist has all links of the design.               *)
BeforeSweep == stage \in {"map", "sweep"}

(* Until the sweep the netlist has all links of the design.                *)
LEMMA LinksBeforeSweep ==
  GraphInv /\ MeaningInv /\ LinkInv /\ BeforeSweep => LinksNow = DesignLinks(design)
<1> SUFFICES ASSUME GraphInv, MeaningInv, LinkInv, BeforeSweep
             PROVE  LinksNow = DesignLinks(design)
  OBVIOUS
<1>1. /\ design \in Designs /\ HookedGraph(graph, design) /\ Placed(graph)
      /\ SameSources(graph, design) /\ NetsMean(graph, design) /\ stage # "done"
  BY DEF GraphInv, ImportInv, MeaningInv, LinkInv, BeforeSweep
<1>2. GraphLinks(graph) = DesignLinks(design)
  BY <1>1, AllLinks
<1> QED BY <1>1, <1>2 DEF LinksNow

(* While the netlist is built, the links of the contract are those of the  *)
(* design.                                                                 *)
LEMMA LinksWhileImporting ==
  ImportInv /\ Importing => LinksNow = DesignLinks(design)
BY ImportHooksNothing DEF LinksNow

(* A step that leaves the graph as it is and does not end the pass.        *)
LEMMA SameLinks ==
  ASSUME graph' = graph, design' = design, stage # "done", stage' # "done"
  PROVE  LinksNow' = LinksNow
<1>1. Hooked' <=> Hooked
  BY DEF Hooked
<1>2. GraphLinks(graph)' = GraphLinks(graph) /\ DesignLinks(design)' = DesignLinks(design)
  OBVIOUS
<1> QED BY <1>1, <1>2 DEF LinksNow

(* A step that changes nothing leaves the links.                           *)
LEMMA StutterLinks ==
  ASSUME UNCHANGED vars
  PROVE  LinksNow' = LinksNow
BY DEF vars, importVars, walkVars, LinksNow, Hooked, WrittenLinks, WireSources

(* The sweep keeps the number of places in a net, so it hooks up nothing.  *)
LEMMA SweepHooks ==
  ASSUME GraphInv, RemoveUnusedLogic
  PROVE  Hooked' <=> Hooked
<1> DEFINE g == graph
           h == graph'
           X == Useless
<1>1. g \in GraphSet
  BY DEF GraphInv
<1>2. Trimmed(g, h, X)
  BY <1>1, SweepTrims
<1> HIDE DEF g, h, X
<1>3. DOMAIN h.nets = DOMAIN g.nets
      /\ \A m \in DOMAIN g.nets : DOMAIN h.nets[m].fanouts = DOMAIN g.nets[m].fanouts
  BY <1>2 DEF Trimmed
<1>4. h \in GraphSet
  BY <1>2 DEF Trimmed
<1>5. ASSUME NEW m \in DOMAIN g.nets
      PROVE  g.nets[m].fanouts \in Seq(Nat) /\ h.nets[m].fanouts \in Seq(Nat)
  <2>1. g.nets[m] \in NetRecord /\ h.nets[m] \in NetRecord
    BY <1>1, <1>3, <1>4, GraphType
  <2> QED BY <2>1 DEF NetRecord
<1>6. ASSUME NEW m \in DOMAIN g.nets
      PROVE  g.nets[m].fanouts = <<>> <=> h.nets[m].fanouts = <<>>
  <2> DEFINE s == g.nets[m].fanouts
             t == h.nets[m].fanouts
  <2>1. s \in Seq(Nat) /\ t \in Seq(Nat) /\ DOMAIN s = DOMAIN t
    BY <1>3, <1>5
  <2> HIDE DEF s, t
  <2>2. Len(s) = Len(t)
    BY <2>1
  <2>3. s = <<>> <=> t = <<>>
    BY <2>1, <2>2
  <2> QED BY <2>3 DEF s, t
<1>7. (\E m \in DOMAIN g.nets : g.nets[m].fanouts # <<>>)
        <=> (\E m \in DOMAIN h.nets : h.nets[m].fanouts # <<>>)
  BY <1>3, <1>6
<1> QED BY <1>7 DEF Hooked, g, h

(* The sweep takes out all the readers no output depends on, in one step.  *)
LEMMA SweepTrimsLinks ==
  ASSUME GraphInv, WalkInv, MeaningInv, LinkInv, GraphInv', MeaningInv', LinkInv', RemoveUnusedLogic
  PROVE  LinksNow' = LinksNow \/ LinksNow' = TrimmedLinks
<1> DEFINE h == graph'
           d == design
<1>1. /\ design' = d /\ stage = "sweep" /\ stage' = "write" /\ d \in Designs
      /\ SameSources(graph, design) /\ NetsMean(graph, design)
  BY DEF RemoveUnusedLogic, GraphInv, ImportInv, LinkInv, MeaningInv
<1>2. PICK U \in SUBSET DOMAIN graph'.nodes : Swept(graph', design', U)
  BY <1>1, SweepSwept
<1>3. HookedGraph(h, d) /\ NetsMean(h, d) /\ SameSources(h, d)
  BY <1>1 DEF GraphInv, MeaningInv, LinkInv
<1>4. Swept(h, d, U)
  BY <1>1, <1>2
<1>5. GraphLinks(graph)' = GraphLinks(h) /\ DesignLinks(design)' = DesignLinks(d)
  BY <1>1
<1>6. LinksNow' = IF ~Hooked' THEN DesignLinks(d) ELSE GraphLinks(h)
  BY <1>1, <1>5 DEF LinksNow
<1>7. LinksNow = IF ~Hooked THEN DesignLinks(d) ELSE GraphLinks(graph)
  BY <1>1 DEF LinksNow
<1>8. Hooked' <=> Hooked
  BY SweepHooks
<1>9. GraphLinks(h) = TrimmedLinks
  <2> DEFINE N == NeededNames(d)
  <2> HIDE DEF h, N
  <2>1. KeepsNames(h, U, N)
    BY <1>1, <1>3, <1>4, SweptKeeps DEF N
  <2>2. Listed(h, U)
    BY <1>4 DEF Swept
  <2>3. GraphLinks(h) = {l \in DesignLinks(d) : l[2][1] \in N}
    BY <1>1, <1>3, <2>1, <2>2, LinksAre
  <2> QED BY <2>3 DEF TrimmedLinks, N
<1> QED BY <1>6, <1>7, <1>8, <1>9

(* What is written has the links of the netlist.                           *)
LEMMA WriteOutputsLinks ==
  ASSUME GraphInv, WalkInv, MeaningInv, LinkInv, WriteOutputs
  PROVE  LinksNow' = LinksNow
<1>1. graph' = graph /\ design' = design /\ stage = "outputs" /\ stage' = "done"
  BY DEF WriteOutputs
<1>2. WrittenLinks' = GraphLinks(graph)
  BY WrittenLinksAre
<1>3. Hooked' <=> Hooked
  BY <1>1 DEF Hooked
<1>4. DesignLinks(design)' = DesignLinks(design)
  BY <1>1
<1> QED BY <1>1, <1>2, <1>3, <1>4 DEF LinksNow

(* Every step of the pass is a step of the contract or a stutter.          *)
LEMMA LinksStep ==
  ASSUME GraphInv, WalkInv, MeaningInv, LinkInv, GraphInv', MeaningInv', LinkInv', [Next]_vars
  PROVE  design' = design /\ (LinksNow' = LinksNow \/ LinksNow' = TrimmedLinks)
<1>0. design' = design /\ ImportInv /\ ImportInv'
  BY DesignStays DEF GraphInv
<1>1. DesignLinks(design)' = DesignLinks(design)
  BY <1>0
<1>2. Importing' => LinksNow' = DesignLinks(design)
  <2>1. (ImportInv /\ Importing)' => (LinksNow = DesignLinks(design))'
    BY LinksWhileImporting, PTL
  <2> QED BY <1>0, <1>1, <2>1
<1>3. BeforeSweep' => LinksNow' = DesignLinks(design)
  <2>1. (GraphInv /\ MeaningInv /\ LinkInv /\ BeforeSweep)' => (LinksNow = DesignLinks(design))'
    BY LinksBeforeSweep, PTL
  <2> QED BY <1>1, <2>1
<1>4. Importing => LinksNow = DesignLinks(design)
  BY <1>0, LinksWhileImporting
<1>5. BeforeSweep => LinksNow = DesignLinks(design)
  BY LinksBeforeSweep
<1>6. CASE ImportCell \/ LastCell \/ ImportConnection \/ LastConnection
  <2>1. Importing /\ Importing'
    BY <1>6 DEF Importing, ImportCell, LastCell, ImportConnection, LastConnection
  <2> QED BY <1>0, <1>2, <1>4, <2>1
<1>7. CASE HookUp
  <2>1. Importing
    BY <1>7 DEF Importing, HookUp
  <2>2. CASE stage' = "refused"
    <3>1. graph' = graph /\ stage # "done" /\ stage' # "done"
      BY <1>7, <2>2 DEF HookUp
    <3> QED BY <1>0, <3>1, SameLinks
  <2>3. CASE stage' # "refused"
    <3>1. BeforeSweep'
      BY <1>7, <2>3 DEF HookUp, Refuse, BeforeSweep
    <3> QED BY <1>0, <1>3, <1>4, <2>1, <3>1
  <2> QED BY <2>2, <2>3
<1>8. CASE Return
  <2>1. CASE stage = "map" /\ stage' = "map"
    <3>1. BeforeSweep /\ BeforeSweep'
      BY <2>1 DEF BeforeSweep
    <3> QED BY <1>0, <1>3, <1>5, <3>1
  <2>2. CASE ~(stage = "map" /\ stage' = "map")
    <3>1. graph' = graph /\ stage # "done" /\ stage' # "done"
      BY <1>8, <2>2 DEF Return, Walking, Refuse
    <3> QED BY <1>0, <3>1, SameLinks
  <2> QED BY <2>1, <2>2
<1>9. CASE VisitRoot \/ VisitReader \/ SkipReader \/ NextOutputPin \/ TraversalDone
  <2>1. graph' = graph /\ stage # "done" /\ stage' # "done"
    BY <1>9 DEF VisitRoot, VisitReader, SkipReader, NextOutputPin, TraversalDone, AtReader,
                Visit, Walking, Refuse
  <2> QED BY <1>0, <2>1, SameLinks
<1>10. CASE RemoveUnusedLogic
  BY <1>0, <1>10, SweepTrimsLinks
<1>11. CASE WriteOutputs
  BY <1>0, <1>11, WriteOutputsLinks
<1>12. CASE UNCHANGED vars
  BY <1>0, <1>12, StutterLinks
<1> QED BY <1>6, <1>7, <1>8, <1>9, <1>10, <1>11, <1>12 DEF Next

(* So every step of the pass is a step of the contract or a stutter.       *)
LEMMA ContractStep ==
  ASSUME GraphInv, WalkInv, MeaningInv, LinkInv, GraphInv', MeaningInv', LinkInv', [Next]_vars
  PROVE  [Contract!Trim]_(Contract!vars)
<1>1. design' = design /\ (LinksNow' = LinksNow \/ LinksNow' = TrimmedLinks)
  BY LinksStep
<1>2. /\ DesignLinks(design)' = DesignLinks(design)
      /\ NeededNames(design)' = NeededNames(design)
  BY <1>1
<1> QED BY <1>1, <1>2 DEF LinksNow, TrimmedLinks, Contract!Trim, Contract!vars

(* The pass implements the contract of Wiring: from the design through the *)
(* netlist, the removal of the buffers and the sweep to the module that is *)
(* written, every reader keeps exactly its sources, and the only step that *)
(* changes anything takes out all readers no output depends on.            *)
THEOREM PassKeepsLinks == Spec => LinksKept
<1>1. Init => Contract!Init
  <2> SUFFICES ASSUME Init PROVE Contract!Init
    OBVIOUS
  <2>1. ImportInv /\ Importing
    BY InitImports DEF Init, Importing
  <2> QED BY <2>1, LinksWhileImporting DEF LinksNow, Contract!Init
<1>2. GraphInv /\ WalkInv /\ MeaningInv /\ LinkInv /\ GraphInv' /\ MeaningInv' /\ LinkInv' /\ [Next]_vars
        => [Contract!Trim]_(Contract!vars)
  BY ContractStep
<1> QED BY <1>1, <1>2, GraphInvariant, WalkInvariant, MeaningInvariant, LinkInvariant, PTL
        DEF Spec, LinksKept, Contract!Spec
==============================================================================
