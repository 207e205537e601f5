--------------------------- MODULE MemoriesProofs ---------------------------
(***************************************************************************)
(* Proofs about Memories for every architecture and every RAM, and in the  *)
(* last part about its composition with BlockMemories.                     *)
(*                                                                         *)
(* The invariant says how a memory node is laid out, whatever was done to  *)
(* it: the lines it has been cut by and the lines of its address are the   *)
(* lines of the RAM in order, and all its ports carry the same bits.       *)
(***************************************************************************)
EXTENDS MemoryMapping, SequenceTheorems, TLAPS

Chosen == [pin : Pin, is : Bit]

NodeOf(P) ==
  [ram : Nat, addr : [P -> Seq(Pin)], data : [P -> Seq(Pin)], out : [P -> Seq(Pin)],
   we : [P -> Seq(Chosen)], sel : [P -> Seq(Chosen)],
   made : {"memory", "cut", "hard", "soft"}]

AnyNode == NodeOf({1}) \cup NodeOf({1, 2})

(* The ports of RAM r of a list of RAMs, and line i of its port p.         *)
PortsOf(rs, r) == DOMAIN rs[r].addr

PinAt(rs, r, p, i) == IF i <= rs[r].addr[p] THEN i ELSE Pad

Cuts(n) == Len(n.sel[1])

(* The ports of a memory are alike.                                        *)
Alike(n) ==
  \A p \in DOMAIN n.addr :
    /\ Len(n.addr[p]) = AddrWidth(n)
    /\ n.data[p] = n.data[1] /\ n.out[p] = n.data[1]
    /\ n.we[p] = n.sel[p] /\ Len(n.sel[p]) = Cuts(n)
    /\ \A j \in 1..Cuts(n) : n.sel[p][j].is = n.sel[1][j].is

(* Cuts and address are the lines of the RAM in order, and all of them.    *)
InOrder(rs, n) ==
  /\ \A p \in DOMAIN n.addr :
        /\ \A j \in 1..Cuts(n) : n.sel[p][j].pin = PinAt(rs, n.ram, p, j)
        /\ \A j \in 1..AddrWidth(n) : n.addr[p][j] = PinAt(rs, n.ram, p, Cuts(n) + j)
  /\ AddrWidth(n) >= 1 /\ DataWidth(n) >= 1
  /\ Cuts(n) + AddrWidth(n) >= Widest(rs[n.ram])

Good(rs, n) ==
  /\ n.ram \in DOMAIN rs
  /\ n \in NodeOf(PortsOf(rs, n.ram))
  /\ Alike(n) /\ InOrder(rs, n)

TypeInv ==
  /\ arch \in Archs
  /\ rams \in Seq(Shape)
  /\ nodes \in Seq(AnyNode) /\ \A i \in 1..Len(nodes) : Good(rams, nodes[i])
  /\ memory_list \in [Kinds -> Seq(1..Len(nodes))]
  /\ work \in Seq(1..Len(nodes))
  /\ loop \in 0..Len(Program) + 1
  /\ stage \in {"create", "iterate", "map", "mapped", "error"}
  /\ stage = "iterate" => loop \in 1..Len(Program)

-----------------------------------------------------------------------------
(* Architectures and shapes                                                *)

LEMMA ShapeFacts ==
  ASSUME NEW s \in Shape
  PROVE  /\ s.addr \in Seq(Positive) /\ Len(s.addr) \in Kinds /\ s.data \in Positive
         /\ DOMAIN s.addr = 1..Len(s.addr) /\ 1 \in DOMAIN s.addr
         /\ DOMAIN s.addr = {1} \/ DOMAIN s.addr = {1, 2}
         /\ \A p \in DOMAIN s.addr : s.addr[p] \in Positive /\ s.addr[p] <= Widest(s)
         /\ Widest(s) \in Positive
<1>1. s.addr \in Seq(Positive) /\ Len(s.addr) \in Kinds /\ s.data \in Positive
  BY DEF Shape
<1>2. DOMAIN s.addr = 1..Len(s.addr) /\ (Len(s.addr) = 1 \/ Len(s.addr) = 2)
  BY <1>1 DEF Kinds
<1>3. DOMAIN s.addr = {1} \/ DOMAIN s.addr = {1, 2}
  <2>1. 1..1 = {1} /\ 1..2 = {1, 2}
    OBVIOUS
  <2> QED
    BY <1>2, <2>1
<1>4. \A p \in DOMAIN s.addr : s.addr[p] \in Positive
  BY <1>1
<1>5. \A p \in DOMAIN s.addr : s.addr[p] <= Widest(s)
  BY <1>2, <1>3, <1>4 DEF Widest, Positive
<1>6. Widest(s) \in Positive
  BY <1>2, <1>4 DEF Widest
<1> QED
  BY <1>1, <1>2, <1>3, <1>4, <1>5, <1>6

(* A RAM that is split to sizes has positive ones.                         *)
LEMMA ArchFacts ==
  ASSUME arch \in Archs
  PROVE  /\ \A k \in Kinds : Has(k) => SplitDepth(k) \in Positive /\ SplitWidth(k) \in Positive
         /\ IsArch(arch)
<1>1. IsArch(arch)
  BY MemoriesAssumption
<1>2. ASSUME NEW k \in Kinds, Has(k) PROVE SplitDepth(k) \in Positive /\ SplitWidth(k) \in Positive
  <2>1. /\ arch.blocks[k] \in [addr_min : Positive, addr : Positive, data : Positive]
        /\ arch.depth \in {-2, -1} \cup Nat
    BY <1>1, <1>2 DEF Has, IsArch
  <2>2. arch.blocks[k].addr_min \in Positive /\ arch.blocks[k].addr \in Positive /\ arch.blocks[k].data \in Positive
    BY <2>1
  <2> QED
    BY <2>1, <2>2 DEF SplitDepth, SplitWidth, Positive
<1> QED
  BY <1>1, <1>2

Passes == {"filter", "depth", "width", "pad"}

(* Every loop goes over the list of a kind the architecture has.           *)
LEMMA ProgramLoops ==
  /\ Program \in Seq(Passes \X Kinds)
  /\ \A l \in 1..Len(Program) : Program[l][1] \in Passes /\ Program[l][2] \in Kinds /\ Has(Program[l][2])
<1> DEFINE Loops == {x \in Passes \X Kinds : Has(x[2])}
<1>1. ASSUME NEW k \in Kinds, NEW s, Has(k) => s \in Seq(Loops) PROVE Only(k, s) \in Seq(Loops)
  BY <1>1 DEF Only
<1>2. \A k \in Kinds, p \in Passes : Has(k) => <<p, k>> \in Loops
  OBVIOUS
<1>3. Filters \in Seq(Loops)
  <2>1. Has(1) => << <<"filter", 1>> >> \in Seq(Loops)
    BY <1>2 DEF Kinds, Passes
  <2>2. Has(2) => << <<"filter", 2>> >> \in Seq(Loops)
    BY <1>2 DEF Kinds, Passes
  <2>3. Only(1, << <<"filter", 1>> >>) \in Seq(Loops) /\ Only(2, << <<"filter", 2>> >>) \in Seq(Loops)
    BY <1>1, <2>1, <2>2 DEF Kinds
  <2> QED
    BY <2>3 DEF Filters
<1>4. ASSUME NEW k \in Kinds PROVE SplitAndPad(k) \in Seq(Loops)
  <2>1. Has(k) => << <<"depth", k>>, <<"width", k>> >> \in Seq(Loops) /\ << <<"pad", k>> >> \in Seq(Loops)
    BY <1>2 DEF Passes
  <2>2. Has(k) => << <<"depth", k>>, <<"width", k>> >> \o Filters \o << <<"pad", k>> >> \in Seq(Loops)
    BY <1>3, <2>1
  <2> QED
    BY <1>1, <2>2 DEF SplitAndPad
<1>5. Program \in Seq(Loops)
  BY <1>3, <1>4 DEF Program, Kinds
<1>6. \A l \in 1..Len(Program) : Program[l] \in Loops
  BY <1>5
<1>7. Program \in Seq(Passes \X Kinds)
  BY <1>5
<1> QED
  BY <1>6, <1>7
-----------------------------------------------------------------------------
(* Memory nodes                                                            *)

(* The fields of a node, as functions on the ports of its RAM.             *)
LEMMA NodeFields ==
  ASSUME NEW P \in {{1}, {1, 2}}, NEW n \in NodeOf(P)
  PROVE  /\ n.ram \in Nat
         /\ n.addr \in [P -> Seq(Pin)] /\ n.data \in [P -> Seq(Pin)] /\ n.out \in [P -> Seq(Pin)]
         /\ n.we \in [P -> Seq(Chosen)] /\ n.sel \in [P -> Seq(Chosen)]
         /\ n.made \in {"memory", "cut", "hard", "soft"}
         /\ \A p \in P : /\ n.addr[p] \in Seq(Pin) /\ n.data[p] \in Seq(Pin) /\ n.out[p] \in Seq(Pin)
                         /\ n.we[p] \in Seq(Chosen) /\ n.sel[p] \in Seq(Chosen)
         /\ DOMAIN n.addr = P /\ 1 \in P
<1>1. /\ n.ram \in Nat
      /\ n.addr \in [P -> Seq(Pin)] /\ n.data \in [P -> Seq(Pin)] /\ n.out \in [P -> Seq(Pin)]
      /\ n.we \in [P -> Seq(Chosen)] /\ n.sel \in [P -> Seq(Chosen)]
      /\ n.made \in {"memory", "cut", "hard", "soft"}
  BY DEF NodeOf
<1> QED
  BY <1>1

LEMMA GoodFacts ==
  ASSUME NEW rs \in Seq(Shape), NEW n, Good(rs, n)
  PROVE  /\ rs[n.ram] \in Shape /\ n.ram \in DOMAIN rs
         /\ PortsOf(rs, n.ram) \in {{1}, {1, 2}} /\ n \in NodeOf(PortsOf(rs, n.ram)) /\ n \in AnyNode
         /\ DOMAIN n.addr = PortsOf(rs, n.ram) /\ 1 \in PortsOf(rs, n.ram)
         /\ Kind(n) \in Kinds /\ PortsOf(rs, n.ram) = 1..Kind(n) /\ Kind(n) = Len(rs[n.ram].addr)
         /\ AddrWidth(n) \in Nat \ {0} /\ DataWidth(n) \in Nat \ {0} /\ Cuts(n) \in Nat
<1>1. rs[n.ram] \in Shape /\ n.ram \in DOMAIN rs
  BY DEF Good
<1>2. PortsOf(rs, n.ram) \in {{1}, {1, 2}} /\ n \in NodeOf(PortsOf(rs, n.ram))
  BY <1>1, ShapeFacts DEF Good, PortsOf
<1>3. DOMAIN n.addr = PortsOf(rs, n.ram) /\ 1 \in PortsOf(rs, n.ram)
  BY <1>2, NodeFields
<1>4. Kind(n) = Len(rs[n.ram].addr) /\ Kind(n) \in Kinds /\ PortsOf(rs, n.ram) = 1..Kind(n)
  <2>1. DOMAIN n.addr = 1..Len(rs[n.ram].addr) /\ Len(rs[n.ram].addr) \in Kinds
    BY <1>1, <1>3, ShapeFacts DEF PortsOf
  <2>2. n.addr \in Seq(Seq(Pin))
    <3>1. n.addr \in [1..Len(rs[n.ram].addr) -> Seq(Pin)]
      BY <1>2, <1>3, <2>1, NodeFields
    <3> QED
      BY <2>1, <3>1 DEF Kinds
  <2>3. Len(n.addr) = Len(rs[n.ram].addr)
    BY <2>1, <2>2 DEF Kinds
  <2> QED
    BY <1>3, <2>1, <2>3 DEF Kind
<1>5. AddrWidth(n) \in Nat /\ DataWidth(n) \in Nat /\ Cuts(n) \in Nat
  <2>1. n.addr[1] \in Seq(Pin) /\ n.data[1] \in Seq(Pin) /\ n.sel[1] \in Seq(Chosen)
    BY <1>2, <1>3, NodeFields
  <2> QED
    BY <2>1 DEF AddrWidth, DataWidth, Cuts
<1>6. AddrWidth(n) >= 1 /\ DataWidth(n) >= 1
  BY DEF Good, InOrder
<1>7. n \in AnyNode
  BY <1>2 DEF AnyNode
<1> QED
  BY <1>1, <1>2, <1>3, <1>4, <1>5, <1>6, <1>7

(* The node of a new RAM.                                                  *)
LEMMA NewMemoryGood ==
  ASSUME NEW rs \in Seq(Shape), NEW r \in DOMAIN rs
  PROVE  Good(rs, NewMemory(r, rs[r])) /\ NewMemory(r, rs[r]).ram = r
<1> DEFINE s == rs[r]
           P == DOMAIN s.addr
           n == NewMemory(r, s)
<1>1. s \in Shape /\ r \in Nat
  OBVIOUS
<1>2. /\ P = {1} \/ P = {1, 2}
      /\ \A p \in P : s.addr[p] \in Positive /\ s.addr[p] <= Widest(s)
      /\ Widest(s) \in Positive /\ s.data \in Positive /\ PortsOf(rs, r) = P
  BY <1>1, ShapeFacts DEF PortsOf
<1>3. /\ n.ram = r /\ n.made = "memory"
      /\ n.addr = [p \in P |-> AddrPins(s.addr[p], Widest(s))]
      /\ n.data = [p \in P |-> [i \in 1..s.data |-> i]]
      /\ n.out = [p \in P |-> [i \in 1..s.data |-> i]]
      /\ n.we = [p \in P |-> <<>>] /\ n.sel = [p \in P |-> <<>>]
  BY DEF NewMemory
<1>4. /\ [i \in 1..s.data |-> i] \in Seq(Pin) /\ Len([i \in 1..s.data |-> i]) = s.data
      /\ <<>> \in Seq(Chosen) /\ Len(<<>>) = 0
  BY <1>2 DEF Positive, Pin
<1>5. ASSUME NEW p \in P
      PROVE  /\ AddrPins(s.addr[p], Widest(s)) \in Seq(Pin)
             /\ Len(AddrPins(s.addr[p], Widest(s))) = Widest(s)
             /\ \A i \in 1..Widest(s) : AddrPins(s.addr[p], Widest(s))[i] = PinAt(rs, r, p, i)
  <2>1. Widest(s) \in Nat /\ s.addr[p] \in Nat
    BY <1>2 DEF Positive
  <2>2. \A i \in 1..Widest(s) : PinAt(rs, r, p, i) \in Pin
    BY <2>1 DEF PinAt, Pad, Pin
  <2>3. AddrPins(s.addr[p], Widest(s)) = [i \in 1..Widest(s) |-> PinAt(rs, r, p, i)]
    BY DEF AddrPins, PinAt
  <2> QED
    BY <2>1, <2>2, <2>3
<1>6. n \in NodeOf(P)
  <2>1. /\ n.addr \in [P -> Seq(Pin)] /\ n.data \in [P -> Seq(Pin)] /\ n.out \in [P -> Seq(Pin)]
        /\ n.we \in [P -> Seq(Chosen)] /\ n.sel \in [P -> Seq(Chosen)]
    BY <1>3, <1>4, <1>5, ZenonT(60)
  <2> QED
    BY <1>1, <1>3, <2>1 DEF NodeOf, NewMemory
<1>7. 1 \in P /\ DOMAIN n.addr = P
  BY <1>2, <1>3
<1>8. rs[n.ram] = s /\ n.ram = r
  BY <1>3
<1> HIDE DEF n, s, P
<1>9. /\ AddrWidth(n) = Widest(s) /\ DataWidth(n) = s.data /\ Cuts(n) = 0
  <2>1. /\ n.addr[1] = AddrPins(s.addr[1], Widest(s))
        /\ n.data[1] = [i \in 1..s.data |-> i] /\ n.sel[1] = <<>>
    BY <1>3, <1>7
  <2> QED
    BY <1>4, <1>5, <1>7, <2>1 DEF AddrWidth, DataWidth, Cuts
<1>10. Alike(n)
  <2>1. ASSUME NEW p \in P
        PROVE  /\ n.addr[p] = AddrPins(s.addr[p], Widest(s)) /\ n.we[p] = <<>> /\ n.sel[p] = <<>>
               /\ n.data[p] = [i \in 1..s.data |-> i] /\ n.out[p] = [i \in 1..s.data |-> i]
    BY <1>3
  <2>2. ASSUME NEW p \in P
        PROVE  /\ Len(n.addr[p]) = AddrWidth(n) /\ n.data[p] = n.data[1] /\ n.out[p] = n.data[1]
               /\ n.we[p] = n.sel[p] /\ Len(n.sel[p]) = Cuts(n)
    BY <1>4, <1>5, <1>7, <1>9, <2>1
  <2>3. \A p \in P : \A j \in 1..Cuts(n) : n.sel[p][j].is = n.sel[1][j].is
    <3>1. 1..Cuts(n) = {}
      BY <1>9
    <3> QED
      BY <3>1
  <2> QED
    BY <1>7, <2>2, <2>3 DEF Alike
<1>11. InOrder(rs, n)
  <2>1. Widest(s) \in Nat /\ Widest(s) >= 1 /\ s.data >= 1
    BY <1>2 DEF Positive
  <2>2. ASSUME NEW p \in P, NEW j \in 1..AddrWidth(n)
        PROVE  n.addr[p][j] = PinAt(rs, n.ram, p, Cuts(n) + j)
    <3>1. n.addr[p] = AddrPins(s.addr[p], Widest(s))
      BY <1>3
    <3>2. j \in 1..Widest(s) /\ Cuts(n) + j = j
      BY <1>9, <2>1
    <3> QED
      BY <1>5, <1>8, <3>1, <3>2
  <2>3. \A p \in P : \A j \in 1..Cuts(n) : n.sel[p][j].pin = PinAt(rs, n.ram, p, j)
    <3>1. 1..Cuts(n) = {}
      BY <1>9
    <3> QED
      BY <3>1
  <2>4. AddrWidth(n) >= 1 /\ DataWidth(n) >= 1 /\ Cuts(n) + AddrWidth(n) >= Widest(rs[n.ram])
    BY <1>8, <1>9, <2>1
  <2> QED
    BY <1>7, <2>2, <2>3, <2>4 DEF InOrder
<1> QED
  BY <1>2, <1>3, <1>6, <1>10, <1>11 DEF Good, s, P, n

(* What happens to a node later changes nothing about its layout.          *)
LEMMA MadeGood ==
  ASSUME NEW rs \in Seq(Shape), NEW n, Good(rs, n), NEW m \in {"memory", "cut", "hard", "soft"}
  PROVE  /\ Good(rs, [n EXCEPT !.made = m]) /\ [n EXCEPT !.made = m].made = m
         /\ [n EXCEPT !.made = m].addr = n.addr /\ [n EXCEPT !.made = m].data = n.data
         /\ [n EXCEPT !.made = m].out = n.out /\ [n EXCEPT !.made = m].we = n.we
         /\ [n EXCEPT !.made = m].sel = n.sel /\ [n EXCEPT !.made = m].ram = n.ram
<1> DEFINE c == [n EXCEPT !.made = m]
<1>1. n \in NodeOf(PortsOf(rs, n.ram))
  BY GoodFacts
<1>2. /\ c \in NodeOf(PortsOf(rs, n.ram)) /\ c.made = m /\ c.addr = n.addr /\ c.data = n.data
      /\ c.out = n.out /\ c.we = n.we /\ c.sel = n.sel /\ c.ram = n.ram
  BY <1>1 DEF NodeOf
<1> HIDE DEF c
<1>3. AddrWidth(c) = AddrWidth(n) /\ DataWidth(c) = DataWidth(n) /\ Cuts(c) = Cuts(n)
  BY <1>2 DEF AddrWidth, DataWidth, Cuts
<1>4. Alike(c)
  BY <1>2, <1>3 DEF Good, Alike
<1>5. InOrder(rs, c)
  BY <1>2, <1>3 DEF Good, InOrder
<1>6. Good(rs, c)
  BY <1>2, <1>4, <1>5 DEF Good
<1> QED
  BY <1>2, <1>6 DEF c

(* A piece of a depth cut.                                                 *)
LEMMA DepthPieceGood ==
  ASSUME NEW rs \in Seq(Shape), NEW n, Good(rs, n), AddrWidth(n) >= 2, NEW is \in Bit
  PROVE  /\ Good(rs, DepthPiece(n, is)) /\ DepthPiece(n, is).ram = n.ram
         /\ DepthPiece(n, is).made = n.made
<1> DEFINE P == PortsOf(rs, n.ram)
           c == DepthPiece(n, is)
<1>1. /\ P \in {{1}, {1, 2}} /\ n \in NodeOf(P) /\ DOMAIN n.addr = P /\ 1 \in P
      /\ Cuts(n) \in Nat /\ AddrWidth(n) \in Nat /\ Alike(n) /\ InOrder(rs, n)
  BY GoodFacts DEF Good
<1>2. \A p \in P : n.addr[p] \in Seq(Pin) /\ n.sel[p] \in Seq(Chosen) /\ n.we[p] \in Seq(Chosen)
  BY <1>1, NodeFields
<1>3. /\ c.addr = [p \in P |-> Tail(n.addr[p])]
      /\ c.we = [p \in P |-> Append(n.we[p], Choice(n.addr[p][1], is))]
      /\ c.sel = [p \in P |-> Append(n.sel[p], Choice(n.addr[p][1], is))]
      /\ c.ram = n.ram /\ c.made = n.made /\ c.data = n.data /\ c.out = n.out
  BY <1>1 DEF DepthPiece, NodeOf
<1>4. ASSUME NEW p \in P
      PROVE  /\ Len(n.addr[p]) = AddrWidth(n) /\ n.addr[p][1] \in Pin
             /\ Tail(n.addr[p]) \in Seq(Pin) /\ Len(Tail(n.addr[p])) = AddrWidth(n) - 1
             /\ \A j \in 1..AddrWidth(n) - 1 : Tail(n.addr[p])[j] = n.addr[p][j + 1]
  <2>1. Len(n.addr[p]) = AddrWidth(n)
    BY <1>1 DEF Alike
  <2> QED
    BY <1>1, <1>2, <2>1
<1>5. ASSUME NEW p \in P
      PROVE  /\ Choice(n.addr[p][1], is) \in Chosen
             /\ Choice(n.addr[p][1], is).pin = n.addr[p][1] /\ Choice(n.addr[p][1], is).is = is
  BY <1>4 DEF Choice, Chosen
<1>6. ASSUME NEW p \in P
      PROVE  /\ c.sel[p] \in Seq(Chosen) /\ c.we[p] = c.sel[p] /\ Len(c.sel[p]) = Cuts(n) + 1
             /\ \A j \in 1..Cuts(n) : c.sel[p][j] = n.sel[p][j]
             /\ c.sel[p][Cuts(n) + 1] = Choice(n.addr[p][1], is)
  <2>1. n.we[p] = n.sel[p] /\ Len(n.sel[p]) = Cuts(n)
    BY <1>1 DEF Alike
  <2>2. c.sel[p] = Append(n.sel[p], Choice(n.addr[p][1], is)) /\ c.we[p] = c.sel[p]
    <3>1. c.sel[p] = Append(n.sel[p], Choice(n.addr[p][1], is))
      BY <1>3
    <3>2. c.we[p] = Append(n.we[p], Choice(n.addr[p][1], is))
      BY <1>3
    <3> QED BY <2>1, <3>1, <3>2, Zenon
  <2> QED
    BY <1>1, <1>2, <1>5, <2>1, <2>2
<1>7. c \in NodeOf(P)
  <2>1. c.addr \in [P -> Seq(Pin)] /\ c.we \in [P -> Seq(Chosen)] /\ c.sel \in [P -> Seq(Chosen)]
    BY <1>2, <1>3, <1>4, <1>5
  <2> QED
    BY <1>1, <1>3, <2>1 DEF NodeOf, DepthPiece
<1> HIDE DEF c
<1>8. Cuts(c) = Cuts(n) + 1 /\ AddrWidth(c) = AddrWidth(n) - 1 /\ DataWidth(c) = DataWidth(n)
  <2>1. c.addr[1] = Tail(n.addr[1])
    BY <1>1, <1>3
  <2> QED
    BY <1>1, <1>3, <1>4, <1>6, <2>1 DEF Cuts, AddrWidth, DataWidth
<1>9. Alike(c)
  <2>1. ASSUME NEW p \in P
        PROVE  Len(c.addr[p]) = AddrWidth(c) /\ c.data[p] = c.data[1] /\ c.out[p] = c.data[1]
               /\ c.we[p] = c.sel[p] /\ Len(c.sel[p]) = Cuts(c)
    <3>1. n.data[p] = n.data[1] /\ n.out[p] = n.data[1]
      BY <1>1 DEF Alike
    <3>2. c.addr[p] = Tail(n.addr[p])
      BY <1>3
    <3> QED
      BY <1>3, <1>4, <1>6, <1>8, <3>1, <3>2
  <2>2. ASSUME NEW p \in P, NEW j \in 1..Cuts(c) PROVE c.sel[p][j].is = c.sel[1][j].is
    <3>1. CASE j = Cuts(n) + 1
      BY <1>1, <1>5, <1>6, <3>1
    <3>2. CASE j \in 1..Cuts(n)
      <4>1. n.sel[p][j].is = n.sel[1][j].is
        BY <1>1, <3>2 DEF Alike
      <4> QED
        BY <1>1, <1>6, <3>2, <4>1
    <3> QED
      BY <1>1, <1>8, <3>1, <3>2
  <2>3. DOMAIN c.addr = P
    BY <1>3
  <2> QED
    BY <2>1, <2>2, <2>3 DEF Alike
<1>10. InOrder(rs, c)
  <2>1. ASSUME NEW p \in P, NEW j \in 1..Cuts(c) PROVE c.sel[p][j].pin = PinAt(rs, c.ram, p, j)
    <3>1. CASE j = Cuts(n) + 1
      <4>1. n.addr[p][1] = PinAt(rs, n.ram, p, Cuts(n) + 1)
        BY <1>1 DEF InOrder
      <4> QED
        BY <1>3, <1>5, <1>6, <3>1, <4>1
    <3>2. CASE j \in 1..Cuts(n)
      <4>1. n.sel[p][j].pin = PinAt(rs, n.ram, p, j)
        BY <1>1, <3>2 DEF InOrder
      <4> QED
        BY <1>3, <1>6, <3>2, <4>1
    <3> QED
      BY <1>1, <1>8, <3>1, <3>2
  <2>2. ASSUME NEW p \in P, NEW j \in 1..AddrWidth(c)
        PROVE  c.addr[p][j] = PinAt(rs, c.ram, p, Cuts(c) + j)
    <3>1. j \in 1..AddrWidth(n) - 1 /\ j + 1 \in 1..AddrWidth(n)
          /\ Cuts(c) + j = Cuts(n) + (j + 1)
      BY <1>1, <1>8
    <3>2. n.addr[p][j + 1] = PinAt(rs, n.ram, p, Cuts(n) + (j + 1))
      BY <1>1, <3>1 DEF InOrder
    <3>3. c.addr[p] = Tail(n.addr[p])
      BY <1>3
    <3> QED
      BY <1>3, <1>4, <3>1, <3>2, <3>3
  <2>3. AddrWidth(c) >= 1 /\ DataWidth(c) >= 1 /\ Cuts(c) + AddrWidth(c) >= Widest(rs[c.ram])
    <3>1. DataWidth(n) >= 1 /\ Cuts(n) + AddrWidth(n) >= Widest(rs[n.ram])
      BY <1>1 DEF InOrder
    <3>2. Cuts(c) + AddrWidth(c) = Cuts(n) + AddrWidth(n)
      BY <1>1, <1>8
    <3> QED
      BY <1>1, <1>3, <1>8, <3>1, <3>2
  <2>4. DOMAIN c.addr = P
    BY <1>3
  <2> QED
    BY <2>1, <2>2, <2>3, <2>4 DEF InOrder
<1>11. n.ram \in DOMAIN rs
  BY DEF Good
<1> QED
  BY <1>3, <1>7, <1>9, <1>10, <1>11 DEF Good, c, P

(* A share of the data pins.                                               *)
LEMMA ShareFacts ==
  ASSUME NEW S, NEW pins \in Seq(S), NEW target \in Nat \ {0}, NEW i \in Nat,
         i * target < Len(pins)
  PROVE  Share(pins, i, target) \in Seq(S) /\ Len(Share(pins, i, target)) >= 1
<1> DEFINE from == i * target
           to == IF (i + 1) * target < Len(pins) THEN (i + 1) * target ELSE Len(pins)
<1>1. from \in Nat
  OBVIOUS
<1>2. (i + 1) * target = from + target
  OBVIOUS
<1>3. to \in Nat /\ to <= Len(pins) /\ to >= from + 1
  <2>1. Len(pins) \in Nat /\ from < Len(pins)
    OBVIOUS
  <2> HIDE DEF from
  <2> QED
    BY <1>1, <1>2, <2>1
<1>4. Share(pins, i, target) = SubSeq(pins, from + 1, to)
  BY DEF Share
<1> HIDE DEF from, to
<1>5. \A j \in from + 1 .. to : j \in 1..Len(pins)
  BY <1>1, <1>3
<1> QED
  BY <1>1, <1>3, <1>4, <1>5, SubSeqProperties

(* The last piece of a width cut starts before the end.                    *)
LEMMA PiecesStart ==
  ASSUME NEW w \in Nat \ {0}, NEW target \in Nat \ {0}, NEW i \in 0 .. NumPieces(w, target) - 1
  PROVE  NumPieces(w, target) \in Nat /\ i \in Nat /\ i * target < w
<1> DEFINE num == NumPieces(w, target)
<1>1. num = (w + target - 1) \div target
  BY DEF NumPieces
<1>2. w + target - 1 \in Nat
  OBVIOUS
<1>3. num \in Nat /\ num * target <= w + target - 1
  BY <1>1, <1>2
<1> HIDE DEF num
<1>4. i \in Nat /\ i + 1 <= num
  BY <1>3 DEF num
<1>5. (i + 1) * target <= num * target
  BY <1>3, <1>4
<1>6. (i + 1) * target = i * target + target /\ i * target \in Nat
  BY <1>4
<1>7. num * target \in Nat
  BY <1>3
<1>8. i * target < w
  <2> DEFINE a == i * target
             b == num * target
             d == (i + 1) * target
  <2>1. d <= b /\ d = a + target /\ b <= w + target - 1 /\ a \in Nat /\ b \in Nat
    BY <1>3, <1>5, <1>6, <1>7
  <2> HIDE DEF a, b, d
  <2>2. a < w
    BY <2>1
  <2> QED
    BY <2>2 DEF a
<1> QED
  BY <1>3, <1>4, <1>8 DEF num

(* A piece of a width cut.                                                 *)
LEMMA WidthPieceGood ==
  ASSUME NEW rs \in Seq(Shape), NEW n, Good(rs, n), NEW target \in Nat \ {0},
         NEW i \in 0 .. NumPieces(DataWidth(n), target) - 1
  PROVE  /\ Good(rs, WidthPiece(n, i, target)) /\ WidthPiece(n, i, target).ram = n.ram
         /\ WidthPiece(n, i, target).made = n.made
<1> DEFINE P == PortsOf(rs, n.ram)
           c == WidthPiece(n, i, target)
<1>1. /\ P \in {{1}, {1, 2}} /\ n \in NodeOf(P) /\ DOMAIN n.addr = P /\ 1 \in P
      /\ Cuts(n) \in Nat /\ AddrWidth(n) \in Nat /\ DataWidth(n) \in Nat \ {0}
      /\ Alike(n) /\ InOrder(rs, n) /\ n.ram \in DOMAIN rs
  BY GoodFacts DEF Good
<1>2. i \in Nat /\ i * target < DataWidth(n)
  BY <1>1, PiecesStart
<1>3. /\ c.data = [p \in P |-> Share(n.data[p], i, target)]
      /\ c.out = [p \in P |-> Share(n.out[p], i, target)]
      /\ c.ram = n.ram /\ c.made = n.made /\ c.addr = n.addr /\ c.we = n.we /\ c.sel = n.sel
  BY <1>1 DEF WidthPiece, NodeOf
<1>4. ASSUME NEW p \in P
      PROVE  /\ c.data[p] \in Seq(Pin) /\ c.out[p] \in Seq(Pin) /\ Len(c.data[p]) >= 1
             /\ c.data[p] = Share(n.data[1], i, target) /\ c.out[p] = c.data[p]
  <2>1. n.data[p] = n.data[1] /\ n.out[p] = n.data[1]
    BY <1>1 DEF Alike
  <2>2. n.data[1] \in Seq(Pin) /\ i * target < Len(n.data[1])
    BY <1>1, <1>2, NodeFields DEF DataWidth
  <2>3. Share(n.data[1], i, target) \in Seq(Pin) /\ Len(Share(n.data[1], i, target)) >= 1
    BY <1>2, <2>2, ShareFacts
  <2>4. c.data[p] = Share(n.data[p], i, target) /\ c.out[p] = Share(n.out[p], i, target)
    BY <1>3
  <2> QED
    BY <2>1, <2>3, <2>4
<1>5. c \in NodeOf(P)
  <2>1. \A p \in P : Share(n.data[p], i, target) \in Seq(Pin) /\ Share(n.out[p], i, target) \in Seq(Pin)
    BY <1>3, <1>4
  <2>2. c.data \in [P -> Seq(Pin)] /\ c.out \in [P -> Seq(Pin)]
    BY <1>3, <2>1
  <2> QED
    BY <1>1, <1>3, <2>2 DEF NodeOf, WidthPiece
<1> HIDE DEF c
<1>6. Cuts(c) = Cuts(n) /\ AddrWidth(c) = AddrWidth(n) /\ DataWidth(c) >= 1
  BY <1>1, <1>3, <1>4 DEF Cuts, AddrWidth, DataWidth
<1>7. Alike(c)
  <2>1. ASSUME NEW p \in P PROVE c.data[p] = c.data[1] /\ c.out[p] = c.data[1]
    BY <1>1, <1>4
  <2> QED
    BY <1>1, <1>3, <1>6, <2>1 DEF Alike
<1>8. InOrder(rs, c)
  BY <1>1, <1>3, <1>6 DEF InOrder
<1> QED
  BY <1>1, <1>3, <1>5, <1>7, <1>8 DEF Good, c, P

(* Padding adds unconnected pins at the end.                               *)
LEMMA PadToFacts ==
  ASSUME NEW pins \in Seq(Pin), NEW size \in Nat
  PROVE  /\ PadTo(pins, size) \in Seq(Pin)
         /\ Len(PadTo(pins, size)) = IF size > Len(pins) THEN size ELSE Len(pins)
         /\ \A j \in 1..Len(pins) : PadTo(pins, size)[j] = pins[j]
         /\ \A j \in Len(pins) + 1 .. size : PadTo(pins, size)[j] = Pad
<1> DEFINE more == IF size > Len(pins) THEN size - Len(pins) ELSE 0
           pads == [i \in 1..more |-> Pad]
<1>1. more \in Nat /\ Len(pins) \in Nat
  OBVIOUS
<1>2. pads \in Seq(Pin) /\ Len(pads) = more /\ \A j \in 1..more : pads[j] = Pad
  BY <1>1 DEF Pad, Pin
<1>3. PadTo(pins, size) = pins \o pads
  BY DEF PadTo
<1>4. /\ pins \o pads \in Seq(Pin) /\ Len(pins \o pads) = Len(pins) + more
      /\ \A j \in 1..Len(pins) : (pins \o pads)[j] = pins[j]
      /\ \A j \in Len(pins) + 1 .. Len(pins) + more : (pins \o pads)[j] = pads[j - Len(pins)]
  <2> HIDE DEF pads, more
  <2> QED
    BY <1>1, <1>2
<1>5. ASSUME NEW j \in Len(pins) + 1 .. size PROVE (pins \o pads)[j] = Pad
  <2>1. j - Len(pins) \in 1..more /\ j \in Len(pins) + 1 .. Len(pins) + more
    BY <1>1
  <2> HIDE DEF pads, more
  <2> QED
    BY <1>2, <1>4, <2>1
<1>6. Len(pins) + more = IF size > Len(pins) THEN size ELSE Len(pins)
  BY <1>1
<1> HIDE DEF pads, more
<1> QED
  BY <1>3, <1>4, <1>5, <1>6

(* A memory that was padded to the size of its block.                      *)
LEMMA PaddedGood ==
  ASSUME NEW rs \in Seq(Shape), NEW n, Good(rs, n), arch \in Archs, NEW k \in Kinds, Has(k)
  PROVE  /\ Good(rs, Padded(n, k)) /\ Padded(n, k).ram = n.ram /\ Padded(n, k).made = n.made
<1> DEFINE P == PortsOf(rs, n.ram)
           c == Padded(n, k)
           depth == SplitDepth(k)
           width == SplitWidth(k)
<1>1. /\ P \in {{1}, {1, 2}} /\ n \in NodeOf(P) /\ DOMAIN n.addr = P /\ 1 \in P
      /\ Cuts(n) \in Nat /\ AddrWidth(n) \in Nat /\ DataWidth(n) \in Nat
      /\ Alike(n) /\ InOrder(rs, n) /\ n.ram \in DOMAIN rs /\ rs[n.ram] \in Shape
  BY GoodFacts DEF Good
<1>2. depth \in Nat /\ width \in Nat
  BY ArchFacts DEF Positive
<1>3. /\ c.addr = [p \in P |-> PadTo(n.addr[p], depth)]
      /\ c.data = [p \in P |-> PadTo(n.data[p], width)]
      /\ c.out = [p \in P |-> PadTo(n.out[p], width)]
      /\ c.ram = n.ram /\ c.made = n.made /\ c.we = n.we /\ c.sel = n.sel
  BY <1>1 DEF Padded, NodeOf
<1> HIDE DEF depth, width
<1>4. ASSUME NEW p \in P
      PROVE  /\ c.addr[p] = PadTo(n.addr[p], depth) /\ c.addr[p] \in Seq(Pin)
             /\ c.data[p] = PadTo(n.data[1], width) /\ c.data[p] \in Seq(Pin) /\ c.out[p] = c.data[p]
             /\ Len(n.addr[p]) = AddrWidth(n) /\ n.addr[p] \in Seq(Pin)
  <2>1. n.data[p] = n.data[1] /\ n.out[p] = n.data[1] /\ Len(n.addr[p]) = AddrWidth(n)
    BY <1>1 DEF Alike
  <2>2. n.addr[p] \in Seq(Pin) /\ n.data[1] \in Seq(Pin)
    BY <1>1, NodeFields
  <2>3. PadTo(n.addr[p], depth) \in Seq(Pin) /\ PadTo(n.data[1], width) \in Seq(Pin)
    BY <1>2, <2>2, PadToFacts
  <2> QED
    BY <1>3, <2>1, <2>2, <2>3
<1>5. c \in NodeOf(P)
  <2>1. c.addr \in [P -> Seq(Pin)] /\ c.data \in [P -> Seq(Pin)] /\ c.out \in [P -> Seq(Pin)]
    <3>1. \A p \in P : c.addr[p] \in Seq(Pin) /\ c.data[p] \in Seq(Pin) /\ c.out[p] \in Seq(Pin)
      BY <1>4
    <3>2. DOMAIN c.addr = P /\ DOMAIN c.data = P /\ DOMAIN c.out = P
      BY <1>3
    <3> QED
      BY <1>3, <3>1, <3>2
  <2> QED
    BY <1>1, <1>3, <2>1 DEF NodeOf, Padded
<1> HIDE DEF c
<1>6. ASSUME NEW p \in P
      PROVE  Len(c.addr[p]) = IF depth > AddrWidth(n) THEN depth ELSE AddrWidth(n)
  BY <1>2, <1>4, PadToFacts
<1>7. /\ Cuts(c) = Cuts(n) /\ DataWidth(c) >= DataWidth(n) /\ DataWidth(c) \in Nat
      /\ AddrWidth(c) = IF depth > AddrWidth(n) THEN depth ELSE AddrWidth(n)
  <2>1. n.data[1] \in Seq(Pin) /\ c.data[1] = PadTo(n.data[1], width)
    BY <1>1, <1>4, NodeFields
  <2>2. Len(c.data[1]) = IF width > Len(n.data[1]) THEN width ELSE Len(n.data[1])
    BY <1>2, <2>1, PadToFacts
  <2>3. Len(n.data[1]) \in Nat
    BY <2>1
  <2> QED
    BY <1>1, <1>2, <1>3, <1>6, <2>2, <2>3 DEF Cuts, AddrWidth, DataWidth
<1>8. Alike(c)
  <2>1. ASSUME NEW p \in P
        PROVE  Len(c.addr[p]) = AddrWidth(c) /\ c.data[p] = c.data[1] /\ c.out[p] = c.data[1]
    BY <1>1, <1>4, <1>6, <1>7
  <2>2. DOMAIN c.addr = P
    BY <1>3
  <2> QED
    BY <1>1, <1>3, <1>7, <2>1, <2>2 DEF Alike
<1>9. InOrder(rs, c)
  <2>1. ASSUME NEW p \in P, NEW j \in 1..AddrWidth(c)
        PROVE  c.addr[p][j] = PinAt(rs, c.ram, p, Cuts(c) + j)
    <3>0. /\ \A m \in 1..AddrWidth(n) : c.addr[p][m] = n.addr[p][m]
          /\ \A m \in AddrWidth(n) + 1 .. depth : c.addr[p][m] = Pad
      <4>1. /\ \A m \in 1..Len(n.addr[p]) : PadTo(n.addr[p], depth)[m] = n.addr[p][m]
            /\ \A m \in Len(n.addr[p]) + 1 .. depth : PadTo(n.addr[p], depth)[m] = Pad
        <5>1. n.addr[p] \in Seq(Pin)
          BY <1>4
        <5> QED
          BY <1>2, <5>1, PadToFacts, Zenon
      <4> QED
        BY <1>4, <4>1
    <3>1. CASE j \in 1..AddrWidth(n)
      <4>1. c.addr[p][j] = n.addr[p][j]
        BY <3>0, <3>1
      <4>2. n.addr[p][j] = PinAt(rs, n.ram, p, Cuts(n) + j)
        BY <1>1, <3>1 DEF InOrder
      <4> QED
        BY <1>3, <1>7, <4>1, <4>2
    <3>2. CASE j \in AddrWidth(n) + 1 .. depth
      <4>1. c.addr[p][j] = Pad
        BY <3>0, <3>2
      <4>2. rs[n.ram].addr[p] <= Widest(rs[n.ram]) /\ rs[n.ram].addr[p] \in Nat
            /\ Widest(rs[n.ram]) \in Nat
        BY <1>1, ShapeFacts DEF PortsOf, Positive
      <4>3. Cuts(n) + AddrWidth(n) >= Widest(rs[n.ram])
        BY <1>1 DEF InOrder
      <4>4. ~(Cuts(n) + j <= rs[n.ram].addr[p])
        BY <1>1, <1>2, <3>2, <4>2, <4>3
      <4> QED
        BY <1>3, <1>7, <4>1, <4>4 DEF PinAt
    <3> QED
      BY <1>1, <1>2, <1>7, <3>1, <3>2
  <2>2. AddrWidth(c) >= AddrWidth(n)
    BY <1>1, <1>2, <1>7
  <2>3. AddrWidth(n) >= 1 /\ DataWidth(n) >= 1 /\ Cuts(n) + AddrWidth(n) >= Widest(rs[n.ram])
    BY <1>1 DEF InOrder
  <2>4. AddrWidth(c) >= 1 /\ DataWidth(c) >= 1 /\ Cuts(c) + AddrWidth(c) >= Widest(rs[c.ram])
    <3>1. AddrWidth(c) \in Nat /\ Widest(rs[n.ram]) \in Nat
      BY <1>1, <1>2, <1>7, ShapeFacts DEF Positive
    <3>2. AddrWidth(c) >= 1 /\ DataWidth(c) >= 1
      BY <1>1, <1>7, <2>2, <2>3, <3>1
    <3>3. Cuts(c) + AddrWidth(c) >= Widest(rs[c.ram])
      BY <1>1, <1>3, <1>7, <2>2, <2>3, <3>1
    <3> QED
      BY <3>2, <3>3
  <2>5. \A p \in P : \A j \in 1..Cuts(c) : c.sel[p][j].pin = PinAt(rs, c.ram, p, j)
    BY <1>1, <1>3, <1>7 DEF InOrder
  <2>6. DOMAIN c.addr = P
    BY <1>3
  <2> QED
    BY <2>1, <2>4, <2>5, <2>6 DEF InOrder
<1> QED
  BY <1>1, <1>3, <1>5, <1>8, <1>9 DEF Good, c, P

(* The nodes of the RAMs so far do not change when another is created.     *)
LEMMA GrowGood ==
  ASSUME NEW rs \in Seq(Shape), NEW s \in Shape, NEW n, Good(rs, n)
  PROVE  Good(Append(rs, s), n)
<1> DEFINE more == Append(rs, s)
<1>1. n.ram \in DOMAIN rs /\ n.ram \in DOMAIN more /\ more[n.ram] = rs[n.ram]
  BY DEF Good
<1> HIDE DEF more
<1>2. InOrder(more, n)
  BY <1>1 DEF Good, InOrder, PinAt
<1>3. Good(more, n)
  BY <1>1, <1>2 DEF Good, PortsOf
<1> QED
  BY <1>3 DEF more

-----------------------------------------------------------------------------
(* The type invariant                                                      *)

LEMMA LargerIndexes ==
  ASSUME NEW k \in Nat, NEW m \in Nat, k <= m
  PROVE  Seq(1..k) \subseteq Seq(1..m)
<1>1. 1..k \subseteq 1..m
  OBVIOUS
<1> QED
  BY <1>1

(* One node changes and others are added behind.                           *)
LEMMA NodesFacts ==
  ASSUME NEW rs \in Seq(Shape), NEW ns \in Seq(AnyNode), NEW i \in 1..Len(ns), NEW m, NEW by \in Seq(AnyNode),
         \A j \in 1..Len(ns) : Good(rs, ns[j]),
         Good(rs, m),
         \A j \in 1..Len(by) : Good(rs, by[j])
  PROVE  LET all == [ns EXCEPT ![i] = m] \o by
         IN  /\ all \in Seq(AnyNode) /\ Len(all) = Len(ns) + Len(by)
             /\ \A j \in 1..Len(all) : Good(rs, all[j])
             /\ all[i] = m
             /\ \A j \in 1..Len(ns) : j # i => all[j] = ns[j]
             /\ \A j \in 1..Len(by) : all[Len(ns) + j] = by[j]
<1> DEFINE one == [ns EXCEPT ![i] = m]
           all == one \o by
<1>1. m \in AnyNode
  BY GoodFacts
<1>2. /\ one \in Seq(AnyNode) /\ Len(one) = Len(ns) /\ one[i] = m
      /\ \A j \in 1..Len(ns) : j # i => one[j] = ns[j]
  BY <1>1
<1> HIDE DEF one
<1>3. /\ all \in Seq(AnyNode) /\ Len(all) = Len(ns) + Len(by)
      /\ \A j \in 1..Len(ns) : all[j] = one[j]
      /\ \A j \in Len(ns) + 1 .. Len(ns) + Len(by) : all[j] = by[j - Len(ns)]
  <2>1. /\ one \o by \in Seq(AnyNode) /\ Len(one \o by) = Len(one) + Len(by)
        /\ \A j \in 1 .. Len(one) + Len(by) :
              (one \o by)[j] = IF j <= Len(one) THEN one[j] ELSE by[j - Len(one)]
    BY <1>2, ConcatProperties, Zenon
  <2>2. Len(ns) \in Nat /\ Len(by) \in Nat
    OBVIOUS
  <2> HIDE DEF all
  <2>3. /\ \A j \in 1 .. Len(ns) + Len(by) : all[j] = IF j <= Len(ns) THEN one[j] ELSE by[j - Len(ns)]
        /\ all \in Seq(AnyNode) /\ Len(all) = Len(ns) + Len(by)
    BY <1>2, <2>1 DEF all
  <2> QED
    BY <2>2, <2>3
<1> HIDE DEF all
<1>4. Len(ns) \in Nat /\ Len(by) \in Nat
  OBVIOUS
<1>5. ASSUME NEW j \in 1..Len(by) PROVE all[Len(ns) + j] = by[j]
  <2>1. Len(ns) + j \in Len(ns) + 1 .. Len(ns) + Len(by) /\ (Len(ns) + j) - Len(ns) = j
    BY <1>4
  <2> QED
    BY <1>3, <2>1
<1>6. ASSUME NEW j \in 1..Len(all) PROVE Good(rs, all[j])
  <2>1. CASE j \in 1..Len(ns)
    <3>1. Good(rs, one[j])
      BY <1>2, <2>1
    <3> QED
      BY <1>3, <2>1, <3>1
  <2>2. CASE j \in Len(ns) + 1 .. Len(ns) + Len(by)
    <3>1. j - Len(ns) \in 1..Len(by)
      BY <1>4, <2>2
    <3> QED
      BY <1>3, <2>2, <3>1
  <2> QED
    BY <1>3, <1>4, <2>1, <2>2
<1> QED
  BY <1>2, <1>3, <1>5, <1>6 DEF all, one

(* What a loop looks at.                                                   *)
LEMMA LookingFacts ==
  ASSUME TypeInv, stage = "iterate", work # <<>>
  PROVE  /\ Current \in 1..Len(nodes) /\ Node \in AnyNode /\ Good(rams, Node)
         /\ Tail(work) \in Seq(1..Len(nodes))
         /\ ListKind \in Kinds /\ Has(ListKind) /\ arch \in Archs
         /\ work = <<Current>> \o Tail(work) /\ Len(nodes) \in Nat
<1>1. work[1] \in 1..Len(nodes) /\ Tail(work) \in Seq(1..Len(nodes))
  BY DEF TypeInv
<1>2. nodes[work[1]] \in AnyNode /\ Good(rams, nodes[work[1]]) /\ Len(nodes) \in Nat
  BY <1>1 DEF TypeInv
<1>3. ListKind \in Kinds /\ Has(ListKind) /\ arch \in Archs
  BY ProgramLoops DEF TypeInv, ListKind
<1>4. work = <<work[1]>> \o Tail(work)
  <2>1. work \in Seq(1..Len(nodes))
    BY DEF TypeInv
  <2> QED
    BY <2>1, HeadTailProperties
<1> QED
  BY <1>1, <1>2, <1>3, <1>4 DEF Current, Node

(* A list that some more nodes are put in front of.                        *)
LEMMA ListingFacts ==
  ASSUME NEW size \in Nat, memory_list \in [Kinds -> Seq(1..size)],
         NEW ns \in Seq(1..size), ListKind \in Kinds, Listing(ns)
  PROVE  memory_list' \in [Kinds -> Seq(1..size)]
<1>1. memory_list[ListKind] \in Seq(1..size)
  OBVIOUS
<1>2. ns \o memory_list[ListKind] \in Seq(1..size)
  BY <1>1
<1> QED
  BY <1>2 DEF Listing

LEMMA InitTypeInv == MemoriesInit => TypeInv
<1> SUFFICES ASSUME MemoriesInit PROVE TypeInv
  OBVIOUS
<1>1. nodes \in Seq(AnyNode) /\ Len(nodes) = 0 /\ rams \in Seq(Shape) /\ work \in Seq(1..Len(nodes))
  BY DEF MemoriesInit
<1>2. memory_list \in [Kinds -> Seq(1..Len(nodes))]
  BY DEF MemoriesInit
<1>3. \A i \in 1..Len(nodes) : Good(rams, nodes[i])
  BY <1>1
<1>4. loop \in 0..Len(Program) + 1
  <2>1. Len(Program) \in Nat
    BY ProgramLoops
  <2> QED
    BY <2>1 DEF MemoriesInit
<1> QED
  BY <1>1, <1>2, <1>3, <1>4 DEF MemoriesInit, TypeInv

LEMMA CreateTypeInv ==
  ASSUME TypeInv, NEW s \in Shape, CreateRam(s)
  PROVE  TypeInv'
<1> DEFINE n == NewMemory(Len(rams) + 1, s)
           size == Len(nodes) + 1
<1>1. /\ rams \in Seq(Shape) /\ nodes \in Seq(AnyNode) /\ Len(nodes) \in Nat
      /\ \A i \in 1..Len(nodes) : Good(rams, nodes[i])
      /\ memory_list \in [Kinds -> Seq(1..Len(nodes))]
      /\ work \in Seq(1..Len(nodes))
  BY DEF TypeInv
<1>2. /\ rams' \in Seq(Shape) /\ Len(rams) + 1 \in DOMAIN rams' /\ rams'[Len(rams) + 1] = s
  BY <1>1 DEF CreateRam
<1>3. Good(rams', n)
  BY <1>2, NewMemoryGood
<1>4. n \in AnyNode
  BY <1>2, <1>3, GoodFacts
<1> HIDE DEF n
<1>5. nodes' = Append(nodes, n)
  BY DEF CreateRam, n
<1>6. /\ nodes' \in Seq(AnyNode) /\ Len(nodes') = size
      /\ \A i \in 1..size : nodes'[i] = IF i = size THEN n ELSE nodes[i]
  BY <1>1, <1>4, <1>5
<1>7. ASSUME NEW i \in 1..Len(nodes') PROVE Good(rams', nodes'[i])
  <2>1. CASE i = size
    BY <1>3, <1>6, <2>1
  <2>2. CASE i \in 1..Len(nodes)
    <3>1. rams' = Append(rams, s)
      BY DEF CreateRam
    <3>2. Good(rams', nodes[i])
      BY <1>1, <2>2, <3>1, GrowGood
    <3>3. nodes'[i] = nodes[i]
      BY <1>1, <1>6, <2>2
    <3> QED
      BY <3>2, <3>3
  <2> QED
    BY <1>1, <1>6, <2>1, <2>2
<1>8. memory_list' \in [Kinds -> Seq(1..Len(nodes'))]
  <2>1. Len(s.addr) \in Kinds
    BY ShapeFacts
  <2>2. \A k \in Kinds : memory_list[k] \in Seq(1..size)
    BY <1>1, LargerIndexes
  <2>3. <<size>> \in Seq(1..size)
    BY <1>1
  <2>4. <<size>> \o memory_list[Len(s.addr)] \in Seq(1..size)
    BY <2>1, <2>2, <2>3
  <2>5. memory_list' = [memory_list EXCEPT ![Len(s.addr)] = <<size>> \o @]
    BY DEF CreateRam
  <2>6. memory_list \in [Kinds -> Seq(1..size)]
    BY <1>1, <2>2
  <2> QED
    BY <1>6, <2>1, <2>4, <2>5, <2>6
<1>9. work' \in Seq(1..Len(nodes'))
  BY <1>1, <1>6, LargerIndexes DEF CreateRam
<1>10. arch' = arch /\ loop' = loop /\ stage' = stage /\ stage = "create"
  BY DEF CreateRam
<1>11. Program' = Program
  BY <1>10 DEF Program, Filters, SplitAndPad, Only, Has
<1>12. arch' \in Archs /\ loop' \in 0..Len(Program') + 1
  BY <1>10, <1>11 DEF TypeInv
<1> QED
  BY <1>2, <1>6, <1>7, <1>8, <1>9, <1>10, <1>12 DEF TypeInv

LEMMA StartTypeInv ==
  ASSUME TypeInv, NEW l \in 1..Len(Program) + 1, StartLoop(l), UNCHANGED <<arch, rams, nodes>>
  PROVE  TypeInv'
<1>1. Program' = Program
  BY DEF Program, Filters, SplitAndPad, Only, Has
<1>2. Len(Program) \in Nat
  BY ProgramLoops
<1>3. <<>> \in Seq(1..Len(nodes)) /\ memory_list \in [Kinds -> Seq(1..Len(nodes))]
  BY DEF TypeInv
<1>4. /\ memory_list' \in [Kinds -> Seq(1..Len(nodes))] /\ work' \in Seq(1..Len(nodes))
      /\ loop' = l /\ stage' \in {"iterate", "map"} /\ (stage' = "iterate" => l <= Len(Program))
  <2>1. CASE l > Len(Program)
    <3>1. memory_list' = [k \in Kinds |-> <<>>] /\ work' = work /\ loop' = l /\ stage' = "map"
      BY <2>1 DEF StartLoop
    <3>2. work \in Seq(1..Len(nodes))
      BY DEF TypeInv
    <3> QED
      BY <1>3, <2>1, <3>1, <3>2
  <2>2. CASE l <= Len(Program)
    <3>1. l \in 1..Len(Program) /\ ~(l > Len(Program))
      BY <1>2, <2>2
    <3>2. Program[l][2] \in Kinds
      BY <3>1, ProgramLoops
    <3>3. /\ memory_list' = [memory_list EXCEPT ![Program[l][2]] = <<>>]
          /\ work' = memory_list[Program[l][2]] /\ loop' = l /\ stage' = "iterate"
      BY <3>1 DEF StartLoop
    <3> HIDE DEF Kinds
    <3>4. work' \in Seq(1..Len(nodes)) /\ memory_list' \in [Kinds -> Seq(1..Len(nodes))]
      BY <1>3, <3>2, <3>3
    <3> QED
      BY <2>2, <3>3, <3>4
  <2> QED
    BY <1>2, <2>1, <2>2
<1>5. /\ arch' \in Archs /\ rams' \in Seq(Shape) /\ nodes' \in Seq(AnyNode)
      /\ \A i \in 1..Len(nodes') : Good(rams', nodes'[i])
  BY DEF TypeInv
<1>6. loop' \in 0..Len(Program') + 1 /\ (stage' = "iterate" => loop' \in 1..Len(Program'))
  BY <1>1, <1>2, <1>4
<1> QED
  BY <1>4, <1>5, <1>6 DEF TypeInv

LEMMA IterateTypeInv ==
  ASSUME TypeInv, IterateMemories
  PROVE  TypeInv'
<1>1. UNCHANGED <<arch, rams, nodes>>
  BY DEF IterateMemories
<1>2. Program' = Program /\ Len(Program) \in Nat
  <2>1. Program' = Program
    BY <1>1 DEF Program, Filters, SplitAndPad, Only, Has
  <2> QED
    BY <2>1, ProgramLoops
<1>3. CASE StartLoop(1)
  BY <1>1, <1>2, <1>3, StartTypeInv
<1>4. CASE stage' \in {"map", "error"} /\ UNCHANGED <<memory_list, work, loop>>
  <2>1. /\ arch' \in Archs /\ rams' \in Seq(Shape) /\ nodes' \in Seq(AnyNode)
        /\ \A i \in 1..Len(nodes') : Good(rams', nodes'[i])
    BY <1>1 DEF TypeInv
  <2>2. /\ memory_list' \in [Kinds -> Seq(1..Len(nodes'))] /\ work' \in Seq(1..Len(nodes'))
        /\ loop' \in 0..Len(Program') + 1
    <3>1. memory_list \in [Kinds -> Seq(1..Len(nodes))] /\ work \in Seq(1..Len(nodes)) /\ loop \in 0..Len(Program) + 1
      BY DEF TypeInv
    <3> QED
      BY <1>1, <1>2, <1>4, <3>1, Zenon
  <2> QED
    BY <1>4, <2>1, <2>2 DEF TypeInv
<1> QED
  BY <1>3, <1>4 DEF IterateMemories

(* A loop that has looked at a node.                                       *)
LEMMA LookedTypeInv ==
  ASSUME TypeInv, stage = "iterate", UNCHANGED <<arch, rams, loop, stage>>,
         nodes' \in Seq(AnyNode), \A i \in 1..Len(nodes') : Good(rams, nodes'[i]),
         memory_list' \in [Kinds -> Seq(1..Len(nodes'))],
         work' \in Seq(1..Len(nodes'))
  PROVE  TypeInv'
<1>1. Program' = Program
  BY DEF Program, Filters, SplitAndPad, Only, Has
<1>2. arch' \in Archs /\ rams' \in Seq(Shape) /\ \A i \in 1..Len(nodes') : Good(rams', nodes'[i])
  BY DEF TypeInv
<1>3. loop' \in 0..Len(Program') + 1 /\ stage' = "iterate" /\ loop' \in 1..Len(Program')
  BY <1>1 DEF TypeInv
<1> QED
  BY <1>2, <1>3 DEF TypeInv

LEMMA KeepTypeInv ==
  ASSUME TypeInv, stage = "iterate", work # <<>>, UNCHANGED <<arch, rams, loop, stage>>, Keep
  PROVE  TypeInv'
<1>1. /\ Current \in 1..Len(nodes) /\ Tail(work) \in Seq(1..Len(nodes)) /\ ListKind \in Kinds
      /\ Len(nodes) \in Nat
  BY LookingFacts DEF TypeInv
<1>2. nodes' = nodes /\ work' = Tail(work) /\ Listing(<<Current>>)
  BY DEF Keep
<1>3. memory_list' \in [Kinds -> Seq(1..Len(nodes))]
  <2>1. memory_list \in [Kinds -> Seq(1..Len(nodes))] /\ <<Current>> \in Seq(1..Len(nodes))
    BY <1>1 DEF TypeInv
  <2> QED
    BY <1>1, <1>2, <2>1, ListingFacts
<1>4. nodes' \in Seq(AnyNode) /\ \A i \in 1..Len(nodes') : Good(rams, nodes'[i])
  BY <1>2 DEF TypeInv
<1> QED
  BY <1>1, <1>2, <1>3, <1>4, LookedTypeInv

LEMMA FilterTypeInv ==
  ASSUME TypeInv, FilterMemory
  PROVE  TypeInv'
<1>1. stage = "iterate" /\ work # <<>>
  BY DEF FilterMemory, Looking
<1>2. /\ Current \in 1..Len(nodes) /\ Tail(work) \in Seq(1..Len(nodes)) /\ ListKind \in Kinds
      /\ Len(nodes) \in Nat
  BY <1>1, LookingFacts DEF TypeInv
<1> DEFINE ns == IF LargeEnough(Node) THEN <<Current>> ELSE <<>>
<1>3. nodes' = nodes /\ work' = Tail(work) /\ Listing(ns) /\ UNCHANGED <<arch, rams, loop, stage>>
  BY DEF FilterMemory
<1>4. ns \in Seq(1..Len(nodes))
  <2>1. <<Current>> \in Seq(1..Len(nodes)) /\ <<>> \in Seq(1..Len(nodes))
    BY <1>2
  <2> QED
    BY <2>1, Zenon
<1> HIDE DEF ns
<1>5. memory_list' \in [Kinds -> Seq(1..Len(nodes))]
  <2>1. memory_list \in [Kinds -> Seq(1..Len(nodes))]
    BY DEF TypeInv
  <2> QED
    BY <1>2, <1>3, <1>4, <2>1, ListingFacts
<1>6. nodes' \in Seq(AnyNode) /\ \A i \in 1..Len(nodes') : Good(rams, nodes'[i])
  BY <1>3 DEF TypeInv
<1> QED
  BY <1>1, <1>2, <1>3, <1>5, <1>6, LookedTypeInv

LEMMA PadTypeInv ==
  ASSUME TypeInv, PadMemory
  PROVE  TypeInv'
<1>1. stage = "iterate" /\ work # <<>>
  BY DEF PadMemory, Looking
<1>2. /\ Current \in 1..Len(nodes) /\ Tail(work) \in Seq(1..Len(nodes)) /\ ListKind \in Kinds
      /\ Has(ListKind) /\ arch \in Archs /\ Good(rams, Node) /\ Len(nodes) \in Nat
      /\ rams \in Seq(Shape) /\ nodes \in Seq(AnyNode) /\ \A i \in 1..Len(nodes) : Good(rams, nodes[i])
  BY <1>1, LookingFacts DEF TypeInv
<1>3. /\ nodes' = [nodes EXCEPT ![Current] = Padded(Node, ListKind)]
      /\ work' = Tail(work) /\ Listing(<<Current>>) /\ UNCHANGED <<arch, rams, loop, stage>>
  BY DEF PadMemory
<1>4. Good(rams, Padded(Node, ListKind))
  BY <1>2, PaddedGood
<1>5. Padded(Node, ListKind) \in AnyNode
  BY <1>2, <1>4, GoodFacts
<1>6. /\ nodes' \in Seq(AnyNode) /\ Len(nodes') = Len(nodes)
      /\ \A i \in 1..Len(nodes) : nodes'[i] = IF i = Current THEN Padded(Node, ListKind) ELSE nodes[i]
  BY <1>2, <1>3, <1>5
<1>7. memory_list' \in [Kinds -> Seq(1..Len(nodes))]
  <2>1. memory_list \in [Kinds -> Seq(1..Len(nodes))] /\ <<Current>> \in Seq(1..Len(nodes))
    BY <1>2 DEF TypeInv
  <2> QED
    BY <1>2, <1>3, <2>1, ListingFacts
<1>8. \A i \in 1..Len(nodes') : Good(rams, nodes'[i])
  BY <1>2, <1>4, <1>6
<1> QED
  BY <1>1, <1>2, <1>3, <1>6, <1>7, <1>8, LookedTypeInv

(* A node that is cut up, and the pieces behind the other nodes.           *)
LEMMA ReplacedFacts ==
  ASSUME TypeInv, stage = "iterate", work # <<>>, NEW by \in Seq(AnyNode),
         \A j \in 1..Len(by) : Good(rams, by[j])
  PROVE  /\ Replaced(by) \in Seq(AnyNode) /\ Len(Replaced(by)) = Len(nodes) + Len(by)
         /\ \A i \in 1..Len(Replaced(by)) : Good(rams, Replaced(by)[i])
         /\ Replaced(by)[Current] = [Node EXCEPT !.made = "cut"]
         /\ \A i \in 1..Len(nodes) : i # Current => Replaced(by)[i] = nodes[i]
         /\ \A j \in 1..Len(by) : Replaced(by)[Len(nodes) + j] = by[j]
<1> DEFINE m == [Node EXCEPT !.made = "cut"]
<1>1. /\ Current \in 1..Len(nodes) /\ Good(rams, Node) /\ rams \in Seq(Shape)
      /\ nodes \in Seq(AnyNode) /\ \A i \in 1..Len(nodes) : Good(rams, nodes[i])
  BY LookingFacts DEF TypeInv
<1>2. Good(rams, m)
  BY <1>1, MadeGood
<1>3. Replaced(by) = [nodes EXCEPT ![Current] = m] \o by
  BY DEF Replaced, Node
<1> HIDE DEF m
<1>4. /\ [nodes EXCEPT ![Current] = m] \o by \in Seq(AnyNode)
      /\ Len([nodes EXCEPT ![Current] = m] \o by) = Len(nodes) + Len(by)
      /\ \A j \in 1..Len([nodes EXCEPT ![Current] = m] \o by) :
            Good(rams, ([nodes EXCEPT ![Current] = m] \o by)[j])
      /\ ([nodes EXCEPT ![Current] = m] \o by)[Current] = m
      /\ \A j \in 1..Len(nodes) : j # Current => ([nodes EXCEPT ![Current] = m] \o by)[j] = nodes[j]
      /\ \A j \in 1..Len(by) : ([nodes EXCEPT ![Current] = m] \o by)[Len(nodes) + j] = by[j]
  BY <1>1, <1>2, NodesFacts
<1> QED
  BY <1>3, <1>4, Zenon DEF m

(* The two pieces of a memory that is too deep.                            *)
LEMMA DepthPieces ==
  ASSUME TypeInv, stage = "iterate", work # <<>>, ~(AddrWidth(Node) <= SplitDepth(ListKind))
  PROVE  LET by == <<DepthPiece(Node, 1), DepthPiece(Node, 0)>>
         IN  /\ by \in Seq(AnyNode) /\ Len(by) = 2
             /\ \A j \in 1..Len(by) : Good(rams, by[j]) /\ by[j].ram = Node.ram /\ by[j].made = Node.made
<1>1. /\ Good(rams, Node) /\ rams \in Seq(Shape) /\ SplitDepth(ListKind) \in Nat \ {0}
  BY LookingFacts, ArchFacts DEF TypeInv, Positive
<1>2. AddrWidth(Node) \in Nat
  BY <1>1, GoodFacts
<1>3. AddrWidth(Node) >= 2
  BY <1>1, <1>2
<1>4. ASSUME NEW is \in Bit
      PROVE  /\ Good(rams, DepthPiece(Node, is)) /\ DepthPiece(Node, is).ram = Node.ram
             /\ DepthPiece(Node, is).made = Node.made /\ DepthPiece(Node, is) \in AnyNode
  <2>1. /\ Good(rams, DepthPiece(Node, is)) /\ DepthPiece(Node, is).ram = Node.ram
        /\ DepthPiece(Node, is).made = Node.made
    BY <1>1, <1>3, DepthPieceGood
  <2> QED
    BY <1>1, <2>1, GoodFacts
<1> DEFINE a == DepthPiece(Node, 1)
           b == DepthPiece(Node, 0)
<1>5. /\ Good(rams, a) /\ a.ram = Node.ram /\ a.made = Node.made /\ a \in AnyNode
      /\ Good(rams, b) /\ b.ram = Node.ram /\ b.made = Node.made /\ b \in AnyNode
  BY <1>4 DEF Bit
<1> HIDE DEF a, b
<1>6. /\ <<a, b>> \in Seq(AnyNode) /\ Len(<<a, b>>) = 2
      /\ \A j \in 1..2 : Good(rams, <<a, b>>[j]) /\ <<a, b>>[j].ram = Node.ram /\ <<a, b>>[j].made = Node.made
  BY <1>5
<1> QED
  BY <1>6 DEF a, b

LEMMA SplitDepthTypeInv ==
  ASSUME TypeInv, SplitMemoryDepth
  PROVE  TypeInv'
<1>1. stage = "iterate" /\ work # <<>> /\ UNCHANGED <<arch, rams, loop, stage>>
  BY DEF SplitMemoryDepth, Looking
<1>2. CASE AddrWidth(Node) <= SplitDepth(ListKind)
  BY <1>1, <1>2, KeepTypeInv DEF SplitMemoryDepth
<1>3. CASE ~(AddrWidth(Node) <= SplitDepth(ListKind))
  <2> DEFINE by == <<DepthPiece(Node, 1), DepthPiece(Node, 0)>>
  <2>1. /\ nodes' = Replaced(by) /\ work' = <<Len(nodes) + 1, Len(nodes) + 2>> \o Tail(work)
        /\ memory_list' = memory_list
    BY <1>3 DEF SplitMemoryDepth
  <2>2. /\ by \in Seq(AnyNode) /\ Len(by) = 2 /\ \A j \in 1..Len(by) : Good(rams, by[j])
    BY <1>1, <1>3, DepthPieces
  <2> HIDE DEF by
  <2>3. /\ nodes' \in Seq(AnyNode) /\ Len(nodes') = Len(nodes) + 2
        /\ \A i \in 1..Len(nodes') : Good(rams, nodes'[i])
    BY <1>1, <2>1, <2>2, ReplacedFacts
  <2>4. Len(nodes) \in Nat /\ Seq(1..Len(nodes)) \subseteq Seq(1..Len(nodes'))
    <3>1. Len(nodes) \in Nat
      BY DEF TypeInv
    <3> QED
      BY <2>3, <3>1, LargerIndexes
  <2>5. memory_list' \in [Kinds -> Seq(1..Len(nodes'))]
    BY <2>1, <2>4 DEF TypeInv
  <2>6. work' \in Seq(1..Len(nodes'))
    <3>1. Tail(work) \in Seq(1..Len(nodes'))
      BY <1>1, <2>4, LookingFacts
    <3>2. <<Len(nodes) + 1, Len(nodes) + 2>> \in Seq(1..Len(nodes'))
      BY <2>3, <2>4
    <3> QED
      BY <2>1, <3>1, <3>2
  <2> QED
    BY <1>1, <2>3, <2>5, <2>6, LookedTypeInv
<1> QED
  BY <1>2, <1>3

(* The pieces of a memory that is too wide.                                *)
LEMMA WidthPieces ==
  ASSUME TypeInv, stage = "iterate", work # <<>>
  PROVE  LET target == SplitWidth(ListKind)
             num == NumPieces(DataWidth(Node), target)
             by == [i \in 1..num |-> WidthPiece(Node, i - 1, target)]
         IN  /\ num \in Nat /\ by \in Seq(AnyNode) /\ Len(by) = num
             /\ \A j \in 1..Len(by) : Good(rams, by[j]) /\ by[j].ram = Node.ram /\ by[j].made = Node.made
<1> DEFINE target == SplitWidth(ListKind)
           num == NumPieces(DataWidth(Node), target)
           by == [i \in 1..num |-> WidthPiece(Node, i - 1, target)]
<1>1. /\ Good(rams, Node) /\ rams \in Seq(Shape) /\ target \in Nat \ {0}
  BY LookingFacts, ArchFacts DEF TypeInv, Positive
<1>2. DataWidth(Node) \in Nat \ {0}
  BY <1>1, GoodFacts
<1> HIDE DEF target
<1>3. num \in Nat
  <2>1. DataWidth(Node) + target - 1 \in Nat
    BY <1>1, <1>2
  <2> QED
    BY <1>1, <2>1 DEF NumPieces
<1>4. ASSUME NEW i \in 1..num
      PROVE  /\ Good(rams, by[i]) /\ by[i].ram = Node.ram /\ by[i].made = Node.made /\ by[i] \in AnyNode
  <2>1. i - 1 \in 0 .. NumPieces(DataWidth(Node), target) - 1
    BY <1>3
  <2>2. /\ Good(rams, WidthPiece(Node, i - 1, target)) /\ WidthPiece(Node, i - 1, target).ram = Node.ram
        /\ WidthPiece(Node, i - 1, target).made = Node.made
    BY <1>1, <2>1, WidthPieceGood
  <2>3. WidthPiece(Node, i - 1, target) \in AnyNode
    BY <1>1, <2>2, GoodFacts
  <2>4. by[i] = WidthPiece(Node, i - 1, target)
    OBVIOUS
  <2> HIDE DEF by
  <2> QED
    BY <2>2, <2>3, <2>4
<1>5. by \in Seq(AnyNode) /\ Len(by) = num
  <2>1. by = [i \in 1..num |-> by[i]]
    OBVIOUS
  <2> HIDE DEF by, num
  <2> QED
    BY <1>3, <1>4, <2>1
<1> HIDE DEF by, num
<1>6. /\ num \in Nat /\ by \in Seq(AnyNode) /\ Len(by) = num
      /\ \A j \in 1..Len(by) : Good(rams, by[j]) /\ by[j].ram = Node.ram /\ by[j].made = Node.made
  BY <1>3, <1>4, <1>5
<1> QED
  BY <1>6, Zenon DEF by, num, target

LEMMA SplitWidthTypeInv ==
  ASSUME TypeInv, SplitMemoryWidth
  PROVE  TypeInv'
<1> DEFINE target == SplitWidth(ListKind)
           num == NumPieces(DataWidth(Node), target)
           by == [i \in 1..num |-> WidthPiece(Node, i - 1, target)]
           new == [i \in 1..num |-> Len(nodes) + num + 1 - i]
<1>1. stage = "iterate" /\ work # <<>> /\ UNCHANGED <<arch, rams, loop, stage>>
  BY DEF SplitMemoryWidth, Looking
<1>2. CASE DataWidth(Node) <= target
  BY <1>1, <1>2, KeepTypeInv DEF SplitMemoryWidth
<1>3. CASE ~(DataWidth(Node) <= target)
  <2>1. nodes' = Replaced(by) /\ work' = Tail(work) /\ Listing(new)
    BY <1>3 DEF SplitMemoryWidth
  <2>2. num \in Nat /\ by \in Seq(AnyNode) /\ Len(by) = num /\ \A j \in 1..Len(by) : Good(rams, by[j])
    BY <1>1, WidthPieces
  <2>3. new = [i \in 1..num |-> Len(nodes) + num + 1 - i]
    OBVIOUS
  <2> HIDE DEF by, num, new
  <2>4. /\ nodes' \in Seq(AnyNode) /\ Len(nodes') = Len(nodes) + num
        /\ \A i \in 1..Len(nodes') : Good(rams, nodes'[i])
    BY <1>1, <2>1, <2>2, ReplacedFacts
  <2>5. Len(nodes) \in Nat /\ Seq(1..Len(nodes)) \subseteq Seq(1..Len(nodes'))
    <3>1. Len(nodes) \in Nat
      BY DEF TypeInv
    <3> QED
      BY <2>2, <2>4, <3>1, LargerIndexes
  <2>6. new \in Seq(1..Len(nodes'))
    BY <2>2, <2>3, <2>4, <2>5
  <2>7. memory_list' \in [Kinds -> Seq(1..Len(nodes'))]
    <3>1. memory_list \in [Kinds -> Seq(1..Len(nodes'))] /\ ListKind \in Kinds /\ Len(nodes') \in Nat
      BY <1>1, <2>2, <2>4, <2>5, LookingFacts DEF TypeInv
    <3> QED
      BY <2>1, <2>6, <3>1, ListingFacts
  <2>8. work' \in Seq(1..Len(nodes'))
    BY <1>1, <2>1, <2>5, LookingFacts
  <2> QED
    BY <1>1, <2>4, <2>7, <2>8, LookedTypeInv
<1> QED
  BY <1>2, <1>3

LEMMA MappedFacts ==
  ASSUME NEW rs \in Seq(Shape), NEW n, Good(rs, n)
  PROVE  /\ Good(rs, Mapped(n)) /\ Mapped(n) \in AnyNode /\ Mapped(n).ram = n.ram
         /\ (Mapped(n).made = "cut" <=> n.made = "cut")
<1>1. n.made = "cut" => Mapped(n) = n
  BY DEF Mapped
<1>2. n.made # "cut" =>
        \E m \in {"hard", "soft"} : Mapped(n) = [n EXCEPT !.made = m]
  BY DEF Mapped
<1>3. Good(rs, Mapped(n)) /\ Mapped(n).ram = n.ram /\ (Mapped(n).made = "cut" <=> n.made = "cut")
  <2>1. CASE n.made = "cut"
    BY <1>1, <2>1
  <2>2. CASE n.made # "cut"
    <3>1. Mapped(n) = [n EXCEPT !.made = "hard"] \/ Mapped(n) = [n EXCEPT !.made = "soft"]
      BY <1>2, <2>2
    <3>2. /\ Good(rs, [n EXCEPT !.made = "hard"]) /\ [n EXCEPT !.made = "hard"].made = "hard"
          /\ [n EXCEPT !.made = "hard"].ram = n.ram
      BY MadeGood, ZenonT(60)
    <3>3. /\ Good(rs, [n EXCEPT !.made = "soft"]) /\ [n EXCEPT !.made = "soft"].made = "soft"
          /\ [n EXCEPT !.made = "soft"].ram = n.ram
      BY MadeGood, ZenonT(60)
    <3> QED
      BY <2>2, <3>1, <3>2, <3>3
  <2> QED
    BY <2>1, <2>2
<1> QED
  BY <1>3, GoodFacts

LEMMA PartialMapTypeInv ==
  ASSUME TypeInv, PartialMap
  PROVE  TypeInv'
<1>1. /\ rams \in Seq(Shape) /\ nodes \in Seq(AnyNode) /\ \A i \in 1..Len(nodes) : Good(rams, nodes[i])
      /\ DOMAIN nodes = 1..Len(nodes) /\ Len(nodes) \in Nat
  BY DEF TypeInv
<1>2. /\ UNCHANGED <<arch, rams, memory_list, work, loop>> /\ stage' \in {"error", "mapped"}
      /\ nodes' = nodes \/ nodes' = [i \in DOMAIN nodes |-> Mapped(nodes[i])]
  BY DEF PartialMap
<1>3. /\ nodes' \in Seq(AnyNode) /\ Len(nodes') = Len(nodes)
      /\ \A i \in 1..Len(nodes') : Good(rams, nodes'[i])
  <2>1. CASE nodes' = nodes
    BY <1>1, <2>1
  <2>2. CASE nodes' = [i \in DOMAIN nodes |-> Mapped(nodes[i])]
    <3>1. \A i \in 1..Len(nodes) : Good(rams, Mapped(nodes[i])) /\ Mapped(nodes[i]) \in AnyNode
      BY <1>1, MappedFacts
    <3>2. nodes' = [i \in 1..Len(nodes) |-> Mapped(nodes[i])]
      BY <1>1, <2>2
    <3> QED
      BY <1>1, <3>1, <3>2
  <2> QED
    BY <1>2, <2>1, <2>2
<1>4. Program' = Program
  BY <1>2 DEF Program, Filters, SplitAndPad, Only, Has
<1>5. /\ arch' \in Archs /\ rams' \in Seq(Shape) /\ \A i \in 1..Len(nodes') : Good(rams', nodes'[i])
      /\ memory_list' \in [Kinds -> Seq(1..Len(nodes'))] /\ work' \in Seq(1..Len(nodes'))
      /\ loop' \in 0..Len(Program') + 1
  BY <1>2, <1>3, <1>4 DEF TypeInv
<1> QED
  BY <1>2, <1>3, <1>5 DEF TypeInv

LEMMA UnchangedTypeInv ==
  ASSUME TypeInv, UNCHANGED <<arch, rams, nodes, memory_list, work, loop>>,
         stage' = stage \/ stage' = "error"
  PROVE  TypeInv'
<1>1. Program' = Program
  BY DEF Program, Filters, SplitAndPad, Only, Has
<1>2. /\ arch' \in Archs /\ rams' \in Seq(Shape) /\ nodes' \in Seq(AnyNode)
      /\ \A i \in 1..Len(nodes') : Good(rams', nodes'[i])
      /\ memory_list' \in [Kinds -> Seq(1..Len(nodes'))] /\ work' \in Seq(1..Len(nodes'))
      /\ loop' \in 0..Len(Program') + 1 /\ stage' \in {"create", "iterate", "map", "mapped", "error"}
      /\ (stage' = "iterate" => loop' \in 1..Len(Program'))
  BY <1>1 DEF TypeInv
<1> QED
  BY <1>2 DEF TypeInv

LEMMA NextTypeInv ==
  ASSUME TypeInv, [MemoriesNext]_memories_vars
  PROVE  TypeInv'
<1>1. CASE \E s \in Shape : CreateRam(s)
  BY <1>1, CreateTypeInv
<1>2. CASE IterateMemories
  BY <1>2, IterateTypeInv
<1>3. CASE NextLoop
  <2>1. loop + 1 \in 1..Len(Program) + 1 /\ StartLoop(loop + 1) /\ UNCHANGED <<arch, rams, nodes>>
    <3>1. loop \in 1..Len(Program) /\ Len(Program) \in Nat
      BY <1>3, ProgramLoops DEF TypeInv, NextLoop
    <3> QED
      BY <1>3, <3>1 DEF NextLoop
  <2> QED
    BY <2>1, StartTypeInv
<1>4. CASE SplitMemoryDepth
  BY <1>4, SplitDepthTypeInv
<1>5. CASE SplitMemoryWidth
  BY <1>5, SplitWidthTypeInv
<1>6. CASE FilterMemory
  BY <1>6, FilterTypeInv
<1>7. CASE PadMemory
  BY <1>7, PadTypeInv
<1>8. CASE PartialMap
  BY <1>8, PartialMapTypeInv
<1>9. CASE Stop
  BY <1>9, UnchangedTypeInv DEF Stop
<1>10. CASE UNCHANGED memories_vars
  BY <1>10, UnchangedTypeInv DEF memories_vars
<1> QED
  BY <1>1, <1>2, <1>3, <1>4, <1>5, <1>6, <1>7, <1>8, <1>9, <1>10 DEF MemoriesNext, IterateStep

(***************************************************************************)
(* At every step of the pass a memory node, however it was cut and padded, *)
(* has ports that are alike, and the lines it was cut by and the lines of  *)
(* its address are those of its RAM in order, none left out.               *)
(***************************************************************************)
THEOREM LayoutKept == MemoriesSpec => []TypeInv
<1>1. MemoriesInit => TypeInv
  BY InitTypeInv
<1>2. TypeInv /\ [MemoriesNext]_memories_vars => TypeInv'
  BY NextTypeInv
<1> QED
  BY <1>1, <1>2, PTL DEF MemoriesSpec

LEMMA GoodIsNode ==
  ASSUME rams \in Seq(Shape), NEW n, Good(rams, n)
  PROVE  IsNode(n)
<1>1. /\ n.ram \in DOMAIN rams /\ n \in NodeOf(PortsOf(rams, n.ram)) /\ PortsOf(rams, n.ram) \in {{1}, {1, 2}}
      /\ Ports(n.ram) = PortsOf(rams, n.ram)
  BY GoodFacts DEF Ports, PortsOf
<1> QED
  BY <1>1, NodeFields DEF IsNode, Chosen

(* Every variable of the pass has its type, for every architecture and     *)
(* every RAM.                                                              *)
THEOREM MemoriesTypeCorrect == MemoriesSpec => []MemoriesTypeOK
<1>1. TypeInv => MemoriesTypeOK
  <2> SUFFICES ASSUME TypeInv PROVE MemoriesTypeOK
    OBVIOUS
  <2>1. /\ IsArch(arch) /\ rams \in Seq(Shape) /\ \A r \in DOMAIN rams : rams[r] \in Shape
        /\ DOMAIN nodes = 1..Len(nodes)
    BY ArchFacts DEF TypeInv
  <2>2. \A i \in DOMAIN nodes : IsNode(nodes[i])
    BY <2>1, GoodIsNode DEF TypeInv
  <2> QED
    BY <2>1, <2>2 DEF TypeInv, MemoriesTypeOK
<1> QED
  BY <1>1, LayoutKept, PTL

-----------------------------------------------------------------------------
(* The ports of a RAM                                                      *)

(* Line k of an address, 0 above it.                                       *)
BitAt(a, k) == IF k \in DOMAIN a THEN a[k] ELSE 0

(* On any port, the k-th line stands for the k-th line of the address.     *)
LEMMA ValueAt ==
  ASSUME rams \in Seq(Shape), NEW r \in DOMAIN rams, NEW p \in Ports(r), NEW a \in Addresses(r, p),
         NEW k \in Nat, k >= 1
  PROVE  Value(a, PinAt(rams, r, p, k)) = BitAt(a, k)
<1>1. /\ rams[r].addr[p] \in Nat /\ rams[r].addr[p] <= Widest(rams[r]) /\ Widest(rams[r]) \in Nat
  BY ShapeFacts DEF Ports, Positive
<1>2. /\ DOMAIN a = 1..Widest(rams[r])
      /\ \A i \in 1..Widest(rams[r]) : i > rams[r].addr[p] => a[i] = 0
  BY DEF Addresses
<1>3. CASE k <= rams[r].addr[p]
  <2>1. PinAt(rams, r, p, k) = k /\ k # Pad /\ k \in DOMAIN a
    BY <1>1, <1>2, <1>3 DEF PinAt, Pad
  <2> QED
    BY <2>1 DEF Value, BitAt
<1>4. CASE ~(k <= rams[r].addr[p])
  <2>1. PinAt(rams, r, p, k) = Pad /\ (k \in DOMAIN a => a[k] = 0)
    BY <1>1, <1>2, <1>4 DEF PinAt
  <2> QED
    BY <2>1 DEF Value, BitAt
<1> QED
  BY <1>3, <1>4

(* A memory is chosen at an address by its cuts, on any port alike.        *)
ChosenAt(n, a) == \A k \in 1..Cuts(n) : BitAt(a, k) = n.sel[1][k].is

LEMMA HoldsAt ==
  ASSUME rams \in Seq(Shape), NEW n, Good(rams, n), NEW p \in Ports(n.ram), NEW a \in Addresses(n.ram, p)
  PROVE  /\ Holds(n.sel[p], a) <=> ChosenAt(n, a)
         /\ Holds(n.we[p], a) <=> ChosenAt(n, a)
<1>1. /\ n.ram \in DOMAIN rams /\ n \in NodeOf(PortsOf(rams, n.ram)) /\ DOMAIN n.addr = PortsOf(rams, n.ram)
      /\ PortsOf(rams, n.ram) \in {{1}, {1, 2}} /\ Cuts(n) \in Nat /\ p \in PortsOf(rams, n.ram)
  BY GoodFacts DEF Ports, PortsOf
<1>2. n.sel[p] \in Seq(Chosen)
  BY <1>1, NodeFields
<1>3. /\ n.we[p] = n.sel[p] /\ Len(n.sel[p]) = Cuts(n)
      /\ \A j \in 1..Cuts(n) : n.sel[p][j].is = n.sel[1][j].is
      /\ \A j \in 1..Cuts(n) : n.sel[p][j].pin = PinAt(rams, n.ram, p, j)
  BY <1>1 DEF Good, Alike, InOrder
<1>4. DOMAIN n.sel[p] = 1..Cuts(n)
  BY <1>2, <1>3
<1>5. ASSUME NEW j \in 1..Cuts(n)
      PROVE  (Value(a, n.sel[p][j].pin) = n.sel[p][j].is) <=> (BitAt(a, j) = n.sel[1][j].is)
  <2>1. Value(a, PinAt(rams, n.ram, p, j)) = BitAt(a, j)
    BY <1>1, ValueAt
  <2> QED
    BY <1>3, <2>1
<1>6. Holds(n.sel[p], a) <=> ChosenAt(n, a)
  BY <1>4, <1>5 DEF Holds, ChosenAt
<1> QED
  BY <1>3, <1>6

(* The address a memory sees, on any port alike.                           *)
LEMMA LineAt ==
  ASSUME rams \in Seq(Shape), NEW n, Good(rams, n), NEW p \in Ports(n.ram), NEW a \in Addresses(n.ram, p)
  PROVE  Line(n, p, a) = [i \in 1..AddrWidth(n) |-> BitAt(a, Cuts(n) + i)]
<1>1. /\ n.ram \in DOMAIN rams /\ n \in NodeOf(PortsOf(rams, n.ram)) /\ DOMAIN n.addr = PortsOf(rams, n.ram)
      /\ PortsOf(rams, n.ram) \in {{1}, {1, 2}} /\ Cuts(n) \in Nat /\ p \in PortsOf(rams, n.ram)
      /\ AddrWidth(n) \in Nat
  BY GoodFacts DEF Ports, PortsOf
<1>2. n.addr[p] \in Seq(Pin)
  BY <1>1, NodeFields
<1>3. /\ Len(n.addr[p]) = AddrWidth(n)
      /\ \A j \in 1..AddrWidth(n) : n.addr[p][j] = PinAt(rams, n.ram, p, Cuts(n) + j)
  BY <1>1 DEF Good, Alike, InOrder
<1>4. DOMAIN n.addr[p] = 1..AddrWidth(n)
  BY <1>2, <1>3
<1>5. ASSUME NEW j \in 1..AddrWidth(n)
      PROVE  Value(a, n.addr[p][j]) = BitAt(a, Cuts(n) + j)
  <2>1. Cuts(n) + j \in Nat /\ Cuts(n) + j >= 1
    BY <1>1
  <2>2. Value(a, PinAt(rams, n.ram, p, Cuts(n) + j)) = BitAt(a, Cuts(n) + j)
    BY <1>1, <2>1, ValueAt
  <2> QED
    BY <1>3, <2>2
<1> QED
  BY <1>4, <1>5 DEF Line

(* Cuts and lines together tell two addresses apart.                       *)
LEMMA AddressesDiffer ==
  ASSUME rams \in Seq(Shape), NEW n, Good(rams, n), NEW p \in Ports(n.ram), NEW q \in Ports(n.ram),
         NEW a \in Addresses(n.ram, p), NEW c \in Addresses(n.ram, q),
         ChosenAt(n, a), ChosenAt(n, c), Line(n, p, a) = Line(n, q, c)
  PROVE  a = c
<1> DEFINE W == Widest(rams[n.ram])
<1>1. /\ n.ram \in DOMAIN rams /\ W \in Nat /\ Cuts(n) \in Nat /\ AddrWidth(n) \in Nat
      /\ Cuts(n) + AddrWidth(n) >= W
  BY GoodFacts, ShapeFacts DEF Good, InOrder, Positive
<1>2. a \in [1..W -> Bit] /\ c \in [1..W -> Bit]
  BY DEF Addresses
<1>3. [i \in 1..AddrWidth(n) |-> BitAt(a, Cuts(n) + i)] = [i \in 1..AddrWidth(n) |-> BitAt(c, Cuts(n) + i)]
  BY LineAt
<1> HIDE DEF W
<1>4. ASSUME NEW k \in 1..W PROVE a[k] = c[k]
  <2>1. BitAt(a, k) = a[k] /\ BitAt(c, k) = c[k]
    BY <1>2 DEF BitAt
  <2>2. CASE k <= Cuts(n)
    <3>1. k \in 1..Cuts(n)
      BY <1>1, <2>2
    <3>2. BitAt(a, k) = n.sel[1][k].is /\ BitAt(c, k) = n.sel[1][k].is
      BY <3>1 DEF ChosenAt
    <3> QED
      BY <2>1, <3>2
  <2>3. CASE ~(k <= Cuts(n))
    <3>1. k - Cuts(n) \in 1..AddrWidth(n) /\ Cuts(n) + (k - Cuts(n)) = k
      BY <1>1, <2>3
    <3>2. BitAt(a, Cuts(n) + (k - Cuts(n))) = BitAt(c, Cuts(n) + (k - Cuts(n)))
      BY <1>3, <3>1
    <3> QED
      BY <2>1, <3>1, <3>2
  <2> QED
    BY <2>2, <2>3
<1>5. a = [k \in 1..W |-> a[k]] /\ c = [k \in 1..W |-> c[k]]
  BY <1>2
<1>6. [k \in 1..W |-> a[k]] = [k \in 1..W |-> c[k]]
  BY <1>4
<1> QED
  BY <1>5, <1>6

LEMMA SharedCells ==
  ASSUME rams \in Seq(Shape), NEW n, Good(rams, n), NEW p \in Ports(n.ram), NEW q \in Ports(n.ram)
  PROVE  /\ n.out[p] = n.data[q]
         /\ \A a \in Addresses(n.ram, p), c \in Addresses(n.ram, q) :
               Holds(n.sel[p], a) /\ Holds(n.we[q], c) => ((Line(n, p, a) = Line(n, q, c)) <=> (a = c))
<1>1. DOMAIN n.addr = Ports(n.ram)
  BY GoodFacts DEF Ports, PortsOf
<1>2. n.out[p] = n.data[q]
  BY <1>1 DEF Good, Alike
<1>3. ASSUME NEW a \in Addresses(n.ram, p), NEW c \in Addresses(n.ram, q),
             Holds(n.sel[p], a), Holds(n.we[q], c)
      PROVE  (Line(n, p, a) = Line(n, q, c)) <=> (a = c)
  <2>1. ChosenAt(n, a) /\ ChosenAt(n, c)
    BY <1>3, HoldsAt
  <2>2. (Line(n, p, a) = Line(n, q, c)) => (a = c)
    BY <2>1, AddressesDiffer
  <2>3. ASSUME a = c PROVE Line(n, p, a) = Line(n, q, c)
    <3>1. Line(n, p, a) = [i \in 1..AddrWidth(n) |-> BitAt(a, Cuts(n) + i)]
      BY LineAt
    <3>2. Line(n, q, c) = [i \in 1..AddrWidth(n) |-> BitAt(c, Cuts(n) + i)]
      BY LineAt
    <3> QED
      BY <2>3, <3>1, <3>2
  <2> QED
    BY <2>2, <2>3
<1> QED
  BY <1>2, <1>3

(* Whatever the widths of its address ports and however it is cut, what    *)
(* one port of a RAM writes at an address is what the other reads there.   *)
THEOREM PortsAlwaysShareCells == MemoriesSpec => []PortsShareCells
<1>1. TypeInv => PortsShareCells
  <2> SUFFICES ASSUME TypeInv PROVE PortsShareCells
    OBVIOUS
  <2>1. rams \in Seq(Shape) /\ DOMAIN nodes = 1..Len(nodes)
    BY DEF TypeInv
  <2>2. ASSUME NEW r \in DOMAIN rams, NEW i \in Remaining(r), NEW p \in Ports(r), NEW q \in Ports(r)
        PROVE  /\ nodes[i].out[p] = nodes[i].data[q]
               /\ \A a \in Addresses(r, p), c \in Addresses(r, q) :
                    Holds(nodes[i].sel[p], a) /\ Holds(nodes[i].we[q], c) =>
                      ((Line(nodes[i], p, a) = Line(nodes[i], q, c)) <=> (a = c))
    <3>1. Good(rams, nodes[i]) /\ nodes[i].ram = r
      BY <2>1 DEF TypeInv, Remaining
    <3> QED
      BY <2>1, <3>1, SharedCells
  <2> QED
    BY <2>2 DEF PortsShareCells
<1> QED
  BY <1>1, LayoutKept, PTL

-----------------------------------------------------------------------------
(***************************************************************************)
(* Splitting and padding leave every cell of a RAM to exactly one pin of   *)
(* one memory.                                                             *)
(***************************************************************************)

(* Pin j of a memory carries bit b of RAM r at an address.                 *)
Carries(n, r, a, b, j) ==
  /\ n.ram = r /\ n.made # "cut"
  /\ j \in 1..DataWidth(n) /\ n.data[1][j] = b
  /\ ChosenAt(n, a)

Somewhere(ns, r, a, b) == \E i \in 1..Len(ns) : \E j \in Nat : Carries(ns[i], r, a, b, j)

Once(ns, r, a, b) ==
  \A i, i2 \in 1..Len(ns) : \A j, j2 \in Nat :
    Carries(ns[i], r, a, b, j) /\ Carries(ns[i2], r, a, b, j2) => i = i2 /\ j = j2

Covered(rs, ns) ==
  \A r \in DOMAIN rs : \A a \in [1..Widest(rs[r]) -> Bit] : \A b \in 1..rs[r].data :
    Somewhere(ns, r, a, b) /\ Once(ns, r, a, b)

CellsInv == TypeInv /\ Covered(rams, nodes)

-----------------------------------------------------------------------------
(* Some memories of a list together carry what a memory n did, on one pin. *)
TakeOver(all, Pieces, n, r, a, b) ==
  /\ (\E j \in Nat : Carries(n, r, a, b, j)) =>
        \E i \in Pieces : \E j \in Nat : Carries(all[i], r, a, b, j)
  /\ \A i \in Pieces : \A j \in Nat : Carries(all[i], r, a, b, j) =>
        \E j2 \in Nat : Carries(n, r, a, b, j2)
  /\ \A i, i2 \in Pieces : \A j, j2 \in Nat :
        Carries(all[i], r, a, b, j) /\ Carries(all[i2], r, a, b, j2) => i = i2 /\ j = j2

(* Memory c changes, and others come behind.                               *)
LEMMA ReplaceCovered ==
  ASSUME NEW ns, NEW all, NEW r, NEW a, NEW b, NEW c \in 1..Len(ns), Len(ns) \in Nat, Len(all) \in Nat,
         Len(ns) <= Len(all), \A i \in 1..Len(ns) : i # c => all[i] = ns[i],
         Somewhere(ns, r, a, b), Once(ns, r, a, b),
         TakeOver(all, {c} \cup (Len(ns) + 1 .. Len(all)), ns[c], r, a, b)
  PROVE  Somewhere(all, r, a, b) /\ Once(all, r, a, b)
<1> DEFINE Pieces == {c} \cup (Len(ns) + 1 .. Len(all))
<1>0. /\ (\E j \in Nat : Carries(ns[c], r, a, b, j)) =>
            \E i \in Pieces : \E j \in Nat : Carries(all[i], r, a, b, j)
      /\ \A i \in Pieces : \A j \in Nat : Carries(all[i], r, a, b, j) =>
            \E j2 \in Nat : Carries(ns[c], r, a, b, j2)
      /\ \A i, i2 \in Pieces : \A j, j2 \in Nat :
            Carries(all[i], r, a, b, j) /\ Carries(all[i2], r, a, b, j2) => i = i2 /\ j = j2
  BY DEF TakeOver
<1>1. Pieces \subseteq 1..Len(all) /\ 1..Len(ns) \subseteq 1..Len(all)
  OBVIOUS
<1>2. \A i \in 1..Len(all) : i \in Pieces \/ (i \in 1..Len(ns) /\ i # c)
  OBVIOUS
<1> HIDE DEF Pieces
<1>3. Somewhere(all, r, a, b)
  <2>1. PICK i \in 1..Len(ns), j \in Nat : Carries(ns[i], r, a, b, j)
    BY DEF Somewhere
  <2>2. CASE i = c
    <3>1. PICK i2 \in Pieces, j2 \in Nat : Carries(all[i2], r, a, b, j2)
      BY <1>0, <2>1, <2>2
    <3> QED
      BY <1>1, <3>1 DEF Somewhere
  <2>3. CASE i # c
    <3>1. i \in 1..Len(all) /\ Carries(all[i], r, a, b, j)
      BY <1>1, <2>1, <2>3
    <3> QED
      BY <3>1 DEF Somewhere
  <2> QED
    BY <2>2, <2>3
<1>4. ASSUME NEW i \in 1..Len(all), NEW i2 \in 1..Len(all), NEW j \in Nat, NEW j2 \in Nat,
             Carries(all[i], r, a, b, j), Carries(all[i2], r, a, b, j2)
      PROVE  i = i2 /\ j = j2
  <2>1. CASE i \in Pieces /\ i2 \in Pieces
    BY <1>0, <1>4, <2>1
  <2>2. CASE i \in 1..Len(ns) /\ i # c /\ i2 \in 1..Len(ns) /\ i2 # c
    <3>1. Carries(ns[i], r, a, b, j) /\ Carries(ns[i2], r, a, b, j2)
      BY <1>4, <2>2
    <3> QED
      BY <2>2, <3>1 DEF Once
  <2>3. ASSUME NEW x \in 1..Len(ns), x # c, NEW y \in Pieces, NEW jx \in Nat, NEW jy \in Nat,
               Carries(all[x], r, a, b, jx), Carries(all[y], r, a, b, jy)
        PROVE  FALSE
    <3>1. Carries(ns[x], r, a, b, jx)
      BY <2>3
    <3>2. PICK jc \in Nat : Carries(ns[c], r, a, b, jc)
      BY <1>0, <2>3
    <3> QED
      BY <2>3, <3>1, <3>2 DEF Once
  <2> QED
    BY <1>2, <1>4, <2>1, <2>2, <2>3
<1> QED
  BY <1>3, <1>4 DEF Once

-----------------------------------------------------------------------------
(* What a piece carries                                                    *)

LEMMA DepthPieceFields ==
  ASSUME NEW rs \in Seq(Shape), NEW n, Good(rs, n), NEW is \in Bit
  PROVE  /\ DepthPiece(n, is).ram = n.ram /\ DepthPiece(n, is).made = n.made
         /\ DepthPiece(n, is).data = n.data
         /\ DepthPiece(n, is).sel[1] = Append(n.sel[1], Choice(n.addr[1][1], is))
<1>1. n \in NodeOf(PortsOf(rs, n.ram)) /\ DOMAIN n.addr = PortsOf(rs, n.ram) /\ 1 \in DOMAIN n.addr
  BY GoodFacts
<1>2. /\ DepthPiece(n, is).ram = n.ram /\ DepthPiece(n, is).made = n.made
      /\ DepthPiece(n, is).data = n.data
      /\ DepthPiece(n, is).sel = [p \in DOMAIN n.addr |-> Append(n.sel[p], Choice(n.addr[p][1], is))]
  BY <1>1 DEF DepthPiece, NodeOf
<1> QED
  BY <1>1, <1>2

LEMMA DepthCarries ==
  ASSUME NEW rs \in Seq(Shape), NEW n, Good(rs, n), NEW is \in Bit, NEW r, NEW a, NEW b, NEW j
  PROVE  Carries(DepthPiece(n, is), r, a, b, j)
           <=> Carries(n, r, a, b, j) /\ BitAt(a, Cuts(n) + 1) = is
<1> DEFINE c == DepthPiece(n, is)
<1>1. /\ c.ram = n.ram /\ c.made = n.made /\ c.data = n.data
      /\ c.sel[1] = Append(n.sel[1], Choice(n.addr[1][1], is))
  BY DepthPieceFields
<1>2. n.sel[1] \in Seq(Chosen) /\ Cuts(n) = Len(n.sel[1]) /\ Cuts(n) \in Nat
  BY GoodFacts, NodeFields DEF Cuts
<1> HIDE DEF c
<1>3. DataWidth(c) = DataWidth(n) /\ Cuts(c) = Cuts(n) + 1
  BY <1>1, <1>2 DEF DataWidth, Cuts
<1>4. /\ \A k \in 1..Cuts(n) : c.sel[1][k] = n.sel[1][k]
      /\ c.sel[1][Cuts(n) + 1].is = is
  BY <1>1, <1>2 DEF Choice
<1>5. ChosenAt(c, a) <=> ChosenAt(n, a) /\ BitAt(a, Cuts(n) + 1) = is
  <2>1. \A k \in 1..Cuts(c) : k \in 1..Cuts(n) \/ k = Cuts(n) + 1
    BY <1>2, <1>3
  <2>2. 1..Cuts(n) \subseteq 1..Cuts(c) /\ Cuts(n) + 1 \in 1..Cuts(c)
    BY <1>2, <1>3
  <2>3. ASSUME ChosenAt(c, a) PROVE ChosenAt(n, a) /\ BitAt(a, Cuts(n) + 1) = is
    BY <1>4, <2>2, <2>3 DEF ChosenAt
  <2>4. ASSUME ChosenAt(n, a), BitAt(a, Cuts(n) + 1) = is PROVE ChosenAt(c, a)
    BY <1>4, <2>1, <2>4 DEF ChosenAt
  <2> QED
    BY <2>3, <2>4
<1> QED
  BY <1>1, <1>3, <1>5 DEF Carries, c

LEMMA ShareAt ==
  ASSUME NEW S, NEW pins \in Seq(S), NEW target \in Nat \ {0}, NEW t \in Nat, t * target < Len(pins)
  PROVE  /\ Len(Share(pins, t, target)) =
              IF t * target + target < Len(pins) THEN target ELSE Len(pins) - t * target
         /\ \A j \in 1..Len(Share(pins, t, target)) :
              /\ Share(pins, t, target)[j] = pins[t * target + j]
              /\ t * target + j \in 1..Len(pins) /\ j \in 1..target
<1> DEFINE from == t * target
           to == IF from + target < Len(pins) THEN from + target ELSE Len(pins)
<1>1. from \in Nat /\ (t + 1) * target = from + target /\ Len(pins) \in Nat /\ from < Len(pins)
  OBVIOUS
<1>2. Share(pins, t, target) = SubSeq(pins, from + 1, to)
  BY <1>1 DEF Share
<1> HIDE DEF from
<1>3. to \in Nat /\ to <= Len(pins) /\ to >= from + 1 /\ to <= from + target
  BY <1>1
<1>4. to - from = IF from + target < Len(pins) THEN target ELSE Len(pins) - from
  BY <1>1
<1> HIDE DEF to
<1>5. /\ Len(SubSeq(pins, from + 1, to)) = to - from
      /\ \A j \in 1..to - from : SubSeq(pins, from + 1, to)[j] = pins[from + j]
  <2>1. \A j \in from + 1 .. to : j \in 1..Len(pins)
    BY <1>1, <1>3
  <2>2. /\ Len(SubSeq(pins, from + 1, to)) = IF from + 1 <= to THEN to - (from + 1) + 1 ELSE 0
        /\ \A j \in 1 .. to - (from + 1) + 1 : SubSeq(pins, from + 1, to)[j] = pins[from + 1 + j - 1]
    BY <1>1, <1>3, <2>1, SubSeqProperties
  <2>3. \A j \in 1..to - from : j \in 1 .. to - (from + 1) + 1 /\ from + 1 + j - 1 = from + j
    BY <1>1, <1>3
  <2> QED
    BY <1>1, <1>3, <2>2, <2>3
<1>6. \A j \in 1..to - from : from + j \in 1..Len(pins) /\ j \in 1..target
  BY <1>1, <1>3
<1> QED
  BY <1>2, <1>4, <1>5, <1>6 DEF from

LEMMA WidthPieceFields ==
  ASSUME NEW rs \in Seq(Shape), NEW n, Good(rs, n), NEW t, NEW target
  PROVE  /\ WidthPiece(n, t, target).ram = n.ram /\ WidthPiece(n, t, target).made = n.made
         /\ WidthPiece(n, t, target).sel = n.sel
         /\ WidthPiece(n, t, target).data[1] = Share(n.data[1], t, target)
<1>1. n \in NodeOf(PortsOf(rs, n.ram)) /\ DOMAIN n.addr = PortsOf(rs, n.ram) /\ 1 \in DOMAIN n.addr
  BY GoodFacts
<1>2. /\ WidthPiece(n, t, target).ram = n.ram /\ WidthPiece(n, t, target).made = n.made
      /\ WidthPiece(n, t, target).sel = n.sel
      /\ WidthPiece(n, t, target).data = [p \in DOMAIN n.addr |-> Share(n.data[p], t, target)]
  BY <1>1 DEF WidthPiece, NodeOf
<1> QED
  BY <1>1, <1>2

(* Piece t of a width cut carries on pin j what pin t * target + j did.    *)
LEMMA WidthCarries ==
  ASSUME NEW rs \in Seq(Shape), NEW n, Good(rs, n), NEW target \in Nat \ {0},
         NEW t \in 0 .. NumPieces(DataWidth(n), target) - 1, NEW r, NEW a, NEW b, NEW j \in Nat
  PROVE  /\ Carries(WidthPiece(n, t, target), r, a, b, j) =>
              j \in 1..target /\ Carries(n, r, a, b, t * target + j)
         /\ j \in 1..target /\ Carries(n, r, a, b, t * target + j) =>
              Carries(WidthPiece(n, t, target), r, a, b, j)
<1> DEFINE c == WidthPiece(n, t, target)
           at == t * target
<1>1. /\ c.ram = n.ram /\ c.made = n.made /\ c.sel = n.sel /\ c.data[1] = Share(n.data[1], t, target)
  BY WidthPieceFields
<1>2. /\ n.data[1] \in Seq(Pin) /\ DataWidth(n) = Len(n.data[1]) /\ DataWidth(n) \in Nat \ {0}
  BY GoodFacts, NodeFields DEF DataWidth
<1>3. t \in Nat /\ at < DataWidth(n) /\ at \in Nat
  BY <1>2, PiecesStart
<1>4. /\ DataWidth(c) = IF at + target < DataWidth(n) THEN target ELSE DataWidth(n) - at
      /\ \A k \in 1..DataWidth(c) :
            c.data[1][k] = n.data[1][at + k] /\ at + k \in 1..DataWidth(n) /\ k \in 1..target
  <2>1. /\ Len(Share(n.data[1], t, target)) =
              IF t * target + target < Len(n.data[1]) THEN target ELSE Len(n.data[1]) - t * target
        /\ \A k \in 1..Len(Share(n.data[1], t, target)) :
              /\ Share(n.data[1], t, target)[k] = n.data[1][t * target + k]
              /\ t * target + k \in 1..Len(n.data[1]) /\ k \in 1..target
    <3>1. n.data[1] \in Seq(Pin) /\ t \in Nat /\ t * target < Len(n.data[1])
      BY <1>2, <1>3
    <3> HIDE DEF c, at
    <3> QED
      BY <3>1, ShareAt, Zenon
  <2>2. DataWidth(c) = Len(Share(n.data[1], t, target))
    BY <1>1 DEF DataWidth
  <2> HIDE DEF c
  <2> QED
    BY <1>1, <1>2, <2>1, <2>2, Zenon DEF at
<1>5. ChosenAt(c, a) <=> ChosenAt(n, a)
  BY <1>1 DEF ChosenAt, Cuts
<1> HIDE DEF c, at
<1>6. Carries(c, r, a, b, j) => j \in 1..target /\ Carries(n, r, a, b, at + j)
  BY <1>1, <1>4, <1>5 DEF Carries
<1>7. ASSUME j \in 1..target, Carries(n, r, a, b, at + j) PROVE Carries(c, r, a, b, j)
  <2>1. at + j \in 1..DataWidth(n) /\ n.data[1][at + j] = b
    BY <1>7 DEF Carries
  <2>2. j \in 1..DataWidth(c)
    BY <1>2, <1>3, <1>4, <1>7, <2>1
  <2> QED
    BY <1>1, <1>4, <1>5, <1>7, <2>1, <2>2 DEF Carries
<1> QED
  BY <1>6, <1>7 DEF c, at

LEMMA PadCarries ==
  ASSUME NEW rs \in Seq(Shape), NEW n, Good(rs, n), arch \in Archs, NEW k \in Kinds, Has(k),
         NEW r, NEW a, NEW b \in Nat \ {0}, NEW j \in Nat
  PROVE  Carries(Padded(n, k), r, a, b, j) <=> Carries(n, r, a, b, j)
<1> DEFINE c == Padded(n, k)
           width == SplitWidth(k)
<1>1. /\ n \in NodeOf(PortsOf(rs, n.ram)) /\ DOMAIN n.addr = PortsOf(rs, n.ram) /\ 1 \in DOMAIN n.addr
      /\ n.data[1] \in Seq(Pin)
  BY GoodFacts, NodeFields
<1>2. /\ c.ram = n.ram /\ c.made = n.made /\ c.sel = n.sel
      /\ c.data = [p \in DOMAIN n.addr |-> PadTo(n.data[p], width)]
  BY <1>1 DEF Padded, NodeOf
<1>3. width \in Nat
  BY ArchFacts DEF Positive
<1> HIDE DEF width, c
<1>4. c.data[1] = PadTo(n.data[1], width)
  BY <1>1, <1>2
<1>5. /\ Len(c.data[1]) = IF width > Len(n.data[1]) THEN width ELSE Len(n.data[1])
      /\ \A m \in 1..Len(n.data[1]) : c.data[1][m] = n.data[1][m]
      /\ \A m \in Len(n.data[1]) + 1 .. width : c.data[1][m] = Pad
  BY <1>1, <1>3, <1>4, PadToFacts
<1>6. ChosenAt(c, a) <=> ChosenAt(n, a)
  BY <1>2 DEF ChosenAt, Cuts
<1>7. (j \in 1..DataWidth(c) /\ c.data[1][j] = b) <=> (j \in 1..DataWidth(n) /\ n.data[1][j] = b)
  <2>1. Len(n.data[1]) \in Nat
    BY <1>1
  <2>2. j \in 1..Len(n.data[1]) => j \in 1..Len(c.data[1])
    BY <1>3, <1>5, <2>1
  <2>3. j \in 1..Len(c.data[1]) => j \in 1..Len(n.data[1]) \/ j \in Len(n.data[1]) + 1 .. width
    BY <1>3, <1>5, <2>1
  <2> QED
    BY <1>5, <2>2, <2>3 DEF DataWidth, Pad
<1> QED
  BY <1>2, <1>6, <1>7 DEF Carries, c

-----------------------------------------------------------------------------
(* Every step keeps the cells covered                                      *)

(* A memory that carries nothing else than before, or nothing as before.   *)
LEMMA CutCarriesNothing ==
  ASSUME NEW n, n.made = "cut", NEW r, NEW a, NEW b, NEW j
  PROVE  ~Carries(n, r, a, b, j)
BY DEF Carries

LEMMA DepthCovered ==
  ASSUME TypeInv, SplitMemoryDepth, NEW r, NEW W \in Nat, NEW a \in [1..W -> Bit], NEW b,
         Somewhere(nodes, r, a, b), Once(nodes, r, a, b)
  PROVE  Somewhere(nodes', r, a, b) /\ Once(nodes', r, a, b)
<1>1. stage = "iterate" /\ work # <<>>
  BY DEF SplitMemoryDepth, Looking
<1>2. CASE AddrWidth(Node) <= SplitDepth(ListKind)
  <2>1. nodes' = nodes
    BY <1>2 DEF SplitMemoryDepth, Keep
  <2> QED
    BY <2>1
<1>3. CASE ~(AddrWidth(Node) <= SplitDepth(ListKind))
  <2> DEFINE by == <<DepthPiece(Node, 1), DepthPiece(Node, 0)>>
             Pieces == {Current} \cup (Len(nodes) + 1 .. Len(nodes'))
             bit == BitAt(a, Cuts(Node) + 1)
             i1 == Len(nodes) + 1
             i0 == Len(nodes) + 2
  <2>1. nodes' = Replaced(by)
    BY <1>3 DEF SplitMemoryDepth
  <2>2. by \in Seq(AnyNode) /\ Len(by) = 2 /\ \A j \in 1..Len(by) : Good(rams, by[j])
    BY <1>1, <1>3, DepthPieces
  <2>3. by[1] = DepthPiece(Node, 1) /\ by[2] = DepthPiece(Node, 0)
    OBVIOUS
  <2>4. Current \in 1..Len(nodes) /\ Good(rams, Node) /\ rams \in Seq(Shape) /\ Len(nodes) \in Nat
    BY <1>1, LookingFacts DEF TypeInv
  <2> HIDE DEF by
  <2>5. /\ Len(nodes') = Len(nodes) + 2 /\ nodes'[Current] = [Node EXCEPT !.made = "cut"]
        /\ \A i \in 1..Len(nodes) : i # Current => nodes'[i] = nodes[i]
        /\ \A j \in 1..2 : nodes'[Len(nodes) + j] = by[j]
    BY <1>1, <2>1, <2>2, ReplacedFacts
  <2>6. nodes'[i1] = DepthPiece(Node, 1) /\ nodes'[i0] = DepthPiece(Node, 0)
    BY <2>3, <2>5
  <2>7. /\ \A j : Carries(nodes'[i1], r, a, b, j) <=> Carries(Node, r, a, b, j) /\ bit = 1
        /\ \A j : Carries(nodes'[i0], r, a, b, j) <=> Carries(Node, r, a, b, j) /\ bit = 0
    BY <2>4, <2>6, DepthCarries DEF Bit
  <2>8. \A j : ~Carries(nodes'[Current], r, a, b, j)
    <3>1. nodes'[Current].made = "cut"
      BY <2>4, <2>5, MadeGood
    <3> QED
      BY <3>1, CutCarriesNothing
  <2>9. bit = 0 \/ bit = 1
    BY DEF BitAt, Bit
  <2>10. Pieces = {Current, i1, i0} /\ i1 # i0 /\ i1 \in Pieces /\ i0 \in Pieces
    BY <2>4, <2>5
  <2>11. Len(nodes') \in Nat /\ Len(nodes) <= Len(nodes')
    BY <2>4, <2>5
  <2>12. Node = nodes[Current]
    BY DEF Node
  <2> HIDE DEF bit, i1, i0, Pieces
  <2>13. ASSUME \E j \in Nat : Carries(nodes[Current], r, a, b, j)
         PROVE  \E i \in Pieces : \E j \in Nat : Carries(nodes'[i], r, a, b, j)
    BY <2>7, <2>9, <2>10, <2>12, <2>13
  <2>14. ASSUME NEW i \in Pieces, NEW j \in Nat, Carries(nodes'[i], r, a, b, j)
         PROVE  Carries(nodes[Current], r, a, b, j)
    BY <2>7, <2>8, <2>10, <2>12, <2>14
  <2>15. ASSUME NEW i \in Pieces, NEW i2 \in Pieces, NEW j \in Nat, NEW j2 \in Nat,
                Carries(nodes'[i], r, a, b, j), Carries(nodes'[i2], r, a, b, j2)
         PROVE  i = i2 /\ j = j2
    <3>1. j = j2
      BY <2>4, <2>14, <2>15 DEF Once
    <3>2. i = i2
      BY <2>7, <2>8, <2>10, <2>15
    <3> QED
      BY <3>1, <3>2
  <2> QED
    <3>1. TakeOver(nodes', Pieces, nodes[Current], r, a, b)
      BY <2>13, <2>14, <2>15 DEF TakeOver
    <3>2. TakeOver(nodes', {Current} \cup (Len(nodes) + 1 .. Len(nodes')), nodes[Current], r, a, b)
      BY <3>1 DEF Pieces
    <3> QED
      BY <2>4, <2>5, <2>11, <3>2, ReplaceCovered
<1> QED
  BY <1>2, <1>3

(* A pin of a wide memory is a pin of one of its pieces.                   *)
LEMMA PinOfPiece ==
  ASSUME NEW w \in Nat \ {0}, NEW target \in Nat \ {0}, NEW j \in 1..w
  PROVE  \E t \in 0 .. NumPieces(w, target) - 1 : \E k \in 1..target : j = t * target + k
<1> DEFINE t == (j - 1) \div target
           rest == (j - 1) % target
           num == NumPieces(w, target)
<1>1. /\ t \in Nat /\ rest \in 0 .. target - 1 /\ j - 1 = t * target + rest
  <2>1. j - 1 \in Nat
    OBVIOUS
  <2>2. j - 1 = target * t + rest
    BY <2>1
  <2>3. t \in Nat /\ rest \in 0 .. target - 1
    BY <2>1
  <2>4. target * t = t * target
    BY <2>3
  <2> QED
    BY <2>2, <2>3, <2>4
<1>2. w + target - 1 \in Nat /\ num = (w + target - 1) \div target
  BY DEF NumPieces
<1>3. num \in Nat /\ (num + 1) * target > w + target - 1
  BY <1>2
<1> HIDE DEF t, rest, num
<1>4. t < num
  <2> SUFFICES ASSUME num <= t PROVE FALSE
    BY <1>1, <1>3
  <2>1. (num + 1) * target <= (t + 1) * target
    BY <1>1, <1>3
  <2>2. (t + 1) * target = t * target + target
    BY <1>1
  <2> DEFINE x == t * target
             y == (num + 1) * target
  <2>3. x \in Nat /\ y \in Nat
    BY <1>1, <1>3
  <2>4. y <= x + target /\ y > w + target - 1 /\ j - 1 = x + rest
    BY <1>1, <1>3, <2>1, <2>2
  <2> HIDE DEF x, y
  <2> QED
    BY <1>1, <2>3, <2>4
<1>5. j = t * target + (rest + 1) /\ rest + 1 \in 1..target
  <2> DEFINE x == t * target
  <2>1. x \in Nat /\ j - 1 = x + rest
    BY <1>1
  <2> HIDE DEF x
  <2>2. j = x + (rest + 1) /\ rest + 1 \in 1..target
    BY <1>1, <2>1
  <2> QED
    BY <2>2 DEF x
<1>6. t \in 0 .. num - 1
  BY <1>1, <1>3, <1>4
<1> QED
  BY <1>5, <1>6 DEF num

(* ... and of one only.                                                    *)
LEMMA PieceOfPin ==
  ASSUME NEW target \in Nat \ {0}, NEW t \in Nat, NEW t2 \in Nat,
         NEW k \in 1..target, NEW k2 \in 1..target, t * target + k = t2 * target + k2
  PROVE  t = t2 /\ k = k2
<1>1. ASSUME NEW u \in Nat, NEW v \in Nat, NEW x \in 1..target, NEW y \in 1..target,
             u < v, u * target + x = v * target + y
      PROVE  FALSE
  <2>1. (u + 1) * target <= v * target
    BY <1>1
  <2>2. (u + 1) * target = u * target + target
    OBVIOUS
  <2> DEFINE p == u * target
             q == v * target
  <2>3. p \in Nat /\ q \in Nat /\ p + target <= q /\ p + x = q + y
    BY <1>1, <2>1, <2>2
  <2> HIDE DEF p, q
  <2> QED
    BY <2>3
<1>2. t = t2
  BY <1>1
<1>3. k = k2
  <2> DEFINE p == t * target
  <2>1. p \in Nat /\ p + k = p + k2
    BY <1>2
  <2> HIDE DEF p
  <2> QED
    BY <2>1
<1> QED
  BY <1>2, <1>3

LEMMA WidthCovered ==
  ASSUME TypeInv, SplitMemoryWidth, NEW r, NEW a, NEW b,
         Somewhere(nodes, r, a, b), Once(nodes, r, a, b)
  PROVE  Somewhere(nodes', r, a, b) /\ Once(nodes', r, a, b)
<1> DEFINE target == SplitWidth(ListKind)
           num == NumPieces(DataWidth(Node), target)
           by == [i \in 1..num |-> WidthPiece(Node, i - 1, target)]
<1>1. stage = "iterate" /\ work # <<>>
  BY DEF SplitMemoryWidth, Looking
<1>2. CASE DataWidth(Node) <= target
  <2>1. nodes' = nodes
    BY <1>2 DEF SplitMemoryWidth, Keep
  <2> QED
    BY <2>1
<1>3. CASE ~(DataWidth(Node) <= target)
  <2> DEFINE Pieces == {Current} \cup (Len(nodes) + 1 .. Len(nodes'))
  <2>1. nodes' = Replaced(by)
    BY <1>3 DEF SplitMemoryWidth
  <2>2. num \in Nat /\ by \in Seq(AnyNode) /\ Len(by) = num /\ \A j \in 1..Len(by) : Good(rams, by[j])
    BY <1>1, WidthPieces
  <2>3. \A i \in 1..num : by[i] = WidthPiece(Node, i - 1, target)
    OBVIOUS
  <2>4. /\ Current \in 1..Len(nodes) /\ Good(rams, Node) /\ rams \in Seq(Shape) /\ Len(nodes) \in Nat
        /\ target \in Nat \ {0}
    BY <1>1, LookingFacts, ArchFacts DEF TypeInv, Positive
  <2>5. DataWidth(Node) \in Nat \ {0} /\ num = NumPieces(DataWidth(Node), target)
    BY <2>4, GoodFacts
  <2> HIDE DEF by, num, target
  <2>6. /\ Len(nodes') = Len(nodes) + num /\ nodes'[Current] = [Node EXCEPT !.made = "cut"]
        /\ \A i \in 1..Len(nodes) : i # Current => nodes'[i] = nodes[i]
        /\ \A j \in 1..num : nodes'[Len(nodes) + j] = by[j]
    BY <1>1, <2>1, <2>2, ReplacedFacts
  <2>7. ASSUME NEW i \in 1..num, NEW j \in Nat
        PROVE  /\ Carries(nodes'[Len(nodes) + i], r, a, b, j) =>
                     j \in 1..target /\ Carries(Node, r, a, b, (i - 1) * target + j)
               /\ j \in 1..target /\ Carries(Node, r, a, b, (i - 1) * target + j) =>
                     Carries(nodes'[Len(nodes) + i], r, a, b, j)
    <3>1. i - 1 \in 0 .. NumPieces(DataWidth(Node), target) - 1
      BY <2>2, <2>5
    <3>2. nodes'[Len(nodes) + i] = WidthPiece(Node, i - 1, target)
      BY <2>3, <2>6
    <3> QED
      BY <2>4, <3>1, <3>2, WidthCarries
  <2>8. \A j : ~Carries(nodes'[Current], r, a, b, j)
    <3>1. nodes'[Current].made = "cut"
      BY <2>4, <2>6, MadeGood
    <3> QED
      BY <3>1, CutCarriesNothing
  <2>9. Len(nodes') \in Nat /\ Len(nodes) <= Len(nodes') /\ Node = nodes[Current]
    BY <2>2, <2>4, <2>6 DEF Node
  <2>10. /\ \A i \in Pieces : i = Current \/ \E k \in 1..num : i = Len(nodes) + k
         /\ \A k \in 1..num : Len(nodes) + k \in Pieces
    <3>1. ASSUME NEW i \in Len(nodes) + 1 .. Len(nodes') PROVE \E k \in 1..num : i = Len(nodes) + k
      <4>1. i - Len(nodes) \in 1..num /\ i = Len(nodes) + (i - Len(nodes))
        BY <2>2, <2>4, <2>6
      <4> QED
        BY <4>1
    <3>2. \A k \in 1..num : Len(nodes) + k \in Len(nodes) + 1 .. Len(nodes')
      BY <2>2, <2>4, <2>6
    <3> QED
      BY <3>1, <3>2
  <2> HIDE DEF Pieces
  <2>11. ASSUME NEW j \in Nat, Carries(nodes[Current], r, a, b, j)
         PROVE  \E i \in Pieces : \E k \in Nat : Carries(nodes'[i], r, a, b, k)
    <3>1. j \in 1..DataWidth(Node)
      BY <2>9, <2>11 DEF Carries
    <3>2. PICK t \in 0 .. num - 1, k \in 1..target : j = t * target + k
      BY <2>4, <2>5, <3>1, PinOfPiece
    <3>3. t + 1 \in 1..num /\ (t + 1) - 1 = t /\ k \in Nat
      BY <2>2, <2>4, <3>2
    <3>4. Carries(Node, r, a, b, ((t + 1) - 1) * target + k)
      BY <2>9, <2>11, <3>2, <3>3
    <3>5. Carries(nodes'[Len(nodes) + (t + 1)], r, a, b, k)
      BY <2>7, <3>3, <3>4
    <3> QED
      BY <2>10, <3>3, <3>5
  <2>12. ASSUME NEW i \in Pieces, NEW j \in Nat, Carries(nodes'[i], r, a, b, j)
         PROVE  \E k \in 1..num : /\ i = Len(nodes) + k /\ j \in 1..target
                                  /\ (k - 1) * target + j \in Nat
                                  /\ Carries(nodes[Current], r, a, b, (k - 1) * target + j)
    <3>1. PICK k \in 1..num : i = Len(nodes) + k
      BY <2>8, <2>10, <2>12
    <3>2. j \in 1..target /\ Carries(Node, r, a, b, (k - 1) * target + j)
      BY <2>7, <2>12, <3>1
    <3>3. (k - 1) * target + j \in Nat
      BY <2>2, <2>4
    <3> QED
      BY <2>9, <3>1, <3>2, <3>3
  <2>13. ASSUME NEW i \in Pieces, NEW i2 \in Pieces, NEW j \in Nat, NEW j2 \in Nat,
                Carries(nodes'[i], r, a, b, j), Carries(nodes'[i2], r, a, b, j2)
         PROVE  i = i2 /\ j = j2
    <3>1. PICK k \in 1..num : /\ i = Len(nodes) + k /\ j \in 1..target
                              /\ (k - 1) * target + j \in Nat
                              /\ Carries(nodes[Current], r, a, b, (k - 1) * target + j)
      BY <2>12, <2>13
    <3>2. PICK k2 \in 1..num : /\ i2 = Len(nodes) + k2 /\ j2 \in 1..target
                               /\ (k2 - 1) * target + j2 \in Nat
                               /\ Carries(nodes[Current], r, a, b, (k2 - 1) * target + j2)
      BY <2>12, <2>13
    <3>3. (k - 1) * target + j = (k2 - 1) * target + j2
      BY <2>4, <3>1, <3>2 DEF Once
    <3>4. k - 1 \in Nat /\ k2 - 1 \in Nat
      BY <2>2
    <3>5. k - 1 = k2 - 1 /\ j = j2
      <4>1. target \in Nat \ {0} /\ j \in 1..target /\ j2 \in 1..target
        BY <2>4, <3>1, <3>2
      <4> DEFINE t == k - 1
                 t2 == k2 - 1
      <4>2. t \in Nat /\ t2 \in Nat /\ t * target + j = t2 * target + j2
        BY <3>3, <3>4
      <4> HIDE DEF t, t2
      <4>3. t = t2 /\ j = j2
        BY <4>1, <4>2, PieceOfPin
      <4> QED
        BY <4>3 DEF t, t2
    <3>6. k = k2
      BY <2>2, <3>5
    <3> QED
      BY <3>1, <3>2, <3>5, <3>6
  <2>14. TakeOver(nodes', Pieces, nodes[Current], r, a, b)
    BY <2>11, <2>12, <2>13 DEF TakeOver
  <2>15. TakeOver(nodes', {Current} \cup (Len(nodes) + 1 .. Len(nodes')), nodes[Current], r, a, b)
    BY <2>14 DEF Pieces
  <2> QED
    BY <2>4, <2>6, <2>9, <2>15, ReplaceCovered
<1> QED
  BY <1>2, <1>3

(* Memories that carry what they carried.                                  *)
LEMMA SameCovered ==
  ASSUME NEW ns, NEW all, Len(all) = Len(ns), NEW r, NEW a, NEW b,
         \A i \in 1..Len(ns) : \A j \in Nat : Carries(all[i], r, a, b, j) <=> Carries(ns[i], r, a, b, j),
         Somewhere(ns, r, a, b), Once(ns, r, a, b)
  PROVE  Somewhere(all, r, a, b) /\ Once(all, r, a, b)
<1>1. Somewhere(all, r, a, b)
  BY DEF Somewhere
<1>2. Once(all, r, a, b)
  BY DEF Once
<1> QED
  BY <1>1, <1>2

LEMMA PadCovered ==
  ASSUME TypeInv, PadMemory, NEW r, NEW a, NEW b \in Nat \ {0},
         Somewhere(nodes, r, a, b), Once(nodes, r, a, b)
  PROVE  Somewhere(nodes', r, a, b) /\ Once(nodes', r, a, b)
<1>1. stage = "iterate" /\ work # <<>> /\ nodes' = [nodes EXCEPT ![Current] = Padded(Node, ListKind)]
  BY DEF PadMemory, Looking
<1>2. /\ Current \in 1..Len(nodes) /\ ListKind \in Kinds /\ Has(ListKind) /\ arch \in Archs
      /\ Good(rams, Node) /\ rams \in Seq(Shape) /\ nodes \in Seq(AnyNode)
  BY <1>1, LookingFacts DEF TypeInv
<1>3. /\ Len(nodes') = Len(nodes) /\ nodes'[Current] = Padded(Node, ListKind)
      /\ \A i \in 1..Len(nodes) : i # Current => nodes'[i] = nodes[i]
  BY <1>1, <1>2
<1>4. \A j \in Nat : Carries(Padded(Node, ListKind), r, a, b, j) <=> Carries(Node, r, a, b, j)
  BY <1>2, PadCarries
<1>5. \A i \in 1..Len(nodes) : \A j \in Nat : Carries(nodes'[i], r, a, b, j) <=> Carries(nodes[i], r, a, b, j)
  BY <1>3, <1>4 DEF Node
<1> QED
  BY <1>3, <1>5, SameCovered

LEMMA MadeCarries ==
  ASSUME NEW rs \in Seq(Shape), NEW n, Good(rs, n), NEW m, m.ram = n.ram, m.data = n.data, m.sel = n.sel,
         m.made = "cut" <=> n.made = "cut", NEW r, NEW a, NEW b, NEW j
  PROVE  Carries(m, r, a, b, j) <=> Carries(n, r, a, b, j)
<1>1. DataWidth(m) = DataWidth(n) /\ (ChosenAt(m, a) <=> ChosenAt(n, a))
  BY DEF DataWidth, ChosenAt, Cuts
<1> QED
  BY <1>1 DEF Carries

LEMMA MapCovered ==
  ASSUME TypeInv, PartialMap, NEW r, NEW a, NEW b,
         Somewhere(nodes, r, a, b), Once(nodes, r, a, b)
  PROVE  Somewhere(nodes', r, a, b) /\ Once(nodes', r, a, b)
<1>1. /\ rams \in Seq(Shape) /\ \A i \in 1..Len(nodes) : Good(rams, nodes[i])
      /\ DOMAIN nodes = 1..Len(nodes) /\ Len(nodes) \in Nat
  BY DEF TypeInv
<1>2. CASE nodes' = nodes
  BY <1>2
<1>3. CASE nodes' = [i \in DOMAIN nodes |-> Mapped(nodes[i])]
  <2>1. nodes' = [i \in 1..Len(nodes) |-> Mapped(nodes[i])]
    BY <1>1, <1>3
  <2>2. Len(nodes') = Len(nodes) /\ \A i \in 1..Len(nodes) : nodes'[i] = Mapped(nodes[i])
    BY <1>1, <2>1
  <2>3. ASSUME NEW i \in 1..Len(nodes), NEW j \in Nat
        PROVE  Carries(nodes'[i], r, a, b, j) <=> Carries(nodes[i], r, a, b, j)
    <3> DEFINE n == nodes[i]
    <3>1. Good(rams, n)
      BY <1>1
    <3> HIDE DEF n
    <3>2. Mapped(n) = n \/ (n.made # "cut" /\ Mapped(n) = [n EXCEPT !.made = "hard"])
            \/ (n.made # "cut" /\ Mapped(n) = [n EXCEPT !.made = "soft"])
      BY DEF Mapped
    <3>3. ASSUME n.made # "cut", NEW m, m = [n EXCEPT !.made = "hard"] PROVE Carries(m, r, a, b, j) <=> Carries(n, r, a, b, j)
      <4>1. m.ram = n.ram /\ m.data = n.data /\ m.sel = n.sel /\ m.made = "hard"
        BY <1>1, <3>1, <3>3, MadeGood
      <4> QED
        BY <1>1, <3>1, <3>3, <4>1, MadeCarries
    <3>4. ASSUME n.made # "cut", NEW m, m = [n EXCEPT !.made = "soft"] PROVE Carries(m, r, a, b, j) <=> Carries(n, r, a, b, j)
      <4>1. m.ram = n.ram /\ m.data = n.data /\ m.sel = n.sel /\ m.made = "soft"
        BY <1>1, <3>1, <3>4, MadeGood
      <4> QED
        BY <1>1, <3>1, <3>4, <4>1, MadeCarries
    <3>5. Carries(Mapped(n), r, a, b, j) <=> Carries(n, r, a, b, j)
      BY <3>2, <3>3, <3>4
    <3> QED
      BY <2>2, <3>5 DEF n
  <2> QED
    BY <2>2, <2>3, SameCovered
<1> QED
  BY <1>2, <1>3 DEF PartialMap

(* A new RAM is one memory, and the others do not belong to it.            *)
LEMMA CreateCovered ==
  ASSUME CellsInv, NEW s \in Shape, CreateRam(s)
  PROVE  Covered(rams', nodes')
<1> DEFINE new == Len(rams) + 1
           n == NewMemory(new, s)
           size == Len(nodes) + 1
<1>1. /\ rams \in Seq(Shape) /\ nodes \in Seq(AnyNode) /\ Len(nodes) \in Nat /\ Len(rams) \in Nat
      /\ \A i \in 1..Len(nodes) : Good(rams, nodes[i])
  BY DEF CellsInv, TypeInv
<1>2. rams' = Append(rams, s) /\ nodes' = Append(nodes, n)
  BY DEF CreateRam
<1>3. /\ rams' \in Seq(Shape) /\ DOMAIN rams' = 1..Len(rams) + 1 /\ rams'[new] = s
      /\ \A r \in 1..Len(rams) : rams'[r] = rams[r]
      /\ DOMAIN rams = 1..Len(rams)
  BY <1>1, <1>2
<1>4. n.ram = new /\ n.made = "memory"
  BY DEF NewMemory
<1>5. /\ n.data = [p \in DOMAIN s.addr |-> [i \in 1..s.data |-> i]] /\ n.sel = [p \in DOMAIN s.addr |-> <<>>]
      /\ s.data \in Nat /\ 1 \in DOMAIN s.addr
  BY ShapeFacts DEF NewMemory, Positive
<1> HIDE DEF n
<1>6. /\ Len(nodes') = size /\ nodes'[size] = n
      /\ \A i \in 1..Len(nodes) : nodes'[i] = nodes[i]
  BY <1>1, <1>2
<1>7. \A i \in 1..Len(nodes) : nodes[i].ram \in 1..Len(rams)
  BY <1>1, <1>3 DEF Good
<1>8. 1..Len(nodes) \subseteq 1..size /\ size \in 1..size /\ \A i \in 1..size : i \in 1..Len(nodes) \/ i = size
  BY <1>1
<1> HIDE DEF size
<1>9. ASSUME NEW r \in 1..Len(rams), NEW a, NEW b, Somewhere(nodes, r, a, b), Once(nodes, r, a, b)
      PROVE  Somewhere(nodes', r, a, b) /\ Once(nodes', r, a, b)
  <2>1. \A j : ~Carries(nodes'[size], r, a, b, j)
    BY <1>1, <1>4, <1>6, <1>9 DEF Carries
  <2>2. Somewhere(nodes', r, a, b)
    BY <1>6, <1>8, <1>9 DEF Somewhere
  <2>3. Once(nodes', r, a, b)
    BY <1>6, <1>8, <1>9, <2>1 DEF Once
  <2> QED
    BY <2>2, <2>3
<1>10. ASSUME NEW a, NEW b \in 1..s.data
       PROVE  Somewhere(nodes', new, a, b) /\ Once(nodes', new, a, b)
  <2>1. n.data[1] = [i \in 1..s.data |-> i] /\ n.sel[1] = <<>>
    BY <1>5
  <2>2. DataWidth(n) = s.data /\ ChosenAt(n, a)
    BY <1>5, <2>1 DEF DataWidth, ChosenAt, Cuts
  <2>3. \A j : Carries(n, new, a, b, j) <=> j = b
    BY <1>4, <1>5, <2>1, <2>2 DEF Carries
  <2>4. \A i \in 1..Len(nodes) : \A j : ~Carries(nodes'[i], new, a, b, j)
    <3>1. \A i \in 1..Len(nodes) : nodes'[i].ram # new
      BY <1>1, <1>6, <1>7
    <3> QED
      BY <3>1 DEF Carries
  <2>5. Somewhere(nodes', new, a, b)
    BY <1>5, <1>6, <1>8, <2>3 DEF Somewhere
  <2>6. Once(nodes', new, a, b)
    <3>1. ASSUME NEW i \in 1..Len(nodes'), NEW j, Carries(nodes'[i], new, a, b, j) PROVE i = size /\ j = b
      <4>1. i = size
        BY <1>6, <1>8, <2>4, <3>1
      <4>2. Carries(n, new, a, b, j)
        BY <1>6, <3>1, <4>1
      <4> QED
        BY <2>3, <4>1, <4>2
    <3>2. ASSUME NEW i \in 1..Len(nodes'), NEW i2 \in 1..Len(nodes'), NEW j \in Nat, NEW j2 \in Nat,
                 Carries(nodes'[i], new, a, b, j), Carries(nodes'[i2], new, a, b, j2)
          PROVE  i = i2 /\ j = j2
      <4>1. i = size /\ j = b
        BY <3>1, <3>2, Zenon
      <4>2. i2 = size /\ j2 = b
        BY <3>1, <3>2, Zenon
      <4> QED
        BY <4>1, <4>2
    <3> QED
      BY <3>2, Zenon DEF Once
  <2> QED
    BY <2>5, <2>6
<1>11. ASSUME NEW r \in DOMAIN rams', NEW a \in [1..Widest(rams'[r]) -> Bit], NEW b \in 1..rams'[r].data
       PROVE  Somewhere(nodes', r, a, b) /\ Once(nodes', r, a, b)
  <2>1. CASE r = new
    BY <1>3, <1>10, <2>1
  <2>2. CASE r \in 1..Len(rams)
    <3>1. rams'[r] = rams[r] /\ r \in DOMAIN rams
      BY <1>3, <2>2
    <3>2. Somewhere(nodes, r, a, b) /\ Once(nodes, r, a, b)
      BY <3>1 DEF CellsInv, Covered
    <3> QED
      BY <1>9, <2>2, <3>2
  <2> QED
    BY <1>1, <1>3, <2>1, <2>2
<1> QED
  BY <1>11 DEF Covered

(* A step that keeps the RAMs.                                             *)
LEMMA StepCovered ==
  ASSUME CellsInv, rams' = rams,
         \A r \in DOMAIN rams : \A a \in [1..Widest(rams[r]) -> Bit] : \A b \in 1..rams[r].data :
           Somewhere(nodes, r, a, b) /\ Once(nodes, r, a, b) =>
             Somewhere(nodes', r, a, b) /\ Once(nodes', r, a, b)
  PROVE  Covered(rams', nodes')
BY DEF CellsInv, Covered

LEMMA CellRange ==
  ASSUME TypeInv, NEW r \in DOMAIN rams, NEW b \in 1..rams[r].data
  PROVE  Widest(rams[r]) \in Nat /\ b \in Nat \ {0}
BY ShapeFacts DEF TypeInv, Positive

LEMMA NextCovered ==
  ASSUME CellsInv, [MemoriesNext]_memories_vars
  PROVE  CellsInv'
<1>1. TypeInv /\ TypeInv'
  BY NextTypeInv DEF CellsInv
<1>2. ASSUME rams' = rams, nodes' = nodes PROVE Covered(rams', nodes')
  BY <1>2 DEF CellsInv
<1>3. Covered(rams', nodes')
  <2>1. CASE \E s \in Shape : CreateRam(s)
    BY <2>1, CreateCovered
  <2>2. CASE IterateMemories \/ NextLoop \/ FilterMemory \/ Stop \/ UNCHANGED memories_vars
    BY <1>2, <2>2 DEF IterateMemories, NextLoop, FilterMemory, Stop, memories_vars
  <2>3. CASE SplitMemoryDepth
    <3>1. rams' = rams
      BY <2>3 DEF SplitMemoryDepth
    <3> QED
      BY <1>1, <2>3, <3>1, DepthCovered, CellRange, StepCovered
  <2>4. CASE SplitMemoryWidth
    <3>1. rams' = rams
      BY <2>4 DEF SplitMemoryWidth
    <3> QED
      BY <1>1, <2>4, <3>1, WidthCovered, StepCovered
  <2>5. CASE PadMemory
    <3>1. rams' = rams
      BY <2>5 DEF PadMemory
    <3> QED
      BY <1>1, <2>5, <3>1, PadCovered, CellRange, StepCovered
  <2>6. CASE PartialMap
    <3>1. rams' = rams
      BY <2>6 DEF PartialMap
    <3> QED
      BY <1>1, <2>6, <3>1, MapCovered, StepCovered
  <2> QED
    BY <2>1, <2>2, <2>3, <2>4, <2>5, <2>6 DEF MemoriesNext, IterateStep
<1> QED
  BY <1>1, <1>3 DEF CellsInv

-----------------------------------------------------------------------------
(* What the run checks, from the invariant.                                *)
LEMMA CoveredCells ==
  ASSUME CellsInv
  PROVE  CellsCoveredOnce
<1> SUFFICES ASSUME NEW r \in DOMAIN rams, NEW p \in Ports(r), NEW a \in Addresses(r, p),
                    NEW b \in 1..rams[r].data
             PROVE  \E i \in Remaining(r) : \E j \in DOMAIN nodes[i].out[p] :
                      /\ \A i2 \in Remaining(r) : \A j2 \in DOMAIN nodes[i2].out[p] :
                            ReadAt(i2, p, a, b, j2) <=> (i2 = i /\ j2 = j)
                      /\ \A i2 \in Remaining(r) : \A j2 \in DOMAIN nodes[i2].data[p] :
                            WrittenAt(i2, p, a, b, j2) <=> (i2 = i /\ j2 = j)
  BY DEF CellsCoveredOnce
<1>1. /\ rams \in Seq(Shape) /\ \A i \in 1..Len(nodes) : Good(rams, nodes[i])
      /\ DOMAIN nodes = 1..Len(nodes) /\ Len(nodes) \in Nat
  BY DEF CellsInv, TypeInv
<1>2. a \in [1..Widest(rams[r]) -> Bit]
  BY DEF Addresses
<1>3. Somewhere(nodes, r, a, b) /\ Once(nodes, r, a, b)
  BY <1>2 DEF CellsInv, Covered
<1>4. ASSUME NEW i \in Remaining(r)
      PROVE  /\ DOMAIN nodes[i].out[p] = 1..DataWidth(nodes[i]) /\ DOMAIN nodes[i].data[p] = 1..DataWidth(nodes[i])
             /\ DataWidth(nodes[i]) \in Nat /\ i \in 1..Len(nodes)
             /\ \A j \in 1..DataWidth(nodes[i]) :
                   /\ ReadAt(i, p, a, b, j) <=> Carries(nodes[i], r, a, b, j)
                   /\ WrittenAt(i, p, a, b, j) <=> Carries(nodes[i], r, a, b, j)
  <2>1. i \in 1..Len(nodes) /\ nodes[i].ram = r /\ nodes[i].made # "cut"
    BY <1>1 DEF Remaining
  <2>2. Good(rams, nodes[i])
    BY <1>1, <2>1
  <2>3. DOMAIN nodes[i].addr = Ports(r) /\ 1 \in Ports(r) /\ nodes[i].data[1] \in Seq(Pin)
    BY <1>1, <2>1, <2>2, GoodFacts, NodeFields DEF Ports, PortsOf
  <2>4. nodes[i].out[p] = nodes[i].data[1] /\ nodes[i].data[p] = nodes[i].data[1]
    BY <2>2, <2>3 DEF Good, Alike
  <2>5. DOMAIN nodes[i].data[1] = 1..DataWidth(nodes[i]) /\ DataWidth(nodes[i]) \in Nat
    BY <2>3 DEF DataWidth
  <2>6. (Holds(nodes[i].sel[p], a) <=> ChosenAt(nodes[i], a)) /\ (Holds(nodes[i].we[p], a) <=> ChosenAt(nodes[i], a))
    BY <1>1, <2>1, <2>2, HoldsAt
  <2>7. ASSUME NEW j \in 1..DataWidth(nodes[i])
        PROVE  /\ ReadAt(i, p, a, b, j) <=> Carries(nodes[i], r, a, b, j)
               /\ WrittenAt(i, p, a, b, j) <=> Carries(nodes[i], r, a, b, j)
    BY <2>1, <2>4, <2>6 DEF ReadAt, WrittenAt, Carries
  <2> QED
    BY <2>1, <2>4, <2>5, <2>7
<1>5. PICK i \in 1..Len(nodes), j \in Nat : Carries(nodes[i], r, a, b, j)
  BY <1>3 DEF Somewhere
<1>6. i \in Remaining(r) /\ j \in 1..DataWidth(nodes[i])
  BY <1>1, <1>5 DEF Carries, Remaining
<1>7. ASSUME NEW i2 \in Remaining(r), NEW j2 \in 1..DataWidth(nodes[i2])
      PROVE  Carries(nodes[i2], r, a, b, j2) <=> (i2 = i /\ j2 = j)
  <2>1. i2 \in 1..Len(nodes) /\ j2 \in Nat
    BY <1>4
  <2> QED
    BY <1>3, <1>5, <2>1 DEF Once
<1>8. ASSUME NEW i2 \in Remaining(r), NEW j2 \in 1..DataWidth(nodes[i2])
      PROVE  /\ ReadAt(i2, p, a, b, j2) <=> (i2 = i /\ j2 = j)
             /\ WrittenAt(i2, p, a, b, j2) <=> (i2 = i /\ j2 = j)
  BY <1>4, <1>7
<1>9. j \in DOMAIN nodes[i].out[p]
  BY <1>4, <1>6
<1>10. /\ \A i2 \in Remaining(r) : \A j2 \in DOMAIN nodes[i2].out[p] :
            ReadAt(i2, p, a, b, j2) <=> (i2 = i /\ j2 = j)
       /\ \A i2 \in Remaining(r) : \A j2 \in DOMAIN nodes[i2].data[p] :
            WrittenAt(i2, p, a, b, j2) <=> (i2 = i /\ j2 = j)
  BY <1>4, <1>8
<1> QED
  BY <1>6, <1>9, <1>10

(* Splitting and padding, in whatever order the sizes of the architecture  *)
(* call for, leave every bit of every word of a RAM to exactly one pin of  *)
(* one memory, on every port, to be read and to be written.                *)
THEOREM CellsAlwaysCovered == MemoriesSpec => []CellsCoveredOnce
<1>1. MemoriesInit => CellsInv
  <2> SUFFICES ASSUME MemoriesInit PROVE CellsInv
    OBVIOUS
  <2>1. DOMAIN rams = {}
    BY DEF MemoriesInit
  <2> QED
    BY <2>1, InitTypeInv DEF CellsInv, Covered
<1>2. CellsInv /\ [MemoriesNext]_memories_vars => CellsInv'
  BY NextCovered
<1>3. CellsInv => CellsCoveredOnce
  BY CoveredCells
<1> QED
  BY <1>1, <1>2, <1>3, PTL DEF MemoriesSpec

-----------------------------------------------------------------------------
(***************************************************************************)
(* The lists the loops of iterate_memories go over hold every memory once, *)
(* and a memory that is given to a hard block has the size of the block.   *)
(***************************************************************************)

Members(s) == {s[i] : i \in 1..Len(s)}
Distinct(s) == \A i, j \in 1..Len(s) : s[i] = s[j] => i = j

(* The memories of a kind that were not cut up.                            *)
Live(ns, k) == {i \in 1..Len(ns) : ns[i].made # "cut" /\ Kind(ns[i]) = k}

(* The passes the first l loops make over the memories of a kind.          *)
Reached(k, l) == {Program[m][1] : m \in {m \in 1..Len(Program) : m <= l /\ Program[m][2] = k}}

(* What the passes that are over have left of the size of a memory.        *)
Sized(n, depth, width, passes) ==
  /\ "depth" \in passes => AddrWidth(n) <= depth
  /\ "width" \in passes => DataWidth(n) <= width
  /\ "pad" \in passes => AddrWidth(n) = depth /\ DataWidth(n) = width

Big(a, n) == 2 ^ AddrWidth(n) > a.depth_threshold \/ DataWidth(n) > a.width_threshold

ListsInv ==
  /\ \A k \in Kinds : Distinct(memory_list[k]) /\ Members(memory_list[k]) \subseteq Live(nodes, k)
  /\ stage # "iterate" => work = <<>>
  /\ stage = "iterate" =>
       /\ Distinct(work) /\ Members(work) \subseteq Live(nodes, ListKind)
       /\ Members(work) \cap Members(memory_list[ListKind]) = {}

(* While loops run, a memory is in a list, with the size its passes left   *)
(* it, or too small for a block.                                           *)
IterateInv ==
  \A k \in Kinds : Has(k) =>
    /\ \A i \in Members(memory_list[k]) :
          Sized(nodes[i], SplitDepth(k), SplitWidth(k), Reached(k, loop))
    /\ k = ListKind => \A i \in Members(work) :
          Sized(nodes[i], SplitDepth(k), SplitWidth(k), Reached(k, loop - 1))
    /\ \A i \in Live(nodes, k) : Big(arch, nodes[i]) =>
          i \in Members(memory_list[k]) \/ (k = ListKind /\ i \in Members(work))

(* When they are over, a memory fits its block or is too small for it.     *)
FittedInv ==
  \A k \in Kinds : Has(k) => \A i \in Live(nodes, k) : Big(arch, nodes[i]) =>
    AddrWidth(nodes[i]) = SplitDepth(k) /\ DataWidth(nodes[i]) = SplitWidth(k)

FitInv ==
  /\ stage = "create" => \A k \in Kinds : Live(nodes, k) \subseteq Members(memory_list[k])
  /\ stage = "iterate" => IterateInv
  /\ stage \in {"map", "mapped"} => FittedInv
  /\ stage # "mapped" => \A i \in 1..Len(nodes) : nodes[i].made # "hard"
  /\ \A i \in 1..Len(nodes) : nodes[i].made = "hard" => IsHard(nodes[i])

PassInv == TypeInv /\ ListsInv /\ FitInv

-----------------------------------------------------------------------------
(* Lists                                                                   *)

LEMMA EmptyMembers == Members(<<>>) = {} /\ Distinct(<<>>)
BY DEF Members, Distinct

LEMMA OneMember ==
  ASSUME NEW c
  PROVE  Members(<<c>>) = {c} /\ Distinct(<<c>>)
<1>1. Len(<<c>>) = 1 /\ <<c>>[1] = c
  OBVIOUS
<1> QED
  BY <1>1 DEF Members, Distinct

LEMMA TwoMembers ==
  ASSUME NEW c, NEW d, c # d
  PROVE  Members(<<c, d>>) = {c, d} /\ Distinct(<<c, d>>)
<1>1. Len(<<c, d>>) = 2 /\ <<c, d>>[1] = c /\ <<c, d>>[2] = d
  OBVIOUS
<1>2. \A i \in 1..2 : i = 1 \/ i = 2
  OBVIOUS
<1>3. Members(<<c, d>>) = {c, d}
  BY <1>1, <1>2 DEF Members
<1>4. Distinct(<<c, d>>)
  BY <1>1, <1>2 DEF Distinct
<1> QED
  BY <1>3, <1>4

LEMMA ConcatMembers ==
  ASSUME NEW S, NEW s \in Seq(S), NEW t \in Seq(S)
  PROVE  /\ Members(s \o t) = Members(s) \cup Members(t)
         /\ Distinct(s) /\ Distinct(t) /\ Members(s) \cap Members(t) = {} => Distinct(s \o t)
<1>1. /\ Len(s) \in Nat /\ Len(t) \in Nat /\ Len(s \o t) = Len(s) + Len(t)
      /\ \A i \in 1..Len(s) : (s \o t)[i] = s[i] /\ i \in 1..Len(s \o t)
      /\ \A i \in 1..Len(t) : (s \o t)[Len(s) + i] = t[i] /\ Len(s) + i \in 1..Len(s \o t)
  OBVIOUS
<1>2. \A i \in 1..Len(s \o t) : i \in 1..Len(s) \/ \E j \in 1..Len(t) : i = Len(s) + j
  <2>1. ASSUME NEW i \in 1..Len(s \o t), ~(i \in 1..Len(s)) PROVE i - Len(s) \in 1..Len(t) /\ i = Len(s) + (i - Len(s))
    BY <1>1, <2>1
  <2> QED
    BY <2>1
<1> DEFINE st == s \o t
<1> HIDE DEF st
<1>3. Members(st) \subseteq Members(s) \cup Members(t)
  <2> SUFFICES ASSUME NEW i \in 1..Len(st) PROVE st[i] \in Members(s) \cup Members(t)
    BY DEF Members
  <2>1. CASE i \in 1..Len(s)
    BY <1>1, <2>1 DEF Members, st
  <2>2. CASE \E j \in 1..Len(t) : i = Len(s) + j
    BY <1>1, <2>2 DEF Members, st
  <2> QED
    BY <1>2, <2>1, <2>2 DEF st
<1>4. Members(s) \subseteq Members(st)
  BY <1>1 DEF Members, st
<1>5. Members(t) \subseteq Members(st)
  BY <1>1 DEF Members, st
<1>6. ASSUME Distinct(s), Distinct(t), Members(s) \cap Members(t) = {} PROVE Distinct(st)
  <2> SUFFICES ASSUME NEW i \in 1..Len(st), NEW j \in 1..Len(st), st[i] = st[j] PROVE i = j
    BY DEF Distinct
  <2>1. CASE i \in 1..Len(s) /\ j \in 1..Len(s)
    BY <1>1, <1>6, <2>1 DEF Distinct, st
  <2>0. ASSUME NEW x \in 1..Len(s), NEW y \in 1..Len(t) PROVE st[x] # st[Len(s) + y]
    <3>1. st[x] = s[x] /\ st[Len(s) + y] = t[y]
      BY <1>1 DEF st
    <3> QED
      BY <1>6, <3>1 DEF Members
  <2>2. CASE i \in 1..Len(s) /\ \E y \in 1..Len(t) : j = Len(s) + y
    BY <2>0, <2>2
  <2>3. CASE j \in 1..Len(s) /\ \E x \in 1..Len(t) : i = Len(s) + x
    BY <2>0, <2>3
  <2>4. CASE (\E x \in 1..Len(t) : i = Len(s) + x) /\ (\E y \in 1..Len(t) : j = Len(s) + y)
    <3>1. PICK x \in 1..Len(t) : i = Len(s) + x
      BY <2>4
    <3>2. PICK y \in 1..Len(t) : j = Len(s) + y
      BY <2>4
    <3>3. t[x] = t[y]
      BY <1>1, <3>1, <3>2 DEF st
    <3> QED
      BY <1>6, <3>1, <3>2, <3>3 DEF Distinct
  <2> QED
    BY <1>2, <2>1, <2>2, <2>3, <2>4 DEF st
<1> QED
  BY <1>3, <1>4, <1>5, <1>6 DEF st

LEMMA TailMembers ==
  ASSUME NEW S, NEW s \in Seq(S), s # <<>>, Distinct(s)
  PROVE  /\ Members(s) = {s[1]} \cup Members(Tail(s)) /\ s[1] \notin Members(Tail(s))
         /\ Distinct(Tail(s)) /\ Tail(s) \in Seq(S)
<1> DEFINE t == Tail(s)
<1>1. /\ t \in Seq(S) /\ Len(s) \in Nat /\ Len(s) >= 1 /\ Len(t) = Len(s) - 1
      /\ \A i \in 1..Len(s) - 1 : t[i] = s[i + 1]
  OBVIOUS
<1> HIDE DEF t
<1>2. \A i \in 1..Len(t) : t[i] = s[i + 1] /\ i + 1 \in 1..Len(s) /\ i + 1 # 1
  BY <1>1
<1>3. \A i \in 1..Len(s) : i # 1 => i - 1 \in 1..Len(t) /\ t[i - 1] = s[i]
  <2>1. ASSUME NEW i \in 1..Len(s), i # 1 PROVE i - 1 \in 1..Len(t) /\ (i - 1) + 1 = i
    BY <1>1, <2>1
  <2> QED
    BY <1>2, <2>1
<1>4. 1 \in 1..Len(s)
  BY <1>1
<1>5. Members(s) = {s[1]} \cup Members(t)
  <2>1. Members(s) \subseteq {s[1]} \cup Members(t)
    <3> SUFFICES ASSUME NEW i \in 1..Len(s), i # 1 PROVE s[i] \in Members(t)
      BY DEF Members
    <3> QED
      BY <1>3 DEF Members
  <2>2. {s[1]} \cup Members(t) \subseteq Members(s)
    BY <1>2, <1>4 DEF Members
  <2> QED
    BY <2>1, <2>2
<1>6. s[1] \notin Members(t)
  BY <1>2, <1>4 DEF Members, Distinct
<1>7. Distinct(t)
  <2> SUFFICES ASSUME NEW i \in 1..Len(t), NEW j \in 1..Len(t), t[i] = t[j] PROVE i = j
    BY DEF Distinct
  <2>1. i + 1 = j + 1
    BY <1>2 DEF Distinct
  <2> QED
    BY <2>1
<1> QED
  BY <1>1, <1>5, <1>6, <1>7 DEF t

-----------------------------------------------------------------------------
(* The loops of Program                                                    *)

LEMMA ConcatAt ==
  ASSUME NEW S, NEW s \in Seq(S), NEW t \in Seq(S)
  PROVE  /\ s \o t \in Seq(S) /\ Len(s) \in Nat /\ Len(t) \in Nat /\ Len(s \o t) = Len(s) + Len(t)
         /\ \A i \in 1..Len(s) : (s \o t)[i] = s[i]
         /\ \A i \in 1..Len(t) : (s \o t)[Len(s) + i] = t[i]
OBVIOUS

(* In a sequence of loops, a kind is padded only after it was split.       *)
PadsLast(s, k) ==
  \A l \in 1..Len(s) : s[l] = <<"pad", k>> =>
    \E m1, m2 \in 1 .. l - 1 : s[m1] = <<"depth", k>> /\ s[m2] = <<"width", k>>

Occurring(s, x) == \E l \in 1..Len(s) : s[l] = x

LEMMA ConcatPads ==
  ASSUME NEW S, NEW s \in Seq(S), NEW t \in Seq(S), NEW k, PadsLast(s, k), PadsLast(t, k)
  PROVE  PadsLast(s \o t, k) /\ \A x : Occurring(s, x) \/ Occurring(t, x) => Occurring(s \o t, x)
<1> DEFINE st == s \o t
<1>1. /\ Len(s) \in Nat /\ Len(t) \in Nat /\ Len(st) = Len(s) + Len(t)
      /\ \A i \in 1..Len(s) : st[i] = s[i]
      /\ \A i \in 1..Len(t) : st[Len(s) + i] = t[i]
  OBVIOUS
<1> HIDE DEF st
<1>2. /\ \A i \in 1..Len(s) : i \in 1..Len(st)
      /\ \A i \in 1..Len(t) : Len(s) + i \in 1..Len(st)
  BY <1>1
<1>3. PadsLast(st, k)
  <2> SUFFICES ASSUME NEW l \in 1..Len(st), st[l] = <<"pad", k>>
               PROVE  \E m1, m2 \in 1 .. l - 1 : st[m1] = <<"depth", k>> /\ st[m2] = <<"width", k>>
    BY DEF PadsLast
  <2>1. CASE l \in 1..Len(s)
    <3>1. PICK m1 \in 1 .. l - 1, m2 \in 1 .. l - 1 : s[m1] = <<"depth", k>> /\ s[m2] = <<"width", k>>
      BY <1>1, <2>1 DEF PadsLast
    <3>2. m1 \in 1..Len(s) /\ m2 \in 1..Len(s)
      BY <1>1, <2>1
    <3> QED
      BY <1>1, <3>1, <3>2
  <2>2. CASE ~(l \in 1..Len(s))
    <3> DEFINE j == l - Len(s)
    <3>1. j \in 1..Len(t) /\ l = Len(s) + j
      BY <1>1, <2>2
    <3> HIDE DEF j
    <3>2. t[j] = <<"pad", k>>
      BY <1>1, <3>1
    <3>3. PICK m1 \in 1 .. j - 1, m2 \in 1 .. j - 1 : t[m1] = <<"depth", k>> /\ t[m2] = <<"width", k>>
      BY <3>1, <3>2 DEF PadsLast
    <3>4. /\ m1 \in 1..Len(t) /\ m2 \in 1..Len(t)
          /\ Len(s) + m1 \in 1 .. l - 1 /\ Len(s) + m2 \in 1 .. l - 1
      BY <1>1, <3>1
    <3>5. st[Len(s) + m1] = <<"depth", k>> /\ st[Len(s) + m2] = <<"width", k>>
      BY <1>1, <3>3, <3>4
    <3> QED
      BY <3>4, <3>5
  <2> QED
    BY <2>1, <2>2
<1>4. \A x : Occurring(s, x) \/ Occurring(t, x) => Occurring(st, x)
  BY <1>1, <1>2 DEF Occurring
<1> QED
  BY <1>3, <1>4 DEF st

LEMMA SplitAndPadOrder ==
  ASSUME NEW k \in Kinds, NEW j \in Kinds
  PROVE  /\ PadsLast(SplitAndPad(j), k) /\ SplitAndPad(j) \in Seq(Passes \X Kinds)
         /\ Has(j) => Occurring(SplitAndPad(j), <<"pad", j>>)
<1> DEFINE first == << <<"depth", j>>, <<"width", j>> >>
           h == first \o Filters
           last == << <<"pad", j>> >>
           Others == {"filter", "depth", "width"} \X Kinds
<1>1. CASE ~Has(j)
  <2>1. SplitAndPad(j) = <<>>
    BY <1>1 DEF SplitAndPad, Only
  <2> QED
    BY <1>1, <2>1 DEF PadsLast
<1>2. CASE Has(j)
  <2>1. SplitAndPad(j) = h \o last
    BY <1>2 DEF SplitAndPad, Only
  <2>2. Filters \in Seq(Others)
    <3>1. Only(1, << <<"filter", 1>> >>) \in Seq(Others) /\ Only(2, << <<"filter", 2>> >>) \in Seq(Others)
      BY DEF Only, Kinds
    <3> QED
      BY <3>1 DEF Filters
  <2>3. first \in Seq(Others) /\ Len(first) = 2 /\ first[1] = <<"depth", j>> /\ first[2] = <<"width", j>>
    OBVIOUS
  <2> HIDE DEF first
  <2>4. /\ h \in Seq(Others) /\ Len(h) \in Nat /\ Len(h) >= 2
        /\ h[1] = <<"depth", j>> /\ h[2] = <<"width", j>>
    <3>1. /\ first \o Filters \in Seq(Others) /\ Len(Filters) \in Nat
          /\ Len(first \o Filters) = Len(first) + Len(Filters)
          /\ \A i \in 1..Len(first) : (first \o Filters)[i] = first[i]
      BY <2>2, <2>3, ConcatAt, ZenonT(60)
    <3>2. 1 \in 1..Len(first) /\ 2 \in 1..Len(first)
      BY <2>3
    <3>3. h = first \o Filters
      OBVIOUS
    <3> HIDE DEF h
    <3> QED
      BY <2>3, <3>1, <3>2, <3>3
  <2> HIDE DEF h
  <2>5. last \in Seq(Passes \X Kinds) /\ Len(last) = 1 /\ last[1] = <<"pad", j>>
    BY DEF Passes
  <2>6. h \in Seq(Passes \X Kinds)
    BY <2>4 DEF Passes
  <2> DEFINE all == h \o last
  <2> HIDE DEF last
  <2>7. /\ all \in Seq(Passes \X Kinds) /\ Len(all) = Len(h) + 1 /\ all[Len(h) + 1] = <<"pad", j>>
        /\ \A l \in 1..Len(h) : all[l] = h[l]
    <3> DEFINE Loops == Passes \X Kinds
    <3>0. h \in Seq(Loops) /\ last \in Seq(Loops)
      BY <2>5, <2>6
    <3> HIDE DEF Loops, all
    <3>1. /\ h \o last \in Seq(Loops) /\ Len(h \o last) = Len(h) + Len(last)
          /\ \A i \in 1..Len(h) : (h \o last)[i] = h[i]
          /\ \A i \in 1..Len(last) : (h \o last)[Len(h) + i] = last[i]
      BY <3>0, ConcatAt
    <3>2. 1 \in 1..Len(last)
      BY <2>5
    <3>3. all = h \o last
      BY DEF all
    <3> QED
      BY <2>5, <3>1, <3>2, <3>3 DEF Loops
  <2> HIDE DEF all
  <2>8. \A l \in 1..Len(h) : h[l] # <<"pad", k>>
    <3>1. \A l \in 1..Len(h) : h[l] \in Others
      BY <2>4
    <3> QED
      BY <3>1
  <2>9. PadsLast(all, k)
    <3> SUFFICES ASSUME NEW l \in 1..Len(all), all[l] = <<"pad", k>>
                 PROVE  \E m1, m2 \in 1 .. l - 1 : all[m1] = <<"depth", k>> /\ all[m2] = <<"width", k>>
      BY DEF PadsLast
    <3>1. l = Len(h) + 1
      <4>1. Len(h) \in Nat /\ Len(all) = Len(h) + 1
        BY <2>4, <2>7
      <4>2. l \in 1..Len(h) \/ l = Len(h) + 1
        BY <4>1
      <4>3. ASSUME l \in 1..Len(h) PROVE FALSE
        <5>1. all[l] = h[l] /\ h[l] # <<"pad", k>>
          BY <2>7, <2>8, <4>3
        <5> QED
          BY <5>1
      <4> QED
        BY <4>2, <4>3
    <3>2. k = j
      BY <2>7, <3>1
    <3>3. 1 \in 1 .. l - 1 /\ 2 \in 1 .. l - 1 /\ 1 \in 1..Len(h) /\ 2 \in 1..Len(h)
      BY <2>4, <3>1
    <3>4. all[1] = <<"depth", k>> /\ all[2] = <<"width", k>>
      BY <2>4, <2>7, <3>2, <3>3
    <3> QED
      BY <3>3, <3>4
  <2>10. Occurring(all, <<"pad", j>>)
    <3>1. Len(h) + 1 \in 1..Len(all)
      BY <2>4, <2>7
    <3> QED
      BY <2>7, <3>1 DEF Occurring
  <2> QED
    BY <2>1, <2>7, <2>9, <2>10 DEF all
<1> QED
  BY <1>1, <1>2

(* Memories are padded after they were split, and every kind is.           *)
LEMMA ProgramOrder ==
  ASSUME NEW k \in Kinds
  PROVE  /\ \A l \in 1..Len(Program) : Program[l] = <<"pad", k>> =>
              {"depth", "width"} \subseteq Reached(k, l - 1)
         /\ Has(k) => "pad" \in Reached(k, Len(Program))
<1> DEFINE one == Filters \o SplitAndPad(1)
           Loops == Passes \X Kinds
<1>1. Filters \in Seq(Loops) /\ PadsLast(Filters, k)
  <2> DEFINE Others == {"filter"} \X Kinds
  <2>1. Filters \in Seq(Others)
    <3>1. Only(1, << <<"filter", 1>> >>) \in Seq(Others) /\ Only(2, << <<"filter", 2>> >>) \in Seq(Others)
      BY DEF Only, Kinds
    <3> QED
      BY <3>1 DEF Filters
  <2>2. \A l \in 1..Len(Filters) : Filters[l] \in Others
    BY <2>1
  <2>3. \A l \in 1..Len(Filters) : Filters[l] # <<"pad", k>>
    BY <2>2
  <2>4. Filters \in Seq(Loops)
    BY <2>1 DEF Passes
  <2> QED
    BY <2>3, <2>4 DEF PadsLast
<1>2. /\ PadsLast(SplitAndPad(1), k) /\ SplitAndPad(1) \in Seq(Loops)
      /\ PadsLast(SplitAndPad(2), k) /\ SplitAndPad(2) \in Seq(Loops)
      /\ Has(1) => Occurring(SplitAndPad(1), <<"pad", 1>>)
      /\ Has(2) => Occurring(SplitAndPad(2), <<"pad", 2>>)
  BY SplitAndPadOrder DEF Kinds
<1>3. one \in Seq(Loops) /\ PadsLast(one, k) /\ \A x : Occurring(SplitAndPad(1), x) => Occurring(one, x)
  BY <1>1, <1>2, ConcatPads
<1>4. Program = one \o SplitAndPad(2)
  BY DEF Program
<1> HIDE DEF one
<1>5. /\ PadsLast(Program, k) /\ \A x : Occurring(SplitAndPad(1), x) \/ Occurring(SplitAndPad(2), x)
                                      => Occurring(Program, x)
  BY <1>2, <1>3, <1>4, ConcatPads
<1>6. Has(k) => Occurring(Program, <<"pad", k>>)
  BY <1>2, <1>5 DEF Kinds
<1>7. Len(Program) \in Nat
  BY ProgramLoops
<1>8. ASSUME NEW m \in 1..Len(Program), NEW l \in Int, m <= l, NEW pass, Program[m] = <<pass, k>>
      PROVE  pass \in Reached(k, l)
  <2>1. Program[m][1] = pass /\ Program[m][2] = k
    BY <1>8
  <2> QED
    BY <1>8, <2>1 DEF Reached
<1>9. ASSUME NEW l \in 1..Len(Program), Program[l] = <<"pad", k>>
      PROVE  {"depth", "width"} \subseteq Reached(k, l - 1)
  <2>1. PICK m1 \in 1 .. l - 1, m2 \in 1 .. l - 1 : Program[m1] = <<"depth", k>> /\ Program[m2] = <<"width", k>>
    BY <1>5, <1>9 DEF PadsLast
  <2>2. m1 \in 1..Len(Program) /\ m2 \in 1..Len(Program) /\ m1 <= l - 1 /\ m2 <= l - 1 /\ l - 1 \in Int
    BY <1>7
  <2> QED
    BY <1>8, <2>1, <2>2
<1>10. Has(k) => "pad" \in Reached(k, Len(Program))
  BY <1>6, <1>7, <1>8 DEF Occurring
<1> QED
  BY <1>9, <1>10

-----------------------------------------------------------------------------
(* Every step keeps the invariant                                          *)

LEMMA KindOfRam ==
  ASSUME NEW rs \in Seq(Shape), NEW n, NEW m, Good(rs, n), Good(rs, m), m.ram = n.ram
  PROVE  Kind(m) = Kind(n)
BY GoodFacts

(* A loop has looked at a memory: it puts front into its list, and looks   *)
(* at the memories of more next.                                           *)
LEMMA LookedPassInv ==
  ASSUME PassInv, TypeInv', stage = "iterate", work # <<>>, UNCHANGED <<arch, rams, loop, stage>>,
         Len(nodes) <= Len(nodes'), \A i \in 1..Len(nodes) : i # Current => nodes'[i] = nodes[i],
         NEW New, New = {Current} \cup (Len(nodes) + 1 .. Len(nodes')),
         NEW front \in Seq(1..Len(nodes')), NEW more \in Seq(1..Len(nodes')),
         Distinct(front), Distinct(more), Members(front) \cap Members(more) = {},
         Members(front) \cup Members(more) \subseteq New,
         memory_list' = [memory_list EXCEPT ![ListKind] = front \o @], work' = more \o Tail(work),
         \A i \in New :
           /\ nodes'[i].made # "hard" /\ Kind(nodes'[i]) = ListKind
           /\ nodes'[i].made # "cut" /\ Big(arch, nodes'[i]) => i \in Members(front) \cup Members(more),
         \A i \in Members(front) :
           /\ nodes'[i].made # "cut"
           /\ Sized(nodes'[i], SplitDepth(ListKind), SplitWidth(ListKind), Reached(ListKind, loop)),
         \A i \in Members(more) :
           /\ nodes'[i].made # "cut"
           /\ Sized(nodes'[i], SplitDepth(ListKind), SplitWidth(ListKind), Reached(ListKind, loop - 1))
  PROVE  PassInv'
<1> DEFINE L == ListKind
<1>1. /\ ListKind' = ListKind /\ stage' = "iterate" /\ stage = "iterate" /\ arch' = arch /\ loop' = loop
      /\ \A k : SplitDepth(k)' = SplitDepth(k) /\ SplitWidth(k)' = SplitWidth(k) /\ Has(k)' = Has(k)
      /\ \A k, l : Reached(k, l)' = Reached(k, l)
  <2>1. Program' = Program
    BY DEF Program, Filters, SplitAndPad, Only, Has
  <2>2. ListKind' = ListKind
    BY <2>1 DEF ListKind
  <2>3. \A k : SplitDepth(k)' = SplitDepth(k) /\ SplitWidth(k)' = SplitWidth(k) /\ Has(k)' = Has(k)
    BY DEF SplitDepth, SplitWidth, Has
  <2>4. \A k, l : Reached(k, l)' = Reached(k, l)
    BY <2>1 DEF Reached
  <2> QED
    BY <2>2, <2>3, <2>4
<1>2. /\ Len(nodes) \in Nat /\ Len(nodes') \in Nat /\ L \in Kinds
      /\ memory_list \in [Kinds -> Seq(1..Len(nodes))] /\ work \in Seq(1..Len(nodes))
      /\ Seq(1..Len(nodes)) \subseteq Seq(1..Len(nodes'))
  <2>1. /\ Len(nodes) \in Nat /\ Len(nodes') \in Nat /\ L \in Kinds
        /\ memory_list \in [Kinds -> Seq(1..Len(nodes))] /\ work \in Seq(1..Len(nodes))
    BY LookingFacts DEF PassInv, TypeInv
  <2> QED
    BY <2>1, LargerIndexes
<1> DEFINE rest == Tail(work)
<1>3. /\ Members(work) = {Current} \cup Members(rest) /\ Current \notin Members(rest)
      /\ Distinct(rest) /\ rest \in Seq(1..Len(nodes))
  BY <1>2, TailMembers DEF PassInv, ListsInv, Current
<1>4. /\ \A k \in Kinds : Distinct(memory_list[k]) /\ Members(memory_list[k]) \subseteq Live(nodes, k)
      /\ Members(work) \subseteq Live(nodes, L) /\ Members(work) \cap Members(memory_list[L]) = {}
  BY DEF PassInv, ListsInv
<1> HIDE DEF L, rest
<1>5. /\ \A k \in Kinds : Current \notin Members(memory_list[k])
      /\ Current \in 1..Len(nodes)
  <2>1. Current \in Live(nodes, L) /\ Current \notin Members(memory_list[L])
    BY <1>3, <1>4
  <2> QED
    BY <1>4, <2>1 DEF Live
<1>6. \A i \in 1..Len(nodes) : i \notin New \/ i = Current
  BY <1>2
<1>7. 1..Len(nodes) \subseteq 1..Len(nodes') /\ New \subseteq 1..Len(nodes')
      /\ \A i \in 1..Len(nodes') : i \in New \/ (i \in 1..Len(nodes) /\ i # Current)
  BY <1>2, <1>5
<1>8. /\ \A k \in Kinds : \A i \in Members(memory_list[k]) :
            i \in Live(nodes', k) /\ i \notin New /\ nodes'[i] = nodes[i]
      /\ \A i \in Members(rest) : i \in Live(nodes', L) /\ i \notin New /\ nodes'[i] = nodes[i]
  <2>1. ASSUME NEW k \in Kinds, NEW i \in Live(nodes, k), i # Current
        PROVE  i \in Live(nodes', k) /\ i \notin New /\ nodes'[i] = nodes[i]
    BY <1>6, <1>7, <2>1 DEF Live
  <2>2. ASSUME NEW k \in Kinds, NEW i \in Members(memory_list[k]) PROVE i \in Live(nodes, k) /\ i # Current
    BY <1>4, <1>5
  <2>3. ASSUME NEW i \in Members(rest) PROVE i \in Live(nodes, L) /\ i # Current
    BY <1>3, <1>4
  <2> QED
    BY <1>2, <2>1, <2>2, <2>3
<1>9. /\ Members(front) \subseteq Live(nodes', L) /\ Members(more) \subseteq Live(nodes', L)
  BY <1>7 DEF Live, L
<1>10. /\ memory_list'[L] = front \o memory_list[L] /\ work' = more \o rest
       /\ \A k \in Kinds : k # L => memory_list'[k] = memory_list[k]
  BY <1>2 DEF L, rest
<1>11. /\ Members(memory_list'[L]) = Members(front) \cup Members(memory_list[L]) /\ Distinct(memory_list'[L])
  <2>1. memory_list[L] \in Seq(1..Len(nodes')) /\ Members(front) \cap Members(memory_list[L]) = {}
    BY <1>2, <1>8
  <2> QED
    <3> DEFINE S == 1..Len(nodes')
               old == memory_list[L]
    <3>1. front \in Seq(S) /\ old \in Seq(S) /\ Distinct(front) /\ Distinct(old)
          /\ Members(front) \cap Members(old) = {} /\ memory_list'[L] = front \o old
      BY <1>2, <1>4, <1>10, <2>1
    <3> HIDE DEF S, old
    <3>2. Members(front \o old) = Members(front) \cup Members(old) /\ Distinct(front \o old)
      BY <3>1, ConcatMembers
    <3> QED
      BY <3>1, <3>2 DEF old
<1>12. Members(work') = Members(more) \cup Members(rest) /\ Distinct(work')
  <2>1. rest \in Seq(1..Len(nodes')) /\ Members(more) \cap Members(rest) = {}
    BY <1>2, <1>3, <1>8
  <2> QED
    <3> DEFINE S == 1..Len(nodes')
    <3>1. more \in Seq(S) /\ rest \in Seq(S) /\ Distinct(more) /\ Distinct(rest)
          /\ Members(more) \cap Members(rest) = {} /\ work' = more \o rest
      BY <1>3, <1>10, <2>1
    <3> HIDE DEF S
    <3>2. Members(more \o rest) = Members(more) \cup Members(rest) /\ Distinct(more \o rest)
      BY <3>1, ConcatMembers
    <3> QED
      BY <3>1, <3>2
<1>13. ListsInv'
  <2>1. ASSUME NEW k \in Kinds
        PROVE  Distinct(memory_list'[k]) /\ Members(memory_list'[k]) \subseteq Live(nodes', k)
    <3>1. CASE k = L
      BY <1>2, <1>8, <1>9, <1>11, <3>1
    <3>2. CASE k # L
      BY <1>4, <1>8, <1>10, <3>2
    <3> QED
      BY <3>1, <3>2
  <2>2. Members(work') \subseteq Live(nodes', L)
    BY <1>8, <1>9, <1>12
  <2>3. Members(work') \cap Members(memory_list'[L]) = {}
    <3>1. Members(rest) \cap Members(memory_list[L]) = {}
      BY <1>3, <1>4
    <3>2. \A i \in Members(more) \cup Members(front) : i \in New
      OBVIOUS
    <3> QED
      BY <1>2, <1>8, <1>11, <1>12, <3>1, <3>2
  <2> QED
    BY <1>1, <1>12, <2>1, <2>2, <2>3 DEF ListsInv, L
<1>14. IterateInv
  BY DEF PassInv, FitInv
<1>15. IterateInv'
  <2> SUFFICES ASSUME NEW k \in Kinds, Has(k)
               PROVE  /\ \A i \in Members(memory_list'[k]) :
                           Sized(nodes'[i], SplitDepth(k), SplitWidth(k), Reached(k, loop))
                      /\ k = L => \A i \in Members(work') :
                           Sized(nodes'[i], SplitDepth(k), SplitWidth(k), Reached(k, loop - 1))
                      /\ \A i \in Live(nodes', k) : Big(arch, nodes'[i]) =>
                           i \in Members(memory_list'[k]) \/ (k = L /\ i \in Members(work'))
    BY <1>1 DEF IterateInv, L
  <2>1. /\ \A i \in Members(memory_list[k]) : Sized(nodes[i], SplitDepth(k), SplitWidth(k), Reached(k, loop))
        /\ k = L => \A i \in Members(work) : Sized(nodes[i], SplitDepth(k), SplitWidth(k), Reached(k, loop - 1))
        /\ \A i \in Live(nodes, k) : Big(arch, nodes[i]) =>
              i \in Members(memory_list[k]) \/ (k = L /\ i \in Members(work))
    BY <1>14 DEF IterateInv, L
  <2>2. ASSUME NEW i \in Members(memory_list'[k])
        PROVE  Sized(nodes'[i], SplitDepth(k), SplitWidth(k), Reached(k, loop))
    <3>1. CASE i \in Members(memory_list[k])
      BY <1>8, <2>1, <3>1
    <3>2. CASE k = L /\ i \in Members(front)
      BY <3>2 DEF L
    <3> QED
      BY <1>10, <1>11, <2>2, <3>1, <3>2
  <2>3. ASSUME k = L, NEW i \in Members(work')
        PROVE  Sized(nodes'[i], SplitDepth(k), SplitWidth(k), Reached(k, loop - 1))
    <3>1. CASE i \in Members(rest)
      BY <1>3, <1>8, <2>1, <2>3, <3>1
    <3>2. CASE i \in Members(more)
      BY <2>3, <3>2 DEF L
    <3> QED
      BY <1>12, <2>3, <3>1, <3>2
  <2>4. ASSUME NEW i \in Live(nodes', k), Big(arch, nodes'[i])
        PROVE  i \in Members(memory_list'[k]) \/ (k = L /\ i \in Members(work'))
    <3>1. CASE i \in New
      <4>1. k = L /\ i \in Members(front) \cup Members(more)
        BY <2>4, <3>1 DEF Live, L
      <4> QED
        BY <1>11, <1>12, <4>1
    <3>2. CASE i \in 1..Len(nodes) /\ i # Current
      <4>1. nodes'[i] = nodes[i] /\ i \in Live(nodes, k)
        BY <2>4, <3>2 DEF Live
      <4>2. i \in Members(memory_list[k]) \/ (k = L /\ i \in Members(work))
        BY <2>1, <2>4, <4>1
      <4> QED
        BY <1>3, <1>10, <1>11, <1>12, <3>2, <4>2
    <3>3. i \in 1..Len(nodes')
      BY DEF Live
    <3> QED
      BY <1>7, <3>1, <3>2, <3>3
  <2> QED
    BY <2>2, <2>3, <2>4
<1>16. \A i \in 1..Len(nodes') : nodes'[i].made # "hard"
  <2>1. \A i \in 1..Len(nodes) : nodes[i].made # "hard"
    BY DEF PassInv, FitInv
  <2> QED
    BY <1>7, <2>1
<1>17. FitInv'
  BY <1>1, <1>15, <1>16 DEF FitInv
<1> QED
  BY <1>13, <1>17 DEF PassInv

LEMMA ReachedNext ==
  ASSUME NEW k, NEW l \in 1..Len(Program)
  PROVE  Reached(k, l) = IF Program[l][2] = k THEN Reached(k, l - 1) \cup {Program[l][1]} ELSE Reached(k, l - 1)
<1>1. Len(Program) \in Nat
  BY ProgramLoops
<1>2. \A m \in 1..Len(Program) : m <= l <=> (m <= l - 1 \/ m = l)
  BY <1>1
<1> QED
  BY <1>2 DEF Reached

(* The memory a loop looks at.                                             *)
LEMMA LookingInv ==
  ASSUME PassInv, stage = "iterate", work # <<>>
  PROVE  /\ Current \in 1..Len(nodes) /\ Node = nodes[Current] /\ Node.made # "cut" /\ Node.made # "hard"
         /\ Kind(Node) = ListKind /\ ListKind \in Kinds /\ Has(ListKind) /\ Good(rams, Node)
         /\ SplitDepth(ListKind) \in Nat \ {0} /\ SplitWidth(ListKind) \in Nat \ {0}
         /\ Sized(Node, SplitDepth(ListKind), SplitWidth(ListKind), Reached(ListKind, loop - 1))
         /\ Reached(ListKind, loop) = Reached(ListKind, loop - 1) \cup {Pass}
         /\ Tail(work) \in Seq(1..Len(nodes)) /\ Len(nodes) \in Nat /\ rams \in Seq(Shape) /\ arch \in Archs
         /\ nodes \in Seq(AnyNode) /\ \A i \in 1..Len(nodes) : Good(rams, nodes[i])
         /\ loop \in 1..Len(Program) /\ Program[loop] = <<Pass, ListKind>>
<1>1. TypeInv
  BY DEF PassInv
<1>2. /\ Current \in 1..Len(nodes) /\ Node = nodes[Current] /\ ListKind \in Kinds /\ Has(ListKind)
      /\ Good(rams, Node) /\ Tail(work) \in Seq(1..Len(nodes)) /\ arch \in Archs
  BY <1>1, LookingFacts DEF Node
<1>3. /\ Len(nodes) \in Nat /\ rams \in Seq(Shape) /\ nodes \in Seq(AnyNode) /\ loop \in 1..Len(Program)
      /\ \A i \in 1..Len(nodes) : Good(rams, nodes[i]) /\ work \in Seq(1..Len(nodes))
  BY <1>1 DEF TypeInv
<1>4. Current \in Members(work)
  <2>1. 1 \in 1..Len(work)
    BY <1>3
  <2> QED
    BY <2>1 DEF Members, Current
<1>5. Current \in Live(nodes, ListKind)
  BY <1>4 DEF PassInv, ListsInv
<1>6. Node.made # "cut" /\ Kind(Node) = ListKind /\ Node.made # "hard"
  BY <1>2, <1>5 DEF Live, PassInv, FitInv
<1>7. Sized(Node, SplitDepth(ListKind), SplitWidth(ListKind), Reached(ListKind, loop - 1))
  BY <1>2, <1>4 DEF PassInv, FitInv, IterateInv
<1>8. SplitDepth(ListKind) \in Nat \ {0} /\ SplitWidth(ListKind) \in Nat \ {0}
  BY <1>2, ArchFacts DEF Positive
<1>9. Reached(ListKind, loop) = Reached(ListKind, loop - 1) \cup {Pass}
  BY <1>3, ReachedNext DEF ListKind, Pass
<1>10. Program[loop] = <<Pass, ListKind>>
  <2>1. Program[loop] \in Passes \X Kinds
    BY <1>3, ProgramLoops
  <2> QED
    BY <2>1 DEF Pass, ListKind
<1> QED
  BY <1>2, <1>3, <1>6, <1>7, <1>8, <1>9, <1>10

(* A memory stays as it is, in its list or out of it.                      *)
LEMMA StayPassInv ==
  ASSUME PassInv, TypeInv', stage = "iterate", work # <<>>, UNCHANGED <<arch, rams, loop, stage, nodes>>,
         work' = Tail(work), NEW front, Listing(front), front = <<>> \/ front = <<Current>>,
         front = <<>> => ~Big(arch, Node),
         front = <<Current>> =>
           Sized(Node, SplitDepth(ListKind), SplitWidth(ListKind), Reached(ListKind, loop))
  PROVE  PassInv'
<1> DEFINE New == {Current} \cup (Len(nodes) + 1 .. Len(nodes'))
           more == <<>>
<1>1. /\ Current \in 1..Len(nodes) /\ Node = nodes[Current] /\ Node.made # "cut" /\ Node.made # "hard"
      /\ Kind(Node) = ListKind /\ Len(nodes) \in Nat /\ Tail(work) \in Seq(1..Len(nodes))
  BY LookingInv
<1>2. New = {Current}
  BY <1>1
<1>3. /\ front \in Seq(1..Len(nodes')) /\ more \in Seq(1..Len(nodes')) /\ Distinct(front) /\ Distinct(more)
      /\ Members(more) = {} /\ Members(front) = IF front = <<>> THEN {} ELSE {Current}
  <2>1. CASE front = <<>>
    BY <2>1, EmptyMembers
  <2>2. CASE front = <<Current>>
    <3>1. front # <<>> /\ front \in Seq(1..Len(nodes'))
      BY <1>1, <2>2
    <3> QED
      BY <2>2, <3>1, EmptyMembers, OneMember
  <2> QED
    BY <2>1, <2>2
<1>4. work' = more \o Tail(work)
  BY <1>1
<1> HIDE DEF more
<1>5. memory_list' = [memory_list EXCEPT ![ListKind] = front \o @]
  BY DEF Listing
<1>6. \A i \in New :
        /\ nodes'[i].made # "hard" /\ Kind(nodes'[i]) = ListKind
        /\ nodes'[i].made # "cut" /\ Big(arch, nodes'[i]) => i \in Members(front) \cup Members(more)
  BY <1>1, <1>2, <1>3
<1>7. \A i \in Members(front) :
        /\ nodes'[i].made # "cut"
        /\ Sized(nodes'[i], SplitDepth(ListKind), SplitWidth(ListKind), Reached(ListKind, loop))
  BY <1>1, <1>3
<1>8. Members(front) \cup Members(more) \subseteq New /\ Members(front) \cap Members(more) = {}
  BY <1>2, <1>3
<1> HIDE DEF New
<1>9. New = {Current} \cup (Len(nodes) + 1 .. Len(nodes'))
  BY DEF New
<1>10. Len(nodes) <= Len(nodes') /\ \A i \in 1..Len(nodes) : i # Current => nodes'[i] = nodes[i]
  BY <1>1
<1> QED
  BY <1>3, <1>4, <1>5, <1>6, <1>7, <1>8, <1>9, <1>10, LookedPassInv

LEMMA KeepPassInv ==
  ASSUME PassInv, TypeInv', stage = "iterate", work # <<>>, UNCHANGED <<arch, rams, loop, stage>>, Keep,
         Sized(Node, SplitDepth(ListKind), SplitWidth(ListKind), {Pass})
  PROVE  PassInv'
<1> DEFINE front == <<Current>>
<1>1. nodes' = nodes /\ work' = Tail(work) /\ Listing(front)
  BY DEF Keep
<1>2. Sized(Node, SplitDepth(ListKind), SplitWidth(ListKind), Reached(ListKind, loop))
  <2>1. /\ Sized(Node, SplitDepth(ListKind), SplitWidth(ListKind), Reached(ListKind, loop - 1))
        /\ Reached(ListKind, loop) = Reached(ListKind, loop - 1) \cup {Pass}
    BY LookingInv
  <2> QED
    BY <2>1 DEF Sized
<1>3. front # <<>>
  OBVIOUS
<1>4. front = <<Current>>
  OBVIOUS
<1> HIDE DEF front
<1> QED
  BY <1>1, <1>2, <1>3, <1>4, StayPassInv

LEMMA FilterPassInv ==
  ASSUME PassInv, TypeInv', FilterMemory
  PROVE  PassInv'
<1> DEFINE front == IF LargeEnough(Node) THEN <<Current>> ELSE <<>>
<1>1. /\ stage = "iterate" /\ work # <<>> /\ Pass = "filter" /\ UNCHANGED <<arch, rams, loop, stage, nodes>>
      /\ work' = Tail(work) /\ Listing(front)
  BY DEF FilterMemory, Looking
<1>2. Sized(Node, SplitDepth(ListKind), SplitWidth(ListKind), Reached(ListKind, loop))
  <2>1. /\ Sized(Node, SplitDepth(ListKind), SplitWidth(ListKind), Reached(ListKind, loop - 1))
        /\ Reached(ListKind, loop) = Reached(ListKind, loop - 1) \cup {"filter"}
    BY <1>1, LookingInv
  <2> QED
    BY <2>1 DEF Sized
<1>3. LargeEnough(Node) <=> Big(arch, Node)
  BY DEF LargeEnough, Big
<1>4. front = <<>> \/ front = <<Current>>
  OBVIOUS
<1>5. front = <<>> => ~Big(arch, Node)
  <2>1. <<Current>> # <<>>
    OBVIOUS
  <2> QED
    BY <1>3, <2>1
<1> HIDE DEF front
<1> QED
  BY <1>1, <1>2, <1>4, <1>5, StayPassInv

LEMMA PaddedSize ==
  ASSUME NEW rs \in Seq(Shape), NEW n, Good(rs, n), arch \in Archs, NEW k \in Kinds, Has(k),
         AddrWidth(n) <= SplitDepth(k), DataWidth(n) <= SplitWidth(k)
  PROVE  AddrWidth(Padded(n, k)) = SplitDepth(k) /\ DataWidth(Padded(n, k)) = SplitWidth(k)
<1> DEFINE c == Padded(n, k)
           depth == SplitDepth(k)
           width == SplitWidth(k)
<1>1. /\ n \in NodeOf(PortsOf(rs, n.ram)) /\ DOMAIN n.addr = PortsOf(rs, n.ram) /\ 1 \in DOMAIN n.addr
      /\ n.data[1] \in Seq(Pin) /\ n.addr[1] \in Seq(Pin)
  BY GoodFacts, NodeFields
<1>2. /\ c.addr = [p \in DOMAIN n.addr |-> PadTo(n.addr[p], depth)]
      /\ c.data = [p \in DOMAIN n.addr |-> PadTo(n.data[p], width)]
  BY <1>1 DEF Padded, NodeOf
<1>3. width \in Nat /\ depth \in Nat /\ Len(n.addr[1]) <= depth /\ Len(n.data[1]) <= width
  BY ArchFacts DEF Positive, AddrWidth, DataWidth
<1> HIDE DEF width, depth, c
<1>4. c.addr[1] = PadTo(n.addr[1], depth) /\ c.data[1] = PadTo(n.data[1], width)
  BY <1>1, <1>2
<1>5. /\ Len(c.addr[1]) = IF depth > Len(n.addr[1]) THEN depth ELSE Len(n.addr[1])
      /\ Len(c.data[1]) = IF width > Len(n.data[1]) THEN width ELSE Len(n.data[1])
  BY <1>1, <1>3, <1>4, PadToFacts
<1>6. Len(n.addr[1]) \in Nat /\ Len(n.data[1]) \in Nat
  BY <1>1
<1>7. Len(c.addr[1]) = depth /\ Len(c.data[1]) = width
  BY <1>3, <1>5, <1>6
<1> QED
  BY <1>7 DEF AddrWidth, DataWidth, c, depth, width

LEMMA PadPassInv ==
  ASSUME PassInv, TypeInv', PadMemory
  PROVE  PassInv'
<1> DEFINE New == {Current} \cup (Len(nodes) + 1 .. Len(nodes'))
           more == <<>>
           front == <<Current>>
           m == Padded(Node, ListKind)
<1>1. /\ stage = "iterate" /\ work # <<>> /\ Pass = "pad" /\ UNCHANGED <<arch, rams, loop, stage>>
      /\ work' = Tail(work) /\ Listing(front) /\ nodes' = [nodes EXCEPT ![Current] = m]
  BY DEF PadMemory, Looking
<1>2. /\ Current \in 1..Len(nodes) /\ Node = nodes[Current] /\ Node.made # "cut" /\ Node.made # "hard"
      /\ Kind(Node) = ListKind /\ Len(nodes) \in Nat /\ Tail(work) \in Seq(1..Len(nodes))
      /\ Good(rams, Node) /\ rams \in Seq(Shape) /\ arch \in Archs /\ ListKind \in Kinds /\ Has(ListKind)
      /\ nodes \in Seq(AnyNode)
  BY <1>1, LookingInv
<1>3. AddrWidth(m) = SplitDepth(ListKind) /\ DataWidth(m) = SplitWidth(ListKind)
  <2>1. {"depth", "width"} \subseteq Reached(ListKind, loop - 1)
    <3>1. loop \in 1..Len(Program) /\ Program[loop] = <<"pad", ListKind>> /\ ListKind \in Kinds
      BY <1>1, LookingInv
    <3> QED
      BY <3>1, ProgramOrder
  <2>2. Sized(Node, SplitDepth(ListKind), SplitWidth(ListKind), Reached(ListKind, loop - 1))
    BY <1>1, LookingInv
  <2>3. AddrWidth(Node) <= SplitDepth(ListKind) /\ DataWidth(Node) <= SplitWidth(ListKind)
    BY <2>1, <2>2 DEF Sized
  <2> QED
    BY <1>2, <2>3, PaddedSize
<1>4. Good(rams, m) /\ m.made = Node.made /\ m.ram = Node.ram
  BY <1>2, PaddedGood
<1>5. Kind(m) = ListKind
  BY <1>2, <1>4, KindOfRam
<1> HIDE DEF m
<1>6. /\ Len(nodes') = Len(nodes) /\ nodes'[Current] = m
      /\ \A i \in 1..Len(nodes) : i # Current => nodes'[i] = nodes[i]
  BY <1>1, <1>2
<1>7. New = {Current}
  BY <1>2, <1>6
<1>8. Sized(m, SplitDepth(ListKind), SplitWidth(ListKind), Reached(ListKind, loop))
  <2>1. SplitDepth(ListKind) \in Nat /\ SplitWidth(ListKind) \in Nat
    BY <1>1, LookingInv
  <2> QED
    BY <1>3, <2>1 DEF Sized
<1>9. /\ front \in Seq(1..Len(nodes')) /\ more \in Seq(1..Len(nodes')) /\ Distinct(front) /\ Distinct(more)
      /\ Members(more) = {} /\ Members(front) = {Current}
  BY <1>2, <1>6, EmptyMembers, OneMember
<1>10. work' = more \o Tail(work) /\ memory_list' = [memory_list EXCEPT ![ListKind] = front \o @]
  BY <1>1, <1>2 DEF Listing
<1> HIDE DEF more, front
<1>11. \A i \in New :
         /\ nodes'[i].made # "hard" /\ Kind(nodes'[i]) = ListKind
         /\ nodes'[i].made # "cut" /\ Big(arch, nodes'[i]) => i \in Members(front) \cup Members(more)
  BY <1>2, <1>4, <1>5, <1>6, <1>7, <1>9
<1>12. \A i \in Members(front) :
         /\ nodes'[i].made # "cut"
         /\ Sized(nodes'[i], SplitDepth(ListKind), SplitWidth(ListKind), Reached(ListKind, loop))
  BY <1>2, <1>4, <1>6, <1>8, <1>9
<1>13. Members(front) \cup Members(more) \subseteq New /\ Members(front) \cap Members(more) = {}
  BY <1>7, <1>9
<1> HIDE DEF New
<1>14. New = {Current} \cup (Len(nodes) + 1 .. Len(nodes')) /\ Len(nodes) <= Len(nodes')
  BY <1>2, <1>6 DEF New
<1> QED
  BY <1>1, <1>6, <1>9, <1>10, <1>11, <1>12, <1>13, <1>14, LookedPassInv

LEMMA SplitDepthPassInv ==
  ASSUME PassInv, TypeInv', SplitMemoryDepth
  PROVE  PassInv'
<1>1. stage = "iterate" /\ work # <<>> /\ Pass = "depth" /\ UNCHANGED <<arch, rams, loop, stage>>
  BY DEF SplitMemoryDepth, Looking
<1>2. CASE AddrWidth(Node) <= SplitDepth(ListKind)
  <2>1. Sized(Node, SplitDepth(ListKind), SplitWidth(ListKind), {Pass})
    BY <1>1, <1>2 DEF Sized
  <2> QED
    BY <1>1, <1>2, <2>1, KeepPassInv DEF SplitMemoryDepth
<1>3. CASE ~(AddrWidth(Node) <= SplitDepth(ListKind))
  <2> DEFINE New == {Current} \cup (Len(nodes) + 1 .. Len(nodes'))
             by == <<DepthPiece(Node, 1), DepthPiece(Node, 0)>>
             i1 == Len(nodes) + 1
             i0 == Len(nodes) + 2
             more == <<i1, i0>>
             front == <<>>
  <2>1. nodes' = Replaced(by) /\ work' = more \o Tail(work) /\ memory_list' = memory_list
    BY <1>3 DEF SplitMemoryDepth
  <2>2. /\ Current \in 1..Len(nodes) /\ Node = nodes[Current] /\ Node.made # "cut" /\ Node.made # "hard"
        /\ Kind(Node) = ListKind /\ Len(nodes) \in Nat /\ ListKind \in Kinds /\ TypeInv
        /\ Good(rams, Node) /\ rams \in Seq(Shape)
    BY <1>1, LookingInv DEF PassInv
  <2>3. /\ by \in Seq(AnyNode) /\ Len(by) = 2
        /\ \A j \in 1..Len(by) : Good(rams, by[j]) /\ by[j].ram = Node.ram /\ by[j].made = Node.made
    BY <1>1, <1>3, <2>2, DepthPieces
  <2>4. \A j \in 1..2 : DataWidth(by[j]) = DataWidth(Node)
    <3>1. \A is \in Bit : DataWidth(DepthPiece(Node, is)) = DataWidth(Node)
      BY <2>2, DepthPieceFields DEF DataWidth
    <3>2. by[1] = DepthPiece(Node, 1) /\ by[2] = DepthPiece(Node, 0)
      OBVIOUS
    <3> HIDE DEF by
    <3> QED
      BY <3>1, <3>2 DEF Bit
  <2> HIDE DEF by
  <2>5. /\ Len(nodes') = Len(nodes) + 2 /\ nodes'[Current] = [Node EXCEPT !.made = "cut"]
        /\ \A i \in 1..Len(nodes) : i # Current => nodes'[i] = nodes[i]
        /\ \A j \in 1..2 : nodes'[Len(nodes) + j] = by[j]
    BY <1>1, <2>1, <2>2, <2>3, ReplacedFacts
  <2>6. nodes'[Current].made = "cut" /\ Kind(nodes'[Current]) = ListKind
    <3> DEFINE cut == [Node EXCEPT !.made = "cut"]
    <3>1. cut.made = "cut" /\ cut.addr = Node.addr
      BY <2>2, MadeGood
    <3> HIDE DEF cut
    <3>2. Kind(cut) = ListKind
      BY <2>2, <3>1 DEF Kind
    <3>3. nodes'[Current] = cut
      BY <2>5 DEF cut
    <3> QED
      BY <3>1, <3>2, <3>3
  <2>7. ASSUME NEW i \in {i1, i0}
        PROVE  /\ nodes'[i].made # "cut" /\ nodes'[i].made # "hard" /\ Kind(nodes'[i]) = ListKind
               /\ DataWidth(nodes'[i]) = DataWidth(Node)
    <3>1. PICK j \in 1..2 : nodes'[i] = by[j]
      <4>1. nodes'[i1] = by[1] /\ nodes'[i0] = by[2]
        BY <2>5
      <4> QED
        BY <4>1
    <3>2. Good(rams, by[j]) /\ by[j].ram = Node.ram /\ by[j].made = Node.made
      BY <2>3
    <3>3. Kind(by[j]) = ListKind
      BY <2>2, <3>2, KindOfRam
    <3> QED
      BY <2>2, <2>4, <3>1, <3>2, <3>3
  <2>8. /\ front \in Seq(1..Len(nodes')) /\ more \in Seq(1..Len(nodes')) /\ Distinct(front) /\ Distinct(more)
        /\ Members(more) = {i1, i0} /\ Members(front) = {}
    <3>1. i1 \in 1..Len(nodes') /\ i0 \in 1..Len(nodes') /\ i1 # i0
      BY <2>2, <2>5
    <3> HIDE DEF i1, i0
    <3> QED
      BY <3>1, EmptyMembers, TwoMembers
  <2>9. New = {Current, i1, i0}
    BY <2>2, <2>5
  <2>10. memory_list' = [memory_list EXCEPT ![ListKind] = front \o @]
    <3>1. memory_list \in [Kinds -> Seq(1..Len(nodes))] /\ front \o memory_list[ListKind] = memory_list[ListKind]
      BY <2>2 DEF TypeInv
    <3> HIDE DEF front
    <3> QED
      BY <2>1, <3>1
  <2> HIDE DEF i1, i0, more, front
  <2>11. /\ Sized(Node, SplitDepth(ListKind), SplitWidth(ListKind), Reached(ListKind, loop - 1))
         /\ SplitDepth(ListKind) \in Nat /\ AddrWidth(Node) \in Nat
    BY <1>1, <2>2, LookingInv, GoodFacts
  <2>12. \A i \in Members(more) :
           /\ nodes'[i].made # "cut"
           /\ Sized(nodes'[i], SplitDepth(ListKind), SplitWidth(ListKind), Reached(ListKind, loop - 1))
    <3>1. "depth" \notin Reached(ListKind, loop - 1) /\ "pad" \notin Reached(ListKind, loop - 1)
      BY <1>3, <2>11 DEF Sized
    <3> QED
      BY <2>7, <2>8, <2>11, <3>1 DEF Sized
  <2>13. \A i \in New :
           /\ nodes'[i].made # "hard" /\ Kind(nodes'[i]) = ListKind
           /\ nodes'[i].made # "cut" /\ Big(arch, nodes'[i]) => i \in Members(front) \cup Members(more)
    BY <2>6, <2>7, <2>8, <2>9
  <2>14. Members(front) \cup Members(more) \subseteq New /\ Members(front) \cap Members(more) = {}
    BY <2>8, <2>9
  <2>15. \A i \in Members(front) :
           /\ nodes'[i].made # "cut"
           /\ Sized(nodes'[i], SplitDepth(ListKind), SplitWidth(ListKind), Reached(ListKind, loop))
    BY <2>8
  <2> HIDE DEF New
  <2>16. New = {Current} \cup (Len(nodes) + 1 .. Len(nodes')) /\ Len(nodes) <= Len(nodes')
    BY <2>2, <2>5 DEF New
  <2> QED
    BY <1>1, <2>1, <2>5, <2>8, <2>10, <2>12, <2>13, <2>14, <2>15, <2>16, LookedPassInv
<1> QED
  BY <1>2, <1>3

LEMMA WidthPieceSize ==
  ASSUME NEW rs \in Seq(Shape), NEW n, Good(rs, n), NEW target \in Nat \ {0},
         NEW t \in 0 .. NumPieces(DataWidth(n), target) - 1
  PROVE  /\ AddrWidth(WidthPiece(n, t, target)) = AddrWidth(n)
         /\ DataWidth(WidthPiece(n, t, target)) <= target
<1>1. n \in NodeOf(PortsOf(rs, n.ram)) /\ n.data[1] \in Seq(Pin) /\ DataWidth(n) = Len(n.data[1])
  BY GoodFacts, NodeFields DEF DataWidth
<1>2. AddrWidth(WidthPiece(n, t, target)) = AddrWidth(n)
  <2>1. WidthPiece(n, t, target).addr = n.addr
    BY <1>1 DEF WidthPiece, NodeOf
  <2> QED
    BY <2>1 DEF AddrWidth
<1>3. DataWidth(n) \in Nat \ {0}
  BY GoodFacts
<1>4. t \in Nat /\ t * target < Len(n.data[1])
  BY <1>1, <1>3, PiecesStart
<1>5. Len(Share(n.data[1], t, target)) =
        IF t * target + target < Len(n.data[1]) THEN target ELSE Len(n.data[1]) - t * target
  BY <1>1, <1>4, ShareAt, ZenonT(60)
<1>6. DataWidth(WidthPiece(n, t, target)) = Len(Share(n.data[1], t, target))
  BY WidthPieceFields DEF DataWidth
<1>7. Len(Share(n.data[1], t, target)) <= target
  <2> DEFINE at == t * target
             w == Len(n.data[1])
  <2>1. at \in Nat /\ w \in Nat
    BY <1>1, <1>4
  <2>2. Len(Share(n.data[1], t, target)) = IF at + target < w THEN target ELSE w - at
    BY <1>5
  <2> HIDE DEF at, w
  <2> QED
    BY <2>1, <2>2
<1> QED
  BY <1>2, <1>6, <1>7

(* New memories are put in front of the list, the last first.              *)
LEMMA DownMembers ==
  ASSUME NEW from \in Nat, NEW num \in Nat
  PROVE  LET s == [i \in 1..num |-> from + num + 1 - i]
         IN  s \in Seq(1 .. from + num) /\ Distinct(s) /\ Members(s) = from + 1 .. from + num
<1> DEFINE s == [i \in 1..num |-> from + num + 1 - i]
<1>1. Len(s) = num /\ s \in Seq(1 .. from + num) /\ \A i \in 1..num : s[i] = from + num + 1 - i
  OBVIOUS
<1> HIDE DEF s
<1>2. Distinct(s)
  BY <1>1 DEF Distinct
<1>3. Members(s) \subseteq from + 1 .. from + num
  BY <1>1 DEF Members
<1>4. ASSUME NEW x \in from + 1 .. from + num PROVE x \in Members(s)
  <2>1. from + num + 1 - x \in 1..num /\ s[from + num + 1 - x] = x
    BY <1>1
  <2> QED
    BY <1>1, <2>1 DEF Members
<1>5. s \in Seq(1 .. from + num) /\ Distinct(s) /\ Members(s) = from + 1 .. from + num
  BY <1>1, <1>2, <1>3, <1>4
<1> QED
  BY <1>5, Zenon DEF s

LEMMA SplitWidthPassInv ==
  ASSUME PassInv, TypeInv', SplitMemoryWidth
  PROVE  PassInv'
<1> DEFINE target == SplitWidth(ListKind)
           num == NumPieces(DataWidth(Node), target)
           by == [i \in 1..num |-> WidthPiece(Node, i - 1, target)]
           front == [i \in 1..num |-> Len(nodes) + num + 1 - i]
           more == <<>>
           New == {Current} \cup (Len(nodes) + 1 .. Len(nodes'))
<1>1. stage = "iterate" /\ work # <<>> /\ Pass = "width" /\ UNCHANGED <<arch, rams, loop, stage>>
  BY DEF SplitMemoryWidth, Looking
<1>2. CASE DataWidth(Node) <= target
  <2>1. Sized(Node, SplitDepth(ListKind), SplitWidth(ListKind), {Pass})
    BY <1>1, <1>2 DEF Sized
  <2> QED
    BY <1>1, <1>2, <2>1, KeepPassInv DEF SplitMemoryWidth
<1>3. CASE ~(DataWidth(Node) <= target)
  <2>1. nodes' = Replaced(by) /\ work' = Tail(work) /\ Listing(front)
    BY <1>3 DEF SplitMemoryWidth
  <2>2. /\ Current \in 1..Len(nodes) /\ Node = nodes[Current] /\ Node.made # "cut" /\ Node.made # "hard"
        /\ Kind(Node) = ListKind /\ Len(nodes) \in Nat /\ ListKind \in Kinds /\ TypeInv
        /\ Good(rams, Node) /\ rams \in Seq(Shape) /\ Tail(work) \in Seq(1..Len(nodes))
        /\ target \in Nat \ {0}
    BY <1>1, LookingInv DEF PassInv
  <2>3. /\ num \in Nat /\ by \in Seq(AnyNode) /\ Len(by) = num
        /\ \A j \in 1..Len(by) : Good(rams, by[j]) /\ by[j].ram = Node.ram /\ by[j].made = Node.made
    BY <1>1, <2>2, WidthPieces
  <2>4. \A j \in 1..num : by[j] = WidthPiece(Node, j - 1, target)
    OBVIOUS
  <2>5. num = NumPieces(DataWidth(Node), target) /\ target = SplitWidth(ListKind)
        /\ front = [i \in 1..num |-> Len(nodes) + num + 1 - i]
    OBVIOUS
  <2> HIDE DEF by, num, target, front
  <2>6. ASSUME NEW j \in 1..num
        PROVE  AddrWidth(by[j]) = AddrWidth(Node) /\ DataWidth(by[j]) <= target
    <3>1. j - 1 \in 0 .. NumPieces(DataWidth(Node), target) - 1
      BY <2>3, <2>5
    <3> QED
      BY <2>2, <2>4, <3>1, WidthPieceSize
  <2>7. /\ Len(nodes') = Len(nodes) + num /\ nodes'[Current] = [Node EXCEPT !.made = "cut"]
        /\ \A i \in 1..Len(nodes) : i # Current => nodes'[i] = nodes[i]
        /\ \A j \in 1..num : nodes'[Len(nodes) + j] = by[j]
    BY <1>1, <2>1, <2>2, <2>3, ReplacedFacts
  <2>8. nodes'[Current].made = "cut" /\ Kind(nodes'[Current]) = ListKind
    <3> DEFINE cut == [Node EXCEPT !.made = "cut"]
    <3>1. cut.made = "cut" /\ cut.addr = Node.addr
      BY <2>2, MadeGood
    <3> HIDE DEF cut
    <3>2. Kind(cut) = ListKind
      BY <2>2, <3>1 DEF Kind
    <3>3. nodes'[Current] = cut
      BY <2>7 DEF cut
    <3> QED
      BY <3>1, <3>2, <3>3
  <2>9. /\ front \in Seq(1..Len(nodes')) /\ Distinct(front)
        /\ Members(front) = Len(nodes) + 1 .. Len(nodes')
    <3> DEFINE from == Len(nodes)
               down == [i \in 1..num |-> from + num + 1 - i]
    <3>1. from \in Nat /\ num \in Nat
      BY <2>2, <2>3
    <3>2. down \in Seq(1 .. from + num) /\ Distinct(down) /\ Members(down) = from + 1 .. from + num
      <4> HIDE DEF from
      <4> QED
        BY <3>1, DownMembers
    <3>3. front = down
      BY <2>5
    <3> HIDE DEF down
    <3> QED
      BY <2>7, <3>2, <3>3
  <2>10. more \in Seq(1..Len(nodes')) /\ Distinct(more) /\ Members(more) = {} /\ work' = more \o Tail(work)
    BY <2>1, <2>2, EmptyMembers
  <2> HIDE DEF more
  <2>11. ASSUME NEW i \in Len(nodes) + 1 .. Len(nodes')
         PROVE  /\ nodes'[i].made # "cut" /\ nodes'[i].made # "hard" /\ Kind(nodes'[i]) = ListKind
                /\ AddrWidth(nodes'[i]) = AddrWidth(Node) /\ DataWidth(nodes'[i]) <= target
    <3> DEFINE j == i - Len(nodes)
    <3>1. j \in 1..num /\ i = Len(nodes) + j
      BY <2>2, <2>3, <2>7
    <3> HIDE DEF j
    <3>2. nodes'[i] = by[j]
      BY <2>7, <3>1
    <3>3. Good(rams, by[j]) /\ by[j].ram = Node.ram /\ by[j].made = Node.made
      BY <2>3, <3>1
    <3>4. Kind(by[j]) = ListKind
      BY <2>2, <3>3, KindOfRam
    <3> QED
      BY <2>2, <2>6, <3>1, <3>2, <3>3, <3>4
  <2>12. /\ Sized(Node, SplitDepth(ListKind), target, Reached(ListKind, loop - 1))
         /\ DataWidth(Node) \in Nat /\ Reached(ListKind, loop) = Reached(ListKind, loop - 1) \cup {"width"}
    BY <1>1, <2>2, <2>5, LookingInv, GoodFacts
  <2>13. \A i \in Members(front) :
           /\ nodes'[i].made # "cut"
           /\ Sized(nodes'[i], SplitDepth(ListKind), SplitWidth(ListKind), Reached(ListKind, loop))
    <3>1. "pad" \notin Reached(ListKind, loop - 1)
      BY <1>3, <2>2, <2>12 DEF Sized
    <3>2. "pad" \notin Reached(ListKind, loop)
      BY <2>12, <3>1
    <3>3. "depth" \in Reached(ListKind, loop) => AddrWidth(Node) <= SplitDepth(ListKind)
      BY <2>12 DEF Sized
    <3> QED
      BY <2>5, <2>9, <2>11, <3>2, <3>3 DEF Sized
  <2>14. \A i \in New :
           /\ nodes'[i].made # "hard" /\ Kind(nodes'[i]) = ListKind
           /\ nodes'[i].made # "cut" /\ Big(arch, nodes'[i]) => i \in Members(front) \cup Members(more)
    BY <2>8, <2>9, <2>11
  <2>15. Members(front) \cup Members(more) \subseteq New /\ Members(front) \cap Members(more) = {}
    BY <2>9, <2>10
  <2>16. \A i \in Members(more) :
           /\ nodes'[i].made # "cut"
           /\ Sized(nodes'[i], SplitDepth(ListKind), SplitWidth(ListKind), Reached(ListKind, loop - 1))
    BY <2>10
  <2>17. memory_list' = [memory_list EXCEPT ![ListKind] = front \o @]
    BY <2>1 DEF Listing
  <2> HIDE DEF New
  <2>18. New = {Current} \cup (Len(nodes) + 1 .. Len(nodes')) /\ Len(nodes) <= Len(nodes')
    BY <2>2, <2>3, <2>7 DEF New
  <2> QED
    BY <1>1, <2>7, <2>9, <2>10, <2>13, <2>14, <2>15, <2>16, <2>17, <2>18, LookedPassInv
<1> QED
  BY <1>2, <1>3

(* A loop starts, or the memories are left to the partial map.             *)
LEMMA StartPassInv ==
  ASSUME PassInv, TypeInv', NEW l \in 1..Len(Program) + 1, StartLoop(l), UNCHANGED <<arch, rams, nodes>>,
         work = <<>>, stage # "mapped",
         \A k \in Kinds : Has(k) =>
           /\ \A i \in Members(memory_list[k]) :
                 Sized(nodes[i], SplitDepth(k), SplitWidth(k), Reached(k, l - 1))
           /\ \A i \in Live(nodes, k) : Big(arch, nodes[i]) => i \in Members(memory_list[k])
  PROVE  PassInv'
<1>1. /\ Program' = Program /\ \A k : SplitDepth(k)' = SplitDepth(k) /\ SplitWidth(k)' = SplitWidth(k) /\ Has(k)' = Has(k)
      /\ \A k, m : Reached(k, m)' = Reached(k, m)
  <2>1. Program' = Program
    BY DEF Program, Filters, SplitAndPad, Only, Has
  <2>2. \A k, m : Reached(k, m)' = Reached(k, m)
    BY <2>1 DEF Reached
  <2> QED
    BY <2>1, <2>2 DEF SplitDepth, SplitWidth, Has
<1>2. Len(Program) \in Nat /\ memory_list \in [Kinds -> Seq(1..Len(nodes))]
  BY ProgramLoops DEF PassInv, TypeInv
<1>3. \A k \in Kinds : Distinct(memory_list[k]) /\ Members(memory_list[k]) \subseteq Live(nodes, k)
  BY DEF PassInv, ListsInv
<1>4. \A i \in 1..Len(nodes) : nodes[i].made # "hard"
  BY DEF PassInv, FitInv
<1>5. CASE l > Len(Program)
  <2>1. memory_list' = [k \in Kinds |-> <<>>] /\ work' = <<>> /\ loop' = l /\ stage' = "map"
    BY <1>5 DEF StartLoop
  <2>2. ListsInv'
    BY <2>1, EmptyMembers DEF ListsInv
  <2>3. l - 1 = Len(Program)
    BY <1>2, <1>5
  <2>4. FittedInv
    <3> SUFFICES ASSUME NEW k \in Kinds, Has(k), NEW i \in Live(nodes, k), Big(arch, nodes[i])
                 PROVE  AddrWidth(nodes[i]) = SplitDepth(k) /\ DataWidth(nodes[i]) = SplitWidth(k)
      BY DEF FittedInv
    <3>1. Sized(nodes[i], SplitDepth(k), SplitWidth(k), Reached(k, Len(Program)))
      BY <2>3
    <3>2. "pad" \in Reached(k, Len(Program))
      BY ProgramOrder
    <3> QED
      BY <3>1, <3>2 DEF Sized
  <2>5. FittedInv'
    BY <1>1, <2>4 DEF FittedInv
  <2>6. FitInv'
    BY <1>4, <2>1, <2>5 DEF FitInv
  <2> QED
    BY <2>2, <2>6 DEF PassInv
<1>6. CASE l <= Len(Program)
  <2> DEFINE L == Program[l][2]
  <2>1. l \in 1..Len(Program) /\ ~(l > Len(Program))
    BY <1>2, <1>6
  <2>2. L \in Kinds
    BY <2>1, ProgramLoops
  <2>3. /\ memory_list' = [memory_list EXCEPT ![L] = <<>>]
        /\ work' = memory_list[L] /\ loop' = l /\ stage' = "iterate"
    BY <2>1 DEF StartLoop
  <2>4. ListKind' = L
    BY <1>1, <2>3 DEF ListKind
  <2>5. \A k \in Kinds : k # L => Reached(k, l) = Reached(k, l - 1)
    BY <2>1, ReachedNext
  <2> HIDE DEF L
  <2>6. memory_list'[L] = <<>> /\ \A k \in Kinds : k # L => memory_list'[k] = memory_list[k]
    BY <1>2, <2>2, <2>3
  <2>7. ListsInv'
    <3>1. \A k \in Kinds : Distinct(memory_list'[k]) /\ Members(memory_list'[k]) \subseteq Live(nodes', k)
      BY <1>3, <2>2, <2>6, EmptyMembers
    <3>2. /\ Distinct(work') /\ Members(work') \subseteq Live(nodes', L)
          /\ Members(work') \cap Members(memory_list'[L]) = {}
      BY <1>3, <2>2, <2>3, <2>6, EmptyMembers
    <3> QED
      BY <2>3, <2>4, <3>1, <3>2 DEF ListsInv
  <2>8. IterateInv'
    <3> SUFFICES ASSUME NEW k \in Kinds, Has(k)
                 PROVE  /\ \A i \in Members(memory_list'[k]) :
                             Sized(nodes[i], SplitDepth(k), SplitWidth(k), Reached(k, l))
                        /\ k = L => \A i \in Members(work') :
                             Sized(nodes[i], SplitDepth(k), SplitWidth(k), Reached(k, l - 1))
                        /\ \A i \in Live(nodes, k) : Big(arch, nodes[i]) =>
                             i \in Members(memory_list'[k]) \/ (k = L /\ i \in Members(work'))
      BY <1>1, <2>3, <2>4 DEF IterateInv
    <3>1. CASE k = L
      BY <2>3, <2>6, <3>1, EmptyMembers
    <3>2. CASE k # L
      BY <2>5, <2>6, <3>2
    <3> QED
      BY <3>1, <3>2
  <2>9. FitInv'
    BY <1>4, <2>3, <2>8 DEF FitInv
  <2> QED
    BY <2>7, <2>9 DEF PassInv
<1> QED
  BY <1>2, <1>5, <1>6

LEMMA CreatePassInv ==
  ASSUME PassInv, TypeInv', NEW s \in Shape, CreateRam(s)
  PROVE  PassInv'
<1> DEFINE n == NewMemory(Len(rams) + 1, s)
           size == Len(nodes) + 1
           K == Len(s.addr)
<1>1. /\ rams \in Seq(Shape) /\ nodes \in Seq(AnyNode) /\ Len(nodes) \in Nat /\ K \in Kinds
      /\ memory_list \in [Kinds -> Seq(1..Len(nodes))]
  BY ShapeFacts DEF PassInv, TypeInv
<1>2. /\ stage = "create" /\ nodes' = Append(nodes, n) /\ rams' = Append(rams, s)
      /\ memory_list' = [memory_list EXCEPT ![K] = <<size>> \o @]
      /\ UNCHANGED <<arch, work, loop, stage>>
  BY DEF CreateRam
<1>3. n.made = "memory" /\ Kind(n) = K
  <2>1. n.made = "memory" /\ n.addr = [p \in DOMAIN s.addr |-> AddrPins(s.addr[p], Widest(s))]
    BY DEF NewMemory
  <2>2. DOMAIN s.addr = 1..K /\ K \in Nat
    BY ShapeFacts DEF Kinds
  <2>3. n.addr = [p \in 1..K |-> AddrPins(s.addr[p], Widest(s))]
    BY <2>1, <2>2
  <2> HIDE DEF n, K
  <2>4. Len(n.addr) = K
    BY <2>2, <2>3
  <2> QED
    BY <2>1, <2>4 DEF Kind
<1> HIDE DEF n, K
<1>4. /\ Len(nodes') = size /\ nodes'[size] = n
      /\ \A i \in 1..Len(nodes) : nodes'[i] = nodes[i]
  BY <1>1, <1>2
<1>5. /\ size \in 1..size /\ size \notin 1..Len(nodes)
      /\ \A i \in 1..Len(nodes) : i \in 1..size
      /\ \A i \in 1..size : i \in 1..Len(nodes) \/ i = size
  BY <1>1
<1>6. Seq(1..Len(nodes)) \subseteq Seq(1..size) /\ <<size>> \in Seq(1..size)
  BY <1>1, <1>5, LargerIndexes
<1> HIDE DEF size
<1>7. \A k \in Kinds : Live(nodes, k) \subseteq Live(nodes', k) /\ Live(nodes, k) \subseteq 1..Len(nodes)
  BY <1>4, <1>5 DEF Live
<1>8. size \in Live(nodes', K) /\ \A k \in Kinds : \A i \in Live(nodes', k) : i \in Live(nodes, k) \/ (k = K /\ i = size)
  BY <1>3, <1>4, <1>5 DEF Live
<1>9. /\ \A k \in Kinds : Distinct(memory_list[k]) /\ Members(memory_list[k]) \subseteq Live(nodes, k)
      /\ \A k \in Kinds : Live(nodes, k) \subseteq Members(memory_list[k])
      /\ work = <<>> /\ \A i \in 1..Len(nodes) : nodes[i].made # "hard"
  BY <1>2 DEF PassInv, ListsInv, FitInv
<1>10. Members(memory_list'[K]) = {size} \cup Members(memory_list[K]) /\ Distinct(memory_list'[K])
       /\ \A k \in Kinds : k # K => memory_list'[k] = memory_list[k]
  <2> DEFINE S == 1..size
             old == memory_list[K]
             one == <<size>>
  <2>1. one \in Seq(S) /\ old \in Seq(S) /\ Distinct(old) /\ memory_list'[K] = one \o old
    BY <1>1, <1>2, <1>6, <1>9
  <2>2. Members(one) = {size} /\ Distinct(one)
    BY OneMember
  <2>3. Members(one) \cap Members(old) = {}
    BY <1>1, <1>5, <1>7, <1>9, <2>2
  <2> HIDE DEF S, old, one
  <2>4. Members(one \o old) = Members(one) \cup Members(old) /\ Distinct(one \o old)
    BY <2>1, <2>2, <2>3, ConcatMembers
  <2> QED
    BY <1>1, <1>2, <2>1, <2>2, <2>4 DEF old
<1>11. ASSUME NEW k \in Kinds
       PROVE  /\ Distinct(memory_list'[k]) /\ Members(memory_list'[k]) \subseteq Live(nodes', k)
              /\ Live(nodes', k) \subseteq Members(memory_list'[k])
  <2>1. CASE k = K
    BY <1>1, <1>7, <1>8, <1>9, <1>10, <2>1
  <2>2. CASE k # K
    BY <1>7, <1>8, <1>9, <1>10, <2>2
  <2> QED
    BY <2>1, <2>2
<1>12. ListsInv'
  BY <1>2, <1>9, <1>11 DEF ListsInv
<1>13. \A i \in 1..Len(nodes') : nodes'[i].made # "hard"
  BY <1>3, <1>4, <1>5, <1>9
<1>14. FitInv'
  BY <1>2, <1>11, <1>13 DEF FitInv
<1> QED
  BY <1>12, <1>14 DEF PassInv

LEMMA StopPassInv ==
  ASSUME PassInv, TypeInv', UNCHANGED <<arch, rams, nodes, memory_list, work, loop>>,
         stage' = stage \/ (stage' = "error" /\ stage \in {"create", "map"})
           \/ (stage' = "map" /\ stage = "create" /\ DOMAIN arch.blocks = {})
  PROVE  PassInv'
<1>1. /\ \A k : SplitDepth(k)' = SplitDepth(k) /\ SplitWidth(k)' = SplitWidth(k) /\ Has(k)' = Has(k)
      /\ \A k, m : Reached(k, m)' = Reached(k, m) /\ ListKind' = ListKind
      /\ \A n : IsHard(n)' <=> IsHard(n)
  <2>1. Program' = Program
    BY DEF Program, Filters, SplitAndPad, Only, Has
  <2>2. \A k, m : Reached(k, m)' = Reached(k, m) /\ ListKind' = ListKind
    BY <2>1 DEF Reached, ListKind
  <2> QED
    BY <2>2 DEF SplitDepth, SplitWidth, Has, IsHard, LargeEnough
<1>2. ListsInv'
  BY <1>1 DEF PassInv, ListsInv
<1>3. IterateInv => IterateInv'
  BY <1>1 DEF IterateInv
<1>4. FittedInv => FittedInv'
  BY <1>1 DEF FittedInv
<1>5. DOMAIN arch.blocks = {} => FittedInv
  BY DEF FittedInv, Has
<1>6. FitInv'
  BY <1>1, <1>3, <1>4, <1>5 DEF PassInv, FitInv
<1> QED
  BY <1>2, <1>6 DEF PassInv

LEMMA IteratePassInv ==
  ASSUME PassInv, TypeInv', IterateMemories
  PROVE  PassInv'
<1>1. stage = "create" /\ UNCHANGED <<arch, rams, nodes>>
  BY DEF IterateMemories
<1>2. CASE StartLoop(1)
  <2>1. work = <<>>
    BY <1>1 DEF PassInv, ListsInv
  <2>2. Len(Program) \in Nat
    BY ProgramLoops
  <2>3. \A k : Reached(k, 1 - 1) = {}
    BY <2>2 DEF Reached
  <2>4. \A k \in Kinds :
          /\ \A i \in Members(memory_list[k]) :
                Sized(nodes[i], SplitDepth(k), SplitWidth(k), Reached(k, 1 - 1))
          /\ \A i \in Live(nodes, k) : i \in Members(memory_list[k])
    BY <1>1, <2>3 DEF Sized, PassInv, FitInv
  <2>5. 1 \in 1..Len(Program) + 1
    BY <2>2
  <2> QED
    BY <1>1, <1>2, <2>1, <2>4, <2>5, StartPassInv
<1>3. CASE /\ UNCHANGED <<memory_list, work, loop>>
           /\ (stage' = "map" /\ DOMAIN arch.blocks = {}) \/ stage' = "error"
  BY <1>1, <1>3, StopPassInv
<1> QED
  BY <1>2, <1>3 DEF IterateMemories

LEMMA NextLoopPassInv ==
  ASSUME PassInv, TypeInv', NextLoop
  PROVE  PassInv'
<1>1. stage = "iterate" /\ work = <<>> /\ StartLoop(loop + 1) /\ UNCHANGED <<arch, rams, nodes>>
  BY DEF NextLoop
<1>2. Len(Program) \in Nat /\ loop \in 1..Len(Program)
  BY <1>1, ProgramLoops DEF PassInv, TypeInv
<1>3. loop + 1 \in 1..Len(Program) + 1 /\ (loop + 1) - 1 = loop
  BY <1>2
<1>4. IterateInv /\ Members(work) = {}
  BY <1>1, EmptyMembers DEF PassInv, FitInv
<1>5. \A k \in Kinds : Has(k) =>
        /\ \A i \in Members(memory_list[k]) :
              Sized(nodes[i], SplitDepth(k), SplitWidth(k), Reached(k, (loop + 1) - 1))
        /\ \A i \in Live(nodes, k) : Big(arch, nodes[i]) => i \in Members(memory_list[k])
  BY <1>3, <1>4 DEF IterateInv
<1> QED
  BY <1>1, <1>3, <1>5, StartPassInv

(* The partial map decides by the size the loops left.                     *)
LEMMA MappedSize ==
  ASSUME NEW rs \in Seq(Shape), NEW n, Good(rs, n)
  PROVE  /\ Kind(Mapped(n)) = Kind(n) /\ AddrWidth(Mapped(n)) = AddrWidth(n)
         /\ DataWidth(Mapped(n)) = DataWidth(n)
         /\ n.made # "hard" /\ Mapped(n).made = "hard" => IsHard(Mapped(n))
<1>1. n \in NodeOf(PortsOf(rs, n.ram))
  BY GoodFacts
<1>2. \A m : LET c == [n EXCEPT !.made = m]
             IN  c.addr = n.addr /\ c.data = n.data /\ c.made = m
  BY <1>1 DEF NodeOf
<1>3. /\ Mapped(n).addr = n.addr /\ Mapped(n).data = n.data
      /\ n.made # "hard" /\ Mapped(n).made = "hard" => IsHard(n)
  BY <1>2 DEF Mapped
<1> QED
  BY <1>3 DEF Kind, AddrWidth, DataWidth, IsHard, LargeEnough

LEMMA MapPassInv ==
  ASSUME PassInv, TypeInv', PartialMap
  PROVE  PassInv'
<1>1. stage = "map" /\ UNCHANGED <<arch, rams, memory_list, work, loop>>
  BY DEF PartialMap
<1>2. CASE stage' = "error" /\ UNCHANGED nodes
  BY <1>1, <1>2, StopPassInv
<1>3. CASE stage' = "mapped" /\ nodes' = [i \in DOMAIN nodes |-> Mapped(nodes[i])]
  <2>1. /\ rams \in Seq(Shape) /\ Len(nodes) \in Nat /\ DOMAIN nodes = 1..Len(nodes)
        /\ \A i \in 1..Len(nodes) : Good(rams, nodes[i])
    BY DEF PassInv, TypeInv
  <2>2. Len(nodes') = Len(nodes) /\ \A i \in 1..Len(nodes) : nodes'[i] = Mapped(nodes[i])
    <3>1. nodes' = [i \in 1..Len(nodes) |-> Mapped(nodes[i])]
      BY <1>3, <2>1
    <3> QED
      BY <2>1, <3>1
  <2>3. /\ \A k : SplitDepth(k)' = SplitDepth(k) /\ SplitWidth(k)' = SplitWidth(k) /\ Has(k)' = Has(k)
        /\ \A n : IsHard(n)' <=> IsHard(n)
    BY <1>1 DEF SplitDepth, SplitWidth, Has, IsHard, LargeEnough
  <2>4. \A i \in 1..Len(nodes) :
          /\ Kind(nodes'[i]) = Kind(nodes[i]) /\ AddrWidth(nodes'[i]) = AddrWidth(nodes[i])
          /\ DataWidth(nodes'[i]) = DataWidth(nodes[i])
          /\ nodes[i].made # "hard" /\ nodes'[i].made = "hard" => IsHard(nodes'[i])
          /\ nodes'[i].made = "cut" <=> nodes[i].made = "cut"
    BY <2>1, <2>2, MappedSize, MappedFacts
  <2>5. \A k : Live(nodes', k) = Live(nodes, k)
    BY <2>2, <2>4 DEF Live
  <2>6. \A i \in 1..Len(nodes) : Big(arch, nodes'[i]) <=> Big(arch, nodes[i])
    BY <2>4 DEF Big
  <2>7. ListsInv'
    BY <1>1, <1>3, <2>5 DEF PassInv, ListsInv
  <2>8. FittedInv'
    <3>1. FittedInv
      BY <1>1 DEF PassInv, FitInv
    <3>2. \A k : Live(nodes, k) \subseteq 1..Len(nodes)
      BY DEF Live
    <3> QED
      BY <1>1, <2>3, <2>4, <2>5, <2>6, <3>1, <3>2 DEF FittedInv
  <2>9. ASSUME NEW i \in 1..Len(nodes'), nodes'[i].made = "hard" PROVE IsHard(nodes[i])'
    <3>1. i \in 1..Len(nodes) /\ nodes[i].made # "hard"
      BY <1>1, <2>2 DEF PassInv, FitInv
    <3>2. IsHard(nodes'[i])
      BY <2>4, <2>9, <3>1
    <3> QED
      BY <1>1, <3>2 DEF IsHard, Has, LargeEnough, Kind, AddrWidth, DataWidth
  <2>10. FitInv'
    BY <1>3, <2>3, <2>8, <2>9 DEF FitInv
  <2> QED
    BY <2>7, <2>10 DEF PassInv
<1> QED
  BY <1>2, <1>3 DEF PartialMap

-----------------------------------------------------------------------------
(* The theorems                                                            *)

LEMMA InitPassInv == MemoriesInit => PassInv
<1> SUFFICES ASSUME MemoriesInit PROVE PassInv
  OBVIOUS
<1>1. stage = "create" /\ Len(nodes) = 0 /\ memory_list = [k \in Kinds |-> <<>>] /\ work = <<>>
  BY DEF MemoriesInit
<1>2. 1..Len(nodes) = {} /\ \A k : Live(nodes, k) = {}
  BY <1>1 DEF Live
<1>3. ListsInv
  BY <1>1, EmptyMembers DEF ListsInv
<1>4. FitInv
  BY <1>1, <1>2 DEF FitInv
<1> QED
  BY <1>3, <1>4, InitTypeInv DEF PassInv

LEMMA NextPassInv ==
  ASSUME PassInv, [MemoriesNext]_memories_vars
  PROVE  PassInv'
<1>1. TypeInv'
  BY NextTypeInv DEF PassInv
<1>2. CASE \E s \in Shape : CreateRam(s)
  BY <1>1, <1>2, CreatePassInv
<1>3. CASE IterateMemories
  BY <1>1, <1>3, IteratePassInv
<1>4. CASE NextLoop
  BY <1>1, <1>4, NextLoopPassInv
<1>5. CASE SplitMemoryDepth
  BY <1>1, <1>5, SplitDepthPassInv
<1>6. CASE SplitMemoryWidth
  BY <1>1, <1>6, SplitWidthPassInv
<1>7. CASE FilterMemory
  BY <1>1, <1>7, FilterPassInv
<1>8. CASE PadMemory
  BY <1>1, <1>8, PadPassInv
<1>9. CASE PartialMap
  BY <1>1, <1>9, MapPassInv
<1>10. CASE Stop \/ UNCHANGED memories_vars
  BY <1>1, <1>10, StopPassInv DEF Stop, memories_vars
<1> QED
  BY <1>2, <1>3, <1>4, <1>5, <1>6, <1>7, <1>8, <1>9, <1>10 DEF MemoriesNext, IterateStep

LEMMA PassInvariant == MemoriesSpec => []PassInv
<1>1. MemoriesInit => PassInv
  BY InitPassInv
<1>2. PassInv /\ [MemoriesNext]_memories_vars => PassInv'
  BY NextPassInv
<1> QED
  BY <1>1, <1>2, PTL DEF MemoriesSpec

LEMMA HeldOnce == PassInv => ListsHoldNodesOnce
<1> SUFFICES ASSUME PassInv, NEW i \in DOMAIN nodes
             PROVE  /\ \A x, y \in Occurs(i) : x = y
                    /\ nodes[i].made = "cut" => Occurs(i) = {}
  BY DEF ListsHoldNodesOnce
<1> DEFINE K == Kind(nodes[i])
<1>1. /\ memory_list \in [Kinds -> Seq(1..Len(nodes))] /\ work \in Seq(1..Len(nodes))
      /\ \A k \in Kinds : Distinct(memory_list[k]) /\ Members(memory_list[k]) \subseteq Live(nodes, k)
  BY DEF PassInv, TypeInv, ListsInv
<1>2. /\ Distinct(work)
      /\ \A j \in 1..Len(work) : /\ stage = "iterate" /\ work[j] \in Live(nodes, ListKind)
                                 /\ work[j] \notin Members(memory_list[ListKind])
  <2>1. CASE stage = "iterate"
    BY <2>1 DEF PassInv, ListsInv, Members
  <2>2. CASE stage # "iterate"
    <3>1. work = <<>>
      BY <2>2 DEF PassInv, ListsInv
    <3> QED
      BY <3>1, EmptyMembers
  <2> QED
    BY <2>1, <2>2
<1>3. ASSUME NEW x \in Occurs(i)
      PROVE  /\ nodes[i].made # "cut"
             /\ \/ /\ x = <<K, x[2]>> /\ x[2] \in 1..Len(memory_list[K]) /\ K \in Kinds
                   /\ memory_list[K][x[2]] = i /\ i \in Members(memory_list[K])
                \/ x = <<0, x[2]>> /\ x[2] \in 1..Len(work) /\ work[x[2]] = i /\ K = ListKind
  <2>1. CASE /\ x \in Kinds \X (1..Len(nodes)) /\ x[2] \in DOMAIN memory_list[x[1]]
             /\ memory_list[x[1]][x[2]] = i
    <3>1. x[1] \in Kinds /\ x = <<x[1], x[2]>> /\ x[2] \in 1..Len(memory_list[x[1]])
      BY <1>1, <2>1
    <3>2. i \in Members(memory_list[x[1]])
      BY <2>1, <3>1 DEF Members
    <3>3. i \in Live(nodes, x[1])
      BY <1>1, <3>1, <3>2
    <3>4. x[1] = K /\ nodes[i].made # "cut"
      BY <3>3 DEF Live
    <3> QED
      BY <2>1, <3>1, <3>2, <3>4
  <2>2. CASE x \in {<<0, j>> : j \in {j \in DOMAIN work : work[j] = i}}
    <3>1. PICK j \in DOMAIN work : work[j] = i /\ x = <<0, j>>
      BY <2>2
    <3>2. j \in 1..Len(work) /\ x[2] = j
      BY <1>1, <3>1
    <3>3. i \in Live(nodes, ListKind)
      BY <1>2, <3>1, <3>2
    <3> QED
      BY <3>1, <3>2, <3>3 DEF Live
  <2> QED
    BY <2>1, <2>2 DEF Occurs
<1>4. ASSUME NEW x \in Occurs(i), NEW y \in Occurs(i)
      PROVE  x = y
  <2>1. \A j \in 1..Len(work) : work[j] = i /\ K = ListKind => i \notin Members(memory_list[K])
    BY <1>2
  <2> HIDE DEF K
  <2>2. CASE x = <<K, x[2]>> /\ y = <<K, y[2]>> /\ K \in Kinds
             /\ x[2] \in 1..Len(memory_list[K]) /\ y[2] \in 1..Len(memory_list[K])
             /\ memory_list[K][x[2]] = i /\ memory_list[K][y[2]] = i
    <3>1. Distinct(memory_list[K])
      BY <1>1, <2>2
    <3>2. x[2] = y[2]
      BY <2>2, <3>1 DEF Distinct
    <3> QED
      BY <2>2, <3>2
  <2>3. CASE x = <<0, x[2]>> /\ y = <<0, y[2]>>
             /\ x[2] \in 1..Len(work) /\ y[2] \in 1..Len(work) /\ work[x[2]] = i /\ work[y[2]] = i
    <3>1. x[2] = y[2]
      BY <1>2, <2>3 DEF Distinct
    <3> QED
      BY <2>3, <3>1
  <2> QED
    BY <1>3, <2>1, <2>2, <2>3
<1> QED
  BY <1>3, <1>4

(* The lists hold a memory at most once, and none that was freed, through  *)
(* every loop of iterate_memories.                                         *)
THEOREM ListsAlwaysHoldNodesOnce == MemoriesSpec => []ListsHoldNodesOnce
BY PassInvariant, HeldOnce, PTL

LEMMA HardOnesFit == PassInv => HardFits
<1> SUFFICES ASSUME PassInv, NEW i \in DOMAIN nodes, nodes[i].made = "hard", NEW p \in DOMAIN nodes[i].addr
             PROVE  /\ Len(nodes[i].addr[p]) = SplitDepth(Kind(nodes[i]))
                    /\ Len(nodes[i].data[p]) = SplitWidth(Kind(nodes[i]))
                    /\ Len(nodes[i].out[p]) = SplitWidth(Kind(nodes[i]))
  BY DEF HardFits
<1>1. i \in 1..Len(nodes) /\ Good(rams, nodes[i]) /\ rams \in Seq(Shape)
  BY DEF PassInv, TypeInv
<1>2. stage = "mapped" /\ FittedInv /\ IsHard(nodes[i])
  BY <1>1 DEF PassInv, FitInv
<1>3. Kind(nodes[i]) \in Kinds /\ i \in Live(nodes, Kind(nodes[i]))
  BY <1>1, GoodFacts DEF Live
<1>4. Has(Kind(nodes[i])) /\ Big(arch, nodes[i])
  BY <1>2 DEF IsHard, LargeEnough, Big
<1>5. /\ AddrWidth(nodes[i]) = SplitDepth(Kind(nodes[i]))
      /\ DataWidth(nodes[i]) = SplitWidth(Kind(nodes[i]))
  BY <1>2, <1>3, <1>4 DEF FittedInv
<1>6. /\ Len(nodes[i].addr[p]) = AddrWidth(nodes[i])
      /\ nodes[i].data[p] = nodes[i].data[1] /\ nodes[i].out[p] = nodes[i].data[1]
  BY <1>1 DEF Good, Alike
<1> QED
  BY <1>5, <1>6 DEF DataWidth

(* A memory that is given to a hard block has the size of its ports: no    *)
(* memory large enough for one reaches the partial map before it was split *)
(* in depth and in width, and padded.                                      *)
THEOREM HardMemoriesFit == MemoriesSpec => []HardFits
BY PassInvariant, HardOnesFit, PTL

-----------------------------------------------------------------------------
(***************************************************************************)
(* The composition of BlockMemories and Memories implements Memories: the  *)
(* RAMs that the resolution and the block memories ask for have one port   *)
(* or two, with addresses and data of at least one bit, whatever the ports *)
(* of the memory cells, so all that is proved of Memories holds of the     *)
(* mapping of every design.                                                *)
(*                                                                         *)
(* The addresses of a block memory are joined with folds, of which the     *)
(* proofs need only that one address alone stays as it is.                 *)
(***************************************************************************)

(* A block memory of the design that waits to be mapped.                   *)
Waiting(m) ==
  /\ m.cell \in DOMAIN design.cells /\ Cell(m.cell).cell = "mem"
  /\ m.abits \in Positive
  /\ Reads(m.cell) = 1 => Len(m.rd) \in Positive
  /\ Writes(m.cell) = 1 => Len(m.wr) \in Positive

(* For any set of records, since a block memory may hold any list of nets. *)
WaitingList(list) == \E S : list \in Seq(S) /\ \A m \in S : Waiting(m)

Listed(list) == \E S : list \in Seq(S)

BlocksInv ==
  /\ design \in Designs
  /\ unresolved \subseteq DOMAIN design.cells
  /\ WaitingList(block_memory_list)
  /\ WaitingList(read_only_memory_list)
  /\ Listed(wires)

-----------------------------------------------------------------------------
(* Cells                                                                   *)

LEMMA CellsOfDesigns ==
  ASSUME design \in Designs, NEW c \in DOMAIN design.cells
  PROVE  /\ IsCell(Cell(c))
         /\ Reads(c) \in Nat /\ Writes(c) \in Nat
         /\ Reads(c) >= 1
<1>1. IsCell(Cell(c))
  BY BlockMemoriesAssumption DEF Cell
<1>2. Cell(c).rd \in Seq(Seq(Net)) /\ Cell(c).wr \in Seq(Seq(Net)) /\ Cell(c).rd # <<>>
  BY <1>1 DEF IsCell
<1>3. Reads(c) \in Nat /\ Writes(c) \in Nat
  BY <1>2, LenProperties DEF Reads, Writes
<1>4. Reads(c) # 0
  BY <1>2, EmptySeq DEF Reads
<1> QED BY <1>1, <1>3, <1>4

(* One address alone is not changed by joining, and is cut by pruning.     *)
LEMMA FlattenOne ==
  ASSUME NEW S, NEW s \in Seq(S), Len(s) = 1
  PROVE  FlattenSeq(s) = s[1]
<1> DEFINE Def(f) == f = [i \in 1..Len(s) |-> IF i = 1 THEN s[i] ELSE f[i - 1] \o s[i]]
<1>1. Def([i \in 1..Len(s) |-> s[1]])
  <2>1. 1..Len(s) = {1} OBVIOUS
  <2> QED BY <2>1
<1>2. Def(CHOOSE f : Def(f)) BY <1>1
<1>3. FlattenSeq(s) = (CHOOSE f : Def(f))[Len(s)] BY DEF FlattenSeq
<1> QED BY <1>2, <1>3

LEMMA PruneOne ==
  ASSUME NEW S, NEW s \in Seq(S), Len(s) = 1, NEW width
  PROVE  PruneSignal(s, width) = SubSeq(s[1], 1, width)
<1> DEFINE first == SubSeq(s[1], 1, width)
           others == FlattenSeq([i \in 1..(Len(s) - 1) |-> SubSeq(s[i + 1], 1, width)])
           Def(v) == v = [d \in SUBSET (DOMAIN <<>>) |->
                            IF d = {} THEN first
                            ELSE LET x == Max(d)
                                 IN  IF (<<>>)[x] \in Range(v[d \ {x}]) THEN v[d \ {x}]
                                     ELSE Append(v[d \ {x}], (<<>>)[x])]
<1>1. others = <<>>
  <2>1. [i \in 1..(Len(s) - 1) |-> SubSeq(s[i + 1], 1, width)] = <<>> OBVIOUS
  <2>2. FlattenSeq(<<>>) = <<>> BY DEF FlattenSeq
  <2> QED BY <2>1, <2>2
<1>2. DOMAIN <<>> = {} /\ SUBSET (DOMAIN <<>>) = {{}} OBVIOUS
<1>3. Def([d \in SUBSET (DOMAIN <<>>) |-> first]) BY <1>2
<1>4. Def(CHOOSE v : Def(v)) BY <1>3
<1>5. PruneSignal(s, width) = (CHOOSE v : Def(v))[DOMAIN <<>>]
  BY <1>1, Zenon DEF PruneSignal, FoldLeft, MapThenFoldSet
<1> QED BY <1>2, <1>4, <1>5

LEMMA NeededWidths ==
  ASSUME design \in Designs, NEW c \in DOMAIN design.cells, Cell(c).cell = "mem"
  PROVE  NeededWidth(c) \in 1..Len(Cell(c).rd[1])
<1>1. \E n \in DOMAIN Cell(c).rd[1] : Distinguish(n, Cell(c).size)
  BY CellsOfDesigns DEF IsCell
<1>2. Cell(c).rd[1] \in Seq(Net)
  <2>1. Cell(c).rd \in Seq(Seq(Net)) /\ Len(Cell(c).rd) >= 1
    BY CellsOfDesigns DEF IsCell, Reads
  <2> QED BY <2>1, ElementOfSeq
<1>3. DOMAIN Cell(c).rd[1] = 1..Len(Cell(c).rd[1])
  BY <1>2
<1> QED BY <1>1, <1>3 DEF NeededWidth

LEMMA BlockMemoryWaits ==
  ASSUME design \in Designs, NEW c \in DOMAIN design.cells, Cell(c).cell = "mem"
  PROVE  Waiting(BlockMemory(c))
<1> DEFINE width == NeededWidth(c)
<1>1. /\ Cell(c).rd \in Seq(Seq(Net)) /\ Cell(c).wr \in Seq(Seq(Net))
      /\ Len(Cell(c).rd) >= 1
      /\ \A i \in DOMAIN Cell(c).rd : Len(Cell(c).rd[i]) = Len(Cell(c).rd[1])
      /\ \A i \in DOMAIN Cell(c).wr : Len(Cell(c).wr[i]) = Len(Cell(c).rd[1])
  BY CellsOfDesigns DEF IsCell, Reads
<1>2. width \in 1..Len(Cell(c).rd[1])
  BY NeededWidths
<1>3. Cell(c).rd[1] \in Seq(Net) /\ Len(Cell(c).rd[1]) \in Nat
  BY <1>1, ElementOfSeq, LenProperties
<1>4. width \in Positive
  BY <1>2, <1>3 DEF Positive
<1>5. ASSUME NEW ports \in Seq(Seq(Net)), Len(ports) = 1,
             Len(ports[1]) = Len(Cell(c).rd[1])
      PROVE  Len(Optimized(ports, c)) \in Positive
  <2>1. ports[1] \in Seq(Net)
    BY <1>5, ElementOfSeq
  <2>2. CASE ports # <<>> /\ width < Len(ports[1])
    <3>1. Optimized(ports, c) = SubSeq(ports[1], 1, width)
      BY <1>5, <2>2, PruneOne DEF Optimized
    <3>2. Len(SubSeq(ports[1], 1, width)) = width
      BY <1>2, <1>3, <1>5, <2>1, SubSeqProperties
    <3> QED
      BY <1>4, <3>1, <3>2
  <2>3. CASE ~(ports # <<>> /\ width < Len(ports[1]))
    <3>1. Optimized(ports, c) = ports[1]
      BY <1>5, <2>3, FlattenOne DEF Optimized
    <3> QED
      BY <1>2, <1>3, <1>5, <3>1 DEF Positive
  <2> QED
    BY <2>2, <2>3
<1>6. Reads(c) = 1 => Len(Optimized(Cell(c).rd, c)) \in Positive
  BY <1>1, <1>5 DEF Reads
<1>7. Writes(c) = 1 => Len(Optimized(Cell(c).wr, c)) \in Positive
  <2> SUFFICES ASSUME Writes(c) = 1
               PROVE  Len(Optimized(Cell(c).wr, c)) \in Positive
    OBVIOUS
  <2>1. Len(Cell(c).wr) = 1 /\ 1 \in DOMAIN Cell(c).wr
    BY <1>1 DEF Writes
  <2> QED
    BY <1>1, <1>5, <2>1
<1> QED
  BY <1>4, <1>6, <1>7 DEF Waiting, BlockMemory

-----------------------------------------------------------------------------
(* RAMs                                                                    *)

(* The ports of a RAM decide its shape, with the width of its cell.        *)
LEMMA RamShape ==
  ASSUME design \in Designs, NEW c \in DOMAIN design.cells,
         NEW k \in Kinds, NEW ports, NEW reads, NEW muxed,
         DOMAIN ports = 1..k,
         \A p \in 1..k : Len(ports[p].addr[1]) \in Positive
  PROVE  ShapeOf(Ram(c, ports, reads, muxed)) \in Shape
<1> DEFINE addr == [p \in DOMAIN ports |-> Len(ports[p].addr[1])]
<1>1. addr \in [1..k -> Positive]
  OBVIOUS
<1>2. addr \in Seq(Positive) /\ Len(addr) = k
  <2>1. k \in Nat
    BY DEF Kinds
  <2> QED
    BY <1>1, <2>1
<1> DEFINE ram == Ram(c, ports, reads, muxed)
<1>3. DataBits(ram) \in Positive
  <2>1. Cell(c).dbits \in Positive
    BY CellsOfDesigns DEF IsCell, Positive
  <2>2. Reads(c) \in Positive
    BY CellsOfDesigns DEF Positive
  <2>3. Reads(c) * Cell(c).dbits \in Positive
    BY <2>1, <2>2 DEF Positive
  <2>4. ram.cell = c
    BY DEF Ram
  <2>5. DataBits(ram) \in {Reads(c) * Cell(c).dbits, Cell(c).dbits}
    BY <2>4 DEF DataBits
  <2> QED
    BY <2>1, <2>3, <2>5
<1>4. ShapeOf(ram) = [addr |-> addr, data |-> DataBits(ram)]
  <2>1. ram.ports = ports
    BY DEF Ram
  <2> QED
    BY <2>1 DEF ShapeOf
<1> HIDE DEF addr, ram
<1>5. ShapeOf(ram) \in Shape
  BY <1>2, <1>3, <1>4 DEF Shape
<1> QED
  BY <1>5 DEF ram

(* One or two ports, given one by one.                                     *)
LEMMA OnePortShape ==
  ASSUME design \in Designs, NEW c \in DOMAIN design.cells,
         NEW p, NEW reads, NEW muxed, Len(p.addr[1]) \in Positive
  PROVE  ShapeOf(Ram(c, <<p>>, reads, muxed)) \in Shape
<1>1. DOMAIN <<p>> = 1..1 /\ \A i \in 1..1 : Len(<<p>>[i].addr[1]) \in Positive
  OBVIOUS
<1> QED
  BY <1>1, RamShape DEF Kinds

LEMMA TwoPortShape ==
  ASSUME design \in Designs, NEW c \in DOMAIN design.cells,
         NEW p, NEW q, NEW reads, NEW muxed,
         Len(p.addr[1]) \in Positive, Len(q.addr[1]) \in Positive
  PROVE  ShapeOf(Ram(c, <<p, q>>, reads, muxed)) \in Shape
<1>1. DOMAIN <<p, q>> = 1..2 /\ \A i \in 1..2 : Len(<<p, q>>[i].addr[1]) \in Positive
  OBVIOUS
<1> QED
  BY <1>1, RamShape DEF Kinds

LEMMA PrimitiveShape ==
  ASSUME design \in Designs, NEW c \in DOMAIN design.cells, Cell(c).cell = "ram"
  PROVE  ShapeOf(Primitive(c)) \in Shape
<1>1. /\ Cell(c).rd \in Seq(Seq(Net)) /\ Len(Cell(c).rd) \in Kinds
      /\ \A p \in DOMAIN Cell(c).rd : Cell(c).rd[p] # <<>>
  BY CellsOfDesigns DEF IsCell, Kinds
<1>2. DOMAIN Cell(c).rd = 1..Len(Cell(c).rd)
  BY <1>1
<1> DEFINE ports == [p \in DOMAIN Cell(c).rd |-> WritePort(Cell(c).rd[p], p)]
<1>3. ASSUME NEW p \in 1..Len(Cell(c).rd)
      PROVE  Len(ports[p].addr[1]) \in Positive
  <2>1. Cell(c).rd[p] \in Seq(Net) /\ Cell(c).rd[p] # <<>>
    BY <1>1, <1>2, ElementOfSeq
  <2>2. Len(Cell(c).rd[p]) \in Nat /\ Len(Cell(c).rd[p]) # 0
    BY <2>1, EmptySeq, LenProperties
  <2>3. ports[p].addr[1] = Cell(c).rd[p]
    BY <1>2 DEF WritePort, Port
  <2> QED
    BY <2>2, <2>3 DEF Positive
<1>4. DOMAIN ports = 1..Len(Cell(c).rd)
  BY <1>2
<1> HIDE DEF ports
<1>5. ShapeOf(Ram(c, ports, [p \in DOMAIN Cell(c).rd |-> p], FALSE)) \in Shape
  BY <1>1, <1>3, <1>4, RamShape
<1> QED
  BY <1>5 DEF Primitive, ports

LEMMA ChunkWidth ==
  ASSUME NEW m, m.abits \in Positive, NEW list, NEW i
  PROVE  Len(Chunk(m, list, i)) \in Positive
<1>1. Chunk(m, list, i) \in [1..m.abits -> {list[(i - 1) * m.abits + k] : k \in 1..m.abits}]
  BY DEF Chunk
<1>2. m.abits \in Nat
  BY DEF Positive
<1>3. Len(Chunk(m, list, i)) = m.abits
  BY <1>1, <1>2
<1> QED
  BY <1>3

(* Multiplexers are made of one address at least.                          *)
LEMMA CascadeWidth ==
  ASSUME NEW m, m.abits \in Positive, NEW list, NEW n \in Positive, CanCascade(m, list, n)
  PROVE  Len(Cascade(m, list)[1]) \in Positive
<1>1. Len(list) = 1 * m.abits \/ Len(list) = n * m.abits
  BY DEF CanCascade, Whole
<1>2. Len(list) \div m.abits \in Nat /\ Len(list) \div m.abits >= 1
  <2>1. PICK q \in Positive : Len(list) = q * m.abits
    BY <1>1 DEF Positive
  <2>2. (q * m.abits) \div m.abits = q
    BY DEF Positive
  <2> QED
    BY <2>1, <2>2 DEF Positive
<1>3. Cascade(m, list)[1] = Chunk(m, list, 1)
  BY <1>2 DEF Cascade
<1> QED
  BY <1>3, ChunkWidth

-----------------------------------------------------------------------------
(* What becomes of a block memory: at most one RAM, of a shape that        *)
(* Memories can take.                                                      *)

Shaped(result) ==
  \/ result.rams = <<>>
  \/ \E ram : result.rams = <<ram>> /\ ShapeOf(ram) \in Shape

LEMMA NoneShaped == Shaped(Unmapped) /\ Shaped(Abort) /\ Shaped(Undefined)
  BY DEF Shaped, Unmapped, Abort, Undefined, Result

LEMMA MadeShaped ==
  ASSUME NEW ram, ShapeOf(ram) \in Shape
  PROVE  Shaped(Made(ram))
<1>1. Made(ram).rams = <<ram>>
  BY DEF Made, Result
<1> QED
  BY <1>1 DEF Shaped

LEMMA RomShaped ==
  ASSUME design \in Designs, NEW m, Waiting(m)
  PROVE  Shaped(MapRom(m))
<1> DEFINE c == m.cell
<1>1. /\ c \in DOMAIN design.cells /\ m.abits \in Positive
      /\ Reads(c) \in Nat /\ Reads(c) >= 1
  BY CellsOfDesigns DEF Waiting
<1>2. ASSUME Reads(c) \in Kinds
      PROVE  ShapeOf(ReadOnly(m)) \in Shape
  <2> DEFINE ports == [p \in 1..Reads(c) |-> ReadPort(Chunk(m, m.rd, p))]
  <2>1. \A p \in 1..Reads(c) : Len(ports[p].addr[1]) \in Positive
    BY <1>1, ChunkWidth DEF ReadPort, Port
  <2>2. DOMAIN ports = 1..Reads(c)
    OBVIOUS
  <2> HIDE DEF ports
  <2>3. ShapeOf(Ram(c, ports, [p \in 1..Reads(c) |-> p], FALSE)) \in Shape
    BY <1>1, <1>2, <2>1, <2>2, RamShape
  <2> QED
    BY <2>3 DEF ReadOnly, ports
<1>3. ASSUME CanCascade(m, m.rd, Reads(c)), Reads(c) > 2
      PROVE  ShapeOf(Multiplexed(m)) \in Shape
  <2>1. Len(Port(Cascade(m, m.rd), <<>>, <<>>).addr[1]) \in Positive
    BY <1>1, <1>3, CascadeWidth DEF Port, Positive
  <2> QED
    BY <1>1, <2>1, OnePortShape DEF Multiplexed
<1>4. CASE ForLutram(m)
  BY <1>4, NoneShaped DEF MapRom
<1>5. CASE ~ForLutram(m) /\ Reads(c) = 1
  <2>1. MapRom(m) = Made(ReadOnly(m))
    BY <1>5 DEF MapRom
  <2> QED
    BY <1>2, <1>5, <2>1, MadeShaped DEF Kinds
<1>6. CASE ~ForLutram(m) /\ Reads(c) = 2
  <2>1. MapRom(m) = Made(ReadOnly(m)) \/ MapRom(m) = Abort
    BY <1>6 DEF MapRom
  <2> QED
    BY <1>2, <1>6, <2>1, MadeShaped, NoneShaped DEF Kinds
<1>7. CASE ~ForLutram(m) /\ Reads(c) > 2
  <2>1. MapRom(m) = IF CanCascade(m, m.rd, Reads(c)) THEN Made(Multiplexed(m)) ELSE Abort
    BY <1>1, <1>7 DEF MapRom
  <2> QED
    BY <1>3, <1>7, <2>1, MadeShaped, NoneShaped
<1> QED
  BY <1>1, <1>4, <1>5, <1>6, <1>7

LEMMA BramShaped ==
  ASSUME design \in Designs, NEW m, Waiting(m)
  PROVE  Shaped(MapBram(m))
<1> DEFINE c == m.cell
<1>1. /\ c \in DOMAIN design.cells /\ m.abits \in Positive
      /\ Reads(c) \in Nat /\ Writes(c) \in Nat
      /\ Reads(c) = 1 => Len(m.rd) \in Positive
      /\ Writes(c) = 1 => Len(m.wr) \in Positive
  BY CellsOfDesigns DEF Waiting
<1>2. ASSUME NEW ram, NEW match, ShapeOf(ram) \in Shape
      PROVE  Shaped(IfMatch(match, ram))
  BY <1>2, MadeShaped, NoneShaped DEF IfMatch
<1>3. ASSUME Reads(c) = 1, Writes(c) = 1
      PROVE  ShapeOf(OneReadOneWrite(m)) \in Shape
  <2>1. Len(WritePort(m.rd, 1).addr[1]) \in Positive
    BY <1>1, <1>3 DEF WritePort, Port
  <2>2. Len(WritePort(m.wr, 1).addr[1]) \in Positive
    BY <1>1, <1>3 DEF WritePort, Port
  <2>3. Len(ReadPort(m.rd).addr[1]) \in Positive
    BY <1>1, <1>3 DEF ReadPort, Port
  <2> QED
    BY <1>1, <2>1, <2>2, <2>3, OnePortShape, TwoPortShape DEF OneReadOneWrite
<1>4. ASSUME Reads(c) = 1
      PROVE  ShapeOf(OneReadTwoWrites(m)) \in Shape
  <2> DEFINE w == Match(m, m.rd, m.wr)
             p == WritePort(m.rd, w)
             q == WritePort(Chunk(m, m.wr, Other(w)), Other(w))
  <2>1. p.addr[1] = m.rd /\ q.addr[1] = Chunk(m, m.wr, Other(w))
    BY DEF WritePort, Port
  <2>2. Len(p.addr[1]) \in Positive /\ Len(q.addr[1]) \in Positive
    BY <1>1, <1>4, <2>1, ChunkWidth
  <2>3. OneReadTwoWrites(m) = Ram(c, <<p, q>>, <<1>>, FALSE)
    BY DEF OneReadTwoWrites
  <2> HIDE DEF p, q
  <2> QED
    BY <1>1, <2>2, <2>3, TwoPortShape
<1>5. ASSUME Writes(c) = 1
      PROVE  ShapeOf(TwoReadsOneWrite(m)) \in Shape
  <2> DEFINE r == Match(m, m.wr, m.rd)
             p == WritePort(m.wr, 1)
             q == ReadPort(Chunk(m, m.rd, Other(r)))
             reads == [i \in {1, 2} |-> IF i = r THEN 1 ELSE 2]
  <2>1. p.addr[1] = m.wr /\ q.addr[1] = Chunk(m, m.rd, Other(r))
    BY DEF WritePort, ReadPort, Port
  <2>2. Len(p.addr[1]) \in Positive /\ Len(q.addr[1]) \in Positive
    BY <1>1, <1>5, <2>1, ChunkWidth
  <2>3. TwoReadsOneWrite(m) = Ram(c, <<p, q>>, reads, FALSE)
    BY DEF TwoReadsOneWrite
  <2> HIDE DEF p, q, reads
  <2> QED
    BY <1>1, <2>2, <2>3, TwoPortShape
<1>6. ShapeOf(TwoReadsTwoWrites(m)) \in Shape
  <2> DEFINE w == Match(m, Chunk(m, m.rd, 1), m.wr)
             p == Port(<<Chunk(m, m.rd, 1)>>, <<w>>, <<1>>)
             q == Port(<<Chunk(m, m.rd, 2)>>, <<Other(w)>>, <<2>>)
  <2>1. p.addr[1] = Chunk(m, m.rd, 1) /\ q.addr[1] = Chunk(m, m.rd, 2)
    BY DEF Port
  <2>2. Len(p.addr[1]) \in Positive /\ Len(q.addr[1]) \in Positive
    BY <1>1, <2>1, ChunkWidth
  <2>3. TwoReadsTwoWrites(m) = Ram(c, <<p, q>>, <<1, 2>>, FALSE)
    BY DEF TwoReadsTwoWrites
  <2> HIDE DEF p, q
  <2> QED
    BY <1>1, <2>2, <2>3, TwoPortShape
<1>7. ASSUME Reads(c) > 2, CanCascade(m, m.rd, Reads(c)),
             Writes(c) > 2, CanCascade(m, m.wr, Writes(c))
      PROVE  ShapeOf(ManyReadsManyWrites(m)) \in Shape
  <2> DEFINE all == [w \in 1..Writes(c) |-> w]
             p == Port(Cascade(m, m.rd), <<>>, <<>>)
             q == Port(Cascade(m, m.wr), all, all)
             reads == [r \in 1..Reads(c) |-> 1]
  <2>1. p.addr = Cascade(m, m.rd) /\ q.addr = Cascade(m, m.wr)
    BY DEF Port
  <2>2. Len(p.addr[1]) \in Positive /\ Len(q.addr[1]) \in Positive
    <3>1. Reads(c) \in Positive /\ Writes(c) \in Positive
      BY <1>1, <1>7 DEF Positive
    <3> QED
      BY <1>1, <1>7, <2>1, <3>1, CascadeWidth
  <2>3. ManyReadsManyWrites(m) = Ram(c, <<p, q>>, reads, TRUE)
    BY DEF ManyReadsManyWrites
  <2> HIDE DEF p, q, reads
  <2> QED
    BY <1>1, <2>2, <2>3, TwoPortShape
<1>8. Shaped(MapPorts(m))
  <2> DEFINE both == ReadsAndWrites(c)
  <2>1. CASE both = <<1, 1>>
    <3>1. Reads(c) = 1 /\ Writes(c) = 1
      BY <2>1 DEF ReadsAndWrites
    <3>2. MapPorts(m) = Made(OneReadOneWrite(m))
      BY <2>1 DEF MapPorts
    <3> QED
      BY <1>3, <3>1, <3>2, MadeShaped
  <2>2. CASE both = <<1, 2>>
    <3>1. Reads(c) = 1
      BY <2>2 DEF ReadsAndWrites
    <3>2. MapPorts(m) = IF ~Whole(m, m.wr, 2) THEN Undefined
                        ELSE IfMatch(Match(m, m.rd, m.wr), OneReadTwoWrites(m))
      BY <2>2 DEF MapPorts
    <3> QED
      BY <1>2, <1>4, <3>1, <3>2, NoneShaped
  <2>3. CASE both = <<2, 1>>
    <3>1. Writes(c) = 1
      BY <2>3 DEF ReadsAndWrites
    <3>2. MapPorts(m) = IF ~Whole(m, m.rd, 2) THEN Undefined
                        ELSE IfMatch(Match(m, m.wr, m.rd), TwoReadsOneWrite(m))
      BY <2>3 DEF MapPorts
    <3> QED
      BY <1>2, <1>5, <3>1, <3>2, NoneShaped
  <2>4. CASE both = <<2, 2>>
    <3>1. \/ MapPorts(m) = Abort
          \/ MapPorts(m) = Undefined
          \/ MapPorts(m) = IfMatch(Match(m, Chunk(m, m.rd, 1), m.wr), TwoReadsTwoWrites(m))
      BY <2>4 DEF MapPorts
    <3> QED
      BY <1>2, <1>6, <3>1, NoneShaped
  <2>5. CASE both \notin {<<1, 1>>, <<1, 2>>, <<2, 1>>, <<2, 2>>}
    <3>1. MapPorts(m) =
            IF /\ Reads(c) > 2 /\ CanCascade(m, m.rd, Reads(c))
               /\ Writes(c) > 2 /\ CanCascade(m, m.wr, Writes(c))
              THEN Made(ManyReadsManyWrites(m))
              ELSE Abort
      BY <2>5 DEF MapPorts
    <3> QED
      BY <1>7, <3>1, MadeShaped, NoneShaped
  <2> QED
    BY <2>1, <2>2, <2>3, <2>4, <2>5
<1> QED
  BY <1>8, NoneShaped DEF MapBram

-----------------------------------------------------------------------------
(* The lists                                                               *)

LEMMA WaitingCons ==
  ASSUME NEW list, NEW m, WaitingList(list), Waiting(m)
  PROVE  WaitingList(<<m>> \o list)
<1>1. PICK S : list \in Seq(S) /\ \A n \in S : Waiting(n)
  BY DEF WaitingList
<1>2. <<m>> \o list \in Seq(S \cup {m})
  <2>1. <<m>> \in Seq(S \cup {m}) /\ list \in Seq(S \cup {m})
    BY <1>1
  <2> QED
    BY <2>1, ConcatProperties
<1>3. \A n \in S \cup {m} : Waiting(n)
  BY <1>1
<1> QED
  BY <1>2, <1>3 DEF WaitingList

LEMMA WaitingHead ==
  ASSUME NEW list, WaitingList(list), list # <<>>
  PROVE  Waiting(Head(list)) /\ WaitingList(Tail(list))
<1>1. PICK S : list \in Seq(S) /\ \A n \in S : Waiting(n)
  BY DEF WaitingList
<1>2. Head(list) \in S /\ Tail(list) \in Seq(S)
  BY <1>1, HeadTailProperties
<1> QED
  BY <1>1, <1>2 DEF WaitingList

LEMMA ListedConcat ==
  ASSUME NEW list, NEW ram, Listed(list)
  PROVE  /\ Listed(list \o <<ram>>) /\ Listed(Append(list, ram))
         /\ list \o <<ram>> = Append(list, ram)
         /\ list \o <<>> = list
         /\ Append(list, ram)[Len(Append(list, ram))] = ram
         /\ Append(list, ram) # list
<1>1. PICK S : list \in Seq(S)
  BY DEF Listed
<1> DEFINE T == S \cup {ram}
<1>2. list \in Seq(T) /\ ram \in T
  BY <1>1
<1>3. list \o <<ram>> = Append(list, ram) /\ list \o <<>> = list
  BY <1>2
<1>4. /\ Append(list, ram) \in Seq(T)
      /\ Len(Append(list, ram)) = Len(list) + 1
      /\ Append(list, ram)[Len(list) + 1] = ram
      /\ Len(list) \in Nat
  BY <1>2, AppendProperties
<1> QED
  BY <1>3, <1>4 DEF Listed

-----------------------------------------------------------------------------
(* Every step of the resolution and of the block memories leads to at most *)
(* one RAM, the last of the wires.                                         *)

LEMMA TakeShaped ==
  ASSUME BlocksInv, NEW result, Shaped(result), Take(result), UNCHANGED design
  PROVE  Listed(wires') /\ (wires' # wires => ShapeOf(wires'[Len(wires')]) \in Shape)
<1>1. Listed(wires) /\ wires' = wires \o result.rams
  BY DEF BlocksInv, Take
<1>2. CASE result.rams = <<>>
  BY <1>1, <1>2, ListedConcat
<1>3. ASSUME NEW ram, result.rams = <<ram>>, ShapeOf(ram) \in Shape
      PROVE  Listed(wires') /\ ShapeOf(wires'[Len(wires')]) \in Shape
  BY <1>1, <1>3, ListedConcat
<1> QED
  BY <1>2, <1>3 DEF Shaped

LEMMA BlockStepShaped ==
  ASSUME BlocksInv, BlockStep
  PROVE  BlocksInv' /\ UNCHANGED design
         /\ (wires' # wires => ShapeOf(wires'[Len(wires')]) \in Shape)
<1>1. ASSUME NEW c \in unresolved, ResolvePrimitive(c)
      PROVE  /\ BlocksInv' /\ UNCHANGED design
             /\ (wires' # wires => ShapeOf(wires'[Len(wires')]) \in Shape)
  <2>1. c \in DOMAIN design.cells /\ Cell(c).cell = "ram" /\ UNCHANGED design
    BY <1>1 DEF BlocksInv, ResolvePrimitive
  <2>2. ShapeOf(Primitive(c)) \in Shape
    BY <2>1, PrimitiveShape DEF BlocksInv
  <2>3. Listed(wires') /\ ShapeOf(wires'[Len(wires')]) \in Shape
    BY <1>1, <2>2, ListedConcat DEF BlocksInv, ResolvePrimitive
  <2>4. WaitingList(block_memory_list)' /\ WaitingList(read_only_memory_list)'
    BY <1>1, <2>1 DEF BlocksInv, ResolvePrimitive, WaitingList, Waiting, Cell, Reads, Writes
  <2>5. design' \in Designs /\ unresolved' \subseteq DOMAIN design'.cells
    BY <1>1, <2>1 DEF BlocksInv, ResolvePrimitive
  <2>6. Listed(wires)'
    BY <2>3 DEF Listed
  <2> QED
    BY <2>1, <2>3, <2>4, <2>5, <2>6 DEF BlocksInv
<1>2. ASSUME NEW c \in unresolved, ResolveYmem(c)
      PROVE  /\ BlocksInv' /\ UNCHANGED <<design, wires>>
  <2>1. c \in DOMAIN design.cells /\ Cell(c).cell = "mem" /\ UNCHANGED <<design, wires>>
    BY <1>2 DEF BlocksInv, ResolveYmem
  <2>2. Waiting(BlockMemory(c))
    BY <2>1, BlockMemoryWaits DEF BlocksInv
  <2>3. WaitingList(block_memory_list') /\ WaitingList(read_only_memory_list')
    <3>1. /\ WaitingList(<<BlockMemory(c)>> \o block_memory_list)
          /\ WaitingList(<<BlockMemory(c)>> \o read_only_memory_list)
      BY <2>2, WaitingCons DEF BlocksInv
    <3> QED
      BY <1>2, <3>1 DEF BlocksInv, ResolveYmem
  <2>4. WaitingList(block_memory_list)' /\ WaitingList(read_only_memory_list)'
    BY <2>1, <2>3 DEF WaitingList, Waiting, Cell, Reads, Writes
  <2>5. design' \in Designs /\ unresolved' \subseteq DOMAIN design'.cells
    BY <1>2, <2>1 DEF BlocksInv, ResolveYmem
  <2> QED
    BY <2>1, <2>4, <2>5 DEF BlocksInv, Listed
<1>3. ASSUME IterateBrams
      PROVE  /\ BlocksInv' /\ UNCHANGED design
             /\ (wires' # wires => ShapeOf(wires'[Len(wires')]) \in Shape)
  <2>1. UNCHANGED <<design, unresolved, read_only_memory_list>>
        /\ block_memory_list # <<>> /\ block_memory_list' = Tail(block_memory_list)
        /\ Take(MapBram(Head(block_memory_list)))
    BY <1>3 DEF IterateBrams
  <2>2. Waiting(Head(block_memory_list)) /\ WaitingList(block_memory_list')
    BY <2>1, WaitingHead DEF BlocksInv
  <2>3. Shaped(MapBram(Head(block_memory_list)))
    BY <2>2, BramShaped DEF BlocksInv
  <2>4. Listed(wires') /\ (wires' # wires => ShapeOf(wires'[Len(wires')]) \in Shape)
    BY <2>1, <2>3, TakeShaped
  <2>5. WaitingList(block_memory_list)' /\ WaitingList(read_only_memory_list)'
    BY <2>1, <2>2 DEF BlocksInv, WaitingList, Waiting, Cell, Reads, Writes
  <2> QED
    BY <2>1, <2>4, <2>5 DEF BlocksInv, Listed
<1>4. ASSUME IterateRoms
      PROVE  /\ BlocksInv' /\ UNCHANGED design
             /\ (wires' # wires => ShapeOf(wires'[Len(wires')]) \in Shape)
  <2>1. UNCHANGED <<design, unresolved, block_memory_list>>
        /\ read_only_memory_list # <<>>
        /\ read_only_memory_list' = Tail(read_only_memory_list)
        /\ Take(MapRom(Head(read_only_memory_list)))
    BY <1>4 DEF IterateRoms
  <2>2. Waiting(Head(read_only_memory_list)) /\ WaitingList(read_only_memory_list')
    BY <2>1, WaitingHead DEF BlocksInv
  <2>3. Shaped(MapRom(Head(read_only_memory_list)))
    BY <2>2, RomShaped DEF BlocksInv
  <2>4. Listed(wires') /\ (wires' # wires => ShapeOf(wires'[Len(wires')]) \in Shape)
    BY <2>1, <2>3, TakeShaped
  <2>5. WaitingList(block_memory_list)' /\ WaitingList(read_only_memory_list)'
    BY <2>1, <2>2 DEF BlocksInv, WaitingList, Waiting, Cell, Reads, Writes
  <2> QED
    BY <2>1, <2>4, <2>5 DEF BlocksInv, Listed
<1> QED
  BY <1>1, <1>2, <1>3, <1>4 DEF BlockStep

-----------------------------------------------------------------------------
(***************************************************************************)
(* What the resolution and the block memories find stays well formed, and  *)
(* every step of the composition is one of Memories.                       *)
(***************************************************************************)
LEMMA BlocksInit ==
  MappingInit => BlocksInv
<1> SUFFICES ASSUME MappingInit PROVE BlocksInv
  OBVIOUS
<1>1. /\ design \in Designs /\ unresolved = DOMAIN design.cells
      /\ block_memory_list = <<>> /\ read_only_memory_list = <<>> /\ wires = <<>>
  BY DEF MappingInit, BlockInit
<1>2. ASSUME NEW S, S = {}
      PROVE  WaitingList(<<>>) /\ Listed(<<>>)
  <2>1. <<>> \in Seq(S)
    OBVIOUS
  <2>2. \A m \in S : Waiting(m)
    BY <1>2
  <2> QED
    BY <2>1, <2>2 DEF WaitingList, Listed
<1>3. WaitingList(<<>>) /\ Listed(<<>>)
  BY <1>2
<1> QED
  BY <1>1, <1>3 DEF BlocksInv

LEMMA MappingStep ==
  BlocksInv /\ [MappingNext]_vars => BlocksInv' /\ [MemoriesNext]_memories_vars
<1> SUFFICES ASSUME BlocksInv, [MappingNext]_vars
             PROVE  BlocksInv' /\ [MemoriesNext]_memories_vars
  OBVIOUS
<1>1. ASSUME UNCHANGED block_vars
      PROVE  BlocksInv'
  BY <1>1 DEF block_vars, BlocksInv, WaitingList, Listed, Waiting, Cell, Reads, Writes
<1>2. CASE Blocks
  <2>1. BlockStep /\ CreateOrStop /\ stage = "create"
    BY <1>2 DEF Blocks
  <2>2. /\ BlocksInv' /\ UNCHANGED design
        /\ (wires' # wires => ShapeOf(wires'[Len(wires')]) \in Shape)
    BY <2>1, BlockStepShaped
  <2>3. CASE outcome' # "ok"
    BY <2>1, <2>2, <2>3 DEF CreateOrStop, MemoriesNext
  <2>4. CASE outcome' = "ok" /\ Creates
    <3>1. CreateRam(ShapeOf(wires'[Len(wires')]))
      BY <2>1, <2>4 DEF CreateOrStop
    <3>2. ShapeOf(wires'[Len(wires')]) \in Shape
      BY <2>2, <2>4 DEF Creates
    <3> QED
      BY <2>2, <3>1, <3>2 DEF MemoriesNext
  <2>5. CASE outcome' = "ok" /\ ~Creates
    BY <2>1, <2>2, <2>5 DEF CreateOrStop
  <2> QED
    BY <2>3, <2>4, <2>5
<1>3. CASE Iterate
  BY <1>1, <1>3 DEF Iterate, MemoriesNext
<1>4. CASE PartialMapTop
  BY <1>1, <1>4 DEF PartialMapTop, MemoriesNext, Stop, PartialMap
<1>5. CASE ClockTick
  BY <1>1, <1>5 DEF ClockTick, Clock
<1>6. CASE UNCHANGED vars
  BY <1>1, <1>6 DEF vars
<1> QED
  BY <1>2, <1>3, <1>4, <1>5, <1>6 DEF MappingNext, Flow

(* Whatever memory cells a design has, what the pass makes of them is a    *)
(* behaviour of Memories (parmys_resolve.cc:182, BlockMemories.cc:1354,    *)
(* memories.cc:1000).                                                      *)
THEOREM MappingIsMemories == MappingSpec => MemoriesSpec
<1>1. MappingInit => MemoriesInit
  BY DEF MappingInit
<1> QED
  BY <1>1, BlocksInit, MappingStep, PTL DEF MappingSpec, MemoriesSpec

(* So for every design and every architecture each bit at each address of  *)
(* each RAM is in one place, two ports at one address meet in one cell, no *)
(* list holds a freed memory or one twice, and hard memories fit           *)
(* (memories.cc, lines 457, 724 and 1000; partial_map.cc:224).             *)
THEOREM EveryDesignMapped ==
  MappingSpec => [](CellsCoveredOnce /\ PortsShareCells /\ ListsHoldNodesOnce /\ HardFits)
  BY MappingIsMemories, CellsAlwaysCovered, PortsAlwaysShareCells,
     ListsAlwaysHoldNodesOnce, HardMemoriesFit, PTL
=============================================================================
