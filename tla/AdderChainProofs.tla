-------------------------- MODULE AdderChainProofs --------------------------
(***************************************************************************)
(* For every width, every size of the hard adder and every threshold: the  *)
(* chain that a node becomes has all bits of its operands and all of its   *)
(* outputs in one place, no loose input, an unbroken carry, and no pin is  *)
(* connected twice; and it computes the sum or the difference.             *)
(***************************************************************************)
EXTENDS AdderChain, Induction, TLAPS

(***************************************************************************)
(* The inductive invariant.                                                *)
(***************************************************************************)
Cutting == phase \in {"invert", "start", "fill", "link", "remap"} \/ (phase = "done" /\ IsCut)
Rippling == phase = "ripple" \/ (phase = "done" /\ ~IsCut)

(* The ports a node has before and after it was resolved.                  *)
NodeInv ==
  /\ phase = "resolve" => job.design
  /\ phase # "resolve" /\ IsSub =>
       node.out = Width /\ node.a = Width /\ node.b = Width /\ node.ports = 2
  /\ phase # "resolve" /\ ~IsSub /\ job.hard => node.out \in {Width, Width + 1}

(* What is made, and how the phases depend on the target.                  *)
StageInv ==
  /\ phase \in {"resolve", "list"} => slices = <<>>
  /\ phase \notin {"ripple", "done"} => index = 0
  /\ phase \in {"invert", "start", "fill", "link", "remap"} => IsCut
  /\ phase = "ripple" => ~IsCut /\ index < node.out
  /\ Cutting => Len(slices) = Count

(* The source that pin k of the second operand has in a chain.             *)
Operand2(k) == IF IsSub THEN Invert(PinB(k)) ELSE PinB(k)

(* What an input without an operand bit may be tied to.                    *)
Rest ==
  IF phase \in {"invert", "start"} THEN {Open}
  ELSE IF phase = "fill" THEN {Open, Gnd, Vcc} ELSE {Gnd, Vcc, Pad}

(* Bit k of each operand is in position k + 1, and nothing else but fill.  *)
LayoutInv ==
  Cutting =>
    /\ phase = "invert" => IsSub
    /\ \A i \in 1..Count, j \in 0..S - 1 :
         LET p == (i - 1) * S + j
         IN  /\ IF p \in 1..node.a THEN slices[i].a[j] = PinA(p - 1)
                                   ELSE slices[i].a[j] \in Rest
             /\ IF phase # "invert" /\ p \in 1..node.b
                  THEN slices[i].b[j] = Operand2(p - 1)
                  ELSE slices[i].b[j] \in Rest

CarryInv ==
  Cutting =>
    \A i \in 1..Count :
      slices[i].cin \in
        IF phase \in {"invert", "start"} THEN {Open}
        ELSE IF i = 1 THEN {Gnd, Pad}
        ELSE IF phase \in {"fill", "link"} THEN {Open} ELSE {Cout(i - 2)}

RippleInv ==
  Rippling =>
    /\ Len(slices) = index
    /\ phase = "done" <=> index = node.out
    /\ \A i \in 1..index :
         /\ slices[i].a[0] = IF i <= node.a THEN PinA(i - 1) ELSE Gnd
         /\ IF i <= node.b THEN slices[i].b[0] = Operand2(i - 1)
                           ELSE slices[i].b[0] \in {Gnd, Vcc}
         /\ IF i = 1 THEN slices[i].cin \in {Gnd, Vcc} ELSE slices[i].cin = Cout(i - 2)

(* Who has been handed an output pin.                                      *)
DriveInv ==
  /\ phase # "overrun"
  /\ phase # "done" /\ ~Rippling => \A k \in DOMAIN drive : drive[k].of # "sum"
  /\ phase = "done" /\ IsCut => \A k \in 0..node.out - 1 : drive[k] = Sum(k + 1)
  /\ Rippling =>
       /\ \A i \in 0..index - 1 : drive[OutputFor(i)] = Sum(i)
       /\ \A k \in DOMAIN drive :
            drive[k].of = "sum" => \E i \in 0..index - 1 : k = OutputFor(i)

ChainInv ==
  TypeOK /\ StageInv /\ NodeInv /\ LayoutInv /\ CarryInv /\ RippleInv /\ DriveInv

-----------------------------------------------------------------------------
(* The arithmetic of slices.                                               *)

LEMMA Division ==
  ASSUME NEW n \in Nat, NEW s \in Nat \ {0}
  PROVE  /\ n \div s \in Nat /\ n % s \in 0..s - 1
         /\ n = s * (n \div s) + (n % s)
<1>1. n \div s \in Int /\ n % s \in 0..s - 1
  BY SMT
<1>2. n = s * (n \div s) + (n % s)
  <2>1. n \in Int /\ s \in Int /\ s > 0
    OBVIOUS
  <2> QED
    BY <2>1, Z3
<1>3. n \div s \in Nat
  BY SMT
<1> QED
  BY <1>1, <1>2, <1>3

LEMMA JobFacts == TypeOK => IsJob(job)
  BY JobsAssumption DEF TypeOK

(***************************************************************************)
(* There are enough slices for the dummy and every bit of both operands,   *)
(* and for the carry of an addition; only the last one may be empty.       *)
(***************************************************************************)
LEMMA SlicesEnough ==
  ASSUME TypeOK, NEW w \in Nat \ {0}
  PROVE  /\ SlicesFor(w) \in Nat \ {0} /\ SlicesFor(w) * S > w
         /\ ~IsSub => SlicesFor(w) * S > w + 1 /\ (SlicesFor(w) - 1) * S <= w + 1
<1> DEFINE q == (w + 1) \div S
           r == (w + 1) % S
<1>1. S \in Nat \ {0}
  BY JobFacts DEF IsJob, S
<1>2. q \in Nat /\ r \in 0..S - 1 /\ w + 1 = S * q + r
  <2>1. w + 1 \in Nat
    OBVIOUS
  <2> QED
    BY <1>1, <2>1, Division, Zenon
<1>3. (q + 1) * S = S * q + S /\ q * S = S * q
  BY <1>1, <1>2
<1>4. SlicesFor(w) = IF IsSub /\ r = 0 THEN q ELSE q + 1
  BY DEF SlicesFor
<1> HIDE DEF q, r
<1>5. CASE IsSub /\ r = 0
  <2>1. q # 0
    BY <1>1, <1>2, <1>5
  <2> QED
    BY <1>1, <1>2, <1>3, <1>4, <1>5, <2>1
<1>6. CASE ~(IsSub /\ r = 0)
  <2>1. SlicesFor(w) = q + 1
    BY <1>4, <1>6
  <2>2. SlicesFor(w) * S > w + 1 \/ SlicesFor(w) * S = w + 1
    BY <1>1, <1>2, <1>3, <2>1
  <2>3. SlicesFor(w) * S > w + 1
    BY <1>1, <1>2, <1>3, <2>1
  <2>4. (SlicesFor(w) - 1) * S <= w + 1
    BY <1>1, <1>2, <1>3, <2>1
  <2> QED
    BY <1>1, <1>2, <2>1, <2>3, <2>4
<1> QED
  BY <1>5, <1>6

-----------------------------------------------------------------------------
(* Types.                                                                  *)

Slice == [a : [0..SliceWidth - 1 -> Sources], b : [0..SliceWidth - 1 -> Sources],
          cin : Sources]

LEMMA Constants ==
  /\ Open \in Sources /\ Gnd \in Sources /\ Vcc \in Sources /\ Pad \in Sources
  /\ \A n \in Nat : Cout(n) \in Sources /\ Sum(n) \in Sources
  BY DEF Open, Gnd, Vcc, Pad, Cout, Sum, Source, Sources

LEMMA Pins ==
  ASSUME NEW k \in Nat
  PROVE  PinA(k) \in Sources /\ PinB(k) \in Sources /\ Invert(PinB(k)) \in Sources
  BY DEF PinA, PinB, Pin, Pad, Invert, Source, Sources

LEMMA Sizes ==
  ASSUME TypeOK
  PROVE  /\ S \in Nat \ {0} /\ SliceWidth \in Nat \ {0}
         /\ Width \in Nat \ {0} /\ Width >= node.a /\ Width >= node.b
         /\ Width \in {node.a, node.b}
         /\ IsCut => SliceWidth = S
         /\ ~IsCut => SliceWidth = 1
<1>1. S \in Nat \ {0}
  BY JobFacts DEF IsJob, S
<1>2. node.a \in Nat \ {0} /\ node.b \in Nat \ {0}
  BY DEF TypeOK
<1> QED
  BY <1>1, <1>2 DEF SliceWidth, Width, Larger

LEMMA Mapped ==
  ASSUME NEW T, NEW U, NEW s \in Seq(T), NEW t \in [DOMAIN s -> U]
  PROVE  t \in Seq(U) /\ Len(t) = Len(s)
  OBVIOUS

LEMMA SlicesExist ==
  ASSUME TypeOK
  PROVE  /\ Count \in Nat \ {0} /\ Count * S > Width
         /\ ~IsSub => Count * S > Width + 1 /\ (Count - 1) * S <= Width + 1
<1> DEFINE m == SlicesFor(node.a)
           n == SlicesFor(node.b)
<1>1. node.a \in Nat \ {0} /\ node.b \in Nat \ {0}
  BY DEF TypeOK
<1>2. /\ m \in Nat \ {0} /\ m * S > node.a
      /\ ~IsSub => m * S > node.a + 1 /\ (m - 1) * S <= node.a + 1
  BY <1>1, SlicesEnough
<1>3. /\ n \in Nat \ {0} /\ n * S > node.b
      /\ ~IsSub => n * S > node.b + 1 /\ (n - 1) * S <= node.b + 1
  BY <1>1, SlicesEnough
<1>4. S \in Nat \ {0} /\ Width \in {node.a, node.b} /\ Width >= node.a /\ Width >= node.b
  BY Sizes
<1> HIDE DEF m, n
<1>5. Count \in {m, n} /\ Count >= m /\ Count >= n
  BY <1>2, <1>3 DEF Count, Larger, m, n
<1>6. Count * S >= m * S /\ Count * S >= n * S
  BY <1>2, <1>3, <1>4, <1>5
<1>7. Count * S \in Nat /\ m * S \in Nat /\ n * S \in Nat
  BY <1>2, <1>3, <1>4, <1>5
<1>8. Count * S > Width
  BY <1>1, <1>2, <1>3, <1>4, <1>6, <1>7
<1>9. ~IsSub => Count * S > Width + 1
  BY <1>1, <1>2, <1>3, <1>4, <1>6, <1>7
<1>10. ASSUME ~IsSub
       PROVE  (Count - 1) * S <= Width + 1
  <2>1. (m - 1) * S <= node.a + 1 /\ (n - 1) * S <= node.b + 1
    BY <1>2, <1>3, <1>10
  <2>2. (Count - 1) * S <= node.a + 1 \/ (Count - 1) * S <= node.b + 1
    BY <1>5, <2>1
  <2>3. (Count - 1) * S \in Int
    BY <1>2, <1>3, <1>4, <1>5
  <2> QED
    BY <1>1, <1>4, <2>2, <2>3
<1> QED
  BY <1>2, <1>3, <1>5, <1>8, <1>9, <1>10

TypeInv == TypeOK /\ StageInv

LEMMA TypeInit == Init => TypeInv
<1> SUFFICES ASSUME Init PROVE TypeInv
  OBVIOUS
<1>1. IsJob(job)
  BY JobsAssumption DEF Init
<1>2. job.a \in Nat \ {0} /\ job.b \in Nat \ {0} /\ job.y \in Nat \ {0}
  BY <1>1 DEF IsJob
<1>3. node \in [ports : {2, 3}, a : Nat \ {0}, b : Nat \ {0}, out : Nat \ {0},
                live_a : Nat, live_b : Nat]
      /\ node.live_a <= node.a /\ node.live_b <= node.b /\ node.out = job.y
  BY <1>2 DEF Init
<1>4. drive \in [0..Larger(node.out, job.y) - 1 -> Sources]
  BY <1>2, <1>3, Constants DEF Init, Larger
<1>5. slices \in Seq([a : [0..SliceWidth - 1 -> Sources], b : [0..SliceWidth - 1 -> Sources],
                      cin : Sources])
  BY DEF Init
<1>6. phase \in {"resolve", "list"} /\ index = 0 /\ slices = <<>> /\ job \in Jobs
  BY DEF Init
<1>7. index \in 0..node.out
  BY <1>3, <1>6
<1> QED
  BY <1>3, <1>4, <1>5, <1>6, <1>7 DEF TypeInv, TypeOK, StageInv, Cutting, Phases

(* Steps that leave the node alone leave the shape of a slice alone.       *)
LEMMA SameNode ==
  ASSUME UNCHANGED <<job, node>>
  PROVE  /\ IsCut' = IsCut /\ S' = S /\ SliceWidth' = SliceWidth /\ Slice' = Slice
         /\ IsSub' = IsSub /\ Width' = Width /\ Count' = Count
         /\ \A k : PinA(k)' = PinA(k) /\ PinB(k)' = PinB(k)
         /\ \A k : Operand2(k)' = Operand2(k) /\ OutputFor(k)' = OutputFor(k)
<1>1. IsCut' = IsCut /\ S' = S /\ IsSub' = IsSub /\ Width' = Width
  BY DEF IsCut, S, IsSub, Width
<1>2. SliceWidth' = SliceWidth /\ Slice' = Slice
  BY <1>1 DEF SliceWidth, Slice
<1>3. Count' = Count
  BY <1>1 DEF Count, SlicesFor
<1>4. \A k : PinA(k)' = PinA(k) /\ PinB(k)' = PinB(k)
  BY DEF PinA, PinB
<1>5. \A k : Operand2(k)' = Operand2(k)
  BY <1>1, <1>4 DEF Operand2
<1>6. \A k : OutputFor(k)' = OutputFor(k)
  BY <1>1 DEF OutputFor
<1> QED
  BY <1>1, <1>2, <1>3, <1>4, <1>5, <1>6

(* What is left of the type invariant when a step rewrites the slices only. *)
LEMMA SlicesOnly ==
  ASSUME TypeInv, UNCHANGED <<job, node, drive, index>>, slices' \in Seq(Slice), IsCut,
         phase \in {"list", "invert", "start", "fill", "link"},
         phase' \in {"invert", "start", "fill", "link", "remap"}, Len(slices') = Count
  PROVE  TypeInv'
<1>1. Slice' = Slice /\ SliceWidth' = SliceWidth /\ IsCut' /\ Count' = Count
  BY SameNode
<1>2. slices' \in Seq([a : [0..SliceWidth - 1 -> Sources], b : [0..SliceWidth - 1 -> Sources],
                       cin : Sources])'
  BY <1>1 DEF Slice
<1>3. index = 0
  BY DEF TypeInv, StageInv
<1>4. TypeOK'
  BY <1>2 DEF TypeInv, TypeOK, Phases
<1>5. StageInv'
  BY <1>1, <1>3 DEF StageInv, Cutting
<1> QED
  BY <1>4, <1>5 DEF TypeInv

LEMMA TypeNext == TypeInv /\ [Next]_vars => TypeInv'
<1> SUFFICES ASSUME TypeInv, [Next]_vars PROVE TypeInv'
  OBVIOUS
<1> USE DEF TypeInv
<1>a. TypeOK /\ IsJob(job)
  BY JobFacts
<1>b. slices \in Seq(Slice)
  BY DEF TypeOK, Slice
<1>c. /\ job.a \in Nat \ {0} /\ job.b \in Nat \ {0} /\ job.y \in Nat \ {0}
      /\ node.a \in Nat \ {0} /\ node.b \in Nat \ {0} /\ node.out \in Nat \ {0}
      /\ node.live_a \in Nat /\ node.live_b \in Nat
  BY <1>a DEF IsJob, TypeOK
<1>1. CASE ResolveAdd
  <2>1. Width + 1 \in Nat \ {0}
    BY Sizes
  <2>2. node' \in [ports : {2, 3}, a : Nat \ {0}, b : Nat \ {0}, out : Nat \ {0},
                   live_a : Nat, live_b : Nat]
        /\ node'.live_a <= node'.a /\ node'.live_b <= node'.b
    BY <1>1, <2>1 DEF ResolveAdd, SumWidth, TypeOK
  <2>3. drive' \in [0..Larger(node'.out, job.y) - 1 -> Sources]
    <3>1. CASE job.hard
      <4>1. node'.out = Width + 1 /\ drive' = NewOutputs(Width + 1, Gnd)
        BY <1>1, <3>1 DEF ResolveAdd, SumWidth, TypeOK
      <4> QED
        BY <4>1, Constants DEF NewOutputs
    <3>2. CASE ~job.hard
      BY <1>1, <3>2 DEF ResolveAdd, TypeOK
    <3> QED
      BY <3>1, <3>2
  <2>4. slices' = <<>> /\ index' = 0 /\ phase' = "list" /\ job' = job
    BY <1>1 DEF ResolveAdd, StageInv
  <2>5. TypeOK'
    BY <1>c, <2>2, <2>3, <2>4 DEF TypeOK, Phases
  <2> QED
    BY <2>4, <2>5 DEF StageInv, Cutting
<1>2. CASE ResolveSub
  <2> DEFINE live_a == job.a - job.ext_a
             live_b == job.b - job.ext_b
             w == Larger(live_a, live_b)
  <2>1. live_a \in Nat \ {0} /\ live_b \in Nat \ {0}
    BY <1>a DEF IsJob
  <2>2. w \in Nat \ {0} /\ live_a <= w /\ live_b <= w
    BY <2>1 DEF Larger
  <2>3. node' = [ports |-> 2, a |-> w, b |-> w, out |-> w, live_a |-> live_a, live_b |-> live_b]
        /\ drive' = NewOutputs(w, Pad)
    BY <1>2 DEF ResolveSub
  <2>4. slices' = <<>> /\ index' = 0 /\ phase' = "list" /\ job' = job
    BY <1>2 DEF ResolveSub, StageInv
  <2> HIDE DEF live_a, live_b, w
  <2>5. node' \in [ports : {2, 3}, a : Nat \ {0}, b : Nat \ {0}, out : Nat \ {0},
                   live_a : Nat, live_b : Nat]
        /\ node'.live_a <= node'.a /\ node'.live_b <= node'.b /\ node'.out = w
    BY <2>1, <2>2, <2>3
  <2>6. drive' \in [0..Larger(node'.out, job.y) - 1 -> Sources]
    BY <2>3, <2>5, Constants DEF NewOutputs
  <2>7. TypeOK'
    BY <1>c, <2>2, <2>4, <2>5, <2>6 DEF TypeOK, Phases
  <2> QED
    BY <2>4, <2>7 DEF StageInv, Cutting
<1>3. CASE CutNode
  <2>1. SliceWidth = S /\ S \in Nat \ {0} /\ Count \in Nat \ {0}
    BY <1>3, Sizes, SlicesExist DEF CutNode
  <2>2. \A i \in 1..Count, j \in 0..S - 1 :
          (i - 1) * S + j \in Nat
    BY <2>1
  <2>3. \A i \in 1..Count, j \in 0..S - 1 :
          OperandSource(i - 1, j, node.a, PinA((i - 1) * S + j - 1)) \in Sources
    BY <1>c, <2>1, <2>2, Pins, Constants DEF OperandSource
  <2>4. \A i \in 1..Count, j \in 0..S - 1 :
          OperandSource(i - 1, j, node.b, PinB((i - 1) * S + j - 1)) \in Sources
    BY <1>c, <2>1, <2>2, Pins, Constants DEF OperandSource
  <2> DEFINE slice(i) ==
        [a |-> [j \in 0..S - 1 |-> OperandSource(i - 1, j, node.a, PinA((i - 1) * S + j - 1))],
         b |-> [j \in 0..S - 1 |->
                  IF IsSub THEN Open
                  ELSE OperandSource(i - 1, j, node.b, PinB((i - 1) * S + j - 1))],
         cin |-> Open]
  <2>5. \A i \in 1..Count : slice(i) \in Slice
    BY <2>1, <2>3, <2>4, Constants DEF Slice
  <2>6. slices' = [i \in 1..Count |-> slice(i)]
    BY <1>3 DEF CutNode
  <2> HIDE DEF slice
  <2>7. slices' \in Seq(Slice) /\ Len(slices') = Count
    BY <2>1, <2>5, <2>6
  <2>8. /\ UNCHANGED <<job, node, drive, index>> /\ IsCut /\ phase = "list"
        /\ phase' \in {"invert", "start"}
    BY <1>3 DEF CutNode
  <2> QED
    BY <2>7, <2>8, SlicesOnly
<1>4. CASE ConnectInverters
  <2>1. IsCut /\ phase = "invert" /\ phase' = "start" /\ UNCHANGED <<job, node, drive, index>>
    BY <1>4 DEF ConnectInverters, StageInv
  <2>2. SliceWidth = S /\ S \in Nat \ {0}
    BY <2>1, Sizes
  <2>3. \A i \in DOMAIN slices, j \in 0..S - 1 : Inverter(i - 1, j) \in Sources
    <3> SUFFICES ASSUME NEW i \in DOMAIN slices, NEW j \in 0..S - 1
                 PROVE  Inverter(i - 1, j) \in Sources
      OBVIOUS
    <3>1. i \in Nat \ {0}
      BY <1>b
    <3> DEFINE p == (i - 1) * S + j
    <3>2. p \in Nat
      BY <2>2, <3>1
    <3>3. Inverter(i - 1, j) = IF p \in 1..node.b THEN Invert(PinB(p - 1)) ELSE Open
      <4>1. (i - 1) * S + j - 1 = p - 1
        BY <2>2, <3>1
      <4> QED
        BY <4>1 DEF Inverter
    <3> HIDE DEF p
    <3>4. p \in 1..node.b => p - 1 \in Nat
      BY <1>c, <3>2
    <3> QED
      BY <3>3, <3>4, Pins, Constants
  <2> DEFINE bits(i) == [j \in 0..S - 1 |-> Inverter(i - 1, j)]
  <2>4. \A i \in DOMAIN slices : slices[i] \in Slice /\ bits(i) \in [0..S - 1 -> Sources]
    BY <1>b, <2>3
  <2>5. slices' = [i \in DOMAIN slices |-> [slices[i] EXCEPT !.b = bits(i)]]
    BY <1>4 DEF ConnectInverters
  <2> HIDE DEF bits
  <2>6. \A i \in DOMAIN slices : slices'[i] \in Slice
    BY <2>2, <2>4, <2>5 DEF Slice
  <2>7. slices' \in Seq(Slice) /\ Len(slices') = Len(slices)
    <3>1. slices' \in [DOMAIN slices -> Slice]
      BY <2>5, <2>6
    <3> QED
      BY <1>b, <3>1, Mapped
  <2> QED
    BY <2>1, <2>7, SlicesOnly DEF StageInv, Cutting
<1>5. CASE StartChain
  <2>1. IsCut /\ phase = "start" /\ phase' = "fill" /\ UNCHANGED <<job, node, drive, index>>
    BY <1>5 DEF StartChain, StageInv
  <2> DEFINE as(i) ==
        [slices[i].a EXCEPT ![0] = FirstInput(i, IF IsSub THEN Gnd ELSE Vcc, @)]
             bs(i) ==
        [slices[i].b EXCEPT ![0] = FirstInput(i, IF IsSub THEN Vcc ELSE Gnd, @)]
             cs(i) ==
        IF i # 1 THEN slices[i].cin ELSE IF node.ports = 3 THEN Gnd ELSE Pad
  <2>2. \A i \in DOMAIN slices : slices[i] \in Slice
    BY <1>b
  <2>3. SliceWidth = S /\ S \in Nat \ {0}
    BY <2>1, Sizes
  <2>4. ASSUME NEW i \in DOMAIN slices
        PROVE  as(i) \in [0..S - 1 -> Sources] /\ bs(i) \in [0..S - 1 -> Sources]
               /\ cs(i) \in Sources
    <3>1. slices[i].a \in [0..S - 1 -> Sources] /\ slices[i].b \in [0..S - 1 -> Sources]
          /\ slices[i].cin \in Sources
      BY <2>2, <2>3 DEF Slice
    <3>2. \A old \in Sources, dummy \in {Gnd, Vcc} : FirstInput(i, dummy, old) \in Sources
      BY Constants DEF FirstInput
    <3>3. slices[i].a[0] \in Sources /\ slices[i].b[0] \in Sources
      BY <2>3, <3>1
    <3> QED
      BY <3>1, <3>2, <3>3, Constants
  <2>5. slices' = [i \in DOMAIN slices |-> [a |-> as(i), b |-> bs(i), cin |-> cs(i)]]
    BY <1>5 DEF StartChain
  <2> HIDE DEF as, bs, cs
  <2>6. \A i \in DOMAIN slices : slices'[i] \in Slice
    BY <2>3, <2>4, <2>5 DEF Slice
  <2>7. slices' \in Seq(Slice) /\ Len(slices') = Len(slices)
    <3>1. slices' \in [DOMAIN slices -> Slice]
      BY <2>5, <2>6
    <3> QED
      BY <1>b, <3>1, Mapped
  <2> QED
    BY <2>1, <2>7, SlicesOnly DEF StageInv, Cutting
<1>6. CASE FillOpen
  <2>1. IsCut /\ phase = "fill" /\ phase' = "link" /\ UNCHANGED <<job, node, drive, index>>
    BY <1>6 DEF FillOpen, StageInv
  <2>2. SliceWidth = S /\ S \in Nat \ {0}
    BY <2>1, Sizes
  <2> DEFINE as(i) == [j \in 0..S - 1 |-> IF slices[i].a[j] = Open THEN Filler(i - 1, j)
                                         ELSE slices[i].a[j]]
             bs(i) == [j \in 0..S - 1 |-> IF slices[i].b[j] = Open THEN Filler(i - 1, S + j)
                                         ELSE slices[i].b[j]]
  <2>3. \A i \in DOMAIN slices :
          slices[i] \in Slice /\ as(i) \in [0..S - 1 -> Sources] /\ bs(i) \in [0..S - 1 -> Sources]
    <3>1. \A i \in DOMAIN slices : slices[i] \in Slice
      BY <1>b
    <3>2. \A i, j : Filler(i, j) \in Sources
      BY Constants DEF Filler
    <3> QED
      BY <2>2, <3>1, <3>2 DEF Slice
  <2>4. slices' = [i \in DOMAIN slices |-> [slices[i] EXCEPT !.a = as(i), !.b = bs(i)]]
    BY <1>6 DEF FillOpen
  <2> HIDE DEF as, bs
  <2>5. \A i \in DOMAIN slices : slices'[i] \in Slice
    BY <2>2, <2>3, <2>4 DEF Slice
  <2>6. slices' \in Seq(Slice) /\ Len(slices') = Len(slices)
    <3>1. slices' \in [DOMAIN slices -> Slice]
      BY <2>4, <2>5
    <3> QED
      BY <1>b, <3>1, Mapped
  <2> QED
    BY <2>1, <2>6, SlicesOnly DEF StageInv, Cutting
<1>7. CASE LinkCarry
  <2>1. IsCut /\ phase = "link" /\ phase' = "remap" /\ UNCHANGED <<job, node, drive, index>>
    BY <1>7 DEF LinkCarry, StageInv
  <2>2. \A i \in DOMAIN slices : slices[i] \in Slice /\ CarryIn(i) \in Sources
    <3>1. \A i \in DOMAIN slices : slices[i] \in Slice /\ i \in Nat \ {0}
      BY <1>b
    <3>2. \A i \in Nat \ {0} : i # 1 => i - 2 \in Nat
      OBVIOUS
    <3> QED
      BY <3>1, <3>2, Constants DEF Slice, CarryIn
  <2>3. slices' = [i \in DOMAIN slices |-> [slices[i] EXCEPT !.cin = CarryIn(i)]]
    BY <1>7 DEF LinkCarry
  <2>4. \A i \in DOMAIN slices : slices'[i] \in Slice
    BY <2>2, <2>3 DEF Slice
  <2>5. slices' \in Seq(Slice) /\ Len(slices') = Len(slices)
    <3>1. slices' \in [DOMAIN slices -> Slice]
      BY <2>3, <2>4
    <3> QED
      BY <1>b, <3>1, Mapped
  <2> QED
    BY <2>1, <2>5, SlicesOnly DEF StageInv, Cutting
<1>8. CASE RemapOutputs
  <2>1. phase = "remap" /\ phase' \in {"done", "overrun"} /\ UNCHANGED <<job, node, slices, index>>
    BY <1>8 DEF RemapOutputs
  <2>2. drive' \in [0..Larger(node.out, job.y) - 1 -> Sources]
    <3>1. drive \in [0..Larger(node.out, job.y) - 1 -> Sources]
      BY DEF TypeOK
    <3>2. 0..Larger(node.out, job.y) - 1 \subseteq Nat
      OBVIOUS
    <3>3. \A k \in Nat : k + 1 \in Nat
      OBVIOUS
    <3> QED
      BY <1>8, <3>1, <3>2, <3>3, Constants DEF RemapOutputs
  <2>3. SliceWidth' = SliceWidth /\ Count' = Count /\ IsCut' = IsCut
    BY <2>1, SameNode
  <2>4. TypeOK'
    BY <2>1, <2>2, <2>3 DEF TypeOK, Phases
  <2> QED
    BY <2>1, <2>3, <2>4 DEF StageInv, Cutting
<1>9. CASE LeaveNode
  <2>1. /\ phase = "list" /\ phase' = "ripple" /\ ~IsCut /\ index = 0
        /\ UNCHANGED <<job, node, slices, drive, index>>
    BY <1>9 DEF LeaveNode, StageInv
  <2>2. SliceWidth' = SliceWidth /\ IsCut' = IsCut
    BY <2>1, SameNode
  <2>3. TypeOK'
    BY <2>1, <2>2 DEF TypeOK, Phases
  <2> QED
    BY <1>c, <2>1, <2>2, <2>3 DEF StageInv, Cutting
<1>10. CASE RippleBit
  <2>1. /\ phase = "ripple" /\ UNCHANGED <<job, node>> /\ ~IsCut /\ index < node.out
        /\ index' = index + 1 /\ index \in Nat
        /\ phase' = IF index + 1 = node.out THEN "done" ELSE "ripple"
    BY <1>10 DEF RippleBit, StageInv, TypeOK
  <2>2. SliceWidth' = SliceWidth /\ IsCut' = IsCut /\ SliceWidth = 1 /\ Slice' = Slice
    BY <2>1, SameNode, Sizes
  <2>3. slices' \in Seq(Slice)
    <3> DEFINE missing == IF IsSub THEN Vcc ELSE Gnd
               bit == IF index < node.b THEN PinB(index) ELSE missing
               one == IF index < node.a THEN PinA(index) ELSE Gnd
               two == IF IsSub /\ index < node.b THEN Invert(bit) ELSE bit
               carry == IF index = 0 THEN FirstCarry ELSE Cout(index - 1)
    <3>1. one \in Sources /\ two \in Sources
      BY <2>1, Pins, Constants
    <3>2. carry \in Sources
      BY <2>1, Constants DEF FirstCarry
    <3>3. slices' = Append(slices, [a |-> [j \in {0} |-> one], b |-> [j \in {0} |-> two],
                                    cin |-> carry])
      BY <1>10 DEF RippleBit
    <3> HIDE DEF one, two, carry
    <3>4. 0..SliceWidth - 1 = {0}
      BY <2>2
    <3>5. [a |-> [j \in {0} |-> one], b |-> [j \in {0} |-> two], cin |-> carry] \in Slice
      BY <3>1, <3>2, <3>4 DEF Slice
    <3> QED
      BY <1>b, <3>3, <3>5
  <2>4. drive' \in [0..Larger(node.out, job.y) - 1 -> Sources]
    <3>1. drive' = [drive EXCEPT ![OutputFor(index)] = Sum(index)]
      BY <1>10 DEF RippleBit
    <3> QED
      BY <2>1, <3>1, Constants DEF TypeOK
  <2>5. slices' \in Seq([a : [0..SliceWidth - 1 -> Sources], b : [0..SliceWidth - 1 -> Sources],
                         cin : Sources])'
    BY <2>2, <2>3 DEF Slice
  <2>6. index' \in 0..node'.out /\ phase' \in Phases
    BY <1>c, <2>1 DEF Phases
  <2>7. TypeOK'
    BY <2>1, <2>4, <2>5, <2>6 DEF TypeOK
  <2>8. StageInv'
    BY <1>c, <2>1, <2>2 DEF StageInv, Cutting
  <2> QED
    BY <2>7, <2>8
<1>11. CASE UNCHANGED vars
  BY <1>11, SameNode DEF vars, TypeOK, StageInv, Cutting
<1> QED
  BY <1>1, <1>2, <1>3, <1>4, <1>5, <1>6, <1>7, <1>8, <1>9, <1>10, <1>11 DEF Next

(***************************************************************************)
(* TypeOK holds for every width and every hard adder: no step reads or     *)
(* writes past a port, and the soft adder stops at the last output.        *)
(***************************************************************************)
THEOREM TypeCorrect == Spec => []TypeOK
<1>1. TypeInv => TypeOK
  BY DEF TypeInv
<1> QED
  BY <1>1, TypeInit, TypeNext, PTL DEF Spec

-----------------------------------------------------------------------------
(* Where the operand bits are.                                             *)

LEMMA CutShape ==
  ASSUME TypeInv, Cutting
  PROVE  /\ IsCut /\ DOMAIN slices = 1..Count /\ Len(slices) = Count
         /\ Count \in Nat \ {0} /\ S \in Nat \ {0}
         /\ \A i \in 1..Count : slices[i] \in Slice
         /\ \A i \in 1..Count : slices[i].a \in [0..S - 1 -> Sources]
                             /\ slices[i].b \in [0..S - 1 -> Sources]
         /\ SliceWidth = S
<1>1. IsCut /\ Len(slices) = Count /\ TypeOK
  BY DEF TypeInv, StageInv, Cutting
<1>2. SliceWidth = S /\ Count \in Nat \ {0} /\ S \in Nat \ {0}
  BY <1>1, Sizes, SlicesExist
<1>3. slices \in Seq(Slice)
  BY <1>1 DEF TypeOK, Slice
<1>4. DOMAIN slices = 1..Count
  BY <1>1, <1>3
<1>5. \A i \in 1..Count : slices[i] \in Slice
  <2>1. \A i \in DOMAIN slices : slices[i] \in Slice
    BY <1>3
  <2> QED
    BY <1>4, <2>1
<1> QED
  BY <1>1, <1>2, <1>4, <1>5 DEF Slice

(* The last slice is given grounds only where no operand reaches.          *)
LEMMA LastSlice ==
  ASSUME TypeOK, LastIsEmpty
  PROVE  (Count - 1) * S > node.a /\ (Count - 1) * S > node.b
<1>1. S \in Nat \ {0} /\ node.a \in Nat \ {0} /\ node.b \in Nat \ {0}
  BY Sizes DEF TypeOK
<1>2. ASSUME NEW w \in Nat \ {0}, (w + 1) % S = 0
      PROVE  SlicesFor(w) \in Nat \ {0} /\ (SlicesFor(w) - 1) * S = w + 1
  <2> DEFINE q == (w + 1) \div S
             r == (w + 1) % S
  <2>1. q \in Nat /\ w + 1 = S * q + r
    <3>1. w + 1 \in Nat
      OBVIOUS
    <3> QED
      BY <1>1, <3>1, Division, Zenon
  <2>2. SlicesFor(w) = q + 1
    BY DEF SlicesFor, LastIsEmpty
  <2>3. r = 0
    BY <1>2
  <2> HIDE DEF q, r
  <2> QED
    BY <1>1, <2>1, <2>2, <2>3
<1> DEFINE m == SlicesFor(node.a)
           n == SlicesFor(node.b)
<1>3. m \in Nat \ {0} /\ (m - 1) * S = node.a + 1 /\ n \in Nat \ {0} /\ (n - 1) * S = node.b + 1
  BY <1>1, <1>2 DEF LastIsEmpty
<1> HIDE DEF m, n
<1>4. Count \in {m, n} /\ Count >= m /\ Count >= n
  BY <1>3 DEF Count, Larger, m, n
<1>5. (Count - 1) * S >= (m - 1) * S /\ (Count - 1) * S >= (n - 1) * S
  BY <1>1, <1>3, <1>4
<1>6. (Count - 1) * S \in Int
  BY <1>1, <1>3, <1>4
<1> QED
  BY <1>1, <1>3, <1>5, <1>6

LEMMA NotOpen ==
  ASSUME NEW k
  PROVE  PinA(k) # Open /\ PinB(k) # Open /\ Operand2(k) # Open
         /\ Gnd # Open /\ Vcc # Open /\ Pad # Open
  BY DEF PinA, PinB, Pin, Operand2, Invert, Source, Open, Gnd, Vcc, Pad

(* What LayoutInv says of one position.                                    *)
Layout(i, j) ==
  LET p == (i - 1) * S + j
  IN  /\ IF p \in 1..node.a THEN slices[i].a[j] = PinA(p - 1)
                            ELSE slices[i].a[j] \in Rest
      /\ IF phase # "invert" /\ p \in 1..node.b
           THEN slices[i].b[j] = Operand2(p - 1)
           ELSE slices[i].b[j] \in Rest

LEMMA LayoutNext == ChainInv /\ TypeInv' /\ [Next]_vars => LayoutInv'
<1> SUFFICES ASSUME ChainInv, TypeInv', [Next]_vars, Cutting'
             PROVE  /\ (phase = "invert" => IsSub)'
                    /\ \A i \in 1..Count', j \in 0..S' - 1 : Layout(i, j)'
  BY DEF LayoutInv, Layout
<1>a. TypeInv /\ TypeOK
  BY DEF ChainInv, TypeInv
<1>b. ASSUME Cutting
      PROVE  /\ phase = "invert" => IsSub
             /\ \A i \in 1..Count, j \in 0..S - 1 : Layout(i, j)
  BY <1>b DEF ChainInv, LayoutInv, Layout
<1>1. CASE CutNode
  <2>1. /\ UNCHANGED <<job, node>> /\ IsCut /\ phase = "list"
        /\ phase' = IF IsSub THEN "invert" ELSE "start"
    BY <1>1 DEF CutNode
  <2>2. /\ Count' = Count /\ S' = S /\ IsSub' = IsSub
        /\ \A k : PinA(k)' = PinA(k) /\ PinB(k)' = PinB(k) /\ Operand2(k)' = Operand2(k)
    BY <2>1, SameNode
  <2>3. S \in Nat \ {0} /\ Count \in Nat \ {0}
    BY <1>a, Sizes, SlicesExist
  <2>4. Rest' = {Open}
    BY <2>1 DEF Rest
  <2>5. ASSUME NEW i \in 1..Count, NEW j \in 0..S - 1
        PROVE  Layout(i, j)'
    <3> DEFINE p == (i - 1) * S + j
    <3>1. (i - 1) * S + j - 1 = p - 1
      BY <2>3
    <3>2. slices'[i].a[j] = OperandSource(i - 1, j, node.a, PinA(p - 1))
      BY <1>1, <3>1 DEF CutNode
    <3>3. slices'[i].b[j] = IF IsSub THEN Open
                            ELSE OperandSource(i - 1, j, node.b, PinB(p - 1))
      BY <1>1, <3>1 DEF CutNode
    <3>4. slices'[i].a[j] = IF p \in 1..node.a THEN PinA(p - 1) ELSE Open
      BY <3>2 DEF OperandSource
    <3>5. slices'[i].b[j] = IF ~IsSub /\ p \in 1..node.b THEN PinB(p - 1) ELSE Open
      BY <3>3 DEF OperandSource
    <3>6. ~IsSub => Operand2(p - 1) = PinB(p - 1)
      BY DEF Operand2
    <3>7. Layout(i, j)' =
            (/\ IF p \in 1..node.a THEN slices'[i].a[j] = PinA(p - 1)
                                   ELSE slices'[i].a[j] \in Rest'
             /\ IF phase' # "invert" /\ p \in 1..node.b
                  THEN slices'[i].b[j] = Operand2(p - 1)
                  ELSE slices'[i].b[j] \in Rest')
      BY <2>1, <2>2 DEF Layout
    <3> HIDE DEF p
    <3> QED
      BY <2>1, <2>4, <3>4, <3>5, <3>6, <3>7
  <2> QED
    BY <2>1, <2>2, <2>5
<1>2. CASE ConnectInverters
  <2>1. UNCHANGED <<job, node>> /\ phase = "invert" /\ phase' = "start" /\ Cutting
    BY <1>2 DEF ConnectInverters, Cutting
  <2>2. /\ Count' = Count /\ S' = S /\ IsSub' = IsSub
        /\ \A k : PinA(k)' = PinA(k) /\ Operand2(k)' = Operand2(k)
    BY <2>1, SameNode
  <2>3. IsSub /\ DOMAIN slices = 1..Count /\ S \in Nat \ {0} /\ Count \in Nat \ {0}
    BY <1>a, <1>b, <2>1, CutShape
  <2>4. Rest' = {Open} /\ Rest = {Open}
    BY <2>1 DEF Rest
  <2>5. ASSUME NEW i \in 1..Count, NEW j \in 0..S - 1
        PROVE  Layout(i, j)'
    <3> DEFINE p == (i - 1) * S + j
    <3>1. (i - 1) * S + j - 1 = p - 1
      BY <2>3
    <3>2. slices'[i] = [slices[i] EXCEPT !.b = [k \in 0..S - 1 |-> Inverter(i - 1, k)]]
      BY <1>2, <2>3 DEF ConnectInverters
    <3>3. slices'[i].a[j] = slices[i].a[j]
      BY <3>2
    <3>4. slices[i] \in Slice /\ SliceWidth = S
      BY <1>a, <2>1, CutShape
    <3>5. slices'[i].b[j] = Inverter(i - 1, j)
      BY <3>2, <3>4 DEF Slice
    <3>6. slices'[i].b[j] = IF p \in 1..node.b THEN Operand2(p - 1) ELSE Open
      BY <2>3, <3>1, <3>5 DEF Inverter, Operand2
    <3>7. IF p \in 1..node.a THEN slices[i].a[j] = PinA(p - 1) ELSE slices[i].a[j] \in Rest
      BY <1>b, <2>1 DEF Layout
    <3>8. Layout(i, j)' =
            (/\ IF p \in 1..node.a THEN slices'[i].a[j] = PinA(p - 1)
                                   ELSE slices'[i].a[j] \in Rest'
             /\ IF phase' # "invert" /\ p \in 1..node.b
                  THEN slices'[i].b[j] = Operand2(p - 1)
                  ELSE slices'[i].b[j] \in Rest')
      BY <2>1, <2>2 DEF Layout
    <3> HIDE DEF p
    <3> QED
      BY <2>1, <2>4, <3>3, <3>6, <3>7, <3>8
  <2> QED
    BY <2>1, <2>2, <2>5
<1>3. CASE StartChain
  <2>1. UNCHANGED <<job, node>> /\ phase = "start" /\ phase' = "fill" /\ Cutting
    BY <1>3 DEF StartChain, Cutting
  <2>2. /\ Count' = Count /\ S' = S
        /\ \A k : PinA(k)' = PinA(k) /\ Operand2(k)' = Operand2(k)
    BY <2>1, SameNode
  <2>3. DOMAIN slices = 1..Count /\ Len(slices) = Count /\ S \in Nat \ {0} /\ Count \in Nat \ {0}
    BY <1>a, <2>1, CutShape
  <2>4. Rest' = {Open, Gnd, Vcc} /\ Rest = {Open}
    BY <2>1 DEF Rest
  <2>5. ASSUME NEW i \in 1..Count, NEW j \in 0..S - 1
        PROVE  Layout(i, j)'
    <3> DEFINE p == (i - 1) * S + j
               dummyA == IF IsSub THEN Gnd ELSE Vcc
               dummyB == IF IsSub THEN Vcc ELSE Gnd
    <3>1. /\ slices[i].a \in [0..S - 1 -> Sources] /\ slices[i].b \in [0..S - 1 -> Sources]
          /\ dummyA \in {Gnd, Vcc} /\ dummyB \in {Gnd, Vcc}
      BY <1>a, <2>1, CutShape
    <3>2. /\ slices'[i].a = [slices[i].a EXCEPT ![0] = FirstInput(i, dummyA, slices[i].a[0])]
          /\ slices'[i].b = [slices[i].b EXCEPT ![0] = FirstInput(i, dummyB, slices[i].b[0])]
      BY <1>3, <2>3 DEF StartChain
    <3>3. /\ IF p \in 1..node.a THEN slices[i].a[j] = PinA(p - 1) ELSE slices[i].a[j] \in Rest
          /\ IF p \in 1..node.b THEN slices[i].b[j] = Operand2(p - 1)
                                ELSE slices[i].b[j] \in Rest
      BY <1>b, <2>1 DEF Layout
    <3>4. Layout(i, j)' =
            (/\ IF p \in 1..node.a THEN slices'[i].a[j] = PinA(p - 1)
                                   ELSE slices'[i].a[j] \in Rest'
             /\ IF p \in 1..node.b
                  THEN slices'[i].b[j] = Operand2(p - 1)
                  ELSE slices'[i].b[j] \in Rest')
      BY <2>1, <2>2 DEF Layout
    <3>5. ASSUME j = 0, i = 1 \/ (LastIsEmpty /\ i = Len(slices))
          PROVE  p \notin 1..node.a /\ p \notin 1..node.b
      <4>1. p = (i - 1) * S
        BY <2>3, <3>5
      <4>2. CASE i = 1
        BY <2>3, <4>1, <4>2
      <4>3. CASE LastIsEmpty /\ i = Len(slices)
        <5>1. p > node.a /\ p > node.b
          BY <1>a, <2>3, <4>1, <4>3, LastSlice
        <5>2. p \in Int /\ node.a \in Int /\ node.b \in Int
          BY <1>a, <2>3 DEF TypeOK
        <5> QED
          BY <5>1, <5>2
      <4> QED
        BY <3>5, <4>2, <4>3
    <3> HIDE DEF p, dummyA, dummyB
    <3>6. CASE j = 0 /\ (i = 1 \/ (LastIsEmpty /\ i = Len(slices)))
      <4>1. slices'[i].a[j] \in {Gnd, Vcc} /\ slices'[i].b[j] \in {Gnd, Vcc}
        BY <2>3, <3>1, <3>2, <3>6 DEF FirstInput
      <4> QED
        BY <2>4, <3>4, <3>5, <3>6, <4>1
    <3>7. CASE ~(j = 0 /\ (i = 1 \/ (LastIsEmpty /\ i = Len(slices))))
      <4>1. slices'[i].a[j] = slices[i].a[j] /\ slices'[i].b[j] = slices[i].b[j]
        BY <2>3, <3>1, <3>2, <3>7 DEF FirstInput
      <4> QED
        BY <2>4, <3>3, <3>4, <4>1
    <3> QED
      BY <3>6, <3>7
  <2> QED
    BY <2>1, <2>2, <2>5
<1>4. CASE FillOpen
  <2>1. UNCHANGED <<job, node>> /\ phase = "fill" /\ phase' = "link" /\ Cutting
    BY <1>4 DEF FillOpen, Cutting
  <2>2. /\ Count' = Count /\ S' = S
        /\ \A k : PinA(k)' = PinA(k) /\ Operand2(k)' = Operand2(k)
    BY <2>1, SameNode
  <2>3. DOMAIN slices = 1..Count /\ S \in Nat \ {0} /\ Count \in Nat \ {0}
    BY <1>a, <2>1, CutShape
  <2>4. Rest' = {Gnd, Vcc, Pad} /\ Rest = {Open, Gnd, Vcc}
    BY <2>1 DEF Rest
  <2>5. ASSUME NEW i \in 1..Count, NEW j \in 0..S - 1
        PROVE  Layout(i, j)'
    <3> DEFINE p == (i - 1) * S + j
    <3>1. slices[i] \in Slice /\ SliceWidth = S
      BY <1>a, <2>1, CutShape
    <3>2. /\ slices'[i].a[j] =
               IF slices[i].a[j] = Open THEN Filler(i - 1, j) ELSE slices[i].a[j]
          /\ slices'[i].b[j] =
               IF slices[i].b[j] = Open THEN Filler(i - 1, S + j) ELSE slices[i].b[j]
      BY <1>4, <2>3, <3>1 DEF FillOpen, Slice
    <3>3. /\ IF p \in 1..node.a THEN slices[i].a[j] = PinA(p - 1) ELSE slices[i].a[j] \in Rest
          /\ IF p \in 1..node.b THEN slices[i].b[j] = Operand2(p - 1)
                                ELSE slices[i].b[j] \in Rest
      BY <1>b, <2>1 DEF Layout
    <3>4. Layout(i, j)' =
            (/\ IF p \in 1..node.a THEN slices'[i].a[j] = PinA(p - 1)
                                   ELSE slices'[i].a[j] \in Rest'
             /\ IF p \in 1..node.b
                  THEN slices'[i].b[j] = Operand2(p - 1)
                  ELSE slices'[i].b[j] \in Rest')
      BY <2>1, <2>2 DEF Layout
    <3>5. PinA(p - 1) # Open /\ Operand2(p - 1) # Open
      BY NotOpen
    <3>6. \A k, l : Filler(k, l) \in {Gnd, Pad}
      BY DEF Filler
    <3> HIDE DEF p
    <3> QED
      BY <2>4, <3>2, <3>3, <3>4, <3>5, <3>6
  <2> QED
    BY <2>1, <2>2, <2>5
<1>5. CASE LinkCarry
  <2>1. UNCHANGED <<job, node>> /\ phase = "link" /\ phase' = "remap" /\ Cutting
    BY <1>5 DEF LinkCarry, Cutting
  <2>2. /\ Count' = Count /\ S' = S
        /\ \A k : PinA(k)' = PinA(k) /\ Operand2(k)' = Operand2(k)
    BY <2>1, SameNode
  <2>3. DOMAIN slices = 1..Count
    BY <1>a, <2>1, CutShape
  <2>4. Rest' = Rest
    BY <2>1 DEF Rest
  <2>5. ASSUME NEW i \in 1..Count, NEW j \in 0..S - 1
        PROVE  Layout(i, j)'
    <3>1. slices'[i] = [slices[i] EXCEPT !.cin = CarryIn(i)]
      BY <1>5, <2>3 DEF LinkCarry
    <3>2. slices'[i].a[j] = slices[i].a[j] /\ slices'[i].b[j] = slices[i].b[j]
      BY <3>1
    <3> QED
      BY <1>b, <2>1, <2>2, <2>4, <3>2 DEF Layout
  <2> QED
    BY <2>1, <2>2, <2>5
<1>6. CASE RemapOutputs
  <2>1. UNCHANGED <<job, node, slices>> /\ phase = "remap" /\ phase' = "done" /\ Cutting
    BY <1>6 DEF RemapOutputs, Cutting
  <2>2. /\ Count' = Count /\ S' = S
        /\ \A k : PinA(k)' = PinA(k) /\ Operand2(k)' = Operand2(k)
    BY <2>1, SameNode
  <2>3. Rest' = Rest
    BY <2>1 DEF Rest
  <2> QED
    BY <1>b, <2>1, <2>2, <2>3 DEF Layout
<1>7. CASE RippleBit
  <2>1. UNCHANGED <<job, node>> /\ phase = "ripple" /\ phase' \in {"ripple", "done"} /\ ~IsCut
    BY <1>7, <1>a DEF RippleBit, TypeInv, StageInv
  <2> QED
    BY <2>1, SameNode DEF Cutting
<1>8. CASE UNCHANGED vars
  <2>1. UNCHANGED <<job, node, slices, phase>>
    BY <1>8 DEF vars
  <2>2. /\ Count' = Count /\ S' = S /\ IsSub' = IsSub /\ IsCut' = IsCut
        /\ \A k : PinA(k)' = PinA(k) /\ Operand2(k)' = Operand2(k)
    BY <2>1, SameNode
  <2>3. Cutting /\ Rest' = Rest
    BY <2>1, <2>2 DEF Cutting, Rest
  <2> QED
    BY <1>b, <2>1, <2>2, <2>3 DEF Layout
<1>9. CASE ResolveAdd \/ ResolveSub \/ LeaveNode
  BY <1>9 DEF ResolveAdd, ResolveSub, LeaveNode, Cutting
<1> QED
  BY <1>1, <1>2, <1>3, <1>4, <1>5, <1>6, <1>7, <1>8, <1>9 DEF Next

-----------------------------------------------------------------------------
(* Ports and carries.                                                      *)

LEMMA NodeNext == ChainInv /\ [Next]_vars => NodeInv'
<1> SUFFICES ASSUME ChainInv, [Next]_vars PROVE NodeInv'
  OBVIOUS
<1>1. NodeInv /\ TypeOK
  BY DEF ChainInv
<1>2. CASE ResolveAdd
  <2>1. ~IsSub /\ IsSub' = IsSub /\ phase' = "list" /\ job' = job
    BY <1>2 DEF ResolveAdd, IsSub
  <2>2. ASSUME job.hard
        PROVE  node'.out = Width + 1 /\ Width' = Width
    <3>1. node' = [node EXCEPT !.ports = 3, !.out = Width + 1]
      BY <1>2, <2>2 DEF ResolveAdd, SumWidth
    <3>2. node'.out = Width + 1 /\ node'.a = node.a /\ node'.b = node.b
      BY <1>1, <3>1 DEF TypeOK
    <3> QED
      BY <3>2 DEF Width
  <2> QED
    BY <2>1, <2>2 DEF NodeInv
<1>3. CASE ResolveSub
  <2>1. IsSub' /\ phase' = "list"
    BY <1>3 DEF ResolveSub, IsSub
  <2>2. node'.out = node'.a /\ node'.a = node'.b /\ node'.ports = 2
    BY <1>3 DEF ResolveSub
  <2> QED
    BY <2>1, <2>2 DEF NodeInv, Width, Larger
<1>4. CASE UNCHANGED vars
  BY <1>1, <1>4, SameNode DEF vars, NodeInv
<1>5. CASE ~(ResolveAdd \/ ResolveSub \/ UNCHANGED vars)
  <2>1. UNCHANGED <<job, node>> /\ phase # "resolve" /\ phase' # "resolve"
    BY <1>5 DEF Next, CutNode, ConnectInverters, StartChain, FillOpen, LinkCarry,
                RemapOutputs, LeaveNode, RippleBit
  <2> QED
    BY <1>1, <2>1, SameNode DEF NodeInv
<1> QED
  BY <1>2, <1>3, <1>4, <1>5

Carry(i) ==
  slices[i].cin \in
    IF phase \in {"invert", "start"} THEN {Open}
    ELSE IF i = 1 THEN {Gnd, Pad}
    ELSE IF phase \in {"fill", "link"} THEN {Open} ELSE {Cout(i - 2)}

LEMMA CarryNext == ChainInv /\ TypeInv' /\ [Next]_vars => CarryInv'
<1> SUFFICES ASSUME ChainInv, TypeInv', [Next]_vars, Cutting'
             PROVE  \A i \in 1..Count' : Carry(i)'
  BY DEF CarryInv, Carry
<1>a. TypeInv
  BY DEF ChainInv, TypeInv
<1>b. Cutting => \A i \in 1..Count : Carry(i)
  BY DEF ChainInv, CarryInv, Carry
<1>1. CASE CutNode
  <2>1. UNCHANGED <<job, node>> /\ phase' \in {"invert", "start"}
    BY <1>1 DEF CutNode
  <2>2. Count' = Count
    BY <2>1, SameNode
  <2>3. \A i \in 1..Count : slices'[i].cin = Open
    BY <1>1 DEF CutNode
  <2> QED
    BY <2>1, <2>2, <2>3 DEF Carry
<1>2. CASE ConnectInverters
  <2>1. UNCHANGED <<job, node>> /\ phase = "invert" /\ phase' = "start" /\ Cutting
    BY <1>2 DEF ConnectInverters, Cutting
  <2>2. Count' = Count /\ DOMAIN slices = 1..Count
        /\ \A i \in 1..Count : slices[i] \in Slice
    BY <1>a, <2>1, SameNode, CutShape
  <2>3. \A i \in 1..Count : slices'[i].cin = slices[i].cin
    BY <1>2, <2>2 DEF ConnectInverters, Slice
  <2> QED
    BY <1>b, <2>1, <2>2, <2>3 DEF Carry
<1>3. CASE StartChain
  <2>1. UNCHANGED <<job, node>> /\ phase = "start" /\ phase' = "fill" /\ Cutting
    BY <1>3 DEF StartChain, Cutting
  <2>2. Count' = Count /\ DOMAIN slices = 1..Count
    BY <1>a, <2>1, SameNode, CutShape
  <2>3. \A i \in 1..Count :
          slices'[i].cin = IF i # 1 THEN slices[i].cin ELSE IF node.ports = 3 THEN Gnd ELSE Pad
    BY <1>3, <2>2 DEF StartChain
  <2> QED
    BY <1>b, <2>1, <2>2, <2>3 DEF Carry
<1>4. CASE FillOpen
  <2>1. UNCHANGED <<job, node>> /\ phase = "fill" /\ phase' = "link" /\ Cutting
    BY <1>4 DEF FillOpen, Cutting
  <2>2. Count' = Count /\ DOMAIN slices = 1..Count
        /\ \A i \in 1..Count : slices[i] \in Slice
    BY <1>a, <2>1, SameNode, CutShape
  <2>3. \A i \in 1..Count : slices'[i].cin = slices[i].cin
    BY <1>4, <2>2 DEF FillOpen, Slice
  <2> QED
    BY <1>b, <2>1, <2>2, <2>3 DEF Carry
<1>5. CASE LinkCarry
  <2>1. UNCHANGED <<job, node>> /\ phase = "link" /\ phase' = "remap" /\ Cutting
    BY <1>5 DEF LinkCarry, Cutting
  <2>2. Count' = Count /\ DOMAIN slices = 1..Count
        /\ \A i \in 1..Count : slices[i] \in Slice
    BY <1>a, <2>1, SameNode, CutShape
  <2>3. \A i \in 1..Count : slices'[i] = [slices[i] EXCEPT !.cin = CarryIn(i)]
    BY <1>5, <2>2 DEF LinkCarry
  <2>4. \A i \in 1..Count : slices'[i].cin = CarryIn(i)
    BY <2>2, <2>3 DEF Slice
  <2> QED
    BY <1>b, <2>1, <2>2, <2>4 DEF Carry, CarryIn
<1>6. CASE RemapOutputs
  <2>1. UNCHANGED <<job, node, slices>> /\ phase = "remap" /\ phase' = "done" /\ Cutting
    BY <1>6 DEF RemapOutputs, Cutting
  <2> QED
    BY <1>b, <2>1, SameNode DEF Carry
<1>7. CASE RippleBit
  <2>1. UNCHANGED <<job, node>> /\ phase = "ripple" /\ phase' \in {"ripple", "done"} /\ ~IsCut
    BY <1>7, <1>a DEF RippleBit, TypeInv, StageInv
  <2> QED
    BY <2>1, SameNode DEF Cutting
<1>8. CASE UNCHANGED vars
  <2>1. UNCHANGED <<job, node, slices, phase>>
    BY <1>8 DEF vars
  <2>2. Count' = Count /\ IsCut' = IsCut
    BY <2>1, SameNode
  <2> QED
    BY <1>b, <2>1, <2>2 DEF Carry, Cutting
<1>9. CASE ResolveAdd \/ ResolveSub \/ LeaveNode
  BY <1>9 DEF ResolveAdd, ResolveSub, LeaveNode, Cutting
<1> QED
  BY <1>1, <1>2, <1>3, <1>4, <1>5, <1>6, <1>7, <1>8, <1>9 DEF Next

-----------------------------------------------------------------------------
(* Outputs.                                                                *)

LEMMA OutputOnce ==
  ASSUME TypeOK, NEW i \in 0..node.out - 1
  PROVE  /\ OutputFor(i) \in 0..node.out - 1 /\ OutputFor(i) \in DOMAIN drive
         /\ \A j \in 0..node.out - 1 : i # j => OutputFor(i) # OutputFor(j)
<1>1. node.out \in Nat \ {0} /\ job.y \in Nat \ {0}
  BY JobFacts DEF TypeOK, IsJob
<1>2. OutputFor(i) \in 0..node.out - 1
  BY <1>1 DEF OutputFor
<1>3. 0..node.out - 1 \subseteq DOMAIN drive
  BY <1>1 DEF TypeOK, Larger
<1>4. \A j \in 0..node.out - 1 : i # j => OutputFor(i) # OutputFor(j)
  BY <1>1 DEF OutputFor
<1> QED
  BY <1>2, <1>3, <1>4

(* The outputs that are taken without a look at their number exist.        *)
LEMMA NoOverrun ==
  ASSUME ChainInv, Cutting
  PROVE  /\ Unchecked \subseteq 0..node.out - 1
         /\ node.out < Len(slices) * S
<1>1. TypeOK /\ TypeInv /\ IsCut /\ job.hard /\ phase # "resolve"
  BY DEF ChainInv, TypeInv, StageInv, Cutting, IsCut
<1>2. Len(slices) = Count /\ Count \in Nat \ {0} /\ S \in Nat \ {0}
  BY <1>1, CutShape
<1>3. Width \in Nat \ {0} /\ node.out \in Nat \ {0}
  BY <1>1, Sizes DEF TypeOK
<1>4. /\ Count * S > Width
      /\ ~IsSub => Count * S > Width + 1 /\ (Count - 1) * S <= Width + 1
  BY <1>1, SlicesExist
<1>5. IF IsSub THEN node.out = Width ELSE node.out \in {Width, Width + 1}
  BY <1>1 DEF ChainInv, NodeInv
<1>6. node.out < Len(slices) * S
  BY <1>2, <1>3, <1>4, <1>5
<1>7. ASSUME ~IsSub
      PROVE  0..(Len(slices) - 1) * S - 2 \subseteq 0..node.out - 1
  <2> DEFINE q == (Count - 1) * S
  <2>1. q \in Int /\ q <= Width + 1 /\ (Len(slices) - 1) * S = q
    BY <1>2, <1>4, <1>7
  <2> HIDE DEF q
  <2> QED
    BY <1>3, <1>5, <1>7, <2>1
<1> QED
  BY <1>6, <1>7 DEF Unchecked

LEMMA DriveNext == ChainInv /\ TypeInv' /\ [Next]_vars => DriveInv'
<1> SUFFICES ASSUME ChainInv, TypeInv', [Next]_vars PROVE DriveInv'
  OBVIOUS
<1>a. TypeInv /\ TypeOK /\ DriveInv
  BY DEF ChainInv, TypeInv
<1>1. CASE ResolveAdd \/ ResolveSub
  <2>1. phase = "resolve" /\ phase' = "list"
    BY <1>1 DEF ResolveAdd, ResolveSub
  <2>2. Open.of # "sum" /\ Gnd.of # "sum" /\ Pad.of # "sum"
    BY DEF Open, Gnd, Pad, Source
  <2>3. \A k \in DOMAIN drive : drive[k].of # "sum"
    BY <1>a, <2>1 DEF DriveInv, Rippling
  <2>4. \A k \in DOMAIN drive' : drive'[k].of # "sum"
    <3>1. CASE UNCHANGED drive
      BY <2>3, <3>1
    <3>2. CASE \E n : drive' = NewOutputs(n, Gnd) \/ drive' = NewOutputs(n, Pad)
      BY <2>2, <3>2 DEF NewOutputs
    <3> QED
      BY <1>1, <3>1, <3>2 DEF ResolveAdd, ResolveSub
  <2> QED
    BY <2>1, <2>4 DEF DriveInv, Rippling
<1>2. CASE CutNode \/ ConnectInverters \/ StartChain \/ FillOpen \/ LinkCarry
  <2>1. /\ UNCHANGED drive
        /\ phase \in {"list", "invert", "start", "fill", "link"}
        /\ phase' \in {"invert", "start", "fill", "link", "remap"}
    BY <1>2 DEF CutNode, ConnectInverters, StartChain, FillOpen, LinkCarry
  <2> QED
    BY <1>a, <2>1 DEF DriveInv, Rippling
<1>3. CASE RemapOutputs
  <2>1. phase = "remap" /\ UNCHANGED <<job, node, slices>>
    BY <1>3 DEF RemapOutputs
  <2>2. Unchecked \subseteq 0..node.out - 1 /\ node.out < Len(slices) * S
    BY <2>1, NoOverrun DEF Cutting
  <2>3. phase' = "done" /\ IsCut'
    <3>1. phase' = "done"
      BY <1>3, <2>2 DEF RemapOutputs
    <3>2. IsCut
      BY <1>a, <2>1 DEF TypeInv, StageInv
    <3> QED
      BY <2>1, <3>1, <3>2, SameNode
  <2>4. ASSUME NEW k \in 0..node.out - 1
        PROVE  drive'[k] = Sum(k + 1)
    <3>1. k \in DOMAIN drive
      BY <1>a, OutputOnce, JobFacts DEF TypeOK, IsJob, Larger
    <3>2. drive'[k] = IF k >= node.out THEN drive[k]
                      ELSE IF k + 1 < Len(slices) * S THEN Sum(k + 1) ELSE Gnd
      BY <1>3, <2>2, <3>1 DEF RemapOutputs
    <3>3. node.out \in Nat /\ Len(slices) * S \in Int
      <4>1. Cutting
        BY <2>1 DEF Cutting
      <4>2. Len(slices) \in Nat /\ S \in Nat
        BY <1>a, <4>1, CutShape
      <4> QED
        BY <1>a, <4>2 DEF TypeOK
    <3>4. ~(k >= node.out) /\ k + 1 < Len(slices) * S
      BY <2>2, <3>3
    <3> QED
      BY <3>2, <3>4
  <2> QED
    BY <2>1, <2>3, <2>4 DEF DriveInv, Rippling
<1>4. CASE LeaveNode
  <2>1. phase = "list" /\ phase' = "ripple" /\ UNCHANGED drive /\ index' = 0
    BY <1>4, <1>a DEF LeaveNode, TypeInv, StageInv
  <2> QED
    BY <1>a, <2>1 DEF DriveInv, Rippling
<1>5. CASE RippleBit
  <2>1. /\ phase = "ripple" /\ phase' \in {"ripple", "done"} /\ UNCHANGED <<job, node>>
        /\ ~IsCut /\ index \in 0..node.out - 1 /\ index' = index + 1
        /\ drive' = [drive EXCEPT ![OutputFor(index)] = Sum(index)]
    BY <1>5, <1>a DEF RippleBit, TypeInv, StageInv, TypeOK
  <2>2. ~IsCut' /\ \A k : OutputFor(k)' = OutputFor(k)
    BY <2>1, SameNode
  <2>3. OutputFor(index) \in DOMAIN drive
        /\ \A j \in 0..node.out - 1 : index # j => OutputFor(index) # OutputFor(j)
    BY <1>a, <2>1, OutputOnce
  <2>4. /\ \A i \in 0..index - 1 : drive[OutputFor(i)] = Sum(i)
        /\ \A k \in DOMAIN drive :
             drive[k].of = "sum" => \E i \in 0..index - 1 : k = OutputFor(i)
    BY <1>a, <2>1 DEF DriveInv, Rippling
  <2>5. node.out \in Nat
    BY <1>a DEF TypeOK
  <2>6. ASSUME NEW i \in 0..index' - 1
        PROVE  drive'[OutputFor(i)] = Sum(i)
    <3>1. CASE i = index
      BY <2>1, <2>3, <3>1
    <3>2. CASE i # index
      <4>1. i \in 0..index - 1 /\ i \in 0..node.out - 1
        BY <2>1, <2>5, <3>2
      <4>2. OutputFor(i) \in DOMAIN drive
        BY <1>a, <4>1, OutputOnce
      <4> QED
        BY <2>1, <2>3, <2>4, <3>2, <4>1, <4>2
    <3> QED
      BY <3>1, <3>2
  <2>7. ASSUME NEW k \in DOMAIN drive', drive'[k].of = "sum"
        PROVE  \E i \in 0..index' - 1 : k = OutputFor(i)
    <3>1. CASE k = OutputFor(index)
      <4>1. index \in 0..index' - 1
        BY <2>1
      <4> QED
        BY <3>1, <4>1
    <3>2. CASE k # OutputFor(index)
      <4>1. k \in DOMAIN drive /\ drive'[k] = drive[k]
        BY <2>1, <3>2
      <4>2. PICK i \in 0..index - 1 : k = OutputFor(i)
        BY <2>4, <2>7, <4>1
      <4>3. i \in 0..index' - 1
        BY <2>1
      <4> QED
        BY <4>2, <4>3
    <3> QED
      BY <3>1, <3>2
  <2> QED
    BY <2>1, <2>2, <2>6, <2>7 DEF DriveInv, Rippling
<1>6. CASE UNCHANGED vars
  <2>1. UNCHANGED <<job, node, drive, index, phase>>
    BY <1>6 DEF vars
  <2>2. IsCut' = IsCut /\ \A k : OutputFor(k)' = OutputFor(k)
    BY <2>1, SameNode
  <2> QED
    BY <1>a, <2>1, <2>2 DEF DriveInv, Rippling
<1> QED
  BY <1>1, <1>2, <1>3, <1>4, <1>5, <1>6 DEF Next

-----------------------------------------------------------------------------
(* The soft adder.                                                         *)

(* What RippleInv says of one bit.                                         *)
Ripple(i) ==
  /\ slices[i].a[0] = IF i <= node.a THEN PinA(i - 1) ELSE Gnd
  /\ IF i <= node.b THEN slices[i].b[0] = Operand2(i - 1) ELSE slices[i].b[0] \in {Gnd, Vcc}
  /\ IF i = 1 THEN slices[i].cin \in {Gnd, Vcc} ELSE slices[i].cin = Cout(i - 2)

LEMMA RippleNext == ChainInv /\ TypeInv' /\ [Next]_vars => RippleInv'
<1> SUFFICES ASSUME ChainInv, TypeInv', [Next]_vars, Rippling'
             PROVE  /\ Len(slices') = index'
                    /\ phase' = "done" <=> index' = node'.out
                    /\ \A i \in 1..index' : Ripple(i)'
  BY DEF RippleInv, Ripple
<1>a. TypeInv /\ TypeOK
  BY DEF ChainInv, TypeInv
<1>b. ASSUME Rippling
      PROVE  /\ Len(slices) = index
             /\ phase = "done" <=> index = node.out
             /\ \A i \in 1..index : Ripple(i)
  BY <1>b DEF ChainInv, RippleInv, Ripple
<1>1. CASE LeaveNode
  <2>1. slices' = <<>> /\ index' = 0 /\ phase' = "ripple" /\ node' = node
    BY <1>1, <1>a DEF LeaveNode, TypeInv, StageInv
  <2>2. node.out # 0
    BY <1>a DEF TypeOK
  <2> QED
    BY <2>1, <2>2
<1>2. CASE RippleBit
  <2> DEFINE missing == IF IsSub THEN Vcc ELSE Gnd
             bit == IF index < node.b THEN PinB(index) ELSE missing
             one == IF index < node.a THEN PinA(index) ELSE Gnd
             two == IF IsSub /\ index < node.b THEN Invert(bit) ELSE bit
             carry == IF index = 0 THEN FirstCarry ELSE Cout(index - 1)
             adder == [a |-> [j \in {0} |-> one], b |-> [j \in {0} |-> two], cin |-> carry]
  <2>1. slices' = Append(slices, adder)
    BY <1>2 DEF RippleBit
  <2>2. /\ Rippling /\ UNCHANGED <<job, node>> /\ index \in Nat /\ index' = index + 1
        /\ phase' = IF index + 1 = node.out THEN "done" ELSE "ripple"
    BY <1>2, <1>a DEF RippleBit, Rippling, TypeOK
  <2>3. adder.a[0] = one /\ adder.b[0] = two /\ adder.cin = carry
    OBVIOUS
  <2>4. carry = IF index = 0 THEN FirstCarry ELSE Cout(index - 1)
    OBVIOUS
  <2>5. two = IF index < node.b THEN Operand2(index) ELSE missing
    BY DEF Operand2
  <2>6. one = IF index < node.a THEN PinA(index) ELSE Gnd
    OBVIOUS
  <2>7. missing \in {Gnd, Vcc} /\ FirstCarry \in {Gnd, Vcc}
    BY DEF FirstCarry
  <2> HIDE DEF adder, one, two, carry, missing
  <2>8. Len(slices) = index /\ \A i \in 1..index : Ripple(i)
    BY <1>b, <2>2
  <2>9. slices \in Seq(Slice)
    BY <1>a DEF TypeOK, Slice
  <2>10. Len(slices') = index' /\ slices'[index'] = adder
         /\ \A i \in 1..index : slices'[i] = slices[i]
    BY <2>1, <2>2, <2>8, <2>9
  <2>11. node.a \in Nat /\ node.b \in Nat
    BY <1>a DEF TypeOK
  <2>12. \A k : PinA(k)' = PinA(k) /\ Operand2(k)' = Operand2(k)
    BY <2>2, SameNode
  <2>13. ASSUME NEW i \in Nat, i = index'
         PROVE  Ripple(i)'
    <3>1. i - 1 = index /\ i - 2 = index - 1 /\ (i = 1 <=> index = 0)
          /\ (i <= node.a <=> index < node.a) /\ (i <= node.b <=> index < node.b)
      BY <2>2, <2>11, <2>13
    <3>2. Ripple(i)' =
            (/\ slices'[i].a[0] = IF i <= node.a THEN PinA(i - 1) ELSE Gnd
             /\ IF i <= node.b THEN slices'[i].b[0] = Operand2(i - 1)
                               ELSE slices'[i].b[0] \in {Gnd, Vcc}
             /\ IF i = 1 THEN slices'[i].cin \in {Gnd, Vcc}
                         ELSE slices'[i].cin = Cout(i - 2))
      BY <2>2, <2>12 DEF Ripple
    <3> QED
      BY <2>3, <2>4, <2>5, <2>6, <2>7, <2>10, <2>13, <3>1, <3>2
  <2>14. ASSUME NEW i \in 1..index
         PROVE  Ripple(i)'
    BY <2>2, <2>8, <2>10, <2>12 DEF Ripple
  <2>15. \A i \in 1..index' : i \in 1..index \/ (i \in Nat /\ i = index')
    BY <2>2
  <2>16. phase' = "done" <=> index' = node'.out
    BY <2>2
  <2>17. \A i \in 1..index' : Ripple(i)'
    BY <2>13, <2>14, <2>15
  <2> QED
    BY <2>10, <2>16, <2>17
<1>3. CASE UNCHANGED vars
  <2>1. UNCHANGED <<job, node, slices, index, phase>>
    BY <1>3 DEF vars
  <2>2. IsCut' = IsCut /\ \A k : PinA(k)' = PinA(k) /\ Operand2(k)' = Operand2(k)
    BY <2>1, SameNode
  <2>3. Rippling
    BY <2>1, <2>2 DEF Rippling
  <2> QED
    BY <1>b, <2>1, <2>2, <2>3 DEF Ripple
<1>4. CASE RemapOutputs
  <2>1. UNCHANGED <<job, node>> /\ phase = "remap" /\ IsCut
    BY <1>4, <1>a DEF RemapOutputs, TypeInv, StageInv
  <2> QED
    BY <1>4, <2>1, SameNode DEF RemapOutputs, Rippling
<1>5. CASE ResolveAdd \/ ResolveSub \/ CutNode \/ ConnectInverters \/ StartChain \/ FillOpen
           \/ LinkCarry
  BY <1>5 DEF ResolveAdd, ResolveSub, CutNode, ConnectInverters, StartChain, FillOpen,
              LinkCarry, Rippling
<1> QED
  BY <1>1, <1>2, <1>3, <1>4, <1>5 DEF Next

LEMMA ChainInit == Init => ChainInv
<1> SUFFICES ASSUME Init PROVE ChainInv
  OBVIOUS
<1>1. TypeInv /\ phase \in {"resolve", "list"} /\ index = 0
  BY TypeInit DEF Init
<1>2. NodeInv
  <2>1. IsJob(job)
    BY <1>1, JobFacts DEF TypeInv
  <2>2. CASE job.design
    BY <2>2 DEF Init, NodeInv
  <2>3. CASE ~job.design
    <3>1. ~IsSub /\ job.y = Larger(job.a, job.b)
      BY <2>1, <2>3 DEF IsJob, IsSub, Larger
    <3>2. node.out = Width
      BY <3>1 DEF Init, Width
    <3> QED
      BY <1>1, <2>3, <3>1, <3>2 DEF NodeInv, Init
  <2> QED
    BY <2>2, <2>3
<1>3. LayoutInv /\ CarryInv /\ RippleInv
  BY <1>1 DEF LayoutInv, CarryInv, RippleInv, Cutting, Rippling
<1>4. DriveInv
  <2>1. \A k \in DOMAIN drive : drive[k].of # "sum"
    BY DEF Init, Open, Source
  <2> QED
    BY <1>1, <2>1 DEF DriveInv, Rippling
<1> QED
  BY <1>1, <1>2, <1>3, <1>4 DEF ChainInv, TypeInv

LEMMA ChainNext == ChainInv /\ [Next]_vars => ChainInv'
<1> SUFFICES ASSUME ChainInv, [Next]_vars PROVE ChainInv'
  OBVIOUS
<1>1. TypeInv'
  BY TypeNext DEF ChainInv, TypeInv
<1> QED
  BY <1>1, NodeNext, LayoutNext, CarryNext, RippleNext, DriveNext DEF ChainInv, TypeInv

(***************************************************************************)
(* The inductive invariant, for every width and every hard adder.          *)
(***************************************************************************)
THEOREM ChainCorrect == Spec => []ChainInv
  BY ChainInit, ChainNext, PTL DEF Spec

-----------------------------------------------------------------------------
(* From slices to positions.                                               *)

LEMMA CutPosition ==
  ASSUME ChainInv, Cutting, NEW q \in Positions
  PROVE  \E i \in 1..Count, j \in 0..S - 1 :
           q = (i - 1) * S + j /\ SourceA(q) = slices[i].a[j] /\ SourceB(q) = slices[i].b[j]
<1>1. TypeInv
  BY DEF ChainInv, TypeInv
<1>2. Len(slices) = Count /\ SliceWidth = S /\ Count \in Nat \ {0} /\ S \in Nat \ {0}
  BY <1>1, CutShape
<1>3. q \in Nat /\ q < Count * S
  <2>1. Count * S \in Nat
    BY <1>2
  <2> QED
    BY <1>2, <2>1 DEF Positions
<1> DEFINE d == q \div S
           r == q % S
<1>4. d \in Nat /\ r \in 0..S - 1 /\ q = S * d + r
  BY <1>2, <1>3, Division, Zenon
<1>5. SourceA(q) = slices[d + 1].a[r] /\ SourceB(q) = slices[d + 1].b[r]
  BY <1>2 DEF SourceA, SourceB, At
<1> HIDE DEF d, r
<1>6. d < Count
  <2>1. ASSUME d >= Count PROVE FALSE
    <3>1. S * d >= S * Count
      BY <1>2, <1>4, <2>1
    <3>2. S * d \in Nat /\ S * Count = Count * S /\ Count * S \in Nat
      BY <1>2, <1>4
    <3> QED
      BY <1>3, <1>4, <3>1, <3>2
  <2> QED
    BY <1>2, <1>4, <2>1
<1>7. d + 1 \in 1..Count /\ q = ((d + 1) - 1) * S + r
  BY <1>2, <1>4, <1>6
<1> QED
  BY <1>4, <1>5, <1>7

LEMMA RipplePosition ==
  ASSUME ChainInv, Rippling
  PROVE  /\ Positions = 0..index - 1 /\ index \in Nat
         /\ \A q \in Positions : SourceA(q) = slices[q + 1].a[0] /\ SourceB(q) = slices[q + 1].b[0]
<1>1. TypeOK /\ ~IsCut /\ Len(slices) = index
  BY DEF ChainInv, StageInv, Rippling, RippleInv
<1>2. SliceWidth = 1 /\ index \in Nat
  BY <1>1, Sizes DEF TypeOK
<1>3. Positions = 0..index - 1
  BY <1>1, <1>2 DEF Positions
<1>4. \A q \in Nat : q \div 1 = q /\ q % 1 = 0
  OBVIOUS
<1>5. \A q \in Positions :
        SourceA(q) = slices[q + 1].a[0] /\ SourceB(q) = slices[q + 1].b[0]
  BY <1>2, <1>3, <1>4 DEF SourceA, SourceB, At
<1> QED
  BY <1>2, <1>3, <1>5

LEMMA PinBits ==
  ASSUME NEW n
  PROVE  /\ PinA(n) = IF n < node.live_a THEN Source("a", n, FALSE) ELSE Pad
         /\ \A k : IsBit(PinA(n), "a", k) <=> n < node.live_a /\ n = k
         /\ \A k : IsBit(Operand2(n), "b", k) <=> n < node.live_b /\ n = k
         /\ \A k : \A s \in {Gnd, Vcc, Pad} : ~IsBit(s, "a", k) /\ ~IsBit(s, "b", k)
<1>1. PinA(n) = IF n < node.live_a THEN Source("a", n, FALSE) ELSE Pad
  BY DEF PinA, Pin
<1>2. Operand2(n).of = (IF n < node.live_b THEN "b" ELSE "pad")
      /\ (n < node.live_b => Operand2(n).bit = n)
  BY DEF Operand2, PinB, Pin, Invert, Source, Pad
<1>3. \A k : \A s \in {Gnd, Vcc, Pad} : ~IsBit(s, "a", k) /\ ~IsBit(s, "b", k)
  BY DEF Gnd, Vcc, Pad, Source, IsBit
<1>4. \A k : IsBit(PinA(n), "a", k) <=> n < node.live_a /\ n = k
  BY <1>1 DEF IsBit, Source, Pad
<1>5. \A k : IsBit(Operand2(n), "b", k) <=> n < node.live_b /\ n = k
  BY <1>2 DEF IsBit
<1> QED
  BY <1>1, <1>3, <1>4, <1>5

(* In a chain bit k of an operand is in position k + 1 and nowhere else.   *)
LEMMA CutPlaced ==
  ASSUME ChainInv, Cutting, phase \in {"link", "remap", "done"}, NEW q \in Positions, NEW k \in Nat
  PROVE  /\ k < node.live_a => (IsBit(SourceA(q), "a", k) <=> q = k + 1)
         /\ k < node.live_b => (IsBit(SourceB(q), "b", k) <=> q = k + 1)
<1>1. TypeInv /\ TypeOK /\ S \in Nat \ {0}
  BY Sizes DEF ChainInv, TypeInv
<1>2. PICK i \in 1..Count, j \in 0..S - 1 :
        q = (i - 1) * S + j /\ SourceA(q) = slices[i].a[j] /\ SourceB(q) = slices[i].b[j]
  BY CutPosition
<1>3. Rest = {Gnd, Vcc, Pad}
  BY DEF Rest
<1>4. Layout(i, j)
  BY DEF ChainInv, LayoutInv, Layout
<1>5. /\ IF q \in 1..node.a THEN SourceA(q) = PinA(q - 1) ELSE SourceA(q) \in {Gnd, Vcc, Pad}
      /\ IF q \in 1..node.b THEN SourceB(q) = Operand2(q - 1)
                            ELSE SourceB(q) \in {Gnd, Vcc, Pad}
  BY <1>2, <1>3, <1>4 DEF Layout
<1>6. /\ node.a \in Nat /\ node.b \in Nat /\ node.live_a \in Nat /\ node.live_b \in Nat
      /\ node.live_a <= node.a /\ node.live_b <= node.b
  BY <1>1 DEF TypeOK
<1>7. q \in Nat /\ q - 1 \in Int
  <2>1. (i - 1) * S \in Nat
    BY <1>1
  <2> QED
    BY <1>1, <1>2, <2>1
<1>8. ASSUME k < node.live_a
      PROVE  IsBit(SourceA(q), "a", k) <=> q = k + 1
  <2>1. CASE q \in 1..node.a
    <3>1. SourceA(q) = PinA(q - 1)
      BY <1>5, <2>1
    <3>2. IsBit(PinA(q - 1), "a", k) <=> (q - 1 < node.live_a /\ q - 1 = k)
      BY PinBits
    <3> QED
      BY <1>6, <1>7, <1>8, <3>1, <3>2
  <2>2. CASE q \notin 1..node.a
    <3>1. SourceA(q) \in {Gnd, Vcc, Pad}
      BY <1>5, <2>2
    <3>2. ~IsBit(SourceA(q), "a", k)
      BY <3>1, PinBits
    <3>3. q # k + 1
      BY <1>6, <1>7, <1>8, <2>2
    <3> QED
      BY <3>2, <3>3
  <2> QED
    BY <2>1, <2>2
<1>9. ASSUME k < node.live_b
      PROVE  IsBit(SourceB(q), "b", k) <=> q = k + 1
  <2>1. CASE q \in 1..node.b
    <3>1. SourceB(q) = Operand2(q - 1)
      BY <1>5, <2>1
    <3>2. IsBit(Operand2(q - 1), "b", k) <=> (q - 1 < node.live_b /\ q - 1 = k)
      BY PinBits
    <3> QED
      BY <1>6, <1>7, <1>9, <3>1, <3>2
  <2>2. CASE q \notin 1..node.b
    <3>1. SourceB(q) \in {Gnd, Vcc, Pad}
      BY <1>5, <2>2
    <3>2. ~IsBit(SourceB(q), "b", k)
      BY <3>1, PinBits
    <3>3. q # k + 1
      BY <1>6, <1>7, <1>9, <2>2
    <3> QED
      BY <3>2, <3>3
  <2> QED
    BY <2>1, <2>2
<1> QED
  BY <1>8, <1>9

(* In a soft adder it is in position k.                                    *)
LEMMA RipplePlaced ==
  ASSUME ChainInv, Rippling, NEW q \in Positions, NEW k \in Nat
  PROVE  /\ k < node.live_a => (IsBit(SourceA(q), "a", k) <=> q = k)
         /\ k < node.live_b => (IsBit(SourceB(q), "b", k) <=> q = k)
<1>1. TypeOK /\ q \in 0..index - 1 /\ index \in Nat
  BY RipplePosition DEF ChainInv
<1>2. SourceA(q) = slices[q + 1].a[0] /\ SourceB(q) = slices[q + 1].b[0]
  BY RipplePosition
<1>3. /\ node.a \in Nat /\ node.b \in Nat /\ node.live_a \in Nat /\ node.live_b \in Nat
      /\ node.live_a <= node.a /\ node.live_b <= node.b
  BY <1>1 DEF TypeOK
<1>4. q + 1 \in 1..index /\ (q + 1) - 1 = q
  BY <1>1
<1>5. /\ SourceA(q) = IF q + 1 <= node.a THEN PinA(q) ELSE Gnd
      /\ IF q + 1 <= node.b THEN SourceB(q) = Operand2(q) ELSE SourceB(q) \in {Gnd, Vcc}
  BY <1>2, <1>4 DEF ChainInv, RippleInv
<1>6. /\ IsBit(PinA(q), "a", k) <=> (q < node.live_a /\ q = k)
      /\ IsBit(Operand2(q), "b", k) <=> (q < node.live_b /\ q = k)
  BY PinBits
<1>7. \A s \in {Gnd, Vcc, Pad} : ~IsBit(s, "a", k) /\ ~IsBit(s, "b", k)
  BY PinBits
<1>8. ASSUME k < node.live_a
      PROVE  IsBit(SourceA(q), "a", k) <=> q = k
  BY <1>1, <1>3, <1>5, <1>6, <1>7, <1>8
<1>9. ASSUME k < node.live_b
      PROVE  IsBit(SourceB(q), "b", k) <=> q = k
  BY <1>1, <1>3, <1>5, <1>6, <1>7, <1>9
<1> QED
  BY <1>8, <1>9

LEMMA EveryBit == ChainInv => EveryBitPlaced
<1> SUFFICES ASSUME ChainInv, phase \in {"link", "remap", "done"}
             PROVE  /\ \A k \in 0..Smaller(node.live_a, node.out) - 1 : PlacedOnce(SourceA, "a", k)
                    /\ \A k \in 0..Smaller(node.live_b, node.out) - 1 : PlacedOnce(SourceB, "b", k)
  BY DEF EveryBitPlaced
<1>1. TypeInv /\ TypeOK
  BY DEF ChainInv, TypeInv
<1>2. /\ node.a \in Nat /\ node.b \in Nat /\ node.live_a \in Nat /\ node.live_b \in Nat
      /\ node.live_a <= node.a /\ node.live_b <= node.b /\ node.out \in Nat
  BY <1>1 DEF TypeOK
<1>3. /\ \A k \in 0..Smaller(node.live_a, node.out) - 1 :
           k \in Nat /\ k < node.live_a /\ k < node.out
      /\ \A k \in 0..Smaller(node.live_b, node.out) - 1 :
           k \in Nat /\ k < node.live_b /\ k < node.out
  BY <1>2 DEF Smaller
<1>4. CASE Cutting
  <2>1. Len(slices) = Count /\ SliceWidth = S /\ Count \in Nat \ {0} /\ S \in Nat \ {0}
    BY <1>1, <1>4, CutShape
  <2>2. Count * S > Width /\ Width >= node.a /\ Width >= node.b /\ Width \in Nat
    BY <1>1, SlicesExist, Sizes
  <2>3. Count * S \in Nat
    BY <2>1
  <2>4. \A k \in Nat : k < node.a \/ k < node.b => k + 1 \in Positions
    BY <1>2, <2>1, <2>2, <2>3 DEF Positions
  <2>5. ASSUME NEW k \in 0..Smaller(node.live_a, node.out) - 1
        PROVE  PlacedOnce(SourceA, "a", k)
    <3>1. k \in Nat /\ k < node.live_a /\ k + 1 \in Positions
      BY <1>2, <1>3, <2>4
    <3>2. \A q \in Positions : IsBit(SourceA(q), "a", k) <=> q = k + 1
      BY <1>4, <3>1, CutPlaced
    <3> QED
      BY <3>1, <3>2 DEF PlacedOnce
  <2>6. ASSUME NEW k \in 0..Smaller(node.live_b, node.out) - 1
        PROVE  PlacedOnce(SourceB, "b", k)
    <3>1. k \in Nat /\ k < node.live_b /\ k + 1 \in Positions
      BY <1>2, <1>3, <2>4
    <3>2. \A q \in Positions : IsBit(SourceB(q), "b", k) <=> q = k + 1
      BY <1>4, <3>1, CutPlaced
    <3> QED
      BY <3>1, <3>2 DEF PlacedOnce
  <2> QED
    BY <2>5, <2>6
<1>5. CASE ~Cutting
  <2>1. phase = "done" /\ Rippling
    BY <1>5 DEF Cutting, Rippling
  <2>2. Positions = 0..node.out - 1
    <3>1. index = node.out
      BY <2>1 DEF ChainInv, RippleInv
    <3> QED
      BY <2>1, <3>1, RipplePosition
  <2>3. ASSUME NEW k \in 0..Smaller(node.live_a, node.out) - 1
        PROVE  PlacedOnce(SourceA, "a", k)
    <3>1. k \in Nat /\ k < node.live_a /\ k \in Positions
      BY <1>2, <1>3, <2>2
    <3>2. \A q \in Positions : IsBit(SourceA(q), "a", k) <=> q = k
      BY <2>1, <3>1, RipplePlaced
    <3> QED
      BY <3>1, <3>2 DEF PlacedOnce
  <2>4. ASSUME NEW k \in 0..Smaller(node.live_b, node.out) - 1
        PROVE  PlacedOnce(SourceB, "b", k)
    <3>1. k \in Nat /\ k < node.live_b /\ k \in Positions
      BY <1>2, <1>3, <2>2
    <3>2. \A q \in Positions : IsBit(SourceB(q), "b", k) <=> q = k
      BY <2>1, <3>1, RipplePlaced
    <3> QED
      BY <3>1, <3>2 DEF PlacedOnce
  <2> QED
    BY <2>3, <2>4
<1> QED
  BY <1>4, <1>5

(***************************************************************************)
(* However the widths fall on the slices, every operand bit of the design  *)
(* that the node was left with is in the chain, and in one place.          *)
(***************************************************************************)
THEOREM EveryBitCorrect == Spec => []EveryBitPlaced
<1>1. Spec => []ChainInv
  BY ChainCorrect
<1> QED
  BY <1>1, EveryBit, PTL

-----------------------------------------------------------------------------
(* Outputs and loose ends.                                                 *)

LEMMA SumsDiffer ==
  \A i, j \in Nat : Sum(i).of = "sum" /\ Sum(i).bit = i /\ (Sum(i) = Sum(j) => i = j)
  BY DEF Sum, Source

LEMMA Outputs == ChainInv => OutputsHandedOver
<1> SUFFICES ASSUME ChainInv, phase = "done"
             PROVE  /\ \A k \in 0..node.out - 1 : drive[k].of = "sum" /\ drive[k].bit \in Positions
                    /\ \A k, l \in 0..node.out - 1 : k # l => drive[k] # drive[l]
  BY DEF OutputsHandedOver, ChainInv, DriveInv
<1>1. TypeInv /\ TypeOK /\ node.out \in Nat \ {0}
  BY DEF ChainInv, TypeInv, TypeOK
<1>2. CASE IsCut
  <2>1. Cutting
    BY <1>2 DEF Cutting
  <2>2. Len(slices) = Count /\ SliceWidth = S /\ Count \in Nat \ {0} /\ S \in Nat \ {0}
    BY <1>1, <2>1, CutShape
  <2>3. node.out < Count * S /\ Count * S \in Nat
    BY <2>1, <2>2, NoOverrun
  <2>4. \A k \in 0..node.out - 1 : drive[k] = Sum(k + 1)
    BY <1>2 DEF ChainInv, DriveInv
  <2>5. \A k \in 0..node.out - 1 : k + 1 \in Nat /\ k + 1 \in Positions
    BY <1>1, <2>2, <2>3 DEF Positions
  <2>6. \A k \in 0..node.out - 1 : drive[k].of = "sum" /\ drive[k].bit \in Positions
    BY <2>4, <2>5, SumsDiffer
  <2>7. \A k, l \in 0..node.out - 1 : k # l => k + 1 # l + 1
    BY <1>1
  <2>8. \A k, l \in 0..node.out - 1 : k # l => drive[k] # drive[l]
    BY <2>4, <2>5, <2>7, SumsDiffer
  <2> QED
    BY <2>6, <2>8
<1>3. CASE ~IsCut
  <2>1. Rippling
    BY <1>3 DEF Rippling
  <2>2. index = node.out
    BY <2>1 DEF ChainInv, RippleInv
  <2>3. Positions = 0..node.out - 1
    BY <2>1, <2>2, RipplePosition
  <2>4. \A i \in 0..node.out - 1 : drive[OutputFor(i)] = Sum(i)
    BY <2>1, <2>2 DEF ChainInv, DriveInv
  <2>5. ASSUME NEW k \in 0..node.out - 1
        PROVE  \E i \in 0..node.out - 1 : k = OutputFor(i)
    <3>1. CASE IsSub \/ node.ports = 2
      BY <3>1 DEF OutputFor
    <3>2. CASE ~(IsSub \/ node.ports = 2) /\ k = 0
      <4>1. node.out - 1 \in 0..node.out - 1 /\ OutputFor(node.out - 1) = 0
        BY <1>1, <3>2 DEF OutputFor
      <4> QED
        BY <3>2, <4>1
    <3>3. CASE ~(IsSub \/ node.ports = 2) /\ k # 0
      <4>1. k - 1 \in 0..node.out - 1 /\ OutputFor(k - 1) = k
        BY <1>1, <3>3 DEF OutputFor
      <4> QED
        BY <4>1
    <3> QED
      BY <3>1, <3>2, <3>3
  <2>6. \A i \in 0..node.out - 1 : i \in Nat
    BY <1>1
  <2>7. \A k \in 0..node.out - 1 : drive[k].of = "sum" /\ drive[k].bit \in Positions
    BY <2>3, <2>4, <2>5, <2>6, SumsDiffer
  <2>8. ASSUME NEW k \in 0..node.out - 1, NEW l \in 0..node.out - 1, k # l
        PROVE  drive[k] # drive[l]
    <3>1. PICK i \in 0..node.out - 1 : k = OutputFor(i)
      BY <2>5
    <3>2. PICK j \in 0..node.out - 1 : l = OutputFor(j)
      BY <2>5
    <3>3. drive[k] = Sum(i) /\ drive[l] = Sum(j) /\ i # j
      BY <2>4, <2>8, <3>1, <3>2
    <3> QED
      BY <2>6, <3>3, SumsDiffer
  <2> QED
    BY <2>7, <2>8
<1> QED
  BY <1>2, <1>3

(***************************************************************************)
(* split_adder never takes an output pin that the node does not have, and  *)
(* every output pin ends up with the sum of one position of its own.       *)
(***************************************************************************)
THEOREM OutputsCorrect == Spec => []OutputsHandedOver
<1>1. Spec => []ChainInv
  BY ChainCorrect
<1> QED
  BY <1>1, Outputs, PTL

LEMMA Connected == ChainInv => ChainConnected
<1> SUFFICES ASSUME ChainInv, phase = "done"
             PROVE  /\ \A p \in Positions : SourceA(p) # Open /\ SourceB(p) # Open
                    /\ \A i \in DOMAIN slices :
                         IF i = 1 THEN slices[i].cin.of \in {"gnd", "vcc", "pad"}
                                  ELSE slices[i].cin = Cout(i - 2)
  BY DEF ChainConnected
<1>1. TypeInv /\ TypeOK
  BY DEF ChainInv, TypeInv
<1>2. Gnd.of = "gnd" /\ Vcc.of = "vcc" /\ Pad.of = "pad"
  BY DEF Gnd, Vcc, Pad, Source
<1>3. CASE IsCut
  <2>1. Cutting
    BY <1>3 DEF Cutting
  <2>2. DOMAIN slices = 1..Count
    BY <1>1, <2>1, CutShape
  <2>3. ASSUME NEW p \in Positions
        PROVE  SourceA(p) # Open /\ SourceB(p) # Open
    <3>1. PICK i \in 1..Count, j \in 0..S - 1 :
            p = (i - 1) * S + j /\ SourceA(p) = slices[i].a[j] /\ SourceB(p) = slices[i].b[j]
      BY <2>1, CutPosition
    <3>2. Layout(i, j) /\ Rest = {Gnd, Vcc, Pad}
      BY <2>1 DEF ChainInv, LayoutInv, Layout, Rest
    <3>3. /\ SourceA(p) = PinA(p - 1) \/ SourceA(p) \in {Gnd, Vcc, Pad}
          /\ SourceB(p) = Operand2(p - 1) \/ SourceB(p) \in {Gnd, Vcc, Pad}
      BY <3>1, <3>2 DEF Layout
    <3> QED
      BY <3>3, NotOpen
  <2>4. ASSUME NEW i \in DOMAIN slices
        PROVE  slices[i].cin \in IF i = 1 THEN {Gnd, Pad} ELSE {Cout(i - 2)}
    BY <2>1, <2>2 DEF ChainInv, CarryInv
  <2> QED
    BY <1>2, <2>3, <2>4
<1>4. CASE ~IsCut
  <2>1. Rippling
    BY <1>4 DEF Rippling
  <2>2. DOMAIN slices = 1..index /\ index \in Nat
    BY <1>1, <2>1 DEF ChainInv, RippleInv, TypeOK
  <2>3. ASSUME NEW p \in Positions
        PROVE  SourceA(p) # Open /\ SourceB(p) # Open
    <3>1. p + 1 \in 1..index /\ (p + 1) - 1 = p
      BY <2>1, <2>2, RipplePosition
    <3>2. SourceA(p) = slices[p + 1].a[0] /\ SourceB(p) = slices[p + 1].b[0]
      BY <2>1, RipplePosition
    <3>3. SourceA(p) \in {PinA(p), Gnd} /\ SourceB(p) \in {Operand2(p), Gnd, Vcc}
      BY <2>1, <3>1, <3>2 DEF ChainInv, RippleInv
    <3> QED
      BY <3>3, NotOpen
  <2>4. ASSUME NEW i \in DOMAIN slices
        PROVE  IF i = 1 THEN slices[i].cin \in {Gnd, Vcc} ELSE slices[i].cin = Cout(i - 2)
    BY <2>1, <2>2 DEF ChainInv, RippleInv
  <2> QED
    BY <1>2, <2>3, <2>4
<1> QED
  BY <1>3, <1>4

(***************************************************************************)
(* The chain that is handed on has no loose input, and its carry goes      *)
(* through all slices in their order.                                      *)
(***************************************************************************)
THEOREM ConnectedCorrect == Spec => []ChainConnected
<1>1. Spec => []ChainInv
  BY ChainCorrect
<1> QED
  BY <1>1, Connected, PTL

-----------------------------------------------------------------------------
(* Nothing is connected twice.                                             *)

LEMMA SameKept == \A s : Kept(s, s) /\ \A t : Kept(Open, t)
  BY DEF Kept

(* The first inputs of the first slice, and of a last slice that is empty, *)
(* are open when the chain is started: no operand reaches them.            *)
LEMMA DummyFree ==
  ASSUME ChainInv, phase = "start", NEW i \in 1..Count,
         i = 1 \/ (LastIsEmpty /\ i = Len(slices))
  PROVE  slices[i].a[0] = Open /\ slices[i].b[0] = Open
<1> DEFINE p == (i - 1) * S + 0
<1>1. TypeInv /\ TypeOK /\ Cutting
  BY DEF ChainInv, TypeInv, Cutting
<1>2. Len(slices) = Count /\ S \in Nat \ {0} /\ Count \in Nat \ {0}
  BY <1>1, CutShape
<1>3. p = (i - 1) * S /\ p \in Int /\ node.a \in Int /\ node.b \in Int
  BY <1>1, <1>2 DEF TypeOK
<1>4. p \notin 1..node.a /\ p \notin 1..node.b
  <2>1. CASE i = 1
    BY <1>2, <1>3, <2>1
  <2>2. CASE LastIsEmpty /\ i = Len(slices)
    <3>1. p > node.a /\ p > node.b
      BY <1>1, <1>2, <1>3, <2>2, LastSlice
    <3> QED
      BY <1>3, <3>1
  <2> QED
    BY <2>1, <2>2
<1>5. Layout(i, 0) /\ Rest = {Open}
  <2>1. 0 \in 0..S - 1
    BY <1>2
  <2> QED
    BY <1>1, <2>1 DEF ChainInv, LayoutInv, Layout, Rest
<1> QED
  BY <1>4, <1>5 DEF Layout

LEMMA KeptNext == ChainInv /\ [Next]_vars => SlicesKept /\ DrivesKept
<1> SUFFICES ASSUME ChainInv, [Next]_vars PROVE SlicesKept /\ DrivesKept
  OBVIOUS
<1>a. TypeInv /\ TypeOK
  BY DEF ChainInv, TypeInv
<1>b. ASSUME Cutting, S \in Nat \ {0},
             \A i \in 1..Count, j \in 0..S - 1 :
               Kept(slices[i].a[j], slices'[i].a[j]) /\ Kept(slices[i].b[j], slices'[i].b[j]),
             \A i \in 1..Count : Kept(slices[i].cin, slices'[i].cin)
      PROVE  SlicesKept
  <2>1. DOMAIN slices = 1..Count
    BY <1>a, <1>b, CutShape
  <2>2. \A i \in 1..Count : DOMAIN slices[i].a = 0..S - 1
    BY <1>a, <1>b, CutShape
  <2> QED
    BY <1>b, <2>1, <2>2 DEF SlicesKept
<1>c. phase \in {"resolve", "list"} => SlicesKept
  BY <1>a DEF TypeInv, StageInv, SlicesKept
<1>d. phase # "done" /\ ~Rippling => DrivesKept
  BY DEF ChainInv, DriveInv, DrivesKept
<1>e. UNCHANGED drive => DrivesKept
  BY DEF DrivesKept
<1>f. UNCHANGED slices => SlicesKept
  BY SameKept DEF SlicesKept
<1>g. ASSUME Cutting
      PROVE  /\ \A i \in 1..Count, j \in 0..S - 1 : Layout(i, j)
             /\ DOMAIN slices = 1..Count /\ Len(slices) = Count
             /\ S \in Nat \ {0} /\ SliceWidth = S
             /\ \A i \in 1..Count : slices[i] \in Slice
  BY <1>a, <1>g, CutShape DEF ChainInv, LayoutInv, Layout
<1>1. CASE ResolveAdd \/ ResolveSub
  BY <1>1, <1>c, <1>d DEF ResolveAdd, ResolveSub, Rippling
<1>2. CASE CutNode \/ LeaveNode
  BY <1>2, <1>c, <1>e DEF CutNode, LeaveNode
<1>3. CASE ConnectInverters
  <2>1. UNCHANGED drive /\ phase = "invert" /\ Cutting /\ Rest = {Open}
    BY <1>3 DEF ConnectInverters, Cutting, Rest
  <2>2. ASSUME NEW i \in 1..Count
        PROVE  /\ slices'[i].cin = slices[i].cin
               /\ \A j \in 0..S - 1 : slices'[i].a[j] = slices[i].a[j] /\ slices[i].b[j] = Open
    <3>1. slices'[i] = [slices[i] EXCEPT !.b = [k \in 0..S - 1 |-> Inverter(i - 1, k)]]
      BY <1>3, <1>g, <2>1 DEF ConnectInverters
    <3>2. \A j \in 0..S - 1 : slices[i].b[j] = Open
      BY <1>g, <2>1 DEF Layout
    <3> QED
      BY <3>1, <3>2
  <2>3. SlicesKept
    BY <1>b, <1>g, <2>1, <2>2, SameKept
  <2> QED
    BY <1>e, <2>1, <2>3
<1>4. CASE StartChain
  <2>1. UNCHANGED drive /\ phase = "start" /\ Cutting /\ Rest = {Open}
    BY <1>4 DEF StartChain, Cutting, Rest
  <2>2. ASSUME NEW i \in 1..Count
        PROVE  Kept(slices[i].cin, slices'[i].cin)
    <3>1. slices[i].cin = Open
      BY <2>1 DEF ChainInv, CarryInv
    <3> QED
      BY <3>1, SameKept
  <2>3. ASSUME NEW i \in 1..Count, NEW j \in 0..S - 1
        PROVE  Kept(slices[i].a[j], slices'[i].a[j]) /\ Kept(slices[i].b[j], slices'[i].b[j])
    <3> DEFINE dummyA == IF IsSub THEN Gnd ELSE Vcc
               dummyB == IF IsSub THEN Vcc ELSE Gnd
    <3>1. slices[i].a \in [0..S - 1 -> Sources] /\ slices[i].b \in [0..S - 1 -> Sources]
      BY <1>a, <2>1, CutShape
    <3>2. /\ slices'[i].a = [slices[i].a EXCEPT ![0] = FirstInput(i, dummyA, slices[i].a[0])]
          /\ slices'[i].b = [slices[i].b EXCEPT ![0] = FirstInput(i, dummyB, slices[i].b[0])]
      BY <1>4, <1>g, <2>1 DEF StartChain
    <3> HIDE DEF dummyA, dummyB
    <3>3. CASE j = 0 /\ (i = 1 \/ (LastIsEmpty /\ i = Len(slices)))
      <4>1. slices[i].a[j] = Open /\ slices[i].b[j] = Open
        BY <1>a, <1>g, <2>1, <3>3, DummyFree
      <4> QED
        BY <4>1, SameKept
    <3>4. CASE ~(j = 0 /\ (i = 1 \/ (LastIsEmpty /\ i = Len(slices))))
      <4>1. slices'[i].a[j] = slices[i].a[j] /\ slices'[i].b[j] = slices[i].b[j]
        BY <1>g, <2>1, <3>1, <3>2, <3>4 DEF FirstInput
      <4> QED
        BY <4>1, SameKept
    <3> QED
      BY <3>3, <3>4
  <2>4. SlicesKept
    BY <1>b, <1>g, <2>1, <2>2, <2>3
  <2> QED
    BY <1>e, <2>1, <2>4
<1>5. CASE FillOpen
  <2>1. UNCHANGED drive /\ phase = "fill" /\ Cutting
    BY <1>5 DEF FillOpen, Cutting
  <2>2. ASSUME NEW i \in 1..Count
        PROVE  slices'[i].cin = slices[i].cin
    BY <1>5, <1>g, <2>1 DEF FillOpen, Slice
  <2>3. ASSUME NEW i \in 1..Count, NEW j \in 0..S - 1
        PROVE  Kept(slices[i].a[j], slices'[i].a[j]) /\ Kept(slices[i].b[j], slices'[i].b[j])
    <3>1. slices[i] \in Slice /\ SliceWidth = S
      BY <1>g, <2>1
    <3>2. /\ slices'[i].a[j] =
               IF slices[i].a[j] = Open THEN Filler(i - 1, j) ELSE slices[i].a[j]
          /\ slices'[i].b[j] =
               IF slices[i].b[j] = Open THEN Filler(i - 1, S + j) ELSE slices[i].b[j]
      BY <1>5, <1>g, <2>1, <3>1 DEF FillOpen, Slice
    <3> QED
      BY <3>2 DEF Kept
  <2>4. SlicesKept
    BY <1>b, <1>g, <2>1, <2>2, <2>3, SameKept
  <2> QED
    BY <1>e, <2>1, <2>4
<1>6. CASE LinkCarry
  <2>1. UNCHANGED drive /\ phase = "link" /\ Cutting
    BY <1>6 DEF LinkCarry, Cutting
  <2>2. ASSUME NEW i \in 1..Count
        PROVE  /\ slices'[i].a = slices[i].a /\ slices'[i].b = slices[i].b
               /\ Kept(slices[i].cin, slices'[i].cin)
    <3>1. slices'[i] = [slices[i] EXCEPT !.cin = CarryIn(i)]
      BY <1>6, <1>g, <2>1 DEF LinkCarry
    <3>2. slices[i] \in Slice
      BY <1>g, <2>1
    <3>3. slices'[i].cin = CarryIn(i)
      BY <3>1, <3>2 DEF Slice
    <3>4. IF i = 1 THEN CarryIn(i) = slices[i].cin ELSE slices[i].cin = Open
      BY <2>1 DEF ChainInv, CarryInv, CarryIn
    <3> QED
      BY <3>1, <3>3, <3>4, SameKept
  <2>3. SlicesKept
    BY <1>b, <1>g, <2>1, <2>2, SameKept
  <2> QED
    BY <1>e, <2>1, <2>3
<1>7. CASE RemapOutputs
  BY <1>7, <1>d, <1>f DEF RemapOutputs, Rippling
<1>8. CASE RippleBit
  <2>1. Rippling /\ index \in 0..node.out - 1 /\ index \in Nat
    BY <1>8, <1>a DEF RippleBit, Rippling, TypeInv, StageInv, TypeOK
  <2>2. slices \in Seq(Slice)
    BY <1>a DEF TypeOK, Slice
  <2>3. \A i \in DOMAIN slices : slices'[i] = slices[i]
    BY <1>8, <2>2 DEF RippleBit
  <2>4. SlicesKept
    BY <2>3, SameKept DEF SlicesKept
  <2>5. ASSUME NEW k \in DOMAIN drive, drive[k].of = "sum"
        PROVE  drive'[k] = drive[k]
    <3>1. PICK i \in 0..index - 1 : k = OutputFor(i)
      BY <2>1, <2>5 DEF ChainInv, DriveInv
    <3>2. i \in 0..node.out - 1 /\ i # index
      BY <1>a, <2>1, <3>1 DEF TypeOK
    <3>3. k # OutputFor(index)
      BY <1>a, <2>1, <3>1, <3>2, OutputOnce
    <3> QED
      BY <1>8, <3>3 DEF RippleBit
  <2> QED
    BY <2>4, <2>5 DEF DrivesKept
<1>9. CASE UNCHANGED vars
  BY <1>9, <1>e, <1>f DEF vars
<1> QED
  BY <1>1, <1>2, <1>3, <1>4, <1>5, <1>6, <1>7, <1>8, <1>9 DEF Next

(***************************************************************************)
(* connect_nodes and remap_pin_to_new_node overwrite what they find, and   *)
(* never find anything: no pin of the design is dropped on the way.        *)
(***************************************************************************)
THEOREM OnceCorrect == Spec => ConnectedOnce
<1>1. ChainInv /\ [Next]_vars => [SlicesKept /\ DrivesKept]_vars
  BY KeptNext
<1> QED
  BY <1>1, ChainCorrect, PTL DEF Spec, ConnectedOnce

-----------------------------------------------------------------------------
(* What the chain is fed with, beside the operands.                        *)

(* The ports of the node, in terms of the node as it came.                 *)
PortsInv ==
  /\ phase = "resolve" =>
       node = [ports |-> 2, a |-> job.a, b |-> job.b, out |-> job.y,
               live_a |-> job.a, live_b |-> job.b]
  /\ phase # "resolve" /\ ~IsSub =>
       /\ node.a = job.a /\ node.b = job.b /\ node.live_a = job.a /\ node.live_b = job.b
       /\ node.out = IF node.ports = 3 THEN Width + 1 ELSE job.y
       /\ \A k \in DOMAIN drive : k >= node.out => drive[k] = Gnd
  /\ phase # "resolve" /\ IsSub =>
       /\ node.live_a = job.a - job.ext_a /\ node.live_b = job.b - job.ext_b
       /\ Width = Larger(node.live_a, node.live_b)

(* The dummy adder and the first carry.                                    *)
DummyInv ==
  Cutting /\ phase \notin {"invert", "start"} =>
    /\ slices[1].a[0] = IF IsSub THEN Gnd ELSE Vcc
    /\ slices[1].b[0] = IF IsSub THEN Vcc ELSE Gnd
    /\ slices[1].cin = IF node.ports = 3 THEN Gnd ELSE Pad

(* The inputs of an addition that no operand reaches: only the dummy has a *)
(* one, and above both operands the two inputs of a position are alike.    *)
FillInv ==
  Cutting /\ ~IsSub =>
    \A i \in 1..Count, j \in 0..S - 1 :
      LET p == (i - 1) * S + j
      IN  /\ slices[i].a[j] = Vcc => p = 0
          /\ slices[i].b[j] # Vcc
          /\ p > Width => slices[i].a[j] = slices[i].b[j]

SoftInv ==
  Rippling =>
    \A i \in 1..index :
      /\ i = 1 => slices[i].cin = FirstCarry
      /\ ~IsSub /\ i > node.b => slices[i].b[0] = Gnd

FedInv == PortsInv /\ DummyInv /\ FillInv /\ SoftInv

(* The ports are set once, when the node is resolved.                      *)
LEMMA PortsNext == ChainInv /\ PortsInv /\ [Next]_vars => PortsInv'
<1> SUFFICES ASSUME ChainInv, PortsInv, [Next]_vars PROVE PortsInv'
  OBVIOUS
<1>a. TypeInv /\ TypeOK /\ IsJob(job) /\ NodeInv
  BY JobFacts DEF ChainInv, TypeInv
<1>1. CASE ResolveAdd
  <2>1. /\ ~IsSub /\ IsSub' = IsSub /\ phase = "resolve" /\ phase' = "list" /\ job' = job
    BY <1>1 DEF ResolveAdd, IsSub
  <2>2. node = [ports |-> 2, a |-> job.a, b |-> job.b, out |-> job.y,
                live_a |-> job.a, live_b |-> job.b]
    BY <2>1 DEF PortsInv
  <2>3. CASE job.hard
    <3>1. node' = [node EXCEPT !.ports = 3, !.out = Width + 1]
          /\ drive' = NewOutputs(Width + 1, Gnd)
      BY <1>1, <2>3 DEF ResolveAdd, SumWidth
    <3>2. /\ node'.a = job.a /\ node'.b = job.b /\ node'.live_a = job.a /\ node'.live_b = job.b
          /\ node'.ports = 3 /\ node'.out = Width + 1 /\ node'.a = node.a /\ node'.b = node.b
      BY <2>2, <3>1
    <3>3. Width' = Width
      BY <3>2 DEF Width
    <3>4. \A k \in DOMAIN drive' : k >= node'.out => drive'[k] = Gnd
      <4>1. Width + 1 \in Nat /\ job.y \in Nat
        BY <1>a, Sizes DEF IsJob
      <4> QED BY <3>1, <3>2, <4>1 DEF NewOutputs
    <3> QED BY <2>1, <3>2, <3>3, <3>4 DEF PortsInv
  <2>4. CASE ~job.hard
    <3>1. UNCHANGED <<node, drive>>
      BY <1>1, <2>4 DEF ResolveAdd
    <3>2. DOMAIN drive = 0..job.y - 1 /\ job.y \in Nat
      BY <1>a, <2>2 DEF TypeOK, Larger, IsJob
    <3> QED BY <2>1, <2>2, <3>1, <3>2 DEF PortsInv
  <2> QED BY <2>3, <2>4
<1>2. CASE ResolveSub
  <2> DEFINE live_a == job.a - job.ext_a
             live_b == job.b - job.ext_b
             w == Larger(live_a, live_b)
  <2>1. IsSub /\ IsSub' /\ phase' = "list" /\ job' = job
    BY <1>2 DEF ResolveSub, IsSub
  <2>2. node' = [ports |-> 2, a |-> w, b |-> w, out |-> w, live_a |-> live_a, live_b |-> live_b]
    BY <1>2 DEF ResolveSub
  <2> HIDE DEF w
  <2>3. Width' = w
    BY <2>2 DEF Width, Larger
  <2> QED BY <2>1, <2>2, <2>3 DEF PortsInv, w
<1>3. CASE UNCHANGED vars
  BY <1>3, SameNode DEF vars, PortsInv
<1>4. CASE CutNode \/ ConnectInverters \/ StartChain \/ FillOpen \/ LinkCarry \/ LeaveNode
  <2>1. UNCHANGED <<job, node, drive>> /\ phase # "resolve" /\ phase' # "resolve"
    BY <1>4 DEF CutNode, ConnectInverters, StartChain, FillOpen, LinkCarry, LeaveNode
  <2> QED BY <2>1, SameNode DEF PortsInv
<1>5. CASE RemapOutputs
  <2>1. UNCHANGED <<job, node>> /\ phase # "resolve" /\ phase' # "resolve"
    BY <1>5 DEF RemapOutputs
  <2>2. DOMAIN drive' = DOMAIN drive
        /\ \A k \in DOMAIN drive : k >= node.out => drive'[k] = drive[k]
    BY <1>5 DEF RemapOutputs
  <2> QED BY <2>1, <2>2, SameNode DEF PortsInv
<1>6. CASE RippleBit
  <2>1. UNCHANGED <<job, node>> /\ phase # "resolve" /\ phase' # "resolve" /\ index < node.out
    BY <1>6, <1>a DEF RippleBit, TypeInv, StageInv
  <2>2. index \in 0..node.out - 1 /\ node.out \in Nat
    BY <1>a, <2>1 DEF TypeOK
  <2>3. drive' = [drive EXCEPT ![OutputFor(index)] = Sum(index)]
        /\ OutputFor(index) \in 0..node.out - 1
    BY <1>6, <1>a, <2>2, OutputOnce DEF RippleBit
  <2>4. DOMAIN drive' = DOMAIN drive
        /\ \A k \in DOMAIN drive : k >= node.out => drive'[k] = drive[k]
    BY <2>2, <2>3
  <2> QED BY <2>1, <2>4, SameNode DEF PortsInv
<1> QED BY <1>1, <1>2, <1>3, <1>4, <1>5, <1>6 DEF Next

(* The dummy is made when the chain is started, and kept.                  *)
LEMMA DummyNext == ChainInv /\ ChainInv' /\ DummyInv /\ [Next]_vars => DummyInv'
<1> SUFFICES ASSUME ChainInv, ChainInv', DummyInv, [Next]_vars, Cutting',
                    phase' \notin {"invert", "start"}
             PROVE  /\ slices'[1].a[0] = IF IsSub' THEN Gnd ELSE Vcc
                    /\ slices'[1].b[0] = IF IsSub' THEN Vcc ELSE Gnd
                    /\ slices'[1].cin = IF node'.ports = 3 THEN Gnd ELSE Pad
  BY DEF DummyInv
<1>a. TypeInv /\ TypeOK
  BY DEF ChainInv, TypeInv
<1>1. CASE StartChain
  <2>1. UNCHANGED <<job, node>> /\ phase = "start" /\ Cutting
    BY <1>1 DEF StartChain, Cutting
  <2>2. /\ DOMAIN slices = 1..Count /\ Len(slices) = Count /\ Count \in Nat \ {0}
        /\ S \in Nat \ {0}
        /\ slices[1].a \in [0..S - 1 -> Sources] /\ slices[1].b \in [0..S - 1 -> Sources]
    BY <1>a, <2>1, CutShape
  <2>3. ~(LastIsEmpty /\ 1 = Len(slices))
    <3>1. SUFFICES ASSUME LastIsEmpty, Count = 1 PROVE FALSE
      BY <2>2
    <3>2. (Count - 1) * S > node.a /\ node.a \in Nat
      BY <1>a, <3>1, LastSlice DEF TypeOK
    <3>3. (Count - 1) * S = 0
      BY <2>2, <3>1
    <3> QED BY <3>2, <3>3
  <2>4. 1 \in 1..Count /\ 0 \in 0..S - 1 /\ IsSub' = IsSub
    BY <2>1, <2>2, SameNode
  <2>5. slices'[1] =
          [a |-> [slices[1].a EXCEPT
                    ![0] = FirstInput(1, IF IsSub THEN Gnd ELSE Vcc, slices[1].a[0])],
           b |-> [slices[1].b EXCEPT
                    ![0] = FirstInput(1, IF IsSub THEN Vcc ELSE Gnd, slices[1].b[0])],
           cin |-> IF node.ports = 3 THEN Gnd ELSE Pad]
    BY <1>1, <2>2, <2>4 DEF StartChain
  <2>6. \A d, o : FirstInput(1, d, o) = d
    BY <2>3 DEF FirstInput
  <2>7. /\ slices'[1].a[0] = FirstInput(1, IF IsSub THEN Gnd ELSE Vcc, slices[1].a[0])
        /\ slices'[1].b[0] = FirstInput(1, IF IsSub THEN Vcc ELSE Gnd, slices[1].b[0])
        /\ slices'[1].cin = IF node.ports = 3 THEN Gnd ELSE Pad
    BY <2>2, <2>4, <2>5
  <2> QED BY <2>1, <2>4, <2>6, <2>7
<1>2. CASE FillOpen
  <2>1. UNCHANGED <<job, node>> /\ phase = "fill" /\ Cutting
    BY <1>2 DEF FillOpen, Cutting
  <2>2. /\ DOMAIN slices = 1..Count /\ Count \in Nat \ {0} /\ S \in Nat \ {0}
        /\ slices[1] \in Slice /\ SliceWidth = S
    BY <1>a, <2>1, CutShape
  <2>3. 1 \in 1..Count /\ 0 \in 0..S - 1 /\ IsSub' = IsSub
    BY <2>1, <2>2, SameNode
  <2>4. /\ slices'[1].a[0] = (IF slices[1].a[0] = Open THEN Filler(1 - 1, 0) ELSE slices[1].a[0])
        /\ slices'[1].b[0] =
             (IF slices[1].b[0] = Open THEN Filler(1 - 1, S + 0) ELSE slices[1].b[0])
        /\ slices'[1].cin = slices[1].cin
    BY <1>2, <2>2, <2>3 DEF FillOpen, Slice
  <2>5. Gnd # Open /\ Vcc # Open
    BY NotOpen
  <2> QED BY <2>1, <2>3, <2>4, <2>5 DEF DummyInv
<1>3. CASE LinkCarry
  <2>1. UNCHANGED <<job, node>> /\ phase = "link" /\ Cutting
    BY <1>3 DEF LinkCarry, Cutting
  <2>2. /\ DOMAIN slices = 1..Count /\ Count \in Nat \ {0} /\ slices[1] \in Slice
    BY <1>a, <2>1, CutShape
  <2>3. 1 \in 1..Count /\ IsSub' = IsSub
    BY <2>1, <2>2, SameNode
  <2>4. slices'[1] = [slices[1] EXCEPT !.cin = slices[1].cin]
    BY <1>3, <2>2, <2>3 DEF LinkCarry, CarryIn
  <2>5. slices'[1].a = slices[1].a /\ slices'[1].b = slices[1].b /\ slices'[1].cin = slices[1].cin
    BY <2>2, <2>4 DEF Slice
  <2> QED BY <2>1, <2>3, <2>5 DEF DummyInv
<1>4. CASE RemapOutputs
  <2>1. UNCHANGED <<job, node, slices>> /\ phase = "remap" /\ Cutting
    BY <1>4 DEF RemapOutputs, Cutting
  <2> QED BY <2>1, SameNode DEF DummyInv
<1>5. CASE UNCHANGED vars
  <2>1. UNCHANGED <<job, node, slices, phase>>
    BY <1>5 DEF vars
  <2>2. IsSub' = IsSub /\ IsCut' = IsCut
    BY <2>1, SameNode
  <2> QED BY <2>1, <2>2 DEF DummyInv, Cutting
<1>6. CASE ResolveAdd \/ ResolveSub \/ CutNode \/ ConnectInverters \/ LeaveNode
  BY <1>6 DEF ResolveAdd, ResolveSub, CutNode, ConnectInverters, LeaveNode, Cutting
<1>7. CASE RippleBit
  <2>1. UNCHANGED <<job, node>> /\ phase' \in {"ripple", "done"} /\ ~IsCut
    BY <1>7, <1>a DEF RippleBit, TypeInv, StageInv
  <2> QED BY <2>1, SameNode DEF Cutting
<1> QED BY <1>1, <1>2, <1>3, <1>4, <1>5, <1>6, <1>7 DEF Next

(* What FillInv says of one position.                                      *)
Fill(i, j) ==
  LET p == (i - 1) * S + j
  IN  /\ slices[i].a[j] = Vcc => p = 0
      /\ slices[i].b[j] # Vcc
      /\ p > Width => slices[i].a[j] = slices[i].b[j]

(* The sources without a bit differ.                                       *)
LEMMA Distinct ==
  /\ Gnd # Vcc /\ Pad # Vcc /\ Open # Vcc /\ Gnd # Pad
  /\ \A k : PinA(k) # Vcc /\ PinB(k) # Vcc
  BY DEF Gnd, Vcc, Pad, Open, PinA, PinB, Pin, Source

(* Filling treats the two inputs of a position above both operands alike.  *)
LEMMA FillNext == ChainInv /\ ChainInv' /\ FillInv /\ [Next]_vars => FillInv'
<1> SUFFICES ASSUME ChainInv, ChainInv', FillInv, [Next]_vars, Cutting', ~IsSub'
             PROVE  \A i \in 1..Count', j \in 0..S' - 1 : Fill(i, j)'
  BY DEF FillInv, Fill
<1>a. TypeInv /\ TypeOK /\ Width \in Nat \ {0} /\ Width >= node.a /\ Width >= node.b
  BY Sizes DEF ChainInv, TypeInv
<1>b. ASSUME Cutting, ~IsSub
      PROVE  /\ \A i \in 1..Count, j \in 0..S - 1 : Layout(i, j) /\ Fill(i, j)
             /\ DOMAIN slices = 1..Count /\ Len(slices) = Count
             /\ Count \in Nat \ {0} /\ S \in Nat \ {0} /\ SliceWidth = S
             /\ \A i \in 1..Count : slices[i] \in Slice
             /\ \A i \in 1..Count : slices[i].a \in [0..S - 1 -> Sources]
                                 /\ slices[i].b \in [0..S - 1 -> Sources]
  BY <1>a, <1>b, CutShape DEF ChainInv, LayoutInv, Layout, FillInv, Fill
<1>c. ASSUME NEW i \in Nat, NEW j \in Nat, UNCHANGED <<job, node>>,
             slices'[i].a[j] = slices[i].a[j] \/ slices'[i].a[j] \in {Open, Gnd, Pad},
             slices'[i].b[j] = slices[i].b[j] \/ slices'[i].b[j] \in {Open, Gnd, Pad},
             (i - 1) * S + j > Width => slices'[i].a[j] = slices'[i].b[j],
             Fill(i, j)
      PROVE  Fill(i, j)'
  <2>1. S' = S /\ Width' = Width
    BY <1>c, SameNode
  <2>2. slices'[i].a[j] = Vcc => slices[i].a[j] = Vcc
    BY <1>c, Distinct
  <2>3. slices'[i].b[j] = Vcc => slices[i].b[j] = Vcc
    BY <1>c, Distinct
  <2> QED BY <1>c, <2>1, <2>2, <2>3 DEF Fill
<1>1. CASE CutNode
  <2>1. UNCHANGED <<job, node>> /\ IsCut
    BY <1>1 DEF CutNode
  <2>2. Count' = Count /\ S' = S /\ Width' = Width /\ ~IsSub
    BY <2>1, SameNode
  <2>3. S \in Nat \ {0} /\ Count \in Nat \ {0} /\ node.a \in Nat /\ node.b \in Nat
    BY <1>a, Sizes, SlicesExist DEF TypeOK
  <2>4. ASSUME NEW i \in 1..Count, NEW j \in 0..S - 1
        PROVE  Fill(i, j)'
    <3> DEFINE p == (i - 1) * S + j
    <3>1. /\ slices'[i].a[j] = OperandSource(i - 1, j, node.a, PinA((i - 1) * S + j - 1))
          /\ slices'[i].b[j] = OperandSource(i - 1, j, node.b, PinB((i - 1) * S + j - 1))
      BY <1>1, <2>2 DEF CutNode
    <3>2. /\ slices'[i].a[j] = IF p \in 1..node.a THEN PinA(p - 1) ELSE Open
          /\ slices'[i].b[j] = IF p \in 1..node.b THEN PinB(p - 1) ELSE Open
      <4>1. (i - 1) * S + j - 1 = p - 1
        BY <2>3
      <4> QED BY <3>1, <4>1 DEF OperandSource
    <3>3. Fill(i, j)' = (/\ slices'[i].a[j] = Vcc => p = 0
                         /\ slices'[i].b[j] # Vcc
                         /\ p > Width => slices'[i].a[j] = slices'[i].b[j])
      BY <2>2 DEF Fill
    <3>4. p \in Int
      BY <2>3
    <3> HIDE DEF p
    <3>5. p > Width => p \notin 1..node.a /\ p \notin 1..node.b
      BY <1>a, <2>3, <3>4
    <3> QED BY <3>2, <3>3, <3>5, Distinct
  <2> QED BY <2>2, <2>4
<1>2. CASE StartChain
  <2>1. UNCHANGED <<job, node>> /\ phase = "start" /\ phase' = "fill" /\ Cutting
    BY <1>2 DEF StartChain, Cutting
  <2>2. Count' = Count /\ S' = S /\ ~IsSub /\ Width' = Width
    BY <2>1, SameNode
  <2>3. ASSUME NEW i \in 1..Count, NEW j \in 0..S - 1
        PROVE  Fill(i, j)'
    <3>0. i \in Nat /\ j \in Nat /\ S \in Nat \ {0} /\ Count \in Nat \ {0}
      BY <1>b, <2>1, <2>2
    <3>1. /\ slices'[i].a = [slices[i].a EXCEPT ![0] = FirstInput(i, Vcc, slices[i].a[0])]
          /\ slices'[i].b = [slices[i].b EXCEPT ![0] = FirstInput(i, Gnd, slices[i].b[0])]
      BY <1>2, <1>b, <2>1, <2>2 DEF StartChain
    <3>2. slices[i].a \in [0..S - 1 -> Sources] /\ slices[i].b \in [0..S - 1 -> Sources]
      BY <1>b, <2>1, <2>2
    <3>3. Fill(i, j)
      BY <1>b, <2>1, <2>2
    <3>4. CASE j # 0
      <4>1. slices'[i].a[j] = slices[i].a[j] /\ slices'[i].b[j] = slices[i].b[j]
        BY <3>1, <3>2, <3>4
      <4> QED BY <1>c, <2>1, <3>0, <3>3, <4>1 DEF Fill
    <3>5. CASE j = 0
      <4>1. /\ slices'[i].a[j] = FirstInput(i, Vcc, slices[i].a[j])
            /\ slices'[i].b[j] = FirstInput(i, Gnd, slices[i].b[j])
        BY <3>0, <3>1, <3>2, <3>5
      <4>2. CASE LastIsEmpty /\ i = Len(slices)
        <5>1. slices'[i].a[j] = Gnd /\ slices'[i].b[j] = Gnd
          BY <4>1, <4>2 DEF FirstInput
        <5> QED BY <1>c, <2>1, <3>0, <3>3, <5>1
      <4>3. CASE ~(LastIsEmpty /\ i = Len(slices)) /\ i = 1
        <5>1. slices'[i].a[j] = Vcc /\ slices'[i].b[j] = Gnd
          BY <4>1, <4>3 DEF FirstInput
        <5>2. (i - 1) * S + j = 0
          BY <3>0, <3>5, <4>3
        <5> QED BY <1>a, <2>2, <5>1, <5>2, Distinct DEF Fill
      <4>4. CASE ~(LastIsEmpty /\ i = Len(slices)) /\ i # 1
        <5>1. slices'[i].a[j] = slices[i].a[j] /\ slices'[i].b[j] = slices[i].b[j]
          BY <4>1, <4>4 DEF FirstInput
        <5> QED BY <1>c, <2>1, <3>0, <3>3, <5>1 DEF Fill
      <4> QED BY <4>2, <4>3, <4>4
    <3> QED BY <3>4, <3>5
  <2> QED BY <2>2, <2>3
<1>3. CASE FillOpen
  <2>1. UNCHANGED <<job, node>> /\ phase = "fill" /\ phase' = "link" /\ Cutting
    BY <1>3 DEF FillOpen, Cutting
  <2>2. Count' = Count /\ S' = S /\ ~IsSub
    BY <2>1, SameNode
  <2>3. ASSUME NEW i \in 1..Count, NEW j \in 0..S - 1
        PROVE  Fill(i, j)'
    <3>0. i \in Nat /\ j \in Nat
      BY <1>b, <2>1, <2>2
    <3>1. /\ slices'[i].a[j] =
               IF slices[i].a[j] = Open THEN Filler(i - 1, j) ELSE slices[i].a[j]
          /\ slices'[i].b[j] =
               IF slices[i].b[j] = Open THEN Filler(i - 1, S + j) ELSE slices[i].b[j]
      BY <1>3, <1>b, <2>1, <2>2 DEF FillOpen, Slice
    <3>2. \A k, l : Filler(k, l) = Pad
      BY <2>2 DEF Filler
    <3>3. Fill(i, j)
      BY <1>b, <2>1, <2>2
    <3>4. (i - 1) * S + j > Width => slices'[i].a[j] = slices'[i].b[j]
      BY <3>1, <3>2, <3>3 DEF Fill
    <3>5. /\ slices'[i].a[j] = slices[i].a[j] \/ slices'[i].a[j] = Pad
          /\ slices'[i].b[j] = slices[i].b[j] \/ slices'[i].b[j] = Pad
      BY <3>1, <3>2
    <3> QED BY <1>c, <2>1, <3>0, <3>3, <3>4, <3>5
  <2> QED BY <2>2, <2>3
<1>4. CASE LinkCarry
  <2>1. UNCHANGED <<job, node>> /\ phase = "link" /\ phase' = "remap" /\ Cutting
    BY <1>4 DEF LinkCarry, Cutting
  <2>2. Count' = Count /\ S' = S /\ ~IsSub
    BY <2>1, SameNode
  <2>3. ASSUME NEW i \in 1..Count, NEW j \in 0..S - 1
        PROVE  Fill(i, j)'
    <3>0. i \in Nat /\ j \in Nat
      BY <1>b, <2>1, <2>2
    <3>1. slices'[i] = [slices[i] EXCEPT !.cin = CarryIn(i)]
      BY <1>4, <1>b, <2>1, <2>2 DEF LinkCarry
    <3>2. slices'[i].a[j] = slices[i].a[j] /\ slices'[i].b[j] = slices[i].b[j]
      BY <3>1
    <3>3. Fill(i, j)
      BY <1>b, <2>1, <2>2
    <3> QED BY <1>c, <2>1, <3>0, <3>2, <3>3 DEF Fill
  <2> QED BY <2>2, <2>3
<1>5. CASE RemapOutputs \/ UNCHANGED vars
  <2>1. UNCHANGED <<job, node, slices>>
    BY <1>5 DEF RemapOutputs, vars
  <2>2. Count' = Count /\ S' = S /\ ~IsSub /\ IsCut' = IsCut /\ Width' = Width
    BY <2>1, SameNode
  <2>3. Cutting
    BY <1>5, <2>1, <2>2 DEF RemapOutputs, vars, Cutting
  <2> QED BY <1>b, <2>1, <2>2, <2>3 DEF Fill
<1>6. CASE ResolveAdd \/ ResolveSub \/ LeaveNode
  BY <1>6 DEF ResolveAdd, ResolveSub, LeaveNode, Cutting
<1>7. CASE RippleBit
  <2>1. UNCHANGED <<job, node>> /\ phase' \in {"ripple", "done"} /\ ~IsCut
    BY <1>7, <1>a DEF RippleBit, TypeInv, StageInv
  <2> QED BY <2>1, SameNode DEF Cutting
<1>8. CASE ConnectInverters
  <2>1. UNCHANGED <<job, node>> /\ Cutting /\ phase = "invert"
    BY <1>8 DEF ConnectInverters, Cutting
  <2>2. IsSub
    BY <2>1 DEF ChainInv, LayoutInv
  <2> QED BY <2>1, <2>2, SameNode
<1> QED BY <1>1, <1>2, <1>3, <1>4, <1>5, <1>6, <1>7, <1>8 DEF Next

(* A soft adder is fed with the first carry and the grounds.               *)
LEMMA SoftNext == ChainInv /\ SoftInv /\ [Next]_vars => SoftInv'
<1> SUFFICES ASSUME ChainInv, SoftInv, [Next]_vars, Rippling'
             PROVE  \A i \in 1..index' : /\ i = 1 => slices'[i].cin = FirstCarry'
                                         /\ ~IsSub' /\ i > node'.b => slices'[i].b[0] = Gnd
  BY DEF SoftInv
<1>a. TypeInv /\ TypeOK /\ slices \in Seq(Slice)
  BY DEF ChainInv, TypeInv, TypeOK, Slice
<1>1. CASE LeaveNode
  <2>1. index' = 0
    BY <1>1, <1>a DEF LeaveNode, TypeInv, StageInv
  <2> QED BY <2>1
<1>2. CASE RippleBit
  <2>1. /\ UNCHANGED <<job, node>> /\ Rippling /\ index' = index + 1 /\ index \in Nat
        /\ Len(slices) = index /\ node.b \in Nat
    BY <1>2, <1>a DEF RippleBit, Rippling, TypeOK, ChainInv, RippleInv
  <2>2. IsSub' = IsSub /\ FirstCarry' = FirstCarry
    BY <2>1, SameNode DEF FirstCarry
  <2> DEFINE missing == IF IsSub THEN Vcc ELSE Gnd
             bit == IF index < node.b THEN PinB(index) ELSE missing
             one == IF index < node.a THEN PinA(index) ELSE Gnd
             two == IF IsSub /\ index < node.b THEN Invert(bit) ELSE bit
             carry == IF index = 0 THEN FirstCarry ELSE Cout(index - 1)
             adder == [a |-> [j \in {0} |-> one], b |-> [j \in {0} |-> two], cin |-> carry]
  <2>3. slices' = Append(slices, adder)
    BY <1>2 DEF RippleBit
  <2>4. index = 0 => adder.cin = FirstCarry
    OBVIOUS
  <2>5. ~IsSub /\ index >= node.b => adder.b[0] = Gnd
    BY <2>1
  <2> HIDE DEF adder
  <2>6. slices'[index + 1] = adder /\ \A i \in 1..index : slices'[i] = slices[i]
    BY <1>a, <2>1, <2>3
  <2>7. ASSUME NEW i \in 1..index'
        PROVE  /\ i = 1 => slices'[i].cin = FirstCarry
               /\ ~IsSub /\ i > node.b => slices'[i].b[0] = Gnd
    <3>1. CASE i \in 1..index
      BY <2>1, <2>6, <3>1 DEF SoftInv
    <3>2. CASE i = index + 1
      BY <2>1, <2>4, <2>5, <2>6, <3>2
    <3> QED BY <2>1, <3>1, <3>2
  <2> QED BY <2>1, <2>2, <2>7
<1>3. CASE UNCHANGED vars
  <2>1. UNCHANGED <<job, node, slices, index, phase>>
    BY <1>3 DEF vars
  <2>2. IsSub' = IsSub /\ FirstCarry' = FirstCarry /\ IsCut' = IsCut
    BY <2>1, SameNode DEF FirstCarry
  <2> QED BY <2>1, <2>2 DEF SoftInv, Rippling
<1>4. CASE RemapOutputs
  <2>1. UNCHANGED <<job, node>> /\ phase = "remap" /\ IsCut
    BY <1>4, <1>a DEF RemapOutputs, TypeInv, StageInv
  <2> QED BY <1>4, <2>1, SameNode DEF RemapOutputs, Rippling
<1>5. CASE ResolveAdd \/ ResolveSub \/ CutNode \/ ConnectInverters \/ StartChain \/ FillOpen
           \/ LinkCarry
  BY <1>5 DEF ResolveAdd, ResolveSub, CutNode, ConnectInverters, StartChain, FillOpen,
              LinkCarry, Rippling
<1> QED BY <1>1, <1>2, <1>3, <1>4, <1>5 DEF Next

(* Nothing is fed to a node that just came.                                *)
LEMMA FedInit == Init => FedInv
<1> SUFFICES ASSUME Init PROVE FedInv
  OBVIOUS
<1>1. phase \in {"resolve", "list"} /\ index = 0 /\ IsJob(job) /\ TypeOK
  BY ChainInit, JobFacts DEF Init, ChainInv
<1>2. DummyInv /\ FillInv /\ SoftInv
  BY <1>1 DEF DummyInv, FillInv, SoftInv, Cutting, Rippling
<1>3. PortsInv
  <2>1. /\ node = [ports |-> 2, a |-> job.a, b |-> job.b, out |-> job.y,
                   live_a |-> job.a, live_b |-> job.b]
        /\ DOMAIN drive = 0..job.y - 1 /\ job.y \in Nat
    BY <1>1 DEF Init, IsJob
  <2>2. phase # "resolve" => ~IsSub
    BY <1>1 DEF Init, IsJob, IsSub
  <2>3. \A k \in DOMAIN drive : ~(k >= job.y)
    BY <2>1
  <2>4. /\ node.a = job.a /\ node.b = job.b /\ node.live_a = job.a /\ node.live_b = job.b
        /\ node.out = job.y /\ node.ports = 2
    BY <2>1
  <2> QED BY <2>1, <2>2, <2>3, <2>4 DEF PortsInv
<1> QED BY <1>2, <1>3 DEF FedInv

(***************************************************************************)
(* What every input without an operand bit is tied to, for every width and *)
(* every hard adder.                                                       *)
(***************************************************************************)
THEOREM FillersCorrect == Spec => []FedInv
<1>1. ChainInv /\ ChainInv' /\ FedInv /\ [Next]_vars => FedInv'
  BY PortsNext, DummyNext, FillNext, SoftNext DEF FedInv
<1> QED BY <1>1, FedInit, ChainCorrect, PTL DEF Spec

-----------------------------------------------------------------------------
(* The carries.                                                            *)

(* The chain of a node that is done.                                       *)
LEMMA ChainShape ==
  ASSUME ChainInv, phase = "done"
  PROVE  /\ SliceWidth \in Nat \ {0} /\ Len(slices) \in Nat \ {0}
         /\ DOMAIN slices = 1..Len(slices)
         /\ \A i \in 1..Len(slices) : slices[i] \in Slice
         /\ 0 \in Positions /\ Positions = 0..Len(slices) * SliceWidth - 1
         /\ \A i \in 1..Len(slices) :
              IF i = 1 THEN slices[i].cin.of \in {"gnd", "vcc", "pad"}
                       ELSE slices[i].cin = Cout(i - 2)
<1>1. TypeInv /\ TypeOK
  BY DEF ChainInv, TypeInv
<1>2. SliceWidth \in Nat \ {0}
  BY <1>1, Sizes
<1>3. slices \in Seq(Slice)
  BY <1>1 DEF TypeOK, Slice
<1>4. Len(slices) \in Nat /\ DOMAIN slices = 1..Len(slices)
      /\ \A i \in 1..Len(slices) : slices[i] \in Slice
  BY <1>3
<1>5. Len(slices) # 0
  <2>1. CASE IsCut
    <3>1. Cutting
      BY <2>1 DEF Cutting
    <3> QED BY <1>1, <3>1, CutShape
  <2>2. CASE ~IsCut
    <3>1. Rippling
      BY <2>2 DEF Rippling
    <3>2. Len(slices) = index /\ index = node.out /\ node.out # 0
      BY <1>1, <3>1 DEF ChainInv, RippleInv, TypeOK
    <3> QED BY <3>2
  <2> QED BY <2>1, <2>2
<1>6. 0 \in Positions
  <2>1. Len(slices) * SliceWidth \in Nat \ {0}
    BY <1>2, <1>4, <1>5
  <2> QED BY <2>1 DEF Positions
<1>7. \A i \in DOMAIN slices : IF i = 1 THEN slices[i].cin.of \in {"gnd", "vcc", "pad"}
                                        ELSE slices[i].cin = Cout(i - 2)
  BY Connected DEF ChainConnected
<1> QED BY <1>2, <1>4, <1>5, <1>6, <1>7 DEF Positions

(* A source carries a bit.                                                 *)
LEMMA ValueType ==
  ASSUME NEW s \in Sources, NEW x \in Nat, NEW z \in Nat, NEW pad \in {0, 1}
  PROVE  Value(s, x, z, pad) \in {0, 1}
<1>1. s.bit \in Nat
  BY DEF Sources
<1>2. Bit(x, s.bit) \in {0, 1} /\ Bit(z, s.bit) \in {0, 1}
  <2>1. PICK k \in Nat : k = s.bit
    BY <1>1
  <2>2. Bit(x, k) \in {0, 1} /\ Bit(z, k) \in {0, 1}
    BY BitStep
  <2> QED BY <2>1, <2>2
<1> DEFINE v == CASE s.of = "a" -> Bit(x, s.bit)
                  [] s.of = "b" -> Bit(z, s.bit)
                  [] s.of = "vcc" -> 1
                  [] s.of = "pad" -> pad
                  [] OTHER -> 0
<1>3. v \in {0, 1}
  BY <1>2
<1>4. Value(s, x, z, pad) = IF s.inv THEN 1 - v ELSE v
  BY DEF Value
<1> HIDE DEF v
<1> QED BY <1>3, <1>4

(* Where the carry into a position comes from: the position below.         *)
CarryFrom(p) ==
  IF p % SliceWidth # 0 THEN p - 1 ELSE At(p).cin.bit * SliceWidth + SliceWidth - 1

(* The carry into a position comes from the position below it.             *)
LEMMA CarryLinked ==
  ASSUME ChainInv, phase = "done", NEW p \in Positions
  PROVE  /\ SourceA(p) \in Sources /\ SourceB(p) \in Sources
         /\ p = 0 => p % SliceWidth = 0 /\ At(p) = slices[1] /\ At(p).cin.of # "cout"
         /\ p # 0 => /\ p - 1 \in Positions /\ CarryFrom(p) = p - 1
                     /\ p % SliceWidth = 0 => At(p).cin.of = "cout"
<1> DEFINE w == SliceWidth
           n == Len(slices)
           d == p \div w
           r == p % w
<1>1. w \in Nat \ {0} /\ n \in Nat \ {0} /\ Positions = 0..n * w - 1
  BY ChainShape
<1>2. p \in Nat /\ p < n * w /\ n * w \in Nat
  <2>1. n * w \in Nat
    BY <1>1
  <2> QED BY <1>1, <2>1
<1>3. d \in Nat /\ r \in 0..w - 1 /\ p = w * d + r
  BY <1>1, <1>2, Division, Zenon
<1>4. At(p) = slices[d + 1] /\ SourceA(p) = At(p).a[r] /\ SourceB(p) = At(p).b[r]
  BY DEF At, SourceA, SourceB
<1>5. CarryFrom(p) = IF r # 0 THEN p - 1 ELSE At(p).cin.bit * w + w - 1
  BY DEF CarryFrom
<1> HIDE DEF d, r, w, n
<1>6. d < n
  <2>1. ASSUME d >= n PROVE FALSE
    <3>1. w * d >= w * n
      BY <1>1, <1>3, <2>1
    <3>2. w * d \in Nat /\ w * n = n * w
      BY <1>1, <1>3
    <3> QED BY <1>2, <1>3, <3>1, <3>2
  <2> QED BY <1>1, <1>3, <2>1
<1>7. d + 1 \in 1..n
  BY <1>1, <1>3, <1>6
<1>8. slices[d + 1] \in Slice
  BY <1>7, ChainShape DEF n
<1>9. SourceA(p) \in Sources /\ SourceB(p) \in Sources
  BY <1>3, <1>4, <1>8 DEF Slice, w
<1>10. ASSUME p = 0
       PROVE  r = 0 /\ d = 0
  <2>1. w * d \in Nat
    BY <1>1, <1>3
  <2>2. w * d = 0 /\ r = 0
    BY <1>1, <1>3, <1>10, <2>1
  <2>3. d # 0 => w * d >= w
    BY <1>1, <1>3
  <2> QED BY <1>1, <2>2, <2>3
<1>11. ASSUME p = 0
       PROVE  At(p) = slices[1] /\ At(p).cin.of # "cout"
  <2>1. At(p) = slices[1]
    BY <1>4, <1>10, <1>11
  <2>2. slices[1].cin.of \in {"gnd", "vcc", "pad"}
    <3>1. 1 \in 1..n
      BY <1>1
    <3> QED BY <3>1, ChainShape DEF n
  <2> QED BY <2>1, <2>2
<1>12. ASSUME p # 0
       PROVE  /\ p - 1 \in Positions /\ CarryFrom(p) = p - 1
              /\ r = 0 => At(p).cin.of = "cout"
  <2>1. p - 1 \in Positions
    BY <1>1, <1>2, <1>12
  <2>2. CASE r # 0
    BY <1>5, <2>1, <2>2
  <2>3. CASE r = 0
    <3>1. d # 0
      BY <1>1, <1>3, <1>12, <2>3
    <3>2. slices[d + 1].cin = Cout((d + 1) - 2)
      BY <1>3, <1>7, <3>1, ChainShape DEF n
    <3>3. At(p).cin.of = "cout" /\ At(p).cin.bit = d - 1
      BY <1>3, <1>4, <3>2 DEF Cout, Source
    <3>4. (d - 1) * w + w - 1 = w * d - 1
      BY <1>1, <1>3
    <3>5. CarryFrom(p) = p - 1
      BY <1>1, <1>3, <1>5, <2>3, <3>3, <3>4
    <3> QED BY <2>1, <3>3, <3>5
  <2> QED BY <2>2, <2>3
<1> QED BY <1>9, <1>10, <1>11, <1>12 DEF r, w

(* The carry into p, given those below.                                    *)
Linked(p, x, z, pad, carry) ==
  IF p = 0 THEN Value(slices[1].cin, x, z, pad)
  ELSE (Value(SourceA(p - 1), x, z, pad) + Value(SourceB(p - 1), x, z, pad)
          + carry[p - 1]) \div 2

(* The carries are a recursion over the positions, which is defined.       *)
LEMMA CarriesUnfold ==
  ASSUME ChainInv, phase = "done", NEW x \in Nat, NEW z \in Nat, NEW pad \in {0, 1}
  PROVE  /\ Carries(x, z, pad) \in [Positions -> Nat]
         /\ \A p \in Positions :
              Carries(x, z, pad)[p] = Linked(p, x, z, pad, Carries(x, z, pad))
<1> DEFINE F == [Positions -> Nat]
           H == [q \in Positions \X F |-> Linked(q[1], x, z, pad, q[2])]
           rank == [p \in Positions |-> p]
           A(p) == Value(SourceA(p), x, z, pad)
           B(p) == Value(SourceB(p), x, z, pad)
           Step(p, f) == IF p % SliceWidth = 0 /\ At(p).cin.of # "cout"
                           THEN Value(At(p).cin, x, z, pad)
                           ELSE (A(CarryFrom(p)) + B(CarryFrom(p)) + f[CarryFrom(p)]) \div 2
           Eq(f) == f = [p \in Positions |-> Step(p, f)]
           C == Carries(x, z, pad)
<1>1. \A p \in Positions : p \in Nat /\ A(p) \in {0, 1} /\ B(p) \in {0, 1}
  <2>1. Len(slices) * SliceWidth \in Nat
    BY ChainShape
  <2>2. \A p \in Positions : p \in Nat
    BY <2>1 DEF Positions
  <2>3. \A p \in Positions : SourceA(p) \in Sources /\ SourceB(p) \in Sources
    BY CarryLinked
  <2> QED BY <2>2, <2>3, ValueType
<1>2. \A p \in Positions : \A f : Step(p, f) = Linked(p, x, z, pad, f)
  <2> SUFFICES ASSUME NEW p \in Positions, NEW f PROVE Step(p, f) = Linked(p, x, z, pad, f)
    OBVIOUS
  <2>1. CASE p = 0
    BY <2>1, CarryLinked DEF Linked
  <2>2. CASE p # 0
    BY <2>2, CarryLinked DEF Linked
  <2> QED BY <2>1, <2>2
<1>3. Value(slices[1].cin, x, z, pad) \in {0, 1}
  <2>1. slices[1] \in Slice
    BY ChainShape
  <2>2. slices[1].cin \in Sources
    BY <2>1 DEF Slice
  <2> QED BY <2>2, ValueType
<1>4. ASSUME NEW p \in Positions, NEW f \in F
      PROVE  Linked(p, x, z, pad, f) \in Nat
  <2>1. CASE p = 0
    BY <1>3, <2>1 DEF Linked
  <2>2. CASE p # 0
    <3>1. p - 1 \in Positions
      BY <2>2, CarryLinked
    <3>2. A(p - 1) \in {0, 1} /\ B(p - 1) \in {0, 1} /\ f[p - 1] \in Nat
      BY <1>1, <3>1
    <3>3. Linked(p, x, z, pad, f) = (A(p - 1) + B(p - 1) + f[p - 1]) \div 2
      BY <2>2 DEF Linked
    <3> HIDE DEF A, B
    <3> QED BY <3>2, <3>3
  <2> QED BY <2>1, <2>2
<1>5. IsRecursion(H, Positions, Nat, rank)
  <2>1. rank \in [Positions -> Nat]
    BY <1>1
  <2>2. H \in [Positions \X [Positions -> Nat] -> Nat]
    BY <1>4
  <2>3. ASSUME NEW p \in Positions, NEW f \in F, NEW g \in F,
               \A e \in Positions : rank[e] < rank[p] => f[e] = g[e]
        PROVE  H[<<p, f>>] = H[<<p, g>>]
    <3>1. p # 0 => f[p - 1] = g[p - 1]
      <4>1. ASSUME p # 0 PROVE p - 1 \in Positions /\ rank[p - 1] < rank[p]
        BY <1>1, <4>1, CarryLinked
      <4> QED BY <2>3, <4>1
    <3>2. Linked(p, x, z, pad, f) = Linked(p, x, z, pad, g)
      BY <3>1 DEF Linked
    <3> QED BY <3>2
  <2> HIDE DEF rank, H
  <2> QED BY <2>1, <2>2, <2>3 DEF IsRecursion
<1>6. \E f \in F : Eq(f)
  <2> HIDE DEF H, rank
  <2>1. \E f \in F : \A p \in Positions : f[p] = H[<<p, f>>]
    BY <1>5, RecursionExists
  <2>2. PICK f \in F : \A p \in Positions : f[p] = H[<<p, f>>]
    BY <2>1
  <2>3. \A p \in Positions : H[<<p, f>>] = Linked(p, x, z, pad, f)
    BY DEF H
  <2>4. \A p \in Positions : f[p] = Step(p, f)
    BY <1>2, <2>2, <2>3
  <2> HIDE DEF Step
  <2> QED BY <2>4
<1>7. C = CHOOSE f : Eq(f)
  BY DEF Carries, CarryFrom
<1>8. Eq(C)
  <2> HIDE DEF Eq, C
  <2> QED BY <1>6, <1>7, Zenon
<1>9. \A p \in Positions : C[p] = Linked(p, x, z, pad, C)
  <2> HIDE DEF Step, C
  <2>1. \A p \in Positions : C[p] = Step(p, C)
    BY <1>8
  <2> QED BY <1>2, <2>1
<1>10. C \in F
  <2> DEFINE R == {p \in Nat : p \in Positions => C[p] \in Nat}
  <2>1. C = [p \in Positions |-> C[p]]
    BY <1>8
  <2> HIDE DEF C
  <2>2. 0 \in R
    BY <1>3, <1>9 DEF Linked
  <2>3. ASSUME NEW p \in R PROVE p + 1 \in R
    <3> SUFFICES ASSUME p + 1 \in Positions PROVE C[p + 1] \in Nat
      OBVIOUS
    <3>1. p \in Nat /\ p + 1 # 0 /\ (p + 1) - 1 = p
      OBVIOUS
    <3>2. p \in Positions
      BY <3>1, CarryLinked
    <3>3. A(p) \in {0, 1} /\ B(p) \in {0, 1} /\ C[p] \in Nat
      BY <1>1, <3>2
    <3>4. C[p + 1] = (A(p) + B(p) + C[p]) \div 2
      BY <1>9, <3>1 DEF Linked
    <3> HIDE DEF A, B
    <3> QED BY <3>3, <3>4
  <2> HIDE DEF R
  <2>4. R = Nat
    <3>1. R \in SUBSET Nat
      BY DEF R
    <3> QED BY <2>2, <2>3, <3>1, SetInduction
  <2>5. \A p \in Positions : C[p] \in Nat
    BY <1>1, <2>4 DEF R
  <2> QED BY <2>1, <2>5
<1> QED BY <1>9, <1>10

(* Positions that hold the bits of two numbers below n, and what makes the *)
(* bits of their sum: the bits at n and the carry.                         *)
HoldsBits(first, n, x, y, z, pad) ==
  \A k \in 0..n - 1 : /\ Value(SourceA(first + k), x, z, pad) = Bit(x, k)
                      /\ Value(SourceB(first + k), x, z, pad) = Bit(y, k)

AddsUp(first, n, x, y, z, pad) ==
  LET C == Carries(x, z, pad)
  IN  /\ C[first + n] \in Int
      /\ (Bit(x, n) + Bit(y, n) + C[first + n]) % 2 = Bit(x + y + C[first], n)

(* A row of positions that hold the bits of two numbers adds them.         *)
LEMMA ChainSum ==
  ASSUME ChainInv, phase = "done", NEW x \in Nat, NEW z \in Nat, NEW pad \in {0, 1},
         NEW y \in Int, NEW first \in Nat, NEW n \in Nat, first + n \in Positions,
         HoldsBits(first, n, x, y, z, pad)
  PROVE  AddsUp(first, n, x, y, z, pad)
<1> DEFINE C == Carries(x, z, pad)
           c == [k \in 0..n |-> C[first + k]]
           A(p) == Value(SourceA(p), x, z, pad)
           B(p) == Value(SourceB(p), x, z, pad)
<1>1. C \in [Positions -> Nat] /\ \A p \in Positions : C[p] = Linked(p, x, z, pad, C)
  BY CarriesUnfold
<1> HIDE DEF C
<1>2. \A k \in 0..n : first + k \in Positions
  <2>1. Len(slices) * SliceWidth \in Nat
    BY ChainShape
  <2> QED BY <2>1 DEF Positions
<1>3. c[0] \in Int /\ c[0] = C[first] /\ c[n] = C[first + n]
  <2>1. 0 \in 0..n /\ n \in 0..n /\ first + 0 = first
    OBVIOUS
  <2>2. first \in Positions
    BY <1>2, <2>1
  <2> QED BY <1>1, <2>1, <2>2
<1>4. ASSUME NEW k \in 0..n - 1
      PROVE  c[k + 1] = (Bit(x, k) + Bit(y, k) + c[k]) \div 2
  <2>1. k \in 0..n /\ k + 1 \in 0..n
    OBVIOUS
  <2>2. first + (k + 1) \in Positions /\ first + (k + 1) # 0 /\ (first + (k + 1)) - 1 = first + k
    BY <1>2, <2>1
  <2>3. C[first + (k + 1)] = (A(first + k) + B(first + k) + C[first + k]) \div 2
    BY <1>1, <2>2 DEF Linked
  <2>4. A(first + k) = Bit(x, k) /\ B(first + k) = Bit(y, k)
    BY DEF HoldsBits
  <2> QED BY <2>1, <2>3, <2>4
<1> HIDE DEF c
<1>5. c[n] \in Int /\ (Bit(x, n) + Bit(y, n) + c[n]) % 2 = Bit(x + y + c[0], n)
  <2>1. x \in Int
    OBVIOUS
  <2>2. \A k \in 0..n - 1 : c[k + 1] = (Bit(x, k) + Bit(y, k) + c[k]) \div 2
    BY <1>4
  <2>3. c[0] \in Int
    BY <1>3
  <2>4. IsRipple(c, x, y, n)
    BY <2>2, <2>3 DEF IsRipple
  <2> QED BY <2>1, <2>4, RippleSum
<1> QED BY <1>3, <1>5 DEF C, AddsUp

(* The constant sources, and the pins with the padding.                    *)
LEMMA SourceValues ==
  ASSUME NEW x, NEW z, NEW pad
  PROVE  /\ Value(Gnd, x, z, pad) = 0 /\ Value(Vcc, x, z, pad) = 1
         /\ Value(Pad, x, z, pad) = pad
         /\ \A k \in Nat : Value(PinA(k), x, z, pad) = IF k < node.live_a THEN Bit(x, k) ELSE pad
         /\ \A k \in Nat : Value(PinB(k), x, z, pad) = IF k < node.live_b THEN Bit(z, k) ELSE pad
         /\ \A k \in Nat : Value(Invert(PinB(k)), x, z, pad)
                     = 1 - (IF k < node.live_b THEN Bit(z, k) ELSE pad)
<1>1. Value(Gnd, x, z, pad) = 0 /\ Value(Vcc, x, z, pad) = 1 /\ Value(Pad, x, z, pad) = pad
  BY DEF Value, Gnd, Vcc, Pad, Source
<1>2. \A k \in Nat : Value(PinA(k), x, z, pad) = IF k < node.live_a THEN Bit(x, k) ELSE pad
  BY DEF Value, PinA, Pin, Pad, Source
<1>3. \A k \in Nat : Value(PinB(k), x, z, pad) = IF k < node.live_b THEN Bit(z, k) ELSE pad
  BY DEF Value, PinB, Pin, Pad, Source
<1>4. \A k \in Nat : Value(Invert(PinB(k)), x, z, pad)
               = 1 - (IF k < node.live_b THEN Bit(z, k) ELSE pad)
  BY DEF Value, PinB, Pin, Pad, Source, Invert
<1> QED BY <1>1, <1>2, <1>3, <1>4

(* What the inputs of a position of a chain are tied to.                   *)
LEMMA CutInput ==
  ASSUME ChainInv, FedInv, phase = "done", IsCut, NEW p \in Positions
  PROVE  /\ p \in 1..node.a => SourceA(p) = PinA(p - 1)
         /\ p \in 1..node.b => SourceB(p) = Operand2(p - 1)
         /\ p = 0 => /\ SourceA(p) = IF IsSub THEN Gnd ELSE Vcc
                     /\ SourceB(p) = IF IsSub THEN Vcc ELSE Gnd
         /\ ~IsSub => /\ p \notin 0..node.a => SourceA(p) \in {Gnd, Pad}
                      /\ p \notin 0..node.b => SourceB(p) \in {Gnd, Pad}
                      /\ p > Width => SourceA(p) = SourceB(p)
<1>1. Cutting /\ TypeInv /\ TypeOK
  BY DEF Cutting, ChainInv, TypeInv
<1>2. S \in Nat \ {0} /\ Count \in Nat \ {0} /\ node.a \in Nat /\ node.b \in Nat
  BY <1>1, CutShape DEF TypeOK
<1>3. PICK i \in 1..Count, j \in 0..S - 1 :
        p = (i - 1) * S + j /\ SourceA(p) = slices[i].a[j] /\ SourceB(p) = slices[i].b[j]
  BY <1>1, CutPosition
<1>4. Layout(i, j) /\ Rest = {Gnd, Vcc, Pad}
  BY <1>1 DEF ChainInv, LayoutInv, Layout, Rest
<1>5. ~IsSub => Fill(i, j)
  BY <1>1 DEF FedInv, FillInv, Fill
<1>6. /\ IF p \in 1..node.a THEN SourceA(p) = PinA(p - 1) ELSE SourceA(p) \in {Gnd, Vcc, Pad}
      /\ IF p \in 1..node.b THEN SourceB(p) = Operand2(p - 1)
                            ELSE SourceB(p) \in {Gnd, Vcc, Pad}
  BY <1>3, <1>4 DEF Layout
<1>7. ~IsSub => /\ SourceA(p) = Vcc => p = 0
                /\ SourceB(p) # Vcc
                /\ p > Width => SourceA(p) = SourceB(p)
  BY <1>3, <1>5 DEF Fill
<1>8. p = 0 => /\ SourceA(p) = IF IsSub THEN Gnd ELSE Vcc
               /\ SourceB(p) = IF IsSub THEN Vcc ELSE Gnd
  <2> SUFFICES ASSUME p = 0 PROVE i = 1 /\ j = 0
    BY <1>1, <1>3 DEF FedInv, DummyInv
  <2>1. (i - 1) * S \in Nat /\ (i # 1 => (i - 1) * S >= S)
    BY <1>2
  <2> QED BY <1>2, <1>3, <2>1
<1>9. p \notin 0..node.a => p \notin 1..node.a /\ p # 0
  BY <1>2
<1>10. p \notin 0..node.b => p \notin 1..node.b /\ p # 0
  BY <1>2
<1> QED BY <1>6, <1>7, <1>8, <1>9, <1>10

(* What the inputs of a soft adder are tied to.                            *)
LEMMA SoftInput ==
  ASSUME ChainInv, FedInv, phase = "done", ~IsCut, NEW p \in Positions
  PROVE  /\ SourceA(p) = IF p < node.a THEN PinA(p) ELSE Gnd
         /\ p < node.b => SourceB(p) = Operand2(p)
         /\ ~IsSub /\ ~(p < node.b) => SourceB(p) = Gnd
<1>1. Rippling /\ TypeOK
  BY DEF Rippling, ChainInv
<1>2. /\ p \in 0..index - 1 /\ index \in Nat
      /\ SourceA(p) = slices[p + 1].a[0] /\ SourceB(p) = slices[p + 1].b[0]
  BY <1>1, RipplePosition
<1>3. p + 1 \in 1..index /\ (p + 1) - 1 = p /\ node.a \in Nat /\ node.b \in Nat
  BY <1>1, <1>2 DEF TypeOK
<1>4. /\ SourceA(p) = IF p + 1 <= node.a THEN PinA(p) ELSE Gnd
      /\ p + 1 <= node.b => SourceB(p) = Operand2(p)
  BY <1>1, <1>2, <1>3 DEF ChainInv, RippleInv
<1>5. ~IsSub /\ p + 1 > node.b => SourceB(p) = Gnd
  BY <1>1, <1>2, <1>3 DEF FedInv, SoftInv
<1>6. (p + 1 <= node.a <=> p < node.a) /\ (p + 1 <= node.b <=> p < node.b)
      /\ (p + 1 > node.b <=> ~(p < node.b))
  BY <1>2, <1>3
<1> QED BY <1>4, <1>5, <1>6

(* The operands fit their ports.                                           *)
LEMMA OperandFacts ==
  ASSUME TypeOK, NEW v \in Operands
  PROVE  /\ v[1] \in Nat /\ v[2] \in Nat
         /\ v[1] < Pow2[job.a] /\ v[2] < Pow2[job.b]
         /\ \A k \in job.a - job.ext_a..job.a - 1 : Bit(v[1], k) = (IF job.signed THEN 1 ELSE 0)
         /\ \A k \in job.b - job.ext_b..job.b - 1 : Bit(v[2], k) = (IF job.signed THEN 1 ELSE 0)
<1>1. v[1] \in Carried(job.a, job.ext_a) /\ v[2] \in Carried(job.b, job.ext_b)
  BY DEF Operands
<1>2. job.a \in Nat /\ job.b \in Nat
  BY JobFacts DEF IsJob
<1>3. Pow2[job.a] \in Nat /\ Pow2[job.b] \in Nat
  BY <1>2, Pow2Type
<1>4. v[1] \in 0..Pow2[job.a] - 1 /\ v[2] \in 0..Pow2[job.b] - 1
  BY <1>1 DEF Carried
<1>5. /\ \A k \in job.a - job.ext_a..job.a - 1 : Bit(v[1], k) = (IF job.signed THEN 1 ELSE 0)
      /\ \A k \in job.b - job.ext_b..job.b - 1 : Bit(v[2], k) = (IF job.signed THEN 1 ELSE 0)
  BY <1>1 DEF Carried
<1> QED BY <1>3, <1>4, <1>5

(* The carry into the position of the lowest bit.                          *)
LEMMA FirstCarries ==
  ASSUME ChainInv, FedInv, phase = "done", NEW x \in Nat, NEW z \in Nat, NEW pad \in {0, 1}
  PROVE  /\ IsCut => /\ 1 \in Positions
                     /\ Carries(x, z, pad)[1] = IF node.ports = 3 THEN 0 ELSE pad
         /\ ~IsCut => Carries(x, z, pad)[0] = IF IsSub THEN 1 ELSE 0
<1> DEFINE C == Carries(x, z, pad)
<1>1. \A p \in Positions : C[p] = Linked(p, x, z, pad, C)
  BY CarriesUnfold
<1> HIDE DEF C
<1>2. 0 \in Positions
  BY ChainShape
<1>3. C[0] = Value(slices[1].cin, x, z, pad)
  BY <1>1, <1>2 DEF Linked
<1>4. CASE IsCut
  <2>1. Cutting
    BY <1>4 DEF Cutting
  <2>2. 1 \in Positions
    <3>1. node.out < Len(slices) * S /\ node.out \in Nat \ {0}
      BY <2>1, NoOverrun DEF ChainInv, TypeOK
    <3>2. SliceWidth = S /\ Len(slices) * SliceWidth \in Nat
      BY <1>4, ChainShape DEF SliceWidth
    <3> QED BY <3>1, <3>2 DEF Positions
  <2>3. slices[1].cin = IF node.ports = 3 THEN Gnd ELSE Pad
    BY <2>1 DEF FedInv, DummyInv
  <2>4. C[0] = (IF node.ports = 3 THEN 0 ELSE pad)
    BY <1>3, <2>3, SourceValues
  <2>5. Value(SourceA(0), x, z, pad) + Value(SourceB(0), x, z, pad) = 1
    <3>1. /\ SourceA(0) = IF IsSub THEN Gnd ELSE Vcc
          /\ SourceB(0) = IF IsSub THEN Vcc ELSE Gnd
      BY <1>2, <1>4, CutInput
    <3>2. Value(Gnd, x, z, pad) = 0 /\ Value(Vcc, x, z, pad) = 1
      BY SourceValues
    <3>3. CASE IsSub
      BY <3>1, <3>2, <3>3
    <3>4. CASE ~IsSub
      BY <3>1, <3>2, <3>4
    <3> QED BY <3>3, <3>4
  <2>6. C[1] = (Value(SourceA(1 - 1), x, z, pad) + Value(SourceB(1 - 1), x, z, pad)
                  + C[1 - 1]) \div 2
    BY <1>1, <2>2 DEF Linked
  <2>7. C[1] = (1 + C[0]) \div 2
    BY <2>5, <2>6
  <2>8. C[0] \in {0, 1}
    BY <2>4
  <2>9. C[1] = C[0]
    BY <2>7, <2>8
  <2> QED BY <1>4, <2>2, <2>4, <2>9 DEF C
<1>5. CASE ~IsCut
  <2>1. Rippling
    BY <1>5 DEF Rippling
  <2>2. 1 \in 1..index
    <3>1. Len(slices) = index /\ Len(slices) \in Nat \ {0}
      BY <2>1, ChainShape DEF ChainInv, RippleInv
    <3> QED BY <3>1
  <2>3. slices[1].cin = FirstCarry
    BY <2>1, <2>2 DEF FedInv, SoftInv
  <2> QED BY <1>3, <1>5, <2>3, SourceValues DEF FirstCarry, C
<1> QED BY <1>4, <1>5

-----------------------------------------------------------------------------
(* Additions.                                                              *)

(* Up to the width of the wider operand the inputs hold the bits of the    *)
(* operands; above it, in a chain, they hold the same.                     *)
LEMMA AddInputs ==
  ASSUME ChainInv, FedInv, phase = "done", ~IsSub, NEW v \in Operands, NEW pad \in {0, 1},
         pad = 0 \/ node.a = node.b, NEW k \in Nat,
         NEW p \in Positions, p = IF IsCut THEN k + 1 ELSE k
  PROVE  /\ ~IsCut \/ k < Width =>
              /\ Value(SourceA(p), v[1], v[2], pad) = Bit(v[1], k)
              /\ Value(SourceB(p), v[1], v[2], pad) = Bit(v[2], k)
         /\ IsCut /\ k >= Width =>
              /\ SourceA(p) = SourceB(p) /\ Bit(v[1], k) = 0 /\ Bit(v[2], k) = 0
<1>1. TypeOK /\ node.a \in Nat /\ node.b \in Nat
  BY DEF ChainInv, TypeOK
<1>2. phase # "resolve" /\ job.a = node.a /\ job.b = node.b
      /\ node.live_a = node.a /\ node.live_b = node.b
  BY DEF FedInv, PortsInv
<1>3. PICK x, z : x = v[1] /\ z = v[2]
  OBVIOUS
<1>4. x \in Nat /\ z \in Nat /\ x < Pow2[node.a] /\ z < Pow2[node.b]
  BY <1>1, <1>2, <1>3, OperandFacts
<1>5. /\ k >= node.a => Bit(x, k) = 0
      /\ k >= node.b => Bit(z, k) = 0
  BY <1>1, <1>4, NoBit
<1>6. Width \in Nat /\ Width >= node.a /\ Width >= node.b /\ Width \in {node.a, node.b}
  BY <1>1, Sizes
<1>7. /\ Value(Gnd, x, z, pad) = 0 /\ Value(Pad, x, z, pad) = pad
      /\ k < node.a => Value(PinA(k), x, z, pad) = Bit(x, k)
      /\ k < node.b => Value(PinB(k), x, z, pad) = Bit(z, k)
  <2>1. /\ Value(Gnd, x, z, pad) = 0 /\ Value(Pad, x, z, pad) = pad
        /\ Value(PinA(k), x, z, pad) = IF k < node.live_a THEN Bit(x, k) ELSE pad
        /\ Value(PinB(k), x, z, pad) = IF k < node.live_b THEN Bit(z, k) ELSE pad
    <3>1. Value(Gnd, x, z, pad) = 0 /\ Value(Pad, x, z, pad) = pad
      BY SourceValues
    <3>2. Value(PinA(k), x, z, pad) = IF k < node.live_a THEN Bit(x, k) ELSE pad
      BY DEF Value, PinA, Pin, Pad, Source
    <3>3. Value(PinB(k), x, z, pad) = IF k < node.live_b THEN Bit(z, k) ELSE pad
      BY DEF Value, PinB, Pin, Pad, Source
    <3> QED BY <3>1, <3>2, <3>3
  <2> QED BY <1>2, <2>1
<1>8. Operand2(k) = PinB(k)
  BY DEF Operand2
<1>9. CASE IsCut
  <2>1. p = k + 1 /\ p - 1 = k
    BY <1>9
  <2>2. /\ k < node.a => SourceA(p) = PinA(k)
        /\ k < node.b => SourceB(p) = PinB(k)
        /\ ~(k < node.a) => SourceA(p) \in {Gnd, Pad}
        /\ ~(k < node.b) => SourceB(p) \in {Gnd, Pad}
        /\ k >= Width => SourceA(p) = SourceB(p)
    <3>1. /\ k < node.a => p \in 1..node.a
          /\ k < node.b => p \in 1..node.b
          /\ ~(k < node.a) => p \notin 0..node.a
          /\ ~(k < node.b) => p \notin 0..node.b
          /\ k >= Width => p > Width
      BY <1>1, <1>6, <2>1
    <3> QED BY <1>8, <1>9, <2>1, <3>1, CutInput
  <2>3. ASSUME k < Width
        PROVE  Value(SourceA(p), x, z, pad) = Bit(x, k) /\ Value(SourceB(p), x, z, pad) = Bit(z, k)
    <3>1. Value(SourceA(p), x, z, pad) = Bit(x, k)
      <4>1. CASE k < node.a
        BY <1>7, <2>2, <4>1
      <4>2. CASE ~(k < node.a)
        <5>1. pad = 0
          BY <1>1, <1>6, <2>3, <4>2
        <5>2. Bit(x, k) = 0
          BY <1>1, <1>5, <4>2
        <5> QED BY <1>7, <2>2, <4>2, <5>1, <5>2
      <4> QED BY <4>1, <4>2
    <3>2. Value(SourceB(p), x, z, pad) = Bit(z, k)
      <4>1. CASE k < node.b
        BY <1>7, <2>2, <4>1
      <4>2. CASE ~(k < node.b)
        <5>1. pad = 0
          BY <1>1, <1>6, <2>3, <4>2
        <5>2. Bit(z, k) = 0
          BY <1>1, <1>5, <4>2
        <5> QED BY <1>7, <2>2, <4>2, <5>1, <5>2
      <4> QED BY <4>1, <4>2
    <3> QED BY <3>1, <3>2
  <2>4. k >= Width => k >= node.a /\ k >= node.b
    BY <1>1, <1>6
  <2> QED BY <1>3, <1>5, <1>9, <2>2, <2>3, <2>4
<1>10. CASE ~IsCut
  <2>1. p = k
    BY <1>10
  <2>2. /\ SourceA(p) = IF k < node.a THEN PinA(k) ELSE Gnd
        /\ SourceB(p) = IF k < node.b THEN PinB(k) ELSE Gnd
    BY <1>8, <1>10, <2>1, SoftInput
  <2>3. Value(SourceA(p), x, z, pad) = Bit(x, k)
    <3>1. CASE k < node.a
      BY <1>7, <2>2, <3>1
    <3>2. CASE ~(k < node.a)
      <4>1. Bit(x, k) = 0
        BY <1>1, <1>5, <3>2
      <4> QED BY <1>7, <2>2, <3>2, <4>1
    <3> QED BY <3>1, <3>2
  <2>4. Value(SourceB(p), x, z, pad) = Bit(z, k)
    <3>1. CASE k < node.b
      BY <1>7, <2>2, <3>1
    <3>2. CASE ~(k < node.b)
      <4>1. Bit(z, k) = 0
        BY <1>1, <1>5, <3>2
      <4> QED BY <1>7, <2>2, <3>2, <4>1
    <3> QED BY <3>1, <3>2
  <2> QED BY <1>3, <1>10, <2>3, <2>4
<1> QED BY <1>9, <1>10

(* The output pin of a node that a sum drives.                             *)
LEMMA SumOutput ==
  ASSUME ChainInv, phase = "done", IsCut \/ IsSub \/ node.ports = 2,
         NEW k \in 0..node.out - 1, NEW x, NEW z, NEW pad,
         NEW p, p = IF IsCut THEN k + 1 ELSE k
  PROVE  /\ p \in Positions /\ \A j \in 0..k : (IF IsCut THEN j + 1 ELSE j) \in Positions
         /\ OutputBit(k, x, z, pad) =
              (Value(SourceA(p), x, z, pad) + Value(SourceB(p), x, z, pad)
                 + Carries(x, z, pad)[p]) % 2
<1>1. TypeOK /\ node.out \in Nat \ {0} /\ k \in Nat
  BY DEF ChainInv, TypeOK
<1>2. drive[k] = Sum(p) /\ p \in Nat
  <2>1. CASE IsCut
    BY <1>1, <2>1 DEF ChainInv, DriveInv
  <2>2. CASE ~IsCut
    <3>1. Rippling
      BY <2>2 DEF Rippling
    <3>2. index = node.out
      BY <3>1 DEF ChainInv, RippleInv
    <3>3. OutputFor(k) = k
      BY <2>2 DEF OutputFor
    <3>4. drive[OutputFor(k)] = Sum(k)
      BY <3>1, <3>2 DEF ChainInv, DriveInv
    <3> QED BY <1>1, <2>2, <3>3, <3>4
  <2> QED BY <2>1, <2>2
<1>3. drive[k].of = "sum" /\ drive[k].bit = p
  BY <1>2, SumsDiffer
<1>4. p \in Positions
  BY <1>3, Outputs DEF OutputsHandedOver
<1>5. \A j \in 0..k : (IF IsCut THEN j + 1 ELSE j) \in Positions
  <2>1. Len(slices) * SliceWidth \in Nat
    BY ChainShape
  <2>2. p \in 0..Len(slices) * SliceWidth - 1
    BY <1>4 DEF Positions
  <2> QED BY <1>1, <2>1, <2>2 DEF Positions
<1> QED BY <1>3, <1>4, <1>5 DEF OutputBit

(* The sum, bit by bit.                                                    *)
LEMMA AddRight == ChainInv /\ FedInv => AddExact
<1> SUFFICES ASSUME ChainInv, FedInv, phase = "done", ~IsSub, IsCut \/ node.ports = 2,
                    NEW pad \in {0, 1}, pad = 0 \/ (node.ports = 3 /\ node.a = node.b),
                    NEW v \in Operands, NEW k \in 0..job.y - 1
             PROVE  OutputBit(k, v[1], v[2], pad) = Bit(v[1] + v[2], k)
  BY DEF AddExact, SumExact
<1>1. TypeOK /\ node.a \in Nat /\ node.b \in Nat /\ node.out \in Nat \ {0} /\ IsJob(job)
      /\ Width \in Nat \ {0} /\ Width >= node.a /\ Width >= node.b
  BY JobFacts, Sizes DEF ChainInv, TypeOK
<1>2. /\ job.a = node.a /\ job.b = node.b
      /\ node.out = IF node.ports = 3 THEN Width + 1 ELSE job.y
      /\ \A j \in DOMAIN drive : j >= node.out => drive[j] = Gnd
  BY DEF FedInv, PortsInv
<1>3. PICK x, z : x = v[1] /\ z = v[2]
  OBVIOUS
<1>4. x \in Nat /\ z \in Nat /\ x < Pow2[node.a] /\ z < Pow2[node.b] /\ k \in Nat
  BY <1>1, <1>2, <1>3, OperandFacts DEF IsJob
<1>5. x + z < Pow2[Width + 1]
  <2>1. Pow2[node.a] <= Pow2[Width] /\ Pow2[node.b] <= Pow2[Width]
    BY <1>1, Pow2Monotone
  <2>2. Pow2[Width + 1] = 2 * Pow2[Width]
    BY <1>1, Pow2Step
  <2>3. Pow2[Width] \in Nat /\ Pow2[node.a] \in Nat /\ Pow2[node.b] \in Nat
    BY <1>1, Pow2Type
  <2> QED BY <1>4, <2>1, <2>2, <2>3
<1>6. CASE k >= node.out
  <2>1. node.ports = 3
    BY <1>1, <1>2, <1>4, <1>6 DEF IsJob
  <2>2. k >= Width + 1
    BY <1>2, <1>6, <2>1
  <2>3. k \in DOMAIN drive
    BY <1>1, <1>6 DEF TypeOK, Larger, IsJob
  <2>4. drive[k] = Gnd
    BY <1>2, <1>6, <2>3
  <2>5. OutputBit(k, x, z, pad) = 0
    <3>1. Gnd.of # "sum"
      BY DEF Gnd, Source
    <3> QED BY <2>4, <3>1, SourceValues DEF OutputBit
  <2>6. Bit(x + z, k) = 0
    <3>1. x + z \in Nat /\ Width + 1 \in Nat
      BY <1>1, <1>4
    <3> QED BY <1>4, <1>5, <2>2, <3>1, NoBit
  <2> QED BY <1>3, <2>5, <2>6
<1>7. CASE k < node.out
  <2> DEFINE C == Carries(x, z, pad)
             first == IF IsCut THEN 1 ELSE 0
             A(q) == Value(SourceA(q), x, z, pad)
             B(q) == Value(SourceB(q), x, z, pad)
  <2>1. PICK p : p = IF IsCut THEN k + 1 ELSE k
    OBVIOUS
  <2>2. k \in 0..node.out - 1
    BY <1>1, <1>4, <1>7
  <2>3. /\ p \in Positions /\ \A j \in 0..k : (IF IsCut THEN j + 1 ELSE j) \in Positions
        /\ OutputBit(k, x, z, pad) = (A(p) + B(p) + C[p]) % 2
    BY <2>1, <2>2, SumOutput
  <2>4. first \in Nat /\ p = first + k
    BY <1>4, <2>1
  <2>5. C[first] = 0
    BY <1>4, FirstCarries
  <2>6. IsCut => k <= Width
    <3>1. IsCut => node.out \in {Width, Width + 1}
      BY DEF ChainInv, NodeInv, IsCut
    <3> QED BY <1>1, <1>4, <1>7, <3>1
  <2>7. ASSUME NEW j \in 0..k - 1
        PROVE  A(first + j) = Bit(x, j) /\ B(first + j) = Bit(z, j)
    <3>1. j \in Nat /\ j \in 0..k /\ first + j = (IF IsCut THEN j + 1 ELSE j)
      BY <1>4
    <3>2. first + j \in Positions
      BY <2>3, <3>1
    <3>3. ~IsCut \/ j < Width
      BY <1>1, <1>4, <2>6
    <3> HIDE DEF first
    <3> QED BY <1>3, <3>1, <3>2, <3>3, AddInputs
  <2>8. /\ C[p] \in Int
        /\ (Bit(x, k) + Bit(z, k) + C[p]) % 2 = Bit(x + z, k)
    <3>1. z \in Int
      BY <1>4
    <3>a. HoldsBits(first, k, x, z, z, pad)
      BY <2>7 DEF HoldsBits
    <3>b. first + k \in Positions
      BY <2>3, <2>4
    <3> HIDE DEF first, C
    <3>2. Carries(x, z, pad)[first + k] \in Int
          /\ (Bit(x, k) + Bit(z, k) + Carries(x, z, pad)[first + k]) % 2
               = Bit(x + z + Carries(x, z, pad)[first], k)
      <4>1. AddsUp(first, k, x, z, z, pad)
        BY <1>4, <2>4, <3>1, <3>a, <3>b, ChainSum
      <4> QED BY <4>1 DEF AddsUp
    <3>3. x + z + 0 = x + z
      BY <1>4
    <3> QED BY <2>4, <2>5, <3>2, <3>3 DEF C
  <2>9. CASE ~IsCut \/ k < Width
    <3>1. A(p) = Bit(x, k) /\ B(p) = Bit(z, k)
      BY <1>3, <1>4, <2>1, <2>3, <2>9, AddInputs
    <3> QED BY <1>3, <2>3, <2>8, <3>1
  <2>10. CASE IsCut /\ k >= Width
    <3>1. A(p) = B(p) /\ Bit(x, k) = 0 /\ Bit(z, k) = 0
      BY <1>3, <1>4, <2>1, <2>3, <2>10, AddInputs
    <3>2. A(p) \in {0, 1}
      <4>1. SourceA(p) \in Sources
        BY <2>3, CarryLinked
      <4> QED BY <1>4, <4>1, ValueType
    <3> HIDE DEF A, B, C
    <3>3. (A(p) + B(p) + C[p]) % 2 = C[p] % 2
      BY <2>8, <3>1, <3>2
    <3>4. Bit(x, k) + Bit(z, k) + C[p] = C[p]
      BY <2>8, <3>1
    <3> QED BY <1>3, <2>3, <2>8, <3>3, <3>4
  <2> QED BY <1>1, <1>4, <2>9, <2>10
<1> QED BY <1>1, <1>4, <1>6, <1>7

(***************************************************************************)
(* An addition, cut or soft, gives its outputs the low bits of the sum,    *)
(* for every width, every hard adder and all values of the operands.       *)
(***************************************************************************)
THEOREM AdditionCorrect == Spec => []AddExact
BY AddRight, FillersCorrect, ChainCorrect, PTL

-----------------------------------------------------------------------------
(* Subtractions.                                                           *)

(* The bits from live on of an operand of w pins are those that extend it. *)
Extended(x, live, w, ones) == \A q \in live..w - 1 : Bit(x, q) = ones

LEMMA ExtendedBit ==
  ASSUME NEW x \in Nat, NEW w \in Nat, NEW live \in Nat, x < Pow2[w], NEW ones \in {0, 1},
         Extended(x, live, w, ones),
         NEW k \in Nat, live <= k, k < w \/ ones = 0
  PROVE  Bit(x, k) = ones
<1>1. CASE k < w
  <2>1. k \in live..w - 1
    BY <1>1
  <2> QED BY <2>1 DEF Extended
<1>2. CASE ~(k < w)
  <2>1. w <= k
    BY <1>2
  <2>2. Bit(x, k) = 0
    BY <2>1, NoBit
  <2> QED BY <1>2, <2>2
<1> QED BY <1>1, <1>2

(* Padded or not, the pins of the operands hold their bits.                *)
LEMMA SubInputs ==
  ASSUME ChainInv, FedInv, phase = "done", IsSub, NEW v \in Operands, NEW pad \in {0, 1},
         PadFits(pad), NEW k \in 0..Width - 1
  PROVE  /\ Value(PinA(k), v[1], v[2], pad) = Bit(v[1], k)
         /\ Value(Operand2(k), v[1], v[2], pad) = Bit(-v[2] - 1, k)
<1>1. TypeOK /\ IsJob(job) /\ node.live_a \in Nat /\ node.live_b \in Nat /\ Width \in Nat
      /\ job.a \in Nat /\ job.b \in Nat /\ job.ext_a \in 0..job.a - 1 /\ job.ext_b \in 0..job.b - 1
  BY JobFacts, Sizes DEF ChainInv, TypeOK, IsJob
<1>2. /\ node.live_a = job.a - job.ext_a /\ node.live_b = job.b - job.ext_b
      /\ Width = Larger(node.live_a, node.live_b)
  BY DEF FedInv, PortsInv
<1>3. PICK x, z : x = v[1] /\ z = v[2]
  OBVIOUS
<1>4. x \in Nat /\ z \in Nat /\ x < Pow2[job.a] /\ z < Pow2[job.b] /\ k \in Nat
  BY <1>1, <1>3, OperandFacts
<1>5. PICK ones : ones = IF job.signed THEN 1 ELSE 0
  OBVIOUS
<1>6. Extended(x, node.live_a, job.a, ones) /\ Extended(z, node.live_b, job.b, ones)
  BY <1>1, <1>2, <1>3, <1>5, OperandFacts DEF Extended
<1>7. Width <= job.a \/ Width <= job.b
  BY <1>1, <1>2 DEF Larger
<1>8. ~(k < node.live_a) \/ ~(k < node.live_b) =>
        /\ node.live_a # node.live_b
        /\ pad = ones /\ (ones = 0 \/ (k < job.a /\ k < job.b))
  <2>1. SUFFICES ASSUME ~(k < node.live_a) \/ ~(k < node.live_b)
                 PROVE  /\ node.live_a # node.live_b
                        /\ pad = ones /\ (ones = 0 \/ (k < job.a /\ k < job.b))
    OBVIOUS
  <2>2. node.live_a # node.live_b
    BY <1>1, <1>2, <2>1 DEF Larger
  <2>3. IF job.signed THEN job.a = job.b /\ pad = 1 ELSE pad = 0
    BY <2>2 DEF PadFits, Padded
  <2>4. CASE job.signed
    <3>1. job.a = job.b /\ pad = 1 /\ ones = 1
      BY <1>5, <2>3, <2>4
    <3>2. k < job.a
      BY <1>1, <1>4, <1>7, <3>1
    <3> QED BY <2>2, <3>1, <3>2
  <2>5. CASE ~job.signed
    BY <1>5, <2>2, <2>3, <2>5
  <2> QED BY <2>4, <2>5
<1>9. Value(PinA(k), x, z, pad) = IF k < node.live_a THEN Bit(x, k) ELSE pad
  BY DEF Value, PinA, Pin, Pad, Source
<1>10. Value(Operand2(k), x, z, pad) = 1 - (IF k < node.live_b THEN Bit(z, k) ELSE pad)
  <2>1. Operand2(k) = Invert(PinB(k))
    BY DEF Operand2
  <2>2. Value(Invert(PinB(k)), x, z, pad) = 1 - (IF k < node.live_b THEN Bit(z, k) ELSE pad)
    BY DEF Value, PinB, Pin, Pad, Source, Invert
  <2> QED BY <2>1, <2>2
<1>11. ones \in {0, 1}
  BY <1>5
<1>12. Value(PinA(k), x, z, pad) = Bit(x, k)
  <2>1. CASE k < node.live_a
    BY <1>9, <2>1
  <2>2. CASE ~(k < node.live_a)
    <3>1. pad = ones /\ (k < job.a \/ ones = 0) /\ node.live_a <= k
      BY <1>1, <1>4, <1>8, <2>2
    <3>2. Bit(x, k) = ones
      BY <1>1, <1>4, <1>6, <1>11, <3>1, ExtendedBit
    <3> QED BY <1>9, <2>2, <3>1, <3>2
  <2> QED BY <2>1, <2>2
<1>13. Value(Operand2(k), x, z, pad) = 1 - Bit(z, k)
  <2>1. CASE k < node.live_b
    BY <1>10, <2>1
  <2>2. CASE ~(k < node.live_b)
    <3>1. pad = ones /\ (k < job.b \/ ones = 0) /\ node.live_b <= k
      BY <1>1, <1>4, <1>8, <2>2
    <3>2. Bit(z, k) = ones
      BY <1>1, <1>4, <1>6, <1>11, <3>1, ExtendedBit
    <3> QED BY <1>10, <2>2, <3>1, <3>2
  <2> QED BY <2>1, <2>2
<1>14. Bit(-z - 1, k) = 1 - Bit(z, k)
  BY <1>4, BitOfComplement
<1> QED BY <1>3, <1>12, <1>13, <1>14

(* The difference is the sum with the complement and the first carry.      *)
LEMMA SubRight == ChainInv /\ FedInv => SubExact
<1> SUFFICES ASSUME ChainInv, FedInv, phase = "done", IsSub, NEW pad \in {0, 1}, PadFits(pad),
                    NEW v \in Operands, NEW k \in 0..Smaller(node.out, job.y) - 1
             PROVE  OutputBit(k, v[1], v[2], pad) = Bit((v[1] - v[2]) % Pow2[job.y], k)
  BY DEF SubExact, DifferenceExact
<1>1. TypeOK /\ IsJob(job) /\ Width \in Nat /\ job.y \in Nat
      /\ node.out = Width /\ node.a = Width /\ node.b = Width /\ node.ports = 2
  BY JobFacts, Sizes DEF ChainInv, NodeInv, IsJob
<1>2. PICK x, z : x = v[1] /\ z = v[2]
  OBVIOUS
<1>3. x \in Nat /\ z \in Nat
  BY <1>1, <1>2, OperandFacts
<1>4. k \in 0..Width - 1 /\ k \in Nat /\ k < job.y
  BY <1>1 DEF Smaller
<1> DEFINE C == Carries(x, z, pad)
           first == IF IsCut THEN 1 ELSE 0
           A(q) == Value(SourceA(q), x, z, pad)
           B(q) == Value(SourceB(q), x, z, pad)
<1>5. PICK p : p = IF IsCut THEN k + 1 ELSE k
  OBVIOUS
<1>6. k \in 0..node.out - 1
  BY <1>1, <1>4
<1>7. /\ p \in Positions /\ \A j \in 0..k : (IF IsCut THEN j + 1 ELSE j) \in Positions
      /\ OutputBit(k, x, z, pad) = (A(p) + B(p) + C[p]) % 2
  BY <1>5, <1>6, SumOutput
<1>8. first \in Nat /\ p = first + k
  BY <1>4, <1>5
<1>9. C[first] = 1
  <2>1. IsCut => pad = 1
    BY DEF PadFits
  <2> QED BY <1>1, <1>3, <2>1, FirstCarries
<1>10. ASSUME NEW j \in 0..k
       PROVE  A(first + j) = Bit(x, j) /\ B(first + j) = Bit(-z - 1, j)
  <2>1. j \in Nat /\ j \in 0..Width - 1 /\ first + j = (IF IsCut THEN j + 1 ELSE j)
    BY <1>1, <1>4
  <2>2. first + j \in Positions
    BY <1>7, <2>1
  <2>3. SourceA(first + j) = PinA(j) /\ SourceB(first + j) = Operand2(j)
    <3>1. CASE IsCut
      <4>1. first + j = j + 1 /\ j + 1 \in 1..node.a /\ j + 1 \in 1..node.b /\ (j + 1) - 1 = j
        BY <1>1, <2>1, <3>1
      <4> HIDE DEF first
      <4>2. SourceA(j + 1) = PinA((j + 1) - 1) /\ SourceB(j + 1) = Operand2((j + 1) - 1)
        BY <2>2, <3>1, <4>1, CutInput
      <4> QED BY <4>1, <4>2
    <3>2. CASE ~IsCut
      <4>1. first + j = j /\ j < node.a /\ j < node.b
        BY <1>1, <2>1, <3>2
      <4> HIDE DEF first
      <4>2. SourceA(j) = PinA(j) /\ SourceB(j) = Operand2(j)
        BY <2>2, <3>2, <4>1, SoftInput
      <4> QED BY <4>1, <4>2
    <3> QED BY <3>1, <3>2
  <2>4. /\ Value(PinA(j), x, z, pad) = Bit(x, j)
        /\ Value(Operand2(j), x, z, pad) = Bit(-z - 1, j)
    BY <1>2, <2>1, SubInputs
  <2> HIDE DEF first
  <2> QED BY <2>3, <2>4
<1>11. A(p) = Bit(x, k) /\ B(p) = Bit(-z - 1, k)
  <2>1. k \in 0..k
    BY <1>4
  <2> HIDE DEF first
  <2> QED BY <1>8, <1>10, <2>1
<1>12. HoldsBits(first, k, x, -z - 1, z, pad)
  <2>1. \A j \in 0..k - 1 : j \in 0..k
    BY <1>4
  <2> QED BY <1>10, <2>1 DEF HoldsBits
<1>13. (Bit(x, k) + Bit(-z - 1, k) + C[p]) % 2 = Bit(x - z, k)
  <2> HIDE DEF first, C, A, B
  <2>1. PICK y \in Int : y = -z - 1
    BY <1>3
  <2>2. first \in Nat /\ first + k \in Positions
    BY <1>7, <1>8
  <2>3. HoldsBits(first, k, x, y, z, pad)
    BY <1>12, <2>1
  <2>4. Carries(x, z, pad)[first + k] \in Int
        /\ (Bit(x, k) + Bit(y, k) + Carries(x, z, pad)[first + k]) % 2
             = Bit(x + y + Carries(x, z, pad)[first], k)
    <3>1. AddsUp(first, k, x, y, z, pad)
      BY <1>3, <1>4, <2>2, <2>3, ChainSum
    <3> QED BY <3>1 DEF AddsUp
  <2>5. x + y + 1 = x - z
    BY <1>3, <2>1
  <2> QED BY <1>8, <1>9, <2>1, <2>4, <2>5 DEF C
<1>14. Bit((x - z) % Pow2[job.y], k) = Bit(x - z, k)
  <2>1. x - z \in Int
    BY <1>3
  <2> QED BY <1>1, <1>4, <2>1, BitOfLow
<1> QED BY <1>2, <1>7, <1>11, <1>13, <1>14

(***************************************************************************)
(* A subtraction gives the outputs it kept the low bits of the difference, *)
(* if the pad net reads what the dummy adder and the padding need.         *)
(***************************************************************************)
THEOREM SubtractionCorrect == Spec => []SubExact
BY SubRight, FillersCorrect, ChainCorrect, PTL
=============================================================================
