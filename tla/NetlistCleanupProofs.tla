------------------------ MODULE NetlistCleanupProofs ------------------------
(***************************************************************************)
(* What NetlistCleanup guarantees for every set of nodes, every netlist    *)
(* and every number of pass invocations.                                   *)
(***************************************************************************)
EXTENDS NetlistCleanup, FiniteSetTheorems, TLAPS

(* A prefix of a sequence has the type of the sequence.                    *)
LEMMA PrefixFacts ==
  ASSUME NEW S, NEW s \in Seq(S), NEW k \in 0..Len(s)
  PROVE  SubSeq(s, 1, k) \in Seq(S) /\ Len(SubSeq(s, 1, k)) = k
<1>1. Len(SubSeq(s, 1, k)) = k
  OBVIOUS
<1>2. SubSeq(s, 1, k) \in Seq(S)
  OBVIOUS
<1> QED BY <1>1, <1>2

(***************************************************************************)
(* Pushing and popping a frame keeps the stack a sequence of frames.       *)
(***************************************************************************)
LEMMA StackOps ==
  ASSUME stack \in Seq(Frames)
  PROVE  /\ \A n \in Node, r \in BOOLEAN :
              /\ Push(n, r) \in Seq(Frames)
              /\ Len(Push(n, r)) = Len(stack) + 1
              /\ \A i \in 1..Len(stack) : Push(n, r)[i] = stack[i]
              /\ Push(n, r)[Len(stack) + 1] = [node |-> n, remove |-> r]
         /\ stack # <<>> =>
              /\ Top \in Frames
              /\ Pop \in Seq(Frames)
              /\ Len(Pop) = Len(stack) - 1
              /\ \A i \in 1..(Len(stack) - 1) : Pop[i] = stack[i]
<1>1. ASSUME NEW n \in Node, NEW r \in BOOLEAN
      PROVE  [node |-> n, remove |-> r] \in Frames
  BY DEF Frames
<1>2. ASSUME NEW n \in Node, NEW r \in BOOLEAN
      PROVE  /\ Push(n, r) \in Seq(Frames)
             /\ Len(Push(n, r)) = Len(stack) + 1
             /\ \A i \in 1..Len(stack) : Push(n, r)[i] = stack[i]
             /\ Push(n, r)[Len(stack) + 1] = [node |-> n, remove |-> r]
  BY <1>1 DEF Push
<1>3. ASSUME stack # <<>>
      PROVE  /\ Top \in Frames
             /\ Pop \in Seq(Frames)
             /\ Len(Pop) = Len(stack) - 1
             /\ \A i \in 1..(Len(stack) - 1) : Pop[i] = stack[i]
  <2>1. Top \in Frames
    BY <1>3 DEF Top
  <2>2. Pop \in Seq(Frames) /\ Len(Pop) = Len(stack) - 1
    <3>1. Len(stack) - 1 \in 0..Len(stack)
      BY <1>3
    <3> QED BY ONLY stack \in Seq(Frames), <3>1, PrefixFacts DEF Pop
  <2>3. ASSUME NEW i \in 1..(Len(stack) - 1)
        PROVE  Pop[i] = stack[i]
    <3>1. Len(stack) \in Nat
      OBVIOUS
    <3>2. i \in Nat /\ 1 <= i /\ i <= Len(stack) - 1
      BY <3>1
    <3> QED BY <3>1, <3>2 DEF Pop
  <2> QED BY <2>1, <2>2, <2>3
<1>4. QED
  BY <1>2, <1>3

(***************************************************************************)
(* Inserting a node keeps a list a sequence of nodes.                      *)
(***************************************************************************)
LEMMA InsertType ==
  ASSUME NEW list \in Seq(Node), NEW attached \in BOOLEAN, NEW n \in Node
  PROVE  InsertNode(list, attached, n) \in Seq(Node)
BY DEF InsertNode

(***************************************************************************)
(* The nodes the forward search starts from are nodes of the netlist.      *)
(***************************************************************************)
LEMMA SourcesType ==
  ASSUME NEW g, IsNetlist(g)
  PROVE  Sources(g) \in Seq(Node)
BY DEF Sources, IsNetlist

(***************************************************************************)
(* Every invocation of a session is given a netlist.                       *)
(***************************************************************************)
LEMMA SessionNetlists ==
  ASSUME NEW s \in Sessions, NEW i \in 1..Len(s)
  PROVE  s[i] \in Netlists /\ IsNetlist(s[i])
<1>1. s \in Seq(Netlists)
  BY SessionsAssumption
<1>2. s[i] \in Netlists
  BY <1>1
<1>3. QED
  BY <1>2, NetlistsAssumption

(* A session has a first invocation.                                       *)
LEMMA SessionStarts ==
  ASSUME NEW s \in Sessions
  PROVE  1 \in 1..Len(s) /\ Len(s) \in Nat
<1>1. s \in Seq(Netlists) /\ s # <<>>
  BY SessionsAssumption
<1>2. QED
  BY <1>1

(***************************************************************************)
(* The type invariant of the sweep holds in every behaviour.               *)
(***************************************************************************)
THEOREM TypeCorrect == Spec => []TypeOK
<1>1. Init => TypeOK
  BY SessionNetlists, SessionStarts, ConfigAssumption
     DEF Init, TypeOK, Marks, NoWalk, ZeroStats
<1>2. TypeOK /\ [Next]_vars => TypeOK'
  <2> SUFFICES ASSUME TypeOK, [Next]_vars PROVE TypeOK'
    OBVIOUS
  <2> USE DEF graphVars, listVars, walkVars
  <2>1. CASE NextPass
    <3>1. passes' \in 1..Len(session) /\ session \in Sessions
      BY <2>1, SessionStarts DEF NextPass, TypeOK
    <3>2. IsNetlist(session[passes'])
      BY <3>1, SessionNetlists
    <3>3. QED
      BY <2>1, <3>1, <3>2 DEF NextPass, Load, TypeOK, Marks
  <2>2. CASE BackwardOutput
    <3>1. net.outputs[pos] \in Node
      BY <2>2 DEF BackwardOutput, TypeOK, IsNetlist
    <3>2. mark \in [Node -> Marks] /\ stack \in Seq(Frames)
      BY DEF TypeOK
    <3>2a. mark' \in [Node -> Marks]
      BY <2>2, <3>1, <3>2 DEF BackwardOutput, TraverseBackward, Marks
    <3>2b. stack' \in Seq(Frames)
      BY <2>2, <3>1, <3>2, StackOps DEF BackwardOutput, TraverseBackward
    <3>3. QED
      BY <2>2, <3>2a, <3>2b DEF BackwardOutput, TypeOK
  <2>3. CASE BackwardDriver
    BY <2>3, StackOps DEF BackwardDriver, TraverseBackward, TypeOK, Marks, Drivers
  <2>4. CASE BackwardReturn
    BY <2>4, StackOps DEF BackwardReturn, TypeOK
  <2>5. CASE BeginForward
    BY <2>5 DEF BeginForward, StillAttached, TypeOK
  <2>6. ASSUME NEW n \in Node, NEW r \in BOOLEAN, NEW t \in BOOLEAN,
               TraverseForward(n, t, r)
        PROVE  /\ mark' \in [Node -> Marks]
               /\ stack' \in Seq(Frames)
               /\ useless' \in Seq(Node) /\ removal_attached' \in BOOLEAN
               /\ addsub' \in Seq(Node) /\ addsub_attached' \in BOOLEAN
               /\ num_removed' \in [Counters -> Nat]
    <3>1. Unwanted(n, t, r) \in BOOLEAN
      BY DEF Unwanted
    <3>2. mark' \in [Node -> Marks]
      BY <2>6 DEF TraverseForward, TypeOK, Marks
    <3>3. stack' \in Seq(Frames)
      BY <2>6, <3>1, StackOps DEF TraverseForward, TypeOK
    <3>4. useless' \in Seq(Node) /\ addsub' \in Seq(Node)
      BY <2>6, InsertType DEF TraverseForward, TypeOK
    <3>5. num_removed' \in [Counters -> Nat]
      <4>1. num_removed \in [Counters -> Nat]
        BY DEF TypeOK
      <4>2. Counted(n) \in [Counters -> Nat]
        BY <4>1 DEF Counted
      <4>3. num_removed' \in {num_removed, Counted(n)}
        BY <2>6 DEF TraverseForward
      <4>4. QED
        BY <4>1, <4>2, <4>3
    <3>6. removal_attached' \in BOOLEAN /\ addsub_attached' \in BOOLEAN
      BY <2>6 DEF TraverseForward, TypeOK
    <3>7. QED
      BY <3>2, <3>3, <3>4, <3>5, <3>6
  <2>7. CASE ForwardSource
    <3>1. Sources(net)[pos] \in Node
      BY <2>7, SourcesType DEF ForwardSource, TypeOK
    <3>2. QED
      <4>1. CASE mark[Sources(net)[pos]] = "forward"
        BY <2>7, <4>1 DEF ForwardSource, TypeOK
      <4>2. CASE mark[Sources(net)[pos]] # "forward"
        <5>1. TraverseForward(Sources(net)[pos], TRUE, FALSE)
          BY <2>7, <4>2 DEF ForwardSource
        <5>2. /\ mark' \in [Node -> Marks]
              /\ stack' \in Seq(Frames)
              /\ useless' \in Seq(Node) /\ removal_attached' \in BOOLEAN
              /\ addsub' \in Seq(Node) /\ addsub_attached' \in BOOLEAN
              /\ num_removed' \in [Counters -> Nat]
          BY <2>6, <3>1, <5>1
        <5>3. QED
          BY <2>7, <5>2 DEF ForwardSource, TypeOK
      <4>3. QED
        BY <4>1, <4>2
  <2>8. CASE ForwardReader
    <3>1. Top \in Frames
      BY <2>8, StackOps DEF ForwardReader, TypeOK
    <3>2. PICK m \in Readers(Top.node) : TraverseForward(m, FALSE, Top.remove)
      BY <2>8 DEF ForwardReader
    <3>3. m \in Node /\ Top.remove \in BOOLEAN
      BY <3>1 DEF Readers, Frames
    <3>4. QED
      BY <2>8, <2>6, <3>2, <3>3 DEF ForwardReader, TypeOK
  <2>9. CASE ForwardReturn
    BY <2>9, StackOps DEF ForwardReturn, TypeOK
  <2>10. CASE BeginRemoval
    BY <2>10 DEF BeginRemoval, TypeOK
  <2>11. CASE RemoveNode
    BY <2>11 DEF RemoveNode, TypeOK, Marks
  <2>12. CASE BeginStatistics
    BY <2>12 DEF BeginStatistics, TypeOK
  <2>13. CASE StartChain
    <3>1. addsub[pos] \in Node
      BY <2>13 DEF StartChain, TypeOK
    <3>2. QED
      BY <2>13, <3>1 DEF StartChain, TypeOK
  <2>14. CASE WalkChain
    <3>1. walk \in [at : Node, depth : Nat]
      BY <2>14 DEF WalkChain, TypeOK
    <3>2. ASSUME NEW d \in Nat, EndChain(d)
          PROVE  /\ stats' \in [Adders -> [chains : Nat, total : Nat, longest : Nat]]
                 /\ walk' = NoWalk
                 /\ pos' \in Nat \ {0}
      <4> DEFINE k == net.kind[walk.at]
                 new == [chains |-> stats[k].chains + 1,
                         total |-> stats[k].total + d,
                         longest |-> IF d > stats[k].longest
                                       THEN d ELSE stats[k].longest]
      <4>1. k \in Adders => new \in [chains : Nat, total : Nat, longest : Nat]
        <5>1. SUFFICES ASSUME k \in Adders
                       PROVE  new \in [chains : Nat, total : Nat, longest : Nat]
          OBVIOUS
        <5>2. stats[k] \in [chains : Nat, total : Nat, longest : Nat]
          BY <5>1 DEF TypeOK
        <5>3. QED
          BY <5>2
      <4>2. stats' = IF d = 0 THEN stats ELSE [stats EXCEPT ![k] = new]
        BY <3>2 DEF EndChain
      <4> HIDE DEF new, k
      <4>3. stats' \in [Adders -> [chains : Nat, total : Nat, longest : Nat]]
        <5>1. stats \in [Adders -> [chains : Nat, total : Nat, longest : Nat]]
          BY DEF TypeOK
        <5> QED BY <4>1, <4>2, <5>1
      <4>4. walk' = NoWalk /\ pos' = pos + 1
        BY <3>2 DEF EndChain
      <4>5. QED
        <5>1. pos \in Nat \ {0}
          BY DEF TypeOK
        <5>2. pos' \in Nat \ {0}
          BY <4>4, <5>1
        <5> QED BY <4>3, <4>4, <5>2
    <3>3. CarryReader(walk.at) # NoNode => CarryReader(walk.at) \in Node
      BY <3>1 DEF CarryReader, TypeOK, IsNetlist
    <3>4. walk' \in {NoWalk} \cup [at : Node, depth : Nat]
      BY <2>14, <3>1, <3>2, <3>3 DEF WalkChain
    <3>5. /\ stats' \in [Adders -> [chains : Nat, total : Nat, longest : Nat]]
          /\ pos' \in Nat \ {0}
      BY <2>14, <3>1, <3>2 DEF WalkChain, TypeOK
    <3>6. QED
      BY <2>14, <3>4, <3>5 DEF WalkChain, TypeOK, NoWalk
  <2>15. CASE Finish
    BY <2>15 DEF Finish, TypeOK
  <2>16. CASE UNCHANGED vars
    BY <2>16 DEF vars, TypeOK, NoWalk
  <2>17. QED
    BY <2>1, <2>2, <2>3, <2>4, <2>5, <2>7, <2>8, <2>9, <2>10, <2>11, <2>12,
       <2>13, <2>14, <2>15, <2>16 DEF Next
<1>3. QED
  BY <1>1, <1>2, PTL DEF Spec

-----------------------------------------------------------------------------

(* Edges join nodes, and no edge enters a source.                          *)
LEMMA EdgeFacts ==
  ASSUME NEW g, IsNetlist(g), NEW e \in g.edges
  PROVE  /\ e[1] \in Node /\ e[2] \in Node
         /\ e = <<e[1], e[2]>>
         /\ e[2] \notin Elements(Sources(g))
BY DEF IsNetlist, Elements

(* The live nodes are closed: outputs are live, drivers of live are live.  *)
LEMMA LiveClosed ==
  ASSUME NEW g, IsNetlist(g)
  PROVE  /\ Live(g) \subseteq Node
         /\ \A i \in 1..Len(g.outputs) : g.outputs[i] \in Live(g)
         /\ \A e \in g.edges : e[2] \in Live(g) => e[1] \in Live(g)
<1>1. \A i \in 1..Len(g.outputs) : g.outputs[i] \in Node
  BY DEF IsNetlist
<1>2. ASSUME NEW i \in 1..Len(g.outputs) PROVE g.outputs[i] \in Live(g)
  BY <1>1 DEF Live, ClosedBackward, Elements, IsNetlist
<1>3. ASSUME NEW e \in g.edges, e[2] \in Live(g) PROVE e[1] \in Live(g)
  BY <1>3, EdgeFacts DEF Live, ClosedBackward
<1>4. QED
  BY <1>2, <1>3 DEF Live

(* ... and they are the least such set.                                    *)
LEMMA LiveLeast ==
  ASSUME NEW g, NEW S \in SUBSET Node, ClosedBackward(g, S)
  PROVE  Live(g) \subseteq S
BY DEF Live

(* The reached nodes are closed: sources are reached, readers too.         *)
LEMMA ReachedClosed ==
  ASSUME NEW g, IsNetlist(g)
  PROVE  /\ Reached(g) \subseteq Node
         /\ \A i \in 1..Len(Sources(g)) : Sources(g)[i] \in Reached(g)
         /\ \A e \in g.edges : e[1] \in Reached(g) => e[2] \in Reached(g)
<1>1. Sources(g) \in Seq(Node)
  BY SourcesType
<1>2. ASSUME NEW i \in 1..Len(Sources(g)) PROVE Sources(g)[i] \in Reached(g)
  BY <1>1 DEF Reached, ClosedForward, Elements
<1>3. ASSUME NEW e \in g.edges, e[1] \in Reached(g) PROVE e[2] \in Reached(g)
  BY <1>3, EdgeFacts DEF Reached, ClosedForward
<1>4. QED
  BY <1>2, <1>3 DEF Reached

(* ... and they are the least such set.                                    *)
LEMMA ReachedLeast ==
  ASSUME NEW g, NEW S \in SUBSET Node, ClosedForward(g, S)
  PROVE  Reached(g) \subseteq S
BY DEF Reached

(* A call puts its node on the stack, a return takes only that one off.    *)
LEMMA OnStackOps ==
  ASSUME stack \in Seq(Frames)
  PROVE  /\ \A n \in Node, r \in BOOLEAN : stack' = Push(n, r) =>
              \A x \in Node : OnStack(x)' <=> OnStack(x) \/ x = n
         /\ stack # <<>> /\ stack' = Pop =>
              \A x \in Node : OnStack(x) => OnStack(x)' \/ x = Top.node
<1>1. ASSUME NEW n \in Node, NEW r \in BOOLEAN, stack' = Push(n, r),
             NEW x \in Node
      PROVE  OnStack(x)' <=> OnStack(x) \/ x = n
  <2>1. /\ Len(stack') = Len(stack) + 1
        /\ \A i \in 1..Len(stack) : stack'[i] = stack[i]
        /\ stack'[Len(stack) + 1] = [node |-> n, remove |-> r]
    BY <1>1, StackOps
  <2>2. stack'[Len(stack) + 1].node = n /\ Len(stack) \in Nat
    BY <2>1
  <2>3. QED
    BY <2>1, <2>2 DEF OnStack
<1>2. ASSUME stack # <<>>, stack' = Pop, NEW x \in Node, OnStack(x), x # Top.node
      PROVE  OnStack(x)'
  <2>1. /\ Len(stack') = Len(stack) - 1
        /\ \A i \in 1..(Len(stack) - 1) : stack'[i] = stack[i]
        /\ Len(stack) \in Nat
    BY <1>2, StackOps
  <2>2. PICK i \in 1..Len(stack) : stack[i].node = x
    BY <1>2 DEF OnStack
  <2>3. i \in 1..(Len(stack) - 1)
    BY <1>2, <2>1, <2>2 DEF Top
  <2>4. QED
    BY <2>1, <2>2, <2>3 DEF OnStack
<1>3. QED
  BY <1>1, <1>2

-----------------------------------------------------------------------------
(* The backward search                                                     *)

(***************************************************************************)
(* A call of traverse_backward on a live node keeps the invariant of the   *)
(* backward search, wherever the loop over the outputs stands.             *)
(***************************************************************************)
LEMMA BackwardCall ==
  ASSUME TypeOK, BackwardInv, phase = "backward",
         NEW n \in Live(net), TraverseBackward(n)
  PROVE  /\ \A m \in Node : mark'[m] \in {"none", "backward"}
         /\ \A m \in Node : mark[m] = "backward" => mark'[m] = "backward"
         /\ mark'[n] = "backward"
         /\ \A m \in Node : mark'[m] = "backward" => m \in Live(net)
         /\ \A m \in Node : OnStack(m)' => mark'[m] = "backward"
         /\ \A e \in net.edges :
               mark'[e[2]] = "backward" => mark'[e[1]] = "backward" \/ OnStack(e[2])'
<1>1. n \in Node
  BY LiveClosed DEF TypeOK
<1>2. CASE mark[n] = "backward"
  <2>1. mark' = mark /\ stack' = stack
    BY <1>2 DEF TraverseBackward
  <2>2. \A x \in Node : OnStack(x)' <=> OnStack(x)
    BY <2>1 DEF OnStack
  <2>3. QED
    BY <1>1, <1>2, <2>1, <2>2, EdgeFacts DEF BackwardInv, TypeOK
<1>3. CASE mark[n] # "backward"
  <2>1. mark' = [mark EXCEPT ![n] = "backward"] /\ stack' = Push(n, FALSE)
    BY <1>3 DEF TraverseBackward
  <2>2. \A x \in Node : OnStack(x)' <=> OnStack(x) \/ x = n
    BY <1>1, <2>1, OnStackOps DEF TypeOK
  <2>3. \A m \in Node : mark'[m] = IF m = n THEN "backward" ELSE mark[m]
    BY <2>1 DEF TypeOK
  <2>4. \A e \in net.edges :
           mark'[e[2]] = "backward" => mark'[e[1]] = "backward" \/ OnStack(e[2])'
    BY <2>2, <2>3, EdgeFacts DEF BackwardInv, TypeOK
  <2>5. QED
    BY <1>1, <2>2, <2>3, <2>4 DEF BackwardInv
<1>4. QED
  BY <1>2, <1>3

(***************************************************************************)
(* The steps of the backward search keep its invariant.                    *)
(***************************************************************************)
LEMMA BackwardSteps ==
  ASSUME TypeOK, BackwardInv,
         BackwardOutput \/ BackwardDriver \/ BackwardReturn
  PROVE  BackwardInv'
<1>1. /\ phase = "backward" /\ phase' = "backward"
      /\ net' = net /\ edges' = edges
  BY DEF BackwardOutput, BackwardDriver, BackwardReturn, graphVars
<1>2. CASE BackwardOutput
  <2>1. net.outputs[pos] \in Live(net)
    BY <1>2, LiveClosed DEF BackwardOutput, TypeOK
  <2>2. TraverseBackward(net.outputs[pos]) /\ pos' = pos + 1
    BY <1>2 DEF BackwardOutput
  <2>3. \A i \in 1..Len(net.outputs) : net.outputs[i] \in Node
    BY DEF TypeOK, IsNetlist
  <2>4. \A i \in 1..Len(net.outputs) : i < pos' => mark'[net.outputs[i]] = "backward"
    <3>1. /\ mark'[net.outputs[pos]] = "backward"
          /\ \A m \in Node : mark[m] = "backward" => mark'[m] = "backward"
      BY <1>1, <2>1, <2>2, BackwardCall
    <3>2. pos \in Nat
      BY DEF TypeOK
    <3>3. QED
      BY <1>1, <2>2, <2>3, <3>1, <3>2 DEF BackwardInv
  <2>5. QED
    BY <1>1, <2>1, <2>2, <2>4, BackwardCall DEF BackwardInv
<1>3. CASE BackwardDriver
  <2>1. PICK m \in Drivers(Top.node) : TraverseBackward(m)
    BY <1>3 DEF BackwardDriver
  <2>2. Top.node \in Node /\ OnStack(Top.node)
    <3>1. stack \in Seq(Frames) /\ stack # <<>>
      BY <1>3 DEF BackwardDriver, TypeOK
    <3>2. Top \in Frames
      BY <3>1, StackOps
    <3>3. Len(stack) \in 1..Len(stack)
      BY <3>1
    <3> QED BY <3>2, <3>3 DEF OnStack, Top, Frames
  <2>3. Top.node \in Live(net)
    BY <1>1, <2>2 DEF BackwardInv
  <2>4. m \in Live(net)
    BY <2>1, <2>3, LiveClosed DEF Drivers, TypeOK
  <2>5. pos' = pos
    BY <1>3 DEF BackwardDriver, walkVars
  <2>6. \A i \in 1..Len(net.outputs) : net.outputs[i] \in Node
    BY DEF TypeOK, IsNetlist
  <2>7. QED
    BY <1>1, <2>1, <2>4, <2>5, <2>6, BackwardCall DEF BackwardInv
<1>4. CASE BackwardReturn
  <2>1. /\ stack # <<>> /\ stack' = Pop /\ mark' = mark /\ pos' = pos
        /\ \A m \in Drivers(Top.node) : mark[m] = "backward"
    BY <1>4 DEF BackwardReturn, walkVars
  <2>2. \A x \in Node : OnStack(x) => OnStack(x)' \/ x = Top.node
    BY <2>1, OnStackOps DEF TypeOK
  <2>3. \A x \in Node : OnStack(x)' => OnStack(x)
    <3>1. /\ Len(stack') = Len(stack) - 1
          /\ \A i \in 1..(Len(stack) - 1) : stack'[i] = stack[i]
      BY <2>1, StackOps DEF TypeOK
    <3>2. Len(stack) \in Nat
      BY DEF TypeOK
    <3>3. QED
      BY <3>1, <3>2 DEF OnStack
  <2>4. \A e \in net.edges : e[2] = Top.node => mark[e[1]] = "backward"
    BY <1>1, <2>1, EdgeFacts DEF Drivers, BackwardInv, TypeOK
  <2>5. \A e \in net.edges :
           mark[e[2]] = "backward" => mark[e[1]] = "backward" \/ OnStack(e[2])'
    BY <1>1, <2>2, <2>4, EdgeFacts DEF BackwardInv, TypeOK
  <2>6. QED
    BY <1>1, <2>1, <2>3, <2>5 DEF BackwardInv
<1>5. QED
  BY <1>2, <1>3, <1>4

(***************************************************************************)
(* When the backward search is over, the marked nodes are the live ones.   *)
(***************************************************************************)
LEMMA BackwardComplete ==
  ASSUME TypeOK, BackwardInv, BeginForward
  PROVE  \A n \in Node : mark[n] = "backward" <=> n \in Live(net)
<1>1. /\ phase = "backward" /\ stack = <<>> /\ pos > Len(net.outputs)
  BY DEF BeginForward
<1> DEFINE S == {n \in Node : mark[n] = "backward"}
<1>2. ClosedBackward(net, S)
  <2>1. \A i \in 1..Len(net.outputs) : net.outputs[i] \in S
    BY <1>1 DEF BackwardInv, TypeOK, IsNetlist
  <2>2. \A e \in net.edges : e[2] \in S => e[1] \in S
    BY <1>1, EdgeFacts DEF BackwardInv, TypeOK, OnStack
  <2>3. QED
    BY <2>1, <2>2 DEF ClosedBackward, Elements, TypeOK, IsNetlist
<1>3. Live(net) \subseteq S
  BY <1>2, LiveLeast
<1>4. QED
  BY <1>1, <1>3 DEF BackwardInv

-----------------------------------------------------------------------------
(* The forward search                                                      *)

(***************************************************************************)
(* What a call of traverse_forward decides is right: with the flag only    *)
(* inherited below nodes that are not live, it lists exactly dead nodes.   *)
(***************************************************************************)
LEMMA UnwantedIsDead ==
  ASSUME TypeOK, ForwardInv, phase = "forward",
         NEW n \in Reached(net), mark[n] # "forward",
         NEW t \in BOOLEAN, NEW r \in BOOLEAN,
         r => n \notin Live(net) /\ ~t,
         t <=> n \in Elements(Sources(net))
  PROVE  /\ Unwanted(n, t, r) => n \notin Live(net)
         /\ Unwanted(n, t, r) <=> n \in Dead(net)
         /\ Unwanted(n, t, r) \in BOOLEAN
<1>1. n \in Node
  BY ReachedClosed DEF TypeOK
<1>2. mark[n] \in {"none", "backward"}
  BY <1>1 DEF ForwardInv, ForwardMarks, TypeOK, Marks
<1>3. mark[n] = "backward" <=> n \in Live(net)
  BY <1>1, <1>2 DEF ForwardInv, ForwardMarks
<1>4. QED
  BY <1>3 DEF Unwanted, Dead

(* A call or a return of traverse_forward keeps the invariant.             *)
LEMMA ForwardCall ==
  ASSUME TypeOK, ForwardInv, phase = "forward", net' = net, edges' = edges,
         NEW n \in Reached(net), mark[n] # "forward",
         NEW t \in BOOLEAN, NEW r \in BOOLEAN,
         r => n \notin Live(net) /\ ~t,
         t <=> n \in Elements(Sources(net)),
         TraverseForward(n, t, r)
  PROVE  /\ \A m \in Node : mark'[m] = IF m = n THEN "forward" ELSE mark[m]
         /\ ForwardMarks'
         /\ \A e \in net.edges :
               mark'[e[1]] = "forward" => mark'[e[2]] = "forward" \/ OnStack(e[1])'
         /\ ForwardList'
<1> DEFINE u == Unwanted(n, t, r)
<1>1. n \in Node
  BY ReachedClosed DEF TypeOK
<1>2. /\ u => n \notin Live(net)
      /\ u <=> n \in Dead(net)
      /\ u \in BOOLEAN
  BY UnwantedIsDead
<1>3. /\ mark' = [mark EXCEPT ![n] = "forward"]
      /\ stack' = Push(n, u)
      /\ useless' = IF u THEN InsertNode(useless, removal_attached, n) ELSE useless
      /\ removal_attached' = removal_attached
  BY DEF TraverseForward
<1> HIDE DEF u
<1>4. \A m \in Node : mark'[m] = IF m = n THEN "forward" ELSE mark[m]
  BY <1>3 DEF TypeOK
<1>5. /\ Len(stack') = Len(stack) + 1
      /\ \A i \in 1..Len(stack) : stack'[i] = stack[i]
      /\ stack'[Len(stack) + 1] = [node |-> n, remove |-> u]
  <2>1. stack \in Seq(Frames)
    BY DEF TypeOK
  <2> QED BY <1>1, <1>2, <1>3, <2>1, StackOps
<1>6. \A i \in 1..Len(stack) : stack[i].node \in Node
  <2>1. \A i \in 1..Len(stack) : stack[i] \in Frames
    BY DEF TypeOK
  <2>2. QED
    BY <2>1 DEF Frames
<1>7. ForwardMarks'
  <2>1. \A i \in 1..Len(stack') :
           /\ mark'[stack'[i].node] = "forward"
           /\ stack'[i].remove => stack'[i].node \notin Live(net)
    <3>1. ASSUME NEW i \in 1..Len(stack')
          PROVE  /\ mark'[stack'[i].node] = "forward"
                 /\ stack'[i].remove => stack'[i].node \notin Live(net)
      <4>1. Len(stack) \in Nat
        BY DEF TypeOK
      <4>2. CASE i = Len(stack) + 1
        BY <1>1, <1>2, <1>4, <1>5, <4>2
      <4>3. CASE i \in 1..Len(stack)
        BY <1>4, <1>5, <1>6, <4>3 DEF ForwardInv, ForwardMarks
      <4>4. QED
        BY <1>5, <4>1, <4>2, <4>3
    <3>2. QED
      BY <3>1
  <2>2. QED
    BY <1>1, <1>4, <2>1 DEF ForwardInv, ForwardMarks
<1>8. \A e \in net.edges :
         mark'[e[1]] = "forward" => mark'[e[2]] = "forward" \/ OnStack(e[1])'
  <2>1. \A x \in Node : OnStack(x)' <=> OnStack(x) \/ x = n
    BY <1>1, <1>2, <1>3, OnStackOps DEF TypeOK
  <2>2. QED
    BY <1>4, <2>1, EdgeFacts DEF ForwardInv, ForwardClosed, TypeOK
<1>9. ForwardList'
  <2>1. CASE ~u \/ ~removal_attached
    <3>1. useless' = useless
      BY <1>3, <2>1 DEF InsertNode
    <3>2. Elements(useless)' = Elements(useless)
      BY <3>1 DEF Elements
    <3>3. Dead(net) \subseteq Node
      BY ReachedClosed DEF Dead, TypeOK
    <3>4. QED
      BY <1>2, <1>3, <1>4, <2>1, <3>1, <3>2, <3>3 DEF ForwardInv, ForwardList
  <2>2. CASE u /\ removal_attached
    <3>1. useless' = Append(useless, n)
      BY <1>3, <2>2 DEF InsertNode
    <3>2. /\ Len(useless') = Len(useless) + 1
          /\ \A i \in 1..Len(useless) : useless'[i] = useless[i]
          /\ useless'[Len(useless) + 1] = n
          /\ Len(useless) \in Nat
      BY <1>1, <3>1 DEF TypeOK
    <3>3. \A i \in 1..Len(useless') : useless'[i] \in Dead(net)
      BY <1>2, <2>2, <3>2 DEF ForwardInv, ForwardList
    <3>4. \A x : x \in Elements(useless) \/ x = n => x \in Elements(useless')
      <4>1. useless \in Seq(Node) /\ useless' \in Seq(Node)
        BY <1>1, <3>1 DEF TypeOK
      <4>2. DOMAIN useless = 1..Len(useless) /\ DOMAIN useless' = 1..Len(useless')
        BY <4>1
      <4>3. QED
        BY <3>2, <4>2 DEF Elements
    <3>5. Dead(net) \subseteq Node
      BY ReachedClosed DEF Dead, TypeOK
    <3>6. QED
      BY <1>2, <1>3, <1>4, <2>2, <3>3, <3>4, <3>5 DEF ForwardInv, ForwardList, Elements
  <2>3. QED
    BY <1>2, <2>1, <2>2 DEF TypeOK
<1>10. QED
  BY <1>4, <1>7, <1>8, <1>9

(***************************************************************************)
(* The steps of the forward search keep its invariant.                     *)
(***************************************************************************)
LEMMA ForwardSteps ==
  ASSUME TypeOK, ForwardInv, ForwardSource \/ ForwardReader \/ ForwardReturn
  PROVE  ForwardInv'
<1>1. /\ phase = "forward" /\ phase' = "forward"
      /\ net' = net /\ edges' = edges
  BY DEF ForwardSource, ForwardReader, ForwardReturn, graphVars
<1>2. Sources(net) \in Seq(Node)
  BY SourcesType DEF TypeOK
<1>3. CASE ForwardSource
  <2> DEFINE n == Sources(net)[pos]
  <2>1. pos \in 1..Len(Sources(net)) /\ pos' = pos + 1
    BY <1>3 DEF ForwardSource, TypeOK
  <2>2. n \in Node /\ n \in Elements(Sources(net)) /\ n \in Reached(net)
    BY <1>2, <2>1, ReachedClosed DEF Elements, TypeOK
  <2>3. CASE mark[n] = "forward"
    <3>1. mark' = mark /\ stack' = stack /\ useless' = useless
          /\ removal_attached' = removal_attached
      BY <1>3, <2>3 DEF ForwardSource, listVars
    <3>2. \A x \in Node : OnStack(x)' <=> OnStack(x)
      BY <3>1 DEF OnStack
    <3>3. \A i \in 1..Len(Sources(net)) : i < pos' => mark[Sources(net)[i]] = "forward"
      BY <1>1, <2>1, <2>3 DEF ForwardInv, ForwardClosed
    <3>4. ForwardMarks' /\ ForwardList'
      BY <1>1, <3>1 DEF ForwardInv, ForwardMarks, ForwardList
    <3>5. ForwardClosed'
      BY <1>1, <3>1, <3>2, <3>3, EdgeFacts DEF ForwardInv, ForwardClosed, TypeOK
    <3>6. QED
      BY <3>4, <3>5 DEF ForwardInv
  <2>4. CASE mark[n] # "forward"
    <3>1. TraverseForward(n, TRUE, FALSE)
      BY <1>3, <2>4 DEF ForwardSource
    <3> HIDE DEF n
    <3>2. /\ \A m \in Node : mark'[m] = IF m = n THEN "forward" ELSE mark[m]
          /\ ForwardMarks'
          /\ \A e \in net.edges :
                mark'[e[1]] = "forward" => mark'[e[2]] = "forward" \/ OnStack(e[1])'
          /\ ForwardList'
      BY <1>1, <2>2, <2>4, <3>1, ForwardCall
    <3>3. \A i \in 1..Len(Sources(net)) : i < pos' => mark'[Sources(net)[i]] = "forward"
      BY <1>1, <1>2, <2>1, <3>2 DEF ForwardInv, ForwardClosed, n
    <3>4. QED
      BY <1>1, <3>2, <3>3 DEF ForwardInv, ForwardClosed
  <2>5. QED
    BY <2>3, <2>4
<1>4. CASE ForwardReader
  <2>1. PICK m \in Readers(Top.node) :
           mark[m] # "forward" /\ TraverseForward(m, FALSE, Top.remove)
    BY <1>4 DEF ForwardReader
  <2>2. /\ Top \in Frames /\ Len(stack) \in 1..Len(stack)
        /\ pos' = pos
    BY <1>4, StackOps DEF ForwardReader, TypeOK, walkVars
  <2>3. /\ Top.node \in Node /\ Top.remove \in BOOLEAN
        /\ mark[Top.node] = "forward"
        /\ Top.remove => Top.node \notin Live(net)
    BY <1>1, <2>2 DEF ForwardInv, ForwardMarks, Top, Frames
  <2>4. <<Top.node, m>> \in net.edges /\ m \in Node
    BY <2>1 DEF Readers, TypeOK
  <2>5. /\ m \in Reached(net)
        /\ Top.remove => m \notin Live(net)
        /\ m \notin Elements(Sources(net))
    <3>1. Top.node \in Reached(net)
      BY <1>1, <2>3 DEF ForwardInv, ForwardMarks
    <3>2. QED
      BY <2>3, <2>4, <3>1, ReachedClosed, LiveClosed, EdgeFacts DEF TypeOK
  <2>6. /\ \A x \in Node : mark'[x] = IF x = m THEN "forward" ELSE mark[x]
        /\ ForwardMarks'
        /\ \A e \in net.edges :
              mark'[e[1]] = "forward" => mark'[e[2]] = "forward" \/ OnStack(e[1])'
        /\ ForwardList'
    BY <1>1, <2>1, <2>3, <2>5, ForwardCall
  <2>7. \A i \in 1..Len(Sources(net)) : i < pos' => mark'[Sources(net)[i]] = "forward"
    BY <1>1, <1>2, <2>2, <2>6 DEF ForwardInv, ForwardClosed
  <2>8. QED
    BY <1>1, <2>6, <2>7 DEF ForwardInv, ForwardClosed
<1>5. CASE ForwardReturn
  <2>1. /\ stack # <<>> /\ stack' = Pop /\ mark' = mark /\ pos' = pos
        /\ useless' = useless /\ removal_attached' = removal_attached
        /\ \A m \in Readers(Top.node) : mark[m] = "forward"
    BY <1>5 DEF ForwardReturn, walkVars, listVars
  <2>2. \A x \in Node : OnStack(x) => OnStack(x)' \/ x = Top.node
    BY <2>1, OnStackOps DEF TypeOK
  <2>3. /\ Len(stack') = Len(stack) - 1
        /\ \A i \in 1..(Len(stack) - 1) : stack'[i] = stack[i]
        /\ Len(stack) \in Nat
    BY <2>1, StackOps DEF TypeOK
  <2>4. ForwardMarks'
    BY <1>1, <2>1, <2>3 DEF ForwardInv, ForwardMarks
  <2>5. \A e \in net.edges : e[1] = Top.node => mark[e[2]] = "forward"
    BY <1>1, <2>1, EdgeFacts DEF Readers, ForwardInv, ForwardMarks, TypeOK
  <2>6. ForwardClosed'
    BY <1>1, <2>1, <2>2, <2>5, EdgeFacts DEF ForwardInv, ForwardClosed, TypeOK
  <2>7. ForwardList'
    BY <1>1, <2>1 DEF ForwardInv, ForwardList
  <2>8. QED
    BY <2>4, <2>6, <2>7 DEF ForwardInv
<1>6. QED
  BY <1>3, <1>4, <1>5

(* When the forward search is over, every reached node was visited.        *)
LEMMA ReachedVisited ==
  ASSUME TypeOK, ForwardInv, BeginRemoval
  PROVE  \A n \in Reached(net) : mark[n] = "forward"
<1>1. /\ phase = "forward" /\ stack = <<>> /\ pos > Len(Sources(net))
  BY DEF BeginRemoval
<1> DEFINE S == {n \in Node : mark[n] = "forward"}
<1>2. Sources(net) \in Seq(Node)
  BY SourcesType DEF TypeOK
<1>3. ClosedForward(net, S)
  <2>1. \A i \in 1..Len(Sources(net)) : Sources(net)[i] \in S
    BY <1>1, <1>2 DEF ForwardInv, ForwardClosed, TypeOK
  <2>2. \A e \in net.edges : e[1] \in S => e[2] \in S
    BY <1>1, EdgeFacts DEF ForwardInv, ForwardClosed, TypeOK, OnStack
  <2>3. QED
    BY <1>2, <2>1, <2>2 DEF ClosedForward, Elements
<1>4. QED
  BY <1>3, ReachedLeast

(***************************************************************************)
(* So the list then holds every dead node unless its tail was cut off.     *)
(***************************************************************************)
LEMMA ForwardComplete ==
  ASSUME TypeOK, ForwardInv, BeginRemoval
  PROVE  ListComplete
<1>1. phase = "forward"
  BY DEF BeginRemoval
<1>2. Elements(useless) \subseteq Dead(net)
  <2>1. DOMAIN useless = 1..Len(useless)
    BY DEF TypeOK
  <2>2. QED
    BY <1>1, <2>1 DEF ForwardInv, ForwardList, Elements
<1>3. QED
  BY <1>1, <1>2, ReachedVisited DEF ListComplete, ForwardInv, ForwardList, Dead

-----------------------------------------------------------------------------
(* The inductive invariant and what follows from it                        *)

(* A fresh netlist starts the backward search with nothing marked.         *)
LEMMA LoadStarts ==
  ASSUME NEW g, IsNetlist(g), net = g, edges = g.edges,
         mark = [n \in Node |-> "none"], pos = 1, stack = <<>>, phase = "backward"
  PROVE  BackwardInv /\ ForwardInv /\ RemovalInv /\ SweptInv
<1>1. \A n \in Node : ~OnStack(n)
  BY DEF OnStack
<1>2. \A e \in g.edges : mark[e[2]] = "none"
  BY EdgeFacts
<1>3. QED
  BY <1>1, <1>2 DEF BackwardInv, ForwardInv, RemovalInv, SweptInv, Swept

(* The initial states satisfy the invariant.                               *)
LEMMA IInvInit == Init => IInv
<1> SUFFICES ASSUME Init PROVE IInv
  OBVIOUS
<1>1. IsNetlist(net)
  BY SessionNetlists, SessionStarts DEF Init
<1>2. BackwardInv /\ ForwardInv /\ RemovalInv /\ SweptInv
  BY <1>1, LoadStarts DEF Init
<1>3. QED
  BY <1>2 DEF Init, IInv, FirstPass

(***************************************************************************)
(* The removal walk cuts exactly the edges into the nodes it has passed.   *)
(***************************************************************************)
LEMMA RemovalStep ==
  ASSUME TypeOK, RemovalInv, RemoveNode
  PROVE  RemovalInv'
<1>1. /\ phase = "removal" /\ pos <= Len(useless) /\ pos' = pos + 1
      /\ edges' = {e \in edges : e[2] # useless[pos]}
      /\ net' = net /\ useless' = useless /\ removal_attached' = removal_attached
  BY DEF RemoveNode, graphVars, listVars
<1>2. \A i \in 1..Len(useless) : i < pos' <=> i < pos \/ i = pos
  BY <1>1 DEF TypeOK
<1>3. pos \in 1..Len(useless)
  BY <1>1 DEF TypeOK
<1>4. edges' = {e \in net.edges : \A i \in 1..Len(useless) : i < pos' => e[2] # useless[i]}
  BY <1>1, <1>2, <1>3 DEF RemovalInv
<1>5. ListComplete'
  BY <1>1 DEF RemovalInv, ListComplete, Dead, Elements
<1>6. QED
  BY <1>1, <1>4, <1>5 DEF RemovalInv

(* Every step keeps the invariant.                                         *)
LEMMA IInvNext == TypeOK /\ TypeOK' /\ IInv /\ [Next]_vars => IInv'
<1> SUFFICES ASSUME TypeOK, TypeOK', IInv, [Next]_vars PROVE IInv'
  OBVIOUS
<1> USE DEF graphVars, listVars, walkVars
<1>1. CASE NextPass
  <2> DEFINE g == session[passes']
  <2>1. Load(g)
    BY <1>1 DEF NextPass
  <2>2. IsNetlist(g)
    BY <1>1, <2>1 DEF Load, TypeOK
  <2> HIDE DEF g
  <2>3. /\ net' = g /\ edges' = g.edges /\ mark' = [n \in Node |-> "none"]
        /\ pos' = 1 /\ phase' = "backward" /\ stack' = <<>>
    BY <1>1, <2>1 DEF NextPass, Load, IInv
  <2>4. \A n \in Node : ~OnStack(n)'
    BY <2>3 DEF OnStack
  <2>5. \A e \in g.edges : mark'[e[2]] = "none"
    BY <2>2, <2>3, EdgeFacts
  <2>6. BackwardInv'
    BY <2>2, <2>3, <2>4, <2>5 DEF BackwardInv
  <2>7. passes' # 1
    BY <1>1 DEF NextPass, TypeOK
  <2>8. QED
    BY <2>3, <2>6, <2>7 DEF IInv, ForwardInv, RemovalInv, SweptInv, Swept, FirstPass
<1>2. CASE BackwardOutput \/ BackwardDriver \/ BackwardReturn
  <2>1. BackwardInv'
    BY <1>2, BackwardSteps DEF IInv
  <2>2. /\ phase' = "backward" /\ phase = "backward" /\ passes' = passes
        /\ useless' = useless /\ removal_attached' = removal_attached
    BY <1>2 DEF BackwardOutput, BackwardDriver, BackwardReturn
  <2>3. QED
    BY <2>1, <2>2 DEF IInv, ForwardInv, RemovalInv, SweptInv, Swept, FirstPass
<1>3. CASE BeginForward
  <2>1. /\ phase = "backward" /\ phase' = "forward" /\ stack = <<>> /\ stack' = <<>>
        /\ useless' = <<>> /\ mark' = mark /\ net' = net /\ edges' = edges
        /\ pos' = 1 /\ passes' = passes
        /\ removal_attached' = StillAttached(useless, removal_attached)
    BY <1>3 DEF BeginForward
  <2>2. /\ edges = net.edges
        /\ \A n \in Node : mark[n] \in {"none", "backward"}
        /\ \A n \in Node : mark[n] = "backward" <=> n \in Live(net)
    BY <1>3, <2>1, BackwardComplete DEF IInv, BackwardInv
  <2>3. ForwardMarks'
    BY <2>1, <2>2 DEF ForwardMarks
  <2>4. ForwardClosed'
    <3>1. \A e \in net.edges : mark[e[1]] # "forward"
      BY <2>2, EdgeFacts DEF TypeOK
    <3>2. \A i \in 1..Len(Sources(net)) : ~(i < 1)
      OBVIOUS
    <3>3. QED
      BY <2>1, <3>1, <3>2 DEF ForwardClosed
  <2>5. ForwardList'
    <3>1. \A n \in Dead(net) : mark[n] # "forward"
      <4>1. IsNetlist(net)
        BY DEF TypeOK
      <4> QED BY <2>2, <4>1, ReachedClosed DEF Dead
    <3>2. useless' = <<>> /\ net' = net /\ mark' = mark
      BY <2>1
    <3>3. \A i \in 1..Len(useless') : useless'[i] \in Dead(net)
      BY <3>2
    <3> QED BY <3>1, <3>2, <3>3 DEF ForwardList
  <2>6. FirstPass'
    BY <2>1 DEF FirstPass, IInv, StillAttached
  <2>7. QED
    BY <2>1, <2>3, <2>4, <2>5, <2>6
       DEF IInv, BackwardInv, ForwardInv, RemovalInv, SweptInv, Swept
<1>4. CASE ForwardSource \/ ForwardReader \/ ForwardReturn
  <2>1. ForwardInv'
    BY <1>4, ForwardSteps DEF IInv
  <2>2. /\ phase' = "forward" /\ phase = "forward" /\ passes' = passes
        /\ removal_attached' = removal_attached
    BY <1>4 DEF ForwardSource, ForwardReader, ForwardReturn, TraverseForward
  <2>3. QED
    BY <2>1, <2>2 DEF IInv, BackwardInv, RemovalInv, SweptInv, Swept, FirstPass
<1>5. CASE BeginRemoval
  <2>1. /\ phase = "forward" /\ phase' = "removal" /\ stack = <<>> /\ stack' = <<>>
        /\ useless' = useless /\ removal_attached' = removal_attached
        /\ net' = net /\ edges' = edges /\ pos' = 1 /\ passes' = passes
    BY <1>5 DEF BeginRemoval
  <2>2. ListComplete
    BY <1>5, ForwardComplete DEF IInv
  <2>3. edges = net.edges
    BY <2>1 DEF IInv, ForwardInv, ForwardMarks
  <2>4. edges' = {e \in net'.edges : \A i \in 1..Len(useless') : i < pos' => e[2] # useless'[i]}
    BY <2>1, <2>3
  <2>5. ListComplete'
    BY <2>1, <2>2 DEF ListComplete, Dead, Elements
  <2>6. QED
    BY <2>1, <2>4, <2>5
       DEF IInv, BackwardInv, ForwardInv, RemovalInv, SweptInv, Swept, FirstPass
<1>6. CASE RemoveNode
  <2>1. RemovalInv'
    BY <1>6, RemovalStep DEF IInv
  <2>2. /\ phase' = "removal" /\ phase = "removal" /\ passes' = passes
        /\ removal_attached' = removal_attached /\ stack' = stack
    BY <1>6 DEF RemoveNode
  <2>3. QED
    BY <2>1, <2>2 DEF IInv, BackwardInv, ForwardInv, SweptInv, Swept, FirstPass
<1>7. CASE BeginStatistics
  <2>1. /\ phase = "removal" /\ phase' = "statistics" /\ stack' = stack
        /\ useless' = useless /\ removal_attached' = removal_attached
        /\ net' = net /\ edges' = edges /\ passes' = passes /\ pos > Len(useless)
    BY <1>7 DEF BeginStatistics
  <2>2. DOMAIN useless = 1..Len(useless) /\ \A i \in 1..Len(useless) : i < pos
    <3>1. useless \in Seq(Node) /\ pos \in Nat
      BY DEF TypeOK
    <3>2. QED
      BY <2>1, <3>1
  <2>3. edges = {e \in net.edges : e[2] \notin Elements(useless)}
    BY <2>1, <2>2 DEF IInv, RemovalInv, Elements
  <2>4. ListComplete'
    BY <2>1 DEF IInv, RemovalInv, ListComplete, Dead, Elements
  <2>5. QED
    BY <2>1, <2>3, <2>4
       DEF IInv, BackwardInv, ForwardInv, RemovalInv, SweptInv, Swept, FirstPass, Elements
<1>8. CASE StartChain \/ WalkChain \/ Finish \/ UNCHANGED vars
  <2>1. /\ net' = net /\ edges' = edges /\ mark' = mark /\ stack' = stack
        /\ useless' = useless /\ removal_attached' = removal_attached
        /\ passes' = passes
        /\ \/ Swept /\ phase' \in {"statistics", "done"}
           \/ phase' = phase /\ pos' = pos
    BY <1>8 DEF StartChain, WalkChain, Finish, vars, Swept
  <2>2. CASE Swept /\ phase' \in {"statistics", "done"}
    BY <2>1, <2>2
       DEF IInv, BackwardInv, ForwardInv, RemovalInv, SweptInv, Swept, FirstPass,
           ListComplete, Dead, Elements
  <2>3. CASE phase' = phase /\ pos' = pos
    BY <2>1, <2>3
       DEF IInv, BackwardInv, ForwardInv, ForwardMarks, ForwardClosed, ForwardList,
           RemovalInv, SweptInv, Swept, FirstPass, ListComplete, Dead, Elements, OnStack
  <2>4. QED
    BY <2>1, <2>2, <2>3
<1>9. QED
  BY <1>1, <1>2, <1>3, <1>4, <1>5, <1>6, <1>7, <1>8 DEF Next

(***************************************************************************)
(* The invariant the theorems below rest on holds in every behaviour.      *)
(***************************************************************************)
THEOREM SearchesCorrect == Spec => []IInv
<1>1. TypeOK /\ TypeOK' /\ IInv /\ [Next]_vars => IInv'
  BY IInvNext
<1>2. QED
  BY <1>1, IInvInit, TypeCorrect, PTL DEF Spec

(***************************************************************************)
(* For every netlist, search order and number of invocations the sweep     *)
(* keeps every node an output depends on, with all the nets it reads.      *)
(***************************************************************************)
THEOREM LiveNeverRemoved == Spec => []LiveKept
<1>1. TypeOK /\ IInv => LiveKept
  <2> SUFFICES ASSUME TypeOK, IInv PROVE LiveKept
    OBVIOUS
  <2>1. phase # "backward" => Elements(useless) \cap Live(net) = {}
    <3>1. DOMAIN useless = 1..Len(useless)
      BY DEF TypeOK
    <3>2. CASE phase = "forward"
      BY <3>1, <3>2 DEF IInv, ForwardInv, ForwardList, Elements, Dead
    <3>3. CASE phase = "removal" \/ Swept
      BY <3>3 DEF IInv, RemovalInv, SweptInv, ListComplete, Dead
    <3>4. QED
      BY <3>2, <3>3 DEF Swept, TypeOK
  <2>2. \A e \in net.edges \ edges : e[2] \notin Live(net)
    <3>1. CASE phase \in {"backward", "forward"}
      BY <3>1 DEF IInv, BackwardInv, ForwardInv, ForwardMarks
    <3>2. CASE phase = "removal"
      <4>1. \A i \in 1..Len(useless) : useless[i] \in Elements(useless)
        BY DEF Elements, TypeOK
      <4>2. QED
        BY <2>1, <3>2, <4>1 DEF IInv, RemovalInv
    <3>3. CASE Swept
      BY <2>1, <3>3 DEF IInv, SweptInv, Swept
    <3>4. QED
      BY <3>1, <3>2, <3>3 DEF Swept, TypeOK
  <2>3. QED
    BY <2>1, <2>2 DEF LiveKept, Elements
<1>2. QED
  BY <1>1, TypeCorrect, SearchesCorrect, PTL

(***************************************************************************)
(* The sweep implements the abstract one: it shows nothing of what it does *)
(* before it is done, and then it has detached the dead nodes, all of them *)
(* the first time and no other ever.                                       *)
(***************************************************************************)
THEOREM SweepsImplement == Spec => SweepImplemented
<1> DEFINE shown == IF Swept THEN edges ELSE net.edges
           Abs == <<net, shown, Swept, passes = 1>>
<1>1. Init => Abstract!Init
  BY SessionNetlists, SessionStarts DEF Init, Abstract!Init, Swept
<1>2. TypeOK /\ TypeOK' /\ IInv /\ IInv' /\ [Next]_vars =>
        [Abstract!Sweep \/ Abstract!NextInvocation]_Abs
  <2> SUFFICES ASSUME TypeOK, TypeOK', IInv, IInv', [Next]_vars
               PROVE  [Abstract!Sweep \/ Abstract!NextInvocation]_Abs
    OBVIOUS
  <2> USE DEF graphVars, listVars, walkVars
  <2>1. CASE BeginStatistics
    <3>1. /\ ~Swept /\ Swept' /\ net' = net /\ edges' = edges /\ passes' = passes
      BY <2>1 DEF BeginStatistics, Swept
    <3>2. /\ Elements(useless)' \subseteq Dead(net)
          /\ removal_attached' => Dead(net) \subseteq Elements(useless)'
          /\ edges' = {e \in net.edges : e[2] \notin Elements(useless)'}
      BY <3>1 DEF IInv, SweptInv, ListComplete, Dead
    <3>3. passes = 1 => Elements(useless)' = Dead(net)
      BY <3>1, <3>2 DEF IInv, FirstPass
    <3>4. Abstract!Sweep
      BY <3>1, <3>2, <3>3 DEF Abstract!Sweep
    <3>5. QED
      BY <3>4
  <2>2. CASE NextPass
    <3>1. /\ Swept /\ ~Swept' /\ net' = session[passes'] /\ edges' = net'.edges
          /\ passes' = passes + 1 /\ session' = session
      BY <2>2 DEF NextPass, Load, Swept
    <3>2. net' \in Netlists
      BY <3>1, SessionNetlists DEF TypeOK
    <3>3. passes' # 1
      BY <3>1, SessionStarts DEF TypeOK
    <3>4. Abstract!NextInvocation
      BY <3>1, <3>2, <3>3 DEF Abstract!NextInvocation
    <3>5. QED
      BY <3>4
  <2>3. CASE ~BeginStatistics /\ ~NextPass
    <3>1. /\ net' = net /\ passes' = passes
          /\ Swept' = Swept
          /\ Swept => edges' = edges
      <4>1. CASE BackwardOutput \/ BackwardDriver \/ BackwardReturn \/ BeginForward
        BY <4>1 DEF BackwardOutput, BackwardDriver, BackwardReturn, BeginForward, Swept
      <4>2. CASE ForwardSource \/ ForwardReader \/ ForwardReturn \/ BeginRemoval
        <5>1. /\ phase = "forward" /\ phase' \in {"forward", "removal"}
              /\ net' = net /\ passes' = passes
          BY <4>2 DEF ForwardSource, ForwardReader, ForwardReturn, BeginRemoval
        <5>2. QED
          BY <5>1 DEF Swept
      <4>3. CASE RemoveNode
        BY <4>3 DEF RemoveNode, Swept
      <4>4. CASE StartChain \/ WalkChain \/ Finish \/ UNCHANGED vars
        BY <4>4 DEF StartChain, WalkChain, Finish, vars, Swept
      <4>5. QED
        BY <2>3, <4>1, <4>2, <4>3, <4>4 DEF Next
    <3>2. QED
      BY <3>1
  <2>4. QED
    BY <2>1, <2>2, <2>3
<1>3. QED
  BY <1>1, <1>2, TypeCorrect, SearchesCorrect, PTL
     DEF Spec, SweepImplemented, Abstract!Spec, Abstract!vars

-----------------------------------------------------------------------------
(* How deep the recursion gets                                             *)

(***************************************************************************)
(* A call of a search keeps the recursion a path, if its node is not in    *)
(* progress and is joined to the node of the call that makes it.           *)
(***************************************************************************)
LEMMA CallExtendsPath ==
  ASSUME stack \in Seq(Frames), RecursionIsPath,
         NEW n \in Node, NEW r \in BOOLEAN, stack' = Push(n, r), ~OnStack(n),
         phase' = phase, net' = net,
         stack # <<>> =>
            IF phase = "backward" THEN <<n, Top.node>> \in net.edges
                                  ELSE <<Top.node, n>> \in net.edges
  PROVE  RecursionIsPath'
<1>1. /\ Len(stack) \in Nat /\ DOMAIN stack = 1..Len(stack)
      /\ stack' \in Seq(Frames)
      /\ Len(stack') = Len(stack) + 1
      /\ \A i \in 1..Len(stack) : stack'[i] = stack[i]
      /\ stack'[Len(stack) + 1].node = n
  <2>1. /\ stack' \in Seq(Frames)
        /\ Len(stack') = Len(stack) + 1
        /\ \A i \in 1..Len(stack) : stack'[i] = stack[i]
        /\ stack'[Len(stack) + 1] = [node |-> n, remove |-> r]
    BY StackOps
  <2>2. QED
    BY <2>1
<1>2. DOMAIN stack' = 1..(Len(stack) + 1)
  BY <1>1
<1>3. SUFFICES ASSUME NEW i \in 1..(Len(stack) + 1), NEW j \in 1..(Len(stack) + 1)
               PROVE  /\ i # j => stack'[i].node # stack'[j].node
                      /\ j = i + 1 =>
                           IF phase = "backward"
                             THEN <<stack'[j].node, stack'[i].node>> \in net.edges
                             ELSE <<stack'[i].node, stack'[j].node>> \in net.edges
  BY <1>2 DEF RecursionIsPath
<1>4. \A k \in 1..Len(stack) : stack'[k].node # n
  BY <1>1 DEF OnStack
<1>5. CASE i \in 1..Len(stack) /\ j \in 1..Len(stack)
  BY <1>1, <1>5 DEF RecursionIsPath
<1>6. CASE i = Len(stack) + 1 \/ j = Len(stack) + 1
  <2>1. i # j => stack'[i].node # stack'[j].node
    BY <1>1, <1>4, <1>6
  <2>2. CASE j = i + 1
    <3>1. i = Len(stack) /\ j = Len(stack) + 1 /\ stack # <<>> /\ i \in 1..Len(stack)
      BY <1>1, <1>6, <2>2
    <3>2. stack'[i] = Top /\ stack'[j].node = n
      BY <1>1, <3>1 DEF Top
    <3>3. QED
      BY <2>1, <3>1, <3>2
  <2>3. QED
    BY <2>1, <2>2
<1>7. QED
  BY <1>1, <1>5, <1>6

(* A return takes the last node off the path.                              *)
LEMMA ReturnShortensPath ==
  ASSUME stack \in Seq(Frames), RecursionIsPath, stack # <<>>, stack' = Pop,
         phase' = phase, net' = net
  PROVE  RecursionIsPath'
<1>1. /\ Len(stack) \in Nat /\ DOMAIN stack = 1..Len(stack)
      /\ stack' \in Seq(Frames)
      /\ Len(stack') = Len(stack) - 1
      /\ \A i \in 1..(Len(stack) - 1) : stack'[i] = stack[i]
  BY StackOps
<1>2. DOMAIN stack' = 1..(Len(stack) - 1)
  BY <1>1
<1>3. \A i \in 1..(Len(stack) - 1) : i \in 1..Len(stack)
  BY <1>1
<1>4. QED
  <2> SUFFICES ASSUME NEW i \in DOMAIN stack', NEW j \in DOMAIN stack'
               PROVE  /\ i # j => stack'[i].node # stack'[j].node
                      /\ j = i + 1 =>
                           IF phase' = "backward"
                           THEN <<stack'[j].node, stack'[i].node>> \in net'.edges
                           ELSE <<stack'[i].node, stack'[j].node>> \in net'.edges
    BY Zenon DEF RecursionIsPath
  <2>1. i \in DOMAIN stack /\ j \in DOMAIN stack /\ stack'[i] = stack[i] /\ stack'[j] = stack[j]
    BY <1>1, <1>2, <1>3
  <2>2. /\ i # j => stack[i].node # stack[j].node
        /\ j = i + 1 =>
             IF phase = "backward" THEN <<stack[j].node, stack[i].node>> \in net.edges
                                   ELSE <<stack[i].node, stack[j].node>> \in net.edges
    BY <2>1, Zenon DEF RecursionIsPath
  <2> QED BY <2>1, <2>2, Zenon

(* A search that has nothing in progress has an empty path.                *)
LEMMA NoCallNoPath ==
  ASSUME stack = <<>>
  PROVE  RecursionIsPath
BY DEF RecursionIsPath

(***************************************************************************)
(* On every netlist, with loops or without, the recursion of both searches *)
(* is a path on which no node comes twice, so it cannot run away.          *)
(***************************************************************************)
THEOREM RecursionBounded == Spec => []RecursionIsPath
<1>1. Init => RecursionIsPath
  BY NoCallNoPath DEF Init
<1>2. TypeOK /\ IInv /\ IInv' /\ RecursionIsPath /\ [Next]_vars => RecursionIsPath'
  <2> SUFFICES ASSUME TypeOK, IInv, IInv', RecursionIsPath, [Next]_vars
               PROVE  RecursionIsPath'
    OBVIOUS
  <2> USE DEF graphVars, listVars, walkVars
  <2>1. stack' = <<>> => RecursionIsPath'
    BY DEF RecursionIsPath
  <2>2. stack' = stack /\ net' = net /\ phase' = phase => RecursionIsPath'
    BY DEF RecursionIsPath
  <2>3. stack \in Seq(Frames) /\ (stack # <<>> => Top \in Frames /\ OnStack(Top.node))
    <3>1. stack \in Seq(Frames)
      BY DEF TypeOK
    <3>2. stack # <<>> => Top \in Frames
      BY <3>1, StackOps
    <3>3. stack # <<>> => Len(stack) \in 1..Len(stack)
      BY <3>1
    <3>4. QED
      BY <3>1, <3>2, <3>3 DEF OnStack, Top
  <2>4. CASE BackwardOutput
    <3>1. /\ stack = <<>> /\ phase' = phase /\ net' = net /\ phase = "backward"
          /\ TraverseBackward(net.outputs[pos]) /\ net.outputs[pos] \in Node
      BY <2>4 DEF BackwardOutput, TypeOK, IsNetlist
    <3>2. ~OnStack(net.outputs[pos])
      BY <3>1 DEF OnStack
    <3>3. QED
      BY <2>2, <2>3, <3>1, <3>2, CallExtendsPath DEF TraverseBackward
  <2>5. CASE BackwardDriver
    <3>1. PICK m \in Drivers(Top.node) : mark[m] # "backward" /\ TraverseBackward(m)
      BY <2>5 DEF BackwardDriver
    <3>2. /\ phase = "backward" /\ phase' = phase /\ net' = net /\ stack # <<>>
          /\ m \in Node /\ <<m, Top.node>> \in net.edges /\ stack' = Push(m, FALSE)
      BY <2>5, <3>1 DEF BackwardDriver, TraverseBackward, Drivers, TypeOK
    <3>3. ~OnStack(m)
      BY <3>1, <3>2 DEF IInv, BackwardInv
    <3>4. QED
      BY <2>3, <3>2, <3>3, CallExtendsPath
  <2>6. CASE BackwardReturn \/ ForwardReturn
    BY <2>3, <2>6, ReturnShortensPath DEF BackwardReturn, ForwardReturn
  <2>7. ASSUME NEW n \in Node, phase = "forward", mark[n] # "forward"
        PROVE  ~OnStack(n)
    BY <2>7 DEF IInv, ForwardInv, ForwardMarks, OnStack
  <2>8. CASE ForwardSource
    <3>1. CASE mark[Sources(net)[pos]] = "forward"
      BY <2>2, <2>8, <3>1 DEF ForwardSource
    <3>2. CASE mark[Sources(net)[pos]] # "forward"
      <4>1. /\ stack = <<>> /\ phase' = phase /\ net' = net /\ phase = "forward"
            /\ Sources(net)[pos] \in Node
            /\ TraverseForward(Sources(net)[pos], TRUE, FALSE)
        <5>1. Sources(net) \in Seq(Node) /\ pos \in 1..Len(Sources(net))
          BY <2>8, SourcesType DEF ForwardSource, TypeOK
        <5>2. Sources(net)[pos] \in Node
          BY <5>1
        <5>3. TraverseForward(Sources(net)[pos], TRUE, FALSE)
          BY <2>8, <3>2 DEF ForwardSource
        <5>4. QED
          BY <2>8, <5>2, <5>3 DEF ForwardSource
      <4>2. /\ stack' = Push(Sources(net)[pos], Unwanted(Sources(net)[pos], TRUE, FALSE))
            /\ Unwanted(Sources(net)[pos], TRUE, FALSE) \in BOOLEAN
        BY <4>1 DEF TraverseForward, Unwanted
      <4>3. QED
        BY <2>3, <2>7, <3>2, <4>1, <4>2, CallExtendsPath
    <3>3. QED
      BY <3>1, <3>2
  <2>9. CASE ForwardReader
    <3>1. PICK m \in Readers(Top.node) :
             mark[m] # "forward" /\ TraverseForward(m, FALSE, Top.remove)
      BY <2>9 DEF ForwardReader
    <3>2. /\ phase = "forward" /\ phase' = phase /\ net' = net /\ stack # <<>>
          /\ m \in Node /\ <<Top.node, m>> \in net.edges /\ Top.remove \in BOOLEAN
      BY <2>3, <2>9, <3>1 DEF ForwardReader, Readers, TypeOK, Frames
    <3>3. /\ stack' = Push(m, Unwanted(m, FALSE, Top.remove))
          /\ Unwanted(m, FALSE, Top.remove) \in BOOLEAN
      BY <3>1, <3>2 DEF TraverseForward, Unwanted
    <3>4. QED
      BY <2>3, <2>7, <3>1, <3>2, <3>3, CallExtendsPath
  <2>10. CASE NextPass \/ BeginForward \/ BeginRemoval
    BY <2>1, <2>10 DEF NextPass, BeginForward, BeginRemoval, IInv
  <2>11. CASE RemoveNode \/ BeginStatistics \/ StartChain \/ WalkChain \/ Finish
    <3>1. phase' \notin {"backward", "forward"}
      BY <2>11 DEF RemoveNode, BeginStatistics, StartChain, WalkChain, Finish
    <3>2. QED
      BY <2>1, <3>1 DEF IInv
  <2>12. CASE UNCHANGED vars
    BY <2>2, <2>12 DEF vars
  <2>13. QED
    BY <2>4, <2>5, <2>6, <2>8, <2>9, <2>10, <2>11, <2>12 DEF Next
<1>3. QED
  BY <1>1, <1>2, TypeCorrect, SearchesCorrect, PTL DEF Spec

-----------------------------------------------------------------------------
(* What the sweep reports                                                  *)

(***************************************************************************)
(* Why the report is right: in the first invocation every node on the list *)
(* was counted when it was put there, no node is put there twice because   *)
(* it is visited when it is listed, and the removal walk has marked        *)
(* exactly the cells it has passed.                                        *)
(***************************************************************************)
Distinct(s) == \A i, j \in 1..Len(s) : i # j => s[i] # s[j]

ListedIn(t, s) == {n \in Elements(s) : t \in CountedIn(net.kind[n])}

Tallied == \A t \in Counters :
  IsFiniteSet(ListedIn(t, useless)) /\ num_removed[t] = Cardinality(ListedIn(t, useless))

ReportInv == passes = 1 =>
  /\ Tallied
  /\ phase = "forward" => \A i \in 1..Len(useless) : mark[useless[i]] = "forward"
  /\ phase = "removal" => \A n \in Node :
        mark[n] = "removal" <=> \E i \in 1..Len(useless) : i < pos /\ useless[i] = n
  /\ Swept => \A n \in Node : mark[n] = "removal" <=> n \in Elements(useless)

(* An empty list has nothing to count.                                     *)
LEMMA EmptyTally ==
  ASSUME useless = <<>>, num_removed = [t \in Counters |-> 0]
  PROVE  Tallied
<1>1. Elements(useless) = {}
  BY DEF Elements
<1>2. \A t \in Counters : ListedIn(t, useless) = {}
  BY <1>1 DEF ListedIn
<1> QED BY <1>2, FS_EmptySet DEF Tallied

(* The tally is about the list, the counters and the types of the nodes.   *)
LEMMA TallyKept ==
  ASSUME Tallied, useless' = useless, num_removed' = num_removed, net' = net
  PROVE  Tallied'
<1>1. \A t : ListedIn(t, useless)' = ListedIn(t, useless)
  BY DEF ListedIn, Elements
<1> QED BY <1>1 DEF Tallied

(* A call of traverse_forward lists and counts its node, or neither.       *)
LEMMA CallCounts ==
  ASSUME TypeOK, FirstPass, ReportInv, passes = 1, phase = "forward", net' = net,
         NEW n \in Node, mark[n] # "forward",
         NEW t \in BOOLEAN, NEW r \in BOOLEAN, TraverseForward(n, t, r)
  PROVE  /\ Tallied'
         /\ \A i \in 1..Len(useless') : mark'[useless'[i]] = "forward"
<1>1. /\ useless \in Seq(Node) /\ Len(useless) \in Nat /\ DOMAIN useless = 1..Len(useless)
      /\ \A i \in 1..Len(useless) : useless[i] \in Node
  BY DEF TypeOK
<1>2. \A m \in Node : mark'[m] = IF m = n THEN "forward" ELSE mark[m]
  BY DEF TraverseForward, TypeOK
<1>3. /\ Tallied
      /\ \A i \in 1..Len(useless) : mark[useless[i]] = "forward"
  BY DEF ReportInv
<1>4. CASE ~Unwanted(n, t, r)
  <2>1. useless' = useless /\ num_removed' = num_removed
    BY <1>4 DEF TraverseForward
  <2>2. Tallied'
    BY <1>3, <2>1, TallyKept
  <2>3. QED
    BY <1>1, <1>2, <1>3, <2>1, <2>2
<1>5. CASE Unwanted(n, t, r)
  <2>1. removal_attached
    BY DEF FirstPass
  <2>2. useless' = Append(useless, n) /\ num_removed' = Counted(n)
    BY <1>5, <2>1 DEF TraverseForward, InsertNode
  <2>3. /\ Len(useless') = Len(useless) + 1 /\ DOMAIN useless' = 1..(Len(useless) + 1)
        /\ \A i \in 1..Len(useless) : useless'[i] = useless[i]
        /\ useless'[Len(useless) + 1] = n
    BY <1>1, <2>2
  <2>4. n \notin Elements(useless)
    BY <1>1, <1>3 DEF Elements
  <2>5. \A i \in 1..Len(useless') : i \in 1..Len(useless) \/ i = Len(useless) + 1
    BY <1>1, <2>3
  <2>6. Elements(useless)' = Elements(useless) \cup {n}
    <3>1. 1..Len(useless) \subseteq DOMAIN useless' /\ Len(useless) + 1 \in DOMAIN useless'
      BY <1>1, <2>3
    <3>2. \A i \in DOMAIN useless' : i \in DOMAIN useless \/ i = Len(useless) + 1
      BY <1>1, <2>3, <2>5
    <3> QED BY <1>1, <2>3, <3>1, <3>2 DEF Elements
  <2>7. \A i \in 1..Len(useless') : mark'[useless'[i]] = "forward"
    BY <1>1, <1>2, <1>3, <2>3, <2>5
  <2>8. ASSUME NEW c \in Counters
        PROVE  /\ IsFiniteSet(ListedIn(c, useless)')
               /\ num_removed'[c] = Cardinality(ListedIn(c, useless)')
    <3> DEFINE old == ListedIn(c, useless)
    <3>1. /\ ListedIn(c, useless)' =
               IF c \in CountedIn(net.kind[n]) THEN old \cup {n} ELSE old
          /\ n \notin old
      BY <2>4, <2>6 DEF ListedIn
    <3>2. IsFiniteSet(old) /\ num_removed[c] = Cardinality(old)
      BY <1>3 DEF Tallied
    <3>3. num_removed'[c] =
            IF c \in CountedIn(net.kind[n]) THEN num_removed[c] + 1 ELSE num_removed[c]
      BY <2>2 DEF Counted
    <3>4. IsFiniteSet(old \cup {n}) /\ Cardinality(old \cup {n}) = Cardinality(old) + 1
      BY <3>1, <3>2, FS_AddElement
    <3> HIDE DEF old
    <3> QED BY <3>1, <3>2, <3>3, <3>4
  <2>9. Tallied'
    BY <2>8 DEF Tallied
  <2>10. QED
    BY <2>7, <2>9
<1>6. QED
  BY <1>4, <1>5

(* The removal walk marks one cell of the list at a time.                  *)
LEMMA RemovalMarks ==
  ASSUME TypeOK, ReportInv, passes = 1, RemoveNode
  PROVE  \A n \in Node :
           mark'[n] = "removal" <=> \E i \in 1..Len(useless) : i < pos' /\ useless[i] = n
<1>1. /\ phase = "removal" /\ pos \in 1..Len(useless) /\ pos' = pos + 1
      /\ mark' = [mark EXCEPT ![useless[pos]] = "removal"]
  BY DEF RemoveNode, TypeOK
<1>2. \A n \in Node : mark'[n] = IF n = useless[pos] THEN "removal" ELSE mark[n]
  BY <1>1 DEF TypeOK
<1>3. \A i \in 1..Len(useless) : i < pos' <=> i < pos \/ i = pos
  BY <1>1 DEF TypeOK
<1>4. \A n \in Node :
         mark[n] = "removal" <=> \E i \in 1..Len(useless) : i < pos /\ useless[i] = n
  BY <1>1 DEF ReportInv
<1>5. QED
  BY <1>1, <1>2, <1>3, <1>4

(* The list and the counter agree in every state of the first invocation.  *)
THEOREM ReportListed == Spec => []ReportInv
<1>1. Init => ReportInv
  BY EmptyTally DEF Init, ReportInv, Swept
<1>2. TypeOK /\ TypeOK' /\ IInv /\ IInv' /\ ReportInv /\ [Next]_vars => ReportInv'
  <2> SUFFICES ASSUME TypeOK, TypeOK', IInv, IInv', ReportInv, [Next]_vars, passes' = 1
               PROVE  ReportInv'
    BY DEF ReportInv
  <2> USE DEF graphVars, listVars, walkVars
  <2>1. CASE NextPass
    <3>1. passes' # 1
      BY <2>1 DEF NextPass, TypeOK
    <3>2. QED
      BY <3>1
  <2>2. CASE BackwardOutput \/ BackwardDriver \/ BackwardReturn
    <3>1. /\ phase = "backward" /\ phase' = "backward" /\ passes = 1 /\ net' = net
          /\ UNCHANGED <<useless, num_removed>>
      BY <2>2 DEF BackwardOutput, BackwardDriver, BackwardReturn
    <3> QED BY <3>1, TallyKept DEF ReportInv, Swept
  <2>3. CASE BeginForward
    <3>1. /\ useless' = <<>> /\ phase' = "forward" /\ num_removed' = num_removed
          /\ phase = "backward" /\ passes = 1 /\ net' = net
      BY <2>3 DEF BeginForward
    <3>2. useless = <<>> /\ Tallied
      BY <3>1 DEF ReportInv, IInv, FirstPass
    <3>3. Tallied'
      BY <3>1, <3>2, TallyKept
    <3>4. QED
      BY <3>1, <3>3 DEF ReportInv, Swept
  <2>4. CASE ForwardSource
    <3>1. CASE mark[Sources(net)[pos]] = "forward"
      BY <2>4, <3>1, TallyKept DEF ForwardSource, ReportInv, Swept
    <3>2. CASE mark[Sources(net)[pos]] # "forward"
      <4>1. Sources(net) \in Seq(Node) /\ pos \in 1..Len(Sources(net))
        BY <2>4, SourcesType DEF ForwardSource, TypeOK
      <4>2. Sources(net)[pos] \in Node
        BY <4>1
      <4>3. TraverseForward(Sources(net)[pos], TRUE, FALSE)
        BY <2>4, <3>2 DEF ForwardSource
      <4>4. phase = "forward" /\ phase' = "forward" /\ passes = 1 /\ net' = net
        BY <2>4 DEF ForwardSource
      <4>5. /\ Tallied'
            /\ \A i \in 1..Len(useless') : mark'[useless'[i]] = "forward"
        BY <3>2, <4>2, <4>3, <4>4, CallCounts DEF IInv
      <4>6. QED
        BY <4>4, <4>5 DEF ReportInv, Swept
    <3>3. QED
      BY <3>1, <3>2
  <2>5. CASE ForwardReader
    <3>1. PICK m \in Readers(Top.node) :
             mark[m] # "forward" /\ TraverseForward(m, FALSE, Top.remove)
      BY <2>5 DEF ForwardReader
    <3>2. Top \in Frames
      BY <2>5, StackOps DEF ForwardReader, TypeOK
    <3>3. m \in Node /\ Top.remove \in BOOLEAN
      BY <3>2 DEF Readers, Frames
    <3>4. phase = "forward" /\ phase' = "forward" /\ passes = 1 /\ net' = net
      BY <2>5 DEF ForwardReader
    <3>5. /\ Tallied'
          /\ \A i \in 1..Len(useless') : mark'[useless'[i]] = "forward"
      BY <3>1, <3>3, <3>4, CallCounts DEF IInv
    <3>6. QED
      BY <3>4, <3>5 DEF ReportInv, Swept
  <2>6. CASE ForwardReturn
    BY <2>6, TallyKept DEF ForwardReturn, ReportInv, Swept
  <2>7. CASE BeginRemoval
    <3>1. /\ phase = "forward" /\ phase' = "removal" /\ pos' = 1 /\ passes = 1 /\ net' = net
          /\ UNCHANGED <<useless, num_removed, mark>>
      BY <2>7 DEF BeginRemoval
    <3>2. \A n \in Node : mark[n] # "removal"
      BY <3>1 DEF IInv, ForwardInv, ForwardMarks
    <3>3. \A i \in 1..Len(useless) : ~(i < 1)
      BY DEF TypeOK
    <3>4. QED
      BY <3>1, <3>2, <3>3, TallyKept DEF ReportInv, Swept
  <2>8. CASE RemoveNode
    <3>1. /\ phase = "removal" /\ phase' = "removal" /\ passes = 1 /\ net' = net
          /\ UNCHANGED <<useless, num_removed>>
      BY <2>8 DEF RemoveNode
    <3>2. QED
      BY <2>8, <3>1, RemovalMarks, TallyKept DEF ReportInv, Swept
  <2>9. CASE BeginStatistics
    <3>1. /\ phase = "removal" /\ phase' = "statistics" /\ passes = 1 /\ net' = net
          /\ UNCHANGED <<useless, num_removed, mark>> /\ pos > Len(useless)
      BY <2>9 DEF BeginStatistics
    <3>2. DOMAIN useless = 1..Len(useless) /\ \A i \in 1..Len(useless) : i < pos
      <4>1. useless \in Seq(Node) /\ pos \in Nat
        BY DEF TypeOK
      <4>2. QED
        BY <3>1, <4>1
    <3>3. \A n \in Node : mark[n] = "removal" <=> n \in Elements(useless)
      BY <3>1, <3>2 DEF ReportInv, Elements
    <3>4. QED
      BY <3>1, <3>3, TallyKept DEF ReportInv, Elements, Swept
  <2>10. CASE StartChain \/ WalkChain \/ Finish
    <3>1. /\ phase = "statistics" /\ phase' \in {"statistics", "done"} /\ passes = 1 /\ net' = net
          /\ UNCHANGED <<useless, num_removed, mark>>
      BY <2>10 DEF StartChain, WalkChain, Finish
    <3>2. QED
      BY <3>1, TallyKept DEF ReportInv, Elements, Swept
  <2>11. CASE UNCHANGED vars
    BY <2>11, TallyKept DEF vars, ReportInv, Elements, Swept
  <2>12. QED
    BY <2>1, <2>2, <2>3, <2>4, <2>5, <2>6, <2>7, <2>8, <2>9, <2>10, <2>11 DEF Next
<1>3. QED
  BY <1>1, <1>2, TypeCorrect, SearchesCorrect, PTL DEF Spec

(***************************************************************************)
(* report_removed_nodes tells the truth about the first invocation: every  *)
(* counter it may print is the number of nodes detached that count_node_   *)
(* type means to put there, subtractors as adders and all gates as generic *)
(* nodes as well.                                                          *)
(***************************************************************************)
THEOREM ReportCountsDetached == Spec => []ReportExact
<1>1. TypeOK /\ ReportInv => ReportExact
  <2> SUFFICES ASSUME TypeOK, ReportInv, Swept, passes = 1, NEW t \in Counters
               PROVE  num_removed[t] = Cardinality(Detached(Reported(t)))
    BY DEF ReportExact
  <2>1. /\ \A n \in Node : net.kind[n] \in Kinds
        /\ useless \in Seq(Node) /\ DOMAIN useless = 1..Len(useless)
    BY DEF TypeOK, IsNetlist
  <2>2. /\ Elements(useless) \subseteq Node
        /\ \A n \in Node : mark[n] = "removal" <=> n \in Elements(useless)
    BY <2>1 DEF ReportInv, Elements
  <2>3. \A k \in Kinds : t \in CountedIn(k) <=> k \in Reported(t)
    BY DEF Kinds, Adders, Counters, CountedIn, Reported
  <2>4. Detached(Reported(t)) = ListedIn(t, useless)
    BY <2>1, <2>2, <2>3 DEF Detached, ListedIn
  <2>5. QED
    BY <2>4 DEF ReportInv, Tallied
<1>2. QED
  BY <1>1, TypeCorrect, ReportListed, PTL

-----------------------------------------------------------------------------
(* What the statistics count                                               *)

(***************************************************************************)
(* Why the statistics are right: the list holds every chain head once, and *)
(* some set D holds the adders counted so far.  D is closed along the live *)
(* carries but for the place the walk has reached, which is not yet in it, *)
(* and every adder of D is a head or follows one of D.                     *)
(***************************************************************************)
HeadsListed == passes = 1 =>
  /\ addsub_attached
  /\ phase = "backward" => addsub = <<>>
  /\ Distinct(addsub)
  /\ phase = "forward" => \A n \in Node :
        n \in Elements(addsub) <=> IsChainHead(n) /\ mark[n] = "forward"
  /\ phase \in {"removal", "statistics", "done"} => \A n \in Node :
        n \in Elements(addsub) <=> IsChainHead(n)
  /\ phase # "statistics" => walk = NoWalk
  /\ ~Swept => stats = ZeroStats
  /\ phase = "done" => pos > Len(addsub)

Follows(n, D) == net.cin[n] \in D /\ net.carry[net.cin[n]] = n

ChainMember(n, D) ==
  /\ net.kind[n] \in Adders /\ InChain(n, net.kind[n])
  /\ IsChainHead(n) \/ Follows(n, D)

Walking == walk # NoWalk

CountedHeads(D) == \A i \in 1..Len(addsub) :
  /\ addsub[i] \in D => i < pos \/ (i = pos /\ Walking)
  /\ addsub[i] \in Live(net) =>
        /\ i < pos => addsub[i] \in D
        /\ i = pos /\ Walking => addsub[i] \in D \/ walk.at = addsub[i]

CountedSet(D) ==
  /\ D \subseteq Live(net)
  /\ \A n \in D : ChainMember(n, D)
  /\ \A n \in D : net.carry[n] \in Live(net) =>
        net.carry[n] \in D \/ (Walking /\ walk.at = net.carry[n])
  /\ Walking => walk.at \notin D /\ ChainMember(walk.at, D) /\ walk.at \in Reached(net)
  /\ Walking => pos <= Len(addsub) /\ (IsChainHead(walk.at) => walk.at = addsub[pos])

InProgress(k) == IF Walking /\ net.kind[walk.at] = k THEN walk.depth ELSE 0

OfKind(D, k) == {n \in D : net.kind[n] = k}

CountedTotals(D) ==
  /\ IsFiniteSet(D)
  /\ \A k \in Adders :
        stats[k].total + InProgress(k) = Cardinality(OfKind(D, k))

CountInv ==
  passes = 1 /\ Swept =>
    \E D \in SUBSET Node : CountedHeads(D) /\ CountedSet(D) /\ CountedTotals(D)

(***************************************************************************)
(* A chain head reads a source, so it is reached, and it is no carry       *)
(* reader of another slice.                                                *)
(***************************************************************************)
LEMMA HeadFacts ==
  ASSUME IsNetlist(net), NEW n \in Node, IsChainHead(n)
  PROVE  /\ n \in Reached(net)
         /\ n \notin Elements(Sources(net))
         /\ net.kind[n] \in Adders
         /\ \A p \in Node : net.carry[p] # n
<1>1. /\ net.kind[n] \in Adders /\ net.cin[n] \in {net.gnd, net.vcc, net.pad}
      /\ <<net.cin[n], n>> \in net.edges
  BY DEF IsChainHead, AdderStart, IsNetlist
<1>2. Sources(net) \in Seq(Node) /\ net.inputs \in Seq(Node)
  BY SourcesType DEF IsNetlist
<1>3. \A x \in {net.gnd, net.vcc, net.pad} :
         \E i \in 1..Len(Sources(net)) : Sources(net)[i] = x
  <2>1. /\ Len(Sources(net)) = 3 + Len(net.inputs) /\ Len(net.inputs) \in Nat
        /\ Sources(net)[1] = net.gnd /\ Sources(net)[2] = net.vcc
        /\ Sources(net)[3] = net.pad
    BY <1>2 DEF Sources
  <2>2. 1 \in 1..Len(Sources(net)) /\ 2 \in 1..Len(Sources(net)) /\ 3 \in 1..Len(Sources(net))
    BY <2>1
  <2>3. QED
    BY <2>1, <2>2
<1>4. net.cin[n] \in Reached(net) /\ net.cin[n] \in Elements(Sources(net))
  BY <1>1, <1>2, <1>3, ReachedClosed DEF Elements
<1>5. n \in Reached(net) /\ n \notin Elements(Sources(net))
  <2>1. <<net.cin[n], n>>[1] = net.cin[n] /\ <<net.cin[n], n>>[2] = n
    OBVIOUS
  <2>2. QED
    BY <1>1, <1>4, <2>1, ReachedClosed, EdgeFacts
<1>6. ASSUME NEW p \in Node, net.carry[p] = n PROVE FALSE
  <2>1. net.cin[n] = p /\ net.kind[n] = net.kind[p]
    BY <1>6, NodeAssumption DEF IsNetlist
  <2>2. <<net.cin[p], p>> \in net.edges
    BY <1>1, <2>1 DEF IsNetlist
  <2>3. p \notin Elements(Sources(net))
    BY <2>2, EdgeFacts
  <2>4. QED
    BY <1>4, <2>1, <2>3
<1>7. QED
  BY <1>1, <1>5, <1>6

(* The next slice of a chain reads the carry of exactly one other.         *)
LEMMA CarryFacts ==
  ASSUME IsNetlist(net), NEW p \in Node, net.carry[p] # NoNode
  PROVE  /\ net.carry[p] \in Node
         /\ <<p, net.carry[p]>> \in net.edges
         /\ net.kind[net.carry[p]] = net.kind[p]
         /\ net.cin[net.carry[p]] = p
         /\ ~IsChainHead(net.carry[p])
         /\ net.carry[p] \notin Elements(Sources(net))
         /\ p \in Reached(net) => net.carry[p] \in Reached(net)
         /\ net.carry[p] \in Live(net) => p \in Live(net)
<1>1. /\ net.carry[p] \in Node /\ <<p, net.carry[p]>> \in net.edges
      /\ net.kind[net.carry[p]] = net.kind[p] /\ net.cin[net.carry[p]] = p
  BY DEF IsNetlist
<1>2. ~IsChainHead(net.carry[p])
  BY <1>1, HeadFacts
<1>3. <<p, net.carry[p]>>[1] = p /\ <<p, net.carry[p]>>[2] = net.carry[p]
  OBVIOUS
<1>4. QED
  BY <1>1, <1>2, <1>3, EdgeFacts, ReachedClosed, LiveClosed

(* A call of traverse_forward lists its node if it is a chain head.        *)
LEMMA CallLists ==
  ASSUME TypeOK, HeadsListed, passes = 1, phase = "forward", net' = net,
         NEW n \in Node, mark[n] # "forward",
         NEW t \in BOOLEAN, NEW r \in BOOLEAN, TraverseForward(n, t, r)
  PROVE  /\ Distinct(addsub')
         /\ \A m \in Node :
              m \in Elements(addsub') <=> IsChainHead(m) /\ mark'[m] = "forward"
<1>1. /\ addsub \in Seq(Node) /\ Len(addsub) \in Nat /\ DOMAIN addsub = 1..Len(addsub)
      /\ \A i \in 1..Len(addsub) : addsub[i] \in Node
  BY DEF TypeOK
<1>2. \A m \in Node : mark'[m] = IF m = n THEN "forward" ELSE mark[m]
  BY DEF TraverseForward, TypeOK
<1>3. /\ addsub_attached /\ Distinct(addsub)
      /\ \A m \in Node : m \in Elements(addsub) <=> IsChainHead(m) /\ mark[m] = "forward"
  BY DEF HeadsListed
<1>4. CASE ~IsChainHead(n)
  <2>1. addsub' = addsub
    BY <1>4 DEF TraverseForward
  <2>2. QED
    BY <1>2, <1>3, <1>4, <2>1
<1>5. CASE IsChainHead(n)
  <2>1. addsub' = Append(addsub, n)
    BY <1>3, <1>5 DEF TraverseForward, InsertNode
  <2>2. /\ addsub' \in Seq(Node)
        /\ Len(addsub') = Len(addsub) + 1
        /\ \A i \in 1..Len(addsub) : addsub'[i] = addsub[i]
        /\ addsub'[Len(addsub) + 1] = n
    BY <1>1, <2>1
  <2>3. \A i \in 1..Len(addsub') : i \in 1..Len(addsub) \/ i = Len(addsub) + 1
    BY <1>1, <2>2
  <2>4. n \notin Elements(addsub)
    BY <1>3
  <2>5. Elements(addsub') = Elements(addsub) \cup {n}
    <3>1. DOMAIN addsub' = 1..(Len(addsub) + 1)
      BY <2>2
    <3>2. \A i \in 1..Len(addsub) : i \in 1..(Len(addsub) + 1)
      BY <1>1
    <3>3. Len(addsub) + 1 \in 1..(Len(addsub) + 1)
      BY <1>1
    <3>4. QED
      BY <1>1, <2>2, <2>3, <3>1, <3>2, <3>3 DEF Elements
  <2>6. \A i \in 1..Len(addsub) : addsub[i] # n
    BY <1>1, <2>4 DEF Elements
  <2>7. Distinct(addsub')
    BY <1>3, <2>2, <2>3, <2>6 DEF Distinct
  <2>8. QED
    BY <1>2, <1>3, <1>5, <2>5, <2>7
<1>6. QED
  BY <1>4, <1>5

(* The list of chain heads is right in every state of the first pass.      *)
LEMMA HeadsListedNext ==
  TypeOK /\ TypeOK' /\ IInv /\ IInv' /\ HeadsListed /\ [Next]_vars => HeadsListed'
<1> SUFFICES ASSUME TypeOK, TypeOK', IInv, IInv', HeadsListed, [Next]_vars, passes' = 1
             PROVE  HeadsListed'
  BY DEF HeadsListed
<1> USE DEF graphVars, listVars, walkVars
<1>1. CASE NextPass
  <2>1. passes' # 1
    BY <1>1 DEF NextPass, TypeOK
  <2>2. QED
    BY <2>1
<1>2. CASE BackwardOutput \/ BackwardDriver \/ BackwardReturn
  BY <1>2 DEF BackwardOutput, BackwardDriver, BackwardReturn, HeadsListed, Swept
<1>3. CASE BeginForward
  <2>1. /\ addsub' = <<>> /\ phase' = "forward" /\ phase = "backward" /\ passes = 1
        /\ addsub = <<>> /\ addsub_attached /\ addsub_attached'
        /\ walk' = NoWalk /\ stats' = ZeroStats /\ mark' = mark /\ net' = net
    BY <1>3 DEF BeginForward, HeadsListed, StillAttached, Swept
  <2>2. \A n \in Node : mark[n] # "forward"
    BY <2>1 DEF IInv, BackwardInv
  <2>3. Elements(<<>>) = {}
    BY DEF Elements
  <2>4. QED
    BY <2>1, <2>2, <2>3 DEF HeadsListed, Distinct, Swept
<1>4. ASSUME NEW n \in Node, NEW t \in BOOLEAN, NEW r \in BOOLEAN, mark[n] # "forward",
             phase = "forward", phase' = "forward", passes = 1,
             UNCHANGED <<net, walk, stats>>, TraverseForward(n, t, r)
      PROVE  HeadsListed'
  <2>1. /\ Distinct(addsub')
        /\ \A m \in Node :
             m \in Elements(addsub') <=> IsChainHead(m) /\ mark'[m] = "forward"
    BY <1>4, CallLists
  <2>2. addsub_attached' = addsub_attached
    BY <1>4 DEF TraverseForward
  <2>3. \A m \in Node : IsChainHead(m)' <=> IsChainHead(m)
    BY <1>4 DEF IsChainHead, AdderStart
  <2>4. Elements(addsub)' = Elements(addsub')
    BY DEF Elements
  <2>5. QED
    BY <1>4, <2>1, <2>2, <2>3, <2>4 DEF HeadsListed, Distinct, Swept
<1>5. CASE ForwardSource
  <2>1. CASE mark[Sources(net)[pos]] = "forward"
    BY <1>5, <2>1 DEF ForwardSource, HeadsListed, Swept, Elements, IsChainHead, AdderStart
  <2>2. CASE mark[Sources(net)[pos]] # "forward"
    <3>1. Sources(net) \in Seq(Node) /\ pos \in 1..Len(Sources(net))
      BY <1>5, SourcesType DEF ForwardSource, TypeOK
    <3>2. Sources(net)[pos] \in Node
      BY <3>1
    <3>3. TraverseForward(Sources(net)[pos], TRUE, FALSE)
      BY <1>5, <2>2 DEF ForwardSource
    <3>4. phase = "forward" /\ phase' = "forward" /\ passes = 1 /\ UNCHANGED <<net, walk, stats>>
      BY <1>5 DEF ForwardSource
    <3>5. QED
      BY <1>4, <2>2, <3>2, <3>3, <3>4
  <2>3. QED
    BY <2>1, <2>2
<1>6. CASE ForwardReader
  <2>1. PICK m \in Readers(Top.node) :
           mark[m] # "forward" /\ TraverseForward(m, FALSE, Top.remove)
    BY <1>6 DEF ForwardReader
  <2>2. Top \in Frames
    BY <1>6, StackOps DEF ForwardReader, TypeOK
  <2>3. m \in Node /\ Top.remove \in BOOLEAN
    BY <2>2 DEF Readers, Frames
  <2>4. phase = "forward" /\ phase' = "forward" /\ passes = 1 /\ UNCHANGED <<net, walk, stats>>
    BY <1>6 DEF ForwardReader
  <2>5. QED
    BY <1>4, <2>1, <2>3, <2>4
<1>7. CASE ForwardReturn
  BY <1>7 DEF ForwardReturn, HeadsListed, Swept, Elements, IsChainHead, AdderStart
<1>8. CASE BeginRemoval
  <2>1. /\ phase = "forward" /\ phase' = "removal" /\ passes = 1
        /\ UNCHANGED <<net, addsub, addsub_attached, mark, walk, stats>>
    BY <1>8 DEF BeginRemoval
  <2>2. \A n \in Node : n \in Reached(net) => mark[n] = "forward"
    BY <1>8, ReachedVisited DEF IInv
  <2>3. \A n \in Node : IsChainHead(n) => mark[n] = "forward"
    BY <2>2, HeadFacts DEF TypeOK
  <2>4. QED
    BY <2>1, <2>3 DEF HeadsListed, Distinct, Swept, Elements, IsChainHead, AdderStart
<1>9. CASE RemoveNode \/ BeginStatistics
  <2>1. /\ phase = "removal" /\ phase' \in {"removal", "statistics"} /\ passes = 1
        /\ UNCHANGED <<net, addsub, addsub_attached, walk, stats>>
    BY <1>9 DEF RemoveNode, BeginStatistics
  <2>2. QED
    BY <2>1 DEF HeadsListed, Distinct, Swept, Elements, IsChainHead, AdderStart
<1>10. CASE StartChain \/ WalkChain \/ Finish
  <2>1. /\ phase = "statistics" /\ phase' \in {"statistics", "done"} /\ passes = 1
        /\ phase' = "done" => walk' = NoWalk /\ pos' > Len(addsub')
        /\ UNCHANGED <<net, addsub, addsub_attached>>
    BY <1>10 DEF StartChain, WalkChain, Finish
  <2>2. QED
    BY <2>1 DEF HeadsListed, Distinct, Swept, Elements, IsChainHead, AdderStart
<1>11. CASE UNCHANGED vars
  BY <1>11 DEF vars, HeadsListed, Distinct, Swept, Elements, IsChainHead, AdderStart
<1>12. QED
  BY <1>1, <1>2, <1>3, <1>5, <1>6, <1>7, <1>8, <1>9, <1>10, <1>11 DEF Next

(* The marks of the removal walk separate live from dead chain members.    *)
LEMMA RemovedIsDead ==
  ASSUME TypeOK, IInv, ReportInv, passes = 1, Swept
  PROVE  /\ \A n \in Node : mark[n] = "removal" <=> n \in Dead(net)
         /\ edges = {e \in net.edges : e[2] \notin Dead(net)}
<1>1. Elements(useless) = Dead(net)
  BY DEF IInv, FirstPass, SweptInv, ListComplete
<1>2. QED
  BY <1>1 DEF ReportInv, IInv, SweptInv

(* A chain member is a reached node that is no source.                     *)
LEMMA MemberFacts ==
  ASSUME TypeOK, NEW n \in Node, NEW D \in SUBSET Node, ChainMember(n, D)
  PROVE  /\ n \notin Elements(Sources(net))
         /\ net.kind[n] \in Adders
<1>1. IsNetlist(net)
  BY DEF TypeOK
<1>2. net.kind[n] \in Adders
  BY <1>1 DEF ChainMember, IsNetlist, Kinds
<1>3. CASE IsChainHead(n)
  BY <1>1, <1>2, <1>3, HeadFacts
<1>4. CASE Follows(n, D)
  <2>1. net.cin[n] \in Node /\ net.carry[net.cin[n]] = n
    BY <1>4 DEF Follows
  <2>2. n # NoNode
    BY NodeAssumption
  <2>3. net.carry[net.cin[n]] \notin Elements(Sources(net))
    BY <1>1, <2>1, <2>2, CarryFacts
  <2>4. QED
    BY <1>2, <2>1, <2>3
<1>5. QED
  BY <1>3, <1>4 DEF ChainMember

(* The reader of the carry of a chain member is in the same chain.         *)
LEMMA NextInChain ==
  ASSUME TypeOK, NEW n \in Node, net.carry[n] # NoNode, net.kind[n] \in Adders,
         InChain(n, net.kind[n])
  PROVE  InChain(net.carry[n], net.kind[net.carry[n]])
<1>1. /\ net.carry[n] \in Node /\ net.kind[net.carry[n]] = net.kind[n]
      /\ net.cin[net.carry[n]] = n
  BY CarryFacts DEF TypeOK
<1>2. SUFFICES ASSUME NEW S \in SUBSET Node, ClosedChain(net.kind[n], S)
               PROVE  net.carry[n] \in S
  BY <1>1 DEF InChain
<1>3. n \in S
  BY <1>2 DEF InChain
<1>4. net.cin[net.carry[n]] \in {p \in S : net.carry[p] = net.carry[n]}
  BY <1>1, <1>3
<1>5. QED
  BY <1>1, <1>2, <1>4 DEF ClosedChain

(* The head of a chain is in it.                                           *)
LEMMA HeadInChain ==
  ASSUME NEW n \in Node, IsChainHead(n)
  PROVE  net.kind[n] \in Adders /\ InChain(n, net.kind[n])
BY DEF InChain, ClosedChain, IsChainHead

(* What the statistics say of chains does not change with the netlist kept.*)
LEMMA ChainsKept ==
  ASSUME net' = net
  PROVE  \A n, D : ChainMember(n, D)' <=> ChainMember(n, D)
<1>1. \A n : IsChainHead(n)' <=> IsChainHead(n)
  BY DEF IsChainHead, AdderStart
<1>2. \A k, S : ClosedChain(k, S)' <=> ClosedChain(k, S)
  BY <1>1 DEF ClosedChain
<1>3. \A n, k : InChain(n, k)' <=> InChain(n, k)
  BY <1>2 DEF InChain
<1>4. \A n, D : Follows(n, D)' <=> Follows(n, D)
  BY DEF Follows
<1>5. QED
  BY <1>1, <1>3, <1>4 DEF ChainMember

(* With nothing counted yet the invariant holds for the empty set.         *)
LEMMA CountStarts ==
  ASSUME TypeOK, TypeOK', HeadsListed, passes = 1, BeginStatistics
  PROVE  CountInv'
<1> USE DEF graphVars, listVars
<1>1. pos' = 1 /\ walk' = NoWalk /\ stats' = ZeroStats
  BY DEF BeginStatistics, HeadsListed, Swept
<1>2. ~Walking'
  BY <1>1 DEF Walking
<1>3. ASSUME NEW D \in SUBSET Node, D = {}
      PROVE  (CountedHeads(D) /\ CountedSet(D) /\ CountedTotals(D))'
  <2>1. CountedHeads(D)'
    <3>1. \A i \in 1..Len(addsub') : ~(i < 1)
      BY DEF TypeOK
    <3>2. QED
      BY <1>1, <1>2, <1>3, <3>1 DEF CountedHeads
  <2>2. CountedSet(D)'
    BY <1>2, <1>3 DEF CountedSet
  <2>3. IsFiniteSet({}) /\ Cardinality({}) = 0
    BY FS_EmptySet
  <2>4. \A k : OfKind(D, k)' = {}
    BY <1>3 DEF OfKind
  <2>5. \A k \in Adders : stats'[k].total = 0 /\ InProgress(k)' = 0
    BY <1>1, <1>2 DEF ZeroStats, InProgress
  <2>6. CountedTotals(D)'
    BY <1>3, <2>3, <2>4, <2>5 DEF CountedTotals
  <2>7. QED
    BY <2>1, <2>2, <2>6
<1>4. \E D \in SUBSET Node : (CountedHeads(D) /\ CountedSet(D) /\ CountedTotals(D))'
  <2>1. PICK D \in SUBSET Node : D = {}
    OBVIOUS
  <2>2. QED
    BY <1>3, <2>1
<1>5. QED
  BY <1>4 DEF CountInv

(* A chain the walk turns to has not been counted.                         *)
LEMMA CountHead ==
  ASSUME TypeOK, TypeOK', HeadsListed, passes = 1, CountInv, StartChain
  PROVE  CountInv'
<1> USE DEF graphVars, listVars
<1>1. /\ phase = "statistics" /\ ~Walking /\ pos \in 1..Len(addsub)
      /\ walk' = [at |-> addsub[pos], depth |-> 0]
      /\ UNCHANGED <<net, addsub, pos, stats>>
  BY DEF StartChain, Walking, TypeOK
<1>2. PICK D \in SUBSET Node : CountedHeads(D) /\ CountedSet(D) /\ CountedTotals(D)
  BY <1>1 DEF CountInv, Swept
<1>3. addsub[pos] \in Node /\ IsChainHead(addsub[pos])
  <2>1. addsub[pos] \in Node /\ addsub[pos] \in Elements(addsub)
    BY <1>1 DEF TypeOK, Elements
  <2>2. QED
    BY <1>1, <2>1 DEF HeadsListed
<1>4. addsub[pos] \notin D
  <2>1. ~(pos < pos)
    BY DEF TypeOK
  <2>2. QED
    BY <1>1, <1>2, <2>1 DEF CountedHeads
<1>5. Walking' /\ walk'.at = addsub[pos] /\ walk'.depth = 0
  BY <1>1, <1>3, NodeAssumption DEF Walking, NoWalk
<1>6. \A n, C : ChainMember(n, C)' <=> ChainMember(n, C)
  BY <1>1, ChainsKept
<1>7. CountedHeads(D)'
  BY <1>1, <1>2, <1>5 DEF CountedHeads
<1>8. CountedSet(D)'
  <2>1. ChainMember(addsub[pos], D)
    BY <1>3, HeadInChain DEF ChainMember
  <2>2. addsub[pos] \in Reached(net)
    BY <1>3, HeadFacts DEF TypeOK
  <2>3. \A n \in D : net.carry[n] \in Live(net) => net.carry[n] \in D
    BY <1>1, <1>2 DEF CountedSet
  <2>4. pos <= Len(addsub)
    BY <1>1
  <2>5. QED
    BY <1>1, <1>2, <1>4, <1>5, <1>6, <2>1, <2>2, <2>3, <2>4 DEF CountedSet
<1>9. CountedTotals(D)'
  <2>1. \A k : InProgress(k) = 0 /\ InProgress(k)' = 0
    BY <1>1, <1>5 DEF InProgress
  <2>2. \A k : OfKind(D, k)' = OfKind(D, k)
    BY <1>1 DEF OfKind
  <2>3. QED
    BY <1>1, <1>2, <2>1, <2>2 DEF CountedTotals
<1>10. QED
  BY <1>7, <1>8, <1>9 DEF CountInv

(***************************************************************************)
(* Counting the place the walk has reached: it is live and was not counted *)
(* before, and the counted set stays what it was but for that place.       *)
(***************************************************************************)
LEMMA CountOne ==
  ASSUME TypeOK, NEW D \in SUBSET Node, CountedSet(D), CountedTotals(D), Walking,
         walk.at \in Live(net)
  PROVE  LET E == D \cup {walk.at}
         IN  /\ E \in SUBSET Node /\ E \subseteq Live(net) /\ IsFiniteSet(E)
             /\ \A n \in E : ChainMember(n, E)
             /\ \A n \in D : net.carry[n] \in Live(net) => net.carry[n] \in E
             /\ \A k \in Adders :
                  Cardinality(OfKind(E, k)) =
                     Cardinality(OfKind(D, k)) + (IF net.kind[walk.at] = k THEN 1 ELSE 0)
<1> DEFINE E == D \cup {walk.at}
<1>1. E \in SUBSET Node /\ E \subseteq Live(net)
  BY DEF CountedSet, Live
<1>2. IsFiniteSet(D) /\ IsFiniteSet(E)
  BY FS_AddElement DEF CountedTotals
<1>3. ASSUME NEW n, ChainMember(n, D) PROVE ChainMember(n, E)
  BY <1>3 DEF ChainMember, Follows
<1>4. \A n \in E : ChainMember(n, E)
  BY <1>3 DEF CountedSet
<1>5. \A n \in D : net.carry[n] \in Live(net) => net.carry[n] \in E
  BY DEF CountedSet
<1>6. ASSUME NEW k \in Adders
      PROVE  Cardinality(OfKind(E, k)) =
                Cardinality(OfKind(D, k)) + (IF net.kind[walk.at] = k THEN 1 ELSE 0)
  <2>1. IsFiniteSet(OfKind(D, k))
    <3>1. OfKind(D, k) \in SUBSET D
      BY DEF OfKind
    <3>2. QED
      BY <1>2, <3>1, FS_Subset
  <2>2. Cardinality(OfKind(D, k)) \in Nat
    BY <2>1, FS_CardinalityType
  <2>3. walk.at \notin OfKind(D, k)
    BY DEF OfKind, CountedSet
  <2>4. CASE net.kind[walk.at] = k
    <3>1. OfKind(E, k) = OfKind(D, k) \cup {walk.at}
      BY <2>4 DEF OfKind
    <3>2. Cardinality(OfKind(D, k) \cup {walk.at}) = Cardinality(OfKind(D, k)) + 1
      BY <2>1, <2>3, FS_AddElement
    <3>3. QED
      BY <2>4, <3>1, <3>2
  <2>5. CASE net.kind[walk.at] # k
    <3>1. OfKind(E, k) = OfKind(D, k)
      BY <2>5 DEF OfKind
    <3>2. QED
      BY <2>2, <2>5, <3>1
  <2>6. QED
    BY <2>4, <2>5
<1>7. QED
  BY <1>1, <1>2, <1>4, <1>5, <1>6

(* The tail of a chain adds its depth to the total of its kind.            *)
LEMMA EndAdds ==
  ASSUME TypeOK, Walking, NEW d \in Nat, EndChain(d), net.kind[walk.at] \in Adders
  PROVE  \A k \in Adders :
            stats'[k].total = stats[k].total + (IF net.kind[walk.at] = k THEN d ELSE 0)
<1> DEFINE kind == net.kind[walk.at]
           new == [chains |-> stats[kind].chains + 1,
                   total |-> stats[kind].total + d,
                   longest |-> IF d > stats[kind].longest THEN d ELSE stats[kind].longest]
<1>1. stats \in [Adders -> [chains : Nat, total : Nat, longest : Nat]]
  BY DEF TypeOK
<1>2. \A k \in Adders : stats[k].total \in Nat
  BY <1>1
<1>3. stats' = IF d = 0 THEN stats ELSE [stats EXCEPT ![kind] = new]
  BY DEF EndChain
<1>4. new.total = stats[kind].total + d
  OBVIOUS
<1> HIDE DEF new
<1>5. CASE d = 0
  BY <1>2, <1>3, <1>5
<1>6. CASE d # 0
  <2>1. \A k \in Adders : stats'[k] = IF k = kind THEN new ELSE stats[k]
    BY <1>1, <1>3, <1>6
  <2>2. QED
    BY <1>2, <1>4, <2>1
<1>7. QED
  BY <1>5, <1>6

(* A step of the walk counts one more slice or ends the chain.             *)
LEMMA CountStep ==
  ASSUME TypeOK, TypeOK', IInv, ReportInv, HeadsListed, passes = 1, CountInv, WalkChain
  PROVE  CountInv'
<1> USE DEF graphVars, listVars
<1> DEFINE here == walk.at
<1>1. /\ phase = "statistics" /\ Walking
      /\ UNCHANGED <<net, addsub>>
  BY DEF WalkChain, Walking
<1>2. PICK D \in SUBSET Node : CountedHeads(D) /\ CountedSet(D) /\ CountedTotals(D)
  BY <1>1 DEF CountInv, Swept
<1>3. /\ here \in Node /\ walk.depth \in Nat /\ pos \in Nat /\ Len(addsub) \in Nat
      /\ addsub \in Seq(Node) /\ IsNetlist(net)
  <2>1. walk \in [at : Node, depth : Nat]
    BY <1>1 DEF TypeOK, Walking
  <2>2. addsub \in Seq(Node) /\ Len(addsub) \in Nat /\ pos \in Nat /\ IsNetlist(net)
    BY DEF TypeOK
  <2>3. QED
    BY <2>1, <2>2
<1>4. /\ here \notin D /\ ChainMember(here, D) /\ here \in Reached(net)
      /\ pos <= Len(addsub) /\ (IsChainHead(here) => here = addsub[pos])
  BY <1>1, <1>2 DEF CountedSet
<1>5. here \notin Elements(Sources(net)) /\ net.kind[here] \in Adders
  BY <1>3, <1>4, MemberFacts
<1>6. /\ \A n \in Node : mark[n] = "removal" <=> n \in Dead(net)
      /\ edges = {e \in net.edges : e[2] \notin Dead(net)}
  BY <1>1, RemovedIsDead DEF Swept
<1>7. mark[here] = "removal" <=> here \notin Live(net)
  BY <1>3, <1>4, <1>5, <1>6 DEF Dead
<1>8. \A n, C : ChainMember(n, C)' <=> ChainMember(n, C)
  BY <1>1, ChainsKept
<1>9. \A C, k : OfKind(C, k)' = OfKind(C, k)
  BY <1>1 DEF OfKind
<1>10. \A k \in Adders :
          stats[k].total + (IF net.kind[here] = k THEN walk.depth ELSE 0)
             = Cardinality(OfKind(D, k))
  BY <1>1, <1>2 DEF CountedTotals, InProgress
<1>11. \A i \in 1..Len(addsub) : addsub[i] \in Node /\ IsChainHead(addsub[i])
  <2>1. \A i \in 1..Len(addsub) : addsub[i] \in Node /\ addsub[i] \in Elements(addsub)
    BY <1>3 DEF Elements
  <2>2. QED
    BY <1>1, <2>1 DEF HeadsListed
<1>12. CASE mark[here] = "removal"
  <2>1. EndChain(walk.depth)
    BY <1>12 DEF WalkChain
  <2>2. walk' = NoWalk /\ pos' = pos + 1 /\ ~Walking'
    BY <2>1 DEF EndChain, Walking
  <2>3. CountedHeads(D)'
    <3>1. \A i \in 1..Len(addsub) : i < pos' <=> i < pos \/ i = pos
      BY <1>3, <2>2
    <3>2. QED
      BY <1>1, <1>2, <1>7, <1>12, <2>2, <3>1 DEF CountedHeads
  <2>4. CountedSet(D)'
    <3>1. \A n \in D : net.carry[n] \in Live(net) => net.carry[n] \in D
      BY <1>2, <1>7, <1>12 DEF CountedSet
    <3>2. QED
      BY <1>1, <1>2, <1>8, <2>2, <3>1 DEF CountedSet
  <2>5. CountedTotals(D)'
    <3>1. \A k \in Adders :
             stats'[k].total = stats[k].total + (IF net.kind[here] = k THEN walk.depth ELSE 0)
      BY <1>1, <1>3, <1>5, <2>1, EndAdds
    <3>2. \A k : InProgress(k)' = 0
      BY <2>2 DEF InProgress
    <3>3. \A k \in Adders : stats'[k].total \in Nat
      BY DEF TypeOK
    <3>4. QED
      BY <1>2, <1>9, <1>10, <3>1, <3>2, <3>3 DEF CountedTotals
  <2>6. QED
    BY <2>3, <2>4, <2>5 DEF CountInv
<1>13. CASE mark[here] # "removal"
  <2>0. PICK E \in SUBSET Node : E = D \cup {here}
    BY <1>3
  <2>1. here \in Live(net)
    BY <1>7, <1>13
  <2>2. /\ E \in SUBSET Node /\ E \subseteq Live(net) /\ IsFiniteSet(E)
        /\ \A n \in E : ChainMember(n, E)
        /\ \A n \in D : net.carry[n] \in Live(net) => net.carry[n] \in E
        /\ \A k \in Adders :
             Cardinality(OfKind(E, k)) =
                Cardinality(OfKind(D, k)) + (IF net.kind[here] = k THEN 1 ELSE 0)
    BY <1>1, <1>2, <2>0, <2>1, CountOne
  <2>3. \A i \in 1..Len(addsub) : addsub[i] = here => i = pos
    <3>1. ASSUME NEW i \in 1..Len(addsub), addsub[i] = here PROVE i = pos
      <4>1. here = addsub[pos] /\ pos \in 1..Len(addsub)
        <5>1. here = addsub[pos]
          BY <1>4, <1>11, <3>1
        <5>2. pos \in 1..Len(addsub)
          BY <1>4 DEF TypeOK
        <5>3. QED
          BY <5>1, <5>2
      <4>2. QED
        BY <1>1, <3>1, <4>1 DEF HeadsListed, Distinct
    <3>2. QED
      BY <3>1
  <2>4. \A i \in 1..Len(addsub) :
           /\ addsub[i] \in E => i < pos \/ i = pos
           /\ addsub[i] \in Live(net) /\ (i < pos \/ i = pos) => addsub[i] \in E
    BY <1>1, <1>2, <2>0, <2>3 DEF CountedHeads
  <2>5. \A k \in Adders :
           /\ Cardinality(OfKind(E, k)) =
                 stats[k].total + (IF net.kind[here] = k THEN walk.depth + 1 ELSE 0)
           /\ stats[k].total \in Nat
    <3>1. \A k \in Adders : stats[k].total \in Nat
      BY DEF TypeOK
    <3>2. QED
      BY <1>3, <1>10, <2>2, <3>1, SMTT(60)
  <2>6. CASE CarryReader(here) = NoNode
    <3>1. EndChain(walk.depth + 1)
      BY <1>13, <2>6 DEF WalkChain
    <3>2. walk' = NoWalk /\ pos' = pos + 1 /\ ~Walking'
      BY <3>1 DEF EndChain, Walking
    <3>3. net.carry[here] \notin Live(net)
      <4>1. CASE net.carry[here] = NoNode
        BY <4>1, NodeAssumption DEF Live
      <4>2. CASE net.carry[here] # NoNode
        <5>1. <<here, net.carry[here]>> \in net.edges /\ net.carry[here] \in Node
          BY <1>3, <4>2, CarryFacts
        <5>2. <<here, net.carry[here]>> \notin edges
          BY <2>6, <4>2 DEF CarryReader
        <5>3. <<here, net.carry[here]>>[2] = net.carry[here]
          OBVIOUS
        <5>4. QED
          BY <1>6, <5>1, <5>2, <5>3 DEF Dead
      <4>3. QED
        BY <4>1, <4>2
    <3>4. CountedHeads(E)'
      <4>1. \A i \in 1..Len(addsub) : i < pos' <=> i < pos \/ i = pos
        BY <1>3, <3>2
      <4>2. QED
        BY <1>1, <2>4, <3>2, <4>1 DEF CountedHeads
    <3>5. CountedSet(E)'
      <4>1. \A n \in E : net.carry[n] \in Live(net) => net.carry[n] \in E
        BY <2>0, <2>2, <3>3
      <4>2. QED
        BY <1>1, <1>8, <2>2, <3>2, <4>1 DEF CountedSet
    <3>6. CountedTotals(E)'
      <4>1. \A k \in Adders :
               stats'[k].total =
                  stats[k].total + (IF net.kind[here] = k THEN walk.depth + 1 ELSE 0)
        <5>1. walk.depth + 1 \in Nat
          BY <1>3
        <5>2. QED
          BY <1>1, <1>5, <3>1, <5>1, EndAdds
      <4>2. \A k : InProgress(k)' = 0
        BY <3>2 DEF InProgress
      <4>3. \A k \in Adders : stats'[k].total \in Nat
        BY DEF TypeOK
      <4>4. QED
        BY <1>9, <2>2, <2>5, <4>1, <4>2, <4>3 DEF CountedTotals
    <3>7. QED
      BY <2>2, <3>4, <3>5, <3>6 DEF CountInv
  <2>7. CASE CarryReader(here) # NoNode
    <3>0. PICK next : next = net.carry[here]
      OBVIOUS
    <3>1. /\ walk' = [at |-> next, depth |-> walk.depth + 1]
          /\ UNCHANGED <<stats, pos>>
          /\ next # NoNode
      BY <1>13, <2>7, <3>0 DEF WalkChain, CarryReader
    <3>2. /\ next \in Node /\ net.kind[next] = net.kind[here] /\ net.cin[next] = here
          /\ ~IsChainHead(next) /\ next \in Reached(net)
      BY <1>3, <1>4, <3>0, <3>1, CarryFacts
    <3>3. Walking' /\ walk'.at = next /\ walk'.depth = walk.depth + 1
      BY <3>1, <3>2, NodeAssumption DEF Walking, NoWalk
    <3>4. net.carry[here] = next
      BY <3>0
    <3>5. next \notin E
      <4>1. next \notin D
        <5>1. ASSUME next \in D PROVE FALSE
          <6>1. ChainMember(next, D)
            BY <1>2, <5>1 DEF CountedSet
          <6>2. here \in D
            BY <3>2, <6>1 DEF ChainMember, Follows
          <6>3. QED
            BY <1>4, <6>2
        <5>2. QED
          BY <5>1
      <4>2. next # here
        <5>1. ASSUME next = here PROVE FALSE
          <6>1. Follows(here, D)
            BY <1>4, <3>2, <5>1 DEF ChainMember
          <6>2. QED
            BY <1>4, <3>2, <5>1, <6>1 DEF Follows
        <5>2. QED
          BY <5>1
      <4>3. QED
        BY <2>0, <4>1, <4>2
    <3>6. ChainMember(next, E)
      <4>1. InChain(next, net.kind[next])
        BY <1>3, <1>4, <3>1, <3>4, NextInChain DEF ChainMember
      <4>2. Follows(next, E)
        BY <2>0, <3>2, <3>4 DEF Follows
      <4>3. net.kind[next] \in Adders
        BY <1>5, <3>2
      <4>4. QED
        BY <4>1, <4>2, <4>3 DEF ChainMember
    <3>7. CountedHeads(E)'
      BY <1>1, <2>4, <3>1, <3>3 DEF CountedHeads
    <3>8. CountedSet(E)'
      <4>1. \A n \in E : net.carry[n] \in Live(net) => net.carry[n] \in E \/ net.carry[n] = next
        BY <2>0, <2>2, <3>4
      <4>2. QED
        <5>1. /\ E \subseteq Live(net)
              /\ \A n \in E : ChainMember(n, E)'
              /\ \A n \in E : net.carry[n] \in Live(net) =>
                    net.carry[n] \in E \/ walk'.at = net.carry[n]
          BY <1>8, <2>2, <3>3, <4>1
        <5>2. /\ walk'.at \notin E /\ ChainMember(next, E)' /\ walk'.at \in Reached(net)
              /\ pos' <= Len(addsub) /\ ~IsChainHead(next)
          BY <1>1, <1>4, <1>8, <3>1, <3>2, <3>3, <3>5, <3>6
        <5>3. ChainMember(walk.at, E)' <=> ChainMember(next, E)'
          BY <3>3 DEF ChainMember, Follows
        <5>4. IsChainHead(walk.at)' <=> IsChainHead(next)
          BY <1>1, <3>3 DEF IsChainHead, AdderStart
        <5>5. QED
          BY <1>1, <3>3, <5>1, <5>2, <5>3, <5>4 DEF CountedSet
    <3>9. CountedTotals(E)'
      <4>1. \A k : InProgress(k)' = IF net.kind[here] = k THEN walk.depth + 1 ELSE 0
        BY <1>1, <3>2, <3>3 DEF InProgress
      <4>2. QED
        BY <1>9, <2>2, <2>5, <3>1, <4>1 DEF CountedTotals
    <3>10. QED
      BY <2>2, <3>7, <3>8, <3>9 DEF CountInv
  <2>8. QED
    BY <2>6, <2>7
<1>14. QED
  BY <1>12, <1>13

(***************************************************************************)
(* calculate_addsub_statistics reports for each kind of adder, in the first*)
(* invocation, exactly the slices the sweep left in the chains that start  *)
(* at the configured carry source: none is counted twice, none missed.     *)
(***************************************************************************)
THEOREM StatisticsCountChains == Spec => []AddersCounted
<1>1. Init => HeadsListed /\ CountInv
  <2>1. Elements(<<>>) = {}
    BY DEF Elements
  <2>2. QED
    BY <2>1 DEF Init, HeadsListed, Distinct, Swept, CountInv
<1>2. /\ TypeOK /\ TypeOK' /\ IInv /\ IInv' /\ ReportInv /\ HeadsListed /\ CountInv
      /\ [Next]_vars
      => CountInv'
  <2> SUFFICES ASSUME TypeOK, TypeOK', IInv, IInv', ReportInv, HeadsListed, CountInv,
                      [Next]_vars, passes' = 1, Swept'
               PROVE  CountInv'
    BY DEF CountInv
  <2> USE DEF graphVars, listVars, walkVars
  <2>1. CASE BeginStatistics
    BY <2>1, CountStarts DEF BeginStatistics
  <2>2. CASE StartChain
    BY <2>2, CountHead DEF StartChain
  <2>3. CASE WalkChain
    BY <2>3, CountStep DEF WalkChain
  <2>4. CASE Finish \/ UNCHANGED vars
    <3>1. UNCHANGED <<net, addsub, pos, walk, stats>> /\ passes = 1 /\ Swept
      BY <2>4 DEF Finish, vars, Swept
    <3>2. PICK D \in SUBSET Node : CountedHeads(D) /\ CountedSet(D) /\ CountedTotals(D)
      BY <3>1 DEF CountInv
    <3>3. \A n, C : ChainMember(n, C)' <=> ChainMember(n, C)
      BY <3>1, ChainsKept
    <3>4. CountedHeads(D)' /\ CountedTotals(D)'
      BY <3>1, <3>2 DEF CountedHeads, CountedTotals, Walking, InProgress, OfKind
    <3>5. IsChainHead(walk.at)' <=> IsChainHead(walk.at)
      BY <3>1 DEF IsChainHead, AdderStart
    <3>6. CountedSet(D)'
      BY <3>1, <3>2, <3>3, <3>5 DEF CountedSet, Walking
    <3>7. QED
      BY <3>4, <3>6 DEF CountInv
  <2>5. CASE NextPass
    <3>1. passes' # 1
      BY <2>5 DEF NextPass, TypeOK
    <3>2. QED
      BY <3>1
  <2>6. CASE \/ BackwardOutput \/ BackwardDriver \/ BackwardReturn \/ BeginForward
             \/ ForwardSource \/ ForwardReader \/ ForwardReturn \/ BeginRemoval \/ RemoveNode
    <3>1. phase' \in {"backward", "forward", "removal"}
      BY <2>6 DEF BackwardOutput, BackwardDriver, BackwardReturn, BeginForward,
                  ForwardSource, ForwardReader, ForwardReturn, BeginRemoval, RemoveNode
    <3>2. QED
      BY <3>1 DEF Swept
  <2>7. QED
    BY <2>1, <2>2, <2>3, <2>4, <2>5, <2>6 DEF Next
<1>3. TypeOK /\ HeadsListed /\ CountInv => AddersCounted
  <2> SUFFICES ASSUME TypeOK, HeadsListed, CountInv, phase = "done",
                      passes = 1, NEW k \in Adders
               PROVE  stats[k].total =
                        Cardinality({n \in Live(net) : net.kind[n] = k /\ InChain(n, k)})
    BY DEF AddersCounted
  <2>1. PICK D \in SUBSET Node : CountedHeads(D) /\ CountedSet(D) /\ CountedTotals(D)
    BY DEF CountInv, Swept
  <2>2. walk = NoWalk /\ ~Walking
    BY DEF HeadsListed, Walking
  <2>3. OfKind(D, k) \subseteq {n \in Live(net) : net.kind[n] = k /\ InChain(n, k)}
    BY <2>1 DEF OfKind, CountedSet, ChainMember
  <2>4. ASSUME NEW n \in Live(net), net.kind[n] = k, InChain(n, k)
        PROVE  n \in D
    <3> DEFINE S == D \cup {m \in Node : m \notin Live(net)}
    <3>1. ASSUME NEW m \in Node, net.kind[m] = k,
                 IsChainHead(m) \/ net.cin[m] \in {p \in S : net.carry[p] = m}
          PROVE  m \in S
      <4>1. SUFFICES ASSUME m \in Live(net) PROVE m \in D
        OBVIOUS
      <4>2. CASE IsChainHead(m)
        <5>1. PICK i \in 1..Len(addsub) : addsub[i] = m
          <6>1. m \in Elements(addsub) /\ DOMAIN addsub = 1..Len(addsub)
            BY <4>2 DEF HeadsListed, TypeOK
          <6>2. QED
            BY <6>1 DEF Elements
        <5>2. i < pos
          <6>1. pos > Len(addsub)
            BY DEF HeadsListed
          <6>2. QED
            BY <6>1 DEF TypeOK
        <5>3. QED
          BY <2>1, <4>1, <5>1, <5>2 DEF CountedHeads
      <4>3. CASE net.cin[m] \in {p \in S : net.carry[p] = m}
        <5>1. net.cin[m] \in Node /\ net.carry[net.cin[m]] = m /\ m # NoNode
          BY <2>1, <4>3, NodeAssumption
        <5>2. net.cin[m] \in Live(net)
          <6>1. /\ IsNetlist(net) /\ net.carry[net.cin[m]] # NoNode
                /\ net.carry[net.cin[m]] \in Live(net)
            BY <4>1, <5>1 DEF TypeOK
          <6>2. QED
            BY <5>1, <6>1, CarryFacts
        <5>3. net.cin[m] \in D
          BY <4>3, <5>2
        <5>4. QED
          BY <2>1, <2>2, <4>1, <5>1, <5>3 DEF CountedSet
      <4>4. QED
        BY <3>1, <4>2, <4>3
    <3>2. S \in SUBSET Node /\ ClosedChain(k, S)
      BY <2>1, <3>1 DEF ClosedChain
    <3>3. n \in S
      BY <2>4, <3>2 DEF InChain
    <3>4. QED
      BY <3>3
  <2>5. OfKind(D, k) = {n \in Live(net) : net.kind[n] = k /\ InChain(n, k)}
    BY <2>3, <2>4 DEF OfKind
  <2>6. InProgress(k) = 0 /\ stats[k].total \in Nat
    BY <2>2 DEF InProgress, TypeOK
  <2>7. QED
    BY <2>1, <2>5, <2>6 DEF CountedTotals
<1>4. QED
  BY <1>1, <1>2, <1>3, HeadsListedNext, TypeCorrect, SearchesCorrect, ReportListed, PTL
     DEF Spec
=============================================================================
