--------------------------- MODULE NetlistCleanup ---------------------------
(***************************************************************************)
(* The dead-logic sweep of netlist_cleanup.cc, called once at the end of   *)
(* the technology mapping of every invocation of the parmys pass:          *)
(* remove_unused_logic marks what the top outputs depend on, searches      *)
(* forward from the constants and the top inputs for nodes that were not   *)
(* marked, detaches those, and measures the carry chains that are left.    *)
(*                                                                         *)
(* Both searches are the recursive functions of the code, with their call  *)
(* stack; a step is one call or one return.  The order in which a loop     *)
(* visits pins depends on how the netlist was built and is left open.      *)
(* Pins and nets are abstracted to the edges between nodes: several pins   *)
(* that join the same two nodes are one edge.                              *)
(*                                                                         *)
(* Every pass invocation brings a new netlist, but the node lists are      *)
(* globals of the plugin and survive from one invocation to the next.      *)
(***************************************************************************)
EXTENDS Naturals, Sequences, FiniteSets

CONSTANTS
  Node,            \* nodes of a netlist
  NoNode,          \* the NULL node pointer
  Sessions,        \* the netlists of the invocations of one Yosys process, in order
  AdderCinGlobal   \* configuration.adder_cin_global

(***************************************************************************)
(* Node types, as far as the sweep tells them apart: "logical" stands for  *)
(* the seven LOGICAL_ types, "mux" for MUX_2 and SMUX_2, "constant" for    *)
(* PAD_NODE, GND_NODE and VCC_NODE, "port" for INPUT_NODE and OUTPUT_NODE, *)
(* "block" for the hard blocks, flip-flops and clocks, "generic" for all   *)
(* the others.                                                             *)
(***************************************************************************)
Adders == {"add", "minus"}
Kinds == Adders \cup {"logical", "mux", "generic", "constant", "port", "block"}

(***************************************************************************)
(* A netlist: its edges, its top outputs and top inputs, the three         *)
(* constant nodes, the type of each node, and for adders and subtractors   *)
(* the driver of the carry input (cin) and the first reader of the carry   *)
(* output (carry), which is the next slice of the same chain.              *)
(***************************************************************************)
(* The nodes the forward search starts from, in the order of the code.     *)
Sources(g) == <<g.gnd, g.vcc, g.pad>> \o g.inputs

IsNetlist(g) ==
  /\ g.edges \subseteq Node \X Node
  /\ g.outputs \in Seq(Node)
  /\ g.inputs \in Seq(Node)
  /\ g.gnd \in Node /\ g.vcc \in Node /\ g.pad \in Node
  /\ g.kind \in [Node -> Kinds]
  /\ g.cin \in [Node -> Node \cup {NoNode}]
  /\ g.carry \in [Node -> Node \cup {NoNode}]
  /\ \A n \in Node : g.kind[n] = "constant" <=> n \in {g.gnd, g.vcc, g.pad}
  /\ \A n \in Node : g.kind[n] \in Adders => <<g.cin[n], n>> \in g.edges
  /\ \A n \in Node : g.carry[n] # NoNode =>
        /\ <<n, g.carry[n]>> \in g.edges
        /\ g.kind[g.carry[n]] = g.kind[n]
        /\ g.cin[g.carry[n]] = n
  /\ \A e \in g.edges, i \in DOMAIN Sources(g) : e[2] # Sources(g)[i]

Netlists == UNION {{s[i] : i \in DOMAIN s} : s \in Sessions}

ASSUME NodeAssumption == NoNode \notin Node
ASSUME SessionsAssumption ==
  \A s \in Sessions : s \in Seq(Netlists) /\ s # <<>>
ASSUME NetlistsAssumption == \A g \in Netlists : IsNetlist(g)
ASSUME ConfigAssumption == AdderCinGlobal \in BOOLEAN

VARIABLES
  session,   \* the netlists of all invocations of the process
  net,       \* the netlist of the running invocation, as it was before the sweep
  edges,     \* its edges now: an edge goes when its fanout slot is set to NULL
  mark,      \* node_data of every node
  stack,     \* the calls of traverse_backward or traverse_forward in progress
  useless,   \* the list that starts at useless_nodes
  removal_attached, \* does removal_list_next point into that list?
  addsub,    \* the list that starts at addsub_nodes
  addsub_attached,  \* does addsub_list_next point into that list?
  pos,       \* the index the running loop over top nodes or list cells has reached
  walk,      \* the node the chain walk has reached and the depth so far
  num_removed, \* num_removed_nodes, by counter
  stats,     \* chain count, total and longest chain, for each kind of adder
  phase,     \* where remove_unused_logic is
  passes     \* invocations so far, the running one included

graphVars == <<session, net, passes>>
listVars == <<useless, removal_attached, addsub, addsub_attached, num_removed>>
walkVars == <<pos, walk, stats>>
vars == <<graphVars, listVars, walkVars, edges, mark, stack, phase>>

Marks == {"none", "backward", "forward", "removal"}
Frames == [node : Node, remove : BOOLEAN]
NoWalk == [at |-> NoNode, depth |-> 0]
ZeroStats == [k \in Adders |-> [chains |-> 0, total |-> 0, longest |-> 0]]

Drivers(n) == {m \in Node : <<m, n>> \in edges}
Readers(n) == {m \in Node : <<n, m>> \in edges}

Top == stack[Len(stack)]
Push(n, remove) == Append(stack, [node |-> n, remove |-> remove])
Pop == SubSeq(stack, 1, Len(stack) - 1)

(***************************************************************************)
(* insert_node_list writes into the cell the tail pointer names.  Once a   *)
(* reset has cut that cell off, what is inserted is not in the list that   *)
(* starts at the head.                                                     *)
(***************************************************************************)
InsertNode(list, attached, n) == IF attached THEN Append(list, n) ELSE list

(* The head cell is the tail only as long as nothing was ever inserted.    *)
StillAttached(list, attached) == attached /\ list = <<>>

(* Where the first carry of a chain comes from.  set_default_config clears *)
(* adder_cin_global and no option sets it, so it is the pad node.          *)
AdderStart(kind) ==
  IF ~AdderCinGlobal THEN net.pad ELSE IF kind = "add" THEN net.gnd ELSE net.vcc

IsChainHead(n) ==
  net.kind[n] \in Adders /\ net.cin[n] = AdderStart(net.kind[n])

(***************************************************************************)
(* count_node_type: the counters a removed node is counted in.  Constants  *)
(* have none, a subtractor is counted as the adders it is built of, and    *)
(* what is counted for itself may be generic as well.                      *)
(***************************************************************************)
Counters == Kinds \ {"minus", "constant"}

CountedIn(kind) ==
  CASE kind \in {"logical", "mux"} -> {kind, "generic"}
    [] kind = "minus"             -> {"add"}
    [] kind = "constant"          -> {}
    [] OTHER                      -> {kind}

Counted(n) ==
  [t \in Counters |->
     IF t \in CountedIn(net.kind[n]) THEN num_removed[t] + 1 ELSE num_removed[t]]

-----------------------------------------------------------------------------

(* A fresh netlist: nothing is marked, the outputs wait to be searched.    *)
Load(g) ==
  /\ net' = g
  /\ edges' = g.edges
  /\ mark' = [n \in Node |-> "none"]
  /\ pos' = 1
  /\ phase' = "backward"

Init ==
  /\ session \in Sessions
  /\ net = session[1]
  /\ edges = net.edges
  /\ mark = [n \in Node |-> "none"]
  /\ phase = "backward"
  /\ passes = 1
  /\ stack = <<>>
  /\ useless = <<>> /\ removal_attached = TRUE
  /\ addsub = <<>> /\ addsub_attached = TRUE
  /\ num_removed = [t \in Counters |-> 0]
  /\ pos = 1 /\ walk = NoWalk /\ stats = ZeroStats

(* The next invocation of the pass in the same process.                    *)
NextPass ==
  /\ phase = "done"
  /\ passes < Len(session)
  /\ passes' = passes + 1
  /\ Load(session[passes'])
  /\ UNCHANGED <<session, listVars, walk, stats, stack>>

-----------------------------------------------------------------------------
(* mark_output_dependencies and traverse_backward                          *)

(* Mutation: a node is marked only after its drivers were searched.        *)
TraverseBackward_Unmarked(n) ==
  /\ mark' = mark
  /\ stack' = Push(n, FALSE)

(* The body of a call; a call on a marked node returns at once.            *)
TraverseBackward(n) ==
  IF mark[n] = "backward"
    THEN UNCHANGED <<mark, stack>>
    ELSE /\ mark' = [mark EXCEPT ![n] = "backward"]
         /\ stack' = Push(n, FALSE)

BackwardOutput ==
  /\ phase = "backward"
  /\ stack = <<>>
  /\ pos <= Len(net.outputs)
  /\ TraverseBackward(net.outputs[pos])
  /\ pos' = pos + 1
  /\ UNCHANGED <<graphVars, listVars, walk, stats, edges, phase>>

BackwardDriver ==
  /\ phase = "backward"
  /\ stack # <<>>
  /\ \E m \in Drivers(Top.node) : mark[m] # "backward" /\ TraverseBackward(m)
  /\ UNCHANGED <<graphVars, listVars, walkVars, edges, phase>>

(* Mutation: the loop over the pins stops at the first driven one.         *)
BackwardReturn_FirstPin ==
  /\ phase = "backward"
  /\ stack # <<>>
  /\ Drivers(Top.node) = {} \/ \E m \in Drivers(Top.node) : mark[m] = "backward"
  /\ stack' = Pop
  /\ UNCHANGED <<graphVars, listVars, walkVars, edges, mark, phase>>

BackwardReturn ==
  /\ phase = "backward"
  /\ stack # <<>>
  /\ \A m \in Drivers(Top.node) : mark[m] = "backward"
  /\ stack' = Pop
  /\ UNCHANGED <<graphVars, listVars, walkVars, edges, mark, phase>>

-----------------------------------------------------------------------------
(* identify_unused_nodes and traverse_forward                              *)

(* The list heads are reset, the two tail pointers are not.                *)
BeginForward ==
  /\ phase = "backward"
  /\ stack = <<>>
  /\ pos > Len(net.outputs)
  /\ phase' = "forward"
  /\ pos' = 1
  /\ removal_attached' = StillAttached(useless, removal_attached)
  /\ addsub_attached' = StillAttached(addsub, addsub_attached)
  /\ useless' = <<>>
  /\ addsub' = <<>>
  /\ UNCHANGED <<graphVars, walk, stats, edges, mark, stack, num_removed>>

Unwanted(n, toplevel, remove_me) ==
  remove_me \/ (mark[n] # "backward" /\ ~toplevel)

(* Mutation: every visited node is counted as removed.                     *)
TraverseForward_CountsAll(n, toplevel, remove_me) ==
  LET remove == Unwanted(n, toplevel, remove_me)
  IN  /\ mark' = [mark EXCEPT ![n] = "forward"]
      /\ stack' = Push(n, remove)
      /\ useless' = IF remove THEN InsertNode(useless, removal_attached, n)
                              ELSE useless
      /\ num_removed' = Counted(n)
      /\ UNCHANGED <<addsub, removal_attached, addsub_attached>>

TraverseForward(n, toplevel, remove_me) ==
  LET remove == Unwanted(n, toplevel, remove_me)
  IN  /\ mark' = [mark EXCEPT ![n] = "forward"]
      /\ stack' = Push(n, remove)
      /\ useless' = IF remove THEN InsertNode(useless, removal_attached, n)
                              ELSE useless
      /\ num_removed' = IF remove THEN Counted(n) ELSE num_removed
      /\ addsub' = IF IsChainHead(n) THEN InsertNode(addsub, addsub_attached, n)
                                     ELSE addsub
      /\ UNCHANGED <<removal_attached, addsub_attached>>

ForwardSource ==
  /\ phase = "forward"
  /\ stack = <<>>
  /\ pos <= Len(Sources(net))
  /\ IF mark[Sources(net)[pos]] = "forward"
       THEN UNCHANGED <<mark, stack, listVars>>
       ELSE TraverseForward(Sources(net)[pos], TRUE, FALSE)
  /\ pos' = pos + 1
  /\ UNCHANGED <<graphVars, walk, stats, edges, phase>>

ForwardReader ==
  /\ phase = "forward"
  /\ stack # <<>>
  /\ \E m \in Readers(Top.node) :
        mark[m] # "forward" /\ TraverseForward(m, FALSE, Top.remove)
  /\ UNCHANGED <<graphVars, walkVars, edges, phase>>

ForwardReturn ==
  /\ phase = "forward"
  /\ stack # <<>>
  /\ \A m \in Readers(Top.node) : mark[m] = "forward"
  /\ stack' = Pop
  /\ UNCHANGED <<graphVars, listVars, walkVars, edges, mark, phase>>

-----------------------------------------------------------------------------
(* remove_unused_nodes: the removed nodes keep their own readers, every    *)
(* net they read loses them.                                               *)

(* Mutation: the walk starts behind the first cell.                        *)
BeginRemoval_SkipsHead ==
  /\ phase = "forward"
  /\ stack = <<>>
  /\ pos > Len(Sources(net))
  /\ phase' = "removal"
  /\ pos' = 2
  /\ UNCHANGED <<graphVars, listVars, walk, stats, edges, mark, stack>>

BeginRemoval ==
  /\ phase = "forward"
  /\ stack = <<>>
  /\ pos > Len(Sources(net))
  /\ phase' = "removal"
  /\ pos' = 1
  /\ UNCHANGED <<graphVars, listVars, walk, stats, edges, mark, stack>>

(* Mutation: the walk does not advance.                                    *)
RemoveNode_Stays ==
  /\ phase = "removal"
  /\ pos <= Len(useless)
  /\ edges' = {e \in edges : e[2] # useless[pos]}
  /\ mark' = [mark EXCEPT ![useless[pos]] = "removal"]
  /\ UNCHANGED <<graphVars, listVars, walkVars, stack, phase>>

RemoveNode ==
  /\ phase = "removal"
  /\ pos <= Len(useless)
  /\ edges' = {e \in edges : e[2] # useless[pos]}
  /\ mark' = [mark EXCEPT ![useless[pos]] = "removal"]
  /\ pos' = pos + 1
  /\ UNCHANGED <<graphVars, listVars, walk, stats, stack, phase>>

-----------------------------------------------------------------------------
(* calculate_addsub_statistics: every chain is walked along the first      *)
(* reader of the carry output as far as the sweep left it.                 *)

BeginStatistics ==
  /\ phase = "removal"
  /\ pos > Len(useless)
  /\ phase' = "statistics"
  /\ pos' = 1
  /\ UNCHANGED <<graphVars, listVars, walk, stats, edges, mark, stack>>

StartChain ==
  /\ phase = "statistics"
  /\ walk = NoWalk
  /\ pos <= Len(addsub)
  /\ walk' = [at |-> addsub[pos], depth |-> 0]
  /\ UNCHANGED <<graphVars, listVars, pos, stats, edges, mark, stack, phase>>

(* The tail is found: the chain counts if anything of it is left.          *)
EndChain(depth) ==
  LET k == net.kind[walk.at]
  IN  /\ stats' = IF depth = 0 THEN stats ELSE
           [stats EXCEPT ![k] =
              [chains |-> @.chains + 1,
               total |-> @.total + depth,
               longest |-> IF depth > @.longest THEN depth ELSE @.longest]]
      /\ walk' = NoWalk
      /\ pos' = pos + 1

CarryReader(n) ==
  IF <<n, net.carry[n]>> \in edges THEN net.carry[n] ELSE NoNode

(* Mutations: removed heads are walked too; a chain never ends.            *)
WalkChain_CountsRemoved ==
  /\ phase = "statistics"
  /\ walk # NoWalk
  /\ \/ /\ CarryReader(walk.at) = NoNode
        /\ EndChain(walk.depth + 1)
     \/ /\ CarryReader(walk.at) # NoNode
        /\ walk' = [at |-> CarryReader(walk.at), depth |-> walk.depth + 1]
        /\ UNCHANGED <<stats, pos>>
  /\ UNCHANGED <<graphVars, listVars, edges, mark, stack, phase>>

WalkChain_NoNullCheck ==
  /\ phase = "statistics"
  /\ walk # NoWalk
  /\ walk' = [at |-> CarryReader(walk.at), depth |-> walk.depth + 1]
  /\ UNCHANGED <<graphVars, listVars, stats, pos, edges, mark, stack, phase>>

WalkChain ==
  /\ phase = "statistics"
  /\ walk # NoWalk
  /\ \/ /\ mark[walk.at] = "removal"
        /\ EndChain(walk.depth)
     \/ /\ mark[walk.at] # "removal"
        /\ CarryReader(walk.at) = NoNode
        /\ EndChain(walk.depth + 1)
     \/ /\ mark[walk.at] # "removal"
        /\ CarryReader(walk.at) # NoNode
        /\ walk' = [at |-> CarryReader(walk.at), depth |-> walk.depth + 1]
        /\ UNCHANGED <<stats, pos>>
  /\ UNCHANGED <<graphVars, listVars, edges, mark, stack, phase>>

Finish ==
  /\ phase = "statistics"
  /\ walk = NoWalk
  /\ pos > Len(addsub)
  /\ phase' = "done"
  /\ UNCHANGED <<graphVars, listVars, walkVars, edges, mark, stack>>

-----------------------------------------------------------------------------

Next ==
  \/ NextPass
  \/ BackwardOutput \/ BackwardDriver \/ BackwardReturn
  \/ BeginForward \/ ForwardSource \/ ForwardReader \/ ForwardReturn
  \/ BeginRemoval \/ RemoveNode
  \/ BeginStatistics \/ StartChain \/ WalkChain \/ Finish

Spec == Init /\ [][Next]_vars

(* The pass is one thread that nothing interrupts.                         *)
FairSpec == Spec /\ WF_vars(Next)

-----------------------------------------------------------------------------

(***************************************************************************)
(* Every variable keeps its type; the call stack never holds more frames   *)
(* than there are nodes, so that is not part of the type.                  *)
(***************************************************************************)
TypeOK ==
  /\ session \in Sessions
  /\ passes \in 1..Len(session)
  /\ IsNetlist(net)
  /\ edges \subseteq net.edges
  /\ mark \in [Node -> Marks]
  /\ stack \in Seq(Frames)
  /\ useless \in Seq(Node) /\ removal_attached \in BOOLEAN
  /\ addsub \in Seq(Node) /\ addsub_attached \in BOOLEAN
  /\ num_removed \in [Counters -> Nat]
  /\ pos \in Nat \ {0}
  /\ walk \in {NoWalk} \cup [at : Node, depth : Nat]
  /\ stats \in [Adders -> [chains : Nat, total : Nat, longest : Nat]]
  /\ phase \in {"backward", "forward", "removal", "statistics", "done"}

(***************************************************************************)
(* Which nodes matter, said without any search: Live(g) is the least set   *)
(* that holds the outputs and the drivers of what it holds, Reached(g) the *)
(* least set that holds the sources and the readers of what it holds.      *)
(***************************************************************************)
Elements(s) == {s[i] : i \in DOMAIN s}

ClosedBackward(g, S) ==
  Elements(g.outputs) \subseteq S /\ \A e \in g.edges : e[2] \in S => e[1] \in S

ClosedForward(g, S) ==
  Elements(Sources(g)) \subseteq S /\ \A e \in g.edges : e[1] \in S => e[2] \in S

Live(g) ==
  LET Closed == {S \in SUBSET Node : ClosedBackward(g, S)}
  IN  {n \in Node : \A S \in Closed : n \in S}

Reached(g) ==
  LET Closed == {S \in SUBSET Node : ClosedForward(g, S)}
  IN  {n \in Node : \A S \in Closed : n \in S}


(* What the sweep should take out: reached, not live, not a top node.      *)
Dead(g) == Reached(g) \ (Live(g) \cup Elements(Sources(g)))

Swept == phase \in {"statistics", "done"}

-----------------------------------------------------------------------------

(***************************************************************************)
(* No sweep, whatever order it visits pins in, puts a node that an output  *)
(* depends on on the removal list, although the remove flag is inherited   *)
(* down the whole search path, or takes an edge into such a node away.     *)
(***************************************************************************)
LiveKept ==
  LET live == Live(net)
  IN  /\ phase # "backward" => \A i \in DOMAIN useless : useless[i] \notin live
      /\ \A e \in net.edges \ edges : e[2] \notin live

(***************************************************************************)
(* After the sweep no reached node that no output depends on reads any     *)
(* net.  "Perform the backwards and forward sweeps and remove the unused   *)
(* nodes" (netlist_cleanup.cc, line 331).                                  *)
(***************************************************************************)
UnusedRemoved ==
  Swept => LET dead == Dead(net) IN \A e \in edges : e[2] \notin dead

(***************************************************************************)
(* What report_removed_nodes has to report on the first invocation is what *)
(* the sweep detached: no node is counted twice, over either of two        *)
(* parents or top nodes, or without being detached.  The adders are those  *)
(* of the subtractors too, and the generic nodes are all logic gates.      *)
(* Nothing resets the counters for the invocations after it.               *)
(***************************************************************************)
Detached(kinds) == {n \in Node : mark[n] = "removal" /\ net.kind[n] \in kinds}

Reported(t) ==
  CASE t = "add"     -> Adders
    [] t = "generic" -> {"logical", "mux", "generic"}
    [] OTHER         -> {t}

ReportExact ==
  Swept /\ passes = 1 =>
    \A t \in Counters : num_removed[t] = Cardinality(Detached(Reported(t)))

(***************************************************************************)
(* The adders calculate_addsub_statistics totals are exactly those the     *)
(* sweep left in the chains that start at the configured carry source.     *)
(***************************************************************************)
ClosedChain(k, S) ==
  \A m \in Node :
     net.kind[m] = k /\ (IsChainHead(m) \/ net.cin[m] \in {p \in S : net.carry[p] = m})
        => m \in S

InChain(n, k) == \A S \in SUBSET Node : ClosedChain(k, S) => n \in S

AddersCounted ==
  phase = "done" /\ passes = 1 => \A k \in Adders :
     stats[k].total = Cardinality({n \in Live(net) : net.kind[n] = k /\ InChain(n, k)})

(***************************************************************************)
(* The recursion of a search is a path of the netlist without repetition,  *)
(* so it is at most as deep as the netlist has nodes, loops or not.        *)
(***************************************************************************)
RecursionIsPath ==
  \A i, j \in DOMAIN stack :
     /\ i # j => stack[i].node # stack[j].node
     /\ j = i + 1 =>
          IF phase = "backward" THEN <<stack[j].node, stack[i].node>> \in net.edges
                                ELSE <<stack[i].node, stack[j].node>> \in net.edges

(* Every invocation of the sweep ends, on cyclic netlists too.             *)
SweepEnds == (phase # "done") ~> (phase = "done")

(***************************************************************************)
(* The sweep implements the abstract one: until the removal walk is over   *)
(* the netlist is as it was, then exactly the dead nodes are detached, or  *)
(* from the second invocation on some of them.                             *)
(***************************************************************************)
Abstract == INSTANCE DeadLogic
              WITH edges <- IF Swept THEN edges ELSE net.edges,
                   swept <- Swept, first <- passes = 1
SweepImplemented == Abstract!Spec

-----------------------------------------------------------------------------

(***************************************************************************)
(* The inductive invariant.  A search leaves behind a set that is closed   *)
(* but for the edges of the calls still in progress.                       *)
(***************************************************************************)
OnStack(n) == \E i \in 1..Len(stack) : stack[i].node = n

BackwardInv == phase = "backward" =>
  /\ edges = net.edges
  /\ \A n \in Node : mark[n] \in {"none", "backward"}
  /\ \A n \in Node : mark[n] = "backward" => n \in Live(net)
  /\ \A n \in Node : OnStack(n) => mark[n] = "backward"
  /\ \A i \in 1..Len(net.outputs) : i < pos => mark[net.outputs[i]] = "backward"
  /\ \A e \in net.edges :
        mark[e[2]] = "backward" => mark[e[1]] = "backward" \/ OnStack(e[2])

(* Marks are overwritten now, but a node that is not live had none.        *)
ForwardMarks ==
  /\ edges = net.edges
  /\ \A n \in Node : mark[n] # "removal"
  /\ \A n \in Node : mark[n] = "backward" => n \in Live(net)
  /\ \A n \in Node : mark[n] = "none" => n \notin Live(net)
  /\ \A n \in Node : mark[n] = "forward" => n \in Reached(net)
  /\ \A i \in 1..Len(stack) :
        /\ mark[stack[i].node] = "forward"
        /\ stack[i].remove => stack[i].node \notin Live(net)

ForwardClosed ==
  /\ \A i \in 1..Len(Sources(net)) : i < pos => mark[Sources(net)[i]] = "forward"
  /\ \A e \in net.edges :
        mark[e[1]] = "forward" => mark[e[2]] = "forward" \/ OnStack(e[1])

ForwardList ==
  /\ \A i \in 1..Len(useless) : useless[i] \in Dead(net)
  /\ removal_attached =>
        \A n \in Dead(net) : mark[n] = "forward" => n \in Elements(useless)

ForwardInv == phase = "forward" => ForwardMarks /\ ForwardClosed /\ ForwardList

(* The list is complete unless the tail pointer was cut off.               *)
ListComplete ==
  /\ Elements(useless) \subseteq Dead(net)
  /\ removal_attached => Dead(net) \subseteq Elements(useless)

RemovalInv == phase = "removal" =>
  /\ ListComplete
  /\ edges = {e \in net.edges : \A i \in 1..Len(useless) : i < pos => e[2] # useless[i]}

SweptInv == Swept =>
  /\ ListComplete
  /\ edges = {e \in net.edges : e[2] \notin Elements(useless)}

FirstPass ==
  passes = 1 => removal_attached /\ (phase = "backward" => useless = <<>>)

IInv ==
  /\ BackwardInv
  /\ ForwardInv
  /\ RemovalInv
  /\ SweptInv
  /\ FirstPass
  /\ phase \notin {"backward", "forward"} => stack = <<>>
=============================================================================
