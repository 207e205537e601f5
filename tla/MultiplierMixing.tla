-------------------------- MODULE MultiplierMixing --------------------------
(***************************************************************************)
(* The technology mapping of multipliers: the command line and the         *)
(* configuration file choose how many may become hard blocks, partial_map  *)
(* maps each multiplier or notes it as a candidate of the mixing           *)
(* optimization, and HardSoftLogicMixer::perform_optimizations weighs the  *)
(* candidates by their distance to the end of the circuit, hardens the     *)
(* heaviest and maps the rest to soft logic.                               *)
(*                                                                         *)
(* A weight is found by get_downward_stat, the recursion of                *)
(* netlist_statistic.cc with one set of visited marks for all candidates;  *)
(* a step of the model is one call or one return of it.  The netlist is    *)
(* the mapped one.  It is cyclic when the design has feedback through      *)
(* flip-flops.  The gates of a multiplier that partial_map turns into soft *)
(* logic at once are abstracted to the node they replace.                  *)
(*                                                                         *)
(* The mixer is created for an invocation and holds nothing over to the    *)
(* next.                                                                   *)
(***************************************************************************)
EXTENDS Float, Sequences, FiniteSets

CONSTANTS
  Node,            \* nodes of the netlist
  Mult,            \* the MULTIPLY nodes among them
  Invocations,     \* the netlists with what the pass is asked to do
  RatioUnits,      \* a ratio r of a setting is the number r / RatioUnits
  IntMax           \* INT_MAX

(* Edges between nodes and the port widths of the multipliers.             *)
IsNetlist(g) ==
  /\ g.edges \subseteq Node \X Node
  /\ g.size \in [Mult -> [a : Nat \ {0}, b : Nat \ {0}]]

IsSetting(s) == s.ratio \in Int /\ s.exact \in Int /\ s.exact < IntMax

(* Are there hard multipliers, hard adders, and the minimum size min_mult. *)
IsArch(r) ==
  r.hard_multipliers \in BOOLEAN /\ r.hard_adders \in BOOLEAN /\ r.min_mult \in Nat

(* line stands for -mults_ratio and -exact_mults, file for the same two    *)
(* attributes of mix_soft_hard_blocks.                                     *)
IsInvocation(v) ==
  /\ IsNetlist(v.net)
  /\ IsSetting(v.asked.line) /\ IsSetting(v.asked.file) /\ IsArch(v.asked.arch)

ASSUME NodeAssumption == Mult \subseteq Node /\ IsFiniteSet(Node)
ASSUME IntMaxAssumption == IntMax \in Nat /\ Cardinality(Node) < IntMax
ASSUME InvocationsAssumption ==
  Invocations # {} /\ \A v \in Invocations : IsInvocation(v)
ASSUME RatioAssumption == RatioUnits \in Nat \ {0}
(* Every count of multipliers is a float.                                  *)
ASSUME CountAssumption == Cardinality(Mult) < Pow2[Precision]

VARIABLES
  net,        \* the netlist
  asked,      \* the settings of command line and configuration file, the architecture
  opt,        \* _opts[MULTIPLY]: enabled, blocks count and ratio
  unmapped,   \* multipliers the partial map has still to reach
  candidates, \* _nodes_by_opt[MULTIPLY]
  visited,    \* nodes with the traverse mark of the weighing
  depth,      \* stat.downward.max_depth of every node
  stack,      \* calls of get_downward_stat in progress
  weight,     \* weight of every multiplier
  pos,        \* loop index: candidate to weigh, blocks handed out, candidate to soften
  hardened,   \* how often instantiate_hard_multiplier was called on a node
  softened,   \* how often instantiate_simple_soft_multiplier was
  instances,  \* sizes in hard_multipliers->instances
  phase

inputVars == <<net, asked, unmapped>>
weighVars == <<visited, depth, stack>>
implVars == <<hardened, softened, instances>>
vars == <<inputVars, weighVars, implVars, opt, candidates, weight, pos, phase>>

HardMultipliers == asked.arch.hard_multipliers
HardAdders == asked.arch.hard_adders
MinMult == asked.arch.min_mult

Larger(a, b) == IF a > b THEN a ELSE b
Smaller(a, b) == IF a < b THEN a ELSE b

Top == stack[Len(stack)]
Pop == SubSeq(stack, 1, Len(stack) - 1)
Readers(n) == {m \in Node : <<n, m>> \in net.edges}

-----------------------------------------------------------------------------
(* Configuration: the command line first, the file may override it.        *)

(* The number atof returns is converted to float before it is looked at.   *)
AsFloat(ratio) ==
  IF ratio >= 0 THEN Rounded(ratio * One, RatioUnits)
                ELSE -Rounded((-ratio) * One, RatioUnits)

InRange(float) == float >= 0 /\ float <= One

Disabled == [enabled |-> FALSE, count |-> -1, ratio |-> -One]
ByRatio(ratio) == [enabled |-> TRUE, count |-> IntMax, ratio |-> AsFloat(ratio)]
ByCount(exact) == [enabled |-> TRUE, count |-> exact, ratio |-> One]

(* Mutation: the ratio of the file is taken without a range check.         *)
ReadOptimizations_Unchecked(set, file) ==
  IF file.exact >= 0 THEN ByCount(file.exact)
  ELSE IF file.ratio >= 0 THEN ByRatio(file.ratio)
  ELSE set

(* The two attributes of the file; the exact count is read last.           *)
ReadOptimizations(set, file) ==
  IF file.exact >= 0 THEN ByCount(file.exact)
  ELSE IF InRange(AsFloat(file.ratio)) THEN ByRatio(file.ratio)
  ELSE set

Configured(line, file) ==
  ReadOptimizations(
    IF InRange(AsFloat(line.ratio)) THEN ByRatio(line.ratio)
    ELSE IF line.exact >= 0 THEN ByCount(line.exact)
    ELSE Disabled,
    file)

Init ==
  /\ \E v \in Invocations : net = v.net /\ asked = v.asked
  /\ opt = Configured(asked.line, asked.file)
  /\ unmapped = Mult
  /\ candidates = <<>>
  /\ visited = {} /\ depth = [n \in Node |-> 0] /\ stack = <<>>
  /\ weight = [m \in Mult |-> 0]
  /\ pos = 1
  /\ hardened = [m \in Mult |-> 0]
  /\ softened = [m \in Mult |-> 0]
  /\ instances = {}
  /\ phase = "map"

-----------------------------------------------------------------------------
(* How one multiplier is implemented                                       *)

Hardenable(m) ==
  HardMultipliers /\ Larger(net.size[m].a, net.size[m].b) > MinMult

InstanceOf(m) ==
  [a |-> Larger(net.size[m].a, net.size[m].b), b |-> Smaller(net.size[m].a, net.size[m].b)]

InstantiateHard(m) ==
  /\ hardened' = [hardened EXCEPT ![m] = @ + 1]
  /\ instances' = instances \cup {InstanceOf(m)}
  /\ UNCHANGED softened

(* A one-bit multiplicand is an error that ends the pass.                  *)
CanSoften(m) == net.size[m].b > 1

InstantiateSoft(m) ==
  /\ softened' = [softened EXCEPT ![m] = @ + 1]
  /\ UNCHANGED <<hardened, instances>>

-----------------------------------------------------------------------------
(* MultsOpt::partial_map_node, in the order the traversal meets the nodes  *)

NoteCandidate(m) ==
  /\ opt.enabled /\ Hardenable(m)
  /\ candidates' = Append(candidates, m)
  /\ UNCHANGED <<implVars, phase>>

MapHard(m) ==
  /\ ~opt.enabled /\ Hardenable(m)
  /\ InstantiateHard(m)
  /\ UNCHANGED <<candidates, phase>>

MapSoft(m) ==
  /\ ~Hardenable(m) /\ ~HardAdders
  /\ InstantiateSoft(m)
  /\ phase' = IF CanSoften(m) THEN phase ELSE "one_bit_error"
  /\ UNCHANGED candidates

MapLeft(m) ==
  /\ ~Hardenable(m) /\ HardAdders
  /\ UNCHANGED <<candidates, implVars, phase>>

PartialMapNode ==
  /\ phase = "map"
  /\ \E m \in unmapped :
        /\ unmapped' = unmapped \ {m}
        /\ NoteCandidate(m) \/ MapHard(m) \/ MapSoft(m) \/ MapLeft(m)
  /\ UNCHANGED <<net, asked, opt, weighVars, weight, pos>>

-----------------------------------------------------------------------------
(* perform_optimizations: the budget                                       *)

(* The count, of multipliers that are there, is converted to float, and    *)
(* the float product is truncated to int; -1 stands for exit.              *)
Unscalable(count, ratio) == count < 0 \/ count = IntMax \/ ~InRange(ratio)

(* Mutation: the scaled count is rounded to the nearest.                   *)
ScaleCounts_Nearest(count, ratio) ==
  IF Unscalable(count, ratio) THEN -1 ELSE NearestEven(count * ratio, One)

ScaleCounts(count, ratio) ==
  IF Unscalable(count, ratio) THEN -1 ELSE Rounded(count * ratio, 1) \div One

(* Candidates are counted, the blocks of the device are not.               *)
SetBlocksNeeded ==
  /\ phase = "map" /\ unmapped = {} /\ opt.enabled
  /\ LET scaled == ScaleCounts(Smaller(opt.count, Len(candidates)), opt.ratio)
     IN  /\ opt' = [opt EXCEPT !.count = scaled]
         /\ phase' = IF scaled < 0 THEN "count_error" ELSE "weigh"
  /\ UNCHANGED <<inputVars, candidates, weighVars, weight, pos, implVars>>

NothingToMix ==
  /\ phase = "map" /\ unmapped = {} /\ ~opt.enabled
  /\ phase' = "done"
  /\ UNCHANGED <<inputVars, opt, candidates, weighVars, weight, pos, implVars>>

-----------------------------------------------------------------------------
(* assign_weights: get_downward_stat on one candidate after the other      *)

(* A call on an unvisited node.                                            *)
EnterStat(n) ==
  /\ n \notin visited
  /\ visited' = visited \cup {n}
  /\ stack' = Append(stack, n)

StatCandidate ==
  /\ phase = "weigh" /\ stack = <<>>
  /\ pos <= Len(candidates)
  /\ EnterStat(candidates[pos])
  /\ UNCHANGED <<inputVars, opt, candidates, depth, weight, pos, implVars, phase>>

(* Mutation: nets are followed whether or not their reader was visited.    *)
StatReader_Unmarked ==
  /\ phase = "weigh" /\ stack # <<>>
  /\ \E m \in Readers(Top) : stack' = Append(stack, m)
  /\ Len(stack) < 2 * Cardinality(Node)
  /\ UNCHANGED <<inputVars, opt, candidates, visited, depth, weight, pos, implVars, phase>>

StatReader ==
  /\ phase = "weigh" /\ stack # <<>>
  /\ \E m \in Readers(Top) : EnterStat(m)
  /\ UNCHANGED <<inputVars, opt, candidates, depth, weight, pos, implVars, phase>>

(* The depth of the deepest reader; one still in progress counts 0.        *)
IsDeepest(d, S) == \A m \in S : d >= depth[m]

(* Mutation: the first reader that has returned decides.                   *)
StatReturn_Early ==
  /\ phase = "weigh" /\ stack # <<>>
  /\ Readers(Top) = {} \/ Readers(Top) \cap visited # {}
  /\ \E d \in {0} \cup {depth[m] : m \in Readers(Top)} :
        IsDeepest(d, Readers(Top)) /\ depth' = [depth EXCEPT ![Top] = d + 1]
  /\ stack' = Pop
  /\ UNCHANGED <<inputVars, opt, candidates, visited, weight, pos, implVars, phase>>

StatReturn ==
  /\ phase = "weigh" /\ stack # <<>>
  /\ Readers(Top) \subseteq visited
  /\ \E d \in {0} \cup {depth[m] : m \in Readers(Top)} :
        IsDeepest(d, Readers(Top)) /\ depth' = [depth EXCEPT ![Top] = d + 1]
  /\ stack' = Pop
  /\ UNCHANGED <<inputVars, opt, candidates, visited, weight, pos, implVars, phase>>

(* mixing_optimization_stats keeps the depth as the weight.                *)
AssignWeight ==
  /\ phase = "weigh" /\ stack = <<>>
  /\ pos <= Len(candidates)
  /\ candidates[pos] \in visited
  /\ weight' = [weight EXCEPT ![candidates[pos]] = depth[candidates[pos]]]
  /\ pos' = pos + 1
  /\ UNCHANGED <<inputVars, opt, candidates, weighVars, implVars, phase>>

BeginPerform ==
  /\ phase = "weigh" /\ stack = <<>>
  /\ pos > Len(candidates)
  /\ phase' = "perform"
  /\ pos' = 1
  /\ UNCHANGED <<inputVars, opt, candidates, weighVars, weight, implVars>>

-----------------------------------------------------------------------------
(* MultsOpt::perform and instantiate_soft_logic                            *)

Eligible ==
  {j \in DOMAIN candidates : weight[candidates[j]] > -1 /\ Hardenable(candidates[j])}

(* Mutation: the scan keeps the first eligible candidate it meets.         *)
Preferred_First(j) == \A k \in Eligible : j <= k

(* The scan keeps the first of the heaviest.                               *)
Preferred(j) ==
  \A k \in Eligible :
     \/ weight[candidates[k]] < weight[candidates[j]]
     \/ weight[candidates[k]] = weight[candidates[j]] /\ j <= k

HardenHeaviest ==
  /\ phase = "perform"
  /\ pos <= opt.count
  /\ \E j \in Eligible :
        /\ Preferred(j)
        /\ weight' = [weight EXCEPT ![candidates[j]] = -1]
        /\ InstantiateHard(candidates[j])
  /\ pos' = pos + 1
  /\ UNCHANGED <<inputVars, opt, candidates, weighVars, phase>>

BeginErase ==
  /\ phase = "perform"
  /\ pos > opt.count \/ Eligible = {}
  /\ phase' = "erase"
  /\ pos' = Len(candidates)
  /\ UNCHANGED <<inputVars, opt, candidates, weighVars, weight, implVars>>

Without(s, i) == [j \in 1..Len(s) - 1 |-> IF j < i THEN s[j] ELSE s[j + 1]]

(* Mutation: the loop over the candidates stops above the first.           *)
EraseHardened_KeepsFirst ==
  /\ phase = "erase"
  /\ pos > 0
  /\ candidates' = IF weight[candidates[pos]] = -1 /\ pos > 1
                      THEN Without(candidates, pos) ELSE candidates
  /\ pos' = pos - 1
  /\ UNCHANGED <<inputVars, opt, weighVars, weight, implVars, phase>>

EraseHardened ==
  /\ phase = "erase"
  /\ pos > 0
  /\ candidates' = IF weight[candidates[pos]] = -1
                      THEN Without(candidates, pos) ELSE candidates
  /\ pos' = pos - 1
  /\ UNCHANGED <<inputVars, opt, weighVars, weight, implVars, phase>>

BeginSoften ==
  /\ phase = "erase"
  /\ pos = 0
  /\ phase' = "soften"
  /\ pos' = 1
  /\ UNCHANGED <<inputVars, opt, candidates, weighVars, weight, implVars>>

SoftenRemaining ==
  /\ phase = "soften"
  /\ pos <= Len(candidates)
  /\ InstantiateSoft(candidates[pos])
  /\ pos' = pos + 1
  /\ phase' = IF CanSoften(candidates[pos]) THEN phase ELSE "one_bit_error"
  /\ UNCHANGED <<inputVars, opt, candidates, weighVars, weight>>

Finish ==
  /\ phase = "soften"
  /\ pos > Len(candidates)
  /\ phase' = "done"
  /\ UNCHANGED <<inputVars, opt, candidates, weighVars, weight, pos, implVars>>

Next ==
  \/ PartialMapNode \/ SetBlocksNeeded \/ NothingToMix
  \/ StatCandidate \/ StatReader \/ StatReturn \/ AssignWeight
  \/ BeginPerform \/ HardenHeaviest
  \/ BeginErase \/ EraseHardened \/ BeginSoften
  \/ SoftenRemaining \/ Finish

Spec == Init /\ [][Next]_vars

(* The pass is one thread that nothing interrupts.                         *)
FairSpec == Spec /\ WF_vars(Next)

-----------------------------------------------------------------------------

Phases ==
  {"map", "weigh", "perform", "erase", "soften", "done", "count_error", "one_bit_error"}

(* Every variable keeps its type; only hardening makes a weight negative.  *)
TypeOK ==
  /\ IsInvocation([net |-> net, asked |-> asked])
  /\ opt \in [enabled : BOOLEAN, count : Int, ratio : Int]
  /\ unmapped \subseteq Mult
  /\ candidates \in Seq(Mult)
  /\ visited \subseteq Node
  /\ depth \in [Node -> Nat]
  /\ stack \in Seq(Node)
  /\ weight \in [Mult -> Nat \cup {-1}]
  /\ IF phase = "erase" THEN pos \in 0..Len(candidates) ELSE pos \in Nat \ {0}
  /\ hardened \in [Mult -> Nat] /\ softened \in [Mult -> Nat]
  /\ instances \subseteq [a : Nat, b : Nat]
  /\ phase \in Phases

-----------------------------------------------------------------------------

(***************************************************************************)
(* No multiplier is implemented twice, in the mapping, in the optimization *)
(* or across the two, and when mapping is done every one is implemented,   *)
(* in hard logic only if it is hardenable, but for those that hard adders  *)
(* leave alone.                                                            *)
(***************************************************************************)
ImplementedOnce ==
  /\ \A m \in Mult : hardened[m] + softened[m] <= 1
  /\ \A m \in Mult : hardened[m] = 1 => Hardenable(m)
  /\ phase = "done" =>
        \A m \in Mult : Hardenable(m) \/ ~HardAdders => hardened[m] + softened[m] = 1

(***************************************************************************)
(* With mixing enabled the number of hard multipliers is what the setting  *)
(* in force asks for, the file before the command line and in the file the *)
(* exact count before the ratio.  An exact count is met, as far as there   *)
(* are multipliers, and a ratio of one takes all.  Of another ratio it is  *)
(* the share rounded down, where the ratio and the product are floats:     *)
(* together they err by no more than two parts in 2^Precision of all       *)
(* multipliers, so that next to a whole number of blocks the count may be  *)
(* one more or one fewer: 0.53 of 100 is 52.                               *)
(***************************************************************************)
NearShare(h, n, ratio) ==
  LET share == n * ratio * Pow2[Precision]
      error == 2 * n * RatioUnits
      block == RatioUnits * Pow2[Precision]
  IN  /\ h * block <= share + error
      /\ share < (h + 1) * block + error
      /\ ratio = RatioUnits => h = n

Spent(h, n) ==
  LET line == asked.line
      file == asked.file
  IN  IF file.exact >= 0 THEN h = Smaller(file.exact, n)
      ELSE IF InRange(AsFloat(file.ratio)) THEN NearShare(h, n, file.ratio)
      ELSE IF InRange(AsFloat(line.ratio)) THEN NearShare(h, n, line.ratio)
      ELSE h = Smaller(line.exact, n)

BudgetSpent ==
  phase = "done" /\ opt.enabled =>
    Spent(Cardinality({m \in Mult : hardened[m] > 0}), Cardinality({m \in Mult : Hardenable(m)}))

(***************************************************************************)
(* A candidate that went to soft logic was never nearer to the critical    *)
(* path, by its depth, than one that got a hard block: the scan of each    *)
(* round takes a heaviest one, though the weights change under it.         *)
(***************************************************************************)
HeaviestHardened ==
  opt.enabled => \A h, s \in Mult :
     hardened[h] = 1 /\ softened[s] = 1 /\ Hardenable(s) => depth[s] <= depth[h]

(***************************************************************************)
(* On a netlist without loops the depth is the number of nodes on the      *)
(* longest path to the end of the circuit, whichever candidate's recursion *)
(* met the node first.  Walks[k] holds the nodes where a path of k + 1     *)
(* nodes starts.                                                           *)
(***************************************************************************)
Walks[k \in 0..Cardinality(Node)] ==
  IF k = 0 THEN Node
  ELSE LET walks == Walks[k - 1] IN {n \in Node : Readers(n) \cap walks # {}}

WeightIsLongestPath ==
  LET walks == Walks
  IN  walks[Cardinality(Node)] = {} =>
        \A n \in visited : (\A i \in DOMAIN stack : stack[i] # n) =>
           /\ n \in walks[depth[n] - 1]
           /\ n \notin walks[depth[n]]

(* No setting the pass accepts makes scale_counts give up.                 *)
SettingsAccepted == phase # "count_error"

(* Mapping ends, also where feedback makes the netlist cyclic.             *)
MappingEnds == <>(phase \in {"done", "one_bit_error"})

(***************************************************************************)
(* "oassert(hard_multipliers); / * should be soft logic! * /"              *)
(* (parmys_update.cc, line 301): a MULTIPLY node that is written as a cell *)
(* is a hard block, all others were turned into soft logic.                *)
(***************************************************************************)
SmallMultipliersSoft ==
  phase = "done" => \A m \in Mult : hardened[m] = 1 \/ softened[m] = 1

-----------------------------------------------------------------------------

(***************************************************************************)
(* The inductive invariant.                                                *)
(***************************************************************************)
Noted(m) == opt.enabled /\ Hardenable(m)

Once(m) == hardened[m] = 1 /\ softened[m] = 0
Softly(m) == hardened[m] = 0 /\ softened[m] = 1
Untouched(m) == hardened[m] = 0 /\ softened[m] = 0

(* What partial_map leaves of a multiplier that is not a candidate.        *)
MappedOtherwise(m) ==
  IF Hardenable(m) THEN Once(m) ELSE IF HardAdders THEN Untouched(m) ELSE Softly(m)

(* The setting in force is one scale_counts accepts.                       *)
OptInv ==
  /\ opt.enabled => InRange(opt.ratio) /\ opt.count >= 0
  /\ \A m \in Mult : weight[m] = -1 => hardened[m] = 1

CandidatesInv ==
  /\ \A i, j \in 1..Len(candidates) : i # j => candidates[i] # candidates[j]
  /\ \A i \in 1..Len(candidates) : Noted(candidates[i]) /\ candidates[i] \notin unmapped
  /\ \A m \in Mult \ unmapped : ~Noted(m) => MappedOtherwise(m)
  /\ \A m \in unmapped : Untouched(m)
  /\ phase \notin {"map", "one_bit_error"} => unmapped = {}

AllNoted ==
  \A m \in Mult \ unmapped : Noted(m) => \E i \in 1..Len(candidates) : candidates[i] = m

(* Until the optimization no candidate is touched.                         *)
BeforePerform == phase \in {"map", "weigh"} =>
  /\ AllNoted
  /\ \A m \in Mult : Noted(m) => Untouched(m)
  /\ \A m \in Mult : weight[m] >= 0

(* A weighed candidate has returned, and its depth does not change again.  *)
Weighed(i) ==
  /\ candidates[i] \in visited
  /\ \A k \in 1..Len(stack) : stack[k] # candidates[i]
  /\ weight[candidates[i]] = depth[candidates[i]]

WeighInv ==
  /\ phase = "map" => stack = <<>> /\ pos = 1
  /\ phase = "weigh" => \A i \in 1..Len(candidates) : i < pos => Weighed(i)

(* Hardened so far or waiting, and nothing that waits is heavier.          *)
Heaviest ==
  \A h, s \in Mult : Once(h) /\ Noted(s) /\ ~Once(s) => depth[s] <= depth[h]

HardenedOrWaiting(m) ==
  \/ Once(m) /\ weight[m] = -1
  \/ Untouched(m) /\ weight[m] = depth[m]

PerformInv == phase = "perform" =>
  /\ AllNoted
  /\ \A m \in Mult : Noted(m) => HardenedOrWaiting(m)
  /\ Heaviest

EraseInv == phase = "erase" =>
  /\ \A m \in Mult : Noted(m) => HardenedOrWaiting(m)
  /\ \A i \in 1..Len(candidates) : i > pos => Untouched(candidates[i])
  /\ \A m \in Mult : Noted(m) /\ ~Once(m) => \E i \in 1..Len(candidates) : candidates[i] = m
  /\ Heaviest

SoftenInv == phase = "soften" =>
  /\ \A i \in 1..Len(candidates) :
        IF i < pos THEN Softly(candidates[i]) ELSE Untouched(candidates[i])
  /\ \A m \in Mult : Noted(m) /\ ~Once(m) => \E i \in 1..Len(candidates) : candidates[i] = m
  /\ Heaviest

(* Only the optimization of an enabled mixer has these phases.             *)
EnabledInv == phase \in {"weigh", "perform", "erase", "soften"} => opt.enabled

EndInv ==
  /\ phase = "done" => \A m \in Mult : Noted(m) => Once(m) \/ Softly(m)
  /\ phase \in {"done", "one_bit_error"} =>
        /\ \A m \in Mult : Noted(m) => Once(m) \/ Softly(m) \/ Untouched(m)
        /\ opt.enabled => Heaviest

IInv ==
  /\ TypeOK /\ OptInv /\ CandidatesInv
  /\ BeforePerform /\ WeighInv /\ PerformInv
  /\ EraseInv /\ SoftenInv /\ EnabledInv /\ EndInv
  /\ phase # "count_error"
=============================================================================
