--------------------------- MODULE SoftMultiplication ---------------------------
(***************************************************************************)
(* How the pass turns a multiplication into soft logic, in the order of    *)
(* its phases: resolve_top makes a cascade of adders of one with a         *)
(* constant operand when there are no hard multipliers                     *)
(* (ConstantMultiplication); iterate_multipliers makes a balanced tree of  *)
(* one that is too small for a hard multiplier when there are hard adders  *)
(* and the hard multipliers are of fixed size (AdderTree); partial mapping *)
(* and the mixing make rows of what is left (AdderRows).  The three are    *)
(* shown to implement one abstract Multiplication, whatever the dispatch.  *)
(*                                                                         *)
(* The multiplication fits the hard block: MultiplierSplit cuts those that *)
(* do not before.  MultiplierMixing is how the mixing chooses; here the    *)
(* choice is part of the job.                                              *)
(***************************************************************************)
EXTENDS Binary, Sequences, FiniteSets

CONSTANTS
  Jobs,     \* the architectures and the multiplications on them
  MinMult   \* min_mult

(* A job has the blocks of the architecture, whether hard multipliers are  *)
(* of fixed size, the ports of the node, the constant ones among them and  *)
(* whether the mixing leaves the node to soft logic.                       *)
IsJob(j) ==
  /\ j.hard_multipliers \in BOOLEAN /\ j.hard_adders \in BOOLEAN /\ j.fixed \in BOOLEAN
  /\ j.a \in Nat \ {0} /\ j.b \in Nat \ {0} /\ j.out \in Nat \ {0}
  /\ j.constant \subseteq {"a", "b"}
  /\ j.mixed \in BOOLEAN

ASSUME JobsAssumption == MinMult \in Nat /\ \A j \in Jobs : IsJob(j)

VARIABLES job, x, y, width, out, phase
VARIABLES level, stage, next          \* of AdderTree
VARIABLES adders                      \* of AdderRows
VARIABLES size, i, internal, pushed   \* of ConstantMultiplication

treeVars == <<level, stage, next>>
rowsVars == <<adders>>
constVars == <<size, i, internal, pushed>>
vars == <<job, x, y, width, out, phase, treeVars, rowsVars, constVars>>

Tree == INSTANCE AdderTree
Rows == INSTANCE AdderRows
Const == INSTANCE ConstantMultiplication

Larger(m, n) == IF m > n THEN m ELSE n

Undriven == -1
NotSoft == -2

Init ==
  /\ job \in Jobs
  /\ x \in 0 .. Pow2[job.a] - 1 /\ y \in 0 .. Pow2[job.b] - 1
  /\ width = job.out /\ out = Undriven /\ phase = "resolve"
  /\ level = 0 /\ stage = <<>> /\ next = <<>>
  /\ adders = <<>>
  /\ size = [variable |-> 0, constant |-> 0] /\ i = 0 /\ internal = 0 /\ pushed = 0

(* check_constant_multipication                                            *)
ResolveConstant ==
  /\ phase = "resolve" /\ ~job.hard_multipliers /\ job.constant # {}
  /\ Const!Begin
  /\ UNCHANGED <<treeVars, rowsVars>>

(* Mutation: the outputs are not padded.                                   *)
ResolvePorts_NoPad ==
  /\ phase = "resolve" /\ job.hard_multipliers
  /\ phase' = "iterate"
  /\ UNCHANGED <<job, x, y, width, out, treeVars, rowsVars, constVars>>

(* check_multiplier_port_size: an output narrower than the product is      *)
(* padded with dummy pins.                                                 *)
ResolvePorts ==
  /\ phase = "resolve" /\ job.hard_multipliers
  /\ width' = Larger(width, job.a + job.b)
  /\ phase' = "iterate"
  /\ UNCHANGED <<job, x, y, out, treeVars, rowsVars, constVars>>

ResolveNothing ==
  /\ phase = "resolve" /\ ~job.hard_multipliers /\ job.constant = {}
  /\ phase' = "map"
  /\ UNCHANGED <<job, x, y, width, out, treeVars, rowsVars, constVars>>

(* iterate_multipliers: the smallest multiplications, but one-bit ones     *)
TooSmall == Larger(job.a, job.b) < MinMult /\ job.a # 1 /\ job.b # 1

IterateToTree ==
  /\ phase = "iterate" /\ TooSmall /\ job.hard_adders /\ job.fixed
  /\ Tree!Begin
  /\ UNCHANGED <<rowsVars, constVars>>

(* What pad_multiplier does to a node that is kept when hard multipliers    *)
(* are of fixed size is in MultiplierSplit, and left out here: the rows    *)
(* are made for the ports the node had before.                             *)
IterateKept ==
  /\ phase = "iterate" /\ ~(TooSmall /\ job.hard_adders /\ job.fixed)
  /\ phase' = "map"
  /\ UNCHANGED <<job, x, y, width, out, treeVars, rowsVars, constVars>>

(* MultsOpt::hardenable                                                    *)
Hardenable == job.hard_multipliers /\ Larger(job.a, job.b) > MinMult

(* Soft logic is made of candidates the mixing leaves and, without hard    *)
(* adders, of what no hard multiplier may be used for.                     *)
SoftMapped == IF Hardenable THEN job.mixed ELSE ~job.hard_adders

MapToRows ==
  /\ phase = "map" /\ SoftMapped
  /\ Rows!Begin
  /\ UNCHANGED <<treeVars, constVars>>

(* It becomes a hard multiplier or is left to the writer of the netlist.   *)
MapNotSoft ==
  /\ phase = "map" /\ ~SoftMapped
  /\ phase' = "not_soft"
  /\ UNCHANGED <<job, x, y, width, out, treeVars, rowsVars, constVars>>

Next ==
  \/ ResolveConstant \/ ResolvePorts \/ ResolveNothing
  \/ IterateToTree \/ IterateKept
  \/ MapToRows \/ MapNotSoft
  \/ Tree!Next /\ UNCHANGED <<rowsVars, constVars>>
  \/ Rows!Next /\ UNCHANGED <<treeVars, constVars>>
  \/ Const!Next /\ UNCHANGED <<treeVars, rowsVars>>

(* The pass is one thread that nothing interrupts.                         *)
Spec == Init /\ [][Next]_vars /\ WF_vars(Next)

-----------------------------------------------------------------------------

(* Every step of the three algorithms is exact and stays inside its        *)
(* arrays:                                                                 *)
(*   - no adder of split_soft_multiplier is too narrow for its sum ("was   *)
(*     found to be the only case were a carry out will be needed in this   *)
(*     multiplier adder tree", multipliers.cc, line 1484), and no row      *)
(*     carries more than its pins (line 1424);                             *)
(*   - one bit passes the carry from row to row of                         *)
(*     instantiate_simple_soft_multiplier (line 187), whose array of       *)
(*     adders is not overrun (line 119);                                   *)
(*   - every stage of implement_constant_multipication is exact, pushes    *)
(*     the adders it makes, and lies inside the outputs (line 317).        *)
PartialResultsExact ==
  /\ Tree!TypeOK /\ Tree!NoCarryLost
  /\ Rows!TypeOK /\ Rows!CarryPassed
  /\ Const!TypeOK /\ Const!StageExact

(* Which of the three makes the multiplication; the rest is left to the   *)
(* rows.                                                                   *)
MadeConstant == ~job.hard_multipliers /\ job.constant # {}
MadeTree == job.hard_multipliers /\ TooSmall /\ job.hard_adders /\ job.fixed

(* The outputs that are driven.                                            *)
DrivenWidth ==
  IF MadeConstant THEN job.out
  ELSE IF MadeTree THEN job.a + job.b
  ELSE Rows!Smaller(IF job.hard_multipliers THEN Larger(job.out, job.a + job.b) ELSE job.out,
                    job.a + job.b)

(* Soft logic is made of the multiplication, and the code gets through.    *)
MadeSoft ==
  IF MadeConstant THEN Cardinality(job.constant) = 1 /\ Const!Const # 0
  ELSE IF MadeTree THEN job.out <= job.a + job.b
  ELSE SoftMapped /\ job.b > 1

(* The value of the outputs, once they have one.                           *)
Outcome ==
  IF phase \in {"not_soft", "assertion_failed", "one_bit_error", "overrun"} THEN NotSoft ELSE out

Product == INSTANCE Multiplication WITH
  width <- DrivenWidth, soft <- MadeSoft, out <- Outcome

(***************************************************************************)
(* Whatever the pass makes of a multiplication in soft logic implements    *)
(* it: it is finished, and every driven output carries its bit of the      *)
(* product.  Nothing is made when the product is of no use to the soft     *)
(* logic (SoftMapped), nor                                                 *)
(*   - of a constant zero or two constants, where internal_outputs[-1] is  *)
(*     read (multipliers.cc, line 324);                                    *)
(*   - of an output wider than the product in the tree, where an assertion *)
(*     fails (line 1525), nor of a one-bit multiplicand in rows (line 206).*)
(***************************************************************************)
ImplementsMultiplication == Product!Spec
=============================================================================
