# A verification of the parmys Yosys plugin

`parmys` is a Yosys plugin (C++, `src/parmys/`) that reads a design from RTLIL into the netlist
of ODIN II, maps adders, subtractors, multipliers and memories onto the hard blocks of an FPGA
architecture or onto soft logic, removes what nothing depends on, and writes the result back to
RTLIL. This directory holds TLA+ modules of the parts of the plugin that decide something, the
TLC configurations that check them on small instances, and TLAPS proofs of the properties that
matter most for every instance. File and line numbers are those of `src/`.

The plugin is one thread: no locks, messages, timers or files that survive a run. What makes it
hard is of another kind: recursive searches over cyclic graphs with marks shared between
searches, work lists that grow or are edited by index while they are walked, several settings
that replace each other, globals that outlive the invocation they belong to, width arithmetic
spread over several functions that have to agree, and rewiring of the graph while it is traversed.

## Inventory

One invocation of the pass (`ParMYSPass::execute`, `parmys.cc:863`) runs these phases in order;
they communicate through the netlist, through global lists (`mult_list`, `add_list`, `sub_list`,
`processed_adder_list`, `chain_list`, the memory lists) and through global settings
(`configuration`, `Arch`, `hard_multipliers`, `hard_adders`, `min_mult`).

| Component | State | Operations | Hard behaviour | What makes it correct |
|---|---|---|---|---|
| Pass driver, `parmys.cc` | `configuration`, `Arch`, the mixer, all global lists | parse arguments, read configuration and architecture, `to_netlist`, `elaborate`, `optimization`, `techmap`, report, `update_design` | globals survive an invocation; two sources of every setting | each phase finds what the one before leaves; a second invocation behaves like the first |
| Resolution, `parmys_resolve.cc` | `traverse_visited` marks, arithmetic lists | depth-first traversal, `resolve_node`: adjusts ports, registers arithmetic nodes in the lists | replaces the node it stands on while it iterates over fanouts | every node visited once; every arithmetic node in its list once |
| Multiplier splitting, `multipliers.cc` | `mult_list`, the block sizes, the distribution | `iterate_multipliers`, three ways of cutting, padding, recording | the list grows while it is worked off; sizes are exchanged in place | every piece fits the block; the pieces compute the product; it ends |
| Soft multiplication, `multipliers.cc` | rows, adders, stages | adder tree, adder rows, constant cascade | carries, shifts and widths of rows of different age | the outputs carry the product |
| Mixing, `MixingOptimization.cc`, `HardSoftLogicMixer.cc`, `netlist_statistic.cc` | candidates, weights, count and ratio in force | note candidates, weigh, harden the heaviest, soften the rest | shared recursion marks, cyclic netlists, edits by index, float count | the budget in force is spent, on the heaviest; each implemented once |
| Adder and subtractor chains, `adders.cc`, `subtractions.cc` | `add_list`, `sub_list`, `processed_adder_list` | split into slices, connect carries, hand over outputs | dummy first position, last slice, unequal ports, three places that compute widths | the chain computes sum or difference; no output lost |
| Partial mapping, `partial_map.cc` | traversal marks, netlist | depth-first traversal, one instantiation per node type, elimination of buffers | rewires and frees nets and nodes under the traversal | every node mapped once, every reader keeps its sources |
| Memories, `memories.cc` | `sp_memory_list`, `dp_memory_list` | create RAMs, cut in depth and in width, pad, filter by thresholds, instantiate soft RAM | lists refilled while they are walked; address decoding per port; thresholds applied three times | every bit at every address in one piece, written where it is read; hard memories fit the block |
| Block memories, `BlockMemories.cc` | `block_memory_list`, `read_only_memory_list` | turn Yosys memories into RAMs: prune addresses, match ports by address, cascade, multiplex | ports told apart by comparing nets | reads and writes go where the memory cell sends them |
| Hard blocks, `hard_blocks.cc` | `hard_block_names` | register and find models, write definitions | loop that stops early | every model that is used is defined once |
| Dead-logic sweep, `netlist_cleanup.cc` | two node lists with tail pointers, marks in `node_data`, statistics | backward search, forward search, removal, chain statistics | recursion over loops, inherited flag, stale tails | exactly the dead nodes go; reports are exact; it ends |
| Netlist primitives, `netlist_utils.cc`, `node_creation_library.cc` | pins, nets, nodes and their mutual pointers | add, remove, remap, join, copy, free | freed nets with pointers held by callers | pointers of pins, nets and nodes agree; nothing freed is followed |
| Netlist writer, `parmys_update.cc` | RTLIL module, traversal marks | one cell per node, wires named after pins | reached over all inputs of a node; asserts what earlier phases should have done | every cell written once, every wire driven once, every node of a kind it can write |
| String cache, `string_cache.cc`, `Hashtable.cc` | hash table with open growth | add, find | rehash while adding | an index stays with its string |
| Types, errors, helpers | none of their own | conversions, messages | - | - |
| Netlist check and visualizer | none | read-only reports | - | - |
| `third_party/` | - | vendored VTR libraries | - | not part of this project |

## The modules

| Module | Models | Checked by | Proofs |
|---|---|---|---|
| `NetlistCleanup` | the sweep, call by call | `Cleanup.cfg`, `CleanupSecondPass.cfg` through `MCNetlistCleanup` | `NetlistCleanupProofs` |
| `DeadLogic` | what the sweep promises, in one step | as the property `SweepImplemented` | refined in `NetlistCleanupProofs` |
| `MultiplierMixing` | settings, mapping and optimization of multipliers | `Mixing.cfg`, `MixingMinimumSize.cfg` through `MCMultiplierMixing` | `MultiplierProofs` |
| `Float` | the rounding of the type float, for any precision | used by `MultiplierMixing` | `MultiplierProofs` |
| `MultiplierSplit` | `iterate_multipliers` and what the joined pieces compute | `Split.cfg`, `SplitSignExtends.cfg` through `MCMultiplierSplit` | `MultiplierProofs` |
| `SoftMultiplication` | which soft implementation a multiplication gets, composed of the next three | `SoftMultiplication.cfg` through `MCSoftMultiplication` | `SoftMultiplicationProofs` |
| `AdderTree`, `AdderRows`, `ConstantMultiplication` | the three implementations, one step per adder or stage | as above | `SoftMultiplicationProofs` |
| `AdderChain` | what becomes of an addition or a subtraction, hard or soft, and what it computes | `AdderChain.cfg`, `AdderChainSoft.cfg` through `MCAdderChain` | `AdderChainProofs` |
| `Multiplication` | what every soft implementation promises | as the property `ImplementsMultiplication` | safety refined in `SoftMultiplicationProofs` |
| `Memories` | RAMs from their creation over cutting, padding and filtering to hard or soft | composed, below | `MemoriesProofs` |
| `BlockMemories` | memory cells of the design on their way to RAMs | composed, below | none |
| `MemoryMapping` | the two composed in the order of the phases, and the memories of the output clocked | `MemoryMapping.cfg`, `MemoryMappingCrossed.cfg` through `MCMemoryMapping` | `MemoriesProofs`, last part |
| `Ram` | what memory cells promise, whatever they are made of | as the property `Answers` | none |
| `NetGraph` | nodes, pins and nets with their mutual pointers, and the primitives that change them | through `Connections` | `ConnectionsProofs` |
| `Connections` | connections from the design through the netlist and the elimination of buffers to the module that is written | `Connections.cfg` through `MCConnections` | `ConnectionsProofs`, `WiringProofs` |
| `Wiring` | what the pass promises about connections | as the property `LinksKept` | refined in `WiringProofs` |
| `Iteration` | folds and closures written so that TLC evaluates them once | used by `NetGraph` | `ConnectionsProofs` |
| `Binary` | powers of two and the bits of a number, as functions a proof can unfold | used by `MultiplierSplit`, `AdderChain`, `SoftMultiplication` and its parts | `Induction` |

### NetlistCleanup

`remove_unused_logic` (`netlist_cleanup.cc:331`) runs two recursive searches. The model has
their call stack: `BackwardOutput` and `ForwardSource` are the loops over top nodes,
`BackwardDriver` and `ForwardReader` a call with the body of the callee, `BackwardReturn` and
`ForwardReturn` a return. `net` is the netlist as it came, `edges` what is left of it; pins and
nets between the same two nodes are one edge, and the order in which a loop meets them is open,
which covers every order the netlist builder can produce. `mark` is `node_data`. The lists
`useless` and `addsub` are what hangs off the list heads; the tail pointers, which are globals,
appear as `removal_attached` and `addsub_attached`: whether they still point into that list.
`RemoveNode` walks the list and sets the fanout slots to NULL; `StartChain` and `WalkChain` are
the statistics; `NextPass` is the next invocation in the same Yosys process, with a new netlist
and old globals. `num_removed` has the counters of `num_removed_nodes`, and `CountedIn` is
`count_node_type`: logic gates and multiplexers are counted for themselves and as generic nodes,
a subtractor as an adder, constants not at all. The printing is left out; it happens with
`all_warnings` only, and if something is on the list.

### MultiplierMixing

`ReadOptimizations` and `Configured` combine `-mults_ratio`, `-exact_mults` and the attributes
of the configuration file the way `parmys.cc:903-936` and `read_xml_config_file.cc:228-247` do.
`PartialMapNode` maps multipliers in any order; candidates are noted. The optimization weighs
each candidate with the recursive `get_downward_stat` (`EnterStat`, `StatReader`, `StatReturn`,
with the marks shared by all candidates), scales the count (`ScaleCounts`), takes the heaviest
(`HardenHeaviest`), erases what was hardened by index from the back (`EraseHardened`), and softens
the rest. The choice between equal weights is open.

A ratio is given in units of 1/`RatioUnits`. Before it is compared with anything it becomes a
float (`AsFloat`), and `ScaleCounts` truncates a float product of count and ratio, so that 0.53 of
100 multipliers are 52. `Float` has these two roundings, to nearest and to even, for any number of
significant bits: a value is an integer in units of the smallest float. The build has 24 bits and
149 behind the point. The double that `atof` makes on the way is left out, and so are infinities
and what is not a number.

### MultiplierSplit

`Cut` is one pass through the loop of `iterate_multipliers` for a multiplication that does not
fit, with the three split functions; `KeepHard`, `KeepSoft` the passes for one that does, with
padding and the distribution. `size` is the pair `sizea`, `sizeb`, which the loop exchanges and
never restores. What the pieces compute is the function `Value`, over the operands, following
the wiring of the adders bit range by bit range. A `pad` pin counts as zero there.

### SoftMultiplication

`Resolve...`, `Iterate...` and `Map...` are the three phases that may claim a multiplication;
they hand it to `Tree`, `Rows` or `Const`, instances of the three algorithm modules over the
same variables. A row is its shift, its number of pins and the number they carry for the
operands `x` and `y`, so that a run covers every operand. How the mixing chooses is part of a
job here; `MultiplierMixing` has the choice itself. The padding of a multiplication that is kept
for a hard block of fixed size (`multipliers.cc:1355`) is in `MultiplierSplit` only. Operands are
unsigned: the parameters `A_SIGNED` and `B_SIGNED` are not read for multiplications (`parmys.cc:277-302`).

### AdderChain

One node of type ADD or MINUS from resolution to the slices or gates that replace it.
`ResolveAdd` is `check_missing_ports`, `ResolveSub` is `equalize_ports_size`; `CutNode` is the
loop over `init_split_adder` and its twin for subtraction, and `ConnectInverters`, `StartChain`,
`FillOpen`, `LinkCarry`, `RemapOutputs` are the passes of `split_adder` and
`split_adder_for_sub` over the slices, in their order. Each pass writes what an input pin is
tied to, a source; that a pass may overwrite what an earlier one connected is what
`ConnectedOnce` is about. `LeaveNode` and `RippleBit` are the soft adder of the partial map,
one bit a step. Position 0 of a chain is a dummy that only makes the first carry; the two
operands of the dummy are a one and a zero, so its carry out is its carry in. What the chain
computes is read off the sources by `Carries` and `OutputBit`, for given operands and a given
value of the pad net. `adder_cin_global` is false (`odin_ii.cc:68`) and `min_add` zero
(`adders.cc:47`) in every configuration, so the branches they guard are left out; with `min_add`
zero, `fixed_hard_adder` makes no difference. Unary minus is left out, since `$neg` is not
turned into a MINUS node. A job also says how many leading pins of the operands of a
subtraction are tied to the net that extends them, which `reduce_input_ports` takes away.

### Memories

A RAM has one port or two, and its kind is that number: `memory_list[1]` and `memory_list[2]` are
`sp_memory_list` and `dp_memory_list`. A pin of a memory node is the number of the address line or
data bit of the RAM it stands for, or `Pad`. `iterate_memories` (`memories.cc:1000`) is a fixed
sequence of loops over one list each; it is the sequence `Program`, and each loop is taken one
memory a step: `StartLoop` takes the list over as `work` and empties it, `SplitMemoryDepth`,
`SplitMemoryWidth`, `FilterMemory` and `PadMemory` look at the next one and put back what they keep,
`NextLoop` goes on. Which loop is next depends on the architecture (split options, RAM models), as
in the code. `TooDeep` is the error of `check_memories_and_report_distribution`. A cut in depth
replaces a node by two with the first address line gone; the AND gates it hangs on the write
enables and the multiplexers on the outputs are the lists `we` and `sel` of the pieces, one entry
a cut, each the line it looks at and the value that lets through. A cut in width shares out the
bits (`Share`). `PartialMap` decides between hard and soft once more, from the padded node.

### BlockMemories and MemoryMapping

`ResolvePrimitive` turns an instance of a RAM primitive into a RAM; `ResolveYmem` puts a Yosys
memory on `block_memory_list` or `read_only_memory_list`; `IterateBrams` and `IterateRoms` work
these off after the resolution. `MapBram` and `MapRom` are the dispatch over the numbers of ports,
and the operators they choose from (`OneReadTwoWrites`, `TwoReadsTwoWrites`, ...) record how the
function of that name wires the RAM: addresses, where each port's data and enable come from and
which port each read is answered by. A branch on `sigcmp` is a comparison of sequences of nets.
Where the code aborts on an assertion or reads past an array the outcome is `abort` or `undefined`
and the pass stops. `MemoryMapping` joins each RAM wired with the creation of a memory node
(`CreateOrStop`), and when everything is mapped, `Clock` applies any values of nets and any
enables: each leaf memory decodes its own lines, its gates let the write through or not, and reads
come back through the multiplexers. After the edge the nets may change (`now`) before the outputs
are looked at: a hard block keeps the word it latched at the edge, a soft RAM follows its present
lines, and the multiplexers are switched by the present lines over both. Bits are labels that say
which edge, cell, port and bit they come from, so equal labels are copies, and a wrong path shows whatever the data. `Ram` is the
promise: a write replaces the word at its address and nothing else, a read port whose address holds
returns its word, and one whose address changes after the edge a word each of whose address lines
is as it was or as it is.

### NetGraph, Connections and Wiring

`NetGraph` has the primitives of `netlist_utils.cc` as functions on a graph of records. An object
is named by the position it was allocated at, and freeing unsets `live`, so a stale pointer can be
recognised. `Connections` is the pass for a design of cells it hands through: `ImportCell` and
`ImportConnection` are the loops of `to_netlist`, `HookUp` is `hook_up_nets`, and the traversal of
the partial map is modelled call by call: `calls` is the stack, a frame is a node, an output pin,
the net the loop holds and the index in its readers. `VisitReader` enters a reader,
`SkipReader` passes a marked or empty one, `Return` maps the node it leaves, which may be a buffer:
`EliminateBuffer` then joins its nets and frees it below the calls that run through them.
`RemoveUnusedLogic` is the sweep in one step (`NetlistCleanup` has it call by call), and the same
traversal writes the cells. Gates, arithmetic and memories do not appear: their nodes are replaced
in modules of their own.

## Runs

| Run | Instance | Shows |
|---|---|---|
| `cleanup` | all netlists of three gates with at most two drivers each, loops included; all divisions of three slices into carry chains, with feedback; three invocations on all triples of four small netlists | only dead nodes go and, in a first invocation, all of them; each is counted once, in the counters of its type, and so are slices; recursion is a path; every invocation ends; the sweep implements `DeadLogic` |
| `cleanup_second_pass` | three invocations | the second invocation removes nothing (finding) |
| `mixing` | all acyclic and five cyclic netlists of four nodes with one block; every combination of settings on chains and forks of three multipliers of several sizes; no hard adders; no hard multipliers; one to ten multipliers without nets and seven ratios; 92,677 states | weights are longest paths; the heaviest get the blocks; the budget in force is spent, and where the truncated float product is one more or fewer than the exact share (0.57 of 7, 0.1 of 10) it is within the error of the two roundings; each implemented once; mapping ends |
| `mixing_minimum_size` | mixing off | a multiplier of exactly the minimum size is neither hard nor soft (finding) |
| `split` | one multiplication up to 6x6 and pairs up to 4x4 or 5x5 over 2x2, 3x2 and fracturable 3x3 blocks, padded or not | pieces fit, compute the product, are counted and padded right; splitting ends |
| `split_sign_extends` | up to 5x5 over 2x2 blocks | an unsigned partial product is sign extended (finding) |
| `soft_multiplication` | trees up to 3x6 (three levels, odd rows), rows up to 3x4 with outputs of 1 to 8 bits, constants up to 4 bits on either side or both, a few multiplications that stay hard; all operands | every step of the three is exact and inside its arrays; the outputs carry the product |
| `adder_chain` | additions of 1 to 5 by 1 to 5 bits with 2, 4 or 6 outputs, those the multiplier makes, subtractions of 1 to 4 by 1 to 4 bits with 1, 3 or 5 outputs and up to one extended pin a side, signed or not, over adders of 1 to 5 bits, none, and below the threshold; some wider ones over 2 and 3 bits; all operands | every operand bit and output has one place; no output index runs over; the carry goes through all slices; sum and difference are right for the pad values they rely on |
| `adder_chain_soft` | the same | a soft addition with three ports is rotated by one bit (finding) |
| `memories` | 25 designs: Yosys memories of 1 to 3 read and 0 to 3 write ports with equal, different, crossed and overlapping addresses, sizes that are no power of two, LUT RAM, RAM primitives of 1 and 2 ports up to 16 words and of unequal address widths, two memories in one design; six architectures that cut in depth, in width, in both or not, with one or both models, hard, soft or by threshold; two clock edges with every value of the nets and every set of enables, and every change of the nets after one edge; 23,408 states | every cell is held once, ports of a RAM meet in one cell, lists hold live memories once, hard memories fit; the output answers as `Ram`, from a word between the old and the new address where the address changes (it happens with cut hard blocks), from its own word elsewhere; every design is mapped or refused |
| `memories_paired_writes` | two reads and two writes with addresses paired straight and crossed | data crossed, enables not (finding) |
| `connections` | two cells, in feedback or not, that may drive one bit together or an output directly; one input, one or two outputs; up to three connections among three left and three right sides in every order; 193,400 states | no freed object is followed, pointers agree, each cell is written once, sound designs are accepted, the pass implements `Wiring` and ends |

Why these bounds are enough to be of use. A search error needs a node that is met over two
paths, a loop and a branch: three gates with two drivers have them all, and the mutants of the
model are found with fewer. A chain of three slices has a head, a middle and an end. Three
multipliers leave a candidate before, between and after a hardened one in the list. 6x6 over
2x2 is cut twice on each port, so that cut pieces are cut again. Three levels in the tree give
rows of unequal age and an odd row that skips a level. Adders of 1 to 5 bits and operands of 1
to 5 bits give every residue of the width, one slice, full last slices and empty last slices. A RAM
of 16 words over blocks of two is cut three times, so that a cut piece and its gates are cut again,
and blocks of one or two bits under three bits of data leave a full and a short piece. One edge
writes what the next one reads. Three connections make a chain of buffers, so that a net is joined
that was joined before, and a fork of buffers under one traversal loop. Ratios are
counted in hundredths; floats have eight significant bits and ten behind the point, so that hardly
any of these ratios is a float, and roundings decide already for ten multipliers; `INT_MAX` is 127.
What an edge stores and latches does not depend on what the nets were before, so changes of the nets
are tried after one edge (`ChangingClocks`) and stored words over two (`MaxClocks`). Of the ten
multipliers, the seven that only count are met first and in order, the other three in every order.

`CHECK_DEADLOCK FALSE` stands in every configuration because the pass ends.

## Fairness

The pass is one thread that nothing interrupts: as long as it can take a step it takes one. So
the fair specifications have weak fairness of the whole next-state relation and nothing else.
`SweepEnds`, `SplittingEnds`, `PassEnds`, `MappingEnds` of `MultiplierMixing` and the liveness part
of `ImplementsMultiplication` rest on it. `MemoryMapping` has weak fairness of `Flow` only, the
steps of the pass: clock edges are the environment of the output and are not obliged to come.

## What is proved

For every value of the constants that satisfies the named assumptions, checked by TLAPS:

`NetlistCleanupProofs`
- `TypeCorrect`: the type invariant.
- `SearchesCorrect`: the inductive invariant `IInv`. A search in progress leaves behind a set of
  marked nodes that is closed under the edge relation but for the edges of calls on the stack;
  together with "a marked node is live" and "a node on the list is dead" this gives, at the end
  of each search, the exact set. Without the clause about the stack closedness is not inductive,
  and without the clause about tail pointers nothing holds of a second invocation.
- `LiveNeverRemoved`: `LiveKept`, from `IInv`.
- `SweepsImplement`: every behaviour is one of `DeadLogic`.
- `RecursionBounded`: `RecursionIsPath`. A call is made only for a node without a mark, and a node
  keeps its mark for as long as its frame is on the stack.
- `ReportCountsDetached`: `ReportExact`, from `ReportListed`: each counter of the report is the number
  of nodes on the list of the kinds that are counted in it (`CountedIn`), and when the removal is over
  those are the nodes detached. It needs that the list names every dead node once.
- `StatisticsCountChains`: `AddersCounted`. Between the chains the sum is that of the chains
  visited; within one, the count is the distance walked from its head.

`MultiplierProofs`, of the mixing
- `MappingCorrect`: `IInv`, one conjunct per phase. The delicate ones are `EraseInv` (behind the
  index the list holds only candidates that still wait) and `Heaviest` (what was hardened so far
  is at least as deep as what waits), which need that a weighed candidate's depth no longer changes.
- `EachImplementedOnce`, `HeaviestFirst`, `SettingsNeverRefused`, `MixingTypeCorrect`.
- `BudgetExact`: `BudgetSpent`: what was hardened and what may still be come to the budget, which
  `ShareError` compares with the exact share: `RoundingError` says that the rounding of a number up to
  n to a float moves it by no more than n parts in 2^`Precision`, and ratio and product are rounded
  once each. `RoundedExact` gives that a count, and so a count times one, is not moved at all.
- `WeightsExact`: `WeightIsLongestPath`. The longest walks are a recursion over finite sets, which
  `WalksExist` shows to be defined with `SetInduction`. The memo of a search that has returned is the
  longest walk (`DepthInv`); a search still running has the maximum over the readers it has
  finished. That a reader on the stack is never asked for its depth (`NoReaderOnStack`) is the absence
  of cycles: the stack is a path (`StackPath`) and the edge would close it.

`MultiplierProofs`, of the splitting
- `SplittingCorrect`: `SplitIInv`: what waits is on the list, once, and the sizes are those of the
  block in one order or the other, which is why the exchange in place does no harm.
- `PiecesFit`: `BlocksFit`. `SplitTypeCorrect`: no cut makes an empty port.
- `DistributionCounts`: `DistributionExact`: the recorded distribution counts under each size the
  blocks of that size. The step that records a block changes one count by one, since two sizes have
  two keys (`KeysDiffer`) and the node recorded is the head of the list, recorded never before
  (`HeadNode`, `HardKept`).
- `PaddingFills`: `PadFills`. The pads of both ports are those of the block as a consequence of
  `FitWideEnough`: what waits to be padded was found no wider than the block in one order.
- `SplittingKeepsProduct`: `ProductKept`. `PiecesRight` is the inductive invariant under it, `CutsInv`:
  the pieces of a cut node were made after it and are as wide as the cut says, or wider if they
  were padded since. So the pieces of node n have higher numbers, the value is a recursion of rank
  `Len(nodes) - n` (`ValueUnfolds`), and induction goes from the last node to the first. A step of
  it is one of three lemmas about the wiring of the joining adders, `JoinAExact`, `JoinBExact` and
  `JoinBothExact`: no bit range is lost or added twice.

`Induction` holds what the provers cannot cite from the library, where induction takes an operator as
parameter: `SetInduction`, induction in the form of a set of numbers that has the successor of each of
its members; `RecursionExists`, that a recursion whose calls have lower rank defines a function; and from
these the powers of two, the splitting of a number at a bit (`LowHigh`, `QuotientUnique`, ...), the
bits of negative numbers in two's complement (`BitStep`, `BitOfComplement`, `BitOfLow`) and `RippleSum`.

`AdderChainProofs`
- `ChainCorrect`: the inductive invariant `ChainInv`. `LayoutInv` says what every input of every
  slice holds after each pass: bit k of an operand in position k + 1, anywhere else only what that
  pass may have left there. `CarryInv`, `RippleInv` and `DriveInv` say the same of the carries, of
  the soft adder and of the output pins. The step that starts the chain keeps it only because
  `LastSlice` holds: when the last slice is given its grounds no operand reaches it. The output
  step rests on `SlicesExist`: the slices hold more than the width, and all but the last no more
  than the outputs, for every residue of the width.
- `EveryBitCorrect`, `OutputsCorrect`, `ConnectedCorrect`, `OnceCorrect`: the invariants
  `EveryBitPlaced`, `OutputsHandedOver`, `ChainConnected` and the action property
  `ConnectedOnce`, each from `ChainInv`. `TypeCorrect`: the type invariant.
- `FillersCorrect`: the inductive invariant `FedInv`, about what feeds the chain beside the operands.
  `ChainInv` allows any constant there; the sum needs to know which. `PortsInv` relates the ports to
  the node as it came (what was reduced, what was added), `DummyInv` and `SoftInv` fix the first
  carry, and `FillInv` says that nothing but the dummy is tied to a one and that above both operands
  the two inputs of a position are alike: a carry that leaves the operands arrives there whatever
  the pad net reads.
- `AdditionCorrect` and `SubtractionCorrect`: `AddExact` and `SubExact`. The carry into a position is
  found by division, through the carry out of the slice before; `CarryLinked` shows it is that of the
  position below, so the carries are a recursion that `RecursionExists` defines (`CarriesUnfold`).
  `RippleSum` of `Induction` is the full adder in general: if the inputs are the bits of two integers,
  carry k is what High(x + y + c) has over High(x) and High(y) above bit k. A subtraction is its
  instance with the complement -z - 1 and the carry one. `SubInputs` shows
  that the pad net stands for exactly the bits that the reduction took away or the padding lacks.

`SoftMultiplicationProofs`
- `SoftInvariant`: the inductive invariant `SoftInv`. `PhaseInv` says which multiplications are in
  which phase and with how many outputs, and of each implementation there is what it has computed so
  far. `TreeInv`: with rows of m = 2^level bits, row k is x times chunk k of the bits of y (`Chunk`),
  the last chunk being what is left, and there are as many rows as y needs (`Spans`), those of the next
  level counted twice; the rows in `stage` follow those in `next`. `RowsInv`: adder k holds the upper
  bits of x times the lowest k + 1 bits of y. `ConstInv`: stage i has the variable times the lowest i
  bits of the constant, within the width, and has pushed an adder for each one but the first.
- `PartialResultsAreExact`: `PartialResultsExact`. That no adder of the tree is too narrow is
  `RowMerge`: with x below 2^a and n bits of y in the second row, the upper bits of the first and the
  second together are x times n bits plus less than x, which fits a + n bits. The last level has
  one row because 2^`AddLevels` is at least the width of y (`EnoughLevels`).
  In the rows, an adder needs one bit more than x has, because x times k bits is below 2^(a + k) (`PartialType`).
- `MultiplicationImplemented`: every behaviour of `SoftMultiplication` starts as `Multiplication` does
  and takes only its step or stutters, whatever the widths and whichever implementation the dispatch
  takes. `TreeEnds`, `RowsEnd` and `ConstEnds` show that each ends with the product in the driven
  outputs exactly where `MadeSoft` says that soft logic is made. This is the safety part of
  `ImplementsMultiplication`; that the step is taken is liveness.

`MemoriesProofs`
- `LayoutKept`: the inductive invariant `TypeInv`. Every node ever made is `Good`: all its ports
  have the same bits on their pins and as many gates as multiplexers, with the same line and the
  same value (`Alike`), and the lines it was cut by followed by the address lines it has left are
  the lines of its RAM, in order (`InOrder`). Without the order a cut could take off a line twice.
- `PortsAlwaysShareCells`: `PortsShareCells`, which follows from `Alike`. `MemoriesTypeCorrect`:
  the type invariant.
- `CellsAlwaysCovered`: `CellsCoveredOnce`. The inductive invariant `CellsInv` adds to `TypeInv`
  that at every address every bit is on exactly one pin of one memory that remains (`Covered`). The
  heart is the lemma on a node that is taken over by its pieces: at each address and bit the node
  answers if exactly one piece does, with one pin. A depth cut meets it since the two pieces differ
  in the value of the line they look at, a width cut since the shares are disjoint and complete.
- `ListsAlwaysHoldNodesOnce` and `HardMemoriesFit`, from `PassInv`: the layout, the lists as sets
  without repetition of nodes that remain, and for each kind which loops are over by now (`Reached`)
  and hence what the listed nodes look like (`Sized`). `HardFits` needs the order of the loops: a
  memory is padded to the block after both cuts and after the filter that takes soft ones away, so
  what the partial map finds large enough has passed the padding.

The last part of `MemoriesProofs` is about the composition with `BlockMemories`.
- `MappingIsMemories`: the theorems above speak of `MemoriesSpec`, in which RAMs of any shape are created in
  any order and number; this one says that every behaviour of `MemoryMapping` is one of it. The
  invariant `BlocksInv` says that a block memory that waits has an address of at least one line
  (the joined lists need that only where they are one address alone, so no induction over the fold
  is needed), and each of the ways to make a RAM of it is then shown to give one port or two with
  addresses and data of at least a bit. `EveryDesignMapped` draws the conclusion.

`ConnectionsProofs`
- `GraphInvariant`: the inductive invariant `GraphInv`. It says how the nodes lie in the netlist
  (constants, inputs, outputs, cells, buffers, in the order the code makes them), that the two ends
  of every link agree (`Agree`), that up to the sweep every reader is at the place it names
  (`Placed`), and where the calls of a traversal stand. Each primitive of `NetGraph` has a lemma of
  its own, each loop of the code over pins or bits is a fold with an invariant, and
  `eliminate_buffer` as a whole is one lemma (`BufferGoes`): the readers of the buffer's net move
  behind those of the net it reads, the place of the buffer itself is emptied, and nothing else
  changes. `Placed` is what makes this inductive: if a reader did not know its place, `DeletePin`
  would empty that of another.
- `PointersAlwaysAgree`: `PointersAgree`, and `NothingEverDangles`: `NoDangling`. A call in progress
  keeps its node since no other call is of that node, and its net since an output pin of a live
  node is on a live net: the net `join_nets` frees has no driver but the buffer that is left.

`WiringProofs`, on top of `ConnectionsProofs`
- `WalkInvariant`: the inductive invariant `WalkInv` of the two traversals. A traversal is closed
  (`WalkClosed`) when every reader of a marked node is marked or still ahead of a call of that node
  (`Ahead`: a call is at an earlier pin, or at this pin and not yet past this place). Joining nets
  appends to a net whose readers a call below may be counting; it stays closed because the readers
  that are appended are those of the buffer that is being left, and all of them are marked by then.
  A net that a finished node drives may grow for the same reason. When the mapping ends, what it
  marked is covered: cells have names on their outputs and the buffers that are left are on nets
  with other drivers; the sweep and the writer stay inside what is covered.
- `CellsWrittenOnce`: `WrittenOnce`. The writer writes a cell when it marks its node, node and
  cell have one name, and the wire of an output pin is the name of its cell and its number there.
- `MeaningInvariant`: the invariant `MeaningInv` says that the net of every input pin is upstream of
  the bit the pin is named after, and has exactly its sources. A buffer that is removed drives its
  net alone, so nothing else gives the bit on its left a value (`AloneGives`), which therefore has
  the sources of the bit on the right.
- `SoundDesignsAccepted`: `SoundAccepted`. Of a sound design `hook_up_nets` finds every net: a bit
  that is read is given by a source, which has a net, or is on the left of a connection that was
  imported, since something named it before. A buffer that reads the net it drives would make
  the bit on its left upstream of the one on its right, and so all bits upstream of that, none of
  which could then be given by a source (`NoRing`). The writer meets only covered nodes, and a net
  that is read, or on the left of a connection, has one driver (`OneDriver`).
- `LinkInvariant`: the invariant `LinkInv` has three parts. The pins that drive a net, itself or
  through buffers, are those that give its bit a value in the design (`NetsMean`): joining two nets
  takes nothing but the removed buffer from what is upstream of another net (`GoneUpstream`). Once
  swept, the lists of the nets hold exactly the readers outside of a set of nodes, no node of which
  feeds one that is left, and whose cells are those no output depends on (`Swept`); the edges
  between nodes are not the links between names, since a buffer may be left, so the two searches
  of the sweep are shown to find what the names say (`NeededFound`, `FoundNeeded`, `CellsReached`).
  And the written cells are those of the nodes the writer has marked (`Writing`), none of them swept.
- `PassKeepsLinks`: `LinksKept`, so `Connections` implements `Wiring`. Until `hook_up_nets` no net
  has a reader; from there to the sweep the netlist has all links of the design (`AllLinks`), whatever
  the mapping joins; the sweep is the one step of `Wiring` (`SweepTrimsLinks`); at the end the
  written module has the links of the netlist (`WrittenLinksAre`): every cell left was visited, its
  inputs and the outputs name their wires after drivers that are no buffers (`DirectDrivers`), and a
  wire carries nothing but the driver it is named after (`WireCarries`). This holds of every design,
  sound or not: one the pass cannot write is refused before a wrong link is.

Assumptions on constants: `NoNode` is not a node, sessions are non-empty sequences of
well-formed netlists in which no edge enters a source; multipliers are nodes, of which there are
finitely many, fewer than `INT_MAX` and few enough for each number of them to be a float
(2^24 in the build); the smallest float is no greater than the spacing of the floats at one
(`FloatAssumption`); designs have non-empty ports and blocks; an addition or
a subtraction has non-empty ports and keeps a pin of each operand, and only a node that splitting
made comes without having been resolved; RAM blocks have ports of at least a bit, and the limits and
thresholds are natural numbers; a memory cell has a read port, addresses of one width, and a size
its address can tell apart; an identifier of a design names one cell or one wire, as in RTLIL. Each
holds of what the front end builds.

Type correctness of `AdderChain` and `Memories` is proved and not a run of its own.

Only model-checked:
- liveness (`SweepEnds`, `MappingEnds`, `SplittingEnds`, `PassEnds`, and that the step of
  `ImplementsMultiplication` is taken at last): fairness and `ENABLED` are beyond the prover;
- `Answers`: its refinement goes through the decoding of addresses by sums of powers.

## Where the code differs from what it says

Five disagreements have a run (see the findings in `PROJECT.json`): the stale tail pointers of
`netlist_cleanup.cc:169`, the multiplier of exactly the minimum size (`MixingOptimization.cc:81`
against `multipliers.cc:1353`), the sign extension in `split_multiplier_b`
(`multipliers.cc:1163`), the rotated sums of a soft adder with three ports (`adders.cc:1177`), and
the write data of a memory with two reads and two writes, crossed without its enables
(`BlockMemories.cc:1013-1019`; the second pair of addresses is not compared at all).
Others were met while modelling; the properties are stated so that
they hold beside them, and the model does what the code does:

- `split_multiplier` adds `a1*b0` and `a0*b1` at the same position (`multipliers.cc:1004`),
  which is right only if the block is square. `ProductKept` excludes unequal cuts (`SoundCuts`).
- `pad_multiplier` takes the larger port of the block for port a whichever port of the node is
  the wider one (`multipliers.cc:1207`); over oblong blocks the pad of a port may be negative
  (`PadFills` is about square blocks), and the distribution records the size before padding.
- `soften` sends a candidate with a one-bit second port to `instantiate_simple_soft_multiplier`,
  which ends the pass with an error (`multipliers.cc:206`); phase `one_bit_error`.
- With hard adders and no hard multipliers a MULTIPLY node that is not constant is mapped to
  nothing (`MixingOptimization.cc:170`) and meets an assertion in the writer
  (`parmys_update.cc:301`).
- A constant operand that is zero, or two constant operands, leave a cascade without stages and
  `internal_outputs[-1]` is read (`multipliers.cc:324`); phase `overrun`.
- The adder tree asserts that the output has exactly the width of the product
  (`multipliers.cc:1525`), which a wider output of the design does not; phase `assertion_failed`.
- The first carry of a chain with two ports is the pad net (`adders.cc:694`,
  `subtractions.cc:521`): an addition needs it to read zero and a subtraction to read one, and
  nothing defines what it reads. Additions of the design are given a third port first and are
  right for either value, unless one operand is shorter (its open inputs are tied to the pad net
  as well). `AddExact` and `SubExact` say which value each form relies on. An
  unsigned subtraction of which an operand was padded is right on a hard chain for no value: the
  pad is wanted one as the carry and zero as an operand bit.
- The comment at `adders.cc:684` says that a[0] and b[0] of the first adder are connected to
  ground; a[0] is connected to vcc, which is what passes the carry in on.
- Outputs of a subtraction above the width of its operands are tied to the pad net
  (`netlist_utils.cc:1407`), where the design has a sign.
- The removed-node counters and chain statistics are never reset, so `ReportExact` and
  `AddersCounted` are about the first invocation.
- A block memory whose addresses do not match goes to `create_nrmw_dual_port_ram`, which asserts
  more than two reads and two writes (`BlockMemories.cc:1063-1068`) and ends the program. The test
  for one read and one write is `wr_ports == (rd_ports == 1)` (`BlockMemories.cc:1212`), which is
  right because a memory without write ports is on the other list. A memory with shared multiplexers, or one left for a LUT RAM block
  (`BlockMemories.cc:1155-1162`, `1207-1210`), has no case in the partial map
  (`partial_map.cc:217-219`, `267`), which then gives up; `stuck`.
- `combine_lists` leaves out a line of a later address that an earlier one has
  (`netlist_utils.cc:848`), so pruned addresses with a common line come out short: an assertion
  fails or a list is read past its end, according to the form (`Abort`, `Undefined`).
- The multiplexers of a memory cut in depth are switched by the present address
  (`memories.cc:396`), while a hard block holds the word of the last edge: a read whose address
  changes to another piece after the edge gets a word that is neither that of the old address nor
  that of the new one. `Ram` says which words it may be, and `memories` checks it.
- The number of hard multipliers a ratio asks for is a truncated float product
  (`MixingOptimization.cc:42`): 0.53 of 100 is 52, and other products come out one more than exact
  arithmetic has. `NearShare` says how far off it may be.
- When both ports of a soft RAM write one word, `memories.cc:1648` says which comes first; the
  MUX_2 that would decide is written as an OR of ANDs (`parmys_update.cc:386`) of selectors that
  are both one, so the word is the OR of both. `Ram` leaves the word to either.
- The filter for soft memories compares numbers of words where its comment speaks of address bits
  (`memories.cc:951-968`). Read enables are deleted, enables per bit become one, initial contents
  and `OFFSET` are lost, and an address behind the end of a memory is another word after pruning;
  `Ram` is about addresses in range and memories without these.
- A `split_memory_depth` larger than the block overwrites the size of the port
  (`hard_blocks.cc:73-103`), so that hard memories are wider than the block was; `HardFits` is
  about the size in force. `iterate_memories` does something only with a hard RAM model.
- Connections are imported in order, and one whose left side nothing has named yet is dropped
  (`parmys.cc:648`): p <- y, y <- a, o <- y leaves a reader without a net, an error. A buffer on a
  net with another driver is kept by the partial map and refused by the writer
  (`parmys_update.cc:270`). `SoundAccepted` is about designs without either.
- `internal_nodes` keeps pointers to the buffers that were freed; nothing reads them later. A cell
  that no input or constant reaches is never visited by the traversals and silently not written;
  `IsDesign` leaves such designs out.
- `output_hard_blocks_yosys` stops at a used adder or multiplier (`hard_blocks.cc:218-221`), so the
  models behind it are not declared.

## Not modelled, and the plan

1. done: `NetlistCleanup` with `DeadLogic`, proved
2. done: `MultiplierMixing`, proved
3. done: `MultiplierSplit`, proved
4. done: `SoftMultiplication` with `AdderTree`, `AdderRows`, `ConstantMultiplication`, proved
5. done: `AdderChain`, proved
6. done: `NetGraph`, `Connections` with `Wiring`: primitives, import, traversal of the partial map,
   elimination of buffers, writer, proved with the refinement
7. done: `Memories`, `BlockMemories`, `MemoryMapping` with `Ram`; `Memories` and the composition proved

Left, in the order of their weight:

8. The sequence of phases and the globals between them over repeated invocations, composed of the
   modules above through their abstract specifications; the stale `mult_list`
   (`parmys_resolve.cc:167`) is its hazard.
9. `StringCache`: growth and rehash. Its users are abstracted to keys that are distinct.
10. `HardBlocks`: registration of models and the declarations written beside the design.

Not planned. The lowering of gates, comparisons, shifts and multiplexers in `partial_map.cc` has a
case for every ODIN II node type, but from the cells `to_netlist` reads only additions,
subtractions, multiplications, memories, buffers and black boxes reach it, the rest being passed
through. The removal of duplicate operations (`reduce_operations`) merges nothing, as `match_ports`
(`adders.cc:966`) compares operands by their AST nodes, which the cells of an RTLIL design do not
have. The traversal of
the resolution is the same recursion as that of the partial map; what it replaces is in the modules
of multipliers, adders and memories. The netlist check, the visualizer and the reports change
nothing. Names, printing, attributes and locations are left out throughout, and `third_party/` is
other projects' code.
