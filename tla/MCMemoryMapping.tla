-------------------------- MODULE MCMemoryMapping --------------------------
(***************************************************************************)
(* Instances of MemoryMapping.  An instance is a pair of an architecture   *)
(* and a design; every kind of memory cell meets an architecture that      *)
(* splits it.                                                              *)
(***************************************************************************)
EXTENDS MemoryMapping

Block(addr_min, addr, data) == [addr_min |-> addr_min, addr |-> addr, data |-> data]

Arch(blocks, depth, width, depth_threshold, width_threshold) ==
  [blocks |-> blocks, depth |-> depth, width |-> width,
   depth_threshold |-> depth_threshold, width_threshold |-> width_threshold]

NoBlocks == [k \in {} |-> Block(1, 1, 1)]
Both(block) == [k \in {1, 2} |-> block]

Soft      == Arch(NoBlocks, 0, FALSE, 0, 0)
Shallow   == Arch(Both(Block(1, 2, 2)), -1, FALSE, 0, 0)
Narrow    == Arch(Both(Block(1, 2, 2)), 0, TRUE, 0, 0)
Mixed     == Arch(Both(Block(1, 2, 2)), 1, FALSE, 2, 1)
Wide      == Arch(Both(Block(1, 3, 4)), -2, FALSE, 4, 2)
SingleOnly == Arch([k \in {1} |-> Block(1, 1, 1)], 0, FALSE, 2, 2)

Mem(rd, wr, dbits, size) ==
  [cell |-> "mem", rd |-> rd, wr |-> wr, dbits |-> dbits, size |-> size]
Primitives(addr, dbits, size) ==
  [cell |-> "ram", rd |-> addr, wr |-> addr, dbits |-> dbits, size |-> size]
Of(cells) == [lutram |-> FALSE, cells |-> cells]

Rom1   == Of(<<Mem(<< <<1, 2>> >>, <<>>, 3, 3)>>)
Rom2   == Of(<<Mem(<< <<1, 2>>, <<3, 2>> >>, <<>>, 2, 4)>>)
Rom3   == Of(<<Mem(<< <<1>>, <<2>>, <<3>> >>, <<>>, 1, 2)>>)
Same   == Of(<<Mem(<< <<1, 2>> >>, << <<1, 2>> >>, 3, 4)>>)
Apart  == Of(<<Mem(<< <<1, 2>> >>, << <<3, 4>> >>, 2, 4)>>)
First  == Of(<<Mem(<< <<1, 2>> >>, << <<1, 2>>, <<3, 2>> >>, 1, 4)>>)
Second == Of(<<Mem(<< <<1, 2>> >>, << <<3, 2>>, <<1, 2>> >>, 2, 3)>>)
NoPair == Of(<<Mem(<< <<1>> >>, << <<2>>, <<3>> >>, 1, 2)>>)
TwoOne == Of(<<Mem(<< <<3, 1>>, <<1, 2>> >>, << <<1, 2>> >>, 3, 4)>>)
Pairs  == Of(<<Mem(<< <<1, 2>>, <<3, 2>> >>, << <<1, 2>>, <<3, 2>> >>, 2, 4)>>)
Crossed == Of(<<Mem(<< <<1>>, <<2>> >>, << <<2>>, <<1>> >>, 1, 2)>>)
Pruned == Of(<<Mem(<< <<1, 2, 3>> >>, << <<4, 2, 3>> >>, 1, 2)>>)
Shared == Of(<<Mem(<< <<1, 2, 3>>, <<4, 2, 3>> >>, << <<1, 2, 3>> >>, 1, 4)>>)
SharedReads == Of(<<Mem(<< <<1, 2>>, <<1, 3>> >>, <<>>, 1, 2)>>)
SharedPairs == Of(<<Mem(<< <<1, 2>>, <<3, 2>> >>, << <<1, 2>>, <<1, 2>> >>, 1, 2)>>)
Many   == Of(<<Mem(<< <<1>>, <<2>>, <<3>> >>, << <<1>>, <<2>>, <<3>> >>, 1, 2)>>)
ManyReads == Of(<<Mem(<< <<1>>, <<2>>, <<3>> >>, << <<1>> >>, 1, 2)>>)
Lut    == [lutram |-> TRUE, cells |-> <<Mem(<< <<1, 2>> >>, <<>>, 2, 4)>>]
NotLut == [lutram |-> TRUE, cells |-> <<Mem(<< <<1>> >>, <<>>, 2, 2)>>]
Two    == Of(<<Mem(<< <<1>> >>, << <<2>> >>, 2, 2), Mem(<< <<2>> >>, <<>>, 1, 2)>>)
Mixture == Of(<<Primitives(<< <<1>> >>, 1, 2), Mem(<< <<1>> >>, << <<2>> >>, 1, 2)>>)
Single == Of(<<Primitives(<< <<1, 2, 3>> >>, 3, 8)>>)
Dual   == Of(<<Primitives(<< <<1, 2, 3>>, <<4, 2, 3>> >>, 1, 8)>>)
Uneven == Of(<<Primitives(<< <<1, 2>>, <<3>> >>, 2, 4)>>)
Uneven2 == Of(<<Primitives(<< <<3>>, <<1, 2>> >>, 3, 4)>>)
Deep   == Of(<<Primitives(<< <<1, 2, 3, 4>> >>, 1, 16)>>)

MCArchs == {Soft, Shallow, Narrow, Mixed, Wide, SingleOnly}

Instances ==
  (MCArchs \X {Rom1, Same, Two, Mixture, Uneven, Uneven2})
  \cup ({Soft, Shallow, Mixed} \X {Rom2, First, Second, TwoOne, Pairs})
  \cup ({Mixed} \X {Rom3, NoPair, Shared, SharedReads, SharedPairs, Many, ManyReads, Lut, NotLut, Deep})
  \cup (MCArchs \X {Single, Pruned})
  \cup {<<Shallow, Apart>>, <<Soft, Apart>>, <<Mixed, Dual>>, <<Soft, Dual>>}

PassDesigns == {x[2] : x \in Instances}

MCInit == MappingInit /\ <<arch, design>> \in Instances
MCSpec == MCInit /\ [][MappingNext]_vars /\ WF_vars(Flow)

SoftArch == {Soft}
CrossedDesigns == {Pairs, Crossed}
=============================================================================
