------------------------ MODULE MCMultiplierMixing ------------------------
(* Small instances of MultiplierMixing: nodes 1 to 3 are multipliers, node *)
(* 4 is a gate or an output.  Seven more multipliers are small and apart,  *)
(* except where shares of many are asked for.                              *)
EXTENDS MultiplierMixing

MCNode == 1..11
MCMult == MCNode \ {4}
FewNode == 1..4
FewMult == 1..3

Small == [a |-> 2, b |-> 2]

Sized(edges, sizes) ==
  [edges |-> edges,
   size |-> [m \in Mult |->
               IF m \in FewMult THEN [a |-> sizes[m][1], b |-> sizes[m][2]] ELSE Small]]

Wide == <<<<4, 4>>, <<4, 3>>, <<3, 5>>>>
Mixed == <<<<4, 4>>, <<2, 2>>, <<3, 2>>>>
Narrow == <<<<4, 1>>, <<2, 1>>, <<3, 2>>>>

(* Every acyclic netlist on the four nodes.                                *)
Acyclic == {Sized(E, Wide) : E \in SUBSET {e \in FewNode \X FewNode : e[1] < e[2]}}

(* Loops of one, two and three nodes, with ways in and out.                *)
Cyclic ==
  {Sized(E, Wide) : E \in
    {{<<1, 1>>, <<1, 4>>, <<2, 3>>, <<3, 4>>},
     {<<1, 2>>, <<2, 1>>, <<2, 3>>, <<3, 4>>},
     {<<1, 2>>, <<2, 3>>, <<3, 1>>, <<2, 4>>},
     {<<1, 2>>, <<2, 3>>, <<3, 2>>, <<3, 4>>, <<4, 1>>},
     {<<1, 4>>, <<2, 4>>, <<4, 3>>, <<3, 1>>, <<3, 2>>}}}

Chain == {<<1, 2>>, <<2, 3>>, <<3, 4>>}
Fork == {<<1, 2>>, <<1, 3>>, <<3, 4>>}

AllWide == Acyclic \cup Cyclic
SomeWide == Cyclic \cup {Sized(Chain, Wide), Sized(Fork, Wide)}
SomeSizes == {Sized(E, sizes) : E \in {Chain, Fork}, sizes \in {Wide, Mixed, Narrow}}

(* What is not given counts as a ratio of -1.0 and a count of -1.          *)
None == -RatioUnits
Unset == [ratio |-> None, exact |-> -1]
Ratios == {[ratio |-> r, exact |-> -1] : r \in {0, 35, 70, 100}}
Counts == {[ratio |-> None, exact |-> k] : k \in {0, 1, 2, 5}}
AnySetting == [ratio : {None, 60, 100, 101}, exact : {-1, 0, 2}]
OneBlock == [ratio |-> None, exact |-> 1]

Arch(multipliers, adders, min) ==
  [hard_multipliers |-> multipliers, hard_adders |-> adders, min_mult |-> min]

Asked(netlists, lines, files, arch) ==
  {[net |-> g, asked |-> [line |-> l, file |-> f, arch |-> arch]] :
      g \in netlists, l \in lines, f \in files}

(* Up to ten multipliers above the minimum size, and ratios of which two   *)
(* (0.57 of 7 and 0.1 of 10) are such that floats of eight bits give one   *)
(* more or one fewer.                                                      *)
Many(n) ==
  [edges |-> {},
   size |-> [m \in Mult |->
               IF Cardinality({k \in Mult : k > m}) < n THEN [a |-> 4, b |-> 2] ELSE Small]]

Shares == {[ratio |-> r, exact |-> -1] : r \in {1, 10, 29, 50, 53, 57, 99}}

(* One block for every netlist, so that the weights decide; every setting  *)
(* for some netlists and sizes; mixing without hard adders, and without    *)
(* hard multipliers; shares.                                               *)
MCInvocations ==
  Asked(AllWide, {OneBlock}, {Unset}, Arch(TRUE, TRUE, 2))
    \cup Asked({Many(n) : n \in 1..10}, Shares, {Unset}, Arch(TRUE, FALSE, 2))
    \cup Asked(SomeSizes, AnySetting, AnySetting, Arch(TRUE, TRUE, 2))
    \cup Asked(SomeWide, Counts, Ratios, Arch(TRUE, FALSE, 4))
    \cup Asked(SomeSizes, Counts, Ratios, Arch(FALSE, FALSE, 2))

(* The traversal meets the first three in any order, after the others.     *)
InOrder ==
  \A m \in unmapped \ unmapped' : \A k \in unmapped \ FewMult : m \notin FewMult /\ m <= k

MCNext == Next /\ InOrder
MCSpec == Init /\ [][MCNext]_vars /\ WF_vars(MCNext)

(* Mixing switched off, every size.                                        *)
PlainInvocations == Asked(SomeSizes, {Unset}, {Unset}, Arch(TRUE, TRUE, 2))
=============================================================================
