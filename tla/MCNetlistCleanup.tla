-------------------------- MODULE MCNetlistCleanup --------------------------
(***************************************************************************)
(* Netlists for model checking NetlistCleanup: every netlist of one input, *)
(* three gates and one output with at most two drivers per gate, loops     *)
(* included, netlists with a carry chain of up to three slices, and three  *)
(* invocations of the pass in a row.                                       *)
(***************************************************************************)
EXTENDS NetlistCleanup, TLC

CONSTANTS gnd, vcc, pad, in, a, b, c, out

MCNode == {gnd, vcc, pad, in, a, b, c, out}

Edges(fanin) == UNION {{<<d, n>> : d \in fanin[n]} : n \in DOMAIN fanin}

Netlist(edges0, kind0, cin0, carry0) ==
  [edges |-> edges0, outputs |-> <<out>>, inputs |-> <<in>>,
   gnd |-> gnd, vcc |-> vcc, pad |-> pad,
   kind |-> [n \in MCNode |->
     CASE n \in DOMAIN kind0       -> kind0[n]
       [] n \in {gnd, vcc, pad}    -> "constant"
       [] n \in {in, out}          -> "port"],
   cin |-> [n \in MCNode |-> IF n \in DOMAIN cin0 THEN cin0[n] ELSE NoNode],
   carry |-> [n \in MCNode |-> IF n \in DOMAIN carry0 THEN carry0[n] ELSE NoNode]]

(* Three gates that read a constant, the input and each other in every     *)
(* way; the output may as well read the first.                             *)
Fanins == {{vcc}} \cup {d \in SUBSET {in, a, b, c} : Cardinality(d) \in 1..2}

Gates == (a :> "block") @@ (b :> "logical") @@ (c :> "mux")

GateNetlists ==
  {Netlist(Edges(fanin) \cup {<<a, out>>}, Gates, <<>>, <<>>) :
      fanin \in [{a, b, c} -> Fanins]}

(* Three adders or subtractors in one, two or three chains.  A chain       *)
(* starts at a constant or at a net of the design, the output reads any    *)
(* of the slices, and the last slice may be fed back to the first.         *)
Slices == {a, b, c}
Before == [n \in Slices |-> CASE n = a -> pad [] n = b -> a [] n = c -> b]

ChainNetlist(heads, start, kind0, sums, back) ==
  LET cin0 == [n \in Slices |-> IF n \in heads THEN start ELSE Before[n]]
      linked == {n \in Slices : \E m \in Slices : cin0[m] = n}
      carry0 == [n \in linked |-> CHOOSE m \in Slices : cin0[m] = n]
  IN  Netlist({<<cin0[n], n>> : n \in Slices} \cup {<<in, n>> : n \in Slices}
                \cup {<<n, out>> : n \in sums} \cup back,
              [n \in Slices |-> kind0], cin0, carry0)

ChainNetlists ==
  {ChainNetlist({a} \cup heads, start, kind0, sums, back) :
      heads \in SUBSET {b, c}, start \in {pad, gnd, vcc, in},
      kind0 \in {"add", "minus"}, sums \in SUBSET Slices,
      back \in {{}, {<<c, a>>}}}

(* A live gate, a dead one and an adder whose sum nobody reads.            *)
SmallNetlists ==
  {Netlist({<<in, a>>, <<in, b>>, <<pad, c>>, <<a, out>>} \cup extra,
           (a :> "block") @@ (b :> "generic") @@ (c :> "add"), [n \in {c} |-> pad], <<>>) :
      extra \in {{}, {<<b, out>>}, {<<c, b>>}, {<<c, a>>}}}

(* One invocation on every gate and chain netlist, three on small ones.    *)
RepeatedSessions == [1..3 -> SmallNetlists]
MCSessions == {<<g>> : g \in GateNetlists \cup ChainNetlists} \cup RepeatedSessions
=============================================================================
