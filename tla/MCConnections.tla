--------------------------- MODULE MCConnections ---------------------------
(***************************************************************************)
(* Designs for model checking Connections: one input, two outputs, a cell  *)
(* with one input pin and a cell with two, which may feed each other and   *)
(* may drive the same bit or an output directly, and up to three           *)
(* connections among the bits, in every order.                             *)
(***************************************************************************)
EXTENDS Connections

CONSTANTS Lhs, Rhs, MaxConnections   \* the bits a connection may join, and how many

Cells(readC1, readC2, outC2) ==
  <<[name |-> "c1", ins |-> readC1, outs |-> <<"w">>],
    [name |-> "c2", ins |-> readC2, outs |-> outC2]>>

CellPairs ==
  {Cells(r1, r2, o) :
     r1 \in {<<"a">>, <<"x">>},
     r2 \in {<<"a", "w">>, <<"y", "y">>, <<"o", "$true">>},
     o \in {<<"x">>, <<"o">>, <<"x", "w">>}}

ConnectionLists ==
  {s \in UNION {[1 .. n -> Lhs \X Rhs] : n \in 0 .. MaxConnections} :
     /\ \A i, j \in DOMAIN s : s[i][1] = s[j][1] => i = j
     /\ \A i \in DOMAIN s : s[i][1] # s[i][2]}

MCDesigns ==
  {d \in [inputs : {<<"a">>}, outputs : {<<"o">>, <<"o", "p">>}, cells : CellPairs,
          connections : ConnectionLists] : IsDesign(d)}
=============================================================================
