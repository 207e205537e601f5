------------------------- MODULE MCSoftMultiplication -------------------------
(* Small jobs for SoftMultiplication: one set for each of the three kinds  *)
(* of soft logic, and a few architectures that use none.                   *)
EXTENDS SoftMultiplication

MCMinMult == 7

Job(arch, as, bs, outs, constants) ==
  {[hard_multipliers |-> arch.hm, hard_adders |-> arch.ha, fixed |-> arch.fixed,
    mixed |-> arch.mixed, a |-> w.a, b |-> w.b, out |-> w.out, constant |-> c] :
     w \in [a : as, b : bs, out : outs], c \in constants}

Blocks(hm, ha, fixed, mixed) == [hm |-> hm, ha |-> ha, fixed |-> fixed, mixed |-> mixed]

(* All operands of small multiplications, in trees of up to three levels.  *)
TreeJobs ==
  {j \in Job(Blocks(TRUE, TRUE, TRUE, FALSE), 2..3, 2..6, {5, 8, 9}, {{}})
     : j.out >= Larger(j.a, j.b)}

(* Outputs narrower and wider than the product.                            *)
RowsJobs ==
  Job(Blocks(FALSE, FALSE, FALSE, FALSE), 1..3, 1..4, 1..8, {{}})
    \cup Job(Blocks(TRUE, FALSE, FALSE, TRUE), {2, 8}, {1, 3}, {4, 12}, {{}})

(* Constants with zeros on either side, and doubly constant ones.          *)
ConstantJobs ==
  Job(Blocks(FALSE, TRUE, FALSE, FALSE), 1..3, 1..4, 1..5, {{"b"}, {"a", "b"}})
    \cup Job(Blocks(FALSE, FALSE, FALSE, FALSE), 1..4, 1..3, 2..4, {{"a"}})

OtherJobs ==
  Job(Blocks(TRUE, TRUE, TRUE, FALSE), {1, 7, 8}, {2}, {6}, {{}, {"b"}})
    \cup Job(Blocks(TRUE, TRUE, FALSE, TRUE), {3, 7, 8}, {2}, {6}, {{}})

MCJobs == TreeJobs \cup RowsJobs \cup ConstantJobs \cup OtherJobs
=============================================================================
