---------------------------- MODULE MCAdderChain ----------------------------
(* Additions and subtractions of every width up to a bound, on adders that *)
(* are narrower than, as wide as and wider than the node.                  *)
EXTENDS AdderChain

Node(op, design, a, b, y, ext_a, ext_b, signed) ==
  [op |-> op, design |-> design, a |-> a, b |-> b, y |-> y,
   ext_a |-> ext_a, ext_b |-> ext_b, signed |-> signed]

Target(hard, size, threshold) == [hard |-> hard, size |-> size, threshold |-> threshold]

On(nodes, targets) ==
  {[op |-> n.op, design |-> n.design, a |-> n.a, b |-> n.b, y |-> n.y,
    ext_a |-> n.ext_a, ext_b |-> n.ext_b, signed |-> n.signed,
    hard |-> t.hard, size |-> t.size, threshold |-> t.threshold] : n \in nodes, t \in targets}

Adds(w, y) ==
  {Node("add", TRUE, a, b, c, 0, 0, FALSE) : a \in 1..w, b \in 1..w, c \in y}

MadeByMultiplier(w) ==
  {Node("add", FALSE, a, b, IF a > b THEN a ELSE b, 0, 0, FALSE) : a \in 1..w, b \in 1..w}

Subs(w, y) ==
  {Node("sub", TRUE, a, b, c, e, f, s) :
     a \in 1..w, b \in 1..w, c \in y, e \in 0..1, f \in 0..1, s \in BOOLEAN}

Possible(jobs) == {r \in jobs : IsJob(r)}

HardTargets == {Target(TRUE, s, 1) : s \in 1..5}
SoftTargets == {Target(FALSE, 1, 0), Target(TRUE, 2, 3)}

MCJobs ==
  Possible(On(Adds(5, {2, 4, 6}) \cup MadeByMultiplier(5) \cup Subs(4, {1, 3, 5}),
              HardTargets \cup SoftTargets))

(* Widths at which the slices of a subtraction and an addition come out    *)
(* full.                                                                   *)
Wide == Possible(On(Adds(5, {6}) \cup Subs(5, {5}), {Target(TRUE, 2, 0), Target(TRUE, 3, 4)}))

AllJobs == MCJobs \cup Wide
=============================================================================
