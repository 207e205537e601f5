----------------------------- MODULE DeadLogic ------------------------------
(***************************************************************************)
(* What remove_unused_logic promises to the rest of the pass, without its  *)
(* searches, lists and marks: in one step every node that is reached from  *)
(* the sources but that no output depends on stops reading nets.  Only the *)
(* first invocation in a process promises to find all of them; whatever a  *)
(* later one detaches is dead as well.                                     *)
(***************************************************************************)
EXTENDS Naturals, Sequences

CONSTANTS
  Netlists,    \* the netlists an invocation may be given
  Dead(_)      \* the nodes of a netlist that should be taken out

VARIABLES net, edges, swept,
  first        \* is this the first invocation?

vars == <<net, edges, swept, first>>

Init ==
  /\ net \in Netlists
  /\ edges = net.edges
  /\ swept = FALSE
  /\ first = TRUE

Sweep ==
  /\ ~swept
  /\ swept' = TRUE
  /\ \E found \in SUBSET Dead(net) :
        /\ first => found = Dead(net)
        /\ edges' = {e \in edges : e[2] \notin found}
  /\ UNCHANGED <<net, first>>

NextInvocation ==
  /\ swept
  /\ swept' = FALSE
  /\ net' \in Netlists
  /\ edges' = net'.edges
  /\ first' = FALSE

Spec == Init /\ [][Sweep \/ NextInvocation]_vars
=============================================================================
