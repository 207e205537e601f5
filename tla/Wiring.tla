------------------------------- MODULE Wiring -------------------------------
(***************************************************************************)
(* What the parmys pass promises about connections, without nets, pins,    *)
(* buffers and traversals: whatever the pass does to a design, every       *)
(* reader keeps exactly the sources the design gave it, except that the    *)
(* readers no output depends on may be taken out, all of them in one step. *)
(***************************************************************************)

VARIABLES
  given,     \* the links <<source, sink>> of the design; an end is <<name, pin>>
  needed,    \* the names of its outputs and of what they depend on
  links      \* the links now

vars == <<given, needed, links>>

Init == links = given

Trim ==
  /\ links' = {l \in given : l[2][1] \in needed}
  /\ UNCHANGED <<given, needed>>

Spec == Init /\ [][Trim]_vars
=============================================================================
