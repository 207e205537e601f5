-------------------------------- MODULE Ram --------------------------------
(***************************************************************************)
(* What the memories of a design promise, whatever they are made of: a     *)
(* write port that is enabled at a clock edge replaces the word at its     *)
(* address and nothing else, and a read port whose address holds returns   *)
(* the word at that address.                                               *)
(*                                                                         *)
(* A hard block answers with the word it looked up at the edge, and the    *)
(* multiplexers in front of it choose with the present address.  So when   *)
(* an address changes after the edge, nothing better can be promised than  *)
(* a word whose address lines are each the old or the new one.             *)
(*                                                                         *)
(* Every bit carries a label that says where it comes from, so two bits    *)
(* are equal only if one is a copy of the other.                           *)
(***************************************************************************)
EXTENDS Integers, Sequences
LOCAL INSTANCE FiniteSetsExt
LOCAL INSTANCE Functions

VARIABLES
  design,   \* the memory cells, with the nets their addresses come from
  mem,      \* cell, address, bit -> label; <<>> until the memories are there
  applied,  \* the last edge: the values of the nets, the enabled write ports,
            \* and the values the nets have when the outputs are looked at
  out,      \* cell, read port, bit -> label
  edges     \* clock edges so far

vars == <<design, mem, applied, out, edges>>

Cells == DOMAIN design.cells
Cell(c) == design.cells[c]

Number(line) == MapThenSumSet(LAMBDA i : line[i] * 2 ^ (i - 1), DOMAIN line)

(* The address of a port at the edge, and the addresses each of whose      *)
(* lines is as it was at the edge or as it is now.                         *)
At(port, in) == Number([i \in DOMAIN port |-> in.value[port[i]]])

Between(port, in) ==
  {Number([i \in DOMAIN port |-> IF i \in changed THEN in.now[port[i]] ELSE in.value[port[i]]])
     : changed \in SUBSET DOMAIN port}

Locations ==
  [c \in Cells |-> [a \in 0..(Cell(c).size - 1) |-> 1..Cell(c).dbits]]

(* The bit b that write port w of cell c takes in at edge e.               *)
Given(e, c, w, b) == <<e, c, w, b>>

Init ==
  mem = <<>> /\ applied = <<>> /\ out = <<>> /\ edges = 0

(* The memories are built, all their bits different.                       *)
Build ==
  /\ mem = <<>>
  /\ DOMAIN mem' = Cells
  /\ \A c \in Cells : DOMAIN mem'[c] = 0..(Cell(c).size - 1)
  /\ \A c, d \in Cells : \A a \in DOMAIN mem'[c], k \in DOMAIN mem'[d] :
       \A b \in 1..Cell(c).dbits, f \in 1..Cell(d).dbits :
         mem'[c][a][b] = mem'[d][k][f] => c = d /\ a = k /\ b = f
  /\ UNCHANGED <<design, applied, out, edges>>

Writers(c, a, in) ==
  {w \in DOMAIN Cell(c).wr : <<c, w>> \in in.enabled /\ At(Cell(c).wr[w], in) = a}

NewBits(c, a, b, in) == {Given(edges + 1, c, w, b) : w \in Writers(c, a, in)}

(* An edge with all addresses within the memories.  Writes of two ports to *)
(* one address leave either; a read of a word that is being written is the *)
(* old or the new word, bit by bit.  Nothing is promised of a port whose   *)
(* address may be one beyond the memory.                                   *)
InRange(in) ==
  \A c \in Cells : \A port \in Range(Cell(c).rd) \cup Range(Cell(c).wr) :
    At(port, in) < Cell(c).size

Clock ==
  /\ mem # <<>>
  /\ InRange(applied')
  /\ edges' = edges + 1
  /\ \A c \in Cells : \A a \in DOMAIN mem[c], b \in 1..Cell(c).dbits :
       LET new == NewBits(c, a, b, applied')
       IN  mem'[c][a][b] \in IF new = {} THEN {mem[c][a][b]} ELSE new
  /\ \A c \in Cells : \A r \in DOMAIN Cell(c).rd, b \in 1..Cell(c).dbits :
       \E a \in Between(Cell(c).rd[r], applied') : a \in DOMAIN mem[c] =>
         out'[c][r][b] \in {mem[c][a][b]} \cup NewBits(c, a, b, applied')
  /\ UNCHANGED design

Next == Build \/ Clock

Spec == Init /\ [][Next]_vars
=============================================================================
