------------------------------ MODULE Mailbox -------------------------------
(***************************************************************************)
(* What a DoubleBufferQueue promises its users: a mailbox.  Every item put *)
(* in comes out, once, in no promised order.                               *)
(***************************************************************************)
EXTENDS Sequences

CONSTANT Items

VARIABLES
  fresh,   \* items not put in yet
  inside,  \* items in the mailbox
  out      \* what has come out, in the order it came

vars == <<fresh, inside, out>>

Init == fresh = Items /\ inside = {} /\ out = <<>>

Put(x) ==
  /\ x \in fresh
  /\ fresh' = fresh \ {x}
  /\ inside' = inside \cup {x}
  /\ UNCHANGED out

Take(x) ==
  /\ x \in inside
  /\ inside' = inside \ {x}
  /\ out' = Append(out, x)
  /\ UNCHANGED fresh

Next == \E x \in Items : Put(x) \/ Take(x)

Spec == Init /\ [][Next]_vars /\ \A x \in Items : WF_vars(Take(x))
=============================================================================
