----------------------------- MODULE CouponSet -----------------------------
(***************************************************************************)
(* What a u32Table promises to the CPC sketch that keeps its surprising    *)
(* values in one: it is a finite set, an insertion and a deletion tell     *)
(* whether they changed it, and no call on it throws.                      *)
(***************************************************************************)
EXTENDS Integers

CONSTANT Items

VARIABLES
  members,  \* the set
  answer    \* what the last call returned

\* What an operation returns.
CHANGED == "changed"
SAME    == "same"

Init == members = {} /\ answer = SAME

u32TableMaybeInsert(item) ==
  /\ answer' = (IF item \in members THEN SAME ELSE CHANGED)
  /\ members' = members \union {item}

u32TableMaybeDelete(item) ==
  /\ answer' = (IF item \in members THEN CHANGED ELSE SAME)
  /\ members' = members \ {item}

u32TableClear == members' = {} /\ UNCHANGED answer

\* The trip of the items through a compressed sketch.
reload == UNCHANGED <<members, answer>>

Next ==
  \/ \E item \in Items : u32TableMaybeInsert(item) \/ u32TableMaybeDelete(item)
  \/ u32TableClear
  \/ reload

Spec == Init /\ [][Next]_<<members, answer>>
=============================================================================
