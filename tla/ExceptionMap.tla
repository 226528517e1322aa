---------------------------- MODULE ExceptionMap ----------------------------
(***************************************************************************)
(* What an auxiliary hash map promises to the HLL_4 sketch: it is a        *)
(* partial function from slots to values.  A call that breaks the contract *)
(* (adding what is there, reading or replacing what is not) throws and     *)
(* changes nothing.                                                        *)
(***************************************************************************)
EXTENDS Integers

CONSTANTS Slots, Values

VARIABLES
  bound,   \* the partial function
  answer   \* what the last call returned: a value, or one of these two

OK     == 0
THROWS == -1

Init == bound = [s \in {} |-> 0] /\ answer = OK

Bind(s, v) == [t \in DOMAIN bound \union {s} |-> IF t = s THEN v ELSE bound[t]]

mustAdd(s, v) ==
  IF s \in DOMAIN bound
  THEN answer' = THROWS /\ UNCHANGED bound
  ELSE answer' = OK /\ bound' = Bind(s, v)

mustReplace(s, v) ==
  IF s \in DOMAIN bound
  THEN answer' = OK /\ bound' = Bind(s, v)
  ELSE answer' = THROWS /\ UNCHANGED bound

mustFindValueFor(s) ==
  /\ answer' = (IF s \in DOMAIN bound THEN bound[s] ELSE THROWS)
  /\ UNCHANGED bound

\* Only the values from threshold on are kept.
restrict(threshold) ==
  /\ bound' = [s \in {t \in DOMAIN bound : bound[t] >= threshold} |-> bound[s]]
  /\ answer' = OK

\* A copy through a serialized image.
copy == answer' = OK /\ UNCHANGED bound

Next ==
  \/ \E s \in Slots, v \in Values : mustAdd(s, v) \/ mustReplace(s, v)
  \/ \E s \in Slots : mustFindValueFor(s)
  \/ \E v \in Values : restrict(v)
  \/ copy

Spec == Init /\ [][Next]_<<bound, answer>>
=============================================================================
