----------------------------- MODULE AuxHashMap -----------------------------
(***************************************************************************)
(* The hash table that holds the exceptions of an HLL_4 sketch: slot and   *)
(* value in one int, at most three quarters full, doubled when fuller,     *)
(* rebuilt by the sketch when curMin grows, and read back from either of   *)
(* its serialized forms.  It implements ExceptionMap.                      *)
(***************************************************************************)
EXTENDS ProbeTable

CONSTANTS
  Slots,    \* the slots that become exceptions, among 0 .. configK-1
  Values,   \* their values
  LgInit    \* LG_AUX_ARR_INTS[lgConfigK], the initial size

ASSUME AuxAssumption ==
  /\ Slots \subseteq Nat /\ IsFiniteSet(Slots) /\ Values \subseteq Nat \ {0}
  /\ LgInit \in Nat \ {0} /\ Powers(LgInit + Cardinality(Slots))

VARIABLES
  aux,     \* the object: [auxIntArr, lgAuxArrInts, auxCount]
  answer   \* what the last call returned: a value, or OK, or THROWS

vars == <<aux, answer>>

OK     == 0
THROWS == -1

newMap(lg) == [auxIntArr |-> EmptyTable(lg), lgAuxArrInts |-> lg, auxCount |-> 0]

----------------------------------------------------------------------------
(* find: an entry matches by its slot, whatever its value. *)

throws(m, s) == findThrows(m.auxIntArr, m.lgAuxArrInts, s, LAMBDA cell : cell[1] = s)
find(m, s)   == findCell(m.auxIntArr, m.lgAuxArrInts, s, LAMBDA cell : cell[1] = s)

has(m, s) == ~ throws(m, s) /\ m.auxIntArr[find(m, s)] # EMPTY
put(m, s, v) == [m EXCEPT !.auxIntArr[find(m, s)] = <<s, v>>]

\* The entries of m in a table of 2^lg cells, inserted in array order.
\* Slip: an entry goes to its start cell, occupied or not.
movedToStart(m, lg) ==
  FoldLeft(LAMBDA n, e : [n EXCEPT !.auxIntArr[probe(e[1], lg, 0)] = e],
           [newMap(lg) EXCEPT !.auxCount = m.auxCount],
           Entries(m.auxIntArr, m.lgAuxArrInts))

moved(m, lg) ==
  FoldLeft(LAMBDA n, e : put(n, e[1], e[2]),
           [newMap(lg) EXCEPT !.auxCount = m.auxCount],
           Entries(m.auxIntArr, m.lgAuxArrInts))

growAuxSpace(m) == moved(m, m.lgAuxArrInts + 1)

\* Slip: the table grows only when it is full.
checkGrowWhenFull(m) == IF m.auxCount > 2 ^ m.lgAuxArrInts THEN growAuxSpace(m) ELSE m

checkGrow(m) == IF overloaded(m.auxCount, m.lgAuxArrInts) THEN growAuxSpace(m) ELSE m

\* The object after mustAdd, which throws and leaves it alone if s is there.
added(m, s, v) ==
  IF throws(m, s) \/ has(m, s) THEN m
  ELSE checkGrow([put(m, s, v) EXCEPT !.auxCount = @ + 1])

\* The object after mustAdd of a sequence of pairs to a new table.
filled(lg, pairs) == FoldLeft(LAMBDA m, e : added(m, e[1], e[2]), newMap(lg), pairs)

----------------------------------------------------------------------------

Init == aux = newMap(LgInit) /\ answer = OK

mustAdd(s, v) ==
  /\ aux' = added(aux, s, v)
  /\ answer' = IF throws(aux, s) \/ has(aux, s) THEN THROWS ELSE OK

mustReplace(s, v) ==
  \/ has(aux, s) /\ aux' = put(aux, s, v) /\ answer' = OK
  \/ ~ has(aux, s) /\ answer' = THROWS /\ UNCHANGED aux

mustFindValueFor(s) ==
  /\ answer' = IF has(aux, s) THEN aux.auxIntArr[find(aux, s)][2] ELSE THROWS
  /\ UNCHANGED aux

\* What shiftToBiggerCurMin does to the map: the entries that stay exceptions
\* are added to a new table in array order.  When none does, the map becomes
\* null, which the next exception replaces by a table of the initial size.
kept(m, threshold) ==
  [c \in Cells(m.lgAuxArrInts) |->
     IF m.auxIntArr[c] = EMPTY \/ m.auxIntArr[c][2] < threshold THEN EMPTY ELSE m.auxIntArr[c]]

rebuild(threshold) ==
  /\ aux' = filled(LgInit, Entries(kept(aux, threshold), aux.lgAuxArrInts))
  /\ answer' = OK

\* serialize and deserialize.  A compact image lists the entries and its table
\* is sized for their number; an updatable image is the array itself.
larger(a, b) == IF a >= b THEN a ELSE b

computeLgArrInts(count) == larger(LgInit, lgFor(count))

deserialize(compact) ==
  /\ aux.auxCount > 0
  /\ LET lg   == IF compact THEN computeLgArrInts(aux.auxCount) ELSE aux.lgAuxArrInts
         read == filled(lg, Entries(aux.auxIntArr, aux.lgAuxArrInts))
     IN  IF read.auxCount = aux.auxCount
         THEN aux' = read /\ answer' = OK
         ELSE answer' = THROWS /\ UNCHANGED aux

Next ==
  \/ \E s \in Slots, v \in Values : mustAdd(s, v) \/ mustReplace(s, v)
  \/ \E s \in Slots : mustFindValueFor(s)
  \/ \E v \in Values : rebuild(v)
  \/ \E compact \in BOOLEAN : deserialize(compact)

Spec == Init /\ [][Next]_vars

----------------------------------------------------------------------------
(* Properties *)

table  == aux.auxIntArr
lgSize  == aux.lgAuxArrInts
Used   == {c \in Cells(lgSize) : table[c] # EMPTY}

(* The map that the table stands for. *)
Contents ==
  [s \in {table[c][1] : c \in Used} |->
     (CHOOSE e \in {table[c] : c \in Used} : e[1] = s)[2]]

(* The table answers every sequence of calls, legal or not, as the partial *)
(* function does: no entry is lost behind a cell that growing, rebuilding  *)
(* or deserializing left empty, none is found twice.                       *)
ImplementsMap == INSTANCE ExceptionMap WITH bound <- Contents
Refinement == ImplementsMap!Spec

(* The search for a slot ends without the "no empty slots" throw, at the   *)
(* one cell holding that slot if there is one and at an empty cell if not. *)
(* A walk that started elsewhere or stepped differently would break it     *)
(* only after a collision.                                                 *)
FindsExactly ==
  \A s \in Slots :
    /\ ~ throws(aux, s)
    /\ \A c \in Used : table[c][1] = s => find(aux, s) = c

(* auxCount counts the entries and stays below the load that makes the     *)
(* table grow, also in a table that a deserialization sized afresh: the    *)
(* searches rely on an empty cell being left.                              *)
LoadBounded ==
  /\ aux.auxCount = Cardinality(Used)
  /\ ~ overloaded(aux.auxCount, lgSize)
=============================================================================
