------------------------------ MODULE U32Table ------------------------------
(***************************************************************************)
(* The linear-probing table that holds the surprising values of a CPC      *)
(* sketch.  An item starts its search at the cell that its high bits name, *)
(* so that a scan of the table is nearly sorted.  A deletion re-inserts    *)
(* the rest of its cluster; the table doubles above three quarters full    *)
(* and halves below one quarter.  It implements CouponSet.                 *)
(***************************************************************************)
EXTENDS Integers, Sequences, FiniteSets, SequencesExt

CONSTANTS
  ValidBits,  \* the bits of an item: 6 + lgK
  Items,      \* the items that are offered
  LgInits     \* the sizes a table is made with: 2, or lgK - 4 for a union's result

ASSUME U32TableAssumption ==
  /\ ValidBits \in Nat
  /\ Items \subseteq 0 .. 2 ^ ValidBits - 1
  /\ LgInits \subseteq 2 .. ValidBits

VARIABLES
  table,   \* the object: [slots, lgSize, numItems] and whether a call on it threw
  answer   \* what the last call returned, or THROWS

vars == <<table, answer>>

ALL32BITS == -1
\* What an operation returns.
CHANGED == "changed"
SAME    == "same"
THROWS  == "throws"

Cells(lg) == 0 .. 2 ^ lg - 1

u32TableMake(lg) ==
  [slots |-> [c \in Cells(lg) |-> ALL32BITS], lgSize |-> lg, numItems |-> 0, ok |-> TRUE]

----------------------------------------------------------------------------
(* U32_TABLE_LOOKUP_SHARED_CODE_SECTION: the first cell from the item's    *)
(* start on that holds the item or nothing.                                *)

after(t, c) == (c + 1) % 2 ^ t.lgSize

probe(t, item, i) == (item \div 2 ^ (ValidBits - t.lgSize) + i) % 2 ^ t.lgSize

lookup(t, item) ==
  LET stops == {i \in Cells(t.lgSize) : t.slots[probe(t, item, i)] \in {item, ALL32BITS}}
  IN  probe(t, item, CHOOSE i \in stops : \A j \in stops : i <= j)

has(t, item) == t.slots[lookup(t, item)] = item

u32TableMustInsert(t, item) ==
  IF has(t, item) THEN [t EXCEPT !.ok = FALSE]
  ELSE [t EXCEPT !.slots[lookup(t, item)] = item]

\* The occupied cells in array order.
Scan(t) ==
  SelectSeq([i \in 1 .. 2 ^ t.lgSize |-> t.slots[i - 1]], LAMBDA item : item # ALL32BITS)

privateU32TableRebuild(t, lg) ==
  IF 2 ^ lg <= t.numItems THEN [t EXCEPT !.ok = FALSE]
  ELSE FoldLeft(u32TableMustInsert,
                [u32TableMake(lg) EXCEPT !.numItems = t.numItems, !.ok = t.ok], Scan(t))

\* More than three quarters full, less than one quarter full.
overfull(n, lg)  == 4 * n > 3 * 2 ^ lg
underfull(n, lg) == 4 * n < 2 ^ lg /\ lg > 2

\* Slip: a table may become full.
growthWhenFull(t) == IF t.numItems > 2 ^ t.lgSize THEN <<t.lgSize + 1>> ELSE <<>>

\* The sizes the two while loops go through.
growth(t) ==
  SelectSeq([i \in 1 .. t.numItems |-> t.lgSize + i], LAMBDA lg : overfull(t.numItems, lg - 1))

shrinkage(t) ==
  SelectSeq([i \in 1 .. t.lgSize |-> t.lgSize - i], LAMBDA lg : underfull(t.numItems, lg + 1))

u32TableMaybeInsert(t, item) ==
  IF has(t, item) THEN t
  ELSE LET n == [t EXCEPT !.slots[lookup(t, item)] = item, !.numItems = @ + 1]
       IN  FoldLeft(privateU32TableRebuild, n, growth(n))

\* Slip: the cluster is left as it is.
clusterLeft(t, hole) == t

\* Re-inserts what lies between the freed cell and the next empty one.
reinsertCluster(t, hole) ==
  FoldLeft(LAMBDA st, i :
             LET item == st.t.slots[st.at]
             IN  IF st.done \/ item = ALL32BITS THEN [st EXCEPT !.done = TRUE]
                 ELSE [st EXCEPT !.t = u32TableMustInsert([@ EXCEPT !.slots[st.at] = ALL32BITS], item),
                                 !.at = after(t, @)],
           [t |-> t, at |-> after(t, hole), done |-> FALSE],
           [i \in 1 .. 2 ^ t.lgSize |-> i]).t

u32TableMaybeDelete(t, item) ==
  IF ~ has(t, item) THEN t
  ELSE LET freed == [t EXCEPT !.slots[lookup(t, item)] = ALL32BITS, !.numItems = @ - 1]
           n     == reinsertCluster(freed, lookup(t, item))
       IN  FoldLeft(privateU32TableRebuild, n, shrinkage(n))

u32TableClear(t) == [u32TableMake(t.lgSize) EXCEPT !.ok = t.ok]

\* A scan, with the items that look as if they had wrapped around moved from
\* the front to the end.  It throws when the count is not that of the scan.
u32TableUnwrappingGetItems(t) ==
  LET scan    == Scan(t)
      lead    == CHOOSE n \in 0 .. 2 ^ t.lgSize :
                   /\ \A c \in 0 .. n - 1 : t.slots[c] # ALL32BITS
                   /\ n = 2 ^ t.lgSize \/ t.slots[n] = ALL32BITS
      front   == SubSeq(scan, 1, lead)
      rest    == SubSeq(scan, lead + 1, Len(scan))
      hiBit(item) == item >= 2 ^ (ValidBits - 1)
  IN  SelectSeq(front, LAMBDA item : ~ hiBit(item)) \o rest
        \o Reverse(SelectSeq(front, hiBit))

unwrappingThrows(t) == Len(Scan(t)) # t.numItems

\* The smallest table that is not overfull, filled in the order given.
makeU32TableFromPairsArray(pairs) ==
  LET lg == CHOOSE l \in 2 .. ValidBits :
              ~ overfull(Len(pairs), l) /\ \A m \in 2 .. l - 1 : overfull(Len(pairs), m)
  IN  FoldLeft(u32TableMustInsert, [u32TableMake(lg) EXCEPT !.numItems = Len(pairs)], pairs)

----------------------------------------------------------------------------

Init == answer = SAME /\ \E lg \in LgInits : table = u32TableMake(lg)

Insert(item) ==
  /\ table' = u32TableMaybeInsert(table, item)
  /\ answer' = IF ~ table'.ok THEN THROWS ELSE IF has(table, item) THEN SAME ELSE CHANGED

Delete(item) ==
  /\ table' = u32TableMaybeDelete(table, item)
  /\ answer' = IF ~ table'.ok THEN THROWS ELSE IF has(table, item) THEN CHANGED ELSE SAME

Clear == table' = u32TableClear(table) /\ UNCHANGED answer

\* What compressing and uncompressing a sketch does to its table.
Reload ==
  LET sorted == SortSeq(u32TableUnwrappingGetItems(table), LAMBDA a, b : a < b)
  IN  IF unwrappingThrows(table)
      THEN answer' = THROWS /\ UNCHANGED table
      ELSE /\ table' = makeU32TableFromPairsArray(sorted)
           /\ answer' = IF table'.ok THEN answer ELSE THROWS

Next ==
  \/ \E item \in Items : Insert(item) \/ Delete(item)
  \/ Clear
  \/ Reload

Spec == Init /\ [][Next]_vars

----------------------------------------------------------------------------
(* Properties *)

Used == {c \in Cells(table.lgSize) : table.slots[c] # ALL32BITS}

(* Whatever was deleted, cleared, grown, shrunk or reloaded before, the    *)
(* table answers every insertion and deletion as the set does: no item is  *)
(* lost behind a cell that a deletion emptied, none is stored twice, and   *)
(* no "item exists" or "unwrapping error" is thrown.                       *)
Contents == {table.slots[c] : c \in Used}
ImplementsSet == INSTANCE CouponSet WITH members <- Contents
Refinement == ImplementsSet!Spec

(* numItems counts the occupied cells, at least a quarter of them are free *)
(* (the search has no other way to end) and no more than three quarters    *)
(* are after a deletion, also in a table that was reloaded.                *)
LoadBounded ==
  /\ table.numItems = Cardinality(Used)
  /\ ~ overfull(table.numItems, table.lgSize)
=============================================================================
