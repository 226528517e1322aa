----------------------------- MODULE ProbedTable -----------------------------
(***************************************************************************)
(* What a table of ProbeTable is between two calls, for proofs about the   *)
(* map of exceptions and about the set of coupons: an array of entries in  *)
(* which the walk of every key comes by its entry before an empty cell.    *)
(***************************************************************************)
EXTENDS ProbeTable

----------------------------------------------------------------------------
(* Entries in a sequence. *)

ElementsOf(s) == {s[j] : j \in 1 .. Len(s)}

\* s lists the entries of H, each once.
Lists(s, H, key, E) ==
  /\ s \in Seq(E) /\ ElementsOf(s) = H
  /\ \A i, j \in 1 .. Len(s) : key[s[i]] = key[s[j]] => i = j

lastOf(S) == CHOOSE x \in S : \A y \in S : x >= y

----------------------------------------------------------------------------
(* Entries in a table: of E, each with its key. *)

IsTable(arr, lg, E) == arr = [c \in Cells(lg) |-> arr[c]] /\ \A c \in Cells(lg) : arr[c] \in E \union {EMPTY}

\* The walk of key k comes to cell c, and by no empty cell before.
Reaches(arr, lg, k, c) ==
  \E i \in Cells(lg) : probe(k, lg, i) = c
                       /\ \A j \in Cells(lg) : j < i => arr[probe(k, lg, j)] # EMPTY

\* Every entry is reached by the walk of its key.
Probed(arr, lg, key) ==
  \A c \in Cells(lg) : arr[c] # EMPTY => Reaches(arr, lg, key[arr[c]], c)

\* Stops and findCell, for a set of entries that match.
StopsAt(arr, lg, k, M) ==
  {i \in Cells(lg) : arr[probe(k, lg, i)] = EMPTY \/ arr[probe(k, lg, i)] \in M}

cellAt(arr, lg, k, M) ==
  LET stops == StopsAt(arr, lg, k, M)
  IN  probe(k, lg, CHOOSE i \in stops : \A j \in stops : i <= j)

\* A table of entries.
Filled(arr, lg, E) == lg \in Nat /\ Powers(lg) /\ EMPTY \notin E /\ IsTable(arr, lg, E)

\* ... with the keys that walks start from.
Sound(arr, lg, key, E) ==
  /\ Filled(arr, lg, E)
  /\ key = [e \in E |-> key[e]] /\ \A e \in E : key[e] \in Nat

\* The cells that have an entry, and the entries.
InUse(arr, lg) == {c \in Cells(lg) : arr[c] # EMPTY}

Entered(arr, lg) == {arr[c] : c \in InUse(arr, lg)}

\* No key twice.
Distinct(arr, lg, key) == \A c, d \in InUse(arr, lg) : key[arr[c]] = key[arr[d]] => c = d
=============================================================================
