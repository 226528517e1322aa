-------------------------- MODULE Fm85Compression --------------------------
(***************************************************************************)
(* The serialized form of a CPC sketch.  fm85Compress chooses by flavor    *)
(* what it stores and in which columns; serialize writes a field only when *)
(* the sketch has it; deserialize recomputes the offset of the window.     *)
(* Pairs are sorted before they are coded.  The buffer that a code is      *)
(* written into is allocated before its length is known.                   *)
(***************************************************************************)
EXTENDS Fm85, Fm85Codes

CONSTANT Permutation   \* columnPermutationsForEncoding, one for each phase

ASSUME PermutationAssumption ==
  \A phase \in DOMAIN Permutation :
    /\ DOMAIN Permutation[phase] = 0 .. MaxOffset - 1
    /\ {Permutation[phase][c] : c \in 0 .. MaxOffset - 1} = 0 .. MaxOffset - 1

makeInversePermutation(p) == [c \in DOMAIN p |-> CHOOSE d \in DOMAIN p : p[d] = c]

\* Phases 0 to 15 are those of a steady state; 16 to 21 choose an encoding table
\* for less than that.
determinePseudoPhase(lgK, c) ==
  LET below(thousandths) == 1000 * c < thousandths * 2 ^ lgK
  IN  IF below(2375) /\ ~ below(2275) THEN 6
      ELSE IF ~ below(2375) THEN ((16 * c) \div 2 ^ lgK) % 16
      ELSE IF 3 * c >= 5 * 2 ^ lgK THEN IF below(1965) THEN 20 ELSE 21
      ELSE 16 + Cardinality({limit \in {750, 1100, 1320} : ~ below(limit)})

----------------------------------------------------------------------------
(* The window: bytes are sets of columns, rows are counted from 0.         *)

compressTheWindow(s) ==
  lowLevelCompressBytes([i \in 1 .. 2 ^ s.lgK |-> s.window[i - 1]],
                        encodingTablesForHighEntropyByte[determinePseudoPhase(s.lgK, s.numCoupons)])

windowRead(c) ==
  lowLevelUncompressBytes(
    c.compressedWindow, 2 ^ c.lgK,
    decodingTablesForHighEntropyByte[determinePseudoPhase(c.lgK, c.numCoupons)])

windowOf(bytes) == [r \in 0 .. Len(bytes) - 1 |-> bytes[r + 1]]

uncompressTheWindow(c) == windowOf(windowRead(c).bytes)

(* The surprising values.  The reader works out the number of base bits    *)
(* anew, from the K and the number of pairs that it has read.              *)

sorted(pairs) ==
  SortSeq(FoldSet(LAMBDA rc, seq : Append(seq, rc), <<>>, pairs),
          LAMBDA a, b : a[1] < b[1] \/ (a[1] = b[1] /\ a[2] < b[2]))

numBaseBits(lgK, numPairs) == golombChooseNumberOfBaseBits(2 ^ lgK + numPairs, numPairs)

compressTheSurprisingValues(lgK, pairs) ==
  lowLevelCompressPairs(sorted(pairs), numBaseBits(lgK, Cardinality(pairs)))

pairsRead(c) ==
  lowLevelUncompressPairs(c.compressedSurprisingValues, c.numCompressedSurprisingValues,
                          numBaseBits(c.lgK, c.numCompressedSurprisingValues))

uncompressTheSurprisingValues(c) ==
  IF c.numCompressedSurprisingValues = 0 THEN {} ELSE ToSet(pairsRead(c).pairs)

----------------------------------------------------------------------------
(* A compressed sketch has a compressedWindow and compressed surprising    *)
(* values instead of a window and a table.                                 *)

mapColumns(pairs, f(_)) == {<<rc[1], f(rc[2])>> : rc \in pairs}

\* The surprises of a sliding sketch lie on both sides of its window; rotated,
\* they are in columns 0 to MaxOffset - 1, where the permutation applies.
rotate(col, offset) == (col + MaxOffset - offset) % Columns

unrotate(col, offset) == (col + offset + WindowWidth) % Columns

slidingPairs(s) ==
  LET permutation == Permutation[determinePseudoPhase(s.lgK, s.numCoupons)]
  IN  mapColumns(s.table, LAMBDA c : permutation[rotate(c, s.windowOffset)])

\* A sparse picture of a hybrid sketch, whose window starts at column 0.
windowPairs(s) == UNION {{<<r, c>> : c \in s.window[r]} : r \in Rows(s.lgK)}

pairsToCompress(s) ==
  LET flavor == determineSketchFlavor(s)
  IN  CASE flavor = "EMPTY"   -> {}
        [] flavor = "SPARSE"  -> s.table
        [] flavor = "HYBRID"  -> s.table \union windowPairs(s)
        [] flavor = "PINNED"  -> mapColumns(s.table, LAMBDA c : c - WindowWidth)
        [] flavor = "SLIDING" -> slidingPairs(s)

\* Of no pairs nothing is made, and the pointer stays null.
withSurprisingValues(c, pairs, code) ==
  IF pairs = {} THEN c
  ELSE [c EXCEPT !.compressedSurprisingValues = code,
                 !.numCompressedSurprisingValues = Cardinality(pairs),
                 !.csvLength = numWords(code)]

withWindow(c, code) == [c EXCEPT !.compressedWindow = code, !.cwLength = numWords(code)]

compressed(s, pairs) ==
  LET bare == [lgK |-> s.lgK, numCoupons |-> s.numCoupons,
               firstInterestingColumn |-> s.firstInterestingColumn,
               mergeFlag |-> s.mergeFlag, kxp |-> s.kxp,
               compressedWindow |-> NULL, cwLength |-> 0,
               compressedSurprisingValues |-> NULL, numCompressedSurprisingValues |-> 0,
               csvLength |-> 0]
      full == IF determineSketchFlavor(s) \in {"PINNED", "SLIDING"}
              THEN withWindow(bare, compressTheWindow(s)) ELSE bare
  IN  withSurprisingValues(full, pairs, compressTheSurprisingValues(s.lgK, pairs))

fm85Compress(s) == compressed(s, pairsToCompress(s))

\* Nothing checks that a buffer is long enough for what is written into it.
buffersSuffice(c) ==
  LET numPairs == c.numCompressedSurprisingValues
  IN  /\ c.cwLength <= safeLengthForCompressedWindowBuf(2 ^ c.lgK)
      /\ numPairs > 0 =>
           c.csvLength <= safeLengthForCompressedPairBuf(2 ^ c.lgK, numPairs,
                                                         numBaseBits(c.lgK, numPairs))

\* The exceptions on the way: a flavor whose parts are missing or misplaced.
fm85CompressThrows(s) ==
  LET flavor == determineSketchFlavor(s)
  IN  \/ flavor = "SPARSE" /\ (s.window # NULL \/ s.table = {})
      \/ /\ flavor = "HYBRID"
         /\ \/ s.window = NULL
            \/ s.windowOffset # 0
            \/ s.numCoupons # Cardinality(s.table) + Cardinality(windowPairs(s))
      \/ flavor = "PINNED" /\ \E rc \in s.table : rc[2] < WindowWidth
      \/ /\ flavor = "SLIDING" /\ s.table # {}
         /\ \/ s.windowOffset \notin 1 .. MaxOffset
            \/ \E rc \in s.table : rotate(rc[2], s.windowOffset) >= MaxOffset
            \/ determinePseudoPhase(s.lgK, s.numCoupons) >= 16

\* c with its windowOffset, table and window as an updatable sketch.
uncompressed(c, offset, pairs, window) ==
  LET flavor  == determineFlavor(c.lgK, c.numCoupons)
      near    == {rc \in pairs : rc[2] < WindowWidth}
      columns == makeInversePermutation(Permutation[determinePseudoPhase(c.lgK, c.numCoupons)])
      sketch(w, table) ==
        [lgK |-> c.lgK, numCoupons |-> c.numCoupons, windowOffset |-> offset,
         window |-> w, table |-> table,
         firstInterestingColumn |-> c.firstInterestingColumn,
         kxp |-> c.kxp, mergeFlag |-> c.mergeFlag, thrown |-> FALSE]
  IN  CASE flavor = "EMPTY"   -> sketch(NULL, NULL)
        [] flavor = "SPARSE"  -> sketch(NULL, pairs)
        [] flavor = "HYBRID"  ->
             sketch([r \in Rows(c.lgK) |-> {rc[2] : rc \in {n \in near : n[1] = r}}], pairs \ near)
        [] flavor = "PINNED"  -> sketch(window, mapColumns(pairs, LAMBDA col : col + WindowWidth))
        [] flavor = "SLIDING" ->
             sketch(window, mapColumns(pairs, LAMBDA col : unrotate(columns[col], offset)))

fm85Uncompress(c, offset) ==
  uncompressed(c, offset, uncompressTheSurprisingValues(c), uncompressTheWindow(c))

fm85UncompressThrows(c, offset) ==
  LET flavor      == determineFlavor(c.lgK, c.numCoupons)
      numPairs    == c.numCompressedSurprisingValues
      readsWindow == flavor \in {"PINNED", "SLIDING"}
      readsPairs  == flavor \in {"SPARSE", "HYBRID"} \/ (readsWindow /\ numPairs > 0)
  IN  \/ flavor \in {"SPARSE", "HYBRID"} /\ c.compressedWindow # NULL
      \/ readsWindow
         /\ (c.compressedWindow = NULL \/ overruns(windowRead(c).words, c.cwLength))
      \/ /\ readsPairs
         /\ \/ c.compressedSurprisingValues = NULL \/ numPairs = 0
            \/ overruns(pairsRead(c).words, c.csvLength)
      \/ flavor = "HYBRID" /\ offset # 0
      \/ flavor = "SLIDING" /\ numPairs > 0
         /\ (offset \notin 1 .. MaxOffset \/ determinePseudoPhase(c.lgK, c.numCoupons) >= 16)
      \/ flavor = "PINNED"
         /\ \E rc \in uncompressTheSurprisingValues(c) : rc[2] >= MaxOffset
=============================================================================
