----------------------------- MODULE Fm85Codes -----------------------------
(***************************************************************************)
(* The bit streams of a compressed sketch.  A byte of the window is one    *)
(* codeword of a prefix code; a pair is the codeword of its column delta   *)
(* and a Golomb code of its row delta.  The writer pads the stream and     *)
(* flushes it in whole words; the reader keeps a buffer, to which it adds  *)
(* one more word whenever it is about to peek at more bits than it holds.  *)
(* A stream is a sequence of bits, the low bit of a word first; its words  *)
(* are WordBits bits each.                                                 *)
(***************************************************************************)
EXTENDS Integers, Sequences, SequencesExt

CONSTANTS
  WordBits,    \* 32
  PeekBits,    \* 12: no codeword is longer
  UnaryPeek,   \* 8: the bits readUnary looks at in one go
  encodingTablesForHighEntropyByte,     \* for each phase, the codeword of each byte
  lengthLimitedUnaryEncodingTable       \* the codeword of each column delta

\* The reader's table: what to take PeekBits bits for, and how many of them it is.
makeDecodingTable(encoding) ==
  LET codedBy(peek) == {v \in DOMAIN encoding : IsPrefix(encoding[v], peek)}
      peeks         == {peek \in [1 .. PeekBits -> {0, 1}] : codedBy(peek) # {}}
  IN  [peek \in peeks |->
         LET v == CHOOSE v \in codedBy(peek) : TRUE IN [value |-> v, length |-> Len(encoding[v])]]

validateDecodingTable(decoding, encoding) ==
  \A peek \in [1 .. PeekBits -> {0, 1}] :
    /\ peek \in DOMAIN decoding
    /\ LET codeword == encoding[decoding[peek].value]
       IN  decoding[peek].length = Len(codeword) /\ IsPrefix(codeword, peek)

decodingTablesForHighEntropyByte ==
  [phase \in DOMAIN encodingTablesForHighEntropyByte |->
     makeDecodingTable(encodingTablesForHighEntropyByte[phase])]

lengthLimitedUnaryDecodingTable == makeDecodingTable(lengthLimitedUnaryEncodingTable)

ASSUME CodesAssumption ==
  /\ {WordBits, PeekBits, UnaryPeek} \subseteq Nat \ {0}
  /\ UnaryPeek <= PeekBits /\ 2 < PeekBits /\ PeekBits <= WordBits
  /\ \A phase \in DOMAIN encodingTablesForHighEntropyByte :
       validateDecodingTable(decodingTablesForHighEntropyByte[phase],
                             encodingTablesForHighEntropyByte[phase])
  /\ validateDecodingTable(lengthLimitedUnaryDecodingTable, lengthLimitedUnaryEncodingTable)

----------------------------------------------------------------------------

divideLongsRoundingUp(x, y) == x \div y + (IF x % y = 0 THEN 0 ELSE 1)

longFloorLog2OfLong(x) == CHOOSE p \in 0 .. x : 2 ^ p <= x /\ x < 2 ^ (p + 1)

golombChooseNumberOfBaseBits(k, count) ==
  LET quotient == (k - count) \div count
  IN  IF quotient = 0 THEN 0 ELSE longFloorLog2OfLong(quotient)

zeros(n) == [i \in 1 .. n |-> 0]

\* The writer's last act: the padding, and the flush of what is in the buffer.
flushed(bits, padding) ==
  bits \o zeros(WordBits * divideLongsRoundingUp(Len(bits) + padding, WordBits) - Len(bits))

numWords(stream) == Len(stream) \div WordBits

(* A reader has used up the first "at" bits of its stream, and loaded      *)
(* "words" words of it; "value" is what it read last.                      *)

readerOf(stream, at, words) == [stream |-> stream, at |-> at, words |-> words, value |-> 0]

MAYBE_FILL_BITBUF(reader, minbits) ==
  IF reader.words * WordBits - reader.at < minbits THEN [reader EXCEPT !.words = @ + 1]
  ELSE reader

\* What the next n bits are.  Past the stream they could be anything: they are
\* taken for zeros, and the reader is found out at the end.
peek(reader, n) ==
  [i \in 1 .. n |->
     IF reader.at + i <= Len(reader.stream) THEN reader.stream[reader.at + i] ELSE 0]

took(reader, n, value) == [reader EXCEPT !.at = @ + n, !.value = value]

\* "wordIndex > numCompressedWords"
overruns(words, numCompressedWords) == words > numCompressedWords

----------------------------------------------------------------------------
(* The bytes of the window *)

\* The last codeword of a byte has a bit at least.
windowPadding == PeekBits - 1

lowLevelCompressBytes(bytes, encoding) ==
  flushed(FlattenSeq([i \in DOMAIN bytes |-> encoding[bytes[i]]]), windowPadding)

safeLengthForCompressedWindowBuf(k) == divideLongsRoundingUp(PeekBits * k + windowPadding, WordBits)

decoded(filled, lookup) == took(filled, lookup.length, lookup.value)

readPeeked(filled, decoding) == decoded(filled, decoding[peek(filled, PeekBits)])

readCode(reader, decoding) == readPeeked(MAYBE_FILL_BITBUF(reader, PeekBits), decoding)

lowLevelUncompressBytes(stream, numBytesToDecode, decoding) ==
  LET rest[n \in 0 .. numBytesToDecode, at \in Nat, words \in Nat] ==
        IF n = 0 THEN [words |-> words, bytes |-> <<>>]
        ELSE LET next == readCode(readerOf(stream, at, words), decoding)
             IN  [rest[n - 1, next.at, next.words] EXCEPT !.bytes = <<next.value>> \o @]
  IN  rest[numBytesToDecode, 0, 0]

----------------------------------------------------------------------------
(* Pairs.  Each is written as what its column and its row are past those   *)
(* predicted from the pair before: the same row and the next column, or    *)
(* column 0 of a new row.                                                  *)

writeUnary(value) == Append(zeros(value), 1)

lowBits(value, n) == [i \in 1 .. n |-> (value \div 2 ^ (i - 1)) % 2]

fromBits(bits) == FoldRight(LAMBDA bit, value : bit + 2 * value, bits, 0)

\* Slip: the stream ends with the last pair.
pairPaddingTight(numBaseBits) == 0

\* The last pair has a bit of each code at least, and numBaseBits.
pairPadding(numBaseBits) == IF numBaseBits > PeekBits - 2 THEN 0 ELSE PeekBits - 2 - numBaseBits

lowLevelCompressPairs(pairs, numBaseBits) ==
  LET predictedRow(i) == IF i = 1 THEN 0 ELSE pairs[i - 1][1]
      predictedCol(i) == IF i = 1 \/ pairs[i][1] # predictedRow(i) THEN 0 ELSE pairs[i - 1][2] + 1
      yDelta(i)       == pairs[i][1] - predictedRow(i)
      coded(i) == lengthLimitedUnaryEncodingTable[pairs[i][2] - predictedCol(i)]
                  \o writeUnary(yDelta(i) \div 2 ^ numBaseBits)
                  \o lowBits(yDelta(i), numBaseBits)
  IN  flushed(FlattenSeq([i \in DOMAIN pairs |-> coded(i)]), pairPadding(numBaseBits))

safeLengthForCompressedPairBuf(k, numPairs, numBaseBits) ==
  LET ybits == numPairs * (1 + numBaseBits) + k \div 2 ^ numBaseBits
      xbits == PeekBits * numPairs
  IN  divideLongsRoundingUp(xbits + ybits + pairPadding(numBaseBits), WordBits)

\* UnaryPeek zeros at a time, and then those before the one.
readZeros(reader, n) ==
  took(MAYBE_FILL_BITBUF(FoldLeft(LAMBDA r, z : took(MAYBE_FILL_BITBUF(r, UnaryPeek), UnaryPeek, 0),
                                  reader, zeros(n \div UnaryPeek)),
                         UnaryPeek),
       (n % UnaryPeek) + 1, n)

\* A stream in which no one follows is read to its end.
readUnary(reader) ==
  readZeros(reader, SelectInSeq(Append(SubSeq(reader.stream, reader.at + 1, Len(reader.stream)), 1),
                                LAMBDA bit : bit = 1) - 1)

readFilled(filled, n) == took(filled, n, fromBits(peek(filled, n)))

readLowBits(reader, n) == readFilled(MAYBE_FILL_BITBUF(reader, n), n)

\* The pair that lies xDelta and yDelta past the one predicted from the last.
pairFrom(last, xDelta, yDelta) ==
  <<last[1] + yDelta, (IF yDelta > 0 THEN 0 ELSE last[2] + 1) + xDelta>>

lowLevelUncompressPairs(stream, numPairsToDecode, numBaseBits) ==
  LET rest[n \in 0 .. numPairsToDecode, at \in Nat, words \in Nat, last \in Nat \X Int] ==
        IF n = 0 THEN [words |-> words, pairs |-> <<>>]
        ELSE LET x    == readCode(readerOf(stream, at, words), lengthLimitedUnaryDecodingTable)
                 high == readUnary(x)
                 low  == readLowBits(high, numBaseBits)
                 pair == pairFrom(last, x.value, high.value * 2 ^ numBaseBits + low.value)
             IN  [rest[n - 1, low.at, low.words, pair] EXCEPT !.pairs = <<pair>> \o @]
  IN  rest[numPairsToDecode, 0, 0, <<0, -1>>]
=============================================================================
