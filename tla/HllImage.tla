------------------------------ MODULE HllImage ------------------------------
(***************************************************************************)
(* The serialized images of an HLL sketch: what each mode and target type  *)
(* writes, compact or updatable, how many bytes that is and is said to be, *)
(* and what the two readers, of a stream and of a byte array, take from it *)
(* and make of it.                                                         *)
(*                                                                         *)
(* An image is its header fields, the byte array of the registers, and the *)
(* ints that follow: coupons, or the exceptions of an HLL_4 array.  The    *)
(* three doubles of the estimator are counted and not looked at.           *)
(***************************************************************************)
EXTENDS HllImpl

CONSTANTS
  AuxToken,   \* AUX_TOKEN (15)
  LgAuxInit   \* LG_AUX_ARR_INTS[lgConfigK]

ASSUME HllImageAssumption ==
  AuxToken \in Nat \ {0} /\ LgAuxInit \in Nat /\ Powers(LgAuxInit) /\ Powers(6)

TgtHllTypes == {"HLL_4", "HLL_6", "HLL_8"}

HeaderBytes == [LIST |-> 8, SET |-> 12, HLL |-> 40]
PreInts     == [LIST |-> 2, SET |-> 3, HLL |-> 10]

larger(a, b) == IF a >= b THEN a ELSE b

----------------------------------------------------------------------------
(* The three forms of the registers.  Hll4Array shows that nibbles, curMin  *)
(* and exceptions are functions of the registers; HLL_6 and HLL_8 leave     *)
(* curMin at zero.                                                          *)

curMinOf(k, type) ==
  IF type = "HLL_4" THEN Min({k.reg[s] : s \in SlotsOf(k.lgK)}) ELSE 0

exceptions(k, type) ==
  IF type = "HLL_4"
  THEN Entries([s \in SlotsOf(k.lgK) |->
                  IF k.reg[s] - curMinOf(k, type) >= AuxToken THEN <<s, k.reg[s]>> ELSE EMPTY],
               k.lgK)
  ELSE <<>>

\* AuxHashMap is about this table: how it got here does not matter to its size.
lgAux(n) == larger(LgAuxInit, lgFor(n))

auxTable(entries, lg) ==
  FoldLeft(LAMBDA t, e : [t EXCEPT ![findCell(t, lg, e[1], LAMBDA c : c[1] = e[1])] = e],
           EmptyTable(lg), entries)

hllByteArrBytes(lgK, type) ==
  CASE type = "HLL_4" -> 2 ^ (lgK - 1)
    [] type = "HLL_6" -> (3 * 2 ^ lgK) \div 4 + 1
    [] type = "HLL_8" -> 2 ^ lgK

\* Hll6Array: the six bits of a slot, in a little-endian pair of bytes.
twoBytes(b, s) == 256 * b[(6 * s) \div 8 + 1] + b[(6 * s) \div 8]
shift(s)       == 2 ^ ((6 * s) % 8)
getSlot6(b, s) == (twoBytes(b, s) \div shift(s)) % 64

putSlot6(b, s, v) ==
  LET insert == twoBytes(b, s) + ((v % 64) - getSlot6(b, s)) * shift(s)
  IN  [b EXCEPT ![(6 * s) \div 8] = insert % 256, ![(6 * s) \div 8 + 1] = insert \div 256]

hllByteArr(k, type) ==
  CASE type = "HLL_4" ->
         [s \in SlotsOf(k.lgK) |->
            IF k.reg[s] - curMinOf(k, type) >= AuxToken THEN AuxToken
            ELSE k.reg[s] - curMinOf(k, type)]
    [] type = "HLL_6" ->
         FoldLeft(LAMBDA b, p : putSlot6(b, p[1], p[2]),
                  [i \in 0 .. hllByteArrBytes(k.lgK, type) - 1 |-> 0], pairs(k))
    [] type = "HLL_8" -> k.reg

----------------------------------------------------------------------------
(* serialize, with the lgArr, empty, compact, out-of-order and mode bytes. *)

cellSeq(arr, lg) == [i \in 1 .. 2 ^ lg |-> arr[i - 1]]

serializeCoupons(k, type, compact) ==
  [preInts |-> PreInts[k.mode], type |-> type, lgK |-> k.lgK, lgArr |-> k.lg,
   emptyFlag |-> isEmpty(k), compactFlag |-> compact, oooFlag |-> k.ooo,
   count |-> k.count, curMin |-> 0, array |-> <<>>,
   ints |-> IF compact THEN pairs(k) ELSE cellSeq(k.arr, k.lg)]

\* An updatable HLL_4 image without an exception map still has room for one.
serializeHll(k, type, compact) ==
  LET aux == exceptions(k, type)
      lg  == lgAux(Len(aux))
  IN  [preInts |-> PreInts[k.mode], type |-> type, lgK |-> k.lgK,
       lgArr |-> IF aux = <<>> THEN 0 ELSE lg,
       emptyFlag |-> isEmpty(k), compactFlag |-> compact, oooFlag |-> k.ooo,
       count |-> Len(aux), curMin |-> curMinOf(k, type), array |-> hllByteArr(k, type),
       ints |-> IF compact THEN Entries(auxTable(aux, lg), lg)
                ELSE IF type = "HLL_4" THEN cellSeq(auxTable(aux, lg), lg)
                ELSE <<>>]

serialize(k, type, compact) ==
  IF k.mode = "HLL" THEN serializeHll(k, type, compact)
  ELSE serializeCoupons(k, type, compact)

(* What the sketch says of the sizes *)

getCompactSerializationBytes(k, type) ==
  HeaderBytes[k.mode] +
  (IF k.mode = "HLL"
   THEN hllByteArrBytes(k.lgK, type) + 4 * Len(exceptions(k, type))
   ELSE 4 * k.count)

getUpdatableSerializationBytes(k, type) ==
  HeaderBytes[k.mode] +
  (CASE k.mode # "HLL" -> 4 * 2 ^ k.lg
     [] k.mode = "HLL" /\ type = "HLL_4" ->
          hllByteArrBytes(k.lgK, type) + 4 * 2 ^ lgAux(Len(exceptions(k, type)))
     [] OTHER -> hllByteArrBytes(k.lgK, type))

getMaxUpdatableSerializationBytes(lgK, type) ==
  HeaderBytes["HLL"] + hllByteArrBytes(lgK, type) +
  (IF type = "HLL_4" THEN 4 * 2 ^ LgAuxInit ELSE 0)

----------------------------------------------------------------------------
(* deserialize: the number of preInts selects the reader. *)

modeOf(im) == CHOOSE mode \in {"LIST", "SET", "HLL"} : PreInts[mode] = im.preInts

setLg(im) == IF im.lgArr < LgInitSet THEN larger(LgInitSet, lgFor(im.count)) ELSE im.lgArr

\* The number of ints that the reader takes.
\* Slip: the stream reader too stops after the valid coupons of a list.
intsReadOfValid(im, stream) ==
  CASE modeOf(im) = "HLL" ->
         IF im.count = 0 THEN 0 ELSE IF im.compactFlag THEN im.count ELSE 2 ^ im.lgArr
    [] modeOf(im) = "LIST" -> im.count
    [] modeOf(im) = "SET" -> IF im.compactFlag \/ ~ stream THEN im.count ELSE 2 ^ setLg(im)

intsRead(im, stream) ==
  CASE modeOf(im) = "HLL" ->
         IF im.count = 0 THEN 0 ELSE IF im.compactFlag THEN im.count ELSE 2 ^ im.lgArr
    [] modeOf(im) = "LIST" ->
         IF im.emptyFlag THEN 0
         ELSE IF im.compactFlag \/ ~ stream THEN im.count ELSE 2 ^ LgList
    [] modeOf(im) = "SET" -> IF im.compactFlag \/ ~ stream THEN im.count ELSE 2 ^ setLg(im)

bytesOf(im, ints) ==
  HeaderBytes[modeOf(im)] + 4 * ints
    + (IF modeOf(im) = "HLL" THEN hllByteArrBytes(im.lgK, im.type) ELSE 0)

\* mustAdd throws at a slot that is there, the end at a wrong count.
deserializeThrows(im, stream) ==
  /\ modeOf(im) = "HLL"
  /\ LET aux == valid(SubSeq(im.ints, 1, intsRead(im, stream)))
     IN  Len(aux) # im.count \/ Cardinality({aux[i][1] : i \in DOMAIN aux}) # Len(aux)

\* The registers that the array and its exceptions stand for.
registers(im, aux) ==
  [s \in SlotsOf(im.lgK) |->
     CASE im.type = "HLL_6" -> getSlot6(im.array, s)
       [] im.type = "HLL_4" /\ im.array[s] = AuxToken ->
            (CHOOSE e \in Range(aux) : e[1] % (2 ^ im.lgK) = s)[2]
       [] OTHER -> im.array[s] + im.curMin]

\* The reader's array: the ints read, then the cells that it leaves alone.
filledArr(lg, ints, rest) ==
  [i \in Cells(lg) |-> IF i < Len(ints) THEN ints[i + 1] ELSE rest]

\* The sketch read back.  rest is what an array that is not written to holds.
\* A compact set is filled by couponUpdate, from the initial size on, whose
\* result, promoted or not, is ignored.
deserialized(im, stream, rest) ==
  LET ints == SubSeq(im.ints, 1, intsRead(im, stream))
  IN  CASE modeOf(im) = "LIST" ->
             [newList(im.lgK) EXCEPT !.arr = filledArr(LgList, ints, EMPTY),
                                     !.count = im.count, !.ooo = im.oooFlag]
        [] modeOf(im) = "SET" /\ im.compactFlag ->
             FoldLeft(setInsert, newSet(im.lgK), ints)
        [] modeOf(im) = "SET" /\ ~ im.compactFlag ->
             [newSet(im.lgK) EXCEPT !.lg = setLg(im), !.count = im.count,
                                    !.arr = filledArr(setLg(im), ints, rest)]
        [] modeOf(im) = "HLL" ->
             [newHll(im.lgK) EXCEPT !.reg = registers(im, valid(ints)),
                                    !.ooo = im.oooFlag]
=============================================================================
