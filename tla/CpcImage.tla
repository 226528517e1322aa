------------------------------ MODULE CpcImage ------------------------------
(***************************************************************************)
(* The bytes of a cpc_sketch: what the preamble says, and the fields that  *)
(* follow it.  serialize and deserialize each decide for themselves which  *)
(* fields there are and in which order.                                    *)
(***************************************************************************)
EXTENDS Fm85Compression

when(condition, fields) == IF condition THEN fields ELSE <<>>

writeOrder(c) ==
  LET hasHip    == ~ c.mergeFlag
      hasTable  == c.compressedSurprisingValues # NULL
      hasWindow == c.compressedWindow # NULL
  IN  when(c.numCoupons > 0,
        <<"numCoupons">>
        \o when(hasTable /\ hasWindow, <<"numValues">> \o when(hasHip, <<"hip">>))
        \o when(hasTable, <<"csvLength">>)
        \o when(hasWindow, <<"cwLength">>)
        \o when(hasHip /\ ~ (hasTable /\ hasWindow), <<"hip">>)
        \o when(hasWindow, <<"window">>)
        \o when(hasTable, <<"table">>))

readOrder(hasHip, hasTable, hasWindow) ==
  when(hasTable \/ hasWindow,
    <<"numCoupons">>
    \o when(hasTable /\ hasWindow, <<"numValues">> \o when(hasHip, <<"hip">>))
    \o when(hasTable, <<"csvLength">>)
    \o when(hasWindow, <<"cwLength">>)
    \o when(hasHip /\ ~ (hasTable /\ hasWindow), <<"hip">>)
    \o when(hasWindow, <<"window">>)
    \o when(hasTable, <<"table">>))

\* The ints of the preamble: two, and those of the fields before the payload.
get_preamble_ints(c) ==
  LET bit(condition) == IF condition THEN 1 ELSE 0
      hasTable       == c.compressedSurprisingValues # NULL
      hasWindow      == c.compressedWindow # NULL
  IN  2 + IF c.numCoupons = 0 THEN 0
          ELSE 1 + 4 * bit(~ c.mergeFlag) + bit(hasTable) + bit(hasTable /\ hasWindow)
                 + bit(hasWindow)

ints(field) == CASE field = "hip" -> 4 [] field \in {"window", "table"} -> 0 [] OTHER -> 1

fieldValue(c, field) ==
  CASE field = "numCoupons" -> c.numCoupons
    [] field = "numValues"  -> c.numCompressedSurprisingValues
    [] field = "hip"        -> c.kxp
    [] field = "window"     -> c.compressedWindow
    [] field = "table"      -> c.compressedSurprisingValues
    [] field = "csvLength"  -> c.csvLength
    [] field = "cwLength"   -> c.cwLength

\* "serialized size mismatch"
sizeMismatch(c) ==
  get_preamble_ints(c) # 2 + FoldLeft(LAMBDA n, f : n + ints(f), 0, writeOrder(c))

serializeThrows(s) == fm85CompressThrows(s) \/ sizeMismatch(fm85Compress(s))

written(c, order) ==
  [preambleInts |-> get_preamble_ints(c), lgK |-> c.lgK,
   firstInterestingColumn |-> c.firstInterestingColumn, hasHip |-> ~ c.mergeFlag,
   hasTable |-> c.compressedSurprisingValues # NULL,
   hasWindow |-> c.compressedWindow # NULL,
   fields |-> [i \in DOMAIN order |-> fieldValue(c, order[i])]]

serialize(s) == LET c == fm85Compress(s) IN written(c, writeOrder(c))

\* The field of that name in the image, or the value it has by default.
fieldIn(image, order, name, default) ==
  IF Contains(order, name) THEN image.fields[SelectInSeq(order, LAMBDA f : f = name)] ELSE default

field(image, name, default) ==
  fieldIn(image, readOrder(image.hasHip, image.hasTable, image.hasWindow), name, default)

\* The compressed sketch read from an image.
readCompressed(image) ==
  [lgK |-> image.lgK, numCoupons |-> field(image, "numCoupons", 0),
   firstInterestingColumn |-> image.firstInterestingColumn,
   mergeFlag |-> ~ image.hasHip,
   kxp |-> field(image, "hip", 2 ^ (image.lgK + Columns)),
   compressedWindow |-> field(image, "window", NULL),
   cwLength |-> field(image, "cwLength", 0),
   compressedSurprisingValues |-> field(image, "table", NULL),
   numCompressedSurprisingValues |->
     IF ~ image.hasWindow THEN field(image, "numCoupons", 0) ELSE field(image, "numValues", 0),
   csvLength |-> field(image, "csvLength", 0)]

readThrows(image, c) ==
  \/ Len(image.fields) # Len(readOrder(image.hasHip, image.hasTable, image.hasWindow))
  \/ image.preambleInts # get_preamble_ints(c)
  \/ fm85UncompressThrows(c, determineCorrectOffset(c.lgK, c.numCoupons))

deserializeThrows(image) == readThrows(image, readCompressed(image))

updatable(c) == fm85Uncompress(c, determineCorrectOffset(c.lgK, c.numCoupons))

deserialize(image) == updatable(readCompressed(image))
=============================================================================
