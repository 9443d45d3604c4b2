-------------------------------- MODULE SbeTick -------------------------------
(* encode_tick and decode_tick (include/ll/sbe_codec.hpp) on the generated        *)
(* flyweights market::sbe::MessageHeader and market::sbe::Tick, and the packed    *)
(* tick (include/ll/sbe_style.hpp). Memory is a function from positions to bytes, *)
(* and a byte remembers which byte of which value it is, so that values cut in    *)
(* half or taken from the wrong place show.                                       *)
EXTENDS Integers, FiniteSetsExt

Byte(v, i) == IF v = 0 THEN <<0, 0>> ELSE <<v, i>>
Garbled == -1

\* The setters and getters of the flyweights: a memcpy of a field to or from
\* mem + at + offset.
Put(mem, at, field, v) ==
  [p \in DOMAIN mem |->
     LET i == p - (at + field.offset) IN
     IF i \in 0 .. field.size - 1 THEN Byte(v, i) ELSE mem[p]]

Get(mem, at, field) ==
  LET v == mem[at + field.offset][1] IN
  IF \A i \in 0 .. field.size - 1 : mem[at + field.offset + i] = Byte(v, i)
  THEN v ELSE Garbled

\* The fields of the flyweights. Values of the whole width go in and out: the
\* setters and getters look at no minimum, maximum, null value or version.
BlockLengthField == [offset |-> 0, size |-> 2]
TemplateIdField == [offset |-> 2, size |-> 2]
SchemaIdField == [offset |-> 4, size |-> 2]
VersionField == [offset |-> 6, size |-> 2]

HeaderLayout ==
  [blockLength |-> BlockLengthField, templateId |-> TemplateIdField,
   schemaId    |-> SchemaIdField,    version    |-> VersionField]

InstrumentIdField == [offset |-> 0, size |-> 4]
PriceTicksField == [offset |-> 4, size |-> 4]
QtyField == [offset |-> 8, size |-> 4]

\* A faulty field: seq overlaps the second half of qty.
SeqFieldInQty == [offset |-> 10, size |-> 4]

SeqField == [offset |-> 12, size |-> 4]
TsNsField == [offset |-> 16, size |-> 8]

TickLayout ==
  [instrumentId |-> InstrumentIdField, priceTicks |-> PriceTicksField,
   qty |-> QtyField, seq |-> SeqField, tsNs |-> TsNsField]

HeaderLength == 8
BlockLength == 24
TemplateId == 1
SchemaId == 77
SchemaVersion == 0
WireBytes == HeaderLength + BlockLength

--------------------------------------------------------------------------------

\* The chained setters: one after the other, in an order that does not matter as
\* the fields do not overlap.
PutAll(mem, at, layout, values) ==
  FoldSet(LAMBDA f, m : Put(m, at, layout[f], values[f]), mem, DOMAIN values)

ApplyHeader(mem) ==
  PutAll(mem, 0, HeaderLayout,
         [blockLength |-> BlockLength, templateId |-> TemplateId,
          schemaId |-> SchemaId, version |-> SchemaVersion])

\* encode_tick into a buffer of the positions of mem: what it returns and leaves.
EncodeTick(mem, values) ==
  IF Cardinality(DOMAIN mem) < WireBytes THEN [written |-> 0, mem |-> mem]
  ELSE [written |-> WireBytes,
        mem |-> PutAll(ApplyHeader(mem), HeaderLength, TickLayout, values)]

--------------------------------------------------------------------------------

Fields(mem, at, layout) == [f \in DOMAIN layout |-> Get(mem, at, layout[f])]

NoFields == [f \in DOMAIN TickLayout |-> 0]

\* A faulty wrapForDecode: the block may end where the buffer, counted from the
\* start of the block, does.
BlockFitsBody(mem, length) == Get(mem, 0, HeaderLayout.blockLength) <= length

\* wrapForDecode holds the end of the block that the header announces against the
\* length of the buffer. Nothing compares that block with the fields that are read.
BlockFits(mem, length) ==
  HeaderLength + Get(mem, 0, HeaderLayout.blockLength) <= length

\* decode_tick of the first length bytes of mem.
DecodeTick(mem, length) ==
  IF length < HeaderLength
     \/ Get(mem, 0, HeaderLayout.schemaId) # SchemaId
     \/ Get(mem, 0, HeaderLayout.templateId) # TemplateId
  THEN [verdict |-> "false", out |-> NoFields]
  ELSE IF ~BlockFits(mem, length) THEN [verdict |-> "throws", out |-> NoFields]
  ELSE [verdict |-> "true", out |-> Fields(mem, HeaderLength, TickLayout)]

--------------------------------------------------------------------------------
(* The packed tick of include/ll/sbe_style.hpp: the same values but the last, and  *)
(* no header.                                                                      *)

PackedLayout ==
  [instrumentId |-> [offset |-> 0, size |-> 4],
   priceTicks   |-> [offset |-> 4, size |-> 4],
   qty          |-> [offset |-> 8, size |-> 4],
   seq          |-> [offset |-> 12, size |-> 4]]

PackedBytes == 16

\* encode: a memcpy of the whole struct, or false and nothing.
EncodePacked(mem, values) ==
  IF Cardinality(DOMAIN mem) < PackedBytes THEN [written |-> 0, mem |-> mem]
  ELSE [written |-> PackedBytes,
        mem |-> PutAll(mem, 0, PackedLayout,
                       [f \in DOMAIN PackedLayout |-> values[f]])]

\* decode_copy, or the fields read through the pointer of decode_view.
DecodePacked(mem, length) ==
  IF length < PackedBytes THEN [verdict |-> "false", out |-> NoFields]
  ELSE [verdict |-> "true", out |-> Fields(mem, 0, PackedLayout)]

================================================================================
