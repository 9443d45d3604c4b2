----------------------------- MODULE StubPollModeRx ---------------------------
(* ll::bypass::StubPollModeRx (include/ll/kernel_bypass.hpp) and its user, who    *)
(* polls a packet and decodes it in place, sooner or later, as an SBE tick        *)
(* (examples/kernel_bypass/main.cpp) or, on a feed of those, as a packed tick. A  *)
(* packet view is a pointer into the one slot of the receiver, so what arrives    *)
(* between poll and decode changes it.                                            *)
EXTENDS SbeTick, SequencesExt

CONSTANTS
  SlotSize,     \* sizeof(slot_), scaled down
  Ports,        \* ports that the receiver is opened on
  Formats,      \* what a feed may consist of: "sbe", "packed"
  Rooms,        \* sizes of the buffers that ticks are encoded in
  Blocks,       \* other block lengths that the header of a packet may announce
  Cuts,         \* lengths below a whole tick at which a packet may be cut short
  MaxPackets    \* bound: packets that arrive in a behaviour

ASSUME RxAssumption ==
  /\ SlotSize \in Nat /\ SlotSize >= WireBytes
  /\ Formats \subseteq {"sbe", "packed"}
  /\ Rooms \subseteq Nat
  /\ Blocks \subseteq 1 .. SlotSize - HeaderLength
  /\ Cuts \subseteq 0 .. WireBytes - 1
  /\ MaxPackets \in Nat

VARIABLES
  format,     \* what this feed consists of
  open_, pending_, port_, len_, slot_,
  view,       \* the PacketView in the user's hands, and the packet it was made for
  arrived,    \* history: the packets [length, header] that were stored in slot_
  polled,     \* history: the numbers of the packets that poll gave out
  decoded     \* what the last decoding returned, for which view

receiver == <<open_, pending_, port_, len_, slot_>>
vars == <<format, receiver, view, arrived, polled, decoded>>

NoView == [packet |-> 0, port |-> 0, length |-> 0]

Init ==
  /\ format \in Formats
  /\ open_ = FALSE /\ pending_ = FALSE /\ port_ = 0 /\ len_ = 0
  /\ slot_ = [p \in 0 .. SlotSize - 1 |-> Byte(0, 0)]
  /\ view = NoView
  /\ arrived = <<>>
  /\ polled = <<>>
  /\ decoded = [verdict |-> "none", out |-> NoFields, packet |-> 0, newest |-> 0]

\* The tick of packet n: its fields all differ from one another and from those of
\* any other tick.
Tick(n) ==
  [instrumentId |-> 10 * n + 1, priceTicks |-> 10 * n + 2, qty |-> 10 * n + 3,
   seq |-> 10 * n + 4, tsNs |-> 10 * n + 5]

OwnHeader ==
  [blockLength |-> BlockLength, templateId |-> TemplateId,
   schemaId |-> SchemaId, version |-> SchemaVersion]

Blank(n, room) == [p \in 0 .. room - 1 |-> Byte(10 * n + 6, p)]

\* The feed's encode_tick, or encode, of the next tick into a buffer of this size.
Encoded(n, room) ==
  IF format = "sbe" THEN EncodeTick(Blank(n, room), Tick(n))
  ELSE EncodePacked(Blank(n, room), Tick(n))

\* An SBE message of another sender: a tick, perhaps in a shorter or longer block,
\* under a header that says what it is.
Wire(n, header) ==
  PutAll(Encoded(n, SlotSize).mem, 0, HeaderLayout, header)

--------------------------------------------------------------------------------

Open(port) ==
  /\ port_' = port
  /\ open_' = TRUE
  /\ UNCHANGED <<format, pending_, len_, slot_, view, arrived, polled, decoded>>

Close ==
  /\ open_
  /\ open_' = FALSE
  /\ UNCHANGED <<format, pending_, port_, len_, slot_, view, arrived, polled, decoded>>

\* inject_for_test of the first length bytes of wire, open or not: they take the
\* place of a packet that has not been polled. A longer payload than the slot is
\* dropped without a word and changes nothing.
Inject(wire, length, header) ==
  /\ Len(arrived) < MaxPackets
  /\ slot_' = [p \in DOMAIN slot_ |-> IF p < length THEN wire[p] ELSE slot_[p]]
  /\ len_' = length
  /\ pending_' = TRUE
  /\ arrived' = Append(arrived, [length |-> length, header |-> header])
  /\ UNCHANGED <<format, open_, port_, view, polled, decoded>>

\* As many bytes are sent as encode_tick returned, be it none; encode instead
\* returns false, and then nothing is sent.
Feed(room) ==
  LET e == Encoded(Len(arrived) + 1, room) IN
  /\ format = "packed" => e.written > 0
  /\ Inject(e.mem, e.written, OwnHeader)

\* A tick of the feed that is cut short.
FeedCut(length) ==
  LET e == Encoded(Len(arrived) + 1, SlotSize) IN
  /\ length < e.written
  /\ Inject(e.mem, length, OwnHeader)

\* A message of another schema, of another template, or with another block, of
\* which this many bytes arrive.
Foreign(length, header) ==
  /\ format = "sbe"
  /\ Inject(Wire(Len(arrived) + 1, header), length, header)

\* A faulty poll: the packet stays pending.
PollAgain ==
  /\ open_ /\ pending_
  /\ view' = [packet |-> Len(arrived), port |-> port_, length |-> len_]
  /\ polled' = Append(polled, Len(arrived))
  /\ UNCHANGED <<format, receiver, arrived, decoded>>

Poll ==
  /\ open_ /\ pending_
  /\ view' = [packet |-> Len(arrived), port |-> port_, length |-> len_]
  /\ polled' = Append(polled, Len(arrived))
  /\ pending_' = FALSE
  /\ UNCHANGED <<format, open_, port_, len_, slot_, arrived, decoded>>

\* Returns 0, and leaves the views in the user's array as they were.
PollNothing ==
  /\ ~open_ \/ ~pending_
  /\ UNCHANGED vars

Decode ==
  /\ view # NoView
  /\ LET result == IF format = "sbe" THEN DecodeTick(slot_, view.length)
                   ELSE DecodePacked(slot_, view.length) IN
     decoded' = [verdict |-> result.verdict, out |-> result.out,
                 packet |-> view.packet, newest |-> Len(arrived)]
  /\ UNCHANGED <<format, receiver, view, arrived, polled>>

Next ==
  \/ \E port \in Ports : Open(port)
  \/ Close
  \/ \E room \in Rooms : Feed(room)
  \/ \E length \in Cuts : FeedCut(length)
  \/ Foreign(WireBytes, [OwnHeader EXCEPT !.schemaId = 0])
  \/ Foreign(WireBytes, [OwnHeader EXCEPT !.templateId = 0])
  \/ \E block \in Blocks :
       \E length \in {WireBytes, HeaderLength + block} :
         /\ length <= HeaderLength + block
         /\ Foreign(length, [OwnHeader EXCEPT !.blockLength = block])
  \/ Poll
  \/ PollNothing
  \/ Decode

Spec == Init /\ [][Next]_vars

--------------------------------------------------------------------------------
(* Properties *)

\* What a decoder of this feed has to take: all that the packet announces is there.
Whole(n) ==
  LET packet == arrived[n] IN
  IF format = "packed" THEN packet.length >= PackedBytes
  ELSE /\ packet.header.schemaId = SchemaId
       /\ packet.header.templateId = TemplateId
       /\ packet.length >= HeaderLength + packet.header.blockLength

Fresh == decoded.verdict # "none" /\ decoded.packet = decoded.newest

\* Packets come out in the order of their arrival and at most once each, across
\* any sequence of open, close and poll; the ones in between were overwritten.
PolledInOrderOnce ==
  \A i \in 1 .. Len(polled) - 1 : polled[i] < polled[i + 1]

\* A view that is decoded before the next packet arrives is taken exactly if the
\* packet is whole: nothing that earlier packets left in the slot makes up for what
\* is cut off, and a buffer that was too small to encode in sends nothing that
\* passes for a tick.
FreshVerdictExact ==
  Fresh => (decoded.verdict = "true" <=> Whole(decoded.packet))

\* Every field that such a view gives is the one that was encoded, of this very
\* packet, but for the fields that lie beyond a shorter block that its header
\* announces: those are read from behind the packet.
FreshFieldsExact ==
  Fresh /\ decoded.verdict = "true" =>
    \A f \in DOMAIN decoded.out :
      \/ decoded.out[f] = Tick(decoded.packet)[f]
      \/ /\ format = "sbe"
         /\ arrived[decoded.packet].header.blockLength < TickLayout[f].offset + TickLayout[f].size

\* A view that is decoded late shows the tick that has taken the place of its own,
\* never half of each, as long as no packet arrives that is cut short or announces
\* a shorter block.
LateDecodeWhole ==
  /\ decoded.verdict = "true"
  /\ \A n \in 1 .. decoded.newest :
       arrived[n].length >= IF format = "sbe" THEN WireBytes ELSE PackedBytes
  => \A f \in DOMAIN decoded.out : decoded.out[f] = Tick(decoded.newest)[f]

\* sbe_codec.hpp:43 on decode_tick: "Returns false on short buffer".
ShortBufferRefused ==
  Fresh /\ format = "sbe" /\ arrived[decoded.packet].length < WireBytes
  => decoded.verdict = "false"

================================================================================
