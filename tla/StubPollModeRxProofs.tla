-------------------------- MODULE StubPollModeRxProofs -------------------------
(* Proofs about StubPollModeRx and the codecs for any feed, slot, ports, lengths   *)
(* and number of packets: the order of polls first, then what decoding returns.    *)
EXTENDS StubPollModeRx, Arithmetic, SequenceTheorems, TLAPS

--------------------------------------------------------------------------------
(* The order of polls                                                              *)

\* What makes the order inductive: polls have reached the latest packet, and have not
\* yet reached a packet that is pending.
PollsBehindArrivals ==
  /\ \E S : arrived \in Seq(S)
  /\ polled \in Seq(Nat)
  /\ \A i \in 1..Len(polled) : polled[i] <= Len(arrived)
  /\ pending_ => \A i \in 1..Len(polled) : polled[i] < Len(arrived)

IInv == PollsBehindArrivals /\ PolledInOrderOnce

\* A history that has any elements has one more after an event, whatever it is.
LEMMA OneMore ==
  ASSUME NEW s, NEW e, \E S : s \in Seq(S)
  PROVE  (\E S : Append(s, e) \in Seq(S)) /\ Len(Append(s, e)) = Len(s) + 1 /\ Len(s) \in Nat
<1>1. PICK S : s \in Seq(S)
  OBVIOUS
<1>2. s \in Seq(S \union {e})
  BY <1>1
<1>3. Append(s, e) \in Seq(S \union {e}) /\ Len(Append(s, e)) = Len(s) + 1 /\ Len(s) \in Nat
  BY <1>2, AppendProperties
<1>4. QED
  BY <1>3

\* A packet that arrives is newer than all that was polled.
LEMMA InjectStep ==
  ASSUME IInv, NEW wire, NEW length, NEW header, Inject(wire, length, header)
  PROVE  IInv'
<1>1. /\ arrived' = Append(arrived, [length |-> length, header |-> header])
      /\ polled' = polled
  BY DEF Inject
<1>2. (\E S : arrived' \in Seq(S)) /\ Len(arrived') = Len(arrived) + 1 /\ Len(arrived) \in Nat
  BY <1>1, OneMore DEF IInv, PollsBehindArrivals
<1>3. polled \in Seq(Nat) /\ \A i \in 1..Len(polled) : polled[i] \in Nat
  BY DEF IInv, PollsBehindArrivals
<1>4. \A i \in 1..Len(polled) : polled[i] < Len(arrived')
  BY <1>2, <1>3 DEF IInv, PollsBehindArrivals
<1>5. PollsBehindArrivals'
  BY <1>1, <1>2, <1>3, <1>4 DEF PollsBehindArrivals
<1>6. PolledInOrderOnce'
  BY <1>1 DEF IInv, PolledInOrderOnce
<1>7. QED
  BY <1>5, <1>6 DEF IInv

\* A poll gives out the pending packet, and then none is pending.
LEMMA PollStep == IInv /\ Poll => IInv'
<1> SUFFICES ASSUME IInv, Poll PROVE IInv'
  OBVIOUS
<1>1. /\ pending_ /\ ~pending_' /\ arrived' = arrived
      /\ polled' = Append(polled, Len(arrived))
  BY DEF Poll
<1>2. polled \in Seq(Nat) /\ Len(polled) \in Nat /\ Len(arrived) \in Nat
  BY DEF IInv, PollsBehindArrivals
<1>3. /\ polled' \in Seq(Nat) /\ Len(polled') = Len(polled) + 1
      /\ \A i \in 1..Len(polled) : polled'[i] = polled[i]
      /\ polled'[Len(polled) + 1] = Len(arrived)
  BY <1>1, <1>2, AppendProperties
<1>4. \A i \in 1..Len(polled) : polled[i] < Len(arrived)
  BY <1>1 DEF IInv, PollsBehindArrivals
<1>5. PollsBehindArrivals'
  <2>1. \A i \in 1..Len(polled') : polled'[i] <= Len(arrived)
    <3>1. ASSUME NEW i \in 1..Len(polled') PROVE polled'[i] <= Len(arrived)
      <4>1. CASE i = Len(polled) + 1
        BY <1>2, <1>3, <4>1
      <4>2. CASE i \in 1..Len(polled)
        BY <1>2, <1>3, <4>2 DEF IInv, PollsBehindArrivals
      <4>3. QED
        BY <1>2, <1>3, <4>1, <4>2
    <3>2. QED
      BY <3>1
  <2>2. QED
    BY <1>1, <1>3, <2>1 DEF IInv, PollsBehindArrivals
<1>6. PolledInOrderOnce'
  <2>1. ASSUME NEW i \in 1 .. Len(polled') - 1 PROVE polled'[i] < polled'[i + 1]
    <3>1. CASE i = Len(polled)
      BY <1>2, <1>3, <1>4, <3>1
    <3>2. CASE i \in 1 .. Len(polled) - 1
      BY <1>2, <1>3, <3>2 DEF IInv, PolledInOrderOnce
    <3>3. QED
      BY <1>2, <1>3, <3>1, <3>2
  <2>2. QED
    BY <2>1 DEF PolledInOrderOnce
<1>7. QED
  BY <1>5, <1>6 DEF IInv

\* Opening, closing, decoding and polling in vain leave both histories alone.
LEMMA OtherStep ==
  IInv /\ (Close \/ PollNothing \/ Decode \/ (\E port \in Ports : Open(port)) \/ UNCHANGED vars)
    => IInv'
<1> SUFFICES ASSUME IInv, arrived' = arrived, polled' = polled, pending_' = pending_
             PROVE  IInv'
  BY DEF Close, PollNothing, Decode, Open, vars, receiver
<1>1. QED
  BY DEF IInv, PollsBehindArrivals, PolledInOrderOnce

\* Whatever a feed sends, and at any length, is an injection.
LEMMA NextInv == IInv /\ [Next]_vars => IInv'
<1> SUFFICES ASSUME IInv, [Next]_vars PROVE IInv'
  OBVIOUS
<1>1. ASSUME NEW room \in Rooms, Feed(room) PROVE IInv'
  BY <1>1, InjectStep DEF Feed
<1>2. ASSUME NEW length \in Cuts, FeedCut(length) PROVE IInv'
  BY <1>2, InjectStep DEF FeedCut
<1>3. ASSUME NEW length, NEW header, Foreign(length, header) PROVE IInv'
  BY <1>3, InjectStep DEF Foreign
<1>4. CASE Poll
  BY <1>4, PollStep
<1>5. CASE \/ Close \/ PollNothing \/ Decode \/ UNCHANGED vars
           \/ \E port \in Ports : Open(port)
  BY <1>5, OtherStep
<1>6. QED
  BY <1>1, <1>2, <1>3, <1>4, <1>5 DEF Next

\* poll gives out packets in the order in which they arrived and none of them twice,
\* over any sequence of open, close, injections and polls.
THEOREM InOrderOnce == Spec => []PolledInOrderOnce
<1>1. Init => IInv
  <2>1. ASSUME Init PROVE arrived \in Seq({}) /\ polled \in Seq(Nat) /\ Len(polled) = 0
    BY <2>1 DEF Init
  <2>2. QED
    BY <2>1 DEF IInv, PollsBehindArrivals, PolledInOrderOnce
<1>2. IInv => PolledInOrderOnce
  BY DEF IInv
<1>3. QED
  BY <1>1, <1>2, NextInv, PTL DEF Spec

--------------------------------------------------------------------------------
(* What the setters leave in memory                                                *)

\* Position p is a byte of field f of a flyweight at this address.
InField(at, layout, f, p) == p - (at + layout[f].offset) \in 0 .. layout[f].size - 1

\* The function that PutAll applies to the set of all fields.
Filled(mem, at, layout, values, S) ==
  CHOOSE g : g = [s \in SUBSET S |->
                    IF s = {} THEN mem
                    ELSE Put(g[s \ {Chosen(s)}], at, layout[Chosen(s)], values[Chosen(s)])]

LEMMA PutAllIsFilled ==
  \A mem, at, layout, values :
    PutAll(mem, at, layout, values) = Filled(mem, at, layout, values, DOMAIN values)[DOMAIN values]
BY DEF PutAll, FoldSet, MapThenFoldSet, Filled, Chosen

LEMMA FilledStep ==
  ASSUME NEW D, NEW mem, mem = [p \in D |-> mem[p]], NEW at, NEW layout, NEW values,
         NEW S, IsFiniteSet(S)
  PROVE  LET F == Filled(mem, at, layout, values, S) IN
         /\ F[{}] = mem
         /\ \A s \in (SUBSET S) \ {{}} :
              F[s] = Put(F[s \ {Chosen(s)}], at, layout[Chosen(s)], values[Chosen(s)])
<1> DEFINE B == {mem[p] : p \in D} \union {Byte(values[f], i) : f \in S, i \in Int}
           A == [D -> B]
           h == [fm \in S \X A |-> Put(fm[2], at, layout[fm[1]], values[fm[1]])]
           F == Filled(mem, at, layout, values, S)
<1>1. mem \in A
  OBVIOUS
<1>2. ASSUME NEW f \in S, NEW m \in A PROVE Put(m, at, layout[f], values[f]) \in A
  <2> DEFINE o == at + layout[f].offset
             z == layout[f].size - 1
  <2>1. \A i : i \in 0..z => i \in Int
    OBVIOUS
  <2>2. Put(m, at, layout[f], values[f])
          = [p \in D |-> IF p - o \in 0..z THEN Byte(values[f], p - o) ELSE m[p]]
    BY DEF Put
  <2> HIDE DEF o, z
  <2>3. \A p \in D : (IF p - o \in 0..z THEN Byte(values[f], p - o) ELSE m[p]) \in B
    BY <2>1
  <2> HIDE DEF B
  <2>4. QED
    BY <2>2, <2>3
<1>3. h \in [S \X A -> A] /\ \A f \in S : \A m \in A : h[<<f, m>>] = Put(m, at, layout[f], values[f])
  <2> HIDE DEF A
  <2>1. QED
    BY <1>2
<1> HIDE DEF A, h
<1>4. PICK G \in [SUBSET S -> A] : IsFold(G, S, A, mem, h)
  BY <1>1, <1>3, FoldExists
<1>5. ASSUME NEW s \in SUBSET S, s # {}
      PROVE  G[s] = Put(G[s \ {Chosen(s)}], at, layout[Chosen(s)], values[Chosen(s)])
  <2>1. Chosen(s) \in S /\ s \ {Chosen(s)} \in SUBSET S
    BY <1>5, ChosenMember
  <2>2. G[s] = h[<<Chosen(s), G[s \ {Chosen(s)}]>>]
    BY <1>4, <1>5, <2>1 DEF IsFold
  <2>3. QED
    BY <1>3, <2>1, <2>2
<1>6. G = [s \in SUBSET S |->
             IF s = {} THEN mem
             ELSE Put(G[s \ {Chosen(s)}], at, layout[Chosen(s)], values[Chosen(s)])]
  <2>1. G[{}] = mem
    BY <1>4 DEF IsFold
  <2>2. QED
    BY <1>5, <2>1
<1>7. F = [s \in SUBSET S |->
             IF s = {} THEN mem
             ELSE Put(F[s \ {Chosen(s)}], at, layout[Chosen(s)], values[Chosen(s)])]
  BY <1>6 DEF Filled
<1> HIDE DEF F
<1>8. F[{}] = mem
  BY <1>7
<1>9. \A s \in (SUBSET S) \ {{}} :
        F[s] = Put(F[s \ {Chosen(s)}], at, layout[Chosen(s)], values[Chosen(s)])
  BY <1>7
<1>10. QED
  BY <1>8, <1>9 DEF F

\* The fields that were set, wherever they do not overlap, and the rest as it was.
Bytes(m, D, mem, at, layout, values, s) ==
  /\ m = [p \in D |-> m[p]]
  /\ \A p \in D : /\ \A f \in s : InField(at, layout, f, p) =>
                       m[p] = Byte(values[f], p - (at + layout[f].offset))
                  /\ (\A f \in s : ~ InField(at, layout, f, p)) => m[p] = mem[p]

LEMMA PutAllBytes ==
  ASSUME NEW D, NEW mem, mem = [p \in D |-> mem[p]], NEW at, NEW layout, NEW values,
         IsFiniteSet(DOMAIN values),
         \A f, g \in DOMAIN values : \A p \in D :
           InField(at, layout, f, p) /\ InField(at, layout, g, p) => f = g
  PROVE  Bytes(PutAll(mem, at, layout, values), D, mem, at, layout, values, DOMAIN values)
<1> DEFINE S == DOMAIN values
           F == Filled(mem, at, layout, values, S)
           P == {s \in SUBSET S : Bytes(F[s], D, mem, at, layout, values, s)}
<1>1. /\ F[{}] = mem
      /\ \A s \in (SUBSET S) \ {{}} :
           F[s] = Put(F[s \ {Chosen(s)}], at, layout[Chosen(s)], values[Chosen(s)])
  BY FilledStep
<1> HIDE DEF F
<1>2. {} \in P
  BY <1>1 DEF Bytes
<1>3. ASSUME NEW s \in (SUBSET S) \ {{}}, s \ {Chosen(s)} \in P PROVE s \in P
  <2> DEFINE c == Chosen(s)
             m == F[s \ {c}]
  <2>1. c \in s /\ c \in S /\ Bytes(m, D, mem, at, layout, values, s \ {c})
    BY <1>3, ChosenMember
  <2>2. F[s] = Put(m, at, layout[c], values[c])
    BY <1>1
  <2>3. DOMAIN m = D
    BY <2>1 DEF Bytes
  <2>4. F[s] = [p \in D |-> IF InField(at, layout, c, p)
                             THEN Byte(values[c], p - (at + layout[c].offset)) ELSE m[p]]
    BY <2>2, <2>3 DEF Put, InField
  <2> HIDE DEF c, m
  <2>5. Bytes(F[s], D, mem, at, layout, values, s)
    <3>1. F[s] = [p \in D |-> F[s][p]]
      BY <2>4
    <3>2. ASSUME NEW p \in D, NEW f \in s, InField(at, layout, f, p)
          PROVE  F[s][p] = Byte(values[f], p - (at + layout[f].offset))
      <4>1. CASE f = c
        BY <2>4, <3>2, <4>1
      <4>2. CASE f # c
        <5>1. ~ InField(at, layout, c, p)
          BY <2>1, <3>2, <4>2
        <5>2. F[s][p] = m[p] /\ f \in s \ {c}
          BY <2>4, <4>2, <5>1
        <5>3. QED
          BY <2>1, <3>2, <5>2 DEF Bytes
      <4>3. QED
        BY <4>1, <4>2
    <3>3. ASSUME NEW p \in D, \A f \in s : ~ InField(at, layout, f, p)
          PROVE  F[s][p] = mem[p]
      BY <2>1, <2>4, <3>3 DEF Bytes
    <3>4. QED
      BY <3>1, <3>2, <3>3 DEF Bytes
  <2>6. QED
    BY <2>5
<1>4. S \in P
  <2> HIDE DEF P, S
  <2>1. IsFiniteSet(S)
    BY DEF S
  <2>2. QED
    BY <1>2, <1>3, <2>1, ChosenInduction
<1>5. QED
  BY <1>4, PutAllIsFilled DEF F

--------------------------------------------------------------------------------
(* The layouts                                                                     *)

\* Fields that do not overlap and lie within this many bytes.
Laid(layout, bytes) ==
  /\ IsFiniteSet(DOMAIN layout)
  /\ \A f \in DOMAIN layout : /\ layout[f].offset \in Nat /\ layout[f].size \in Nat \ {0}
                              /\ layout[f].offset + layout[f].size <= bytes
  /\ \A f, g \in DOMAIN layout : f # g =>
       \/ layout[f].offset + layout[f].size <= layout[g].offset
       \/ layout[g].offset + layout[g].size <= layout[f].offset

LEMMA FieldNames ==
  /\ DOMAIN HeaderLayout = {"blockLength", "templateId", "schemaId", "version"}
  /\ DOMAIN TickLayout = {"instrumentId", "priceTicks", "qty", "seq", "tsNs"}
  /\ DOMAIN PackedLayout = {"instrumentId", "priceTicks", "qty", "seq"}
  /\ IsFiniteSet(DOMAIN HeaderLayout)
  /\ IsFiniteSet(DOMAIN TickLayout)
  /\ IsFiniteSet(DOMAIN PackedLayout)
<1>1. /\ DOMAIN HeaderLayout = {"blockLength", "templateId", "schemaId", "version"}
      /\ DOMAIN TickLayout = {"instrumentId", "priceTicks", "qty", "seq", "tsNs"}
      /\ DOMAIN PackedLayout = {"instrumentId", "priceTicks", "qty", "seq"}
  BY DEF HeaderLayout, TickLayout, PackedLayout
<1>2. ASSUME NEW a, NEW b, NEW c, NEW d, NEW e
      PROVE  IsFiniteSet({a, b, c, d}) /\ IsFiniteSet({a, b, c, d, e})
  <2>1. IsFiniteSet({a, b, c, d})
    <3>1. IsFiniteSet({a})
      BY FS_Singleton
    <3>2. IsFiniteSet({a} \union {b})
      BY <3>1, FS_AddElement
    <3>3. IsFiniteSet(({a} \union {b}) \union {c})
      BY <3>2, FS_AddElement
    <3>4. IsFiniteSet((({a} \union {b}) \union {c}) \union {d})
      BY <3>3, FS_AddElement
    <3>5. (({a} \union {b}) \union {c}) \union {d} = {a, b, c, d}
      OBVIOUS
    <3>6. QED
      BY <3>4, <3>5
  <2>2. IsFiniteSet({a, b, c, d} \union {e})
    BY <2>1, FS_AddElement
  <2>3. {a, b, c, d} \union {e} = {a, b, c, d, e}
    OBVIOUS
  <2>4. QED
    BY <2>1, <2>2, <2>3
<1>3. /\ IsFiniteSet({"blockLength", "templateId", "schemaId", "version"})
      /\ IsFiniteSet({"instrumentId", "priceTicks", "qty", "seq", "tsNs"})
      /\ IsFiniteSet({"instrumentId", "priceTicks", "qty", "seq"})
  BY <1>2
<1>4. QED
  BY <1>1, <1>3

LEMMA HeaderLaid == Laid(HeaderLayout, HeaderLength)
<1>1. /\ HeaderLayout["blockLength"] = [offset |-> 0, size |-> 2]
      /\ HeaderLayout["templateId"] = [offset |-> 2, size |-> 2]
      /\ HeaderLayout["schemaId"] = [offset |-> 4, size |-> 2]
      /\ HeaderLayout["version"] = [offset |-> 6, size |-> 2]
  BY DEF HeaderLayout, BlockLengthField, TemplateIdField, SchemaIdField, VersionField
<1>2. QED
  BY <1>1, FieldNames DEF Laid, HeaderLength

LEMMA TickLaid == Laid(TickLayout, BlockLength)
<1>1. /\ TickLayout["instrumentId"] = [offset |-> 0, size |-> 4]
      /\ TickLayout["priceTicks"] = [offset |-> 4, size |-> 4]
      /\ TickLayout["qty"] = [offset |-> 8, size |-> 4]
      /\ TickLayout["seq"] = [offset |-> 12, size |-> 4]
      /\ TickLayout["tsNs"] = [offset |-> 16, size |-> 8]
  BY DEF TickLayout, InstrumentIdField, PriceTicksField, QtyField, SeqField, TsNsField
<1>2. QED
  BY <1>1, FieldNames DEF Laid, BlockLength

LEMMA PackedLaid == Laid(PackedLayout, PackedBytes)
<1>1. /\ PackedLayout["instrumentId"] = [offset |-> 0, size |-> 4]
      /\ PackedLayout["priceTicks"] = [offset |-> 4, size |-> 4]
      /\ PackedLayout["qty"] = [offset |-> 8, size |-> 4]
      /\ PackedLayout["seq"] = [offset |-> 12, size |-> 4]
  BY DEF PackedLayout
<1>2. QED
  BY <1>1, FieldNames DEF Laid, PackedBytes

--------------------------------------------------------------------------------
(* Fields in memory                                                                *)

\* The first length bytes of memory, as far as they are bytes of this flyweight, are
\* those of these values.
Carries(mem, at, layout, values, length) ==
  \A f \in DOMAIN layout : \A i \in 0 .. layout[f].size - 1 :
    at + layout[f].offset + i < length =>
      mem[at + layout[f].offset + i] = Byte(values[f], i)

\* A getter returns what was set if all bytes of the field are there.
LEMMA GetCarried ==
  ASSUME NEW mem, NEW at \in Nat, NEW layout, NEW bytes \in Nat, Laid(layout, bytes), NEW values,
         NEW length \in Nat, Carries(mem, at, layout, values, length), NEW f \in DOMAIN layout,
         at + layout[f].offset + layout[f].size <= length
  PROVE  Get(mem, at, layout[f]) = values[f]
<1> DEFINE o == layout[f].offset
           z == layout[f].size
           v == values[f]
<1>1. o \in Nat /\ z \in Nat /\ z >= 1
  BY DEF Laid
<1>2. \A i \in 0 .. z - 1 : mem[at + o + i] = Byte(v, i)
  BY <1>1 DEF Carries
<1>3. mem[at + o][1] = v
  <2>1. mem[at + o + 0] = Byte(v, 0) /\ at + o + 0 = at + o
    BY <1>1, <1>2
  <2>2. mem[at + o] = Byte(v, 0)
    BY <2>1
  <2>3. Byte(v, 0)[1] = v
    BY DEF Byte
  <2>4. QED
    BY <2>2, <2>3
<1>4. QED
  BY <1>2, <1>3 DEF Get

\* A buffer of this many bytes, and two that agree from one position to another.
Buffer(mem, room) == mem = [p \in 0 .. room - 1 |-> mem[p]]
Agree(mem, other, first, end) == \A p \in Nat : first <= p /\ p < end => mem[p] = other[p]

\* The setters of a flyweight leave all of it, and all of another one next to it.
LEMMA PutAllCarries ==
  ASSUME NEW room \in Nat, NEW mem, Buffer(mem, room),
         NEW at \in Nat, NEW layout, NEW bytes \in Nat, Laid(layout, bytes),
         NEW end \in Nat, end = at + bytes, end <= room,
         NEW values, DOMAIN values = DOMAIN layout
  PROVE  /\ Buffer(PutAll(mem, at, layout, values), room)
         /\ Carries(PutAll(mem, at, layout, values), at, layout, values, end)
         /\ Agree(PutAll(mem, at, layout, values), mem, 0, at)
         /\ Agree(PutAll(mem, at, layout, values), mem, end, room)
<1> DEFINE D == 0 .. room - 1
           m == PutAll(mem, at, layout, values)
<1>1. ASSUME NEW f \in DOMAIN layout, NEW p \in D
      PROVE  InField(at, layout, f, p) <=>
               /\ at + layout[f].offset <= p
               /\ p < at + layout[f].offset + layout[f].size
  <2>1. layout[f].offset \in Nat /\ layout[f].size \in Nat /\ p \in Nat
    BY DEF Laid
  <2>2. QED
    BY <2>1 DEF InField
<1>2. \A f, g \in DOMAIN values : \A p \in D :
        InField(at, layout, f, p) /\ InField(at, layout, g, p) => f = g
  <2>1. ASSUME NEW f \in DOMAIN layout, NEW g \in DOMAIN layout, NEW p \in D,
               InField(at, layout, f, p), InField(at, layout, g, p)
        PROVE  f = g
    <3>1. /\ layout[f].offset \in Nat /\ layout[f].size \in Nat
          /\ layout[g].offset \in Nat /\ layout[g].size \in Nat /\ p \in Nat
      BY DEF Laid
    <3>2. /\ at + layout[f].offset <= p /\ p < at + layout[f].offset + layout[f].size
          /\ at + layout[g].offset <= p /\ p < at + layout[g].offset + layout[g].size
      BY <1>1, <2>1
    <3>3. /\ ~ (layout[f].offset + layout[f].size <= layout[g].offset)
          /\ ~ (layout[g].offset + layout[g].size <= layout[f].offset)
      <4>1. ASSUME NEW q \in Nat, NEW a \in Nat, NEW b \in Nat, NEW c \in Nat, NEW d \in Nat,
                   at + a <= q, q < at + a + b, at + c <= q, q < at + c + d
            PROVE  ~ (a + b <= c) /\ ~ (c + d <= a)
        BY <4>1
      <4>2. QED
        BY <3>1, <3>2, <4>1
    <3>4. QED
      BY <3>3 DEF Laid
  <2>2. QED
    BY <2>1
<1>3. Bytes(m, D, mem, at, layout, values, DOMAIN values)
  <2>1. IsFiniteSet(DOMAIN values) /\ mem = [p \in D |-> mem[p]]
    BY DEF Laid, Buffer
  <2> HIDE DEF D
  <2>2. QED
    BY <1>2, <2>1, PutAllBytes
<1> HIDE DEF m
<1>4. Carries(m, at, layout, values, end)
  <2>1. ASSUME NEW f \in DOMAIN layout, NEW i \in 0 .. layout[f].size - 1
        PROVE  m[at + layout[f].offset + i] = Byte(values[f], i)
    <3> DEFINE p == at + layout[f].offset + i
    <3>1. /\ layout[f].offset \in Nat /\ layout[f].size \in Nat /\ i \in Nat
          /\ layout[f].offset + layout[f].size <= bytes
      BY DEF Laid
    <3>2. p \in D /\ p - (at + layout[f].offset) = i
      BY <3>1
    <3>3. InField(at, layout, f, p)
      BY <3>2 DEF InField
    <3> HIDE DEF p
    <3>4. m[p] = Byte(values[f], p - (at + layout[f].offset))
      BY <1>3, <3>2, <3>3 DEF Bytes
    <3>5. QED
      BY <3>2, <3>4 DEF p
  <2>2. QED
    BY <2>1 DEF Carries
<1>5. ASSUME NEW p \in D, p < at \/ p >= end PROVE m[p] = mem[p]
  <2>1. ASSUME NEW f \in DOMAIN layout PROVE ~ InField(at, layout, f, p)
    <3>1. /\ layout[f].offset \in Nat /\ layout[f].size \in Nat /\ p \in Nat
          /\ layout[f].offset + layout[f].size <= bytes
      BY DEF Laid
    <3>2. QED
      BY <1>1, <1>5, <3>1
  <2>2. QED
    BY <1>3, <2>1 DEF Bytes
<1>6. Buffer(m, room)
  BY <1>3 DEF Bytes, Buffer
<1>7. Agree(m, mem, 0, at) /\ Agree(m, mem, end, room)
  BY <1>5 DEF Agree
<1>8. QED
  BY <1>4, <1>6, <1>7 DEF m

--------------------------------------------------------------------------------
(* What is sent                                                                    *)

Header == [blockLength : Nat, templateId : Nat, schemaId : Nat, version : Nat]

\* The first bytes of memory, as many as the packet is long, are those of packet n.
CarriesPacket(mem, n, packet) ==
  IF format = "sbe"
  THEN /\ Carries(mem, 0, HeaderLayout, packet.header, packet.length)
       /\ Carries(mem, HeaderLength, TickLayout, Tick(n), packet.length)
  ELSE Carries(mem, 0, PackedLayout, Tick(n), packet.length)

LEMMA Sizes ==
  /\ HeaderLength = 8 /\ BlockLength = 24 /\ WireBytes = 32 /\ PackedBytes = 16
  /\ SlotSize \in Nat /\ SlotSize >= 32
BY RxAssumption DEF HeaderLength, BlockLength, WireBytes, PackedBytes

LEMMA BlankSize ==
  ASSUME NEW n, NEW room \in Nat
  PROVE  /\ Buffer(Blank(n, room), room)
         /\ Cardinality(DOMAIN Blank(n, room)) = room
<1>1. DOMAIN Blank(n, room) = 0 .. room - 1
  BY DEF Blank
<1>2. Cardinality(0 .. room - 1) = room
  BY FS_Interval
<1>3. QED
  BY <1>1, <1>2 DEF Blank, Buffer

\* All of a flyweight is there, whatever follows it.
LEMMA CarriesWhole ==
  ASSUME NEW mem, NEW at \in Nat, NEW layout, NEW bytes \in Nat, Laid(layout, bytes),
         NEW values, NEW end \in Nat, end = at + bytes, Carries(mem, at, layout, values, end),
         NEW length
  PROVE  Carries(mem, at, layout, values, length)
<1>1. ASSUME NEW f \in DOMAIN layout, NEW i \in 0 .. layout[f].size - 1
      PROVE  at + layout[f].offset + i < end
  BY DEF Laid
<1>2. QED
  BY <1>1 DEF Carries

\* What a flyweight carries, its bytes carry when they are copied.
LEMMA CarriesCopied ==
  ASSUME NEW mem, NEW to, NEW at \in Nat, NEW layout, NEW bytes \in Nat, Laid(layout, bytes),
         NEW values, NEW length \in Nat, Carries(mem, at, layout, values, length),
         Agree(to, mem, at, length)
  PROVE  Carries(to, at, layout, values, length)
<1>1. ASSUME NEW f \in DOMAIN layout, NEW i \in 0 .. layout[f].size - 1,
             at + layout[f].offset + i < length
      PROVE  to[at + layout[f].offset + i] = Byte(values[f], i)
  <2> DEFINE p == at + layout[f].offset + i
  <2>1. p \in Nat /\ at <= p /\ p < length
    BY <1>1 DEF Laid
  <2>2. mem[p] = Byte(values[f], i)
    BY <2>1 DEF Carries
  <2>3. QED
    BY <2>1, <2>2 DEF Agree
<1>2. QED
  BY <1>1 DEF Carries

\* The values of a flyweight are looked at field by field.
LEMMA CarriesValues ==
  ASSUME NEW mem, NEW at, NEW layout, NEW v, NEW w, NEW length,
         \A f \in DOMAIN layout : v[f] = w[f], Carries(mem, at, layout, v, length)
  PROVE  Carries(mem, at, layout, w, length)
BY DEF Carries

\* encode_tick writes a header and a tick, if there is room.
LEMMA EncodedSbe ==
  ASSUME NEW n, NEW room \in Nat, format = "sbe", Encoded(n, room).written # 0
  PROVE  LET m == Encoded(n, room).mem IN
         /\ Encoded(n, room).written = 32 /\ room >= 32
         /\ Buffer(m, room)
         /\ Carries(m, 0, HeaderLayout, OwnHeader, 8)
         /\ Carries(m, 8, TickLayout, Tick(n), 32)
<1> DEFINE b == Blank(n, room)
           a == PutAll(b, 0, HeaderLayout, OwnHeader)
           m == PutAll(a, 8, TickLayout, Tick(n))
<1>1. room >= 32 /\ Encoded(n, room) = [written |-> 32, mem |-> m]
  <2>1. Cardinality(DOMAIN b) = room
    BY BlankSize
  <2>2. ApplyHeader(b) = a
    BY DEF ApplyHeader, OwnHeader
  <2> HIDE DEF a, b
  <2>3. Encoded(n, room) = EncodeTick(b, Tick(n))
    BY DEF Encoded, b
  <2>4. EncodeTick(b, Tick(n)) = IF room < 32 THEN [written |-> 0, mem |-> b]
                                 ELSE [written |-> 32, mem |-> m]
    BY <2>1, <2>2, Sizes DEF EncodeTick
  <2>5. QED
    BY <2>3, <2>4
<1>2. Buffer(b, room)
  BY BlankSize
<1>3. /\ DOMAIN OwnHeader = DOMAIN HeaderLayout /\ DOMAIN Tick(n) = DOMAIN TickLayout
      /\ Laid(HeaderLayout, 8) /\ Laid(TickLayout, 24)
  BY FieldNames, HeaderLaid, TickLaid, Sizes DEF OwnHeader, Tick
<1> HIDE DEF b
<1>4. Buffer(a, room) /\ Carries(a, 0, HeaderLayout, OwnHeader, 8)
  BY <1>1, <1>2, <1>3, PutAllCarries
<1> HIDE DEF a
<1>5. Buffer(m, room) /\ Carries(m, 8, TickLayout, Tick(n), 32) /\ Agree(m, a, 0, 8)
  BY <1>1, <1>3, <1>4, PutAllCarries
<1> HIDE DEF m
<1>6. Carries(m, 0, HeaderLayout, OwnHeader, 8)
  BY <1>3, <1>4, <1>5, CarriesCopied
<1>7. QED
  BY <1>1, <1>5, <1>6

\* encode copies the whole struct, if there is room.
LEMMA EncodedPacked ==
  ASSUME NEW n, NEW room \in Nat, format # "sbe", Encoded(n, room).written # 0
  PROVE  LET m == Encoded(n, room).mem IN
         /\ Encoded(n, room).written = 16 /\ room >= 16
         /\ Carries(m, 0, PackedLayout, Tick(n), 16)
<1> DEFINE b == Blank(n, room)
           v == [f \in DOMAIN PackedLayout |-> Tick(n)[f]]
           m == PutAll(b, 0, PackedLayout, v)
<1>1. room >= 16 /\ Encoded(n, room) = [written |-> 16, mem |-> m]
  <2>1. Cardinality(DOMAIN b) = room
    BY BlankSize
  <2> HIDE DEF b
  <2>2. Encoded(n, room) = EncodePacked(b, Tick(n))
    BY DEF Encoded, b
  <2>3. EncodePacked(b, Tick(n)) = IF room < 16 THEN [written |-> 0, mem |-> b]
                                   ELSE [written |-> 16, mem |-> m]
    BY <2>1, Sizes DEF EncodePacked
  <2>4. QED
    BY <2>2, <2>3
<1>2. Buffer(b, room)
  BY BlankSize
<1>3. DOMAIN v = DOMAIN PackedLayout /\ Laid(PackedLayout, 16)
  BY PackedLaid, Sizes
<1>4. \A f \in DOMAIN PackedLayout : v[f] = Tick(n)[f]
  OBVIOUS
<1> HIDE DEF b, v
<1>5. Carries(m, 0, PackedLayout, v, 16)
  BY <1>1, <1>2, <1>3, PutAllCarries
<1> HIDE DEF m
<1>6. Carries(m, 0, PackedLayout, Tick(n), 16)
  BY <1>4, <1>5, CarriesValues
<1>7. QED
  BY <1>1, <1>6

\* A message of another sender has its own header, and the tick behind it.
LEMMA WireSbe ==
  ASSUME NEW n, NEW header \in Header, format = "sbe"
  PROVE  /\ Carries(Wire(n, header), 0, HeaderLayout, header, 8)
         /\ Carries(Wire(n, header), 8, TickLayout, Tick(n), 32)
<1> DEFINE e == Encoded(n, SlotSize).mem
           w == PutAll(e, 0, HeaderLayout, header)
<1>1. Encoded(n, SlotSize).written # 0
  <2>1. Cardinality(DOMAIN Blank(n, SlotSize)) = SlotSize
    BY BlankSize, Sizes
  <2>2. QED
    BY <2>1, Sizes DEF Encoded, EncodeTick
<1>2. Buffer(e, SlotSize) /\ Carries(e, 8, TickLayout, Tick(n), 32)
  BY <1>1, EncodedSbe, Sizes
<1>3. /\ DOMAIN header = DOMAIN HeaderLayout
      /\ Laid(HeaderLayout, 8) /\ Laid(TickLayout, 24) /\ SlotSize \in Nat /\ SlotSize >= 32
  BY FieldNames, HeaderLaid, TickLaid, Sizes DEF Header
<1> HIDE DEF e
<1>4. Carries(w, 0, HeaderLayout, header, 8) /\ Agree(w, e, 8, 32)
  <2>1. Carries(w, 0, HeaderLayout, header, 8) /\ Agree(w, e, 8, SlotSize)
    BY <1>2, <1>3, PutAllCarries
  <2>2. QED
    BY <2>1, Sizes DEF Agree
<1> HIDE DEF w
<1>5. Carries(w, 8, TickLayout, Tick(n), 32)
  BY <1>2, <1>3, <1>4, CarriesCopied
<1>6. Wire(n, header) = w
  BY DEF Wire, w, e
<1>7. QED
  BY <1>4, <1>5, <1>6

--------------------------------------------------------------------------------
(* What is decoded                                                                 *)

Packet == [length : Nat, header : Header]

\* What decode_tick finds in a slot that carries a packet, told this length.
LEMMA DecodesSbe ==
  ASSUME format = "sbe", NEW mem, NEW n, NEW packet \in Packet, CarriesPacket(mem, n, packet),
         NEW length \in Nat
  PROVE  LET r == DecodeTick(mem, length) IN
         /\ length = packet.length =>
              (r.verdict = "true" <=> /\ packet.header.schemaId = SchemaId
                                      /\ packet.header.templateId = TemplateId
                                      /\ length >= 8 + packet.header.blockLength)
         /\ r.verdict = "true" =>
              /\ DOMAIN r.out = DOMAIN TickLayout
              /\ \A f \in DOMAIN TickLayout :
                   8 + TickLayout[f].offset + TickLayout[f].size <= packet.length =>
                     r.out[f] = Tick(n)[f]
<1> DEFINE r == DecodeTick(mem, length)
           header == packet.header
<1>1. /\ packet.length \in Nat /\ header.blockLength \in Nat
      /\ Carries(mem, 0, HeaderLayout, header, packet.length)
      /\ Carries(mem, 8, TickLayout, Tick(n), packet.length)
  BY Sizes DEF Packet, Header, CarriesPacket
<1>2. Laid(HeaderLayout, 8) /\ Laid(TickLayout, 24)
  BY HeaderLaid, TickLaid, Sizes
<1>3. ASSUME packet.length >= 8, NEW f \in DOMAIN HeaderLayout
      PROVE  Get(mem, 0, HeaderLayout[f]) = header[f]
  <2>1. 0 + HeaderLayout[f].offset + HeaderLayout[f].size <= packet.length
    <3>1. /\ HeaderLayout[f].offset \in Nat /\ HeaderLayout[f].size \in Nat
          /\ HeaderLayout[f].offset + HeaderLayout[f].size <= 8
      BY <1>2 DEF Laid
    <3>2. QED
      BY <1>1, <1>3, <3>1
  <2>2. QED
    BY <1>1, <1>2, <2>1, GetCarried
<1>4. ASSUME packet.length >= 8
      PROVE  /\ Get(mem, 0, HeaderLayout.schemaId) = header.schemaId
             /\ Get(mem, 0, HeaderLayout.templateId) = header.templateId
             /\ Get(mem, 0, HeaderLayout.blockLength) = header.blockLength
  BY <1>3, <1>4, FieldNames
<1>5. ASSUME length = packet.length
      PROVE  r.verdict = "true" <=> /\ header.schemaId = SchemaId
                                    /\ header.templateId = TemplateId
                                    /\ length >= 8 + header.blockLength
  <2>1. CASE length < 8
    BY <1>1, <1>5, <2>1, Sizes DEF DecodeTick
  <2>2. CASE length >= 8
    <3>1. BlockFits(mem, length) <=> 8 + header.blockLength <= length
      BY <1>4, <1>5, <2>2, Sizes DEF BlockFits
    <3>2. QED
      BY <1>1, <1>4, <1>5, <2>2, <3>1, Sizes DEF DecodeTick
  <2>3. QED
    BY <2>1, <2>2
<1>6. ASSUME r.verdict = "true", NEW f \in DOMAIN TickLayout,
             8 + TickLayout[f].offset + TickLayout[f].size <= packet.length
      PROVE  r.out[f] = Tick(n)[f]
  <2>1. r.out = Fields(mem, 8, TickLayout)
    BY <1>6, Sizes DEF DecodeTick
  <2>2. r.out[f] = Get(mem, 8, TickLayout[f])
    BY <2>1 DEF Fields
  <2>3. Get(mem, 8, TickLayout[f]) = Tick(n)[f]
    BY <1>1, <1>2, <1>6, GetCarried
  <2>4. QED
    BY <2>2, <2>3
<1>7. r.verdict = "true" => DOMAIN r.out = DOMAIN TickLayout
  BY Sizes DEF DecodeTick, Fields
<1> HIDE DEF r
<1>8. QED
  BY <1>5, <1>6, <1>7 DEF r

\* What decode_copy and decode_view find there.
LEMMA DecodesPacked ==
  ASSUME format # "sbe", NEW mem, NEW n, NEW packet \in Packet, CarriesPacket(mem, n, packet),
         NEW length \in Nat
  PROVE  LET r == DecodePacked(mem, length) IN
         /\ r.verdict = "true" <=> length >= 16
         /\ r.verdict = "true" /\ packet.length >= 16 =>
              \A f \in DOMAIN r.out : r.out[f] = Tick(n)[f]
<1> DEFINE r == DecodePacked(mem, length)
<1>1. packet.length \in Nat /\ Carries(mem, 0, PackedLayout, Tick(n), packet.length)
  BY DEF Packet, CarriesPacket
<1>2. Laid(PackedLayout, 16)
  BY PackedLaid, Sizes
<1>3. r.verdict = "true" <=> length >= 16
  BY Sizes DEF DecodePacked
<1>4. r.verdict = "true" => r.out = Fields(mem, 0, PackedLayout)
  BY DEF DecodePacked
<1>5. ASSUME packet.length >= 16, NEW f \in DOMAIN PackedLayout
      PROVE  Fields(mem, 0, PackedLayout)[f] = Tick(n)[f]
  <2>1. 0 + PackedLayout[f].offset + PackedLayout[f].size <= packet.length
    <3>1. /\ PackedLayout[f].offset \in Nat /\ PackedLayout[f].size \in Nat
          /\ PackedLayout[f].offset + PackedLayout[f].size <= 16
      BY <1>2 DEF Laid
    <3>2. QED
      BY <1>1, <1>5, <3>1
  <2>2. Get(mem, 0, PackedLayout[f]) = Tick(n)[f]
    BY <1>1, <1>2, <2>1, GetCarried
  <2>3. QED
    BY <2>2 DEF Fields
<1>6. DOMAIN Fields(mem, 0, PackedLayout) = DOMAIN PackedLayout
  BY DEF Fields
<1> HIDE DEF r
<1>7. QED
  BY <1>3, <1>4, <1>5, <1>6 DEF r

--------------------------------------------------------------------------------
(* The slot, the view and the last decoding                                        *)

RxTypes ==
  /\ format \in {"sbe", "packed"}
  /\ DOMAIN slot_ = 0 .. SlotSize - 1
  /\ arrived \in Seq(Packet)
  /\ pending_ => Len(arrived) > 0

\* The slot starts with all of the latest packet, under its length.
SlotCarriesLatest ==
  Len(arrived) > 0 => /\ CarriesPacket(slot_, Len(arrived), arrived[Len(arrived)])
                      /\ len_ = arrived[Len(arrived)].length

\* A view has the length of the packet it was made for.
ViewOfPacket ==
  view # NoView => /\ view.packet \in 1 .. Len(arrived)
                   /\ view.length = arrived[view.packet].length

\* What was decoded has arrived.
DecodedArrived ==
  decoded.verdict # "none" => /\ decoded.packet \in 1 .. Len(arrived)
                              /\ decoded.newest \in 1 .. Len(arrived)

DecodedExact ==
  DecodedArrived /\ FreshVerdictExact /\ FreshFieldsExact /\ LateDecodeWhole

RxInv == RxTypes /\ SlotCarriesLatest /\ ViewOfPacket /\ DecodedExact

\* A packet that arrives changes nothing of what was said of earlier ones.
LEMMA DecodedStays ==
  ASSUME RxInv, NEW packet \in Packet,
         arrived' = arrived \/ arrived' = Append(arrived, packet),
         decoded' = decoded, format' = format
  PROVE  /\ arrived' \in Seq(Packet) /\ Len(arrived') >= Len(arrived) /\ Len(arrived) \in Nat
         /\ \A n \in 1 .. Len(arrived) : arrived'[n] = arrived[n] /\ arrived[n] \in Packet
         /\ DecodedExact'
<1>1. arrived \in Seq(Packet) /\ Len(arrived) \in Nat
  BY DEF RxInv, RxTypes
<1>2. /\ arrived' \in Seq(Packet) /\ Len(arrived') >= Len(arrived)
      /\ \A n \in 1 .. Len(arrived) : arrived'[n] = arrived[n] /\ arrived[n] \in Packet
  <2>1. \A n \in 1 .. Len(arrived) : arrived[n] \in Packet
    BY <1>1
  <2>2. CASE arrived' = arrived
    BY <1>1, <2>1, <2>2
  <2>3. CASE arrived' = Append(arrived, packet)
    BY <1>1, <2>1, <2>3, AppendProperties
  <2>4. QED
    BY <2>2, <2>3
<1>3. CASE decoded.verdict = "none"
  <2>1. decoded'.verdict = "none"
    BY <1>3
  <2>2. DecodedArrived'
    BY <2>1 DEF DecodedArrived
  <2>3. FreshVerdictExact' /\ FreshFieldsExact'
    BY <2>1 DEF FreshVerdictExact, FreshFieldsExact, Fresh
  <2>4. LateDecodeWhole'
    BY <2>1 DEF LateDecodeWhole
  <2>5. QED
    BY <1>1, <1>2, <2>2, <2>3, <2>4 DEF DecodedExact
<1>4. CASE decoded.verdict # "none"
  <2>1. /\ decoded.packet \in 1 .. Len(arrived) /\ decoded.newest \in 1 .. Len(arrived)
    BY <1>4 DEF RxInv, DecodedExact, DecodedArrived
  <2>2. DecodedArrived'
    BY <1>1, <1>2, <2>1 DEF DecodedArrived
  <2>3. arrived'[decoded.packet] = arrived[decoded.packet]
    BY <1>2, <2>1
  <2>4. FreshVerdictExact'
    BY <2>3 DEF RxInv, DecodedExact, FreshVerdictExact, Fresh, Whole
  <2>5. FreshFieldsExact'
    BY <2>3 DEF RxInv, DecodedExact, FreshFieldsExact, Fresh
  <2>6. LateDecodeWhole'
    <3>1. \A n \in 1 .. decoded.newest : arrived'[n] = arrived[n]
      BY <1>1, <1>2, <2>1
    <3>2. ASSUME \A n \in 1 .. decoded.newest :
                   arrived'[n].length >= IF format = "sbe" THEN WireBytes ELSE PackedBytes
          PROVE  \A n \in 1 .. decoded.newest :
                   arrived[n].length >= IF format = "sbe" THEN WireBytes ELSE PackedBytes
      BY <3>1, <3>2
    <3>3. LateDecodeWhole
      BY DEF RxInv, DecodedExact
    <3>4. QED
      BY <3>2, <3>3 DEF LateDecodeWhole
  <2>7. QED
    BY <1>1, <1>2, <2>2, <2>4, <2>5, <2>6 DEF DecodedExact
<1>5. QED
  BY <1>1, <1>2, <1>3, <1>4

\* What a feed or another sender puts on the wire for packet n.
Sent(wire, n, header) ==
  IF format = "sbe"
  THEN Carries(wire, 0, HeaderLayout, header, 8) /\ Carries(wire, 8, TickLayout, Tick(n), 32)
  ELSE Carries(wire, 0, PackedLayout, Tick(n), 16)

\* inject_for_test copies as much of it as it is told to.
LEMMA CopiesPacket ==
  ASSUME NEW wire, NEW to, NEW n, NEW packet \in Packet, Sent(wire, n, packet.header),
         Agree(to, wire, 0, packet.length)
  PROVE  CarriesPacket(to, n, packet)
<1> DEFINE length == packet.length
           header == packet.header
<1>1. length \in Nat
  BY DEF Packet
<1>2. Laid(HeaderLayout, 8) /\ Laid(TickLayout, 24) /\ Laid(PackedLayout, 16)
  BY HeaderLaid, TickLaid, PackedLaid, Sizes
<1>3. Agree(to, wire, 0, length) /\ Agree(to, wire, 8, length)
  BY DEF Agree
<1> HIDE DEF length, header
<1>4. CASE format = "sbe"
  <2>1. Carries(wire, 0, HeaderLayout, header, 8) /\ Carries(wire, 8, TickLayout, Tick(n), 32)
    BY <1>4 DEF Sent, header
  <2>2. Carries(wire, 0, HeaderLayout, header, length)
    BY <1>1, <1>2, <2>1, CarriesWhole
  <2>3. Carries(wire, 8, TickLayout, Tick(n), length)
    BY <1>1, <1>2, <2>1, CarriesWhole
  <2>4. /\ Carries(to, 0, HeaderLayout, header, length)
        /\ Carries(to, 8, TickLayout, Tick(n), length)
    BY <1>1, <1>2, <1>3, <2>2, <2>3, CarriesCopied
  <2>5. QED
    BY <1>4, <2>4, Sizes DEF CarriesPacket, length, header
<1>5. CASE format # "sbe"
  <2>1. Carries(wire, 0, PackedLayout, Tick(n), 16)
    BY <1>5 DEF Sent
  <2>2. Carries(wire, 0, PackedLayout, Tick(n), length)
    BY <1>1, <1>2, <2>1, CarriesWhole
  <2>3. Carries(to, 0, PackedLayout, Tick(n), length)
    BY <1>1, <1>2, <1>3, <2>2, CarriesCopied
  <2>4. QED
    BY <1>5, <2>3 DEF CarriesPacket, length
<1>6. QED
  BY <1>4, <1>5

\* A packet of no bytes carries whatever one likes.
LEMMA NothingCarried ==
  ASSUME NEW mem, NEW n, NEW packet \in Packet, packet.length = 0
  PROVE  CarriesPacket(mem, n, packet)
<1>1. ASSUME NEW at \in Nat, NEW layout, NEW bytes \in Nat, Laid(layout, bytes), NEW values
      PROVE  Carries(mem, at, layout, values, 0)
  <2>1. ASSUME NEW f \in DOMAIN layout, NEW i \in 0 .. layout[f].size - 1
        PROVE  ~ (at + layout[f].offset + i < 0)
    BY <1>1 DEF Laid
  <2>2. QED
    BY <2>1 DEF Carries
<1>2. /\ Carries(mem, 0, HeaderLayout, packet.header, 0)
      /\ Carries(mem, HeaderLength, TickLayout, Tick(n), 0)
      /\ Carries(mem, 0, PackedLayout, Tick(n), 0)
  <2>1. HeaderLength \in Nat /\ BlockLength \in Nat /\ PackedBytes \in Nat
    BY Sizes
  <2>2. QED
    BY <1>1, <2>1, HeaderLaid, TickLaid, PackedLaid
<1>3. QED
  BY <1>2 DEF CarriesPacket

LEMMA InjectInv ==
  ASSUME RxInv, NEW wire, NEW length \in Nat, length <= SlotSize, NEW header \in Header,
         Inject(wire, length, header),
         length = 0 \/ Sent(wire, Len(arrived) + 1, header)
  PROVE  RxInv'
<1> DEFINE packet == [length |-> length, header |-> header]
           n == Len(arrived)
<1>1. /\ arrived' = Append(arrived, packet) /\ len_' = length /\ pending_' = TRUE
      /\ slot_' = [p \in DOMAIN slot_ |-> IF p < length THEN wire[p] ELSE slot_[p]]
      /\ format' = format /\ view' = view /\ decoded' = decoded
  BY DEF Inject
<1>2. packet \in Packet
  BY DEF Packet
<1>3. /\ arrived \in Seq(Packet) /\ n \in Nat /\ DOMAIN slot_ = 0 .. SlotSize - 1
      /\ format \in {"sbe", "packed"}
  BY DEF RxInv, RxTypes
<1> HIDE DEF packet
<1>4. /\ DecodedExact' /\ arrived' \in Seq(Packet)
      /\ \A k \in 1 .. n : arrived'[k] = arrived[k]
  BY <1>1, <1>2, DecodedStays
<1>5. Len(arrived') = n + 1 /\ arrived'[n + 1] = packet
  BY <1>1, <1>2, <1>3, AppendProperties
<1>6. packet.length = length /\ packet.header = header
  BY DEF packet
<1>7. CarriesPacket(slot_', n + 1, packet)
  <2>1. CASE length = 0
    BY <1>2, <1>6, <2>1, NothingCarried
  <2>2. CASE Sent(wire, n + 1, header)
    <3>1. Agree(slot_', wire, 0, length)
      <4>1. ASSUME NEW p \in Nat, p < length PROVE slot_'[p] = wire[p]
        <5>1. p \in DOMAIN slot_
          BY <1>3, <4>1, Sizes
        <5>2. QED
          BY <1>1, <4>1, <5>1
      <4>2. QED
        BY <4>1 DEF Agree
    <3>2. QED
      BY <1>2, <1>6, <2>2, <3>1, CopiesPacket
  <2>3. QED
    BY <2>1, <2>2
<1>8. SlotCarriesLatest'
  BY <1>1, <1>5, <1>6, <1>7 DEF SlotCarriesLatest, CarriesPacket
<1>9. RxTypes'
  BY <1>1, <1>3, <1>4, <1>5 DEF RxTypes
<1>10. ViewOfPacket'
  <2>1. view # NoView => view.packet \in 1 .. n /\ view.length = arrived[view.packet].length
    BY DEF RxInv, ViewOfPacket
  <2>2. \A k \in 1 .. n : k \in 1 .. n + 1
    BY <1>3
  <2>3. QED
    BY <1>1, <1>4, <1>5, <2>1, <2>2 DEF ViewOfPacket, NoView
<1>11. QED
  BY <1>4, <1>8, <1>9, <1>10 DEF RxInv

LEMMA OwnHeaderTyped == OwnHeader \in Header
BY DEF OwnHeader, Header, BlockLength, TemplateId, SchemaId, SchemaVersion

\* What the feed encodes is what it sends, and nothing if there is no room for it.
LEMMA EncodedSent ==
  ASSUME format \in {"sbe", "packed"}, NEW n, NEW room \in Nat
  PROVE  LET e == Encoded(n, room) IN
         /\ e.written = 0 \/ e.written = IF format = "sbe" THEN 32 ELSE 16
         /\ e.written = 0 \/ Sent(e.mem, n, OwnHeader)
<1>1. CASE Encoded(n, room).written = 0
  BY <1>1
<1>2. CASE Encoded(n, room).written # 0 /\ format = "sbe"
  BY <1>2, EncodedSbe DEF Sent
<1>3. CASE Encoded(n, room).written # 0 /\ format # "sbe"
  BY <1>3, EncodedPacked DEF Sent
<1>4. QED
  BY <1>1, <1>2, <1>3

LEMMA FeedInv == \A room \in Rooms : RxInv /\ Feed(room) => RxInv'
<1> SUFFICES ASSUME NEW room \in Rooms, RxInv, Feed(room) PROVE RxInv'
  OBVIOUS
<1> DEFINE n == Len(arrived) + 1
           e == Encoded(n, room)
<1>1. Inject(e.mem, e.written, OwnHeader) /\ room \in Nat /\ format \in {"sbe", "packed"}
  BY RxAssumption DEF Feed, RxInv, RxTypes
<1>2. /\ e.written = 0 \/ e.written = IF format = "sbe" THEN 32 ELSE 16
      /\ e.written = 0 \/ Sent(e.mem, n, OwnHeader)
  BY <1>1, EncodedSent
<1> HIDE DEF e
<1>3. e.written \in Nat /\ e.written <= SlotSize
  BY <1>2, Sizes
<1>4. QED
  BY <1>1, <1>2, <1>3, InjectInv, OwnHeaderTyped

LEMMA FeedCutInv == \A length \in Cuts : RxInv /\ FeedCut(length) => RxInv'
<1> SUFFICES ASSUME NEW length \in Cuts, RxInv, FeedCut(length) PROVE RxInv'
  OBVIOUS
<1> DEFINE n == Len(arrived) + 1
           e == Encoded(n, SlotSize)
<1>1. /\ Inject(e.mem, length, OwnHeader) /\ length < e.written
      /\ length \in Nat /\ length <= SlotSize
      /\ format \in {"sbe", "packed"} /\ SlotSize \in Nat
  BY RxAssumption, Sizes DEF FeedCut, RxInv, RxTypes
<1>2. e.written = 0 \/ Sent(e.mem, n, OwnHeader)
  BY <1>1, EncodedSent
<1> HIDE DEF e
<1>3. Sent(e.mem, n, OwnHeader)
  BY <1>1, <1>2
<1>4. QED
  BY <1>1, <1>3, InjectInv, OwnHeaderTyped

LEMMA ForeignInv ==
  \A length \in Nat, header \in Header :
    RxInv /\ length <= SlotSize /\ Foreign(length, header) => RxInv'
<1> SUFFICES ASSUME NEW length \in Nat, NEW header \in Header, RxInv, length <= SlotSize,
                    Foreign(length, header)
             PROVE  RxInv'
  OBVIOUS
<1>1. Inject(Wire(Len(arrived) + 1, header), length, header) /\ format = "sbe"
  BY DEF Foreign
<1>2. Sent(Wire(Len(arrived) + 1, header), Len(arrived) + 1, header)
  BY <1>1, WireSbe DEF Sent
<1>3. QED
  BY <1>1, <1>2, InjectInv

LEMMA PollInv == RxInv /\ Poll => RxInv'
<1> SUFFICES ASSUME RxInv, Poll PROVE RxInv'
  OBVIOUS
<1>1. /\ pending_ /\ pending_' = FALSE
      /\ view' = [packet |-> Len(arrived), port |-> port_, length |-> len_]
      /\ format' = format /\ len_' = len_ /\ slot_' = slot_ /\ arrived' = arrived
      /\ decoded' = decoded
  BY DEF Poll
<1>2. Len(arrived) > 0 /\ Len(arrived) \in Nat
  BY <1>1 DEF RxInv, RxTypes
<1>3. Len(arrived) \in 1 .. Len(arrived) /\ len_ = arrived[Len(arrived)].length
  BY <1>2 DEF RxInv, SlotCarriesLatest
<1>4. ViewOfPacket'
  BY <1>1, <1>3 DEF ViewOfPacket
<1>5. RxTypes' /\ SlotCarriesLatest'
  BY <1>1 DEF RxInv, RxTypes, SlotCarriesLatest, CarriesPacket
<1>6. DecodedExact'
  BY <1>1 DEF RxInv, DecodedExact, DecodedArrived, FreshVerdictExact, FreshFieldsExact,
              LateDecodeWhole, Fresh, Whole
<1>7. QED
  BY <1>4, <1>5, <1>6 DEF RxInv

\* What the user gets who decodes a view, sooner or later.
LEMMA DecodeInv == RxInv /\ Decode => RxInv'
<1> SUFFICES ASSUME RxInv, Decode PROVE RxInv'
  OBVIOUS
<1> DEFINE n == Len(arrived)
           m == view.packet
           length == view.length
           r == IF format = "sbe" THEN DecodeTick(slot_, length) ELSE DecodePacked(slot_, length)
<1>1. /\ view # NoView /\ view' = view /\ format' = format /\ arrived' = arrived
      /\ slot_' = slot_ /\ len_' = len_ /\ pending_' = pending_
      /\ decoded' = [verdict |-> r.verdict, out |-> r.out, packet |-> m, newest |-> n]
  BY DEF Decode, receiver
<1>2. m \in 1 .. n /\ length = arrived[m].length /\ n \in Nat /\ arrived \in Seq(Packet)
  BY <1>1 DEF RxInv, ViewOfPacket, RxTypes
<1>3. n \in 1 .. n /\ arrived[n] \in Packet /\ arrived[m] \in Packet /\ length \in Nat
  <2>1. n \in 1 .. n
    BY <1>2
  <2>2. arrived[n] \in Packet /\ arrived[m] \in Packet
    BY <1>2, <2>1, ElementOfSeq
  <2>3. QED
    BY <1>2, <2>1, <2>2 DEF Packet
<1>4. CarriesPacket(slot_, n, arrived[n])
  BY <1>3 DEF RxInv, SlotCarriesLatest
<1>5. /\ decoded'.verdict = r.verdict /\ decoded'.out = r.out
      /\ decoded'.packet = m /\ decoded'.newest = n
  BY <1>1
<1>6. ASSUME format = "sbe"
      PROVE  /\ m = n => (r.verdict = "true" <=> Whole(n))
             /\ r.verdict = "true" =>
                  /\ DOMAIN r.out = DOMAIN TickLayout
                  /\ \A f \in DOMAIN TickLayout :
                       8 + TickLayout[f].offset + TickLayout[f].size <= arrived[n].length =>
                         r.out[f] = Tick(n)[f]
  <2>1. r = DecodeTick(slot_, length)
    BY <1>6
  <2> HIDE DEF r
  <2>2. /\ length = arrived[n].length =>
             (r.verdict = "true" <=> /\ arrived[n].header.schemaId = SchemaId
                                     /\ arrived[n].header.templateId = TemplateId
                                     /\ length >= 8 + arrived[n].header.blockLength)
        /\ r.verdict = "true" =>
             /\ DOMAIN r.out = DOMAIN TickLayout
             /\ \A f \in DOMAIN TickLayout :
                  8 + TickLayout[f].offset + TickLayout[f].size <= arrived[n].length =>
                    r.out[f] = Tick(n)[f]
    BY <1>3, <1>4, <1>6, <2>1, DecodesSbe
  <2>3. Whole(n) <=> /\ arrived[n].header.schemaId = SchemaId
                     /\ arrived[n].header.templateId = TemplateId
                     /\ arrived[n].length >= 8 + arrived[n].header.blockLength
    BY <1>6, Sizes DEF Whole
  <2>4. QED
    BY <1>2, <2>2, <2>3
<1>7. ASSUME format # "sbe"
      PROVE  /\ m = n => (r.verdict = "true" <=> Whole(n))
             /\ r.verdict = "true" /\ arrived[n].length >= 16 =>
                  \A f \in DOMAIN r.out : r.out[f] = Tick(n)[f]
  <2>1. r = DecodePacked(slot_, length)
    BY <1>7
  <2> HIDE DEF r
  <2>2. /\ r.verdict = "true" <=> length >= 16
        /\ r.verdict = "true" /\ arrived[n].length >= 16 =>
             \A f \in DOMAIN r.out : r.out[f] = Tick(n)[f]
    BY <1>3, <1>4, <1>7, <2>1, DecodesPacked
  <2>3. format = "packed"
    BY <1>7 DEF RxInv, RxTypes
  <2>4. Whole(n) <=> arrived[n].length >= 16
    BY <2>3, Sizes DEF Whole
  <2>5. QED
    BY <1>2, <2>2, <2>4
<1> HIDE DEF r, m, n, length
<1>8. FreshVerdictExact'
  <2>1. Fresh' => m = n
    BY <1>5 DEF Fresh
  <2>2. Whole(n)' <=> Whole(n)
    BY <1>1 DEF Whole, n
  <2>3. ASSUME m = n PROVE decoded'.verdict = "true" <=> Whole(n)
    BY <1>5, <1>6, <1>7, <2>3
  <2>4. Whole(decoded.packet)' <=> Whole(m)
    BY <1>1, <1>5 DEF Whole
  <2>5. QED
    BY <2>1, <2>3, <2>4 DEF FreshVerdictExact
<1>9. FreshFieldsExact'
  <2>1. ASSUME m = n, r.verdict = "true", NEW f \in DOMAIN r.out
        PROVE  \/ r.out[f] = Tick(m)[f]
               \/ /\ format = "sbe"
                  /\ arrived[m].header.blockLength < TickLayout[f].offset + TickLayout[f].size
    <3>1. CASE format = "sbe"
      <4>1. f \in DOMAIN TickLayout /\ Whole(n)
        BY <1>6, <2>1, <3>1
      <4>2. /\ arrived[n].length >= 8 + arrived[n].header.blockLength
            /\ arrived[n].header.blockLength \in Nat /\ arrived[n].length \in Nat
        BY <1>3, <3>1, <4>1, Sizes DEF Whole, Packet, Header
      <4>3. TickLayout[f].offset \in Nat /\ TickLayout[f].size \in Nat
        BY <4>1, TickLaid DEF Laid
      <4>4. CASE arrived[n].header.blockLength < TickLayout[f].offset + TickLayout[f].size
        BY <2>1, <3>1, <4>4
      <4>5. CASE ~ (arrived[n].header.blockLength < TickLayout[f].offset + TickLayout[f].size)
        <5>1. 8 + TickLayout[f].offset + TickLayout[f].size <= arrived[n].length
          BY <4>2, <4>3, <4>5
        <5>2. QED
          BY <1>6, <2>1, <3>1, <4>1, <5>1
      <4>6. QED
        BY <4>4, <4>5
    <3>2. CASE format # "sbe"
      <4>1. arrived[n].length >= 16
        <5>1. Whole(n) /\ format = "packed"
          BY <1>7, <2>1, <3>2 DEF RxInv, RxTypes
        <5>2. QED
          BY <5>1, Sizes DEF Whole
      <4>2. QED
        BY <1>7, <2>1, <3>2, <4>1
    <3>3. QED
      BY <3>1, <3>2
  <2>2. QED
    BY <1>1, <1>5, <2>1 DEF FreshFieldsExact, Fresh
<1>10. LateDecodeWhole'
  <2>1. ASSUME r.verdict = "true",
               arrived[n].length >= IF format = "sbe" THEN WireBytes ELSE PackedBytes,
               NEW f \in DOMAIN r.out
        PROVE  r.out[f] = Tick(n)[f]
    <3>1. CASE format = "sbe"
      <4>1. f \in DOMAIN TickLayout /\ arrived[n].length >= 32
        BY <1>6, <2>1, <3>1, Sizes
      <4>2. /\ TickLayout[f].offset \in Nat /\ TickLayout[f].size \in Nat
            /\ TickLayout[f].offset + TickLayout[f].size <= 24
        BY <4>1, TickLaid, Sizes DEF Laid
      <4>3. arrived[n].length \in Nat
        BY <1>3 DEF Packet
      <4>4. 8 + TickLayout[f].offset + TickLayout[f].size <= arrived[n].length
        BY <4>1, <4>2, <4>3
      <4>5. QED
        BY <1>6, <2>1, <3>1, <4>1, <4>4
    <3>2. CASE format # "sbe"
      BY <1>7, <2>1, <3>2, Sizes
    <3>3. QED
      BY <3>1, <3>2
  <2>2. QED
    BY <1>1, <1>3, <1>5, <2>1 DEF LateDecodeWhole
<1>11. DecodedArrived'
  BY <1>1, <1>2, <1>3, <1>5 DEF DecodedArrived, n
<1>12. RxTypes' /\ SlotCarriesLatest' /\ ViewOfPacket'
  BY <1>1 DEF RxInv, RxTypes, SlotCarriesLatest, CarriesPacket, ViewOfPacket
<1>13. QED
  BY <1>8, <1>9, <1>10, <1>11, <1>12 DEF RxInv, DecodedExact

\* Opening, closing and polling in vain touch neither the slot nor what it stands for.
LEMMA IdleInv ==
  RxInv /\ (Close \/ PollNothing \/ (\E port \in Ports : Open(port)) \/ UNCHANGED vars) => RxInv'
<1> SUFFICES ASSUME RxInv, format' = format, slot_' = slot_, len_' = len_, pending_' = pending_,
                    view' = view, arrived' = arrived, decoded' = decoded
             PROVE  RxInv'
  BY DEF Close, PollNothing, Open, vars, receiver
<1>1. RxTypes' /\ SlotCarriesLatest' /\ ViewOfPacket'
  BY DEF RxInv, RxTypes, SlotCarriesLatest, CarriesPacket, ViewOfPacket
<1>2. DecodedExact'
  BY DEF RxInv, DecodedExact, DecodedArrived, FreshVerdictExact, FreshFieldsExact,
         LateDecodeWhole, Fresh, Whole
<1>3. QED
  BY <1>1, <1>2 DEF RxInv

LEMMA RxInitInv == Init => RxInv
<1> SUFFICES ASSUME Init PROVE RxInv
  OBVIOUS
<1>1. /\ arrived = <<>> /\ view = NoView /\ decoded.verdict = "none" /\ ~ pending_
      /\ format \in {"sbe", "packed"} /\ DOMAIN slot_ = 0 .. SlotSize - 1
  BY RxAssumption DEF Init
<1>2. arrived \in Seq(Packet) /\ Len(arrived) = 0
  BY <1>1
<1>3. DecodedExact
  <2>1. DecodedArrived
    BY <1>1 DEF DecodedArrived
  <2>2. FreshVerdictExact /\ FreshFieldsExact
    BY <1>1 DEF FreshVerdictExact, FreshFieldsExact, Fresh
  <2>3. LateDecodeWhole
    BY <1>1 DEF LateDecodeWhole
  <2>4. QED
    BY <2>1, <2>2, <2>3 DEF DecodedExact
<1>4. QED
  BY <1>1, <1>2, <1>3 DEF RxInv, RxTypes, SlotCarriesLatest, ViewOfPacket

LEMMA RxNextInv == RxInv /\ [Next]_vars => RxInv'
<1> SUFFICES ASSUME RxInv, [Next]_vars PROVE RxInv'
  OBVIOUS
<1>1. /\ [OwnHeader EXCEPT !.schemaId = 0] \in Header
      /\ [OwnHeader EXCEPT !.templateId = 0] \in Header
      /\ \A block \in Nat : [OwnHeader EXCEPT !.blockLength = block] \in Header
  BY OwnHeaderTyped DEF Header
<1>2. WireBytes \in Nat /\ WireBytes <= SlotSize
  BY Sizes
<1>3. CASE \E room \in Rooms : Feed(room)
  BY <1>3, FeedInv
<1>4. CASE \E length \in Cuts : FeedCut(length)
  BY <1>4, FeedCutInv
<1>5. CASE \/ Foreign(WireBytes, [OwnHeader EXCEPT !.schemaId = 0])
           \/ Foreign(WireBytes, [OwnHeader EXCEPT !.templateId = 0])
  BY <1>1, <1>2, <1>5, ForeignInv
<1>6. ASSUME NEW block \in Blocks, NEW length \in {WireBytes, HeaderLength + block},
             length <= HeaderLength + block,
             Foreign(length, [OwnHeader EXCEPT !.blockLength = block])
      PROVE  RxInv'
  <2>1. block \in Nat /\ length \in Nat /\ length <= SlotSize
    BY RxAssumption, Sizes
  <2>2. QED
    BY <1>1, <1>6, <2>1, ForeignInv
<1>7. CASE Poll
  BY <1>7, PollInv
<1>8. CASE Decode
  BY <1>8, DecodeInv
<1>9. CASE Close \/ PollNothing \/ (\E port \in Ports : Open(port)) \/ UNCHANGED vars
  BY <1>9, IdleInv
<1>10. QED
  BY <1>3, <1>4, <1>5, <1>6, <1>7, <1>8, <1>9 DEF Next

LEMMA RxInvariant == Spec => []RxInv
BY RxInitInv, RxNextInv, PTL DEF Spec

--------------------------------------------------------------------------------
(* Theorems                                                                        *)

\* decode_tick, decode_copy and decode_view take the packet that a view was made for
\* exactly if it is whole, as long as no other packet has come in between.
THEOREM FreshVerdictIsExact == Spec => []FreshVerdictExact
<1>1. RxInv => FreshVerdictExact
  BY DEF RxInv, DecodedExact
<1>2. QED
  BY <1>1, RxInvariant, PTL

\* They give the fields that were encoded, of that very packet, up to the end of the
\* block that its header announces.
THEOREM FreshFieldsAreExact == Spec => []FreshFieldsExact
<1>1. RxInv => FreshFieldsExact
  BY DEF RxInv, DecodedExact
<1>2. QED
  BY <1>1, RxInvariant, PTL

\* A view that is decoded late shows the tick that took the place of its own, and never
\* half of each, as long as every packet is at least a tick long.
THEOREM LateDecodeIsWhole == Spec => []LateDecodeWhole
<1>1. RxInv => LateDecodeWhole
  BY DEF RxInv, DecodedExact
<1>2. QED
  BY <1>1, RxInvariant, PTL

================================================================================
