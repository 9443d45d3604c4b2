------------------------------- MODULE ArenaProofs ------------------------------
(* Proofs about Arena for any storage, any set of requests that stay clear of    *)
(* the width of size_t, and any number of them.                                  *)
EXTENDS Arena, Arithmetic

\* What allocate computes for an ordinary request, without the word.
LEMMA AllocateFacts ==
  ASSUME NEW r \in Requests, Ordinary(r), offset_ \in 0..Size
  PROVE  /\ r.n \in Nat /\ r.align \in Nat /\ r.align >= 1
         /\ Aligned(r) \in Nat /\ Aligned(r) % r.align = 0
         /\ Base + offset_ <= Aligned(r) /\ Aligned(r) < Base + offset_ + r.align
         /\ Base + After(r) = Aligned(r) + r.n /\ After(r) \in Nat
<1> DEFINE at == Base + offset_
           padded == at + (r.align - 1)
           q == padded \div r.align
           m == padded % r.align
<1>1. /\ r.n \in Nat /\ r.align \in Nat /\ r.align >= 1
      /\ Base \in Nat /\ Size \in Nat /\ Word \in Nat /\ at \in Nat
      /\ at <= Base + Size /\ Base + Size + r.align + r.n <= Word
  BY ArenaAssumption DEF Ordinary
<1>2. padded \in Nat /\ padded < Word
  BY <1>1
<1>3. \A x \in Nat : x < Word => Mod(x) = x
  <2>1. SUFFICES ASSUME NEW x \in Nat, x < Word PROVE x % Word = x
    BY DEF Mod
  <2>2. Word >= 1 /\ x = Word * 0 + x /\ x \in 0 .. Word - 1
    BY <1>1, <2>1
  <2>3. QED
    BY <1>1, <2>1, <2>2, ModUnique
<1>4. /\ q \in Int /\ m \in 0 .. r.align - 1
      /\ padded = r.align * q + m
  BY <1>1, <1>2, DivMod
<1>5. Aligned(r) = padded - m
  BY <1>2, <1>3 DEF Aligned, AlignUp
<1> HIDE DEF q, m
<1>6. at <= Aligned(r) /\ Aligned(r) < at + r.align /\ Aligned(r) \in Nat
  BY <1>1, <1>4, <1>5
<1>7. Aligned(r) % r.align = 0
  <2>1. r.align * q \in Int /\ Aligned(r) = r.align * q + 0 /\ 0 \in 0 .. r.align - 1
    BY <1>1, <1>2, <1>4, <1>5
  <2>2. QED
    BY <1>1, <1>4, <1>6, <2>1, ModUnique
<1>8. Delta(r) = Aligned(r) - at
  <2>1. Aligned(r) - at \in Nat /\ Aligned(r) - at < Word
    BY <1>1, <1>6
  <2>2. QED
    BY <1>3, <2>1 DEF Delta
<1>9. After(r) = offset_ + (Aligned(r) - at) + r.n
  <2>1. offset_ + (Aligned(r) - at) + r.n \in Nat /\ offset_ + (Aligned(r) - at) + r.n < Word
    BY <1>1, <1>6
  <2>2. QED
    BY <1>3, <1>8, <2>1 DEF After
<1>10. QED
  BY <1>1, <1>6, <1>7, <1>9

\* BlocksInStorage is what makes BlocksDisjoint inductive: the blocks in use lie
\* below the offset.
Inv == TypeOK /\ BlocksInStorage /\ BlocksDisjoint

\* A block goes above the old offset, which the blocks handed out before are below.
LEMMA AllocateInv ==
  ASSUME Inv, NEW r \in Requests, Ordinary(r), Allocate(r)
  PROVE  Inv'
<1> DEFINE block == [addr |-> Aligned(r), n |-> r.n, align |-> r.align]
<1>1. /\ offset_ \in Nat /\ Base \in Nat /\ Size \in Nat /\ Word \in Nat
      /\ offset_ \in 0..Size /\ r.n \in 0 .. Word - 1
  BY ArenaAssumption DEF Inv, TypeOK
<1>2. /\ block.addr \in Nat /\ block.n \in Nat /\ block.align \in Nat
      /\ block.addr % block.align = 0
      /\ Base + offset_ <= block.addr /\ Base + After(r) = block.addr + block.n
      /\ After(r) \in Nat
  BY <1>1, AllocateFacts
<1>3. offset_' = After(r) /\ After(r) <= Size /\ blocks' = blocks \union {block}
  BY DEF Allocate
<1>4. block \in Blocks
  BY <1>1, <1>2 DEF Blocks
<1> HIDE DEF block
<1>5. offset_ <= After(r)
  BY <1>1, <1>2
<1>6. TypeOK'
  BY <1>1, <1>2, <1>3, <1>4 DEF Inv, TypeOK
<1>7. \A b \in blocks : /\ b \in Blocks /\ b.addr \in Nat /\ b.n \in Nat
                        /\ b.addr % b.align = 0
                        /\ Base <= b.addr /\ b.addr + b.n <= Base + offset_
  BY <1>1 DEF Inv, TypeOK, BlocksInStorage, Blocks
<1>8. BlocksInStorage'
  <2>1. ASSUME NEW b \in blocks PROVE Base <= b.addr /\ b.addr + b.n <= Base + After(r)
    BY <1>1, <1>2, <1>5, <1>7
  <2>2. Base <= block.addr /\ block.addr + block.n <= Base + After(r)
    BY <1>1, <1>2
  <2>3. QED
    BY <1>2, <1>3, <1>7, <2>1, <2>2 DEF BlocksInStorage
<1>9. BlocksDisjoint'
  <2>1. ASSUME NEW b \in blocks PROVE b.addr + b.n <= block.addr
    BY <1>1, <1>2, <1>7
  <2>2. QED
    BY <1>3, <2>1 DEF Inv, BlocksDisjoint
<1>10. QED
  BY <1>6, <1>8, <1>9 DEF Inv

\* Moving the offset up, for an object whose constructor threw, disturbs no block.
LEMMA CreateThrowsInv ==
  ASSUME Inv, NEW r \in Requests, Ordinary(r), CreateThrows(r)
  PROVE  Inv'
<1>1. /\ offset_ \in Nat /\ Base \in Nat /\ Size \in Nat /\ offset_ \in 0..Size
  BY ArenaAssumption DEF Inv, TypeOK
<1>2. /\ offset_' = After(r) /\ After(r) \in 0..Size /\ offset_ <= After(r)
      /\ blocks' = blocks
  BY <1>1, AllocateFacts DEF CreateThrows
<1>3. \A b \in blocks : b.addr \in Nat /\ b.n \in Nat
  BY <1>1 DEF Inv, TypeOK, Blocks
<1>4. BlocksInStorage'
  <2>1. ASSUME NEW b \in blocks PROVE b.addr + b.n <= Base + After(r)
    BY <1>1, <1>2, <1>3 DEF Inv, BlocksInStorage
  <2>2. QED
    BY <1>2, <2>1 DEF Inv, BlocksInStorage
<1>5. QED
  BY <1>2, <1>4 DEF Inv, TypeOK, BlocksDisjoint

\* The first aligned address that allocate takes is the lowest there is, so if it
\* does not leave room for the block then no address does.
LEMMA ThrowsExact == Inv /\ (\A r \in Requests : Ordinary(r)) => ThrowsExactlyWhenFull
<1> SUFFICES ASSUME Inv, NEW r \in Requests, Ordinary(r)
             PROVE  After(r) <= Size <=> Fits(r)
  BY DEF ThrowsExactlyWhenFull
<1> DEFINE at == Base + offset_
<1>1. Base \in Nat /\ Size \in Nat /\ offset_ \in 0..Size
  BY ArenaAssumption DEF Inv, TypeOK
<1>2. /\ r.n \in Nat /\ r.align \in Nat /\ r.align >= 1
      /\ Aligned(r) \in Nat /\ Aligned(r) % r.align = 0
      /\ at <= Aligned(r) /\ Aligned(r) < at + r.align
      /\ Base + After(r) = Aligned(r) + r.n /\ After(r) \in Nat
  BY <1>1, AllocateFacts
<1>3. ASSUME After(r) <= Size PROVE Fits(r)
  <2>1. Aligned(r) \in at .. Base + Size /\ Aligned(r) + r.n <= Base + Size
    BY <1>1, <1>2, <1>3
  <2>2. QED
    BY <1>2, <2>1 DEF Fits
<1>4. ASSUME Fits(r) PROVE After(r) <= Size
  <2>1. PICK a \in at .. Base + Size : a % r.align = 0 /\ a + r.n <= Base + Size
    BY <1>4 DEF Fits
  <2>2. a \in Nat /\ at <= a
    BY <1>1, <2>1
  <2>3. Aligned(r) <= a
    <3>1. SUFFICES ASSUME a < Aligned(r) PROVE FALSE
      BY <1>2, <2>2
    <3>2. a % r.align = Aligned(r) % r.align
      BY <1>2, <2>1
    <3>3. Aligned(r) >= a + r.align
      BY <1>2, <2>2, <3>1, <3>2, WrapWindow
    <3>4. QED
      BY <1>1, <1>2, <2>2, <3>3
  <2>4. QED
    BY <1>1, <1>2, <2>1, <2>2, <2>3
<1>5. QED
  BY <1>3, <1>4

\* As long as no request comes near the width of size_t, what allocate hands out
\* between two resets is aligned, inside the storage, and shared by nobody; and
\* bad_alloc means that there is no room.
THEOREM ArenaSafe ==
  ASSUME \A r \in Requests : Ordinary(r)
  PROVE  Spec => [](TypeOK /\ BlocksInStorage /\ BlocksDisjoint /\ ThrowsExactlyWhenFull)
<1>1. Init => Inv
  BY ArenaAssumption DEF Init, Inv, TypeOK, BlocksInStorage, BlocksDisjoint
<1>2. Inv /\ [Next]_vars => Inv'
  <2> SUFFICES ASSUME Inv, [Next]_vars PROVE Inv'
    OBVIOUS
  <2>1. ASSUME NEW r \in Requests, Allocate(r) PROVE Inv'
    BY <2>1, AllocateInv
  <2>2. ASSUME NEW r \in Requests, CreateThrows(r) PROVE Inv'
    BY <2>2, CreateThrowsInv
  <2>3. ASSUME Reset PROVE Inv'
    BY <2>3, ArenaAssumption DEF Reset, Inv, TypeOK, BlocksInStorage, BlocksDisjoint
  <2>4. ASSUME UNCHANGED vars PROVE Inv'
    BY <2>4 DEF vars, Inv, TypeOK, BlocksInStorage, BlocksDisjoint
  <2>5. QED
    BY <2>1, <2>2, <2>3, <2>4 DEF Next, AllocateFails
<1>3. Inv => TypeOK /\ BlocksInStorage /\ BlocksDisjoint /\ ThrowsExactlyWhenFull
  BY ThrowsExact DEF Inv
<1>4. QED
  BY <1>1, <1>2, <1>3, PTL DEF Spec

\* Bytes taken and offset_ stay within their ranges: padding and sizes never add up
\* to more than the storage.
THEOREM ArenaTypeCorrect ==
  ASSUME \A r \in Requests : Ordinary(r)
  PROVE  Spec => []TypeOK
<1>1. Spec => [](TypeOK /\ BlocksInStorage /\ BlocksDisjoint /\ ThrowsExactlyWhenFull)
  BY ArenaSafe
<1>2. QED
  BY <1>1, PTL

\* What allocate returns is aligned as asked and lies in the storage.
THEOREM AllocatesInside ==
  ASSUME \A r \in Requests : Ordinary(r)
  PROVE  Spec => []BlocksInStorage
<1>1. Spec => [](TypeOK /\ BlocksInStorage /\ BlocksDisjoint /\ ThrowsExactlyWhenFull)
  BY ArenaSafe
<1>2. QED
  BY <1>1, PTL

\* allocate throws exactly if the rest of the storage has no room for the request.
THEOREM ThrowsOnlyWhenFull ==
  ASSUME \A r \in Requests : Ordinary(r)
  PROVE  Spec => []ThrowsExactlyWhenFull
<1>1. Spec => [](TypeOK /\ BlocksInStorage /\ BlocksDisjoint /\ ThrowsExactlyWhenFull)
  BY ArenaSafe
<1>2. QED
  BY <1>1, PTL

================================================================================
