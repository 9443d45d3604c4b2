---------------------------------- MODULE Arena ---------------------------------
(* ll::Arena (include/ll/arena.hpp): a bump allocator that is reset between      *)
(* messages, next to the blocks that it has handed out since the last reset.     *)
(* std::size_t and std::uintptr_t are computed modulo Word.                      *)
EXTENDS Integers, FiniteSets

CONSTANTS
  Base,       \* the address of storage_.data()
  Size,       \* storage_.size()
  Word,       \* 2 to the width of std::size_t, scaled down
  Requests,   \* records [n, align]: what is asked of allocate
  MaxBlocks   \* bound: blocks handed out between two resets

ASSUME ArenaAssumption ==
  /\ Base \in Nat /\ Size \in Nat /\ MaxBlocks \in Nat
  /\ Word \in Nat /\ Base + Size < Word
  /\ Requests \subseteq [n : 0 .. Word - 1, align : 1 .. Word - 1]
  /\ \A r \in Requests : \E k \in 0 .. r.align : r.align = 2^k

VARIABLES
  offset_,
  blocks      \* history: blocks [addr, n, align] in use since the last reset

vars == <<offset_, blocks>>

Mod(x) == x % Word

\* A faulty alignment: down to the last aligned address instead of up.
AlignDown(base, align) == base - (base % align)

\* (base + (align - 1)) & ~(align - 1), align being a power of two
AlignUp(base, align) ==
  LET padded == Mod(base + (align - 1)) IN padded - (padded % align)

Aligned(r) == AlignUp(Base + offset_, r.align)
Delta(r) == Mod(Aligned(r) - (Base + offset_))

\* A faulty offset: the padding is not counted.
AfterUnpadded(r) == Mod(offset_ + r.n)

After(r) == Mod(offset_ + Delta(r) + r.n)

Init == offset_ = 0 /\ blocks = {}

\* A faulty check: the padding is not held against the storage.
AllocateUnpadded(r) ==
  /\ offset_ + r.n <= Size
  /\ Cardinality(blocks) < MaxBlocks
  /\ offset_' = After(r)
  /\ blocks' = blocks \union {[addr |-> Aligned(r), n |-> r.n, align |-> r.align]}

\* allocate, or create with a constructor that returns
Allocate(r) ==
  /\ After(r) <= Size
  /\ Cardinality(blocks) < MaxBlocks
  /\ offset_' = After(r)
  /\ blocks' = blocks \union {[addr |-> Aligned(r), n |-> r.n, align |-> r.align]}

\* std::bad_alloc: nothing has changed
AllocateFails(r) ==
  /\ After(r) > Size
  /\ UNCHANGED vars

\* create with a constructor that throws: the bytes stay taken, for no object
CreateThrows(r) ==
  /\ After(r) <= Size
  /\ offset_' = After(r)
  /\ UNCHANGED blocks

Reset ==
  /\ offset_' = 0
  /\ blocks' = {}

Next ==
  \/ \E r \in Requests : Allocate(r) \/ AllocateFails(r) \/ CreateThrows(r)
  \/ Reset

Spec == Init /\ [][Next]_vars

--------------------------------------------------------------------------------
(* Properties *)

Blocks == [addr : Nat, n : 0 .. Word - 1, align : Nat]

\* Types of the offset and of the blocks handed out.
TypeOK ==
  /\ offset_ \in 0..Size
  /\ blocks \subseteq Blocks

\* arena.hpp:26, "Allocate n bytes aligned to align": every block in use starts at
\* a multiple of its alignment and lies within the bytes handed out so far, which
\* lie within the storage.
BlocksInStorage ==
  \A b \in blocks : /\ b.addr % b.align = 0
                    /\ Base <= b.addr /\ b.addr + b.n <= Base + offset_

\* No two blocks in use share a byte, whatever sizes and alignments they were
\* asked for in, and whatever constructors threw in between.
BlocksDisjoint ==
  \A b, c \in blocks :
    b # c => b.addr + b.n <= c.addr \/ c.addr + c.n <= b.addr

\* The overflow-free reference: some aligned address at or above the offset
\* leaves room for n bytes.
Fits(r) ==
  \E a \in Base + offset_ .. Base + Size : a % r.align = 0 /\ a + r.n <= Base + Size

\* bad_alloc is thrown exactly when the aligned block does not fit any more.
ThrowsExactlyWhenFull == \A r \in Requests : After(r) <= Size <=> Fits(r)

\* Requests whose size and padding do not come near the width of size_t.
Ordinary(r) == Base + Size + r.align + r.n <= Word

================================================================================
