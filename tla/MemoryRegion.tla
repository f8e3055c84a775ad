---------------------------- MODULE MemoryRegion ----------------------------
(***************************************************************************)
(* Slices of a registered memory region: mr_range.hpp, the buffer()        *)
(* factory of rdma_buffer.hpp, and is_in_mr, slice and remote_addr of      *)
(* ibv_memory_region and nd_memory_region.                                 *)
(*                                                                         *)
(* size_t and uintptr_t are unsigned and of one width.  Addresses are      *)
(* numbers, 0 is the null pointer; a region is [mr, addr, length], where   *)
(* mr tells whether it still has its registration (a region that was moved *)
(* from keeps addr_ and length_).                                          *)
(***************************************************************************)
EXTENDS Naturals, Integers

CONSTANTS
  SizeMod,  \* the modulus of size_t and uintptr_t
  NoValue   \* std::nullopt

ASSUME SizeAssumption == SizeMod \in Nat \ {0, 1}
ASSUME NoValueAssumption == NoValue \notin 0..(SizeMod - 1)

Word == 0..(SizeMod - 1)

\* Unsigned subtraction and addition.
Minus(a, b) == IF b <= a THEN a - b ELSE a - b + SizeMod
Plus(a, b) == IF a + b < SizeMod THEN a + b ELSE a + b - SizeMod

Regions == [mr : BOOLEAN, addr : Word, length : Word]
Buffers == [addr : Word, length : Word]

\* A default-constructed buffer.
NoBuffer == [addr |-> 0, length |-> 0]

\* Seeded fault: the end of the range is computed and compared.
ContainsByEnd(region_length, offset, length) ==
  Plus(offset, length) <= region_length

mr_contains_offset(region_length, offset, length) ==
  offset <= region_length /\ length <= Minus(region_length, offset)

mr_offset_of(base, region_length, address, length) ==
  IF \/ base = 0 \/ address = 0
     \/ region_length > Minus(SizeMod - 1, base) \/ address < base
     \/ ~mr_contains_offset(region_length, Minus(address, base), length)
  THEN NoValue
  ELSE Minus(address, base)

is_in_mr(region, offset, length) ==
  region.mr /\ mr_contains_offset(region.length, offset, length)

\* buffer(mr, offset, n), and slice by offset.
Slice(region, offset, n) ==
  IF is_in_mr(region, offset, n)
  THEN [addr |-> Plus(region.addr, offset), length |-> n]
  ELSE NoBuffer

\* slice by address, which only nd has.
SliceAt(region, address, n) ==
  LET offset == mr_offset_of(region.addr, region.length, address, n) IN
  IF offset # NoValue THEN Slice(region, offset, n) ELSE NoBuffer

\* remote_addr(), without the key.
RemoteAddr(region, offset, n) ==
  IF is_in_mr(region, offset, n) THEN Plus(region.addr, offset) ELSE 0

\* What a region is: memory that does not wrap, at an address.
Registered(region) == region.addr > 0 /\ region.addr + region.length < SizeMod

\* The bytes of the buffer are bytes of the region.
Inside(buffer, region) ==
  /\ region.addr <= buffer.addr
  /\ buffer.addr + buffer.length <= region.addr + region.length
=============================================================================
