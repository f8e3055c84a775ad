--------------------------- MODULE DataPlaneProofs --------------------------
(***************************************************************************)
(* Proofs about the data plane.                                            *)
(*                                                                         *)
(* Slices of a memory region, for every width of size_t; the scatter and   *)
(* gather list that is built from them, for every inline capacity, every   *)
(* sequence of buffers and every mix of builds, reserve() and resize();    *)
(* and the poll-mode completion queue, for any number of operations, any   *)
(* depth of nested calls and any number of handlers that throw.            *)
(***************************************************************************)
EXTENDS SmallSglist, PollCq, SequenceTheorems, WellFoundedInduction, TLAPS
(* Slices. *)

\* mr_contains_offset, which never adds, decides in wrapping arithmetic what
\* the sum decides in unbounded arithmetic.
THEOREM ContainsIsExact ==
  ASSUME NEW rl \in Word, NEW o \in Word, NEW n \in Word
  PROVE  mr_contains_offset(rl, o, n) <=> o + n <= rl
BY SizeAssumption DEF mr_contains_offset, Minus, Word

\* A difference of words is a word, and the difference itself if it is one.
LEMMA MinusIsWord ==
  ASSUME NEW a \in Word, NEW b \in Word
  PROVE  /\ Minus(a, b) \in Word
         /\ b <= a => Minus(a, b) = a - b
BY SizeAssumption DEF Minus, Word

\* mr_offset_of finds an offset exactly for the ranges that lie in the region,
\* and it is the distance from the base: also for ranges and regions that
\* would wrap around the address space.
THEOREM OffsetIsExact ==
  ASSUME NEW base \in Word, NEW rl \in Word, NEW p \in Word, NEW n \in Word,
         base > 0, base + rl < SizeMod
  PROVE  /\ mr_offset_of(base, rl, p, n) # NoValue
              <=> base <= p /\ p + n <= base + rl
         /\ mr_offset_of(base, rl, p, n) # NoValue
              => mr_offset_of(base, rl, p, n) = p - base
<1> DEFINE d == Minus(p, base)
<1>1. SizeMod - 1 \in Word
  BY SizeAssumption DEF Word
<1>2. Minus(SizeMod - 1, base) = SizeMod - 1 - base
  BY <1>1, SizeAssumption DEF Minus, Word
<1>3. ~(rl > Minus(SizeMod - 1, base))
  BY <1>2, SizeAssumption DEF Word
<1>4. /\ d \in Word
      /\ base <= p => d = p - base
      /\ d # NoValue
  BY MinusIsWord, NoValueAssumption DEF Word
<1>5. mr_contains_offset(rl, d, n) <=> d + n <= rl
  BY <1>4, ContainsIsExact
<1>6. CASE base <= p /\ p + n <= base + rl
  <2>1. d = p - base /\ d + n <= rl
    BY <1>4, <1>6, SizeAssumption DEF Word
  <2>2. mr_offset_of(base, rl, p, n) = d
    BY <1>3, <1>5, <1>6, <2>1, SizeAssumption DEF mr_offset_of, Word
  <2> QED BY <1>4, <1>6, <2>1, <2>2
<1>7. CASE ~(base <= p /\ p + n <= base + rl)
  <2>1. p < base \/ ~(d + n <= rl)
    BY <1>4, <1>7, SizeAssumption DEF Word
  <2>2. mr_offset_of(base, rl, p, n) = NoValue
    BY <1>5, <2>1 DEF mr_offset_of
  <2> QED BY <1>7, <2>2
<1> QED BY <1>6, <1>7

\* A slice of a region is the range that was asked for and inside the region,
\* or empty; it is that range whenever the range is in the region.
THEOREM SliceIsInside ==
  ASSUME NEW r \in Regions, Registered(r), NEW o \in Word, NEW n \in Word
  PROVE  /\ Slice(r, o, n) = NoBuffer \/ Inside(Slice(r, o, n), r)
         /\ r.mr /\ o + n <= r.length
              => Slice(r, o, n) = [addr |-> r.addr + o, length |-> n]
<1>1. /\ r.mr \in BOOLEAN /\ r.addr \in Word /\ r.length \in Word
      /\ r.addr + r.length < SizeMod
  BY DEF Regions, Registered
<1>2. mr_contains_offset(r.length, o, n) <=> o + n <= r.length
  BY <1>1, ContainsIsExact
<1>3. CASE r.mr /\ o + n <= r.length
  <2>1. is_in_mr(r, o, n)
    BY <1>2, <1>3 DEF is_in_mr
  <2>2. Plus(r.addr, o) = r.addr + o
    BY <1>1, <1>3, SizeAssumption DEF Plus, Word
  <2>3. Slice(r, o, n) = [addr |-> r.addr + o, length |-> n]
    BY <2>1, <2>2 DEF Slice
  <2>4. Inside(Slice(r, o, n), r)
    BY <1>1, <1>3, <2>3, SizeAssumption DEF Inside, Word
  <2> QED BY <2>3, <2>4
<1>4. CASE ~(r.mr /\ o + n <= r.length)
  <2>1. ~is_in_mr(r, o, n)
    BY <1>2, <1>4 DEF is_in_mr
  <2> QED BY <1>4, <2>1 DEF Slice
<1> QED BY <1>3, <1>4

\* A slice taken by address is the memory that was asked for, at that address
\* and of that length, exactly when the region has its registration and this
\* memory lies in it, and empty otherwise: never other memory of the region.
THEOREM SliceAtIsInside ==
  ASSUME NEW r \in Regions, Registered(r), NEW p \in Word, NEW n \in Word
  PROVE  /\ SliceAt(r, p, n) = NoBuffer \/ Inside(SliceAt(r, p, n), r)
         /\ SliceAt(r, p, n) =
              IF r.mr /\ r.addr <= p /\ p + n <= r.addr + r.length
              THEN [addr |-> p, length |-> n] ELSE NoBuffer
<1> DEFINE o == mr_offset_of(r.addr, r.length, p, n)
<1>1. /\ r.mr \in BOOLEAN /\ r.addr \in Word /\ r.length \in Word
      /\ r.addr > 0 /\ r.addr + r.length < SizeMod
  BY DEF Regions, Registered
<1>2. /\ o # NoValue <=> r.addr <= p /\ p + n <= r.addr + r.length
      /\ o # NoValue => o = p - r.addr
  BY <1>1, OffsetIsExact
<1>3. CASE o = NoValue
  <2>1. SliceAt(r, p, n) = NoBuffer
    BY <1>3 DEF SliceAt
  <2> QED BY <1>2, <1>3, <2>1
<1>4. CASE o # NoValue
  <2>1. SliceAt(r, p, n) = Slice(r, o, n)
    BY <1>4 DEF SliceAt
  <2> HIDE DEF o
  <2>2. o \in Word /\ r.addr + o = p /\ o + n <= r.length
    BY <1>1, <1>2, <1>4, SizeAssumption DEF Word
  <2>3. SliceAt(r, p, n) = NoBuffer \/ Inside(SliceAt(r, p, n), r)
    BY <2>1, <2>2, SliceIsInside
  <2>4. CASE r.mr
    <3>1. Slice(r, o, n) = [addr |-> p, length |-> n]
      BY <2>2, <2>4, SliceIsInside
    <3> QED BY <1>2, <1>4, <2>1, <2>3, <2>4, <3>1
  <2>5. CASE ~r.mr
    <3>1. Slice(r, o, n) = NoBuffer
      BY <2>5 DEF Slice, is_in_mr
    <3> QED BY <2>1, <2>3, <2>5, <3>1
  <2> QED BY <2>4, <2>5
<1> QED BY <1>3, <1>4
-----------------------------------------------------------------------------
(* The inductive invariant of the list and its builder. *)

\* An entry: the build and the position it was written from.
Entry == Nat \X Nat

Built == [count : Nat, total_bytes : 0..MaxOp, all_empty : BOOLEAN,
          too_many_sge : BOOLEAN, buffer_too_large : BOOLEAN,
          heap_spilled : BOOLEAN]

ListTypes ==
  /\ pc \in {"idle", "building", "built"}
  /\ data \in {"null", "inline", "heap"}
  /\ inline \in [1..InlineCount -> Entry]
  /\ heap \in Seq(Entry)
  /\ heap_capacity \in Nat /\ size \in Nat /\ gen \in Nat

BuildTypes ==
  /\ input \in Seq(Buffers)
  /\ max_sge \in Nat
  /\ built \in Built

\* Where data_ points follows from the size, and the heap is as long as its
\* capacity says.
Storage ==
  /\ Len(heap) = heap_capacity
  /\ data = "null" <=> size = 0
  /\ data = "inline" <=> size \in 1..InlineCount
  /\ data = "heap" => size <= heap_capacity

\* From the start of a build to the next call, the list has an entry for
\* every buffer that was taken.
Counted == pc # "idle" => size = built.count /\ built.count <= Len(input)

\* A list that had not allocated when the build began holds the entries of
\* this build, and allocates when it leaves the inline storage.
Fresh ==
  fresh /\ pc # "idle" => /\ \A i \in 1..size : At(i) = <<gen, i>>
                          /\ size <= InlineCount => heap_capacity = 0

\* The buffers came from the region as it is.
RegionTypes == region \in Regions /\ region.addr = Addr /\ region.length = Length
FromRegion ==
  pc # "idle" => \A i \in 1..Len(input) :
                   input[i].length > 0 => region.mr /\ Inside(input[i], region)

ListInv == ListTypes /\ Storage
SglistInv == ListInv /\ BuildTypes /\ Counted /\ Fresh /\ RegionTypes /\ FromRegion
-----------------------------------------------------------------------------
(* What the operations of small_sglist do. *)

\* The new array: as long as asked, the visible entries in front.
LEMMA GrownType ==
  ASSUME ListInv, NEW count \in Nat, size <= count
  PROVE  /\ Grown(count) \in Seq(Entry)
         /\ Len(Grown(count)) = count
         /\ \A i \in 1..size : Grown(count)[i] = At(i)
<1>1. ASSUME NEW i \in 1..size PROVE data # "null" /\ At(i) \in Entry
  <2>1. CASE data = "inline"
    <3>1. i \in 1..InlineCount
      BY <2>1, CountAssumption DEF ListInv, ListTypes, Storage
    <3>2. QED BY <2>1, <3>1 DEF At, ListInv, ListTypes
  <2>2. CASE data = "heap"
    <3>1. i \in 1..Len(heap)
      BY <2>2 DEF ListInv, ListTypes, Storage
    <3>2. QED BY <2>2, <3>1 DEF At, ListInv, ListTypes
  <2>3. data # "null"
    BY DEF ListInv, ListTypes, Storage
  <2>4. QED BY <2>1, <2>2, <2>3 DEF ListInv, ListTypes
<1>2. Zero \in Entry
  BY DEF Zero, Entry
<1>3. \A i \in 1..count : data # "null" /\ i <= size => i \in 1..size
  BY DEF ListInv, ListTypes
<1>4. Grown(count) \in [1..count -> Entry]
  BY <1>1, <1>2, <1>3 DEF Grown
<1>5. Grown(count) \in Seq(Entry) /\ Len(Grown(count)) = count
  BY <1>4
<1>6. \A i \in 1..size : i \in 1..count /\ i <= size
  BY DEF ListInv, ListTypes
<1>7. QED
  BY <1>1, <1>5, <1>6 DEF Grown

\* An allocation is made for more entries than there are.
LEMMA RoomForAll ==
  ASSUME ListInv, NEW count \in Nat, Reallocates(count)
  PROVE  size <= count
BY CountAssumption DEF ListInv, ListTypes, Storage, Reallocates

\* The array after reserve(count).
LEMMA ReservedType ==
  ASSUME ListInv, NEW count \in Nat
  PROVE  /\ ReservedHeap(count) \in Seq(Entry)
         /\ Len(ReservedHeap(count)) = IF Reallocates(count) THEN count
                                       ELSE heap_capacity
<1>1. CASE Reallocates(count)
  BY <1>1, RoomForAll, GrownType DEF ReservedHeap
<1>2. CASE ~Reallocates(count)
  BY <1>2 DEF ReservedHeap, ListInv, ListTypes, Storage
<1>3. QED
  BY <1>1, <1>2

\* reserve() keeps the list in its storage.
LEMMA ReserveStorage ==
  ASSUME ListInv, NEW count \in Nat, Reserve(count), pc' = "idle", UNCHANGED gen
  PROVE  ListInv'
<1>1. /\ heap' \in Seq(Entry) /\ Len(heap') = heap_capacity'
      /\ heap_capacity' \in Nat
      /\ heap_capacity' = IF Reallocates(count) THEN count ELSE heap_capacity
  BY ReservedType DEF Reserve, ListInv, ListTypes
<1>2. ListTypes'
  BY <1>1 DEF Reserve, ListInv, ListTypes
<1>3. Storage'
  <2>1. CASE Reallocates(count)
    BY <1>1, <2>1, RoomForAll, CountAssumption
       DEF Reserve, ListInv, ListTypes, Storage
  <2>2. CASE ~Reallocates(count)
    BY <1>1, <2>2 DEF Reserve, ListInv, ListTypes, Storage
  <2>3. QED BY <2>1, <2>2
<1>4. QED
  BY <1>2, <1>3 DEF ListInv

\* clear() does.
LEMMA ClearStorage ==
  ASSUME ListInv, Clear, pc' \in {"idle", "building"}, gen' \in Nat
  PROVE  ListInv'
BY CountAssumption DEF Clear, ListInv, ListTypes, Storage

\* resize() does.
LEMMA ResizeStorage ==
  ASSUME ListInv, NEW count \in Nat, Resize(count), pc' = "idle", UNCHANGED gen
  PROVE  ListInv'
<1>1. CASE count = 0
  BY <1>1, ClearStorage DEF Resize, ListInv, ListTypes
<1>2. CASE count # 0
  <2>1. /\ heap' \in Seq(Entry) /\ Len(heap') = heap_capacity'
        /\ heap_capacity' \in Nat
        /\ heap_capacity' = IF Reallocates(count) THEN count ELSE heap_capacity
    BY <1>2, ReservedType DEF Resize, ListInv, ListTypes
  <2>2. inline' \in [1..InlineCount -> Entry]
    <3>1. ASSUME NEW i \in 1..InlineCount, data = "heap", i <= size
          PROVE  heap[i] \in Entry
      <4>1. i \in 1..Len(heap)
        BY <3>1, CountAssumption DEF ListInv, ListTypes, Storage
      <4>2. QED
        BY <4>1 DEF ListInv, ListTypes
    <3>2. QED
      BY <1>2, <3>1 DEF Resize, ListInv, ListTypes
  <2>3. /\ data' = IF count <= InlineCount THEN "inline" ELSE "heap"
        /\ size' = count
    BY <1>2 DEF Resize
  <2>4. ListTypes'
    BY <2>1, <2>2, <2>3 DEF ListInv, ListTypes
  <2>5. Storage'
    BY <1>2, <2>1, <2>3, CountAssumption DEF Storage, Reallocates, ListInv, ListTypes
  <2>6. QED
    BY <2>4, <2>5 DEF ListInv
<1>3. QED
  BY <1>1, <1>2

\* append asks for room enough.
LEMMA GrowthEnough ==
  ASSUME ListInv, NEW target \in Nat
  PROVE  Growth(target) \in Nat /\ Growth(target) >= target
<1>1. InlineCount * 2 \in Nat /\ heap_capacity * 2 \in Nat
  BY CountAssumption DEF ListInv, ListTypes
<1>2. QED
  BY <1>1 DEF Growth, Greatest

\* append_uninitialized() writes its entry behind the others, in storage.  The
\* entries before it are kept unless they would have to move from the inline
\* array to an allocation that was kept.
LEMMA AppendStorage ==
  ASSUME ListInv, NEW entry \in Entry, Append1(entry), UNCHANGED <<pc, gen>>
  PROVE  /\ ListInv'
         /\ size' = size + 1
         /\ \A n \in Nat : n = size + 1 => At(n)' = entry
         /\ size + 1 <= InlineCount => UNCHANGED heap_capacity
         /\ (size = InlineCount => heap_capacity = 0)
              => \A i \in 1..size : At(i)' = At(i)
<1> DEFINE target == size + 1
           grow == target > InlineCount /\ target > heap_capacity
           heap1 == IF grow THEN ReservedHeap(Growth(target)) ELSE heap
           data1 == IF data = "null" THEN "inline"
                    ELSE IF target > InlineCount THEN "heap" ELSE data
<1>1. /\ size \in Nat /\ heap_capacity \in Nat /\ InlineCount \in Nat \ {0}
      /\ data \in {"null", "inline", "heap"} /\ target \in Nat /\ target > size
  BY CountAssumption DEF ListInv, ListTypes
<1>2. data1 = IF target <= InlineCount THEN "inline" ELSE "heap"
  BY <1>1 DEF ListInv, Storage
<1>3. grow => Reallocates(Growth(target))
  BY <1>1, GrowthEnough DEF Reallocates
<1>4. /\ heap1 \in Seq(Entry)
      /\ Len(heap1) = IF grow THEN Growth(target) ELSE heap_capacity
  <2>1. CASE grow
    BY <1>1, <1>3, <2>1, GrowthEnough, ReservedType
  <2>2. CASE ~grow
    BY <2>2 DEF ListInv, ListTypes, Storage
  <2>3. QED BY <2>1, <2>2
<1>5. /\ heap_capacity' = Len(heap1) /\ data' = data1 /\ size' = target
      /\ IF data1 = "inline"
           THEN inline' = [inline EXCEPT ![target] = entry] /\ heap' = heap1
           ELSE heap' = [heap1 EXCEPT ![target] = entry] /\ UNCHANGED inline
  BY <1>4 DEF Append1
<1>6. data1 = "heap" => target \in 1..Len(heap1)
  <2>1. Growth(target) \in Nat /\ Growth(target) >= target
    BY <1>1, GrowthEnough
  <2>2. data1 = "heap" => target > InlineCount
    BY <1>1, <1>2
  <2>3. data1 = "heap" => Len(heap1) \in Nat /\ Len(heap1) >= target
    BY <1>1, <1>4, <2>1, <2>2
  <2>4. QED
    BY <1>1, <2>3
<1>7. data1 = "heap" =>
        \A i \in 1..size : (size = InlineCount => heap_capacity = 0)
                             => heap1[i] = At(i)
  <2> SUFFICES ASSUME data1 = "heap", NEW i \in 1..size,
                      size = InlineCount => heap_capacity = 0
               PROVE  heap1[i] = At(i)
    OBVIOUS
  <2>1. CASE grow
    <3>1. heap1 = Grown(Growth(target))
      BY <1>3, <2>1 DEF ReservedHeap
    <3>2. QED
      <4>1. Growth(target) \in Nat /\ size <= Growth(target)
        BY <1>1, GrowthEnough
      <4>2. QED BY <3>1, <4>1, GrownType
  <2>2. CASE ~grow
    <3>1. data = "heap"
      BY <1>1, <1>2, <2>2 DEF ListInv, Storage
    <3>2. QED
      BY <2>2, <3>1 DEF At
  <2>3. QED BY <2>1, <2>2
<1>8. ListTypes'
  <2>1. heap' \in Seq(Entry) /\ heap_capacity' \in Nat
    BY <1>4, <1>5, <1>6
  <2>2. inline' \in [1..InlineCount -> Entry]
    BY <1>1, <1>2, <1>5 DEF ListInv, ListTypes
  <2>3. data' \in {"null", "inline", "heap"} /\ size' \in Nat
    BY <1>1, <1>2, <1>5
  <2>4. QED
    BY <2>1, <2>2, <2>3 DEF ListInv, ListTypes
<1>9. Storage'
  <2>1. Len(heap') = Len(heap1)
    BY <1>4, <1>5, <1>6
  <2>2. QED
    BY <1>1, <1>2, <1>5, <1>6, <2>1 DEF Storage
<1>10. ASSUME NEW n \in Nat, n = size + 1 PROVE At(n)' = entry
  <2>1. CASE data1 = "inline"
    <3>1. target \in 1..InlineCount
      BY <1>1, <1>2, <2>1
    <3>2. inline'[target] = entry /\ data' = "inline"
      BY <1>5, <2>1, <3>1 DEF ListInv, ListTypes
    <3>3. QED BY <1>10, <3>2 DEF At
  <2>2. CASE data1 = "heap"
    <3>1. heap'[target] = entry /\ data' = "heap"
      BY <1>4, <1>5, <1>6, <2>2
    <3>2. QED BY <1>10, <3>1 DEF At
  <2>3. QED BY <1>2, <2>1, <2>2
<1>11. target <= InlineCount => UNCHANGED heap_capacity
  BY <1>1, <1>4, <1>5 DEF ListInv, ListTypes
<1>12. (size = InlineCount => heap_capacity = 0) => \A i \in 1..size : At(i)' = At(i)
  <2> SUFFICES ASSUME size = InlineCount => heap_capacity = 0, NEW i \in 1..size
               PROVE  At(i)' = At(i)
    OBVIOUS
  <2>1. CASE data1 = "inline"
    <3>1. data = "inline" /\ i # target /\ i \in 1..InlineCount
      BY <1>1, <1>2, <2>1 DEF ListInv, Storage
    <3>2. QED
      BY <1>5, <2>1, <3>1 DEF At, ListInv, ListTypes
  <2>2. CASE data1 = "heap"
    <3>1. i # target /\ i \in 1..Len(heap1)
      BY <1>1, <1>6, <2>2
    <3>2. heap'[i] = heap1[i] /\ data' = "heap"
      BY <1>4, <1>5, <1>6, <2>2, <3>1
    <3>3. QED
      BY <1>7, <2>2, <3>2 DEF At
  <2>3. QED BY <1>2, <2>1, <2>2
<1>13. QED
  BY <1>5, <1>8, <1>9, <1>10, <1>11, <1>12 DEF ListInv
-----------------------------------------------------------------------------
(* The invariant is kept by every step. *)

LEMMA ListInit == Init => ListInv
BY CountAssumption DEF Init, ListInv, ListTypes, Storage, Zero, Entry

LEMMA ListStep == ListInv /\ BuildTypes /\ [Next]_vars => ListInv'
<1> SUFFICES ASSUME ListInv, BuildTypes, [Next]_vars PROVE ListInv'
  OBVIOUS
<1>1. ASSUME MoveRegion PROVE ListInv'
  BY <1>1 DEF MoveRegion, list, ListInv, ListTypes, Storage
<1>2. ASSUME CallReserve PROVE ListInv'
  BY <1>2, CallAssumption, ReserveStorage DEF CallReserve
<1>3. ASSUME CallResize PROVE ListInv'
  BY <1>3, CallAssumption, ResizeStorage DEF CallResize
<1>4. ASSUME BuildStart PROVE ListInv'
  <2>1. Clear /\ pc' = "building" /\ gen' \in Nat
    BY <1>4 DEF BuildStart, ListInv, ListTypes
  <2>2. QED
    BY <2>1, ClearStorage
<1>5. ASSUME BuildEnd PROVE ListInv'
  BY <1>5 DEF BuildEnd, list, ListInv, ListTypes, Storage
<1>6. ASSUME BuildNext PROVE ListInv'
  <2>1. Append1(<<gen, built.count + 1>>) /\ UNCHANGED <<pc, gen>>
    BY <1>6 DEF BuildNext
  <2>2. <<gen, built.count + 1>> \in Entry
    BY DEF BuildTypes, Built, ListInv, ListTypes, Entry
  <2>3. QED
    BY <2>1, <2>2, AppendStorage
<1>7. CASE UNCHANGED vars
  BY <1>7 DEF vars, list, ListInv, ListTypes, Storage
<1>8. QED
  BY <1>1, <1>2, <1>3, <1>4, <1>5, <1>6, <1>7 DEF Next

\* The size test admits a buffer exactly when the sum still fits the length
\* field: in wrapping arithmetic, with nothing wrapped.
LEMMA FitsExactly ==
  ASSUME NEW total \in 0..MaxOp, NEW length \in Word
  PROVE  /\ ~(length > MaxOp \/ total > (MaxOp - length) % SizeMod)
              <=> total + length <= MaxOp
         /\ total + length <= MaxOp => (total + length) % SizeMod = total + length
<1>1. MaxOp \in Nat /\ MaxOp < SizeMod /\ SizeMod \in Nat /\ length \in Nat
  BY WidthAssumption, SizeAssumption DEF Word
<1>2. CASE length <= MaxOp
  <2>1. MaxOp - length \in 0..(SizeMod - 1)
    BY <1>1, <1>2
  <2>2. (MaxOp - length) % SizeMod = MaxOp - length
    BY <1>1, <2>1
  <2>3. total + length <= MaxOp => total + length \in 0..(SizeMod - 1)
    BY <1>1
  <2>4. total + length <= MaxOp => (total + length) % SizeMod = total + length
    BY <1>1, <2>3
  <2>5. QED
    BY <1>1, <1>2, <2>2, <2>4
<1>3. CASE length > MaxOp
  BY <1>1, <1>3
<1>4. QED
  BY <1>1, <1>2, <1>3

\* What a request is answered with is a buffer: inside the region, or empty,
\* and empty when the region was moved from.
LEMMA AnswerType ==
  ASSUME RegionTypes, NEW q \in Requests
  PROVE  /\ Answer(q) \in Buffers
         /\ Answer(q).length > 0 => region.mr /\ Inside(Answer(q), region)
<1>1. /\ q.by \in {"offset", "address"} /\ q.at \in Word /\ q.length \in Word
      /\ region \in Regions /\ Registered(region)
  BY InputAssumption, RegionAssumption DEF RegionTypes, Registered
<1>2. NoBuffer \in Buffers /\ NoBuffer.length = 0
  BY SizeAssumption DEF NoBuffer, Buffers, Word
<1>3. ASSUME NEW o \in Word
      PROVE  /\ Slice(region, o, q.length) \in Buffers
             /\ Slice(region, o, q.length).length > 0 => region.mr
  <2>1. CASE is_in_mr(region, o, q.length)
    <3>1. Plus(region.addr, o) \in Word
      BY <1>1, SizeAssumption DEF Plus, Word, Regions
    <3>2. QED
      BY <1>1, <2>1, <3>1 DEF Slice, is_in_mr, Buffers
  <2>2. CASE ~is_in_mr(region, o, q.length)
    BY <1>2, <2>2 DEF Slice
  <2>3. QED BY <2>1, <2>2
<1>4. CASE q.by = "offset"
  <2>1. Answer(q) = Slice(region, q.at, q.length)
    BY <1>4 DEF Answer
  <2>2. Answer(q) = NoBuffer \/ Inside(Answer(q), region)
    BY <1>1, <2>1, SliceIsInside
  <2>3. QED
    BY <1>1, <1>2, <1>3, <2>1, <2>2
<1>5. CASE q.by = "address"
  <2>1. Answer(q) = SliceAt(region, q.at, q.length)
    BY <1>5 DEF Answer
  <2>2. Answer(q) = NoBuffer \/ Inside(Answer(q), region)
    BY <1>1, <2>1, SliceAtIsInside
  <2>3. Answer(q) = NoBuffer \/ \E o \in Word : Answer(q) = Slice(region, o, q.length)
    <3> DEFINE o == mr_offset_of(region.addr, region.length, q.at, q.length)
    <3>1. o # NoValue => o \in Word
      BY <1>1, MinusIsWord DEF mr_offset_of, Regions
    <3>2. QED
      BY <2>1, <3>1 DEF SliceAt
  <2>4. QED
    BY <1>1, <1>2, <1>3, <2>2, <2>3
<1>6. QED
  BY <1>1, <1>4, <1>5

LEMMA RegionStep == RegionTypes /\ [Next]_vars => RegionTypes'
<1> SUFFICES ASSUME RegionTypes, [Next]_vars PROVE RegionTypes'
  OBVIOUS
<1>1. ASSUME MoveRegion PROVE RegionTypes'
  BY <1>1 DEF MoveRegion, RegionTypes, Regions
<1>2. CASE UNCHANGED region
  BY <1>2 DEF RegionTypes
<1>3. QED
  BY <1>1, <1>2 DEF Next, CallReserve, CallResize, BuildStart, BuildEnd, BuildNext, vars

\* The sequence that a build starts with.
LEMMA InputType ==
  ASSUME RegionTypes, BuildStart
  PROVE  /\ input' \in Seq(Buffers)
         /\ \A i \in 1..Len(input') :
              input'[i].length > 0 => region.mr /\ Inside(input'[i], region)
<1>1. PICK n \in 0..MaxBufs : input' \in [1..n -> {Answer(q) : q \in Requests}]
  BY DEF BuildStart
<1>2. n \in Nat
  BY CountAssumption
<1>3. \A i \in 1..n : \E q \in Requests : input'[i] = Answer(q)
  BY <1>1
<1>4. input' \in [1..n -> Buffers]
  BY <1>1, AnswerType
<1>5. input' \in Seq(Buffers) /\ Len(input') = n
  BY <1>2, <1>4
<1>6. QED
  BY <1>3, <1>5, AnswerType

\* The buffer that is next in the sequence, and the sum with it.
LEMMA NextBuffer ==
  ASSUME BuildTypes, BuildNext
  PROVE  /\ input[built.count + 1].length \in Word
         /\ built' \in Built
         /\ built'.count = built.count + 1
         /\ built'.total_bytes = built.total_bytes + input[built.count + 1].length
<1> DEFINE length == input[built.count + 1].length
<1>1. /\ built.count \in Nat /\ built.total_bytes \in 0..MaxOp
      /\ built.count < Len(input) /\ Len(input) \in Nat
  BY DEF BuildTypes, Built, BuildNext
<1>2. built.count + 1 \in 1..Len(input)
  BY <1>1
<1>3. length \in Word
  <2>1. input[built.count + 1] \in Buffers
    BY <1>2 DEF BuildTypes
  <2>2. QED
    BY <2>1 DEF Buffers
<1>4. PICK empty \in BOOLEAN :
        built' = [built EXCEPT !.count = built.count + 1,
                               !.total_bytes = (built.total_bytes + length) % SizeMod,
                               !.all_empty = empty]
  BY DEF BuildNext
<1>5. ~TooLarge(length)
  BY DEF BuildNext
<1> HIDE DEF length
<1>6. /\ built.total_bytes + length <= MaxOp
      /\ (built.total_bytes + length) % SizeMod = built.total_bytes + length
  BY <1>1, <1>3, <1>5, FitsExactly DEF TooLarge
<1>7. built.total_bytes + length \in 0..MaxOp
  <2>1. MaxOp \in Nat /\ length \in Nat /\ built.total_bytes \in Nat
    BY <1>1, <1>3, SizeAssumption, WidthAssumption DEF Word
  <2>2. QED
    BY <1>6, <2>1
<1> DEFINE sum == (built.total_bytes + length) % SizeMod
<1>8. sum \in 0..MaxOp /\ sum = built.total_bytes + length
  BY <1>6, <1>7
<1>9. built' = [built EXCEPT !.count = built.count + 1, !.total_bytes = sum,
                             !.all_empty = empty]
  BY <1>4
<1> HIDE DEF sum
<1>10. built' \in Built /\ built'.count = built.count + 1 /\ built'.total_bytes = sum
  <2>1. built \in Built
    BY DEF BuildTypes
  <2>2. built.count + 1 \in Nat
    BY <1>1
  <2>3. QED
    BY <1>8, <1>9, <2>1, <2>2 DEF Built
<1>11. QED
  BY <1>3, <1>8, <1>10 DEF length

LEMMA BuildStep == BuildTypes /\ RegionTypes /\ [Next]_vars => BuildTypes'
<1> SUFFICES ASSUME BuildTypes, RegionTypes, [Next]_vars PROVE BuildTypes'
  OBVIOUS
<1>1. ASSUME MoveRegion \/ CallReserve \/ CallResize PROVE BuildTypes'
  BY <1>1 DEF MoveRegion, CallReserve, CallResize, BuildTypes
<1>2. ASSUME BuildStart PROVE BuildTypes'
  <2>1. max_sge' \in Nat
    BY <1>2, InputAssumption DEF BuildStart
  <2>2. built' \in Built
    BY <1>2, WidthAssumption, SizeAssumption DEF BuildStart, NewBuilt, Built, Word
  <2>3. QED
    BY <1>2, <2>1, <2>2, InputType DEF BuildTypes
<1>3. ASSUME BuildEnd PROVE BuildTypes'
  <2>1. PICK many \in BOOLEAN, large \in BOOLEAN, spilled \in BOOLEAN :
          built' = [built EXCEPT !.too_many_sge = many, !.buffer_too_large = large,
                                 !.heap_spilled = spilled]
    BY <1>3 DEF BuildEnd, UsesHeap, TooMany, TooLarge
  <2>2. UNCHANGED <<input, max_sge>>
    BY <1>3 DEF BuildEnd
  <2>3. QED
    BY <2>1, <2>2 DEF BuildTypes, Built
<1>4. ASSUME BuildNext PROVE BuildTypes'
  BY <1>4, NextBuffer DEF BuildNext, BuildTypes
<1>5. CASE UNCHANGED vars
  BY <1>5 DEF vars, BuildTypes
<1>6. QED
  BY <1>1, <1>2, <1>3, <1>4, <1>5 DEF Next

\* What an append does to the list during a build.
LEMMA AppendBuild ==
  ASSUME ListInv, BuildTypes, BuildNext
  PROVE  /\ size' = size + 1
         /\ \A n \in Nat : n = size + 1 => At(n)' = <<gen, built.count + 1>>
         /\ size + 1 <= InlineCount => UNCHANGED heap_capacity
         /\ (size = InlineCount => heap_capacity = 0)
              => \A i \in 1..size : At(i)' = At(i)
<1>1. Append1(<<gen, built.count + 1>>) /\ UNCHANGED <<pc, gen>>
  BY DEF BuildNext
<1>2. <<gen, built.count + 1>> \in Entry
  BY DEF BuildTypes, Built, ListInv, ListTypes, Entry
<1>3. QED
  BY <1>1, <1>2, AppendStorage

LEMMA CountedStep == ListInv /\ BuildTypes /\ Counted /\ [Next]_vars => Counted'
<1> SUFFICES ASSUME ListInv, BuildTypes, Counted, [Next]_vars PROVE Counted'
  OBVIOUS
<1>1. ASSUME MoveRegion \/ CallReserve \/ CallResize PROVE Counted'
  BY <1>1 DEF MoveRegion, CallReserve, CallResize, Counted
<1>2. ASSUME BuildStart PROVE Counted'
  <2>1. size' = 0 /\ built'.count = 0
    BY <1>2 DEF BuildStart, Clear, NewBuilt
  <2>2. \E n \in 0..MaxBufs : Len(input') = n
    BY <1>2, CountAssumption DEF BuildStart
  <2>3. QED
    BY <2>1, <2>2, CountAssumption DEF Counted
<1>3. ASSUME BuildEnd PROVE Counted'
  <2>1. built'.count = built.count /\ UNCHANGED <<size, input>> /\ pc # "idle"
    BY <1>3 DEF BuildEnd, list, BuildTypes, Built
  <2>2. QED
    BY <2>1 DEF Counted
<1>4. ASSUME BuildNext PROVE Counted'
  <2>1. built'.count = built.count + 1 /\ size' = size + 1
    BY <1>4, NextBuffer, AppendBuild
  <2>2. built.count < Len(input) /\ UNCHANGED <<pc, input>> /\ pc # "idle"
    BY <1>4 DEF BuildNext
  <2>3. QED
    BY <2>1, <2>2 DEF Counted, BuildTypes, Built
<1>5. CASE UNCHANGED vars
  BY <1>5 DEF vars, list, Counted
<1>6. QED
  BY <1>1, <1>2, <1>3, <1>4, <1>5 DEF Next

LEMMA FreshStep ==
  ListInv /\ BuildTypes /\ Counted /\ Fresh /\ [Next]_vars => Fresh'
<1> SUFFICES ASSUME ListInv, BuildTypes, Counted, Fresh, [Next]_vars PROVE Fresh'
  OBVIOUS
<1>1. ASSUME MoveRegion \/ CallReserve \/ CallResize PROVE Fresh'
  BY <1>1 DEF MoveRegion, CallReserve, CallResize, Fresh
<1>2. ASSUME BuildStart PROVE Fresh'
  <2>1. size' = 0 /\ UNCHANGED heap_capacity /\ (fresh' <=> heap_capacity = 0)
    BY <1>2 DEF BuildStart, Clear
  <2>2. QED
    BY <2>1 DEF Fresh
<1>3. ASSUME BuildEnd PROVE Fresh'
  BY <1>3 DEF BuildEnd, list, Fresh, At
<1>4. ASSUME BuildNext PROVE Fresh'
  <2>1. pc = "building" /\ UNCHANGED <<pc, gen, fresh>>
    BY <1>4 DEF BuildNext
  <2> SUFFICES ASSUME fresh
               PROVE  /\ \A i \in 1..size' : At(i)' = <<gen, i>>
                      /\ size' <= InlineCount => heap_capacity' = 0
    BY <2>1 DEF Fresh
  <2>2. /\ \A i \in 1..size : At(i) = <<gen, i>>
        /\ size <= InlineCount => heap_capacity = 0
        /\ size = built.count /\ size \in Nat /\ InlineCount \in Nat
    BY <2>1, CountAssumption DEF Fresh, Counted, ListInv, ListTypes
  <2>3. /\ size' = size + 1
        /\ \A n \in Nat : n = size + 1 => At(n)' = <<gen, size + 1>>
        /\ size + 1 <= InlineCount => UNCHANGED heap_capacity
        /\ \A i \in 1..size : At(i)' = At(i)
    BY <1>4, <2>2, AppendBuild
  <2>4. ASSUME NEW i \in 1..size' PROVE At(i)' = <<gen, i>>
    <3>1. CASE i \in 1..size
      BY <2>2, <2>3, <3>1
    <3>2. CASE i = size + 1
      BY <2>2, <2>3, <3>2
    <3>3. QED BY <2>2, <2>3, <3>1, <3>2
  <2>5. QED
    BY <2>2, <2>3, <2>4
<1>5. CASE UNCHANGED vars
  BY <1>5 DEF vars, list, Fresh, At
<1>6. QED
  BY <1>1, <1>2, <1>3, <1>4, <1>5 DEF Next

LEMMA FromRegionStep ==
  RegionTypes /\ FromRegion /\ [Next]_vars => FromRegion'
<1> SUFFICES ASSUME RegionTypes, FromRegion, [Next]_vars PROVE FromRegion'
  OBVIOUS
<1>1. ASSUME MoveRegion \/ CallReserve \/ CallResize PROVE FromRegion'
  BY <1>1 DEF MoveRegion, CallReserve, CallResize, FromRegion
<1>2. ASSUME BuildStart PROVE FromRegion'
  <2>1. UNCHANGED region
    BY <1>2 DEF BuildStart
  <2>2. QED
    BY <1>2, <2>1, InputType DEF FromRegion, Inside
<1>3. ASSUME BuildEnd \/ BuildNext PROVE FromRegion'
  BY <1>3 DEF BuildEnd, BuildNext, FromRegion, Inside
<1>4. CASE UNCHANGED vars
  BY <1>4 DEF vars, FromRegion, Inside
<1>5. QED
  BY <1>1, <1>2, <1>3, <1>4 DEF Next
-----------------------------------------------------------------------------
LEMMA SglistInit == Init => SglistInv
<1> SUFFICES ASSUME Init PROVE SglistInv
  OBVIOUS
<1>1. BuildTypes
  BY WidthAssumption, SizeAssumption DEF Init, BuildTypes, NewBuilt, Built, Word
<1>2. RegionTypes
  BY RegionAssumption DEF Init, RegionTypes, Regions
<1>3. Counted /\ Fresh /\ FromRegion
  BY DEF Init, Counted, Fresh, FromRegion
<1>4. QED
  BY <1>1, <1>2, <1>3, ListInit DEF SglistInv

LEMMA SglistInvariant == Spec => []SglistInv
<1>1. SglistInv /\ [Next]_vars => SglistInv'
  BY ListStep, BuildStep, CountedStep, FreshStep, RegionStep, FromRegionStep
     DEF SglistInv
<1>2. QED
  BY SglistInit, <1>1, PTL DEF Spec

\* The list never points past its storage: the visible entries fit the array
\* that data_ points to, whatever was built, reserved and resized before.
THEOREM ListInBounds == Spec => []InBounds
<1>1. SglistInv => InBounds
  BY CountAssumption
     DEF SglistInv, ListInv, ListTypes, Storage, InBounds, capacity, UsesHeap
<1>2. QED
  BY <1>1, SglistInvariant, PTL

\* A list that had not allocated hands ibv_post_* the buffers of the sequence,
\* in order, across the spill to the heap and every growth after it.
THEOREM FreshBuildIsFaithful == Spec => []FreshListHoldsBuffers
<1>1. SglistInv => FreshListHoldsBuffers
  BY DEF SglistInv, Counted, Fresh, FreshListHoldsBuffers, ListHoldsBuffers
<1>2. QED
  BY <1>1, SglistInvariant, PTL

\* Whatever offsets, addresses and lengths were asked for, what is posted is
\* memory of the region, and a region that was moved from gives none.
THEOREM PostsOnlyTheRegion == Spec => []PostedInRegion
<1>1. SglistInv => PostedInRegion
  BY DEF SglistInv, FromRegion, PostedInRegion
<1>2. QED
  BY <1>1, SglistInvariant, PTL

\* The running total of build_native_sglist is the exact sum: the addition in
\* size_t never wraps, and the total fits the 32-bit length field.
TotalIsExact ==
  BuildNext =>
    /\ built'.total_bytes = built.total_bytes + input[built.count + 1].length
    /\ built'.total_bytes <= MaxOp

\* Every addition of a build is exact, whatever the lengths: the builder tests
\* against the limit before it adds.
THEOREM TotalNeverWraps == Spec => [][TotalIsExact]_vars
<1>1. SglistInv /\ [Next]_vars => [TotalIsExact]_vars
  <2> SUFFICES ASSUME SglistInv, BuildNext PROVE TotalIsExact
    BY DEF TotalIsExact
  <2>1. built' \in Built
        /\ built'.total_bytes = built.total_bytes + input[built.count + 1].length
    BY NextBuffer DEF SglistInv
  <2>2. built'.total_bytes <= MaxOp
    BY <2>1, WidthAssumption, SizeAssumption DEF Built, Word
  <2>3. QED
    BY <2>1, <2>2 DEF TotalIsExact
<1>2. QED
  BY <1>1, SglistInvariant, PTL DEF Spec
-----------------------------------------------------------------------------
(* Induction, in the form the provers can use: on a set of numbers. *)

LEMMA LeastElement ==
  ASSUME NEW S, S \subseteq Nat, S # {}
  PROVE  \E m \in S : \A n \in S : m <= n
<1>1. OpToRel(<, Nat) = {ss \in Nat \X Nat : ss[1] < ss[2]}
  BY DEF OpToRel
<1>2. PICK x \in S : \A y \in S : ~(<<y, x>> \in OpToRel(<, Nat))
  BY NatLessThanWellFounded, WFMin
<1>3. \A y \in S : <<y, x>> \in OpToRel(<, Nat) <=> y < x
  BY <1>1
<1>4. \A y \in S : ~(y < x)
  BY <1>2, <1>3
<1> HIDE <1>2, <1>3
<1> QED BY <1>4

LEMMA SetInduction ==
  ASSUME NEW S, S \subseteq Nat, 0 \in S, \A n \in S : n + 1 \in S
  PROVE  S = Nat
<1> SUFFICES ASSUME Nat \ S # {} PROVE FALSE
  OBVIOUS
<1>1. PICK m \in Nat \ S : \A n \in Nat \ S : m <= n
  BY LeastElement
<1>2. m # 0 /\ m - 1 \in Nat /\ m - 1 \in S
  BY <1>1
<1> QED BY <1>2
-----------------------------------------------------------------------------
(* The verdict of the builder. *)

Lengths(s) == \A i \in 1..Len(s) : s[i].length \in Nat

\* Sum is what its recursion says.
LEMMA SumUnfolds ==
  ASSUME NEW s, Len(s) \in Nat, Lengths(s)
  PROVE  /\ Sum(s, 0) = 0
         /\ \A n \in 1..Len(s) : /\ n - 1 \in 0..Len(s)
                                 /\ Sum(s, n) = Sum(s, n - 1) + s[n].length
         /\ \A n \in 0..Len(s) : Sum(s, n) \in Nat
<1> DEFINE R(f, n) == /\ f \in [0..n -> Nat]
                      /\ \A k \in 0..n : f[k] = IF k = 0 THEN 0
                                                ELSE f[k - 1] + s[k].length
           S == {n \in Nat : n <= Len(s) => \E f \in [0..n -> Nat] : R(f, n)}
<1>1. 0 \in S
  <2> DEFINE f == [k \in 0..0 |-> 0]
  <2>1. \A k \in 0..0 : k = 0
    OBVIOUS
  <2>2. f \in [0..0 -> Nat] /\ \A k \in 0..0 : f[k] = 0
    OBVIOUS
  <2> HIDE DEF f
  <2>3. R(f, 0)
    BY <2>1, <2>2
  <2> QED BY <2>2, <2>3
<1>2. ASSUME NEW n \in S PROVE n + 1 \in S
  <2>0. n \in Nat /\ n + 1 \in Nat
    OBVIOUS
  <2> SUFFICES ASSUME n + 1 <= Len(s)
               PROVE  \E f \in [0..(n + 1) -> Nat] : R(f, n + 1)
    BY <2>0
  <2>1. PICK f \in [0..n -> Nat] : R(f, n)
    BY <1>2
  <2>2. n \in Nat /\ n + 1 \in 1..Len(s) /\ s[n + 1].length \in Nat
    BY <1>2 DEF Lengths
  <2> DEFINE g == [k \in 0..(n + 1) |-> IF k = n + 1 THEN f[n] + s[n + 1].length
                                        ELSE f[k]]
  <2>3. g \in [0..(n + 1) -> Nat]
    <3>1. f[n] \in Nat /\ \A k \in 0..(n + 1) : k # n + 1 => k \in 0..n
      BY <2>2
    <3> QED BY <2>2, <3>1
  <2>4. ASSUME NEW k \in 0..(n + 1)
        PROVE  g[k] = IF k = 0 THEN 0 ELSE g[k - 1] + s[k].length
    <3>1. CASE k = n + 1
      <4>1. n \in 0..(n + 1) /\ n # n + 1
        BY <2>2
      <4>2. g[n] = f[n] /\ g[n + 1] = f[n] + s[n + 1].length
        BY <2>2, <4>1
      <4> HIDE DEF g
      <4> QED BY <2>2, <3>1, <4>2
    <3>2. CASE k # n + 1
      <4>1. k \in 0..n /\ (k # 0 => k - 1 \in 0..n /\ k - 1 # n + 1 /\ k - 1 \in 0..(n + 1))
        BY <2>2, <3>2
      <4>2. g[k] = f[k] /\ (k # 0 => g[k - 1] = f[k - 1])
        BY <3>2, <4>1
      <4>3. f[k] = IF k = 0 THEN 0 ELSE f[k - 1] + s[k].length
        BY <2>1, <4>1
      <4> HIDE DEF g
      <4> QED BY <4>2, <4>3
    <3> QED BY <3>1, <3>2
  <2> HIDE DEF g
  <2>5. R(g, n + 1)
    BY <2>3, <2>4
  <2> QED BY <2>3, <2>5
<1>3. S = Nat
  <2> HIDE DEF S
  <2>1. S \subseteq Nat
    BY DEF S
  <2> QED BY <1>1, <1>2, <2>1, SetInduction
<1>4. PICK f \in [0..Len(s) -> Nat] : R(f, Len(s))
  BY <1>3
<1> DEFINE sum == CHOOSE h : h = [k \in 0..Len(s) |-> IF k = 0 THEN 0
                                                     ELSE h[k - 1] + s[k].length]
<1>5. f = [k \in 0..Len(s) |-> IF k = 0 THEN 0 ELSE f[k - 1] + s[k].length]
  BY <1>4
<1>6. sum = [k \in 0..Len(s) |-> IF k = 0 THEN 0 ELSE sum[k - 1] + s[k].length]
  BY <1>5
<1>7. \A n : Sum(s, n) = sum[n]
  BY DEF Sum
<1> HIDE DEF sum
<1>8. \A k \in 0..Len(s) : sum[k] = IF k = 0 THEN 0 ELSE sum[k - 1] + s[k].length
  BY <1>6
<1> DEFINE V == {n \in Nat : n <= Len(s) => sum[n] \in Nat}
<1>9. V = Nat
  <2>1. 0 \in V
    BY <1>8
  <2>2. ASSUME NEW n \in V PROVE n + 1 \in V
    <3> SUFFICES ASSUME n + 1 <= Len(s) PROVE sum[n + 1] \in Nat
      OBVIOUS
    <3>1. n \in Nat /\ n + 1 \in 0..Len(s) /\ n + 1 \in 1..Len(s) /\ sum[n] \in Nat
      OBVIOUS
    <3>2. sum[n + 1] = sum[n] + s[n + 1].length
      BY <1>8, <3>1
    <3> QED BY <3>1, <3>2 DEF Lengths
  <2> HIDE DEF V
  <2>3. V \subseteq Nat
    BY DEF V
  <2> QED BY <2>1, <2>2, <2>3, SetInduction
<1>10. \A n \in 0..Len(s) : sum[n] \in Nat
  BY <1>9
<1>11. \A n \in 1..Len(s) : n - 1 \in 0..Len(s) /\ n \in 0..Len(s) /\ n # 0
  OBVIOUS
<1>12. 0 \in 0..Len(s)
  OBVIOUS
<1> QED BY <1>7, <1>8, <1>10, <1>11, <1>12

\* More buffers, more bytes.
LEMMA SumGrows ==
  ASSUME NEW s, Len(s) \in Nat, Lengths(s), NEW m \in 0..Len(s), NEW n \in 0..Len(s), m <= n
  PROVE  Sum(s, m) <= Sum(s, n)
<1> DEFINE S == {d \in Nat : m + d <= Len(s) => Sum(s, m) <= Sum(s, m + d)}
<1>1. 0 \in S
  <2>1. m + 0 = m /\ Sum(s, m) \in Nat
    BY SumUnfolds
  <2> QED BY <2>1
<1>2. ASSUME NEW d \in S PROVE d + 1 \in S
  <2> SUFFICES ASSUME m + (d + 1) <= Len(s) PROVE Sum(s, m) <= Sum(s, m + (d + 1))
    OBVIOUS
  <2>1. /\ m + (d + 1) \in 1..Len(s) /\ (m + (d + 1)) - 1 = m + d
        /\ m + d \in 0..Len(s) /\ Sum(s, m) <= Sum(s, m + d)
    OBVIOUS
  <2>2. Sum(s, m + (d + 1)) = Sum(s, m + d) + s[m + (d + 1)].length
    BY <2>1, SumUnfolds
  <2>3. Sum(s, m) \in Nat /\ Sum(s, m + d) \in Nat /\ s[m + (d + 1)].length \in Nat
    BY <2>1, SumUnfolds DEF Lengths
  <2> QED BY <2>1, <2>2, <2>3
<1>3. S = Nat
  <2> HIDE DEF S
  <2>1. S \subseteq Nat
    BY DEF S
  <2> QED BY <1>1, <1>2, <2>1, SetInduction
<1>4. n - m \in Nat /\ m + (n - m) = n /\ n <= Len(s)
  OBVIOUS
<1>5. n - m \in S
  BY <1>3, <1>4
<1> QED BY <1>4, <1>5

\* What the builder knows while it goes on: it has taken a prefix within the
\* limit, its total is the sum of that prefix and fits.
Progress ==
  pc # "idle" =>
    /\ built.count <= Len(input)
    /\ max_sge # 0 => built.count <= max_sge
    /\ built.total_bytes = Sum(input, built.count)
    /\ built.all_empty <=> Sum(input, built.count) = 0
    /\ pc = "building" => ~built.too_many_sge /\ ~built.buffer_too_large

Verdict == pc = "built" => PostVerdict(built) = ReferenceVerdict(input, max_sge)

LEMMA InputLengths ==
  ASSUME BuildTypes
  PROVE  /\ Len(input) \in Nat /\ Lengths(input)
         /\ \A i \in 1..Len(input) : input[i].length \in Word
<1>1. input \in Seq(Buffers)
  BY DEF BuildTypes
<1>2. Len(input) \in Nat /\ \A i \in 1..Len(input) : input[i] \in Buffers
  BY <1>1, ElementOfSeq, LenProperties
<1>3. \A b \in Buffers : b.length \in Word /\ b.length \in Nat
  BY SizeAssumption DEF Buffers, Word
<1> QED BY <1>2, <1>3 DEF Lengths

LEMMA ProgressStep ==
  ASSUME BuildTypes, BuildTypes', Progress, [Next]_vars
  PROVE  Progress'
<1>1. ASSUME MoveRegion \/ CallReserve \/ CallResize PROVE Progress'
  BY <1>1 DEF MoveRegion, CallReserve, CallResize, Progress
<1>2. ASSUME BuildStart PROVE Progress'
  <2>1. /\ built'.count = 0 /\ built'.total_bytes = 0 /\ built'.all_empty
        /\ ~built'.too_many_sge /\ ~built'.buffer_too_large /\ pc' = "building"
    BY <1>2 DEF BuildStart, NewBuilt
  <2>2. /\ Len(input') \in Nat /\ Lengths(input')
    <3>1. (Len(input) \in Nat /\ Lengths(input))'
      BY InputLengths, PTL
    <3> QED BY <3>1 DEF Lengths
  <2>3. Sum(input', 0) = 0
    BY <2>2, SumUnfolds
  <2>4. max_sge' \in Nat
    BY DEF BuildTypes
  <2> QED BY <2>1, <2>2, <2>3, <2>4 DEF Progress
<1>3. ASSUME BuildEnd PROVE Progress'
  <2>1. /\ pc = "building" /\ pc' = "built" /\ UNCHANGED <<input, max_sge>>
        /\ built'.count = built.count /\ built'.total_bytes = built.total_bytes
        /\ built'.all_empty = built.all_empty
    BY <1>3 DEF BuildEnd, BuildTypes, Built
  <2> QED BY <2>1 DEF Progress
<1>4. ASSUME BuildNext PROVE Progress'
  <2> DEFINE length == input[built.count + 1].length
  <2>1. /\ length \in Word /\ built'.count = built.count + 1
        /\ built'.total_bytes = built.total_bytes + length
    BY <1>4, NextBuffer
  <2>2. /\ pc = "building" /\ pc' = pc /\ UNCHANGED <<input, max_sge>>
        /\ built.count < Len(input) /\ ~TooMany
    BY <1>4 DEF BuildNext
  <2>3. /\ built'.all_empty = (built.all_empty /\ length = 0)
        /\ built'.too_many_sge = built.too_many_sge
        /\ built'.buffer_too_large = built.buffer_too_large
    <3>1. built' = [built EXCEPT !.count = @ + 1,
                                 !.total_bytes = (@ + length) % SizeMod,
                                 !.all_empty = @ /\ length = 0]
      BY <1>4 DEF BuildNext
    <3>2. built \in Built
      BY DEF BuildTypes
    <3> HIDE DEF length
    <3> QED BY <3>1, <3>2 DEF Built
  <2>4. built.count \in Nat /\ Len(input) \in Nat /\ Lengths(input) /\ max_sge \in Nat
    BY InputLengths DEF BuildTypes, Built
  <2>5. /\ built.count + 1 \in 1..Len(input) /\ (built.count + 1) - 1 = built.count
        /\ built.count \in 0..Len(input)
    BY <2>2, <2>4
  <2>6. /\ Sum(input, built.count + 1) = Sum(input, built.count) + length
        /\ Sum(input, built.count) \in Nat
    BY <2>4, <2>5, SumUnfolds
  <2>7. length \in Nat
    BY <2>1, SizeAssumption DEF Word
  <2>8. max_sge # 0 => built.count + 1 <= max_sge
    BY <2>2, <2>4 DEF TooMany
  <2> HIDE DEF length
  <2>9. /\ built.total_bytes = Sum(input, built.count)
        /\ built.all_empty <=> Sum(input, built.count) = 0
        /\ ~built.too_many_sge /\ ~built.buffer_too_large
    BY <2>2 DEF Progress
  <2>10. built'.all_empty <=> Sum(input, built.count + 1) = 0
    <3>1. Sum(input, built.count + 1) = 0 <=> Sum(input, built.count) = 0 /\ length = 0
      BY <2>6, <2>7
    <3> QED BY <2>3, <2>9, <3>1, Zenon
  <2>11. built'.total_bytes = Sum(input, built.count + 1)
    BY <2>1, <2>6, <2>9
  <2>12. ~built'.too_many_sge /\ ~built'.buffer_too_large
    BY <2>3, <2>9
  <2> QED BY <2>1, <2>2, <2>5, <2>8, <2>10, <2>11, <2>12 DEF Progress
<1>5. CASE UNCHANGED vars
  BY <1>5 DEF vars, Progress
<1> QED BY <1>1, <1>2, <1>3, <1>4, <1>5 DEF Next

\* The three returns of the builder are the three answers of the reference.
LEMMA VerdictStep ==
  ASSUME BuildTypes, Progress, Verdict, [Next]_vars
  PROVE  Verdict'
<1>1. ASSUME BuildEnd PROVE Verdict'
  <2> DEFINE more == built.count < Len(input)
             many == more /\ TooMany
             large == more /\ ~TooMany /\ TooLarge(input[built.count + 1].length)
  <2>1. /\ ~more \/ many \/ large
        /\ built' = [built EXCEPT !.too_many_sge = many, !.buffer_too_large = large,
                                  !.heap_spilled = UsesHeap(data)]
        /\ pc = "building" /\ UNCHANGED <<input, max_sge>>
    BY <1>1 DEF BuildEnd
  <2>2. /\ built'.too_many_sge = many /\ built'.buffer_too_large = large
        /\ built'.all_empty = built.all_empty
    <3>1. built \in Built
      BY DEF BuildTypes
    <3> HIDE DEF many, large
    <3> QED BY <2>1, <3>1 DEF Built
  <2>3. /\ built.count \in Nat /\ Len(input) \in Nat /\ Lengths(input)
        /\ max_sge \in Nat /\ built.total_bytes \in 0..MaxOp
        /\ MaxOp \in Nat
    BY InputLengths, WidthAssumption, SizeAssumption DEF BuildTypes, Built, Word
  <2>4. /\ built.count <= Len(input) /\ built.count \in 0..Len(input)
        /\ max_sge # 0 => built.count <= max_sge
        /\ built.total_bytes = Sum(input, built.count)
        /\ built.all_empty <=> Sum(input, built.count) = 0
    BY <2>1, <2>3 DEF Progress
  <2> DEFINE allowed == IF max_sge = 0 \/ Len(input) < max_sge THEN Len(input)
                        ELSE max_sge
  <2>5. allowed \in 0..Len(input)
    BY <2>3
  <2>6. ReferenceVerdict(input, max_sge) =
          IF Sum(input, allowed) > MaxOp THEN "buffer_too_large"
          ELSE IF allowed < Len(input) THEN "too_many_sge"
          ELSE IF Sum(input, Len(input)) = 0 THEN "empty" ELSE "post"
    BY DEF ReferenceVerdict
  <2>7. PostVerdict(built') =
          IF many THEN "too_many_sge"
          ELSE IF large THEN "buffer_too_large"
          ELSE IF built.all_empty THEN "empty" ELSE "post"
    BY <2>2 DEF PostVerdict
  <2>8. CASE many
    <3>1. built.count = max_sge /\ max_sge # 0 /\ max_sge < Len(input)
      BY <2>3, <2>4, <2>8 DEF TooMany
    <3>2. allowed = built.count /\ allowed < Len(input)
      BY <2>3, <3>1
    <3>3. ~(Sum(input, allowed) > MaxOp)
      BY <2>3, <2>4, <3>2
    <3> HIDE DEF allowed, many, large
    <3>4. PostVerdict(built') = ReferenceVerdict(input, max_sge)
      BY <2>6, <2>7, <2>8, <3>2, <3>3
    <3> QED BY <2>1, <3>4 DEF Verdict
  <2>9. CASE large
    <3>1. built.count + 1 <= allowed /\ built.count + 1 \in 1..Len(input)
          /\ built.count + 1 \in 0..Len(input) /\ (built.count + 1) - 1 = built.count
      BY <2>3, <2>9 DEF TooMany
    <3>2. input[built.count + 1].length \in Word
      BY <3>1, InputLengths
    <3>3. ~(built.total_bytes + input[built.count + 1].length <= MaxOp)
      BY <2>3, <2>9, <3>2, FitsExactly DEF TooLarge
    <3>4. Sum(input, built.count + 1) = Sum(input, built.count) + input[built.count + 1].length
      BY <2>3, <3>1, SumUnfolds
    <3>5. Sum(input, built.count + 1) <= Sum(input, allowed)
      <4> HIDE DEF allowed
      <4> QED BY <2>3, <2>5, <3>1, SumGrows
    <3>6. Sum(input, allowed) \in Nat /\ Sum(input, built.count + 1) \in Nat
      <4> HIDE DEF allowed
      <4> QED BY <2>3, <2>5, <3>1, SumUnfolds
    <3>7. Sum(input, allowed) > MaxOp
      <4> HIDE DEF allowed
      <4>1. Sum(input, built.count + 1) = built.total_bytes + input[built.count + 1].length
        BY <2>4, <3>4
      <4>2. Sum(input, built.count + 1) > MaxOp
        BY <2>3, <3>3, <3>6, <4>1
      <4> QED BY <2>3, <3>5, <3>6, <4>2
    <3>8. ~many
      BY <2>9
    <3> HIDE DEF allowed, many, large
    <3>9. PostVerdict(built') = ReferenceVerdict(input, max_sge)
      BY <2>6, <2>7, <2>9, <3>7, <3>8
    <3> QED BY <2>1, <3>9 DEF Verdict
  <2>10. CASE ~more
    <3>1. built.count = Len(input)
      BY <2>3, <2>4, <2>10
    <3>2. allowed = Len(input)
      BY <2>3, <2>4, <3>1
    <3>3. ~(Sum(input, allowed) > MaxOp) /\ ~(allowed < Len(input))
      BY <2>3, <2>4, <3>1, <3>2
    <3>4. ~many /\ ~large
      BY <2>10
    <3>5. built.all_empty <=> Sum(input, Len(input)) = 0
      BY <2>4, <3>1
    <3> HIDE DEF allowed, many, large
    <3>6. PostVerdict(built') = ReferenceVerdict(input, max_sge)
      BY <2>6, <2>7, <3>3, <3>4, <3>5
    <3> QED BY <2>1, <3>6 DEF Verdict
  <2> QED BY <2>1, <2>8, <2>9, <2>10
<1>2. ASSUME MoveRegion \/ CallReserve \/ CallResize \/ BuildStart PROVE Verdict'
  BY <1>2 DEF MoveRegion, CallReserve, CallResize, BuildStart, Verdict
<1>3. ASSUME BuildNext PROVE Verdict'
  BY <1>3 DEF BuildNext, Verdict
<1>4. CASE UNCHANGED vars
  BY <1>4 DEF vars, Verdict
<1> QED BY <1>1, <1>2, <1>3, <1>4 DEF Next

\* The path for a single buffer, which builds no list, answers like the
\* reference, for every length and every limit.
THEOREM SingleIsRight ==
  ASSUME NEW s, Len(s) = 1, s[1].length \in Nat, NEW limit \in Nat
  PROVE  SingleVerdict(s[1].length, limit) = ReferenceVerdict(s, limit)
<1>1. Len(s) \in Nat /\ Lengths(s) /\ 1 \in 1..Len(s)
  <2>1. \A i \in 1..Len(s) : i = 1
    OBVIOUS
  <2> QED BY <2>1 DEF Lengths
<1>2. Sum(s, 0) = 0 /\ Sum(s, 1) = Sum(s, 1 - 1) + s[1].length
  BY <1>1, SumUnfolds
<1>3. Sum(s, 1) = s[1].length
  BY <1>2
<1>4. limit = 0 \/ limit >= 1
  OBVIOUS
<1>5. (IF limit = 0 \/ Len(s) < limit THEN Len(s) ELSE limit) = 1
  BY <1>4
<1>6. ReferenceVerdict(s, limit) =
        IF s[1].length > MaxOp THEN "buffer_too_large"
        ELSE IF s[1].length = 0 THEN "empty" ELSE "post"
  BY <1>3, <1>5 DEF ReferenceVerdict
<1>7. MaxOp \in Nat
  BY WidthAssumption, SizeAssumption DEF Word
<1> QED BY <1>4, <1>6, <1>7 DEF SingleVerdict

\* The one-pass builder, in wrapping arithmetic and with its early returns,
\* decides what the reference decides on the whole sequence.
THEOREM BuilderVerdictIsRight == Spec => []VerdictIsRight
<1>1. Init => Progress /\ Verdict
  BY DEF Init, Progress, Verdict
<1>2. SglistInv /\ SglistInv' /\ Progress /\ Verdict /\ [Next]_vars => Progress' /\ Verdict'
  BY ProgressStep, VerdictStep DEF SglistInv
<1>3. SglistInv /\ Progress /\ Verdict => VerdictIsRight
  <2> SUFFICES ASSUME SglistInv, Progress, Verdict, pc = "built" PROVE VerdictIsRight
    BY DEF VerdictIsRight
  <2>1. BuildTypes
    BY DEF SglistInv
  <2>2. built.total_bytes = Sum(input, built.count) /\ built.total_bytes <= MaxOp
    BY <2>1, WidthAssumption, SizeAssumption DEF Progress, BuildTypes, Built, Word
  <2>3. Len(input) = 1 =>
          SingleVerdict(input[1].length, max_sge) = ReferenceVerdict(input, max_sge)
    <3> SUFFICES ASSUME Len(input) = 1
                 PROVE  SingleVerdict(input[1].length, max_sge)
                          = ReferenceVerdict(input, max_sge)
      OBVIOUS
    <3>1. input[1].length \in Nat /\ max_sge \in Nat
      <4>1. 1 \in 1..Len(input)
        OBVIOUS
      <4> QED BY <2>1, <4>1, InputLengths DEF Lengths, BuildTypes
    <3> QED BY <3>1, SingleIsRight
  <2> QED BY <2>2, <2>3 DEF VerdictIsRight, Verdict
<1> QED BY <1>1, <1>2, <1>3, SglistInvariant, PTL DEF Spec
-----------------------------------------------------------------------------
(* The poll-mode completion queue. *)

Cqe == [op : Ops, status : WcStatus, len : 0..Size]
PollFrame == [at : {"ready", "poll", "batch", "one"}, local : Seq(Ops), n : Nat,
              i : Nat, handler : BOOLEAN]

PollTypes ==
  /\ ready \in Seq(Ops) /\ cq \in Seq(Cqe)
  /\ wc_buf \in Seq(Cqe) /\ Len(wc_buf) <= Batch
  /\ frames \in Seq(PollFrame) /\ Depth <= MaxDepth
  /\ phase \in [Ops -> {"none", "ready", "posted", "cqe", "done", "destroyed"}]
  /\ class \in [Ops -> Class] /\ ec \in [Ops -> Code]
  /\ bytes \in [Ops -> 0..Size]
  /\ runs \in [Ops -> Nat]
  /\ throws \in Nat

\* The calls in progress: all but the innermost are inside a handler, a batch
\* is in wc_buf_, and where handlers do not call poll() the calls they make are
\* poll_one(), which is in its handler as long as it is seen.
FramesNest ==
  \A f \in 1..Depth :
    /\ f < Depth \/ frames[f].at = "one" => frames[f].handler
    /\ ~NestedPoll /\ f > 1 => frames[f].at = "one"
    /\ frames[f].at # "ready" => Len(frames[f].local) = 0
    /\ frames[f].at = "batch" =>
         /\ frames[f].i >= 1 /\ frames[f].n <= Len(wc_buf)
         /\ frames[f].handler => frames[f].i >= 2

\* What the loop of a call has yet to visit of wc_buf_.
Unvisited(f) == IF frames[f].at = "batch" THEN frames[f].i..frames[f].n ELSE {}

\* wc_buf_ belongs to one call: no other has anything left in it.
OneBatch ==
  \A f, g \in 1..Depth : Unvisited(f) # {} /\ Unvisited(g) # {} => f = g

\* An operation without a CQE is in one place: once in the ready queue, or once
\* in what one poll() moved out of it.
ReadyOnce ==
  /\ \A i, j \in 1..Len(ready) : ready[i] = ready[j] => i = j
  /\ \A f \in 1..Depth : \A i \in 1..Len(frames[f].local) :
       /\ \A j \in 1..Len(ready) : frames[f].local[i] # ready[j]
       /\ \A g \in 1..Depth : \A j \in 1..Len(frames[g].local) :
            frames[f].local[i] = frames[g].local[j] => f = g /\ i = j

\* One with a CQE too: on the CQ, or in the unvisited part of a batch.
CqeOnce ==
  /\ \A i, j \in 1..Len(cq) : cq[i].op = cq[j].op => i = j
  /\ \A f \in 1..Depth : \A i \in Unvisited(f) :
       /\ \A j \in 1..Len(cq) : wc_buf[i].op # cq[j].op
       /\ \A j \in Unvisited(f) : wc_buf[i].op = wc_buf[j].op => i = j

\* Where an operation is agrees with what became of it.
PhaseAgrees ==
  /\ \A i \in 1..Len(ready) : phase[ready[i]] = "ready"
  /\ \A f \in 1..Depth : \A i \in 1..Len(frames[f].local) :
       phase[frames[f].local[i]] = "ready"
  /\ \A i \in 1..Len(cq) : phase[cq[i].op] = "cqe"
  /\ \A f \in 1..Depth : \A i \in Unvisited(f) : phase[wc_buf[i].op] = "cqe"

\* Its handler ran exactly if it is done.
RunsCounted == \A o \in Ops : runs[o] = IF phase[o] = "done" THEN 1 ELSE 0

PollInv ==
  /\ PollTypes /\ FramesNest /\ OneBatch
  /\ ReadyOnce /\ CqeOnce /\ PhaseAgrees /\ RunsCounted /\ NothingStranded

\* Sequences, by their elements.
LEMMA TailFacts ==
  ASSUME NEW S, NEW s \in Seq(S), s # <<>>
  PROVE  /\ Len(s) \in Nat /\ Len(s) >= 1 /\ Head(s) = s[1] /\ s[1] \in S
         /\ Tail(s) \in Seq(S) /\ Len(Tail(s)) = Len(s) - 1
         /\ \A i \in 1..(Len(s) - 1) : Tail(s)[i] = s[i + 1]
<1>1. Len(s) \in Nat /\ Len(s) >= 1 /\ Head(s) = s[1]
  BY EmptySeq, LenProperties
<1> QED BY <1>1, HeadTailProperties, ElementOfSeq

LEMMA PushFacts ==
  ASSUME NEW S, NEW s \in Seq(S), NEW e \in S
  PROVE  /\ Append(s, e) \in Seq(S) /\ Len(Append(s, e)) = Len(s) + 1
         /\ Len(s) \in Nat
         /\ \A i \in 1..(Len(s) + 1) :
              Append(s, e)[i] = IF i = Len(s) + 1 THEN e ELSE s[i]
BY AppendProperties, LenProperties

LEMMA SliceFacts ==
  ASSUME NEW S, NEW s \in Seq(S), NEW n \in 0..Len(s)
  PROVE  /\ n \in Nat /\ Len(s) \in Nat
         /\ SubSeq(s, 1, n) \in Seq(S) /\ Len(SubSeq(s, 1, n)) = n
         /\ \A i \in 1..n : SubSeq(s, 1, n)[i] = s[i]
         /\ SubSeq(s, n + 1, Len(s)) \in Seq(S)
         /\ Len(SubSeq(s, n + 1, Len(s))) = Len(s) - n
         /\ \A i \in 1..(Len(s) - n) : SubSeq(s, n + 1, Len(s))[i] = s[n + i]
<1>1. Len(s) \in Nat /\ n \in Nat /\ \A i \in 1..Len(s) : s[i] \in S
  BY LenProperties, ElementOfSeq
<1>2. /\ SubSeq(s, 1, n) \in Seq(S) /\ Len(SubSeq(s, 1, n)) = n
      /\ \A i \in 1..n : SubSeq(s, 1, n)[i] = s[i]
  BY <1>1, SubSeqProperties
<1>3. /\ SubSeq(s, n + 1, Len(s)) \in Seq(S)
      /\ Len(SubSeq(s, n + 1, Len(s))) = Len(s) - n
      /\ \A i \in 1..(Len(s) - n) : SubSeq(s, n + 1, Len(s))[i] = s[n + i]
  BY <1>1, SubSeqProperties
<1> QED BY <1>1, <1>2, <1>3

\* The frames after a call, a return and a change of the innermost one.
LEMMA SetTopFacts ==
  ASSUME PollTypes, Depth > 0, NEW t \in PollFrame, SetTop(t)
  PROVE  /\ frames' \in Seq(PollFrame) /\ Depth' = Depth
         /\ \A f \in 1..Depth : frames'[f] = IF f = Depth THEN t ELSE frames[f]
<1>1. Depth \in Nat /\ frames \in Seq(PollFrame)
  BY DEF PollTypes, Depth
<1>2. frames' = [frames EXCEPT ![Depth] = t]
  BY DEF SetTop
<1> QED BY <1>1, <1>2, ExceptSeq DEF Depth

LEMMA PopFacts ==
  ASSUME PollTypes, Depth > 0, Pop
  PROVE  /\ frames' \in Seq(PollFrame) /\ Depth' = Depth - 1
         /\ \A f \in 1..(Depth - 1) : frames'[f] = frames[f]
<1>1. Depth \in Nat /\ frames \in Seq(PollFrame)
  BY DEF PollTypes, Depth
<1>2. /\ SubSeq(frames, 1, Depth - 1) \in Seq(PollFrame)
      /\ Len(SubSeq(frames, 1, Depth - 1)) = Depth - 1
      /\ \A f \in 1..(Depth - 1) : SubSeq(frames, 1, Depth - 1)[f] = frames[f]
  <2>1. Depth - 1 \in 0..Len(frames)
    BY <1>1 DEF Depth
  <2> QED BY <1>1, <2>1, SliceFacts
<1>3. frames' = SubSeq(frames, 1, Depth - 1)
  BY DEF Pop
<1> QED BY <1>2, <1>3 DEF Depth

LEMMA RunHandlerFacts ==
  ASSUME PollTypes, NEW o \in Ops, NEW code \in Code, NEW count \in 0..Size,
         RunHandler(o, code, count)
  PROVE  /\ phase' \in [Ops -> {"none", "ready", "posted", "cqe", "done", "destroyed"}]
         /\ ec' \in [Ops -> Code] /\ bytes' \in [Ops -> 0..Size]
         /\ runs' \in [Ops -> Nat]
         /\ \A p \in Ops : phase'[p] = IF p = o THEN "done" ELSE phase[p]
         /\ \A p \in Ops : runs'[p] = IF p = o THEN runs[p] + 1 ELSE runs[p]
<1>1. ReportedBytes(class[o], code, count) \in 0..Size
  BY BoundAssumption DEF ReportedBytes
<1> QED BY <1>1 DEF RunHandler, PollTypes

LEMMA RunCompletionFacts ==
  ASSUME PollTypes, NEW wc \in Cqe, RunCompletion(wc)
  PROVE  /\ phase' \in [Ops -> {"none", "ready", "posted", "cqe", "done", "destroyed"}]
         /\ ec' \in [Ops -> Code] /\ bytes' \in [Ops -> 0..Size]
         /\ runs' \in [Ops -> Nat]
         /\ \A p \in Ops : phase'[p] = IF p = wc.op THEN "done" ELSE phase[p]
         /\ \A p \in Ops : runs'[p] = IF p = wc.op THEN runs[p] + 1 ELSE runs[p]
<1> DEFINE code == IF wc.status = "success" THEN ec[wc.op] ELSE WcCode(wc.status)
           count == WcBytes(class[wc.op], bytes[wc.op], wc.status, wc.len)
<1>1. wc.op \in Ops /\ wc.status \in WcStatus /\ wc.len \in 0..Size
  BY DEF Cqe
<1>2. code \in Code
  BY <1>1 DEF WcCode, Code, WcStatus, PollTypes
<1>3. count \in 0..Size
  BY <1>1, BoundAssumption DEF WcBytes, PollTypes
<1>4. RunHandler(wc.op, code, count)
  BY DEF RunCompletion
<1> HIDE DEF code, count
<1> QED BY <1>1, <1>2, <1>3, <1>4, RunHandlerFacts

LEMMA PollInitInv == PollInit => PollInv
<1> SUFFICES ASSUME PollInit PROVE PollInv
  OBVIOUS
<1>1. /\ <<>> \in Seq(Ops) /\ <<>> \in Seq(Cqe) /\ <<>> \in Seq(PollFrame)
      /\ Len(<<>>) = 0
  OBVIOUS
<1>2. PollTypes
  BY <1>1, BatchAssumption, BoundAssumption
     DEF PollInit, PollTypes, Depth, Class, Code
<1>3. FramesNest /\ OneBatch /\ ReadyOnce /\ CqeOnce /\ PhaseAgrees
  BY <1>1 DEF PollInit, Depth, FramesNest, OneBatch, ReadyOnce, CqeOnce,
                 PhaseAgrees
<1>4. RunsCounted /\ NothingStranded
  BY DEF PollInit, RunsCounted, NothingStranded, StillReachable
<1> QED BY <1>2, <1>3, <1>4 DEF PollInv

\* Types of a record of PollFrame that a call makes or changes.
LEMMA NewFrame ==
  ASSUME NEW s \in Seq(Ops)
  PROVE  /\ Frame("ready", s, 0, 0) \in PollFrame
         /\ [Frame("one", <<>>, 0, 0) EXCEPT !.handler = TRUE] \in PollFrame
         /\ [Frame("one", <<>>, 0, 0) EXCEPT !.handler = TRUE].at = "one"
         /\ [Frame("one", <<>>, 0, 0) EXCEPT !.handler = TRUE].local = <<>>
         /\ [Frame("one", <<>>, 0, 0) EXCEPT !.handler = TRUE].handler
<1>1. <<>> \in Seq(Ops)
  OBVIOUS
<1> QED BY <1>1 DEF Frame, PollFrame

\* What is in the queues and in the frames is an operation.
LEMMA Elements ==
  ASSUME PollInv
  PROVE  /\ Len(ready) \in Nat /\ Len(cq) \in Nat /\ Depth \in Nat
         /\ \A i \in 1..Len(ready) : ready[i] \in Ops
         /\ \A i \in 1..Len(cq) : cq[i] \in Cqe /\ cq[i].op \in Ops
         /\ \A f \in 1..Depth :
              /\ frames[f] \in PollFrame
              /\ Len(frames[f].local) \in Nat
              /\ \A i \in 1..Len(frames[f].local) : frames[f].local[i] \in Ops
              /\ \A i \in Unvisited(f) :
                   i \in 1..Len(wc_buf) /\ wc_buf[i] \in Cqe /\ wc_buf[i].op \in Ops
<1>1. /\ ready \in Seq(Ops) /\ cq \in Seq(Cqe) /\ wc_buf \in Seq(Cqe)
      /\ frames \in Seq(PollFrame)
  BY DEF PollInv, PollTypes
<1>2. /\ Len(ready) \in Nat /\ Len(cq) \in Nat /\ Depth \in Nat
      /\ Len(wc_buf) \in Nat
      /\ \A i \in 1..Len(ready) : ready[i] \in Ops
      /\ \A i \in 1..Len(cq) : cq[i] \in Cqe
      /\ \A i \in 1..Len(wc_buf) : wc_buf[i] \in Cqe
      /\ \A f \in 1..Depth : frames[f] \in PollFrame
  BY <1>1, LenProperties, ElementOfSeq DEF Depth
<1>3. \A wc \in Cqe : wc.op \in Ops
  BY DEF Cqe
<1>4. ASSUME NEW f \in 1..Depth
      PROVE  /\ frames[f].local \in Seq(Ops)
             /\ frames[f].n \in Nat /\ frames[f].i \in Nat
  BY <1>2 DEF PollFrame
<1>5. ASSUME NEW f \in 1..Depth
      PROVE  /\ Len(frames[f].local) \in Nat
             /\ \A i \in 1..Len(frames[f].local) : frames[f].local[i] \in Ops
  BY <1>4, LenProperties, ElementOfSeq
<1>6. ASSUME NEW f \in 1..Depth, NEW i \in Unvisited(f) PROVE i \in 1..Len(wc_buf)
  BY <1>2, <1>4 DEF PollInv, FramesNest, Unvisited
<1> QED BY <1>2, <1>3, <1>5, <1>6


\* A step that leaves the places of operations alone, and the phase of all but
\* one that is in none of them, keeps the agreement.
LEMMA PhaseStep ==
  ASSUME PollInv, NEW o \in Ops, phase[o] \notin {"ready", "cqe"},
         \A p \in Ops : p # o => phase'[p] = phase[p]
  PROVE  /\ \A i \in 1..Len(ready) : phase'[ready[i]] = "ready"
         /\ \A f \in 1..Depth : \A i \in 1..Len(frames[f].local) :
              phase'[frames[f].local[i]] = "ready"
         /\ \A i \in 1..Len(cq) : phase'[cq[i].op] = "cqe"
         /\ \A f \in 1..Depth : \A i \in Unvisited(f) : phase'[wc_buf[i].op] = "cqe"
<1>1. PhaseAgrees
  BY DEF PollInv
<1>2. ASSUME NEW i \in 1..Len(ready) PROVE phase'[ready[i]] = "ready"
  BY <1>1, Elements DEF PhaseAgrees
<1>3. ASSUME NEW i \in 1..Len(cq) PROVE phase'[cq[i].op] = "cqe"
  BY <1>1, Elements DEF PhaseAgrees
<1>4. ASSUME NEW f \in 1..Depth, NEW i \in 1..Len(frames[f].local)
      PROVE  phase'[frames[f].local[i]] = "ready"
  <2>1. frames[f].local[i] \in Ops /\ phase[frames[f].local[i]] = "ready"
    BY <1>1, Elements DEF PhaseAgrees
  <2> QED BY <2>1
<1>5. ASSUME NEW f \in 1..Depth, NEW i \in Unvisited(f)
      PROVE  phase'[wc_buf[i].op] = "cqe"
  <2>1. wc_buf[i].op \in Ops /\ phase[wc_buf[i].op] = "cqe"
    BY <1>1, Elements DEF PhaseAgrees
  <2> QED BY <2>1
<1> QED BY <1>2, <1>3, <1>4, <1>5

\* A step that leaves the local queues alone, or drops some.
LEMMA ReadyStep ==
  ASSUME ReadyOnce,
         \A f \in 1..Depth' : \A i \in 1..Len(frames'[f].local) :
           f \in 1..Depth /\ frames'[f].local = frames[f].local,
         \A i, j \in 1..Len(ready') : ready'[i] = ready'[j] => i = j,
         \A f \in 1..Depth : \A i \in 1..Len(frames[f].local) :
           \A j \in 1..Len(ready') : frames[f].local[i] # ready'[j]
  PROVE  ReadyOnce'
<1>1. ASSUME NEW f \in 1..Depth', NEW i \in 1..Len(frames'[f].local)
      PROVE  /\ f \in 1..Depth /\ i \in 1..Len(frames[f].local)
             /\ frames'[f].local = frames[f].local
  OBVIOUS
<1>2. ASSUME NEW f \in 1..Depth', NEW i \in 1..Len(frames'[f].local)
      PROVE  \A j \in 1..Len(ready') : frames'[f].local[i] # ready'[j]
  BY <1>1
<1>3. ASSUME NEW f \in 1..Depth', NEW i \in 1..Len(frames'[f].local),
             NEW g \in 1..Depth', NEW j \in 1..Len(frames'[g].local),
             frames'[f].local[i] = frames'[g].local[j]
      PROVE  f = g /\ i = j
  <2>1. /\ f \in 1..Depth /\ i \in 1..Len(frames[f].local)
        /\ g \in 1..Depth /\ j \in 1..Len(frames[g].local)
        /\ frames[f].local[i] = frames[g].local[j]
    BY <1>1, <1>3
  <2> QED BY <2>1 DEF ReadyOnce
<1> QED BY <1>2, <1>3 DEF ReadyOnce

\* The same where the ready queue is left alone too.
LEMMA LocalsKept ==
  ASSUME ReadyOnce, ready' = ready,
         \A f \in 1..Depth' : \A i \in 1..Len(frames'[f].local) :
           f \in 1..Depth /\ frames'[f].local = frames[f].local
  PROVE  ReadyOnce'
<1>1. /\ \A i, j \in 1..Len(ready) : ready[i] = ready[j] => i = j
      /\ \A f \in 1..Depth : \A i \in 1..Len(frames[f].local) :
           \A j \in 1..Len(ready) : frames[f].local[i] # ready[j]
  BY DEF ReadyOnce
<1>2. ready' = ready
  OBVIOUS
<1>3. /\ \A i, j \in 1..Len(ready') : ready'[i] = ready'[j] => i = j
      /\ \A f \in 1..Depth : \A i \in 1..Len(frames[f].local) :
           \A j \in 1..Len(ready') : frames[f].local[i] # ready'[j]
  BY <1>1, <1>2
<1> QED BY <1>3, ReadyStep

LEMMA SubmitStep ==
  ASSUME PollInv, NEW o \in Ops, Submit(o)
  PROVE  PollInv'
<1> USE DEF PollInv
<1>1. PICK c \in Class, outcome \in PostOutcome :
        /\ class' = [class EXCEPT ![o] = c]
        /\ ec' = [ec EXCEPT ![o] = PostCode(outcome)]
        /\ bytes' = [bytes EXCEPT ![o] = PostBytes(c, outcome, Size)]
        /\ phase' = [phase EXCEPT ![o] =
                       IF Immediate(outcome) THEN "ready" ELSE "posted"]
        /\ ready' = IF Immediate(outcome) THEN Append(ready, o) ELSE ready
  BY DEF Submit
<1>2. /\ phase[o] = "none"
      /\ UNCHANGED <<wc_buf, frames, cq, runs, throws>> /\ Depth' = Depth
      /\ \A f \in 1..Depth : Unvisited(f)' = Unvisited(f)
  BY DEF Submit, Depth, Unvisited
<1>3. PostCode(outcome) \in Code /\ PostBytes(c, outcome, Size) \in 0..Size
  BY BoundAssumption DEF PostCode, PostBytes, PostOutcome, Code
<1>4. /\ Append(ready, o) \in Seq(Ops) /\ Len(Append(ready, o)) = Len(ready) + 1
      /\ Len(ready) \in Nat
      /\ \A i \in 1..(Len(ready) + 1) :
           Append(ready, o)[i] = IF i = Len(ready) + 1 THEN o ELSE ready[i]
  BY PushFacts DEF PollTypes
<1>5. PollTypes'
  BY <1>1, <1>2, <1>3, <1>4 DEF PollTypes
<1>6. FramesNest' /\ OneBatch'
  BY <1>2 DEF FramesNest, OneBatch
<1>7. \A p \in Ops : phase'[p] = IF p = o THEN phase'[o] ELSE phase[p]
  BY <1>1 DEF PollTypes
<1>8. phase'[o] = IF Immediate(outcome) THEN "ready" ELSE "posted"
  BY <1>1 DEF PollTypes
<1>9. /\ \A i \in 1..Len(ready) : phase'[ready[i]] = "ready"
      /\ \A f \in 1..Depth : \A i \in 1..Len(frames[f].local) :
           phase'[frames[f].local[i]] = "ready"
      /\ \A i \in 1..Len(cq) : phase'[cq[i].op] = "cqe"
      /\ \A f \in 1..Depth : \A i \in Unvisited(f) : phase'[wc_buf[i].op] = "cqe"
  BY <1>2, <1>7, PhaseStep
<1>10. ReadyOnce' /\ PhaseAgrees'
  <2>1. CASE Immediate(outcome)
    <3>1. ready' = Append(ready, o) /\ phase'[o] = "ready"
      BY <1>1, <1>8, <2>1
    <3>2. /\ \A i \in 1..Len(ready) : ready[i] # o
          /\ \A f \in 1..Depth : \A i \in 1..Len(frames[f].local) : frames[f].local[i] # o
      BY <1>2 DEF PhaseAgrees
    <3>3. ReadyOnce'
      <4>1. /\ \A i, j \in 1..Len(ready) : ready[i] = ready[j] => i = j
            /\ \A f \in 1..Depth : \A i \in 1..Len(frames[f].local) :
                 \A j \in 1..Len(ready) : frames[f].local[i] # ready[j]
        BY DEF ReadyOnce
      <4>2. \A i, j \in 1..Len(ready') : ready'[i] = ready'[j] => i = j
        BY <1>4, <3>1, <3>2, <4>1
      <4>3. \A f \in 1..Depth : \A i \in 1..Len(frames[f].local) :
              \A j \in 1..Len(ready') : frames[f].local[i] # ready'[j]
        BY <1>4, <3>1, <3>2, <4>1
      <4> QED BY <1>2, <4>2, <4>3, ReadyStep
    <3>4. PhaseAgrees'
      BY <1>2, <1>4, <1>9, <3>1 DEF PhaseAgrees
    <3> QED BY <3>3, <3>4
  <2>2. CASE ~Immediate(outcome)
    <3>1. ready' = ready
      BY <1>1, <2>2
    <3>2. ReadyOnce'
      BY <1>2, <3>1, LocalsKept
    <3>3. PhaseAgrees'
      BY <1>2, <1>9, <3>1 DEF PhaseAgrees
    <3> QED BY <3>2, <3>3
  <2> QED BY <2>1, <2>2
<1>11. CqeOnce'
  BY <1>2 DEF CqeOnce
<1>12. RunsCounted'
  BY <1>2, <1>7, <1>8 DEF RunsCounted
<1>13. NothingStranded'
  <2> SUFFICES ASSUME throws = 0, NEW p \in Ops, phase'[p] \in {"ready", "cqe"}
               PROVE  \/ InSeq(p, ready') \/ InCqes(p, cq)
                      \/ \E f \in 1..Depth :
                           \/ InSeq(p, frames[f].local)
                           \/ /\ frames[f].at = "batch"
                              /\ \E i \in frames[f].i..frames[f].n : wc_buf[i].op = p
    BY <1>2 DEF NothingStranded, StillReachable, InSeq, InCqes
  <2>1. CASE p = o
    <3>1. ready' = Append(ready, o)
      BY <1>1, <1>8, <2>1
    <3> QED BY <1>4, <2>1, <3>1 DEF InSeq
  <2>2. CASE p # o
    <3>1. InSeq(p, ready) => InSeq(p, ready')
      BY <1>1, <1>4 DEF InSeq
    <3> QED BY <1>7, <2>2, <3>1 DEF NothingStranded, StillReachable
  <2> QED BY <2>1, <2>2
<1> QED BY <1>5, <1>6, <1>10, <1>11, <1>12, <1>13

LEMMA HcaCompleteStep ==
  ASSUME PollInv, NEW o \in Ops, HcaComplete(o)
  PROVE  PollInv'
<1> USE DEF PollInv
<1>1. PICK s \in WcStatus, len \in 0..Size :
        cq' = Append(cq, [op |-> o, status |-> s, len |-> len])
  BY DEF HcaComplete
<1> DEFINE wc == [op |-> o, status |-> s, len |-> len]
<1>2. /\ phase[o] = "posted" /\ phase' = [phase EXCEPT ![o] = "cqe"]
      /\ UNCHANGED <<ready, wc_buf, frames, class, ec, bytes, runs, throws>>
      /\ Depth' = Depth
      /\ \A f \in 1..Depth : Unvisited(f)' = Unvisited(f)
  BY DEF HcaComplete, Depth, Unvisited
<1>3. wc \in Cqe /\ wc.op = o
  BY DEF Cqe
<1> HIDE DEF wc
<1>4. /\ cq' \in Seq(Cqe) /\ Len(cq') = Len(cq) + 1 /\ Len(cq) \in Nat
      /\ \A i \in 1..(Len(cq) + 1) : cq'[i] = IF i = Len(cq) + 1 THEN wc ELSE cq[i]
  BY <1>1, <1>3, PushFacts DEF PollTypes, wc
<1>5. PollTypes'
  BY <1>2, <1>4 DEF PollTypes
<1>6. FramesNest' /\ OneBatch'
  BY <1>2 DEF FramesNest, OneBatch
<1>7. \A p \in Ops : phase'[p] = IF p = o THEN "cqe" ELSE phase[p]
  BY <1>2 DEF PollTypes
<1>8. ReadyOnce'
  BY <1>2, LocalsKept
<1>9. /\ \A i \in 1..Len(cq) : cq[i].op # o
      /\ \A f \in 1..Depth : \A i \in Unvisited(f) : wc_buf[i].op # o
  BY <1>2 DEF PhaseAgrees
<1>10. CqeOnce'
  <2>1. ASSUME NEW i \in 1..Len(cq'), NEW j \in 1..Len(cq'), cq'[i].op = cq'[j].op
        PROVE  i = j
    BY <1>3, <1>4, <1>9, <2>1 DEF CqeOnce
  <2>2. ASSUME NEW f \in 1..Depth, NEW i \in Unvisited(f), NEW j \in 1..Len(cq')
        PROVE  wc_buf[i].op # cq'[j].op
    BY <1>3, <1>4, <1>9 DEF CqeOnce
  <2> QED BY <1>2, <2>1, <2>2 DEF CqeOnce
<1>11. PhaseAgrees'
  <2>1. /\ \A i \in 1..Len(ready) : phase'[ready[i]] = "ready"
        /\ \A f \in 1..Depth : \A i \in 1..Len(frames[f].local) :
             phase'[frames[f].local[i]] = "ready"
        /\ \A i \in 1..Len(cq) : phase'[cq[i].op] = "cqe"
        /\ \A f \in 1..Depth : \A i \in Unvisited(f) : phase'[wc_buf[i].op] = "cqe"
    BY <1>2, <1>7, PhaseStep
  <2> QED BY <1>2, <1>3, <1>4, <1>7, <2>1 DEF PhaseAgrees
<1>12. RunsCounted'
  BY <1>2, <1>7 DEF RunsCounted
<1>13. NothingStranded'
  <2> SUFFICES ASSUME throws = 0, NEW p \in Ops, phase'[p] \in {"ready", "cqe"}
               PROVE  \/ InSeq(p, ready) \/ InCqes(p, cq')
                      \/ \E f \in 1..Depth :
                           \/ InSeq(p, frames[f].local)
                           \/ /\ frames[f].at = "batch"
                              /\ \E i \in frames[f].i..frames[f].n : wc_buf[i].op = p
    BY <1>2 DEF NothingStranded, StillReachable, InSeq, InCqes
  <2>1. CASE p = o
    BY <1>3, <1>4, <2>1 DEF InCqes
  <2>2. CASE p # o
    <3>1. InCqes(p, cq) => InCqes(p, cq')
      BY <1>4 DEF InCqes
    <3> QED BY <1>7, <2>2, <3>1 DEF NothingStranded, StillReachable
  <2> QED BY <2>1, <2>2
<1> QED BY <1>5, <1>6, <1>8, <1>10, <1>11, <1>12, <1>13

LEMMA CallPollStep ==
  ASSUME PollInv, CallPoll
  PROVE  PollInv'
<1> USE DEF PollInv
<1> DEFINE t == Frame("ready", ready, 0, 0)
<1>1. /\ frames' = Append(frames, t) /\ ready' = <<>> /\ CanPoll
      /\ UNCHANGED <<wc_buf, cq, phase, class, ec, bytes, runs, throws>>
  BY DEF CallPoll, opvars
<1>c. UNCHANGED <<wc_buf, cq, phase, class, ec, bytes, runs, throws>>
  BY <1>1
<1>2. /\ t \in PollFrame /\ t.at = "ready" /\ t.local = ready
  BY NewFrame DEF PollTypes, Frame
<1> HIDE DEF t
<1>3. /\ frames' \in Seq(PollFrame) /\ Depth' = Depth + 1 /\ Depth \in Nat
      /\ \A f \in 1..(Depth + 1) : frames'[f] = IF f = Depth + 1 THEN t ELSE frames[f]
  BY <1>1, <1>2, PushFacts DEF PollTypes, Depth
<1>a. PICK d \in Nat : d = Depth + 1
  BY <1>3
<1>b. /\ \A f \in 1..Depth : f \in 1..d /\ frames'[f] = frames[f] /\ f # d
      /\ d \in 1..d /\ frames'[d] = t /\ Depth' = d
      /\ \A f \in 1..d : f \in 1..Depth \/ f = d
  BY <1>3, <1>a
<1>4. Len(ready') = 0 /\ ready' \in Seq(Ops)
  BY <1>1
<1>5. /\ Depth < MaxDepth /\ (Depth > 0 => frames[Depth].handler)
      /\ Depth > 0 => NestedPoll
  BY <1>1 DEF CanPoll, CanCall, Top
<1>6. PollTypes'
  BY <1>1, <1>3, <1>4, <1>5, BoundAssumption DEF PollTypes
<1>7. FramesNest'
  <2>1. ASSUME NEW f \in 1..Depth
        PROVE  /\ f < d \/ frames[f].at = "one" => frames[f].handler
               /\ ~NestedPoll /\ f > 1 => frames[f].at = "one"
               /\ frames[f].at # "ready" => Len(frames[f].local) = 0
               /\ frames[f].at = "batch" =>
                    /\ frames[f].i >= 1 /\ frames[f].n <= Len(wc_buf)
                    /\ frames[f].handler => frames[f].i >= 2
    BY <1>3, <1>5, <1>a DEF FramesNest
  <2>2. ~NestedPoll => ~(d > 1)
    BY <1>3, <1>5, <1>a
  <2> QED BY <1>c, <1>2, <1>b, <2>1, <2>2 DEF FramesNest
<1>8. /\ \A f \in 1..Depth : Unvisited(f)' = Unvisited(f)
      /\ Unvisited(d)' = {}
  BY <1>2, <1>b DEF Unvisited
<1>9. OneBatch'
  BY <1>b, <1>8 DEF OneBatch
<1>10. ReadyOnce'
  <2> SUFFICES ASSUME NEW f \in 1..d, NEW i \in 1..Len(frames'[f].local),
                      NEW g \in 1..d, NEW j \in 1..Len(frames'[g].local),
                      frames'[f].local[i] = frames'[g].local[j]
               PROVE  f = g /\ i = j
    BY <1>4, <1>b DEF ReadyOnce
  <2>1. CASE f = d /\ g = d
    BY <1>2, <1>b, <2>1 DEF ReadyOnce
  <2>2. CASE f = d /\ g \in 1..Depth
    BY <1>2, <1>b, <2>2 DEF ReadyOnce
  <2>3. CASE f \in 1..Depth /\ g = d
    BY <1>2, <1>b, <2>3 DEF ReadyOnce
  <2>4. CASE f \in 1..Depth /\ g \in 1..Depth
    <3>1. frames'[f] = frames[f] /\ frames'[g] = frames[g]
      BY <1>b, <2>4
    <3>2. i \in 1..Len(frames[f].local) /\ j \in 1..Len(frames[g].local)
          /\ frames[f].local[i] = frames[g].local[j]
      BY <3>1
    <3> QED BY <2>4, <3>2 DEF ReadyOnce
  <2> QED BY <1>b, <2>1, <2>2, <2>3, <2>4
<1>11. CqeOnce'
  BY <1>c, <1>b, <1>8 DEF CqeOnce
<1>12. PhaseAgrees'
  <2>1. ASSUME NEW f \in 1..d, NEW i \in 1..Len(frames'[f].local)
        PROVE  phase[frames'[f].local[i]] = "ready"
    BY <1>2, <1>b DEF PhaseAgrees
  <2>2. ASSUME NEW f \in 1..d, NEW i \in Unvisited(f)'
        PROVE  phase[wc_buf[i].op] = "cqe"
    BY <1>b, <1>8 DEF PhaseAgrees
  <2> QED BY <1>c, <1>4, <1>b, <2>1, <2>2 DEF PhaseAgrees
<1>13. RunsCounted'
  BY <1>c DEF RunsCounted
<1>14. NothingStranded'
  <2> SUFFICES ASSUME throws = 0, NEW p \in Ops, phase[p] \in {"ready", "cqe"}
               PROVE  \/ InCqes(p, cq)
                      \/ \E f \in 1..d :
                           \/ InSeq(p, frames'[f].local)
                           \/ /\ frames'[f].at = "batch"
                              /\ \E i \in frames'[f].i..frames'[f].n : wc_buf[i].op = p
    BY <1>c, <1>b DEF NothingStranded, StillReachable
  <2>1. CASE InSeq(p, ready)
    BY <1>2, <1>b, <2>1
  <2>2. CASE \E f \in 1..Depth :
               \/ InSeq(p, frames[f].local)
               \/ /\ frames[f].at = "batch"
                  /\ \E i \in frames[f].i..frames[f].n : wc_buf[i].op = p
    BY <1>b, <2>2
  <2> QED BY <2>1, <2>2 DEF NothingStranded, StillReachable
<1> QED BY <1>6, <1>7, <1>9, <1>10, <1>11, <1>12, <1>13, <1>14

\* A handler runs for an operation that was waiting: it is done, its count is
\* one, and what is waiting elsewhere is not touched.
LEMMA HandlerStep ==
  ASSUME PollInv, NEW o \in Ops, phase[o] \in {"ready", "cqe"},
         \A p \in Ops : phase'[p] = IF p = o THEN "done" ELSE phase[p],
         \A p \in Ops : runs'[p] = IF p = o THEN runs[p] + 1 ELSE runs[p]
  PROVE  /\ RunsCounted'
         /\ \A i \in 1..Len(ready) : ready[i] # o => phase'[ready[i]] = "ready"
         /\ \A f \in 1..Depth : \A i \in 1..Len(frames[f].local) :
              frames[f].local[i] # o => phase'[frames[f].local[i]] = "ready"
         /\ \A i \in 1..Len(cq) : cq[i].op # o => phase'[cq[i].op] = "cqe"
         /\ \A f \in 1..Depth : \A i \in Unvisited(f) :
              wc_buf[i].op # o => phase'[wc_buf[i].op] = "cqe"
<1>1. PhaseAgrees /\ RunsCounted
  BY DEF PollInv
<1>2. RunsCounted'
  BY <1>1 DEF RunsCounted
<1>3. ASSUME NEW i \in 1..Len(ready), ready[i] # o PROVE phase'[ready[i]] = "ready"
  BY <1>1, <1>3, Elements DEF PhaseAgrees
<1>4. ASSUME NEW i \in 1..Len(cq), cq[i].op # o PROVE phase'[cq[i].op] = "cqe"
  BY <1>1, <1>4, Elements DEF PhaseAgrees
<1>5. ASSUME NEW f \in 1..Depth, NEW i \in 1..Len(frames[f].local),
             frames[f].local[i] # o
      PROVE  phase'[frames[f].local[i]] = "ready"
  <2>1. frames[f].local[i] \in Ops /\ phase[frames[f].local[i]] = "ready"
    BY <1>1, Elements DEF PhaseAgrees
  <2> QED BY <1>5, <2>1
<1>6. ASSUME NEW f \in 1..Depth, NEW i \in Unvisited(f), wc_buf[i].op # o
      PROVE  phase'[wc_buf[i].op] = "cqe"
  <2>1. wc_buf[i].op \in Ops /\ phase[wc_buf[i].op] = "cqe"
    BY <1>1, Elements DEF PhaseAgrees
  <2> QED BY <1>6, <2>1
<1> QED BY <1>2, <1>3, <1>4, <1>5, <1>6

\* poll_one() adds a call that has nothing of its own.
OneCall ==
  frames' = Append(frames, [Frame("one", <<>>, 0, 0) EXCEPT !.handler = TRUE])

LEMMA PushOne ==
  ASSUME PollInv, CanCall, wc_buf' = wc_buf, OneCall
  PROVE  /\ frames' \in Seq(PollFrame) /\ Depth' <= MaxDepth
         /\ FramesNest' /\ OneBatch'
         /\ \A f \in 1..Depth : /\ f \in 1..Depth' /\ frames'[f] = frames[f]
                                /\ Unvisited(f)' = Unvisited(f)
         /\ \A f \in 1..Depth' :
              f \notin 1..Depth => Len(frames'[f].local) = 0 /\ Unvisited(f)' = {}
<1> USE DEF PollInv
<1> DEFINE t == [Frame("one", <<>>, 0, 0) EXCEPT !.handler = TRUE]
<1>1. /\ t \in PollFrame /\ t.at = "one" /\ Len(t.local) = 0 /\ t.handler
  <2>1. <<>> \in Seq(Ops) /\ Len(<<>>) = 0
    OBVIOUS
  <2> QED BY <2>1, NewFrame
<1>2. frames' = Append(frames, t)
  BY DEF OneCall
<1> HIDE DEF t
<1>3. /\ frames' \in Seq(PollFrame) /\ Depth' = Depth + 1 /\ Depth \in Nat
      /\ \A f \in 1..(Depth + 1) : frames'[f] = IF f = Depth + 1 THEN t ELSE frames[f]
  BY <1>1, <1>2, PushFacts DEF PollTypes, Depth
<1>4. PICK d \in Nat : d = Depth + 1
  BY <1>3
<1>5. /\ \A f \in 1..Depth : f \in 1..d /\ frames'[f] = frames[f] /\ f # d
      /\ d \in 1..d /\ frames'[d] = t /\ Depth' = d
      /\ \A f \in 1..d : f \in 1..Depth \/ f = d
  BY <1>3, <1>4
<1>6. /\ Depth < MaxDepth /\ (Depth > 0 => frames[Depth].handler)
      /\ wc_buf' = wc_buf
  BY DEF CanCall, Top
<1>7. FramesNest'
  <2>1. ASSUME NEW f \in 1..Depth
        PROVE  /\ f < d \/ frames[f].at = "one" => frames[f].handler
               /\ ~NestedPoll /\ f > 1 => frames[f].at = "one"
               /\ frames[f].at # "ready" => Len(frames[f].local) = 0
               /\ frames[f].at = "batch" =>
                    /\ frames[f].i >= 1 /\ frames[f].n <= Len(wc_buf)
                    /\ frames[f].handler => frames[f].i >= 2
    BY <1>3, <1>4, <1>6 DEF FramesNest
  <2> QED BY <1>1, <1>5, <1>6, <2>1 DEF FramesNest
<1>8. /\ \A f \in 1..Depth : Unvisited(f)' = Unvisited(f)
      /\ Unvisited(d)' = {}
  BY <1>1, <1>5 DEF Unvisited
<1>9. OneBatch'
  BY <1>5, <1>8 DEF OneBatch
<1>10. Depth' <= MaxDepth
  BY <1>3, <1>6, BoundAssumption
<1> QED BY <1>1, <1>3, <1>5, <1>7, <1>8, <1>9, <1>10

LEMMA CallPollOneStep ==
  ASSUME PollInv, CallPollOne
  PROVE  PollInv'
<1> USE DEF PollInv
<1>1. /\ CanCall /\ UNCHANGED <<wc_buf, class, throws>>
      /\ OneCall
  BY DEF CallPollOne, OneCall
<1>2. /\ frames' \in Seq(PollFrame) /\ Depth' <= MaxDepth
      /\ FramesNest' /\ OneBatch'
      /\ \A f \in 1..Depth : /\ f \in 1..Depth' /\ frames'[f] = frames[f]
                             /\ Unvisited(f)' = Unvisited(f)
      /\ \A f \in 1..Depth' :
           f \notin 1..Depth => Len(frames'[f].local) = 0 /\ Unvisited(f)' = {}
  BY <1>1, PushOne
<1>3. UNCHANGED <<wc_buf, class, throws>>
  BY <1>1
<1>4. CASE ready # <<>> /\ ready' = Tail(ready) /\ cq' = cq
           /\ RunHandler(Head(ready), ec[Head(ready)], bytes[Head(ready)])
  <2>1. /\ Len(ready) \in Nat /\ Len(ready) >= 1 /\ ready' \in Seq(Ops)
        /\ Len(ready') = Len(ready) - 1 /\ ready[1] \in Ops /\ Head(ready) = ready[1]
        /\ \A i \in 1..(Len(ready) - 1) : ready'[i] = ready[i + 1]
    BY <1>4, TailFacts DEF PollTypes
  <2>2. PICK o \in Ops : o = ready[1]
    BY <2>1
  <2>3. phase[o] = "ready"
    BY <2>1, <2>2 DEF PhaseAgrees
  <2>4. /\ phase' \in [Ops -> {"none", "ready", "posted", "cqe", "done", "destroyed"}]
        /\ ec' \in [Ops -> Code] /\ bytes' \in [Ops -> 0..Size]
        /\ runs' \in [Ops -> Nat]
        /\ \A p \in Ops : phase'[p] = IF p = o THEN "done" ELSE phase[p]
        /\ \A p \in Ops : runs'[p] = IF p = o THEN runs[p] + 1 ELSE runs[p]
    <3>1. ec[o] \in Code /\ bytes[o] \in 0..Size /\ RunHandler(o, ec[o], bytes[o])
      BY <1>4, <2>1, <2>2 DEF PollTypes
    <3> QED BY <3>1, RunHandlerFacts
  <2>5. /\ RunsCounted'
        /\ \A i \in 1..Len(ready) : ready[i] # o => phase'[ready[i]] = "ready"
        /\ \A f \in 1..Depth : \A i \in 1..Len(frames[f].local) :
             frames[f].local[i] # o => phase'[frames[f].local[i]] = "ready"
        /\ \A i \in 1..Len(cq) : cq[i].op # o => phase'[cq[i].op] = "cqe"
        /\ \A f \in 1..Depth : \A i \in Unvisited(f) :
             wc_buf[i].op # o => phase'[wc_buf[i].op] = "cqe"
    BY <2>3, <2>4, HandlerStep
  <2>6. /\ \A i \in 1..Len(ready') : i + 1 \in 1..Len(ready) /\ ready'[i] = ready[i + 1]
        /\ \A i \in 1..Len(ready) : i = 1 \/ (i - 1 \in 1..Len(ready') /\ ready'[i - 1] = ready[i])
        /\ cq' = cq
    BY <1>4, <2>1
  <2>7. PollTypes'
    BY <1>2, <1>3, <2>1, <2>4, <2>6 DEF PollTypes
  <2>8. /\ \A i \in 1..Len(ready) : ready[i] = o => i = 1
        /\ \A f \in 1..Depth : \A i \in 1..Len(frames[f].local) : frames[f].local[i] # o
        /\ \A i \in 1..Len(cq) : cq[i].op # o
        /\ \A f \in 1..Depth : \A i \in Unvisited(f) : wc_buf[i].op # o
    <3>1. 1 \in 1..Len(ready)
      BY <2>1
    <3>2. /\ \A i \in 1..Len(ready) : ready[i] = o => i = 1
          /\ \A f \in 1..Depth : \A i \in 1..Len(frames[f].local) : frames[f].local[i] # o
      BY <2>2, <3>1 DEF ReadyOnce
    <3>3. /\ \A i \in 1..Len(cq) : cq[i].op # o
          /\ \A f \in 1..Depth : \A i \in Unvisited(f) : wc_buf[i].op # o
      BY <2>3 DEF PhaseAgrees
    <3> QED BY <3>2, <3>3
  <2>9. ReadyOnce'
    <3>1. ASSUME NEW i \in 1..Len(ready'), NEW j \in 1..Len(ready'), ready'[i] = ready'[j]
          PROVE  i = j
      <4>1. i + 1 = j + 1
        BY <2>6, <3>1 DEF ReadyOnce
      <4> QED BY <4>1, <2>1
    <3>2. ASSUME NEW f \in 1..Depth, NEW i \in 1..Len(frames[f].local),
                 NEW j \in 1..Len(ready')
          PROVE  frames[f].local[i] # ready'[j]
      BY <2>6 DEF ReadyOnce
    <3>3. ASSUME NEW f \in 1..Depth', NEW i \in 1..Len(frames'[f].local)
          PROVE  f \in 1..Depth /\ frames'[f] = frames[f]
                 /\ i \in 1..Len(frames[f].local)
      BY <1>2
    <3> QED BY <3>1, <3>2, <3>3, ReadyStep
  <2>10. CqeOnce'
    <3>1. ASSUME NEW f \in 1..Depth', NEW i \in Unvisited(f)'
          PROVE  f \in 1..Depth /\ Unvisited(f)' = Unvisited(f)
      BY <1>2
    <3> QED BY <1>3, <2>6, <3>1 DEF CqeOnce
  <2>11. PhaseAgrees'
    <3>1. ASSUME NEW i \in 1..Len(ready') PROVE phase'[ready'[i]] = "ready"
      <4>1. i + 1 # 1
        BY <2>1
      <4> QED BY <2>5, <2>6, <2>8, <4>1
    <3>2. ASSUME NEW f \in 1..Depth', NEW i \in 1..Len(frames'[f].local)
          PROVE  phase'[frames'[f].local[i]] = "ready"
      <4>1. f \in 1..Depth /\ frames'[f] = frames[f]
        BY <1>2
      <4> QED BY <2>5, <2>8, <4>1
    <3>3. ASSUME NEW f \in 1..Depth', NEW i \in Unvisited(f)'
          PROVE  phase'[wc_buf[i].op] = "cqe"
      <4>1. f \in 1..Depth /\ i \in Unvisited(f)
        BY <1>2
      <4> QED BY <2>5, <2>8, <4>1
    <3> QED BY <1>3, <2>5, <2>6, <2>8, <3>1, <3>2, <3>3 DEF PhaseAgrees
  <2>12. NothingStranded'
    <3> SUFFICES ASSUME throws = 0, NEW p \in Ops, phase'[p] \in {"ready", "cqe"}
                 PROVE  \/ InSeq(p, ready') \/ InCqes(p, cq)
                        \/ \E f \in 1..Depth' :
                             \/ InSeq(p, frames'[f].local)
                             \/ /\ frames'[f].at = "batch"
                                /\ \E i \in frames'[f].i..frames'[f].n : wc_buf[i].op = p
      BY <1>3, <2>6 DEF NothingStranded, StillReachable
    <3>1. p # o /\ phase[p] \in {"ready", "cqe"}
      BY <2>4
    <3>2. InSeq(p, ready) => InSeq(p, ready')
      BY <2>2, <2>6, <3>1 DEF InSeq
    <3>3. CASE \E f \in 1..Depth :
                 \/ InSeq(p, frames[f].local)
                 \/ /\ frames[f].at = "batch"
                    /\ \E i \in frames[f].i..frames[f].n : wc_buf[i].op = p
      BY <1>2, <3>3
    <3> QED BY <3>1, <3>2, <3>3 DEF NothingStranded, StillReachable
  <2> QED BY <1>2, <2>5, <2>7, <2>9, <2>10, <2>11, <2>12
<1>5. CASE cq # <<>> /\ cq' = Tail(cq) /\ ready' = ready /\ RunCompletion(Head(cq))
  <2>1. /\ Len(cq) \in Nat /\ Len(cq) >= 1 /\ cq' \in Seq(Cqe)
        /\ Len(cq') = Len(cq) - 1 /\ cq[1] \in Cqe /\ Head(cq) = cq[1]
        /\ \A i \in 1..(Len(cq) - 1) : cq'[i] = cq[i + 1]
    BY <1>5, TailFacts DEF PollTypes
  <2>2. PICK o \in Ops : o = cq[1].op
    BY <2>1, Elements
  <2>3. phase[o] = "cqe"
    BY <2>1, <2>2 DEF PhaseAgrees
  <2>4. /\ phase' \in [Ops -> {"none", "ready", "posted", "cqe", "done", "destroyed"}]
        /\ ec' \in [Ops -> Code] /\ bytes' \in [Ops -> 0..Size]
        /\ runs' \in [Ops -> Nat]
        /\ \A p \in Ops : phase'[p] = IF p = o THEN "done" ELSE phase[p]
        /\ \A p \in Ops : runs'[p] = IF p = o THEN runs[p] + 1 ELSE runs[p]
    <3>1. cq[1] \in Cqe /\ RunCompletion(cq[1])
      BY <1>5, <2>1
    <3> QED BY <2>2, <3>1, RunCompletionFacts
  <2>5. /\ RunsCounted'
        /\ \A i \in 1..Len(ready) : ready[i] # o => phase'[ready[i]] = "ready"
        /\ \A f \in 1..Depth : \A i \in 1..Len(frames[f].local) :
             frames[f].local[i] # o => phase'[frames[f].local[i]] = "ready"
        /\ \A i \in 1..Len(cq) : cq[i].op # o => phase'[cq[i].op] = "cqe"
        /\ \A f \in 1..Depth : \A i \in Unvisited(f) :
             wc_buf[i].op # o => phase'[wc_buf[i].op] = "cqe"
    BY <2>3, <2>4, HandlerStep
  <2>6. /\ \A i \in 1..Len(cq') : i + 1 \in 1..Len(cq) /\ cq'[i] = cq[i + 1]
        /\ \A i \in 1..Len(cq) : i = 1 \/ (i - 1 \in 1..Len(cq') /\ cq'[i - 1] = cq[i])
        /\ ready' = ready
    BY <1>5, <2>1
  <2>7. PollTypes'
    BY <1>2, <1>3, <2>1, <2>4, <2>6 DEF PollTypes
  <2>8. /\ \A i \in 1..Len(cq) : cq[i].op = o => i = 1
        /\ \A f \in 1..Depth : \A i \in Unvisited(f) : wc_buf[i].op # o
        /\ \A i \in 1..Len(ready) : ready[i] # o
        /\ \A f \in 1..Depth : \A i \in 1..Len(frames[f].local) : frames[f].local[i] # o
    <3>1. 1 \in 1..Len(cq)
      BY <2>1
    <3>2. /\ \A i \in 1..Len(cq) : cq[i].op = o => i = 1
          /\ \A f \in 1..Depth : \A i \in Unvisited(f) : wc_buf[i].op # o
      BY <2>2, <3>1 DEF CqeOnce
    <3>3. /\ \A i \in 1..Len(ready) : ready[i] # o
          /\ \A f \in 1..Depth : \A i \in 1..Len(frames[f].local) : frames[f].local[i] # o
      BY <2>3 DEF PhaseAgrees
    <3> QED BY <3>2, <3>3
  <2>9. ReadyOnce'
    <3>1. ASSUME NEW f \in 1..Depth', NEW i \in 1..Len(frames'[f].local)
          PROVE  f \in 1..Depth /\ frames'[f] = frames[f]
                 /\ i \in 1..Len(frames[f].local)
      BY <1>2
    <3> QED BY <2>6, <3>1, LocalsKept
  <2>10. CqeOnce'
    <3>1. ASSUME NEW f \in 1..Depth', NEW i \in Unvisited(f)'
          PROVE  f \in 1..Depth /\ Unvisited(f)' = Unvisited(f)
      BY <1>2
    <3>2. ASSUME NEW i \in 1..Len(cq'), NEW j \in 1..Len(cq'), cq'[i].op = cq'[j].op
          PROVE  i = j
      <4>1. i + 1 = j + 1
        <5>1. /\ i + 1 \in 1..Len(cq) /\ j + 1 \in 1..Len(cq)
              /\ cq[i + 1].op = cq[j + 1].op
          BY <2>6, <3>2
        <5> QED BY <5>1 DEF CqeOnce
      <4> QED BY <4>1, <2>1
    <3>3. ASSUME NEW f \in 1..Depth, NEW i \in Unvisited(f), NEW j \in 1..Len(cq')
          PROVE  wc_buf[i].op # cq'[j].op
      <4>1. j + 1 \in 1..Len(cq) /\ cq'[j] = cq[j + 1]
        BY <2>6
      <4>2. wc_buf[i].op # cq[j + 1].op
        BY <4>1 DEF CqeOnce
      <4> QED BY <4>1, <4>2
    <3> QED BY <1>3, <3>1, <3>2, <3>3 DEF CqeOnce
  <2>11. PhaseAgrees'
    <3>1. ASSUME NEW i \in 1..Len(cq') PROVE phase'[cq'[i].op] = "cqe"
      <4>1. i + 1 # 1
        BY <2>1
      <4> QED BY <2>5, <2>6, <2>8, <4>1
    <3>2. ASSUME NEW f \in 1..Depth', NEW i \in 1..Len(frames'[f].local)
          PROVE  phase'[frames'[f].local[i]] = "ready"
      <4>1. f \in 1..Depth /\ frames'[f] = frames[f]
        BY <1>2
      <4> QED BY <2>5, <2>8, <4>1
    <3>3. ASSUME NEW f \in 1..Depth', NEW i \in Unvisited(f)'
          PROVE  phase'[wc_buf[i].op] = "cqe"
      <4>1. f \in 1..Depth /\ i \in Unvisited(f)
        BY <1>2
      <4> QED BY <2>5, <2>8, <4>1
    <3> QED BY <1>3, <2>5, <2>6, <2>8, <3>1, <3>2, <3>3 DEF PhaseAgrees
  <2>12. NothingStranded'
    <3> SUFFICES ASSUME throws = 0, NEW p \in Ops, phase'[p] \in {"ready", "cqe"}
                 PROVE  \/ InSeq(p, ready) \/ InCqes(p, cq')
                        \/ \E f \in 1..Depth' :
                             \/ InSeq(p, frames'[f].local)
                             \/ /\ frames'[f].at = "batch"
                                /\ \E i \in frames'[f].i..frames'[f].n : wc_buf[i].op = p
      BY <1>3, <2>6 DEF NothingStranded, StillReachable
    <3>1. p # o /\ phase[p] \in {"ready", "cqe"}
      BY <2>4
    <3>2. InCqes(p, cq) => InCqes(p, cq')
      BY <2>2, <2>6, <3>1 DEF InCqes
    <3>3. CASE \E f \in 1..Depth :
                 \/ InSeq(p, frames[f].local)
                 \/ /\ frames[f].at = "batch"
                    /\ \E i \in frames[f].i..frames[f].n : wc_buf[i].op = p
      BY <1>2, <3>3
    <3> QED BY <3>1, <3>2, <3>3 DEF NothingStranded, StillReachable
  <2> QED BY <1>2, <2>5, <2>7, <2>9, <2>10, <2>11, <2>12
<1> QED BY <1>4, <1>5 DEF CallPollOne

\* The innermost call ends with nothing of its own left.
LEMMA PopStep ==
  ASSUME PollInv, Depth > 0, Pop, Top.at # "ready", Unvisited(Depth) = {},
         UNCHANGED <<ready, wc_buf, cq, phase, class, ec, bytes, runs, throws>>
  PROVE  PollInv'
<1> USE DEF PollInv
<1>1. /\ frames' \in Seq(PollFrame) /\ Depth' = Depth - 1
      /\ \A f \in 1..(Depth - 1) : frames'[f] = frames[f]
  BY PopFacts
<1>2. Depth \in Nat /\ Depth <= MaxDepth
  BY Elements DEF PollTypes
<1>3. PICK d \in Nat : d = Depth - 1
  BY <1>2
<1>4. /\ Depth' = d
      /\ \A f \in 1..d : f \in 1..Depth /\ frames'[f] = frames[f] /\ f < Depth
      /\ \A f \in 1..Depth : f \in 1..d \/ f = Depth
      /\ Len(frames[Depth].local) = 0 /\ Depth \in 1..Depth
  <2>1. Depth \in 1..Depth
    BY <1>2
  <2>2. Len(frames[Depth].local) = 0
    BY <2>1 DEF FramesNest, Top
  <2> QED BY <1>1, <1>2, <1>3, <2>1, <2>2
<1>5. \A f \in 1..d : Unvisited(f)' = Unvisited(f)
  BY <1>4 DEF Unvisited
<1>6. PollTypes'
  BY <1>1, <1>2, BoundAssumption DEF PollTypes
<1>7. FramesNest'
  BY <1>4 DEF FramesNest
<1>8. OneBatch' /\ CqeOnce'
  BY <1>4, <1>5 DEF OneBatch, CqeOnce
<1>9. ReadyOnce'
  BY <1>4, LocalsKept
<1>10. PhaseAgrees'
  BY <1>4, <1>5 DEF PhaseAgrees
<1>11. RunsCounted'
  BY DEF RunsCounted
<1>12. NothingStranded'
  <2> SUFFICES ASSUME throws = 0, NEW p \in Ops, phase[p] \in {"ready", "cqe"}
               PROVE  \/ InSeq(p, ready) \/ InCqes(p, cq)
                      \/ \E f \in 1..d :
                           \/ InSeq(p, frames'[f].local)
                           \/ /\ frames'[f].at = "batch"
                              /\ \E i \in frames'[f].i..frames'[f].n : wc_buf[i].op = p
    BY <1>4 DEF NothingStranded, StillReachable
  <2>1. ASSUME NEW f \in 1..Depth,
               \/ InSeq(p, frames[f].local)
               \/ /\ frames[f].at = "batch"
                  /\ \E i \in frames[f].i..frames[f].n : wc_buf[i].op = p
        PROVE  f \in 1..d
    <3>1. ~InSeq(p, frames[Depth].local)
      BY <1>4 DEF InSeq
    <3>2. frames[Depth].at = "batch" => frames[Depth].i..frames[Depth].n = {}
      BY DEF Unvisited
    <3> QED BY <1>4, <2>1, <3>1, <3>2
  <2>2. CASE \E f \in 1..Depth :
               \/ InSeq(p, frames[f].local)
               \/ /\ frames[f].at = "batch"
                  /\ \E i \in frames[f].i..frames[f].n : wc_buf[i].op = p
    BY <1>4, <2>1, <2>2
  <2> QED BY <2>2 DEF NothingStranded, StillReachable
<1> QED BY <1>6, <1>7, <1>8, <1>9, <1>10, <1>11, <1>12

\* The innermost call moves on with what it has left.
LEMMA QuietTop ==
  ASSUME PollInv, Depth > 0, NEW t \in PollFrame, SetTop(t),
         Top.at # "one", t.at # "one", t.local = Top.local,
         t.at # "ready" => Len(t.local) = 0,
         (IF t.at = "batch" THEN t.i..t.n ELSE {}) = Unvisited(Depth),
         t.at = "batch" => /\ t.i >= 1 /\ t.n <= Len(wc_buf)
                           /\ t.handler => t.i >= 2,
         UNCHANGED <<ready, wc_buf, cq, phase, class, ec, bytes, runs, throws>>
  PROVE  PollInv'
<1> USE DEF PollInv
<1>1. /\ frames' \in Seq(PollFrame) /\ Depth' = Depth
      /\ \A f \in 1..Depth : frames'[f] = IF f = Depth THEN t ELSE frames[f]
  BY SetTopFacts
<1>2. PICK d \in Nat : d = Depth
  BY Elements
<1>3. /\ Depth' = d /\ d \in 1..d /\ frames'[d] = t /\ frames[d] = Top
      /\ \A f \in 1..d : f # d => frames'[f] = frames[f] /\ f < d
      /\ \A f \in 1..d : frames'[f].local = frames[f].local
  BY <1>1, <1>2 DEF Top
<1>4. \A f \in 1..d : Unvisited(f)' = Unvisited(f)
  <2>1. Unvisited(d)' = Unvisited(d)
    BY <1>2, <1>3 DEF Unvisited
  <2> QED BY <1>3, <2>1 DEF Unvisited
<1>5. PollTypes'
  BY <1>1 DEF PollTypes
<1>6. FramesNest'
  <2>1. ~NestedPoll => ~(d > 1)
    BY <1>2, <1>3 DEF FramesNest
  <2> QED BY <1>2, <1>3, <2>1 DEF FramesNest
<1>7. OneBatch' /\ CqeOnce'
  BY <1>2, <1>3, <1>4 DEF OneBatch, CqeOnce
<1>8. ReadyOnce'
  BY <1>2, <1>3, LocalsKept
<1>9. PhaseAgrees'
  BY <1>2, <1>3, <1>4 DEF PhaseAgrees
<1>10. RunsCounted'
  BY DEF RunsCounted
<1>11. NothingStranded'
  <2> SUFFICES ASSUME throws = 0, NEW p \in Ops, phase[p] \in {"ready", "cqe"}
               PROVE  \/ InSeq(p, ready) \/ InCqes(p, cq)
                      \/ \E f \in 1..d :
                           \/ InSeq(p, frames'[f].local)
                           \/ /\ frames'[f].at = "batch"
                              /\ \E i \in frames'[f].i..frames'[f].n : wc_buf[i].op = p
    BY <1>3 DEF NothingStranded, StillReachable
  <2>1. CASE \E f \in 1..d : InSeq(p, frames[f].local)
    BY <1>3, <2>1
  <2>2. CASE \E f \in 1..d : \E i \in Unvisited(f) : wc_buf[i].op = p
    <3>1. PICK f \in 1..d : \E i \in Unvisited(f)' : wc_buf[i].op = p
      BY <1>4, <2>2
    <3> QED BY <3>1 DEF Unvisited
  <2>3. \/ InSeq(p, ready) \/ InCqes(p, cq)
        \/ \E f \in 1..d :
             InSeq(p, frames[f].local) \/ \E i \in Unvisited(f) : wc_buf[i].op = p
    BY <1>2 DEF NothingStranded, StillReachable, Unvisited
  <2> QED BY <2>1, <2>2, <2>3
<1> QED BY <1>5, <1>6, <1>7, <1>8, <1>9, <1>10, <1>11

LEMMA PollFailStep ==
  ASSUME PollInv, PollFail
  PROVE  PollInv'
<1>1. /\ Depth > 0 /\ Pop /\ Top.at = "poll"
      /\ UNCHANGED <<ready, wc_buf, cq, phase, class, ec, bytes, runs, throws>>
  BY DEF PollFail, Active, opvars
<1>2. Unvisited(Depth) = {}
  BY <1>1 DEF Unvisited, Top
<1> QED BY <1>1, <1>2, PopStep

LEMMA HandlerReturnsStep ==
  ASSUME PollInv, HandlerReturns
  PROVE  PollInv'
<1> USE DEF PollInv
<1>1. /\ Depth > 0 /\ Top.handler
      /\ UNCHANGED <<ready, wc_buf, cq, phase, class, ec, bytes, runs, throws>>
  BY DEF HandlerReturns, opvars
<1>2. CASE Top.at = "one"
  <2>1. Pop
    BY <1>2 DEF HandlerReturns
  <2>2. Unvisited(Depth) = {}
    BY <1>2 DEF Unvisited, Top
  <2> QED BY <1>1, <1>2, <2>1, <2>2, PopStep
<1>3. CASE Top.at # "one"
  <2> DEFINE t == [Top EXCEPT !.handler = FALSE]
  <2>1. SetTop(t)
    BY <1>3 DEF HandlerReturns
  <2>2. Top \in PollFrame /\ Depth \in 1..Depth
    BY <1>1, Elements DEF Top
  <2>3. /\ t \in PollFrame /\ t.at = Top.at /\ t.local = Top.local
        /\ t.i = Top.i /\ t.n = Top.n /\ ~t.handler
    BY <2>2 DEF PollFrame
  <2> HIDE DEF t
  <2>4. (IF t.at = "batch" THEN t.i..t.n ELSE {}) = Unvisited(Depth)
    BY <2>3 DEF Unvisited, Top
  <2>5. /\ t.at # "ready" => Len(t.local) = 0
        /\ t.at = "batch" => /\ t.i >= 1 /\ t.n <= Len(wc_buf)
                             /\ t.handler => t.i >= 2
    BY <2>2, <2>3 DEF FramesNest, Top
  <2> QED BY <1>1, <1>3, <2>1, <2>3, <2>4, <2>5, QuietTop
<1> QED BY <1>2, <1>3

LEMMA DrainReadyStep ==
  ASSUME PollInv, DrainReady
  PROVE  PollInv'
<1> USE DEF PollInv
<1>1. /\ Depth > 0 /\ Top.at = "ready" /\ ~Top.handler
      /\ UNCHANGED <<ready, wc_buf, cq, class, throws>>
  BY DEF DrainReady, Active
<1>2. /\ Top \in PollFrame /\ Depth \in 1..Depth /\ Top.local \in Seq(Ops)
      /\ frames[Depth] = Top
  <2>1. Top \in PollFrame /\ Depth \in 1..Depth /\ frames[Depth] = Top
    BY <1>1, Elements DEF Top
  <2> QED BY <2>1 DEF PollFrame
<1>3. CASE Top.local = <<>>
  <2> DEFINE t == [Top EXCEPT !.at = "poll"]
  <2>1. SetTop(t) /\ UNCHANGED <<phase, ec, bytes, runs>>
    BY <1>3 DEF DrainReady
  <2>2. t \in PollFrame /\ t.at = "poll" /\ t.local = Top.local
    BY <1>2 DEF PollFrame
  <2> HIDE DEF t
  <2>3. Len(t.local) = 0
    BY <1>3, <2>2
  <2>4. (IF t.at = "batch" THEN t.i..t.n ELSE {}) = Unvisited(Depth)
    BY <1>1, <2>2 DEF Unvisited, Top
  <2> QED BY <1>1, <2>1, <2>2, <2>3, <2>4, QuietTop
<1>4. CASE Top.local # <<>>
  <2> DEFINE t == [Top EXCEPT !.local = Tail(@), !.handler = TRUE]
  <2>1. /\ Len(Top.local) \in Nat /\ Len(Top.local) >= 1
        /\ Head(Top.local) = Top.local[1] /\ Top.local[1] \in Ops
        /\ Tail(Top.local) \in Seq(Ops) /\ Len(Tail(Top.local)) = Len(Top.local) - 1
        /\ \A i \in 1..(Len(Top.local) - 1) : Tail(Top.local)[i] = Top.local[i + 1]
    BY <1>2, <1>4, TailFacts
  <2>2. /\ t \in PollFrame /\ t.at = "ready" /\ t.local = Tail(Top.local) /\ t.handler
    BY <1>1, <1>2, <2>1 DEF PollFrame
  <2>3. SetTop(t) /\ RunHandler(Head(Top.local), ec[Head(Top.local)], bytes[Head(Top.local)])
    BY <1>4 DEF DrainReady
  <2> HIDE DEF t
  <2>4. PICK o \in Ops : o = Top.local[1]
    BY <2>1
  <2>5. /\ phase' \in [Ops -> {"none", "ready", "posted", "cqe", "done", "destroyed"}]
        /\ ec' \in [Ops -> Code] /\ bytes' \in [Ops -> 0..Size]
        /\ runs' \in [Ops -> Nat]
        /\ \A p \in Ops : phase'[p] = IF p = o THEN "done" ELSE phase[p]
        /\ \A p \in Ops : runs'[p] = IF p = o THEN runs[p] + 1 ELSE runs[p]
    <3>1. ec[o] \in Code /\ bytes[o] \in 0..Size /\ RunHandler(o, ec[o], bytes[o])
      BY <2>1, <2>3, <2>4 DEF PollTypes
    <3> QED BY <3>1, RunHandlerFacts
  <2>6. PICK d \in Nat : d = Depth
    BY Elements
  <2>7. /\ frames' \in Seq(PollFrame) /\ Depth' = d /\ d \in 1..d
        /\ frames'[d] = t /\ frames[d] = Top
        /\ \A f \in 1..d : f # d => frames'[f] = frames[f] /\ f < d
    BY <1>1, <1>2, <2>2, <2>3, <2>6, SetTopFacts
  <2>8. \A f \in 1..d : Unvisited(f)' = Unvisited(f)
    <3>1. Unvisited(d)' = Unvisited(d)
      BY <1>1, <2>2, <2>7 DEF Unvisited
    <3> QED BY <2>7, <3>1 DEF Unvisited
  <2>9. /\ \A f \in 1..d : \A i \in 1..Len(frames'[f].local) :
             \E k \in 1..Len(frames[f].local) :
               /\ frames'[f].local[i] = frames[f].local[k]
               /\ k = IF f = d THEN i + 1 ELSE i
        /\ \A f \in 1..d : \A k \in 1..Len(frames[f].local) :
             \/ f = d /\ k = 1
             \/ \E i \in 1..Len(frames'[f].local) :
                  frames'[f].local[i] = frames[f].local[k]
    <3>1. ASSUME NEW i \in 1..Len(frames'[d].local)
          PROVE  /\ i + 1 \in 1..Len(frames[d].local)
                 /\ frames'[d].local[i] = frames[d].local[i + 1]
      <4>1. frames'[d].local = Tail(Top.local) /\ frames[d].local = Top.local
        BY <2>2, <2>7
      <4>2. i \in 1..(Len(Top.local) - 1)
        BY <2>1, <4>1
      <4> QED BY <2>1, <4>1, <4>2
    <3>2. ASSUME NEW k \in 1..Len(frames[d].local), k # 1
          PROVE  /\ k - 1 \in 1..Len(frames'[d].local)
                 /\ frames'[d].local[k - 1] = frames[d].local[k]
      <4>1. k - 1 \in 1..(Len(Top.local) - 1) /\ (k - 1) + 1 = k
        BY <2>1, <2>7, <3>2
      <4> QED BY <2>1, <2>2, <2>7, <4>1
    <3> HIDE DEF PollInv
    <3>3. ASSUME NEW f \in 1..d, NEW i \in 1..Len(frames'[f].local)
          PROVE  \E k \in 1..Len(frames[f].local) :
                   /\ frames'[f].local[i] = frames[f].local[k]
                   /\ k = IF f = d THEN i + 1 ELSE i
      <4>1. CASE f = d
        BY <3>1, <4>1
      <4>2. CASE f # d
        BY <2>7, <4>2
      <4> QED BY <4>1, <4>2
    <3>4. ASSUME NEW f \in 1..d, NEW k \in 1..Len(frames[f].local)
          PROVE  \/ f = d /\ k = 1
                 \/ \E i \in 1..Len(frames'[f].local) :
                      frames'[f].local[i] = frames[f].local[k]
      <4>1. CASE f = d
        BY <3>2, <4>1
      <4>2. CASE f # d
        BY <2>7, <4>2
      <4> QED BY <4>1, <4>2
    <3> QED BY <3>3, <3>4
  <2>10. /\ d \in 1..Depth /\ 1 \in 1..Len(frames[d].local) /\ frames[d].local[1] = o
         /\ phase[o] = "ready"
    <3>1. d \in 1..Depth /\ 1 \in 1..Len(frames[d].local) /\ frames[d].local[1] = o
      BY <2>1, <2>4, <2>6, <2>7
    <3> QED BY <3>1 DEF PhaseAgrees
  <2>11. /\ RunsCounted'
         /\ \A i \in 1..Len(ready) : ready[i] # o => phase'[ready[i]] = "ready"
         /\ \A f \in 1..Depth : \A i \in 1..Len(frames[f].local) :
              frames[f].local[i] # o => phase'[frames[f].local[i]] = "ready"
         /\ \A i \in 1..Len(cq) : cq[i].op # o => phase'[cq[i].op] = "cqe"
         /\ \A f \in 1..Depth : \A i \in Unvisited(f) :
              wc_buf[i].op # o => phase'[wc_buf[i].op] = "cqe"
    BY <2>5, <2>10, HandlerStep
  <2>12. /\ \A i \in 1..Len(ready) : ready[i] # o
         /\ \A f \in 1..d : \A i \in 1..Len(frames[f].local) :
              frames[f].local[i] = o => f = d /\ i = 1
         /\ \A i \in 1..Len(cq) : cq[i].op # o
         /\ \A f \in 1..d : \A i \in Unvisited(f) : wc_buf[i].op # o
    <3>1. /\ \A i \in 1..Len(ready) : ready[i] # o
          /\ \A f \in 1..d : \A i \in 1..Len(frames[f].local) :
               frames[f].local[i] = o => f = d /\ i = 1
      BY <2>6, <2>10 DEF ReadyOnce
    <3>2. /\ \A i \in 1..Len(cq) : cq[i].op # o
          /\ \A f \in 1..d : \A i \in Unvisited(f) : wc_buf[i].op # o
      BY <2>6, <2>10 DEF PhaseAgrees
    <3> QED BY <3>1, <3>2
  <2>13. PollTypes'
    BY <1>1, <2>5, <2>6, <2>7 DEF PollTypes
  <2>14. FramesNest'
    <3>1. ~NestedPoll => ~(d > 1)
      BY <1>1, <2>6, <2>7 DEF FramesNest
    <3> QED BY <1>1, <2>2, <2>6, <2>7, <3>1 DEF FramesNest
  <2>15. OneBatch' /\ CqeOnce'
    BY <1>1, <2>6, <2>7, <2>8 DEF OneBatch, CqeOnce
  <2>16. ReadyOnce'
    <3>1. ASSUME NEW f \in 1..d, NEW i \in 1..Len(frames'[f].local),
                 NEW j \in 1..Len(ready)
          PROVE  frames'[f].local[i] # ready[j]
      <4>1. PICK k \in 1..Len(frames[f].local) : frames'[f].local[i] = frames[f].local[k]
        BY <2>9
      <4>2. f \in 1..Depth
        BY <2>6
      <4> QED BY <4>1, <4>2 DEF ReadyOnce
    <3>2. ASSUME NEW f \in 1..d, NEW i \in 1..Len(frames'[f].local),
                 NEW g \in 1..d, NEW j \in 1..Len(frames'[g].local),
                 frames'[f].local[i] = frames'[g].local[j]
          PROVE  f = g /\ i = j
      <4>1. PICK k \in 1..Len(frames[f].local) :
              /\ frames'[f].local[i] = frames[f].local[k]
              /\ k = IF f = d THEN i + 1 ELSE i
        BY <2>9
      <4>2. PICK l \in 1..Len(frames[g].local) :
              /\ frames'[g].local[j] = frames[g].local[l]
              /\ l = IF g = d THEN j + 1 ELSE j
        BY <2>9
      <4>3. frames[f].local[k] = frames[g].local[l] /\ f \in 1..Depth /\ g \in 1..Depth
        BY <2>6, <3>2, <4>1, <4>2
      <4>4. f = g /\ k = l
        BY <4>3 DEF ReadyOnce
      <4> QED BY <4>1, <4>2, <4>4
    <3>3. UNCHANGED ready /\ Depth' = d
      BY <1>1, <2>7
    <3> QED BY <3>1, <3>2, <3>3 DEF ReadyOnce
  <2>17. PhaseAgrees'
    <3>1. ASSUME NEW f \in 1..d, NEW i \in 1..Len(frames'[f].local)
          PROVE  phase'[frames'[f].local[i]] = "ready"
      <4>1. PICK k \in 1..Len(frames[f].local) :
              /\ frames'[f].local[i] = frames[f].local[k]
              /\ k = IF f = d THEN i + 1 ELSE i
        BY <2>9
      <4>2. f = d => k # 1
        BY <4>1
      <4> QED BY <2>6, <2>11, <2>12, <4>1, <4>2
    <3> QED BY <1>1, <2>6, <2>7, <2>8, <2>11, <2>12, <3>1 DEF PhaseAgrees
  <2>18. NothingStranded'
    <3> SUFFICES ASSUME throws = 0, NEW p \in Ops, phase'[p] \in {"ready", "cqe"}
                 PROVE  \/ InSeq(p, ready) \/ InCqes(p, cq)
                        \/ \E f \in 1..d :
                             \/ InSeq(p, frames'[f].local)
                             \/ /\ frames'[f].at = "batch"
                                /\ \E i \in frames'[f].i..frames'[f].n : wc_buf[i].op = p
      BY <1>1, <2>7 DEF NothingStranded, StillReachable
    <3>1. p # o /\ phase[p] \in {"ready", "cqe"}
      BY <2>5
    <3>2. CASE \E f \in 1..d : InSeq(p, frames[f].local)
      <4>1. PICK f \in 1..d : \E k \in 1..Len(frames[f].local) : frames[f].local[k] = p
        BY <3>2 DEF InSeq
      <4>2. PICK k \in 1..Len(frames[f].local) : frames[f].local[k] = p
        BY <4>1
      <4>3. ~(f = d /\ k = 1)
        BY <2>10, <3>1, <4>2
      <4>4. \E i \in 1..Len(frames'[f].local) : frames'[f].local[i] = frames[f].local[k]
        BY <2>9, <4>3
      <4> QED BY <4>2, <4>4 DEF InSeq
    <3>3. CASE \E f \in 1..d : \E i \in Unvisited(f) : wc_buf[i].op = p
      <4>1. PICK f \in 1..d : \E i \in Unvisited(f)' : wc_buf[i].op = p
        BY <2>8, <3>3
      <4> QED BY <4>1 DEF Unvisited
    <3>4. \/ InSeq(p, ready) \/ InCqes(p, cq)
          \/ \E f \in 1..d :
               InSeq(p, frames[f].local) \/ \E i \in Unvisited(f) : wc_buf[i].op = p
      BY <2>6, <3>1 DEF NothingStranded, StillReachable, Unvisited
    <3> QED BY <3>2, <3>3, <3>4
  <2> QED BY <2>11, <2>13, <2>14, <2>15, <2>16, <2>17, <2>18
<1> QED BY <1>3, <1>4

LEMMA DispatchBatchStep ==
  ASSUME PollInv, DispatchBatch
  PROVE  PollInv'
<1> USE DEF PollInv
<1>1. /\ Depth > 0 /\ Top.at = "batch" /\ ~Top.handler
      /\ UNCHANGED <<ready, wc_buf, cq, class, throws>>
  BY DEF DispatchBatch, Active
<1>2. /\ Top \in PollFrame /\ Depth \in 1..Depth /\ frames[Depth] = Top
  BY <1>1, Elements DEF Top
<1>3. /\ Top.i \in Nat /\ Top.n \in Nat /\ Top.i >= 1 /\ Top.n <= Len(wc_buf)
      /\ Len(Top.local) = 0
      /\ Unvisited(Depth) = Top.i..Top.n
  <2>1. Top.i \in Nat /\ Top.n \in Nat
    BY <1>2 DEF PollFrame
  <2> QED BY <1>1, <1>2, <2>1 DEF FramesNest, Unvisited
<1>4. CASE Top.i > Top.n
  <2> DEFINE t == [Top EXCEPT !.at = "poll"]
  <2>1. SetTop(t) /\ UNCHANGED <<phase, ec, bytes, runs>>
    BY <1>4 DEF DispatchBatch, BatchEnd
  <2>2. t \in PollFrame /\ t.at = "poll" /\ t.local = Top.local
    BY <1>2 DEF PollFrame
  <2> HIDE DEF t
  <2>3. (IF t.at = "batch" THEN t.i..t.n ELSE {}) = Unvisited(Depth)
    BY <1>3, <1>4, <2>2
  <2>4. Len(t.local) = 0
    BY <1>3, <2>2
  <2> QED BY <1>1, <2>1, <2>2, <2>3, <2>4, QuietTop
<1>5. CASE ~(Top.i > Top.n)
  <2> DEFINE t == [Top EXCEPT !.i = @ + 1, !.handler = TRUE]
  <2>1. SetTop(t) /\ RunCompletion(wc_buf[Top.i])
    BY <1>5 DEF DispatchBatch, BatchEnd
  <2>2. /\ t \in PollFrame /\ t.at = "batch" /\ t.local = Top.local /\ t.handler
        /\ t.i = Top.i + 1 /\ t.n = Top.n
    <3>1. ASSUME NEW r \in PollFrame
          PROVE  LET q == [r EXCEPT !.i = @ + 1, !.handler = TRUE]
                 IN  /\ q \in PollFrame /\ q.at = r.at /\ q.local = r.local
                     /\ q.handler /\ q.i = r.i + 1 /\ q.n = r.n
      <4>1. r.i + 1 \in Nat
        BY DEF PollFrame
      <4> QED BY <4>1 DEF PollFrame
    <3> QED BY <1>1, <1>2, <3>1
  <2> HIDE DEF t
  <2>3. Top.i \in Unvisited(Depth)
    BY <1>3, <1>5
  <2>4. wc_buf[Top.i] \in Cqe /\ wc_buf[Top.i].op \in Ops
    BY <1>2, <2>3, Elements
  <2>5. PICK o \in Ops : o = wc_buf[Top.i].op
    BY <2>4
  <2>6. /\ phase' \in [Ops -> {"none", "ready", "posted", "cqe", "done", "destroyed"}]
        /\ ec' \in [Ops -> Code] /\ bytes' \in [Ops -> 0..Size]
        /\ runs' \in [Ops -> Nat]
        /\ \A p \in Ops : phase'[p] = IF p = o THEN "done" ELSE phase[p]
        /\ \A p \in Ops : runs'[p] = IF p = o THEN runs[p] + 1 ELSE runs[p]
    BY <2>1, <2>4, <2>5, RunCompletionFacts
  <2>7. PICK d \in Nat : d = Depth
    BY Elements
  <2>8. /\ frames' \in Seq(PollFrame) /\ Depth' = d /\ d \in 1..d
        /\ frames'[d] = t /\ frames[d] = Top
        /\ \A f \in 1..d : f # d => frames'[f] = frames[f] /\ f < d
        /\ \A f \in 1..d : frames'[f].local = frames[f].local
    BY <1>1, <1>2, <2>1, <2>2, <2>7, SetTopFacts
  <2>9. /\ Unvisited(d)' = (Top.i + 1)..Top.n /\ Unvisited(d) = Top.i..Top.n
        /\ \A f \in 1..d : f # d => Unvisited(f)' = Unvisited(f)
    BY <1>3, <2>2, <2>7, <2>8 DEF Unvisited
  <2>10. /\ \A f \in 1..d : \A i \in Unvisited(f)' :
              i \in Unvisited(f) /\ ~(f = d /\ i = Top.i)
         /\ \A f \in 1..d : \A i \in Unvisited(f) :
              i \in Unvisited(f)' \/ (f = d /\ i = Top.i)
    BY <1>3, <2>9
  <2>11. phase[o] = "cqe"
    BY <1>2, <2>3, <2>5 DEF PhaseAgrees
  <2>12. /\ RunsCounted'
         /\ \A i \in 1..Len(ready) : ready[i] # o => phase'[ready[i]] = "ready"
         /\ \A f \in 1..Depth : \A i \in 1..Len(frames[f].local) :
              frames[f].local[i] # o => phase'[frames[f].local[i]] = "ready"
         /\ \A i \in 1..Len(cq) : cq[i].op # o => phase'[cq[i].op] = "cqe"
         /\ \A f \in 1..Depth : \A i \in Unvisited(f) :
              wc_buf[i].op # o => phase'[wc_buf[i].op] = "cqe"
    BY <2>6, <2>11, HandlerStep
  <2>13. /\ \A i \in 1..Len(ready) : ready[i] # o
         /\ \A f \in 1..d : \A i \in 1..Len(frames[f].local) : frames[f].local[i] # o
    BY <2>7, <2>11 DEF PhaseAgrees
  <2>14. /\ \A i \in 1..Len(cq) : cq[i].op # o
         /\ \A f \in 1..d : \A i \in Unvisited(f) :
              wc_buf[i].op = o => f = d /\ i = Top.i
    <3>1. \A i \in 1..Len(cq) : cq[i].op # o
      BY <1>2, <2>3, <2>5 DEF CqeOnce
    <3>2. ASSUME NEW f \in 1..d, NEW i \in Unvisited(f), wc_buf[i].op = o
          PROVE  f = d /\ i = Top.i
      <4>1. f = d
        BY <1>2, <2>3, <2>7 DEF OneBatch
      <4> QED BY <1>2, <2>3, <2>5, <2>7, <3>2, <4>1 DEF CqeOnce
    <3> QED BY <3>1, <3>2
  <2>15. PollTypes'
    BY <1>1, <2>6, <2>7, <2>8 DEF PollTypes
  <2>16. FramesNest'
    <3>1. ~NestedPoll => ~(d > 1)
      BY <1>1, <2>7, <2>8 DEF FramesNest
    <3>2. t.i >= 2
      BY <1>3, <2>2
    <3>3. ASSUME NEW f \in 1..d
          PROVE  /\ f < d \/ frames'[f].at = "one" => frames'[f].handler
                 /\ ~NestedPoll /\ f > 1 => frames'[f].at = "one"
                 /\ frames'[f].at # "ready" => Len(frames'[f].local) = 0
                 /\ frames'[f].at = "batch" =>
                      /\ frames'[f].i >= 1 /\ frames'[f].n <= Len(wc_buf)
                      /\ frames'[f].handler => frames'[f].i >= 2
      <4>1. CASE f = d
        BY <1>3, <2>2, <2>8, <3>1, <3>2, <4>1
      <4>2. CASE f # d
        BY <2>7, <2>8, <4>2 DEF FramesNest
      <4> QED BY <4>1, <4>2
    <3> QED BY <1>1, <2>8, <3>3 DEF FramesNest
  <2>17. OneBatch' /\ CqeOnce'
    BY <1>1, <2>7, <2>8, <2>10 DEF OneBatch, CqeOnce
  <2>18. ReadyOnce'
    BY <1>1, <2>7, <2>8, LocalsKept
  <2>19. PhaseAgrees'
    <3>1. ASSUME NEW f \in 1..d, NEW i \in 1..Len(frames'[f].local)
          PROVE  phase'[frames'[f].local[i]] = "ready"
      <4>1. /\ f \in 1..Depth /\ frames'[f].local = frames[f].local
            /\ i \in 1..Len(frames[f].local)
        BY <2>7, <2>8
      <4> QED BY <2>12, <2>13, <4>1
    <3>2. ASSUME NEW f \in 1..d, NEW i \in Unvisited(f)'
          PROVE  phase'[wc_buf[i].op] = "cqe"
      BY <2>7, <2>10, <2>12, <2>14
    <3> QED BY <1>1, <2>8, <2>12, <2>13, <2>14, <3>1, <3>2 DEF PhaseAgrees
  <2>20. NothingStranded'
    <3> SUFFICES ASSUME throws = 0, NEW p \in Ops, phase'[p] \in {"ready", "cqe"}
                 PROVE  \/ InSeq(p, ready) \/ InCqes(p, cq)
                        \/ \E f \in 1..d :
                             \/ InSeq(p, frames'[f].local)
                             \/ /\ frames'[f].at = "batch"
                                /\ \E i \in frames'[f].i..frames'[f].n : wc_buf[i].op = p
      BY <1>1, <2>8 DEF NothingStranded, StillReachable
    <3>1. p # o /\ phase[p] \in {"ready", "cqe"}
      BY <2>6
    <3>2. CASE \E f \in 1..d : InSeq(p, frames[f].local)
      BY <2>8, <3>2
    <3>3. CASE \E f \in 1..d : \E i \in Unvisited(f) : wc_buf[i].op = p
      <4>1. PICK f \in 1..d : \E i \in Unvisited(f)' : wc_buf[i].op = p
        BY <2>5, <2>10, <3>1, <3>3
      <4> QED BY <4>1 DEF Unvisited
    <3>4. \/ InSeq(p, ready) \/ InCqes(p, cq)
          \/ \E f \in 1..d :
               InSeq(p, frames[f].local) \/ \E i \in Unvisited(f) : wc_buf[i].op = p
      BY <2>7, <3>1 DEF NothingStranded, StillReachable, Unvisited
    <3> QED BY <3>2, <3>3, <3>4
  <2> QED BY <2>12, <2>15, <2>16, <2>17, <2>18, <2>19, <2>20
<1> QED BY <1>4, <1>5

\* A batch read over the entries of wc_buf_.
LEMMA OverlayFacts ==
  ASSUME NEW S, NEW s \in Seq(S), NEW w \in Seq(S), NEW n \in 0..Len(s)
  PROVE  LET v == SubSeq(s, 1, n) \o SubSeq(w, n + 1, Len(w))
         IN  /\ v \in Seq(S) /\ Len(v) >= n /\ Len(v) >= Len(w)
             /\ Len(v) <= n \/ Len(v) <= Len(w)
             /\ \A i \in 1..n : v[i] = s[i]
             /\ n = 0 => v = w
<1> DEFINE a == SubSeq(s, 1, n)
           b == SubSeq(w, n + 1, Len(w))
<1>1. /\ n \in Nat /\ a \in Seq(S) /\ Len(a) = n
      /\ \A i \in 1..n : a[i] = s[i]
  BY SliceFacts
<1>2. Len(w) \in Nat /\ \A i \in 1..Len(w) : w[i] \in S
  BY LenProperties, ElementOfSeq
<1>3. /\ b \in Seq(S)
      /\ Len(b) = IF n + 1 <= Len(w) THEN Len(w) - n ELSE 0
  BY <1>1, <1>2, SubSeqProperties
<1>4. n = 0 => a = <<>> /\ b = w
  <2>1. ASSUME n = 0 PROVE a = <<>>
    BY <1>1, <2>1, EmptySeq
  <2>2. ASSUME n = 0 PROVE b = w
    BY <2>1, SubSeqFull, <2>2
  <2> QED BY <2>1, <2>2
<1> HIDE DEF a, b
<1>5. /\ a \o b \in Seq(S) /\ Len(a \o b) = Len(a) + Len(b)
      /\ \A i \in 1..Len(a) + Len(b) :
           (a \o b)[i] = IF i <= Len(a) THEN a[i] ELSE b[i - Len(a)]
  BY <1>1, <1>3, ConcatProperties
<1>6. n = 0 => a \o b = w
  BY <1>4, ConcatEmptySeq
<1>7. \A i \in 1..n : (a \o b)[i] = s[i]
  BY <1>1, <1>2, <1>3, <1>5
<1>8. /\ Len(a \o b) >= n /\ Len(a \o b) >= Len(w)
      /\ Len(a \o b) <= n \/ Len(a \o b) <= Len(w)
  BY <1>1, <1>2, <1>3, <1>5
<1> QED BY <1>5, <1>6, <1>7, <1>8 DEF a, b

\* One batch at a time is what the proof needs of the caller: either handlers
\* never call poll(), only poll_one(), or wc_buf_ holds a single entry.
LEMMA PollBatchStep ==
  ASSUME PollInv, PollBatch, NestedPoll => Batch = 1
  PROVE  PollInv'
<1> USE DEF PollInv
<1>1. PICK n \in 0..Len(cq) :
        /\ n <= Batch /\ (n = 0 => Len(cq) = 0)
        /\ wc_buf' = SubSeq(cq, 1, n) \o SubSeq(wc_buf, n + 1, Len(wc_buf))
        /\ cq' = SubSeq(cq, n + 1, Len(cq))
        /\ IF n = 0 THEN Pop
           ELSE SetTop([Top EXCEPT !.at = "batch", !.n = n, !.i = 1])
  <2> DEFINE n == IF Len(cq) < Batch THEN Len(cq) ELSE Batch
  <2>1. n \in 0..Len(cq) /\ n <= Batch /\ (n = 0 => Len(cq) = 0)
    BY Elements, BatchAssumption
  <2> QED BY <2>1 DEF PollBatch
<1>a. n \in 0..Len(cq) /\ n <= Batch
  BY <1>1
<1>2. /\ Depth > 0 /\ Top.at = "poll" /\ ~Top.handler
      /\ UNCHANGED <<ready, phase, class, ec, bytes, runs, throws>>
  BY DEF PollBatch, Active, opvars
<1>3. /\ wc_buf' \in Seq(Cqe) /\ Len(wc_buf') >= n /\ Len(wc_buf') >= Len(wc_buf)
      /\ Len(wc_buf') <= n \/ Len(wc_buf') <= Len(wc_buf)
      /\ \A i \in 1..n : wc_buf'[i] = cq[i]
      /\ n = 0 => wc_buf' = wc_buf
  <2>1. cq \in Seq(Cqe) /\ wc_buf \in Seq(Cqe)
    BY DEF PollTypes
  <2> HIDE DEF PollInv
  <2> DEFINE v == SubSeq(cq, 1, n) \o SubSeq(wc_buf, n + 1, Len(wc_buf))
  <2>2. wc_buf' = v
    BY <1>1
  <2> HIDE <1>1
  <2>3. /\ v \in Seq(Cqe) /\ Len(v) >= n /\ Len(v) >= Len(wc_buf)
        /\ Len(v) <= n \/ Len(v) <= Len(wc_buf)
        /\ \A i \in 1..n : v[i] = cq[i]
        /\ n = 0 => v = wc_buf
    BY <1>a, <2>1, OverlayFacts, Zenon
  <2> HIDE DEF v
  <2> QED BY <2>2, <2>3
<1>4. /\ n \in Nat /\ Len(cq) \in Nat /\ cq' \in Seq(Cqe) /\ Len(cq') = Len(cq) - n
      /\ \A i \in 1..(Len(cq) - n) : cq'[i] = cq[n + i]
  BY <1>1, SliceFacts DEF PollTypes
<1>5. CASE n = 0
  <2>1. cq' = cq
    <3>1. cq = SubSeq(cq, 1, Len(cq))
      BY SubSeqFull DEF PollTypes
    <3> QED BY <1>1, <1>5, <3>1
  <2>2. Unvisited(Depth) = {}
    BY <1>2 DEF Unvisited, Top
  <2>3. Pop
    BY <1>1, <1>5
  <2> QED BY <1>2, <1>3, <1>5, <2>1, <2>2, <2>3, PopStep
<1>6. CASE n # 0
  <2> DEFINE t == [Top EXCEPT !.at = "batch", !.n = n, !.i = 1]
  <2>1. SetTop(t)
    BY <1>1, <1>6
  <2>2. Top \in PollFrame /\ Depth \in 1..Depth /\ frames[Depth] = Top
    BY <1>2, Elements DEF Top
  <2>3. /\ t \in PollFrame /\ t.at = "batch" /\ t.local = Top.local /\ ~t.handler
        /\ t.i = 1 /\ t.n = n
    BY <1>2, <1>4, <2>2 DEF PollFrame
  <2> HIDE DEF t
  <2>4. PICK d \in Nat : d = Depth
    BY Elements
  <2>5. /\ frames' \in Seq(PollFrame) /\ Depth' = d /\ d \in 1..d
        /\ frames'[d] = t /\ frames[d] = Top
        /\ \A f \in 1..d : f # d => frames'[f] = frames[f] /\ f < d
        /\ \A f \in 1..d : frames'[f].local = frames[f].local
    BY <1>2, <2>1, <2>2, <2>3, <2>4, SetTopFacts
  <2>6. \A f \in 1..d : Unvisited(f) = {}
    <3>1. Unvisited(d) = {}
      BY <1>2, <2>5 DEF Unvisited
    <3>2. ASSUME NEW f \in 1..d, f # d PROVE Unvisited(f) = {}
      <4>1. CASE NestedPoll
        <5>1. frames[f].handler /\ f \in 1..Depth
          BY <2>4, <2>5, <3>2 DEF FramesNest
        <5>2. /\ Len(wc_buf) \in Nat /\ Len(wc_buf) <= 1
              /\ frames[f].i \in Nat /\ frames[f].n \in Nat
          <6>1. frames[f] \in PollFrame
            BY <5>1, Elements
          <6>2. frames[f].i \in Nat /\ frames[f].n \in Nat
            BY <6>1 DEF PollFrame
          <6>3. Len(wc_buf) \in Nat /\ Len(wc_buf) <= Batch
            BY LenProperties DEF PollTypes
          <6> QED BY <4>1, <6>2, <6>3
        <5>3. frames[f].at = "batch" => frames[f].i >= 2 /\ frames[f].n <= Len(wc_buf)
          BY <5>1 DEF FramesNest
        <5> QED BY <5>2, <5>3 DEF Unvisited
      <4>2. CASE ~NestedPoll
        BY <1>2, <2>4, <2>5, <3>2, <4>2 DEF FramesNest
      <4> QED BY <4>1, <4>2
    <3> QED BY <3>1, <3>2
  <2>7. /\ Unvisited(d)' = 1..n
        /\ \A f \in 1..d : f # d => Unvisited(f)' = {}
    <3>1. Unvisited(d)' = 1..n
      BY <2>3, <2>5 DEF Unvisited
    <3>2. ASSUME NEW f \in 1..d, f # d PROVE Unvisited(f)' = Unvisited(f)
      BY <2>5, <3>2 DEF Unvisited
    <3> QED BY <2>6, <3>1, <3>2
  <2>8. PollTypes'
    <3>1. Len(wc_buf) \in Nat /\ Len(wc_buf) <= Batch /\ Len(wc_buf') \in Nat
      BY <1>3, LenProperties DEF PollTypes
    <3>2. Len(wc_buf') <= Batch
      BY <1>a, <1>3, <1>4, <3>1, BatchAssumption
    <3> QED BY <1>2, <1>3, <1>4, <2>4, <2>5, <3>2 DEF PollTypes
  <2>9. FramesNest'
    <3>1. ~NestedPoll => ~(d > 1)
      BY <1>2, <2>4, <2>5 DEF FramesNest
    <3>2. ASSUME NEW f \in 1..d
          PROVE  /\ f < d \/ frames'[f].at = "one" => frames'[f].handler
                 /\ ~NestedPoll /\ f > 1 => frames'[f].at = "one"
                 /\ frames'[f].at # "ready" => Len(frames'[f].local) = 0
                 /\ frames'[f].at = "batch" =>
                      /\ frames'[f].i >= 1 /\ frames'[f].n <= Len(wc_buf')
                      /\ frames'[f].handler => frames'[f].i >= 2
      <4>1. CASE f = d
        <5>1. Len(Top.local) = 0
          BY <1>2, <2>2 DEF FramesNest
        <5> QED BY <1>3, <2>3, <2>5, <3>1, <4>1, <5>1
      <4>2. CASE f # d
        <5>1. /\ frames'[f] = frames[f] /\ f < d /\ f \in 1..Depth
          BY <2>4, <2>5, <4>2
        <5>2. /\ frames[f].handler
              /\ ~NestedPoll /\ f > 1 => frames[f].at = "one"
              /\ frames[f].at # "ready" => Len(frames[f].local) = 0
              /\ frames[f].at = "batch" =>
                   /\ frames[f].i >= 1 /\ frames[f].n <= Len(wc_buf)
                   /\ frames[f].i >= 2
          BY <2>4, <5>1 DEF FramesNest
        <5>3. frames[f].n \in Nat /\ Len(wc_buf) \in Nat /\ Len(wc_buf') \in Nat
          <6>1. frames[f] \in PollFrame
            BY <5>1, Elements
          <6>2. wc_buf \in Seq(Cqe)
            BY DEF PollTypes
          <6> QED BY <1>3, <6>1, <6>2, LenProperties DEF PollFrame
        <5>4. frames[f].n <= Len(wc_buf) => frames[f].n <= Len(wc_buf')
          BY <1>3, <5>3
        <5> QED BY <5>1, <5>2, <5>4
      <4> QED BY <4>1, <4>2
    <3> QED BY <2>5, <3>2 DEF FramesNest
  <2>10. OneBatch'
    BY <2>5, <2>7 DEF OneBatch
  <2>11. ReadyOnce'
    BY <1>2, <2>4, <2>5, LocalsKept
  <2>12. /\ \A i \in 1..n : i \in 1..Len(cq) /\ wc_buf'[i] = cq[i]
         /\ \A i \in 1..Len(cq') : /\ n + i \in 1..Len(cq) /\ cq'[i] = cq[n + i]
                                   /\ n + i \notin 1..n
         /\ \A k \in 1..Len(cq) :
              k \in 1..n \/ (k - n \in 1..Len(cq') /\ cq'[k - n] = cq[k])
    <3>1. ASSUME NEW i \in 1..n PROVE i \in 1..Len(cq) /\ wc_buf'[i] = cq[i]
      BY <1>a, <1>3, <1>4
    <3>2. ASSUME NEW i \in 1..Len(cq')
          PROVE  n + i \in 1..Len(cq) /\ cq'[i] = cq[n + i] /\ n + i \notin 1..n
      BY <1>a, <1>4
    <3>3. ASSUME NEW k \in 1..Len(cq), k \notin 1..n
          PROVE  k - n \in 1..Len(cq') /\ cq'[k - n] = cq[k]
      <4>1. k - n \in 1..(Len(cq) - n) /\ n + (k - n) = k
        BY <1>a, <1>4, <3>3
      <4> QED BY <1>4, <4>1
    <3> QED BY <3>1, <3>2, <3>3
  <2>13. CqeOnce'
    <3>1. ASSUME NEW i \in 1..Len(cq'), NEW j \in 1..Len(cq'), cq'[i].op = cq'[j].op
          PROVE  i = j
      <4>1. /\ n + i \in 1..Len(cq) /\ n + j \in 1..Len(cq)
            /\ cq[n + i].op = cq[n + j].op
        BY <2>12, <3>1
      <4>2. n + i = n + j
        BY <4>1 DEF CqeOnce
      <4> QED BY <1>4, <4>2
    <3>2. ASSUME NEW f \in 1..d, NEW i \in Unvisited(f)'
          PROVE  /\ \A j \in 1..Len(cq') : wc_buf'[i].op # cq'[j].op
                 /\ \A j \in Unvisited(f)' : wc_buf'[i].op = wc_buf'[j].op => i = j
      <4>1. f = d /\ i \in 1..n /\ Unvisited(f)' = 1..n
        BY <2>7
      <4>2. ASSUME NEW j \in 1..Len(cq') PROVE wc_buf'[i].op # cq'[j].op
        <5>1. /\ i \in 1..Len(cq) /\ wc_buf'[i] = cq[i]
              /\ n + j \in 1..Len(cq) /\ cq'[j] = cq[n + j] /\ i # n + j
          BY <2>12, <4>1
        <5>2. cq[i].op # cq[n + j].op
          BY <5>1 DEF CqeOnce
        <5> QED BY <5>1, <5>2
      <4>3. ASSUME NEW j \in 1..n, wc_buf'[i].op = wc_buf'[j].op PROVE i = j
        <5>1. i \in 1..Len(cq) /\ j \in 1..Len(cq) /\ cq[i].op = cq[j].op
          BY <2>12, <4>1, <4>3
        <5> QED BY <5>1 DEF CqeOnce
      <4> QED BY <4>1, <4>2, <4>3
    <3> QED BY <2>5, <3>1, <3>2 DEF CqeOnce
  <2>14. PhaseAgrees'
    <3>1. ASSUME NEW i \in 1..Len(cq') PROVE phase[cq'[i].op] = "cqe"
      <4>1. n + i \in 1..Len(cq) /\ cq'[i] = cq[n + i]
        BY <2>12
      <4>2. phase[cq[n + i].op] = "cqe"
        BY <4>1 DEF PhaseAgrees
      <4> QED BY <4>1, <4>2
    <3>2. ASSUME NEW f \in 1..d, NEW i \in Unvisited(f)'
          PROVE  phase[wc_buf'[i].op] = "cqe"
      BY <2>7, <2>12 DEF PhaseAgrees
    <3>3. ASSUME NEW f \in 1..d, NEW i \in 1..Len(frames'[f].local)
          PROVE  phase[frames'[f].local[i]] = "ready"
      BY <2>4, <2>5 DEF PhaseAgrees
    <3>4. \A i \in 1..Len(ready) : phase[ready[i]] = "ready"
      BY DEF PhaseAgrees
    <3>5. phase' = phase /\ ready' = ready /\ Depth' = d
      BY <1>2, <2>5
    <3> QED BY <3>1, <3>2, <3>3, <3>4, <3>5 DEF PhaseAgrees
  <2>15. RunsCounted'
    BY <1>2 DEF RunsCounted
  <2>16. NothingStranded'
    <3> SUFFICES ASSUME throws = 0, NEW p \in Ops, phase[p] \in {"ready", "cqe"}
                 PROVE  \/ InSeq(p, ready) \/ InCqes(p, cq')
                        \/ \E f \in 1..d :
                             \/ InSeq(p, frames'[f].local)
                             \/ /\ frames'[f].at = "batch"
                                /\ \E i \in frames'[f].i..frames'[f].n : wc_buf'[i].op = p
      BY <1>2, <2>5 DEF NothingStranded, StillReachable
    <3>1. CASE InCqes(p, cq)
      <4>1. PICK k \in 1..Len(cq) : cq[k].op = p
        BY <3>1 DEF InCqes
      <4>2. CASE k \in 1..n
        <5>1. wc_buf'[k].op = p
          BY <2>12, <4>1, <4>2
        <5> QED BY <2>3, <2>5, <4>2, <5>1
      <4>3. CASE k \notin 1..n
        <5>1. k - n \in 1..Len(cq') /\ cq'[k - n].op = p
          BY <2>12, <4>1, <4>3
        <5> QED BY <5>1 DEF InCqes
      <4> QED BY <4>2, <4>3
    <3>2. CASE \E f \in 1..d : InSeq(p, frames[f].local)
      BY <2>5, <3>2
    <3>3. \/ InSeq(p, ready) \/ InCqes(p, cq)
          \/ \E f \in 1..d :
               InSeq(p, frames[f].local) \/ \E i \in Unvisited(f) : wc_buf[i].op = p
      BY <2>4 DEF NothingStranded, StillReachable, Unvisited
    <3> QED BY <2>6, <3>1, <3>2, <3>3
  <2> QED BY <2>8, <2>9, <2>10, <2>11, <2>13, <2>14, <2>15, <2>16
<1> QED BY <1>5, <1>6

LEMMA HandlerThrowsStep ==
  ASSUME PollInv, HandlerThrows
  PROVE  PollInv'
<1> USE DEF PollInv
<1> DEFINE Held(o) ==
      \E f \in 1..Depth : \E i \in 1..Len(frames[f].local) : frames[f].local[i] = o
<1>1. /\ UNCHANGED <<ready, wc_buf, cq, class, ec, bytes, runs>>
      /\ throws' = throws + 1
  BY DEF HandlerThrows
<1>2. frames' \in Seq(PollFrame) /\ Depth' = 0
  <2>1. frames' = <<>>
    BY DEF HandlerThrows
  <2> QED BY <2>1 DEF Depth
<1>3. /\ phase' \in [Ops -> {"none", "ready", "posted", "cqe", "done", "destroyed"}]
      /\ \A o \in Ops : phase'[o] = IF Held(o) THEN "destroyed" ELSE phase[o]
  <2>1. phase' = [o \in Ops |-> IF Held(o) THEN "destroyed" ELSE phase[o]]
    BY DEF HandlerThrows
  <2> HIDE DEF Held
  <2> QED BY <2>1 DEF PollTypes
<1>4. /\ \A o \in Ops : Held(o) => phase[o] = "ready"
      /\ \A j \in 1..Len(ready) : ~Held(ready[j])
  <2>1. ASSUME NEW o \in Ops, Held(o) PROVE phase[o] = "ready"
    BY <2>1 DEF PhaseAgrees
  <2>2. ASSUME NEW j \in 1..Len(ready) PROVE ~Held(ready[j])
    BY DEF ReadyOnce
  <2> QED BY <2>1, <2>2
<1> HIDE DEF Held
<1>5. PollTypes'
  BY <1>1, <1>2, <1>3, BoundAssumption DEF PollTypes
<1>6. FramesNest' /\ OneBatch' /\ CqeOnce' /\ ReadyOnce'
  BY <1>1, <1>2 DEF FramesNest, OneBatch, CqeOnce, ReadyOnce
<1>7. PhaseAgrees'
  <2>1. ASSUME NEW i \in 1..Len(ready) PROVE phase'[ready[i]] = "ready"
    BY <1>3, <1>4, Elements DEF PhaseAgrees
  <2>2. ASSUME NEW i \in 1..Len(cq) PROVE phase'[cq[i].op] = "cqe"
    <3>1. cq[i].op \in Ops /\ phase[cq[i].op] = "cqe"
      BY Elements DEF PhaseAgrees
    <3> QED BY <1>3, <1>4, <3>1
  <2> QED BY <1>1, <1>2, <2>1, <2>2 DEF PhaseAgrees
<1>8. RunsCounted'
  BY <1>1, <1>3, <1>4 DEF RunsCounted
<1>9. NothingStranded'
  BY <1>1 DEF NothingStranded, PollTypes
<1> QED BY <1>5, <1>6, <1>7, <1>8, <1>9

\* Every step keeps PollInv.
LEMMA PollStep ==
  ASSUME NestedPoll => Batch = 1
  PROVE  PollInv /\ [PollNext]_pollvars => PollInv'
<1> SUFFICES ASSUME PollInv, [PollNext]_pollvars PROVE PollInv'
  OBVIOUS
<1>1. ASSUME NEW o \in Ops, Submit(o) PROVE PollInv'
  BY <1>1, SubmitStep
<1>2. ASSUME NEW o \in Ops, HcaComplete(o) PROVE PollInv'
  BY <1>2, HcaCompleteStep
<1>3. CASE CallPoll
  BY <1>3, CallPollStep
<1>4. CASE CallPollOne
  BY <1>4, CallPollOneStep
<1>5. CASE DrainReady
  BY <1>5, DrainReadyStep
<1>6. CASE PollBatch
  BY <1>6, PollBatchStep
<1>7. CASE PollFail
  BY <1>7, PollFailStep
<1>8. CASE DispatchBatch
  BY <1>8, DispatchBatchStep
<1>9. CASE HandlerReturns
  BY <1>9, HandlerReturnsStep
<1>10. CASE HandlerThrows
  BY <1>10, HandlerThrowsStep
<1>11. CASE UNCHANGED pollvars
  <2>1. /\ UNCHANGED <<ready, wc_buf, frames, cq, phase, class, ec, bytes, runs, throws>>
        /\ Depth' = Depth /\ \A f \in 1..Depth : Unvisited(f)' = Unvisited(f)
    BY <1>11 DEF pollvars, opvars, Depth, Unvisited
  <2>a. PollTypes' /\ FramesNest'
    BY <2>1 DEF PollInv, PollTypes, FramesNest
  <2>b. OneBatch' /\ CqeOnce'
    BY <2>1 DEF PollInv, OneBatch, CqeOnce
  <2>2. ReadyOnce'
    BY <2>1, LocalsKept DEF PollInv
  <2>3. PhaseAgrees' /\ RunsCounted'
    BY <2>1 DEF PollInv, PhaseAgrees, RunsCounted
  <2>4. NothingStranded'
    BY <2>1 DEF PollInv, NothingStranded, StillReachable, InSeq, InCqes
  <2> QED BY <2>a, <2>b, <2>2, <2>3, <2>4 DEF PollInv
<1> QED BY <1>1, <1>2, <1>3, <1>4, <1>5, <1>6, <1>7, <1>8, <1>9, <1>10, <1>11
        DEF PollNext, PollerStep

\* The invariant of the poll-mode completion queue, for any number of
\* operations and calls.
THEOREM PollInvariant ==
  ASSUME NestedPoll => Batch = 1
  PROVE  PollSpec => []PollInv
BY PollInitInv, PollStep, PTL DEF PollSpec

\* The types of the poll-mode state, and how the calls in progress nest.
THEOREM PollTypeCorrect ==
  ASSUME NestedPoll => Batch = 1
  PROVE  PollSpec => []TypeOK
<1>1. PollInv => TypeOK
  <2> SUFFICES ASSUME PollInv PROVE TypeOK
    OBVIOUS
  <2> USE DEF PollInv
  <2>1. /\ ready \in Seq(Ops) /\ Len(wc_buf) <= Batch /\ Depth <= MaxDepth
        /\ phase \in [Ops -> {"none", "ready", "posted", "cqe", "done", "destroyed"}]
        /\ class \in [Ops -> Class] /\ ec \in [Ops -> Code]
        /\ bytes \in [Ops -> 0..Size] /\ runs \in [Ops -> Nat]
    BY DEF PollTypes
  <2>2. \A i \in 1..Len(wc_buf) : wc_buf[i].op \in Ops
    <3>1. \A i \in 1..Len(wc_buf) : wc_buf[i] \in Cqe
      BY ElementOfSeq DEF PollTypes
    <3> QED BY <3>1 DEF Cqe
  <2>3. \A f \in 1..Depth : f < Depth \/ Top.at = "one" => frames[f].handler
    <3>1. Depth \in Nat
      BY Elements
    <3>2. ASSUME NEW f \in 1..Depth, f < Depth \/ Top.at = "one"
          PROVE  frames[f].handler
      <4>1. CASE f < Depth
        BY <4>1 DEF FramesNest
      <4>2. CASE ~(f < Depth)
        <5>1. f = Depth /\ frames[f].at = "one"
          BY <3>1, <3>2, <4>2 DEF Top
        <5> QED BY <5>1 DEF FramesNest
      <4> QED BY <4>1, <4>2
    <3> QED BY <3>2
  <2> QED BY <2>1, <2>2, <2>3 DEF TypeOK
<1> QED BY <1>1, PollInvariant, PTL

\* Whatever mix of poll(), poll_one() and the ready queue completes it, an
\* operation is completed at most once.
THEOREM PollCompletesOnce ==
  ASSUME NestedPoll => Batch = 1
  PROVE  PollSpec => []CompletedOnce
<1>1. PollInv => CompletedOnce
  BY DEF PollInv, RunsCounted, CompletedOnce
<1> QED BY <1>1, PollInvariant, PTL

\* As long as no handler throws, no completion is lost between the batches,
\* the ready queue and the calls that handlers make.
THEOREM PollStrandsNothing ==
  ASSUME NestedPoll => Batch = 1
  PROVE  PollSpec => []NothingStranded
<1>1. PollInv => NothingStranded
  BY DEF PollInv
<1> QED BY <1>1, PollInvariant, PTL
=============================================================================
