----------------------------- MODULE SmallSglist ----------------------------
(***************************************************************************)
(* small_sglist, the scatter/gather list with inline storage, and          *)
(* build_native_sglist, which fills it from a buffer sequence on the way   *)
(* to ibv_post_* (nd_buffer.hpp holds the same builder).                   *)
(*                                                                         *)
(* A buffer is a slice of a memory region; an entry of the list is the     *)
(* pair of the build and the position it was written from, so that an      *)
(* entry left by an earlier build is told apart.  size_t and the 32-bit    *)
(* length field keep their overflow at a smaller width.                    *)
(***************************************************************************)
EXTENDS MemoryRegion, Sequences

CONSTANTS
  InlineCount,  \* inline_sge_count (8 in the code)
  MaxOp,        \* the maximum of the 32-bit length field
  Addr, Length, \* the memory that is registered
  Requests,     \* the slices asked of it: an offset or an address, a length
  MaxBufs,      \* bound: buffers in a sequence
  SgeLimits,    \* values of max_sge; 0 means no limit
  MaxBuilds,    \* bound: builds made with one list
  Resizes       \* counts given to reserve() and resize() between builds

ASSUME CountAssumption == InlineCount \in Nat \ {0} /\ MaxBufs \in Nat
ASSUME WidthAssumption == MaxOp \in Word
ASSUME RegionAssumption ==
  Addr \in Word /\ Length \in Word /\ Registered([addr |-> Addr, length |-> Length])
ASSUME InputAssumption ==
  Requests \subseteq [by : {"offset", "address"}, at : Word, length : Word]
    /\ SgeLimits \subseteq Nat
ASSUME CallAssumption == MaxBuilds \in Nat \ {0} /\ Resizes \subseteq Nat

VARIABLES
  region,         \* the region object the buffers come from
  inline,         \* inline_
  heap,           \* the array heap_ points to; empty when null
  heap_capacity,  \* heap_capacity_
  data,           \* where data_ points: "null", "inline" or "heap"
  size,           \* size_
  pc,             \* "idle", "building" or "built"
  input,          \* the buffer sequence being built
  max_sge,
  built,          \* the built_sglist being filled
  gen,            \* history: the number of this build
  fresh           \* history: the list had not allocated when it started

list == <<inline, heap, heap_capacity, data, size>>
vars == <<region, list, pc, input, max_sge, built, gen, fresh>>

Zero == <<0, 0>>   \* a value-initialised entry
NewBuilt == [count |-> 0, total_bytes |-> 0, all_empty |-> TRUE,
             too_many_sge |-> FALSE, buffer_too_large |-> FALSE,
             heap_spilled |-> FALSE]

Init ==
  /\ region = [mr |-> TRUE, addr |-> Addr, length |-> Length]
  /\ inline = [i \in 1..InlineCount |-> Zero]
  /\ heap = <<>> /\ heap_capacity = 0
  /\ data = "null" /\ size = 0
  /\ pc = "idle" /\ input = <<>> /\ max_sge = 0
  /\ built = NewBuilt
  /\ gen = 0 /\ fresh = TRUE
-----------------------------------------------------------------------------
Greatest(m, n) == IF m > n THEN m ELSE n

\* data()[i].
At(i) == IF data = "inline" THEN inline[i] ELSE heap[i]

\* uses_heap compares two pointers, which are both null on an empty list
\* that never allocated.
UsesHeap(d) == d = "heap" \/ (d = "null" /\ heap_capacity = 0)

capacity == IF UsesHeap(data) THEN heap_capacity ELSE InlineCount

\* Seeded fault: the new array is left as it was allocated.
GrownNoCopy(count) == [i \in 1..count |-> Zero]

\* The array that reserve(count) allocates, with the visible entries copied.
Grown(count) ==
  [i \in 1..count |-> IF data # "null" /\ i <= size THEN At(i) ELSE Zero]

\* Does reserve(count) allocate?
Reallocates(count) == count > InlineCount /\ count > heap_capacity

ReservedHeap(count) == IF Reallocates(count) THEN Grown(count) ELSE heap

\* reserve(): data_ follows only when it was on the heap already.
Reserve(count) ==
  /\ heap' = ReservedHeap(count)
  /\ heap_capacity' = IF Reallocates(count) THEN count ELSE heap_capacity
  /\ data' = IF Reallocates(count) /\ size > InlineCount THEN "heap" ELSE data
  /\ UNCHANGED <<inline, size>>

\* clear(): the allocation is kept.
Clear == data' = "null" /\ size' = 0 /\ UNCHANGED <<inline, heap, heap_capacity>>

\* resize(): entries move from the heap to the inline array, or to a new
\* allocation, not from the inline array to a kept allocation.
Resize(count) ==
  IF count = 0 THEN Clear
  ELSE /\ heap' = ReservedHeap(count)
       /\ heap_capacity' = IF Reallocates(count) THEN count ELSE heap_capacity
       /\ inline' = IF count <= InlineCount /\ data = "heap"
                      THEN [i \in 1..InlineCount |->
                              IF i <= size /\ i <= count THEN heap[i] ELSE inline[i]]
                      ELSE inline
       /\ data' = IF count <= InlineCount THEN "inline" ELSE "heap"
       /\ size' = count

\* Seeded fault: one entry more than reserved is written.
GrowthShort(target) == target - 1

\* The capacity append asks for when the heap is too small.
Growth(target) ==
  Greatest(target, IF heap_capacity = 0 THEN InlineCount * 2 ELSE heap_capacity * 2)

\* append_uninitialized(), and fill_native_sge on the entry it returns.
Append1(entry) ==
  LET target == size + 1
      grow == target > InlineCount /\ target > heap_capacity
      heap1 == IF grow THEN ReservedHeap(Growth(target)) ELSE heap
      data1 == IF data = "null" THEN "inline"
               ELSE IF target > InlineCount THEN "heap" ELSE data
  IN
  /\ heap_capacity' = IF grow THEN Len(heap1) ELSE heap_capacity
  /\ data' = data1
  /\ size' = target
  /\ IF data1 = "inline"
       THEN inline' = [inline EXCEPT ![target] = entry] /\ heap' = heap1
       ELSE heap' = [heap1 EXCEPT ![target] = entry] /\ UNCHANGED inline
-----------------------------------------------------------------------------
\* The region is moved to another object, and the program goes on slicing the
\* old one.
MoveRegion ==
  /\ pc # "building" /\ region.mr
  /\ region' = [region EXCEPT !.mr = FALSE]
  /\ pc' = "idle"
  /\ UNCHANGED <<list, input, max_sge, built, gen, fresh>>

\* The buffer a request is answered with.
Answer(q) ==
  IF q.by = "offset" THEN Slice(region, q.at, q.length)
  ELSE SliceAt(region, q.at, q.length)

\* A caller between builds.
CallReserve ==
  /\ pc # "building"
  /\ \E n \in Resizes : Reserve(n)
  /\ pc' = "idle"
  /\ UNCHANGED <<region, input, max_sge, built, gen, fresh>>

CallResize ==
  /\ pc # "building"
  /\ \E n \in Resizes : Resize(n)
  /\ pc' = "idle"
  /\ UNCHANGED <<region, input, max_sge, built, gen, fresh>>

\* build_native_sglist: clear the list and start on the sequence.
BuildStart ==
  /\ pc # "building"
  /\ gen < MaxBuilds
  /\ gen' = gen + 1
  /\ fresh' = (heap_capacity = 0)
  /\ \E n \in 0..MaxBufs : input' \in [1..n -> {Answer(q) : q \in Requests}]
  /\ max_sge' \in SgeLimits
  /\ built' = NewBuilt
  /\ pc' = "building"
  /\ Clear
  /\ UNCHANGED region

\* Seeded fault: the length of a segment is not checked on its own.
TooLargeTotalOnly(length) ==
  built.total_bytes > (MaxOp - length) % SizeMod

\* The size test: the segment first, so that the subtraction cannot wrap.
TooLarge(length) ==
  length > MaxOp \/ built.total_bytes > (MaxOp - length) % SizeMod

TooMany == max_sge # 0 /\ built.count >= max_sge

\* The three returns: the limit, the size, the end of the sequence.
BuildEnd ==
  /\ pc = "building"
  /\ LET more == built.count < Len(input)
         many == more /\ TooMany
         large == more /\ ~TooMany /\ TooLarge(input[built.count + 1].length)
     IN
     /\ ~more \/ many \/ large
     /\ built' = [built EXCEPT !.too_many_sge = many, !.buffer_too_large = large,
                               !.heap_spilled = UsesHeap(data)]
  /\ pc' = "built"
  /\ UNCHANGED <<region, list, input, max_sge, gen, fresh>>

\* One buffer is appended.
BuildNext ==
  /\ pc = "building"
  /\ built.count < Len(input)
  /\ ~TooMany
  /\ LET length == input[built.count + 1].length IN
     /\ ~TooLarge(length)
     /\ Append1(<<gen, built.count + 1>>)
     /\ built' = [built EXCEPT !.count = @ + 1,
                               !.total_bytes = (@ + length) % SizeMod,
                               !.all_empty = @ /\ length = 0]
  /\ UNCHANGED <<region, pc, input, max_sge, gen, fresh>>

Next == MoveRegion \/ CallReserve \/ CallResize \/ BuildStart \/ BuildEnd \/ BuildNext

Spec == Init /\ [][Next]_vars
-----------------------------------------------------------------------------
\* do_post_*: what the post path makes of the built list.
PostVerdict(b) ==
  IF b.too_many_sge THEN "too_many_sge"
  ELSE IF b.buffer_too_large THEN "buffer_too_large"
  ELSE IF b.all_empty THEN "empty" ELSE "post"

\* do_post_*: the path for one buffer, which builds no list.
SingleVerdict(length, limit) ==
  IF length = 0 THEN "empty"
  ELSE IF limit # 0 /\ 1 > limit THEN "too_many_sge"
  ELSE IF length > MaxOp THEN "buffer_too_large" ELSE "post"
-----------------------------------------------------------------------------
(* Properties. *)

\* Every variable keeps its type, and data_ never points past its storage:
\* the visible entries fit the array they are in, whatever mix of builds,
\* reserve() and resize() came before.
InBounds ==
  /\ pc \in {"idle", "building", "built"}
  /\ data \in {"null", "inline", "heap"}
  /\ Len(heap) = heap_capacity
  /\ data = "null" => size = 0
  /\ size <= capacity \/ data = "null"

\* The bytes of the first n buffers.
Sum(s, n) ==
  LET sum[k \in 0..Len(s)] == IF k = 0 THEN 0 ELSE sum[k - 1] + s[k].length
  IN sum[n]

\* What the builder should answer, from the whole sequence and in unbounded
\* arithmetic: the first limit that the sequence breaks, in its order.
ReferenceVerdict(s, limit) ==
  LET allowed == IF limit = 0 \/ Len(s) < limit THEN Len(s) ELSE limit IN
  IF Sum(s, allowed) > MaxOp THEN "buffer_too_large"
  ELSE IF allowed < Len(s) THEN "too_many_sge"
  ELSE IF Sum(s, Len(s)) = 0 THEN "empty" ELSE "post"

\* The one-pass loop and its wrapping arithmetic decide what the reference
\* decides, the path for a single buffer agrees with it, and the counts it
\* reports are those of the buffers it took.
VerdictIsRight ==
  pc = "built" =>
    /\ PostVerdict(built) = ReferenceVerdict(input, max_sge)
    /\ Len(input) = 1 =>
         SingleVerdict(input[1].length, max_sge) = ReferenceVerdict(input, max_sge)
    /\ built.total_bytes = Sum(input, built.count)
    /\ built.total_bytes <= MaxOp

\* What is posted is memory of the region: no offset, address or length, in
\* wrapping arithmetic, is answered with a buffer that reaches outside, and a
\* region that was moved from answers with empty buffers only.
PostedInRegion ==
  pc = "built" =>
    \A i \in 1..Len(input) :
      input[i].length > 0 => region.mr /\ Inside(input[i], region)

\* The list handed to ibv_post_* holds the buffers of the sequence, in order.
ListHoldsBuffers ==
  pc = "built" => /\ size = built.count
                  /\ \A i \in 1..built.count : At(i) = <<gen, i>>

\* A list that had not allocated before the build holds the buffers of the
\* sequence, in order, across the spill and every further growth.
FreshListHoldsBuffers == fresh => ListHoldsBuffers

\* heap_spilled tells whether the list is in allocated storage.
SpillIsHonest ==
  pc = "built" => (built.heap_spilled <=> size > InlineCount)
=============================================================================
