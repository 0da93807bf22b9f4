# A formal model of CDSA

CDSA is a C library of containers (hash map, skip list, linked list, ring
buffer, vector, the wrappers over them, a radix tree and a string) over a small
allocator layer. This directory models its code in TLA+: the modules are checked
with TLC on small instances, and part of what the runs show is proved with TLAPS
for every value of the constants. Every definition follows `src/src/*.c`; the map
from definitions to lines is in `PROJECT.json`.

## Inventory

The library is single-threaded: no locks, no callbacks but a comparison
function. A client calls one function at a time on an object it owns, in any
order. What makes the code hard is not concurrency but

* *long sequences of legal calls* - the invariants of Robin Hood probing, of the
  express lanes, of a ring that wraps, survive or fail over many calls;
* *partial failure* - malloc may fail at each of the two to four allocations of
  a call, after part of the work is done;
* *stale state* - an iterator survives changes and guards itself with a version
  counter; cached values (`max_psl`, `capacity`, `level`) summarise other state;
* *edges of arithmetic* - modular indices, one-slot tables, sums that wrap.

| Component (src/src) | State | Operations | Builds on | What makes it correct |
| --- | --- | --- | --- | --- |
| `hashmap.c` | slots with key, value, hash, psl; size, max_psl, version | create, free, insert (with resize), get, contains, remove (backward shift), iterators | allocator | a key is stored once and found; the probe sequence is unbroken; a resize loses nothing; no leak; calls return |
| `ringbuffer.c` | slots, head, tail, size, version | push and pop at both ends, front, back, iterators | allocator | it is a bounded deque; tail, head and size agree |
| `queue.c`, `deque.c` | a ring buffer | forwarding | ring buffer | first in, first out; both ends |
| `vector.c` | block, size, capacity, version | push (doubling), pop, set, get, clear, iterators | allocator | indices stay in the block; elements survive growth |
| `stack.c` | a vector | push, pop, top, clear | vector | last in, first out |
| `priority_queue.c` | a vector ordered as a heap | push (sift up), pop (sift down), peek, clear, iterator | vector, client's cmp | a pop gives a highest element; nothing is lost; sifts end |
| `linkedlist.c` | chain of nodes, size, version | push_front, pop_front, clear, free, iterators | allocator | nodes are freed once; no dangling pointer |
| `skiplist.c` | nodes with towers of forward pointers, level, size, version | insert, remove, range, free, iterators | allocator, rand, strcmp | levels nest; order; ranges are exact; no leak |
| `kstring.c` | block, size, capacity | create, append, clear, c_str, free | allocator | terminated, inside its block |
| `allocator.c` tracking | hidden word per block, one global counter | malloc, calloc, realloc, free | C allocator | the counter is the sum of the live sizes |
| `allocator.c` kpool | slab, free list threaded through free blocks | create, alloc, free, destroy | tracking | a block is held by one client |
| `allocator.c` arena | buffer, offset | create, alloc, reset, destroy | tracking | blocks aligned, apart, inside |
| `art.c` | nodes of four widths with compressed paths, leaves, five pools, size, version | insert (fork, split, grow), search, delete (shrink, collapse), free, iterators | kpools | a map on strings; nodes fit their kind; no block lost or shared; a walk yields each key once |
| `error.c` | none | status to message | - | - |

Tests, benchmarks and the build are clients or tooling with no logic of their own.

## Modules

Each component's module has its C struct as VARIABLES, one action per call or,
where a loop writes state, per iteration, and an abstract module beside it that
says what the component promises.

| Component | Module | Promise (abstract module) | Instance for TLC | Proofs |
| --- | --- | --- | --- | --- |
| hash map | `HashMap` | `KVStore` | `MCHashMap` | `HashMapProofs` |
| ring buffer | `RingBuffer` | `BoundedDeque` | - | `RingBufferProofs` |
| queue, deque | `QueueDeque` (extends `RingBuffer`) | its own history | - | `RingBufferProofs` |
| vector | `Vector` | the sequence in `Stack` | - | `VectorProofs` |
| stack | `Stack` (extends `Vector`) | its own sequence | - | `VectorProofs` |
| priority queue | `PriorityQueue` (extends `Vector`) | `PriorityBag` | `MCPriorityQueue` | `VectorProofs` |
| linked list | `LinkedList` | `Lifo` | - | `LinkedListProofs` |
| skip list | `SkipList` | `SortedBag` | `MCSkipList` | `SkipListProofs` |
| radix tree | `ArtTree` | `KVStore` | `MCArtTree` | `ArtProofs` |
| tracking allocator | `TrackedHeap` | - | - | |
| kpool, arena | `KPool`, `Arena` | `BlockPool` for the pool | - | `AllocatorProofs` |
| string | `KString` | the text in its history | - | |
| these four together | `Allocators` (extends `TrackedHeap`, instantiates `KPool`, `Arena` and `KString`) | - | `MCAllocators` | `AllocatorProofs` |
| modular arithmetic, least number | `ModArith` | - | - | lemmas only |

How state and steps correspond to the code:

* **Granularity.** A call whose loops only read is one action, the loop a closed
  form (`Get`, the skip list's search `Trail`). A loop that writes is one action
  per iteration, with the loop's locals as variables and `pc` naming the loop:
  `internal_insert`, the rehash of `resize_hashmap`, the backward shift, the
  sifts, the clearing loops, the copy of a range. This is where invariants of
  the middle of a call live.
* **Memory.** The four allocations of a node and the like are counted in `used`;
  every call that allocates has a failing twin (`...OOM`), and where a failure
  comes after part of the work the parts are separate steps (`PartMade` and
  `PartFails` of `SkipList`: the struct, the value and the array of a node, and
  their freeing with the undoing of the raised level), or one action of its own
  (`GrowInVain` of `ArtTree`). Node identities are reused after a free, so a
  stale pointer can meet a new node.
* **Iterators** are records in a function over the constant `Iters`; the fields
  `seen`, `touched`, `made_on` and `stale` are history, used by properties only. A client
  frees its iterators before the container.
* **Values** are model values. Keys have a hash given by the constant `Hash`,
  items a score and a text rank; NaN is a set of items that compare with nothing.
* **Vector's block.** `cdsa_push_vector` doubles `capacity` before it knows
  whether `realloc` succeeded, so `block`, the slots really owned, is a variable
  of its own, and a write outside it is recorded in `overrun`.
* **Composition.** `QueueDeque` and `Stack` wrap the container below with a
  history; `PriorityQueue` uses the vector's actions for its pushes and its block;
  `Allocators` runs pools, arenas and strings on the tracking allocator, with the
  two allocations of a creation and the two frees of a destruction as steps
  between which any of them fails, and the string's `realloc` as the heap's. A
  slab whose size wraps, or whose blocks pad to 0 bytes, is allocated as in the
  code (`PoolSlabShort`); its wiring loop then writes outside it, and nothing
  follows (`building = "outside"`).
* **The radix tree.** `nodes` maps an address, the kind and a block number, to a
  node; a child is an edge, the byte and the address. NODE4 and NODE16 keep their
  edges as they came, NODE48 and NODE256 by byte, as the iterator walks them. A
  block's number is the lowest free one: which block a pool hands out matters
  only to a stale pointer, and the lowest is the one an iterator is likeliest to
  hold. Leaves are addressed by their key; the map a client sees (`KVStore`) is
  the leaves, and `SearchExact` says that searches find just those. A call is one
  action, its recursion the recursive functions `Descend`, `Route` and `advance`. Keys end
  with a byte 0, which is an edge like any other. `num_children` is kept apart from
  the children, because the code's count is not their number: `recursive_delete`
  clears the child's pointer (`art.c:630`) before `remove_child_node256` asks
  whether there is a child (`art.c:568`), so a NODE256 never counts down
  (`OneLess`). The count is that of a `uint16_t`, modulo `CountModulus`, and every
  decision about a node's kind is taken by it (`Room`, `Shrinks`, `Collapses`).
  The version counter is kept as
  what it decides: whether an iterator's snapshot is current (`valid`).
* **Undefined behaviour of the radix tree** ends the behaviour: `broken` records
  what was run into and nothing follows, so every invariant is about the states
  before and the circumstances in which it was run into. It is recorded when a
  block of a pool is given to `free`, a subtree is lost, a walk for a leaf meets a
  node without children, a downgrade writes beyond the children of the smaller
  node ("overrun of children") or leaves NULL among those it counts ("hole"), an
  iterator reads a freed node or leaves its stack.
* **Wrap-around.** Counters and table sizes are unbounded integers in the
  containers: 2^64 elements do not fit in memory. In the allocators sizes are
  modulo `Modulus`, because there a client's single argument can wrap a sum, and
  the 16-bit counts of the radix tree are modulo `CountModulus`.

Definitions marked `(mutant)` are broken variants of the definition after them.
`PROJECT.json` pairs each property with one, which must make that property fail.

## Runs

| Run | Module | Instance | What it asks |
| --- | --- | --- | --- |
| `hm_resize` | `MCHashMap` | 3 keys (2 share a home), 2 values, initial capacities 0, 2, 3, tables up to 8 slots, 4 version steps | does the map stay a map through probes, swaps, resizes, failures; does every call return; does it leak |
| `hm_cluster` | `MCHashMap` | 4 keys in one cluster that wraps the end of 6 slots, one iterator, 3 version steps | is the bookkeeping (psl, chain, max_psl) exact; what may a lookup miss; what may an iterator promise |
| `hm_lookup_miss` | `MCHashMap` | 4 keys | finding: a stored key is not found |
| `ring` | `QueueDeque` | capacities 0, 1, 3, two elements, one iterator, 8 changes | is the ring the bounded deque, through every wrap; is a queue first in, first out |
| `vec_grow` | `Stack` | capacity 1 growing to 4, two elements, one iterator, 6 changes | is memory outside the block reached only after a failed realloc; what does a push of an own element lose; are the slots the client's sequence; do iterators notice |
| `vec_overrun` | `Vector` | one element | finding: a write outside the block |
| `pq_heap` | `MCPriorityQueue` | three priorities, capacity 4 growing to 8, one iterator, 6 changes | where may the heap be out of order in mid-sift; is it the priority bag; do sifts end; do iterators notice |
| `sl_order` | `MCSkipList` | 3 nodes, 2 levels, items with a tie, a duplicate, a higher score and a NaN, 4 changes, one iterator, 4 ranges | do levels nest; is order kept; are ranges exact, also when they are answered as empty; does an insertion that fails anywhere leave a trace; does anything leak or dangle |
| `ll_list` | `LinkedList` | 3 nodes, two elements, one iterator, 6 changes | leaks, double frees, dangling pointers; is it last in, first out |
| `allocators` | `MCAllocators` | sizes modulo 64 with a 4-byte word, 3 heap blocks, pools of 1 and 4 blocks of 8, 24 and (padded to) 0 bytes, arenas of 5 and 24 bytes with a request that wraps, strings growing from 1 to 4 bytes | is the counter exact; is everything freed, and the memory the owner's and as large as it takes it to be; is the free list exact; are arena blocks apart; is a string its text, terminated |
| `art` | `MCArtTree` | 7 keys of 1 to 3 bytes, kinds of 2, 3, 4 and 6 children, counts modulo 7, 1 saved byte of a path, pools of 6 blocks, one iterator with a stack of 3 frames | is it the map; when does a node not fit its kind, and what follows; is any block lost or shared; do searches survive hidden bytes; what may an iterator promise |
| `art_delete_short` | `MCArtTree` | the same without an iterator | finding: a failed deletion detaches a subtree |

**Why the bounds are enough to mean something.** In `hm_resize` a table fills to
its threshold twice and is rehashed with colliding keys; `hm_cluster` holds the
three-key probe chain that meets a fourth key at its home across the end of the
table, the smallest in which swaps, shifts and `max_psl` disagree. Rings of 1
and 3 slots are filled and drained past several turns in both directions, and 0
is the ring that is full and empty at once. A heap of five elements has three
levels and a parent with one child. Three nodes and two levels give every shape
of two adjacent towers and their removal.

In `art` the constants of the code are scaled so that everything they bound
happens within seven keys: the widths 4, 16, 48, 256 become 2, 3, 4, 6 and a byte
one of six values, so a node of the widest kind, over the end of a key and the
five bytes that may follow, can be full; its count wraps at 7 instead of 65,536,
two insertions after a node has become a NODE256; a header saves 1
byte of a path instead of 10, so paths with a hidden byte are forked, split and
glued (two hidden bytes do not occur); pools have 6 blocks instead of 1024, one
fewer than there are keys, so the leaf pool runs out, in the middle of a growth
too; an iterator's stack has 3 frames instead of 512. Reached are every growth
from kind to kind and the shrinks from NODE16 and NODE48; a NODE256 that has
lost every child, and a walk to a leaf that ends in it, with nothing missed and
no count wrapped (49 keys of one stem, all deleted, and a key that parts from it
in the code's widths); a count that has wrapped and come round to that of
the smaller kind, with more children than it holds (an overrun) and with fewer
(a NODE48 that counts children it has not, and a hole when that becomes a
NODE16); a freed node read by an iterator; a lost subtree; a block of a pool given
to `free`. Not reached, and left to the proofs of `IteratorExact` and `NodesFit`:
an iterator's overrun of its stack, for which the keys are too short, a hole
after a node grew in vain and no count wrapped, and a pool of inner nodes without
a free block.

In `allocators` a block of 24 bytes four times wraps 64, one of 61 bytes pads to
0, and one of 24 bytes once and of 8 four times fit. `MaxVersion` bounds the number of
structural changes; calls that change nothing stay possible at the bound, so no
run can deadlock artificially and deadlock is checked everywhere.

**What the passing runs show beyond the obvious.**
`PslIsDistance` and `ProbeChain` hold in the middle of insertions and shifts, not
only between calls. `LookupExact` pins the defect below exactly: a lookup misses
a stored key only when its psl exceeds `max_psl`. `RemovalKeepsReach` says that
no removal adds to the harm. `IteratorExact` of `HashMap` says that no walk that
goes on has been given another table, whether or not the rehash put its entries
into new slots, and no removal that it did not notice, unless an insertion has
written a slot in between. `RangeExact` covers ties at both ends of a range and
ranges answered as empty, and `LevelsNested` holds even when NaNs break the order. `HeapOwned` follows
each half of a failing creation, and says which of its bytes each string owns.
In `art`, `SearchExact` holds although searches skip the bytes that are not
saved and the tree is rebuilt from keys below it, also when nodes have lost
every child; `NodesFit` says what the counts are worth, that a NODE4 always has
two children, that a misfit of a NODE16 or a NODE48 and a hole take a count that
wrapped or a node that grew or shrank in vain, an overrun a count that wrapped,
and that it takes a node without children for a walk to find no leaf. It does
not say that a NODE256 has the children its kind is for, which is false of the
code (see below).

### Findings

* `hm_lookup_miss`: after a Robin Hood swap `internal_insert` goes on with the
  displaced entry and raises `max_psl` only for the entry it places last. The
  entry stored by the swap may have a larger psl, and `get` and `remove` stop
  before they reach it (`hashmap.c:94`; line 21 calls max_psl "the highest PSL in
  the map for early exit on lookups").
* `vec_overrun`: `capacity` is doubled before `realloc` and stays doubled when it
  fails, so the next push writes outside the block (`vector.c:42`, under a
  comment about surviving the failure).
* `art_delete_short`: a key that has every saved byte of a node's path and ends
  inside the rest of it makes `recursive_delete` return NULL instead of the node
  (`art.c:611`). The caller stores that NULL in place of the subtree and the call
  reports that the key was not found; `art.h:55` says a deletion "Removes a
  key-value pair from the tree."

Disagreements that no run is needed to see, since the passing runs and theorems
are about what the code does:

* `src/tests/test_art.c:68` comments its deletions "Delete enough to drop below 48
  (Triggers Node256 -> Node48)" and prints "Shrunk to Node48", and `README.md:26`
  and `IMPROV.md:110` speak of dynamic morphing between the four kinds. A NODE256
  never shrinks (`art.c:630` with `art.c:567-572` and `643`), except by accident:
  some 65,500 insertions directly below one node bring its count round, and when a deletion finds
  it at 48 the node is downgraded whatever it holds. The tests look only at what
  searches find, which the defect does not change. The model has `OneLess`,
  `ShrinkOverruns` and the "hole" of `Shrink`; `NodesFit` and TLC's reachable
  states, listed under the bounds, say what comes of it.
* `IMPROV.md:107` says that the skip list's iterator is "currently unguarded against
  concurrent mutation", `:138` lists "the skiplist iterator's missing mutation
  guard" among the known issues and `:251` plans it. The code has the guard: a
  snapshot of the version, looked at by `cdsa_has_next_skiplist` and
  `cdsa_next_skiplist` (`skiplist.c:319-335`). `IteratorExact` of `SkipList` passes
  and is proved; without the check (`SafeAlways`) TLC refutes it. The document
  is out of date.

Smaller observations the models record without a run of their own:
insertions into the hash map move entries without a new version, so a walk that
one disturbed may yield a key twice, though `IMPROV.md:104` speaks of a
"mutation-safe iterator" (`IteratorExact` of `HashMap` is about the other walks);
`kstring.c:83` doubles its capacity as the vector does, and after a failure an
append may write past the block (`StringExact`); `cdsa_clear_vector`
leaves the version alone, though an old iterator then finds nothing to yield
(`IteratorExact`); a sift that finds no memory for its swap buffer leaves the
heap unordered until it is next empty (`unsifted` in `PriorityQueue`); the
arena's capacity check is a sum that can wrap, and a request so large is then
granted (`BlocksApart` says that no other request is); `kpool_create` multiplies
block size and capacity without a check and pads a block size next to 2^64 to 0,
and wires links outside a slab that came out too short (`PoolSlabShort`); a vector or stack that is
given a pointer to one of its own elements copies it from memory `realloc` has
given back (`PushOwn`; `LastInFirstOut` says that this, or the write outside the
block, is the only way to lose an element). In `art.c`, `art.h:85` says that
`next` reports a concurrent mutation, and a deletion leaves the version alone, so
an iterator goes on and may read a freed node (`IteratorExact` says that it takes
this, or a failed insertion, to get there); a tree holds 1024 leaves at most; a
leaf whose key cannot be copied is given to `CDSA_FREE` though its block is a
pool's; an insertion that fails after a node has grown leaves it grown, and such
a node misses its shrink, as does one whose smaller kind has no block left; the
iterator's stack is not checked against its 512 frames.

## Fairness

`HashMap` and `PriorityQueue` assume weak fairness of the steps of
a call under way (`Step`, `Sift`) and of nothing else. The library has one
thread: once a call is made its loop keeps running, and no other call can begin
before it returns. No client is assumed to call anything. `CallsReturn` and
`SiftsEnd` are therefore claims about the loops alone: each reaches its exit.

## Proofs

Eight modules hold theorems. No model uses a recursive operator: what follows
pointers is a recursive function. Each theorem is proved from the named assumption
on its model's constants and nothing else; TLC evaluates the assumption in the runs
of the model.

| Module | Assumption | Theorems |
| --- | --- | --- |
| `HashMapProofs` | `HashMapAssumption`: the null key and value are no client's, hashes, capacities and bounds are naturals | `TypeCorrect`, `DistanceCorrect`, `ProbeChainCorrect`, `UniqueKeysCorrect`, `RoomCorrect`, `LookupCorrect`, `RemovalCorrect`, `LeakFree`, `IteratorCorrect`, `HashMapImplementsKVStore` |
| `RingBufferProofs` | `RingBufferAssumption`: junk is no element, capacities are naturals | `RingTypeCorrect`, `TailCorrect`, `RingImplementsDeque`, `RingIteratorCorrect`, `QueueIsRing`, `QueueCorrect` |
| `VectorProofs` | `VectorAssumption`: junk is no element, the first capacity is not 0 | `OverrunCorrect`, `VectorIteratorCorrect`, `StackIsVector`, `StackCorrect` |
| `VectorProofs`, for the priority queue | `VectorAssumption`, `PriorityQueueAssumption`: ranks are integers | `HeapCorrect`, `HeapImplementsPriorityBag` |
| `LinkedListProofs` | `LinkedListAssumption`: NULL is no node and no element | `ListLeakFree`, `ListIteratorCorrect`, `ListImplementsLifo` |
| `SkipListProofs` | `SkipListAssumption`: header and NULL are no node, scores and texts are integers, two comparable items equal in both are one item, at least one level | `SkipLevelsCorrect`, `RangeCorrect`, `SkipLeakFree`, `SkipIteratorCorrect`, `SkipListImplementsSortedBag` |
| `ArtProofs` | `ArtAssumption`: a key is a sequence of bytes other than its terminator, NULL is no address and the null value no client's, the widths of the kinds grow from at least 2 to one child for every byte, a count reaches beyond the widest, a header saves at least a byte, a pool has a block and a stack a frame | `SpecSound`, `SpecTypeOK`, `SpecNodesFit`, `SpecSearchExact`, `SpecIteratorExact`, `ArtImplementsKVStore` |
| `AllocatorProofs` | `AllocatorsAssumption`, `TrackedHeapAssumption` | `FreeListCorrect`, `PoolImplementsBlockPool`, `ArenaCorrect`, `TelemetryCorrect`, `OwnershipCorrect` |
| `ModArith` | - | lemmas: `x % c` for a variable `c`, and `LeastNumber` |

The properties are rarely inductive as they stand; what follows is why, and what
was added.

**Arithmetic.** SMT solvers know little of `x % c` for unknown `c`, so each fact
is derived from `x = c*q + r`: uniqueness (`ModUnique`), a step forward (`ModSucc`)
and back (`ModPred`), n steps (`ModAdd`), a full turn (`ModTurn`), two counts less
than a turn apart (`ModApart`). `LeastNumber` (a nonempty set of naturals has a
least member) stands in for induction: a law over naturals is proved by refuting
its least counterexample, which is how a recursively defined chain of pointers
and the order of a heap are reasoned about.

**Hash map.** `HInv` is `TypeOK`, `PslIsDistance`, `ProbeChain`, `UniqueKeys`,
`RoomToProbe` and two facts no run states as a property of its own. `PslsInTable`:
no psl, that of the hole left in the middle of a shift included, reaches the
capacity. `LoadBound`: the entry being placed still fits under three quarters,
and in a rehash the entries of both tables fit under three quarters of the old
one, which the bound on `size` does not give for a table half rehashed. The
argument goes round: the chain fills every slot between an entry and its home,
so a psl of a full turn would mean a full table (`NoFullTurn`), which the load
bound excludes; and psls below a turn are what makes distance determine the slot,
so that a key has one place on its chain. The cases with content are the swap
(`SwapInv`), the shift (`ShiftBackInv`: what follows the hole in a cluster may
move back, `ChainBeyondHole`) and the end of a probe for a stored key (a copy
further on would have been met, `CopyPassesIndex`). The rest follows: a lookup's
closed form finds the entry with the key (`HitIsHome`, `HomeIsHit`), a decrement of
psls and the recalculation of `max_psl` uncover nothing, the cells in use are
those of the struct, the tables and the iterators, and a walk whose version is
current has yielded the keys below its index.

**Hash map as a map.** The abstract value of a key depends on the slots, on the
entry in hand and on the old table (`Contents`). `BindingRule` reads it off
`HInv`: a key is bound by at most one of these. Each step of a probe, swap,
rehash and shift then leaves `Contents` alone, and a call changes it once, when
it begins (`HashMapImplementsKVStore`).

**Ring buffer, queue, deque.** `RingInv` is the types and `tail = (head + size) %
capacity`. The n-th element lies in slot `(head + n - 1) % capacity`
(`ContentsSeq`); a push writes a slot that holds no element, because two counts
less than a capacity apart are two slots, and moving `head` renumbers the elements
and moves none. Each operation then equals its abstract one (`PushBackRefines`
... `PopBackRefines`) and the failing and reading calls stutter or refuse.
`IterInv` says where an open, current iterator stands in that order. A step of the
queue is a step of the ring (`FaceStep`), and its first-in-first-out law follows
from the refinement lemmas of `PushBack` and `PopFront`.

**Vector and stack.** That memory outside the block is reached only after a failed
`realloc` (`OverrunNeedsFailure`) is not inductive: a `realloc` that succeeds after
one that failed ends the exemption, so what holds until the first write outside
the block has to be known while it lasts. `BlockInv` says it: until then `size`
stays inside the block and the slots below it are written. `IterInv` treats the
iterators an unversioned `clear` left behind: those hold an old version or an
index at or past `size` (`Spent`), so they yield nothing. The stack's sequence is
the slots below `size` until a write outside the block or a push of the vector's
own element (`StackInv`).

**Priority queue.** Its module wraps the vector's actions, so `PQInv` starts from
`VInv`, and its proofs stand beside the vector's. In mid-sift one slot is out of order: on the way up it may
outrank its parent only, on the way down it may be outranked by its children
only, and in both the parent of that slot still dominates its children
(`AcrossOrder`), which is what makes the swap harmless (`RiseKeepsOrder`,
`SinkKeepsOrder`). That the root of an ordered heap ranks highest
(`RootIsHighest`) is induction along parents, by least counterexample. For the
refinement a bag is a count of slots per element, and a swap, an append and the
replacement of the root by the last slot change the counts as the bag operations
do (`SwapCount`, `AppendCount`, `ReplaceCount`).

**Linked list.** The properties follow links (`Chain`, a recursive function). The
inductive form has a witness: an enumeration of the nodes, each once, each linked
to the next, NULL at the end, that starts at `head` between the calls and at
`current` in the loops that free (`Linked`, `NodesInv`). The data along it solves
the recursion of `Chain`, and by least counterexample every solution is that
(`ChainSolves`, `ChainValue`). A node in front and the first node taken away
change both by one at the front (`ConsNode`, `DropNode`); pops and both freeing
loops are the same step, `DropInv`. `CountInv` owns the allocations, and
`AllWalks` says that a current iterator's yield and the chain it has before it are
the list, and that no iterator meets a teardown.

**Skip list.** The properties follow the links of every level (`Levels`, a
recursive function). It ranges over the nodes whose tower reaches the level
(`AtLevel`), because a lane's links are defined on no others. `SkipInv` has a
witness again, one numbering of the nodes for all levels, the header first and
NULL last, such that at every level a forward pointer leads to the next node in
number of those that reach the level (`Laid`). Nesting of the levels is a
consequence: each lane is what is left of the one below it when the lower towers
are dropped (`Among`). The numbering follows the order of the items (`InPlace`) as
long as no NaN was stored. A NaN makes a search stop anywhere, but in every level
at the same place: the breadcrumbs are the last node of each level at or before
one cut of the numbering (`Crumbs`, `TrailFacts`), and where the cut lies matters
only to the order. So an insertion spreads the numbers after the cut and takes the
free one (`Spread`, `InsertLaid`), a removal keeps them all (`RemoveLaid`), and the
levels nest with NaNs and without.

Ranges are exact because the data in the order of the numbers solve the recursion
of a sorted listing and a bag has one sorted sequence (`ListSorts`, `SortsUnique`);
a range is what remains of it from its first node on, cut at its last
(`HeadSkips`, `AmongSkips`). While strings are copied, those copied and those to
come are the range (`CopyInv`), and the caller has nothing yet. A range is answered
as empty when the first node not below it is above it; the order puts every node
behind that one above it too (`HeadMeets`, `OrderUpTo`). A creation or insertion
that fails owns the parts it has (`FailInv`, `FailCells`), and `Settled` is the
level of the list that it found. For the refinement
the sequence of level 0 is the bag's: an insertion puts an item where sorting puts
it, a removal takes an equal one, and a search that finds none has passed every
place it could be in (`MissFacts`).

**Radix tree.** A node's header does not tell what leads to the node: bytes of its
path may not be saved. `Sound` therefore has a witness, a function `word` that gives
every inner node the bytes that lead to its end, hidden ones included. `Tree` says of
it that a path is the last bytes of its node's word (`PathOK`), that a word begins
the words below it and the next byte is the edge's (`Leads`), and that each block has
one pointer to it, the root none (`OnePointer`). A search may skip hidden bytes
because what is saved is in every key below (`SavedBelow`), so it follows a key of
the tree to its leaf (`RouteFinds`).

Trees allow no induction here, so what is above a block is the least set that holds
it and the parents of its members (`Up`): they form a chain (`UpChain`), the root is
one of them (`UpRoot`), and their words begin that of the block (`UpAgree`). The walks
are recursive functions of whatever they could be asked about, what would make them
run for ever included. Such a recursion has a solution (`TailRecursion`), and on a tree
it ends because words grow towards the leaves: no set of paths or stacks is one that a
walk never leaves (`FollowFacts`, `AdvanceEnds`).

Each edit is a lemma about trees first and about the call then: a node with other
edges (`TreeEdges`), in another block (`MoveTree`, hence `MorphTree` for growth and
shrinking), a node put where two words part (`ForkTree`), a node that gives its place
to its last child (`CollapseTree`, with `GluedPath` for the bytes kept of path, byte
and path). `TypeOK` needs that everything is below the root, which `Below` says by a
recursion that branches: its solution is read off `Up` (`BelowRecursion`). That no
pool of inner nodes runs out before the leaves' while every node has two children is
a matching: the first leaf below its second child belongs to no other node
(`MarkedApart`) and the first leaf of the tree to none, so inner nodes are fewer than
leaves (`PoolsHold`).

`Sound` asks no child of a node: a tree whose widest nodes have lost all of theirs
is a tree, and searches, deletions and walks on it are what they were. A path of
tree edges ends at a leaf or at a node without children, where `find_minimum_leaf`
has no leaf to give. `Full` is inductive beside it: what `NodesFit` says of the
counts, that they are counts, and that the edges of the two wide kinds are sorted.
The two need each other, since a downgrade by the count leaves a tree only if the
children fit, so `SpecInvariant` proves their conjunction. Iterators need the edges
sorted: with the next edge taken, the rest is what is ahead (`AheadOfNext`).

An iterator is `Halfway` when every key of the tree has been given or is owed by
exactly one frame of its stack (`Owes`), and no node is less deep than its frame.
Going down divides what a frame owes (`OwesSplit`), a leaf is the one key its frame
owes, an empty stack owes nothing, and a frame too many means a key as long below the
node on top (`HalfwayOverrun`). A call that changes the tree leaves no iterator of which
this is claimed (`OutdatedOrMoved`). A deletion that has lost a subtree ends the tree:
what is left to say is that a path was longer than a header saves.

`IteratorExact` was wrong before it was proved. It used to blame an overrun of the
stack on a key as long as the stack alone, and TLC agreed on the instance of `art`.
But an iterator may go on after a deletion at a node that has taken over the block of a
deeper one, or go down nodes without leaves. With 4
frames, pools of 6 blocks and the keys `<1>`, `<2>`, `<3>`, `<1,1>`, `<1,1,1>`, `<2,1>`
TLC refutes the old form in 12 states; the present one names all three causes. Nor was the claim right that
only failed insertions leave nodes without children: it was true of a model in
which a NODE256 counts its children down. The counts became a variable of their
own when the order of `art.c:630` and `568` was seen to matter.

**kpool.** `FreeListExact` follows links (`Chain`, a recursive function). Its
inductive form has a witness: an injective enumeration of the free blocks, each
linked to the next, NULL at the end (`FreeOrder`, `PoolInv`). An allocation drops
its first member, a free puts one in front, creation wires the slab from the
back. The enumeration solves the recursion of `Chain` and solutions are unique
(`ChainSolves`, `ChainUnique`). Every step of the composition is a step of the
pool or leaves it alone (`StepOfPool`), so the theorems are about `ASpec`. They
speak of pools whose slab holds its blocks: a slab that is short makes no pool of
`KPool`, and `HeapOwned` compares the size of every slab with what the pool
takes it for. That padding does not wrap for a block size that is granted follows
from the modulus being a multiple of 8 (`AllocatorsAssumption`).

**Arena.** `BlocksApart` needs that the offset stays inside the buffer, also
after a request whose sum wrapped, and that every block given before the first
such request ends at or before the offset (`ArenaInv`). Proving it showed that
it is false of arbitrary addresses: with 64 addresses and an alignment of 8, a
buffer of 55 bytes at address 8 with 53 in use grants 8 more, since aligning the
address wraps it to 0; and a buffer of more than half the address space lets the
wrapped sum of padding and size pass the check with an honest size. Hence the
last conjunct of `AllocatorsAssumption`: no buffer ends in the last alignment unit
of the address space, none has half of it. `malloc` returns no object for which
either fails (objects are at most `PTRDIFF_MAX` bytes).

**Tracking allocator.** `TelemetryExact` speaks of a sum over a set (`Total`, a
fold of the community modules), which unfolds to a recursive function on the
subsets of the blocks held. Induction over sets is replaced, as elsewhere, by a
smallest counterexample (`SmallestSet`): the recursion has a solution
(`SumExists`), which does not depend on the order in which `CHOOSE` takes the
elements (`SumTakes`) nor on anything but the sizes summed (`SumAgrees`). Hence a
set of one block more has a sum of one size more (`SumAdds`), and since adding and
taking off commute with wrapping (`ModShift`), each call keeps the counter exact
(`TakeInv`, `GiveInv`, `ResizeInv`). The lemmas hold for sizes that wrap; only
the room in a block is claimed under the condition that they do not.

**Ownership.** `HeapOwned` counts blocks between calls; its inductive form says at
every point which object is `Present`, half-made or half-destroyed included, that
each of its parts is in one block (`One`), and that an object half-way is not live
(`NotLive`). It needs no count: `OneIsCounted` turns it into cardinalities. A
resizing must not move another owner's block (`SizesRight`), and the new size of
the text is in range because `StringInv` bounds the capacity also after a
`realloc` that failed; `StringInv` says byte by byte what `StringExact` says of
the text; of a string that has written past its block it keeps the types only.

TLC checked the invariants before they were proved: the conjuncts above that are
properties in the runs of their models, `VInv` on the instance of `vec_grow`,
`PQInv` on that of `pq_heap`, `NodesInv` and `AllWalks` on that of `ll_list` (the
witness enumerated), `OwnerInv` and `StringInv` on that of `allocators`, the parts
of `SkipInv` on that of `sl_order` (the numbering computed), and `Walks`, with
`Halfway`, on that of `art` (the lengths of the words computed). `Full` is checked
by the run of `NodesFit`.

**Only model-checked.** `CallsReturn` and `SiftsEnd`, because TLAPS proves no temporal
claim that needs fairness. Every other property of a passing run is stated by a
theorem of the table above. What the three runs that find a violation check
is false of the code.

## Not modelled

* What a program does after the radix tree has broken (`broken`), a vector's or
  string's write outside its block.
* The radix tree's own copies of keys, and the version counter as a number.
* `error.c`, printing functions: no state.
* NULL arguments: each function returns `CDSA_ERR_INVALID`, NULL, 0 or false before
  it reads anything.
* `elem_size` of 0, and pointers into a container given back to it as arguments,
  except to the vector and the stack.
* Keys bound to NULL, for which `contains_hashmap` answers no and a walk of the
  radix tree ends early.
* Clients that free a pool block twice or use an object after freeing it.

## Plan

The components are all modelled, and every safety property and refinement the runs
check is proved. What would come next follows the code:

1. When a defect under Findings is corrected, its run becomes a passing one and the
   exemptions it forced (`LookupExact`, `OverrunNeedsFailure`, the `broken` values of
   `ArtTree`) go, which shortens the invariants.
2. The radix tree as it goes on after a deletion has lost a subtree, which now ends
   the behaviour.
3. Measures for the loops of `HashMap` and `PriorityQueue`, from which `CallsReturn`
   and `SiftsEnd` would follow in a prover that has fairness.
