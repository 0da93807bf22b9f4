----------------------------- MODULE Allocators ------------------------------
(***************************************************************************)
(* src/src/allocator.c as a whole, and one container that lives on it.  A  *)
(* kpool, an arena and a string get their struct and their memory from the *)
(* tracking allocator, in two calls of which either may fail, and give     *)
(* them back in two; the string also has its memory resized.  Between      *)
(* those calls the client allocates, resizes and frees blocks of its own.  *)
(***************************************************************************)
EXTENDS TrackedHeap, FiniteSets, Sequences

CONSTANTS
  Null, Payload,                          \* see KPool
  PoolCapacities, BlockSizes,             \* arguments of kpool_create
  Align, Addresses, ArenaCapacities,      \* see Arena
  Requests, MaxBlocks,
  Texts, Nul, Junk,                       \* see KString
  INITIAL_CAPACITY, MaxCapacity,
  StructSize                              \* size of struct kpool, cdsa_arena,
                                          \* cdsa_kstring

ASSUME AllocatorsAssumption ==
  /\ PoolCapacities \subseteq Nat /\ BlockSizes \subseteq 0 .. Modulus - 1
  /\ Modulus % 8 = 0                      \* kpool pads to multiples of 8
  /\ Null \notin Nat /\ Payload \notin Nat /\ Null # Payload
  /\ Align \in Nat \ {0} /\ Modulus % Align = 0
  /\ Addresses \subseteq 0 .. Modulus - 1
  /\ ArenaCapacities \subseteq Nat /\ Requests \subseteq 0 .. Modulus - 1
  \* no block has half the address space, and none ends in its last unit
  /\ \A a \in Addresses, c \in ArenaCapacities :
       a + c + Align <= Modulus /\ 2 * c + Align <= Modulus
  /\ MaxBlocks \in Nat /\ StructSize \in 1 .. Modulus - 1
  /\ \A t \in Texts : /\ t \in Seq({t[i] : i \in DOMAIN t})
                      /\ \A i \in DOMAIN t : t[i] \notin {Nul, Junk}
  /\ MaxCapacity \in 1 .. Modulus - 1 - Word /\ INITIAL_CAPACITY \in 1 .. MaxCapacity

VARIABLES
  pool_capacity, free_list, word, held, returned,             \* see KPool
  arena_live, buffer, arena_capacity, offset, given,          \* see Arena
  string_live, data, size, capacity, text, failed, overrun,   \* see KString
  owner,      \* history: whose each heap block is, and what it is for
  building    \* the call under way: what still has to be got or freed;
              \* "outside" when the program has written outside a slab,
              \* and nothing is modelled after it

poolVars == <<pool_capacity, free_list, word, held, returned>>
arenaVars == <<arena_live, buffer, arena_capacity, offset, given>>
stringVars == <<string_live, data, size, capacity, text, failed, overrun>>
allVars == <<vars, poolVars, arenaVars, stringVars, owner, building>>

Pool == INSTANCE KPool WITH capacity <- pool_capacity,
                            Capacities <- PoolCapacities
Region == INSTANCE Arena WITH live <- arena_live, capacity <- arena_capacity,
                              blocks <- given, Capacities <- ArenaCapacities,
                              Sizes <- Requests
String == INSTANCE KString WITH live <- string_live

Idle == building = "no"

AInit ==
  /\ Init /\ Pool!Init /\ Region!Init /\ String!Init
  /\ owner = [b \in {} |-> "client"] /\ building = "no"

(* Whose block b is after it has been taken or given back.                 *)
Owned(b, who) == owner' = [c \in DOMAIN owner \cup {b} |-> IF c = b THEN who ELSE owner[c]]
Disowned(b) == owner' = [c \in DOMAIN owner \ {b} |-> owner[c]]

-----------------------------------------------------------------------------
ClientTakes(b) ==
  /\ \E s \in Sizes : Malloc_track(b, s) \/ \E n \in Counts : Calloc_track(b, n, s)
  /\ Owned(b, "client")

ClientGives(b) == (Free_track(b) \/ Realloc_trackZero(b)) /\ Disowned(b)

ClientResizes(b) == (\E s \in Sizes : Realloc_track(b, s)) /\ UNCHANGED owner

ClientCall ==
  /\ Idle
  /\ \/ \E b \in Ids : ClientTakes(b)
     \/ \E b \in DOMAIN blocks :
          owner[b] = "client" /\ (ClientGives(b) \/ ClientResizes(b))
     \/ TrackOOM /\ UNCHANGED owner
  /\ UNCHANGED <<poolVars, arenaVars, stringVars, building>>

-----------------------------------------------------------------------------
(* The struct of a new pool, arena or string; with no memory for it        *)
(* nothing has happened.                                                   *)
GetStruct(b, who) ==
  /\ Idle /\ \A c \in DOMAIN owner : owner[c] = "client"
  /\ Malloc_track(b, StructSize) /\ Owned(b, who) /\ building' = who
  /\ UNCHANGED <<poolVars, arenaVars, stringVars>>

(* kpool_create makes a block big enough for a link, in multiples of 8:    *)
(* the sizes next to 2^w are padded to 0.                                  *)
Padded(s) == LET t == IF s < 8 THEN 8 ELSE s IN Size_t(t + ((8 - (t % 8)) % 8))

(* The slab is asked for in one number, which may wrap, or wrap again when *)
(* the hidden word is added.                                               *)
SlabFits(s, c) == Padded(s) > 0 /\ Padded(s) * c + Word < Modulus

PoolSlab(b, s, c) ==
  /\ building = "pool" /\ s > 0 /\ SlabFits(s, c)
  /\ Malloc_track(b, Padded(s) * c) /\ Owned(b, "slab")
  /\ Pool!Create(c) /\ building' = "no"
  /\ UNCHANGED <<arenaVars, stringVars>>

(* malloc has the bytes of the wrapped product, and the wiring loop writes *)
(* the links of all the blocks: outside the slab, or each over the last at *)
(* one address when a block has 0 bytes.                                   *)
PoolSlabShort(b, s, c) ==
  /\ building = "pool" /\ s > 0 /\ c > 0 /\ ~SlabFits(s, c)
  /\ Take(b, Size_t(Padded(s) * c), Padded(s) * c) /\ Owned(b, "slab")
  /\ building' = "outside"
  /\ UNCHANGED <<poolVars, arenaVars, stringVars>>

ArenaBuffer(b, a, c) ==
  /\ building = "arena"
  /\ Malloc_track(b, c) /\ Owned(b, "buffer")
  /\ Region!Create(a, c) /\ building' = "no"
  /\ UNCHANGED <<poolVars, stringVars>>

StringData(b) ==
  /\ building = "string"
  /\ Malloc_track(b, INITIAL_CAPACITY) /\ Owned(b, "data")
  /\ String!Create /\ building' = "no"
  /\ UNCHANGED <<poolVars, arenaVars>>

(* (mutant) the struct is not freed when the second allocation fails       *)
GiveUpKeepStruct ==
  /\ building \in {"pool", "arena", "string"}
  /\ building' = "no" /\ UNCHANGED <<vars, owner, poolVars, arenaVars, stringVars>>

(* No memory for the slab, the buffer or the text: the struct is freed.    *)
GiveUp ==
  /\ building \in {"pool", "arena", "string"}
  /\ \E b \in DOMAIN owner : owner[b] = building /\ Free_track(b) /\ Disowned(b)
  /\ Pool!CreateFails /\ building' = "no" /\ UNCHANGED <<arenaVars, stringVars>>

(* Destruction frees the memory, then the struct.                          *)
FreeSlab(b) ==
  /\ Idle /\ owner[b] = "slab" /\ Free_track(b) /\ Disowned(b)
  /\ Pool!Destroy /\ building' = "free pool" /\ UNCHANGED <<arenaVars, stringVars>>

FreeBuffer(b) ==
  /\ Idle /\ owner[b] = "buffer" /\ Free_track(b) /\ Disowned(b)
  /\ Region!Destroy /\ building' = "free arena" /\ UNCHANGED <<poolVars, stringVars>>

FreeData(b) ==
  /\ Idle /\ owner[b] = "data" /\ Free_track(b) /\ Disowned(b)
  /\ String!Free /\ building' = "free string" /\ UNCHANGED <<poolVars, arenaVars>>

FreeStruct(b) ==
  /\ <<building, owner[b]>> \in {<<"free pool", "pool">>, <<"free arena", "arena">>,
                                <<"free string", "string">>}
  /\ Free_track(b) /\ Disowned(b)
  /\ building' = "no" /\ UNCHANGED <<poolVars, arenaVars, stringVars>>

-----------------------------------------------------------------------------
PoolCall ==
  /\ Idle
  /\ Pool!Alloc \/ Pool!AllocExhausted
       \/ \E b \in held : Pool!Use(b) \/ Pool!Free(b)
  /\ UNCHANGED <<vars, arenaVars, stringVars, owner, building>>

ArenaCall ==
  /\ Idle
  /\ Region!Reset \/ \E s \in Requests : Region!Alloc(s) \/ Region!AllocNull(s)
  /\ UNCHANGED <<vars, poolVars, stringVars, owner, building>>

(* An append that needs more room has the block resized, to the capacity   *)
(* it has just doubled, or is refused the memory.                          *)
StringCall ==
  /\ Idle
  /\ \/ /\ \/ String!Clear
           \/ \E t \in Texts : String!AppendFits(t) \/ String!AppendOOM(t)
        /\ TrackOOM
     \/ \E b \in DOMAIN owner, t \in Texts :
          /\ owner[b] = "data" /\ String!AppendGrows(t)
          /\ Realloc_track(b, capacity')
  /\ UNCHANGED <<poolVars, arenaVars, owner, building>>

ANext ==
  \/ ClientCall \/ PoolCall \/ ArenaCall \/ StringCall \/ GiveUp
  \/ \E b \in Ids :
       \/ \E who \in {"pool", "arena", "string"} : GetStruct(b, who)
       \/ StringData(b)
       \/ \E s \in BlockSizes, c \in PoolCapacities :
            PoolSlab(b, s, c) \/ PoolSlabShort(b, s, c)
       \/ \E a \in Addresses, c \in ArenaCapacities : ArenaBuffer(b, a, c)
  \/ \E b \in DOMAIN blocks : FreeSlab(b) \/ FreeBuffer(b) \/ FreeData(b) \/ FreeStruct(b)
  \/ building = "outside" /\ UNCHANGED allVars

ASpec == AInit /\ [][ANext]_allVars

-----------------------------------------------------------------------------
(* Between calls the heap holds what the client took and, for a pool, an   *)
(* arena or a string that exists, its struct and its memory: a creation    *)
(* that fails half-way and a destruction leave nothing behind.  The memory *)
(* is what its owner takes it for: the slab is as many padded blocks as    *)
(* the pool wires, the buffer has the arena's capacity, and the text of    *)
(* the string and its terminator are in the bytes that the last resizing   *)
(* which did not fail has left.                                            *)
HeapOwned ==
  /\ DOMAIN owner = DOMAIN blocks
  /\ Idle => LET By(who) == {b \in DOMAIN owner : owner[b] = who}
                 Has(live, who) == Cardinality(By(who)) = IF live THEN 1 ELSE 0
             IN  /\ Has(pool_capacity > 0, "pool") /\ Has(pool_capacity > 0, "slab")
                 /\ Has(arena_live, "arena") /\ Has(arena_live, "buffer")
                 /\ Has(string_live, "string") /\ Has(string_live, "data")
                 /\ \A b \in By("slab") :
                      \E s \in BlockSizes : /\ blocks[b].size = Padded(s) * pool_capacity
                                            /\ Padded(s) >= s
                 /\ \A b \in By("buffer") : blocks[b].size = arena_capacity
                 /\ \A b \in By("data") : blocks[b].size = Len(data)
  /\ String!StringExact

(* See KPool and Arena.  A pool whose slab is too short is not one of      *)
(* KPool's: what is said of pools is said of the ones whose size did not   *)
(* wrap.                                                                   *)
FreeListExact == Pool!FreeListExact
ImplementsBlockPool == Pool!ImplementsBlockPool
BlocksApart == Region!BlocksApart
=============================================================================
