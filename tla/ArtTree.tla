------------------------------- MODULE ArtTree -------------------------------
(***************************************************************************)
(* The adaptive radix tree of src/src/art.c: strings to values, in a tree  *)
(* whose inner nodes have room for 4, 16, 48 or 256 children, share a      *)
(* compressed path of which a header saves only the first bytes, and live  *)
(* with the leaves in five pools of the same fixed number of blocks.       *)
(***************************************************************************)
EXTENDS Integers, FiniteSetsExt, SequencesExt

CONSTANTS
  Keys,             \* the client's strings: sequences over 1 .. LastByte
  LastByte,         \* a byte is in 0 .. LastByte; 0 ends a string
  Values, NoValue,  \* what a client binds a key to; NULL
  Fanout,           \* children of NODE4, NODE16, NODE48, NODE256
  CountModulus,     \* num_children of a NODE256 is a uint16_t: 2^16
  MaxPrefix,        \* bytes of a compressed path a header saves: 10
  NodesPerTier,     \* blocks of each pool: 1024
  ART_MAX_DEPTH,    \* frames of an iterator's stack: 512
  Iters, NULL

ASSUME ArtAssumption ==
  /\ LastByte \in Nat /\ Keys \subseteq Seq(1 .. LastByte)
  /\ NoValue \notin Values
  /\ Fanout \in Seq(Nat) /\ Len(Fanout) = 4 /\ Fanout[1] >= 2
  /\ \A t \in 2 .. 4 : Fanout[t - 1] < Fanout[t]
  /\ Fanout[4] = LastByte + 1
  /\ CountModulus \in Nat /\ CountModulus > Fanout[4]
  /\ {MaxPrefix, NodesPerTier, ART_MAX_DEPTH} \subseteq Nat \ {0}
  /\ NULL \notin ({0} \X Keys) \cup ((1 .. 4) \X (1 .. NodesPerTier))  \* no address

VARIABLES
  live,
  root, size,       \* struct cdsa_art_tree
  nodes,            \* the inner nodes allocated, by address <<type, block>>
  num_children,     \* how many children each of them counts
  leaves,           \* the value of every leaf allocated, by its key
  iters,
  missed,           \* history: a node grew for a leaf that could not be had,
                    \* or could not shrink when it should have
  wrapped,          \* history: a count has gone from its last value to 0
  broken,           \* what the program has run into, "no" at first: nothing
                    \* is modelled after it
  status

treeVars == <<root, size, nodes, num_children, leaves>>
history == <<missed, wrapped>>
vars == <<live, treeVars, iters, history, broken, status>>

-----------------------------------------------------------------------------
(* Pointers.  A leaf's block is known by its key, an inner node's by its   *)
(* type and a number.                                                      *)
Tiers == 1 .. 4
Leaf(k) == <<0, k>>
IsLeaf(p) == p[1] = 0
Tier(p) == p[1]

Blocks(t) == {p \in DOMAIN nodes : Tier(p) = t}
CanAlloc(t) == Cardinality(Blocks(t)) < NodesPerTier
CanAllocLeaf == Cardinality(DOMAIN leaves) < NodesPerTier
Alloc(t) == <<t, Min({n \in 1 .. NodesPerTier : <<t, n>> \notin DOMAIN nodes})>>

(* An edge is the byte that leads to a child, and the child.  NODE4 and    *)
(* NODE16 keep them as they came, NODE48 and NODE256 by byte.              *)
ByByte(edges) ==
  [i \in DOMAIN edges |-> CHOOSE e \in Range(edges) :
                            Cardinality({f \in Range(edges) : f[1] < e[1]}) = i - 1]
Ordered(t, edges) == IF t >= 3 THEN ByByte(edges) ELSE edges
Child(p, c) ==
  LET led == {e \in Range(nodes[p].edges) : e[1] = c}
  IN  IF led = {} THEN NULL ELSE (CHOOSE e \in led : TRUE)[2]

(* A string read by position, its terminator included.                     *)
Char(k, i) == IF i < Len(k) THEN k[i + 1] ELSE 0
Saved(k, from, len) == [i \in 1 .. Min({len, MaxPrefix}) |-> Char(k, from + i - 1)]

(* Where the strings k and l part.                                         *)
Agreement(k, l) == Min({i \in 0 .. Len(k) : Char(k, i) = 0 \/ Char(k, i) # Char(l, i)})

(* How many of the saved bytes of p's path k has at depth d.               *)
check_prefix(p, k, d) ==
  LET saved == nodes[p].prefix IN
  Min({Len(saved)} \cup {i \in 0 .. Len(saved) - 1 : saved[i + 1] # Char(k, d + i)})

Pointers == DOMAIN nodes \cup {Leaf(k) : k \in DOMAIN leaves}

(* The first leaf below p; NULL stands for a walk that meets a node without *)
(* children, and ends in a NULL pointer or never.                          *)
find_minimum_leaf(p) ==
  LET first[q \in Pointers] ==
        IF IsLeaf(q) THEN q
        ELSE IF nodes[q].edges = <<>> THEN NULL ELSE first[nodes[q].edges[1][2]]
  IN  first[p]

(* The walk along k from the root, a pointer and a depth at a time, as far *)
(* as the first of the places in ends.                                     *)
Places == (Pointers \cup {NULL}) \X Nat
Start == << <<root, 0>> >>
Onward(k, at) ==
  LET deep == at[2] + nodes[at[1]].prefix_len
  IN  <<Child(at[1], Char(k, deep)), deep + 1>>
Follow(k, ends) ==
  LET walk[path \in Seq(Places) \ {<<>>}] ==
        IF Last(path) \in ends THEN path
        ELSE walk[Append(path, Onward(k, Last(path)))]
  IN  walk[Start]
Behind(path, n) == IF Len(path) > n THEN path[Len(path) - n][1] ELSE NULL

(* Searches and deletions trust the saved bytes and skip the others: the   *)
(* places they pass, and why the walk ends.                                *)
Differs(p, k, d) == check_prefix(p, k, d) < Len(nodes[p].prefix)
Past(p, k, d) == d + nodes[p].prefix_len > Len(k)
Route(k) ==
  LET path == Follow(k, {at \in Places : \/ at[1] = NULL \/ IsLeaf(at[1])
                                         \/ Differs(at[1], k, at[2])
                                         \/ Past(at[1], k, at[2])})
      p == Last(path)[1]
  IN  [path |-> path,
       end |-> IF p = Leaf(k) THEN "found"
               ELSE IF p = NULL \/ IsLeaf(p) \/ Differs(p, k, Last(path)[2])
               THEN "absent" ELSE "past"]

cdsa_search_art(k) == IF Route(k).end = "found" THEN leaves[k] ELSE NoValue

(* How much of the whole path of p k has at depth d.  Bytes that are not   *)
(* saved are read from a leaf below.                                       *)
Matched(p, k, d) ==
  LET saved == check_prefix(p, k, d)
      len == nodes[p].prefix_len
      l == find_minimum_leaf(p)[2]
  IN  IF saved < Len(nodes[p].prefix) \/ len <= MaxPrefix THEN saved
      ELSE Min({len} \cup {i \in saved .. len : Char(k, d + i) \in {0} \cup
                                   ((0 .. LastByte) \ {Char(l, d + i)})})

NoLeafToRead(p, k, d) ==
  /\ nodes[p].prefix_len > MaxPrefix /\ ~Differs(p, k, d)
  /\ find_minimum_leaf(p) = NULL

(* An insertion's walk: the node where it ends, the node above it, the     *)
(* depth, the bytes of its path that match, and what is to be done there.  *)
Parts(p, k, d) == NoLeafToRead(p, k, d) \/ Matched(p, k, d) < nodes[p].prefix_len
Descend(k) ==
  LET path == Follow(k, {at \in Places : \/ at[1] = NULL \/ IsLeaf(at[1])
                                         \/ Parts(at[1], k, at[2])
                                         \/ Onward(k, at)[1] = NULL})
      p == Last(path)[1]
      d == Last(path)[2]
      Stop(why, depth, match) ==
        [node |-> p, up |-> Behind(path, 1), depth |-> depth, match |-> match, why |-> why]
  IN  IF p = NULL THEN Stop("first", d, 0)
      ELSE IF IsLeaf(p)
      THEN Stop(IF p[2] = k THEN "same" ELSE "fork", d, Agreement(k, p[2]) - d)
      ELSE IF NoLeafToRead(p, k, d) THEN Stop("no leaf", d, 0)
      ELSE IF Parts(p, k, d) THEN Stop("fork", d, Matched(p, k, d))
      ELSE Stop("add", d + nodes[p].prefix_len, 0)

-----------------------------------------------------------------------------
NoIter == [open |-> FALSE]

Init ==
  /\ live = FALSE /\ root = NULL /\ size = 0
  /\ nodes = <<>> /\ num_children = <<>> /\ leaves = <<>>
  /\ iters = [it \in Iters |-> NoIter]
  /\ missed = FALSE /\ wrapped = FALSE /\ broken = "no" /\ status = "CDSA_OK"

(* A call on a tree that exists, while the program is still sound.         *)
Called == live /\ broken = "no"

(* The tree, its slab manager and five pools, or nothing.                  *)
Create ==
  /\ ~live /\ broken = "no" /\ live' = TRUE /\ status' = "CDSA_OK"
  /\ UNCHANGED <<treeVars, iters, history, broken>>
CreateOOM == ~live /\ UNCHANGED vars

(* The nodes go back to their pools and the pools to the allocator; a      *)
(* client frees its iterators first.                                       *)
Free ==
  /\ Called /\ \A it \in Iters : ~iters[it].open
  /\ live' = FALSE /\ root' = NULL /\ size' = 0
  /\ nodes' = <<>> /\ num_children' = <<>> /\ leaves' = <<>>
  /\ missed' = FALSE /\ wrapped' = FALSE /\ status' = "CDSA_OK" /\ UNCHANGED <<iters, broken>>

(* (mutant) an insertion leaves the version                                *)
OutdatedNever == iters

(* Every iterator's snapshot is older than the tree's version from now on. *)
Outdated == [it \in Iters |-> IF iters[it].open
                              THEN [open |-> TRUE, valid |-> FALSE] ELSE NoIter]
(* History: the nodes have changed and the version has not.                *)
Moved == [it \in Iters |-> IF iters[it].open /\ iters[it].valid
                           THEN [iters[it] EXCEPT !.moved = TRUE, !.due = NULL,
                                                  !.seen = {}]
                           ELSE iters[it]]

-----------------------------------------------------------------------------
(* Insertion.  The pointer to old, in the node up or at the root, becomes a *)
(* pointer to new.                                                         *)
Repointed(up, old, new) ==
  IF up = NULL THEN nodes
  ELSE [nodes EXCEPT ![up].edges =
          [i \in DOMAIN @ |-> IF @[i][2] = old THEN <<@[i][1], new>> ELSE @[i]]]
RootAfter(up, new) == IF up = NULL THEN new ELSE root

(* A NODE256 has a place for every byte, the others go by their count.     *)
Room(p) == Tier(p) = 4 \/ num_children[p] < Fanout[Tier(p)]

(* The count of p after one more child.                                    *)
OneMore(p) == (num_children[p] + 1) % CountModulus

(* The pools have the inner node that an insertion needs at its place.     *)
NodeToHave(at) ==
  \/ at.why = "first"
  \/ at.why = "fork" /\ CanAlloc(1)
  \/ at.why = "add" /\ (Room(at.node) \/ CanAlloc(Tier(at.node) + 1))

NewLeaf(k, v) ==
  /\ CanAllocLeaf
  /\ leaves' = [l \in DOMAIN leaves \cup {k} |-> IF l = k THEN v ELSE leaves[l]]
  /\ size' = size + 1 /\ status' = "CDSA_OK" /\ iters' = Outdated
  /\ UNCHANGED <<live, missed, broken>>

InsertFirst(k, v, at) ==
  /\ at.why = "first"
  /\ NewLeaf(k, v) /\ root' = Leaf(k) /\ UNCHANGED <<nodes, num_children, wrapped>>

Overwrite(k, v, at) ==
  /\ at.why = "same"
  /\ leaves' = [leaves EXCEPT ![k] = v]
  /\ iters' = Outdated /\ status' = "CDSA_OK"
  /\ UNCHANGED <<live, root, size, nodes, num_children, history, broken>>

(* What is left of p's path below its first n bytes and the byte after     *)
(* them, read from the key of a leaf below p, where it starts at from.     *)
Shortened(p, n, from) ==
  LET len == nodes[p].prefix_len - (n + 1)
  IN  [nodes[p] EXCEPT !.prefix_len = len,
                       !.prefix = Saved(find_minimum_leaf(p)[2], from, len)]

(* A leaf of another key, or a path that parts from k: a NODE4 takes the   *)
(* bytes they share, and has the two as children.                          *)
Fork(k, v, at) ==
  /\ at.why = "fork" /\ CanAlloc(1) /\ find_minimum_leaf(at.node) # NULL
  /\ LET parts == at.depth + at.match
         other == find_minimum_leaf(at.node)[2]
         q == Alloc(1)
         fork == [prefix_len |-> at.match, prefix |-> Saved(k, at.depth, at.match),
                  edges |-> << <<Char(other, parts), at.node>>,
                               <<Char(k, parts), Leaf(k)>> >>]
     IN  /\ nodes' = [p \in DOMAIN nodes \cup {q} |->
                        IF p = q THEN fork
                        ELSE IF p = at.node THEN Shortened(p, at.match, parts + 1)
                        ELSE Repointed(at.up, at.node, q)[p]]
         /\ num_children' = [p \in DOMAIN nodes' |-> IF p = q THEN 2 ELSE num_children[p]]
         /\ root' = RootAfter(at.up, q)
  /\ NewLeaf(k, v) /\ UNCHANGED wrapped

AddChild(k, v, at) ==
  /\ at.why = "add" /\ Room(at.node)
  /\ nodes' = [nodes EXCEPT ![at.node].edges =
                 Ordered(Tier(at.node), Append(@, <<Char(k, at.depth), Leaf(k)>>))]
  /\ num_children' = [num_children EXCEPT ![at.node] = OneMore(at.node)]
  /\ wrapped' = (wrapped \/ OneMore(at.node) = 0)
  /\ NewLeaf(k, v) /\ UNCHANGED root

(* (mutant) the node's old block is not freed                              *)
MorphKeepsOld(p, up, t, edges, count) ==
  LET q == Alloc(t) IN
  /\ nodes' = [n \in DOMAIN nodes \cup {q} |->
                 IF n = q THEN [nodes[p] EXCEPT !.edges = Ordered(t, edges)]
                 ELSE Repointed(up, p, q)[n]]
  /\ num_children' = [n \in DOMAIN nodes' |-> IF n = q THEN count ELSE num_children[n]]
  /\ root' = RootAfter(up, q)

(* The node p, below up, moves to a block of tier t, with these edges and  *)
(* this count of them.                                                     *)
Morph(p, up, t, edges, count) ==
  LET q == Alloc(t) IN
  /\ nodes' = [n \in (DOMAIN nodes \ {p}) \cup {q} |->
                 IF n = q THEN [nodes[p] EXCEPT !.edges = Ordered(t, edges)]
                 ELSE Repointed(up, p, q)[n]]
  /\ num_children' = [n \in DOMAIN nodes' |-> IF n = q THEN count ELSE num_children[n]]
  /\ root' = RootAfter(up, q)

MustGrow(at) == at.why = "add" /\ ~Room(at.node) /\ CanAlloc(Tier(at.node) + 1)

Grow(k, v, at) ==
  /\ MustGrow(at)
  /\ Morph(at.node, at.up, Tier(at.node) + 1,
           Append(nodes[at.node].edges, <<Char(k, at.depth), Leaf(k)>>), OneMore(at.node))
  /\ NewLeaf(k, v) /\ UNCHANGED wrapped

(* The node has grown when the leaf pool turns out to be exhausted: the    *)
(* call fails, the version stays, the old node is gone.                    *)
GrowInVain(at) ==
  /\ MustGrow(at) /\ ~CanAllocLeaf
  /\ Morph(at.node, at.up, Tier(at.node) + 1, nodes[at.node].edges, num_children[at.node])
  /\ missed' = TRUE /\ iters' = Moved /\ status' = "CDSA_ERR_OOM"
  /\ UNCHANGED <<live, size, leaves, wrapped, broken>>

(* A pool is exhausted before anything has changed, or after a NODE4 that  *)
(* goes back.                                                              *)
InsertOOM(at) ==
  /\ at.why \in {"fork", "add"}
  /\ NodeToHave(at) => ~CanAllocLeaf /\ ~MustGrow(at)
  /\ status' = "CDSA_ERR_OOM"
  /\ UNCHANGED <<live, treeVars, iters, history, broken>>

Breaks(why) ==
  /\ broken' = why /\ UNCHANGED <<live, treeVars, iters, history, status>>

(* safe_strdup finds no memory, and alloc_leaf gives a pool's block to     *)
(* CDSA_FREE.                                                              *)
FreeLeafOfPool(at) == CanAllocLeaf /\ NodeToHave(at) /\ Breaks("free of a block")

(* The walk for a leaf below a node finds a node without children.         *)
InsertFindsNoLeaf(at) ==
  /\ \/ at.why = "no leaf"
     \/ /\ at.why = "fork" /\ CanAlloc(1) /\ CanAllocLeaf
        /\ find_minimum_leaf(at.node) = NULL
  /\ Breaks("no leaf")

InsertCall(k) ==
  /\ Called
  /\ \E at \in {Descend(k)} :
       \/ GrowInVain(at) \/ InsertOOM(at) \/ FreeLeafOfPool(at) \/ InsertFindsNoLeaf(at)
       \/ \E v \in Values : \/ InsertFirst(k, v, at) \/ Overwrite(k, v, at)
                            \/ Fork(k, v, at) \/ AddChild(k, v, at) \/ Grow(k, v, at)

-----------------------------------------------------------------------------
(* Deletion.  The version stays as it is.  On its way to the leaf of k, p  *)
(* is the leaf's parent and up the node above, NULL where there is none.   *)
(* The edges of p without the leaf.                                        *)
Remaining(p, k) ==
  LET edges == nodes[p].edges
  IN  RemoveAt(edges, CHOOSE i \in DOMAIN edges : edges[i][2] = Leaf(k))

(* (mutant) the deletion is not reported                                   *)
LeafFreedUnreported(k) ==
  /\ leaves' = Restrict(leaves, DOMAIN leaves \ {k})
  /\ size' = size - 1 /\ status' = "CDSA_ERR_NOT_FOUND" /\ iters' = Moved
  /\ UNCHANGED <<live, wrapped>>

LeafFreed(k) ==
  /\ leaves' = Restrict(leaves, DOMAIN leaves \ {k})
  /\ size' = size - 1 /\ status' = "CDSA_OK" /\ iters' = Moved
  /\ UNCHANGED <<live, wrapped>>

DeleteRoot(k) ==
  /\ LeafFreed(k) /\ root' = NULL /\ UNCHANGED <<nodes, num_children, missed, broken>>

(* The count of p after a child has been deleted.  NULL is stored for the  *)
(* child first, and a NODE256 counts down only for a child that is still   *)
(* there: it never does.                                                   *)
OneLess(p) == IF Tier(p) = 4 THEN num_children[p] ELSE num_children[p] - 1

(* (mutant) the downgrade waits for one child less                         *)
ShrinksLate(p) == Tier(p) > 1 /\ OneLess(p) = Fanout[Tier(p) - 1] - 1

(* The count that remains decides what becomes of the parent.              *)
Shrinks(p) == Tier(p) > 1 /\ OneLess(p) = Fanout[Tier(p) - 1]
Collapses(p) == Tier(p) = 1 /\ OneLess(p) = 1
Smaller(p) == Tier(p) - 1

DeleteChild(k, p) ==
  /\ ~Collapses(p) /\ (Shrinks(p) => ~CanAlloc(Smaller(p)))
  /\ nodes' = [nodes EXCEPT ![p].edges = Remaining(p, k)]
  /\ num_children' = [num_children EXCEPT ![p] = OneLess(p)]
  /\ missed' = (missed \/ Shrinks(p))
  /\ LeafFreed(k) /\ UNCHANGED <<root, broken>>

(* A NODE48 that came from a NODE256 may count more children than it has:  *)
(* it becomes a NODE16 with NULL among the children it counts.             *)
Shrink(k, p, up) ==
  /\ Shrinks(p) /\ CanAlloc(Smaller(p)) /\ Len(Remaining(p, k)) <= Fanout[Smaller(p)]
  /\ Morph(p, up, Smaller(p), Remaining(p, k), OneLess(p))
  /\ broken' = IF Tier(p) = 3 /\ Len(Remaining(p, k)) < OneLess(p) THEN "hole" ELSE "no"
  /\ LeafFreed(k) /\ UNCHANGED missed

(* A NODE256 whose count has come round to 48 has more children than that: *)
(* the downgrade writes beyond the children of the NODE48.                 *)
ShrinkOverruns(k, p) ==
  /\ Shrinks(p) /\ CanAlloc(Smaller(p)) /\ Len(Remaining(p, k)) > Fanout[Smaller(p)]
  /\ Breaks("overrun of children")

(* (mutant) the byte between the paths is forgotten                        *)
GluedNoByte(p, byte, s) ==
  LET len == nodes[p].prefix_len + nodes[s].prefix_len
      path == nodes[p].prefix \o nodes[s].prefix
  IN  [nodes[s] EXCEPT !.prefix_len = len,
                       !.prefix = SubSeq(path, 1, Min({len, MaxPrefix}))]

(* s takes over the path of p, its only parent, and the byte between.      *)
Glued(p, byte, s) ==
  LET len == nodes[p].prefix_len + 1 + nodes[s].prefix_len
      path == nodes[p].prefix \o <<byte>> \o nodes[s].prefix
  IN  [nodes[s] EXCEPT !.prefix_len = len,
                       !.prefix = SubSeq(path, 1, Min({len, MaxPrefix}))]

(* A NODE4 of one child gives its place to that child.                     *)
Collapse(k, p, up) ==
  /\ Collapses(p)
  /\ LET byte == Remaining(p, k)[1][1]
         s == Remaining(p, k)[1][2]
     IN  /\ nodes' = [n \in DOMAIN nodes \ {p} |->
                        IF n = s THEN Glued(p, byte, s) ELSE Repointed(up, p, s)[n]]
         /\ root' = RootAfter(up, s)
  /\ num_children' = Restrict(num_children, DOMAIN nodes \ {p})
  /\ LeafFreed(k) /\ UNCHANGED <<missed, broken>>

DeleteAbsent ==
  /\ status' = "CDSA_ERR_NOT_FOUND"
  /\ UNCHANGED <<live, treeVars, iters, history, broken>>

(* The key ends inside a path of which it has every saved byte: NULL is    *)
(* returned for the node p, and stored in the pointer to it.               *)
DeletePast(p, up) ==
  /\ root' = RootAfter(up, NULL) /\ nodes' = Repointed(up, p, NULL)
  /\ broken' = "lost" /\ status' = "CDSA_ERR_NOT_FOUND"
  /\ UNCHANGED <<live, size, num_children, leaves, iters, history>>

DeleteCall(k) ==
  /\ Called
  /\ \E way \in {Route(k)} :
       LET p == Behind(way.path, 1)
           up == Behind(way.path, 2)
       IN  \/ way.end = "absent" /\ DeleteAbsent
           \/ way.end = "past" /\ DeletePast(Last(way.path)[1], p)
           \/ way.end = "found" /\ p = NULL /\ DeleteRoot(k)
           \/ /\ way.end = "found" /\ p # NULL
              /\ \/ DeleteChild(k, p) \/ Shrink(k, p, up) \/ Collapse(k, p, up)
                 \/ ShrinkOverruns(k, p)

-----------------------------------------------------------------------------
(* Iterators.  A frame is a node and where its walk goes on: a position in *)
(* the array of a NODE4 or NODE16, a byte in the map of the others.        *)
NextEdge(p, i) ==
  LET edges == nodes[p].edges
      ahead == {e \in DOMAIN edges : IF Tier(p) < 3 THEN e > i ELSE edges[e][1] >= i}
  IN  IF ahead = {} THEN 0 ELSE Min(ahead)
Beyond(p, e) == IF Tier(p) < 3 THEN e ELSE nodes[p].edges[e][1] + 1

(* The walk to the next leaf: what is left on the stack, the leaf, and     *)
(* whether it left the stack or met a block that has been freed.           *)
Frames == ((Tiers \X (1 .. NodesPerTier)) \cup {Leaf(k) : k \in Keys}) \X Nat
advance(stack) ==
  LET walk[st \in Seq(Frames)] ==
        LET p == Last(st)[1]
            e == NextEdge(p, Last(st)[2])
            Ends(rest, hit, how) == [stack |-> rest, hit |-> hit, how |-> how]
        IN  IF st = <<>> THEN Ends(st, NULL, "no")
            ELSE IF IsLeaf(p) THEN Ends(Front(st), p, "no")
            ELSE IF p \notin DOMAIN nodes THEN Ends(st, NULL, "stale")
            ELSE IF e = 0 THEN walk[Front(st)]
            ELSE IF Len(st) = ART_MAX_DEPTH THEN Ends(st, NULL, "overrun")
            ELSE walk[Front(st) \o << <<p, Beyond(p, e)>>, <<nodes[p].edges[e][2], 0>> >>]
  IN  walk[stack]

(* next is the value fetched ahead; due, the leaf it came from, and seen,  *)
(* the keys yielded, are history.                                          *)
IterAt(walk, seen, moved) ==
  [open |-> TRUE, valid |-> TRUE, stack |-> walk.stack,
   due |-> IF moved THEN NULL ELSE walk.hit,
   next |-> IF walk.hit = NULL THEN NoValue ELSE leaves[walk.hit[2]],
   seen |-> seen, moved |-> moved]

IterStep(it, walk, seen, moved) ==
  /\ iters' = [iters EXCEPT ![it] = IterAt(walk, seen, moved)]
  /\ broken' = walk.how /\ status' = "CDSA_OK"
  /\ UNCHANGED <<live, treeVars, history>>

NewIter(it) ==
  /\ Called /\ ~iters[it].open
  /\ IterStep(it, advance(IF root = NULL THEN <<>> ELSE << <<root, 0>> >>), {}, FALSE)

IterNext(it) ==
  /\ Called /\ iters[it].open /\ iters[it].valid /\ iters[it].next # NoValue
  /\ LET i == iters[it] IN
     IterStep(it, advance(i.stack),
              IF i.moved THEN {} ELSE i.seen \cup {i.due[2]}, i.moved)

IterFails(it) ==
  /\ Called /\ iters[it].open
  /\ \/ ~iters[it].valid /\ status' = "CDSA_ERR_ITER_INVALIDATED"
     \/ /\ iters[it].valid /\ iters[it].next = NoValue
        /\ status' = "CDSA_ERR_NOT_FOUND"
  /\ UNCHANGED <<live, treeVars, iters, history, broken>>

FreeIter(it) ==
  /\ Called /\ iters[it].open
  /\ iters' = [iters EXCEPT ![it] = NoIter] /\ status' = "CDSA_OK"
  /\ UNCHANGED <<live, treeVars, history, broken>>

-----------------------------------------------------------------------------
IterCall ==
  \E it \in Iters : NewIter(it) \/ IterNext(it) \/ IterFails(it) \/ FreeIter(it)

(* A program that has run into one of its defects promises nothing.        *)
Next ==
  \/ Create \/ CreateOOM \/ Free \/ IterCall
  \/ broken # "no" /\ UNCHANGED vars
  \/ \E k \in Keys : InsertCall(k) \/ DeleteCall(k)

Spec == Init /\ [][Next]_vars

-----------------------------------------------------------------------------
(* p and the addresses of everything below it.                             *)
Below(p) ==
  LET below[q \in Pointers] ==
        {q} \cup IF IsLeaf(q) THEN {}
                 ELSE UNION {below[nodes[q].edges[i][2]] : i \in DOMAIN nodes[q].edges}
  IN  below[p]

(* Every variable has its type, and the pools have handed out the nodes    *)
(* and leaves of the tree and no other block, each with one pointer to it: *)
(* whatever grew, shrank, forked, collapsed or failed, nothing is leaked,  *)
(* shared or dangling, and size counts the leaves.                         *)
TypeOK ==
  /\ {live, missed, wrapped} \subseteq BOOLEAN /\ size \in Nat
  /\ DOMAIN leaves \subseteq Keys /\ \A k \in DOMAIN leaves : leaves[k] \in Values
  /\ DOMAIN nodes \subseteq Tiers \X (1 .. NodesPerTier)
  /\ num_children \in [DOMAIN nodes -> 0 .. CountModulus - 1]
  /\ broken \in {"no", "free of a block", "no leaf", "lost", "stale", "overrun",
                 "hole", "overrun of children"}
  /\ broken # "lost" =>
       /\ size = Cardinality(DOMAIN leaves)
       /\ IF root = NULL THEN Pointers = {} ELSE Pointers = Below(root)
       /\ \A p \in DOMAIN nodes : \A i \in DOMAIN nodes[p].edges :
            /\ nodes[p].edges[i][2] # root
            /\ \A q \in DOMAIN nodes : \A j \in DOMAIN nodes[q].edges :
                 nodes[p].edges[i][2] = nodes[q].edges[j][2] => p = q /\ i = j

(* What the counts are worth.  A NODE4 and a NODE16 count what they have,  *)
(* and a NODE4 has two children at least.  A NODE48 may count children it  *)
(* has not, and a NODE256 counts all it ever had, which leaves it too      *)
(* large and, since it never shrinks, perhaps empty; but only when a node  *)
(* grew or shrank in vain, or the count of one came round to 0, is there   *)
(* a NODE16 or NODE48 too empty for its kind, a NODE48 that counts wrong,  *)
(* or a NODE256 with too small a count, which is what sets off a downgrade *)
(* that leaves NULL children or writes beyond the children.  Without a     *)
(* node of fewer than two children no pool of inner nodes is exhausted     *)
(* before that of leaves, and it takes a node without children for a walk  *)
(* to find no leaf below a node.                                           *)
NodesFit ==
  /\ \A p \in DOMAIN nodes :
       LET t == Tier(p)
           edges == nodes[p].edges
           count == num_children[p]
       IN  /\ Len(edges) <= Fanout[t]
           /\ \A i, j \in DOMAIN edges : edges[i][1] = edges[j][1] => i = j
           /\ t = 1 => Len(edges) >= 2
           /\ t <= 2 /\ broken # "hole" => count = Len(edges)
           /\ t <= 3 => Len(edges) <= count /\ count <= Fanout[t]
           /\ ~wrapped => Len(edges) <= count
           /\ t > 1 /\ ~missed /\ ~wrapped => count > Fanout[t - 1]
           /\ t = 3 /\ ~missed /\ ~wrapped => count = Len(edges)
  /\ broken = "overrun of children" => wrapped
  /\ broken = "hole" => missed \/ wrapped
  /\ broken # "lost" /\ (\A p \in DOMAIN nodes : Len(nodes[p].edges) >= 2)
       => \A t \in Tiers : CanAlloc(t)
  /\ broken = "no leaf" => \E p \in DOMAIN nodes : nodes[p].edges = <<>>

(* A search finds every key bound, with its value, and no other key, though *)
(* it never sees the bytes of a path that the header has no room for: what *)
(* forks and collapses cut, glue and save agrees with the keys below.  Keys *)
(* are lost only by the deletion of a key that ends inside such a path.    *)
SearchExact ==
  IF broken = "lost" THEN \E p \in DOMAIN nodes : nodes[p].prefix_len > MaxPrefix
  ELSE \A k \in Keys :
         cdsa_search_art(k) = IF k \in DOMAIN leaves THEN leaves[k] ELSE NoValue

(* An iterator whose version check passes and under which no node has      *)
(* moved never yields a key twice, shows the value the key has, and stops  *)
(* only after every key.  Deletions, and an insertion that fails after a   *)
(* node has grown, move nodes without a new version, and only after those  *)
(* can it read a freed block.  Its stack is too small only for a tree as   *)
(* deep, which takes a key of that length, or nodes without leaves, or a   *)
(* node that took over the block of a deeper one that was deleted.         *)
IteratorExact ==
  /\ \A it \in Iters :
       LET i == iters[it] IN
       i.open /\ i.valid /\ ~i.moved /\ broken = "no" =>
         IF i.next = NoValue THEN i.seen = DOMAIN leaves
         ELSE i.due[2] \in DOMAIN leaves \ i.seen /\ i.next = leaves[i.due[2]]
  /\ broken = "stale" => \E it \in Iters : iters[it].open /\ iters[it].moved
  /\ broken = "overrun" => \/ \E k \in DOMAIN leaves : Len(k) + 1 >= ART_MAX_DEPTH
                           \/ \E p \in DOMAIN nodes : nodes[p].edges = <<>>
                           \/ \E it \in Iters : iters[it].open /\ iters[it].moved

(* The leaves are a map that insertions and deletions change as they say,  *)
(* and failing calls not at all, a half-done growth included.              *)
KV == INSTANCE KVStore WITH
        kv <- [k \in Keys |-> IF k \in DOMAIN leaves THEN leaves[k] ELSE NoValue],
        busy <- FALSE
ImplementsKVStore == KV!Spec

(* art.h:55 ("Removes a key-value pair from the tree."): a deletion that   *)
(* finds no such key leaves the keys of the tree where searches find them. *)
FailedDeletionKeeps ==
  [][status' = "CDSA_ERR_NOT_FOUND" =>
       \A k \in Keys : cdsa_search_art(k)' = cdsa_search_art(k)]_vars
=============================================================================
