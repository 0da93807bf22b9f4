------------------------------ MODULE SkipList -------------------------------
(***************************************************************************)
(* The skip list of src/src/skiplist.c.  Nodes are allocated and freed, so *)
(* an identity can come back; node Header is the dummy.  A search writes   *)
(* nothing and is the closed form Trail.  What allocates more than once    *)
(* and can fail half-way is stepped: the copy loop of get_range_skiplist   *)
(* by the string, and a creation or an insertion that will fail by the     *)
(* allocations it still gets; those that succeed are one step.             *)
(***************************************************************************)
EXTENDS Integers, FiniteSets, Sequences

CONSTANTS
  Items,        \* the (score, value) pairs clients insert
  Score, Text,  \* the score of an item, and the strcmp order of its value
  NaNs,         \* the items whose score is NaN
  Bounds,       \* scores that clients give as the ends of a range
  Ids,          \* identities of the nodes the allocator can return
  Header, Null,
  MaxLevel,     \* SKIPLIST_MAX_LEVEL
  MaxVersion,   \* bound on the version counter
  Iters         \* names of the iterators a client may hold

ASSUME SkipListAssumption ==
  /\ Score \in [Items -> Int] /\ Text \in [Items -> Int] /\ NaNs \subseteq Items
  /\ Bounds \subseteq Int
  /\ \A x, y \in Items \ NaNs :  \* an item is its score and its value
       Score[x] = Score[y] /\ Text[x] = Text[y] => x = y
  /\ Header \notin Ids /\ Null \notin Ids /\ Header # Null
  /\ MaxLevel \in Nat \ {0} /\ MaxVersion \in Nat

VARIABLES
  live,                     \* the client holds a list
  level, size, version,     \* struct cdsa_skiplist
  nodes,                    \* the nodes allocated: item and forward pointers
  pc, current, results, min_score, max_score,    \* of get_range_skiplist
  parts, old_level,         \* of a creation or an insertion that will fail
  iters,
  used,                     \* allocations not yet freed
  handed,                   \* those a client owns: the result of a range
  status, arg,              \* of the last call on the list: result and item
  iter_status               \* of the last call on an iterator

listVars == <<level, size, version, nodes>>
failVars == <<parts, old_level>>
callVars == <<pc, current, results, min_score, max_score, failVars>>
vars == <<live, listVars, callVars, iters, used, handed, status, arg,
          iter_status>>

(* A comparison with NaN is false.                                         *)
Comparable(x, y) == x \notin NaNs /\ y \notin NaNs
(* The items a search for x passes.                                        *)
Before(x) == {y \in Items : /\ Comparable(x, y)
                            /\ \/ Score[y] < Score[x]
                               \/ Score[y] = Score[x] /\ Text[y] < Text[x]}
Same(x, y) == Comparable(x, y) /\ Score[x] = Score[y] /\ Text[x] = Text[y]
Below(s) == {y \in Items \ NaNs : Score[y] < s}
UpTo(s) == {y \in Items \ NaNs : Score[y] <= s}

(* seen is history: the nodes the iterator has yielded.                    *)
Iterator == [open : BOOLEAN, current : Ids \cup {Null},
             snapshot_version : Nat, seen : Seq(Items)]
ClosedIter == [open |-> FALSE, current |-> Null, snapshot_version |-> 0,
               seen |-> <<>>]

Statuses == {"CDSA_OK", "CDSA_ERR_OOM", "CDSA_ERR_NOT_FOUND",
             "CDSA_ERR_ITER_INVALIDATED"}

NoNodes == [n \in {} |-> 0]
Node(x, f) == [item |-> x, forward |-> f]
NullArray(h) == [i \in 0 .. h - 1 |-> Null]

Init ==
  /\ live = FALSE /\ level = 0 /\ size = 0 /\ version = 0 /\ nodes = NoNodes
  /\ pc = "idle" /\ current = Null /\ results = <<>>
  /\ min_score = 0 /\ max_score = 0 /\ parts = 0 /\ old_level = 0
  /\ iters = [it \in Iters |-> ClosedIter]
  /\ used = 0 /\ handed = 0 /\ status = "CDSA_OK" /\ arg = Null
  /\ iter_status = "CDSA_OK"

(* A node is its struct, its value and its forward array; a list is its    *)
(* struct and its header.                                                  *)
NodeCells == 3
ListCells == 1 + NodeCells

Idle == live /\ pc = "idle"

-----------------------------------------------------------------------------
Create ==
  /\ ~live /\ pc = "idle" /\ live' = TRUE
  /\ level' = 1 /\ size' = 0 /\ version' = 0
  /\ nodes' = [n \in {Header} |-> Node(Null, NullArray(MaxLevel))]
  /\ used' = used + ListCells /\ arg' = Null /\ status' = "CDSA_OK"
  /\ UNCHANGED <<callVars, iters, handed, iter_status>>

(* A creation of which one of the four allocations fails.                  *)
CreateOOM ==
  /\ ~live /\ pc = "idle"
  /\ pc' = "create" /\ arg' = Null /\ status' = "CDSA_ERR_OOM"
  /\ UNCHANGED <<live, listVars, current, results, min_score, max_score,
                 failVars, iters, used, handed, iter_status>>

(* One allocation more than the call has succeeds, but not the last: the   *)
(* struct of a list being created, then the struct, the value and the      *)
(* forward array of the node.                                              *)
PartMade ==
  /\ pc = "create" /\ parts + 1 < (IF live THEN NodeCells ELSE ListCells)
  /\ parts' = parts + 1 /\ used' = used + 1
  /\ UNCHANGED <<live, listVars, pc, current, results, min_score, max_score,
                 old_level, iters, handed, status, arg, iter_status>>

(* (mutant) a node without its forward array keeps its value               *)
PartFailsKeepValue ==
  /\ pc = "create"
  /\ used' = used - (IF parts = 2 THEN 1 ELSE parts) /\ parts' = 0
  /\ level' = old_level /\ old_level' = 0
  /\ pc' = "idle"
  /\ UNCHANGED <<live, size, version, nodes, current, results, min_score,
                 max_score, iters, handed, status, arg, iter_status>>

(* The next allocation fails: the parts there are are freed and the level  *)
(* bump is undone.                                                         *)
PartFails ==
  /\ pc = "create"
  /\ used' = used - parts /\ parts' = 0
  /\ level' = old_level /\ old_level' = 0
  /\ pc' = "idle"
  /\ UNCHANGED <<live, size, version, nodes, current, results, min_score,
                 max_score, iters, handed, status, arg, iter_status>>

(* forward[i] of node n, the nodes that have one, and those from n on at   *)
(* level i.                                                                *)
Forward(n, i) == nodes[n].forward[i]
AtLevel(i) == {m \in DOMAIN nodes : i \in DOMAIN nodes[m].forward}
Listed(n, i) ==
  LET from[m \in AtLevel(i) \cup {Null}] ==
        IF m = Null THEN <<>> ELSE <<m>> \o from[Forward(m, i)]
  IN  from[n]
Level0 == Listed(Forward(Header, 0), 0)

(* An iterator must not outlive its list.  The loop frees the nodes it     *)
(* meets on level 0, the header among them.                                *)
Free ==
  /\ Idle /\ \A it \in Iters : ~iters[it].open
  /\ live' = FALSE
  /\ level' = 0 /\ size' = 0 /\ version' = 0 /\ nodes' = NoNodes
  /\ used' = used - (ListCells + NodeCells * Len(Level0))
  /\ arg' = Null /\ status' = "CDSA_OK"
  /\ UNCHANGED <<callVars, iters, handed, iter_status>>

-----------------------------------------------------------------------------
(* The search: at each level walk on while the next node's item is one of  *)
(* those passed; the node reached starts the level below.  Trail[i] is the *)
(* breadcrumb update[i].                                                   *)
Walk(passed, i, n) ==
  LET walk[m \in AtLevel(i)] ==
        IF Forward(m, i) # Null /\ nodes[Forward(m, i)].item \in passed
          THEN walk[Forward(m, i)] ELSE m
  IN  walk[n]

Trail(passed) ==
  LET update[i \in 0 .. level - 1] ==
        Walk(passed, i, IF i = level - 1 THEN Header ELSE update[i + 1])
  IN  update

Update(x, i) == IF i < level THEN Trail(Before(x))[i] ELSE Header

Spliced(n, x, h) ==
  [m \in DOMAIN nodes \cup {n} |->
     IF m = n THEN Node(x, [i \in 0 .. h - 1 |-> Forward(Update(x, i), i)])
     ELSE [nodes[m] EXCEPT !.forward =
             [i \in DOMAIN @ |->
                IF i < h /\ Update(x, i) = m THEN n ELSE @[i]]]]

(* h is what random_level rolls, n what malloc returns.                    *)
Insert(x, h, n) ==
  /\ Idle /\ version < MaxVersion /\ n \notin DOMAIN nodes
  /\ nodes' = Spliced(n, x, h)
  /\ level' = IF h > level THEN h ELSE level
  /\ size' = size + 1 /\ version' = version + 1
  /\ used' = used + NodeCells /\ arg' = x /\ status' = "CDSA_OK"
  /\ UNCHANGED <<live, callVars, iters, handed, iter_status>>

(* An insertion that rolls h and of which one of the three allocations     *)
(* fails: the level is bumped before the node is made.                     *)
InsertOOM(h) ==
  /\ Idle
  /\ pc' = "create" /\ arg' = Null /\ status' = "CDSA_ERR_OOM"
  /\ old_level' = level /\ level' = IF h > level THEN h ELSE level
  /\ UNCHANGED <<live, size, version, nodes, current, results, min_score,
                 max_score, parts, iters, used, handed, iter_status>>

Successor(x) == Forward(Trail(Before(x))[0], 0)
(* (mutant) the value of the node is not compared                          *)
FoundScore(x) == /\ Successor(x) # Null
                 /\ Score[nodes[Successor(x)].item] = Score[x]
Found(x) == Successor(x) # Null /\ Same(nodes[Successor(x)].item, x)

(* The levels at which the target is bypassed.                             *)
Rewired(x, i) ==
  \A j \in 0 .. i : /\ j < level
                    /\ Forward(Trail(Before(x))[j], j) = Successor(x)

Unlinked(x) ==
  [m \in DOMAIN nodes \ {Successor(x)} |->
     [nodes[m] EXCEPT !.forward =
        [i \in DOMAIN @ |->
           IF i < level /\ Rewired(x, i) /\ m = Trail(Before(x))[i]
             THEN Forward(Successor(x), i) ELSE @[i]]]]

(* (mutant) the height of the list is never lowered                        *)
LoweredNever(f) == level

(* The loop lowers level past the empty levels at the top of the header.   *)
Lowered(f) ==
  CHOOSE l \in 1 .. level :
    /\ l > 1 => f[l - 1] # Null
    /\ \A i \in l .. level - 1 : f[i] = Null

Remove(x) ==
  /\ Idle /\ version < MaxVersion /\ Found(x)
  /\ nodes' = Unlinked(x)
  /\ level' = Lowered(nodes'[Header].forward)
  /\ size' = size - 1 /\ version' = version + 1
  /\ used' = used - NodeCells /\ arg' = x /\ status' = "CDSA_OK"
  /\ UNCHANGED <<live, callVars, iters, handed, iter_status>>

RemoveMiss(x) ==
  /\ Idle /\ ~Found(x) /\ arg' = x /\ status' = "CDSA_ERR_NOT_FOUND"
  /\ UNCHANGED <<live, listVars, callVars, iters, used, handed, iter_status>>

-----------------------------------------------------------------------------
(* get_range_skiplist: find the first node, count, allocate the array,     *)
(* copy the strings.                                                       *)
(* (mutant) the express lanes pass the lower end itself                    *)
RangeHeadPast(lo) == Forward(Trail(UpTo(lo))[0], 0)
RangeHead(lo) == Forward(Trail(Below(lo))[0], 0)
InRange(n, hi) == n # Null /\ nodes[n].item \in UpTo(hi)

RangeStart(lo, hi) ==
  /\ Idle /\ handed = 0 /\ InRange(RangeHead(lo), hi)
  /\ pc' = "copy" /\ current' = RangeHead(lo) /\ results' = <<>>
  /\ min_score' = lo /\ max_score' = hi
  /\ used' = used + 1
  /\ UNCHANGED <<live, listVars, failVars, iters, handed, status, arg,
                 iter_status>>

(* NULL: nothing in the range is met, or there is no memory for the array. *)
RangeEmpty(lo, hi) == Idle /\ ~InRange(RangeHead(lo), hi) /\ UNCHANGED vars
RangeOOM(lo, hi) == Idle /\ InRange(RangeHead(lo), hi) /\ UNCHANGED vars

CopyString ==
  /\ pc = "copy" /\ InRange(current, max_score)
  /\ results' = Append(results, nodes[current].item)
  /\ current' = Forward(current, 0)
  /\ used' = used + 1
  /\ UNCHANGED <<live, listVars, pc, min_score, max_score, failVars, iters,
                 handed, status, arg, iter_status>>

EndRange ==
  /\ pc' = "idle" /\ current' = Null /\ results' = <<>>
  /\ min_score' = 0 /\ max_score' = 0
  /\ UNCHANGED <<live, listVars, failVars, iters, status, arg, iter_status>>

(* safe_strdup fails: the strings copied so far and the array are freed.   *)
CopyFails ==
  /\ pc = "copy" /\ InRange(current, max_score)
  /\ used' = used - (Len(results) + 1) /\ UNCHANGED handed
  /\ EndRange

CopyDone ==
  /\ pc = "copy" /\ ~InRange(current, max_score)
  /\ handed' = Len(results) + 1 /\ UNCHANGED used
  /\ EndRange

(* The client frees what it was given.                                     *)
FreeRange ==
  /\ pc = "idle" /\ handed > 0
  /\ used' = used - handed /\ handed' = 0
  /\ UNCHANGED <<live, listVars, callVars, iters, status, arg,
                 iter_status>>

-----------------------------------------------------------------------------
NewIter(it) ==
  /\ Idle /\ ~iters[it].open
  /\ iters' = [iters EXCEPT ![it] =
                 [ClosedIter EXCEPT !.open = TRUE,
                                    !.current = Forward(Header, 0),
                                    !.snapshot_version = version]]
  /\ used' = used + 1 /\ iter_status' = "CDSA_OK"
  /\ UNCHANGED <<live, listVars, callVars, handed, status, arg>>

(* (mutant) the version check is missing                                   *)
SafeAlways(it) == TRUE
Safe(it) == iters[it].snapshot_version = version

IterNext(it) ==
  /\ Idle /\ iters[it].open /\ iters[it].current # Null /\ Safe(it)
  /\ LET n == iters[it].current IN
     iters' = [iters EXCEPT ![it].current = Forward(n, 0),
                            ![it].seen = Append(@, nodes[n].item)]
  /\ iter_status' = "CDSA_OK"
  /\ UNCHANGED <<live, listVars, callVars, used, handed, status, arg>>

(* At the end the version is not looked at.                                *)
IterFails(it) ==
  /\ Idle /\ iters[it].open
  /\ \/ iters[it].current = Null /\ iter_status' = "CDSA_ERR_NOT_FOUND"
     \/ /\ iters[it].current # Null /\ ~Safe(it)
        /\ iter_status' = "CDSA_ERR_ITER_INVALIDATED"
  /\ UNCHANGED <<live, listVars, callVars, iters, used, handed, status, arg>>

FreeIter(it) ==
  /\ pc = "idle" /\ iters[it].open
  /\ iters' = [iters EXCEPT ![it] = ClosedIter]
  /\ used' = used - 1 /\ iter_status' = "CDSA_OK"
  /\ UNCHANGED <<live, listVars, callVars, handed, status, arg>>

-----------------------------------------------------------------------------
ListCall ==
  \/ \E x \in Items, h \in 1 .. MaxLevel, n \in Ids : Insert(x, h, n)
  \/ \E x \in Items : Remove(x) \/ RemoveMiss(x)
  \/ \E h \in 1 .. MaxLevel : InsertOOM(h)
  \/ Create \/ CreateOOM \/ Free \/ PartMade \/ PartFails

Copy == CopyString \/ CopyFails \/ CopyDone

RangeCall ==
  \/ \E lo, hi \in Bounds : \/ RangeStart(lo, hi)
                           \/ RangeEmpty(lo, hi) \/ RangeOOM(lo, hi)
  \/ Copy \/ FreeRange

IterCall ==
  \E it \in Iters : NewIter(it) \/ IterNext(it) \/ IterFails(it) \/ FreeIter(it)

Next == ListCall \/ RangeCall \/ IterCall

Spec == Init /\ [][Next]_vars

-----------------------------------------------------------------------------
(* Every field has its C type, and no pointer dangles: what a forward      *)
(* pointer, the copy loop or a valid iterator points at is allocated, and  *)
(* a forward array is as long as the level it is reached at.               *)
(* The level of the list once the call under way has failed.               *)
Settled == IF pc = "create" THEN old_level ELSE level

Pointers == (DOMAIN nodes \ {Header}) \cup {Null}
TypeOK ==
  /\ live \in BOOLEAN /\ size \in Nat /\ version \in Nat
  /\ Settled \in (IF live THEN 1 .. MaxLevel ELSE {0})
  /\ level \in Settled .. MaxLevel /\ parts \in 0 .. ListCells
  /\ DOMAIN nodes \subseteq Ids \cup {Header}
  /\ (live <=> Header \in DOMAIN nodes)
  /\ \A n \in DOMAIN nodes : \A i \in DOMAIN nodes[n].forward :
       /\ Forward(n, i) \in Pointers
       /\ Forward(n, i) # Null => i \in DOMAIN nodes[Forward(n, i)].forward
  /\ pc \in {"idle", "copy", "create"} /\ current \in Pointers /\ results \in Seq(Items)
  /\ max_score \in Int /\ iters \in [Iters -> Iterator]
  /\ used \in Nat /\ handed \in Nat
  /\ {status, iter_status} \subseteq Statuses /\ arg \in Items \cup {Null}

(* The subsequence of s of what is in S.                                   *)
Among(s, S) ==
  LET kept[p \in 0 .. Len(s)] ==
        IF p = 0 THEN <<>>
        ELSE IF s[p] \in S THEN Append(kept[p - 1], s[p]) ELSE kept[p - 1]
  IN  kept[Len(s)]

(* The pointers are sound, and so are the express lanes: level i lists, in *)
(* the order of level 0, exactly the nodes taller than i; level 0 lists    *)
(* every node; level is the height of the tallest, and is again after an   *)
(* insertion that fails, which bumps it.  Holds whatever the comparisons   *)
(* answer, NaN included.                                                   *)
Height(n) == Cardinality(DOMAIN nodes[n].forward)
LevelsNested ==
  /\ TypeOK
  /\ live =>
       /\ \A i \in 0 .. MaxLevel - 1 :
            Listed(Forward(Header, i), i)
              = Among(Level0, {n \in DOMAIN nodes : Height(n) > i})
       /\ {Level0[p] : p \in DOMAIN Level0} = DOMAIN nodes \ {Header}
       /\ size = Len(Level0)
       /\ \A n \in DOMAIN nodes \ {Header} : Height(n) <= Settled
       /\ \/ Settled = 1
          \/ \E n \in DOMAIN nodes \ {Header} : Height(n) = Settled

(* The items of level 0, and whether order says anything about them.       *)
Stored == [p \in DOMAIN Level0 |-> nodes[Level0[p]].item]
AllOrdered == \A p \in DOMAIN Level0 : Stored[p] \notin NaNs
(* While no score stored is NaN: level 0 is in the order of scores, ties   *)
(* in that of values, and a range query returns the stored items with a    *)
(* score in the range, all of them, in order, and none only when there is  *)
(* none: the express lanes skip none and the second walk copies what the   *)
(* first one counted.                                                      *)
InOrder(x, y) == x \in Before(y) \/ Same(x, y)
RangeExact ==
  live /\ AllOrdered =>
    /\ \A p, q \in DOMAIN Level0 : p < q => InOrder(Stored[p], Stored[q])
    /\ pc = "copy" =>
         LET rest == Listed(current, 0)
             copied == results \o [p \in DOMAIN rest |-> nodes[rest[p]].item]
         IN  Among(copied, UpTo(max_score))
               = Among(Stored, UpTo(max_score) \ Below(min_score))
    /\ pc = "idle" =>
         \A lo, hi \in Bounds : \A n \in DOMAIN nodes \ {Header} :
           nodes[n].item \in UpTo(hi) \ Below(lo) => InRange(RangeHead(lo), hi)

(* Every allocation is owned by the list, a node, an iterator, the copy or *)
(* the node under way or a client: failing half-way leaks nothing, and the *)
(* teardown finds every node.                                              *)
NoLeak ==
  used = (IF live THEN ListCells + NodeCells * size ELSE 0)
         + Cardinality({it \in Iters : iters[it].open})
         + (CASE pc = "copy" -> 1 + Len(results)
              [] pc = "create" -> parts
              [] OTHER -> 0)
         + handed

(* An iterator that passes the version check is at an allocated node or at *)
(* the end, and what it yielded followed by what it will yield is the      *)
(* list: a node freed and allocated again is never mistaken for its own.   *)
IteratorExact ==
  \A it \in Iters : live /\ iters[it].open /\ Safe(it) =>
    /\ iters[it].current \in Pointers
    /\ Len(iters[it].seen) <= size
    /\ iters[it].seen = SubSeq(Stored, 1, Len(iters[it].seen))
    /\ Listed(iters[it].current, 0)
         = SubSeq(Level0, Len(iters[it].seen) + 1, size)

(* The list implements the bag: insertion adds one copy and removal takes  *)
(* one, finding it whenever it is there and no NaN is stored.              *)
Bag == [x \in Items |-> Cardinality({n \in DOMAIN nodes \ {Header} :
                                       nodes[n].item = x})]
SB == INSTANCE SortedBag WITH bag <- Bag
ImplementsSortedBag == SB!Spec
=============================================================================
