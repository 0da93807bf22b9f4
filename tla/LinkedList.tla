------------------------------ MODULE LinkedList -----------------------------
(***************************************************************************)
(* The singly linked list of src/src/linkedlist.c.  A node is two          *)
(* allocations, its struct and its data; the push that gets only the first *)
(* and the loops that free every node are modelled step by step.           *)
(***************************************************************************)
EXTENDS Integers, FiniteSets, Sequences

CONSTANTS
  Elems,          \* the elements a client pushes
  Ids,            \* identities of the nodes the allocator can return
  Null,
  MaxVersion,     \* bound on the version counter
  Iters           \* names of the iterators a client may hold

ASSUME LinkedListAssumption ==
  /\ Null \notin Ids /\ Null \notin Elems /\ MaxVersion \in Nat

VARIABLES
  live, head, size, version,    \* struct cdsa_linkedlist
  nodes,                        \* the nodes allocated: data and next
  pc,                           \* "idle", "push", "clear" or "free"
  current, value,               \* locals of the loops, argument of the push
  iters,
  used,                         \* allocations not yet freed
  status,                       \* of the last call on the list
  iter_status                   \* of the last call on an iterator

listVars == <<live, head, size, version, nodes>>
localVars == <<pc, current, value>>
vars == <<listVars, localVars, iters, used, status, iter_status>>

Statuses == {"CDSA_OK", "CDSA_ERR_OOM", "CDSA_ERR_EMPTY",
             "CDSA_ERR_NOT_FOUND", "CDSA_ERR_ITER_INVALIDATED"}

(* seen is history: the elements the iterator has yielded.                 *)
Iterator == [open : BOOLEAN, current_node : Ids \cup {Null},
             snapshot_version : Nat, seen : Seq(Elems)]
ClosedIter == [open |-> FALSE, current_node |-> Null, snapshot_version |-> 0,
               seen |-> <<>>]

NoNodes == [n \in {} |-> Null]
Idle == live /\ pc = "idle"

Init ==
  /\ live = FALSE /\ head = Null /\ size = 0 /\ version = 0 /\ nodes = NoNodes
  /\ pc = "idle" /\ current = Null /\ value = Null
  /\ iters = [it \in Iters |-> ClosedIter]
  /\ used = 0 /\ status = "CDSA_OK" /\ iter_status = "CDSA_OK"

-----------------------------------------------------------------------------
Create ==
  /\ ~live /\ live' = TRUE
  /\ used' = used + 1 /\ status' = "CDSA_OK"
  /\ UNCHANGED <<head, size, version, nodes, localVars, iters, iter_status>>

CreateOOM ==
  /\ ~live /\ status' = "CDSA_ERR_OOM"
  /\ UNCHANGED <<listVars, localVars, iters, used, iter_status>>

(* cdsa_push_front_linkedlist: the struct of the node is allocated.        *)
PushNode(e) ==
  /\ Idle /\ version < MaxVersion
  /\ pc' = "push" /\ value' = e /\ used' = used + 1
  /\ UNCHANGED <<listVars, current, iters, status, iter_status>>

PushNodeOOM ==
  /\ Idle /\ status' = "CDSA_ERR_OOM"
  /\ UNCHANGED <<listVars, localVars, iters, used, iter_status>>

EndPush ==
  /\ pc = "push" /\ pc' = "idle" /\ value' = Null
  /\ UNCHANGED <<live, current, iters, iter_status>>

(* (mutant) the link to the old head is missing                            *)
PushDataUnlinked(n) ==
  /\ n \notin DOMAIN nodes
  /\ nodes' = [m \in DOMAIN nodes \cup {n} |->
                 IF m = n THEN [data |-> value, next |-> Null] ELSE nodes[m]]
  /\ head' = n /\ size' = size + 1 /\ version' = version + 1
  /\ used' = used + 1 /\ status' = "CDSA_OK"
  /\ EndPush

(* Its data is allocated too and the node becomes the head.                *)
PushData(n) ==
  /\ n \notin DOMAIN nodes
  /\ nodes' = [m \in DOMAIN nodes \cup {n} |->
                 IF m = n THEN [data |-> value, next |-> head] ELSE nodes[m]]
  /\ head' = n /\ size' = size + 1 /\ version' = version + 1
  /\ used' = used + 1 /\ status' = "CDSA_OK"
  /\ EndPush

(* (mutant) the struct of the node is not freed                            *)
PushDataOOMLeaks ==
  /\ status' = "CDSA_ERR_OOM"
  /\ UNCHANGED <<head, size, version, nodes, used>>
  /\ EndPush

PushDataOOM ==
  /\ used' = used - 1 /\ status' = "CDSA_ERR_OOM"
  /\ UNCHANGED <<head, size, version, nodes>>
  /\ EndPush

Without(n) == [m \in DOMAIN nodes \ {n} |-> nodes[m]]

PopFront ==
  /\ Idle /\ head # Null /\ version < MaxVersion
  /\ head' = nodes[head].next /\ nodes' = Without(head)
  /\ size' = size - 1 /\ version' = version + 1
  /\ used' = used - 2 /\ status' = "CDSA_OK"
  /\ UNCHANGED <<live, localVars, iters, iter_status>>

PopEmpty ==
  /\ Idle /\ head = Null /\ status' = "CDSA_ERR_EMPTY"
  /\ UNCHANGED <<listVars, localVars, iters, used, iter_status>>

-----------------------------------------------------------------------------
(* cdsa_clear_linkedlist and cdsa_free_linkedlist walk the chain and free  *)
(* each node after reading its link.  An iterator must not outlive its     *)
(* list.                                                                   *)
StartFreeing(call) ==
  /\ Idle
  /\ pc' = call /\ current' = head
  /\ UNCHANGED <<listVars, value, iters, used, status, iter_status>>

ClearStart == version < MaxVersion /\ StartFreeing("clear")
FreeStart == (\A it \in Iters : ~iters[it].open) /\ StartFreeing("free")

FreeNode ==
  /\ pc \in {"clear", "free"} /\ current # Null
  /\ current' = nodes[current].next
  /\ nodes' = Without(current)
  /\ used' = used - 2
  /\ UNCHANGED <<live, head, size, version, pc, value, iters, status,
                 iter_status>>

ClearDone ==
  /\ pc = "clear" /\ current = Null /\ pc' = "idle"
  /\ head' = Null /\ size' = 0 /\ version' = version + 1
  /\ UNCHANGED <<live, nodes, current, value, iters, used, status,
                 iter_status>>

FreeDone ==
  /\ pc = "free" /\ current = Null /\ pc' = "idle"
  /\ live' = FALSE /\ head' = Null /\ size' = 0 /\ version' = 0
  /\ used' = used - 1
  /\ UNCHANGED <<nodes, current, value, iters, status, iter_status>>

-----------------------------------------------------------------------------
NewIter(it) ==
  /\ Idle /\ ~iters[it].open
  /\ iters' = [iters EXCEPT ![it] =
                 [ClosedIter EXCEPT !.open = TRUE, !.current_node = head,
                                    !.snapshot_version = version]]
  /\ used' = used + 1 /\ iter_status' = "CDSA_OK"
  /\ UNCHANGED <<listVars, localVars, status>>

(* (mutant) the version check is missing                                   *)
SafeAlways(it) == TRUE
Safe(it) == iters[it].snapshot_version = version

IterNext(it) ==
  /\ Idle /\ iters[it].open /\ Safe(it) /\ iters[it].current_node # Null
  /\ LET node == nodes[iters[it].current_node] IN
     iters' = [iters EXCEPT ![it].current_node = node.next,
                            ![it].seen = Append(@, node.data)]
  /\ iter_status' = "CDSA_OK"
  /\ UNCHANGED <<listVars, localVars, used, status>>

IterFails(it) ==
  /\ Idle /\ iters[it].open /\ (Safe(it) => iters[it].current_node = Null)
  /\ iter_status' = IF Safe(it) THEN "CDSA_ERR_NOT_FOUND"
                                ELSE "CDSA_ERR_ITER_INVALIDATED"
  /\ UNCHANGED <<listVars, localVars, iters, used, status>>

FreeIter(it) ==
  /\ pc = "idle" /\ iters[it].open
  /\ iters' = [iters EXCEPT ![it] = ClosedIter]
  /\ used' = used - 1 /\ iter_status' = "CDSA_OK"
  /\ UNCHANGED <<listVars, localVars, status>>

-----------------------------------------------------------------------------
Step == (\E n \in Ids : PushData(n)) \/ PushDataOOM \/ FreeNode \/ ClearDone
        \/ FreeDone

ListCall == \/ \E e \in Elems : PushNode(e)
            \/ Create \/ CreateOOM \/ PushNodeOOM \/ PopFront \/ PopEmpty
            \/ ClearStart \/ FreeStart

IterCall ==
  \E it \in Iters : NewIter(it) \/ IterNext(it) \/ IterFails(it) \/ FreeIter(it)

Next == Step \/ ListCall \/ IterCall

Spec == Init /\ [][Next]_vars

-----------------------------------------------------------------------------
(* Every field has its C type; between calls no pointer of the list        *)
(* dangles.                                                                *)
TypeOK ==
  /\ live \in BOOLEAN /\ size \in Nat /\ version \in Nat
  /\ DOMAIN nodes \subseteq Ids /\ head \in Ids \cup {Null}
  /\ \A n \in DOMAIN nodes :
       nodes[n] \in [data : Elems, next : Ids \cup {Null}]
  /\ pc \in {"idle", "push", "clear", "free"}
  /\ pc \in {"idle", "push"} =>
       head \in DOMAIN nodes \cup {Null}
  /\ current \in DOMAIN nodes \cup {Null} /\ value \in Elems \cup {Null}
  /\ iters \in [Iters -> Iterator] /\ used \in Nat
  /\ {status, iter_status} \subseteq Statuses

(* The elements of the nodes from n on.                                    *)
Chain(n) ==
  LET from[m \in DOMAIN nodes \cup {Null}] ==
        IF m = Null THEN <<>> ELSE <<nodes[m].data>> \o from[nodes[m].next]
  IN  from[n]

(* Every allocation is owned by the list, by one of the size nodes, by a   *)
(* push that waits for its data, or by an iterator: a push that fails      *)
(* half-way and the loops that free leak nothing and free nothing twice,   *)
(* no pointer of an idle list dangles, and its chain is as long as size.   *)
NoLeak ==
  /\ TypeOK
  /\ used = (IF live THEN 1 ELSE 0) + (IF pc = "push" THEN 1 ELSE 0)
            + 2 * Cardinality(DOMAIN nodes)
            + Cardinality({it \in Iters : iters[it].open})
  /\ pc \in {"idle", "push"} =>
       /\ size = Len(Chain(head))
       /\ size = Cardinality(DOMAIN nodes)

(* An iterator that passes the version check is at a node that has not     *)
(* been freed, or at the end; what it yielded and what it will yield are   *)
(* the list.                                                               *)
IteratorExact ==
  \A it \in Iters : Idle /\ iters[it].open /\ Safe(it) =>
    /\ iters[it].current_node \in DOMAIN nodes \cup {Null}
    /\ Chain(head) = iters[it].seen \o Chain(iters[it].current_node)

(* The list implements the sequence; a clear or a teardown takes effect    *)
(* when its loop begins.                                                   *)
Items == IF pc \in {"idle", "push"} THEN Chain(head) ELSE <<>>
LF == INSTANCE Lifo WITH items <- Items
ImplementsLifo == LF!Spec
=============================================================================
