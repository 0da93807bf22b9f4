------------------------------- MODULE HashMap -------------------------------
(***************************************************************************)
(* The Robin Hood hash map of src/src/hashmap.c.                           *)
(*                                                                         *)
(* The loops of internal_insert, of resize_hashmap's rehash and of         *)
(* remove_hashmap's backward shift are modelled one iteration per step:    *)
(* pc says which loop runs, and the locals of the loop are variables.  The *)
(* program is single-threaded, so a call begins and an iterator moves only *)
(* when pc = "idle".  The bounded scans of the lookup and of               *)
(* recalculate_max_psl write nothing and are closed forms.                 *)
(***************************************************************************)
EXTENDS Integers, FiniteSets, Sequences

CONSTANTS
  Keys, Values,      \* keys and (non-NULL) values the client inserts
  NoKey, NoValue,    \* NULL
  Hash,              \* get_raw_hash, as a function on Keys
  InitCaps,          \* capacities the client passes to cdsa_create_hashmap
  MaxCapacity,       \* bound: the largest table calloc can return
  MaxVersion,        \* bound on the version counter
  Iters              \* names of the iterators a client may hold

ASSUME HashMapAssumption ==
  /\ NoKey \notin Keys
  /\ NoValue \notin Values
  /\ Hash \in [Keys -> Nat]
  /\ InitCaps \subseteq Nat
  /\ MaxCapacity \in Nat
  /\ MaxVersion \in Nat

VARIABLES
  live,              \* the client holds a map
  capacity, size, max_psl, version, entries,    \* struct cdsa_hashmap
  pc,                \* the loop that runs, "idle" between calls
  index, incoming,   \* locals of internal_insert
  pend,              \* key and value of the insertion that waits for a resize
  old_capacity, old_entries, scan,              \* locals of resize_hashmap
  curr, max_psl_affected,                       \* locals of remove_hashmap
  iters,             \* the iterators
  used,              \* cells allocated and not freed
  status             \* status code of the last call

tableVars  == <<capacity, size, max_psl, version, entries>>
insertVars == <<index, incoming>>
resizeVars == <<pend, old_capacity, old_entries, scan>>
removeVars == <<curr, max_psl_affected>>
vars == <<live, tableVars, pc, insertVars, resizeVars, removeVars, iters,
          used, status>>

Statuses == {"CDSA_OK", "CDSA_ERR_OOM", "CDSA_ERR_NOT_FOUND",
             "CDSA_ERR_ITER_INVALIDATED"}

Entry == [key : Keys \cup {NoKey}, value : Values \cup {NoValue},
          hash : Nat, psl : Nat]
Blank == [key |-> NoKey, value |-> NoValue, hash |-> 0, psl |-> 0]
NewTable(c) == [i \in 0 .. c - 1 |-> Blank]
Slots == 0 .. capacity - 1
Occupied(i) == entries[i].key # NoKey
NextSlot(i) == (i + 1) % capacity

(* An iterator; seen, touched and made_on are history: the keys it has     *)
(* yielded, whether an insertion wrote a slot since it was created, and    *)
(* the capacity of the table it was created on.                            *)
Iterator == [open : BOOLEAN, current_index : Nat, snapshot_version : Nat,
             seen : Seq(Keys), touched : BOOLEAN, made_on : Nat]
ClosedIter == [open |-> FALSE, current_index |-> 0, snapshot_version |-> 0,
               seen |-> <<>>, touched |-> FALSE, made_on |-> 0]

(* The slots the insertion itself writes, not those a rehash fills.        *)
Touch == iters' = [it \in Iters |->
                     [iters[it] EXCEPT !.touched =
                        @ \/ (pc = "place" /\ iters[it].open)]]

Init ==
  /\ live = FALSE /\ capacity = 0 /\ size = 0 /\ max_psl = 0 /\ version = 0
  /\ entries = NewTable(0)
  /\ pc = "idle" /\ index = 0 /\ incoming = Blank
  /\ pend = Blank /\ old_capacity = 0 /\ old_entries = NewTable(0) /\ scan = 0
  /\ curr = 0 /\ max_psl_affected = FALSE
  /\ iters = [it \in Iters |-> ClosedIter]
  /\ used = 0 /\ status = "CDSA_OK"

-----------------------------------------------------------------------------
(* cdsa_create_hashmap and cdsa_free_hashmap                               *)

Create(c) ==
  LET cap == IF c = 0 THEN 1 ELSE c IN
  /\ ~live /\ cap <= MaxCapacity
  /\ live' = TRUE
  /\ capacity' = cap /\ size' = 0 /\ max_psl' = 0 /\ version' = 0
  /\ entries' = NewTable(cap)
  /\ used' = used + 1 + cap /\ status' = "CDSA_OK"
  /\ UNCHANGED <<pc, insertVars, resizeVars, removeVars, iters>>

(* malloc or calloc fails: the struct, when there is one, is freed again.  *)
CreateOOM ==
  /\ ~live
  /\ status' = "CDSA_ERR_OOM"
  /\ UNCHANGED <<live, tableVars, pc, insertVars, resizeVars, removeVars,
                 iters, used>>

(* An iterator must not outlive its map.                                   *)
Free ==
  /\ live /\ pc = "idle" /\ \A it \in Iters : ~iters[it].open
  /\ live' = FALSE
  /\ capacity' = 0 /\ size' = 0 /\ max_psl' = 0 /\ version' = 0
  /\ entries' = NewTable(0)
  /\ used' = used - (1 + capacity) /\ status' = "CDSA_OK"
  /\ UNCHANGED <<pc, insertVars, resizeVars, removeVars, iters>>

-----------------------------------------------------------------------------
(* get_hashmap: the distances at which the probe loop meets key k          *)

Slot(k, d) == (Hash[k] + d) % capacity
Hit(k, d) ==
  /\ \A e \in 0 .. d : Occupied(Slot(k, e))
  /\ entries[Slot(k, d)].hash = Hash[k]
  /\ entries[Slot(k, d)].key = k
(* (mutant) the last distance is not probed                                *)
HitsShort(k) == {d \in 0 .. max_psl - 1 : Hit(k, d)}
Hits(k) == {d \in 0 .. max_psl : Hit(k, d)}
FirstHits(k) == {d \in Hits(k) : \A e \in Hits(k) : d <= e}
Get(k) == IF Hits(k) = {} THEN NoValue
          ELSE entries[Slot(k, CHOOSE d \in FirstHits(k) : TRUE)].value

-----------------------------------------------------------------------------
(* insert_hashmap, resize_hashmap and internal_insert                      *)

(* (mutant) the table is resized one entry too late                        *)
AtThresholdLate == size > (capacity * 3) \div 4
AtThreshold == size >= (capacity * 3) \div 4
CanGrow == capacity * 2 <= MaxCapacity /\ version < MaxVersion

(* (mutant) the home slot is not reduced to the capacity                   *)
StartProbeNoModulo(k, v, h) ==
  /\ index' = h
  /\ incoming' = [key |-> k, value |-> v, hash |-> h, psl |-> 0]

StartProbe(k, v, h) ==
  /\ index' = h % capacity
  /\ incoming' = [key |-> k, value |-> v, hash |-> h, psl |-> 0]

StartResize ==
  /\ CanGrow
  /\ old_capacity' = capacity /\ old_entries' = entries /\ scan' = 0
  /\ capacity' = capacity * 2 /\ entries' = NewTable(capacity * 2)
  /\ size' = 0
  /\ used' = used + capacity * 2
  /\ pc' = "rehash"

Insert(k, v) ==
  /\ live /\ pc = "idle" /\ ~AtThreshold
  /\ StartProbe(k, v, Hash[k]) /\ pc' = "place"
  /\ status' = "CDSA_OK"
  /\ UNCHANGED <<live, tableVars, resizeVars, removeVars, iters, used>>

InsertResize(k, v) ==
  /\ live /\ pc = "idle" /\ AtThreshold
  /\ StartResize
  /\ pend' = [Blank EXCEPT !.key = k, !.value = v]
  /\ status' = "CDSA_OK"
  /\ UNCHANGED <<live, max_psl, version, insertVars, removeVars, iters>>

Resize ==
  /\ live /\ pc = "idle"
  /\ StartResize
  /\ status' = "CDSA_OK"
  /\ UNCHANGED <<live, max_psl, version, insertVars, pend, removeVars, iters>>

(* resize_hashmap finds no memory: it, and the insertion that called it,   *)
(* return CDSA_ERR_OOM.                                                    *)
ResizeOOM ==
  /\ live /\ pc = "idle"
  /\ status' = "CDSA_ERR_OOM"
  /\ UNCHANGED <<live, tableVars, pc, insertVars, resizeVars, removeVars,
                 iters, used>>

(* (mutant) an empty slot does not advance the loop                        *)
RehashSkipStuck ==
  /\ pc = "rehash" /\ scan < old_capacity /\ old_entries[scan].key = NoKey
  /\ UNCHANGED vars

RehashSkip ==
  /\ pc = "rehash" /\ scan < old_capacity /\ old_entries[scan].key = NoKey
  /\ scan' = scan + 1
  /\ UNCHANGED <<live, tableVars, pc, insertVars, pend, old_capacity,
                 old_entries, removeVars, iters, used, status>>

RehashEntry ==
  /\ pc = "rehash" /\ scan < old_capacity /\ old_entries[scan].key # NoKey
  /\ StartProbe(old_entries[scan].key, old_entries[scan].value,
                old_entries[scan].hash)
  /\ scan' = scan + 1 /\ pc' = "replace"
  /\ UNCHANGED <<live, tableVars, pend, old_capacity, old_entries,
                 removeVars, iters, used, status>>

(* (mutant) the old table is not freed                                     *)
RehashDoneNoFree ==
  /\ pc = "rehash" /\ scan = old_capacity
  /\ version' = version + 1
  /\ old_capacity' = 0 /\ old_entries' = NewTable(0) /\ scan' = 0
  /\ pend' = Blank
  /\ UNCHANGED <<live, capacity, size, max_psl, entries, removeVars, iters,
                 used, status>>
  /\ IF pend.key = NoKey
       THEN pc' = "idle" /\ UNCHANGED insertVars
       ELSE pc' = "place" /\ StartProbe(pend.key, pend.value, Hash[pend.key])

(* (mutant) a resize does not move the version on                          *)
RehashDoneSameVersion ==
  /\ pc = "rehash" /\ scan = old_capacity
  /\ used' = used - old_capacity
  /\ old_capacity' = 0 /\ old_entries' = NewTable(0) /\ scan' = 0
  /\ pend' = Blank
  /\ UNCHANGED <<live, capacity, size, max_psl, version, entries, removeVars,
                 iters, status>>
  /\ IF pend.key = NoKey
       THEN pc' = "idle" /\ UNCHANGED insertVars
       ELSE pc' = "place" /\ StartProbe(pend.key, pend.value, Hash[pend.key])

(* free(old_entries), version++; insert_hashmap goes on with its key.      *)
RehashDone ==
  /\ pc = "rehash" /\ scan = old_capacity
  /\ used' = used - old_capacity
  /\ version' = version + 1
  /\ old_capacity' = 0 /\ old_entries' = NewTable(0) /\ scan' = 0
  /\ pend' = Blank
  /\ UNCHANGED <<live, capacity, size, max_psl, entries, removeVars, iters,
                 status>>
  /\ IF pend.key = NoKey
       THEN pc' = "idle" /\ UNCHANGED insertVars
       ELSE pc' = "place" /\ StartProbe(pend.key, pend.value, Hash[pend.key])

(* internal_insert returns to insert_hashmap or to the rehash loop.        *)
EndProbe ==
  /\ index' = 0 /\ incoming' = Blank
  /\ pc' = IF pc = "replace" THEN "rehash" ELSE "idle"

Probing == pc \in {"place", "replace"}
Resizing == pc \in {"rehash", "replace"}
Match == /\ Occupied(index)
         /\ entries[index].hash = incoming.hash
         /\ entries[index].key = incoming.key

RaisedMaxPsl == IF incoming.psl > max_psl THEN incoming.psl ELSE max_psl

PlaceIncoming ==
  /\ Probing /\ ~Occupied(index)
  /\ entries' = [entries EXCEPT ![index] = incoming]
  /\ size' = size + 1
  /\ max_psl' = RaisedMaxPsl
  /\ Touch
  /\ EndProbe
  /\ UNCHANGED <<live, capacity, version, resizeVars, removeVars, used,
                 status>>

(* (mutant) a key that is found keeps its old value                        *)
OverwriteNothing ==
  /\ Probing /\ Match
  /\ EndProbe
  /\ UNCHANGED <<live, tableVars, resizeVars, removeVars, iters, used,
                 status>>

OverwriteValue ==
  /\ Probing /\ Match
  /\ entries' = [entries EXCEPT ![index].value = incoming.value]
  /\ EndProbe
  /\ UNCHANGED <<live, capacity, size, max_psl, version, resizeVars,
                 removeVars, iters, used, status>>

(* (mutant) an entry of equal psl is displaced                             *)
RicherOrEqual == incoming.psl >= entries[index].psl
Richer == incoming.psl > entries[index].psl

RobinHoodSwap ==
  /\ Probing /\ Occupied(index) /\ ~Match /\ Richer
  /\ entries' = [entries EXCEPT ![index] = incoming]
  /\ incoming' = [entries[index] EXCEPT !.psl = @ + 1]
  /\ index' = NextSlot(index)
  /\ Touch
  /\ UNCHANGED <<live, capacity, size, max_psl, version, pc, resizeVars,
                 removeVars, used, status>>

ProbeOn ==
  /\ Probing /\ Occupied(index) /\ ~Match /\ ~Richer
  /\ incoming' = [incoming EXCEPT !.psl = @ + 1]
  /\ index' = NextSlot(index)
  /\ UNCHANGED <<live, tableVars, pc, resizeVars, removeVars, iters, used,
                 status>>

-----------------------------------------------------------------------------
(* remove_hashmap: the entry found is overwritten by its successors, each  *)
(* one slot nearer its home, until an empty slot or an entry at home.      *)

RemoveFound(k) ==
  /\ live /\ pc = "idle" /\ version < MaxVersion
  /\ \E d \in FirstHits(k) :
       /\ curr' = Slot(k, d)
       /\ max_psl_affected' = (entries[Slot(k, d)].psl = max_psl)
  /\ size' = size - 1
  /\ version' = version + 1
  /\ pc' = "shift" /\ status' = "CDSA_OK"
  /\ UNCHANGED <<live, capacity, max_psl, entries, insertVars, resizeVars,
                 iters, used>>

RemoveMiss(k) ==
  /\ live /\ pc = "idle" /\ Hits(k) = {}
  /\ status' = "CDSA_ERR_NOT_FOUND"
  /\ UNCHANGED <<live, tableVars, pc, insertVars, resizeVars, removeVars,
                 iters, used>>

(* (mutant) deletion without the backward shift                            *)
ShiftableNever(i) == FALSE
Shiftable(i) == Occupied(i) /\ entries[i].psl > 0

(* (mutant) the psl of a shifted entry is not decremented                  *)
ShiftBackSamePsl ==
  LET next == NextSlot(curr) IN
  /\ pc = "shift" /\ Shiftable(next)
  /\ max_psl_affected' = (max_psl_affected \/ entries[next].psl = max_psl)
  /\ entries' = [entries EXCEPT ![curr] = entries[next]]
  /\ curr' = next
  /\ UNCHANGED <<live, capacity, size, max_psl, version, pc, insertVars,
                 resizeVars, iters, used, status>>

ShiftBack ==
  LET next == NextSlot(curr) IN
  /\ pc = "shift" /\ Shiftable(next)
  /\ max_psl_affected' = (max_psl_affected \/ entries[next].psl = max_psl)
  /\ entries' = [entries EXCEPT ![curr] =
                   [entries[next] EXCEPT !.psl = @ - 1]]
  /\ curr' = next
  /\ UNCHANGED <<live, capacity, size, max_psl, version, pc, insertVars,
                 resizeVars, iters, used, status>>

(* (mutant) the recalculation stops one slot early                         *)
PslsShort(t) ==
  {0} \cup {t[i].psl : i \in {j \in DOMAIN t : /\ j < capacity - 1
                                             /\ t[j].key # NoKey}}

(* recalculate_max_psl                                                     *)
Psls(t) == {0} \cup {t[i].psl : i \in {j \in DOMAIN t : t[j].key # NoKey}}
HighestPsls(t) == {p \in Psls(t) : \A q \in Psls(t) : q <= p}

ShiftEnd ==
  /\ pc = "shift" /\ ~Shiftable(NextSlot(curr))
  /\ entries' = [entries EXCEPT ![curr] = Blank]
  /\ IF max_psl_affected THEN max_psl' \in HighestPsls(entries')
                         ELSE max_psl' = max_psl
  /\ pc' = "idle" /\ curr' = 0 /\ max_psl_affected' = FALSE
  /\ UNCHANGED <<live, capacity, size, version, insertVars, resizeVars,
                 iters, used, status>>

-----------------------------------------------------------------------------
(* The iterators                                                           *)

NewIter(it) ==
  /\ live /\ pc = "idle" /\ ~iters[it].open
  /\ iters' = [iters EXCEPT ![it] =
                 [ClosedIter EXCEPT !.open = TRUE,
                                    !.snapshot_version = version,
                                    !.made_on = capacity]]
  /\ used' = used + 1 /\ status' = "CDSA_OK"
  /\ UNCHANGED <<live, tableVars, pc, insertVars, resizeVars, removeVars>>

Valid(it) == iters[it].open /\ iters[it].snapshot_version = version
Walking(it) == live /\ pc = "idle" /\ Valid(it)

(* The slot has_next leaves current_index at.                              *)
RestingPlaces(i) ==
  {j \in i .. capacity : /\ \A m \in i .. j - 1 : ~Occupied(m)
                         /\ j < capacity => Occupied(j)}
Rest(it) == RestingPlaces(iters[it].current_index)

HasNext(it) ==
  /\ Walking(it)
  /\ \E j \in Rest(it) : iters' = [iters EXCEPT ![it].current_index = j]
  /\ UNCHANGED <<live, tableVars, pc, insertVars, resizeVars, removeVars,
                 used, status>>

IterNext(it) ==
  /\ Walking(it)
  /\ \E j \in Rest(it) :
       /\ j < capacity
       /\ iters' = [iters EXCEPT ![it].current_index = j + 1,
                                 ![it].seen = Append(@, entries[j].key)]
  /\ status' = "CDSA_OK"
  /\ UNCHANGED <<live, tableVars, pc, insertVars, resizeVars, removeVars,
                 used>>

IterEnd(it) ==
  /\ Walking(it)
  /\ capacity \in Rest(it)
  /\ iters' = [iters EXCEPT ![it].current_index = capacity]
  /\ status' = "CDSA_ERR_NOT_FOUND"
  /\ UNCHANGED <<live, tableVars, pc, insertVars, resizeVars, removeVars,
                 used>>

IterInvalid(it) ==
  /\ live /\ pc = "idle" /\ iters[it].open /\ ~Valid(it)
  /\ status' = "CDSA_ERR_ITER_INVALIDATED"
  /\ UNCHANGED <<live, tableVars, pc, insertVars, resizeVars, removeVars,
                 iters, used>>

FreeIter(it) ==
  /\ pc = "idle" /\ iters[it].open
  /\ iters' = [iters EXCEPT ![it] = ClosedIter]
  /\ used' = used - 1 /\ status' = "CDSA_OK"
  /\ UNCHANGED <<live, tableVars, pc, insertVars, resizeVars, removeVars>>

-----------------------------------------------------------------------------
(* A call in progress runs on; between calls the client picks the next.    *)
Step ==
  \/ RehashSkip \/ RehashEntry \/ RehashDone
  \/ PlaceIncoming \/ OverwriteValue \/ RobinHoodSwap \/ ProbeOn
  \/ ShiftBack \/ ShiftEnd

MapCall ==
  \/ \E c \in InitCaps : Create(c)
  \/ CreateOOM \/ Free
  \/ \E k \in Keys, v \in Values : Insert(k, v) \/ InsertResize(k, v)
  \/ Resize \/ ResizeOOM
  \/ \E k \in Keys : RemoveFound(k) \/ RemoveMiss(k)

IterCall ==
  \E it \in Iters : \/ NewIter(it) \/ HasNext(it) \/ IterNext(it)
                    \/ IterEnd(it) \/ IterInvalid(it) \/ FreeIter(it)

Next == Step \/ MapCall \/ IterCall

(* A call that has begun returns: the caller's thread keeps running.       *)
Spec == Init /\ [][Next]_vars /\ WF_vars(Step)

-----------------------------------------------------------------------------
(* Properties.  While remove_hashmap shifts, the slot curr still holds an  *)
(* entry that is removed or already copied: it is the hole.                *)

Hole(i) == pc = "shift" /\ i = curr
Stored(i) == Occupied(i) /\ ~Hole(i)
StoredSlots == {i \in Slots : Stored(i)}

(* Every variable has the type of the C object it models, and the locals   *)
(* of the loop that runs are indices of the table it works on.             *)
TypeOK ==
  /\ live \in BOOLEAN /\ capacity \in Nat /\ size \in Int /\ max_psl \in Nat
  /\ version \in Nat /\ entries \in [Slots -> Entry]
  /\ pc \in {"idle", "place", "rehash", "replace", "shift"}
  /\ index \in Nat /\ incoming \in Entry /\ pend \in Entry
  /\ old_capacity \in Nat /\ scan \in 0 .. old_capacity
  /\ old_entries \in [0 .. old_capacity - 1 -> Entry]
  /\ curr \in Nat /\ max_psl_affected \in BOOLEAN
  /\ iters \in [Iters -> Iterator]
  /\ used \in Int /\ status \in Statuses
  /\ live => capacity > 0
  /\ pc # "idle" => live
  /\ Probing => index \in Slots /\ incoming.key \in Keys
  /\ pc = "shift" => curr \in Slots
  /\ ~Resizing => old_capacity = 0 /\ pend = Blank

(* Robin Hood bookkeeping: the psl stored in a slot is the distance of the *)
(* slot from the home of its key, wrap-around included, and the cached     *)
(* hash is the key's.  Shifts, swaps and rehashes all rewrite psl.         *)
AtDistance(e, i) ==
  /\ e.hash = Hash[e.key] /\ i = (e.hash + e.psl) % capacity
PslIsDistance ==
  /\ \A i \in Slots : Occupied(i) => AtDistance(entries[i], i)
  /\ Probing => AtDistance(incoming, index)
  /\ \A i \in 0 .. old_capacity - 1 : old_entries[i].key # NoKey =>
       old_entries[i].hash = Hash[old_entries[i].key]

(* The probe sequence of a stored key is unbroken up to its slot, and no   *)
(* entry on it is richer than the key was there: the reason a lookup may   *)
(* stop at the first empty slot and insertion never stores a key twice.    *)
Passable(j, d) == Hole(j) \/ (Occupied(j) /\ entries[j].psl >= d)
ProbeChain ==
  /\ \A i \in Slots : Stored(i) =>
       \A d \in 0 .. entries[i].psl :
         Passable((entries[i].hash + d) % capacity, d)
  /\ Probing => \A d \in 0 .. incoming.psl - 1 :
                  Passable((incoming.hash + d) % capacity, d)

(* A key is in at most one slot, and in at most one place during a resize: *)
(* new table, unscanned part of the old one, or the entry carried between; *)
(* the probe of an insertion never passes the slot of the key it carries.  *)
OldSlots == {i \in scan .. old_capacity - 1 : old_entries[i].key # NoKey}
IncomingNotPassed ==
  Probing => \A i \in StoredSlots :
               entries[i].key = incoming.key => entries[i].psl >= incoming.psl
UniqueKeys ==
  /\ \A i, j \in StoredSlots : entries[i].key = entries[j].key => i = j
  /\ \A i, j \in OldSlots : old_entries[i].key = old_entries[j].key => i = j
  /\ \A i \in OldSlots :
       /\ \A j \in StoredSlots : entries[j].key # old_entries[i].key
       /\ pc = "replace" => incoming.key # old_entries[i].key
  /\ IncomingNotPassed

(* size counts the stored entries and the table is at most three quarters  *)
(* full, so every probe loop meets an empty slot before a full turn.       *)
RoomToProbe ==
  /\ size = Cardinality(StoredSlots)
  /\ size * 4 <= capacity * 3
  /\ \A i \in StoredSlots : entries[i].psl < capacity
  /\ Probing => incoming.psl < capacity

(* Every cell allocated by create, resize and the iterators is owned by a  *)
(* live object: each table replaced by a resize was freed once.            *)
NoLeak ==
  used = (IF live THEN 1 + capacity ELSE 0) + old_capacity
         + Cardinality({it \in Iters : iters[it].open})

(* The contents of the map, also while a call is under way: the newest     *)
(* value of a key is in pend, then in incoming, then in the table.         *)
Home(k) == {i \in StoredSlots : entries[i].key = k}
OldHome(k) == {i \in OldSlots : old_entries[i].key = k}
Binding(k) ==
  IF pend.key = k THEN pend.value
  ELSE IF Probing /\ incoming.key = k THEN incoming.value
  ELSE IF Home(k) # {} THEN entries[CHOOSE i \in Home(k) : TRUE].value
  ELSE IF OldHome(k) # {} THEN old_entries[CHOOSE i \in OldHome(k) : TRUE].value
  ELSE NoValue
Contents == [k \in Keys |-> Binding(k)]

(* What get_hashmap returns between calls: the stored value, and NULL for  *)
(* a stored key only when its slot is further than max_psl from home.      *)
LookupExact ==
  live /\ pc = "idle" =>
    \A k \in Keys :
      \/ Get(k) = Contents[k]
      \/ Get(k) = NoValue /\ \E i \in Home(k) : entries[i].psl > max_psl

(* hashmap.c:21 and every Contains expectation of the tests: max_psl is    *)
(* the highest PSL in the map, so a stored key is found.                   *)
FindsStoredKeys ==
  live /\ pc = "idle" => \A k \in Keys : Get(k) = Contents[k]

(* A removal does not put a stored key beyond the reach of lookups: the    *)
(* decrements of the shift and the recalculation leave max_psl covering    *)
(* every entry it covered.                                                 *)
Covered == \A i \in StoredSlots : entries[i].psl <= max_psl
RemovalKeepsReach == [][pc = "shift" /\ Covered => Covered']_vars

(* An iterator whose version check passes walks the table it was created   *)
(* on, no resize between, and unless an insertion has written a slot since *)
(* it has yielded exactly the keys of the slots below its index, each      *)
(* once: neither a resize, that of an insertion included, nor a removal    *)
(* goes unnoticed.                                                         *)
Yielded(it) ==
  /\ {iters[it].seen[n] : n \in DOMAIN iters[it].seen}
       = {entries[i].key : i \in {j \in StoredSlots :
                                   j < iters[it].current_index}}
  /\ \A m, n \in DOMAIN iters[it].seen :
       iters[it].seen[m] = iters[it].seen[n] => m = n
IteratorExact ==
  \A it \in Iters : Walking(it) =>
    /\ iters[it].made_on = capacity
    /\ ~iters[it].touched => Yielded(it)

(* Every call returns: no probe, rehash or shift loop runs for ever.       *)
CallsReturn == pc # "idle" ~> pc = "idle"

(* The hash map implements the abstract map: a call changes at most one    *)
(* binding, when it begins, or all at teardown, and none of the steps of   *)
(* the probes, rehashes and shifts that follow changes any binding.        *)
KV == INSTANCE KVStore WITH kv <- Contents, busy <- pc # "idle"
ImplementsKVStore == KV!Spec
=============================================================================
