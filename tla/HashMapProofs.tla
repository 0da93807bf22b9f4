---------------------------- MODULE HashMapProofs ----------------------------
(***************************************************************************)
(* Proofs about HashMap for every set of keys, every hash function, every  *)
(* capacity and every number of iterators.  First its types and the        *)
(* distances of its entries; then the inductive invariant and what follows *)
(* from it: probe chains are unbroken, no key is stored twice, every probe *)
(* ends, a lookup answers what is stored, no cell is lost, and an iterator *)
(* whose version check passes has yielded exactly what lies below its      *)
(* index.                                                                  *)
(***************************************************************************)
EXTENDS HashMap, ModArith, FiniteSetTheorems, TLAPS

(* The next slot is a slot.                                                *)
LEMMA NextSlotInRange ==
  ASSUME TypeOK, NEW i \in Slots
  PROVE  NextSlot(i) \in Slots
  BY ModRange DEF TypeOK, Slots, NextSlot

(* A probe starts in the table with the entry it was given.                *)
LEMMA StartProbeType ==
  ASSUME TypeOK, capacity > 0, NEW k \in Keys, NEW v \in Values \cup {NoValue},
         NEW h \in Nat, StartProbe(k, v, h)
  PROVE  /\ index' \in Slots /\ index' \in Nat
         /\ incoming' \in Entry /\ incoming'.key = k
  BY ModRange DEF TypeOK, Slots, StartProbe, Entry

LEMMA BlankType == Blank \in Entry /\ \A c \in Nat : NewTable(c) \in [0 .. c - 1 -> Entry]
  BY DEF Blank, Entry, NewTable

LEMMA InitType == Init => TypeOK
<1> SUFFICES ASSUME Init PROVE TypeOK
  OBVIOUS
<1>1. incoming \in Entry /\ pend \in Entry
  BY BlankType DEF Init
<1>2. entries \in [Slots -> Entry] /\ old_entries \in [0 .. old_capacity - 1 -> Entry]
  BY BlankType DEF Init, Slots
<1>3. iters \in [Iters -> Iterator]
  BY DEF Init, ClosedIter, Iterator
<1>4. ~Probing /\ ~Resizing
  BY DEF Init, Probing, Resizing
<1>5. /\ scan \in 0 .. old_capacity /\ old_capacity \in Nat /\ curr \in Nat
      /\ index \in Nat /\ capacity \in Nat /\ size \in Int /\ max_psl \in Nat
      /\ version \in Nat /\ used \in Int
  BY DEF Init
<1>6. live \in BOOLEAN /\ max_psl_affected \in BOOLEAN /\ ~live
  BY DEF Init
<1>7. status \in Statuses /\ pc = "idle" /\ pend = Blank /\ old_capacity = 0
  BY DEF Init, Statuses
<1> QED
  BY <1>1, <1>2, <1>3, <1>4, <1>5, <1>6, <1>7 DEF TypeOK

LEMMA TouchType == ASSUME TypeOK, Touch PROVE iters' \in [Iters -> Iterator]
  BY DEF TypeOK, Touch, Iterator

LEMMA StartResizeType ==
  ASSUME TypeOK, StartResize, live
  PROVE  /\ capacity' \in Nat /\ capacity' > 0 /\ entries' \in [0 .. capacity' - 1 -> Entry]
         /\ old_capacity' \in Nat /\ scan' \in 0 .. old_capacity'
         /\ old_entries' \in [0 .. old_capacity' - 1 -> Entry]
         /\ size' \in Int /\ used' \in Int /\ pc' = "rehash"
<1>1. /\ capacity \in Nat /\ capacity > 0 /\ used \in Int
      /\ entries \in [0 .. capacity - 1 -> Entry]
  BY DEF TypeOK, Slots
<1>2. capacity * 2 \in Nat /\ capacity * 2 > 0 /\ used + capacity * 2 \in Int
  BY <1>1
<1>3. NewTable(capacity * 2) \in [0 .. capacity * 2 - 1 -> Entry]
  BY <1>2, BlankType
<1> QED
  BY <1>1, <1>2, <1>3 DEF StartResize

LEMMA StepType == ASSUME TypeOK, Step PROVE TypeOK'
<1> USE HashMapAssumption
<1>1. CASE RehashSkip
  BY <1>1 DEF RehashSkip, TypeOK, Slots, Probing, Resizing, tableVars, removeVars, insertVars
<1>2. CASE RehashEntry
  <2>1. /\ old_entries[scan] \in Entry /\ old_entries[scan].key \in Keys
        /\ old_entries[scan].value \in Values \cup {NoValue}
        /\ old_entries[scan].hash \in Nat /\ capacity > 0
    BY <1>2 DEF RehashEntry, TypeOK, Entry
  <2>2. /\ index' \in Slots /\ index' \in Nat
        /\ incoming' \in Entry /\ incoming'.key \in Keys
    BY <1>2, <2>1, StartProbeType DEF RehashEntry
  <2> QED
    BY <1>2, <2>2 DEF RehashEntry, TypeOK, Slots, Probing, Resizing, tableVars, removeVars
<1>3. CASE RehashDone
  <2>1. /\ old_entries' \in [0 .. old_capacity' - 1 -> Entry] /\ pend' \in Entry
        /\ old_capacity' \in Nat /\ scan' \in 0 .. old_capacity'
    BY <1>3, BlankType DEF RehashDone
  <2>2. CASE pend.key = NoKey
    BY <1>3, <2>1, <2>2 DEF RehashDone, TypeOK, Slots, Probing, Resizing, removeVars, insertVars
  <2>3. CASE pend.key # NoKey
    <3>1. /\ pend.key \in Keys /\ pend.value \in Values \cup {NoValue}
          /\ Hash[pend.key] \in Nat /\ capacity > 0
      BY <1>3, <2>3 DEF RehashDone, TypeOK, Entry
    <3>2. /\ index' \in Slots /\ index' \in Nat
          /\ incoming' \in Entry /\ incoming'.key \in Keys
      BY <1>3, <2>3, <3>1, StartProbeType DEF RehashDone
    <3> QED
      BY <1>3, <2>1, <2>3, <3>2 DEF RehashDone, TypeOK, Slots, Probing, Resizing, removeVars
  <2> QED
    BY <2>2, <2>3
<1>4. CASE PlaceIncoming
  <2>1. iters' \in [Iters -> Iterator]
    BY <1>4, TouchType DEF PlaceIncoming
  <2>2. entries' \in [Slots -> Entry]
    BY <1>4 DEF PlaceIncoming, TypeOK
  <2>3. max_psl' \in Nat
    BY <1>4 DEF PlaceIncoming, RaisedMaxPsl, TypeOK, Entry
  <2>4. incoming' \in Entry
    BY <1>4, BlankType DEF PlaceIncoming, EndProbe
  <2>5. pc' \in {"idle", "rehash"} /\ (pc' = "rehash" <=> pc = "replace")
    BY <1>4 DEF PlaceIncoming, EndProbe, Probing
  <2> QED
    BY <1>4, <2>1, <2>2, <2>3, <2>4, <2>5
    DEF PlaceIncoming, EndProbe, TypeOK, Slots, Probing, Resizing, resizeVars, removeVars
<1>5. CASE OverwriteValue
  <2>2. entries' \in [Slots -> Entry]
    BY <1>5 DEF OverwriteValue, TypeOK, Entry
  <2>4. incoming' \in Entry
    BY <1>5, BlankType DEF OverwriteValue, EndProbe
  <2>5. pc' \in {"idle", "rehash"} /\ (pc' = "rehash" <=> pc = "replace")
    BY <1>5 DEF OverwriteValue, EndProbe, Probing
  <2> QED
    BY <1>5, <2>2, <2>4, <2>5
    DEF OverwriteValue, EndProbe, TypeOK, Slots, Probing, Resizing, resizeVars, removeVars
<1>6. CASE RobinHoodSwap
  <2>1. iters' \in [Iters -> Iterator]
    BY <1>6, TouchType DEF RobinHoodSwap
  <2>2. entries' \in [Slots -> Entry] /\ index \in Slots /\ entries[index] \in Entry
    BY <1>6 DEF RobinHoodSwap, TypeOK
  <2>3. incoming' \in Entry /\ incoming'.key \in Keys
    BY <1>6, <2>2 DEF RobinHoodSwap, Occupied, Entry
  <2>4. index' \in Slots
    BY <1>6, <2>2, NextSlotInRange DEF RobinHoodSwap
  <2>5. index' \in Nat
    BY <2>4 DEF Slots, TypeOK
  <2> QED
    BY <1>6, <2>1, <2>2, <2>3, <2>4, <2>5
    DEF RobinHoodSwap, TypeOK, Slots, Probing, Resizing, resizeVars, removeVars
<1>7. CASE ProbeOn
  <2>0. incoming \in Entry /\ incoming.key \in Keys
    BY <1>7 DEF ProbeOn, TypeOK
  <2>1. incoming.psl + 1 \in Nat
    BY <2>0 DEF Entry
  <2>2. incoming' = [incoming EXCEPT !.psl = incoming.psl + 1]
    BY <1>7 DEF ProbeOn
  <2>3. incoming' \in Entry /\ incoming'.key \in Keys
    BY <2>0, <2>1, <2>2 DEF Entry
  <2>4. index' \in Slots
    BY <1>7, NextSlotInRange DEF ProbeOn, TypeOK
  <2>5. index' \in Nat
    BY <2>4 DEF Slots, TypeOK
  <2> QED
    BY <1>7, <2>3, <2>4, <2>5
    DEF ProbeOn, TypeOK, Slots, Probing, Resizing, resizeVars, removeVars, tableVars
<1>8. CASE ShiftBack
  <2> DEFINE next == NextSlot(curr)
  <2>1. curr \in Slots /\ next \in Slots
    BY <1>8, NextSlotInRange DEF ShiftBack, TypeOK
  <2>2. entries[next] \in Entry /\ entries[next].psl > 0
    BY <1>8, <2>1 DEF ShiftBack, Shiftable, TypeOK
  <2>3. [entries[next] EXCEPT !.psl = @ - 1] \in Entry
    BY <2>2 DEF Entry
  <2>4. entries' \in [Slots -> Entry]
    BY <1>8, <2>1, <2>3 DEF ShiftBack, TypeOK
  <2>5. curr' \in Slots /\ curr' \in Nat /\ max_psl_affected' \in BOOLEAN
    BY <1>8, <2>1 DEF ShiftBack, Slots, TypeOK
  <2> HIDE DEF next
  <2> QED
    BY <1>8, <2>4, <2>5
    DEF ShiftBack, TypeOK, Slots, Probing, Resizing, resizeVars, insertVars
<1>9. CASE ShiftEnd
  <2>1. entries' \in [Slots -> Entry]
    BY <1>9, BlankType DEF ShiftEnd, TypeOK
  <2>2. HighestPsls(entries') \subseteq Nat
    BY <2>1 DEF HighestPsls, Psls, Entry
  <2>3. max_psl' \in Nat
    BY <1>9, <2>2 DEF ShiftEnd, TypeOK
  <2> QED
    BY <1>9, <2>1, <2>3
    DEF ShiftEnd, TypeOK, Slots, Probing, Resizing, resizeVars, insertVars
<1> QED
  BY <1>1, <1>2, <1>3, <1>4, <1>5, <1>6, <1>7, <1>8, <1>9 DEF Step

LEMMA MapCallType == ASSUME TypeOK, MapCall PROVE TypeOK'
<1> USE HashMapAssumption
<1>1. ASSUME NEW c \in InitCaps, Create(c) PROVE TypeOK'
  <2> DEFINE cap == IF c = 0 THEN 1 ELSE c
  <2>1. cap \in Nat /\ cap > 0
    OBVIOUS
  <2>2. NewTable(cap) \in [0 .. cap - 1 -> Entry]
    BY <2>1, BlankType
  <2>3. /\ live' /\ capacity' = cap /\ entries' \in [Slots' -> Entry]
        /\ size' = 0 /\ max_psl' = 0 /\ version' = 0
        /\ used' \in Int /\ status' \in Statuses
    BY <1>1, <2>1, <2>2 DEF Create, Slots, TypeOK, Statuses
  <2>4. ~Probing /\ ~Resizing /\ pc = "idle"
    BY <1>1 DEF Create, TypeOK, Probing, Resizing
  <2> HIDE DEF cap
  <2> QED
    BY <1>1, <2>1, <2>3, <2>4
    DEF Create, TypeOK, Probing, Resizing, insertVars, resizeVars, removeVars
<1>2. CASE CreateOOM \/ ResizeOOM \/ \E k \in Keys : RemoveMiss(k)
  <2>1. /\ status' \in Statuses
        /\ UNCHANGED <<live, tableVars, pc, insertVars, resizeVars, removeVars,
                       iters, used>>
    BY <1>2 DEF CreateOOM, ResizeOOM, RemoveMiss, Statuses
  <2> QED
    BY <2>1 DEF TypeOK, Slots, Probing, Resizing, tableVars, insertVars,
       resizeVars, removeVars
<1>3. CASE Free
  <2>1. entries' \in [Slots' -> Entry]
    BY <1>3, BlankType DEF Free, Slots
  <2>2. used' \in Int
    BY <1>3 DEF Free, TypeOK
  <2>3. /\ capacity' \in Nat /\ size' \in Int /\ max_psl' \in Nat
        /\ version' \in Nat /\ status' \in Statuses
    BY <1>3 DEF Free, Statuses
  <2>5. live' = FALSE
    BY <1>3 DEF Free
  <2>4. pc = "idle" /\ pc' = "idle" /\ iters' = iters
        /\ UNCHANGED <<insertVars, resizeVars, removeVars>>
    BY <1>3 DEF Free
  <2> QED
    BY <2>1, <2>2, <2>3, <2>4, <2>5
    DEF TypeOK, Probing, Resizing, insertVars, resizeVars, removeVars
<1>4. ASSUME NEW k \in Keys, NEW v \in Values, Insert(k, v) PROVE TypeOK'
  <2>1. Hash[k] \in Nat /\ capacity > 0
    BY <1>4 DEF Insert, TypeOK
  <2>2. /\ index' \in Slots /\ index' \in Nat
        /\ incoming' \in Entry /\ incoming'.key \in Keys
    BY <1>4, <2>1, StartProbeType DEF Insert
  <2> QED
    BY <1>4, <2>2
    DEF Insert, TypeOK, Statuses, Slots, Probing, Resizing, tableVars, resizeVars, removeVars
<1>5. ASSUME NEW k \in Keys, NEW v \in Values, InsertResize(k, v) PROVE TypeOK'
  <2>1. pend' \in Entry
    BY <1>5 DEF InsertResize, Blank, Entry
  <2> QED
    BY <1>5, <2>1, StartResizeType
    DEF InsertResize, TypeOK, Statuses, Slots, Probing, Resizing, insertVars, removeVars
<1>6. CASE Resize
  BY <1>6, StartResizeType
  DEF Resize, TypeOK, Statuses, Slots, Probing, Resizing, insertVars, removeVars
<1>7. ASSUME NEW k \in Keys, RemoveFound(k) PROVE TypeOK'
  <2>1. PICK d \in FirstHits(k) :
          /\ curr' = Slot(k, d)
          /\ max_psl_affected' = (entries[Slot(k, d)].psl = max_psl)
    BY <1>7 DEF RemoveFound
  <2>2. Hash[k] + d \in Nat /\ capacity \in Nat /\ capacity > 0
    BY <1>7 DEF RemoveFound, FirstHits, Hits, TypeOK
  <2>3. curr' \in Slots /\ curr' \in Nat
    BY <2>1, <2>2, ModRange DEF Slots, Slot
  <2>4. max_psl_affected' \in BOOLEAN
    BY <2>1
  <2>5. size' \in Int /\ version' \in Nat
    BY <1>7 DEF RemoveFound, TypeOK
  <2> QED
    BY <1>7, <2>3, <2>4, <2>5
    DEF RemoveFound, TypeOK, Statuses, Slots, Probing, Resizing, insertVars, resizeVars
<1> QED
  BY <1>1, <1>2, <1>3, <1>4, <1>5, <1>6, <1>7 DEF MapCall

LEMMA IterCallType == ASSUME TypeOK, IterCall PROVE TypeOK'
<1>1. PICK it \in Iters : \/ NewIter(it) \/ HasNext(it) \/ IterNext(it)
                         \/ IterEnd(it) \/ IterInvalid(it) \/ FreeIter(it)
  BY DEF IterCall
<1>2. iters[it] \in Iterator /\ iters \in [Iters -> Iterator]
  BY DEF TypeOK
<1>3. ClosedIter \in Iterator
  BY DEF ClosedIter, Iterator
<1>4. \A j \in Rest(it) : j \in Nat
  BY <1>2 DEF Rest, RestingPlaces, Iterator, TypeOK
<1>5. iters' \in [Iters -> Iterator]
  <2>1. CASE NewIter(it)
    <3>1. [ClosedIter EXCEPT !.open = TRUE, !.snapshot_version = version,
                             !.made_on = capacity] \in Iterator
      BY <1>3 DEF Iterator, TypeOK
    <3> QED
      BY <1>2, <2>1, <3>1 DEF NewIter
  <2>2. CASE HasNext(it)
    BY <1>2, <1>4, <2>2 DEF HasNext, Iterator
  <2>3. CASE IterNext(it)
    <3>1. PICK j \in Rest(it) :
            /\ j < capacity
            /\ iters' = [iters EXCEPT ![it].current_index = j + 1,
                                      ![it].seen = Append(@, entries[j].key)]
      BY <2>3 DEF IterNext
    <3>a. j \in Nat /\ capacity \in Nat /\ j \in Slots
      BY <1>4, <3>1 DEF Slots, TypeOK
    <3>b. Occupied(j)
      BY <3>1 DEF Rest, RestingPlaces
    <3>2. j \in Slots /\ entries[j].key \in Keys
      BY <3>a, <3>b DEF Occupied, TypeOK, Entry
    <3>3. Append(iters[it].seen, entries[j].key) \in Seq(Keys) /\ j + 1 \in Nat
      BY <1>2, <1>4, <3>2 DEF Iterator
    <3> QED
      BY <1>2, <3>1, <3>3 DEF Iterator
  <2>4. CASE IterEnd(it)
    BY <1>2, <2>4 DEF IterEnd, Iterator, TypeOK
  <2>5. CASE IterInvalid(it)
    BY <1>2, <2>5 DEF IterInvalid
  <2>6. CASE FreeIter(it)
    BY <1>2, <1>3, <2>6 DEF FreeIter
  <2> QED
    BY <1>1, <2>1, <2>2, <2>3, <2>4, <2>5, <2>6
<1>6. used' \in Int /\ status' \in Statuses
  BY <1>1 DEF NewIter, HasNext, IterNext, IterEnd, IterInvalid, FreeIter, TypeOK, Statuses
<1>7. UNCHANGED <<live, tableVars, pc, insertVars, resizeVars, removeVars>>
  BY <1>1 DEF NewIter, HasNext, IterNext, IterEnd, IterInvalid, FreeIter
<1> QED
  BY <1>5, <1>6, <1>7
  DEF TypeOK, Slots, Probing, Resizing, tableVars, insertVars, resizeVars, removeVars

LEMMA NextType == ASSUME TypeOK, [Next]_vars PROVE TypeOK'
<1>1. CASE UNCHANGED vars
  BY <1>1 DEF vars, TypeOK, Slots, Probing, Resizing, tableVars, insertVars,
     resizeVars, removeVars
<1> QED
  BY <1>1, StepType, MapCallType, IterCallType DEF Next

(* Every variable keeps the type of the C object it models, and the        *)
(* indices of the running loop stay inside the table it works on.          *)
THEOREM TypeCorrect == Spec => []TypeOK
  BY InitType, NextType, PTL DEF Spec

-----------------------------------------------------------------------------
(* PslIsDistance.  One step along the table in either direction keeps an   *)
(* entry at the distance its psl records.                                  *)
LEMMA AtDistanceNext ==
  ASSUME TypeOK, NEW e \in Entry, NEW i \in Slots, e.key \in Keys, AtDistance(e, i)
  PROVE  AtDistance([e EXCEPT !.psl = @ + 1], NextSlot(i))
<1>a. e.hash \in Nat /\ e.psl \in Nat
  BY DEF Entry
<1>b. capacity \in Nat /\ capacity > 0
  BY DEF TypeOK, Slots
<1>1. e.hash + e.psl \in Nat /\ capacity \in Nat /\ capacity > 0
  BY <1>a, <1>b
<1>2. ((e.hash + e.psl) + 1) % capacity = (((e.hash + e.psl) % capacity) + 1) % capacity
  BY <1>1, ModSucc
<1>3. (e.hash + e.psl) + 1 = e.hash + (e.psl + 1)
  BY DEF Entry
<1> QED
  BY <1>2, <1>3 DEF AtDistance, NextSlot, Entry

LEMMA AtDistancePrev ==
  ASSUME TypeOK, NEW e \in Entry, NEW i \in Slots, e.key \in Keys,
         AtDistance(e, NextSlot(i)), e.psl > 0
  PROVE  AtDistance([e EXCEPT !.psl = @ - 1], i)
<1>a. e.hash \in Nat /\ e.psl \in Nat
  BY DEF Entry
<1>b. capacity \in Nat /\ capacity > 0
  BY DEF TypeOK, Slots
<1>1. e.hash + e.psl \in Nat /\ e.hash + e.psl > 0 /\ capacity \in Nat /\ capacity > 0
  BY <1>a, <1>b
<1>2. ((e.hash + e.psl) - 1) % capacity = i
  BY <1>1, ModPred DEF AtDistance, NextSlot, Slots
<1>3. (e.hash + e.psl) - 1 = e.hash + (e.psl - 1)
  BY DEF Entry
<1> QED
  BY <1>2, <1>3 DEF AtDistance, Entry

(* An entry that starts to probe is at distance 0 from its home.           *)
LEMMA StartProbeDistance ==
  ASSUME TypeOK, NEW k \in Keys, NEW v, NEW h, h = Hash[k], StartProbe(k, v, h),
         capacity' = capacity
  PROVE  AtDistance(incoming', index')
<1>1. h \in Nat /\ h + 0 = h
  BY HashMapAssumption
<1> QED
  BY <1>1 DEF StartProbe, AtDistance

LEMMA StepDistance ==
  ASSUME TypeOK, TypeOK', PslIsDistance, Step
  PROVE  PslIsDistance'
<1> USE HashMapAssumption
<1>1. CASE RehashSkip
  BY <1>1 DEF RehashSkip, PslIsDistance, AtDistance, Slots, Occupied, Probing, tableVars
<1>2. CASE RehashEntry
  <2>1. old_entries[scan].key \in Keys /\ old_entries[scan].hash = Hash[old_entries[scan].key]
    BY <1>2 DEF RehashEntry, TypeOK, Entry, PslIsDistance
  <2>2. AtDistance(incoming', index')
    BY <1>2, <2>1, StartProbeDistance DEF RehashEntry, tableVars
  <2> QED
    BY <1>2, <2>2 DEF RehashEntry, PslIsDistance, AtDistance, Slots, Occupied, Probing, tableVars
<1>3. CASE RehashDone
  <2>1. Probing' => AtDistance(incoming', index')
    <3>1. SUFFICES ASSUME pend.key # NoKey PROVE AtDistance(incoming', index')
      BY <1>3 DEF RehashDone, Probing
    <3>2. pend.key \in Keys
      BY <3>1 DEF TypeOK, Entry
    <3> QED
      BY <1>3, <3>1, <3>2, StartProbeDistance DEF RehashDone
  <2>2. \A i \in 0 .. old_capacity' - 1 : FALSE
    BY <1>3 DEF RehashDone
  <2> QED
    BY <1>3, <2>1, <2>2 DEF RehashDone, PslIsDistance, AtDistance, Slots, Occupied
<1>4. CASE PlaceIncoming
  <2>1. ~Probing'
    BY <1>4 DEF PlaceIncoming, EndProbe, Probing
  <2>2. ASSUME NEW i \in Slots, Occupied(i)' PROVE AtDistance(entries'[i], i)
    BY <1>4, <2>2 DEF PlaceIncoming, PslIsDistance, AtDistance, Occupied, TypeOK
  <2> QED
    BY <1>4, <2>1, <2>2 DEF PlaceIncoming, PslIsDistance, AtDistance, Slots, resizeVars
<1>5. CASE OverwriteValue
  <2>1. ~Probing'
    BY <1>5 DEF OverwriteValue, EndProbe, Probing
  <2>2. ASSUME NEW i \in Slots, Occupied(i)' PROVE AtDistance(entries'[i], i)
    <3>1. /\ entries'[i].key = entries[i].key /\ entries'[i].hash = entries[i].hash
          /\ entries'[i].psl = entries[i].psl
      BY <1>5 DEF OverwriteValue, TypeOK, Entry
    <3> QED
      BY <1>5, <2>2, <3>1 DEF OverwriteValue, PslIsDistance, AtDistance, Occupied
  <2> QED
    BY <1>5, <2>1, <2>2 DEF OverwriteValue, PslIsDistance, AtDistance, Slots, resizeVars
<1>6. CASE RobinHoodSwap
  <2>1. /\ index \in Slots /\ entries[index] \in Entry /\ entries[index].key \in Keys
        /\ AtDistance(entries[index], index)
    BY <1>6 DEF RobinHoodSwap, TypeOK, Occupied, Entry, PslIsDistance
  <2>2. AtDistance(incoming', index')
    BY <1>6, <2>1, AtDistanceNext DEF RobinHoodSwap
  <2>3. ASSUME NEW i \in Slots, Occupied(i)' PROVE AtDistance(entries'[i], i)
    BY <1>6, <2>3 DEF RobinHoodSwap, PslIsDistance, AtDistance, Occupied, TypeOK
  <2> QED
    BY <1>6, <2>2, <2>3 DEF RobinHoodSwap, PslIsDistance, AtDistance, Slots, resizeVars
<1>7. CASE ProbeOn
  <2>1. /\ index \in Slots /\ incoming \in Entry /\ incoming.key \in Keys
        /\ AtDistance(incoming, index)
    BY <1>7 DEF ProbeOn, TypeOK, PslIsDistance
  <2>2. AtDistance(incoming', index')
    BY <1>7, <2>1, AtDistanceNext DEF ProbeOn
  <2> QED
    BY <1>7, <2>2
    DEF ProbeOn, PslIsDistance, AtDistance, Slots, Occupied, tableVars, resizeVars
<1>8. CASE ShiftBack
  <2> DEFINE next == NextSlot(curr)
  <2>1. curr \in Slots /\ next \in Slots
    BY <1>8, NextSlotInRange DEF ShiftBack, TypeOK
  <2>2. /\ entries[next] \in Entry /\ entries[next].psl > 0
        /\ entries[next].key \in Keys /\ AtDistance(entries[next], next)
    BY <1>8, <2>1 DEF ShiftBack, Shiftable, Occupied, TypeOK, Entry, PslIsDistance
  <2>3. AtDistance([entries[next] EXCEPT !.psl = @ - 1], curr)
    BY <2>1, <2>2, AtDistancePrev
  <2>4. entries' = [entries EXCEPT ![curr] = [entries[next] EXCEPT !.psl = @ - 1]]
    BY <1>8 DEF ShiftBack
  <2> HIDE DEF next
  <2>5. ASSUME NEW i \in Slots, Occupied(i)' PROVE AtDistance(entries'[i], i)
    BY <2>1, <2>3, <2>4, <2>5 DEF PslIsDistance, Occupied, TypeOK
  <2> QED
    BY <1>8, <2>5 DEF ShiftBack, PslIsDistance, AtDistance, Slots, Probing, resizeVars, insertVars
<1>9. CASE ShiftEnd
  <2>1. ASSUME NEW i \in Slots, Occupied(i)' PROVE AtDistance(entries'[i], i)
    BY <1>9, <2>1 DEF ShiftEnd, PslIsDistance, Occupied, TypeOK, Blank
  <2> QED
    BY <1>9, <2>1 DEF ShiftEnd, PslIsDistance, AtDistance, Slots, Probing, resizeVars, insertVars
<1> QED
  BY <1>1, <1>2, <1>3, <1>4, <1>5, <1>6, <1>7, <1>8, <1>9 DEF Step

LEMMA CallDistance ==
  ASSUME TypeOK, TypeOK', PslIsDistance, MapCall \/ IterCall
  PROVE  PslIsDistance'
<1> USE HashMapAssumption
<1>1. ASSUME NEW c \in InitCaps, Create(c) PROVE PslIsDistance'
  BY <1>1 DEF Create, PslIsDistance, AtDistance, Slots, Occupied, NewTable, Blank,
     TypeOK, Probing, resizeVars, insertVars
<1>2. CASE UNCHANGED <<tableVars, pc, insertVars, resizeVars>>
  BY <1>2 DEF PslIsDistance, AtDistance, Slots, Occupied, Probing, tableVars,
     insertVars, resizeVars
<1>3. CASE Free
  BY <1>3 DEF Free, PslIsDistance, AtDistance, Slots, Occupied, NewTable, Blank,
     TypeOK, Probing, resizeVars, insertVars
<1>4. ASSUME NEW k \in Keys, NEW v \in Values, Insert(k, v) PROVE PslIsDistance'
  <2>1. AtDistance(incoming', index')
    BY <1>4, StartProbeDistance DEF Insert, tableVars
  <2> QED
    BY <1>4, <2>1 DEF Insert, PslIsDistance, AtDistance, Slots, Occupied, tableVars, resizeVars
<1>5. ASSUME StartResize, UNCHANGED insertVars, live, pc = "idle" PROVE PslIsDistance'
  <2>1. ~Probing'
    BY <1>5 DEF StartResize, Probing
  <2>2. \A i \in Slots' : ~Occupied(i)'
    BY <1>5, StartResizeType DEF StartResize, Slots, Occupied, NewTable, Blank
  <2>3. old_entries' = entries /\ old_capacity' = capacity
    BY <1>5 DEF StartResize
  <2>4. \A i \in 0 .. old_capacity' - 1 : old_entries'[i].key # NoKey =>
          old_entries'[i].hash = Hash[old_entries'[i].key]
    BY <2>3 DEF PslIsDistance, AtDistance, Occupied, Slots
  <2> QED
    BY <2>1, <2>2, <2>4 DEF PslIsDistance
<1>6. ASSUME NEW k \in Keys, RemoveFound(k) PROVE PslIsDistance'
  BY <1>6 DEF RemoveFound, PslIsDistance, AtDistance, Slots, Occupied, Probing,
     insertVars, resizeVars
<1>7. CASE IterCall
  BY <1>2, <1>7 DEF IterCall, NewIter, HasNext, IterNext, IterEnd, IterInvalid, FreeIter
<1>8. CASE MapCall
  BY <1>1, <1>2, <1>3, <1>4, <1>5, <1>6, <1>8
  DEF MapCall, InsertResize, Resize, CreateOOM, ResizeOOM, RemoveMiss
<1> QED
  BY <1>7, <1>8

LEMMA InitDistance == Init => PslIsDistance
  BY DEF Init, PslIsDistance, Slots, Probing

(* In every reachable state each entry's psl is its true distance from the *)
(* home of its key, wrap-around included, for the entry in flight as well. *)
THEOREM DistanceCorrect == Spec => []PslIsDistance
<1> DEFINE Inv == TypeOK /\ PslIsDistance
<1>1. Init => Inv
  BY InitType, InitDistance
<1>2. Inv /\ [Next]_vars => Inv'
  <2> SUFFICES ASSUME TypeOK, PslIsDistance, [Next]_vars PROVE Inv'
    OBVIOUS
  <2>1. TypeOK'
    BY NextType
  <2>2. CASE UNCHANGED vars
    BY <2>1, <2>2 DEF vars, PslIsDistance, AtDistance, Slots, Occupied, Probing,
       tableVars, insertVars, resizeVars
  <2> QED
    BY <2>1, <2>2, StepDistance, CallDistance DEF Next
<1> QED
  BY <1>1, <1>2, PTL DEF Spec

-----------------------------------------------------------------------------
(* The inductive invariant                                                 *)

(* No psl reaches a full turn, the one left in the hole included, and      *)
(* neither does the lookup's probe limit.                                  *)
PslsInTable ==
  /\ \A i \in Slots : Occupied(i) => entries[i].psl < capacity
  /\ live => max_psl < capacity

(* There is room for the entry about to be placed; while a table is        *)
(* rehashed, what it held fits three quarters of the old table.            *)
Carried == IF pc = "replace" THEN 1 ELSE 0
LoadBound ==
  /\ pc = "place" => (size + 1) * 4 <= capacity * 3
  /\ Resizing =>
       /\ capacity = 2 * old_capacity /\ old_capacity > 0
       /\ (size + Cardinality(OldSlots) + Carried) * 4 <= old_capacity * 3

HInv == /\ TypeOK /\ PslIsDistance /\ ProbeChain /\ UniqueKeys /\ RoomToProbe
        /\ PslsInTable /\ LoadBound

-----------------------------------------------------------------------------
(* Facts about slots that hold for any table.                              *)

(* Every slot lies on the probe sequence of any home.                      *)
LEMMA ModOnto ==
  ASSUME NEW c \in Nat, c > 0, NEW h \in Nat, NEW i \in 0 .. c - 1
  PROVE  \E d \in 0 .. c - 1 : (h + d) % c = i
<1> DEFINE r == h % c
<1>1. r \in 0 .. c - 1
  BY ModRange
<1>2. \A d \in Nat : (h + d) % c = (r + d) % c
  BY ModAdd
<1> HIDE DEF r
<1>3. CASE r <= i
  <2>1. i - r \in 0 .. c - 1 /\ r + (i - r) = i
    BY <1>1, <1>3
  <2>2. (h + (i - r)) % c = i % c
    BY <1>2, <2>1
  <2>3. i % c = i
    BY ModSmall
  <2> QED
    BY <2>1, <2>2, <2>3
<1>4. CASE i < r
  <2> DEFINE d == (i + c) - r
  <2>1. d \in 0 .. c - 1 /\ d \in Nat /\ r + d = i + c
    BY <1>1, <1>4
  <2> HIDE DEF d
  <2>2. (h + d) % c = (i + c) % c
    BY <1>2, <2>1
  <2>3. (i + c) % c = i % c /\ i % c = i
    BY ModTurn, ModSmall
  <2> QED
    BY <2>1, <2>2, <2>3
<1> QED
  BY <1>1, <1>3, <1>4

(* A probe that has met only filled slots of a table at most three         *)
(* quarters full has not made a full turn.                                 *)
LEMMA NoFullTurn ==
  ASSUME NEW c \in Nat, c > 0, NEW T \in SUBSET (0 .. c - 1),
         Cardinality(T) * 4 <= c * 3,
         NEW h \in Nat, NEW p \in Nat, \A d \in 0 .. p - 1 : (h + d) % c \in T
  PROVE  p < c
<1>1. SUFFICES ASSUME c <= p PROVE FALSE
  OBVIOUS
<1>2. \A i \in 0 .. c - 1 : i \in T
  <2> SUFFICES ASSUME NEW i \in 0 .. c - 1 PROVE i \in T
    OBVIOUS
  <2>1. PICK d \in 0 .. c - 1 : (h + d) % c = i
    BY ModOnto
  <2>2. d \in 0 .. p - 1
    BY <1>1
  <2> QED
    BY <2>1, <2>2
<1>3. T = 0 .. c - 1
  BY <1>2
<1>4. Cardinality(T) = c
  BY <1>3, FS_Interval
<1> QED
  BY <1>4

(* The stored slots and the old slots are finite sets.                     *)
LEMMA SlotsFinite ==
  ASSUME TypeOK
  PROVE  /\ IsFiniteSet(StoredSlots) /\ Cardinality(StoredSlots) \in Nat
         /\ IsFiniteSet(OldSlots) /\ Cardinality(OldSlots) \in Nat
<1>1. IsFiniteSet(0 .. capacity - 1)
  BY FS_Interval DEF TypeOK
<1>2. scan \in Int /\ old_capacity \in Int
  BY DEF TypeOK
<1>3. IsFiniteSet(scan .. old_capacity - 1)
  BY <1>2, FS_Interval
<1>4. StoredSlots \in SUBSET (0 .. capacity - 1) /\ OldSlots \in SUBSET (scan .. old_capacity - 1)
  BY DEF StoredSlots, OldSlots, Slots
<1> QED
  BY <1>1, <1>3, <1>4, FS_Subset, FS_CardinalityType

(* A slot on a probe sequence is a slot.                                   *)
LEMMA ProbeSlot ==
  ASSUME TypeOK, capacity > 0, NEW h \in Nat, NEW d \in Nat
  PROVE  (h + d) % capacity \in Slots
  BY ModRange DEF TypeOK, Slots

(* What a stored entry looks like.                                         *)
LEMMA StoredEntry ==
  ASSUME HInv, NEW i \in Slots, Occupied(i)
  PROVE  /\ entries[i] \in Entry /\ entries[i].key \in Keys
         /\ entries[i].hash \in Nat /\ entries[i].psl \in Nat
         /\ entries[i].hash = Hash[entries[i].key]
         /\ i = (entries[i].hash + entries[i].psl) % capacity
         /\ entries[i].psl < capacity
  BY DEF HInv, TypeOK, PslIsDistance, AtDistance, PslsInTable, Occupied, Entry

(* What the entry in flight looks like.                                    *)
LEMMA IncomingEntry ==
  ASSUME HInv, Probing
  PROVE  /\ incoming \in Entry /\ incoming.key \in Keys
         /\ incoming.hash \in Nat /\ incoming.psl \in Nat
         /\ incoming.hash = Hash[incoming.key]
         /\ index \in Slots /\ capacity \in Nat /\ capacity > 0
         /\ index = (incoming.hash + incoming.psl) % capacity
         /\ incoming.psl < capacity /\ pc # "shift" /\ live
  BY DEF HInv, TypeOK, PslIsDistance, AtDistance, RoomToProbe, Probing, Entry, Slots

(* A slot passable before an insertion's step is passable after it: the    *)
(* step leaves slots filled and lowers no psl.                             *)
LEMMA PassableGrows ==
  ASSUME TypeOK, TypeOK', Probing, capacity' = capacity,
         \A i \in Slots : Occupied(i) => Occupied(i)' /\ entries'[i].psl >= entries[i].psl,
         NEW j \in Slots, NEW d \in Nat, Passable(j, d)
  PROVE  Passable(j, d)'
<1>1. Occupied(j) /\ entries[j].psl >= d
  BY DEF Passable, Hole, Probing
<1>2. entries[j] \in Entry /\ entries'[j] \in Entry
  BY DEF TypeOK, Slots
<1>3. entries[j].psl \in Nat /\ entries'[j].psl \in Nat
  BY <1>2 DEF Entry
<1> QED
  BY <1>1, <1>3 DEF Passable

(* ProbeChain after a step, with the slots of the chains named: the form   *)
(* in which the steps below establish it.                                  *)
LEMMA ChainSuffices ==
  ASSUME TypeOK', capacity' = capacity, capacity > 0,
         \A i, s \in Slots : Stored(i)' => \A d \in 0 .. entries'[i].psl :
           s = (entries'[i].hash + d) % capacity => Passable(s, d)',
         Probing' => \A s \in Slots : \A d \in 0 .. incoming'.psl - 1 :
           s = (incoming'.hash + d) % capacity => Passable(s, d)'
  PROVE  ProbeChain'
<1>1. capacity \in Nat /\ Slots' = Slots /\ incoming' \in Entry /\ entries' \in [Slots -> Entry]
  BY DEF TypeOK, Slots
<1>2. \A h \in Nat : \A d \in Nat : (h + d) % capacity \in Slots
  BY <1>1, ModRange DEF Slots
<1>3. ASSUME NEW i \in Slots', Stored(i)', NEW d \in 0 .. entries'[i].psl
      PROVE  Passable((entries[i].hash + d) % capacity, d)'
  <2>1. entries'[i].hash \in Nat /\ d \in Nat
    BY <1>1, <1>3 DEF Entry
  <2>2. PICK s \in Slots : s = (entries'[i].hash + d) % capacity
    BY <1>2, <2>1
  <2>3. Passable(s, d)'
    BY <1>1, <1>3, <2>2
  <2> QED
    BY <2>2, <2>3
<1>4. ASSUME Probing', NEW d \in 0 .. incoming'.psl - 1
      PROVE  Passable((incoming.hash + d) % capacity, d)'
  <2>1. incoming'.hash \in Nat /\ d \in Nat
    BY <1>1, <1>4 DEF Entry
  <2>2. PICK s \in Slots : s = (incoming'.hash + d) % capacity
    BY <1>2, <2>1
  <2>3. Passable(s, d)'
    BY <1>4, <2>2
  <2> QED
    BY <2>2, <2>3
<1> QED
  BY <1>3, <1>4 DEF ProbeChain

-----------------------------------------------------------------------------
(* The steps of internal_insert                                            *)

(* The slot an insertion has reached is on the probe sequence of a stored  *)
(* copy of its key no nearer the home than the insertion is.               *)
LEMMA CopyPassesIndex ==
  ASSUME HInv, Probing, NEW j \in StoredSlots, entries[j].key = incoming.key
  PROVE  /\ entries[j].psl >= incoming.psl
         /\ Passable(index, incoming.psl)
         /\ entries[j].psl = incoming.psl => j = index
<1>1. j \in Slots /\ Occupied(j) /\ Stored(j)
  BY DEF StoredSlots, Stored
<1>2. entries[j].psl >= incoming.psl
  BY DEF HInv, UniqueKeys, IncomingNotPassed
<1>3. incoming.psl \in 0 .. entries[j].psl
  BY <1>1, <1>2, StoredEntry, IncomingEntry
<1>4. Passable((entries[j].hash + incoming.psl) % capacity, incoming.psl)
  BY <1>1, <1>3 DEF HInv, ProbeChain
<1>5. entries[j].hash = incoming.hash
  BY <1>1, StoredEntry, IncomingEntry
<1> QED
  BY <1>1, <1>2, <1>4, <1>5, StoredEntry, IncomingEntry

(* What placing the entry in flight does: the empty slot it has reached    *)
(* is filled and stored.                                                   *)
LEMMA PlaceEffect ==
  ASSUME HInv, PlaceIncoming
  PROVE  /\ Probing /\ ~Occupied(index) /\ ~Probing' /\ pc # "shift" /\ pc' # "shift"
         /\ size' = size + 1 /\ max_psl' = RaisedMaxPsl
         /\ pc' = IF pc = "replace" THEN "rehash" ELSE "idle"
         /\ UNCHANGED <<capacity, live, pend, scan, old_capacity, old_entries>>
         /\ entries'[index] = incoming
         /\ \A i \in Slots : i # index => entries'[i] = entries[i]
         /\ Slots' = Slots /\ OldSlots' = OldSlots
         /\ \A i \in Slots : Occupied(i)' <=> i = index \/ Occupied(i)
         /\ StoredSlots' = StoredSlots \cup {index} /\ index \notin StoredSlots
<1>1. /\ Probing /\ ~Occupied(index) /\ ~Probing' /\ pc # "shift" /\ pc' # "shift"
      /\ entries' = [entries EXCEPT ![index] = incoming]
      /\ size' = size + 1 /\ max_psl' = RaisedMaxPsl
      /\ pc' = IF pc = "replace" THEN "rehash" ELSE "idle"
      /\ UNCHANGED <<capacity, live, pend, scan, old_capacity, old_entries>>
  BY DEF PlaceIncoming, EndProbe, Probing, resizeVars
<1>2. incoming.key # NoKey /\ index \in Slots
  BY <1>1, IncomingEntry, HashMapAssumption
<1>3. /\ entries'[index] = incoming
      /\ \A i \in Slots : i # index => entries'[i] = entries[i]
      /\ Slots' = Slots /\ OldSlots' = OldSlots
  BY <1>1, <1>2 DEF HInv, TypeOK, Slots, OldSlots
<1>4. \A i \in Slots : Occupied(i)' <=> i = index \/ Occupied(i)
  BY <1>2, <1>3 DEF Occupied
<1>5. StoredSlots' = StoredSlots \cup {index} /\ index \notin StoredSlots
  BY <1>1, <1>2, <1>3, <1>4 DEF StoredSlots, Stored, Hole
<1> QED
  BY <1>1, <1>3, <1>4, <1>5

LEMMA PlaceInv == ASSUME HInv, TypeOK', PslIsDistance', PlaceIncoming PROVE HInv'
<1>1. /\ Probing /\ ~Occupied(index) /\ ~Probing' /\ pc # "shift" /\ pc' # "shift"
      /\ size' = size + 1 /\ max_psl' = RaisedMaxPsl
      /\ pc' = IF pc = "replace" THEN "rehash" ELSE "idle"
      /\ UNCHANGED <<capacity, live, scan, old_capacity, old_entries>>
  BY PlaceEffect
<1>2. /\ incoming \in Entry /\ incoming.key \in Keys /\ incoming.key # NoKey
      /\ incoming.hash \in Nat /\ incoming.psl \in Nat /\ incoming.psl < capacity
      /\ index \in Slots /\ capacity \in Nat /\ capacity > 0 /\ live
      /\ index = (incoming.hash + incoming.psl) % capacity
  BY <1>1, IncomingEntry, HashMapAssumption
<1>3. /\ entries'[index] = incoming
      /\ \A i \in Slots : i # index => entries'[i] = entries[i]
      /\ Slots' = Slots
  BY PlaceEffect
<1>4. \A i \in Slots : Occupied(i)' <=> i = index \/ Occupied(i)
  BY PlaceEffect
<1>5. StoredSlots' = StoredSlots \cup {index} /\ index \notin StoredSlots
  BY PlaceEffect
<1>6. \A s \in Slots : \A d \in Nat : Passable(s, d) => Passable(s, d)'
  <2>1. \A i \in Slots : Occupied(i) => Occupied(i)' /\ entries'[i].psl >= entries[i].psl
    BY <1>1, <1>3, <1>4, StoredEntry
  <2> QED
    BY <1>1, <2>1, PassableGrows DEF HInv
<1>7. ProbeChain'
  <2>1. ASSUME NEW i \in Slots, NEW s \in Slots, Stored(i)', NEW d \in 0 .. entries'[i].psl,
               s = (entries'[i].hash + d) % capacity
        PROVE  Passable(s, d)'
    <3>1. CASE i = index /\ d = incoming.psl
      BY <1>2, <1>3, <1>4, <2>1, <3>1 DEF Passable
    <3>2. CASE i = index /\ d # incoming.psl
      <4>1. d \in 0 .. incoming.psl - 1 /\ d \in Nat
        BY <1>2, <1>3, <3>2
      <4>2. Passable((incoming.hash + d) % capacity, d)
        BY <1>1, <4>1 DEF HInv, ProbeChain
      <4> QED
        BY <1>3, <1>6, <2>1, <3>2, <4>1, <4>2
    <3>3. CASE i # index
      <4>1. Stored(i) /\ entries'[i] = entries[i] /\ d \in Nat
        BY <1>1, <1>3, <1>4, <2>1, <3>3 DEF Stored, Hole
      <4>2. Passable((entries[i].hash + d) % capacity, d)
        BY <4>1 DEF HInv, ProbeChain
      <4> QED
        BY <1>6, <2>1, <4>1, <4>2
    <3> QED
      BY <3>1, <3>2, <3>3
  <2> QED
    BY <1>1, <1>2, <2>1, ChainSuffices
<1>8. UniqueKeys'
  <2>1. ASSUME NEW j \in StoredSlots PROVE entries[j].key # incoming.key
    <3>1. ~Passable(index, incoming.psl)
      BY <1>1 DEF Passable, Hole
    <3> QED
      BY <1>1, <3>1, CopyPassesIndex
  <2>2. \A i, j \in StoredSlots' : entries'[i].key = entries'[j].key => i = j
    BY <1>3, <1>5, <2>1 DEF HInv, UniqueKeys, StoredSlots
  <2>3. OldSlots' = OldSlots
    BY <1>1 DEF OldSlots
  <2>4. OldSlots # {} => pc = "replace"
    BY <1>1 DEF HInv, TypeOK, OldSlots, Resizing, Probing
  <2>5. \A i \in OldSlots : \A j \in StoredSlots' : entries'[j].key # old_entries[i].key
    BY <1>3, <1>5, <2>4 DEF HInv, UniqueKeys, StoredSlots
  <2>6. pc' # "replace"
    BY <1>1
  <2> QED
    BY <1>1, <2>2, <2>3, <2>5, <2>6 DEF HInv, UniqueKeys, IncomingNotPassed
<1>9. Cardinality(StoredSlots') = size + 1 /\ size \in Nat
  BY <1>5, SlotsFinite, FS_AddElement DEF HInv, RoomToProbe
<1>10. OldSlots' = OldSlots /\ Cardinality(OldSlots) \in Nat
  BY <1>1, SlotsFinite DEF OldSlots, HInv
<1>11. RoomToProbe'
  <2>1. size' * 4 <= capacity' * 3
    <3>1. CASE pc = "place"
      BY <1>1, <3>1 DEF HInv, LoadBound
    <3>2. CASE pc = "replace"
      BY <1>1, <1>2, <1>9, <1>10, <3>2 DEF HInv, LoadBound, Resizing, Carried, TypeOK
    <3> QED
      BY <1>1, <3>1, <3>2 DEF Probing
  <2>2. \A i \in StoredSlots' : entries'[i].psl < capacity'
    BY <1>1, <1>2, <1>3, <1>5 DEF HInv, RoomToProbe, StoredSlots
  <2> QED
    BY <1>1, <1>9, <2>1, <2>2 DEF RoomToProbe
<1>12. PslsInTable'
  BY <1>1, <1>2, <1>3, <1>4 DEF HInv, PslsInTable, RaisedMaxPsl
<1>13. LoadBound'
  <2>1. CASE pc = "replace"
    BY <1>1, <1>9, <1>10, <2>1 DEF HInv, LoadBound, Resizing, Carried, TypeOK
  <2>2. CASE pc # "replace"
    BY <1>1, <2>2 DEF LoadBound, Resizing
  <2> QED
    BY <2>1, <2>2
<1> QED
  BY <1>7, <1>8, <1>11, <1>12, <1>13 DEF HInv

LEMMA OverwriteInv == ASSUME HInv, TypeOK', PslIsDistance', OverwriteValue PROVE HInv'
<1>1. /\ Probing /\ ~Probing' /\ pc # "shift" /\ pc' # "shift" /\ index \in Slots
      /\ entries' = [entries EXCEPT ![index].value = incoming.value]
      /\ pc' = IF pc = "replace" THEN "rehash" ELSE "idle"
      /\ UNCHANGED <<capacity, live, size, max_psl, scan, old_capacity, old_entries>>
  BY DEF OverwriteValue, EndProbe, Probing, resizeVars, HInv, TypeOK
<1>2. capacity > 0 /\ capacity \in Nat
  BY <1>1, IncomingEntry
<1>3. /\ \A i \in Slots : /\ entries'[i].key = entries[i].key
                          /\ entries'[i].hash = entries[i].hash
                          /\ entries'[i].psl = entries[i].psl
      /\ Slots' = Slots
  BY <1>1 DEF HInv, TypeOK, Slots, Entry
<1>4. \A i \in Slots : (Occupied(i)' <=> Occupied(i)) /\ (Stored(i)' <=> Stored(i))
  BY <1>1, <1>3 DEF Occupied, Stored, Hole
<1>5. StoredSlots' = StoredSlots /\ OldSlots' = OldSlots
  BY <1>1, <1>3, <1>4 DEF StoredSlots, OldSlots
<1>6. ProbeChain'
  <2>1. ASSUME NEW i \in Slots, NEW s \in Slots, Stored(i)', NEW d \in 0 .. entries'[i].psl,
               s = (entries'[i].hash + d) % capacity
        PROVE  Passable(s, d)'
    <3>1. Passable((entries[i].hash + d) % capacity, d)
      BY <1>3, <1>4, <2>1 DEF HInv, ProbeChain
    <3> QED
      BY <1>1, <1>3, <1>4, <2>1, <3>1 DEF Passable, Hole
  <2> QED
    BY <1>1, <1>2, <2>1, ChainSuffices
<1>7. UniqueKeys'
  BY <1>1, <1>3, <1>5 DEF HInv, UniqueKeys, IncomingNotPassed, StoredSlots
<1>8. RoomToProbe' /\ PslsInTable'
  BY <1>1, <1>3, <1>4, <1>5 DEF HInv, RoomToProbe, PslsInTable, StoredSlots
<1>9. LoadBound'
  <2>1. CASE pc = "replace"
    <3>1. size \in Nat /\ Cardinality(OldSlots) \in Nat /\ old_capacity \in Nat
      BY SlotsFinite DEF HInv, RoomToProbe, TypeOK
    <3>2. capacity = 2 * old_capacity /\ old_capacity > 0
          /\ (size + Cardinality(OldSlots) + 1) * 4 <= old_capacity * 3
      BY <2>1 DEF HInv, LoadBound, Resizing, Carried
    <3>3. (size + Cardinality(OldSlots) + 0) * 4 <= old_capacity * 3
      BY <3>1, <3>2
    <3> QED
      BY <1>1, <1>5, <2>1, <3>2, <3>3 DEF LoadBound, Carried
  <2>2. CASE pc # "replace"
    BY <1>1, <2>2 DEF LoadBound, Resizing
  <2> QED
    BY <2>1, <2>2
<1> QED
  BY <1>6, <1>7, <1>8, <1>9 DEF HInv

(* What a swap does: the entry in flight takes the slot, the richer entry  *)
(* it displaces goes on from the next one, and the two keys differ.        *)
LEMMA SwapEffect ==
  ASSUME HInv, RobinHoodSwap
  PROVE  /\ Probing /\ Probing' /\ pc' = pc /\ pc # "shift" /\ Occupied(index)
         /\ incoming.psl > entries[index].psl
         /\ UNCHANGED <<capacity, live, size, max_psl, pend, scan, old_capacity, old_entries>>
         /\ entries'[index] = incoming
         /\ \A i \in Slots : i # index => entries'[i] = entries[i]
         /\ entries[index].psl \in Nat /\ entries[index].hash \in Nat
         /\ incoming'.key = entries[index].key /\ incoming'.hash = entries[index].hash
         /\ incoming'.value = entries[index].value
         /\ incoming'.psl = entries[index].psl + 1
         /\ Slots' = Slots /\ OldSlots' = OldSlots
         /\ \A i \in Slots : (Occupied(i)' <=> Occupied(i)) /\ (Stored(i)' <=> Occupied(i))
                             /\ (Stored(i) <=> Occupied(i))
         /\ StoredSlots' = StoredSlots /\ index \in StoredSlots
         /\ \A j \in StoredSlots : entries[j].key # incoming.key
<1>1. /\ Probing /\ Probing' /\ pc' = pc /\ pc # "shift" /\ Occupied(index)
      /\ entries' = [entries EXCEPT ![index] = incoming]
      /\ incoming' = [entries[index] EXCEPT !.psl = @ + 1]
      /\ incoming.psl > entries[index].psl
      /\ UNCHANGED <<capacity, live, size, max_psl, pend, scan, old_capacity, old_entries>>
  BY DEF RobinHoodSwap, Richer, Probing, resizeVars
<1>2. incoming.psl \in Nat /\ incoming.key # NoKey /\ index \in Slots
  BY <1>1, IncomingEntry, HashMapAssumption
<1>3. /\ entries'[index] = incoming
      /\ \A i \in Slots : i # index => entries'[i] = entries[i]
      /\ Slots' = Slots /\ OldSlots' = OldSlots
  BY <1>1, <1>2 DEF HInv, TypeOK, Slots, OldSlots
<1>4. \A i \in Slots : (Occupied(i)' <=> Occupied(i)) /\ (Stored(i)' <=> Occupied(i))
                       /\ (Stored(i) <=> Occupied(i))
  BY <1>1, <1>2, <1>3 DEF Occupied, Stored, Hole
<1>5. StoredSlots' = StoredSlots /\ index \in StoredSlots
  BY <1>1, <1>2, <1>3, <1>4 DEF StoredSlots
<1>6. /\ entries[index].psl \in Nat /\ entries[index].hash \in Nat
      /\ incoming'.key = entries[index].key /\ incoming'.hash = entries[index].hash
      /\ incoming'.value = entries[index].value
      /\ incoming'.psl = entries[index].psl + 1
  BY <1>1, <1>2, StoredEntry DEF Entry
<1>7. ASSUME NEW j \in StoredSlots PROVE entries[j].key # incoming.key
  <2>1. ~Passable(index, incoming.psl)
    BY <1>1, <1>2, <1>6 DEF Passable, Hole
  <2> QED
    BY <1>1, <2>1, CopyPassesIndex
<1> QED
  BY <1>1, <1>3, <1>4, <1>5, <1>6, <1>7

LEMMA SwapInv == ASSUME HInv, TypeOK', PslIsDistance', RobinHoodSwap PROVE HInv'
<1>1. /\ Probing /\ Probing' /\ pc' = pc /\ pc # "shift" /\ Occupied(index)
      /\ incoming.psl > entries[index].psl
      /\ UNCHANGED <<capacity, live, size, max_psl, scan, old_capacity, old_entries>>
  BY SwapEffect
<1>2. /\ incoming \in Entry /\ incoming.key \in Keys /\ incoming.key # NoKey
      /\ incoming.hash \in Nat /\ incoming.psl \in Nat /\ incoming.psl < capacity
      /\ index \in Slots /\ capacity \in Nat /\ capacity > 0 /\ live
      /\ index = (incoming.hash + incoming.psl) % capacity
  BY <1>1, IncomingEntry, HashMapAssumption
<1>3. /\ entries'[index] = incoming
      /\ \A i \in Slots : i # index => entries'[i] = entries[i]
      /\ Slots' = Slots
  BY SwapEffect
<1>4. \A i \in Slots : (Occupied(i)' <=> Occupied(i)) /\ (Stored(i)' <=> Occupied(i))
                       /\ (Stored(i) <=> Occupied(i))
  BY SwapEffect
<1>5. StoredSlots' = StoredSlots /\ OldSlots' = OldSlots /\ index \in StoredSlots
  BY SwapEffect
<1>a. /\ entries[index].psl \in Nat /\ entries[index].hash \in Nat
      /\ incoming'.key = entries[index].key /\ incoming'.hash = entries[index].hash
      /\ incoming'.psl = entries[index].psl + 1
  BY SwapEffect
<1>6. \A s \in Slots : \A d \in Nat : Passable(s, d) => Passable(s, d)'
  <2>1. \A i \in Slots : Occupied(i) => Occupied(i)' /\ entries'[i].psl >= entries[i].psl
    BY <1>1, <1>2, <1>3, <1>4, StoredEntry
  <2> QED
    BY <1>1, <2>1, PassableGrows DEF HInv
<1>7. ASSUME NEW s \in Slots, NEW d \in 0 .. incoming'.psl - 1,
             s = (incoming'.hash + d) % capacity
      PROVE  Passable(s, d)'
  <2>1. d \in 0 .. entries[index].psl /\ d \in Nat
    BY <1>a
  <2>2. Passable((entries[index].hash + d) % capacity, d)
    BY <1>2, <1>4, <1>1, <2>1 DEF HInv, ProbeChain
  <2> QED
    BY <1>6, <1>7, <1>a, <2>1, <2>2
<1>8. ProbeChain'
  <2>1. ASSUME NEW i \in Slots, NEW s \in Slots, Stored(i)', NEW d \in 0 .. entries'[i].psl,
               s = (entries'[i].hash + d) % capacity
        PROVE  Passable(s, d)'
    <3>1. CASE i = index /\ d = incoming.psl
      BY <1>1, <1>2, <1>3, <1>4, <2>1, <3>1 DEF Passable
    <3>2. CASE i = index /\ d # incoming.psl
      <4>1. d \in 0 .. incoming.psl - 1 /\ d \in Nat
        BY <1>2, <1>3, <3>2
      <4>2. Passable((incoming.hash + d) % capacity, d)
        BY <1>1, <4>1 DEF HInv, ProbeChain
      <4> QED
        BY <1>3, <1>6, <2>1, <3>2, <4>1, <4>2
    <3>3. CASE i # index
      <4>1. Stored(i) /\ entries'[i] = entries[i] /\ d \in Nat
        BY <1>3, <1>4, <2>1, <3>3
      <4>2. Passable((entries[i].hash + d) % capacity, d)
        BY <4>1 DEF HInv, ProbeChain
      <4> QED
        BY <1>6, <2>1, <4>1, <4>2
    <3> QED
      BY <3>1, <3>2, <3>3
  <2> QED
    BY <1>1, <1>2, <1>7, <2>1, ChainSuffices
<1>9. UniqueKeys'
  <2>1. \A j \in StoredSlots : entries[j].key # incoming.key
    BY SwapEffect
  <2>2. \A i, j \in StoredSlots' : entries'[i].key = entries'[j].key => i = j
    BY <1>3, <1>5, <2>1 DEF HInv, UniqueKeys, StoredSlots
  <2>3. OldSlots # {} => pc = "replace"
    BY <1>1 DEF HInv, TypeOK, OldSlots, Resizing, Probing
  <2>4. \A i \in OldSlots : \A j \in StoredSlots' : entries'[j].key # old_entries[i].key
    BY <1>3, <1>5, <2>3 DEF HInv, UniqueKeys, StoredSlots
  <2>5. \A i \in OldSlots : incoming'.key # old_entries[i].key
    BY <1>5, <1>a DEF HInv, UniqueKeys
  <2>6. \A i \in StoredSlots' : entries'[i].key # incoming'.key
    BY <1>3, <1>5, <1>a, <2>1 DEF HInv, UniqueKeys, StoredSlots
  <2> QED
    BY <1>1, <1>5, <2>2, <2>4, <2>5, <2>6 DEF HInv, UniqueKeys, IncomingNotPassed
<1>10. RoomToProbe'
  <2>1. \A i \in StoredSlots' : entries'[i].psl < capacity
    BY <1>2, <1>3, <1>5 DEF HInv, RoomToProbe, StoredSlots
  <2>2. \A d \in 0 .. incoming'.psl - 1 : (incoming'.hash + d) % capacity \in StoredSlots
    <3> SUFFICES ASSUME NEW d \in 0 .. incoming'.psl - 1
                 PROVE  (incoming'.hash + d) % capacity \in StoredSlots
      OBVIOUS
    <3>1. d \in Nat
      BY <1>a
    <3>2. PICK s \in Slots : s = (incoming'.hash + d) % capacity
      BY <1>2, <1>a, <3>1, ProbeSlot DEF HInv
    <3>3. Passable(s, d)'
      BY <1>7, <3>2
    <3> QED
      BY <1>1, <1>4, <3>2, <3>3 DEF Passable, Hole, StoredSlots
  <2>3. StoredSlots \in SUBSET (0 .. capacity - 1)
    BY DEF StoredSlots, Slots
  <2>4. Cardinality(StoredSlots) * 4 <= capacity * 3
    BY DEF HInv, RoomToProbe
  <2>5. incoming'.psl \in Nat /\ incoming'.hash \in Nat
    BY <1>a
  <2>6. incoming'.psl < capacity
    BY <1>2, <2>2, <2>3, <2>4, <2>5, NoFullTurn
  <2> QED
    BY <1>1, <1>5, <2>1, <2>6 DEF HInv, RoomToProbe
<1>11. PslsInTable' /\ LoadBound'
  BY <1>1, <1>2, <1>3, <1>4, <1>5 DEF HInv, PslsInTable, LoadBound, Carried, Resizing
<1> QED
  BY <1>8, <1>9, <1>10, <1>11 DEF HInv

LEMMA ProbeOnInv == ASSUME HInv, TypeOK', PslIsDistance', ProbeOn PROVE HInv'
<1>1. /\ Probing /\ Probing' /\ pc' = pc /\ pc # "shift" /\ Occupied(index) /\ ~Match
      /\ incoming' = [incoming EXCEPT !.psl = @ + 1]
      /\ ~(incoming.psl > entries[index].psl)
      /\ UNCHANGED <<entries, capacity, live, size, max_psl, scan, old_capacity, old_entries>>
  BY DEF ProbeOn, Richer, Probing, resizeVars, tableVars
<1>2. /\ incoming \in Entry /\ incoming.key \in Keys /\ incoming.key # NoKey
      /\ incoming.hash \in Nat /\ incoming.psl \in Nat /\ incoming.psl < capacity
      /\ index \in Slots /\ capacity \in Nat /\ capacity > 0 /\ live
      /\ index = (incoming.hash + incoming.psl) % capacity
      /\ incoming.hash = Hash[incoming.key]
  BY <1>1, IncomingEntry, HashMapAssumption
<1>3. /\ incoming'.key = incoming.key /\ incoming'.hash = incoming.hash
      /\ incoming'.psl = incoming.psl + 1
  BY <1>1, <1>2 DEF Entry
<1>4. Slots' = Slots /\ StoredSlots' = StoredSlots /\ OldSlots' = OldSlots
  BY <1>1 DEF Slots, StoredSlots, OldSlots, Stored, Occupied, Hole
<1>5. \A i \in Slots : /\ Occupied(i)' <=> Occupied(i)
                       /\ Stored(i)' <=> Stored(i)
                       /\ \A d \in Nat : Passable(i, d)' <=> Passable(i, d)
  BY <1>1 DEF Stored, Occupied, Hole, Passable
<1>6. ASSUME NEW s \in Slots, NEW d \in 0 .. incoming'.psl - 1,
             s = (incoming'.hash + d) % capacity
      PROVE  Passable(s, d)
  <2>1. CASE d = incoming.psl
    BY <1>1, <1>2, <1>3, <1>6, <2>1, StoredEntry DEF Passable
  <2>2. CASE d # incoming.psl
    <3>1. d \in 0 .. incoming.psl - 1
      BY <1>2, <1>3, <1>6, <2>2
    <3> QED
      BY <1>1, <1>3, <1>6, <3>1 DEF HInv, ProbeChain
  <2> QED
    BY <2>1, <2>2
<1>7. ProbeChain'
  <2>1. ASSUME NEW i \in Slots, NEW s \in Slots, Stored(i)', NEW d \in 0 .. entries'[i].psl,
               s = (entries'[i].hash + d) % capacity
        PROVE  Passable(s, d)'
    <3>1. Passable((entries[i].hash + d) % capacity, d) /\ Occupied(i)
      BY <1>1, <1>5, <2>1 DEF HInv, ProbeChain, Stored
    <3>2. d \in Nat
      BY <1>1, <2>1, <3>1, StoredEntry
    <3> QED
      BY <1>1, <1>5, <2>1, <3>1, <3>2
  <2>2. ASSUME NEW s \in Slots, NEW d \in 0 .. incoming'.psl - 1,
               s = (incoming'.hash + d) % capacity
        PROVE  Passable(s, d)'
    BY <1>2, <1>3, <1>5, <1>6, <2>2
  <2> QED
    BY <1>1, <1>2, <2>1, <2>2, ChainSuffices
<1>8. UniqueKeys'
  <2>1. ASSUME NEW j \in StoredSlots, entries[j].key = incoming'.key
        PROVE  entries[j].psl >= incoming'.psl
    <3>1. j \in Slots /\ Occupied(j)
      BY DEF StoredSlots, Stored
    <3>2. entries[j].psl >= incoming.psl /\ (entries[j].psl = incoming.psl => j = index)
      BY <1>1, <1>3, <2>1, CopyPassesIndex
    <3>3. j # index
      BY <1>1, <1>2, <1>3, <2>1, <3>1, StoredEntry DEF Match
    <3> QED
      BY <1>2, <1>3, <3>1, <3>2, <3>3, StoredEntry
  <2> QED
    BY <1>1, <1>3, <1>4, <2>1 DEF HInv, UniqueKeys, IncomingNotPassed
<1>9. RoomToProbe'
  <2>1. \A d \in 0 .. incoming'.psl - 1 : (incoming'.hash + d) % capacity \in StoredSlots
    <3> SUFFICES ASSUME NEW d \in 0 .. incoming'.psl - 1
                 PROVE  (incoming'.hash + d) % capacity \in StoredSlots
      OBVIOUS
    <3>1. d \in Nat
      BY <1>2, <1>3
    <3>2. PICK s \in Slots : s = (incoming'.hash + d) % capacity
      BY <1>2, <1>3, <3>1, ProbeSlot DEF HInv
    <3>3. Passable(s, d)
      BY <1>6, <3>2
    <3> QED
      BY <1>1, <3>2, <3>3 DEF Passable, Hole, StoredSlots, Stored
  <2>2. StoredSlots \in SUBSET (0 .. capacity - 1)
    BY DEF StoredSlots, Slots
  <2>3. Cardinality(StoredSlots) * 4 <= capacity * 3
    BY DEF HInv, RoomToProbe
  <2>4. incoming'.psl \in Nat /\ incoming'.hash \in Nat
    BY <1>2, <1>3
  <2>5. incoming'.psl < capacity
    BY <1>2, <2>1, <2>2, <2>3, <2>4, NoFullTurn
  <2> QED
    BY <1>1, <1>4, <2>5 DEF HInv, RoomToProbe
<1>10. PslsInTable' /\ LoadBound'
  BY <1>1, <1>4, <1>5 DEF HInv, PslsInTable, LoadBound, Carried, Resizing
<1> QED
  BY <1>7, <1>8, <1>9, <1>10 DEF HInv

-----------------------------------------------------------------------------
(* The steps of the rehash loop                                            *)

LEMMA RehashSkipInv == ASSUME HInv, TypeOK', PslIsDistance', RehashSkip PROVE HInv'
<1>1. /\ pc = "rehash" /\ pc' = pc /\ scan' = scan + 1
      /\ scan < old_capacity /\ old_entries[scan].key = NoKey
      /\ UNCHANGED <<entries, capacity, live, size, max_psl, old_capacity, old_entries,
                     incoming, index, curr>>
  BY DEF RehashSkip, tableVars, insertVars, removeVars
<1>2. scan \in Nat /\ old_capacity \in Nat
  BY DEF HInv, TypeOK
<1>3. OldSlots' = OldSlots
  BY <1>1, <1>2 DEF OldSlots
<1>4. Slots' = Slots /\ StoredSlots' = StoredSlots
  BY <1>1 DEF Slots, StoredSlots, Stored, Occupied, Hole
<1>5. ProbeChain'
  BY <1>1 DEF HInv, ProbeChain, Slots, Stored, Occupied, Hole, Passable, Probing
<1>6. UniqueKeys'
  BY <1>1, <1>3, <1>4 DEF HInv, UniqueKeys, IncomingNotPassed, Probing
<1>7. RoomToProbe' /\ PslsInTable' /\ LoadBound'
  BY <1>1, <1>3, <1>4
  DEF HInv, RoomToProbe, PslsInTable, LoadBound, Occupied, Probing, Resizing, Carried
<1> QED
  BY <1>5, <1>6, <1>7 DEF HInv

LEMMA RehashEntryInv == ASSUME HInv, TypeOK', PslIsDistance', RehashEntry PROVE HInv'
<1>1. /\ pc = "rehash" /\ pc' = "replace" /\ scan' = scan + 1
      /\ scan < old_capacity /\ old_entries[scan].key # NoKey
      /\ incoming' = [key |-> old_entries[scan].key, value |-> old_entries[scan].value,
                      hash |-> old_entries[scan].hash, psl |-> 0]
      /\ UNCHANGED <<entries, capacity, live, size, max_psl, old_capacity, old_entries, curr>>
  BY DEF RehashEntry, StartProbe, tableVars, removeVars
<1>2. scan \in Nat /\ old_capacity \in Nat /\ capacity \in Nat /\ capacity > 0
  BY <1>1 DEF HInv, TypeOK
<1>3. OldSlots' = OldSlots \ {scan} /\ scan \in OldSlots
  BY <1>1, <1>2 DEF OldSlots
<1>4. Slots' = Slots /\ StoredSlots' = StoredSlots
  BY <1>1 DEF Slots, StoredSlots, Stored, Occupied, Hole
<1>5. ProbeChain'
  BY <1>1 DEF HInv, ProbeChain, Slots, Stored, Occupied, Hole, Passable, Probing
<1>6. UniqueKeys'
  <2>1. \A j \in StoredSlots : entries[j].key # incoming'.key
    BY <1>1, <1>3 DEF HInv, UniqueKeys
  <2>2. \A i \in OldSlots' : incoming'.key # old_entries[i].key
    BY <1>1, <1>3 DEF HInv, UniqueKeys
  <2> QED
    BY <1>1, <1>3, <1>4, <2>1, <2>2 DEF HInv, UniqueKeys, IncomingNotPassed
<1>7. RoomToProbe' /\ PslsInTable'
  BY <1>1, <1>2, <1>4 DEF HInv, RoomToProbe, PslsInTable, Occupied
<1>8. LoadBound'
  <2>1. Cardinality(OldSlots') = Cardinality(OldSlots) - 1
    BY <1>3, SlotsFinite, FS_RemoveElement DEF HInv
  <2>2. Cardinality(OldSlots) \in Nat /\ size \in Int
    BY SlotsFinite DEF HInv, TypeOK
  <2> QED
    BY <1>1, <2>1, <2>2 DEF HInv, LoadBound, Resizing, Carried
<1> QED
  BY <1>5, <1>6, <1>7, <1>8 DEF HInv

LEMMA RehashDoneInv == ASSUME HInv, TypeOK', PslIsDistance', RehashDone PROVE HInv'
<1>1. /\ pc = "rehash" /\ pc' \in {"place", "idle"} /\ old_capacity' = 0
      /\ (pc' = "place" => incoming'.psl = 0)
      /\ UNCHANGED <<entries, capacity, live, size, max_psl, curr>>
  BY DEF RehashDone, StartProbe, removeVars
<1>2. capacity \in Nat /\ capacity > 0
  BY <1>1 DEF HInv, TypeOK
<1>3. OldSlots' = {} /\ ~Resizing' /\ (Probing' => pc' = "place")
  BY <1>1 DEF OldSlots, Resizing, Probing, TypeOK
<1>4. Slots' = Slots /\ StoredSlots' = StoredSlots
  BY <1>1 DEF Slots, StoredSlots, Stored, Occupied, Hole
<1>5. ProbeChain'
  BY <1>1, <1>3 DEF HInv, ProbeChain, Slots, Stored, Occupied, Hole, Passable
<1>6. UniqueKeys'
  <2>1. \A i \in StoredSlots : entries[i].psl \in Nat
    BY StoredEntry DEF StoredSlots, Stored
  <2> QED
    BY <1>1, <1>3, <1>4, <2>1 DEF HInv, UniqueKeys, IncomingNotPassed
<1>7. RoomToProbe' /\ PslsInTable'
  BY <1>1, <1>2, <1>3, <1>4 DEF HInv, RoomToProbe, PslsInTable, Occupied
<1>8. LoadBound'
  <2>1. size \in Nat /\ Cardinality(OldSlots) \in Nat /\ old_capacity \in Nat
    BY SlotsFinite DEF HInv, RoomToProbe, TypeOK
  <2>2. /\ capacity = 2 * old_capacity /\ old_capacity > 0
        /\ (size + Cardinality(OldSlots) + 0) * 4 <= old_capacity * 3
    BY <1>1 DEF HInv, LoadBound, Resizing, Carried
  <2>3. (size + 1) * 4 <= capacity * 3
    BY <2>1, <2>2
  <2> QED
    BY <1>1, <1>3, <2>3 DEF LoadBound
<1> QED
  BY <1>5, <1>6, <1>7, <1>8 DEF HInv

-----------------------------------------------------------------------------
(* The steps of the backward shift                                         *)

(* The slot after the hole is another slot, when the shift moves its entry. *)
LEMMA NextIsNotHole ==
  ASSUME HInv, pc = "shift", Shiftable(NextSlot(curr))
  PROVE  NextSlot(curr) # curr /\ NextSlot(curr) \in StoredSlots
<1>1. curr \in Slots /\ capacity \in Nat /\ capacity > 0
  BY DEF HInv, TypeOK
<1> DEFINE next == NextSlot(curr)
<1>2. next \in Slots
  BY <1>1, NextSlotInRange DEF HInv
<1>3. Occupied(next) /\ entries[next].psl > 0
  BY DEF Shiftable
<1>4. entries[next].psl < capacity /\ entries[next].psl \in Nat
  BY <1>2, <1>3, StoredEntry
<1>5. capacity > 1
  BY <1>1, <1>3, <1>4
<1>6. (curr + 1) % capacity # curr
  <2>1. curr % capacity = curr /\ curr \in Nat
    BY <1>1, ModSmall DEF Slots
  <2>2. curr % capacity # (curr + 1) % capacity
    BY <1>1, <1>5, <2>1, ModApart
  <2> QED
    BY <2>1, <2>2
<1>7. next # curr
  BY <1>6 DEF NextSlot
<1> QED
  BY <1>2, <1>3, <1>7 DEF StoredSlots, Stored, Hole

(* A chain that runs through the hole runs on through the slot after it.   *)
LEMMA ChainBeyondHole ==
  ASSUME HInv, pc = "shift", NEW i \in StoredSlots, NEW d \in 0 .. entries[i].psl,
         curr = (entries[i].hash + d) % capacity
  PROVE  d + 1 \in 0 .. entries[i].psl /\ Passable(NextSlot(curr), d + 1)
<1>1. i \in Slots /\ Stored(i) /\ Occupied(i) /\ i # curr
  BY DEF StoredSlots, Stored, Hole
<1>2. /\ entries[i].hash \in Nat /\ entries[i].psl \in Nat
      /\ i = (entries[i].hash + entries[i].psl) % capacity
      /\ capacity \in Nat /\ capacity > 0
  BY <1>1, StoredEntry DEF HInv, TypeOK
<1>3. d + 1 \in 0 .. entries[i].psl
  BY <1>1, <1>2
<1>4. Passable((entries[i].hash + (d + 1)) % capacity, d + 1)
  BY <1>1, <1>3 DEF HInv, ProbeChain
<1>5. entries[i].hash + d \in Nat /\ entries[i].hash + (d + 1) = (entries[i].hash + d) + 1
  BY <1>2
<1>6. (entries[i].hash + (d + 1)) % capacity = NextSlot(curr)
  BY <1>2, <1>5, ModSucc DEF NextSlot
<1> QED
  BY <1>3, <1>4, <1>6

(* What one step of the shift does: the entry after the hole moves into it *)
(* one nearer its home, and its old slot becomes the hole.                 *)
LEMMA ShiftBackEffect ==
  ASSUME HInv, ShiftBack, NEW next, next = NextSlot(curr)
  PROVE  /\ pc = "shift" /\ pc' = "shift" /\ curr' = next
         /\ curr \in Slots /\ next \in Slots /\ next # curr
         /\ next \in StoredSlots /\ curr \notin StoredSlots
         /\ entries[next].psl \in Nat /\ entries[next].psl > 0
         /\ entries'[curr].key = entries[next].key
         /\ entries'[curr].hash = entries[next].hash
         /\ entries'[curr].value = entries[next].value
         /\ entries'[curr].psl = entries[next].psl - 1
         /\ \A i \in Slots : i # curr => entries'[i] = entries[i]
         /\ Slots' = Slots /\ capacity \in Nat /\ capacity > 0
         /\ StoredSlots' = (StoredSlots \ {next}) \cup {curr}
         /\ UNCHANGED <<capacity, live, size, max_psl, scan, old_capacity, old_entries>>
<1>1. /\ pc = "shift" /\ pc' = "shift" /\ curr' = next /\ Shiftable(next)
      /\ entries' = [entries EXCEPT ![curr] = [entries[next] EXCEPT !.psl = @ - 1]]
      /\ UNCHANGED <<capacity, live, size, max_psl, scan, old_capacity, old_entries>>
  BY DEF ShiftBack, resizeVars
<1>2. /\ curr \in Slots /\ capacity \in Nat /\ capacity > 0 /\ Slots' = Slots
  BY <1>1 DEF HInv, TypeOK, Slots
<1>3. next \in StoredSlots /\ next # curr /\ next \in Slots
  BY <1>1, NextIsNotHole DEF StoredSlots
<1>4. curr \notin StoredSlots
  BY <1>1 DEF StoredSlots, Stored, Hole
<1>5. /\ entries[next] \in Entry /\ entries[next].key \in Keys
      /\ entries[next].psl \in Nat /\ entries[next].psl > 0
  BY <1>1, <1>3, StoredEntry DEF Shiftable
<1>6. /\ entries'[curr].key = entries[next].key
      /\ entries'[curr].hash = entries[next].hash
      /\ entries'[curr].value = entries[next].value
      /\ entries'[curr].psl = entries[next].psl - 1
      /\ \A i \in Slots : i # curr => entries'[i] = entries[i]
  <2>1. entries'[curr] = [entries[next] EXCEPT !.psl = entries[next].psl - 1]
    BY <1>1, <1>2 DEF HInv, TypeOK
  <2> QED
    BY <1>1, <1>2, <1>5, <2>1 DEF HInv, TypeOK, Entry
<1>7. entries'[curr].key # NoKey
  BY <1>5, <1>6, HashMapAssumption
<1>8. StoredSlots' = (StoredSlots \ {next}) \cup {curr}
  BY <1>1, <1>2, <1>3, <1>4, <1>6, <1>7 DEF StoredSlots, Stored, Hole, Occupied
<1> QED
  BY <1>1, <1>2, <1>3, <1>4, <1>5, <1>6, <1>8

LEMMA ShiftBackInv == ASSUME HInv, TypeOK', PslIsDistance', ShiftBack PROVE HInv'
<1> DEFINE next == NextSlot(curr)
<1>1. /\ pc = "shift" /\ pc' = "shift" /\ curr' = next
      /\ curr \in Slots /\ next \in Slots /\ next # curr
      /\ next \in StoredSlots /\ curr \notin StoredSlots
      /\ entries[next].psl \in Nat /\ entries[next].psl > 0
      /\ entries'[curr].key = entries[next].key
      /\ entries'[curr].hash = entries[next].hash
      /\ entries'[curr].psl = entries[next].psl - 1
      /\ \A i \in Slots : i # curr => entries'[i] = entries[i]
      /\ Slots' = Slots /\ capacity \in Nat /\ capacity > 0
      /\ StoredSlots' = (StoredSlots \ {next}) \cup {curr}
      /\ UNCHANGED <<capacity, live, size, max_psl, scan, old_capacity, old_entries>>
  BY ShiftBackEffect
<1>b. Passable(next, 0) /\ next = NextSlot(curr)
  BY <1>1 DEF Passable, StoredSlots, Stored
<1> HIDE DEF next
<1>2. \A i \in StoredSlots : i \in Slots /\ Stored(i) /\ Occupied(i)
  BY DEF StoredSlots, Stored
<1>3. Occupied(next) /\ \A i \in Slots : Occupied(i)' <=> Occupied(i) \/ i = curr
  BY <1>1, <1>2, HashMapAssumption, StoredEntry DEF Occupied
<1>4. ASSUME NEW s \in Slots, NEW d \in Nat, Passable(s, d),
             s = curr => Passable(next, d + 1)
      PROVE  Passable(s, d)'
  <2>1. CASE s = curr
    <3>1. entries[next].psl >= d + 1
      BY <1>1, <1>4, <2>1 DEF Passable, Hole
    <3> QED
      BY <1>1, <1>3, <2>1, <3>1 DEF Passable
  <2>2. CASE s = next
    BY <1>1, <2>2 DEF Passable, Hole
  <2>3. CASE s # curr /\ s # next
    BY <1>1, <1>3, <1>4, <2>3 DEF Passable, Hole
  <2> QED
    BY <2>1, <2>2, <2>3
<1>5. ProbeChain'
  <2>1. ASSUME NEW i \in Slots, NEW s \in Slots, Stored(i)', NEW d \in 0 .. entries'[i].psl,
               s = (entries'[i].hash + d) % capacity
        PROVE  Passable(s, d)'
    <3> DEFINE j == IF i = curr THEN next ELSE i
    <3>1. i # next /\ i \in StoredSlots'
      BY <1>1, <2>1 DEF Stored, Hole, StoredSlots
    <3>2. j \in StoredSlots /\ entries'[i].hash = entries[j].hash
      BY <1>1, <3>1
    <3>3. entries[j].psl \in Nat /\ d \in 0 .. entries[j].psl /\ d \in Nat
      BY <1>1, <1>2, <2>1, <3>1, <3>2, StoredEntry
    <3> HIDE DEF j
    <3>4. Passable(s, d)
      BY <1>2, <2>1, <3>2, <3>3 DEF HInv, ProbeChain
    <3>5. s = curr => Passable(next, d + 1)
      BY <1>1, <1>b, <2>1, <3>2, <3>3, ChainBeyondHole
    <3> QED
      BY <1>4, <3>3, <3>4, <3>5
  <2>2. ~Probing'
    BY <1>1 DEF Probing
  <2> QED
    BY <1>1, <2>1, <2>2, ChainSuffices
<1>6. UniqueKeys'
  <2>1. OldSlots' = {} /\ ~Probing'
    BY <1>1 DEF HInv, TypeOK, OldSlots, Resizing, Probing
  <2>2. \A i, j \in StoredSlots' : entries'[i].key = entries'[j].key => i = j
    BY <1>1, <1>2 DEF HInv, UniqueKeys
  <2> QED
    BY <2>1, <2>2 DEF UniqueKeys, IncomingNotPassed
<1>7. Cardinality(StoredSlots') = Cardinality(StoredSlots)
  <2>1. /\ IsFiniteSet(StoredSlots \ {next})
        /\ Cardinality(StoredSlots \ {next}) = Cardinality(StoredSlots) - 1
    BY <1>1, SlotsFinite, FS_RemoveElement DEF HInv
  <2>2. Cardinality((StoredSlots \ {next}) \cup {curr}) = Cardinality(StoredSlots \ {next}) + 1
    BY <1>1, <2>1, FS_AddElement
  <2> QED
    BY <1>1, <2>1, <2>2, SlotsFinite DEF HInv
<1>8. \A i \in Slots : Occupied(i)' => entries'[i].psl < capacity
  BY <1>1, <1>2, <1>3, StoredEntry
<1>9. RoomToProbe'
  <2>1. ~Probing' /\ \A i \in StoredSlots' : i \in Slots /\ Occupied(i)'
    BY <1>1, <1>2, <1>3 DEF Probing
  <2> QED
    BY <1>1, <1>7, <1>8, <2>1 DEF HInv, RoomToProbe
<1>10. PslsInTable' /\ LoadBound'
  BY <1>1, <1>8 DEF HInv, PslsInTable, LoadBound, Resizing
<1> QED
  BY <1>5, <1>6, <1>9, <1>10 DEF HInv

(* What the end of the shift does: the hole is emptied, and max_psl is     *)
(* left alone or becomes the highest psl of the entries that remain.       *)
LEMMA ShiftEndEffect ==
  ASSUME HInv, ShiftEnd
  PROVE  /\ pc = "shift" /\ pc' = "idle" /\ curr \in Slots
         /\ entries'[curr] = Blank
         /\ \A i \in Slots : i # curr => entries'[i] = entries[i]
         /\ Slots' = Slots /\ capacity \in Nat /\ capacity > 0
         /\ \A i \in Slots : Stored(i)' <=> Stored(i)
         /\ \A i \in Slots : Occupied(i)' <=> Stored(i)
         /\ StoredSlots' = StoredSlots /\ curr \notin StoredSlots
         /\ max_psl' = max_psl \/ max_psl' \in HighestPsls(entries')
         /\ UNCHANGED <<capacity, live, size, scan, old_capacity, old_entries>>
<1>1. /\ pc = "shift" /\ pc' = "idle" /\ curr \in Slots
      /\ entries' = [entries EXCEPT ![curr] = Blank]
      /\ max_psl' = max_psl \/ max_psl' \in HighestPsls(entries')
      /\ UNCHANGED <<capacity, live, size, scan, old_capacity, old_entries>>
  BY DEF ShiftEnd, resizeVars, HInv, TypeOK
<1>2. /\ entries'[curr] = Blank
      /\ \A i \in Slots : i # curr => entries'[i] = entries[i]
      /\ Slots' = Slots /\ capacity \in Nat /\ capacity > 0
  BY <1>1 DEF HInv, TypeOK, Slots
<1>3. \A i \in Slots : /\ Stored(i)' <=> Stored(i)
                       /\ Occupied(i)' <=> Stored(i)
  BY <1>1, <1>2 DEF Stored, Hole, Occupied, Blank
<1> QED
  BY <1>1, <1>2, <1>3 DEF StoredSlots, Stored, Hole

(* recalculate_max_psl finds no psl lower than a remaining one, and 0 or   *)
(* the psl of a remaining entry.                                           *)
LEMMA HighestPslBounds ==
  ASSUME NEW t, NEW p \in HighestPsls(t)
  PROVE  /\ \A i \in DOMAIN t : t[i].key # NoKey => t[i].psl <= p
         /\ p = 0 \/ \E i \in DOMAIN t : t[i].key # NoKey /\ p = t[i].psl
  BY DEF HighestPsls, Psls

LEMMA ShiftEndInv == ASSUME HInv, TypeOK', PslIsDistance', ShiftEnd PROVE HInv'
<1>1. /\ pc = "shift" /\ pc' = "idle" /\ curr \in Slots
      /\ entries'[curr] = Blank
      /\ \A i \in Slots : i # curr => entries'[i] = entries[i]
      /\ Slots' = Slots /\ capacity \in Nat /\ capacity > 0
      /\ \A i \in Slots : Stored(i)' <=> Stored(i)
      /\ \A i \in Slots : Occupied(i)' <=> Stored(i)
      /\ StoredSlots' = StoredSlots /\ curr \notin StoredSlots
      /\ max_psl' = max_psl \/ max_psl' \in HighestPsls(entries')
      /\ UNCHANGED <<capacity, live, size, scan, old_capacity, old_entries>>
  BY ShiftEndEffect
<1>2. \A i \in StoredSlots : i \in Slots /\ Occupied(i) /\ entries'[i] = entries[i]
  BY <1>1 DEF StoredSlots, Stored
<1>3. ~Shiftable(NextSlot(curr))
  BY DEF ShiftEnd
<1>4. ASSUME NEW i \in StoredSlots, NEW d \in 0 .. entries[i].psl
      PROVE  (entries[i].hash + d) % capacity # curr
  <2> SUFFICES ASSUME curr = (entries[i].hash + d) % capacity PROVE FALSE
    OBVIOUS
  <2> DEFINE next == NextSlot(curr)
  <2>1. d + 1 \in 0 .. entries[i].psl /\ Passable(next, d + 1)
    BY <1>1, ChainBeyondHole
  <2>2. next \in Slots
    BY <1>1, NextSlotInRange DEF HInv
  <2>3. CASE next = curr
    <3>1. capacity = 1
      <4>1. SUFFICES ASSUME capacity > 1 PROVE FALSE
        BY <1>1
      <4>2. curr % capacity = curr /\ curr \in Nat
        BY <1>1, ModSmall DEF Slots
      <4>3. curr % capacity # (curr + 1) % capacity
        BY <1>1, <4>1, <4>2, ModApart
      <4> QED
        BY <2>3, <4>2, <4>3 DEF NextSlot
    <3> QED
      BY <1>1, <1>2, <3>1 DEF Slots
  <2>4. CASE next # curr
    <3>1. Occupied(next) /\ entries[next].psl >= d + 1
      BY <2>1, <2>4 DEF Passable, Hole
    <3>2. entries[next].psl \in Nat /\ d \in Nat /\ entries[i].psl \in Nat
      BY <1>2, <2>2, <3>1, StoredEntry
    <3> QED
      BY <1>3, <3>1, <3>2 DEF Shiftable
  <2> QED
    BY <2>3, <2>4
<1>5. ProbeChain'
  <2>1. ASSUME NEW i \in Slots, NEW s \in Slots, Stored(i)', NEW d \in 0 .. entries'[i].psl,
               s = (entries'[i].hash + d) % capacity
        PROVE  Passable(s, d)'
    <3>1. i \in StoredSlots /\ Stored(i) /\ entries'[i] = entries[i]
      BY <1>1, <1>2, <2>1 DEF StoredSlots
    <3>2. Passable(s, d) /\ s # curr
      BY <1>4, <2>1, <3>1 DEF HInv, ProbeChain
    <3> QED
      BY <1>1, <3>2 DEF Passable, Hole, Stored
  <2>2. ~Probing'
    BY <1>1 DEF Probing
  <2> QED
    BY <1>1, <2>1, <2>2, ChainSuffices
<1>6. UniqueKeys'
  <2>1. OldSlots' = {} /\ ~Probing'
    BY <1>1 DEF HInv, TypeOK, OldSlots, Resizing, Probing
  <2> QED
    BY <1>1, <1>2, <2>1 DEF HInv, UniqueKeys, IncomingNotPassed
<1>7. RoomToProbe'
  BY <1>1, <1>2 DEF HInv, RoomToProbe, Probing
<1>8. \A i \in Slots : Occupied(i)' => entries'[i].psl < capacity
  BY <1>1, <1>2, StoredEntry DEF StoredSlots
<1>9. max_psl' < capacity
  <2>1. CASE max_psl' = max_psl
    BY <1>1, <2>1 DEF HInv, TypeOK, PslsInTable
  <2>2. CASE max_psl' \in HighestPsls(entries')
    <3>1. DOMAIN entries' = Slots
      BY <1>1 DEF TypeOK
    <3> QED
      BY <1>1, <1>8, <2>2, <3>1, HighestPslBounds DEF Occupied
  <2> QED
    BY <1>1, <2>1, <2>2
<1>10. PslsInTable' /\ LoadBound'
  BY <1>1, <1>8, <1>9 DEF PslsInTable, LoadBound, Resizing
<1> QED
  BY <1>5, <1>6, <1>7, <1>10 DEF HInv

LEMMA StepInv == ASSUME HInv, TypeOK', PslIsDistance', Step PROVE HInv'
  BY PlaceInv, OverwriteInv, SwapInv, ProbeOnInv, RehashSkipInv, RehashEntryInv,
     RehashDoneInv, ShiftBackInv, ShiftEndInv DEF Step

-----------------------------------------------------------------------------
(* The calls                                                               *)

(* Between calls nothing is in flight and no resize has anything left.     *)
LEMMA IdleFacts ==
  ASSUME HInv, pc = "idle"
  PROVE  /\ ~Probing /\ ~Resizing /\ old_capacity = 0 /\ OldSlots = {}
         /\ pend = Blank /\ StoredSlots = {i \in Slots : Occupied(i)}
         /\ \A i \in Slots : Stored(i) <=> Occupied(i)
  BY DEF HInv, TypeOK, Probing, Resizing, OldSlots, StoredSlots, Stored, Hole

(* An empty table satisfies every clause.                                  *)
LEMMA EmptyTableInv ==
  ASSUME TypeOK, PslIsDistance, pc = "idle", capacity \in Nat,
         entries = NewTable(capacity), size = 0, max_psl = 0, live => capacity > 0
  PROVE  HInv
<1>1. \A i \in Slots : ~Occupied(i)
  BY DEF Slots, Occupied, NewTable, Blank
<1>2. ~Probing /\ ~Resizing /\ OldSlots = {} /\ StoredSlots = {}
  BY <1>1 DEF Probing, Resizing, OldSlots, StoredSlots, Stored, TypeOK
<1>3. Cardinality(StoredSlots) = 0
  BY <1>2, FS_EmptySet
<1> QED
  BY <1>1, <1>2, <1>3 DEF HInv, ProbeChain, Stored, UniqueKeys, IncomingNotPassed,
     RoomToProbe, PslsInTable, LoadBound, Probing

LEMMA CreateInv ==
  ASSUME HInv, TypeOK', PslIsDistance', NEW c \in InitCaps, Create(c) PROVE HInv'
<1>1. /\ capacity' \in Nat /\ capacity' > 0 /\ entries' = NewTable(capacity')
      /\ size' = 0 /\ max_psl' = 0 /\ pc' = "idle" /\ live'
  BY HashMapAssumption DEF Create, HInv, TypeOK
<1>2. \A i \in Slots' : ~(entries'[i].key # NoKey)
  BY <1>1 DEF Slots, NewTable, Blank
<1>3. ~Probing' /\ ~Resizing' /\ OldSlots' = {} /\ StoredSlots' = {}
  BY <1>1, <1>2 DEF Probing, Resizing, OldSlots, StoredSlots, Stored, Occupied, TypeOK
<1>4. Cardinality(StoredSlots') = 0
  BY <1>3, FS_EmptySet
<1>5. ProbeChain' /\ UniqueKeys'
  BY <1>2, <1>3 DEF ProbeChain, Stored, Occupied, UniqueKeys, IncomingNotPassed
<1>6. RoomToProbe' /\ PslsInTable' /\ LoadBound'
  BY <1>1, <1>2, <1>3, <1>4 DEF RoomToProbe, PslsInTable, LoadBound, Occupied
<1> QED
  BY <1>5, <1>6 DEF HInv

LEMMA FreeInv == ASSUME HInv, TypeOK', PslIsDistance', Free PROVE HInv'
<1>1. /\ capacity' = 0 /\ entries' = NewTable(0)
      /\ size' = 0 /\ max_psl' = 0 /\ pc' = "idle" /\ ~live'
  BY DEF Free
<1>2. Slots' = {}
  BY <1>1 DEF Slots
<1>3. ~Probing' /\ ~Resizing' /\ OldSlots' = {} /\ StoredSlots' = {}
  BY <1>1, <1>2 DEF Probing, Resizing, OldSlots, StoredSlots, TypeOK
<1>4. Cardinality(StoredSlots') = 0
  BY <1>3, FS_EmptySet
<1> QED
  BY <1>1, <1>2, <1>3, <1>4 DEF HInv, ProbeChain, UniqueKeys,
     IncomingNotPassed, RoomToProbe, PslsInTable, LoadBound

LEMMA InsertInv ==
  ASSUME HInv, TypeOK', PslIsDistance', NEW k \in Keys, NEW v \in Values, Insert(k, v)
  PROVE  HInv'
<1>1. /\ live /\ pc = "idle" /\ pc' = "place" /\ ~AtThreshold
      /\ incoming' = [key |-> k, value |-> v, hash |-> Hash[k], psl |-> 0]
      /\ UNCHANGED <<entries, capacity, live, size, max_psl, scan, old_capacity,
                     old_entries, curr>>
  BY DEF Insert, StartProbe, tableVars, resizeVars, removeVars
<1>2. /\ capacity \in Nat /\ capacity > 0 /\ size \in Nat
      /\ OldSlots' = {} /\ Slots' = Slots /\ StoredSlots' = StoredSlots
      /\ ~Resizing'
  BY <1>1, IdleFacts, SlotsFinite
  DEF HInv, TypeOK, OldSlots, Slots, StoredSlots, Stored, Occupied, Hole, RoomToProbe, Resizing
<1>3. ProbeChain'
  BY <1>1 DEF HInv, ProbeChain, Slots, Stored, Occupied, Hole, Passable, Probing
<1>4. UniqueKeys'
  <2>1. \A i \in StoredSlots : entries[i].psl \in Nat
    BY StoredEntry DEF StoredSlots, Stored
  <2> QED
    BY <1>1, <1>2, <2>1 DEF HInv, UniqueKeys, IncomingNotPassed
<1>5. (size + 1) * 4 <= capacity * 3
  BY <1>1, <1>2 DEF AtThreshold
<1>6. RoomToProbe' /\ PslsInTable' /\ LoadBound'
  BY <1>1, <1>2, <1>5 DEF HInv, RoomToProbe, PslsInTable, LoadBound, Occupied
<1> QED
  BY <1>3, <1>4, <1>6 DEF HInv

LEMMA StartResizeInv ==
  ASSUME HInv, TypeOK', PslIsDistance', live, pc = "idle", StartResize,
         live' = live, max_psl' = max_psl
  PROVE  HInv'
<1>1. /\ pc' = "rehash" /\ scan' = 0 /\ size' = 0
      /\ old_capacity' = capacity /\ old_entries' = entries
      /\ capacity' = capacity * 2 /\ entries' = NewTable(capacity * 2)
  BY DEF StartResize
<1>2. /\ capacity \in Nat /\ capacity > 0 /\ capacity * 2 \in Nat /\ max_psl < capacity
      /\ max_psl \in Nat
  BY DEF HInv, TypeOK, PslsInTable
<1>3. \A i \in Slots' : ~(entries'[i].key # NoKey)
  BY <1>1 DEF Slots, NewTable, Blank
<1>4. ~Probing' /\ StoredSlots' = {} /\ OldSlots' = StoredSlots
  BY <1>1, <1>3, IdleFacts DEF Probing, StoredSlots, Stored, OldSlots, Slots, Occupied
<1>5. Cardinality(StoredSlots') = 0
  BY <1>4, FS_EmptySet
<1>6. UniqueKeys'
  BY <1>1, <1>4 DEF HInv, UniqueKeys, IncomingNotPassed
<1>7. LoadBound'
  <2>1. size = Cardinality(StoredSlots) /\ size \in Nat /\ size * 4 <= capacity * 3
    BY SlotsFinite DEF HInv, RoomToProbe
  <2> QED
    BY <1>1, <1>2, <1>4, <2>1 DEF LoadBound, Carried
<1> QED
  BY <1>1, <1>2, <1>3, <1>4, <1>5, <1>6, <1>7
  DEF HInv, ProbeChain, Stored, Occupied, RoomToProbe, PslsInTable

(* A hit is a stored entry with the key that was looked up.                *)
LEMMA HitStored ==
  ASSUME HInv, pc = "idle", live, NEW k \in Keys, NEW d \in Hits(k)
  PROVE  /\ Slot(k, d) \in StoredSlots /\ entries[Slot(k, d)].key = k
         /\ d \in Nat /\ d < capacity
<1>1. d \in 0 .. max_psl /\ Hit(k, d)
  BY DEF Hits
<1>2. capacity \in Nat /\ capacity > 0 /\ max_psl \in Nat /\ max_psl < capacity /\ d \in Nat
  BY <1>1 DEF HInv, TypeOK, PslsInTable
<1>3. Slot(k, d) \in Slots
  BY <1>2, HashMapAssumption, ProbeSlot DEF Slot, HInv
<1>4. Occupied(Slot(k, d)) /\ entries[Slot(k, d)].key = k
  BY <1>1, <1>2 DEF Hit
<1> QED
  BY <1>1, <1>2, <1>3, <1>4, IdleFacts

LEMMA RemoveFoundInv ==
  ASSUME HInv, TypeOK', PslIsDistance', NEW k \in Keys, RemoveFound(k)
  PROVE  HInv'
<1>1. /\ live /\ pc = "idle" /\ pc' = "shift" /\ size' = size - 1
      /\ UNCHANGED <<entries, capacity, live, max_psl, scan, old_capacity, old_entries,
                     index, incoming>>
  BY DEF RemoveFound, resizeVars, insertVars
<1>2. PICK d \in FirstHits(k) : curr' = Slot(k, d)
  BY DEF RemoveFound
<1>3. curr' \in StoredSlots
  BY <1>1, <1>2, HitStored DEF FirstHits
<1>4. Slots' = Slots /\ OldSlots' = {} /\ ~Probing' /\ StoredSlots' = StoredSlots \ {curr'}
  BY <1>1, IdleFacts DEF Slots, OldSlots, Probing, StoredSlots, Stored, Occupied, Hole
<1>5. ProbeChain'
  BY <1>1, <1>4 DEF HInv, ProbeChain, Slots, Stored, Occupied, Hole, Passable
<1>6. UniqueKeys'
  BY <1>1, <1>4 DEF HInv, UniqueKeys, IncomingNotPassed
<1>7. RoomToProbe'
  <2>1. Cardinality(StoredSlots \ {curr'}) = Cardinality(StoredSlots) - 1
    BY <1>3, SlotsFinite, FS_RemoveElement DEF HInv
  <2>2. size \in Nat /\ capacity \in Nat
    BY SlotsFinite DEF HInv, RoomToProbe, TypeOK
  <2> QED
    BY <1>1, <1>4, <2>1, <2>2 DEF HInv, RoomToProbe
<1>8. PslsInTable' /\ LoadBound'
  BY <1>1, <1>4 DEF HInv, PslsInTable, LoadBound, Occupied, Resizing
<1> QED
  BY <1>5, <1>6, <1>7, <1>8 DEF HInv

(* A step that leaves the map alone: stuttering, failing and iterator      *)
(* calls.                                                                  *)
LEMMA KeepInv ==
  ASSUME HInv, TypeOK', PslIsDistance',
         UNCHANGED <<live, tableVars, pc, insertVars, resizeVars, removeVars>>
  PROVE  HInv'
<1>1. UNCHANGED <<live, capacity, size, max_psl, entries, pc, index, incoming,
                  old_capacity, old_entries, scan, curr>>
  BY DEF tableVars, insertVars, resizeVars, removeVars
<1>2. Slots' = Slots /\ StoredSlots' = StoredSlots /\ OldSlots' = OldSlots
  BY <1>1 DEF Slots, StoredSlots, OldSlots, Stored, Occupied, Hole
<1>3. ProbeChain'
  BY <1>1 DEF HInv, ProbeChain, Slots, Stored, Occupied, Hole, Passable, Probing
<1>4. UniqueKeys'
  BY <1>1, <1>2 DEF HInv, UniqueKeys, IncomingNotPassed, Probing
<1> QED
  BY <1>1, <1>2, <1>3, <1>4 DEF HInv, RoomToProbe, PslsInTable, LoadBound, Probing,
     Resizing, Carried, Occupied

LEMMA CallInv == ASSUME HInv, TypeOK', PslIsDistance', MapCall \/ IterCall PROVE HInv'
<1>1. ASSUME NEW k \in Keys, NEW v \in Values, InsertResize(k, v) PROVE HInv'
  BY <1>1, StartResizeInv DEF InsertResize
<1>2. CASE Resize
  BY <1>2, StartResizeInv DEF Resize
<1>3. CASE CreateOOM \/ ResizeOOM \/ (\E k \in Keys : RemoveMiss(k)) \/ IterCall
  BY <1>3, KeepInv DEF CreateOOM, ResizeOOM, RemoveMiss, IterCall, NewIter, HasNext,
     IterNext, IterEnd, IterInvalid, FreeIter
<1> QED
  BY <1>1, <1>2, <1>3, CreateInv, FreeInv, InsertInv, RemoveFoundInv DEF MapCall

LEMMA InitInv == Init => HInv
<1> SUFFICES ASSUME Init PROVE HInv
  OBVIOUS
<1>1. /\ pc = "idle" /\ capacity = 0 /\ entries = NewTable(capacity) /\ size = 0
      /\ max_psl = 0 /\ ~live
  BY DEF Init
<1> QED
  BY <1>1, InitType, InitDistance, EmptyTableInv

LEMMA NextInv == ASSUME HInv, [Next]_vars PROVE HInv'
<1>1. TypeOK'
  BY NextType DEF HInv
<1>2. PslIsDistance'
  <2>1. CASE UNCHANGED vars
    BY <2>1 DEF HInv, vars, PslIsDistance, AtDistance, Slots, Occupied, Probing,
       tableVars, insertVars, resizeVars
  <2> QED
    BY <1>1, <2>1, StepDistance, CallDistance DEF HInv, Next
<1>3. CASE UNCHANGED vars
  BY <1>1, <1>2, <1>3, KeepInv DEF vars
<1> QED
  BY <1>1, <1>2, <1>3, StepInv, CallInv DEF Next

-----------------------------------------------------------------------------
(* The safety invariants                                                   *)

LEMMA InvCorrect == Spec => []HInv
  BY InitInv, NextInv, PTL DEF Spec

(* No swap, rehash or shift breaks the run of filled slots between a       *)
(* stored key and its home, or leaves a richer entry on it.                *)
THEOREM ProbeChainCorrect == Spec => []ProbeChain
<1>1. HInv => ProbeChain
  BY DEF HInv
<1> QED
  BY <1>1, InvCorrect, PTL

(* No key is stored twice, nor in both tables while one is rehashed.       *)
THEOREM UniqueKeysCorrect == Spec => []UniqueKeys
<1>1. HInv => UniqueKeys
  BY DEF HInv
<1> QED
  BY <1>1, InvCorrect, PTL

(* The table is never more than three quarters full, so every probe loop   *)
(* of internal_insert ends within one turn.                                *)
THEOREM RoomCorrect == Spec => []RoomToProbe
<1>1. HInv => RoomToProbe
  BY DEF HInv
<1> QED
  BY <1>1, InvCorrect, PTL

-----------------------------------------------------------------------------
(* Lookups                                                                 *)

(* A key has one home in the table, and a probe that meets the key meets   *)
(* it there, at the distance its psl records.                              *)
LEMMA HitIsHome ==
  ASSUME HInv, pc = "idle", live, NEW k \in Keys, NEW i \in Home(k), NEW d \in Hits(k)
  PROVE  d = entries[i].psl
<1>1. i \in StoredSlots /\ entries[i].key = k
  BY DEF Home
<1>2. Slot(k, d) \in StoredSlots /\ entries[Slot(k, d)].key = k /\ d \in Nat /\ d < capacity
  BY HitStored
<1>3. i = Slot(k, d)
  BY <1>1, <1>2 DEF HInv, UniqueKeys
<1>4. /\ entries[i].psl \in Nat /\ entries[i].psl < capacity /\ entries[i].hash = Hash[k]
      /\ i = (Hash[k] + entries[i].psl) % capacity
      /\ capacity \in Nat /\ Hash[k] \in Nat
  BY <1>1, StoredEntry, HashMapAssumption DEF StoredSlots, Stored, HInv, TypeOK
<1> DEFINE x == Hash[k] + d
           y == Hash[k] + entries[i].psl
<1>5. x \in Nat /\ y \in Nat /\ x < y + capacity /\ y < x + capacity /\ capacity > 0
  BY <1>2, <1>4
<1>6. x % capacity = y % capacity
  BY <1>3, <1>4 DEF Slot
<1>7. (x = y) => d = entries[i].psl
  BY <1>2, <1>4
<1> HIDE DEF x, y
<1>8. ~(x < y) /\ ~(y < x)
  BY <1>4, <1>5, <1>6, ModApart
<1> QED
  BY <1>5, <1>7, <1>8

(* A stored key whose psl the limit covers is met.                         *)
LEMMA HomeIsHit ==
  ASSUME HInv, pc = "idle", live, NEW k \in Keys, NEW i \in Home(k),
         entries[i].psl <= max_psl
  PROVE  entries[i].psl \in Hits(k) /\ Slot(k, entries[i].psl) = i
<1>1. /\ i \in Slots /\ Stored(i) /\ Occupied(i) /\ entries[i].key = k
  BY DEF Home, StoredSlots, Stored
<1>2. /\ entries[i].psl \in Nat /\ entries[i].hash = Hash[k]
      /\ i = (Hash[k] + entries[i].psl) % capacity /\ max_psl \in Nat
  BY <1>1, StoredEntry DEF HInv, TypeOK
<1>3. \A e \in 0 .. entries[i].psl : Occupied(Slot(k, e))
  <2> SUFFICES ASSUME NEW e \in 0 .. entries[i].psl PROVE Occupied(Slot(k, e))
    OBVIOUS
  <2>1. Passable(Slot(k, e), e)
    BY <1>1, <1>2 DEF HInv, ProbeChain, Slot
  <2> QED
    BY <2>1 DEF Passable, Hole
<1>4. Slot(k, entries[i].psl) = i
  BY <1>2 DEF Slot
<1> QED
  BY <1>1, <1>2, <1>3, <1>4 DEF Hits, Hit

LEMMA LookupFromInv == HInv => LookupExact
<1> SUFFICES ASSUME HInv, live, pc = "idle", NEW k \in Keys
             PROVE  \/ Get(k) = Contents[k]
                    \/ Get(k) = NoValue /\ \E i \in Home(k) : entries[i].psl > max_psl
  BY DEF LookupExact
<1>1. OldHome(k) = {} /\ ~Probing /\ pend.key # k
  BY IdleFacts, HashMapAssumption DEF OldHome, Blank
<1>2. Contents[k] = IF Home(k) # {} THEN entries[CHOOSE i \in Home(k) : TRUE].value
                                    ELSE NoValue
  BY <1>1 DEF Contents, Binding
<1>3. CASE Home(k) = {}
  <2>1. Hits(k) = {}
    BY <1>3, HitStored DEF Home
  <2> QED
    BY <1>2, <1>3, <2>1 DEF Get
<1>4. ASSUME NEW i \in Home(k), max_psl < entries[i].psl
      PROVE  Get(k) = NoValue
  <2>1. \A d \in Hits(k) : d \in 0 .. max_psl /\ d = entries[i].psl
    BY HitIsHome DEF Hits
  <2>2. Hits(k) = {}
    BY <1>4, <2>1 DEF HInv, TypeOK
  <2> QED
    BY <2>2 DEF Get
<1>5. ASSUME NEW i \in Home(k), entries[i].psl <= max_psl
      PROVE  Get(k) = Contents[k]
  <2>1. entries[i].psl \in Hits(k) /\ Slot(k, entries[i].psl) = i
    BY <1>5, HomeIsHit
  <2>2. \A d \in Hits(k) : d = entries[i].psl
    BY HitIsHome
  <2>3. FirstHits(k) = {entries[i].psl}
    BY <2>1, <2>2, HitStored DEF FirstHits
  <2>4. Home(k) = {i}
    BY DEF Home, HInv, UniqueKeys
  <2>5. (CHOOSE d \in FirstHits(k) : TRUE) = entries[i].psl /\ (CHOOSE j \in Home(k) : TRUE) = i
    BY <2>3, <2>4
  <2> QED
    BY <1>2, <2>1, <2>4, <2>5 DEF Get
<1>6. \A i \in Home(k) : entries[i].psl \in Nat /\ max_psl \in Nat
  BY StoredEntry DEF Home, StoredSlots, Stored, HInv, TypeOK
<1> QED
  BY <1>3, <1>4, <1>5, <1>6

(* Between calls get_hashmap answers what is stored; it misses a stored    *)
(* key only when the key lies beyond max_psl.                              *)
THEOREM LookupCorrect == Spec => []LookupExact
  BY LookupFromInv, InvCorrect, PTL

-----------------------------------------------------------------------------
(* Removals                                                                *)

(* The shift and the recalculation of max_psl leave every entry that the   *)
(* limit covered within it.                                                *)
LEMMA RemovalStep == ASSUME HInv, HInv', [Next]_vars, pc = "shift", Covered PROVE Covered'
<1>1. CASE ShiftBack
  <2> DEFINE next == NextSlot(curr)
  <2>1. /\ next \in StoredSlots /\ curr \in Slots /\ max_psl' = max_psl /\ max_psl \in Nat
        /\ entries[next].psl \in Nat
        /\ entries'[curr].psl = entries[next].psl - 1
        /\ \A i \in Slots : i # curr => entries'[i] = entries[i]
        /\ StoredSlots' = (StoredSlots \ {next}) \cup {curr}
    BY <1>1, ShiftBackEffect DEF HInv, TypeOK
  <2> HIDE DEF next
  <2> QED
    BY <2>1 DEF Covered, StoredSlots
<1>2. CASE ShiftEnd
  <2>1. /\ \A i \in Slots : i # curr => entries'[i] = entries[i]
        /\ Slots' = Slots /\ StoredSlots' = StoredSlots /\ curr \notin StoredSlots
        /\ \A i \in Slots : Occupied(i)' <=> Stored(i)
        /\ max_psl' = max_psl \/ max_psl' \in HighestPsls(entries')
    BY <1>2, ShiftEndEffect
  <2>2. CASE max_psl' = max_psl
    BY <2>1, <2>2 DEF Covered, StoredSlots
  <2>3. CASE max_psl' \in HighestPsls(entries')
    <3>1. DOMAIN entries' = Slots
      BY <2>1 DEF HInv, TypeOK
    <3>2. \A i \in Slots : Occupied(i)' => entries'[i].psl <= max_psl'
      BY <2>3, <3>1, HighestPslBounds DEF Occupied
    <3> QED
      BY <2>1, <3>2 DEF Covered, StoredSlots
  <2> QED
    BY <2>1, <2>2, <2>3
<1>3. CASE UNCHANGED vars
  BY <1>3 DEF vars, tableVars, removeVars, Covered, StoredSlots, Stored, Occupied, Hole, Slots
<1>4. live
  BY DEF HInv, TypeOK
<1> QED
  BY <1>1, <1>2, <1>3, <1>4 DEF Next, Step, RehashSkip, RehashEntry, RehashDone,
     PlaceIncoming, OverwriteValue, RobinHoodSwap, ProbeOn, Probing, MapCall, Create,
     CreateOOM, Free, Insert, InsertResize, Resize, ResizeOOM, RemoveFound, RemoveMiss,
     IterCall, NewIter, HasNext, IterNext, IterEnd, IterInvalid, FreeIter, Walking

(* A removal never puts a stored key that lookups reached beyond the limit *)
(* of their probes.                                                        *)
THEOREM RemovalCorrect == Spec => RemovalKeepsReach
<1>1. HInv /\ HInv' /\ [Next]_vars => [pc = "shift" /\ Covered => Covered']_vars
  BY RemovalStep
<1> QED
  BY <1>1, InvCorrect, PTL DEF Spec, RemovalKeepsReach

-----------------------------------------------------------------------------
(* Memory                                                                  *)

OpenIters == {it \in Iters : iters[it].open}
CellsInv == NoLeak /\ IsFiniteSet(OpenIters)

LEMMA CellsStep == ASSUME HInv, CellsInv, [Next]_vars PROVE CellsInv'
<1>1. /\ used \in Int /\ capacity \in Nat /\ old_capacity \in Nat
      /\ iters \in [Iters -> Iterator]
      /\ IsFiniteSet(OpenIters) /\ Cardinality(OpenIters) \in Nat
      /\ used = (IF live THEN 1 + capacity ELSE 0) + old_capacity + Cardinality(OpenIters)
  BY FS_CardinalityType DEF HInv, TypeOK, CellsInv, NoLeak, OpenIters
<1>2. ASSUME iters' = iters \/ Touch,
             used' - used = (IF live' THEN 1 + capacity' ELSE 0) + old_capacity'
                            - (IF live THEN 1 + capacity ELSE 0) - old_capacity,
             used' \in Int, capacity' \in Nat, old_capacity' \in Nat
      PROVE  CellsInv'
  <2>1. OpenIters' = OpenIters
    BY <1>1, <1>2 DEF OpenIters, Touch, Iterator
  <2>2. used' = (IF live' THEN 1 + capacity' ELSE 0) + old_capacity' + Cardinality(OpenIters)
    BY <1>1, <1>2
  <2> QED
    BY <1>1, <2>1, <2>2 DEF CellsInv, NoLeak, OpenIters
<1>3. CASE Step
  <2>1. pc # "idle" /\ live
    BY <1>3 DEF Step, RehashSkip, RehashEntry, RehashDone, PlaceIncoming, OverwriteValue,
       RobinHoodSwap, ProbeOn, ShiftBack, ShiftEnd, Probing, HInv, TypeOK
  <2>2. CASE RehashDone
    BY <1>1, <1>2, <2>2 DEF RehashDone
  <2>3. CASE ~RehashDone
    <3>1. UNCHANGED <<live, capacity, old_capacity, used>> /\ (iters' = iters \/ Touch)
      BY <1>3, <2>3 DEF Step, RehashSkip, RehashEntry, PlaceIncoming, OverwriteValue,
         RobinHoodSwap, ProbeOn, ShiftBack, ShiftEnd, tableVars, resizeVars
    <3> QED
      BY <1>1, <1>2, <3>1
  <2> QED
    BY <2>2, <2>3
<1>4. CASE MapCall
  <2>1. ASSUME NEW c \in InitCaps, Create(c) PROVE CellsInv'
    <3>1. /\ ~live /\ live' /\ capacity' \in Nat /\ used' = used + 1 + capacity'
          /\ old_capacity' = old_capacity /\ iters' = iters
      BY <2>1, HashMapAssumption DEF Create, resizeVars
    <3> QED
      BY <1>1, <1>2, <3>1
  <2>2. CASE Free
    <3>1. /\ live /\ ~live' /\ capacity' = 0 /\ used' = used - (1 + capacity)
          /\ old_capacity' = old_capacity /\ iters' = iters
      BY <2>2 DEF Free, resizeVars
    <3> QED
      BY <1>1, <1>2, <3>1
  <2>3. ASSUME live, pc = "idle", StartResize, live' = live, iters' = iters PROVE CellsInv'
    <3>1. /\ capacity' = 2 * capacity /\ used' = used + 2 * capacity
          /\ old_capacity' = capacity /\ old_capacity = 0
      BY <1>1, <2>3, IdleFacts DEF StartResize
    <3> QED
      BY <1>1, <1>2, <2>3, <3>1
  <2>4. ASSUME UNCHANGED <<live, capacity, old_capacity, used, iters>> PROVE CellsInv'
    BY <1>1, <1>2, <2>4
  <2> QED
    BY <1>4, <2>1, <2>2, <2>3, <2>4
    DEF MapCall, CreateOOM, Insert, InsertResize, Resize, ResizeOOM, RemoveFound,
        RemoveMiss, tableVars, resizeVars
<1>5. ASSUME NEW it \in Iters, NewIter(it) \/ FreeIter(it) PROVE CellsInv'
  <2>1. UNCHANGED <<live, capacity, old_capacity>>
    BY <1>5 DEF NewIter, FreeIter, tableVars, resizeVars
  <2>2. CASE NewIter(it)
    <3>1. OpenIters' = OpenIters \cup {it} /\ it \notin OpenIters /\ used' = used + 1
      BY <1>1, <2>2 DEF NewIter, OpenIters, ClosedIter
    <3>2. IsFiniteSet(OpenIters') /\ Cardinality(OpenIters') = Cardinality(OpenIters) + 1
      BY <1>1, <3>1, FS_AddElement
    <3> QED
      BY <1>1, <2>1, <3>1, <3>2 DEF CellsInv, NoLeak, OpenIters
  <2>3. CASE FreeIter(it)
    <3>1. OpenIters' = OpenIters \ {it} /\ it \in OpenIters /\ used' = used - 1
      BY <1>1, <2>3 DEF FreeIter, OpenIters, ClosedIter
    <3>2. IsFiniteSet(OpenIters') /\ Cardinality(OpenIters') = Cardinality(OpenIters) - 1
      BY <1>1, <3>1, FS_RemoveElement
    <3> QED
      BY <1>1, <2>1, <3>1, <3>2 DEF CellsInv, NoLeak, OpenIters
  <2> QED
    BY <1>5, <2>2, <2>3
<1>6. ASSUME NEW it \in Iters, HasNext(it) \/ IterNext(it) \/ IterEnd(it) \/ IterInvalid(it)
      PROVE  CellsInv'
  <2>1. UNCHANGED <<live, capacity, old_capacity, used>>
    BY <1>6 DEF HasNext, IterNext, IterEnd, IterInvalid, tableVars, resizeVars
  <2>2. OpenIters' = OpenIters
    BY <1>1, <1>6 DEF HasNext, IterNext, IterEnd, IterInvalid, OpenIters, Iterator
  <2> QED
    BY <1>1, <2>1, <2>2 DEF CellsInv, NoLeak, OpenIters
<1>7. CASE UNCHANGED vars
  BY <1>1, <1>2, <1>7 DEF vars, tableVars, resizeVars
<1> QED
  BY <1>3, <1>4, <1>5, <1>6, <1>7 DEF Next, IterCall

(* Every allocated cell belongs to the live table, the table a resize is   *)
(* about to free, or an open iterator: no path of the code leaks a table.  *)
THEOREM LeakFree == Spec => []NoLeak
<1>1. Init => CellsInv
  <2> SUFFICES ASSUME Init PROVE CellsInv
    OBVIOUS
  <2>1. OpenIters = {} /\ {it \in Iters : iters[it].open} = {}
    BY DEF Init, OpenIters, ClosedIter
  <2> QED
    BY <2>1, FS_EmptySet DEF Init, CellsInv, NoLeak
<1>2. CellsInv => NoLeak
  BY DEF CellsInv
<1> QED
  BY <1>1, <1>2, CellsStep, InvCorrect, PTL DEF Spec

-----------------------------------------------------------------------------
(* Iterators                                                               *)

(* Snapshots are never ahead of the version, a removal has already moved   *)
(* the version on while it shifts, and as long as no table is being        *)
(* rehashed an open iterator that is current is on the table it was made   *)
(* on, and exact if it is untouched.  A rehash suspends the last two, and  *)
(* the version it moves on before it ends leaves no iterator current.      *)
Current(it) == iters[it].snapshot_version = version
IterInv(it) ==
  iters[it].open =>
    /\ live
    /\ iters[it].snapshot_version <= version
    /\ pc = "shift" => ~Current(it)
    /\ Current(it) /\ ~Resizing =>
         /\ iters[it].made_on = capacity
         /\ ~iters[it].touched => Yielded(it)
AllIterInv == \A it \in Iters : IterInv(it)

(* A step that writes no key and no iterator keeps what was yielded.       *)
LEMMA YieldedKept ==
  ASSUME NEW it \in Iters, Yielded(it), iters'[it] = iters[it],
         StoredSlots' = StoredSlots,
         \A i \in StoredSlots : entries'[i].key = entries[i].key
  PROVE  Yielded(it)'
<1> DEFINE Below == {j \in StoredSlots : j < iters[it].current_index}
<1>1. Below' = Below
  OBVIOUS
<1>2. {entries'[i].key : i \in Below} = {entries[i].key : i \in Below}
  OBVIOUS
<1>3. {entries[i].key : i \in Below}' = {entries[i].key : i \in Below}
  BY <1>1, <1>2
<1> HIDE DEF Below
<1>4. {iters[it].seen[n] : n \in DOMAIN iters[it].seen} = {entries[i].key : i \in Below}
  BY DEF Yielded, Below
<1>5. ({iters[it].seen[n] : n \in DOMAIN iters[it].seen} = {entries[i].key : i \in Below})'
  BY <1>3, <1>4
<1> QED
  BY <1>5 DEF Yielded, Below

LEMMA MapStepIters ==
  ASSUME HInv, HInv', AllIterInv, Step \/ MapCall, NEW it \in Iters
  PROVE  IterInv(it)'
<1>1. /\ iters \in [Iters -> Iterator] /\ version \in Nat
      /\ iters[it].snapshot_version \in Nat
  BY DEF HInv, TypeOK, Iterator
<1>2. IterInv(it)
  BY DEF AllIterInv
<1>3. CASE ~iters[it].open /\ (iters' = iters \/ Touch)
  BY <1>1, <1>3 DEF IterInv, Touch, Iterator
<1>4. CASE iters' = iters /\ live' /\ version' = version + 1
  BY <1>1, <1>2, <1>4 DEF IterInv, Current
<1>5. CASE /\ Touch /\ Probing /\ live' /\ version' = version
           /\ capacity' = capacity /\ pc' # "shift" /\ (Resizing => Resizing')
  <2>1. CASE Resizing
    BY <1>1, <1>2, <1>5, <2>1 DEF IterInv, Current, Touch, Iterator
  <2>2. CASE ~Resizing
    <3>1. pc = "place"
      BY <1>5, <2>2 DEF Probing, Resizing
    <3>2. /\ iters[it] \in Iterator
          /\ iters'[it] = [iters[it] EXCEPT !.touched = @ \/ iters[it].open]
      BY <1>1, <1>5, <3>1 DEF Touch
    <3>3. /\ iters'[it].open = iters[it].open
          /\ iters'[it].snapshot_version = iters[it].snapshot_version
          /\ iters'[it].made_on = iters[it].made_on
          /\ iters'[it].touched = (iters[it].touched \/ iters[it].open)
      BY <3>2 DEF Iterator
    <3> QED
      BY <1>2, <1>5, <2>2, <3>3 DEF IterInv, Current
  <2> QED
    BY <2>1, <2>2
<1>6. CASE iters' = iters /\ live' /\ version' = version /\ Resizing'
  BY <1>2, <1>6 DEF IterInv, Current, Resizing
<1>7. CASE pc = "shift" /\ iters' = iters /\ live' /\ version' = version
  BY <1>2, <1>7 DEF IterInv, Current
<1>8. ASSUME iters' = iters, live' = live, version' = version, pc' # "shift",
             capacity' = capacity, ~Resizing, ~Resizing', StoredSlots' = StoredSlots,
             \A i \in StoredSlots : entries'[i].key = entries[i].key
      PROVE  IterInv(it)'
  BY <1>2, <1>8, YieldedKept DEF IterInv, Current
<1>9. CASE Step
  <2>1. live /\ live' = live
    BY <1>9 DEF Step, RehashSkip, RehashEntry, RehashDone, PlaceIncoming, OverwriteValue,
       RobinHoodSwap, ProbeOn, ShiftBack, ShiftEnd, Probing, HInv, TypeOK
  <2>2. CASE RehashDone
    BY <1>4, <2>1, <2>2 DEF RehashDone
  <2>3. CASE RehashSkip \/ RehashEntry
    BY <1>6, <2>1, <2>3 DEF RehashSkip, RehashEntry, tableVars, Resizing
  <2>4. CASE PlaceIncoming \/ RobinHoodSwap
    BY <1>5, <2>1, <2>4 DEF PlaceIncoming, RobinHoodSwap, EndProbe, Probing, Resizing
  <2>5. CASE ShiftBack \/ ShiftEnd
    BY <1>7, <2>1, <2>5 DEF ShiftBack, ShiftEnd
  <2>6. CASE OverwriteValue
    <3>1. iters' = iters /\ version' = version /\ pc' \in {"rehash", "idle"}
          /\ pc # "shift" /\ (Resizing => pc' = "rehash") /\ (Resizing' => pc' = "rehash")
      BY <2>6 DEF OverwriteValue, EndProbe, Probing, Resizing
    <3>2. capacity' = capacity /\ \A i \in Slots : entries'[i].key = entries[i].key
      BY <2>6 DEF OverwriteValue, HInv, TypeOK, Slots, Entry
    <3>3. StoredSlots' = StoredSlots
      BY <3>1, <3>2 DEF StoredSlots, Stored, Occupied, Hole, Slots
    <3>4. CASE pc' = "rehash"
      BY <1>6, <2>1, <3>1, <3>4 DEF Resizing
    <3>5. CASE pc' = "idle"
      BY <1>8, <2>1, <3>1, <3>2, <3>3, <3>5 DEF Resizing, StoredSlots
    <3> QED
      BY <3>1, <3>4, <3>5
  <2>7. CASE ProbeOn
    <3>1. /\ UNCHANGED <<iters, version, pc, capacity, entries>>
          /\ pc # "shift"
      BY <2>7 DEF ProbeOn, tableVars, Probing
    <3>2. StoredSlots' = StoredSlots
      BY <3>1 DEF StoredSlots, Stored, Occupied, Hole, Slots
    <3>3. CASE Resizing
      BY <1>6, <2>1, <3>1, <3>3 DEF Resizing
    <3>4. CASE ~Resizing
      BY <1>8, <2>1, <3>1, <3>2, <3>4 DEF Resizing
    <3> QED
      BY <3>3, <3>4
  <2> QED
    BY <1>9, <2>2, <2>3, <2>4, <2>5, <2>6, <2>7 DEF Step
<1>10. CASE MapCall
  <2>1. CASE ~iters[it].open
    BY <1>3, <1>10, <2>1 DEF MapCall, Create, CreateOOM, Free, Insert, InsertResize, Resize,
       ResizeOOM, RemoveFound, RemoveMiss
  <2>2. CASE iters[it].open
    <3>1. live /\ ~(\E c \in InitCaps : Create(c)) /\ ~Free /\ ~CreateOOM
      BY <1>2, <2>2 DEF IterInv, Create, Free, CreateOOM
    <3>2. ASSUME NEW k \in Keys, NEW v \in Values, InsertResize(k, v) PROVE IterInv(it)'
      BY <1>6, <3>1, <3>2 DEF InsertResize, StartResize, Resizing
    <3>3. CASE Resize
      BY <1>6, <3>1, <3>3 DEF Resize, StartResize, Resizing
    <3>4. ASSUME NEW k \in Keys, RemoveFound(k) PROVE IterInv(it)'
      BY <1>4, <3>1, <3>4 DEF RemoveFound
    <3>5. ASSUME pc = "idle", pc' \in {"idle", "place"}, UNCHANGED <<live, tableVars, iters>>
          PROVE  IterInv(it)'
      <4>1. UNCHANGED <<iters, live, version, capacity, entries>> /\ ~Resizing /\ ~Resizing'
        BY <3>5 DEF tableVars, Resizing
      <4>2. StoredSlots' = StoredSlots
        BY <3>5, <4>1 DEF StoredSlots, Stored, Occupied, Hole, Slots
      <4> QED
        BY <1>8, <3>5, <4>1, <4>2
    <3>6. ASSUME NEW k \in Keys, NEW v \in Values, Insert(k, v) PROVE IterInv(it)'
      BY <3>5, <3>6 DEF Insert
    <3>7. CASE ResizeOOM \/ \E k \in Keys : RemoveMiss(k)
      BY <3>5, <3>7 DEF ResizeOOM, RemoveMiss
    <3> QED
      BY <1>10, <3>1, <3>2, <3>3, <3>4, <3>6, <3>7 DEF MapCall
  <2> QED
    BY <2>1, <2>2
<1> QED
  BY <1>9, <1>10

(* Nothing stored lies between an iterator's index and where it rests.     *)
LEMMA RestSkips ==
  ASSUME HInv, pc = "idle", NEW it \in Iters, NEW j \in Rest(it)
  PROVE  /\ j \in Nat /\ iters[it].current_index \in Nat
         /\ iters[it].current_index <= j
         /\ {m \in StoredSlots : m < j}
              = {m \in StoredSlots : m < iters[it].current_index}
         /\ j < capacity => j \in StoredSlots
<1> DEFINE c == iters[it].current_index
<1>1. c \in Nat /\ capacity \in Nat
  BY DEF HInv, TypeOK, Iterator
<1>2. /\ j \in c .. capacity /\ \A m \in c .. j - 1 : ~Occupied(m)
      /\ j < capacity => Occupied(j)
  BY DEF Rest, RestingPlaces
<1>3. StoredSlots = {m \in Slots : Occupied(m)} /\ \A m \in Slots : m \in Nat
  BY IdleFacts DEF Slots
<1> HIDE DEF c
<1>4. {m \in StoredSlots : m < j} = {m \in StoredSlots : m < c}
  BY <1>1, <1>2, <1>3
<1>5. j < capacity => j \in StoredSlots
  BY <1>1, <1>2, <1>3 DEF Slots
<1> QED
  BY <1>1, <1>2, <1>4, <1>5 DEF c

LEMMA IterCallIters ==
  ASSUME HInv, AllIterInv, IterCall, NEW it \in Iters
  PROVE  IterInv(it)'
<1>1. PICK jt \in Iters : \/ NewIter(jt) \/ HasNext(jt) \/ IterNext(jt)
                          \/ IterEnd(jt) \/ IterInvalid(jt) \/ FreeIter(jt)
  BY DEF IterCall
<1>2. /\ UNCHANGED <<live, capacity, version, entries, pc>> /\ pc = "idle"
      /\ iters \in [Iters -> Iterator]
  BY <1>1 DEF NewIter, HasNext, IterNext, IterEnd, IterInvalid, FreeIter, Walking,
     tableVars, HInv, TypeOK
<1>3. /\ StoredSlots' = StoredSlots /\ ~Resizing /\ ~Resizing'
      /\ \A i \in StoredSlots : i \in Nat /\ entries'[i].key = entries[i].key
  BY <1>2 DEF StoredSlots, Stored, Occupied, Hole, Slots, Resizing
<1>4. CASE iters'[it] = iters[it]
  <2>1. Yielded(it) => Yielded(it)'
    BY <1>2, <1>3, <1>4, YieldedKept
  <2> QED
    BY <1>2, <1>3, <1>4, <2>1 DEF AllIterInv, IterInv, Current
<1>5. CASE iters'[it] # iters[it]
  <2>1. it = jt /\ ~IterInvalid(it) /\ iters[it] \in Iterator
    BY <1>1, <1>2, <1>5 DEF NewIter, HasNext, IterNext, IterEnd, IterInvalid, FreeIter
  <2>2. CASE NewIter(it)
    <3>1. /\ iters'[it].snapshot_version = version /\ iters'[it].current_index = 0
          /\ iters'[it].seen = <<>> /\ iters'[it].made_on = capacity /\ live
      BY <1>2, <2>2 DEF NewIter, ClosedIter
    <3>2. {i \in StoredSlots' : i < iters'[it].current_index} = {}
      BY <1>3, <3>1
    <3>3. DOMAIN iters'[it].seen = {}
      BY <3>1
    <3>4. Yielded(it)'
      BY <3>2, <3>3 DEF Yielded
    <3> QED
      BY <1>2, <3>1, <3>4 DEF IterInv, Current, HInv, TypeOK
  <2>3. CASE FreeIter(it)
    BY <1>2, <2>3 DEF FreeIter, IterInv, ClosedIter
  <2>4. CASE HasNext(it) \/ IterEnd(it)
    <3>1. PICK j \in Rest(it) : iters' = [iters EXCEPT ![it].current_index = j]
      BY <2>4 DEF HasNext, IterEnd
    <3>2. /\ iters'[it].current_index = j /\ iters'[it].seen = iters[it].seen
          /\ iters'[it].open = iters[it].open /\ iters'[it].touched = iters[it].touched
          /\ iters'[it].snapshot_version = iters[it].snapshot_version
          /\ iters'[it].made_on = iters[it].made_on
      BY <1>2, <2>1, <3>1 DEF Iterator
    <3>3. {m \in StoredSlots : m < j} = {m \in StoredSlots : m < iters[it].current_index}
      BY <1>2, RestSkips
    <3>4. ASSUME Yielded(it) PROVE Yielded(it)'
      <4>1. {m \in StoredSlots' : m < iters'[it].current_index}
              = {m \in StoredSlots : m < iters[it].current_index}
        BY <1>3, <3>2, <3>3
      <4>2. iters'[it].seen = iters[it].seen /\ entries' = entries
        BY <1>2, <3>2
      <4> QED
        BY <3>4, <4>1, <4>2 DEF Yielded
    <3> QED
      BY <1>2, <1>3, <3>2, <3>4 DEF AllIterInv, IterInv, Current
  <2>5. CASE IterNext(it)
    <3> DEFINE s == iters[it].seen
    <3>1. PICK j \in Rest(it) :
            /\ j < capacity
            /\ iters' = [iters EXCEPT ![it].current_index = j + 1,
                                      ![it].seen = Append(@, entries[j].key)]
      BY <2>5 DEF IterNext
    <3>2. /\ iters'[it].current_index = j + 1 /\ iters'[it].seen = Append(s, entries[j].key)
          /\ iters'[it].open = iters[it].open /\ iters'[it].touched = iters[it].touched
          /\ iters'[it].snapshot_version = iters[it].snapshot_version
          /\ iters'[it].made_on = iters[it].made_on
      BY <1>2, <2>1, <3>1 DEF Iterator
    <3>3. /\ j \in Nat /\ j \in StoredSlots
          /\ {m \in StoredSlots : m < j} = {m \in StoredSlots : m < iters[it].current_index}
      BY <1>2, <3>1, RestSkips
    <3>a. \A m \in StoredSlots : m < j + 1 <=> m < j \/ m = j
      BY <1>3, <3>3
    <3>4. {m \in StoredSlots : m < j + 1} = {m \in StoredSlots : m < j} \cup {j}
      BY <3>3, <3>a
    <3>5. s \in Seq(Keys) /\ Len(s) \in Nat /\ DOMAIN s = 1 .. Len(s)
      BY <2>1 DEF Iterator
    <3>6. /\ DOMAIN Append(s, entries[j].key) = DOMAIN s \cup {Len(s) + 1}
          /\ \A n \in DOMAIN s : Append(s, entries[j].key)[n] = s[n]
          /\ Append(s, entries[j].key)[Len(s) + 1] = entries[j].key
          /\ Len(s) + 1 \notin DOMAIN s
      BY <3>5
    <3> HIDE DEF s
    <3>7. ASSUME Yielded(it) PROVE Yielded(it)'
      <4> DEFINE Below(x) == {m \in StoredSlots : m < x}
                 t == Append(s, entries[j].key)
      <4>1. {s[n] : n \in DOMAIN s} = {entries[i].key : i \in Below(j)}
        BY <3>3, <3>7 DEF Yielded, s
      <4>2. Below(j + 1) = Below(j) \cup {j}
        BY <3>4
      <4>3. {t[n] : n \in DOMAIN t} = {s[n] : n \in DOMAIN s} \cup {entries[j].key}
        BY <3>6
      <4>4. {entries[i].key : i \in Below(j + 1)}
              = {entries[i].key : i \in Below(j)} \cup {entries[j].key}
        BY <4>2
      <4>5. {t[n] : n \in DOMAIN t} = {entries[i].key : i \in Below(j + 1)}
        BY <4>1, <4>3, <4>4
      <4>6. \A i \in Below(j) : entries[i].key # entries[j].key
        BY <1>3, <3>3 DEF HInv, UniqueKeys
      <4>7. entries[j].key \notin {s[n] : n \in DOMAIN s}
        BY <4>1, <4>6
      <4>8. \A m, n \in DOMAIN s : s[m] = s[n] => m = n
        BY <3>7 DEF Yielded, s
      <4>9. \A m, n \in DOMAIN t : t[m] = t[n] => m = n
        BY <3>6, <4>7, <4>8
      <4> HIDE DEF t
      <4>10. iters'[it].seen = t /\ iters'[it].current_index = j + 1
        BY <3>2 DEF t
      <4> QED
        BY <1>2, <1>3, <4>5, <4>9, <4>10 DEF Yielded
    <3> QED
      BY <1>2, <1>3, <3>2, <3>7 DEF AllIterInv, IterInv, Current
  <2> QED
    BY <1>1, <2>1, <2>2, <2>3, <2>4, <2>5
<1> QED
  BY <1>4, <1>5

(* An iterator whose version check passes is on the table it was made on   *)
(* and, unless internal_insert has written a slot since, has yielded the   *)
(* keys of the slots below its index, each once, and no other.             *)
THEOREM IteratorCorrect == Spec => []IteratorExact
<1>1. Init => AllIterInv
  BY DEF Init, AllIterInv, IterInv, ClosedIter
<1>2. ASSUME HInv, HInv', AllIterInv, [Next]_vars PROVE AllIterInv'
  <2> SUFFICES ASSUME NEW it \in Iters PROVE IterInv(it)'
    BY DEF AllIterInv
  <2>1. CASE UNCHANGED vars
    <3>1. UNCHANGED <<live, capacity, version, pc, iters, entries>> /\ StoredSlots' = StoredSlots
      BY <2>1 DEF vars, tableVars, removeVars, StoredSlots, Stored, Occupied, Hole, Slots
    <3>2. Yielded(it) => Yielded(it)'
      BY <3>1, YieldedKept
    <3> QED
      BY <1>2, <3>1, <3>2 DEF AllIterInv, IterInv, Current, Resizing
  <2> QED
    BY <1>2, <2>1, MapStepIters, IterCallIters DEF Next
<1>3. AllIterInv => IteratorExact
  <2> SUFFICES ASSUME AllIterInv, NEW it \in Iters, Walking(it)
               PROVE  iters[it].made_on = capacity /\ (~iters[it].touched => Yielded(it))
    BY DEF IteratorExact
  <2> QED
    BY DEF AllIterInv, IterInv, Current, Walking, Valid, Resizing
<1> QED
  BY <1>1, <1>2, <1>3, InvCorrect, PTL DEF Spec

-----------------------------------------------------------------------------
(***************************************************************************)
(* The hash map implements the abstract map KVStore, for every set of keys,*)
(* every hash function and every capacity.  The map's contents at a step   *)
(* in the middle of a call are Contents: the newest value of a key is with *)
(* the insertion that waits, then with the entry in flight, then in the    *)
(* table, then in the part of the old table not yet rehashed.  No step of  *)
(* a probe, a rehash or a shift changes them, and each call changes them   *)
(* once, when it begins.                                                   *)
(***************************************************************************)

(* Entries carry values the client stored, so none of them looks unbound;  *)
(* without a map there is no table.                                        *)
ValuesInv ==
  /\ \A i \in Slots : Occupied(i) => entries[i].value \in Values
  /\ \A i \in OldSlots : old_entries[i].value \in Values
  /\ Probing => incoming.value \in Values
  /\ pend.key # NoKey => pend.value \in Values
  /\ ~live => capacity = 0

(* Where the value of a key is, without the choice of a slot.              *)
InFlight(k) == Probing /\ incoming.key = k
BindingRule ==
  \A k \in Keys :
    /\ pend.key = k => Binding(k) = pend.value
    /\ pend.key # k /\ InFlight(k) => Binding(k) = incoming.value
    /\ pend.key # k /\ ~InFlight(k) =>
         /\ \A i \in StoredSlots :
              entries[i].key = k => Binding(k) = entries[i].value
         /\ (\A i \in StoredSlots : entries[i].key # k) =>
              /\ \A i \in OldSlots :
                   old_entries[i].key = k => Binding(k) = old_entries[i].value
              /\ (\A i \in OldSlots : old_entries[i].key # k) => Binding(k) = NoValue

LEMMA BindingRuleHolds == HInv => BindingRule
<1> SUFFICES ASSUME HInv, NEW k \in Keys
             PROVE  /\ pend.key = k => Binding(k) = pend.value
                    /\ pend.key # k /\ InFlight(k) => Binding(k) = incoming.value
                    /\ pend.key # k /\ ~InFlight(k) =>
                         /\ \A i \in StoredSlots :
                              entries[i].key = k => Binding(k) = entries[i].value
                         /\ (\A i \in StoredSlots : entries[i].key # k) =>
                              /\ \A i \in OldSlots : old_entries[i].key = k =>
                                   Binding(k) = old_entries[i].value
                              /\ (\A i \in OldSlots : old_entries[i].key # k) =>
                                   Binding(k) = NoValue
  BY DEF BindingRule
<1>1. pend.key = k => Binding(k) = pend.value
  BY DEF Binding
<1>2. pend.key # k /\ InFlight(k) => Binding(k) = incoming.value
  BY DEF Binding, InFlight
<1>3. ASSUME pend.key # k, ~InFlight(k), NEW i \in StoredSlots, entries[i].key = k
      PROVE  Binding(k) = entries[i].value
  <2>1. Home(k) = {i}
    BY <1>3 DEF Home, HInv, UniqueKeys
  <2>2. (CHOOSE j \in Home(k) : TRUE) = i
    BY <2>1
  <2> QED
    BY <1>3, <2>1, <2>2 DEF Binding, InFlight
<1>4. ASSUME pend.key # k, ~InFlight(k), \A i \in StoredSlots : entries[i].key # k,
             NEW i \in OldSlots, old_entries[i].key = k
      PROVE  Binding(k) = old_entries[i].value
  <2>1. Home(k) = {} /\ OldHome(k) = {i}
    BY <1>4 DEF Home, OldHome, HInv, UniqueKeys
  <2>2. (CHOOSE j \in OldHome(k) : TRUE) = i
    BY <2>1
  <2> QED
    BY <1>4, <2>1, <2>2 DEF Binding, InFlight
<1>5. ASSUME pend.key # k, ~InFlight(k), \A i \in StoredSlots : entries[i].key # k,
             \A i \in OldSlots : old_entries[i].key # k
      PROVE  Binding(k) = NoValue
  <2>1. Home(k) = {} /\ OldHome(k) = {}
    BY <1>5 DEF Home, OldHome
  <2> QED
    BY <1>5, <2>1 DEF Binding, InFlight
<1> QED
  BY <1>1, <1>2, <1>3, <1>4, <1>5

LEMMA BindingRuleNext == HInv' => BindingRule'
<1>1. HInv => BindingRule
  BY BindingRuleHolds
<1> QED
  BY <1>1, PTL

(* Two states with the same contents.                                      *)
SameContents == \A k \in Keys : Binding(k)' = Binding(k)

LEMMA SameContentsFun == ASSUME SameContents PROVE Contents' = Contents
  BY DEF SameContents, Contents

-----------------------------------------------------------------------------
(* The steps of a call in progress change no binding.                      *)

LEMMA PlaceContents ==
  ASSUME HInv, HInv', ValuesInv, PlaceIncoming PROVE SameContents /\ ValuesInv'
<1>1. /\ Probing /\ ~Probing' /\ live' = live /\ capacity' = capacity
      /\ UNCHANGED <<pend, old_entries>>
      /\ entries'[index] = incoming
      /\ \A i \in Slots : i # index => entries'[i] = entries[i]
      /\ Slots' = Slots /\ OldSlots' = OldSlots
      /\ \A i \in Slots : Occupied(i)' <=> i = index \/ Occupied(i)
      /\ StoredSlots' = StoredSlots \cup {index} /\ index \notin StoredSlots
  BY PlaceEffect
<1>2. \A i \in StoredSlots : i \in Slots
  BY DEF StoredSlots
<1>3. BindingRule /\ BindingRule'
  BY BindingRuleHolds, BindingRuleNext
<1>4. ASSUME NEW k \in Keys PROVE Binding(k)' = Binding(k)
  <2>1. CASE pend.key = k
    BY <1>1, <1>3, <2>1 DEF BindingRule
  <2>2. CASE pend.key # k /\ incoming.key = k
    <3>1. Binding(k) = incoming.value
      BY <1>1, <1>3, <2>2 DEF BindingRule, InFlight
    <3>2. ~InFlight(k)' /\ index \in StoredSlots' /\ entries'[index].key = k
      BY <1>1, <2>2 DEF InFlight
    <3>3. Binding(k)' = entries'[index].value
      BY <1>1, <1>3, <2>2, <3>2 DEF BindingRule
    <3> QED
      BY <1>1, <3>1, <3>3
  <2>3. CASE pend.key # k /\ incoming.key # k
    <3>1. ~InFlight(k) /\ ~InFlight(k)'
      BY <1>1, <2>3 DEF InFlight
    <3>2. CASE \E i \in StoredSlots : entries[i].key = k
      BY <1>1, <1>2, <1>3, <2>3, <3>1, <3>2 DEF BindingRule
    <3>3. CASE \A i \in StoredSlots : entries[i].key # k
      <4>1. \A i \in StoredSlots' : entries'[i].key # k
        BY <1>1, <1>2, <2>3, <3>3
      <4> QED
        BY <1>1, <1>3, <2>3, <3>1, <3>3, <4>1 DEF BindingRule
    <3> QED
      BY <3>2, <3>3
  <2> QED
    BY <2>1, <2>2, <2>3
<1>5. ValuesInv'
  BY <1>1 DEF ValuesInv, Occupied
<1> QED
  BY <1>4, <1>5 DEF SameContents

LEMMA OverwriteContents ==
  ASSUME HInv, HInv', ValuesInv, OverwriteValue PROVE SameContents /\ ValuesInv'
<1>1. /\ Probing /\ ~Probing' /\ Match /\ pc # "shift" /\ pc' # "shift" /\ index \in Slots
      /\ entries' = [entries EXCEPT ![index].value = incoming.value]
      /\ UNCHANGED <<capacity, live, pend, scan, old_capacity, old_entries>>
  BY DEF OverwriteValue, EndProbe, Probing, resizeVars, HInv, TypeOK
<1>2. /\ \A i \in Slots : i # index => entries'[i] = entries[i]
      /\ \A i \in Slots : entries'[i].key = entries[i].key
      /\ entries'[index].value = incoming.value
      /\ Slots' = Slots
  BY <1>1 DEF HInv, TypeOK, Slots, Entry
<1>3. StoredSlots' = StoredSlots /\ OldSlots' = OldSlots /\ index \in StoredSlots
  BY <1>1, <1>2 DEF StoredSlots, OldSlots, Stored, Occupied, Hole, Match
<1>4. entries[index].key = incoming.key /\ \A i \in StoredSlots : i \in Slots
  BY <1>1 DEF Match, StoredSlots
<1>5. \A i \in StoredSlots : i # index => entries[i].key # incoming.key
  BY <1>3, <1>4 DEF HInv, UniqueKeys
<1>6. BindingRule /\ BindingRule'
  BY BindingRuleHolds, BindingRuleNext
<1>7. ASSUME NEW k \in Keys PROVE Binding(k)' = Binding(k)
  <2>1. CASE pend.key = k
    BY <1>1, <1>6, <2>1 DEF BindingRule
  <2>2. CASE pend.key # k /\ incoming.key = k
    <3>1. Binding(k) = incoming.value
      BY <1>1, <1>6, <2>2 DEF BindingRule, InFlight
    <3>2. Binding(k)' = entries'[index].value
      BY <1>1, <1>2, <1>3, <1>4, <1>6, <2>2 DEF BindingRule, InFlight
    <3> QED
      BY <1>2, <3>1, <3>2
  <2>3. CASE pend.key # k /\ incoming.key # k
    <3>1. ~InFlight(k) /\ ~InFlight(k)'
      BY <1>1, <2>3 DEF InFlight
    <3>2. \A i \in StoredSlots : /\ entries'[i].key = entries[i].key
                                 /\ entries[i].key = k => entries'[i].value = entries[i].value
      BY <1>2, <1>4, <2>3
    <3> QED
      BY <1>1, <1>3, <1>6, <2>3, <3>1, <3>2 DEF BindingRule
  <2> QED
    BY <2>1, <2>2, <2>3
<1>8. ValuesInv'
  <2>1. \A i \in Slots : Occupied(i)' => entries'[i].value \in Values
    BY <1>1, <1>2 DEF ValuesInv, Occupied
  <2> QED
    BY <1>1, <1>2, <1>3, <2>1 DEF ValuesInv
<1> QED
  BY <1>7, <1>8 DEF SameContents

LEMMA SwapContents ==
  ASSUME HInv, HInv', ValuesInv, RobinHoodSwap PROVE SameContents /\ ValuesInv'
<1>1. /\ Probing /\ Probing' /\ Occupied(index)
      /\ UNCHANGED <<capacity, live, pend, old_entries>>
      /\ entries'[index] = incoming
      /\ \A i \in Slots : i # index => entries'[i] = entries[i]
      /\ incoming'.key = entries[index].key /\ incoming'.value = entries[index].value
      /\ Slots' = Slots /\ OldSlots' = OldSlots
      /\ \A i \in Slots : Occupied(i)' <=> Occupied(i)
      /\ StoredSlots' = StoredSlots /\ index \in StoredSlots
      /\ \A j \in StoredSlots : entries[j].key # incoming.key
  BY SwapEffect
<1>2. \A i \in StoredSlots : i \in Slots /\ (i # index => entries[i].key # entries[index].key)
  BY <1>1 DEF StoredSlots, HInv, UniqueKeys
<1>3. BindingRule /\ BindingRule'
  BY BindingRuleHolds, BindingRuleNext
<1>4. ASSUME NEW k \in Keys PROVE Binding(k)' = Binding(k)
  <2>1. CASE pend.key = k
    BY <1>1, <1>3, <2>1 DEF BindingRule
  <2>2. CASE pend.key # k /\ incoming.key = k
    <3>1. Binding(k) = incoming.value
      BY <1>1, <1>3, <2>2 DEF BindingRule, InFlight
    <3>2. ~InFlight(k)'
      BY <1>1, <2>2 DEF InFlight
    <3>3. Binding(k)' = entries'[index].value
      BY <1>1, <1>3, <2>2, <3>2 DEF BindingRule
    <3> QED
      BY <1>1, <3>1, <3>3
  <2>3. CASE pend.key # k /\ entries[index].key = k
    <3>1. ~InFlight(k) /\ InFlight(k)'
      BY <1>1, <2>3 DEF InFlight
    <3>2. Binding(k) = entries[index].value
      BY <1>1, <1>3, <2>3, <3>1 DEF BindingRule
    <3>3. Binding(k)' = incoming'.value
      BY <1>1, <1>3, <2>3, <3>1 DEF BindingRule
    <3> QED
      BY <1>1, <3>2, <3>3
  <2>4. CASE pend.key # k /\ incoming.key # k /\ entries[index].key # k
    <3>1. ~InFlight(k) /\ ~InFlight(k)'
      BY <1>1, <2>4 DEF InFlight
    <3>2. \A i \in StoredSlots : /\ entries'[i].key = k <=> entries[i].key = k
                                 /\ entries[i].key = k => entries'[i] = entries[i]
      BY <1>1, <1>2, <2>4
    <3> QED
      BY <1>1, <1>3, <2>4, <3>1, <3>2 DEF BindingRule
  <2> QED
    BY <2>1, <2>2, <2>3, <2>4
<1>5. ValuesInv'
  <2>1. index \in Slots
    BY <1>1, <1>2
  <2>2. incoming.value \in Values /\ entries[index].value \in Values
    BY <1>1, <2>1 DEF ValuesInv
  <2> QED
    BY <1>1, <2>2 DEF ValuesInv
<1> QED
  BY <1>4, <1>5 DEF SameContents

LEMMA ProbeOnContents ==
  ASSUME HInv, HInv', ValuesInv, ProbeOn PROVE SameContents /\ ValuesInv'
<1>1. /\ Probing /\ Probing' /\ pc' = pc /\ pc # "shift"
      /\ incoming'.key = incoming.key /\ incoming'.value = incoming.value
      /\ UNCHANGED <<entries, capacity, live, pend, scan, old_capacity, old_entries>>
  BY DEF ProbeOn, Probing, resizeVars, tableVars, HInv, TypeOK, Entry
<1>2. StoredSlots' = StoredSlots /\ OldSlots' = OldSlots /\ Slots' = Slots
  BY <1>1 DEF StoredSlots, OldSlots, Stored, Occupied, Hole, Slots
<1>3. BindingRule /\ BindingRule'
  BY BindingRuleHolds, BindingRuleNext
<1>4. ASSUME NEW k \in Keys PROVE Binding(k)' = Binding(k)
  BY <1>1, <1>2, <1>3 DEF BindingRule, InFlight
<1>5. ValuesInv'
  BY <1>1, <1>2 DEF ValuesInv, Occupied
<1> QED
  BY <1>4, <1>5 DEF SameContents

LEMMA RehashContents ==
  ASSUME HInv, HInv', ValuesInv, RehashSkip \/ RehashEntry \/ RehashDone
  PROVE  SameContents /\ ValuesInv'
<1>1. /\ ~Probing /\ pc # "shift" /\ pc' # "shift" /\ pc = "rehash"
      /\ UNCHANGED <<entries, capacity, live>>
  BY DEF RehashSkip, RehashEntry, RehashDone, Probing, tableVars
<1>2. StoredSlots' = StoredSlots /\ Slots' = Slots
  BY <1>1 DEF StoredSlots, Stored, Occupied, Hole, Slots
<1>3. BindingRule /\ BindingRule'
  BY BindingRuleHolds, BindingRuleNext
<1>4. scan \in Nat /\ old_capacity \in Nat /\ ~InFlight(NoKey)
  BY <1>1 DEF HInv, TypeOK, InFlight
<1>5. \A k \in Keys : ~InFlight(k)
  BY <1>1 DEF InFlight
<1>6. CASE RehashSkip
  <2>1. OldSlots' = OldSlots /\ ~Probing' /\ pend' = pend /\ old_entries' = old_entries
    BY <1>4, <1>6 DEF RehashSkip, OldSlots, Probing
  <2>2. \A k \in Keys : ~InFlight(k)'
    BY <2>1 DEF InFlight
  <2>3. SameContents
    BY <1>1, <1>2, <1>3, <1>5, <2>1, <2>2 DEF BindingRule, SameContents
  <2> QED
    BY <1>1, <1>2, <2>1, <2>3 DEF ValuesInv, Occupied
<1>7. CASE RehashEntry
  <2>1. /\ OldSlots' = OldSlots \ {scan} /\ scan \in OldSlots /\ Probing'
        /\ pend' = pend /\ old_entries' = old_entries
        /\ incoming'.key = old_entries[scan].key
        /\ incoming'.value = old_entries[scan].value
    BY <1>4, <1>7 DEF RehashEntry, StartProbe, OldSlots, Probing
  <2>2. /\ \A i \in OldSlots : i # scan => old_entries[i].key # old_entries[scan].key
        /\ \A i \in StoredSlots : entries[i].key # old_entries[scan].key
    BY <2>1 DEF HInv, UniqueKeys
  <2>3. ASSUME NEW k \in Keys PROVE Binding(k)' = Binding(k)
    <3>1. CASE pend.key = k
      BY <1>3, <2>1, <3>1 DEF BindingRule
    <3>2. CASE pend.key # k /\ old_entries[scan].key = k
      <4>1. InFlight(k)'
        BY <2>1, <3>2 DEF InFlight
      <4>2. Binding(k)' = incoming'.value
        BY <1>3, <2>1, <3>2, <4>1 DEF BindingRule
      <4>3. Binding(k) = old_entries[scan].value
        BY <1>3, <1>5, <2>1, <2>2, <3>2 DEF BindingRule
      <4> QED
        BY <2>1, <4>2, <4>3
    <3>3. CASE pend.key # k /\ old_entries[scan].key # k
      <4>1. ~InFlight(k)'
        BY <2>1, <3>3 DEF InFlight
      <4>2. (\A i \in OldSlots : old_entries[i].key # k)
              <=> (\A i \in OldSlots' : old_entries'[i].key # k)
        BY <2>1, <3>3
      <4>3. CASE \E i \in StoredSlots : entries[i].key = k
        BY <1>1, <1>2, <1>3, <1>5, <2>1, <3>3, <4>1, <4>3 DEF BindingRule
      <4>4. CASE \A i \in StoredSlots : entries[i].key # k
        BY <1>1, <1>2, <1>3, <1>5, <2>1, <3>3, <4>1, <4>2, <4>4 DEF BindingRule
      <4> QED
        BY <4>3, <4>4
    <3> QED
      BY <3>1, <3>2, <3>3
  <2>4. ValuesInv'
    BY <1>1, <1>2, <2>1 DEF ValuesInv, Occupied
  <2> QED
    BY <2>3, <2>4 DEF SameContents
<1>8. CASE RehashDone
  <2>1. /\ OldSlots = {} /\ OldSlots' = {} /\ pend' = Blank
        /\ Probing' <=> pend.key # NoKey
        /\ Probing' => incoming'.key = pend.key /\ incoming'.value = pend.value
    BY <1>4, <1>8 DEF RehashDone, StartProbe, OldSlots, Probing
  <2>2. ASSUME NEW k \in Keys PROVE Binding(k)' = Binding(k)
    <3>1. pend'.key # k /\ k # NoKey
      BY <2>1, HashMapAssumption DEF Blank
    <3>2. CASE pend.key = k
      BY <1>3, <2>1, <3>1, <3>2 DEF BindingRule, InFlight
    <3>3. CASE pend.key # k
      <4>1. ~InFlight(k)'
        BY <2>1, <3>3 DEF InFlight
      <4> QED
        BY <1>1, <1>2, <1>3, <1>5, <2>1, <3>1, <3>3, <4>1 DEF BindingRule
    <3> QED
      BY <3>2, <3>3
  <2>3. ValuesInv'
    BY <1>1, <1>2, <2>1 DEF ValuesInv, Occupied, Blank
  <2> QED
    BY <2>2, <2>3 DEF SameContents
<1> QED
  BY <1>6, <1>7, <1>8

LEMMA ShiftContents ==
  ASSUME HInv, HInv', ValuesInv, ShiftBack \/ ShiftEnd PROVE SameContents /\ ValuesInv'
<1>1. pc = "shift" /\ pc' \in {"shift", "idle"}
  BY DEF ShiftBack, ShiftEnd
<1>2. ~Probing /\ ~Probing' /\ pend = Blank /\ pend' = Blank /\ OldSlots = {} /\ OldSlots' = {}
  <2>1. ~Probing /\ ~Probing' /\ ~Resizing /\ ~Resizing'
    BY <1>1 DEF Probing, Resizing
  <2>2. /\ pend = Blank /\ pend' = Blank /\ old_capacity = 0 /\ old_capacity' = 0
        /\ scan \in 0 .. 0 /\ scan' \in 0 .. 0
    BY <2>1 DEF HInv, TypeOK
  <2>3. OldSlots = {} /\ OldSlots' = {}
    BY <2>2 DEF OldSlots
  <2> QED
    BY <2>1, <2>2, <2>3
<1>3. \A k \in Keys : ~InFlight(k) /\ ~InFlight(k)' /\ pend.key # k /\ pend'.key # k
  BY <1>2, HashMapAssumption DEF InFlight, Blank
<1>4. BindingRule /\ BindingRule'
  BY BindingRuleHolds, BindingRuleNext
<1>5. \A i \in StoredSlots : i \in Slots
  BY DEF StoredSlots
<1>6. CASE ShiftBack
  <2> DEFINE next == NextSlot(curr)
  <2>1. /\ curr \in Slots /\ next \in Slots /\ next \in StoredSlots /\ curr \notin StoredSlots
        /\ entries'[curr].key = entries[next].key
        /\ entries'[curr].value = entries[next].value
        /\ \A i \in Slots : i # curr => entries'[i] = entries[i]
        /\ Slots' = Slots /\ UNCHANGED <<capacity, live>>
        /\ StoredSlots' = (StoredSlots \ {next}) \cup {curr}
    BY <1>6, ShiftBackEffect
  <2> HIDE DEF next
  <2>2. ASSUME NEW k \in Keys PROVE Binding(k)' = Binding(k)
    <3>1. CASE entries[next].key = k
      <4>1. Binding(k) = entries[next].value
        BY <1>3, <1>4, <2>1, <3>1 DEF BindingRule
      <4>2. curr \in StoredSlots' /\ entries'[curr].key = k
        BY <2>1, <3>1
      <4>3. Binding(k)' = entries'[curr].value
        BY <1>3, <1>4, <4>2 DEF BindingRule
      <4> QED
        BY <2>1, <4>1, <4>3
    <3>2. CASE entries[next].key # k /\ \E i \in StoredSlots : entries[i].key = k
      <4>1. PICK i \in StoredSlots : entries[i].key = k
        BY <3>2
      <4>2. i \in StoredSlots' /\ entries'[i] = entries[i]
        BY <1>5, <2>1, <3>2, <4>1
      <4> QED
        BY <1>3, <1>4, <4>1, <4>2 DEF BindingRule
    <3>3. CASE \A i \in StoredSlots : entries[i].key # k
      <4>1. \A i \in StoredSlots' : entries'[i].key # k
        BY <1>5, <2>1, <3>3
      <4> QED
        BY <1>2, <1>3, <1>4, <3>3, <4>1 DEF BindingRule
    <3> QED
      BY <3>1, <3>2, <3>3
  <2>3. ValuesInv'
    <3>1. entries[next].value \in Values
      BY <2>1 DEF ValuesInv, StoredSlots, Stored
    <3>2. \A i \in Slots : Occupied(i)' => entries'[i].value \in Values
      BY <2>1, <3>1 DEF ValuesInv, Occupied
    <3> QED
      BY <1>2, <2>1, <3>2 DEF ValuesInv, Blank
  <2> QED
    BY <2>2, <2>3 DEF SameContents
<1>7. CASE ShiftEnd
  <2>1. /\ \A i \in Slots : i # curr => entries'[i] = entries[i]
        /\ Slots' = Slots /\ UNCHANGED <<capacity, live>>
        /\ \A i \in Slots : Occupied(i)' <=> Stored(i)
        /\ StoredSlots' = StoredSlots /\ curr \notin StoredSlots
    BY <1>7, ShiftEndEffect
  <2>2. \A i \in StoredSlots : entries'[i] = entries[i]
    BY <1>5, <2>1
  <2>3. ASSUME NEW k \in Keys PROVE Binding(k)' = Binding(k)
    BY <1>2, <1>3, <1>4, <2>1, <2>2 DEF BindingRule
  <2>4. ValuesInv'
    <3>1. \A i \in Slots : Occupied(i)' => entries'[i].value \in Values
      BY <2>1, <2>2 DEF ValuesInv, StoredSlots, Stored
    <3> QED
      BY <1>2, <2>1, <3>1 DEF ValuesInv, Blank
  <2> QED
    BY <2>3, <2>4 DEF SameContents
<1> QED
  BY <1>6, <1>7

-----------------------------------------------------------------------------
(* The calls                                                               *)

(* Between calls the contents are the table's.                             *)
LEMMA IdleBinding ==
  ASSUME HInv, pc = "idle", NEW k \in Keys
  PROVE  /\ \A i \in StoredSlots : entries[i].key = k => Binding(k) = entries[i].value
         /\ (\A i \in StoredSlots : entries[i].key # k) => Binding(k) = NoValue
<1>1. ~InFlight(k) /\ pend.key # k /\ OldSlots = {}
  BY IdleFacts, HashMapAssumption DEF InFlight, Blank
<1> QED
  BY <1>1, BindingRuleHolds DEF BindingRule

(* Without a map nothing is bound.                                         *)
LEMMA DeadBinding ==
  ASSUME HInv, ValuesInv, ~live, NEW k \in Keys PROVE Binding(k) = NoValue
<1>1. pc = "idle" /\ Slots = {}
  BY DEF HInv, TypeOK, ValuesInv, Slots
<1> QED
  BY <1>1, IdleBinding DEF StoredSlots

(* A call that leaves the map alone keeps every binding.                   *)
LEMMA KeepContents ==
  ASSUME HInv, HInv', ValuesInv,
         UNCHANGED <<live, tableVars, pc, insertVars, resizeVars, removeVars>>
  PROVE  SameContents /\ ValuesInv'
<1>1. UNCHANGED <<live, capacity, entries, pc, incoming, pend,
                  old_capacity, old_entries, scan, curr>>
  BY DEF tableVars, insertVars, resizeVars, removeVars
<1>2. Slots' = Slots /\ StoredSlots' = StoredSlots /\ OldSlots' = OldSlots
  BY <1>1 DEF Slots, StoredSlots, OldSlots, Stored, Occupied, Hole
<1>3. BindingRule /\ BindingRule'
  BY BindingRuleHolds, BindingRuleNext
<1>4. \A k \in Keys : InFlight(k)' <=> InFlight(k)
  BY <1>1 DEF InFlight, Probing
<1>5. SameContents
  BY <1>1, <1>2, <1>3, <1>4 DEF BindingRule, SameContents
<1>6. ValuesInv'
  BY <1>1, <1>2 DEF ValuesInv, Occupied, Probing
<1> QED
  BY <1>5, <1>6

LEMMA CreateContents ==
  ASSUME HInv, HInv', ValuesInv, NEW c \in InitCaps, Create(c)
  PROVE  SameContents /\ ValuesInv'
<1>1. ~live /\ live' /\ pc = "idle" /\ pc' = "idle" /\ entries' = NewTable(capacity')
  BY DEF Create, HInv, TypeOK
<1>2. \A i \in Slots' : entries'[i].key = NoKey
  BY <1>1 DEF Slots, NewTable, Blank
<1>3. StoredSlots' = {} /\ OldSlots' = {} /\ ~Probing' /\ pend' = Blank
  BY <1>1, <1>2 DEF StoredSlots, Stored, Occupied, OldSlots, Probing, Resizing, HInv, TypeOK
<1>4. ASSUME NEW k \in Keys PROVE Binding(k)' = NoValue
  BY <1>3, BindingRuleNext, HashMapAssumption DEF BindingRule, InFlight, Blank
<1>5. SameContents
  BY <1>1, <1>4, DeadBinding DEF SameContents
<1>6. ValuesInv'
  BY <1>1, <1>2, <1>3 DEF ValuesInv, Occupied, Blank
<1> QED
  BY <1>5, <1>6

LEMMA FreeContents ==
  ASSUME HInv, HInv', ValuesInv, Free
  PROVE  (\A k \in Keys : Binding(k)' = NoValue) /\ ValuesInv'
<1>1. ~live' /\ pc' = "idle" /\ capacity' = 0
  BY DEF Free
<1>2. Slots' = {}
  BY <1>1 DEF Slots
<1>3. StoredSlots' = {} /\ OldSlots' = {} /\ ~Probing' /\ pend' = Blank
  BY <1>1, <1>2 DEF StoredSlots, OldSlots, Probing, Resizing, HInv, TypeOK
<1>4. ASSUME NEW k \in Keys PROVE Binding(k)' = NoValue
  BY <1>3, BindingRuleNext, HashMapAssumption DEF BindingRule, InFlight, Blank
<1>5. ValuesInv'
  BY <1>1, <1>2, <1>3 DEF ValuesInv, Blank
<1> QED
  BY <1>4, <1>5

(* An insertion binds its key when it begins.                              *)
LEMMA InsertContents ==
  ASSUME HInv, HInv', ValuesInv, NEW k \in Keys, NEW v \in Values, Insert(k, v)
  PROVE  /\ Binding(k)' = v /\ \A j \in Keys : j # k => Binding(j)' = Binding(j)
         /\ ValuesInv'
<1>1. /\ pc = "idle" /\ pc' = "place" /\ live /\ Probing'
      /\ incoming'.key = k /\ incoming'.value = v
      /\ UNCHANGED <<entries, capacity, live, pend, scan, old_capacity, old_entries, curr>>
  BY DEF Insert, StartProbe, Probing, tableVars, resizeVars, removeVars
<1>2. /\ StoredSlots' = StoredSlots /\ OldSlots' = OldSlots /\ Slots' = Slots
      /\ OldSlots = {} /\ pend' = Blank
  BY <1>1, IdleFacts DEF StoredSlots, OldSlots, Stored, Occupied, Hole, Slots
<1>3. BindingRule'
  BY BindingRuleNext
<1>4. \A j \in Keys : pend'.key # j /\ (InFlight(j)' <=> j = k)
  BY <1>1, <1>2, HashMapAssumption DEF InFlight, Blank
<1>5. Binding(k)' = v
  BY <1>1, <1>3, <1>4 DEF BindingRule
<1>6. ASSUME NEW j \in Keys, j # k PROVE Binding(j)' = Binding(j)
  BY <1>1, <1>2, <1>3, <1>4, <1>6, IdleBinding DEF BindingRule
<1>7. ValuesInv'
  BY <1>1, <1>2 DEF ValuesInv, Occupied, Blank
<1> QED
  BY <1>5, <1>6, <1>7

(* A resize moves the table to old_entries and changes no binding; the     *)
(* insertion that waits for it has bound its key.                          *)
LEMMA StartResizeContents ==
  ASSUME HInv, HInv', ValuesInv, live, pc = "idle", live' = live, StartResize,
         NEW p, pend' = p, p = Blank \/ (p.key \in Keys /\ p.value \in Values)
  PROVE  /\ \A j \in Keys : Binding(j)' = IF p.key = j THEN p.value ELSE Binding(j)
         /\ ValuesInv'
<1>1. /\ pc' = "rehash" /\ scan' = 0 /\ old_capacity' = capacity /\ old_entries' = entries
      /\ entries' = NewTable(capacity') /\ ~Probing' /\ ~Resizing
  BY DEF StartResize, Probing, Resizing
<1>2. \A i \in Slots' : entries'[i].key = NoKey
  BY <1>1 DEF Slots, NewTable, Blank
<1>3. StoredSlots' = {} /\ OldSlots' = StoredSlots
  BY <1>1, <1>2, IdleFacts DEF StoredSlots, Stored, Occupied, OldSlots, Slots
<1>4. BindingRule'
  BY BindingRuleNext
<1>5. ASSUME NEW j \in Keys PROVE Binding(j)' = IF p.key = j THEN p.value ELSE Binding(j)
  <2>1. CASE p.key = j
    BY <1>4, <2>1 DEF BindingRule
  <2>2. CASE p.key # j
    BY <1>1, <1>3, <1>4, <2>2, IdleBinding DEF BindingRule, InFlight
  <2> QED
    BY <2>1, <2>2
<1>6. \A i \in OldSlots' : old_entries'[i].value \in Values
  BY <1>1, <1>3 DEF ValuesInv, StoredSlots, Stored
<1>7. p.key # NoKey => p.value \in Values
  BY DEF Blank
<1>8. ValuesInv'
  BY <1>1, <1>2, <1>6, <1>7 DEF ValuesInv, Occupied
<1> QED
  BY <1>5, <1>8

(* A removal that finds its key unbinds it when it begins.                 *)
LEMMA RemoveContents ==
  ASSUME HInv, HInv', ValuesInv, NEW k \in Keys, RemoveFound(k)
  PROVE  /\ Binding(k) # NoValue /\ Binding(k)' = NoValue
         /\ \A j \in Keys : j # k => Binding(j)' = Binding(j)
         /\ ValuesInv'
<1>1. /\ live /\ pc = "idle" /\ pc' = "shift" /\ ~Probing'
      /\ UNCHANGED <<entries, capacity, live, pend, scan, old_capacity, old_entries>>
  BY DEF RemoveFound, resizeVars, insertVars, Probing
<1>2. PICK d \in FirstHits(k) : curr' = Slot(k, d)
  BY DEF RemoveFound
<1>3. curr' \in StoredSlots /\ entries[curr'].key = k
  BY <1>1, <1>2, HitStored DEF FirstHits
<1>4. /\ Slots' = Slots /\ OldSlots' = {} /\ StoredSlots' = StoredSlots \ {curr'}
      /\ pend' = Blank
  BY <1>1, IdleFacts DEF Slots, OldSlots, StoredSlots, Stored, Occupied, Hole
<1>5. \A j \in Keys : ~InFlight(j)' /\ pend'.key # j
  BY <1>1, <1>4, HashMapAssumption DEF InFlight, Blank
<1>6. \A i \in StoredSlots : i # curr' => entries[i].key # k
  BY <1>3 DEF HInv, UniqueKeys
<1>7. Binding(k) = entries[curr'].value /\ entries[curr'].value \in Values
  BY <1>1, <1>3, IdleBinding DEF ValuesInv, StoredSlots, Stored
<1>8. Binding(k)' = NoValue
  BY <1>1, <1>4, <1>5, <1>6, BindingRuleNext DEF BindingRule
<1>9. ASSUME NEW j \in Keys, j # k PROVE Binding(j)' = Binding(j)
  <2>1. CASE \E i \in StoredSlots : entries[i].key = j
    <3>1. PICK i \in StoredSlots : entries[i].key = j
      BY <2>1
    <3>2. i \in StoredSlots' /\ entries'[i].key = j
      BY <1>1, <1>3, <1>4, <1>9, <3>1
    <3> QED
      BY <1>1, <1>5, <3>1, <3>2, IdleBinding, BindingRuleNext DEF BindingRule
  <2>2. CASE \A i \in StoredSlots : entries[i].key # j
    BY <1>1, <1>4, <1>5, <2>2, IdleBinding, BindingRuleNext DEF BindingRule
  <2> QED
    BY <2>1, <2>2
<1>10. ValuesInv'
  BY <1>1, <1>4 DEF ValuesInv, Occupied, Blank
<1> QED
  BY <1>7, <1>8, <1>9, <1>10, HashMapAssumption

-----------------------------------------------------------------------------
(* The step simulation                                                     *)

LEMMA ContentsFun ==
  /\ Contents = [k \in Keys |-> Binding(k)]
  /\ Contents' = [k \in Keys |-> Binding(k)']
  BY DEF Contents

(* A step of a call in progress stutters, or returns.                      *)
LEMMA StepSimulation ==
  ASSUME HInv, HInv', ValuesInv, Step
  PROVE  /\ KV!Return \/ UNCHANGED <<Contents, status, pc # "idle">>
         /\ ValuesInv'
<1>1. SameContents /\ ValuesInv'
  BY PlaceContents, OverwriteContents, SwapContents, ProbeOnContents, RehashContents,
     ShiftContents DEF Step
<1>2. Contents' = Contents
  BY <1>1, SameContentsFun
<1>3. pc # "idle" /\ status' = status
  BY DEF Step, RehashSkip, RehashEntry, RehashDone, PlaceIncoming, OverwriteValue,
     RobinHoodSwap, ProbeOn, ShiftBack, ShiftEnd, Probing
<1>4. CASE pc' = "idle"
  BY <1>1, <1>2, <1>3, <1>4 DEF KV!Return
<1>5. CASE pc' # "idle"
  BY <1>1, <1>2, <1>3, <1>5
<1> QED
  BY <1>4, <1>5

(* A call changes the contents as the abstract operation of its name does. *)
LEMMA CallSimulation ==
  ASSUME HInv, HInv', ValuesInv, MapCall \/ IterCall
  PROVE  KV!Next /\ ValuesInv'
<1>1. Statuses = {"CDSA_OK", "CDSA_ERR_OOM", "CDSA_ERR_NOT_FOUND",
                  "CDSA_ERR_ITER_INVALIDATED"}
  BY DEF Statuses
<1>2. ASSUME pc = "idle", SameContents, ValuesInv' PROVE KV!Next /\ ValuesInv'
  <2>1. status' \in Statuses
    BY DEF HInv, TypeOK
  <2>2. Contents' = Contents
    BY <1>2, SameContentsFun
  <2>3. KV!Keep
    BY <1>1, <1>2, <2>1, <2>2 DEF KV!Keep, KV!Begin
  <2> QED
    BY <1>2, <2>3 DEF KV!Next
<1>3. ASSUME NEW c \in InitCaps, Create(c) PROVE KV!Next /\ ValuesInv'
  <2>1. pc = "idle"
    BY <1>3 DEF Create, HInv, TypeOK
  <2> QED
    BY <1>2, <1>3, <2>1, CreateContents
<1>4. CASE CreateOOM \/ ResizeOOM \/ (\E k \in Keys : RemoveMiss(k)) \/ IterCall
  <2>1. /\ UNCHANGED <<live, tableVars, pc, insertVars, resizeVars, removeVars>>
        /\ pc = "idle"
    BY <1>4 DEF CreateOOM, ResizeOOM, RemoveMiss, IterCall, NewIter, HasNext, IterNext,
       IterEnd, IterInvalid, FreeIter, Walking, HInv, TypeOK
  <2> QED
    BY <1>2, <2>1, KeepContents
<1>5. CASE Free
  <2>1. (\A k \in Keys : Binding(k)' = NoValue) /\ ValuesInv'
    BY <1>5, FreeContents
  <2>2. Contents' = [k \in Keys |-> NoValue]
    BY <2>1, ContentsFun
  <2>3. pc = "idle" /\ status' = "CDSA_OK"
    BY <1>5 DEF Free
  <2>4. KV!Clear
    BY <2>2, <2>3 DEF KV!Clear, KV!Begin
  <2> QED
    BY <2>1, <2>4 DEF KV!Next
<1>6. ASSUME NEW k \in Keys, NEW v \in Values, pc = "idle", status' = "CDSA_OK",
             Binding(k)' = v, \A j \in Keys : j # k => Binding(j)' = Binding(j)
      PROVE  KV!Next
  <2>1. Contents' = [Contents EXCEPT ![k] = v]
    BY <1>6, ContentsFun
  <2>2. KV!Put(k, v)
    BY <1>6, <2>1 DEF KV!Put, KV!Begin
  <2> QED
    BY <2>2 DEF KV!Next
<1>7. ASSUME NEW k \in Keys, NEW v \in Values, Insert(k, v) PROVE KV!Next /\ ValuesInv'
  <2>1. pc = "idle" /\ status' = "CDSA_OK"
    BY <1>7 DEF Insert
  <2> QED
    BY <1>6, <1>7, <2>1, InsertContents
<1>8. ASSUME NEW k \in Keys, NEW v \in Values, InsertResize(k, v) PROVE KV!Next /\ ValuesInv'
  <2> DEFINE p == [Blank EXCEPT !.key = k, !.value = v]
  <2>1. /\ pc = "idle" /\ status' = "CDSA_OK" /\ live /\ live' = live /\ StartResize
        /\ pend' = p
    BY <1>8 DEF InsertResize
  <2>2. p.key = k /\ p.value = v
    BY DEF Blank
  <2> HIDE DEF p
  <2>3. /\ \A j \in Keys : Binding(j)' = IF p.key = j THEN p.value ELSE Binding(j)
        /\ ValuesInv'
    BY <2>1, <2>2, StartResizeContents
  <2> QED
    BY <1>6, <2>1, <2>2, <2>3
<1>9. CASE Resize
  <2>1. /\ pc = "idle" /\ live /\ live' = live /\ StartResize /\ pend' = Blank
    BY <1>9, IdleFacts DEF Resize
  <2>2. /\ \A j \in Keys : Binding(j)' = IF Blank.key = j THEN Blank.value ELSE Binding(j)
        /\ ValuesInv'
    BY <2>1, StartResizeContents
  <2>3. SameContents
    BY <2>2, HashMapAssumption DEF SameContents, Blank
  <2> QED
    BY <1>2, <2>1, <2>2, <2>3
<1>10. ASSUME NEW k \in Keys, RemoveFound(k) PROVE KV!Next /\ ValuesInv'
  <2>1. pc = "idle" /\ status' = "CDSA_OK"
    BY <1>10 DEF RemoveFound
  <2>2. /\ Binding(k) # NoValue /\ Binding(k)' = NoValue
        /\ \A j \in Keys : j # k => Binding(j)' = Binding(j)
        /\ ValuesInv'
    BY <1>10, RemoveContents
  <2>3. Contents' = [Contents EXCEPT ![k] = NoValue] /\ Contents[k] # NoValue
    BY <2>2, ContentsFun
  <2>4. KV!Delete(k)
    BY <2>1, <2>3 DEF KV!Delete, KV!Begin
  <2> QED
    BY <2>2, <2>4 DEF KV!Next
<1> QED
  BY <1>3, <1>4, <1>5, <1>7, <1>8, <1>9, <1>10 DEF MapCall

(* The hash map is a map: each call changes the one binding it names, all  *)
(* of them at teardown, or none, and the probes, swaps, rehashes and       *)
(* shifts by which it does so change none.                                 *)
THEOREM HashMapImplementsKVStore == Spec => ImplementsKVStore
<1>1. Init => KV!Init /\ ValuesInv
  <2> SUFFICES ASSUME Init PROVE KV!Init /\ ValuesInv
    OBVIOUS
  <2>1. /\ HInv /\ ~live /\ capacity = 0 /\ pc = "idle" /\ pend = Blank /\ old_capacity = 0
        /\ status = "CDSA_OK" /\ scan = 0
    BY InitInv DEF Init
  <2>2. ValuesInv
    BY <2>1 DEF ValuesInv, Slots, OldSlots, Probing, Blank
  <2>3. Contents = [k \in Keys |-> NoValue]
    BY <2>1, <2>2, DeadBinding DEF Contents
  <2> QED
    BY <2>1, <2>2, <2>3 DEF KV!Init
<1>2. ASSUME HInv, HInv', ValuesInv, [Next]_vars
      PROVE  [KV!Next]_<<Contents, status, pc # "idle">> /\ ValuesInv'
  <2>1. CASE UNCHANGED vars
    <3>1. SameContents /\ ValuesInv'
      BY <1>2, <2>1, KeepContents DEF vars
    <3> QED
      BY <2>1, <3>1, SameContentsFun DEF vars
  <2>2. CASE Step
    BY <1>2, <2>2, StepSimulation DEF KV!Next
  <2>3. CASE MapCall \/ IterCall
    BY <1>2, <2>3, CallSimulation
  <2> QED
    BY <1>2, <2>1, <2>2, <2>3 DEF Next
<1> QED
  BY <1>1, <1>2, InvCorrect, PTL DEF Spec, ImplementsKVStore, KV!Spec
=============================================================================
