----------------------------- MODULE QueueDeque ------------------------------
(***************************************************************************)
(* src/src/queue.c and src/src/deque.c: two faces of the ring buffer.  A   *)
(* deque forwards every call; a queue offers push_back and pop_front only. *)
(* The history of what a queue was given and gave back states its order    *)
(* end to end.                                                             *)
(***************************************************************************)
EXTENDS RingBuffer

CONSTANT MaxHistory      \* bound on the number of elements enqueued

VARIABLES kind, enqueued, dequeued

history == <<enqueued, dequeued>>
qvars == <<vars, kind, history>>

QInit == Init /\ kind = "queue" /\ enqueued = <<>> /\ dequeued = <<>>

(* The face is chosen when the ring is created.                            *)
Open(k, c) == Create(c) /\ kind' = k /\ enqueued' = <<>> /\ dequeued' = <<>>
Create_queue(c) == Open("queue", c)
Create_deque(c) == Open("deque", c)

Close == Free /\ enqueued' = <<>> /\ dequeued' = <<>> /\ UNCHANGED kind

Enqueue(e) ==
  /\ kind = "queue" /\ Len(enqueued) < MaxHistory
  /\ PushBack(e)
  /\ enqueued' = Append(enqueued, e) /\ UNCHANGED <<kind, dequeued>>

(* (mutant) takes the newest element                                       *)
DequeueBack ==
  /\ kind = "queue" /\ PopBack
  /\ dequeued' = Append(dequeued, Back) /\ UNCHANGED <<kind, enqueued>>

(* The client reads the element with front before it drops it.             *)
Dequeue ==
  /\ kind = "queue" /\ PopFront
  /\ dequeued' = Append(dequeued, Front) /\ UNCHANGED <<kind, enqueued>>

DequeCall ==
  /\ kind = "deque"
  /\ PopFront \/ PopBack \/ \E e \in Elems : PushBack(e) \/ PushFront(e)
  /\ UNCHANGED <<kind, history>>

Refuse == (CreateOOM \/ PushFull \/ PopEmpty) /\ UNCHANGED <<kind, history>>

WalkCall == IterCall /\ UNCHANGED <<kind, history>>

QNext ==
  \/ \E c \in Capacities : Create_queue(c) \/ Create_deque(c)
  \/ \E e \in Elems : Enqueue(e)
  \/ Close \/ Dequeue \/ DequeCall \/ Refuse \/ WalkCall

QSpec == QInit /\ [][QNext]_qvars

(* What was dequeued, followed by what the queue still holds, is what was  *)
(* enqueued, in that order: nothing is lost, duplicated or overtaken, not  *)
(* even by an element that was refused.                                    *)
FirstInFirstOut == kind = "queue" => enqueued = dequeued \o Contents
=============================================================================
