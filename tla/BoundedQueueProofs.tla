------------------------- MODULE BoundedQueueProofs -------------------------
(* The drop-oldest queue of src/ai/FrameQueue.hpp, proved for every number of *)
(* threads, every capacity and any number of items: what it holds, and that  *)
(* it is the lossy channel FreshChannel describes.                          *)
EXTENDS BoundedQueue, TLAPS

(* The queue's share of a state: the invariant that the steps preserve.       *)
IInv == TypeOK /\ Fresh

(* A capacity of zero counts as one. *)
LEMMA CapacityPositive == Requested \in Nat => Capacity \in Nat \ {0}
  BY DEF Capacity

(* The initial states satisfy the invariant. *)
LEMMA InitIInv == Requested \in Nat /\ Init => IInv
  BY CapacityPositive DEF Init, IInv, TypeOK, Fresh, Stages

(* What push does to the items: they stay consecutive, the newest last, and   *)
(* as many as fit.                                                          *)
LEMMA RoomKeepsOrder ==
  ASSUME Capacity \in Nat \ {0}, NEW items \in Seq(Nat), NEW last \in Nat,
         Len(items) <= Capacity, Len(items) <= last,
         \A i \in 1..Len(items) : items[i] = last - Len(items) + i
  PROVE  LET now == Append(Room(items), last + 1)
         IN  /\ now \in Seq(Nat)
             /\ Len(now) <= Capacity /\ Len(now) <= last + 1
             /\ Len(now) <= Len(items) + 1 /\ Len(now) > 0
             /\ \A i \in 1..Len(now) : now[i] = last + 1 - Len(now) + i
<1> DEFINE kept == Room(items)
<1>1. /\ kept \in Seq(Nat)
      /\ Len(kept) < Capacity /\ Len(kept) <= Len(items)
      /\ \A i \in 1..Len(kept) : kept[i] = last - Len(kept) + i
  <2>1. CASE Len(items) >= Capacity
    <3>1. items # <<>> /\ kept = Tail(items)
      BY <2>1 DEF Room
    <3>2. /\ Tail(items) \in Seq(Nat)
          /\ Len(Tail(items)) = Len(items) - 1
          /\ \A i \in 1..(Len(items) - 1) : Tail(items)[i] = items[i + 1]
      BY <3>1
    <3> QED
      BY <3>1, <3>2
  <2>2. CASE Len(items) < Capacity
    <3>1. kept = items
      BY <2>2 DEF Room
    <3> QED
      BY <2>2, <3>1
  <2> QED
    BY <2>1, <2>2
<1> HIDE DEF kept
<1>2. /\ Append(kept, last + 1) \in Seq(Nat)
      /\ Len(Append(kept, last + 1)) = Len(kept) + 1
      /\ \A i \in 1..Len(kept) : Append(kept, last + 1)[i] = kept[i]
      /\ Append(kept, last + 1)[Len(kept) + 1] = last + 1
  BY <1>1
<1>3. Len(kept) \in Nat /\ Len(items) \in Nat
  BY <1>1
<1>4. ASSUME NEW i \in 1..(Len(kept) + 1)
      PROVE  Append(kept, last + 1)[i] = last - Len(kept) + i
  <2>1. CASE i = Len(kept) + 1
    BY <1>2, <1>3, <2>1
  <2>2. CASE i # Len(kept) + 1
    <3>1. i \in 1..Len(kept)
      BY <1>3, <2>2
    <3> QED
      BY <1>1, <1>2, <3>1
  <2> QED
    BY <2>1, <2>2
<1>5. /\ Len(kept) + 1 <= Capacity /\ Len(kept) + 1 <= last + 1
      /\ Len(kept) + 1 <= Len(items) + 1 /\ Len(kept) + 1 > 0
  BY <1>1, <1>3
<1>6. last - Len(kept) = last + 1 - (Len(kept) + 1)
  BY <1>3
<1> QED
  BY <1>2, <1>4, <1>5, <1>6 DEF kept

(* A push keeps the invariant. *)
LEMMA PushIInv ==
  ASSUME Requested \in Nat, IInv, NEW t \in Threads, Push(t)
  PROVE  IInv'
<1>1. Capacity \in Nat \ {0}
  BY CapacityPositive
<1> DEFINE now == Append(Room(queue.items), queue.pushed + 1)
<1>2. /\ now \in Seq(Nat)
      /\ Len(now) <= Capacity /\ Len(now) <= queue.pushed + 1
      /\ Len(now) <= Len(queue.items) + 1 /\ Len(now) > 0
      /\ \A i \in 1..Len(now) : now[i] = queue.pushed + 1 - Len(now) + i
  <2>1. /\ queue.items \in Seq(Nat) /\ queue.pushed \in Nat
        /\ Len(queue.items) <= Capacity /\ Len(queue.items) <= queue.pushed
        /\ \A i \in 1..Len(queue.items) :
              queue.items[i] = queue.pushed - Len(queue.items) + i
    BY DEF IInv, TypeOK, Fresh
  <2> QED
    BY <1>1, <2>1, RoomKeepsOrder
<1>3. /\ queue'.items = now /\ queue'.pushed = queue.pushed + 1
      /\ queue'.popped = queue.popped /\ queue'.closed = queue.closed
      /\ queue' = [items |-> now, closed |-> queue.closed,
                   pushed |-> queue.pushed + 1, popped |-> queue.popped]
  BY DEF Push, IInv, TypeOK
<1>4. TypeOK'
  <2>1. queue' \in [items : Seq(Nat), closed : BOOLEAN, pushed : Nat, popped : Nat]
    <3> HIDE DEF now
    <3> QED
      BY <1>2, <1>3 DEF IInv, TypeOK
  <2>2. at' \in [Threads -> Stages]
    BY DEF Push, Put, IInv, TypeOK, Stages
  <2> QED
    BY <2>1, <2>2 DEF TypeOK
<1>5. Fresh'
  <2> HIDE DEF now
  <2> QED
    BY <1>1, <1>2, <1>3 DEF IInv, TypeOK, Fresh
<1> QED
  BY <1>4, <1>5 DEF IInv

(* So does taking the oldest item. *)
LEMMA TakeIInv ==
  ASSUME Requested \in Nat, IInv, NEW t \in Threads, Take(t)
  PROVE  IInv'
<1>1. Capacity \in Nat \ {0}
  BY CapacityPositive
<1>2. queue.items \in Seq(Nat) /\ queue.items # <<>>
  BY DEF IInv, TypeOK, Take
<1>3. /\ Tail(queue.items) \in Seq(Nat)
      /\ Len(Tail(queue.items)) = Len(queue.items) - 1
      /\ Len(queue.items) > 0
      /\ Head(queue.items) = queue.items[1] /\ Head(queue.items) \in Nat
      /\ \A i \in 1..(Len(queue.items) - 1) : Tail(queue.items)[i] = queue.items[i + 1]
  BY <1>2
<1>4. queue' = [items |-> Tail(queue.items), closed |-> queue.closed,
                pushed |-> queue.pushed, popped |-> Head(queue.items)]
  BY DEF Take, IInv, TypeOK
<1>5. TypeOK'
  BY <1>3, <1>4 DEF Take, Put, IInv, TypeOK, Stages
<1> DEFINE n == Len(queue.items)
<1>6. /\ n \in Nat /\ n > 0 /\ n <= Capacity /\ n <= queue.pushed
      /\ queue.pushed \in Nat
      /\ \A i \in 1..n : queue.items[i] = queue.pushed - n + i
  BY <1>3 DEF IInv, TypeOK, Fresh
<1>7. ASSUME NEW i \in 1..(n - 1)
      PROVE  Tail(queue.items)[i] = queue.pushed - (n - 1) + i
  <2>1. i + 1 \in 1..n /\ Tail(queue.items)[i] = queue.items[i + 1]
    BY <1>3, <1>6
  <2>2. queue.items[i + 1] = queue.pushed - n + (i + 1)
    BY <1>6, <2>1
  <2> HIDE DEF n
  <2>3. queue.pushed - n + (i + 1) = queue.pushed - (n - 1) + i
    BY <1>6
  <2> QED
    BY <2>1, <2>2, <2>3
<1>8. Head(queue.items) = queue.pushed - (n - 1)
  BY <1>3, <1>6
<1>9. Fresh'
  <2> HIDE DEF n
  <2>1. Len(queue'.items) = n - 1
    BY <1>3, <1>4 DEF n
  <2>2. /\ queue'.items = Tail(queue.items) /\ queue'.pushed = queue.pushed
        /\ queue'.popped = Head(queue.items)
    BY <1>4
  <2>3. /\ n - 1 <= Capacity /\ n - 1 <= queue.pushed
        /\ queue.pushed - (n - 1) <= queue.pushed - (n - 1)
    BY <1>1, <1>6
  <2>4. \A i \in 1..Len(queue'.items) :
          queue'.items[i] = queue'.pushed - Len(queue'.items) + i
    BY <1>7, <2>1, <2>2
  <2>5. /\ Len(queue'.items) <= Capacity /\ Len(queue'.items) <= queue'.pushed
        /\ queue'.popped <= queue'.pushed - Len(queue'.items)
    BY <1>8, <2>1, <2>2, <2>3
  <2> QED
    BY <2>4, <2>5 DEF Fresh
<1> QED
  BY <1>5, <1>9 DEF IInv

(* The other steps move threads about, and close the queue. *)
LEMMA RestIInv ==
  ASSUME IInv, NEW t \in Threads,
         \/ PushRefused(t) \/ Close(t) \/ Pop(t) \/ End(t) \/ Wait(t)
         \/ NotifyOne(t) \/ NotifyAll(t) \/ Spurious(t)
  PROVE  IInv'
<1>1. /\ queue'.items = queue.items /\ queue'.pushed = queue.pushed
      /\ queue'.popped = queue.popped
      /\ queue' \in [items : Seq(Nat), closed : BOOLEAN, pushed : Nat, popped : Nat]
  BY DEF IInv, TypeOK, PushRefused, Close, Pop, End, Wait, NotifyOne, NotifyAll,
         Spurious, vars
<1>2. at' \in [Threads -> Stages]
  BY DEF IInv, TypeOK, PushRefused, Close, Pop, End, Wait, NotifyOne, NotifyAll,
         Spurious, vars, Put, Stages, Waiting
<1> QED
  BY <1>1, <1>2 DEF IInv, TypeOK, Fresh

(* The queue holds the newest items in order and without a gap, never more    *)
(* than its capacity, and what was popped is older than all of them          *)
(* (src/ai/FrameQueue.hpp, push and pop).                                    *)
THEOREM QueueIsFresh == Requested \in Nat /\ Spec => [](TypeOK /\ Fresh)
<1> SUFFICES ASSUME Requested \in Nat PROVE Spec => [](TypeOK /\ Fresh)
  OBVIOUS
<1>1. Init => IInv
  BY InitIInv
<1>2. IInv /\ [Next]_vars => IInv'
  <2> SUFFICES ASSUME IInv, [Next]_vars PROVE IInv'
    OBVIOUS
  <2>1. CASE UNCHANGED vars
    BY <2>1 DEF IInv, TypeOK, Fresh, vars
  <2>2. ASSUME NEW t \in Threads, Push(t) PROVE IInv'
    BY <2>2, PushIInv
  <2>3. ASSUME NEW t \in Threads, Take(t) PROVE IInv'
    BY <2>3, TakeIInv
  <2>4. ASSUME NEW t \in Threads,
               \/ PushRefused(t) \/ Close(t) \/ Pop(t) \/ End(t) \/ Wait(t)
               \/ NotifyOne(t) \/ NotifyAll(t) \/ Spurious(t)
        PROVE IInv'
    BY <2>4, RestIInv
  <2> QED
    BY <2>1, <2>2, <2>3, <2>4 DEF Next
<1> QED
  BY <1>1, <1>2, PTL DEF Spec, IInv

(* It implements the abstract channel: every step of the queue offers, takes, *)
(* shuts or leaves the channel as it is.  (That the newest item arrives in   *)
(* the end is liveness, which the runs check.)                              *)
THEOREM QueueImplementsChannel ==
  Requested \in Nat /\ Spec => Channel!Safety
<1> SUFFICES ASSUME Requested \in Nat
             PROVE  Spec => Channel!Safety
  OBVIOUS
<1>1. Init => Channel!Init
  BY DEF Init, Channel!Init
<1>2. TypeOK /\ Fresh /\ [Next]_vars => [Channel!Next]_(Channel!vars)
  <2> SUFFICES ASSUME TypeOK, Fresh, [Next]_vars
               PROVE  [Channel!Next]_(Channel!vars)
    OBVIOUS
  <2>1. CASE UNCHANGED vars
    BY <2>1 DEF vars, Channel!vars
  <2>2. ASSUME NEW t \in Threads, Push(t) PROVE Channel!Offer
    BY <2>2 DEF Push, Channel!Offer, TypeOK
  <2>3. ASSUME NEW t \in Threads, Take(t) PROVE Channel!Take
    <3>1. /\ queue.items \in Seq(Nat) /\ queue.items # <<>>
          /\ Head(queue.items) = queue.items[1] /\ Len(queue.items) >= 1
      BY <2>3 DEF Take, TypeOK
    <3>2. Head(queue.items) = queue.pushed - Len(queue.items) + 1
      BY <3>1 DEF Fresh, TypeOK
    <3>3. /\ Head(queue.items) \in (queue.popped + 1) .. queue.pushed
          /\ Head(queue.items) + Capacity > queue.pushed
      BY <3>1, <3>2, CapacityPositive DEF Fresh, TypeOK
    <3>4. /\ queue'.popped = Head(queue.items)
          /\ queue'.pushed = queue.pushed /\ queue'.closed = queue.closed
      BY <2>3 DEF Take, TypeOK
    <3> QED
      BY <3>3, <3>4 DEF Channel!Take
  <2>4. ASSUME NEW t \in Threads, Close(t) PROVE Channel!Shut
    BY <2>4 DEF Close, Channel!Shut, TypeOK
  <2>5. ASSUME NEW t \in Threads,
               \/ PushRefused(t) \/ Pop(t) \/ End(t) \/ Wait(t)
               \/ NotifyOne(t) \/ NotifyAll(t) \/ Spurious(t)
        PROVE UNCHANGED Channel!vars
    BY <2>5 DEF PushRefused, Pop, End, Wait, NotifyOne, NotifyAll, Spurious,
                vars, Channel!vars
  <2> QED
    BY <2>1, <2>2, <2>3, <2>4, <2>5 DEF Next, Channel!Next
<1>3. Spec => [](TypeOK /\ Fresh)
  BY QueueIsFresh
<1> QED
  BY <1>1, <1>2, <1>3, PTL DEF Spec, Channel!Safety

-----------------------------------------------------------------------------
(* For the modules that use a queue, in terms of numbers: it holds the items  *)
(* after First up to pushed.                                                *)
First == queue.pushed - Len(queue.items)

LEMMA View ==
  ASSUME Requested \in Nat, IInv
  PROVE  /\ queue.pushed \in Nat /\ queue.popped \in Nat /\ First \in Nat
         /\ queue.popped <= First /\ First <= queue.pushed
         /\ queue.items = <<>> <=> First = queue.pushed
         /\ queue.items # <<>> => Head(queue.items) = First + 1
         /\ \/ Displaced = {}
            \/ Displaced = {First + 1} /\ First < queue.pushed
<1>1. /\ queue.items \in Seq(Nat) /\ queue.pushed \in Nat /\ queue.popped \in Nat
      /\ Len(queue.items) \in Nat /\ Len(queue.items) <= queue.pushed
      /\ queue.popped <= queue.pushed - Len(queue.items)
  BY DEF IInv, TypeOK, Fresh
<1>2. queue.items = <<>> <=> Len(queue.items) = 0
  BY <1>1
<1>3. First \in Nat /\ queue.popped <= First /\ First <= queue.pushed
      /\ (Len(queue.items) = 0 <=> First = queue.pushed)
  BY <1>1 DEF First
<1>4. queue.items # <<>> => Head(queue.items) = First + 1 /\ First < queue.pushed
  <2> SUFFICES ASSUME queue.items # <<>>
               PROVE  Head(queue.items) = First + 1 /\ First < queue.pushed
    OBVIOUS
  <2>1. Head(queue.items) = queue.items[1] /\ Len(queue.items) >= 1
    BY <1>1
  <2>2. queue.items[1] = queue.pushed - Len(queue.items) + 1
    BY <2>1 DEF IInv, Fresh
  <2> QED
    BY <1>1, <2>1, <2>2 DEF First
<1>5. Len(queue.items) >= Capacity => queue.items # <<>>
  BY <1>1, CapacityPositive
<1> QED
  BY <1>1, <1>2, <1>3, <1>4, <1>5 DEF Displaced

LEMMA PushView ==
  ASSUME Requested \in Nat, IInv, NEW t \in Threads, Push(t)
  PROVE  /\ queue'.pushed = queue.pushed + 1 /\ queue'.popped = queue.popped
         /\ queue.closed = FALSE /\ queue'.closed = FALSE
         /\ First' < queue'.pushed
         /\ \/ Displaced = {} /\ First' = First
            \/ Displaced = {First + 1} /\ First' = First + 1
<1>1. /\ queue.items \in Seq(Nat) /\ queue.pushed \in Nat /\ Len(queue.items) \in Nat
      /\ Capacity \in Nat \ {0} /\ queue.closed \in BOOLEAN
  BY CapacityPositive DEF IInv, TypeOK
<1>2. /\ queue'.items = Append(Room(queue.items), queue.pushed + 1)
      /\ queue'.pushed = queue.pushed + 1 /\ queue'.popped = queue.popped
      /\ queue'.closed = queue.closed /\ queue.closed = FALSE
  BY DEF Push, IInv, TypeOK
<1>3. CASE Len(queue.items) >= Capacity
  <2>1. queue.items # <<>> /\ Room(queue.items) = Tail(queue.items)
    BY <1>1, <1>3 DEF Room
  <2>2. Len(Append(Room(queue.items), queue.pushed + 1)) = Len(queue.items)
    BY <1>1, <2>1
  <2>3. First' = First + 1 /\ First' < queue'.pushed
    BY <1>1, <1>2, <1>3, <2>2 DEF First
  <2>4. Displaced = {First + 1}
    BY <1>3, <2>1, View DEF Displaced
  <2> QED
    BY <1>2, <2>3, <2>4
<1>4. CASE ~(Len(queue.items) >= Capacity)
  <2>1. Displaced = {} /\ Room(queue.items) = queue.items
    BY <1>4 DEF Displaced, Room
  <2>2. Len(Append(Room(queue.items), queue.pushed + 1)) = Len(queue.items) + 1
    BY <1>1, <2>1
  <2>3. First' = First /\ First' < queue'.pushed
    <3>1. Len(queue'.items) = Len(queue.items) + 1
      BY <1>2, <2>2
    <3>2. First' = (queue.pushed + 1) - (Len(queue.items) + 1)
      BY <1>2, <3>1 DEF First
    <3>3. First = queue.pushed - Len(queue.items)
      BY DEF First
    <3>4. ASSUME NEW l \in Nat, NEW p \in Nat
          PROVE  (p + 1) - (l + 1) = p - l /\ p - l < p + 1
      OBVIOUS
    <3>5. /\ (queue.pushed + 1) - (Len(queue.items) + 1) = queue.pushed - Len(queue.items)
          /\ queue.pushed - Len(queue.items) < queue.pushed + 1
      BY ONLY <1>1, <3>4
    <3>6. First' = First /\ First' < queue.pushed + 1
      BY ONLY <3>2, <3>3, <3>5
    <3> QED
      BY ONLY <1>2, <3>6
  <2> QED
    BY <1>2, <2>1, <2>3
<1> QED
  BY <1>3, <1>4

LEMMA TakeView ==
  ASSUME Requested \in Nat, IInv, NEW t \in Threads, Take(t)
  PROVE  /\ queue'.pushed = queue.pushed /\ queue'.popped = First + 1
         /\ queue'.closed = queue.closed /\ Head(queue.items) = First + 1
         /\ First < queue.pushed /\ First' = First + 1
<1>1. /\ queue.items \in Seq(Nat) /\ queue.pushed \in Nat /\ queue.items # <<>>
      /\ Len(queue.items) \in Nat
  BY DEF Take, IInv, TypeOK
<1>2. /\ queue'.items = Tail(queue.items) /\ queue'.popped = Head(queue.items)
      /\ queue'.pushed = queue.pushed /\ queue'.closed = queue.closed
  BY DEF Take, IInv, TypeOK
<1>3. Len(Tail(queue.items)) = Len(queue.items) - 1 /\ Len(queue.items) > 0
  BY <1>1
<1>4. First' = First + 1 /\ First < queue.pushed
  BY <1>1, <1>2, <1>3 DEF First
<1> QED
  BY <1>1, <1>2, <1>4, View

LEMMA RestView ==
  ASSUME IInv, NEW t \in Threads,
         \/ PushRefused(t) \/ Pop(t) \/ End(t) \/ Wait(t)
         \/ NotifyOne(t) \/ NotifyAll(t) \/ Spurious(t)
  PROVE  queue' = queue /\ First' = First
  BY DEF PushRefused, Pop, End, Wait, NotifyOne, NotifyAll, Spurious, vars, First

LEMMA CloseView ==
  ASSUME IInv, NEW t \in Threads, Close(t)
  PROVE  /\ queue'.pushed = queue.pushed /\ queue'.popped = queue.popped
         /\ queue'.closed = TRUE /\ queue'.items = queue.items /\ First' = First
  BY DEF Close, First, IInv, TypeOK
=============================================================================
