---------------------------- MODULE BoundedQueue ----------------------------
(***************************************************************************)
(* BoundedQueue of src/ai/FrameQueue.hpp: a deque, a mutex and a condition  *)
(* variable.  push never blocks and drops the oldest; pop blocks until      *)
(* there is an item or the queue is closed and empty.                      *)
(*                                                                         *)
(* One step is one critical section of the mutex or one notification, which *)
(* push and close send after they released the mutex.  Items are numbered   *)
(* in the order they enter the queue; what an item is is up to the modules  *)
(* that use one.                                                            *)
(***************************************************************************)
EXTENDS Naturals, Sequences

CONSTANTS
    Threads,     \* the threads that call the queue
    Requested    \* the capacity the constructor is given

VARIABLES
    queue,    \* m_queue, m_closed; pushed and popped: the number of the last
              \* item that entered and of the last that was popped
    at        \* where each thread is in its call: "out", "check" (in pop,
              \* about to look at the queue with the mutex held), "wait" (in
              \* the condition variable), "one" or "all" (about to notify)

vars == <<queue, at>>

Stages == {"out", "check", "wait", "one", "all"}
Capacity == IF Requested = 0 THEN 1 ELSE Requested

Init ==
    /\ queue = [items |-> <<>>, closed |-> FALSE, pushed |-> 0, popped |-> 0]
    /\ at = [t \in Threads |-> "out"]

Put(t, place) == at' = [at EXCEPT ![t] = place]

\* push, the locked part: the oldest item goes when there is no room.
RoomForOneMore(items) == IF Len(items) > Capacity THEN Tail(items) ELSE items
Room(items) == IF Len(items) >= Capacity THEN Tail(items) ELSE items
Displaced == IF Len(queue.items) >= Capacity THEN {Head(queue.items)} ELSE {}

Push(t) ==
    /\ at[t] = "out"
    /\ ~queue.closed
    /\ queue' = [queue EXCEPT !.items = Append(Room(@), queue.pushed + 1),
                              !.pushed = @ + 1]
    /\ Put(t, "one")

\* A closed queue takes nothing and tells nobody.
PushRefused(t) ==
    /\ at[t] = "out"
    /\ queue.closed
    /\ UNCHANGED vars

Pop(t) ==
    /\ at[t] = "out"
    /\ Put(t, "check")
    /\ UNCHANGED queue

Take(t) ==
    /\ at[t] = "check"
    /\ queue.items # <<>>
    /\ queue' = [queue EXCEPT !.items = Tail(@), !.popped = Head(queue.items)]
    /\ Put(t, "out")

\* pop returns false.
End(t) ==
    /\ at[t] = "check"
    /\ queue.items = <<>> /\ queue.closed
    /\ Put(t, "out")
    /\ UNCHANGED queue

Wait(t) ==
    /\ at[t] = "check"
    /\ queue.items = <<>> /\ ~queue.closed
    /\ Put(t, "wait")
    /\ UNCHANGED queue

CloseSilently(t) ==
    /\ at[t] = "out"
    /\ queue' = [queue EXCEPT !.closed = TRUE]
    /\ UNCHANGED at

Close(t) ==
    /\ at[t] = "out"
    /\ queue' = [queue EXCEPT !.closed = TRUE]
    /\ Put(t, "all")

Waiting == {t \in Threads : at[t] = "wait"}

NotifyOne(t) ==
    /\ at[t] = "one"
    /\ IF Waiting = {}
       THEN Put(t, "out")
       ELSE \E w \in Waiting : at' = [at EXCEPT ![t] = "out", ![w] = "check"]
    /\ UNCHANGED queue

NotifyAll(t) ==
    /\ at[t] = "all"
    /\ at' = [u \in Threads |-> CASE u = t -> "out"
                                  [] u \in Waiting -> "check"
                                  [] OTHER -> at[u]]
    /\ UNCHANGED queue

\* A condition variable may wake for no reason.
Spurious(t) ==
    /\ at[t] = "wait"
    /\ Put(t, "check")
    /\ UNCHANGED queue

Next ==
    \E t \in Threads :
        \/ Push(t) \/ PushRefused(t) \/ Close(t)
        \/ Pop(t) \/ Take(t) \/ End(t) \/ Wait(t)
        \/ NotifyOne(t) \/ NotifyAll(t) \/ Spurious(t)

Spec == Init /\ [][Next]_vars

-----------------------------------------------------------------------------
TypeOK ==
    /\ queue \in [items : Seq(Nat), closed : BOOLEAN, pushed : Nat, popped : Nat]
    /\ at \in [Threads -> Stages]

\* The queue holds the newest items, in order and without a gap, and no more
\* than it may; what was popped is older than all of them.
Fresh ==
    LET n == Len(queue.items) IN
    /\ n <= Capacity
    /\ n <= queue.pushed
    /\ \A i \in 1..n : queue.items[i] = queue.pushed - n + i
    /\ queue.popped <= queue.pushed - n

\* What it promises: FreshChannel.
Channel == INSTANCE FreshChannel WITH
    Capacity <- Capacity,
    offered <- queue.pushed,
    taken <- queue.popped,
    shut <- queue.closed
=============================================================================
