----------------------------- MODULE BoundedFifo -----------------------------
(***************************************************************************)
(* What the ring buffers of the firmware promise: a bounded first-in       *)
(* first-out queue.  The audio buffer of storage.c is shown to implement it,*)
(* for saves (AudioOut) and for loads (AudioIn).  They differ in what a full*)
(* queue does: the audio output waits for room, the audio input drops the  *)
(* oldest item.                                                            *)
(***************************************************************************)
EXTENDS Naturals, Sequences

CONSTANTS
  Item,  \* what is queued
  Cap    \* how many items fit: one less than the size of the buffer

VARIABLE queue

Init == queue = <<>>

\* Room for one more.
Put(x) == Len(queue) < Cap /\ queue' = Append(queue, x)

\* No room: the oldest item makes way.
PutDropping(x) == Len(queue) = Cap /\ queue' = Append(Tail(queue), x)

Get == queue # <<>> /\ queue' = Tail(queue)

\* Whoever switches the device on starts from an empty queue.
Flush == queue' = <<>>

\* The queue of a producer that waits.
Blocking == Init /\ [][(\E x \in Item : Put(x)) \/ Get \/ Flush]_queue

\* The queue of a producer that cannot wait.
Lossy ==
  Init /\ [][(\E x \in Item : Put(x) \/ PutDropping(x)) \/ Get \/ Flush]_queue
=============================================================================
