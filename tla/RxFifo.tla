------------------------------- MODULE RxFifo -------------------------------
(***************************************************************************)
(* What the receive side of a network driver promises the stack: the       *)
(* frames the NIC stored are looked at in the order they arrived; one that *)
(* is good is handed up, once, and one received with an error is dropped.  *)
(* None is invented and none overtakes another.                            *)
(***************************************************************************)
EXTENDS Naturals, Sequences

CONSTANTS
  Frames,    \* the good frames of the wire
  Bad,       \* a frame received with an error
  Capacity   \* how many the driver can keep waiting

VARIABLES
  waiting,   \* the frames stored and not disposed of, oldest first
  verdict    \* what is to be done with the oldest: "none", "up", "drop"

fifo == <<waiting, verdict>>

FifoInit == waiting = << >> /\ verdict = "none"

Store(f) ==
  /\ Len(waiting) < Capacity
  /\ waiting' = Append(waiting, f)
  /\ UNCHANGED verdict

Look ==
  /\ verdict = "none" /\ waiting # << >>
  /\ verdict' = IF Head(waiting) = Bad THEN "drop" ELSE "up"
  /\ UNCHANGED waiting

Dispose(v) ==
  /\ verdict = v /\ waiting # << >>
  /\ verdict' = "none"
  /\ waiting' = Tail(waiting)

HandUp == Dispose("up")
Drop   == Dispose("drop")

FifoNext == Look \/ HandUp \/ Drop \/ \E f \in Frames \cup {Bad} : Store(f)

FifoSpec == FifoInit /\ [][FifoNext]_fifo

=============================================================================
