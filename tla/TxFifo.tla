------------------------------- MODULE TxFifo -------------------------------
(***************************************************************************)
(* What the transmit side of a network driver promises the stack: the      *)
(* packets it accepted leave in the order they were accepted, each of them *)
(* once, a packet's buffer is given back only after it was sent, and what  *)
(* is given up (link lost, transmitter reset) is given up all together.    *)
(***************************************************************************)
EXTENDS Naturals, Sequences

CONSTANTS
  Packets,   \* the packets the stack may offer
  Capacity   \* how many the driver may hold

VARIABLES
  held,      \* the packets accepted and not given back, oldest first
  sent       \* how many of them are already on the wire

fifo == <<held, sent>>

FifoInit == held = << >> /\ sent = 0

Accept(p) ==
  /\ Len(held) < Capacity
  /\ \A i \in 1 .. Len(held) : held[i] # p
  /\ held' = Append(held, p)
  /\ UNCHANGED sent

Send ==
  /\ sent < Len(held)
  /\ sent' = sent + 1
  /\ UNCHANGED held

GiveBack(n) ==
  /\ n \in 1 .. sent
  /\ held' = SubSeq(held, n + 1, Len(held))
  /\ sent' = sent - n

GiveUp ==
  /\ held' = << >>
  /\ sent' = 0

FifoNext ==
  \/ \E p \in Packets : Accept(p)
  \/ Send
  \/ \E n \in 1 .. sent : GiveBack(n)
  \/ GiveUp

FifoSpec == FifoInit /\ [][FifoNext]_fifo

=============================================================================
