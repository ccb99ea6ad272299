------------------------------ MODULE LossyFifo ------------------------------
(***************************************************************************)
(* What the outbound path of a Socket promises a client that never has two *)
(* requests open at the same time: the messages emitted to it arrive in    *)
(* the order in which they were emitted, each at most once, and none is    *)
(* skipped until the connection breaks (a write fails, or the socket is    *)
(* killed).  Messages are numbered in the order they are emitted.          *)
(***************************************************************************)
EXTENDS Naturals, Sequences

VARIABLES
  emitted,  \* how many messages were emitted
  inbox,    \* what the client received
  broken    \* the connection may lose messages

fifoVars == <<emitted, inbox, broken>>

FifoInit == emitted = 0 /\ inbox = <<>> /\ broken = FALSE

FifoEmit == emitted' = emitted + 1 /\ UNCHANGED inbox

\* The client receives the messages that follow the last one it has: the very
\* next ones, unless the connection is broken.
FifoDeliver ==
  /\ UNCHANGED emitted
  /\ Len(inbox') > Len(inbox)
  /\ SubSeq(inbox', 1, Len(inbox)) = inbox
  /\ \A i \in 1 .. Len(inbox') : inbox'[i] \in 1 .. emitted
  /\ \A i, j \in 1 .. Len(inbox') : i < j => inbox'[i] < inbox'[j]
  /\ ~broken => \A i \in 1 .. Len(inbox') : inbox'[i] = i

FifoBreak == UNCHANGED <<emitted, inbox>>

FifoNext == (FifoEmit \/ FifoDeliver \/ FifoBreak) /\ (broken => broken')

FifoSpec == FifoInit /\ [][FifoNext]_fifoVars

=============================================================================
