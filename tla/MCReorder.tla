------------------------------ MODULE MCReorder ------------------------------
\* Instances of ReorderBuffer for TLC and the properties it must have.
EXTENDS ReorderBuffer, FiniteSets

\* The number win_start stands for: the one near the newest frame.
Base(f) ==
  IF ~entry[f].start_rcv THEN 0
  ELSE Newest(f) + 1 - SN_DIFF((Newest(f) + 1) % SnSpace, entry[f].win_start)

Abstract == INSTANCE InOrderDelivery WITH
  open <- {f \in Flows : entry[f].start_rcv},
  base <- [f \in Flows |-> Base(f)],
  held <- [f \in Flows |-> Held(f)]

\* While a window is open, frames of a flow go up in order, none that is held
\* is lost or overtaken, and the window only moves forward, although the code
\* sees numbers modulo 4096 and keeps frames in slots modulo the window size
\* (reorder_ctrl_check, reorder_ctrl_timeout, reorder_ctrl_consumeQ), under the
\* condition of TimeoutHeld on copies.
DeliversInOrder == Abstract!Spec

\* A held frame is passed up in the end, or the station is released, under
\* the condition of TimeoutHeld on copies.
HeldFramesLeave == \A f \in Flows, n \in Frames : n \in Held(f) ~> n \notin Held(f)
=============================================================================
