--------------------------- MODULE InOrderDelivery ---------------------------
(***************************************************************************)
(* What a reorder buffer promises to each of its flows, told with numbers  *)
(* that never wrap: base is the number it waits for, held what it keeps.  *)
(* While a window is open, whatever was held goes up in order and before   *)
(* anything newer, no held frame is lost, and base only moves forward;     *)
(* what arrives behind base goes up at once.                               *)
(***************************************************************************)
EXTENDS Integers, Sequences, FiniteSets

CONSTANTS Flows, Frames

VARIABLES
  open,  \* the flows with a window
  base,  \* the number each of them waits for
  held,  \* the frames each of them keeps
  up     \* the frames of each flow its latest step passed up

vars == <<open, base, held, up>>

Init ==
  /\ open = {}
  /\ base = [f \in Flows |-> 0]
  /\ held = [f \in Flows |-> {}]
  /\ up = [f \in Flows |-> <<>>]

Increasing(s) == \A i \in 1 .. Len(s) - 1 : s[i] < s[i + 1]

Elements(s) == {s[i] : i \in DOMAIN s}

\* Of the frames S all below the new base go up, in order; the window stays
\* open unless nothing is left.
Released(f, S) ==
  /\ Increasing(up'[f])
  /\ held'[f] = S \ Elements(up'[f])
  /\ Elements(up'[f]) \subseteq S
  /\ \/ /\ f \in open' /\ base'[f] >= base[f]
        /\ \A n \in Elements(up'[f]) : n < base'[f]
        /\ \A n \in held'[f] : n >= base'[f]
     \/ f \notin open' /\ held'[f] = {}

Through(f, n) ==
  /\ f \notin open /\ f \notin open'
  /\ up'[f] = <<n>> /\ held'[f] = held[f]

Begin(f, n) ==
  /\ f \notin open /\ f \in open'
  /\ up'[f] = <<n>> /\ base'[f] = n + 1 /\ held'[f] = {}

Late(f, n) ==
  /\ f \in open /\ f \in open'
  /\ n < base[f] /\ up'[f] = <<n>>
  /\ base'[f] = base[f] /\ held'[f] = held[f]

Accept(f, n) ==
  /\ f \in open /\ n >= base[f]
  /\ Released(f, held[f] \cup {n})

\* Time passes: some of what is missing is given up.
GiveUp(f) ==
  /\ f \in open
  /\ Released(f, held[f])

\* The station is gone.
Forget(f) == f \notin open' /\ held'[f] = {} /\ up'[f] = <<>>

Unmoved(f) ==
  /\ f \in open <=> f \in open'
  /\ base'[f] = base[f] /\ held'[f] = held[f] /\ up'[f] = up[f]

Step(f) ==
  \/ \E n \in Frames : Through(f, n) \/ Begin(f, n) \/ Late(f, n) \/ Accept(f, n)
  \/ GiveUp(f) \/ Forget(f) \/ Unmoved(f)

Spec == Init /\ [][\A f \in Flows : Step(f)]_vars
=============================================================================
