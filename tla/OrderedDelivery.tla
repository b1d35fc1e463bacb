--------------------------- MODULE OrderedDelivery --------------------------
(***************************************************************************)
(* What a cursor over the event log promises, whoever moves it: every event *)
(* is delivered once, in the order of the positions, and none is passed     *)
(* over, although events become visible in any order.                       *)
(***************************************************************************)
EXTENDS Integers, Sequences

CONSTANT MaxPos   \* bound on positions

VARIABLES
  log,        \* positions of the visible events
  excused,    \* positions whose event the consumer does not have to handle
  frontier,   \* everything up to here is settled
  delivered   \* the positions handled so far, in order

vars == <<log, excused, frontier, delivered>>

Init ==
  /\ log = {}
  /\ excused \subseteq 1..MaxPos
  /\ frontier = 0
  /\ delivered = <<>>

\* Events become visible only beyond the frontier.
Publish ==
  /\ \E new \in SUBSET (frontier + 1 .. MaxPos) : log' = log \cup new
  /\ UNCHANGED <<excused, frontier, delivered>>

\* Events may lose their claim to be handled (their key is revoked).
Excuse ==
  /\ \E S \in SUBSET (1..MaxPos) : excused' = excused \cup S
  /\ UNCHANGED <<log, frontier, delivered>>

\* Positions of delivered that this step has added, the ascending order of what it
\* has added, and that nothing else of it has changed.
Handled == {delivered'[i] : i \in Len(delivered) + 1 .. Len(delivered')}

Extended ==
  /\ Len(delivered) <= Len(delivered')
  /\ \A i \in 1..Len(delivered) : delivered'[i] = delivered[i]
  /\ \A i, j \in Len(delivered) + 1 .. Len(delivered') :
       i < j => delivered'[i] < delivered'[j]

\* The frontier moves up, and every event it passes is handled in order.
Deliver ==
  /\ \E f \in frontier + 1 .. MaxPos :
       LET passed == {p \in log : frontier < p /\ p <= f}
       IN /\ frontier' = f
          /\ passed \ excused \subseteq Handled
          /\ Handled \subseteq passed
  /\ Extended
  /\ UNCHANGED <<log, excused>>

Next == Publish \/ Excuse \/ Deliver

Spec == Init /\ [][Next]_vars
=============================================================================
