---------------------------- MODULE LogDelivery ----------------------------
(***************************************************************************)
(* What the gateway-log collector owes the landing zone, without its       *)
(* watermark, its listing or its phases.  The gateway rewrites report      *)
(* files; the collector delivers snapshots of them.  A delivery is a       *)
(* batch, never goes back to an older snapshot and never contains one the  *)
(* file did not have.  A file may be "abandoned": its newest version was   *)
(* overlooked for a reason the collector's model names.  Every other       *)
(* undelivered version is still owed.                                      *)
(***************************************************************************)
EXTENDS Naturals

CONSTANT Files          \* the gateway's report files

VARIABLES
  written,              \* newest version of each file (0: not yet created)
  delivered,            \* newest version of each file in the landing zone
  abandoned             \* files whose newest version was overlooked

vars == <<written, delivered, abandoned>>

TypeOK ==
  /\ written \in [Files -> Nat]
  /\ delivered \in [Files -> Nat]
  /\ abandoned \in SUBSET Files

Init ==
  /\ written \in [Files -> Nat]
  /\ delivered = [f \in Files |-> 0]
  /\ abandoned = {}

\* The gateway creates or appends to a report; only f's own status may change.
Write(f) ==
  /\ written' = [written EXCEPT ![f] = @ + 1]
  /\ abandoned' \in {abandoned \ {f}, abandoned \union {f}}
  /\ UNCHANGED delivered

\* A batch reaches the landing zone.  Nothing is newly abandoned by it, and a
\* file delivered in its newest version is abandoned no longer.
Deliver ==
  /\ delivered' \in [Files -> Nat]
  /\ \A f \in Files : delivered[f] <= delivered'[f] /\ delivered'[f] <= written[f]
  /\ abandoned' = {f \in abandoned : delivered'[f] # written[f]}
  /\ UNCHANGED written

\* The collector overlooks files it still owes, or finds it can still see them.
Reconsider ==
  /\ abandoned' \in SUBSET Files
  /\ \A f \in abandoned' \ abandoned : delivered[f] # written[f]
  /\ UNCHANGED <<written, delivered>>

Next ==
  \/ \E f \in Files : Write(f)
  \/ Deliver
  \/ Reconsider

Spec == Init /\ [][Next]_vars
=============================================================================
