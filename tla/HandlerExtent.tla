--------------------------- MODULE HandlerExtent ---------------------------
(***************************************************************************)
(* What an execution engine for Ruddy promises about handlers, without     *)
(* saying how it runs code.  Every invocation keeps a stack of the         *)
(* handlers it has entered and not yet left, innermost last.  A handler    *)
(* belongs to the invocation that entered it; leaving it closes it and     *)
(* every handler entered inside it; an invocation that ends closes all it  *)
(* has; and a closed handler is never opened again.                        *)
(*                                                                         *)
(* CpsDriver, the driver of the JavaScript backend, is shown to implement  *)
(* this specification.                                                     *)
(***************************************************************************)
EXTENDS Naturals, Sequences

CONSTANTS
  Invocation,   \* computations that may be started
  Handler       \* dynamic handler identities

VARIABLES
  phase,        \* [Invocation -> {"free", "running", "over"}]
  extent,       \* [Invocation -> Seq(Handler)]: entered and not left
  life          \* [Handler -> {"unborn", "live", "dead"}]

extentVars == <<phase, extent, life>>

ExtentTypeOK ==
  /\ phase \in [Invocation -> {"free", "running", "over"}]
  /\ extent \in [Invocation -> Seq(Handler)]
  /\ life \in [Handler -> {"unborn", "live", "dead"}]

Within(s, from) == { s[i] : i \in from .. Len(s) }

Init ==
  /\ phase = [i \in Invocation |-> "free"]
  /\ extent = [i \in Invocation |-> <<>>]
  /\ life = [t \in Handler |-> "unborn"]

Begin(i) ==
  /\ phase[i] = "free"
  /\ phase' = [phase EXCEPT ![i] = "running"]
  /\ UNCHANGED <<extent, life>>

Open(i, t) ==
  /\ phase[i] = "running"
  /\ life[t] = "unborn"
  /\ life' = [life EXCEPT ![t] = "live"]
  /\ extent' = [extent EXCEPT ![i] = Append(@, t)]
  /\ UNCHANGED phase

\* Leaving the n-th handler closes it and all that were entered after it.
Exit(i, n) ==
  /\ phase[i] = "running"
  /\ n \in DOMAIN extent[i]
  /\ life' = [t \in Handler |->
                IF t \in Within(extent[i], n) THEN "dead" ELSE life[t]]
  /\ extent' = [extent EXCEPT ![i] = SubSeq(@, 1, n - 1)]
  /\ UNCHANGED phase

End(i) ==
  /\ phase[i] = "running"
  /\ phase' = [phase EXCEPT ![i] = "over"]
  /\ life' = [t \in Handler |->
                IF t \in Within(extent[i], 1) THEN "dead" ELSE life[t]]
  /\ extent' = [extent EXCEPT ![i] = <<>>]

Next ==
  \E i \in Invocation :
    \/ Begin(i)
    \/ \E t \in Handler : Open(i, t)
    \/ \E n \in DOMAIN extent[i] : Exit(i, n)
    \/ End(i)

Spec == Init /\ [][Next]_extentVars
=============================================================================
