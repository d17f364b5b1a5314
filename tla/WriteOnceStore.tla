--------------------------- MODULE WriteOnceStore ---------------------------
(***************************************************************************)
(* What the evidence store promises while nothing is deleted: every object *)
(* is written once, and a client is only ever told an object's actual      *)
(* content.  Files, modes, quarantine and crashes do not appear.           *)
(***************************************************************************)
CONSTANTS Client, Id, Content, None

VARIABLES
  bytes,  \* content of each object, or None
  told    \* the <<object, content>> a client was last told, or <<None, None>>

vars == <<bytes, told>>

Init ==
  /\ bytes = [i \in Id |-> None]
  /\ told = [p \in Client |-> <<None, None>>]

Write(i, c) ==
  /\ bytes[i] = None
  /\ bytes' = [bytes EXCEPT ![i] = c]
  /\ UNCHANGED told

Tell(p, i) ==
  /\ bytes[i] # None
  /\ told' = [told EXCEPT ![p] = <<i, bytes[i]>>]
  /\ UNCHANGED bytes

Forget(p) ==
  /\ told' = [told EXCEPT ![p] = <<None, None>>]
  /\ UNCHANGED bytes

Next ==
  \/ \E i \in Id, c \in Content : Write(i, c)
  \/ \E p \in Client : Forget(p) \/ \E i \in Id : Tell(p, i)

Spec == Init /\ [][Next]_vars
=============================================================================
