--------------------------- MODULE ObjectRegister ---------------------------
(***************************************************************************)
(* What StorageClient promises about the content of one object: a put      *)
(* replaces it, once and entirely, and a remove takes it away and ends its *)
(* history.  0 is no object; every put has a value of its own.             *)
(***************************************************************************)
EXTENDS Naturals

VARIABLES value,     \* the object's current content
          written    \* the puts that have taken effect

Init ==
    /\ value = 0
    /\ written = {}

Put ==
    /\ value' \in Nat \ ({0} \cup written)
    /\ written' = written \cup {value'}

Remove ==
    /\ value' = 0
    /\ written' = {}

Next ==
    \/ Put
    \/ Remove

Spec == Init /\ [][Next]_<<value, written>>
=============================================================================
