-------------------------------- MODULE Parking --------------------------------
(***************************************************************************)
(* What waiting for the picture promises: a message that arrives before    *)
(* the result of its picture waits; when the result comes, everyone who    *)
(* waits is handed over to it, and nobody waits behind a result.  The      *)
(* promise holds until the store breaks it: a command that fails, a lock   *)
(* or a value that expires under somebody.                                 *)
(***************************************************************************)

CONSTANT Messages

VARIABLES
  waiting,  \* messages that wait for the result
  handed,   \* messages that were handed over
  result,   \* the result is there
  broken    \* the store has failed

vars == <<waiting, handed, result, broken>>

Init ==
  /\ waiting = {}
  /\ handed = {}
  /\ result = FALSE
  /\ broken = FALSE

Park(m) ==
  /\ ~result
  /\ m \notin handed
  /\ waiting' = waiting \cup {m}
  /\ UNCHANGED <<handed, result>>

HandOver(m) ==
  /\ m \in waiting
  /\ waiting' = waiting \ {m}
  /\ handed' = handed \cup {m}
  /\ UNCHANGED result

Publish ==
  /\ waiting = {}
  /\ result' = TRUE
  /\ UNCHANGED <<waiting, handed>>

Next ==
  \/ /\ ~broken'
     /\ (\E m \in Messages : Park(m) \/ HandOver(m)) \/ Publish
  \/ broken'

Spec == Init /\ [][Next]_vars

=============================================================================
