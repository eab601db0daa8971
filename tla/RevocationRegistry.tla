-------------------------- MODULE RevocationRegistry --------------------------
(* What the status lists of an issuer promise to whoever checks a           *)
(* credential: each credential has a status of its own, and the status      *)
(* changes only because somebody asked for that change, once for each time  *)
(* that it was asked for.                                                   *)
CONSTANTS Assertion, Requester

VARIABLES
  status,   \* whether a verifier finds the credential revoked
  asked     \* changes <<requester, assertion, revoked>> not yet decided

registry == <<status, asked>>

Init ==
  /\ status = [a \in Assertion |-> FALSE]
  /\ asked = {}

(* A requester waits for one change at a time.                              *)
Ask(r, a, revoked) ==
  /\ \A change \in asked : change[1] # r
  /\ asked' = asked \cup {<<r, a, revoked>>}
  /\ UNCHANGED status

Apply(r, a, revoked) ==
  /\ <<r, a, revoked>> \in asked
  /\ status' = [status EXCEPT ![a] = revoked]
  /\ asked' = asked \ {<<r, a, revoked>>}

(* Changes fail, or the server stops, before the status has changed.        *)
Abandon ==
  /\ asked' \in SUBSET asked
  /\ UNCHANGED status

Next ==
  \/ \E r \in Requester, a \in Assertion, revoked \in BOOLEAN :
       Ask(r, a, revoked) \/ Apply(r, a, revoked)
  \/ Abandon

Spec == Init /\ [][Next]_registry
=============================================================================
