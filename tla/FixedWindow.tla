----------------------------- MODULE FixedWindow -----------------------------
(***************************************************************************)
(* What a rate limiter promises: the first attempt of a key opens a window *)
(* of fixed length; while it is open at most Max[key] attempts are         *)
(* admitted, and none is refused before; then all is forgotten.  Refused   *)
(* attempts cost nothing.  A restart forgets all windows.                  *)
(***************************************************************************)
EXTENDS Naturals

CONSTANTS Key, Max, Window

VARIABLES
  used,    \* attempts admitted in the open window of each key, 0 without one
  left,    \* ticks for which that window stays open
  answer   \* the answer to each key since the last tick

vars == <<used, left, answer>>

Init ==
  /\ used = [k \in Key |-> 0]
  /\ left = [k \in Key |-> 0]
  /\ answer = [k \in Key |-> "none"]

Admit(k) ==
  /\ used[k] < Max[k]
  /\ used' = [used EXCEPT ![k] = @ + 1]
  /\ left' = [left EXCEPT ![k] = IF used[k] = 0 THEN Window ELSE @]
  /\ answer' = [answer EXCEPT ![k] = "yes"]

Refuse(k) ==
  /\ used[k] = Max[k]
  /\ answer' = [answer EXCEPT ![k] = "no"]
  /\ UNCHANGED <<used, left>>

(* A window is still open at the very end of it.                            *)
Tick ==
  /\ used' = [k \in Key |-> IF left[k] = 0 THEN 0 ELSE used[k]]
  /\ left' = [k \in Key |-> IF left[k] = 0 THEN 0 ELSE left[k] - 1]
  /\ answer' = [k \in Key |-> "none"]

Restart ==
  /\ used' = [k \in Key |-> 0]
  /\ left' = [k \in Key |-> 0]
  /\ answer' = [k \in Key |-> "none"]

Next == (\E k \in Key : Admit(k) \/ Refuse(k)) \/ Tick \/ Restart

Spec == Init /\ [][Next]_vars
=============================================================================
