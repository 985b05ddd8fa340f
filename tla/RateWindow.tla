------------------------------ MODULE RateWindow ------------------------------
(***************************************************************************)
(* What a rate limit promises its clients: each key has a window that      *)
(* opens with the first admission, lasts its length, and admits the limit. *)
(* Nothing here remembers a window that has passed.                        *)
(***************************************************************************)
EXTENDS Integers

CONSTANTS
  Keys,
  Quota,   \* admissions per window, by key
  Span     \* length of a window in ticks, by key

VARIABLES
  used,   \* admissions in the key's window, 0 if none is open
  left    \* ticks until it closes, 0 if none is open

vars == <<used, left>>

Init == used = [k \in Keys |-> 0] /\ left = [k \in Keys |-> 0]

Admit(k) ==
  /\ used[k] < Quota[k]
  /\ used' = [used EXCEPT ![k] = @ + 1]
  /\ left' = [left EXCEPT ![k] = IF @ = 0 THEN Span[k] ELSE @]

\* A request beyond the limit changes nothing.
Refuse(k) == used[k] >= Quota[k] /\ UNCHANGED vars

Tick ==
  /\ left' = [k \in Keys |-> IF left[k] = 0 THEN 0 ELSE left[k] - 1]
  /\ used' = [k \in Keys |-> IF left[k] <= 1 THEN 0 ELSE used[k]]

Next == Tick \/ \E k \in Keys : Admit(k) \/ Refuse(k)

Spec == Init /\ [][Next]_vars
==============================================================================
