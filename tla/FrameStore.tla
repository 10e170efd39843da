----------------------------- MODULE FrameStore -----------------------------
(***************************************************************************)
(* What a window promises: size consecutive positions, each with a value   *)
(* of its own, and an error for any position outside them.                 *)
(***************************************************************************)
EXTENDS Integers

CONSTANTS
  size, Value, Zero,
  Panic,      \* the outcome of an operation outside the window
  Position    \* the positions callers use, inside the window or not

VARIABLES
  first,  \* the first position
  held,   \* position -> value, for first .. first + size - 1
  out     \* what the last operation returned

vars == <<first, held, out>>

Holds(pos) == pos \in first .. first + size - 1

Init ==
  /\ first \in Nat
  /\ held = [pos \in first .. first + size - 1 |-> Zero]
  /\ out = Zero

Get(pos) ==
  /\ out' = IF Holds(pos) THEN held[pos] ELSE Panic
  /\ UNCHANGED <<first, held>>

Set(pos, val) ==
  /\ IF Holds(pos) THEN held' = [held EXCEPT ![pos] = val] /\ out' = Zero
     ELSE UNCHANGED held /\ out' = Panic
  /\ UNCHANGED first

(* The position gained takes over what the position lost held.             *)
Advance ==
  /\ first' = first + 1
  /\ held' = [pos \in first + 1 .. first + size |->
                IF pos = first + size THEN held[first] ELSE held[pos]]
  /\ out' = Zero

Next ==
  \/ \E pos \in Position : Get(pos)
  \/ \E pos \in Position, val \in Value : Set(pos, val)
  \/ Advance

Spec == Init /\ [][Next]_vars
=============================================================================
