---------------------------- MODULE StringWindow ----------------------------
(***************************************************************************)
(* containers/window/uint64_string: the window template instantiated for   *)
(* uint64 positions and string values.  It differs from core.DataWindow in *)
(* the test that guards an access: posToIndex looks at the index and not   *)
(* at the position, so the width of the position and Go's truncated        *)
(* remainder decide which accesses panic.                                  *)
(***************************************************************************)
EXTENDS Integers

CONSTANTS
  Half,      \* an int is at least -Half and below Half, a uint64 below 2 * Half
  size,      \* len(w.data)
  Value, Zero, Panic,
  MinFirst,  \* the position New is given
  MaxFirst   \* bound: Advance is not called beyond this position

(* A string takes 16 bytes of what an int can address, so that an index    *)
(* and an offset, both below size, do not overflow in posToIndex.          *)
Fits ==
  /\ {Half, size} \subseteq Nat \ {0} /\ 2 * size <= Half
  /\ MaxFirst \in Nat /\ MinFirst \in 0 .. MaxFirst /\ MaxFirst + size < 2 * Half

ASSUME StringWindowAssumption ==
  /\ Fits
  /\ Zero \in Value /\ Panic \notin Value

VARIABLES
  first, start, data,
  asked,  \* {pos}: the position of the last Get or Set, {}: none
  out     \* what the last call returned

vars == <<first, start, data, asked, out>>

Uint64 == 0 .. 2 * Half - 1
Int64(x) == LET w == x % (2 * Half) IN IF w < Half THEN w ELSE w - 2 * Half
GoMod(a, n) == IF a >= 0 THEN a % n ELSE -((-a) % n)

posToIndex(pos) == GoMod(Int64(start + Int64(pos - first)), size)
OutOfBounds(pos) == posToIndex(pos) < 0 \/ posToIndex(pos) > size

Init ==                                                 \* New
  /\ first = MinFirst /\ start = 0
  /\ data = [i \in 0 .. size - 1 |-> Zero]
  /\ asked = {} /\ out = Zero

Get(pos) ==
  /\ asked' = {pos}
  /\ out' = IF OutOfBounds(pos) THEN Panic ELSE data[posToIndex(pos)]
  /\ UNCHANGED <<first, start, data>>

Set(pos, val) ==
  /\ asked' = {pos}
  /\ IF OutOfBounds(pos) THEN UNCHANGED data /\ out' = Panic
     ELSE data' = [data EXCEPT ![posToIndex(pos)] = val] /\ out' = Zero
  /\ UNCHANGED <<first, start>>

(* Advance with a bug: start is not moved.                                 *)
AdvanceFirstOnly ==
  /\ first < MaxFirst /\ first' = first + 1
  /\ asked' = {} /\ out' = Zero
  /\ UNCHANGED <<start, data>>

Advance ==
  /\ first < MaxFirst
  /\ first' = first + 1
  /\ start' = (start + 1) % size
  /\ asked' = {} /\ out' = Zero
  /\ UNCHANGED data

Next ==
  \/ \E pos \in Uint64 : Get(pos)
  \/ \E pos \in Uint64, val \in Value : Set(pos, val)
  \/ Advance

Spec == Init /\ [][Next]_vars

-----------------------------------------------------------------------------
Held == first .. first + size - 1

Store == INSTANCE FrameStore WITH
  Position <- Uint64,
  held <- [pos \in Held |-> data[posToIndex(pos)]]

(* A caller that stays between Start() and End() sees a store of size      *)
(* consecutive positions, whatever the ring's rotation.                    *)
StoreInBounds == Store!Init /\ [][asked' \subseteq Held => Store!Next]_vars
=============================================================================
