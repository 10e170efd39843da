----------------------------- MODULE DataWindow -----------------------------
(***************************************************************************)
(* core.DataWindow (core/window_data.go): the ring buffer behind the       *)
(* updater's window of frames.  Positions are StateFrames, indices are     *)
(* 0-based as in Go.                                                       *)
(***************************************************************************)
EXTENDS Integers

CONSTANTS
  size,      \* len(w.data)
  Value,     \* FrameData values
  Zero,      \* FrameData{}
  Panic,     \* the outcome of an access outside the window
  MinFirst,  \* the position NewDataWindow is given
  MaxFirst   \* bound: Advance is not called beyond this position

ASSUME DataWindowAssumption ==
  /\ size \in Nat \ {0}
  /\ Zero \in Value /\ Panic \notin Value
  /\ MinFirst \in Nat /\ MaxFirst \in Nat

VARIABLES
  first,  \* lowest position that can access the window
  start,  \* index of first in data
  data,   \* the ring
  out     \* what the last call returned, Zero for none

vars == <<first, start, data, out>>

posToIndex(pos) == (start + (pos - first)) % size
InBounds(pos) == first <= pos /\ pos < first + size

Init ==                                                 \* NewDataWindow
  /\ first = MinFirst
  /\ start = 0
  /\ data = [i \in 0 .. size - 1 |-> Zero]
  /\ out = Zero

Get(pos) ==
  /\ out' = IF InBounds(pos) THEN data[posToIndex(pos)] ELSE Panic
  /\ UNCHANGED <<first, start, data>>

Set(pos, val) ==
  /\ IF InBounds(pos) THEN data' = [data EXCEPT ![posToIndex(pos)] = val] /\ out' = Zero
     ELSE UNCHANGED data /\ out' = Panic
  /\ UNCHANGED <<first, start>>

(* Advance with a bug: start is not moved.                                *)
AdvanceFirstOnly ==
  first < MaxFirst /\ first' = first + 1 /\ out' = Zero /\ UNCHANGED <<start, data>>

Advance ==
  /\ first < MaxFirst
  /\ first' = first + 1
  /\ start' = (start + 1) % size
  /\ out' = Zero
  /\ UNCHANGED data

(* One position on either side of every window below the bound.            *)
Positions == MinFirst - 1 .. MaxFirst + size

Next ==
  \/ \E pos \in Positions : Get(pos)
  \/ \E pos \in Positions, val \in Value : Set(pos, val)
  \/ Advance

Spec == Init /\ [][Next]_vars

-----------------------------------------------------------------------------
(* The ring keeps its size and its start is one of its indices.            *)
TypeOK ==
  /\ first \in Nat /\ first >= MinFirst
  /\ start \in 0 .. size - 1
  /\ data \in [0 .. size - 1 -> Value]
  /\ out \in Value \cup {Panic}

(* No two positions of the window share a slot of the ring, wherever it    *)
(* has rotated to.                                                         *)
SlotsDistinct ==
  \A p, q \in first .. first + size - 1 : posToIndex(p) = posToIndex(q) => p = q

(* The ring implements a store of size consecutive positions: Set changes  *)
(* one position only, Advance moves no value, and any access outside the   *)
(* window panics.                                                          *)
Store == INSTANCE FrameStore WITH
  Position <- Positions,
  held <- [pos \in first .. first + size - 1 |-> data[posToIndex(pos)]]

ImplementsFrameStore == Store!Spec
=============================================================================
