-------------------------- MODULE DataWindowProofs --------------------------
(***************************************************************************)
(* core.DataWindow implements FrameStore for every size of the ring, and   *)
(* so does the template's window of strings, which inside its bounds finds *)
(* the same slots.                                                         *)
(***************************************************************************)
EXTENDS DataWindow, TLAPS

(* Of the template's window: half the range of uint64, and the position of *)
(* the last call.                                                          *)
CONSTANT Half
VARIABLE asked
Strings == INSTANCE StringWindow

USE DataWindowAssumption

(* A sum of two numbers below n wraps around n at most once: the only      *)
(* values posToIndex takes a remainder of.                                 *)
LEMMA ModOfSum ==
  ASSUME NEW n \in Nat \ {0}, NEW a \in 0 .. n - 1, NEW b \in 0 .. n
  PROVE  (a + b) % n = IF a + b < n THEN a + b ELSE a + b - n
<1>1. CASE a + b < n
  BY <1>1
<1>2. CASE a + b >= n
  <2>1. a + b - n \in 0 .. n - 1
    BY <1>2
  <2>2. (a + b) % n = (a + b - n) % n
    OBVIOUS
  <2> QED
    BY <1>2, <2>1, <2>2
<1> QED
  BY <1>1, <1>2

(* The slot of a position of the window, without a remainder.              *)
LEMMA Slot ==
  ASSUME TypeOK, NEW pos \in first .. first + size - 1
  PROVE  /\ posToIndex(pos) \in 0 .. size - 1
         /\ posToIndex(pos) = IF start + (pos - first) < size
                                THEN start + (pos - first)
                                ELSE start + (pos - first) - size
<1>1. pos - first \in 0 .. size - 1 /\ start \in 0 .. size - 1
  BY DEF TypeOK
<1>2. posToIndex(pos) = IF start + (pos - first) < size
                          THEN start + (pos - first)
                          ELSE start + (pos - first) - size
  <2> DEFINE away == pos - first
  <2>1. start \in 0 .. size - 1 /\ away \in 0 .. size
    BY <1>1
  <2>2. posToIndex(pos) = (start + away) % size
    BY DEF posToIndex
  <2> HIDE DEF away
  <2>3. posToIndex(pos) = IF start + away < size THEN start + away ELSE start + away - size
    BY <2>1, <2>2, ModOfSum
  <2> QED
    BY <2>3 DEF away
<1> QED
  BY <1>1, <1>2

(* Advance keeps every position that stays in the window in its slot and   *)
(* gives the slot of the position that leaves to the one that comes in.    *)
LEMMA AdvanceSlot ==
  ASSUME TypeOK, NEW pos \in first + 1 .. first + size
  PROVE  (((start + 1) % size) + (pos - (first + 1))) % size
           = IF pos = first + size THEN posToIndex(first) ELSE posToIndex(pos)
<1> DEFINE next == (start + 1) % size
           away == pos - (first + 1)
<1>1. start \in 0 .. size - 1 /\ first \in Nat
  BY DEF TypeOK
<1>2. next = IF start + 1 < size THEN start + 1 ELSE 0
  <2>1. start \in 0 .. size - 1 /\ 1 \in 0 .. size
    BY <1>1
  <2>2. (start + 1) % size = IF start + 1 < size THEN start + 1 ELSE start + 1 - size
    BY ONLY <2>1, ModOfSum, DataWindowAssumption
  <2> QED
    BY <1>1, <2>2
<1>3. away \in 0 .. size - 1 /\ next \in 0 .. size - 1
  BY <1>1, <1>2
<1>4. (next + away) % size = IF next + away < size THEN next + away ELSE next + away - size
  <2>1. next \in 0 .. size - 1 /\ away \in 0 .. size
    BY <1>3
  <2> HIDE DEF next, away
  <2> QED
    BY <2>1, ModOfSum
<1>5. CASE pos = first + size
  <2>1. posToIndex(first) = start
    BY <1>1, Slot
  <2> QED
    BY <1>1, <1>2, <1>4, <1>5, <2>1
<1>6. CASE pos # first + size
  <2>1. pos \in first .. first + size - 1
    BY <1>1, <1>6
  <2> QED
    BY <1>1, <1>2, <1>4, <1>6, <2>1, Slot
<1> QED
  BY <1>5, <1>6

(* core/window_data.go: the start of the ring stays one of its indices and *)
(* the ring keeps its size.                                                *)
THEOREM TypeCorrect == Spec => []TypeOK
<1>1. Init => TypeOK
  BY DEF Init, TypeOK
<1>2. TypeOK /\ [Next]_vars => TypeOK'
  <2> SUFFICES ASSUME TypeOK, [Next]_vars PROVE TypeOK'
    OBVIOUS
  <2>1. ASSUME NEW pos \in Positions, Get(pos) PROVE TypeOK'
    <3>1. InBounds(pos) => posToIndex(pos) \in 0 .. size - 1
      BY Slot DEF InBounds, TypeOK, Positions
    <3> QED
      BY <2>1, <3>1 DEF Get, TypeOK
  <2>2. ASSUME NEW pos \in Positions, NEW val \in Value, Set(pos, val) PROVE TypeOK'
    BY <2>2 DEF Set, TypeOK
  <2>3. CASE Advance
    BY <2>3 DEF Advance, TypeOK
  <2>4. CASE UNCHANGED vars
    BY <2>4 DEF vars, TypeOK
  <2> QED
    BY <2>1, <2>2, <2>3, <2>4 DEF Next
<1> QED
  BY <1>1, <1>2, PTL DEF Spec

(* Two positions of the window never share a slot.                         *)
LEMMA Distinct == TypeOK => SlotsDistinct
<1> SUFFICES ASSUME TypeOK, NEW p \in first .. first + size - 1,
                    NEW q \in first .. first + size - 1,
                    posToIndex(p) = posToIndex(q)
             PROVE  p = q
  BY DEF SlotsDistinct
<1>1. first \in Nat /\ start \in 0 .. size - 1
  BY DEF TypeOK
<1> QED
  BY <1>1, Slot

THEOREM SlotsAlwaysDistinct == Spec => []SlotsDistinct
BY TypeCorrect, Distinct, PTL

(* The ring's operations are the store's.                                  *)
LEMMA GetOfStore ==
  ASSUME TypeOK, NEW pos \in Positions, Get(pos) PROVE Store!Get(pos)
<1> DEFINE held == [p \in first .. first + size - 1 |-> data[posToIndex(p)]]
<1>1. InBounds(pos) <=> Store!Holds(pos)
  BY DEF InBounds, Store!Holds, Positions, TypeOK
<1>2. Store!Holds(pos) => held[pos] = data[posToIndex(pos)]
  BY DEF Store!Holds
<1>3. held' = held
  BY DEF Get, posToIndex
<1> QED
  BY <1>1, <1>2, <1>3 DEF Get, Store!Get

LEMMA SetOfStore ==
  ASSUME TypeOK, NEW pos \in Positions, NEW val \in Value, Set(pos, val)
  PROVE  Store!Set(pos, val)
<1> DEFINE held == [p \in first .. first + size - 1 |-> data[posToIndex(p)]]
<1>1. InBounds(pos) <=> Store!Holds(pos)
  BY DEF InBounds, Store!Holds, Positions, TypeOK
<1>2. CASE Store!Holds(pos)
  <2>1. data' = [data EXCEPT ![posToIndex(pos)] = val] /\ out' = Zero
    BY <1>1, <1>2 DEF Set
  <2>2. first' = first /\ start' = start
    BY DEF Set
  <2>3. ASSUME NEW p \in first .. first + size - 1
        PROVE  held'[p] = IF p = pos THEN val ELSE held[p]
    <3>1. posToIndex(p) \in 0 .. size - 1 /\ posToIndex(pos) \in 0 .. size - 1
      BY <1>2, Slot DEF Store!Holds
    <3>2. p # pos => posToIndex(p) # posToIndex(pos)
      BY <1>2, Distinct DEF SlotsDistinct, Store!Holds
    <3>3. held'[p] = data'[posToIndex(p)]
      BY <2>2 DEF posToIndex
    <3> QED
      BY <2>1, <3>1, <3>2, <3>3 DEF TypeOK
  <2>4. held' = [held EXCEPT ![pos] = val]
    BY <1>2, <2>2, <2>3 DEF Store!Holds
  <2> QED
    BY <1>2, <2>1, <2>2, <2>4 DEF Store!Set
<1>3. CASE ~Store!Holds(pos)
  <2>1. UNCHANGED <<first, start, data>> /\ out' = Panic
    BY <1>1, <1>3 DEF Set
  <2>2. held' = held
    BY <2>1 DEF posToIndex
  <2> QED
    BY <1>3, <2>1, <2>2 DEF Store!Set
<1> QED
  BY <1>2, <1>3

LEMMA AdvanceOfStore == ASSUME TypeOK, Advance PROVE Store!Advance
<1> DEFINE held == [p \in first .. first + size - 1 |-> data[posToIndex(p)]]
<1>1. first' = first + 1 /\ start' = (start + 1) % size
      /\ data' = data /\ out' = Zero /\ first \in Nat
  BY DEF Advance, TypeOK
<1>2. ASSUME NEW p \in first + 1 .. first + size
      PROVE  held'[p] = IF p = first + size THEN held[first] ELSE held[p]
  <2>1. held'[p] = data[(((start + 1) % size) + (p - (first + 1))) % size]
    BY <1>1 DEF posToIndex
  <2> QED
    BY <1>1, <2>1, AdvanceSlot
<1>3. held' = [p \in first + 1 .. first + size |->
                 IF p = first + size THEN held[first] ELSE held[p]]
  <2>1. held' = [p \in first + 1 .. first + size |-> data'[posToIndex(p)']]
    BY <1>1
  <2>2. ASSUME NEW p \in first + 1 .. first + size PROVE held'[p] = data'[posToIndex(p)']
    BY <2>1
  <2> HIDE DEF held
  <2> QED
    BY <1>2, <2>1, <2>2
<1>4. held' = [p \in first + 1 .. first + size |->
                 IF p = first + size
                   THEN [pos \in first .. first + size - 1 |-> data[posToIndex(pos)]][first]
                   ELSE [pos \in first .. first + size - 1 |-> data[posToIndex(pos)]][p]]
  BY <1>3
<1> QED
  BY <1>1, <1>4 DEF Store!Advance

(* The ring buffer implements the store of consecutive positions.          *)
THEOREM RingImplementsStore == Spec => ImplementsFrameStore
<1> DEFINE held == [pos \in first .. first + size - 1 |-> data[posToIndex(pos)]]
<1>1. Init => Store!Init
  <2> SUFFICES ASSUME Init PROVE Store!Init
    OBVIOUS
  <2>1. TypeOK
    BY DEF Init, TypeOK
  <2>2. held = [pos \in first .. first + size - 1 |-> Zero]
    BY <2>1, Slot DEF Init
  <2> QED
    BY <2>2 DEF Init, Store!Init
<1>2. TypeOK /\ [Next]_vars => [Store!Next]_(Store!vars)
  <2> SUFFICES ASSUME TypeOK, [Next]_vars PROVE [Store!Next]_(Store!vars)
    OBVIOUS
  <2>1. CASE UNCHANGED vars
    <3>1. held' = held
      BY <2>1 DEF vars, posToIndex
    <3> QED
      BY <2>1, <3>1 DEF vars, Store!vars
  <2> QED
    BY <2>1, GetOfStore, SetOfStore, AdvanceOfStore DEF Next, Store!Next
<1> QED
  BY <1>1, <1>2, TypeCorrect, PTL DEF Spec, ImplementsFrameStore, Store!Spec

-----------------------------------------------------------------------------
(* The template's window of strings.                                       *)

StringsType ==
  /\ first \in MinFirst .. MaxFirst /\ start \in 0 .. size - 1
  /\ data \in [0 .. size - 1 -> Value] /\ out \in Value \cup {Panic}

LEMMA StringsTyped == ASSUME Strings!Fits, StringsType PROVE TypeOK
BY DEF Strings!Fits, StringsType, TypeOK

(* No overflow and no negative remainder for a position that is held.      *)
LEMMA SameSlot ==
  ASSUME Strings!Fits, StringsType, NEW pos \in Strings!Held
  PROVE  /\ Strings!posToIndex(pos) = posToIndex(pos) /\ ~Strings!OutOfBounds(pos)
         /\ pos \in Positions /\ InBounds(pos) /\ posToIndex(pos) \in 0 .. size - 1
<1> DEFINE away == pos - first
<1>1. /\ Half \in Nat \ {0} /\ size \in Nat \ {0} /\ 2 * size <= Half
      /\ first \in Nat /\ MinFirst <= first /\ first <= MaxFirst
      /\ start \in 0 .. size - 1 /\ pos \in first .. first + size - 1
  BY DEF Strings!Fits, Strings!Held, StringsType
<1>2. away \in 0 .. size - 1
  BY <1>1
<1>3. pos \in Positions /\ InBounds(pos)
  BY <1>1 DEF Positions, InBounds
<1>4. ASSUME NEW x \in 0 .. Half - 1 PROVE Strings!Int64(x) = x
  <2>1. x % (2 * Half) = x
    BY <1>1
  <2> QED
    BY <1>1, <2>1 DEF Strings!Int64
<1>5. away \in 0 .. Half - 1 /\ start + away \in 0 .. Half - 1
  BY <1>1, <1>2
<1> HIDE DEF away
<1>6. Strings!Int64(away) = away /\ Strings!Int64(start + away) = start + away
  BY <1>4, <1>5
<1>7. Strings!posToIndex(pos) = (start + away) % size
  BY <1>5, <1>6 DEF Strings!posToIndex, Strings!GoMod, away
<1>8. posToIndex(pos) = (start + away) % size
  BY DEF posToIndex, away
<1>9. posToIndex(pos) \in 0 .. size - 1
  BY <1>1, StringsTyped, Slot
<1> QED
  BY <1>1, <1>3, <1>7, <1>8, <1>9 DEF Strings!OutOfBounds

(* Outside the window too an index that passes the test is one.            *)
LEMMA IndexOrPanic ==
  ASSUME Strings!Fits, StringsType, NEW pos \in Strings!Uint64, ~Strings!OutOfBounds(pos)
  PROVE  Strings!posToIndex(pos) \in 0 .. size - 1
<1>1. Half \in Nat \ {0} /\ size \in Nat \ {0} /\ first \in Nat /\ start \in Nat /\ pos \in Int
  BY DEF Strings!Fits, StringsType, Strings!Uint64
<1>2. ASSUME NEW x \in Int PROVE Strings!Int64(x) \in Int
  <2> DEFINE w == x % (2 * Half)
  <2>1. w \in Int
    BY <1>1
  <2> QED
    BY <1>1, <2>1 DEF Strings!Int64
<1>3. PICK x \in Int : Strings!posToIndex(pos) = Strings!GoMod(x, size)
  <2>1. Strings!Int64(pos - first) \in Int
    BY <1>1, <1>2
  <2> QED
    BY <1>1, <1>2, <2>1 DEF Strings!posToIndex
<1>4. ASSUME NEW y \in Nat PROVE y % size \in 0 .. size - 1
  BY <1>1
<1>5. Strings!GoMod(x, size) \in Int /\ Strings!GoMod(x, size) < size
  <2>1. CASE x >= 0
    BY <1>1, <1>4, <2>1 DEF Strings!GoMod
  <2>2. CASE ~(x >= 0)
    <3>1. -x \in Nat
      BY <2>2
    <3>2. (-x) % size \in 0 .. size - 1
      BY <1>4, <3>1
    <3> QED
      BY <1>1, <2>2, <3>2 DEF Strings!GoMod
  <2> QED
    BY <2>1, <2>2
<1> QED
  BY <1>1, <1>3, <1>5 DEF Strings!OutOfBounds

LEMMA StringsStep ==
  ASSUME Strings!Fits, StringsType, [Strings!Next]_(Strings!vars) PROVE StringsType'
<1>1. ASSUME NEW pos \in Strings!Uint64, Strings!Get(pos) PROVE StringsType'
  <2>1. ~Strings!OutOfBounds(pos) => Strings!posToIndex(pos) \in 0 .. size - 1
    BY IndexOrPanic
  <2> QED
    BY <1>1, <2>1 DEF Strings!Get, StringsType
<1>2. ASSUME NEW pos \in Strings!Uint64, NEW val \in Value, Strings!Set(pos, val)
      PROVE  StringsType'
  BY <1>2 DEF Strings!Set, StringsType
<1>3. CASE Strings!Advance
  BY <1>3 DEF Strings!Advance, StringsType
<1>4. CASE UNCHANGED Strings!vars
  BY <1>4 DEF Strings!vars, StringsType
<1> QED
  BY <1>1, <1>2, <1>3, <1>4 DEF Strings!Next

(* Both rings hold the same values at the same positions.                  *)
StringsHeld == [pos \in Strings!Held |-> data[Strings!posToIndex(pos)]]
DataHeld == [pos \in first .. first + size - 1 |-> data[posToIndex(pos)]]

LEMMA SameStore == ASSUME Strings!Fits, StringsType PROVE StringsHeld = DataHeld
BY SameSlot DEF StringsHeld, DataHeld, Strings!Held

(* Inside its bounds the template's window, at the width of a uint64, is a *)
(* store of consecutive positions, whatever the ring's rotation; calls     *)
(* outside them, which may panic or reach another position, leave a ring   *)
(* of which that is still true.                                            *)
THEOREM StringsImplementStore ==
  ASSUME Strings!Fits PROVE Strings!Spec => Strings!StoreInBounds
<1> DEFINE InBoundsStep == asked' \subseteq Strings!Held => Strings!Store!Next
<1>1. Strings!Init => StringsType
  BY DEF Strings!Init, StringsType, Strings!Fits
<1>2. StringsType /\ [Strings!Next]_(Strings!vars) => StringsType'
  BY StringsStep
<1>3. Strings!Init => Strings!Store!Init
  <2> SUFFICES ASSUME Strings!Init PROVE Strings!Store!Init
    OBVIOUS
  <2>1. StringsType /\ TypeOK
    BY <1>1, StringsTyped
  <2>2. DataHeld = [pos \in first .. first + size - 1 |-> Zero]
    BY <2>1, Slot DEF Strings!Init, DataHeld
  <2> QED
    BY <2>1, <2>2, SameStore DEF Strings!Init, Strings!Store!Init, StringsHeld
<1>4. StringsType => StringsHeld = DataHeld
  BY SameStore
<1>5. StringsType /\ StringsHeld = DataHeld /\ (StringsHeld = DataHeld)' /\ [Strings!Next]_(Strings!vars)
        => [InBoundsStep]_(Strings!vars)
  <2> SUFFICES ASSUME StringsType, StringsHeld = DataHeld, StringsHeld' = DataHeld',
                      Strings!Next, asked' \subseteq Strings!Held
               PROVE  Strings!Store!Next
    OBVIOUS
  <2>1. TypeOK
    BY StringsTyped
  <2>2. ASSUME NEW pos \in Strings!Uint64, Strings!Get(pos) PROVE Strings!Store!Get(pos)
    <3>1. Get(pos) /\ pos \in Positions
      BY <2>2, SameSlot DEF Strings!Get, Get
    <3>2. Store!Get(pos)
      BY <2>1, <3>1, GetOfStore
    <3> QED
      BY <3>2 DEF Store!Get, Strings!Store!Get, Store!Holds, Strings!Store!Holds,
                  StringsHeld, DataHeld
  <2>3. ASSUME NEW pos \in Strings!Uint64, NEW val \in Value, Strings!Set(pos, val)
        PROVE  Strings!Store!Set(pos, val)
    <3>1. Set(pos, val) /\ pos \in Positions
      BY <2>3, SameSlot DEF Strings!Set, Set
    <3>2. Store!Set(pos, val)
      BY <2>1, <3>1, SetOfStore
    <3> QED
      BY <3>2 DEF Store!Set, Strings!Store!Set, Store!Holds, Strings!Store!Holds,
                  StringsHeld, DataHeld
  <2>4. ASSUME Strings!Advance PROVE Strings!Store!Advance
    <3>1. Advance
      BY <2>4 DEF Strings!Advance, Advance
    <3>2. Store!Advance
      BY <2>1, <3>1, AdvanceOfStore
    <3>3. /\ first' = first + 1 /\ out' = Zero
          /\ DataHeld' = [pos \in first + 1 .. first + size |->
                            IF pos = first + size THEN DataHeld[first] ELSE DataHeld[pos]]
      BY <3>2 DEF Store!Advance, DataHeld
    <3>4. StringsHeld' = [pos \in first + 1 .. first + size |->
                            IF pos = first + size THEN StringsHeld[first] ELSE StringsHeld[pos]]
      BY <3>3
    <3> QED
      BY <3>3, <3>4 DEF Strings!Store!Advance, StringsHeld
  <2> QED
    BY <2>2, <2>3, <2>4 DEF Strings!Next, Strings!Store!Next
<1> QED
  BY <1>1, <1>2, <1>3, <1>4, <1>5, PTL DEF Strings!Spec, Strings!StoreInBounds
=============================================================================
