------------------------------- MODULE Slotmap --------------------------------
(***************************************************************************)
(* Slotmap<T>: an array of SIZE slots (4096 in the code) filled in order.  *)
(* A slot is never given back, handle 0 is never given out, and add does   *)
(* not compare the new handle with the size of the array.                  *)
(***************************************************************************)
EXTENDS Naturals

CONSTANTS
  SIZE,  \* length of m_array
  Null   \* the default value of T

ASSUME SizeAssumption == SIZE \in Nat \ {0}

Slots == 0 .. SIZE - 1

SlotmapOf(T) == [array : [Slots -> T \cup {Null}], lastHandle : Nat]

EmptySlotmap == [array |-> [h \in Slots |-> Null], lastHandle |-> 0]

\* Fault: the handle is read before lastHandle is incremented.
NewHandleNotAdvanced(s) == s.lastHandle

NewHandle(s) == s.lastHandle + 1

\* The slotmaps that may result from adding x.  Past the last slot the write
\* lands on lastHandle, the member after m_array, which may get any value (the
\* model keeps it within 0 .. SIZE).
Added(s, x) ==
  IF NewHandle(s) \in Slots
  THEN {[array |-> [s.array EXCEPT ![NewHandle(s)] = x], lastHandle |-> NewHandle(s)]}
  ELSE {[s EXCEPT !.lastHandle = last] : last \in 0 .. SIZE}

\* The slot of a handle overwritten in place, through the reference get returns.
Overwritten(s, h, x) == [s EXCEPT !.array[h] = x]

\* The values in the slots that hold one.
Stored(s) == {s.array[h] : h \in {g \in Slots : s.array[g] # Null}}
=============================================================================
