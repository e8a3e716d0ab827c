------------------------------ MODULE Sorting -------------------------------
(****************************************************************************)
(* circuits/sort.h: sort_by_key over Batcher's odd-even merge network.  The *)
(* loops of batcher_network are the fields p, k, j, i; each pass through    *)
(* the innermost one compares two keys and moves the data along with them.  *)
(* data[x] starts as x, so it says where an element came from.              *)
(****************************************************************************)
EXTENDS Integers, Sequences

CONSTANTS MaxLen,   \* bound: elements sorted
          Keys      \* values of keys, with <

ASSUME SortingAssumption == MaxLen \in Nat /\ Keys \subseteq Int

VARIABLES pc, ascending, input, keyList, dataList, loop

sortVars == <<pc, ascending, input, keyList, dataList, loop>>

Size == Len(keyList)

SortStart(lengths) ==
    /\ pc = "call" /\ ascending \in BOOLEAN
    /\ \E len \in lengths, m \in lengths :
           /\ input \in [1 .. len -> Keys]
           /\ m \in {len, len + 1} /\ dataList = [x \in 1 .. m |-> x]
    /\ keyList = input
    /\ loop = [p |-> 1, k |-> 1, j |-> 0, i |-> 0]

\* The keys and the data must be of one length.
SortByKey ==
    /\ pc = "call"
    /\ pc' = IF Len(dataList) # Size THEN "error" ELSE IF loop.p < Size THEN "loop" ELSE "done"
    /\ UNCHANGED <<ascending, input, keyList, dataList, loop>>

OutOfOrder(x, y) == IF ascending THEN keyList[y] < keyList[x] ELSE keyList[x] < keyList[y]
Exchange(s, x, y) == [s EXCEPT ![x] = s[y], ![y] = s[x]]

CompareSwap(x, y) ==
    /\ keyList' = IF OutOfOrder(x, y) THEN Exchange(keyList, x, y) ELSE keyList
    /\ dataList' = IF OutOfOrder(x, y) THEN Exchange(dataList, x, y) ELSE dataList

SameBlock(x, y) == x \div (2 * loop.p) = y \div (2 * loop.p)

InnerGoesOn == loop.i < loop.k /\ loop.i + loop.j + loop.k < Size
Inner ==
    /\ pc = "loop" /\ InnerGoesOn
    /\ LET low == loop.i + loop.j
           high == low + loop.k
       IN  IF SameBlock(low, high) THEN CompareSwap(low + 1, high + 1) ELSE UNCHANGED <<keyList, dataList>>
    /\ loop' = [loop EXCEPT !.i = @ + 1]
    /\ UNCHANGED <<pc, ascending, input>>

NextJ ==
    /\ pc = "loop" /\ ~InnerGoesOn /\ loop.j + loop.k < Size
    /\ loop' = [loop EXCEPT !.j = @ + 2 * loop.k, !.i = 0]
    /\ UNCHANGED <<pc, ascending, input, keyList, dataList>>

NextK ==
    /\ pc = "loop" /\ loop.j + loop.k >= Size /\ loop.k > 1
    /\ loop' = [loop EXCEPT !.k = @ \div 2, !.j = (loop.k \div 2) % loop.p, !.i = 0]
    /\ UNCHANGED <<pc, ascending, input, keyList, dataList>>

NextP ==
    /\ pc = "loop" /\ loop.j + loop.k >= Size /\ loop.k = 1
    /\ loop' = [p |-> 2 * loop.p, k |-> 2 * loop.p, j |-> 0, i |-> 0]
    /\ pc' = IF 2 * loop.p < Size THEN "loop" ELSE "done"
    /\ UNCHANGED <<ascending, input, keyList, dataList>>

SortNext == SortByKey \/ Inner \/ NextJ \/ NextK \/ NextP

SortInit == SortStart(0 .. MaxLen)
SortSpec == SortInit /\ [][SortNext]_sortVars

(***************************************************************************)
(* Properties                                                              *)
(***************************************************************************)
\* When the network has run, the keys are in order, whatever their number: a power
\* of two or not, none, or one.
Sorted ==
    pc = "done" =>
        \A x \in 1 .. Size - 1 : IF ascending THEN keyList[x] <= keyList[x + 1] ELSE keyList[x + 1] <= keyList[x]

\* Lists of two lengths are refused, and others never; at every compare-swap each
\* datum is beside the key it came with, and none is lost or doubled.
DataFollowKeys ==
    /\ pc # "call" => (pc = "error" <=> Len(dataList) # Size)
    /\ Len(dataList) = Size =>
        /\ \A x \in 1 .. Size : \E y \in 1 .. Size : dataList[y] = x
        /\ \A x \in 1 .. Size : keyList[x] = input[dataList[x]]
=============================================================================
