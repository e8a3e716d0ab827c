------------------------------ MODULE MCKernels ------------------------------
(*****************************************************************************)
(* The arithmetic of the value types, the sorting network, the AES tiles and *)
(* GF(2^128), for TLC.  A behaviour runs one of them, and the others stay in *)
(* an initial state.                                                         *)
(*****************************************************************************)
EXTENDS Calculator, Sorting, AesTiles, GF128

VARIABLE unit     \* which of them runs

Init ==
    /\ unit \in {"values", "sorting", "tiles", "gf128"}
    /\ IF unit = "values" THEN CalcInit ELSE CalcStart({"Int"}, {1}) /\ lhs = <<0>> /\ rhs = <<0>>
    /\ IF unit = "sorting" THEN SortInit ELSE SortStart({0}) /\ ascending
    /\ TileInit
    /\ IF unit = "gf128" THEN GfInit ELSE gfCall = [op |-> "xor", size |-> 0] /\ res = <<>>

Next ==
    /\ \/ unit = "values" /\ CalcNext /\ UNCHANGED <<sortVars, tileVars, gfVars>>
       \/ unit = "sorting" /\ SortNext /\ UNCHANGED <<calcVars, tileVars, gfVars>>
       \/ unit = "tiles" /\ TileNext /\ UNCHANGED <<calcVars, sortVars, gfVars>>
       \/ unit = "gf128" /\ GfNext /\ UNCHANGED <<calcVars, sortVars, tileVars>>
    /\ UNCHANGED unit

Spec == Init /\ [][Next]_<<unit, calcVars, sortVars, tileVars, gfVars>>

-----------------------------------------------------------------------------
\* The numeric circuits are integer arithmetic, and the sorting network sorts.
NumbersExact == ValuesExact /\ AnswersExact /\ Sorted /\ DataFollowKeys

\* However blocks are cut into lanes and registers, each is encrypted once under its
\* key and tweak, and field products, sums, powers and packing are exact.
BlocksExact ==
    /\ TilesExact
    /\ TweaksExact
    /\ StreamExact
    /\ MulExact
    /\ SumsExact
    /\ PowersExact
    /\ PackingExact
=============================================================================
