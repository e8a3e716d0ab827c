---------------------------- MODULE MCRandomness ----------------------------
(******************************************************************************)
(* Where pseudorandom bits come from, for TLC: generators (Prg), reproducible *)
(* seeds (TestMode), keyed hashes and the garbling on top of them (Mitccrh,   *)
(* Garbling), buffered hashing and framed fields (Hashing).                   *)
(* A behaviour runs one of them, and the others stay in their initial state.  *)
(******************************************************************************)
EXTENDS Mitccrh, Garbling, Hashing, Prg, TestMode

CONSTANT ReuseShift

VARIABLE unit     \* which of them runs

\* Buckets of 2^ReuseShift gids for Mitccrh.
ReuseBucket(g) == g \div 2 ^ ReuseShift

RandomnessInit ==
    /\ unit \in {"mitccrh", "garble", "hash", "oracle", "prg", "test"}
    /\ Init /\ HashInit
    /\ GarbleInit /\ (unit # "garble" => scheme = "half" /\ \A w \in 1 .. Inputs : value[w] = 0 /\ lsb[w] = 0)
    /\ OracleInit /\ (unit # "oracle" => \A o \in Oracles : calls[o] = <<<<kStr, <<>>>>>>)
    /\ PrgInit /\ TestInit /\ (unit # "test" => mode)

RandomnessNext ==
    /\ \/ unit = "mitccrh" /\ Next /\ UNCHANGED <<garbleVars, hashVars, oracleVars, prgVars, testVars>>
       \/ unit = "garble" /\ GarbleNext /\ UNCHANGED <<vars, hashVars, oracleVars, prgVars, testVars>>
       \/ unit = "hash" /\ HashNext /\ UNCHANGED <<vars, garbleVars, oracleVars, prgVars, testVars>>
       \/ unit = "oracle" /\ OracleNext /\ UNCHANGED <<vars, garbleVars, hashVars, prgVars, testVars>>
       \/ unit = "prg" /\ PrgNext /\ UNCHANGED <<vars, garbleVars, hashVars, oracleVars, testVars>>
       \/ unit = "test" /\ TestNext /\ UNCHANGED <<vars, garbleVars, hashVars, oracleVars, prgVars>>
    /\ UNCHANGED unit

RandomnessSpec ==
    RandomnessInit /\ [][RandomnessNext]_<<unit, vars, garbleVars, hashVars, oracleVars, prgVars, testVars>>
=============================================================================
