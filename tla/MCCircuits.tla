----------------------------- MODULE MCCircuits -----------------------------
(******************************************************************************)
(* The bit-level kernels against their definitions, for TLC: the AES, SHA-256 *)
(* and Keccak circuits round by round, the framing of messages around them,   *)
(* and the matrix transpose.  A behaviour runs one of them, and the others    *)
(* stay in an initial state.                                                  *)
(******************************************************************************)
EXTENDS AesRounds, HashRounds, MessageFraming, BitTranspose

VARIABLE unit     \* which of them runs

\* Plaintexts under the zero key that put every byte through the S-box in round 1,
\* and the key of FIPS 197, appendix B.
ZeroBytes == [n \in 1 .. 16 |-> 0]
FipsKey == <<43, 126, 21, 22, 40, 174, 210, 166, 171, 247, 21, 136, 9, 207, 79, 60>>
FipsPlaintext == <<50, 67, 246, 168, 136, 90, 48, 141, 49, 49, 152, 162, 224, 55, 7, 52>>
MCInputs ==
    {[key |-> ZeroBytes, plaintext |-> [n \in 1 .. 16 |-> 16 * m + n - 1]] : m \in 0 .. 15}
    \cup {[key |-> FipsKey, plaintext |-> FipsPlaintext], [key |-> FipsPlaintext, plaintext |-> FipsKey]}

\* The padded "abc", and two blocks whose words make long carries.
Abc == [n \in 1 .. 16 |-> CASE n = 1 -> <<\h6162, \h6380>> [] n = 16 -> <<0, \h18>> [] OTHER -> <<0, 0>>]
AllOnes == [n \in 1 .. 16 |-> <<\hffff, \hffff>>]
Mixed == [n \in 1 .. 16 |-> <<4369 * (n - 1), 65535 - 257 * n>>]
MCBlocks == {<<Abc>>, <<AllOnes, Mixed>>}

\* The zero state, SHA3-256's last block of an empty message and of one that fills
\* all but a byte, a single high bit, and a dense state.
MCStates == {{}, {1, 2, 1087}, {1081, 1082, 1087}, {1599}, {n \in 0 .. 1599 : (n * n) % 7 < 3}}

\* Counters that carry through one byte, four bytes and all eight.
MCCounters == {<<0, 0, 0, 0, 0, 0, 0, 0>>, <<254, 0, 0, 0, 0, 0, 0, 0>>, <<255, 255, 255, 255, 7, 0, 0, 0>>,
               <<254, 255, 255, 255, 255, 255, 255, 255>>}
MCStartChunks == {<<0, 0, 0, 0, 0, 0, 0, 0>>, <<1, 0, 0, 0, 0, 0, 0, 0>>, <<1, 0, 0, 0, 1, 0, 0, 128>>}

-----------------------------------------------------------------------------
\* All inputs of the unit that runs, a small one of the others.
For(u, inputs, idle) == IF unit = u THEN inputs ELSE {idle}

Init ==
    /\ unit \in {"aes", "sha256", "keccak", "framing", "transpose"}
    /\ AesStart(For("aes", Inputs, [key |-> FipsKey, plaintext |-> FipsPlaintext]))
    /\ ShaStart(For("sha256", Blocks, <<Abc>>))
    /\ KeccakStart(For("keccak", States, {}))
    /\ FrameStart(For("framing", Jobs, [call |-> "sha3", bits |-> 0]))
    /\ TransStart(For("transpose", Shapes, [kernel |-> "generic", nrows |-> 8, ncols |-> 8]))

Next ==
    /\ \/ unit = "aes" /\ AesRound /\ UNCHANGED <<shaVars, keccakVars, frameVars, transVars>>
       \/ unit = "sha256" /\ ShaNext /\ UNCHANGED <<aesVars, keccakVars, frameVars, transVars>>
       \/ unit = "keccak" /\ KeccakStep /\ UNCHANGED <<aesVars, shaVars, frameVars, transVars>>
       \/ unit = "framing" /\ FrameNext /\ UNCHANGED <<aesVars, shaVars, keccakVars, transVars>>
       \/ unit = "transpose" /\ TransNext /\ UNCHANGED <<aesVars, shaVars, keccakVars, frameVars>>
    /\ UNCHANGED unit

Spec == Init /\ [][Next]_<<unit, aesVars, shaVars, keccakVars, frameVars, transVars>>

\* The AES, SHA-256 and Keccak circuits and both AES runtimes are their standards,
\* round for round.
PrimitivesAreStandard ==
    /\ CircuitIsAes
    /\ RuntimeIsAes
    /\ NeonIsX86
    /\ CircuitIsSha256
    /\ ConstantsAreRoots
    /\ CircuitIsKeccak

\* Every bit is where the standard or the transposition has it: padded blocks,
\* digests, counters, and the stores of every transpose kernel.
DataInPlace ==
    /\ Sha256Framed
    /\ Sha3Framed
    /\ CtrFramed
    /\ StoresTransposed
    /\ WholeOutput
=============================================================================
