------------------------------- MODULE Empbc -------------------------------
(*****************************************************************************)
(* The .empbc container (ir/empbc.h): the encoder, the decoder with all its  *)
(* checks, and a file that is overwritten in place while others load it.     *)
(* A byte holds a digit of radix Radix (256 in the code, 5 is enough to hold *)
(* an op code), so u16 and u32 are two and four digits and truncate as the   *)
(* code's casts do.                                                          *)
(*****************************************************************************)
EXTENDS IRPasses

CONSTANTS Radix,      \* values of a byte
          Programs,   \* the programs saved
          MaxSaves,   \* bound on save_empbc_file calls
          MaxFlips    \* bound on bytes of the file changed by someone else

ASSUME EmpbcAssumption ==
    /\ Radix \in Nat /\ Radix >= 5
    /\ \A p \in Programs : ValidateProgram(p)

Magic == <<1, 2, 3, 4>>
VERSION == 1
HEADER_LEN == 24
OpCode == [And |-> 0, Xor |-> 1, Not |-> 2, Const0 |-> 3, Const1 |-> 4]
ReuseCode == [None |-> 0, Linear |-> 1, Full |-> 2]
Named(codes, v) == CHOOSE n \in DOMAIN codes : codes[n] = v

\* Little-endian writers and reader: n bytes of v, and n bytes from position i.
Put(n, v) == [i \in 1 .. n |-> (v \div Radix ^ (i - 1)) % Radix]
Get(b, i, n) == FoldLeft(LAMBDA v, k : v + b[i + k] * Radix ^ k, 0, [k \in 1 .. n |-> k - 1])

IndexWidth(p) == IF p.num_wires <= Radix ^ 2 - 1 THEN 2 ELSE 4

GateBytes(g, iw) ==
    Put(iw, g.in0) \o Put(iw, g.in1) \o Put(iw, g.out) \o <<OpCode[g.op]>>
        \o [i \in 1 .. iw - 1 |-> 0]

SaveEmpbc(p) ==
    LET iw == IndexWidth(p)
    IN  Magic \o Put(2, VERSION) \o <<iw, ReuseCode[p.wire_reuse]>>
            \o Put(4, p.num_wires) \o Put(4, p.num_inputs)
            \o Put(4, Len(p.outputs)) \o Put(4, Len(p.gates))
            \o FlattenSeq([k \in Gates(p) |-> GateBytes(p.gates[k], iw)])
            \o FlattenSeq([i \in DOMAIN p.outputs |-> Put(iw, p.outputs[i])])

\* load_empbc: the program the bytes declare, once the header, the exact file
\* length, the op codes and validate_program agree.
Decoded(b) ==
    LET iw == b[7]
        ng == Get(b, 21, 4)
        gate(k) == HEADER_LEN + 1 + (k - 1) * 4 * iw
        outs == HEADER_LEN + 1 + ng * 4 * iw
    IN  [num_wires |-> Get(b, 9, 4), num_inputs |-> Get(b, 13, 4),
         wire_reuse |-> Named(ReuseCode, b[8]),
         gates |-> [k \in 1 .. ng |->
                       [in0 |-> Get(b, gate(k), iw), in1 |-> Get(b, gate(k) + iw, iw),
                        out |-> Get(b, gate(k) + 2 * iw, iw),
                        op |-> Named(OpCode, b[gate(k) + 3 * iw])]],
         outputs |-> [i \in 1 .. Get(b, 17, 4) |-> Get(b, outs + (i - 1) * iw, iw)]]

HeaderOk(b) ==
    /\ Len(b) >= HEADER_LEN
    /\ SubSeq(b, 1, 4) = Magic
    /\ Get(b, 5, 2) = VERSION
    /\ b[7] \in {2, 4}
    /\ b[8] \in Range(ReuseCode)

Accepts(b) ==
    /\ HeaderOk(b)
    /\ Len(b) = HEADER_LEN + Get(b, 21, 4) * 4 * b[7] + Get(b, 17, 4) * b[7]
    /\ \A k \in 1 .. Get(b, 21, 4) :
           b[HEADER_LEN + (k - 1) * 4 * b[7] + 3 * b[7] + 1] \in Range(OpCode)
    /\ ValidateProgram(Decoded(b))

-----------------------------------------------------------------------------
VARIABLES file,     \* the bytes on disk
          left,     \* what the saving process has not written yet
          saving,   \* whether a save is in progress
          saved,   \* the program last saved
          saves, flips

fileVars == <<file, left, saving, saved, saves, flips>>

FileInit ==
    /\ file = <<>>
    /\ left = <<>>
    /\ saving = FALSE
    /\ saved \in Programs
    /\ saves = 0
    /\ flips = 0

\* Mutant: the old file is overwritten without being truncated.
StartSaveInPlace(p) ==
    /\ ~saving /\ saves < MaxSaves
    /\ left' = SaveEmpbc(p)
    /\ saving' = TRUE
    /\ saved' = p
    /\ saves' = saves + 1
    /\ UNCHANGED <<file, flips>>

\* save_empbc_file: fopen("wb") truncates, fwrite and fclose write in pieces.
StartSave(p) ==
    /\ ~saving /\ saves < MaxSaves
    /\ file' = <<>>
    /\ left' = SaveEmpbc(p)
    /\ saving' = TRUE
    /\ saved' = p
    /\ saves' = saves + 1
    /\ UNCHANGED flips

Offset(n) == Len(SaveEmpbc(saved)) - Len(left) + n

\* The pieces: to the end of the header, to the next gate record or output, all.
WriteSome(n) ==
    /\ saving
    /\ n \in 1 .. Len(left)
    /\ file' = SubSeq(SaveEmpbc(saved), 1, Offset(n)) \o SubSeq(file, Offset(n) + 1, Len(file))
    /\ left' = SubSeq(left, n + 1, Len(left))
    /\ UNCHANGED <<saving, saved, saves, flips>>

EndSave ==
    /\ saving /\ left = <<>>
    /\ saving' = FALSE
    /\ UNCHANGED <<file, left, saved, saves, flips>>

\* The process dies, or fwrite comes up short: what is written stays.
AbortSave ==
    /\ saving /\ left # <<>>
    /\ saving' = FALSE
    /\ left' = <<>>
    /\ UNCHANGED <<file, saved, saves, flips>>

FlipByte(i, v) ==
    /\ ~saving /\ flips < MaxFlips
    /\ i \in DOMAIN file /\ file[i] # v
    /\ file' = [file EXCEPT ![i] = v]
    /\ flips' = flips + 1
    /\ UNCHANGED <<left, saving, saved, saves>>

FileNext ==
    \/ \E p \in Programs : StartSave(p)
    \/ \E n \in {1, 2, 4, HEADER_LEN, Len(left)} : WriteSome(n)
    \/ EndSave
    \/ AbortSave
    \/ \E i \in 1 .. Len(file), v \in 0 .. Radix - 1 : FlipByte(i, v)

FileSpec == FileInit /\ [][FileNext]_fileVars

-----------------------------------------------------------------------------
Completed == saves > 0 /\ Len(file) = Len(SaveEmpbc(saved)) /\ flips = 0

\* A completed save loads back as the program that was saved, in the 16-bit and
\* the 32-bit index form (save_empbc, load_empbc).
RoundTrip == Completed => Accepts(file) /\ Decoded(file) = saved

\* A file caught half written, by a reader or by a crash, is refused: whenever a
\* load succeeds it returns the whole program last saved, never a mixture of two
\* or a program cut short (load_empbc's exact size check, fopen "wb").
PartialRefused == flips = 0 /\ Accepts(file) => Completed /\ Decoded(file) = saved

\* One changed byte of a completely saved file cannot make it load as a program
\* with more or fewer gates or outputs: the declared counts have to add up to the file length.
FlipKeepsCounts ==
    saves > 0 /\ Len(file) = Len(SaveEmpbc(saved)) /\ Accepts(file) =>
        /\ Len(Decoded(file).gates) = Len(saved.gates)
        /\ Len(Decoded(file).outputs) = Len(saved.outputs)

\* What a file loads as is what was saved: a complete save loads back, half of one
\* is refused, a changed byte never changes the counts (save_empbc, load_empbc).
FilesReadBack == RoundTrip /\ PartialRefused /\ FlipKeepsCounts
=============================================================================
