------------------------------ MODULE AesTiles ------------------------------
(****************************************************************************)
(* runtime/crypto/aes.hpp with simd_tier.h: how runs of blocks are cut into *)
(* tiles and tiles into registers of one, two or four blocks; and the       *)
(* callers prp.h, ccrh.h, mitccrh.h and prg.h.  Blocks are symbolic: AES is *)
(* the term of its key and its plaintext.                                   *)
(****************************************************************************)
EXTENDS Integers, Sequences, SequencesExt

CONSTANTS Tiers,        \* widest registers of the builds: 1, 2 (VAES-256), 4 (VAES-512)
          RunSizes,     \* bounds: blocks of a run whose size is known at run time
          FixedSizes,   \* bounds: blocks of a run whose size is a template argument
          KeyCounts,    \* bounds: keys of a call
          Spans,        \* bounds: blocks hashed by one lane (the H of hash<K, H>)
          AesBatch,     \* AES_BATCH_SIZE
          Counter0,     \* bound: the counter fills start from
          Gid0          \* bound: the gid of the first lane of a hash

ASSUME AesTilesAssumption ==
    /\ Tiers \subseteq {1, 2, 4}
    /\ RunSizes \cup FixedSizes \cup KeyCounts \cup Spans \cup {AesBatch} \subseteq Nat \ {0}
    /\ Counter0 \in Nat /\ Gid0 \in Nat

VARIABLES mem,      \* blocks by address
          call,     \* the call in progress
          run       \* the key at work, its next block and the blocks left in this batch

tileVars == <<mem, call, run>>

Least(a, b) == IF a < b THEN a ELSE b
Given(a) == <<"in", a>>
Addresses(c) == 0 .. c.dst + c.keys * c.blocks - 1

(***************************************************************************)
(* Tiles                                                                   *)
(***************************************************************************)
Plaintext(source, sigma, tweak) == <<"pt", source, sigma, tweak>>
Aes(key, pt, back) == <<"aes", key, pt, back>>

\* Block i of a group that starts off blocks into its key's run.
LaneOffsets(off, i) == off + i

\* ctr_xor_tweak: place j of register t holds counter b0 + lane * t + j.
CtrXorTweak(counter, lane, i) == counter + lane * (i \div lane) + (i % lane)

\* What a tile kind makes of block i of a group.
PlaintextOf(c, m, key, from, off, lane, i) ==
    CASE c.kind \in {"plain", "xorInput"} -> Plaintext(m[from + i], FALSE, "none")
      [] c.kind = "xorSigma" -> Plaintext(m[from + i], TRUE, "none")
      [] c.kind = "inputTweak" -> Plaintext(m[from + i], FALSE, c.base[key] + LaneOffsets(off, i) \div c.span)
      [] c.kind = "sigmaTweak" -> Plaintext(m[from + i], TRUE, c.base[key] + LaneOffsets(off, i) \div c.span)
      [] c.kind \in {"ctr", "ctrDm"} -> Plaintext(<<"ctr", CtrXorTweak(c.counter + off, lane, i)>>, FALSE,
                                                  IF c.kind = "ctrDm" THEN "tweak" ELSE "none")
XorBack(kind) == kind \notin {"plain", "ctr"}

\* aes_tiles_src on n registers of lane blocks: two to four registers of four
\* blocks are all loaded before any is stored, others go one by one.
AesTilesSrc(c, m, key, off, lane, n) ==
    LET first == key * c.blocks + off
        width == IF lane = 4 /\ n \in 2 .. 4 THEN 4 * n ELSE lane
        chunk(mm, t) ==
            LET at == width * (t - 1) IN
            [a \in DOMAIN mm |->
                IF a - (c.dst + first) \in at .. at + width - 1
                THEN Aes(key, PlaintextOf(c, mm, key, c.src + first, off, lane, a - (c.dst + first)), XorBack(c.kind))
                ELSE mm[a]]
    IN  FoldLeft(chunk, m, [t \in 1 .. (lane * n) \div width |-> t])

\* Mutant: what follows the four-block registers starts after whole groups only.
DecompositionByGroups(tier, w) ==
    LET n4 == IF tier = 4 THEN w \div 4 ELSE 0
        n2 == IF tier >= 2 THEN (w - 4 * n4) \div 2 ELSE 0
        groups == [g \in 1 .. (n4 + 3) \div 4 |-> [lane |-> 4, at |-> 16 * (g - 1), n |-> Least(4, n4 - 4 * (g - 1))]]
        n1 == w - 4 * n4 - 2 * n2
    IN  groups \o <<[lane |-> 2, at |-> 16 * (n4 \div 4), n |-> n2], [lane |-> 1, at |-> 4 * n4 + 2 * n2, n |-> n1]>>
\* ParaEnc_mem_tiles_impl for one key: registers of four in groups of at most
\* four (apply_grouped), then of two, then of one.
Decomposition(tier, w) ==
    LET n4 == IF tier = 4 THEN w \div 4 ELSE 0
        n2 == IF tier >= 2 THEN (w - 4 * n4) \div 2 ELSE 0
        groups == [g \in 1 .. (n4 + 3) \div 4 |-> [lane |-> 4, at |-> 16 * (g - 1), n |-> Least(4, n4 - 4 * (g - 1))]]
        n1 == w - 4 * n4 - 2 * n2
    IN  groups \o <<[lane |-> 2, at |-> 4 * n4, n |-> n2], [lane |-> 1, at |-> 4 * n4 + 2 * n2, n |-> n1]>>

\* aes_ctr_fill_impl: one register width for the whole tile.
CtrDecomposition(tier, w) ==
    LET lane == IF tier = 4 /\ w % 4 = 0 THEN 4 ELSE IF tier >= 2 /\ w % 2 = 0 THEN 2 ELSE 1
    IN  <<[lane |-> lane, at |-> 0, n |-> w \div lane]>>

\* A tile of w blocks that starts off blocks into its key's run.  The offsets of
\* lanes count from there: tweaked tiles are whole runs, with off = 0.
AesTile(c, m, key, off, w) ==
    LET parts == IF c.kind \in {"ctr", "ctrDm"} THEN CtrDecomposition(c.tier, w) ELSE Decomposition(c.tier, w)
    IN  FoldLeft(LAMBDA mm, p : AesTilesSrc(c, mm, key, off + p.at, p.lane, p.n), m, parts)

(***************************************************************************)
(* Calls                                                                   *)
(***************************************************************************)
Batch(c, rest) == IF c.batched THEN Least(rest, AesBatch) ELSE rest

Start(c) ==
    /\ call = [kind |-> "idle"]
    /\ call' = c
    /\ mem' = [a \in Addresses(c) |-> Given(a)]
    /\ run' = [key |-> 0, at |-> 0, left |-> Batch(c, c.blocks)]

\* In place, or out of place without overlap.
Places(n) == {[dst |-> 0, src |-> 0], [dst |-> n, src |-> 0]}

NewCall(kind, tier, keys, blocks, place, fixed, batched) ==
    [kind |-> kind, tier |-> tier, keys |-> keys, blocks |-> blocks, dst |-> place.dst, src |-> place.src,
     fixed |-> fixed, batched |-> batched, span |-> 1, base |-> <<>>, counter |-> 0]

\* ParaEnc<K, N>, ParaEncXorInput_impl, CCRH::H<n>: sizes known at compile time.
ParaEncFixed(kind, tier, K, N, place) ==
    /\ kind = "xorSigma" => K = 1
    /\ Start(NewCall(kind, tier, K, N, place, TRUE, FALSE))

\* ParaEnc(K, N), ParaEncXorInput_runtime_impl, CCRH::Hn.
ParaEncRuntime(kind, tier, K, N, place) ==
    /\ kind = "xorSigma" => K = 1
    /\ Start(NewCall(kind, tier, K, N, place, FALSE, FALSE))

\* PRP::permute_block: in place, AES_BATCH_SIZE blocks at a time.
PermuteBlock(tier, n) == Start(NewCall("plain", tier, 1, n, [dst |-> 0, src |-> 0], FALSE, TRUE))

\* MITCCRH::consume from gid g0: one key for all lanes, or a key for each.
Consume(kind, tier, K, H, uniform, g0, place) ==
    LET c == NewCall(kind, tier, IF uniform THEN 1 ELSE K, IF uniform THEN K * H ELSE H, place, TRUE, FALSE)
    IN  Start([c EXCEPT !.span = H, !.base = [k \in 0 .. c.keys - 1 |-> g0 + k]])

\* PRG::random_block (ParaCtrEnc in batches) and aes_ctr_fill_dm<W>.
CtrFill(tier, counter, n) ==
    Start([NewCall("ctr", tier, 1, n, [dst |-> 0, src |-> 0], FALSE, TRUE) EXCEPT !.counter = counter])
CtrFillDm(tier, counter, w) ==
    Start([NewCall("ctrDm", tier, 1, w, [dst |-> 0, src |-> 0], TRUE, FALSE) EXCEPT !.counter = counter])

\* drain_tiles: the widest tile that fits.  A fixed size is one tile.
TileWidth ==
    IF call.fixed THEN run.left
    ELSE CHOOSE w \in (IF call.tier = 4 THEN {16} ELSE {}) \cup {8, 4, 2, 1} :
             w <= run.left /\ \A v \in (IF call.tier = 4 THEN {16} ELSE {}) \cup {8, 4, 2, 1} : v <= run.left => v <= w

\* One tile; at the end of a batch the next one, at the end of a key's run the
\* next key.
RunTile ==
    /\ call.kind # "idle" /\ run.key < call.keys
    /\ mem' = AesTile(call, mem, run.key, run.at, TileWidth)
    /\ run' = LET at == run.at + TileWidth
                  left == run.left - TileWidth
              IN  CASE left > 0 -> [run EXCEPT !.at = at, !.left = left]
                    [] left = 0 /\ at < call.blocks -> [run EXCEPT !.at = at, !.left = Batch(call, call.blocks - at)]
                    [] OTHER -> [key |-> run.key + 1, at |-> 0, left |-> Batch(call, call.blocks)]
    /\ UNCHANGED call

TileInit ==
    /\ mem = <<>>
    /\ call = [kind |-> "idle"]
    /\ run = [key |-> 0, at |-> 0, left |-> 0]

MemKinds == {"plain", "xorInput", "xorSigma"}
TweakKinds == {"inputTweak", "sigmaTweak"}

TileNext ==
    \/ \E kind \in MemKinds, tier \in Tiers, K \in KeyCounts, N \in FixedSizes : \E place \in Places(K * N) :
           ParaEncFixed(kind, tier, K, N, place)
    \/ \E kind \in MemKinds, tier \in Tiers, K \in KeyCounts, N \in RunSizes : \E place \in Places(K * N) :
           ParaEncRuntime(kind, tier, K, N, place)
    \/ \E tier \in Tiers, n \in RunSizes : PermuteBlock(tier, n) \/ CtrFill(tier, Counter0, n)
    \/ \E tier \in Tiers, w \in FixedSizes : CtrFillDm(tier, Counter0, w)
    \/ \E kind \in TweakKinds, tier \in Tiers, K \in {1, 2, 4, 8}, H \in Spans, uniform \in BOOLEAN :
           \E place \in Places(K * H) : Consume(kind, tier, K, H, uniform, Gid0, place)
    \/ RunTile

TileSpec == TileInit /\ [][TileNext]_tileVars

(***************************************************************************)
(* Properties                                                              *)
(***************************************************************************)
Stored(k, b) == k < run.key \/ (k = run.key /\ b < run.at)
Source(k, b) == Given(call.src + k * call.blocks + b)

\* Memory holds what the blocks done so far should be, and the given blocks
\* everywhere else.
Holds(Expected(_, _)) ==
    \A a \in DOMAIN mem :
        LET i == a - call.dst
            k == i \div call.blocks
            b == i % call.blocks
        IN  mem[a] = IF i >= 0 /\ Stored(k, b) THEN Expected(k, b) ELSE Given(a)

\* However a run is cut into batches, tiles, groups and registers, in place or
\* not, block b of key k is encrypted once, under key k, and stored at its own
\* place; no other block is touched (ParaEnc, CCRH, PRP).
TilesExact ==
    call.kind \in MemKinds =>
        LET expected(k, b) == Aes(k, Plaintext(Source(k, b), call.kind = "xorSigma", "none"), call.kind # "plain")
        IN  Holds(expected)

\* Lane l of MITCCRH's hash is tweaked by gid g0 + l, whether all lanes run under
\* one key, with offsets made in registers, or each under its own.
TweaksExact ==
    call.kind \in TweakKinds =>
        LET expected(k, b) ==
                Aes(k, Plaintext(Source(k, b), call.kind = "sigmaTweak", Gid0 + (k * call.blocks + b) \div call.span), TRUE)
        IN  Holds(expected)

\* Block i of a fill is made from counter + i, on every build and through every
\* batch: builds of different width make the same stream (PRG, aes_ctr_fill_dm).
StreamExact ==
    call.kind \in {"ctr", "ctrDm"} =>
        LET dm == call.kind = "ctrDm"
            expected(k, b) == Aes(0, Plaintext(<<"ctr", Counter0 + b>>, FALSE, IF dm THEN "tweak" ELSE "none"), dm)
        IN  Holds(expected)
=============================================================================
