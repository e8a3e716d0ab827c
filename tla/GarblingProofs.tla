--------------------------- MODULE GarblingProofs ---------------------------
(*****************************************************************************)
(* Proofs for Garbling, for circuits of any size and shape, key schedules of *)
(* any (even) batch sizes at the two ends and any span of gids to a key: the *)
(* evaluator arrives at the labels the garbler meant.  Two MITCCRH objects   *)
(* that have served equally many calls hash under the same gids and keys     *)
(* (CallServed); a gate's rows undo what garbling it put in (the two gate    *)
(* algebras); and the table at the head of those on their way is the one of  *)
(* the evaluator's next AND gate (GateOK).                                   *)
(*****************************************************************************)
EXTENDS Garbling, FiniteSetTheorems, TLAPS

(***************************************************************************)
(* Sequences                                                               *)
(***************************************************************************)
\* What Append makes.
LEMMA AppendFacts ==
    ASSUME NEW S, NEW s \in Seq(S), NEW x \in S
    PROVE  /\ Append(s, x) \in Seq(S) /\ Len(Append(s, x)) = Len(s) + 1 /\ Append(s, x)[Len(s) + 1] = x
           /\ \A i \in 1 .. Len(s) : Append(s, x)[i] = s[i]
  OBVIOUS
\* What \o makes.
LEMMA ConcatFacts ==
    ASSUME NEW S, NEW s \in Seq(S), NEW t \in Seq(S)
    PROVE  /\ s \o t \in Seq(S) /\ Len(s \o t) = Len(s) + Len(t)
           /\ \A i \in 1 .. Len(s) + Len(t) : (s \o t)[i] = IF i <= Len(s) THEN s[i] ELSE t[i - Len(s)]
  OBVIOUS
\* What Tail makes.
LEMMA TailFacts ==
    ASSUME NEW S, NEW s \in Seq(S), s # <<>>
    PROVE  /\ Tail(s) \in Seq(S) /\ Len(Tail(s)) = Len(s) - 1
           /\ \A i \in 1 .. Len(Tail(s)) : Tail(s)[i] = s[i + 1]
  OBVIOUS

(***************************************************************************)
(* The two MITCCRH objects                                                 *)
(***************************************************************************)
\* The key of a gid, and the query of a block under it.
KeyOf(g) == <<"S", SpanBucket(g)>>
GidQuery(x, g) == <<x, g, KeyOf(g)>>

\* The fields of an object.
Shaped(B, o) ==
    /\ o = [s |-> o.s, gid |-> o.gid, keyUsed |-> o.keyUsed, bucket |-> o.bucket,
            laneGid0 |-> o.laneGid0, key |-> o.key]
    /\ DOMAIN o.key = 0 .. B - 1 /\ o.key = [k \in 0 .. B - 1 |-> o.key[k]]

\* An object that has served n calls of two lanes, whatever its batch size: its next
\* gid is 2n, and what it has scheduled are the keys of the gids they stand for.
Served(B, o, n) ==
    /\ Shaped(B, o)
    /\ o.s = "S" /\ o.keyUsed \in 0 .. B /\ o.keyUsed % 2 = 0 /\ o.gid \in Nat /\ o.laneGid0 \in Nat
    /\ o.gid + o.keyUsed = 2 * n + B
    /\ o.bucket # -1 => KeySpan > 1 /\ o.key[0] = <<"S", o.bucket>>
    /\ o.keyUsed < B =>
           /\ o.gid = o.laneGid0 + B
           /\ \A k \in 0 .. B - 1 : IF o.bucket # -1 THEN SpanBucket(o.laneGid0 + k) = o.bucket
                                                    ELSE o.key[k] = KeyOf(o.laneGid0 + k)
\* One with keys left for a call.
Stocked(B, o, n) == Served(B, o, n) /\ o.keyUsed + 2 <= B

\* Later gids are in later buckets, or the same.
LEMMA BucketsGrow ==
    ASSUME NEW g \in Nat, NEW h \in Nat, g <= h
    PROVE  SpanBucket(g) \in Nat /\ SpanBucket(g) <= SpanBucket(h)
  BY GarblingAssumption DEF SpanBucket

\* A call of two lanes fits a schedule a whole number of times.
LEMMA BatchesEven ==
    /\ GarblerBatch \in Nat \ {0} /\ GarblerBatch % 2 = 0
    /\ EvaluatorBatch \in Nat \ {0} /\ EvaluatorBatch % 2 = 0
    /\ Inputs \in Nat
  BY GarblingAssumption, ZenonT(20)

\* renew_ks when the schedule is used up.
LEMMA RenewedServes ==
    ASSUME NEW B \in Nat \ {0}, B % 2 = 0, NEW n \in Nat, NEW o, Served(B, o, n), o.keyUsed = B
    PROVE  Stocked(B, MH(B)!Renewed(o), n)
<1> DEFINE first == SpanBucket(o.gid)
           uniform == KeySpan > 1 /\ first = SpanBucket(o.gid + B - 1)
<1>1. PICK r : r = MH(B)!Renewed(o)
  BY Zenon
<1>2. o.gid \in Nat /\ o.gid = 2 * n /\ o.s = "S"
  BY DEF Served
<1>3. /\ r.s = "S" /\ r.gid = o.gid + B /\ r.keyUsed = 0 /\ r.laneGid0 = o.gid
      /\ r.bucket = IF uniform THEN first ELSE -1
      /\ r.key = IF ~uniform THEN [k \in 0 .. B - 1 |-> <<"S", SpanBucket(o.gid + k)>>]
                 ELSE IF first # o.bucket THEN [o.key EXCEPT ![0] = <<"S", first>>]
                 ELSE o.key
      /\ r = [s |-> r.s, gid |-> r.gid, keyUsed |-> r.keyUsed, bucket |-> r.bucket,
              laneGid0 |-> r.laneGid0, key |-> r.key]
  BY <1>1, <1>2 DEF MH!Renewed, MH!Places, MH!NoBucket
<1>4. Shaped(B, r) /\ o.key = [k \in 0 .. B - 1 |-> o.key[k]]
  <2> HIDE DEF first, uniform
  <2>1. o.key = [k \in 0 .. B - 1 |-> o.key[k]]
    BY DEF Served, Shaped
  <2> QED BY <1>3, <2>1, ZenonT(20) DEF Shaped
<1>5. /\ \A k \in 0 .. B - 1 : o.gid + k \in Nat /\ o.gid <= o.gid + k /\ o.gid + k <= o.gid + B - 1
      /\ o.gid + B - 1 \in Nat /\ 0 \in 0 .. B - 1
  BY <1>2
<1>6. first \in Nat /\ \A k \in 0 .. B - 1 : SpanBucket(o.gid + k) \in Nat
  BY <1>2, <1>5, BucketsGrow
<1>9. ASSUME r.bucket # -1 => KeySpan > 1 /\ r.key[0] = <<"S", r.bucket>>,
             \A k \in 0 .. B - 1 : IF r.bucket # -1 THEN SpanBucket(r.laneGid0 + k) = r.bucket
                                                    ELSE r.key[k] = KeyOf(r.laneGid0 + k)
      PROVE  Stocked(B, MH(B)!Renewed(o), n)
  <2> HIDE DEF first, uniform
  <2>1. /\ r.keyUsed \in 0 .. B /\ r.keyUsed % 2 = 0 /\ r.gid \in Nat /\ r.laneGid0 \in Nat
        /\ r.gid + r.keyUsed = 2 * n + B /\ r.gid = r.laneGid0 + B /\ r.keyUsed + 2 <= B
    BY <1>2, <1>3
  <2> QED BY <1>1, <1>3, <1>4, <1>9, <2>1, Zenon DEF Stocked, Served
<1>7. CASE uniform
  <2>1. r.bucket = first /\ first # -1
    BY <1>3, <1>6, <1>7
  <2>2. \A k \in 0 .. B - 1 : SpanBucket(o.gid + k) = first
    <3> SUFFICES ASSUME NEW k \in 0 .. B - 1 PROVE SpanBucket(o.gid + k) = first
      OBVIOUS
    <3>1. first <= SpanBucket(o.gid + k) /\ SpanBucket(o.gid + k) <= SpanBucket(o.gid + B - 1)
      BY <1>2, <1>5, BucketsGrow
    <3>2. first = SpanBucket(o.gid + B - 1)
      BY <1>7
    <3> QED BY <1>6, <3>1, <3>2
  <2>3. r.key[0] = <<"S", first>>
    <3> HIDE DEF first
    <3>1. CASE first # o.bucket
      BY <1>3, <1>4, <1>5, <1>7, <3>1
    <3>2. CASE first = o.bucket
      BY <1>3, <1>7, <2>1, <3>2 DEF Served
    <3> QED BY <3>1, <3>2
  <2>4. KeySpan > 1
    BY <1>7
  <2> HIDE DEF first, uniform
  <2>5. r.bucket # -1 => KeySpan > 1 /\ r.key[0] = <<"S", r.bucket>>
    BY <2>1, <2>3, <2>4
  <2>6. \A k \in 0 .. B - 1 : IF r.bucket # -1 THEN SpanBucket(r.laneGid0 + k) = r.bucket
                                               ELSE r.key[k] = KeyOf(r.laneGid0 + k)
    BY <1>3, <2>1, <2>2
  <2> QED BY <1>9, <2>5, <2>6
<1>8. CASE ~uniform
  <2>1. r.bucket = -1 /\ \A k \in 0 .. B - 1 : r.key[k] = KeyOf(o.gid + k)
    BY <1>3, <1>8 DEF KeyOf
  <2> HIDE DEF first, uniform
  <2>2. \A k \in 0 .. B - 1 : IF r.bucket # -1 THEN SpanBucket(r.laneGid0 + k) = r.bucket
                                               ELSE r.key[k] = KeyOf(r.laneGid0 + k)
    BY <1>3, <2>1
  <2> QED BY <1>9, <2>1, <2>2
<1> QED BY <1>7, <1>8

\* consume: the object a call is served from.
LEMMA ReadyServes ==
    ASSUME NEW B \in Nat \ {0}, B % 2 = 0, NEW n \in Nat, NEW o, Served(B, o, n)
    PROVE  Stocked(B, MH(B)!Ready(o, 2), n)
<1>1. o.keyUsed \in 0 .. B /\ o.keyUsed % 2 = 0
  BY DEF Served
<1>2. CASE o.keyUsed + 2 > B
  <2>1. o.keyUsed = B
    BY <1>1, <1>2
  <2>2. MH(B)!Ready(o, 2) = MH(B)!Renewed(o)
    BY <1>2 DEF MH!Ready
  <2> QED BY <2>1, <2>2, RenewedServes
<1>3. CASE ~(o.keyUsed + 2 > B)
  BY <1>1, <1>3 DEF MH!Ready, Stocked
<1> QED BY <1>2, <1>3

\* The lanes of a call have the gids 2n and 2n + 1 and their keys, and the object
\* goes on to the next two: two objects of different batch sizes agree.
LEMMA CallServed ==
    ASSUME NEW B \in Nat \ {0}, B % 2 = 0, NEW n \in Nat, NEW o, Served(B, o, n)
    PROVE  /\ \A x, k : k \in {0, 1} => LaneQuery(B, o, x, k) = GidQuery(x, 2 * n + k)
           /\ Served(B, AfterCall(B, o), n + 1)
<1>1. PICK r : r = MH(B)!Ready(o, 2)
  BY Zenon
<1>2. Stocked(B, r, n)
  BY <1>1, ReadyServes
<1>3. /\ r.keyUsed \in 0 .. B /\ r.keyUsed % 2 = 0 /\ r.keyUsed + 2 <= B /\ r.gid = r.laneGid0 + B
      /\ r.laneGid0 \in Nat /\ r.gid \in Nat /\ r.gid + r.keyUsed = 2 * n + B /\ r.s = "S"
  BY <1>2 DEF Stocked, Served
<1>4. ASSUME NEW x, NEW k \in {0, 1} PROVE LaneQuery(B, o, x, k) = GidQuery(x, 2 * n + k)
  <2>1. /\ r.keyUsed + k \in 0 .. B - 1 /\ r.laneGid0 + r.keyUsed + k = 2 * n + k
        /\ r.laneGid0 + (r.keyUsed + k) = 2 * n + k
    BY <1>3
  <2>2. MH(B)!LaneGid(r, k) = 2 * n + k
    BY <2>1, Zenon DEF MH!LaneGid
  <2>3. MH(B)!LaneKey(r, k) = KeyOf(2 * n + k)
    <3>1. CASE r.bucket # -1
      <4>1. KeySpan > 1 /\ r.key[0] = <<"S", r.bucket>> /\ SpanBucket(2 * n + k) = r.bucket
        BY <1>2, <1>3, <2>1, <3>1 DEF Stocked, Served
      <4> QED BY <3>1, <4>1 DEF MH!LaneKey, MH!NoBucket, KeyOf
    <3>2. CASE r.bucket = -1
      <4>1. \A i \in 0 .. B - 1 : r.key[i] = KeyOf(r.laneGid0 + i)
        BY <1>2, <1>3, <3>2 DEF Stocked, Served
      <4>2. r.key[r.keyUsed + k] = KeyOf(2 * n + k)
        BY <2>1, <4>1, Zenon
      <4> QED BY <3>2, <4>2 DEF MH!LaneKey, MH!NoBucket
    <3> QED BY <3>1, <3>2
  <2> QED BY <1>1, <2>2, <2>3 DEF LaneQuery, GidQuery
<1>5. Served(B, AfterCall(B, o), n + 1)
  <2>1. PICK t : t = AfterCall(B, o)
    BY Zenon
  <2>2. t = [r EXCEPT !.keyUsed = r.keyUsed + 2]
    BY <1>1, <2>1 DEF AfterCall, MH!Taken
  <2>3. /\ t.s = r.s /\ t.gid = r.gid /\ t.bucket = r.bucket /\ t.laneGid0 = r.laneGid0
        /\ t.key = r.key /\ t.keyUsed = r.keyUsed + 2
        /\ Shaped(B, t)
    <3>1. Shaped(B, r)
      BY <1>2 DEF Stocked, Served
    <3> QED BY <2>2, <3>1 DEF Shaped
  <2>4. /\ t.keyUsed \in 0 .. B /\ t.keyUsed % 2 = 0 /\ t.gid + t.keyUsed = 2 * (n + 1) + B
        /\ r.keyUsed < B
    BY <1>3, <2>3
  <2> QED BY <1>2, <1>3, <2>1, <2>3, <2>4 DEF Stocked, Served
<1> QED BY <1>4, <1>5

\* setS leaves an object that has served nothing.
LEMMA StartedServes ==
    ASSUME NEW B \in Nat \ {0}, B % 2 = 0
    PROVE  Served(B, Started(B), 0)
<1>1. PICK o : o = Started(B)
  BY Zenon
<1>2. /\ o.s = "S" /\ o.gid = 0 /\ o.keyUsed = B /\ o.bucket = -1 /\ o.laneGid0 = 0
      /\ Shaped(B, o)
  BY <1>1 DEF Shaped, Started, MH!WithS, MH!New, MH!Places, MH!NoBucket
<1>3. o.keyUsed \in 0 .. B /\ o.keyUsed % 2 = 0 /\ o.gid + o.keyUsed = 2 * 0 + B /\ ~(o.keyUsed < B)
  BY <1>2
<1> QED BY <1>1, <1>2, <1>3 DEF Served

(***************************************************************************)
(* Blocks                                                                  *)
(***************************************************************************)
\* A bit is 0 or 1.
LEMMA BitCases == \A b \in Bits : b = 0 \/ b = 1
  BY DEF Bits

\* XOR with nothing, and with itself.
LEMMA XorFacts ==
    ASSUME NEW x, NEW y
    PROVE  Xor(x, {}) = x /\ Xor({}, x) = x /\ Xor(x, x) = {} /\ Xor(x, y) = Xor(y, x)
           /\ Xor(Xor(x, y), y) = x
  BY DEF Xor

\* Half gates: from the hashes of the labels it holds and the two rows, the evaluator
\* gets the label of the AND, for all select bits and values of the inputs.
LEMMA HalfGateAlgebra ==
    ASSUME NEW ha0, NEW ha1, NEW hb0, NEW hb1, NEW x, NEW d,
           NEW pa \in Bits, NEW pb \in Bits, NEW va \in Bits, NEW vb \in Bits,
           NEW t, t = Xor3(ha0, ha1, Masked(pb, d)), NEW tmp, tmp = Xor(hb0, hb1)
    PROVE  Xor3(Xor(IF va = 1 THEN ha1 ELSE ha0, IF vb = 1 THEN hb1 ELSE hb0),
                Masked((pa + va) % 2, t),
                Masked((pb + vb) % 2, Xor(Xor(tmp, x), Xor(x, Masked(va, d)))))
           = Xor(Xor3(Xor(ha0, Masked(pa, t)), hb0, Masked(pb, tmp)), Masked(va * vb, d))
<1>1. (pa = 0 \/ pa = 1) /\ (pb = 0 \/ pb = 1) /\ (va = 0 \/ va = 1) /\ (vb = 0 \/ vb = 1)
  BY BitCases
<1>2. CASE va = 0 /\ vb = 0
  <2>1. (pa + va) % 2 = pa /\ (pb + vb) % 2 = pb /\ va * vb = 0
    BY <1>1, <1>2
  <2> QED BY <1>1, <1>2, <2>1 DEF Xor3, Xor, Masked
<1>3. CASE va = 0 /\ vb = 1
  <2>1. (pa + va) % 2 = pa /\ (pb + vb) % 2 = 1 - pb /\ va * vb = 0
    BY <1>1, <1>3
  <2> QED BY <1>1, <1>3, <2>1 DEF Xor3, Xor, Masked
<1>4. CASE va = 1 /\ vb = 0
  <2>1. (pa + va) % 2 = 1 - pa /\ (pb + vb) % 2 = pb /\ va * vb = 0
    BY <1>1, <1>4
  <2> QED BY <1>1, <1>4, <2>1 DEF Xor3, Xor, Masked
<1>5. CASE va = 1 /\ vb = 1
  <2>1. (pa + va) % 2 = 1 - pa /\ (pb + vb) % 2 = 1 - pb /\ va * vb = 1
    BY <1>1, <1>5
  <2> QED BY <1>1, <1>5, <2>1 DEF Xor3, Xor, Masked
<1> QED BY <1>1, <1>2, <1>3, <1>4, <1>5

\* Privacy-free gates: with the row, the label of 1 leads to the other input's label.
LEMMA FreeGateAlgebra ==
    ASSUME NEW h0, NEW h1, NEW y, NEW b
    PROVE  Xor3(h1, Xor3(h0, h1, y), Xor(y, b)) = Xor(h0, b)
  BY DEF Xor3, Xor

\* The low bits of the atoms of a block that are set.
Lows(low, x) == {i \in x : low[i] = 1}

\* A low bit is a bit.
LEMMA LowIsBit ==
    ASSUME NEW low, NEW x, IsFiniteSet(x)
    PROVE  GetLSB(low, x) \in Bits /\ IsFiniteSet(Lows(low, x)) /\ Cardinality(Lows(low, x)) \in Nat
           /\ GetLSB(low, x) = Cardinality(Lows(low, x)) % 2
<1>1. IsFiniteSet(Lows(low, x))
  BY FS_Subset DEF Lows
<1>2. Cardinality(Lows(low, x)) \in Nat
  BY <1>1, FS_CardinalityType
<1> QED BY <1>1, <1>2 DEF GetLSB, Lows, Bits

\* The low bit of an XOR is the XOR of the low bits.
LEMMA LowOfXor ==
    ASSUME NEW low, NEW x, NEW y, IsFiniteSet(x), IsFiniteSet(y)
    PROVE  /\ IsFiniteSet(Xor(x, y))
           /\ GetLSB(low, Xor(x, y)) = (GetLSB(low, x) + GetLSB(low, y)) % 2
<1> DEFINE S == Lows(low, x)
           T == Lows(low, y)
<1>1. IsFiniteSet(S) /\ IsFiniteSet(T) /\ Cardinality(S) \in Nat /\ Cardinality(T) \in Nat
      /\ GetLSB(low, x) = Cardinality(S) % 2 /\ GetLSB(low, y) = Cardinality(T) % 2
  BY LowIsBit
<1>2. IsFiniteSet(Xor(x, y))
  <2>1. IsFiniteSet(x \ y) /\ IsFiniteSet(y \ x)
    BY FS_Difference, ZenonT(20)
  <2> QED BY <2>1, FS_Union, ZenonT(20) DEF Xor
<1>3. Lows(low, Xor(x, y)) = (S \ T) \cup (T \ S)
  BY DEF Lows, Xor
<1>4. GetLSB(low, Xor(x, y)) = Cardinality((S \ T) \cup (T \ S)) % 2
  BY <1>2, <1>3, LowIsBit
<1> HIDE DEF S, T
<1>5. /\ IsFiniteSet(S \ T) /\ Cardinality(S \ T) = Cardinality(S) - Cardinality(S \cap T)
      /\ IsFiniteSet(T \ S) /\ Cardinality(T \ S) = Cardinality(T) - Cardinality(T \cap S)
  BY <1>1, FS_Difference, ZenonT(20)
<1>6. S \cap T = T \cap S /\ (S \ T) \cap (T \ S) = {} /\ IsFiniteSet(S \cap T)
  BY <1>1, FS_Intersection
<1>7. Cardinality(S \cap T) \in Nat
  BY <1>6, FS_CardinalityType
<1>8. Cardinality((S \ T) \cup (T \ S))
          = Cardinality(S \ T) + Cardinality(T \ S) - Cardinality((S \ T) \cap (T \ S))
  BY <1>5, FS_Union, Zenon
<1>9. Cardinality((S \ T) \cup (T \ S)) = Cardinality(S) + Cardinality(T) - 2 * Cardinality(S \cap T)
  <2>1. Cardinality((S \ T) \cap (T \ S)) = 0 /\ Cardinality(T \cap S) = Cardinality(S \cap T)
    BY <1>6, FS_EmptySet, Zenon
  <2>2. PICK u, v, w, z : u = Cardinality(S) /\ v = Cardinality(T) /\ w = Cardinality(S \cap T)
                          /\ z = Cardinality((S \ T) \cup (T \ S))
    OBVIOUS
  <2>3. u \in Nat /\ v \in Nat /\ w \in Nat /\ z = (u - w) + (v - w) - 0
    BY <1>1, <1>5, <1>7, <1>8, <2>1, <2>2, Zenon
  <2>4. z = u + v - 2 * w
    BY <2>3
  <2> QED BY <2>2, <2>4, Zenon
<1>10. ASSUME NEW u \in Nat, NEW v \in Nat, NEW w \in Nat
       PROVE  (u + v - 2 * w) % 2 = ((u % 2) + (v % 2)) % 2
  OBVIOUS
<1> QED BY <1>1, <1>2, <1>4, <1>7, <1>9, <1>10

\* The blocks with only delta, and only the low bit.
LEMMA LowOfAtom ==
    ASSUME NEW low, NEW i
    PROVE  IsFiniteSet({i}) /\ (low[i] = 1 => GetLSB(low, {i}) = 1) /\ IsFiniteSet({}) /\ GetLSB(low, {}) = 0
<1>1. IsFiniteSet({i}) /\ Cardinality({i}) = 1 /\ IsFiniteSet({}) /\ Cardinality({}) = 0
  BY FS_Singleton, FS_EmptySet, ZenonT(20)
<1>2. Lows(low, {}) = {} /\ (low[i] = 1 => Lows(low, {i}) = {i})
  BY DEF Lows
<1>3. GetLSB(low, {}) = 0 % 2 /\ (low[i] = 1 => GetLSB(low, {i}) = 1 % 2)
  BY <1>1, <1>2 DEF GetLSB, Lows
<1> QED BY <1>1, <1>3

\* Delta has low bit 1: it tells the two labels of a wire apart.
LEMMA LowOfLabel ==
    ASSUME NEW low, low[0] = 1, NEW x, IsFiniteSet(x), NEW v \in Bits
    PROVE  /\ IsFiniteSet(Xor(x, Masked(v, Delta)))
           /\ GetLSB(low, Xor(x, Masked(v, Delta))) = (GetLSB(low, x) + v) % 2
<1>1. IsFiniteSet(Masked(v, Delta)) /\ GetLSB(low, Masked(v, Delta)) = v
  BY LowOfAtom, BitCases, ZenonT(20) DEF Masked, Delta
<1> QED BY <1>1, LowOfXor

\* privacy_free_garble's clearing and setting of the low bit.
LEMMA LowOfWithLSB ==
    ASSUME NEW low, low[-1] = 1, NEW x, IsFiniteSet(x), NEW b \in Bits
    PROVE  GetLSB(low, WithLSB(low, x, b)) = b /\ WithLSB(low, x, b) \subseteq x \cup LowBit
<1>1. IsFiniteSet(LowBit) /\ GetLSB(low, LowBit) = 1
  BY LowOfAtom DEF LowBit
<1>2. GetLSB(low, Xor(x, LowBit)) = (GetLSB(low, x) + 1) % 2
  BY <1>1, LowOfXor
<1>3. GetLSB(low, x) = 0 \/ GetLSB(low, x) = 1
  BY LowIsBit, BitCases
<1>4. Xor(x, LowBit) \subseteq x \cup LowBit /\ x \subseteq x \cup LowBit
  BY DEF Xor
<1>5. CASE GetLSB(low, x) = b
  BY <1>4, <1>5 DEF WithLSB
<1>6. CASE GetLSB(low, x) # b
  <2>1. (GetLSB(low, x) + 1) % 2 = b
    BY <1>3, <1>6, BitCases
  <2> QED BY <1>2, <1>4, <1>6, <2>1 DEF WithLSB
<1> QED BY <1>5, <1>6

(***************************************************************************)
(* Hashes                                                                  *)
(***************************************************************************)
\* g keeps what f says.
Grows(f, g) == DOMAIN f \subseteq DOMAIN g /\ \A x \in DOMAIN f : g[x] = f[x]

\* What the hash calls of a step leave.
HashesKept ==
    /\ Grows(hash, hash') /\ Grows(lsb, lsb') /\ IsFiniteSet(DOMAIN lsb')
    /\ \A q \in DOMAIN hash' : hash'[q] \in DOMAIN lsb'

\* What a call to AES leaves: known hashes and low bits stay, and the blocks hashed
\* have atoms that have low bits.
LEMMA QueryFacts ==
    ASSUME NEW qs, Query(qs), \A q \in DOMAIN hash : hash[q] \in DOMAIN lsb,
           IsFiniteSet(DOMAIN lsb), IsFiniteSet(DOMAIN qs)
    PROVE  /\ Grows(hash, hash') /\ Grows(lsb, lsb') /\ IsFiniteSet(DOMAIN lsb')
           /\ \A i \in DOMAIN qs : qs[i] \in DOMAIN hash'
           /\ \A q \in DOMAIN hash' : hash'[q] \in DOMAIN lsb'
<1> DEFINE base == Inputs + Cardinality(DOMAIN hash)
           new == {i \in DOMAIN qs : qs[i] \notin DOMAIN hash}
           fresh == {base + i : i \in new}
           pick(q) == CHOOSE i \in new : qs[i] = q
<1>1. PICK c : /\ hash' = [q \in DOMAIN hash \cup {qs[i] : i \in new} |->
                              IF q \in DOMAIN hash THEN hash[q] ELSE base + pick(q)]
               /\ lsb' = [i \in DOMAIN lsb \cup fresh |->
                              IF i \in DOMAIN lsb THEN lsb[i]
                              ELSE IF i - base <= FreeLows THEN c[i - base] ELSE 0]
  BY ZenonT(20) DEF Query
<1>2. \A q : q \in {qs[i] : i \in new} => pick(q) \in new
  OBVIOUS
<1>3. IsFiniteSet(fresh)
  <2>1. IsFiniteSet(new)
    BY FS_Subset
  <2> DEFINE f == [i \in new |-> base + i]
  <2>2. f \in Surjection(new, fresh)
    BY DEF Surjection
  <2> QED BY <2>1, <2>2, FS_Surjection, Zenon
<1> HIDE DEF base, pick
<1>4. DOMAIN lsb' = DOMAIN lsb \cup fresh /\ DOMAIN hash' = DOMAIN hash \cup {qs[i] : i \in new}
  BY <1>1
<1>5. IsFiniteSet(DOMAIN lsb')
  BY <1>3, <1>4, FS_Union, Zenon
<1>6. Grows(hash, hash') /\ Grows(lsb, lsb')
  BY <1>1 DEF Grows
<1>7. \A i \in DOMAIN qs : qs[i] \in DOMAIN hash'
  BY <1>4
<1>8. ASSUME NEW q \in DOMAIN hash' PROVE hash'[q] \in DOMAIN lsb'
  <2>1. CASE q \in DOMAIN hash
    BY <1>1, <1>4, <2>1
  <2>2. CASE q \notin DOMAIN hash
    <3>1. q \in {qs[i] : i \in new} /\ hash'[q] = base + pick(q)
      BY <1>1, <1>4, <2>2
    <3>2. base + pick(q) \in fresh
      BY <1>2, <3>1
    <3> QED BY <1>4, <3>1, <3>2
  <2> QED BY <2>1, <2>2
<1> QED BY <1>5, <1>6, <1>7, <1>8

\* The low bit of a block of known atoms is fixed.
LEMMA LowKept ==
    ASSUME NEW low, NEW low2, Grows(low, low2), NEW x, x \subseteq DOMAIN low
    PROVE  GetLSB(low2, x) = GetLSB(low, x)
<1>1. {i \in x : low2[i] = 1} = {i \in x : low[i] = 1}
  BY DEF Grows
<1> QED BY <1>1 DEF GetLSB

\* So is setting it on a known atom.
LEMMA WithLSBKept ==
    ASSUME NEW low, NEW low2, Grows(low, low2), NEW i \in DOMAIN low, NEW b
    PROVE  WithLSB(low2, {i}, b) = WithLSB(low, {i}, b)
<1>1. GetLSB(low2, {i}) = GetLSB(low, {i})
  BY LowKept
<1> QED BY <1>1 DEF WithLSB

(***************************************************************************)
(* Counting gates                                                          *)
(***************************************************************************)
\* The AND gates of gs from e + 1 to k.
AndGates(gs, e, k) == {i \in e + 1 .. k : gs[i].op = "and"}
Ands(gs, e, k) == Cardinality(AndGates(gs, e, k))

\* They are finitely many, and more gates have no fewer.
LEMMA AndsGrow ==
    ASSUME NEW gs, NEW e \in Nat, NEW k \in Nat, NEW i \in 0 .. k
    PROVE  /\ IsFiniteSet(AndGates(gs, e, k)) /\ Ands(gs, e, k) \in Nat
           /\ Ands(gs, e, i) \in Nat /\ Ands(gs, e, i) <= Ands(gs, e, k)
<1>1. IsFiniteSet(e + 1 .. k)
  BY FS_Interval
<1>2. IsFiniteSet(AndGates(gs, e, k))
  BY <1>1, FS_Subset DEF AndGates
<1>3. AndGates(gs, e, i) \subseteq AndGates(gs, e, k)
  BY DEF AndGates
<1>4. IsFiniteSet(AndGates(gs, e, i)) /\ Cardinality(AndGates(gs, e, i)) <= Cardinality(AndGates(gs, e, k))
  BY <1>2, <1>3, FS_Subset
<1> QED BY <1>2, <1>4, FS_CardinalityType DEF Ands

\* One gate more at the end.
LEMMA AndsNext ==
    ASSUME NEW gs, NEW e \in Nat, NEW k \in Nat, e <= k
    PROVE  Ands(gs, e, k + 1) = IF gs[k + 1].op = "and" THEN Ands(gs, e, k) + 1 ELSE Ands(gs, e, k)
<1>1. IsFiniteSet(AndGates(gs, e, k))
  <2>1. k \in 0 .. k /\ e + 1 \in Nat
    OBVIOUS
  <2> QED BY <2>1, AndsGrow, ZenonT(20)
<1>2. AndGates(gs, e, k + 1) = IF gs[k + 1].op = "and" THEN AndGates(gs, e, k) \cup {k + 1} ELSE AndGates(gs, e, k)
  BY DEF AndGates
<1>3. k + 1 \notin AndGates(gs, e, k)
  BY DEF AndGates
<1> QED BY <1>1, <1>2, <1>3, FS_AddElement DEF Ands

\* One gate less at the front.
LEMMA AndsRest ==
    ASSUME NEW gs, NEW e \in Nat, NEW k \in Nat, e < k
    PROVE  Ands(gs, e, k) = IF gs[e + 1].op = "and" THEN Ands(gs, e + 1, k) + 1 ELSE Ands(gs, e + 1, k)
<1>1. IsFiniteSet(AndGates(gs, e + 1, k))
  <2>1. k \in 0 .. k /\ e + 1 \in Nat
    OBVIOUS
  <2> QED BY <2>1, AndsGrow, ZenonT(20)
<1>2. AndGates(gs, e, k) = IF gs[e + 1].op = "and" THEN AndGates(gs, e + 1, k) \cup {e + 1} ELSE AndGates(gs, e + 1, k)
  BY DEF AndGates
<1>3. e + 1 \notin AndGates(gs, e + 1, k)
  BY DEF AndGates
<1> QED BY <1>1, <1>2, <1>3, FS_AddElement DEF Ands

\* Only the gates counted matter.
LEMMA AndsSame ==
    ASSUME NEW gs, NEW hs, NEW e, NEW k, \A i \in e + 1 .. k : gs[i] = hs[i]
    PROVE  Ands(gs, e, k) = Ands(hs, e, k)
<1>1. AndGates(gs, e, k) = AndGates(hs, e, k)
  BY DEF AndGates
<1> QED BY <1>1 DEF Ands

(***************************************************************************)
(* The invariant                                                           *)
(***************************************************************************)
\* What garbling an AND of wires with zero labels x and y makes: half gates at gid g,
\* from hashes h and low bits low, ...
HalfQueries(x, y, g) ==
    {GidQuery(x, g), GidQuery(Xor(x, Delta), g), GidQuery(y, g + 1), GidQuery(Xor(y, Delta), g + 1)}
HalfT0(h, low, x, y, g) ==
    Xor3({h[GidQuery(x, g)]}, {h[GidQuery(Xor(x, Delta), g)]}, Masked(GetLSB(low, y), Delta))
HalfTmp(h, y, g) == Xor({h[GidQuery(y, g + 1)]}, {h[GidQuery(Xor(y, Delta), g + 1)]})
HalfZero(h, low, x, y, g) ==
    Xor3(Xor({h[GidQuery(x, g)]}, Masked(GetLSB(low, x), HalfT0(h, low, x, y, g))),
         {h[GidQuery(y, g + 1)]}, Masked(GetLSB(low, y), HalfTmp(h, y, g)))
HalfTable(h, low, x, y, g) == <<HalfT0(h, low, x, y, g), Xor(HalfTmp(h, y, g), x)>>

\* ... and privacy-free gates at index i.
FreeQueries(x, i) == {PrivacyFreeQuery(x, i), PrivacyFreeQuery(Xor(x, Delta), i)}
FreeZero(h, low, x, i) == WithLSB(low, {h[PrivacyFreeQuery(x, i)]}, 0)
FreeOne(h, low, x, i) == WithLSB(low, {h[PrivacyFreeQuery(Xor(x, Delta), i)]}, 1)
FreeTable(h, low, x, y, i) == <<Xor3(FreeZero(h, low, x, i), FreeOne(h, low, x, i), y)>>

\* Either, by the scheme.
AndQueries(s, x, y, g, i) == IF s = "half" THEN HalfQueries(x, y, g) ELSE FreeQueries(x, i)
AndZero(s, h, low, x, y, g, i) == IF s = "half" THEN HalfZero(h, low, x, y, g) ELSE FreeZero(h, low, x, i)
AndTable(s, h, low, x, y, g, i) ==
    IF s = "half" THEN HalfTable(h, low, x, y, g) ELSE FreeTable(h, low, x, y, i)

Blocks == SUBSET DOMAIN lsb

GarbleTypes ==
    /\ scheme \in {"half", "free"}
    /\ gates \in Seq([op : {"and", "xor", "not"}, a : Nat, b : Nat])
    /\ zero \in Seq(Blocks) /\ active \in Seq(Blocks) /\ value \in Seq(Bits)
    /\ tables \in Seq(Seq(Blocks))
    /\ Len(zero) = Inputs + Len(gates) /\ Len(value) = Len(zero)
    /\ Reached \in 0 .. Len(gates)
    /\ IsFiniteSet(DOMAIN lsb) /\ {0, -1} \subseteq DOMAIN lsb /\ lsb[0] = 1 /\ lsb[-1] = 1
    /\ \A q \in DOMAIN hash : hash[q] \in DOMAIN lsb

\* Every gate's label and bit are those of its kind, and the table of an AND gate is
\* where the evaluator will look for it.
GateOK(i) ==
    LET g == gates[i]
        w == Inputs + i
        x == zero[g.a]
        y == zero[g.b]
        gid == 2 * Ands(gates, 0, i - 1)
    IN  /\ g.a \in 1 .. w - 1 /\ g.b \in 1 .. w - 1
        /\ g.op = "xor" => zero[w] = Xor(x, y) /\ value[w] = (value[g.a] + value[g.b]) % 2
        /\ g.op = "not" => scheme = "half" /\ zero[w] = Xor(x, Delta) /\ value[w] = 1 - value[g.a]
        /\ g.op = "and" =>
               /\ value[w] = value[g.a] * value[g.b]
               /\ AndQueries(scheme, x, y, gid, i) \subseteq DOMAIN hash
               /\ zero[w] = AndZero(scheme, hash, lsb, x, y, gid, i)
               /\ i > Reached =>
                      tables[Ands(gates, Reached, i)] = AndTable(scheme, hash, lsb, x, y, gid, i)

GarbleInv ==
    /\ GarbleTypes
    /\ \A i \in 1 .. Len(gates) : GateOK(i)
    /\ Len(tables) = Ands(gates, Reached, Len(gates))
    /\ scheme = "half" => /\ Served(GarblerBatch, gm, Ands(gates, 0, Len(gates)))
                          /\ Served(EvaluatorBatch, em, Ands(gates, 0, Reached))
    /\ scheme = "free" => \A w \in 1 .. Len(zero) : GetLSB(lsb, zero[w]) = 0
    /\ LabelsMatch

\* XOR makes no new atoms.
LEMMA XorClosed == \A D : \A x, y \in SUBSET D : Xor(x, y) \in SUBSET D
  BY DEF Xor
\* Nor does an XOR of three, ...
LEMMA Xor3Closed == \A D : \A x, y, z \in SUBSET D : Xor3(x, y, z) \in SUBSET D
  BY DEF Xor, Xor3
\* ... nor masking.
LEMMA MaskedClosed == \A D, b : \A x \in SUBSET D : Masked(b, x) \in SUBSET D
  BY DEF Masked

\* What garbling makes is made of known atoms.
LEMMA MadeTyped ==
    ASSUME NEW h, NEW low, NEW s, NEW g, NEW i, NEW x \in SUBSET DOMAIN low, NEW y \in SUBSET DOMAIN low,
           {0, -1} \subseteq DOMAIN low, low[-1] = 1, \A q \in DOMAIN h : h[q] \in DOMAIN low,
           AndQueries(s, x, y, g, i) \subseteq DOMAIN h
    PROVE  /\ AndZero(s, h, low, x, y, g, i) \in SUBSET DOMAIN low
           /\ AndTable(s, h, low, x, y, g, i) \in Seq(SUBSET DOMAIN low)
<1> DEFINE D == DOMAIN low
<1>1. CASE s = "half"
  <2>1. GidQuery(x, g) \in DOMAIN h /\ GidQuery(Xor(x, Delta), g) \in DOMAIN h
        /\ GidQuery(y, g + 1) \in DOMAIN h /\ GidQuery(Xor(y, Delta), g + 1) \in DOMAIN h
    BY <1>1 DEF AndQueries, HalfQueries
  <2>2. /\ {h[GidQuery(x, g)]} \in SUBSET D /\ {h[GidQuery(Xor(x, Delta), g)]} \in SUBSET D
        /\ {h[GidQuery(y, g + 1)]} \in SUBSET D /\ {h[GidQuery(Xor(y, Delta), g + 1)]} \in SUBSET D
        /\ Delta \in SUBSET D
    BY <2>1 DEF Delta
  <2> HIDE DEF D
  <2>3. HalfT0(h, low, x, y, g) \in SUBSET D
    <3>1. Masked(GetLSB(low, y), Delta) \in SUBSET D
      BY <2>2, MaskedClosed
    <3> QED BY <2>2, <3>1, Xor3Closed DEF HalfT0
  <2>4. HalfTmp(h, y, g) \in SUBSET D
    BY <2>2, XorClosed DEF HalfTmp
  <2>5. HalfZero(h, low, x, y, g) \in SUBSET D
    <3>1. Xor({h[GidQuery(x, g)]}, Masked(GetLSB(low, x), HalfT0(h, low, x, y, g))) \in SUBSET D
      <4>1. Masked(GetLSB(low, x), HalfT0(h, low, x, y, g)) \in SUBSET D
        BY <2>3, MaskedClosed
      <4> QED BY <2>2, <4>1, XorClosed
    <3>2. Masked(GetLSB(low, y), HalfTmp(h, y, g)) \in SUBSET D
      BY <2>4, MaskedClosed
    <3>3. PICK u, v, z : /\ u = Xor({h[GidQuery(x, g)]}, Masked(GetLSB(low, x), HalfT0(h, low, x, y, g)))
                         /\ v = {h[GidQuery(y, g + 1)]} /\ z = Masked(GetLSB(low, y), HalfTmp(h, y, g))
      BY Zenon
    <3>4. u \in SUBSET D /\ v \in SUBSET D /\ z \in SUBSET D
      BY <2>2, <3>1, <3>2, <3>3
    <3>5. Xor3(u, v, z) \in SUBSET D
      BY <3>4, Xor3Closed
    <3> QED BY <3>3, <3>5, Zenon DEF HalfZero
  <2>6. Xor(HalfTmp(h, y, g), x) \in SUBSET D
    <3>1. x \in SUBSET D
      BY DEF D
    <3> QED BY <2>4, <3>1, XorClosed
  <2>7. HalfTable(h, low, x, y, g) \in Seq(SUBSET D)
    BY <2>3, <2>6 DEF HalfTable
  <2> QED BY <1>1, <2>5, <2>7 DEF AndZero, AndTable, D
<1>2. CASE s # "half"
  <2>1. PrivacyFreeQuery(x, i) \in DOMAIN h /\ PrivacyFreeQuery(Xor(x, Delta), i) \in DOMAIN h
    BY <1>2 DEF AndQueries, FreeQueries
  <2>2. h[PrivacyFreeQuery(x, i)] \in D /\ h[PrivacyFreeQuery(Xor(x, Delta), i)] \in D /\ -1 \in D
    BY <2>1
  <2>3. FreeZero(h, low, x, i) \in SUBSET D
    <3>1. PICK z : z = {h[PrivacyFreeQuery(x, i)]}
      BY Zenon
    <3>2. IsFiniteSet(z) /\ 0 \in Bits
      BY <3>1, FS_Singleton, ZenonT(20) DEF Bits
    <3>3. WithLSB(low, z, 0) \subseteq z \cup LowBit
      BY <3>2, LowOfWithLSB
    <3> HIDE DEF D
    <3>4. z \cup LowBit \subseteq D
      BY <2>2, <3>1 DEF LowBit
    <3> QED BY <3>1, <3>3, <3>4 DEF FreeZero
  <2>4. FreeOne(h, low, x, i) \in SUBSET D
    <3>1. PICK z : z = {h[PrivacyFreeQuery(Xor(x, Delta), i)]}
      BY Zenon
    <3>2. IsFiniteSet(z) /\ 1 \in Bits
      BY <3>1, FS_Singleton, ZenonT(20) DEF Bits
    <3>3. WithLSB(low, z, 1) \subseteq z \cup LowBit
      BY <3>2, LowOfWithLSB
    <3> HIDE DEF D
    <3>4. z \cup LowBit \subseteq D
      BY <2>2, <3>1 DEF LowBit
    <3> QED BY <3>1, <3>3, <3>4 DEF FreeOne
  <2>5. Xor3(FreeZero(h, low, x, i), FreeOne(h, low, x, i), y) \in SUBSET D
    BY <2>3, <2>4, Xor3Closed
  <2> HIDE DEF D
  <2>6. FreeTable(h, low, x, y, i) \in Seq(SUBSET D)
    BY <2>5 DEF FreeTable
  <2> QED BY <1>2, <2>3, <2>6 DEF AndZero, AndTable, D
<1> QED BY <1>1, <1>2

\* It stays the same while hashes and low bits are added.
LEMMA MadeKept ==
    ASSUME NEW h, NEW low, NEW h2, NEW low2, Grows(h, h2), Grows(low, low2),
           NEW s, NEW g, NEW i, NEW x \in SUBSET DOMAIN low, NEW y \in SUBSET DOMAIN low,
           \A q \in DOMAIN h : h[q] \in DOMAIN low, AndQueries(s, x, y, g, i) \subseteq DOMAIN h
    PROVE  /\ AndQueries(s, x, y, g, i) \subseteq DOMAIN h2
           /\ AndZero(s, h2, low2, x, y, g, i) = AndZero(s, h, low, x, y, g, i)
           /\ AndTable(s, h2, low2, x, y, g, i) = AndTable(s, h, low, x, y, g, i)
<1>1. AndQueries(s, x, y, g, i) \subseteq DOMAIN h2
  BY DEF Grows
<1>2. GetLSB(low2, x) = GetLSB(low, x) /\ GetLSB(low2, y) = GetLSB(low, y)
  BY LowKept
<1>3. \A q \in AndQueries(s, x, y, g, i) : h2[q] = h[q] /\ h[q] \in DOMAIN low
  BY DEF Grows
<1>4. CASE s = "half"
  <2>1. /\ h2[GidQuery(x, g)] = h[GidQuery(x, g)]
        /\ h2[GidQuery(Xor(x, Delta), g)] = h[GidQuery(Xor(x, Delta), g)]
        /\ h2[GidQuery(y, g + 1)] = h[GidQuery(y, g + 1)]
        /\ h2[GidQuery(Xor(y, Delta), g + 1)] = h[GidQuery(Xor(y, Delta), g + 1)]
    BY <1>3, <1>4 DEF AndQueries, HalfQueries
  <2>2. HalfT0(h2, low2, x, y, g) = HalfT0(h, low, x, y, g) /\ HalfTmp(h2, y, g) = HalfTmp(h, y, g)
    BY <1>2, <2>1, Zenon DEF HalfT0, HalfTmp
  <2>3. HalfZero(h2, low2, x, y, g) = HalfZero(h, low, x, y, g)
    BY <1>2, <2>1, <2>2, Zenon DEF HalfZero
  <2> QED BY <1>1, <1>4, <2>2, <2>3, Zenon DEF AndZero, AndTable, HalfTable
<1>5. CASE s # "half"
  <2>1. /\ h2[PrivacyFreeQuery(x, i)] = h[PrivacyFreeQuery(x, i)]
        /\ h2[PrivacyFreeQuery(Xor(x, Delta), i)] = h[PrivacyFreeQuery(Xor(x, Delta), i)]
        /\ h[PrivacyFreeQuery(x, i)] \in DOMAIN low /\ h[PrivacyFreeQuery(Xor(x, Delta), i)] \in DOMAIN low
    BY <1>3, <1>5 DEF AndQueries, FreeQueries
  <2>2. FreeZero(h2, low2, x, i) = FreeZero(h, low, x, i) /\ FreeOne(h2, low2, x, i) = FreeOne(h, low, x, i)
    BY <2>1, WithLSBKept DEF FreeZero, FreeOne
  <2> QED BY <1>1, <1>5, <2>2, Zenon DEF AndZero, AndTable, FreeTable
<1> QED BY <1>4, <1>5

\* The gates garbled before stay as they were, and their tables are where they were
\* counted from the evaluator's place.
LEMMA GateKept ==
    ASSUME GarbleTypes, NEW i \in 1 .. Len(gates), GateOK(i), Grows(hash, hash'), Grows(lsb, lsb'),
           scheme' = scheme, \A j \in 1 .. Len(gates) : gates'[j] = gates[j],
           \A w \in 1 .. Len(zero) : zero'[w] = zero[w] /\ value'[w] = value[w],
           gates[i].op = "and" /\ i > Reached' =>
               /\ i > Reached
               /\ tables'[Ands(gates', Reached', i)] = tables[Ands(gates, Reached, i)]
    PROVE  GateOK(i)'
<1> DEFINE g == gates[i]
           w == Inputs + i
           x == zero[g.a]
           y == zero[g.b]
           gid == 2 * Ands(gates, 0, i - 1)
<1>1. /\ g.a \in 1 .. w - 1 /\ g.b \in 1 .. w - 1
      /\ g.op = "xor" => zero[w] = Xor(x, y) /\ value[w] = (value[g.a] + value[g.b]) % 2
      /\ g.op = "not" => scheme = "half" /\ zero[w] = Xor(x, Delta) /\ value[w] = 1 - value[g.a]
      /\ g.op = "and" =>
             /\ value[w] = value[g.a] * value[g.b]
             /\ AndQueries(scheme, x, y, gid, i) \subseteq DOMAIN hash
             /\ zero[w] = AndZero(scheme, hash, lsb, x, y, gid, i)
             /\ i > Reached => tables[Ands(gates, Reached, i)] = AndTable(scheme, hash, lsb, x, y, gid, i)
  BY Zenon DEF GateOK
<1>2. Len(zero) = Inputs + Len(gates) /\ Len(gates) \in Nat /\ Inputs \in Nat
  BY GarblingAssumption DEF GarbleTypes
<1>3. w \in 1 .. Len(zero) /\ g.a \in 1 .. Len(zero) /\ g.b \in 1 .. Len(zero)
  BY <1>1, <1>2
<1>4. x \in SUBSET DOMAIN lsb /\ y \in SUBSET DOMAIN lsb /\ \A q \in DOMAIN hash : hash[q] \in DOMAIN lsb
  <2>1. zero \in Seq(SUBSET DOMAIN lsb) /\ \A q \in DOMAIN hash : hash[q] \in DOMAIN lsb
    BY Zenon DEF GarbleTypes, Blocks
  <2>2. \A k \in 1 .. Len(zero) : zero[k] \in SUBSET DOMAIN lsb
    BY <2>1
  <2> QED BY <1>3, <2>1, <2>2, Zenon
<1>5. gates'[i] = g /\ zero'[g.a] = x /\ zero'[g.b] = y /\ zero'[w] = zero[w]
      /\ value'[w] = value[w] /\ value'[g.a] = value[g.a] /\ value'[g.b] = value[g.b]
  BY <1>3
<1>6. Ands(gates', 0, i - 1) = Ands(gates, 0, i - 1)
  <2>1. \A j \in 0 + 1 .. i - 1 : gates'[j] = gates[j]
    BY <1>2
  <2> QED BY <2>1, AndsSame
<1> HIDE DEF g, w, x, y
<1>7. g.op = "and" =>
          /\ AndQueries(scheme, x, y, gid, i) \subseteq DOMAIN hash'
          /\ AndZero(scheme, hash', lsb', x, y, gid, i) = AndZero(scheme, hash, lsb, x, y, gid, i)
          /\ AndTable(scheme, hash', lsb', x, y, gid, i) = AndTable(scheme, hash, lsb, x, y, gid, i)
  <2> HIDE DEF gid
  <2>1. ASSUME g.op = "and" PROVE AndQueries(scheme, x, y, gid, i) \subseteq DOMAIN hash
    BY <1>1, <2>1, Zenon
  <2> QED BY <1>4, <2>1, MadeKept
<1>8. /\ g.a \in 1 .. w - 1 /\ g.b \in 1 .. w - 1
      /\ g.op = "xor" => zero'[w] = Xor(x, y) /\ value'[w] = (value'[g.a] + value'[g.b]) % 2
      /\ g.op = "not" => scheme' = "half" /\ zero'[w] = Xor(x, Delta) /\ value'[w] = 1 - value'[g.a]
      /\ g.op = "and" =>
             /\ value'[w] = value'[g.a] * value'[g.b]
             /\ AndQueries(scheme', x, y, gid, i) \subseteq DOMAIN hash'
             /\ zero'[w] = AndZero(scheme', hash', lsb', x, y, gid, i)
             /\ i > Reached' =>
                    tables'[Ands(gates', Reached', i)] = AndTable(scheme', hash', lsb', x, y, gid, i)
  <2>1. g.op = "and" /\ i > Reached' =>
            /\ i > Reached
            /\ tables'[Ands(gates', Reached', i)] = tables[Ands(gates, Reached, i)]
    BY DEF g
  <2> HIDE DEF gid
  <2> QED BY <1>1, <1>5, <1>7, <2>1, Zenon
<1> QED BY <1>5, <1>6, <1>8, Zenon DEF GateOK, w

\* Blocks stay blocks while atoms are added.
LEMMA BlocksGrow ==
    ASSUME NEW D, NEW E, D \subseteq E
    PROVE  /\ \A s \in Seq(SUBSET D) : s \in Seq(SUBSET E)
           /\ \A s \in Seq(Seq(SUBSET D)) : s \in Seq(Seq(SUBSET E))
<1>1. \A s \in Seq(SUBSET D) : s \in Seq(SUBSET E)
  OBVIOUS
<1>2. \A s \in Seq(Seq(SUBSET D)) : s \in Seq(Seq(SUBSET E))
  BY <1>1
<1> QED BY <1>1, <1>2

GateType == [op : {"and", "xor", "not"}, a : Nat, b : Nat]

\* The AND gates so far are a number.
LEMMA AndsSoFar ==
    ASSUME GarbleTypes
    PROVE  Ands(gates, 0, Len(gates)) \in Nat /\ Ands(gates, 0, Reached) \in Nat /\ Len(gates) \in Nat
           /\ Reached \in Nat /\ Reached <= Len(gates)
<1>1. gates \in Seq(GateType) /\ Reached \in 0 .. Len(gates)
  BY Zenon DEF GarbleTypes, GateType
<1>2. Len(gates) \in Nat
  BY <1>1
<1>3. Reached \in Nat /\ Reached <= Len(gates) /\ 0 \in Nat
  BY <1>1, <1>2
<1>4. \A k \in Nat : Ands(gates, 0, k) \in Nat
  <2>1. ASSUME NEW k \in Nat PROVE Ands(gates, 0, k) \in Nat
    <3>1. k \in 0 .. k
      OBVIOUS
    <3> QED BY <1>3, <3>1, AndsGrow
  <2> QED BY <2>1
<1> QED BY <1>2, <1>3, <1>4

\* What the garbler adds: the label, table and bit of gate g.
MadeGate(g, label, table, bit) ==
    LET x == zero[g.a]
        y == zero[g.b]
        gid == 2 * Ands(gates, 0, Len(gates))
        i == Len(gates) + 1
    IN  /\ g.op = "xor" => label = Xor(x, y) /\ bit = (value[g.a] + value[g.b]) % 2 /\ table = <<>>
        /\ g.op = "not" => scheme = "half" /\ label = Xor(x, Delta) /\ bit = 1 - value[g.a] /\ table = <<>>
        /\ g.op = "and" => /\ bit = value[g.a] * value[g.b]
                           /\ AndQueries(scheme, x, y, gid, i) \subseteq DOMAIN hash'
                           /\ label = AndZero(scheme, hash', lsb', x, y, gid, i)
                           /\ table = <<AndTable(scheme, hash', lsb', x, y, gid, i)>>

\* A gate over wires there are, ...
NewGate(g) == g \in GateType /\ g.a \in 1 .. Len(zero) /\ g.b \in 1 .. Len(zero)
\* ... after which the object has served the AND gates so far, and labels of 0 have
\* low bit 0 where the scheme needs it.
InOrder(g, label) ==
    /\ scheme = "half" => Served(GarblerBatch, gm', IF g.op = "and" THEN Ands(gates, 0, Len(gates)) + 1
                                                                   ELSE Ands(gates, 0, Len(gates)))
    /\ scheme = "free" => GetLSB(lsb', label) = 0

\* A gate more at the garbler keeps the invariant.
LEMMA GarbledOK ==
    ASSUME GarbleInv, NEW g, NEW label, NEW table, NEW bit, Garbled(g, label, table, bit), NewGate(g),
           MadeGate(g, label, table, bit), HashesKept, InOrder(g, label)
    PROVE  GarbleInv'
<1> DEFINE n == Len(gates)
           e == Reached
<1>1. /\ GarbleTypes /\ (\A i \in 1 .. n : GateOK(i)) /\ Len(tables) = Ands(gates, e, n)
      /\ scheme = "half" => Served(EvaluatorBatch, em, Ands(gates, 0, e))
      /\ scheme = "free" => \A w \in 1 .. Len(zero) : GetLSB(lsb, zero[w]) = 0
      /\ LabelsMatch
  BY Zenon DEF GarbleInv
<1>0. /\ g \in GateType /\ g.op \in {"and", "xor", "not"} /\ g.a \in 1 .. Len(zero) /\ g.b \in 1 .. Len(zero)
  BY DEF NewGate, GateType
<1>2. /\ gates' = Append(gates, g) /\ zero' = Append(zero, label) /\ tables' = tables \o table
      /\ value' = Append(value, bit) /\ scheme' = scheme /\ active' = active /\ em' = em
  BY Zenon DEF Garbled
<1>3. /\ gates \in Seq(GateType) /\ n \in Nat /\ Inputs \in Nat /\ Len(zero) = Inputs + n /\ Len(value) = Len(zero)
      /\ e \in 0 .. n /\ e \in Nat /\ e <= n /\ scheme \in {"half", "free"}
      /\ zero \in Seq(Blocks) /\ value \in Seq(Bits) /\ active \in Seq(Blocks) /\ tables \in Seq(Seq(Blocks))
  <2>1. /\ gates \in Seq(GateType) /\ Len(zero) = Inputs + n /\ Len(value) = Len(zero)
        /\ e \in 0 .. n /\ scheme \in {"half", "free"}
        /\ zero \in Seq(Blocks) /\ value \in Seq(Bits) /\ active \in Seq(Blocks) /\ tables \in Seq(Seq(Blocks))
    BY <1>1, Zenon DEF GarbleTypes, GateType
  <2>2. n \in Nat /\ e \in Nat /\ e <= n /\ Inputs \in Nat
    BY <1>1, AndsSoFar, BatchesEven
  <2> QED BY <2>1, <2>2, Zenon
<1>3a. n \in Nat /\ Inputs \in Nat /\ e \in Nat /\ e <= n /\ Len(zero) = Inputs + n
  BY <1>3, Zenon
<1>4. /\ DOMAIN lsb \subseteq DOMAIN lsb' /\ {0, -1} \subseteq DOMAIN lsb' /\ lsb'[0] = 1 /\ lsb'[-1] = 1
      /\ Delta \in SUBSET DOMAIN lsb'
  <2>1. /\ Grows(lsb, lsb') /\ {0, -1} \subseteq DOMAIN lsb /\ lsb[0] = 1 /\ lsb[-1] = 1
    BY <1>1, Zenon DEF GarbleTypes, HashesKept
  <2> QED BY <2>1 DEF Grows, Delta
<1>5. /\ zero[g.a] \in SUBSET DOMAIN lsb' /\ zero[g.b] \in SUBSET DOMAIN lsb'
      /\ value[g.a] \in Bits /\ value[g.b] \in Bits
  <2>1. g.a \in 1 .. Len(value) /\ g.b \in 1 .. Len(value)
    BY <1>0, <1>3, Zenon
  <2>2. zero[g.a] \in Blocks /\ zero[g.b] \in Blocks
    BY <1>0, <1>3
  <2>3. value[g.a] \in Bits /\ value[g.b] \in Bits
    BY <1>3, <2>1
  <2> QED BY <1>4, <2>2, <2>3 DEF Blocks
<1>6. label \in SUBSET DOMAIN lsb' /\ table \in Seq(Seq(SUBSET DOMAIN lsb')) /\ bit \in Bits
      /\ Len(table) = IF g.op = "and" THEN 1 ELSE 0
  <2>1. CASE g.op = "xor"
    <3>1. label = Xor(zero[g.a], zero[g.b]) /\ bit = (value[g.a] + value[g.b]) % 2 /\ table = <<>>
      BY <2>1, Zenon DEF MadeGate
    <3>2. label \in SUBSET DOMAIN lsb'
      BY <1>5, <3>1, XorClosed
    <3>3. bit \in Bits
      BY <1>5, <3>1 DEF Bits
    <3> QED BY <2>1, <3>1, <3>2, <3>3
  <2>2. CASE g.op = "not"
    <3>1. label = Xor(zero[g.a], Delta) /\ bit = 1 - value[g.a] /\ table = <<>>
      BY <2>2, Zenon DEF MadeGate
    <3>2. label \in SUBSET DOMAIN lsb'
      BY <1>4, <1>5, <3>1, XorClosed
    <3>3. bit \in Bits
      BY <1>5, <3>1 DEF Bits
    <3> QED BY <2>2, <3>1, <3>2, <3>3
  <2>3. CASE g.op = "and"
    <3> DEFINE gid == 2 * Ands(gates, 0, n)
    <3>1. /\ bit = value[g.a] * value[g.b] /\ AndQueries(scheme, zero[g.a], zero[g.b], gid, n + 1) \subseteq DOMAIN hash'
          /\ label = AndZero(scheme, hash', lsb', zero[g.a], zero[g.b], gid, n + 1)
          /\ table = <<AndTable(scheme, hash', lsb', zero[g.a], zero[g.b], gid, n + 1)>>
      BY <2>3, Zenon DEF MadeGate
    <3> HIDE DEF gid
    <3>2. /\ label \in SUBSET DOMAIN lsb'
          /\ AndTable(scheme, hash', lsb', zero[g.a], zero[g.b], gid, n + 1) \in Seq(SUBSET DOMAIN lsb')
      <4>1. \A q \in DOMAIN hash' : hash'[q] \in DOMAIN lsb'
        BY Zenon DEF HashesKept
      <4> QED BY <1>4, <1>5, <3>1, <4>1, MadeTyped
    <3>3. bit \in Bits
      BY <1>5, <3>1 DEF Bits
    <3> QED BY <2>3, <3>1, <3>2, <3>3
  <2> QED BY <1>0, <2>1, <2>2, <2>3
<1>7. /\ gates' \in Seq(GateType) /\ Len(gates') = n + 1 /\ gates'[n + 1] = g
      /\ \A i \in 1 .. n : gates'[i] = gates[i]
  <2>1. gates \in Seq(GateType)
    BY <1>3, Zenon
  <2>2. /\ Append(gates, g) \in Seq(GateType) /\ Len(Append(gates, g)) = n + 1 /\ Append(gates, g)[n + 1] = g
        /\ \A i \in 1 .. n : Append(gates, g)[i] = gates[i]
    BY <1>0, <2>1, AppendFacts
  <2> QED BY <1>2, <2>2, Zenon
<1>8. /\ zero' \in Seq(SUBSET DOMAIN lsb') /\ Len(zero') = Inputs + (n + 1) /\ zero'[Inputs + (n + 1)] = label
      /\ \A w \in 1 .. Len(zero) : zero'[w] = zero[w]
  <2>1. zero \in Seq(SUBSET DOMAIN lsb')
    BY <1>3, <1>4, BlocksGrow DEF Blocks
  <2>2. zero' \in Seq(SUBSET DOMAIN lsb') /\ Len(zero') = Len(zero) + 1 /\ zero'[Len(zero) + 1] = label
        /\ \A w \in 1 .. Len(zero) : zero'[w] = zero[w]
    BY <1>2, <1>6, <2>1, AppendFacts
  <2>3. Len(zero) + 1 = Inputs + (n + 1)
    BY <1>3a
  <2> QED BY <2>2, <2>3, Zenon
<1>9. /\ value' \in Seq(Bits) /\ Len(value') = Len(zero') /\ value'[Inputs + (n + 1)] = bit
      /\ \A w \in 1 .. Len(zero) : value'[w] = value[w]
  <2>1. value' \in Seq(Bits) /\ Len(value') = Len(value) + 1 /\ value'[Len(value) + 1] = bit
        /\ \A w \in 1 .. Len(value) : value'[w] = value[w]
    BY <1>2, <1>3, <1>6, AppendFacts
  <2>2. Len(value) + 1 = Inputs + (n + 1) /\ Len(value) = Len(zero)
    BY <1>3
  <2> QED BY <1>8, <2>1, <2>2, Zenon
<1>10. Reached' = e
  BY <1>2 DEF Reached
<1>11. /\ tables' \in Seq(Seq(SUBSET DOMAIN lsb')) /\ Len(tables') = Len(tables) + Len(table)
       /\ \A k \in 1 .. Len(tables) : tables'[k] = tables[k]
       /\ g.op = "and" => tables'[Len(tables) + 1] = table[1]
  <2>1. tables \in Seq(Seq(SUBSET DOMAIN lsb'))
    BY <1>3, <1>4, BlocksGrow DEF Blocks
  <2>2. Len(tables) \in Nat
    BY <1>3
  <2>3. tables' = tables \o table /\ table \in Seq(Seq(SUBSET DOMAIN lsb')) /\ Len(table) \in Nat
    BY <1>2, <1>6
  <2>4. /\ tables' \in Seq(Seq(SUBSET DOMAIN lsb')) /\ Len(tables') = Len(tables) + Len(table)
        /\ \A k \in 1 .. Len(tables) + Len(table) :
               tables'[k] = IF k <= Len(tables) THEN tables[k] ELSE table[k - Len(tables)]
    BY <2>1, <2>3, ConcatFacts
  <2>5. \A k \in 1 .. Len(tables) : tables'[k] = tables[k]
    BY <2>2, <2>3, <2>4
  <2>6. g.op = "and" => tables'[Len(tables) + 1] = table[1]
    BY <1>6, <2>2, <2>4
  <2> QED BY <2>4, <2>5, <2>6
<1>12. GarbleTypes'
  <2>1. active' \in Seq(SUBSET DOMAIN lsb')
    BY <1>2, <1>3, <1>4, BlocksGrow DEF Blocks
  <2>2. e \in 0 .. n + 1
    BY <1>3
  <2> QED BY <1>2, <1>3, <1>4, <1>7, <1>8, <1>9, <1>10, <1>11, <2>1, <2>2, Zenon DEF GarbleTypes, Blocks, GateType, HashesKept
<1>13. /\ \A i \in 0 .. n : Ands(gates', e, i) = Ands(gates, e, i) /\ Ands(gates', 0, i) = Ands(gates, 0, i)
       /\ Ands(gates', e, n + 1) = IF g.op = "and" THEN Ands(gates, e, n) + 1 ELSE Ands(gates, e, n)
       /\ Ands(gates', 0, n + 1) = IF g.op = "and" THEN Ands(gates, 0, n) + 1 ELSE Ands(gates, 0, n)
  <2>1. ASSUME NEW i \in 0 .. n PROVE Ands(gates', e, i) = Ands(gates, e, i) /\ Ands(gates', 0, i) = Ands(gates, 0, i)
    <3>1. \A j \in e + 1 .. i : j \in 1 .. n
      BY <1>3a
    <3>2. \A j \in 0 + 1 .. i : j \in 1 .. n
      BY <1>3a
    <3>3. (\A j \in e + 1 .. i : gates'[j] = gates[j]) /\ (\A j \in 0 + 1 .. i : gates'[j] = gates[j])
      BY <1>7, <3>1, <3>2, Zenon
    <3> QED BY <3>3, AndsSame
  <2>2. Ands(gates', e, n + 1) = IF g.op = "and" THEN Ands(gates', e, n) + 1 ELSE Ands(gates', e, n)
    BY <1>3a, <1>7, AndsNext
  <2>3. Ands(gates', 0, n + 1) = IF g.op = "and" THEN Ands(gates', 0, n) + 1 ELSE Ands(gates', 0, n)
    <3>1. 0 \in Nat /\ 0 <= n
      BY <1>3a
    <3> QED BY <1>3a, <1>7, <3>1, AndsNext, ZenonT(20)
  <2>4. n \in 0 .. n
    BY <1>3a
  <2> QED BY <2>1, <2>2, <2>3, <2>4, Zenon
<1>14. ASSUME NEW i \in 1 .. n PROVE GateOK(i)'
  <2>1. ASSUME gates[i].op = "and", i > Reached'
        PROVE  i > Reached /\ tables'[Ands(gates', Reached', i)] = tables[Ands(gates, Reached, i)]
    <3>1. i > e /\ i \in 0 .. n /\ i - 1 \in Nat /\ e <= i - 1 /\ (i - 1) + 1 = i
      BY <1>3a, <1>10, <2>1
    <3>2. Ands(gates, e, i) \in Nat /\ Ands(gates, e, i) <= Ands(gates, e, n)
      BY <1>3a, <3>1, AndsGrow
    <3>3. Ands(gates, e, i) = Ands(gates, e, i - 1) + 1
      BY <1>3a, <2>1, <3>1, AndsNext, ZenonT(20)
    <3>4. Ands(gates, e, i - 1) \in Nat
      <4>1. i - 1 \in 0 .. i - 1
        BY <3>1
      <4> QED BY <1>3a, <3>1, <4>1, AndsGrow
    <3>5. Ands(gates, e, i) \in 1 .. Len(tables)
      BY <1>1, <3>2, <3>3, <3>4
    <3> QED BY <1>10, <1>11, <1>13, <3>1, <3>5, Zenon
  <2>2. GateOK(i)
    BY <1>1
  <2> QED BY <1>1, <1>2, <1>7, <1>8, <1>9, <2>1, <2>2, GateKept, Zenon DEF HashesKept
<1>15. PICK last \in Nat : last = n + 1
  BY <1>3a
<1>16. GateOK(last)'
  <2> DEFINE x == zero[g.a]
             y == zero[g.b]
             gid == 2 * Ands(gates, 0, n)
  <2>1. g.a \in 1 .. (Inputs + last) - 1 /\ g.b \in 1 .. (Inputs + last) - 1 /\ last - 1 = n /\ n \in 0 .. n
    BY <1>0, <1>3a, <1>15
  <2>2. /\ zero'[g.a] = x /\ zero'[g.b] = y /\ value'[g.a] = value[g.a] /\ value'[g.b] = value[g.b]
    BY <1>0, <1>8, <1>9, Zenon
  <2>3. 2 * Ands(gates', 0, last - 1) = gid
    BY <1>13, <2>1, Zenon
  <2>4. ASSUME g.op = "and" PROVE tables'[Ands(gates', Reached', last)] = table[1]
    BY <1>1, <1>10, <1>11, <1>13, <1>15, <2>4, Zenon
  <2>5. /\ g.op = "xor" => label = Xor(x, y) /\ bit = (value[g.a] + value[g.b]) % 2
        /\ g.op = "not" => scheme = "half" /\ label = Xor(x, Delta) /\ bit = 1 - value[g.a]
        /\ g.op = "and" => /\ bit = value[g.a] * value[g.b]
                           /\ AndQueries(scheme, x, y, gid, last) \subseteq DOMAIN hash'
                           /\ label = AndZero(scheme, hash', lsb', x, y, gid, last)
                           /\ table = <<AndTable(scheme, hash', lsb', x, y, gid, last)>>
    BY <1>15, Zenon DEF MadeGate
  <2> HIDE DEF x, y, gid
  <2>6. g.op = "and" => table[1] = AndTable(scheme, hash', lsb', x, y, gid, last)
    BY <2>5
  <2>7. gates'[last] = g /\ zero'[Inputs + last] = label /\ value'[Inputs + last] = bit /\ scheme' = scheme
    BY <1>2, <1>7, <1>8, <1>9, <1>15, Zenon
  <2>8. /\ g.op = "xor" => zero'[Inputs + last] = Xor(x, y) /\ value'[Inputs + last] = (value'[g.a] + value'[g.b]) % 2
        /\ g.op = "not" => scheme' = "half" /\ zero'[Inputs + last] = Xor(x, Delta) /\ value'[Inputs + last] = 1 - value'[g.a]
        /\ g.op = "and" =>
               /\ value'[Inputs + last] = value'[g.a] * value'[g.b]
               /\ AndQueries(scheme', x, y, gid, last) \subseteq DOMAIN hash'
               /\ zero'[Inputs + last] = AndZero(scheme', hash', lsb', x, y, gid, last)
               /\ tables'[Ands(gates', Reached', last)] = AndTable(scheme', hash', lsb', x, y, gid, last)
    BY <2>2, <2>4, <2>5, <2>6, <2>7, Zenon
  <2> QED BY <2>1, <2>2, <2>3, <2>7, <2>8, Zenon DEF GateOK
<1>16a. \A i \in 1 .. Len(gates') : GateOK(i)'
  <2>1. \A i \in 1 .. n + 1 : i \in 1 .. n \/ i = last
    BY <1>0, <1>3a, <1>15
  <2> QED BY <1>7, <1>14, <1>16, <2>1, Zenon
<1>17. Len(tables') = Ands(gates', Reached', Len(gates'))
  <2>1. Ands(gates, e, n) \in Nat
    BY <1>1, <1>3
  <2> QED BY <1>1, <1>6, <1>7, <1>10, <1>11, <1>13, <2>1
<1>18. scheme' = "half" => /\ Served(GarblerBatch, gm', Ands(gates', 0, Len(gates')))
                           /\ Served(EvaluatorBatch, em', Ands(gates', 0, Reached'))
  <2>1. scheme = "half" => Served(GarblerBatch, gm', IF g.op = "and" THEN Ands(gates, 0, n) + 1 ELSE Ands(gates, 0, n))
    BY Zenon DEF InOrder
  <2>2. Ands(gates', 0, e) = Ands(gates, 0, e)
    BY <1>3, <1>13, Zenon
  <2> QED BY <1>1, <1>2, <1>7, <1>10, <1>13, <2>1, <2>2, Zenon
<1>19. scheme' = "free" => \A w \in 1 .. Len(zero') : GetLSB(lsb', zero'[w]) = 0
  <2>1. ASSUME scheme = "free", NEW w \in 1 .. Len(zero') PROVE GetLSB(lsb', zero'[w]) = 0
    <3>1. CASE w \in 1 .. Len(zero)
      <4>1. zero'[w] = zero[w] /\ GetLSB(lsb, zero[w]) = 0
        BY <1>1, <1>8, <2>1, <3>1, Zenon
      <4>2. zero[w] \subseteq DOMAIN lsb
        BY <1>3, <3>1 DEF Blocks
      <4>3. Grows(lsb, lsb')
        BY Zenon DEF HashesKept
      <4> QED BY <4>1, <4>2, <4>3, LowKept
    <3>2. CASE w \notin 1 .. Len(zero)
      <4>1. w \in 1 .. Inputs + (n + 1) /\ Len(zero) = Inputs + n /\ n \in Nat /\ Inputs \in Nat
        BY <1>3, <1>8, Zenon
      <4>2. w = Inputs + (n + 1)
        BY <3>2, <4>1
      <4> QED BY <1>8, <2>1, <4>2, Zenon DEF InOrder
    <3> QED BY <3>1, <3>2
  <2> QED BY <1>2, <2>1, Zenon
<1>20. LabelsMatch'
  <2>1. ASSUME NEW w \in DOMAIN active PROVE w \in 1 .. Len(zero)
    BY <1>3 DEF Reached
  <2> QED BY <1>1, <1>2, <1>8, <1>9, <2>1, Zenon DEF LabelsMatch
<1> QED BY <1>12, <1>16a, <1>17, <1>18, <1>19, <1>20, Zenon DEF GarbleInv

\* What the evaluator does at a gate: the label of its output w, its table, its object.
Followed(w, label) ==
    LET isAnd == gates[Reached + 1].op = "and" IN
    /\ label = Xor(zero[w], Masked(value[w], Delta))
    /\ isAnd => tables' = Tail(tables)
    /\ ~isAnd => tables' = tables
    /\ scheme = "half" => Served(EvaluatorBatch, em', IF isAnd THEN Ands(gates, 0, Reached) + 1
                                                             ELSE Ands(gates, 0, Reached))

\* A gate more at the evaluator keeps the invariant.
LEMMA EvaluatedOK ==
    ASSUME GarbleInv, NEW label, NEW w \in Nat, w = Inputs + Reached + 1, Reached < Len(gates),
           Evaluated(label), Followed(w, label), HashesKept
    PROVE  GarbleInv'
<1> DEFINE n == Len(gates)
           e == Reached
           isAnd == gates[e + 1].op = "and"
<1>1. /\ GarbleTypes /\ (\A i \in 1 .. n : GateOK(i)) /\ Len(tables) = Ands(gates, e, n)
      /\ scheme = "half" => Served(GarblerBatch, gm, Ands(gates, 0, n))
      /\ scheme = "free" => \A v \in 1 .. Len(zero) : GetLSB(lsb, zero[v]) = 0
      /\ LabelsMatch
  BY Zenon DEF GarbleInv
<1>2. /\ active' = Append(active, label) /\ scheme' = scheme /\ gates' = gates /\ zero' = zero
      /\ value' = value /\ gm' = gm
  BY Zenon DEF Evaluated
<1>3. /\ gates \in Seq(GateType) /\ n \in Nat /\ Inputs \in Nat /\ Len(zero) = Inputs + n /\ Len(value) = Len(zero)
      /\ e \in 0 .. n /\ e \in Nat /\ e + 1 \in Nat /\ e < n /\ e + 1 <= n /\ scheme \in {"half", "free"}
      /\ zero \in Seq(Blocks) /\ value \in Seq(Bits) /\ active \in Seq(Blocks) /\ tables \in Seq(Seq(Blocks))
  <2>1. /\ gates \in Seq(GateType) /\ Len(zero) = Inputs + n /\ Len(value) = Len(zero)
        /\ e \in 0 .. n /\ e < n /\ scheme \in {"half", "free"}
        /\ zero \in Seq(Blocks) /\ value \in Seq(Bits) /\ active \in Seq(Blocks) /\ tables \in Seq(Seq(Blocks))
    BY <1>1, Zenon DEF GarbleTypes, GateType
  <2>2. n \in Nat /\ Inputs \in Nat
    BY <2>1, GarblingAssumption
  <2>3. e \in Nat /\ e + 1 \in Nat /\ e + 1 <= n
    BY <2>1, <2>2
  <2> QED BY <2>1, <2>2, <2>3, Zenon
<1>3a. n \in Nat /\ Inputs \in Nat /\ e \in Nat /\ e + 1 \in Nat /\ e < n /\ e + 1 <= n
  BY <1>3, Zenon
<1>4. /\ DOMAIN lsb \subseteq DOMAIN lsb' /\ {0, -1} \subseteq DOMAIN lsb' /\ lsb'[0] = 1 /\ lsb'[-1] = 1
      /\ Delta \in SUBSET DOMAIN lsb'
  <2>1. /\ Grows(lsb, lsb') /\ {0, -1} \subseteq DOMAIN lsb /\ lsb[0] = 1 /\ lsb[-1] = 1
    BY <1>1, Zenon DEF GarbleTypes, HashesKept
  <2> QED BY <2>1 DEF Grows, Delta
<1>5. /\ zero' \in Seq(SUBSET DOMAIN lsb') /\ active \in Seq(SUBSET DOMAIN lsb')
      /\ tables \in Seq(Seq(SUBSET DOMAIN lsb'))
  BY <1>2, <1>3, <1>4, BlocksGrow DEF Blocks
<1>6. label \in SUBSET DOMAIN lsb'
  <2>1. w \in 1 .. Len(zero)
    BY <1>3
  <2>2. zero[w] \in SUBSET DOMAIN lsb'
    BY <1>2, <1>5, <2>1
  <2>3. Masked(value[w], Delta) \in SUBSET DOMAIN lsb'
    BY <1>4, MaskedClosed
  <2>4. label = Xor(zero[w], Masked(value[w], Delta))
    BY Zenon DEF Followed
  <2> QED BY <2>2, <2>3, <2>4, XorClosed
<1>7. /\ active' \in Seq(SUBSET DOMAIN lsb') /\ Len(active') = Len(active) + 1 /\ active'[Len(active) + 1] = label
      /\ \A v \in 1 .. Len(active) : active'[v] = active[v]
  BY <1>2, <1>5, <1>6, AppendFacts
<1>8. Reached' = e + 1 /\ Len(active) \in Nat /\ Len(active) + 1 = w
  BY <1>3, <1>7 DEF Reached
<1>9. \A i \in e + 1 .. n : /\ Ands(gates, e, i) = IF isAnd THEN Ands(gates, e + 1, i) + 1 ELSE Ands(gates, e + 1, i)
                            /\ Ands(gates, e + 1, i) \in Nat /\ Ands(gates, e + 1, i) <= Ands(gates, e + 1, n)
  <2>1. ASSUME NEW i \in e + 1 .. n
        PROVE  /\ Ands(gates, e, i) = IF isAnd THEN Ands(gates, e + 1, i) + 1 ELSE Ands(gates, e + 1, i)
               /\ Ands(gates, e + 1, i) \in Nat /\ Ands(gates, e + 1, i) <= Ands(gates, e + 1, n)
    <3>1. i \in Nat /\ e < i /\ i \in 0 .. n
      BY <1>3a
    <3> HIDE DEF e, n
    <3> QED BY <1>3a, <3>1, AndsRest, AndsGrow DEF isAnd
  <2> QED BY <2>1
<1>10. n \in e + 1 .. n
  BY <1>3
<1>11. /\ tables' \in Seq(Seq(SUBSET DOMAIN lsb')) /\ Len(tables') = Ands(gates, e + 1, n)
       /\ \A k \in 1 .. Len(tables') : tables'[k] = IF isAnd THEN tables[k + 1] ELSE tables[k]
  <2>1. CASE isAnd
    <3>1. Len(tables) = Ands(gates, e + 1, n) + 1 /\ Ands(gates, e + 1, n) \in Nat /\ tables' = Tail(tables)
      BY <1>1, <1>9, <1>10, <2>1, Zenon DEF Followed
    <3>2. tables # <<>>
      BY <1>5, <3>1
    <3> HIDE DEF isAnd
    <3> QED BY <1>5, <2>1, <3>1, <3>2, TailFacts
  <2>2. CASE ~isAnd
    <3>1. Len(tables) = Ands(gates, e + 1, n) /\ tables' = tables
      BY <1>1, <1>9, <1>10, <2>2, Zenon DEF Followed
    <3> QED BY <1>5, <2>2, <3>1, Zenon
  <2> QED BY <2>1, <2>2
<1>12. GarbleTypes'
  <2>1. e + 1 \in 0 .. n
    BY <1>3
  <2> QED BY <1>2, <1>3, <1>4, <1>5, <1>7, <1>8, <1>11, <2>1, Zenon DEF GarbleTypes, Blocks, GateType, HashesKept
<1>13. ASSUME NEW i \in 1 .. n PROVE GateOK(i)'
  <2>1. ASSUME gates[i].op = "and", i > Reached'
        PROVE  i > Reached /\ tables'[Ands(gates', Reached', i)] = tables[Ands(gates, Reached, i)]
    <3>1. i \in e + 1 .. n /\ i > e /\ i - 1 \in Nat /\ e + 1 <= i - 1 /\ (i - 1) + 1 = i /\ i - 1 \in 0 .. i - 1
      <4>1. i > e + 1
        BY <1>8, <2>1, Zenon
      <4> HIDE DEF e, n
      <4> QED BY <1>3a, <4>1
    <3>2. Ands(gates, e + 1, i) = Ands(gates, e + 1, i - 1) + 1
      <4> HIDE DEF e, n
      <4>1. PICK j \in Nat : j = i - 1 /\ j + 1 = i /\ e + 1 <= j
        BY <3>1, Zenon
      <4>2. Ands(gates, e + 1, j + 1) = IF gates[j + 1].op = "and" THEN Ands(gates, e + 1, j) + 1 ELSE Ands(gates, e + 1, j)
        BY <1>3a, <4>1, AndsNext, ZenonT(20)
      <4> QED BY <2>1, <4>1, <4>2, Zenon
    <3>3. Ands(gates, e + 1, i - 1) \in Nat
      BY <1>3, <3>1, AndsGrow
    <3>4. Ands(gates, e + 1, i) \in 1 .. Len(tables')
      BY <1>9, <1>11, <3>1, <3>2, <3>3
    <3>5. tables'[Ands(gates, e + 1, i)] = tables[Ands(gates, e, i)]
      BY <1>9, <1>11, <3>1, <3>4, Zenon
    <3> QED BY <1>2, <1>8, <3>1, <3>5, Zenon
  <2>2. GateOK(i)
    BY <1>1
  <2> QED BY <1>1, <1>2, <2>1, <2>2, GateKept, Zenon DEF HashesKept
<1>14. scheme' = "half" => /\ Served(GarblerBatch, gm', Ands(gates', 0, Len(gates')))
                           /\ Served(EvaluatorBatch, em', Ands(gates', 0, Reached'))
  <2>1. Ands(gates, 0, e + 1) = IF isAnd THEN Ands(gates, 0, e) + 1 ELSE Ands(gates, 0, e)
    <3>1. 0 \in Nat /\ 0 <= e
      BY <1>3
    <3> QED BY <1>3, <3>1, AndsNext, ZenonT(20)
  <2> QED BY <1>1, <1>2, <1>8, <2>1, Zenon DEF Followed
<1>15. scheme' = "free" => \A v \in 1 .. Len(zero') : GetLSB(lsb', zero'[v]) = 0
  <2>1. ASSUME scheme = "free", NEW v \in 1 .. Len(zero) PROVE GetLSB(lsb', zero[v]) = 0
    <3>1. GetLSB(lsb, zero[v]) = 0
      BY <1>1, <2>1, Zenon
    <3>2. zero[v] \subseteq DOMAIN lsb
      BY <1>3 DEF Blocks
    <3>3. Grows(lsb, lsb')
      BY Zenon DEF HashesKept
    <3> QED BY <3>1, <3>2, <3>3, LowKept
  <2> QED BY <1>2, <2>1, Zenon
<1>16. LabelsMatch'
  <2>4. DOMAIN active' = 1 .. Len(active') /\ DOMAIN active = 1 .. Len(active)
    BY <1>3, <1>7
  <2>5. PICK k \in Nat : k = Len(active)
    BY <1>8, Zenon
  <2>6. \A v \in 1 .. k + 1 : v \in 1 .. k \/ v = k + 1
    OBVIOUS
  <2>1. ASSUME NEW v \in DOMAIN active' PROVE v \in DOMAIN active \/ v = w
    BY <1>7, <1>8, <2>4, <2>5, <2>6, Zenon
  <2>2. \A v \in DOMAIN active : active'[v] = active[v]
    BY <1>7, <2>4, Zenon
  <2>3. active'[w] = label
    BY <1>7, <1>8, Zenon
  <2> QED BY <1>1, <1>2, <2>1, <2>2, <2>3, Zenon DEF LabelsMatch, Followed
<1> QED BY <1>2, <1>8, <1>11, <1>12, <1>13, <1>14, <1>15, <1>16, Zenon DEF GarbleInv

\* The places of the blocks of a call.
LEMMA CallPlaces ==
    /\ \A p, q, r, s : DOMAIN <<p, q, r, s>> = 1 .. 4
    /\ \A p, q : DOMAIN <<p, q>> = 1 .. 2
    /\ \A p : DOMAIN <<p>> = 1 .. 1
    /\ \A n \in Nat : IsFiniteSet(1 .. n)
<1>1. \A n \in Nat : IsFiniteSet(1 .. n)
  BY FS_Interval
<1> QED BY <1>1

\* The fields of a gate.
LEMMA GateFields ==
    ASSUME NEW op \in {"and", "xor", "not"}, NEW a \in DOMAIN zero, NEW b \in DOMAIN zero, GarbleTypes
    PROVE  /\ Gate(op, a, b) \in GateType /\ Gate(op, a, b).op = op /\ Gate(op, a, b).a = a /\ Gate(op, a, b).b = b
           /\ a \in 1 .. Len(zero) /\ b \in 1 .. Len(zero)
<1>1. zero \in Seq(Blocks)
  BY Zenon DEF GarbleTypes
<1>2. DOMAIN zero = 1 .. Len(zero) /\ Len(zero) \in Nat
  BY <1>1
<1>3. a \in Nat /\ b \in Nat /\ a \in 1 .. Len(zero) /\ b \in 1 .. Len(zero)
  BY <1>2
<1> QED BY <1>3 DEF Gate, GateType

\* halfgates_garble
LEMMA HalfgatesGarbleOK ==
    ASSUME GarbleInv, scheme = "half", NEW a \in DOMAIN zero, NEW b \in DOMAIN zero, HalfgatesGarble(a, b)
    PROVE  GarbleInv'
<1>1. GarbleTypes /\ Served(GarblerBatch, gm, Ands(gates, 0, Len(gates)))
  BY Zenon DEF GarbleInv
<1>2. PICK k \in Nat : k = Ands(gates, 0, Len(gates))
  BY <1>1, AndsSoFar
<1>3. PICK g : g = Gate("and", a, b)
  BY Zenon
<1>4. g \in GateType /\ g.op = "and" /\ g.a = a /\ g.b = b /\ g.a \in 1 .. Len(zero) /\ g.b \in 1 .. Len(zero)
  BY <1>1, <1>3, GateFields
<1> DEFINE x == zero[a]
           y == zero[b]
           gid == 2 * k
           qs == <<GidQuery(x, gid), GidQuery(Xor(x, Delta), gid),
                   GidQuery(y, gid + 1), GidQuery(Xor(y, Delta), gid + 1)>>
           label == HalfZero(hash', lsb, x, y, gid)
           table == <<HalfTable(hash', lsb, x, y, gid)>>
<1>5. /\ \A z : LaneQuery(GarblerBatch, gm, z, 0) = GidQuery(z, gid)
      /\ \A z : LaneQuery(GarblerBatch, gm, z, 1) = GidQuery(z, gid + 1)
      /\ Served(GarblerBatch, AfterCall(GarblerBatch, gm), k + 1)
  <2>1. 2 * k + 0 = 2 * k
    OBVIOUS
  <2>2. /\ \A z, j : j \in {0, 1} => LaneQuery(GarblerBatch, gm, z, j) = GidQuery(z, 2 * k + j)
        /\ Served(GarblerBatch, AfterCall(GarblerBatch, gm), k + 1)
    BY <1>1, <1>2, BatchesEven, CallServed
  <2>3. 0 \in {0, 1} /\ 1 \in {0, 1}
    BY Zenon
  <2> QED BY <2>1, <2>2, <2>3, Zenon
<1>6. Query(qs) /\ gm' = AfterCall(GarblerBatch, gm) /\ Garbled(g, label, table, value[a] * value[b])
  BY <1>3, <1>5, Zenon DEF HalfgatesGarble, HalfZero, HalfT0, HalfTmp, HalfTable, H
<1>7. IsFiniteSet(DOMAIN qs) /\ \A q \in DOMAIN hash : hash[q] \in DOMAIN lsb
  <2>1. DOMAIN qs = 1 .. 4
    BY CallPlaces, Zenon
  <2>2. IsFiniteSet(1 .. 4)
    BY CallPlaces, ZenonT(20)
  <2> QED BY <1>1, <2>1, <2>2, Zenon DEF GarbleTypes
<1>8. HashesKept /\ \A i \in DOMAIN qs : qs[i] \in DOMAIN hash'
  <2> HIDE DEF qs
  <2>1. IsFiniteSet(DOMAIN lsb)
    BY <1>1, Zenon DEF GarbleTypes
  <2> QED BY <1>6, <1>7, <2>1, QueryFacts, Zenon DEF HashesKept
<1>9. HalfQueries(x, y, gid) \subseteq DOMAIN hash'
  <2>1. 1 \in DOMAIN qs /\ 2 \in DOMAIN qs /\ 3 \in DOMAIN qs /\ 4 \in DOMAIN qs
    OBVIOUS
  <2>2. qs[1] \in DOMAIN hash' /\ qs[2] \in DOMAIN hash' /\ qs[3] \in DOMAIN hash' /\ qs[4] \in DOMAIN hash'
    BY <1>8, <2>1, Zenon
  <2> QED BY <2>2 DEF HalfQueries
<1>10. GetLSB(lsb', x) = GetLSB(lsb, x) /\ GetLSB(lsb', y) = GetLSB(lsb, y)
  <2>1. zero \in Seq(SUBSET DOMAIN lsb) /\ a \in 1 .. Len(zero) /\ b \in 1 .. Len(zero)
    BY <1>1, <1>4, Zenon DEF GarbleTypes, Blocks
  <2>2. x \subseteq DOMAIN lsb /\ y \subseteq DOMAIN lsb
    BY <2>1
  <2> QED BY <1>8, <2>2, LowKept, Zenon DEF HashesKept
<1>11. label = HalfZero(hash', lsb', x, y, gid) /\ table = <<HalfTable(hash', lsb', x, y, gid)>>
  BY <1>10, Zenon DEF HalfZero, HalfT0, HalfTable
<1>12. MadeGate(g, label, table, value[a] * value[b])
  <2> HIDE DEF label, table
  <2> QED BY <1>2, <1>4, <1>9, <1>11, Zenon DEF MadeGate, AndQueries, AndZero, AndTable
<1> HIDE DEF label, table
<1>13. Served(GarblerBatch, gm', Ands(gates, 0, Len(gates)) + 1)
  BY <1>2, <1>5, <1>6, Zenon
<1> QED BY <1>4, <1>6, <1>8, <1>12, <1>13, GarbledOK, Zenon DEF NewGate, InOrder

\* privacy_free_garble
LEMMA PrivacyFreeGarbleOK ==
    ASSUME GarbleInv, scheme = "free", NEW a \in DOMAIN zero, NEW b \in DOMAIN zero, PrivacyFreeGarble(a, b)
    PROVE  GarbleInv'
<1>1. GarbleTypes
  BY Zenon DEF GarbleInv
<1>2. PICK i \in Nat : i = Len(gates) + 1
  BY <1>1, AndsSoFar
<1>3. PICK g : g = Gate("and", a, b)
  BY Zenon
<1>4. g \in GateType /\ g.op = "and" /\ g.a = a /\ g.b = b /\ g.a \in 1 .. Len(zero) /\ g.b \in 1 .. Len(zero)
  BY <1>1, <1>3, GateFields
<1> DEFINE x == zero[a]
           y == zero[b]
           qs == <<PrivacyFreeQuery(x, i), PrivacyFreeQuery(Xor(x, Delta), i)>>
           label == FreeZero(hash', lsb', x, i)
           table == <<FreeTable(hash', lsb', x, y, i)>>
<1>5. Query(qs) /\ Garbled(g, label, table, value[a] * value[b])
  BY <1>2, <1>3, Zenon DEF PrivacyFreeGarble, FreeZero, FreeOne, FreeTable, H
<1>6. IsFiniteSet(DOMAIN qs) /\ \A q \in DOMAIN hash : hash[q] \in DOMAIN lsb
  <2>1. DOMAIN qs = 1 .. 2
    BY CallPlaces, Zenon
  <2>2. IsFiniteSet(1 .. 2)
    BY CallPlaces, ZenonT(20)
  <2> QED BY <1>1, <2>1, <2>2, Zenon DEF GarbleTypes
<1>7. HashesKept /\ \A j \in DOMAIN qs : qs[j] \in DOMAIN hash'
  <2> HIDE DEF qs
  <2>1. IsFiniteSet(DOMAIN lsb)
    BY <1>1, Zenon DEF GarbleTypes
  <2> QED BY <1>5, <1>6, <2>1, QueryFacts, Zenon DEF HashesKept
<1>8. FreeQueries(x, i) \subseteq DOMAIN hash'
  <2>1. 1 \in DOMAIN qs /\ 2 \in DOMAIN qs
    OBVIOUS
  <2>2. qs[1] \in DOMAIN hash' /\ qs[2] \in DOMAIN hash'
    BY <1>7, <2>1, Zenon
  <2> QED BY <2>2 DEF FreeQueries
<1>9. MadeGate(g, label, table, value[a] * value[b])
  <2>1. AndQueries(scheme, x, y, 2 * Ands(gates, 0, Len(gates)), i) = FreeQueries(x, i)
        /\ AndZero(scheme, hash', lsb', x, y, 2 * Ands(gates, 0, Len(gates)), i) = label
        /\ AndTable(scheme, hash', lsb', x, y, 2 * Ands(gates, 0, Len(gates)), i) = FreeTable(hash', lsb', x, y, i)
    BY DEF AndQueries, AndZero, AndTable
  <2> QED BY <1>2, <1>4, <1>8, <2>1, Zenon DEF MadeGate
<1>10. GetLSB(lsb', label) = 0
  <2>1. lsb'[-1] = 1 /\ 0 \in Bits
    <3>1. Grows(lsb, lsb') /\ {0, -1} \subseteq DOMAIN lsb /\ lsb[-1] = 1
      BY <1>1, <1>7, Zenon DEF HashesKept, GarbleTypes
    <3>2. 0 \in Bits
      BY DEF Bits
    <3> QED BY <3>1, <3>2, Zenon DEF Grows
  <2>2. PICK z : z = {hash'[PrivacyFreeQuery(x, i)]}
    BY Zenon
  <2>3. IsFiniteSet(z)
    BY <2>2, FS_Singleton, Zenon
  <2>4. GetLSB(lsb', WithLSB(lsb', z, 0)) = 0
    BY <2>1, <2>3, LowOfWithLSB
  <2> QED BY <2>2, <2>4, Zenon DEF FreeZero
<1> HIDE DEF label, table
<1> QED BY <1>4, <1>5, <1>7, <1>9, <1>10, GarbledOK, Zenon DEF NewGate, InOrder

\* XOR and NOT: no hash is called and nothing is sent.
LEMMA FreeGatesOK ==
    ASSUME GarbleInv, NEW a \in DOMAIN zero, NEW b \in DOMAIN zero, FreeGates(a, b)
    PROVE  GarbleInv'
<1>1. scheme = "half" => Served(GarblerBatch, gm, Ands(gates, 0, Len(gates)))
  BY Zenon DEF GarbleInv
<1>2. GarbleTypes /\ gm' = gm /\ hash' = hash /\ lsb' = lsb
  BY Zenon DEF GarbleInv, FreeGates
<1>3. HashesKept
  BY <1>2, Zenon DEF GarbleTypes, HashesKept, Grows
<1>4. /\ zero[a] \subseteq DOMAIN lsb /\ zero[b] \subseteq DOMAIN lsb /\ a \in 1 .. Len(zero) /\ b \in 1 .. Len(zero)
  <2>1. zero \in Seq(SUBSET DOMAIN lsb)
    BY <1>2, Zenon DEF GarbleTypes, Blocks
  <2> QED BY <2>1
<1>5. CASE Garbled(Gate("xor", a, b), Xor(zero[a], zero[b]), <<>>, (value[a] + value[b]) % 2)
  <2>1. PICK g : g = Gate("xor", a, b)
    BY Zenon
  <2>2. g \in GateType /\ g.op = "xor" /\ g.a = a /\ g.b = b /\ g.a \in 1 .. Len(zero) /\ g.b \in 1 .. Len(zero)
    BY <1>2, <2>1, GateFields
  <2>3. MadeGate(g, Xor(zero[a], zero[b]), <<>>, (value[a] + value[b]) % 2)
    <3>1. "xor" # "not" /\ "xor" # "and"
      OBVIOUS
    <3> QED BY <2>2, <3>1, Zenon DEF MadeGate
  <2>4. scheme = "free" => GetLSB(lsb', Xor(zero[a], zero[b])) = 0
    <3>1. ASSUME scheme = "free" PROVE GetLSB(lsb, Xor(zero[a], zero[b])) = 0
      <4>1. GetLSB(lsb, zero[a]) = 0 /\ GetLSB(lsb, zero[b]) = 0
        BY <1>4, <3>1, Zenon DEF GarbleInv
      <4>2. IsFiniteSet(zero[a]) /\ IsFiniteSet(zero[b])
        BY <1>2, <1>4, FS_Subset, Zenon DEF GarbleTypes
      <4>3. GetLSB(lsb, Xor(zero[a], zero[b])) = (0 + 0) % 2
        BY <4>1, <4>2, LowOfXor, Zenon
      <4> QED BY <4>3
    <3> QED BY <1>2, <3>1, Zenon
  <2>5. "xor" # "and"
    OBVIOUS
  <2> QED BY <1>1, <1>2, <1>3, <1>5, <2>1, <2>2, <2>3, <2>4, <2>5, GarbledOK, Zenon DEF NewGate, InOrder
<1>6. CASE scheme = "half" /\ a = b /\ Garbled(Gate("not", a, a), Xor(zero[a], Delta), <<>>, 1 - value[a])
  <2>1. PICK g : g = Gate("not", a, a)
    BY Zenon
  <2>2. g \in GateType /\ g.op = "not" /\ g.a = a /\ g.b = a /\ g.a \in 1 .. Len(zero) /\ g.b \in 1 .. Len(zero)
    BY <1>2, <2>1, GateFields
  <2>3. MadeGate(g, Xor(zero[a], Delta), <<>>, 1 - value[a])
    <3>1. "not" # "xor" /\ "not" # "and"
      OBVIOUS
    <3> QED BY <1>6, <2>2, <3>1, Zenon DEF MadeGate
  <2>4. scheme # "free" /\ "not" # "and"
    BY <1>6
  <2> QED BY <1>1, <1>2, <1>3, <1>6, <2>1, <2>2, <2>3, <2>4, GarbledOK, Zenon DEF NewGate, InOrder
<1> QED BY <1>5, <1>6, Zenon DEF FreeGates

\* The label the garbler means on wire v.
Meant(v) == Xor(zero[v], Masked(value[v], Delta))

\* What the evaluator finds at its next gate i: the meant labels on its inputs, and
\* at an AND gate the table the garbler made for it.
AtGate(i) ==
    LET g == gates[i] IN
    /\ i = Reached + 1 /\ i - 1 = Reached /\ Reached < Len(gates) /\ NextGate = g /\ GateOK(i)
    /\ active[g.a] = Meant(g.a) /\ active[g.b] = Meant(g.b)
    /\ zero[g.a] \subseteq DOMAIN lsb /\ zero[g.b] \subseteq DOMAIN lsb
    /\ value[g.a] \in Bits /\ value[g.b] \in Bits
    /\ g.op = "and" =>
           Head(tables) = AndTable(scheme, hash, lsb, zero[g.a], zero[g.b], 2 * Ands(gates, 0, Reached), i)

\* That is what it finds at every gate it has yet to reach.
LEMMA NextGateOK ==
    ASSUME GarbleInv, Reached < Len(gates)
    PROVE  \E i \in Nat : AtGate(i)
<1>1. /\ GarbleTypes /\ (\A i \in 1 .. Len(gates) : GateOK(i)) /\ Len(tables) = Ands(gates, Reached, Len(gates))
      /\ LabelsMatch
  BY Zenon DEF GarbleInv
<1>2. Len(gates) \in Nat /\ Reached \in Nat /\ Inputs \in Nat
  BY <1>1, AndsSoFar, GarblingAssumption
<1>3. PICK i \in Nat : i = Reached + 1
  BY <1>2
<1>4. i \in 1 .. Len(gates) /\ i - 1 = Reached /\ Reached <= Reached /\ Reached < i /\ Reached \in 0 .. Reached
      /\ i \in 0 .. Len(gates) /\ Len(gates) \in Nat
  BY <1>2, <1>3
<1>5. GateOK(i) /\ NextGate = gates[i]
  BY <1>1, <1>3, <1>4, Zenon DEF NextGate, Reached
<1> DEFINE a == gates[i].a
           b == gates[i].b
<1>6. /\ zero \in Seq(Blocks) /\ value \in Seq(Bits) /\ active \in Seq(Blocks) /\ tables \in Seq(Seq(Blocks))
      /\ Len(zero) = Inputs + Len(gates) /\ Len(value) = Len(zero)
  BY <1>1, Zenon DEF GarbleTypes
<1>7. a \in 1 .. (Inputs + i) - 1 /\ b \in 1 .. (Inputs + i) - 1
  BY <1>5, Zenon DEF GateOK
<1> HIDE DEF a, b
<1>8. Len(active) \in Nat /\ DOMAIN active = 1 .. Len(active)
  BY <1>6
<1>9. (Inputs + i) - 1 = Len(active)
  BY <1>2, <1>3, <1>8 DEF Reached
<1>10. a \in DOMAIN active /\ b \in DOMAIN active
  BY <1>7, <1>8, <1>9, Zenon
<1>11. active[a] = Meant(a) /\ active[b] = Meant(b)
  BY <1>1, <1>10, Zenon DEF LabelsMatch, Meant
<1>12. a \in 1 .. Inputs + Len(gates) /\ b \in 1 .. Inputs + Len(gates)
  BY <1>2, <1>4, <1>7
<1>13. zero[a] \subseteq DOMAIN lsb /\ zero[b] \subseteq DOMAIN lsb /\ value[a] \in Bits /\ value[b] \in Bits
  <2>1. a \in 1 .. Len(zero) /\ b \in 1 .. Len(zero) /\ a \in 1 .. Len(value) /\ b \in 1 .. Len(value)
    BY <1>6, <1>12, Zenon
  <2>2. zero[a] \in Blocks /\ zero[b] \in Blocks /\ value[a] \in Bits /\ value[b] \in Bits
    BY <1>6, <2>1
  <2> QED BY <2>2 DEF Blocks
<1>14. ASSUME gates[i].op = "and"
       PROVE  Head(tables) = AndTable(scheme, hash, lsb, zero[a], zero[b], 2 * Ands(gates, 0, Reached), i)
  <2>1. Ands(gates, Reached, i) = Ands(gates, Reached, Reached) + 1
    BY <1>2, <1>3, <1>4, <1>14, AndsNext
  <2>2. Ands(gates, Reached, Reached) = 0
    <3>1. AndGates(gates, Reached, Reached) = {}
      BY <1>2 DEF AndGates
    <3> QED BY <3>1, FS_EmptySet DEF Ands
  <2>3. Ands(gates, Reached, i) = 1
    BY <2>1, <2>2
  <2>4. 1 <= Len(tables)
    <3>1. Ands(gates, Reached, i) <= Ands(gates, Reached, Len(gates))
      BY <1>2, <1>4, AndsGrow
    <3> QED BY <1>1, <2>3, <3>1, Zenon
  <2>5. Head(tables) = tables[1]
    BY <1>6, <2>4
  <2>6. i > Reached
    BY <1>2, <1>3
  <2> QED BY <1>4, <1>5, <1>14, <2>3, <2>5, <2>6, Zenon DEF GateOK, a, b
<1>15. AtGate(i)
  BY <1>3, <1>4, <1>5, <1>11, <1>13, <1>14, Zenon DEF AtGate, a, b
<1> QED BY <1>15

\* The hash of the label held on an input: of the zero label or of the one label.
HeldHash(h, q0, q1, v) == IF v = 1 THEN {h[q1]} ELSE {h[q0]}

\* A meant label is the zero label or that XOR delta.
LEMMA MeantCases ==
    ASSUME NEW x, NEW v \in Bits
    PROVE  (v = 0 => Xor(x, Masked(v, Delta)) = x) /\ (v = 1 => Xor(x, Masked(v, Delta)) = Xor(x, Delta))
           /\ (v = 0 \/ v = 1)
<1>1. v = 0 \/ v = 1
  BY BitCases
<1>2. v = 0 => Masked(v, Delta) = {}
  BY DEF Masked
<1>3. v = 1 => Masked(v, Delta) = Delta
  BY DEF Masked
<1> QED BY <1>1, <1>2, <1>3, XorFacts

\* halfgates_eval: with the rows of halfgates_garble, for any low bits and values.
LEMMA HalfgatesEvalOK ==
    ASSUME GarbleInv, scheme = "half", CanEvaluate("and"), HalfgatesEval
    PROVE  GarbleInv'
<1>1. GarbleTypes /\ Served(EvaluatorBatch, em, Ands(gates, 0, Reached))
  BY Zenon DEF GarbleInv
<1>2. Reached < Len(gates) /\ NextGate.op = "and"
  BY Zenon DEF CanEvaluate, Reached
<1>3. PICK i \in Nat : AtGate(i)
  BY <1>2, NextGateOK
<1>4. PICK k \in Nat : k = Ands(gates, 0, Reached)
  BY <1>1, AndsSoFar
<1> DEFINE g == gates[i]
           x == zero[g.a]
           y == zero[g.b]
           va == value[g.a]
           vb == value[g.b]
           A == Xor(x, Masked(va, Delta))
           B == Xor(y, Masked(vb, Delta))
           gid == 2 * k
           T == Head(tables)
           label == Xor3(Xor({hash'[GidQuery(A, gid)]}, {hash'[GidQuery(B, gid + 1)]}),
                         Masked(GetLSB(lsb, A), T[1]), Masked(GetLSB(lsb, B), Xor(T[2], A)))
<1>5. /\ i = Reached + 1 /\ i - 1 = Reached /\ NextGate = g /\ g.op = "and" /\ GateOK(i)
      /\ active[g.a] = A /\ active[g.b] = B /\ x \subseteq DOMAIN lsb /\ y \subseteq DOMAIN lsb
      /\ va \in Bits /\ vb \in Bits /\ T = HalfTable(hash, lsb, x, y, gid)
  BY <1>2, <1>3, <1>4, Zenon DEF AtGate, Meant, AndTable
<1>6. /\ value[Inputs + i] = va * vb /\ zero[Inputs + i] = HalfZero(hash, lsb, x, y, gid)
      /\ HalfQueries(x, y, gid) \subseteq DOMAIN hash
  BY <1>4, <1>5, Zenon DEF GateOK, AndZero, AndQueries
<1>7. /\ \A z : LaneQuery(EvaluatorBatch, em, z, 0) = GidQuery(z, gid)
      /\ \A z : LaneQuery(EvaluatorBatch, em, z, 1) = GidQuery(z, gid + 1)
      /\ Served(EvaluatorBatch, AfterCall(EvaluatorBatch, em), k + 1)
  <2>1. 2 * k + 0 = 2 * k
    OBVIOUS
  <2>2. /\ \A z, j : j \in {0, 1} => LaneQuery(EvaluatorBatch, em, z, j) = GidQuery(z, 2 * k + j)
        /\ Served(EvaluatorBatch, AfterCall(EvaluatorBatch, em), k + 1)
    BY <1>1, <1>4, BatchesEven, CallServed
  <2>3. 0 \in {0, 1} /\ 1 \in {0, 1}
    BY Zenon
  <2> QED BY <2>1, <2>2, <2>3, Zenon
<1> HIDE DEF g, x, y, va, vb, A, B, T, gid
<1>8. /\ Query(<<GidQuery(A, gid), GidQuery(B, gid + 1)>>) /\ em' = AfterCall(EvaluatorBatch, em)
      /\ Evaluated(label) /\ tables' = Tail(tables)
  BY <1>5, <1>7, Zenon DEF HalfgatesEval, H, T
<1>9. HashesKept
  <2>1. PICK qs : qs = <<GidQuery(A, gid), GidQuery(B, gid + 1)>>
    BY Zenon
  <2>2. IsFiniteSet(DOMAIN qs)
    <3>1. DOMAIN qs = 1 .. 2
      BY <2>1, CallPlaces, Zenon
    <3>2. IsFiniteSet(1 .. 2)
      BY CallPlaces, ZenonT(20)
    <3> QED BY <3>1, <3>2, Zenon
  <2>3. IsFiniteSet(DOMAIN lsb) /\ \A q \in DOMAIN hash : hash[q] \in DOMAIN lsb
    BY <1>1, Zenon DEF GarbleTypes
  <2> QED BY <1>8, <2>1, <2>2, <2>3, QueryFacts, Zenon DEF HashesKept
<1>10. /\ {hash'[GidQuery(A, gid)]} = HeldHash(hash, GidQuery(x, gid), GidQuery(Xor(x, Delta), gid), va)
       /\ {hash'[GidQuery(B, gid + 1)]} = HeldHash(hash, GidQuery(y, gid + 1), GidQuery(Xor(y, Delta), gid + 1), vb)
  <2>1. \A q \in HalfQueries(x, y, gid) : hash'[q] = hash[q]
    BY <1>6, <1>9 DEF HashesKept, Grows
  <2>2. /\ hash'[GidQuery(x, gid)] = hash[GidQuery(x, gid)]
        /\ hash'[GidQuery(Xor(x, Delta), gid)] = hash[GidQuery(Xor(x, Delta), gid)]
        /\ hash'[GidQuery(y, gid + 1)] = hash[GidQuery(y, gid + 1)]
        /\ hash'[GidQuery(Xor(y, Delta), gid + 1)] = hash[GidQuery(Xor(y, Delta), gid + 1)]
    BY <2>1 DEF HalfQueries
  <2>3. 0 # 1
    OBVIOUS
  <2>4. (va = 0 => A = x) /\ (va = 1 => A = Xor(x, Delta)) /\ (va = 0 \/ va = 1)
    BY <1>5, MeantCases DEF A
  <2>5. (vb = 0 => B = y) /\ (vb = 1 => B = Xor(y, Delta)) /\ (vb = 0 \/ vb = 1)
    BY <1>5, MeantCases DEF B
  <2>6. {hash'[GidQuery(A, gid)]} = HeldHash(hash, GidQuery(x, gid), GidQuery(Xor(x, Delta), gid), va)
    BY <2>2, <2>3, <2>4, Zenon DEF HeldHash
  <2>7. {hash'[GidQuery(B, gid + 1)]} = HeldHash(hash, GidQuery(y, gid + 1), GidQuery(Xor(y, Delta), gid + 1), vb)
    BY <2>2, <2>3, <2>5, Zenon DEF HeldHash
  <2> QED BY <2>6, <2>7
<1>11. /\ GetLSB(lsb, A) = (GetLSB(lsb, x) + va) % 2 /\ GetLSB(lsb, B) = (GetLSB(lsb, y) + vb) % 2
       /\ GetLSB(lsb, x) \in Bits /\ GetLSB(lsb, y) \in Bits
  <2>1. IsFiniteSet(DOMAIN lsb) /\ lsb[0] = 1
    BY <1>1, Zenon DEF GarbleTypes
  <2>2. IsFiniteSet(x) /\ IsFiniteSet(y)
    BY <1>5, <2>1, FS_Subset, Zenon
  <2>3. GetLSB(lsb, x) \in Bits /\ GetLSB(lsb, y) \in Bits
    BY <2>2, LowIsBit, Zenon
  <2> QED BY <1>5, <2>1, <2>2, <2>3, LowOfLabel, Zenon DEF A, B
<1>12. T[1] = HalfT0(hash, lsb, x, y, gid) /\ T[2] = Xor(HalfTmp(hash, y, gid), x)
  BY <1>5 DEF HalfTable
<1>13. label = Xor(HalfZero(hash, lsb, x, y, gid), Masked(va * vb, Delta))
  <2> DEFINE ha0 == {hash[GidQuery(x, gid)]}
             ha1 == {hash[GidQuery(Xor(x, Delta), gid)]}
             hb0 == {hash[GidQuery(y, gid + 1)]}
             hb1 == {hash[GidQuery(Xor(y, Delta), gid + 1)]}
  <2>1. PICK t, tmp, pa, pb : /\ t = HalfT0(hash, lsb, x, y, gid) /\ tmp = HalfTmp(hash, y, gid)
                              /\ pa = GetLSB(lsb, x) /\ pb = GetLSB(lsb, y)
    BY Zenon
  <2>2. t = Xor3(ha0, ha1, Masked(pb, Delta)) /\ tmp = Xor(hb0, hb1)
    BY <2>1, Zenon DEF HalfT0, HalfTmp
  <2>3. label = Xor3(Xor(IF va = 1 THEN ha1 ELSE ha0, IF vb = 1 THEN hb1 ELSE hb0),
                     Masked((pa + va) % 2, t), Masked((pb + vb) % 2, Xor(Xor(tmp, x), Xor(x, Masked(va, Delta)))))
    BY <1>10, <1>11, <1>12, <2>1, Zenon DEF HeldHash, A
  <2>4. HalfZero(hash, lsb, x, y, gid) = Xor3(Xor(ha0, Masked(pa, t)), hb0, Masked(pb, tmp))
    BY <2>1, Zenon DEF HalfZero
  <2>5. pa \in Bits /\ pb \in Bits /\ va \in Bits /\ vb \in Bits
    BY <1>5, <1>11, <2>1, Zenon
  <2> HIDE DEF ha0, ha1, hb0, hb1, label
  <2>6. Xor3(Xor(IF va = 1 THEN ha1 ELSE ha0, IF vb = 1 THEN hb1 ELSE hb0),
             Masked((pa + va) % 2, t), Masked((pb + vb) % 2, Xor(Xor(tmp, x), Xor(x, Masked(va, Delta)))))
        = Xor(Xor3(Xor(ha0, Masked(pa, t)), hb0, Masked(pb, tmp)), Masked(va * vb, Delta))
    BY <2>2, <2>5, HalfGateAlgebra
  <2> QED BY <2>3, <2>4, <2>6, Zenon
<1> HIDE DEF label
<1>14. PICK w \in Nat : w = Inputs + i
  BY <1>3, GarblingAssumption
<1>15. Followed(w, label)
  BY <1>4, <1>5, <1>6, <1>7, <1>8, <1>13, <1>14, Zenon DEF Followed, g
<1>16. w = Inputs + Reached + 1
  <2>1. Reached \in Nat /\ Inputs \in Nat
    BY <1>1, AndsSoFar, GarblingAssumption
  <2> QED BY <1>5, <1>14, <2>1
<1> QED BY <1>2, <1>8, <1>9, <1>15, <1>16, EvaluatedOK, Zenon

\* privacy_free_eval: the low bit tells which way to take.
LEMMA PrivacyFreeEvalOK ==
    ASSUME GarbleInv, scheme = "free", CanEvaluate("and"), PrivacyFreeEval
    PROVE  GarbleInv'
<1>1. GarbleTypes /\ \A v \in 1 .. Len(zero) : GetLSB(lsb, zero[v]) = 0
  BY Zenon DEF GarbleInv
<1>2. Reached < Len(gates) /\ NextGate.op = "and"
  BY Zenon DEF CanEvaluate, Reached
<1>3. PICK i \in Nat : AtGate(i)
  BY <1>2, NextGateOK
<1> DEFINE g == gates[i]
           x == zero[g.a]
           y == zero[g.b]
           va == value[g.a]
           vb == value[g.b]
           A == Xor(x, Masked(va, Delta))
           B == Xor(y, Masked(vb, Delta))
           T == Head(tables)
           q == PrivacyFreeQuery(A, i)
           label == IF GetLSB(lsb, A) = 1 THEN Xor3(WithLSB(lsb', {hash'[q]}, 1), T[1], B)
                                          ELSE WithLSB(lsb', {hash'[q]}, 0)
<1>4. scheme # "half"
  OBVIOUS
<1>5. /\ i = Reached + 1 /\ i - 1 = Reached /\ NextGate = g /\ g.op = "and" /\ GateOK(i)
      /\ active[g.a] = A /\ active[g.b] = B /\ x \subseteq DOMAIN lsb /\ y \subseteq DOMAIN lsb
      /\ va \in Bits /\ vb \in Bits /\ T = FreeTable(hash, lsb, x, y, i)
  BY <1>2, <1>3, <1>4, Zenon DEF AtGate, Meant, AndTable
<1>6. /\ value[Inputs + i] = va * vb /\ zero[Inputs + i] = FreeZero(hash, lsb, x, i)
      /\ FreeQueries(x, i) \subseteq DOMAIN hash /\ g.a \in 1 .. (Inputs + i) - 1
  BY <1>4, <1>5, Zenon DEF GateOK, AndZero, AndQueries
<1> HIDE DEF g, x, y, va, vb, A, B, T
<1>7. Query(<<q>>) /\ Evaluated(label) /\ tables' = Tail(tables) /\ em' = em
  BY <1>5, Zenon DEF PrivacyFreeEval, H, T, Reached
<1>8. HashesKept
  <2>1. PICK qs : qs = <<q>>
    BY Zenon
  <2>2. IsFiniteSet(DOMAIN qs)
    <3>1. DOMAIN qs = 1 .. 1
      BY <2>1, CallPlaces, Zenon
    <3>2. IsFiniteSet(1 .. 1)
      BY CallPlaces, ZenonT(20)
    <3> QED BY <3>1, <3>2, Zenon
  <2>3. IsFiniteSet(DOMAIN lsb) /\ \A p \in DOMAIN hash : hash[p] \in DOMAIN lsb
    BY <1>1, Zenon DEF GarbleTypes
  <2> QED BY <1>7, <2>1, <2>2, <2>3, QueryFacts, Zenon DEF HashesKept
<1>9. /\ WithLSB(lsb', {hash'[PrivacyFreeQuery(x, i)]}, 0) = FreeZero(hash, lsb, x, i)
      /\ WithLSB(lsb', {hash'[PrivacyFreeQuery(Xor(x, Delta), i)]}, 1) = FreeOne(hash, lsb, x, i)
  <2>1. PICK q0, q1 : q0 = PrivacyFreeQuery(x, i) /\ q1 = PrivacyFreeQuery(Xor(x, Delta), i)
    BY Zenon
  <2>2. q0 \in DOMAIN hash /\ q1 \in DOMAIN hash
    BY <1>6, <2>1 DEF FreeQueries
  <2>3. hash'[q0] = hash[q0] /\ hash'[q1] = hash[q1] /\ hash[q0] \in DOMAIN lsb /\ hash[q1] \in DOMAIN lsb
    BY <1>1, <1>8, <2>2, Zenon DEF HashesKept, Grows, GarbleTypes
  <2>4. WithLSB(lsb', {hash[q0]}, 0) = WithLSB(lsb, {hash[q0]}, 0) /\ WithLSB(lsb', {hash[q1]}, 1) = WithLSB(lsb, {hash[q1]}, 1)
    <3>1. Grows(lsb, lsb')
      BY <1>8, Zenon DEF HashesKept
    <3> QED BY <2>3, <3>1, WithLSBKept
  <2> QED BY <2>1, <2>3, <2>4, Zenon DEF FreeZero, FreeOne
<1>10. GetLSB(lsb, A) = va
  <2>1. IsFiniteSet(DOMAIN lsb) /\ lsb[0] = 1
    BY <1>1, Zenon DEF GarbleTypes
  <2>2. IsFiniteSet(x)
    BY <1>5, <2>1, FS_Subset, Zenon
  <2>3. GetLSB(lsb, x) = 0
    <3>1. Len(zero) = Inputs + Len(gates)
      BY <1>1, Zenon DEF GarbleTypes
    <3>2. Len(gates) \in Nat /\ Reached \in Nat /\ Inputs \in Nat
      BY <1>1, AndsSoFar, BatchesEven
    <3>3. g.a \in 1 .. Inputs + Len(gates)
      BY <1>2, <1>5, <1>6, <3>2
    <3> QED BY <1>1, <3>1, <3>3, Zenon DEF x
  <2>4. GetLSB(lsb, A) = (0 + va) % 2
    BY <1>5, <2>1, <2>2, <2>3, LowOfLabel, Zenon DEF A
  <2>5. va = 0 \/ va = 1
    BY <1>5, BitCases
  <2> QED BY <2>4, <2>5
<1>11. T[1] = Xor3(FreeZero(hash, lsb, x, i), FreeOne(hash, lsb, x, i), y)
  BY <1>5 DEF FreeTable
<1>12. label = Xor(FreeZero(hash, lsb, x, i), Masked(va * vb, Delta))
  <2>1. (va = 0 => A = x) /\ (va = 1 => A = Xor(x, Delta)) /\ (va = 0 \/ va = 1)
    BY <1>5, MeantCases DEF A
  <2>2. (vb = 0 \/ vb = 1) /\ 0 # 1
    BY <1>5, BitCases
  <2>3. (va = 0 => va * vb = 0) /\ (va = 1 => va * vb = vb)
    BY <2>2
  <2>4. CASE va = 0
    <3>1. label = FreeZero(hash, lsb, x, i)
      BY <1>9, <1>10, <2>1, <2>2, <2>4, Zenon
    <3>2. Masked(va * vb, Delta) = {}
      BY <2>3, <2>4 DEF Masked
    <3> QED BY <3>1, <3>2, XorFacts, Zenon
  <2>5. CASE va = 1
    <3>1. label = Xor3(FreeOne(hash, lsb, x, i), Xor3(FreeZero(hash, lsb, x, i), FreeOne(hash, lsb, x, i), y), B)
      BY <1>9, <1>10, <1>11, <2>1, <2>5, Zenon
    <3>2. PICK h0, h1, m : h0 = FreeZero(hash, lsb, x, i) /\ h1 = FreeOne(hash, lsb, x, i) /\ m = Masked(vb, Delta)
      BY Zenon
    <3>3. Xor3(h1, Xor3(h0, h1, y), Xor(y, m)) = Xor(h0, m)
      BY FreeGateAlgebra
    <3> QED BY <2>3, <2>5, <3>1, <3>2, <3>3, Zenon DEF B
  <2> QED BY <2>1, <2>4, <2>5
<1> HIDE DEF label
<1>13. PICK w \in Nat : w = Inputs + i
  BY <1>3, BatchesEven
<1>14. Followed(w, label)
  BY <1>4, <1>5, <1>6, <1>7, <1>12, <1>13, Zenon DEF Followed, g
<1>15. w = Inputs + Reached + 1
  <2>1. Reached \in Nat /\ Inputs \in Nat
    BY <1>1, AndsSoFar, BatchesEven
  <2> QED BY <1>5, <1>13, <2>1
<1> QED BY <1>2, <1>7, <1>8, <1>14, <1>15, EvaluatedOK, Zenon

\* The XOR of meant labels.
LEMMA MeantXor ==
    ASSUME NEW x, NEW y, NEW va \in Bits, NEW vb \in Bits
    PROVE  Xor(Xor(x, Masked(va, Delta)), Xor(y, Masked(vb, Delta)))
           = Xor(Xor(x, y), Masked((va + vb) % 2, Delta))
<1>1. (va = 0 \/ va = 1) /\ (vb = 0 \/ vb = 1)
  BY BitCases
<1>2. (va = 0 => (va + vb) % 2 = vb) /\ (va = 1 => (va + vb) % 2 = 1 - vb)
  BY <1>1
<1>3. CASE va = 0
  BY <1>1, <1>2, <1>3 DEF Xor, Masked
<1>4. CASE va = 1
  BY <1>1, <1>2, <1>4 DEF Xor, Masked
<1> QED BY <1>1, <1>3, <1>4

\* The meant label of a NOT is that of its input.
LEMMA MeantNot ==
    ASSUME NEW x, NEW va \in Bits
    PROVE  Xor(x, Masked(va, Delta)) = Xor(Xor(x, Delta), Masked(1 - va, Delta))
<1>1. va = 0 \/ va = 1
  BY BitCases
<1> QED BY <1>1 DEF Xor, Masked

\* The evaluator's XOR and NOT.
LEMMA EvalFreeOK ==
    ASSUME GarbleInv, \/ EvalFree("xor", Xor(active[NextGate.a], active[NextGate.b]))
                      \/ EvalFree("not", active[NextGate.a])
    PROVE  GarbleInv'
<1>1. /\ GarbleTypes /\ (scheme = "half" => Served(EvaluatorBatch, em, Ands(gates, 0, Reached)))
      /\ Reached < Len(gates) /\ tables' = tables /\ em' = em /\ hash' = hash /\ lsb' = lsb
  BY Zenon DEF GarbleInv, EvalFree, CanEvaluate, Reached
<1>2. HashesKept
  BY <1>1, Zenon DEF GarbleTypes, HashesKept, Grows
<1>3. PICK i \in Nat : AtGate(i)
  BY <1>1, NextGateOK
<1>4. PICK w \in Nat : w = Inputs + i
  BY <1>3, BatchesEven
<1> DEFINE g == gates[i]
<1>5. i = Reached + 1 /\ NextGate = g /\ GateOK(i) /\ active[g.a] = Meant(g.a) /\ active[g.b] = Meant(g.b)
      /\ value[g.a] \in Bits /\ value[g.b] \in Bits
  BY <1>3, Zenon DEF AtGate
<1>6. w = Inputs + Reached + 1
  <2>1. Reached \in Nat /\ Inputs \in Nat
    BY <1>1, AndsSoFar, BatchesEven
  <2> QED BY <1>4, <1>5, <2>1
<1>7. ASSUME NEW label, Evaluated(label), g.op # "and", label = Meant(w) PROVE GarbleInv'
  <2>1. Followed(w, label)
    BY <1>1, <1>5, <1>7, Zenon DEF Followed, Meant
  <2> QED BY <1>1, <1>2, <1>6, <1>7, <2>1, EvaluatedOK, Zenon
<1>8. CASE EvalFree("xor", Xor(active[NextGate.a], active[NextGate.b]))
  <2>1. g.op = "xor" /\ Evaluated(Xor(Meant(g.a), Meant(g.b)))
    BY <1>5, <1>8, Zenon DEF EvalFree, CanEvaluate
  <2>2. zero[w] = Xor(zero[g.a], zero[g.b]) /\ value[w] = (value[g.a] + value[g.b]) % 2
    BY <1>4, <1>5, <2>1, Zenon DEF GateOK
  <2>3. Xor(Meant(g.a), Meant(g.b)) = Meant(w)
    <3>1. PICK x, y, va, vb : /\ x = zero[g.a] /\ y = zero[g.b] /\ va = value[g.a] /\ vb = value[g.b]
                              /\ va \in Bits /\ vb \in Bits
      BY <1>5, Zenon
    <3>2. Xor(Xor(x, Masked(va, Delta)), Xor(y, Masked(vb, Delta))) = Xor(Xor(x, y), Masked((va + vb) % 2, Delta))
      BY <3>1, MeantXor
    <3> QED BY <2>2, <3>1, <3>2, Zenon DEF Meant
  <2>4. g.op # "and"
    BY <2>1
  <2> QED BY <1>7, <2>1, <2>3, <2>4, Zenon
<1>9. CASE EvalFree("not", active[NextGate.a])
  <2>1. g.op = "not" /\ Evaluated(Meant(g.a))
    BY <1>5, <1>9, Zenon DEF EvalFree, CanEvaluate
  <2>2. zero[w] = Xor(zero[g.a], Delta) /\ value[w] = 1 - value[g.a]
    BY <1>4, <1>5, <2>1, Zenon DEF GateOK
  <2>3. Meant(g.a) = Meant(w)
    <3>1. PICK x, va : x = zero[g.a] /\ va = value[g.a] /\ va \in Bits
      BY <1>5, Zenon
    <3>2. Xor(x, Masked(va, Delta)) = Xor(Xor(x, Delta), Masked(1 - va, Delta))
      BY <3>1, MeantNot
    <3> QED BY <2>2, <3>1, <3>2, Zenon DEF Meant
  <2>4. g.op # "and"
    BY <2>1
  <2> QED BY <1>7, <2>1, <2>3, <2>4, Zenon
<1> QED BY <1>8, <1>9

\* The two parties start out in step.
LEMMA GarbleInitOK == GarbleInit => GarbleInv
<1> SUFFICES ASSUME GarbleInit PROVE GarbleInv
  OBVIOUS
<1>1. Inputs \in Nat
  BY BatchesEven
<1>2. /\ scheme \in {"half", "free"} /\ gates = <<>> /\ tables = <<>> /\ hash = <<>>
      /\ zero = [v \in 1 .. Inputs |-> {v}] /\ value \in [1 .. Inputs -> Bits]
      /\ active = [v \in 1 .. Inputs |-> Xor(zero[v], Masked(value[v], Delta))]
      /\ lsb \in [-1 .. Inputs -> Bits] /\ lsb[0] = 1 /\ lsb[-1] = 1
      /\ scheme = "free" => \A v \in 1 .. Inputs : lsb[v] = 0
      /\ gm = Started(GarblerBatch) /\ em = Started(EvaluatorBatch)
  BY GarblingAssumption DEF GarbleInit
<1>3. DOMAIN lsb = -1 .. Inputs /\ {0, -1} \subseteq DOMAIN lsb /\ \A v \in 1 .. Inputs : v \in DOMAIN lsb
  BY <1>1, <1>2
<1>4. IsFiniteSet(DOMAIN lsb)
  BY <1>1, <1>3, FS_Interval
<1>5. /\ zero \in Seq(Blocks) /\ Len(zero) = Inputs /\ value \in Seq(Bits) /\ Len(value) = Inputs
  <2>1. \A v \in 1 .. Inputs : {v} \in Blocks
    BY <1>3 DEF Blocks
  <2> QED BY <1>1, <1>2, <2>1
<1>6. active \in Seq(Blocks) /\ Len(active) = Inputs /\ DOMAIN active = 1 .. Inputs
  <2>1. Delta \in SUBSET DOMAIN lsb
    BY <1>3 DEF Delta
  <2>2. ASSUME NEW v \in 1 .. Inputs PROVE Xor(zero[v], Masked(value[v], Delta)) \in Blocks
    <3>1. zero[v] \in SUBSET DOMAIN lsb
      BY <1>2, <1>3
    <3>2. Masked(value[v], Delta) \in SUBSET DOMAIN lsb
      BY <2>1, MaskedClosed
    <3> QED BY <3>1, <3>2, XorClosed DEF Blocks
  <2>3. DOMAIN active = 1 .. Inputs /\ \A v \in 1 .. Inputs : active[v] \in Blocks
    BY <1>2, <2>2, Zenon
  <2>4. active \in [1 .. Inputs -> Blocks]
    BY <1>2, <2>3
  <2> QED BY <1>1, <2>3, <2>4
<1>7. Len(gates) = 0 /\ gates \in Seq(GateType) /\ Reached = 0 /\ tables \in Seq(Seq(Blocks)) /\ DOMAIN hash = {}
      /\ Len(tables) = 0
  BY <1>1, <1>2, <1>6 DEF Reached
<1>8. GarbleTypes
  <2>1. Inputs + 0 = Inputs /\ 0 \in 0 .. 0
    BY <1>1
  <2>2. \A q \in DOMAIN hash : hash[q] \in DOMAIN lsb
    BY <1>7, Zenon
  <2> QED BY <1>2, <1>3, <1>4, <1>5, <1>6, <1>7, <2>1, <2>2, Zenon DEF GarbleTypes, GateType
<1>9. Ands(gates, 0, 0) = 0
  <2>1. AndGates(gates, 0, 0) = {}
    BY DEF AndGates
  <2> QED BY <2>1, FS_EmptySet DEF Ands
<1>10. Served(GarblerBatch, gm, 0) /\ Served(EvaluatorBatch, em, 0)
  BY <1>2, BatchesEven, StartedServes
<1>11. scheme = "free" => \A v \in 1 .. Len(zero) : GetLSB(lsb, zero[v]) = 0
  <2>1. ASSUME scheme = "free", NEW v \in 1 .. Inputs PROVE GetLSB(lsb, {v}) = 0
    <3>1. lsb[v] = 0
      BY <1>2, <2>1, Zenon
    <3>2. {u \in {v} : lsb[u] = 1} = {}
      BY <3>1
    <3>3. GetLSB(lsb, {v}) = 0 % 2
      BY <3>2, FS_EmptySet DEF GetLSB
    <3> QED BY <3>3
  <2>2. \A v \in 1 .. Inputs : zero[v] = {v}
    BY <1>2
  <2> QED BY <1>5, <2>1, <2>2, Zenon
<1>12. LabelsMatch
  BY <1>2, <1>6 DEF LabelsMatch
<1>13. \A i \in 1 .. Len(gates) : GateOK(i)
  BY <1>7
<1> QED BY <1>7, <1>8, <1>9, <1>10, <1>11, <1>12, <1>13, Zenon DEF GarbleInv

\* Every step of either party keeps the invariant.
LEMMA GarbleStep == GarbleInv /\ [GarbleNext]_garbleVars => GarbleInv'
<1> SUFFICES ASSUME GarbleInv, [GarbleNext]_garbleVars PROVE GarbleInv'
  OBVIOUS
<1>1. CASE Garble
  <2>1. PICK a \in DOMAIN zero, b \in DOMAIN zero :
            \/ scheme = "half" /\ HalfgatesGarble(a, b)
            \/ scheme = "free" /\ PrivacyFreeGarble(a, b)
            \/ FreeGates(a, b)
    BY <1>1, Zenon DEF Garble
  <2> QED BY <2>1, HalfgatesGarbleOK, PrivacyFreeGarbleOK, FreeGatesOK, Zenon
<1>2. CASE Evaluate
  BY <1>2, HalfgatesEvalOK, PrivacyFreeEvalOK, EvalFreeOK, Zenon DEF Evaluate
<1>3. CASE UNCHANGED garbleVars
  <2>1. /\ scheme' = scheme /\ gates' = gates /\ zero' = zero /\ active' = active /\ value' = value
        /\ tables' = tables /\ gm' = gm /\ em' = em /\ hash' = hash /\ lsb' = lsb
    BY <1>3 DEF garbleVars
  <2>2. Reached' = Reached /\ GarbleTypes' = GarbleTypes /\ LabelsMatch' = LabelsMatch
    BY <2>1 DEF Reached, GarbleTypes, Blocks, LabelsMatch
  <2>3. \A i : GateOK(i)' = GateOK(i)
    BY <2>1, <2>2, ZenonT(20) DEF GateOK
  <2> QED BY <2>1, <2>2, <2>3, Zenon DEF GarbleInv
<1> QED BY <1>1, <1>2, <1>3, Zenon DEF GarbleNext

\* The invariant holds.
THEOREM GarbleInvariant == GarbleSpec => []GarbleInv
<1>1. GarbleInit => GarbleInv
  BY GarbleInitOK
<1>2. GarbleInv /\ [GarbleNext]_garbleVars => GarbleInv'
  BY GarbleStep
<1> QED BY <1>1, <1>2, PTL DEF GarbleSpec

\* Half gates and privacy-free gates are correct for circuits of any size and shape,
\* key schedules of any (even) batch sizes at the two ends and any span of gids to a
\* key: the evaluator holds the label the garbler means on every wire it has reached,
\* reads values off low bits in the privacy-free scheme, and has one table coming for
\* every AND gate ahead of it.
THEOREM GarblingIsCorrect == GarbleSpec => []EvaluatorFollows
<1>1. ASSUME GarbleInv PROVE EvaluatorFollows
  <2>1. GarbleTypes /\ LabelsMatch /\ Len(tables) = Ands(gates, Reached, Len(gates))
        /\ (scheme = "free" => \A w \in 1 .. Len(zero) : GetLSB(lsb, zero[w]) = 0)
    BY <1>1, Zenon DEF GarbleInv
  <2>2. Reached \in Nat /\ Len(gates) \in Nat /\ Inputs \in Nat /\ Reached <= Len(gates)
    BY <2>1, AndsSoFar, BatchesEven
  <2>3. TablesInStep
    BY <2>1, <2>2, Zenon DEF TablesInStep, Ands, AndGates
  <2>4. ASSUME scheme = "free", NEW w \in DOMAIN active PROVE GetLSB(lsb, active[w]) = value[w]
    <3>1. /\ zero \in Seq(SUBSET DOMAIN lsb) /\ value \in Seq(Bits) /\ active \in Seq(SUBSET DOMAIN lsb)
          /\ Len(zero) = Inputs + Len(gates) /\ Len(value) = Len(zero) /\ IsFiniteSet(DOMAIN lsb) /\ lsb[0] = 1
      BY <2>1, Zenon DEF GarbleTypes, Blocks
    <3>2. w \in 1 .. Len(active) /\ Len(active) \in Nat
      BY <3>1
    <3>3. w \in 1 .. Inputs + Len(gates)
      BY <2>2, <3>2 DEF Reached
    <3>4. w \in 1 .. Len(zero) /\ w \in 1 .. Len(value)
      BY <3>1, <3>3, Zenon
    <3>5. zero[w] \subseteq DOMAIN lsb /\ value[w] \in Bits
      BY <3>1, <3>4
    <3>6. IsFiniteSet(zero[w])
      BY <3>1, <3>5, FS_Subset, Zenon
    <3>7. active[w] = Xor(zero[w], Masked(value[w], Delta)) /\ GetLSB(lsb, zero[w]) = 0
      BY <2>1, <2>4, <3>4, Zenon DEF LabelsMatch
    <3>8. GetLSB(lsb, active[w]) = (0 + value[w]) % 2
      <4>1. GetLSB(lsb, Xor(zero[w], Masked(value[w], Delta))) = (GetLSB(lsb, zero[w]) + value[w]) % 2
        BY <3>1, <3>5, <3>6, LowOfLabel, ZenonT(20)
      <4> QED BY <3>7, <4>1, Zenon
    <3>9. value[w] = 0 \/ value[w] = 1
      BY <3>5, BitCases
    <3> QED BY <3>8, <3>9
  <2> QED BY <2>1, <2>3, <2>4, Zenon DEF EvaluatorFollows, LowBitIsValue
<1> QED BY <1>1, GarbleInvariant, PTL
=============================================================================
