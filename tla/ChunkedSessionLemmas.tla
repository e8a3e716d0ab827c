------------------------ MODULE ChunkedSessionLemmas ------------------------
(***************************************************************************)
(* What the proofs of the chunked session rest on.  First plan_flush, on   *)
(* its own and for every chunk: the compacted program computes, for every  *)
(* id to keep, what the recorded gates mean.  Then the inductive invariant *)
(* of the session, its reference counts, and the recording of gates.       *)
(***************************************************************************)
EXTENDS ChunkedSession, FiniteSetTheorems, WellFoundedInduction, TLAPS

\* What the recorder guarantees of a chunk: ids are given out in increasing
\* order, and a gate reads only ids that exist when it is recorded.
ChunkOK(rec) ==
    /\ rec \in Seq(Gate)
    /\ \A i \in DOMAIN rec : \A v \in Operands(rec[i]) : v < rec[i].out
    /\ \A i, j \in DOMAIN rec : i < j => rec[i].out < rec[j].out

-----------------------------------------------------------------------------
(* Numbers, ranks.                                                          *)

\* Every nonempty set of naturals has a least element (the minimal
\* counterexample of the arguments below).
LEMMA NatMin ==
    ASSUME NEW T, T \subseteq Nat, T # {}
    PROVE  \E x \in T : \A y \in T : x <= y
<1>1. PICK x \in T : \A y \in T : ~ (<<y, x>> \in OpToRel(<, Nat))
  BY NatLessThanWellFounded, WFMin, Zenon
<1>2. \A y \in T : ~ (y < x)
  BY <1>1 DEF OpToRel
<1> QED BY <1>2

\* Numbering by how many come before: the numbers are in range and distinct
\* (note_input's and the gates' numbering in plan_flush).
Rank(S, f, v) == Cardinality({u \in S : f[u] < f[v]})

\* The rank of a member of a finite set of naturals is below its size.
LEMMA RankInRange ==
    ASSUME NEW S, IsFiniteSet(S), NEW f \in [S -> Nat], NEW v \in S
    PROVE  Rank(S, f, v) \in 0 .. Cardinality(S) - 1
<1> DEFINE B == {u \in S : f[u] < f[v]}
<1>1. B \in SUBSET S /\ v \notin B
  OBVIOUS
<1>2. IsFiniteSet(B) /\ Cardinality(B) <= Cardinality(S) /\ Cardinality(B) # Cardinality(S)
  BY <1>1, FS_Subset
<1>3. Cardinality(B) \in Nat /\ Cardinality(S) \in Nat
  BY <1>2, FS_CardinalityType
<1> HIDE DEF B
<1>4. Cardinality(B) \in 0 .. Cardinality(S) - 1
  BY <1>2, <1>3
<1> QED BY <1>4 DEF Rank, B

\* A smaller member has a smaller rank, so different members have different ranks.
LEMMA RankInjective ==
    ASSUME NEW S, IsFiniteSet(S), NEW f \in [S -> Nat],
           NEW u \in S, NEW v \in S, f[u] < f[v]
    PROVE  Rank(S, f, u) < Rank(S, f, v)
<1> DEFINE A == {x \in S : f[x] < f[u]}
           B == {x \in S : f[x] < f[v]}
<1>1. A \in SUBSET B /\ u \in B /\ u \notin A /\ B \in SUBSET S
  OBVIOUS
<1>2. IsFiniteSet(B)
  BY <1>1, FS_Subset
<1>3. IsFiniteSet(A) /\ Cardinality(A) <= Cardinality(B) /\ Cardinality(A) # Cardinality(B)
  BY <1>1, <1>2, FS_Subset
<1>4. Cardinality(A) \in Nat /\ Cardinality(B) \in Nat
  BY <1>2, <1>3, FS_CardinalityType
<1> HIDE DEF A, B
<1>5. Cardinality(A) < Cardinality(B)
  BY <1>3, <1>4
<1> QED BY <1>5 DEF Rank, A, B

-----------------------------------------------------------------------------
(* The needed gates and what they import.                                   *)

\* The worklist of plan_flush reaches the producers of the ids to keep and of
\* the operands of what it reached.
LEMMA NeededClosed ==
    ASSUME NEW rec, NEW keep
    PROVE  /\ Needed(rec, keep) \subseteq DOMAIN rec
           /\ Closed(rec, keep, Needed(rec, keep))
BY DEF Needed, Closed

\* The ids a recorded gate reads and writes are naturals.
LEMMA ChunkTypes ==
    ASSUME NEW rec, ChunkOK(rec), NEW i \in DOMAIN rec
    PROVE  /\ rec[i] \in Gate
           /\ rec[i].out \in Nat
           /\ Operands(rec[i]) \subseteq Nat
<1>1. rec[i] \in Gate
  BY DEF ChunkOK
<1> QED BY <1>1 DEF Gate, Operands

\* A gate is found from its output: ids are given out once.
LEMMA OneProducer ==
    ASSUME NEW rec, ChunkOK(rec), NEW i \in DOMAIN rec, NEW j \in DOMAIN rec,
           rec[i].out = rec[j].out
    PROVE  i = j
<1>1. i \in Nat /\ j \in Nat /\ rec[i].out \in Nat
  BY ChunkTypes DEF ChunkOK
<1>2. ~ (i < j) /\ ~ (j < i)
  BY <1>1 DEF ChunkOK
<1> QED BY <1>1, <1>2

\* The producer of an operand comes before its reader.
LEMMA ProducerFirst ==
    ASSUME NEW rec, ChunkOK(rec), NEW i \in DOMAIN rec, NEW j \in DOMAIN rec,
           rec[j].out \in Operands(rec[i])
    PROVE  j < i
<1>1. i \in Nat /\ j \in Nat /\ rec[i].out \in Nat /\ rec[j].out \in Nat
  BY ChunkTypes DEF ChunkOK
<1>2. rec[j].out < rec[i].out
  BY DEF ChunkOK
<1>3. ~ (i < j) /\ i # j
  BY <1>1, <1>2 DEF ChunkOK
<1> QED BY <1>1, <1>3

\* The needed gates and the imported ids of a flush are finitely many.
LEMMA FiniteParts ==
    ASSUME NEW rec, ChunkOK(rec), NEW needed, needed \subseteq DOMAIN rec
    PROVE  /\ IsFiniteSet(needed)
           /\ needed \subseteq Nat
           /\ IsFiniteSet(Imported(rec, needed))
           /\ Imported(rec, needed) \subseteq Nat
<1>1. Len(rec) \in Nat /\ DOMAIN rec = 1 .. Len(rec)
  BY DEF ChunkOK
<1>2. needed \in SUBSET (1 .. Len(rec)) /\ needed \subseteq Nat
  BY <1>1
<1>3. IsFiniteSet(needed)
  <2>1. IsFiniteSet(1 .. Len(rec))
    BY <1>1, FS_Interval
  <2> QED BY <1>2, <2>1, FS_Subset
<1> DEFINE ins == Imported(rec, needed)
<1>4. \A v \in ins : \E i \in needed : v \in Operands(rec[i])
  BY DEF Imported
<1>5. ins \subseteq Nat
  BY <1>4, ChunkTypes
<1>6. IsFiniteSet(ins)
  <2>1. CASE Len(rec) = 0
    <3>1. needed = {}
      BY <1>2, <2>1
    <3>2. ins = {}
      BY <3>1, <1>4
    <3> QED BY <3>2, FS_EmptySet
  <2>2. CASE Len(rec) # 0
    <3> DEFINE n == rec[Len(rec)].out
    <3>1. Len(rec) \in DOMAIN rec
      BY <1>1, <2>2
    <3>2. n \in Nat
      BY <3>1, ChunkTypes
    <3>3. ASSUME NEW v \in ins PROVE v <= n
      <4>1. PICK i \in needed : v \in Operands(rec[i])
        BY <1>4
      <4>2. i \in DOMAIN rec /\ i \in Nat /\ i <= Len(rec)
        BY <1>1, <1>2
      <4>3. rec[i].out \in Nat /\ v \in Nat /\ v < rec[i].out
        BY <4>1, <4>2, ChunkTypes DEF ChunkOK
      <4>4. rec[i].out <= n
        BY <4>2, <4>3, <3>1, <3>2, <1>1 DEF ChunkOK
      <4> HIDE DEF n
      <4> QED BY <4>3, <4>4, <3>2
    <3> HIDE DEF n, ins
    <3> QED BY <3>2, <3>3, <1>5, FS_BoundedSetOfNaturals
  <2> QED BY <2>1, <2>2
<1> QED BY <1>2, <1>3, <1>5, <1>6

\* No two imported ids are first read at the same place (note_input).
LEMMA FirstSeenInjective ==
    ASSUME NEW rec, ChunkOK(rec), NEW needed, needed \subseteq DOMAIN rec
    PROVE  /\ \A v \in Imported(rec, needed) : FirstSeen(rec, needed, v) \in Nat
           /\ \A u, v \in Imported(rec, needed) :
                  FirstSeen(rec, needed, u) = FirstSeen(rec, needed, v) => u = v
<1> DEFINE readers(v) == {j \in needed : v \in Operands(rec[j])}
           side(v, i) == IF v = rec[i].in0 THEN 0 ELSE 1
           reads(v) == {2 * i + side(v, i) : i \in readers(v)}
           ins == Imported(rec, needed)
<1>1. needed \subseteq Nat
  BY FiniteParts
<1>2. \A v \in ins : FirstSeen(rec, needed, v) \in reads(v)
  <2> SUFFICES ASSUME NEW v \in ins PROVE FirstSeen(rec, needed, v) \in reads(v)
    OBVIOUS
  <2>1. FirstSeen(rec, needed, v) = CHOOSE r \in reads(v) : \A q \in reads(v) : r <= q
    BY DEF FirstSeen
  <2>2. readers(v) # {}
    BY DEF Imported
  <2>3. reads(v) # {}
    BY <2>2
  <2>4. reads(v) \subseteq Nat
    BY <1>1
  <2> HIDE DEF reads
  <2>5. \E r \in reads(v) : \A q \in reads(v) : r <= q
    BY <2>3, <2>4, NatMin
  <2> QED BY <2>1, <2>5
<1>3. \A v \in ins : \E i \in readers(v) : FirstSeen(rec, needed, v) = 2 * i + side(v, i)
  BY <1>2
<1>4. \A u, v \in ins :
          FirstSeen(rec, needed, u) = FirstSeen(rec, needed, v) => u = v
  <2> SUFFICES ASSUME NEW u \in ins, NEW v \in ins,
                      FirstSeen(rec, needed, u) = FirstSeen(rec, needed, v)
               PROVE  u = v
    OBVIOUS
  <2>1. PICK i \in readers(u) : FirstSeen(rec, needed, u) = 2 * i + side(u, i)
    BY <1>3
  <2>2. PICK j \in readers(v) : FirstSeen(rec, needed, v) = 2 * j + side(v, j)
    BY <1>3
  <2>3. i \in Nat /\ j \in Nat /\ side(u, i) \in {0, 1} /\ side(v, j) \in {0, 1}
    BY <1>1
  <2>4. 2 * i + side(u, i) = 2 * j + side(v, j)
    BY <2>1, <2>2
  <2>5. i = j /\ side(u, i) = side(v, j)
    <3> HIDE DEF side, readers
    <3> QED BY <2>3, <2>4
  <2>6. u \in Operands(rec[i]) /\ v \in Operands(rec[i])
    BY <2>5
  <2> QED BY <2>5, <2>6 DEF Operands
<1> QED
  BY <1>1, <1>3, <1>4

\* The place of gate i among the needed gates.
Place(needed, i) == Cardinality({j \in needed : j < i})

\* The places of the needed gates are different, in range, and inverted by NeededAt.
LEMMA Places ==
    ASSUME NEW needed, IsFiniteSet(needed), needed \subseteq Nat
    PROVE  /\ \A i \in needed : Place(needed, i) \in 0 .. Cardinality(needed) - 1
           /\ \A i, j \in needed : Place(needed, i) = Place(needed, j) => i = j
           /\ \A i \in needed : NeededAt(needed, Place(needed, i)) = i
<1> DEFINE f == [j \in needed |-> j]
<1>1. f \in [needed -> Nat]
  OBVIOUS
<1>2. \A i \in needed : Rank(needed, f, i) = Place(needed, i)
  <2> SUFFICES ASSUME NEW i \in needed PROVE Rank(needed, f, i) = Place(needed, i)
    OBVIOUS
  <2>1. {u \in needed : f[u] < f[i]} = {j \in needed : j < i}
    OBVIOUS
  <2> QED BY <2>1 DEF Rank, Place
<1>3. \A i \in needed : f[i] = i
  OBVIOUS
<1> HIDE DEF f
<1>4. \A i \in needed : Place(needed, i) \in 0 .. Cardinality(needed) - 1
  BY <1>1, <1>2, RankInRange
<1>5. \A i, j \in needed : i < j => Place(needed, i) < Place(needed, j)
  <2> SUFFICES ASSUME NEW i \in needed, NEW j \in needed, i < j
               PROVE  Place(needed, i) < Place(needed, j)
    OBVIOUS
  <2>1. f[i] < f[j]
    BY <1>3
  <2>2. Rank(needed, f, i) < Rank(needed, f, j)
    BY <1>1, <2>1, RankInjective
  <2> QED BY <1>2, <2>2
<1>6. \A i, j \in needed : Place(needed, i) = Place(needed, j) => i = j
  <2> SUFFICES ASSUME NEW i \in needed, NEW j \in needed,
                      Place(needed, i) = Place(needed, j)
               PROVE  i = j
    OBVIOUS
  <2>0. Cardinality(needed) \in Nat
    BY FS_CardinalityType
  <2>1. i \in Nat /\ j \in Nat /\ Place(needed, i) \in Int /\ Place(needed, j) \in Int
    BY <1>4, <2>0
  <2>2. ~ (i < j) /\ ~ (j < i)
    BY <1>5, <2>1
  <2> QED BY <2>1, <2>2
<1>7. \A i \in needed : NeededAt(needed, Place(needed, i)) = i
  <2> SUFFICES ASSUME NEW i \in needed PROVE NeededAt(needed, Place(needed, i)) = i
    OBVIOUS
  <2>1. NeededAt(needed, Place(needed, i)) =
            CHOOSE j \in needed : Place(needed, j) = Place(needed, i)
    BY DEF NeededAt, Place
  <2> QED BY <2>1, <1>6
<1> QED BY <1>4, <1>6, <1>7

\* The numbering of plan_flush: imported ids come first, each with a number of
\* its own, then the needed gates in emission order.
LEMMA RemapFacts ==
    ASSUME NEW rec, ChunkOK(rec), NEW needed, needed \subseteq DOMAIN rec,
           NEW ins, ins = Imported(rec, needed),
           NEW remap, remap = Remap(rec, needed, ins)
    PROVE  /\ \A v \in ins : remap[v] \in 0 .. Cardinality(ins) - 1
           /\ \A u, v \in ins : remap[u] = remap[v] => u = v
           /\ \A i \in needed :
                  remap[rec[i].out] = Cardinality(ins) + Place(needed, i)
<1> DEFINE first == [v \in ins |-> FirstSeen(rec, needed, v)]
           gateOf(v) == CHOOSE i \in needed : rec[i].out = v
<1>1. /\ IsFiniteSet(ins)
      /\ first \in [ins -> Nat]
      /\ \A u, v \in ins : first[u] = first[v] => u = v
  BY FiniteParts, FirstSeenInjective
<1>2. \A v \in ins : remap[v] = Rank(ins, first, v)
  BY DEF Remap, Rank
<1>3. \A i \in needed : rec[i].out \notin ins
  BY DEF Imported, Local
<1>4. ASSUME NEW i \in needed
      PROVE  remap[rec[i].out] = Cardinality(ins) + Place(needed, i)
  <2>1. gateOf(rec[i].out) = i
    <3>1. \A j \in needed : rec[j].out = rec[i].out => j = i
      BY OneProducer
    <3> QED BY <3>1
  <2>2. remap[rec[i].out] =
            Cardinality(ins) + Cardinality({j \in needed : j < gateOf(rec[i].out)})
    BY <1>3 DEF Remap
  <2> QED BY <2>1, <2>2 DEF Place
<1> HIDE DEF first
<1>5. \A v \in ins : remap[v] \in 0 .. Cardinality(ins) - 1
  BY <1>1, <1>2, RankInRange
<1>6. ASSUME NEW u \in ins, NEW v \in ins, remap[u] = remap[v]
      PROVE  u = v
  <2>0. Cardinality(ins) \in Nat
    BY <1>1, FS_CardinalityType
  <2>1. Rank(ins, first, u) \in Int /\ Rank(ins, first, v) \in Int
        /\ Rank(ins, first, u) = Rank(ins, first, v)
    BY <2>0, <1>2, <1>5, <1>6
  <2>2. first[u] \in Nat /\ first[v] \in Nat
    BY <1>1
  <2>3. ~ (first[u] < first[v]) /\ ~ (first[v] < first[u])
    BY <1>1, <2>1, RankInjective
  <2> QED BY <1>1, <2>2, <2>3
<1> QED BY <1>4, <1>5, <1>6

-----------------------------------------------------------------------------
(* The plan.                                                                *)

\* What a gate means when cl gives the possible values of its operands.
Meaning(g, cl) ==
    IF IsConst(g) THEN {Apply(g.op, FALSE, FALSE)}
    ELSE IF IsNot(g) THEN {~x : x \in cl[g.in0]}
    ELSE {Apply(g.op, x, y) : x \in cl[g.in0], y \in cl[g.in1]}

\* The operands of g have, as wires of the plan, the one value cl allows; so has
\* the wire gate h of the plan computes.
OperandsRight(g, cl, remap, w) == \A v \in Operands(g) : cl[v] = {w[remap[v]]}
ResultRight(g, cl, h, w) == Meaning(g, cl) = {Apply(h.op, w[h.in0], w[h.in1])}

\* A gate of the plan computes the meaning of the recorded gate it stands for
\* (the second loop of plan_flush).
LEMMA CompactedMeans ==
    ASSUME NEW g, NEW cl, NEW remap, NEW w, OperandsRight(g, cl, remap, w)
    PROVE  ResultRight(g, cl, Compacted(g, remap), w)
<1> DEFINE h == Compacted(g, remap)
<1> USE DEF OperandsRight
<1> SUFFICES Meaning(g, cl) = {Apply(h.op, w[h.in0], w[h.in1])}
  BY DEF ResultRight
<1>1. /\ h.op = g.op
      /\ ~IsConst(g) => h.in0 = remap[g.in0]
      /\ ~IsConst(g) /\ ~IsNot(g) => h.in1 = remap[g.in1]
  BY DEF Compacted
<1> HIDE DEF h
<1>2. CASE IsConst(g)
  <2>1. g.op = "Const0" \/ g.op = "Const1"
    BY <1>2 DEF IsConst
  <2>2. Apply(h.op, w[h.in0], w[h.in1]) = Apply(g.op, FALSE, FALSE)
    BY <2>1, <1>1 DEF Apply
  <2> QED BY <1>2, <2>2 DEF Meaning
<1>3. CASE IsNot(g)
  <2>1. g.op = "Not" /\ ~IsConst(g)
    BY <1>3 DEF IsNot, IsConst
  <2>2. cl[g.in0] = {w[h.in0]}
    BY <2>1, <1>1, <1>3 DEF Operands
  <2>3. Apply(h.op, w[h.in0], w[h.in1]) = ~w[h.in0]
    BY <1>1, <2>1 DEF Apply
  <2>4. Meaning(g, cl) = {~x : x \in cl[g.in0]}
    BY <1>3, <2>1 DEF Meaning
  <2> QED BY <2>2, <2>3, <2>4
<1>4. CASE ~IsConst(g) /\ ~IsNot(g)
  <2>1. cl[g.in0] = {w[h.in0]} /\ cl[g.in1] = {w[h.in1]}
    BY <1>1, <1>4 DEF Operands
  <2>2. Meaning(g, cl) = {Apply(g.op, x, y) : x \in cl[g.in0], y \in cl[g.in1]}
    BY <1>4 DEF Meaning
  <2> QED BY <1>1, <2>1, <2>2
<1> QED BY <1>2, <1>3, <1>4

\* The bits are those the ids mean.
CarriesClear(bits, cl) == \A id \in DOMAIN bits : cl[id] = {bits[id]}

\* Every recorded gate's id means what its gate computes.
GatesClear(rec, cl) == \A i \in DOMAIN rec : cl[rec[i].out] = Meaning(rec[i], cl)

\* The runs of the plan's program on the carried bits.
PlanRuns(plan, bits) ==
    Runs(plan.prog, [k \in DOMAIN plan.input_ids |-> bits[plan.input_ids[k]]])

\* The plan's outputs are ids, and a run w gives each the bit it means.
PlanGives(plan, ids, cl, w) ==
    /\ DOMAIN plan.outputs = ids
    /\ \A id \in DOMAIN plan.outputs :
           plan.outputs[id] \in Wires(plan.prog) /\ cl[id] = {w[plan.outputs[id]]}

\* Running the plan on the carried bits gives every id to keep the bit its
\* recorded gate means, for every chunk, keep list and set of carried bits
\* (plan_flush and the replay of its program in run_program_into_).
THEOREM PlanSound ==
    ASSUME NEW rec, ChunkOK(rec), NEW keep, NEW bits, NEW cl,
           NEW plan, plan = PlanFlush(rec, keep, DOMAIN bits),
           plan.ok,
           NEW w \in PlanRuns(plan, bits),
           CarriesClear(bits, cl), GatesClear(rec, cl)
    PROVE  PlanGives(plan, keep \cap Local(rec), cl, w)
<1> DEFINE needed == Needed(rec, keep)
           ins == Imported(rec, needed)
           remap == Remap(rec, needed, ins)
           n == Cardinality(ins)
           m == Cardinality(needed)
           ids == [k \in 1 .. n |-> CHOOSE v \in ins : remap[v] = k - 1]
           gates == [k \in 1 .. m |->
                        Compacted(rec[NeededAt(needed, k - 1)], remap)]
           outs == [id \in keep \cap Local(rec) |-> remap[id]]
<1>1. plan = [ok |-> PlanOk(ins, DOMAIN bits),
              input_ids |-> ids,
              prog |-> [num_wires |-> n + m, num_inputs |-> n, gates |-> gates],
              outputs |-> outs]
  BY DEF PlanFlush
<1>2. /\ \A k \in 1 .. n : ids[k] = CHOOSE v \in ins : remap[v] = k - 1
      /\ DOMAIN ids = 1 .. n
  OBVIOUS
<1>3. /\ \A k \in 1 .. m : gates[k] = Compacted(rec[NeededAt(needed, k - 1)], remap)
      /\ DOMAIN gates = 1 .. m
  OBVIOUS
<1>4. /\ \A id \in keep \cap Local(rec) : outs[id] = remap[id]
      /\ DOMAIN outs = keep \cap Local(rec)
  OBVIOUS
<1> HIDE DEF ids, gates, outs
<1>5. /\ PlanOk(ins, DOMAIN bits)
      /\ plan.input_ids = ids
      /\ plan.prog.num_wires = n + m
      /\ plan.prog.num_inputs = n
      /\ plan.prog.gates = gates
      /\ plan.outputs = outs
  BY <1>1
<1> HIDE DEF n, m, remap, ins, needed
<1>6. needed \subseteq DOMAIN rec /\ Closed(rec, keep, needed)
  BY NeededClosed DEF needed
<1>7. /\ IsFiniteSet(needed) /\ needed \subseteq Nat /\ IsFiniteSet(ins)
      /\ n \in Nat /\ m \in Nat
  BY <1>6, FiniteParts, FS_CardinalityType DEF ins, n, m
<1>8. /\ \A v \in ins : remap[v] \in 0 .. n - 1
      /\ \A u, v \in ins : remap[u] = remap[v] => u = v
      /\ \A i \in needed : remap[rec[i].out] = n + Place(needed, i)
  BY <1>6, RemapFacts DEF ins, remap, n
<1>9. /\ \A i \in needed : Place(needed, i) \in 0 .. m - 1
      /\ \A i \in needed : NeededAt(needed, Place(needed, i)) = i
  BY <1>7, Places DEF m
<1>10. PICK inputs : inputs = [k \in 1 .. n |-> bits[ids[k]]]
  OBVIOUS
<1>11. IsRun(plan.prog, inputs, w)
  BY <1>2, <1>5, <1>10 DEF PlanRuns, Runs
\* An input wire holds the bit of the id it was numbered for.
<1>12. ASSUME NEW v \in ins PROVE cl[v] = {w[remap[v]]}
  <2>1. PICK k : k = remap[v] + 1
    OBVIOUS
  <2>2. k \in 1 .. n /\ remap[v] = k - 1
    BY <1>7, <1>8, <2>1
  <2>3. ids[k] = v
    <3>1. ids[k] = CHOOSE u \in ins : remap[u] = k - 1
      BY <1>2, <2>2
    <3>2. \A u \in ins : remap[u] = k - 1 => u = v
      BY <1>8, <2>2
    <3> QED BY <3>1, <3>2, <2>2
  <2>4. w[k - 1] = inputs[k]
    BY <1>5, <1>11, <2>2 DEF IsRun
  <2>5. w[remap[v]] = bits[v]
    BY <1>10, <2>2, <2>3, <2>4
  <2>6. v \in DOMAIN bits
    BY <1>5 DEF PlanOk
  <2> QED BY <2>5, <2>6 DEF CarriesClear
\* A gate's wire is its operation on the wires of its operands.
<1>13. ASSUME NEW i \in needed, \A v \in Operands(rec[i]) : cl[v] = {w[remap[v]]}
       PROVE  cl[rec[i].out] = {w[remap[rec[i].out]]}
  <2>1. PICK k : k = Place(needed, i) + 1
    OBVIOUS
  <2>2. k \in 1 .. m /\ k - 1 = Place(needed, i)
    BY <1>7, <1>9, <2>1
  <2>3. PICK h : h = Compacted(rec[i], remap)
    OBVIOUS
  <2>4. plan.prog.gates[k] = h /\ k \in DOMAIN plan.prog.gates
    <3>1. NeededAt(needed, k - 1) = i
      BY <1>9, <2>2
    <3>2. gates[k] = Compacted(rec[i], remap) /\ k \in DOMAIN gates
      BY <1>3, <2>2, <3>1
    <3> QED BY <1>5, <2>3, <3>2
  <2>5. w[h.out] = Apply(h.op, w[h.in0], w[h.in1])
    BY <1>11, <2>4 DEF IsRun
  <2>6. h.out = remap[rec[i].out]
    BY <2>3 DEF Compacted
  <2>7. Meaning(rec[i], cl) = {Apply(h.op, w[h.in0], w[h.in1])}
    <3>1. OperandsRight(rec[i], cl, remap, w)
      BY <1>13 DEF OperandsRight
    <3>2. ResultRight(rec[i], cl, Compacted(rec[i], remap), w)
      BY <3>1, CompactedMeans
    <3> QED BY <2>3, <3>2 DEF ResultRight
  <2>8. cl[rec[i].out] = Meaning(rec[i], cl)
    BY <1>6 DEF GatesClear
  <2> QED BY <2>5, <2>6, <2>7, <2>8
\* All needed gates: the first wrong one would have right operands.
<1>14. \A i \in needed : cl[rec[i].out] = {w[remap[rec[i].out]]}
  <2> DEFINE Bad == {i \in needed : cl[rec[i].out] # {w[remap[rec[i].out]]}}
  <2> SUFFICES ASSUME Bad # {} PROVE FALSE
    OBVIOUS
  <2>1. PICK i \in Bad : \A j \in Bad : i <= j
    BY <1>7, NatMin
  <2>2. ASSUME NEW v \in Operands(rec[i]) PROVE cl[v] = {w[remap[v]]}
    <3>1. CASE v \in Local(rec)
      <4>1. PICK j \in DOMAIN rec : rec[j].out = v
        BY <3>1 DEF Local
      <4>2. j \in needed
        BY <1>6, <2>2, <4>1 DEF Closed
      <4>3. j < i
        BY <1>6, <2>2, <4>1, ProducerFirst
      <4>4. i \in Nat /\ j \in Nat
        BY <1>7, <4>2
      <4>5. j \notin Bad
        <5> HIDE DEF Bad
        <5> QED BY <2>1, <4>3, <4>4
      <4> QED BY <4>1, <4>2, <4>5
    <3>2. CASE v \notin Local(rec)
      <4>1. v \in ins
        BY <3>2, <2>2 DEF Imported, ins
      <4> QED BY <4>1, <1>12
    <3> QED BY <3>1, <3>2
  <2>3. i \in needed
    OBVIOUS
  <2>4. cl[rec[i].out] = {w[remap[rec[i].out]]}
    BY <1>13, <2>2, <2>3
  <2> QED BY <2>4
<1>15. ASSUME NEW id \in keep \cap Local(rec)
       PROVE  remap[id] \in Wires(plan.prog) /\ cl[id] = {w[remap[id]]}
  <2>1. PICK i \in DOMAIN rec : rec[i].out = id
    BY DEF Local
  <2>2. i \in needed
    BY <1>6, <2>1 DEF Closed
  <2>3. remap[id] = n + Place(needed, i) /\ Place(needed, i) \in 0 .. m - 1
    BY <1>8, <1>9, <2>1, <2>2
  <2>4. plan.prog.num_wires = n + m
    BY <1>5
  <2>5. remap[id] \in 0 .. (n + m) - 1
    BY <1>7, <2>3
  <2> QED BY <1>14, <2>1, <2>2, <2>4, <2>5 DEF Wires
<1> QED BY <1>4, <1>5, <1>15 DEF PlanGives

\* When a plan is accepted, no needed gate depends on an id without a value: if a
\* lost gate always has a lost or null operand, and nothing lost is carried, then
\* nothing lost is kept (plan.ok, the error path of flush_).
LEMMA AcceptedKeepsNoneLost ==
    ASSUME NEW rec, ChunkOK(rec), NEW keep, NEW mat, NEW L,
           PlanFlush(rec, keep, mat).ok,
           L \cap mat = {},
           \A i \in DOMAIN rec : rec[i].out \in L => Operands(rec[i]) \cap L # {}
    PROVE  keep \cap Local(rec) \cap L = {}
<1> DEFINE needed == Needed(rec, keep)
           ins == Imported(rec, needed)
           Bad == {i \in needed : rec[i].out \in L}
<1>1. ins \subseteq mat
  BY DEF PlanFlush, PlanOk
<1>2. needed \subseteq DOMAIN rec /\ Closed(rec, keep, needed)
  BY NeededClosed
<1> HIDE DEF needed
<1>3. needed \subseteq Nat
  BY <1>2, FiniteParts
<1>4. Bad = {}
  <2> SUFFICES ASSUME Bad # {} PROVE FALSE
    OBVIOUS
  <2>1. PICK i \in Bad : \A j \in Bad : i <= j
    BY <1>3, NatMin
  <2>2. i \in needed /\ i \in DOMAIN rec
    BY <1>2
  <2>3. PICK v \in Operands(rec[i]) : v \in L
    BY <2>2
  <2>4. CASE v \in Local(rec)
    <3>1. PICK j \in DOMAIN rec : rec[j].out = v
      BY <2>4 DEF Local
    <3>2. j \in Bad
      BY <1>2, <2>2, <2>3, <3>1 DEF Closed
    <3>3. j < i
      BY <2>2, <3>1, ProducerFirst
    <3>4. i \in Nat /\ j \in Nat /\ i <= j
      BY <1>3, <2>1, <2>2, <3>2
    <3> QED BY <3>3, <3>4
  <2>5. CASE v \notin Local(rec)
    BY <1>1, <2>2, <2>3, <2>5 DEF Imported
  <2> QED BY <2>4, <2>5
<1> QED BY <1>2, <1>4 DEF Local, Closed

\* A plan is accepted when what is kept has a value and every gate that has one
\* reads only ids that have one (plan.ok).
LEMMA AcceptedWhenBacked ==
    ASSUME NEW rec, NEW keep, NEW mat, NEW L,
           keep \cap Local(rec) \cap L = {},
           \A i \in DOMAIN rec :
               rec[i].out \notin L =>
                   Operands(rec[i]) \subseteq (Local(rec) \cup mat) \ L
    PROVE  PlanFlush(rec, keep, mat).ok
<1> DEFINE S == {i \in DOMAIN rec : rec[i].out \notin L}
<1>1. Closed(rec, keep, S)
  BY DEF Closed, Local
<1>2. Needed(rec, keep) \subseteq S
  BY <1>1 DEF Needed
<1>3. Imported(rec, Needed(rec, keep)) \subseteq mat
  BY <1>2 DEF Imported
<1> QED BY <1>3 DEF PlanFlush, PlanOk

\* The outputs of a plan are the pending ids to keep.
LEMMA PlanOutputs ==
    ASSUME NEW rec, NEW keep, NEW mat
    PROVE  DOMAIN PlanFlush(rec, keep, mat).outputs = keep \cap Local(rec)
BY DEF PlanFlush

-----------------------------------------------------------------------------
(* The session.                                                             *)

\* The plaintext of every id, the null id included.
ClearFn == [id \in 0 .. Len(clear) |-> ClearOf(id)]

Holders(w, id) == {t \in Slot : w[t] = id}

\* counts has an entry for every id that w uses, and counts its holders.
CountsOK(w, counts) ==
    /\ counts \in Seq(Int)
    /\ w \in [Slot -> 0 .. Len(counts)]
    /\ \A id \in 1 .. Len(counts) : counts[id] = Cardinality(Holders(w, id))

-----------------------------------------------------------------------------
(* The inductive invariant.                                                 *)

Counts == CountsOK(wire, rc) /\ Len(rc) < UINT32_MAX

Tables ==
    /\ Bits(carried) /\ Bits(deferred) /\ Bits(batch.entries)
    /\ batch = [state |-> batch.state, entries |-> batch.entries]
    /\ batch.state \in {"none", "open", "finished"}
    /\ shown \in Optional
    /\ status \in {"open", "closed", "failed"}

Histories ==
    /\ clear \in Seq(Optional)
    /\ Len(clear) = Len(rc)
    /\ lost \subseteq DOMAIN rc

Chunks ==
    /\ ChunkOK(chunk)
    /\ Pending \subseteq DOMAIN rc
    /\ constWire \in [BOOLEAN -> 0 .. Len(rc)]
    /\ ConstCacheCurrent

\* A recorded gate is lost only when it reads a lost or null wire.
LostGates ==
    \A i \in DOMAIN chunk :
        chunk[i].out \in lost => Operands(chunk[i]) \cap (lost \cup {0}) # {}

Backing ==
    /\ HeldIsBacked
    /\ LostGates
    /\ StaleIsLoud
    /\ lost \cap DOMAIN batch.entries = {}

\* The history knows a recorded gate by its meaning.
GateHistory ==
    \A i \in DOMAIN chunk : clear[chunk[i].out] = Meaning(chunk[i], ClearFn)

Values == CarriedIsClear /\ GateHistory

IInv ==
    /\ Counts /\ Tables /\ Histories /\ Chunks /\ Backing /\ Values
    /\ NoWireOutlives

-----------------------------------------------------------------------------
(* Reference counts.                                                        *)

\* A function on 1 .. n is a sequence of length n.
LEMMA FunctionIsSeq ==
    ASSUME NEW n \in Nat, NEW S, NEW f \in [1 .. n -> S]
    PROVE  f \in Seq(S) /\ Len(f) = n /\ DOMAIN f = 1 .. n
OBVIOUS

\* Moving variable s from its id to another one: unpinning the old id and pinning
\* the new one keeps every count exact (ChunkWire's assignments).
LEMMA RepinExact ==
    ASSUME NEW w, NEW counts, CountsOK(w, counts), NEW s \in Slot,
           NEW id \in 0 .. Len(counts)
    PROVE  /\ CountsOK([w EXCEPT ![s] = id], Repin(counts, w[s], id))
           /\ Len(Repin(counts, w[s], id)) = Len(counts)
<1> DEFINE n == Len(counts)
           w2 == [w EXCEPT ![s] = id]
           c2 == Repin(counts, w[s], id)
<1>1. n \in Nat /\ DOMAIN counts = 1 .. n /\ counts \in [1 .. n -> Int]
  BY DEF CountsOK
<1>2. w \in [Slot -> 0 .. n] /\ w2 \in [Slot -> 0 .. n]
  BY DEF CountsOK
<1>3. c2 \in [1 .. n -> Int]
  BY <1>1 DEF Repin
<1>4. c2 \in Seq(Int) /\ Len(c2) = n
  BY <1>1, <1>3, FunctionIsSeq
<1>5. ASSUME NEW k \in 1 .. n PROVE c2[k] = Cardinality(Holders(w2, k))
  <2> DEFINE A == Holders(w, k)
             B == Holders(w2, k)
  <2>1. A \in SUBSET Slot
    BY DEF Holders
  <2>2. IsFiniteSet(A) /\ Cardinality(A) \in Nat
    BY <2>1, ConstantsOK, FS_Subset, FS_CardinalityType
  <2>3. counts[k] = Cardinality(A)
    BY DEF CountsOK
  <2>4. c2[k] = counts[k] - (IF k = w[s] THEN 1 ELSE 0) + (IF k = id THEN 1 ELSE 0)
    BY <1>1 DEF Repin
  <2>5. CASE k = w[s] /\ k = id
    <3>1. B = A
      BY <1>2, <2>5 DEF Holders
    <3> HIDE DEF A, B, c2
    <3> QED BY <2>2, <2>3, <2>4, <2>5, <3>1 DEF B
  <2>6. CASE k = w[s] /\ k # id
    <3>1. B = A \ {s} /\ s \in A
      BY <1>2, <2>6 DEF Holders
    <3> HIDE DEF A, B, c2
    <3>2. Cardinality(B) = Cardinality(A) - 1
      BY <2>2, <3>1, FS_RemoveElement
    <3> QED BY <2>2, <2>3, <2>4, <2>6, <3>2 DEF B
  <2>7. CASE k # w[s] /\ k = id
    <3>1. B = A \cup {s} /\ s \notin A
      BY <1>2, <2>7 DEF Holders
    <3> HIDE DEF A, B, c2
    <3>2. Cardinality(B) = Cardinality(A) + 1
      BY <2>2, <3>1, FS_AddElement
    <3> QED BY <2>2, <2>3, <2>4, <2>7, <3>2 DEF B
  <2>8. CASE k # w[s] /\ k # id
    <3>1. B = A
      BY <1>2, <2>8 DEF Holders
    <3> HIDE DEF A, B, c2
    <3> QED BY <2>2, <2>3, <2>4, <2>8, <3>1 DEF B
  <2> QED BY <2>5, <2>6, <2>7, <2>8
<1> HIDE DEF c2, w2, n
<1>6. CountsOK(w2, c2) /\ Len(c2) = Len(counts)
  BY <1>2, <1>4, <1>5 DEF CountsOK, n
<1> QED BY <1>6 DEF c2, w2

\* A new id starts with no holder (alloc_id_).
LEMMA AllocExact ==
    ASSUME NEW w, NEW counts, CountsOK(w, counts)
    PROVE  /\ CountsOK(w, Append(counts, 0))
           /\ Len(Append(counts, 0)) = Len(counts) + 1
<1> DEFINE n == Len(counts)
           c2 == Append(counts, 0)
<1>1. n \in Nat /\ c2 \in Seq(Int) /\ Len(c2) = n + 1
  BY DEF CountsOK
<1>2. w \in [Slot -> 0 .. n] /\ w \in [Slot -> 0 .. n + 1]
  BY <1>1 DEF CountsOK
<1>3. \A k \in 1 .. n : c2[k] = counts[k]
  BY <1>1 DEF CountsOK
<1>4. Holders(w, n + 1) = {} /\ c2[n + 1] = 0
  <2>1. c2[n + 1] = 0
    BY <1>1 DEF CountsOK
  <2>2. \A t \in Slot : w[t] # n + 1
    BY <1>1, <1>2
  <2> QED BY <2>1, <2>2 DEF Holders
<1>5. ASSUME NEW k \in 1 .. n + 1 PROVE c2[k] = Cardinality(Holders(w, k))
  <2>1. CASE k \in 1 .. n
    BY <1>3, <2>1 DEF CountsOK
  <2>2. CASE k = n + 1
    BY <1>4, <2>2, FS_EmptySet
  <2> QED BY <1>1, <2>1, <2>2
<1> HIDE DEF c2, n
<1>6. CountsOK(w, c2) /\ Len(c2) = Len(counts) + 1
  BY <1>1, <1>2, <1>5 DEF CountsOK, n
<1> QED BY <1>6 DEF c2

\* ChunkWire's move: the source gives its id up, one count changes.
LEMMA MoveExact ==
    ASSUME NEW w, NEW counts, CountsOK(w, counts), NEW s \in Slot, NEW a \in Slot, s # a
    PROVE  /\ CountsOK([w EXCEPT ![a] = 0, ![s] = w[a]], Repin(counts, w[s], 0))
           /\ Len(Repin(counts, w[s], 0)) = Len(counts)
<1> DEFINE n == Len(counts)
           w1 == [w EXCEPT ![s] = w[a]]
           c1 == Repin(counts, w[s], w[a])
           w2 == [w EXCEPT ![a] = 0, ![s] = w[a]]
           c2 == Repin(counts, w[s], 0)
<1>1. n \in Nat /\ w \in [Slot -> 0 .. n] /\ counts \in [1 .. n -> Int]
  BY DEF CountsOK
<1>2. w[a] \in 0 .. n /\ 0 \in 0 .. n
  BY <1>1
<1>3. CountsOK(w1, c1) /\ Len(c1) = n
  BY <1>2, RepinExact
<1>4. w1[a] = w[a]
  BY <1>1
<1>5. CountsOK([w1 EXCEPT ![a] = 0], Repin(c1, w1[a], 0)) /\ Len(Repin(c1, w1[a], 0)) = n
  <2> HIDE DEF w1, c1
  <2> QED BY <1>2, <1>3, RepinExact
<1>6. [w1 EXCEPT ![a] = 0] = w2
  BY <1>1
<1>7. Repin(c1, w[a], 0) = c2
  <2>1. DOMAIN c1 = 1 .. n /\ DOMAIN counts = 1 .. n
    BY <1>1 DEF Repin
  <2>2. \A k \in 1 .. n :
            c1[k] = counts[k] - (IF k = w[s] THEN 1 ELSE 0) + (IF k = w[a] THEN 1 ELSE 0)
    BY <2>1 DEF Repin
  <2> HIDE DEF c1
  <2>3. \A k \in 1 .. n :
            c1[k] - (IF k = w[a] THEN 1 ELSE 0) + (IF k = 0 THEN 1 ELSE 0)
          = counts[k] - (IF k = w[s] THEN 1 ELSE 0) + (IF k = 0 THEN 1 ELSE 0)
    BY <1>1, <2>2
  <2> QED BY <2>1, <2>3 DEF Repin
<1> QED BY <1>4, <1>5, <1>6, <1>7

\* An id some variable holds is in scope, whatever its value (rc_).
LEMMA HeldInScope ==
    ASSUME Counts, NEW s \in Slot, wire[s] # 0
    PROVE  wire[s] \in InScope
<1>1. Len(rc) \in Nat /\ DOMAIN rc = 1 .. Len(rc) /\ wire[s] \in 1 .. Len(rc)
  BY DEF Counts, CountsOK
<1> DEFINE H == Holders(wire, wire[s])
<1>2. s \in H /\ H \in SUBSET Slot
  BY DEF Holders
<1>3. IsFiniteSet(H)
  BY <1>2, ConstantsOK, FS_Subset
<1>4. Cardinality(H) \in Nat /\ Cardinality(H) # 0
  BY <1>2, <1>3, FS_CardinalityType, FS_EmptySet
<1>5. rc[wire[s]] = Cardinality(H)
  BY <1>1 DEF Counts, CountsOK
<1> HIDE DEF H
<1> QED BY <1>1, <1>4, <1>5 DEF InScope

-----------------------------------------------------------------------------
(* Calls that give a variable an id it can already have.                    *)

\* A step that only changes which variables hold which ids (no id is made, no
\* gate recorded) keeps the invariant when it keeps the counts exact.
LEMMA SameIds ==
    ASSUME IInv, status = "open",
           CountsOK(wire', rc'), Len(rc') = Len(rc),
           \A s \in Slot : wire'[s] \in {0} \cup lost \cup Backed,
           Returns, UNCHANGED <<chunk, constWire, session, batch, history>>
    PROVE  IInv'
<1>0. /\ UNCHANGED <<chunk, constWire, carried, deferred, batch, clear, lost, status>>
      /\ shown' = {}
  BY DEF Returns, session, history
<1>1. DOMAIN rc' = DOMAIN rc
  BY DEF IInv, Counts, CountsOK
<1>2. Counts'
  BY DEF IInv, Counts
<1>3. Tables'
  BY <1>0, <1>1 DEF IInv, Tables, Bits, Optional
<1>4. Histories'
  BY <1>0, <1>1 DEF IInv, Histories
<1>5. Chunks'
  BY <1>0, <1>1 DEF IInv, Chunks, Pending, ConstCacheCurrent
<1>6. Backing'
  <2>1. Backed' = Backed
    BY <1>0 DEF Backed, Pending
  <2>2. HeldIsBacked'
    BY <1>0, <2>1 DEF IInv, Backing, HeldIsBacked
  <2>3. LostGates' /\ StaleIsLoud' /\ (lost \cap DOMAIN batch.entries = {})'
    BY <1>0 DEF IInv, Backing, LostGates, StaleIsLoud
  <2> QED BY <2>2, <2>3 DEF Backing
<1>7. Values'
  BY <1>0 DEF IInv, Values, CarriedIsClear, GateHistory, ClearFn, ClearOf
<1>8. NoWireOutlives'
  BY <1>0 DEF NoWireOutlives
<1> QED BY <1>2, <1>3, <1>4, <1>5, <1>6, <1>7, <1>8 DEF IInv

\* ChunkWire copy assignment keeps the invariant, self-assignment included.
LEMMA CopyInv ==
    ASSUME IInv, status = "open", NEW s \in Slot, NEW a \in Slot, Copy(s, a)
    PROVE  IInv'
<1>1. CountsOK(wire, rc) /\ wire[a] \in 0 .. Len(rc) /\ wire \in [Slot -> 0 .. Len(rc)]
  BY DEF IInv, Counts, CountsOK
<1>2. \A t \in Slot : wire[t] \in {0} \cup lost \cup Backed
  BY DEF IInv, Backing, HeldIsBacked
<1>3. CASE wire[s] # wire[a]
  <2>1. wire' = [wire EXCEPT ![s] = wire[a]] /\ rc' = Repin(rc, wire[s], wire[a])
    BY <1>3 DEF Copy, Assign
  <2>2. CountsOK(wire', rc') /\ Len(rc') = Len(rc)
    <3>1. PICK id \in 0 .. Len(rc) : id = wire[a]
      BY <1>1
    <3>2. CountsOK(wire, rc) /\ id \in 0 .. Len(rc)
      BY <1>1, <3>1
    <3>3. /\ CountsOK([wire EXCEPT ![s] = id], Repin(rc, wire[s], id))
          /\ Len(Repin(rc, wire[s], id)) = Len(rc)
      BY <3>2, RepinExact
    <3> QED BY <2>1, <3>1, <3>3
  <2>3. \A t \in Slot : wire'[t] \in {0} \cup lost \cup Backed
    BY <1>1, <1>2, <2>1
  <2> QED BY <2>2, <2>3, SameIds DEF Copy
<1>4. CASE wire[s] = wire[a]
  <2>1. wire' = wire /\ rc' = rc
    BY <1>4 DEF Copy
  <2>2. CountsOK(wire', rc') /\ Len(rc') = Len(rc)
    BY <1>1, <2>1
  <2>3. \A t \in Slot : wire'[t] \in {0} \cup lost \cup Backed
    BY <1>2, <2>1
  <2> QED BY <2>2, <2>3, SameIds DEF Copy
<1> QED BY <1>3, <1>4

\* ChunkWire move assignment keeps the invariant.
LEMMA MoveInv ==
    ASSUME IInv, status = "open", NEW s \in Slot, NEW a \in Slot, Move(s, a)
    PROVE  IInv'
<1>1. CountsOK(wire, rc) /\ wire \in [Slot -> 0 .. Len(rc)]
  BY DEF IInv, Counts, CountsOK
<1>2. \A t \in Slot : wire[t] \in {0} \cup lost \cup Backed
  BY DEF IInv, Backing, HeldIsBacked
<1>3. /\ s # a
      /\ wire' = [wire EXCEPT ![a] = 0, ![s] = wire[a]]
      /\ rc' = Repin(rc, wire[s], 0)
  BY DEF Move
<1>4. CountsOK(wire', rc') /\ Len(rc') = Len(rc)
  BY <1>1, <1>3, MoveExact
<1>5. \A t \in Slot : wire'[t] \in {0} \cup lost \cup Backed
  BY <1>1, <1>2, <1>3
<1> QED BY <1>4, <1>5, SameIds DEF Move

\* A variable that leaves scope (~ChunkWire) keeps the invariant.
LEMMA DropInv ==
    ASSUME IInv, status = "open", NEW s \in Slot, Drop(s)
    PROVE  IInv'
<1>1. CountsOK(wire, rc) /\ wire \in [Slot -> 0 .. Len(rc)] /\ 0 \in 0 .. Len(rc)
  BY DEF IInv, Counts, CountsOK
<1>2. \A t \in Slot : wire[t] \in {0} \cup lost \cup Backed
  BY DEF IInv, Backing, HeldIsBacked
<1>3. wire' = [wire EXCEPT ![s] = 0] /\ rc' = Repin(rc, wire[s], 0)
  BY DEF Drop, Assign
<1>4. CountsOK(wire', rc') /\ Len(rc') = Len(rc)
  BY Zenon, <1>1, <1>3, RepinExact
<1>5. \A t \in Slot : wire'[t] \in {0} \cup lost \cup Backed
  BY <1>1, <1>2, <1>3
<1> QED BY <1>4, <1>5, SameIds DEF Drop

\* The cached constant is a pending gate, so the variable is backed.
LEMMA SamePublicBitInv ==
    ASSUME IInv, status = "open", NEW s \in Slot, NEW v \in BOOLEAN, SamePublicBit(s, v)
    PROVE  IInv'
<1> DEFINE id == constWire[v]
<1>1. CountsOK(wire, rc) /\ wire \in [Slot -> 0 .. Len(rc)]
  BY DEF IInv, Counts, CountsOK
<1>2. \A t \in Slot : wire[t] \in {0} \cup lost \cup Backed
  BY DEF IInv, Backing, HeldIsBacked
<1>3. wire' = [wire EXCEPT ![s] = id] /\ rc' = Repin(rc, wire[s], id)
  BY DEF SamePublicBit, Assign
<1>4. id \in 0 .. Len(rc)
  BY DEF IInv, Chunks
<1>5. id \in Backed
  BY DEF IInv, Chunks, SamePublicBit, ConstCacheCurrent, Backed, Pending, Local
<1> HIDE DEF id
<1>6. CountsOK(wire', rc') /\ Len(rc') = Len(rc)
  BY Zenon, <1>1, <1>3, <1>4, RepinExact
<1>7. \A t \in Slot : wire'[t] \in {0} \cup lost \cup Backed
  BY <1>1, <1>2, <1>3, <1>5
<1> QED BY <1>6, <1>7, SameIds DEF SamePublicBit

-----------------------------------------------------------------------------
(* Calls that make a new id.                                                *)

\* What alloc_id_ and the assignment of its result have in common.
NewId(s, n, val, isLost) ==
    /\ n = NextId /\ n # UINT32_MAX
    /\ Assign(s, n, Append(rc, 0))
    /\ clear' = Append(clear, val)
    /\ lost' = IF isLost THEN lost \cup {n} ELSE lost

\* What follows from it: there is one more id, and nothing is forgotten.
NewIdOK(n, val) ==
    /\ Counts' /\ Histories'
    /\ n = Len(rc) + 1 /\ Len(rc) \in Nat /\ Len(rc') = n
    /\ DOMAIN rc = 1 .. Len(rc) /\ DOMAIN rc' = 1 .. n
    /\ n \notin DOMAIN rc /\ n # 0 /\ DOMAIN rc' = DOMAIN rc \cup {n}
    /\ \A t \in Slot : wire'[t] \in {wire[t], n}
    /\ \A id \in DOMAIN rc : clear'[id] = clear[id]
    /\ clear'[n] = val
    /\ \A id \in 0 .. Len(rc) : ClearFn'[id] = ClearFn[id]

\* alloc_id_() and the assignment of its id to a variable.
LEMMA NewIdFacts ==
    ASSUME IInv, NEW s \in Slot, NEW n, NEW val \in Optional, NEW isLost \in BOOLEAN,
           NewId(s, n, val, isLost)
    PROVE  NewIdOK(n, val)
<1>1. /\ CountsOK(wire, rc) /\ rc \in Seq(Int) /\ Len(rc) \in Nat
      /\ DOMAIN rc = 1 .. Len(rc) /\ Len(rc) < UINT32_MAX
      /\ wire \in [Slot -> 0 .. Len(rc)]
  BY DEF IInv, Counts, CountsOK
<1>2. /\ n = Len(rc) + 1 /\ n # UINT32_MAX
      /\ wire' = [wire EXCEPT ![s] = n] /\ rc' = Repin(Append(rc, 0), wire[s], n)
  BY DEF NewId, Assign, NextId
<1>3. CountsOK(wire, Append(rc, 0)) /\ Len(Append(rc, 0)) = n
  BY <1>1, <1>2, AllocExact
<1>4. n \in 0 .. Len(Append(rc, 0))
  BY <1>1, <1>2, <1>3
<1>5. CountsOK(wire', rc') /\ Len(rc') = n
  BY <1>2, <1>3, <1>4, RepinExact
<1>6. n < UINT32_MAX
  BY <1>1, <1>2, ConstantsOK
<1>7. DOMAIN rc' = 1 .. n /\ DOMAIN rc' = DOMAIN rc \cup {n} /\ n \notin DOMAIN rc /\ n # 0
  <2>1. rc' \in Seq(Int)
    BY <1>5 DEF CountsOK
  <2>2. DOMAIN rc' = 1 .. n
    BY <1>5, <2>1
  <2>3. /\ 1 .. Len(rc) + 1 = (1 .. Len(rc)) \cup {Len(rc) + 1}
        /\ Len(rc) + 1 \notin 1 .. Len(rc) /\ Len(rc) + 1 # 0
    <3>1. PICK k \in Nat : k = Len(rc)
      BY <1>1, ZenonT(20)
    <3>2. 1 .. k + 1 = (1 .. k) \cup {k + 1} /\ k + 1 \notin 1 .. k /\ k + 1 # 0
      BY <3>1
    <3> QED BY <3>1, <3>2, SMTT(30)
  <2> QED BY <1>1, <1>2, <2>2, <2>3
<1>8. /\ clear \in Seq(Optional) /\ Len(clear) = Len(rc)
      /\ clear' = Append(clear, val) /\ lost \subseteq DOMAIN rc
      /\ lost' \subseteq lost \cup {n}
  BY DEF IInv, Histories, NewId
<1>9. /\ clear' \in Seq(Optional) /\ Len(clear') = n
      /\ \A id \in 1 .. Len(rc) : clear'[id] = clear[id]
      /\ clear'[n] = val
  BY <1>1, <1>2, <1>8
<1>10. Histories'
  BY <1>5, <1>7, <1>8, <1>9 DEF Histories
<1>11. \A id \in 0 .. Len(rc) : ClearFn'[id] = ClearFn[id]
  <2>1. Len(clear) = Len(rc) /\ Len(clear') = Len(rc) + 1
    BY <1>2, <1>8, <1>9
  <2>2. \A id \in 0 .. Len(rc) :
            /\ ClearFn[id] = IF id = 0 THEN {} ELSE clear[id]
            /\ ClearFn'[id] = IF id = 0 THEN {} ELSE clear'[id]
    BY <1>1, <2>1 DEF ClearFn, ClearOf
  <2>3. \A id \in 0 .. Len(rc) : id = 0 \/ id \in 1 .. Len(rc)
    <3>1. PICK k \in Nat : k = Len(rc)
      BY <1>1, ZenonT(20)
    <3>2. \A id \in 0 .. k : id = 0 \/ id \in 1 .. k
      BY <3>1
    <3> QED BY <3>1, <3>2, ZenonT(30)
  <2> QED BY <1>9, <2>2, <2>3, Zenon
<1>12. \A t \in Slot : wire'[t] \in {wire[t], n}
  BY <1>1, <1>2
<1>13. Counts'
  BY <1>5, <1>6 DEF Counts
<1> QED BY <1>1, <1>2, <1>5, <1>7, <1>9, <1>10, <1>11, <1>12, <1>13 DEF NewIdOK

\* The meaning of a gate depends on its operands only.
LEMMA MeaningSame ==
    ASSUME NEW g, NEW cl1, NEW cl2, \A v \in Operands(g) : cl1[v] = cl2[v]
    PROVE  Meaning(g, cl1) = Meaning(g, cl2)
<1>1. ~IsConst(g) => cl1[g.in0] = cl2[g.in0]
  BY DEF Operands
<1>2. ~IsConst(g) /\ ~IsNot(g) => cl1[g.in1] = cl2[g.in1]
  BY DEF Operands
<1> QED BY <1>1, <1>2 DEF Meaning

\* Every id with a value or a producer, and every operand, is allocated.
LEMMA BackedAllocated ==
    ASSUME IInv
    PROVE  /\ Len(rc) \in Nat /\ DOMAIN rc = 1 .. Len(rc)
           /\ Backed \subseteq DOMAIN rc
           /\ lost \subseteq DOMAIN rc
           /\ \A i \in DOMAIN chunk : /\ chunk[i].out \in DOMAIN rc
                                      /\ Operands(chunk[i]) \subseteq 0 .. Len(rc)
<1>1. Len(rc) \in Nat /\ DOMAIN rc = 1 .. Len(rc)
  BY DEF IInv, Counts, CountsOK
<1>2. Pending \subseteq DOMAIN rc /\ ChunkOK(chunk)
  BY DEF IInv, Chunks
<1>3. Backed \subseteq DOMAIN rc
  BY <1>2 DEF IInv, Tables, Bits, Backed
<1>4. lost \subseteq DOMAIN rc
  BY DEF IInv, Histories
<1>5. ASSUME NEW i \in DOMAIN chunk
      PROVE  chunk[i].out \in DOMAIN rc /\ Operands(chunk[i]) \subseteq 0 .. Len(rc)
  <2>1. chunk[i].out \in DOMAIN rc
    BY <1>2 DEF Pending, Local
  <2>2. Operands(chunk[i]) \subseteq Nat
    BY <1>2, ChunkTypes
  <2>3. \A v \in Operands(chunk[i]) : v < chunk[i].out
    BY <1>2 DEF ChunkOK
  <2> QED BY <1>1, <2>1, <2>2, <2>3
<1> QED BY <1>1, <1>3, <1>4, <1>5

\* Recording a gate (and_gate, xor_gate, not_gate, public_bit).
LEMMA Recorded ==
    ASSUME IInv, status = "open", NEW s \in Slot, NEW n, NEW val \in Optional,
           NEW isLost \in BOOLEAN, NewId(s, n, val, isLost),
           NEW g \in Gate, g.out = n, chunk' = Append(chunk, g),
           Operands(g) \subseteq {0} \cup lost \cup Backed,
           isLost <=> (Operands(g) \cap (lost \cup {0}) # {}),
           val = Meaning(g, ClearFn),
           constWire' \in [BOOLEAN -> 0 .. n], ConstCacheCurrent',
           Returns, UNCHANGED <<session, batch>>
    PROVE  IInv'
<1>0. NewIdOK(n, val)
  BY NewIdFacts, ZenonT(20)
<1>1. /\ Counts' /\ Histories'
      /\ n = Len(rc) + 1 /\ Len(rc) \in Nat /\ Len(rc') = n
      /\ DOMAIN rc = 1 .. Len(rc) /\ DOMAIN rc' = 1 .. n
      /\ n \notin DOMAIN rc /\ n # 0 /\ DOMAIN rc' = DOMAIN rc \cup {n}
      /\ \A t \in Slot : wire'[t] \in {wire[t], n}
      /\ \A id \in DOMAIN rc : clear'[id] = clear[id]
      /\ clear'[n] = val
      /\ \A id \in 0 .. Len(rc) : ClearFn'[id] = ClearFn[id]
  BY <1>0, ZenonT(20) DEF NewIdOK
<1>2. /\ Backed \subseteq DOMAIN rc /\ lost \subseteq DOMAIN rc
      /\ \A i \in DOMAIN chunk : /\ chunk[i].out \in DOMAIN rc
                                 /\ Operands(chunk[i]) \subseteq 0 .. Len(rc)
  BY BackedAllocated
<1>3. UNCHANGED <<carried, deferred, batch, status>> /\ shown' = {}
  BY DEF Returns, session
<1>4. lost' = IF isLost THEN lost \cup {n} ELSE lost
  BY DEF NewId
<1>5. ChunkOK(chunk) /\ chunk \in Seq(Gate) /\ Len(chunk) \in Nat
  BY DEF IInv, Chunks, ChunkOK
<1>6. PICK k : k = Len(chunk) + 1
  OBVIOUS
<1>7. /\ chunk' \in Seq(Gate) /\ DOMAIN chunk' = DOMAIN chunk \cup {k}
      /\ k \notin DOMAIN chunk /\ DOMAIN chunk \subseteq Nat
      /\ \A i \in DOMAIN chunk : i < k /\ chunk'[i] = chunk[i]
      /\ chunk'[k] = g
  <2>1. chunk' \in Seq(Gate) /\ Len(chunk') = k
    BY <1>5, <1>6
  <2> QED BY <1>5, <1>6, <2>1
<1>8. Operands(g) \subseteq 0 .. Len(rc)
  BY <1>1, <1>2
<1>9. Tables'
  BY <1>1, <1>3 DEF IInv, Tables, Bits, Optional
<1>10. Pending' = Pending \cup {n}
  BY <1>7 DEF Pending, Local
<1>11. ChunkOK(chunk')
  <2>1. ASSUME NEW i \in DOMAIN chunk', NEW v \in Operands(chunk'[i])
        PROVE  v < chunk'[i].out
    <3>1. CASE i = k
      BY <1>1, <1>7, <1>8, <3>1
    <3>2. CASE i \in DOMAIN chunk
      BY <1>5, <1>7, <3>2 DEF ChunkOK
    <3> QED BY <1>7, <3>1, <3>2, ZenonT(20)
  <2>2. ASSUME NEW i \in DOMAIN chunk', NEW j \in DOMAIN chunk', i < j
        PROVE  chunk'[i].out < chunk'[j].out
    <3>1. i \in DOMAIN chunk
      BY <1>5, <1>6, <1>7, <2>2
    <3>2. CASE j = k
      <4>1. chunk[i].out \in 1 .. Len(rc)
        BY <1>1, <1>2, <3>1
      <4> QED BY <1>1, <1>7, <3>1, <3>2, <4>1
    <3>3. CASE j \in DOMAIN chunk
      BY <1>5, <1>7, <2>2, <3>1, <3>3, ZenonT(20) DEF ChunkOK
    <3> QED BY <1>7, <3>2, <3>3
  <2> QED BY <1>7, <2>1, <2>2 DEF ChunkOK
<1>12. Chunks'
  <2>1. Pending' \subseteq DOMAIN rc'
    BY <1>1, <1>10, ZenonT(20) DEF IInv, Chunks
  <2> QED BY <1>1, <1>11, <2>1 DEF Chunks
<1>13. Backed' = Backed \cup {n}
  BY <1>3, <1>10 DEF Backed
<1>14. Backing'
  <2>1. HeldIsBacked
    BY ZenonT(20) DEF IInv, Backing
  <2>2. \A t \in Slot : wire'[t] \in {0} \cup lost' \cup Backed'
    BY <1>1, <1>4, <1>13, <2>1, ZenonT(20) DEF HeldIsBacked
  <2>3. ASSUME NEW i \in DOMAIN chunk'
        PROVE  chunk'[i].out \in lost' \/ Operands(chunk'[i]) \subseteq Backed' \ lost'
    <3>1. CASE i = k
      BY <1>1, <1>2, <1>4, <1>7, <1>13, <3>1, ZenonT(20)
    <3>2. CASE i \in DOMAIN chunk
      <4>1. chunk[i].out \in lost \/ Operands(chunk[i]) \subseteq Backed \ lost
        BY <2>1, <3>2 DEF HeldIsBacked
      <4> QED BY <1>1, <1>2, <1>4, <1>7, <1>13, <3>2, <4>1, ZenonT(20)
    <3> QED BY <1>7, <3>1, <3>2
  <2>4. LostGates'
    <3>1. ASSUME NEW i \in DOMAIN chunk', chunk'[i].out \in lost'
          PROVE  Operands(chunk'[i]) \cap (lost' \cup {0}) # {}
      <4>1. CASE i = k
        <5>1. n \in lost'
          BY <1>7, <3>1, <4>1, Zenon
        <5>2. n \notin lost
          BY <1>1, <1>2, Zenon
        <5>3. isLost /\ lost \subseteq lost'
          BY <1>4, <5>1, <5>2, Zenon
        <5>4. Operands(g) \cap (lost \cup {0}) # {}
          BY <5>3, Zenon
        <5> QED BY <1>7, <4>1, <5>3, <5>4, Zenon
      <4>2. CASE i \in DOMAIN chunk
        <5>1. chunk[i].out \in lost
          BY <1>1, <1>2, <1>4, <1>7, <3>1, <4>2, ZenonT(20)
        <5>2. Operands(chunk[i]) \cap (lost \cup {0}) # {}
          BY <4>2, <5>1 DEF IInv, Backing, LostGates
        <5> QED BY <1>4, <1>7, <4>2, <5>2, ZenonT(20)
      <4> QED BY <1>7, <4>1, <4>2
    <3> QED BY <3>1 DEF LostGates
  <2>5. StaleIsLoud' /\ (lost \cap DOMAIN batch.entries = {})'
    <3>1. /\ lost \cap (DOMAIN carried \cup DOMAIN deferred) = {}
          /\ lost \cap DOMAIN batch.entries = {}
      BY DEF IInv, Backing, StaleIsLoud
    <3>2. n \notin DOMAIN carried \cup DOMAIN deferred \cup DOMAIN batch.entries
      BY <1>1, <1>2, ZenonT(20) DEF Backed
    <3>3. lost' \subseteq lost \cup {n}
      BY <1>4
    <3> QED BY <1>3, <3>1, <3>2, <3>3 DEF StaleIsLoud
  <2> QED BY <2>2, <2>3, <2>4, <2>5 DEF Backing, HeldIsBacked
<1>15. CarriedIsClear'
  <2>1. \A f \in {carried, deferred, batch.entries} : DOMAIN f \subseteq DOMAIN rc
    BY DEF IInv, Tables, Bits
  <2>2. CarriedIsClear
    BY Zenon DEF IInv, Values
  <2>3. carried' = carried /\ deferred' = deferred /\ batch' = batch
    BY <1>3, Zenon
  <2>4. \A id \in DOMAIN rc : clear'[id] = clear[id]
    BY <1>1, Zenon
  <2> QED BY <2>1, <2>2, <2>3, <2>4, ZenonT(30) DEF CarriedIsClear
<1>16. GateHistory'
  <2>1. ASSUME NEW i \in DOMAIN chunk'
        PROVE  clear'[chunk'[i].out] = Meaning(chunk'[i], ClearFn')
    <3>1. CASE i = k
      <4>1. \A v \in Operands(g) : ClearFn[v] = ClearFn'[v]
        BY <1>1, <1>8
      <4>2. Meaning(g, ClearFn) = Meaning(g, ClearFn')
        BY <4>1, MeaningSame
      <4> QED BY <1>1, <1>7, <3>1, <4>2
    <3>2. CASE i \in DOMAIN chunk
      <4>1. \A v \in Operands(chunk[i]) : ClearFn[v] = ClearFn'[v]
        BY <1>1, <1>2, <3>2, ZenonT(20)
      <4>2. Meaning(chunk[i], ClearFn) = Meaning(chunk[i], ClearFn')
        BY <4>1, MeaningSame, ZenonT(20)
      <4>3. clear[chunk[i].out] = Meaning(chunk[i], ClearFn)
        BY <3>2 DEF IInv, Values, GateHistory
      <4> QED BY <1>1, <1>2, <1>7, <3>2, <4>2, <4>3, ZenonT(20)
    <3> QED BY <1>7, <3>1, <3>2, ZenonT(20)
  <2> QED BY <2>1, ZenonT(20) DEF GateHistory
<1>17. NoWireOutlives'
  BY <1>3 DEF NoWireOutlives
<1> QED BY <1>1, <1>9, <1>12, <1>14, <1>15, <1>16, <1>17 DEF IInv, Values

\* A two-operand gate gives a bit.
LEMMA ApplyType ==
    ASSUME NEW op \in {"And", "Xor"}, NEW x \in BOOLEAN, NEW y \in BOOLEAN
    PROVE  Apply(op, x, y) \in BOOLEAN
BY DEF Apply

\* A gate over optional bits gives an optional bit.
NotAll(S) == {~x : x \in S}
ApplyAll(op, S, T) == {Apply(op, x, y) : x \in S, y \in T}

\* A gate on optional bits gives an optional bit.
LEMMA OptionalGate ==
    ASSUME NEW S \in Optional, NEW T \in Optional
    PROVE  /\ NotAll(S) \in Optional
           /\ \A op \in {"And", "Xor"} : ApplyAll(op, S, T) \in Optional
<1>1. S = {} \/ \E p \in BOOLEAN : S = {p}
  BY DEF Optional
<1>2. T = {} \/ \E q \in BOOLEAN : T = {q}
  BY DEF Optional
<1>3. \A z \in BOOLEAN : {z} \in Optional
  BY DEF Optional
<1>4. {} \in Optional
  BY DEF Optional
<1>5. NotAll(S) \in Optional
  <2>1. CASE S = {}
    <3>1. NotAll(S) = {}
      BY <2>1 DEF NotAll
    <3> QED BY <3>1, <1>4
  <2>2. CASE S = {TRUE}
    <3>1. NotAll(S) = {FALSE}
      BY <2>2, Zenon DEF NotAll
    <3> QED BY <3>1, <1>3
  <2>3. CASE S = {FALSE}
    <3>1. NotAll(S) = {TRUE}
      BY <2>3, Zenon DEF NotAll
    <3> QED BY Zenon, <3>1, <1>3
  <2> QED BY <2>1, <2>2, <2>3 DEF Optional
<1>6. ASSUME NEW op \in {"And", "Xor"} PROVE ApplyAll(op, S, T) \in Optional
  <2>1. CASE S = {} \/ T = {}
    <3>1. ApplyAll(op, S, T) = {}
      BY <2>1 DEF ApplyAll
    <3> QED BY <3>1, <1>4
  <2>2. ASSUME NEW p \in BOOLEAN, NEW q \in BOOLEAN, S = {p}, T = {q}
        PROVE  ApplyAll(op, S, T) \in Optional
    <3>1. ApplyAll(op, S, T) = {Apply(op, p, q)}
      BY <2>2 DEF ApplyAll
    <3>2. Apply(op, p, q) \in BOOLEAN
      BY ApplyType
    <3> QED BY <3>1, <3>2, <1>3, Zenon
  <2> QED BY <1>1, <1>2, <2>1, <2>2
<1> QED BY <1>5, <1>6

\* The history of every id is an optional bit.
LEMMA ClearOptional ==
    ASSUME IInv, NEW id \in 0 .. Len(rc)
    PROVE  ClearOf(id) \in Optional /\ ClearFn[id] = ClearOf(id)
<1>1. clear \in Seq(Optional) /\ Len(clear) = Len(rc) /\ Len(rc) \in Nat
  BY DEF IInv, Histories, Counts, CountsOK
<1>2. ClearFn[id] = ClearOf(id)
  BY <1>1 DEF ClearFn
<1>3. CASE id = 0
  BY <1>2, <1>3 DEF ClearOf, Optional
<1>4. CASE id # 0
  <2>1. id \in 1 .. Len(clear)
    BY <1>1, <1>4
  <2>2. clear[id] \in Optional
    BY <1>1, <2>1
  <2> QED BY <1>2, <1>4, <2>2 DEF ClearOf
<1> QED BY <1>3, <1>4

\* The history of a gate is its meaning.
LEMMA ClearGateMeans ==
    ASSUME IInv, NEW g, g.op \in {"And", "Xor", "Not"}, g.in0 \in 0 .. Len(rc),
           g.in1 \in 0 .. Len(rc)
    PROVE  /\ ClearGate(g.op, g.in0, g.in1) = Meaning(g, ClearFn)
           /\ ClearGate(g.op, g.in0, g.in1) \in Optional
<1>1. PICK x \in 0 .. Len(rc) : x = g.in0
  OBVIOUS
<1>2. PICK y \in 0 .. Len(rc) : y = g.in1
  OBVIOUS
<1>3. ClearOf(x) \in Optional /\ ClearFn[x] = ClearOf(x)
  BY <1>1, ClearOptional
<1>4. ClearOf(y) \in Optional /\ ClearFn[y] = ClearOf(y)
  BY <1>2, ClearOptional
<1>5. PICK S, T : S = ClearOf(x) /\ T = ClearOf(y)
  OBVIOUS
<1>6. S \in Optional /\ T \in Optional
  BY <1>3, <1>4, <1>5
<1>7. ~IsConst(g)
  BY DEF IsConst
<1>8. CASE g.op = "Not"
  <2>1. ClearGate(g.op, g.in0, g.in1) = NotAll(S)
    BY <1>1, <1>5, <1>8 DEF ClearGate, NotAll
  <2>2. Meaning(g, ClearFn) = NotAll(S)
    BY <1>1, <1>3, <1>5, <1>7, <1>8 DEF Meaning, IsNot, NotAll
  <2>3. NotAll(S) \in Optional
    BY <1>6, OptionalGate
  <2> QED BY <2>1, <2>2, <2>3
<1>9. CASE g.op # "Not"
  <2>1. PICK op \in {"And", "Xor"} : op = g.op
    BY <1>9
  <2>2. ClearGate(g.op, g.in0, g.in1) = ApplyAll(op, S, T)
    BY <1>1, <1>2, <1>5, <1>9, <2>1 DEF ClearGate, ApplyAll
  <2>3. Meaning(g, ClearFn) = ApplyAll(op, S, T)
    BY <1>1, <1>2, <1>3, <1>4, <1>5, <1>7, <1>9, <2>1 DEF Meaning, IsNot, ApplyAll
  <2>4. ApplyAll(op, S, T) \in Optional
    BY <1>6, <2>1, OptionalGate
  <2> QED BY <2>2, <2>3, <2>4
<1> QED BY <1>8, <1>9

\* Recording leaves the gates recorded before.
LEMMA AppendKeeps ==
    ASSUME NEW S, NEW q \in Seq(S), NEW x \in S
    PROVE  \A i \in DOMAIN q : i \in DOMAIN Append(q, x) /\ Append(q, x)[i] = q[i]
  OBVIOUS

\* Recording an And, Xor or Not gate keeps the invariant.
LEMMA GateOpInv ==
    ASSUME IInv, status = "open", NEW s \in Slot, NEW op \in {"And", "Xor", "Not"},
           NEW a \in Slot, NEW b \in Slot, GateOp(s, op, a, b)
    PROVE  IInv'
<1> DEFINE n == NextId
           g == [op |-> op, in0 |-> wire[a], out |-> n,
                 in1 |-> IF op = "Not" THEN 0 ELSE wire[b]]
           val == ClearGate(op, g.in0, g.in1)
           isLost == Operands(g) \cap (lost \cup {0}) # {}
<1>1. /\ n # UINT32_MAX
      /\ chunk' = Append(chunk, g)
      /\ Assign(s, n, Append(rc, 0))
      /\ Remember(val, isLost)
      /\ Returns /\ UNCHANGED <<constWire, session, batch>>
  BY DEF GateOp
<1>2. /\ g.op = op /\ g.in0 = wire[a] /\ g.out = n
      /\ g.in1 = IF op = "Not" THEN 0 ELSE wire[b]
  OBVIOUS
<1>3. Len(rc) \in Nat /\ wire[a] \in 0 .. Len(rc) /\ wire[b] \in 0 .. Len(rc)
  BY DEF IInv, Counts, CountsOK
<1>4. g \in Gate
  BY <1>2, <1>3 DEF Gate, Op, NextId
<1> HIDE DEF g
<1>5. Operands(g) = IF op = "Not" THEN {wire[a]} ELSE {wire[a], wire[b]}
  BY <1>2 DEF Operands, IsConst, IsNot
<1>6. Operands(g) \subseteq {0} \cup lost \cup Backed
  BY <1>5 DEF IInv, Backing, HeldIsBacked
<1>7. g.op \in {"And", "Xor", "Not"} /\ g.in0 \in 0 .. Len(rc) /\ g.in1 \in 0 .. Len(rc)
  BY <1>2, <1>3
<1>8. val = Meaning(g, ClearFn) /\ val \in Optional
  <2>1. /\ ClearGate(g.op, g.in0, g.in1) = Meaning(g, ClearFn)
        /\ ClearGate(g.op, g.in0, g.in1) \in Optional
    BY <1>7, ClearGateMeans
  <2> QED BY <1>2, <2>1
<1>10. NewId(s, n, val, isLost) /\ isLost \in BOOLEAN
  BY <1>1 DEF NewId, Remember
<1>11. PICK m : m = n
  OBVIOUS
<1>12. PICK v, l : v = val /\ l = isLost
  OBVIOUS
<1>13. constWire' \in [BOOLEAN -> 0 .. m] /\ ConstCacheCurrent'
  <2>1. m = Len(rc) + 1
    BY <1>11 DEF NextId
  <2>2. constWire \in [BOOLEAN -> 0 .. Len(rc)] /\ ConstCacheCurrent /\ chunk \in Seq(Gate)
    BY DEF IInv, Chunks, ChunkOK
  <2>3. constWire' = constWire
    BY <1>1, ZenonT(20)
  <2>4. chunk' = Append(chunk, g)
    BY <1>1, ZenonT(20)
  <2> HIDE DEF g
  <2>5. \A i \in DOMAIN chunk : i \in DOMAIN chunk' /\ chunk'[i] = chunk[i]
    BY <1>4, <2>2, <2>4, AppendKeeps
  <2> QED BY <1>3, <2>1, <2>2, <2>3, <2>5 DEF ConstCacheCurrent
<1> HIDE DEF n, val, isLost
<1>14. g.out = m
  BY <1>2, <1>11
<1>15. NewId(s, m, v, l) /\ l \in BOOLEAN /\ v \in Optional /\ v = Meaning(g, ClearFn)
  BY <1>8, <1>10, <1>11, <1>12
<1>16. l <=> (Operands(g) \cap (lost \cup {0}) # {})
  BY <1>12 DEF isLost
<1>17. Returns /\ UNCHANGED <<session, batch>>
  BY <1>1
<1> QED BY Zenon, <1>1, <1>4, <1>6, <1>13, <1>14, <1>15, <1>16, <1>17, Recorded

\* The first public_bit of a value in a chunk keeps the invariant.
LEMMA NewPublicBitInv ==
    ASSUME IInv, status = "open", NEW s \in Slot, NEW c \in BOOLEAN, NewPublicBit(s, c)
    PROVE  IInv'
<1>1. PICK n : n = NextId
  OBVIOUS
<1>2. PICK g : g = [op |-> ConstOp(c), in0 |-> 0, in1 |-> 0, out |-> n]
  OBVIOUS
<1>3. /\ NewId(s, n, {c}, FALSE)
      /\ chunk' = Append(chunk, g)
      /\ constWire' = [constWire EXCEPT ![c] = n]
      /\ Returns /\ UNCHANGED <<session, batch>>
  BY <1>1, <1>2, ZenonT(20) DEF NewPublicBit, NewId, Remember
<1>4. n = Len(rc) + 1 /\ Len(rc) \in Nat
  BY <1>1 DEF NextId, IInv, Counts, CountsOK
<1>5. /\ g \in Gate /\ g.out = n /\ g.op = ConstOp(c)
  BY <1>2, <1>4 DEF Gate, Op, ConstOp
<1>6. IsConst(g) /\ Operands(g) = {}
  BY <1>5 DEF IsConst, Operands, ConstOp
<1>7. Meaning(g, ClearFn) = {c}
  <2>1. Apply(g.op, FALSE, FALSE) = c
    BY <1>5 DEF Apply, ConstOp
  <2>2. Meaning(g, ClearFn) = {Apply(g.op, FALSE, FALSE)}
    BY <1>6 DEF Meaning
  <2> QED BY <2>1, <2>2, Zenon
<1>8. {c} \in Optional
  BY ZenonT(20) DEF Optional
<1>9. constWire' \in [BOOLEAN -> 0 .. n] /\ ConstCacheCurrent'
  <2>1. constWire \in [BOOLEAN -> 0 .. Len(rc)] /\ ConstCacheCurrent /\ chunk \in Seq(Gate)
    BY DEF IInv, Chunks, ChunkOK
  <2>2. \A i \in DOMAIN chunk : i \in DOMAIN chunk' /\ chunk'[i] = chunk[i]
    BY <1>3, <1>5, <2>1
  <2>3. \E i \in DOMAIN chunk' : chunk'[i] = g
    <3>1. Len(chunk) + 1 \in DOMAIN chunk' /\ chunk'[Len(chunk) + 1] = g
      BY <1>3, <1>5, <2>1
    <3> QED BY <3>1
  <2>4. constWire' \in [BOOLEAN -> 0 .. n]
    BY <1>3, <1>4, <2>1
  <2>5. ASSUME NEW v \in BOOLEAN, constWire'[v] # 0
        PROVE  \E i \in DOMAIN chunk' : /\ chunk'[i].out = constWire'[v]
                                        /\ chunk'[i].op = ConstOp(v)
    <3>1. CASE v = c
      BY <1>3, <1>5, <2>1, <2>3, <3>1, ZenonT(20)
    <3>2. CASE v # c
      <4>1. constWire'[v] = constWire[v]
        BY <1>3, <2>1, <3>2
      <4> QED BY <2>1, <2>2, <2>5, <4>1 DEF ConstCacheCurrent
    <3> QED BY <3>1, <3>2
  <2> QED BY <2>4, <2>5 DEF ConstCacheCurrent
<1>10. PICK v, l : v = {c} /\ l = FALSE
  OBVIOUS
<1>11. NewId(s, n, v, l) /\ v \in Optional /\ l \in BOOLEAN /\ v = Meaning(g, ClearFn)
  BY <1>3, <1>7, <1>8, <1>10, ZenonT(20)
<1>12. /\ Operands(g) \subseteq {0} \cup lost \cup Backed
       /\ l <=> (Operands(g) \cap (lost \cup {0}) # {})
  BY <1>6, <1>10
<1> QED BY <1>3, <1>5, <1>9, <1>11, <1>12, Recorded

-----------------------------------------------------------------------------
(* Inputs and results of compiled circuits.                                 *)

\* What a table extended by another one holds.
LEMMA ExtendFacts ==
    ASSUME NEW f, NEW g
    PROVE  /\ DOMAIN Extend(f, g) = DOMAIN f \cup DOMAIN g
           /\ \A id \in DOMAIN g : Extend(f, g)[id] = g[id]
           /\ \A id \in DOMAIN f \ DOMAIN g : Extend(f, g)[id] = f[id]
BY DEF Extend

\* No bit is kept for the null id.
LEMMA NoNullBits ==
    ASSUME IInv, NEW f, Bits(f)
    PROVE  0 \notin DOMAIN f
<1>1. DOMAIN f \subseteq DOMAIN rc
  BY DEF Bits
<1>2. 0 \notin DOMAIN rc
  BY DEF IInv, Counts, CountsOK
<1> QED BY <1>1, <1>2

\* The carried and the deferred bits together: allocated ids, none of them lost,
\* with their plaintext.
LEMMA SettledFacts ==
    ASSUME IInv
    PROVE  /\ DOMAIN Settled = DOMAIN carried \cup DOMAIN deferred
           /\ Bits(Settled)
           /\ lost \cap DOMAIN Settled = {}
           /\ \A id \in DOMAIN Settled : clear[id] = {Settled[id]}
<1>1. /\ DOMAIN Settled = DOMAIN carried \cup DOMAIN deferred
      /\ \A id \in DOMAIN deferred : Settled[id] = deferred[id]
      /\ \A id \in DOMAIN carried \ DOMAIN deferred : Settled[id] = carried[id]
  BY Zenon, ExtendFacts DEF Settled
<1>2. Bits(carried) /\ Bits(deferred)
  BY DEF IInv, Tables
<1>3. Bits(Settled)
  BY <1>1, <1>2 DEF Bits
<1>4. lost \cap DOMAIN Settled = {}
  BY <1>1 DEF IInv, Backing, StaleIsLoud
<1>5. /\ \A id \in DOMAIN carried : clear[id] = {carried[id]}
      /\ \A id \in DOMAIN deferred : clear[id] = {deferred[id]}
  BY DEF IInv, Values, CarriedIsClear
<1>6. \A id \in DOMAIN Settled : clear[id] = {Settled[id]}
  BY <1>1, <1>5
<1> QED BY <1>1, <1>3, <1>4, <1>6

\* A call that makes a new id with a value and records no gate.
LEMMA Provided ==
    ASSUME IInv, status = "open", NEW s \in Slot, NEW n, NEW b \in BOOLEAN,
           NewId(s, n, {b}, FALSE), Returns, UNCHANGED <<chunk, constWire>>,
           Tables', CarriedIsClear',
           DOMAIN carried' \cup DOMAIN deferred' \cup DOMAIN batch'.entries
             = DOMAIN carried \cup DOMAIN deferred \cup DOMAIN batch.entries \cup {n}
    PROVE  IInv'
<1>0. NewIdOK(n, {b})
  <2>1. {b} \in Optional
    BY Zenon DEF Optional
  <2> QED BY <2>1, NewIdFacts, ZenonT(20)
<1>1. /\ Counts' /\ Histories'
      /\ n = Len(rc) + 1 /\ Len(rc) \in Nat /\ Len(rc') = n
      /\ DOMAIN rc = 1 .. Len(rc)
      /\ n \notin DOMAIN rc /\ DOMAIN rc' = DOMAIN rc \cup {n}
      /\ \A t \in Slot : wire'[t] \in {wire[t], n}
      /\ \A id \in DOMAIN rc : clear'[id] = clear[id]
      /\ \A id \in 0 .. Len(rc) : ClearFn'[id] = ClearFn[id]
  BY <1>0 DEF NewIdOK
<1>2. /\ lost \subseteq DOMAIN rc
      /\ \A i \in DOMAIN chunk : /\ chunk[i].out \in DOMAIN rc
                                 /\ Operands(chunk[i]) \subseteq 0 .. Len(rc)
  BY BackedAllocated
<1>3. lost' = lost /\ chunk' = chunk /\ constWire' = constWire /\ status' = "open"
  BY SMTT(30) DEF NewId, Returns
<1>4. Chunks'
  <2>1. Pending' = Pending
    BY <1>3 DEF Pending
  <2>2. constWire \in [BOOLEAN -> 0 .. n]
    <3>1. constWire \in [BOOLEAN -> 0 .. Len(rc)]
      BY Zenon DEF IInv, Chunks
    <3>2. 0 .. Len(rc) \subseteq 0 .. n
      <4>1. PICK k \in Nat : k = Len(rc) /\ n = k + 1
        BY <1>1, ZenonT(20)
      <4> QED BY <4>1, SMTT(30)
    <3> QED BY <3>1, <3>2
  <2>3. ConstCacheCurrent'
    BY <1>3, ZenonT(20) DEF IInv, Chunks, ConstCacheCurrent
  <2> QED BY <1>1, <1>3, <2>1, <2>2, <2>3, ZenonT(20) DEF IInv, Chunks
<1>5. Backed' = Backed \cup {n}
  BY <1>3 DEF Backed, Pending
<1>6. Backing'
  <2>1. HeldIsBacked'
    BY <1>1, <1>3, <1>5 DEF IInv, Backing, HeldIsBacked
  <2>2. LostGates'
    BY <1>3, ZenonT(20) DEF IInv, Backing, LostGates
  <2>3. lost \cap (DOMAIN carried \cup DOMAIN deferred \cup DOMAIN batch.entries) = {}
    BY ZenonT(20) DEF IInv, Backing, StaleIsLoud
  <2>4. lost' \cap (DOMAIN carried' \cup DOMAIN deferred' \cup DOMAIN batch'.entries) = {}
    BY <1>1, <1>2, <1>3, <2>3, ZenonT(20)
  <2>5. StaleIsLoud' /\ (lost \cap DOMAIN batch.entries = {})'
    BY <2>4, SMTT(30) DEF StaleIsLoud
  <2> QED BY <2>1, <2>2, <2>5, ZenonT(20) DEF Backing
<1>7. GateHistory'
  <2>1. ASSUME NEW i \in DOMAIN chunk
        PROVE  clear'[chunk[i].out] = Meaning(chunk[i], ClearFn')
    <3>1. \A v \in Operands(chunk[i]) : ClearFn[v] = ClearFn'[v]
      BY <1>1, <1>2
    <3>2. Meaning(chunk[i], ClearFn) = Meaning(chunk[i], ClearFn')
      BY <3>1, MeaningSame
    <3>3. clear[chunk[i].out] = Meaning(chunk[i], ClearFn)
      BY DEF IInv, Values, GateHistory
    <3> QED BY <1>1, <1>2, <3>2, <3>3, ZenonT(20)
  <2> QED BY <1>3, <2>1, ZenonT(30) DEF GateHistory
<1>8. NoWireOutlives'
  BY <1>3 DEF NoWireOutlives
<1> QED BY <1>1, <1>4, <1>6, <1>7, <1>8 DEF IInv, Values

\* A table of right bits, and the same table with the new id's bit.
RightBits(f) == Bits(f) /\ \A id \in DOMAIN f : clear[id] = {f[id]}

\* The tables of the session hold right bits.
LEMMA RightTables ==
    ASSUME IInv
    PROVE  RightBits(carried) /\ RightBits(deferred) /\ RightBits(batch.entries)
BY DEF IInv, Tables, Values, CarriedIsClear, RightBits

With(f, n, b) == Extend(f, [id \in {n} |-> b])

\* The same of a table after the step.
RightAfter(g) ==
    /\ DOMAIN g \subseteq DOMAIN rc'
    /\ \A id \in DOMAIN g : g[id] \in BOOLEAN /\ clear'[id] = {g[id]}

\* A bit added for the new id.
LEMMA OneMore ==
    ASSUME NEW f, RightBits(f), NEW n, NEW b \in BOOLEAN, NewIdOK(n, {b})
    PROVE  RightAfter(With(f, n, b)) /\ DOMAIN With(f, n, b) = DOMAIN f \cup {n}
<1>1. PICK one : one = [id \in {n} |-> b]
  OBVIOUS
<1>2. DOMAIN one = {n} /\ one[n] = b
  BY <1>1
<1>3. PICK g : g = Extend(f, one)
  OBVIOUS
<1>4. g = With(f, n, b)
  BY <1>1, <1>3 DEF With
<1>5. /\ DOMAIN g = DOMAIN f \cup {n} /\ g[n] = b
      /\ \A id \in DOMAIN f \ {n} : g[id] = f[id]
  BY <1>2, <1>3 DEF Extend
<1>6. /\ DOMAIN rc' = DOMAIN rc \cup {n} /\ n \notin DOMAIN rc /\ clear'[n] = {b}
      /\ \A id \in DOMAIN rc : clear'[id] = clear[id]
  BY DEF NewIdOK
<1>7. /\ DOMAIN f \subseteq DOMAIN rc
      /\ \A id \in DOMAIN f : f[id] \in BOOLEAN /\ clear[id] = {f[id]}
  BY DEF RightBits, Bits
<1>8. RightAfter(g)
  BY <1>5, <1>6, <1>7 DEF RightAfter
<1> QED BY <1>4, <1>5, <1>8

\* A table the step leaves alone.
LEMMA SameBits ==
    ASSUME NEW f, RightBits(f), NEW n, NEW val, NewIdOK(n, val)
    PROVE  RightAfter(f)
BY DEF RightBits, Bits, NewIdOK, RightAfter

\* The invariant's conjuncts on the tables, from the tables' being right.
LEMMA TablesAfter ==
    ASSUME RightAfter(carried'), RightAfter(deferred'), RightAfter(batch'.entries),
           batch' = [state |-> batch'.state, entries |-> batch'.entries],
           batch'.state \in {"none", "open", "finished"},
           shown' \in Optional, status' \in {"open", "closed", "failed"}
    PROVE  Tables' /\ CarriedIsClear'
<1>1. Tables'
  BY DEF Tables, Bits, RightAfter
<1>2. CarriedIsClear'
  BY DEF CarriedIsClear, RightAfter
<1> QED BY <1>1, <1>2
=============================================================================
