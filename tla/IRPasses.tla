------------------------------ MODULE IRPasses ------------------------------
(***************************************************************************)
(* Validation, analyses, transforms and the three executors of emp-tool's  *)
(* Boolean programs (ir/validate.h, passes.h, analysis.h, transform.h,     *)
(* execute.h, schedule.h, simd.h, context/digest.h).  Gates are numbered   *)
(* from 1; 0 stands for the code's -1.                                     *)
(***************************************************************************)
EXTENDS BooleanProgram, SequencesExt

Gates(p) == DOMAIN p.gates
Outputs(p) == Range(p.outputs)
Ascending(S) == SetToSortSeq(S, <)

-----------------------------------------------------------------------------
\* What a gate reads must be an input or an earlier output; one wire may be
\* written twice only in a program that says it reuses ids.
CanonicalOperands(g) ==
    /\ IsConst(g) => g.in0 = 0
    /\ IsConst(g) \/ IsNot(g) => g.in1 = 0

Written(p, k) == 0 .. p.num_inputs - 1 \cup {p.gates[j].out : j \in 1 .. k}

\* Mutant: a read is checked against the declared ids only.
ValidReuseUnwritten(p) ==
    /\ p.num_inputs <= p.num_wires
    /\ p.num_wires <= p.num_inputs + Len(p.gates)
    /\ \A k \in Gates(p) :
           /\ CanonicalOperands(p.gates[k])
           /\ Operands(p.gates[k]) \subseteq Wires(p)
           /\ p.gates[k].out \in p.num_inputs .. p.num_wires - 1

ValidReuse(p) ==
    /\ p.num_inputs <= p.num_wires
    /\ p.num_wires <= p.num_inputs + Len(p.gates)
    /\ \A k \in Gates(p) :
           /\ CanonicalOperands(p.gates[k])
           /\ Operands(p.gates[k]) \subseteq Written(p, k - 1)
           /\ p.gates[k].out \in p.num_inputs .. p.num_wires - 1

ValidateProgram(p) ==
    /\ IF p.wire_reuse = "None" THEN ValidDense(p) ELSE ValidReuse(p)
    /\ Outputs(p) \subseteq Written(p, Len(p.gates))

-----------------------------------------------------------------------------
CountPass(p) ==
    LET num(ops) == Cardinality({k \in Gates(p) : p.gates[k].op \in ops})
    IN  [ands |-> num({"And"}), xors |-> num({"Xor"}), nots |-> num({"Not"}),
         consts |-> num({"Const0", "Const1"})]

\* Mutant: only the first operand of a gate counts as a use.
LastUseIn0(p) ==
    [w \in Wires(p) |->
        Max({0} \cup {k \in Gates(p) : ~IsConst(p.gates[k]) /\ w = p.gates[k].in0})]

LastUse(p) ==
    [w \in Wires(p) |-> Max({0} \cup {k \in Gates(p) : w \in Operands(p.gates[k])})]

FirstDef(p) ==
    [w \in Wires(p) |-> Max({0} \cup {k \in Gates(p) : p.gates[k].out = w})]

\* The AND-depth at which each wire becomes available (schedule_pass).
WireLevel(p) ==
    FoldLeft(LAMBDA lv, g :
                 [lv EXCEPT ![g.out] =
                     Max({0} \cup {lv[v] : v \in Operands(g)})
                         + (IF g.op = "And" THEN 1 ELSE 0)],
             [w \in Wires(p) |-> 0], p.gates)

Depth(p) == LET level == WireLevel(p)
            IN  Max({0} \cup {level[p.gates[k].out] : k \in Gates(p)})

\* layout_pass walks back from the outputs; it follows in0 of every gate.
LayoutVisits(g) == {g.in0} \cup (IF IsNot(g) \/ IsConst(g) THEN {} ELSE {g.in1})

Reachable(p) ==
    LET def == FirstDef(p)
        more(R) == R \cup UNION {LayoutVisits(p.gates[def[w]]) :
                                     w \in {v \in R : def[v] # 0}}
        reach[n \in 0 .. p.num_wires] ==
            IF n = 0 THEN Outputs(p) ELSE more(reach[n - 1])
    IN  reach[p.num_wires]

Frees(p) == LET last == LastUse(p)
            IN  [k \in Gates(p) |-> {w \in Wires(p) \ Outputs(p) : last[w] = k}]

\* peak_live_wires walks the gates with a count of the wires still needed.
PeakLiveWires(p) ==
    LET last == LastUse(p)
        kept(w) == last[w] # 0 \/ w \in Outputs(p)
        Step(s, k) ==
            LET g == p.gates[k]
                released == {w \in Operands(g) \ Outputs(p) : last[w] = k}
            IN  [peak |-> Max({s.peak, s.active + 1}),
                 active |-> s.active + (IF kept(g.out) THEN 1 ELSE 0)
                                - Cardinality(released)]
        active0 == Cardinality({w \in 0 .. p.num_inputs - 1 : kept(w)})
    IN  FoldLeft(Step, [peak |-> active0, active |-> active0],
                 [k \in Gates(p) |-> k]).peak

\* The replay digest: FNV-1a as the sequence of the words it mixes.
GateWords(g) == <<g.op, g.in0, g.in1, g.out>>
DigestProgram(p) ==
    FoldLeft(LAMBDA h, g : h \o GateWords(g), <<"E", p.num_inputs>>, p.gates)

-----------------------------------------------------------------------------

Persist(p, target) ==
    0 .. p.num_inputs - 1 \cup Outputs(p)
        \cup (IF target = "Linear"
              THEN {p.gates[k].out : k \in {j \in Gates(p) : p.gates[j].op = "And"}}
              ELSE {})

Renamed(g, id, out) ==
    [op |-> g.op, out |-> out,
     in0 |-> IF IsConst(g) THEN 0 ELSE id[g.in0],
     in1 |-> IF IsConst(g) \/ IsNot(g) THEN 0 ELSE id[g.in1]]

Inputs(p) == [w \in 0 .. p.num_inputs - 1 |-> w]

\* Recycling at gate k: slots whose wires are last read by gate k go back on
\* the LIFO free list after the gate has taken its own slot.
CompactStep(p, target, s, k) ==
    LET g == p.gates[k]
        persist == Persist(p, target)
        last == LastUse(p)
        pops == g.out \notin persist /\ s.free # <<>>
        out == IF pops THEN Last(s.free) ELSE s.next
        nid == s.nid @@ (g.out :> out)
        freed == Ascending({w \in Wires(p) \ persist : last[w] = k})
    IN  [nid |-> nid,
         next |-> IF pops THEN s.next ELSE s.next + 1,
         free |-> (IF pops THEN Front(s.free) ELSE s.free)
                      \o [i \in DOMAIN freed |-> nid[freed[i]]],
         gates |-> Append(s.gates, Renamed(g, nid, out))]

MakeCompact(p, target) ==
    LET done == FoldLeft(LAMBDA s, k : CompactStep(p, target, s, k),
                         [nid |-> Inputs(p), next |-> p.num_inputs, free |-> <<>>,
                          gates |-> <<>>],
                         [k \in Gates(p) |-> k])
    IN  [num_wires |-> done.next, num_inputs |-> p.num_inputs, wire_reuse |-> target,
         gates |-> done.gates,
         outputs |-> [i \in DOMAIN p.outputs |-> done.nid[p.outputs[i]]]]

Uncompact(p) ==
    LET Step(s, g) ==
            LET out == p.num_inputs + Len(s.gates)
            IN  [gates |-> Append(s.gates, Renamed(g, s.cur, out)),
                 cur |-> (g.out :> out) @@ s.cur]
        done == FoldLeft(Step, [gates |-> <<>>, cur |-> Inputs(p)], p.gates)
    IN  [num_wires |-> p.num_inputs + Len(p.gates), num_inputs |-> p.num_inputs,
         wire_reuse |-> "None", gates |-> done.gates,
         outputs |-> [i \in DOMAIN p.outputs |-> done.cur[p.outputs[i]]]]

-----------------------------------------------------------------------------
\* Executors over a context: a wire holds one bit (Plain), or a vector of width bits
\* that a gate works on at once.  The wire array is the workspace's: slots not yet
\* written hold what an earlier execution left there.
Plain == 0
Do(width, op, a, b) ==
    IF width = Plain THEN Apply(op, a, b) ELSE [t \in 1 .. width |-> Apply(op, a[t], b[t])]

Loaded(p, inputs, scratch) ==
    [w \in Wires(p) |-> IF w < p.num_inputs THEN inputs[w + 1] ELSE scratch[w]]

Eval(width, w, g) == [w EXCEPT ![g.out] = Do(width, g.op, w[g.in0], w[g.in1])]

Results(p, w) == [i \in DOMAIN p.outputs |-> w[p.outputs[i]]]

Execute(width, p, inputs, scratch) ==
    Results(p, FoldLeft(LAMBDA w, g : Eval(width, w, g),
                        Loaded(p, inputs, scratch), p.gates))

MakeScheduledPlan(p) ==
    LET level == WireLevel(p)
    IN  [bucket |-> [d \in 0 .. Depth(p) |->
                        Ascending({k \in Gates(p) : level[p.gates[k].out] = d})],
         depth |-> Depth(p), num_inputs |-> p.num_inputs,
         num_wires |-> p.num_wires, num_gates |-> Len(p.gates),
         digest |-> DigestProgram(p)]

\* The always-on guard of a cached plan, and the one of debug builds.
PlanMatches(p, plan, debug) ==
    /\ p.wire_reuse = "None"
    /\ plan.num_inputs = p.num_inputs
    /\ plan.num_wires = p.num_wires
    /\ plan.num_gates = Len(p.gates)
    /\ debug => plan.digest = DigestProgram(p)

\* One level: every AND of the bucket reads before any of them is written back
\* (and_many), then the other gates of the bucket run in emission order.
RunBucket(width, p, w, bucket) ==
    LET isAnd(k) == p.gates[k].op = "And"
        ands == SelectSeq(bucket, isAnd)
        rest == SelectSeq(bucket, LAMBDA k : ~isAnd(k))
        back(v, k) == [v EXCEPT ![p.gates[k].out] =
                                  Do(width, "And", w[p.gates[k].in0], w[p.gates[k].in1])]
    IN  FoldLeft(LAMBDA v, k : Eval(width, v, p.gates[k]), FoldLeft(back, w, ands), rest)

ScheduledExecute(width, p, plan, inputs, scratch) ==
    Results(p, FoldLeft(LAMBDA w, d : RunBucket(width, p, w, plan.bucket[d - 1]),
                        Loaded(p, inputs, scratch),
                        [d \in 1 .. plan.depth + 1 |-> d]))

\* Mutant: every group packs the instances of the first one.
SimdExecuteFirst(Lanes, p, plan, instances, scratch) ==
    LET group ==
            ScheduledExecute(Lanes, p, plan,
                [i \in 1 .. p.num_inputs |->
                    [t \in 1 .. Lanes |-> t <= Len(instances) /\ instances[t][i]]],
                scratch)
        base(n) == ((n - 1) \div Lanes) * Lanes
    IN  [n \in DOMAIN instances |-> [o \in DOMAIN p.outputs |-> group[o][n - base(n)]]]

\* simd_execute_program: instances in groups of Lanes, one lane each; the lanes
\* past the last instance are padded with FALSE and not copied out.
SimdExecute(Lanes, p, plan, instances, scratch) ==
    LET group(base) ==
            ScheduledExecute(Lanes, p, plan,
                [i \in 1 .. p.num_inputs |->
                    [t \in 1 .. Lanes |->
                        base + t <= Len(instances) /\ instances[base + t][i]]],
                scratch)
        base(n) == ((n - 1) \div Lanes) * Lanes
    IN  [n \in DOMAIN instances |->
            [o \in DOMAIN p.outputs |-> group(base(n))[o][n - base(n)]]]
=============================================================================
