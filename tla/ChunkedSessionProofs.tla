------------------------ MODULE ChunkedSessionProofs ------------------------
(***************************************************************************)
(* The chunked session is right for every number of variables, every id    *)
(* space and every set of compiled circuits: its operations keep the       *)
(* invariant of ChunkedSessionLemmas.  From the invariant: checkpoint() is *)
(* exact, and the chunked session implements the clear one.                *)
(***************************************************************************)
EXTENDS ChunkedSessionLemmas

-----------------------------------------------------------------------------
(* The operations.                                                          *)

\* An input, authenticated now or deferred, keeps the invariant.
LEMMA InputInv ==
    ASSUME IInv, status = "open", NEW s \in Slot, NEW b \in BOOLEAN, Input(s, b)
    PROVE  IInv'
<1>1. PICK n : n = NextId
  OBVIOUS
<1>3. /\ NewId(s, n, {b}, FALSE)
      /\ carried' = IF Defers THEN carried ELSE With(carried, n, b)
      /\ deferred' = IF Defers THEN With(deferred, n, b) ELSE deferred
      /\ Returns /\ UNCHANGED <<chunk, constWire, batch>>
  BY <1>1 DEF Input, NewId, Remember, Authenticate, With
<1>4. NewIdOK(n, {b})
  <2>1. {b} \in Optional
    BY DEF Optional
  <2> QED BY <1>3, <2>1, NewIdFacts
<1>5. RightBits(carried) /\ RightBits(deferred) /\ RightBits(batch.entries)
  BY RightTables
<1>6. RightAfter(With(carried, n, b)) /\ DOMAIN With(carried, n, b) = DOMAIN carried \cup {n}
  BY <1>4, <1>5, OneMore
<1>7. RightAfter(With(deferred, n, b)) /\ DOMAIN With(deferred, n, b) = DOMAIN deferred \cup {n}
  BY Zenon, <1>4, <1>5, OneMore
<1>8. RightAfter(carried) /\ RightAfter(deferred) /\ RightAfter(batch.entries)
  BY <1>4, <1>5, SameBits
<1>9. /\ batch' = batch /\ shown' = {} /\ status' = "open"
      /\ batch = [state |-> batch.state, entries |-> batch.entries]
      /\ batch.state \in {"none", "open", "finished"}
  BY <1>3 DEF Returns, IInv, Tables
<1>10. /\ RightAfter(carried') /\ RightAfter(deferred')
       /\ DOMAIN carried' \cup DOMAIN deferred' = DOMAIN carried \cup DOMAIN deferred \cup {n}
  <2>1. CASE Defers
    BY <2>1, <1>3, <1>7, <1>8
  <2>2. CASE ~Defers
    BY <2>2, <1>3, <1>6, <1>8
  <2> QED BY <2>1, <2>2
<1>11. Tables' /\ CarriedIsClear'
  <2>1. RightAfter(batch'.entries) /\ shown' \in Optional
    BY <1>8, <1>9 DEF Optional
  <2> QED BY <1>9, <1>10, <2>1, TablesAfter
<1>12. DOMAIN carried' \cup DOMAIN deferred' \cup DOMAIN batch'.entries
         = DOMAIN carried \cup DOMAIN deferred \cup DOMAIN batch.entries \cup {n}
  BY <1>9, <1>10
<1> QED BY <1>3, <1>11, <1>12, Provided

\* InputBatch::add keeps the invariant.
LEMMA BatchAddInv ==
    ASSUME IInv, status = "open", NEW s \in Slot, NEW b \in BOOLEAN, BatchAdd(s, b)
    PROVE  IInv'
<1>1. PICK n : n = NextId
  OBVIOUS
<1>2. PICK e : e = With(batch.entries, n, b)
  OBVIOUS
<1>3. /\ NewId(s, n, {b}, FALSE)
      /\ batch' = [batch EXCEPT !.entries = e]
      /\ Returns /\ UNCHANGED <<chunk, constWire, carried, deferred>>
  BY <1>1, <1>2 DEF BatchAdd, NewId, Remember, session, With
<1>4. NewIdOK(n, {b})
  <2>1. {b} \in Optional
    BY DEF Optional
  <2> QED BY Zenon, <1>3, <2>1, NewIdFacts
<1>5. RightBits(carried) /\ RightBits(deferred) /\ RightBits(batch.entries)
  BY RightTables
<1>6. RightAfter(e) /\ DOMAIN e = DOMAIN batch.entries \cup {n}
  <2>1. PICK f : f = batch.entries
    OBVIOUS
  <2>2. RightAfter(With(f, n, b)) /\ DOMAIN With(f, n, b) = DOMAIN f \cup {n}
    BY Zenon, <1>4, <1>5, <2>1, OneMore
  <2> QED BY <1>2, <2>1, <2>2
<1>7. /\ batch' = [state |-> batch.state, entries |-> e]
      /\ batch.state \in {"none", "open", "finished"}
      /\ shown' = {} /\ status' = "open"
  BY <1>3 DEF IInv, Tables, Returns
<1>8. RightAfter(carried) /\ RightAfter(deferred)
  BY <1>4, <1>5, SameBits
<1>9. batch'.entries = e /\ batch'.state = batch.state
  BY <1>7
<1>11. Tables' /\ CarriedIsClear'
  <2>1. RightAfter(carried') /\ RightAfter(deferred')
    BY <1>3, <1>8
  <2>2. RightAfter(batch'.entries) /\ shown' \in Optional
    BY <1>6, <1>7, <1>9 DEF Optional
  <2>3. /\ batch' = [state |-> batch'.state, entries |-> batch'.entries]
        /\ batch'.state \in {"none", "open", "finished"}
        /\ status' \in {"open", "closed", "failed"}
    BY <1>7, <1>9
  <2> QED BY <2>1, <2>2, <2>3, TablesAfter
<1>12. DOMAIN carried' \cup DOMAIN deferred' \cup DOMAIN batch'.entries
         = DOMAIN carried \cup DOMAIN deferred \cup DOMAIN batch.entries \cup {n}
  BY <1>3, <1>6, <1>9
<1>13. UNCHANGED <<chunk, constWire>>
  BY <1>3
<1> QED BY <1>3, <1>11, <1>12, <1>13, Provided

\* A compiled circuit run on carried bits gives its plaintext result: its run is
\* decided by its inputs.
LEMMA RunCircuitInv ==
    ASSUME IInv, status = "open", NEW s \in Slot, NEW c \in Circuits,
           NEW args \in [1 .. c.num_inputs -> Slot], RunCircuit(s, c, args)
    PROVE  IInv'
<1>1. PICK n : n = NextId
  OBVIOUS
<1>2. DOMAIN args = 1 .. c.num_inputs /\ \A i \in DOMAIN args : wire[args[i]] \in DOMAIN Settled
  BY ZenonT(30) DEF RunCircuit, Unflushed
<1>3. PICK w \in Runs(c, [i \in DOMAIN args |-> Settled[wire[args[i]]]]) :
          carried' = Extend(Settled, [id \in {n} |-> Result(c, w)])
  BY <1>1 DEF RunCircuit
<1>4. PICK in \in [DOMAIN args -> BOOLEAN] : \E v \in Runs(c, in) :
          /\ \A i \in DOMAIN args : clear[wire[args[i]]] = {in[i]}
          /\ clear' = Append(clear, {v[c.num_wires - 1]})
  BY Zenon DEF RunCircuit
<1>5. PICK v \in Runs(c, in) :
          /\ \A i \in DOMAIN args : clear[wire[args[i]]] = {in[i]}
          /\ clear' = Append(clear, {v[c.num_wires - 1]})
  BY <1>4, Zenon
<1>6. /\ DOMAIN Settled = DOMAIN carried \cup DOMAIN deferred /\ Bits(Settled)
      /\ \A id \in DOMAIN Settled : clear[id] = {Settled[id]}
  BY SettledFacts
<1>7. [i \in DOMAIN args |-> Settled[wire[args[i]]]] = in
  <2>1. \A i \in DOMAIN args : Settled[wire[args[i]]] = in[i]
    BY ZenonT(30), <1>2, <1>5, <1>6
  <2>2. in = [i \in DOMAIN args |-> in[i]]
    BY <1>4
  <2> QED BY <2>1, <2>2
<1>8. /\ c \in Program /\ c.num_wires > 0
      /\ \A in2 \in [1 .. c.num_inputs -> BOOLEAN] : \A w1, w2 \in Runs(c, in2) : w1 = w2
  BY CircuitsOK
<1>9. w = v
  BY Zenon, <1>2, <1>3, <1>4, <1>5, <1>7, <1>8
<1>10. PICK b : b = w[c.num_wires - 1]
  OBVIOUS
<1>11. b \in BOOLEAN
  <2>1. c.num_wires \in Nat
    BY <1>8 DEF Program
  <2>2. c.num_wires - 1 \in Wires(c)
    BY <1>8, <2>1 DEF Wires
  <2>3. w \in [Wires(c) -> BOOLEAN]
    BY <1>3, SMTT(30) DEF Runs
  <2> QED BY <1>10, <2>2, <2>3
<1>12. /\ NewId(s, n, {b}, FALSE)
       /\ carried' = With(Settled, n, b)
       /\ deferred' = Empty
       /\ Returns /\ UNCHANGED <<chunk, constWire, batch>>
  BY <1>1, <1>3, <1>5, <1>9, <1>10 DEF RunCircuit, NewId, Result, With
<1>13. NewIdOK(n, {b})
  <2>1. {b} \in Optional
    BY Zenon, <1>11 DEF Optional
  <2> QED BY <1>11, <1>12, <2>1, NewIdFacts
<1>14. RightBits(Settled) /\ RightBits(batch.entries)
  BY <1>6, RightTables, SMTT(30) DEF RightBits
<1>15. RightAfter(carried') /\ DOMAIN carried' = DOMAIN Settled \cup {n}
  <2>1. PICK S : S = Settled
    OBVIOUS
  <2>2. RightAfter(With(S, n, b)) /\ DOMAIN With(S, n, b) = DOMAIN S \cup {n}
    BY Zenon, <1>11, <1>13, <1>14, <2>1, OneMore
  <2> QED BY <1>12, <2>1, <2>2
<1>16. DOMAIN deferred' = {} /\ RightAfter(deferred')
  BY <1>12 DEF Empty, RightAfter
<1>17. RightAfter(batch.entries)
  BY <1>13, <1>14, SameBits
<1>18. /\ batch' = batch /\ shown' = {} /\ status' = "open"
       /\ batch = [state |-> batch.state, entries |-> batch.entries]
       /\ batch.state \in {"none", "open", "finished"}
  BY <1>12 DEF Returns, IInv, Tables
<1>19. Tables' /\ CarriedIsClear'
  <2>1. RightAfter(batch'.entries) /\ shown' \in Optional
    BY <1>17, <1>18 DEF Optional
  <2> QED BY <1>15, <1>16, <1>18, <2>1, TablesAfter
<1>20. DOMAIN carried' \cup DOMAIN deferred' \cup DOMAIN batch'.entries
         = DOMAIN carried \cup DOMAIN deferred \cup DOMAIN batch.entries \cup {n}
  BY <1>6, <1>15, <1>16, <1>18, SMTT(30)
<1> QED BY Zenon, <1>11, <1>12, <1>19, <1>20, Provided


-----------------------------------------------------------------------------
(* Batches, and the end of the process.                                     *)

\* A step that moves bits between the tables and touches nothing else.
LEMMA MovedBits ==
    ASSUME IInv, status = "open", status' = "open",
           UNCHANGED <<wire, recorder, history>>, Tables', CarriedIsClear',
           DOMAIN carried' \cup DOMAIN deferred' \cup DOMAIN batch'.entries
             = DOMAIN carried \cup DOMAIN deferred \cup DOMAIN batch.entries
    PROVE  IInv'
<1>1. UNCHANGED <<wire, rc, chunk, constWire, clear, lost>>
  BY DEF recorder, history
<1>2. Counts' /\ Histories' /\ NoWireOutlives'
  BY <1>1 DEF IInv, Counts, Histories, NoWireOutlives
<1>3. Chunks'
  BY <1>1 DEF IInv, Chunks, ConstCacheCurrent, Pending
<1>4. Backed' = Backed
  BY <1>1 DEF Backed, Pending
<1>5. HeldIsBacked' /\ LostGates'
  BY <1>1, <1>4 DEF IInv, Backing, HeldIsBacked, LostGates
<1>6. StaleIsLoud' /\ (lost \cap DOMAIN batch.entries = {})'
  <2>1. lost \cap (DOMAIN carried \cup DOMAIN deferred \cup DOMAIN batch.entries) = {}
    BY DEF IInv, Backing, StaleIsLoud
  <2>2. lost' \cap (DOMAIN carried' \cup DOMAIN deferred' \cup DOMAIN batch'.entries) = {}
    BY <1>1, <2>1
  <2> QED BY <2>2 DEF StaleIsLoud
<1>7. GateHistory'
  <2>1. ClearFn' = ClearFn
    BY <1>1 DEF ClearFn, ClearOf
  <2> QED BY <1>1, <2>1 DEF IInv, Values, GateHistory
<1> QED BY <1>2, <1>3, <1>5, <1>6, <1>7 DEF IInv, Backing, Values

\* A right table after a step that leaves the recorder and the history alone.
LEMMA StillRight ==
    ASSUME NEW f, RightBits(f), UNCHANGED <<rc, clear>>
    PROVE  RightAfter(f)
BY DEF RightBits, RightAfter, Bits

\* Two right tables make a right table.
LEMMA ExtendRight ==
    ASSUME NEW f, NEW g, RightBits(f), RightBits(g)
    PROVE  RightBits(Extend(f, g)) /\ DOMAIN Extend(f, g) = DOMAIN f \cup DOMAIN g
<1>1. PICK h : h = Extend(f, g)
  OBVIOUS
<1>2. /\ DOMAIN h = DOMAIN f \cup DOMAIN g
      /\ \A id \in DOMAIN g : h[id] = g[id]
      /\ \A id \in DOMAIN f \ DOMAIN g : h[id] = f[id]
  BY <1>1 DEF Extend
<1>3. RightBits(h)
  BY <1>2 DEF RightBits, Bits
<1> QED BY <1>1, <1>2, <1>3

\* The empty table is right.
LEMMA EmptyRight == RightBits(Empty) /\ DOMAIN Empty = {}
BY DEF RightBits, Empty, Bits

\* Opening a batch, and destroying one without entries, keep the invariant.
LEMMA BatchStateInv ==
    ASSUME IInv, status = "open", Returns, UNCHANGED <<wire, recorder, session, history>>,
           NEW st \in {"none", "open", "finished"}, batch' = [batch EXCEPT !.state = st]
    PROVE  IInv'
<1>1. /\ UNCHANGED <<rc, clear, carried, deferred>> /\ shown' = {} /\ status' = "open"
      /\ batch' = [state |-> st, entries |-> batch.entries]
  BY DEF recorder, session, history, Returns, IInv, Tables
<1>2. batch'.entries = batch.entries /\ batch'.state = st
  BY <1>1
<1>3. RightAfter(carried') /\ RightAfter(deferred') /\ RightAfter(batch'.entries)
  <2>1. RightBits(carried) /\ RightBits(deferred) /\ RightBits(batch.entries)
    BY RightTables
  <2>2. UNCHANGED <<rc, clear>>
    BY <1>1
  <2>3. RightAfter(carried) /\ RightAfter(deferred) /\ RightAfter(batch.entries)
    BY <2>1, <2>2, StillRight
  <2> QED BY <1>1, <1>2, <2>3
<1>4. Tables' /\ CarriedIsClear'
  <2>1. shown' \in Optional /\ status' \in {"open", "closed", "failed"}
    BY <1>1 DEF Optional
  <2>2. /\ batch' = [state |-> batch'.state, entries |-> batch'.entries]
        /\ batch'.state \in {"none", "open", "finished"}
    BY Zenon, <1>1, <1>2
  <2> QED BY <1>3, <2>1, <2>2, TablesAfter
<1>5. DOMAIN carried' \cup DOMAIN deferred' \cup DOMAIN batch'.entries
        = DOMAIN carried \cup DOMAIN deferred \cup DOMAIN batch.entries
  BY <1>1, <1>2
<1>6. UNCHANGED <<wire, recorder, history>> /\ status' = "open"
  BY <1>1
<1> QED BY <1>4, <1>5, <1>6, MovedBits

\* InputBatch::finish hands over its entries and keeps the invariant.
LEMMA BatchFinishInv ==
    ASSUME IInv, status = "open", BatchFinish
    PROVE  IInv'
<1>1. PICK e : e = batch.entries
  OBVIOUS
<1>2. /\ carried' = IF Defers THEN carried ELSE Extend(carried, e)
      /\ deferred' = IF Defers THEN Extend(deferred, e) ELSE deferred
      /\ batch' = [state |-> "finished", entries |-> Empty]
      /\ shown' = {} /\ status' = "open" /\ UNCHANGED <<wire, recorder, history>>
  BY <1>1 DEF BatchFinish, Authenticate, Returns
<1>3. UNCHANGED <<rc, clear>>
  BY <1>2 DEF recorder, history
<1>4. RightBits(carried) /\ RightBits(deferred) /\ RightBits(e)
  BY <1>1, RightTables
<1>5. /\ RightBits(Extend(carried, e)) /\ DOMAIN Extend(carried, e) = DOMAIN carried \cup DOMAIN e
      /\ RightBits(Extend(deferred, e)) /\ DOMAIN Extend(deferred, e) = DOMAIN deferred \cup DOMAIN e
  BY Zenon, <1>4, ExtendRight
<1>6. /\ RightAfter(carried) /\ RightAfter(deferred) /\ RightAfter(Empty)
      /\ RightAfter(Extend(carried, e)) /\ RightAfter(Extend(deferred, e))
  BY <1>3, <1>4, <1>5, EmptyRight, StillRight
<1>7. /\ RightAfter(carried') /\ RightAfter(deferred')
      /\ DOMAIN carried' \cup DOMAIN deferred' = DOMAIN carried \cup DOMAIN deferred \cup DOMAIN e
  <2>1. CASE Defers
    BY <2>1, <1>2, <1>5, <1>6, SMTT(30)
  <2>2. CASE ~Defers
    BY <2>2, <1>2, <1>5, <1>6
  <2> QED BY <2>1, <2>2, SMTT(30)
<1>8. batch'.entries = Empty /\ batch'.state = "finished"
  BY <1>2
<1>9. Tables' /\ CarriedIsClear'
  <2>1. /\ shown' \in Optional /\ status' \in {"open", "closed", "failed"}
        /\ batch'.state \in {"none", "open", "finished"}
        /\ batch' = [state |-> batch'.state, entries |-> batch'.entries]
    BY <1>2, <1>8 DEF Optional
  <2>2. RightAfter(batch'.entries)
    BY <1>6, <1>8
  <2> QED BY <1>7, <2>1, <2>2, TablesAfter
<1>10. DOMAIN carried' \cup DOMAIN deferred' \cup DOMAIN batch'.entries
        = DOMAIN carried \cup DOMAIN deferred \cup DOMAIN batch.entries
  BY <1>1, <1>7, <1>8, EmptyRight
<1>11. UNCHANGED <<wire, recorder, history>> /\ status' = "open"
  BY <1>2
<1> QED BY <1>9, <1>10, <1>11, MovedBits


\* Nothing recorded, nothing carried, no wire held: a new session, and what is
\* left of one that ended.
Blank ==
    /\ wire = [s \in Slot |-> 0]
    /\ rc = <<>> /\ chunk = <<>> /\ constWire = [v \in BOOLEAN |-> 0]
    /\ carried = Empty /\ deferred = Empty
    /\ batch = [state |-> "none", entries |-> Empty]
    /\ shown = {} /\ clear = <<>> /\ lost = {}
    /\ status \in {"open", "closed", "failed"}

\* The blank state satisfies the invariant.
LEMMA BlankInv == Blank => IInv
<1> SUFFICES ASSUME Blank PROVE IInv
  OBVIOUS
<1> USE DEF Blank
<1>1. Len(rc) = 0 /\ DOMAIN rc = {} /\ 1 .. Len(rc) = {} /\ DOMAIN chunk = {}
  OBVIOUS
<1>2. Counts
  <2>1. rc \in Seq(Int) /\ wire \in [Slot -> 0 .. 0]
    OBVIOUS
  <2> QED BY <1>1, <2>1, ConstantsOK DEF Counts, CountsOK
<1>3. DOMAIN Empty = {} /\ batch.entries = Empty
  BY DEF Empty
<1>4. Tables
  BY <1>1, <1>3 DEF Tables, Bits, Optional
<1>5. Histories
  BY <1>1 DEF Histories
<1>6. Chunks
  <2>1. ChunkOK(chunk)
    BY <1>1 DEF ChunkOK
  <2>2. Pending = {}
    BY <1>1 DEF Pending, Local
  <2>3. constWire \in [BOOLEAN -> 0 .. Len(rc)] /\ ConstCacheCurrent
    BY <1>1 DEF ConstCacheCurrent
  <2> QED BY <2>1, <2>2, <2>3 DEF Chunks
<1>7. Backing
  BY <1>1, <1>3 DEF Backing, HeldIsBacked, LostGates, StaleIsLoud
<1>8. Values
  <2>1. GateHistory
    BY <1>1 DEF GateHistory
  <2>2. CarriedIsClear
    BY <1>3 DEF CarriedIsClear
  <2> QED BY <2>1, <2>2 DEF Values
<1>9. NoWireOutlives
  BY DEF NoWireOutlives
<1> QED BY <1>2, <1>4, <1>5, <1>6, <1>7, <1>8, <1>9 DEF IInv

\* error() ends the process in every one of its callers.
LEMMA FailInv ==
    ASSUME Fail
    PROVE  IInv'
<1>1. Blank'
  BY DEF Fail, Gone, Blank
<1> QED BY <1>1, BlankInv, PTL

\* ~ChunkRecorderCtx: no count is positive, so no variable holds a wire.
LEMMA TeardownInv ==
    ASSUME IInv, Teardown
    PROVE  IInv'
<1>1. CASE InScope = {}
  <2>1. \A s \in Slot : wire[s] = 0
    BY <1>1, HeldInScope DEF IInv
  <2>2. wire = [s \in Slot |-> 0]
    BY <2>1 DEF IInv, Counts, CountsOK
  <2>3. Blank'
    BY <1>1, <2>2 DEF Teardown, Gone, Blank
  <2> QED BY <2>3, BlankInv, PTL
<1>2. CASE InScope # {}
  BY <1>2, FailInv DEF Teardown
<1> QED BY <1>1, <1>2

\* ~InputBatch keeps the invariant, or ends the process.
LEMMA BatchDestroyedInv ==
    ASSUME IInv, status = "open", BatchDestroyed
    PROVE  IInv'
<1>1. CASE batch.entries = Empty
  <2>1. /\ batch' = [batch EXCEPT !.state = "none"]
        /\ Returns /\ UNCHANGED <<wire, recorder, session, history>>
    BY <1>1 DEF BatchDestroyed
  <2> QED BY <2>1, BatchStateInv
<1>2. CASE batch.entries # Empty
  BY <1>2, FailInv DEF BatchDestroyed
<1> QED BY <1>1, <1>2

\* input_batch() keeps the invariant.
LEMMA InputBatchInv ==
    ASSUME IInv, status = "open", InputBatch
    PROVE  IInv'
<1>1. /\ batch' = [batch EXCEPT !.state = "open"]
      /\ Returns /\ UNCHANGED <<wire, recorder, session, history>>
  BY DEF InputBatch
<1> QED BY <1>1, BatchStateInv

-----------------------------------------------------------------------------
(* Flush.                                                                   *)

\* Ids that a chunk or a flush may not give a value: the lost ones and the null id.
LEMMA NoLostOutput ==
    ASSUME IInv, NEW keep, Plan(keep).ok
    PROVE  keep \cap Pending \cap lost = {}
<1>1. PICK L : L = lost \cup {0}
  BY Zenon
<1>2. ChunkOK(chunk)
  BY DEF IInv, Chunks
<1>3. L \cap DOMAIN Settled = {}
  <2>1. 0 \notin DOMAIN rc /\ DOMAIN Settled \subseteq DOMAIN rc /\ lost \cap DOMAIN Settled = {}
    BY SettledFacts DEF IInv, Counts, CountsOK, Bits
  <2> QED BY <1>1, <2>1
<1>4. \A i \in DOMAIN chunk : chunk[i].out \in L => Operands(chunk[i]) \cap L # {}
  <2>1. \A i \in DOMAIN chunk : chunk[i].out # 0
    <3>1. 0 \notin DOMAIN rc /\ Pending \subseteq DOMAIN rc
      BY DEF IInv, Counts, CountsOK, Chunks
    <3> QED BY <3>1 DEF Pending, Local
  <2> QED BY <1>1, <2>1 DEF IInv, Backing, LostGates
<1>5. PICK mat : mat = DOMAIN Settled
  OBVIOUS
<1>6. PlanFlush(chunk, keep, mat).ok
  BY <1>5 DEF Plan
<1>7. keep \cap Local(chunk) \cap L = {}
  BY <1>2, <1>3, <1>4, <1>5, <1>6, AcceptedKeepsNoneLost
<1> QED BY <1>1, <1>7 DEF Pending


\* The plaintext of an allocated id, read from the history.
LEMMA ClearFnIs ==
    ASSUME IInv, NEW id \in DOMAIN rc
    PROVE  ClearFn[id] = clear[id]
<1>1. id \in 0 .. Len(clear) /\ id # 0
  BY DEF IInv, Counts, CountsOK, Histories
<1> QED BY <1>1 DEF ClearFn, ClearOf

\* What a flush leaves that does not fail: right bits for everything it had and
\* for every id it was asked to keep, and none for a lost id.
FlushOK(keep, c) ==
    /\ RightBits(c)
    /\ DOMAIN c = DOMAIN Settled \cup (keep \cap Pending)
    /\ keep \subseteq DOMAIN c
    /\ DOMAIN c \cap lost = {}

\* flush_: the recorded gates that are run give their plaintext values.
LEMMA FlushRight ==
    ASSUME IInv, NEW keep, NEW c \in Flushed(keep)
    PROVE  FlushOK(keep, c)
<1>1. PICK bits : bits = Settled
  OBVIOUS
<1>2. /\ RightBits(bits) /\ Bits(bits) /\ lost \cap DOMAIN bits = {}
      /\ \A id \in DOMAIN bits : clear[id] = {bits[id]}
  BY <1>1, SettledFacts DEF RightBits
<1>3. ~StaleKeep(keep) /\ keep \subseteq Pending \cup DOMAIN bits
  BY <1>1 DEF Flushed, StaleKeep
<1>4. CASE ~Runnable(keep)
  <2>1. c = bits /\ keep \cap Pending = {}
    BY <1>1, <1>3, <1>4 DEF Flushed, Runnable
  <2> QED BY <1>1, <1>2, <1>3, <2>1 DEF FlushOK
<1>5. CASE Runnable(keep)
  <2>1. PICK plan : plan = PlanFlush(chunk, keep, DOMAIN bits)
    OBVIOUS
  <2>2. plan = Plan(keep) /\ plan.ok /\ c \in Executed(plan)
    BY <1>1, <1>3, <1>5, <2>1 DEF Flushed, Plan
  <2>3. PICK w \in PlanRuns(plan, bits) :
            c = Extend(bits, [id \in DOMAIN plan.outputs |-> w[plan.outputs[id]]])
    BY <1>1, <2>2 DEF Executed, PlanRuns
  <2>4. PICK cl : cl = ClearFn
    OBVIOUS
  <2>5. CarriesClear(bits, cl)
    BY <1>2, <2>4, ClearFnIs DEF Bits, CarriesClear
  <2>6. GatesClear(chunk, cl)
    <3>1. ASSUME NEW i \in DOMAIN chunk PROVE cl[chunk[i].out] = Meaning(chunk[i], cl)
      <4>1. chunk[i].out \in DOMAIN rc
        BY BackedAllocated, SMTT(30)
      <4>2. ClearFn[chunk[i].out] = clear[chunk[i].out]
        BY <4>1, ClearFnIs
      <4> QED BY <2>4, <4>2 DEF IInv, Values, GateHistory
    <3> QED BY <3>1 DEF GatesClear
  <2>7. ChunkOK(chunk) /\ plan.ok
    BY <2>2, SMTT(30) DEF IInv, Chunks
  <2>70. PlanGives(plan, keep \cap Local(chunk), cl, w)
    BY <2>1, <2>3, <2>5, <2>6, <2>7, PlanSound
  <2>8. /\ DOMAIN plan.outputs = keep \cap Pending
        /\ \A id \in DOMAIN plan.outputs :
               plan.outputs[id] \in Wires(plan.prog) /\ cl[id] = {w[plan.outputs[id]]}
    BY <2>70 DEF PlanGives, Pending
  <2>9. PICK o : o = [id \in DOMAIN plan.outputs |-> w[plan.outputs[id]]]
    BY Zenon
  <2>10. DOMAIN o = keep \cap Pending /\ DOMAIN o \subseteq DOMAIN rc
    BY <2>8, <2>9 DEF IInv, Chunks
  <2>11. \A id \in DOMAIN o : o[id] \in BOOLEAN /\ clear[id] = {o[id]}
    <3>1. w \in [Wires(plan.prog) -> BOOLEAN]
      BY <2>3 DEF PlanRuns, Runs
    <3>2. \A id \in DOMAIN o : cl[id] = clear[id]
      BY <2>4, <2>10, ClearFnIs
    <3>3. \A id \in DOMAIN o : o[id] = w[plan.outputs[id]] /\ id \in DOMAIN plan.outputs
      BY <2>9
    <3> QED BY <2>8, <3>1, <3>2, <3>3, SMTT(30)
  <2>12. RightBits(o)
    BY <2>10, <2>11 DEF RightBits, Bits
  <2>13. c = Extend(bits, o)
    BY <2>3, <2>9
  <2>14. RightBits(c) /\ DOMAIN c = DOMAIN bits \cup DOMAIN o
    BY Zenon, <1>2, <2>12, <2>13, ExtendRight
  <2>15. keep \cap Pending \cap lost = {}
    BY <2>2, NoLostOutput
  <2> QED BY <1>1, <1>2, <1>3, <2>10, <2>14, <2>15 DEF FlushOK
<1> QED BY <1>4, <1>5

\* The state after a flush: an empty chunk, and carried bits for everything held
\* that is not lost and does not wait in a batch.
LEMMA FlushInv ==
    ASSUME IInv, status = "open", status' = "open", shown' \in Optional,
           NEW c, RightBits(c), carried' = c, DropChunk,
           UNCHANGED <<wire, rc, batch, clear>>,
           lost' \subseteq DOMAIN rc,
           lost' \cap DOMAIN c = {},
           lost' \cap DOMAIN batch.entries = {},
           \A s \in Slot : wire[s] \in {0} \cup lost' \cup DOMAIN c \cup DOMAIN batch.entries
    PROVE  IInv'
<1>1. /\ chunk' = <<>> /\ deferred' = Empty /\ constWire' = [v \in BOOLEAN |-> 0]
      /\ DOMAIN chunk' = {}
  BY DEF DropChunk
<1>2. Counts' /\ Histories' /\ NoWireOutlives'
  BY DEF IInv, Counts, Histories, NoWireOutlives
<1>3. Chunks'
  <2>1. ChunkOK(chunk')
    BY <1>1 DEF ChunkOK
  <2>2. Pending' = {}
    BY <1>1 DEF Pending, Local
  <2>3. Len(rc) \in Nat
    BY DEF IInv, Counts, CountsOK
  <2>4. constWire' \in [BOOLEAN -> 0 .. Len(rc)] /\ ConstCacheCurrent'
    BY <1>1, <2>3 DEF ConstCacheCurrent
  <2> QED BY <2>1, <2>2, <2>4 DEF Chunks
<1>4. Tables' /\ CarriedIsClear'
  <2>1. RightBits(c) /\ RightBits(Empty) /\ RightBits(batch.entries)
    BY EmptyRight, RightTables
  <2>2. UNCHANGED <<rc, clear>>
    OBVIOUS
  <2>3. RightAfter(c) /\ RightAfter(Empty) /\ RightAfter(batch.entries)
    BY <2>1, <2>2, StillRight
  <2>4. RightAfter(carried') /\ RightAfter(deferred') /\ RightAfter(batch'.entries)
    BY <1>1, <2>3
  <2>5. /\ batch' = [state |-> batch'.state, entries |-> batch'.entries]
        /\ batch'.state \in {"none", "open", "finished"}
        /\ status' \in {"open", "closed", "failed"}
    BY DEF IInv, Tables
  <2> QED BY <2>4, <2>5, TablesAfter, SMTT(30)
<1>5. Backed' = DOMAIN c \cup DOMAIN batch.entries
  BY <1>1, EmptyRight, SMTT(30) DEF Backed, Pending, Local
<1>6. Backing'
  <2>1. HeldIsBacked'
    BY <1>1, <1>5 DEF HeldIsBacked
  <2>2. LostGates'
    BY <1>1 DEF LostGates
  <2>3. StaleIsLoud' /\ (lost \cap DOMAIN batch.entries = {})'
    BY <1>1, EmptyRight DEF StaleIsLoud
  <2> QED BY <2>1, <2>2, <2>3 DEF Backing
<1>7. GateHistory'
  BY <1>1 DEF GateHistory
<1> QED BY <1>2, <1>3, <1>4, <1>6, <1>7 DEF IInv, Values


\* A part of a right table is right.
LEMMA OnlyRight ==
    ASSUME NEW f, NEW S, RightBits(f)
    PROVE  RightBits(Only(f, S)) /\ DOMAIN Only(f, S) = DOMAIN f \cap S
<1>1. PICK h : h = Only(f, S)
  OBVIOUS
<1>2. DOMAIN h = DOMAIN f \cap S /\ \A id \in DOMAIN h : h[id] = f[id]
  BY <1>1 DEF Only
<1>3. RightBits(h)
  BY <1>2 DEF RightBits, Bits
<1> QED BY <1>1, <1>2, <1>3

\* What is held and in scope survives a flush that keeps the live pending wires.
LEMMA ScopeSurvives ==
    ASSUME IInv, NEW keep, LivePending \subseteq keep, NEW c, FlushOK(keep, c),
           NEW s \in Slot
    PROVE  /\ wire[s] \in {0} \cup lost \cup DOMAIN c \cup DOMAIN batch.entries
           /\ wire[s] # 0 => wire[s] \in InScope
<1>1. wire[s] # 0 => wire[s] \in InScope
  BY HeldInScope DEF IInv
<1>2. wire[s] \in {0} \cup lost \cup Backed
  BY DEF IInv, Backing, HeldIsBacked
<1>3. DOMAIN Settled = DOMAIN carried \cup DOMAIN deferred
  BY SettledFacts
<1>4. LivePending = Pending \cap InScope
  BY DEF LivePending
<1>5. DOMAIN c = DOMAIN Settled \cup (keep \cap Pending)
  BY DEF FlushOK
<1> QED BY <1>1, <1>2, <1>3, <1>4, <1>5 DEF Backed

\* reveal keeps the invariant: what it flushes includes all live pending wires.
LEMMA RevealInv ==
    ASSUME IInv, status = "open", NEW s \in Slot, NEW K, Reveal(s, K)
    PROVE  IInv'
<1>1. PICK keep : keep = RevealKeep(s, K)
  OBVIOUS
<1>2. LivePending \subseteq keep /\ wire[s] \in keep
  BY <1>1 DEF RevealKeep
<1>3. PICK c \in Flushed(keep) : carried' = c /\ shown' \in {{}, {c[wire[s]]}}
  BY <1>1 DEF Reveal
<1>4. FlushOK(keep, c)
  BY <1>3, FlushRight
<1>5. RightBits(c) /\ keep \subseteq DOMAIN c /\ DOMAIN c \cap lost = {}
  BY <1>4 DEF FlushOK
<1>6. /\ DropChunk /\ status' = "open" /\ lost' = lost
      /\ UNCHANGED <<wire, rc, batch, clear>>
  BY DEF Reveal, history
<1>7. shown' \in Optional
  <2>1. c[wire[s]] \in BOOLEAN
    BY <1>2, <1>5 DEF RightBits, Bits
  <2> QED BY Zenon, <1>3, <2>1 DEF Optional
<1>8. \A t \in Slot : wire[t] \in {0} \cup lost \cup DOMAIN c \cup DOMAIN batch.entries
  BY <1>2, <1>4, ScopeSurvives, SMTT(30)
<1>9. lost \subseteq DOMAIN rc /\ lost \cap DOMAIN batch.entries = {}
  BY DEF IInv, Histories, Backing
<1> QED BY <1>3, <1>5, <1>6, <1>7, <1>8, <1>9, FlushInv

\* checkpoint() keeps the invariant: it prunes no wire in scope.
LEMMA CheckpointInv ==
    ASSUME IInv, status = "open", Checkpoint
    PROVE  IInv'
<1>1. PICK keep : keep = LivePending
  OBVIOUS
<1>2. PICK c \in Flushed(keep) : carried' = Only(c, InScope)
  BY <1>1 DEF Checkpoint
<1>3. FlushOK(keep, c)
  BY <1>2, FlushRight
<1>4. RightBits(c) /\ DOMAIN c \cap lost = {}
  BY <1>3 DEF FlushOK
<1>5. PICK d : d = Only(c, InScope)
  OBVIOUS
<1>6. RightBits(d) /\ DOMAIN d = DOMAIN c \cap InScope /\ carried' = d
  BY <1>2, <1>4, <1>5, OnlyRight
<1>7. /\ DropChunk /\ status' = "open" /\ lost' = lost /\ shown' \in Optional
      /\ UNCHANGED <<wire, rc, batch, clear>>
  BY DEF Checkpoint, history, Returns, Optional
<1>8. \A t \in Slot : /\ wire[t] \in {0} \cup lost \cup DOMAIN c \cup DOMAIN batch.entries
                      /\ wire[t] # 0 => wire[t] \in InScope
  BY <1>1, <1>3, ScopeSurvives
<1>9. \A t \in Slot : wire[t] \in {0} \cup lost \cup DOMAIN d \cup DOMAIN batch.entries
  BY <1>6, <1>8
<1>10. lost \subseteq DOMAIN rc /\ lost \cap DOMAIN batch.entries = {} /\ lost \cap DOMAIN d = {}
  BY <1>4, <1>6 DEF IInv, Histories, Backing
<1> QED BY <1>6, <1>7, <1>9, <1>10, FlushInv

\* checkpoint(keep...) keeps the invariant: what it prunes is lost.
LEMMA CheckpointKeepInv ==
    ASSUME IInv, status = "open", NEW K, CheckpointKeep(K)
    PROVE  IInv'
<1>1. PICK keep : keep = Held(K)
  BY SMTT(30)
<1>2. PICK c \in Flushed(keep) : carried' = Only(c, keep)
  BY <1>1 DEF CheckpointKeep
<1>3. FlushOK(keep, c)
  BY <1>2, FlushRight
<1>4. RightBits(c) /\ keep \subseteq DOMAIN c /\ DOMAIN c \cap lost = {}
  BY <1>3 DEF FlushOK
<1>5. PICK d : d = Only(c, keep)
  OBVIOUS
<1>6. RightBits(d) /\ DOMAIN d = keep /\ carried' = d
  <2>1. RightBits(d) /\ DOMAIN d = DOMAIN c \cap keep
    BY <1>4, <1>5, OnlyRight
  <2> QED BY <1>2, <1>4, <1>5, <2>1
<1>7. /\ DropChunk /\ status' = "open" /\ shown' \in Optional
      /\ UNCHANGED <<wire, rc, batch, clear>>
      /\ lost' = lost \cup (DOMAIN rc \ (keep \cup DOMAIN batch.entries))
  BY <1>1 DEF CheckpointKeep, Returns, Optional
<1>8. lost \subseteq DOMAIN rc /\ lost \cap DOMAIN batch.entries = {} /\ lost \cap DOMAIN d = {}
  BY <1>4, <1>6 DEF IInv, Histories, Backing
<1>9. \A t \in Slot : wire[t] \in {0} \cup DOMAIN rc
  BY DEF IInv, Counts, CountsOK
<1>10. \A t \in Slot : wire[t] \in {0} \cup lost' \cup DOMAIN d \cup DOMAIN batch.entries
  BY <1>6, <1>7, <1>9
<1>11. /\ lost' \subseteq DOMAIN rc /\ lost' \cap DOMAIN batch.entries = {}
       /\ lost' \cap DOMAIN d = {}
  BY <1>6, <1>7, <1>8
<1> QED BY <1>6, <1>7, <1>10, <1>11, FlushInv


-----------------------------------------------------------------------------
(* Every call.                                                              *)

\* A step of the authoring program on one of its variables keeps the invariant.
LEMMA SlotStepInv ==
    ASSUME IInv, status = "open", NEW s \in Slot, SlotStep(s)
    PROVE  IInv'
<1>1. ASSUME NEW a \in Slot, Copy(s, a) \/ Move(s, a) PROVE IInv'
  BY <1>1, CopyInv, MoveInv
<1>2. CASE Drop(s)
  BY <1>2, DropInv
<1>3. ASSUME NEW op \in Ops, NEW a \in Slot, NEW b \in Slot, GateOp(s, op, a, b) PROVE IInv'
  <2>1. op \in {"And", "Xor", "Not"}
    BY DEF Ops
  <2> QED BY <1>3, <2>1, GateOpInv
<1>4. ASSUME NEW v \in BOOLEAN, NewPublicBit(s, v) \/ SamePublicBit(s, v) PROVE IInv'
  BY <1>4, NewPublicBitInv, SamePublicBitInv
<1>5. ASSUME NEW v \in BOOLEAN, Input(s, v) PROVE IInv'
  BY <1>5, InputInv
<1>6. ASSUME NEW v \in BOOLEAN, BatchAdd(s, v) PROVE IInv'
  BY <1>6, BatchAddInv
<1>7. ASSUME NEW c \in Circuits, NEW args \in [1 .. c.num_inputs -> Slot],
             RunCircuit(s, c, args) \/ RunFails(args)
      PROVE  IInv'
  <2>1. CASE RunCircuit(s, c, args)
    BY <2>1, RunCircuitInv
  <2>2. CASE RunFails(args)
    BY <2>2, FailInv DEF RunFails
  <2> QED BY <1>7, <2>1, <2>2
<1>8. ASSUME NEW K, Reveal(s, K) \/ RevealFails(s, K) PROVE IInv'
  <2>1. CASE Reveal(s, K)
    BY <2>1, RevealInv
  <2>2. CASE RevealFails(s, K)
    BY <2>2, FailInv DEF RevealFails
  <2> QED BY <1>8, <2>1, <2>2
<1> HIDE DEF SlotStep
<1>9. \/ \E a \in Slot : Copy(s, a) \/ Move(s, a)
      \/ Drop(s)
      \/ \E op \in Ops, a, b \in Slot : GateOp(s, op, a, b)
      \/ \E v \in BOOLEAN : NewPublicBit(s, v) \/ SamePublicBit(s, v)
      \/ \E v \in BOOLEAN : Input(s, v)
      \/ \E v \in BOOLEAN : BatchAdd(s, v)
      \/ \E c \in Circuits : \E args \in [1 .. c.num_inputs -> Slot] :
             RunCircuit(s, c, args) \/ RunFails(args)
      \/ \E K : Reveal(s, K) \/ RevealFails(s, K)
  BY DEF SlotStep
<1> QED BY <1>1, <1>2, <1>3, <1>4, <1>5, <1>6, <1>7, <1>8, <1>9

\* A step of the session or of its batch keeps the invariant.
LEMMA SessionStepInv ==
    ASSUME IInv, status = "open", SessionStep
    PROVE  IInv'
<1>1. CASE Overflow \/ BadRecipient \/ BatchReused
  BY <1>1, FailInv DEF Overflow, BadRecipient, BatchReused
<1>2. CASE InputBatch \/ BatchFinish \/ BatchDestroyed
  BY <1>2, InputBatchInv, BatchFinishInv, BatchDestroyedInv
<1>3. CASE Checkpoint \/ Teardown
  BY <1>3, CheckpointInv, TeardownInv
<1>4. ASSUME NEW K, CheckpointKeep(K) \/ CheckpointFails(K) PROVE IInv'
  <2>1. CASE CheckpointKeep(K)
    BY <2>1, CheckpointKeepInv
  <2>2. CASE CheckpointFails(K)
    BY <2>2, FailInv DEF CheckpointFails
  <2> QED BY <1>4, <2>1, <2>2
<1>5. \/ Overflow \/ BadRecipient \/ BatchReused
      \/ InputBatch \/ BatchFinish \/ BatchDestroyed
      \/ Checkpoint \/ Teardown
      \/ \E K : CheckpointKeep(K) \/ CheckpointFails(K)
  BY DEF SessionStep
<1> QED BY <1>1, <1>2, <1>3, <1>4, <1>5

\* A step that changes nothing.
LEMMA StutterInv ==
    ASSUME IInv, UNCHANGED vars
    PROVE  IInv'
<1>1. /\ UNCHANGED <<wire, rc, chunk, constWire, carried, deferred, batch, shown, status>>
      /\ UNCHANGED <<clear, lost>>
  BY DEF vars, recorder, session, history
<1>2. Counts' /\ Histories' /\ NoWireOutlives' /\ Tables'
  BY <1>1, ZenonT(20) DEF IInv, Counts, Histories, NoWireOutlives, Tables, Bits
<1>3. Chunks'
  BY <1>1, ZenonT(20) DEF IInv, Chunks, ConstCacheCurrent, Pending
<1>4. Backing'
  BY <1>1, ZenonT(20) DEF IInv, Backing, HeldIsBacked, LostGates, StaleIsLoud, Backed, Pending
<1>5. Values'
  <2>1. ClearFn' = ClearFn
    BY <1>1 DEF ClearFn, ClearOf
  <2> QED BY <1>1, <2>1, ZenonT(20) DEF IInv, Values, GateHistory, CarriedIsClear
<1> QED BY <1>2, <1>3, <1>4, <1>5 DEF IInv

\* The invariant holds in every state of the session: it is inductive.
THEOREM InvariantHolds == Spec => []IInv
<1>1. Init => IInv
  <2>1. Init => Blank
    BY DEF Init, Blank
  <2> QED BY <2>1, BlankInv
<1>2. IInv /\ [Next]_vars => IInv'
  <2> SUFFICES ASSUME IInv, [Next]_vars PROVE IInv'
    OBVIOUS
  <2>1. CASE UNCHANGED vars
    BY <2>1, StutterInv
  <2>2. CASE Next
    <3>1. status = "open" /\ (SessionStep \/ \E s \in Slot : SlotStep(s))
      BY <2>2 DEF Next
    <3>2. CASE SessionStep
      BY <3>1, <3>2, SessionStepInv
    <3>3. ASSUME NEW s \in Slot, SlotStep(s) PROVE IInv'
      BY <3>1, <3>3, SlotStepInv
    <3> QED BY <3>1, <3>2, <3>3
  <2> QED BY <2>1, <2>2
<1> QED BY <1>1, <1>2, PTL DEF Spec


-----------------------------------------------------------------------------
(* The properties.                                                          *)

\* Type correctness of the recorder's and the session's members.
THEOREM SessionTypes == Spec => []TypeOK
<1>1. IInv => TypeOK
  <2> SUFFICES ASSUME IInv PROVE TypeOK
    OBVIOUS
  <2>1. wire \in [Slot -> Nat] /\ rc \in Seq(Int) /\ Len(rc) < UINT32_MAX
    BY DEF IInv, Counts, CountsOK
  <2>2. chunk \in Seq(Gate) /\ constWire \in [BOOLEAN -> 0 .. Len(rc)]
    BY DEF IInv, Chunks, ChunkOK
  <2> QED BY <2>1, <2>2 DEF IInv, Tables, Histories, TypeOK
<1> QED BY <1>1, InvariantHolds, PTL

\* ChunkWire's copies, moves and destructors keep every reference count equal to
\* the number of variables that hold the id, and ~ChunkRecorderCtx leaves no
\* variable with a wire.
THEOREM CountsExact == Spec => []HandlesExact
<1>1. IInv => HandlesExact
  BY DEF IInv, Counts, CountsOK, RefcountExact, Holders, HandlesExact
<1> QED BY <1>1, InvariantHolds, PTL

\* No reveal and no checkpoint() takes the value of a wire that a variable holds
\* or a recorded gate reads.
THEOREM NothingHeldIsLost == Spec => []HeldIsBacked
<1>1. IInv => HeldIsBacked
  BY DEF IInv, Backing
<1> QED BY <1>1, InvariantHolds, PTL

\* A wire given up by checkpoint(keep...), or computed from one, gets no value again:
\* its later use ends in error().
THEOREM GivenUpStaysGone == Spec => []StaleIsLoud
<1>1. IInv => StaleIsLoud
  BY DEF IInv, Backing
<1> QED BY <1>1, InvariantHolds, PTL

\* Every bit the session carries is the plaintext of its id: recording late,
\* planning a flush and renumbering wires change no value.
THEOREM BitsAreClear == Spec => []CarriedIsClear
<1>1. IInv => CarriedIsClear
  BY DEF IInv, Values
<1> QED BY <1>1, InvariantHolds, PTL

\* public_bit hands out constants of the current chunk only.
THEOREM ConstantsAreCurrent == Spec => []ConstCacheCurrent
<1>1. IInv => ConstCacheCurrent
  BY DEF IInv, Chunks
<1> QED BY <1>1, InvariantHolds, PTL

\* An id in scope is held by a variable.
LEMMA InScopeHeld ==
    ASSUME IInv, NEW id \in InScope
    PROVE  \E t \in Slot : wire[t] = id
<1>1. id \in DOMAIN rc /\ rc[id] > 0
  BY DEF InScope
<1>2. rc[id] = Cardinality(Holders(wire, id))
  BY <1>1 DEF IInv, Counts, CountsOK
<1>3. Holders(wire, id) # {}
  BY <1>1, <1>2, FS_EmptySet
<1> QED BY <1>3 DEF Holders

\* A reveal's flush fails only when a null wire is asked for, a variable holds a
\* given-up wire, or a batch still has its inputs (the errors of flush_).
THEOREM FlushFailures == Spec => []FlushFailsOnlyOnMisuse
<1>1. IInv => FlushFailsOnlyOnMisuse
  <2> SUFFICES ASSUME IInv, NEW s \in Slot, NEW K \in SUBSET Slot,
                      0 \notin Held(K \cup {s}), Held(Slot) \cap lost = {},
                      batch.entries = Empty
               PROVE  ~FlushFails(RevealKeep(s, K))
    BY DEF FlushFailsOnlyOnMisuse
  <2>1. PICK keep : keep = RevealKeep(s, K)
    OBVIOUS
  <2>2. PICK mat : mat = DOMAIN Settled
    OBVIOUS
  <2>3. Backed = Pending \cup mat
    BY <2>2, SettledFacts, EmptyRight DEF Backed
  <2>4. \A t \in Slot : wire[t] \notin lost /\ (wire[t] # 0 => wire[t] \in Pending \cup mat)
    BY <2>3 DEF Held, IInv, Backing, HeldIsBacked
  <2>5. \A t \in K \cup {s} : wire[t] # 0
    BY DEF Held
  <2>6. keep = LivePending \cup {wire[s]} \cup Held(K)
    BY <2>1 DEF RevealKeep
  <2>7. keep \subseteq Pending \cup mat
    BY <2>4, <2>5, <2>6 DEF LivePending, Held
  <2>8. keep \cap lost = {}
    <3>1. LivePending \cap lost = {}
      BY <2>4, InScopeHeld DEF LivePending
    <3> QED BY <2>4, <2>6, <3>1 DEF Held
  <2>9. keep \cap Local(chunk) \cap lost = {}
    BY <2>8
  <2>10. \A i \in DOMAIN chunk :
            chunk[i].out \notin lost => Operands(chunk[i]) \subseteq (Local(chunk) \cup mat) \ lost
    BY <2>3 DEF IInv, Backing, HeldIsBacked, Pending
  <2>11. PlanFlush(chunk, keep, mat).ok
    BY Zenon, <2>9, <2>10, AcceptedWhenBacked
  <2> QED BY <2>1, <2>2, <2>7, <2>11 DEF FlushFails, StaleKeep, Plan
<1> QED BY <1>1, InvariantHolds, PTL

-----------------------------------------------------------------------------
(* checkpoint() is exact.  One more fact is needed: an input waits in the    *)
(* batch or has a value, never both.                                        *)

Apart == DOMAIN batch.entries \cap (Pending \cup DOMAIN carried \cup DOMAIN deferred) = {}

\* A new id is in one place only.
LEMMA FreshApart ==
    ASSUME IInv, Apart, NEW n, n \notin DOMAIN rc,
           \/ /\ batch' = batch
              /\ Pending' \cup DOMAIN carried' \cup DOMAIN deferred'
                   \subseteq Pending \cup DOMAIN carried \cup DOMAIN deferred \cup {n}
           \/ /\ DOMAIN batch'.entries \subseteq DOMAIN batch.entries \cup {n}
              /\ Pending' \cup DOMAIN carried' \cup DOMAIN deferred'
                   \subseteq Pending \cup DOMAIN carried \cup DOMAIN deferred
    PROVE  Apart'
<1>1. /\ Pending \cup DOMAIN carried \cup DOMAIN deferred \subseteq DOMAIN rc
      /\ DOMAIN batch.entries \subseteq DOMAIN rc
  BY BackedAllocated DEF Backed
<1> QED BY <1>1 DEF Apart

\* The next id is not allocated yet.
LEMMA NextIdFresh ==
    ASSUME IInv
    PROVE  NextId \notin DOMAIN rc
BY DEF IInv, Counts, CountsOK, NextId


\* A session that ended has an empty batch.
LEMMA GoneApart ==
    ASSUME Gone
    PROVE  Apart'
<1>1. batch'.entries = Empty
  BY DEF Gone
<1> QED BY <1>1, EmptyRight DEF Apart

\* A step that leaves the chunk and the tables alone keeps them apart.
LEMMA SameApart ==
    ASSUME Apart, UNCHANGED <<chunk, carried, deferred>>, batch'.entries = batch.entries
    PROVE  Apart'
BY DEF Apart, Pending

\* A recorded gate has an id of its own.
LEMMA RecordApart ==
    ASSUME IInv, Apart, NEW g, g.out = NextId, chunk' = Append(chunk, g),
           UNCHANGED <<carried, deferred, batch>>
    PROVE  Apart'
<1>1. Pending' \subseteq Pending \cup {NextId}
  BY DEF IInv, Chunks, ChunkOK, Pending, Local
<1>2. PICK n : n = NextId
  OBVIOUS
<1>3. /\ batch' = batch /\ n \notin DOMAIN rc
      /\ Pending' \cup DOMAIN carried' \cup DOMAIN deferred'
           \subseteq Pending \cup DOMAIN carried \cup DOMAIN deferred \cup {n}
  BY <1>1, <1>2, NextIdFresh
<1> QED BY <1>3, FreshApart

\* The ids of a table with one more bit.
LEMMA WithDomain ==
    ASSUME NEW f, NEW n, NEW b
    PROVE  DOMAIN Extend(f, [id \in {n} |-> b]) = DOMAIN f \cup {n}
BY DEF Extend

\* No call on a variable gives a waiting input a second place.
LEMMA SlotStepApart ==
    ASSUME IInv, Apart, NEW s \in Slot, SlotStep(s)
    PROVE  Apart'
<1>1. ASSUME NEW a \in Slot, Copy(s, a) \/ Move(s, a) PROVE Apart'
  BY <1>1, SameApart DEF Copy, Move, session
<1>2. CASE Drop(s)
  BY <1>2, SameApart DEF Drop, session
<1>3. ASSUME NEW op, NEW a \in Slot, NEW b \in Slot, GateOp(s, op, a, b) PROVE Apart'
  <2>1. PICK g : g = [op |-> op, in0 |-> wire[a], out |-> NextId,
                      in1 |-> IF op = "Not" THEN 0 ELSE wire[b]]
    OBVIOUS
  <2>2. g.out = NextId
    BY <2>1
  <2>3. chunk' = Append(chunk, g) /\ UNCHANGED <<carried, deferred, batch>>
    BY <1>3, <2>1 DEF GateOp, session
  <2> QED BY <2>2, <2>3, RecordApart
<1>4. ASSUME NEW v \in BOOLEAN, NewPublicBit(s, v) PROVE Apart'
  <2>1. PICK g : g = [op |-> ConstOp(v), in0 |-> 0, in1 |-> 0, out |-> NextId]
    BY Zenon
  <2>2. g.out = NextId
    BY <2>1
  <2>3. chunk' = Append(chunk, g) /\ UNCHANGED <<carried, deferred, batch>>
    BY <1>4, <2>1 DEF NewPublicBit, session
  <2> QED BY <2>2, <2>3, RecordApart
<1>5. ASSUME NEW v \in BOOLEAN, SamePublicBit(s, v) PROVE Apart'
  BY <1>5, SameApart DEF SamePublicBit, session
<1>6. PICK n : n = NextId
  OBVIOUS
<1>7. n \notin DOMAIN rc
  BY <1>6, NextIdFresh
<1>8. ASSUME NEW v \in BOOLEAN, Input(s, v) PROVE Apart'
  <2>1. /\ DOMAIN carried' \subseteq DOMAIN carried \cup {n}
        /\ DOMAIN deferred' \subseteq DOMAIN deferred \cup {n}
    BY Zenon, <1>6, <1>8, WithDomain DEF Input, Authenticate
  <2>2. batch' = batch /\ Pending' = Pending
    BY <1>8 DEF Input, Pending
  <2>3. Pending' \cup DOMAIN carried' \cup DOMAIN deferred'
           \subseteq Pending \cup DOMAIN carried \cup DOMAIN deferred \cup {n}
    BY <2>1, <2>2, ZenonT(20)
  <2> QED BY <1>7, <2>2, <2>3, FreshApart
<1>9. ASSUME NEW v \in BOOLEAN, BatchAdd(s, v) PROVE Apart'
  <2>1. PICK e : e = Extend(batch.entries, [id \in {n} |-> v])
    OBVIOUS
  <2>2. batch' = [batch EXCEPT !.entries = e] /\ UNCHANGED <<chunk, carried, deferred>>
    BY <1>6, <1>9, <2>1 DEF BatchAdd, session
  <2>3. batch'.entries = e
    BY <2>2 DEF IInv, Tables
  <2>4. DOMAIN batch'.entries \subseteq DOMAIN batch.entries \cup {n}
    <3>1. PICK f : f = batch.entries
      OBVIOUS
    <3>2. DOMAIN Extend(f, [id \in {n} |-> v]) = DOMAIN f \cup {n}
      BY Zenon, WithDomain
    <3> QED BY <2>1, <2>3, <3>1, <3>2
  <2>5. Pending' \cup DOMAIN carried' \cup DOMAIN deferred'
           \subseteq Pending \cup DOMAIN carried \cup DOMAIN deferred
    BY <2>2 DEF Pending
  <2> QED BY <1>7, <2>4, <2>5, FreshApart
<1>10. ASSUME NEW c \in Circuits, NEW args \in [1 .. c.num_inputs -> Slot],
              RunCircuit(s, c, args)
       PROVE  Apart'
  <2>1. PICK b : carried' = Extend(Settled, [id \in {n} |-> b])
    BY <1>6, <1>10 DEF RunCircuit
  <2>2. DOMAIN carried' = DOMAIN carried \cup DOMAIN deferred \cup {n}
    <3>1. PICK f : f = Settled
      OBVIOUS
    <3>2. DOMAIN Extend(f, [id \in {n} |-> b]) = DOMAIN f \cup {n}
      BY Zenon, WithDomain
    <3> QED BY <2>1, <3>1, <3>2, SettledFacts
  <2>3. batch' = batch /\ Pending' = Pending /\ DOMAIN deferred' = {}
    BY <1>10, EmptyRight DEF RunCircuit, Pending
  <2>4. Pending' \cup DOMAIN carried' \cup DOMAIN deferred'
           \subseteq Pending \cup DOMAIN carried \cup DOMAIN deferred \cup {n}
    BY <2>2, <2>3
  <2> QED BY <1>7, <2>3, <2>4, FreshApart, ZenonT(20)
<1>11. ASSUME NEW args, RunFails(args) PROVE Apart'
  BY <1>11, GoneApart, ZenonT(20) DEF RunFails, Fail
<1>12. ASSUME NEW K, Reveal(s, K) PROVE Apart'
  <2>1. PICK c \in Flushed(RevealKeep(s, K)) : carried' = c
    BY <1>12 DEF Reveal
  <2>2. PICK keep : keep = RevealKeep(s, K)
    OBVIOUS
  <2>3. FlushOK(keep, c)
    BY <2>1, <2>2, FlushRight, ZenonT(20)
  <2>4. DOMAIN carried' \subseteq DOMAIN carried \cup DOMAIN deferred \cup Pending
    BY <2>1, <2>3, SettledFacts DEF FlushOK
  <2>5. batch' = batch /\ Pending' = {} /\ DOMAIN deferred' = {}
    <3>1. chunk' = <<>> /\ deferred' = Empty /\ batch' = batch
      BY <1>12 DEF Reveal, DropChunk
    <3>2. Pending' = {}
      BY <3>1 DEF Pending, Local
    <3>3. DOMAIN deferred' = {}
      BY <3>1, EmptyRight
    <3> QED BY <3>1, <3>2, <3>3
  <2>6. Pending' \cup DOMAIN carried' \cup DOMAIN deferred'
           \subseteq Pending \cup DOMAIN carried \cup DOMAIN deferred \cup {n}
    BY <2>4, <2>5
  <2> QED BY <1>7, <2>5, <2>6, FreshApart, ZenonT(20)
<1>13. ASSUME NEW K, RevealFails(s, K) PROVE Apart'
  BY <1>13, GoneApart DEF RevealFails, Fail
<1>14. \/ \E a \in Slot : Copy(s, a) \/ Move(s, a)
       \/ Drop(s)
       \/ \E op \in Ops, a, b \in Slot : GateOp(s, op, a, b)
       \/ \E v \in BOOLEAN : NewPublicBit(s, v) \/ SamePublicBit(s, v)
       \/ \E v \in BOOLEAN : Input(s, v)
       \/ \E v \in BOOLEAN : BatchAdd(s, v)
       \/ \E c \in Circuits : \E args \in [1 .. c.num_inputs -> Slot] :
              RunCircuit(s, c, args) \/ RunFails(args)
       \/ \E K : Reveal(s, K) \/ RevealFails(s, K)
  BY DEF SlotStep
<1> QED BY <1>1, <1>2, <1>3, <1>4, <1>5, <1>8, <1>9, <1>10, <1>11, <1>12, <1>13, <1>14


\* No call on the session gives a waiting input a second place.
LEMMA SessionStepApart ==
    ASSUME IInv, Apart, SessionStep
    PROVE  Apart'
<1>1. CASE Overflow \/ BadRecipient \/ BatchReused
  BY <1>1, GoneApart DEF Overflow, BadRecipient, BatchReused, Fail
<1>2. CASE InputBatch
  <2>1. batch' = [batch EXCEPT !.state = "open"] /\ UNCHANGED <<chunk, carried, deferred>>
    BY <1>2 DEF InputBatch, recorder, session
  <2>2. batch'.entries = batch.entries
    BY <2>1 DEF IInv, Tables
  <2> QED BY <2>1, <2>2, SameApart
<1>3. CASE BatchFinish
  <2>1. batch'.entries = Empty
    BY <1>3 DEF BatchFinish
  <2> QED BY <2>1, EmptyRight DEF Apart
<1>4. CASE BatchDestroyed
  <2>1. CASE batch.entries = Empty
    <3>1. batch' = [batch EXCEPT !.state = "none"] /\ UNCHANGED <<chunk, carried, deferred>>
      BY <1>4, <2>1 DEF BatchDestroyed, recorder, session
    <3>2. batch'.entries = batch.entries
      BY <3>1 DEF IInv, Tables
    <3> QED BY <3>1, <3>2, SameApart
  <2>2. CASE batch.entries # Empty
    BY <1>4, <2>2, GoneApart DEF BatchDestroyed, Fail
  <2> QED BY <2>1, <2>2
<1>5. ASSUME NEW keep, NEW c \in Flushed(keep), NEW S, carried' = Only(c, S),
             DropChunk, batch' = batch
      PROVE  Apart'
  <2>1. FlushOK(keep, c)
    BY FlushRight
  <2>2. RightBits(c) /\ DOMAIN c \subseteq DOMAIN carried \cup DOMAIN deferred \cup Pending
    BY <2>1, SettledFacts DEF FlushOK
  <2>3. DOMAIN carried' \subseteq DOMAIN c
    BY <1>5 DEF Only
  <2>4. Pending' = {} /\ DOMAIN deferred' = {}
    BY <1>5, EmptyRight DEF DropChunk, Pending, Local
  <2> QED BY <1>5, <2>2, <2>3, <2>4 DEF Apart
<1>6. CASE Checkpoint
  <2>1. PICK c \in Flushed(LivePending) : carried' = Only(c, InScope)
    BY <1>6 DEF Checkpoint
  <2>2. DropChunk /\ batch' = batch
    BY <1>6 DEF Checkpoint
  <2> QED BY <1>5, <2>1, <2>2
<1>7. ASSUME NEW K, CheckpointKeep(K) PROVE Apart'
  <2>1. PICK c \in Flushed(Held(K)) : carried' = Only(c, Held(K))
    BY <1>7 DEF CheckpointKeep
  <2>2. DropChunk /\ batch' = batch
    BY <1>7 DEF CheckpointKeep
  <2> QED BY <1>5, <2>1, <2>2
<1>8. ASSUME NEW K, CheckpointFails(K) PROVE Apart'
  BY <1>8, GoneApart DEF CheckpointFails, Fail
<1>9. CASE Teardown
  BY <1>9, GoneApart DEF Teardown, Fail
<1>10. \/ Overflow \/ BadRecipient \/ BatchReused
       \/ InputBatch \/ BatchFinish \/ BatchDestroyed
       \/ Checkpoint \/ Teardown
       \/ \E K : CheckpointKeep(K) \/ CheckpointFails(K)
  BY DEF SessionStep
<1> QED BY <1>1, <1>2, <1>3, <1>4, <1>6, <1>7, <1>8, <1>9, <1>10

\* A waiting input of the batch has no other value and no gate, in every state.
LEMMA ApartHolds == Spec => []Apart
<1>1. Init => Apart
  <2>1. Init => batch.entries = Empty
    BY DEF Init
  <2> QED BY <2>1, EmptyRight DEF Apart
<1>2. IInv /\ Apart /\ [Next]_vars => Apart'
  <2> SUFFICES ASSUME IInv, Apart, [Next]_vars PROVE Apart'
    OBVIOUS
  <2>1. CASE UNCHANGED vars
    BY <2>1, SameApart DEF vars, recorder, session
  <2>2. CASE Next
    BY <2>2, SessionStepApart, SlotStepApart DEF Next
  <2> QED BY <2>1, <2>2
<1> QED BY <1>1, <1>2, InvariantHolds, PTL DEF Spec

\* checkpoint() leaves bits for exactly the ids in scope that are not lost and do
\* not wait in a batch: nothing in scope is pruned, and nothing else is kept.
THEOREM CheckpointExact == Spec => CheckpointIsExact
<1>1. IInv /\ Apart /\ [Next]_vars =>
          [Checkpoint => DOMAIN carried' = InScope \ (lost \cup DOMAIN batch.entries)]_vars
  <2> SUFFICES ASSUME IInv, Apart, Checkpoint
               PROVE  DOMAIN carried' = InScope \ (lost \cup DOMAIN batch.entries)
    OBVIOUS
  <2>1. PICK c \in Flushed(LivePending) : carried' = Only(c, InScope)
    BY DEF Checkpoint
  <2>2. PICK keep : keep = LivePending
    OBVIOUS
  <2>3. FlushOK(keep, c)
    BY <2>1, <2>2, FlushRight, ZenonT(20)
  <2>4. /\ RightBits(c) /\ DOMAIN c \cap lost = {}
        /\ DOMAIN c = DOMAIN carried \cup DOMAIN deferred \cup (keep \cap Pending)
    BY <2>3, SettledFacts DEF FlushOK
  <2>5. DOMAIN carried' = DOMAIN c \cap InScope
    BY <2>1, <2>4, OnlyRight
  <2>6. \A id \in InScope : id \in lost \cup Backed
    <3>1. 0 \notin InScope
      BY DEF InScope, IInv, Counts, CountsOK
    <3> QED BY <3>1, InScopeHeld DEF IInv, Backing, HeldIsBacked
  <2>7. keep = Pending \cap InScope
    BY <2>2 DEF LivePending
  <2> QED BY <2>4, <2>5, <2>6, <2>7 DEF Backed, Apart
<1> QED BY <1>1, InvariantHolds, ApartHolds, PTL DEF Spec, CheckpointIsExact


-----------------------------------------------------------------------------
(* The session implements ClearSession.                                     *)

\* The value of every variable, as ClearSession sees it.
Val == [s \in Slot |-> ClearOf(wire[s])]

\* What the calls of ClearSession are, seen from this session.
LEMMA SetStep ==
    ASSUME NEW s, NEW x, Returns, Val' = [Val EXCEPT ![s] = x]
    PROVE  Clear!Set(s, x)
BY DEF Returns, Val, Clear!Set

\* A call that leaves every value alone.
LEMMA QuietStep ==
    ASSUME Returns, Val' = Val
    PROVE  Clear!Quiet
BY DEF Returns, Val, Clear!Quiet

\* error() is the stop of ClearSession.
LEMMA StopStep ==
    ASSUME Fail
    PROVE  Clear!Stop
BY DEF Fail, Gone, Clear!Stop, ClearOf

\* A variable receives an id that exists, or the null id.
LEMMA AssignVal ==
    ASSUME IInv, NEW s \in Slot, NEW id, wire' = [wire EXCEPT ![s] = id], clear' = clear
    PROVE  Val' = [Val EXCEPT ![s] = ClearOf(id)]
<1>1. wire \in [Slot -> 0 .. Len(rc)]
  BY DEF IInv, Counts, CountsOK
<1> QED BY <1>1 DEF Val, ClearOf

\* A variable receives a new id.
LEMMA NewIdVal ==
    ASSUME IInv, NEW s \in Slot, NEW n, NEW x \in Optional, NEW l \in BOOLEAN,
           NewId(s, n, x, l)
    PROVE  Val' = [Val EXCEPT ![s] = x]
<1>1. NewIdOK(n, x)
  BY NewIdFacts
<1>2. wire \in [Slot -> 0 .. Len(rc)] /\ DOMAIN rc = 1 .. Len(rc) /\ Len(rc) \in Nat
  BY DEF IInv, Counts, CountsOK
<1>3. wire' = [wire EXCEPT ![s] = n]
  BY DEF NewId, Assign
<1>4. n # 0 /\ clear'[n] = x /\ \A id \in DOMAIN rc : clear'[id] = clear[id]
  BY <1>1 DEF NewIdOK
<1>5. ASSUME NEW t \in Slot
      PROVE  (IF wire'[t] = 0 THEN {} ELSE clear'[wire'[t]])
               = IF t = s THEN x ELSE ClearOf(wire[t])
  BY <1>2, <1>3, <1>4 DEF ClearOf
<1> QED BY Zenon, <1>5 DEF Val, ClearOf

\* A copy of a wire is a copy of its value.
LEMMA CopyStep ==
    ASSUME IInv, NEW s \in Slot, NEW a \in Slot, Copy(s, a)
    PROVE  Clear!Copy(s, a)
<1>1. wire \in [Slot -> 0 .. Len(rc)] /\ clear' = clear /\ Returns
  BY DEF IInv, Counts, CountsOK, Copy, history
<1>2. wire' = [wire EXCEPT ![s] = wire[a]]
  BY <1>1 DEF Copy, Assign
<1>3. Val' = [Val EXCEPT ![s] = ClearOf(wire[a])]
  BY <1>1, <1>2, AssignVal
<1>4. Clear!Set(s, ClearOf(wire[a]))
  BY Zenon, <1>1, <1>3, SetStep
<1> QED BY <1>4 DEF Clear!Copy

\* A moved wire takes its value along.
LEMMA MoveStep ==
    ASSUME IInv, NEW s \in Slot, NEW a \in Slot, Move(s, a)
    PROVE  Clear!Move(s, a)
<1>1. wire \in [Slot -> 0 .. Len(rc)] /\ clear' = clear /\ Returns
  BY DEF IInv, Counts, CountsOK, Move, history
<1>2. wire' = [wire EXCEPT ![a] = 0, ![s] = wire[a]] /\ s # a
  BY DEF Move
<1>3. Val' = [Val EXCEPT ![a] = {}, ![s] = Val[a]]
  BY Zenon, <1>1, <1>2 DEF Val, ClearOf
<1> QED BY <1>1, <1>3 DEF Clear!Move, Returns, Val


\* A recorded gate is the plaintext gate on the values of its operands.
LEMMA GateOpStep ==
    ASSUME IInv, NEW s \in Slot, NEW op \in {"And", "Xor", "Not"},
           NEW a \in Slot, NEW b \in Slot, GateOp(s, op, a, b)
    PROVE  Clear!GateOp(s, op, a, b)
<1>1. PICK x, y : x = wire[a] /\ y = IF op = "Not" THEN 0 ELSE wire[b]
  OBVIOUS
<1>2. x \in 0 .. Len(rc) /\ y \in 0 .. Len(rc)
  BY <1>1 DEF IInv, Counts, CountsOK
<1>3. PICK v : v = ClearGate(op, x, y)
  OBVIOUS
<1>4. v \in Optional
  <2>1. PICK g : g = [op |-> op, in0 |-> x, in1 |-> y]
    BY Zenon
  <2>2. g.op = op /\ g.in0 = x /\ g.in1 = y
    BY <2>1
  <2>3. ClearGate(g.op, g.in0, g.in1) \in Optional
    BY <1>2, <2>2, ClearGateMeans
  <2> QED BY <1>3, <2>2, <2>3
<1>5. PICK g : g = [op |-> op, in0 |-> wire[a], out |-> NextId,
                    in1 |-> IF op = "Not" THEN 0 ELSE wire[b]]
  BY Zenon
<1>6. g.in0 = x /\ g.in1 = y
  BY <1>1, <1>5
<1>7. PICK n, l : n = NextId /\ l = (Operands(g) \cap (lost \cup {0}) # {})
  OBVIOUS
<1>8. /\ n # UINT32_MAX /\ Assign(s, n, Append(rc, 0))
      /\ Remember(ClearGate(op, g.in0, g.in1), Operands(g) \cap (lost \cup {0}) # {})
      /\ Returns
  BY <1>5, <1>7, ZenonT(20) DEF GateOp
<1>9. l \in BOOLEAN /\ NewId(s, n, v, l)
  BY <1>3, <1>6, <1>7, <1>8 DEF NewId, Remember
<1>10. Val' = [Val EXCEPT ![s] = v]
  BY <1>4, <1>9, NewIdVal
<1>11. Clear!Set(s, v)
  BY Zenon, <1>8, <1>10, SetStep
<1>12. PICK S, T : S = ClearOf(wire[a]) /\ T = ClearOf(wire[b])
  OBVIOUS
<1>13. v = Clear!ClearGate(op, S, T)
  <2>1. \A p, q : Clear!Apply(op, p, q) = Apply(op, p, q)
    BY DEF Clear!Apply, Apply
  <2>2. CASE op = "Not"
    BY <1>1, <1>3, <1>12, <2>2 DEF ClearGate, Clear!ClearGate
  <2>3. CASE op # "Not"
    BY <1>1, <1>3, <1>12, <2>1, <2>3 DEF ClearGate, Clear!ClearGate
  <2> QED BY <2>2, <2>3
<1>14. Val[a] = S /\ Val[b] = T
  BY <1>12 DEF Val
<1> QED BY <1>11, <1>13, <1>14 DEF Clear!GateOp, Val

\* A new bit, whether a constant, an input or a batched input.
LEMMA NewBitStep ==
    ASSUME IInv, NEW s \in Slot, NEW b \in BOOLEAN, NewId(s, NextId, {b}, FALSE), Returns
    PROVE  Clear!Input(s, b)
<1>1. PICK x : x = {b}
  OBVIOUS
<1>2. x \in Optional
  BY <1>1 DEF Optional
<1>3. PICK n : n = NextId
  OBVIOUS
<1>4. NewId(s, n, x, FALSE)
  BY <1>1, <1>3
<1>5. Val' = [Val EXCEPT ![s] = x]
  BY <1>2, <1>4, NewIdVal
<1>6. Clear!Set(s, x)
  BY <1>5, SetStep
<1> QED BY <1>1, <1>6 DEF Clear!Input

\* The cached constant has the value asked for.
LEMMA SamePublicBitStep ==
    ASSUME IInv, NEW s \in Slot, NEW c \in BOOLEAN, SamePublicBit(s, c)
    PROVE  Clear!Input(s, c)
<1>1. PICK id : id = constWire[c]
  OBVIOUS
<1>2. id # 0 /\ wire' = [wire EXCEPT ![s] = id] /\ clear' = clear /\ Returns
  BY <1>1 DEF SamePublicBit, Assign, history
<1>3. PICK i \in DOMAIN chunk : chunk[i].out = id /\ chunk[i].op = ConstOp(c)
  BY <1>1, <1>2 DEF IInv, Chunks, ConstCacheCurrent
<1>4. PICK g : g = chunk[i]
  OBVIOUS
<1>5. clear[id] = Meaning(g, ClearFn)
  BY <1>3, <1>4 DEF IInv, Values, GateHistory
<1>6. IsConst(g) /\ g.op = ConstOp(c)
  BY <1>3, <1>4 DEF IsConst, ConstOp
<1>7. Meaning(g, ClearFn) = {Apply(g.op, FALSE, FALSE)}
  BY <1>6 DEF Meaning
<1>8. Apply(g.op, FALSE, FALSE) = c
  BY Zenon, <1>6 DEF Apply, ConstOp
<1>9. ClearOf(id) = {c}
  <2>1. clear[id] = {c}
    BY <1>5, <1>7, <1>8, Zenon
  <2> QED BY <1>2, <2>1 DEF ClearOf
<1>10. PICK x : x = ClearOf(id)
  OBVIOUS
<1>11. Val' = [Val EXCEPT ![s] = x]
  BY <1>2, <1>10, AssignVal
<1>12. Clear!Set(s, x)
  BY Zenon, <1>2, <1>11, SetStep
<1> QED BY <1>9, <1>10, <1>12 DEF Clear!Input

\* A variable that leaves scope loses its value.
LEMMA DropStep ==
    ASSUME IInv, NEW s \in Slot, Drop(s)
    PROVE  Clear!Drop(s)
<1>1. wire' = [wire EXCEPT ![s] = 0] /\ clear' = clear /\ Returns
  BY DEF Drop, Assign, history
<1>2. Val' = [Val EXCEPT ![s] = ClearOf(0)]
  BY <1>1, AssignVal
<1>3. ClearOf(0) = {}
  BY DEF ClearOf
<1>4. Clear!Set(s, {})
  BY <1>1, <1>2, <1>3, SetStep, ZenonT(20)
<1> QED BY <1>4 DEF Clear!Drop


\* run(circuit) is the plaintext run on the values of its arguments.
LEMMA RunCircuitStep ==
    ASSUME IInv, NEW s \in Slot, NEW c \in Circuits,
           NEW args \in [1 .. c.num_inputs -> Slot], RunCircuit(s, c, args)
    PROVE  Clear!RunCircuit(s, c, args)
<1>1. PICK in \in [DOMAIN args -> BOOLEAN] : \E v \in Runs(c, in) :
          /\ \A i \in DOMAIN args : clear[wire[args[i]]] = {in[i]}
          /\ clear' = Append(clear, {v[c.num_wires - 1]})
  BY ZenonT(20) DEF RunCircuit
<1>2. PICK v \in Runs(c, in) :
          /\ \A i \in DOMAIN args : clear[wire[args[i]]] = {in[i]}
          /\ clear' = Append(clear, {v[c.num_wires - 1]})
  BY <1>1
<1>3. \A i \in DOMAIN args : Val[args[i]] = {in[i]}
  <2>1. \A i \in DOMAIN args : args[i] \in Slot /\ wire[args[i]] \in DOMAIN Settled
    BY DEF RunCircuit, Unflushed
  <2>2. 0 \notin DOMAIN Settled
    <3>1. PICK f : f = Settled
      OBVIOUS
    <3>2. Bits(f)
      BY <3>1, SettledFacts
    <3> QED BY <3>1, <3>2, NoNullBits
  <2>3. ASSUME NEW i \in DOMAIN args PROVE Val[args[i]] = {in[i]}
    <3>1. PICK a \in Slot : a = args[i]
      BY <2>1
    <3>2. wire[a] # 0 /\ clear[wire[a]] = {in[i]}
      BY <1>2, <2>1, <2>2, <3>1
    <3>3. Val[a] = clear[wire[a]]
      BY <3>2 DEF Val, ClearOf
    <3> QED BY <3>1, <3>2, <3>3
  <2> QED BY <2>3
<1>4. PICK x : x = {v[c.num_wires - 1]}
  OBVIOUS
<1>5. x \in Optional
  <2>1. c.num_wires \in Nat /\ c.num_wires > 0
    BY CircuitsOK DEF Program
  <2>2. c.num_wires - 1 \in Wires(c)
    BY <2>1 DEF Wires
  <2>3. v[c.num_wires - 1] \in BOOLEAN
    BY <1>2, <2>2 DEF Runs
  <2> QED BY Zenon, <1>4, <2>3 DEF Optional
<1>6. PICK n : n = NextId
  OBVIOUS
<1>7. NewId(s, n, x, FALSE) /\ Returns
  BY <1>2, <1>4, <1>6, ZenonT(20) DEF RunCircuit, NewId
<1>8. Val' = [Val EXCEPT ![s] = x]
  BY <1>5, <1>7, NewIdVal
<1>9. Clear!Set(s, {v[c.num_wires - 1]})
  BY Zenon, <1>4, <1>7, <1>8, SetStep
<1>10. v \in Clear!Runs(c, in)
  <2>1. \A op, p, q : Clear!Apply(op, p, q) = Apply(op, p, q)
    BY DEF Clear!Apply, Apply
  <2>2. v \in [Wires(c) -> BOOLEAN] /\ IsRun(c, in, v)
    BY <1>2 DEF Runs
  <2>3. Clear!Wires(c) = Wires(c)
    BY ZenonT(20) DEF Clear!Wires, Wires
  <2>4. Clear!IsRun(c, in, v)
    BY <2>1, <2>2, <2>3 DEF IsRun, Clear!IsRun
  <2> QED BY <2>2, <2>3, <2>4 DEF Clear!Runs
<1> QED BY Zenon, <1>3, <1>9, <1>10 DEF Clear!RunCircuit, Val

\* A reveal shows the plaintext of the variable it is given.
LEMMA RevealStep ==
    ASSUME IInv, NEW s \in Slot, NEW K, Reveal(s, K)
    PROVE  \E mine \in BOOLEAN : Clear!Reveal(s, mine)
<1>1. PICK keep : keep = RevealKeep(s, K)
  OBVIOUS
<1>2. PICK c \in Flushed(keep) : shown' \in {{}, {c[wire[s]]}}
  BY <1>1 DEF Reveal
<1>3. FlushOK(keep, c)
  BY <1>2, FlushRight
<1>4. wire[s] \in DOMAIN c /\ RightBits(c)
  BY <1>1, <1>3, ZenonT(20) DEF FlushOK, RevealKeep
<1>5. clear[wire[s]] = {c[wire[s]]} /\ wire[s] # 0
  <2>1. clear[wire[s]] = {c[wire[s]]} /\ Bits(c)
    BY <1>4 DEF RightBits
  <2> QED BY <1>4, <2>1, NoNullBits
<1>6. Val[s] = {c[wire[s]]}
  BY <1>5 DEF Val, ClearOf
<1>7. Val' = Val /\ status' = status
  BY DEF Reveal, history, Val, ClearOf
<1>8. Val[s] # {} /\ (shown' = {} \/ shown' = Val[s])
  BY <1>2, <1>6
<1>9. CASE shown' = {}
  <2>1. Clear!Reveal(s, FALSE)
    BY <1>7, <1>8, <1>9 DEF Clear!Reveal, Val
  <2> QED BY <2>1, ZenonT(20)
<1>10. CASE shown' = Val[s]
  <2>1. Clear!Reveal(s, TRUE)
    BY <1>7, <1>8, <1>10 DEF Clear!Reveal, Val
  <2> QED BY <2>1, ZenonT(20)
<1> QED BY <1>8, <1>9, <1>10

\* Every step of the session is a step of ClearSession.
LEMMA NextStep ==
    ASSUME IInv, Next
    PROVE  Clear!Next
<1>1. status = "open" /\ (SessionStep \/ \E s \in Slot : SlotStep(s))
  BY DEF Next
<1>2. CASE Fail
  <2>1. Clear!Stop
    BY <1>2, StopStep
  <2> QED BY <1>1, <2>1 DEF Clear!Next
<1>3. ASSUME Returns, UNCHANGED <<wire, clear>> PROVE Clear!Next
  <2>1. Val' = Val
    BY <1>3 DEF Val, ClearOf
  <2>2. Clear!Quiet
    BY <1>3, <2>1, QuietStep
  <2> QED BY <1>1, <2>2 DEF Clear!Next
<1>4. CASE SessionStep
  <2>1. CASE Teardown /\ ~Fail
    <3>1. InScope = {} /\ Gone /\ wire' = wire /\ status' = "closed"
      BY <2>1 DEF Teardown
    <3>2. \A s \in Slot : wire[s] = 0
      BY <3>1, HeldInScope DEF IInv
    <3>3. Val' = Val
      BY <3>1, <3>2 DEF Val, ClearOf
    <3>4. Clear!Quiet
      BY <1>1, <3>1, <3>3 DEF Clear!Quiet, Gone, Val
    <3> QED BY <1>1, <3>4 DEF Clear!Next
  <2>2. CASE ~Teardown /\ ~Fail
    <3>1. \/ InputBatch \/ BatchFinish \/ BatchDestroyed \/ Checkpoint
          \/ \E K : CheckpointKeep(K)
      BY <1>4, <2>2 DEF SessionStep, Overflow, BatchReused, BadRecipient, CheckpointFails
    <3>2. Returns /\ UNCHANGED <<wire, clear>>
      BY <2>2, <3>1 DEF InputBatch, BatchFinish, BatchDestroyed, Checkpoint, CheckpointKeep,
                        history
    <3> QED BY <1>3, <3>2
  <2> QED BY <1>2, <2>1, <2>2
<1>5. ASSUME NEW s \in Slot, SlotStep(s), ~Fail PROVE Clear!Next
  <2>1. ASSUME NEW a \in Slot, Copy(s, a) \/ Move(s, a) PROVE Clear!Next
    BY <1>1, <2>1, CopyStep, MoveStep DEF Clear!Next
  <2>2. CASE Drop(s)
    BY <1>1, <2>2, DropStep DEF Clear!Next
  <2>3. ASSUME NEW op \in Ops, NEW a \in Slot, NEW b \in Slot, GateOp(s, op, a, b)
        PROVE  Clear!Next
    <3>1. op \in {"And", "Xor", "Not"}
      BY DEF Ops
    <3>2. Clear!GateOp(s, op, a, b)
      BY <2>3, <3>1, GateOpStep
    <3> QED BY <1>1, <3>1, <3>2 DEF Clear!Next
  <2>4. ASSUME NEW v \in BOOLEAN,
               NewPublicBit(s, v) \/ SamePublicBit(s, v) \/ Input(s, v) \/ BatchAdd(s, v)
        PROVE  Clear!Next
    <3>1. CASE NewPublicBit(s, v) \/ Input(s, v) \/ BatchAdd(s, v)
      <4>1. NewId(s, NextId, {v}, FALSE) /\ Returns
        BY <3>1 DEF NewPublicBit, Input, BatchAdd, NewId, Remember
      <4> QED BY <1>1, <4>1, NewBitStep, ZenonT(20) DEF Clear!Next
    <3>2. CASE SamePublicBit(s, v)
      BY <1>1, <3>2, SamePublicBitStep DEF Clear!Next
    <3> QED BY <2>4, <3>1, <3>2
  <2>5. ASSUME NEW c \in Circuits, NEW args \in [1 .. c.num_inputs -> Slot],
               RunCircuit(s, c, args)
        PROVE  Clear!Next
    <3>1. Clear!RunCircuit(s, c, args)
      BY <2>5, RunCircuitStep
    <3> QED BY <1>1, <3>1 DEF Clear!Next
  <2>6. ASSUME NEW K, Reveal(s, K) PROVE Clear!Next
    BY <1>1, <2>6, RevealStep, ZenonT(20) DEF Clear!Next
  <2>7. \/ \E a \in Slot : Copy(s, a) \/ Move(s, a)
        \/ Drop(s)
        \/ \E op \in Ops, a, b \in Slot : GateOp(s, op, a, b)
        \/ \E v \in BOOLEAN :
               NewPublicBit(s, v) \/ SamePublicBit(s, v) \/ Input(s, v) \/ BatchAdd(s, v)
        \/ \E c \in Circuits : \E args \in [1 .. c.num_inputs -> Slot] :
               RunCircuit(s, c, args)
        \/ \E K : Reveal(s, K)
    BY <1>5 DEF SlotStep, RunFails, RevealFails
  <2> QED BY <2>1, <2>2, <2>3, <2>4, <2>5, <2>6, <2>7
<1> QED BY <1>1, <1>2, <1>4, <1>5

\* Whatever is recorded, dropped, kept and flushed, the session shows what the
\* plaintext session shows, or stops.
THEOREM Refinement == Spec => ImplementsClearSession
<1>1. Init => Clear!Init
  BY ZenonT(20) DEF Init, Clear!Init, ClearOf
<1>2. IInv /\ [Next]_vars => [Clear!Next]_(Clear!vars)
  <2> SUFFICES ASSUME IInv, [Next]_vars PROVE [Clear!Next]_(Clear!vars)
    OBVIOUS
  <2>1. CASE UNCHANGED vars
    BY <2>1 DEF vars, history, Clear!vars, ClearOf
  <2>2. CASE Next
    BY <2>2, NextStep
  <2> QED BY <2>1, <2>2
<1> QED BY <1>1, <1>2, InvariantHolds, PTL DEF Spec, ImplementsClearSession, Clear!Spec
=============================================================================
