------------------------------ MODULE MCProcess ------------------------------
(*****************************************************************************)
(* What threads and processes share on one machine, for TLC: the task queue  *)
(* (ThreadPool), the cache of assets, and the asset and manifest directories *)
(* (Assets).  The three do not share state, so a behaviour runs one of them, *)
(* and the others stay in their initial state.                               *)
(*****************************************************************************)
EXTENDS ThreadPool, Assets

VARIABLE unit     \* which of them runs

ProcessInit ==
    /\ unit \in {"pool", "cache", "tool"}
    /\ Init
    /\ AssetInit /\ (unit # "cache" => disk = [d \in 1 .. Dirs |-> [n \in Names |-> "absent"]])
    /\ ToolInit /\ (unit # "tool" => \A n \in Stems : assets[n] = "absent" /\ manifests[n] = "absent")

ProcessNext ==
    /\ \/ unit = "pool" /\ Next /\ UNCHANGED <<assetVars, toolVars>>
       \/ unit = "cache" /\ AssetNext /\ UNCHANGED <<vars, toolVars>>
       \/ unit = "tool" /\ ToolNext /\ UNCHANGED <<vars, assetVars>>
    /\ UNCHANGED unit

\* The fairness of the one that runs.
ProcessSpec ==
    /\ ProcessInit /\ [][ProcessNext]_<<unit, vars, assetVars, toolVars>>
    /\ WF_vars(unit = "pool" /\ MainStep)
    /\ \A w \in Workers : WF_vars(unit = "pool" /\ WorkerStep(w))
    /\ \A t \in Callers : WF_assetVars(unit = "cache" /\ Step(t))
    /\ WF_toolVars(unit = "tool" /\ ToolStep)

-----------------------------------------------------------------------------
\* Nothing on the machine waits forever: a program that uses a pool ends (PoolEnds of
\* ThreadPool), every lookup of an asset returns, and both commands end.
ProcessEnds == (unit = "pool" => PoolEnds) /\ LookupReturns /\ CommandsEnd
=============================================================================
