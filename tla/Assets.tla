------------------------------- MODULE Assets -------------------------------
(******************************************************************************)
(* Circuit assets on disk.  First builtin_circuit and float_circuit           *)
(* (ir/builtins.cpp): a process-wide map from names to loaded programs under  *)
(* a mutex, filled from the first asset directory that has the file           *)
(* (ir/assets.cpp), while files come and go.  Then the manifest and           *)
(* check-manifest commands of empbc-tool (tools/empbc_tool.cpp) over an asset *)
(* directory and a manifest directory: one step per file, so that crashes and *)
(* other processes' changes fall between them; a manifest entry is a function *)
(* of the asset's bytes and is written as the asset's version.                *)
(******************************************************************************)
EXTENDS Integers, FiniteSets, FiniteSetsExt

CONSTANTS Callers, Names,
          Dirs,       \* number of asset directories, searched in order
          Programs,   \* what a well-formed file may hold
          MaxCalls,   \* bound on the lookups of one thread
          MaxEdits,   \* bound on changes to files by other processes
          None        \* no thread, no program

ASSUME AssetAssumption ==
    /\ {Dirs, MaxCalls, MaxEdits} \subseteq Nat
    /\ None \notin Callers \cup Programs

VARIABLES disk,    \* contents per directory and name: a program, "bad" or "absent"
          cache,   \* name -> program or None
          lock,    \* holder of the mutex, or None
          pc,      \* "idle", "lock", "find", "probe", "load"
          want,    \* the name a thread looks up
          from,    \* the directory it found the file in
          got,     \* results so far: <<name, program>>
          calls, edits,
          failed     \* error() ended the process

assetVars == <<disk, cache, lock, pc, want, from, got, calls, edits, failed>>

Files == Programs \cup {"bad", "absent"}

AssetInit ==
    /\ disk \in [1 .. Dirs -> [Names -> Files]]
    /\ cache = [n \in Names |-> None]
    /\ lock = None
    /\ pc = [t \in Callers |-> "idle"]
    /\ want = [t \in Callers |-> CHOOSE n \in Names : TRUE]
    /\ from = [t \in Callers |-> 1]
    /\ got = {}
    /\ calls = [t \in Callers |-> 0]
    /\ edits = 0
    /\ failed = FALSE

Call(t, n) ==
    /\ ~failed /\ pc[t] = "idle" /\ calls[t] < MaxCalls
    /\ pc' = [pc EXCEPT ![t] = "lock"]
    /\ want' = [want EXCEPT ![t] = n]
    /\ calls' = [calls EXCEPT ![t] = @ + 1]
    /\ UNCHANGED <<disk, cache, lock, from, got, edits, failed>>

Lock(t) ==
    /\ ~failed /\ pc[t] = "lock" /\ lock = None
    /\ lock' = t
    /\ pc' = [pc EXCEPT ![t] = "find"]
    /\ UNCHANGED <<disk, cache, want, from, got, calls, edits, failed>>

\* The reference goes to the caller and the lock_guard is released.
Return(t, p) ==
    /\ got' = got \cup {<<want[t], p>>}
    /\ lock' = None
    /\ pc' = [pc EXCEPT ![t] = "idle"]

\* A miss starts the search at the first directory.
Miss(t) ==
    /\ cache[want[t]] = None
    /\ from' = [from EXCEPT ![t] = 1]
    /\ pc' = [pc EXCEPT ![t] = "probe"]
    /\ UNCHANGED <<got, lock>>

Find(t) ==
    /\ ~failed /\ pc[t] = "find"
    /\ \/ cache[want[t]] # None /\ Return(t, cache[want[t]]) /\ UNCHANGED from
       \/ Miss(t)
    /\ UNCHANGED <<disk, cache, want, calls, edits, failed>>

\* find_circuit_asset: one directory is probed at a time, the first where the
\* file opens is taken, and running out of directories is fatal.
Probe(t) ==
    /\ ~failed /\ pc[t] = "probe"
    /\ \/ /\ from[t] <= Dirs /\ disk[from[t]][want[t]] # "absent"
          /\ pc' = [pc EXCEPT ![t] = "load"]
          /\ UNCHANGED <<from, failed>>
       \/ /\ from[t] <= Dirs /\ disk[from[t]][want[t]] = "absent"
          /\ from' = [from EXCEPT ![t] = @ + 1]
          /\ UNCHANGED <<pc, failed>>
       \/ /\ from[t] > Dirs
          /\ failed' = TRUE
          /\ UNCHANGED <<pc, from>>
    /\ UNCHANGED <<disk, cache, lock, want, got, calls, edits>>

\* Mutant: the loaded program is returned without being kept.
LoadOnly(t) ==
    /\ ~failed /\ pc[t] = "load"
    /\ LET p == disk[from[t]][want[t]]
       IN  IF p \in Programs THEN Return(t, p) /\ UNCHANGED <<cache, failed>>
           ELSE failed' = TRUE /\ UNCHANGED <<cache, got, lock, pc>>
    /\ UNCHANGED <<disk, want, from, calls, edits>>

\* load_empbc_file and emplace; the file may have changed since it was found.
Load(t) ==
    /\ ~failed /\ pc[t] = "load"
    /\ LET p == disk[from[t]][want[t]]
       IN  IF p \in Programs
           THEN /\ cache' = [cache EXCEPT ![want[t]] = p]
                /\ Return(t, p)
                /\ UNCHANGED failed
           ELSE failed' = TRUE /\ UNCHANGED <<cache, got, lock, pc>>
    /\ UNCHANGED <<disk, want, from, calls, edits>>

\* Another process installs, damages or removes a file.
Edit(d, n, f) ==
    /\ edits < MaxEdits /\ disk[d][n] # f
    /\ disk' = [disk EXCEPT ![d][n] = f]
    /\ edits' = edits + 1
    /\ UNCHANGED <<cache, lock, pc, want, from, got, calls, failed>>

Step(t) == Lock(t) \/ Find(t) \/ Probe(t) \/ Load(t)

AssetNext ==
    \/ \E t \in Callers : Step(t) \/ \E n \in Names : Call(t, n)
    \/ \E d \in 1 .. Dirs, n \in Names, f \in Files : Edit(d, n, f)

AssetSpec == AssetInit /\ [][AssetNext]_assetVars /\ \A t \in Callers : WF_assetVars(Step(t))

-----------------------------------------------------------------------------
\* Every lookup of a name in a process gets the same program, the one in the
\* cache, whichever thread asks and however the files change meanwhile.
OneProgramPerName ==
    \A r \in got : cache[r[1]] = r[2]

\* A lookup comes back, or the process has ended with an error: no caller waits
\* for a mutex nobody will release.
LookupReturns ==
    \A t \in Callers : pc[t] = "lock" ~> pc[t] = "idle" \/ failed

(***************************************************************************)
(* The manifest tool                                                       *)
(***************************************************************************)
CONSTANTS Stems,      \* asset stems 1 .. n, in the order of their file names
          Versions,   \* well-formed assets; their manifests differ
          MaxRuns,    \* bound on commands
          MaxTreeEdits    \* bound on changes by other processes

ASSUME ManifestAssumption ==
    /\ {MaxRuns, MaxTreeEdits} \subseteq Nat
    /\ Stems \subseteq Nat
    /\ Versions \cap {"absent", "bad", "other"} = {}

VARIABLES assets,      \* name -> version, "bad" or "absent"
          manifests,   \* name -> version, "other" (anything else) or "absent"
          dir,         \* the manifest directory exists
          phase,       \* "idle", "write", "prune", "check", "extra"
          todo,        \* assets still to visit
          expected,    \* the listing the command started from
          read,        \* version inspected for the entry being written
          matches,     \* check_manifest_set's verdict so far
          lastCommand,        \* [cmd, exit] of the last command that ended
          quiet,       \* nobody else changed anything since it started
          runs, treeEdits

toolVars == <<assets, manifests, dir, phase, todo, expected, read, matches, lastCommand, quiet, runs, treeEdits>>

Listed == {n \in Stems : assets[n] # "absent"}
Entries == {n \in Stems : manifests[n] # "absent"}

ToolInit ==
    /\ assets \in [Stems -> Versions \cup {"bad", "absent"}]
    /\ manifests \in [Stems -> {"other", "absent"}]
    /\ dir = (Entries # {})
    /\ phase = "idle"
    /\ todo = {} /\ expected = {}
    /\ read = "absent"
    /\ matches = TRUE
    /\ lastCommand = [cmd |-> "none", exit |-> 0]
    /\ quiet = TRUE
    /\ runs = 0 /\ treeEdits = 0

\* empbc_files: the sorted listing both commands begin with.
Start(p) ==
    /\ phase = "idle" /\ runs < MaxRuns
    /\ phase' = p
    /\ todo' = Listed /\ expected' = Listed
    /\ matches' = TRUE
    /\ quiet' = TRUE
    /\ runs' = runs + 1
    /\ UNCHANGED <<assets, manifests, read, lastCommand, treeEdits>>

StartManifest == Start("write") /\ dir' = TRUE
StartCheck == Start("check") /\ UNCHANGED dir

Exit(cmd, code) == phase' = "idle" /\ lastCommand' = [cmd |-> cmd, exit |-> code]

\* expecting() in inspect_file: the asset cannot be read or does not load.
Die(cmd) ==
    /\ Exit(cmd, 3)
    /\ UNCHANGED <<assets, manifests, dir, todo, expected, read, matches, quiet, runs, treeEdits>>

\* The next asset is inspected and its entry opened, which truncates it.
OpenEntry ==
    /\ phase = "write" /\ todo # {} /\ read = "absent"
    /\ LET n == Min(todo)
       IN  \/ /\ assets[n] \in Versions
              /\ read' = assets[n]
              /\ manifests' = [manifests EXCEPT ![n] = "other"]
              /\ UNCHANGED <<assets, dir, phase, todo, expected, matches, lastCommand, quiet, runs, treeEdits>>
           \/ assets[n] \notin Versions /\ Die("manifest")

WriteEntry ==
    /\ phase = "write" /\ read # "absent"
    /\ LET n == Min(todo)
       IN  /\ manifests' = [manifests EXCEPT ![n] = read]
           /\ todo' = todo \ {n}
           /\ read' = "absent"
    /\ UNCHANGED <<assets, dir, phase, expected, matches, lastCommand, quiet, runs, treeEdits>>

\* Mutant: entries without an asset are left alone.
PruneNothing ==
    /\ phase = "write" /\ todo = {}
    /\ Exit("manifest", 0)
    /\ UNCHANGED <<assets, manifests, dir, todo, expected, read, matches, quiet, runs, treeEdits>>

\* Entries of assets that are gone are removed one by one; then exit 0.
Prune ==
    /\ phase \in {"write", "prune"} /\ todo = {}
    /\ LET stale == Entries \ expected
       IN  IF stale # {}
           THEN /\ manifests' = [manifests EXCEPT ![Min(stale)] = "absent"]
                /\ phase' = "prune"
                /\ UNCHANGED lastCommand
           ELSE Exit("manifest", 0) /\ UNCHANGED manifests
    /\ UNCHANGED <<assets, dir, todo, expected, read, matches, quiet, runs, treeEdits>>

\* The process is killed between two steps.
Kill ==
    /\ phase \in {"write", "prune"}
    /\ Exit("manifest", 3)
    /\ read' = "absent"
    /\ UNCHANGED <<assets, manifests, dir, todo, expected, matches, quiet, runs, treeEdits>>

\* One asset: a missing or different entry spoils the verdict, the walk goes on.
CheckEntry ==
    /\ phase = "check" /\ todo # {}
    /\ LET n == Min(todo)
           here == dir /\ manifests[n] # "absent"
       IN  \/ /\ here => assets[n] \in Versions
              /\ todo' = todo \ {n}
              /\ matches' = (matches /\ here /\ manifests[n] = assets[n])
              /\ UNCHANGED <<assets, manifests, dir, phase, expected, read, lastCommand, quiet, runs, treeEdits>>
           \/ here /\ assets[n] \notin Versions /\ Die("check")

\* The manifest directory is listed for entries no asset accounts for.
CheckExtra ==
    /\ phase = "check" /\ todo = {}
    /\ Exit("check", IF dir /\ matches /\ Entries \subseteq expected THEN 0 ELSE 1)
    /\ UNCHANGED <<assets, manifests, dir, todo, expected, read, matches, quiet, runs, treeEdits>>

EditTree(n, f) ==
    /\ treeEdits < MaxTreeEdits /\ assets[n] # f
    /\ assets' = [assets EXCEPT ![n] = f]
    /\ quiet' = FALSE
    /\ treeEdits' = treeEdits + 1
    /\ UNCHANGED <<manifests, dir, phase, todo, expected, read, matches, lastCommand, runs>>

ToolStep == OpenEntry \/ WriteEntry \/ Prune \/ CheckEntry \/ CheckExtra

ToolNext ==
    \/ StartManifest \/ StartCheck
    \/ ToolStep \/ Kill
    \/ \E n \in Stems, f \in Versions \cup {"bad", "absent"} : EditTree(n, f)

ToolSpec == ToolInit /\ [][ToolNext]_toolVars /\ WF_toolVars(ToolStep)

-----------------------------------------------------------------------------
Fresh == dir /\ \A n \in Stems : manifests[n] = assets[n]

\* check-manifest says what is there: with nobody else at work it exits 0 exactly
\* when every asset has its own manifest and no manifest lacks an asset.
CheckTruthful ==
    phase = "idle" /\ quiet /\ lastCommand.cmd = "check" /\ lastCommand.exit \in {0, 1}
        => (lastCommand.exit = 0 <=> Fresh)

\* manifest repairs whatever a crashed run, a deleted or a renamed asset left
\* behind: when it succeeds undisturbed, check-manifest would accept the result.
ManifestRepairs ==
    phase = "idle" /\ quiet /\ lastCommand.cmd = "manifest" /\ lastCommand.exit = 0 => Fresh

\* Both commands come to an end.
CommandsEnd == phase # "idle" ~> phase = "idle"

\* The exit codes of both commands tell the truth about the directories they leave.
ManifestsTruthful == CheckTruthful /\ ManifestRepairs
=============================================================================
