------------------------------ MODULE VerifyDiff ------------------------------
(***************************************************************************)
(* runMain of .github/scripts/verify-diagnostics.go: the diagnostics of a  *)
(* base and a candidate build compared over populations of input files,    *)
(* while other programs may edit the sources, the inputs, their            *)
(* configuration and the manifests.  What is read is hashed before, the    *)
(* hashes are compared again, and any difference makes the run an error.   *)
(*                                                                         *)
(* A file is its version: world[x] is what a reader of x gets now.  A scan *)
(* reads its files one after the other, in any order, and edits may come   *)
(* in between.  Commands fail as EvidenceCommand allows; here that is one  *)
(* outcome.                                                                *)
(***************************************************************************)
EXTENDS Naturals, FiniteSets

CONSTANTS NumPops,       \* populations
          FilesOf,       \* the files each population lists
          ManifestOf,    \* and the manifest that lists them
          ModeChoices,   \* modes of the populations
          Sources,       \* files of the working tree
          Config,        \* the configuration above the inputs
          MaxVersion, MaxEdits,
          ConfigSays,    \* what each version of it says of an input
          Findings, RuleOf, Severe,   \* Severe: errors and warnings
          Outputs,       \* diagnostics a build may report: a bag of findings
          Targets        \* --target-rule, or NoRule

Pops == 1..NumPops
Lanes == {"base", "candidate"}
Files == UNION {FilesOf[p] : p \in Pops}
Items == Sources \cup Files \cup {Config} \cup {ManifestOf[p] : p \in Pops}
Versions == 0..MaxVersion
NoRule == "no rule"
Unread == MaxVersion + 1      \* no configuration read
Readings == [hash : Versions, config : Versions \cup {Unread}]
Empty == [x \in {} |-> 0]

ASSUME ComparisonAssumption ==
  /\ NumPops \in Nat \ {0}
  /\ DOMAIN FilesOf = Pops /\ \A p \in Pops : FilesOf[p] # {}
  /\ ModeChoices \subseteq [Pops -> {"no-config", "configured", "configured-only"}]
  /\ MaxVersion \in Nat /\ MaxEdits \in Nat
  /\ ConfigSays \in [Versions -> {"absent", "invalid", "unmatched", "matched"}]
  /\ Severe \subseteq Findings
  /\ Outputs \subseteq [Findings -> Nat]

VARIABLES world,         \* the version of every file
          edits,         \* edits made
          modes, working, target,   \* the arguments: working is no --candidate
          main,          \* where runMain is
          pop, lane,     \* the population and the lane it is at
          todo,          \* files the current scan has still to read
          seen,          \* what it read of the others
          cache,         \* the version of the configuration it loaded
          listed,        \* version of the manifest a population comes from
          manifestHash,  \* and the version that was hashed
          initial,       \* pop.initial
          frozen,        \* fingerprint of the working tree
          built,         \* what the candidate was built from
          laneRead,      \* what each lane's CLI read
          outputs,       \* and reported
          identical,     \* non_target_identical
          status, report, exit

arguments == <<modes, working, target>>
place == <<main, pop, lane, todo, seen, cache>>
manifests == <<listed, manifestHash>>
lanes == <<laneRead, outputs, identical>>
result == <<status, report, exit>>
vars == <<world, edits, arguments, place, manifests, initial, frozen, built, lanes, result>>

InputScans == {"initial", "before", "after", "recheck"}
SourceScans == {"freeze", "candidate", "refreeze"}

TypeOK == /\ world \in [Items -> Versions]
          /\ edits \in 0..MaxEdits
          /\ modes \in ModeChoices
          /\ working \in BOOLEAN
          /\ target \in Targets
          /\ main \in InputScans \cup SourceScans
                      \cup {"guard", "load", "hash", "base", "lane", "finish", "done"}
          /\ pop \in Pops
          /\ lane \in Lanes
          /\ todo \subseteq Sources \cup Files
          /\ todo \cap DOMAIN seen = {}
          /\ cache \in Versions \cup {Unread}
          /\ listed \in [Pops -> Versions]
          /\ manifestHash \in [Pops -> Versions]
          /\ DOMAIN initial = Pops /\ DOMAIN laneRead = Pops
          /\ \A p \in Pops : initial[p] \in {Empty} \cup [FilesOf[p] -> Readings]
          /\ \A t \in {frozen, built} : t \in {Empty} \cup [Sources -> Versions]
          /\ \A p \in Pops : laneRead[p] \in [Lanes -> {Empty} \cup [FilesOf[p] -> Readings]]
          /\ outputs \in [Pops -> [Lanes -> {Empty} \cup Outputs]]
          /\ identical \in [Pops -> BOOLEAN]
          /\ status \in {"error", "pass", "fail"}
          /\ report \in {"none", "error", "pass", "fail"}
          /\ exit \in 0..3

Init == /\ world \in {w \in [Items -> Versions] : \A x \in Items \ {Config} : w[x] = 0}
        /\ edits = 0
        /\ modes \in ModeChoices
        /\ working \in BOOLEAN
        /\ target \in Targets
        /\ main = "guard"
        /\ pop = 1
        /\ lane = "base"
        /\ todo = {}
        /\ seen = Empty
        /\ cache = Unread
        /\ listed = [p \in Pops |-> 0]
        /\ manifestHash = [p \in Pops |-> 0]
        /\ initial = [p \in Pops |-> Empty]
        /\ frozen = Empty
        /\ built = Empty
        /\ laneRead = [p \in Pops |-> [l \in Lanes |-> Empty]]
        /\ outputs = [p \in Pops |-> [l \in Lanes |-> Empty]]
        /\ identical = [p \in Pops |-> TRUE]
        /\ status = "error"
        /\ report = "none"
        /\ exit = 3
-----------------------------------------------------------------------------
\* Another program writes a file, and does not take an edit back.
Edit == /\ main # "done"
        /\ edits < MaxEdits
        /\ edits' = edits + 1
        /\ \E x \in Items : /\ world[x] < MaxVersion
                            /\ world' = [world EXCEPT ![x] = @ + 1]
        /\ UNCHANGED <<arguments, place, manifests, initial, frozen, built, lanes, result>>

ToRead(phase, p) == IF phase \in SourceScans THEN Sources
                    ELSE IF phase \in InputScans \cup {"lane"} THEN FilesOf[p]
                    ELSE {}

\* The next phase, and the files it reads.
Enter(phase, p, l) == /\ main' = phase
                      /\ pop' = p
                      /\ lane' = l
                      /\ todo' = ToRead(phase, p)
                      /\ seen' = Empty
                      /\ cache' = Unread

\* report["error"] and finish: the status stays "error".
Stop == Enter("finish", pop, lane)

\* Arguments are refused before there is an output directory.
Refuse == /\ main = "guard"
          /\ Enter("done", pop, lane)
          /\ exit' = 2
          /\ UNCHANGED <<world, edits, arguments, manifests, initial, frozen, built, lanes,
                         status, report>>

\* The base guard names both revisions, or fails.
Guard == /\ main = "guard"
         /\ Enter("load", 1, "base") \/ Stop
         /\ UNCHANGED <<world, edits, arguments, manifests, initial, frozen, built, lanes,
                        result>>

\* loadPopulation reads the manifest ...
Load == /\ main = "load"
        /\ \/ /\ listed' = [listed EXCEPT ![pop] = world[ManifestOf[pop]]]
              /\ Enter("hash", pop, lane)
           \/ Stop /\ UNCHANGED listed
        /\ UNCHANGED <<world, edits, arguments, manifestHash, initial, frozen, built, lanes,
                       result>>

\* ... and sha256File reads it again.
Hash == /\ main = "hash"
        /\ \/ /\ manifestHash' = [manifestHash EXCEPT ![pop] = world[ManifestOf[pop]]]
              /\ Enter("initial", pop, lane)
           \/ Stop /\ UNCHANGED manifestHash
        /\ UNCHANGED <<world, edits, arguments, listed, initial, frozen, built, lanes, result>>

Saw(x, reading) == seen' = [y \in DOMAIN seen \cup {x} |-> IF y = x THEN reading ELSE seen[y]]

\* fingerprint, or the snapshot of the working tree: one more file.
ReadSource == /\ main \in SourceScans
              /\ main = "candidate" => working
              /\ \/ /\ \E x \in todo : Saw(x, world[x]) /\ todo' = todo \ {x}
                    /\ UNCHANGED <<main, pop, lane, cache>>
                 \/ todo # {} /\ Stop
              /\ UNCHANGED <<world, edits, arguments, manifests, initial, frozen, built, lanes,
                             result>>

\* computeInputs, and the CLI: one more file.  A configuration is discovered
\* for each file, but loaded once.
Discovered == IF modes[pop] = "no-config" THEN Unread
              ELSE IF ConfigSays[world[Config]] # "absent" /\ cache # Unread THEN cache
              ELSE world[Config]
ReadInput == /\ main \in InputScans \cup {"lane"}
             /\ \/ /\ \E x \in todo :
                        /\ Saw(x, [hash |-> world[x], config |-> Discovered])
                        /\ todo' = todo \ {x}
                   /\ Discovered # Unread => ConfigSays[Discovered] # "invalid"
                   /\ cache' = IF Discovered = Unread \/ ConfigSays[Discovered] = "absent"
                               THEN cache ELSE Discovered
                   /\ UNCHANGED <<main, pop, lane>>
                \/ todo # {} /\ Stop
             /\ UNCHANGED <<world, edits, arguments, manifests, initial, frozen, built, lanes,
                            result>>
-----------------------------------------------------------------------------
\* populationInputs: a configured-only population has no fallback.
Configured == modes[pop] = "configured-only" =>
                \A x \in FilesOf[pop] : ConfigSays[seen[x].config] = "matched"

Initial == /\ main = "initial"
           /\ todo = {}
           /\ IF ~Configured THEN Stop /\ UNCHANGED initial
              ELSE /\ initial' = [initial EXCEPT ![pop] = seen]
                   /\ IF pop < NumPops THEN Enter("load", pop + 1, lane)
                      ELSE Enter("freeze", 1, lane)
           /\ UNCHANGED <<world, edits, arguments, manifests, frozen, built, lanes, result>>

Freeze == /\ main = "freeze"
          /\ todo = {}
          /\ frozen' = seen
          /\ Enter("base", 1, lane)
          /\ UNCHANGED <<world, edits, arguments, manifests, initial, built, lanes, result>>

\* build of the base: an archive of its revision, which nothing edits.
BuildBase == /\ main = "base"
             /\ Enter("candidate", 1, lane) \/ Stop
             /\ UNCHANGED <<world, edits, arguments, manifests, initial, frozen, built, lanes,
                            result>>

\* Mutant: a file that cannot be read is left out of the snapshot.
SnapshotDone_Early == TRUE

SnapshotDone == working => todo = {}

\* build of the candidate: the snapshot, or the archive of a revision.
BuildCandidate == /\ main = "candidate"
                  /\ SnapshotDone
                  /\ built' = seen
                  /\ Enter("before", 1, "base") \/ Stop
                  /\ UNCHANGED <<world, edits, arguments, manifests, initial, frozen, lanes,
                                 result>>

\* Mutant: configurations are not compared.
SameInputs_Files == \A x \in FilesOf[pop] : seen[x].hash = initial[pop][x].hash

\* equalInputs of a fresh populationInputs and pop.initial.
SameInputs == seen = initial[pop]

Before == /\ main = "before"
          /\ todo = {}
          /\ IF SameInputs THEN Enter("lane", pop, lane) ELSE Stop
          /\ UNCHANGED <<world, edits, arguments, manifests, initial, frozen, built, lanes,
                         result>>

\* The CLI fails, says something on stderr, is not valid or disagrees with
\* its own exit status; or its diagnostics count.
Lane == /\ main = "lane"
        /\ todo = {}
        /\ \/ Stop /\ UNCHANGED lanes
           \/ \E o \in Outputs, code \in {0, 1} :
                /\ code = IF \E f \in Severe : o[f] > 0 THEN 1 ELSE 0
                /\ outputs' = [outputs EXCEPT ![pop][lane] = o]
                /\ laneRead' = [laneRead EXCEPT ![pop][lane] = seen]
                /\ Enter("after", pop, lane)
                /\ UNCHANGED identical
        /\ UNCHANGED <<world, edits, arguments, manifests, initial, frozen, built, result>>

\* Mutant: findings are a set.
Changed_Set(b, c) == {f \in Findings : (b[f] > 0) # (c[f] > 0)}

\* compare: what was removed or added, duplicates counted.
Changed(b, c) == {f \in Findings : b[f] > c[f]} \cup {f \in Findings : c[f] > b[f]}

NonTargetIdentical(b, c) == target # NoRule => {RuleOf[f] : f \in Changed(b, c)} \subseteq {target}

\* After a lane; after the second one the population is compared.
After == /\ main = "after"
         /\ todo = {}
         /\ IF ~SameInputs THEN Stop /\ UNCHANGED identical
            ELSE IF lane = "base" THEN Enter("before", pop, "candidate") /\ UNCHANGED identical
            ELSE /\ identical' = [identical EXCEPT ![pop] =
                                    NonTargetIdentical(outputs[pop]["base"],
                                                       outputs[pop]["candidate"])]
                 /\ IF pop < NumPops THEN Enter("before", pop + 1, "base")
                    ELSE Enter("refreeze", 1, lane)
         /\ UNCHANGED <<world, edits, arguments, manifests, initial, frozen, built, laneRead,
                        outputs, result>>

SameSource == seen = frozen

Refreeze == /\ main = "refreeze"
            /\ todo = {}
            /\ IF SameSource THEN Enter("recheck", 1, lane) ELSE Stop
            /\ UNCHANGED <<world, edits, arguments, manifests, initial, frozen, built, lanes,
                           result>>

\* The last look at inputs and manifests, and the verdict.
Recheck == /\ main = "recheck"
           /\ todo = {}
           /\ \/ Stop /\ UNCHANGED status
              \/ /\ SameInputs /\ world[ManifestOf[pop]] = manifestHash[pop]
                 /\ IF pop < NumPops THEN Enter("recheck", pop + 1, lane) /\ UNCHANGED status
                    ELSE /\ status' = IF \A p \in Pops : identical[p] THEN "pass" ELSE "fail"
                         /\ Enter("finish", pop, lane)
           /\ UNCHANGED <<world, edits, arguments, manifests, initial, frozen, built, lanes,
                          report, exit>>

\* finish: the summary, then the report; both must be written.
Finish == /\ main = "finish"
          /\ \E summarised, reported \in BOOLEAN :
               /\ status' = IF summarised THEN status ELSE "error"
               /\ report' = IF reported THEN status' ELSE "none"
               /\ exit' = IF ~reported \/ status' = "error" THEN 2
                          ELSE IF status' = "pass" THEN 0 ELSE 1
          /\ Enter("done", pop, lane)
          /\ UNCHANGED <<world, edits, arguments, manifests, initial, frozen, built, lanes>>

Ended == main = "done" /\ UNCHANGED vars

Next == \/ Edit \/ Refuse \/ Guard \/ Load \/ Hash \/ ReadSource \/ ReadInput \/ Initial
        \/ Freeze \/ BuildBase \/ BuildCandidate \/ Before \/ Lane \/ After \/ Refreeze
        \/ Recheck \/ Finish \/ Ended

Spec == Init /\ [][Next]_vars
-----------------------------------------------------------------------------
\* A comparison that counts was made from the sources and inputs the report
\* hashes: both lanes read them, and the candidate was built from them
\* (docs/project/diagnostic-diff.md:22).
EvidenceIsFrozen ==
  exit \in {0, 1} => /\ working => built = frozen
                     /\ \A p \in Pops, l \in Lanes : laneRead[p][l] = initial[p]

\* The list of files that was compared is the one whose hash is reported.
ManifestIsAttested == exit \in {0, 1} => listed = manifestHash

\* Exit 0 and 1 are what the report on disk says, after both lanes of every
\* population; and exit 1 is a mismatch outside of the target rule, with
\* duplicates counted.
ExitMatchesEvidence ==
  exit \in {0, 1} =>
    /\ report = IF exit = 0 THEN "pass" ELSE "fail"
    /\ \A p \in Pops, l \in Lanes : outputs[p][l] \in Outputs
    /\ exit = 1 <=> \E p \in Pops, f \in Findings :
                      /\ target \notin {NoRule, RuleOf[f]}
                      /\ outputs[p]["base"][f] # outputs[p]["candidate"][f]
=============================================================================
