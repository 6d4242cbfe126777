-------------------------- MODULE VerifyDiff_proofs --------------------------
(***************************************************************************)
(* The safety properties of VerifyDiff for any populations, configuration, *)
(* sources and edits.  Versions only grow, so what a scan read lies        *)
(* between the versions at its start and those at its end; two equal scans *)
(* therefore fix whatever was read between them.                           *)
(***************************************************************************)
EXTENDS VerifyDiff, TLAPS

\* What the command line now reads of x in population p.
Now(p, x) == [hash |-> world[x],
              config |-> IF modes[p] = "no-config" THEN Unread ELSE world[Config]]

\* Reading r was possible when s was read, or before.
AtMost(r, s) == r.hash <= s.hash /\ r.config <= s.config

\* The populations whose initial inputs are known, and the lanes that have
\* reported and that have been found to be undisturbed.
Known(p) == \/ main \in {"load", "hash", "initial"} /\ p < pop
            \/ main \in SourceScans \cup {"base", "before", "lane", "after", "recheck"}
            \/ status # "error"

Passed(p, l) == \/ /\ main \in {"before", "lane", "after"}
                   /\ p < pop \/ (p = pop /\ l = "base" /\ lane = "candidate")
                \/ main \in {"refreeze", "recheck"}
                \/ status # "error"

Recorded(p, l) == Passed(p, l) \/ (main = "after" /\ p = pop /\ l = lane)

\* The scan in progress: what it has read and has still to read.
ScanInv == /\ todo \cup DOMAIN seen = ToRead(main, pop)
           /\ main \in SourceScans =>
                /\ seen \in [DOMAIN seen -> Versions]
                /\ \A x \in DOMAIN seen : seen[x] <= world[x]
           /\ main = "candidate" /\ ~working => seen = Empty
           /\ main \in InputScans \cup {"lane"} =>
                /\ seen \in [DOMAIN seen -> Readings]
                /\ \A x \in DOMAIN seen : AtMost(seen[x], Now(pop, x))
                /\ cache # Unread => cache <= world[Config]

\* Nothing that is kept is newer than the files.
KnownInv == \A p \in Pops : Known(p) =>
              /\ initial[p] \in [FilesOf[p] -> Readings]
              /\ \A x \in FilesOf[p] : AtMost(initial[p][x], Now(p, x))

LaneInv == \A p \in Pops, l \in Lanes :
             /\ Recorded(p, l) =>
                  /\ outputs[p][l] \in Outputs
                  /\ laneRead[p][l] \in [FilesOf[p] -> Readings]
                  /\ \A x \in FilesOf[p] : /\ AtMost(initial[p][x], laneRead[p][l][x])
                                           /\ AtMost(laneRead[p][l][x], Now(p, x))
             /\ Passed(p, l) => laneRead[p][l] = initial[p]

\* A lane reads nothing older than the initial inputs, and the scan after it
\* nothing older than the lane did.
Since == IF main = "lane" THEN initial[pop] ELSE laneRead[pop][lane]

SinceInv == main \in {"lane", "after"} =>
              /\ \A x \in DOMAIN seen : AtMost(Since[x], seen[x])
              /\ cache # Unread => \A x \in FilesOf[pop] : Since[x].config <= cache

\* The same for the sources: the fingerprint, the snapshot and the second
\* fingerprint.
SourceInv ==
  /\ main \in {"base", "candidate", "refreeze", "recheck"} \cup {"before", "lane", "after"} =>
       /\ frozen \in [Sources -> Versions]
       /\ \A x \in Sources : frozen[x] <= world[x]
  /\ main = "candidate" => \A x \in DOMAIN seen : frozen[x] <= seen[x]
  /\ working /\ main \in {"before", "lane", "after", "refreeze", "recheck"} =>
       /\ built \in [Sources -> Versions]
       /\ \A x \in Sources : frozen[x] <= built[x] /\ built[x] <= world[x]
  /\ working /\ main = "refreeze" => \A x \in DOMAIN seen : built[x] <= seen[x]
  /\ working /\ (main = "recheck" \/ status # "error") => built = frozen

\* A population that has passed is compared, and the verdict is about all.
CompareInv == \A p \in Pops : Passed(p, "candidate") =>
                identical[p] = NonTargetIdentical(outputs[p]["base"], outputs[p]["candidate"])

VerdictInv == /\ status # "error" =>
                   /\ main \in {"finish", "done"}
                   /\ status = "pass" <=> \A p \in Pops : identical[p]
              /\ exit \in {0, 1} => /\ main = "done"
                                    /\ status # "error"
                                    /\ report = status
                                    /\ exit = 0 <=> status = "pass"

Inv == /\ TypeOK /\ ScanInv /\ KnownInv /\ LaneInv /\ SinceInv /\ SourceInv /\ CompareInv
       /\ VerdictInv
-----------------------------------------------------------------------------
Phases == InputScans \cup SourceScans
            \cup {"guard", "load", "hash", "base", "lane", "finish", "done"}

\* The sets of versions and readings, and their order: two readings, each
\* possible before the other, are one.
LEMMA Orders == /\ Versions \subseteq Nat /\ Unread \in Nat \ Versions
                /\ \A v \in Versions : v <= Unread
                /\ 0 \in Versions /\ 1 \in Pops /\ Pops \subseteq Nat
                /\ \A r \in Readings : r.hash \in Nat /\ r.config \in Nat
BY ComparisonAssumption DEF Versions, Unread, Pops, Readings

LEMMA Antisymmetric ==
  ASSUME NEW r \in Readings, NEW s \in Readings, AtMost(r, s), AtMost(s, r)
  PROVE  r = s
<1>1. r.hash = s.hash /\ r.config = s.config
  BY Orders DEF AtMost
<1>. QED
  BY <1>1 DEF Readings

\* A phase starts with all of its files to read.
LEMMA Entered ==
  ASSUME NEW phase \in Phases, NEW p \in Pops, NEW l \in Lanes, Enter(phase, p, l)
  PROVE  /\ main' = phase /\ pop' = p /\ lane' = l /\ cache' = Unread /\ DOMAIN seen' = {}
         /\ main' \in Phases /\ pop' \in Pops /\ lane' \in Lanes
         /\ todo' \subseteq Sources \cup Files /\ todo' \cap DOMAIN seen' = {}
         /\ ScanInv'
<1>1. /\ main' = phase /\ pop' = p /\ lane' = l /\ cache' = Unread
      /\ todo' = ToRead(phase, p) /\ seen' = Empty
  BY DEF Enter
<1>2. /\ DOMAIN seen' = {}
      /\ seen' \in [DOMAIN seen' -> Versions]
      /\ seen' \in [DOMAIN seen' -> Readings]
  BY <1>1 DEF Empty
<1>3. todo' \subseteq Sources \cup Files
  BY <1>1 DEF ToRead, Files
<1>4. ScanInv'
  BY <1>1, <1>2 DEF ScanInv, Empty
<1>. QED
  BY <1>1, <1>2, <1>3, <1>4

\* The parts of the invariant say nothing of a run that ends with an error.
LEMMA Stopped ==
  ASSUME TypeOK, VerdictInv, Stop, main \notin {"finish", "done"}, UNCHANGED <<status, exit>>
  PROVE  /\ main' \in Phases /\ pop' \in Pops /\ lane' \in Lanes
         /\ todo' \subseteq Sources \cup Files /\ todo' \cap DOMAIN seen' = {}
         /\ cache' = Unread
         /\ ScanInv' /\ KnownInv' /\ LaneInv' /\ SinceInv' /\ SourceInv' /\ CompareInv'
         /\ VerdictInv'
<1>1. "finish" \in Phases /\ pop \in Pops /\ lane \in Lanes
  BY DEF Phases, TypeOK
<1>2. Enter("finish", pop, lane)
  BY DEF Stop
<1>3. /\ main' = "finish" /\ cache' = Unread
      /\ main' \in Phases /\ pop' \in Pops /\ lane' \in Lanes
      /\ todo' \subseteq Sources \cup Files /\ todo' \cap DOMAIN seen' = {} /\ ScanInv'
  BY <1>1, <1>2, Entered
<1>4. status' = "error" /\ exit' \notin {0, 1}
  BY DEF VerdictInv
<1>5. KnownInv'
  BY <1>3, <1>4 DEF KnownInv, Known, SourceScans
<1>6. LaneInv'
  BY <1>3, <1>4 DEF LaneInv, Recorded, Passed
<1>7. CompareInv'
  BY <1>3, <1>4 DEF CompareInv, Passed
<1>8. SinceInv' /\ SourceInv' /\ VerdictInv'
  BY <1>3, <1>4 DEF SinceInv, SourceInv, VerdictInv
<1>. QED
  BY <1>3, <1>5, <1>6, <1>7, <1>8

LEMMA ItemsOf == /\ Sources \subseteq Items /\ Config \in Items
                 /\ \A p \in Pops : FilesOf[p] \subseteq Items /\ ManifestOf[p] \in Items
                 /\ \A p \in Pops : FilesOf[p] \subseteq Files
BY DEF Items, Files

\* A step that only moves on.
Moves == UNCHANGED <<world, edits, arguments, manifests, initial, frozen, built, lanes, result>>

LEMMA MoveTyped ==
  ASSUME TypeOK, Moves,
         main' \in Phases, pop' \in Pops, lane' \in Lanes,
         todo' \subseteq Sources \cup Files, todo' \cap DOMAIN seen' = {},
         cache' \in Versions \cup {Unread}
  PROVE  TypeOK'
<1>1. /\ world' = world /\ edits' = edits /\ modes' = modes /\ working' = working
      /\ target' = target /\ listed' = listed /\ manifestHash' = manifestHash
      /\ initial' = initial /\ frozen' = frozen /\ built' = built
      /\ laneRead' = laneRead /\ outputs' = outputs /\ identical' = identical
      /\ status' = status /\ report' = report /\ exit' = exit
  BY DEF Moves, arguments, manifests, lanes, result
<1>. QED
  BY <1>1 DEF TypeOK, Phases

\* One file more is read.
LEMMA SawOne ==
  ASSUME NEW x, NEW reading, NEW S, reading \in S, seen \in [DOMAIN seen -> S],
         Saw(x, reading)
  PROVE  /\ DOMAIN seen' = DOMAIN seen \cup {x}
         /\ seen' \in [DOMAIN seen' -> S]
         /\ seen'[x] = reading
         /\ \A y \in DOMAIN seen' : y # x => y \in DOMAIN seen /\ seen'[y] = seen[y]
BY DEF Saw

\* A scan that ends has read all of its files.
LEMMA ScanEnds ==
  ASSUME ScanInv, TypeOK, todo = {}
  PROVE  /\ main \in SourceScans =>
              /\ seen \in [Sources -> Versions]
              /\ \A x \in Sources : x \in DOMAIN seen /\ seen[x] <= world[x]
         /\ main \in InputScans \cup {"lane"} =>
              /\ seen \in [FilesOf[pop] -> Readings]
              /\ \A x \in FilesOf[pop] : x \in DOMAIN seen /\ AtMost(seen[x], Now(pop, x))
BY DEF ScanInv, ToRead, InputScans, SourceScans
-----------------------------------------------------------------------------
LEMMA InitHolds == ASSUME Init PROVE Inv
<1>1. DOMAIN seen = {} /\ seen = Empty
  BY DEF Init, Empty
<1>2. TypeOK
  <2>1. /\ world \in [Items -> Versions] /\ modes \in ModeChoices /\ working \in BOOLEAN
        /\ target \in Targets /\ edits \in 0..MaxEdits
    BY ComparisonAssumption DEF Init
  <2>2. /\ main \in Phases /\ pop \in Pops /\ lane \in Lanes
        /\ todo \subseteq Sources \cup Files /\ todo \cap DOMAIN seen = {}
        /\ cache \in Versions \cup {Unread}
    BY Orders DEF Init, Phases, Lanes
  <2>3. /\ listed \in [Pops -> Versions] /\ manifestHash \in [Pops -> Versions]
        /\ identical \in [Pops -> BOOLEAN]
        /\ DOMAIN initial = Pops /\ DOMAIN laneRead = Pops
        /\ \A p \in Pops : initial[p] = Empty
        /\ frozen = Empty /\ built = Empty
    BY Orders DEF Init
  <2>4. /\ \A p \in Pops : laneRead[p] \in [Lanes -> {Empty} \cup [FilesOf[p] -> Readings]]
        /\ outputs \in [Pops -> [Lanes -> {Empty} \cup Outputs]]
    BY DEF Init
  <2>5. status = "error" /\ report = "none" /\ exit = 3
    BY DEF Init
  <2>. QED
    BY <2>1, <2>2, <2>3, <2>4, <2>5 DEF TypeOK, Phases
<1>3. ScanInv
  BY <1>1 DEF Init, ScanInv, ToRead, InputScans, SourceScans
<1>4. KnownInv /\ SinceInv /\ SourceInv /\ VerdictInv
  BY DEF Init, KnownInv, Known, SinceInv, SourceInv, VerdictInv, SourceScans
<1>5. LaneInv /\ CompareInv
  BY DEF Init, LaneInv, CompareInv, Passed, Recorded
<1>. QED
  BY <1>2, <1>3, <1>4, <1>5 DEF Inv

LEMMA RefuseStep == ASSUME Inv, Refuse PROVE Inv'
<1>1. /\ main = "guard" /\ Enter("done", pop, lane) /\ exit' = 2 /\ status' = status
      /\ report' = report
      /\ UNCHANGED <<world, edits, arguments, manifests, initial, frozen, built, lanes>>
  BY DEF Refuse
<1>2. "done" \in Phases /\ pop \in Pops /\ lane \in Lanes
  BY DEF Phases, Inv, TypeOK
<1>3. /\ main' = "done" /\ cache' = Unread
      /\ main' \in Phases /\ pop' \in Pops /\ lane' \in Lanes
      /\ todo' \subseteq Sources \cup Files /\ todo' \cap DOMAIN seen' = {} /\ ScanInv'
  BY <1>1, <1>2, Entered
<1>4. TypeOK'
  BY <1>1, <1>3 DEF Inv, TypeOK, Phases, arguments, manifests, lanes
<1>5. status' = "error" /\ exit' \notin {0, 1}
  BY <1>1 DEF Inv, VerdictInv
<1>6. KnownInv' /\ SinceInv' /\ SourceInv' /\ VerdictInv'
  BY <1>3, <1>5 DEF KnownInv, Known, SinceInv, SourceInv, VerdictInv, SourceScans
<1>7. LaneInv' /\ CompareInv'
  BY <1>3, <1>5 DEF LaneInv, CompareInv, Passed, Recorded
<1>. QED
  BY <1>3, <1>4, <1>6, <1>7 DEF Inv

LEMMA StopStep == ASSUME Inv, Stop, Moves, main \notin {"finish", "done"} PROVE Inv'
<1>1. status' = status /\ exit' = exit
  BY DEF Moves, result
<1>2. TypeOK /\ VerdictInv
  BY DEF Inv
<1>. QED
  BY <1>1, <1>2, Stopped, MoveTyped DEF Inv

LEMMA GuardStep == ASSUME Inv, Guard PROVE Inv'
<1>1. main = "guard" /\ Moves
  BY DEF Guard, Moves
<1>2. status' = status /\ exit' = exit /\ report' = report /\ status = "error"
      /\ exit \notin {0, 1}
  BY <1>1 DEF Moves, result, Inv, VerdictInv
<1>3. CASE Stop
  BY <1>1, <1>3, StopStep
<1>4. CASE Enter("load", 1, "base")
  <2>1. /\ main' = "load" /\ pop' = 1 /\ cache' = Unread
        /\ main' \in Phases /\ pop' \in Pops /\ lane' \in Lanes
        /\ todo' \subseteq Sources \cup Files /\ todo' \cap DOMAIN seen' = {} /\ ScanInv'
    BY <1>4, Entered, Orders DEF Phases, Lanes
  <2>2. TypeOK'
    BY <1>1, <2>1, MoveTyped DEF Inv
  <2>3. KnownInv' /\ SinceInv' /\ SourceInv' /\ VerdictInv'
    BY <1>2, <2>1, Orders DEF KnownInv, Known, SinceInv, SourceInv, VerdictInv, SourceScans, Pops
  <2>4. LaneInv' /\ CompareInv'
    BY <1>2, <2>1 DEF LaneInv, CompareInv, Passed, Recorded
  <2>. QED
    BY <2>1, <2>2, <2>3, <2>4 DEF Inv
<1>. QED
  BY <1>3, <1>4 DEF Guard

LEMMA LoadStep == ASSUME Inv, Load PROVE Inv'
<1>1. /\ main = "load"
      /\ UNCHANGED <<world, edits, arguments, manifestHash, initial, frozen, built, lanes,
                     result>>
  BY DEF Load
<1>2. status' = status /\ exit' = exit /\ report' = report /\ status = "error"
      /\ exit \notin {0, 1}
  BY <1>1 DEF result, Inv, VerdictInv
<1>3. CASE Stop /\ UNCHANGED listed
  BY <1>1, <1>3, StopStep DEF Moves, manifests
<1>4. CASE /\ listed' = [listed EXCEPT ![pop] = world[ManifestOf[pop]]]
           /\ Enter("hash", pop, lane)
  <2>. pop \in Pops /\ lane \in Lanes /\ "hash" \in Phases
    BY DEF Inv, TypeOK, Phases
  <2>1. /\ main' = "hash" /\ pop' = pop /\ cache' = Unread
        /\ main' \in Phases /\ pop' \in Pops /\ lane' \in Lanes
        /\ todo' \subseteq Sources \cup Files /\ todo' \cap DOMAIN seen' = {} /\ ScanInv'
    BY <1>4, Entered
  <2>2. listed' \in [Pops -> Versions]
    BY <1>4, ItemsOf DEF Inv, TypeOK
  <2>3. TypeOK'
    BY <1>1, <2>1, <2>2, <1>2 DEF Inv, TypeOK, Phases, arguments, lanes
  <2>4. KnownInv'
    BY <1>1, <1>2, <2>1 DEF Inv, KnownInv, Known, SourceScans, Now, arguments
  <2>5. SinceInv' /\ SourceInv' /\ VerdictInv'
    BY <1>2, <2>1 DEF SinceInv, SourceInv, VerdictInv
  <2>6. LaneInv' /\ CompareInv'
    BY <1>2, <2>1 DEF LaneInv, CompareInv, Passed, Recorded
  <2>. QED
    BY <2>1, <2>3, <2>4, <2>5, <2>6 DEF Inv
<1>. QED
  BY <1>3, <1>4 DEF Load

LEMMA HashStep == ASSUME Inv, Hash PROVE Inv'
<1>1. /\ main = "hash"
      /\ UNCHANGED <<world, edits, arguments, listed, initial, frozen, built, lanes, result>>
  BY DEF Hash
<1>2. status' = status /\ exit' = exit /\ report' = report /\ status = "error"
      /\ exit \notin {0, 1}
  BY <1>1 DEF result, Inv, VerdictInv
<1>3. CASE Stop /\ UNCHANGED manifestHash
  BY <1>1, <1>3, StopStep DEF Moves, manifests
<1>4. CASE /\ manifestHash' = [manifestHash EXCEPT ![pop] = world[ManifestOf[pop]]]
           /\ Enter("initial", pop, lane)
  <2>. pop \in Pops /\ lane \in Lanes /\ "initial" \in Phases
    BY DEF Inv, TypeOK, Phases, InputScans
  <2>1. /\ main' = "initial" /\ pop' = pop /\ cache' = Unread
        /\ main' \in Phases /\ pop' \in Pops /\ lane' \in Lanes
        /\ todo' \subseteq Sources \cup Files /\ todo' \cap DOMAIN seen' = {} /\ ScanInv'
    BY <1>4, Entered
  <2>2. manifestHash' \in [Pops -> Versions]
    BY <1>4, ItemsOf DEF Inv, TypeOK
  <2>3. TypeOK'
    BY <1>1, <2>1, <2>2, <1>2 DEF Inv, TypeOK, Phases, arguments, lanes
  <2>4. KnownInv'
    BY <1>1, <1>2, <2>1 DEF Inv, KnownInv, Known, SourceScans, Now, arguments
  <2>5. SinceInv' /\ SourceInv' /\ VerdictInv'
    BY <1>2, <2>1 DEF SinceInv, SourceInv, VerdictInv
  <2>6. LaneInv' /\ CompareInv'
    BY <1>2, <2>1 DEF LaneInv, CompareInv, Passed, Recorded
  <2>. QED
    BY <2>1, <2>3, <2>4, <2>5, <2>6 DEF Inv
<1>. QED
  BY <1>3, <1>4 DEF Hash

LEMMA InitialStep == ASSUME Inv, Initial PROVE Inv'
<1>1. /\ main = "initial" /\ todo = {}
      /\ UNCHANGED <<world, edits, arguments, manifests, frozen, built, lanes, result>>
  BY DEF Initial
<1>2. status' = status /\ exit' = exit /\ report' = report /\ status = "error"
      /\ exit \notin {0, 1}
  BY <1>1 DEF result, Inv, VerdictInv
<1>3. CASE Stop /\ UNCHANGED initial
  BY <1>1, <1>3, StopStep DEF Moves
<1>4. CASE /\ initial' = [initial EXCEPT ![pop] = seen]
           /\ IF pop < NumPops THEN Enter("load", pop + 1, lane) ELSE Enter("freeze", 1, lane)
  <2>1. pop \in Pops /\ lane \in Lanes /\ DOMAIN initial = Pops
    BY DEF Inv, TypeOK
  <2>2. /\ seen \in [FilesOf[pop] -> Readings]
        /\ \A x \in FilesOf[pop] : AtMost(seen[x], Now(pop, x))
    BY <1>1, ScanEnds DEF Inv, InputScans
  <2>3. PICK phase \in {"load", "freeze"}, p \in Pops :
          /\ Enter(phase, p, lane)
          /\ \A q \in Pops : phase = "load" /\ q < p => q < pop \/ q = pop
          /\ \A q \in Pops : phase = "freeze" => q < pop \/ q = pop
    BY <1>4, <2>1, ComparisonAssumption DEF Pops
  <2>. phase \in Phases
    BY DEF Phases, SourceScans
  <2>4. /\ main' = phase /\ pop' = p /\ cache' = Unread
        /\ main' \in Phases /\ pop' \in Pops /\ lane' \in Lanes
        /\ todo' \subseteq Sources \cup Files /\ todo' \cap DOMAIN seen' = {} /\ ScanInv'
    BY <2>1, <2>3, Entered
  <2>5. /\ DOMAIN initial' = Pops /\ initial'[pop] = seen
        /\ \A q \in Pops : q # pop => initial'[q] = initial[q]
    BY <1>4, <2>1
  <2>6. \A q \in Pops : initial'[q] \in {Empty} \cup [FilesOf[q] -> Readings]
    BY <2>2, <2>5 DEF Inv, TypeOK
  <2>7. TypeOK'
    BY <1>1, <1>2, <2>4, <2>5, <2>6 DEF Inv, TypeOK, Phases, arguments, manifests, lanes
  <2>8. KnownInv'
    <3> SUFFICES ASSUME NEW q \in Pops, Known(q)'
                 PROVE  /\ initial'[q] \in [FilesOf[q] -> Readings]
                        /\ \A x \in FilesOf[q] : AtMost(initial'[q][x], Now(q, x)')
      BY DEF KnownInv
    <3>1. q < pop \/ q = pop
      BY <1>2, <2>3, <2>4 DEF Known, SourceScans
    <3>2. \A x : Now(q, x)' = Now(q, x)
      BY <1>1 DEF Now, arguments
    <3>3. CASE q = pop
      BY <3>2, <3>3, <2>2, <2>5
    <3>4. CASE q # pop
      BY <1>1, <3>1, <3>2, <3>4, <2>5 DEF Inv, KnownInv, Known
    <3>. QED
      BY <3>3, <3>4
  <2>9. SinceInv' /\ SourceInv' /\ VerdictInv'
    BY <1>2, <2>4 DEF SinceInv, SourceInv, VerdictInv
  <2>10. LaneInv' /\ CompareInv'
    BY <1>2, <2>4 DEF LaneInv, CompareInv, Passed, Recorded
  <2>. QED
    BY <2>4, <2>7, <2>8, <2>9, <2>10 DEF Inv
<1>. QED
  BY <1>3, <1>4 DEF Initial

LEMMA FreezeStep == ASSUME Inv, Freeze PROVE Inv'
<1>1. /\ main = "freeze" /\ todo = {} /\ frozen' = seen /\ Enter("base", 1, lane)
      /\ UNCHANGED <<world, edits, arguments, manifests, initial, built, lanes, result>>
  BY DEF Freeze
<1>2. status' = status /\ exit' = exit /\ report' = report /\ status = "error"
      /\ exit \notin {0, 1}
  BY <1>1 DEF result, Inv, VerdictInv
<1>3. /\ main' = "base" /\ pop' = 1 /\ cache' = Unread
      /\ main' \in Phases /\ pop' \in Pops /\ lane' \in Lanes
      /\ todo' \subseteq Sources \cup Files /\ todo' \cap DOMAIN seen' = {} /\ ScanInv'
  <2>1. "base" \in Phases /\ lane \in Lanes
    BY DEF Phases, Inv, TypeOK
  <2>. QED
    BY <1>1, <2>1, Entered, Orders
<1>4. /\ frozen' \in [Sources -> Versions]
      /\ \A x \in Sources : frozen'[x] <= world'[x]
  BY <1>1, ScanEnds DEF Inv, SourceScans
<1>5. TypeOK'
  BY <1>1, <1>2, <1>3, <1>4 DEF Inv, TypeOK, Phases, arguments, manifests, lanes
<1>6. KnownInv'
  BY <1>1 DEF Inv, KnownInv, Known, SourceScans, Now, arguments
<1>7. SinceInv' /\ VerdictInv'
  BY <1>2, <1>3 DEF SinceInv, VerdictInv
<1>8. SourceInv'
  BY <1>2, <1>3, <1>4 DEF SourceInv
<1>9. LaneInv' /\ CompareInv'
  BY <1>2, <1>3 DEF LaneInv, CompareInv, Passed, Recorded
<1>. QED
  BY <1>3, <1>5, <1>6, <1>7, <1>8, <1>9 DEF Inv

LEMMA BuildBaseStep == ASSUME Inv, BuildBase PROVE Inv'
<1>1. main = "base" /\ Moves
  BY DEF BuildBase, Moves
<1>2. status' = status /\ exit' = exit /\ report' = report /\ status = "error"
      /\ exit \notin {0, 1}
  BY <1>1 DEF Moves, result, Inv, VerdictInv
<1>3. CASE Stop
  BY <1>1, <1>3, StopStep
<1>4. CASE Enter("candidate", 1, lane)
  <2>1. /\ main' = "candidate" /\ pop' = 1 /\ cache' = Unread /\ DOMAIN seen' = {}
        /\ main' \in Phases /\ pop' \in Pops /\ lane' \in Lanes
        /\ todo' \subseteq Sources \cup Files /\ todo' \cap DOMAIN seen' = {} /\ ScanInv'
    <3>1. "candidate" \in Phases /\ lane \in Lanes
      BY DEF Phases, SourceScans, Inv, TypeOK
    <3>. QED
      BY <1>4, <3>1, Entered, Orders
  <2>2. TypeOK'
    BY <1>1, <2>1, MoveTyped DEF Inv
  <2>3. KnownInv'
    BY <1>1 DEF Inv, KnownInv, Known, Now, Moves, arguments
  <2>4. SinceInv' /\ VerdictInv'
    BY <1>2, <2>1 DEF SinceInv, VerdictInv
  <2>5. SourceInv'
    BY <1>1, <1>2, <2>1 DEF Inv, SourceInv, Moves, arguments
  <2>6. LaneInv' /\ CompareInv'
    BY <1>2, <2>1 DEF LaneInv, CompareInv, Passed, Recorded
  <2>. QED
    BY <2>1, <2>2, <2>3, <2>4, <2>5, <2>6 DEF Inv
<1>. QED
  BY <1>3, <1>4 DEF BuildBase

LEMMA BuildCandidateStep == ASSUME Inv, BuildCandidate PROVE Inv'
<1>1. /\ main = "candidate" /\ (working => todo = {}) /\ built' = seen
      /\ Enter("before", 1, "base") \/ Stop
      /\ UNCHANGED <<world, edits, arguments, manifests, initial, frozen, lanes, result>>
  BY DEF BuildCandidate, SnapshotDone
<1>2. status' = status /\ exit' = exit /\ report' = report /\ status = "error"
      /\ exit \notin {0, 1}
  BY <1>1 DEF result, Inv, VerdictInv
<1>3. working => /\ built' \in [Sources -> Versions]
                 /\ \A x \in Sources : frozen'[x] <= built'[x] /\ built'[x] <= world'[x]
  <2>. SUFFICES ASSUME working
                PROVE  /\ built' \in [Sources -> Versions]
                       /\ \A x \in Sources : frozen'[x] <= built'[x] /\ built'[x] <= world'[x]
    OBVIOUS
  <2>1. /\ seen \in [Sources -> Versions]
        /\ \A x \in Sources : x \in DOMAIN seen /\ seen[x] <= world[x]
    BY <1>1, ScanEnds DEF Inv, SourceScans
  <2>2. \A x \in Sources : frozen[x] <= seen[x]
    BY <1>1, <2>1 DEF Inv, SourceInv
  <2>. QED
    BY <1>1, <2>1, <2>2
<1>4. working' = working /\ modes' = modes
  BY <1>1 DEF arguments
<1>5. TypeOK' <=> /\ main' \in Phases /\ pop' \in Pops /\ lane' \in Lanes
                  /\ todo' \subseteq Sources \cup Files /\ todo' \cap DOMAIN seen' = {}
                  /\ cache' \in Versions \cup {Unread}
                  /\ built' \in {Empty} \cup [Sources -> Versions]
  BY <1>1, <1>2 DEF Inv, TypeOK, Phases, arguments, manifests, lanes
<1>6. built' \in {Empty} \cup [Sources -> Versions]
  BY <1>1, <1>3 DEF Inv, ScanInv
<1>7. CASE Stop
  <2>1. TypeOK /\ VerdictInv
    BY DEF Inv
  <2>. QED
    BY <1>1, <1>2, <1>5, <1>6, <1>7, <2>1, Stopped DEF Inv
<1>8. CASE Enter("before", 1, "base")
  <2>1. /\ main' = "before" /\ pop' = 1 /\ lane' = "base" /\ cache' = Unread
        /\ main' \in Phases /\ pop' \in Pops /\ lane' \in Lanes
        /\ todo' \subseteq Sources \cup Files /\ todo' \cap DOMAIN seen' = {} /\ ScanInv'
    <3>1. "before" \in Phases /\ "base" \in Lanes
      BY DEF Phases, InputScans, Lanes
    <3>. QED
      BY <1>8, <3>1, Entered, Orders
  <2>2. TypeOK'
    BY <1>5, <1>6, <2>1
  <2>3. KnownInv'
    BY <1>1 DEF Inv, KnownInv, Known, SourceScans, Now, arguments
  <2>4. SinceInv' /\ VerdictInv'
    BY <1>2, <2>1 DEF SinceInv, VerdictInv
  <2>5. SourceInv'
    BY <1>1, <1>2, <1>3, <1>4, <2>1 DEF Inv, SourceInv
  <2>6. \A p \in Pops, l \in Lanes : ~(p < pop') /\ ~(l = "base" /\ lane' = "candidate")
    BY <2>1 DEF Pops
  <2>7. LaneInv' /\ CompareInv'
    BY <1>2, <2>1, <2>6 DEF LaneInv, CompareInv, Passed, Recorded, Lanes
  <2>. QED
    BY <2>1, <2>2, <2>3, <2>4, <2>5, <2>7 DEF Inv
<1>. QED
  BY <1>1, <1>7, <1>8

LEMMA BeforeStep == ASSUME Inv, Before PROVE Inv'
<1>1. main = "before" /\ todo = {} /\ Moves
  BY DEF Before, Moves
<1>2. status' = status /\ exit' = exit /\ report' = report /\ status = "error"
      /\ exit \notin {0, 1}
  BY <1>1 DEF Moves, result, Inv, VerdictInv
<1>3. CASE Stop
  BY <1>1, <1>3, StopStep
<1>4. CASE Enter("lane", pop, lane)
  <2>1. /\ main' = "lane" /\ pop' = pop /\ lane' = lane /\ cache' = Unread /\ DOMAIN seen' = {}
        /\ main' \in Phases /\ pop' \in Pops /\ lane' \in Lanes
        /\ todo' \subseteq Sources \cup Files /\ todo' \cap DOMAIN seen' = {} /\ ScanInv'
    <3>1. "lane" \in Phases /\ pop \in Pops /\ lane \in Lanes
      BY DEF Phases, Inv, TypeOK
    <3>. QED
      BY <1>4, <3>1, Entered
  <2>2. TypeOK'
    BY <1>1, <2>1, MoveTyped DEF Inv
  <2>3. KnownInv'
    BY <1>1 DEF Inv, KnownInv, Known, Now, Moves, arguments
  <2>4. SinceInv' /\ VerdictInv'
    BY <1>2, <2>1 DEF SinceInv, VerdictInv
  <2>5. SourceInv'
    BY <1>1, <1>2, <2>1 DEF Inv, SourceInv, Moves, arguments
  <2>6. LaneInv'
    BY <1>1, <1>2, <2>1 DEF Inv, LaneInv, Passed, Recorded, Now, Moves, arguments, lanes
  <2>7. CompareInv'
    BY <1>1, <1>2, <2>1
    DEF Inv, CompareInv, Passed, NonTargetIdentical, Changed, Moves, arguments, lanes
  <2>. QED
    BY <2>1, <2>2, <2>3, <2>4, <2>5, <2>6, <2>7 DEF Inv
<1>. QED
  BY <1>3, <1>4 DEF Before

LEMMA LaneStep == ASSUME Inv, Lane PROVE Inv'
<1>1. /\ main = "lane" /\ todo = {}
      /\ UNCHANGED <<world, edits, arguments, manifests, initial, frozen, built, result>>
  BY DEF Lane
<1>2. status' = status /\ exit' = exit /\ report' = report /\ status = "error"
      /\ exit \notin {0, 1}
  BY <1>1 DEF result, Inv, VerdictInv
<1>3. CASE Stop /\ UNCHANGED lanes
  BY <1>1, <1>3, StopStep DEF Moves
<1>4. ASSUME NEW o \in Outputs,
             outputs' = [outputs EXCEPT ![pop][lane] = o],
             laneRead' = [laneRead EXCEPT ![pop][lane] = seen],
             Enter("after", pop, lane), UNCHANGED identical
      PROVE  Inv'
  <2>1. pop \in Pops /\ lane \in Lanes
    BY DEF Inv, TypeOK
  <2>2. /\ main' = "after" /\ pop' = pop /\ lane' = lane /\ cache' = Unread /\ DOMAIN seen' = {}
        /\ main' \in Phases /\ pop' \in Pops /\ lane' \in Lanes
        /\ todo' \subseteq Sources \cup Files /\ todo' \cap DOMAIN seen' = {} /\ ScanInv'
    BY <1>4, <2>1, Entered DEF Phases, InputScans
  <2>3. /\ seen \in [FilesOf[pop] -> Readings]
        /\ \A x \in FilesOf[pop] : x \in DOMAIN seen /\ AtMost(seen[x], Now(pop, x))
    BY <1>1, ScanEnds DEF Inv
  <2>4. \A x \in FilesOf[pop] : AtMost(initial[pop][x], seen[x])
    BY <1>1, <2>3 DEF Inv, SinceInv, Since
  <2>5. /\ outputs \in [Pops -> [Lanes -> {Empty} \cup Outputs]]
        /\ DOMAIN laneRead = Pops
        /\ \A p \in Pops : laneRead[p] \in [Lanes -> {Empty} \cup [FilesOf[p] -> Readings]]
    BY DEF Inv, TypeOK
  <2>6. /\ outputs' \in [Pops -> [Lanes -> {Empty} \cup Outputs]]
        /\ outputs'[pop][lane] = o
        /\ \A p \in Pops, l \in Lanes :
             p # pop \/ l # lane => outputs'[p][l] = outputs[p][l]
    BY <1>4, <2>1, <2>5
  <2>7. /\ DOMAIN laneRead' = Pops
        /\ laneRead'[pop] = [laneRead[pop] EXCEPT ![lane] = seen]
        /\ \A p \in Pops : p # pop => laneRead'[p] = laneRead[p]
    BY <1>4, <2>1, <2>5
  <2>8. /\ laneRead'[pop] \in [Lanes -> {Empty} \cup [FilesOf[pop] -> Readings]]
        /\ laneRead'[pop][lane] = seen
        /\ \A l \in Lanes : l # lane => laneRead'[pop][l] = laneRead[pop][l]
    BY <2>1, <2>3, <2>5, <2>7
  <2>9. \A p \in Pops : laneRead'[p] \in [Lanes -> {Empty} \cup [FilesOf[p] -> Readings]]
    BY <2>5, <2>7, <2>8
  <2>10. TypeOK'
    BY <1>1, <1>2, <1>4, <2>2, <2>6, <2>7, <2>9 DEF Inv, TypeOK, Phases, arguments, manifests
  <2>11. KnownInv'
    BY <1>1 DEF Inv, KnownInv, Known, Now, arguments
  <2>12. SinceInv' /\ VerdictInv'
    BY <1>2, <2>2 DEF SinceInv, VerdictInv
  <2>13. SourceInv'
    BY <1>1, <1>2, <2>2 DEF Inv, SourceInv, arguments
  <2>14. \A x, p : Now(p, x)' = Now(p, x)
    BY <1>1 DEF Now, arguments
  <2>15. LaneInv'
    <3> SUFFICES ASSUME NEW p \in Pops, NEW l \in Lanes
                 PROVE  /\ Recorded(p, l)' =>
                             /\ outputs'[p][l] \in Outputs
                             /\ laneRead'[p][l] \in [FilesOf[p] -> Readings]
                             /\ \A x \in FilesOf[p] :
                                  /\ AtMost(initial'[p][x], laneRead'[p][l][x])
                                  /\ AtMost(laneRead'[p][l][x], Now(p, x)')
                        /\ Passed(p, l)' => laneRead'[p][l] = initial'[p]
      BY DEF LaneInv
    <3>1. CASE p = pop /\ l = lane
      <4>1. ~Passed(p, l)'
        BY <1>2, <2>1, <2>2, <3>1, Orders DEF Passed
      <4>. QED
        BY <1>1, <2>3, <2>4, <2>6, <2>8, <2>14, <3>1, <4>1
    <3>2. CASE p # pop \/ l # lane
      <4>1. outputs'[p][l] = outputs[p][l] /\ laneRead'[p][l] = laneRead[p][l]
        BY <2>6, <2>7, <2>8, <3>2
      <4>2. (Recorded(p, l)' => Passed(p, l)) /\ (Passed(p, l)' => Passed(p, l))
        BY <1>1, <1>2, <2>2, <3>2 DEF Recorded, Passed
      <4>3. Passed(p, l) => Recorded(p, l)
        BY DEF Recorded
      <4>4. /\ Recorded(p, l) =>
                 /\ outputs[p][l] \in Outputs
                 /\ laneRead[p][l] \in [FilesOf[p] -> Readings]
                 /\ \A x \in FilesOf[p] : /\ AtMost(initial[p][x], laneRead[p][l][x])
                                          /\ AtMost(laneRead[p][l][x], Now(p, x))
            /\ Passed(p, l) => laneRead[p][l] = initial[p]
        BY DEF Inv, LaneInv
      <4>. QED
        BY <1>1, <2>14, <4>1, <4>2, <4>3, <4>4
    <3>. QED
      BY <3>1, <3>2
  <2>16. CompareInv'
    <3> SUFFICES ASSUME NEW p \in Pops, Passed(p, "candidate")'
                 PROVE  (identical[p] = NonTargetIdentical(outputs[p]["base"],
                                                           outputs[p]["candidate"]))'
      BY DEF CompareInv, Passed
    <3>1. p < pop
      BY <1>2, <2>2 DEF Passed
    <3>2. p # pop /\ Passed(p, "candidate")
      BY <1>1, <2>1, <3>1, Orders DEF Passed
    <3>3. /\ outputs'[p]["base"] = outputs[p]["base"]
          /\ outputs'[p]["candidate"] = outputs[p]["candidate"]
      BY <2>6, <3>2 DEF Lanes
    <3>4. identical[p] = NonTargetIdentical(outputs[p]["base"], outputs[p]["candidate"])
      BY <3>2 DEF Inv, CompareInv
    <3>5. identical'[p] = identical[p] /\ target' = target
      BY <1>1, <1>4 DEF arguments
    <3>. QED
      BY <3>3, <3>4, <3>5 DEF NonTargetIdentical, Changed
  <2>. QED
    BY <2>2, <2>10, <2>11, <2>12, <2>13, <2>15, <2>16 DEF Inv
<1>. QED
  BY <1>3, <1>4 DEF Lane

\* Both scans around the lane have read the same, so the lane did too.
LEMMA LaneUndisturbed ==
  ASSUME Inv, main = "after", todo = {}, SameInputs
  PROVE  laneRead[pop][lane] = initial[pop] /\ outputs[pop][lane] \in Outputs
<1>1. pop \in Pops /\ lane \in Lanes /\ Recorded(pop, lane)
  BY DEF Inv, TypeOK, Recorded
<1>2. /\ laneRead[pop][lane] \in [FilesOf[pop] -> Readings]
      /\ outputs[pop][lane] \in Outputs
      /\ \A x \in FilesOf[pop] : AtMost(initial[pop][x], laneRead[pop][lane][x])
  BY <1>1 DEF Inv, LaneInv
<1>3. /\ seen \in [FilesOf[pop] -> Readings] /\ seen = initial[pop]
      /\ \A x \in FilesOf[pop] : x \in DOMAIN seen
  BY ScanEnds DEF Inv, InputScans, SameInputs
<1>4. \A x \in FilesOf[pop] : AtMost(laneRead[pop][lane][x], initial[pop][x])
  BY <1>3 DEF Inv, SinceInv, Since
<1>5. \A x \in FilesOf[pop] : laneRead[pop][lane][x] = initial[pop][x]
  BY <1>2, <1>3, <1>4, Antisymmetric
<1>. QED
  BY <1>2, <1>3, <1>5

LEMMA AfterStep == ASSUME Inv, After PROVE Inv'
<1>1. /\ main = "after" /\ todo = {}
      /\ UNCHANGED <<world, edits, arguments, manifests, initial, frozen, built, laneRead,
                     outputs, result>>
  BY DEF After
<1>2. status' = status /\ exit' = exit /\ report' = report /\ status = "error"
      /\ exit \notin {0, 1}
  BY <1>1 DEF result, Inv, VerdictInv
<1>3. CASE Stop /\ UNCHANGED identical
  BY <1>1, <1>3, StopStep DEF Moves, lanes
<1>4. CASE SameInputs /\ ~(Stop /\ UNCHANGED identical)
  <2>1. pop \in Pops /\ lane \in Lanes /\ identical \in [Pops -> BOOLEAN]
    BY DEF Inv, TypeOK
  <2>2. laneRead[pop][lane] = initial[pop] /\ outputs[pop][lane] \in Outputs
    BY <1>1, <1>4, LaneUndisturbed
  <2>3. PICK phase \in {"before", "refreeze"}, p \in Pops, l \in Lanes :
          /\ Enter(phase, p, l)
          /\ phase = "before" => \/ p = pop /\ lane = "base" /\ l = "candidate"
                                 \/ p = pop + 1 /\ lane = "candidate" /\ l = "base"
          /\ phase = "refreeze" => pop = NumPops /\ lane = "candidate"
    <3>1. CASE lane = "base"
      <4>1. Enter("before", pop, "candidate")
        BY <1>4, <3>1 DEF After
      <4>. QED
        BY <2>1, <3>1, <4>1 DEF Lanes
    <3>2. CASE lane # "base" /\ pop < NumPops
      <4>1. Enter("before", pop + 1, "base")
        BY <1>4, <3>2 DEF After
      <4>2. pop + 1 \in Pops
        BY <2>1, <3>2, ComparisonAssumption DEF Pops
      <4>. QED
        BY <2>1, <3>2, <4>1, <4>2 DEF Lanes
    <3>3. CASE lane # "base" /\ ~(pop < NumPops)
      <4>1. Enter("refreeze", 1, lane)
        BY <1>4, <3>3 DEF After
      <4>2. pop = NumPops
        BY <2>1, <3>3, ComparisonAssumption DEF Pops
      <4>. QED
        BY <2>1, <3>3, <4>1, <4>2, Orders DEF Lanes
    <3>. QED
      BY <3>1, <3>2, <3>3
  <2>4. /\ lane = "base" => identical' = identical
        /\ lane = "candidate" =>
             identical' = [identical EXCEPT ![pop] =
                             NonTargetIdentical(outputs[pop]["base"], outputs[pop]["candidate"])]
    BY <1>4 DEF After, Lanes
  <2>5. /\ main' = phase /\ pop' = p /\ lane' = l /\ cache' = Unread /\ DOMAIN seen' = {}
        /\ main' \in Phases /\ pop' \in Pops /\ lane' \in Lanes
        /\ todo' \subseteq Sources \cup Files /\ todo' \cap DOMAIN seen' = {} /\ ScanInv'
    <3>1. phase \in Phases
      BY DEF Phases, InputScans, SourceScans
    <3>. QED
      BY <2>3, <3>1, Entered
  <2>6. NonTargetIdentical(outputs[pop]["base"], outputs[pop]["candidate"]) \in BOOLEAN
    BY DEF NonTargetIdentical
  <2>7. identical' \in [Pops -> BOOLEAN]
    BY <2>1, <2>4, <2>6 DEF Lanes
  <2>8. TypeOK'
    BY <1>1, <1>2, <2>5, <2>7 DEF Inv, TypeOK, Phases, arguments, manifests
  <2>9. KnownInv'
    BY <1>1 DEF Inv, KnownInv, Known, Now, arguments
  <2>10. SinceInv' /\ VerdictInv'
    BY <1>2, <2>5 DEF SinceInv, VerdictInv
  <2>11. SourceInv'
    BY <1>1, <1>2, <2>5 DEF Inv, SourceInv, arguments
  <2>12. ASSUME NEW q \in Pops, NEW m \in Lanes, Passed(q, m)'
         PROVE  Passed(q, m) \/ (q = pop /\ (m = lane \/ lane = "candidate"))
    <3>1. CASE phase = "before"
      BY <1>1, <1>2, <2>1, <2>3, <2>5, <2>12, <3>1, Orders DEF Passed, Lanes
    <3>2. CASE phase = "refreeze"
      BY <1>1, <2>1, <2>3, <3>2, ComparisonAssumption DEF Passed, Pops
    <3>. QED
      BY <3>1, <3>2
  <2>13. lane = "candidate" => Passed(pop, "base")
    BY <1>1 DEF Passed
  <2>14. LaneInv'
    <3> SUFFICES ASSUME NEW q \in Pops, NEW m \in Lanes, Passed(q, m)'
                 PROVE  /\ outputs'[q][m] \in Outputs
                        /\ laneRead'[q][m] \in [FilesOf[q] -> Readings]
                        /\ \A x \in FilesOf[q] :
                             /\ AtMost(initial'[q][x], laneRead'[q][m][x])
                             /\ AtMost(laneRead'[q][m][x], Now(q, x)')
                        /\ laneRead'[q][m] = initial'[q]
      BY <2>5 DEF LaneInv, Recorded, Passed
    <3>1. Recorded(q, m)
      BY <1>1, <2>12, <2>13 DEF Recorded, Lanes
    <3>2. laneRead[q][m] = initial[q]
      <4>1. Passed(q, m) \/ (q = pop /\ m = lane)
        BY <2>12, <2>13 DEF Lanes
      <4>. QED
        BY <2>2, <4>1 DEF Inv, LaneInv
    <3>3. \A x : Now(q, x)' = Now(q, x)
      BY <1>1 DEF Now, arguments
    <3>. QED
      BY <1>1, <3>1, <3>2, <3>3 DEF Inv, LaneInv
  <2>15. CompareInv'
    <3> SUFFICES ASSUME NEW q \in Pops, Passed(q, "candidate")'
                 PROVE  (identical[q] = NonTargetIdentical(outputs[q]["base"],
                                                           outputs[q]["candidate"]))'
      BY DEF CompareInv, Passed
    <3>1. outputs' = outputs /\ target' = target
      BY <1>1 DEF arguments
    <3>2. CASE q = pop /\ lane = "candidate"
      <4>1. identical'[q] = NonTargetIdentical(outputs[q]["base"], outputs[q]["candidate"])
        BY <2>1, <2>4, <3>2
      <4>. QED
        BY <3>1, <4>1 DEF NonTargetIdentical, Changed
    <3>3. CASE ~(q = pop /\ lane = "candidate")
      <4>1. Passed(q, "candidate")
        BY <2>12, <3>3 DEF Lanes
      <4>2. q # pop \/ lane = "base"
        BY <2>1, <3>3 DEF Lanes
      <4>3. identical'[q] = identical[q]
        BY <2>1, <2>4, <4>2 DEF Lanes
      <4>4. identical[q] = NonTargetIdentical(outputs[q]["base"], outputs[q]["candidate"])
        BY <4>1 DEF Inv, CompareInv
      <4>. QED
        BY <3>1, <4>3, <4>4 DEF NonTargetIdentical, Changed
    <3>. QED
      BY <3>2, <3>3
  <2>. QED
    BY <2>5, <2>8, <2>9, <2>10, <2>11, <2>14, <2>15 DEF Inv
<1>. QED
  BY <1>3, <1>4 DEF After

LEMMA RefreezeStep == ASSUME Inv, Refreeze PROVE Inv'
<1>1. main = "refreeze" /\ todo = {} /\ Moves
  BY DEF Refreeze, Moves
<1>2. status' = status /\ exit' = exit /\ report' = report /\ status = "error"
      /\ exit \notin {0, 1}
  BY <1>1 DEF Moves, result, Inv, VerdictInv
<1>3. CASE Stop
  BY <1>1, <1>3, StopStep
<1>4. CASE SameSource /\ Enter("recheck", 1, lane)
  <2>1. /\ main' = "recheck" /\ pop' = 1 /\ cache' = Unread
        /\ main' \in Phases /\ pop' \in Pops /\ lane' \in Lanes
        /\ todo' \subseteq Sources \cup Files /\ todo' \cap DOMAIN seen' = {} /\ ScanInv'
    <3>1. "recheck" \in Phases /\ lane \in Lanes
      BY DEF Phases, InputScans, Inv, TypeOK
    <3>. QED
      BY <1>4, <3>1, Entered, Orders
  <2>2. TypeOK'
    BY <1>1, <2>1, MoveTyped DEF Inv
  <2>3. KnownInv'
    BY <1>1 DEF Inv, KnownInv, Known, SourceScans, Now, Moves, arguments
  <2>4. SinceInv' /\ VerdictInv'
    BY <1>2, <2>1 DEF SinceInv, VerdictInv
  <2>5. working => built = frozen
    <3> SUFFICES ASSUME working PROVE built = frozen
      OBVIOUS
    <3>1. /\ seen \in [Sources -> Versions] /\ seen = frozen
          /\ \A x \in Sources : x \in DOMAIN seen
      BY <1>1, <1>4, ScanEnds DEF Inv, SourceScans, SameSource
    <3>2. /\ built \in [Sources -> Versions]
          /\ \A x \in Sources : frozen[x] <= built[x]
      BY <1>1 DEF Inv, SourceInv
    <3>3. \A x \in Sources : built[x] <= frozen[x]
      BY <1>1, <3>1 DEF Inv, SourceInv
    <3>4. ASSUME NEW x \in Sources PROVE built[x] = frozen[x]
      <4>1. frozen[x] \in Nat /\ built[x] \in Nat
        BY <3>1, <3>2, Orders
      <4>. QED
        BY <3>2, <3>3, <4>1
    <3>. QED
      BY <3>1, <3>2, <3>4
  <2>6. SourceInv'
    <3>1. /\ frozen' = frozen /\ built' = built /\ world' = world /\ working' = working
          /\ frozen \in [Sources -> Versions]
          /\ \A x \in Sources : frozen[x] <= world[x]
          /\ working => \A x \in Sources : frozen[x] <= built[x] /\ built[x] <= world[x]
      BY <1>1 DEF Inv, SourceInv, Moves, arguments
    <3>2. working => built \in [Sources -> Versions]
      BY <1>1 DEF Inv, SourceInv
    <3>. QED
      BY <1>2, <2>1, <2>5, <3>1, <3>2 DEF SourceInv
  <2>7. LaneInv'
    BY <1>1, <1>2, <2>1 DEF Inv, LaneInv, Passed, Recorded, Now, Moves, arguments, lanes
  <2>8. CompareInv'
    BY <1>1, <1>2, <2>1
    DEF Inv, CompareInv, Passed, NonTargetIdentical, Changed, Moves, arguments, lanes
  <2>. QED
    BY <2>1, <2>2, <2>3, <2>4, <2>6, <2>7, <2>8 DEF Inv
<1>. QED
  BY <1>3, <1>4 DEF Refreeze

LEMMA RecheckStep == ASSUME Inv, Recheck PROVE Inv'
<1>1. /\ main = "recheck" /\ todo = {}
      /\ UNCHANGED <<world, edits, arguments, manifests, initial, frozen, built, lanes, report,
                     exit>>
  BY DEF Recheck
<1>2. exit' = exit /\ report' = report /\ status = "error" /\ exit \notin {0, 1}
  BY <1>1 DEF Inv, VerdictInv
<1>3. CASE Stop /\ UNCHANGED status
  BY <1>1, <1>3, StopStep DEF Moves, result
<1>4. CASE ~(Stop /\ UNCHANGED status)
  <2>1. pop \in Pops /\ lane \in Lanes
    BY DEF Inv, TypeOK
  <2>2. PICK phase \in {"recheck", "finish"}, p \in Pops :
          /\ Enter(phase, p, lane)
          /\ phase = "recheck" => status' = status
          /\ phase = "finish" => status' = IF \A q \in Pops : identical[q] THEN "pass" ELSE "fail"
    <3>1. CASE pop < NumPops
      <4>1. Enter("recheck", pop + 1, lane) /\ status' = status
        BY <1>4, <3>1 DEF Recheck
      <4>2. pop + 1 \in Pops
        BY <2>1, <3>1, ComparisonAssumption DEF Pops
      <4>. QED
        BY <4>1, <4>2
    <3>2. CASE ~(pop < NumPops)
      <4>1. /\ Enter("finish", pop, lane)
            /\ status' = IF \A q \in Pops : identical[q] THEN "pass" ELSE "fail"
        BY <1>4, <3>2 DEF Recheck
      <4>. QED
        BY <2>1, <4>1
    <3>. QED
      BY <3>1, <3>2
  <2>3. /\ main' = phase /\ pop' = p /\ lane' = lane /\ cache' = Unread
        /\ main' \in Phases /\ pop' \in Pops /\ lane' \in Lanes
        /\ todo' \subseteq Sources \cup Files /\ todo' \cap DOMAIN seen' = {} /\ ScanInv'
    <3>1. phase \in Phases
      BY DEF Phases, InputScans
    <3>. QED
      BY <2>1, <2>2, <3>1, Entered
  <2>4. status' \in {"error", "pass", "fail"}
    BY <1>2, <2>2
  <2>5. TypeOK'
    BY <1>1, <2>3, <2>4 DEF Inv, TypeOK, Phases, arguments, manifests, lanes
  <2>6. KnownInv'
    BY <1>1 DEF Inv, KnownInv, Known, Now, arguments
  <2>7. SinceInv'
    BY <2>2, <2>3 DEF SinceInv
  <2>8. SourceInv'
    BY <1>1, <2>2, <2>3 DEF Inv, SourceInv, arguments
  <2>9. LaneInv'
    BY <1>1, <2>2, <2>3 DEF Inv, LaneInv, Passed, Recorded, Now, arguments, lanes
  <2>10. CompareInv'
    BY <1>1 DEF Inv, CompareInv, Passed, NonTargetIdentical, Changed, arguments, lanes
  <2>11. VerdictInv'
    <3>1. identical' = identical
      BY <1>1 DEF lanes
    <3>. QED
      BY <1>2, <2>2, <2>3, <3>1 DEF VerdictInv
  <2>. QED
    BY <2>3, <2>5, <2>6, <2>7, <2>8, <2>9, <2>10, <2>11 DEF Inv
<1>. QED
  BY <1>3, <1>4

LEMMA FinishStep == ASSUME Inv, Finish PROVE Inv'
<1>1. /\ main = "finish" /\ Enter("done", pop, lane)
      /\ UNCHANGED <<world, edits, arguments, manifests, initial, frozen, built, lanes>>
  BY DEF Finish
<1>2. PICK summarised \in BOOLEAN, reported \in BOOLEAN :
        /\ status' = IF summarised THEN status ELSE "error"
        /\ report' = IF reported THEN status' ELSE "none"
        /\ exit' = IF ~reported \/ status' = "error" THEN 2
                   ELSE IF status' = "pass" THEN 0 ELSE 1
  BY DEF Finish
<1>3. /\ main' = "done" /\ cache' = Unread
      /\ main' \in Phases /\ pop' \in Pops /\ lane' \in Lanes
      /\ todo' \subseteq Sources \cup Files /\ todo' \cap DOMAIN seen' = {} /\ ScanInv'
  <2>1. "done" \in Phases /\ pop \in Pops /\ lane \in Lanes
    BY DEF Phases, Inv, TypeOK
  <2>. QED
    BY <1>1, <2>1, Entered
<1>4. status \in {"error", "pass", "fail"}
  BY DEF Inv, TypeOK
<1>5. status' \in {"error", "pass", "fail"} /\ (status' # "error" => status' = status)
  BY <1>2, <1>4
<1>6. report' \in {"none", "error", "pass", "fail"} /\ exit' \in 0..3
  BY <1>2, <1>5
<1>7. TypeOK'
  BY <1>1, <1>3, <1>5, <1>6 DEF Inv, TypeOK, Phases, arguments, manifests, lanes
<1>8. KnownInv'
  BY <1>1, <1>3, <1>5 DEF Inv, KnownInv, Known, SourceScans, Now, arguments
<1>9. SinceInv'
  BY <1>3 DEF SinceInv
<1>10. SourceInv'
  BY <1>1, <1>3, <1>5 DEF Inv, SourceInv, arguments
<1>11. LaneInv'
  BY <1>1, <1>3, <1>5 DEF Inv, LaneInv, Passed, Recorded, Now, arguments, lanes
<1>12. CompareInv'
  BY <1>1, <1>3, <1>5
  DEF Inv, CompareInv, Passed, NonTargetIdentical, Changed, arguments, lanes
<1>13. VerdictInv'
  <2>1. identical' = identical
    BY <1>1 DEF lanes
  <2>2. exit' \in {0, 1} => /\ status' # "error" /\ report' = status'
                            /\ exit' = 0 <=> status' = "pass"
    BY <1>2, <1>5
  <2>. QED
    BY <1>3, <1>5, <2>1, <2>2 DEF Inv, VerdictInv
<1>. QED
  BY <1>3, <1>7, <1>8, <1>9, <1>10, <1>11, <1>12, <1>13 DEF Inv

LEMMA ReadSourceStep == ASSUME Inv, ReadSource PROVE Inv'
<1>1. main \in SourceScans /\ (main = "candidate" => working) /\ Moves
  BY DEF ReadSource, Moves
<1>2. status' = status /\ exit' = exit /\ report' = report /\ status = "error"
      /\ exit \notin {0, 1}
  BY <1>1 DEF Moves, result, Inv, VerdictInv, SourceScans
<1>3. CASE Stop
  BY <1>1, <1>3, StopStep DEF SourceScans
<1>4. ASSUME NEW x \in todo, Saw(x, world[x]), todo' = todo \ {x},
             UNCHANGED <<main, pop, lane, cache>>
      PROVE  Inv'
  <2>1. /\ todo \cup DOMAIN seen = Sources
        /\ todo \cap DOMAIN seen = {}
        /\ seen \in [DOMAIN seen -> Versions]
        /\ \A y \in DOMAIN seen : seen[y] <= world[y]
    BY <1>1 DEF Inv, TypeOK, ScanInv, ToRead
  <2>2. world[x] \in Versions
    BY <2>1, ItemsOf DEF Inv, TypeOK
  <2>3. /\ DOMAIN seen' = DOMAIN seen \cup {x}
        /\ seen' \in [DOMAIN seen' -> Versions]
        /\ seen'[x] = world[x]
        /\ \A y \in DOMAIN seen' : y # x => y \in DOMAIN seen /\ seen'[y] = seen[y]
    BY <1>4, <2>1, <2>2, SawOne
  <2>4. \A y \in DOMAIN seen' : seen'[y] <= world[y]
    <3> SUFFICES ASSUME NEW y \in DOMAIN seen' PROVE seen'[y] <= world[y]
      OBVIOUS
    <3>1. CASE y = x
      BY <2>2, <2>3, <3>1, Orders
    <3>2. CASE y # x
      BY <2>1, <2>3, <3>2
    <3>. QED
      BY <3>1, <3>2
  <2>5. world' = world /\ working' = working /\ frozen' = frozen /\ built' = built
    BY <1>1 DEF Moves, arguments
  <2>6. ScanInv'
    <3>1. todo' \cup DOMAIN seen' = ToRead(main', pop')
      BY <1>1, <1>4, <2>1, <2>3 DEF ToRead
    <3>2. main' \notin InputScans \cup {"lane"} /\ (main' = "candidate" => working')
      BY <1>1, <1>4, <2>5 DEF InputScans, SourceScans
    <3>3. (\A y \in DOMAIN seen : seen[y] <= world[y])'
      BY <2>4, <2>5
    <3>. QED
      BY <2>3, <3>1, <3>2, <3>3 DEF ScanInv, ToRead
  <2>7. TypeOK'
    <3>1. todo' \subseteq Sources \cup Files /\ todo' \cap DOMAIN seen' = {}
      BY <1>4, <2>1, <2>3
    <3>2. /\ main' \in Phases /\ pop' \in Pops /\ lane' \in Lanes
          /\ cache' \in Versions \cup {Unread}
      BY <1>4 DEF Inv, TypeOK, Phases
    <3>. QED
      BY <1>1, <3>1, <3>2, MoveTyped DEF Inv
  <2>8. KnownInv'
    BY <1>1, <1>2, <1>4 DEF Inv, KnownInv, Known, Now, Moves, arguments
  <2>9. SinceInv' /\ VerdictInv'
    BY <1>1, <1>2, <1>4 DEF SinceInv, VerdictInv, SourceScans
  <2>10. SourceInv'
    <3>1. /\ main \in {"candidate", "refreeze"} =>
               /\ frozen \in [Sources -> Versions]
               /\ \A y \in Sources : frozen[y] <= world[y]
          /\ main = "candidate" => \A y \in DOMAIN seen : frozen[y] <= seen[y]
          /\ working /\ main = "refreeze" =>
               /\ built \in [Sources -> Versions]
               /\ \A y \in Sources : frozen[y] <= built[y] /\ built[y] <= world[y]
               /\ \A y \in DOMAIN seen : built[y] <= seen[y]
      BY DEF Inv, SourceInv
    <3>2. main = "candidate" => \A y \in DOMAIN seen' : frozen[y] <= seen'[y]
      BY <2>1, <2>3, <3>1
    <3>3. working /\ main = "refreeze" => \A y \in DOMAIN seen' : built[y] <= seen'[y]
      BY <2>1, <2>3, <3>1
    <3>. QED
      BY <1>1, <1>2, <1>4, <2>5, <3>1, <3>2, <3>3 DEF SourceInv, SourceScans
  <2>11. LaneInv' /\ CompareInv'
    <3>1. \A p \in Pops, l \in Lanes :
            /\ Passed(p, l) <=> main = "refreeze"
            /\ Recorded(p, l) <=> main = "refreeze"
      BY <1>1, <1>2 DEF Passed, Recorded, SourceScans
    <3>2. LaneInv'
      BY <1>1, <1>2, <1>4, <3>1
      DEF Inv, LaneInv, Passed, Recorded, Now, Moves, arguments, lanes, SourceScans
    <3>3. CompareInv'
      BY <1>1, <1>2, <1>4
      DEF Inv, CompareInv, Passed, NonTargetIdentical, Changed, Moves, arguments, lanes
    <3>. QED
      BY <3>2, <3>3
  <2>. QED
    BY <2>6, <2>7, <2>8, <2>9, <2>10, <2>11 DEF Inv
<1>. QED
  BY <1>3, <1>4 DEF ReadSource

\* The configuration the command line uses for a file is one it may read now,
\* and no older than what the scan began with.
LEMMA DiscoveredNow ==
  ASSUME Inv, main \in InputScans \cup {"lane"}
  PROVE  /\ Discovered \in Versions \cup {Unread}
         /\ \A x : Discovered <= Now(pop, x).config
         /\ main \in {"lane", "after"} => \A x \in FilesOf[pop] : Since[x].config <= Discovered
<1>1. /\ world[Config] \in Versions /\ cache \in Versions \cup {Unread}
      /\ cache # Unread => cache <= world[Config]
  BY ItemsOf DEF Inv, TypeOK, ScanInv
<1>2. \A x : Now(pop, x).config = IF modes[pop] = "no-config" THEN Unread ELSE world[Config]
  BY DEF Now
<1>3. CASE modes[pop] = "no-config"
  <2>1. Discovered = Unread
    BY <1>3 DEF Discovered
  <2>. DEFINE since == IF main = "lane" THEN initial[pop] ELSE laneRead[pop][lane]
  <2>2. ASSUME main \in {"lane", "after"}
        PROVE  since \in [FilesOf[pop] -> Readings]
    <3>1. pop \in Pops /\ lane \in Lanes
      BY DEF Inv, TypeOK
    <3>2. Known(pop) /\ (main = "after" => Recorded(pop, lane))
      BY <2>2 DEF Known, Recorded
    <3>. QED
      BY <2>2, <3>1, <3>2 DEF Inv, KnownInv, LaneInv
  <2>3. \A c \in Versions \cup {Unread} : c <= Unread
    BY Orders
  <2>. QED
    BY <1>2, <1>3, <2>1, <2>2, <2>3 DEF Since, Readings
<1>4. CASE modes[pop] # "no-config" /\ ConfigSays[world[Config]] # "absent" /\ cache # Unread
  <2>1. Discovered = cache
    BY <1>4 DEF Discovered
  <2>. QED
    BY <1>1, <1>2, <1>4, <2>1 DEF Inv, SinceInv
<1>5. CASE modes[pop] # "no-config"
           /\ ~(ConfigSays[world[Config]] # "absent" /\ cache # Unread)
  <2>1. Discovered = world[Config]
    BY <1>5 DEF Discovered
  <2>2. \A x : Now(pop, x).config = world[Config]
    BY <1>2, <1>5
  <2>3. ASSUME main \in {"lane", "after"}, NEW x \in FilesOf[pop]
        PROVE  Since[x].config <= world[Config]
    <3>1. pop \in Pops /\ lane \in Lanes
      BY DEF Inv, TypeOK
    <3>2. Known(pop) /\ (main = "after" => Recorded(pop, lane))
      BY <2>3 DEF Known, Recorded
    <3>3. AtMost(Since[x], Now(pop, x))
      BY <2>3, <3>1, <3>2 DEF Inv, KnownInv, LaneInv, Since
    <3>. QED
      BY <2>2, <3>3 DEF AtMost
  <2>4. world[Config] <= world[Config]
    <3>1. world[Config] \in Nat
      BY <1>1, Orders
    <3>. QED
      BY <3>1
  <2>. QED
    BY <1>1, <2>1, <2>2, <2>3, <2>4
<1>. QED
  BY <1>3, <1>4, <1>5

LEMMA ReadInputStep == ASSUME Inv, ReadInput PROVE Inv'
<1>1. main \in InputScans \cup {"lane"} /\ Moves
  BY DEF ReadInput, Moves
<1>2. status' = status /\ exit' = exit /\ report' = report /\ status = "error"
      /\ exit \notin {0, 1}
  BY <1>1 DEF Moves, result, Inv, VerdictInv, InputScans
<1>3. CASE Stop
  BY <1>1, <1>3, StopStep DEF InputScans
<1>. DEFINE reading(x) == [hash |-> world[x], config |-> Discovered]
<1>4. ASSUME NEW x \in todo, Saw(x, reading(x)), todo' = todo \ {x},
             cache' = IF Discovered = Unread \/ ConfigSays[Discovered] = "absent"
                      THEN cache ELSE Discovered,
             UNCHANGED <<main, pop, lane>>
      PROVE  Inv'
  <2>1. /\ todo \cup DOMAIN seen = FilesOf[pop]
        /\ todo \cap DOMAIN seen = {}
        /\ seen \in [DOMAIN seen -> Readings]
        /\ \A y \in DOMAIN seen : AtMost(seen[y], Now(pop, y))
        /\ cache # Unread => cache <= world[Config]
    BY <1>1 DEF Inv, TypeOK, ScanInv, ToRead, InputScans, SourceScans
  <2>2. pop \in Pops /\ lane \in Lanes /\ world[x] \in Versions /\ world[Config] \in Versions
    BY <2>1, ItemsOf DEF Inv, TypeOK
  <2>3. /\ Discovered \in Versions \cup {Unread}
        /\ \A y : Discovered <= Now(pop, y).config
        /\ main \in {"lane", "after"} => \A y \in FilesOf[pop] : Since[y].config <= Discovered
    BY <1>1, DiscoveredNow
  <2>4. reading(x) \in Readings
    BY <2>2, <2>3 DEF Readings
  <2>5. AtMost(reading(x), Now(pop, x))
    <3>1. Now(pop, x).hash = world[x] /\ world[x] \in Nat
      BY <2>2, Orders DEF Now
    <3>2. world[x] <= world[x]
      BY <3>1
    <3>. QED
      BY <2>3, <3>1, <3>2 DEF AtMost
  <2>. HIDE DEF reading
  <2>6. /\ DOMAIN seen' = DOMAIN seen \cup {x}
        /\ seen' \in [DOMAIN seen' -> Readings]
        /\ seen'[x] = reading(x)
        /\ \A y \in DOMAIN seen' : y # x => y \in DOMAIN seen /\ seen'[y] = seen[y]
    BY <1>4, <2>1, <2>4, SawOne
  <2>7. \A y : Now(pop, y)' = Now(pop, y)
    BY <1>1, <1>4 DEF Now, Moves, arguments
  <2>8. \A y \in DOMAIN seen' : AtMost(seen'[y], Now(pop, y))
    BY <2>1, <2>5, <2>6
  <2>9. cache' \in Versions \cup {Unread}
        /\ (cache' # Unread => cache' = cache \/ (cache' = Discovered /\ Discovered # Unread))
    BY <1>4, <2>3 DEF Inv, TypeOK
  <2>10. cache' # Unread => cache' <= world[Config]
    <3>1. Discovered # Unread => Discovered <= world[Config]
      <4>1. CASE modes[pop] = "no-config"
        BY <4>1 DEF Discovered
      <4>2. CASE modes[pop] # "no-config"
        <5>1. Now(pop, x).config = world[Config]
          BY <4>2 DEF Now
        <5>. QED
          BY <2>3, <5>1
      <4>. QED
        BY <4>1, <4>2
    <3>. QED
      BY <2>1, <2>9, <3>1
  <2>11. world' = world /\ working' = working /\ main' = main /\ pop' = pop
    BY <1>1, <1>4 DEF Moves, arguments
  <2>12. ScanInv'
    <3>1. todo' \cup DOMAIN seen' = FilesOf[pop]
      BY <1>4, <2>1, <2>6
    <3>2. ToRead(main', pop') = FilesOf[pop]
      BY <1>1, <2>11 DEF ToRead, InputScans, SourceScans
    <3>3. (\A y \in DOMAIN seen : AtMost(seen[y], Now(pop, y)))'
      BY <2>7, <2>8, <2>11
    <3>4. main' \notin SourceScans
      BY <1>1, <2>11 DEF InputScans, SourceScans
    <3>. QED
      BY <2>6, <2>10, <2>11, <3>1, <3>2, <3>3, <3>4 DEF ScanInv, ToRead, SourceScans
  <2>13. TypeOK'
    <3>1. todo' \subseteq Sources \cup Files /\ todo' \cap DOMAIN seen' = {}
      BY <1>4, <2>1, <2>2, <2>6, ItemsOf
    <3>2. main' \in Phases /\ pop' \in Pops /\ lane' \in Lanes
      BY <1>4 DEF Inv, TypeOK, Phases
    <3>. QED
      BY <1>1, <2>9, <3>1, <3>2, MoveTyped DEF Inv
  <2>14. KnownInv'
    BY <1>1, <1>2, <2>11 DEF Inv, KnownInv, Known, Now, Moves, arguments
  <2>15. VerdictInv'
    BY <1>2 DEF VerdictInv
  <2>16. SourceInv'
    BY <1>1, <1>2, <2>11 DEF Inv, SourceInv, InputScans, Moves, arguments
  <2>17. SinceInv'
    <3> SUFFICES ASSUME main \in {"lane", "after"}
                 PROVE  /\ \A y \in DOMAIN seen' : AtMost(Since[y], seen'[y])
                        /\ cache' # Unread => \A y \in FilesOf[pop] : Since[y].config <= cache'
      BY <1>1, <1>4 DEF SinceInv, Since, Moves, lanes
    <3>1. /\ \A y \in DOMAIN seen : AtMost(Since[y], seen[y])
          /\ cache # Unread => \A y \in FilesOf[pop] : Since[y].config <= cache
      BY DEF Inv, SinceInv
    <3>2. AtMost(Since[x], reading(x))
      <4>1. Known(pop) /\ (main = "after" => Recorded(pop, lane))
        BY DEF Known, Recorded
      <4>2. AtMost(Since[x], Now(pop, x))
        BY <2>1, <2>2, <4>1 DEF Inv, KnownInv, LaneInv, Since
      <4>3. Since[x].config <= Discovered
        BY <2>1, <2>3
      <4>. QED
        BY <4>2, <4>3 DEF AtMost, Now, reading
    <3>3. \A y \in DOMAIN seen' : AtMost(Since[y], seen'[y])
      BY <2>6, <3>1, <3>2
    <3>4. cache' # Unread => \A y \in FilesOf[pop] : Since[y].config <= cache'
      BY <2>3, <2>9, <3>1
    <3>. QED
      BY <3>3, <3>4
  <2>18. LaneInv'
    BY <1>1, <1>2, <1>4 DEF Inv, LaneInv, Passed, Recorded, Now, Moves, arguments, lanes
  <2>19. CompareInv'
    BY <1>1, <1>2, <1>4
    DEF Inv, CompareInv, Passed, NonTargetIdentical, Changed, Moves, arguments, lanes
  <2>. QED
    BY <2>12, <2>13, <2>14, <2>15, <2>16, <2>17, <2>18, <2>19 DEF Inv
<1>. QED
  BY <1>3, <1>4 DEF ReadInput

\* A file that is edited is newer than anything that was read of it.
LEMMA Newer ==
  ASSUME Inv, Edit
  PROVE  /\ \A x \in Items : \A v \in Nat : v <= world[x] => v <= world'[x]
         /\ \A p \in Pops : \A x \in FilesOf[p], r \in Readings :
              AtMost(r, Now(p, x)) => AtMost(r, Now(p, x)')
<1>1. modes' = modes
  BY DEF Edit, arguments
<1>2. PICK e \in Items : world[e] < MaxVersion /\ world' = [world EXCEPT ![e] = @ + 1]
  BY DEF Edit
<1>3. world \in [Items -> Versions]
  BY DEF Inv, TypeOK
<1>4. \A x \in Items : world[x] \in Nat
  BY <1>3, Orders
<1>5. \A x \in Items : world'[x] = world[x] \/ world'[x] = world[x] + 1
  BY <1>2, <1>3
<1>6. \A x \in Items : \A v \in Nat : v <= world[x] => v <= world'[x]
  BY <1>4, <1>5
<1>7. ASSUME NEW p \in Pops, NEW x \in FilesOf[p], NEW r \in Readings, AtMost(r, Now(p, x))
      PROVE  AtMost(r, Now(p, x)')
  <2>1. x \in Items /\ Config \in Items /\ r.hash \in Nat /\ r.config \in Nat
    BY ItemsOf, Orders
  <2>2. r.hash <= world'[x]
    BY <1>6, <1>7, <2>1 DEF AtMost, Now
  <2>3. modes[p] # "no-config" => r.config <= world'[Config]
    BY <1>6, <1>7, <2>1 DEF AtMost, Now
  <2>4. modes[p] = "no-config" => r.config <= Unread
    BY <1>7 DEF AtMost, Now
  <2>5. Unread' = Unread
    BY DEF Unread
  <2>. QED
    BY <1>1, <2>2, <2>3, <2>4, <2>5 DEF AtMost, Now
<1>. QED
  BY <1>6, <1>7

LEMMA EditStep == ASSUME Inv, Edit PROVE Inv'
<1>1. /\ main # "done" /\ edits < MaxEdits /\ edits' = edits + 1
      /\ \E x \in Items : /\ world[x] < MaxVersion
                          /\ world' = [world EXCEPT ![x] = @ + 1]
      /\ UNCHANGED <<arguments, place, manifests, initial, frozen, built, lanes, result>>
  BY DEF Edit
<1>2. /\ modes' = modes /\ working' = working /\ target' = target
      /\ main' = main /\ pop' = pop /\ lane' = lane /\ todo' = todo /\ seen' = seen
      /\ cache' = cache /\ listed' = listed /\ manifestHash' = manifestHash
      /\ initial' = initial /\ frozen' = frozen /\ built' = built
      /\ laneRead' = laneRead /\ outputs' = outputs /\ identical' = identical
      /\ status' = status /\ report' = report /\ exit' = exit
  BY <1>1 DEF arguments, place, manifests, lanes, result
<1>3. world \in [Items -> Versions] /\ edits \in 0..MaxEdits /\ pop \in Pops
  BY DEF Inv, TypeOK
<1>4. world' \in [Items -> Versions] /\ edits' \in 0..MaxEdits
  <2>1. PICK x \in Items : world[x] < MaxVersion /\ world' = [world EXCEPT ![x] = @ + 1]
    BY <1>1
  <2>2. world[x] + 1 \in Versions
    BY <1>3, <2>1, ComparisonAssumption DEF Versions
  <2>3. world' \in [Items -> Versions]
    BY <1>3, <2>1, <2>2
  <2>4. edits' \in 0..MaxEdits
    BY <1>1, <1>3, ComparisonAssumption
  <2>. QED
    BY <2>3, <2>4
<1>5. TypeOK'
  BY <1>2, <1>4 DEF Inv, TypeOK
<1>6. /\ \A x \in Items : \A v \in Nat : v <= world[x] => v <= world'[x]
      /\ \A p \in Pops : \A x \in FilesOf[p], r \in Readings :
           AtMost(r, Now(p, x)) => AtMost(r, Now(p, x)')
  BY Newer
<1>7. ScanInv'
  <2>1. ToRead(main', pop') = todo' \cup DOMAIN seen'
    BY <1>2 DEF Inv, ScanInv
  <2>2. ASSUME main \in SourceScans
        PROVE  /\ seen \in [DOMAIN seen -> Versions]
               /\ \A x \in DOMAIN seen : seen[x] <= world'[x]
    <3>1. /\ seen \in [DOMAIN seen -> Versions] /\ DOMAIN seen \subseteq Sources
          /\ \A x \in DOMAIN seen : seen[x] <= world[x]
      BY <2>2 DEF Inv, ScanInv, ToRead
    <3>2. \A x \in DOMAIN seen : x \in Items /\ seen[x] \in Nat
      BY <3>1, ItemsOf, Orders
    <3>. QED
      BY <1>6, <3>1, <3>2
  <2>3. ASSUME main \in InputScans \cup {"lane"}
        PROVE  /\ seen \in [DOMAIN seen -> Readings]
               /\ \A x \in DOMAIN seen : AtMost(seen[x], Now(pop, x)')
               /\ cache # Unread => cache <= world'[Config]
    <3>1. /\ seen \in [DOMAIN seen -> Readings] /\ DOMAIN seen \subseteq FilesOf[pop]
          /\ \A x \in DOMAIN seen : AtMost(seen[x], Now(pop, x))
          /\ cache # Unread => cache <= world[Config]
      BY <2>3 DEF Inv, ScanInv, ToRead, InputScans, SourceScans
    <3>2. \A x \in DOMAIN seen : AtMost(seen[x], Now(pop, x)')
      <4>1. PICK p \in Pops : p = pop
        BY <1>3
      <4>2. \A x \in DOMAIN seen : AtMost(seen[x], Now(p, x)')
        BY <1>6, <3>1, <4>1
      <4>. QED
        BY <1>2, <4>1, <4>2 DEF Now
    <3>3. cache \in Versions \cup {Unread}
      BY DEF Inv, TypeOK
    <3>4. cache # Unread => cache \in Nat
      BY <3>3, Orders
    <3>5. ASSUME cache # Unread PROVE cache <= world'[Config]
      <4>1. cache \in Nat /\ cache <= world[Config] /\ Config \in Items
        BY <3>1, <3>4, <3>5, ItemsOf
      <4>. QED
        BY <1>6, <4>1
    <3>. QED
      BY <3>1, <3>2, <3>5
  <2>4. main \in InputScans \cup {"lane"} =>
          (\A x \in DOMAIN seen : AtMost(seen[x], Now(pop, x)))'
    BY <1>2, <2>3 DEF Now
  <2>5. main = "candidate" /\ ~working => seen = Empty
    BY DEF Inv, ScanInv
  <2>. QED
    BY <1>2, <2>1, <2>2, <2>3, <2>4, <2>5 DEF ScanInv, ToRead
<1>8. KnownInv'
  <2> SUFFICES ASSUME NEW p \in Pops, Known(p)'
               PROVE  /\ initial'[p] \in [FilesOf[p] -> Readings]
                      /\ \A x \in FilesOf[p] : AtMost(initial'[p][x], Now(p, x)')
    BY DEF KnownInv
  <2>1. Known(p)
    BY <1>2 DEF Known
  <2>. QED
    BY <1>2, <1>6, <2>1 DEF Inv, KnownInv
<1>9. LaneInv'
  <2> SUFFICES ASSUME NEW p \in Pops, NEW l \in Lanes
               PROVE  /\ Recorded(p, l)' =>
                           /\ outputs'[p][l] \in Outputs
                           /\ laneRead'[p][l] \in [FilesOf[p] -> Readings]
                           /\ \A x \in FilesOf[p] :
                                /\ AtMost(initial'[p][x], laneRead'[p][l][x])
                                /\ AtMost(laneRead'[p][l][x], Now(p, x)')
                      /\ Passed(p, l)' => laneRead'[p][l] = initial'[p]
    BY DEF LaneInv
  <2>1. (Recorded(p, l)' => Recorded(p, l)) /\ (Passed(p, l)' => Passed(p, l))
    BY <1>2 DEF Recorded, Passed
  <2>. QED
    BY <1>2, <1>6, <2>1 DEF Inv, LaneInv
<1>10. SinceInv' /\ VerdictInv'
  BY <1>2 DEF Inv, SinceInv, Since, VerdictInv
<1>11. SourceInv'
  <2>1. \A x \in Sources : x \in Items
    BY ItemsOf
  <2>2. ASSUME main \in {"base", "candidate", "refreeze", "recheck", "before", "lane", "after"}
        PROVE  /\ frozen \in [Sources -> Versions]
               /\ \A x \in Sources : frozen[x] <= world'[x]
    <3>1. /\ frozen \in [Sources -> Versions]
          /\ \A x \in Sources : frozen[x] <= world[x]
      BY <2>2 DEF Inv, SourceInv
    <3>2. \A x \in Sources : frozen[x] \in Nat
      BY <3>1, Orders
    <3>. QED
      BY <1>6, <2>1, <3>1, <3>2
  <2>3. ASSUME working, main \in {"before", "lane", "after", "refreeze", "recheck"}
        PROVE  /\ built \in [Sources -> Versions]
               /\ \A x \in Sources : frozen[x] <= built[x] /\ built[x] <= world'[x]
    <3>1. /\ built \in [Sources -> Versions]
          /\ \A x \in Sources : frozen[x] <= built[x] /\ built[x] <= world[x]
      BY <2>3 DEF Inv, SourceInv
    <3>2. \A x \in Sources : built[x] \in Nat
      BY <3>1, Orders
    <3>. QED
      BY <1>6, <2>1, <3>1, <3>2
  <2>4. /\ main = "candidate" => \A x \in DOMAIN seen : frozen[x] <= seen[x]
        /\ working /\ main = "refreeze" => \A x \in DOMAIN seen : built[x] <= seen[x]
        /\ working /\ (main = "recheck" \/ status # "error") => built = frozen
    BY DEF Inv, SourceInv
  <2>. QED
    BY <1>2, <2>2, <2>3, <2>4 DEF SourceInv
<1>12. CompareInv'
  BY <1>2 DEF Inv, CompareInv, Passed, NonTargetIdentical, Changed
<1>. QED
  BY <1>5, <1>7, <1>8, <1>9, <1>10, <1>11, <1>12 DEF Inv

LEMMA Stutter == ASSUME Inv, UNCHANGED vars PROVE Inv'
<1>1. /\ world' = world /\ edits' = edits
      /\ modes' = modes /\ working' = working /\ target' = target
      /\ main' = main /\ pop' = pop /\ lane' = lane /\ todo' = todo /\ seen' = seen
      /\ cache' = cache /\ listed' = listed /\ manifestHash' = manifestHash
      /\ initial' = initial /\ frozen' = frozen /\ built' = built
      /\ laneRead' = laneRead /\ outputs' = outputs /\ identical' = identical
      /\ status' = status /\ report' = report /\ exit' = exit
  BY DEF vars, arguments, place, manifests, lanes, result
<1>2. TypeOK' /\ ScanInv'
  BY <1>1 DEF Inv, TypeOK, ScanInv, Now, ToRead
<1>3. KnownInv' /\ SinceInv' /\ SourceInv' /\ VerdictInv'
  BY <1>1 DEF Inv, KnownInv, Known, SinceInv, Since, SourceInv, VerdictInv, Now
<1>4. LaneInv'
  BY <1>1 DEF Inv, LaneInv, Passed, Recorded, Now
<1>5. CompareInv'
  BY <1>1 DEF Inv, CompareInv, Passed, NonTargetIdentical, Changed
<1>. QED
  BY <1>2, <1>3, <1>4, <1>5 DEF Inv
-----------------------------------------------------------------------------
\* Inv is inductive: it holds at the start and every step of runMain, and of
\* the programs that edit its files, keeps it.
THEOREM Invariance == Spec => []Inv
<1>1. Init => Inv
  BY InitHolds
<1>2. Inv /\ [Next]_vars => Inv'
  <2> SUFFICES ASSUME Inv, [Next]_vars PROVE Inv'
    OBVIOUS
  <2>1. CASE Edit
    BY <2>1, EditStep
  <2>2. CASE Refuse
    BY <2>2, RefuseStep
  <2>3. CASE Guard
    BY <2>3, GuardStep
  <2>4. CASE Load
    BY <2>4, LoadStep
  <2>5. CASE Hash
    BY <2>5, HashStep
  <2>6. CASE ReadSource
    BY <2>6, ReadSourceStep
  <2>7. CASE ReadInput
    BY <2>7, ReadInputStep
  <2>8. CASE Initial
    BY <2>8, InitialStep
  <2>9. CASE Freeze
    BY <2>9, FreezeStep
  <2>10. CASE BuildBase
    BY <2>10, BuildBaseStep
  <2>11. CASE BuildCandidate
    BY <2>11, BuildCandidateStep
  <2>12. CASE Before
    BY <2>12, BeforeStep
  <2>13. CASE Lane
    BY <2>13, LaneStep
  <2>14. CASE After
    BY <2>14, AfterStep
  <2>15. CASE Refreeze
    BY <2>15, RefreezeStep
  <2>16. CASE Recheck
    BY <2>16, RecheckStep
  <2>17. CASE Finish
    BY <2>17, FinishStep
  <2>18. CASE Ended \/ UNCHANGED vars
    BY <2>18, Stutter DEF Ended
  <2>. QED
    BY <2>1, <2>2, <2>3, <2>4, <2>5, <2>6, <2>7, <2>8, <2>9, <2>10, <2>11, <2>12, <2>13,
       <2>14, <2>15, <2>16, <2>17, <2>18
    DEF Next
<1>. QED
  BY <1>1, <1>2, PTL DEF Spec

\* runMain keeps its populations, scans, readings and verdicts well formed.
THEOREM TypeCorrect == Spec => []TypeOK
<1>1. Inv => TypeOK
  BY DEF Inv
<1>. QED
  BY <1>1, Invariance, PTL

\* When runMain exits with 0 or 1, the candidate of a working tree was built
\* from the sources that were fingerprinted, and both lanes of every population
\* read the inputs and the configuration of the report.
THEOREM VerdictOnFrozenEvidence == Spec => []EvidenceIsFrozen
<1>1. Inv => EvidenceIsFrozen
  <2> SUFFICES ASSUME Inv, exit \in {0, 1}
               PROVE  /\ working => built = frozen
                      /\ \A p \in Pops, l \in Lanes : laneRead[p][l] = initial[p]
    BY DEF EvidenceIsFrozen
  <2>1. status # "error"
    BY DEF Inv, VerdictInv
  <2>. QED
    BY <2>1 DEF Inv, SourceInv, LaneInv, Passed
<1>. QED
  BY <1>1, Invariance, PTL

\* The exit status is the status of the report on disk, every lane has been
\* counted, and 1 means a difference outside of the target rule.
THEOREM ExitIsTheVerdict == Spec => []ExitMatchesEvidence
<1>1. Inv => ExitMatchesEvidence
  <2> SUFFICES ASSUME Inv, exit \in {0, 1}
               PROVE  /\ report = IF exit = 0 THEN "pass" ELSE "fail"
                      /\ \A p \in Pops, l \in Lanes : outputs[p][l] \in Outputs
                      /\ exit = 1 <=> \E p \in Pops, f \in Findings :
                           /\ target \notin {NoRule, RuleOf[f]}
                           /\ outputs[p]["base"][f] # outputs[p]["candidate"][f]
    BY DEF ExitMatchesEvidence
  <2>1. /\ status \in {"pass", "fail"} /\ report = status
        /\ exit = 0 <=> status = "pass"
        /\ status = "pass" <=> \A p \in Pops : identical[p]
    BY DEF Inv, TypeOK, VerdictInv
  <2>2. \A p \in Pops, l \in Lanes : Passed(p, l)
    BY <2>1 DEF Passed
  <2>3. \A p \in Pops, l \in Lanes : outputs[p][l] \in Outputs
    BY <2>2 DEF Inv, LaneInv, Recorded
  <2>4. ASSUME NEW p \in Pops
        PROVE  identical[p] <=> ~\E f \in Findings :
                 /\ target \notin {NoRule, RuleOf[f]}
                 /\ outputs[p]["base"][f] # outputs[p]["candidate"][f]
    <3>1. identical[p] = NonTargetIdentical(outputs[p]["base"], outputs[p]["candidate"])
      BY <2>2 DEF Inv, CompareInv, Lanes
    <3>2. outputs[p]["base"] \in Outputs /\ outputs[p]["candidate"] \in Outputs
      BY <2>3 DEF Lanes
    <3>3. \A f \in Findings : outputs[p]["base"][f] \in Nat /\ outputs[p]["candidate"][f] \in Nat
      BY <3>2, ComparisonAssumption
    <3>4. Changed(outputs[p]["base"], outputs[p]["candidate"])
            = {f \in Findings : outputs[p]["base"][f] # outputs[p]["candidate"][f]}
      BY <3>3 DEF Changed
    <3>. QED
      BY <3>1, <3>4 DEF NonTargetIdentical
  <2>. QED
    BY <2>1, <2>3, <2>4
<1>. QED
  BY <1>1, Invariance, PTL
=============================================================================
