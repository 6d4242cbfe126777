------------------------------ MODULE LintRun ------------------------------
(***************************************************************************)
(* One run of the zsh-lint command (cmd/zsh-lint/main.go): flags, the      *)
(* project configuration of every input, the loop that opens and parses    *)
(* the inputs, the analysis of each unconfigured file and of each          *)
(* configured project, the report and the exit status.  Files and          *)
(* configurations may change while the command runs.                       *)
(***************************************************************************)
EXTENDS Suppress, ProjectConfig

CONSTANTS Paths,      \* the paths inputs are named by
          Fs,         \* Fs[p]: kind, place, text and findings of p
          ConfigAt,   \* ConfigAt[c]: the directory of the zsh-lint.json called c
          Versions,   \* Versions[c]: what may be found there, the first at the start
          ArgSets,    \* the command lines
          Rank,       \* the sort order of rule IDs
          MaxEdits    \* bound: changes to the file system during the run

Configs == DOMAIN ConfigAt
Contents == Profiles \cup {"default"}

\* Fs[p].kind: "file", "dir" or "stat_error" (os.Stat fails other than with
\* ErrNotExist).  Fs[p].found[s]: what the rules find in p with source context
\* s, "default" or a profile; named and defines: p's name, or a function in it,
\* is an unload function.
ASSUME FilesAssumption ==
  \A p \in Paths :
    /\ Fs[p].kind \in {"file", "dir", "stat_error"}
    /\ Fs[p].at \in Seq(STRING)
    /\ Fs[p].parses \in BOOLEAN
    /\ Fs[p].ds \in Seq(Directive)
    /\ \A s \in Contents : IsFiniteSet(Fs[p].found[s]) /\ Fs[p].found[s] \subseteq Reported
    /\ IsFiniteSet(Fs[p].registrations) /\ Fs[p].registrations \subseteq Reported

\* The project rule reports under an ID of its own, and no rule under that of
\* parse errors.
ASSUME RuleIdsAssumption ==
  \A p \in Paths : \A s \in Contents :
    /\ Fs[p].found[s] \cap Fs[p].registrations = {}
    /\ \A x \in Fs[p].found[s] \cup Fs[p].registrations : x.id # "parse/error"

\* What does not decode has no sources.
ASSUME ConfigsAssumption ==
  /\ Configs \cap {"none", "unset", "empty"} = {}
  /\ \A c \in Configs :
       /\ ConfigAt[c] \in Seq(STRING)
       /\ Versions[c] # <<>> /\ Versions[c] \in Seq(ToSet(Versions[c]))
       /\ \A v \in ToSet(Versions[c]) :
            /\ v.kind \in {"file", "dir", "absent", "error"}
            /\ v.kind = "file" /\ v.decodes => v.sources \in Seq(SourceRecord)

ASSUME ArgsAssumption ==
  /\ ArgSets \subseteq [help : BOOLEAN, noConfig : BOOLEAN, format : {"none", "json", "other"},
                        config : Configs \cup {"unset", "empty"}, names : Seq(Paths)]
  /\ MaxEdits \in Nat

Running == 3
Failing == {"error", "warning"}
Unread == [kind |-> "unread"]

\* A source context, and the configuration it or its error comes from.
Context(c, project, profile) ==
  [config |-> c, project |-> project, profile |-> profile, err |-> FALSE]
NoContext == Context("none", "none", "none")
Error(c) == [NoContext EXCEPT !.config = c, !.err = TRUE]

VARIABLES args,       \* the command line
          present,    \* the paths that can be opened now
          disk,       \* disk[c]: what is at the path of config c now
          edits,      \* file system changes so far
          pc,
          i,          \* the input the current loop is at
          contexts,   \* resolveSourceContexts' result, one per input
          key,        \* the config discovered for input i, not yet loaded
          cache,      \* cache[c]: config c as discovery loaded it, or Unread
          projects,   \* configured projects in order: [root, inputs]
          analysed,   \* inputs parsed and analysed, per analyzer
          errors,     \* inputs reported on stderr
          inspected,  \* inspectedFiles
          report,     \* diagnostics printed, or collected for JSON
          envelope,   \* the JSON document was written
          exitNonZero,
          status      \* exit status, Running until then

vars == <<args, present, disk, edits, pc, i, contexts, key, cache, projects, analysed, errors,
          inspected, report, envelope, exitNonZero, status>>
world == <<args, present, disk, edits>>
loop == <<contexts, key, cache>>
results == <<projects, analysed, errors, inspected, report, exitNonZero>>

Names == args.names
Inputs == DOMAIN Names
JsonOut == args.format = "json"

TypeOK == /\ args.names \in Seq(Paths)
          /\ args.config \in Configs \cup {"unset", "empty"}
          /\ present \in SUBSET Paths
          /\ \A c \in Configs : disk[c] \in ToSet(Versions[c])
          /\ edits \in 0..MaxEdits
          /\ pc \in {"flags", "explicit", "discover", "load", "inspect", "projects", "write", "done"}
          /\ i \in 1..(Len(Names) + 1)
          /\ contexts \in [Inputs -> [config : Configs \cup {"none"}, err : BOOLEAN,
                                     project : ProjectKinds \cup {"none"},
                                     profile : Profiles \cup {"none"}]]
          /\ key \in Configs \cup {"none"}
          /\ key # "none" <=> pc = "load"
          /\ \A c \in Configs : cache[c] \in ToSet(Versions[c]) \cup {Unread}
          /\ \A k \in DOMAIN projects : projects[k].root \in Configs
          /\ analysed \in SUBSET (Inputs \X {"default", "project"})
          /\ errors \in SUBSET Inputs
          /\ inspected \in 0..Len(Names)
          /\ \A k \in DOMAIN report : report[k].file \in Paths
          /\ envelope \in BOOLEAN
          /\ exitNonZero \in BOOLEAN
          /\ status \in 0..2 \cup {Running}
          /\ status = Running <=> pc # "done"

Init == /\ args \in ArgSets
        /\ present = Paths
        /\ disk = [c \in Configs |-> Head(Versions[c])]
        /\ edits = 0
        /\ pc = "flags"
        /\ i = 1
        /\ contexts = [k \in Inputs |-> NoContext]
        /\ key = "none"
        /\ cache = [c \in Configs |-> Unread]
        /\ projects = <<>>
        /\ analysed = {}
        /\ errors = {}
        /\ inspected = 0
        /\ report = <<>>
        /\ envelope = FALSE
        /\ exitNonZero = FALSE
        /\ status = Running

Exit(code) == pc' = "done" /\ status' = code
-----------------------------------------------------------------------------
\* Flag parsing and the checks after it, in the order run makes them.
BadFlags == \/ args.format = "other"
            \/ args.config = "empty"
            \/ args.config # "unset" /\ args.noConfig
            \/ Names = <<>>

\* Mutant: the help text is printed and the run goes on.
Flags_HelpGoesOn ==
  /\ pc = "flags"
  /\ ~BadFlags
  /\ status' = IF args.help THEN 0 ELSE status
  /\ pc' = IF args.noConfig THEN "inspect"
           ELSE IF args.config = "unset" THEN "discover" ELSE "explicit"
  /\ UNCHANGED <<world, i, loop, results, envelope>>

Flags == /\ pc = "flags"
         /\ \/ args.help /\ Exit(0)
            \/ ~args.help /\ BadFlags /\ Exit(2)
            \/ /\ ~args.help /\ ~BadFlags
               /\ pc' = IF args.noConfig THEN "inspect"
                        ELSE IF args.config = "unset" THEN "discover" ELSE "explicit"
               /\ UNCHANGED status
         /\ UNCHANGED <<world, i, loop, results, envelope>>

\* --config: load it once and resolve every input, or fail before any parse.
Explicit == /\ pc = "explicit"
            /\ LET c == args.config
                   context == [k \in Inputs |->
                                 Resolve(ConfigAt[c], disk[c], Fs[Names[k]].at)]
               IN  IF Loads(disk[c]) /\ \A k \in Inputs : context[k].verdict = "source"
                     THEN /\ contexts' = [k \in Inputs |->
                                  Context(c, context[k].project, context[k].profile)]
                          /\ pc' = "inspect"
                          /\ UNCHANGED status
                     ELSE Exit(2) /\ UNCHANGED contexts
            /\ UNCHANGED <<world, i, key, cache, results, envelope>>

SetContext(c) == contexts' = [contexts EXCEPT ![i] = c]

\* One input of discovery.  A directory keeps the default context; a path that
\* does not exist is still looked up.
Discover == /\ pc = "discover"
            /\ i <= Len(Names)
            /\ LET p == Names[i]
                   search == Discovery(ConfigAt, disk, Fs[p].at)
                   isDir == Fs[p].kind = "dir" /\ p \in present
                   fails == Fs[p].kind = "stat_error" \/ search.verdict = "error"
               IN  \/ /\ ~isDir /\ ~fails /\ search.verdict = "found"
                      /\ key' = search.config
                      /\ pc' = "load"
                      /\ UNCHANGED <<i, contexts>>
                   \/ /\ isDir \/ fails \/ search.verdict = "none"
                      /\ IF ~isDir /\ fails THEN SetContext(Error("none"))
                                          ELSE UNCHANGED contexts
                      /\ i' = i + 1
                      /\ UNCHANGED <<pc, key>>
            /\ UNCHANGED <<world, cache, results, envelope, status>>

\* Mutant: the config is loaded again for every input.
Loaded_Again(c) == disk[c]

\* The config as this run first loaded it.
Loaded(c) == IF cache[c] = Unread THEN disk[c] ELSE cache[c]

\* The config discovered is loaded, unless this run already did, and resolves
\* the input; an unmatched source keeps the default context.
UseConfig == /\ pc = "load"
             /\ LET v == Loaded(key)
                    found == Resolve(ConfigAt[key], v, Fs[Names[i]].at)
                IN  /\ cache' = [cache EXCEPT ![key] = v]
                    /\ IF ~Loads(v) THEN SetContext(Error(key))
                       ELSE IF found.verdict = "source"
                         THEN SetContext(Context(key, found.project, found.profile))
                       ELSE IF found.verdict = "unmatched" THEN UNCHANGED contexts
                       ELSE SetContext(Error(key))
             /\ key' = "none"
             /\ pc' = "discover"
             /\ i' = i + 1
             /\ UNCHANGED <<world, results, envelope, status>>

Discovered == /\ pc = "discover"
              /\ i = Len(Names) + 1
              /\ pc' = "inspect"
              /\ i' = 1
              /\ UNCHANGED <<world, loop, results, envelope, status>>
-----------------------------------------------------------------------------
Configured(k) == contexts[k].profile # "none"

\* What the rules find in input k, attributed to the path it was named by.
Local(k) ==
  {Finding(Names[k], x) :
     x \in Fs[Names[k]].found[IF Configured(k) THEN contexts[k].profile ELSE "default"]}

Fails(ds) == \E x \in ToSet(ds) : x.sev \in Failing

ParseError(p) == [file |-> p, line |-> 1, id |-> "parse/error", sev |-> "error",
                  slot |-> <<0, 0>>]

Stderr == /\ errors' = errors \cup {i}
          /\ exitNonZero' = TRUE
          /\ UNCHANGED <<projects, analysed, inspected, report>>

\* An input joins the project of its configuration root, in order of first use.
Join(root) ==
  LET at == {k \in DOMAIN projects : projects[k].root = root}
  IN  projects' = IF at = {} THEN Append(projects, [root |-> root, inputs |-> <<i>>])
                  ELSE [projects EXCEPT ![CHOOSE k \in at : TRUE].inputs = Append(@, i)]

Before(x, y) == \/ Fs[x.file].order < Fs[y.file].order
                \/ x.file = y.file /\ x.line < y.line
                \/ x.file = y.file /\ x.line = y.line /\ Rank[x.id] < Rank[y.id]

Insert(ds, x) ==
  LET later == {k \in DOMAIN ds : Before(x, ds[k])}
  IN  IF later = {} THEN Append(ds, x) ELSE InsertAt(ds, Min(later), x)

\* Diagnostics.Sort, which is stable.
Sorted(ds) ==
  LET sorted[n \in 0..Len(ds)] == IF n = 0 THEN <<>> ELSE Insert(sorted[n - 1], ds[n])
  IN  sorted[Len(ds)]

\* An input that parsed: configured inputs wait for their project.
Parsed(p) ==
  LET ds == Sorted(Apply(p, Fs[p], SetToSeq(Local(i)))) IN
  /\ analysed' = analysed \cup {<<i, IF Configured(i) THEN "project" ELSE "default">>}
  /\ IF Configured(i)
       THEN Join(contexts[i].config) /\ UNCHANGED <<report, exitNonZero>>
       ELSE /\ report' = report \o ds
            /\ exitNonZero' = (exitNonZero \/ Fails(ds))
            /\ UNCHANGED projects

\* One input of the main loop.
Inspect == /\ pc = "inspect"
           /\ i <= Len(Names)
           /\ LET p == Names[i] IN
              \/ /\ contexts[i].err \/ p \notin present
                 /\ Stderr
              \/ /\ ~contexts[i].err /\ p \in present
                 /\ inspected' = inspected + 1
                 /\ UNCHANGED errors
                 /\ \/ /\ ~Fs[p].parses
                       /\ report' = Append(report, ParseError(p))
                       /\ exitNonZero' = TRUE
                       /\ UNCHANGED <<projects, analysed>>
                    \/ Fs[p].parses /\ Parsed(p)
           /\ i' = i + 1
           /\ UNCHANGED <<world, pc, loop, envelope, status>>

Inspected == /\ pc = "inspect"
             /\ i = Len(Names) + 1
             /\ pc' = "projects"
             /\ i' = 1
             /\ UNCHANGED <<world, loop, results, envelope, status>>
-----------------------------------------------------------------------------
\* The project rule sees plugins only: an autoload function unloads by its
\* file's name, a sourced library by a function it defines; hooks count where
\* they are registered in a library.
Unloads(k) ==
  /\ contexts[k].project \in PluginKinds
  /\ \/ contexts[k].profile = "autoload-function" /\ Fs[Names[k]].named
     \/ contexts[k].profile = "sourced-library" /\ Fs[Names[k]].defines

Registrations(k) ==
  IF contexts[k].project \in PluginKinds /\ contexts[k].profile = "sourced-library"
    THEN {Finding(Names[k], x) : x \in Fs[Names[k]].registrations} ELSE {}

ProjectFindings(k, inputs) ==
  IF \E j \in ToSet(inputs) : Unloads(j) THEN {} ELSE Registrations(k)

\* Mutant: suppressions are applied before the project rules have run.
AnalyzeProject_Early(inputs) ==
  LET suppressed(k) == Apply(Names[k], Fs[Names[k]], SetToSeq(Local(k)))
      local == [n \in DOMAIN inputs |-> suppressed(inputs[n])]
      across == [n \in DOMAIN inputs |-> SetToSeq(ProjectFindings(inputs[n], inputs))]
  IN  Sorted(FlattenSeq(local) \o FlattenSeq(across))

\* AnalyzeProject: per-file findings of every input, then, input by input, the
\* findings attributed to its path are taken out, the project's are added, and
\* what its directives leave of them is put back.
AnalyzeProject(inputs) ==
  LET local == FlattenSeq([n \in DOMAIN inputs |-> SetToSeq(Local(inputs[n]))])
      across == FlattenSeq([n \in DOMAIN inputs |->
                              SetToSeq(ProjectFindings(inputs[n], inputs))])
      suppressed[n \in 0..Len(inputs)] ==
        IF n = 0 THEN local
        ELSE LET p == Names[inputs[n]]
                 last == suppressed[n - 1]
                 OfP(ds) == {k \in DOMAIN ds : ds[k].file = p}
             IN  Picked(last, DOMAIN last \ OfP(last))
                   \o Apply(p, Fs[p], Picked(last, OfP(last)) \o Picked(across, OfP(across)))
  IN  Sorted(suppressed[Len(inputs)])

\* Mutant: the findings of the last project alone decide the exit status.
Project_Overwrite ==
  /\ pc = "projects"
  /\ i <= Len(projects)
  /\ LET ds == AnalyzeProject(projects[i].inputs) IN
       /\ report' = report \o ds
       /\ exitNonZero' = Fails(ds)
  /\ i' = i + 1
  /\ UNCHANGED <<world, pc, loop, projects, analysed, errors, inspected, envelope, status>>

Project == /\ pc = "projects"
           /\ i <= Len(projects)
           /\ LET ds == AnalyzeProject(projects[i].inputs) IN
                /\ report' = report \o ds
                /\ exitNonZero' = (exitNonZero \/ Fails(ds))
           /\ i' = i + 1
           /\ UNCHANGED <<world, pc, loop, projects, analysed, errors, inspected, envelope,
                          status>>

Analysed == /\ pc = "projects"
            /\ i > Len(projects)
            /\ pc' = "write"
            /\ report' = IF JsonOut THEN Sorted(report) ELSE report
            /\ UNCHANGED <<world, i, loop, projects, analysed, errors, inspected, envelope,
                           exitNonZero, status>>

\* The exit status; writing the JSON document may fail.
Write == /\ pc = "write"
         /\ \/ /\ Exit(IF exitNonZero THEN 1 ELSE 0)
               /\ envelope' = JsonOut
            \/ /\ JsonOut
               /\ Exit(2)
               /\ UNCHANGED envelope
         /\ UNCHANGED <<world, i, loop, results>>
-----------------------------------------------------------------------------
\* Other programs: a path comes or goes, a config comes, goes or changes.
Edit == /\ pc # "done"
        /\ edits < MaxEdits
        /\ edits' = edits + 1
        /\ \/ /\ \E p \in ToSet(Names) : present' = IF p \in present THEN present \ {p}
                                                    ELSE present \cup {p}
              /\ UNCHANGED disk
           \/ /\ \E c \in Configs : \E v \in ToSet(Versions[c]) \ {disk[c]} :
                    disk' = [disk EXCEPT ![c] = v]
              /\ UNCHANGED present
        /\ UNCHANGED <<args, pc, i, loop, results, envelope, status>>

Exited == pc = "done" /\ UNCHANGED vars

Next == Flags \/ Explicit \/ Discover \/ UseConfig \/ Discovered \/ Inspect \/ Inspected \/ Project
          \/ Analysed \/ Write \/ Edit \/ Exited

Spec == Init /\ [][Next]_vars
-----------------------------------------------------------------------------
Done == pc = "done"

AllAccounted ==
  /\ inspected = Len(Names) - Cardinality(errors)
  /\ \A k \in Inputs :
       Cardinality(analysed \cap ({k} \X {"default", "project"})) =
         IF k \in errors \/ ~Fs[Names[k]].parses THEN 0 ELSE 1

\* The exit status says what the report and the error output say: 0 exactly
\* when nothing failed and no finding at warning or above was reported.  Every
\* input is accounted for once: on stderr, as a parse failure, or analysed by
\* exactly one of the two analyzers.
StatusMatchesReport ==
  (Done /\ status # 2) =>
    /\ status = 1 <=> (errors # {} \/ Fails(report))
    /\ args.help \/ AllAccounted

\* One run reads one version of a configuration: there is a version that
\* explains every input it governs, each being classified by the longest
\* source root that contains it, or every one of them failing with it.
OneConfigVersion ==
  \A c \in Configs : \E v \in ToSet(Versions[c]) : \A k \in Inputs :
    contexts[k].config = c =>
      IF contexts[k].err THEN ~Loads(v)
      ELSE Loads(v) /\ LongestRoot(ConfigAt[c], v, Fs[Names[k]].at, contexts[k].profile)

\* What the rules find in input k, its project's other inputs considered.
Mates(k) == {j \in Inputs : <<j, "project">> \in analysed
                            /\ contexts[j].config = contexts[k].config}
FoundIn(k) ==
  IF <<k, "default">> \in analysed THEN Local(k)
  ELSE IF <<k, "project">> \in analysed
    THEN Local(k) \cup (IF \E j \in Mates(k) : Unloads(j) THEN {} ELSE Registrations(k))
  ELSE {}

\* The report the suppression contract asks for: what no directive of the
\* file covers, and one meta diagnostic per malformed or unused directive.
Contracted(k) ==
  {x \in FoundIn(k) : ~Dropped(Fs[Names[k]], x)}
    \cup IF {<<k, "default">>, <<k, "project">>} \cap analysed = {} THEN {}
         ELSE Malformed(Names[k], Fs[Names[k]]) \cup Unused(Names[k], Fs[Names[k]], FoundIn(k))

ReportIsContracted ==
  Done /\ status # 2 =>
    /\ IsInjective(Names) => IsInjective(report)
    /\ {x \in ToSet(report) : x.id # "parse/error"} = UNION {Contracted(k) : k \in Inputs}

\* Each listed ID that matches no finding in the directive's scope, and no
\* other, is reported unused (docs/project/suppression.md:69).
UnusedMeansUnused ==
  \A x \in ToSet(report) :
    Done /\ x.id = "meta/unused-suppression" =>
      \E k \in Inputs : x \in Contracted(k)
=============================================================================
