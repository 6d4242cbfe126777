--------------------------- MODULE ProjectConfig ---------------------------
(***************************************************************************)
(* Project configurations (internal/projectconfig).  A path is the         *)
(* sequence of its elements from the root of the file system, which is     *)
(* what Abs and Clean make of a name; a source root is the sequence of its *)
(* elements from the configuration's directory, <<>> for ".".              *)
(*                                                                         *)
(* What is at a configuration's path is a record: kind is "file", "dir",   *)
(* "absent" or "error" (Stat fails otherwise); decodes: it can be read and *)
(* is strict JSON whose version, Zsh version, identifier and spelling of   *)
(* roots are accepted; project: the kind of project; sources: a sequence   *)
(* of [root, profile, role], role "none" when it is left out.              *)
(***************************************************************************)
EXTENDS Naturals, Sequences, SequencesExt

ProjectKinds == {"plugin", "theme", "zi-annex", "module", "library", "tool", "application"}
Profiles == {"standalone-executable", "startup-file", "sourced-library",
             "autoload-function", "test-fixture"}
PluginKinds == {"plugin", "zi-annex"}
SourceRecord == [root : Seq(STRING), profile : STRING, role : STRING]
Entrypoints == {"x.plugin.zsh"}     \* the names that end in .plugin.zsh

\* validatePluginSourceMapping: the profile and role some roots must have.
Conventional(s) ==
  /\ s.root = <<"lib">> => s.profile = "sourced-library" /\ s.role = "none"
  /\ s.root = <<"functions">> => s.profile = "autoload-function" /\ s.role = "none"
  /\ s.root = <<"completions">> => s.profile = "autoload-function" /\ s.role = "completion"
  /\ s.root # <<>> => (Last(s.root) \in Entrypoints => s.profile = "sourced-library")

ValidSource(v, s) ==
  /\ s.root # <<>> => Head(s.root) # ".."
  /\ s.profile \in Profiles
  /\ s.role \in {"none", "completion"}
  /\ s.role = "completion" => s.profile = "autoload-function"
  /\ v.project \in PluginKinds => Conventional(s)

\* validate: at least one source, no root twice, every source valid.
Valid(v) ==
  /\ v.project \in ProjectKinds
  /\ v.sources # <<>>
  /\ \A j, k \in DOMAIN v.sources : v.sources[j].root = v.sources[k].root => j = k
  /\ \A k \in DOMAIN v.sources : ValidSource(v, v.sources[k])

\* Load: open, decode, validate.
Loads(v) == v.kind = "file" /\ v.decodes /\ Valid(v)
-----------------------------------------------------------------------------
\* pathContains: filepath.Rel does not lead out of root.
PathContains(root, path) == IsPrefix(root, path)

\* sourceDepth.
Depth(root) == Len(root)

\* Mutant: the first source that matches is taken.
Better_First(sources, k, best) == best = 0

\* Whether source k replaces the best match so far.
Better(sources, k, best) ==
  best = 0 \/ Depth(sources[k].root) > Depth(sources[best].root)

\* The loop over the sources: the best match, or 0.
BestSource(dir, sources, path) ==
  LET best[n \in 0..Len(sources)] ==
        IF n = 0 THEN 0
        ELSE IF PathContains(dir \o sources[n].root, path) /\ Better(sources, n, best[n - 1])
          THEN n ELSE best[n - 1]
  IN  best[Len(sources)]

\* Resolve: "outside", "unmatched", or the source that classifies path.
Resolve(dir, v, path) ==
  LET best == BestSource(dir, v.sources, path)
  IN  IF ~PathContains(dir, path) THEN [verdict |-> "outside"]
      ELSE IF best = 0 THEN [verdict |-> "unmatched"]
      ELSE [verdict |-> "source", project |-> v.project,
            profile |-> v.sources[best].profile]

\* Discover: from path's directory upwards, the first configuration that is a
\* file; an entry that cannot be inspected ends the search.  at[c] is the
\* directory of c, disk[c] what is there.
Discovery(at, disk, path) ==
  LET met == {c \in DOMAIN at : /\ PathContains(at[c], path) /\ at[c] # path
                                /\ disk[c].kind \in {"file", "error"}}
      nearest == CHOOSE c \in met : \A d \in met : Len(at[d]) <= Len(at[c])
  IN  IF met = {} THEN [verdict |-> "none"]
      ELSE IF disk[nearest].kind = "error" THEN [verdict |-> "error"]
      ELSE [verdict |-> "found", config |-> nearest]
-----------------------------------------------------------------------------
\* When roots overlap, the longest matching root wins
\* (docs/project/project-configuration.md:128).
LongestRoot(dir, v, path, profile) ==
  \E s \in ToSet(v.sources) :
    /\ s.profile = profile
    /\ IsPrefix(dir \o s.root, path)
    /\ \A other \in ToSet(v.sources) : IsPrefix(dir \o other.root, path)
                                         => Len(other.root) <= Len(s.root)
=============================================================================
