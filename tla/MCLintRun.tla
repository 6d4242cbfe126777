----------------------------- MODULE MCLintRun -----------------------------
(***************************************************************************)
(* A small world for LintRun: project P with a library, an autoload        *)
(* function in a deeper source root that unloads what the library          *)
(* registers, and a file no source root covers; a theme Q beneath P; a     *)
(* file with no config that does not parse, a directory and a path that    *)
(* cannot be inspected.                                                    *)
(***************************************************************************)
EXTENDS LintRun

MCPaths == {"a", "b", "c", "d", "e", "g", "s"}
Source(root, profile) == [root |-> root, profile |-> profile, role |-> "none"]
Config(project, sources) ==
  [kind |-> "file", decodes |-> TRUE, project |-> project, sources |-> sources]
Other(kind) == [kind |-> kind]

MCConfigAt == [P |-> <<"p">>, Q |-> <<"p", "q">>]

\* P: the deeper root last, or first; one root twice; no file at all.
Lib == Source(<<"lib">>, "sourced-library")
Functions == Source(<<"lib", "fn">>, "autoload-function")
MCVersions == [
  P |-> <<Config("plugin", <<Lib, Functions>>),
          Config("plugin", <<Source(<<"lib", "fn">>, "test-fixture"),
                             Source(<<>>, "sourced-library")>>),
          Config("plugin", <<Lib, Functions, Lib>>), Other("absent"), Other("error")>>,
  Q |-> <<Config("theme", <<Source(<<>>, "sourced-library")>>), Other("dir")>> ]

X(l, r, s) == [line |-> l, id |-> r, sev |-> s]
D(l, m, r) == [line |-> l, malformed |-> m, rules |-> r]

Found(default, library, function) ==
  [s \in Contents |->
     CASE s = "default" -> default [] s = "sourced-library" -> library [] OTHER -> function]

File(order, kind, at, parses, lines, ds, found, named, defines, registrations) ==
  [order |-> order, kind |-> kind, at |-> at, parses |-> parses, lines |-> lines,
   ds |-> ds, found |-> found, named |-> named, defines |-> defines,
   registrations |-> registrations]

Nothing == Found({}, {}, {})

MCFs == [
  a |-> File(1, "file", <<"p", "lib", "a">>, TRUE, <<"comment", "code", "code", "code">>,
             <<D(1, FALSE, <<"h">>), D(2, FALSE, <<"q", "z">>), D(4, FALSE, <<"u">>)>>,
             Found({X(2, "q", "info")}, {X(2, "q", "warning"), X(0, "h", "info")}, {}),
             FALSE, FALSE, {X(3, "u", "hint"), X(4, "u", "hint")}),
  b |-> File(2, "file", <<"p", "lib", "fn", "b">>, TRUE, <<"comment", "blank", "code">>,
             <<D(1, FALSE, <<"q">>)>>,
             Found({}, {X(3, "q", "warning")}, {X(3, "q", "info")}),
             TRUE, FALSE, {X(3, "u", "hint")}),
  c |-> File(3, "file", <<"p", "q", "c">>, TRUE, <<"code", "comment">>, <<D(2, FALSE, <<"q">>)>>,
             Found({X(1, "q", "warning")}, {X(1, "q", "warning")}, {}),
             FALSE, TRUE, {X(1, "u", "hint")}),
  d |-> File(4, "file", <<"p", "d">>, TRUE, <<"code", "comment", "code">>, <<D(2, TRUE, <<>>)>>,
             Found({X(3, "q", "info"), X(0, "h", "info")}, {}, {}), FALSE, FALSE, {}),
  e |-> File(5, "file", <<"e">>, FALSE, <<"code">>, <<>>, Nothing, FALSE, FALSE, {}),
  g |-> File(6, "dir", <<"p", "lib", "g">>, FALSE, <<>>, <<>>, Nothing, FALSE, FALSE, {}),
  s |-> File(7, "stat_error", <<"p", "lib", "s">>, TRUE, <<"code">>, <<>>, Nothing,
             FALSE, FALSE, {}) ]

MCRank == [h |-> 1] @@ [q |-> 2] @@ [u |-> 3] @@ [z |-> 4]
            @@ ("parse/error" :> 5) @@ ("meta/malformed-suppression" :> 6)
            @@ ("meta/unused-suppression" :> 7)

Arg(help, format, config, noConfig, names) ==
  [help |-> help, format |-> format, config |-> config, noConfig |-> noConfig,
   names |-> names]

Distinct(n) == {s \in [1..n -> MCPaths] : \A j, k \in 1..n : s[j] = s[k] => j = k}

\* Every choice of up to three different inputs, and two of one unconfigured input.
NameSets == Distinct(1) \cup Distinct(2) \cup Distinct(3) \cup {<<"d", "d">>, <<"e", "e">>}

\* Command lines the flag checks refuse, or answer with the help text.
Refused == {Arg(TRUE, "none", "unset", FALSE, <<"a">>), Arg(FALSE, "other", "unset", FALSE, <<"a">>),
            Arg(FALSE, "json", "empty", FALSE, <<"a">>), Arg(FALSE, "json", "P", TRUE, <<"a">>),
            Arg(FALSE, "none", "unset", FALSE, <<>>)}

MCArgSets == Refused \cup
  {Arg(FALSE, f, m[1], m[2], n) : f \in {"none", "json"},
     m \in {<<"unset", FALSE>>, <<"unset", TRUE>>, <<"P", FALSE>>}, n \in NameSets}

\* One configured file named twice.
TwiceArgSets == {Arg(FALSE, "none", "unset", FALSE, n) : n \in {<<"a", "a">>, <<"a", "c", "a">>}}
=============================================================================
