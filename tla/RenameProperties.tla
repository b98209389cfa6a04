-------------------------- MODULE RenameProperties --------------------------
(***************************************************************************)
(* What RenameTree must not do to a source tree, however often it is       *)
(* killed and run again.                                                   *)
(***************************************************************************)
EXTENDS RenameTree, FiniteSets

CONSTANT
  Orbit       \* [Text -> SUBSET Text], the names a name can become in any number of runs

ASSUME OrbitAssumption ==
  /\ Orbit \in [Text -> SUBSET Text]
  /\ \A t \in Text :
       /\ t \in Orbit[t]
       /\ \A u \in Orbit[t], r \in Rules : FirstRule(r, u) => Sub[r][u] \in Orbit[t]

Siblings(m, n) == {m, n} \subseteq Node \ {Root} /\ m # n /\ Parent[m] = Parent[n]

\* Two entries of one directory that some run could give the same name.
Clash(m, n) == Siblings(m, n) /\ Orbit[name0[m]] \intersect Orbit[name0[n]] # {}

\* The node lies in a .git or .github directory of the base directory, or is it.
Shielded(n) ==
  \E t \in Node \ {Root} :
    Parent[t] = Root /\ name0[t] \in Skipped /\ (t = n \/ <<t, n>> \in Above)

\* What one run makes of a name.
Renamed(t) == IF Matches(t) THEN Sub[CHOOSE r \in Rules : FirstRule(r, t)][t] ELSE t

Content(t) == Rewrite(t).txt

\* The types of the variables; the loops' snapshots hold entries, not names.
TypeOK ==
  /\ name \in [Node -> Text] /\ text \in [Node -> Text] /\ live \subseteq Node
  /\ name0 \in [Node -> Text] /\ text0 \in [Node -> Text]
  /\ cur \in Node /\ open \subseteq Node
  /\ todo \in [Node -> SUBSET [name : Text, dir : BOOLEAN]]
  /\ at \in Text /\ buf \in Text
  /\ pc \in Active \union Halted
  /\ err \in {"none", "denied", "clash", "missing"}
  /\ runs \in 1..MaxRuns

-----------------------------------------------------------------------------
\* The directories on the stack are the current one and those above it; every
\* entry that a loop has still to take, and the one being handled, names one
\* existing node, of the kind it had when its directory was listed, although
\* renames made since have changed names and replaced files (63, 72-78, 88, 93-99).
PathsResolve ==
  /\ open \subseteq live
  /\ \A m, n \in live : Siblings(m, n) => name[m] # name[n]
  /\ pc \in Walking =>
       /\ open = {cur} \union {a \in Node : <<a, cur>> \in Above}
       /\ \A d \in open : \A e \in todo[d] : \E n \in Lookup(d, e.name) : IsDir[n] = e.dir
       /\ pc # "loop" => \E n \in Lookup(cur, at) : IsDir[n] = (pc = "open")

\* The walk uses names it read before it renamed anything, and paths it put
\* together from renamed parts; still no path is ever stale, so no panic is a
\* "no such file" (doReplace, renameFileName, replaceFileName, replaceContent).
NoStalePath == err # "missing"

\* While a directory's loop runs, or a loop below it, the directory is neither
\* renamed nor replaced: the path prefix its loop holds stays good.
OpenStable == [][\A d \in open : d \in live' /\ name'[d] = name[d]]_vars

\* A file is replaced by another, and a rename refused, only where two
\* entries of one directory can come to the same name (replaceFileName, 109).
LostOnlyInClash ==
  /\ \A n \in Node \ live : \E m \in Node : Clash(m, n)
  /\ err = "clash" => \E m, n \in Node : Clash(m, n)

\* Nothing in a skipped directory of the base directory changes, in any run
\* (doReplace, 68).
SkippedUntouched ==
  \A n \in Node : Shielded(n) => n \in live /\ name[n] = name0[n] /\ text[n] = text0[n]

\* A run leaves at most one file torn, and only if it ends between truncating
\* and writing it; a run that is through leaves none (replaceContent, 140).
TornBound ==
  Cardinality({n \in live : text[n] = Torn})
    <= IF pc \in {"flush", "panic", "killed"} THEN runs ELSE runs - 1

\* After a run that was not cut short every name has been replaced, exactly
\* once per run; a name without a second match is right after any number of
\* runs, also if earlier ones were killed halfway.
NamesDone ==
  pc = "done" =>
    \A n \in live \ {Root} :
      \/ Shielded(n)
      \/ \E m \in Node : Clash(m, n)
      \/ runs > 1 /\ Renamed(Renamed(name0[n])) # Renamed(name0[n])
      \/ name[n] = Renamed(name0[n])

\* The same for contents; a file that an earlier run tore is not repaired.
ContentsDone ==
  pc = "done" =>
    \A n \in {f \in live : ~IsDir[f]} :
      \/ Shielded(n)
      \/ \E m \in Node : Clash(m, n)
      \/ runs > 1 /\ Content(Content(text0[n])) # Content(text0[n])
      \/ runs > 1 /\ text[n] = Torn
      \/ text[n] = Content(text0[n])

\* An import that named an entry before still names it afterwards, when one
\* rule at most occurs in the name: names and contents are rewritten by
\* different loops (105-115 and 132-138) that must agree.
ReferencesFollow ==
  pc = "done" =>
    \A f, m \in live \ {Root} :
      (/\ ~IsDir[f] /\ text0[f] = name0[m] /\ text[f] # Torn
       /\ ~Shielded(f) /\ ~Shielded(m)
       /\ ~\E k \in Node : Clash(k, m) \/ Clash(k, f)
       /\ Cardinality({r \in Rules : Has[r][name0[m]]}) <= 1
       /\ ~Matches(Renamed(name0[m])))
      => text[f] = name[m]

\* What was given to a run is done when it ends: names, contents, and the imports that follow
\* the names (92-99, 105-115, 130-138).
AllReplaced == NamesDone /\ ContentsDone /\ ReferencesFollow

\* Every run ends: the loops go over snapshots, which the renames they make
\* cannot extend.
Terminates == pc = "base" ~> pc \in Halted

-----------------------------------------------------------------------------
\* A file is seen as rewritten from the moment it is truncated, unless the
\* process ends before it is written.
SeenText ==
  [n \in Node |-> IF pc = "flush" /\ n \in Lookup(cur, at) THEN buf ELSE text[n]]

Promise == INSTANCE RenamePromise WITH text <- SeenText

\* The walk does to each node, one at a time, only what RenamePromise allows.
KeepsPromise == Promise!Spec
=============================================================================
