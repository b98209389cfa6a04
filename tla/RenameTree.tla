----------------------------- MODULE RenameTree -----------------------------
(***************************************************************************)
(* RenameProject (src/RenameProject/main.go): a depth-first walk over a    *)
(* source tree that renames every entry after the first replacement rule   *)
(* its name contains, and rewrites every file with all rules in turn.      *)
(*                                                                         *)
(* A node is a file or directory as it was found; it keeps its identity    *)
(* when its name changes, so that a file which another one replaces can be *)
(* told from a file that was renamed.  Names and contents are both texts;  *)
(* all that matters of a text is which rules occur in it (strings.Index)   *)
(* and what a rule makes of it (strings.ReplaceAll).                       *)
(*                                                                         *)
(* Any system call may fail, which is a panic, and the process may be      *)
(* killed between any two of them; the operator may then run it again over *)
(* the tree as it was left.                                                *)
(***************************************************************************)
EXTENDS Naturals, SequencesExt

CONSTANTS
  Node,       \* every file and directory of the tree
  Root,       \* the directory named by basePath
  Parent,     \* [Node \ {Root} -> Node], fixed: a rename stays in its directory
  IsDir,      \* [Node -> BOOLEAN]
  Above,      \* the pairs <<a, n>> with a a proper ancestor of n
  Text,       \* names and contents
  Torn,       \* the content of a file truncated but not completely written
  Size,       \* len(rms)
  Has,        \* [1..Size -> [Text -> BOOLEAN]], strings.Index(t, r.oldTxt) >= 0
  Sub,        \* [1..Size -> [Text -> Text]], strings.ReplaceAll(t, r.oldTxt, r.newTxt)
  Rank,       \* [Text -> Nat], the order ioutil.ReadDir sorts names in
  Skipped,    \* the names doReplace leaves alone
  Trees,      \* the trees it may start from: [name, text : [Node -> Text]]
  MaxRuns     \* bound: the number of times the tool is run

Rules == 1..Size

\* Line 106 and its break: r is the first rule of the table that occurs in t.
FirstRule(r, t) == Has[r][t] /\ \A s \in 1..(r - 1) : ~Has[s][t]

Matches(t) == \E r \in Rules : Has[r][t]

\* Mutants: the loop of replaceContent ends with the first rule that occurs,
\* or leaves out the last of the table.
RewriteBreak(t) ==
  FoldLeft(LAMBDA c, r : IF Has[r][c.txt] /\ ~c.change
                         THEN [txt |-> Sub[r][c.txt], change |-> TRUE] ELSE c,
           [txt |-> t, change |-> FALSE], [r \in Rules |-> r])
RewriteShort(t) ==
  FoldLeft(LAMBDA c, r : IF Has[r][c.txt] THEN [txt |-> Sub[r][c.txt], change |-> TRUE] ELSE c,
           [txt |-> t, change |-> FALSE], [r \in 1..(Size - 1) |-> r])

\* Lines 130-138: every rule in turn, on the text so far; the content and
\* whether any rule occurred.
Rewrite(t) ==
  FoldLeft(LAMBDA c, r : IF Has[r][c.txt] THEN [txt |-> Sub[r][c.txt], change |-> TRUE] ELSE c,
           [txt |-> t, change |-> FALSE], [r \in Rules |-> r])

\* The tree is a tree: from the root a path of entries leads to every node.
ASSUME TreeAssumption ==
  /\ Root \in Node /\ IsDir \in [Node -> BOOLEAN] /\ IsDir[Root]
  /\ Parent \in [Node \ {Root} -> {d \in Node : IsDir[d]}]
  /\ \A n \in Node : <<n, n>> \notin Above /\ <<n, Root>> \notin Above
  /\ \A a, b, c \in Node : <<a, b>> \in Above /\ <<b, c>> \in Above => <<a, c>> \in Above
  /\ \A n \in Node \ {Root}, a \in Node :
       <<a, n>> \in Above <=> a = Parent[n] \/ <<a, Parent[n]>> \in Above
  /\ \A n \in Node \ {Root} : <<Root, n>> \in Above
  /\ \A a, n \in Node : <<a, n>> \in Above =>
       \E k \in Node \ {Root} : Parent[k] = a /\ (k = n \/ <<k, n>> \in Above)

\* The entries of a directory have different names.
ASSUME TreesAssumption ==
  \A t \in Trees :
    /\ t \in [name : [Node -> Text], text : [Node -> Text]]
    /\ \A m, n \in Node \ {Root} : m # n /\ Parent[m] = Parent[n] => t.name[m] # t.name[n]

\* The texts are closed under the rules, no rule occurs in the torn text, and
\* none makes a name that doReplace would skip.
ASSUME RuleAssumption ==
  /\ Size \in Nat /\ MaxRuns \in Nat \ {0} /\ Torn \in Text /\ Rank \in [Text -> Nat]
  /\ Has \in [Rules -> [Text -> BOOLEAN]] /\ Sub \in [Rules -> [Text -> Text]]
  /\ ~Matches(Torn)
  /\ \A r \in Rules, t \in Text : Has[r][t] => Sub[r][t] \notin Skipped

\* The torn text is told from what a file holds at first, and from what a rule leaves.
ASSUME TornAssumption ==
  /\ \A t \in Trees, n \in Node : t.text[n] # Torn
  /\ \A r \in Rules, t \in Text : Has[r][t] => Sub[r][t] # Torn

VARIABLES
  name, text, live,     \* the file system: names, contents, the nodes that exist
  name0, text0,         \* the tree as the first run found it (never changes)
  cur,                  \* the directory whose loop is running
  open,                 \* the directories whose calls are on the stack
  todo,                 \* per open directory, the entries its loop has still to take
  at,                   \* _name: the entry being handled, below cur
  buf,                  \* contentStr: what is to be written
  pc, err,              \* where the tool is, what it panicked with
  runs                  \* the number of times it was started

disk == <<name, text, live>>
tree0 == <<name0, text0>>
walk == <<cur, open, todo>>
vars == <<disk, tree0, walk, at, buf, pc, err, runs>>

Walking == {"loop", "open", "read", "write", "flush"}
Active == Walking \union {"base"}
Halted == {"done", "panic", "killed"}

\* Mutant: a path put together without its directory.
LookupAnywhere(d, t) == {n \in live \ {Root} : name[n] = t}

\* What the directory d holds, and what the path d + "/" + t names.
Kids(d) == {n \in live \ {Root} : Parent[n] = d}
Lookup(d, t) == {n \in Kids(d) : name[n] = t}

\* Mutant: the names alone are listed.
ListNames(d) == {[name |-> name[n]] : n \in Kids(d)}

\* ioutil.ReadDir(d): a snapshot, which later renames do not change.
Listing(d) == {[name |-> name[n], dir |-> IsDir[n]] : n \in Kids(d)}

-----------------------------------------------------------------------------
Init ==
  /\ \E t \in Trees : name = t.name /\ text = t.text
  /\ live = Node
  /\ name0 = name /\ text0 = text
  /\ cur = Root /\ open = {} /\ todo = [d \in Node |-> {}]
  /\ at = Torn /\ buf = Torn
  /\ pc = "base" /\ err = "none" /\ runs = 1

\* panic(err): the process ends, and leaves the disk as it is.
Panic(e) ==
  /\ pc' = "panic"
  /\ err' = e
  /\ UNCHANGED <<disk, tree0, walk, at, buf, runs>>

\* The call for directory d reads it and enters its loop.
Enter(d) ==
  /\ cur' = d
  /\ open' = open \union {d}
  /\ todo' = [todo EXCEPT ![d] = Listing(d)]
  /\ pc' = "loop"
  /\ UNCHANGED <<disk, tree0, at, buf, err, runs>>

ReadBase == pc = "base" /\ Enter(Root)

\* e is the entry the loop of cur takes next.  Only the loop of doReplace,
\* which runs at the root, skips names.
NextEntry(e) ==
  /\ pc = "loop"
  /\ e \in todo[cur]
  /\ \A f \in todo[cur] : Rank[e.name] <= Rank[f.name]

\* Mutants: no name is skipped, or .git is skipped in every directory.
SkipsNever(e) == FALSE
SkipsEverywhere(e) == e.name \in Skipped

Skips(e) == cur = Root /\ e.name \in Skipped

\* Mutant: the loop reads its directory again after each entry.
TakeListed(e) == todo' = [todo EXCEPT ![cur] = Listing(cur)]

Take(e) == todo' = [todo EXCEPT ![cur] = @ \ {e}]

Skip(e) ==
  /\ NextEntry(e) /\ Skips(e)
  /\ Take(e)
  /\ UNCHANGED <<disk, tree0, cur, open, at, buf, pc, err, runs>>

\* Go on with the entry under the name it now has.
Proceed(e, t) ==
  /\ Take(e)
  /\ at' = t
  /\ pc' = IF e.dir THEN "open" ELSE "read"
  /\ UNCHANGED <<text, tree0, cur, open, buf, err, runs>>

\* Mutant: files only are renamed.
KeepDirectory(e) ==
  /\ NextEntry(e) /\ ~Skips(e) /\ (~Matches(e.name) \/ e.dir)
  /\ Proceed(e, e.name)
  /\ UNCHANGED <<name, live>>

\* replaceFileName when no rule occurs in the name.
KeepName(e) ==
  /\ NextEntry(e) /\ ~Skips(e) /\ ~Matches(e.name)
  /\ Proceed(e, e.name)
  /\ UNCHANGED <<name, live>>

\* os.Rename refuses the name of a directory, and for a directory any name in use.
Refused(n, t) == \E m \in Lookup(cur, t) \ {n} : IsDir[m] \/ IsDir[n]

\* Mutant: replaceFileName returns the name it was given.
RenameOldPath(e) ==
  /\ NextEntry(e) /\ ~Skips(e)
  /\ \E r \in Rules, n \in Lookup(cur, e.name) :
       LET t == Sub[r][e.name] IN
       /\ FirstRule(r, e.name) /\ ~Refused(n, t)
       /\ name' = [name EXCEPT ![n] = t]
       /\ live' = live \ (Lookup(cur, t) \ {n})
       /\ Proceed(e, e.name)

\* os.Rename of a file to the name of another file replaces that file.
Rename(e) ==
  /\ NextEntry(e) /\ ~Skips(e)
  /\ \E r \in Rules, n \in Lookup(cur, e.name) :
       LET t == Sub[r][e.name] IN
       /\ FirstRule(r, e.name) /\ ~Refused(n, t)
       /\ name' = [name EXCEPT ![n] = t]
       /\ live' = live \ (Lookup(cur, t) \ {n})
       /\ Proceed(e, t)

\* Line 109 with an error: the new name is refused, or nothing has the old one.
RenameFails(e) ==
  /\ NextEntry(e) /\ ~Skips(e)
  /\ \E r \in Rules :
       /\ FirstRule(r, e.name)
       /\ \A n \in Lookup(cur, e.name) : Refused(n, Sub[r][e.name])
  /\ Panic(IF Lookup(cur, e.name) = {} THEN "missing" ELSE "clash")

OpenDir == pc = "open" /\ \E d \in Lookup(cur, at) : IsDir[d] /\ Enter(d)

ReadFile ==
  /\ pc = "read"
  /\ \E f \in Lookup(cur, at) :
       /\ ~IsDir[f]
       /\ buf' = Rewrite(text[f]).txt
       /\ pc' = IF Rewrite(text[f]).change THEN "write" ELSE "loop"
  /\ UNCHANGED <<disk, tree0, walk, at, err, runs>>

\* ioutil.WriteFile: the file is truncated, and then written.
Write(from, to, t) ==
  /\ pc = from /\ pc' = to
  /\ \E f \in Lookup(cur, at) : text' = [text EXCEPT ![f] = t]
  /\ UNCHANGED <<name, live, tree0, walk, at, buf, err, runs>>

Truncate == Write("write", "flush", Torn)
Flush == Write("flush", "loop", buf)

\* Mutant: a directory is renamed when the walk below it is over.
ReturnRename ==
  /\ pc = "loop" /\ todo[cur] = {}
  /\ open' = open \ {cur}
  /\ IF cur = Root
     THEN pc' = "done" /\ UNCHANGED <<cur, name>>
     ELSE /\ cur' = Parent[cur] /\ UNCHANGED pc
          /\ name' = [name EXCEPT ![cur] = IF Matches(@) THEN Rewrite(@).txt ELSE @]
  /\ UNCHANGED <<text, live, tree0, todo, at, buf, err, runs>>

\* The loop of cur is through: back to the loop of the directory above.
Return ==
  /\ pc = "loop" /\ todo[cur] = {}
  /\ open' = open \ {cur}
  /\ IF cur = Root
     THEN pc' = "done" /\ UNCHANGED cur
     ELSE cur' = Parent[cur] /\ UNCHANGED pc
  /\ UNCHANGED <<disk, tree0, todo, at, buf, err, runs>>

\* Mutant: the error of a write is ignored.
SystemErrorIgnored ==
  /\ pc = "flush" /\ pc' = "loop"
  /\ UNCHANGED <<disk, tree0, walk, at, buf, err, runs>>

\* A system call fails: a permission, a file in use, a full disk; or the path
\* that OpenDir or ReadFile was given does not name what it should.
SystemError ==
  /\ \/ pc \in {"base", "open", "read", "write", "flush"}
     \/ pc = "loop" /\ \E e \in todo[cur] : NextEntry(e) /\ ~Skips(e) /\ Matches(e.name)
  /\ Panic(IF \/ pc = "open" /\ ~\E d \in Lookup(cur, at) : IsDir[d]
              \/ pc = "read" /\ ~\E f \in Lookup(cur, at) : ~IsDir[f]
           THEN "missing" ELSE "denied")

Kill ==
  /\ pc \in Active
  /\ pc' = "killed"
  /\ UNCHANGED <<disk, tree0, walk, at, buf, err, runs>>

\* main is run again, over the tree as it is.
Rerun ==
  /\ pc \in Halted /\ runs < MaxRuns
  /\ runs' = runs + 1
  /\ pc' = "base" /\ err' = "none"
  /\ cur' = Root /\ open' = {} /\ todo' = [d \in Node |-> {}]
  /\ UNCHANGED <<disk, tree0, at, buf>>

Step ==
  \/ ReadBase \/ OpenDir \/ ReadFile \/ Truncate \/ Flush \/ Return
  \/ \E e \in todo[cur] : Skip(e) \/ KeepName(e) \/ Rename(e) \/ RenameFails(e)

Next == Step \/ SystemError \/ Kill \/ Rerun

Spec == Init /\ [][Next]_vars

\* A process that is not killed keeps running; nothing makes the operator run
\* it again.
FairSpec == Spec /\ WF_vars(Step)
=============================================================================
