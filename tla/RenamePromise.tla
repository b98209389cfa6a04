---------------------------- MODULE RenamePromise ----------------------------
(***************************************************************************)
(* What RenameProject promises of a tree, without the walk: each node is   *)
(* renamed or rewritten on its own, as a whole, by the rule table, or not  *)
(* at all.  The two ways it may lose a file are spelled out: one that a    *)
(* sibling's new name replaces, and one torn by the end of the process.    *)
(***************************************************************************)
EXTENDS Naturals, SequencesExt

CONSTANTS Node, Root, Parent, IsDir, Text, Torn, Size, Has, Sub

VARIABLES name, text, live

Occurring(t) == {r \in 1..Size : Has[r][t]}

NewName(t) == Sub[CHOOSE r \in Occurring(t) : \A s \in Occurring(t) : r <= s][t]

NewText(t) == FoldLeft(LAMBDA u, r : IF Has[r][u] THEN Sub[r][u] ELSE u, t, [r \in 1..Size |-> r])

\* The other entries of n's directory that have the name t.
Rivals(n, t) == {m \in live \ {Root, n} : Parent[m] = Parent[n] /\ name[m] = t}

Init == live = Node

\* The entry n gets its new name, and replaces the file that had it.
RenameEntry(n) ==
  LET t == NewName(name[n]) IN
  /\ Occurring(name[n]) # {}
  /\ \A m \in Rivals(n, t) : ~IsDir[m] /\ ~IsDir[n]
  /\ name' = [name EXCEPT ![n] = t]
  /\ live' = live \ Rivals(n, t)
  /\ UNCHANGED text

\* The file n gets its new content.
RewriteFile(n) ==
  /\ ~IsDir[n]
  /\ text' = [text EXCEPT ![n] = NewText(text[n])]
  /\ UNCHANGED <<name, live>>

\* The process ends while it writes n.
TearFile(n) ==
  /\ ~IsDir[n]
  /\ text' = [text EXCEPT ![n] = Torn]
  /\ UNCHANGED <<name, live>>

Next == \E n \in live \ {Root} : RenameEntry(n) \/ RewriteFile(n) \/ TearFile(n)

Spec == Init /\ [][Next]_<<name, text, live>>
=============================================================================
