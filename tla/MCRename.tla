------------------------------ MODULE MCRename ------------------------------
(***************************************************************************)
(* A tree of nine nodes and three rules of main_turingchain's table.      *)
(***************************************************************************)
EXTENDS RenameProperties, TLC

MCNode == {"root", "git", "config", "sub", "subgit", "pkg", "inner", "one", "two"}

MCParent ==
  [n \in MCNode \ {"root"} |->
     CASE n = "config" -> "git"
       [] n \in {"subgit", "pkg"} -> "sub"
       [] n = "inner" -> "pkg"
       [] OTHER -> "root"]

MCIsDir == [n \in MCNode |-> n \in {"root", "git", "sub", "pkg"}]

MCAbove ==
  {"root"} \X (MCNode \ {"root"}) \union {<<"git", "config">>, <<"pkg", "inner">>}
  \union {"sub"} \X {"subgit", "pkg", "inner"}

\* chain33 -> turingchain, 33cn -> turingchain2020, bty -> trc: lines 32, 34, 35.
Replaced ==
  <<1, "chain33">> :> "turingchain" @@
  <<1, "chain33cn">> :> "turingchaincn" @@
  <<1, "trchain33">> :> "trturingchain" @@
  <<2, "chain33cn">> :> "chainturingchain2020" @@
  <<2, "bty_33cn">> :> "bty_turingchain2020" @@
  <<2, "trc_33cn">> :> "trc_turingchain2020" @@
  <<3, "bty">> :> "trc" @@
  <<3, "bty_33cn">> :> "trc_33cn" @@
  <<3, "bty_turingchain2020">> :> "trc_turingchain2020" @@
  <<3, "btyhain33">> :> "trchain33"

\* In the order of their bytes.
Sorted ==
  <<"", ".git", "bty", "bty_33cn", "bty_turingchain2020", "btyhain33", "chain33",
    "chain33cn", "chainturingchain2020", "readme", "trc", "trc_33cn",
    "trc_turingchain2020", "trchain33", "trturingchain", "turingchain", "turingchaincn">>

MCText == ToSet(Sorted)
MCRank == [t \in MCText |-> CHOOSE i \in DOMAIN Sorted : Sorted[i] = t]
MCHas == [r \in 1..3 |-> [t \in MCText |-> <<r, t>> \in DOMAIN Replaced]]
MCSub == [r \in 1..3 |-> [t \in MCText |-> IF MCHas[r][t] THEN Replaced[<<r, t>>] ELSE t]]

\* The fixed point is reached in three steps with three rules.
MCOrbit ==
  LET one == [t \in MCText |-> IF \E r \in 1..3 : MCHas[r][t]
                               THEN MCSub[CHOOSE r \in 1..3 : MCHas[r][t] /\ \A s \in 1..(r - 1) : ~MCHas[s][t]][t]
                               ELSE t]
  IN [t \in MCText |-> {t, one[t], one[one[t]], one[one[one[t]]]}]

MCTrees ==
  {[name |-> "root" :> "readme" @@ "git" :> ".git" @@ "config" :> "bty" @@ "sub" :> s @@
             "subgit" :> ".git" @@ "pkg" :> "bty" @@ "inner" :> i @@ "one" :> o @@ "two" :> t,
    text |-> "config" :> "bty" @@ "subgit" :> "bty" @@ "inner" :> j @@ "one" :> c @@
             [n \in MCNode |-> "readme"]] :
     s \in {"chain33", "bty_33cn"}, i \in {"bty", "readme"}, o \in {"bty", "chain33cn"},
     t \in {"trc", "turingchain", "readme"}, j \in {"chain33", "btyhain33"}, c \in {"bty_33cn", "chain33cn", "bty"}}
=============================================================================
