------------------------------ MODULE MCSelect ------------------------------
(***************************************************************************)
(* Select on trees around a directory d with a file d/a and a directory    *)
(* d/s, in which there is a file d/s/f.  D is another spelling of d, and x *)
(* another link to d/a.                                                    *)
(***************************************************************************)
EXTENDS SelectProps, TLC

MCUp == "d" :> "" @@ "d/a" :> "d" @@ "d/s" :> "d" @@ "d/s/f" :> "d/s"
     @@ "d/s/.git" :> "d/s" @@ "d/s/config" :> "d/s" @@ "d/odd" :> "d"
     @@ "d/.gitattributes" :> "d" @@ "x" :> "" @@ "D" :> "" @@ "D/a" :> "D"

MCPath == DOMAIN MCUp

MCAbove ==
  LET up[n \in 0..3] ==
        IF n = 0 THEN [p \in MCPath \cup {""} |-> {}]
        ELSE [p \in MCPath \cup {""} |->
                IF p = "" THEN {} ELSE {MCUp[p]} \cup up[n - 1][MCUp[p]]]
  IN  up[3]

MCInode == [p \in MCPath \cup {""} |->
              CASE p = "D" -> "d" [] p \in {"D/a", "x"} -> "d/a" [] OTHER -> p]

\* A tree in which the paths in dirs, files and others are, and nothing else.
Tree(dirs, files, others) ==
  [p \in MCPath \cup {""} |-> IF p \in dirs \cup {""} THEN "dir"
                             ELSE IF p \in files THEN "file"
                             ELSE IF p \in others THEN "symlink" ELSE "absent"]

PlainTree == Tree({"d", "d/s"}, {"d/a", "d/s/f"}, {})

Trees ==
  { PlainTree,
    Tree({"d", "d/s"}, {"d/a", "d/s/f", "d/s/.git"}, {}),
    Tree({"d", "d/s"}, {"d/a", "d/s/f", "d/s/config"}, {}),
    Tree({"d", "d/s"}, {"d/odd", "d/s/f", "d/.gitattributes"}, {}),
    Tree({"d", "d/s"}, {"d/a", "x"}, {}),
    Tree({"d", "D"}, {"d/a", "D/a"}, {}),
    Tree({"d"}, {}, {"d/a", "d/s"}),
    Tree({}, {"d", "x"}, {}) }

Excludes == {{}, {"d/s"}, {"d/a", "d/s/f"}, {"d"}, {"d", "d/s", "x"}}

Lists == {{"d"}, {"d", "d/s", "x"}, {"d/s/f", "x"}, {"D", "d"}, {}}

Arguments == [1..2 -> {"", "d/s", "d/a"}]
               \cup {<<"d">>, <<"D">>, <<"d/s/f", "x", "d/s/f">>}

As(origin, s) == [i \in DOMAIN s |-> [path |-> s[i], origin |-> origin]]

\* A set in some order.
InOrder(S) == CHOOSE s \in [1..Cardinality(S) -> S] : {s[i] : i \in DOMAIN s} = S

\* The entries of a config, in one order and its reverse.
Listed(L, x) ==
  LET managed == As("managed", InOrder(L))
      roots   == As("exclusion",
                    InOrder({e \in x : \A p \in L : ~Covers(p, e)}))
  IN  {managed, managed \o roots, roots \o managed}

\* An expansion of L, or of an argument list in A, within limits in M.
Starting(trees, exclusions, L, A, M) ==
  /\ kind \in trees
  /\ excl \in exclusions
  /\ asked \in UNION {Listed(l, excl) : l \in L} \cup {As("named", a) : a \in A}
  /\ limits \in M

FewExcludes == {{}, {"d/s"}, {"d/a", "d/s/f"}}
FewTrees == {PlainTree, Tree({"d", "d/s"}, {"d/a"}, {"x"})}
FewLists == {{"d"}, {"d/s/f", "x"}}
FewArguments == {<<"">>, <<"d/a", "d">>, <<"d/s", "d">>,
                 <<"x", "d", "x">>}

Ample == [files |-> 9, scanned |-> 20, bytes |-> 50, depth |-> 3]
TightLimits == {Ample, [Ample EXCEPT !.files = 1], [Ample EXCEPT !.scanned = 3],
                [Ample EXCEPT !.bytes = 9], [Ample EXCEPT !.depth = 0],
                [Ample EXCEPT !.depth = 1]}

TightTrees == {PlainTree, Tree({"d", "D"}, {"d/a", "D/a"}, {}),
               Tree({"d"}, {}, {"d/a", "d/s"})}

\* All trees within ample limits, and some within tight ones; or fewer of them,
\* beside other programs.
Undisturbed == /\ \/ Starting(Trees, Excludes, Lists, Arguments, {Ample})
                  \/ Starting(TightTrees, Excludes, Lists, Arguments, TightLimits)
               /\ edits = MaxEdits
Disturbed   == /\ Starting(FewTrees, FewExcludes, FewLists, FewArguments, {Ample})
               /\ edits = 0

MCInit ==
  /\ \/ Undisturbed
     \/ Disturbed
  /\ FromConfig(asked) \/ FromArguments(asked)
  /\ counting \in BOOLEAN
  /\ next = 1
  /\ stack = <<>>
  /\ out = Nothing
  /\ scanned = 0
  /\ bytes = 1
  /\ status = "expanding"
  /\ touched = {}

MCSpec == MCInit /\ [][Next]_vars /\ WF_vars(Step)

==============================================================================
