---------------------------- MODULE MCFileDocuments ----------------------------
(* Texts, documents and source files of up to five lines; lines are empty,     *)
(* short, or longer than a chunk.                                              *)
EXTENDS FileDocuments

MCOverlaps == {-1, 1, 6}

MCNames == {"A", "f", "h", "m", "n"}

Node(a, b, kind, name, around) ==
    [first |-> a, last |-> b, kind |-> kind, name |-> name, around |-> around]

Few == UNION {[1..n -> {0, 1, 7}] : n \in 0..3}
Five == {<<1, 1, 1, 1, 1>>, <<1, 1, 0, 1, 0>>, <<7, 1, 7, 0, 1>>, <<1, 1, 7, 7, 7>>}

Texts == {Parse("text", "text", w, <<>>, {2}) : w \in Few \cup Five}

Sections ==
    {Parse("markdown", "markdown", w, ns, {}) :
       w \in Five,
       ns \in {<<Node(1, 1, "heading", "h", {})>>,
               <<Node(2, 2, "heading", NoName, {}), Node(4, 4, "heading", "h", {})>>}}

\* A class with a method that declares a function, a class in a block with a method on
\* the same line, an anonymous function, two functions of one name, two classes of one,
\* a class with a constructor, one with its constructor on one line.
Trees ==
    {<<Node(1, 4, "class", "A", {}), Node(2, 3, "function", "m", {1}),
       Node(3, 3, "function", "n", {1, 2}), Node(5, 5, "function", "f", {})>>,
     <<Node(1, 5, "block", NoName, {}), Node(2, 2, "class", "A", {1}),
       Node(2, 2, "function", "m", {1, 2}), Node(3, 5, "function", NoName, {1})>>,
     <<Node(1, 2, "function", "f", {}), Node(3, 5, "function", "f", {})>>,
     <<Node(1, 2, "class", "A", {}), Node(2, 2, "function", "m", {1}),
       Node(3, 5, "class", "A", {})>>,
     <<Node(1, 3, "class", "A", {}), Node(2, 2, "function", "A", {1}),
       Node(4, 5, "function", "A", {})>>,
     <<Node(1, 1, "class", "A", {}), Node(1, 1, "function", "A", {1}),
       Node(2, 3, "function", "m", {})>>}

\* They are trees, as the theorem about parents assumes of the files of a repository.
ASSUME MCTrees == \A nodes \in Trees : Tree(nodes)

\* Matches of the regular expression; the last line is where the braces close.
Matches ==
    {<<Node(1, 4, "class", "A", {}), Node(2, 3, "function", "m", {})>>,
     <<Node(1, 2, "function", "f", {}), Node(4, 0, "function", "f", {})>>}

Sources ==
    UNION {{Parse("code", style, w, ns, secrets) : w \in Five, secrets \in {{}, {4}}} :
             <<style, ns>> \in ({"python", "grammar"} \X Trees) \cup ({"regex"} \X Matches)}

MCFiles == Texts \cup Sections \cup Sources
=============================================================================
