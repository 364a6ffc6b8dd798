------------------------------- MODULE MCAnswers -------------------------------
(* Objects with a title of any shape, rows of any shape and a property z that *)
(* no schema declares, against schemas that use each keyword where the code   *)
(* looks for it, and where it does not.                                       *)
EXTENDS Answers, SequencesExt

MCNames == {"title", "rows", "x", "z"}
MCAtoms == {"raw", "clean"}

Object(f) ==
    [Null EXCEPT !.t = "object", !.atom = "none",
        !.fields = [name \in Names |-> IF name \in DOMAIN f THEN f[name] ELSE Absent]]

Str(a) == [Null EXCEPT !.t = "string", !.atom = a]
Arr(s) == [Null EXCEPT !.t = "array", !.atom = "none", !.items = s]

Raw  == Str("raw")
Rec  == {Object(<<>>), Object([x |-> Raw]), Object([x |-> Null]), Object([z |-> Raw])}
Titles == {Null, Raw, Str("clean")} \union Rec
Tables == {Null, Arr(<<>>), Arr(<<Raw>>), Arr(<<Null>>)} \union {Arr(<<r>>) : r \in Rec}

MCValues ==
    {Raw, Object(<<>>), Object([z |-> Raw])}
    \union {Object([title |-> a]) : a \in Titles}
    \union {Object([rows |-> b]) : b \in Tables}
    \union {Object([title |-> a, rows |-> b]) : a \in {Null, Raw, Object([x |-> Raw])}, b \in Tables}

\* A schema is written here as a tree, with the nodes below a node in their
\* places, and put into a table from the bottom up.
Tree == [Anything EXCEPT !.props = <<>>, !.items = <<>>]

Of(name)  == [Tree EXCEPT !.types = {name}]
Maybe(s)  == [s EXCEPT !.types = @ \union {"null"}, !.list = TRUE]
Having(p) == [Tree EXCEPT !.types = {"object"}, !.hasProps = TRUE, !.props = p]
Req(s, r) == [s EXCEPT !.required = r]
Shut(s)   == [s EXCEPT !.closed = TRUE]
Items(s)  == [Of("array") EXCEPT !.items = <<s>>]
Alts(k, a) == [Tree EXCEPT !.kw = k, !.alts = a]

String == Of("string")
Date   == [String EXCEPT !.hint = TRUE]
Row    == Req(Having([x |-> Date]), {"x"})
OpenZ  == Having([z |-> String])
Bare   == [Row EXCEPT !.types = {}]

TitleSchemas ==
    {String, Date, Maybe(String), [Date EXCEPT !.enum = {"raw"}], [Tree EXCEPT !.enum = {"raw"}],
     Row, Shut(Row), Maybe(Row), Bare, Of("object"),
     Alts("anyOf", <<String, Row>>), Alts("oneOf", <<Row, OpenZ>>), Alts("allOf", <<Row, OpenZ>>),
     [Row EXCEPT !.types = {"string"}]}

RowSchemas ==
    {Items(Row), Items(Bare), Items(Maybe(Row)), Maybe(Items(Row)), Items(Of("object")), Items(String)}

Trees ==
    {Req(Having([title |-> a]), r) : a \in TitleSchemas, r \in {{}, {"title"}}}
    \union {Having([rows |-> b]) : b \in RowSchemas}
    \union {Req(Having([title |-> a, rows |-> Items(Row)]), {"title"}) : a \in TitleSchemas}
    \union {Having([title |-> a, rows |-> b]) : a \in {String, Maybe(Row)}, b \in RowSchemas}
    \union {Req(Having([title |-> String, rows |-> Items(Row)]), {"z"}),
            Having([title |-> Items(Row), rows |-> Items(Row)]),
            [Having([title |-> String, rows |-> Items(Row)]) EXCEPT
                !.kw = "allOf", !.alts = <<Req(Tree, {"z"})>>],
            [Having([title |-> String, rows |-> Items(Row)]) EXCEPT !.enum = {"raw"}],
            Alts("anyOf", <<Row, OpenZ>>), Of("object"), Tree}

\* The trees of a sequence one after the other, and the places of their roots.
RECURSIVE Planted(_, _, _)
RECURSIVE Grown(_, _)
Planted(table, roots, trees) ==
    IF trees = <<>> THEN [table |-> table, roots |-> roots]
    ELSE LET grown == Grown(table, Head(trees))
         IN  Planted(grown, Append(roots, Len(grown)), Tail(trees))

Grown(table, tree) ==
    LET names  == SetToSeq(DOMAIN tree.props)
        below  == Planted(table, <<>>, [i \in DOMAIN names |-> tree.props[names[i]]]
                                           \o tree.items \o tree.alts)
        P == Len(names)
        I == Len(tree.items)
    IN  Append(below.table,
               [tree EXCEPT
                   !.props = [name \in Names |->
                       IF name \in DOMAIN tree.props
                       THEN below.roots[CHOOSE i \in 1..P : names[i] = name] ELSE 0],
                   !.items = IF I = 0 THEN 0 ELSE below.roots[P + 1],
                   !.alts  = [i \in DOMAIN tree.alts |-> below.roots[P + I + i]]])

MCSchemas == {Grown(<<>>, tree) : tree \in Trees}
===============================================================================
