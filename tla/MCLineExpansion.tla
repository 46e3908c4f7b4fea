-------------------------- MODULE MCLineExpansion --------------------------
(***************************************************************************)
(* Files that declare an element, a marker and lines of up to two entries, *)
(* in lines up to three deep, reversed and not, then use one in whole or   *)
(* in part and attach samplers to it; and files that are in error.         *)
(***************************************************************************)
EXTENDS LineExpansion

Fwd(n) == [name |-> n, type |-> "line"]
Rev(n) == [name |-> n, type |-> "revline"]
Both(ns) == {Fwd(n) : n \in ns} \union {Rev(n) : n \in ns}
Lists(items) == {<<>>} \union {<<a>> : a \in items} \union {<<a, b>> : a \in items, b \in items}

Component(n, t) == [do |-> "component", name |-> n, type |-> t]
Line(n, lst) == [do |-> "line", name |-> n, lst |-> lst]
Like(n, of) == [do |-> "newinstance", name |-> n, of |-> of]
UseLine(n, s, e) == [do |-> "use", name |-> n, start |-> s, end |-> e]
Sample(n, k) == [do |-> "sample", name |-> n, count |-> k]
SampleEvery(t) == [do |-> "sampleall", type |-> t]

Declared == <<Component("d", "element"), Component("m", "marker")>>
Tunnels == {<<>>, <<Component("tunnel", "element")>>}
Elements == {Fwd("d"), Fwd("m")}
Ranges == {<<None, None>>, <<"d", "d">>, <<"m", "d">>, <<"d", "m">>, <<"m", "b">>}
Samples == {<<Sample("m", -1), Sample("d", 2)>>, <<Sample("d", -1), Sample("m", 1)>>,
            <<SampleEvery("marker")>>}

\* Nested lines, with nothing wrong in them.
FilesOf(as, bs, cs, ranges, samples) ==
    {Declared \o <<Line("a", a), Line("b", b), Line("c", c)>> \o <<UseLine("c", r[1], r[2])>> \o s :
        a \in as, b \in bs, c \in cs, r \in ranges, s \in samples}
Nested ==
    FilesOf({<<Fwd("d"), Fwd("m")>>, <<>>}, Lists(Elements \union Both({"a"})),
            {<<Fwd("b"), Rev("b"), Fwd("d")>>, <<Rev("b"), Fwd("m")>>},
            {<<None, None>>}, {<<SampleEvery("marker")>>})
        \union FilesOf({<<Fwd("m"), Fwd("d")>>},
                       Lists(Elements \union Both({"a"})),
                       {<<Fwd("b")>>, <<Fwd("b"), Rev("b")>>, <<Rev("b"), Fwd("d")>>},
                       Ranges, Samples)

\* Lines that hold themselves, undeclared names, names declared twice, lines
\* declared like others, and a tunnel.
Wrong ==
    {Declared \o t \o <<Line("a", a), l, Line("c", c), UseLine(u, None, None), SampleEvery(None)>> :
        t \in Tunnels,
        a \in Lists({Fwd("d"), Fwd("a"), Rev("b")}),
        l \in {Line("b", <<Fwd("a")>>), Line("b", <<Fwd("a"), Rev("a")>>), Like("b", "a"),
               Like("b", "d"), Like("b", "c"), Line("d", <<>>)},
        c \in {<<Fwd("b")>>, <<Fwd("d"), Rev("b")>>},
        u \in {"c", "b", "d"}}

\* Elements of both names in the line used and in a line in it.
InTwoDepths ==
    FilesOf({<<Fwd("m"), Fwd("d")>>}, Lists(Both({"a"})), {<<Rev("b"), Fwd("d")>>},
            {<<"m", "d">>, <<"d", "m">>}, Samples)

MCFiles == Nested \union Wrong
MCNames == {"d", "m", "a", "b", "c", "tunnel"}
=============================================================================
