--------------------------- MODULE LineExpansion ---------------------------
(***************************************************************************)
(* The parser's beam line: what GMAD::Parser keeps of the elements and     *)
(* lines an input file declares, how `use` and the end of the file turn a  *)
(* line of lines into a line of elements (Parser::expand_line), and how    *)
(* samplers are attached to it (Parser::set_sampler).                      *)
(*                                                                         *)
(* A FastList is a list with an index from names to the nodes that carry   *)
(* them.  The n-th element of a name is the n-th of the index.             *)
(***************************************************************************)
EXTENDS Integers, Sequences, FiniteSets, SequencesExt, OrderedSets

CONSTANTS
    Files,          \* the inputs: files, each a sequence of statements
    Names,          \* names of elements and lines
    Tunnel,         \* the name "tunnel"
    None,           \* no name; an absent list
    MaxIterations,  \* MAX_EXPAND_ITERATIONS
    MaxLength       \* bound: no memory for a longer line

\* Nodes of a line's own list: what "line=(a,-b)" holds before any lookup.
Items == [name : Names, type : {"line", "revline"}]
Types == {"element", "marker", "line", "revline"}

IsStatement(s) ==
    \/ s.do = "component" /\ s.name \in Names /\ s.type \in {"element", "marker"}
    \/ s.do = "line" /\ s.name \in Names /\ s.lst \in Seq(Items)
    \/ s.do = "newinstance" /\ s.name \in Names /\ s.of \in Names
    \/ /\ s.do = "use" /\ s.name \in Names
       /\ \/ s.start = None /\ s.end = None
          \/ s.start \in Names /\ s.end \in Names
    \/ s.do = "sample" /\ s.name \in Names /\ s.count \in {-1} \union Nat
    \/ s.do = "sampleall" /\ s.type \in {"element", "marker", None}

ASSUME FilesAssumption ==
    /\ \A f \in Files : Len(f) \in Nat /\ \A i \in 1..Len(f) : IsStatement(f[i])
    /\ MaxIterations \in Nat \ {0} /\ MaxLength \in Nat \ {0}
    /\ None \notin Names /\ None \notin Seq(Items)

VARIABLES
    file,           \* the input
    at,             \* the statement reached
    pc,             \* what the parser is doing
    defined,        \* element_list: a definition for each name
    sequences,      \* names of all lines declared
    beamline,       \* beamline_list
    expanded,       \* expandedSequences: a list for each line
    job,            \* the line being expanded: its name, range and destination
    target,         \* the list it is expanded into
    it,             \* the node reached in a pass over it
    isExpanded,     \* is_expanded
    iteration,      \* passes made
    reason          \* why the program stopped

expansion == <<job, target, it, isExpanded, iteration>>
vars == <<file, at, pc, defined, sequences, beamline, expanded, expansion, reason>>

-----------------------------------------------------------------------------
(* FastList *)
Empty == [list |-> <<>>, map |-> [n \in Names |-> <<>>]]
Ids(L) == {L.list[p].id : p \in 1..Len(L.list)}

\* What is put into a list.  The depth is history: of how many lines in lines.
Entry(name, type, depth) == [name |-> name, type |-> type, depth |-> depth]

\* A node is known by its address, which may be one used before.
LastId(L) == Max({0} \union Ids(L))
NewIds(L, es) == [i \in 1..Len(es) |-> LastId(L) + i]
NewNodes(L, es) ==
    [i \in 1..Len(es) |-> [id |-> NewIds(L, es)[i], name |-> es[i].name, type |-> es[i].type,
                           depth |-> es[i].depth, sampler |-> None]]
NewIdsOf(L, es, n) == AtPlaces(NewIds(L, es), {i \in 1..Len(es) : es[i].name = n})

Spliced(seq, from, to, new) == SubSeq(seq, 1, from - 1) \o new \o SubSeq(seq, to + 1, Len(seq))

\* Fault: the index gets the new nodes before those of the same name.
InsertAllFirst(L, pos, es) ==
    [list |-> Spliced(L.list, pos, pos - 1, NewNodes(L, es)),
     map  |-> [n \in Names |-> NewIdsOf(L, es, n) \o L.map[n]]]
\* Before the node at pos in the list, last among those of the name in the map.
InsertAll(L, pos, es) ==
    [list |-> Spliced(L.list, pos, pos - 1, NewNodes(L, es)),
     map  |-> [n \in Names |-> L.map[n] \o NewIdsOf(L, es, n)]]

PushBack(L, e) == InsertAll(L, Len(L.list) + 1, <<e>>)

\* Fault: of several nodes of a name the first entries of the map go.
EraseRangeFirst(L, from, to) ==
    [list |-> Spliced(L.list, from, to, <<>>),
     map  |-> [n \in Names |-> LET k == Cardinality({p \in from..to : L.list[p].name = n})
                               IN  SubSeq(L.map[n], k + 1, Len(L.map[n]))]]
EraseRange(L, from, to) ==
    [list |-> Spliced(L.list, from, to, <<>>),
     map  |-> [n \in Names |->
                  LET gone == {L.list[p].id : p \in from..to}
                  IN  AtPlaces(L.map[n], {k \in 1..Len(L.map[n]) : L.map[n][k] \notin gone})]]
Erase(L, pos) == EraseRange(L, pos, pos)

PositionOf(L, id) == CHOOSE p \in 1..Len(L.list) : L.list[p].id = id
Positions(L, name) == [k \in 1..Len(L.map[name]) |-> PositionOf(L, L.map[name][k])]

\* The position of the count-th node of a name, 0 for the end of the list.
Find(L, name, count) ==
    IF count \in 1..Len(L.map[name]) THEN Positions(L, name)[count] ELSE 0

-----------------------------------------------------------------------------
IsLine(type) == type \in {"line", "revline"}
IsSpecial(type) == type = "marker" \/ IsLine(type)
IsDefined(name) == name \in DOMAIN defined

Init ==
    /\ file \in Files
    /\ at = 1 /\ pc = "parse"
    /\ defined = [n \in {} |-> None] /\ sequences = <<>>
    /\ beamline = Empty /\ expanded = [n \in {} |-> Empty]
    /\ job = [name |-> None, start |-> None, end |-> None, into |-> "beamline"]
    /\ target = Empty /\ it = 2 /\ isExpanded = FALSE /\ iteration = 0
    /\ reason = None

Statement == file[at]
Reading(do) == pc = "parse" /\ at <= Len(file) /\ Statement.do = do

Exit(why) ==
    /\ pc' = "exit" /\ reason' = why
    /\ UNCHANGED <<file, at, defined, sequences, beamline, expanded, expansion>>

\* write_table: one definition for a name, whatever it is.
WriteTable(name, type, lst) ==
    IF IsDefined(name) THEN Exit("duplicate")
    ELSE /\ defined' = [n \in DOMAIN defined \union {name} |->
                            IF n = name THEN [type |-> type, lst |-> lst] ELSE defined[n]]
         /\ sequences' = IF lst = None THEN sequences ELSE Append(sequences, name)
         /\ at' = at + 1
         /\ UNCHANGED <<file, pc, beamline, expanded, expansion, reason>>

DeclareComponent ==
    Reading("component") /\ WriteTable(Statement.name, Statement.type, None)

DeclareLine ==
    Reading("line") /\ WriteTable(Statement.name, "line", Statement.lst)

\* An element declared like another takes its type, and never its list.
DeclareNewInstance ==
    /\ Reading("newinstance")
    /\ IF IsDefined(Statement.of)
       THEN WriteTable(Statement.name, defined[Statement.of].type, None)
       ELSE Exit("undefined")

-----------------------------------------------------------------------------
(* expand_line *)

Finish(list) ==
    /\ IF job'.into = "beamline"
       THEN beamline' = list /\ UNCHANGED expanded
       ELSE /\ expanded' = [n \in DOMAIN expanded \union {job'.name} |->
                                IF n = job'.name THEN list ELSE expanded[n]]
            /\ UNCHANGED beamline
    /\ at' = at + 1 /\ pc' = "parse"

\* The line itself is the first node, its own nodes follow.
ExpandLine(name, start, end, into) ==
    IF ~IsDefined(name) THEN Exit("undefined")
    ELSE IF ~IsLine(defined[name].type) THEN Exit("notline")
    ELSE LET header == PushBack(Empty, Entry(name, "line", 0))
             lst == defined[name].lst
         IN  /\ job' = [name |-> name, start |-> start, end |-> end, into |-> into]
             /\ it' = 2 /\ isExpanded' = TRUE /\ iteration' = 0
             /\ IF lst = None
                THEN target' = header /\ Finish(header)
                ELSE /\ target' = InsertAll(header, 2,
                                            [i \in 1..Len(lst) |-> Entry(lst[i].name, lst[i].type, 1)])
                     /\ pc' = "expand" /\ UNCHANGED <<at, beamline, expanded>>
             /\ UNCHANGED <<file, defined, sequences, reason>>

Use ==
    /\ Reading("use")
    /\ ExpandLine(Statement.name, Statement.start, Statement.end, "beamline")

\* After the last statement every line declared is expanded (expand_sequences).
ExpandSequence ==
    LET k == at - Len(file) IN
    /\ pc = "parse" /\ k \in 1..Len(sequences)
    /\ ExpandLine(sequences[k], None, None, "sequence")

Opposite(type) == IF type = "line" THEN "revline" ELSE "line"

\* Fault: the lines in a reversed line keep their direction.
ContentsForward(lst, type, depth) ==
    LET entries == [i \in 1..Len(lst) |-> Entry(lst[i].name, lst[i].type, depth)]
    IN  IF type = "line" THEN entries ELSE Reverse(entries)
\* What a node that names a line stands for.
Contents(lst, type, depth) ==
    IF type = "line" THEN [i \in 1..Len(lst) |-> Entry(lst[i].name, lst[i].type, depth)]
    ELSE Reverse([i \in 1..Len(lst) |-> Entry(lst[i].name, Opposite(lst[i].type), depth)])

\* One node of a pass.  What is put in place of a line waits for the next pass.
ExpandNode ==
    LET node == target.list[it]
        d == defined[node.name]
    IN
    /\ pc = "expand" /\ it <= Len(target.list)
    /\ IF ~IsLine(node.type)
       THEN /\ it' = it + 1
            /\ UNCHANGED <<pc, job, target, isExpanded, iteration, reason>>
            /\ UNCHANGED <<file, at, defined, sequences, beamline, expanded>>
       ELSE IF ~IsDefined(node.name) THEN Exit("undefined")
       ELSE IF d.lst # None /\ Len(target.list) + Len(d.lst) - 1 > MaxLength THEN Exit("memory")
       ELSE /\ isExpanded' = FALSE
            /\ IF d.lst # None
               THEN /\ target' = Erase(InsertAll(target, it, Contents(d.lst, node.type, node.depth + 1)),
                                       it + Len(d.lst))
                    /\ it' = it + Len(d.lst)
               ELSE /\ target' = [target EXCEPT !.list[it].type = d.type]
                    /\ it' = it + 1
            /\ UNCHANGED <<pc, job, iteration, reason>>
            /\ UNCHANGED <<file, at, defined, sequences, beamline, expanded>>

TooMany(n) == n > MaxIterations

EndPass ==
    /\ pc = "expand" /\ it > Len(target.list)
    /\ IF TooMany(iteration + 1) THEN Exit("loop")
       ELSE /\ iteration' = iteration + 1
            /\ IF isExpanded
               THEN pc' = "range" /\ UNCHANGED <<it, isExpanded>>
               ELSE it' = 2 /\ isExpanded' = TRUE /\ UNCHANGED pc
            /\ UNCHANGED <<job, target, reason>>
            /\ UNCHANGED <<file, at, defined, sequences, beamline, expanded>>

CutBefore(L, start) ==
    LET p == IF start = None THEN 0 ELSE Find(L, start, 1)
    IN  IF p = 0 THEN L ELSE EraseRange(L, 1, p - 1)

\* Fault: the last element of the range goes with what follows it.
CutFrom(L, end) ==
    LET p == IF end = None THEN 0 ELSE Find(L, end, 1)
    IN  IF p = 0 THEN L ELSE EraseRange(L, p, Len(L.list))
CutAfter(L, end) ==
    LET p == IF end = None THEN 0 ELSE Find(L, end, 1)
    IN  IF p = 0 THEN L ELSE EraseRange(L, p + 1, Len(L.list))

\* Only the range asked for is left; a tunnel ends every line.
KeepRange ==
    LET cut == CutAfter(CutBefore(target, job.start), job.end)
        list == IF IsDefined(Tunnel) THEN PushBack(cut, Entry(Tunnel, defined[Tunnel].type, 0))
                ELSE cut
    IN
    /\ pc = "range"
    /\ UNCHANGED <<job, it, isExpanded, iteration>>
    /\ target' = list /\ Finish(list)
    /\ UNCHANGED <<file, defined, sequences, reason>>

-----------------------------------------------------------------------------
(* set_sampler *)

\* Where the sampler of the node at p goes.  That of a marker goes to the last
\* real element before it; 1 then stands for there being none.
\* Fault: the element just before the marker, whatever it is.
CarrierJustBefore(L, p) == IF L.list[p].type = "marker" THEN p - 1 ELSE p
Carrier(L, p) ==
    IF L.list[p].type # "marker" THEN p
    ELSE SelectLastInSubSeq(L.list, 1, p - 1, LAMBDA e : ~IsSpecial(e.type))

\* The walk to it goes before the beginning of the list.
RunsOffTheList(L, p) == p = 1 /\ L.list[p].type = "marker"

\* The nodes that those at these positions put their samplers on.
Carriers(L, positions) ==
    {Carrier(L, p) : p \in {q \in positions : L.list[q].type = "marker" => Carrier(L, q) > 1}}

AttachTo(positions) ==
    IF \E p \in positions : RunsOffTheList(beamline, p)
    THEN /\ pc' = "undefined"
         /\ UNCHANGED <<file, at, defined, sequences, beamline, expanded, expansion, reason>>
    ELSE /\ beamline' = [beamline EXCEPT !.list =
                             [p \in 1..Len(@) |-> IF p \in Carriers(beamline, positions)
                                                  THEN [@[p] EXCEPT !.sampler = Statement.name]
                                                  ELSE @[p]]]
         /\ at' = at + 1
         /\ UNCHANGED <<file, pc, defined, sequences, expanded, expansion, reason>>

SampleInstances ==
    /\ Reading("sample") /\ Statement.count = -1
    /\ IF beamline.map[Statement.name] = <<>> THEN Exit("nosuch")
       ELSE AttachTo(ToSet(Positions(beamline, Statement.name)))

SampleInstance ==
    LET p == Find(beamline, Statement.name, Statement.count) IN
    /\ Reading("sample") /\ Statement.count # -1
    /\ IF p = 0 THEN Exit("nosuch") ELSE AttachTo({p})

SampleAll ==
    LET sampled(e) == ~IsLine(e.type) /\ Statement.type \in {None, e.type} IN
    /\ Reading("sampleall")
    /\ beamline' = [beamline EXCEPT !.list =
                        [p \in 1..Len(@) |->
                            LET e == beamline.list[p]
                            IN  [e EXCEPT !.sampler = IF sampled(e) THEN e.name ELSE @]]]
    /\ at' = at + 1
    /\ UNCHANGED <<file, pc, defined, sequences, expanded, expansion, reason>>

Stop ==
    /\ pc = "parse" /\ at > Len(file) + Len(sequences)
    /\ pc' = "done"
    /\ UNCHANGED <<file, at, defined, sequences, beamline, expanded, expansion, reason>>

Next ==
    \/ DeclareComponent \/ DeclareLine \/ DeclareNewInstance
    \/ Use \/ ExpandSequence \/ ExpandNode \/ EndPass \/ KeepRange
    \/ SampleInstances \/ SampleInstance \/ SampleAll
    \/ Stop

Spec == Init /\ [][Next]_vars

-----------------------------------------------------------------------------
(* What a line means, by the definitions alone *)

ListIn(table, name) == name \in DOMAIN table /\ table[name].lst # None
HasList(name) == ListIn(defined, name)
Turned(seq, type) == IF type = "line" THEN seq ELSE Reverse(seq)

\* The elements each name stands for down to n levels, each with its depth.
Flat(table) ==
    LET f[n \in 0..MaxIterations] ==
            [name \in Names |->
                IF ~ListIn(table, name) THEN <<[name |-> name, depth |-> MaxIterations - n]>>
                ELSE IF n = 0 THEN <<>>
                ELSE LET lst == table[name].lst
                     IN  FlattenSeq([i \in 1..Len(lst) |->
                                        Turned(f[n - 1][lst[i].name], lst[i].type)])]
    IN  f
Substituted(name) == Flat(defined)[MaxIterations][name]

\* The levels of lines below each name, looking n levels down; more than
\* MaxIterations for one that holds itself, or holds a line declared like another,
\* which has no list.
Height(table) ==
    LET h[n \in 0..(MaxIterations + 1)] ==
            [name \in Names |->
                IF ~ListIn(table, name)
                THEN IF name \in DOMAIN table /\ IsLine(table[name].type) THEN MaxIterations + 1 ELSE 1
                ELSE IF n = 0 THEN MaxIterations + 1
                ELSE LET lst == table[name].lst
                     IN  1 + Max({0} \union {h[n - 1][lst[i].name] : i \in 1..Len(lst)})]
    IN  h
Levels(name) == Height(defined)[MaxIterations + 1][name]

NamesOf(seq) == [i \in 1..Len(seq) |-> seq[i].name]

-----------------------------------------------------------------------------
(* Properties *)

\* The index of a list has each of its nodes once, under the node's name, and
\* nothing else: through insertions, replacements and erasures in any order
\* (FastList).
InStep(L) ==
    /\ \A p, q \in 1..Len(L.list) : L.list[p].id = L.list[q].id => p = q
    /\ \A n \in Names :
        /\ IsInjective(L.map[n])
        /\ ToSet(L.map[n]) = {L.list[p].id : p \in {q \in 1..Len(L.list) : L.list[q].name = n}}

\* The values of the variables, with every list and its index in step; the
\* parser only ever looks a node up by way of the index (FastList::find).
TypeOK ==
    /\ file \in Files /\ at \in Nat /\ it \in Nat /\ iteration \in 0..MaxIterations
    /\ pc \in {"parse", "expand", "range", "exit", "undefined", "done"}
    /\ \A n \in DOMAIN defined : defined[n].type \in Types \ {"revline"}
    /\ \A L \in {beamline, target} \union {expanded[n] : n \in DOMAIN expanded} :
        InStep(L) /\ \A p \in 1..Len(L.list) : L.list[p].type \in Types

\* Once expanded, a line is the line itself followed by the elements got by
\* putting for every name what it stands for, a reversed one back to front with
\* all that is in it; none of them is a line, and all were declared.  A line is
\* called recursive exactly if it is, or is nested deeper than the passes allow,
\* or holds a line declared like another (Parser::expand_line).
ExpandsToDefinition ==
    /\ pc = "exit" /\ reason = "loop" => Levels(job.name) > MaxIterations
    /\ pc = "range" =>
        /\ Levels(job.name) <= MaxIterations
        /\ \A p \in 1..Len(target.list) : IsDefined(target.list[p].name)
        /\ NamesOf(target.list) = <<job.name>> \o NamesOf(Substituted(job.name))
        /\ \A p \in 2..Len(target.list) : ~IsLine(target.list[p].type)
    /\ pc = "done" =>
        \A n \in ToSet(sequences) :
            NamesOf(expanded[n].list) = <<n>> \o NamesOf(Substituted(n))
                                            \o (IF IsDefined(Tunnel) THEN <<Tunnel>> ELSE <<>>)

\* The n-th instance of a name is counted by depth of nesting first and only then
\* along the line: an element of the line itself comes before one of a line in it
\* that precedes it (FastList::find, used by the range and by name[n] samplers).
InstancesByDepth ==
    pc = "range" =>
        LET depth(p) == IF p = 1 THEN 0 ELSE Substituted(job.name)[p - 1].depth
        IN  \A n \in Names : \A k, l \in 1..Len(target.map[n]) :
                LET p == Positions(target, n)[k]
                    q == Positions(target, n)[l]
                IN  k < l => depth(p) < depth(q) \/ (depth(p) = depth(q) /\ p < q)

\* The rule by which a line is cut to its range: "from first occurrence of 'start' till
\* first 'end' coming after 'start'" (parser.cc:436).  A name that is not there cuts nothing.
Places(line, name) == {p \in 1..Len(line) : line[p].name = name}
KeptByRule ==
    LET line == target.list
        starts == Places(line, job.start)
        from == IF starts = {} THEN 1 ELSE Min(starts)
        ends == {p \in Places(line, job.end) : p >= from}
        to == IF ends = {} THEN Len(line) ELSE Min(ends)
    IN  /\ IsPrefix(SubSeq(line, from, to), target'.list)
        /\ Len(target'.list) = to - from + 1 + (IF IsDefined(Tunnel) THEN 1 ELSE 0)

\* The instances of a name come in the index as they come along the line.
IndexedAlongLine(name) ==
    LET places == IF name = None THEN <<>> ELSE Positions(target, name)
    IN  \A k, l \in 1..Len(places) : k < l => places[k] < places[l]

\* A range of two names ("after" says nothing of one), or none.
IsOfTwoNames == job.start # job.end \/ job.start = None

\* The rule is kept where the two names of the range are indexed along the line: the
\* first erasure leaves the index such that the first end looked up is the first
\* after the start, in lines in lines, reversed, and with the line's own node ahead.
RangeKept ==
    [][pc = "range" /\ IsOfTwoNames /\ IndexedAlongLine(job.start) /\ IndexedAlongLine(job.end)
         => KeptByRule]_vars

\* A sampler has the name of the element that carries it, or of a marker that
\* follows this element with nothing but markers and lines between; and then the
\* element is a real one: a marker has a sampler only where all were sampled.  The
\* search for an element runs off the list only where a range has cut the line and
\* begins with a marker (Parser::set_sampler).
SamplersBesideTheirNames ==
    /\ pc = "undefined" => job.start # None /\ beamline.list[1].name = job.start
    /\ \A p \in 1..Len(beamline.list) :
        LET e == beamline.list[p] IN
        /\ e.type = "marker" /\ e.sampler # None =>
               \E i \in 1..(at - 1) : i <= Len(file) /\ file[i].do = "sampleall"
        /\ e.sampler \notin {None, e.name} =>
               /\ ~IsSpecial(e.type)
               /\ \E q \in (p + 1)..Len(beamline.list) :
                   /\ beamline.list[q].name = e.sampler /\ beamline.list[q].type = "marker"
                   /\ \A r \in (p + 1)..(q - 1) : IsSpecial(beamline.list[r].type)

-----------------------------------------------------------------------------
(* What a comment says, and the program does not do *)

\* The rule (parser.cc:436) for every range of two names, in whatever lines in lines
\* their instances are.
RangeByRule == [][pc = "range" /\ IsOfTwoNames => KeptByRule]_vars
=============================================================================
