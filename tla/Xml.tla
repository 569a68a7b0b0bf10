-------------------------------- MODULE Xml --------------------------------
(***************************************************************************)
(* The XML parser of lib/core (xml_comm.c) and the life of a tree: a       *)
(* document is written piece by piece and parsed, or a tree is created     *)
(* empty; it is edited, and in every state it can be printed, measured,    *)
(* searched and freed.                                                     *)
(***************************************************************************)
EXTENDS XmlTree

CONSTANTS
    Names,          \* characters a name can have
    Pieces,         \* pieces of documents: kind, characters, and what they say without decoration
    MaxPieces,      \* bound: pieces of a document
    MaxNodes,       \* bound: nodes of a tree that is edited
    MaxEdits        \* bound: edits of a parsed tree

VARIABLES
    doc,        \* the pieces of the document
    xml,        \* the tree, or <<>> when there is none
    edits       \* edits since the tree was parsed

xmlVars == <<doc, xml, edits>>

Text(d) == FlattenSeq([k \in 1..Len(d) |-> d[k].text])
-----------------------------------------------------------------------------
(* The parser.  A parse is the place it has come to, the stack and the     *)
(* tree; "ok" is FALSE once it has failed, and the tree is then destroyed. *)

Char(s, i) == IF i > Len(s) THEN "" ELSE s[i]
Ignored == {" ", "\t", "\n"}
Quotes == {"\"", "'"}
Letters == Names \cup {"-", "xml"}

\* The first place from i on with a character outside the set; inside the set or at
\* the end.
Skip(s, i, S) == CHOOSE j \in i..(Len(s) + 1) : Char(s, j) \notin S /\ \A k \in i..(j - 1) : Char(s, k) \in S
Seek(s, i, S) ==
    CHOOSE j \in i..(Len(s) + 1) :
        Char(s, j) \in S \cup {""} /\ \A k \in i..(j - 1) : Char(s, k) \notin S

Fail(p) == [p EXCEPT !.ok = FALSE]
At(p, i) == [p EXCEPT !.at = i]

\* One attribute of "<?xml ", from a place that is not a space.
RECURSIVE VersionAttrs(_, _)
VersionAttrs(s, p) ==
    LET name == Skip(s, p.at, Letters)
        open == Skip(s, name + 1, Ignored)
        close == Seek(s, open + 1, {Char(s, open)})
    IN  IF Char(s, p.at) \in {"?", ""} THEN p
        ELSE IF name = p.at \/ Char(s, name) # "=" THEN Fail(p)
        ELSE IF Char(s, open) \notin Quotes THEN Fail(At(p, open))
        ELSE IF Char(s, close) = "" THEN Fail(At(p, close))
        ELSE VersionAttrs(s, At(p, Skip(s, close + 1, Ignored)))

ParseVersion(s, p) ==
    LET q == VersionAttrs(s, At(p, Skip(s, p.at + 4, Ignored)))
    IN  IF SubSeq(s, p.at, p.at + 3) # <<"<", "?", "xml", " ">> THEN Fail(p)
        ELSE IF ~q.ok THEN q
        ELSE IF Char(s, q.at) = "?" /\ Char(s, q.at + 1) = ">" THEN At(q, q.at + 2) ELSE Fail(q)

ParseNote(s, p) ==
    LET Ends == {j \in (p.at + 4)..(Len(s) - 1) : s[j] = "-" /\ s[j + 1] = "-"}
        end == CHOOSE j \in Ends : \A k \in Ends : j <= k
    IN  IF SubSeq(s, p.at, p.at + 3) # <<"<", "!", "-", "-">> THEN Fail(p)
        ELSE IF Ends = {} THEN Fail(At(p, Len(s) + 1))
        ELSE IF Char(s, end + 2) # ">" THEN Fail(At(p, end + 2))
        ELSE At(p, end + 3)

\* The new node goes below the top of the stack, and on it.
GetName(s, p) ==
    LET end == Skip(s, p.at, Letters)
        top == IF p.stack = <<>> THEN Root ELSE Last(p.stack)
    IN  IF Char(s, end) \notin Ignored \cup {"/", ">"} THEN Fail(At(p, end))
        ELSE IF Len(p.stack) >= XmlMaxDepth THEN Fail(p)
        ELSE [p EXCEPT !.at = end, !.stack = Append(@, Len(p.t) + 1),
                       !.t = AddChild(@, top, SubSeq(s, p.at, end - 1), <<>>)]

HasAttr(s, p) == Char(s, p.at) \in Letters

RECURSIVE GetAttr(_, _)
GetAttr(s, p) ==
    LET name == Skip(s, p.at, Letters)
        equal == Skip(s, name, Ignored)
        open == Skip(s, equal + 1, Ignored)
        close == Seek(s, open + 1, {Char(s, open)})
        top == Last(p.stack)
        n == Len(p.t) + 1
        attr == NewNode("attr", SubSeq(s, p.at, name - 1), SubSeq(s, open + 1, close - 1))
        u == LinkLast(Append(p.t, attr), top, n)
        q == [p EXCEPT !.at = Skip(s, close + 1, Ignored), !.t = [u EXCEPT ![top].flag = @ \cup {"attr"}]]
    IN  IF Char(s, equal) # "=" THEN Fail(At(p, equal))
        ELSE IF Char(s, open) \notin Quotes THEN Fail(At(p, open))
        ELSE IF Char(s, close) = "" THEN Fail(At(p, close))
        ELSE IF HasAttr(s, q) THEN GetAttr(s, q) ELSE q

\* The value ends before the next "<", without the space there, or at the quote it
\* began with, and then nothing but space may stand before the next "<".
GetValue(s, p) ==
    LET quoted == Char(s, p.at) \in Quotes
        from == IF quoted THEN p.at + 1 ELSE p.at
        end == Seek(s, from, IF quoted THEN {Char(s, p.at)} ELSE {"<"})
        to == IF quoted THEN end - 1
              ELSE CHOOSE k \in from..(end - 1) :
                       s[k] \notin Ignored /\ \A i \in (k + 1)..(end - 1) : s[i] \in Ignored
        next == IF quoted THEN Skip(s, end + 1, Ignored) ELSE end
        top == Last(p.stack)
    IN  IF Char(s, end) = "" THEN Fail(At(p, end))
        ELSE IF Char(s, next) # "<" THEN Fail(At(p, next))
        ELSE [p EXCEPT !.at = next,
                       !.t[top] = [@ EXCEPT !.value = SubSeq(s, from, to), !.flag = @ \cup {"value"}]]

IsEnd(s, p) == Char(s, p.at) = "/" /\ Char(s, p.at + 1) = ">"
HasValue(s, p) == Char(s, p.at) # "<"

\* The end of an element, or of its tag and then a value.
MarkEnd(s, p) ==
    LET inside == At(p, Skip(s, p.at + 1, Ignored))
    IN  IF ~p.ok THEN p
        ELSE IF IsEnd(s, p) THEN [p EXCEPT !.at = @ + 2, !.stack = Front(@)]
        ELSE IF Char(s, p.at) # ">"
        THEN Fail(IF Char(s, p.at) = "/" THEN At(p, p.at + 1) ELSE p)
        ELSE IF HasValue(s, inside) THEN GetValue(s, inside) ELSE inside

Attributes(s, p) == IF HasAttr(s, p) THEN GetAttr(s, p) ELSE p

\* "<a", its attributes, and the end.
ParseMark(s, p) ==
    LET named == GetName(s, At(p, p.at + 1))
    IN  IF ~named.ok THEN named
        ELSE MarkEnd(s, Attributes(s, At(named, Skip(s, named.at, Ignored))))

\* "</a>" closes the element on top of the stack, which has that name.
ParseEnd(s, p) ==
    LET from == p.at + 2
        end == Skip(s, from, Letters)
    IN  IF Char(s, end) # ">" THEN Fail(At(p, end))
        ELSE IF p.stack = <<>> \/ p.t[Last(p.stack)].name # SubSeq(s, from, end - 1) THEN Fail(p)
        ELSE [p EXCEPT !.at = end + 1, !.stack = Front(@)]

RECURSIVE ParseFrom(_, _)
ParseFrom(s, p) ==
    LET i == Skip(s, p.at, Ignored)
        q == At(p, i)
        c == Char(s, i + 1)
    IN  IF ~p.ok THEN p
        ELSE IF i > Len(s) THEN IF p.stack = <<>> THEN q ELSE Fail(q)
        ELSE IF s[i] # "<" THEN Fail(q)
        ELSE ParseFrom(s, CASE c = "?" -> ParseVersion(s, q)
                            [] c = "!" -> ParseNote(s, q)
                            [] c = "/" -> ParseEnd(s, q)
                            [] OTHER   -> ParseMark(s, q))

\* xml_screat: the tree of a text, or of no text.
Parse(s) == ParseFrom(s, [ok |-> TRUE, at |-> 1, stack |-> <<>>, t |-> NewTree])
-----------------------------------------------------------------------------
XmlInit == doc = <<>> /\ xml = <<>> /\ edits = 0

\* The document grows as long as what there is can still become one that is read: the
\* parse fails at its end or not at all.  Attributes and ends are written into tags,
\* and text in one piece.
WriteDoc(x) ==
    /\ xml = <<>> /\ Len(doc) < MaxPieces
    /\ x.kind \in {"attr", "end"} => doc # <<>> /\ Last(doc).kind \in {"open", "attr"}
    /\ x.kind = "text" => doc # <<>> /\ Last(doc).kind # "text"
    /\ LET p == Parse(Text(doc)) IN p.ok \/ p.at > Len(Text(doc))
    /\ doc' = Append(doc, x)
    /\ UNCHANGED <<xml, edits>>

Empty == doc = <<>> /\ xml = <<>> /\ xml' = NewTree /\ UNCHANGED <<doc, edits>>

\* xml_creat: a document that is not accepted leaves no tree, and another may follow.
Creat ==
    /\ doc # <<>> /\ xml = <<>>
    /\ LET p == Parse(Text(doc))
       IN  IF p.ok THEN xml' = p.t /\ doc' = doc ELSE xml' = <<>> /\ doc' = <<>>
    /\ UNCHANGED edits

Destroy == xml # <<>> /\ xml' = <<>> /\ doc' = <<>> /\ edits' = 0

Live(t) == {n \in 1..Len(t) : t[n].type # "free"}

\* xml_add_child, xml_add_attr, xml_set_value, and xml_node_free of a part that the
\* stack has room for.
Edited(t) ==
    {AddChild(t, n, <<"a">>, v) : n \in {m \in Live(t) : t[m].type # "attr"}, v \in {<<>>, <<"v">>}}
    \cup {AddAttr(t, n, <<"c">>, <<"w">>) : n \in {m \in Live(t) : t[m].type = "child"}}
    \cup {SetValue(t, n, v) : n \in Live(t) \ {Root}, v \in {<<>>, <<"v">>}}
    \cup {Free(t, n) : n \in {m \in Live(t) \ {Root} : ~TooDeep(t, m)}}

Edit ==
    /\ xml # <<>>
    /\ edits < MaxEdits \/ doc = <<>>
    /\ \E t \in Edited(xml) : Len(t) <= (IF doc = <<>> THEN MaxNodes ELSE Len(t)) /\ xml' = t
    /\ edits' = IF doc = <<>> THEN edits ELSE edits + 1
    /\ UNCHANGED doc

XmlNext == (\E x \in Pieces : WriteDoc(x)) \/ Empty \/ Creat \/ Edit \/ Destroy
-----------------------------------------------------------------------------
\* A tree apart from where its nodes are.
RECURSIVE View(_, _)
View(t, n) ==
    [type |-> t[n].type, name |-> t[n].name, value |-> t[n].value,
     kids |-> [k \in 1..Len(ListOf(t, n)) |-> View(t, ListOf(t, n)[k])]]

\* The format can carry the values: there are no escapes, and space around a value is
\* not part of it.
Carried(t) ==
    \A n \in Live(t) :
        LET v == t[n].value
        IN  IF IsAttr(t, n) THEN "\"" \notin ToSet(v)
            ELSE v # <<>> => /\ v[1] \notin Ignored \cup Quotes
                             /\ Last(v) \notin Ignored /\ "<" \notin ToSet(v)

\* Elements that still claim to have a child when the only one they had is gone
\* (xml_comm.c:1174-1185).
Childless(t) ==
    {n \in Live(t) \ {Root} : Has(t, n, "child") /\ \A k \in ToSet(ListOf(t, n)) : IsAttr(t, k)}

\* Those among them without a value: "<a/>" is followed by "</a>" (xml_print.c:516).
TwiceClosed(t) == {n \in Childless(t) : ~Has(t, n, "value")}

\* The printers and their lengths start below the root.
Prints(t) == \A n \in ToSet(ListOf(t, Root)) : ~TooDeep(t, n)

\* What a document says, piece by piece: decoration is dropped, and an element with
\* nothing inside is closed at once.
RECURSIVE Canon(_)
Canon(d) ==
    IF d = <<>> THEN <<>>
    ELSE IF Len(d) > 1 /\ d[1].says = <<">">> /\ d[2].kind = "close"
         THEN <<"/", ">">> \o Canon(SubSeq(d, 3, Len(d)))
         ELSE d[1].says \o Canon(Tail(d))

Said(d) == Canon(SelectSeq(d, LAMBDA x : x.says # <<>>))

Path(t, n) == IF t[n].parent = NoNode THEN <<>> ELSE t[n].name

\* A tree is read back from what it prints, in both forms; an element that is closed
\* twice makes it a text that is refused (xml_sprint, xml_spack).
ReadBack(t) ==
    \A text \in {Spack(t), Sprint(t)} :
        LET p == Parse(text)
        IN  IF TwiceClosed(t) = {} THEN p.ok /\ View(p.t, Root) = View(t, Root) ELSE ~p.ok

\* The lengths are those of what is printed; only that of the form with tabs may be
\* more, where an element lost its child (_xml_node_len, _xml_pack_len).
Measured(t) ==
    /\ PackLen(t) = Len(Spack(t))
    /\ \A n \in ToSet(ListOf(t, Root)) :
          /\ NodeLen(t, n) >= Len(SprintTree(t, n))
          /\ Childless(t) = {} => NodeLen(t, n) = Len(SprintTree(t, n))

\* What a search finds has the names of the path (xml_search).
Searched(t) ==
    \A path \in {<<<<"a">>>>, <<<<"a">>, <<"c">>>>, <<<<"a">>, <<"a">>>>} :
        LET n == Search(t, Root, path)
        IN  n # NoNode => /\ t[n].name = Last(path)
                          /\ Len(path) = 2 => Path(t, t[n].parent) = path[1]

\* Freeing the tree frees every node once (xml_node_free).
FreedOnce(t) ==
    /\ ToSet(Freed(t, Root)) = Live(t)
    /\ Len(Freed(t, Root)) = Cardinality(Live(t))

\* A document that is accepted says what the tree says and can be printed, whatever its
\* depth; a tree is printed as it is measured, and read back unless it lost an only
\* child; searches find what they ask for; and a tree is freed as a whole, if the root
\* leaves room for its levels on the stack.
XmlExact ==
    xml # <<>> =>
        /\ doc # <<>> /\ edits = 0 => Prints(xml) /\ Childless(xml) = {} /\ Spack(xml) = Said(doc)
        /\ Prints(xml) => Measured(xml) /\ (Carried(xml) => ReadBack(xml))
        /\ Searched(xml)
        /\ ~TooDeep(xml, Root) => FreedOnce(xml)
=============================================================================
