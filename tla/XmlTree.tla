------------------------------ MODULE XmlTree ------------------------------
(***************************************************************************)
(* The XML tree of lib/core (xml_tree.c, xml_comm.c, xml_print.c): nodes   *)
(* with a list of attributes and children, edited, walked with a stack,    *)
(* printed in two forms, measured, searched and freed.  A tree is a        *)
(* sequence of nodes; a node is named by its place in it, 0 is the null    *)
(* pointer and 1 the root.  A text is a sequence of characters; a name is  *)
(* one too.  Escapes are not built (make/options.mak).  No allocation      *)
(* fails.  The module has RECURSIVE operators and is for TLC only.         *)
(***************************************************************************)
EXTENDS Integers, Sequences, FiniteSets, SequencesExt

CONSTANT XmlMaxDepth    \* XML_MAX_DEPTH

NoNode == 0
Root == 1

\* xml_node_init, and xml_node_creat_ext with the name and the value.
NewNode(type, name, value) ==
    [type |-> type, name |-> name, value |-> value, parent |-> NoNode, child |-> NoNode,
     tail |-> NoNode, next |-> NoNode,
     flag |-> IF type = "attr" \/ value # <<>> THEN {"value"} ELSE {}]

NewTree == <<[NewNode("root", <<>>, <<>>) EXCEPT !.flag = {}]>>

IsAttr(t, n) == n # NoNode /\ t[n].type = "attr"
Has(t, n, f) == f \in t[n].flag
-----------------------------------------------------------------------------
(* Editing.                                                                *)

\* A new last node of the list of p; the node has been appended to the tree.
LinkLast(t, p, n) ==
    LET u == [t EXCEPT ![n].parent = p]
        v == IF t[p].tail = NoNode THEN [u EXCEPT ![p].child = n]
             ELSE [u EXCEPT ![t[p].tail].next = n]
    IN  [v EXCEPT ![p].tail = n]

AddChild(t, p, name, value) ==
    LET n == Len(t) + 1
        u == LinkLast(Append(t, NewNode("child", name, value)), p, n)
    IN  [u EXCEPT ![p].flag = @ \cup {"child"}]

\* The last of the attributes that a list begins with.
RECURSIVE LastAttr(_, _)
LastAttr(t, link) == IF IsAttr(t, t[link].next) THEN LastAttr(t, t[link].next) ELSE link

\* Attributes stand before the children.  (The last branch of the code, for a node
\* with a list and neither flag, is not reached: every listed node has set one.)
AddAttr(t, p, name, value) ==
    LET n == Len(t) + 1
        u == Append(t, NewNode("attr", name, value))
        prev == LastAttr(t, t[p].child)
        v == CASE t[p].child = NoNode \/ (Has(t, p, "attr") /\ IsAttr(t, t[p].tail)) ->
                    LinkLast(u, p, n)
               [] Has(t, p, "attr") /\ t[p].child # NoNode /\ ~IsAttr(t, t[p].tail) ->
                    [u EXCEPT ![n] = [@ EXCEPT !.parent = p, !.next = t[prev].next], ![prev].next = n]
               [] OTHER ->
                    [u EXCEPT ![n] = [@ EXCEPT !.parent = p, !.next = t[p].child], ![p].child = n]
    IN  [v EXCEPT ![p].flag = @ \cup {"attr"}]

SetValue(t, n, value) ==
    [t EXCEPT ![n] = [@ EXCEPT !.value = value,
                               !.flag = IF value # <<>> \/ t[n].type = "attr"
                                        THEN @ \cup {"value"} ELSE @ \ {"value"}]]

RECURSIVE Before(_, _, _)
Before(t, p1, n) == IF t[p1].next = n THEN p1 ELSE Before(t, t[p1].next, n)

\* Mutant: the tail stays at the node that is taken out of the list.
DeleteChildTail(t, p, n) ==
    LET prev == Before(t, t[p].child, n)
    IN  IF t[p].child = n
        THEN [t EXCEPT ![p] = [@ EXCEPT !.child = t[n].next]]
        ELSE [t EXCEPT ![prev].next = t[n].next]

\* The node is taken out of the list of its parent, with the flags the code clears
\* (when the only child goes, the flag for children stays).
DeleteChild(t, p, n) ==
    LET next == t[n].next
        prev == Before(t, t[p].child, n)
        lost == IF t[p].child = n
                THEN IF IsAttr(t, n) /\ ~IsAttr(t, next) THEN {"attr"} ELSE {}
                ELSE IF next = NoNode /\ ~IsAttr(t, n) /\ IsAttr(t, prev) THEN {"child"} ELSE {}
        cut == [t EXCEPT ![p].flag = @ \ lost]
    IN  IF t[p].child = n
        THEN [cut EXCEPT ![p] = [@ EXCEPT !.child = next, !.tail = IF next = NoNode THEN NoNode ELSE @]]
        ELSE [cut EXCEPT ![prev].next = next,
                         ![p] = [@ EXCEPT !.tail = IF @ = n THEN prev ELSE @]]
-----------------------------------------------------------------------------
(* Walks.  Each visits a node after pushing it, descends to its first      *)
(* child, and pops when there is none; the printers show a closing tag at  *)
(* a pop, where the depth is taken before or after it.                     *)

\* The node the pointer temp stands at once the attributes are done.
First(t, n) ==
    IF ~Has(t, n, "attr") THEN t[n].child
    ELSE IF ~IsAttr(t, t[n].child) THEN t[n].child
    ELSE t[LastAttr(t, t[n].child)].next

Opened(n, depth) == [open |-> TRUE, node |-> n, tabs |-> depth - 1, len |-> depth - 1]
Closed(n, tabs, len) == [open |-> FALSE, node |-> n, tabs |-> tabs, len |-> len]

\* What is done when the stack has been popped down to "stack", and its last node,
\* "top", is popped too.
RECURSIVE Visit(_, _, _), Pop(_, _, _, _)
Pop(t, top, rest, shown) ==
    shown \o IF rest = <<>> THEN <<>>
             ELSE IF t[top].next # NoNode THEN Visit(t, t[top].next, rest)
             ELSE LET up == Last(rest)
                      left == Front(rest)
                  IN  Pop(t, up, left, IF Has(t, up, "child")
                                       THEN <<Closed(up, Len(left), Len(left))>> ELSE <<>>)

Visit(t, n, stack) ==
    LET first == First(t, n)
        depth == Len(stack) + 1
        two(d) == IF d > 2 THEN d - 2 ELSE 0
    IN  <<Opened(n, depth)>> \o
        IF first # NoNode THEN Visit(t, first, Append(stack, n))
        ELSE Pop(t, n, stack, IF Has(t, n, "child")
                              THEN <<Closed(n, two(depth - 1), two(depth))>> ELSE <<>>)

Walked(t, n) == Visit(t, n, <<>>)

\* The stack takes XML_MAX_DEPTH nodes; a walk that goes deeper fails.
TooDeep(t, n) ==
    \E k \in 1..Len(Walked(t, n)) :
        Walked(t, n)[k].open /\ Walked(t, n)[k].tabs >= XmlMaxDepth

RECURSIVE Listed(_, _)
Listed(t, n) == IF n = NoNode THEN <<>> ELSE <<n>> \o Listed(t, t[n].next)
ListOf(t, n) == Listed(t, t[n].child)
-----------------------------------------------------------------------------
(* The four walks.  xml_sprint and xml_fprint show tabs and line ends,      *)
(* xml_pack does not; xml_node_len and _xml_pack_len add up their lengths. *)

AttrsOf(t, n) == IF Has(t, n, "attr") THEN SelectSeq(ListOf(t, n), LAMBDA a : IsAttr(t, a)) ELSE <<>>

Attrs(t, n) ==
    FlattenSeq([k \in 1..Len(AttrsOf(t, n)) |->
        LET a == t[AttrsOf(t, n)[k]]
        IN  <<" ">> \o a.name \o <<"=", "\"">> \o a.value \o <<"\"">>])

EndTag(t, n) == <<"<", "/">> \o t[n].name \o <<">">>

Value(t, n) ==
    IF Has(t, n, "value")
    THEN <<">">> \o t[n].value \o (IF Has(t, n, "child") THEN <<>> ELSE EndTag(t, n))
    ELSE IF First(t, n) # NoNode THEN <<">">> ELSE <<"/", ">">>

\* What xml_pack shows at one step of its walk.
Packed(t, e) ==
    IF e.open THEN <<"<">> \o t[e.node].name \o Attrs(t, e.node) \o Value(t, e.node)
    ELSE EndTag(t, e.node)

\* What xml_sprint shows.
Shown(t, e) == [i \in 1..e.tabs |-> "\t"] \o Packed(t, e) \o <<"\n">>

SumOf(s) == FoldLeft(LAMBDA x, y : x + y, 0, s)

AttrsLen(t, n) ==
    SumOf([k \in 1..Len(AttrsOf(t, n)) |->
        Len(t[AttrsOf(t, n)[k]].name) + Len(t[AttrsOf(t, n)[k]].value) + 4])

ValueLen(t, n) ==
    IF Has(t, n, "value")
    THEN Len(t[n].value) + IF Has(t, n, "child") THEN 1 ELSE Len(t[n].name) + 4
    ELSE IF First(t, n) # NoNode THEN 1 ELSE 2

PackedLen(t, e) ==
    Len(t[e.node].name) + IF e.open THEN 1 + AttrsLen(t, e.node) + ValueLen(t, e.node) ELSE 3

ShownLen(t, e) == e.len + PackedLen(t, e) + 1

\* The trees of nodes, and below the root one after the other.
PackTree(t, n) == FlattenSeq([k \in 1..Len(Walked(t, n)) |-> Packed(t, Walked(t, n)[k])])
SprintTree(t, n) == FlattenSeq([k \in 1..Len(Walked(t, n)) |-> Shown(t, Walked(t, n)[k])])
PackNodeLen(t, n) == SumOf([k \in 1..Len(Walked(t, n)) |-> PackedLen(t, Walked(t, n)[k])])
NodeLen(t, n) == SumOf([k \in 1..Len(Walked(t, n)) |-> ShownLen(t, Walked(t, n)[k])])

Spack(t) == FlattenSeq([k \in 1..Len(ListOf(t, Root)) |-> PackTree(t, ListOf(t, Root)[k])])
Sprint(t) == FlattenSeq([k \in 1..Len(ListOf(t, Root)) |-> SprintTree(t, ListOf(t, Root)[k])])
PackLen(t) == SumOf([k \in 1..Len(ListOf(t, Root)) |-> PackNodeLen(t, ListOf(t, Root)[k])])
-----------------------------------------------------------------------------
(* Searching and freeing.                                                  *)

\* The first node of a list with the name, attributes included; a path is followed
\* from the first match only.
Match(t, list, name) == SelectSeq(list, LAMBDA n : t[n].name = name)

RECURSIVE Search(_, _, _)
Search(t, n, path) ==
    IF path = <<>> THEN n
    ELSE LET found == Match(t, ListOf(t, n), Head(path))
         IN  IF found = <<>> THEN NoNode ELSE Search(t, Head(found), Tail(path))

\* xml_node_free below the list of the parent: attributes are freed at the visit,
\* the node itself when it is popped.
RECURSIVE FreeFrom(_, _, _), FreePop(_, _, _)
FreePop(t, top, rest) ==
    <<top>> \o IF rest = <<>> THEN <<>>
               ELSE IF t[top].next # NoNode THEN FreeFrom(t, t[top].next, rest)
               ELSE FreePop(t, Last(rest), Front(rest))

FreeFrom(t, n, stack) ==
    AttrsOf(t, n) \o
    IF First(t, n) # NoNode THEN FreeFrom(t, First(t, n), Append(stack, n))
    ELSE FreePop(t, n, stack)

\* The nodes freed, in order.
Freed(t, n) == FreeFrom(t, n, <<>>)

Free(t, n) ==
    LET gone == ToSet(Freed(t, n))
        u == DeleteChild(t, t[n].parent, n)
    IN  [k \in 1..Len(t) |-> IF k \in gone THEN [u[k] EXCEPT !.type = "free"] ELSE u[k]]
=============================================================================
