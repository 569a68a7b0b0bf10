---------------------------- MODULE MCContainers ----------------------------
(***************************************************************************)
(* The containers of lib/core, the timer with its heap, XML and the memory  *)
(* allocators, for TLC.                                                    *)
(* They do not interact: a behaviour is one of the component named in      *)
(* "unit", and the others stay as they were created.                       *)
(***************************************************************************)
EXTENDS SearchTrees, ShmHash, Timer, Xml, Allocators, MemSegRef

VARIABLE unit       \* the component in use

a_Interval == [a |-> 1, b |-> 1, c |-> 2, d |-> 3, e |-> 3]

\* Pieces of XML documents, some with decoration that the tree does not keep.
Piece(k, text, says) == [kind |-> k, text |-> text, says |-> says]
Plain(k, text) == Piece(k, text, text)

a_Pieces == {
    Plain("open", <<"<", "a">>),
    Plain("open", <<"<", "b">>),
    Plain("open", <<"<", "a", ">", "<", "a", ">", "<", "a">>),
    Plain("attr", <<" ", "c", "=", "\"", "w", "\"">>),
    Piece("attr", <<"\n", "c", " ", "=", " ", "'", "w", " ", "<", "'">>,
                  <<" ", "c", "=", "\"", "w", " ", "<", "\"">>),
    Plain("end", <<">">>),
    Piece("end", <<" ", "/", ">">>, <<"/", ">">>),
    Piece("text", <<" ", "v", " ", "v", "\n">>, <<"v", " ", "v">>),
    Piece("text", <<"\"", "v", "\"", " ">>, <<"v">>),
    Plain("close", <<"<", "/", "a", ">">>),
    Plain("close", <<"<", "/", "b", ">">>),
    Piece("note", <<"<", "!", "-", "-", " ", "<", "-", "-", ">">>, <<>>),
    Piece("note", <<"<", "?", "xml", " ", "v", "=", "\"", "v", "\"", "?", ">">>, <<>>)}

a_MaxLive == [slab |-> 5, shm_slab |-> 4, mem_pool |-> 4]

vars == <<unit, treeVars, listVars, hashVars, timerVars, xmlVars, allocVars, segVars>>

\* Calls nothing in the repository makes; both leave a list that is not a list
\* (see "What is left out" in the README).
Unused == {<<"list", "find_and_del">>, <<"shm_list", "delete">>}

Init ==
    /\ TreesInit
    /\ ListInit
    /\ HashInit
    /\ TimerInit
    /\ XmlInit
    /\ AllocInit
    /\ MemSegRefInit
    /\ unit \in {"trees", "lists", "hash", "timer", "xml", "memory", "seg_ref"}
    /\ unit # "trees" => tree = "avl"
    /\ unit # "lists" => kind = "list"
    /\ unit # "memory" => alloc = "slab"

Next ==
    /\ UNCHANGED unit
    /\ \/ /\ unit = "trees" /\ TreesNext
          /\ UNCHANGED <<listVars, hashVars, timerVars, xmlVars, allocVars, segVars>>
       \/ /\ unit = "lists" /\ ListNext
          /\ UNCHANGED <<treeVars, hashVars, timerVars, xmlVars, allocVars, segVars>>
       \/ /\ unit = "hash" /\ HashNext
          /\ UNCHANGED <<treeVars, listVars, timerVars, xmlVars, allocVars, segVars>>
       \/ /\ unit = "timer" /\ TimerNext
          /\ UNCHANGED <<treeVars, listVars, hashVars, xmlVars, allocVars, segVars>>
       \/ /\ unit = "xml" /\ XmlNext
          /\ UNCHANGED <<treeVars, listVars, hashVars, timerVars, allocVars, segVars>>
       \/ /\ unit = "seg_ref" /\ MemSegRefNext
          /\ UNCHANGED <<treeVars, listVars, hashVars, timerVars, xmlVars, allocVars>>
       \/ /\ unit = "memory" /\ AllocNext
          /\ UNCHANGED <<treeVars, listVars, hashVars, timerVars, xmlVars, segVars>>

\* The pointers of the containers agree after any calls: the trees keep their rule
\* of balance, the lists their chain, count and tail, and the hash table in shared
\* memory finds what was pushed, and has a node for it.
WellFormed ==
    /\ unit = "trees" => Balanced
    /\ unit = "lists" => Linked
    /\ unit = "hash" => HashExact

\* Memory is handed out once, and given back once: the allocators, and the segments
\* with counted references.
MemoryKept ==
    /\ unit = "memory" => MemoryExact
    /\ unit = "seg_ref" => SegsExact

\* The trees implement a set of keys, and the lists a sequence.
Implements == [][(unit = "trees" => DictStep) /\ (unit = "lists" => DequeStep)]_vars

Spec == Init /\ [][Next]_vars
=============================================================================
