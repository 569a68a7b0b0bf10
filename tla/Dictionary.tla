----------------------------- MODULE Dictionary -----------------------------
(***************************************************************************)
(* What a search tree promises its callers: a set of keys.  An insertion   *)
(* adds its key, or is refused for want of memory and changes nothing; it  *)
(* says that a key exists only when it does.  A removal takes its key out  *)
(* and hands back what was stored with it, or nothing when it is absent.   *)
(***************************************************************************)
CONSTANT Keys

VARIABLES
    keys,       \* the keys stored
    answer      \* the answer to the last call

Answer(op, key, ret) == [op |-> op, key |-> key, ret |-> ret]

Init ==
    /\ keys = {}
    /\ answer = Answer("creat", 0, "ok")

Insert(key) ==
    \/ /\ answer' = Answer("insert", key, "ok")
       /\ keys' = keys \cup {key}
    \/ /\ answer' = Answer("insert", key, "exist")
       /\ key \in keys
       /\ keys' = keys
    \/ /\ answer' = Answer("insert", key, "err")
       /\ keys' = keys

Remove(key) ==
    \/ /\ answer' = Answer("remove", key, "ok")
       /\ key \in keys
       /\ keys' = keys \ {key}
    \/ /\ answer' = Answer("remove", key, "none")
       /\ key \notin keys
       /\ keys' = keys

Next == \E key \in Keys : Insert(key) \/ Remove(key)

Spec == Init /\ [][Next]_<<keys, answer>>
=============================================================================
