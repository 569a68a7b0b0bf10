------------------------------- MODULE ShmOpt -------------------------------
(***************************************************************************)
(* How processes come to share a segment of memory (shm_opt.c): a file     *)
(* holds the number of the segment, its size and a digest.  The segment is *)
(* marked for removal as soon as its creator is attached, so that it goes  *)
(* with the last process; a process that crashes is detached, and a file   *)
(* it was writing stays as it is.                                          *)
(***************************************************************************)
EXTENDS Naturals, FiniteSets

CONSTANTS
    Creators,   \* the processes that call shm_creat
    Attachers,  \* the processes that call shm_attach
    SegSizes,   \* bound: sizes asked for
    MaxSegs,    \* bound: segments created
    MaxCrashes  \* bound: processes that crash

ASSUME ShmOptAssumption ==
    /\ Creators \cap Attachers = {} /\ IsFiniteSet(Creators)
    /\ 0 \notin SegSizes /\ MaxSegs \in Nat

VARIABLES
    file,       \* the file: none, empty, half written, or the number and size
    seg,        \* per segment, its size (0: never created)
    marked,     \* the segments marked for removal
    att,        \* per process, the segment it is attached to, or 0
    opt,        \* per process, where it is in its call and what it knows
    crashes

shmOptVars == <<file, seg, marked, att, opt, crashes>>

Users == Creators \cup Attachers
Segs == 1 .. MaxSegs
File(st, id, size) == [st |-> st, id |-> id, size |-> size]
Step(do, id, size) == [do |-> do, id |-> id, size |-> size]
Returned == Step("no", 0, 0)

ShmOptInit ==
    /\ file = File("none", 0, 0)
    /\ seg = [s \in Segs |-> 0]
    /\ marked = {}
    /\ att = [p \in Users |-> 0]
    /\ opt = [p \in Users |-> Returned]
    /\ crashes = 0

Goes(p, step) == opt' = [opt EXCEPT ![p] = step]

\* A segment that is marked lasts as long as somebody is attached.
Exists(s) == seg[s] # 0 /\ (s \in marked => \E p \in Users : att[p] = s)
-----------------------------------------------------------------------------
\* Mutant: the segment of an older creator is not looked for.
ShmCreatAnew(p, size) ==
    /\ opt[p] = Returned /\ att[p] = 0
    /\ Goes(p, Step("get", 0, size))
    /\ UNCHANGED <<file, seg, marked, att, crashes>>

ShmCreat(p, size) ==
    /\ opt[p] = Returned /\ att[p] = 0
    /\ Goes(p, Step(IF file.st \in {"none", "empty"} THEN "get" ELSE "read", 0, size))
    /\ UNCHANGED <<file, seg, marked, att, crashes>>

ShmAttach(p) ==
    /\ opt[p] = Returned /\ att[p] = 0
    /\ Goes(p, Step("read", 0, 0))
    /\ UNCHANGED <<file, seg, marked, att, crashes>>

\* shm_data_read fails without a whole file.  A caller that names a size gets no
\* other.
ShmDataRead(p) ==
    /\ opt[p].do = "read"
    /\ Goes(p, IF file.st = "ok" /\ opt[p].size \in {0, file.size}
               THEN Step("at", file.id, opt[p].size) ELSE Returned)
    /\ UNCHANGED <<file, seg, marked, att, crashes>>

\* When the segment is gone its creator makes another one.
ShmAt(p) ==
    /\ opt[p].do = "at"
    /\ IF Exists(opt[p].id)
       THEN att' = [att EXCEPT ![p] = opt[p].id] /\ Goes(p, Returned)
       ELSE Goes(p, IF p \in Creators THEN [opt[p] EXCEPT !.do = "get"] ELSE Returned) /\ UNCHANGED att
    /\ UNCHANGED <<file, seg, marked, crashes>>

\* _shm_creat, step by step.
ShmGet(p) ==
    /\ opt[p].do = "get"
    /\ \E s \in Segs :
          /\ seg[s] = 0 /\ \A t \in Segs : t < s => seg[t] # 0
          /\ seg' = [seg EXCEPT ![s] = opt[p].size]
          /\ Goes(p, Step("new", s, opt[p].size))
    /\ UNCHANGED <<file, marked, att, crashes>>

ShmAtNew(p) ==
    /\ opt[p].do = "new"
    /\ att' = [att EXCEPT ![p] = opt[p].id]
    /\ Goes(p, [opt[p] EXCEPT !.do = "rmid"])
    /\ UNCHANGED <<file, seg, marked, crashes>>

ShmRmid(p) ==
    /\ opt[p].do = "rmid"
    /\ marked' = marked \cup {opt[p].id}
    /\ Goes(p, [opt[p] EXCEPT !.do = "open"])
    /\ UNCHANGED <<file, seg, att, crashes>>

\* The file is emptied, filled and whole at last.
ShmDataWrite(p) ==
    /\ \/ /\ opt[p].do = "open"
          /\ file' = File("empty", 0, 0)
          /\ Goes(p, [opt[p] EXCEPT !.do = "write"])
       \/ /\ opt[p].do = "write"
          /\ file' = File("torn", 0, 0)
          /\ Goes(p, [opt[p] EXCEPT !.do = "close"])
       \/ /\ opt[p].do = "close"
          /\ file' = File("ok", opt[p].id, opt[p].size)
          /\ Goes(p, Returned)
    /\ UNCHANGED <<seg, marked, att, crashes>>

\* The process ends, in a call or attached.
Crash(p) ==
    /\ crashes < MaxCrashes
    /\ opt[p] # Returned \/ att[p] # 0
    /\ att' = [att EXCEPT ![p] = 0]
    /\ Goes(p, Returned)
    /\ crashes' = crashes + 1
    /\ UNCHANGED <<file, seg, marked>>

ShmOptNext ==
    \/ \E p \in Creators, size \in SegSizes : ShmCreat(p, size)
    \/ \E p \in Attachers : ShmAttach(p)
    \/ \E p \in Users :
          \/ ShmDataRead(p) \/ ShmAt(p) \/ ShmGet(p) \/ ShmAtNew(p) \/ ShmRmid(p)
          \/ ShmDataWrite(p) \/ Crash(p)
-----------------------------------------------------------------------------
\* With one creator, all that are attached share one segment, of the size the
\* creator asked for when it made it, whoever crashes and starts again in the
\* meantime; and a whole file names the only segment that is left.
ShmShared ==
    Cardinality(Creators) = 1 =>
        /\ \A p, q \in Users : att[p] # 0 /\ att[q] # 0 => att[p] = att[q]
        /\ \A p \in Attachers : att[p] # 0 =>
              file.st = "ok" /\ file.id = att[p] /\ file.size = seg[att[p]]
=============================================================================
