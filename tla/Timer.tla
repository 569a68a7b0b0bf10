------------------------------- MODULE Timer -------------------------------
(***************************************************************************)
(* The timer (timer.c): tasks in a heap ordered by the time they are due,  *)
(* under a lock.  One thread runs tasks that are due and puts them back;   *)
(* others start and stop tasks.  What a call does while it holds the lock  *)
(* is one step.  The root is e[0] and the only child of the root e[1]; the *)
(* parent of e[i] is e[i \div 2].                                          *)
(***************************************************************************)
EXTENDS Naturals, FiniteSets

CONSTANTS
    Tasks,
    Interval,   \* [Tasks -> Nat]: start and interval of a task, in seconds
    MaxClock,   \* bound: the last second
    MaxStops    \* bound: calls that stop a task

ASSUME TimerAssumption ==
    /\ Interval \in [Tasks -> Nat]
    /\ MaxClock \in Nat /\ MaxStops \in Nat

VARIABLES
    e,          \* the heap: a function on 0 .. len - 1
    idx,        \* the place in the heap a task has written down
    ttl,        \* when a task is due
    clock,
    timer,      \* the routine: at its check, at its pop, or with a task to run or put back
    started,    \* the tasks that were started and not stopped
    stops,      \* calls that stop a task
    taken,      \* history: tasks taken out by a stop
    stale       \* history: a task was taken out since the routine's check

timerVars == <<e, idx, ttl, clock, timer, started, stops, taken, stale>>

TimerInit ==
    /\ e = [i \in {} |-> 0]
    /\ idx = [t \in Tasks |-> 0]
    /\ ttl = [t \in Tasks |-> Interval[t]]
    /\ clock = 0
    /\ timer = [at |-> "check"]
    /\ started = {}
    /\ stops = 0
    /\ taken = 0
    /\ stale = FALSE

Size(h) == Cardinality(DOMAIN h)
Write(h, i, t) == IF i \in DOMAIN h THEN [h EXCEPT ![i] = t] ELSE h

\* From place i up: the ancestors that are due later each go one place down.
RECURSIVE SiftUp(_, _, _)
SiftUp(h, i, t) ==
    IF i # i \div 2 /\ ttl[t] < ttl[h[i \div 2]]
    THEN SiftUp(Write(h, i, h[i \div 2]), i \div 2, t)
    ELSE [heap |-> Write(h, i, t), at |-> i]

\* Mutant: below the root only the left child is looked at.
KidsLeft(i) == IF i = 0 THEN {1, 2} ELSE {2 * i}

Kids(i) == IF i = 0 THEN {1, 2} ELSE {2 * i, 2 * i + 1}

\* From place i down: the child that is due first, the left one of two, goes up as
\* long as it is due before t.
RECURSIVE SiftDown(_, _, _)
SiftDown(h, i, t) ==
    LET kids == Kids(i) \cap DOMAIN h
        low == CHOOSE k \in kids : \A j \in kids :
                   ttl[h[k]] < ttl[h[j]] \/ (ttl[h[k]] = ttl[h[j]] /\ k <= j)
    IN  IF kids # {} /\ ttl[h[low]] < ttl[t]
        THEN SiftDown(Write(h, i, h[low]), low, t)
        ELSE [heap |-> Write(h, i, t), at |-> i, leaf |-> kids = {}]

WithoutLast(h) == [i \in 0 .. Size(h) - 2 |-> h[i]]

\* Only the new task writes its place down, those that move do not.
PushTask(t) ==
    LET n == Size(e)
        up == SiftUp([i \in 0 .. n |-> IF i < n THEN e[i] ELSE t], n, t)
    IN  e' = up.heap /\ idx' = [idx EXCEPT ![t] = up.at]
-----------------------------------------------------------------------------
\* A task is started by its owner once, and again after it was stopped.
TaskStart(t) ==
    /\ t \notin started
    /\ PushTask(t)
    /\ started' = started \cup {t}
    /\ UNCHANGED <<ttl, clock, timer, stops, taken, stale>>

\* The last task fills the hole and goes down from there, never up.  Those that go
\* up on the way write their places down; the last task does unless it ends in a
\* leaf, where the stopped task is written instead.
TakeOut(t) ==
    LET i == idx[t]
        last == e[Size(e) - 1]
        down == SiftDown(WithoutLast(e), i, last)
        moved == {u \in Tasks : \E k \in DOMAIN down.heap :
                     down.heap[k] = u /\ k # down.at /\ e[k] # u}
        Place(u) == CHOOSE k \in DOMAIN down.heap : down.heap[k] = u
    IN  /\ e' = down.heap
        /\ idx' = [u \in Tasks |->
               IF u \in moved THEN Place(u)
               ELSE IF u = (IF down.leaf THEN t ELSE last) THEN down.at ELSE idx[u]]

\* Refused when the task is not where it has written down.
TaskStop(t) ==
    /\ t \in started
    /\ stops < MaxStops
    /\ stops' = stops + 1
    /\ IF idx[t] \in DOMAIN e /\ e[idx[t]] = t
       THEN /\ TakeOut(t)
            /\ started' = started \ {t}
            /\ taken' = taken + 1
            /\ stale' = TRUE
       ELSE UNCHANGED <<e, idx, started, taken, stale>>
    /\ UNCHANGED <<ttl, clock, timer>>

\* When nothing is due the routine sleeps for a second and looks again.
IsTimeout ==
    /\ timer.at = "check"
    /\ IF DOMAIN e # {} /\ ttl[e[0]] <= clock
       THEN timer' = [at |-> "pop"] /\ stale' = FALSE
       ELSE UNCHANGED <<timer, stale>>
    /\ UNCHANGED <<e, idx, ttl, clock, started, stops, taken>>

\* The lock was released since: the heap may be empty, or its first task not due.
TaskPop ==
    /\ timer.at = "pop"
    /\ IF DOMAIN e = {}
       THEN timer' = [at |-> "check"] /\ UNCHANGED e
       ELSE /\ timer' = [at |-> "run", task |-> e[0]]
            /\ e' = SiftDown(WithoutLast(e), 0, e[Size(e) - 1]).heap
    /\ UNCHANGED <<idx, ttl, clock, started, stops, taken, stale>>

\* The callbacks have run; the task is due again after its interval.
TaskAgain ==
    /\ timer.at = "run"
    /\ ttl' = [ttl EXCEPT ![timer.task] = clock + Interval[timer.task]]
    /\ timer' = [at |-> "again", task |-> timer.task]
    /\ UNCHANGED <<e, idx, clock, started, stops, taken, stale>>

TaskRestart ==
    /\ timer.at = "again"
    /\ PushTask(timer.task)
    /\ timer' = [at |-> "check"]
    /\ UNCHANGED <<ttl, clock, started, stops, taken, stale>>

Tick ==
    /\ clock < MaxClock
    /\ clock' = clock + 1
    /\ UNCHANGED <<e, idx, ttl, timer, started, stops, taken, stale>>

TimerNext ==
    \/ IsTimeout \/ TaskPop \/ TaskAgain \/ TaskRestart \/ Tick
    \/ \E t \in Tasks : TaskStart(t) \/ TaskStop(t)
-----------------------------------------------------------------------------
InHeap == {e[i] : i \in DOMAIN e}
WithRoutine == IF timer.at \in {"run", "again"} THEN {timer.task} ELSE {}

\* A task that was started is in the heap, once, or with the routine, and a task
\* that a stop took out is in neither.  Until the first stop every task is due no
\* earlier than its parent.  The routine runs a task that is not due only when a
\* stop took the due one away between its check and its pop.
TimerExact ==
    /\ Cardinality(InHeap) = Size(e)
    /\ InHeap \cup WithRoutine = started
    /\ InHeap \cap WithRoutine = {}
    /\ taken = 0 => \A i \in DOMAIN e : ttl[e[i \div 2]] <= ttl[e[i]]
    /\ timer.at = "run" /\ ~stale => ttl[timer.task] <= clock
=============================================================================
