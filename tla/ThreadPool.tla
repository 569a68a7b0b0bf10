---------------------------- MODULE ThreadPool ----------------------------
(***************************************************************************)
(* The thread pool (thread_pool.c): a list of jobs under a mutex, with a   *)
(* condition variable that is signalled after the mutex was released.      *)
(* What a thread does while it holds the mutex is one step: everybody else *)
(* who looks at the list holds the mutex too.                              *)
(*                                                                         *)
(* Destruction is not modelled: it frees the pool while its threads, which *)
(* are detached, may still be in it.                                       *)
(***************************************************************************)
EXTENDS Naturals, Sequences

CONSTANTS
    ThreadNum,  \* threads of the pool
    Adders      \* threads that add jobs

ASSUME PoolAssumption == ThreadNum \in Nat \ {0}

VARIABLES
    jobs,       \* the list of jobs: [no, proc], the how many-th it is and its routine
    added,      \* jobs added
    thr,        \* per thread, where it is in its loop, and its job
    adding      \* the threads that added a job and are about to signal

jobVars == <<jobs, added, thr, adding>>

Threads == 0 .. ThreadNum - 1

NoJob == [no |-> 0, proc |-> "none"]

PoolInit ==
    /\ jobs = <<>>
    /\ added = 0
    /\ thr = [t \in Threads |-> [at |-> "look", job |-> NoJob]]
    /\ adding = {}

AddWorker(a, proc) ==
    /\ a \notin adding
    /\ added' = added + 1
    /\ jobs' = Append(jobs, [no |-> added + 1, proc |-> proc])
    /\ adding' = adding \cup {a}
    /\ UNCHANGED thr

\* Wakes one of the threads that wait, if there are any.
Signal(a) ==
    /\ a \in adding
    /\ adding' = adding \ {a}
    /\ \/ \E t \in Threads : thr[t].at = "wait" /\ thr' = [thr EXCEPT ![t].at = "look"]
       \/ (\A t \in Threads : thr[t].at # "wait") /\ UNCHANGED thr
    /\ UNCHANGED <<jobs, added>>

\* pthread_cond_wait may return without a signal.
SpuriousWakeup(t) ==
    /\ thr[t].at = "wait"
    /\ thr' = [thr EXCEPT ![t].at = "look"]
    /\ UNCHANGED <<jobs, added, adding>>

\* A thread looks at the list whenever it gets the mutex.
Look(t) ==
    /\ thr[t].at = "look"
    /\ \/ /\ jobs = <<>>
          /\ thr' = [thr EXCEPT ![t].at = "wait"]
          /\ UNCHANGED jobs
       \/ /\ jobs # <<>>
          /\ thr' = [thr EXCEPT ![t] = [at |-> "run", job |-> Head(jobs)]]
          /\ jobs' = Tail(jobs)
    /\ UNCHANGED <<added, adding>>

\* The job returned and is freed under the mutex.
Finish(t) ==
    /\ thr[t].at = "run"
    /\ thr' = [thr EXCEPT ![t] = [at |-> "look", job |-> NoJob]]
    /\ UNCHANGED <<jobs, added, adding>>

PoolStep == \E t \in Threads : Look(t) \/ SpuriousWakeup(t)

\* Threads get the mutex and signals are sent; nobody counts on a spurious wakeup.
PoolFairness ==
    /\ \A t \in Threads : WF_jobVars(jobs # <<>> /\ Look(t))
    /\ \A a \in Adders : WF_jobVars(Signal(a))
-----------------------------------------------------------------------------
Running == {t \in Threads : thr[t].at = "run"}

\* A job is in the list or with one thread, never with two, and jobs are taken in
\* the order in which they were added.
JobsOnce ==
    /\ \A t, u \in Running : thr[t].job.no = thr[u].job.no => t = u
    /\ \A t \in Running, i \in DOMAIN jobs : thr[t].job.no < jobs[i].no
    /\ \A i, j \in DOMAIN jobs : i < j => jobs[i].no < jobs[j].no
=============================================================================
