---------------------------- MODULE MCServices ----------------------------
(* Small instances for TLC of services that share nothing: each behaviour is *)
(* one of exactly one of them, the others stay where they start.             *)
EXTENDS RtmqSub, SdtpSend, Access, RtmqProxyWork, SdtpWork, ShmQueue, ShmOpt, Log

CONSTANT MaxJobs

VARIABLE unit

a_RsvrOfSub == [a |-> "r1", b |-> "r2", c |-> "r2"]
a_GidOfSub == [a |-> 1, b |-> 1, c |-> 2]
a_SlotOfType == [x |-> 0, y |-> 0]

a_TypeOf == <<"x", "y", "x", "y">>

vars == <<unit, subVars, sdtpVars, accVars, jobVars, workVars, sworkVars, shmVars, shmOptVars, logVars>>

Init ==
    /\ SubInit /\ SdtpInit /\ AccessInit /\ PoolInit /\ WorkInit /\ SdtpWorkInit
    /\ ShmQueueInit /\ ShmOptInit /\ LogInit
    /\ unit \in {"sub", "sdtp", "access", "pool", "proxy", "sdtp_work", "shm_queue", "shm", "log"}
    /\ unit # "sub" => ~noMem

SubStep ==
    /\ unit = "sub" /\ SubNext
    /\ UNCHANGED <<unit, sdtpVars, accVars, jobVars, workVars, sworkVars, shmVars, shmOptVars, logVars>>

SdtpStep ==
    /\ unit = "sdtp" /\ SdtpSendNext
    /\ UNCHANGED <<unit, subVars, accVars, jobVars, workVars, sworkVars, shmVars, shmOptVars, logVars>>

AccessStep ==
    /\ unit = "access" /\ AccessNext
    /\ UNCHANGED <<unit, subVars, sdtpVars, jobVars, workVars, sworkVars, shmVars, shmOptVars, logVars>>

\* The pool with jobs that return, added by two threads.
PoolAloneStep ==
    /\ unit = "pool"
    /\ \/ PoolStep
       \/ \E t \in Threads : Finish(t)
       \/ \E a \in Adders : Signal(a) \/ (added < MaxJobs /\ AddWorker(a, "job"))
    /\ UNCHANGED <<unit, subVars, sdtpVars, accVars, workVars, sworkVars, shmVars, shmOptVars, logVars>>

\* The pool with the workers of the rtmq proxy, and of the sdtp sender, as jobs.
ProxyStep ==
    /\ unit = "proxy" /\ ProxyWorkNext
    /\ UNCHANGED <<unit, subVars, sdtpVars, accVars, sworkVars, shmVars, shmOptVars, logVars>>

SdtpWorkStep ==
    /\ unit = "sdtp_work" /\ SdtpWorkNext
    /\ UNCHANGED <<unit, subVars, sdtpVars, accVars, workVars, shmVars, shmOptVars, logVars>>

ShmQueueStep ==
    /\ unit = "shm_queue" /\ ShmQueueNext
    /\ UNCHANGED <<unit, subVars, sdtpVars, accVars, jobVars, workVars, sworkVars, shmOptVars, logVars>>

ShmStep ==
    /\ unit = "shm" /\ ShmOptNext
    /\ UNCHANGED <<unit, subVars, sdtpVars, accVars, jobVars, workVars, sworkVars, shmVars, logVars>>

LogStep ==
    /\ unit = "log" /\ LogNext
    /\ UNCHANGED <<unit, subVars, sdtpVars, accVars, jobVars, workVars, sworkVars, shmVars, shmOptVars>>

\* No job is with two threads, no message handled twice, no block of a queue in two
\* places, or in none, and no line logged twice: the queues of the workers, the one in
\* shared memory and the log.
QueuesExact ==
    /\ unit = "proxy" => WorkExact
    /\ unit = "sdtp_work" => SdtpWorkExact
    /\ unit = "shm_queue" => ShmQueueExact
    /\ unit = "log" => LogExact

\* The access layer: streams whole and in order, and no event of a connection that is
\* gone but after a kick.
AccessExact == ItemsInOrder /\ EventsFresh

\* What was received is handled, calls of the queue in shared memory return, and what
\* was logged gets to disk.
AllHandled == WorkHandled /\ SdtpHandled /\ CallsReturn /\ LogSynced

Next ==
    \/ SubStep \/ SdtpStep \/ AccessStep \/ PoolAloneStep \/ ProxyStep \/ SdtpWorkStep
    \/ ShmQueueStep \/ ShmStep \/ LogStep

Spec ==
    /\ Init
    /\ [][Next]_vars
    /\ SubFairness /\ SdtpSendFairness /\ AccessFairness /\ PoolFairness /\ ProxyWorkFairness
    /\ SdtpWorkFairness /\ ShmQueueFairness /\ LogFairness
===========================================================================
