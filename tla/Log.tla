-------------------------------- MODULE Log --------------------------------
(***************************************************************************)
(* A log (log.c) and the thread that brings it to disk once a second       *)
(* (logsvr.c).  Threads write lines into a buffer under the lock of the    *)
(* log; whoever fills a fifth of it, and the thread of the log server,     *)
(* writes the buffer to the file, and renames a file that became too       *)
(* large.  The name has the second in it.  An outsider may remove the      *)
(* file; looking for it, opening it, going to its end, writing and         *)
(* renaming it may fail.  A dump behind a line may overrun the buffer:     *)
(* what comes then is undefined, and the model stops.                      *)
(***************************************************************************)
EXTENDS Naturals, Sequences, FiniteSets

CONSTANTS
    Writers,    \* the threads that log
    LogSize,    \* the size of the buffer, in lines without a dump
    DumpSizes,  \* bound: sizes of the memory dumped, 0 for none
    MaxFile,    \* lines that make a file too large
    MaxLines,   \* bound: lines logged
    MaxTime,    \* bound: seconds that pass
    MaxRemoved, \* bound: files removed by an outsider
    MaxDropped  \* bound: a sync fails while fewer lines than this are lost

NoHolder == "nobody"

ASSUME LogAssumption ==
    /\ {LogSize, MaxFile, MaxLines, MaxTime, MaxRemoved, MaxDropped} \subseteq Nat
    /\ MaxFile > 0 /\ NoHolder \notin Writers
    /\ DumpSizes \subseteq Nat

VARIABLES
    logStart,   \* where the thread that calls log_init is
    svrLock,    \* the mutex of the log server is locked
    syncer,     \* where the thread of the log server is
    holder,     \* who holds the lock of the log, or nobody
    syncing,    \* where the holder is in log_sync
    buf, used,  \* the lines in the buffer, and how much of it they use
    widest,     \* history: the most of it that a dump among them takes
    logFd,      \* the file that is open, 0 for none
    logPath,    \* the file the path names, 0 for none
    bak,        \* per second, the files renamed then: the last one keeps the name
    files,      \* per file, the lines in it
    logSec,     \* the second
    said,       \* history: lines logged so far
    dropped,    \* history: lines that a sync that failed took out of the buffer
    removed,    \* history: files removed by an outsider
    before      \* history: those of them removed before the sync began

diskVars == <<logFd, logPath, bak, files>>
bufVars == <<buf, used, widest, said, dropped>>
initVars == <<logStart, svrLock, syncer>>
logVars == <<initVars, holder, syncing, bufVars, diskVars, logSec, removed, before>>

Syncer == "log_sync_proc"
NoSync == "no"
Files == DOMAIN files
Seconds == 0 .. MaxTime

LogInit ==
    /\ logStart = "svr" /\ svrLock = FALSE /\ syncer = "off"
    /\ holder = NoHolder /\ syncing = NoSync
    /\ buf = <<>> /\ used = 0 /\ widest = 0
    /\ logFd = 0 /\ logPath = 0 /\ bak = [t \in Seconds |-> <<>>] /\ files = <<>>
    /\ logSec = 0 /\ said = 0 /\ dropped = {} /\ removed = {} /\ before = {}
-----------------------------------------------------------------------------
\* log_init, once and by one thread: a second one that came before log_svr_init
\* returns would wait for ever, for its mutex is never unlocked again.  What is
\* unlocked instead is the mutex of the server, whoever holds it.
LogSvrInit ==
    /\ \/ logStart = "svr" /\ syncer' = "lock" /\ logStart' = "unlock" /\ UNCHANGED svrLock
       \/ logStart = "unlock" /\ svrLock' = FALSE /\ logStart' = "open" /\ UNCHANGED syncer
    /\ UNCHANGED <<holder, syncing, bufVars, diskVars, logSec, removed, before>>

\* Opens the path, and makes the file when there is none.
OpenPath ==
    IF logPath = 0
    THEN files' = Append(files, <<>>) /\ logPath' = Len(files') /\ logFd' = logPath'
    ELSE logFd' = logPath /\ UNCHANGED <<logPath, files>>

LogOpen ==
    /\ logStart = "open"
    /\ OpenPath
    /\ logStart' = "insert"
    /\ UNCHANGED <<svrLock, syncer, holder, syncing, bufVars, bak, logSec, removed, before>>

LogInsert ==
    /\ \/ logStart = "insert" /\ ~svrLock /\ svrLock' = TRUE /\ logStart' = "inserted"
       \/ logStart = "inserted" /\ svrLock' = FALSE /\ logStart' = "on"
    /\ UNCHANGED <<syncer, holder, syncing, bufVars, diskVars, logSec, removed, before>>

\* The log is in the tree of the server once its thread can find it there.
InTree == logStart \in {"inserted", "on"}
-----------------------------------------------------------------------------
\* Four fifths of the buffer, or less, are left behind the line, its dump not counted.
Forced == 5 * (LogSize - used - 1) <= 4 * LogSize

LogLock(h) == holder' = h /\ syncing' = "stat" /\ before' = removed

\* Sixteen bytes of memory take eighty of the buffer.  The memory is dumped when there
\* is room for it as it is, not for what is printed of it.
DumpRoom(dump) == IF LogSize - used - 1 > dump THEN 5 * dump ELSE 0

LogWrite(w, dump) ==
    /\ logStart = "on" /\ holder = NoHolder /\ said < MaxLines
    /\ said' = said + 1
    /\ buf' = Append(buf, said')
    /\ used' = used + 1 + DumpRoom(dump)
    /\ widest' = IF DumpRoom(dump) > widest THEN DumpRoom(dump) ELSE widest
    /\ IF Forced THEN LogLock(w) ELSE UNCHANGED <<holder, syncing, before>>
    /\ UNCHANGED <<initVars, dropped, diskVars, logSec, removed>>

\* The log server: its lock, the lock of each log in the tree, a sync, and a sleep.
SyncProc ==
    /\ \/ /\ syncer = "lock" /\ ~svrLock
          /\ svrLock' = TRUE /\ syncer' = "trav" /\ UNCHANGED <<holder, syncing, before>>
       \/ /\ syncer = "trav"
          /\ IF InTree THEN /\ holder = NoHolder
                            /\ LogLock(Syncer) /\ syncer' = "sync"
             ELSE syncer' = "unlock" /\ UNCHANGED <<holder, syncing, before>>
          /\ UNCHANGED svrLock
       \/ /\ syncer = "sync" /\ holder # Syncer
          /\ syncer' = "unlock" /\ UNCHANGED <<svrLock, holder, syncing, before>>
       \/ /\ syncer = "unlock"
          /\ svrLock' = FALSE /\ syncer' = "sleep" /\ UNCHANGED <<holder, syncing, before>>
       \/ /\ syncer = "sleep"
          /\ syncer' = "lock" /\ UNCHANGED <<svrLock, holder, syncing, before>>
    /\ UNCHANGED <<logStart, bufVars, diskVars, logSec, removed>>
-----------------------------------------------------------------------------
LogUnlock == holder' = NoHolder /\ syncing' = NoSync

Emptied == buf' = <<>> /\ used' = 0 /\ widest' = 0

\* The lines in the buffer but the first n are lost, which the bound has to allow.
Lost(n) ==
    /\ n < Len(buf) => Cardinality(dropped) < MaxDropped
    /\ dropped' = dropped \cup {buf[i] : i \in n + 1 .. Len(buf)}

\* Mutant: the file that is open is written to, whether it still has its name or not.
StatOpen ==
    /\ syncing = "stat"
    /\ IF buf = <<>> THEN LogUnlock /\ UNCHANGED logFd
       ELSE /\ UNCHANGED <<logFd, holder>>
            /\ syncing' = IF logFd = 0 THEN "open" ELSE "write"
    /\ UNCHANGED <<initVars, bufVars, logPath, bak, files, logSec, removed, before>>

\* A file whose path names nothing any more is closed.  So is one that cannot be looked
\* for, and the buffer is emptied.
Stat ==
    /\ syncing = "stat"
    /\ \/ buf = <<>> /\ LogUnlock /\ UNCHANGED <<bufVars, logFd>>
       \/ /\ buf # <<>>
          /\ logFd' = IF logPath = 0 THEN 0 ELSE logFd
          /\ syncing' = IF logFd' = 0 THEN "open" ELSE "write"
          /\ UNCHANGED <<bufVars, holder>>
       \/ /\ buf # <<>>
          /\ Lost(0) /\ Emptied /\ logFd' = 0 /\ LogUnlock
          /\ UNCHANGED said
    /\ UNCHANGED <<initVars, logPath, bak, files, logSec, removed, before>>

\* What is in the buffer is dropped when the file cannot be opened.
Reopen ==
    /\ syncing = "open"
    /\ \/ OpenPath /\ syncing' = "write" /\ UNCHANGED <<bufVars, holder>>
       \/ /\ Lost(0) /\ Emptied /\ LogUnlock
          /\ UNCHANGED <<said, logFd, logPath, files>>
    /\ UNCHANGED <<initVars, bak, logSec, removed, before>>

\* Nobody asks how much was written: the buffer is emptied, and the file is too large
\* with what should be in it.  When its end is not found, the -1 returned for its size
\* is larger than any limit, so that the path is renamed with nothing written.
WriteOut ==
    /\ syncing = "write"
    /\ \/ \E n \in 0 .. Len(buf) :
             /\ Lost(n)
             /\ files' = [files EXCEPT ![logFd] = @ \o SubSeq(buf, 1, n)]
             /\ IF Len(files[logFd]) + Len(buf) >= MaxFile
                THEN syncing' = "rename" /\ UNCHANGED holder ELSE LogUnlock
             /\ UNCHANGED logFd
       \/ /\ Lost(0) /\ logFd' = 0
          /\ syncing' = "rename" /\ UNCHANGED <<holder, files>>
    /\ Emptied
    /\ UNCHANGED <<initVars, said, logPath, bak, logSec, removed, before>>

\* The file is closed and the path renamed, if it is still there and that does not fail.
\* A file of the same second loses its name.  The second is the one in which the file
\* was written.
Rename ==
    /\ syncing = "rename"
    /\ logFd' = 0
    /\ \/ /\ logPath # 0 /\ logPath' = 0
          /\ bak' = [bak EXCEPT ![logSec] = Append(@, logPath)]
       \/ UNCHANGED <<logPath, bak>>
    /\ LogUnlock
    /\ UNCHANGED <<initVars, bufVars, files, logSec, removed, before>>

SyncStep == Stat \/ Reopen \/ WriteOut \/ Rename
-----------------------------------------------------------------------------
Remove ==
    /\ logPath # 0 /\ Cardinality(removed) < MaxRemoved
    /\ removed' = removed \cup {logPath}
    /\ logPath' = 0
    /\ UNCHANGED <<initVars, holder, syncing, bufVars, logFd, bak, files, logSec, before>>

Second ==
    /\ logSec < MaxTime /\ syncing # "rename"
    /\ logSec' = logSec + 1
    /\ UNCHANGED <<initVars, holder, syncing, bufVars, diskVars, removed, before>>

\* What was written past the end of the buffer may be anything.
Overrun == used > LogSize

LogNext ==
    /\ ~Overrun
    /\ \/ LogSvrInit \/ LogOpen \/ LogInsert \/ SyncProc \/ SyncStep \/ Remove \/ Second
       \/ \E w \in Writers, dump \in DumpSizes : LogWrite(w, dump)

\* The threads go on with what they do; the log need not be started.
LogFairness ==
    /\ WF_logVars(~Overrun /\ logStart # "svr" /\ (LogSvrInit \/ LogOpen \/ LogInsert))
    /\ WF_logVars(~Overrun /\ SyncProc)
    /\ WF_logVars(~Overrun /\ SyncStep)
-----------------------------------------------------------------------------
\* The files that have a name.
Named == ({logPath} \cup {bak[t][Len(bak[t])] : t \in {u \in Seconds : bak[u] # <<>>}}) \ {0}

\* Every line logged is in one place, in the order of logging: in the buffer, in one
\* file, or lost with a sync that failed, also when a write was cut short.  Two dumps
\* may stand in the buffer, so that none but one of about two fifths of it, printed,
\* overruns it.  A file without a name was removed, or had the name of a file renamed
\* in the same second, and nothing goes into a file that was removed before the sync began.
LogExact ==
    LET ls == [i \in 1 .. said |->
                  Cardinality({j \in DOMAIN buf : buf[j] = i})
                  + Cardinality({p \in Files \X (1 .. said) :
                                    p[2] \in DOMAIN files[p[1]] /\ files[p[1]][p[2]] = i})]
    IN  /\ \A i \in 1 .. said : ls[i] = IF i \in dropped THEN 0 ELSE 1
        /\ \A f \in Files : \A i, j \in DOMAIN files[f] : i < j => files[f][i] < files[f][j]
        /\ \A f \in Files, i \in DOMAIN buf : \A j \in DOMAIN files[f] : files[f][j] < buf[i]
        /\ Overrun => 5 * (2 * widest + 1) > 4 * LogSize
        /\ \A f \in Files \ (Named \cup removed) :
              \E t \in Seconds : Len(bak[t]) > 1 /\ f \in {bak[t][k] : k \in 1 .. Len(bak[t]) - 1}
        /\ syncing = "write" => logFd # 0 /\ logFd \notin before

\* A line does not stay in the buffer, however few follow it, unless the buffer is
\* overrun: even the start, which unlocks a mutex the log server may hold, does not
\* stop its thread.
LogSynced == []<>(buf = <<>> \/ Overrun)
=============================================================================
