------------------------------ MODULE Logging ------------------------------
(***************************************************************************)
(* Logger and FileLogger: messages of every thread, and the timers of the   *)
(* main thread that read the settings again and rotate the file, under one  *)
(* mutex that is not recursive.                                            *)
(*                                                                         *)
(* What a file holds is abstracted to the generation of the log it is: a    *)
(* new log file is the next generation, a backup keeps its own.  The files  *)
(* outlive the process.                                                    *)
(***************************************************************************)
EXTENDS HandlerThread, FiniteSetsExt

CONSTANTS
    BufferSize, \* setting bufferSize
    MaxBackups, \* setting maxBackups
    MaxLogs     \* bound of the model: generations

ASSUME LogAssumption == BufferSize \in Nat /\ MaxBackups \in Nat /\ MaxLogs \in Nat

VARIABLES
    handler,    \* who holds msgHandler's recursive mutex
    logging,    \* who holds its other one, and so is in log()
    logMutex,   \* who holds Logger::mutex
    buffer,     \* the number of messages in each thread's buffer
    fileOpen,   \* file is not null
    current,    \* the generation under fileName; 0 is no such file
    backups,    \* the generations under fileName.1, fileName.2, ...
    rotating    \* the number of backups rotate() has still to rename
logVars == <<handler, logging, logMutex, buffer, fileOpen, current, backups, rotating>>
filesVars == <<current, backups>>

Numbers == 1 .. MaxLogs

\* A process that has just begun has no file open.
NoLogger ==
    /\ handler = Nobody /\ logging = Nobody /\ logMutex = Nobody
    /\ buffer = [a \in Actors |-> 0] /\ fileOpen = FALSE /\ rotating = 0

LoggerGone ==
    /\ handler' = Nobody /\ logging' = Nobody /\ logMutex' = Nobody
    /\ buffer' = [a \in Actors |-> 0] /\ fileOpen' = FALSE /\ rotating' = 0

\* The files the process finds are those of earlier ones: some backups, as many
\* as there may be, and the log.
LogInit ==
    /\ NoLogger
    /\ \E n \in 0 .. MaxBackups :
        /\ n < MaxLogs
        /\ current = IF n = 0 THEN 0 ELSE n + 1
        /\ backups = [i \in Numbers |-> IF i <= n THEN n + 1 - i ELSE 0]

-----------------------------------------------------------------------------
(* msgHandler and log().                                                   *)

\* The recursive mutex; whoever is in log() already falls back to stderr.
LogMessage(a) ==
    /\ Enters(a, "message") /\ handler = Nobody
    /\ handler' = a /\ logging' = a
    /\ UNCHANGED <<logMutex, buffer, fileOpen, filesVars, rotating>>

LockLog(a) ==
    /\ Goes(a, "message", "log") /\ logMutex = Nobody
    /\ logMutex' = a
    /\ UNCHANGED <<handler, logging, buffer, fileOpen, filesVars, rotating>>

\* The message is buffered, the oldest one dropped when there are too many, and
\* all are written once one is important enough.
Log(a) ==
    /\ Goes(a, "log", "idle")
    /\ \/ buffer' = [buffer EXCEPT ![a] = IF @ < BufferSize THEN @ + 1 ELSE @]
       \/ buffer' = [buffer EXCEPT ![a] = 0]
    /\ logMutex' = Nobody /\ handler' = Nobody /\ logging' = Nobody
    /\ UNCHANGED <<fileOpen, filesVars, rotating>>

\* Logger::clear
ClearBuffer(a) ==
    /\ at[a] = "idle" /\ Work /\ logMutex = Nobody
    /\ buffer' = [buffer EXCEPT ![a] = 0]
    /\ UNCHANGED <<at, clock, handler, logging, logMutex, fileOpen, filesVars, rotating>>

-----------------------------------------------------------------------------
(* The timers, and rotate().                                               *)

CloseFile == fileOpen' = FALSE

\* Settings with the file name the logger knows change nothing here, others
\* make it close its file and open one: that of the model is the same again.
RefreshSettings ==
    /\ Enters(Main, "open") /\ logMutex = Nobody
    /\ logMutex' = Main /\ CloseFile
    /\ UNCHANGED <<handler, logging, buffer, filesVars, rotating>>

Exists(i) == backups[i] # 0
Count == Cardinality({i \in Numbers : \A j \in 1 .. i : Exists(j)})

\* The file is too large: it is closed, and the backups are counted.
FlushTimer ==
    /\ Enters(Main, "remove") /\ logMutex = Nobody
    /\ fileOpen
    /\ logMutex' = Main /\ CloseFile
    /\ rotating' = Count
    /\ UNCHANGED <<handler, logging, buffer, filesVars>>

\* Mutant: one backup too many is kept.
TooManyButOne == MaxBackups > 0 /\ rotating > MaxBackups

\* while (maxBackups>0 && count>=maxBackups)
TooMany == MaxBackups > 0 /\ rotating >= MaxBackups

RemoveBackup ==
    /\ at[Main] = "remove" /\ TooMany
    /\ backups' = [backups EXCEPT ![rotating] = 0]
    /\ rotating' = rotating - 1
    /\ UNCHANGED <<threadVars, handler, logging, logMutex, buffer, fileOpen, current>>

Removed ==
    /\ Goes(Main, "remove", "rename") /\ ~TooMany
    /\ UNCHANGED logVars

\* QFile::rename replaces nothing; the name is free, unless the disk fails.
RenameBackup ==
    /\ at[Main] = "rename" /\ rotating > 0
    /\ backups' = IF Exists(rotating + 1) THEN backups
                  ELSE [backups EXCEPT ![rotating + 1] = backups[rotating], ![rotating] = 0]
    /\ rotating' = rotating - 1
    /\ UNCHANGED <<threadVars, handler, logging, logMutex, buffer, fileOpen, current>>

RenameLog ==
    /\ Goes(Main, "rename", "open") /\ rotating = 0
    /\ IF Exists(1) \/ current = 0 THEN UNCHANGED filesVars
       ELSE /\ backups' = [backups EXCEPT ![1] = current]
            /\ current' = 0
    /\ UNCHANGED <<handler, logging, logMutex, buffer, fileOpen, rotating>>

Newest == Max({current} \cup {backups[i] : i \in Numbers})

\* open() appends to the file, or creates it.
Open ==
    /\ Goes(Main, "open", "idle") /\ Newest < MaxLogs
    /\ fileOpen' = TRUE
    /\ current' = IF current = 0 THEN Newest + 1 ELSE current
    /\ logMutex' = Nobody
    /\ UNCHANGED <<handler, logging, buffer, backups, rotating>>

\* It cannot: the warning goes through msgHandler to a log() that waits for the
\* mutex this thread holds.
OpenFails ==
    /\ Goes(Main, "open", "message") /\ handler = Nobody
    /\ handler' = Main /\ logging' = Main
    /\ UNCHANGED <<logMutex, buffer, fileOpen, filesVars, rotating>>

-----------------------------------------------------------------------------

Logs ==
    \/ \E a \in Actors : LogMessage(a) \/ LockLog(a) \/ Log(a) \/ ClearBuffer(a)
    \/ RefreshSettings \/ FlushTimer \/ RemoveBackup \/ Removed \/ RenameBackup
    \/ RenameLog \/ Open \/ OpenFails

Kept == {i \in Numbers : Exists(i)}

\* Rotation loses no log but the oldest: the backups are the newest logs, newer
\* ones under lower numbers and no more of them than maxBackups, wherever in a
\* rotation the process was killed.
BackupsInOrder ==
    /\ \A i, j \in Kept : i < j => backups[i] > backups[j]
    /\ \A i \in Kept : current # 0 => current > backups[i]
    /\ \A i \in Kept : \A g \in backups[i] .. Newest :
        g \in {current} \cup {backups[j] : j \in Kept}
    /\ MaxBackups > 0 => Cardinality(Kept) <= MaxBackups

=============================================================================
