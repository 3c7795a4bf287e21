---------------------------- MODULE LogPipeline ----------------------------
(***************************************************************************)
(* The logger (adapters/logging/logger.adapter.ts): a bounded queue that a *)
(* setImmediate callback drains to stdout, and a log file that rotates     *)
(* through numbered backups.  Lines are numbered as they reach the file.   *)
(* The renames of one rotation are steps, because a rename may fail and    *)
(* the process may die between two of them, and the files stay.            *)
(***************************************************************************)
EXTENDS Naturals, Sequences

CONSTANTS
  MaxSize,      \* capacity of the queue: 10000 in the code
  LineBudget,   \* lines a file holds: logMaxBytes in lines
  MaxBackups,   \* the largest logBackupCount
  MaxLines      \* bound: lines ever logged

Levels == {"debug", "info", "warn", "error"}
Weight == [debug |-> 10, info |-> 20, warn |-> 30, error |-> 40]

VARIABLES
  level,        \* activeConfig.level, the effective one
  logged,       \* lines logged so far
  queue, flushing,
  immediate,    \* a flush callback is pending
  files,        \* files[0] is the log, files[i] its backup i
  backupCount,
  appended,     \* lines that reached the log file
  rotating,     \* the file to rename next, Writing when the line is to be appended, else NoBackup
  alive,
  clean         \* no rotation has failed or been cut short

vars == <<level, logged, queue, flushing, immediate, files, backupCount, appended, rotating, alive, clean>>

NoBackup == MaxBackups + 1
Writing == MaxBackups + 2

TypeOK ==
  /\ level \in Levels
  /\ queue \in Seq(Levels) /\ Len(queue) <= MaxSize
  /\ flushing \in BOOLEAN /\ immediate \in BOOLEAN /\ alive \in BOOLEAN
  /\ files \in [0..MaxBackups + 1 -> Seq(1..MaxLines)]
  /\ \A i \in DOMAIN files : Len(files[i]) <= LineBudget
  /\ \A i \in DOMAIN files : i > backupCount /\ i > 1 => files[i] = <<>>
  /\ rotating \in 0..Writing

\* In production and staging nothing below warn is logged.
Effective(requested, production) ==
  IF production /\ Weight[requested] < Weight.warn THEN "warn" ELSE requested

Init ==
  /\ \E requested \in Levels, production \in BOOLEAN : level = Effective(requested, production)
  /\ logged = 0 /\ queue = <<>> /\ flushing = FALSE /\ immediate = FALSE
  /\ files = [i \in 0..MaxBackups + 1 |-> <<>>]
  /\ backupCount \in 0..MaxBackups
  /\ appended = 0 /\ rotating = NoBackup /\ alive = TRUE /\ clean = TRUE

\* Mutant: the limit of the queue is not looked at.
PushedAlways(l) == Append(queue, l)

\* The oldest line gives way when the queue is full.
Pushed(l) == Append(IF Len(queue) >= MaxSize THEN Tail(queue) ELSE queue, l)

\* scheduleFlush: one callback at a time.
ScheduleFlush == flushing' = TRUE /\ immediate' = (immediate \/ ~flushing)

\* A call of the logger: below the level nothing happens; otherwise the line
\* is queued and writing it to the file starts with the rotation.
Log(l) ==
  /\ alive /\ rotating = NoBackup /\ logged < MaxLines
  /\ Weight[l] >= Weight[level]
  /\ logged' = logged + 1
  /\ queue' = Pushed(l)
  /\ ScheduleFlush
  /\ rotating' = IF Len(files[0]) < LineBudget THEN Writing ELSE IF backupCount > 1 THEN backupCount - 1 ELSE 0
  /\ UNCHANGED <<level, files, backupCount, appended, alive, clean>>

\* Mutant: a loop that ends before the newest backup.
AfterOffByOne(i) == IF i = 0 THEN Writing ELSE IF i > 2 THEN i - 1 ELSE 0

\* The next rename after that of file i: downwards, the log itself last.
After(i) == IF i = 0 THEN Writing ELSE i - 1

\* One rename of a file to the next number; a missing backup is skipped.
RenameBackup ==
  /\ alive /\ rotating \in 0..MaxBackups
  /\ files' = IF files[rotating] = <<>> THEN files
              ELSE [files EXCEPT ![rotating + 1] = files[rotating], ![rotating] = <<>>]
  /\ rotating' = After(rotating)
  /\ UNCHANGED <<level, logged, queue, flushing, immediate, backupCount, appended, alive, clean>>

AppendLine ==
  /\ alive /\ rotating = Writing
  /\ appended' = appended + 1
  /\ files' = [files EXCEPT ![0] = Append(@, appended + 1)]
  /\ rotating' = NoBackup
  /\ UNCHANGED <<level, logged, queue, flushing, immediate, backupCount, alive, clean>>

\* A file operation fails: the error is swallowed and the line is not written.
FileFails ==
  /\ alive /\ rotating # NoBackup
  /\ rotating' = NoBackup /\ clean' = FALSE
  /\ UNCHANGED <<level, logged, queue, flushing, immediate, files, backupCount, appended, alive>>

\* Once the queue is drained the next push schedules a flush again.
FlushingAfter(rest) == rest # <<>>

\* The flush callback writes every line.
Flush ==
  /\ alive /\ rotating = NoBackup /\ immediate
  /\ queue' = <<>> /\ immediate' = FALSE /\ flushing' = FlushingAfter(<<>>)
  /\ UNCHANGED <<level, logged, files, backupCount, appended, rotating, alive, clean>>

\* stdout refuses line k: it is lost, a new callback takes the rest, and the
\* exception ends the process (main, uncaughtException) with the queue unwritten.
FlushFails(k) ==
  /\ alive /\ rotating = NoBackup /\ immediate /\ k \in DOMAIN queue
  /\ queue' = SubSeq(queue, k + 1, Len(queue))
  /\ flushing' = FlushingAfter(queue') /\ immediate' = FlushingAfter(queue')
  /\ alive' = FALSE
  /\ UNCHANGED <<level, logged, files, backupCount, appended, rotating, clean>>

Dies ==
  /\ alive /\ alive' = FALSE /\ clean' = (clean /\ rotating = NoBackup)
  /\ UNCHANGED <<level, logged, queue, flushing, immediate, files, backupCount, appended, rotating>>

\* A new process finds the files as they are.
Restart ==
  /\ ~alive /\ alive' = TRUE
  /\ queue' = <<>> /\ flushing' = FALSE /\ immediate' = FALSE /\ rotating' = NoBackup
  /\ UNCHANGED <<level, logged, files, backupCount, appended, clean>>

Next ==
  \/ \E l \in Levels : Log(l)
  \/ RenameBackup \/ AppendLine \/ FileFails \/ Flush
  \/ \E k \in 1..MaxSize : FlushFails(k)
  \/ Dies \/ Restart

Spec == Init /\ [][Next]_vars

-----------------------------------------------------------------------------
\* Line n is in the log or in a backup.
Held(n) == \E i \in DOMAIN files : \E k \in DOMAIN files[i] : files[i][k] = n

\* Read from the oldest backup to the log, the lines are in their order.
InOrder ==
  \A i, j \in DOMAIN files : \A k \in DOMAIN files[i], m \in DOMAIN files[j] :
    i > j \/ (i = j /\ k < m) => files[i][k] < files[j][m]

\* With a line, every later line is there too.
NoGap == \A n \in 1..MaxLines : Held(n) => n <= appended /\ \A m \in n..appended : Held(m)

\* What the backups and the log hold when they are full, without the log's own lines but one.
Room == LineBudget * (IF backupCount > 1 THEN backupCount ELSE 1) + 1

\* The backups and the log, oldest first, hold the newest lines without a gap
\* and in order, also after a rotation that failed or died half way; and all
\* there is room for if none did.
FilesHoldNewest ==
  /\ InOrder /\ NoGap
  /\ clean /\ rotating = NoBackup => \A n \in 1..appended : appended < n + Room => Held(n)

\* A line that is waiting has a flush coming: the queue is never stuck.
QueueDrains == alive /\ queue # <<>> => immediate

============================================================================
