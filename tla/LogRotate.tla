----------------------------- MODULE LogRotate -----------------------------
(***************************************************************************)
(* The daily log files (vendor/mylog/mylog.go): InitLog, and then a timer  *)
(* shortly after midnight, run createLogFile, which opens a file named     *)
(* after the day, removes the oldest of the files it has listed in the     *)
(* channel logFileChan if that is full, lists the new one, only then lets  *)
(* the log go to it, and arms the timer again.  The process may be killed  *)
(* and started again: the files stay, the list does not.  A file is the    *)
(* day in its name here.                                                   *)
(***************************************************************************)
EXTENDS Integers, FiniteSets, Sequences, SequencesExt

CONSTANTS FileNums,     \* what the flag log.filenum may be
          MaxDay,       \* bound on the days
          MaxRuns,      \* bound on the starts of the process
          MaxBacks      \* bound on how often the clock is set back by a day

LogRotateAssumption ==
  FileNums \subseteq Nat /\ MaxDay \in Nat \ {0} /\ MaxRuns \in Nat /\ MaxBacks \in Nat

VARIABLES
  logFileNum,   \* the flag log.filenum, the same at every start
  today,        \* the date
  disk,         \* the files there are
  logFileChan,  \* the files listed, the oldest first
  out,          \* the file lines are written to, or NoDay
  logfile,      \* the file createLogFile is about
  nextDay,      \* the timer: the day of its deadline, or NoDay
  pc,           \* where createLogFile is; "idle" outside it, "down" without a process
  runs, backs,  \* starts so far, times the clock went back
  made,         \* the files this process has opened
  kept          \* the files a process failed to remove, and has not opened since

vars == <<logFileNum, today, disk, logFileChan, out, logfile, nextDay, pc, runs, backs, made, kept>>

Days == 1..MaxDay
NoDay == 0

Init ==
  /\ logFileNum \in FileNums /\ today = 1 /\ disk = {} /\ logFileChan = <<>>
  /\ out = NoDay /\ logfile = NoDay /\ nextDay = NoDay
  /\ pc = "down" /\ runs = 0 /\ backs = 0 /\ made = {} /\ kept = {}
-----------------------------------------------------------------------------
InitLog ==
  /\ pc = "down" /\ runs < MaxRuns
  /\ runs' = runs + 1 /\ pc' = "name"
  /\ logFileChan' = <<>> /\ out' = NoDay /\ logfile' = NoDay /\ nextDay' = NoDay
  /\ made' = {}
  /\ UNCHANGED <<today, disk, backs, kept>>

(* The timer is started with a duration: its deadline counts the days that *)
(* have really passed, whatever the clock says.                            *)
Passed == today + backs
IsDue == nextDay # NoDay /\ Passed >= nextDay

Fire ==
  /\ pc = "idle" /\ IsDue
  /\ pc' = "name" /\ nextDay' = NoDay
  /\ UNCHANGED <<today, disk, logFileChan, out, logfile, runs, backs, made, kept>>

Name ==
  /\ pc = "name" /\ logfile' = today /\ pc' = "open"
  /\ UNCHANGED <<today, disk, logFileChan, out, nextDay, runs, backs, made, kept>>

(* The package variable lf leads to the new file from here on; the log     *)
(* does not.                                                               *)
Open ==
  /\ pc = "open" /\ disk' = disk \cup {logfile}
  /\ made' = made \cup {logfile} /\ kept' = kept \ {logfile}
  /\ pc' = "trim"
  /\ UNCHANGED <<today, logFileChan, out, logfile, nextDay, runs, backs>>

(* The oldest leaves the list if that is full.  With logFileNum 0 the      *)
(* channel is empty and "full": the receive never returns.                 *)
IsFull(n) == n >= logFileNum

Newest(l) == l[Len(l)]   \* mutant: the wrong end of the list
Oldest(l) == Head(l)

Trim ==
  /\ pc = "trim"
  /\ IF IsFull(Len(logFileChan))
     THEN /\ logFileChan # <<>>
          /\ \E ok \in BOOLEAN :   \* os.Remove may fail: it is logged
               LET oldest == Oldest(logFileChan)
               IN  IF ok THEN disk' = disk \ {oldest} /\ kept' = kept \ {oldest}
                         ELSE disk' = disk /\ kept' = kept \cup (disk \cap {oldest})
          /\ logFileChan' = Tail(logFileChan)
     ELSE UNCHANGED <<disk, kept, logFileChan>>
  /\ pc' = "list"
  /\ UNCHANGED <<today, out, logfile, nextDay, runs, backs, made>>

List ==
  /\ pc = "list"
  /\ IF Len(logFileChan) >= logFileNum
     THEN pc' = "panic" /\ UNCHANGED logFileChan
     ELSE pc' = "redirect" /\ logFileChan' = Append(logFileChan, logfile)
  /\ UNCHANGED <<today, disk, out, logfile, nextDay, runs, backs, made, kept>>

(* Standard error and the log go to the new file. *)
Redirect ==
  /\ pc = "redirect" /\ out' = logfile /\ pc' = "arm"
  /\ UNCHANGED <<today, disk, logFileChan, logfile, nextDay, runs, backs, made, kept>>

(* getNextDay asks for the date again. *)
Following(d) == d + 1

Arm ==
  /\ pc = "arm" /\ nextDay' = Following(Passed) /\ pc' = "idle"
  /\ UNCHANGED <<today, disk, logFileChan, out, logfile, runs, backs, made, kept>>

(* The process is killed, or ended by log.Fatalln of a failed open. *)
Down ==
  /\ pc # "down" /\ pc' = "down"
  /\ UNCHANGED <<today, disk, logFileChan, out, logfile, nextDay, runs, backs, made, kept>>

(* External: the clock.  Between the name and the timer, and between the   *)
(* deadline and the timer's function, there is less than a day.            *)
Midnight ==
  /\ pc \in {"open", "trim", "list", "redirect", "arm"} => logfile = today
  /\ pc = "idle" => ~ IsDue
  /\ today < MaxDay /\ today' = today + 1
  /\ UNCHANGED <<disk, logFileChan, out, logfile, nextDay, pc, runs, backs, made, kept>>

SetBack ==
  /\ backs < MaxBacks /\ today > 1 /\ today' = today - 1 /\ backs' = backs + 1
  /\ UNCHANGED <<disk, logFileChan, out, logfile, nextDay, pc, runs, made, kept>>

createLogFile == Name \/ Open \/ Trim \/ List \/ Redirect \/ Arm

Next ==
  /\ InitLog \/ Fire \/ createLogFile \/ Down \/ Midnight \/ SetBack
  /\ UNCHANGED logFileNum

Spec == Init /\ [][Next]_vars
-----------------------------------------------------------------------------
TypeOK ==
  /\ logFileNum \in FileNums /\ today \in Days /\ disk \subseteq Days
  /\ logFileChan \in Seq(Days) /\ Len(logFileChan) <= logFileNum
  /\ {out, logfile} \subseteq Days \cup {NoDay} /\ nextDay \in 0..MaxDay + 1 + MaxBacks
  /\ pc \in {"down", "idle", "name", "open", "trim", "list", "redirect", "arm", "panic"}
  /\ runs \in 0..MaxRuns /\ backs \in 0..MaxBacks /\ made \subseteq Days /\ kept \subseteq disk

(* mylog.go:129 and 139: the receive at line 131 always finds a file to    *)
(* remove, and the panic at line 140 is not reached, unless logFileNum is  *)
(* 0: then InitLog never returns.                                          *)
RoomIsMade ==
  /\ pc # "panic"
  /\ logFileNum > 0 => (pc = "trim" /\ IsFull(Len(logFileChan)) => logFileChan # <<>>)

(* mylog.go:132: the file lines are written to is not removed while it is  *)
(* in use, as long as the clock is never set back.  With logFileNum 1 it   *)
(* is: it is the only file listed, and lines go to it until line 146.      *)
CurrentKept ==
  backs = 0 /\ pc # "down" /\ out # NoDay =>
    out \in disk \/ (logFileNum = 1 /\ pc \in {"list", "redirect"})

(* mylog.go:129-142: of the files one process has opened there are never   *)
(* more than logFileNum, and one while it is creating the next, but for    *)
(* those it could not remove; and each of these is on the list.            *)
FilesBounded ==
  /\ Cardinality((made \cap disk) \ kept) <= logFileNum + 1
  /\ pc = "idle" => (made \cap disk) \ kept \subseteq ToSet(logFileChan)

(* mylog.go:88: a start forgets the files of the runs before, which stay   *)
(* for ever; but the disk does not fill faster than that: every start      *)
(* leaves at most logFileNum + 1, and those it could not remove.           *)
DiskBounded == Cardinality(disk \ kept) <= runs * (logFileNum + 1)

(* mylog.go:153: the log does not stay on a past day's file: while the     *)
(* timer waits, lines go to the file of the day, or of the day before if   *)
(* it was midnight between the choice of the name and the timer, or just   *)
(* now; as long as the clock is never set back.                            *)
FileOfTheDay == backs = 0 /\ pc = "idle" /\ ~ IsDue => out \in {today, today - 1}
=============================================================================
