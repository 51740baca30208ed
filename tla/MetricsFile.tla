------------------------------ MODULE MetricsFile ------------------------------
(***************************************************************************)
(* The metrics files that the server processes of one user share           *)
(* (metrics_export.rs): each process appends its batches to the file of     *)
(* the day under an advisory lock on a sibling .lock file (file_lock.rs),   *)
(* and removes the files past the retention when it starts.  Days are       *)
(* counted from 1970-01-01; a file is named by its date.                    *)
(*                                                                         *)
(* Which events a batch holds is in Telemetry.  A line is one write of an   *)
(* append-only file, hence one step.                                        *)
(***************************************************************************)
EXTENDS Integers, Sequences, FiniteSets, SequencesExt

CONSTANTS
  Writers,        \* processes, each with one MetricsWriter
  FirstDays,      \* the day it is at the beginning
  DayLeaps,       \* bound: how far the date moves at once
  LastDayBound,   \* bound: days the date moves in all
  BatchLimit,     \* events of one batch (100)
  BatchBound,     \* bound: batches of all processes
  StartBound,     \* bound: processes started
  FaultBound      \* bound: failed opens, locks and removals, and crashes

ASSUME MetricsAssumption ==
  FirstDays \subseteq Nat /\ DayLeaps \subseteq Nat /\ BatchLimit \in Nat

Retention == 30   \* days

VARIABLES
  today,     \* days since the epoch
  elapsed,   \* days since the beginning
  files,     \* date -> [day, lines]; the day is what it was when the path was made
  lockedBy,  \* the process that holds the lock file of a date
  writer,    \* the processes' MetricsWriter::run
  starts,    \* processes started
  batches,   \* batches received
  faults,
  removed,   \* what was removed: [day, on]
  spared     \* dates whose removal failed

fileVars == <<files, lockedBy>>
metricsVars == <<today, elapsed, fileVars, writer, starts, batches, faults, removed, spared>>

-----------------------------------------------------------------------------
(* Dates.                                                                  *)

\* date_to_days_since_epoch, of years from March to February; u32, so the
\* difference is cut at zero.
DaysOf(date) ==
  LET early == date[2] <= 2
      y == IF early THEN date[1] - 1 ELSE date[1]
      m == IF early THEN date[2] + 9 ELSE date[2] - 3
      era == y \div 400
      yoe == y - era * 400
      doy == (153 * m + 2) \div 5 + date[3] - 1
      doe == yoe * 365 + yoe \div 4 - yoe \div 100 + doy
      sum == era * 146097 + doe
  IN  IF sum >= 719468 THEN sum - 719468 ELSE 0

\* current_date_str.
DateOf(days) ==
  LET z == days + 719468
      era == z \div 146097
      doe == z - era * 146097
      yoe == (doe - doe \div 1460 + doe \div 36524 - doe \div 146096) \div 365
      doy == doe - (365 * yoe + yoe \div 4 - yoe \div 100)
      mp == (5 * doy + 2) \div 153
      d == doy - (153 * mp + 2) \div 5 + 1
      m == IF mp < 10 THEN mp + 3 ELSE mp - 9
  IN  <<yoe + era * 400 + IF m <= 2 THEN 1 ELSE 0, m, d>>

-----------------------------------------------------------------------------
Off == [pc |-> "off", now |-> 0, todo |-> {}, date |-> <<>>, day |-> 0,
        batch |-> 0, left |-> 0, locked |-> FALSE]

Free(date) == \A p \in Writers : <<p, date>> \notin lockedBy

MetricsInit ==
  /\ today \in FirstDays /\ elapsed = 0
  /\ files = <<>>
  /\ lockedBy = {}
  /\ writer = [p \in Writers |-> Off]
  /\ starts = 0 /\ batches = 0 /\ faults = 0
  /\ removed = {} /\ spared = {}

Fault == faults < FaultBound /\ faults' = faults + 1

Set(p, w) == writer' = [writer EXCEPT ![p] = w]

-----------------------------------------------------------------------------
(* cleanup_old_files, before the first event is taken.                     *)

\* The directory is read as it is; the .lock files in it have another
\* extension and are passed over.
StartWriter(p) ==
  /\ writer[p].pc = "off" /\ starts < StartBound
  /\ starts' = starts + 1
  /\ Set(p, [Off EXCEPT !.pc = "cleaning", !.now = today, !.todo = DOMAIN files])
  /\ UNCHANGED <<today, elapsed, fileVars, batches, faults, removed, spared>>

\* Bug: the thirtieth day is past already.
ExpiredEarly(date, now) == now > DaysOf(date) /\ now - DaysOf(date) >= Retention

Expired(date, now) == now > DaysOf(date) /\ now - DaysOf(date) > Retention

\* One entry.  Failures are ignored; a file another process has removed is
\* one of them.
CleanFile(p, date) ==
  /\ writer[p].pc = "cleaning" /\ date \in writer[p].todo
  /\ LET w == [writer[p] EXCEPT !.todo = @ \ {date}]
         rest == [d \in DOMAIN files \ {date} |-> files[d]]
     IN  \/ /\ ~Expired(date, w.now)
            /\ Set(p, w)
            /\ UNCHANGED <<files, faults, removed, spared>>
         \/ /\ Expired(date, w.now)
            /\ Set(p, [w EXCEPT !.pc = "unlocking", !.date = date])
            /\ files' = rest
            /\ removed' = removed \cup {[day |-> files[d].day, on |-> w.now] : d \in {date} \cap DOMAIN files}
            /\ UNCHANGED <<faults, spared>>
         \/ /\ Expired(date, w.now)
            /\ Fault
            /\ Set(p, [w EXCEPT !.pc = "unlocking", !.date = date])
            /\ spared' = spared \cup {date}
            /\ UNCHANGED <<files, removed>>
  /\ UNCHANGED <<today, elapsed, lockedBy, starts, batches>>

\* Its lock file goes with it: whoever held that keeps a lock on a file
\* nobody else will open.
CleanLock(p) ==
  /\ writer[p].pc = "unlocking"
  /\ lockedBy' = {h \in lockedBy : h[2] # writer[p].date}
  /\ Set(p, [writer[p] EXCEPT !.pc = "cleaning"])
  /\ UNCHANGED <<today, elapsed, files, starts, batches, faults, removed, spared>>

CleanEnd(p) ==
  /\ writer[p].pc = "cleaning" /\ writer[p].todo = {}
  /\ Set(p, [writer[p] EXCEPT !.pc = "idle", !.date = <<>>])
  /\ UNCHANGED <<today, elapsed, fileVars, starts, batches, faults, removed, spared>>

-----------------------------------------------------------------------------
(* A batch.                                                                *)

\* receive_batch: one event or more, up to the limit; then, before anything
\* is awaited, rotate_metrics_file looks at the date.
ReceiveBatch(p) ==
  /\ writer[p].pc = "idle" /\ batches < BatchBound
  /\ batches' = batches + 1
  /\ \E k \in 1..BatchLimit :
       Set(p, [writer[p] EXCEPT !.pc = "received", !.batch = batches + 1, !.left = k,
                                !.date = DateOf(today), !.day = today])
  /\ UNCHANGED <<today, elapsed, fileVars, starts, faults, removed, spared>>

\* ensure_metrics_dir, then the file is opened, and created when it is not
\* there; a file that cannot be opened loses the batch.
OpenFile(p) ==
  /\ writer[p].pc = "received"
  /\ LET w == writer[p]
     IN  \/ /\ files' = IF w.date \in DOMAIN files THEN files
                        ELSE [d \in DOMAIN files \cup {w.date} |->
                                IF d = w.date THEN [day |-> w.day, lines |-> <<>>] ELSE files[d]]
            /\ Set(p, [w EXCEPT !.pc = "opened"])
            /\ UNCHANGED faults
         \/ /\ Fault
            /\ Set(p, [Off EXCEPT !.pc = "idle", !.now = w.now])
            /\ UNCHANGED files
  /\ UNCHANGED <<today, elapsed, lockedBy, starts, batches, removed, spared>>

\* Bug: each process has a lock file of its own.
OwnLock(p) ==
  /\ writer[p].pc = "opened"
  /\ lockedBy' = lockedBy \cup {<<p, writer[p].date>>}
  /\ Set(p, [writer[p] EXCEPT !.pc = "writing", !.locked = TRUE])
  /\ UNCHANGED <<today, elapsed, files, starts, batches, faults, removed, spared>>

\* acquire_metrics_lock waits on the blocking pool until the lock is free;
\* without a lock the batch is written all the same.
AcquireLock(p) ==
  /\ writer[p].pc = "opened"
  /\ LET date == writer[p].date
     IN  \/ /\ Free(date)
            /\ lockedBy' = lockedBy \cup {<<p, date>>}
            /\ Set(p, [writer[p] EXCEPT !.pc = "writing", !.locked = TRUE])
            /\ UNCHANGED faults
         \/ /\ Fault
            /\ Set(p, [writer[p] EXCEPT !.pc = "writing", !.locked = FALSE])
            /\ UNCHANGED lockedBy
  /\ UNCHANGED <<today, elapsed, files, starts, batches, removed, spared>>

\* One event of flush_batch.
WriteLine(p) ==
  /\ writer[p].pc = "writing" /\ writer[p].left > 0
  /\ LET w == writer[p]
     IN  /\ files' = [files EXCEPT ![w.date].lines =
                        Append(@, [batch |-> w.batch, locked |-> w.locked])]
         /\ Set(p, [w EXCEPT !.left = @ - 1])
  /\ UNCHANGED <<today, elapsed, lockedBy, starts, batches, faults, removed, spared>>

\* The file is flushed and the guard dropped.
EndFlush(p) ==
  /\ writer[p].pc = "writing" /\ writer[p].left = 0
  /\ lockedBy' = {h \in lockedBy : h[1] # p}
  /\ Set(p, [Off EXCEPT !.pc = "idle", !.now = writer[p].now])
  /\ UNCHANGED <<today, elapsed, files, starts, batches, faults, removed, spared>>

-----------------------------------------------------------------------------
\* The process ends between two batches, or dies anywhere; the system drops
\* its lock.
StopWriter(p) ==
  /\ writer[p].pc # "off"
  /\ \/ writer[p].pc = "idle" /\ UNCHANGED faults
     \/ writer[p].pc # "idle" /\ Fault
  /\ lockedBy' = {h \in lockedBy : h[1] # p}
  /\ Set(p, Off)
  /\ UNCHANGED <<today, elapsed, files, starts, batches, removed, spared>>

InHand(p) == writer[p].pc \in {"received", "opened", "writing"}

\* Bound: a batch is written within the retention of the day it was
\* received, and a cleanup ends on the day it began.
PassDays(n) ==
  /\ n \in DayLeaps /\ elapsed + n <= LastDayBound
  /\ \A p \in Writers : /\ InHand(p) => today + n <= writer[p].day + Retention
                        /\ writer[p].pc \notin {"cleaning", "unlocking"}
  /\ today' = today + n /\ elapsed' = elapsed + n
  /\ UNCHANGED <<fileVars, writer, starts, batches, faults, removed, spared>>

MetricsNext ==
  \/ \E p \in Writers :
       \/ StartWriter(p) \/ CleanLock(p) \/ CleanEnd(p)
       \/ \E date \in writer[p].todo : CleanFile(p, date)
       \/ ReceiveBatch(p) \/ OpenFile(p) \/ AcquireLock(p) \/ WriteLine(p) \/ EndFlush(p)
       \/ StopWriter(p)
  \/ \E n \in DayLeaps : PassDays(n)

MetricsSpec == MetricsInit /\ [][MetricsNext]_metricsVars

-----------------------------------------------------------------------------
\* Lines of a batch are not mixed with those of another in the same file
\* unless one of the two processes went on without the lock
\* (metrics_export.rs:69-73, "to prevent interleaving from concurrent
\* processes"), whoever starts, stops or cleans up meanwhile.
BatchesTogether ==
  \A date \in DOMAIN files :
    LET lines == files[date].lines
    IN  \A i, k \in DOMAIN lines : \A j \in i..k :
          lines[i].batch = lines[k].batch /\ lines[i].locked /\ lines[j].locked
            => lines[j].batch = lines[i].batch

\* The thirty days of metrics.rs:8 are counted over the names of the files,
\* across leap days and the turn of the year: nothing younger is removed, and
\* a process that takes events has removed whatever was older when it began.
RetentionExact ==
  /\ \A r \in removed : r.on > r.day + Retention
  /\ \A p \in Writers, date \in DOMAIN files \ spared :
       writer[p].pc = "idle" \/ InHand(p) => files[date].day + Retention >= writer[p].now
==============================================================================
