--------------------------- MODULE LearningWindow ---------------------------
(***************************************************************************)
(* The learning window of `nighttrade learn': the last row of              *)
(* learning_sessions, the LearningSession a process holds of it, and the   *)
(* loop that drives it through cycles, day roll-overs, the memory          *)
(* rotation, Ctrl+C, kills and restarts.                                   *)
(*                                                                         *)
(* Time passes in units of one cycle interval.  The row keeps its age      *)
(* (now minus start_ts) instead of a date, and the calendar is the number  *)
(* of units since midnight: no clock is needed, so a behaviour may go on   *)
(* for ever.                                                               *)
(***************************************************************************)
EXTENDS Integers

CONSTANTS
  TargetDays,   \* target_days
  DayUnits,     \* cycle intervals in a day
  MaxCycles,    \* _MAX_CYCLES_BEFORE_RESTART
  AbortThreshold,   \* _ABORT_THRESHOLD
  Mishaps,      \* what may go wrong
  MaxMishaps    \* bound: how often

MishapKinds == {"cycle", "record", "rollup", "signal", "kill"}

ASSUME LearningAssumption ==
  /\ {TargetDays, DayUnits, MaxCycles, AbortThreshold} \subseteq Nat \ {0}
  /\ Mishaps \subseteq MishapKinds
  /\ MaxMishaps \in Nat

VARIABLES
  pc,        \* where the loop is; "down" while no process runs
  row,       \* the last row of learning_sessions
  cycle,     \* _cycle
  stop,      \* _stop
  failures,  \* consecutive_failures
  lastDay,   \* _last_day: "none", the day that is "today", or a "past" one
  midnight,  \* units since midnight
  seen,      \* today has had a completed cycle
  owed,      \* an earlier day has had some and is not rolled up
  missed,    \* such a day never will be
  futile,    \* history: cycles begun since this process last completed one
  mishaps    \* how many of MaxMishaps have happened

memory == <<cycle, stop, failures, lastDay>>
calendar == <<midnight, seen, owed, missed>>
vars == <<pc, row, memory, calendar, futile, mishaps>>

-----------------------------------------------------------------------------
Window == TargetDays * DayUnits

NoRow == [status |-> "none", age |-> 0, cycles |-> 0]
NewRow == [status |-> "active", age |-> 0, cycles |-> 0]

(* day_number: clamped to the window.                                      *)
DayNumber ==
  IF row.age \div DayUnits + 1 < TargetDays THEN row.age \div DayUnits + 1
  ELSE TargetDays

(* is_complete.  The first variant is satisfied with the last day; the     *)
(* other is a loop that does not ask.                                      *)
NeverAsked == FALSE
OnLastDay == DayNumber = TargetDays
IsComplete == row.age >= Window

(* resume_or_create: only an active row is resumed.  The variant always    *)
(* opens a new window.                                                     *)
AlwaysCreate == NewRow
ResumeOrCreate == IF row.status = "active" THEN row ELSE NewRow

(* update_learning_session: the cycles of this process, and a status; that *)
(* of _learning_cycle has the default status.                              *)
Marked(status) == [row EXCEPT !.cycles = cycle, !.status = status]
Progress == Marked("active")

(* A cycle that gets through ends the streak; the variant counts all the   *)
(* failures of a process.                                                  *)
NeverForgiven == failures
Recovered == 0

Suffers(kind) ==
  /\ kind \in Mishaps
  /\ mishaps < MaxMishaps
  /\ mishaps' = mishaps + 1

(* One unit of time; an age beyond the window is not told apart.           *)
Elapse ==
  /\ row' = [row EXCEPT !.age = IF @ < Window THEN @ + 1 ELSE @]
  /\ midnight' = (midnight + 1) % DayUnits
  /\ IF midnight' = 0
     THEN /\ lastDay' = IF lastDay = "today" THEN "past" ELSE lastDay
          /\ owed' = (owed \/ seen)
          /\ seen' = FALSE
     ELSE UNCHANGED <<lastDay, owed, seen>>
  /\ UNCHANGED missed

-----------------------------------------------------------------------------
Init ==
  /\ pc = "down"
  /\ row = NoRow
  /\ cycle = 0 /\ stop = FALSE /\ failures = 0 /\ lastDay = "none"
  /\ midnight \in 0..(DayUnits - 1)
  /\ seen = FALSE /\ owed = FALSE /\ missed = FALSE
  /\ futile = 0 /\ mishaps = 0

(* The learn command: resume_or_create, Observer(), start().               *)
Learn ==
  /\ pc = "down"
  /\ pc' = "looping"
  /\ row' = ResumeOrCreate
  /\ UNCHANGED <<memory, calendar, futile, mishaps>>

(* The process is gone, and its memory with it.                            *)
Down ==
  /\ pc' = "down"
  /\ cycle' = 0 /\ stop' = FALSE /\ failures' = 0 /\ lastDay' = "none"
  /\ futile' = 0

(* The head of the loop, the flag first, then the rotation, then the       *)
(* window; the finally block marks the row.                                *)
LeaveLoop ==
  /\ pc = "looping"
  /\ \/ stop \/ cycle >= MaxCycles
     \/ IsComplete
  /\ row' = Marked(IF stop \/ cycle >= MaxCycles THEN "stopped" ELSE "completed")
  /\ Down
  /\ UNCHANGED <<calendar, mishaps>>

BeginCycle ==
  /\ pc = "looping"
  /\ ~stop /\ cycle < MaxCycles /\ ~IsComplete
  /\ pc' = "cycling"
  /\ cycle' = cycle + 1
  /\ futile' = futile + 1
  /\ UNCHANGED <<row, stop, failures, lastDay, calendar, mishaps>>

(* The day roll-over of _learning_cycle: the day the process remembers is  *)
(* rolled up, or an error is recorded in its place.  The variant forgets   *)
(* the day.                                                                *)
DayForgotten(done) == missed' = (missed \/ owed)
RollOver(done) ==
  missed' = (missed \/ (owed /\ ~(lastDay = "past" /\ done)))

DayDone(done) ==
  /\ RollOver(done)
  /\ owed' = FALSE
  /\ seen' = TRUE
  /\ UNCHANGED midnight

(* All of _learning_cycle.                                                 *)
LearningCycle(done) ==
  /\ row' = Progress
  /\ DayDone(done)
  /\ lastDay' = "today"

EndCycle ==
  /\ pc = "cycling"
  /\ pc' = "resting"
  /\ \/ LearningCycle(TRUE) /\ UNCHANGED mishaps
     \/ lastDay = "past" /\ LearningCycle(FALSE) /\ Suffers("rollup")
  /\ failures' = Recovered
  /\ futile' = 0
  /\ UNCHANGED <<cycle, stop>>

(* A cycle that raises, before _learning_cycle has recorded its progress,  *)
(* after that, or after all of it (the heartbeat is refused).              *)
FailCycle ==
  /\ pc = "cycling"
  /\ failures + 1 < AbortThreshold
  /\ Suffers("cycle")
  /\ pc' = "resting"
  /\ \/ row' \in {row, Progress} /\ UNCHANGED <<lastDay, calendar>>
     \/ LearningCycle(TRUE)
  /\ failures' = failures + 1
  /\ UNCHANGED <<cycle, stop, futile>>

(* The failure that makes the loop give up, and one that insert_error      *)
(* cannot record: both leave through the finally block.                    *)
GiveUp ==
  /\ pc = "cycling"
  /\ \/ failures + 1 >= AbortThreshold /\ Suffers("cycle")
     \/ Suffers("record")
  /\ row' = Marked("stopped")
  /\ UNCHANGED calendar \/ DayDone(TRUE)
  /\ Down

(* What is left of the interval, which the flag cuts short.                *)
Rest ==
  /\ pc = "resting"
  /\ pc' = "looping"
  /\ \/ stop /\ UNCHANGED <<row, lastDay, calendar>>
     \/ Elapse
  /\ UNCHANGED <<cycle, stop, failures, futile, mishaps>>

(* Nobody runs the command, the loop sleeps while the market is closed, a  *)
(* cycle overshoots its interval, the rest is longer by the backoff.       *)
TimePasses ==
  /\ Elapse
  /\ UNCHANGED <<pc, cycle, stop, failures, futile, mishaps>>

Interrupt ==
  /\ ~stop
  /\ Suffers("signal")
  /\ stop' = TRUE
  /\ UNCHANGED <<pc, row, cycle, failures, lastDay, calendar, futile>>

(* A kill, or a finally block that is refused its write.                   *)
Kill ==
  /\ Suffers("kill")
  /\ Down
  /\ UNCHANGED <<row, calendar>>

(* What strikes a running process, wherever it is.                         *)
Strike == pc # "down" /\ (Interrupt \/ Kill)

-----------------------------------------------------------------------------
Loop == Learn \/ LeaveLoop \/ BeginCycle \/ EndCycle \/ FailCycle \/ GiveUp \/ Rest

Next == Loop \/ TimePasses \/ Strike

Spec == Init /\ [][Next]_vars

(* The loop goes on by itself, and whoever wants the window completed runs *)
(* the command again when it ended.                                        *)
FairSpec == Spec /\ WF_vars(Loop)

-----------------------------------------------------------------------------
(* Every variable keeps its range.                                         *)
TypeOK ==
  /\ pc \in {"down", "looping", "cycling", "resting"}
  /\ row \in [status : {"none", "active", "stopped", "completed"},
              age : 0..Window, cycles : 0..MaxCycles]
  /\ cycle \in 0..MaxCycles
  /\ failures \in 0..(AbortThreshold - 1)
  /\ futile \in 0..cycle
  /\ stop \in BOOLEAN
  /\ lastDay \in {"none", "today", "past"}
  /\ midnight \in 0..(DayUnits - 1)
  /\ {seen, owed, missed} \subseteq BOOLEAN
  /\ mishaps \in 0..MaxMishaps

(* A window is marked completed only when all of it has passed, however    *)
(* often it was interrupted and resumed.                                   *)
CompletedIsElapsed == row.status = "completed" => row.age = Window

(* A process never misses a day it has completed a cycle of: whatever      *)
(* cycles fail around midnight, only a process that was not there before   *)
(* may skip the day.                                                       *)
DayKeptByProcess == [][missed' => missed \/ lastDay = "none"]_vars

(* The clock of the window keeps running across kills (learning.py,        *)
(* resume_or_create), and failing cycles end the window only when          *)
(* AbortThreshold of them followed each other: what else ends it before    *)
(* its time is the flag, the rotation, or a failure that could not be      *)
(* recorded.                                                               *)
GivenUp == row.status = "active" /\ row'.status = "stopped"
ClockKeepsRunning ==
  [][/\ row.status = "active" => row'.age >= row.age
     /\ GivenUp => \/ stop \/ cycle >= MaxCycles
                   \/ futile >= AbortThreshold
                   \/ pc = "cycling" /\ "record" \in Mishaps]_vars

(* A window is completed in the end.                                       *)
WindowCompletes == <>(row.status = "completed")

(* A row keeps its ranges and is completed in time, never sooner.          *)
WindowIsHonest == TypeOK /\ CompletedIsElapsed
=============================================================================
