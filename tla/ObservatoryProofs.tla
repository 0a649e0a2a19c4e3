-------------------------- MODULE ObservatoryProofs --------------------------
(***************************************************************************)
(* Theorems about the learning window (its types, that a completed window  *)
(* has elapsed, that a process misses no day, and on what grounds alone it *)
(* may lose its clock), about the decisions of a cycle (that a hazard is   *)
(* held, that the parts of a decision agree), and about what is monitored: *)
(* the alerts, the readiness, the record of each day.                      *)
(***************************************************************************)
EXTENDS LearningWindow, Decisions, Monitoring, NumberProofs, SequenceTheorems

(* A day that is still today owes nothing: the last cycle rolled up every  *)
(* earlier one.                                                            *)
TodayOwesNothing == lastDay = "today" => ~owed

(* The failures in a row are of cycles since the last completed one, the   *)
(* cycle under way not yet among them.                                     *)
StreakIsFutile ==
  /\ failures <= futile
  /\ pc = "cycling" => failures + 1 <= futile

IInv == TypeOK /\ CompletedIsElapsed /\ TodayOwesNothing /\ StreakIsFutile

Rows == [status : {"none", "active", "stopped", "completed"},
         age : 0..Window, cycles : 0..MaxCycles]

-----------------------------------------------------------------------------
LEMMA WindowIsPositive == Window \in Nat \ {0}
<1>1. \A a, b \in Nat \ {0} : a * b \in Nat \ {0}
  BY SMTT(40)
<1>2. QED
  BY <1>1, LearningAssumption DEF Window

(* Every row the code writes is a row, and only the age of a window that   *)
(* has elapsed stays where it is.                                          *)
LEMMA RowsWritten ==
  ASSUME TypeOK
  PROVE  /\ NewRow \in Rows
         /\ ResumeOrCreate \in Rows
         /\ \A s \in {"active", "stopped", "completed"} :
              Marked(s) \in Rows /\ Marked(s).status = s /\ Marked(s).age = row.age
<1>1. row \in Rows /\ cycle \in 0..MaxCycles
  BY DEF TypeOK, Rows
<1>2. 0 \in 0..Window /\ 0 \in 0..MaxCycles
  BY WindowIsPositive, LearningAssumption
<1>3. NewRow \in Rows
  BY <1>2 DEF NewRow, Rows
<1>4. ResumeOrCreate \in Rows
  BY <1>1, <1>3 DEF ResumeOrCreate
<1>5. ASSUME NEW s \in {"active", "stopped", "completed"}
      PROVE  Marked(s) \in Rows /\ Marked(s).status = s /\ Marked(s).age = row.age
  <2>1. [row EXCEPT !.cycles = cycle] \in Rows
    BY <1>1 DEF Rows
  <2>2. \A r \in Rows : /\ [r EXCEPT !.status = s] \in Rows
                        /\ [r EXCEPT !.status = s].status = s
                        /\ [r EXCEPT !.status = s].age = r.age
    BY DEF Rows
  <2>3. [row EXCEPT !.cycles = cycle].age = row.age
    BY <1>1 DEF Rows
  <2>4. QED
    BY <2>1, <2>2, <2>3 DEF Marked
<1>6. QED
  BY <1>3, <1>4, <1>5

(* One unit of time keeps the types and may only turn today into the past. *)
LEMMA ElapseStep ==
  ASSUME IInv, Elapse
  PROVE  /\ row' \in Rows
         /\ row'.status = row.status
         /\ row'.age \in Nat /\ row.age <= row'.age
         /\ row.age = Window => row'.age = Window
         /\ row.age < Window => row'.age = row.age + 1
         /\ midnight' \in 0..(DayUnits - 1)
         /\ {seen', owed', missed'} \subseteq BOOLEAN
         /\ missed' = missed
         /\ lastDay' \in {"none", "today", "past"}
         /\ TodayOwesNothing'
<1>1. /\ row' \in Rows
      /\ row'.status = row.status
      /\ row'.age \in Nat /\ row.age <= row'.age
      /\ row.age = Window => row'.age = Window
      /\ row.age < Window => row'.age = row.age + 1
  BY WindowIsPositive DEF IInv, TypeOK, Rows, Elapse
<1>2. midnight' \in 0..(DayUnits - 1)
  BY LearningAssumption DEF IInv, TypeOK, Elapse
<1>3. missed' = missed
  BY DEF Elapse
<1>4. CASE midnight' = 0
  <2>1. /\ lastDay' = IF lastDay = "today" THEN "past" ELSE lastDay
        /\ owed' = (owed \/ seen)
        /\ seen' = FALSE
    BY <1>4 DEF Elapse
  <2>2. QED
    BY <1>1, <1>2, <1>3, <2>1 DEF IInv, TypeOK, TodayOwesNothing
<1>5. CASE midnight' # 0
  <2>1. UNCHANGED <<lastDay, owed, seen>>
    BY <1>5 DEF Elapse
  <2>2. QED
    BY <1>1, <1>2, <1>3, <2>1 DEF IInv, TypeOK, TodayOwesNothing
<1>6. QED
  BY <1>4, <1>5

LEMMA InitInvariant == Init => IInv
<1> SUFFICES ASSUME Init PROVE IInv
  OBVIOUS
<1>1. /\ 0 \in 0..Window /\ 0 \in 0..MaxCycles /\ 0 \in 0..MaxMishaps
      /\ 0 \in 0..(AbortThreshold - 1) /\ 0 \in 0..0
  BY WindowIsPositive, LearningAssumption
<1>2. row \in Rows /\ row.status = "none"
  BY <1>1 DEF Init, NoRow, Rows
<1>3. TypeOK
  BY <1>1, <1>2 DEF Init, TypeOK, Rows
<1>4. QED
  BY <1>2, <1>3 DEF Init, IInv, CompletedIsElapsed, TodayOwesNothing, StreakIsFutile

(* What the day of a cycle that gets through _learning_cycle becomes.      *)
LEMMA DayDoneStep ==
  ASSUME IInv, NEW done \in BOOLEAN, DayDone(done)
  PROVE  /\ midnight' \in 0..(DayUnits - 1)
         /\ {seen', owed', missed'} \subseteq BOOLEAN
         /\ ~owed'
<1>1. midnight \in 0..(DayUnits - 1) /\ midnight' = midnight
  BY DEF IInv, TypeOK, DayDone
<1>2. missed' \in BOOLEAN /\ seen' = TRUE /\ owed' = FALSE
  BY DEF DayDone, RollOver
<1>3. QED
  BY <1>1, <1>2

LEMMA NextInvariant == IInv /\ [Next]_vars => IInv'
<1> SUFFICES ASSUME IInv, [Next]_vars PROVE IInv'
  OBVIOUS
<1> USE DEF TodayOwesNothing, memory, calendar
<1>a. /\ pc \in {"down", "looping", "cycling", "resting"}
      /\ row \in Rows
      /\ cycle \in 0..MaxCycles
      /\ failures \in 0..(AbortThreshold - 1)
      /\ futile \in 0..cycle
      /\ stop \in BOOLEAN
      /\ lastDay \in {"none", "today", "past"}
      /\ midnight \in 0..(DayUnits - 1)
      /\ {seen, owed, missed} \subseteq BOOLEAN
      /\ mishaps \in 0..MaxMishaps
  BY DEF IInv, TypeOK, Rows
<1>b. ASSUME NEW kind, Suffers(kind) PROVE mishaps' \in 0..MaxMishaps
  BY <1>a, <1>b, LearningAssumption DEF Suffers
<1>c. ASSUME /\ pc' \in {"down", "looping", "cycling", "resting"}
             /\ row' \in Rows
             /\ cycle' \in 0..MaxCycles
             /\ failures' \in 0..(AbortThreshold - 1)
             /\ futile' \in 0..cycle'
             /\ stop' \in BOOLEAN
             /\ lastDay' \in {"none", "today", "past"}
             /\ midnight' \in 0..(DayUnits - 1)
             /\ {seen', owed', missed'} \subseteq BOOLEAN
             /\ mishaps' \in 0..MaxMishaps
      PROVE TypeOK'
  BY <1>c DEF TypeOK, Rows
<1>d. 0 \in 0..MaxCycles /\ 0 \in 0..(AbortThreshold - 1) /\ AbortThreshold \in Nat
  BY LearningAssumption
<1>e. StreakIsFutile /\ (row.status = "completed" => row.age = Window)
  BY DEF IInv, CompletedIsElapsed
<1>f. ASSUME Down PROVE /\ pc' = "down" /\ stop' \in BOOLEAN /\ lastDay' = "none"
                        /\ cycle' \in 0..MaxCycles /\ failures' \in 0..(AbortThreshold - 1)
                        /\ futile' \in 0..cycle' /\ StreakIsFutile'
  <2>1. /\ pc' = "down" /\ stop' = FALSE /\ lastDay' = "none"
        /\ cycle' = 0 /\ failures' = 0 /\ futile' = 0
    BY <1>f DEF Down
  <2>2. futile' \in 0..cycle'
    BY <2>1
  <2>3. StreakIsFutile'
    BY <2>1 DEF StreakIsFutile
  <2>4. stop' \in BOOLEAN
    BY <2>1
  <2>5. QED
    BY <1>d, <2>1, <2>2, <2>3, <2>4
<1>1. CASE Learn
  <2>1. row' \in Rows /\ (row'.status = "completed" => row'.age = Window)
    BY <1>1, <1>e, RowsWritten DEF Learn, IInv, ResumeOrCreate, NewRow
  <2>2. TypeOK'
    BY <1>1, <1>a, <1>c, <2>1 DEF Learn
  <2>3. StreakIsFutile'
    BY <1>1, <1>e DEF Learn, StreakIsFutile
  <2>4. QED
    BY <1>1, <2>1, <2>2, <2>3 DEF IInv, Learn, CompletedIsElapsed
<1>2. CASE LeaveLoop
  <2> DEFINE status == IF stop \/ cycle >= MaxCycles THEN "stopped" ELSE "completed"
  <2>1. row' = Marked(status) /\ status \in {"stopped", "completed"} /\ Down
    BY <1>2 DEF LeaveLoop
  <2>2. row' \in Rows /\ row'.status = status /\ row'.age = row.age
    BY <2>1, RowsWritten DEF IInv
  <2>3. row'.status = "completed" => row'.age = Window
    BY <1>2, <1>a, <2>2, WindowIsPositive DEF LeaveLoop, IsComplete, Rows
  <2>4. UNCHANGED calendar /\ mishaps' = mishaps
    BY <1>2 DEF LeaveLoop
  <2>5. TypeOK'
    BY <1>a, <1>c, <1>f, <2>1, <2>2, <2>4
  <2>6. QED
    BY <1>f, <2>1, <2>3, <2>5 DEF IInv, CompletedIsElapsed
<1>3. CASE BeginCycle
  <2>1. cycle' \in 0..MaxCycles /\ futile' \in 0..cycle'
    BY <1>3, <1>a, LearningAssumption DEF BeginCycle
  <2>2. TypeOK'
    BY <1>3, <1>a, <1>c, <2>1 DEF BeginCycle
  <2>3. StreakIsFutile'
    BY <1>3, <1>a, <1>e DEF BeginCycle, StreakIsFutile
  <2>4. QED
    BY <1>3, <2>2, <2>3 DEF IInv, BeginCycle, CompletedIsElapsed
<1>4. CASE EndCycle
  <2>1. row' \in Rows /\ row'.status = "active"
    BY <1>4, RowsWritten DEF EndCycle, LearningCycle, IInv, Progress
  <2>2. PICK done \in BOOLEAN : DayDone(done)
    BY <1>4 DEF EndCycle, LearningCycle
  <2>3. mishaps' \in 0..MaxMishaps
    BY <1>4, <1>a, <1>b DEF EndCycle
  <2>4. pc' = "resting" /\ UNCHANGED <<cycle, stop>> /\ lastDay' = "today"
    BY <1>4 DEF EndCycle, LearningCycle
  <2>5. failures' = 0 /\ futile' = 0
    BY <1>4 DEF EndCycle, Recovered
  <2>6. TypeOK'
    BY <1>a, <1>c, <1>d, <2>1, <2>2, <2>3, <2>4, <2>5, DayDoneStep
  <2>7. ~owed' /\ StreakIsFutile'
    BY <2>2, <2>4, <2>5, DayDoneStep DEF StreakIsFutile
  <2>8. QED
    BY <2>1, <2>6, <2>7 DEF IInv, CompletedIsElapsed
<1>5. CASE FailCycle
  <2>1. row' \in Rows /\ (row'.status = "completed" => row'.age = Window)
    <3>1. row' = row \/ row' = Marked("active")
      BY <1>5 DEF FailCycle, LearningCycle, Progress
    <3>2. Marked("active") \in Rows /\ Marked("active").status = "active"
      BY RowsWritten DEF IInv
    <3>3. QED
      BY <1>a, <1>e, <3>1, <3>2
  <2>2. /\ lastDay' \in {"none", "today", "past"}
        /\ midnight' \in 0..(DayUnits - 1)
        /\ {seen', owed', missed'} \subseteq BOOLEAN
        /\ lastDay' = "today" => ~owed'
    <3>1. CASE UNCHANGED <<lastDay, calendar>>
      BY <1>a, <3>1 DEF IInv
    <3>2. CASE LearningCycle(TRUE)
      BY <3>2, DayDoneStep DEF LearningCycle
    <3>3. QED
      BY <1>5, <3>1, <3>2 DEF FailCycle
  <2>3. /\ failures' = failures + 1 /\ failures + 1 < AbortThreshold
        /\ pc = "cycling" /\ pc' = "resting" /\ UNCHANGED <<cycle, stop, futile>>
        /\ mishaps' \in 0..MaxMishaps
    BY <1>5, <1>b DEF FailCycle
  <2>4. failures' \in 0..(AbortThreshold - 1)
    BY <1>a, <1>d, <2>3
  <2>5. TypeOK'
    BY <1>a, <1>c, <2>1, <2>2, <2>3, <2>4
  <2>6. StreakIsFutile'
    BY <1>e, <2>3 DEF StreakIsFutile
  <2>7. QED
    BY <2>1, <2>2, <2>5, <2>6 DEF IInv, CompletedIsElapsed
<1>6. CASE GiveUp
  <2>1. row' = Marked("stopped") /\ Down /\ mishaps' \in 0..MaxMishaps
    BY <1>6, <1>b DEF GiveUp
  <2>2. row' \in Rows /\ row'.status = "stopped"
    BY <2>1, RowsWritten DEF IInv
  <2>3. midnight' \in 0..(DayUnits - 1) /\ {seen', owed', missed'} \subseteq BOOLEAN
    BY <1>6, <1>a, DayDoneStep DEF GiveUp
  <2>4. TypeOK'
    BY <1>c, <1>f, <2>1, <2>2, <2>3
  <2>5. QED
    BY <1>f, <2>1, <2>2, <2>4 DEF IInv, CompletedIsElapsed
<1>7. CASE Rest
  <2>1. pc' = "looping" /\ UNCHANGED <<cycle, stop, failures, futile, mishaps>>
    BY <1>7 DEF Rest
  <2>2. StreakIsFutile'
    BY <1>e, <2>1 DEF StreakIsFutile
  <2>3. CASE UNCHANGED <<row, lastDay, calendar>>
    <3>1. TypeOK'
      BY <1>a, <1>c, <2>1, <2>3
    <3>2. QED
      BY <2>2, <2>3, <3>1 DEF IInv, CompletedIsElapsed
  <2>4. CASE Elapse
    <3>1. TypeOK'
      BY <1>a, <1>c, <2>1, <2>4, ElapseStep
    <3>2. QED
      BY <2>2, <2>4, <3>1, ElapseStep DEF IInv, CompletedIsElapsed
  <2>5. QED
    BY <1>7, <2>3, <2>4 DEF Rest
<1>8. CASE TimePasses
  <2>1. Elapse /\ UNCHANGED <<pc, cycle, stop, failures, futile, mishaps>>
    BY <1>8 DEF TimePasses
  <2>2. TypeOK' /\ StreakIsFutile'
    BY <1>a, <1>c, <1>e, <2>1, ElapseStep DEF StreakIsFutile
  <2>3. QED
    BY <2>1, <2>2, ElapseStep DEF IInv, CompletedIsElapsed
<1>9. CASE Interrupt
  <2>1. TypeOK'
    BY <1>9, <1>a, <1>b, <1>c DEF Interrupt
  <2>2. StreakIsFutile'
    BY <1>9, <1>e DEF Interrupt, StreakIsFutile
  <2>3. QED
    BY <1>9, <2>1, <2>2 DEF Interrupt, IInv, CompletedIsElapsed
<1>10. CASE Kill
  <2>1. Down /\ UNCHANGED <<row, calendar>> /\ mishaps' \in 0..MaxMishaps
    BY <1>10, <1>b DEF Kill
  <2>2. TypeOK'
    BY <1>a, <1>c, <1>f, <2>1
  <2>3. QED
    BY <1>f, <2>1, <2>2 DEF IInv, CompletedIsElapsed
<1>11. CASE UNCHANGED vars
  <2>1. TypeOK' /\ StreakIsFutile'
    BY <1>11, <1>a, <1>c, <1>e DEF vars, StreakIsFutile
  <2>2. QED
    BY <1>11, <2>1 DEF vars, IInv, CompletedIsElapsed
<1>12. QED
  BY <1>1, <1>2, <1>3, <1>4, <1>5, <1>6, <1>7, <1>8, <1>9, <1>10, <1>11
     DEF Next, Loop, Strike

LEMMA Invariance == Spec => []IInv
BY InitInvariant, NextInvariant, PTL DEF Spec

(* The types hold for every window, rotation and pattern of mishaps.       *)
THEOREM TypeCorrect == Spec => []TypeOK
<1>1. IInv => TypeOK
  BY DEF IInv
<1>2. QED
  BY <1>1, Invariance, PTL

(* A window is only ever marked completed when all of it has passed.       *)
THEOREM CompletedHasElapsed == Spec => []CompletedIsElapsed
<1>1. IInv => CompletedIsElapsed
  BY DEF IInv
<1>2. QED
  BY <1>1, Invariance, PTL

-----------------------------------------------------------------------------
(* A process misses no day it has completed a cycle of, as long as no      *)
(* roll-up fails: the day it owes is the one it remembers.                 *)
THEOREM NoDayMissedByProcess ==
  ASSUME "rollup" \notin Mishaps
  PROVE  Spec => DayKeptByProcess
<1>1. ASSUME IInv, [Next]_vars
      PROVE  [missed' => missed \/ lastDay = "none"]_vars
  <2>1. /\ lastDay \in {"none", "today", "past"}
        /\ missed \in BOOLEAN /\ owed \in BOOLEAN
        /\ lastDay = "today" => ~owed
    BY <1>1 DEF IInv, TypeOK, TodayOwesNothing
  <2>2. CASE EndCycle \/ FailCycle \/ GiveUp
    <3>1. UNCHANGED missed \/ RollOver(TRUE)
      BY <2>2 DEF EndCycle, FailCycle, GiveUp, LearningCycle, DayDone, Suffers, calendar
    <3>2. QED
      BY <2>1, <3>1 DEF RollOver
  <2>3. CASE Learn \/ LeaveLoop \/ BeginCycle \/ Interrupt \/ Kill
    <3>1. missed' = missed
      BY <2>3 DEF Learn, LeaveLoop, BeginCycle, Interrupt, Kill, calendar
    <3>2. QED
      BY <3>1
  <2>4. CASE Rest \/ TimePasses
    <3>1. missed' = missed
      BY <2>4 DEF Rest, TimePasses, Elapse, calendar
    <3>2. QED
      BY <3>1
  <2>5. QED
    BY <1>1, <2>2, <2>3, <2>4 DEF Next, Loop, Strike
<1>2. QED
  BY <1>1, Invariance, PTL DEF Spec, DayKeptByProcess

(* The clock of an active window never starts over, through kills, errors  *)
(* and restarts; and a window is given up only for a signal, the rotation, *)
(* AbortThreshold failing cycles in a row or a failure that could not be   *)
(* recorded.  For every window, rotation and threshold, the shipped ones   *)
(* of 60 cycles and 50 failures among them.                                *)
THEOREM ClockRuns == Spec => ClockKeepsRunning
<1> DEFINE Caused == \/ stop \/ cycle >= MaxCycles
                     \/ futile >= AbortThreshold
                     \/ pc = "cycling" /\ "record" \in Mishaps
           Runs == /\ row.status = "active" => row'.age >= row.age
                   /\ GivenUp => Caused
<1>1. ASSUME IInv, [Next]_vars PROVE Runs
  <2>1. /\ row \in Rows /\ row.age \in Nat
        /\ failures \in Nat /\ futile \in Nat /\ AbortThreshold \in Nat
        /\ TypeOK /\ StreakIsFutile
    BY <1>1, WindowIsPositive, LearningAssumption DEF IInv, TypeOK, Rows
  <2>2. ASSUME row' = row PROVE Runs
    BY <2>1, <2>2 DEF GivenUp
  <2>3. CASE Learn
    BY <2>1, <2>3 DEF Learn, ResumeOrCreate, GivenUp
  <2>4. CASE LeaveLoop
    <3>1. row' = Marked(IF stop \/ cycle >= MaxCycles THEN "stopped" ELSE "completed")
      BY <2>4 DEF LeaveLoop
    <3>2. row'.age = row.age /\ (row'.status = "stopped" => stop \/ cycle >= MaxCycles)
      BY <2>1, <3>1, RowsWritten
    <3>3. QED
      BY <2>1, <3>2 DEF GivenUp
  <2>5. CASE EndCycle \/ FailCycle
    <3>1. row' = row \/ row' = Marked("active")
      BY <2>5 DEF EndCycle, FailCycle, LearningCycle, Progress
    <3>2. Marked("active").age = row.age /\ Marked("active").status = "active"
      BY <2>1, RowsWritten
    <3>3. QED
      BY <2>1, <2>2, <3>1, <3>2 DEF GivenUp
  <2>6. CASE GiveUp
    <3>1. row' = Marked("stopped") /\ pc = "cycling"
      BY <2>6 DEF GiveUp
    <3>2. row'.age = row.age
      BY <2>1, <3>1, RowsWritten
    <3>3. failures + 1 >= AbortThreshold \/ "record" \in Mishaps
      BY <2>6 DEF GiveUp, Suffers
    <3>4. futile >= AbortThreshold \/ "record" \in Mishaps
      BY <2>1, <3>1, <3>3 DEF StreakIsFutile
    <3>5. QED
      BY <2>1, <3>1, <3>2, <3>4
  <2>7. CASE Rest \/ TimePasses
    <3>1. row' = row \/ (row'.status = row.status /\ row'.age \in Nat /\ row.age <= row'.age)
      BY <1>1, <2>7, ElapseStep DEF Rest, TimePasses
    <3>2. QED
      BY <2>1, <2>2, <3>1 DEF GivenUp
  <2>8. CASE BeginCycle \/ Interrupt \/ Kill \/ UNCHANGED vars
    <3>1. row' = row
      BY <2>8 DEF BeginCycle, Interrupt, Kill, vars
    <3>2. QED
      BY <2>2, <3>1
  <2>9. QED
    BY <1>1, <2>3, <2>4, <2>5, <2>6, <2>7, <2>8 DEF Next, Loop, Strike
<1>2. ASSUME IInv, [Next]_vars
      PROVE  [/\ row.status = "active" => row'.age >= row.age
              /\ GivenUp => \/ stop \/ cycle >= MaxCycles
                            \/ futile >= AbortThreshold
                            \/ pc = "cycling" /\ "record" \in Mishaps]_vars
  BY <1>1, <1>2
<1>3. QED
  BY <1>2, Invariance, PTL DEF Spec, ClockKeepsRunning

(* For every window length and pattern of mishaps, the window is honest.   *)
THEOREM WindowStaysHonest == Spec => []WindowIsHonest
<1>1. TypeOK /\ CompletedIsElapsed => WindowIsHonest
  BY DEF WindowIsHonest
<1>2. QED
  BY <1>1, TypeCorrect, CompletedHasElapsed, PTL

-----------------------------------------------------------------------------
(* The arithmetic of the signals.                                          *)
LEMMA WithinIs ==
  ASSUME NEW x \in Int, NEW lo \in Int, NEW hi \in Int, lo <= hi
  PROVE  Within(x, lo, hi) = IF x <= lo THEN lo ELSE IF x >= hi THEN hi ELSE x
<1> DEFINE m == Min({hi, x})
<1>1. m \in Int /\ m = IF hi <= x THEN hi ELSE x
  BY MinOfTwo
<1> HIDE DEF m
<1>2. Max({lo, m}) = IF lo >= m THEN lo ELSE m
  BY <1>1, MaxOfTwo
<1>3. QED
  BY <1>1, <1>2 DEF Within, m

LEMMA QuotIs ==
  ASSUME NEW a \in Int, NEW b \in Nat \ {0}
  PROVE  Quot(a, b) \in Int /\ (a >= 0 => Quot(a, b) = a \div b /\ Quot(a, b) >= 0)
<1>1. a \div b \in Int /\ (-a) \div b \in Int
  BY QuotientIs
<1>2. a >= 0 => a \div b >= 0
  <2>1. 0 * b = 0
    OBVIOUS
  <2>2. 0 * b <= a <=> 0 <= a \div b
    BY QuotientIs, 0 \in Int
  <2>3. QED
    BY <1>1, <2>1, <2>2
<1>3. QED
  BY <1>1, <1>2 DEF Quot

LEMMA ShareIs ==
  ASSUME NEW a \in Int, NEW b \in Nat \ {0}
  PROVE  Share(a, b) \in Int /\ (a >= 0 => Share(a, b) >= 0)
<1>1. a * One \in Int /\ (a >= 0 => a * One >= 0)
  BY DEF One
<1>2. QED
  BY <1>1, QuotIs DEF Share

LEMMA ClipIs == ASSUME NEW x \in Int PROVE Clip(x) \in -One..One
<1>1. -One \in Int /\ One \in Int /\ -One <= One
  BY DEF One
<1>2. Clip(x) = IF x <= -One THEN -One ELSE IF x >= One THEN One ELSE x
  BY <1>1, WithinIs DEF Clip
<1>3. QED
  BY <1>1, <1>2

LEMMA AbsIs == ASSUME NEW x \in Int PROVE Abs(x) \in Nat
BY DEF Abs

LEMMA UnitIs == ASSUME NEW x \in Int PROVE Within(x, 0, One) \in 0..One
<1>1. 0 \in Int /\ One \in Int /\ 0 <= One
  BY DEF One
<1>2. Within(x, 0, One) = IF x <= 0 THEN 0 ELSE IF x >= One THEN One ELSE x
  BY <1>1, WithinIs
<1>3. QED
  BY <1>1, <1>2

LEMMA UnitNumbers ==
  /\ One \in Nat /\ One = 1000 /\ 0 \in 0..One
  /\ \A x \in 0..One : x \in Nat /\ x \in Int /\ x <= One
BY DEF One

LEMMA PointsAre ==
  ASSUME NEW x \in Int
  PROVE  /\ Points(x) \in Int
         /\ Points(x) = IF x <= 0 THEN 0 ELSE IF x >= One THEN One ELSE x
<1>1. 0 \in Int /\ One \in Int /\ 0 <= One
  BY DEF One
<1>2. QED
  BY <1>1, WithinIs DEF Points

LEMMA PointsBound ==
  ASSUME NEW x \in Int
  PROVE  /\ Points(x) \in 0..One
         /\ Points(x) > 600 => x > 600
         /\ Points(x) > 850 => x > 850
<1>1. One \in Int /\ One = 1000 /\ 0 <= One
  BY UnitNumbers
<1>2. QED
  BY <1>1, PointsAre, SMTT(40)

-----------------------------------------------------------------------------
(* The bars of a tape, and the newest of them.                             *)
LEMMA BarsOfTape ==
  ASSUME NEW t, IsTape(t)
  PROVE  /\ t.bars \in Seq(Range(t.bars)) /\ Len(t.bars) \in Nat
         /\ DOMAIN t.bars = 1..Len(t.bars)
         /\ \A i \in 1..Len(t.bars) : t.bars[i] \in Range(t.bars) /\ IsBar(t.bars[i])
<1>1. t.bars \in Seq(Range(t.bars))
  BY DEF IsTape
<1>2. Len(t.bars) \in Nat /\ DOMAIN t.bars = 1..Len(t.bars)
  BY <1>1, LenProperties
<1>3. \A i \in 1..Len(t.bars) : t.bars[i] \in Range(t.bars)
  BY <1>1, ElementOfSeq
<1>4. QED
  BY <1>1, <1>2, <1>3 DEF IsTape

LEMMA NewestBars ==
  ASSUME NEW S, NEW b \in Seq(S), NEW n \in Nat \ {0}
  PROVE  LET from == IF Len(b) > n THEN Len(b) - n ELSE 0
             newest == LastBars(b, n)
         IN  /\ newest \in Seq(S) /\ Len(b) \in Nat
             /\ Len(newest) = Len(b) - from
             /\ DOMAIN newest = 1..(Len(b) - from)
             /\ \A i \in 1..(Len(b) - from) : newest[i] = b[from + i] /\ newest[i] \in S
<1> DEFINE from == IF Len(b) > n THEN Len(b) - n ELSE 0
           m == Max({1, Len(b) - n + 1})
           newest == SubSeq(b, m, Len(b))
<1>1. Len(b) \in Nat
  BY LenProperties
<1>2. \A i \in 1..Len(b) : b[i] \in S
  BY ElementOfSeq
<1>3. m = from + 1
  BY <1>1, MaxOfTwo
<1> HIDE DEF m
<1>4. \A i \in m..Len(b) : b[i] \in S
  BY <1>1, <1>2, <1>3
<1>5. m \in Int /\ Len(b) \in Int /\ from \in Nat
  BY <1>1, <1>3
<1>6. /\ newest \in Seq(S)
      /\ Len(newest) = IF m <= Len(b) THEN Len(b) - m + 1 ELSE 0
      /\ \A i \in 1..(Len(b) - m + 1) : newest[i] = b[m + i - 1]
  BY <1>4, <1>5, SubSeqProperties
<1>7. DOMAIN newest = 1..Len(newest)
  BY <1>6, LenProperties
<1>8. LastBars(b, n) = newest
  BY DEF LastBars, m
<1> HIDE DEF newest
<1>9. Len(newest) = Len(b) - from
  <2>1. from \in Nat /\ from <= Len(b)
    BY <1>1
  <2>2. Len(newest) = IF from + 1 <= Len(b) THEN Len(b) - (from + 1) + 1 ELSE 0
    BY <1>3, <1>6
  <2> HIDE DEF from
  <2>3. QED
    BY <1>1, <2>1, <2>2
<1>10. \A i \in 1..(Len(b) - from) : newest[i] = b[from + i] /\ newest[i] \in S
  <2> TAKE i \in 1..(Len(b) - from)
  <2>1. i \in 1..(Len(b) - m + 1) /\ m + i - 1 = from + i /\ from + i \in m..Len(b)
    BY <1>1, <1>3, <1>5
  <2>2. newest[i] = b[from + i]
    BY <2>1, <1>6
  <2>3. QED
    BY <2>1, <2>2, <1>4
<1>11. QED
  BY <1>1, <1>6, <1>7, <1>8, <1>9, <1>10

-----------------------------------------------------------------------------
(* Three bars of the last five without a trade are a halt.                 *)
LEMMA HaltIsSeen ==
  ASSUME NEW t, IsTape(t),
         NEW i \in DOMAIN t.bars, NEW j \in DOMAIN t.bars, NEW k \in DOMAIN t.bars,
         i < j, j < k, i > Len(t.bars) - 5,
         \A x \in {i, j, k} : t.bars[x].volume = 0 /\ t.bars[x].high = t.bars[x].low
  PROVE  DetectHalt(t.bars)
<1> DEFINE n == Len(t.bars)
           from == IF n > 5 THEN n - 5 ELSE 0
           newest == LastBars(t.bars, HaltLookback)
           stopped == {y \in DOMAIN newest : Frozen(newest[y])}
<1>1. n \in Nat /\ DOMAIN t.bars = 1..n /\ t.bars \in Seq(Range(t.bars))
  BY BarsOfTape
<1>2. /\ DOMAIN newest = 1..(n - from)
      /\ \A y \in 1..(n - from) : newest[y] = t.bars[from + y]
  <2>1. HaltLookback \in Nat \ {0} /\ HaltLookback = 5
    BY DEF HaltLookback
  <2> DEFINE h == HaltLookback
  <2> HIDE DEF h
  <2>2. LET f == IF n > h THEN n - h ELSE 0
        IN  /\ DOMAIN LastBars(t.bars, h) = 1..(n - f)
            /\ \A y \in 1..(n - f) : LastBars(t.bars, h)[y] = t.bars[f + y]
    <3> DEFINE bars == t.bars
               S == Range(bars)
               f == IF Len(bars) > h THEN Len(bars) - h ELSE 0
               new == LastBars(bars, h)
    <3> HIDE DEF S, bars
    <3>1. bars \in Seq(S) /\ h \in Nat \ {0}
      BY <1>1, <2>1 DEF S, bars, h
    <3>2. /\ DOMAIN new = 1..(Len(bars) - f)
          /\ \A y \in 1..(Len(bars) - f) : new[y] = bars[f + y] /\ new[y] \in S
      BY <3>1, NewestBars
    <3>3. QED
      BY <3>2 DEF bars
  <2>3. QED
    BY <2>1, <2>2 DEF h
<1> HIDE DEF newest
<1>3. \A x \in {i, j, k} : x - from \in 1..(n - from) /\ from + (x - from) = x
  <2>1. \A x \in {i, j, k} : x \in 1..n /\ x > n - 5
    BY <1>1
  <2>2. ASSUME NEW x \in 1..n, x > n - 5
        PROVE  x - from \in 1..(n - from) /\ from + (x - from) = x
    BY <1>1, <2>2
  <2>3. QED
    BY <2>1, <2>2
<1>4. \A x \in {i, j, k} : Frozen(t.bars[x])
  <2> SUFFICES ASSUME NEW x \in {i, j, k} PROVE Frozen(t.bars[x])
    OBVIOUS
  <2>1. IsBar(t.bars[x])
    BY <1>1, BarsOfTape
  <2>2. QED
    BY <2>1, SMTT(40) DEF Frozen, IsBar
<1> DEFINE a == i - from
           b == j - from
           c == k - from
<1>5. {a, b, c} \subseteq stopped
  <2>1. \A x \in {i, j, k} : x - from \in stopped
    BY <1>2, <1>3, <1>4
  <2>2. QED
    BY <2>1
<1>6. a # b /\ a # c /\ b # c
  BY <1>1
<1>7. IsFiniteSet(stopped)
  <2>1. IsFiniteSet(1..(n - from))
    <3>1. 1 \in Int /\ n - from \in Int
      BY <1>1
    <3>2. QED
      BY <3>1, FS_Interval
  <2>2. QED
    BY <1>2, <2>1, FS_Subset
<1> HIDE DEF a, b, c, stopped
<1>8. Cardinality({a, b, c}) = 3
  <2>1. Cardinality({a}) = 1 /\ IsFiniteSet({a})
    BY FS_Singleton
  <2>2. Cardinality({a} \cup {b}) = 1 + 1 /\ IsFiniteSet({a} \cup {b})
    <3>1. b \notin {a}
      BY <1>6
    <3>2. QED
      BY <2>1, <3>1, FS_AddElement
  <2>3. Cardinality(({a} \cup {b}) \cup {c}) = 1 + 1 + 1
    <3>1. c \notin {a} \cup {b}
      BY <1>6
    <3>2. QED
      BY <2>2, <3>1, FS_AddElement
  <2>4. ({a} \cup {b}) \cup {c} = {a, b, c}
    OBVIOUS
  <2>5. Cardinality({a, b, c}) = 1 + 1 + 1
    BY <2>3, <2>4, Zenon
  <2>6. QED
    BY <2>5
<1>9. Cardinality(stopped) >= 3
  <2>1. Cardinality(stopped) \in Nat
    BY <1>7, FS_CardinalityType
  <2>2. Cardinality({a, b, c}) <= Cardinality(stopped)
    BY <1>5, <1>7, FS_Subset
  <2>3. QED
    BY <1>8, <2>1, <2>2
<1>10. QED
  BY <1>9 DEF DetectHalt, Quantify, newest, stopped

(* What the kill switch makes of a hazard of the tape or of the regime.    *)
BlockedAsShipped ==
  /\ Config.blockOnChop = TRUE /\ Config.blockOnThin = TRUE
  /\ Config.wideSpread \in Nat /\ Config.wideSpread <= 8

LEMMA HazardIsRead ==
  ASSUME BlockedAsShipped, NEW t, IsTape(t), RawHazard(t)
  PROVE  Microstructure(t).thin \/ Microstructure(t).chop
<1>1. CASE t.bars = <<>>
  BY <1>1 DEF Microstructure, NoTape
<1> SUFFICES ASSUME t.bars # <<>> PROVE Microstructure(t).thin \/ Microstructure(t).chop
  BY <1>1
<1>2. /\ DetectHalt(t.bars) => Microstructure(t).thin
      /\ WideSpread(t) => Microstructure(t).thin
      /\ Regime(t).chop => Microstructure(t).chop
  BY DEF Microstructure
<1>3. CASE \E i, j, k \in DOMAIN t.bars :
             /\ i < j /\ j < k /\ i > Len(t.bars) - 5
             /\ \A x \in {i, j, k} : t.bars[x].volume = 0 /\ t.bars[x].high = t.bars[x].low
  BY <1>2, <1>3, HaltIsSeen
<1>4. CASE t.spread # None /\ t.spread > 8
  <2>1. t.spread \in Nat
    BY <1>4 DEF IsTape
  <2>2. WideSpread(t)
    BY <1>4, <2>1 DEF WideSpread, BlockedAsShipped
  <2>3. QED
    BY <1>2, <2>2
<1>5. CASE t.history >= 30 /\ t.slope # None /\ t.vol # None /\ Abs(t.slope) < 60
  <2>1. t.history \in Nat
    BY DEF IsTape
  <2>2. ~(t.history < 30)
    BY <1>5, <2>1
  <2>3. Regime(t).chop = TRUE
    BY <1>5, <2>2 DEF Regime
  <2>4. QED
    BY <1>2, <2>3
<1>6. QED
  BY <1>3, <1>4, <1>5 DEF RawHazard

(* An analysis proposes nothing of a tape that a hazard is read off.       *)
LEMMA HazardIsKilled ==
  ASSUME BlockedAsShipped, NEW a \in Analyses,
         RawHazard(Tapes[a.tape]) \/ a.regime \in Stressed
  PROVE  a.killed /\ a.action = "hold"
<1>1. PICK n \in DOMAIN Tapes, reply \in Replies, up \in Ups \cup {None} :
        a = Analyze(LayersOf(n, reply, up))
  BY DEF Analyses, Layered
<1> DEFINE v == LayersOf(n, reply, up)
           killed == KillSwitch(v.micro, v.regime, Tapes[n].spread)
<1>2. v.tape = n /\ v.micro = Microstructure(Tapes[n])
  BY DEF LayersOf
<1> HIDE DEF v
<1>3. /\ a.tape = n /\ a.regime = v.regime
      /\ a.killed = killed /\ a.action = Action(v.layers, killed)
  BY <1>1, <1>2 DEF Analyze, v
<1>4. killed
  <2>1. CASE RawHazard(Tapes[n])
    <3>1. IsTape(Tapes[n])
      BY DecisionsAssumption
    <3>2. v.micro.thin \/ v.micro.chop
      BY <1>2, <2>1, <3>1, HazardIsRead
    <3>3. QED
      BY <3>2 DEF KillSwitch, MicroTriggered, BlockedAsShipped
  <2>2. CASE v.regime \in Stressed
    BY <2>2 DEF KillSwitch, MacroTriggered, Stressed, CriticalRegimes
  <2>3. QED
    BY <1>3, <2>1, <2>2
<1> HIDE DEF killed
<1>5. Action(v.layers, killed) = "hold"
  BY <1>4 DEF Action
<1>6. QED
  BY <1>3, <1>4, <1>5

(* What a cycle writes is of one analysis.                                 *)
LEMMA RowIsOfAnalysis ==
  ASSUME NEW a, NEW win, NEW open, NEW permitted, ObserveSymbol(a, win, open, permitted)
  PROVE  /\ last'.tape = a.tape /\ last'.regime = a.regime
         /\ last'.direction = a.action
BY DEF ObserveSymbol

(* With both blocks on and the spread called wide no later than at eight   *)
(* basis points, as shipped, whatever the other layers, Gemini or the      *)
(* model say, nothing is proposed of a frozen tape, in a trendless market, *)
(* across a wide spread or in a regime of systemic stress.                 *)
THEOREM HazardsHeld == BlockedAsShipped => (DecisionsSpec => []HazardIsHeld)
<1> SUFFICES ASSUME BlockedAsShipped PROVE DecisionsSpec => []HazardIsHeld
  OBVIOUS
<1>1. DecisionsInit => HazardIsHeld
  BY DEF DecisionsInit, HazardIsHeld
<1>2. HazardIsHeld /\ [DecisionsNext]_decisionsVars => HazardIsHeld'
  <2> SUFFICES ASSUME HazardIsHeld, [DecisionsNext]_decisionsVars PROVE HazardIsHeld'
    OBVIOUS
  <2>1. ASSUME NEW a \in Analyses, NEW win, NEW open, NEW permitted,
               ObserveSymbol(a, win, open, permitted)
        PROVE  HazardIsHeld'
    <3>1. /\ last'.tape = a.tape /\ last'.regime = a.regime /\ last'.direction = a.action
      BY <2>1, RowIsOfAnalysis
    <3>2. RawHazard(Tapes[a.tape]) \/ a.regime \in Stressed => a.action = "hold"
      BY HazardIsKilled
    <3>3. QED
      BY <3>1, <3>2 DEF HazardIsHeld
  <2>2. CASE NextCycle \/ Mature
    BY <2>2 DEF NextCycle, Mature, HazardIsHeld
  <2>3. CASE ClosePaperTrade \/ TrainModelIdle \/ UNCHANGED decisionsVars
    BY <2>3 DEF ClosePaperTrade, TrainModelIdle, decisionsVars, HazardIsHeld
  <2>4. QED
    BY <2>1, <2>2, <2>3 DEF DecisionsNext
<1>3. QED
  BY <1>1, <1>2, PTL DEF DecisionsSpec

-----------------------------------------------------------------------------
(* The bars a signal is read from: a window of them, weighed by volume.    *)
IsWindow(bars) ==
  /\ Len(bars) \in Nat \ {0} /\ DOMAIN bars = 1..Len(bars)
  /\ \A i \in 1..Len(bars) : IsBar(bars[i])

LEMMA WindowOfTape ==
  ASSUME NEW t, IsTape(t), t.bars # <<>>, NEW n \in Nat \ {0}
  PROVE  /\ IsWindow(LastBars(t.bars, n))
         /\ Len(t.bars) \in Nat \ {0} /\ IsBar(t.bars[Len(t.bars)])
<1> DEFINE b == t.bars
           S == Range(b)
           from == IF Len(b) > n THEN Len(b) - n ELSE 0
           newest == LastBars(b, n)
<1>1. b \in Seq(S) /\ Len(b) \in Nat /\ \A s \in S : IsBar(s)
  BY BarsOfTape DEF IsTape
<1>2. Len(b) # 0
  BY <1>1, EmptySeq
<1>3. \A i \in 1..Len(b) : b[i] \in S
  BY <1>1, ElementOfSeq
<1> HIDE DEF b, S
<1>4. /\ Len(newest) = Len(b) - from
      /\ DOMAIN newest = 1..(Len(b) - from)
      /\ \A i \in 1..(Len(b) - from) : newest[i] \in S
  BY <1>1, NewestBars
<1> HIDE DEF newest
<1>5. Len(b) - from \in Nat \ {0}
  BY <1>1, <1>2
<1>6. IsWindow(newest)
  BY <1>1, <1>4, <1>5 DEF IsWindow
<1>7. QED
  BY <1>1, <1>2, <1>3, <1>6 DEF b, S, newest

(* The weights are natural numbers, not all of them zero.                  *)
LEMMA WeightsAre ==
  ASSUME NEW bars, IsWindow(bars)
  PROVE  /\ DOMAIN Weights(bars) = 1..Len(bars)
         /\ \A i \in 1..Len(bars) : Weights(bars)[i] \in Nat
         /\ \E i \in 1..Len(bars) : Weights(bars)[i] >= 1
<1> DEFINE silent == \A i \in DOMAIN bars : bars[i].volume = 0
           w == Weights(bars)
<1>1. w = [i \in DOMAIN bars |-> IF silent THEN 1 ELSE bars[i].volume]
  BY DEF Weights
<1>2. DOMAIN bars = 1..Len(bars) /\ Len(bars) \in Nat \ {0}
  BY DEF IsWindow
<1>3. \A i \in 1..Len(bars) : bars[i].volume \in Nat
  BY DEF IsWindow, IsBar
<1>4. \A i \in 1..Len(bars) : w[i] = IF silent THEN 1 ELSE bars[i].volume
  BY <1>1, <1>2
<1>5. 1 \in 1..Len(bars)
  BY <1>2
<1>6. \E i \in 1..Len(bars) : w[i] >= 1
  <2>1. CASE silent
    BY <1>4, <1>5, <2>1
  <2>2. CASE ~silent
    BY <1>2, <1>3, <1>4, <2>2
  <2>3. QED
    BY <2>1, <2>2
<1>7. QED
  BY <1>1, <1>2, <1>3, <1>4, <1>6

LEMMA WeightIsPositive ==
  ASSUME NEW bars, IsWindow(bars),
         NEW g, DOMAIN g = 1..Len(bars), \A i \in 1..Len(bars) : g[i] \in Nat \ {0}
  PROVE  /\ SumFunction([i \in DOMAIN bars |-> Weights(bars)[i] * g[i]]) \in Nat \ {0}
         /\ SumFunction(Weights(bars)) \in Nat \ {0}
<1> DEFINE w == Weights(bars)
           n == Len(bars)
           f == [i \in DOMAIN bars |-> w[i] * g[i]]
<1>1. n \in Nat \ {0} /\ DOMAIN bars = 1..n
  BY DEF IsWindow
<1>2. /\ DOMAIN w = 1..n
      /\ \A i \in 1..n : w[i] \in Nat
      /\ \E i \in 1..n : w[i] >= 1
  BY WeightsAre
<1>3. PICK b \in 1..n : w[b] >= 1
  BY <1>2
<1> HIDE DEF w, n
<1>4. SumFunction(w) \in Nat \ {0}
  <2>1. SumFunction(w) \in Int /\ SumFunction(w) >= w[b]
    <3>1. n \in Nat /\ \A i \in 1..n : w[i] \in Int /\ w[i] >= 0
      BY <1>1, <1>2
    <3>2. QED
      BY <1>2, <3>1, SumOver
  <2>2. QED
    BY <1>2, <1>3, <2>1
<1>5. \A x \in Nat, y \in Nat \ {0} : x * y \in Nat /\ (x >= 1 => x * y >= 1)
  <2> SUFFICES ASSUME NEW x \in Nat, NEW y \in Nat \ {0}
               PROVE  x * y \in Nat /\ (x >= 1 => x * y >= 1)
    OBVIOUS
  <2>1. x * y \in Nat
    OBVIOUS
  <2>2. \A p, q \in Int : p >= 0 /\ q >= 0 => p * q >= 0
    OBVIOUS
  <2>3. x >= 1 => (x - 1) * (y - 1) >= 0
    BY <2>2
  <2>4. (x - 1) * (y - 1) = x * y - x - y + 1
    OBVIOUS
  <2>5. QED
    BY <2>1, <2>3, <2>4
<1>6. /\ DOMAIN f = 1..n
      /\ \A i \in 1..n : f[i] = w[i] * g[i]
  BY <1>1
<1> HIDE DEF f
<1>7. \A i \in 1..n : f[i] \in Nat /\ (w[i] >= 1 => f[i] >= 1)
  <2> TAKE i \in 1..n
  <2>1. w[i] \in Nat /\ g[i] \in Nat \ {0}
    BY <1>2 DEF n
  <2>2. QED
    BY <2>1, <1>5, <1>6
<1>8. SumFunction(f) \in Nat \ {0}
  <2>1. SumFunction(f) \in Int /\ SumFunction(f) >= f[b]
    <3>1. n \in Nat /\ \A i \in 1..n : f[i] \in Int /\ f[i] >= 0
      BY <1>1, <1>7
    <3>2. QED
      BY <1>6, <3>1, SumOver
  <2>2. QED
    BY <1>3, <1>7, <2>1
<1>9. QED
  BY <1>4, <1>8 DEF f, w

-----------------------------------------------------------------------------
(* The readings of the tape are numbers.                                   *)
LEMMA WindowsAreNumbers ==
  /\ {Config.flowWindow, Config.vwapWindow, Config.rvolWindow,
      Config.strongImbalance, Config.vwapStretch} \subseteq Nat \ {0}
BY SignalsAssumption

LEMMA CloseIsInRange ==
  ASSUME NEW bar, IsBar(bar)
  PROVE  CloseInRange(bar) \in Int
<1> DEFINE rng == bar.high - bar.low
           up == bar.close - bar.low
<1>1. rng \in Int /\ up \in Int
  BY DEF IsBar
<1>2. CloseInRange(bar) = IF rng <= 0 THEN 0 ELSE Share(2 * up, rng) - One
  BY DEF CloseInRange
<1> HIDE DEF rng, up
<1>3. rng > 0 => Share(2 * up, rng) \in Int
  BY <1>1, ShareIs
<1>4. One \in Int
  BY DEF One
<1>5. QED
  BY <1>1, <1>2, <1>3, <1>4

LEMMA ImbalanceIs ==
  ASSUME NEW t, IsTape(t), t.bars # <<>>
  PROVE  OrderFlowImbalance(t.bars) \in -One..One
<1> DEFINE bars == LastBars(t.bars, Config.flowWindow)
           w == Weights(bars)
           n == Len(bars)
           f == [i \in DOMAIN bars |-> w[i] * CloseInRange(bars[i])]
           ones == [i \in 1..n |-> 1]
<1>1. OrderFlowImbalance(t.bars) = Clip(Quot(SumFunction(f), SumFunction(w)))
  BY DEF OrderFlowImbalance
<1>2. IsWindow(bars)
  BY WindowsAreNumbers, WindowOfTape
<1> HIDE DEF bars
<1>3. n \in Nat \ {0} /\ DOMAIN bars = 1..n /\ \A i \in 1..n : IsBar(bars[i])
  BY <1>2 DEF IsWindow
<1>4. DOMAIN w = 1..n /\ \A i \in 1..n : w[i] \in Nat
  BY <1>2, WeightsAre
<1>5. SumFunction(w) \in Nat \ {0}
  <2>1. DOMAIN ones = 1..n /\ \A i \in 1..n : ones[i] \in Nat \ {0}
    OBVIOUS
  <2> HIDE DEF ones
  <2>2. QED
    BY <1>2, <2>1, WeightIsPositive
<1> HIDE DEF w, n
<1>6. DOMAIN f = 1..n /\ \A i \in 1..n : f[i] \in Int
  <2>1. \A i \in 1..n : CloseInRange(bars[i]) \in Int
    BY <1>3, CloseIsInRange
  <2>2. QED
    BY <1>3, <1>4, <2>1
<1> HIDE DEF f
<1>7. SumFunction(f) \in Int
  BY <1>3, <1>6, SumOver
<1>8. QED
  BY <1>1, <1>5, <1>7, QuotIs, ClipIs

LEMMA StretchIs ==
  ASSUME NEW t, IsTape(t), t.bars # <<>>
  PROVE  VwapStretch(t.bars) \in Int
<1> DEFINE bars == LastBars(t.bars, Config.vwapWindow)
           w == Weights(bars)
           n == Len(bars)
           g == [i \in 1..n |-> bars[i].high + bars[i].low + bars[i].close]
           paid == SumFunction([i \in DOMAIN bars |->
                     w[i] * (bars[i].high + bars[i].low + bars[i].close)])
           close == t.bars[Len(t.bars)].close
<1>1. VwapStretch(t.bars) = Share(3 * close * SumFunction(w) - paid, paid)
  BY DEF VwapStretch
<1>2. IsWindow(bars) /\ IsBar(t.bars[Len(t.bars)])
  BY WindowsAreNumbers, WindowOfTape
<1> HIDE DEF bars
<1>3. n \in Nat \ {0} /\ DOMAIN bars = 1..n /\ \A i \in 1..n : IsBar(bars[i])
  BY <1>2 DEF IsWindow
<1>4. close \in Int
  BY <1>2 DEF IsBar
<1>5. DOMAIN g = 1..n /\ \A i \in 1..n : g[i] \in Nat \ {0}
  <2>1. ASSUME NEW i \in 1..n PROVE g[i] \in Nat \ {0}
    <3>1. {bars[i].high, bars[i].low, bars[i].close} \subseteq Nat \ {0}
      BY <1>3 DEF IsBar
    <3>2. QED
      BY <3>1
  <2>2. QED
    BY <2>1
<1>6. paid = SumFunction([i \in DOMAIN bars |-> w[i] * g[i]])
  <2>1. [i \in DOMAIN bars |-> w[i] * (bars[i].high + bars[i].low + bars[i].close)]
          = [i \in DOMAIN bars |-> w[i] * g[i]]
    BY <1>3
  <2>2. QED
    BY <2>1
<1> HIDE DEF g
<1>7. paid \in Nat \ {0} /\ SumFunction(w) \in Nat \ {0}
  BY <1>2, <1>5, <1>6, WeightIsPositive
<1> DEFINE weight == SumFunction(w)
<1> HIDE DEF paid, weight, close
<1>8. 3 * close * weight - paid \in Int
  BY <1>4, <1>7 DEF weight
<1>9. QED
  BY <1>1, <1>7, <1>8, ShareIs DEF weight

(* The signal of the microstructure.                                       *)
LEMMA MicrostructureIs ==
  ASSUME NEW t, IsTape(t)
  PROVE  /\ Microstructure(t).score \in -One..One
         /\ Microstructure(t).confidence \in 0..One
         /\ Microstructure(t).imbalance \in -One..One
         /\ Microstructure(t).chop \in BOOLEAN
<1>1. CASE t.bars = <<>>
  <2>1. Microstructure(t) = NoTape
    BY <1>1 DEF Microstructure
  <2>2. QED
    BY <2>1 DEF NoTape, One
<1>2. CASE t.bars # <<>>
  <2> DEFINE imbalance == OrderFlowImbalance(t.bars)
             flow == Clip(Share(imbalance, Config.strongImbalance))
             reversion == Clip(Share(-VwapStretch(t.bars), Config.vwapStretch))
             wide == WideSpread(t)
             quiet == RelativeVolume(t.bars) < Config.lowRvol
             chop == Regime(t).chop
             halted == DetectHalt(t.bars)
             doubt == 600 + Quot(Abs(flow), 5) - If(wide, 250) - If(quiet, 200)
                          - If(chop, 200) - If(halted, 350)
  <2>1. /\ Microstructure(t).score = Clip(Quot(65 * flow + 35 * reversion, 100))
        /\ Microstructure(t).confidence = Within(doubt, 0, One)
        /\ Microstructure(t).imbalance = imbalance
        /\ Microstructure(t).chop = chop
    BY <1>2 DEF Microstructure
  <2>2. imbalance \in -One..One /\ imbalance \in Int
    <3>1. imbalance \in -One..One
      BY <1>2, ImbalanceIs
    <3>2. QED
      BY <3>1 DEF One
  <2>3. -VwapStretch(t.bars) \in Int
    BY <1>2, StretchIs
  <2>4. chop \in BOOLEAN
    BY DEF Regime
  <2> DEFINE stretch == VwapStretch(t.bars)
  <2> HIDE DEF imbalance, stretch, wide, quiet, chop, halted
  <2>5. flow \in -One..One /\ reversion \in -One..One
    <3>1. Share(imbalance, Config.strongImbalance) \in Int
      BY <2>2, WindowsAreNumbers, ShareIs
    <3>2. Share(-stretch, Config.vwapStretch) \in Int
      BY <2>3, WindowsAreNumbers, ShareIs DEF stretch
    <3>3. QED
      BY <3>1, <3>2, ClipIs DEF stretch
  <2> HIDE DEF flow, reversion
  <2>6. flow \in Int /\ reversion \in Int
    BY <2>5 DEF One
  <2>7. \A c, x : x \in Int => If(c, x) \in Int
    BY DEF If
  <2>8. doubt \in Int
    <3>1. Quot(Abs(flow), 5) \in Int
      BY <2>6, AbsIs, QuotIs
    <3>2. If(wide, 250) \in Int /\ If(quiet, 200) \in Int /\ If(chop, 200) \in Int
          /\ If(halted, 350) \in Int
      BY <2>7
    <3> DEFINE q == Quot(Abs(flow), 5)
    <3> HIDE DEF q
    <3>3. QED
      BY <3>1, <3>2 DEF q
  <2>9. Quot(65 * flow + 35 * reversion, 100) \in Int
    BY <2>6, QuotIs
  <2> HIDE DEF doubt
  <2>10. QED
    BY <2>1, <2>2, <2>4, <2>8, <2>9, ClipIs, UnitIs
<1>3. QED
  BY <1>1, <1>2

(* A vote of the technical signal.                                         *)
Ballots == [score : -One..One, weight : Nat \ {0}]
Ballot(reading, score, weight) ==
  IF reading = None THEN <<>> ELSE << [score |-> Clip(score), weight |-> weight] >>

LEMMA BallotIs ==
  ASSUME NEW r, NEW s \in Int, NEW w \in Nat \ {0}
  PROVE  Ballot(r, s, w) \in Seq(Ballots)
<1>1. [score |-> Clip(s), weight |-> w] \in Ballots
  BY ClipIs DEF Ballots
<1>2. \A b \in Ballots : <<b>> \in Seq(Ballots) /\ <<>> \in Seq(Ballots)
  OBVIOUS
<1>3. QED
  BY <1>1, <1>2 DEF Ballot

LEMMA VotesAre ==
  ASSUME NEW t, IsTape(t)
  PROVE  Votes(t) \in Seq(Ballots)
<1> DEFINE rsi == Or(t.rsi, 50)
           a == Ballot(t.rsi, Share(50 - rsi, 30), RsiWeight(rsi))
           b == Ballot(t.emaGap, 10 * Or(t.emaGap, 0), 8)
           c == Ballot(t.hist, 25 * Or(t.hist, 0), 6)
           d == Ballot(t.slope, 5 * Or(t.slope, 0), 8)
           e == Ballot(t.mom, 5 * Or(t.mom, 0), 6)
<1>1. Votes(t) = a \o b \o c \o d \o e
  BY DEF Votes, Ballot
<1>2. /\ rsi \in Int /\ Or(t.emaGap, 0) \in Int /\ Or(t.hist, 0) \in Int
      /\ Or(t.slope, 0) \in Int /\ Or(t.mom, 0) \in Int
  BY DEF IsTape, Or
<1> HIDE DEF rsi
<1>3. Share(50 - rsi, 30) \in Int
  BY <1>2, ShareIs
<1>4. RsiWeight(rsi) \in Nat \ {0}
  <2> DEFINE off == Abs(rsi - 50)
             m == Min({25, off})
  <2>1. off \in Nat
    BY <1>2, AbsIs
  <2> HIDE DEF off
  <2>2. m \in Int /\ m >= 0
    BY <2>1, MinOfTwo
  <2> HIDE DEF m
  <2>3. Quot(55 * m, 25) \in Int /\ Quot(55 * m, 25) >= 0
    BY <2>2, QuotIs
  <2> DEFINE q == Quot(55 * m, 25)
  <2>4. RsiWeight(rsi) = 10 + q
    BY DEF RsiWeight, m, off
  <2> HIDE DEF q
  <2>5. QED
    BY <2>3, <2>4 DEF q
<1>5. /\ a \in Seq(Ballots) /\ b \in Seq(Ballots) /\ c \in Seq(Ballots)
      /\ d \in Seq(Ballots) /\ e \in Seq(Ballots)
  BY <1>2, <1>3, <1>4, BallotIs, SMTT(40)
<1> HIDE DEF a, b, c, d, e
<1>6. a \o b \o c \o d \o e \in Seq(Ballots)
  BY <1>5, ConcatProperties
<1>7. QED
  BY <1>1, <1>6

LEMMA SpreadIs ==
  ASSUME NEW scores
  PROVE  Spread(scores) \in 0..One
<1> DEFINE variance == (Len(scores) * SumFunction([i \in DOMAIN scores |-> scores[i] * scores[i]])
                          - SumFunction(scores) * SumFunction(scores))
                         \div (Len(scores) * Len(scores))
           S == {0} \cup {r \in 1..One : r * r <= variance}
<1>1. Spread(scores) = Max(S)
  BY DEF Spread
<1>2. One \in Nat /\ S \in SUBSET (0..One) /\ S # {}
  <2>1. One \in Nat /\ 0 \in 0..One
    BY DEF One
  <2>2. \A r \in 1..One : r \in 0..One
    BY <2>1
  <2> HIDE DEF variance
  <2>3. QED
    BY <2>1, <2>2
<1> HIDE DEF S
<1>3. QED
  BY <1>1, <1>2, LargestOf

LEMMA TechnicalIs ==
  ASSUME NEW t, IsTape(t)
  PROVE  Technical(t).score \in -One..One /\ Technical(t).confidence \in 0..One
<1> DEFINE votes == Votes(t)
           n == Len(votes)
           w == [i \in DOMAIN votes |-> votes[i].weight]
           f == [i \in DOMAIN votes |-> votes[i].weight * votes[i].score]
           spread == Spread([i \in DOMAIN votes |-> votes[i].score])
<1>1. /\ votes \in Seq(Ballots) /\ n \in Nat /\ DOMAIN votes = 1..n
      /\ votes # <<>> => n >= 1
  <2>1. votes \in Seq(Ballots)
    BY VotesAre
  <2>2. n \in Nat /\ DOMAIN votes = 1..n
    BY <2>1, LenProperties
  <2>3. votes # <<>> => n \in Nat \ {0}
    BY <2>1, EmptySeq
  <2>4. QED
    BY <2>1, <2>2, <2>3
<1>2. CASE votes = <<>>
  BY <1>2 DEF Technical, One
<1>3. CASE votes # <<>>
  <2>1. /\ Technical(t).score = Clip(Quot(SumFunction(f), SumFunction(w)))
        /\ Technical(t).confidence
             = Within(350 + Quot(2 * (One - spread), 5) + 50 * n, 0, One)
    BY <1>3 DEF Technical
  <2>2. \A i \in 1..n : votes[i] \in Ballots
    BY <1>1, ElementOfSeq
  <2>3. \A i \in 1..n : /\ votes[i].weight \in Nat \ {0}
                        /\ votes[i].score \in Int
    <3>1. One \in Nat /\ \A x \in -One..One : x \in Int
      BY DEF One
    <3>2. \A b \in Ballots : b.weight \in Nat \ {0} /\ b.score \in Int
      BY <3>1 DEF Ballots
    <3>3. QED
      BY <2>2, <3>2
  <2>4. spread \in 0..One
    BY SpreadIs
  <2> HIDE DEF votes, spread
  <2>5. DOMAIN w = 1..n /\ \A i \in 1..n : w[i] \in Nat \ {0}
    BY <1>1, <2>3
  <2>6. DOMAIN f = 1..n /\ \A i \in 1..n : f[i] \in Int
    BY <1>1, <2>3
  <2> HIDE DEF w, f
  <2>7. SumFunction(w) \in Nat \ {0}
    <3>1. 1 \in 1..n /\ n \in Nat /\ \A i \in 1..n : w[i] \in Int /\ w[i] >= 0
      BY <1>1, <1>3, <2>5
    <3>2. SumFunction(w) \in Int /\ SumFunction(w) >= w[1]
      BY <2>5, <3>1, SumOver
    <3>3. QED
      BY <2>5, <3>1, <3>2
  <2>8. SumFunction(f) \in Int
    BY <1>1, <2>6, SumOver
  <2>9. Quot(2 * (One - spread), 5) \in Int
    <3>1. 2 * (One - spread) \in Int
      BY <2>4 DEF One
    <3>2. QED
      BY <3>1, QuotIs
  <2> DEFINE q == Quot(2 * (One - spread), 5)
  <2> HIDE DEF q
  <2>10. 350 + q + 50 * n \in Int
    BY <1>1, <2>9 DEF q
  <2>11. Technical(t).score \in -One..One
    <3>1. Quot(SumFunction(f), SumFunction(w)) \in Int
      BY <2>7, <2>8, QuotIs
    <3>2. QED
      BY <2>1, <3>1, ClipIs
  <2>12. Technical(t).confidence \in 0..One
    BY <2>1, <2>10, UnitIs DEF q
  <2>13. QED
    BY <2>11, <2>12
<1>4. QED
  BY <1>2, <1>3

LEMMA MlIs ==
  ASSUME NEW up \in Ups \cup {None}
  PROVE  MlSignal(up).score \in -One..One /\ MlSignal(up).confidence \in 0..One
<1>1. CASE up = None
  BY <1>1 DEF MlSignal, One
<1>2. CASE up # None
  <2>1. 2 * up - One \in Int
    <3>1. Ups \subseteq 0..One \cup {None}
      BY DecisionsAssumption
    <3>2. up \in 0..One
      BY <1>2, <3>1
    <3>3. QED
      BY <3>2 DEF One
  <2>2. Abs(2 * up - One) \in Int
    BY <2>1, AbsIs
  <2>3. QED
    BY <1>2, <2>1, <2>2, ClipIs, UnitIs DEF MlSignal
<1>3. QED
  BY <1>1, <1>2

LEMMA MacroIs ==
  ASSUME NEW t, NEW reply
  PROVE  LET s == Scenarios[MacroRegime(t, reply)]
         IN  s.score \in -One..One /\ s.confidence \in 0..One
<1>1. MacroRegime(t, reply) \in DOMAIN Scenarios
  BY DEF MacroRegime, Derive, Classified, Scenarios
<1>2. \A r \in DOMAIN Scenarios :
        Scenarios[r].score \in -One..One /\ Scenarios[r].confidence \in 0..One
  <2>1. \A r \in DOMAIN Scenarios :
          /\ Scenarios[r].score \in {700, 800, 620, 0, -450, -550, -850, -800, -950}
          /\ Scenarios[r].confidence \in {850, 880, 800, 400, 720, 750, 900, 920, 950}
    BY SMTT(60) DEF Scenarios, Scenario
  <2>2. {700, 800, 620, 0, -450, -550, -850, -800, -950} \subseteq -One..One
    BY DEF One
  <2>3. {850, 880, 800, 400, 720, 750, 900, 920, 950} \subseteq 0..One
    BY DEF One
  <2>4. QED
    BY <2>1, <2>2, <2>3
<1>3. QED
  BY <1>1, <1>2

-----------------------------------------------------------------------------
(* The fusion of the four layers.                                          *)
IsLayers(l) ==
  /\ Len(l) = 4 /\ DOMAIN l = 1..4
  /\ \A i \in 1..4 : l[i].score \in Int /\ l[i].confidence \in Nat /\ l[i].weight \in Nat
  /\ \E i \in 1..4 : l[i].weight > 0

LEMMA LayersAre ==
  ASSUME NEW n \in DOMAIN Tapes, NEW reply, NEW up \in Ups \cup {None}
  PROVE  IsLayers(Layers(Tapes[n], reply, up))
<1> DEFINE t == Tapes[n]
           a == Technical(t)
           b == Microstructure(t)
           c == Scenarios[MacroRegime(t, reply)]
           d == MlSignal(up)
           w == Config.weights
           l == Layers(t, reply, up)
<1>1. IsTape(t)
  BY DecisionsAssumption
<1>2. /\ a.score \in -One..One /\ a.confidence \in 0..One
      /\ b.score \in -One..One /\ b.confidence \in 0..One
      /\ c.score \in -One..One /\ c.confidence \in 0..One
      /\ d.score \in -One..One /\ d.confidence \in 0..One
  BY <1>1, TechnicalIs, MicrostructureIs, MacroIs, MlIs
<1>3. /\ {w.technical, w.microstructure, w.macro, w.ml} \subseteq Nat
      /\ \E x \in {w.technical, w.microstructure, w.macro, w.ml} : x > 0
  BY DecisionsAssumption
<1>4. l = << Layer(a, w.technical), Layer(b, w.microstructure),
             Layer(c, w.macro), Layer(d, w.ml) >>
  BY DEF Layers
<1> HIDE DEF a, b, c, d, w, l
<1>5. Len(l) = 4 /\ DOMAIN l = 1..4
  BY <1>4
<1>6. /\ l[1] = Layer(a, w.technical) /\ l[2] = Layer(b, w.microstructure)
      /\ l[3] = Layer(c, w.macro) /\ l[4] = Layer(d, w.ml)
  BY <1>4
<1>7. \A i \in 1..4 : i = 1 \/ i = 2 \/ i = 3 \/ i = 4
  OBVIOUS
<1>8. \A i \in 1..4 : l[i].score \in Int /\ l[i].confidence \in Nat /\ l[i].weight \in Nat
  <2>1. \A x : x \in 0..One => x \in Nat
    BY DEF One
  <2>2. \A x : x \in -One..One => x \in Int
    BY DEF One
  <2>3. \A s, x : /\ Layer(s, x).score = s.score
                 /\ Layer(s, x).confidence = s.confidence
                 /\ Layer(s, x).weight = x
    BY DEF Layer
  <2>4. \A s, x : s.score \in -One..One /\ s.confidence \in 0..One /\ x \in Nat =>
          LET y == Layer(s, x) IN y.score \in Int /\ y.confidence \in Nat /\ y.weight \in Nat
    BY <2>1, <2>2, <2>3
  <2>5. /\ w.technical \in Nat /\ w.microstructure \in Nat /\ w.macro \in Nat /\ w.ml \in Nat
    BY <1>3
  <2>6. /\ l[1].score \in Int /\ l[1].confidence \in Nat /\ l[1].weight \in Nat
        /\ l[2].score \in Int /\ l[2].confidence \in Nat /\ l[2].weight \in Nat
        /\ l[3].score \in Int /\ l[3].confidence \in Nat /\ l[3].weight \in Nat
        /\ l[4].score \in Int /\ l[4].confidence \in Nat /\ l[4].weight \in Nat
    BY <1>2, <1>6, <2>4, <2>5
  <2>7. QED
    BY <1>7, <2>6
<1>9. \E i \in 1..4 : l[i].weight > 0
  <2>1. /\ l[1].weight = w.technical /\ l[2].weight = w.microstructure
        /\ l[3].weight = w.macro /\ l[4].weight = w.ml
    BY <1>6 DEF Layer
  <2>2. QED
    BY <1>3, <2>1
<1>10. QED
  BY <1>5, <1>8, <1>9 DEF IsLayers, l

LEMMA FusionIs ==
  ASSUME NEW l, IsLayers(l)
  PROVE  Fused(l) \in -One..One /\ Confidence(l) \in 0..One
<1> DEFINE e == [i \in DOMAIN l |-> Effective(l[i])]
           w == [i \in DOMAIN l |-> l[i].weight]
           f == [i \in DOMAIN l |-> Effective(l[i]) * l[i].score]
           sg == Sign(Fused(l))
           share(x) == CASE sg = 0 \/ Sign(x.score) = 0 -> 500
                         [] sg # 0 /\ Sign(x.score) = sg -> One
                         [] OTHER -> 0
           g == [i \in DOMAIN l |-> l[i].weight * share(l[i])]
<1>1. /\ DOMAIN l = 1..4
      /\ \A i \in 1..4 : l[i].score \in Int /\ l[i].confidence \in Nat /\ l[i].weight \in Nat
      /\ \E i \in 1..4 : l[i].weight > 0
  BY DEF IsLayers
<1>2. \A i \in 1..4 : Effective(l[i]) \in Int
  BY <1>1 DEF Effective
<1>3. /\ Credence(l) = SumFunction(e) /\ WeightOf(l) = SumFunction(w)
      /\ Fused(l) = IF Credence(l) <= 0 THEN 0 ELSE Clip(Quot(SumFunction(f), Credence(l)))
      /\ Agreement(l) = Quot(SumFunction(g), WeightOf(l))
  BY DEF Credence, WeightOf, Fused, Agreement
<1>4. Credence(l) \in Int
  <2>1. DOMAIN e = 1..4 /\ \A i \in 1..4 : e[i] \in Int
    BY <1>1, <1>2
  <2> HIDE DEF e
  <2>2. QED
    BY <1>3, <2>1, SumOver, 4 \in Nat
<1>5. WeightOf(l) \in Nat \ {0}
  <2>1. DOMAIN w = 1..4 /\ \A i \in 1..4 : w[i] \in Int /\ w[i] >= 0
    BY <1>1
  <2>2. PICK b \in 1..4 : w[b] > 0
    BY <1>1
  <2> HIDE DEF w
  <2>3. SumFunction(w) \in Int /\ SumFunction(w) >= w[b]
    BY <2>1, SumOver, 4 \in Nat
  <2>4. QED
    BY <1>3, <2>1, <2>2, <2>3
<1>6. SumFunction(f) \in Int
  <2>1. DOMAIN f = 1..4 /\ \A i \in 1..4 : f[i] \in Int
    BY <1>1, <1>2
  <2> HIDE DEF f
  <2>2. QED
    BY <2>1, SumOver, 4 \in Nat
<1>7. Fused(l) \in -One..One
  <2>1. 0 \in -One..One
    BY DEF One
  <2>2. Credence(l) > 0 => Quot(SumFunction(f), Credence(l)) \in Int
    BY <1>4, <1>6, QuotIs
  <2> HIDE DEF f
  <2>3. QED
    BY <1>3, <1>4, <2>1, <2>2, ClipIs
<1>8. Agreement(l) \in Int
  <2>1. \A x : share(x) \in {0, 500, One}
    OBVIOUS
  <2> HIDE DEF share
  <2>2. \A i \in 1..4 : share(l[i]) \in Int
    BY <2>1 DEF One
  <2>3. DOMAIN g = 1..4 /\ \A i \in 1..4 : g[i] \in Int
    BY <1>1, <2>2
  <2> HIDE DEF g
  <2>4. SumFunction(g) \in Int
    BY <2>3, SumOver, 4 \in Nat
  <2>5. QED
    BY <1>3, <1>5, <2>4, QuotIs
<1> DEFINE c == WeightedConfidence(l)
           m == Min({One, 2 * Abs(Fused(l))})
           x == Quot(73 * c + 15 * m + 10 * Agreement(l), 100)
<1>9. c \in Int
  BY <1>4, <1>5, QuotIs DEF WeightedConfidence
<1>10. m \in Int
  <2>1. Fused(l) \in Int /\ One \in Int
    BY <1>7 DEF One
  <2>2. 2 * Abs(Fused(l)) \in Int
    BY <2>1, AbsIs
  <2>3. QED
    BY <2>1, <2>2, MinOfTwo
<1>11. Confidence(l) = Within(x, 0, One)
  BY DEF Confidence
<1> HIDE DEF c, m
<1>12. x \in Int
  BY <1>8, <1>9, <1>10, QuotIs
<1> HIDE DEF x
<1>13. Confidence(l) \in 0..One
  BY <1>11, <1>12, UnitIs
<1>14. QED
  BY <1>7, <1>13

LEMMA ActionIs ==
  ASSUME NEW l, IsLayers(l), NEW killed \in BOOLEAN
  PROVE  /\ Action(l, killed) \in {"buy", "sell", "hold"}
         /\ killed => Action(l, killed) = "hold"
<1>1. Fused(l) \in Int /\ Confidence(l) \in Int
  BY FusionIs, SMTT(40) DEF One
<1>2. Abs(Fused(l)) \in Int
  BY <1>1, AbsIs
<1>3. Config.actionThreshold \in Int /\ Config.minConfidence \in Int
  BY DecisionsAssumption
<1> DEFINE a == Abs(Fused(l))
           c == Confidence(l)
           calm == killed \/ a < Config.actionThreshold \/ c < Config.minConfidence
<1>4. (~killed /\ a >= Config.actionThreshold /\ c >= Config.minConfidence) = ~calm
  BY <1>1, <1>2, <1>3
<1>5. calm \in BOOLEAN
  OBVIOUS
<1>6. Action(l, killed) = CASE calm -> "hold"
                            [] ~calm -> IF Fused(l) > 0 THEN "buy" ELSE "sell"
  BY <1>4 DEF Action
<1>7. killed => calm
  OBVIOUS
<1> HIDE DEF calm
<1>8. QED
  BY <1>5, <1>6, <1>7

-----------------------------------------------------------------------------
(* The levels of a decision: within reach of the price.                    *)
LevelsFit ==
  /\ (Config.entryOffset + Config.stop) * Config.maxVol < 10 * One
  /\ Config.target * Config.maxVol < 10 * One

LEMMA UnitOfPrice ==
  ASSUME NEW price \in Nat, price >= 10 * One, NEW atr \in Int \cup {None}
  PROVE  LET unit == VolatilityUnit(price, atr)
         IN  /\ unit \in Nat \ {0}
             /\ unit * (10 * One) <= price * Config.maxVol
<1> DEFINE u == 10 * One
           lo == Config.minVol
           hi == Config.maxVol
           x == Quot(Or(atr, 0) * 10 * One, price)
           frac == Within(x, lo, hi)
           unit == Quot(price * frac, u)
<1>1. lo \in Nat \ {0} /\ hi \in Nat \ {0} /\ lo <= hi
  BY DecisionsAssumption
<1>2. u \in Nat \ {0} /\ u = 10000
  BY DEF One
<1>3. x \in Int
  <2>1. Or(atr, 0) * 10 * One \in Int
    <3>1. Or(atr, 0) \in Int
      BY DEF Or
    <3>2. QED
      BY <3>1 DEF One
  <2>2. price \in Nat \ {0}
    BY <1>2
  <2>3. QED
    BY <2>1, <2>2, QuotIs
<1>4. VolatilityUnit(price, atr) = unit
  BY DEF VolatilityUnit
<1> HIDE DEF x, lo, hi
<1>5. frac \in Nat /\ lo <= frac /\ frac <= hi
  <2>1. lo \in Int /\ hi \in Int
    BY <1>1
  <2>2. frac = IF x <= lo THEN lo ELSE IF x >= hi THEN hi ELSE x
    BY <1>1, <1>3, <2>1, WithinIs
  <2>3. QED
    BY <1>1, <1>3, <2>2
<1> HIDE DEF frac, u
<1> DEFINE p == price * frac
<1>6. p \in Nat /\ p <= price * hi /\ p >= u
  <2>1. \A a, b \in Int : a >= 0 /\ b >= 0 => a * b >= 0
    OBVIOUS
  <2>2. price * (hi - frac) >= 0 /\ price * (frac - 1) >= 0
    BY <1>1, <1>5, <2>1
  <2>3. price * (hi - frac) = price * hi - p /\ price * (frac - 1) = p - price
    BY <1>1, <1>5
  <2>4. p \in Int /\ price * hi \in Int /\ price >= u
    BY <1>1, <1>5 DEF u
  <2> HIDE DEF p
  <2>5. QED
    BY <1>2, <2>2, <2>3, <2>4
<1> HIDE DEF p
<1>7. unit \in Int /\ unit = p \div u /\ 1 * u = u /\ 1 \in Int
  BY <1>2, <1>6, QuotIs DEF p
<1>8. 1 <= p \div u
  BY <1>2, <1>6, <1>7, QuotientIs
<1>9. unit * u <= p
  <2>1. \A k \in Int : k * u \in Int /\ (k * u <= p <=> k <= p \div u)
    BY <1>2, <1>6, QuotientIs
  <2>2. QED
    BY <1>7, <2>1
<1> DEFINE a == unit * u
           b == price * hi
<1>10. a \in Int /\ b \in Int
  BY <1>1, <1>2, <1>7
<1> HIDE DEF a, b, unit
<1>11. a <= b
  BY <1>6, <1>9, <1>10 DEF a, b
<1>12. QED
  BY <1>4, <1>7, <1>8, <1>11 DEF a, b, u, hi

(* A few units of it do not reach down to zero.                            *)
LEMMA UnitsFit ==
  ASSUME NEW price \in Nat, price >= 10 * One, NEW unit \in Nat \ {0},
         unit * (10 * One) <= price * Config.maxVol,
         NEW k \in Nat, k * Config.maxVol < 10 * One
  PROVE  k * unit \in Nat /\ k * unit < price
<1> DEFINE u == 10 * One
           hi == Config.maxVol
<1>1. hi \in Nat /\ u \in Nat \ {0}
  BY DecisionsAssumption DEF One
<1> HIDE DEF u, hi
<1>2. unit * u <= price * hi /\ k * hi < u /\ price >= u
  BY DEF u, hi
<1>3. \A a, b \in Int : a >= 0 /\ b >= 0 => a * b >= 0
  OBVIOUS
<1>4. k * (price * hi - unit * u) >= 0
  BY <1>1, <1>2, <1>3
<1>5. price * (u - k * hi - 1) >= 0
  BY <1>1, <1>2, <1>3
<1>6. k * (price * hi - unit * u) = (k * hi) * price - (k * unit) * u
  BY <1>1
<1>7. price * (u - k * hi - 1) = price * u - (k * hi) * price - price
  BY <1>1
<1> DEFINE d == k * unit
           e == (k * hi) * price
           f == d * u
           g == price * u
<1>8. d \in Nat /\ e \in Int /\ f \in Int /\ g \in Int
  BY <1>1
<1>9. e - f >= 0 /\ g - e - price >= 0
  BY <1>4, <1>5, <1>6, <1>7
<1> HIDE DEF e
<1>10. g - f >= price
  BY <1>8, <1>9
<1>11. d < price
  <2>1. CASE d >= price
    <3>1. u * (d - price) >= 0
      BY <1>1, <1>3, <1>8, <2>1
    <3>2. u * (d - price) = f - g
      BY <1>1, <1>8
    <3>3. QED
      BY <1>1, <1>2, <1>8, <1>10, <3>1, <3>2
  <2>2. QED
    BY <1>8, <2>1
<1>12. QED
  BY <1>8, <1>11

LEMMA LevelsAreConsistent ==
  ASSUME LevelsFit, NEW price \in Nat, price >= 10 * One, NEW atr \in Int \cup {None},
         NEW action \in {"buy", "sell", "hold"}
  PROVE  Consistent(action, TradeLevels(action, price, atr))
<1> DEFINE side == IF action = "buy" THEN 1 ELSE -1
           unit == VolatilityUnit(price, atr)
           o == Config.entryOffset
           s == Config.stop
           g == Config.target
           entry == price - side * o * unit
           l == TradeLevels(action, price, atr)
<1>1. unit \in Nat \ {0} /\ unit * (10 * One) <= price * Config.maxVol
  BY UnitOfPrice
<1>2. o \in Nat /\ s \in Nat \ {0} /\ g \in Nat \ {0} /\ Config.maxVol \in Nat
  BY DecisionsAssumption
<1>3. CASE action = "hold"
  BY <1>3 DEF Consistent
<1>4. CASE action # "hold"
  <2>1. /\ l.entry = entry
        /\ l.stop = entry - side * s * unit
        /\ l.target = entry + side * g * unit
    BY <1>4 DEF TradeLevels
  <2> HIDE DEF unit, o, s, g, l
  <2> DEFINE ou == o * unit
             su == s * unit
             gu == g * unit
  <2>2. (o + s) * unit < price /\ g * unit < price
    <3>1. o + s \in Nat /\ g \in Nat
      BY <1>2
    <3>2. (o + s) * Config.maxVol < 10 * One /\ g * Config.maxVol < 10 * One
      BY DEF LevelsFit, o, s, g
    <3> DEFINE os == o + s
    <3> HIDE DEF os
    <3>3. os * unit < price /\ g * unit < price
      BY <1>1, <3>1, <3>2, UnitsFit DEF os
    <3>4. QED
      BY <3>3 DEF os
  <2>3. ou \in Nat /\ su \in Nat \ {0} /\ gu \in Nat \ {0} /\ (o + s) * unit = ou + su
    <3>1. \A a, b \in Nat \ {0} : a * b \in Nat \ {0}
      OBVIOUS
    <3>2. QED
      BY <1>1, <1>2, <3>1
  <2>4. /\ 1 * o * unit = ou /\ 1 * s * unit = su /\ 1 * g * unit = gu
        /\ (-1) * o * unit = -ou /\ (-1) * s * unit = -su /\ (-1) * g * unit = -gu
    BY <1>1, <1>2
  <2> HIDE DEF ou, su, gu
  <2>5. CASE action = "buy"
    <3>1. l.entry = price - ou /\ l.stop = price - ou - su /\ l.target = price - ou + gu
      BY <2>1, <2>4, <2>5
    <3>2. ou + su < price
      BY <2>2, <2>3
    <3> DEFINE x == price - ou
               y == price - ou - su
               z == price - ou + gu
    <3>3. x > 0 /\ y > 0 /\ z > 0 /\ y < x /\ x < z
      BY <2>3, <3>2
    <3> HIDE DEF x, y, z
    <3>4. l.entry = x /\ l.stop = y /\ l.target = z
      BY <3>1 DEF x, y, z
    <3>5. QED
      BY <2>5, <3>3, <3>4 DEF Consistent, l
  <2>6. CASE action = "sell"
    <3>1. l.entry = price + ou /\ l.stop = price + ou + su /\ l.target = price + ou - gu
      BY <1>1, <2>1, <2>3, <2>4, <2>6
    <3>2. gu < price
      BY <2>2 DEF gu
    <3> DEFINE x == price + ou
               y == price + ou + su
               z == price + ou - gu
    <3>3. x > 0 /\ y > 0 /\ z > 0 /\ z < x /\ x < y
      BY <2>3, <3>2
    <3> HIDE DEF x, y, z
    <3>4. l.entry = x /\ l.stop = y /\ l.target = z
      BY <3>1 DEF x, y, z
    <3>5. QED
      BY <2>6, <3>3, <3>4 DEF Consistent, l
  <2>7. QED
    BY <1>4, <2>5, <2>6
<1>5. QED
  BY <1>3, <1>4

-----------------------------------------------------------------------------
(* The score of a symbol.                                                  *)
AreMeasures(m) ==
  /\ {m.notional, m.volatility, m.spread, m.slippage, m.drawdown} \subseteq Nat
  /\ {m.trend, m.imbalance} \subseteq Int
  /\ {m.accuracy, m.reliability} \subseteq Int \cup {None}
  /\ {m.chop, m.panic} \subseteq BOOLEAN

LEMMA FallingIs ==
  ASSUME NEW x \in Int, NEW best \in Int, NEW worst \in Int, best < worst
  PROVE  Falling(x, best, worst) \in Int
<1> DEFINE q == Quot(One * (worst - x), worst - best)
<1>1. q \in Int
  <2>1. One * (worst - x) \in Int /\ worst - best \in Nat \ {0}
    BY DEF One
  <2>2. QED
    BY <2>1, QuotIs
<1>2. Points(q) \in Int
  BY <1>1, PointsAre
<1> HIDE DEF q
<1>3. CASE x <= best
  BY <1>3 DEF Falling, One
<1>4. CASE x >= worst
  BY <1>4 DEF Falling, One
<1>5. CASE ~(x <= best) /\ ~(x >= worst)
  <2>1. Falling(x, best, worst) = Points(q)
    BY <1>5 DEF Falling, q
  <2>2. QED
    BY <1>2, <2>1
<1>6. QED
  BY <1>3, <1>4, <1>5

LEMMA BreakdownIs ==
  ASSUME NEW m, AreMeasures(m)
  PROVE  Breakdown(m) \in Seq(Int) /\ Len(Breakdown(m)) >= 7
<1> DEFINE trend == Points(One - Quot(14 * Abs(m.trend - 500), 10))
           imbalance == Points(One - Quot(11 * Abs(m.imbalance), 10))
           a == << Points(m.notional), Falling(m.volatility, 40, 200),
                   Falling(m.spread, 30, 250), Falling(m.slippage, 30, 400),
                   trend, imbalance, Points(One - 4 * m.drawdown) >>
           b == IF m.accuracy = None THEN <<>> ELSE << Points(20 * m.accuracy - 500) >>
           c == IF m.reliability = None THEN <<>> ELSE << Points(10 * m.reliability) >>
<1>1. Breakdown(m) = a \o b \o c
  BY DEF Breakdown
<1>2. One \in Int
  BY DEF One
<1>3. /\ m.notional \in Int /\ m.volatility \in Int /\ m.spread \in Int
      /\ m.slippage \in Int /\ m.drawdown \in Int /\ m.trend \in Int /\ m.imbalance \in Int
      /\ m.accuracy # None => m.accuracy \in Int
      /\ m.reliability # None => m.reliability \in Int
  BY DEF AreMeasures
<1>4. trend \in Int /\ imbalance \in Int
  <2>1. Abs(m.trend - 500) \in Int /\ Abs(m.imbalance) \in Int
    BY <1>3, AbsIs
  <2> DEFINE x == Abs(m.trend - 500)
             y == Abs(m.imbalance)
  <2> HIDE DEF x, y
  <2>2. Quot(14 * x, 10) \in Int /\ Quot(11 * y, 10) \in Int
    BY <2>1, QuotIs DEF x, y
  <2> DEFINE p == Quot(14 * x, 10)
             q == Quot(11 * y, 10)
  <2> HIDE DEF p, q
  <2>3. Points(One - p) \in Int /\ Points(One - q) \in Int
    BY <1>2, <2>2, PointsAre DEF p, q
  <2>4. QED
    BY <2>3 DEF p, q, x, y
<1>5. /\ Points(m.notional) \in Int /\ Points(One - 4 * m.drawdown) \in Int
      /\ m.accuracy # None => Points(20 * m.accuracy - 500) \in Int
      /\ m.reliability # None => Points(10 * m.reliability) \in Int
  <2>1. /\ One - 4 * m.drawdown \in Int
        /\ m.accuracy # None => 20 * m.accuracy - 500 \in Int
        /\ m.reliability # None => 10 * m.reliability \in Int
    BY <1>2, <1>3
  <2>2. QED
    BY <1>3, <2>1, PointsAre
<1>6. /\ Falling(m.volatility, 40, 200) \in Int /\ Falling(m.spread, 30, 250) \in Int
      /\ Falling(m.slippage, 30, 400) \in Int
  <2>1. \A x \in Int : Falling(x, 40, 200) \in Int
    BY FallingIs, 40 \in Int, 200 \in Int, 40 < 200
  <2>2. \A x \in Int : Falling(x, 30, 250) \in Int
    BY FallingIs, 30 \in Int, 250 \in Int, 30 < 250
  <2>3. \A x \in Int : Falling(x, 30, 400) \in Int
    BY FallingIs, 30 \in Int, 400 \in Int, 30 < 400
  <2>4. QED
    BY <1>3, <2>1, <2>2, <2>3
<1> HIDE DEF trend, imbalance
<1>7. a \in Seq(Int) /\ Len(a) = 7
  BY <1>4, <1>5, <1>6
<1>8. b \in Seq(Int) /\ c \in Seq(Int)
  BY <1>5
<1> HIDE DEF a, b, c
<1>9. a \o b \in Seq(Int) /\ Len(a \o b) = 7 + Len(b) /\ Len(b) \in Nat /\ Len(c) \in Nat
  <2>1. a \o b \in Seq(Int) /\ Len(a \o b) = Len(a) + Len(b)
    BY <1>7, <1>8, ConcatProperties
  <2>2. Len(b) \in Nat /\ Len(c) \in Nat
    BY <1>8, LenProperties
  <2>3. QED
    BY <1>7, <2>1, <2>2
<1> DEFINE ab == a \o b
<1> HIDE DEF ab
<1>10. ab \o c \in Seq(Int) /\ Len(ab \o c) = Len(ab) + Len(c)
  BY <1>8, <1>9, ConcatProperties DEF ab
<1>11. QED
  BY <1>1, <1>9, <1>10 DEF ab

(* A hazard caps the score.                                                *)
LEMMA ScoreIsCapped ==
  ASSUME NEW m, AreMeasures(m)
  PROVE  /\ Score(m) \in Int
         /\ m.panic => Score(m) <= 180
         /\ Illiquid(m) => Score(m) <= 380
         /\ m.chop => Score(m) <= 560
         /\ LowAccuracy(m) => Score(m) <= 480
<1> DEFINE b == Breakdown(m)
           S == {One} \cup (IF m.panic THEN {180} ELSE {})
                      \cup (IF Illiquid(m) THEN {380} ELSE {})
                      \cup (IF m.chop THEN {560} ELSE {})
                      \cup (IF LowAccuracy(m) THEN {480} ELSE {})
           c == Ceiling(m)
           mean == SumFunction(b) \div Len(b)
<1>1. S \in SUBSET Nat /\ S # {}
  BY DEF One
<1>2. /\ m.panic => 180 \in S
      /\ Illiquid(m) => 380 \in S
      /\ m.chop => 560 \in S
      /\ LowAccuracy(m) => 480 \in S
  OBVIOUS
<1>3. c = Min(S)
  BY DEF Ceiling
<1> HIDE DEF S, c
<1>4. c \in S /\ \A s \in S : c <= s
  BY <1>1, <1>3, SmallestOf
<1>5. mean \in Int
  <2>1. b \in Seq(Int) /\ Len(b) >= 7
    BY BreakdownIs
  <2>2. Len(b) \in Nat \ {0} /\ DOMAIN b = 1..Len(b) /\ \A i \in 1..Len(b) : b[i] \in Int
    BY <2>1, LenProperties, ElementOfSeq
  <2> HIDE DEF b
  <2>3. SumFunction(b) \in Int
    BY <2>2, SumOver
  <2>4. QED
    BY <2>2, <2>3, QuotientIs
<1>6. Score(m) = Min({c, mean})
  BY DEF Score, c
<1> HIDE DEF mean
<1>7. c \in Int
  BY <1>1, <1>4
<1>8. Score(m) \in Int /\ Score(m) <= c
  BY <1>5, <1>6, <1>7, MinOfTwo
<1>9. QED
  BY <1>2, <1>4, <1>7, <1>8

LEMMA SafeGradeIs ==
  ASSUME NEW score \in Int
  PROVE  StatusForScore(score) = "SAFE_TO_OBSERVE" <=> score > 600
<1>1. CASE score <= 200
  BY <1>1 DEF StatusForScore
<1>2. CASE 200 < score /\ score <= 400
  BY <1>2 DEF StatusForScore
<1>3. CASE 400 < score /\ score <= 600
  BY <1>3 DEF StatusForScore
<1>4. CASE score > 600
  BY <1>4 DEF StatusForScore
<1>5. QED
  BY <1>1, <1>2, <1>3, <1>4

LEMMA ConditionIs ==
  ASSUME NEW m, AreMeasures(m), NEW score
  PROVE  /\ Condition(m, score) \in Conditions
         /\ Condition(m, score) = "PANIC" <=> m.panic
         /\ Condition(m, score) = "ILLIQUID" <=> ~m.panic /\ Illiquid(m)
         /\ Condition(m, score) = "CHOPPY" => m.chop
<1>1. {"PANIC", "ILLIQUID", "OVEREXTENDED", "CHOPPY", "MIXED", "CALM", "OPPORTUNISTIC"}
        \subseteq Conditions
  <2>1. DOMAIN Severity = 1..7
    BY DEF Severity
  <2>2. /\ Severity[1] = "PANIC" /\ Severity[2] = "ILLIQUID" /\ Severity[3] = "OVEREXTENDED"
        /\ Severity[4] = "CHOPPY" /\ Severity[5] = "MIXED" /\ Severity[6] = "CALM"
        /\ Severity[7] = "OPPORTUNISTIC"
    BY DEF Severity
  <2>3. \A i \in 1..7 : Severity[i] \in Conditions
    BY <2>1 DEF Conditions
  <2>4. QED
    BY <2>2, <2>3
<1>2. m.panic \in BOOLEAN /\ Illiquid(m) \in BOOLEAN
  BY DEF AreMeasures, Illiquid
<1> DEFINE calm == IF m.volatility > 160 /\ m.trend > 800 THEN "OVEREXTENDED"
                   ELSE IF m.chop THEN "CHOPPY"
                   ELSE IF score >= 650 /\ m.trend >= 350 /\ m.volatility <= 100
                        THEN "OPPORTUNISTIC"
                   ELSE IF score >= 600 /\ m.volatility <= 60 THEN "CALM"
                   ELSE "MIXED"
<1>3. /\ calm \in {"OVEREXTENDED", "CHOPPY", "OPPORTUNISTIC", "CALM", "MIXED"}
      /\ calm = "CHOPPY" => m.chop
  OBVIOUS
<1>4. Condition(m, score) = CASE m.panic -> "PANIC"
                              [] ~m.panic /\ Illiquid(m) -> "ILLIQUID"
                              [] ~m.panic /\ ~Illiquid(m) -> calm
  BY DEF Condition
<1> HIDE DEF calm
<1>5. CASE m.panic
  BY <1>1, <1>2, <1>4, <1>5
<1>6. CASE ~m.panic /\ Illiquid(m)
  BY <1>1, <1>2, <1>4, <1>6
<1>7. CASE ~m.panic /\ ~Illiquid(m)
  <2>1. Condition(m, score) = calm
    BY <1>4, <1>7
  <2>2. QED
    BY <1>1, <1>3, <1>7, <2>1
<1>8. QED
  BY <1>2, <1>5, <1>6, <1>7

-----------------------------------------------------------------------------
(* What was learned.                                                       *)
OutcomeRows == [condition : Conditions \cup {None}, confidence : 0..One, correct : {0, 1, None}]

LEMMA RecentIs ==
  ASSUME outcomes \in Seq(OutcomeRows)
  PROVE  /\ Recent \in Seq(OutcomeRows) /\ Len(Recent) \in Nat
         /\ DOMAIN Recent = 1..Len(Recent)
         /\ \A i \in DOMAIN Recent :
              Recent[i].confidence \in 0..One /\ Recent[i].correct \in {0, 1, None}
         /\ IsFiniteSet(DOMAIN Recent)
<1>1. OutcomesLimit \in Nat \ {0}
  BY DecisionsAssumption
<1>2. Recent \in Seq(OutcomeRows)
  BY <1>1, NewestBars DEF Recent
<1>3. Len(Recent) \in Nat /\ DOMAIN Recent = 1..Len(Recent)
  BY <1>2, LenProperties
<1>4. \A i \in DOMAIN Recent : Recent[i] \in OutcomeRows
  BY <1>2, <1>3, ElementOfSeq
<1>5. IsFiniteSet(DOMAIN Recent)
  BY <1>3, FS_Interval
<1>6. \A r \in OutcomeRows : r.confidence \in 0..One /\ r.correct \in {0, 1, None}
  BY DEF OutcomeRows
<1>7. QED
  BY <1>2, <1>3, <1>4, <1>5, <1>6

LEMMA CountsAre ==
  ASSUME outcomes \in Seq(OutcomeRows), NEW S, S \subseteq DOMAIN Recent
  PROVE  /\ IsFiniteSet(S) /\ IsFiniteSet(Right(S))
         /\ Cardinality(S) \in Nat /\ (Cardinality(S) = 0 <=> S = {})
         /\ Cardinality(Right(S)) \in Nat /\ Cardinality(Right(S)) <= Cardinality(S)
<1>1. IsFiniteSet(S) /\ Right(S) \subseteq S
  BY RecentIs, FS_Subset DEF Right
<1>2. IsFiniteSet(Right(S)) /\ Cardinality(Right(S)) <= Cardinality(S)
  BY <1>1, FS_Subset
<1>3. QED
  BY <1>1, <1>2, FS_CardinalityType, FS_EmptySet

LEMMA AccuracyIs ==
  ASSUME outcomes \in Seq(OutcomeRows)
  PROVE  /\ RecentAccuracy \in Int \cup {None} /\ SymbolAccuracy \in Int \cup {None}
         /\ SymbolMinSamples <= Cardinality(Judged) /\ Judged # {} =>
              /\ SymbolAccuracy \in Int
              /\ SymbolAccuracy >= 45 =>
                   45 * Cardinality(Judged) <= 100 * Cardinality(Right(Judged))
<1> DEFINE n == Cardinality(Judged)
           r == Cardinality(Right(Judged))
<1>1. n \in Nat /\ r \in Nat /\ (n = 0 <=> Judged = {})
  BY CountsAre DEF Judged
<1>2. Accuracy(Judged) = Quot(100 * r, n)
  BY DEF Accuracy
<1>3. RecentAccuracy = IF n >= ReliableMinSamples THEN Accuracy(Judged) ELSE None
  BY DEF RecentAccuracy
<1>4. SymbolAccuracy = IF Judged # {} /\ n >= SymbolMinSamples THEN Accuracy(Judged)
                       ELSE RecentAccuracy
  BY DEF SymbolAccuracy
<1> HIDE DEF n, r
<1>5. n # 0 => /\ Accuracy(Judged) \in Int
               /\ Accuracy(Judged) >= 45 => 45 * n <= 100 * r
  <2> SUFFICES ASSUME n # 0
               PROVE  /\ Accuracy(Judged) \in Int
                      /\ Accuracy(Judged) >= 45 => 45 * n <= 100 * r
    OBVIOUS
  <2>1. n \in Nat \ {0} /\ 100 * r \in Int /\ 100 * r >= 0
    BY <1>1
  <2>2. Quot(100 * r, n) = (100 * r) \div n /\ Quot(100 * r, n) \in Int
    BY <2>1, QuotIs
  <2>3. 45 * n <= 100 * r <=> 45 <= (100 * r) \div n
    BY <2>1, QuotientIs, 45 \in Int
  <2> DEFINE q == (100 * r) \div n
  <2> HIDE DEF q
  <2>4. QED
    BY <1>2, <2>2, <2>3 DEF q
<1>6. n >= ReliableMinSamples => n # 0
  BY <1>1, DecisionsAssumption
<1>7. SymbolMinSamples \in Nat
  BY DecisionsAssumption
<1> DEFINE acc == Accuracy(Judged)
<1> HIDE DEF acc
<1>8. RecentAccuracy \in Int \cup {None}
  BY <1>3, <1>5, <1>6 DEF acc
<1>9. QED
  BY <1>1, <1>4, <1>5, <1>7, <1>8 DEF n, r, acc

LEMMA MeasuresAre ==
  ASSUME outcomes \in Seq(OutcomeRows), NEW t, IsTape(t), NEW a,
         a.micro = Microstructure(t)
  PROVE  AreMeasures(Measures(t, a))
<1> DEFINE m == Measures(t, a)
<1>1. /\ m.notional = t.notional /\ m.volatility = Or(t.vol, 0)
      /\ m.spread = 10 * Or(t.spread, 0)
      /\ m.slippage = 10 * Config.baseSlippage + 5 * Or(t.spread, 0)
      /\ m.trend = Min({1200, 5 * Abs(Or(t.slope, 0))})
      /\ m.imbalance = a.micro.imbalance /\ m.chop = a.micro.chop
      /\ m.panic = (a.regime \in CriticalRegimes \/ MacroTriggered(a.regime))
      /\ m.accuracy = SymbolAccuracy /\ m.reliability = RecentAccuracy /\ m.drawdown = 0
  BY DEF Measures
<1> HIDE DEF m
<1>2. /\ t.notional \in Nat /\ Or(t.vol, 0) \in Nat /\ Or(t.spread, 0) \in Nat
      /\ Or(t.slope, 0) \in Int
  BY DEF IsTape, Or
<1>3. Config.baseSlippage \in Nat
  BY DecisionsAssumption
<1>4. m.trend \in Int
  <2>1. 5 * Abs(Or(t.slope, 0)) \in Int
    BY <1>2, AbsIs
  <2> DEFINE x == 5 * Abs(Or(t.slope, 0))
  <2> HIDE DEF x
  <2>2. Min({1200, x}) \in Int
    BY <2>1, MinOfTwo, 1200 \in Int DEF x
  <2>3. QED
    BY <1>1, <2>2 DEF x
<1>5. m.imbalance \in Int /\ m.chop \in BOOLEAN
  <2>1. m.imbalance \in -One..One /\ m.chop \in BOOLEAN
    BY <1>1, MicrostructureIs
  <2>2. \A x \in -One..One : x \in Int
    BY DEF One
  <2>3. QED
    BY <2>1, <2>2
<1>6. m.panic \in BOOLEAN
  BY <1>1
<1>7. {m.accuracy, m.reliability} \subseteq Int \cup {None}
  BY <1>1, AccuracyIs
<1>8. {m.notional, m.volatility, m.spread, m.slippage, m.drawdown} \subseteq Nat
  <2> DEFINE s == Or(t.spread, 0)
             b == Config.baseSlippage
  <2>1. s \in Nat /\ b \in Nat
    BY <1>2, <1>3
  <2> HIDE DEF s, b
  <2>2. 10 * s \in Nat /\ 10 * b + 5 * s \in Nat
    BY <2>1
  <2>3. m.spread = 10 * s /\ m.slippage = 10 * b + 5 * s
    BY <1>1 DEF s, b
  <2>4. QED
    BY <1>1, <1>2, <2>2, <2>3
<1>9. QED
  BY <1>4, <1>5, <1>6, <1>7, <1>8 DEF AreMeasures, m

(* The verdicts of the newest outcomes, counted one by one.                *)
LEMMA VerdictsAre ==
  ASSUME outcomes \in Seq(OutcomeRows)
  PROVE  LET n(v) == Cardinality({i \in DOMAIN Recent : Recent[i].correct = v})
         IN  /\ n(0) \in Nat /\ n(1) \in Nat
             /\ n(1) = Cardinality(Right(Judged)) /\ n(0) + n(1) = Cardinality(Judged)
<1> DEFINE S(v) == {i \in DOMAIN Recent : Recent[i].correct = v}
<1>1. \A i \in DOMAIN Recent : Recent[i].correct \in {0, 1, None}
  BY RecentIs
<1>2. None # 0 /\ None # 1 /\ 0 # 1
  BY SignalsAssumption
<1>3. Judged = S(0) \cup S(1) /\ S(0) \cap S(1) = {} /\ Right(Judged) = S(1)
  BY <1>1, <1>2 DEF Judged, Right
<1>4. IsFiniteSet(S(0)) /\ IsFiniteSet(S(1))
  BY RecentIs, FS_Subset
<1> DEFINE A == S(0)
           B == S(1)
<1> HIDE DEF S
<1>5. /\ Cardinality(A \cup B) = Cardinality(A) + Cardinality(B) - Cardinality(A \cap B)
      /\ Cardinality(A) \in Nat /\ Cardinality(B) \in Nat
  BY <1>4, FS_Union, FS_CardinalityType
<1>6. Cardinality(A \cap B) = 0
  BY <1>3, FS_EmptySet
<1>7. Cardinality(A) + Cardinality(B) = Cardinality(Judged)
  BY <1>3, <1>5, <1>6
<1>8. QED
  BY <1>3, <1>5, <1>7 DEF S

-----------------------------------------------------------------------------
(* The calibration.                                                        *)
LEMMA StatedIs ==
  ASSUME outcomes \in Seq(OutcomeRows)
  PROVE  /\ Stated \subseteq 0..One /\ Stated \subseteq Nat
         /\ Fitted => Stated # {}
<1>1. \A i \in Judged : Recent[i].confidence \in 0..One
  BY RecentIs DEF Judged
<1>2. Right(Judged) \subseteq Judged
  BY DEF Right
<1>3. Stated \subseteq 0..One
  BY <1>1 DEF Stated
<1>4. Stated \subseteq Nat
  BY <1>3, UnitNumbers
<1>5. Fitted => Stated # {}
  BY <1>2 DEF Stated, Fitted
<1>6. QED
  BY <1>3, <1>4, <1>5

LEMMA MeanOverIs ==
  ASSUME outcomes \in Seq(OutcomeRows), NEW lo \in Stated, NEW hi \in Stated, lo <= hi
  PROVE  MeanOver(lo, hi) \in 0..One
<1> DEFINE S == {i \in Judged : lo <= Recent[i].confidence /\ Recent[i].confidence <= hi}
           n == Cardinality(S)
           r == Cardinality(Right(S))
<1>1. \A x \in Stated : x \in Nat
  BY StatedIs
<1>2. PICK i \in Judged : Recent[i].confidence = lo
  BY DEF Stated
<1>3. lo <= lo
  BY <1>1
<1>4. i \in S
  BY <1>2, <1>3
<1>5. S \subseteq DOMAIN Recent
  BY DEF Judged
<1>6. MeanOver(lo, hi) = Quot(r * One, n)
  BY DEF MeanOver, Share
<1>7. S # {}
  BY <1>4
<1> HIDE DEF S
<1>8. n \in Nat \ {0} /\ r \in Nat /\ r <= n
  BY <1>5, <1>7, CountsAre
<1> HIDE DEF n, r
<1> DEFINE x == r * One
           q == x \div n
<1>9. x \in Int /\ x >= 0 /\ x <= One * n /\ One * n \in Int /\ 1001 * n = One * n + n
  BY <1>8 DEF One
<1>10. Quot(x, n) = q /\ Quot(x, n) \in Int /\ Quot(x, n) >= 0
  BY <1>8, <1>9, QuotIs
<1>11. 1001 * n <= x <=> 1001 <= q
  BY <1>8, <1>9, QuotientIs, 1001 \in Int
<1> DEFINE m == One * n
<1> HIDE DEF x, q, m
<1>12. ~(1001 <= q)
  BY <1>8, <1>9, <1>11 DEF m
<1>13. QED
  <2>1. q \in Int /\ q >= 0 /\ ~(1001 <= q)
    BY <1>10, <1>12
  <2>2. q \in 0..1000
    BY <2>1
  <2>3. MeanOver(lo, hi) = q
    BY <1>6, <1>10 DEF x
  <2>4. 0..1000 = 0..One
    BY DEF One
  <2>5. QED
    BY <2>2, <2>3, <2>4, ZenonT(60)

Least(c, lo) == Min({MeanOver(lo, hi) : hi \in {h \in Stated : h >= c}})

LEMMA LeastIs ==
  ASSUME outcomes \in Seq(OutcomeRows), NEW c \in Stated, NEW lo \in Stated, lo <= c
  PROVE  /\ \E hi \in Stated : hi >= c /\ Least(c, lo) = MeanOver(lo, hi)
         /\ \A hi \in Stated : hi >= c => Least(c, lo) <= MeanOver(lo, hi)
         /\ Least(c, lo) \in 0..One
<1> DEFINE S == {MeanOver(lo, hi) : hi \in {h \in Stated : h >= c}}
<1>1. \A x \in Stated : x \in Nat
  BY StatedIs
<1>2. \A hi \in Stated : hi >= c => MeanOver(lo, hi) \in 0..One /\ MeanOver(lo, hi) \in Nat
  <2> SUFFICES ASSUME NEW hi \in Stated, hi >= c
               PROVE  MeanOver(lo, hi) \in 0..One /\ MeanOver(lo, hi) \in Nat
    OBVIOUS
  <2>1. lo <= hi
    BY <1>1
  <2>2. MeanOver(lo, hi) \in 0..One
    BY <2>1, MeanOverIs
  <2>3. QED
    BY <2>2, UnitNumbers, ZenonT(60)
<1>3. c >= c
  BY <1>1
<1>4. S \in SUBSET Nat /\ S # {}
  BY <1>2, <1>3
<1>5. Min(S) \in S /\ \A s \in S : Min(S) <= s
  BY <1>4, SmallestOf
<1>6. Least(c, lo) = Min(S)
  BY DEF Least
<1> DEFINE m == Min(S)
<1> HIDE DEF m
<1>7. m \in S /\ \A s \in S : m <= s
  BY <1>5 DEF m
<1>8. QED
  BY <1>2, <1>6, <1>7 DEF m

LEMMA IsotonicIs ==
  ASSUME outcomes \in Seq(OutcomeRows), NEW c \in Stated
  PROVE  /\ IsotonicAt(c) \in 0..One
         /\ \E lo \in Stated : lo <= c /\ IsotonicAt(c) = Least(c, lo)
         /\ \A lo \in Stated : lo <= c => Least(c, lo) <= IsotonicAt(c)
<1> DEFINE T == {Least(c, lo) : lo \in {l \in Stated : l <= c}}
           m == Max(T)
<1>1. c <= c
  <2>1. c \in Nat
    BY StatedIs
  <2>2. QED
    BY <2>1
<1>2. \A lo \in Stated : lo <= c => Least(c, lo) \in 0..One
  BY LeastIs
<1>3. One \in Nat /\ T \in SUBSET (0..One) /\ T # {}
  <2>1. T \subseteq 0..One
    BY <1>2
  <2>2. Least(c, c) \in T
    BY <1>1
  <2>3. QED
    BY <2>1, <2>2, UnitNumbers, ZenonT(60)
<1>4. m \in T /\ \A s \in T : s <= m
  BY <1>3, LargestOf
<1>5. IsotonicAt(c) = m
  BY DEF IsotonicAt, Least
<1> HIDE DEF m
<1>6. QED
  BY <1>2, <1>4, <1>5

(* The fitted curve rises from one sample to the next.                     *)
LEMMA IsotonicGrows ==
  ASSUME outcomes \in Seq(OutcomeRows), NEW c \in Stated, NEW d \in Stated, c <= d
  PROVE  IsotonicAt(c) <= IsotonicAt(d)
<1>1. \A x \in Stated : x \in Nat
  BY StatedIs
<1>2. PICK lo \in Stated : lo <= c /\ IsotonicAt(c) = Least(c, lo)
  BY IsotonicIs
<1>3. lo <= d
  BY <1>1, <1>2
<1>4. PICK hi \in Stated : hi >= d /\ Least(d, lo) = MeanOver(lo, hi)
  BY <1>3, LeastIs
<1>5. hi >= c
  BY <1>1, <1>4
<1>6. Least(c, lo) <= MeanOver(lo, hi) /\ Least(c, lo) \in 0..One
  BY <1>2, <1>5, LeastIs
<1>7. Least(d, lo) <= IsotonicAt(d) /\ Least(d, lo) \in 0..One
  BY <1>3, LeastIs, IsotonicIs
<1>8. IsotonicAt(d) \in 0..One
  BY IsotonicIs
<1>9. \A x \in 0..One : x \in Int
  BY UnitNumbers
<1>10. QED
  BY <1>2, <1>4, <1>6, <1>7, <1>8, <1>9

(* The samples on both sides of a confidence.                              *)
Below(c) == {x \in Stated : x <= c}
Above(c) == {x \in Stated : x >= c}

LEMMA Neighbours ==
  ASSUME outcomes \in Seq(OutcomeRows), NEW c \in Nat
  PROVE  /\ Below(c) # {} => /\ Max(Below(c)) \in Stated /\ Max(Below(c)) <= c
                             /\ \A x \in Stated : x <= c => x <= Max(Below(c))
         /\ Above(c) # {} => /\ Min(Above(c)) \in Stated /\ Min(Above(c)) >= c
                             /\ \A x \in Stated : x >= c => Min(Above(c)) <= x
<1>1. One \in Nat /\ Stated \subseteq 0..One /\ Stated \subseteq Nat
  BY StatedIs, UnitNumbers
<1>2. Below(c) \in SUBSET (0..One) /\ Above(c) \in SUBSET Nat
  BY <1>1 DEF Below, Above
<1>3. Below(c) # {} => Max(Below(c)) \in Below(c) /\ \A x \in Below(c) : x <= Max(Below(c))
  BY <1>1, <1>2, LargestOf
<1>4. Above(c) # {} => Min(Above(c)) \in Above(c) /\ \A x \in Above(c) : Min(Above(c)) <= x
  BY <1>2, SmallestOf
<1>5. QED
  BY <1>3, <1>4 DEF Below, Above

(* Linear between two samples: never beyond either.                        *)
LEMMA Interpolated ==
  ASSUME NEW a \in Nat, NEW b \in Nat, NEW x \in Nat, a < x, x < b,
         NEW u \in Int, NEW v \in Int, u <= v
  PROVE  LET y == u + Quot((v - u) * (x - a), b - a)
         IN  /\ y \in Int /\ u <= y /\ y <= v
             /\ \A z \in Nat : x <= z /\ z < b => y <= u + Quot((v - u) * (z - a), b - a)
<1> DEFINE d == v - u
           n == b - a
           p == d * (x - a)
           q == p \div n
<1>1. d \in Nat /\ n \in Nat \ {0} /\ x - a \in Nat /\ x - a < n
  BY SMT
<1>2. \A i, j \in Int : i >= 0 /\ j >= 0 => i * j >= 0
  OBVIOUS
<1> DEFINE e == x - a
<1> HIDE DEF d, n, e
<1>3. p = d * e /\ d * e \in Int /\ d * e >= 0
  BY <1>1, <1>2 DEF e
<1>4. d * e <= d * n
  <2>1. d * (n - e) >= 0
    BY <1>1, <1>2 DEF e
  <2>2. d * (n - e) = d * n - d * e /\ d * n \in Int
    BY <1>1 DEF e
  <2> DEFINE r == d * n
             s == d * e
  <2> HIDE DEF r, s
  <2>3. QED
    BY <1>3, <2>1, <2>2 DEF r, s
<1>5. q \in Int /\ q >= 0 /\ Quot(p, n) = q
  BY <1>1, <1>3, QuotIs
<1>6. q <= d
  <2>1. (d + 1) * n <= p <=> d + 1 <= p \div n
    <3>1. d + 1 \in Int /\ p \in Int
      BY <1>1, <1>3
    <3>2. QED
      BY <1>1, <3>1, QuotientIs
  <2>2. (d + 1) * n = d * n + n /\ d * n \in Int
    BY <1>1
  <2> DEFINE r == d * n
             s == (d + 1) * n
  <2> HIDE DEF r, s, q, p
  <2>3. ~(s <= p)
    BY <1>1, <1>3, <1>4, <2>2 DEF r, s
  <2>4. QED
    BY <1>1, <1>5, <2>1, <2>3 DEF s, q
<1>7. ASSUME NEW z \in Nat, x <= z, z < b
      PROVE  q <= Quot(d * (z - a), n) /\ Quot(d * (z - a), n) \in Int
  <2>1. z - a \in Nat /\ z - a >= e
    BY <1>7 DEF e
  <2> DEFINE g == z - a
  <2> HIDE DEF g
  <2>2. d * g \in Int /\ d * g >= 0 /\ d * e <= d * g
    <3>1. d * (g - e) >= 0 /\ d * g >= 0
      BY <1>1, <1>2, <2>1 DEF e, g
    <3>2. d * (g - e) = d * g - d * e /\ d * g \in Int
      BY <1>1, <2>1 DEF e, g
    <3> DEFINE r == d * g
               s == d * e
    <3> HIDE DEF r, s
    <3>3. QED
      BY <1>3, <3>1, <3>2 DEF r, s
  <2>3. Quot(d * g, n) = (d * g) \div n /\ Quot(d * g, n) \in Int
    BY <1>1, <2>2, QuotIs
  <2>4. (d * e) \div n <= (d * g) \div n
    BY <1>1, <1>3, <2>2, QuotientsGrow
  <2>5. QED
    BY <1>3, <2>3, <2>4 DEF g
<1> DEFINE w(z) == Quot(d * (z - a), n)
<1>8. w(x) = q
  BY <1>5
<1> HIDE DEF q, w
<1>9. /\ u + w(x) \in Int /\ u <= u + w(x) /\ u + w(x) <= v
      /\ \A z \in Nat : x <= z /\ z < b => u + w(x) <= u + w(z)
  <2>1. \A z \in Nat : x <= z /\ z < b => q <= w(z) /\ w(z) \in Int
    BY <1>7 DEF w
  <2>2. u + d = v
    BY DEF d
  <2>3. QED
    BY <1>1, <1>5, <1>6, <1>8, <2>1, <2>2
<1>10. QED
  BY <1>9 DEF w, d, n

LEMMA SamplesAreNumbers ==
  ASSUME outcomes \in Seq(OutcomeRows), NEW x \in Stated
  PROVE  x \in Nat /\ IsotonicAt(x) \in Int
<1>1. x \in 0..One /\ IsotonicAt(x) \in 0..One
  BY StatedIs, IsotonicIs
<1>2. \A y \in 0..One : y \in Nat /\ y \in Int
  BY UnitNumbers
<1>3. QED
  BY <1>1, <1>2

(* The calibrated confidence is between those of its neighbours.           *)
LEMMA CalibratedIs ==
  ASSUME outcomes \in Seq(OutcomeRows), Fitted, NEW c \in Nat
  PROVE  LET a == Max(Below(c))
             b == Min(Above(c))
         IN  /\ Below(c) = {} => Above(c) # {} /\ Calibrate(c) = IsotonicAt(b)
             /\ Below(c) # {} /\ Above(c) = {} => Calibrate(c) = IsotonicAt(a)
             /\ Below(c) # {} /\ Above(c) # {} /\ a = b => Calibrate(c) = IsotonicAt(a)
             /\ Below(c) # {} /\ Above(c) # {} /\ a # b =>
                  /\ a < c /\ c < b /\ IsotonicAt(a) <= IsotonicAt(b)
                  /\ Calibrate(c) = IsotonicAt(a)
                       + Quot((IsotonicAt(b) - IsotonicAt(a)) * (c - a), b - a)
<1> DEFINE a == Max(Below(c))
           b == Min(Above(c))
<1>1. Stated # {} /\ \A x \in Stated : x \in Nat
  BY StatedIs
<1>2. Below(c) = {} => Above(c) # {}
  BY <1>1 DEF Below, Above
<1>3. Calibrate(c) =
        IF Below(c) = {} THEN IsotonicAt(b)
        ELSE IF Above(c) = {} THEN IsotonicAt(a)
        ELSE IF a = b THEN IsotonicAt(a)
        ELSE IsotonicAt(a) + Quot((IsotonicAt(b) - IsotonicAt(a)) * (c - a), b - a)
  BY DEF Calibrate, Below, Above
<1>4. ASSUME Below(c) # {}, Above(c) # {}, a # b
      PROVE  a < c /\ c < b /\ IsotonicAt(a) <= IsotonicAt(b)
  <2>1. /\ a \in Stated /\ a <= c /\ \A x \in Stated : x <= c => x <= a
        /\ b \in Stated /\ b >= c /\ \A x \in Stated : x >= c => b <= x
    BY <1>4, Neighbours
  <2> HIDE DEF a, b
  <2>2. a \in Nat /\ b \in Nat
    BY <1>1, <2>1
  <2>3. a # c
    <3>1. a = c => a >= c
      BY <2>2
    <3>2. QED
      BY <1>4, <2>1, <2>2, <3>1
  <2>4. b # c
    <3>1. b = c => b <= c
      BY <2>2
    <3>2. QED
      BY <1>4, <2>1, <2>2, <3>1
  <2>5. a < c /\ c < b /\ a <= b
    BY <2>1, <2>2, <2>3, <2>4
  <2>6. QED
    BY <2>1, <2>5, IsotonicGrows
<1> HIDE DEF a, b
<1>5. QED
  BY <1>2, <1>3, <1>4 DEF a, b

LEMMA CalibratedBetween ==
  ASSUME outcomes \in Seq(OutcomeRows), Fitted, NEW c \in Nat
  PROVE  /\ Calibrate(c) \in Int
         /\ Below(c) # {} => IsotonicAt(Max(Below(c))) <= Calibrate(c)
         /\ Above(c) # {} => Calibrate(c) <= IsotonicAt(Min(Above(c)))
<1> DEFINE a == Max(Below(c))
           b == Min(Above(c))
           u == IsotonicAt(a)
           v == IsotonicAt(b)
<1>1. \A x \in Stated : x \in Nat /\ IsotonicAt(x) \in Int
  BY SamplesAreNumbers
<1>2. /\ Below(c) # {} => a \in Stated
      /\ Above(c) # {} => b \in Stated
  BY Neighbours
<1>3. /\ Below(c) # {} => a \in Nat /\ u \in Int
      /\ Above(c) # {} => b \in Nat /\ v \in Int
  BY <1>1, <1>2
<1>4. /\ Below(c) = {} => Above(c) # {} /\ Calibrate(c) = v
      /\ Below(c) # {} /\ Above(c) = {} => Calibrate(c) = u
      /\ Below(c) # {} /\ Above(c) # {} /\ a = b => Calibrate(c) = u /\ u = v
      /\ Below(c) # {} /\ Above(c) # {} /\ a # b =>
           /\ a < c /\ c < b /\ u <= v
           /\ Calibrate(c) = u + Quot((v - u) * (c - a), b - a)
  BY CalibratedIs
<1> HIDE DEF a, b, u, v
<1>5. CASE Below(c) = {} \/ Above(c) = {} \/ a = b
  <2>1. /\ Calibrate(c) \in Int
        /\ Below(c) # {} => u <= Calibrate(c)
        /\ Above(c) # {} => Calibrate(c) <= v
    BY <1>3, <1>4, <1>5
  <2>2. QED
    BY <2>1 DEF a, b, u, v
<1>6. CASE Below(c) # {} /\ Above(c) # {} /\ a # b
  <2> DEFINE y == u + Quot((v - u) * (c - a), b - a)
  <2>1. y \in Int /\ u <= y /\ y <= v
    BY <1>3, <1>4, <1>6, Interpolated
  <2>2. Calibrate(c) = y
    BY <1>4, <1>6
  <2> HIDE DEF y
  <2>3. QED
    BY <2>1, <2>2 DEF a, b, u, v
<1>7. QED
  BY <1>5, <1>6

LEMMA CalibrationGrows ==
  ASSUME outcomes \in Seq(OutcomeRows), NEW c \in Nat, NEW d \in Nat, c <= d
  PROVE  Calibrate(c) <= Calibrate(d)
<1>1. CASE ~Fitted
  BY <1>1 DEF Calibrate
<1>2. CASE Fitted
  <2>1. \A x \in Stated : x \in Nat /\ IsotonicAt(x) \in Int
    BY SamplesAreNumbers
  <2>2. CASE \E x \in Stated : c <= x /\ x <= d
    <3>1. PICK x \in Stated : c <= x /\ x <= d
      BY <2>2
    <3> DEFINE b == Min(Above(c))
               a == Max(Below(d))
    <3>2. Above(c) # {} /\ Below(d) # {}
      BY <2>1, <3>1 DEF Above, Below
    <3>3. a \in Stated /\ b \in Stated /\ b <= x /\ x <= a
      <4>1. \A y \in Stated : y >= c => b <= y
        BY <3>2, Neighbours
      <4>2. \A y \in Stated : y <= d => y <= a
        BY <3>2, Neighbours
      <4>3. a \in Stated /\ b \in Stated
        BY <3>2, Neighbours
      <4>4. x >= c
        BY <2>1, <3>1
      <4>5. QED
        BY <3>1, <4>1, <4>2, <4>3, <4>4
    <3>4. Calibrate(c) <= IsotonicAt(b) /\ Calibrate(c) \in Int
      BY <1>2, <3>2, CalibratedBetween
    <3>5. IsotonicAt(a) <= Calibrate(d) /\ Calibrate(d) \in Int
      BY <1>2, <3>2, CalibratedBetween
    <3> HIDE DEF a, b
    <3>6. b <= a
      BY <2>1, <3>1, <3>3
    <3>7. IsotonicAt(b) <= IsotonicAt(a)
      BY <3>3, <3>6, IsotonicGrows
    <3>8. IsotonicAt(a) \in Int /\ IsotonicAt(b) \in Int
      BY <2>1, <3>3
    <3>9. QED
      BY <3>4, <3>5, <3>7, <3>8
  <2>3. CASE \A x \in Stated : ~(c <= x /\ x <= d)
    <3>1. Below(c) = Below(d) /\ Above(c) = Above(d)
      <4>1. \A x \in Stated : (x <= c <=> x <= d) /\ (x >= c <=> x >= d)
        BY <2>1, <2>3
      <4>2. QED
        BY <4>1 DEF Below, Above
    <3> DEFINE a == Max(Below(c))
               b == Min(Above(c))
               u == IsotonicAt(a)
               v == IsotonicAt(b)
    <3>2. /\ Below(c) = {} => Above(c) # {} /\ Calibrate(c) = v
          /\ Below(c) # {} /\ Above(c) = {} => Calibrate(c) = u
          /\ Below(c) # {} /\ Above(c) # {} /\ a = b => Calibrate(c) = u
          /\ Below(c) # {} /\ Above(c) # {} /\ a # b =>
               /\ a < c /\ c < b /\ u <= v
               /\ Calibrate(c) = u + Quot((v - u) * (c - a), b - a)
      BY <1>2, CalibratedIs
    <3>3. /\ Below(c) = {} => Above(c) # {} /\ Calibrate(d) = v
          /\ Below(c) # {} /\ Above(c) = {} => Calibrate(d) = u
          /\ Below(c) # {} /\ Above(c) # {} /\ a = b => Calibrate(d) = u
          /\ Below(c) # {} /\ Above(c) # {} /\ a # b =>
               /\ a < d /\ d < b
               /\ Calibrate(d) = u + Quot((v - u) * (d - a), b - a)
      <4>1. LET e == Max(Below(d))
                f == Min(Above(d))
            IN  /\ Below(d) = {} => Above(d) # {} /\ Calibrate(d) = IsotonicAt(f)
                /\ Below(d) # {} /\ Above(d) = {} => Calibrate(d) = IsotonicAt(e)
                /\ Below(d) # {} /\ Above(d) # {} /\ e = f => Calibrate(d) = IsotonicAt(e)
                /\ Below(d) # {} /\ Above(d) # {} /\ e # f =>
                     /\ e < d /\ d < f
                     /\ Calibrate(d) = IsotonicAt(e)
                          + Quot((IsotonicAt(f) - IsotonicAt(e)) * (d - e), f - e)
        BY <1>2, CalibratedIs
      <4>2. QED
        BY <3>1, <4>1
    <3>4. /\ Below(c) # {} => a \in Nat /\ u \in Int
          /\ Above(c) # {} => b \in Nat /\ v \in Int
      BY <2>1, Neighbours
    <3>5. Calibrate(c) \in Int
      BY <1>2, CalibratedBetween
    <3> HIDE DEF a, b, u, v
    <3>6. CASE Below(c) = {} \/ Above(c) = {} \/ a = b
      BY <3>2, <3>3, <3>5, <3>6
    <3>7. CASE Below(c) # {} /\ Above(c) # {} /\ a # b
      <4>1. u + Quot((v - u) * (c - a), b - a) <= u + Quot((v - u) * (d - a), b - a)
        BY <3>2, <3>3, <3>4, <3>7, Interpolated
      <4>2. QED
        BY <3>2, <3>3, <3>7, <4>1
    <3>8. QED
      BY <3>6, <3>7
  <2>4. QED
    BY <2>2, <2>3
<1>3. QED
  BY <1>1, <1>2

-----------------------------------------------------------------------------
(* What a cycle records of a symbol.                                       *)
ScreenedAsShipped ==
  /\ Config.blockOnChop = TRUE
  /\ Config.watchSpread \in Nat /\ Config.watchSpread <= 20
  /\ Config.minNotional \in Nat /\ Config.minNotional >= 100

IsAnalysis(a) ==
  /\ a.tape \in DOMAIN Tapes
  /\ a.micro = Microstructure(Tapes[a.tape])
  /\ a.killed = KillSwitch(a.micro, a.regime, Tapes[a.tape].spread)
  /\ a.action \in {"buy", "sell", "hold"}
  /\ a.confidence \in 0..One
  /\ a.levels = TradeLevels(a.action, Tapes[a.tape].price, Atr(Tapes[a.tape]))

LEMMA AnalysesAre == ASSUME NEW a \in Analyses PROVE IsAnalysis(a)
<1>1. PICK n \in DOMAIN Tapes, reply \in Replies, up \in Ups \cup {None} :
        a = Analyze(LayersOf(n, reply, up))
  BY DEF Analyses, Layered
<1> DEFINE v == LayersOf(n, reply, up)
           killed == KillSwitch(v.micro, v.regime, Tapes[n].spread)
           l == Layers(Tapes[n], reply, up)
<1>2. v.tape = n /\ v.micro = Microstructure(Tapes[n]) /\ v.layers = l
  BY DEF LayersOf
<1> HIDE DEF v, l
<1>3. /\ a.tape = n /\ a.regime = v.regime /\ a.micro = v.micro
      /\ a.killed = killed /\ a.action = Action(l, killed)
      /\ a.confidence = Confidence(l)
      /\ a.levels = TradeLevels(Action(l, killed), Tapes[n].price, Atr(Tapes[n]))
  BY <1>1, <1>2 DEF Analyze, v
<1>4. IsLayers(l)
  BY LayersAre DEF l
<1>5. killed \in BOOLEAN
  BY DEF KillSwitch
<1>6. killed = KillSwitch(a.micro, a.regime, Tapes[a.tape].spread)
  BY <1>3
<1> HIDE DEF killed
<1>7. Action(l, killed) \in {"buy", "sell", "hold"} /\ Confidence(l) \in 0..One
  BY <1>4, <1>5, ActionIs, FusionIs
<1>8. QED
  BY <1>2, <1>3, <1>6, <1>7 DEF IsAnalysis

(* The row of a cycle, for an analysis a and what it measured.             *)
Graded(a) == Score(Measures(Tapes[a.tape], a))
Named(a) == Condition(Measures(Tapes[a.tape], a), Graded(a))

LEMMA RowIs ==
  ASSUME NEW a, NEW win, NEW open \in BOOLEAN, NEW permitted,
         ObserveSymbol(a, win, open, permitted)
  PROVE  /\ last'.tape = a.tape /\ last'.direction = a.action
         /\ last'.confidence = a.confidence /\ last'.levels = a.levels
         /\ last'.condition = Named(a) /\ last'.grade = StatusForScore(Graded(a))
         /\ last'.status = SymbolStatus(Tapes[a.tape], Named(a), Graded(a), a.killed)
         /\ last'.gate \in {"none", "regime", "calibration", "meta", "unasked"}
         /\ last'.entered \in BOOLEAN
         /\ last'.entered => ~a.killed /\ Approved(Tapes[a.tape])
         /\ held' = (held \/ last'.entered)
         /\ UNCHANGED <<outcomes, modelTrained, metaTrained>>
<1> DEFINE c == Named(a)
           objection == Objection(c, a.confidence, win)
           gate == CASE ~open \/ a.action = "hold" -> "unasked"
                     [] open /\ a.action # "hold" -> objection
           entered == /\ open /\ permitted
                      /\ a.action = "buy" /\ ~a.killed
                      /\ ~held /\ Approved(Tapes[a.tape])
                      /\ objection = "none"
<1>1. /\ last'.tape = a.tape /\ last'.direction = a.action
      /\ last'.confidence = a.confidence /\ last'.levels = a.levels
      /\ last'.condition = c /\ last'.grade = StatusForScore(Graded(a))
      /\ last'.status = SymbolStatus(Tapes[a.tape], c, Graded(a), a.killed)
      /\ last'.gate = gate /\ last'.entered = entered
      /\ held' = (held \/ entered)
      /\ UNCHANGED <<outcomes, modelTrained, metaTrained>>
  BY DEF ObserveSymbol, Named, Graded
<1>2. objection \in {"none", "regime", "calibration", "meta"}
  BY DEF Objection
<1>3. gate \in {"none", "regime", "calibration", "meta", "unasked"}
  <2> HIDE DEF objection
  <2>1. CASE ~open \/ a.action = "hold"
    BY <2>1
  <2>2. CASE open /\ a.action # "hold"
    BY <1>2, <2>2
  <2>3. QED
    BY <2>1, <2>2
<1>4. entered \in BOOLEAN
  OBVIOUS
<1>5. entered => ~a.killed /\ Approved(Tapes[a.tape])
  OBVIOUS
<1> HIDE DEF gate, entered, c, objection
<1>6. QED
  BY <1>1, <1>3, <1>4, <1>5 DEF c

(* A grade of safe: no hazard is on the row, and the verdicts allow it.    *)
LEMMA GradeIsEarned ==
  ASSUME outcomes \in Seq(OutcomeRows), NEW a, IsAnalysis(a),
         StatusForScore(Graded(a)) = "SAFE_TO_OBSERVE"
  PROVE  /\ Named(a) \notin {"PANIC", "ILLIQUID", "CHOPPY"}
         /\ LET n(v) == Cardinality({i \in DOMAIN Recent : Recent[i].correct = v})
            IN  n(0) + n(1) >= SymbolMinSamples => n(1) * 100 >= 45 * (n(0) + n(1))
<1> DEFINE t == Tapes[a.tape]
           m == Measures(t, a)
<1>1. IsTape(t) /\ a.micro = Microstructure(t)
  BY DecisionsAssumption DEF IsAnalysis
<1>2. AreMeasures(m)
  BY <1>1, MeasuresAre
<1>3. Graded(a) = Score(m) /\ Named(a) = Condition(m, Graded(a))
      /\ m.accuracy = SymbolAccuracy
  BY DEF Graded, Named, Measures
<1> HIDE DEF m, t
<1>4. Score(m) \in Int /\ Score(m) > 600
  BY <1>2, <1>3, ScoreIsCapped, SafeGradeIs
<1>5. ~m.panic /\ ~Illiquid(m) /\ ~m.chop /\ ~LowAccuracy(m)
  BY <1>2, <1>4, ScoreIsCapped
<1>6. Named(a) \notin {"PANIC", "ILLIQUID", "CHOPPY"}
  BY <1>2, <1>3, <1>5, ConditionIs
<1> DEFINE n(v) == Cardinality({i \in DOMAIN Recent : Recent[i].correct = v})
           x == n(0)
           y == n(1)
           all == Cardinality(Judged)
           right == Cardinality(Right(Judged))
<1>7. x \in Nat /\ y \in Nat /\ y = right /\ x + y = all
  BY VerdictsAre
<1>8. all \in Nat /\ (all = 0 <=> Judged = {})
  BY CountsAre DEF Judged
<1>9. SymbolMinSamples <= all /\ Judged # {} =>
        /\ SymbolAccuracy \in Int
        /\ SymbolAccuracy >= 45 => 45 * all <= 100 * right
  BY AccuracyIs
<1>10. SymbolMinSamples \in Nat /\ None \notin Int
  BY DecisionsAssumption, SignalsAssumption
<1> HIDE DEF x, y, all, right, n
<1>11. x + y >= SymbolMinSamples => y * 100 >= 45 * (x + y)
  <2>1. CASE all = 0
    BY <1>7, <2>1
  <2>2. CASE all # 0 /\ x + y >= SymbolMinSamples
    <3>1. /\ SymbolAccuracy \in Int
          /\ SymbolAccuracy >= 45 => 45 * all <= 100 * right
      BY <1>7, <1>8, <1>9, <1>10, <2>2
    <3>2. SymbolAccuracy # None /\ ~(SymbolAccuracy < 45)
      BY <1>3, <1>5, <1>10, <3>1 DEF LowAccuracy
    <3>3. 45 * all <= 100 * right
      BY <3>1, <3>2
    <3>4. QED
      BY <1>7, <3>3
  <2>3. QED
    BY <2>1, <2>2
<1>12. QED
  BY <1>6, <1>11 DEF x, y, n

(* An entry: what the dashboard says of the symbol it is of.               *)
LEMMA EntryIsShown ==
  ASSUME ScreenedAsShipped, outcomes \in Seq(OutcomeRows), NEW a, IsAnalysis(a),
         ~a.killed, Approved(Tapes[a.tape])
  PROVE  LET status == SymbolStatus(Tapes[a.tape], Named(a), Graded(a), a.killed)
         IN  /\ status \in {"GOOD_PAPER_CONDITIONS", "WATCH_ONLY", "TOO_ILLIQUID"}
             /\ status = "TOO_ILLIQUID" => Tapes[a.tape].notional \in 100..149
             /\ Named(a) \notin {"PANIC", "CHOPPY"}
<1> DEFINE t == Tapes[a.tape]
           m == Measures(t, a)
           status == SymbolStatus(t, Named(a), Graded(a), a.killed)
<1>1. IsTape(t) /\ a.micro = Microstructure(t)
  BY DecisionsAssumption DEF IsAnalysis
<1>2. AreMeasures(m)
  BY <1>1, MeasuresAre
<1>3. /\ Named(a) = Condition(m, Graded(a))
      /\ m.panic = (a.regime \in CriticalRegimes \/ MacroTriggered(a.regime))
      /\ m.chop = a.micro.chop /\ m.notional = t.notional /\ m.spread = 10 * Or(t.spread, 0)
  BY DEF Named, Measures
<1>4. ~KillSwitch(a.micro, a.regime, t.spread)
  BY DEF IsAnalysis
<1>5. ~m.panic
  BY <1>3, <1>4 DEF KillSwitch, MacroTriggered
<1>6. m.chop # TRUE
  BY <1>3, <1>4 DEF KillSwitch, MicroTriggered, ScreenedAsShipped
<1> HIDE DEF m, t
<1>7. ~m.chop
  BY <1>2, <1>6 DEF AreMeasures
<1>8. Named(a) \in Conditions /\ Named(a) \notin {"PANIC", "CHOPPY"}
  BY <1>2, <1>3, <1>5, <1>7, ConditionIs
<1>9. Approved(t)
  BY DEF t
<1>10. CASE Named(a) = "ILLIQUID"
  <2>1. status = "TOO_ILLIQUID"
    BY <1>9, <1>10 DEF SymbolStatus
  <2>2. Illiquid(m)
    BY <1>2, <1>3, <1>10, ConditionIs
  <2>3. t.notional \in Nat /\ Or(t.spread, 0) \in Nat
    BY <1>1 DEF IsTape, Or
  <2>4. ~(t.notional < Config.minNotional) /\ ~(Or(t.spread, 0) > Config.watchSpread)
    <3>1. "wide_spread" \notin Rejections(t) /\ "thin_liquidity" \notin Rejections(t)
      BY <1>9 DEF Approved
    <3>2. QED
      BY <3>1 DEF Rejections
  <2> DEFINE s == Or(t.spread, 0)
  <2> HIDE DEF s
  <2>5. s \in Nat /\ s <= 20 /\ t.notional >= 100
    BY <2>3, <2>4 DEF ScreenedAsShipped, s
  <2>6. t.notional < 150
    <3>1. ~(10 * s > 200)
      BY <2>5
    <3>2. QED
      BY <1>3, <2>2, <3>1 DEF Illiquid, s
  <2> DEFINE x == t.notional
  <2> HIDE DEF x
  <2>7. t.notional \in 100..149
    <3>1. x \in Nat /\ x >= 100 /\ x < 150
      BY <2>3, <2>5, <2>6 DEF x
    <3>2. x \in 100..149
      BY <3>1
    <3>3. QED
      BY <3>2 DEF x
  <2>8. QED
    BY <1>8, <2>1, <2>7 DEF t
<1>11. CASE Named(a) # "ILLIQUID"
  <2>1. status \in {"GOOD_PAPER_CONDITIONS", "WATCH_ONLY"}
    <3>1. Named(a) \notin {"PANIC", "ILLIQUID", "CHOPPY"}
      BY <1>8, <1>11
    <3> DEFINE word == IF ~a.killed /\ Graded(a) >= 650 THEN "GOOD_PAPER_CONDITIONS"
                       ELSE "WATCH_ONLY"
    <3>2. status = word
      BY <1>9, <3>1 DEF SymbolStatus
    <3>3. QED
      BY <3>2
  <2>2. QED
    BY <1>8, <2>1 DEF t
<1>12. QED
  BY <1>10, <1>11

-----------------------------------------------------------------------------
(* The inductive invariant: the rows of the outcomes are rows, and the     *)
(* row of this cycle is of an analysis of the memory as it is.             *)
RowStands ==
  last # None =>
    /\ last.direction \in {"buy", "sell", "hold"}
    /\ last.confidence \in 0..One
    /\ last.condition \in Conditions
    /\ last.gate \in {"none", "regime", "calibration", "meta", "unasked"}
    /\ last.entered \in BOOLEAN

RowsStand ==
  /\ outcomes \in Seq(OutcomeRows)
  /\ RowStands
  /\ held \in BOOLEAN /\ modelTrained \in BOOLEAN /\ metaTrained \in BOOLEAN

LEMMA RowsStart == DecisionsInit => RowsStand
<1> SUFFICES ASSUME DecisionsInit PROVE RowsStand
  OBVIOUS
<1>1. Range(Severity) = Conditions
  BY DEF Range, Conditions
<1>2. Histories \subseteq Seq([condition : Range(Severity) \cup {None}, confidence : 0..One,
                               correct : {0, 1, None}])
  BY DecisionsAssumption
<1>3. outcomes \in Seq(OutcomeRows)
  BY <1>1, <1>2 DEF DecisionsInit, OutcomeRows
<1>4. QED
  BY <1>3 DEF DecisionsInit, RowsStand, RowStands

LEMMA RowIsNamed ==
  ASSUME RowsStand, NEW a, IsAnalysis(a)
  PROVE  Named(a) \in Conditions
<1>1. IsTape(Tapes[a.tape]) /\ a.micro = Microstructure(Tapes[a.tape])
  BY DecisionsAssumption DEF IsAnalysis
<1>2. AreMeasures(Measures(Tapes[a.tape], a))
  BY <1>1, MeasuresAre DEF RowsStand
<1>3. QED
  BY <1>2, ConditionIs DEF Named

LEMMA RowsObserved ==
  ASSUME RowsStand, NEW a \in Analyses, NEW win, NEW open \in BOOLEAN, NEW permitted,
         ObserveSymbol(a, win, open, permitted)
  PROVE  RowsStand'
<1>1. IsAnalysis(a)
  BY AnalysesAre
<1>2. /\ last'.direction = a.action /\ last'.confidence = a.confidence
      /\ last'.condition = Named(a)
      /\ last'.gate \in {"none", "regime", "calibration", "meta", "unasked"}
      /\ last'.entered \in BOOLEAN
      /\ held' = (held \/ last'.entered)
      /\ UNCHANGED <<outcomes, modelTrained, metaTrained>>
  BY RowIs
<1>3. Named(a) \in Conditions
  BY <1>1, RowIsNamed
<1>4. RowStands'
  BY <1>1, <1>2, <1>3 DEF RowStands, IsAnalysis
<1>5. QED
  BY <1>2, <1>4 DEF RowsStand

LEMMA RowsMature == RowsStand /\ Mature => RowsStand'
<1> SUFFICES ASSUME RowsStand, Mature PROVE RowsStand'
  OBVIOUS
<1>1. PICK v \in IF last.direction = "hold" THEN {None} ELSE {0, 1} :
        outcomes' = Append(outcomes,
          IF v = None THEN [condition |-> None, confidence |-> 0, correct |-> None]
          ELSE [condition |-> last.condition, confidence |-> last.confidence,
                correct |-> v])
  BY DEF Mature
<1> DEFINE new == IF v = None
                  THEN [condition |-> None, confidence |-> 0, correct |-> None]
                  ELSE [condition |-> last.condition, confidence |-> last.confidence,
                        correct |-> v]
<1>2. last # None /\ last' = None /\ UNCHANGED <<held, modelTrained, metaTrained>>
  BY DEF Mature
<1>3. new \in OutcomeRows
  <2>1. CASE v = None
    BY <2>1, UnitNumbers DEF OutcomeRows
  <2>2. CASE v # None
    <3>1. v \in {0, 1}
      BY <2>2
    <3>2. last.condition \in Conditions /\ last.confidence \in 0..One
      BY <1>2 DEF RowsStand, RowStands
    <3>3. QED
      BY <2>2, <3>1, <3>2 DEF OutcomeRows
  <2>3. QED
    BY <2>1, <2>2
<1> HIDE DEF new
<1>4. outcomes' \in Seq(OutcomeRows)
  <2>1. outcomes' = Append(outcomes, new) /\ outcomes \in Seq(OutcomeRows)
    BY <1>1 DEF new, RowsStand
  <2>2. QED
    BY <1>3, <2>1, AppendProperties
<1>5. QED
  BY <1>2, <1>4 DEF RowsStand, RowStands

LEMMA RowsOtherwise ==
  ASSUME RowsStand,
         NextCycle \/ ClosePaperTrade \/ TrainModelIdle \/ UNCHANGED decisionsVars
  PROVE  RowsStand'
<1>1. outcomes' = outcomes /\ held' \in BOOLEAN
      /\ modelTrained' \in BOOLEAN /\ metaTrained' \in BOOLEAN
  BY DEF RowsStand, NextCycle, ClosePaperTrade, TrainModelIdle, decisionsVars
<1>2. last' = None \/ last' = last
  BY DEF NextCycle, ClosePaperTrade, TrainModelIdle, decisionsVars
<1>3. QED
  BY <1>1, <1>2 DEF RowsStand, RowStands

LEMMA RowsStep == RowsStand /\ [DecisionsNext]_decisionsVars => RowsStand'
<1> SUFFICES ASSUME RowsStand, [DecisionsNext]_decisionsVars PROVE RowsStand'
  OBVIOUS
<1>1. ASSUME NEW a \in Analyses, NEW win \in IF metaTrained THEN Wins ELSE {0},
             NEW open \in BOOLEAN, NEW permitted \in {open, FALSE},
             ObserveSymbol(a, win, open, permitted)
      PROVE  RowsStand'
  BY <1>1, RowsObserved
<1>2. CASE Mature
  BY <1>2, RowsMature
<1>3. CASE NextCycle \/ ClosePaperTrade \/ TrainModelIdle \/ UNCHANGED decisionsVars
  BY <1>3, RowsOtherwise
<1>4. QED
  BY <1>1, <1>2, <1>3 DEF DecisionsNext

(* The regime gate counts what WeakRegime counts, in another way.          *)
LEMMA EvidenceIs ==
  ASSUME RowsStand, NEW c, RegimeAllows(c)
  PROVE  ~WeakRegime(c)
<1> DEFINE Of(v) == {i \in DOMAIN Recent : Recent[i].condition = c /\ Recent[i].correct = v}
           x == Cardinality(Of(0))
           y == Cardinality(Of(1))
           all == Cardinality(In(c))
           right == Cardinality(Right(In(c)))
<1>1. /\ IsFiniteSet(DOMAIN Recent)
      /\ \A i \in DOMAIN Recent : Recent[i].correct \in {0, 1, None}
  BY RecentIs DEF RowsStand
<1>2. None \notin {0, 1}
  BY SignalsAssumption
<1>3. In(c) = Of(0) \cup Of(1) /\ Of(0) \cap Of(1) = {} /\ Right(In(c)) = Of(1)
  BY <1>1, <1>2 DEF In, Judged, Right
<1>4. IsFiniteSet(Of(0)) /\ IsFiniteSet(Of(1))
  BY <1>1, FS_Subset
<1>5. WeakRegime(c) <=> /\ x + y >= RegimeMinSamples
                        /\ y * (Config.stop + Config.target) < (x + y) * Config.stop
  BY DEF WeakRegime, Recent
<1>6. \/ all < RegimeMinSamples
      \/ right * (Config.stop + Config.target) >= all * Config.stop
  BY DEF RegimeAllows
<1> DEFINE A == Of(0)
           B == Of(1)
<1> HIDE DEF Of
<1>7. /\ Cardinality(A \cup B) = Cardinality(A) + Cardinality(B) - Cardinality(A \cap B)
      /\ Cardinality(A) \in Nat /\ Cardinality(B) \in Nat /\ Cardinality(A \cap B) = 0
  BY <1>3, <1>4, FS_Union, FS_CardinalityType, FS_EmptySet
<1>8. x \in Nat /\ y \in Nat /\ all = x + y /\ right = y
  BY <1>3, <1>7
<1> HIDE DEF x, y, all, right
<1> DEFINE stake == Config.stop + Config.target
<1>9. RegimeMinSamples \in Nat /\ Config.stop \in Nat /\ stake \in Nat
  BY DecisionsAssumption
<1> HIDE DEF stake
<1>10. y * stake \in Int /\ (x + y) * Config.stop \in Int
  BY <1>8, <1>9
<1>11. \/ x + y < RegimeMinSamples
       \/ y * stake >= (x + y) * Config.stop
  BY <1>6, <1>8 DEF stake
<1> DEFINE won == y * stake
           due == (x + y) * Config.stop
<1>12. WeakRegime(c) <=> x + y >= RegimeMinSamples /\ won < due
  BY <1>5 DEF stake
<1>13. x + y < RegimeMinSamples \/ won >= due
  BY <1>11
<1> HIDE DEF won, due
<1>14. QED
  BY <1>8, <1>9, <1>10, <1>12, <1>13 DEF won, due

(* An entry is made where the newest outcomes of its condition, when there *)
(* are enough of them, bear it out, and no gate objects (the gates asked   *)
(* by _observe_symbol): for every configuration and history.               *)
THEOREM EntriesEvidenced == DecisionsSpec => EntryHasEvidence
<1>1. ASSUME RowsStand, [DecisionsNext]_decisionsVars, held', ~held
      PROVE  ~WeakRegime(last'.condition) /\ last'.gate = "none"
  <2>1. PICK a \in Analyses, win \in IF metaTrained THEN Wins ELSE {0}, open \in BOOLEAN :
          \E permitted \in {open, FALSE} : ObserveSymbol(a, win, open, permitted)
    BY <1>1 DEF DecisionsNext, NextCycle, Mature, ClosePaperTrade, TrainModelIdle, decisionsVars
  <2>2. PICK permitted \in {open, FALSE} : ObserveSymbol(a, win, open, permitted)
    BY <2>1
  <2> DEFINE c == Named(a)
             objection == Objection(c, a.confidence, win)
  <2>3. /\ last'.condition = c /\ held' = (held \/ last'.entered)
        /\ last'.entered => open /\ a.action = "buy" /\ objection = "none"
        /\ open /\ a.action # "hold" => last'.gate = objection
    BY <2>2 DEF ObserveSymbol, Named, Graded
  <2> HIDE DEF c
  <2>4. open /\ a.action # "hold" /\ objection = "none"
    BY <1>1, <2>3
  <2>5. RegimeAllows(c)
    BY <2>4 DEF Objection
  <2>6. ~WeakRegime(c)
    BY <1>1, <2>5, EvidenceIs
  <2>7. QED
    BY <2>3, <2>4, <2>6
<1>2. RowsStand /\ [DecisionsNext]_decisionsVars
        => [held' /\ ~held => ~WeakRegime(last'.condition) /\ last'.gate = "none"]_decisionsVars
  BY <1>1
<1>3. QED
  BY <1>2, RowsStart, RowsStep, PTL DEF DecisionsSpec, EntryHasEvidence

DecisionsInv ==
  RowsStand /\ LevelsStraddle /\ EntryIsNotCondemned /\ GradeRemembersErrors

LEMMA DecisionsStart == DecisionsInit => DecisionsInv
BY RowsStart DEF DecisionsInit, DecisionsInv, LevelsStraddle, EntryIsNotCondemned,
                 GradeRemembersErrors

LEMMA ObservedStands ==
  ASSUME DecisionsInv, LevelsFit, ScreenedAsShipped,
         NEW a \in Analyses, NEW win, NEW open \in BOOLEAN, NEW permitted,
         ObserveSymbol(a, win, open, permitted)
  PROVE  DecisionsInv'
<1>1. IsAnalysis(a) /\ outcomes \in Seq(OutcomeRows)
  BY AnalysesAre DEF DecisionsInv, RowsStand
<1> DEFINE t == Tapes[a.tape]
           status == SymbolStatus(t, Named(a), Graded(a), a.killed)
<1>2. /\ last'.tape = a.tape /\ last'.direction = a.action
      /\ last'.confidence = a.confidence /\ last'.levels = a.levels
      /\ last'.condition = Named(a) /\ last'.grade = StatusForScore(Graded(a))
      /\ last'.status = status
      /\ last'.gate \in {"none", "regime", "calibration", "meta", "unasked"}
      /\ last'.entered \in BOOLEAN
      /\ last'.entered => ~a.killed /\ Approved(t)
      /\ held' = (held \/ last'.entered)
      /\ UNCHANGED <<outcomes, modelTrained, metaTrained>>
  BY RowIs
<1>3. IsTape(t) /\ t.price \in Nat /\ t.price >= 10 * One
  BY <1>1, DecisionsAssumption DEF IsAnalysis
<1>4. RowsStand'
  BY RowsObserved DEF DecisionsInv
<1>5. LevelsStraddle'
  <2>1. Atr(t) \in Int \cup {None}
    BY <1>3 DEF Atr, IsTape
  <2>2. Consistent(a.action, a.levels)
    BY <1>1, <1>3, <2>1, LevelsAreConsistent DEF IsAnalysis
  <2>3. QED
    BY <1>2, <2>2 DEF LevelsStraddle
<1>6. EntryIsNotCondemned'
  <2>1. last'.entered =>
          /\ status \in {"GOOD_PAPER_CONDITIONS", "WATCH_ONLY", "TOO_ILLIQUID"}
          /\ status = "TOO_ILLIQUID" => t.notional \in 100..149
          /\ Named(a) \notin {"PANIC", "CHOPPY"}
    BY <1>1, <1>2, EntryIsShown
  <2> HIDE DEF status
  <2>2. QED
    BY <1>2, <2>1 DEF EntryIsNotCondemned
<1>7. GradeRemembersErrors'
  <2> DEFINE n(v) == Cardinality({i \in DOMAIN Recent : Recent[i].correct = v})
             enough == n(0) + n(1) >= SymbolMinSamples => n(1) * 100 >= 45 * (n(0) + n(1))
  <2>1. StatusForScore(Graded(a)) = "SAFE_TO_OBSERVE" =>
          Named(a) \notin {"PANIC", "ILLIQUID", "CHOPPY"} /\ enough
    BY <1>1, GradeIsEarned
  <2>2. GradeRemembersErrors' =
          (last' # None /\ last'.grade = "SAFE_TO_OBSERVE" =>
             last'.condition \notin {"PANIC", "ILLIQUID", "CHOPPY"} /\ enough)
    BY <1>2 DEF GradeRemembersErrors, Recent
  <2> HIDE DEF enough
  <2>3. QED
    BY <1>2, <2>1, <2>2
<1>8. QED
  BY <1>4, <1>5, <1>6, <1>7 DEF DecisionsInv

LEMMA MaturedStands == DecisionsInv /\ Mature => DecisionsInv'
<1> SUFFICES ASSUME DecisionsInv, Mature PROVE DecisionsInv'
  OBVIOUS
<1>1. RowsStand'
  BY RowsMature DEF DecisionsInv
<1>2. last' = None
  BY DEF Mature
<1>3. QED
  BY <1>1, <1>2 DEF DecisionsInv, LevelsStraddle, EntryIsNotCondemned, GradeRemembersErrors

LEMMA OtherwiseStands ==
  ASSUME DecisionsInv,
         NextCycle \/ ClosePaperTrade \/ TrainModelIdle \/ UNCHANGED decisionsVars
  PROVE  DecisionsInv'
<1>1. RowsStand'
  BY RowsOtherwise DEF DecisionsInv
<1>2. outcomes' = outcomes /\ (last' = None \/ last' = last)
  BY DEF NextCycle, ClosePaperTrade, TrainModelIdle, decisionsVars
<1>3. GradeRemembersErrors'
  BY <1>2 DEF DecisionsInv, GradeRemembersErrors
<1>4. QED
  BY <1>1, <1>2, <1>3 DEF DecisionsInv, LevelsStraddle, EntryIsNotCondemned

LEMMA InvImpliesSound == DecisionsInv => DecisionsAreSound
<1> SUFFICES ASSUME DecisionsInv PROVE DecisionsAreSound
  OBVIOUS
<1>1. outcomes \in Seq(OutcomeRows)
  BY DEF DecisionsInv, RowsStand
<1>2. CalibrationIsMonotone
  <2> SUFFICES ASSUME NEW x \in 0..9 PROVE Calibrate(100 * x) <= Calibrate(100 * x + 100)
    BY DEF CalibrationIsMonotone
  <2>1. 100 * x \in Nat /\ 100 * x + 100 \in Nat /\ 100 * x <= 100 * x + 100
    OBVIOUS
  <2>2. QED
    BY <1>1, <2>1, CalibrationGrows
<1>3. DecisionsTypeOK
  BY DEF DecisionsInv, RowsStand, DecisionsTypeOK, RowStands, OutcomeRows
<1>4. QED
  BY <1>2, <1>3 DEF DecisionsInv, DecisionsAreSound

(* Whatever the feed shows and whatever was learned, a decision passes its *)
(* own validation, more stated confidence never calibrates to less, an     *)
(* entry is not of a symbol the dashboard warns off, and no symbol that    *)
(* was mostly got wrong is graded safe: for a volatility cap at which the  *)
(* levels stay above zero, and the screening thresholds as shipped.        *)
THEOREM DecisionsSound ==
  LevelsFit /\ ScreenedAsShipped => (DecisionsSpec => []DecisionsAreSound)
<1> SUFFICES ASSUME LevelsFit, ScreenedAsShipped PROVE DecisionsSpec => []DecisionsAreSound
  OBVIOUS
<1>1. DecisionsInv /\ [DecisionsNext]_decisionsVars => DecisionsInv'
  <2> SUFFICES ASSUME DecisionsInv, [DecisionsNext]_decisionsVars PROVE DecisionsInv'
    OBVIOUS
  <2>1. ASSUME NEW a \in Analyses, NEW win \in IF metaTrained THEN Wins ELSE {0},
               NEW open \in BOOLEAN, NEW permitted \in {open, FALSE},
               ObserveSymbol(a, win, open, permitted)
        PROVE  DecisionsInv'
    BY <2>1, ObservedStands
  <2>2. CASE Mature
    BY <2>2, MaturedStands
  <2>3. CASE NextCycle \/ ClosePaperTrade \/ TrainModelIdle \/ UNCHANGED decisionsVars
    BY <2>3, OtherwiseStands
  <2>4. QED
    BY <2>1, <2>2, <2>3 DEF DecisionsNext
<1>2. QED
  BY <1>1, DecisionsStart, InvImpliesSound, PTL DEF DecisionsSpec

-----------------------------------------------------------------------------
LEMMA MonitoringConstants ==
  /\ DayTicks \in Nat /\ DayTicks >= 1 /\ WindowDays \in Nat /\ WindowDays >= 1
  /\ Cooldown \in Nat /\ PerCycle \in Nat /\ RowLimit \in Nat /\ LastTick \in Nat
  /\ MaxErrors \in Nat /\ MaxRestarts \in Nat /\ None \notin Nat
  /\ Max({1, Cooldown}) \in Nat /\ Max({1, Cooldown}) >= 1 /\ Max({1, Cooldown}) >= Cooldown
BY MonitoringAssumption, MaxOfTwo

-----------------------------------------------------------------------------
(* A cycle, whether it completes or fails: it counts, tells of something,  *)
(* and leaves its row or an error; it judges and rolls the day over only   *)
(* with its row there.                                                     *)
CycleLeaves ==
  /\ tick' = tick + 1 /\ counter' = counter + 1 /\ life' = life
  /\ \E kinds \in SUBSET Kinds : Tell(kinds)
  /\ errors' \in {errors, errors \cup {tick}}
  /\ predicted' \in {predicted, predicted \cup {tick}}
  /\ verdict' = verdict \/ \E e \in Evidence : Judge(e)
  /\ \/ safety' = safety /\ errors' = errors \cup {tick} /\ UNCHANGED <<lastDate, metric>>
     \/ /\ \E market \in Markets : Observed(market)
        /\ \/ UNCHANGED <<lastDate, metric>>
           \/ /\ lastDate' = DayOf(tick)
              /\ metric' = metric \/ (DayOver /\ metric' = RolledUp(lastDate))

LEMMA CyclesLeave == MonitorCycle \/ MonitorFails => CycleLeaves
<1>1. \A market, e : AlertsOf(market, e) \in SUBSET Kinds
  BY DEF AlertsOf
<1>2. "crash" \in Kinds
  BY DEF Kinds
<1>3. ASSUME MonitorCycle PROVE CycleLeaves
  <2>1. PICK market \in Markets, e \in Evidence :
          Observed(market) /\ Tell(AlertsOf(market, e)) /\ Judge(e)
    BY <1>3 DEF MonitorCycle
  <2>2. /\ tick' = tick + 1 /\ counter' = counter + 1 /\ life' = life
        /\ errors' \in {errors, errors \cup {tick}}
    BY <1>3 DEF MonitorCycle, CycleCounts, ErrorRow
  <2>3. predicted' \in {predicted, predicted \cup {tick}}
    BY <2>1 DEF Observed
  <2>4. /\ lastDate' = DayOf(tick)
        /\ metric' = metric \/ (DayOver /\ metric' = RolledUp(lastDate))
    BY <1>3 DEF MonitorCycle, DayRolls
  <2>5. QED
    BY <1>1, <2>1, <2>2, <2>3, <2>4 DEF CycleLeaves
<1>4. ASSUME MonitorFails PROVE CycleLeaves
  <2>1. /\ tick' = tick + 1 /\ counter' = counter + 1 /\ life' = life
        /\ errors' = errors \cup {tick}
    BY <1>4 DEF MonitorFails, CycleCounts, ErrorRow
  <2>2. CASE /\ predicted' \in {predicted, predicted \cup {tick}}
             /\ Tell({"crash"})
             /\ UNCHANGED <<safety, verdict, lastDate, metric>>
    <3>1. {"crash"} \in SUBSET Kinds
      BY <1>2
    <3>2. QED
      BY <2>1, <2>2, <3>1 DEF CycleLeaves
  <2>3. CASE \E market \in Markets, e \in Evidence :
               /\ Observed(market)
               /\ \/ /\ \E some \in SUBSET AlertsOf(market, e) : Tell(some \cup {"crash"})
                     /\ UNCHANGED <<verdict, lastDate, metric>>
                  \/ /\ Tell(AlertsOf(market, e) \cup {"crash"})
                     /\ Judge(e)
                     /\ UNCHANGED <<lastDate, metric>> \/ DayRolls
    <3>1. PICK market \in Markets, e \in Evidence :
            /\ Observed(market)
            /\ \/ /\ \E some \in SUBSET AlertsOf(market, e) : Tell(some \cup {"crash"})
                  /\ UNCHANGED <<verdict, lastDate, metric>>
               \/ /\ Tell(AlertsOf(market, e) \cup {"crash"})
                  /\ Judge(e)
                  /\ UNCHANGED <<lastDate, metric>> \/ DayRolls
      BY <2>3
    <3>2. \A some \in SUBSET AlertsOf(market, e) : some \cup {"crash"} \in SUBSET Kinds
      BY <1>1, <1>2
    <3>3. \E kinds \in SUBSET Kinds : Tell(kinds)
      BY <3>1, <3>2
    <3>4. predicted' \in {predicted, predicted \cup {tick}}
      BY <3>1 DEF Observed
    <3>5. verdict' = verdict \/ Judge(e)
      BY <3>1
    <3>6. \/ UNCHANGED <<lastDate, metric>>
          \/ /\ lastDate' = DayOf(tick)
             /\ metric' = metric \/ (DayOver /\ metric' = RolledUp(lastDate))
      BY <3>1 DEF DayRolls
    <3>7. QED
      BY <2>1, <3>1, <3>3, <3>4, <3>5, <3>6 DEF CycleLeaves
  <2>4. QED
    BY <1>4, <2>2, <2>3 DEF MonitorFails
<1>5. QED
  BY <1>3, <1>4

-----------------------------------------------------------------------------
(* The alerts.                                                             *)

(* The last one of a kind that this process delivered is the one its       *)
(* cooldown counts from.                                                   *)
CooldownsCount ==
  /\ \A a \in told : a.at < tick /\ a.life <= life
  /\ \A a \in told : a.life = life => emitted[a.kind] # None /\ a.at <= emitted[a.kind]
  /\ \A k \in Kinds : emitted[k] # None => [kind |-> k, at |-> emitted[k], life |-> life] \in told
  /\ \A k \in wanted.kinds :
       emitted[k] # None /\ emitted[k] <= wanted.at /\ wanted.at - emitted[k] < Max({1, Cooldown})

AlertTypeOK ==
  /\ tick \in Nat /\ life \in Nat
  /\ emitted \in [Kinds -> Nat \cup {None}]
  /\ told \subseteq [kind : Kinds, at : Nat, life : Nat]
  /\ wanted \in [kinds : SUBSET Kinds, at : Nat]

AlertsInv == AlertTypeOK /\ CooldownsCount /\ AlertsAreSpaced

LEMMA AlertsStart == MonitoringInit => AlertsInv
<1> SUFFICES ASSUME MonitoringInit PROVE AlertsInv
  OBVIOUS
<1>1. AlertTypeOK
  BY DEF MonitoringInit, AlertTypeOK, NothingSent
<1>2. CooldownsCount /\ AlertsAreSpaced
  BY DEF MonitoringInit, CooldownsCount, AlertsAreSpaced, NothingSent
<1>3. QED
  BY <1>1, <1>2 DEF AlertsInv

LEMMA CycleAlerts ==
  ASSUME AlertsInv, NEW kinds \in SUBSET Kinds, Tell(kinds), tick' = tick + 1, life' = life
  PROVE  AlertsInv'
<1> DEFINE new(k) == [kind |-> k, at |-> tick, life |-> life]
           due == Delivered(kinds)
<1>1. /\ tick \in Nat /\ life \in Nat /\ tick' \in Nat
      /\ emitted \in [Kinds -> Nat \cup {None}]
      /\ told \subseteq [kind : Kinds, at : Nat, life : Nat]
      /\ \A k \in Kinds : emitted[k] # None => emitted[k] \in Nat
  BY DEF AlertsInv, AlertTypeOK
<1>2. /\ due \subseteq kinds /\ due \subseteq Kinds
      /\ \A k \in kinds \ due : emitted[k] # None /\ tick - emitted[k] < Cooldown
      /\ \A k \in due : emitted[k] = None \/ ~(tick - emitted[k] < Cooldown)
  BY DEF Delivered, Cooling
<1>3. /\ emitted' = [k \in Kinds |-> IF k \in due THEN tick ELSE emitted[k]]
      /\ told' = told \cup {new(k) : k \in due}
      /\ wanted' = [kinds |-> kinds, at |-> tick]
  BY DEF Remembered, Tell
<1> HIDE DEF due
<1>4. AlertTypeOK'
  <2>1. emitted' \in [Kinds -> Nat \cup {None}]
    BY <1>1, <1>3
  <2>2. told' \subseteq [kind : Kinds, at : Nat, life : Nat]
    BY <1>1, <1>2, <1>3
  <2>3. QED
    BY <1>1, <1>3, <2>1, <2>2 DEF AlertTypeOK
<1>5. /\ \A a \in told : a.at < tick /\ a.life <= life /\ a.at \in Nat /\ a.life \in Nat /\ a.kind \in Kinds
      /\ \A a \in told : a.life = life => emitted[a.kind] # None /\ a.at <= emitted[a.kind]
      /\ \A k \in Kinds : emitted[k] # None => new(k).life = life /\ [kind |-> k, at |-> emitted[k], life |-> life] \in told
  BY <1>1 DEF AlertsInv, CooldownsCount
<1>6. \A k \in Kinds : emitted[k] # None => emitted[k] < tick /\ emitted[k] \in Nat
  BY <1>1, <1>5
<1>7. \A k \in Kinds : emitted'[k] = IF k \in due THEN tick ELSE emitted[k]
  BY <1>3
<1>8. \A a \in told' : a \in told \/ \E k \in due : a = new(k)
  BY <1>3
<1>9. \A k \in due : new(k) \in told' /\ new(k).kind = k /\ new(k).at = tick /\ new(k).life = life
  BY <1>3
<1>10. tick # None
  BY <1>1, MonitoringConstants
<1> HIDE DEF new
<1>11. CooldownsCount'
  <2>1. \A a \in told' : a.at < tick' /\ a.life <= life'
    BY <1>1, <1>5, <1>8, <1>9
  <2>2. ASSUME NEW a \in told', a.life = life' PROVE emitted'[a.kind] # None /\ a.at <= emitted'[a.kind]
    <3>1. CASE a \in told
      BY <3>1, <2>2, <1>1, <1>5, <1>7, <1>10
    <3>2. CASE \E k \in due : a = new(k)
      BY <3>2, <1>1, <1>2, <1>7, <1>9, <1>10
    <3>3. QED
      BY <3>1, <3>2, <1>8
  <2>3. ASSUME NEW k \in Kinds, emitted'[k] # None
        PROVE  [kind |-> k, at |-> emitted'[k], life |-> life'] \in told'
    <3>1. CASE k \in due
      BY <3>1, <1>7, <1>9 DEF new
    <3>2. CASE k \notin due
      BY <3>2, <2>3, <1>3, <1>5, <1>7
    <3>3. QED
      BY <3>1, <3>2
  <2>4. ASSUME NEW k \in kinds
        PROVE  emitted'[k] # None /\ emitted'[k] <= tick /\ tick - emitted'[k] < Max({1, Cooldown})
    <3>1. CASE k \in due
      BY <3>1, <1>1, <1>7, <1>10, MonitoringConstants
    <3>2. CASE k \notin due
      <4>1. emitted[k] # None /\ tick - emitted[k] < Cooldown /\ emitted'[k] = emitted[k]
        BY <3>2, <1>2, <1>7
      <4>2. emitted[k] \in Nat /\ emitted[k] < tick
        BY <4>1, <1>6
      <4>3. QED
        BY <1>1, <4>1, <4>2, MonitoringConstants
    <3>3. QED
      BY <3>1, <3>2
  <2>5. wanted'.kinds = kinds /\ wanted'.at = tick
    BY <1>3
  <2>6. QED
    BY <2>1, <2>2, <2>3, <2>4, <2>5 DEF CooldownsCount
<1>12. AlertsAreSpaced'
  <2> SUFFICES ASSUME NEW a \in told', NEW b \in told',
                      a.kind = b.kind, a.life = b.life, a.at < b.at
               PROVE  b.at - a.at >= Cooldown
    BY DEF AlertsAreSpaced
  <2>1. CASE a \in told /\ b \in told
    BY <2>1 DEF AlertsInv, AlertsAreSpaced
  <2>2. CASE a \in told /\ b \notin told
    <3>1. PICK k \in due : b = new(k)
      BY <2>2, <1>8
    <3>2. b.kind = k /\ b.at = tick /\ a.life = life /\ a.kind = k
      BY <3>1, <1>9
    <3>3. emitted[k] # None /\ a.at <= emitted[k] /\ a.at \in Nat /\ emitted[k] \in Nat
      BY <2>2, <3>2, <1>2, <1>5, <1>6
    <3>4. ~(tick - emitted[k] < Cooldown)
      BY <3>3, <1>2
    <3>5. QED
      BY <3>2, <3>3, <3>4, <1>1, MonitoringConstants
  <2>3. CASE a \notin told
    <3>1. a.at = tick
      BY <2>3, <1>8, <1>9
    <3>2. b.at <= tick /\ b.at \in Nat
      BY <1>1, <1>5, <1>8, <1>9
    <3>3. QED
      BY <3>1, <3>2, <1>1
  <2>4. QED
    BY <2>1, <2>2, <2>3
<1>13. QED
  BY <1>4, <1>11, <1>12 DEF AlertsInv

LEMMA OtherAlerts ==
  ASSUME AlertsInv, tick' \in Nat, tick' >= tick, UNCHANGED <<life, emitted, told, wanted>>
  PROVE  AlertsInv'
<1>1. AlertTypeOK' /\ AlertsAreSpaced'
  BY DEF AlertsInv, AlertTypeOK, AlertsAreSpaced
<1>2. /\ tick \in Nat /\ CooldownsCount
      /\ \A a \in told : a.at \in Nat
  BY DEF AlertsInv, AlertTypeOK
<1>3. \A a \in told' : a.at < tick' /\ a.life <= life'
  BY <1>2 DEF CooldownsCount
<1>4. CooldownsCount'
  BY <1>2, <1>3 DEF CooldownsCount
<1>5. QED
  BY <1>1, <1>4 DEF AlertsInv

LEMMA RestartAlerts ==
  ASSUME AlertsInv, RestartMonitor
  PROVE  AlertsInv'
<1>1. /\ life' = life + 1 /\ emitted' = NothingSent /\ UNCHANGED <<tick, told>>
      /\ wanted' = [wanted EXCEPT !.kinds = {}]
  BY DEF RestartMonitor
<1>2. /\ tick \in Nat /\ life \in Nat /\ wanted \in [kinds : SUBSET Kinds, at : Nat]
      /\ told \subseteq [kind : Kinds, at : Nat, life : Nat]
      /\ \A a \in told : a.at < tick /\ a.life <= life
      /\ AlertsAreSpaced
  BY DEF AlertsInv, AlertTypeOK, CooldownsCount
<1>3. wanted' \in [kinds : SUBSET Kinds, at : Nat] /\ wanted'.kinds = {}
  BY <1>1, <1>2
<1>4. emitted' \in [Kinds -> Nat \cup {None}] /\ \A k \in Kinds : emitted'[k] = None
  BY <1>1 DEF NothingSent
<1>5. AlertTypeOK'
  BY <1>1, <1>2, <1>3, <1>4 DEF AlertTypeOK
<1>6. \A a \in told' : a.at < tick' /\ a.life <= life' /\ a.life # life'
  BY <1>1, <1>2
<1>7. CooldownsCount'
  BY <1>3, <1>4, <1>6 DEF CooldownsCount
<1>8. QED
  BY <1>1, <1>2, <1>5, <1>7 DEF AlertsInv, AlertsAreSpaced

LEMMA AlertsSteps == AlertsInv /\ [MonitoringNext]_monitoringVars => AlertsInv'
<1> SUFFICES ASSUME AlertsInv, [MonitoringNext]_monitoringVars PROVE AlertsInv'
  OBVIOUS
<1>0. tick \in Nat
  BY DEF AlertsInv, AlertTypeOK
<1>1. CASE MonitorCycle \/ MonitorFails
  <2>1. tick' = tick + 1 /\ life' = life /\ \E kinds \in SUBSET Kinds : Tell(kinds)
    BY <1>1, CyclesLeave DEF CycleLeaves
  <2>2. QED
    BY <2>1, CycleAlerts
<1>2. CASE IdleTick \/ UNCHANGED monitoringVars
  <2>1. tick' \in Nat /\ tick' >= tick /\ UNCHANGED <<life, emitted, told, wanted>>
    BY <1>0, <1>2 DEF IdleTick, monitoringVars
  <2>2. QED
    BY <2>1, OtherAlerts
<1>3. CASE RestartMonitor
  BY <1>3, RestartAlerts
<1>4. QED
  BY <1>1, <1>2, <1>3 DEF MonitoringNext

(* An alert of a kind is neither repeated within its cooldown nor kept     *)
(* back while its cause lasts (AlertManager.emit), for every cooldown, any *)
(* markets and evidence, idle intervals, failing cycles and restarts.      *)
THEOREM AlertsHeard == MonitoringSpec => []AlertsAreHeard
<1>1. AlertsInv => AlertsAreHeard
  <2> SUFFICES ASSUME AlertsInv PROVE LastingConditionIsTold
    BY DEF AlertsInv, AlertsAreHeard
  <2>1. ASSUME NEW k \in wanted.kinds
        PROVE \E a \in told : a.kind = k /\ a.life = life /\ wanted.at - a.at < Max({1, Cooldown})
    <3>1. /\ k \in Kinds /\ emitted[k] # None
          /\ wanted.at - emitted[k] < Max({1, Cooldown})
          /\ [kind |-> k, at |-> emitted[k], life |-> life] \in told
      BY DEF AlertsInv, AlertTypeOK, CooldownsCount
    <3>2. QED
      BY <3>1
  <2>2. QED
    BY <2>1 DEF LastingConditionIsTold
<1>2. QED
  BY <1>1, AlertsStart, AlertsSteps, PTL DEF MonitoringSpec

-----------------------------------------------------------------------------
(* The readiness: the day of a tick, and the ticks of a day.               *)
LEMMA DayFacts ==
  ASSUME NEW t \in Nat
  PROVE  /\ DayOf(t) \in Nat
         /\ DayTicks * DayOf(t) <= t /\ t < DayTicks * (DayOf(t) + 1)
         /\ \A s \in Nat : s <= t => DayOf(s) <= DayOf(t)
         /\ \A n \in Nat : DayOf(t) >= n => t >= n * DayTicks
<1>1. DayTicks \in Nat /\ DayTicks >= 1
  BY MonitoringConstants
<1>2. ASSUME NEW s \in Nat
      PROVE  DayOf(s) \in Nat /\ DayTicks * DayOf(s) <= s /\ s < DayTicks * (DayOf(s) + 1)
  BY <1>1 DEF DayOf
<1>3. \A a, b, d \in Nat : d >= 1 /\ a < b => d * (a + 1) <= d * b
  OBVIOUS
<1>4. ASSUME NEW s \in Nat, s <= t PROVE DayOf(s) <= DayOf(t)
  <2>1. SUFFICES ASSUME DayOf(t) < DayOf(s) PROVE FALSE
    BY <1>2
  <2>2. DayTicks * (DayOf(t) + 1) <= DayTicks * DayOf(s)
    BY <1>1, <1>2, <1>3, <2>1
  <2>3. QED
    BY <1>1, <1>2, <1>4, <2>2
<1>5. ASSUME NEW n \in Nat, DayOf(t) >= n PROVE t >= n * DayTicks
  <2>1. \A a, b, d \in Nat : a >= b => d * a >= b * d
    OBVIOUS
  <2>2. DayTicks * DayOf(t) >= n * DayTicks /\ n * DayTicks \in Nat /\ DayTicks * DayOf(t) \in Nat
    <3>1. DayTicks \in Nat /\ DayOf(t) \in Nat /\ n \in Nat
      BY <1>1, <1>2
    <3>2. \A a, b \in Nat : a * b \in Nat
      OBVIOUS
    <3>3. QED
      BY <3>1, <3>2, <2>1, <1>5
  <2>3. QED
    BY <1>2, <2>2
<1>6. QED
  BY <1>2, <1>4, <1>5

(* The last day of the window is counted from its first tick on.           *)
LEMMA LastDayIsLast ==
  ASSUME NEW t \in Nat
  PROVE  /\ DayNumberAt(t) \in Int
         /\ DayNumberAt(t) >= WindowDays => t >= (WindowDays - 1) * DayTicks
<1>1. /\ WindowDays \in Nat /\ WindowDays >= 1 /\ DayTicks \in Nat /\ DayTicks >= 1
      /\ DayOf(t) \in Nat
  BY MonitoringConstants, DayFacts
<1>2. /\ Min({WindowDays, DayOf(t) + 1}) \in Int
      /\ Min({WindowDays, DayOf(t) + 1}) <= DayOf(t) + 1
  BY <1>1, MinOfTwo
<1>3. DayNumberAt(t) = IF 1 >= Min({WindowDays, DayOf(t) + 1}) THEN 1
                       ELSE Min({WindowDays, DayOf(t) + 1})
  BY <1>2, MaxOfTwo, SMTT(40) DEF DayNumberAt
<1>4. DayNumberAt(t) \in Int
  BY <1>2, <1>3
<1>5. ASSUME DayNumberAt(t) >= WindowDays PROVE t >= (WindowDays - 1) * DayTicks
  <2>1. DayOf(t) >= WindowDays - 1 /\ WindowDays - 1 \in Nat
    BY <1>1, <1>2, <1>3, <1>5
  <2>2. QED
    BY <2>1, DayFacts
<1>6. QED
  BY <1>4, <1>5

Shown(e) ==
  /\ e.evaluated \in Nat /\ e.drawdown \in Nat /\ e.accuracy \in Nat /\ e.fake \in Nat
  /\ e.regimes \in Nat /\ e.spread \in Nat /\ e.failures \in Nat

(* What falls short in one of the three measures that weigh most is never  *)
(* made up for by the others.                                              *)
LEMMA RawIsBounded ==
  ASSUME NEW e \in Evidence, NEW uptime \in Int
  PROVE  /\ RawReadiness(e, uptime) \in Int
         /\ RawReadiness(e, uptime) > 850
              => e.accuracy >= 54 /\ e.evaluated >= 150 /\ e.drawdown < 25
<1>1. Shown(e)
  BY MonitoringAssumption DEF Shown
<1> DEFINE enough == (10 * e.evaluated) \div 6
           calm == One - 50 * (e.drawdown - 5)
           right == Quot((e.accuracy - 50) * One, 15)
           honest == One - 250 * e.fake
           least == Min({5, e.regimes})
           robust == 200 * least - 12 * e.spread
           answered == One - 80 * e.failures
           up == 10 * uptime
<1>2. enough \in Int /\ (e.evaluated < 150 => enough <= 248)
  BY <1>1 DEF Shown
<1>3. calm \in Int /\ (e.drawdown >= 25 => calm <= 0)
  BY <1>1 DEF Shown, One
<1>4. right \in Int /\ (e.accuracy < 54 => right <= 200)
  BY <1>1 DEF Shown, One, Quot
<1>5. honest \in Int /\ answered \in Int
  BY <1>1 DEF Shown, One
<1>6. robust \in Int
  <2>1. least \in Int
    BY <1>1, MinOfTwo DEF Shown
  <2> HIDE DEF least
  <2>2. QED
    BY <1>1, <2>1 DEF Shown
<1>7. up \in Int
  OBVIOUS
<1>8. RawReadiness(e, uptime)
        = (20 * Points(enough) + 12 * Points(up) + 15 * Points(calm) + 22 * Points(right)
           + 13 * Points(honest) + 13 * Points(robust) + 5 * Points(answered)) \div 100
  BY DEF RawReadiness, AccuracyPoints
<1> HIDE DEF enough, calm, right, honest, robust, answered, up
<1>9. \A x \in {enough, up, calm, right, honest, robust, answered} :
         Points(x) \in Int /\ 0 <= Points(x) /\ Points(x) <= 1000
  BY <1>2, <1>3, <1>4, <1>5, <1>6, <1>7, PointsAre DEF One
<1>10. /\ e.evaluated < 150 => Points(enough) <= 248
       /\ e.drawdown >= 25 => Points(calm) <= 0
       /\ e.accuracy < 54 => Points(right) <= 200
  BY <1>2, <1>3, <1>4, PointsAre DEF One
<1> DEFINE a == Points(enough) b == Points(up) c == Points(calm) d == Points(right)
           f == Points(honest) g == Points(robust) h == Points(answered)
<1>11. /\ a \in Int /\ b \in Int /\ c \in Int /\ d \in Int /\ f \in Int /\ g \in Int /\ h \in Int
       /\ a <= 1000 /\ b <= 1000 /\ c <= 1000 /\ d <= 1000 /\ f <= 1000 /\ g <= 1000 /\ h <= 1000
       /\ e.evaluated < 150 => a <= 248
       /\ e.drawdown >= 25 => c <= 0
       /\ e.accuracy < 54 => d <= 200
       /\ RawReadiness(e, uptime) = (20 * a + 12 * b + 15 * c + 22 * d + 13 * f + 13 * g + 5 * h) \div 100
  BY <1>8, <1>9, <1>10
<1> HIDE DEF a, b, c, d, f, g, h
<1> DEFINE sum == 20 * a + 12 * b + 15 * c + 22 * d + 13 * f + 13 * g + 5 * h
<1>12. /\ sum \in Int /\ RawReadiness(e, uptime) = sum \div 100
       /\ e.evaluated < 150 => sum <= 84960
       /\ e.drawdown >= 25 => sum <= 85000
       /\ e.accuracy < 54 => sum <= 82400
  BY <1>11
<1> HIDE DEF sum
<1>13. sum \div 100 \in Int /\ (sum <= 85000 => sum \div 100 <= 850)
  BY <1>12
<1>14. e.evaluated \in Nat /\ e.drawdown \in Nat /\ e.accuracy \in Nat
  BY <1>1 DEF Shown
<1>15. QED
  BY <1>12, <1>13, <1>14

LEMMA ScoreIsBounded ==
  ASSUME NEW e \in Evidence, NEW uptime \in Int, NEW day \in Int
  PROVE  LET score == Readiness(e, uptime, day)
         IN  /\ score \in 0..One
             /\ score > PreCompletionCap => day >= WindowDays
             /\ score > 850 => e.accuracy >= 54 /\ e.evaluated >= 150 /\ e.drawdown < 25
<1> DEFINE raw == RawReadiness(e, uptime)
           least == Min({raw, PreCompletionCap})
<1>1. raw \in Int /\ (raw > 850 => e.accuracy >= 54 /\ e.evaluated >= 150 /\ e.drawdown < 25)
  BY RawIsBounded
<1>2. Readiness(e, uptime, day) = Points(IF day >= WindowDays THEN raw ELSE least)
  BY DEF Readiness
<1> HIDE DEF raw
<1>3. least \in Int /\ least <= PreCompletionCap /\ least <= raw /\ PreCompletionCap = 600
  BY <1>1, MinOfTwo DEF PreCompletionCap
<1> HIDE DEF least
<1>4. CASE day >= WindowDays
  <2>1. Readiness(e, uptime, day) = Points(raw)
    BY <1>2, <1>4
  <2>2. Points(raw) \in 0..One /\ (Points(raw) > 850 => raw > 850)
    BY <1>1, PointsBound
  <2>3. QED
    BY <1>1, <1>4, <2>1, <2>2
<1>5. CASE ~(day >= WindowDays)
  <2>1. Readiness(e, uptime, day) = Points(least)
    BY <1>2, <1>5
  <2>2. Points(least) \in 0..One /\ Points(least) \in Int
    BY <1>3, PointsAre, PointsBound
  <2>3. ~(Points(least) > PreCompletionCap) /\ ~(Points(least) > 850)
    <3>1. least \in Int /\ ~(least > 600)
      BY <1>3
    <3>2. ~(Points(least) > 600)
      BY <3>1, PointsBound
    <3>3. QED
      BY <1>3, <2>2, <3>2
  <2>4. QED
    BY <2>1, <2>2, <2>3
<1>6. QED
  BY <1>4, <1>5

(* Cycles leave traces in the past, and the counter of the process is of   *)
(* some of them; a verdict is of a past cycle, and as strong as then.      *)
Traces == DOMAIN safety \cup errors

CyclesOnRecord ==
  /\ tick \in Nat /\ counter \in Nat
  /\ Traces \cup predicted \subseteq 0..(tick - 1)
  /\ counter <= Cardinality(Traces)

VerdictIsPast == verdict # None => verdict.at \in Nat /\ verdict.at < tick

ReadinessInv == CyclesOnRecord /\ VerdictIsPast /\ ReadinessIsEarned

LEMMA PastIsFinite ==
  ASSUME tick \in Nat, NEW S, S \subseteq 0..(tick - 1)
  PROVE  /\ IsFiniteSet(S) /\ Cardinality(S) \in Nat
         /\ tick \notin S
         /\ \A t \in S : t \in Nat /\ t < tick
         /\ IsFiniteSet(S \cup {tick})
         /\ Cardinality(S \cup {tick}) = Cardinality(S) + 1
<1>1. IsFiniteSet(0..(tick - 1))
  <2>1. tick - 1 \in Int /\ 0 \in Int
    OBVIOUS
  <2>2. QED
    BY <2>1, FS_Interval
<1>2. IsFiniteSet(S) /\ Cardinality(S) \in Nat
  BY <1>1, FS_Subset, FS_CardinalityType
<1>3. tick \notin S /\ \A t \in S : t \in Nat /\ t < tick
  OBVIOUS
<1>4. QED
  BY <1>2, <1>3, FS_AddElement

(* A cycle adds the trace of its tick.                                     *)
LEMMA RowsOfTicks ==
  ASSUME CyclesOnRecord
  PROVE  /\ IsFiniteSet(Traces) /\ Cardinality(Traces) \in Nat
         /\ Cardinality(Traces \cup {tick}) = Cardinality(Traces) + 1
         /\ IsFiniteSet(DOMAIN safety)
         /\ tick \notin Traces
         /\ \A t \in Traces \cup predicted : t \in Nat /\ t < tick
<1>1. /\ tick \in Nat /\ Traces \subseteq 0..(tick - 1) /\ DOMAIN safety \subseteq 0..(tick - 1)
      /\ \A t \in Traces \cup predicted : t \in Nat /\ t < tick
  BY DEF CyclesOnRecord, Traces
<1>2. QED
  BY <1>1, PastIsFinite

LEMMA TracesGrow ==
  ASSUME CyclesOnRecord, CycleLeaves
  PROVE  /\ Traces' = Traces \cup {tick}
         /\ CyclesOnRecord'
<1>1. /\ tick \in Nat /\ counter \in Nat
      /\ Traces \subseteq 0..(tick - 1) /\ predicted \subseteq 0..(tick - 1)
      /\ counter <= Cardinality(Traces) /\ Cardinality(Traces) \in Nat
      /\ Cardinality(Traces \cup {tick}) = Cardinality(Traces) + 1
  BY RowsOfTicks DEF CyclesOnRecord
<1>2. Traces' = Traces \cup {tick}
  <2>1. CASE safety' = safety /\ errors' = errors \cup {tick}
    BY <2>1 DEF Traces
  <2>2. CASE DOMAIN safety' = DOMAIN safety \cup {tick}
    BY <2>2 DEF Traces, CycleLeaves
  <2>3. QED
    BY <2>1, <2>2 DEF CycleLeaves, Observed
<1>3. tick' = tick + 1 /\ counter' = counter + 1 /\ predicted' \subseteq predicted \cup {tick}
  BY DEF CycleLeaves
<1>4. Traces' \cup predicted' \subseteq 0..(tick' - 1)
  BY <1>1, <1>2, <1>3
<1>5. counter' <= Cardinality(Traces') /\ tick' \in Nat /\ counter' \in Nat
  BY <1>1, <1>2, <1>3
<1>6. QED
  BY <1>2, <1>4, <1>5 DEF CyclesOnRecord

Ratio(n, d) == Min({100, (100 * n) \div Max({1, d})})

LEMMA RatioGrows ==
  ASSUME NEW n \in Nat, NEW m \in Nat, n <= m, NEW d \in Nat
  PROVE  Ratio(n, d) \in Int /\ Ratio(n, d) <= Ratio(m, d)
<1> DEFINE top == Max({1, d})
<1>1. top \in Int /\ top >= 1
  BY MaxOfTwo
<1> HIDE DEF top
<1>2. \A a \in Int : (100 * a) \div top \in Int
  BY <1>1
<1> DEFINE x == (100 * n) \div top
           y == (100 * m) \div top
<1>3. top \in Nat \ {0} /\ 100 * n \in Int /\ 100 * m \in Int /\ 100 * n <= 100 * m
  BY <1>1
<1>4. x \in Int /\ y \in Int /\ x <= y
  BY <1>2, <1>3, QuotientsGrow
<1>5. Ratio(n, d) = Min({100, x}) /\ Ratio(m, d) = Min({100, y})
  BY DEF Ratio, top
<1> HIDE DEF x, y
<1>6. /\ Min({100, x}) \in Int /\ Min({100, x}) = IF 100 <= x THEN 100 ELSE x
      /\ Min({100, y}) \in Int /\ Min({100, y}) = IF 100 <= y THEN 100 ELSE y
  BY <1>4, MinOfTwo
<1>7. QED
  BY <1>4, <1>5, <1>6

LEMMA ReadinessStarts == MonitoringInit => ReadinessInv
<1> SUFFICES ASSUME MonitoringInit PROVE ReadinessInv
  OBVIOUS
<1>1. /\ tick = 0 /\ counter = 0 /\ safety = <<>> /\ verdict = None
      /\ errors = {} /\ predicted = {}
  BY DEF MonitoringInit
<1>2. Traces = {}
  BY <1>1 DEF Traces
<1>3. CyclesOnRecord
  BY <1>1, <1>2, FS_EmptySet DEF CyclesOnRecord
<1>4. QED
  BY <1>1, <1>3 DEF ReadinessInv, VerdictIsPast, ReadinessIsEarned, CapHolds,
                    StrongNeedsEvidence, UptimeIsTraced

(* A verdict of the past stays as earned as it was.                        *)
LEMMA VerdictStands ==
  ASSUME ReadinessInv, tick' \in Nat, tick' >= tick, verdict' = verdict,
         Traces' \in {Traces, Traces \cup {tick}}
  PROVE  VerdictIsPast' /\ ReadinessIsEarned'
<1>1. tick \in Nat /\ VerdictIsPast /\ CapHolds /\ StrongNeedsEvidence /\ UptimeIsTraced
  BY DEF ReadinessInv, CyclesOnRecord, ReadinessIsEarned
<1>2. VerdictIsPast'
  BY <1>1 DEF VerdictIsPast
<1>3. CapHolds' /\ StrongNeedsEvidence'
  BY <1>1 DEF CapHolds, StrongNeedsEvidence, PreCompletionCap
<1>4. ASSUME verdict # None PROVE verdict'.uptime <= UptimeOf(Traces)'
  <2>1. {t \in Traces' : t <= verdict'.at} = {t \in Traces : t <= verdict.at}
    BY <1>1, <1>4 DEF VerdictIsPast
  <2>2. verdict.uptime <= UptimeOf(Traces)
    BY <1>1, <1>4 DEF UptimeIsTraced, Traces
  <2>3. QED
    BY <2>1, <2>2 DEF UptimeOf
<1>5. UptimeIsTraced'
  BY <1>4 DEF UptimeIsTraced, Traces
<1>6. QED
  BY <1>2, <1>3, <1>5 DEF ReadinessIsEarned

LEMMA CycleReadiness == ReadinessInv /\ CycleLeaves => ReadinessInv'
<1> SUFFICES ASSUME ReadinessInv, CycleLeaves PROVE ReadinessInv'
  OBVIOUS
<1>1. /\ tick \in Nat /\ counter \in Nat /\ counter <= Cardinality(Traces)
      /\ Cardinality(Traces) \in Nat
      /\ Cardinality(Traces \cup {tick}) = Cardinality(Traces) + 1
      /\ \A t \in Traces : t \in Nat /\ t < tick
  BY RowsOfTicks DEF ReadinessInv, CyclesOnRecord
<1>2. Traces' = Traces \cup {tick} /\ CyclesOnRecord' /\ tick' = tick + 1
  BY TracesGrow DEF ReadinessInv, CycleLeaves
<1>3. CASE verdict' = verdict
  <2>1. tick' \in Nat /\ tick' >= tick /\ Traces' \in {Traces, Traces \cup {tick}}
    BY <1>1, <1>2
  <2>2. VerdictIsPast' /\ ReadinessIsEarned'
    BY <1>3, <2>1, VerdictStands
  <2>3. QED
    BY <1>2, <2>2 DEF ReadinessInv
<1>4. ASSUME NEW e \in Evidence, Judge(e) PROVE ReadinessInv'
  <2>1. verdict' = [score |-> Readiness(e, Uptime, DayNumberAt(tick)),
                    uptime |-> Uptime, at |-> tick, evidence |-> e]
    BY <1>4 DEF Judge
  <2>2. Uptime = Ratio(counter + 1, tick) /\ Uptime \in Int
    <3>1. Uptime = Ratio(counter + 1, tick)
      BY DEF Uptime, CyclesCompleted, Ratio
    <3>2. counter + 1 \in Nat /\ counter + 1 <= counter + 1
      BY <1>1
    <3>3. QED
      BY <1>1, <3>1, <3>2, RatioGrows
  <2>3. DayNumberAt(tick) \in Int
    BY <1>1, LastDayIsLast
  <2> DEFINE score == Readiness(e, Uptime, DayNumberAt(tick))
  <2>4. /\ score > PreCompletionCap => DayNumberAt(tick) >= WindowDays
        /\ score > 850 => e.accuracy >= 54 /\ e.evaluated >= 150 /\ e.drawdown < 25
    BY <2>2, <2>3, ScoreIsBounded
  <2> HIDE DEF score
  <2>5. verdict'.score = score /\ verdict'.uptime = Uptime /\ verdict'.at = tick /\ verdict'.evidence = e
    BY <2>1 DEF score
  <2>6. VerdictIsPast'
    BY <1>1, <1>2, <2>5 DEF VerdictIsPast
  <2>7. CapHolds'
    BY <1>1, <2>4, <2>5, LastDayIsLast DEF CapHolds, PreCompletionCap
  <2>8. StrongNeedsEvidence'
    BY <2>4, <2>5 DEF StrongNeedsEvidence
  <2>9. UptimeIsTraced'
    <3>1. {t \in Traces' : t <= verdict'.at} = Traces \cup {tick}
      BY <1>1, <1>2, <2>5
    <3>2. counter + 1 \in Nat /\ Cardinality(Traces) + 1 \in Nat
          /\ counter + 1 <= Cardinality(Traces) + 1
      BY <1>1
    <3>3. Uptime <= Ratio(Cardinality(Traces) + 1, tick)
      BY <1>1, <2>2, <3>2, RatioGrows
    <3>4. verdict'.uptime <= UptimeOf(Traces)'
      BY <1>1, <2>5, <3>1, <3>3 DEF Ratio, UptimeOf
    <3>5. QED
      BY <3>4 DEF UptimeIsTraced, Traces
  <2>10. QED
    BY <1>2, <2>6, <2>7, <2>8, <2>9 DEF ReadinessInv, ReadinessIsEarned
<1>5. QED
  BY <1>3, <1>4 DEF CycleLeaves

LEMMA OtherReadiness ==
  ASSUME ReadinessInv, tick' \in Nat, tick' >= tick, counter' \in {counter, 0},
         UNCHANGED <<safety, errors, predicted, verdict>>
  PROVE  ReadinessInv'
<1>1. /\ tick \in Nat /\ counter \in Nat /\ counter <= Cardinality(Traces)
      /\ Traces \cup predicted \subseteq 0..(tick - 1)
      /\ Cardinality(Traces) \in Nat
  BY RowsOfTicks DEF ReadinessInv, CyclesOnRecord
<1>2. Traces' = Traces /\ predicted' = predicted
  BY DEF Traces
<1>3. 0..(tick - 1) \subseteq 0..(tick' - 1)
  <2> DEFINE later == tick'
  <2>1. tick \in Int /\ later \in Int /\ tick <= later
    BY <1>1
  <2> HIDE DEF later
  <2>2. \A t \in 0..(tick - 1) : t \in 0..(later - 1)
    BY <2>1
  <2>3. QED
    BY <2>2 DEF later
<1>4. CyclesOnRecord'
  BY <1>1, <1>2, <1>3 DEF CyclesOnRecord
<1>5. VerdictIsPast' /\ ReadinessIsEarned'
  BY <1>2, VerdictStands
<1>6. QED
  BY <1>4, <1>5 DEF ReadinessInv

LEMMA ReadinessSteps == ReadinessInv /\ [MonitoringNext]_monitoringVars => ReadinessInv'
<1> SUFFICES ASSUME ReadinessInv, [MonitoringNext]_monitoringVars PROVE ReadinessInv'
  OBVIOUS
<1>0. tick \in Nat
  BY DEF ReadinessInv, CyclesOnRecord
<1>1. CASE MonitorCycle \/ MonitorFails
  BY <1>1, CyclesLeave, CycleReadiness
<1>2. CASE IdleTick \/ RestartMonitor \/ UNCHANGED monitoringVars
  <2>1. /\ tick' \in Nat /\ tick' >= tick /\ counter' \in {counter, 0}
        /\ UNCHANGED <<safety, errors, predicted, verdict>>
    BY <1>0, <1>2 DEF IdleTick, RestartMonitor, monitoringVars
  <2>2. QED
    BY <2>1, OtherReadiness
<1>3. QED
  BY <1>1, <1>2 DEF MonitoringNext

(* The readiness shown is earned: no score above the cap before the last   *)
(* day of the window, none of the highest level without the evidence that  *)
(* weighs, and no more uptime than cycles that left a row or an error      *)
(* (compute_readiness, LearningSession), for every window, evidence,       *)
(* failing cycle, gap and restart.                                         *)
THEOREM ReadinessEarned == MonitoringSpec => []ReadinessIsEarned
<1>1. ReadinessInv => ReadinessIsEarned
  BY DEF ReadinessInv
<1>2. QED
  BY <1>1, ReadinessStarts, ReadinessSteps, PTL DEF MonitoringSpec

-----------------------------------------------------------------------------
(* The days.                                                               *)
LEMMA MarketScore ==
  ASSUME NEW market \in Markets
  PROVE  /\ GlobalRow(market).score \in 0..One
         /\ GlobalRow(market).status = StatusForScore(GlobalRow(market).score)
<1> DEFINE scores == [i \in DOMAIN market |-> market[i].score]
           n == Len(market)
           total == SumFunction(scores)
           worst == Min(Range(scores))
<1>1. /\ market \in Seq([score : 0..One, condition : Range(Severity)])
      /\ n \in Nat /\ DOMAIN market = 1..n
      /\ \A i \in 1..n : market[i].score \in 0..One
  <2>1. /\ market \in Seq([score : 0..One, condition : Range(Severity)])
        /\ n \in Nat
    BY MonitoringAssumption
  <2>2. DOMAIN market = 1..n
    BY <2>1, LenProperties
  <2>3. \A i \in 1..n : market[i] \in [score : 0..One, condition : Range(Severity)]
    BY <2>1, ElementOfSeq
  <2>4. QED
    BY <2>1, <2>2, <2>3
<1>2. DOMAIN scores = 1..n /\ \A i \in 1..n : scores[i] \in 0..One
  BY <1>1
<1>3. GlobalRow(market).score = AggregateScore(scores)
      /\ GlobalRow(market).status = StatusForScore(GlobalRow(market).score)
  BY DEF GlobalRow
<1>4. CASE n = 0
  <2>1. scores = <<>>
    BY <1>2, <1>4
  <2>2. AggregateScore(scores) = 500
    BY <2>1 DEF AggregateScore
  <2>3. QED
    BY <1>3, <2>2 DEF One
<1>5. CASE n # 0
  <2>1. n >= 1 /\ scores # <<>>
    BY <1>1, <1>2, <1>5
  <2>2. Len(scores) = n
    <3>1. scores \in Seq(0..One)
      BY <1>1, <1>2, SeqDef
    <3>2. QED
      BY <1>1, <1>2, <3>1, LenProperties
  <2>3. total \in Int
    <3>1. total = Sum(scores, 1..n)
      BY <1>2, SumIs DEF SumFunction
    <3>2. IsFiniteSet(1..n)
      BY <1>1, FS_Interval
    <3>3. \A i \in 1..n : scores[i] \in Int
      BY <1>2
    <3>4. 0 \in Int
      OBVIOUS
    <3>5. QED
      BY <3>1, <3>2, <3>3, <3>4, SumBounds
  <2>4. worst \in Int
    <3>1. Range(scores) \in SUBSET Nat /\ Range(scores) # {}
      BY <1>2, <2>1 DEF Range
    <3>2. worst \in Range(scores)
      BY <3>1, SmallestOf
    <3>3. QED
      BY <3>1, <3>2
  <2>5. AggregateScore(scores) = Points(Quot(6 * total + 4 * n * worst, 10 * n))
    BY <2>1, <2>2 DEF AggregateScore
  <2> HIDE DEF total, worst, n, scores
  <2>6. 4 * n * worst \in Int /\ 6 * total \in Int
    BY <1>1, <2>3, <2>4
  <2> DEFINE x == 6 * total + 4 * n * worst
  <2>7. x \in Int
    BY <2>6
  <2> HIDE DEF x
  <2>8. 10 * n \in Nat /\ 10 * n >= 1
    BY <1>1, <2>1
  <2>9. Quot(x, 10 * n) \in Int
    BY <2>7, <2>8 DEF Quot
  <2>10. Points(Quot(x, 10 * n)) \in 0..One
    BY <2>9, PointsAre, SMTT(40) DEF One
  <2>11. QED
    BY <1>3, <2>5, <2>10 DEF x
<1>6. QED
  BY <1>4, <1>5

(* A mean is between the scores it is of.                                  *)
LEMMA MeanIsBetween ==
  ASSUME NEW S, S \subseteq DOMAIN safety, IsFiniteSet(S), S # {},
         \A t \in S : safety[t].score \in Int, NEW c \in Int
  PROVE  /\ Mean(S) \in Int
         /\ (\A t \in S : safety[t].score <= c) => Mean(S) <= c
         /\ (\A t \in S : c <= safety[t].score) => c <= Mean(S)
<1> DEFINE f == [t \in S |-> safety[t].score]
           sum == Sum(f, S)
           n == Cardinality(S)
<1>1. Mean(S) = sum \div n
  BY SumIs DEF Mean, SumFunction
<1>2. \A t \in S : f[t] \in Int /\ f[t] = safety[t].score
  OBVIOUS
<1>3. n \in Nat /\ n >= 1
  BY FS_EmptySet, FS_CardinalityType
<1>4. /\ sum \in Int
      /\ (\A t \in S : c <= f[t]) => c * n <= sum
      /\ (\A t \in S : f[t] <= c) => sum <= c * n
  BY <1>2, SumBounds
<1> HIDE DEF f, sum, n
<1>5. sum \div n \in Int /\ n * (sum \div n) <= sum /\ sum < n * (sum \div n) + n
  BY <1>3, <1>4
<1>6. \A q, r, m \in Int : m >= 1 /\ q > r => m * q >= r * m + m
  <2> SUFFICES ASSUME NEW q \in Int, NEW r \in Int, NEW m \in Int, m >= 1, q > r
               PROVE  m * q >= r * m + m
    OBVIOUS
  <2>1. \A x, y \in Int : x >= 0 /\ y >= 0 => x * y >= 0
    OBVIOUS
  <2>2. m * (q - r - 1) >= 0
    BY <2>1
  <2>3. m * (q - r - 1) = m * q - r * m - m
    OBVIOUS
  <2>4. QED
    BY <2>2, <2>3
<1> DEFINE mean == sum \div n
<1>7. mean \in Int /\ n * mean <= sum /\ sum < n * mean + n /\ n * mean \in Int /\ c * n \in Int
  BY <1>3, <1>5
<1> HIDE DEF mean
<1>8. ASSUME \A t \in S : safety[t].score <= c PROVE mean <= c
  <2>1. sum <= c * n
    BY <1>2, <1>4, <1>8
  <2>2. CASE mean > c
    <3>1. n * mean >= c * n + n
      BY <1>3, <1>6, <1>7, <2>2
    <3>2. QED
      BY <1>3, <1>4, <1>7, <2>1, <3>1
  <2>3. QED
    BY <1>7, <2>2
<1>9. ASSUME \A t \in S : c <= safety[t].score PROVE c <= mean
  <2>1. c * n <= sum
    BY <1>2, <1>4, <1>9
  <2>2. CASE c > mean
    <3>1. n * c >= mean * n + n /\ n * c = c * n /\ mean * n = n * mean
      BY <1>3, <1>6, <1>7, <2>2
    <3>2. QED
      BY <1>3, <1>4, <1>7, <2>1, <3>1
  <2>3. QED
    BY <1>7, <2>2
<1>10. QED
  BY <1>1, <1>7, <1>8, <1>9 DEF mean

(* What the report says of a mean is what the rows say.                    *)
Advised(advice, S) ==
  LET statuses == {safety[t].status : t \in S}
  IN  /\ advice = "acceptable" => "SAFE_TO_OBSERVE" \in statuses
      /\ advice = "hazardous" => statuses \cap {"UNSAFE", "HIGH_RISK"} # {}
      /\ statuses = {"UNSAFE"} => advice = "hazardous"

RowsAreScored ==
  \A t \in DOMAIN safety :
    safety[t].score \in 0..One /\ safety[t].status = StatusForScore(safety[t].score)

LEMMA AdviceFits ==
  ASSUME RowsAreScored, NEW S, S \subseteq DOMAIN safety, IsFiniteSet(S), S # {}
  PROVE  Advised(Recommendation(Mean(S)), S)
<1>1. \A t \in S : safety[t].score \in Int /\ safety[t].status = StatusForScore(safety[t].score)
  BY SMTT(40) DEF RowsAreScored, One
<1> DEFINE mean == Mean(S)
           score(t) == safety[t].score
<1>2. mean \in Int
  BY <1>1, MeanIsBetween, 0 \in Int
<1>3. /\ (\A t \in S : score(t) <= 600) => mean <= 600
      /\ (\A t \in S : score(t) <= 200) => mean <= 200
      /\ (\A t \in S : 401 <= score(t)) => 401 <= mean
  <2>1. 600 \in Int /\ 200 \in Int /\ 401 \in Int
    OBVIOUS
  <2>2. QED
    BY <1>1, <2>1, MeanIsBetween
<1> HIDE DEF mean
<1>4. /\ Recommendation(mean) = "acceptable" => mean >= 610
      /\ Recommendation(mean) = "hazardous" <=> mean < 210
  BY <1>2 DEF Recommendation
<1>5. \A x \in Int : /\ StatusForScore(x) = "SAFE_TO_OBSERVE" <=> x > 600
                     /\ StatusForScore(x) \in {"UNSAFE", "HIGH_RISK"} <=> x <= 400
                     /\ StatusForScore(x) = "UNSAFE" <=> x <= 200
  <2> SUFFICES ASSUME NEW x \in Int
               PROVE  /\ StatusForScore(x) = "SAFE_TO_OBSERVE" <=> x > 600
                      /\ StatusForScore(x) \in {"UNSAFE", "HIGH_RISK"} <=> x <= 400
                      /\ StatusForScore(x) = "UNSAFE" <=> x <= 200
    OBVIOUS
  <2>1. StatusForScore(x) = IF x <= 200 THEN "UNSAFE" ELSE IF x <= 400 THEN "HIGH_RISK"
                            ELSE IF x <= 600 THEN "WAIT" ELSE "SAFE_TO_OBSERVE"
    BY DEF StatusForScore
  <2>2. QED
    BY <2>1
<1>6. ASSUME Recommendation(mean) = "acceptable"
      PROVE  \E t \in S : safety[t].status = "SAFE_TO_OBSERVE"
  <2>1. PICK t \in S : ~(score(t) <= 600)
    BY <1>2, <1>3, <1>4, <1>6
  <2>2. QED
    BY <1>1, <1>5, <2>1
<1>7. ASSUME Recommendation(mean) = "hazardous"
      PROVE  \E t \in S : safety[t].status \in {"UNSAFE", "HIGH_RISK"}
  <2>1. PICK t \in S : ~(401 <= score(t))
    BY <1>2, <1>3, <1>4, <1>7
  <2>2. score(t) \in Int /\ score(t) <= 400
    BY <1>1, <2>1
  <2>3. QED
    BY <1>1, <1>5, <2>2
<1>8. ASSUME {safety[t].status : t \in S} = {"UNSAFE"}
      PROVE  Recommendation(mean) = "hazardous"
  <2>1. \A t \in S : score(t) <= 200
    BY <1>1, <1>5, <1>8
  <2>2. QED
    BY <1>2, <1>3, <1>4, <2>1
<1>9. Advised(Recommendation(mean), S)
  BY <1>6, <1>7, <1>8 DEF Advised
<1>10. QED
  BY <1>9 DEF mean

(* The date the process remembers is that of some row.                     *)
DateIsOfRow == lastDate # None => \E t \in DOMAIN safety : DayOf(t) = lastDate

MetricIsPast ==
  metric # None => metric.day \in Nat /\ metric.at \in Nat /\ metric.at < tick

DaysInv == CyclesOnRecord /\ RowsAreScored /\ DateIsOfRow /\ MetricIsPast /\ DayIsReported

(* The predictions of a cycle that rolls a day up are there already.       *)
Since(day) == {t \in predicted \cup {tick} : DayOf(t) >= day}

(* The rows of a day that is over fit the query if those made since its    *)
(* beginning do.                                                           *)
LEMMA RowsFit ==
  ASSUME CyclesOnRecord, NEW day \in Nat, day < DayOf(tick)
  PROVE  PerCycle * Cardinality(Since(day)) <= RowLimit => NewestRowsOf(day) = RowsOn(day)
<1> DEFINE After == {t \in predicted \cup {tick} : DayOf(t) > day}
           n == Cardinality(PredictedOn(day))
           m == Cardinality(After)
<1>1. tick \in Nat /\ predicted \subseteq 0..(tick - 1) /\ \A t \in predicted : t \in Nat
  BY RowsOfTicks DEF CyclesOnRecord
<1>2. IsFiniteSet(predicted \cup {tick})
  BY <1>1, PastIsFinite
<1>3. IsFiniteSet(PredictedOn(day)) /\ IsFiniteSet(After)
  <2>1. PredictedOn(day) \subseteq predicted \cup {tick} /\ After \subseteq predicted \cup {tick}
    BY DEF PredictedOn
  <2>2. QED
    BY <1>2, <2>1, FS_Subset
<1>4. n \in Nat /\ m \in Nat
  BY <1>3, FS_CardinalityType
<1>5. Since(day) = PredictedOn(day) \cup After /\ PredictedOn(day) \cap After = {}
  <2>1. \A t \in predicted \cup {tick} : DayOf(t) \in Nat
    BY <1>1, DayFacts
  <2>2. DayOf(tick) # day
    BY <1>1, DayFacts
  <2>3. \A t \in predicted \cup {tick} : DayOf(t) >= day <=> DayOf(t) = day \/ DayOf(t) > day
    BY <2>1
  <2>4. \A t \in predicted \cup {tick} : ~(DayOf(t) = day /\ DayOf(t) > day)
    BY <2>1
  <2>5. QED
    BY <2>2, <2>3, <2>4 DEF Since, PredictedOn
<1>6. Cardinality(Since(day)) = n + m
  <2>1. Cardinality(PredictedOn(day) \cup After) = n + m - Cardinality({})
    BY <1>3, <1>5, FS_Union
  <2>2. QED
    BY <1>4, <1>5, <2>1, FS_EmptySet
<1>7. RowsAfter(day) = PerCycle * m /\ RowsOn(day) = PerCycle * n
  BY DEF RowsAfter, RowsOn
<1> HIDE DEF n, m
<1> DEFINE room == RowLimit - PerCycle * m
           rows == PerCycle * n
<1>8. PerCycle \in Nat /\ RowLimit \in Nat
  BY MonitoringConstants
<1>9. rows \in Nat /\ room \in Int /\ PerCycle * m \in Nat /\ PerCycle * (n + m) = rows + PerCycle * m
  <2>1. \A a, b, c \in Nat : a * b \in Nat /\ a * (b + c) = a * b + a * c
    OBVIOUS
  <2>2. QED
    BY <1>4, <1>8, <2>1
<1>10. NewestRowsOf(day) = Max({0, Min({rows, room})})
  BY <1>7 DEF NewestRowsOf, Within
<1>11. ASSUME PerCycle * (n + m) <= RowLimit PROVE rows <= room
  BY <1>8, <1>9, <1>11
<1> HIDE DEF rows, room
<1>12. /\ Min({rows, room}) \in Int
       /\ Min({rows, room}) = IF rows <= room THEN rows ELSE room
  BY <1>9, MinOfTwo
<1>13. ASSUME PerCycle * (n + m) <= RowLimit PROVE NewestRowsOf(day) = rows
  <2>1. Min({rows, room}) = rows
    BY <1>11, <1>12, <1>13
  <2>2. rows \in Nat
    BY <1>9
  <2>3. Max({0, rows}) = IF 0 >= rows THEN 0 ELSE rows
    BY <2>2, MaxOfTwo
  <2>4. Max({0, rows}) = rows
    BY <2>2, <2>3
  <2>5. QED
    BY <1>10, <2>1, <2>4
<1>14. QED
  BY <1>6, <1>7, <1>13 DEF rows

LEMMA GreenDay ==
  ASSUME NEW day, Cardinality(CyclesOn(day)) \in Nat, DayStatus(day) = "green"
  PROVE  /\ 100 * Cardinality(CyclesOn(day)) >= 85 * DayTicks
         /\ \A t \in errors : DayOf(t) # day
<1> DEFINE n == Cardinality(CyclesOn(day))
           q == (100 * n) \div DayTicks
<1>1. DayTicks \in Nat /\ DayTicks >= 1
  BY MonitoringConstants
<1>2. DayStatus(day) =
        IF (\E t \in errors : DayOf(t) = day) \/ Min({100, q}) < 50 THEN "red"
        ELSE IF Min({100, q}) < 85 THEN "yellow" ELSE "green"
  BY DEF DayStatus
<1>3. ~ (\E t \in errors : DayOf(t) = day) /\ ~(Min({100, q}) < 85)
  BY <1>2
<1> HIDE DEF n
<1>4. n \in Nat
  BY DEF n
<1>5. q \in Int /\ DayTicks * q <= 100 * n
  BY <1>1, <1>4
<1> HIDE DEF q
<1>6. q >= 85
  BY <1>3, <1>5, MinOfTwo
<1>7. \A a \in Int, d \in Nat : a >= 85 => d * a >= 85 * d
  <2> SUFFICES ASSUME NEW a \in Int, NEW d \in Nat, a >= 85 PROVE d * a >= 85 * d
    OBVIOUS
  <2>1. \A x, y \in Int : x >= 0 /\ y >= 0 => x * y >= 0
    OBVIOUS
  <2>2. d * (a - 85) >= 0
    BY <2>1
  <2>3. d * (a - 85) = d * a - 85 * d
    OBVIOUS
  <2>4. QED
    BY <2>2, <2>3
<1>8. DayTicks * q >= 85 * DayTicks /\ DayTicks * q \in Int
  BY <1>1, <1>5, <1>6, <1>7
<1>9. 100 * n >= 85 * DayTicks
  BY <1>1, <1>4, <1>5, <1>8
<1>10. QED
  BY <1>3, <1>9 DEF n

(* What the record of a day says of it.                                    *)
Reported(r, cycles, since, made) ==
  /\ r.cycles = Cardinality(cycles)
  /\ PerCycle * Cardinality(since) <= RowLimit => r.predictions = PerCycle * Cardinality(made)
  /\ r.status = "green" =>
       /\ 100 * Cardinality(cycles) >= 85 * DayTicks
       /\ \A t \in errors : DayOf(t) # r.day

LEMMA DayIsOver ==
  ASSUME CyclesOnRecord, RowsAreScored, DateIsOfRow, DayOver
  PROVE  /\ lastDate \in Nat /\ lastDate < DayOf(tick)
         /\ RolledUp(lastDate).day = lastDate /\ RolledUp(lastDate).at = tick
         /\ Reported(RolledUp(lastDate), CyclesOn(lastDate), Since(lastDate), PredictedOn(lastDate))
         /\ Advised(RolledUp(lastDate).advice, CyclesOn(lastDate))
<1>1. tick \in Nat /\ \A t \in DOMAIN safety : t \in Nat /\ t < tick
  BY RowsOfTicks DEF CyclesOnRecord, Traces
<1>2. PICK s \in DOMAIN safety : DayOf(s) = lastDate
  BY DEF DateIsOfRow, DayOver
<1>3. lastDate \in Nat /\ DayOf(tick) \in Nat /\ lastDate <= DayOf(tick)
  BY <1>1, <1>2, DayFacts
<1>4. lastDate < DayOf(tick)
  BY <1>3 DEF DayOver
<1> DEFINE S == CyclesOn(lastDate)
           r == RolledUp(lastDate)
<1>5. S \subseteq DOMAIN safety /\ S # {} /\ IsFiniteSet(S)
  <2>1. S \subseteq DOMAIN safety /\ s \in S
    BY <1>2 DEF CyclesOn
  <2>2. QED
    BY <2>1, RowsOfTicks, FS_Subset
<1>6. /\ r.day = lastDate /\ r.at = tick /\ r.cycles = Cardinality(S)
      /\ r.predictions = NewestRowsOf(lastDate)
      /\ r.status = DayStatus(lastDate) /\ r.advice = Recommendation(Mean(S))
  BY DEF RolledUp, MeanOfDay
<1> HIDE DEF S, r
<1>7. Cardinality(S) \in Nat
  BY <1>5, FS_CardinalityType
<1>8. PerCycle * Cardinality(Since(lastDate)) <= RowLimit
        => r.predictions = PerCycle * Cardinality(PredictedOn(lastDate))
  BY <1>3, <1>4, <1>6, RowsFit DEF RowsOn
<1>9. r.status = "green" =>
        /\ 100 * Cardinality(S) >= 85 * DayTicks
        /\ \A t \in errors : DayOf(t) # r.day
  BY <1>6, <1>7, GreenDay DEF S
<1>10. Reported(r, S, Since(lastDate), PredictedOn(lastDate))
  BY <1>6, <1>8, <1>9 DEF Reported
<1>11. Advised(r.advice, S)
  BY <1>5, <1>6, AdviceFits
<1>12. QED
  BY <1>3, <1>4, <1>6, <1>10, <1>11 DEF S, r

LEMMA DaysStart == MonitoringInit => DaysInv
<1> SUFFICES ASSUME MonitoringInit PROVE DaysInv
  OBVIOUS
<1>1. ReadinessInv
  BY ReadinessStarts
<1>2. DOMAIN safety = {} /\ lastDate = None /\ metric = None
  BY DEF MonitoringInit
<1>3. QED
  BY <1>1, <1>2 DEF ReadinessInv, DaysInv, RowsAreScored, DateIsOfRow, MetricIsPast,
                    DayIsReported, DayIsCounted, AdviceIsOfTheDay

(* The record of a past day stays true while later rows and errors arrive. *)
LEMMA RecordStands ==
  ASSUME CyclesOnRecord, MetricIsPast, DayIsReported, metric # None, metric' = metric,
         errors' \in {errors, errors \cup {tick}},
         predicted' \in {predicted, predicted \cup {tick}},
         \/ UNCHANGED safety
         \/ /\ DOMAIN safety' = DOMAIN safety \cup {tick}
            /\ \A t \in DOMAIN safety : safety'[t] = safety[t]
  PROVE  DayIsReported'
<1> DEFINE day == metric.day
<1>1. /\ tick \in Nat /\ day \in Nat /\ metric.at \in Nat /\ metric.at < tick
      /\ \A t \in DOMAIN safety : t \in Nat /\ t < tick
  BY RowsOfTicks DEF CyclesOnRecord, MetricIsPast, Traces
<1>2. PICK s \in DOMAIN safety : DayOf(s) > day
  BY DEF DayIsReported, DayIsCounted
<1>3. DayOf(tick) # day
  <2>1. DayOf(s) \in Nat /\ DayOf(tick) \in Nat /\ DayOf(s) <= DayOf(tick)
    BY <1>1, <1>2, DayFacts
  <2>2. QED
    BY <1>1, <1>2, <2>1
<1>4. /\ {t \in DOMAIN safety' : DayOf(t) = day} = {t \in DOMAIN safety : DayOf(t) = day}
      /\ \A t \in DOMAIN safety : safety'[t] = safety[t]
      /\ s \in DOMAIN safety'
  BY <1>3
<1>5. {t \in DOMAIN safety' : DayOf(t) > day} # {}
  BY <1>2, <1>4
<1>6. (\A t \in errors : DayOf(t) # day) => (\A t \in errors' : DayOf(t) # day)
  BY <1>3
<1>7. {safety'[t].status : t \in {t \in DOMAIN safety' : DayOf(t) = day}}
        = {safety[t].status : t \in {t \in DOMAIN safety : DayOf(t) = day}}
  BY <1>4
<1>8. {t \in predicted' : DayOf(t) = day} = {t \in predicted : DayOf(t) = day}
  BY <1>3
<1>9. {t \in predicted' : DayOf(t) >= day /\ t <= metric.at}
        = {t \in predicted : DayOf(t) >= day /\ t <= metric.at}
  <2>1. ~(tick <= metric.at)
    BY <1>1
  <2>2. QED
    BY <2>1
<1>10. DayIsCounted'
  BY <1>4, <1>5, <1>6, <1>8, <1>9 DEF DayIsReported, DayIsCounted, CyclesOn, PredictedOn
<1>11. AdviceIsOfTheDay'
  BY <1>7 DEF DayIsReported, AdviceIsOfTheDay, CyclesOn
<1>12. QED
  BY <1>10, <1>11 DEF DayIsReported

LEMMA DaysStand ==
  ASSUME DaysInv, CyclesOnRecord', metric' = metric, tick' \in Nat, tick' >= tick,
         errors' \in {errors, errors \cup {tick}},
         predicted' \in {predicted, predicted \cup {tick}},
         \/ UNCHANGED safety
         \/ /\ DOMAIN safety' = DOMAIN safety \cup {tick}
            /\ \A t \in DOMAIN safety : safety'[t] = safety[t]
  PROVE  MetricIsPast' /\ DayIsReported'
<1>1. tick \in Nat /\ CyclesOnRecord /\ MetricIsPast /\ DayIsReported
  BY DEF DaysInv, CyclesOnRecord
<1>2. MetricIsPast'
  BY <1>1 DEF MetricIsPast
<1>3. CASE metric = None
  BY <1>2, <1>3 DEF DayIsReported, DayIsCounted, AdviceIsOfTheDay
<1>4. CASE metric # None
  BY <1>1, <1>2, <1>4, RecordStands
<1>5. QED
  BY <1>3, <1>4

(* The day is rolled up in a cycle of a later one.                         *)
LEMMA DayIsRolled ==
  ASSUME CyclesOnRecord, RowsAreScored, DateIsOfRow, CycleLeaves, DayOver,
         metric' = RolledUp(lastDate), NEW market \in Markets, Observed(market)
  PROVE  MetricIsPast' /\ DayIsReported'
<1>1. /\ tick \in Nat /\ tick' = tick + 1
      /\ \A t \in DOMAIN safety : t \in Nat /\ t < tick
      /\ \A t \in predicted : t \in Nat /\ t < tick
  BY RowsOfTicks DEF CyclesOnRecord, CycleLeaves, Traces
<1>2. /\ DOMAIN safety' = DOMAIN safety \cup {tick}
      /\ \A t \in DOMAIN safety : safety'[t] = safety[t]
      /\ predicted' = predicted \cup {tick}
  BY <1>1 DEF Observed
<1>3. /\ lastDate \in Nat /\ lastDate < DayOf(tick) /\ DayOf(tick) \in Nat
      /\ RolledUp(lastDate).day = lastDate /\ RolledUp(lastDate).at = tick
      /\ Reported(RolledUp(lastDate), CyclesOn(lastDate), Since(lastDate), PredictedOn(lastDate))
      /\ Advised(RolledUp(lastDate).advice, CyclesOn(lastDate))
  BY <1>1, DayIsOver, DayFacts
<1>4. /\ metric'.day = lastDate /\ metric'.at = tick
      /\ Reported(metric', CyclesOn(lastDate), Since(lastDate), PredictedOn(lastDate))
      /\ Advised(metric'.advice, CyclesOn(lastDate))
  BY <1>3
<1>5. {t \in DOMAIN safety' : DayOf(t) = lastDate} = CyclesOn(lastDate)
  BY <1>2, <1>3 DEF CyclesOn
<1>6. {t \in DOMAIN safety' : DayOf(t) > lastDate} # {}
  BY <1>2, <1>3
<1>7. {t \in predicted' : DayOf(t) = lastDate} = PredictedOn(lastDate)
  BY <1>2, <1>3 DEF PredictedOn
<1>8. {t \in predicted' : DayOf(t) >= lastDate /\ t <= tick} = Since(lastDate)
  BY <1>1, <1>2 DEF Since
<1>9. (\A t \in errors : DayOf(t) # lastDate) => (\A t \in errors' : DayOf(t) # lastDate)
  BY <1>3 DEF CycleLeaves
<1>10. DayIsCounted'
  BY <1>4, <1>5, <1>6, <1>7, <1>8, <1>9 DEF DayIsCounted, Reported, CyclesOn, PredictedOn
<1>11. {safety'[t].status : t \in {t \in DOMAIN safety' : DayOf(t) = lastDate}}
         = {safety[t].status : t \in CyclesOn(lastDate)}
  BY <1>2, <1>5 DEF CyclesOn
<1>12. AdviceIsOfTheDay'
  BY <1>4, <1>11 DEF AdviceIsOfTheDay, Advised, CyclesOn
<1>13. MetricIsPast'
  BY <1>1, <1>3, <1>4 DEF MetricIsPast
<1>14. QED
  BY <1>10, <1>12, <1>13 DEF DayIsReported

LEMMA CycleDays == DaysInv /\ CycleLeaves => DaysInv'
<1> SUFFICES ASSUME DaysInv, CycleLeaves PROVE DaysInv'
  OBVIOUS
<1>1. /\ tick \in Nat /\ \A t \in DOMAIN safety : t \in Nat /\ t < tick
      /\ CyclesOnRecord /\ RowsAreScored /\ DateIsOfRow /\ MetricIsPast /\ DayIsReported
  BY RowsOfTicks DEF DaysInv, CyclesOnRecord, Traces
<1>2. /\ tick' = tick + 1
      /\ errors' \in {errors, errors \cup {tick}}
      /\ predicted' \in {predicted, predicted \cup {tick}}
  BY DEF CycleLeaves
<1>3. CyclesOnRecord'
  BY <1>1, TracesGrow
<1>4. CASE safety' = safety /\ UNCHANGED <<lastDate, metric>>
  <2>1. RowsAreScored' /\ DateIsOfRow'
    BY <1>1, <1>4 DEF RowsAreScored, DateIsOfRow
  <2>2. MetricIsPast' /\ DayIsReported'
    BY <1>1, <1>2, <1>3, <1>4, DaysStand
  <2>3. QED
    BY <1>3, <2>1, <2>2 DEF DaysInv
<1>5. ASSUME NEW market \in Markets, Observed(market),
             \/ UNCHANGED <<lastDate, metric>>
             \/ /\ lastDate' = DayOf(tick)
                /\ metric' = metric \/ (DayOver /\ metric' = RolledUp(lastDate))
      PROVE  DaysInv'
  <2>1. /\ DOMAIN safety' = DOMAIN safety \cup {tick}
        /\ safety'[tick] = GlobalRow(market)
        /\ \A t \in DOMAIN safety : safety'[t] = safety[t]
    BY <1>1, <1>5 DEF Observed
  <2>2. RowsAreScored'
    BY <1>1, <2>1, MarketScore DEF RowsAreScored
  <2>3. DateIsOfRow'
    BY <1>1, <1>5, <2>1 DEF DateIsOfRow
  <2>4. CASE metric' = metric
    <3>1. MetricIsPast' /\ DayIsReported'
      BY <1>1, <1>2, <1>3, <2>1, <2>4, DaysStand
    <3>2. QED
      BY <1>3, <2>2, <2>3, <3>1 DEF DaysInv
  <2>5. CASE DayOver /\ metric' = RolledUp(lastDate)
    <3>1. MetricIsPast' /\ DayIsReported'
      BY <1>1, <1>5, <2>5, DayIsRolled
    <3>2. QED
      BY <1>3, <2>2, <2>3, <3>1 DEF DaysInv
  <2>6. QED
    BY <1>5, <2>4, <2>5
<1>6. QED
  BY <1>4, <1>5 DEF CycleLeaves

LEMMA DaysSteps ==
  DaysInv /\ ReadinessInv /\ [MonitoringNext]_monitoringVars => DaysInv'
<1> SUFFICES ASSUME DaysInv, ReadinessInv, [MonitoringNext]_monitoringVars PROVE DaysInv'
  OBVIOUS
<1>1. CASE MonitorCycle \/ MonitorFails
  BY <1>1, CyclesLeave, CycleDays
<1>2. CASE IdleTick \/ RestartMonitor \/ UNCHANGED monitoringVars
  <2>1. tick \in Nat /\ RowsAreScored /\ DateIsOfRow
    BY DEF DaysInv, CyclesOnRecord
  <2>2. CyclesOnRecord'
    BY ReadinessSteps DEF ReadinessInv
  <2>3. /\ UNCHANGED <<safety, metric, errors, predicted>> /\ lastDate' \in {lastDate, None}
        /\ tick' \in Nat /\ tick' >= tick
    BY <1>2, <2>1 DEF IdleTick, RestartMonitor, monitoringVars
  <2>4. RowsAreScored' /\ DateIsOfRow'
    BY <2>1, <2>3 DEF RowsAreScored, DateIsOfRow
  <2>5. MetricIsPast' /\ DayIsReported'
    BY <2>2, <2>3, DaysStand
  <2>6. QED
    BY <2>2, <2>4, <2>5 DEF DaysInv
<1>3. QED
  BY <1>1, <1>2 DEF MonitoringNext

(* The record and the report of a day are about that whole day, and speak  *)
(* as its rows do (_day_rollover, roll_up_day, _recommendation), for every *)
(* length of the day and of the queries, any markets, gaps, failing cycles *)
(* and restarts.                                                           *)
THEOREM DaysReported == MonitoringSpec => []DayIsReported
<1>1. DaysInv => DayIsReported
  BY DEF DaysInv
<1>2. QED
  BY <1>1, ReadinessStarts, ReadinessSteps, DaysStart, DaysSteps, PTL DEF MonitoringSpec
=============================================================================
