--------------------------- MODULE OperationsProofs ---------------------------
(***************************************************************************)
(* Theorems about what runs the observatory: the processes with their lock *)
(* and their rows, the desk that places orders, the log on its way to the  *)
(* collector, the pages read meanwhile, and the outer loop with its waits  *)
(* and its warm-ups; each for every value of its constants.                *)
(***************************************************************************)
EXTENDS Supervision, Orders, RemoteLog, Dashboard, RunLoop, NumberProofs, SequenceTheorems

-----------------------------------------------------------------------------
(* The processes, the lock and the runs.                                   *)

(* A process in the care of the lock: on its way to it, or holding it.     *)
InCare(p) == at[p] \in Claiming \/ Holds(p)

(* A process has a pid while it lives, and has it alone.                   *)
PidsAreOwn ==
  /\ \A p \in Procs : Alive(p) <=> pid[p] \in Pids
  /\ \A p, q \in Procs : pid[p] = pid[q] /\ pid[p] \in Pids => p = q

(* Without a race one process at a time is in the care of the lock, and    *)
(* the file names the one that holds it.                                   *)
LockIsHeld ==
  /\ \A p \in Procs : at[p] \in Claiming \cup {"acquiring", "releasing"} => p \in Guarded
  /\ ~raced => \A p, q \in Procs : InCare(p) /\ InCare(q) => p = q
  /\ ~raced => \A p \in Procs : Holds(p) => lockFile = pid[p]

(* A run belongs to a process that started it: running under its pid, or   *)
(* past its last beat.                                                     *)
OwnedBy(row) ==
  /\ at[row.owner] \in {"running", "stopped", "releasing", "gone"}
  /\ at[row.owner] = "running" => row.status = "running" /\ pid[row.owner] = row.pid
  /\ at[row.owner] = "gone" => row.beat <= died[row.owner]
  /\ row.beat <= moment
RowsAreOwned == \A r \in DOMAIN runs : OwnedBy(runs[r])

SupervisionInv == SupervisionTypeOK /\ PidsAreOwn /\ LockIsHeld /\ RowsAreOwned

SupervisionPlaces ==
  {"unborn", "acquiring", "stopped", "releasing", "gone"} \cup Claiming \cup Observing

(* What the steps have in common: a process gets no pid and loses none,    *)
(* or it goes; and who may, is in the lock's care.                         *)
Moves(p) ==
  \/ LookAtLock(p) \/ EmptyLockFile(p) \/ WriteLockFile(p) \/ SelectRunning(p)
  \/ MarkCrashed(p) \/ StartBotRun(p) \/ StopBotRun(p) \/ FindOwnLock(p)
Ends(p) == RefuseToStart(p) \/ Exit(p) \/ Unlink(p) \/ KillProcess(p)

LEMMA SupervisionSteps ==
  ASSUME [SupervisionNext]_supervisionVars
  PROVE  \/ \E p \in Procs : Launch(p) \/ Moves(p) \/ Heartbeat(p) \/ Ends(p)
         \/ TimePasses \/ UNCHANGED supervisionVars
BY DEF SupervisionNext, Moves, Ends

LEMMA MovesAt ==
  ASSUME SupervisionInv, NEW p \in Procs, Moves(p)
  PROVE  /\ UNCHANGED <<moment, pid, died>>
         /\ at[p] \in SupervisionPlaces \ {"unborn", "gone"}
         /\ \E place \in SupervisionPlaces \ {"unborn", "gone"} : at' = [at EXCEPT ![p] = place]
<1> USE DEF SupervisionPlaces, Claiming, Observing, Goes
<1>1. CASE LookAtLock(p) \/ EmptyLockFile(p) \/ WriteLockFile(p)
  BY <1>1 DEF LookAtLock, EmptyLockFile, WriteLockFile
<1>2. CASE SelectRunning(p) \/ MarkCrashed(p)
  BY <1>2 DEF SelectRunning, MarkCrashed
<1>3. CASE StartBotRun(p) \/ FindOwnLock(p)
  BY <1>3 DEF StartBotRun, FindOwnLock
<1>4. CASE StopBotRun(p)
  BY <1>4 DEF StopBotRun, OwnRun
<1>5. QED
  BY <1>1, <1>2, <1>3, <1>4 DEF Moves

LEMMA EndsAt ==
  ASSUME SupervisionInv, NEW p \in Procs, Ends(p)
  PROVE  /\ Leaves(p) /\ UNCHANGED <<moment, runs, raced>>
         /\ Alive(p)
BY DEF Ends, Leaves, RefuseToStart, Exit, Unlink, KillProcess, Alive

LEMMA SupervisionShapes ==
  ASSUME SupervisionInv
  PROVE  /\ at \in [Procs -> SupervisionPlaces]
         /\ pid \in [Procs -> Pids \cup {NoPid}]
         /\ died \in [Procs -> 0..LastMoment]
         /\ moment \in 0..LastMoment
         /\ runs \in Seq(RunRows)
         /\ \A r \in DOMAIN runs : /\ runs[r] \in RunRows /\ OwnedBy(runs[r])
                                  /\ runs[r].owner \in Procs /\ runs[r].pid \in Pids
                                  /\ runs[r].beat \in 0..LastMoment
<1> USE DEF SupervisionInv, SupervisionTypeOK
<1>1. /\ at \in [Procs -> SupervisionPlaces]
      /\ pid \in [Procs -> Pids \cup {NoPid}]
      /\ died \in [Procs -> 0..LastMoment]
      /\ moment \in 0..LastMoment
  BY DEF SupervisionPlaces
<1>2. runs \in Seq(RunRows) /\ \A r \in DOMAIN runs : runs[r] \in RunRows /\ OwnedBy(runs[r])
  BY DEF RowsAreOwned
<1>3. \A row \in RunRows : row.owner \in Procs /\ row.pid \in Pids /\ row.beat \in 0..LastMoment
  BY DEF RunRows
<1>4. QED
  BY <1>1, <1>2, <1>3

LEMMA ChangedRows ==
  ASSUME NEW row \in RunRows, NEW status \in Statuses
  PROVE  /\ WithStatus(row, status) =
              [owner |-> row.owner, pid |-> row.pid, status |-> status, beat |-> row.beat]
         /\ Beaten(row) =
              [owner |-> row.owner, pid |-> row.pid, status |-> "running", beat |-> moment]
<1>1. [row EXCEPT !.status = status] =
        [owner |-> row.owner, pid |-> row.pid, status |-> status, beat |-> row.beat]
  BY DEF RunRows
<1> DEFINE q == [row EXCEPT !.beat = moment]
<1>2. q = [owner |-> row.owner, pid |-> row.pid, status |-> row.status, beat |-> moment]
  BY DEF RunRows
<1>3. [q EXCEPT !.status = "running"] =
        [owner |-> row.owner, pid |-> row.pid, status |-> "running", beat |-> moment]
  <2> HIDE DEF q
  <2>1. QED
    BY <1>2
<1>4. Beaten(row) = [q EXCEPT !.status = "running"]
  BY DEF Beaten, RunRows
<1>5. QED
  BY <1>1, <1>3, <1>4 DEF WithStatus

-----------------------------------------------------------------------------
LEMMA SupervisionInitEstablishes == SupervisionInit => SupervisionInv
<1> SUFFICES ASSUME SupervisionInit PROVE SupervisionInv
  OBVIOUS
<1>1. SupervisionTypeOK
  <2>1. runs \in Seq(RunRows) /\ found \in [Procs -> SUBSET DOMAIN runs]
    BY DEF SupervisionInit
  <2>2. moment \in 0..LastMoment /\ died \in [Procs -> 0..LastMoment] /\ raced \in BOOLEAN
    <3>1. 0 \in 0..LastMoment
      BY SupervisionAssumption
    <3>2. moment = 0 /\ died = [p \in Procs |-> 0] /\ raced = FALSE
      BY DEF SupervisionInit
    <3>3. QED
      BY <3>1, <3>2
  <2>3. /\ at \in [Procs -> SupervisionPlaces] /\ pid \in [Procs -> Pids \cup {NoPid}]
        /\ lockFile \in Pids \cup {NoPid, Blank}
    BY DEF SupervisionInit, SupervisionPlaces
  <2>4. QED
    BY <2>1, <2>2, <2>3 DEF SupervisionTypeOK, SupervisionPlaces
<1>2. PidsAreOwn
  BY SupervisionAssumption DEF SupervisionInit, PidsAreOwn, Alive
<1>3. LockIsHeld /\ RowsAreOwned
  BY DEF SupervisionInit, LockIsHeld, RowsAreOwned, InCare, Holds, Claiming, Observing
<1>4. QED
  BY <1>1, <1>2, <1>3 DEF SupervisionInv

LEMMA PidsStayOwn ==
  ASSUME SupervisionInv, [SupervisionNext]_supervisionVars
  PROVE  PidsAreOwn'
<1> USE SupervisionAssumption DEF SupervisionInv, SupervisionTypeOK, PidsAreOwn, Alive
<1>1. ASSUME NEW p \in Procs, Launch(p) PROVE PidsAreOwn'
  BY <1>1 DEF Launch, Goes
<1>2. ASSUME NEW p \in Procs, Moves(p) PROVE PidsAreOwn'
  BY <1>2, MovesAt
<1>3. ASSUME NEW p \in Procs, Ends(p) PROVE PidsAreOwn'
  BY <1>3, EndsAt, SMTT(40) DEF Leaves, Goes
<1>4. ASSUME UNCHANGED <<at, pid>> PROVE PidsAreOwn'
  BY <1>4
<1>5. QED
  BY <1>1, <1>2, <1>3, <1>4, SupervisionSteps DEF Heartbeat, TimePasses, supervisionVars

LEMMA LockStaysHeld ==
  ASSUME SupervisionInv, [SupervisionNext]_supervisionVars
  PROVE  LockIsHeld'
<1> USE DEF SupervisionInv, SupervisionTypeOK, LockIsHeld, InCare, Holds, Claiming, Observing
<1>1. ASSUME NEW p \in Procs, Launch(p) PROVE LockIsHeld'
  BY <1>1 DEF Launch, Goes
<1>2. ASSUME NEW p \in Procs, LookAtLock(p) PROVE LockIsHeld'
  <2>1. ASSUME NEW q \in Procs, ~raced, Holds(q) PROVE FALSE
    <3>1. Alive(q) /\ lockFile = pid[q] /\ q # p
      BY <1>2, <2>1 DEF Alive, LookAtLock
    <3>2. lockFile \in Pids /\ PidAlive(lockFile) /\ lockFile # pid[p]
      BY <3>1, <1>2 DEF PidsAreOwn, PidAlive
    <3>3. QED
      BY <3>2, <1>2 DEF LookAtLock, LockIsOthers
  <2>2. QED
    BY <1>2, <2>1, ZenonT(60) DEF LookAtLock, Goes
<1>3. ASSUME NEW p \in Procs, EmptyLockFile(p) \/ WriteLockFile(p) PROVE LockIsHeld'
  BY <1>3, SMTT(40) DEF EmptyLockFile, WriteLockFile, Goes
<1>4. ASSUME NEW p \in Procs, SelectRunning(p) \/ MarkCrashed(p) \/ StartBotRun(p)
                                \/ StopBotRun(p) \/ FindOwnLock(p)
      PROVE  LockIsHeld'
  BY <1>4 DEF SelectRunning, MarkCrashed, StartBotRun, StopBotRun, FindOwnLock, OwnRun, Goes
<1>5. ASSUME NEW p \in Procs, Unlink(p) PROVE LockIsHeld'
  BY <1>5 DEF Unlink, Leaves, Goes
<1>6. ASSUME NEW p \in Procs, RefuseToStart(p) \/ Exit(p) \/ KillProcess(p) PROVE LockIsHeld'
  <2>1. /\ at' = [at EXCEPT ![p] = "gone"] /\ pid' = [pid EXCEPT ![p] = NoPid]
        /\ UNCHANGED <<lockFile, raced>>
    BY <1>6 DEF RefuseToStart, Exit, KillProcess, Leaves, Goes
  <2>2. \A q \in Procs : InCare(q)' => q # p /\ InCare(q)
    BY <2>1
  <2>3. \A q \in Procs : Holds(q)' => q # p /\ Holds(q)
    BY <2>1
  <2>4. \A q \in Procs \ {p} : pid'[q] = pid[q]
    BY <2>1
  <2>5. QED
    BY <2>1, <2>2, <2>3, <2>4
<1>7. ASSUME UNCHANGED <<at, pid, lockFile, raced>> PROVE LockIsHeld'
  BY <1>7
<1>8. QED
  BY <1>1, <1>2, <1>3, <1>4, <1>5, <1>6, <1>7, SupervisionSteps
     DEF Moves, Ends, Heartbeat, TimePasses, supervisionVars

LEMMA RowsStayOwned ==
  ASSUME SupervisionInv, [SupervisionNext]_supervisionVars
  PROVE  RowsAreOwned' /\ runs' \in Seq(RunRows)
<1> USE SupervisionAssumption
<1>a. /\ runs \in Seq(RunRows) /\ at \in [Procs -> SupervisionPlaces]
      /\ pid \in [Procs -> Pids \cup {NoPid}] /\ died \in [Procs -> 0..LastMoment]
      /\ moment \in 0..LastMoment
      /\ \A r \in DOMAIN runs : runs[r] \in RunRows /\ OwnedBy(runs[r])
                               /\ runs[r].owner \in Procs /\ runs[r].pid \in Pids
                               /\ runs[r].beat \in 0..LastMoment
  BY SupervisionShapes
<1>1. ASSUME NEW p \in Procs, Launch(p) PROVE RowsAreOwned' /\ runs' \in Seq(RunRows)
  <2>1. \A r \in DOMAIN runs : runs[r].owner # p
    BY <1>1, <1>a DEF Launch, OwnedBy
  <2>2. ASSUME NEW q \in Procs \ {p} PROVE at'[q] = at[q] /\ pid'[q] = pid[q]
    BY <1>1 DEF Launch, Goes
  <2>3. QED
    BY <1>1, <1>a, <2>1, <2>2 DEF Launch, RowsAreOwned, OwnedBy
<1>2. ASSUME NEW p \in Procs, \/ LookAtLock(p) \/ EmptyLockFile(p) \/ WriteLockFile(p)
                             \/ SelectRunning(p) \/ FindOwnLock(p)
      PROVE  RowsAreOwned' /\ runs' \in Seq(RunRows)
  <2>1. UNCHANGED <<runs, pid, died, moment>>
    BY <1>2 DEF LookAtLock, EmptyLockFile, WriteLockFile, SelectRunning, FindOwnLock
  <2>2. ASSUME NEW q \in Procs
        PROVE  \/ at'[q] = at[q]
               \/ at[q] \in {"acquiring", "judged", "writing", "starting"}
                  /\ at'[q] \in {"judged", "writing", "starting", "sweeping"}
               \/ at[q] = "stopped" /\ at'[q] = "releasing"
    <3>1. \/ /\ at[p] \in {"acquiring", "judged", "writing", "starting"}
             /\ \E place \in {"judged", "writing", "starting", "sweeping"} :
                  at' = [at EXCEPT ![p] = place]
          \/ at[p] = "stopped" /\ at' = [at EXCEPT ![p] = "releasing"]
      BY <1>2 DEF LookAtLock, EmptyLockFile, WriteLockFile, SelectRunning, FindOwnLock, Goes
    <3>2. QED
      BY <3>1, <1>a
  <2>3. QED
    BY <1>a, <2>1, <2>2 DEF RowsAreOwned, OwnedBy
<1>3. ASSUME NEW p \in Procs, MarkCrashed(p) PROVE RowsAreOwned' /\ runs' \in Seq(RunRows)
  <2> DEFINE crashed(r) == [owner |-> runs[r].owner, pid |-> runs[r].pid,
                            status |-> "crashed", beat |-> runs[r].beat]
  <2>1. DOMAIN runs' = DOMAIN runs /\ UNCHANGED <<pid, moment, died>>
    BY <1>3, <1>a DEF MarkCrashed
  <2>2. ASSUME NEW r \in DOMAIN runs
        PROVE  \/ runs'[r] = runs[r]
               \/ Dangling(r) /\ runs'[r] = crashed(r)
    <3>1. WithStatus(runs[r], "crashed") = crashed(r)
      BY <1>a, ChangedRows DEF Statuses
    <3>2. runs'[r] = IF r \in found[p] /\ Dangling(r) THEN WithStatus(runs[r], "crashed") ELSE runs[r]
      BY <1>3 DEF MarkCrashed
    <3> HIDE DEF crashed
    <3>3. CASE r \in found[p] /\ Dangling(r)
      BY <3>1, <3>2, <3>3
    <3>4. CASE ~(r \in found[p] /\ Dangling(r))
      BY <3>2, <3>4
    <3>5. QED
      BY <3>3, <3>4
  <2>7. \A r \in DOMAIN runs : crashed(r) \in RunRows
    BY <1>a DEF RunRows, Statuses
  <2>8. runs' \in Seq(RunRows)
    <3> HIDE DEF crashed
    <3>1. \E n \in Nat : DOMAIN runs = 1..n
      BY <1>a
    <3>2. \A r \in DOMAIN runs : runs'[r] \in RunRows
      BY <1>a, <2>2, <2>7
    <3>3. runs' = [r \in DOMAIN runs |-> runs'[r]]
      BY <1>3, <2>1 DEF MarkCrashed
    <3>4. QED
      BY <2>1, <3>1, <3>2, <3>3
  <2>3. ASSUME NEW r \in DOMAIN runs, Dangling(r) PROVE at[runs[r].owner] # "running"
    BY <1>a, <2>3 DEF Dangling, PidAlive, OwnedBy, Alive
  <2>4. ASSUME NEW q \in Procs
        PROVE  at'[q] = at[q] \/ at[q] = "sweeping"
    BY <1>3 DEF MarkCrashed, Goes
  <2>5. ASSUME NEW r \in DOMAIN runs PROVE OwnedBy(runs[r])'
    <3>1. CASE runs'[r] = runs[r]
      BY <1>a, <3>1, <2>1, <2>4 DEF OwnedBy
    <3>2. CASE Dangling(r) /\ runs'[r] = crashed(r)
      <4>1. /\ crashed(r).owner = runs[r].owner /\ crashed(r).beat = runs[r].beat
            /\ crashed(r).pid = runs[r].pid
        OBVIOUS
      <4> HIDE DEF crashed
      <4>2. OwnedBy(runs[r]) /\ at[runs[r].owner] # "running"
        BY <1>a, <3>2, <2>3
      <4>3. at'[runs[r].owner] = at[runs[r].owner]
        BY <1>a, <2>4, <4>2 DEF OwnedBy
      <4>4. QED
        BY <3>2, <2>1, <4>1, <4>2, <4>3 DEF OwnedBy
    <3>3. QED
      BY <2>2, <3>1, <3>2
  <2>6. QED
    BY <2>1, <2>5, <2>8 DEF RowsAreOwned
<1>4. ASSUME NEW p \in Procs, StartBotRun(p) PROVE RowsAreOwned' /\ runs' \in Seq(RunRows)
  <2> DEFINE row == [owner |-> p, pid |-> pid[p], status |-> "running", beat |-> moment]
  <2>1. row \in RunRows
    <3>1. pid[p] \in Pids
      BY <1>4 DEF StartBotRun, PidsAreOwn, Alive, SupervisionInv
    <3>2. QED
      BY <1>a, <3>1 DEF RunRows, Statuses
  <2>2. runs' = Append(runs, row) /\ UNCHANGED <<pid, moment, died>> /\ at' = [at EXCEPT ![p] = "running"]
    BY <1>4 DEF StartBotRun, Goes
  <2>3. \A r \in DOMAIN runs : runs[r].owner # p
    BY <1>4, <1>a DEF StartBotRun, OwnedBy
  <2>4. runs' \in Seq(RunRows) /\ DOMAIN runs' = DOMAIN runs \cup {Len(runs) + 1}
        /\ runs'[Len(runs) + 1] = row /\ \A r \in DOMAIN runs : runs'[r] = runs[r]
    <3> HIDE DEF row
    <3>1. QED
      BY <1>a, <2>1, <2>2
  <2>5. OwnedBy(row)'
    <3>1. at'[p] = "running" /\ pid'[p] = pid[p] /\ moment' = moment /\ moment <= moment
      BY <1>a, <2>2
    <3>2. QED
      BY <3>1 DEF OwnedBy
  <2>6. ASSUME NEW r \in DOMAIN runs PROVE OwnedBy(runs[r])'
    BY <1>a, <2>2, <2>3, <2>4 DEF OwnedBy
  <2>7. QED
    <3> HIDE DEF row
    <3>1. row' = row
      BY <2>2 DEF row
    <3>2. ASSUME NEW r \in DOMAIN runs' PROVE OwnedBy(runs[r])'
      <4>1. CASE r = Len(runs) + 1
        <5>1. runs'[r] = row'
          BY <3>1, <4>1, <2>4
        <5>2. QED
          BY <5>1, <2>5 DEF OwnedBy
      <4>2. QED
        BY <4>1, <2>4, <2>6
    <3>3. QED
      BY <2>4, <3>2 DEF RowsAreOwned
<1>5. ASSUME NEW p \in Procs, Heartbeat(p) PROVE RowsAreOwned' /\ runs' \in Seq(RunRows)
  <2>1. PICK r \in DOMAIN runs :
          OwnRun(p, r) /\ runs' = [runs EXCEPT ![r] = Beaten(@)]
    BY <1>5 DEF Heartbeat
  <2> DEFINE row == [owner |-> runs[r].owner, pid |-> runs[r].pid, status |-> "running", beat |-> moment]
  <2>2. row \in RunRows
    BY <1>a DEF RunRows, Statuses
  <2>3. runs' = [runs EXCEPT ![r] = row]
    BY <1>a, <2>1, ChangedRows DEF Statuses
  <2>4. UNCHANGED <<at, pid, moment, died>>
    BY <1>5 DEF Heartbeat
  <2>5. /\ row.owner = runs[r].owner /\ row.pid = runs[r].pid /\ row.status = "running"
        /\ row.beat = moment /\ moment <= moment
    BY <1>a
  <2>6. QED
    <3>1. runs' \in Seq(RunRows) /\ DOMAIN runs' = DOMAIN runs
          /\ \A q \in DOMAIN runs : runs'[q] = IF q = r THEN row ELSE runs[q]
      <4> HIDE DEF row
      <4>1. QED
        BY <1>a, <2>2, <2>3
    <3>2. ASSUME NEW q \in DOMAIN runs PROVE OwnedBy(runs[q])'
      <4> HIDE DEF row
      <4>1. CASE q = r
        <5>1. runs'[q] = row /\ OwnedBy(runs[r]) /\ at[runs[r].owner] = "running"
          BY <1>a, <2>1, <3>1, <4>1 DEF OwnRun
        <5>2. QED
          BY <5>1, <2>4, <2>5 DEF OwnedBy
      <4>2. CASE q # r
        BY <1>a, <2>4, <3>1, <4>2 DEF OwnedBy
      <4>3. QED
        BY <4>1, <4>2
    <3>3. QED
      BY <3>1, <3>2 DEF RowsAreOwned
<1>6. ASSUME NEW p \in Procs, StopBotRun(p) PROVE RowsAreOwned' /\ runs' \in Seq(RunRows)
  <2>1. PICK r \in DOMAIN runs, final \in Finals :
          OwnRun(p, r) /\ runs' = [runs EXCEPT ![r] = WithStatus(@, final)]
    BY <1>6 DEF StopBotRun
  <2> DEFINE row == [owner |-> runs[r].owner, pid |-> runs[r].pid, status |-> final, beat |-> runs[r].beat]
  <2>2. row \in RunRows
    BY <1>a DEF RunRows, Statuses, Finals
  <2>3. runs' = [runs EXCEPT ![r] = row]
    BY <1>a, <2>1, ChangedRows DEF Statuses, Finals
  <2>4. UNCHANGED <<pid, moment, died>> /\ at' = [at EXCEPT ![p] = "stopped"] /\ at[p] = "running"
    BY <1>6, <2>1 DEF StopBotRun, Goes, OwnRun
  <2>5. row.owner = runs[r].owner /\ row.pid = runs[r].pid /\ row.beat = runs[r].beat
    OBVIOUS
  <2>6. QED
    <3>1. runs' \in Seq(RunRows) /\ DOMAIN runs' = DOMAIN runs
          /\ \A q \in DOMAIN runs : runs'[q] = IF q = r THEN row ELSE runs[q]
      <4> HIDE DEF row
      <4>1. QED
        BY <1>a, <2>2, <2>3
    <3>2. ASSUME NEW q \in DOMAIN runs PROVE OwnedBy(runs[q])'
      <4> HIDE DEF row
      <4>1. CASE runs[q].owner = p
        <5>1. at'[runs[q].owner] = "stopped" /\ OwnedBy(runs[q]) /\ runs'[q].owner = runs[q].owner
              /\ runs'[q].beat = runs[q].beat
          BY <1>a, <2>4, <2>5, <3>1, <4>1
        <5>2. QED
          BY <5>1, <2>4 DEF OwnedBy
      <4>2. CASE runs[q].owner # p
        <5>1. q # r /\ runs'[q] = runs[q] /\ at'[runs[q].owner] = at[runs[q].owner]
          BY <1>a, <2>1, <2>4, <3>1, <4>2 DEF OwnRun
        <5>2. QED
          BY <1>a, <5>1, <2>4 DEF OwnedBy
      <4>3. QED
        BY <4>1, <4>2
    <3>3. QED
      BY <3>1, <3>2 DEF RowsAreOwned
<1>7. ASSUME NEW p \in Procs, Ends(p) PROVE RowsAreOwned' /\ runs' \in Seq(RunRows)
  <2>1. /\ at' = [at EXCEPT ![p] = "gone"] /\ died' = [died EXCEPT ![p] = moment]
        /\ pid' = [pid EXCEPT ![p] = NoPid] /\ UNCHANGED <<runs, moment>>
    BY <1>7, EndsAt DEF Leaves, Goes
  <2>2. ASSUME NEW r \in DOMAIN runs PROVE OwnedBy(runs[r])'
    BY <1>a, <2>1 DEF OwnedBy
  <2>3. QED
    BY <1>a, <2>1, <2>2 DEF RowsAreOwned
<1>8. ASSUME TimePasses PROVE RowsAreOwned' /\ runs' \in Seq(RunRows)
  <2>1. UNCHANGED <<runs, at, pid, died>> /\ moment' >= moment
    BY <1>8, <1>a DEF TimePasses
  <2>2. ASSUME NEW r \in DOMAIN runs PROVE OwnedBy(runs[r])'
    BY <1>a, <1>8, <2>1 DEF OwnedBy, TimePasses
  <2>3. QED
    BY <1>a, <2>1, <2>2 DEF RowsAreOwned
<1>9. ASSUME UNCHANGED supervisionVars PROVE RowsAreOwned' /\ runs' \in Seq(RunRows)
  BY <1>9, <1>a DEF supervisionVars, RowsAreOwned, OwnedBy
<1>10. QED
  BY <1>1, <1>2, <1>3, <1>4, <1>5, <1>6, <1>7, <1>8, <1>9, SupervisionSteps DEF Moves

(* The clock, the places, the pids and the lock file.                      *)
LEMMA PlacesStayTyped ==
  ASSUME SupervisionInv, [SupervisionNext]_supervisionVars
  PROVE  /\ moment' \in 0..LastMoment /\ at' \in [Procs -> SupervisionPlaces]
         /\ pid' \in [Procs -> Pids \cup {NoPid}] /\ died' \in [Procs -> 0..LastMoment]
<1> USE SupervisionShapes
<1>1. ASSUME NEW p \in Procs, Launch(p)
      PROVE  /\ UNCHANGED <<moment, died>>
             /\ at' \in [Procs -> SupervisionPlaces] /\ pid' \in [Procs -> Pids \cup {NoPid}]
  <2>1. PICK i \in Pids : pid' = [pid EXCEPT ![p] = i]
    BY <1>1 DEF Launch
  <2>2. \E place \in SupervisionPlaces : at' = [at EXCEPT ![p] = place]
    BY <1>1 DEF Launch, Goes, SupervisionPlaces, Observing
  <2>3. QED
    BY <1>1, <2>1, <2>2 DEF Launch
<1>2. ASSUME NEW p \in Procs, Moves(p)
      PROVE  UNCHANGED <<moment, pid, died>> /\ at' \in [Procs -> SupervisionPlaces]
  BY <1>2, MovesAt
<1>3. ASSUME NEW p \in Procs, Ends(p)
      PROVE  /\ UNCHANGED moment /\ at' \in [Procs -> SupervisionPlaces]
             /\ pid' \in [Procs -> Pids \cup {NoPid}] /\ died' \in [Procs -> 0..LastMoment]
  BY <1>3, EndsAt, ZenonT(60) DEF Leaves, Goes, SupervisionPlaces
<1>4. ASSUME TimePasses PROVE UNCHANGED <<at, pid, died>> /\ moment' \in 0..LastMoment
  BY <1>4, SupervisionAssumption DEF TimePasses
<1>5. ASSUME NEW p \in Procs, Heartbeat(p) PROVE UNCHANGED <<moment, at, pid, died>>
  BY <1>5 DEF Heartbeat
<1>6. QED
  BY <1>1, <1>2, <1>3, <1>4, <1>5, SupervisionSteps DEF supervisionVars

LEMMA LockStaysTyped ==
  ASSUME SupervisionInv, [SupervisionNext]_supervisionVars
  PROVE  lockFile' \in Pids \cup {NoPid, Blank}
<1>1. lockFile \in Pids \cup {NoPid, Blank}
  BY DEF SupervisionInv, SupervisionTypeOK
<1>2. ASSUME NEW p \in Procs, WriteLockFile(p) PROVE lockFile' \in Pids \cup {NoPid, Blank}
  BY <1>2, SupervisionShapes DEF WriteLockFile
<1>3. ASSUME NEW p \in Procs, Moves(p), ~WriteLockFile(p)
      PROVE  lockFile' \in Pids \cup {NoPid, Blank}
  BY <1>1, <1>3 DEF Moves, LookAtLock, EmptyLockFile, SelectRunning, MarkCrashed, StartBotRun,
       StopBotRun, FindOwnLock
<1>4. ASSUME NEW p \in Procs, Ends(p) PROVE lockFile' \in Pids \cup {NoPid, Blank}
  BY <1>1, <1>4 DEF Ends, RefuseToStart, Exit, Unlink, KillProcess
<1>5. QED
  BY <1>1, <1>2, <1>3, <1>4, SupervisionSteps
     DEF Launch, Heartbeat, TimePasses, supervisionVars

(* No step shortens the table, and what a starting process has read is in  *)
(* it.                                                                     *)
LEMMA FoundStaysTyped ==
  ASSUME SupervisionInv, [SupervisionNext]_supervisionVars
  PROVE  found' \in [Procs -> SUBSET DOMAIN runs']
<1>1. found \in [Procs -> SUBSET DOMAIN runs] /\ runs \in Seq(RunRows)
  BY DEF SupervisionInv, SupervisionTypeOK
<1>2. ASSUME UNCHANGED <<found, runs>> PROVE found' \in [Procs -> SUBSET DOMAIN runs']
  BY <1>1, <1>2
<1>3. ASSUME NEW p \in Procs, SelectRunning(p) PROVE found' \in [Procs -> SUBSET DOMAIN runs']
  BY <1>1, <1>3 DEF SelectRunning, RunsRunning
<1>4. ASSUME NEW p \in Procs, MarkCrashed(p) PROVE found' \in [Procs -> SUBSET DOMAIN runs']
  <2>1. DOMAIN runs' = DOMAIN runs /\ found' = [found EXCEPT ![p] = {}]
    BY <1>4 DEF MarkCrashed
  <2>2. QED
    BY <1>1, <2>1
<1>5. ASSUME NEW p \in Procs, StartBotRun(p) PROVE found' \in [Procs -> SUBSET DOMAIN runs']
  <2>1. \A row : runs' = Append(runs, row) => DOMAIN runs \subseteq DOMAIN runs'
    BY <1>1
  <2>2. DOMAIN runs \subseteq DOMAIN runs' /\ found' = found
    BY <1>5, <2>1 DEF StartBotRun
  <2>3. QED
    BY <1>1, <2>2
<1>6. ASSUME NEW p \in Procs, Heartbeat(p) \/ StopBotRun(p)
      PROVE  found' \in [Procs -> SUBSET DOMAIN runs']
  <2>1. \A r \in DOMAIN runs : \A row : DOMAIN [runs EXCEPT ![r] = row] = DOMAIN runs
    OBVIOUS
  <2>2. DOMAIN runs' = DOMAIN runs /\ found' = found
    BY <1>6, <2>1 DEF Heartbeat, StopBotRun
  <2>3. QED
    BY <1>1, <2>2
<1>7. ASSUME NEW p \in Procs, Ends(p) PROVE found' \in [Procs -> SUBSET DOMAIN runs']
  BY <1>1, <1>7, EndsAt DEF Leaves
<1>8. QED
  BY <1>2, <1>3, <1>4, <1>5, <1>6, <1>7, SupervisionSteps
     DEF Launch, Moves, LookAtLock, EmptyLockFile, WriteLockFile, FindOwnLock, TimePasses,
         supervisionVars

LEMMA RacedStaysTyped ==
  ASSUME SupervisionInv, [SupervisionNext]_supervisionVars
  PROVE  raced' \in BOOLEAN
<1>1. raced \in BOOLEAN
  BY DEF SupervisionInv, SupervisionTypeOK
<1>2. ASSUME NEW p \in Procs, LookAtLock(p) PROVE raced' \in BOOLEAN
  BY <1>2 DEF LookAtLock
<1>3. ASSUME NEW p \in Procs, Moves(p), ~LookAtLock(p) PROVE raced' = raced
  BY <1>3 DEF Moves, EmptyLockFile, WriteLockFile, SelectRunning, MarkCrashed, StartBotRun,
       StopBotRun, FindOwnLock
<1>4. ASSUME NEW p \in Procs, Ends(p) PROVE raced' = raced
  BY <1>4, EndsAt
<1>5. QED
  BY <1>1, <1>2, <1>3, <1>4, SupervisionSteps
     DEF Launch, Heartbeat, TimePasses, supervisionVars

LEMMA SupervisionStepKeeps ==
  SupervisionInv /\ [SupervisionNext]_supervisionVars => SupervisionInv'
<1> SUFFICES ASSUME SupervisionInv, [SupervisionNext]_supervisionVars PROVE SupervisionInv'
  OBVIOUS
<1>1. SupervisionTypeOK'
  BY PlacesStayTyped, LockStaysTyped, FoundStaysTyped, RacedStaysTyped, RowsStayOwned
     DEF SupervisionTypeOK, SupervisionPlaces
<1>2. QED
  BY <1>1, PidsStayOwn, LockStaysHeld, RowsStayOwned DEF SupervisionInv

(* The places, pids and rows of every process keep to their owners, the    *)
(* lock file to its holder.                                                *)
THEOREM SupervisionInductive == SupervisionSpec => []SupervisionInv
BY SupervisionInitEstablishes, SupervisionStepKeeps, PTL DEF SupervisionSpec

(* Two processes hold the instance lock at once only after two were        *)
(* between look and write together.                                        *)
THEOREM LockHeldByOne == SupervisionSpec => []OneHolderUnlessRaced
<1>1. SupervisionInv => OneHolderUnlessRaced
  BY DEF SupervisionInv, LockIsHeld, OneHolderUnlessRaced, InCare
<1>2. QED
  BY <1>1, SupervisionInductive, PTL

-----------------------------------------------------------------------------
(* What the dashboard makes of the table.                                  *)

LEMMA LargestRun ==
  ASSUME NEW n \in Nat, NEW S \in SUBSET (1..n), S # {}
  PROVE  \E m \in S : \A s \in S : s <= m
<1>1. S \in SUBSET (0..n)
  OBVIOUS
<1>2. QED
  BY <1>1, LargestOf

LEMMA CurrentIsLargest ==
  ASSUME runs \in Seq(RunRows), NEW S \in SUBSET DOMAIN runs
  PROVE  /\ S # {} => CurrentOf(S) \in S
         /\ runs # <<>> => CurrentOf(S) \in DOMAIN runs
<1>1. DOMAIN runs = 1..Len(runs) /\ Len(runs) \in Nat /\ (runs # <<>> => Len(runs) \in 1..Len(runs))
  OBVIOUS
<1>2. ASSUME S # {} PROVE CurrentOf(S) \in S
  BY <1>1, <1>2, LargestRun DEF CurrentOf
<1>3. QED
  BY <1>1, <1>2 DEF CurrentOf

LEMMA LiveRunsRun ==
  ASSUME SupervisionInv
  PROVE  /\ LiveRunIsRunning
         /\ \A r \in DOMAIN runs :
              at[runs[r].owner] = "running" => r \in RunsRunning /\ PidAlive(runs[r].pid)
<1>1. \A r \in DOMAIN runs : OwnedBy(runs[r]) /\ runs[r].owner \in Procs
  BY SupervisionShapes
<1>2. QED
  BY <1>1 DEF LiveRunIsRunning, RunsRunning, PidAlive, Alive, OwnedBy

(* The newest run whose process lives has only dead ones among the newer   *)
(* running rows: fewer than the query's limit, so the query returns it.    *)
LEMMA LiveRunIsQueried ==
  ASSUME SupervisionInv, NEW o \in RunsRunning, PidAlive(runs[o].pid),
         Cardinality({r \in RunsRunning : ~PidAlive(runs[r].pid)}) < ShownRuns
  PROVE  \E r \in NewestRunning : PidAlive(runs[r].pid)
<1> DEFINE Living == {r \in RunsRunning : PidAlive(runs[r].pid)}
           Dead == {r \in RunsRunning : ~PidAlive(runs[r].pid)}
<1>1. DOMAIN runs = 1..Len(runs) /\ Len(runs) \in Nat
  BY SupervisionShapes
<1>2. Living \in SUBSET (1..Len(runs)) /\ Dead \in SUBSET (1..Len(runs)) /\ Living # {}
  BY <1>1 DEF RunsRunning
<1>3. PICK m \in Living : \A s \in Living : s <= m
  BY <1>1, <1>2, LargestRun
<1> DEFINE Later == {s \in RunsRunning : s > m}
<1>4. Later \in SUBSET Dead
  <2>1. \A s \in RunsRunning : s \in Int /\ m \in Int
    BY <1>1, <1>2 DEF RunsRunning
  <2>2. QED
    BY <1>3, <2>1
<1>5. IsFiniteSet(Dead)
  <2>1. IsFiniteSet(1..Len(runs))
    BY <1>1, FS_Interval
  <2>2. QED
    BY <1>2, <2>1, FS_Subset
<1>6. Cardinality(Later) <= Cardinality(Dead) /\ Cardinality(Later) \in Nat /\ Cardinality(Dead) \in Nat
  BY <1>4, <1>5, FS_Subset, FS_CardinalityType
<1>7. Cardinality(Later) < ShownRuns
  <2> HIDE DEF Later, Dead
  <2>1. Cardinality(Dead) < ShownRuns
    BY DEF Dead
  <2>2. QED
    BY <1>6, <2>1, SupervisionAssumption
<1>8. m \in NewestRunning /\ PidAlive(runs[m].pid)
  BY <1>3, <1>7 DEF NewestRunning
<1>9. QED
  BY <1>8

LEMMA LiveRunIsShown == SupervisionInv => LiveRunShown
<1> SUFFICES ASSUME SupervisionInv, NEW o \in DOMAIN runs, at[runs[o].owner] = "running",
                    Cardinality({r \in RunsRunning : ~PidAlive(runs[r].pid)}) < ShownRuns
             PROVE  runs[CurrentBotRun].status = "running" /\ PidAlive(runs[CurrentBotRun].pid)
  BY DEF LiveRunShown
<1> DEFINE Shown == {r \in NewestRunning : PidAlive(runs[r].pid)}
<1>1. Shown # {}
  BY LiveRunsRun, LiveRunIsQueried
<1>2. Shown \in SUBSET DOMAIN runs /\ \A r \in Shown : runs[r].status = "running" /\ PidAlive(runs[r].pid)
  BY DEF NewestRunning, RunsRunning
<1>3. CurrentOf(Shown) \in Shown
  <2> HIDE DEF Shown
  <2>1. QED
    BY <1>1, <1>2, CurrentIsLargest, SupervisionShapes
<1>4. QED
  BY <1>2, <1>3 DEF CurrentBotRun

LEMMA DeadRunIsStale == SupervisionInv => DeadRunFades
<1> SUFFICES ASSUME SupervisionInv, runs # <<>>, ObserverLive(CurrentBotRun),
                    at[runs[CurrentBotRun].owner] = "gone"
             PROVE  moment - died[runs[CurrentBotRun].owner] < StaleAfter
  BY DEF DeadRunFades
<1> DEFINE Shown == {r \in NewestRunning : PidAlive(runs[r].pid)}
           c == CurrentBotRun
<1>1. Shown \in SUBSET DOMAIN runs
  BY DEF NewestRunning, RunsRunning
<1>2. c \in DOMAIN runs
  <2>1. c = CurrentOf(Shown)
    BY DEF CurrentBotRun
  <2> HIDE DEF Shown, c
  <2>2. QED
    BY <1>1, <2>1, CurrentIsLargest, SupervisionShapes
<1>3. /\ runs[c].beat <= died[runs[c].owner] /\ moment - runs[c].beat < StaleAfter
      /\ runs[c].beat \in Int /\ died[runs[c].owner] \in Int /\ moment \in Int
  BY <1>2, SupervisionShapes DEF OwnedBy, ObserverLive
<1>4. QED
  <2> HIDE DEF c
  <2>1. StaleAfter \in Int
    BY SupervisionAssumption
  <2>2. moment - died[runs[c].owner] < StaleAfter
    BY <1>3, <2>1
  <2>3. QED
    BY <2>2 DEF c

(* A live observer's run is running and is shown while fewer dead runs     *)
(* than the query's limit are left, and a dead one's is live no longer     *)
(* than a beat takes to go stale.                                          *)
THEOREM RunsTruthful == SupervisionSpec => []RunsAreTruthful
<1>1. SupervisionInv => RunsAreTruthful
  BY LiveRunsRun, LiveRunIsShown, DeadRunIsStale DEF SupervisionInv, RunsAreTruthful
<1>2. QED
  BY <1>1, SupervisionInductive, PTL

-----------------------------------------------------------------------------
(* The desk: what reaches a broker or the book was allowed to, with every  *)
(* switch set, once per moment and process, and the two differ in number   *)
(* by lost answers only; for any intents, any width of a moment and any    *)
(* sequence of restarts, refusals, lost answers and account changes.       *)

Replies == {"none", "phrase", "other", "eof"}

(* What the desk may hold, and what an order and a fill remember of it.    *)
Proposals(places) ==
  [at : places, id : {OrderId(i, t) : i \in Intents, t \in Nat}, intent : Intents,
   made : Nat, killed : BOOLEAN, hold : BOOLEAN, reply : Replies]
DeskPlaces == {"proposed", "approved", "registered"}
Placed == [proposal : Proposals(DeskPlaces), life : Nat]
Booked == [proposal : Proposals(DeskPlaces), how : {"simulated", "broker"},
           price : {"market", "one"}, quantity : Nat]

OrdersTypeOK ==
  /\ setup \in Setups /\ account \in Accounts
  /\ second \in Nat /\ life \in Nat
  /\ client \in {"unbuilt", "none", "read", "trade"}
  /\ desk = Idle \/ desk \in Proposals(DeskPlaces)
  /\ orders \in Seq(Placed)
  /\ fills \in Seq(Booked) /\ held \in Nat
  /\ unheard \in Nat

(* The id of a proposal is that of its moment.                             *)
NamedByMoment == desk # Idle => desk.id = OrderId(desk.intent, desk.made)

Permitted(p) == ~p.killed /\ ~p.hold /\ (setup.manual => p.reply = "phrase")
PermittedOnly ==
  /\ desk.at \in {"approved", "registered"} => Permitted(desk)
  /\ \A i \in DOMAIN orders : Permitted(orders[i].proposal)
  /\ \A i \in DOMAIN fills : Permitted(fills[i].proposal)

(* A client that can trade was built with every switch set.                *)
SwitchesSet == setup.enabled /\ setup.network /\ setup.keys = "pair" /\ ~setup.readOnly
TraderIsSwitchedOn == client = "trade" => SwitchesSet

(* The registry knows every order of this life, and the proposal that has  *)
(* just been registered is of a moment none of them is of.                 *)
RegistryKnows ==
  /\ desk.at = "registered" => Moment(desk) \in seen
  /\ \A i \in DOMAIN orders :
       /\ orders[i].life <= life
       /\ orders[i].life = life =>
            /\ Moment(orders[i].proposal) \in seen
            /\ desk.at = "registered" => Moment(orders[i].proposal) # Moment(desk)

OrdersInv ==
  /\ OrdersTypeOK /\ NamedByMoment /\ PermittedOnly /\ TraderIsSwitchedOn
  /\ RegistryKnows /\ OneOrderPerMoment /\ OrdersNeedEverySwitch /\ BookedOrUnheard

-----------------------------------------------------------------------------
LEMMA MomentIsId ==
  ASSUME NEW p PROVE Moment(p) = OrderId(p.intent, p.made)
BY DEF Moment, OrderId

(* What an answer changes in a proposal.                                   *)
LEMMA AnsweredProposal ==
  ASSUME NEW p \in Proposals(DeskPlaces), NEW answer
  PROVE  [p EXCEPT !.at = "approved", !.reply = answer] =
           [at |-> "approved", id |-> p.id, intent |-> p.intent, made |-> p.made,
            killed |-> p.killed, hold |-> p.hold, reply |-> answer]
<1> DEFINE q == [p EXCEPT !.at = "approved"]
           r == [q EXCEPT !.reply = answer]
<1>1. q = [at |-> "approved", id |-> p.id, intent |-> p.intent, made |-> p.made,
           killed |-> p.killed, hold |-> p.hold, reply |-> p.reply]
  BY DEF Proposals
<1>2. r = [at |-> "approved", id |-> p.id, intent |-> p.intent, made |-> p.made,
           killed |-> p.killed, hold |-> p.hold, reply |-> answer]
  <2> HIDE DEF q
  <2>1. r = [q EXCEPT !.reply = answer]
    OBVIOUS
  <2> HIDE DEF r
  <2>2. QED
    BY <1>1, <2>1
<1>3. [p EXCEPT !.at = "approved", !.reply = answer] = r
  BY DEF Proposals
<1>4. QED
  BY <1>2, <1>3

(* How many fills are the broker's, when one more is booked.               *)
BrokerFills(f) == {i \in DOMAIN f : f[i].how = "broker"}
LEMMA OneMoreFill ==
  ASSUME NEW f \in Seq(Booked), NEW b \in Booked
  PROVE  /\ Cardinality(BrokerFills(f)) \in Nat
         /\ Cardinality(BrokerFills(Append(f, b))) =
              Cardinality(BrokerFills(f)) + (IF b.how = "broker" THEN 1 ELSE 0)
<1> DEFINE n == Len(f)
           g == Append(f, b)
<1>1. n \in Nat /\ DOMAIN f = 1..n /\ g \in Seq(Booked) /\ DOMAIN g = 1..(n + 1)
  OBVIOUS
<1>2. g[n + 1] = b /\ \A i \in 1..n : g[i] = f[i]
  OBVIOUS
<1>3. IsFiniteSet(BrokerFills(f))
  <2>1. IsFiniteSet(1..n)
    BY <1>1, FS_Interval
  <2>2. QED
    BY <2>1, <1>1, FS_Subset DEF BrokerFills
<1>4. Cardinality(BrokerFills(f)) \in Nat
  BY <1>3, FS_CardinalityType
<1>5. CASE b.how = "broker"
  <2>1. BrokerFills(g) = BrokerFills(f) \cup {n + 1}
    BY <1>1, <1>2, <1>5 DEF BrokerFills
  <2>2. n + 1 \notin BrokerFills(f)
    BY <1>1 DEF BrokerFills
  <2>3. QED
    BY <1>3, <1>4, <1>5, <2>1, <2>2, FS_AddElement
<1>6. CASE b.how # "broker"
  <2>1. BrokerFills(g) = BrokerFills(f)
    BY <1>1, <1>2, <1>6 DEF BrokerFills
  <2>2. QED
    BY <1>4, <1>6, <2>1
<1>7. QED
  BY <1>4, <1>5, <1>6

LEMMA BookedByCount ==
  BookedOrUnheard <=> Len(orders) = unheard + Cardinality(BrokerFills(fills))
BY DEF BookedOrUnheard, BrokerFills

-----------------------------------------------------------------------------
LEMMA OrdersInitEstablishes == OrdersInit => OrdersInv
<1> SUFFICES ASSUME OrdersInit PROVE OrdersInv
  OBVIOUS
<1> USE DEF OrdersInit
<1>1. OrdersTypeOK
  BY DEF OrdersTypeOK
<1>2. NamedByMoment /\ PermittedOnly /\ RegistryKnows
  BY DEF NamedByMoment, PermittedOnly, RegistryKnows, Idle
<1>3. TraderIsSwitchedOn /\ OneOrderPerMoment /\ OrdersNeedEverySwitch
  BY DEF TraderIsSwitchedOn, OneOrderPerMoment, OrdersNeedEverySwitch
<1>4. BookedOrUnheard
  <2>1. BrokerFills(fills) = {}
    BY DEF BrokerFills
  <2>2. Cardinality(BrokerFills(fills)) = 0
    BY <2>1, FS_EmptySet
  <2>3. Len(orders) = 0 /\ unheard = 0
    OBVIOUS
  <2>4. QED
    BY <2>2, <2>3 DEF BookedOrUnheard, BrokerFills
<1>5. QED
  BY <1>1, <1>2, <1>3, <1>4 DEF OrdersInv

(* Steps that leave orders, fills, lives and switches alone.               *)
Ledger == <<setup, life, orders, fills, unheard>>

LEMMA LedgerAlone ==
  ASSUME OrdersInv, UNCHANGED Ledger
  PROVE  /\ (OneOrderPerMoment /\ OrdersNeedEverySwitch /\ BookedOrUnheard)'
         /\ \A i \in DOMAIN orders' : Permitted(orders'[i].proposal)
         /\ \A i \in DOMAIN fills' : Permitted(fills'[i].proposal)
BY DEF OrdersInv, Ledger, OneOrderPerMoment, Moment, OrdersNeedEverySwitch,
       BookedOrUnheard, PermittedOnly, Permitted

LEMMA BuildKeeps == OrdersInv /\ BuildClient => OrdersInv'
<1> SUFFICES ASSUME OrdersInv, BuildClient PROVE OrdersInv'
  OBVIOUS
<1>1. UNCHANGED <<setup, account, second, life, seen, desk, orders, fills, held, unheard>>
      /\ client' = Built(account)
  BY DEF BuildClient
<1>2. OrdersTypeOK'
  BY <1>1 DEF OrdersInv, OrdersTypeOK, Built
<1>3. TraderIsSwitchedOn'
  BY <1>1 DEF OrdersInv, OrdersTypeOK, Setups, TraderIsSwitchedOn, SwitchesSet, Built, SandboxWanted,
              KeyIsSafe, CanTrade
<1>4. (NamedByMoment /\ PermittedOnly /\ RegistryKnows)'
  BY <1>1 DEF OrdersInv, NamedByMoment, PermittedOnly, Permitted, RegistryKnows, Moment
<1>5. QED
  BY <1>1, <1>2, <1>3, <1>4, LedgerAlone DEF OrdersInv, Ledger

LEMMA ProposeKeeps ==
  ASSUME OrdersInv, NEW intent \in Intents, Propose(intent)
  PROVE  OrdersInv'
<1>1. UNCHANGED <<setup, account, second, life, client, seen, orders, fills, held, unheard>>
  BY DEF Propose
<1>2. PICK killed \in BOOLEAN, hold \in BOOLEAN :
        desk' = [at |-> "proposed", id |-> OrderId(intent, second), intent |-> intent,
                 made |-> second, killed |-> killed, hold |-> hold, reply |-> "none"]
  BY DEF Propose
<1>3. desk' \in Proposals(DeskPlaces)
  BY <1>2 DEF OrdersInv, OrdersTypeOK, Proposals, DeskPlaces, Replies
<1>4. OrdersTypeOK'
  BY <1>1, <1>3 DEF OrdersInv, OrdersTypeOK
<1>5. (NamedByMoment /\ PermittedOnly /\ RegistryKnows /\ TraderIsSwitchedOn)'
  BY <1>1, <1>2 DEF OrdersInv, NamedByMoment, PermittedOnly, Permitted, RegistryKnows, Moment,
                    TraderIsSwitchedOn, SwitchesSet
<1>6. QED
  BY <1>1, <1>4, <1>5, LedgerAlone DEF OrdersInv, Ledger

LEMMA RequestKeeps ==
  ASSUME OrdersInv, NEW reply \in {"none", "phrase", "other", "eof"}, RequestApproval(reply)
  PROVE  OrdersInv'
<1>1. UNCHANGED <<setup, account, second, life, client, seen, orders, fills, held, unheard>>
  BY DEF RequestApproval
<1>2. desk.at = "proposed" /\ desk \in Proposals(DeskPlaces) /\ desk # Idle
  BY DEF RequestApproval, OrdersInv, OrdersTypeOK, Idle
<1>3. CASE Approved(desk, reply)
  <2>1. desk' = [desk EXCEPT !.at = "approved", !.reply = reply]
    BY <1>3 DEF RequestApproval
  <2>2. desk' \in Proposals(DeskPlaces)
    <3>1. desk' = [at |-> "approved", id |-> desk.id, intent |-> desk.intent, made |-> desk.made,
                   killed |-> desk.killed, hold |-> desk.hold, reply |-> reply]
      BY <1>2, <2>1, AnsweredProposal
    <3>2. reply \in Replies /\ "approved" \in DeskPlaces
      BY DEF Replies, DeskPlaces
    <3>3. QED
      BY <1>2, <3>1, <3>2 DEF Proposals
  <2>3. /\ desk'.at = "approved" /\ desk'.reply = reply /\ desk'.id = desk.id
        /\ desk'.intent = desk.intent /\ desk'.made = desk.made
        /\ desk'.killed = desk.killed /\ desk'.hold = desk.hold
    BY <1>2, <2>1 DEF Proposals
  <2>4. OrdersTypeOK' /\ TraderIsSwitchedOn'
    BY <1>1, <2>2 DEF OrdersInv, OrdersTypeOK, TraderIsSwitchedOn, SwitchesSet
  <2>5. (NamedByMoment /\ RegistryKnows)'
    BY <1>1, <1>2, <2>3 DEF OrdersInv, NamedByMoment, RegistryKnows, Moment, Idle
  <2>6. PermittedOnly'
    BY <1>1, <1>3, <2>3 DEF OrdersInv, PermittedOnly, Permitted, Approved
  <2>7. QED
    BY <1>1, <2>4, <2>5, <2>6, LedgerAlone DEF OrdersInv, Ledger
<1>4. CASE ~Approved(desk, reply)
  <2>1. desk' = Idle
    BY <1>4 DEF RequestApproval
  <2>2. (OrdersTypeOK /\ NamedByMoment /\ RegistryKnows /\ PermittedOnly /\ TraderIsSwitchedOn)'
    BY <1>1, <2>1 DEF OrdersInv, OrdersTypeOK, NamedByMoment, RegistryKnows, PermittedOnly, Permitted,
                      Moment, Idle, TraderIsSwitchedOn, SwitchesSet
  <2>3. QED
    BY <1>1, <2>2, LedgerAlone DEF OrdersInv, Ledger
<1>5. QED
  BY <1>3, <1>4

LEMMA RegisterKeeps == OrdersInv /\ RegisterOrder => OrdersInv'
<1> SUFFICES ASSUME OrdersInv, RegisterOrder PROVE OrdersInv'
  OBVIOUS
<1>1. /\ UNCHANGED <<setup, account, second, life, client, orders, fills, held, unheard>>
      /\ seen' = seen \cup {desk.id}
  BY DEF RegisterOrder
<1>2. desk.at = "approved" /\ desk \in Proposals(DeskPlaces) /\ desk # Idle
  BY DEF RegisterOrder, OrdersInv, OrdersTypeOK, Idle
<1>3. desk.id = Moment(desk)
  BY <1>2, MomentIsId DEF OrdersInv, NamedByMoment
<1>4. CASE Register(desk.id)
  <2>1. desk' = [desk EXCEPT !.at = "registered"]
    BY <1>4 DEF RegisterOrder
  <2>2. desk' \in Proposals(DeskPlaces)
    BY <1>2, <2>1 DEF Proposals, DeskPlaces
  <2>3. /\ desk'.at = "registered" /\ desk'.id = desk.id
        /\ desk'.intent = desk.intent /\ desk'.made = desk.made /\ desk'.reply = desk.reply
        /\ desk'.killed = desk.killed /\ desk'.hold = desk.hold
    BY <1>2, <2>1 DEF Proposals
  <2>4. Moment(desk') = Moment(desk) /\ Moment(desk) \notin seen
    BY <1>3, <1>4, <2>3, MomentIsId DEF Register
  <2>5. OrdersTypeOK' /\ TraderIsSwitchedOn'
    BY <1>1, <2>2 DEF OrdersInv, OrdersTypeOK, TraderIsSwitchedOn, SwitchesSet
  <2>6. NamedByMoment'
    BY <1>2, <2>3 DEF OrdersInv, NamedByMoment, Idle
  <2>7. PermittedOnly'
    BY <1>1, <1>2, <2>3 DEF OrdersInv, PermittedOnly, Permitted
  <2>8. \A i \in DOMAIN orders : orders[i].life <= life /\
          (orders[i].life = life => Moment(orders[i].proposal) \in seen)
    BY DEF OrdersInv, RegistryKnows
  <2>9. Moment(desk)' = Moment(desk) /\ \A i \in DOMAIN orders' :
          Moment(orders'[i].proposal) = Moment(orders[i].proposal)
    BY <1>1, <2>3 DEF Moment
  <2>10. RegistryKnows'
    BY <1>1, <1>3, <2>3, <2>4, <2>8, <2>9 DEF RegistryKnows, Moment
  <2>11. QED
    BY <1>1, <2>5, <2>6, <2>7, <2>10, LedgerAlone DEF OrdersInv, Ledger
<1>5. CASE ~Register(desk.id)
  <2>1. desk' = Idle
    BY <1>5 DEF RegisterOrder
  <2>2. (OrdersTypeOK /\ NamedByMoment /\ RegistryKnows /\ PermittedOnly /\ TraderIsSwitchedOn)'
    BY <1>1, <2>1 DEF OrdersInv, OrdersTypeOK, NamedByMoment, RegistryKnows, PermittedOnly, Permitted,
                      Moment, Idle, TraderIsSwitchedOn, SwitchesSet
  <2>3. QED
    BY <1>1, <2>2, LedgerAlone DEF OrdersInv, Ledger
<1>6. QED
  BY <1>4, <1>5

-----------------------------------------------------------------------------
(* What submitting has in common: a registered, permitted proposal leaves  *)
(* the desk.                                                               *)
LEMMA FinishedDesk ==
  ASSUME OrdersInv, Finished
  PROVE  /\ UNCHANGED <<setup, account, second, life, client, seen>>
         /\ desk' = Idle /\ NamedByMoment' /\ TraderIsSwitchedOn'
BY DEF OrdersInv, Finished, NamedByMoment, TraderIsSwitchedOn, SwitchesSet

LEMMA RegisteredDesk ==
  ASSUME OrdersInv, desk.at = "registered"
  PROVE  desk \in Proposals(DeskPlaces) /\ Permitted(desk)
BY DEF OrdersInv, OrdersTypeOK, Idle, PermittedOnly

LEMMA AppendPlaced ==
  ASSUME OrdersInv, desk.at = "registered", client = "trade", orders' = Posted, Finished
  PROVE  /\ orders' \in Seq(Placed) /\ Len(orders') = Len(orders) + 1
         /\ \A i \in DOMAIN orders' : Permitted(orders'[i].proposal)
         /\ (RegistryKnows /\ OneOrderPerMoment /\ OrdersNeedEverySwitch)'
<1> DEFINE n == Len(orders)
           new == [proposal |-> desk, life |-> life]
<1>1. desk \in Proposals(DeskPlaces) /\ Permitted(desk)
  BY RegisteredDesk
<1>2. /\ UNCHANGED <<setup, life, seen>> /\ desk' = Idle
  BY FinishedDesk
<1>3. new \in Placed /\ orders \in Seq(Placed) /\ life \in Nat
  BY <1>1 DEF OrdersInv, OrdersTypeOK, Placed
<1>4. /\ orders' \in Seq(Placed) /\ Len(orders') = n + 1
      /\ DOMAIN orders = 1..n /\ DOMAIN orders' = 1..(n + 1) /\ n \in Nat
      /\ orders'[n + 1] = new /\ \A i \in 1..n : orders'[i] = orders[i]
  BY <1>3 DEF Posted
<1>5. \A i \in DOMAIN orders' : Permitted(orders'[i].proposal)
  BY <1>1, <1>2, <1>4 DEF OrdersInv, PermittedOnly, Permitted
<1>6. \A i \in 1..n : /\ orders[i].life <= life
                      /\ orders[i].life = life =>
                           /\ Moment(orders[i].proposal) \in seen
                           /\ Moment(orders[i].proposal) # Moment(desk)
  BY <1>4 DEF OrdersInv, RegistryKnows
<1>7. Moment(desk) \in seen
  BY DEF OrdersInv, RegistryKnows
<1>8. \A i \in DOMAIN orders' : /\ orders'[i].life <= life
                                /\ orders'[i].life = life => Moment(orders'[i].proposal) \in seen
  BY <1>3, <1>4, <1>6, <1>7
<1>9. RegistryKnows'
  BY <1>2, <1>8 DEF RegistryKnows, Idle, Moment
<1>10. OneOrderPerMoment'
  <2>1. \A i, j \in 1..n : i # j /\ Moment(orders[i].proposal) = Moment(orders[j].proposal)
          => orders[i].life # orders[j].life
    BY <1>4 DEF OrdersInv, OneOrderPerMoment
  <2>2. \A i, j \in 1..(n + 1) :
          i # j /\ Moment(orders'[i].proposal) = Moment(orders'[j].proposal)
          => orders'[i].life # orders'[j].life
    BY <2>1, <1>4, <1>6
  <2>3. QED
    BY <2>2, <1>4 DEF OneOrderPerMoment, Moment
<1>11. OrdersNeedEverySwitch'
  BY <1>2 DEF OrdersInv, TraderIsSwitchedOn, SwitchesSet, OrdersNeedEverySwitch
<1>12. QED
  BY <1>4, <1>5, <1>9, <1>10, <1>11

LEMMA AppendBooked ==
  ASSUME OrdersInv, desk.at = "registered", Finished,
         NEW how \in {"simulated", "broker"}, NEW price \in {"market", "one"},
         NEW quantity \in 1..OrderSize, BookFill(how, price, quantity)
  PROVE  /\ fills' \in Seq(Booked) /\ held' \in Nat
         /\ \A i \in DOMAIN fills' : Permitted(fills'[i].proposal)
         /\ Cardinality(BrokerFills(fills)) \in Nat
         /\ Cardinality(BrokerFills(fills')) =
              Cardinality(BrokerFills(fills)) + (IF how = "broker" THEN 1 ELSE 0)
<1> DEFINE fill == [proposal |-> desk, how |-> how, price |-> price, quantity |-> quantity]
<1>1. desk \in Proposals(DeskPlaces) /\ Permitted(desk)
  BY RegisteredDesk
<1>2. fills' = Append(fills, fill)
  BY DEF BookFill
<1>3. quantity \in Nat /\ held \in Nat /\ fills \in Seq(Booked)
  BY OrdersAssumption DEF OrdersInv, OrdersTypeOK
<1>4. held' \in Nat
  BY <1>3 DEF BookFill
<1>5. fill \in Booked /\ fill.how = how /\ fill.proposal = desk
  BY <1>1, <1>3 DEF Booked
<1> HIDE DEF fill
<1>6. fills' \in Seq(Booked)
  BY <1>2, <1>3, <1>5
<1>7. \A i \in DOMAIN fills' : Permitted(fills'[i].proposal)
  <2>1. \A i \in DOMAIN fills' : fills'[i] = fill \/ (i \in DOMAIN fills /\ fills'[i] = fills[i])
    BY <1>2, <1>3, <1>5
  <2>2. QED
    BY <2>1, <1>1, <1>5 DEF OrdersInv, PermittedOnly
<1>8. \A i \in DOMAIN fills' : Permitted(fills'[i].proposal)
  BY <1>7, FinishedDesk DEF Permitted
<1>9. /\ Cardinality(BrokerFills(fills)) \in Nat
      /\ Cardinality(BrokerFills(fills')) =
           Cardinality(BrokerFills(fills)) + (IF how = "broker" THEN 1 ELSE 0)
  BY <1>2, <1>3, <1>5, OneMoreFill
<1>10. QED
  BY <1>4, <1>6, <1>8, <1>9

LEMMA SimulatedKeeps == OrdersInv /\ SubmitSimulated => OrdersInv'
<1> SUFFICES ASSUME OrdersInv, SubmitSimulated PROVE OrdersInv'
  OBVIOUS
<1>0. PICK quantity \in 1..OrderSize : BookFill("simulated", "market", quantity)
  BY DEF SubmitSimulated
<1>1. desk.at = "registered" /\ Finished /\ UNCHANGED <<orders, unheard>>
  BY DEF SubmitSimulated
<1>2. /\ UNCHANGED <<setup, account, second, life, client, seen>>
      /\ desk' = Idle /\ NamedByMoment' /\ TraderIsSwitchedOn'
  BY <1>1, FinishedDesk
<1>3. /\ fills' \in Seq(Booked) /\ held' \in Nat
      /\ \A i \in DOMAIN fills' : Permitted(fills'[i].proposal)
      /\ Cardinality(BrokerFills(fills)) \in Nat
      /\ Cardinality(BrokerFills(fills')) = Cardinality(BrokerFills(fills))
  BY <1>0, <1>1, AppendBooked
<1>4. OrdersTypeOK'
  BY <1>1, <1>2, <1>3 DEF OrdersInv, OrdersTypeOK
<1>5. (RegistryKnows /\ OneOrderPerMoment /\ OrdersNeedEverySwitch)'
  BY <1>1, <1>2 DEF OrdersInv, RegistryKnows, OneOrderPerMoment, OrdersNeedEverySwitch, Moment, Idle
<1>6. PermittedOnly'
  BY <1>1, <1>2, <1>3 DEF OrdersInv, PermittedOnly, Permitted, Idle
<1>7. BookedOrUnheard'
  <2>1. Len(orders) = unheard + Cardinality(BrokerFills(fills))
    BY BookedByCount DEF OrdersInv
  <2>2. QED
    BY <2>1, <1>1, <1>3 DEF BookedOrUnheard, BrokerFills
<1>8. QED
  BY <1>2, <1>4, <1>5, <1>6, <1>7 DEF OrdersInv

LEMMA PlaceKeeps == OrdersInv /\ PlaceOrder => OrdersInv'
<1> SUFFICES ASSUME OrdersInv, PlaceOrder PROVE OrdersInv'
  OBVIOUS
<1>1. /\ desk.at = "registered" /\ Finished /\ UNCHANGED unheard
      /\ orders' = Posted /\ client = "trade"
  BY DEF PlaceOrder, MayPlace
<1>2. PICK price \in {"market", "one"}, quantity \in 1..OrderSize : BookFill("broker", price, quantity)
  BY OrdersAssumption DEF PlaceOrder
<1>3. /\ UNCHANGED <<setup, account, second, life, client, seen>>
      /\ desk' = Idle /\ NamedByMoment' /\ TraderIsSwitchedOn'
  BY <1>1, FinishedDesk
<1>4. /\ orders' \in Seq(Placed) /\ Len(orders') = Len(orders) + 1
      /\ \A i \in DOMAIN orders' : Permitted(orders'[i].proposal)
      /\ (RegistryKnows /\ OneOrderPerMoment /\ OrdersNeedEverySwitch)'
  BY <1>1, AppendPlaced
<1>5. /\ fills' \in Seq(Booked) /\ held' \in Nat
      /\ \A i \in DOMAIN fills' : Permitted(fills'[i].proposal)
      /\ Cardinality(BrokerFills(fills)) \in Nat
      /\ Cardinality(BrokerFills(fills')) = Cardinality(BrokerFills(fills)) + 1
  BY <1>1, <1>2, AppendBooked
<1>6. OrdersTypeOK'
  BY <1>1, <1>3, <1>4, <1>5 DEF OrdersInv, OrdersTypeOK
<1>7. PermittedOnly'
  BY <1>3, <1>4, <1>5 DEF PermittedOnly, Permitted, Idle
<1>8. BookedOrUnheard'
  <2>1. Len(orders) = unheard + Cardinality(BrokerFills(fills))
    BY BookedByCount DEF OrdersInv
  <2>2. unheard \in Nat
    BY DEF OrdersInv, OrdersTypeOK
  <2>3. QED
    BY <2>1, <2>2, <1>1, <1>4, <1>5 DEF BookedOrUnheard, BrokerFills
<1>9. QED
  BY <1>3, <1>4, <1>6, <1>7, <1>8 DEF OrdersInv

LEMMA UnheardKeeps == OrdersInv /\ PlaceUnheard => OrdersInv'
<1> SUFFICES ASSUME OrdersInv, PlaceUnheard PROVE OrdersInv'
  OBVIOUS
<1>1. /\ desk.at = "registered" /\ Finished /\ UNCHANGED <<fills, held>> /\ unheard' = unheard + 1
      /\ orders' = Posted /\ client = "trade"
  BY DEF PlaceUnheard, MayPlace, AfterException
<1>2. /\ UNCHANGED <<setup, account, second, life, client, seen>>
      /\ desk' = Idle /\ NamedByMoment' /\ TraderIsSwitchedOn'
  BY <1>1, FinishedDesk
<1>3. /\ orders' \in Seq(Placed) /\ Len(orders') = Len(orders) + 1
      /\ \A i \in DOMAIN orders' : Permitted(orders'[i].proposal)
      /\ (RegistryKnows /\ OneOrderPerMoment /\ OrdersNeedEverySwitch)'
  BY <1>1, AppendPlaced
<1>4. OrdersTypeOK'
  BY <1>1, <1>2, <1>3 DEF OrdersInv, OrdersTypeOK
<1>5. PermittedOnly'
  BY <1>1, <1>2, <1>3 DEF OrdersInv, PermittedOnly, Permitted, Idle
<1>6. BookedOrUnheard'
  <2>1. Len(orders) = unheard + Cardinality(BrokerFills(fills)) /\ unheard \in Nat
    BY BookedByCount DEF OrdersInv, OrdersTypeOK
  <2>2. Cardinality(BrokerFills(fills)) \in Nat
    <3>1. PICK b : b = [proposal |-> desk, how |-> "broker", price |-> "one", quantity |-> 0]
      OBVIOUS
    <3>2. b \in Booked /\ fills \in Seq(Booked)
      BY <1>1, <3>1, RegisteredDesk DEF Booked, OrdersInv, OrdersTypeOK
    <3>3. QED
      BY <3>2, OneMoreFill
  <2>3. QED
    BY <2>1, <2>2, <1>1, <1>3 DEF BookedOrUnheard, BrokerFills
<1>7. QED
  BY <1>2, <1>3, <1>4, <1>5, <1>6 DEF OrdersInv

LEMMA RefusedKeeps == OrdersInv /\ (PlaceRefused \/ SimulationRaises) => OrdersInv'
<1> SUFFICES ASSUME OrdersInv, PlaceRefused \/ SimulationRaises PROVE OrdersInv'
  OBVIOUS
<1>1. Finished /\ UNCHANGED <<orders, fills, held, unheard>>
  BY DEF PlaceRefused, SimulationRaises
<1>2. /\ UNCHANGED <<setup, account, second, life, client, seen>>
      /\ desk' = Idle /\ NamedByMoment' /\ TraderIsSwitchedOn'
  BY <1>1, FinishedDesk
<1>3. (OrdersTypeOK /\ RegistryKnows /\ PermittedOnly)'
  BY <1>1, <1>2 DEF OrdersInv, OrdersTypeOK, RegistryKnows, PermittedOnly, Permitted, Moment, Idle
<1>4. QED
  BY <1>1, <1>2, <1>3, LedgerAlone DEF OrdersInv, Ledger

-----------------------------------------------------------------------------
LEMMA AccountKeeps ==
  ASSUME OrdersInv, NEW a \in Accounts, AccountChanges(a)
  PROVE  OrdersInv'
<1>1. UNCHANGED <<setup, second, life, client, seen, desk, orders, fills, held, unheard>> /\ account' = a
  BY DEF AccountChanges
<1>2. (OrdersTypeOK /\ NamedByMoment /\ RegistryKnows /\ PermittedOnly /\ TraderIsSwitchedOn)'
  BY <1>1 DEF OrdersInv, OrdersTypeOK, NamedByMoment, RegistryKnows, PermittedOnly, Permitted,
              Moment, TraderIsSwitchedOn, SwitchesSet
<1>3. QED
  BY <1>1, <1>2, LedgerAlone DEF OrdersInv, Ledger

LEMMA TimeKeeps == OrdersInv /\ SecondPasses => OrdersInv'
<1> SUFFICES ASSUME OrdersInv, SecondPasses PROVE OrdersInv'
  OBVIOUS
<1>1. UNCHANGED <<setup, account, life, client, seen, desk, orders, fills, held, unheard>>
      /\ second' = second + 1
  BY DEF SecondPasses
<1>2. (OrdersTypeOK /\ NamedByMoment /\ RegistryKnows /\ PermittedOnly /\ TraderIsSwitchedOn)'
  BY <1>1 DEF OrdersInv, OrdersTypeOK, NamedByMoment, RegistryKnows, PermittedOnly, Permitted,
              Moment, TraderIsSwitchedOn, SwitchesSet
<1>3. QED
  BY <1>1, <1>2, LedgerAlone DEF OrdersInv, Ledger

(* A new life has an empty registry, and no order is of it yet.            *)
LEMMA RestartKeeps == OrdersInv /\ RestartDesk => OrdersInv'
<1> SUFFICES ASSUME OrdersInv, RestartDesk PROVE OrdersInv'
  OBVIOUS
<1>1. /\ UNCHANGED <<setup, account, second, orders, fills, unheard>>
      /\ life' = life + 1 /\ client' = "unbuilt" /\ desk' = Idle /\ held' = 0
  BY DEF RestartDesk
<1>2. (OrdersTypeOK /\ NamedByMoment /\ PermittedOnly /\ TraderIsSwitchedOn)'
  BY <1>1 DEF OrdersInv, OrdersTypeOK, NamedByMoment, PermittedOnly, Permitted, Idle, TraderIsSwitchedOn
<1>3. \A i \in DOMAIN orders : orders[i].life \in Nat /\ orders[i].life <= life /\ life \in Nat
  <2>1. life \in Nat /\ \A i \in DOMAIN orders : orders[i] \in Placed
    BY DEF OrdersInv, OrdersTypeOK
  <2>2. \A o \in Placed : o.life \in Nat
    BY DEF Placed
  <2>3. QED
    BY <2>1, <2>2 DEF OrdersInv, RegistryKnows
<1>4. RegistryKnows'
  BY <1>1, <1>3 DEF RegistryKnows, Idle
<1>5. (OneOrderPerMoment /\ OrdersNeedEverySwitch /\ BookedOrUnheard)'
  BY <1>1 DEF OrdersInv, OneOrderPerMoment, Moment, OrdersNeedEverySwitch, BookedOrUnheard
<1>6. QED
  BY <1>2, <1>4, <1>5 DEF OrdersInv

LEMMA OrdersStepKeeps == OrdersInv /\ [OrdersNext]_ordersVars => OrdersInv'
<1> SUFFICES ASSUME OrdersInv, [OrdersNext]_ordersVars PROVE OrdersInv'
  OBVIOUS
<1>1. CASE BuildClient
  BY <1>1, BuildKeeps
<1>2. CASE \E intent \in Intents : Propose(intent)
  BY <1>2, ProposeKeeps
<1>3. CASE \E reply \in {"none", "phrase", "other", "eof"} : RequestApproval(reply)
  BY <1>3, RequestKeeps
<1>4. CASE RegisterOrder
  BY <1>4, RegisterKeeps
<1>5. CASE SubmitSimulated
  BY <1>5, SimulatedKeeps
<1>6. CASE PlaceOrder
  BY <1>6, PlaceKeeps
<1>7. CASE PlaceUnheard
  BY <1>7, UnheardKeeps
<1>8. CASE PlaceRefused \/ SimulationRaises
  BY <1>8, RefusedKeeps
<1>9. CASE \E a \in Accounts : AccountChanges(a)
  BY <1>9, AccountKeeps
<1>10. CASE RestartDesk
  BY <1>10, RestartKeeps
<1>11. CASE SecondPasses
  BY <1>11, TimeKeeps
<1>12. CASE UNCHANGED ordersVars
  BY <1>12 DEF ordersVars, OrdersInv, OrdersTypeOK, NamedByMoment, RegistryKnows, PermittedOnly, Permitted,
               Moment, TraderIsSwitchedOn, SwitchesSet, OneOrderPerMoment,
               OrdersNeedEverySwitch, BookedOrUnheard
<1>13. QED
  BY <1>1, <1>2, <1>3, <1>4, <1>5, <1>6, <1>7, <1>8, <1>9, <1>10, <1>11, <1>12 DEF OrdersNext

LEMMA OrdersInductive == OrdersSpec => []OrdersInv
BY OrdersInitEstablishes, OrdersStepKeeps, PTL DEF OrdersSpec

-----------------------------------------------------------------------------
(* Every variable of the desk keeps its type (approval.py, ops/order_ids,  *)
(* paper/sandbox_broker.py).                                               *)
THEOREM OrdersTypeCorrect == OrdersSpec => []OrdersTypeOK
<1>1. OrdersInv => OrdersTypeOK
  BY DEF OrdersInv
<1>2. QED
  BY <1>1, OrdersInductive, PTL

(* A retry within a moment makes no second order in one process: the       *)
(* registry (ops/order_ids.py) knows every order of its life.              *)
THEOREM RetriesAreHarmless == OrdersSpec => []OneOrderPerMoment
<1>1. OrdersInv => OneOrderPerMoment
  BY DEF OrdersInv
<1>2. QED
  BY <1>1, OrdersInductive, PTL

(* Whatever reaches the broker or the book was approved, and by a client   *)
(* with every switch set (exchanges/sandbox.py); an order is booked once,  *)
(* whatever it is booked at, unless its answer was lost.                   *)
THEOREM OrdersStaySanctioned == OrdersSpec => []OrdersAreSanctioned
<1>1. OrdersInv => OrdersAreSanctioned
  <2> SUFFICES ASSUME OrdersInv PROVE OrdersAreSanctioned
    OBVIOUS
  <2>1. NothingUnapproved
    BY DEF OrdersInv, PermittedOnly, Permitted, NothingUnapproved
  <2>2. ModeIsHonest
    BY DEF OrdersInv, TraderIsSwitchedOn, SwitchesSet, ModeIsHonest, ExecutionMode, MayPlace
  <2>3. QED
    BY <2>1, <2>2 DEF OrdersInv, OrdersAreSanctioned
<1>2. QED
  BY <1>1, OrdersInductive, PTL

-----------------------------------------------------------------------------
(* The log: where each record is.                                          *)

Ascending(s) == \A j, k \in DOMAIN s : j < k => s[j] < s[k]
Parcels == {s \in Seq(Nat) : Len(s) <= BatchSize /\ Ascending(s)}

InHands(r) == {t \in Threads : r \in Range(batch[t])}
WithCollector(r) == {i \in DOMAIN received : r \in Range(received[i])}
LostToRefusal(r) == {i \in DOMAIN refused : r \in Range(refused[i])}

Nowhere(r) ==
  r \notin Range(buffer) /\ InHands(r) = {} /\ WithCollector(r) = {} /\ LostToRefusal(r) = {}
InOne(r) ==
  \/ /\ r \in Range(buffer)
     /\ InHands(r) = {} /\ WithCollector(r) = {} /\ LostToRefusal(r) = {}
  \/ /\ \E t \in Threads : InHands(r) = {t}
     /\ r \notin Range(buffer) /\ WithCollector(r) = {} /\ LostToRefusal(r) = {}
  \/ /\ \E i \in DOMAIN received : WithCollector(r) = {i}
     /\ r \notin Range(buffer) /\ InHands(r) = {} /\ LostToRefusal(r) = {}
  \/ /\ \E i \in DOMAIN refused : LostToRefusal(r) = {i}
     /\ r \notin Range(buffer) /\ InHands(r) = {} /\ WithCollector(r) = {}

RemoteLogTypeOK ==
  /\ logged \in Nat /\ buffer \in Parcels
  /\ doing \in [Threads -> {"resting", "flushing", "posting", "ended"}]
  /\ batch \in [Threads -> Parcels]
  /\ holder \in Loggers \cup {NoThread}
  /\ received \in Seq(Parcels) /\ refused \in Seq(Parcels)

(* A record is logged into the buffer alone, and stays in one place.       *)
RecordsHavePlaces ==
  \A r \in Nat : IF r \in 1..logged THEN InOne(r) ELSE Nowhere(r)

(* Who holds the handler's lock is on its way to empty the buffer or has   *)
(* just done so; nobody but a thread that posts has anything in hand.      *)
HandlerIsServed ==
  /\ holder = NoThread => Len(buffer) < BatchSize
  /\ holder # NoThread => doing[holder] \in {"flushing", "posting"}
  /\ holder # NoThread /\ doing[holder] = "posting" => Len(buffer) < BatchSize
  /\ \A t \in Threads : doing[t] # "posting" => batch[t] = <<>>
  /\ exited => \A t \in Loggers : doing[t] = "resting"

RemoteLogInv == RemoteLogTypeOK /\ RecordsHavePlaces /\ HandlerIsServed

LEMMA ThreadFacts ==
  Flusher \in Threads /\ Loggers \subseteq Threads /\ NoThread \notin Threads /\ Flusher \notin Loggers
BY RemoteLogAssumption DEF Threads

LEMMA EmptyParcel == <<>> \in Parcels /\ Len(<<>>) = 0 /\ Range(<<>>) = {}
BY RemoteLogAssumption DEF Parcels, Ascending, Range

LEMMA RemoteLogInitEstablishes == RemoteLogInit => RemoteLogInv
<1> SUFFICES ASSUME RemoteLogInit PROVE RemoteLogInv
  OBVIOUS
<1> USE DEF RemoteLogInit
<1>1. RemoteLogTypeOK
  BY EmptyParcel DEF RemoteLogTypeOK
<1>2. ASSUME NEW r \in Nat PROVE r \notin 1..logged /\ Nowhere(r)
  BY EmptyParcel DEF Nowhere, InHands, WithCollector, LostToRefusal
<1>3. HandlerIsServed
  BY EmptyParcel, RemoteLogAssumption, ThreadFacts DEF HandlerIsServed
<1>4. QED
  BY <1>1, <1>2, <1>3 DEF RemoteLogInv, RecordsHavePlaces

LEMMA LogKeeps ==
  ASSUME RemoteLogInv, NEW t \in Threads, LogRecord(t)
  PROVE  RemoteLogInv'
<1>1. /\ logged \in Nat /\ buffer \in Parcels /\ t \in Loggers /\ logged' = logged + 1
      /\ UNCHANGED <<batch, stopping, received, refused, exited>>
      /\ ~exited /\ holder = NoThread /\ doing[t] = "resting"
      /\ buffer' = Append(buffer, logged + 1)
  BY DEF RemoteLogInv, RemoteLogTypeOK, LogRecord
<1>2. buffer \in Seq(Nat) /\ Len(buffer) < BatchSize /\ BatchSize \in Nat
  BY <1>1, RemoteLogAssumption DEF Parcels, RemoteLogInv, HandlerIsServed
<1>3. \A k \in DOMAIN buffer : buffer[k] \in Nat /\ buffer[k] <= logged
  <2>1. ASSUME NEW k \in DOMAIN buffer PROVE buffer[k] \in Nat /\ buffer[k] \in 1..logged
    <3>1. buffer[k] \in Nat /\ buffer[k] \in Range(buffer)
      BY <1>2 DEF Range
    <3>2. QED
      BY <3>1 DEF RemoteLogInv, RecordsHavePlaces, Nowhere
  <2>2. QED
    BY <1>1, <2>1
<1>4. /\ buffer' \in Seq(Nat) /\ Len(buffer') = Len(buffer) + 1
      /\ DOMAIN buffer' = DOMAIN buffer \cup {Len(buffer) + 1}
      /\ buffer'[Len(buffer) + 1] = logged + 1
      /\ \A k \in DOMAIN buffer : buffer'[k] = buffer[k] /\ k \in 1..Len(buffer)
  BY <1>1, <1>2
<1>5. buffer' \in Parcels
  <2>1. Ascending(buffer')
    BY <1>1, <1>2, <1>3, <1>4 DEF Parcels, Ascending
  <2>2. QED
    BY <1>2, <1>4, <2>1 DEF Parcels
<1>6. Range(buffer') = Range(buffer) \cup {logged + 1}
  BY <1>4 DEF Range
<1>7. \/ Len(buffer') >= BatchSize /\ doing' = [doing EXCEPT ![t] = "flushing"] /\ holder' = t
      \/ Len(buffer') < BatchSize /\ doing' = doing /\ holder' = holder
  BY <1>2, <1>4 DEF LogRecord, Turns, Full
<1>8. RemoteLogTypeOK'
  BY <1>1, <1>5, <1>7, ThreadFacts DEF RemoteLogInv, RemoteLogTypeOK
<1>9. HandlerIsServed'
  BY <1>1, <1>7, ThreadFacts DEF RemoteLogInv, RemoteLogTypeOK, HandlerIsServed
<1>10. ASSUME NEW r \in Nat PROVE IF r \in 1..logged' THEN InOne(r)' ELSE Nowhere(r)'
  <2>1. /\ InHands(r)' = InHands(r) /\ WithCollector(r)' = WithCollector(r)
        /\ LostToRefusal(r)' = LostToRefusal(r)
    BY <1>1 DEF InHands, WithCollector, LostToRefusal
  <2>2. CASE r = logged + 1
    <3>1. Nowhere(r)
      BY <1>1, <2>2 DEF RemoteLogInv, RecordsHavePlaces
    <3>2. QED
      BY <1>1, <1>6, <2>1, <2>2, <3>1 DEF InOne, Nowhere
  <2>3. CASE r # logged + 1
    <3>1. (r \in 1..logged' <=> r \in 1..logged) /\ (r \in Range(buffer') <=> r \in Range(buffer))
      BY <1>1, <1>6, <2>3
    <3>2. IF r \in 1..logged THEN InOne(r) ELSE Nowhere(r)
      BY DEF RemoteLogInv, RecordsHavePlaces
    <3>3. QED
      BY <1>1, <2>1, <3>1, <3>2 DEF InOne, Nowhere
  <2>4. QED
    BY <2>2, <2>3
<1>11. QED
  BY <1>8, <1>9, <1>10 DEF RemoteLogInv, RecordsHavePlaces

(* The swap: what the buffer held is in the thread's hands, which were     *)
(* empty.                                                                  *)
LEMMA SwapKeeps ==
  ASSUME RemoteLogInv, NEW t \in Threads, SwapBuffer(t)
  PROVE  RemoteLogInv'
<1>1. /\ buffer \in Parcels /\ batch \in [Threads -> Parcels] /\ batch[t] = <<>>
      /\ doing \in [Threads -> {"resting", "flushing", "posting", "ended"}]
      /\ UNCHANGED <<logged, holder, stopping, received, refused, exited>>
      /\ ~exited /\ doing[t] = "flushing" /\ doing' = [doing EXCEPT ![t] = "posting"]
      /\ batch' = [batch EXCEPT ![t] = buffer] /\ buffer' = <<>>
  BY DEF RemoteLogInv, RemoteLogTypeOK, HandlerIsServed, SwapBuffer, Turns
<1>2. RemoteLogTypeOK'
  BY <1>1, EmptyParcel DEF RemoteLogInv, RemoteLogTypeOK
<1>3. HandlerIsServed'
  BY <1>1, EmptyParcel, RemoteLogAssumption, ThreadFacts
     DEF RemoteLogInv, RemoteLogTypeOK, HandlerIsServed
<1>4. ASSUME NEW r \in Nat PROVE IF r \in 1..logged' THEN InOne(r)' ELSE Nowhere(r)'
  <2>1. WithCollector(r)' = WithCollector(r) /\ LostToRefusal(r)' = LostToRefusal(r)
    BY <1>1 DEF WithCollector, LostToRefusal
  <2>2. r \notin Range(buffer')
    BY <1>1, EmptyParcel
  <2>3. InHands(r)' = IF r \in Range(buffer) THEN InHands(r) \cup {t} ELSE InHands(r)
    <3>1. batch'[t] = buffer /\ \A u \in Threads : u # t => batch'[u] = batch[u]
      BY <1>1
    <3>2. r \notin Range(batch[t])
      BY <1>1, EmptyParcel
    <3>3. QED
      BY <3>1, <3>2 DEF InHands
  <2>4. IF r \in 1..logged THEN InOne(r) ELSE Nowhere(r)
    BY DEF RemoteLogInv, RecordsHavePlaces
  <2>5. QED
    <3>1. CASE r \in Range(buffer)
      BY <1>1, <2>1, <2>2, <2>3, <2>4, <3>1 DEF InOne, Nowhere
    <3>2. CASE r \notin Range(buffer)
      BY <1>1, <2>1, <2>2, <2>3, <2>4, <3>2 DEF InOne, Nowhere
    <3>3. QED
      BY <3>1, <3>2
<1>5. QED
  BY <1>2, <1>3, <1>4 DEF RemoteLogInv, RecordsHavePlaces

LEMMA ReceivedOneMore ==
  ASSUME NEW s \in Seq(Parcels), NEW b \in Parcels
  PROVE  /\ Append(s, b) \in Seq(Parcels)
         /\ DOMAIN Append(s, b) = DOMAIN s \cup {Len(s) + 1}
         /\ Len(s) + 1 \notin DOMAIN s
         /\ \A r : {i \in DOMAIN Append(s, b) : r \in Range(Append(s, b)[i])} =
                     {i \in DOMAIN s : r \in Range(s[i])}
                       \cup (IF r \in Range(b) THEN {Len(s) + 1} ELSE {})
<1>1. /\ Append(s, b) \in Seq(Parcels) /\ DOMAIN s = 1..Len(s) /\ Len(s) \in Nat
      /\ DOMAIN Append(s, b) = 1..(Len(s) + 1)
      /\ \A i \in DOMAIN s : Append(s, b)[i] = s[i]
      /\ Append(s, b)[Len(s) + 1] = b
  OBVIOUS
<1>2. DOMAIN Append(s, b) = DOMAIN s \cup {Len(s) + 1} /\ Len(s) + 1 \notin DOMAIN s
  BY <1>1
<1>3. QED
  BY <1>1, <1>2

(* The post: what was in hand is with the collector, or lost, or there was *)
(* nothing.                                                                *)
LEMMA PostKeeps ==
  ASSUME RemoteLogInv, NEW t \in Threads, PostBatch(t)
  PROVE  RemoteLogInv'
<1>1. /\ batch \in [Threads -> Parcels] /\ batch[t] \in Parcels
      /\ received \in Seq(Parcels) /\ refused \in Seq(Parcels)
      /\ doing \in [Threads -> {"resting", "flushing", "posting", "ended"}]
      /\ UNCHANGED <<logged, buffer, stopping, exited>>
      /\ ~exited /\ doing[t] = "posting"
      /\ batch' = [batch EXCEPT ![t] = <<>>]
      /\ holder' = IF holder = t THEN NoThread ELSE holder
  BY DEF RemoteLogInv, RemoteLogTypeOK, PostBatch
<1>2. \/ /\ batch[t] = <<>> /\ received' = received /\ refused' = refused
      \/ /\ received' = Append(received, batch[t]) /\ refused' = refused
      \/ /\ refused' = Append(refused, batch[t]) /\ received' = received
  BY DEF PostBatch
<1>3. \E next \in {"resting", "ended"} : doing' = [doing EXCEPT ![t] = next]
  BY DEF PostBatch, Turns
<1>4. RemoteLogTypeOK'
  <2>1. received' \in Seq(Parcels) /\ refused' \in Seq(Parcels)
    <3>1. /\ Append(received, batch[t]) \in Seq(Parcels)
          /\ Append(refused, batch[t]) \in Seq(Parcels)
      BY <1>1, ReceivedOneMore
    <3>2. QED
      BY <1>1, <1>2, <3>1
  <2>2. holder' \in Loggers \cup {NoThread}
    BY <1>1 DEF RemoteLogInv, RemoteLogTypeOK
  <2>3. QED
    BY <1>1, <1>3, <2>1, <2>2, EmptyParcel DEF RemoteLogInv, RemoteLogTypeOK
<1>5. HandlerIsServed'
  BY <1>1, <1>3, ThreadFacts DEF RemoteLogInv, RemoteLogTypeOK, HandlerIsServed
<1>6. ASSUME NEW r \in Nat PROVE IF r \in 1..logged' THEN InOne(r)' ELSE Nowhere(r)'
  <2>1. InHands(r)' = InHands(r) \ {t}
    <3>1. batch'[t] = <<>> /\ \A u \in Threads : u # t => batch'[u] = batch[u]
      BY <1>1
    <3>2. r \notin Range(batch'[t])
      BY <3>1, EmptyParcel
    <3>3. QED
      BY <3>1, <3>2 DEF InHands
  <2>2. IF r \in 1..logged THEN InOne(r) ELSE Nowhere(r)
    BY DEF RemoteLogInv, RecordsHavePlaces
  <2>3. t \in InHands(r) <=> r \in Range(batch[t])
    BY DEF InHands
  <2>4. r \in Range(buffer)' <=> r \in Range(buffer)
    BY <1>1 DEF Range
  <2>5. CASE batch[t] = <<>> /\ received' = received /\ refused' = refused
    <3>1. WithCollector(r)' = WithCollector(r) /\ LostToRefusal(r)' = LostToRefusal(r)
      BY <2>5 DEF WithCollector, LostToRefusal
    <3>2. InHands(r)' = InHands(r)
      BY <2>1, <2>3, <2>5, EmptyParcel
    <3>3. QED
      BY <1>1, <2>2, <2>4, <2>5, <3>1, <3>2 DEF InOne, Nowhere
  <2>6. CASE received' = Append(received, batch[t]) /\ refused' = refused
    <3>1. LostToRefusal(r)' = LostToRefusal(r)
      BY <2>6 DEF LostToRefusal
    <3>2. /\ WithCollector(r)' = WithCollector(r) \cup (IF r \in Range(batch[t]) THEN {Len(received) + 1} ELSE {})
          /\ DOMAIN received' = DOMAIN received \cup {Len(received) + 1}
      BY <1>1, <2>6, ReceivedOneMore DEF WithCollector
    <3>3. CASE t \in InHands(r)
      <4>1. InHands(r) = {t} /\ r \notin Range(buffer) /\ WithCollector(r) = {}
            /\ LostToRefusal(r) = {} /\ r \in 1..logged
        BY <2>2, <3>3 DEF InOne, Nowhere
      <4>2. InHands(r)' = {} /\ WithCollector(r)' = {Len(received) + 1} /\ r \notin Range(buffer)'
        BY <2>1, <2>3, <2>4, <3>2, <3>3, <4>1
      <4>3. QED
        BY <1>1, <3>1, <3>2, <4>1, <4>2 DEF InOne
    <3>4. CASE t \notin InHands(r)
      BY <1>1, <2>1, <2>2, <2>3, <2>4, <2>6, <3>1, <3>2, <3>4 DEF InOne, Nowhere
    <3>5. QED
      BY <3>3, <3>4
  <2>7. CASE refused' = Append(refused, batch[t]) /\ received' = received
    <3>1. WithCollector(r)' = WithCollector(r)
      BY <2>7 DEF WithCollector
    <3>2. /\ LostToRefusal(r)' = LostToRefusal(r) \cup (IF r \in Range(batch[t]) THEN {Len(refused) + 1} ELSE {})
          /\ DOMAIN refused' = DOMAIN refused \cup {Len(refused) + 1}
      BY <1>1, <2>7, ReceivedOneMore DEF LostToRefusal
    <3>3. CASE t \in InHands(r)
      <4>1. InHands(r) = {t} /\ r \notin Range(buffer) /\ WithCollector(r) = {}
            /\ LostToRefusal(r) = {} /\ r \in 1..logged
        BY <2>2, <3>3 DEF InOne, Nowhere
      <4>2. InHands(r)' = {} /\ LostToRefusal(r)' = {Len(refused) + 1} /\ r \notin Range(buffer)'
        BY <2>1, <2>3, <2>4, <3>2, <3>3, <4>1
      <4>3. QED
        BY <1>1, <3>1, <3>2, <4>1, <4>2 DEF InOne
    <3>4. CASE t \notin InHands(r)
      BY <1>1, <2>1, <2>2, <2>3, <2>4, <2>7, <3>1, <3>2, <3>4 DEF InOne, Nowhere
    <3>5. QED
      BY <3>3, <3>4
  <2>8. QED
    BY <1>2, <2>5, <2>6, <2>7
<1>7. QED
  BY <1>4, <1>5, <1>6 DEF RemoteLogInv, RecordsHavePlaces

(* The rest moves no record.                                               *)
LEMMA RecordsStay ==
  ASSUME RecordsHavePlaces, UNCHANGED <<logged, buffer, batch, received, refused>>
  PROVE  RecordsHavePlaces'
BY DEF RecordsHavePlaces, InOne, Nowhere, InHands, WithCollector, LostToRefusal

LEMMA RemoteLogStepKeeps ==
  RemoteLogInv /\ [RemoteLogNext]_remoteLogVars => RemoteLogInv'
<1> SUFFICES ASSUME RemoteLogInv, [RemoteLogNext]_remoteLogVars PROVE RemoteLogInv'
  OBVIOUS
<1>1. ASSUME NEW t \in Threads, CloseHandler(t) PROVE RemoteLogInv'
  <2>1. RecordsHavePlaces'
    BY <1>1, RecordsStay DEF CloseHandler, RemoteLogInv
  <2>2. RemoteLogTypeOK' /\ HandlerIsServed'
    BY <1>1, ThreadFacts
       DEF CloseHandler, Turns, RemoteLogInv, RemoteLogTypeOK, HandlerIsServed
  <2>3. QED
    BY <2>1, <2>2 DEF RemoteLogInv
<1>2. ASSUME FlusherWakes PROVE RemoteLogInv'
  <2>1. RecordsHavePlaces'
    BY <1>2, RecordsStay DEF FlusherWakes, RemoteLogInv
  <2>2. RemoteLogTypeOK' /\ HandlerIsServed'
    BY <1>2, ThreadFacts
       DEF FlusherWakes, Turns, RemoteLogInv, RemoteLogTypeOK, HandlerIsServed
  <2>3. QED
    BY <2>1, <2>2 DEF RemoteLogInv
<1>3. ASSUME ExitProcess \/ UNCHANGED remoteLogVars PROVE RemoteLogInv'
  <2>1. RecordsHavePlaces'
    BY <1>3, RecordsStay DEF ExitProcess, remoteLogVars, RemoteLogInv
  <2>2. RemoteLogTypeOK' /\ HandlerIsServed'
    BY <1>3 DEF ExitProcess, remoteLogVars, RemoteLogInv, RemoteLogTypeOK, HandlerIsServed
  <2>3. QED
    BY <2>1, <2>2 DEF RemoteLogInv
<1>4. QED
  BY <1>1, <1>2, <1>3, LogKeeps, SwapKeeps, PostKeeps DEF RemoteLogNext

LEMMA RemoteLogInductive == RemoteLogSpec => []RemoteLogInv
BY RemoteLogInitEstablishes, RemoteLogStepKeeps, PTL DEF RemoteLogSpec

(* The places of a record among the buffer and the batches that have been  *)
(* posted.                                                                 *)
LEMMA PlacesOf ==
  ASSUME RemoteLogInv, NEW r
  PROVE  {i \in DOMAIN Places : r \in Range(Places[i])} =
           (IF r \in Range(buffer) THEN {1} ELSE {})
             \cup {1 + i : i \in WithCollector(r)}
             \cup {1 + Len(received) + i : i \in LostToRefusal(r)}
<1>1. buffer \in Parcels /\ received \in Seq(Parcels) /\ refused \in Seq(Parcels)
  BY DEF RemoteLogInv, RemoteLogTypeOK
<1> DEFINE a == Len(received)
           b == Len(refused)
           first == <<buffer>> \o received
<1>2. a \in Nat /\ b \in Nat /\ DOMAIN received = 1..a /\ DOMAIN refused = 1..b
  BY <1>1
<1>3. <<buffer>> \in Seq(Parcels) /\ Len(<<buffer>>) = 1 /\ <<buffer>>[1] = buffer
  BY <1>1
<1>4. /\ first \in Seq(Parcels) /\ Len(first) = 1 + a
      /\ \A i \in 1..(1 + a) : first[i] = IF i <= 1 THEN <<buffer>>[i] ELSE received[i - 1]
  BY <1>1, <1>3, ConcatProperties
<1>5. Places = first \o refused
  BY DEF Places
<1>6. /\ Places \in Seq(Parcels) /\ Len(Places) = 1 + a + b
      /\ \A i \in 1..(1 + a + b) : Places[i] = IF i <= 1 + a THEN first[i] ELSE refused[i - (1 + a)]
  <2>1. Len(refused) = b
    OBVIOUS
  <2> HIDE DEF first, a, b
  <2>2. /\ first \o refused \in Seq(Parcels)
        /\ Len(first \o refused) = Len(first) + Len(refused)
        /\ \A i \in 1..(Len(first) + Len(refused)) :
             (first \o refused)[i] = IF i <= Len(first) THEN first[i] ELSE refused[i - Len(first)]
    BY <1>1, <1>4, ConcatProperties
  <2>3. QED
    BY <1>4, <1>5, <2>1, <2>2
<1>7. DOMAIN Places = 1..(1 + a + b)
  BY <1>6
<1>8. Places[1] = buffer
  BY <1>2, <1>3, <1>4, <1>6
<1>9. \A i \in 1..a : Places[1 + i] = received[i]
  <2> HIDE DEF a, b, first
  <2>1. QED
    BY <1>2, <1>4, <1>6
<1>10. \A i \in 1..b : Places[1 + a + i] = refused[i]
  <2> HIDE DEF a, b, first
  <2>1. ASSUME NEW i \in 1..b PROVE Places[1 + a + i] = refused[i]
    <3>1. 1 + a + i \in 1..(1 + a + b) /\ ~(1 + a + i <= 1 + a) /\ (1 + a + i) - (1 + a) = i
      BY <1>2
    <3>2. QED
      BY <1>6, <3>1
  <2>2. QED
    BY <2>1
<1>11. \A i \in 1..(1 + a + b) :
         \/ i = 1
         \/ i - 1 \in 1..a /\ i = 1 + (i - 1)
         \/ i - (1 + a) \in 1..b /\ i = 1 + a + (i - (1 + a))
  <2> HIDE DEF a, b
  <2>1. QED
    BY <1>2
<1>12. /\ 1 \in DOMAIN Places
       /\ \A i \in 1..a : 1 + i \in DOMAIN Places
       /\ \A i \in 1..b : 1 + a + i \in DOMAIN Places
  <2> HIDE DEF a, b
  <2>1. QED
    BY <1>2, <1>7
<1>13. QED
  <2> HIDE DEF a, b, first
  <2> DEFINE P == {i \in DOMAIN Places : r \in Range(Places[i])}
             Q == (IF r \in Range(buffer) THEN {1} ELSE {})
                    \cup {1 + i : i \in WithCollector(r)} \cup {1 + a + i : i \in LostToRefusal(r)}
  <2>1. /\ \A i : i \in WithCollector(r) <=> i \in 1..a /\ r \in Range(received[i])
        /\ \A i : i \in LostToRefusal(r) <=> i \in 1..b /\ r \in Range(refused[i])
    BY <1>2 DEF WithCollector, LostToRefusal
  <2>2. ASSUME NEW i \in P PROVE i \in Q
    <3>1. CASE i = 1
      BY <1>8, <3>1
    <3>2. CASE i - 1 \in 1..a /\ i = 1 + (i - 1)
      <4>1. PICK k \in 1..a : i = 1 + k
        BY <3>2
      <4>2. k \in WithCollector(r)
        BY <1>9, <2>1, <4>1
      <4>3. QED
        BY <4>1, <4>2
    <3>3. CASE i - (1 + a) \in 1..b /\ i = 1 + a + (i - (1 + a))
      <4>1. PICK k \in 1..b : i = 1 + a + k
        BY <3>3
      <4>2. k \in LostToRefusal(r)
        BY <1>10, <2>1, <4>1
      <4>3. QED
        BY <4>1, <4>2
    <3>4. QED
      BY <1>7, <1>11, <3>1, <3>2, <3>3
  <2>3. ASSUME NEW i \in Q PROVE i \in P
    BY <1>8, <1>9, <1>10, <1>12, <2>1, <2>3
  <2>4. P = Q
    BY <2>2, <2>3
  <2>5. QED
    BY <2>4 DEF a

LEMMA EachCountedOnce == RemoteLogInv => EachInOnePlace
<1> SUFFICES ASSUME RemoteLogInv, NEW r \in 1..logged
             PROVE  Cardinality({i \in DOMAIN Places : r \in Range(Places[i])})
                      + Cardinality(InHands(r)) = 1
  BY DEF EachInOnePlace, InHands
<1> DEFINE P == {i \in DOMAIN Places : r \in Range(Places[i])}
<1>1. P = (IF r \in Range(buffer) THEN {1} ELSE {}) \cup {1 + i : i \in WithCollector(r)}
            \cup {1 + Len(received) + i : i \in LostToRefusal(r)}
  BY PlacesOf
<1>2. InOne(r)
  BY DEF RemoteLogInv, RemoteLogTypeOK, RecordsHavePlaces
<1>3. \/ (\E x : P = {x}) /\ InHands(r) = {}
      \/ P = {} /\ \E t : InHands(r) = {t}
  <2> HIDE DEF P
  <2>1. CASE r \in Range(buffer) /\ InHands(r) = {} /\ WithCollector(r) = {} /\ LostToRefusal(r) = {}
    <3>1. P = {1}
      BY <1>1, <2>1
    <3>2. QED
      BY <2>1, <3>1
  <2>2. CASE /\ \E t \in Threads : InHands(r) = {t}
             /\ r \notin Range(buffer) /\ WithCollector(r) = {} /\ LostToRefusal(r) = {}
    <3>1. P = {}
      BY <1>1, <2>2
    <3>2. QED
      BY <2>2, <3>1
  <2>3. CASE /\ \E i \in DOMAIN received : WithCollector(r) = {i}
             /\ r \notin Range(buffer) /\ InHands(r) = {} /\ LostToRefusal(r) = {}
    <3>1. PICK i \in DOMAIN received : WithCollector(r) = {i}
      BY <2>3
    <3>2. P = {1 + i}
      BY <1>1, <2>3, <3>1
    <3>3. QED
      BY <2>3, <3>2
  <2>4. CASE /\ \E i \in DOMAIN refused : LostToRefusal(r) = {i}
             /\ r \notin Range(buffer) /\ InHands(r) = {} /\ WithCollector(r) = {}
    <3>1. PICK i \in DOMAIN refused : LostToRefusal(r) = {i}
      BY <2>4
    <3>2. P = {1 + Len(received) + i}
      BY <1>1, <2>4, <3>1
    <3>3. QED
      BY <2>4, <3>2
  <2>5. QED
    BY <1>2, <2>1, <2>2, <2>3, <2>4 DEF InOne
<1>4. QED
  <2> HIDE DEF P
  <2>1. Cardinality({}) = 0 /\ \A x : Cardinality({x}) = 1
    BY FS_EmptySet, FS_Singleton
  <2>2. Cardinality(P) + Cardinality(InHands(r)) = 1
    <3>1. CASE (\E x : P = {x}) /\ InHands(r) = {}
      <4>1. Cardinality(P) = 1 /\ Cardinality(InHands(r)) = 0
        BY <2>1, <3>1
      <4>2. QED
        BY <4>1
    <3>2. CASE P = {} /\ \E t : InHands(r) = {t}
      <4>1. Cardinality(P) = 0 /\ Cardinality(InHands(r)) = 1
        BY <2>1, <3>2
      <4>2. QED
        BY <4>1
    <3>3. QED
      BY <1>3, <3>1, <3>2
  <2>3. QED
    BY <2>2 DEF P

(* Every record is in one place and none is sent twice, batches are small  *)
(* and in order, and only what the buffer holds is lost at exit.           *)
THEOREM LogAccountedFor == RemoteLogSpec => []LogIsAccountedFor
<1>1. ASSUME RemoteLogInv PROVE BatchesAreSmall
  <2>1. buffer \in Parcels /\ \A i \in DOMAIN received : received[i] \in Parcels
    BY <1>1 DEF RemoteLogInv, RemoteLogTypeOK
  <2>2. QED
    BY <2>1 DEF BatchesAreSmall, Parcels, Ascending
<1>2. ASSUME RemoteLogInv PROVE LossAtExit
  BY <1>2, ThreadFacts DEF RemoteLogInv, RemoteLogTypeOK, HandlerIsServed, LossAtExit, Parcels
<1>3. RemoteLogInv => LogIsAccountedFor
  BY <1>1, <1>2, EachCountedOnce DEF LogIsAccountedFor
<1>4. QED
  BY <1>3, RemoteLogInductive, PTL

-----------------------------------------------------------------------------
(* The pages of the dashboard.                                             *)

(* Of a set of numbers, what is not among the k greatest has k of them     *)
(* above it.                                                               *)
LEMMA NewestPush ==
  ASSUME NEW S, S \subseteq Nat, IsFiniteSet(S), NEW k \in Nat
  PROVE  LET newest == {i \in S : Cardinality({j \in S : j >= i}) <= k}
         IN  /\ \A i \in S \ newest : Cardinality({j \in newest : j > i}) = k
             /\ Cardinality(S) <= k => newest = S
<1> DEFINE up(i) == {j \in S : j >= i}
           newest == {i \in S : Cardinality(up(i)) <= k}
<1>1. /\ newest \subseteq S
      /\ \A i \in S : i \in newest <=> Cardinality(up(i)) <= k
  OBVIOUS
<1>2. \A i \in S : up(i) \subseteq S /\ \A j \in S : j \in up(i) <=> j >= i
  OBVIOUS
<1>3. SUFFICES /\ \A i \in S \ newest : Cardinality({j \in newest : j > i}) = k
               /\ Cardinality(S) <= k => newest = S
  OBVIOUS
<1> HIDE DEF up, newest
<1>4. \A i \in S : IsFiniteSet(up(i)) /\ Cardinality(up(i)) \in Nat /\ Cardinality(up(i)) <= Cardinality(S)
  BY <1>2, FS_Subset, FS_CardinalityType
<1>5. Cardinality(S) \in Nat /\ IsFiniteSet(newest) /\ Cardinality(newest) \in Nat
  BY <1>1, FS_Subset, FS_CardinalityType
<1>6. ASSUME NEW i \in S \ newest PROVE Cardinality({j \in newest : j > i}) = k
  <2>1. ASSUME NEW j \in newest PROVE j > i
    <3>1. SUFFICES ASSUME j <= i PROVE FALSE
      BY <1>1
    <3>2. up(i) \subseteq up(j)
      <4>1. \A n \in up(i) : n \in S /\ n >= i /\ n \in Nat
        BY <1>2, <1>6
      <4>2. i \in Nat /\ j \in Nat
        BY <1>1, <1>6, <2>1
      <4>3. \A n \in up(i) : n >= j
        BY <3>1, <4>1, <4>2
      <4>4. QED
        BY <1>1, <1>2, <2>1, <4>1, <4>3
    <3>3. Cardinality(up(i)) <= Cardinality(up(j))
      BY <1>1, <1>4, <2>1, <3>2, FS_Subset
    <3>4. QED
      BY <1>1, <1>4, <1>6, <2>1, <3>3
  <2>2. {j \in newest : j > i} = newest
    BY <2>1
  <2>3. Cardinality(newest) <= k
    <3>1. CASE newest = {}
      BY <3>1, FS_EmptySet
    <3>2. CASE newest # {}
      <4> DEFINE m == Min(newest)
      <4>1. m \in newest /\ \A s \in newest : m <= s
        <5>1. newest \in SUBSET Nat
          BY <1>1
        <5>2. QED
          BY <3>2, <5>1, SmallestOf
      <4> HIDE DEF m
      <4>2. m \in S /\ IsFiniteSet(up(m)) /\ Cardinality(up(m)) \in Nat /\ Cardinality(up(m)) <= k
        BY <1>1, <1>4, <4>1
      <4>3. newest \subseteq up(m)
        BY <1>1, <1>2, <4>1, <4>2
      <4>4. Cardinality(newest) <= Cardinality(up(m))
        BY <4>2, <4>3, FS_Subset
      <4>5. QED
        BY <1>5, <4>2, <4>4
    <3>3. QED
      BY <3>1, <3>2
  <2>4. Cardinality(newest) >= k
    <3> DEFINE rest == S \ newest
               x == Max(rest)
    <3>1. rest \in SUBSET Int /\ IsFiniteSet(rest) /\ rest # {}
      <4>1. rest \subseteq S /\ i \in rest
        BY <1>6
      <4>2. IsFiniteSet(rest)
        BY <4>1, FS_Subset
      <4>3. \A s \in rest : s \in Int
        BY <4>1
      <4>4. QED
        BY <4>1, <4>2, <4>3
    <3>2. x \in rest /\ \A s \in rest : s <= x
      BY <3>1, EndsOf
    <3> HIDE DEF x
    <3>3. up(x) \subseteq newest \cup {x}
      <4>1. ASSUME NEW j \in up(x), j \notin newest PROVE j = x
        <5>1. j \in S /\ j >= x /\ x \in S
          BY <1>2, <3>2, <4>1
        <5>2. j <= x
          BY <3>2, <4>1, <5>1
        <5>3. QED
          BY <5>1, <5>2
      <4>2. QED
        BY <4>1
    <3>4. IsFiniteSet(newest \cup {x}) /\ Cardinality(newest \cup {x}) = Cardinality(newest) + 1
      BY <1>5, <3>2, FS_AddElement
    <3>5. Cardinality(up(x)) <= Cardinality(newest) + 1
      BY <3>3, <3>4, FS_Subset
    <3>6. Cardinality(up(x)) > k /\ Cardinality(up(x)) \in Nat
      BY <1>1, <1>4, <3>2
    <3>7. QED
      BY <1>5, <3>5, <3>6
  <2>5. QED
    BY <1>5, <2>2, <2>3, <2>4
<1>7. ASSUME Cardinality(S) <= k PROVE newest = S
  <2>1. \A i \in S : Cardinality(up(i)) <= k
    BY <1>4, <1>5, <1>7
  <2>2. QED
    BY <1>1, <2>1
<1>8. QED
  BY <1>6, <1>7

-----------------------------------------------------------------------------
TradeRow == [state : {"open", "closed"}, pnl : Int, closed : Nat]

DashboardTypeOK ==
  /\ table \in Seq(TradeRow) /\ begun \in Seq(TradeRow)
  /\ inserted \in Nat
  /\ report \in {Nothing, Torn} \cup Int
  /\ page \in [name : {"none", "paper", "investments", "overview"}, step : {"second", "shown"},
               closed : SUBSET Nat, open : SUBSET Nat, equity : Int \cup {Nothing}, asked : Nat]

(* The table a page began with is an earlier one: rows are added, and a    *)
(* closed one stays as it is.                                              *)
Aged(old, new) ==
  /\ Len(old) <= Len(new)
  /\ \A i \in DOMAIN old : old[i].state = "closed" => new[i] = old[i]

(* What the first query of a page under way brought.                       *)
PageIsBegun ==
  page.step = "second" =>
    /\ page.name # "none"
    /\ IF OpenFirst(page.name) THEN page.open = OpenRows(begun)
       ELSE page.closed = NewestClosed(begun)

DashboardInv == DashboardTypeOK /\ Aged(begun, table) /\ PageIsBegun /\ PagesAreTrue

LEMMA TableFacts ==
  ASSUME NEW t \in Seq(TradeRow)
  PROVE  /\ DOMAIN t = 1..Len(t) /\ Len(t) \in Nat
         /\ \A i \in DOMAIN t : t[i] \in TradeRow
         /\ OpenRows(t) \in SUBSET Nat /\ ClosedRows(t) \in SUBSET Nat
         /\ IsFiniteSet(ClosedRows(t)) /\ Cardinality(ClosedRows(t)) \in Nat
         /\ NewestClosed(t) \in SUBSET Nat /\ NewestClosed(t) \subseteq ClosedRows(t)
         /\ DOMAIN t = OpenRows(t) \cup ClosedRows(t)
         /\ OpenRows(t) \cap ClosedRows(t) = {}
<1>1. DOMAIN t = 1..Len(t) /\ Len(t) \in Nat /\ \A i \in DOMAIN t : t[i] \in TradeRow
  OBVIOUS
<1>2. IsFiniteSet(1..Len(t))
  BY <1>1, FS_Interval
<1>3. ClosedRows(t) \subseteq 1..Len(t) /\ OpenRows(t) \subseteq 1..Len(t)
  BY <1>1 DEF ClosedRows, OpenRows
<1>4. IsFiniteSet(ClosedRows(t)) /\ Cardinality(ClosedRows(t)) \in Nat
  BY <1>2, <1>3, FS_Subset, FS_CardinalityType
<1>5. NewestClosed(t) \subseteq ClosedRows(t)
  BY DEF NewestClosed
<1>6. \A i \in DOMAIN t : t[i].state = "open" \/ t[i].state = "closed"
  BY <1>1 DEF TradeRow
<1>7. DOMAIN t = OpenRows(t) \cup ClosedRows(t) /\ OpenRows(t) \cap ClosedRows(t) = {}
  BY <1>6 DEF OpenRows, ClosedRows
<1>8. QED
  <2>1. OpenRows(t) \in SUBSET Nat /\ ClosedRows(t) \in SUBSET Nat
    BY <1>1, <1>3
  <2>2. NewestClosed(t) \in SUBSET Nat
    BY <1>5, <2>1
  <2>3. QED
    BY <1>1, <1>4, <1>5, <1>7, <2>1, <2>2

LEMMA EarnedIsInt ==
  ASSUME NEW t \in Seq(TradeRow), NEW rows, rows \subseteq ClosedRows(t)
  PROVE  Earned(t, rows) \in Int /\ EquityCurve(t, rows) \in Int
<1> DEFINE f == [i \in rows |-> t[i].pnl]
<1>1. IsFiniteSet(rows)
  BY TableFacts, FS_Subset
<1>2. \A i \in rows : f[i] \in Int
  BY TableFacts DEF TradeRow
<1>3. Earned(t, rows) = Sum(f, rows)
  BY SumIs DEF Earned
<1>4. Sum(f, rows) \in Int
  <2> HIDE DEF f
  <2>1. QED
    BY <1>1, <1>2, SumBounds, 0 \in Int
<1>5. QED
  BY <1>3, <1>4, DashboardAssumption DEF EquityCurve

(* An aged table has every closed row of before among its closed ones.     *)
LEMMA ClosedStay ==
  ASSUME NEW old \in Seq(TradeRow), NEW new \in Seq(TradeRow), Aged(old, new)
  PROVE  /\ DOMAIN old \subseteq DOMAIN new
         /\ ClosedRows(old) \subseteq ClosedRows(new)
         /\ \A i \in DOMAIN old \ OpenRows(new) : i \in ClosedRows(new)
<1>1. DOMAIN old = 1..Len(old) /\ DOMAIN new = 1..Len(new) /\ Len(old) \in Nat /\ Len(new) \in Nat
  OBVIOUS
<1>2. DOMAIN old \subseteq DOMAIN new
  BY <1>1 DEF Aged
<1>3. QED
  BY <1>2, TableFacts DEF Aged, ClosedRows

LEMMA AgedTransitive ==
  ASSUME NEW a \in Seq(TradeRow), NEW b \in Seq(TradeRow), NEW c \in Seq(TradeRow),
         Aged(a, b), Aged(b, c)
  PROVE  Aged(a, c)
<1>1. Len(a) \in Nat /\ Len(b) \in Nat /\ Len(c) \in Nat
  OBVIOUS
<1>2. DOMAIN a \subseteq DOMAIN b
  BY ClosedStay
<1>3. QED
  BY <1>1, <1>2 DEF Aged

(* While no page is asked for or finished, the book grows older and what   *)
(* pages show stays true.                                                  *)
LEMMA PagesStayTrue ==
  ASSUME DashboardInv, table' \in Seq(TradeRow), Aged(table, table'),
         UNCHANGED <<page, begun>>, inserted' \in Nat, report' \in {Nothing, Torn} \cup Int
  PROVE  DashboardInv'
<1>1. DashboardTypeOK'
  BY DEF DashboardInv, DashboardTypeOK
<1>2. Aged(begun, table')
  BY AgedTransitive DEF DashboardInv, DashboardTypeOK
<1>3. PageIsBegun'
  BY DEF DashboardInv, PageIsBegun, OpenRows, NewestClosed, ClosedRows
<1>4. ClosedRows(table) \subseteq ClosedRows(table') /\ DOMAIN begun \subseteq DOMAIN table
  BY ClosedStay DEF DashboardInv, DashboardTypeOK
<1>5. PaperCountsOnce'
  <2>1. SUFFICES ASSUME Shows("paper")
                 PROVE  \A i \in DOMAIN begun \ (page.open \cup page.closed) : table'[i].state = "closed"
    BY DEF DashboardInv, PagesAreTrue, PaperCountsOnce, Shows, Newer, Earned, Realised, ClosedRows
  <2>2. ASSUME NEW i \in DOMAIN begun \ (page.open \cup page.closed) PROVE i \in ClosedRows(table)
    BY <1>4, <2>1, <2>2 DEF DashboardInv, PagesAreTrue, PaperCountsOnce, ClosedRows
  <2>3. QED
    BY <1>4, <2>2 DEF ClosedRows
<1>6. InvestmentsLoseNothing'
  BY <1>4 DEF DashboardInv, PagesAreTrue, InvestmentsLoseNothing, Shows, Newer, OpenRows, ClosedRows
<1>7. OverviewHasEquity'
  BY DEF DashboardInv, PagesAreTrue, OverviewHasEquity, Shows
<1>8. QED
  BY <1>1, <1>2, <1>3, <1>5, <1>6, <1>7 DEF DashboardInv, PagesAreTrue

LEMMA AgedSelf == ASSUME NEW t PROVE Aged(t, t)
BY DEF Aged

LEMMA CommitAges ==
  ASSUME DashboardInv, CommitBatch
  PROVE  table' \in Seq(TradeRow) /\ Aged(table, table')
<1> DEFINE added == [k \in 1..inserted |-> [state |-> "open", pnl |-> 0, closed |-> 0]]
<1>1. table \in Seq(TradeRow) /\ inserted \in Nat
  BY DEF DashboardInv, DashboardTypeOK
<1>2. added \in Seq(TradeRow)
  <2>1. \A k \in 1..inserted : added[k] \in TradeRow
    BY DEF TradeRow
  <2>2. QED
    BY <1>1, <2>1
<1>3. table' = table \o added
  BY DEF CommitBatch
<1> HIDE DEF added
<1>4. table \o added \in Seq(TradeRow) /\ Len(table \o added) = Len(table) + Len(added)
      /\ \A i \in 1..Len(table) : (table \o added)[i] = table[i]
  BY <1>1, <1>2
<1>5. Len(table) \in Nat /\ Len(added) \in Nat /\ DOMAIN table = 1..Len(table)
  BY <1>1, <1>2
<1>6. QED
  BY <1>3, <1>4, <1>5 DEF Aged

LEMMA CloseAges ==
  ASSUME DashboardInv, CloseRow
  PROVE  table' \in Seq(TradeRow) /\ Aged(table, table')
<1>1. PICK i \in OpenRows(table), r \in Results :
        table' = [table EXCEPT ![i] = [state |-> "closed", pnl |-> r,
                                       closed |-> Cardinality(ClosedRows(table)) + 1]]
  BY DEF CloseRow
<1>2. table \in Seq(TradeRow) /\ i \in DOMAIN table /\ table[i].state = "open"
  BY <1>1 DEF DashboardInv, DashboardTypeOK, OpenRows
<1> DEFINE row == [state |-> "closed", pnl |-> r, closed |-> Cardinality(ClosedRows(table)) + 1]
<1>3. row \in TradeRow
  <2>1. Cardinality(ClosedRows(table)) \in Nat /\ r \in Int
    BY <1>1, <1>2, TableFacts, DashboardAssumption
  <2>2. QED
    BY <2>1 DEF TradeRow
<1>4. table' = [table EXCEPT ![i] = row]
  BY <1>1
<1> HIDE DEF row
<1>5. table' \in Seq(TradeRow) /\ Len(table') = Len(table) /\ Len(table) \in Nat
  BY <1>2, <1>3, <1>4
<1>6. \A j \in DOMAIN table : j # i => table'[j] = table[j]
  BY <1>4
<1>7. QED
  BY <1>2, <1>5, <1>6 DEF Aged

-----------------------------------------------------------------------------
LEMMA AskedPage ==
  ASSUME DashboardInv, NEW name \in {"paper", "investments", "overview"}, AskPage(name)
  PROVE  DashboardInv'
<1>1. DashboardTypeOK
  BY DEF DashboardInv
<1>2. begun' = table /\ table' = table /\ report' = report /\ inserted' = inserted
  BY DEF AskPage
<1>3. OpenRows(table) \in SUBSET Nat /\ NewestClosed(table) \in SUBSET Nat
  BY <1>1, TableFacts DEF DashboardTypeOK
<1>4. page' = [page EXCEPT !.name = name, !.step = "second", !.asked = @ + 1, !.equity = Nothing,
                           !.open = IF OpenFirst(name) THEN OpenRows(table) ELSE {},
                           !.closed = IF OpenFirst(name) THEN {} ELSE NewestClosed(table)]
  BY DEF AskPage
<1>5. /\ page'.name = name /\ page'.step = "second"
      /\ page'.open = IF OpenFirst(name) THEN OpenRows(table) ELSE {}
      /\ page'.closed = IF OpenFirst(name) THEN {} ELSE NewestClosed(table)
  BY <1>1, <1>4 DEF DashboardTypeOK
<1>6. DashboardTypeOK'
  <2> DEFINE first == IF OpenFirst(name) THEN OpenRows(table) ELSE {}
             last == IF OpenFirst(name) THEN {} ELSE NewestClosed(table)
  <2>1. first \in SUBSET Nat /\ last \in SUBSET Nat
    BY <1>3
  <2>2. page' = [page EXCEPT !.name = name, !.step = "second", !.asked = @ + 1, !.equity = Nothing,
                             !.open = first, !.closed = last]
    BY <1>4
  <2> HIDE DEF first, last
  <2>3. page' = [name |-> name, step |-> "second", closed |-> last, open |-> first,
                 equity |-> Nothing, asked |-> page.asked + 1]
    BY <1>1, <2>2 DEF DashboardTypeOK
  <2>4. page.asked \in Nat
    BY <1>1 DEF DashboardTypeOK
  <2>5. QED
    BY <1>1, <1>2, <2>1, <2>3, <2>4 DEF DashboardTypeOK
<1>7. Aged(begun, table)'
  BY <1>2, AgedSelf
<1>8. PageIsBegun'
  <2>1. OpenRows(begun)' = OpenRows(table) /\ NewestClosed(begun)' = NewestClosed(table)
    BY <1>2 DEF OpenRows, NewestClosed, ClosedRows
  <2>2. QED
    BY <1>5, <2>1 DEF PageIsBegun, OpenFirst
<1>9. PagesAreTrue'
  BY <1>5 DEF PagesAreTrue, PaperCountsOnce, InvestmentsLoseNothing, OverviewHasEquity, Shows
<1>10. QED
  BY <1>6, <1>7, <1>8, <1>9 DEF DashboardInv

LEMMA PaperFinished ==
  ASSUME DashboardInv, FinishTradePage, ~OpenFirst(page.name)
  PROVE  DashboardInv'
<1>1. /\ DashboardTypeOK /\ page.step = "second" /\ page.name \in {"paper"}
      /\ page.closed = NewestClosed(begun)
  BY DEF DashboardInv, DashboardTypeOK, FinishTradePage, PageIsBegun, OpenFirst
<1>2. /\ UNCHANGED <<table, inserted, report, begun>>
      /\ page' = [page EXCEPT !.step = "shown", !.open = OpenRows(table),
                              !.equity = EquityCurve(begun, page.closed)]
  BY DEF FinishTradePage
<1>3. table \in Seq(TradeRow) /\ begun \in Seq(TradeRow) /\ Aged(begun, table)
  BY <1>1 DEF DashboardInv, DashboardTypeOK
<1>4. page.closed \subseteq ClosedRows(begun)
  BY <1>1, <1>3, TableFacts
<1>5. OpenRows(table) \in SUBSET Nat /\ EquityCurve(begun, page.closed) \in Int
  BY <1>3, <1>4, TableFacts, EarnedIsInt
<1>6. /\ page'.name = "paper" /\ page'.step = "shown" /\ page'.closed = page.closed
      /\ page'.open = OpenRows(table) /\ page'.equity = EquityCurve(begun, page.closed)
  BY <1>1, <1>2 DEF DashboardTypeOK
<1>7. DashboardTypeOK'
  BY <1>1, <1>2, <1>5 DEF DashboardTypeOK
<1>8. Aged(begun, table)' /\ PageIsBegun'
  BY <1>2, <1>3, <1>6 DEF PageIsBegun
<1> DEFINE newest == {i \in ClosedRows(begun) :
                        Cardinality({j \in ClosedRows(begun) : j >= i}) <= RowsShown}
<1>9. page.closed = newest
  BY <1>1 DEF NewestClosed
<1>10. /\ \A i \in ClosedRows(begun) \ newest : Cardinality({j \in newest : j > i}) = RowsShown
       /\ Cardinality(ClosedRows(begun)) <= RowsShown => newest = ClosedRows(begun)
  BY <1>3, TableFacts, NewestPush, DashboardAssumption
<1> HIDE DEF newest
<1>11. PaperCountsOnce'
  <2>1. OpenRows(table) \cap page.closed = {}
    BY <1>3, <1>4, ClosedStay, TableFacts
  <2>2. ASSUME NEW i \in DOMAIN begun \ (OpenRows(table) \cup page.closed)
        PROVE  table[i].state = "closed" /\ (begun[i].state = "open" \/ Newer(i)' = RowsShown)
    <3>1. table[i].state = "closed"
      BY <1>3, <2>2, ClosedStay DEF ClosedRows
    <3>2. i \in ClosedRows(begun) => i \in ClosedRows(begun) \ newest
      BY <1>9, <2>2
    <3>3. Newer(i)' = Cardinality({j \in newest : j > i})
      BY <1>6, <1>9 DEF Newer
    <3>4. i \in OpenRows(begun) \/ i \in ClosedRows(begun)
      BY <1>3, <2>2, TableFacts
    <3>5. QED
      BY <1>10, <3>1, <3>2, <3>3, <3>4 DEF OpenRows
  <2>3. Cardinality(ClosedRows(begun)) <= RowsShown
          => EquityCurve(begun, page.closed) = PaperCash + Realised(begun)
    BY <1>9, <1>10 DEF EquityCurve, Realised
  <2>4. Realised(begun)' = Realised(begun) /\ ClosedRows(begun)' = ClosedRows(begun)
    BY <1>2 DEF Realised, Earned, ClosedRows
  <2>5. QED
    BY <1>2, <1>6, <2>1, <2>2, <2>3, <2>4 DEF PaperCountsOnce
<1>12. QED
  BY <1>6, <1>7, <1>8, <1>11
     DEF DashboardInv, PagesAreTrue, InvestmentsLoseNothing, OverviewHasEquity, Shows

LEMMA InvestmentsFinished ==
  ASSUME DashboardInv, FinishTradePage, OpenFirst(page.name)
  PROVE  DashboardInv'
<1>1. /\ DashboardTypeOK /\ page.step = "second" /\ page.name = "investments"
      /\ page.open = OpenRows(begun)
  BY DEF DashboardInv, FinishTradePage, PageIsBegun, OpenFirst
<1>2. /\ UNCHANGED <<table, inserted, report, begun>>
      /\ page' = [page EXCEPT !.step = "shown", !.closed = NewestClosed(table)]
  BY DEF FinishTradePage
<1>3. table \in Seq(TradeRow) /\ begun \in Seq(TradeRow) /\ Aged(begun, table)
  BY <1>1 DEF DashboardInv, DashboardTypeOK
<1>4. NewestClosed(table) \in SUBSET Nat /\ NewestClosed(table) \subseteq ClosedRows(table)
  BY <1>3, TableFacts
<1>5. /\ page'.name = "investments" /\ page'.step = "shown" /\ page'.open = OpenRows(begun)
      /\ page'.closed = NewestClosed(table)
  BY <1>1, <1>2 DEF DashboardTypeOK
<1>6. DashboardTypeOK'
  BY <1>1, <1>2, <1>4 DEF DashboardTypeOK
<1>7. Aged(begun, table)' /\ PageIsBegun'
  BY <1>2, <1>3, <1>5 DEF PageIsBegun
<1> DEFINE newest == {i \in ClosedRows(table) :
                        Cardinality({j \in ClosedRows(table) : j >= i}) <= RowsShown}
<1>8. NewestClosed(table) = newest
  BY DEF NewestClosed
<1>9. \A i \in ClosedRows(table) \ newest : Cardinality({j \in newest : j > i}) = RowsShown
  BY <1>3, TableFacts, NewestPush, DashboardAssumption
<1> HIDE DEF newest
<1>10. InvestmentsLoseNothing'
  <2>1. ASSUME NEW i \in DOMAIN begun \ (OpenRows(begun) \cup newest) PROVE Newer(i)' = RowsShown
    <3>1. i \in ClosedRows(table) \ newest
      <4>1. i \in ClosedRows(begun) /\ i \notin newest
        BY <1>3, <2>1, TableFacts
      <4>2. QED
        BY <1>3, <4>1, ClosedStay
    <3>2. Newer(i)' = Cardinality({j \in newest : j > i})
      BY <1>5, <1>8 DEF Newer
    <3>3. QED
      BY <1>9, <3>1, <3>2
  <2>2. OpenRows(begun)' = OpenRows(begun) /\ ClosedRows(table)' = ClosedRows(table)
    BY <1>2 DEF OpenRows, ClosedRows
  <2>3. QED
    BY <1>2, <1>4, <1>5, <1>8, <2>1, <2>2 DEF InvestmentsLoseNothing
<1>11. QED
  BY <1>5, <1>6, <1>7, <1>10 DEF DashboardInv, PagesAreTrue, PaperCountsOnce, OverviewHasEquity, Shows

LEMMA OverviewFinished ==
  ASSUME DashboardInv, FinishOverview
  PROVE  DashboardInv'
<1> DEFINE shown == IF report \in {Nothing, Torn} THEN EquityCurve(begun, page.closed) ELSE report
<1>1. /\ DashboardTypeOK /\ page.step = "second" /\ page.name = "overview"
      /\ page.closed = NewestClosed(begun)
  BY DEF DashboardInv, FinishOverview, PageIsBegun, OpenFirst
<1>2. UNCHANGED <<table, inserted, report, begun>> /\ page' = [page EXCEPT !.step = "shown", !.equity = shown]
  BY DEF FinishOverview
<1>3. shown \in Int
  <2>1. begun \in Seq(TradeRow) /\ page.closed \subseteq ClosedRows(begun)
    BY <1>1, TableFacts DEF DashboardTypeOK
  <2>2. EquityCurve(begun, page.closed) \in Int
    BY <2>1, EarnedIsInt
  <2>3. QED
    BY <1>1, <2>2 DEF DashboardTypeOK
<1> HIDE DEF shown
<1>4. page'.name = "overview" /\ page'.step = "shown" /\ page'.equity \in Int
  BY <1>1, <1>2, <1>3 DEF DashboardTypeOK
<1>5. DashboardTypeOK'
  BY <1>1, <1>2, <1>3 DEF DashboardTypeOK
<1>6. Aged(begun, table)' /\ PageIsBegun'
  BY <1>2, <1>4 DEF PageIsBegun, DashboardInv
<1>7. QED
  BY <1>4, <1>5, <1>6 DEF DashboardInv, PagesAreTrue, PaperCountsOnce, InvestmentsLoseNothing,
     OverviewHasEquity, Shows

LEMMA DashboardStart == DashboardInit => DashboardInv
<1> SUFFICES ASSUME DashboardInit PROVE DashboardInv
  OBVIOUS
<1>1. DashboardTypeOK
  BY DEF DashboardInit, DashboardTypeOK, NoPage
<1>2. Aged(begun, table) /\ PageIsBegun /\ PagesAreTrue
  BY AgedSelf DEF DashboardInit, NoPage, PageIsBegun, PagesAreTrue, PaperCountsOnce,
     InvestmentsLoseNothing, OverviewHasEquity, Shows
<1>3. QED
  BY <1>1, <1>2 DEF DashboardInv

LEMMA DashboardInductive == DashboardInv /\ [DashboardNext]_dashboardVars => DashboardInv'
<1> SUFFICES ASSUME DashboardInv, [DashboardNext]_dashboardVars PROVE DashboardInv'
  OBVIOUS
<1>1. table \in Seq(TradeRow) /\ inserted \in Nat /\ report \in {Nothing, Torn} \cup Int
  BY DEF DashboardInv, DashboardTypeOK
<1>2. CASE CommitBatch
  BY <1>1, <1>2, CommitAges, PagesStayTrue DEF CommitBatch, DashboardInv, DashboardTypeOK
<1>3. CASE CloseRow
  BY <1>1, <1>3, CloseAges, PagesStayTrue DEF CloseRow
<1>4. CASE WriteReport
  <2>1. PICK m \in IF OpenRows(table) = {} THEN {0} ELSE Marks : report' = PaperCash + Realised(table) + m
    BY <1>4 DEF WriteReport
  <2>2. Realised(table) \in Int
    BY <1>1, EarnedIsInt DEF Realised
  <2>3. report' \in Int
    BY <2>1, <2>2, DashboardAssumption
  <2>4. QED
    BY <1>1, <1>4, <2>3, AgedSelf, PagesStayTrue DEF WriteReport
<1>5. CASE InsertTrade \/ EmptyReport \/ RestartObserver \/ UNCHANGED dashboardVars
  <2>1. UNCHANGED <<table, page, begun>> /\ inserted' \in Nat /\ report' \in {Nothing, Torn} \cup Int
    BY <1>1, <1>5 DEF InsertTrade, EmptyReport, RestartObserver, dashboardVars
  <2>2. QED
    BY <1>1, <2>1, AgedSelf, PagesStayTrue
<1>6. CASE \E name \in {"paper", "investments", "overview"} : AskPage(name)
  BY <1>6, AskedPage
<1>7. CASE FinishTradePage
  BY <1>7, PaperFinished, InvestmentsFinished
<1>8. CASE FinishOverview
  BY <1>8, OverviewFinished
<1>9. QED
  BY <1>2, <1>3, <1>4, <1>5, <1>6, <1>7, <1>8 DEF DashboardNext

(* However a page's queries and the observer's steps fall between each     *)
(* other: the paper page counts no trade twice and the equity of all it    *)
(* has, the investments page loses none, and the overview has an equity    *)
(* (dashboard/data.py); for any number of trades, pages and restarts and   *)
(* any limit of the rows a query returns.                                  *)
THEOREM PagesTrue == DashboardSpec => []PagesAreTrue
<1>1. DashboardInv => PagesAreTrue
  BY DEF DashboardInv
<1>2. QED
  BY <1>1, DashboardStart, DashboardInductive, PTL DEF DashboardSpec

-----------------------------------------------------------------------------
(* The outer loop: its calendar.                                           *)
LEMMA Constants ==
  /\ DayLength \in Nat /\ DayLength > 0 /\ RegularOpen \in Nat /\ RegularClose \in Nat
  /\ PreOpen \in Nat /\ PostClose \in Nat /\ WarmupWindow \in Nat
  /\ PreOpen < RegularOpen /\ RegularOpen < RegularClose /\ RegularClose < PostClose
  /\ PostClose < DayLength /\ WarmupWindow >= 1 /\ WarmupWindow <= RegularOpen
  /\ TradingDays \subseteq Nat /\ LookAhead = 10
  /\ Horizon \in Nat /\ MaxWork \in Nat /\ BackoffMax \in Nat /\ BackoffThreshold \in Nat
  /\ MaxFailures \in Nat /\ MaxKills \in Nat
  /\ Interval \in Nat /\ ClosedSleep \in Nat /\ SleepChunk \in Nat /\ MaxCycles \in Nat
  /\ AbortThreshold \in Nat
  /\ Interval > 0 /\ ClosedSleep > 0 /\ SleepChunk > 0 /\ MaxCycles > 0 /\ AbortThreshold > 0
BY MarketHoursAssumption, RunLoopAssumption DEF LookAhead

LEMMA DayFacts ==
  ASSUME NEW t \in Nat
  PROVE  /\ Day(t) \in Nat /\ TimeOfDay(t) \in Nat /\ TimeOfDay(t) < DayLength
         /\ t = Day(t) * DayLength + TimeOfDay(t)
<1>1. DayLength \in Nat /\ DayLength > 0
  BY Constants
<1>2. Day(t) \in Nat
  BY <1>1 DEF Day
<1>3. TimeOfDay(t) \in 0..(DayLength - 1)
  BY <1>1 DEF TimeOfDay
<1>4. t = Day(t) * DayLength + TimeOfDay(t)
  BY <1>1 DEF Day, TimeOfDay
<1>5. QED
  BY <1>1, <1>2, <1>3, <1>4

LEMMA DayGrows ==
  ASSUME NEW t \in Nat, NEW u \in Nat, t <= u
  PROVE  Day(t) <= Day(u)
BY Constants DEF Day

LEMMA OpensApart ==
  ASSUME NEW d \in Nat, NEW e \in Nat
  PROVE  /\ OpenOf(d) \in Nat
         /\ OpenOf(d) >= d * DayLength + WarmupWindow
         /\ d < e => OpenOf(d) + DayLength <= OpenOf(e)
         /\ d < e => OpenOf(d) < e * DayLength
<1>1. /\ DayLength \in Nat /\ RegularOpen \in Nat /\ WarmupWindow \in Nat
      /\ RegularOpen < DayLength /\ WarmupWindow <= RegularOpen
  BY Constants
<1>2. d * DayLength \in Nat /\ e * DayLength \in Nat
  BY <1>1
<1>3. d < e => d * DayLength + DayLength <= e * DayLength
  BY <1>1
<1>4. QED
  BY <1>1, <1>2, <1>3 DEF OpenOf

(* A moment not after the open of a day is not on a later day; and how its *)
(* own open lies to it.                                                    *)
LEMMA MomentAndOpen ==
  ASSUME NEW t \in Nat, NEW d \in Nat
  PROVE  /\ t <= OpenOf(d) => Day(t) <= d
         /\ OpenOf(Day(t)) <= t <=> TimeOfDay(t) >= RegularOpen
         /\ OpenOf(d) - WarmupWindow <= t => d <= Day(t)
<1>1. /\ Day(t) \in Nat /\ TimeOfDay(t) \in Nat /\ TimeOfDay(t) < DayLength
      /\ t = Day(t) * DayLength + TimeOfDay(t)
  BY DayFacts
<1>2. /\ DayLength \in Nat /\ RegularOpen \in Nat /\ WarmupWindow \in Nat
  BY Constants
<1>3. Day(t) * DayLength \in Nat /\ d * DayLength \in Nat
  BY <1>1, <1>2
<1>4. t <= OpenOf(d) => Day(t) <= d
  <2>1. d < Day(t) => OpenOf(d) < Day(t) * DayLength
    BY <1>1, OpensApart
  <2>2. OpenOf(d) \in Nat
    BY OpensApart
  <2>3. QED
    BY <1>1, <1>3, <2>1, <2>2
<1>5. OpenOf(Day(t)) <= t <=> TimeOfDay(t) >= RegularOpen
  BY <1>1, <1>2, <1>3 DEF OpenOf
<1>6. OpenOf(d) - WarmupWindow <= t => d <= Day(t)
  <2>1. OpenOf(d) >= d * DayLength + WarmupWindow /\ OpenOf(d) \in Nat
    BY OpensApart
  <2>2. Day(t) < d => Day(t) * DayLength + DayLength <= d * DayLength
    BY <1>1, <1>2
  <2>3. QED
    BY <1>1, <1>2, <1>3, <2>1, <2>2
<1>7. QED
  BY <1>4, <1>5, <1>6

(* The next open is the first of those ahead.                              *)
LEMMA NextOpenIsFirst ==
  ASSUME NEW t \in Nat, OpensAhead(t) # {}
  PROVE  /\ NextOpenDay(t) \in OpensAhead(t)
         /\ \A d \in OpensAhead(t) : NextOpenDay(t) <= d
         /\ NextOpenDay(t) \in Nat /\ NextOpenDay(t) \in TradingDays
         /\ Day(t) <= NextOpenDay(t) /\ NextOpenDay(t) <= Day(t) + 9
         /\ t <= OpenOf(NextOpenDay(t))
<1>1. OpensAhead(t) \in SUBSET Nat
  BY DayFacts DEF OpensAhead
<1>2. \E d \in OpensAhead(t) : \A other \in OpensAhead(t) : d <= other
  BY <1>1, SmallestOf
<1>3. NextOpenDay(t) \in OpensAhead(t) /\ \A d \in OpensAhead(t) : NextOpenDay(t) <= d
  BY <1>2 DEF NextOpenDay
<1>4. QED
  BY <1>1, <1>3, DayFacts DEF OpensAhead, LookAhead

LEMMA UntilOpenType ==
  ASSUME NEW t \in Nat, OpensAhead(t) # {}
  PROVE  UntilOpen(t) \in Nat /\ t + UntilOpen(t) = OpenOf(NextOpenDay(t))
<1>1. NextOpenDay(t) \in Nat /\ t <= OpenOf(NextOpenDay(t))
  BY NextOpenIsFirst
<1>2. OpenOf(NextOpenDay(t)) \in Nat
  BY <1>1, OpensApart
<1>3. QED
  BY <1>1, <1>2 DEF UntilOpen, NextMarketOpen

(* Until the next open, the next open stays what it is.                    *)
LEMMA NextOpenStays ==
  ASSUME NEW t \in Nat, NEW u \in Nat, t <= u, OpensAhead(t) # {},
         u <= OpenOf(NextOpenDay(t))
  PROVE  OpensAhead(u) # {} /\ NextOpenDay(u) = NextOpenDay(t)
<1> DEFINE d == NextOpenDay(t)
<1>1. /\ d \in Nat /\ d \in TradingDays /\ Day(t) <= d /\ d <= Day(t) + 9
      /\ \A e \in OpensAhead(t) : d <= e
  BY NextOpenIsFirst
<1>2. Day(t) \in Nat /\ Day(u) \in Nat /\ Day(t) <= Day(u) /\ Day(u) <= d
  BY <1>1, DayFacts, DayGrows, MomentAndOpen
<1>3. d \in OpensAhead(u)
  BY <1>1, <1>2 DEF OpensAhead, LookAhead
<1>4. /\ NextOpenDay(u) \in OpensAhead(u) /\ NextOpenDay(u) <= d
      /\ NextOpenDay(u) \in Nat /\ NextOpenDay(u) \in TradingDays
      /\ Day(u) <= NextOpenDay(u) /\ u <= OpenOf(NextOpenDay(u))
  BY <1>3, NextOpenIsFirst
<1>5. OpenOf(NextOpenDay(u)) \in Nat
  BY <1>4, OpensApart
<1>6. NextOpenDay(u) \in OpensAhead(t)
  BY <1>1, <1>2, <1>4, <1>5 DEF OpensAhead, LookAhead
<1>7. QED
  BY <1>1, <1>3, <1>4, <1>6

(* A market that is closed stays closed until the next open ...            *)
LEMMA ClosedUntilOpen ==
  ASSUME NEW t \in Nat, NEW u \in Nat, t <= u, OpensAhead(t) # {},
         ~IsMarketOpen(t), u < OpenOf(NextOpenDay(t))
  PROVE  ~IsMarketOpen(u)
<1> SUFFICES ASSUME IsMarketOpen(u) PROVE FALSE
  OBVIOUS
<1> DEFINE d == NextOpenDay(t)
           e == Day(u)
<1>1. /\ d \in Nat /\ d \in TradingDays /\ Day(t) <= d /\ d <= Day(t) + 9
      /\ \A x \in OpensAhead(t) : d <= x
  BY NextOpenIsFirst
<1>2. /\ e \in Nat /\ TimeOfDay(u) \in Nat /\ Day(t) \in Nat /\ TimeOfDay(t) \in Nat
      /\ Day(t) <= e
      /\ u = e * DayLength + TimeOfDay(u) /\ t = Day(t) * DayLength + TimeOfDay(t)
  BY DayFacts, DayGrows
<1>3. e \in TradingDays /\ TimeOfDay(u) >= RegularOpen /\ TimeOfDay(u) < RegularClose
  BY <1>2, Constants DEF IsMarketOpen, SessionAt
<1>4. OpenOf(e) <= u /\ OpenOf(e) \in Nat /\ OpenOf(d) \in Nat
  BY <1>1, <1>2, <1>3, MomentAndOpen, OpensApart
<1>5. e < d
  <2>1. ~(d <= e)
    <3>1. d < e => OpenOf(d) + DayLength <= OpenOf(e)
      BY <1>1, <1>2, OpensApart
    <3>2. QED
      BY <1>1, <1>2, <1>4, <3>1, Constants
  <2>2. QED
    BY <1>1, <1>2, <2>1
<1>6. t > OpenOf(e)
  <2>1. t <= OpenOf(e) => e \in OpensAhead(t)
    BY <1>1, <1>2, <1>3, <1>5 DEF OpensAhead, LookAhead
  <2>2. QED
    BY <2>1, <1>1, <1>2, <1>4, <1>5
<1>7. Day(t) = e
  <2>1. e <= Day(t)
    BY <1>2, <1>4, <1>6, MomentAndOpen, Constants
  <2>2. QED
    BY <2>1, <1>2
<1>8. TimeOfDay(t) >= RegularOpen /\ TimeOfDay(t) <= TimeOfDay(u)
  <2>1. TimeOfDay(t) >= RegularOpen
    BY <1>4, <1>6, <1>7, MomentAndOpen
  <2>2. e * DayLength \in Nat
    BY <1>2, Constants
  <2>3. QED
    BY <2>1, <2>2, <1>2, <1>7
<1>9. IsMarketOpen(t)
  BY <1>2, <1>3, <1>7, <1>8, Constants DEF IsMarketOpen, SessionAt
<1>10. QED
  BY <1>9

(* ... and is open at the open.                                            *)
LEMMA OpenAtOpen ==
  ASSUME NEW d \in TradingDays
  PROVE  IsMarketOpen(OpenOf(d))
<1> DEFINE t == OpenOf(d)
<1>1. d \in Nat /\ t \in Nat
  BY Constants, OpensApart
<1>2. /\ Day(t) \in Nat /\ TimeOfDay(t) \in Nat /\ TimeOfDay(t) < DayLength
      /\ t = Day(t) * DayLength + TimeOfDay(t)
  BY <1>1, DayFacts
<1>3. Day(t) <= d /\ d <= Day(t)
  BY <1>1, MomentAndOpen, Constants
<1>4. Day(t) = d /\ TimeOfDay(t) = RegularOpen
  <2>1. Day(t) = d
    BY <1>1, <1>2, <1>3
  <2>2. d * DayLength \in Nat /\ t = d * DayLength + RegularOpen
    BY <1>1, Constants DEF OpenOf
  <2>3. QED
    BY <2>1, <2>2, <1>2, Constants
<1>5. QED
  BY <1>4, Constants DEF IsMarketOpen, SessionAt

-----------------------------------------------------------------------------
(* Sleeping and resting.                                                   *)
Reach == 0..Horizon

LEMMA AheadInReach ==
  ASSUME NEW t \in Reach
  PROVE  t \in Nat /\ OpensAhead(t) # {}
<1>1. t \in 0..(Horizon + BackoffMax + Interval)
  BY Constants DEF Reach
<1>2. QED
  BY <1>1, RunLoopAssumption

LEMMA SleepLength ==
  ASSUME NEW t \in Reach
  PROVE  /\ SleepFor(t) \in Nat /\ SleepFor(t) >= 1 /\ SleepFor(t) <= ClosedSleep
         /\ InWarmupWindow(t) => SleepFor(t) <= UntilOpen(t)
         /\ UntilOpen(t) > WarmupWindow => SleepFor(t) <= UntilOpen(t) - WarmupWindow
<1>1. UntilOpen(t) \in Nat /\ WarmupWindow \in Nat /\ ClosedSleep \in Nat /\ ClosedSleep > 0
  BY AheadInReach, UntilOpenType, Constants
<1> DEFINE far == Min({UntilOpen(t) - WarmupWindow, ClosedSleep})
           wanted == IF InWarmupWindow(t) THEN UntilOpen(t) ELSE far
           most == Max({1, wanted})
<1>2. far \in Int /\ far = IF UntilOpen(t) - WarmupWindow <= ClosedSleep
                           THEN UntilOpen(t) - WarmupWindow ELSE ClosedSleep
  <2>1. UntilOpen(t) - WarmupWindow \in Int /\ ClosedSleep \in Int
    BY <1>1
  <2>2. QED
    BY <2>1, MinOfTwo
<1>3. wanted \in Int
  BY <1>1, <1>2
<1>4. most \in Int /\ most = IF 1 >= wanted THEN 1 ELSE wanted
  <2> HIDE DEF wanted
  <2>1. QED
    BY <1>3, MaxOfTwo
<1>5. SleepFor(t) = Min({most, ClosedSleep})
  BY DEF SleepFor
<1>6. SleepFor(t) \in Int /\ SleepFor(t) = IF most <= ClosedSleep THEN most ELSE ClosedSleep
  <2> HIDE DEF most
  <2>1. QED
    BY <1>1, <1>4, <1>5, MinOfTwo
<1>7. InWarmupWindow(t) => UntilOpen(t) > 0 /\ UntilOpen(t) <= WarmupWindow
  BY DEF InWarmupWindow
<1> HIDE DEF far, most
<1>8. QED
  BY <1>1, <1>2, <1>4, <1>6, <1>7

(* While the flag and the day on record stay as they are, the loop has     *)
(* nothing to do until the sleep it decided on is over.                    *)
LEMMA SleepCovers ==
  ASSUME NEW t \in Reach, NextAction(t) = "sleep",
         NEW u \in t..(t + SleepFor(t) - 1)
  PROVE  NextAction(u) = "sleep"
<1> DEFINE d == NextOpenDay(t)
<1>1. t \in Nat /\ OpensAhead(t) # {}
  BY AheadInReach
<1>2. /\ UntilOpen(t) \in Nat /\ t + UntilOpen(t) = OpenOf(d)
      /\ SleepFor(t) \in Nat /\ WarmupWindow \in Nat /\ WarmupWindow >= 1
  BY <1>1, UntilOpenType, SleepLength, Constants
<1>3. LiveFeed /\ ~IsMarketOpen(t) /\ ~(InWarmupWindow(t) /\ warmupDone # d)
  BY DEF NextAction
<1>4. UntilOpen(t) > 0
  <2>1. UntilOpen(t) = 0 => t = OpenOf(d)
    BY <1>1, <1>2
  <2>2. IsMarketOpen(OpenOf(d))
    BY <1>1, NextOpenIsFirst, OpenAtOpen
  <2>3. QED
    BY <1>2, <1>3, <2>1, <2>2
<1>5. u \in Nat /\ t <= u /\ u < t + SleepFor(t)
  BY <1>1, <1>2
<1>6. SleepFor(t) <= UntilOpen(t) /\ (~InWarmupWindow(t) => SleepFor(t) <= UntilOpen(t) - WarmupWindow)
  BY <1>2, <1>4, SleepLength DEF InWarmupWindow
<1>7. u < OpenOf(d)
  BY <1>1, <1>2, <1>5, <1>6
<1>8. ~IsMarketOpen(u)
  BY <1>1, <1>3, <1>5, <1>7, ClosedUntilOpen
<1>9. OpenOf(d) \in Nat /\ OpensAhead(u) # {} /\ NextOpenDay(u) = d
  <2>1. OpenOf(d) \in Nat
    BY <1>1, <1>2
  <2>2. QED
    BY <2>1, <1>1, <1>5, <1>7, NextOpenStays
<1>10. u + UntilOpen(u) = OpenOf(d) /\ UntilOpen(u) \in Nat
  BY <1>5, <1>9, UntilOpenType
<1>11. ~InWarmupWindow(t) => ~InWarmupWindow(u)
  BY <1>1, <1>2, <1>5, <1>6, <1>10 DEF InWarmupWindow
<1>12. QED
  BY <1>3, <1>8, <1>9, <1>11 DEF NextAction

LEMMA RestLength ==
  ASSUME NEW n \in Nat, began \in Nat, now \in Nat, began <= now, now <= began + MaxWork
  PROVE  /\ RestUntil(n) \in Nat
         /\ RestUntil(n) <= began + Max({ClosedSleep, MaxWork, Interval + BackoffMax})
<1> DEFINE doubled == Interval * 2^Min({n - BackoffThreshold, 10})
           most == Max({ClosedSleep, MaxWork, Interval + BackoffMax})
<1>1. Backoff(n) \in Int /\ Backoff(n) <= BackoffMax
  <2>1. CASE n > BackoffThreshold
    <3>1. Min({n - BackoffThreshold, 10}) \in Nat
      <4>1. n - BackoffThreshold \in Int /\ n - BackoffThreshold >= 0
        BY <2>1, Constants
      <4>2. QED
        BY <4>1, MinOfTwo
    <3>2. doubled \in Int
      <4>1. 2^Min({n - BackoffThreshold, 10}) \in Int
        BY <3>1
      <4>2. QED
        BY <4>1, Constants
    <3>3. Backoff(n) = Min({BackoffMax, doubled})
      BY <2>1 DEF Backoff
    <3> HIDE DEF doubled
    <3>4. QED
      BY <3>2, <3>3, MinOfTwo, Constants
  <2>2. CASE ~(n > BackoffThreshold)
    BY <2>2, Constants DEF Backoff
  <2>3. QED
    BY <2>1, <2>2
<1>2. most \in Int /\ most >= MaxWork /\ most >= Interval + BackoffMax
  <2>1. ClosedSleep \in Int /\ MaxWork \in Int /\ Interval + BackoffMax \in Int
    BY Constants
  <2>2. QED
    BY <2>1, MaxOfThree
<1> HIDE DEF most
<1> DEFINE due == began + Interval + Backoff(n)
<1>3. due \in Int /\ due <= began + Interval + BackoffMax
  BY <1>1, Constants
<1>4. RestUntil(n) = Max({now, due})
  BY DEF RestUntil
<1> HIDE DEF due
<1>5. RestUntil(n) \in Int /\ RestUntil(n) = IF now >= due THEN now ELSE due
  BY <1>3, <1>4, MaxOfTwo
<1>6. QED
  BY <1>2, <1>3, <1>5, Constants DEF most

-----------------------------------------------------------------------------
(* Where the loop may be with its clock, and what it owes a stop.          *)
MostWait == Max({ClosedSleep, MaxWork, Interval + BackoffMax})

Deciding ==
  pc = "deciding" => cycle < MaxCycles /\ (stop => asked = now)
Cycling ==
  pc = "cycling" => now <= began + MaxWork /\ (stop => began <= asked)
Sleeping ==
  pc = "sleeping" =>
    /\ until = began + SleepFor(began)
    /\ NextAction(began) = "sleep"
    /\ now <= nap /\ nap <= now + SleepChunk /\ nap <= until
    /\ stop => nap <= asked + SleepChunk

(* A warm-up of a day was begun within its window, and the process that    *)
(* lives now was born in that window, has it on record, or is past it.     *)
WarmupsKnown ==
  \A d \in Days : warmups[d] > 0 =>
    /\ OpenOf(d) - WarmupWindow <= now /\ d \in TradingDays
    /\ pc # "down" => \/ boot >= OpenOf(d) - WarmupWindow
                      \/ warmupDone = d
                      \/ now > OpenOf(d)

IInv == TypeOK /\ Deciding /\ Cycling /\ Sleeping /\ StopIsPrompt /\ WarmupsKnown

LEMMA MostWaitType ==
  MostWait \in Nat /\ MostWait >= ClosedSleep /\ MostWait >= MaxWork
<1>1. ClosedSleep \in Int /\ MaxWork \in Int /\ Interval + BackoffMax \in Int
  BY Constants
<1>2. MostWait \in Int /\ MostWait >= ClosedSleep /\ MostWait >= MaxWork
  BY <1>1, MaxOfThree DEF MostWait
<1>3. QED
  BY <1>2, Constants

LEMMA Types ==
  ASSUME TypeOK
  PROVE  /\ now \in Nat /\ now \in Reach /\ now <= Horizon
         /\ began \in Nat /\ boot \in Nat /\ asked \in Nat
         /\ began <= now /\ boot <= now /\ asked <= now /\ began \in Reach
         /\ until \in Nat /\ until <= began + MostWait /\ nap \in Nat
         /\ MostWait \in Nat /\ MostWait >= ClosedSleep /\ MostWait >= MaxWork
         /\ cycle \in Nat /\ failures \in Nat /\ kills \in Nat /\ failed \in Nat
<1>1. MostWait \in Nat /\ MostWait >= ClosedSleep /\ MostWait >= MaxWork
  BY MostWaitType
<1>2. until \in 0..(began + MostWait)
  BY DEF TypeOK, MostWait
<1>3. now \in 0..Horizon /\ began \in 0..now /\ boot \in 0..now /\ asked \in 0..now
  BY DEF TypeOK
<1>4. nap \in 0..(Horizon + ClosedSleep) /\ cycle \in 0..MaxCycles
      /\ failures \in 0..(AbortThreshold - 1) /\ kills \in 0..MaxKills /\ failed \in 0..MaxFailures
  BY DEF TypeOK
<1>5. QED
  BY <1>1, <1>2, <1>3, <1>4, Constants DEF Reach

LEMMA PromptType ==
  /\ Max({SleepChunk, MaxWork}) \in Int
  /\ Max({SleepChunk, MaxWork}) >= SleepChunk /\ Max({SleepChunk, MaxWork}) >= MaxWork
BY Constants, MaxOfTwo

(* An upper bound of the wait survives a later beginning.                  *)
LEMMA UntilType ==
  ASSUME TypeOK, NEW b \in Nat, began <= b
  PROVE  until \in 0..(b + MostWait)
<1>1. began \in Nat /\ until \in Nat /\ until <= began + MostWait /\ MostWait \in Nat
  BY Types
<1>2. QED
  BY <1>1

LEMMA WarmDay ==
  ASSUME TypeOK
  PROVE  NextOpenDay(now) \in Days
<1>1. now \in Nat /\ now \in Reach /\ now <= Horizon
  BY Types
<1>2. /\ NextOpenDay(now) \in Nat /\ NextOpenDay(now) <= Day(now) + 9
      /\ Day(now) \in Nat /\ Day(Horizon) \in Nat /\ Day(now) <= Day(Horizon)
  BY <1>1, AheadInReach, NextOpenIsFirst, DayFacts, DayGrows, Constants
<1>3. QED
  BY <1>2 DEF Days, LookAhead

-----------------------------------------------------------------------------
LEMMA InitEstablishes == Init => IInv
<1> SUFFICES ASSUME Init PROVE IInv
  OBVIOUS
<1>1. MostWait \in Nat
  BY MostWaitType
<1>2. TypeOK
  <2>1. until \in 0..(began + Max({ClosedSleep, MaxWork, Interval + BackoffMax}))
    BY <1>1 DEF Init, MostWait
  <2>2. now \in 0..Horizon /\ {began, boot, asked} \subseteq 0..now /\ nap \in 0..(Horizon + ClosedSleep)
    BY Constants DEF Init
  <2>3. /\ cycle \in 0..MaxCycles /\ failures \in 0..(AbortThreshold - 1)
        /\ kills \in 0..MaxKills /\ failed \in 0..MaxFailures
    BY Constants DEF Init
  <2>4. warmupDone \in Days \cup {NoDay} /\ warmups \in [Days -> Nat] /\ stop \in BOOLEAN
    BY DEF Init
  <2>5. QED
    BY <2>1, <2>2, <2>3, <2>4 DEF Init, TypeOK
<1>3. Deciding /\ Cycling /\ Sleeping /\ StopIsPrompt /\ WarmupsKnown
  BY DEF Init, Deciding, Cycling, Sleeping, StopIsPrompt, WarmupsKnown
<1>4. QED
  BY <1>2, <1>3 DEF IInv

(* What is known of the warm-ups stays known while none is begun.          *)
LEMMA WarmupsStayKnown ==
  ASSUME IInv, UNCHANGED <<warmups, boot, warmupDone>>, now' \in Nat, now <= now',
         pc = "down" => pc' = "down"
  PROVE  WarmupsKnown'
<1>1. now \in Nat /\ boot \in Nat
  BY Types DEF IInv
<1>2. \A d \in Days : d \in Nat
  BY Constants, DayFacts DEF Days, LookAhead
<1>3. \A d \in Days : OpenOf(d) \in Nat
  BY <1>2, OpensApart
<1>4. WarmupWindow \in Nat
  BY Constants
<1>5. QED
  BY <1>1, <1>3, <1>4 DEF IInv, WarmupsKnown

LEMMA StartKeeps == IInv /\ Start => IInv'
<1> SUFFICES ASSUME IInv, Start PROVE IInv'
  OBVIOUS
<1>1. now \in Nat /\ now <= Horizon /\ MostWait \in Nat /\ now \in 0..now
  BY Types DEF IInv
<1>2. TypeOK'
  <2>1. until' \in 0..(began' + MostWait)
    BY <1>1 DEF Start
  <2>2. nap' \in 0..(Horizon + ClosedSleep)
    BY <1>1, Constants DEF Start
  <2>3. {began', boot', asked'} \subseteq 0..now'
    BY <1>1 DEF Start, IInv, TypeOK
  <2>4. cycle' \in 0..MaxCycles /\ failures' \in 0..(AbortThreshold - 1)
    BY Constants DEF Start
  <2>5. until' \in 0..(began' + Max({ClosedSleep, MaxWork, Interval + BackoffMax}))
    BY <2>1 DEF MostWait
  <2>6. QED
    BY <2>2, <2>3, <2>4, <2>5 DEF Start, IInv, TypeOK
<1>3. (Deciding /\ Cycling /\ Sleeping /\ StopIsPrompt)'
  BY DEF Start, Deciding, Cycling, Sleeping, StopIsPrompt
<1>4. WarmupsKnown'
  BY DEF Start, IInv, WarmupsKnown
<1>5. QED
  BY <1>2, <1>3, <1>4 DEF IInv

(* A process that goes leaves everything but the place and the flag.       *)
LEMMA DownKeeps ==
  ASSUME IInv, Down, UNCHANGED <<now, asked, warmups>>,
         kills' \in 0..MaxKills, failed' \in 0..MaxFailures
  PROVE  IInv'
<1>1. TypeOK'
  BY DEF IInv, TypeOK, Down, process
<1>2. (Deciding /\ Cycling /\ Sleeping /\ StopIsPrompt)'
  BY DEF Down, Deciding, Cycling, Sleeping, StopIsPrompt
<1>3. WarmupsKnown'
  BY DEF Down, IInv, WarmupsKnown
<1>4. QED
  BY <1>1, <1>2, <1>3 DEF IInv

LEMMA LeaveKeeps == IInv /\ LeaveLoop => IInv'
BY DownKeeps DEF LeaveLoop, IInv, TypeOK

LEMMA KillKeeps == IInv /\ Kill => IInv'
<1> SUFFICES ASSUME IInv, Kill PROVE IInv'
  OBVIOUS
<1>1. kills' \in 0..MaxKills
  BY Constants DEF Kill, IInv, TypeOK
<1>2. QED
  BY <1>1, DownKeeps DEF Kill, IInv, TypeOK

LEMMA EnterKeeps == IInv /\ EnterLoop => IInv'
<1> SUFFICES ASSUME IInv, EnterLoop PROVE IInv'
  OBVIOUS
<1>1. TypeOK'
  BY DEF EnterLoop, process, IInv, TypeOK
<1>2. (Deciding /\ Cycling /\ Sleeping /\ StopIsPrompt)'
  BY DEF EnterLoop, process, Deciding, Cycling, Sleeping, StopIsPrompt
<1>3. WarmupsKnown'
  BY Types, WarmupsStayKnown DEF EnterLoop, process, IInv
<1>4. QED
  BY <1>1, <1>2, <1>3 DEF IInv

LEMMA AsleepKeeps == IInv /\ FallAsleep => IInv'
<1> SUFFICES ASSUME IInv, FallAsleep PROVE IInv'
  OBVIOUS
<1>1. /\ now \in Nat /\ now \in Reach /\ now <= Horizon /\ MostWait \in Nat
      /\ MostWait >= ClosedSleep /\ asked \in Nat
  BY Types DEF IInv
<1>2. SleepFor(now) \in Nat /\ SleepFor(now) >= 1 /\ SleepFor(now) <= ClosedSleep
  BY <1>1, SleepLength
<1>3. /\ pc = "deciding" /\ pc' = "sleeping" /\ NextAction(now) = "sleep" /\ began' = now
      /\ until' = now + SleepFor(now) /\ nap' = now
      /\ UNCHANGED <<now, stop, cycle, failures, warmupDone, boot, asked, warmups, kills, failed>>
  BY DEF FallAsleep
<1>4. TypeOK'
  <2>1. until' \in 0..(began' + MostWait)
    BY <1>1, <1>2, <1>3, Constants
  <2>2. nap' \in 0..(Horizon + ClosedSleep)
    BY <1>1, <1>3, Constants
  <2>3. {began', boot', asked'} \subseteq 0..now'
    BY <1>1, <1>3 DEF IInv, TypeOK
  <2>4. QED
    BY <1>3, <2>1, <2>2, <2>3 DEF IInv, TypeOK, MostWait
<1>5. Sleeping'
  <2>1. SleepFor(began)' = SleepFor(now)
    BY <1>3 DEF SleepFor
  <2>2. NextAction(began)' = "sleep"
    BY <1>3 DEF NextAction
  <2>3. stop => asked = now
    BY <1>3 DEF IInv, Deciding
  <2>4. QED
    BY <1>1, <1>2, <1>3, <2>1, <2>2, <2>3, Constants DEF Sleeping
<1>6. (Deciding /\ Cycling /\ StopIsPrompt)'
  BY <1>3 DEF IInv, Deciding, Cycling, StopIsPrompt
<1>7. WarmupsKnown'
  BY <1>1, <1>3, WarmupsStayKnown
<1>8. QED
  BY <1>4, <1>5, <1>6, <1>7 DEF IInv

LEMMA DozeKeeps == IInv /\ Doze => IInv'
<1> SUFFICES ASSUME IInv, Doze PROVE IInv'
  OBVIOUS
<1>1. /\ pc = "sleeping" /\ now = nap /\ nap < until /\ ~stop
      /\ nap' = Min({nap + SleepChunk, until})
      /\ UNCHANGED <<now, pc, began, until, stop, cycle, failures, warmupDone, boot, asked,
                     warmups, kills, failed>>
  BY DEF Doze, SleepsOn
<1>2. /\ now \in Nat /\ nap \in Nat /\ until \in Nat /\ began \in Nat /\ began <= now
      /\ now <= Horizon /\ began \in Reach
  BY Types DEF IInv
<1>3. /\ SleepFor(began) \in Nat /\ SleepFor(began) <= ClosedSleep
      /\ until = began + SleepFor(began) /\ NextAction(began) = "sleep"
  BY <1>1, <1>2, SleepLength DEF IInv, Sleeping
<1>4. nap' \in Nat /\ now <= nap' /\ nap' <= now + SleepChunk /\ nap' <= until
  <2>1. nap + SleepChunk \in Int /\ SleepChunk \in Nat
    BY <1>2, Constants
  <2>2. QED
    BY <2>1, <1>1, <1>2, MinOfTwo
<1>5. TypeOK'
  <2>1. nap' \in 0..(Horizon + ClosedSleep)
    BY <1>2, <1>3, <1>4, Constants
  <2>2. QED
    BY <1>1, <2>1 DEF IInv, TypeOK
<1>6. Sleeping'
  <2>1. SleepFor(began)' = SleepFor(began) /\ NextAction(began)' = NextAction(began)
    BY <1>1 DEF SleepFor, NextAction
  <2>2. QED
    BY <1>1, <1>3, <1>4, <2>1 DEF Sleeping
<1>7. (Deciding /\ Cycling /\ StopIsPrompt)'
  BY <1>1 DEF IInv, Deciding, Cycling, StopIsPrompt
<1>8. WarmupsKnown'
  BY <1>1, <1>2, WarmupsStayKnown
<1>9. QED
  BY <1>5, <1>6, <1>7, <1>8 DEF IInv

LEMMA WakeKeeps == IInv /\ (WakeUp \/ EndRest) => IInv'
<1> SUFFICES ASSUME IInv, WakeUp \/ EndRest PROVE IInv'
  OBVIOUS
<1>1. /\ pc # "down" /\ pc' = "looping"
      /\ UNCHANGED <<now, process, stop, asked, warmups, kills, failed>>
  BY DEF WakeUp, EndRest
<1>2. TypeOK'
  BY <1>1 DEF process, IInv, TypeOK
<1>3. (Deciding /\ Cycling /\ Sleeping /\ StopIsPrompt)'
  BY <1>1 DEF IInv, Deciding, Cycling, Sleeping, StopIsPrompt
<1>4. WarmupsKnown'
  BY <1>1, Types, WarmupsStayKnown DEF process, IInv
<1>5. QED
  BY <1>2, <1>3, <1>4 DEF IInv

-----------------------------------------------------------------------------
(* A cycle begins, with or without a warm-up.                              *)
LEMMA BeginKeeps ==
  ASSUME IInv, pc = "deciding", BeginCycle,
         warmupDone' \in Days \cup {NoDay}, warmups' \in [Days -> Nat]
  PROVE  (TypeOK /\ Deciding /\ Cycling /\ Sleeping /\ StopIsPrompt)'
<1>1. /\ now \in Nat /\ began \in Nat /\ began <= now /\ cycle \in Nat /\ asked \in Nat
  BY Types DEF IInv
<1>2. /\ cycle < MaxCycles /\ (stop => asked = now)
  BY DEF IInv, Deciding
<1>3. /\ pc' = "cycling" /\ began' = now /\ cycle' = cycle + 1
      /\ UNCHANGED <<now, until, nap, stop, failures, boot, asked, kills, failed>>
  BY DEF BeginCycle
<1>4. TypeOK'
  <2>1. until' \in 0..(began' + Max({ClosedSleep, MaxWork, Interval + BackoffMax}))
    BY <1>1, <1>3, UntilType DEF IInv, MostWait
  <2>2. {began', boot', asked'} \subseteq 0..now'
    BY <1>1, <1>3 DEF IInv, TypeOK
  <2>3. cycle' \in 0..MaxCycles
    BY <1>1, <1>2, <1>3, Constants
  <2>4. QED
    BY <1>3, <2>1, <2>2, <2>3 DEF IInv, TypeOK
<1>5. Cycling'
  BY <1>1, <1>2, <1>3, Constants DEF Cycling
<1>6. (Deciding /\ Sleeping)'
  BY <1>3 DEF Deciding, Sleeping
<1>7. StopIsPrompt'
  BY <1>3 DEF IInv, StopIsPrompt
<1>8. QED
  BY <1>4, <1>5, <1>6, <1>7

LEMMA ObserveKeeps == IInv /\ Observe => IInv'
<1> SUFFICES ASSUME IInv, Observe PROVE IInv'
  OBVIOUS
<1>1. pc = "deciding" /\ BeginCycle /\ UNCHANGED <<warmupDone, warmups>>
  BY DEF Observe
<1>2. (TypeOK /\ Deciding /\ Cycling /\ Sleeping /\ StopIsPrompt)'
  BY <1>1, BeginKeeps DEF IInv, TypeOK
<1>3. WarmupsKnown'
  BY <1>1, Types, WarmupsStayKnown DEF BeginCycle, IInv
<1>4. QED
  BY <1>2, <1>3 DEF IInv

(* The warm-up of a day begins in its window, before its open.             *)
LEMMA WarmupMoment ==
  ASSUME TypeOK, NextAction(now) = "warmup"
  PROVE  /\ NextOpenDay(now) \in Days /\ NextOpenDay(now) \in TradingDays
         /\ NextOpenDay(now) \in Nat /\ OpenOf(NextOpenDay(now)) \in Nat
         /\ OpenOf(NextOpenDay(now)) - WarmupWindow <= now
         /\ now < OpenOf(NextOpenDay(now))
         /\ warmupDone # NextOpenDay(now)
<1>1. now \in Nat /\ OpensAhead(now) # {}
  BY Types, AheadInReach
<1>2. NextOpenDay(now) \in Nat /\ NextOpenDay(now) \in TradingDays
  BY <1>1, NextOpenIsFirst
<1>3. UntilOpen(now) \in Nat /\ now + UntilOpen(now) = OpenOf(NextOpenDay(now))
  BY <1>1, UntilOpenType
<1>4. UntilOpen(now) > 0 /\ UntilOpen(now) <= WarmupWindow /\ warmupDone # NextOpenDay(now)
  BY DEF NextAction, InWarmupWindow
<1>5. QED
  BY <1>1, <1>2, <1>3, <1>4, WarmDay, Constants

LEMMA WarmUpKeeps == IInv /\ WarmUp => IInv'
<1> SUFFICES ASSUME IInv, WarmUp PROVE IInv'
  OBVIOUS
<1> DEFINE e == NextOpenDay(now)
<1>1. /\ pc = "deciding" /\ NextAction(now) = "warmup" /\ warmupDone' = e /\ BeginCycle
      /\ warmups' = [warmups EXCEPT ![e] = @ + 1]
  BY DEF WarmUp, WarmupNoted
<1>2. /\ e \in Days /\ e \in TradingDays /\ e \in Nat /\ OpenOf(e) \in Nat
      /\ OpenOf(e) - WarmupWindow <= now /\ now < OpenOf(e)
  BY <1>1, WarmupMoment DEF IInv
<1>3. warmups \in [Days -> Nat]
  BY DEF IInv, TypeOK
<1>4. (TypeOK /\ Deciding /\ Cycling /\ Sleeping /\ StopIsPrompt)'
  BY <1>1, <1>2, <1>3, BeginKeeps
<1>5. /\ now \in Nat /\ boot \in Nat /\ OpensAhead(now) # {}
  BY Types, AheadInReach DEF IInv
<1>6. now' = now /\ boot' = boot /\ pc' = "cycling"
  BY <1>1 DEF BeginCycle
<1>7. ASSUME NEW d \in Days, warmups'[d] > 0
      PROVE  /\ OpenOf(d) - WarmupWindow <= now /\ d \in TradingDays
             /\ \/ boot >= OpenOf(d) - WarmupWindow
                \/ e = d
                \/ now > OpenOf(d)
  <2>1. CASE d = e
    BY <1>2, <2>1
  <2>2. CASE d # e
    <3>1. warmups[d] > 0
      BY <1>3, <1>7, <2>2, <1>1
    <3>2. OpenOf(d) - WarmupWindow <= now /\ d \in TradingDays /\ d \in Nat /\ OpenOf(d) \in Nat
      BY <3>1, Constants, OpensApart DEF IInv, WarmupsKnown
    <3>3. now > OpenOf(d)
      <4> SUFFICES ASSUME now <= OpenOf(d) PROVE FALSE
        BY <1>5, <3>2
      <4>1. Day(now) <= d /\ d <= Day(now) /\ Day(now) \in Nat
        BY <1>5, <3>2, MomentAndOpen, DayFacts
      <4>2. d \in OpensAhead(now)
        BY <3>2, <4>1 DEF OpensAhead, LookAhead
      <4>3. e <= d /\ Day(now) <= e
        BY <1>5, <4>2, NextOpenIsFirst
      <4>4. QED
        BY <1>2, <2>2, <3>2, <4>1, <4>3
    <3>4. QED
      BY <3>2, <3>3
  <2>3. QED
    BY <2>1, <2>2
<1>8. WarmupsKnown'
  BY <1>1, <1>6, <1>7 DEF WarmupsKnown
<1>9. QED
  BY <1>4, <1>8 DEF IInv

LEMMA RestKeeps ==
  ASSUME IInv, pc = "cycling", NEW n \in 0..(AbortThreshold - 1), Rest(n),
         failed' \in 0..MaxFailures
  PROVE  IInv'
<1>1. /\ now \in Nat /\ began \in Nat /\ began <= now /\ now <= began + MaxWork
  BY Types DEF IInv, Cycling
<1>2. n \in Nat
  BY Constants
<1>3. /\ RestUntil(n) \in Nat
      /\ RestUntil(n) <= began + Max({ClosedSleep, MaxWork, Interval + BackoffMax})
  BY <1>1, <1>2, RestLength
<1>4. /\ pc' = "resting" /\ failures' = n /\ until' = RestUntil(n)
      /\ UNCHANGED <<now, began, nap, stop, cycle, warmupDone, boot, asked, warmups, kills>>
  BY DEF Rest
<1>5. TypeOK'
  <2>1. until' \in 0..(began' + Max({ClosedSleep, MaxWork, Interval + BackoffMax}))
    BY <1>1, <1>3, <1>4, MostWaitType DEF MostWait
  <2>2. QED
    BY <1>4, <2>1 DEF IInv, TypeOK
<1>6. (Deciding /\ Cycling /\ Sleeping /\ StopIsPrompt)'
  BY <1>4 DEF IInv, Deciding, Cycling, Sleeping, StopIsPrompt
<1>7. WarmupsKnown'
  BY <1>1, <1>4, WarmupsStayKnown
<1>8. QED
  BY <1>5, <1>6, <1>7 DEF IInv

LEMMA EndKeeps == IInv /\ EndCycle => IInv'
<1> SUFFICES ASSUME IInv, EndCycle PROVE IInv'
  OBVIOUS
<1>1. 0 \in 0..(AbortThreshold - 1)
  BY Constants
<1>2. QED
  BY <1>1, RestKeeps DEF EndCycle, IInv, TypeOK

LEMMA FailKeeps == IInv /\ FailCycle => IInv'
<1> SUFFICES ASSUME IInv, FailCycle PROVE IInv'
  OBVIOUS
<1>1. failures \in 0..(AbortThreshold - 1) /\ failed \in 0..MaxFailures /\ failed < MaxFailures
  BY DEF FailCycle, IInv, TypeOK
<1>2. failed' \in 0..MaxFailures
  BY <1>1, Constants DEF FailCycle
<1>3. CASE failures + 1 >= AbortThreshold
  BY <1>2, <1>3, DownKeeps DEF FailCycle, IInv, TypeOK
<1>4. CASE ~(failures + 1 >= AbortThreshold)
  <2>1. failures + 1 \in 0..(AbortThreshold - 1)
    BY <1>1, <1>4, Constants
  <2>2. QED
    BY <1>2, <1>4, <2>1, RestKeeps DEF FailCycle
<1>5. QED
  BY <1>3, <1>4

LEMMA InterruptKeeps == IInv /\ Interrupt => IInv'
<1> SUFFICES ASSUME IInv, Interrupt PROVE IInv'
  OBVIOUS
<1>1. /\ pc # "down" /\ ~stop /\ kills < MaxKills /\ kills' = kills + 1 /\ stop' = TRUE
      /\ asked' = now /\ UNCHANGED <<now, pc, process, warmups, failed>>
  BY DEF Interrupt
<1>2. /\ now \in Nat /\ began \in Nat /\ began <= now /\ nap \in Nat
  BY Types DEF IInv
<1>3. TypeOK'
  <2>1. kills' \in 0..MaxKills
    BY <1>1, Constants DEF IInv, TypeOK
  <2>2. {began', boot', asked'} \subseteq 0..now'
    BY <1>1, <1>2 DEF process, IInv, TypeOK
  <2>3. QED
    BY <1>1, <2>1, <2>2 DEF process, IInv, TypeOK
<1>4. Deciding' /\ Cycling'
  BY <1>1, <1>2 DEF process, IInv, Deciding, Cycling
<1>5. Sleeping'
  <2>1. SleepFor(began)' = SleepFor(began) /\ NextAction(began)' = NextAction(began)
    BY <1>1 DEF SleepFor, NextAction, process
  <2>2. QED
    BY <1>1, <1>2, <2>1 DEF process, IInv, Sleeping
<1>6. StopIsPrompt'
  BY <1>1, <1>2, PromptType, Constants DEF StopIsPrompt
<1>7. WarmupsKnown'
  BY <1>1, <1>2, WarmupsStayKnown DEF process
<1>8. QED
  BY <1>3, <1>4, <1>5, <1>6, <1>7 DEF IInv

LEMMA TickKeeps == IInv /\ Tick => IInv'
<1> SUFFICES ASSUME IInv, Tick PROVE IInv'
  OBVIOUS
<1>1. /\ \/ pc = "down"
         \/ pc = "sleeping" /\ now < nap
         \/ pc = "resting" /\ now < until /\ ~stop
         \/ pc = "cycling" /\ now < began + MaxWork
      /\ now' = Min({now + 1, Horizon})
      /\ UNCHANGED <<pc, process, stop, asked, warmups, kills, failed>>
  BY DEF Tick
<1>2. /\ now \in Nat /\ now <= Horizon /\ began \in Nat /\ began <= now /\ nap \in Nat
      /\ boot \in Nat /\ boot <= now /\ asked \in Nat /\ asked <= now /\ until \in Nat
  BY Types DEF IInv
<1>3. now' \in Nat /\ now <= now' /\ now' <= now + 1 /\ now' <= Horizon
  <2>1. now + 1 \in Int /\ Horizon \in Int
    BY <1>2, Constants
  <2>2. QED
    BY <1>1, <1>2, <2>1, MinOfTwo
<1>4. TypeOK'
  <2>1. now' \in 0..Horizon /\ {began', boot', asked'} \subseteq 0..now'
    BY <1>1, <1>2, <1>3, Constants DEF process
  <2>2. QED
    BY <1>1, <2>1 DEF process, IInv, TypeOK
<1>5. Deciding' /\ Cycling'
  BY <1>1, <1>2, <1>3, Constants DEF process, IInv, Deciding, Cycling
<1>6. Sleeping'
  <2>1. SleepFor(began)' = SleepFor(began) /\ NextAction(began)' = NextAction(began)
    BY <1>1 DEF SleepFor, NextAction, process
  <2>2. QED
    BY <1>1, <1>2, <1>3, <2>1, Constants DEF process, IInv, Sleeping
<1>7. StopIsPrompt'
  BY <1>1, <1>2, <1>3, PromptType, Constants DEF process, IInv, StopIsPrompt, Sleeping, Cycling
<1>8. WarmupsKnown'
  BY <1>1, <1>2, <1>3, WarmupsStayKnown DEF process
<1>9. QED
  BY <1>4, <1>5, <1>6, <1>7, <1>8 DEF IInv

LEMMA StutterKeeps == IInv /\ UNCHANGED vars => IInv'
<1> SUFFICES ASSUME IInv, UNCHANGED vars PROVE IInv'
  OBVIOUS
<1>1. TypeOK'
  BY DEF vars, process, IInv, TypeOK
<1>2. (Deciding /\ Cycling /\ StopIsPrompt)'
  BY DEF vars, process, IInv, Deciding, Cycling, StopIsPrompt
<1>3. Sleeping'
  BY DEF vars, process, IInv, Sleeping, SleepFor, NextAction
<1>4. WarmupsKnown'
  BY DEF vars, process, IInv, WarmupsKnown
<1>5. QED
  BY <1>1, <1>2, <1>3, <1>4 DEF IInv

LEMMA StepKeeps == IInv /\ [Next]_vars => IInv'
BY StartKeeps, LeaveKeeps, EnterKeeps, AsleepKeeps, DozeKeeps, WakeKeeps, WarmUpKeeps,
   ObserveKeeps, EndKeeps, FailKeeps, InterruptKeeps, KillKeeps, TickKeeps, StutterKeeps
   DEF Next, Loop

LEMMA Inductive == Spec => []IInv
BY InitEstablishes, StepKeeps, PTL DEF Spec

-----------------------------------------------------------------------------
(* No rest or backoff outgrows its cap, no sleep covers a moment with work *)
(* to do, and a requested stop is honoured within a sleep chunk or a cycle *)
(* (run_forever, _next_action, _interruptible_sleep of the observer).      *)
THEOREM WaitsStayBounded == Spec => []WaitsAreBounded
<1>1. IInv => WaitsAreBounded
  <2> SUFFICES ASSUME IInv PROVE WaitsAreBounded
    OBVIOUS
  <2>1. SleepMissesNothing
    <3> SUFFICES ASSUME pc = "sleeping", NEW t \in began..(until - 1)
                 PROVE  NextAction(t) = "sleep"
      BY DEF SleepMissesNothing
    <3>1. /\ began \in Reach /\ until = began + SleepFor(began) /\ NextAction(began) = "sleep"
      BY Types DEF IInv, Sleeping
    <3>2. t \in began..(began + SleepFor(began) - 1)
      <4>1. began \in Nat /\ until \in Nat /\ SleepFor(began) \in Nat
        BY <3>1, Types, SleepLength DEF IInv
      <4>2. QED
        BY <3>1, <4>1
    <3>3. \A u \in began..(began + SleepFor(began) - 1) : NextAction(u) = "sleep"
      BY <3>1, SleepCovers
    <3>4. QED
      BY <3>2, <3>3
  <2>2. QED
    BY <2>1 DEF IInv, WaitsAreBounded
<1>2. QED
  BY <1>1, Inductive, PTL

(* A process warms up once for each open: a second warm-up of a day is     *)
(* that of a process started within its window.                            *)
THEOREM WarmsUpOnce == Spec => OneWarmupPerProcess
<1>1. IInv /\ [Next]_vars =>
        [\A d \in Days : warmups'[d] > warmups[d] /\ warmups[d] > 0
                           => boot >= OpenOf(d) - WarmupWindow]_vars
  <2> SUFFICES ASSUME IInv, Next, NEW d \in Days, warmups'[d] > warmups[d], warmups[d] > 0
               PROVE  boot >= OpenOf(d) - WarmupWindow
    OBVIOUS
  <2>1. warmups \in [Days -> Nat]
    BY DEF IInv, TypeOK
  <2>2. WarmUp
    <3>1. warmups' # warmups
      BY <2>1
    <3>2. QED
      BY <3>1 DEF Next, Loop, Start, LeaveLoop, EnterLoop, FallAsleep, Doze, WakeUp, Observe,
                  EndCycle, FailCycle, Rest, EndRest, Interrupt, Kill, Tick
  <2>3. pc = "deciding" /\ NextAction(now) = "warmup" /\ d = NextOpenDay(now)
    BY <2>1, <2>2 DEF WarmUp
  <2>4. now < OpenOf(d) /\ warmupDone # d /\ OpenOf(d) \in Nat
    BY <2>3, WarmupMoment DEF IInv
  <2>5. now \in Nat
    BY Types DEF IInv
  <2>6. QED
    BY <2>3, <2>4, <2>5 DEF IInv, WarmupsKnown
<1>2. QED
  BY <1>1, Inductive, PTL DEF Spec, OneWarmupPerProcess

-----------------------------------------------------------------------------
(* Warm by the open.  From the close of a trading day to the next open is  *)
(* no less than this; the theorem is about loops none of whose waits, and  *)
(* none of whose cycles, outlasts it.                                      *)
Night == DayLength - (RegularClose - RegularOpen)

Noted == warmupDone \in Days => warmups[warmupDone] >= 1

(* The day's open is one the process has to be warm for and is not.        *)
Owed(d) == boot <= OpenOf(d) - WarmupWindow /\ warmups[d] = 0

(* What is owed is owed in time: the open is yet to come, a sleep ends by  *)
(* the beginning of its window, and a cycle with its rest before it.       *)
OwedInTime ==
  LiveFeed /\ pc # "down" =>
    \A d \in TradingDays \cap Days : Owed(d) =>
      /\ now < OpenOf(d)
      /\ pc = "sleeping" => until <= OpenOf(d) - WarmupWindow
      /\ pc \in {"cycling", "resting"} => began + MostWait < OpenOf(d)

WarmInTime == Noted /\ OwedInTime

LEMMA NightType == Night \in Nat /\ Night <= DayLength
BY Constants DEF Night

LEMMA OpenType ==
  ASSUME NEW d \in TradingDays
  PROVE  d \in Nat /\ OpenOf(d) \in Nat /\ WarmupWindow \in Nat /\ WarmupWindow >= 1
BY Constants, OpensApart

(* The next open is not after any that is yet to come, and a night before  *)
(* every other.                                                            *)
LEMMA NextOpenOrLater ==
  ASSUME NEW t \in Nat, OpensAhead(t) # {}, NEW d \in TradingDays, t < OpenOf(d)
  PROVE  LET e == NextOpenDay(t)
         IN  d = e \/ OpenOf(e) + DayLength <= OpenOf(d)
<1> DEFINE e == NextOpenDay(t)
<1>1. /\ e \in Nat /\ Day(t) <= e /\ e <= Day(t) + 9 /\ Day(t) \in Nat
      /\ \A other \in OpensAhead(t) : e <= other
  BY NextOpenIsFirst, DayFacts
<1>2. d \in Nat /\ OpenOf(d) \in Nat
  BY OpenType
<1>3. Day(t) <= d
  BY <1>2, MomentAndOpen
<1>4. e <= d
  <2>1. d <= Day(t) + 9 => d \in OpensAhead(t)
    BY <1>1, <1>2, <1>3 DEF OpensAhead, LookAhead
  <2>2. QED
    BY <2>1, <1>1, <1>2
<1>5. e < d => OpenOf(e) + DayLength <= OpenOf(d)
  BY <1>1, <1>2, OpensApart
<1>6. QED
  BY <1>1, <1>2, <1>4, <1>5

(* A sleep decided on before an open that is owed ends by its window.      *)
LEMMA SleepEndsByWindow ==
  ASSUME TypeOK, Noted, NextAction(now) = "sleep",
         NEW d \in TradingDays \cap Days, warmups[d] = 0, now < OpenOf(d)
  PROVE  now + SleepFor(now) <= OpenOf(d) - WarmupWindow
<1> DEFINE e == NextOpenDay(now)
<1>1. /\ now \in Nat /\ now \in Reach /\ OpensAhead(now) # {}
  BY Types, AheadInReach
<1>2. UntilOpen(now) \in Nat /\ now + UntilOpen(now) = OpenOf(e)
  BY <1>1, UntilOpenType
<1>3. /\ SleepFor(now) \in Nat /\ SleepFor(now) >= 1
      /\ InWarmupWindow(now) => SleepFor(now) <= UntilOpen(now)
      /\ UntilOpen(now) > WarmupWindow => SleepFor(now) <= UntilOpen(now) - WarmupWindow
  BY <1>1, SleepLength
<1>4. /\ d \in Nat /\ OpenOf(d) \in Nat /\ WarmupWindow \in Nat /\ WarmupWindow >= 1
      /\ DayLength \in Nat /\ WarmupWindow <= DayLength
  BY OpenType, Constants
<1>5. /\ ~IsMarketOpen(now) /\ ~(InWarmupWindow(now) /\ warmupDone # e)
  BY DEF NextAction
<1>6. UntilOpen(now) > 0
  <2>1. UntilOpen(now) = 0 => now = OpenOf(e)
    BY <1>1, <1>2
  <2>2. IsMarketOpen(OpenOf(e))
    BY <1>1, NextOpenIsFirst, OpenAtOpen
  <2>3. QED
    BY <1>2, <1>5, <2>1, <2>2
<1>7. SleepFor(now) <= UntilOpen(now)
  BY <1>2, <1>3, <1>4, <1>6 DEF InWarmupWindow
<1>8. CASE d = e
  <2>1. ~InWarmupWindow(now)
    <3>1. warmupDone # d
      BY DEF Noted
    <3>2. QED
      BY <1>5, <1>8, <3>1
  <2>2. UntilOpen(now) > WarmupWindow
    BY <2>1, <1>2, <1>4, <1>6 DEF InWarmupWindow
  <2>3. QED
    BY <2>2, <1>1, <1>2, <1>3, <1>4, <1>8
<1>9. CASE d # e
  <2>1. OpenOf(e) + DayLength <= OpenOf(d)
    BY <1>1, <1>9, NextOpenOrLater
  <2>2. QED
    BY <2>1, <1>1, <1>2, <1>3, <1>4, <1>7
<1>10. QED
  BY <1>8, <1>9

(* Nor does anything begun while the market is open last to the next open. *)
LEMMA OpenMarketIsEarly ==
  ASSUME NEW t \in Nat, IsMarketOpen(t), NEW d \in TradingDays, t < OpenOf(d)
  PROVE  t + Night < OpenOf(d)
<1> DEFINE e == Day(t)
<1>1. /\ e \in Nat /\ TimeOfDay(t) \in Nat /\ t = e * DayLength + TimeOfDay(t)
  BY DayFacts
<1>2. TimeOfDay(t) >= RegularOpen /\ TimeOfDay(t) < RegularClose
  BY <1>1, Constants DEF IsMarketOpen, SessionAt
<1>3. d \in Nat /\ OpenOf(d) \in Nat /\ OpenOf(e) \in Nat
  BY <1>1, OpenType, OpensApart
<1>4. OpenOf(e) <= t /\ e <= d
  BY <1>1, <1>2, <1>3, MomentAndOpen
<1>5. e < d
  BY <1>1, <1>3, <1>4
<1>6. OpenOf(e) + DayLength <= OpenOf(d)
  BY <1>1, <1>3, <1>5, OpensApart
<1>7. e * DayLength \in Nat
  BY <1>1, Constants
<1>8. QED
  BY <1>1, <1>2, <1>3, <1>6, <1>7, Constants DEF OpenOf, Night

(* What is owed stays in time while the clock stands and nothing is begun. *)
LEMMA StillOwed ==
  ASSUME WarmInTime, pc # "down", pc' \in {"looping", "deciding", "down"},
         UNCHANGED <<now, boot, warmupDone, warmups>>
  PROVE  WarmInTime'
BY DEF WarmInTime, Noted, OwedInTime, Owed

LEMMA LoopInTime ==
  ASSUME IInv, WarmInTime,
         LeaveLoop \/ EnterLoop \/ WakeUp \/ EndRest \/ Kill
  PROVE  WarmInTime'
BY StillOwed DEF LeaveLoop, EnterLoop, WakeUp, EndRest, Kill, Down, process

LEMMA StartInTime ==
  ASSUME IInv, WarmInTime, Start
  PROVE  WarmInTime'
<1>1. pc' = "looping" /\ boot' = now /\ now' = now /\ warmups' = warmups /\ warmupDone' = NoDay
  BY DEF Start
<1>2. Noted'
  <2>1. NoDay \notin Days
    BY DayFacts, Constants DEF NoDay, Days, LookAhead
  <2>2. Days' = Days
    OBVIOUS
  <2>3. QED
    BY <1>1, <2>1, <2>2 DEF Noted
<1>3. OwedInTime'
  <2>1. now \in Nat
    BY Types DEF IInv
  <2>2. \A d \in TradingDays : OpenOf(d) \in Nat /\ WarmupWindow \in Nat /\ WarmupWindow >= 1
    BY OpenType
  <2>3. QED
    BY <1>1, <2>1, <2>2 DEF OwedInTime, Owed
<1>4. QED
  BY <1>2, <1>3 DEF WarmInTime

LEMMA AsleepInTime ==
  ASSUME IInv, WarmInTime, FallAsleep
  PROVE  WarmInTime'
<1>1. /\ pc = "deciding" /\ pc' = "sleeping" /\ NextAction(now) = "sleep"
      /\ until' = now + SleepFor(now)
      /\ UNCHANGED <<now, boot, warmupDone, warmups>>
  BY DEF FallAsleep
<1>2. Noted'
  BY <1>1 DEF WarmInTime, Noted
<1>3. \A d \in TradingDays \cap Days : warmups[d] = 0 /\ now < OpenOf(d)
        => now + SleepFor(now) <= OpenOf(d) - WarmupWindow
  BY <1>1, SleepEndsByWindow DEF IInv, WarmInTime
<1>4. OwedInTime'
  BY <1>1, <1>3 DEF WarmInTime, OwedInTime, Owed
<1>5. QED
  BY <1>2, <1>4 DEF WarmInTime

(* An open cycle begins no less than a night before an open that is owed,  *)
(* and a warm-up is owed no longer once it has begun.                      *)
LEMMA ObserveInTime ==
  ASSUME IInv, WarmInTime, Observe, MostWait <= Night
  PROVE  WarmInTime'
<1>1. /\ pc = "deciding" /\ pc' = "cycling" /\ NextAction(now) = "observe" /\ began' = now
      /\ UNCHANGED <<now, boot, warmupDone, warmups>>
  BY DEF Observe, BeginCycle
<1>2. Noted'
  BY <1>1 DEF WarmInTime, Noted
<1>3. now \in Nat /\ MostWait \in Nat /\ Night \in Nat
  BY Types, NightType DEF IInv
<1>4. LiveFeed => IsMarketOpen(now)
  BY <1>1 DEF NextAction
<1>5. \A d \in TradingDays \cap Days : LiveFeed /\ now < OpenOf(d) => now + MostWait < OpenOf(d)
  BY <1>3, <1>4, OpenMarketIsEarly, OpenType
<1>6. MostWait' = MostWait
  BY DEF MostWait
<1>7. OwedInTime'
  BY <1>1, <1>5, <1>6 DEF WarmInTime, OwedInTime, Owed
<1>8. QED
  BY <1>2, <1>7 DEF WarmInTime

LEMMA WarmUpInTime ==
  ASSUME IInv, WarmInTime, WarmUp, MostWait <= Night
  PROVE  WarmInTime'
<1> DEFINE e == NextOpenDay(now)
<1>1. /\ pc = "deciding" /\ pc' = "cycling" /\ NextAction(now) = "warmup" /\ began' = now
      /\ now' = now /\ boot' = boot /\ warmupDone' = e
      /\ warmups' = [warmups EXCEPT ![e] = @ + 1]
  BY DEF WarmUp, WarmupNoted, BeginCycle
<1>2. /\ e \in Days /\ e \in Nat /\ OpenOf(e) \in Nat /\ now < OpenOf(e)
      /\ now \in Nat /\ OpensAhead(now) # {}
  BY <1>1, WarmupMoment, Types, AheadInReach DEF IInv
<1>3. warmups \in [Days -> Nat]
  BY DEF IInv, TypeOK
<1>4. warmups'[e] >= 1 /\ \A d \in Days \ {e} : warmups'[d] = warmups[d]
  BY <1>1, <1>2, <1>3
<1>5. Noted'
  BY <1>1, <1>2, <1>4 DEF Noted
<1>6. MostWait \in Nat /\ Night \in Nat /\ Night <= DayLength /\ DayLength \in Nat
  BY Types, NightType, Constants DEF IInv
<1>7. ASSUME NEW d \in TradingDays \cap Days, LiveFeed, Owed(d)'
      PROVE  now < OpenOf(d) /\ now + MostWait < OpenOf(d)
  <2>1. d # e /\ Owed(d)
    BY <1>1, <1>4, <1>7 DEF Owed
  <2>2. now < OpenOf(d)
    BY <1>1, <1>7, <2>1 DEF WarmInTime, OwedInTime
  <2>3. OpenOf(e) + DayLength <= OpenOf(d)
    BY <1>2, <2>1, <2>2, NextOpenOrLater
  <2>4. OpenOf(d) \in Nat
    BY OpenType
  <2>5. QED
    BY <1>2, <1>6, <2>2, <2>3, <2>4
<1>8. MostWait' = MostWait
  BY DEF MostWait
<1>9. OwedInTime'
  BY <1>1, <1>7, <1>8 DEF OwedInTime
<1>10. QED
  BY <1>5, <1>9 DEF WarmInTime

(* A doze, a rest and a signal leave what a wait was measured from.        *)
LEMMA WaitInTime ==
  ASSUME IInv, WarmInTime,
         \/ Doze
         \/ EndCycle
         \/ FailCycle
         \/ Interrupt
  PROVE  WarmInTime'
<1>1. pc # "down" /\ UNCHANGED <<now, boot, warmupDone, warmups>>
  BY DEF Doze, EndCycle, FailCycle, Rest, Down, process, Interrupt
<1>2. Noted'
  BY <1>1 DEF WarmInTime, Noted
<1>3. \/ pc' = "down"
      \/ pc' = pc /\ began' = began /\ until' = until
      \/ pc = "cycling" /\ pc' = "resting" /\ began' = began
  BY DEF Doze, EndCycle, FailCycle, Rest, Down, process, Interrupt
<1>4. MostWait' = MostWait
  BY DEF MostWait
<1>5. OwedInTime'
  BY <1>1, <1>3, <1>4 DEF WarmInTime, OwedInTime, Owed
<1>6. QED
  BY <1>2, <1>5 DEF WarmInTime

LEMMA TickInTime ==
  ASSUME IInv, WarmInTime, Tick
  PROVE  WarmInTime'
<1>1. /\ \/ pc = "down"
         \/ pc = "sleeping" /\ now < nap
         \/ pc = "resting" /\ now < until /\ ~stop
         \/ pc = "cycling" /\ now < began + MaxWork
      /\ now' = Min({now + 1, Horizon})
      /\ UNCHANGED <<pc, process, stop, asked, warmups, kills, failed>>
  BY DEF Tick
<1>2. /\ now \in Nat /\ now <= Horizon /\ began \in Nat /\ nap \in Nat /\ until \in Nat
      /\ until <= began + MostWait /\ MostWait \in Nat /\ MaxWork <= MostWait
  BY Types DEF IInv
<1>3. now' \in Nat /\ now' <= now + 1
  <2>1. now + 1 \in Int /\ Horizon \in Int
    BY <1>2, Constants
  <2>2. QED
    BY <1>1, <1>2, <2>1, MinOfTwo
<1>4. pc = "sleeping" => nap <= until
  BY DEF IInv, Sleeping
<1>5. Noted'
  BY <1>1 DEF WarmInTime, Noted, process
<1>6. ASSUME NEW d \in TradingDays \cap Days, LiveFeed, pc # "down", Owed(d)
      PROVE  now' < OpenOf(d)
  <2>1. /\ OpenOf(d) \in Nat /\ WarmupWindow \in Nat /\ WarmupWindow >= 1
    BY OpenType
  <2>2. /\ pc = "sleeping" => until <= OpenOf(d) - WarmupWindow
        /\ pc \in {"cycling", "resting"} => began + MostWait < OpenOf(d)
    BY <1>6 DEF WarmInTime, OwedInTime
  <2>3. CASE pc = "sleeping"
    BY <1>1, <1>2, <1>3, <1>4, <2>1, <2>2, <2>3
  <2>4. CASE pc = "resting"
    BY <1>1, <1>2, <1>3, <2>1, <2>2, <2>4
  <2>5. CASE pc = "cycling"
    BY <1>1, <1>2, <1>3, <2>1, <2>2, <2>5, Constants
  <2>6. QED
    BY <1>1, <1>6, <2>3, <2>4, <2>5
<1>7. MostWait' = MostWait
  BY DEF MostWait
<1>8. OwedInTime'
  BY <1>1, <1>6, <1>7 DEF WarmInTime, OwedInTime, Owed, process
<1>9. QED
  BY <1>5, <1>8 DEF WarmInTime

(* A warm-up has run by the open of every trading day whose warm-up window *)
(* the process has lived through, whatever failed and backed off before    *)
(* (_next_action, run_forever), for every loop none of whose waits and     *)
(* cycles outlasts the time from a close to the next open.                 *)
THEOREM WarmByTheOpen ==
  ASSUME MostWait <= Night
  PROVE  Spec => []ReadyAtOpen
<1>1. Init => WarmInTime
  <2> SUFFICES ASSUME Init PROVE WarmInTime
    OBVIOUS
  <2>1. NoDay \notin Days
    BY DayFacts, Constants DEF NoDay, Days, LookAhead
  <2>2. QED
    BY <2>1 DEF Init, WarmInTime, Noted, OwedInTime
<1>2. IInv /\ WarmInTime /\ [Next]_vars => WarmInTime'
  <2> SUFFICES ASSUME IInv, WarmInTime, [Next]_vars PROVE WarmInTime'
    OBVIOUS
  <2>1. CASE UNCHANGED vars
    BY <2>1 DEF vars, process, WarmInTime, Noted, OwedInTime, Owed, MostWait
  <2>2. CASE Next
    BY <2>2, LoopInTime, StartInTime, AsleepInTime, ObserveInTime, WarmUpInTime, WaitInTime,
       TickInTime DEF Next, Loop
  <2>3. QED
    BY <2>1, <2>2
<1>3. IInv /\ WarmInTime => ReadyAtOpen
  <2> SUFFICES ASSUME IInv, WarmInTime, LiveFeed, pc # "down", NEW d \in TradingDays \cap Days,
                      boot <= OpenOf(d) - WarmupWindow, OpenOf(d) < now
               PROVE  warmups[d] >= 1
    BY DEF ReadyAtOpen
  <2>1. now \in Nat /\ OpenOf(d) \in Nat /\ warmups[d] \in Nat
    BY Types, OpenType DEF IInv, TypeOK
  <2>2. ~Owed(d)
    BY <2>1 DEF WarmInTime, OwedInTime
  <2>3. QED
    BY <2>1, <2>2 DEF Owed
<1>4. QED
  BY <1>1, <1>2, <1>3, Inductive, PTL DEF Spec
=============================================================================
