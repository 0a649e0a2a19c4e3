------------------------------ MODULE Supervision ------------------------------
(***************************************************************************)
(* Who is running: several processes on one machine and one database, the  *)
(* single-instance lock file, the bot_runs table in which every observer   *)
(* registers and beats, and what the dashboard makes of that table.        *)
(*                                                                         *)
(* A process is one life: launched once, gone for good.  Pids are reused.  *)
(* Processes in Guarded run inside `with SingleInstanceLock(name)', as the *)
(* class's own docstring shows; the others start an observer right away,   *)
(* as the commands of the CLI do.                                          *)
(***************************************************************************)
EXTENDS Integers, Sequences, FiniteSets

CONSTANTS
  Procs,        \* process lives
  Guarded,      \* those that take the instance lock first
  Foreign,      \* those of another user, for whom signal 0 is not permitted
  Pids,         \* the pids the system deals out
  NoPid,        \* no pid: no lock file, no process
  Blank,        \* a lock file opened for writing and still empty
  ShownRuns,    \* LIMIT of current_bot_run
  StaleAfter,   \* _HEARTBEAT_STALE_SECONDS
  LastMoment    \* bound: the last moment modelled

ASSUME SupervisionAssumption ==
  /\ Guarded \subseteq Procs
  /\ Foreign \subseteq Procs
  /\ NoPid \notin Pids /\ Blank \notin Pids /\ NoPid # Blank
  /\ ShownRuns \in Nat \ {0}
  /\ StaleAfter \in Nat
  /\ LastMoment \in Nat

VARIABLES
  moment,    \* the clock
  at,        \* where each process is; "unborn" before and "gone" after its life
  pid,       \* the pid of each live process
  lockFile,  \* what data/locks/<name>.lock holds
  runs,      \* the bot_runs rows, in the order of their ids
  found,     \* the rows each starting process read as running
  raced,     \* history: two processes were between look and lock at once
  died       \* history: when each process that is gone went

supervisionVars == <<moment, at, pid, lockFile, runs, found, raced, died>>

-----------------------------------------------------------------------------
Alive(p) == at[p] \notin {"unborn", "gone"}

(* Signal 0: a process that may not be signalled exists none the less; the *)
(* variant takes it for dead.                                              *)
PidAliveIfOurs(i) == \E p \in Procs \ Foreign : Alive(p) /\ pid[p] = i
PidAlive(i) == \E p \in Procs : Alive(p) /\ pid[p] = i

(* A process takes part in the lock from its look at the file on.          *)
Claiming == {"judged", "writing"}
Observing == {"starting", "sweeping", "swept", "running"}
Holds(p) == p \in Guarded /\ at[p] \in Observing \cup {"stopped", "releasing"}

(* A file that is missing, empty, or names a dead process or the reader    *)
(* itself does not stop anyone.                                            *)
LockIsOthers(p) == lockFile \in Pids /\ PidAlive(lockFile) /\ lockFile # pid[p]

RunsRunning == {r \in DOMAIN runs : runs[r].status = "running"}

-----------------------------------------------------------------------------
SupervisionInit ==
  /\ moment = 0
  /\ at = [p \in Procs |-> "unborn"]
  /\ pid = [p \in Procs |-> NoPid]
  /\ lockFile = NoPid
  /\ runs = <<>>
  /\ found = [p \in Procs |-> {}]
  /\ raced = FALSE
  /\ died = [p \in Procs |-> 0]

Goes(p, where) == at' = [at EXCEPT ![p] = where]

Leaves(p) ==
  /\ Goes(p, "gone")
  /\ pid' = [pid EXCEPT ![p] = NoPid]
  /\ found' = [found EXCEPT ![p] = {}]
  /\ died' = [died EXCEPT ![p] = moment]

(* The system starts a process under any pid that is free.                 *)
Launch(p) ==
  /\ at[p] = "unborn"
  /\ \E i \in Pids :
       /\ \A q \in Procs : pid[q] # i
       /\ pid' = [pid EXCEPT ![p] = i]
  /\ Goes(p, IF p \in Guarded THEN "acquiring" ELSE "starting")
  /\ UNCHANGED <<moment, lockFile, runs, found, raced, died>>

(* acquire: read the file and judge the pid in it ...                      *)
LookAtLock(p) ==
  /\ at[p] = "acquiring"
  /\ ~LockIsOthers(p)
  /\ Goes(p, "judged")
  /\ raced' = (raced \/ \E q \in Procs : at[q] \in Claiming)
  /\ UNCHANGED <<moment, pid, lockFile, runs, found, died>>

RefuseToStart(p) ==
  /\ at[p] = "acquiring"
  /\ LockIsOthers(p)
  /\ Leaves(p)
  /\ UNCHANGED <<moment, lockFile, runs, raced>>

(* ... then write_text, which empties the file before it writes.           *)
EmptyLockFile(p) ==
  /\ at[p] = "judged"
  /\ lockFile' = Blank
  /\ Goes(p, "writing")
  /\ UNCHANGED <<moment, pid, runs, found, raced, died>>

WriteLockFile(p) ==
  /\ at[p] = "writing"
  /\ lockFile' = pid[p]
  /\ Goes(p, "starting")
  /\ UNCHANGED <<moment, pid, runs, found, raced, died>>

(* start: mark_dangling_runs_crashed reads the running rows ...            *)
SelectRunning(p) ==
  /\ at[p] = "starting"
  /\ found' = [found EXCEPT ![p] = RunsRunning]
  /\ Goes(p, "sweeping")
  /\ UNCHANGED <<moment, pid, lockFile, runs, raced, died>>

WithStatus(row, status) == [row EXCEPT !.status = status]

(* ... and writes `crashed' into those whose pid is nobody's; the variant  *)
(* into all of them.                                                       *)
DanglingOrOld(r) == TRUE
Dangling(r) == ~PidAlive(runs[r].pid)
MarkCrashed(p) ==
  /\ at[p] = "sweeping"
  /\ runs' = [r \in DOMAIN runs |->
                IF r \in found[p] /\ Dangling(r)
                THEN WithStatus(runs[r], "crashed")
                ELSE runs[r]]
  /\ found' = [found EXCEPT ![p] = {}]
  /\ Goes(p, "swept")
  /\ UNCHANGED <<moment, pid, lockFile, raced, died>>

StartBotRun(p) ==
  /\ at[p] = "swept"
  /\ runs' = Append(runs, [owner |-> p, pid |-> pid[p], status |-> "running",
                           beat |-> moment])
  /\ Goes(p, "running")
  /\ UNCHANGED <<moment, pid, lockFile, found, raced, died>>

OwnRun(p, r) == at[p] = "running" /\ runs[r].owner = p

(* A beat also restores `running'.                                         *)
Beaten(row) == [row EXCEPT !.beat = moment, !.status = "running"]
Heartbeat(p) ==
  /\ \E r \in DOMAIN runs :
       /\ OwnRun(p, r)
       /\ runs' = [runs EXCEPT ![r] = Beaten(@)]
  /\ UNCHANGED <<moment, at, pid, lockFile, found, raced, died>>

(* The end of run_forever: completed, stopped, or crashed when it ended    *)
(* for any other reason.                                                   *)
Finals == {"completed", "stopped", "crashed"}
StopBotRun(p) ==
  /\ \E r \in DOMAIN runs, final \in Finals :
       /\ OwnRun(p, r)
       /\ runs' = [runs EXCEPT ![r] = WithStatus(@, final)]
  /\ Goes(p, "stopped")
  /\ UNCHANGED <<moment, pid, lockFile, found, raced, died>>

Exit(p) ==
  /\ at[p] = "stopped"
  /\ p \notin Guarded \/ lockFile # pid[p]
  /\ Leaves(p)
  /\ UNCHANGED <<moment, lockFile, runs, raced>>

(* release: the file is removed when it was read to be one's own.          *)
FindOwnLock(p) ==
  /\ at[p] = "stopped"
  /\ p \in Guarded /\ lockFile = pid[p]
  /\ Goes(p, "releasing")
  /\ UNCHANGED <<moment, pid, lockFile, runs, found, raced, died>>

Unlink(p) ==
  /\ at[p] = "releasing"
  /\ lockFile' = NoPid
  /\ Leaves(p)
  /\ UNCHANGED <<moment, runs, raced>>

(* SIGKILL, the out-of-memory killer, the power: no code of ours runs.     *)
KillProcess(p) ==
  /\ Alive(p)
  /\ Leaves(p)
  /\ UNCHANGED <<moment, lockFile, runs, raced>>

TimePasses ==
  /\ moment < LastMoment
  /\ moment' = moment + 1
  /\ UNCHANGED <<at, pid, lockFile, runs, found, raced, died>>

SupervisionNext ==
  \/ \E p \in Procs :
       \/ Launch(p) \/ LookAtLock(p) \/ RefuseToStart(p)
       \/ EmptyLockFile(p) \/ WriteLockFile(p)
       \/ SelectRunning(p) \/ MarkCrashed(p) \/ StartBotRun(p)
       \/ Heartbeat(p) \/ StopBotRun(p)
       \/ Exit(p) \/ FindOwnLock(p) \/ Unlink(p) \/ KillProcess(p)
  \/ TimePasses

SupervisionSpec == SupervisionInit /\ [][SupervisionNext]_supervisionVars

-----------------------------------------------------------------------------
(* What the dashboard shows.  current_bot_run: of the newest running rows, *)
(* the first whose process lives; failing that, the newest row.            *)
NewestRunning ==
  {r \in RunsRunning : Cardinality({s \in RunsRunning : s > r}) < ShownRuns}
CurrentOf(S) == IF S = {} THEN Len(runs)
                ELSE CHOOSE r \in S : \A s \in S : s <= r
CurrentBotRun == CurrentOf({r \in NewestRunning : PidAlive(runs[r].pid)})

(* _observer_live of a row.                                                *)
ObserverLive(r) ==
  runs[r].status = "running" /\ moment - runs[r].beat < StaleAfter

-----------------------------------------------------------------------------
Statuses == {"running", "completed", "stopped", "crashed"}
RunRows == [owner : Procs, pid : Pids, status : Statuses, beat : 0..LastMoment]

(* The rows and the places keep their ranges.                              *)
SupervisionTypeOK ==
  /\ moment \in 0..LastMoment
  /\ at \in [Procs -> {"unborn", "acquiring", "stopped", "releasing", "gone"}
                        \cup Claiming \cup Observing]
  /\ pid \in [Procs -> Pids \cup {NoPid}]
  /\ lockFile \in Pids \cup {NoPid, Blank}
  /\ runs \in Seq(RunRows)
  /\ found \in [Procs -> SUBSET DOMAIN runs]
  /\ raced \in BOOLEAN
  /\ died \in [Procs -> 0..LastMoment]

(* The instance lock's promise, as far as it holds: two processes are in   *)
(* its care at once only after two of them had looked at the file before   *)
(* either had written it.                                                  *)
OneHolderUnlessRaced ==
  \A p, q \in Procs : Holds(p) /\ Holds(q) /\ p # q => raced

(* The run of a live observer is `running' in the database, whoever else   *)
(* starts up, sweeps, stops or dies, and whoever owns the process.         *)
LiveRunIsRunning ==
  \A r \in DOMAIN runs :
    at[runs[r].owner] = "running" => runs[r].status = "running"

(* As long as fewer dead runs than the query's limit are left `running', a *)
(* live observer is what the dashboard shows, never a dead or a finished   *)
(* sibling started after it.                                               *)
LiveRunShown ==
  /\ \E r \in DOMAIN runs : at[runs[r].owner] = "running"
  /\ Cardinality({r \in RunsRunning : ~PidAlive(runs[r].pid)}) < ShownRuns
  => runs[CurrentBotRun].status = "running" /\ PidAlive(runs[CurrentBotRun].pid)

(* The dashboard never calls an observer live that has been dead for the   *)
(* time a heartbeat takes to go stale, not even when its pid is reused.    *)
DeadRunFades ==
  runs # <<>> /\ ObserverLive(CurrentBotRun) =>
    LET p == runs[CurrentBotRun].owner
    IN  at[p] = "gone" => moment - died[p] < StaleAfter

(* What the database and the dashboard say of the runs is so.              *)
RunsAreTruthful ==
  SupervisionTypeOK /\ LiveRunIsRunning /\ LiveRunShown /\ DeadRunFades
=============================================================================
