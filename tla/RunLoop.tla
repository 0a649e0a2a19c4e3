------------------------------- MODULE RunLoop -------------------------------
(***************************************************************************)
(* The outer loop of the live observer (run_forever): it observes while    *)
(* the market is open, runs one warm-up cycle shortly before the open,     *)
(* sleeps otherwise, backs off from and gives up on failing cycles, ends   *)
(* itself after MaxCycles cycles to shed memory, and stops on a signal.    *)
(* launchd starts it again whenever it is gone.                            *)
(*                                                                         *)
(* Code between two waits takes no time; a cycle takes up to MaxWork.      *)
(***************************************************************************)
EXTENDS MarketHours, FiniteSetsExt

CONSTANTS
  LiveFeed,          \* feed.respects_market_hours
  Horizon,           \* bound: the last moment modelled
  Interval,          \* the target period of a cycle
  ClosedSleep,       \* _CLOSED_SLEEP_S
  SleepChunk,        \* _SLEEP_CHUNK_S
  MaxCycles,         \* _MAX_CYCLES_BEFORE_RESTART
  BackoffThreshold,  \* _BACKOFF_THRESHOLD
  BackoffMax,        \* _BACKOFF_MAX_SECONDS
  AbortThreshold,    \* _ABORT_THRESHOLD
  MaxWork,           \* bound: how long a cycle may take
  MaxFailures,       \* bound: failed cycles
  MaxKills           \* bound: signals and kills

ASSUME RunLoopAssumption ==
  /\ LiveFeed \in BOOLEAN
  /\ {Horizon, BackoffThreshold, BackoffMax, MaxWork, MaxFailures, MaxKills}
       \subseteq Nat
  /\ {Interval, ClosedSleep, SleepChunk, MaxCycles, AbortThreshold}
       \subseteq Nat \ {0}
  /\ \A t \in 0..(Horizon + BackoffMax + Interval) : OpensAhead(t) # {}

VARIABLES
  now,         \* the clock
  pc,          \* where the loop is; "down" while no process runs
  began,       \* cycle_started, or when the sleep was entered
  until,       \* when the sleep or the rest under way is over
  nap,         \* when the time.sleep call under way returns
  stop,        \* _stop
  cycle,       \* _cycle
  failures,    \* consecutive_failures
  warmupDone,  \* _warmup_done_for, or NoDay
  boot,        \* started_ts of the run
  asked,       \* when the stop was requested
  warmups,     \* warm-up cycles ever begun for each day's open
  kills,       \* how many of MaxKills have happened
  failed       \* how many of MaxFailures have happened

process == <<began, until, nap, cycle, failures, warmupDone, boot>>
vars == <<now, pc, process, stop, asked, warmups, kills, failed>>

-----------------------------------------------------------------------------
Days == 0..(Day(Horizon) + LookAhead)
NoDay == Day(Horizon) + LookAhead + 1

(* What to do at t.  The variant keeps a flag instead of a date.           *)
NextActionByFlag(t) ==
  IF ~LiveFeed \/ IsMarketOpen(t) THEN "observe"
  ELSE IF InWarmupWindow(t) /\ warmupDone = NoDay THEN "warmup"
  ELSE "sleep"
NextAction(t) ==
  IF ~LiveFeed \/ IsMarketOpen(t) THEN "observe"
  ELSE IF InWarmupWindow(t) /\ warmupDone # NextOpenDay(t) THEN "warmup"
  ELSE "sleep"

(* How long to sleep; the variant sleeps its cap wherever the open is.     *)
SleepTheCap(t) == ClosedSleep
SleepFor(t) ==
  LET wanted == IF InWarmupWindow(t) THEN UntilOpen(t)
                ELSE Min({UntilOpen(t) - WarmupWindow, ClosedSleep})
  IN  Min({Max({1, wanted}), ClosedSleep})

(* The extra rest after n failures in a row.                               *)
Backoff(n) ==
  IF n > BackoffThreshold
  THEN Min({BackoffMax, Interval * 2^Min({n - BackoffThreshold, 10})})
  ELSE 0

(* The moment a rest begun at now is over; a cycle that overshot its       *)
(* period does not rest.                                                   *)
RestUntil(n) == Max({now, began + Interval + Backoff(n)})

(* Whether the loop's sleep goes on for another chunk, and the variant     *)
(* that does not look at the flag.                                         *)
SleepsOnRegardless == nap < until
SleepsOn == nap < until /\ ~stop

-----------------------------------------------------------------------------
Init ==
  /\ now = 0 /\ pc = "down"
  /\ began = 0 /\ until = 0 /\ nap = 0
  /\ stop = FALSE /\ asked = 0
  /\ cycle = 0 /\ failures = 0 /\ warmupDone = NoDay /\ boot = 0
  /\ warmups = [d \in Days |-> 0]
  /\ kills = 0 /\ failed = 0

(* Observer(), the signal handlers, start().                               *)
Start ==
  /\ pc = "down"
  /\ pc' = "looping"
  /\ boot' = now
  /\ began' = now /\ until' = now /\ nap' = now
  /\ cycle' = 0 /\ failures' = 0 /\ warmupDone' = NoDay
  /\ stop' = FALSE
  /\ UNCHANGED <<now, asked, warmups, kills, failed>>

(* The process is gone, and its memory with it.                            *)
Down ==
  /\ pc' = "down"
  /\ stop' = FALSE
  /\ UNCHANGED process

(* The head of the loop: the flag, then the memory rotation.               *)
LeaveLoop ==
  /\ pc = "looping"
  /\ stop \/ cycle >= MaxCycles
  /\ Down
  /\ UNCHANGED <<now, asked, warmups, kills, failed>>

EnterLoop ==
  /\ pc = "looping"
  /\ ~stop /\ cycle < MaxCycles
  /\ pc' = "deciding"
  /\ UNCHANGED <<now, process, stop, asked, warmups, kills, failed>>

(* action == "sleep".                                                      *)
FallAsleep ==
  /\ pc = "deciding"
  /\ NextAction(now) = "sleep"
  /\ pc' = "sleeping"
  /\ began' = now
  /\ until' = now + SleepFor(now)
  /\ nap' = now
  /\ UNCHANGED <<now, stop, cycle, failures, warmupDone, boot, asked, warmups,
                 kills, failed>>

(* One time.sleep of at most a chunk, then a heartbeat.                    *)
Doze ==
  /\ pc = "sleeping"
  /\ now = nap
  /\ SleepsOn
  /\ nap' = Min({nap + SleepChunk, until})
  /\ UNCHANGED <<now, pc, began, until, stop, cycle, failures, warmupDone, boot,
                 asked, warmups, kills, failed>>

WakeUp ==
  /\ pc = "sleeping"
  /\ now = nap
  /\ ~SleepsOn
  /\ pc' = "looping"
  /\ UNCHANGED <<now, process, stop, asked, warmups, kills, failed>>

(* run_once counts its cycle first of all.                                 *)
BeginCycle ==
  /\ pc' = "cycling"
  /\ began' = now
  /\ cycle' = cycle + 1
  /\ UNCHANGED <<now, until, nap, stop, failures, boot, asked, kills, failed>>

(* The day whose warm-up is on record, and the variant that keeps none.    *)
NothingNoted == NoDay
WarmupNoted == NextOpenDay(now)

(* action == "warmup": the day is noted before the cycle runs.             *)
WarmUp ==
  /\ pc = "deciding"
  /\ NextAction(now) = "warmup"
  /\ warmupDone' = WarmupNoted
  /\ warmups' = [warmups EXCEPT ![NextOpenDay(now)] = @ + 1]
  /\ BeginCycle

Observe ==
  /\ pc = "deciding"
  /\ NextAction(now) = "observe"
  /\ BeginCycle
  /\ UNCHANGED <<warmupDone, warmups>>

Rest(n) ==
  /\ pc' = "resting"
  /\ failures' = n
  /\ until' = RestUntil(n)
  /\ UNCHANGED <<now, began, nap, stop, cycle, warmupDone, boot, asked, warmups,
                 kills>>

EndCycle ==
  /\ pc = "cycling"
  /\ Rest(0)
  /\ UNCHANGED failed

(* run_once raised: back off, or give up.                                  *)
FailCycle ==
  /\ pc = "cycling"
  /\ failed < MaxFailures
  /\ failed' = failed + 1
  /\ IF failures + 1 >= AbortThreshold
     THEN Down /\ UNCHANGED <<now, asked, warmups, kills>>
     ELSE Rest(failures + 1)

(* The rest looks at the flag every second.                                *)
EndRest ==
  /\ pc = "resting"
  /\ now >= until \/ stop
  /\ pc' = "looping"
  /\ UNCHANGED <<now, process, stop, asked, warmups, kills, failed>>

(* SIGINT or SIGTERM: the handler only sets the flag.                      *)
Interrupt ==
  /\ pc # "down" /\ ~stop
  /\ kills < MaxKills
  /\ kills' = kills + 1
  /\ stop' = TRUE
  /\ asked' = now
  /\ UNCHANGED <<now, pc, process, warmups, failed>>

Kill ==
  /\ pc # "down"
  /\ kills < MaxKills
  /\ kills' = kills + 1
  /\ Down
  /\ UNCHANGED <<now, asked, warmups, failed>>

(* Time passes while the process is gone, waits or works, up to Horizon.   *)
Tick ==
  /\ \/ pc = "down"
     \/ pc = "sleeping" /\ now < nap
     \/ pc = "resting" /\ now < until /\ ~stop
     \/ pc = "cycling" /\ now < began + MaxWork
  /\ now' = Min({now + 1, Horizon})
  /\ UNCHANGED <<pc, process, stop, asked, warmups, kills, failed>>

-----------------------------------------------------------------------------
Loop ==
  \/ Start \/ LeaveLoop \/ EnterLoop \/ FallAsleep \/ Doze \/ WakeUp
  \/ WarmUp \/ Observe \/ EndCycle \/ FailCycle \/ EndRest

Next == Loop \/ Interrupt \/ Kill \/ Tick

Spec == Init /\ [][Next]_vars

-----------------------------------------------------------------------------
(* Every variable keeps its range: no wait exceeds its cap, and the counts *)
(* of cycles and of failures in a row stop at the rotation and the abort.  *)
TypeOK ==
  /\ now \in 0..Horizon
  /\ pc \in {"down", "looping", "deciding", "sleeping", "cycling", "resting"}
  /\ {began, boot, asked} \subseteq 0..now
  /\ until \in 0..(began + Max({ClosedSleep, MaxWork, Interval + BackoffMax}))
  /\ nap \in 0..(Horizon + ClosedSleep)
  /\ stop \in BOOLEAN
  /\ cycle \in 0..MaxCycles
  /\ failures \in 0..(AbortThreshold - 1)
  /\ warmupDone \in Days \cup {NoDay}
  /\ warmups \in [Days -> Nat]
  /\ kills \in 0..MaxKills
  /\ failed \in 0..MaxFailures

(* A sleep never covers a moment at which the loop would have had work to  *)
(* do: neither the opening of the warm-up window nor the open itself.      *)
SleepMissesNothing ==
  pc = "sleeping" => \A t \in began..(until - 1) : NextAction(t) = "sleep"

(* ADR-0007's "at most once per trading day", as far as it goes: a second  *)
(* warm-up of a day is that of a process started within its window.        *)
OneWarmupPerProcess ==
  [][\A d \in Days : warmups'[d] > warmups[d] /\ warmups[d] > 0
                       => boot >= OpenOf(d) - WarmupWindow]_vars

(* A warm-up has run by the open of every trading day whose warm-up window *)
(* the process has lived through, whatever cycles failed before it.        *)
ReadyAtOpen ==
  LiveFeed /\ pc # "down" =>
    \A d \in TradingDays \cap Days :
      boot <= OpenOf(d) - WarmupWindow /\ OpenOf(d) < now => warmups[d] >= 1

(* A requested stop is honoured within a sleep chunk or, when a cycle is   *)
(* under way or about to begin, within that cycle.                         *)
StopIsPrompt ==
  stop /\ pc # "down" => now <= asked + Max({SleepChunk, MaxWork})

(* No wait is longer than it should be: neither a rest nor a backoff       *)
(* outgrows its cap, nor a sleep the moment with work to do, nor any wait  *)
(* a requested stop.                                                       *)
WaitsAreBounded == TypeOK /\ SleepMissesNothing /\ StopIsPrompt
=============================================================================
