------------------------------- MODULE LiveFeed -------------------------------
(***************************************************************************)
(* The cache of YFinanceFeed and its dynamic pruning: one download for the *)
(* whole universe per refresh window, symbols that keep failing parked for *)
(* a while, a sample of the parked ones probed by every download, and the  *)
(* park state kept in a file across restarts.                              *)
(*                                                                         *)
(* Lengths of time are counted from or to now, so that a behaviour may go  *)
(* on for ever.  Code between a download and a look-up takes no time.      *)
(* Variants are used by no action.                                         *)
(***************************************************************************)
EXTENDS Naturals, FiniteSetsExt

CONSTANTS
  Symbols,         \* the universe
  NoSymbol,        \* what refresh_now and available_symbols ask for
  RefreshTime,     \* _refresh_seconds
  ParkAfterFails,  \* _PARK_AFTER_FAILS
  ParkDuration,    \* _PARK_DURATION_S
  ReprobePercent,  \* _REPROBE_FRACTION
  MaxMisfiled      \* bound: saves and loads of the park state that fail

ASSUME LiveFeedAssumption ==
  /\ IsFiniteSet(Symbols)
  /\ Symbols # {}
  /\ NoSymbol \notin Symbols
  /\ {RefreshTime, ParkDuration, MaxMisfiled} \subseteq Nat
  /\ ParkAfterFails \in Nat \ {0}
  /\ ReprobePercent \in 0..100

VARIABLES
  phase,      \* "down" while no process runs
  serving,    \* the symbols Yahoo has data for at the moment
  cache,      \* _cache
  fetched,    \* time since _fetched_monotonic, at most RefreshTime
  streak,     \* _failure_streak, of which all from ParkAfterFails are alike
  parked,     \* what is left of _parked_until; 0 when past or unset
  file,       \* the saved park state
  attempted,  \* what the download under way has asked for
  wanted,     \* the symbol the call under way is about
  fails,      \* failed attempts since the last success on file
  misfiled    \* how many of MaxMisfiled have happened

memory == <<cache, fetched, streak, parked, attempted, wanted>>
feedVars == <<phase, serving, memory, file, fails, misfiled>>

-----------------------------------------------------------------------------
Entry == [kind : {"absent", "empty", "bars"}, age : 0..RefreshTime]
New(kind) == [kind |-> kind, age |-> 0]
Absent == New("absent")

ParkState == [streak : [Symbols -> 0..ParkAfterFails],
              parked : [Symbols -> 0..ParkDuration]]
NoParkState == [streak |-> [s \in Symbols |-> 0], parked |-> [s \in Symbols |-> 0]]

(* _ensure_fresh: nothing fetched yet is as old as can be.                 *)
Fresh == fetched < RefreshTime /\ \E s \in Symbols : cache[s].kind # "absent"

(* _active_symbols; one variant goes by the streak, the other rounds the   *)
(* sample down to nothing.                                                 *)
Healthy == {s \in Symbols : streak[s] < ParkAfterFails}
Active == {s \in Symbols : parked[s] = 0}

ProbesRoundedDown(n) == (n * ReprobePercent) \div 100
Probes(n) == LET share == (n * ReprobePercent) \div 100
             IN  IF n = 0 THEN 0 ELSE IF share = 0 THEN 1 ELSE share

Attempts ==
  {Active \cup sample :
     sample \in kSubset(Probes(Cardinality(Symbols \ Active)), Symbols \ Active)}

Capped(n, cap) == IF n < cap THEN n ELSE cap
Remaining(n) == IF n = 0 THEN 0 ELSE n - 1

(* _update_park_state; the variant forgets to end a streak.                *)
StreakKept(s, got) ==
  IF s \in attempted \ got THEN Capped(streak[s] + 1, ParkAfterFails) ELSE streak[s]
StreakAfter(s, got) ==
  IF s \in got THEN 0
  ELSE IF s \in attempted THEN Capped(streak[s] + 1, ParkAfterFails)
  ELSE streak[s]

ParkAfter(s, got) ==
  IF s \in got THEN 0
  ELSE IF s \in attempted /\ StreakAfter(s, got) = ParkAfterFails
  THEN ParkDuration
  ELSE parked[s]

(* The cache after a download that brought enough bars for some symbols;   *)
(* the variant keeps what it had of the others.                            *)
Merged(long) == [s \in Symbols |-> IF s \in long THEN New("bars") ELSE cache[s]]
Installed(long) == [s \in Symbols |-> IF s \in long THEN New("bars") ELSE Absent]

(* _candles: a symbol that is not in the cache is fetched on its own, and  *)
(* whatever comes back is cached.  This is also how a symbol outside the   *)
(* universe, of an old prediction, gets in; it changes nothing for others. *)
FetchOne(s) == IF s \in serving THEN {"bars", "empty"} ELSE {"empty"}

LookedUp(entries, s) ==
  IF s = NoSymbol \/ entries[s].kind # "absent" THEN {entries}
  ELSE {[entries EXCEPT ![s] = New(kind)] : kind \in FetchOne(s)}

-----------------------------------------------------------------------------
NoMemory ==
  /\ cache' = [s \in Symbols |-> Absent]
  /\ fetched' = RefreshTime
  /\ attempted' = {}
  /\ wanted' = NoSymbol

FeedInit ==
  /\ phase = "down"
  /\ serving \in SUBSET Symbols
  /\ cache = [s \in Symbols |-> Absent]
  /\ fetched = RefreshTime
  /\ streak = NoParkState.streak
  /\ parked = NoParkState.parked
  /\ file = NoParkState
  /\ attempted = {}
  /\ wanted = NoSymbol
  /\ fails = [s \in Symbols |-> 0]
  /\ misfiled = 0

(* YFinanceFeed(): a park state that cannot be read is forgotten.          *)
StartFeed ==
  /\ phase = "down"
  /\ phase' = "ready"
  /\ \/ /\ streak' = file.streak
        /\ parked' = file.parked
        /\ UNCHANGED misfiled
     \/ /\ misfiled < MaxMisfiled
        /\ misfiled' = misfiled + 1
        /\ streak' = NoParkState.streak
        /\ parked' = NoParkState.parked
  /\ UNCHANGED <<serving, cache, fetched, file, attempted, wanted, fails>>

(* The head of _refresh.                                                   *)
BeginDownload(s) ==
  /\ phase' = "downloading"
  /\ attempted' \in Attempts
  /\ wanted' = s
  /\ UNCHANGED <<serving, cache, fetched, streak, parked, file, fails, misfiled>>

RefreshNow == phase = "ready" /\ BeginDownload(NoSymbol)

(* candles_at, price_at, orderbook_at, tick_at and available_symbols.      *)
AskStale(s) == phase = "ready" /\ ~Fresh /\ BeginDownload(s)

AskFresh(s) ==
  /\ phase = "ready"
  /\ Fresh
  /\ cache' \in LookedUp(cache, s)
  /\ UNCHANGED <<phase, serving, fetched, streak, parked, file, attempted, wanted,
                 fails, misfiled>>

(* The rest of _refresh, and the look-up it was for.  Chunks that failed,  *)
(* and frames that came back empty, are symbols that are not served; a     *)
(* frame may still hold too few bars.  A process that dies before the file *)
(* is replaced is one whose save failed.                                   *)
FinishDownload ==
  /\ phase = "downloading"
  /\ LET got == attempted \cap serving
         state == [streak |-> [s \in Symbols |-> StreakAfter(s, got)],
                   parked |-> [s \in Symbols |-> ParkAfter(s, got)]]
     IN  \E long \in SUBSET got, saved \in BOOLEAN :
           /\ streak' = state.streak
           /\ parked' = state.parked
           /\ saved \/ misfiled < MaxMisfiled
           /\ misfiled' = IF saved THEN misfiled ELSE misfiled + 1
           /\ file' = IF saved THEN state ELSE file
           /\ fails' = [s \in Symbols |->
                          IF s \in got /\ saved THEN 0
                          ELSE IF s \in attempted \ got
                          THEN Capped(fails[s] + 1, ParkAfterFails)
                          ELSE fails[s]]
           /\ fetched' = IF long = {} THEN fetched ELSE 0
           /\ cache' \in LookedUp(IF long = {} THEN cache ELSE Installed(long), wanted)
  /\ phase' = "ready"
  /\ attempted' = {}
  /\ wanted' = NoSymbol
  /\ UNCHANGED serving

(* A rotation, a signal, a crash: nothing is saved on the way out.         *)
Stop ==
  /\ phase # "down"
  /\ phase' = "down"
  /\ NoMemory
  /\ streak' = NoParkState.streak
  /\ parked' = NoParkState.parked
  /\ UNCHANGED <<serving, file, fails, misfiled>>

-----------------------------------------------------------------------------
Tick ==
  /\ cache' = [s \in Symbols |->
                 IF cache[s].kind = "absent" THEN cache[s]
                 ELSE [cache[s] EXCEPT !.age = Capped(@ + 1, RefreshTime)]]
  /\ fetched' = Capped(fetched + 1, RefreshTime)
  /\ parked' = [s \in Symbols |-> Remaining(parked[s])]
  /\ file' = [file EXCEPT !.parked = [s \in Symbols |-> Remaining(@[s])]]
  /\ UNCHANGED <<phase, serving, streak, attempted, wanted, fails, misfiled>>

(* Outages, halts, delistings, and the end of them.                        *)
ServingChanges ==
  /\ serving' \in SUBSET Symbols
  /\ UNCHANGED <<phase, memory, file, fails, misfiled>>

FeedNext ==
  \/ StartFeed
  \/ RefreshNow
  \/ \E s \in Symbols \cup {NoSymbol} : AskStale(s) \/ AskFresh(s)
  \/ FinishDownload
  \/ Stop
  \/ Tick
  \/ ServingChanges

FeedSpec == FeedInit /\ [][FeedNext]_feedVars

(* Time passes, launchd restarts the process, the observer asks for its    *)
(* symbols in every cycle and a process lasts many cycles.                 *)
FeedFairness ==
  /\ WF_feedVars(StartFeed)
  /\ WF_feedVars(Tick)
  /\ SF_feedVars(\E s \in Symbols : AskStale(s))
  /\ SF_feedVars(FinishDownload)

FairFeedSpec == FeedSpec /\ FeedFairness

-----------------------------------------------------------------------------
(* Every variable keeps its shape; a parking never outlasts its duration.  *)
FeedTypeOK ==
  /\ phase \in {"down", "ready", "downloading"}
  /\ serving \subseteq Symbols
  /\ cache \in [Symbols -> Entry]
  /\ fetched \in 0..RefreshTime
  /\ [streak |-> streak, parked |-> parked] \in ParkState
  /\ file \in ParkState
  /\ attempted \subseteq Symbols
  /\ wanted \in Symbols \cup {NoSymbol}
  /\ fails \in [Symbols -> 0..ParkAfterFails]
  /\ misfiled \in 0..MaxMisfiled

(* A symbol is parked, in memory or on file, for ParkAfterFails failures   *)
(* in a row and nothing less, counted across restarts, lost saves and      *)
(* unreadable files from its last success on record.                       *)
ParkedForCause ==
  \A s \in Symbols :
    parked[s] > 0 \/ file.parked[s] > 0 => fails[s] = ParkAfterFails

(* Pruning never prunes everything: a download asks for some symbol even   *)
(* when the whole universe is parked.                                      *)
EveryDownloadAsks == phase = "downloading" => attempted # {}

(* Nothing in the cache is older than the download it is dated by: a       *)
(* symbol that dropped out of the last one is not served as fresh.         *)
NothingOlder ==
  \A s \in Symbols : cache[s].kind # "absent" => cache[s].age <= fetched

(* A symbol that comes back for good is found, whatever the sample of the  *)
(* parked ones happens to be: in the end it is healthy on file, so that    *)
(* every download, of every later process, asks for it.                    *)
ComesBack ==
  \A s \in Symbols : <>[](s \in serving) => <>[](file.streak[s] = 0)

(* A parking has its cause, and lasts no longer than configured.           *)
ParksAreEarned == FeedTypeOK /\ ParkedForCause
=============================================================================
