------------------------------ MODULE FeedProofs ------------------------------
(***************************************************************************)
(* Theorems about where the prices come from, and what is made of them     *)
(* across the watchlist.  The live feed: its types, and the safety of      *)
(* parking and of the cache, for every universe, every threshold and       *)
(* duration, and any sequence of outages, restarts, lost saves and         *)
(* unreadable files.  The consensus of several sources: what one bad print *)
(* can do to it, for any number of sources and any market.  The            *)
(* cross-section: the ranking of a cycle is fair to every stock, for any   *)
(* watchlist, weights and shares of the baskets.                           *)
(***************************************************************************)
EXTENDS LiveFeed, MarketData, Ranking, NumberProofs, SequenceTheorems

-----------------------------------------------------------------------------
(* The live feed.                                                          *)

(* No streak, in memory or on file, counts a failure that was not one.     *)
StreakIsReal ==
  \A s \in Symbols : streak[s] <= fails[s] /\ file.streak[s] <= fails[s]

IInv ==
  /\ FeedTypeOK
  /\ StreakIsReal
  /\ ParkedForCause
  /\ EveryDownloadAsks
  /\ NothingOlder

-----------------------------------------------------------------------------
LEMMA CappedType ==
  ASSUME NEW cap \in Nat, NEW n \in Nat
  PROVE  /\ Capped(n, cap) \in 0..cap
         /\ Capped(n, cap) <= n
         /\ \A m \in Nat : m <= n => Capped(m, cap) <= Capped(n, cap)
BY DEF Capped

(* What a download starts with is a set of symbols, and never nothing.     *)
LEMMA AttemptsAsk ==
  ASSUME NEW asked \in Attempts
  PROVE  asked \subseteq Symbols /\ asked # {}
<1> DEFINE out == Symbols \ Active
           n == Cardinality(out)
<1>1. PICK sample \in kSubset(Probes(n), out) : asked = Active \cup sample
  BY DEF Attempts
<1>2. sample \subseteq out /\ Cardinality(sample) = Probes(n)
  BY <1>1 DEF kSubset
<1>3. asked \subseteq Symbols
  BY <1>1, <1>2 DEF Active
<1>4. CASE Active # {}
  BY <1>1, <1>3, <1>4
<1>5. CASE Active = {}
  <2>1. IsFiniteSet(out) /\ out # {}
    BY <1>5, LiveFeedAssumption
  <2>2. n # 0
    BY <2>1, FS_EmptySet
  <2>3. Probes(n) # 0
    BY <2>2 DEF Probes
  <2>4. sample # {}
    BY <1>2, <2>3, FS_EmptySet
  <2>5. QED
    BY <1>1, <1>3, <2>4
<1>6. QED
  BY <1>3, <1>4, <1>5

(* A look-up adds nothing to the cache but entries of this moment.         *)
LEMMA LookUpAdds ==
  ASSUME NEW entries \in [Symbols -> Entry], NEW s, NEW found \in LookedUp(entries, s)
  PROVE  /\ found \in [Symbols -> Entry]
         /\ \A o \in Symbols : found[o] = entries[o] \/ found[o].age = 0
<1>1. \A kind \in {"absent", "empty", "bars"} : New(kind) \in Entry /\ New(kind).age = 0
  BY LiveFeedAssumption DEF New, Entry
<1>2. CASE found = entries
  BY <1>2
<1>3. CASE \E kind \in FetchOne(s) : found = [entries EXCEPT ![s] = New(kind)]
  BY <1>1, <1>3 DEF FetchOne
<1>4. QED
  BY <1>2, <1>3 DEF LookedUp

LEMMA InitInvariant == FeedInit => IInv
<1> SUFFICES ASSUME FeedInit PROVE IInv
  OBVIOUS
<1>1. NoParkState \in ParkState /\ Absent \in Entry
  BY LiveFeedAssumption DEF NoParkState, ParkState, Absent, New, Entry
<1>2. FeedTypeOK
  BY <1>1, LiveFeedAssumption DEF FeedInit, FeedTypeOK, ParkState, NoParkState
<1>3. StreakIsReal /\ ParkedForCause
  BY DEF FeedInit, NoParkState, StreakIsReal, ParkedForCause
<1>4. EveryDownloadAsks /\ NothingOlder
  BY DEF FeedInit, EveryDownloadAsks, NothingOlder, Absent, New
<1>5. QED
  BY <1>2, <1>3, <1>4 DEF IInv

LEMMA StepInvariant == IInv /\ [FeedNext]_feedVars => IInv'
<1> SUFFICES ASSUME IInv, [FeedNext]_feedVars PROVE IInv'
  OBVIOUS
<1>1. /\ FeedTypeOK /\ StreakIsReal /\ ParkedForCause /\ EveryDownloadAsks /\ NothingOlder
      /\ cache \in [Symbols -> Entry] /\ fetched \in Nat
  BY DEF IInv, FeedTypeOK
<1>2. /\ RefreshTime \in Nat /\ ParkAfterFails \in Nat /\ ParkAfterFails # 0
      /\ ParkDuration \in Nat /\ MaxMisfiled \in Nat
  BY LiveFeedAssumption
<1>3. CASE StartFeed
  <2>1. \/ streak' = file.streak /\ parked' = file.parked
        \/ streak' = NoParkState.streak /\ parked' = NoParkState.parked
    BY <1>3 DEF StartFeed
  <2>2. [streak |-> streak', parked |-> parked'] \in ParkState
    BY <1>1, <1>2, <2>1 DEF FeedTypeOK, ParkState, NoParkState
  <2>3. misfiled' \in 0..MaxMisfiled
    BY <1>1, <1>2, <1>3 DEF StartFeed, FeedTypeOK
  <2>4. FeedTypeOK'
    BY <1>1, <1>3, <2>2, <2>3 DEF StartFeed, FeedTypeOK
  <2>5. StreakIsReal' /\ ParkedForCause'
    <3>1. \A s \in Symbols : fails[s] \in Nat
      BY <1>1 DEF FeedTypeOK
    <3>2. QED
      BY <1>1, <1>3, <2>1, <3>1 DEF StartFeed, NoParkState, StreakIsReal, ParkedForCause
  <2>6. EveryDownloadAsks' /\ NothingOlder'
    BY <1>1, <1>3 DEF StartFeed, EveryDownloadAsks, NothingOlder
  <2>7. QED
    BY <2>4, <2>5, <2>6 DEF IInv
<1>4. ASSUME NEW s \in Symbols \cup {NoSymbol}, BeginDownload(s)
      PROVE  IInv'
  <2>1. attempted' \subseteq Symbols /\ attempted' # {}
    BY <1>4, AttemptsAsk DEF BeginDownload
  <2>2. FeedTypeOK'
    BY <1>1, <1>2, <1>4, <2>1 DEF BeginDownload, FeedTypeOK
  <2>3. StreakIsReal' /\ ParkedForCause' /\ NothingOlder'
    BY <1>1, <1>4 DEF BeginDownload, StreakIsReal, ParkedForCause, NothingOlder
  <2>4. QED
    BY <2>1, <2>2, <2>3 DEF IInv, EveryDownloadAsks
<1>5. CASE RefreshNow
  BY <1>4, <1>5 DEF RefreshNow
<1>6. ASSUME NEW s \in Symbols \cup {NoSymbol}, AskStale(s)
      PROVE  IInv'
  BY <1>4, <1>6 DEF AskStale
<1>7. ASSUME NEW s \in Symbols \cup {NoSymbol}, AskFresh(s)
      PROVE  IInv'
  <2>1. cache' \in LookedUp(cache, s)
    BY <1>7 DEF AskFresh
  <2>2. /\ cache' \in [Symbols -> Entry]
        /\ \A o \in Symbols : cache'[o] = cache[o] \/ cache'[o].age = 0
    BY <1>1, <2>1, LookUpAdds
  <2>3. FeedTypeOK'
    BY <1>1, <1>7, <2>2 DEF AskFresh, FeedTypeOK
  <2>4. NothingOlder'
    BY <1>1, <1>7, <2>2 DEF AskFresh, NothingOlder
  <2>5. StreakIsReal' /\ ParkedForCause' /\ EveryDownloadAsks'
    BY <1>1, <1>7 DEF AskFresh, StreakIsReal, ParkedForCause, EveryDownloadAsks
  <2>6. QED
    BY <2>3, <2>4, <2>5 DEF IInv
<1>8. CASE FinishDownload
  <2> DEFINE got == attempted \cap serving
             state == [streak |-> [s \in Symbols |-> StreakAfter(s, got)],
                       parked |-> [s \in Symbols |-> ParkAfter(s, got)]]
  <2>1. PICK long \in SUBSET got, saved \in BOOLEAN :
          /\ streak' = state.streak
          /\ parked' = state.parked
          /\ saved \/ misfiled < MaxMisfiled
          /\ misfiled' = IF saved THEN misfiled ELSE misfiled + 1
          /\ file' = IF saved THEN state ELSE file
          /\ fails' = [s \in Symbols |->
                         IF s \in got /\ saved THEN 0
                         ELSE IF s \in attempted \ got
                         THEN Capped(fails[s] + 1, ParkAfterFails)
                         ELSE fails[s]]
          /\ fetched' = IF long = {} THEN fetched ELSE 0
          /\ cache' \in LookedUp(IF long = {} THEN cache ELSE Installed(long), wanted)
    BY <1>8 DEF FinishDownload
  <2>2. \A s \in Symbols : /\ streak[s] \in 0..ParkAfterFails
                           /\ fails[s] \in 0..ParkAfterFails
                           /\ parked[s] \in 0..ParkDuration
                           /\ file.streak[s] \in 0..ParkAfterFails
                           /\ file.parked[s] \in 0..ParkDuration
    BY <1>1 DEF FeedTypeOK, ParkState
  <2>3. \A s \in Symbols : /\ StreakAfter(s, got) \in 0..ParkAfterFails
                           /\ ParkAfter(s, got) \in 0..ParkDuration
    BY <1>2, <2>2 DEF StreakAfter, ParkAfter, Capped
  <2>4. state \in ParkState
    BY <2>3 DEF ParkState
  <2>5. \A s \in Symbols : /\ streak'[s] = StreakAfter(s, got)
                           /\ parked'[s] = ParkAfter(s, got)
                           /\ file'.streak[s] = IF saved THEN StreakAfter(s, got)
                                                ELSE file.streak[s]
                           /\ file'.parked[s] = IF saved THEN ParkAfter(s, got)
                                                ELSE file.parked[s]
                           /\ fails'[s] = IF s \in got /\ saved THEN 0
                                          ELSE IF s \in attempted \ got
                                          THEN Capped(fails[s] + 1, ParkAfterFails)
                                          ELSE fails[s]
    BY <2>1
  <2>6. Installed(long) \in [Symbols -> Entry]
    BY <1>2 DEF Installed, New, Absent, Entry
  <2>7. /\ cache' \in [Symbols -> Entry]
        /\ \A o \in Symbols :
             cache'[o] = (IF long = {} THEN cache ELSE Installed(long))[o]
               \/ cache'[o].age = 0
    BY <1>1, <2>1, <2>6, LookUpAdds
  <2>8. FeedTypeOK'
    <3>1. [streak |-> streak', parked |-> parked'] \in ParkState /\ file' \in ParkState
      BY <1>1, <2>1, <2>4 DEF ParkState, FeedTypeOK
    <3>2. fails' \in [Symbols -> 0..ParkAfterFails]
      BY <1>2, <2>1, <2>2 DEF Capped
    <3>3. misfiled' \in 0..MaxMisfiled /\ fetched' \in 0..RefreshTime
      BY <1>1, <1>2, <2>1 DEF FeedTypeOK
    <3>4. QED
      BY <1>1, <1>8, <2>7, <3>1, <3>2, <3>3 DEF FinishDownload, FeedTypeOK
  <2>9. StreakIsReal' /\ ParkedForCause'
    <3>1. ASSUME NEW s \in Symbols
          PROVE  /\ streak'[s] <= fails'[s] /\ file'.streak[s] <= fails'[s]
                 /\ parked'[s] > 0 \/ file'.parked[s] > 0 => fails'[s] = ParkAfterFails
      <4>1. /\ streak[s] <= fails[s] /\ file.streak[s] <= fails[s]
            /\ parked[s] > 0 \/ file.parked[s] > 0 => fails[s] = ParkAfterFails
        BY <1>1 DEF StreakIsReal, ParkedForCause
      <4>2. QED
        BY <1>2, <2>2, <2>5, <4>1 DEF StreakAfter, ParkAfter, Capped
    <3>2. QED
      BY <3>1 DEF StreakIsReal, ParkedForCause
  <2>10. NothingOlder'
    <3>1. CASE long = {}
      BY <1>1, <2>1, <2>7, <3>1 DEF NothingOlder
    <3>2. CASE long # {}
      BY <2>1, <2>7, <3>2 DEF NothingOlder, Installed, New, Absent
    <3>3. QED
      BY <3>1, <3>2
  <2>11. EveryDownloadAsks'
    BY <1>8 DEF FinishDownload, EveryDownloadAsks
  <2>12. QED
    BY <2>8, <2>9, <2>10, <2>11 DEF IInv
<1>9. CASE Stop
  <2>1. FeedTypeOK'
    BY <1>1, <1>2, <1>9
       DEF Stop, NoMemory, FeedTypeOK, ParkState, NoParkState, Entry, Absent, New
  <2>2. StreakIsReal' /\ ParkedForCause'
    <3>1. \A s \in Symbols : fails[s] \in Nat
      BY <1>1 DEF FeedTypeOK
    <3>2. QED
      BY <1>1, <1>9, <3>1 DEF Stop, NoParkState, StreakIsReal, ParkedForCause
  <2>3. EveryDownloadAsks' /\ NothingOlder'
    BY <1>9 DEF Stop, NoMemory, EveryDownloadAsks, NothingOlder, Absent, New
  <2>4. QED
    BY <2>1, <2>2, <2>3 DEF IInv
<1>10. CASE Tick
  <2>1. \A n \in 0..RefreshTime : Capped(n + 1, RefreshTime) \in 0..RefreshTime
    BY <1>2 DEF Capped
  <2>2. \A n \in 0..ParkDuration : Remaining(n) \in 0..ParkDuration /\ Remaining(n) <= n
    BY <1>2 DEF Remaining
  <2>3. cache' \in [Symbols -> Entry]
    <3>1. \A e \in Entry : [e EXCEPT !.age = Capped(@ + 1, RefreshTime)] \in Entry
      BY <2>1 DEF Entry
    <3>2. QED
      BY <1>1, <1>10, <3>1 DEF Tick
  <2>4. /\ file' \in ParkState
        /\ file'.streak = file.streak
        /\ file'.parked = [s \in Symbols |-> Remaining(file.parked[s])]
        /\ [streak |-> streak', parked |-> parked'] \in ParkState
    BY <1>1, <1>10, <2>2 DEF Tick, FeedTypeOK, ParkState
  <2>5. FeedTypeOK'
    BY <1>1, <1>10, <2>1, <2>3, <2>4 DEF Tick, FeedTypeOK
  <2>6. StreakIsReal' /\ ParkedForCause'
    <3>1. \A s \in Symbols : parked[s] \in 0..ParkDuration /\ file.parked[s] \in 0..ParkDuration
      BY <1>1 DEF FeedTypeOK, ParkState
    <3>2. \A s \in Symbols : parked'[s] <= parked[s] /\ file'.parked[s] <= file.parked[s]
      BY <1>10, <2>2, <2>4, <3>1 DEF Tick
    <3>3. \A s \in Symbols : parked'[s] \in Nat /\ file'.parked[s] \in Nat
      BY <1>10, <2>2, <2>4, <3>1 DEF Tick
    <3>4. QED
      BY <1>1, <1>10, <2>4, <3>1, <3>2, <3>3 DEF Tick, StreakIsReal, ParkedForCause
  <2>7. NothingOlder'
    <3>1. ASSUME NEW s \in Symbols, cache'[s].kind # "absent"
          PROVE  cache'[s].age <= fetched'
      <4>1. cache[s].kind # "absent" /\ cache'[s].age = Capped(cache[s].age + 1, RefreshTime)
        BY <1>1, <1>10, <3>1 DEF Tick, Entry
      <4>2. cache[s].age <= fetched /\ cache[s].age \in Nat
        BY <1>1, <4>1 DEF NothingOlder, Entry
      <4>3. QED
        BY <1>1, <1>2, <1>10, <4>1, <4>2 DEF Tick, Capped
    <3>2. QED
      BY <3>1 DEF NothingOlder
  <2>8. EveryDownloadAsks'
    BY <1>1, <1>10 DEF Tick, EveryDownloadAsks
  <2>9. QED
    BY <2>5, <2>6, <2>7, <2>8 DEF IInv
<1>11. CASE ServingChanges
  BY <1>1, <1>11
     DEF ServingChanges, memory, IInv, FeedTypeOK, StreakIsReal, ParkedForCause,
         EveryDownloadAsks, NothingOlder
<1>12. CASE UNCHANGED feedVars
  BY <1>1, <1>12
     DEF feedVars, memory, IInv, FeedTypeOK, StreakIsReal, ParkedForCause,
         EveryDownloadAsks, NothingOlder
<1>13. QED
  BY <1>3, <1>5, <1>6, <1>7, <1>8, <1>9, <1>10, <1>11, <1>12 DEF FeedNext

LEMMA Invariance == FeedSpec => []IInv
BY InitInvariant, StepInvariant, PTL DEF FeedSpec

-----------------------------------------------------------------------------
(* Every behaviour keeps the shapes of the variables; no parking outlasts  *)
(* its duration, however often it is renewed.                              *)
THEOREM TypeCorrect == FeedSpec => []FeedTypeOK
<1>1. IInv => FeedTypeOK
  BY DEF IInv
<1>2. QED
  BY Invariance, <1>1, PTL

(* No symbol is parked for fewer failures than the threshold, through      *)
(* restarts, lost saves and unreadable files.                              *)
THEOREM NoneParkedWithoutCause == FeedSpec => []ParkedForCause
<1>1. IInv => ParkedForCause
  BY DEF IInv
<1>2. QED
  BY Invariance, <1>1, PTL

(* A download asks for something, even of a universe that is parked to the *)
(* last symbol and too small for its share of probes to be one.            *)
THEOREM PruningLeavesSome == FeedSpec => []EveryDownloadAsks
<1>1. IInv => EveryDownloadAsks
  BY DEF IInv
<1>2. QED
  BY Invariance, <1>1, PTL

(* The cache holds nothing older than the download that dates it.          *)
THEOREM CacheIsDated == FeedSpec => []NothingOlder
<1>1. IInv => NothingOlder
  BY DEF IInv
<1>2. QED
  BY Invariance, <1>1, PTL

(* For every universe, threshold and duration, parkings are earned.        *)
THEOREM ParkingsEarned == FeedSpec => []ParksAreEarned
<1>1. FeedTypeOK /\ ParkedForCause => ParksAreEarned
  BY DEF ParksAreEarned
<1>2. QED
  BY <1>1, TypeCorrect, NoneParkedWithoutCause, PTL

-----------------------------------------------------------------------------
(* The consensus.                                                          *)

(* The k-th smallest value exists: the least with enough at or below it.   *)
LEMMA RankedFacts ==
  ASSUME NEW f, IsFiniteSet(DOMAIN f), \A i \in DOMAIN f : f[i] \in Int,
         NEW k \in 1..Cardinality(DOMAIN f)
  PROVE  /\ Ranked(f, k) \in Range(f) /\ Ranked(f, k) \in Int
         /\ Cardinality({i \in DOMAIN f : f[i] < Ranked(f, k)}) < k
         /\ k <= Cardinality({i \in DOMAIN f : f[i] <= Ranked(f, k)})
<1> DEFINE S == DOMAIN f
           AtMost(v) == {i \in S : f[i] <= v}
           Under(v) == {i \in S : f[i] < v}
           V == {v \in Range(f) : k <= Cardinality(AtMost(v))}
<1>1. /\ Range(f) \in SUBSET Int /\ \A i \in S : f[i] \in Range(f)
      /\ \A v \in Range(f) : \E i \in S : f[i] = v
  BY DEF Range
<1>2. IsFiniteSet(Range(f)) /\ Cardinality(S) \in Nat
  <2> DEFINE F == [i \in S |-> f[i]]
  <2>1. F \in [S -> Range(f)] /\ \A v \in Range(f) : \E i \in S : F[i] = v
    BY <1>1
  <2> HIDE DEF F
  <2>2. F \in Surjection(S, Range(f))
    BY <2>1, Fun_IsSurj
  <2>3. QED
    BY <2>2, FS_Surjection, FS_CardinalityType
<1>3. \A v : /\ IsFiniteSet(AtMost(v)) /\ Cardinality(AtMost(v)) \in Nat
             /\ IsFiniteSet(Under(v)) /\ Cardinality(Under(v)) \in Nat
  <2> TAKE v
  <2>1. AtMost(v) \in SUBSET S /\ Under(v) \in SUBSET S
    OBVIOUS
  <2> HIDE DEF AtMost, Under
  <2>2. QED
    BY <2>1, FS_Subset, FS_CardinalityType
<1>4. V # {}
  <2> DEFINE top == Max(Range(f))
  <2>1. S # {}
    BY <1>2, FS_EmptySet
  <2>2. Range(f) # {}
    BY <1>1, <2>1
  <2>3. top \in Range(f) /\ \A v \in Range(f) : v <= top
    BY <1>1, <1>2, <2>2, EndsOf
  <2> HIDE DEF top
  <2>4. AtMost(top) = S
    BY <1>1, <2>3
  <2>5. top \in V
    BY <1>2, <2>3, <2>4
  <2>6. QED
    BY <2>5
<1>5. V \in SUBSET Int /\ IsFiniteSet(V)
  BY <1>1, <1>2, FS_Subset
<1> DEFINE v == Min(V)
<1>6. v \in V /\ \A w \in V : v <= w
  BY <1>4, <1>5, EndsOf
<1> HIDE DEF v
<1>7. v \in Range(f) /\ v \in Int /\ k <= Cardinality(AtMost(v))
  BY <1>1, <1>6
<1>8. Cardinality(Under(v)) < k
  <2>0. SUFFICES ASSUME k <= Cardinality(Under(v)) PROVE FALSE
    <3>1. Cardinality(Under(v)) \in Nat
      BY <1>3
    <3>2. k \in Int
      BY <1>2
    <3> HIDE DEF Under
    <3>3. QED
      BY <3>1, <3>2
  <2> DEFINE R == {w \in Range(f) : w < v}
             u == Max(R)
  <2>1. R # {}
    <3>1. Under(v) # {}
      BY <1>2, <2>0, FS_EmptySet
    <3>2. PICK i \in S : f[i] < v
      BY <3>1
    <3>3. f[i] \in R
      BY <1>1, <3>2
    <3>4. QED
      BY <3>3
  <2>2. R \in SUBSET Int /\ IsFiniteSet(R)
    BY <1>1, <1>2, FS_Subset
  <2>3. u \in R /\ \A w \in R : w <= u
    BY <2>1, <2>2, EndsOf
  <2> HIDE DEF u
  <2>4. u \in Range(f) /\ u \in Int /\ u < v
    BY <1>1, <2>3
  <2>5. Under(v) = AtMost(u)
    <3>1. ASSUME NEW i \in S
          PROVE  f[i] < v <=> f[i] <= u
      BY <1>1, <1>7, <2>3, <2>4
    <3>2. QED
      BY <3>1
  <2>6. u \in V
    BY <2>0, <2>4, <2>5
  <2>7. QED
    BY <1>6, <1>7, <2>4, <2>6
<1>9. /\ Ranked(f, k) \in Range(f)
      /\ Cardinality(Under(Ranked(f, k))) < k
      /\ k <= Cardinality(AtMost(Ranked(f, k)))
  <2>1. \E w \in Range(f) : Cardinality(Under(w)) < k /\ k <= Cardinality(AtMost(w))
    BY <1>7, <1>8
  <2>2. QED
    BY <2>1 DEF Ranked
<1>10. QED
  BY <1>1, <1>9

(* Where all values but one are within bounds, so is every rank but the    *)
(* first and the last.                                                     *)
LEMMA RankWithin ==
  ASSUME NEW f, IsFiniteSet(DOMAIN f), \A i \in DOMAIN f : f[i] \in Int,
         NEW b, NEW lo \in Int, NEW hi \in Int,
         \A i \in DOMAIN f : i # b => lo <= f[i] /\ f[i] <= hi,
         NEW k \in 2..(Cardinality(DOMAIN f) - 1)
  PROVE  Ranked(f, k) \in Int /\ lo <= Ranked(f, k) /\ Ranked(f, k) <= hi
<1> DEFINE S == DOMAIN f
           v == Ranked(f, k)
           AtMost == {i \in S : f[i] <= v}
           Under == {i \in S : f[i] < v}
<1>1. Cardinality(S) \in Nat
  BY FS_CardinalityType
<1>2. k \in 1..Cardinality(S) /\ k \in Nat /\ k >= 2 /\ k + 1 <= Cardinality(S)
  BY <1>1
<1>3. v \in Int /\ Cardinality(Under) < k /\ k <= Cardinality(AtMost)
  BY <1>2, RankedFacts
<1> HIDE DEF v
<1>4. AtMost \in SUBSET S /\ Under \in SUBSET S
  OBVIOUS
<1>5. /\ IsFiniteSet(AtMost) /\ Cardinality(AtMost) \in Nat
      /\ IsFiniteSet(Under) /\ Cardinality(Under) \in Nat
  BY <1>4, FS_Subset, FS_CardinalityType
<1>6. lo <= v
  <2>1. \E i \in AtMost : i # b
    <3> SUFFICES ASSUME \A i \in AtMost : i = b PROVE FALSE
      OBVIOUS
    <3>1. AtMost \subseteq {b}
      OBVIOUS
    <3>2. IsFiniteSet({b}) /\ Cardinality({b}) = 1
      BY FS_Singleton
    <3> HIDE DEF AtMost
    <3>3. Cardinality(AtMost) <= 1
      BY <3>1, <3>2, FS_Subset
    <3>4. QED
      BY <1>2, <1>3, <1>5, <3>3
  <2>2. PICK i \in AtMost : i # b
    BY <2>1
  <2>3. QED
    BY <1>3, <2>2
<1>7. v <= hi
  <2>1. \E i \in S : i \notin Under /\ i # b
    <3> SUFFICES ASSUME \A i \in S : i \in Under \/ i = b PROVE FALSE
      OBVIOUS
    <3>1. S \subseteq Under \cup {b}
      OBVIOUS
    <3> HIDE DEF Under
    <3>2. /\ IsFiniteSet(Under \cup {b}) /\ Cardinality(Under \cup {b}) <= Cardinality(Under) + 1
      BY <1>5, FS_AddElement
    <3>3. Cardinality(S) <= Cardinality(Under \cup {b}) /\ Cardinality(Under \cup {b}) \in Nat
      BY <3>1, <3>2, FS_Subset, FS_CardinalityType
    <3>4. QED
      BY <1>1, <1>2, <1>3, <1>5, <3>2, <3>3
  <2>2. PICK i \in S : ~(f[i] < v) /\ i # b
    BY <2>1
  <2>3. f[i] \in Int /\ f[i] <= hi
    BY <2>2
  <2>4. QED
    BY <1>3, <2>2, <2>3
<1>8. QED
  BY <1>3, <1>6, <1>7 DEF v

LEMMA RanksAscend ==
  ASSUME NEW f, IsFiniteSet(DOMAIN f), \A i \in DOMAIN f : f[i] \in Int,
         NEW j \in 1..Cardinality(DOMAIN f), NEW k \in 1..Cardinality(DOMAIN f), j <= k
  PROVE  Ranked(f, j) <= Ranked(f, k)
<1> DEFINE S == DOMAIN f
           v == Ranked(f, j)
           w == Ranked(f, k)
           Under == {i \in S : f[i] < v}
           AtMost == {i \in S : f[i] <= w}
<1>1. Cardinality(S) \in Nat
  BY FS_CardinalityType
<1>2. v \in Int /\ w \in Int /\ Cardinality(Under) < j /\ k <= Cardinality(AtMost)
  BY RankedFacts
<1> HIDE DEF v, w
<1> SUFFICES ASSUME w < v PROVE FALSE
  BY <1>2 DEF v, w
<1>3. AtMost \subseteq Under
  BY <1>2
<1>4. IsFiniteSet(Under) /\ Under \subseteq S
  BY FS_Subset
<1> HIDE DEF Under, AtMost
<1>5. Cardinality(AtMost) <= Cardinality(Under)
  BY <1>3, <1>4, FS_Subset
<1>6. Cardinality(AtMost) \in Nat /\ Cardinality(Under) \in Nat
  BY <1>3, <1>4, FS_Subset, FS_CardinalityType
<1>7. QED
  BY <1>1, <1>2, <1>5, <1>6

-----------------------------------------------------------------------------
(* Nothing but answers is averaged, and something is, when half of them    *)
(* are within the threshold of the median.                                 *)
LEMMA NearMedian ==
  ASSUME NEW prices, IsFiniteSet(DOMAIN prices), \A i \in DOMAIN prices : prices[i] \in Int,
         Cardinality(DOMAIN prices) >= 3,
         NEW b, NEW lo \in Int, NEW hi \in Int,
         \A i \in DOMAIN prices : i # b => lo <= prices[i] /\ prices[i] <= hi
  PROVE  LET n == Cardinality(DOMAIN prices)
             median == DoubledMedian(prices)
             dev == [i \in DOMAIN prices |-> Apart(2 * prices[i], median)]
             first == Ranked(dev, (n + 1) \div 2)
         IN  /\ median \in Int /\ 2 * lo <= median /\ median <= 2 * hi
             /\ \A i \in DOMAIN prices : dev[i] \in Nat
             /\ first \in Nat /\ first <= 2 * (hi - lo)
             /\ DoubledMedian(dev) \in Nat /\ 2 * first <= DoubledMedian(dev)
             /\ DoubledMedian(dev) <= 4 * (hi - lo)
             /\ (n + 1) \div 2 <= Cardinality({i \in DOMAIN prices : dev[i] <= first})
<1> DEFINE S == DOMAIN prices
           n == Cardinality(S)
           median == DoubledMedian(prices)
           dev == [i \in S |-> Apart(2 * prices[i], median)]
           j == (n + 1) \div 2
           k == n \div 2 + 1
           w == 2 * (hi - lo)
<1>1. n \in Nat /\ n >= 3
  BY FS_CardinalityType
<1>2. /\ j \in 2..(n - 1) /\ k \in 2..(n - 1) /\ j \in 1..n /\ k \in 1..n /\ j <= k
  <2> HIDE DEF n
  <2>1. j \in 2..(n - 1) /\ k \in 2..(n - 1) /\ j <= k
    BY <1>1
  <2>2. QED
    BY <1>1, <2>1
<1>3. median = Ranked(prices, j) + Ranked(prices, k)
  BY DEF DoubledMedian
<1> HIDE DEF n, j, k
<1>4. /\ Ranked(prices, j) \in Int /\ lo <= Ranked(prices, j) /\ Ranked(prices, j) <= hi
      /\ Ranked(prices, k) \in Int /\ lo <= Ranked(prices, k) /\ Ranked(prices, k) <= hi
  BY <1>2, RankWithin DEF n
<1>5. median \in Int /\ 2 * lo <= median /\ median <= 2 * hi
  BY <1>3, <1>4
<1> HIDE DEF median
<1>6. \A i \in S : dev[i] \in Nat /\ (i # b => 0 <= dev[i] /\ dev[i] <= w)
  <2> TAKE i \in S
  <2>1. prices[i] \in Int /\ dev[i] = Apart(2 * prices[i], median)
    OBVIOUS
  <2>2. Apart(2 * prices[i], median) \in Nat
    BY <1>5, <2>1 DEF Apart
  <2>3. CASE i # b
    <3>1. lo <= prices[i] /\ prices[i] <= hi
      BY <2>3
    <3>2. Apart(2 * prices[i], median) <= w
      BY <1>5, <2>1, <3>1 DEF Apart
    <3>3. QED
      BY <2>1, <2>2, <3>2
  <2>4. QED
    BY <2>1, <2>2, <2>3
<1>7. DOMAIN dev = S
  OBVIOUS
<1>8. DoubledMedian(dev) = Ranked(dev, j) + Ranked(dev, k)
  BY <1>7 DEF DoubledMedian, n, j, k
<1> HIDE DEF dev, w
<1>9. 0 \in Int /\ w \in Int
  BY DEF w
<1>10. /\ Ranked(dev, j) \in Int /\ 0 <= Ranked(dev, j) /\ Ranked(dev, j) <= w
       /\ Ranked(dev, k) \in Int /\ 0 <= Ranked(dev, k) /\ Ranked(dev, k) <= w
  <2>1. \A i \in DOMAIN dev : dev[i] \in Int /\ (i # b => 0 <= dev[i] /\ dev[i] <= w)
    BY <1>6, <1>7
  <2>2. QED
    BY <1>2, <1>7, <1>9, <2>1, RankWithin DEF n
<1>11. Ranked(dev, j) <= Ranked(dev, k)
  BY <1>2, <1>6, <1>7, RanksAscend DEF n
<1>12. j <= Cardinality({i \in S : dev[i] <= Ranked(dev, j)})
  <2>1. \A i \in DOMAIN dev : dev[i] \in Int
    BY <1>6, <1>7
  <2>2. IsFiniteSet(DOMAIN dev) /\ j \in 1..Cardinality(DOMAIN dev)
    BY <1>2, <1>7 DEF n
  <2>3. j <= Cardinality({i \in DOMAIN dev : dev[i] <= Ranked(dev, j)})
    BY <2>1, <2>2, RankedFacts
  <2>4. QED
    BY <1>7, <2>3
<1>13. /\ Ranked(dev, j) \in Nat /\ DoubledMedian(dev) \in Nat
       /\ 2 * Ranked(dev, j) <= DoubledMedian(dev) /\ DoubledMedian(dev) <= 4 * (hi - lo)
  BY <1>8, <1>9, <1>10, <1>11 DEF w
<1>14. QED
  BY <1>5, <1>6, <1>10, <1>12, <1>13 DEF n, j, dev, median, w

LEMMA InliersAmong ==
  ASSUME NEW prices, Cardinality(DOMAIN prices) \in Nat, DoubledMedian([i \in DOMAIN prices |->
           Apart(2 * prices[i], DoubledMedian(prices))]) \in Nat \/ Cardinality(DOMAIN prices) <= 2
  PROVE  Inliers(prices) \subseteq DOMAIN prices
<1> DEFINE dev == [i \in DOMAIN prices |-> Apart(2 * prices[i], DoubledMedian(prices))]
           mad == DoubledMedian(dev)
           n == Cardinality(DOMAIN prices)
<1>1. Inliers(prices) =
        CASE n <= 2 -> DOMAIN prices
          [] n > 2 /\ mad = 0 -> {i \in DOMAIN prices : dev[i] = 0}
          [] n > 2 /\ mad > 0 -> {i \in DOMAIN prices : 29652 * dev[i] <= 10000 * ZThreshold * mad}
  BY DEF Inliers
<1> HIDE DEF dev, mad
<1>2. n <= 2 \/ (n > 2 /\ mad = 0) \/ (n > 2 /\ mad > 0)
  BY DEF mad, dev
<1>3. QED
  BY <1>1, <1>2

LEMMA Multiplied ==
  \A a, b \in Int : \A c \in Nat : /\ a * c \in Int
                                   /\ a <= b => a * c <= b * c
                                   /\ (a + b) * c = a * c + b * c
                                   /\ a * (c - 1) = a * c - a
OBVIOUS

(* A bad print among three or more is either rejected, or near enough to   *)
(* the others, or outweighed by two of them.                               *)
LEMMA BadPrintBounded ==
  ASSUME NEW prices, IsFiniteSet(DOMAIN prices), \A i \in DOMAIN prices : prices[i] \in Int,
         Cardinality(DOMAIN prices) >= 3, ZThreshold \in 2..4,
         NEW b, b \in DOMAIN prices, NEW lo \in Int, NEW hi \in Int, lo <= hi,
         \A i \in DOMAIN prices : i # b => lo <= prices[i] /\ prices[i] <= hi,
         NEW accepted, accepted = [i \in Inliers(prices) |-> prices[i]]
  PROVE  LET K == Inliers(prices)
             width == hi - lo
         IN  /\ K # {} /\ K \subseteq DOMAIN prices
             /\ (lo - width) * Cardinality(K) <= Sum(accepted, K)
             /\ Sum(accepted, K) <= (hi + width) * Cardinality(K)
<1> DEFINE S == DOMAIN prices
           n == Cardinality(S)
           median == DoubledMedian(prices)
           dev == [i \in S |-> Apart(2 * prices[i], median)]
           mad == DoubledMedian(dev)
           j == (n + 1) \div 2
           first == Ranked(dev, j)
           F == {i \in S : dev[i] <= first}
           K == Inliers(prices)
           w == hi - lo
           bound == 10000 * ZThreshold * mad
<1>1. /\ median \in Int /\ 2 * lo <= median /\ median <= 2 * hi
      /\ \A i \in S : dev[i] \in Nat
      /\ first \in Nat /\ first <= 2 * w
      /\ mad \in Nat /\ 2 * first <= mad /\ mad <= 4 * w
      /\ j <= Cardinality(F)
  BY NearMedian
<1>2. n \in Nat /\ n > 2 /\ ~(n <= 2)
  BY FS_CardinalityType
<1>3. /\ K \subseteq S
      /\ mad = 0 => K = {i \in S : dev[i] = 0}
      /\ mad > 0 => K = {i \in S : 29652 * dev[i] <= bound}
  <2>1. K = CASE n <= 2 -> S
              [] n > 2 /\ mad = 0 -> {i \in S : dev[i] = 0}
              [] n > 2 /\ mad > 0 -> {i \in S : 29652 * dev[i] <= bound}
    BY DEF Inliers
  <2> HIDE DEF K, n, mad, bound, dev
  <2>2. mad = 0 \/ mad > 0
    BY <1>1
  <2>3. ~(mad = 0 /\ mad > 0)
    BY <1>1
  <2>4. QED
    BY <1>2, <2>1, <2>2, <2>3
<1>4. j \in Nat /\ j >= 2
  <2> HIDE DEF n
  <2>1. QED
    BY <1>2
<1>5. \A i \in S : dev[i] = Apart(2 * prices[i], median) /\ prices[i] \in Int
  OBVIOUS
<1>6. bound \in Int /\ 20000 * mad <= bound /\ bound <= 40000 * mad
  <2> HIDE DEF mad
  <2>1. ZThreshold = 2 \/ ZThreshold = 3 \/ ZThreshold = 4
    OBVIOUS
  <2>2. QED
    BY <1>1, <2>1
<1>7. w \in Nat
  OBVIOUS
<1> HIDE DEF median, dev, mad, j, first, bound, n, w, K
<1>8. F \subseteq K
  <2> SUFFICES ASSUME NEW i \in F PROVE i \in K
    OBVIOUS
  <2>1. i \in S /\ dev[i] \in Nat /\ dev[i] <= first
    BY <1>1
  <2>2. CASE mad = 0
    <3>1. dev[i] = 0
      BY <1>1, <2>1, <2>2
    <3>2. QED
      BY <1>3, <2>1, <2>2, <3>1
  <2>3. CASE mad > 0
    <3>1. 29652 * dev[i] <= bound
      BY <1>1, <1>6, <2>1
    <3>2. QED
      BY <1>3, <2>1, <2>3, <3>1
  <2>4. QED
    BY <1>1, <2>2, <2>3
<1>9. /\ IsFiniteSet(K) /\ Cardinality(K) \in Nat /\ IsFiniteSet(F) /\ Cardinality(F) \in Nat
      /\ Cardinality(F) <= Cardinality(K)
  BY <1>3, <1>8, FS_Subset, FS_CardinalityType
<1>10. Cardinality(K) >= 2 /\ K # {}
  BY <1>1, <1>4, <1>9, FS_EmptySet
<1>11. \A i \in S : i # b => lo <= prices[i] /\ prices[i] <= hi
  OBVIOUS
<1>12. \A i \in K : accepted[i] = prices[i] /\ accepted[i] \in Int
  BY <1>3 DEF K
<1>13. /\ Sum(accepted, K) \in Int
       /\ IF b \in K THEN lo * (Cardinality(K) - 1) + accepted[b] <= Sum(accepted, K)
          ELSE lo * Cardinality(K) <= Sum(accepted, K)
       /\ IF b \in K THEN Sum(accepted, K) <= hi * (Cardinality(K) - 1) + accepted[b]
          ELSE Sum(accepted, K) <= hi * Cardinality(K)
  <2>1. \A i \in K : i # b => lo <= accepted[i] /\ accepted[i] <= hi
    BY <1>3, <1>11, <1>12
  <2>2. \A i \in K : accepted[i] \in Int
    BY <1>12
  <2>3. QED
    BY <1>9, <2>1, <2>2, SumButOne
<1> DEFINE c == Cardinality(K)
           sum == Sum(accepted, K)
           low == lo * c
           high == hi * c
           extra == w * c
<1>14. c \in Nat /\ c >= 2 /\ sum \in Int
  BY <1>9, <1>10, <1>13
<1> HIDE DEF c, sum
<1>15. /\ low \in Int /\ high \in Int /\ extra \in Int /\ w <= extra
       /\ c >= 3 => 3 * w <= extra
       /\ lo * (c - 1) = low - lo /\ hi * (c - 1) = high - hi
       /\ (lo - w) * c = low - extra /\ (hi + w) * c = high + extra
  <2>1. 1 * w <= extra /\ (c >= 3 => 3 * w <= extra)
    BY <1>7, <1>14
  <2>2. (lo - w) * c = low - extra /\ (hi + w) * c = high + extra
    BY <1>7, <1>14
  <2>3. lo * (c - 1) = low - lo /\ hi * (c - 1) = high - hi
    BY <1>14
  <2>4. QED
    BY <1>7, <1>14, <2>1, <2>2, <2>3
<1> HIDE DEF low, high, extra
<1>16. /\ b \in K => low - lo + prices[b] <= sum /\ sum <= high - hi + prices[b]
       /\ b \notin K => low <= sum /\ sum <= high
  BY <1>12, <1>13, <1>15 DEF c, sum, low, high
<1>17. low - extra <= sum /\ sum <= high + extra
  <2>1. CASE b \notin K
    BY <1>7, <1>14, <1>15, <1>16, <2>1
  <2>2. CASE b \in K
    <3>1. prices[b] \in Int /\ dev[b] \in Nat /\ dev[b] = Apart(2 * prices[b], median)
      BY <1>1, <1>5
    <3>2. 2 * prices[b] <= median + dev[b] /\ median - dev[b] <= 2 * prices[b]
      BY <1>1, <3>1 DEF Apart
    <3>3. dev[b] <= 6 * w
      <4>1. CASE mad = 0
        <5>1. dev[b] = 0
          BY <1>3, <2>2, <4>1
        <5>2. QED
          BY <1>7, <5>1
      <4>2. CASE mad > 0
        <5>1. 29652 * dev[b] <= bound
          BY <1>3, <2>2, <4>2
        <5>2. QED
          BY <1>1, <1>6, <1>7, <3>1, <5>1
      <4>3. QED
        BY <1>1, <4>1, <4>2
    <3>4. CASE dev[b] <= 2 * w
      <4>1. prices[b] <= hi + w /\ lo - w <= prices[b]
        BY <1>1, <1>7, <3>1, <3>2, <3>4
      <4>2. QED
        BY <1>7, <1>14, <1>15, <1>16, <2>2, <3>1, <4>1
    <3>5. CASE dev[b] > 2 * w
      <4>1. b \notin F
        BY <1>1, <1>7, <3>1, <3>5
      <4>2. c >= 3
        <5> HIDE DEF F
        <5>1. Cardinality(F \cup {b}) = Cardinality(F) + 1 /\ IsFiniteSet(F \cup {b})
          BY <1>9, <4>1, FS_AddElement
        <5>2. F \cup {b} \subseteq K
          BY <1>8, <2>2
        <5>3. Cardinality(F \cup {b}) <= Cardinality(K)
          BY <1>9, <5>2, FS_Subset
        <5>4. QED
          BY <1>1, <1>4, <1>9, <5>1, <5>3 DEF c
      <4>3. prices[b] <= hi + 3 * w /\ lo - 3 * w <= prices[b]
        BY <1>1, <1>7, <3>1, <3>2, <3>3
      <4>4. QED
        BY <1>7, <1>14, <1>15, <1>16, <2>2, <3>1, <4>2, <4>3
    <3>6. QED
      BY <1>7, <3>1, <3>4, <3>5
  <2>3. QED
    BY <2>1, <2>2
<1>18. QED
  BY <1>3, <1>10, <1>15, <1>17 DEF c, sum, low, high, extra, K, w

(* Of two answers both are averaged; what the dispersion allows is within  *)
(* as much of the honest one.                                              *)
LEMMA BadPrintAllowed ==
  ASSUME NEW f, NEW h, NEW b, h # b, DOMAIN f = {h, b}, f[h] \in Nat, f[b] \in Nat,
         NEW lo \in Int, NEW hi \in Int, lo <= f[h], f[h] <= hi,
         MaxDispersion \in 0..100,
         200 * (Max(Range(f)) - Min(Range(f))) <= MaxDispersion * DoubledMedian(f)
  PROVE  /\ 100 * Sum(f, DOMAIN f) <= 2 * hi * (100 + MaxDispersion)
         /\ 100 * Sum(f, DOMAIN f) >= 2 * lo * (100 - MaxDispersion)
<1> DEFINE S == DOMAIN f
           D == MaxDispersion
           p == f[h]
           q == f[b]
           r1 == Ranked(f, 1)
           r2 == Ranked(f, 2)
           sum == Sum(f, S)
           spread == Max(Range(f)) - Min(Range(f))
<1>1. IsFiniteSet(S) /\ Cardinality(S) = 2
  <2>1. IsFiniteSet({h}) /\ Cardinality({h}) = 1 /\ b \notin {h}
    BY FS_Singleton
  <2> DEFINE both == {h} \cup {b}
  <2>2. IsFiniteSet(both) /\ Cardinality(both) = Cardinality({h}) + 1
    BY <2>1, FS_AddElement
  <2>3. S = both
    OBVIOUS
  <2> HIDE DEF S, both
  <2>4. Cardinality(both) = 2
    BY <2>1, <2>2
  <2>5. QED
    BY <2>2, <2>3, <2>4
<1>2. \A i \in S : f[i] \in Int
  OBVIOUS
<1>3. DoubledMedian(f) = r1 + r2
  <2>1. (2 + 1) \div 2 = 1 /\ 2 \div 2 + 1 = 2
    OBVIOUS
  <2>2. QED
    BY <1>1, <2>1 DEF DoubledMedian
<1>4. /\ r1 \in Int /\ Cardinality({i \in S : f[i] < r1}) < 1
      /\ r2 \in Range(f) /\ r2 \in Int
  <2>1. 1 \in 1..Cardinality(S) /\ 2 \in 1..Cardinality(S)
    BY <1>1
  <2>2. QED
    BY <1>1, <1>2, <2>1, RankedFacts
<1>5. r1 <= p /\ r1 <= q
  <2> DEFINE U == {i \in S : f[i] < r1}
  <2>1. U \in SUBSET S
    OBVIOUS
  <2>2. Cardinality(U) \in Nat /\ (Cardinality(U) = 0 <=> U = {})
    BY <1>1, <2>1, NothingLeft
  <2>3. U = {}
    BY <1>4, <2>2
  <2>4. \A i \in S : ~(f[i] < r1)
    BY <2>3
  <2> HIDE DEF U, r1
  <2>5. QED
    BY <1>4, <2>4
<1>6. Range(f) = {p, q}
  BY DEF Range
<1>7. r2 = p \/ r2 = q
  BY <1>4, <1>6
<1>8. spread \in Int /\ p - q <= spread /\ q - p <= spread
  <2>1. IsFiniteSet({p, q}) /\ {p, q} # {} /\ {p, q} \in SUBSET Int
    <3>1. IsFiniteSet({p}) /\ {p, q} = {p} \cup {q}
      BY FS_Singleton
    <3>2. IsFiniteSet({p, q})
      BY <3>1, FS_AddElement
    <3>3. QED
      BY <3>2
  <2> DEFINE top == Max({p, q})
             low == Min({p, q})
  <2>2. top \in Int /\ low \in Int /\ p <= top /\ q <= top /\ low <= p /\ low <= q
    BY <2>1, EndsOf
  <2> HIDE DEF top, low
  <2>3. QED
    BY <1>6, <2>2 DEF top, low
<1>9. sum = p + q
  <2>1. \A x \in S : f[x] \in Int /\ (x # b => p <= f[x] /\ f[x] <= p)
    OBVIOUS
  <2>2. p \in Int /\ b \in S
    OBVIOUS
  <2>3. p * (Cardinality(S) - 1) + f[b] <= sum /\ sum <= p * (Cardinality(S) - 1) + f[b]
        /\ sum \in Int
    BY <1>1, <2>1, <2>2, SumButOne
  <2>4. p * (Cardinality(S) - 1) = p
    BY <1>1
  <2> HIDE DEF sum
  <2>5. QED
    BY <2>2, <2>3, <2>4
<1>10. 200 * spread <= D * (r1 + r2)
  BY <1>3
<1>11. p \in Nat /\ q \in Nat /\ D \in 0..100 /\ lo <= p /\ p <= hi
  OBVIOUS
<1> HIDE DEF D, p, q, r1, r2, sum, spread, S
<1>12. r1 + r2 <= p + q /\ r1 + r2 \in Int
  BY <1>4, <1>5, <1>7, <1>11
<1>13. /\ D * (r1 + r2) <= D * (p + q) /\ D * (r1 + r2) \in Int
       /\ D * (p + q) = D * p + D * q /\ D * p \in Int /\ D * q \in Int
       /\ D * p >= 0 /\ D * q >= 0 /\ D * p <= 100 * p /\ D * q <= 100 * q
  <2>1. \A a, c \in Int : \A d \in 0..100 : d * a \in Int /\ (a <= c => d * a <= d * c)
                                             /\ d * (a + c) = d * a + d * c
    OBVIOUS
  <2>2. \A a \in Nat : \A d \in 0..100 : d * a >= 0 /\ d * a <= 100 * a
    OBVIOUS
  <2>3. QED
    BY <1>11, <1>12, <2>1, <2>2
<1> DEFINE dp == D * p
           dq == D * q
<1>14. /\ 200 * (p - q) <= dp + dq /\ 200 * (q - p) <= dp + dq
       /\ dp \in Int /\ dq \in Int /\ dp >= 0 /\ dq <= 100 * q /\ dp <= 100 * p
  BY <1>8, <1>10, <1>11, <1>12, <1>13
<1>15. q <= p => dq <= dp
  BY <1>11
<1>16. q <= 3 * p => dq <= 3 * dp
  BY <1>11
<1> HIDE DEF dp, dq
<1>17. 100 * (p + q) <= 200 * p + 2 * dp
  BY <1>11, <1>14, <1>15, <1>16
<1>18. 100 * (p + q) >= 200 * p - 2 * dp
  BY <1>11, <1>14, <1>15, <1>16
<1>19. 2 * p * (100 + D) <= 2 * hi * (100 + D) /\ 2 * p * (100 + D) = 200 * p + 2 * dp
  BY <1>11 DEF dp
<1>20. 2 * lo * (100 - D) <= 2 * p * (100 - D) /\ 2 * p * (100 - D) = 200 * p - 2 * dp
  BY <1>11 DEF dp
<1>21. 2 * hi * (100 + D) \in Int /\ 2 * lo * (100 - D) \in Int /\ dp \in Int
  BY <1>11, <1>14
<1>22. 100 * (p + q) <= 2 * hi * (100 + D) /\ 100 * (p + q) >= 2 * lo * (100 - D)
  BY <1>11, <1>17, <1>18, <1>19, <1>20, <1>21
<1>23. QED
  BY <1>9, <1>22 DEF D, sum, S

-----------------------------------------------------------------------------
(* The property, of any reading.                                           *)
Robust(r) ==
  r # NoReading =>
    /\ r.bad = 0 => r.lo * r.count <= r.sum /\ r.sum <= r.hi * r.count
    /\ r.bad = 1 /\ r.healthy >= 3 =>
         /\ (r.lo - (r.hi - r.lo)) * r.count <= r.sum
         /\ r.sum <= (r.hi + (r.hi - r.lo)) * r.count
    /\ r.bad = 1 /\ r.healthy = 2 /\ ~r.degraded =>
         /\ 100 * r.sum <= r.count * r.hi * (100 + MaxDispersion)
         /\ 100 * r.sum >= r.count * r.lo * (100 - MaxDispersion)

Ticks == Seq([price : Nat, down : BOOLEAN, true : BOOLEAN])
Quotes == Seq(Nat \ {0})

(* What the sources said of the market that was.                           *)
Truthful(answers, prices) ==
  \A i \in DOMAIN answers :
    answers[i].true => ~answers[i].down /\ answers[i].price \in Range(prices)

LEMMA MarketHasEnds ==
  ASSUME market \in Quotes, market # <<>>
  PROVE  LET lo == Min(Range(market))
             hi == Max(Range(market))
         IN  /\ lo \in Int /\ hi \in Int /\ lo <= hi
             /\ \A p \in Range(market) : p \in Nat /\ lo <= p /\ p <= hi
<1> DEFINE S == Range(market)
<1>1. Len(market) \in Nat /\ DOMAIN market = 1..Len(market) /\ Len(market) > 0
  BY LenProperties, EmptySeq DEF Quotes
<1>2. S \in SUBSET Nat /\ S # {}
  <2>1. market \in [1..Len(market) -> Nat \ {0}]
    BY <1>1, LenProperties DEF Quotes
  <2>2. market[1] \in S
    BY <1>1 DEF Range
  <2>3. QED
    BY <1>1, <2>1, <2>2 DEF Range
<1>3. IsFiniteSet(S)
  <2>1. IsFiniteSet(1..Len(market))
    BY <1>1, FS_Interval
  <2> DEFINE F == [i \in 1..Len(market) |-> market[i]]
  <2>2. F \in [1..Len(market) -> S] /\ \A v \in S : \E i \in 1..Len(market) : F[i] = v
    BY <1>1 DEF Range
  <2> HIDE DEF F, S
  <2>3. F \in Surjection(1..Len(market), S)
    BY <2>2, Fun_IsSurj
  <2>4. QED
    BY <2>1, <2>3, FS_Surjection
<1> HIDE DEF S
<1>4. S \in SUBSET Int
  BY <1>2
<1>5. Max(S) \in S /\ Min(S) \in S /\ \A s \in S : s <= Max(S) /\ Min(S) <= s
  BY <1>2, <1>3, <1>4, EndsOf
<1>6. QED
  BY <1>2, <1>5 DEF S

LEMMA ConsensusStands ==
  ASSUME ZThreshold \in 2..4, MaxDispersion \in 0..100,
         market \in Quotes, market # <<>>,
         NEW answers \in Ticks, Truthful(answers, market)
  PROVE  Robust(Consensus(answers))
<1> DEFINE healthy == {i \in DOMAIN answers : ~answers[i].down}
           prices == [i \in healthy |-> answers[i].price]
           kept == IF Inliers(prices) = {} THEN healthy ELSE Inliers(prices)
           accepted == [i \in kept |-> prices[i]]
           spread == Max(Range(accepted)) - Min(Range(accepted))
           lies == {i \in healthy : ~answers[i].true}
           lo == Min(Range(market))
           hi == Max(Range(market))
           degraded == \/ Cardinality(kept) < MinSources
                       \/ 200 * spread > MaxDispersion * DoubledMedian(accepted)
                       \/ healthy # DOMAIN answers
           r == [sum |-> SumFunction(accepted), count |-> Cardinality(kept), degraded |-> degraded,
                 healthy |-> Cardinality(healthy), bad |-> Cardinality(lies), lo |-> lo, hi |-> hi]
<1>1. Consensus(answers) = IF healthy = {} THEN NoReading ELSE r
  BY DEF Consensus
<1>2. CASE healthy = {}
  BY <1>1, <1>2 DEF Robust
<1>3. CASE healthy # {}
  <2>1. /\ IsFiniteSet(healthy) /\ IsFiniteSet(lies) /\ lies \subseteq healthy
        /\ \A i \in DOMAIN answers : answers[i] \in [price : Nat, down : BOOLEAN, true : BOOLEAN]
    <3>1. Len(answers) \in Nat /\ DOMAIN answers = 1..Len(answers)
      BY LenProperties DEF Ticks
    <3>2. IsFiniteSet(DOMAIN answers)
      BY <3>1, FS_Interval
    <3>3. IsFiniteSet(healthy) /\ IsFiniteSet(lies)
      BY <3>2, FS_Subset
    <3>4. QED
      BY <3>1, <3>3, ElementOfSeq DEF Ticks
  <2>2. /\ lo \in Int /\ hi \in Int /\ lo <= hi
        /\ \A p \in Range(market) : p \in Nat /\ lo <= p /\ p <= hi
    BY MarketHasEnds
  <2> HIDE DEF lo, hi
  <2>3. DOMAIN prices = healthy /\ \A i \in healthy : prices[i] \in Nat
    BY <2>1
  <2>4. \A i \in healthy : i \notin lies => lo <= prices[i] /\ prices[i] <= hi
    BY <2>1, <2>2 DEF Truthful
  <2> HIDE DEF prices, lies
  <2>5. Cardinality(healthy) \in Nat /\ Cardinality(lies) \in Nat /\ Cardinality(healthy) > 0
    BY <1>3, <2>1, FS_CardinalityType, FS_EmptySet
  <2>6. /\ r.sum = Sum(accepted, kept) /\ r.count = Cardinality(kept) /\ r.degraded = degraded
        /\ r.healthy = Cardinality(healthy) /\ r.bad = Cardinality(lies) /\ r.lo = lo /\ r.hi = hi
    <3>1. SumFunction(accepted) = Sum(accepted, kept)
      BY SumIs DEF SumFunction
    <3> HIDE DEF accepted, degraded
    <3>2. QED
      BY <3>1
  <2> HIDE DEF healthy, r
  <2>7. Cardinality(healthy) <= 2 => kept = healthy
    <3> DEFINE n == Cardinality(DOMAIN prices)
               dev == [i \in DOMAIN prices |-> Apart(2 * prices[i], DoubledMedian(prices))]
               mad == DoubledMedian(dev)
    <3>1. Inliers(prices) =
            CASE n <= 2 -> DOMAIN prices
              [] n > 2 /\ mad = 0 -> {i \in DOMAIN prices : dev[i] = 0}
              [] n > 2 /\ mad > 0 ->
                   {i \in DOMAIN prices : 29652 * dev[i] <= 10000 * ZThreshold * mad}
      BY DEF Inliers
    <3>2. n = Cardinality(healthy) /\ n \in Nat
      BY <2>3, <2>5
    <3> HIDE DEF n, dev, mad
    <3>3. n <= 2 => Inliers(prices) = healthy
      BY <2>3, <3>1, <3>2
    <3>4. QED
      BY <3>2, <3>3
  <2>8. ASSUME Cardinality(lies) = 0
        PROVE  lo * Cardinality(kept) <= Sum(accepted, kept)
               /\ Sum(accepted, kept) <= hi * Cardinality(kept)
    <3>1. \A i \in healthy : prices[i] \in Int /\ lo <= prices[i] /\ prices[i] <= hi
      BY <2>1, <2>3, <2>4, <2>8, FS_EmptySet
    <3>2. kept \subseteq healthy
      <4>1. CASE Cardinality(healthy) <= 2
        BY <2>7, <4>1
      <4>2. CASE Cardinality(healthy) >= 3
        <5>1. DoubledMedian([i \in DOMAIN prices |->
                Apart(2 * prices[i], DoubledMedian(prices))]) \in Nat
          BY <2>1, <2>2, <2>3, <3>1, <4>2, NearMedian
        <5>2. Inliers(prices) \subseteq DOMAIN prices
          BY <2>3, <2>5, <5>1, InliersAmong
        <5>3. QED
          BY <2>3, <5>2
      <4>3. QED
        BY <2>5, <4>1, <4>2
    <3>3. IsFiniteSet(kept) /\ \A i \in kept : /\ accepted[i] \in Int
                                               /\ lo <= accepted[i] /\ accepted[i] <= hi
      BY <2>1, <3>1, <3>2, FS_Subset
    <3> HIDE DEF kept, accepted
    <3>4. QED
      BY <2>2, <3>3, SumBounds
  <2>9. ASSUME Cardinality(lies) = 1, Cardinality(healthy) >= 3
        PROVE  /\ (lo - (hi - lo)) * Cardinality(kept) <= Sum(accepted, kept)
               /\ Sum(accepted, kept) <= (hi + (hi - lo)) * Cardinality(kept)
    <3>1. PICK b : lies = {b}
      BY <2>1, <2>9, FS_Singleton
    <3>2. b \in DOMAIN prices /\ \A i \in DOMAIN prices : /\ prices[i] \in Int
                                                          /\ i # b => lo <= prices[i] /\ prices[i] <= hi
      BY <2>1, <2>3, <2>4, <3>1
    <3>3. IsFiniteSet(DOMAIN prices) /\ Cardinality(DOMAIN prices) >= 3
      BY <2>1, <2>3, <2>9
    <3> DEFINE K == Inliers(prices)
               inner == [i \in K |-> prices[i]]
    <3>4. /\ K # {} /\ (lo - (hi - lo)) * Cardinality(K) <= Sum(inner, K)
          /\ Sum(inner, K) <= (hi + (hi - lo)) * Cardinality(K)
      BY <2>2, <3>2, <3>3, BadPrintBounded
    <3>5. kept = K /\ accepted = inner
      BY <3>4
    <3> HIDE DEF K, inner, kept, accepted
    <3>6. QED
      BY <3>4, <3>5
  <2>10. ASSUME Cardinality(lies) = 1, Cardinality(healthy) = 2, ~degraded
         PROVE  /\ Cardinality(kept) = 2
                /\ 100 * Sum(accepted, kept) <= 2 * hi * (100 + MaxDispersion)
                /\ 100 * Sum(accepted, kept) >= 2 * lo * (100 - MaxDispersion)
    <3>1. PICK b : lies = {b}
      BY <2>1, <2>10, FS_Singleton
    <3>2. kept = healthy
      BY <2>7, <2>10
    <3>3. PICK h : healthy = {h, b} /\ h # b
      <4>1. b \in healthy
        BY <2>1, <3>1
      <4>2. Cardinality(healthy \ {b}) = 1 /\ IsFiniteSet(healthy \ {b})
        BY <2>1, <2>10, <4>1, FS_RemoveElement
      <4>3. PICK h : healthy \ {b} = {h}
        BY <4>2, FS_Singleton
      <4>4. QED
        BY <4>1, <4>3
    <3>4. DOMAIN accepted = {h, b} /\ accepted[h] = prices[h] /\ accepted[b] = prices[b]
      BY <3>2, <3>3
    <3>5. accepted[h] \in Nat /\ accepted[b] \in Nat
      <4>1. prices[h] \in Nat /\ prices[b] \in Nat
        BY <2>3, <3>3
      <4> HIDE DEF accepted
      <4>2. QED
        BY <3>4, <4>1
    <3>6. 200 * spread <= MaxDispersion * DoubledMedian(accepted)
      <4>1. ~(200 * spread > MaxDispersion * DoubledMedian(accepted))
        BY <2>10
      <4> DEFINE dm == DoubledMedian(accepted)
      <4>2. spread \in Int /\ dm \in Int
        <5> DEFINE A == Range(accepted)
        <5>1. A = {accepted[h], accepted[b]} /\ A \in SUBSET Int
          <6> HIDE DEF accepted
          <6>1. QED
            BY <3>4, <3>5 DEF Range
        <5>2. IsFiniteSet(A) /\ A # {}
          <6>1. IsFiniteSet({accepted[h]}) /\ A = {accepted[h]} \cup {accepted[b]}
            BY <5>1, FS_Singleton
          <6> HIDE DEF A
          <6>2. QED
            BY <6>1, FS_AddElement
        <5> HIDE DEF A
        <5>3. Max(A) \in Int /\ Min(A) \in Int
          BY <5>1, <5>2, EndsOf
        <5>4. /\ IsFiniteSet(DOMAIN accepted) /\ Cardinality(DOMAIN accepted) = 2
              /\ \A i \in DOMAIN accepted : accepted[i] \in Int
          <6>1. IsFiniteSet({h, b}) /\ Cardinality({h, b}) = 2
            BY <2>1, <2>10, <3>3
          <6> HIDE DEF accepted
          <6>2. QED
            BY <3>4, <3>5, <6>1
        <5>5. Ranked(accepted, 1) \in Int /\ Ranked(accepted, 2) \in Int
          <6>1. 1 \in 1..Cardinality(DOMAIN accepted) /\ 2 \in 1..Cardinality(DOMAIN accepted)
            BY <5>4
          <6> HIDE DEF accepted
          <6>2. QED
            BY <5>4, <6>1, RankedFacts
        <5>6. dm = Ranked(accepted, 1) + Ranked(accepted, 2)
          <6>1. (2 + 1) \div 2 = 1 /\ 2 \div 2 + 1 = 2
            OBVIOUS
          <6> HIDE DEF accepted
          <6>2. QED
            BY <5>4, <6>1 DEF DoubledMedian
        <5>7. QED
          BY <5>3, <5>5, <5>6 DEF A
      <4> HIDE DEF spread, dm
      <4>3. MaxDispersion * dm \in Int /\ 200 * spread \in Int
        BY <4>2
      <4>4. QED
        BY <4>1, <4>3 DEF dm
    <3>7. accepted[h] \in Nat /\ accepted[b] \in Nat /\ lo <= accepted[h] /\ accepted[h] <= hi
      BY <2>3, <2>4, <3>1, <3>3, <3>4
    <3> HIDE DEF accepted, kept
    <3>8. /\ 100 * Sum(accepted, DOMAIN accepted) <= 2 * hi * (100 + MaxDispersion)
          /\ 100 * Sum(accepted, DOMAIN accepted) >= 2 * lo * (100 - MaxDispersion)
      BY <2>2, <3>3, <3>4, <3>6, <3>7, BadPrintAllowed DEF spread
    <3>9. QED
      BY <2>10, <3>2, <3>3, <3>4, <3>8
  <2> HIDE DEF kept, accepted, degraded
  <2>11. Robust(r)
    BY <2>6, <2>8, <2>9, <2>10 DEF Robust
  <2>12. QED
    BY <1>1, <1>3, <2>11
<1>4. QED
  BY <1>2, <1>3

-----------------------------------------------------------------------------
(* The market has a price at every moment; who answers tells one it had,   *)
(* or is known to lie; the last reading stands by its promise.             *)
MarketInv ==
  /\ market \in Quotes /\ market # <<>>
  /\ ticks \in Ticks /\ Truthful(ticks, market)
  /\ ConsensusIsRobust

LEMMA RobustReading == ConsensusIsRobust <=> Robust(reading)
BY DEF ConsensusIsRobust, HonestConsensus, BadPrintIsRejected, BadPrintIsFlagged, Robust

LEMMA Appended ==
  ASSUME NEW T, NEW s \in Seq(T), NEW e \in T
  PROVE  /\ Append(s, e) \in Seq(T) /\ Append(s, e) # <<>>
         /\ DOMAIN s = 1..Len(s) /\ DOMAIN Append(s, e) = 1..(Len(s) + 1) /\ Len(s) \in Nat
         /\ \A i \in 1..Len(s) : Append(s, e)[i] = s[i]
         /\ Append(s, e)[Len(s) + 1] = e
<1>1. Len(s) \in Nat /\ DOMAIN s = 1..Len(s)
  BY LenProperties
<1>2. /\ Append(s, e) \in Seq(T) /\ Append(s, e) # <<>> /\ Len(Append(s, e)) = Len(s) + 1
      /\ \A i \in 1..Len(s) : Append(s, e)[i] = s[i]
      /\ Append(s, e)[Len(s) + 1] = e
  BY AppendProperties
<1>3. DOMAIN Append(s, e) = 1..(Len(s) + 1)
  BY <1>2, LenProperties
<1>4. QED
  BY <1>1, <1>2, <1>3

(* An answer that is the market's, or does not claim to be, may be added.  *)
LEMMA MarketAnswered ==
  ASSUME MarketInv, NEW a \in [price : Nat, down : BOOLEAN, true : BOOLEAN],
         a.true => ~a.down /\ a.price \in Range(market),
         Answered(a), market' = market, reading' = reading
  PROVE  MarketInv'
<1>1. ticks \in Ticks /\ ticks' = Append(ticks, a)
  BY DEF MarketInv, Answered
<1>2. /\ ticks' \in Ticks
      /\ DOMAIN ticks = 1..Len(ticks) /\ DOMAIN ticks' = 1..(Len(ticks) + 1) /\ Len(ticks) \in Nat
      /\ \A i \in 1..Len(ticks) : ticks'[i] = ticks[i]
      /\ ticks'[Len(ticks) + 1] = a
  BY <1>1, Appended DEF Ticks
<1>3. Truthful(ticks, market)'
  <2>1. Truthful(ticks, market)
    BY DEF MarketInv
  <2>2. SUFFICES ASSUME NEW i \in DOMAIN ticks', ticks'[i].true
                 PROVE  ~ticks'[i].down /\ ticks'[i].price \in Range(market)
    BY DEF Truthful
  <2>3. CASE i \in 1..Len(ticks)
    BY <1>2, <2>1, <2>2, <2>3 DEF Truthful
  <2>4. CASE i = Len(ticks) + 1
    BY <1>2, <2>2, <2>4
  <2>5. QED
    BY <1>2, <2>3, <2>4
<1>4. ConsensusIsRobust'
  BY DEF MarketInv, ConsensusIsRobust, HonestConsensus, BadPrintIsRejected, BadPrintIsFlagged
<1>5. QED
  BY <1>2, <1>3, <1>4 DEF MarketInv

LEMMA MarketInductive ==
  ASSUME ZThreshold \in 2..4, MaxDispersion <= 100
  PROVE  /\ MarketDataInit => MarketInv
         /\ MarketInv /\ [MarketDataNext]_marketVars => MarketInv'
<1> USE MarketDataAssumption
<1>1. MaxDispersion \in 0..100
  OBVIOUS
<1>2. <<OpeningPrice>> \in Quotes /\ <<OpeningPrice>> # <<>>
  BY DEF Quotes
<1>3. <<>> \in Ticks /\ \A m : Truthful(<<>>, m)
  BY DEF Ticks, Truthful
<1>4. MarketDataInit => MarketInv
  BY <1>2, <1>3, RobustReading DEF MarketDataInit, MarketInv, Robust
<1>5. ASSUME MarketInv, [MarketDataNext]_marketVars PROVE MarketInv'
  <2>1. CASE MarketTicks
    <3>1. /\ market \in Quotes /\ market # <<>> /\ ticks' = ticks /\ reading' = reading
          /\ Truthful(ticks, market) /\ ticks \in Ticks
      BY <1>5, <2>1 DEF MarketTicks, MarketInv
    <3>2. PICK step \in MarketSteps : /\ market[Len(market)] + step > 0
                                      /\ market' = Append(market, market[Len(market)] + step)
      BY <2>1 DEF MarketTicks
    <3>3. market[Len(market)] + step \in Nat \ {0}
      <4>1. Len(market) \in 1..Len(market)
        BY <3>1, LenProperties, EmptySeq DEF Quotes
      <4>2. market[Len(market)] \in Nat \ {0}
        BY <3>1, <4>1, ElementOfSeq DEF Quotes
      <4>3. QED
        BY <3>2, <4>2
    <3>4. market' \in Quotes /\ market' # <<>> /\ \A p \in Range(market) : p \in Range(market')
      <4> DEFINE e == market[Len(market)] + step
      <4> HIDE DEF e
      <4>1. market' = Append(market, e) /\ e \in Nat \ {0}
        BY <3>2, <3>3 DEF e
      <4>2. /\ market' \in Quotes /\ market' # <<>>
            /\ DOMAIN market = 1..Len(market) /\ DOMAIN market' = 1..(Len(market) + 1)
            /\ Len(market) \in Nat /\ \A i \in 1..Len(market) : market'[i] = market[i]
        BY <3>1, <4>1, Appended DEF Quotes
      <4>3. QED
        BY <4>2 DEF Range
    <3>5. Truthful(ticks, market)'
      BY <3>1, <3>4 DEF Truthful
    <3>6. ConsensusIsRobust'
      BY <1>5, <3>1 DEF MarketInv, ConsensusIsRobust, HonestConsensus, BadPrintIsRejected,
                        BadPrintIsFlagged
    <3>7. QED
      BY <3>1, <3>4, <3>5, <3>6 DEF MarketInv
  <2>2. CASE SourceAnswers
    <3>1. market' = market /\ reading' = reading
      BY <2>2 DEF SourceAnswers
    <3>2. CASE Answered([price |-> market[Len(market)], down |-> FALSE, true |-> TRUE])
      <4>1. Len(market) \in 1..Len(market) /\ DOMAIN market = 1..Len(market)
        BY <1>5, LenProperties, EmptySeq DEF MarketInv, Quotes
      <4>2. market[Len(market)] \in Nat /\ market[Len(market)] \in Range(market)
        BY <1>5, <4>1, ElementOfSeq DEF MarketInv, Quotes, Range
      <4> DEFINE a == [price |-> market[Len(market)], down |-> FALSE, true |-> TRUE]
      <4>3. /\ a \in [price : Nat, down : BOOLEAN, true : BOOLEAN]
            /\ ~a.down /\ a.price \in Range(market)
        BY <4>2
      <4>4. Answered(a)
        BY <3>2
      <4> HIDE DEF a
      <4>5. QED
        BY <1>5, <3>1, <4>3, <4>4, MarketAnswered
    <3>3. CASE \E p \in BadPrints : Answered([price |-> p, down |-> FALSE, true |-> FALSE])
      <4>1. PICK p \in BadPrints : Answered([price |-> p, down |-> FALSE, true |-> FALSE])
        BY <3>3
      <4> DEFINE a == [price |-> p, down |-> FALSE, true |-> FALSE]
      <4>2. a \in [price : Nat, down : BOOLEAN, true : BOOLEAN] /\ ~a.true
        OBVIOUS
      <4>3. Answered(a)
        BY <4>1
      <4> HIDE DEF a
      <4>4. QED
        BY <1>5, <3>1, <4>2, <4>3, MarketAnswered
    <3>4. QED
      BY <2>2, <3>2, <3>3 DEF SourceAnswers
  <2>3. CASE SourceRetries
    BY <1>5, <2>3 DEF SourceRetries, MarketInv, ConsensusIsRobust, HonestConsensus,
                      BadPrintIsRejected, BadPrintIsFlagged
  <2>4. CASE SourceFails
    <3>1. DownTick \in [price : Nat, down : BOOLEAN, true : BOOLEAN] /\ ~DownTick.true
      BY DEF DownTick
    <3>2. Answered(DownTick) /\ market' = market /\ reading' = reading
      BY <2>4 DEF SourceFails
    <3>3. QED
      BY <1>5, <3>1, <3>2, MarketAnswered
  <2>5. CASE FinishReading
    <3>1. reading' = Consensus(ticks) /\ ticks' = <<>> /\ market' = <<OpeningPrice>>
      BY <2>5 DEF FinishReading
    <3>2. Robust(Consensus(ticks))
      BY <1>1, <1>5, ConsensusStands DEF MarketInv
    <3>3. Robust(reading)'
      BY <3>1, <3>2 DEF Robust
    <3>4. ConsensusIsRobust'
      BY <3>3 DEF ConsensusIsRobust, HonestConsensus, BadPrintIsRejected, BadPrintIsFlagged, Robust
    <3>5. QED
      BY <1>2, <1>3, <3>1, <3>4 DEF MarketInv
  <2>6. CASE UNCHANGED marketVars
    BY <1>5, <2>6 DEF marketVars, MarketInv, ConsensusIsRobust, HonestConsensus,
                      BadPrintIsRejected, BadPrintIsFlagged
  <2>7. QED
    BY <1>5, <2>1, <2>2, <2>3, <2>4, <2>5, <2>6 DEF MarketDataNext
<1>6. QED
  BY <1>4, <1>5

(* However many sources there are, in whatever order they answer, and      *)
(* wherever the market goes meanwhile: a consensus of honest answers is a  *)
(* price the market had, one bad print among three or more moves it by no  *)
(* more than the market itself moved, and of two it is flagged or harmless *)
(* (consensus.py, for a threshold of two to four deviations, of which the  *)
(* configuration's three is one, and a dispersion of at most the price).   *)
THEOREM ConsensusRobust ==
  ASSUME ZThreshold \in 2..4, MaxDispersion <= 100
  PROVE  MarketDataSpec => []ConsensusIsRobust
<1>1. MarketDataInit => MarketInv
  BY MarketInductive
<1>2. MarketInv /\ [MarketDataNext]_marketVars => MarketInv'
  BY MarketInductive
<1>3. MarketInv => ConsensusIsRobust
  BY DEF MarketInv
<1>4. QED
  BY <1>1, <1>2, <1>3, PTL DEF MarketDataSpec

-----------------------------------------------------------------------------
(* The cross-section.                                                      *)

(* A factor of the stocks kept, one number for each of some.               *)
IsArray(v) ==
  /\ IsFiniteSet(DOMAIN v) /\ DOMAIN v # {}
  /\ \A k \in DOMAIN v : v[k] \in Int

(* A stock with no less before has no less after.                          *)
KeepsOrder(before, after) ==
  /\ IsArray(after) /\ DOMAIN after = DOMAIN before
  /\ \A j, k \in DOMAIN before : before[j] <= before[k] => after[j] <= after[k]

LEMMA SizeIs ==
  ASSUME NEW v, IsArray(v)
  PROVE  Size(v) \in Nat /\ Size(v) >= 1
<1>1. Cardinality(DOMAIN v) \in Nat /\ Cardinality(DOMAIN v) # 0
  BY FS_EmptySet, FS_CardinalityType DEF IsArray
<1>2. QED
  BY <1>1 DEF Size

LEMMA SumOfArray ==
  ASSUME NEW v, IsArray(v)
  PROVE  /\ SumFunction(v) = Sum(v, DOMAIN v) /\ SumFunction(v) \in Int
         /\ (\A k \in DOMAIN v : v[k] >= 0) => SumFunction(v) >= 0
<1>1. SumFunction(v) = Sum(v, DOMAIN v)
  BY SumIs DEF SumFunction
<1> DEFINE S == DOMAIN v
           total == Sum(v, S)
<1>2. IsFiniteSet(S) /\ \A k \in S : v[k] \in Int
  BY DEF IsArray
<1> HIDE DEF S
<1>3. /\ total \in Int /\ Cardinality(S) \in Nat
      /\ (\A k \in S : 0 <= v[k]) => 0 * Cardinality(S) <= total
  BY <1>2, SumBounds, 0 \in Int
<1>4. (\A k \in S : v[k] >= 0) => total >= 0
  BY <1>2, <1>3
<1>5. QED
  BY <1>1, <1>3, <1>4 DEF S

LEMMA SmallestIs ==
  ASSUME NEW v, IsArray(v), NEW k \in 1..Size(v)
  PROVE  Smallest(v, k) \in Int
<1> DEFINE S == DOMAIN v
           AtMost(x) == {i \in S : v[i] <= x}
           R == {x \in Range(v) : Cardinality(AtMost(x)) >= k}
<1>1. /\ Range(v) \in SUBSET Int /\ \A i \in S : v[i] \in Range(v)
      /\ \A x \in Range(v) : \E i \in S : v[i] = x
  BY DEF Range, IsArray
<1>2. IsFiniteSet(Range(v)) /\ Cardinality(S) \in Nat
  <2> DEFINE F == [i \in S |-> v[i]]
  <2>1. F \in [S -> Range(v)] /\ \A x \in Range(v) : \E i \in S : F[i] = x
    BY <1>1
  <2> HIDE DEF F
  <2>2. F \in Surjection(S, Range(v))
    BY <2>1, Fun_IsSurj
  <2>3. QED
    BY <2>2, FS_Surjection, FS_CardinalityType DEF IsArray
<1> DEFINE top == Max(Range(v))
<1>3. top \in Range(v) /\ \A x \in Range(v) : x <= top
  <2>1. Range(v) # {}
    BY <1>1 DEF IsArray
  <2>2. QED
    BY <1>1, <1>2, <2>1, EndsOf
<1> HIDE DEF top
<1>4. AtMost(top) = S
  BY <1>1, <1>3
<1>5. top \in R
  BY <1>2, <1>3, <1>4 DEF Size
<1>6. R \in SUBSET Int /\ IsFiniteSet(R) /\ R # {}
  BY <1>1, <1>2, <1>5, FS_Subset
<1>7. Min(R) \in Int
  BY <1>6, EndsOf
<1>8. QED
  BY <1>7 DEF Smallest

LEMMA QuantileIsInt ==
  ASSUME NEW v, IsArray(v), NEW pct \in 0..100
  PROVE  QuantileOf(v, pct) \in Int
<1> DEFINE n == Size(v)
           at == pct * (n - 1)
           low == 1 + at \div 100
           below == Smallest(v, low)
           above == Smallest(v, Min({low + 1, n}))
<1>1. n \in Nat /\ n >= 1
  BY SizeIs
<1>2. at \in Nat /\ at <= 100 * (n - 1)
  <2>1. \A p \in 0..100, m \in Nat : p * m \in Nat /\ p * m <= 100 * m
    <3>1. \A a, b \in Nat : a * b \in Nat
      OBVIOUS
    <3>2. SUFFICES ASSUME NEW p \in 0..100, NEW m \in Nat PROVE p * m \in Nat /\ p * m <= 100 * m
      OBVIOUS
    <3>3. (100 - p) * m \in Nat /\ (100 - p) * m = 100 * m - p * m /\ p * m \in Nat
      BY <3>1
    <3>4. QED
      BY <3>3
  <2>2. n - 1 \in Nat
    BY <1>1
  <2>3. QED
    BY <2>1, <2>2
<1> HIDE DEF at, n
<1>3. low \in 1..n
  BY <1>1, <1>2
<1> HIDE DEF low
<1>4. Min({low + 1, n}) \in 1..n
  BY <1>1, <1>3, MinOfTwo
<1>5. below \in Int /\ above \in Int
  BY <1>3, <1>4, SmallestIs DEF n
<1> HIDE DEF below, above
<1>6. at % 100 \in Int
  BY <1>2
<1>7. (above - below) * (at % 100) \in Int
  BY <1>5, <1>6
<1>8. ((above - below) * (at % 100)) \div 100 \in Int
  BY <1>7
<1>9. QED
  BY <1>5, <1>8 DEF QuantileOf, n, at, low, below, above

(* Clipping turns nothing round, ...                                       *)
LEMMA ClippingKeepsOrder ==
  ASSUME NEW v, IsArray(v)
  PROVE  KeepsOrder(v, Winsorized(v))
<1>1. CASE WinsorizePct = 0 \/ Size(v) < 3
  BY <1>1 DEF Winsorized, KeepsOrder
<1>2. CASE ~(WinsorizePct = 0 \/ Size(v) < 3)
  <2> DEFINE lo == QuantileOf(v, WinsorizePct)
             hi == QuantileOf(v, 100 - WinsorizePct)
             clip == [k \in DOMAIN v |-> Max({lo, Min({hi, v[k]})})]
  <2>1. WinsorizePct \in 0..100 /\ 100 - WinsorizePct \in 0..100
    BY RankingAssumption
  <2>2. lo \in Int /\ hi \in Int
    BY <2>1, QuantileIsInt
  <2>3. Winsorized(v) = clip
    BY <1>2 DEF Winsorized
  <2> HIDE DEF lo, hi
  <2>4. ASSUME NEW k \in DOMAIN v
        PROVE  /\ clip[k] \in Int
               /\ clip[k] = LET m == IF hi <= v[k] THEN hi ELSE v[k] IN IF lo >= m THEN lo ELSE m
    <3>1. v[k] \in Int
      BY DEF IsArray
    <3>2. Min({hi, v[k]}) \in Int /\ Min({hi, v[k]}) = IF hi <= v[k] THEN hi ELSE v[k]
      BY <2>2, <3>1, MinOfTwo
    <3>3. LET m == Min({hi, v[k]}) IN Max({lo, m}) \in Int /\ Max({lo, m}) = IF lo >= m THEN lo ELSE m
      BY <2>2, <3>2, MaxOfTwo
    <3>4. QED
      BY <3>2, <3>3
  <2>5. DOMAIN clip = DOMAIN v
    OBVIOUS
  <2> HIDE DEF clip
  <2>6. ASSUME NEW j \in DOMAIN v, NEW k \in DOMAIN v, v[j] <= v[k] PROVE clip[j] <= clip[k]
    <3>1. v[j] \in Int /\ v[k] \in Int
      BY DEF IsArray
    <3>2. QED
      BY <2>2, <2>4, <2>6, <3>1
  <2>7. IsArray(clip)
    BY <2>4, <2>5 DEF IsArray
  <2>8. QED
    BY <2>3, <2>5, <2>6, <2>7 DEF KeepsOrder
<1>3. QED
  BY <1>1, <1>2

LEMMA MultiplesGrow ==
  \A a, b \in Int, m \in Nat : a <= b => m * a \in Int /\ m * b \in Int /\ m * a <= m * b
<1>1. SUFFICES ASSUME NEW a \in Int, NEW b \in Int, NEW m \in Nat, a <= b
               PROVE  m * a \in Int /\ m * b \in Int /\ m * a <= m * b
  OBVIOUS
<1>2. m * (b - a) = m * b - m * a /\ m * a \in Int /\ m * b \in Int
  OBVIOUS
<1>3. \A x, y \in Int : x >= 0 /\ y >= 0 => x * y >= 0
  OBVIOUS
<1>4. m * (b - a) >= 0
  BY <1>1, <1>3
<1>5. QED
  BY <1>2, <1>4

LEMMA RootIs ==
  ASSUME NEW n \in Nat
  PROVE  RootOf(n) \in Nat
<1> DEFINE S == {r \in 0..n : r * r <= n}
           top == Max(S)
<1>1. S \in SUBSET (0..n) /\ S # {}
  <2>1. 0 \in 0..n /\ 0 * 0 <= n
    OBVIOUS
  <2>2. QED
    BY <2>1
<1>2. top \in S /\ \A r \in S : r <= top
  BY <1>1, LargestOf
<1> HIDE DEF top
<1>3. top \in 0..n /\ top * top <= n
  BY <1>2
<1>4. n < (top + 1) * (top + 1)
  <2>1. SUFFICES ASSUME (top + 1) * (top + 1) <= n PROVE FALSE
    <3>1. (top + 1) * (top + 1) \in Int
      BY <1>3
    <3>2. QED
      BY <3>1
  <2>2. top * (top + 1) \in Nat /\ (top + 1) * (top + 1) = top * (top + 1) + (top + 1)
    BY <1>3
  <2>3. top + 1 <= n
    BY <1>3, <2>1, <2>2
  <2>4. top + 1 \in S
    BY <1>3, <2>1, <2>3
  <2>5. QED
    BY <1>2, <1>3, <2>4
<1>5. RootOf(n) \in 0..n
  BY <1>3, <1>4 DEF RootOf
<1>6. QED
  BY <1>5

(* ... nor does scaling.                                                   *)
LEMMA ScalingKeepsOrder ==
  ASSUME NEW v, IsArray(v)
  PROVE  KeepsOrder(v, ZScored(v))
<1> DEFINE S == DOMAIN v
           n == Size(v)
           sum == SumFunction(v)
           off == OffMean(v)
           square == [k \in S |-> off[k] * off[k]]
           deviation == RootOf(SumFunction(square) \div n)
           z == [k \in S |-> IF deviation = 0 THEN 0 ELSE (1000 * off[k]) \div deviation]
<1>1. n \in Nat /\ n >= 1 /\ sum \in Int
  BY SizeIs, SumOfArray
<1>2. DOMAIN off = S /\ \A k \in S : off[k] = n * v[k] - sum
  BY DEF OffMean
<1>3. ZScored(v) = z
  BY DEF ZScored
<1>4. IsFiniteSet(S) /\ S # {} /\ \A k \in S : v[k] \in Int
  BY DEF IsArray
<1> HIDE DEF S, n, sum, off
<1>5. \A k \in S : off[k] \in Int
  BY <1>1, <1>2, <1>4
<1>6. deviation \in Nat
  <2>1. \A k \in S : square[k] \in Int /\ square[k] >= 0
    <3>1. \A a \in Int : a * a \in Int /\ a * a >= 0
      OBVIOUS
    <3>2. QED
      BY <1>5, <3>1
  <2>2. DOMAIN square = S
    OBVIOUS
  <2> HIDE DEF square
  <2>3. IsArray(square)
    BY <1>4, <2>1, <2>2 DEF IsArray
  <2>4. SumFunction(square) \in Int /\ SumFunction(square) >= 0
    BY <2>1, <2>2, <2>3, SumOfArray
  <2>5. SumFunction(square) \div n \in Nat
    <3>1. \A a \in Nat, b \in Nat \ {0} : a \div b \in Nat
      OBVIOUS
    <3>2. QED
      BY <1>1, <2>4, <3>1
  <2>6. QED
    BY <2>5, RootIs
<1> HIDE DEF deviation
<1>7. \A k \in S : z[k] \in Int
  <2>1. \A a \in Int, b \in Nat \ {0} : a \div b \in Int
    BY QuotientIs
  <2>2. \A k \in S : 1000 * off[k] \in Int
    BY <1>5
  <2>3. QED
    BY <1>6, <2>1, <2>2
<1>8. ASSUME NEW j \in S, NEW k \in S, v[j] <= v[k] PROVE z[j] <= z[k]
  <2>1. v[j] \in Int /\ v[k] \in Int /\ off[j] \in Int /\ off[k] \in Int
    BY <1>4, <1>5
  <2>2. n * v[j] <= n * v[k]
    <3>1. QED
      BY <1>1, <1>8, <2>1, MultiplesGrow
  <2>3. off[j] <= off[k]
    BY <1>1, <1>2, <2>1, <2>2
  <2>4. CASE deviation = 0
    BY <2>4
  <2>5. CASE deviation # 0
    <3>1. 1000 * off[j] <= 1000 * off[k] /\ 1000 * off[j] \in Int /\ 1000 * off[k] \in Int
      BY <2>1, <2>3
    <3>2. deviation \in Nat \ {0}
      BY <1>6, <2>5
    <3>3. (1000 * off[j]) \div deviation <= (1000 * off[k]) \div deviation
      BY <3>1, <3>2, QuotientsGrow
    <3>4. QED
      BY <2>5, <3>3
  <2>6. QED
    BY <2>4, <2>5
<1>9. DOMAIN z = S
  OBVIOUS
<1> HIDE DEF z
<1>10. KeepsOrder(v, z)
  BY <1>4, <1>7, <1>8, <1>9 DEF KeepsOrder, IsArray, S
<1>11. QED
  BY <1>3, <1>10

-----------------------------------------------------------------------------
(* The stocks kept, and what they are blended to.                          *)
AreKept(kept) ==
  /\ IsFiniteSet(DOMAIN kept) /\ DOMAIN kept # {} /\ DOMAIN kept \subseteq Nat
  /\ \A k \in DOMAIN kept : kept[k] \in Looks

LEMMA FactorsInPlay ==
  ASSUME NEW kept
  PROVE  /\ IsFiniteSet(InPlay(kept)) /\ InPlay(kept) # {}
         /\ InPlay(kept) \subseteq BaseFactors \cup {"ml"}
<1>1. BaseFactors \cup {"ml"} = {"momentum", "trend", "reversion", "low_vol", "ml"}
  BY DEF BaseFactors
<1>2. IsFiniteSet({"momentum", "trend", "reversion", "low_vol", "ml"})
  <2>1. IsFiniteSet({"momentum"})
    BY FS_Singleton
  <2>2. IsFiniteSet({"momentum"} \cup {"trend"})
    BY <2>1, FS_AddElement
  <2>3. IsFiniteSet({"momentum"} \cup {"trend"} \cup {"reversion"})
    BY <2>2, FS_AddElement
  <2>4. IsFiniteSet({"momentum"} \cup {"trend"} \cup {"reversion"} \cup {"low_vol"})
    BY <2>3, FS_AddElement
  <2>5. IsFiniteSet({"momentum"} \cup {"trend"} \cup {"reversion"} \cup {"low_vol"} \cup {"ml"})
    BY <2>4, FS_AddElement
  <2>6. {"momentum"} \cup {"trend"} \cup {"reversion"} \cup {"low_vol"} \cup {"ml"}
          = {"momentum", "trend", "reversion", "low_vol", "ml"}
    OBVIOUS
  <2>7. QED
    BY <2>5, <2>6
<1>3. InPlay(kept) \subseteq BaseFactors \cup {"ml"} /\ "momentum" \in InPlay(kept)
  BY DEF InPlay, BaseFactors
<1>4. QED
  BY <1>1, <1>2, <1>3, FS_Subset

(* A factor in play is a number for each stock kept, and no worse for the  *)
(* one that dominates.                                                     *)
LEMMA RawInPlay ==
  ASSUME NEW kept, AreKept(kept), NEW f \in InPlay(kept)
  PROVE  /\ IsArray(ValuesOf(kept, f)) /\ DOMAIN ValuesOf(kept, f) = DOMAIN kept
         /\ \A j, k \in DOMAIN kept :
              Dominates(kept[j], kept[k]) => ValuesOf(kept, f)[k] <= ValuesOf(kept, f)[j]
<1>1. \A v \in Looks :
        v.ml \in Int \cup {NoScore} /\ \A g \in BaseFactors : v[g] \in Int
  BY RankingAssumption
<1>2. f \in BaseFactors \/ (f = "ml" /\ \A k \in DOMAIN kept : kept[k].ml # NoScore)
  <2>1. CASE \A k \in DOMAIN kept : kept[k].ml # NoScore
    BY <2>1, f \in InPlay(kept) DEF InPlay
  <2>2. CASE ~ \A k \in DOMAIN kept : kept[k].ml # NoScore
    BY <2>2, f \in InPlay(kept) DEF InPlay
  <2>3. QED
    BY <2>1, <2>2
<1>3. \A k \in DOMAIN kept : kept[k] \in Looks /\ kept[k][f] \in Int /\ kept[k][f] # NoScore
  BY <1>1, <1>2, RankingAssumption DEF AreKept
<1>4. \A k \in DOMAIN kept : ValuesOf(kept, f)[k] = 10 * kept[k][f]
  BY <1>3 DEF ValuesOf, Raw
<1>5. DOMAIN ValuesOf(kept, f) = DOMAIN kept
  BY DEF ValuesOf
<1>6. ASSUME NEW j \in DOMAIN kept, NEW k \in DOMAIN kept, Dominates(kept[j], kept[k])
      PROVE  kept[k][f] <= kept[j][f]
  BY <1>2, <1>3, <1>6 DEF Dominates
<1>7. QED
  BY <1>3, <1>4, <1>5, <1>6 DEF IsArray, AreKept

LEMMA BlendIs ==
  ASSUME NEW kept, AreKept(kept)
  PROVE  /\ \A k \in DOMAIN kept : Composite(kept, k) \in Int
         /\ \A j, k \in DOMAIN kept :
              Dominates(kept[j], kept[k]) => Composite(kept, k) <= Composite(kept, j)
<1> DEFINE P == InPlay(kept)
           z(f) == ZScored(Winsorized(ValuesOf(kept, f)))
           part(k) == [f \in P |-> FactorWeights[f] * z(f)[k]]
<1>1. ASSUME NEW f \in P
      PROVE  /\ \A k \in DOMAIN kept : z(f)[k] \in Int
             /\ \A j, k \in DOMAIN kept : Dominates(kept[j], kept[k]) => z(f)[k] <= z(f)[j]
  <2> DEFINE v == ValuesOf(kept, f)
             w == Winsorized(v)
  <2>1. /\ IsArray(v) /\ DOMAIN v = DOMAIN kept
        /\ \A j, k \in DOMAIN kept : Dominates(kept[j], kept[k]) => v[k] <= v[j]
    BY <1>1, RawInPlay
  <2> HIDE DEF v
  <2>2. KeepsOrder(v, w)
    BY <2>1, ClippingKeepsOrder
  <2> HIDE DEF w
  <2>3. KeepsOrder(w, ZScored(w))
    BY <2>2, ScalingKeepsOrder DEF KeepsOrder
  <2> DEFINE y == ZScored(w)
  <2>4. z(f) = y
    BY DEF w, v
  <2> HIDE DEF y, z
  <2>5. KeepsOrder(w, y)
    BY <2>3 DEF y
  <2>6. /\ \A k \in DOMAIN kept : y[k] \in Int
        /\ \A j, k \in DOMAIN kept : Dominates(kept[j], kept[k]) => y[k] <= y[j]
    BY <2>1, <2>2, <2>5 DEF KeepsOrder, IsArray
  <2>7. QED
    BY <2>4, <2>6
<1> HIDE DEF z
<1>2. \A f \in P : FactorWeights[f] \in Nat
  BY FactorsInPlay, RankingAssumption
<1>3. IsFiniteSet(P) /\ P # {}
  BY FactorsInPlay
<1>4. \A k \in DOMAIN kept : Composite(kept, k) = SumFunction(part(k))
  BY DEF Composite, z
<1> HIDE DEF P
<1>5. ASSUME NEW k \in DOMAIN kept
      PROVE  /\ IsArray(part(k)) /\ DOMAIN part(k) = P
             /\ \A f \in P : part(k)[f] = FactorWeights[f] * z(f)[k] /\ part(k)[f] \in Int
  <2>1. \A f \in P : FactorWeights[f] * z(f)[k] \in Int
    BY <1>1, <1>2
  <2>2. QED
    BY <1>3, <2>1 DEF IsArray
<1>6. \A k \in DOMAIN kept : Composite(kept, k) = Sum(part(k), P) /\ Composite(kept, k) \in Int
  BY <1>4, <1>5, SumOfArray
<1>7. ASSUME NEW j \in DOMAIN kept, NEW k \in DOMAIN kept, Dominates(kept[j], kept[k])
      PROVE  Composite(kept, k) <= Composite(kept, j)
  <2> DEFINE a == part(k)
             b == part(j)
  <2>1. \A f \in P : a[f] \in Int /\ b[f] \in Int /\ a[f] <= b[f]
    <3>1. SUFFICES ASSUME NEW f \in P PROVE a[f] <= b[f]
      BY <1>5, <1>7
    <3>2. z(f)[k] \in Int /\ z(f)[j] \in Int /\ z(f)[k] <= z(f)[j] /\ FactorWeights[f] \in Nat
      BY <1>1, <1>2, <1>7
    <3>3. QED
      BY <1>5, <3>2, MultiplesGrow
  <2>2. Composite(kept, k) = Sum(a, P) /\ Composite(kept, j) = Sum(b, P)
    BY <1>6, <1>7
  <2> HIDE DEF a, b
  <2>3. Sum(a, P) <= Sum(b, P)
    BY <1>3, <2>1, SumGrows
  <2>4. QED
    BY <2>2, <2>3
<1>8. QED
  BY <1>6, <1>7

-----------------------------------------------------------------------------
(* The order: each stock has one position, and each position one stock.    *)
Ahead(blend, k) == {j \in DOMAIN blend : Outranks(blend, j, k)}

IsBlend(blend) ==
  /\ IsFiniteSet(DOMAIN blend) /\ DOMAIN blend # {} /\ DOMAIN blend \subseteq Nat
  /\ \A k \in DOMAIN blend : blend[k] \in Int

LEMMA AheadIs ==
  ASSUME NEW blend, IsBlend(blend)
  PROVE  /\ \A k \in DOMAIN blend : Cardinality(Ahead(blend, k)) \in 0..(Size(blend) - 1)
         /\ \A j, k \in DOMAIN blend :
              Outranks(blend, j, k) => Cardinality(Ahead(blend, j)) < Cardinality(Ahead(blend, k))
         /\ \A j, k \in DOMAIN blend :
              Cardinality(Ahead(blend, j)) = Cardinality(Ahead(blend, k)) => j = k
<1> DEFINE S == DOMAIN blend
           ahead(k) == Ahead(blend, k)
<1>1. IsFiniteSet(S) /\ S \subseteq Nat /\ \A k \in S : blend[k] \in Int
  BY DEF IsBlend
<1>2. \A k \in S : /\ ahead(k) \subseteq S
                   /\ \A j \in S : j \in ahead(k) <=> Outranks(blend, j, k)
  BY DEF Ahead
<1>3. /\ \A k \in S : ~Outranks(blend, k, k)
      /\ \A i, j, k \in S : Outranks(blend, i, j) /\ Outranks(blend, j, k) => Outranks(blend, i, k)
      /\ \A j, k \in S : j # k => Outranks(blend, j, k) \/ Outranks(blend, k, j)
  BY <1>1 DEF Outranks
<1> HIDE DEF S, ahead
<1>4. \A k \in S : IsFiniteSet(ahead(k)) /\ Cardinality(ahead(k)) \in Nat
  BY <1>1, <1>2, FS_Subset, FS_CardinalityType
<1>5. ASSUME NEW k \in S PROVE Cardinality(ahead(k)) \in 0..(Cardinality(S) - 1)
  <2>1. ahead(k) \subseteq S \ {k}
    BY <1>2, <1>3, <1>5
  <2>2. IsFiniteSet(S \ {k}) /\ Cardinality(S \ {k}) = Cardinality(S) - 1
    BY <1>1, <1>5, FS_RemoveElement
  <2>3. Cardinality(ahead(k)) <= Cardinality(S \ {k}) /\ Cardinality(S) \in Nat
    BY <1>1, <2>1, <2>2, FS_Subset, FS_CardinalityType
  <2>4. QED
    BY <1>4, <1>5, <2>2, <2>3
<1>6. ASSUME NEW j \in S, NEW k \in S, Outranks(blend, j, k)
      PROVE  Cardinality(ahead(j)) < Cardinality(ahead(k))
  <2>1. ahead(j) \cup {j} \subseteq ahead(k) /\ j \notin ahead(j)
    BY <1>2, <1>3, <1>6
  <2>2. IsFiniteSet(ahead(j)) /\ Cardinality(ahead(j)) \in Nat /\ IsFiniteSet(ahead(k))
        /\ Cardinality(ahead(k)) \in Nat
    BY <1>4, <1>6
  <2>3. Cardinality(ahead(j) \cup {j}) = Cardinality(ahead(j)) + 1
    BY <2>1, <2>2, FS_AddElement
  <2>4. Cardinality(ahead(j) \cup {j}) <= Cardinality(ahead(k))
    BY <2>1, <2>2, FS_Subset
  <2>5. QED
    BY <2>2, <2>3, <2>4
<1>7. ASSUME NEW j \in S, NEW k \in S, Cardinality(ahead(j)) = Cardinality(ahead(k)) PROVE j = k
  <2>1. ~Outranks(blend, j, k) /\ ~Outranks(blend, k, j)
    BY <1>4, <1>6, <1>7
  <2>2. QED
    BY <1>3, <1>7, <2>1
<1>8. QED
  BY <1>5, <1>6, <1>7 DEF S, ahead, Size

LEMMA PlacesAre ==
  ASSUME NEW blend, IsBlend(blend)
  PROVE  /\ \A p \in 1..Size(blend) : PlaceOf(blend, p) \in DOMAIN blend
         /\ \A p, q \in 1..Size(blend) : PlaceOf(blend, p) = PlaceOf(blend, q) => p = q
         /\ \A p, q \in 1..Size(blend) :
              blend[PlaceOf(blend, p)] > blend[PlaceOf(blend, q)] => p < q
<1> DEFINE S == DOMAIN blend
           n == Cardinality(S)
           rank(k) == Cardinality(Ahead(blend, k))
<1>1. IsFiniteSet(S) /\ n \in Nat /\ n >= 1 /\ n = Size(blend)
  BY FS_CardinalityType, FS_EmptySet DEF IsBlend, Size
<1>2. /\ \A k \in S : rank(k) \in 0..(n - 1)
      /\ \A j, k \in S : Outranks(blend, j, k) => rank(j) < rank(k)
      /\ \A j, k \in S : rank(j) = rank(k) => j = k
  BY AheadIs DEF Size
<1>3. \A p : PlaceOf(blend, p) = CHOOSE k \in S : rank(k) = p - 1
  BY DEF PlaceOf, Ahead
<1> HIDE DEF S, rank, n
<1>4. ASSUME NEW p \in 1..n PROVE \E k \in S : rank(k) = p - 1
  <2>1. SUFFICES ASSUME \A k \in S : rank(k) # p - 1 PROVE FALSE
    OBVIOUS
  <2> DEFINE T == (1..n) \ {p}
             f == [k \in S |-> rank(k) + 1]
  <2>2. f \in [S -> T]
    <3>1. \A k \in S : rank(k) + 1 \in T
      BY <1>1, <1>2, <1>4, <2>1
    <3>2. QED
      BY <3>1
  <2>3. IsFiniteSet(T) /\ Cardinality(T) = n - 1
    <3>1. IsFiniteSet(1..n) /\ Cardinality(1..n) = n
      <4>1. 1 \in Int /\ n \in Int
        BY <1>1
      <4>2. QED
        BY <1>1, <4>1, FS_Interval
    <3>2. QED
      BY <1>4, <3>1, FS_RemoveElement
  <2>4. \A k \in S : f[k] = rank(k) + 1
    OBVIOUS
  <2> HIDE DEF f, T
  <2>5. Cardinality(T) < Cardinality(S)
    BY <1>1, <2>3 DEF n
  <2>6. PICK x \in S, y \in S : x # y /\ f[x] = f[y]
    BY <1>1, <2>2, <2>3, <2>5, FS_PigeonHole
  <2>7. rank(x) = rank(y)
    <3>1. rank(x) \in Int /\ rank(y) \in Int
      BY <1>2
    <3>2. QED
      BY <2>4, <2>6, <3>1
  <2>8. QED
    BY <1>2, <2>6, <2>7
<1>5. \A p \in 1..n : PlaceOf(blend, p) \in S /\ rank(PlaceOf(blend, p)) = p - 1
  BY <1>3, <1>4
<1>6. ASSUME NEW p \in 1..n, NEW q \in 1..n, PlaceOf(blend, p) = PlaceOf(blend, q) PROVE p = q
  BY <1>1, <1>5, <1>6
<1>7. ASSUME NEW p \in 1..n, NEW q \in 1..n, blend[PlaceOf(blend, p)] > blend[PlaceOf(blend, q)]
      PROVE  p < q
  <2>1. Outranks(blend, PlaceOf(blend, p), PlaceOf(blend, q))
    BY <1>7 DEF Outranks
  <2>2. rank(PlaceOf(blend, p)) < rank(PlaceOf(blend, q))
    BY <1>2, <1>5, <1>7, <2>1
  <2>3. QED
    BY <1>1, <1>5, <1>7, <2>2
<1>8. QED
  BY <1>1, <1>5, <1>6, <1>7 DEF S

-----------------------------------------------------------------------------
(* The baskets of n stocks.                                                *)
LEMMA CountsOfBaskets ==
  ASSUME NEW n \in Nat
  PROVE  /\ LongCount(n) \in Int /\ LongCount(n) >= 1
         /\ ShortCount(n) \in Nat /\ ShortCount(n) <= n
<1>1. \A pct \in 0..50 : n * pct \in Nat
  <2>1. \A a, b \in Nat : a * b \in Nat
    OBVIOUS
  <2>2. QED
    BY <2>1
<1>2. \A h \in Nat : Rounded(h) \in Nat
  <2>1. SUFFICES ASSUME NEW h \in Nat PROVE Rounded(h) \in Nat
    OBVIOUS
  <2>2. h \div 100 \in Nat
    OBVIOUS
  <2>3. Rounded(h) = h \div 100 \/ Rounded(h) = h \div 100 + 1
    BY DEF Rounded
  <2>4. QED
    BY <2>2, <2>3
<1> DEFINE long == Rounded(n * LongPct)
           short == Rounded(n * ShortPct)
<1>3. long \in Nat /\ short \in Nat
  BY <1>1, <1>2, RankingAssumption
<1>4. LongCount(n) = Max({1, long}) /\ ShortCount(n) = Min({short, Max({0, n - LongCount(n)})})
  BY DEF LongCount, ShortCount
<1> HIDE DEF long, short
<1>5. LongCount(n) \in Int /\ LongCount(n) >= 1
  BY <1>3, <1>4, MaxOfTwo
<1> DEFINE l == LongCount(n)
<1> HIDE DEF l
<1>6. n - l \in Int /\ n - l <= n
  BY <1>5 DEF l
<1> DEFINE rest == Max({0, n - l})
<1>7. rest \in Nat /\ rest <= n
  BY <1>6, MaxOfTwo
<1>8. ShortCount(n) = Min({short, rest})
  BY <1>4 DEF l
<1> HIDE DEF rest
<1>9. ShortCount(n) \in Nat /\ ShortCount(n) <= n
  BY <1>3, <1>7, <1>8, MinOfTwo
<1>10. QED
  BY <1>5, <1>9

(* The ends of the order, that do not overlap.                             *)
AreEnds(n, b) ==
  /\ n >= 1 => b[1] = "LONG"
  /\ \A p, q \in 1..n : b[p] = "LONG" /\ b[q] \in {"NEUTRAL", "SHORT"} => p < q
  /\ \A p, q \in 1..n : b[p] = "NEUTRAL" /\ b[q] = "SHORT" => p < q
  /\ Cardinality({p \in 1..n : b[p] = "SHORT"}) <= ShortCount(n)

LEMMA BasketsAre ==
  ASSUME NEW n \in Nat
  PROVE  AreEnds(n, Baskets(n))
<1> DEFINE l == LongCount(n)
           s == ShortCount(n)
           b == Baskets(n)
           short == {p \in 1..n : b[p] = "SHORT"}
<1>1. l \in Int /\ l >= 1 /\ s \in Nat /\ s <= n
  BY CountsOfBaskets
<1>2. \A p \in 1..n : b[p] = IF p <= l THEN "LONG" ELSE IF p > n - s THEN "SHORT" ELSE "NEUTRAL"
  <2>1. SUFFICES ASSUME NEW p \in 1..n
                 PROVE  b[p] = IF p <= l THEN "LONG" ELSE IF p > n - s THEN "SHORT" ELSE "NEUTRAL"
    OBVIOUS
  <2>2. b[p] = CASE p <= l -> "LONG" [] p > n - s /\ p > l -> "SHORT" [] OTHER -> "NEUTRAL"
    BY DEF Baskets
  <2>3. p <= l \/ p > l
    BY <1>1
  <2>4. QED
    BY <1>1, <2>2, <2>3
<1> HIDE DEF l, s, b
<1>3. n >= 1 => b[1] = "LONG"
  BY <1>1, <1>2
<1>4. \A p, q \in 1..n : b[p] = "LONG" /\ b[q] \in {"NEUTRAL", "SHORT"} => p < q
  BY <1>1, <1>2
<1>5. \A p, q \in 1..n : b[p] = "NEUTRAL" /\ b[q] = "SHORT" => p < q
  BY <1>1, <1>2
<1>6. Cardinality(short) <= s
  <2>1. short \subseteq (n - s + 1)..n
    BY <1>1, <1>2
  <2>2. IsFiniteSet((n - s + 1)..n) /\ Cardinality((n - s + 1)..n) = s
    <3>1. n - s + 1 \in Int /\ n \in Int
      BY <1>1
    <3>2. QED
      BY <1>1, <3>1, FS_Interval
  <2>3. QED
    BY <2>1, <2>2, FS_Subset
<1>7. QED
  BY <1>3, <1>4, <1>5, <1>6 DEF AreEnds, l, s, b

-----------------------------------------------------------------------------
(* The ranking of the looks of one cycle.                                  *)
IsUniverse(looks, m) ==
  /\ m \in Nat /\ DOMAIN looks = 1..m /\ Len(looks) = m
  /\ \A k \in 1..m : looks[k] \in Looks

(* A row of n of the m stocks looked at.                                   *)
IsRanked(row, n, m) ==
  /\ n \in 1..m /\ row.excluded = m - n /\ row.baskets = Baskets(n)
  /\ DOMAIN row.stocks = 1..n
  /\ \A p \in 1..n : row.stocks[p].place \in 1..m
  /\ \A p, q \in 1..n : row.stocks[p].place = row.stocks[q].place => p = q
  /\ \A p, q \in 1..n :
       LET a == row.stocks[p]
           b == row.stocks[q]
       IN  Dominates(a.look, b.look) => a.composite >= b.composite /\ (p < q \/ a.composite = b.composite)

LEMMA KeptAre ==
  ASSUME NEW m, NEW looks, IsUniverse(looks, m), Cleared(looks) # {}
  PROVE  /\ AreKept(Gated(looks)) /\ DOMAIN Gated(looks) \subseteq 1..m
         /\ Size(Gated(looks)) \in 1..m
<1> DEFINE S == Cleared(looks)
<1>1. S \subseteq 1..m /\ S # {} /\ DOMAIN Gated(looks) = S
      /\ \A k \in S : Gated(looks)[k] = looks[k]
  BY DEF Cleared, Gated, IsUniverse
<1> HIDE DEF S
<1>2. IsFiniteSet(1..m) /\ Cardinality(1..m) = m
  <2>1. m \in Nat /\ 1 \in Int /\ m \in Int
    BY DEF IsUniverse
  <2>2. QED
    BY <2>1, FS_Interval
<1>3. IsFiniteSet(S) /\ Cardinality(S) <= m /\ Cardinality(S) \in Nat /\ Cardinality(S) # 0
  <2>1. IsFiniteSet(S) /\ Cardinality(S) <= m
    BY <1>1, <1>2, FS_Subset
  <2>2. Cardinality(S) \in Nat /\ Cardinality(S) # 0
    BY <1>1, <2>1, FS_EmptySet, FS_CardinalityType
  <2>3. QED
    BY <2>1, <2>2
<1>4. Cardinality(S) \in 1..m
  BY <1>3 DEF IsUniverse
<1>5. \A k \in S : Gated(looks)[k] \in Looks
  BY <1>1 DEF IsUniverse
<1>6. S \subseteq Nat
  BY <1>1 DEF IsUniverse
<1> DEFINE kept == Gated(looks)
<1>7. DOMAIN kept = S /\ \A k \in S : kept[k] \in Looks
  BY <1>1, <1>5
<1> HIDE DEF kept
<1>8. AreKept(kept) /\ Size(kept) = Cardinality(S)
  BY <1>1, <1>3, <1>6, <1>7 DEF AreKept, Size
<1>9. QED
  BY <1>1, <1>4, <1>7, <1>8 DEF kept

LEMMA OrderIs ==
  ASSUME NEW kept, AreKept(kept)
  PROVE  LET n == Size(kept)
             s == Ordered(kept)
         IN  /\ DOMAIN s = 1..n
             /\ \A p \in 1..n : s[p].place \in DOMAIN kept
             /\ \A p, q \in 1..n : s[p].place = s[q].place => p = q
             /\ \A p, q \in 1..n :
                  Dominates(s[p].look, s[q].look) =>
                    s[p].composite >= s[q].composite /\ (p < q \/ s[p].composite = s[q].composite)
<1> DEFINE n == Size(kept)
           s == Ordered(kept)
           blend == [k \in DOMAIN kept |-> Composite(kept, k)]
           at(p) == PlaceOf(blend, p)
<1>1. DOMAIN blend = DOMAIN kept /\ \A k \in DOMAIN kept : blend[k] = Composite(kept, k)
  OBVIOUS
<1>2. s = [p \in 1..n |-> [place |-> at(p), look |-> kept[at(p)], composite |-> blend[at(p)]]]
  BY DEF Ordered
<1> HIDE DEF blend
<1>3. IsBlend(blend) /\ Size(blend) = n
  BY <1>1, BlendIs DEF IsBlend, AreKept, Size
<1>4. /\ \A p \in 1..n : at(p) \in DOMAIN kept
      /\ \A p, q \in 1..n : at(p) = at(q) => p = q
      /\ \A p, q \in 1..n : blend[at(p)] > blend[at(q)] => p < q
  BY <1>1, <1>3, PlacesAre
<1>5. \A j, k \in DOMAIN kept : Dominates(kept[j], kept[k]) => blend[k] <= blend[j]
  BY <1>1, BlendIs
<1>6. \A k \in DOMAIN kept : blend[k] \in Int
  BY <1>1, BlendIs
<1> HIDE DEF n, s, at
<1>7. DOMAIN s = 1..n
      /\ \A p \in 1..n : s[p].place = at(p) /\ s[p].look = kept[at(p)] /\ s[p].composite = blend[at(p)]
  BY <1>2
<1>8. \A p, q \in 1..n :
        Dominates(s[p].look, s[q].look) =>
          s[p].composite >= s[q].composite /\ (p < q \/ s[p].composite = s[q].composite)
  <2>1. SUFFICES ASSUME NEW p \in 1..n, NEW q \in 1..n, Dominates(s[p].look, s[q].look)
                 PROVE  s[p].composite >= s[q].composite /\ (p < q \/ s[p].composite = s[q].composite)
    OBVIOUS
  <2>2. Dominates(kept[at(p)], kept[at(q)])
    BY <1>7, <2>1
  <2>3. at(p) \in DOMAIN kept /\ at(q) \in DOMAIN kept
    BY <1>4, <2>1
  <2>4. blend[at(q)] <= blend[at(p)] /\ blend[at(q)] \in Int /\ blend[at(p)] \in Int
    BY <1>5, <1>6, <2>2, <2>3
  <2>5. blend[at(p)] > blend[at(q)] \/ blend[at(p)] = blend[at(q)]
    BY <2>4
  <2>6. s[p].composite = blend[at(p)] /\ s[q].composite = blend[at(q)]
    BY <1>7, <2>1
  <2>7. QED
    BY <1>4, <2>1, <2>4, <2>5, <2>6
<1>9. QED
  BY <1>4, <1>7, <1>8 DEF n, s

LEMMA UniverseIsRanked ==
  ASSUME NEW m, NEW looks, IsUniverse(looks, m), RankUniverse(looks) # NoRanking
  PROVE  IsRanked(RankUniverse(looks), Size(Gated(looks)), m)
<1> DEFINE kept == Gated(looks)
           row == RankUniverse(looks)
           n == Size(kept)
           s == Ordered(kept)
<1>1. Cleared(looks) # {}
  BY DEF RankUniverse
<1>2. /\ row.stocks = s /\ row.baskets = Baskets(n) /\ row.excluded = m - n
  BY <1>1 DEF RankUniverse, IsUniverse
<1>3. AreKept(kept) /\ DOMAIN kept \subseteq 1..m /\ n \in 1..m
  BY <1>1, KeptAre
<1>4. /\ DOMAIN s = 1..n
      /\ \A p \in 1..n : s[p].place \in DOMAIN kept
      /\ \A p, q \in 1..n : s[p].place = s[q].place => p = q
      /\ \A p, q \in 1..n :
           Dominates(s[p].look, s[q].look) =>
             s[p].composite >= s[q].composite /\ (p < q \/ s[p].composite = s[q].composite)
  BY <1>3, OrderIs
<1> HIDE DEF kept, row, n, s
<1>5. IsRanked(row, n, m)
  BY <1>2, <1>3, <1>4 DEF IsRanked
<1>6. QED
  BY <1>5 DEF row, n, kept

(* The graph, where it is read.                                            *)
LEMMA GraphIs ==
  ASSUME NEW m \in MinRanked..Len(Watched), NEW looks \in [1..m -> Looks]
  PROVE  RankingOf(looks) = RankUniverse(looks)
<1>1. looks \in Universes
  BY DEF Universes
<1>2. <<looks, RankUniverse(looks)>> \in Rankings
  BY <1>1 DEF Rankings
<1> DEFINE r == CHOOSE x \in Rankings : x[1] = looks
<1>3. r \in Rankings /\ r[1] = looks
  BY <1>2
<1>4. PICK l \in Universes : r = <<l, RankUniverse(l)>>
  BY <1>3 DEF Rankings
<1>5. l = looks
  BY <1>3, <1>4
<1> HIDE DEF r
<1>6. r[2] = RankUniverse(looks)
  <2>1. r = <<looks, RankUniverse(looks)>>
    BY <1>4, <1>5
  <2>2. QED
    BY <2>1
<1>7. QED
  BY <1>6 DEF RankingOf, r

-----------------------------------------------------------------------------
(* The watchlist names nobody twice.  Nothing in the configuration sees to *)
(* it; the list of the index does (sorted(set(...))).                      *)
NobodyTwice == \A i, j \in 1..Len(Watched) : Watched[i] = Watched[j] => i = j

RankingTypeOK ==
  /\ round \in Nat /\ next \in 1..(Len(Watched) + 1)
  /\ factors \in Seq(Range(Watched) \X Looks)
  /\ ranking # NoRanking => ranking.round \in Nat

(* What was collected is of symbols observed in this cycle, each once.     *)
CollectedOnce ==
  /\ Len(factors) <= next - 1
  /\ \A i \in 1..Len(factors) : \E w \in 1..(next - 1) : factors[i][1] = Watched[w]
  /\ \A i, j \in 1..Len(factors) : factors[i][1] = factors[j][1] => i = j

RankingInv == RankingTypeOK /\ CollectedOnce /\ RankingIsFair

LEMMA RankingStarts == RankingInit => RankingInv
<1>1. SUFFICES ASSUME RankingInit PROVE RankingInv
  OBVIOUS
<1>2. RankingTypeOK /\ Len(factors) = 0
  <2>1. Len(Watched) + 1 \in Nat /\ 1 <= Len(Watched) + 1
    BY RankingAssumption
  <2>2. QED
    BY <1>1, <2>1, EmptySeq DEF RankingInit, RankingTypeOK
<1>3. CollectedOnce
  BY <1>1, <1>2 DEF RankingInit, CollectedOnce
<1>4. RankingIsFair
  BY <1>1 DEF RankingInit, RankingIsFair, RanksOneCycle, BasketsAreEnds, BetterIsNotBelow
<1>5. QED
  BY <1>2, <1>3, <1>4 DEF RankingInv

LEMMA CollectStands ==
  ASSUME RankingInv, NobodyTwice, NEW v \in Looks, CollectFactors(v)
  PROVE  RankingInv'
<1> DEFINE e == <<Watched[next], v>>
           n == Len(factors)
           T == Range(Watched) \X Looks
<1>1. next \in 1..Len(Watched) /\ next' = next + 1 /\ factors' = Append(factors, e)
      /\ round' = round /\ ranking' = ranking /\ Len(Watched) \in Nat
  BY RankingAssumption DEF RankingInv, RankingTypeOK, CollectFactors
<1>2. e \in T
  <2>1. Watched[next] \in Range(Watched)
    BY <1>1, RankingAssumption DEF Range
  <2>2. QED
    BY <2>1
<1>3. factors \in Seq(T) /\ n \in Nat /\ n <= next - 1
  BY LenProperties DEF RankingInv, RankingTypeOK, CollectedOnce
<1> HIDE DEF T
<1>4. /\ factors' \in Seq(T) /\ Len(factors') = n + 1 /\ factors'[n + 1] = e
      /\ \A i \in 1..n : factors'[i] = factors[i]
  BY <1>1, <1>2, <1>3, AppendProperties
<1>5. RankingTypeOK'
  BY <1>1, <1>4 DEF RankingInv, RankingTypeOK, T
<1> HIDE DEF n
<1>6. \A i \in 1..(n + 1) : i \in 1..n \/ i = n + 1
  BY <1>3
<1>7. e[1] = Watched[next]
  OBVIOUS
<1> HIDE DEF e
<1>8. /\ \A i \in 1..n : \E w \in 1..(next - 1) : factors[i][1] = Watched[w]
      /\ \A i, j \in 1..n : factors[i][1] = factors[j][1] => i = j
  BY DEF RankingInv, CollectedOnce, n
<1>9. \A i \in 1..(n + 1) : \E w \in 1..next : factors'[i][1] = Watched[w]
  <2>1. SUFFICES ASSUME NEW i \in 1..(n + 1) PROVE \E w \in 1..next : factors'[i][1] = Watched[w]
    OBVIOUS
  <2>2. CASE i \in 1..n
    BY <1>1, <1>4, <1>8, <2>2
  <2>3. CASE i = n + 1
    BY <1>1, <1>4, <1>7, <2>3
  <2>4. QED
    BY <1>6, <2>2, <2>3
<1>10. \A i \in 1..n : factors[i][1] # Watched[next]
  <2>1. SUFFICES ASSUME NEW i \in 1..n, factors[i][1] = Watched[next] PROVE FALSE
    OBVIOUS
  <2>2. PICK w \in 1..(next - 1) : factors[i][1] = Watched[w]
    BY <1>8
  <2>3. w \in 1..Len(Watched) /\ w # next
    BY <1>1, <2>2
  <2>4. QED
    BY <1>1, <2>1, <2>2, <2>3 DEF NobodyTwice
<1>11. \A i, j \in 1..(n + 1) : factors'[i][1] = factors'[j][1] => i = j
  BY <1>4, <1>6, <1>7, <1>8, <1>10
<1>12. CollectedOnce'
  <2>1. next' - 1 = next /\ n + 1 <= next
    BY <1>1, <1>3
  <2>2. QED
    BY <1>4, <1>9, <1>11, <2>1 DEF CollectedOnce
<1>13. RankingIsFair'
  BY <1>1 DEF RankingInv, RankingIsFair, RanksOneCycle, BasketsAreEnds, BetterIsNotBelow
<1>14. QED
  BY <1>5, <1>12, <1>13 DEF RankingInv

LEMMA SkipStands ==
  ASSUME RankingInv, SkipSymbol \/ UNCHANGED rankingVars
  PROVE  RankingInv'
<1>1. /\ factors' = factors /\ round' = round /\ ranking' = ranking
      /\ next' \in 1..(Len(Watched) + 1) /\ next <= next' /\ next \in Nat /\ next' \in Nat
  BY RankingAssumption DEF RankingInv, RankingTypeOK, SkipSymbol, rankingVars
<1>2. RankingTypeOK'
  BY <1>1 DEF RankingInv, RankingTypeOK
<1>3. CollectedOnce'
  <2>1. Len(factors) \in Nat
    BY LenProperties DEF RankingInv, RankingTypeOK
  <2>2. \A a, b \in Nat : a <= b => \A w \in 1..(a - 1) : w \in 1..(b - 1)
    OBVIOUS
  <2>3. \A w \in 1..(next - 1) : w \in 1..(next' - 1)
    BY <1>1, <2>2
  <2>4. /\ Len(factors) <= next - 1
        /\ \A i \in 1..Len(factors) : \E w \in 1..(next - 1) : factors[i][1] = Watched[w]
        /\ \A i, j \in 1..Len(factors) : factors[i][1] = factors[j][1] => i = j
    BY DEF RankingInv, CollectedOnce
  <2>5. Len(factors) <= next' - 1
    BY <1>1, <2>1, <2>4
  <2>6. \A i \in 1..Len(factors) : \E w \in 1..(next' - 1) : factors[i][1] = Watched[w]
    BY <2>3, <2>4
  <2>7. QED
    BY <1>1, <2>4, <2>5, <2>6 DEF CollectedOnce
<1>4. RankingIsFair'
  BY <1>1 DEF RankingInv, RankingIsFair, RanksOneCycle, BasketsAreEnds, BetterIsNotBelow
<1>5. QED
  BY <1>2, <1>3, <1>4 DEF RankingInv

LEMMA RankStands ==
  ASSUME RankingInv, RankCrossSection
  PROVE  RankingInv'
<1> DEFINE m == Len(factors)
           looks == [k \in DOMAIN factors |-> factors[k][2]]
           row == RankingOf(looks)
           n == Size(Gated(looks))
           name(p) == factors[row.stocks[p].place][1]
           new == [round |-> round, total |-> m, of |-> row,
                   names |-> [p \in DOMAIN row.stocks |-> name(p)]]
<1>1. /\ round' = round + 1 /\ next' = 1 /\ factors' = <<>> /\ next = Len(Watched) + 1
      /\ ranking' = IF m < MinRanked \/ row = NoRanking THEN ranking ELSE new
  BY DEF RankCrossSection
<1>2. /\ round \in Nat /\ factors \in Seq(Range(Watched) \X Looks) /\ m \in Nat
      /\ DOMAIN factors = 1..m /\ m <= Len(Watched) /\ Len(Watched) \in Nat
      /\ MinRanked \in Nat
  BY <1>1, LenProperties, RankingAssumption DEF RankingInv, RankingTypeOK, CollectedOnce
<1>3. \A i, j \in 1..m : factors[i][1] = factors[j][1] => i = j
  BY SMTT(40) DEF RankingInv, CollectedOnce
<1>4. RankingTypeOK'
  <2>1. 1 \in 1..(Len(Watched) + 1) /\ round + 1 \in Nat
    <3>1. \A a \in Nat : 1 \in 1..(a + 1) /\ a + 1 \in Nat
      OBVIOUS
    <3>2. QED
      BY <1>2, <3>1
  <2>2. ranking' # NoRanking => ranking'.round \in Nat
    <3>1. new.round = round
      OBVIOUS
    <3> HIDE DEF new
    <3>2. ranking # NoRanking => ranking.round \in Nat
      BY DEF RankingInv, RankingTypeOK
    <3>3. ranking' = ranking \/ ranking' = new
      BY <1>1
    <3>4. QED
      BY <1>2, <3>1, <3>2, <3>3
  <2>3. QED
    BY <1>1, <2>1, <2>2, EmptySeq DEF RankingTypeOK
<1>5. CollectedOnce'
  <2>1. Len(factors') = 0
    BY <1>1, EmptySeq
  <2>2. QED
    BY <1>1, <2>1 DEF CollectedOnce
<1>6. CASE m < MinRanked \/ row = NoRanking
  <2> HIDE DEF m, looks, row, n, name, new
  <2>1. ranking' = ranking
    BY <1>1, <1>6
  <2>2. RanksOneCycle'
    <3>1. SUFFICES ASSUME ranking' # NoRanking
                   PROVE  RanksOneCycle'
      BY DEF RanksOneCycle
    <3>2. ranking.round < round => ranking.round < round + 1
      <4>1. ranking.round \in Nat
        BY <2>1, <3>1 DEF RankingInv, RankingTypeOK
      <4>2. QED
        BY <1>2, <4>1
    <3>3. QED
      BY <1>1, <2>1, <3>2 DEF RankingInv, RankingIsFair, RanksOneCycle
  <2>3. BasketsAreEnds' /\ BetterIsNotBelow'
    BY <2>1 DEF RankingInv, RankingIsFair, BasketsAreEnds, BetterIsNotBelow
  <2>4. QED
    BY <1>4, <1>5, <2>2, <2>3 DEF RankingInv, RankingIsFair
<1>7. CASE ~(m < MinRanked \/ row = NoRanking)
  <2>1. ranking' = new /\ m \in MinRanked..Len(Watched)
    BY <1>1, <1>2, <1>7
  <2>2. looks \in [1..m -> Looks]
    BY <1>2
  <2>3. IsUniverse(looks, m)
    BY <1>2, <2>2 DEF IsUniverse
  <2>4. row = RankUniverse(looks)
    BY <2>1, <2>2, GraphIs
  <2>5. IsRanked(row, n, m)
    BY <1>7, <2>3, <2>4, UniverseIsRanked
  <2> HIDE DEF row, looks, n, name
  <2>6. /\ n \in 1..m /\ row.excluded = m - n /\ row.baskets = Baskets(n)
        /\ DOMAIN row.stocks = 1..n
        /\ \A p \in 1..n : row.stocks[p].place \in 1..m
        /\ \A p, q \in 1..n : row.stocks[p].place = row.stocks[q].place => p = q
    BY <2>5 DEF IsRanked
  <2> DEFINE names == [p \in 1..n |-> name(p)]
  <2>7. /\ ranking'.round = round /\ ranking'.total = m /\ ranking'.of = row
        /\ ranking'.names = names
    BY <2>1, <2>6
  <2> HIDE DEF m
  <2>8. \A p, q \in 1..n : name(p) = name(q) => p = q
    BY <1>3, <2>6 DEF name
  <2>9. n \in Nat /\ DOMAIN names = 1..n /\ Len(names) = n
    BY <1>2, <2>6
  <2>10. Cardinality({names[p] : p \in 1..n}) = n
    <3> DEFINE D == 1..n
               R == {names[p] : p \in D}
    <3>1. IsFiniteSet(D) /\ Cardinality(D) = n
      <4>1. 1 \in Int /\ n \in Int
        BY <2>9
      <4>2. QED
        BY <2>9, <4>1, FS_Interval
    <3>2. names \in Injection(D, R) /\ names \in Surjection(D, R)
      <4>1. names \in [D -> R] /\ \A y \in R : \E p \in D : names[p] = y
        OBVIOUS
      <4>2. \A p, q \in D : names[p] = names[q] => p = q
        BY <2>8
      <4> HIDE DEF names, D, R
      <4>3. QED
        BY <4>1, <4>2, Fun_IsInj, Fun_IsSurj
    <3> HIDE DEF names, D, R
    <3>3. QED
      <4>1. Cardinality(R) <= Cardinality(D) /\ IsFiniteSet(R)
        BY <3>1, <3>2, FS_Surjection
      <4>2. Cardinality(D) <= Cardinality(R)
        BY <3>2, <4>1, FS_Injection
      <4>3. Cardinality(R) \in Nat
        BY <4>1, FS_CardinalityType
      <4>4. Cardinality(R) = n
        BY <2>9, <3>1, <4>1, <4>2, <4>3
      <4>5. QED
        BY <4>4 DEF R, D
  <2> HIDE DEF names
  <2>11. RanksOneCycle'
    <3>1. Len(names) + row.excluded = m
      BY <1>2, <2>6, <2>9
    <3>2. round < round + 1
      BY <1>2
    <3>3. QED
      BY <1>1, <1>2, <2>7, <2>9, <2>10, <3>1, <3>2 DEF RanksOneCycle, m
  <2>12. BasketsAreEnds'
    <3> DEFINE b == Baskets(n)
               at(x) == {p \in 1..n : b[p] = x}
    <3>1. AreEnds(n, b)
      BY <2>9, BasketsAre
    <3> HIDE DEF b
    <3>2. /\ 1 \in at("LONG")
          /\ \A p \in at("LONG"), q \in at("NEUTRAL") \cup at("SHORT") : p < q
          /\ \A p \in at("NEUTRAL"), q \in at("SHORT") : p < q
          /\ Cardinality(at("SHORT")) <= ShortCount(n)
      <4>1. n >= 1 /\ 1 \in 1..n
        BY <1>2, <2>6
      <4>2. QED
        BY <3>1, <4>1 DEF AreEnds
    <3> HIDE DEF at
    <3>3. \A x : {p \in DOMAIN ranking'.names : ranking'.of.baskets[p] = x} = at(x)
      BY <2>6, <2>7, <2>9 DEF at, b
    <3>4. Len(ranking'.names) = n
      BY <2>7, <2>9
    <3>5. QED
      BY <3>2, <3>3, <3>4 DEF BasketsAreEnds
  <2>13. BetterIsNotBelow'
    BY <2>5, <2>6, <2>7 DEF IsRanked, BetterIsNotBelow
  <2>14. QED
    BY <1>4, <1>5, <2>11, <2>12, <2>13 DEF RankingInv, RankingIsFair
<1>8. QED
  BY <1>6, <1>7

(* The stored ranking is one cycle's and fair: it names each of the stocks *)
(* the cycle collected once, or counts it out (rank_universe); the long    *)
(* basket is the top and never empty, the short one the bottom, and they   *)
(* do not overlap; and a stock at least as good as another in all that     *)
(* both have is not put below it, whatever is clipped, scaled or missing.  *)
THEOREM RankingFair == NobodyTwice => (RankingSpec => []RankingIsFair)
<1>1. SUFFICES ASSUME NobodyTwice PROVE RankingSpec => []RankingIsFair
  OBVIOUS
<1>2. RankingInit => RankingInv
  BY RankingStarts
<1>3. RankingInv /\ [RankingNext]_rankingVars => RankingInv'
  <2>1. SUFFICES ASSUME RankingInv, [RankingNext]_rankingVars PROVE RankingInv'
    OBVIOUS
  <2>2. ASSUME NEW v \in Looks, CollectFactors(v) PROVE RankingInv'
    BY <1>1, <2>1, <2>2, CollectStands
  <2>3. CASE SkipSymbol \/ UNCHANGED rankingVars
    BY <2>1, <2>3, SkipStands
  <2>4. CASE RankCrossSection
    BY <2>1, <2>4, RankStands
  <2>5. QED
    BY <2>1, <2>2, <2>3, <2>4 DEF RankingNext
<1>4. RankingInv => RankingIsFair
  BY DEF RankingInv
<1>5. QED
  BY <1>2, <1>3, <1>4, PTL DEF RankingSpec
=============================================================================
