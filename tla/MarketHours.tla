----------------------------- MODULE MarketHours -----------------------------
(***************************************************************************)
(* The market clock: the sessions of a trading day and the next regular    *)
(* open.  Time is a number of units since some Eastern midnight; a day has *)
(* DayLength units and the five moments of a day are counted from its own  *)
(* midnight.                                                               *)
(***************************************************************************)
EXTENDS Naturals

CONSTANTS
  DayLength,     \* units in a day
  PreOpen,       \* 04:00
  RegularOpen,   \* 09:30
  RegularClose,  \* 16:00
  PostClose,     \* 20:00
  TradingDays,   \* weekdays that are not holidays
  WarmupWindow   \* _PRE_OPEN_WARMUP_MIN

LookAhead == 10  \* days next_market_open looks at

ASSUME MarketHoursAssumption ==
  /\ {DayLength, PreOpen, RegularOpen, RegularClose, PostClose} \subseteq Nat
  /\ PreOpen < RegularOpen /\ RegularOpen < RegularClose
  /\ RegularClose < PostClose /\ PostClose < DayLength
  /\ TradingDays \subseteq Nat
  /\ WarmupWindow \in 1..RegularOpen

Day(t) == t \div DayLength

TimeOfDay(t) == t % DayLength

SessionAt(t) ==
  IF Day(t) \notin TradingDays THEN "closed"
  ELSE IF TimeOfDay(t) < PreOpen \/ TimeOfDay(t) >= PostClose THEN "closed"
  ELSE IF TimeOfDay(t) < RegularOpen THEN "pre_market"
  ELSE IF TimeOfDay(t) < RegularClose THEN "regular"
  ELSE "post_market"

IsMarketOpen(t) == SessionAt(t) = "regular"

OpenOf(d) == d * DayLength + RegularOpen

(* The trading days within reach whose open is not past.                   *)
OpensAhead(t) ==
  {d \in Day(t)..(Day(t) + LookAhead - 1) : d \in TradingDays /\ t <= OpenOf(d)}

NextOpenDay(t) ==
  CHOOSE d \in OpensAhead(t) : \A other \in OpensAhead(t) : d <= other

NextMarketOpen(t) == OpenOf(NextOpenDay(t))

UntilOpen(t) == NextMarketOpen(t) - t

InWarmupWindow(t) == 0 < UntilOpen(t) /\ UntilOpen(t) <= WarmupWindow
=============================================================================
