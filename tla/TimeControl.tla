---------------------------- MODULE TimeControl ----------------------------
(***************************************************************************)
(* How much time one move may take (engine/core/src/time_control.rs, with  *)
(* the translation of a USI `go' in engine/usi/src/clocks.rs).             *)
(*                                                                         *)
(* Everything here is a function of the request and of the extension       *)
(* cooldown.  Times are natural numbers of one unit; NoTime is an absent   *)
(* field.  The arithmetic of the code is on unsigned 64-bit milliseconds,  *)
(* and its largest product, a week's clock times the scaled fraction, is   *)
(* about 2^51: nothing saturates but the subtractions modelled by Minus.   *)
(* A plan's depth and node limits are the request's, and are left out.     *)
(***************************************************************************)
EXTENDS Integers

CONSTANTS
  NoTime,              \* Option::None
  MaxClock, MaxMoveTime, MaxMargin,           \* the defensive upper bounds
  CasualHard, CasualSoft,                     \* TimeManagerConfig
  SafetyMargin,                               \* the adapter's DEFAULT_SAFETY_MARGIN_MS
  MarginCap, MarginShare,                     \* 250 ms, and 1/100 of the allowance
  ExtensionMult, CooldownMult,                \* CLOCK_*_MULT, in halves of the target
  ExtensionFraction,                          \* CLOCK_EXTENSION_FRACTION
  Emergency, Floor,                           \* CLOCK_EMERGENCY_MS and its floor
  FractionScale, NormalFraction, EmergencyFraction

ASSUME TimeAssumption ==
  /\ NoTime \notin Nat
  /\ {MaxClock, MaxMoveTime, MaxMargin, CasualHard, CasualSoft, SafetyMargin, MarginCap,
      ExtensionMult, CooldownMult, Emergency, Floor, NormalFraction, EmergencyFraction}
       \subseteq Nat
  /\ {MarginShare, ExtensionFraction, FractionScale} \subseteq Nat \ {0}
  /\ 0 < MaxClock
  /\ 0 < CasualSoft /\ CasualSoft <= CasualHard
  /\ Floor < Emergency
  /\ NormalFraction <= EmergencyFraction

Sides == {"black", "white"}

Given(t) == t # NoTime
OrZero(t) == IF t = NoTime THEN 0 ELSE t
Least(a, b) == IF a <= b THEN a ELSE b
Most(a, b) == IF a <= b THEN b ELSE a
Minus(a, b) == IF a <= b THEN 0 ELSE a - b

-----------------------------------------------------------------------------
(***************************************************************************)
(* Requests.  time and increment are functions of the side.                *)
(***************************************************************************)
Times == Nat \cup {NoTime}

Requests == [time : [Sides -> Times], increment : [Sides -> Times], byoyomi : Times,
             movetime : Times, nodes : BOOLEAN, depth : BOOLEAN, infinite : BOOLEAN]

\* What a USI clock lets the engine use on this move.
SpendableTime(time, increment) ==
  IF time = NoTime THEN NoTime ELSE Least(time + OrZero(increment), MaxClock)

\* The internal request of a `go': every clock becomes what can be spent on this move.
TimeControlOf(go) ==
  [go EXCEPT !.time = [s \in Sides |-> SpendableTime(go.time[s], go.increment[s])]]

HasClock(r) ==
  \/ \E s \in Sides : Given(r.time[s]) \/ Given(r.increment[s])
  \/ Given(r.byoyomi)

IsImplicitCasual(r) ==
  ~r.infinite /\ r.movetime = NoTime /\ ~HasClock(r) /\ ~r.nodes /\ ~r.depth

\* The clocks of a ponderhit replace those of the held go ponder.
ClockOverride_Held(held, clocks) == held
ClockOverride(held, clocks) ==
  LET Newer(new, old) == IF Given(new) THEN new ELSE old
  IN  [held EXCEPT
        !.time = [s \in Sides |-> Newer(clocks.time[s], @[s])],
        !.increment = [s \in Sides |-> Newer(clocks.increment[s], @[s])],
        !.byoyomi = Newer(clocks.byoyomi, @)]

Validate(r) ==
  LET AtMost(t, bound) == Given(t) => t <= bound
  IN  /\ \A s \in Sides : AtMost(r.time[s], MaxClock) /\ AtMost(r.increment[s], MaxMoveTime)
      /\ AtMost(r.byoyomi, MaxMoveTime)
      /\ AtMost(r.movetime, MaxMoveTime) /\ r.movetime # 0
      /\ SafetyMargin <= MaxMargin
      /\ ~(r.infinite /\ (Given(r.movetime) \/ HasClock(r) \/ r.nodes \/ r.depth))

-----------------------------------------------------------------------------
(***************************************************************************)
(* Plans.                                                                  *)
(***************************************************************************)
Modes == {"Casual", "MoveTime", "Clock", "Nodes", "Depth", "Infinite"}

Plans == [mode : Modes, soft : Times, hard : Times, allocated : Times, minSpend : Times]

WithoutDeadline(mode) ==
  [mode |-> mode, soft |-> NoTime, hard |-> NoTime, allocated |-> NoTime, minSpend |-> NoTime]

DeadlineAfterMargin(allocated) == Minus(allocated, Least(SafetyMargin, Minus(allocated, 1)))

MoveMargin(allowance) ==
  Least(Least(Most(SafetyMargin, Least(allowance \div MarginShare, MarginCap)), MarginCap),
        Minus(allowance, 1))

CasualPlan ==
  LET hard == DeadlineAfterMargin(CasualHard)
  IN  [mode |-> "Casual", soft |-> Least(CasualSoft, hard), hard |-> hard,
       allocated |-> CasualHard, minSpend |-> NoTime]

MoveTimePlan(movetime) ==
  LET hard == DeadlineAfterMargin(movetime)
  IN  [mode |-> "MoveTime", soft |-> hard, hard |-> hard, allocated |-> movetime,
       minSpend |-> NoTime]

\* The pure per-move budget: no base clock, only byoyomi.
ByoyomiPlan(byoyomi, margin) ==
  LET hard == Minus(byoyomi, margin)
  IN  [mode |-> "Clock", soft |-> Least((byoyomi * 3) \div 4, hard), hard |-> hard,
       allocated |-> byoyomi, minSpend |-> Least(byoyomi \div 2, hard)]

\* The share of the remaining clock one quiet move takes: NormalFraction of it, ramping
\* up to EmergencyFraction as the clock drains from Emergency to Floor.
Scaled(remaining) ==
  LET span == Emergency - Floor
      drained == Least(Minus(Emergency, remaining), span)
  IN  (remaining * (NormalFraction * span + (EmergencyFraction - NormalFraction) * drained))
        \div (FractionScale * span)

Target(remaining, increment, byoyomi) ==
  Most(Scaled(remaining) + (increment * 3) \div 4 + (byoyomi * 3) \div 4, 1)

ExtensionCap(target, remaining, cooldown) ==
  Least((target * (IF cooldown > 0 THEN CooldownMult ELSE ExtensionMult)) \div 2,
        remaining \div ExtensionFraction)

Allocated(target, remaining, byoyomi, cooldown) ==
  Least(Most(ExtensionCap(target, remaining, cooldown), target), remaining + byoyomi)

RunningPlan(remaining, increment, byoyomi, margin, cooldown) ==
  LET target == Target(remaining, increment, byoyomi)
      allocated == Allocated(target, remaining, byoyomi, cooldown)
      hard == Minus(allocated, Least(margin, Minus(allocated, 1)))
  IN  [mode |-> "Clock", soft |-> Least(target, hard), hard |-> hard,
       allocated |-> allocated, minSpend |-> NoTime]

\* An exhausted clock cannot manufacture time.
ExhaustedPlan ==
  [mode |-> "Clock", soft |-> 0, hard |-> 0, allocated |-> 0, minSpend |-> NoTime]

ClockPlan(side, r, cooldown) ==
  LET remaining == OrZero(r.time[side])
      byoyomi == OrZero(r.byoyomi)
      margin == MoveMargin(Most(remaining, byoyomi))
  IN  IF remaining > 0
      THEN RunningPlan(remaining, OrZero(r.increment[side]), byoyomi, margin, cooldown)
      ELSE IF byoyomi > 0 THEN ByoyomiPlan(byoyomi, margin) ELSE ExhaustedPlan

\* TimeManager::plan of a valid request: a live clock goes before a preset move time.
PlanFor(side, r, cooldown) ==
  IF r.infinite THEN WithoutDeadline("Infinite")
  ELSE IF IsImplicitCasual(r) THEN CasualPlan
  ELSE IF HasClock(r) THEN ClockPlan(side, r, cooldown)
  ELSE IF Given(r.movetime) THEN MoveTimePlan(r.movetime)
  ELSE WithoutDeadline(IF r.nodes THEN "Nodes" ELSE "Depth")

-----------------------------------------------------------------------------
\* TimeManager::observe_spend: a move well beyond its soft target was extended.
Extended(plan, spent) == OrZero(plan.soft) > 0 /\ spent > (plan.soft * 6) \div 5

CooldownAfter(cooldown, plan, spent) ==
  IF Extended(plan, spent) THEN 3 ELSE Minus(cooldown, 1)
=============================================================================
