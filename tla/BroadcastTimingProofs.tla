------------------------ MODULE BroadcastTimingProofs ------------------------
(***************************************************************************)
(* Theorems about BroadcastTiming, for every set of periods.  The          *)
(* inductive invariant relates the age of the players' entry to the        *)
(* deadline of the interval while the task waits, and to the time the      *)
(* round has taken while it does not.                                      *)
(***************************************************************************)
EXTENDS BroadcastTiming, TLAPS

\* While the broadcaster is steady, what is left until the deadline is left of
\* a period that began with the last packet; a round adds the time it takes.
Fresh ==
  steady =>
    /\ task \in {"round", "tick"}
    /\ task = "tick" => age <= period /\ age + due <= period
    /\ task = "round" => age <= period + busy /\ busy <= Margin(period)

IInv == TypeOK /\ Fresh

USE PeriodsAssumption, BoundsAssumption

\* mod.rs:65-68: the max-age is the period and the margin, for every period of
\* which usize holds the double.
LEMMA MaxAgeIsPeriodAndMargin ==
  ASSUME NEW n \in Periods
  PROVE  /\ CacheMaxAge(n) = n + Margin(n)
         /\ CacheMaxAge(n) \in Nat /\ Margin(n) \in Nat
<1> DEFINE m == IF n < 20 THEN 20 ELSE n * 2
<1>1. n \in Nat /\ m \in Nat /\ m < Usize /\ m = n + Margin(n) /\ Margin(n) \in Nat
  BY DEF Margin
<1>2. ASSUME NEW k \in Nat, k < Usize PROVE k % Usize = k
  BY <1>2
<1>3. m % Usize = m
  BY <1>1, <1>2
<1> QED BY <1>1, <1>3 DEF CacheMaxAge

\* An announcement is remembered for longer than a period, so that the next one
\* comes in time (mod.rs:65-68).
THEOREM AnnouncementOutlivesPeriod ==
  \A n \in Periods : n > 0 => CacheMaxAge(n) > n
BY MaxAgeIsPeriodAndMargin DEF Margin

\* For every period: the invariant of the broadcaster's loop
\* (broadcast.rs:42-54).
THEOREM InductiveInvariant == Spec => []IInv
<1>1. Init => IInv
  <2> SUFFICES ASSUME Init PROVE IInv
    OBVIOUS
  <2>1. period \in Nat /\ -MaxLate <= 0
    BY DEF Init
  <2>2. Fresh /\ steady \in BOOLEAN
    BY DEF Init, Fresh
  <2>3. age \in Nat
    BY MaxAgeIsPeriodAndMargin DEF Init
  <2> QED BY <2>1, <2>2, <2>3 DEF Init, IInv, TypeOK
<1>2. IInv /\ [Next]_vars => IInv'
  <2> SUFFICES ASSUME IInv, [Next]_vars PROVE IInv'
    OBVIOUS
  <2> USE DEF IInv, TypeOK, Fresh
  <2>0. Margin(period) \in Nat /\ CacheMaxAge(period) \in Nat
    BY MaxAgeIsPeriodAndMargin
  <2>1. CASE Start
    BY <2>1 DEF Start
  <2>2. CASE RoundHeard
    BY <2>2 DEF RoundHeard
  <2>3. CASE RoundFails
    BY <2>3 DEF RoundFails
  <2>4. CASE Tick
    BY <2>0, <2>4 DEF Tick
  <2>5. CASE Pass
    <3>1. TypeOK'
      <4>1. due' \in Int /\ -MaxLate <= due' /\ due' <= period
        BY <2>5 DEF Pass
      <4>2. busy' \in 0..MaxRound
        BY <2>5 DEF Pass
      <4>3. age' \in Nat /\ steady' \in BOOLEAN
        BY <2>0, <2>5 DEF Pass
      <4> QED BY <2>5, <4>1, <4>2, <4>3 DEF Pass
    <3>2. Fresh'
      <4> SUFFICES ASSUME steady'
                   PROVE  /\ task' \in {"round", "tick"}
                          /\ task' = "tick" => age' <= period' /\ age' + due' <= period'
                          /\ task' = "round" =>
                               age' <= period' + busy' /\ busy' <= Margin(period')
        BY DEF Fresh
      <4>1. steady /\ (task = "round" => busy < Margin(period))
        BY <2>5 DEF Pass
      <4>2. age' \in {age, age + 1} /\ age' <= age + 1
        BY <2>0, <2>5 DEF Pass
      <4>3. CASE task = "tick"
        BY <2>5, <4>1, <4>2, <4>3 DEF Pass
      <4>4. CASE task = "round"
        BY <2>0, <2>5, <4>1, <4>2, <4>4 DEF Pass
      <4> QED BY <4>1, <4>3, <4>4
    <3> QED BY <3>1, <3>2
  <2>6. CASE UNCHANGED vars
    BY <2>6 DEF vars
  <2> QED BY <2>1, <2>2, <2>3, <2>4, <2>5, <2>6 DEF Next
<1> QED BY <1>1, <1>2, PTL DEF Spec

\* Every variable of the broadcaster keeps its type; its next deadline is never
\* more than a period away (broadcast.rs:42-54).
THEOREM TypeCorrect == Spec => []TypeOK
BY InductiveInvariant, PTL DEF IInv

\* For every period the device stays in the players' caches while rounds succeed
\* within the margin (mod.rs:65-68, broadcast.rs:42-54).
THEOREM AnnouncedInTime == Spec => []NeverExpires
<1>1. IInv => NeverExpires
  <2> SUFFICES ASSUME IInv, steady PROVE age <= CacheMaxAge(period)
    BY DEF NeverExpires
  <2>1. CacheMaxAge(period) = period + Margin(period) /\ Margin(period) \in Nat
    BY MaxAgeIsPeriodAndMargin DEF IInv, TypeOK
  <2> QED BY <2>1 DEF IInv, Fresh, TypeOK
<1> QED BY <1>1, InductiveInvariant, PTL
=============================================================================
