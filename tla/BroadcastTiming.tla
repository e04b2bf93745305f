--------------------------- MODULE BroadcastTiming ---------------------------
(***************************************************************************)
(* When broadcast_task announces the device, and how long players remember *)
(* it: the interval of broadcast.rs:42-54 against the max-age that         *)
(* SSDPManager::new derives from the period (mod.rs:65-68).                *)
(*                                                                         *)
(* Time advances in seconds and only while the task has nothing to do.  A  *)
(* round, do_ssdp_alive, takes as long as the origin likes.  Players are   *)
(* one whose cache holds the last packet that was not lost.                *)
(***************************************************************************)
EXTENDS Integers

CONSTANTS
  Periods,   \* values of the option -d, in seconds
  Usize,     \* how many values the type usize of the target has
  Interval,  \* value of the option -w, in seconds, which the code does not use
  MaxRound,  \* bound: the longest a round takes
  MaxLate    \* bound: how far the interval falls behind

\* A target with 32-bit words: periods of 68 years and more are left out.
ASSUME PeriodsAssumption ==
  /\ Periods \subseteq Nat
  /\ Usize \in Nat /\ Usize > 20
  /\ \A n \in Periods : 2 * n < Usize
ASSUME BoundsAssumption == MaxRound \in Nat /\ MaxLate \in Nat
ASSUME IntervalAssumption == Interval \in Nat

VARIABLES
  period,  \* broadcast_period
  task,    \* where broadcast_task is: "start", "round", "tick", "panicked"
  due,     \* seconds until the interval's next deadline, negative when late
  busy,    \* seconds the current round has taken
  age,     \* seconds since the players heard the last packet; at first they know none
  steady   \* since then no round failed or took longer than the margin

vars == <<period, task, due, busy, age, steady>>

\* cache_max_age of a period of n seconds
CacheMaxAgeOffByOne(n) == (IF n <= 20 THEN 20 ELSE n * 2) % Usize   \* mutant
CacheMaxAge(n) == (IF n < 20 THEN 20 ELSE n * 2) % Usize

\* How much longer than its predecessor a round may take: what lies between
\* the period and the max-age that announces it.
Margin(n) == IF n < 20 THEN 20 - n ELSE n

TypeOK ==
  /\ period \in Periods
  /\ task \in {"start", "round", "tick", "panicked"}
  /\ due \in Int /\ -MaxLate <= due /\ due <= period
  /\ busy \in 0..MaxRound
  /\ age \in Nat
  /\ steady \in BOOLEAN

Init ==
  /\ period \in Periods
  /\ task = "start"
  /\ due = 0
  /\ busy = 0
  /\ age = CacheMaxAge(period) + 1
  /\ steady = FALSE

\* time::interval panics when the period is zero; the first deadline is now.
Start ==
  /\ task = "start"
  /\ task' = IF period = 0 THEN "panicked" ELSE "round"
  /\ UNCHANGED <<period, due, busy, age, steady>>

\* do_ssdp_alive sent its packet, and the players heard it.
RoundHeard ==
  /\ task = "round"
  /\ task' = "tick"
  /\ age' = 0
  /\ steady' = TRUE
  /\ UNCHANGED <<period, due, busy>>

\* The fetch or the send failed, or the packet was lost on the way.
RoundFails ==
  /\ task = "round"
  /\ task' = "tick"
  /\ steady' = FALSE
  /\ UNCHANGED <<period, due, busy, age>>

\* mutant of Tick: the future is made and not awaited
TickNotAwaited ==
  /\ task = "tick"
  /\ task' = "round"
  /\ due' = due + period
  /\ busy' = 0
  /\ UNCHANGED <<period, age, steady>>

\* tick() completes when the deadline has passed; the next deadline follows it
\* by a period, also when it was missed (MissedTickBehavior::Burst).
Tick ==
  /\ task = "tick"
  /\ due <= 0
  /\ task' = "round"
  /\ due' = due + period
  /\ busy' = 0
  /\ UNCHANGED <<period, age, steady>>

\* A second passes.  An entry that has expired does not grow older.
Pass ==
  /\ \/ task = "round" /\ busy < MaxRound /\ due > -MaxLate
     \/ task = "tick" /\ due > 0
  /\ due' = due - 1
  /\ busy' = IF task = "round" THEN busy + 1 ELSE busy
  /\ age' = IF age > CacheMaxAge(period) THEN age ELSE age + 1
  /\ steady' = (steady /\ (task = "round" => busy < Margin(period)))
  /\ UNCHANGED <<period, task>>

Next == Start \/ RoundHeard \/ RoundFails \/ Tick \/ Pass

Spec == Init /\ [][Next]_vars

-----------------------------------------------------------------------------
(* Properties.                                                             *)

\* The device never expires in a player's cache while rounds succeed and take
\* no longer than the margin: for every period, from the first packet that is
\* heard, or the first after an outage, however late the interval is by then
\* (mod.rs:65-68, broadcast.rs:42-54).  The margin is one second for a period
\* of 19; from 20 on it is a whole period.
NeverExpires == steady => age <= CacheMaxAge(period)

\* README.md:100 "This will retry connecting every 30 seconds until the server
\* becomes available", and "a custom retry interval" after it: while no player
\* knows the device, the next round is not further away than the interval.  Of
\* the option, main.rs:100 only asks whether it is given.
RetriesInInterval ==
  task = "tick" /\ age > CacheMaxAge(period) => due <= Interval
=============================================================================
