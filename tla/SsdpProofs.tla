----------------------------- MODULE SsdpProofs -----------------------------
(***************************************************************************)
(* Theorems about Ssdp, for every set of control points, every kind of     *)
(* packet and every size of the socket's buffer: the type invariant, and   *)
(* that nothing ends the program but a signal or a panic of the listener.  *)
(***************************************************************************)
EXTENDS Ssdp, TLAPS

\* The shutdown handler is past its wait only after a signal.
Caught == at["shutdown"] \in {"fetch", "send", "exit"} => signalled

IInv == TypeOK /\ Caught /\ EndsOnlyWhenAsked

\* The type invariant in three parts: where the tasks are, the packets in the
\* socket, and everything else.
InPlace ==
  /\ DOMAIN at = Tasks
  /\ at["main"] \in {"fetch", "send", "spawn", "await"}
  /\ at["broadcast"] \in {"off", "spawn", "fetch", "send", "tick"}
  /\ at["shutdown"] \in {"off", "install", "wait", "deaf", "pending", "fetch", "send", "exit"}
  /\ at["listen"] \in {"off", "recv", "fetch", "send", "panicked"}

Queued == inbox \in Seq(Packets) /\ Len(inbox) <= InboxSize

Others ==
  /\ process \in {"running", "exited"}
  /\ round \in {"none", "sent", "failed"}
  /\ current \in Searchers \cup {"nobody"}
  /\ search \in [Searchers -> {"idle", "waiting", "answered", "failed"}]
  /\ origin \in {"up", "down", "hung"}
  /\ lan \in BOOLEAN
  /\ signalled \in BOOLEAN

\* The type invariant in the parts that the steps below keep.
LEMMA TypeParts ==
  /\ TypeOK <=> InPlace /\ Queued /\ Others
  /\ TypeOK' <=> InPlace' /\ Queued' /\ Others'
BY DEF TypeOK, InPlace, Queued, Others

\* After a packet (mod.rs:186-192, broadcast.rs:45-50, listener.rs:84-88) every
\* task is in its place, and nobody moves but the task whose packet it was.
LEMMA FinishKeeps ==
  ASSUME InPlace, Others, NEW t \in Tasks, NEW ok \in BOOLEAN, Finish(t, ok),
         UNCHANGED <<process, origin, lan, signalled>>
  PROVE  /\ InPlace' /\ Others'
         /\ t = "shutdown" => at'["shutdown"] = "exit"
         /\ t # "shutdown" => at'["shutdown"] = at["shutdown"]
         /\ t = "listen" => at'["listen"] = "recv"
         /\ t # "listen" => at'["listen"] = at["listen"]
<1>1. CASE t = "main"
  <2>1. at' = [at EXCEPT !["main"] = "spawn"] /\ UNCHANGED <<round, search, current>>
    BY <1>1 DEF Finish, AfterByebye, Go
  <2> QED BY <1>1, <2>1 DEF Others, InPlace, Tasks
<1>2. CASE t = "broadcast"
  <2>1. at' = [at EXCEPT !["broadcast"] = "tick"] /\ UNCHANGED <<search, current>>
    BY <1>2 DEF Finish, Go
  <2>2. round' \in {"sent", "failed"}
    BY <1>2 DEF Finish
  <2> QED BY <1>2, <2>1, <2>2 DEF Others, InPlace, Tasks
<1>3. CASE t = "shutdown"
  <2>1. at' = [at EXCEPT !["shutdown"] = "exit"] /\ UNCHANGED <<round, search, current>>
    BY <1>3 DEF Finish, Go
  <2> QED BY <1>3, <2>1 DEF Others, InPlace, Tasks
<1>4. CASE t = "listen"
  <2>1. at' = [at EXCEPT !["listen"] = "recv"] /\ current' = "nobody" /\ UNCHANGED round
    BY <1>4 DEF Finish, Go
  <2>2. search' \in [Searchers -> {"idle", "waiting", "answered", "failed"}]
    BY <1>4 DEF Finish, Others
  <2> QED BY <1>4, <2>1, <2>2 DEF Others, InPlace, Tasks
<1> QED BY <1>1, <1>2, <1>3, <1>4 DEF Tasks

\* The steps of the tasks' packets: a fetch (utils.rs:47-76) and a send.
LEMMA PacketStep ==
  ASSUME IInv, NEW t \in Tasks, Fetch(t) \/ Send(t)
  PROVE  IInv'
<1> USE TypeParts DEF IInv
<1>1. /\ process = "running" /\ at[t] \in {"fetch", "send"}
      /\ UNCHANGED <<process, inbox, origin, lan, signalled>>
  BY Zenon DEF Fetch, Send, envVars
<1>2. Queued'
  BY <1>1 DEF Queued, Packets
<1>3. CASE Go(t, "send") /\ at[t] = "fetch" /\ UNCHANGED <<round, search, current>>
  <2>1. at' = [at EXCEPT ![t] = "send"]
    BY <1>3 DEF Go
  <2>2. InPlace' /\ Others'
    BY <1>1, <1>3, <2>1 DEF InPlace, Others, Tasks
  <2>3. Caught' /\ EndsOnlyWhenAsked'
    BY <1>1, <1>3, <2>1 DEF Caught, EndsOnlyWhenAsked, InPlace, Tasks
  <2> QED BY <1>2, <2>2, <2>3
<1>4. ASSUME NEW ok \in BOOLEAN, Finish(t, ok) PROVE IInv'
  <2>1. /\ InPlace' /\ Others'
        /\ t = "shutdown" => at'["shutdown"] = "exit"
        /\ t # "shutdown" => at'["shutdown"] = at["shutdown"]
    BY <1>1, <1>4, FinishKeeps
  <2>2. Caught' /\ EndsOnlyWhenAsked'
    BY <1>1, <2>1 DEF Caught, EndsOnlyWhenAsked
  <2> QED BY <1>2, <2>1, <2>2
<1>5. CASE Fetch(t)
  BY <1>3, <1>4, <1>5, Zenon DEF Fetch
<1>6. CASE Send(t)
  <2>1. lan \in BOOLEAN
    BY DEF Others
  <2> QED BY <1>4, <1>6, <2>1 DEF Send
<1> QED BY <1>5, <1>6

\* Steps that only move tasks from one await to another (mod.rs:194-203,
\* broadcast.rs:37-106).
LEMMA MoveStep ==
  ASSUME IInv,
         \/ SpawnTasks \/ SpawnShutdownHandler \/ Tick
         \/ InstallHandler \/ TakeSignal \/ ByebyeTimeout
  PROVE  IInv'
<1> USE TypeParts DEF IInv
<1>1. process = "running" /\ UNCHANGED <<process, round, inbox, current, search, envVars>>
  BY DEF SpawnTasks, SpawnShutdownHandler, Tick, InstallHandler, TakeSignal, ByebyeTimeout
<1>2. Queued' /\ Others' /\ EndsOnlyWhenAsked'
  BY <1>1 DEF Queued, Others, EndsOnlyWhenAsked, envVars, Packets
<1>3. InPlace' /\ Caught'
  <2> USE <1>1 DEF InPlace, Caught, Tasks, Go, envVars
  <2>1. CASE SpawnTasks
    BY <2>1 DEF SpawnTasks
  <2>2. CASE SpawnShutdownHandler
    BY <2>2 DEF SpawnShutdownHandler
  <2>3. CASE Tick
    BY <2>3 DEF Tick
  <2>4. CASE InstallHandler
    BY <2>4 DEF InstallHandler
  <2>5. CASE TakeSignal
    BY <2>5 DEF TakeSignal
  <2>6. CASE ByebyeTimeout
    BY <2>6 DEF ByebyeTimeout
  <2> QED BY <2>1, <2>2, <2>3, <2>4, <2>5, <2>6
<1> QED BY <1>2, <1>3

\* The three ends of the program (main.rs:112, broadcast.rs:110, a signal that
\* nothing catches).
LEMMA EndStep ==
  ASSUME IInv, MainReturns \/ Exit \/ Signal
  PROVE  IInv'
<1> USE TypeParts DEF IInv
<1>1. UNCHANGED <<at, round, current, inbox, search, origin, lan>>
  BY DEF MainReturns, Exit, Signal, envVars
<1>2. InPlace' /\ Queued'
  BY <1>1 DEF InPlace, Queued, Packets, Tasks
<1>3. /\ process' \in {"running", "exited"} /\ signalled' \in BOOLEAN
      /\ signalled => signalled'
  BY Zenon DEF MainReturns, Exit, Signal, envVars, Others
<1>4. Others'
  BY <1>1, <1>3 DEF Others
<1>5. Caught'
  BY <1>1, <1>3 DEF Caught
<1>6. EndsOnlyWhenAsked'
  <2>1. CASE MainReturns
    BY <2>1 DEF MainReturns, EndsOnlyWhenAsked
  <2>2. CASE Exit
    BY <2>2, Zenon DEF Exit, EndsOnlyWhenAsked, Caught, envVars
  <2>3. CASE Signal
    BY <2>3 DEF Signal, EndsOnlyWhenAsked
  <2> QED BY <2>1, <2>2, <2>3
<1> QED BY <1>2, <1>4, <1>5, <1>6

\* recv_from, parse_ssdp and the decision to answer (listener.rs:46-91).
LEMMA ReceiveStep ==
  ASSUME IInv, Receive
  PROVE  IInv'
<1> USE TypeParts DEF IInv
<1>1. /\ process = "running" /\ at["listen"] = "recv"
      /\ inbox # <<>> /\ inbox' = Tail(inbox)
      /\ UNCHANGED <<process, round, search, origin, lan, signalled>>
  BY DEF Receive, TakePacket, Ignore, envVars
<1>2. Queued'
  <2>1. inbox \in Seq(Packets) /\ Len(inbox) <= InboxSize /\ InboxSize \in Nat
    BY InboxAssumption DEF Queued
  <2>2. Tail(inbox) \in Seq(Packets) /\ Len(Tail(inbox)) <= InboxSize
    BY <1>1, <2>1
  <2> QED BY <1>1, <2>2 DEF Queued, Packets
<1>3. /\ current' \in Searchers \cup {"nobody"}
      /\ at' \in {at, [at EXCEPT !["listen"] = "panicked"], [at EXCEPT !["listen"] = "fetch"]}
  <2>1. current \in Searchers \cup {"nobody"}
    BY DEF Others
  <2> QED BY <2>1 DEF Receive, Ignore, Go
<1>4. InPlace' /\ Caught'
  BY <1>1, <1>3 DEF InPlace, Caught, Tasks
<1>5. Others' /\ EndsOnlyWhenAsked'
  BY <1>1, <1>3 DEF Others, EndsOnlyWhenAsked
<1> QED BY <1>2, <1>4, <1>5

\* What happens to the socket, the origin and the network.
LEMMA EnvironmentStep ==
  ASSUME IInv, PacketArrives \/ OriginChanges \/ LanChanges
  PROVE  IInv'
<1> USE TypeParts DEF IInv
<1>1. process = "running" /\ UNCHANGED <<process, at, round, current, signalled>>
  BY DEF PacketArrives, OriginChanges, LanChanges, taskVars, envVars
<1>2. InPlace' /\ Caught' /\ EndsOnlyWhenAsked'
  BY <1>1 DEF InPlace, Caught, EndsOnlyWhenAsked, Tasks
<1>3. Queued'
  <2>1. inbox \in Seq(Packets) /\ Len(inbox) <= InboxSize /\ InboxSize \in Nat
    BY InboxAssumption DEF Queued
  <2>2. CASE PacketArrives
    <3>1. PICK packet \in Packets : inbox' = Append(inbox, packet)
      BY <2>2 DEF PacketArrives
    <3>2. Len(inbox) < InboxSize
      BY <2>2 DEF PacketArrives
    <3>3. Append(inbox, packet) \in Seq(Packets) /\ Len(Append(inbox, packet)) = Len(inbox) + 1
      BY <2>1
    <3> QED BY <2>1, <3>1, <3>2, <3>3 DEF Queued, Packets
  <2>3. CASE UNCHANGED inbox
    BY <2>3 DEF Queued, Packets
  <2> QED BY <2>2, <2>3 DEF OriginChanges, LanChanges
<1>4. Others'
  <2>1. CASE PacketArrives
    <3>1. search' \in [Searchers -> {"idle", "waiting", "answered", "failed"}]
      BY <2>1 DEF PacketArrives, Others
    <3> QED BY <1>1, <2>1, <3>1 DEF PacketArrives, Others, envVars
  <2>2. CASE OriginChanges
    BY <1>1, <2>2 DEF OriginChanges, Others
  <2>3. CASE LanChanges
    BY <1>1, <2>3 DEF LanChanges, Others
  <2> QED BY <2>1, <2>2, <2>3
<1> QED BY <1>2, <1>3, <1>4

\* The first states, with the option -w and without (mod.rs:182-186).
LEMMA InitInvariant ==
  ASSUME Init
  PROVE  IInv
<1>1. InPlace
  BY DEF Init, InPlace, Tasks
<1>2. Queued
  BY InboxAssumption DEF Init, Queued
<1>3. Others
  BY Zenon DEF Init, Others
<1>4. Caught /\ EndsOnlyWhenAsked
  BY DEF Init, Caught, EndsOnlyWhenAsked, Tasks
<1> QED BY <1>1, <1>2, <1>3, <1>4, TypeParts DEF IInv

\* Every step keeps the invariant.
LEMMA NextInvariant ==
  ASSUME IInv, [Next]_vars
  PROVE  IInv'
<1>1. CASE \E t \in Tasks : Fetch(t) \/ Send(t)
  BY <1>1, PacketStep
<1>2. CASE MainReturns \/ Exit \/ Signal
  BY <1>2, EndStep
<1>3. CASE \/ SpawnTasks \/ SpawnShutdownHandler \/ Tick
           \/ InstallHandler \/ TakeSignal \/ ByebyeTimeout
  BY <1>3, MoveStep
<1>4. CASE Receive
  BY <1>4, ReceiveStep
<1>5. CASE PacketArrives \/ OriginChanges \/ LanChanges
  BY <1>5, EnvironmentStep
<1>6. CASE UNCHANGED vars
  <2>1. UNCHANGED <<process, at, round, inbox, current, search, origin, lan, signalled>>
    BY <1>6 DEF vars, taskVars, envVars
  <2>2. InPlace' /\ Queued' /\ Caught' /\ EndsOnlyWhenAsked'
    BY <2>1, TypeParts DEF IInv, InPlace, Queued, Caught, EndsOnlyWhenAsked, Packets, Tasks
  <2>3. Others'
    BY <2>1, TypeParts DEF IInv, Others
  <2> QED BY <2>2, <2>3, TypeParts DEF IInv
<1> QED BY <1>1, <1>2, <1>3, <1>4, <1>5, <1>6 DEF Next, TaskStep

\* Hence it holds throughout.
LEMMA InductiveInvariant == Spec => []IInv
BY InitInvariant, NextInvariant, PTL DEF Spec

\* Every task is at one of its awaits and the socket's buffer holds no more than
\* it can, whatever arrives and fails (mod.rs:178-206, listener.rs:43-92).
THEOREM TypeCorrect == Spec => []TypeOK
BY InductiveInvariant, PTL DEF IInv

\* Nothing but a signal or a panic of the listener ends the program, whatever the
\* origin and the network do (mod.rs:203, broadcast.rs:110, listener.rs:33).
THEOREM OnlyASignalEnds == Spec => []EndsOnlyWhenAsked
BY InductiveInvariant, PTL DEF IInv
=============================================================================
