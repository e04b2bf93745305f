-------------------------------- MODULE Ssdp --------------------------------
(***************************************************************************)
(* The SSDP side: main_task, broadcast_task, shutdown_handler and          *)
(* listen_task (src/src/ssdp).  All four send through InteractiveSSDP,     *)
(* which fetches the description from the origin before every packet:      *)
(* under a connect timeout, but with no limit on the time an accepted      *)
(* request takes.                                                          *)
(*                                                                         *)
(* What a packet says is left out, and so is the time between broadcasts.  *)
(* A failed recv_from changes nothing and is a stuttering step.            *)
(***************************************************************************)
EXTENDS Naturals, Sequences

CONSTANTS
  Searchers,  \* control points that send M-SEARCH requests
  OtherKinds, \* what else arrives on the port, see Packets
  InboxSize   \* bound: packets the listening socket's buffer holds

ASSUME InboxAssumption == InboxSize \in Nat \ {0}
ASSUME OtherKindsAssumption == OtherKinds \subseteq {"other", "full"}

VARIABLES
  process,   \* "running" or "exited"
  at,        \* where each of the four tasks is
  round,     \* how the last broadcast ended: "none", "sent", "failed"
  inbox,     \* packets in the buffer of the listening socket
  current,   \* src_addr of the search being answered
  search,    \* each control point's search: "idle", "waiting", "answered", "failed"
  origin,    \* the origin: "up", "down" (refuses, or describes nothing that parses),
             \* "hung" (accepts, never answers)
  lan,       \* whether packets can be sent on the local network
  signalled  \* SIGINT or SIGTERM was raised

taskVars == <<process, at, round, current>>
envVars  == <<origin, lan, signalled>>
vars == <<taskVars, inbox, search, envVars>>

Tasks == {"main", "broadcast", "shutdown", "listen"}

\* A packet is a search of one of the Searchers, or is not for this program,
\* "other", malformed ones included, or has as many header lines as parse_ssdp
\* has room for, "full".
Packets == Searchers \cup OtherKinds

ASSUME SearchersAssumption == {"other", "full"} \cap Searchers = {}

TypeOK ==
  /\ process \in {"running", "exited"}
  /\ DOMAIN at = Tasks
  /\ at["main"] \in {"fetch", "send", "spawn", "await"}
  /\ at["broadcast"] \in {"off", "spawn", "fetch", "send", "tick"}
  /\ at["shutdown"] \in {"off", "install", "wait", "deaf", "pending", "fetch", "send", "exit"}
  /\ at["listen"] \in {"off", "recv", "fetch", "send", "panicked"}
  /\ round \in {"none", "sent", "failed"}
  /\ inbox \in Seq(Packets) /\ Len(inbox) <= InboxSize
  /\ current \in Searchers \cup {"nobody"}
  /\ search \in [Searchers -> {"idle", "waiting", "answered", "failed"}]
  /\ origin \in {"up", "down", "hung"}
  /\ lan \in BOOLEAN
  /\ signalled \in BOOLEAN

\* The sockets are bound before main_task starts, so packets may be queued.
\* With wait_mode, the option -w, main_task skips the initial byebye.
Init ==
  /\ process = "running"
  /\ \E start \in {"fetch", "spawn"} :
       at = [t \in Tasks |-> IF t = "main" THEN start ELSE "off"]
  /\ round = "none"
  /\ inbox = <<>>
  /\ current = "nobody"
  /\ search = [s \in Searchers |-> "idle"]
  /\ origin \in {"up", "down", "hung"}
  /\ lan \in BOOLEAN
  /\ signalled = FALSE

Go(t, place) == at' = [at EXCEPT ![t] = place]

-----------------------------------------------------------------------------
(* InteractiveSSDP: send_alive, send_ok and send_byebye are a fetch, whose *)
(* failure ends them, and a send.                                          *)

\* The initial byebye is attempted once.
RetryByebye(ok) ==                       \* mutant of AfterByebye
  Go("main", IF ok THEN "spawn" ELSE "fetch")
AfterByebye(ok) == Go("main", "spawn")

\* Each task goes on in its own way after a packet, sent or not.
Finish(t, ok) ==
  \/ t = "main" /\ AfterByebye(ok) /\ UNCHANGED <<round, search, current>>
  \/ /\ t = "broadcast"
     /\ Go(t, "tick")
     /\ round' = IF ok THEN "sent" ELSE "failed"
     /\ UNCHANGED <<search, current>>
  \/ t = "shutdown" /\ Go(t, "exit") /\ UNCHANGED <<round, search, current>>
  \/ /\ t = "listen"
     /\ Go(t, "recv")
     /\ search' = [search EXCEPT ![current] = IF ok THEN "answered" ELSE "failed"]
     /\ current' = "nobody"
     /\ UNCHANGED round

\* fetch_endpoint_info: a description, or an error; from a hung origin neither.
Fetch(t) ==
  /\ process = "running"
  /\ at[t] = "fetch"
  /\ \/ origin = "up" /\ Go(t, "send") /\ UNCHANGED <<round, search, current>>
     \/ origin = "down" /\ Finish(t, FALSE)
  /\ UNCHANGED <<process, inbox, envVars>>

Send(t) ==
  /\ process = "running"
  /\ at[t] = "send"
  /\ Finish(t, lan)
  /\ UNCHANGED <<process, inbox, envVars>>

-----------------------------------------------------------------------------
(* main_task, and main, which returns when main_task does.                 *)

\* Both tasks are spawned and the listener is awaited.
SpawnTasks ==
  /\ process = "running"
  /\ at["main"] = "spawn"
  /\ at' = [at EXCEPT !["main"] = "await", !["broadcast"] = "spawn", !["listen"] = "recv"]
  /\ UNCHANGED <<process, round, inbox, current, search, envVars>>

\* The listener ended, which only a panic makes it do: main returns Ok.
MainReturns ==
  /\ process = "running"
  /\ at["main"] = "await"
  /\ at["listen"] = "panicked"
  /\ process' = "exited"
  /\ UNCHANGED <<at, round, inbox, current, search, envVars>>

-----------------------------------------------------------------------------
(* broadcast_task.                                                         *)

SpawnShutdownHandler ==
  /\ process = "running"
  /\ at["broadcast"] = "spawn"
  /\ at' = [at EXCEPT !["broadcast"] = "fetch", !["shutdown"] = "install"]
  /\ UNCHANGED <<process, round, inbox, current, search, envVars>>

\* The loop goes on whatever came of a round; tick() completes when it is due.
OnlyIfSent == round = "sent"             \* mutant of NextRound: break, not continue
NextRound  == round \in {"sent", "failed"}

Tick ==
  /\ process = "running"
  /\ at["broadcast"] = "tick"
  /\ NextRound
  /\ Go("broadcast", "fetch")
  /\ UNCHANGED <<process, round, inbox, current, search, envVars>>

-----------------------------------------------------------------------------
(* shutdown_handler.                                                       *)

\* The handlers are installed; or the first of them is not, and the handler is
\* disabled; or only the second one, ctrl_c, is not: then SIGTERM is already
\* caught, and nobody acts on it.
InstallHandler ==
  /\ process = "running"
  /\ at["shutdown"] = "install"
  /\ \E place \in {"wait", "pending", "deaf"} : Go("shutdown", place)
  /\ UNCHANGED <<process, round, inbox, current, search, envVars>>

TakeSignal ==
  /\ process = "running"
  /\ at["shutdown"] = "wait"
  /\ signalled
  /\ Go("shutdown", "fetch")
  /\ UNCHANGED <<process, round, inbox, current, search, envVars>>

\* The byebye takes longer than two seconds and is abandoned.
NoByebyeTimeout == FALSE                 \* mutant of ByebyeTimeout
ByebyeTimeout ==
  /\ process = "running"
  /\ at["shutdown"] \in {"fetch", "send"}
  /\ Go("shutdown", "exit")
  /\ UNCHANGED <<process, round, inbox, current, search, envVars>>

\* process::exit: the other tasks may have run between the byebye and this.
Exit ==
  /\ process = "running"
  /\ at["shutdown"] = "exit"
  /\ process' = "exited"
  /\ UNCHANGED <<at, round, inbox, current, search, envVars>>

-----------------------------------------------------------------------------
(* listen_task.                                                            *)

\* parse_ssdp walks the array of headers up to the first empty one; when there
\* is none, it indexes beyond the array.
Panics(packet) == packet = "full"

\* A packet that does not parse, or asks for something else.
EndLoop == process' = "exited" /\ UNCHANGED <<at, current>>   \* mutant of Ignore
Ignore  == UNCHANGED <<process, at, current>>

\* A datagram is taken out of the socket's buffer.
FlushInbox == inbox' = <<>>              \* mutants of TakePacket
KeepPacket == inbox' = Append(inbox, "other")
TakePacket == inbox' = Tail(inbox)

\* recv_from, parse_ssdp, and the decision whether to answer.
Receive ==
  /\ process = "running"
  /\ at["listen"] = "recv"
  /\ inbox # <<>>
  /\ TakePacket
  /\ LET packet == Head(inbox) IN
       \/ Panics(packet) /\ Go("listen", "panicked") /\ UNCHANGED <<process, current>>
       \/ packet = "other" /\ Ignore
       \/ packet \in Searchers /\ Go("listen", "fetch") /\ current' = packet /\ UNCHANGED process
  /\ UNCHANGED <<round, search, envVars>>

-----------------------------------------------------------------------------
(* The environment.                                                        *)

\* Datagrams are lost when the buffer is full, or on the way: those never come.
\* A control point asks again when it has an answer, or when it gave up.
PacketArrives ==
  /\ process = "running"
  /\ Len(inbox) < InboxSize
  /\ \E packet \in Packets :
       /\ inbox' = Append(inbox, packet)
       /\ packet \in Searchers => search[packet] # "waiting"
       /\ search' = [s \in Searchers |-> IF s = packet THEN "waiting" ELSE search[s]]
  /\ UNCHANGED <<taskVars, envVars>>

\* SIGINT or SIGTERM: fatal while nothing catches it, ignored where one of two
\* handlers is installed, and otherwise left to the shutdown handler.
Signal ==
  /\ process = "running"
  /\ signalled' = TRUE
  /\ \/ at["shutdown"] \in {"off", "install", "pending", "deaf"} /\ process' = "exited"
     \/ at["shutdown"] \notin {"off", "install", "pending"} /\ UNCHANGED process
  /\ UNCHANGED <<at, round, current, inbox, search, origin, lan>>

OriginChanges ==
  /\ process = "running"
  /\ origin' \in {"up", "down", "hung"} \ {origin}
  /\ UNCHANGED <<taskVars, inbox, search, lan, signalled>>

LanChanges ==
  /\ process = "running"
  /\ lan' = ~lan
  /\ UNCHANGED <<taskVars, inbox, search, origin, signalled>>

-----------------------------------------------------------------------------
TaskStep ==
  \/ \E t \in Tasks : Fetch(t) \/ Send(t)
  \/ SpawnTasks \/ MainReturns
  \/ SpawnShutdownHandler \/ Tick
  \/ InstallHandler \/ TakeSignal \/ ByebyeTimeout \/ Exit
  \/ Receive

Next == TaskStep \/ PacketArrives \/ Signal \/ OriginChanges \/ LanChanges

Spec == Init /\ [][Next]_vars

\* The runtime runs every task that can go on, and its timers fire.  A fetch
\* from an origin that is not hung ends; one that hung ends when the origin
\* answers again or its connections break.
Fairness ==
  /\ \A t \in Tasks : WF_vars(Fetch(t)) /\ WF_vars(Send(t))
  /\ WF_vars(SpawnTasks) /\ WF_vars(MainReturns)
  /\ WF_vars(SpawnShutdownHandler) /\ WF_vars(Tick)
  /\ WF_vars(InstallHandler) /\ WF_vars(TakeSignal)
  /\ WF_vars(ByebyeTimeout) /\ WF_vars(Exit)
  /\ WF_vars(Receive)

FairSpec == Spec /\ Fairness

-----------------------------------------------------------------------------
(* Properties.                                                             *)

\* Neither a failing origin, nor a failing network, nor a packet it cannot
\* parse ends the program: it stops because it was told to, or because the
\* listener panicked (listener.rs:33) and main_task awaits nothing else
\* (mod.rs:203).
EndsOnlyWhenAsked ==
  process = "exited" => signalled \/ at["listen"] = "panicked"

\* Once the shutdown handler is installed a signal ends the program, even while
\* the origin hangs and the network is down (broadcast.rs:85-110).
ShutdownEnds == (at["shutdown"] = "wait" /\ signalled) ~> (process = "exited")

\* CHANGELOG 0.4.1: when the origin comes back and stays, broadcasts go out
\* again, whatever failed or hung before (broadcast.rs:44-53).
BroadcastsResume ==
  <>[](process = "running" /\ origin = "up" /\ lan)
    => []<>(at["broadcast"] = "send") /\ <>[](round = "sent")

\* An origin that refuses connections does not keep the program from starting:
\* the initial byebye is attempted once (mod.rs:186-201).
StartupCompletes ==
  <>[](origin # "hung") => <>(at["main"] = "await" \/ process = "exited")

\* A search that reached the socket is dealt with, however many packets are
\* before it, once the origin answers again (listener.rs:46-91).
SearchesDealtWith ==
  <>[](origin = "up") =>
    \A s \in Searchers :
      (search[s] = "waiting")
        ~> (search[s] # "waiting" \/ at["listen"] = "panicked" \/ process = "exited")

\* config.toml.example:25 "if not set, dlna-proxy will exit if the server is
\* unavailable at startup", of the option wait: at first main_task is at the
\* initial byebye, which only the option skips.
ExitsIfUnavailable ==
  at["main"] = "fetch" /\ [](origin = "down") => <>(process = "exited")
=============================================================================
