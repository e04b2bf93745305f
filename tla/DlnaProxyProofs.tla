--------------------------- MODULE DlnaProxyProofs ---------------------------
(***************************************************************************)
(* Theorems about DlnaProxy, for every set of command lines and whatever   *)
(* happens between the steps of main: what is announced is served, and     *)
(* settings reach their user.  Both follow from what url, proxy and ssdp   *)
(* are at each step of main, which nothing else changes.  The types of the *)
(* composition follow from the proofs about Ssdp and from how the client's *)
(* connections, the queue and the permits have to do with each other.      *)
(***************************************************************************)
EXTENDS DlnaProxy, SequenceLemmas, FiniteSetTheorems

TaskProofs == INSTANCE SsdpProofs

Started == Accepted(line) /\ ~Refused(line)

\* The proxy of the settings, and the description URL that leads to it.
Redirection ==
  IF conf.proxy = <<>> THEN proxy = <<>> /\ url = conf.description_url
  ELSE /\ url = [conf.description_url EXCEPT !.host = Head(conf.proxy)]
       /\ \E server \in sockaddr_from_url(conf.description_url) :
            proxy = <<TCPProxy(conf.proxy_timeout, conf.stream_timeout,
                               server, Head(conf.proxy))>>

\* What main has made so far.
Wired ==
  /\ boot \in {"configure", "proxy", "sockets", "run"}
  /\ boot # "configure" => Started
  /\ boot \in {"configure", "proxy"} => proxy = <<>>
  /\ boot = "proxy" => url = conf.description_url /\ conf.proxy # <<>>
  /\ boot \in {"sockets", "run"} => Redirection
  /\ ssdp = IF boot = "run" THEN <<SSDPManager>> ELSE <<>>

\* Nothing is sent before the tasks run.
Quiet == boot # "run" => \A t \in Tasks!Tasks : at[t] # "send"

IInv == line \in Lines /\ Wired /\ Quiet

\* The tuple of options (config.rs:53-105) has every number in its place.
LEMMA FieldsInPlace ==
  ASSUME NEW source
  PROVE  /\ Fields(source)[2] = Given(source, "period")
         /\ Fields(source)[6] = Given(source, "connect_timeout")
         /\ Fields(source)[7] = Given(source, "proxy_timeout")
         /\ Fields(source)[8] = Given(source, "stream_timeout")
BY DEF Fields

\* An option that is not given has its default (config.rs:107-132).
LEMMA DefaultOrGiven ==
  ASSUME NEW source, NEW o, NEW default
  PROVE  OrElse(Given(source, o), default) = IF o \in DOMAIN source THEN source[o] ELSE default
BY DEF OrElse, Given

\* Each number of the settings is the given one, or the default
\* (config.rs:107-132).
LEMMA SettingsGiven ==
  ASSUME NEW l
  PROVE  LET Setting(o, default) ==
               IF o \in DOMAIN Source(l) THEN Source(l)[o] ELSE default
         IN /\ get_config(l).period = Setting("period", 895)
            /\ get_config(l).connect_timeout = Setting("connect_timeout", 2)
            /\ get_config(l).proxy_timeout = Setting("proxy_timeout", 10)
            /\ get_config(l).stream_timeout = Setting("stream_timeout", 300)
<1> DEFINE f == Fields(Source(l))
<1>1. /\ get_config(l).period = OrElse(f[2], 895)
      /\ get_config(l).connect_timeout = OrElse(f[6], 2)
      /\ get_config(l).proxy_timeout = OrElse(f[7], 10)
      /\ get_config(l).stream_timeout = OrElse(f[8], 300)
  BY DEF get_config
<1> QED BY <1>1, FieldsInPlace, DefaultOrGiven

\* A step of main (main.rs:66-108) makes what the next one relies on.
LEMMA BootStep ==
  ASSUME IInv, Boot
  PROVE  IInv'
<1> USE DEF IInv
<1>1. line' = line /\ conf' = conf /\ Started' = Started
  BY DEF Boot, Configure, StartProxy, ssdp_sockets, Fail, Continue, mainVars, conf, Started
<1>2. boot # "run" /\ at' = at
  BY DEF Boot, Configure, StartProxy, ssdp_sockets, Booting, Fail, Continue, mainVars, taskVars
<1>3. Quiet'
  BY <1>2 DEF Quiet
<1>4. CASE Fail
  <2>1. UNCHANGED <<line, boot, url, proxy, ssdp>>
    BY <1>4 DEF Fail, mainVars
  <2> QED BY <1>1, <1>3, <2>1 DEF Wired, Redirection, SSDPManager
<1>5. CASE Configure /\ ~Fail
  <2>1. /\ boot = "configure" /\ Started /\ url' = conf.description_url
        /\ boot' = IF conf.proxy = <<>> THEN "sockets" ELSE "proxy"
        /\ UNCHANGED <<proxy, ssdp>>
    BY <1>5 DEF Configure, Booting, Started, Continue
  <2> QED BY <1>1, <1>3, <2>1, Zenon DEF Wired, Redirection
<1>6. CASE StartProxy /\ ~Fail
  <2>1. /\ boot = "proxy" /\ boot' = "sockets" /\ UNCHANGED ssdp
        /\ url' = [url EXCEPT !.host = Head(conf.proxy)]
        /\ \E server \in sockaddr_from_url(url) :
             proxy' = <<TCPProxy(conf.proxy_timeout, conf.stream_timeout,
                                 server, Head(conf.proxy))>>
    BY <1>6 DEF StartProxy, Booting, Continue, Redirected
  <2> QED BY <1>1, <1>3, <2>1, Zenon DEF Wired, Redirection
<1>7. CASE ssdp_sockets /\ ~Fail
  <2>1. /\ boot = "sockets" /\ boot' = "run" /\ ssdp' = <<SSDPManager>>
        /\ UNCHANGED <<url, proxy>>
    BY <1>7 DEF ssdp_sockets, Booting, Continue
  <2> QED BY <1>1, <1>3, <2>1, Zenon DEF Wired, Redirection, SSDPManager
<1> QED BY <1>4, <1>5, <1>6, <1>7 DEF Boot

\* Once main has made them, nobody changes the URL, the proxy and the sockets;
\* and the tasks take no step before (main.rs:110).
LEMMA OtherSteps ==
  ASSUME [TaskStep \/ ConnStep \/ Raise \/ World]_vars
  PROVE  UNCHANGED <<line, boot, url, proxy, ssdp>> /\ (boot = "run" \/ at' = at)
<1>1. CASE UNCHANGED vars
  BY <1>1 DEF vars, mainVars, taskVars
<1>2. CASE TaskStep
  <2>1. ASSUME NEW t \in Tasks!Tasks, Request(t) \/ Fetch(t)
        PROVE  UNCHANGED mainVars /\ Running
    BY <2>1 DEF Request, Fetch, FetchDirectly, FetchThroughProxy
  <2>2. UNCHANGED mainVars /\ Running
    BY <1>2, <2>1 DEF TaskStep, Task, EndsWell
  <2> QED BY <2>2 DEF mainVars, Running
<1>3. CASE ConnStep
  <2>1. UNCHANGED <<mainVars, taskVars>>
    BY <1>3 DEF ConnStep, Admit, Expire, StreamArrives, StreamLeaves
  <2> QED BY <2>1 DEF mainVars, taskVars
<1>4. CASE Raise
  BY <1>4 DEF Raise, Tasks!Signal, mainVars
<1>5. CASE World
  BY <1>5 DEF World, Tasks!OriginChanges, Tasks!LanChanges, Tasks!PacketArrives,
              Tasks!taskVars, mainVars
<1> QED BY <1>1, <1>2, <1>3, <1>4, <1>5

\* What main has made is at every moment what its settings say.
LEMMA InductiveInvariant == Spec => []IInv
<1>1. Init => IInv
  <2> SUFFICES ASSUME Init PROVE IInv
    OBVIOUS
  <2>1. Wired
    BY DEF Init, Wired
  <2>2. Quiet
    BY DEF Init, Quiet, Tasks!Init, Tasks!Tasks
  <2> QED BY <2>1, <2>2 DEF Init, IInv
<1>2. IInv /\ [Next]_vars => IInv'
  <2> SUFFICES ASSUME IInv, [Next]_vars PROVE IInv'
    OBVIOUS
  <2>1. CASE Boot
    BY <2>1, BootStep
  <2>2. CASE [TaskStep \/ ConnStep \/ Raise \/ World]_vars
    <3>1. UNCHANGED <<line, boot, url, proxy, ssdp>> /\ (boot = "run" \/ at' = at)
      BY <2>2, OtherSteps
    <3>2. Wired'
      BY <3>1 DEF IInv, Wired, Redirection, Started, SSDPManager, conf
    <3>3. Quiet'
      BY <3>1 DEF IInv, Quiet
    <3> QED BY <3>1, <3>2, <3>3 DEF IInv
  <2> QED BY <2>1, <2>2 DEF Next
<1> QED BY <1>1, <1>2, PTL DEF Spec

\* For every command line: what is announced is the address at which the proxy
\* listens, with the configured path, and leads to the origin; or the origin's
\* own (main.rs:76-96, utils.rs:93-119).
THEOREM AnnouncementsAreServed == Spec => []AnnouncedIsServed
<1>1. IInv => AnnouncedIsServed
  <2> SUFFICES ASSUME IInv, NEW t \in Tasks!Tasks, at[t] = "send",
                      NEW location \in Location(SSDPPacket(t))
               PROVE  /\ Served(location)
                      /\ conf.proxy # <<>> =>
                           /\ proxy # <<>>
                           /\ Head(proxy).from = location.host
                           /\ Head(proxy).to \in
                                sockaddr_from_url(conf.description_url) \ {location.host}
    BY DEF AnnouncedIsServed
  <2>1. boot = "run" /\ Started /\ Redirection /\ ssdp = <<SSDPManager>>
    BY DEF IInv, Wired, Quiet
  <2>2. location = url
    BY <2>1 DEF Location, SSDPManager
  <2>3. CASE conf.proxy = <<>>
    BY <2>1, <2>2, <2>3 DEF Redirection, Served
  <2>4. CASE conf.proxy # <<>>
    <3>1. PICK server \in sockaddr_from_url(conf.description_url) :
            proxy = <<TCPProxy(conf.proxy_timeout, conf.stream_timeout,
                               server, Head(conf.proxy))>>
      BY <2>1, <2>4 DEF Redirection
    <3>2. url = [conf.description_url EXCEPT !.host = Head(conf.proxy)]
      BY <2>1, <2>4 DEF Redirection
    <3>3. /\ "host" \in DOMAIN conf.description_url
          /\ Head(conf.proxy) \notin sockaddr_from_url(conf.description_url)
      BY <2>1, <2>4, LinesAssumption DEF IInv, Started, conf
    <3>4. url.host = Head(conf.proxy)
      BY <3>2, <3>3
    <3>5. Head(proxy).from = Head(conf.proxy) /\ Head(proxy).to = server
      BY <3>1 DEF TCPProxy
    <3> QED BY <2>2, <2>4, <3>1, <3>2, <3>3, <3>4, <3>5 DEF Served
  <2> QED BY <2>3, <2>4
<1> QED BY <1>1, InductiveInvariant, PTL

\* For every command line and file: every number reaches the component it is
\* meant for, or its default does (config.rs:53-132, main.rs:84-107).
THEOREM SettingsArrive == Spec => []SettingsReachTheirUser
<1>1. IInv => SettingsReachTheirUser
  <2> SUFFICES ASSUME IInv PROVE SettingsReachTheirUser
    OBVIOUS
  <2>1. ssdp # <<>> => /\ Head(ssdp).connect_timeout = conf.connect_timeout
                       /\ Head(ssdp).broadcast_period = conf.period
    BY DEF IInv, Wired, SSDPManager
  <2>2. proxy # <<>> => /\ Head(proxy).connect_timeout = conf.proxy_timeout
                        /\ Head(proxy).stream_timeout = conf.stream_timeout
    BY DEF IInv, Wired, Redirection, TCPProxy
  <2> QED BY <2>1, <2>2, SettingsGiven DEF SettingsReachTheirUser, conf
<1> QED BY <1>1, InductiveInvariant, PTL

-----------------------------------------------------------------------------
(* The types of the whole program.                                         *)

\* The tasks of Ssdp, of which SsdpProofs speaks, are those of the program.
LEMMA SameTasks ==
  /\ Tasks!TaskStep <=> TaskProofs!TaskStep
  /\ Tasks!Signal <=> TaskProofs!Signal
  /\ Tasks!PacketArrives <=> TaskProofs!PacketArrives
  /\ Tasks!OriginChanges <=> TaskProofs!OriginChanges
  /\ Tasks!LanChanges <=> TaskProofs!LanChanges
  /\ Tasks!Init <=> TaskProofs!Init
  /\ Tasks!TypeOK <=> TaskProofs!TypeOK
<1> USE DEF Tasks!Tasks, TaskProofs!Tasks, Tasks!Packets, TaskProofs!Packets,
            Tasks!envVars, TaskProofs!envVars, Tasks!taskVars, TaskProofs!taskVars,
            Tasks!Go, TaskProofs!Go
<1>1. Tasks!TaskStep <=> TaskProofs!TaskStep
  BY Zenon
  DEF Tasks!TaskStep, TaskProofs!TaskStep, Tasks!Fetch, TaskProofs!Fetch,
      Tasks!Send, TaskProofs!Send, Tasks!Finish, TaskProofs!Finish,
      Tasks!AfterByebye, TaskProofs!AfterByebye, Tasks!SpawnTasks, TaskProofs!SpawnTasks,
      Tasks!MainReturns, TaskProofs!MainReturns,
      Tasks!SpawnShutdownHandler, TaskProofs!SpawnShutdownHandler,
      Tasks!Tick, TaskProofs!Tick, Tasks!NextRound, TaskProofs!NextRound,
      Tasks!InstallHandler, TaskProofs!InstallHandler, Tasks!TakeSignal, TaskProofs!TakeSignal,
      Tasks!ByebyeTimeout, TaskProofs!ByebyeTimeout, Tasks!Exit, TaskProofs!Exit,
      Tasks!Receive, TaskProofs!Receive, Tasks!TakePacket, TaskProofs!TakePacket,
      Tasks!Panics, TaskProofs!Panics, Tasks!Ignore, TaskProofs!Ignore
<1>2. Tasks!Signal <=> TaskProofs!Signal
  BY Zenon DEF Tasks!Signal, TaskProofs!Signal
<1>3. Tasks!PacketArrives <=> TaskProofs!PacketArrives
  BY Zenon DEF Tasks!PacketArrives, TaskProofs!PacketArrives
<1>4. /\ Tasks!OriginChanges <=> TaskProofs!OriginChanges
      /\ Tasks!LanChanges <=> TaskProofs!LanChanges
  BY Zenon DEF Tasks!OriginChanges, TaskProofs!OriginChanges,
               Tasks!LanChanges, TaskProofs!LanChanges
<1>5. Tasks!Init <=> TaskProofs!Init
  BY Zenon DEF Tasks!Init, TaskProofs!Init
<1>6. Tasks!TypeOK <=> TaskProofs!TypeOK
  BY Zenon DEF Tasks!TypeOK, TaskProofs!TypeOK
<1> QED BY <1>1, <1>2, <1>3, <1>4, <1>5, <1>6

\* The assumptions of Ssdp are met.
LEMMA TasksAssumptions ==
  TaskProofs!InboxAssumption /\ TaskProofs!OtherKindsAssumption /\ TaskProofs!SearchersAssumption
BY TasksAssumption
DEF TaskProofs!InboxAssumption, TaskProofs!OtherKindsAssumption, TaskProofs!SearchersAssumption

\* How the process ended is known from when it ended (main.rs:42-113).
EndKnown ==
  /\ status \in {"none", "success", "failure", "signal"}
  /\ status = "none" <=> process = "running"

\* The tasks are as Ssdp has them.  What it does not have is that main fails
\* before it runs them, and the process ends with nobody having asked for it.
TasksInOrder ==
  /\ TaskProofs!TypeOK /\ TaskProofs!Caught
  /\ status # "failure" => TaskProofs!EndsOnlyWhenAsked

\* What a step is for the tasks: main fails, or nothing, or a step of Ssdp, of
\* which those that end the process say how.
LEMMA TasksAdvance ==
  ASSUME [Next]_vars
  PROVE  \/ process = "running" /\ Fail
         \/ UNCHANGED <<status, taskVars>>
         \/ /\ TaskProofs!Next
            /\ process = "running"
            /\ \/ UNCHANGED <<status, process>>
               \/ process' = "exited" /\ status' \in {"success", "signal"}
<1>1. CASE Boot
  BY <1>1 DEF Boot, Configure, StartProxy, ssdp_sockets, Booting, Continue
<1>2. CASE UNCHANGED vars
  BY <1>2 DEF vars
<1>3. CASE ConnStep
  BY <1>3 DEF ConnStep, Admit, Expire, StreamArrives, StreamLeaves
<1>4. CASE TaskStep
  <2>1. CASE \E t \in Tasks!Tasks : Request(t)
    BY <2>1 DEF Request
  <2>2. CASE \E t \in Tasks!Tasks : Fetch(t)
    <3>1. PICK t \in Tasks!Tasks : Tasks!Fetch(t) /\ UNCHANGED status
      BY <2>2 DEF Fetch, FetchDirectly, FetchThroughProxy
    <3>2. process = "running" /\ UNCHANGED process
      BY <3>1, Zenon DEF Tasks!Fetch
    <3>3. TaskProofs!Next
      BY <3>1, SameTasks, Zenon DEF Tasks!TaskStep, TaskProofs!Next
    <3> QED BY <3>1, <3>2, <3>3
  <2>3. CASE \E t \in Tasks!Tasks : Task(Tasks!Send(t))
    <3>1. PICK t \in Tasks!Tasks : Tasks!Send(t) /\ UNCHANGED status
      BY <2>3 DEF Task
    <3>2. process = "running" /\ UNCHANGED process
      BY <3>1 DEF Tasks!Send
    <3>3. TaskProofs!Next
      BY <3>1, SameTasks, Zenon DEF Tasks!TaskStep, TaskProofs!Next
    <3> QED BY <3>1, <3>2, <3>3
  <2>4. CASE \/ Task(Tasks!SpawnTasks) \/ Task(Tasks!SpawnShutdownHandler) \/ Task(Tasks!Tick)
             \/ Task(Tasks!InstallHandler) \/ Task(Tasks!TakeSignal)
             \/ Task(Tasks!ByebyeTimeout) \/ Task(Tasks!Receive)
    <3>1. /\ UNCHANGED status
          /\ \/ Tasks!SpawnTasks \/ Tasks!SpawnShutdownHandler \/ Tasks!Tick
             \/ Tasks!InstallHandler \/ Tasks!TakeSignal \/ Tasks!ByebyeTimeout
             \/ Tasks!Receive
      BY <2>4, Zenon DEF Task
    <3>2. process = "running" /\ UNCHANGED process
      BY <3>1 DEF Tasks!SpawnTasks, Tasks!SpawnShutdownHandler, Tasks!Tick,
                  Tasks!InstallHandler, Tasks!TakeSignal, Tasks!ByebyeTimeout,
                  Tasks!Receive, Tasks!Ignore
    <3>3. TaskProofs!Next
      BY <3>1, SameTasks, Zenon DEF Tasks!TaskStep, TaskProofs!Next
    <3> QED BY <3>1, <3>2, <3>3
  <2>5. CASE EndsWell(Tasks!Exit) \/ EndsWell(Tasks!MainReturns)
    <3>1. status' = "success" /\ (Tasks!Exit \/ Tasks!MainReturns)
      BY <2>5, Zenon DEF EndsWell
    <3>2. process = "running" /\ process' = "exited"
      BY <3>1 DEF Tasks!Exit, Tasks!MainReturns
    <3>3. TaskProofs!Next
      BY <3>1, SameTasks, Zenon DEF Tasks!TaskStep, TaskProofs!Next
    <3> QED BY <3>1, <3>2, <3>3
  <2> QED BY <1>4, <2>1, <2>2, <2>3, <2>4, <2>5, Zenon DEF TaskStep
<1>5. CASE Raise
  <2>1. process = "running" /\ (process' = "exited" \/ UNCHANGED process)
    BY <1>5 DEF Raise, Tasks!Signal
  <2>2. status' = IF process' = "exited" THEN "signal" ELSE status
    BY <1>5 DEF Raise
  <2>3. TaskProofs!Next
    BY <1>5, SameTasks, Zenon DEF Raise, TaskProofs!Next
  <2> QED BY <2>1, <2>2, <2>3
<1>6. CASE World
  <2>1. UNCHANGED status
    BY <1>6 DEF World
  <2>2. process = "running" /\ UNCHANGED process
    BY <1>6 DEF World, Tasks!OriginChanges, Tasks!LanChanges, Tasks!PacketArrives, Tasks!taskVars
  <2>3. TaskProofs!Next
    BY <1>6, SameTasks, Zenon DEF World, TaskProofs!Next
  <2> QED BY <2>1, <2>2, <2>3
<1> QED BY <1>1, <1>2, <1>3, <1>4, <1>5, <1>6 DEF Next

\* After main has failed nothing more happens to the tasks.
LEMMA TasksKeep ==
  ASSUME TasksInOrder, EndKnown, [Next]_vars
  PROVE  TasksInOrder' /\ EndKnown'
<1>1. CASE process = "running" /\ Fail
  <2>1. /\ process' = "exited" /\ status' = "failure"
        /\ UNCHANGED <<at, round, inbox, current, search, origin, lan, signalled>>
    BY <1>1 DEF Fail
  <2>2. TaskProofs!TypeOK' /\ TaskProofs!Caught'
    BY <2>1 DEF TasksInOrder, TaskProofs!TypeOK, TaskProofs!Caught,
                TaskProofs!Packets, TaskProofs!Tasks
  <2> QED BY <2>1, <2>2 DEF TasksInOrder, EndKnown
<1>2. CASE UNCHANGED <<status, taskVars>>
  <2>1. UNCHANGED <<process, at, round, inbox, current, search, origin, lan, signalled>>
    BY <1>2 DEF taskVars
  <2>2. /\ TaskProofs!TypeOK' = TaskProofs!TypeOK /\ TaskProofs!Caught' = TaskProofs!Caught
        /\ TaskProofs!EndsOnlyWhenAsked' = TaskProofs!EndsOnlyWhenAsked
    BY <2>1, Zenon DEF TaskProofs!TypeOK, TaskProofs!Caught, TaskProofs!EndsOnlyWhenAsked,
                       TaskProofs!Packets, TaskProofs!Tasks
  <2> QED BY <1>2, <2>1, <2>2, Zenon DEF TasksInOrder, EndKnown
<1>3. CASE /\ TaskProofs!Next
           /\ process = "running"
           /\ \/ UNCHANGED <<status, process>>
              \/ process' = "exited" /\ status' \in {"success", "signal"}
  <2>1. TaskProofs!IInv
    BY <1>3, Zenon DEF TasksInOrder, EndKnown, TaskProofs!IInv, TaskProofs!EndsOnlyWhenAsked
  <2>2. TaskProofs!IInv'
    BY <1>3, <2>1, TasksAssumptions, TaskProofs!NextInvariant, Zenon
  <2>3. TasksInOrder'
    BY <2>2, Zenon DEF TasksInOrder, TaskProofs!IInv
  <2>4. EndKnown'
    BY <1>3 DEF EndKnown
  <2> QED BY <2>3, <2>4
<1> QED BY <1>1, <1>2, <1>3, TasksAdvance

\* The connections of the HTTP client and of players (Admission), and which of
\* the client's are in use: each by one task, idle ones by none, and what is in
\* use is at the proxy.
ConnsInOrder ==
  /\ via \in [Tasks!Tasks -> Own \cup {NoConn}]
  /\ \A t, u \in Tasks!Tasks : via[t] = via[u] => t = u \/ via[t] = NoConn
  /\ \A t \in Tasks!Tasks : via[t] # NoConn => via[t] \in active \cup Conns!Waiting
  /\ idle \subseteq active \cap Own /\ \A t \in Tasks!Tasks : via[t] \notin idle
  /\ queue \in Seq(Own \cup Streams)
  /\ active \subseteq Own \cup Streams
  /\ IsFiniteSet(active) /\ Cardinality(active) <= Limit

\* A connection arrives at the end of the queue.
LEMMA ArriveKeeps ==
  ASSUME queue \in Seq(Own \cup Streams), NEW c \in Own \cup Streams, Conns!Arrive(c)
  PROVE  /\ queue' \in Seq(Own \cup Streams) /\ active' = active
         /\ c \in Conns!Waiting' /\ Conns!Waiting \subseteq Conns!Waiting'
<1>1. queue' = Append(queue, c) /\ active' = active
  BY DEF Conns!Arrive
<1>2. /\ DOMAIN queue = 1..Len(queue) /\ Len(queue) \in Nat
      /\ queue' \in Seq(Own \cup Streams) /\ DOMAIN queue' = 1..(Len(queue) + 1)
      /\ \A i \in 1..Len(queue) : queue'[i] = queue[i]
      /\ queue'[Len(queue) + 1] = c
  BY <1>1, LenProperties, AppendProperties
<1>3. \A i \in DOMAIN queue : i \in DOMAIN queue' /\ queue'[i] = queue[i]
  BY <1>2
<1>4. Len(queue) + 1 \in DOMAIN queue'
  BY <1>2
<1> QED BY <1>1, <1>2, <1>3, <1>4 DEF Conns!Waiting

\* The head of the queue is admitted when there is room, and the others wait.
LEMMA AdmitKeeps ==
  ASSUME queue \in Seq(Own \cup Streams), active \subseteq Own \cup Streams,
         IsFiniteSet(active), Conns!Admit
  PROVE  /\ queue' \in Seq(Own \cup Streams) /\ active \subseteq active'
         /\ active' \subseteq Own \cup Streams
         /\ IsFiniteSet(active') /\ Cardinality(active') <= Limit
         /\ active \cup Conns!Waiting \subseteq active' \cup Conns!Waiting'
<1>1. /\ queue # <<>> /\ Cardinality(active) < Limit
      /\ active' = active \cup {Head(queue)} /\ queue' = Tail(queue)
  <2>1. Conns!Cardinality(active) = Cardinality(active)
    BY Zenon DEF Conns!Cardinality, Cardinality
  <2> QED BY <2>1, Zenon DEF Conns!Admit
<1>2. /\ DOMAIN queue = 1..Len(queue) /\ Len(queue) \in Nat
      /\ Head(queue) \in Own \cup Streams /\ Head(queue) = queue[1]
      /\ queue' \in Seq(Own \cup Streams) /\ DOMAIN queue' = 1..(Len(queue) - 1)
      /\ \A i \in 1..(Len(queue) - 1) : queue'[i] = queue[i + 1]
  BY <1>1, LenProperties, HeadTailProperties
<1>3. IsFiniteSet(active') /\ Cardinality(active') <= Limit
  <2>1. Cardinality(active) \in Nat
    BY FS_CardinalityType
  <2>2. /\ IsFiniteSet(active')
        /\ Cardinality(active') \in {Cardinality(active), Cardinality(active) + 1}
    BY <1>1, FS_AddElement, Zenon
  <2> QED BY <1>1, <2>1, <2>2, LimitAssumption
<1>4. ASSUME NEW i \in DOMAIN queue
      PROVE  queue[i] = Head(queue) \/ queue[i] \in Conns!Waiting'
  <2>1. CASE i = 1
    BY <1>2, <2>1
  <2>2. CASE i # 1
    <3>1. i - 1 \in DOMAIN queue' /\ queue'[i - 1] = queue[i]
      BY <1>2, <2>2
    <3> QED BY <3>1 DEF Conns!Waiting
  <2> QED BY <2>1, <2>2
<1>5. active \cup Conns!Waiting \subseteq active' \cup Conns!Waiting'
  BY <1>1, <1>4, Zenon DEF Conns!Waiting
<1> QED BY <1>1, <1>2, <1>3, <1>5

\* A connection leaves, and nobody else does.
LEMMA LeaveKeeps ==
  ASSUME active \subseteq Own \cup Streams, IsFiniteSet(active), Cardinality(active) <= Limit,
         NEW c, Conns!Leave(c)
  PROVE  /\ active' = active \ {c} /\ queue' = queue
         /\ IsFiniteSet(active') /\ Cardinality(active') <= Limit
<1>1. c \in active /\ active' = active \ {c} /\ queue' = queue
  BY DEF Conns!Leave
<1>2. IsFiniteSet(active \ {c}) /\ Cardinality(active \ {c}) <= Cardinality(active)
  <2>1. active \ {c} \subseteq active
    OBVIOUS
  <2> QED BY <2>1, FS_Subset
<1>3. Cardinality(active \ {c}) \in Nat /\ Cardinality(active) \in Nat
  BY <1>2, FS_CardinalityType
<1> QED BY <1>1, <1>2, <1>3, LimitAssumption

\* A new connection is one that nobody uses yet.
LEMMA NewIsUnused ==
  ASSUME Unused # {}
  PROVE  (CHOOSE c \in Unused : \A d \in Unused : c <= d) \in Unused
<1>1. Unused \in SUBSET Nat
  BY OwnAssumption, Zenon DEF Unused
<1> QED BY <1>1, LeastNatural, Zenon

\* A request takes an idle connection, which nobody else uses, or a new one,
\* which nobody has used (utils.rs:47-60).
LEMMA RequestKeeps ==
  ASSUME ConnsInOrder, NEW t \in Tasks!Tasks, Request(t)
  PROVE  ConnsInOrder'
<1> USE DEF ConnsInOrder
<1>1. CASE \E c \in idle : via' = [via EXCEPT ![t] = c] /\ Reuse(c) /\ UNCHANGED <<queue, active>>
  <2>1. PICK c \in idle : via' = [via EXCEPT ![t] = c] /\ idle' = idle \ {c}
    BY <1>1, Zenon DEF Reuse
  <2>2. queue' = queue /\ active' = active /\ Conns!Waiting' = Conns!Waiting
    BY <1>1 DEF Conns!Waiting
  <2>3. c \in Own /\ c \in active /\ \A u \in Tasks!Tasks : via[u] # c
    BY <2>1
  <2>4. \A u \in Tasks!Tasks : via'[u] = IF u = t THEN c ELSE via[u]
    BY <2>1
  <2> QED BY <2>1, <2>2, <2>3, <2>4
<1>2. CASE \E new \in Unused : Conns!Arrive(new) /\ via' = [via EXCEPT ![t] = new] /\ UNCHANGED idle
  <2>1. PICK new \in Unused : Conns!Arrive(new) /\ via' = [via EXCEPT ![t] = new] /\ idle' = idle
    BY <1>2, Zenon
  <2>2. new \in Own /\ new \notin active \cup Conns!Waiting /\ new # NoConn
    BY <2>1, OwnAssumption DEF Unused
  <2>3. \A u \in Tasks!Tasks : via[u] # new
    BY <2>2
  <2>4. /\ queue' \in Seq(Own \cup Streams) /\ active' = active
        /\ new \in Conns!Waiting' /\ Conns!Waiting \subseteq Conns!Waiting'
    BY <2>1, <2>2, ArriveKeeps
  <2>5. \A u \in Tasks!Tasks : via'[u] = IF u = t THEN new ELSE via[u]
    BY <2>1
  <2> QED BY <2>1, <2>2, <2>3, <2>4, <2>5
<1> QED BY <1>1, <1>2, NewIsUnused, Zenon DEF Request

\* After a fetch the connection is kept for later requests, or closed.
LEMMA FetchKeeps ==
  ASSUME ConnsInOrder, NEW t \in Tasks!Tasks, FetchThroughProxy(t)
  PROVE  ConnsInOrder'
<1> USE DEF ConnsInOrder
<1>1. via[t] \in active /\ via' = [via EXCEPT ![t] = NoConn] /\ Release(via[t])
  BY DEF FetchThroughProxy
<1>2. \A u \in Tasks!Tasks : via'[u] = IF u = t THEN NoConn ELSE via[u]
  BY <1>1
<1>3. NoConn \notin Own /\ via[t] # NoConn
  BY <1>1, OwnAssumption, Zenon
<1>4. CASE idle' = idle \cup {via[t]} /\ UNCHANGED <<queue, active>>
  <2>1. queue' = queue /\ active' = active /\ Conns!Waiting' = Conns!Waiting
    BY <1>4 DEF Conns!Waiting
  <2>2. via[t] \in Own
    BY <1>3
  <2> QED BY <1>1, <1>2, <1>3, <1>4, <2>1, <2>2
<1>5. CASE Conns!Leave(via[t]) /\ UNCHANGED idle
  <2>1. /\ active' = active \ {via[t]} /\ queue' = queue
        /\ IsFiniteSet(active') /\ Cardinality(active') <= Limit
    BY <1>5, LeaveKeeps
  <2>2. Conns!Waiting' = Conns!Waiting
    BY <2>1 DEF Conns!Waiting
  <2>3. idle' = idle /\ via[t] \notin idle
    BY <1>5
  <2> QED BY <1>1, <1>2, <1>3, <2>1, <2>2, <2>3
<1> QED BY <1>1, <1>4, <1>5 DEF Release

\* What happens at the proxy beside the tasks: a connection is admitted, an idle
\* one is closed, and players come and go.
LEMMA ConnStepKeeps ==
  ASSUME ConnsInOrder, ConnStep
  PROVE  ConnsInOrder'
<1> USE DEF ConnsInOrder
<1>1. via' = via
  BY DEF ConnStep, Admit, Expire, StreamArrives, StreamLeaves
<1>2. CASE Admit
  <2>1. Conns!Admit /\ idle' = idle
    BY <1>2 DEF Admit
  <2>2. /\ queue' \in Seq(Own \cup Streams) /\ active \subseteq active'
        /\ active' \subseteq Own \cup Streams
        /\ IsFiniteSet(active') /\ Cardinality(active') <= Limit
        /\ active \cup Conns!Waiting \subseteq active' \cup Conns!Waiting'
    BY <2>1, AdmitKeeps
  <2> QED BY <1>1, <2>1, <2>2
<1>3. CASE \E c \in Own : Expire(c)
  <2>1. PICK c \in idle : Conns!Leave(c) /\ idle' = idle \ {c}
    BY <1>3 DEF Expire
  <2>2. /\ active' = active \ {c} /\ queue' = queue
        /\ IsFiniteSet(active') /\ Cardinality(active') <= Limit
    BY <2>1, LeaveKeeps
  <2>3. Conns!Waiting' = Conns!Waiting /\ \A t \in Tasks!Tasks : via[t] # c
    BY <2>1, <2>2 DEF Conns!Waiting
  <2> QED BY <1>1, <2>1, <2>2, <2>3
<1>4. CASE \E s \in Streams : StreamArrives(s)
  <2>1. PICK s \in Streams : Conns!Arrive(s) /\ idle' = idle
    BY <1>4 DEF StreamArrives
  <2>2. /\ queue' \in Seq(Own \cup Streams) /\ active' = active
        /\ Conns!Waiting \subseteq Conns!Waiting'
    BY <2>1, ArriveKeeps
  <2> QED BY <1>1, <2>1, <2>2
<1>5. CASE \E s \in Streams : StreamLeaves(s)
  <2>1. PICK s \in Streams : Conns!Leave(s) /\ idle' = idle
    BY <1>5 DEF StreamLeaves
  <2>2. /\ active' = active \ {s} /\ queue' = queue
        /\ IsFiniteSet(active') /\ Cardinality(active') <= Limit
    BY <2>1, LeaveKeeps
  <2>3. Conns!Waiting' = Conns!Waiting /\ s \notin Own \cup {NoConn}
    BY <2>2, OwnAssumption DEF Conns!Waiting
  <2>4. \A t \in Tasks!Tasks : via[t] # s
    BY <2>3
  <2> QED BY <1>1, <2>1, <2>2, <2>3, <2>4
<1> QED BY <1>2, <1>3, <1>4, <1>5 DEF ConnStep

\* Nothing else touches a connection.
LEMMA ConnsTouched ==
  ASSUME [Next]_vars
  PROVE  \/ ConnStep
         \/ \E t \in Tasks!Tasks : Request(t) \/ FetchThroughProxy(t)
         \/ UNCHANGED proxyVars
<1>1. CASE Boot \/ Raise \/ World \/ UNCHANGED vars
  BY <1>1 DEF Boot, Configure, StartProxy, ssdp_sockets, Fail, Continue, Raise, World, vars
<1>2. CASE TaskStep
  BY <1>2, Zenon DEF TaskStep, Fetch, FetchDirectly, Task, EndsWell
<1> QED BY <1>1, <1>2 DEF Next

\* Every step keeps the connections in order.
LEMMA ConnsKeep ==
  ASSUME ConnsInOrder, [Next]_vars
  PROVE  ConnsInOrder'
<1>1. CASE UNCHANGED proxyVars
  <2>1. via' = via /\ idle' = idle /\ queue' = queue /\ active' = active
    BY <1>1 DEF proxyVars
  <2> QED BY <2>1, Zenon DEF ConnsInOrder, Conns!Waiting, Tasks!Tasks
<1> QED BY <1>1, ConnsTouched, ConnStepKeeps, RequestKeeps, FetchKeeps, Zenon

\* The first state: no task runs and nobody is connected.
LEMMA TypesAtFirst ==
  ASSUME Init
  PROVE  TasksInOrder /\ EndKnown /\ ConnsInOrder
<1>1. TaskProofs!IInv
  BY SameTasks, TasksAssumptions, TaskProofs!InitInvariant, Zenon DEF Init
<1>2. TasksInOrder
  BY <1>1, Zenon DEF TasksInOrder, TaskProofs!IInv
<1>3. EndKnown
  BY DEF Init, EndKnown, Tasks!Init
<1>4. queue = <<>> /\ active = {} /\ idle = {} /\ via = [t \in Tasks!Tasks |-> NoConn]
  BY DEF Init, Conns!Init
<1>5. IsFiniteSet(active) /\ Cardinality(active) <= Limit
  BY <1>4, FS_EmptySet, LimitAssumption
<1>6. ConnsInOrder
  BY <1>4, <1>5 DEF ConnsInOrder
<1> QED BY <1>2, <1>3, <1>6

\* The whole invariant, of which TypeOK is a part.
LEMMA TypeInvariant == Spec => [](IInv /\ TasksInOrder /\ EndKnown /\ ConnsInOrder)
<1>1. Spec => [](TasksInOrder /\ EndKnown /\ ConnsInOrder)
  BY TypesAtFirst, TasksKeep, ConnsKeep, PTL DEF Spec
<1> QED BY <1>1, InductiveInvariant, PTL

\* Every variable of the whole program keeps its type: a connection of the HTTP
\* client serves one request at a time, idle ones are at the proxy, no more are
\* there than it has permits, and the status is that of an ended process.
THEOREM TypeCorrect == Spec => []TypeOK
<1>1. IInv /\ TasksInOrder /\ EndKnown /\ ConnsInOrder => TypeOK
  <2> SUFFICES ASSUME IInv, TasksInOrder, EndKnown, ConnsInOrder
               PROVE  TypeOK
    OBVIOUS
  <2>1. Tasks!TypeOK
    BY SameTasks, Zenon DEF TasksInOrder
  <2>2. Len(proxy) <= 1 /\ Len(ssdp) <= 1
    <3>1. /\ proxy = <<>> \/ \E p : proxy = <<p>>
          /\ ssdp = <<>> \/ \E m : ssdp = <<m>>
      BY Zenon DEF IInv, Wired, Redirection
    <3>2. Len(<<>>) <= 1 /\ \A e : Len(<<e>>) <= 1
      OBVIOUS
    <3> QED BY <3>1, <3>2, Zenon
  <2>3. line \in Lines /\ boot \in {"configure", "proxy", "sockets", "run"}
    BY DEF IInv, Wired
  <2>4. /\ status \in {"none", "success", "failure", "signal"}
        /\ (status = "none") = (process = "running")
    BY Zenon DEF EndKnown
  <2> QED BY <2>1, <2>2, <2>3, <2>4 DEF TypeOK, ConnsInOrder
<1> QED BY <1>1, TypeInvariant, PTL

\* However main and its tasks get on, a process that has ended was asked to by a
\* signal, lost its listener to a panic, or failed before it ran its tasks, and
\* then its status says so (main.rs:66-113, mod.rs:203, broadcast.rs:110).
THEOREM EndsForAReason ==
  Spec => [](process = "exited" =>
               signalled \/ at["listen"] = "panicked" \/ status = "failure")
<1>1. TasksInOrder =>
        (process = "exited" => signalled \/ at["listen"] = "panicked" \/ status = "failure")
  BY Zenon DEF TasksInOrder, TaskProofs!EndsOnlyWhenAsked
<1> QED BY <1>1, TypeInvariant, PTL

\* The program's own connections and the players' are admitted like any others:
\* seen from its queue and its permits the proxy takes steps of Admission only,
\* which is what TcpProxy is proved to implement (tcp_proxy.rs:75-129).
THEOREM ProxyIsAdmission == Spec => Conns!Spec
<1>1. Init => Conns!Init
  BY DEF Init
<1>2. ConnsInOrder /\ [Next]_vars => [Conns!Next]_(Conns!vars)
  <2> SUFFICES ASSUME ConnsInOrder, [Next]_vars
               PROVE  Conns!Next \/ UNCHANGED <<queue, active>>
    BY Zenon DEF Conns!vars
  <2>1. CASE ConnStep
    <3>1. \/ Conns!Admit
          \/ \E c \in Own \cup Streams : Conns!Arrive(c) \/ Conns!Leave(c)
      BY <2>1 DEF ConnStep, Admit, Expire, StreamArrives, StreamLeaves
    <3> QED BY <3>1, Zenon DEF Conns!Next
  <2>2. ASSUME NEW t \in Tasks!Tasks, Request(t)
        PROVE  Conns!Next \/ UNCHANGED <<queue, active>>
    <3>1. CASE UNCHANGED <<queue, active>>
      BY <3>1
    <3>2. CASE \E new \in Unused : Conns!Arrive(new)
      BY <3>2, Zenon DEF Unused, Conns!Next
    <3> QED BY <2>2, <3>1, <3>2, NewIsUnused, Zenon DEF Request
  <2>3. ASSUME NEW t \in Tasks!Tasks, FetchThroughProxy(t)
        PROVE  Conns!Next \/ UNCHANGED <<queue, active>>
    <3>1. via[t] \in Own \cup Streams
      BY <2>3 DEF FetchThroughProxy, ConnsInOrder
    <3>2. Conns!Leave(via[t]) \/ UNCHANGED <<queue, active>>
      BY <2>3, Zenon DEF FetchThroughProxy, Release
    <3> QED BY <3>1, <3>2, Zenon DEF Conns!Next
  <2>4. \/ ConnStep
        \/ \E t \in Tasks!Tasks : Request(t) \/ FetchThroughProxy(t)
        \/ UNCHANGED proxyVars
    BY ConnsTouched
  <2>5. UNCHANGED proxyVars => UNCHANGED <<queue, active>>
    BY DEF proxyVars
  <2> QED BY <2>1, <2>2, <2>3, <2>4, <2>5, Zenon
<1> QED BY <1>1, <1>2, TypeInvariant, PTL DEF Spec, Conns!Spec
=============================================================================
