----------------------------- MODULE DlnaProxy ------------------------------
(***************************************************************************)
(* The program as a whole: main (src/src/main.rs) reads the settings,      *)
(* starts the TCP proxy if it is asked to, redirects the description URL   *)
(* to it, opens the SSDP sockets and runs the SSDP tasks, which then fetch *)
(* the description through the proxy.                                      *)
(*                                                                         *)
(* The tasks are those of Ssdp.  The proxy is Admission, which TcpProxy    *)
(* implements: its connections are the players' Streams and those of the   *)
(* program's own HTTP client, which keeps the ones that are idle for later *)
(* requests.  A connection to the proxy always succeeds, so no timeout     *)
(* covers the time that a request waits for a permit.                      *)
(***************************************************************************)
EXTENDS Config, FiniteSets

CONSTANTS
  Lines,      \* command lines the program may be started with
  Own,        \* connections of the HTTP client, numbered
  Streams,    \* connections of players
  Limit,      \* MAX_CONCURRENT_CONNECTIONS of the proxy
  Searchers, OtherKinds, InboxSize  \* see Ssdp

NoConn == 0
ASSUME OwnAssumption ==
  Own \subseteq Nat \ {NoConn} /\ Streams \cap (Own \cup {NoConn}) = {}
ASSUME LimitAssumption == Limit \in Nat \ {0}
ASSUME TasksAssumption ==
  /\ InboxSize \in Nat \ {0}
  /\ OtherKinds \subseteq {"other", "full"} /\ {"other", "full"} \cap Searchers = {}

\* Of lines with which the program starts: the description URL has a host, and
\* the address to bind the proxy to is not the origin's own.
ASSUME LinesAssumption ==
  \A l \in {k \in Lines : Accepted(k) /\ ~Refused(k)} :
    LET config == get_config(l) IN
    /\ "host" \in DOMAIN config.description_url
    /\ config.proxy # <<>> =>
         Head(config.proxy) \notin sockaddr_from_url(config.description_url)

VARIABLES
  line,    \* the command line
  boot,    \* what main does next: "configure", "proxy", "sockets", "run"
  url,     \* the description URL
  proxy,   \* the TCPProxy that was started, if any
  ssdp,    \* the SSDPManager that was made, if any
  status,  \* how the process ended: "none", "success", "failure", "signal"
  via,     \* the connection each task's request is on
  idle,    \* connections that the HTTP client keeps for later requests
  queue, active,                           \* Admission
  process, at, round, inbox, current, search, origin, lan, signalled   \* Ssdp

mainVars  == <<line, boot, url, proxy, ssdp>>
proxyVars == <<via, idle, queue, active>>
taskVars  == <<process, at, round, inbox, current, search, origin, lan, signalled>>
vars == <<mainVars, status, proxyVars, taskVars>>

Tasks == INSTANCE Ssdp
Conns == INSTANCE Admission WITH Conns <- Own \cup Streams

conf == get_config(line)

TypeOK ==
  /\ Tasks!TypeOK
  /\ line \in Lines
  /\ boot \in {"configure", "proxy", "sockets", "run"}
  /\ Len(proxy) <= 1 /\ Len(ssdp) <= 1
  /\ status \in {"none", "success", "failure", "signal"}
  /\ (status = "none") = (process = "running")
  /\ via \in [Tasks!Tasks -> Own \cup {NoConn}]
  /\ \A t, u \in Tasks!Tasks : via[t] = via[u] => t = u \/ via[t] = NoConn
  /\ idle \subseteq active \cap Own /\ \A t \in Tasks!Tasks : via[t] \notin idle
  /\ queue \in Seq(Own \cup Streams)
  /\ active \subseteq Own \cup Streams /\ Cardinality(active) <= Limit

\* The option wait, of which main.rs:100 only asks whether it is given, decides
\* with which step main_task will begin.
Init ==
  /\ line \in Lines
  /\ boot = "configure"
  /\ url = Bad
  /\ proxy = <<>>
  /\ ssdp = <<>>
  /\ status = "none"
  /\ via = [t \in Tasks!Tasks |-> NoConn]
  /\ idle = {}
  /\ Conns!Init
  /\ Tasks!Init
  /\ at["main"] = IF Given(Source(line), "wait") = <<>> THEN "fetch" ELSE "spawn"

-----------------------------------------------------------------------------
(* main, up to the start of main_task.                                     *)

\* main returns an error, or clap ends the program.
Fail ==
  /\ process' = "exited"
  /\ status' = "failure"
  /\ UNCHANGED <<mainVars, proxyVars, at, round, inbox, current, search, origin, lan, signalled>>

Continue(next) == boot' = next /\ UNCHANGED <<line, status, proxyVars, taskVars>>

Booting(step) == process = "running" /\ boot = step

Configure ==
  /\ Booting("configure")
  /\ IF ~Accepted(line) \/ Refused(line) THEN Fail
     ELSE /\ url' = conf.description_url
          /\ Continue(IF conf.proxy = <<>> THEN "sockets" ELSE "proxy")
          /\ UNCHANGED <<proxy, ssdp>>

\* mutant of Redirected: the description URL stays what it was
NotRedirected(addr) == url
\* set_ip_host and set_port: the URL names the proxy's address.
Redirected(addr) == [url EXCEPT !.host = addr]

\* TCPProxy::new and start, and the URL bases that the relay replaces
TCPProxy(timeout, stream, to, from) ==
  [connect_timeout |-> timeout, stream_timeout |-> stream, to |-> to, from |-> from]

\* sockaddr_from_url fails for a URL without host or port and for a name that
\* does not resolve now, with the option wait as well; start, when it cannot
\* bind.  From here on the proxy accepts connections, and hands them to the
\* address the URL led to before.
StartProxy ==
  /\ Booting("proxy")
  /\ \/ /\ url' = Redirected(Head(conf.proxy))
        /\ \E server \in sockaddr_from_url(url) :
             proxy' = <<TCPProxy(conf.proxy_timeout, conf.stream_timeout, server, Head(conf.proxy))>>
        /\ Continue("sockets")
        /\ UNCHANGED ssdp
     \/ Fail

\* What SSDPManager::new hands to the tasks; the max-age is in BroadcastTiming.
SSDPManager ==
  [remote_desc_url |-> url, connect_timeout |-> conf.connect_timeout,
   broadcast_period |-> conf.period, iface |-> conf.broadcast_iface]

\* Both sockets with all their options, each of which may be refused.
ssdp_sockets ==
  /\ Booting("sockets")
  /\ \/ /\ ssdp' = <<SSDPManager>>
        /\ Continue("run")
        /\ UNCHANGED <<url, proxy>>
     \/ Fail

-----------------------------------------------------------------------------
(* The HTTP client of InteractiveSSDP.                                     *)

Running == process = "running" /\ boot = "run"

Unused == Own \ (active \cup Conns!Waiting)

\* mutant of Reuse: two requests at a time on one connection
Share(c) == UNCHANGED idle
\* A connection is used for one request at a time.
Reuse(c) == idle' = idle \ {c}

\* get(..).send(): on an idle connection if there is one, on a new one if not.
Request(t) ==
  /\ Running /\ proxy # <<>>
  /\ at[t] = "fetch" /\ via[t] = NoConn
  /\ \/ /\ \E c \in idle : via' = [via EXCEPT ![t] = c] /\ Reuse(c)
        /\ UNCHANGED <<queue, active>>
     \/ /\ idle = {} /\ Unused # {}
        /\ LET new == CHOOSE c \in Unused : \A d \in Unused : c <= d IN
             Conns!Arrive(new) /\ via' = [via EXCEPT ![t] = new]
        /\ UNCHANGED idle
  /\ UNCHANGED <<mainVars, status, taskVars>>

\* Without a proxy the origin is asked directly.
FetchDirectly(t) ==
  /\ Running /\ proxy = <<>>
  /\ Tasks!Fetch(t)
  /\ UNCHANGED <<mainVars, status, proxyVars>>

\* mutant of Release: the body is not read, the connection is not given back
Leak(c) == UNCHANGED <<idle, queue, active>>
\* The connection goes back to the client's pool, or is closed.
Release(c) ==
  \/ idle' = idle \cup {c} /\ UNCHANGED <<queue, active>>
  \/ Conns!Leave(c) /\ UNCHANGED idle

\* The proxy has a permit for the connection, and the origin answers or fails;
\* a failed connection attempt of the proxy is a failure too.
FetchThroughProxy(t) ==
  /\ Running /\ via[t] \in active
  /\ Tasks!Fetch(t)
  /\ Release(via[t])
  /\ via' = [via EXCEPT ![t] = NoConn]
  /\ UNCHANGED <<mainVars, status>>

\* An idle connection may be closed, by the client or by the origin.
Expire(c) ==
  /\ process = "running"
  /\ c \in idle
  /\ Conns!Leave(c)
  /\ idle' = idle \ {c}
  /\ UNCHANGED <<mainVars, status, via, taskVars>>

-----------------------------------------------------------------------------
(* The proxy and its players.                                              *)

Admit ==
  /\ process = "running"
  /\ Conns!Admit
  /\ UNCHANGED <<mainVars, status, via, idle, taskVars>>

StreamArrives(s) ==
  /\ process = "running" /\ proxy # <<>>
  /\ Conns!Arrive(s)
  /\ UNCHANGED <<mainVars, status, via, idle, taskVars>>

StreamLeaves(s) ==
  /\ process = "running"
  /\ Conns!Leave(s)
  /\ UNCHANGED <<mainVars, status, via, idle, taskVars>>

-----------------------------------------------------------------------------
(* The rest of the SSDP tasks, and the end of the process.                 *)

\* An abandoned byebye keeps its connection until the process ends, which is
\* the next thing the handler does.
Task(step) == Running /\ step /\ UNCHANGED <<mainVars, status, proxyVars>>

\* main returns Ok and the handler calls exit(0): both are success.
EndsWell(step) ==
  /\ Running
  /\ step
  /\ status' = "success"
  /\ UNCHANGED <<mainVars, proxyVars>>

Raise ==
  /\ Tasks!Signal
  /\ status' = IF process' = "exited" THEN "signal" ELSE status
  /\ UNCHANGED <<mainVars, proxyVars>>

\* Datagrams are queued once the listening socket is there.
World ==
  /\ Tasks!OriginChanges \/ Tasks!LanChanges \/ (ssdp # <<>> /\ Tasks!PacketArrives)
  /\ UNCHANGED <<mainVars, status, proxyVars>>

-----------------------------------------------------------------------------
Boot == Configure \/ StartProxy \/ ssdp_sockets

Fetch(t) == FetchDirectly(t) \/ FetchThroughProxy(t)

TaskStep ==
  \/ \E t \in Tasks!Tasks : Request(t) \/ Fetch(t) \/ Task(Tasks!Send(t))
  \/ Task(Tasks!SpawnTasks) \/ Task(Tasks!SpawnShutdownHandler) \/ Task(Tasks!Tick)
  \/ Task(Tasks!InstallHandler) \/ Task(Tasks!TakeSignal) \/ Task(Tasks!ByebyeTimeout)
  \/ Task(Tasks!Receive)
  \/ EndsWell(Tasks!Exit) \/ EndsWell(Tasks!MainReturns)

ConnStep ==
  \/ Admit
  \/ \E c \in Own : Expire(c)
  \/ \E s \in Streams : StreamArrives(s) \/ StreamLeaves(s)

Next == Boot \/ TaskStep \/ ConnStep \/ Raise \/ World

Spec == Init /\ [][Next]_vars

\* The fairness of Ssdp, and that the proxy admits the next connection when it
\* has a permit, which TcpProxy is checked for (KeepsAdmitting).  Players leave
\* when they like, and nothing is assumed of idle connections.
Fairness ==
  /\ WF_vars(Boot)
  /\ \A t \in Tasks!Tasks :
       WF_vars(Request(t)) /\ WF_vars(Fetch(t)) /\ WF_vars(Task(Tasks!Send(t)))
  /\ WF_vars(Task(Tasks!SpawnTasks)) /\ WF_vars(Task(Tasks!SpawnShutdownHandler))
  /\ WF_vars(Task(Tasks!Tick)) /\ WF_vars(Task(Tasks!InstallHandler))
  /\ WF_vars(Task(Tasks!TakeSignal)) /\ WF_vars(Task(Tasks!ByebyeTimeout))
  /\ WF_vars(Task(Tasks!Receive))
  /\ WF_vars(EndsWell(Tasks!Exit)) /\ WF_vars(EndsWell(Tasks!MainReturns))
  /\ WF_vars(Admit)

FairSpec == Spec /\ Fairness

-----------------------------------------------------------------------------
(* Properties.                                                             *)

\* Which packet a task builds.
SSDPPacket(t) ==
  CASE t = "broadcast" -> "Alive"
    [] t = "listen"    -> "Ok"
    [] OTHER           -> "ByeBye"

\* Where its text says that the description is: a byebye does not say it.
Location(packet) == IF packet = "ByeBye" THEN {} ELSE {Head(ssdp).remote_desc_url}

\* The path of an announcement is the configured one.  Its host is the
\* configured one too, or the proxy's that listens by then.
Served(location) ==
  LET described == conf.description_url IN
  location = IF conf.proxy = <<>> THEN described
             ELSE [described EXCEPT !.host = Head(conf.proxy)]

\* README.md:90: what is announced is an address that players can reach and
\* somebody serves: the proxy's when there is to be one, and then it listens
\* already; and the relay there leads to the origin, not to the proxy itself
\* (main.rs:78-93, utils.rs:96 and 110).
AnnouncedIsServed ==
  \A t \in {u \in Tasks!Tasks : at[u] = "send"} : \A location \in Location(SSDPPacket(t)) :
    /\ Served(location)
    /\ conf.proxy # <<>> =>
         /\ proxy # <<>>
         /\ Head(proxy).from = location.host
         /\ Head(proxy).to \in sockaddr_from_url(conf.description_url) \ {location.host}

\* README.md:106-135: every setting reaches the component it is meant for, from
\* the file when there is one and from the command line when there is none; the
\* five numbers change hands by position, twice (config.rs:59-112).
SettingsReachTheirUser ==
  LET Setting(o, default) ==
        IF o \in DOMAIN Source(line) THEN Source(line)[o] ELSE default
  IN /\ ssdp # <<>> =>
          /\ Head(ssdp).connect_timeout = Setting("connect_timeout", 2)
          /\ Head(ssdp).broadcast_period = Setting("period", 895)
     /\ proxy # <<>> =>
          /\ Head(proxy).connect_timeout = Setting("proxy_timeout", 10)
          /\ Head(proxy).stream_timeout = Setting("stream_timeout", 300)

\* A signal ends the program also when players hold every permit of the proxy,
\* and the byebye cannot get through it (broadcast.rs:100-110).
ShutdownEnds == Tasks!ShutdownEnds

\* Every player leaves in the end.
StreamsLeave == \A s \in Streams : []<>(s \notin active)

\* The program does not starve at its own proxy: while the origin and the
\* network are there and players come and go, announcements go out, whatever
\* failed before and however many connections arrive first (main.rs:81).
BroadcastsGoOn ==
  StreamsLeave /\ <>[](process = "running" /\ origin = "up" /\ lan)
    => []<>(at["broadcast"] = "send") /\ <>[](round = "sent")

\* Nor do the answers to searches (listener.rs:84).
SearchesGoOn ==
  StreamsLeave /\ <>[](origin = "up")
    => \A s \in Searchers :
         (search[s] = "waiting")
           ~> (search[s] # "waiting" \/ at["listen"] = "panicked" \/ process = "exited")

\* dlnaproxy.service:10 "Restart=on-failure": the end of a program that nobody
\* asked to end is a failure, or systemd does not start it again.
UnaskedExitFails == process = "exited" /\ ~signalled => status = "failure"
=============================================================================
