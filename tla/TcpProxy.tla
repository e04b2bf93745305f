------------------------------ MODULE TcpProxy ------------------------------
(***************************************************************************)
(* Connections through the TCP proxy (src/src/tcp_proxy.rs).  One task,    *)
(* listen_loop, accepts a client, waits for a permit of the semaphore,     *)
(* connects to the origin under a timeout and spawns a handler; the        *)
(* handler, handle_conn, spawns one task per direction, awaits both and    *)
(* drops the permit.  Clients and the origin server send, half-close and   *)
(* vanish when they like.                                                  *)
(*                                                                         *)
(* Data are counted in units (a request, a response); what a response goes *)
(* through between the two sockets is the subject of HttpRelay, and here a *)
(* response may be refused there at any time.  A failed accept changes     *)
(* nothing and is a stuttering step; the semaphore is never closed, so the *)
(* loop never breaks.                                                      *)
(***************************************************************************)
EXTENDS Naturals, Sequences, FiniteSets

CONSTANTS
  Conns,     \* connections alive at a time; one that was closed may be used again
  MaxConns,  \* MAX_CONCURRENT_CONNECTIONS, 100 in the code
  MaxUnits,  \* bound: requests a client sends on one connection
  None       \* the listener holds no accepted stream

ASSUME ConnsAssumption == IsFiniteSet(Conns) /\ None \notin Conns
ASSUME MaxConnsAssumption == MaxConns \in Nat \ {0}
ASSUME MaxUnitsAssumption == MaxUnits \in Nat

VARIABLES
  listener,    \* where listen_loop awaits: "accept", "acquire" or "connect"
  current,     \* proxied_stream, the client listen_loop is dealing with
  backlog,     \* connections the kernel has completed and nobody accepted
  permits,     \* available permits of the semaphore
  stage,       \* how far each connection has come
  c2o, o2c,    \* the tasks client_to_origin and origin_to_client
  client,      \* what the client's end has done: "open", "fin", "gone"
  origin,      \* the same for the origin's end
  clientSent,  \* requests the client sent
  originGot,   \* requests the origin received
  originSent,  \* responses the origin sent
  clientGot    \* responses the client received

listenVars == <<listener, current, backlog, permits>>
taskVars   == <<c2o, o2c>>
peerVars   == <<client, origin>>
dataVars   == <<clientSent, originGot, originSent, clientGot>>
vars == <<listenVars, stage, taskVars, peerVars, dataVars>>

Stages == {"closed", "backlog", "held", "spawned", "await_c2o", "await_o2c"}
TaskStates == {"none", "running", "eof", "failed"}
PeerStates == {"open", "fin", "gone"}

Ended(task, c) == task[c] \in {"eof", "failed"}

\* The connections whose permit is taken: those in the care of a handler, and
\* the one listen_loop is connecting to the origin.
Handled == {c \in Conns : stage[c] \in {"spawned", "await_c2o", "await_o2c"}}
Holders == Handled \cup IF listener = "connect" THEN {current} ELSE {}

TypeOK ==
  /\ listener \in {"accept", "acquire", "connect"}
  /\ current \in Conns \cup {None}
  /\ backlog \in Seq(Conns)
  /\ permits \in 0..MaxConns
  /\ stage \in [Conns -> Stages]
  /\ c2o \in [Conns -> TaskStates]
  /\ o2c \in [Conns -> TaskStates]
  /\ client \in [Conns -> PeerStates]
  /\ origin \in [Conns -> PeerStates]
  /\ clientSent \in [Conns -> 0..MaxUnits]
  /\ originGot \in [Conns -> 0..MaxUnits]
  /\ originSent \in [Conns -> 0..MaxUnits]
  /\ clientGot \in [Conns -> 0..MaxUnits]

Init ==
  /\ listener = "accept"
  /\ current = None
  /\ backlog = <<>>
  /\ permits = MaxConns
  /\ stage = [c \in Conns |-> "closed"]
  /\ c2o = [c \in Conns |-> "none"]
  /\ o2c = [c \in Conns |-> "none"]
  /\ client = [c \in Conns |-> "gone"]
  /\ origin = [c \in Conns |-> "gone"]
  /\ clientSent = [c \in Conns |-> 0]
  /\ originGot = [c \in Conns |-> 0]
  /\ originSent = [c \in Conns |-> 0]
  /\ clientGot = [c \in Conns |-> 0]

-----------------------------------------------------------------------------
(* The listener.                                                           *)

\* Dropping an OwnedSemaphorePermit.
ForgetPermit == UNCHANGED permits        \* mutant of ReleasePermit
ReleasePermit == permits' = permits + 1

\* acquire_owned: a permit must be there, and is taken.
TakePermitUnchecked ==                   \* mutant: try_acquire, result ignored
  permits' = IF permits > 0 THEN permits - 1 ELSE 0
TakePermit == permits > 0 /\ permits' = permits - 1

\* The kernel hands out completed connections in the order they arrived.
NextAccepted == Head(backlog)

Accept ==
  /\ listener = "accept"
  /\ backlog # <<>>
  /\ current' = NextAccepted
  /\ backlog' = Tail(backlog)
  /\ stage' = [stage EXCEPT ![NextAccepted] = "held"]
  /\ listener' = "acquire"
  /\ UNCHANGED <<permits, taskVars, peerVars, dataVars>>

Acquire ==
  /\ listener = "acquire"
  /\ TakePermit
  /\ listener' = "connect"
  /\ UNCHANGED <<current, backlog, stage, taskVars, peerVars, dataVars>>

\* TcpStream::connect succeeded: the handler is spawned and the loop goes on.
Connected ==
  /\ listener = "connect"
  /\ stage' = [stage EXCEPT ![current] = "spawned"]
  /\ origin' = [origin EXCEPT ![current] = "open"]
  /\ current' = None
  /\ listener' = "accept"
  /\ UNCHANGED <<backlog, permits, taskVars, client, dataVars>>

\* The last half of a socket is dropped: the connection is over, and its
\* identity may be used again.
Close(c) ==
  /\ stage' = [stage EXCEPT ![c] = "closed"]
  /\ client' = [client EXCEPT ![c] = "gone"]
  /\ origin' = [origin EXCEPT ![c] = "gone"]
  /\ c2o' = [c2o EXCEPT ![c] = "none"]
  /\ o2c' = [o2c EXCEPT ![c] = "none"]
  /\ clientSent' = [clientSent EXCEPT ![c] = 0]
  /\ originGot' = [originGot EXCEPT ![c] = 0]
  /\ originSent' = [originSent EXCEPT ![c] = 0]
  /\ clientGot' = [clientGot EXCEPT ![c] = 0]

\* mutant of GiveUp: the stream is put back to be tried again, and dropped too
GiveUpRequeueing ==
  /\ listener = "connect"
  /\ Close(current)
  /\ backlog' = Append(backlog, current)
  /\ current' = None
  /\ listener' = "accept"
  /\ ReleasePermit

\* The iteration is given up: the client's stream and the permit are dropped.
GiveUp ==
  /\ listener = "connect"
  /\ Close(current)
  /\ current' = None
  /\ listener' = "accept"
  /\ ReleasePermit
  /\ UNCHANGED backlog

ConnectRefused == GiveUp

\* The timer of timeout(connect_timeout, ..) always fires in the end.
ConnectNoTimeout == FALSE                \* mutant of ConnectTimeout
ConnectTimeout == GiveUp

-----------------------------------------------------------------------------
(* handle_conn and its two tasks.                                          *)

SpawnCopies(c) ==
  /\ stage[c] = "spawned"
  /\ stage' = [stage EXCEPT ![c] = "await_c2o"]
  /\ c2o' = [c2o EXCEPT ![c] = "running"]
  /\ o2c' = [o2c EXCEPT ![c] = "running"]
  /\ UNCHANGED <<listenVars, peerVars, dataVars>>

\* mutant of JoinC2O: the permit is released when the first direction has ended
JoinC2OReleasing(c) ==
  /\ stage[c] = "await_c2o"
  /\ Ended(c2o, c)
  /\ stage' = [stage EXCEPT ![c] = "await_o2c"]
  /\ ReleasePermit
  /\ UNCHANGED <<listener, current, backlog, taskVars, peerVars, dataVars>>

\* mutant of JoinC2O: the direction that ends first takes the other with it
JoinC2OAborting(c) ==
  /\ stage[c] = "await_c2o"
  /\ Ended(c2o, c)
  /\ stage' = [stage EXCEPT ![c] = "await_o2c"]
  /\ o2c' = [o2c EXCEPT ![c] = "eof"]
  /\ UNCHANGED <<listenVars, c2o, peerVars, dataVars>>

\* client_to_origin.await, whether the task returned or panicked.
JoinC2O(c) ==
  /\ stage[c] = "await_c2o"
  /\ Ended(c2o, c)
  /\ stage' = [stage EXCEPT ![c] = "await_o2c"]
  /\ UNCHANGED <<listenVars, taskVars, peerVars, dataVars>>

\* origin_to_client.await, then drop(permit) with no await in between.
JoinO2C(c) ==
  /\ stage[c] = "await_o2c"
  /\ Ended(o2c, c)
  /\ Close(c)
  /\ ReleasePermit
  /\ UNCHANGED <<listener, current, backlog>>

\* tokio::io::copy, client to origin.
ForwardRequest(c) ==
  /\ c2o[c] = "running"
  /\ originGot[c] < clientSent[c]
  /\ origin[c] # "gone"
  /\ originGot' = [originGot EXCEPT ![c] = @ + 1]
  /\ UNCHANGED <<listenVars, stage, taskVars, peerVars, clientSent, originSent, clientGot>>

\* The copy ends: everything the client sent before its FIN was read, or a
\* read or a write failed because a peer is gone.
EndC2O(c) ==
  /\ c2o[c] = "running"
  /\ \/ /\ client[c] # "open"
        /\ originGot[c] = clientSent[c]
        /\ c2o' = [c2o EXCEPT ![c] = "eof"]
     \/ /\ \/ client[c] = "gone"
           \/ origin[c] = "gone" /\ originGot[c] < clientSent[c]
        /\ c2o' = [c2o EXCEPT ![c] = "failed"]
  /\ UNCHANGED <<listenVars, stage, o2c, peerVars, dataVars>>

\* proxy_response_with_rewrite delivers one response.
ForwardResponse(c) ==
  /\ o2c[c] = "running"
  /\ clientGot[c] < originSent[c]
  /\ client[c] # "gone"
  /\ clientGot' = [clientGot EXCEPT ![c] = @ + 1]
  /\ UNCHANGED <<listenVars, stage, taskVars, peerVars, clientSent, originGot, originSent>>

\* proxy_response_with_rewrite returns: Ok at the end of the origin's stream,
\* Err when a read fails, the client is gone or the response is refused.
EndO2C(c) ==
  /\ o2c[c] = "running"
  /\ \/ /\ origin[c] # "open"
        /\ clientGot[c] = originSent[c]
        /\ o2c' = [o2c EXCEPT ![c] = "eof"]
     \/ /\ origin[c] = "gone" \/ clientGot[c] < originSent[c]
        /\ o2c' = [o2c EXCEPT ![c] = "failed"]
  /\ UNCHANGED <<listenVars, stage, c2o, peerVars, dataVars>>

-----------------------------------------------------------------------------
(* The peers.                                                              *)

ClientConnect(c) ==
  /\ stage[c] = "closed"
  /\ stage' = [stage EXCEPT ![c] = "backlog"]
  /\ backlog' = Append(backlog, c)
  /\ client' = [client EXCEPT ![c] = "open"]
  /\ UNCHANGED <<listener, current, permits, taskVars, origin, dataVars>>

ClientSend(c) ==
  /\ stage[c] # "closed"
  /\ client[c] = "open"
  /\ clientSent[c] < MaxUnits
  /\ clientSent' = [clientSent EXCEPT ![c] = @ + 1]
  /\ UNCHANGED <<listenVars, stage, taskVars, peerVars, originGot, originSent, clientGot>>

\* shutdown(SHUT_WR): no more requests, but the client goes on reading.
ClientHalfClose(c) ==
  /\ stage[c] # "closed"
  /\ client[c] = "open"
  /\ client' = [client EXCEPT ![c] = "fin"]
  /\ UNCHANGED <<listenVars, stage, taskVars, origin, dataVars>>

ClientClose(c) ==
  /\ stage[c] # "closed"
  /\ client[c] # "gone"
  /\ client' = [client EXCEPT ![c] = "gone"]
  /\ UNCHANGED <<listenVars, stage, taskVars, origin, dataVars>>

OriginRespond(c) ==
  /\ stage[c] # "closed"
  /\ origin[c] = "open"
  /\ originSent[c] < originGot[c]
  /\ originSent' = [originSent EXCEPT ![c] = @ + 1]
  /\ UNCHANGED <<listenVars, stage, taskVars, peerVars, clientSent, originGot, clientGot>>

OriginHalfClose(c) ==
  /\ stage[c] # "closed"
  /\ origin[c] = "open"
  /\ origin' = [origin EXCEPT ![c] = "fin"]
  /\ UNCHANGED <<listenVars, stage, taskVars, client, dataVars>>

OriginClose(c) ==
  /\ stage[c] # "closed"
  /\ origin[c] # "gone"
  /\ origin' = [origin EXCEPT ![c] = "gone"]
  /\ UNCHANGED <<listenVars, stage, taskVars, client, dataVars>>

-----------------------------------------------------------------------------
C2OStep(c) == ForwardRequest(c) \/ EndC2O(c)
O2CStep(c) == ForwardResponse(c) \/ EndO2C(c)
HandlerStep(c) == SpawnCopies(c) \/ JoinC2O(c) \/ JoinO2C(c)

ListenerStep == Accept \/ Acquire \/ Connected \/ ConnectRefused \/ ConnectTimeout

PeerStep(c) ==
  \/ ClientConnect(c) \/ ClientSend(c) \/ ClientHalfClose(c) \/ ClientClose(c)
  \/ OriginRespond(c) \/ OriginHalfClose(c) \/ OriginClose(c)

Next ==
  \/ ListenerStep
  \/ \E c \in Conns : HandlerStep(c) \/ C2OStep(c) \/ O2CStep(c) \/ PeerStep(c)

Spec == Init /\ [][Next]_vars

\* The runtime polls every task that can make progress and fires every timer;
\* nothing obliges a peer, or a connection attempt, to do anything.
Fairness ==
  /\ WF_vars(Accept) /\ WF_vars(Acquire) /\ WF_vars(ConnectTimeout)
  /\ \A c \in Conns :
       WF_vars(HandlerStep(c)) /\ WF_vars(C2OStep(c)) /\ WF_vars(O2CStep(c))

FairSpec == Spec /\ Fairness

-----------------------------------------------------------------------------
(* Properties.                                                             *)

\* No path through listen_loop and handle_conn loses a permit or returns one
\* twice: what is available and what connections hold adds up to the capacity
\* the semaphore was created with (lines 83, 95, 109, 114 and 125).
PermitsConserved == permits + Cardinality(Holders) = MaxConns

\* Every connection the kernel completed is in the care of exactly one party:
\* it is in the accept queue once, or it is the stream listen_loop holds, or a
\* handler's; none is lost between them and none is dealt with twice.
Custody ==
  /\ \A c \in Conns : stage[c] = "backlog" <=> \E i \in DOMAIN backlog : backlog[i] = c
  /\ \A i, j \in DOMAIN backlog : backlog[i] = backlog[j] => i = j
  /\ \A c \in Conns : stage[c] = "held" <=> c = current
  /\ listener = "accept" <=> current = None

\* A socket is open until both of its halves are dropped; the halves belong to
\* the two tasks once handle_conn has spawned them.
Streaming(c) ==
  /\ stage[c] \in {"await_c2o", "await_o2c"}
  /\ ~(Ended(c2o, c) /\ Ended(o2c, c))
ClientSockets == {c \in Conns : stage[c] \in {"held", "spawned"} \/ Streaming(c)}
OriginSockets == {c \in Conns : stage[c] = "spawned" \/ Streaming(c)}

\* The permit limit bounds the file descriptors: listen_loop accepts before it
\* asks for a permit, so one client more than the limit is open, never two, and
\* the origin never sees more connections than the limit.
DescriptorsBounded ==
  /\ Cardinality(ClientSockets) <= MaxConns + 1
  /\ Cardinality(OriginSockets) <= MaxConns

\* Connections are admitted in the order they arrived and at most MaxConns at a
\* time: listen_loop with its semaphore implements Admission.
Admitted == INSTANCE Admission WITH
  Limit  <- MaxConns,
  queue  <- IF listener = "acquire" THEN <<current>> \o backlog ELSE backlog,
  active <- Holders
ImplementsAdmission == Admitted!Spec

\* And it does admit: while a permit is free, the loop comes round to the oldest
\* waiting connection, whatever it is busy with (lines 86-126).
KeepsAdmitting == Admitted!KeepsAdmitting

\* The listener never stays in one connection attempt: whatever the origin
\* does, connect_timeout brings it back to accept (lines 104-117).
ConnectBounded == (listener = "connect") ~> (listener = "accept")

\* A client that half-closes after its last request still receives every
\* response the origin sent before closing, unless a response is refused or one
\* of the peers goes away: the end of client_to_origin ends nothing else.
HalfCloseDelivers ==
  \A c \in Conns :
    (client[c] = "fin" /\ origin[c] = "fin" /\ o2c[c] = "running")
      ~> /\ stage[c] # "closed"
         /\ \/ clientGot[c] = originSent[c]
            \/ o2c[c] = "failed" \/ client[c] = "gone" \/ origin[c] = "gone"

\* Every client leaves in the end, and the origin closes where requests ended.
PeersLeave ==
  \A c \in Conns :
    /\ []<>(client[c] = "gone")
    /\ Ended(c2o, c) ~> (origin[c] = "gone")

\* When peers do leave, every client in the accept queue gets its turn: it is
\* handed to a handler or refused, however the connections before it ended
\* (lines 86-126 and 175-180).
ServedInTurn ==
  PeersLeave =>
    \A c \in Conns : (stage[c] = "backlog") ~> (stage[c] \notin {"backlog", "held"})

\* README.md:120 "--stream-timeout <SECONDS>  TCP read/write timeout for active
\* proxy streams": a stream on which both directions wait for data does not
\* stay so for ever.  listen_loop drops the value (_stream_timeout, line 79).
Idle(c) ==
  /\ c2o[c] = "running" /\ client[c] = "open" /\ clientSent[c] = originGot[c]
  /\ o2c[c] = "running" /\ origin[c] = "open" /\ originSent[c] = clientGot[c]
IdleStreamsEnd == \A c \in Conns : Idle(c) ~> ~Idle(c)
=============================================================================
