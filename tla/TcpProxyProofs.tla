--------------------------- MODULE TcpProxyProofs ---------------------------
(***************************************************************************)
(* Theorems about TcpProxy, for any number of connections and permits.     *)
(* The inductive invariant joins the type invariant to the account of the  *)
(* permits (which keeps permits within its type) and to the custody of     *)
(* connections (which keeps the holders of permits apart).                 *)
(***************************************************************************)
EXTENDS TcpProxy, TLAPS, FiniteSetTheorems, SequenceTheorems

IInv == TypeOK /\ PermitsConserved /\ Custody

USE ConnsAssumption, MaxConnsAssumption, MaxUnitsAssumption

\* What every step does with permits: it leaves permits and holders alone, a
\* connection becomes a holder at the price of a permit, or stops being one.
PermitsMove ==
  \/ Holders' = Holders /\ permits' = permits
  \/ \E c \in Conns \ Holders : Holders' = Holders \cup {c} /\ TakePermit
  \/ \E c \in Holders : Holders' = Holders \ {c} /\ ReleasePermit

\* The holders are connections, so they can be counted, and each of them has
\* taken a permit out of the semaphore (lines 94-126).
LEMMA HoldersFinite ==
  ASSUME TypeOK, Custody
  PROVE  /\ Holders \subseteq Conns
         /\ IsFiniteSet(Holders)
         /\ Cardinality(Holders) \in Nat
<1>1. Holders \subseteq Conns
  BY DEF TypeOK, Custody, Holders, Handled
<1>2. IsFiniteSet(Holders)
  BY <1>1, FS_Subset
<1> QED BY <1>1, <1>2, FS_CardinalityType

\* The head of the accept queue, which accept returns (line 86), is a waiting
\* connection, and it is nowhere else in the queue.
LEMMA NextAcceptedWaits ==
  ASSUME TypeOK, Custody, backlog # <<>>
  PROVE  /\ 1 \in DOMAIN backlog
         /\ NextAccepted = backlog[1]
         /\ NextAccepted \in Conns
         /\ stage[NextAccepted] = "backlog"
<1>1. backlog \in Seq(Conns)
  BY DEF TypeOK
<1>2. DOMAIN backlog = 1..Len(backlog) /\ Len(backlog) \in Nat \ {0}
  BY <1>1, LenProperties, EmptySeq
<1>3. NextAccepted = backlog[1] /\ NextAccepted \in Conns
  BY <1>1, HeadTailProperties DEF NextAccepted
<1> QED BY <1>2, <1>3 DEF Custody

\* Who holds a permit, before and after a step, by where listen_loop is.
LEMMA WhoHolds ==
  /\ listener # "connect" => Holders = Handled
  /\ listener = "connect" => Holders = Handled \cup {current}
  /\ listener' # "connect" => Holders' = Handled'
  /\ listener' = "connect" => Holders' = Handled' \cup {current'}
BY DEF Holders

\* A connection that moves to another stage comes to a handler, or leaves it.
LEMMA HandledMoves ==
  ASSUME stage \in [Conns -> Stages], NEW c \in Conns, NEW s,
         stage' = [stage EXCEPT ![c] = s]
  PROVE  /\ \A d \in Conns : stage'[d] = IF d = c THEN s ELSE stage[d]
         /\ s \in {"spawned", "await_c2o", "await_o2c"} => Handled' = Handled \cup {c}
         /\ s \notin {"spawned", "await_c2o", "await_o2c"} => Handled' = Handled \ {c}
<1>1. \A d \in Conns : stage'[d] = IF d = c THEN s ELSE stage[d]
  OBVIOUS
<1> QED BY <1>1 DEF Handled

\* The connection that listen_loop holds is in nobody else's care.
LEMMA HeldByListener ==
  ASSUME TypeOK, Custody
  PROVE  /\ stage \in [Conns -> Stages]
         /\ listener # "accept" =>
              current \in Conns /\ stage[current] = "held" /\ current \notin Handled
BY DEF TypeOK, Custody, Handled

\* What the steps that move a connection do to the holders (lines 86-126, 132
\* and 174-180).
LEMMA HoldersMove ==
  ASSUME TypeOK, Custody
  PROVE  /\ Accept \/ Connected => Holders' = Holders
         /\ Acquire => current \in Conns \ Holders /\ Holders' = Holders \cup {current}
         /\ GiveUp => current \in Holders /\ Holders' = Holders \ {current}
         /\ \A c \in Conns :
              SpawnCopies(c) \/ JoinC2O(c) \/ ClientConnect(c) => Holders' = Holders
         /\ \A c \in Conns : JoinO2C(c) => c \in Holders /\ Holders' = Holders \ {c}
<1>0. stage \in [Conns -> Stages]
  BY HeldByListener
<1>1. ASSUME Accept
      PROVE  Holders' = Holders
  <2>1. NextAccepted \in Conns /\ stage[NextAccepted] = "backlog"
    BY <1>1, NextAcceptedWaits DEF Accept
  <2>2. stage' = [stage EXCEPT ![NextAccepted] = "held"] /\ NextAccepted \notin Handled
    BY <1>1, <2>1 DEF Accept, Handled
  <2>3. Handled' = Handled \ {NextAccepted}
    BY <1>0, <2>1, <2>2, HandledMoves, Zenon
  <2>4. Handled' = Handled
    BY <2>2, <2>3
  <2> QED BY <1>1, <2>4, WhoHolds DEF Accept
<1>2. ASSUME Acquire
      PROVE  current \in Conns \ Holders /\ Holders' = Holders \cup {current}
  <2>1. current \in Conns /\ current \notin Handled
    BY <1>2, HeldByListener DEF Acquire
  <2>2. Handled' = Handled
    BY <1>2 DEF Acquire, Handled
  <2> QED BY <1>2, <2>1, <2>2, WhoHolds DEF Acquire
<1>3. ASSUME Connected
      PROVE  Holders' = Holders
  <2>1. current \in Conns /\ stage' = [stage EXCEPT ![current] = "spawned"]
    BY <1>3, HeldByListener DEF Connected
  <2>2. Handled' = Handled \cup {current}
    BY <1>0, <2>1, HandledMoves, Zenon
  <2> QED BY <1>3, <2>2, WhoHolds DEF Connected
<1>4. ASSUME GiveUp
      PROVE  current \in Holders /\ Holders' = Holders \ {current}
  <2>1. current \in Conns /\ stage' = [stage EXCEPT ![current] = "closed"]
    BY <1>4, HeldByListener DEF GiveUp, Close
  <2>2. Handled' = Handled \ {current}
    BY <1>0, <2>1, HandledMoves, Zenon
  <2> QED BY <1>4, <2>2, WhoHolds DEF GiveUp
<1>5. ASSUME NEW c \in Conns, SpawnCopies(c) \/ JoinC2O(c)
      PROVE  Holders' = Holders
  <2>1. c \in Handled
    BY <1>5 DEF SpawnCopies, JoinC2O, Handled
  <2>2. \E s \in {"await_c2o", "await_o2c"} : stage' = [stage EXCEPT ![c] = s]
    BY <1>5 DEF SpawnCopies, JoinC2O
  <2>3. UNCHANGED <<listener, current>>
    BY <1>5 DEF SpawnCopies, JoinC2O, listenVars
  <2>4. Handled' = Handled \cup {c}
    BY <1>0, <2>2, HandledMoves, Zenon
  <2>5. Handled' = Handled
    BY <2>1, <2>4
  <2> QED BY <2>3, <2>5, WhoHolds
<1>6. ASSUME NEW c \in Conns, ClientConnect(c)
      PROVE  Holders' = Holders
  <2>1. stage' = [stage EXCEPT ![c] = "backlog"] /\ c \notin Handled
    BY <1>6 DEF ClientConnect, Handled
  <2>2. Handled' = Handled \ {c}
    BY <1>0, <2>1, HandledMoves, Zenon
  <2>3. Handled' = Handled
    BY <2>1, <2>2
  <2>4. UNCHANGED <<listener, current>>
    BY <1>6 DEF ClientConnect
  <2> QED BY <2>3, <2>4, WhoHolds
<1>7. ASSUME NEW c \in Conns, JoinO2C(c)
      PROVE  c \in Holders /\ Holders' = Holders \ {c}
  <2>1. c \in Handled /\ (listener = "connect" => current # c)
    BY <1>7, HeldByListener DEF JoinO2C, Handled
  <2>2. stage' = [stage EXCEPT ![c] = "closed"]
    BY <1>7 DEF JoinO2C, Close
  <2>3. UNCHANGED <<listener, current>>
    BY <1>7 DEF JoinO2C
  <2>4. Handled' = Handled \ {c}
    BY <1>0, <2>2, HandledMoves, Zenon
  <2> QED BY <2>1, <2>3, <2>4, WhoHolds
<1> QED BY <1>1, <1>2, <1>3, <1>4, <1>5, <1>6, <1>7

\* The account of permits is kept by every step of listen_loop, of a handler,
\* of a copy task or of a peer (lines 94-126 and 174-180).
LEMMA EveryStepMovesPermits ==
  ASSUME IInv, [Next]_vars
  PROVE  PermitsMove
<1>0. TypeOK /\ Custody
  BY DEF IInv
<1>1. CASE Accept \/ Connected
  <2>1. Holders' = Holders /\ permits' = permits
    BY <1>0, <1>1, HoldersMove DEF Accept, Connected
  <2> QED BY <2>1 DEF PermitsMove
<1>2. CASE Acquire
  <2>1. TakePermit
    BY <1>2 DEF Acquire
  <2> QED BY <1>0, <1>2, <2>1, HoldersMove DEF PermitsMove
<1>3. CASE GiveUp
  <2>1. ReleasePermit
    BY <1>3 DEF GiveUp
  <2> QED BY <1>0, <1>3, <2>1, HoldersMove DEF PermitsMove
<1>4. ASSUME NEW c \in Conns, SpawnCopies(c) \/ JoinC2O(c) \/ ClientConnect(c)
      PROVE  PermitsMove
  <2>1. permits' = permits
    BY <1>4 DEF SpawnCopies, JoinC2O, ClientConnect, listenVars
  <2>2. Holders' = Holders
    BY <1>0, <1>4, HoldersMove
  <2> QED BY <2>1, <2>2 DEF PermitsMove
<1>5. ASSUME NEW c \in Conns, JoinO2C(c)
      PROVE  PermitsMove
  <2>1. ReleasePermit
    BY <1>5 DEF JoinO2C
  <2> QED BY <1>0, <1>5, <2>1, HoldersMove DEF PermitsMove
<1>6. ASSUME NEW c \in Conns, C2OStep(c) \/ O2CStep(c)
      PROVE  PermitsMove
  <2>1. UNCHANGED <<stage, listener, current, permits>>
    BY <1>6 DEF C2OStep, O2CStep, ForwardRequest, EndC2O, ForwardResponse, EndO2C, listenVars
  <2> QED BY <2>1 DEF PermitsMove, Holders, Handled
<1>7. ASSUME NEW c \in Conns, PeerStep(c), ~ClientConnect(c)
      PROVE  PermitsMove
  <2>1. UNCHANGED <<stage, listener, current, permits>>
    BY <1>7 DEF PeerStep, ClientSend, ClientHalfClose, ClientClose,
       OriginRespond, OriginHalfClose, OriginClose, listenVars
  <2> QED BY <2>1 DEF PermitsMove, Holders, Handled
<1>8. CASE UNCHANGED vars
  <2>1. UNCHANGED <<stage, listener, current, permits>>
    BY <1>8 DEF vars, listenVars
  <2> QED BY <2>1 DEF PermitsMove, Holders, Handled
<1> QED
  BY <1>1, <1>2, <1>3, <1>4, <1>5, <1>6, <1>7, <1>8
     DEF Next, ListenerStep, ConnectRefused, ConnectTimeout, HandlerStep

\* What a move of permits does to their number (lines 95, 109, 114 and 125).
LEMMA PermitsMoveConserves ==
  ASSUME IInv, PermitsMove
  PROVE  PermitsConserved' /\ permits' \in 0..MaxConns
<1> USE DEF IInv
<1> DEFINE n == Cardinality(Holders)
<1>1. n \in Nat /\ IsFiniteSet(Holders) /\ Holders \subseteq Conns
  BY HoldersFinite
<1>2. permits \in Nat /\ permits + n = MaxConns
  BY DEF TypeOK, PermitsConserved
<1>3. CASE Holders' = Holders /\ permits' = permits
  BY <1>1, <1>2, <1>3 DEF PermitsConserved
<1>4. ASSUME NEW c \in Conns \ Holders, Holders' = Holders \cup {c}, TakePermit
      PROVE  PermitsConserved' /\ permits' \in 0..MaxConns
  <2>1. Cardinality(Holders') = n + 1
    BY <1>1, <1>4, FS_AddElement, Zenon
  <2> QED BY <1>1, <1>2, <1>4, <2>1 DEF PermitsConserved, TakePermit
<1>5. ASSUME NEW c \in Holders, Holders' = Holders \ {c}, ReleasePermit
      PROVE  PermitsConserved' /\ permits' \in 0..MaxConns
  <2>1. IsFiniteSet(Holders') /\ Cardinality(Holders') = n - 1
    BY <1>1, <1>5, FS_RemoveElement
  <2>2. n - 1 \in Nat
    BY <2>1, FS_CardinalityType
  <2> QED BY <1>1, <1>2, <1>5, <2>1, <2>2 DEF PermitsConserved, ReleasePermit
<1> QED BY <1>3, <1>4, <1>5 DEF PermitsMove

-----------------------------------------------------------------------------
\* The types in groups of variables that steps change together.
QueueTypes == current \in Conns \cup {None} /\ backlog \in Seq(Conns)
TaskTypes  == c2o \in [Conns -> TaskStates] /\ o2c \in [Conns -> TaskStates]
PeerTypes  == client \in [Conns -> PeerStates] /\ origin \in [Conns -> PeerStates]
DataTypes  ==
  /\ clientSent \in [Conns -> 0..MaxUnits] /\ originGot \in [Conns -> 0..MaxUnits]
  /\ originSent \in [Conns -> 0..MaxUnits] /\ clientGot \in [Conns -> 0..MaxUnits]

\* Together they are TypeOK, before and after a step.
LEMMA TypeParts ==
  /\ TypeOK <=> /\ listener \in {"accept", "acquire", "connect"} /\ permits \in 0..MaxConns
                /\ stage \in [Conns -> Stages]
                /\ QueueTypes /\ TaskTypes /\ PeerTypes /\ DataTypes
  /\ TypeOK' <=> /\ listener' \in {"accept", "acquire", "connect"} /\ permits' \in 0..MaxConns
                 /\ stage' \in [Conns -> Stages]
                 /\ QueueTypes' /\ TaskTypes' /\ PeerTypes' /\ DataTypes'
<1>1. TypeOK <=> /\ listener \in {"accept", "acquire", "connect"} /\ permits \in 0..MaxConns
                 /\ stage \in [Conns -> Stages]
                 /\ QueueTypes /\ TaskTypes /\ PeerTypes /\ DataTypes
  BY Zenon DEF TypeOK, QueueTypes, TaskTypes, PeerTypes, DataTypes
<1>2. TypeOK' <=> /\ listener' \in {"accept", "acquire", "connect"} /\ permits' \in 0..MaxConns
                  /\ stage' \in [Conns -> Stages]
                  /\ QueueTypes' /\ TaskTypes' /\ PeerTypes' /\ DataTypes'
  BY Zenon DEF TypeOK, QueueTypes, TaskTypes, PeerTypes, DataTypes
<1> QED BY <1>1, <1>2

\* A connection that is closed starts from the beginning (lines 110, 115, 177).
LEMMA CloseTypes ==
  ASSUME TypeOK, NEW c \in Conns, Close(c)
  PROVE  stage' \in [Conns -> Stages] /\ TaskTypes' /\ PeerTypes' /\ DataTypes'
<1>1. stage \in [Conns -> Stages] /\ TaskTypes /\ PeerTypes /\ DataTypes
  BY TypeParts
<1>2. stage' \in [Conns -> Stages]
  BY <1>1 DEF Close, Stages
<1>3. TaskTypes'
  BY <1>1 DEF Close, TaskTypes, TaskStates
<1>4. PeerTypes'
  BY <1>1 DEF Close, PeerTypes, PeerStates
<1>5. DataTypes'
  BY <1>1 DEF Close, DataTypes
<1> QED BY <1>2, <1>3, <1>4, <1>5

\* A counter of units that is below another one can be counted up.
LEMMA CountUp ==
  ASSUME NEW f \in [Conns -> 0..MaxUnits], NEW c \in Conns,
         NEW n \in 0..MaxUnits, f[c] < n
  PROVE  [f EXCEPT ![c] = @ + 1] \in [Conns -> 0..MaxUnits]
<1>1. f[c] + 1 \in 0..MaxUnits
  OBVIOUS
<1> QED BY <1>1

\* The types are kept by every step; the permits by their account.
LEMMA TypeStep ==
  ASSUME IInv, [Next]_vars
  PROVE  TypeOK'
<1>0. permits' \in 0..MaxConns /\ TypeOK /\ Custody
  BY EveryStepMovesPermits, PermitsMoveConserves DEF IInv
<1>1. /\ listener \in {"accept", "acquire", "connect"} /\ stage \in [Conns -> Stages]
      /\ QueueTypes /\ TaskTypes /\ PeerTypes /\ DataTypes
  BY <1>0, TypeParts
<1>2. CASE Accept
  <2>1. NextAccepted \in Conns
    BY <1>0, <1>2, NextAcceptedWaits DEF Accept
  <2>2. QueueTypes'
    BY <1>1, <1>2, <2>1, HeadTailProperties DEF Accept, QueueTypes
  <2>3. stage' \in [Conns -> Stages] /\ listener' = "acquire"
    BY <1>1, <1>2, <2>1 DEF Accept, Stages
  <2>4. TaskTypes' /\ PeerTypes' /\ DataTypes'
    BY <1>1, <1>2 DEF Accept, taskVars, peerVars, dataVars, TaskTypes, PeerTypes, DataTypes
  <2> QED BY <1>0, <2>2, <2>3, <2>4, TypeParts
<1>3. CASE Acquire
  <2>1. /\ UNCHANGED <<current, backlog, stage, taskVars, peerVars, dataVars>>
        /\ listener' = "connect"
    BY <1>3 DEF Acquire
  <2>2. QueueTypes' /\ TaskTypes' /\ PeerTypes' /\ DataTypes'
    BY <1>1, <2>1
       DEF QueueTypes, taskVars, peerVars, dataVars, TaskTypes, PeerTypes, DataTypes
  <2> QED BY <1>0, <1>1, <2>1, <2>2, TypeParts
<1>4. CASE Connected
  <2>1. current \in Conns
    BY <1>0, <1>4, HeldByListener DEF Connected
  <2>2. QueueTypes' /\ listener' = "accept"
    BY <1>1, <1>4 DEF Connected, QueueTypes
  <2>3. stage' \in [Conns -> Stages]
    BY <1>1, <1>4, <2>1 DEF Connected, Stages
  <2>4. PeerTypes'
    BY <1>1, <1>4, <2>1 DEF Connected, PeerTypes, PeerStates
  <2>5. TaskTypes' /\ DataTypes'
    BY <1>1, <1>4 DEF Connected, taskVars, dataVars, TaskTypes, DataTypes
  <2> QED BY <1>0, <2>2, <2>3, <2>4, <2>5, TypeParts
<1>5. CASE GiveUp
  <2>1. current \in Conns /\ Close(current)
    BY <1>0, <1>5, HeldByListener DEF GiveUp
  <2>2. QueueTypes' /\ listener' = "accept"
    BY <1>1, <1>5 DEF GiveUp, QueueTypes
  <2> QED BY <1>0, <2>1, <2>2, CloseTypes, TypeParts
<1>6. ASSUME NEW c \in Conns, HandlerStep(c)
      PROVE  TypeOK'
  <2>1. UNCHANGED <<listener, current, backlog>>
    BY <1>6 DEF HandlerStep, SpawnCopies, JoinC2O, JoinO2C, listenVars
  <2>2. QueueTypes'
    BY <1>1, <2>1 DEF QueueTypes
  <2>3. CASE SpawnCopies(c)
    <3>1. stage' \in [Conns -> Stages]
      BY <1>1, <2>3 DEF SpawnCopies, Stages
    <3>2. TaskTypes'
      BY <1>1, <2>3 DEF SpawnCopies, TaskTypes, TaskStates
    <3>3. PeerTypes' /\ DataTypes'
      BY <1>1, <2>3 DEF SpawnCopies, peerVars, dataVars, PeerTypes, DataTypes
    <3> QED BY <1>0, <1>1, <2>1, <2>2, <3>1, <3>2, <3>3, TypeParts
  <2>4. CASE JoinC2O(c)
    <3>1. stage' \in [Conns -> Stages]
      BY <1>1, <2>4 DEF JoinC2O, Stages
    <3>2. TaskTypes' /\ PeerTypes' /\ DataTypes'
      BY <1>1, <2>4 DEF JoinC2O, taskVars, peerVars, dataVars, TaskTypes, PeerTypes, DataTypes
    <3> QED BY <1>0, <1>1, <2>1, <2>2, <3>1, <3>2, TypeParts
  <2>5. CASE JoinO2C(c)
    <3>1. Close(c)
      BY <2>5 DEF JoinO2C
    <3> QED BY <1>0, <1>1, <2>1, <2>2, <3>1, CloseTypes, TypeParts
  <2> QED BY <1>6, <2>3, <2>4, <2>5 DEF HandlerStep
<1>7. ASSUME NEW c \in Conns, C2OStep(c) \/ O2CStep(c)
      PROVE  TypeOK'
  <2>1. UNCHANGED <<listenVars, stage, peerVars>>
    BY <1>7 DEF C2OStep, O2CStep, ForwardRequest, EndC2O, ForwardResponse, EndO2C
  <2>2. QueueTypes' /\ PeerTypes' /\ UNCHANGED <<listener, stage>>
    BY <1>1, <2>1 DEF QueueTypes, PeerTypes, listenVars, peerVars
  <2>3. TaskTypes'
    <3>1. CASE EndC2O(c)
      BY <1>1, <3>1 DEF EndC2O, TaskTypes, TaskStates
    <3>2. CASE EndO2C(c)
      BY <1>1, <3>2 DEF EndO2C, TaskTypes, TaskStates
    <3>3. CASE ForwardRequest(c) \/ ForwardResponse(c)
      BY <1>1, <3>3 DEF ForwardRequest, ForwardResponse, taskVars, TaskTypes
    <3> QED BY <1>7, <3>1, <3>2, <3>3 DEF C2OStep, O2CStep
  <2>4. DataTypes'
    <3>1. CASE EndC2O(c) \/ EndO2C(c)
      BY <1>1, <3>1 DEF EndC2O, EndO2C, dataVars, DataTypes
    <3>2. CASE ForwardRequest(c)
      BY <1>1, <3>2, CountUp DEF ForwardRequest, DataTypes
    <3>3. CASE ForwardResponse(c)
      BY <1>1, <3>3, CountUp DEF ForwardResponse, DataTypes
    <3> QED BY <1>7, <3>1, <3>2, <3>3 DEF C2OStep, O2CStep
  <2> QED BY <1>0, <1>1, <2>2, <2>3, <2>4, TypeParts
<1>8. ASSUME NEW c \in Conns, PeerStep(c)
      PROVE  TypeOK'
  <2>1. UNCHANGED <<listener, current, taskVars>>
    BY <1>8 DEF PeerStep, ClientConnect, ClientSend, ClientHalfClose, ClientClose,
       OriginRespond, OriginHalfClose, OriginClose, listenVars
  <2>2. TaskTypes'
    BY <1>1, <2>1 DEF taskVars, TaskTypes
  <2>3. QueueTypes' /\ stage' \in [Conns -> Stages]
    <3>1. CASE ClientConnect(c)
      <4>1. QueueTypes'
        BY <1>1, <2>1, <3>1, AppendProperties DEF ClientConnect, QueueTypes
      <4>2. stage' \in [Conns -> Stages]
        BY <1>1, <3>1 DEF ClientConnect, Stages
      <4> QED BY <4>1, <4>2
    <3>2. CASE ~ClientConnect(c)
      <4>1. UNCHANGED <<current, backlog, stage>>
        BY <1>8, <3>2 DEF PeerStep, ClientSend, ClientHalfClose, ClientClose,
           OriginRespond, OriginHalfClose, OriginClose, listenVars
      <4> QED BY <1>1, <4>1 DEF QueueTypes
    <3> QED BY <3>1, <3>2
  <2>4. PeerTypes'
    <3>1. CASE ClientConnect(c) \/ ClientHalfClose(c) \/ ClientClose(c)
      BY <1>1, <3>1 DEF ClientConnect, ClientHalfClose, ClientClose, PeerTypes, PeerStates
    <3>2. CASE OriginHalfClose(c) \/ OriginClose(c)
      BY <1>1, <3>2 DEF OriginHalfClose, OriginClose, PeerTypes, PeerStates
    <3>3. CASE ClientSend(c) \/ OriginRespond(c)
      BY <1>1, <3>3 DEF ClientSend, OriginRespond, peerVars, PeerTypes
    <3> QED BY <1>8, <3>1, <3>2, <3>3 DEF PeerStep
  <2>5. DataTypes'
    <3>1. CASE ClientSend(c)
      BY <1>1, <3>1, CountUp DEF ClientSend, DataTypes
    <3>2. CASE OriginRespond(c)
      BY <1>1, <3>2, CountUp DEF OriginRespond, DataTypes
    <3>3. CASE UNCHANGED dataVars
      BY <1>1, <3>3 DEF dataVars, DataTypes
    <3> QED
      BY <1>8, <3>1, <3>2, <3>3 DEF PeerStep, ClientConnect, ClientHalfClose, ClientClose,
         OriginHalfClose, OriginClose
  <2> QED BY <1>0, <1>1, <2>1, <2>2, <2>3, <2>4, <2>5, TypeParts
<1>9. CASE UNCHANGED vars
  BY <1>0, <1>1, <1>9, TypeParts
     DEF vars, listenVars, taskVars, peerVars, dataVars,
         QueueTypes, TaskTypes, PeerTypes, DataTypes
<1> QED
  BY <1>2, <1>3, <1>4, <1>5, <1>6, <1>7, <1>8, <1>9
     DEF Next, ListenerStep, ConnectRefused, ConnectTimeout

-----------------------------------------------------------------------------
\* accept moves the oldest waiting connection, and no other, from the queue
\* into the hands of listen_loop (line 86).
LEMMA AcceptKeepsCustody ==
  ASSUME TypeOK, Custody, Accept
  PROVE  Custody'
<1> DEFINE tail == Tail(backlog)
<1>1. /\ backlog \in Seq(Conns) /\ tail \in Seq(Conns)
      /\ Len(backlog) \in Nat \ {0} /\ Len(tail) = Len(backlog) - 1
      /\ DOMAIN backlog = 1..Len(backlog) /\ DOMAIN tail = 1..Len(tail)
      /\ \A i \in DOMAIN tail : tail[i] = backlog[i + 1]
  BY HeadTailProperties, LenProperties, EmptySeq DEF Accept, TypeOK
<1> HIDE DEF tail
<1>2. /\ NextAccepted \in Conns /\ NextAccepted = backlog[1]
      /\ stage[NextAccepted] = "backlog"
  BY NextAcceptedWaits DEF Accept
<1>3. /\ backlog' = tail /\ current' = NextAccepted /\ listener' = "acquire"
      /\ \A c \in Conns : stage'[c] = IF c = NextAccepted THEN "held" ELSE stage[c]
      /\ current = None
  BY <1>2 DEF Accept, TypeOK, Custody, tail
<1>4. \A i \in DOMAIN backlog : backlog[i] = NextAccepted <=> i = 1
  BY <1>1, <1>2 DEF Custody
<1>5. ASSUME NEW c \in Conns
      PROVE  stage'[c] = "backlog" <=> \E i \in DOMAIN tail : tail[i] = c
  <2>1. CASE c = NextAccepted
    BY <1>1, <1>3, <1>4, <2>1
  <2>2. CASE c # NextAccepted
    <3>1. ASSUME NEW i \in DOMAIN backlog, backlog[i] = c
          PROVE  i - 1 \in DOMAIN tail /\ tail[i - 1] = c
      BY <1>1, <1>2, <2>2, <3>1
    <3>2. \A i \in DOMAIN tail : i + 1 \in DOMAIN backlog
      BY <1>1
    <3> QED BY <1>1, <1>3, <2>2, <3>1, <3>2 DEF Custody
  <2> QED BY <2>1, <2>2
<1>6. \A i, j \in DOMAIN tail : tail[i] = tail[j] => i = j
  <2>1. \A i \in DOMAIN tail : i \in Nat /\ i + 1 \in DOMAIN backlog
    BY <1>1
  <2>2. \A i, j \in DOMAIN tail : tail[i] = tail[j] => i + 1 = j + 1
    BY <1>1, <2>1 DEF Custody
  <2> QED BY <2>1, <2>2
<1>7. \A c \in Conns : stage'[c] = "held" <=> c = current'
  BY <1>2, <1>3 DEF Custody
<1>8. listener' = "accept" <=> current' = None
  BY <1>2, <1>3
<1> QED BY <1>3, <1>5, <1>6, <1>7, <1>8 DEF Custody

\* A client that connects joins the accept queue at its end, and had no other
\* place in the proxy.
LEMMA ClientConnectKeepsCustody ==
  ASSUME TypeOK, Custody, NEW c \in Conns, ClientConnect(c)
  PROVE  Custody'
<1> DEFINE n == Len(backlog)
           longer == Append(backlog, c)
<1>1. /\ n \in Nat /\ DOMAIN backlog = 1..n /\ DOMAIN longer = 1..(n + 1)
      /\ longer[n + 1] = c
      /\ \A i \in DOMAIN backlog : longer[i] = backlog[i]
  <2>1. backlog \in Seq(Conns)
    BY DEF TypeOK
  <2>2. longer \in Seq(Conns) /\ Len(longer) = n + 1
    BY <2>1, AppendProperties
  <2>3. n \in Nat /\ DOMAIN backlog = 1..n /\ DOMAIN longer = 1..Len(longer)
    BY <2>1, <2>2, LenProperties
  <2> QED BY <2>1, <2>2, <2>3, AppendProperties
<1>2. /\ backlog' = longer /\ current' = current /\ listener' = listener
      /\ \A d \in Conns : stage'[d] = IF d = c THEN "backlog" ELSE stage[d]
      /\ stage[c] = "closed"
  BY DEF ClientConnect, TypeOK
<1> HIDE DEF longer, n
<1>3. \A i \in DOMAIN backlog : backlog[i] # c
  BY <1>2 DEF Custody
<1>4. \A d \in Conns : stage'[d] = "backlog" <=> \E i \in DOMAIN longer : longer[i] = d
  <2>1. n + 1 \in DOMAIN longer /\ DOMAIN longer = DOMAIN backlog \cup {n + 1}
    BY <1>1
  <2> QED BY <1>1, <1>2, <2>1 DEF Custody
<1>5. \A i, j \in DOMAIN longer : longer[i] = longer[j] => i = j
  <2>1. DOMAIN longer = DOMAIN backlog \cup {n + 1}
    BY <1>1
  <2> QED BY <1>1, <1>3, <2>1 DEF Custody
<1>6. \A d \in Conns : stage'[d] = "held" <=> d = current'
  BY <1>2 DEF Custody
<1> QED BY <1>2, <1>4, <1>5, <1>6 DEF Custody

\* The other steps move a connection that is not in the queue: the one that
\* listen_loop holds, which it lets go of, or a handler's (lines 94-126, 174-180).
LEMMA MoveKeepsCustody ==
  ASSUME TypeOK, Custody, NEW c \in Conns, NEW s \in Stages \ {"backlog", "held"},
         stage' = [stage EXCEPT ![c] = s], backlog' = backlog,
         \/ c = current /\ current' = None /\ listener' = "accept"
         \/ stage[c] \notin {"backlog", "held"} /\ UNCHANGED <<current, listener>>
  PROVE  Custody'
<1>1. \A d \in Conns : stage'[d] = IF d = c THEN s ELSE stage[d]
  BY HeldByListener, HandledMoves, Zenon
<1>2. c # None /\ (c = current => stage[c] = "held")
  BY DEF Custody
<1>3. \A d \in Conns : stage'[d] = "backlog" <=> \E i \in DOMAIN backlog' : backlog'[i] = d
  BY <1>1, <1>2 DEF Custody
<1>4. \A d \in Conns : stage'[d] = "held" <=> d = current'
  BY <1>1, <1>2 DEF Custody
<1>5. listener' = "accept" <=> current' = None
  BY DEF Custody
<1> QED BY <1>3, <1>4, <1>5 DEF Custody

\* Every other step leaves the queue alone, and moves a connection that is not
\* in it (lines 94-126, 132-183).
LEMMA CustodyStep ==
  ASSUME TypeOK, Custody, [Next]_vars
  PROVE  Custody'
<1>1. CASE Accept
  BY <1>1, AcceptKeepsCustody
<1>2. CASE Acquire
  BY <1>2 DEF Acquire, Custody
<1>3. CASE Connected \/ GiveUp
  <2>1. /\ current \in Conns /\ backlog' = backlog
        /\ current' = None /\ listener' = "accept"
        /\ \E s \in {"spawned", "closed"} : stage' = [stage EXCEPT ![current] = s]
    BY <1>3, HeldByListener DEF Connected, GiveUp, Close
  <2>2. {"spawned", "closed"} \subseteq Stages \ {"backlog", "held"}
    BY DEF Stages
  <2> QED BY <2>1, <2>2, MoveKeepsCustody, Zenon
<1>4. ASSUME NEW c \in Conns, HandlerStep(c)
      PROVE  Custody'
  <2>1. /\ stage[c] \notin {"backlog", "held"}
        /\ UNCHANGED <<current, listener>> /\ backlog' = backlog
        /\ \E s \in {"await_c2o", "await_o2c", "closed"} : stage' = [stage EXCEPT ![c] = s]
    BY <1>4 DEF HandlerStep, SpawnCopies, JoinC2O, JoinO2C, Close, listenVars
  <2>2. {"await_c2o", "await_o2c", "closed"} \subseteq Stages \ {"backlog", "held"}
    BY DEF Stages
  <2> QED BY <2>1, <2>2, MoveKeepsCustody, Zenon
<1>5. ASSUME NEW c \in Conns, C2OStep(c) \/ O2CStep(c)
      PROVE  Custody'
  BY <1>5 DEF C2OStep, O2CStep, ForwardRequest, EndC2O, ForwardResponse, EndO2C,
     listenVars, Custody
<1>6. ASSUME NEW c \in Conns, PeerStep(c)
      PROVE  Custody'
  <2>1. CASE ClientConnect(c)
    BY <2>1, ClientConnectKeepsCustody
  <2>2. CASE ~ClientConnect(c)
    BY <1>6, <2>2 DEF PeerStep, ClientSend, ClientHalfClose, ClientClose,
       OriginRespond, OriginHalfClose, OriginClose, listenVars, Custody
  <2> QED BY <2>1, <2>2
<1>7. CASE UNCHANGED vars
  BY <1>7 DEF vars, listenVars, Custody
<1> QED
  BY <1>1, <1>2, <1>3, <1>4, <1>5, <1>6, <1>7
     DEF Next, ListenerStep, ConnectRefused, ConnectTimeout

-----------------------------------------------------------------------------
\* The inductive invariant holds in every reachable state of listen_loop, its
\* handlers and their peers (lines 75-183).
THEOREM InductiveInvariant == Spec => []IInv
<1>1. Init => IInv
  <2> SUFFICES ASSUME Init PROVE IInv
    OBVIOUS
  <2>1. TypeOK
    BY EmptySeq DEF Init, TypeOK, Stages, TaskStates, PeerStates
  <2>2. Holders = {}
    BY DEF Init, Holders, Handled
  <2>3. PermitsConserved
    BY <2>2, FS_EmptySet DEF Init, PermitsConserved
  <2>4. Custody
    BY EmptySeq, LenProperties DEF Init, Custody
  <2> QED BY <2>1, <2>3, <2>4 DEF IInv
<1>2. IInv /\ [Next]_vars => IInv'
  <2> SUFFICES ASSUME IInv, [Next]_vars PROVE IInv'
    OBVIOUS
  <2>1. TypeOK'
    BY TypeStep
  <2>2. PermitsConserved'
    BY EveryStepMovesPermits, PermitsMoveConserves
  <2>3. Custody'
    BY CustodyStep DEF IInv
  <2> QED BY <2>1, <2>2, <2>3 DEF IInv
<1> QED BY <1>1, <1>2, PTL DEF Spec

\* Every variable of the proxy keeps its type; the number of permits stays
\* between none and MAX_CONCURRENT_CONNECTIONS (line 83).
THEOREM TypeCorrect == Spec => []TypeOK
BY InductiveInvariant, PTL DEF IInv

\* For any limit and any number of connections no permit is lost or returned
\* twice (lines 83, 95, 109, 114 and 125).
THEOREM PermitsAreConserved == Spec => []PermitsConserved
BY InductiveInvariant, PTL DEF IInv

\* Every connection is in the care of exactly one party: the accept queue,
\* listen_loop or a handler (lines 86-126).
THEOREM EveryConnectionHasOneKeeper == Spec => []Custody
BY InductiveInvariant, PTL DEF IInv

\* The permits bound the sockets: at most one client more than the limit, and
\* no more connections to the origin than the limit (lines 86-95).
THEOREM SocketsAreBounded == Spec => []DescriptorsBounded
<1>1. IInv => DescriptorsBounded
  <2> SUFFICES ASSUME IInv PROVE DescriptorsBounded
    OBVIOUS
  <2> USE DEF IInv
  <2> DEFINE n == Cardinality(Holders)
  <2>1. /\ IsFiniteSet(Holders) /\ n \in Nat
        /\ n <= MaxConns
    BY HoldersFinite DEF TypeOK, PermitsConserved
  <2>2. OriginSockets \subseteq Holders
    BY DEF OriginSockets, Streaming, Holders, Handled
  <2>3. Cardinality(OriginSockets) \in Nat /\ Cardinality(OriginSockets) <= n
    BY <2>1, <2>2, FS_Subset, FS_CardinalityType
  <2>4. ClientSockets \subseteq Holders \cup {current}
    BY DEF ClientSockets, Streaming, Holders, Handled, Custody
  <2>5. /\ IsFiniteSet(Holders \cup {current})
        /\ Cardinality(Holders \cup {current}) \in Nat
        /\ Cardinality(Holders \cup {current}) <= n + 1
    <3>1. /\ IsFiniteSet(Holders \cup {current})
          /\ \/ Cardinality(Holders \cup {current}) = n
             \/ Cardinality(Holders \cup {current}) = n + 1
      BY <2>1, FS_AddElement
    <3> HIDE DEF n
    <3> QED BY <2>1, <3>1
  <2>6. /\ Cardinality(ClientSockets) \in Nat
        /\ Cardinality(ClientSockets) <= Cardinality(Holders \cup {current})
    BY <2>4, <2>5, FS_Subset, FS_CardinalityType
  <2> HIDE DEF n
  <2> QED BY <2>1, <2>3, <2>5, <2>6 DEF DescriptorsBounded
<1> QED BY <1>1, InductiveInvariant, PTL

-----------------------------------------------------------------------------
(* TcpProxy implements Admission.                                          *)

Queue == IF listener = "acquire" THEN <<current>> \o backlog ELSE backlog

\* A step that is none of the abstract ones leaves the queue and the holders.
LEMMA Stutters ==
  ASSUME Queue' = Queue, Holders' = Holders
  PROVE  [Admitted!Next]_(Admitted!vars)
BY DEF Admitted!vars, Queue

\* accept takes the stream from the head of the queue without letting it in: it
\* waits there, in the hands of listen_loop, for a permit (lines 86-95).
LEMMA AcceptImplements ==
  ASSUME IInv, Accept
  PROVE  [Admitted!Next]_(Admitted!vars)
<1> USE DEF IInv
<1>1. backlog \in Seq(Conns) /\ backlog # <<>>
  BY DEF TypeOK, Accept
<1>2. <<Head(backlog)>> \o Tail(backlog) = backlog
  <2> DEFINE s == <<Head(backlog)>>
             t == Tail(backlog)
  <2>1. /\ s \in Seq(Conns) /\ Len(s) = 1 /\ s[1] = backlog[1]
        /\ t \in Seq(Conns) /\ Len(t) = Len(backlog) - 1
        /\ \A i \in 1..Len(t) : t[i] = backlog[i + 1]
    BY <1>1, HeadTailProperties
  <2>2. Len(backlog) \in Nat
    BY <1>1, LenProperties
  <2> HIDE DEF s, t
  <2>3. /\ s \o t \in Seq(Conns)
        /\ Len(s \o t) = Len(backlog)
        /\ \A i \in 1..Len(backlog) : (s \o t)[i] = IF i <= 1 THEN s[i] ELSE t[i - 1]
    <3>1. /\ s \o t \in Seq(Conns) /\ Len(s \o t) = Len(s) + Len(t)
          /\ \A i \in 1..Len(s) + Len(t) :
               (s \o t)[i] = IF i <= Len(s) THEN s[i] ELSE t[i - Len(s)]
      BY <2>1, ConcatProperties, Zenon
    <3>2. Len(s) + Len(t) = Len(backlog)
      BY <2>1, <2>2
    <3> QED BY <2>1, <3>1, <3>2
  <2>4. \A i \in 1..Len(backlog) : (s \o t)[i] = backlog[i]
    BY <2>1, <2>2, <2>3
  <2>5. s \o t = backlog
    BY <1>1, <2>3, <2>4, SeqEqual, Zenon
  <2> QED BY <2>5 DEF s, t
<1>3. Queue' = Queue
  BY <1>2 DEF Accept, NextAccepted, Queue
<1>4. Holders' = Holders
  BY HoldersMove
<1> QED BY <1>3, <1>4, Stutters

\* A permit lets in the stream that listen_loop holds, the oldest one (line 95).
LEMMA AcquireImplements ==
  ASSUME IInv, Acquire
  PROVE  Admitted!Admit
<1> USE DEF IInv
<1>1. backlog \in Seq(Conns) /\ current \in Conns
  BY DEF TypeOK, Custody, Acquire
<1>2. Queue = <<current>> \o backlog /\ Queue' = backlog
  BY DEF Acquire, Queue
<1>3. Queue # <<>> /\ Head(Queue) = current /\ Tail(Queue) = backlog
  <2> DEFINE s == <<current>>
  <2>1. s \in Seq(Conns) /\ Len(s) = 1 /\ s[1] = current
    BY <1>1
  <2>2. Len(backlog) \in Nat
    BY <1>1, LenProperties
  <2>3. /\ Queue \in Seq(Conns) /\ Len(Queue) = Len(backlog) + 1
        /\ \A i \in 1..Len(Queue) : Queue[i] = IF i <= 1 THEN s[i] ELSE backlog[i - 1]
    BY <1>1, <1>2, <2>1, <2>2, ConcatProperties
  <2>4. Queue # <<>> /\ Queue[1] = current
    BY <2>1, <2>2, <2>3
  <2>5. /\ Head(Queue) = current
        /\ Tail(Queue) \in Seq(Conns) /\ Len(Tail(Queue)) = Len(backlog)
        /\ \A i \in 1..Len(backlog) : Tail(Queue)[i] = Queue[i + 1]
    BY <2>2, <2>3, <2>4, HeadTailProperties
  <2>6. \A i \in 1..Len(backlog) : Tail(Queue)[i] = backlog[i]
    BY <2>2, <2>3, <2>5
  <2>7. Tail(Queue) = backlog
    BY <1>1, <2>5, <2>6, SeqEqual
  <2> QED BY <2>4, <2>5, <2>7
<1>4. Cardinality(Holders) < MaxConns
  <2>1. Cardinality(Holders) \in Nat
    BY HoldersFinite
  <2> QED BY <2>1 DEF TypeOK, PermitsConserved, Acquire, TakePermit
<1>5. Holders' = Holders \cup {current}
  BY HoldersMove
<1>6. Admitted!Cardinality(Holders) = Cardinality(Holders)
  BY DEF Admitted!Cardinality, Cardinality
<1>7. Queue' = Tail(Queue) /\ Holders' = Holders \cup {Head(Queue)}
  BY <1>2, <1>3, <1>5
<1> QED BY <1>3, <1>4, <1>6, <1>7, Zenon DEF Admitted!Admit, Queue

\* A client that connects is behind everybody that waits.
LEMMA ClientConnectImplements ==
  ASSUME IInv, NEW c \in Conns, ClientConnect(c)
  PROVE  Admitted!Arrive(c)
<1> USE DEF IInv
<1>1. backlog \in Seq(Conns)
  BY DEF TypeOK
<1>2. Holders' = Holders
  BY HoldersMove
<1>3. c \notin Holders
  <2>1. c \notin Handled /\ (listener = "connect" => c # current)
    BY HeldByListener DEF ClientConnect, Handled
  <2> QED BY <2>1, WhoHolds
<1>4. CASE listener # "acquire"
  <2>1. Queue = backlog /\ Queue' = Append(Queue, c)
    BY <1>4 DEF ClientConnect, Queue
  <2>2. \A i \in DOMAIN Queue : Queue[i] # c
    BY <2>1 DEF ClientConnect, Custody
  <2> QED BY <1>2, <1>3, <2>1, <2>2, Zenon DEF Admitted!Arrive, Admitted!Waiting, Queue
<1>5. CASE listener = "acquire"
  <2> DEFINE s == <<current>>
  <2>1. /\ current \in Conns /\ current # c
        /\ s \in Seq(Conns) /\ Len(s) = 1 /\ s[1] = current
        /\ Len(backlog) \in Nat /\ DOMAIN backlog = 1..Len(backlog)
    BY <1>1, <1>5, LenProperties DEF ClientConnect, TypeOK, Custody
  <2>2. Queue = s \o backlog /\ Queue' = s \o Append(backlog, c)
    BY <1>5 DEF ClientConnect, Queue
  <2> HIDE DEF s
  <2>3. Queue' = Append(Queue, c)
    <3>1. Append(backlog, c) = backlog \o <<c>> /\ <<c>> \in Seq(Conns)
      BY <1>1, AppendIsConcat
    <3>2. s \o (backlog \o <<c>>) = (s \o backlog) \o <<c>>
      BY <1>1, <2>1, <3>1, ConcatAssociative
    <3>3. s \o backlog \in Seq(Conns)
      BY <1>1, <2>1, ConcatProperties
    <3>4. Append(s \o backlog, c) = (s \o backlog) \o <<c>>
      BY <3>3, AppendIsConcat
    <3> QED BY <2>2, <3>1, <3>2, <3>4
  <2>4. \A i \in DOMAIN Queue : Queue[i] # c
    <3>1. /\ Queue \in Seq(Conns) /\ Len(Queue) = Len(backlog) + 1
          /\ \A i \in 1..Len(Queue) :
               Queue[i] = IF i <= 1 THEN s[i] ELSE backlog[i - 1]
      <4>1. /\ Queue \in Seq(Conns) /\ Len(Queue) = Len(s) + Len(backlog)
            /\ \A i \in 1..Len(s) + Len(backlog) :
                 Queue[i] = IF i <= Len(s) THEN s[i] ELSE backlog[i - Len(s)]
        BY <1>1, <2>1, <2>2, ConcatProperties, Zenon
      <4> QED BY <2>1, <4>1
    <3>2. DOMAIN Queue = 1..Len(Queue)
      BY <3>1, LenProperties
    <3>3. \A i \in DOMAIN backlog : backlog[i] # c
      BY DEF ClientConnect, Custody
    <3> QED BY <2>1, <3>1, <3>2, <3>3
  <2> QED BY <1>2, <1>3, <2>3, <2>4, Zenon DEF Admitted!Arrive, Admitted!Waiting, Queue
<1> QED BY <1>4, <1>5

\* Giving up on the origin, and the end of a handler, let one connection out
\* (lines 110, 115 and 125).
LEMMA LeaveImplements ==
  ASSUME IInv, GiveUp \/ \E c \in Conns : JoinO2C(c)
  PROVE  \E c \in Conns : Admitted!Leave(c)
<1> USE DEF IInv
<1>1. CASE GiveUp
  <2>1. current \in Conns /\ Queue' = Queue
    BY <1>1, HeldByListener DEF GiveUp, Queue
  <2>2. current \in Holders /\ Holders' = Holders \ {current}
    BY <1>1, HoldersMove
  <2> QED BY <2>1, <2>2, Zenon DEF Admitted!Leave, Queue
<1>2. ASSUME NEW c \in Conns, JoinO2C(c)
      PROVE  Admitted!Leave(c)
  <2>1. Queue' = Queue
    BY <1>2 DEF JoinO2C, Queue
  <2>2. c \in Holders /\ Holders' = Holders \ {c}
    BY <1>2, HoldersMove
  <2> QED BY <2>1, <2>2, Zenon DEF Admitted!Leave, Queue
<1> QED BY <1>1, <1>2

\* Every step of the proxy is a step of Admission or a stutter.
LEMMA StepImplements ==
  ASSUME IInv, [Next]_vars
  PROVE  [Admitted!Next]_(Admitted!vars)
<1>1. CASE Accept
  BY <1>1, AcceptImplements
<1>2. CASE Acquire
  BY <1>2, AcquireImplements DEF Admitted!Next
<1>3. CASE GiveUp \/ \E c \in Conns : JoinO2C(c)
  BY <1>3, LeaveImplements DEF Admitted!Next
<1>4. ASSUME NEW c \in Conns, ClientConnect(c)
      PROVE  [Admitted!Next]_(Admitted!vars)
  BY <1>4, ClientConnectImplements DEF Admitted!Next
<1>5. CASE Connected
  <2>1. Holders' = Holders /\ Queue' = Queue
    BY <1>5, HoldersMove DEF IInv, Connected, Queue
  <2> QED BY <2>1, Stutters
<1>6. ASSUME NEW c \in Conns, SpawnCopies(c) \/ JoinC2O(c)
      PROVE  [Admitted!Next]_(Admitted!vars)
  <2>1. Queue' = Queue
    BY <1>6 DEF SpawnCopies, JoinC2O, Queue, listenVars
  <2>2. Holders' = Holders
    BY <1>6, HoldersMove DEF IInv
  <2> QED BY <2>1, <2>2, Stutters
<1>7. ASSUME NEW c \in Conns, C2OStep(c) \/ O2CStep(c)
      PROVE  [Admitted!Next]_(Admitted!vars)
  <2>1. Holders' = Holders /\ Queue' = Queue
    BY <1>7 DEF C2OStep, O2CStep, ForwardRequest, EndC2O, ForwardResponse, EndO2C,
       Holders, Handled, Queue, listenVars
  <2> QED BY <2>1, Stutters
<1>8. ASSUME NEW c \in Conns, PeerStep(c), ~ClientConnect(c)
      PROVE  [Admitted!Next]_(Admitted!vars)
  <2>1. Holders' = Holders /\ Queue' = Queue
    BY <1>8 DEF PeerStep, ClientSend, ClientHalfClose, ClientClose, OriginRespond,
       OriginHalfClose, OriginClose, Holders, Handled, Queue, listenVars
  <2> QED BY <2>1, Stutters
<1>9. CASE UNCHANGED vars
  <2>1. Holders' = Holders /\ Queue' = Queue
    BY <1>9 DEF vars, listenVars, Holders, Handled, Queue
  <2> QED BY <2>1, Stutters
<1> QED
  BY <1>1, <1>2, <1>3, <1>4, <1>5, <1>6, <1>7, <1>8, <1>9
     DEF Next, ListenerStep, HandlerStep, ConnectRefused, ConnectTimeout

\* listen_loop and its semaphore admit connections in the order they arrived,
\* at most MAX_CONCURRENT_CONNECTIONS at a time (lines 85-126).
THEOREM ProxyImplementsAdmission == Spec => ImplementsAdmission
<1>1. Init => Admitted!Init
  BY DEF Init, Admitted!Init, Holders, Handled
<1>2. IInv /\ [Next]_vars => [Admitted!Next]_(Admitted!vars)
  BY StepImplements
<1> QED
  BY <1>1, <1>2, InductiveInvariant, PTL
     DEF Spec, ImplementsAdmission, Admitted!Spec
=============================================================================
