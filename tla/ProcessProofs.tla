---------------------------- MODULE ProcessProofs ----------------------------
(* Proofs about Process, for every finite set of connections, every limit and   *)
(* every number of generations.                                                 *)
EXTENDS Process, FiniteSetTheorems, TLAPS

-----------------------------------------------------------------------------
(* The data plane and the connection limit share no variable, so each has an    *)
(* inductive invariant of its own: a step of the process is one of theirs, or   *)
(* leaves them alone.                                                           *)

PlaneNext ==
    \/ \E r \in Requests : Arrive(r) \/ Handle(r)
    \/ Reconfigure
    \/ \E g \in Generations : LoopEnds(g)
    \/ Close

ConnNext ==
    \/ TakeSlot
    \/ \E c \in Connections : AcceptConnection(c)
    \/ \E next \in {"take", "failed", "closed"} : AcceptFails(next)
    \/ CloseListener
    \/ \E c \in Connections : CloseOwn(c) \/ ReleaseOwn(c) \/ SweepIdle(c)
    \/ ReleaseSwept

LEMMA Projections == [Next]_vars => [PlaneNext]_planeVars /\ [ConnNext]_connVars
<1> SUFFICES ASSUME [Next]_vars
             PROVE  [PlaneNext]_planeVars /\ [ConnNext]_connVars
  OBVIOUS
<1> USE ProcessAssumption DEF vars, PlaneNext, ConnNext
<1>1. ASSUME NEW c \in Connections, Request(c) \/ Serve(c)
      PROVE  PlaneNext /\ UNCHANGED connVars
  BY <1>1 DEF Request, Serve
<1>2. ASSUME NEW c \in Connections, CloseConnection(c)
      PROVE  ConnNext /\ UNCHANGED planeVars
  BY <1>2 DEF CloseConnection
<1>3. CASE Accept
  BY <1>3 DEF Accept
<1>4. CASE Activate
  BY <1>4 DEF Activate
<1>5. CASE HealthLoop
  BY <1>5 DEF HealthLoop
<1>6. CASE DrainStep
  <2>1. CASE BeginDrain \/ CloseControl \/ PublicDrained
    BY <2>1 DEF BeginDrain, CloseControl, PublicDrained
  <2>2. CASE ClosePublic
    BY <2>2 DEF ClosePublic
  <2>3. CASE Sweep
    BY <2>3 DEF Sweep
  <2>4. CASE CloseRuntime
    BY <2>4 DEF CloseRuntime
  <2> QED
    BY <1>6, <2>1, <2>2, <2>3, <2>4 DEF DrainStep
<1>7. CASE \/ PublicReturns \/ AdminRequest \/ AdminAnswer \/ Signal \/ DeadlinePasses \/ MainEnds
           \/ \E error \in {"closed", "failed"} : ControlReturns(error)
  BY <1>7 DEF PublicReturns, AdminRequest, AdminAnswer, Signal, DeadlinePasses, MainEnds,
              ControlReturns
<1>8. CASE UNCHANGED vars
  BY <1>8
<1> QED
  BY <1>1, <1>2, <1>3, <1>4, <1>5, <1>6, <1>7, <1>8 DEF Next

-----------------------------------------------------------------------------
(* The data plane.                                                              *)

\* Where a reconfiguration is, and which health loops nobody has told to end then: those
\* of the generation being served, of the one that is about to be, and of the one that
\* was until now.
ReconfigurationInv ==
    /\ manager \in {"free", "swap"} => retiring = current
    /\ manager \in {"free", "stop"} => built = current
    /\ \A g \in Generations : loop[g] = "running" /\ g \notin cancelled =>
          \/ g = current
          \/ manager = "swap" /\ g = built
          \/ manager = "stop" /\ g = retiring

PlaneInv == PlaneTypeOK /\ ReconfigurationInv /\ SlotsMatchRequests

LEMMA HoldersFinite ==
    ASSUME NEW g
    PROVE  IsFiniteSet(Holders(g)) /\ Cardinality(Holders(g)) \in Nat
<1>1. Holders(g) \subseteq Requests
  BY DEF Holders
<1> QED
  BY <1>1, DataPlaneAssumption, FS_Subset, FS_CardinalityType

LEMMA InitPlane == PlaneInit => PlaneInv
<1> SUFFICES ASSUME PlaneInit PROVE PlaneInv
  OBVIOUS
<1> USE DataPlaneAssumption DEF PlaneInit, Generations
<1>1. PlaneTypeOK
  BY DEF PlaneTypeOK
<1>2. ReconfigurationInv
  BY DEF ReconfigurationInv
<1>3. \A g \in Generations : Holders(g) = {}
  BY DEF Holders
<1>4. SlotsMatchRequests
  <2>1. \A g \in Generations : slots[g] = 0 /\ 0 <= limit[g]
    BY <1>1 DEF PlaneTypeOK
  <2>2. Cardinality({}) = 0
    BY FS_EmptySet
  <2> HIDE DEF PlaneInit
  <2> QED
    BY <1>3, <2>1, <2>2 DEF SlotsMatchRequests
<1> QED
  BY <1>1, <1>2, <1>4 DEF PlaneInv

\* What a step leaves alone keeps the slots in order.
LEMMA SlotsStay ==
    ASSUME PlaneInv, UNCHANGED slots,
           \A g \in Generations : Holders(g)' = Holders(g) /\ limit'[g] >= slots[g]
    PROVE  SlotsMatchRequests'
  BY DEF PlaneInv, SlotsMatchRequests, Generations

LEMMA PlaneTypeStep == PlaneTypeOK /\ [PlaneNext]_planeVars => PlaneTypeOK'
<1> SUFFICES ASSUME PlaneTypeOK, [PlaneNext]_planeVars PROVE PlaneTypeOK'
  OBVIOUS
<1> USE DataPlaneAssumption DEF PlaneTypeOK, Generations, planeVars, runtimeVars, handlerVars
<1>1. ASSUME NEW r \in Requests, Arrive(r) PROVE PlaneTypeOK'
  BY <1>1 DEF Arrive
<1>2. ASSUME NEW r \in Requests, Load(r) PROVE PlaneTypeOK'
  BY <1>2 DEF Load
<1>3. ASSUME NEW r \in Requests, Acquire(r) PROVE PlaneTypeOK'
  BY <1>3 DEF Acquire
<1>4. ASSUME NEW r \in Requests, Busy(r) PROVE PlaneTypeOK'
  BY <1>4 DEF Busy
<1>5. ASSUME NEW r \in Requests, Finish(r) PROVE PlaneTypeOK'
  BY <1>5 DEF Finish, SlotOf
<1>6. ASSUME NEW n \in Limits, NEW loops \in {"none", "running"}, Build(n, loops)
      PROVE  PlaneTypeOK'
  BY <1>6 DEF Build
<1>7. CASE Swap
  BY <1>7 DEF Swap
<1>8. CASE StopPrevious
  BY <1>8 DEF StopPrevious, Stopped
<1>9. ASSUME NEW g \in Generations, LoopEnds(g) PROVE PlaneTypeOK'
  BY <1>9 DEF LoopEnds
<1>10. CASE Close
  BY <1>10 DEF Close
<1>11. CASE UNCHANGED planeVars
  BY <1>11
<1> QED
  BY <1>1, <1>2, <1>3, <1>4, <1>5, <1>6, <1>7, <1>8, <1>9, <1>10, <1>11
     DEF PlaneNext, Handle, Reconfigure

LEMMA ReconfigurationStep == PlaneInv /\ [PlaneNext]_planeVars => ReconfigurationInv'
<1> SUFFICES ASSUME PlaneInv, [PlaneNext]_planeVars PROVE ReconfigurationInv'
  OBVIOUS
<1> USE DEF PlaneInv, PlaneTypeOK, ReconfigurationInv, Generations, planeVars, runtimeVars
<1>1. ASSUME NEW r \in Requests, Arrive(r) \/ Handle(r) PROVE ReconfigurationInv'
  BY <1>1 DEF Arrive, Handle, Load, Acquire, Busy, Finish
<1>2. ASSUME NEW n \in Limits, NEW loops \in {"none", "running"}, Build(n, loops)
      PROVE  ReconfigurationInv'
  BY <1>2 DEF Build
<1>3. CASE Swap
  BY <1>3 DEF Swap
<1>4. CASE StopPrevious
  BY <1>4 DEF StopPrevious, Stopped
<1>5. ASSUME NEW g \in Generations, LoopEnds(g) PROVE ReconfigurationInv'
  BY <1>5 DEF LoopEnds
<1>6. CASE Close
  BY <1>6 DEF Close
<1>7. CASE UNCHANGED planeVars
  BY <1>7
<1> QED
  BY <1>1, <1>2, <1>3, <1>4, <1>5, <1>6, <1>7 DEF PlaneNext, Reconfigure

\* A step changes the holders of one generation by one request, together with its slots,
\* or changes neither.
LEMMA SlotsStep == PlaneInv /\ [PlaneNext]_planeVars => SlotsMatchRequests'
<1> SUFFICES ASSUME PlaneInv, [PlaneNext]_planeVars PROVE SlotsMatchRequests'
  OBVIOUS
<1> USE DataPlaneAssumption DEF PlaneInv, PlaneTypeOK, Generations, planeVars, runtimeVars, handlerVars
<1>1. ASSUME NEW r \in Requests, Arrive(r) \/ Load(r) \/ Busy(r) PROVE SlotsMatchRequests'
  <2>1. \A g \in Generations : Holders(g)' = Holders(g)
    BY <1>1 DEF Arrive, Load, Busy, Holders
  <2> QED
    BY <1>1, <2>1, SlotsStay DEF Arrive, Load, Busy, SlotsMatchRequests
<1>2. ASSUME NEW r \in Requests, Acquire(r) PROVE SlotsMatchRequests'
  <2> DEFINE h == gen[r]
  <2>1. \A g \in Generations : Holders(g)' = IF g = h THEN Holders(g) \cup {r} ELSE Holders(g)
    BY <1>2 DEF Acquire, Holders
  <2>2. r \notin Holders(h)
    BY <1>2 DEF Acquire, Holders
  <2>3. Cardinality(Holders(h) \cup {r}) = Cardinality(Holders(h)) + 1
    BY <2>2, HoldersFinite, FS_AddElement
  <2>4. \A g \in Generations : slots'[g] = IF g = h THEN slots[g] + 1 ELSE slots[g]
    BY <1>2 DEF Acquire
  <2>5. limit' = limit /\ slots[h] < limit[h] /\ h \in Generations
    BY <1>2 DEF Acquire
  <2>6. \A g \in Generations : limit[g] \in Nat
    BY DataPlaneAssumption
  <2>7. slots[h] = Cardinality(Holders(h)) /\ slots[h] <= limit[h] /\ slots[h] \in Nat
    BY <2>5 DEF SlotsMatchRequests
  <2>8. \A g \in Generations \ {h} : slots[g] = Cardinality(Holders(g)) /\ slots[g] <= limit[g]
    BY DEF SlotsMatchRequests
  <2>9. SUFFICES ASSUME NEW g \in Generations
                 PROVE  slots'[g] = Cardinality(Holders(g)') /\ slots'[g] <= limit'[g]
    BY DEF SlotsMatchRequests
  <2> HIDE DEF PlaneInv, PlaneTypeOK, h
  <2>10. CASE g = h
    BY <2>1, <2>3, <2>4, <2>5, <2>6, <2>7, <2>10
  <2>11. CASE g # h
    BY <2>1, <2>4, <2>5, <2>8, <2>11
  <2> QED
    BY <2>10, <2>11
<1>3. ASSUME NEW r \in Requests, Finish(r) PROVE SlotsMatchRequests'
  <2> DEFINE h == gen[r]
  <2>1. \A g \in Generations : Holders(g)' = IF g = h THEN Holders(g) \ {r} ELSE Holders(g)
    BY <1>3 DEF Finish, Holders
  <2>2. r \in Holders(h)
    BY <1>3 DEF Finish, Holders
  <2>3. Cardinality(Holders(h) \ {r}) = Cardinality(Holders(h)) - 1
    BY <2>2, HoldersFinite, FS_RemoveElement
  <2>4. \A g \in Generations : slots'[g] = IF g = h THEN slots[g] - 1 ELSE slots[g]
    BY <1>3 DEF Finish, SlotOf
  <2>5. limit' = limit /\ h \in Generations
    BY <1>3 DEF Finish
  <2>6. \A g \in Generations : limit[g] \in Nat
    BY DataPlaneAssumption
  <2>7. slots[h] = Cardinality(Holders(h)) /\ slots[h] <= limit[h] /\ slots[h] \in Nat
    BY <2>5 DEF SlotsMatchRequests
  <2>8. \A g \in Generations \ {h} : slots[g] = Cardinality(Holders(g)) /\ slots[g] <= limit[g]
    BY DEF SlotsMatchRequests
  <2>9. SUFFICES ASSUME NEW g \in Generations
                 PROVE  slots'[g] = Cardinality(Holders(g)') /\ slots'[g] <= limit'[g]
    BY DEF SlotsMatchRequests
  <2> HIDE DEF PlaneInv, PlaneTypeOK, h
  <2>10. CASE g = h
    <3>1. slots'[g] = slots[h] - 1 /\ Cardinality(Holders(g)') = Cardinality(Holders(h)) - 1
      BY <2>1, <2>3, <2>4, <2>10
    <3>2. limit'[g] = limit[h] /\ limit[h] \in Nat
      BY <2>5, <2>6, <2>10
    <3> QED
      BY <2>7, <3>1, <3>2
  <2>11. CASE g # h
    BY <2>1, <2>4, <2>5, <2>8, <2>11
  <2> QED
    BY <2>10, <2>11
<1>4. ASSUME NEW n \in Limits, NEW loops \in {"none", "running"}, Build(n, loops)
      PROVE  SlotsMatchRequests'
  \* Nobody has a slot of a generation that does not exist yet.
  <2>1. Holders(built + 1) = {} /\ slots[built + 1] = 0
    <3>1. Holders(built + 1) = {}
      BY DEF Holders
    <3>2. built + 1 \in Generations
      BY <1>4 DEF Build
    <3> QED
      BY <3>1, <3>2, FS_EmptySet DEF SlotsMatchRequests
  <2>2. \A g \in Generations : Holders(g)' = Holders(g)
    BY <1>4 DEF Build, Holders
  <2>3. \A g \in Generations : limit'[g] >= slots[g]
    BY <1>4, <2>1, DataPlaneAssumption DEF Build, SlotsMatchRequests
  <2> QED
    BY <1>4, <2>2, <2>3, SlotsStay DEF Build
<1>5. CASE Swap \/ StopPrevious \/ (\E g \in Generations : LoopEnds(g)) \/ Close \/ UNCHANGED planeVars
  <2>1. UNCHANGED <<slots, limit, pc, gen>>
    BY <1>5 DEF Swap, StopPrevious, LoopEnds, Close
  <2>2. \A g \in Generations : Holders(g)' = Holders(g)
    BY <2>1 DEF Holders
  <2> QED
    BY <2>1, <2>2, SlotsStay DEF SlotsMatchRequests
<1> QED
  BY <1>1, <1>2, <1>3, <1>4, <1>5 DEF PlaneNext, Handle, Reconfigure

LEMMA PlaneInvStep == PlaneInv /\ [PlaneNext]_planeVars => PlaneInv'
  BY PlaneTypeStep, ReconfigurationStep, SlotsStep DEF PlaneInv

-----------------------------------------------------------------------------
(* The connection limit.                                                        *)

\* As long as Shutdown has closed nothing, a connection has its release function exactly
\* if its goroutine has not closed it; once it closes connections there are no new ones.
\* A goroutine about to release what is released already lost the race to Shutdown, and
\* Shutdown in the same place lost it to the goroutine, which is done.
ReleaseInv ==
    /\ swept # {} => ~listening
    /\ sweeper = "release" <=> sweeping # Nobody
    /\ sweeping \in swept \cup {Nobody}
    /\ swept = {} => \A c \in Connections : release[c] <=> server[c] # "none"
    /\ \A c \in Connections : ~release[c] =>
          /\ server[c] = "release" => c \in swept
          /\ sweeping = c => server[c] = "none"

ConnInv == ConnTypeOK /\ ReleaseInv /\ SlotsMatchConnections

LEMMA HoldingFinite == IsFiniteSet(Holding) /\ Cardinality(Holding) \in Nat
<1>1. Holding \subseteq Connections
  BY DEF Holding
<1> QED
  BY <1>1, ConnectionAssumption, FS_Subset, FS_CardinalityType

LEMMA ClosedFinite == ConnTypeOK => IsFiniteSet(ClosedByBoth) /\ Cardinality(ClosedByBoth) \in Nat
<1>1. ConnTypeOK => ClosedByBoth \subseteq Connections
  BY DEF ConnTypeOK, ClosedByBoth
<1> QED
  BY <1>1, ConnectionAssumption, FS_Subset, FS_CardinalityType

LEMMA InitConn == ConnInit => ConnInv
<1> SUFFICES ASSUME ConnInit PROVE ConnInv
  OBVIOUS
<1> USE ConnectionAssumption
<1>1. ConnTypeOK
  BY DEF ConnInit, ConnTypeOK
<1>2. ReleaseInv
  BY DEF ConnInit, ReleaseInv
<1>3. Holding = {} /\ ClosedByBoth = {} /\ Cardinality({}) = 0
  BY FS_EmptySet DEF ConnInit, Holding, ClosedByBoth
<1>4. SlotsMatchConnections
  BY <1>3 DEF ConnInit, SlotsMatchConnections, Waiting
<1> QED
  BY <1>1, <1>2, <1>4 DEF ConnInv

\* Counts when nothing is released, when a holder's token goes and when another's does.
LEMMA TokenArithmetic ==
    ASSUME NEW held \in Nat, NEW waiting \in Nat, NEW closed \in Nat, NEW count \in Nat,
           NEW waits \in Nat, NEW closes \in Nat, NEW left \in Nat,
           count <= held + waiting, held + waiting <= count + closed
    PROVE  /\ left + waiting = count + waits /\ closed <= closes =>
                left <= held + waits /\ held + waits <= left + closes
           /\ left = count - 1 /\ closed <= closes =>
                left <= held - 1 + waiting /\ held - 1 + waiting <= left + closes
           /\ left = count - 1 /\ closed + 1 <= closes =>
                left <= held + waiting /\ held + waiting <= left + closes
  OBVIOUS

LEMMA ConnTypeStep == ConnTypeOK /\ [ConnNext]_connVars => ConnTypeOK'
<1> SUFFICES ASSUME ConnTypeOK, [ConnNext]_connVars PROVE ConnTypeOK'
  OBVIOUS
<1> USE ConnectionAssumption DEF ConnTypeOK, connVars
<1>1. CASE TakeSlot
  BY <1>1 DEF TakeSlot, TokenFree
<1>2. ASSUME NEW c \in Connections, AcceptConnection(c) PROVE ConnTypeOK'
  BY <1>2 DEF AcceptConnection
<1>3. ASSUME NEW next \in {"take", "failed", "closed"}, AcceptFails(next) PROVE ConnTypeOK'
  BY <1>3 DEF AcceptFails, TokensAfterError
<1>4. CASE CloseListener
  BY <1>4 DEF CloseListener
<1>5. ASSUME NEW c \in Connections, CloseOwn(c) PROVE ConnTypeOK'
  BY <1>5 DEF CloseOwn
<1>6. ASSUME NEW c \in Connections, ReleaseOwn(c) PROVE ConnTypeOK'
  BY <1>6 DEF ReleaseOwn
<1>7. ASSUME NEW c \in Connections, SweepIdle(c) PROVE ConnTypeOK'
  BY <1>7 DEF SweepIdle
<1>8. CASE ReleaseSwept
  <2>1. release' \in [Connections -> BOOLEAN]
    BY <1>8 DEF ReleaseSwept
  <2>2. tokens' \in 0 .. MaxConnections
    BY <1>8 DEF ReleaseSwept
  <2> QED
    BY <1>8, <2>1, <2>2 DEF ReleaseSwept
<1>9. CASE UNCHANGED connVars
  BY <1>9
<1> QED
  BY <1>1, <1>2, <1>3, <1>4, <1>5, <1>6, <1>7, <1>8, <1>9 DEF ConnNext

LEMMA ReleaseStep == ConnInv /\ [ConnNext]_connVars => ReleaseInv'
<1> SUFFICES ASSUME ConnInv, [ConnNext]_connVars PROVE ReleaseInv'
  OBVIOUS
<1> USE ConnectionAssumption DEF ConnInv, ConnTypeOK, ReleaseInv, connVars
<1>1. CASE TakeSlot
  BY <1>1 DEF TakeSlot
<1>2. ASSUME NEW c \in Connections, AcceptConnection(c) PROVE ReleaseInv'
  BY <1>2 DEF AcceptConnection
<1>3. ASSUME NEW next \in {"take", "failed", "closed"}, AcceptFails(next) PROVE ReleaseInv'
  BY <1>3 DEF AcceptFails
<1>4. CASE CloseListener
  BY <1>4 DEF CloseListener
<1>5. ASSUME NEW c \in Connections, CloseOwn(c) PROVE ReleaseInv'
  BY <1>5 DEF CloseOwn
<1>6. ASSUME NEW c \in Connections, ReleaseOwn(c) PROVE ReleaseInv'
  BY <1>6 DEF ReleaseOwn
<1>7. ASSUME NEW c \in Connections, SweepIdle(c) PROVE ReleaseInv'
  BY <1>7 DEF SweepIdle
<1>8. CASE ReleaseSwept
  BY <1>8 DEF ReleaseSwept
<1>9. CASE UNCHANGED connVars
  BY <1>9
<1> QED
  BY <1>1, <1>2, <1>3, <1>4, <1>5, <1>6, <1>7, <1>8, <1>9 DEF ConnNext

\* Tokens follow those who hold one: Accept takes its token before there is a connection,
\* and who takes one out without being the one who clears the release function is the
\* second to close its connection.
LEMMA TokensStep == ConnInv /\ [ConnNext]_connVars => SlotsMatchConnections'
<1> SUFFICES ASSUME ConnInv, [ConnNext]_connVars PROVE SlotsMatchConnections'
  OBVIOUS
<1> DEFINE held   == Cardinality(Holding)
           closed == Cardinality(ClosedByBoth)
<1> USE ConnectionAssumption
<1>1. /\ held \in Nat /\ IsFiniteSet(Holding) /\ closed \in Nat /\ IsFiniteSet(ClosedByBoth)
      /\ tokens \in Nat /\ MaxConnections \in Nat
      /\ release \in [Connections -> BOOLEAN]
      /\ server \in [Connections -> {"none", "open", "release"}]
  BY HoldingFinite, ClosedFinite DEF ConnInv, ConnTypeOK
<1>2. tokens' \in Nat /\ closed' \in Nat /\ IsFiniteSet(ClosedByBoth')
  <2>1. tokens' \in Nat /\ ClosedByBoth' \subseteq Connections
    BY ConnTypeStep DEF ConnInv, ConnTypeOK, ClosedByBoth
  <2> QED
    BY <2>1, FS_Subset, FS_CardinalityType
<1>3. Waiting \in Nat /\ Waiting' \in Nat /\ held \in Nat /\ closed \in Nat
  BY <1>1 DEF Waiting
<1>11. PICK left \in Nat, closes \in Nat, waits \in Nat :
          tokens' = left /\ closed' = closes /\ Waiting' = waits
  BY <1>2, <1>3
<1>4. /\ tokens <= held + Waiting
      /\ held + Waiting <= tokens + closed
      /\ held <= MaxConnections
  BY DEF ConnInv, SlotsMatchConnections
<1>5. ASSUME ClosedByBoth \subseteq ClosedByBoth' PROVE closed <= closed'
  BY <1>2, <1>5, FS_Subset
<1>6. CASE \/ TakeSlot \/ (\E next \in {"take", "failed", "closed"} : AcceptFails(next))
           \/ CloseListener \/ (\E c \in Connections : CloseOwn(c) \/ SweepIdle(c))
           \/ UNCHANGED connVars
  <2>1. UNCHANGED release
    BY <1>6 DEF TakeSlot, AcceptFails, CloseListener, CloseOwn, SweepIdle, connVars
  <2>2. Holding' = Holding
    BY <2>1 DEF Holding
  <2>3. tokens' + Waiting = tokens + Waiting'
    BY <1>1, <1>6 DEF TakeSlot, AcceptFails, TokensAfterError, CloseListener, CloseOwn, SweepIdle,
                      Waiting, connVars
  <2>4. closed <= closed'
    <3>1. CASE TakeSlot \/ (\E next \in {"take", "failed", "closed"} : AcceptFails(next))
               \/ CloseListener \/ UNCHANGED connVars
      BY <1>5, <3>1 DEF TakeSlot, AcceptFails, CloseListener, ClosedByBoth, connVars
    <3>2. ASSUME NEW c \in Connections, CloseOwn(c) PROVE ClosedByBoth \subseteq ClosedByBoth'
      BY <1>1, <3>2 DEF CloseOwn, ClosedByBoth, ConnInv, ConnTypeOK
    <3>3. ASSUME NEW c \in Connections, SweepIdle(c) PROVE ClosedByBoth \subseteq ClosedByBoth'
      BY <1>1, <3>3 DEF SweepIdle, ClosedByBoth, ConnInv, ConnTypeOK
    <3> QED
      BY <1>5, <1>6, <3>1, <3>2, <3>3
  <2> HIDE DEF held, closed
  <2>5. held' = held
    BY <2>2 DEF held
  <2>6. /\ tokens' <= held + Waiting'
        /\ held + Waiting' <= tokens' + closed'
    <3>1. left + Waiting = tokens + waits /\ closed <= closes
      BY <1>11, <2>3, <2>4
    <3>2. left <= held + waits /\ held + waits <= left + closes
      BY <1>1, <1>3, <1>4, <3>1, TokenArithmetic
    <3> QED
      BY <1>11, <3>2
  <2> QED
    BY <1>4, <2>5, <2>6 DEF SlotsMatchConnections, held, closed
<1>7. ASSUME NEW c \in Connections, AcceptConnection(c) PROVE SlotsMatchConnections'
  <2>1. swept = {} /\ swept' = {} /\ c \notin Holding
    BY <1>7 DEF AcceptConnection, Holding, ConnInv, ReleaseInv
  <2>2. Holding' = Holding \cup {c}
    BY <1>1, <1>7 DEF AcceptConnection, Holding
  <2>3. held' = held + 1
    BY <1>1, <2>1, <2>2, FS_AddElement
  <2>4. Waiting = 1 /\ Waiting' = 0 /\ tokens' = tokens /\ tokens <= MaxConnections
    BY <1>7 DEF AcceptConnection, Waiting, ConnInv, ConnTypeOK
  <2>5. closed = 0 /\ closed' = 0
    BY <2>1, FS_EmptySet DEF ClosedByBoth
  <2> HIDE DEF held, closed
  <2>6. /\ tokens' <= held' + Waiting' /\ held' + Waiting' <= tokens' + closed'
        /\ held' <= MaxConnections
    BY <1>1, <1>3, <1>4, <2>3, <2>4, <2>5
  <2> QED
    BY <2>6 DEF SlotsMatchConnections, held, closed
<1>8. ASSUME NEW c \in Connections, acceptor' = acceptor, tokens' = tokens - 1,
             release' = [release EXCEPT ![c] = FALSE], c \notin ClosedByBoth,
             ClosedByBoth \subseteq ClosedByBoth', ~release[c] => c \in ClosedByBoth'
      PROVE  SlotsMatchConnections'
  <2>1. Waiting' = Waiting
    BY <1>8 DEF Waiting
  <2>2. CASE release[c]
    <3>1. Holding' = Holding \ {c} /\ c \in Holding
      BY <1>1, <1>8, <2>2 DEF Holding
    <3>2. held' = held - 1
      BY <1>1, <3>1, FS_RemoveElement
    <3>3. closed <= closed'
      BY <1>5, <1>8
    <3> HIDE DEF held, closed
    <3>4. tokens' <= held' + Waiting' /\ held' + Waiting' <= tokens' + closed' /\ held' <= MaxConnections
      <4>1. left = tokens - 1 /\ closed <= closes
        BY <1>8, <1>11, <3>3
      <4>2. left <= held - 1 + Waiting /\ held - 1 + Waiting <= left + closes
        BY <1>1, <1>3, <1>4, <4>1, TokenArithmetic
      <4>3. held - 1 <= MaxConnections
        BY <1>1, <1>4
      <4> QED
        BY <1>11, <2>1, <3>2, <4>2, <4>3
    <3> QED
      BY <3>4 DEF SlotsMatchConnections, held, closed
  <2>3. CASE ~release[c]
    <3>1. Holding' = Holding
      BY <1>1, <1>8, <2>3 DEF Holding
    <3>2. closed + 1 <= closed'
      <4>1. Cardinality(ClosedByBoth \cup {c}) = Cardinality(ClosedByBoth) + 1
        BY <1>1, <1>8, FS_AddElement
      <4>2. ClosedByBoth \cup {c} \subseteq ClosedByBoth'
        BY <1>8, <2>3
      <4>3. Cardinality(ClosedByBoth \cup {c}) <= Cardinality(ClosedByBoth')
        BY <1>2, <4>2, FS_Subset
      <4> QED
        BY <4>1, <4>3
    <3> HIDE DEF closed
    <3>3. held' = held
      BY <3>1
    <3> HIDE DEF held
    <3>4. tokens' <= held' + Waiting' /\ held' + Waiting' <= tokens' + closed' /\ held' <= MaxConnections
      <4>1. left = tokens - 1 /\ closed + 1 <= closes
        BY <1>8, <1>11, <3>2
      <4>2. left <= held + Waiting /\ held + Waiting <= left + closes
        BY <1>1, <1>3, <1>4, <4>1, TokenArithmetic
      <4> QED
        BY <1>4, <1>11, <2>1, <3>3, <4>2
    <3> QED
      BY <3>4 DEF SlotsMatchConnections, held, closed
  <2> QED
    BY <2>2, <2>3
<1>9. ASSUME NEW c \in Connections, ReleaseOwn(c) PROVE SlotsMatchConnections'
  <2>1. c \notin ClosedByBoth /\ ClosedByBoth \subseteq ClosedByBoth'
    BY <1>1, <1>9 DEF ReleaseOwn, ClosedByBoth, ConnInv, ConnTypeOK
  <2>2. ~release[c] => c \in ClosedByBoth'
    BY <1>1, <1>9 DEF ReleaseOwn, ClosedByBoth, ConnInv, ReleaseInv
  <2> QED
    BY <1>8, <1>9, <2>1, <2>2 DEF ReleaseOwn
<1>10. CASE ReleaseSwept
  <2>1. sweeping \in Connections /\ sweeping \in swept
    BY <1>10 DEF ReleaseSwept, ConnInv, ReleaseInv, ConnTypeOK
  <2>2. sweeping \notin ClosedByBoth /\ ClosedByBoth \subseteq ClosedByBoth'
    BY <1>1, <1>10, <2>1 DEF ReleaseSwept, ClosedByBoth, ConnInv, ConnTypeOK
  <2>3. ~release[sweeping] => sweeping \in ClosedByBoth'
    BY <1>1, <1>10, <2>1 DEF ReleaseSwept, ClosedByBoth, ConnInv, ReleaseInv
  <2> QED
    BY <1>8, <1>10, <2>1, <2>2, <2>3 DEF ReleaseSwept
<1> QED
  BY <1>6, <1>7, <1>9, <1>10 DEF ConnNext

LEMMA ConnInvStep == ConnInv /\ [ConnNext]_connVars => ConnInv'
  BY ConnTypeStep, ReleaseStep, TokensStep DEF ConnInv

-----------------------------------------------------------------------------
(* The variables of main.                                                       *)

MainTypeOK ==
    /\ signalled \in BOOLEAN /\ admin \in BOOLEAN /\ deadline \in BOOLEAN
    /\ drain \in Stages
    /\ control \in {"serving", "closed", "returned"}
    /\ public \in {"serving", "returned"}
    /\ errors \in Seq({"closed", "failed"})
    /\ exit \in {"none", "clean", "error"}

LEMMA MainTypeStep == MainTypeOK /\ [Next]_vars => MainTypeOK'
<1> SUFFICES ASSUME MainTypeOK, [Next]_vars PROVE MainTypeOK'
  OBVIOUS
<1> USE DEF MainTypeOK, Stages, mainVars, vars
<1>1. ASSUME NEW c \in Connections, Request(c) \/ Serve(c) \/ CloseConnection(c) PROVE MainTypeOK'
  BY <1>1 DEF Request, Serve, CloseConnection
<1>2. CASE Accept \/ Activate \/ HealthLoop \/ AdminRequest \/ AdminAnswer \/ Signal \/ DeadlinePasses
  BY <1>2 DEF Accept, Activate, HealthLoop, AdminRequest, AdminAnswer, Signal, DeadlinePasses
<1>3. CASE PublicReturns
  BY <1>3 DEF PublicReturns
<1>4. ASSUME NEW error \in {"closed", "failed"}, ControlReturns(error) PROVE MainTypeOK'
  BY <1>4 DEF ControlReturns
<1>5. CASE DrainStep
  BY <1>5 DEF DrainStep, BeginDrain, CloseControl, ClosePublic, Sweep, PublicDrained, CloseRuntime
<1>6. CASE MainEnds
  <2>1. errors' \in Seq({"closed", "failed"})
    BY <1>6 DEF MainEnds
  <2> QED
    BY <1>6, <2>1 DEF MainEnds, ExitWith
<1>7. CASE UNCHANGED vars
  BY <1>7
<1> QED
  BY <1>1, <1>2, <1>3, <1>4, <1>5, <1>6, <1>7 DEF Next

-----------------------------------------------------------------------------
IInv == PlaneInv /\ ConnInv /\ MainTypeOK

LEMMA Invariance == Spec => []IInv
<1>1. Init => IInv
  <2>1. <<>> \in Seq({"closed", "failed"})
    OBVIOUS
  <2>2. Init => MainTypeOK
    BY <2>1 DEF Init, MainTypeOK, Stages
  <2> QED
    BY <2>2, InitPlane, InitConn DEF Init, IInv
<1>2. IInv /\ [Next]_vars => IInv'
  BY Projections, PlaneInvStep, ConnInvStep, MainTypeStep DEF IInv
<1> QED
  BY <1>1, <1>2, PTL DEF Spec

\* Whatever main, its goroutines and the reconfigurations do, every variable keeps its
\* type: no semaphore or channel of tokens is emptied below nothing or overfilled.
THEOREM TypeCorrect == Spec => []TypeOK
<1>1. IInv => TypeOK
  BY DEF IInv, PlaneInv, ConnInv, MainTypeOK, TypeOK
<1> QED
  BY <1>1, Invariance, PTL

\* Every generation has as many slots taken as requests it serves, however often the
\* configuration is replaced while they run.
THEOREM SlotsAccounted == Spec => []SlotsMatchRequests
<1>1. IInv => SlotsMatchRequests
  BY DEF IInv, PlaneInv
<1> QED
  BY <1>1, Invariance, PTL

\* Between reconfigurations no health loop runs on of a generation that is not served
\* any more, unless it has been told to end.
THEOREM NoLoopOrphaned == Spec => []NoOrphanLoop
<1>1. IInv => NoOrphanLoop
  BY DEF IInv, PlaneInv, ReconfigurationInv, NoOrphanLoop
<1> QED
  BY <1>1, Invariance, PTL

\* Every token stands for an unclosed connection or for the Accept under way, tokens are
\* missing only for connections closed twice, and there are never more connections than
\* max_connections.
THEOREM ConnectionsLimited == Spec => []SlotsMatchConnections
<1>1. IInv => SlotsMatchConnections
  BY DEF IInv, ConnInv
<1> QED
  BY <1>1, Invariance, PTL

-----------------------------------------------------------------------------
(* How the process ends.                                                        *)

InDrain == drain \notin {"wait", "pause"}

\* A server's Serve has returned and sent its error, at most once each.
Sent ==
    (IF control = "returned" THEN 1 ELSE 0) + (IF public = "returned" THEN 1 ELSE 0)

ClosedIsSent == \E i \in 1 .. Len(errors) : errors[i] = "closed"

\* The listeners are closed in the order of the drain and by nothing else, and every
\* error sent is in the channel until main takes one and ends.
DrainInv ==
    /\ drain # "wait" => signalled
    /\ control = "serving" => ~InDrain
    /\ control = "closed" => InDrain
    /\ ~listening => drain \in {"public", "close", "over"}
    /\ acceptor = "closed" => ~listening
    /\ ClosedIsSent \/ exit = "clean" => InDrain
    /\ Len(errors) <= Sent
    /\ exit = "none" => Len(errors) = Sent

\* main is told to stop before it ends cleanly; ErrServerClosed never reaches it otherwise.
\* Once the drain has begun to close listeners main can end: the error that ends it is in
\* the channel, or Serve of the control server is about to send it.  And both goroutines
\* find room in the channel, whether main takes their error or not.
ShutdownInOrder ==
    /\ exit = "clean" => signalled /\ InDrain
    /\ exit = "none" /\ InDrain => control = "closed" \/ errors # <<>>
    /\ Len(errors) <= 2

LEMMA DrainStepInv == IInv /\ DrainInv /\ [Next]_vars => DrainInv'
<1> SUFFICES ASSUME IInv, DrainInv, [Next]_vars PROVE DrainInv'
  OBVIOUS
<1>1. errors \in Seq({"closed", "failed"}) /\ MainTypeOK
  BY DEF IInv, MainTypeOK
<1> DEFINE mine == <<signalled, drain, control, public, errors, exit>>
<1>2. ASSUME UNCHANGED mine,
             listening' = listening,
             acceptor' = "closed" => acceptor = "closed" \/ ~listening'
      PROVE  DrainInv'
  BY <1>2 DEF DrainInv, InDrain, Sent, ClosedIsSent
<1>3. ASSUME NEW c \in Connections, Request(c) \/ Serve(c) \/ CloseConnection(c) PROVE DrainInv'
  <2>1. UNCHANGED <<mine, listening, acceptor>>
    BY <1>3 DEF Request, Serve, CloseConnection, CloseOwn, ReleaseOwn, mainVars, connVars
  <2> QED
    BY <1>2, <2>1 DEF DrainInv
<1>4. CASE Accept
  <2>1. UNCHANGED <<mine, listening>> /\ (acceptor' = "closed" => acceptor = "closed" \/ ~listening')
    BY <1>4 DEF Accept, TakeSlot, AcceptConnection, AcceptFails, mainVars
  <2> QED
    BY <1>2, <2>1
<1>5. CASE \/ AdminRequest \/ Activate \/ AdminAnswer \/ HealthLoop \/ DeadlinePasses \/ Sweep
           \/ UNCHANGED vars
  <2>1. UNCHANGED <<mine, listening, acceptor>>
    BY <1>5 DEF AdminRequest, Activate, AdminAnswer, HealthLoop, DeadlinePasses, Sweep,
                SweepIdle, ReleaseSwept, mainVars, connVars, vars
  <2> QED
    BY <1>2, <2>1
<1>6. CASE Signal \/ BeginDrain \/ CloseControl \/ PublicDrained \/ CloseRuntime
  BY <1>6 DEF Signal, BeginDrain, CloseControl, PublicDrained, CloseRuntime, DrainInv, InDrain,
              Sent, ClosedIsSent, connVars
<1>7. CASE ClosePublic
  BY <1>7 DEF ClosePublic, CloseListener, DrainInv, InDrain, Sent, ClosedIsSent
\* A server sends its error once, and ErrServerClosed only after its listener was closed.
<1>8. ASSUME NEW error \in {"closed", "failed"}, errors' = Append(errors, error),
             UNCHANGED <<signalled, drain, exit, listening, acceptor>>,
             exit = "none", Sent' = Sent + 1, error = "closed" => InDrain,
             control' = "serving" => ~InDrain, control' = "closed" => InDrain
      PROVE  DrainInv'
  <2>1. /\ Len(errors') = Len(errors) + 1
        /\ \A i \in 1 .. Len(errors') :
              errors'[i] = IF i = Len(errors) + 1 THEN error ELSE errors[i]
    BY <1>1, <1>8
  <2>2. ClosedIsSent' => InDrain
    BY <1>1, <1>8, <2>1 DEF DrainInv, ClosedIsSent
  <2> QED
    BY <1>8, <2>1, <2>2 DEF DrainInv, InDrain
<1>9. ASSUME NEW error \in {"closed", "failed"}, ControlReturns(error) PROVE DrainInv'
  <2>1. Sent' = Sent + 1
    BY <1>1, <1>9 DEF ControlReturns, Sent, MainTypeOK
  <2> QED
    BY <1>8, <1>9, <2>1 DEF ControlReturns, Running, DrainInv, connVars
<1>10. CASE PublicReturns
  <2>1. Sent' = Sent + 1
    BY <1>1, <1>10 DEF PublicReturns, Sent, MainTypeOK
  <2>2. acceptor \in {"closed", "failed"} /\ (acceptor = "closed" => InDrain)
    BY <1>10 DEF PublicReturns, DrainInv, InDrain
  <2> QED
    BY <1>8, <1>10, <2>1, <2>2 DEF PublicReturns, Running, DrainInv, connVars
<1>11. CASE MainEnds
  <2>1. exit' # "none" /\ (exit' = "clean" => ClosedIsSent)
    BY <1>1, <1>11 DEF MainEnds, ExitWith, ClosedIsSent
  <2>2. (ClosedIsSent' => ClosedIsSent) /\ Len(errors') <= Len(errors)
    <3>1. errors' = Tail(errors) /\ errors # <<>>
      BY <1>11 DEF MainEnds
    <3>2. \A i \in 1 .. Len(errors') : errors'[i] = errors[i + 1] /\ i + 1 \in 1 .. Len(errors)
      BY <1>1, <3>1
    <3> QED
      BY <1>1, <3>1, <3>2 DEF ClosedIsSent
  <2> QED
    BY <1>1, <1>11, <2>1, <2>2 DEF MainEnds, DrainInv, InDrain, Sent, connVars
<1> QED
  BY <1>3, <1>4, <1>5, <1>6, <1>7, <1>9, <1>10, <1>11 DEF Next, DrainStep

\* Whatever fails and whatever is under way, the process ends in order: cleanly only when
\* it was told to, and never without a way to its end once it closes its listeners.
THEOREM EndsInOrder == Spec => []ShutdownInOrder
<1>1. Init => DrainInv
  <2>1. Len(<<>>) = 0
    OBVIOUS
  <2> QED
    BY <2>1 DEF Init, ConnInit, DrainInv, InDrain, ClosedIsSent, Sent
<1>2. IInv /\ DrainInv => ShutdownInOrder
  <2> SUFFICES ASSUME IInv, DrainInv PROVE ShutdownInOrder
    OBVIOUS
  <2>1. errors \in Seq({"closed", "failed"}) /\ MainTypeOK
    BY DEF IInv, MainTypeOK
  <2>2. exit = "clean" => signalled /\ InDrain
    BY DEF DrainInv, InDrain
  <2>3. ASSUME exit = "none", InDrain, control # "closed" PROVE errors # <<>>
    <3>1. control = "returned"
      BY <2>1, <2>3 DEF MainTypeOK, DrainInv
    <3>2. Len(errors) > 0
      BY <2>3, <3>1 DEF DrainInv, Sent
    <3> QED
      BY <3>2
  <2>4. Len(errors) <= 2
    BY <2>1 DEF DrainInv, Sent
  <2> QED
    BY <2>2, <2>3, <2>4 DEF ShutdownInOrder
<1> QED
  BY <1>1, <1>2, Invariance, DrainStepInv, PTL DEF Spec

-----------------------------------------------------------------------------
(* Which generations have been told to end.                                     *)

\* Reconfigurations cancel what they replace, which is older than what they swapped in;
\* only the end of the drain cancels what is current.
CancelInv ==
    /\ manager = "swap" => current < built
    /\ manager = "stop" => retiring < current
    /\ drain # "over" => \A g \in cancelled : g < current

\* The generation that serves requests keeps its health loops until the drain is over:
\* no reconfiguration, and no two of them, tell the generation to end that they leave
\* in service.
ServedIsAlive == drain # "over" => current \notin cancelled

LEMMA CancelStep == IInv /\ CancelInv /\ [Next]_vars => CancelInv'
<1> SUFFICES ASSUME IInv, CancelInv, [Next]_vars PROVE CancelInv'
  OBVIOUS
<1>1. /\ current \in Nat /\ built \in Nat /\ retiring \in Nat /\ cancelled \subseteq Nat
      /\ manager = "free" => built = current
      /\ manager = "swap" => retiring = current
      /\ manager \in {"free", "swap", "stop"}
  <2>1. PlaneTypeOK /\ ReconfigurationInv
    BY DEF IInv, PlaneInv
  <2> QED
    BY <2>1, DataPlaneAssumption DEF PlaneTypeOK, ReconfigurationInv, Generations
<1> DEFINE plane == <<manager, current, built, retiring, cancelled>>
<1>2. ASSUME UNCHANGED plane, drain = "over" => drain' = "over" PROVE CancelInv'
  BY <1>2 DEF CancelInv
<1>3. CASE Activate
  <2>1. ASSUME NEW n \in Limits, NEW loops \in {"none", "running"}, Build(n, loops)
        PROVE  CancelInv'
    BY <1>1, <1>3, <2>1 DEF Activate, mainVars, Build, CancelInv
  <2>2. CASE Swap
    BY <1>1, <1>3, <2>2 DEF Activate, mainVars, Swap, CancelInv
  <2>3. CASE StopPrevious
    BY <1>1, <1>3, <2>3 DEF Activate, mainVars, StopPrevious, Stopped, CancelInv
  <2> QED
    BY <1>3, <2>1, <2>2, <2>3 DEF Activate, Reconfigure
<1>4. CASE CloseRuntime
  BY <1>4 DEF CloseRuntime, Close, CancelInv
<1>5. ASSUME NEW c \in Connections, Request(c) \/ Serve(c) \/ CloseConnection(c) PROVE CancelInv'
  <2>1. UNCHANGED <<plane, drain>>
    BY <1>5 DEF Request, Serve, CloseConnection, Arrive, Handle, Load, Acquire, Busy, Finish,
                mainVars, planeVars, runtimeVars
  <2> QED
    BY <1>2, <2>1
<1>6. CASE Accept \/ PublicReturns \/ AdminRequest \/ AdminAnswer \/ HealthLoop \/ Signal
           \/ DeadlinePasses \/ MainEnds \/ UNCHANGED vars
           \/ \E error \in {"closed", "failed"} : ControlReturns(error)
  <2>1. UNCHANGED <<plane, drain>>
    BY <1>6 DEF Accept, PublicReturns, AdminRequest, AdminAnswer, HealthLoop, LoopEnds, Signal,
                DeadlinePasses, MainEnds, ControlReturns, mainVars, planeVars, runtimeVars, vars
  <2> QED
    BY <1>2, <2>1
<1>7. CASE BeginDrain \/ CloseControl \/ ClosePublic \/ Sweep \/ PublicDrained
  <2>1. UNCHANGED plane /\ (drain # "over" \/ UNCHANGED drain)
    BY <1>7 DEF BeginDrain, CloseControl, ClosePublic, Sweep, PublicDrained, mainVars,
                planeVars, runtimeVars
  <2> QED
    BY <1>2, <2>1
<1> QED
  BY <1>3, <1>4, <1>5, <1>6, <1>7 DEF Next, DrainStep

\* However often the configuration is replaced, what is served is never what was told to
\* end.
THEOREM ServedUntilOver == Spec => []ServedIsAlive
<1>1. Init => CancelInv
  BY DEF Init, PlaneInit, CancelInv
<1>2. IInv /\ CancelInv => ServedIsAlive
  <2> SUFFICES ASSUME IInv, CancelInv, drain # "over" PROVE current \notin cancelled
    BY DEF ServedIsAlive
  <2>1. current \in Nat
    BY DataPlaneAssumption DEF IInv, PlaneInv, PlaneTypeOK, Generations
  <2> QED
    BY <2>1 DEF CancelInv
<1> QED
  BY <1>1, <1>2, Invariance, CancelStep, PTL DEF Spec
=============================================================================
