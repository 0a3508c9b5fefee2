--------------------------- MODULE ServiceProofs ---------------------------
(***************************************************************************)
(* Theorems about Service, for every number of threads, starts and         *)
(* connections.                                                            *)
(***************************************************************************)
EXTENDS Service, FiniteSetTheorems, TLAPS

(* Threads are counted against the starts that have spawned theirs.        *)
Spawned == IF control \in {"posted", "spawn"} THEN starts - 1 ELSE starts
ThreadBound ==
    /\ control \in {"posted", "spawn"} => starts > 0
    /\ threads <= ThreadCount * Spawned

(* Why an io_context is stopped, or about to be: it has no work, it was    *)
(* told to, or the restart() that will clear the stop has begun; or a stop *)
(* has come too late.                                                      *)
StopReason ==
    /\ control \in {"stop", "destroy", "join", "gone"} => ~running
    /\ stopped => OutOfWork \/ ~running \/ control = "posted" \/ overtaken
    /\ stopping > 0 => OutOfWork \/ control = "posted" \/ overtaken

(* Threads leave only an io_context that is stopped.                       *)
ThreadsStay == control = "idle" /\ running /\ ~stopped => threads > 0

(* do_listen leaves its loop only after stop(), and every start() and      *)
(* restart() spawns another.                                               *)
Listening ==
    mode = "Server" =>
        /\ control \in {"posted", "spawn"} => running
        /\ running /\ ~failed => In({"queued", "loop", "waiting"}) # {}

(* The types without the bound on the threads, which is ThreadBound.       *)
BasicTypes ==
    /\ mode \in {"Server", "Client"}
    /\ running \in BOOLEAN /\ stopped \in BOOLEAN
    /\ failed \in BOOLEAN /\ overtaken \in BOOLEAN
    /\ starts \in 0..MaxStarts
    /\ tasks \in [1..MaxStarts -> {"none", "queued", "loop", "waiting", "leaving", "ended"}]
    /\ links \in 0..MaxLinks
    /\ control \in {"idle", "posted", "spawn", "stop", "destroy", "join", "gone"}
    /\ threads \in Nat /\ stopping \in 0..threads

Inv == BasicTypes /\ ThreadBound /\ StopReason /\ ThreadsStay /\ Listening

-----------------------------------------------------------------------------
(* One start more leaves room for ThreadCount threads more.                *)
LEMMA RoomPerStart ==
    \A n \in Nat : /\ ThreadCount * n \in Nat
                   /\ ThreadCount * (n + 1) = ThreadCount * n + ThreadCount
                   /\ ThreadCount * 0 = 0
  BY ThreadCountAssumption

(* Every task is in one state, and a step changes that of one.             *)
LEMMA StepFacts ==
    ASSUME BasicTypes, NEW k \in 1..MaxStarts, NEW from, NEW to, Step(k, from, to)
    PROVE  /\ tasks[k] = from /\ tasks'[k] = to
           /\ \A j \in 1..MaxStarts \ {k} : tasks'[j] = tasks[j]
  BY DEF BasicTypes, Step

(* The invariant holds initially.                                          *)
LEMMA InitInv == Init => Inv
  <1> SUFFICES ASSUME Init PROVE Inv
    OBVIOUS
  <1>1. BasicTypes
    <2>1. /\ mode \in {"Server", "Client"} /\ links \in 0..MaxLinks
          /\ starts \in 0..MaxStarts /\ threads \in Nat /\ stopping \in 0..threads
          /\ tasks \in [1..MaxStarts -> {"none", "queued", "loop", "waiting", "leaving", "ended"}]
          /\ control \in {"idle", "posted", "spawn", "stop", "destroy", "join", "gone"}
      BY BoundsAssumption DEF Init
    <2>2. running \in BOOLEAN /\ stopped \in BOOLEAN /\ failed \in BOOLEAN /\ overtaken \in BOOLEAN
      BY DEF Init
    <2> QED BY <2>1, <2>2 DEF BasicTypes
  <1>2. ThreadBound
    BY RoomPerStart DEF Init, ThreadBound, Spawned
  <1>3. StopReason /\ ThreadsStay /\ Listening
    BY DEF Init, StopReason, ThreadsStay, Listening
  <1> QED BY <1>1, <1>2, <1>3 DEF Inv

(* Only finitely many tasks are inside a segment.                          *)
LEMMA CardNat == \A states : Cardinality(In(states)) \in Nat
  <1> SUFFICES ASSUME NEW states PROVE Cardinality(In(states)) \in Nat
    OBVIOUS
  <1>1. IsFiniteSet(1..MaxStarts)
    BY FS_Interval, BoundsAssumption
  <1>2. In(states) \subseteq 1..MaxStarts
    BY DEF In
  <1>3. IsFiniteSet(In(states))
    BY <1>1, <1>2, FS_Subset
  <1> QED BY <1>3, FS_CardinalityType

(* Every step keeps the types.                                             *)
LEMMA TypesStep == BasicTypes /\ [Next]_vars => BasicTypes'
  <1> SUFFICES ASSUME BasicTypes, [Next]_vars PROVE BasicTypes'
    OBVIOUS
  <1> USE BoundsAssumption, ThreadCountAssumption DEF BasicTypes, rest
  <1>1. CASE Start
    BY <1>1 DEF Start
  <1>2. CASE RestartContext
    BY <1>2 DEF RestartContext
  <1>3. CASE SpawnThreads
    BY <1>3 DEF SpawnThreads
  <1>4. CASE Stop
    BY <1>4 DEF Stop
  <1>5. CASE StopContext
    BY <1>5 DEF StopContext
  <1>6. CASE Join
    BY <1>6 DEF Join
  <1>7. CASE ContextRunsOut
    BY <1>7 DEF ContextRunsOut
  <1>8. CASE ThreadEnds
    <2>1. threads' \in Nat /\ stopping \in 0..threads'
      BY <1>8, CardNat DEF ThreadEnds, Between
    <2> QED BY <1>8, <2>1 DEF ThreadEnds
  <1>9. CASE LinkEnds
    BY <1>9 DEF LinkEnds, ThreadFree
  <1>10. ASSUME NEW k \in 1..MaxStarts, ListenBegin(k) PROVE BasicTypes'
    BY <1>10 DEF ListenBegin, Step
  <1>11. ASSUME NEW k \in 1..MaxStarts, ListenLoop(k) PROVE BasicTypes'
    BY <1>11 DEF ListenLoop, Step
  <1>12. ASSUME NEW k \in 1..MaxStarts, Accept(k) PROVE BasicTypes'
    BY <1>12 DEF Accept, Step
  <1>13. ASSUME NEW k \in 1..MaxStarts, AcceptFails(k) PROVE BasicTypes'
    BY <1>13 DEF AcceptFails, Step
  <1>14. ASSUME NEW k \in 1..MaxStarts, ListenEnds(k) PROVE BasicTypes'
    BY <1>14 DEF ListenEnds, Step
  <1>15. ASSUME NEW k \in 1..MaxStarts, ConnectBegin(k) PROVE BasicTypes'
    BY <1>15 DEF ConnectBegin, Step
  <1>16. ASSUME NEW k \in 1..MaxStarts, ConnectEnds(k) PROVE BasicTypes'
    BY <1>16 DEF ConnectEnds, Step
  <1>17. CASE FindsNoWork
    BY <1>17 DEF FindsNoWork
  <1>18. CASE UNCHANGED vars
    BY <1>18 DEF vars
  <1> QED BY <1>1, <1>2, <1>3, <1>4, <1>5, <1>6, <1>7, <1>8, <1>9, <1>10, <1>11, <1>12, <1>13, <1>14, <1>15, <1>16, <1>17, <1>18 DEF Next, Control, Task

-----------------------------------------------------------------------------
(* The pool has at most thread_count_ threads in run() for each start.     *)
LEMMA BoundStep == BasicTypes /\ ThreadBound /\ [Next]_vars => ThreadBound'
  <1> SUFFICES ASSUME BasicTypes, ThreadBound, [Next]_vars PROVE ThreadBound'
    OBVIOUS
  <1> USE ThreadCountAssumption DEF BasicTypes, ThreadBound, Spawned
  <1>1. CASE Start
    BY <1>1 DEF Start
  <1>2. CASE RestartContext
    BY <1>2 DEF RestartContext
  <1>3. CASE SpawnThreads
    <2>1. starts - 1 \in Nat /\ starts = (starts - 1) + 1
      BY <1>3 DEF SpawnThreads
    <2>2. ThreadCount * starts = ThreadCount * (starts - 1) + ThreadCount
      BY <2>1, RoomPerStart
    <2>3. /\ threads <= ThreadCount * (starts - 1) /\ threads' = threads + ThreadCount
          /\ starts' = starts /\ control' = "idle"
      BY <1>3 DEF SpawnThreads
    <2>4. ThreadCount * (starts - 1) \in Nat /\ ThreadCount * starts \in Nat
      BY <2>1, RoomPerStart
    <2>5. threads + ThreadCount <= ThreadCount * starts
      BY <2>2, <2>3, <2>4
    <2> QED BY <2>3, <2>5
  <1>4. CASE Stop \/ StopContext \/ Join
    BY <1>4 DEF Stop, StopContext, Join
  <1>5. CASE ThreadEnds
    <2>1. /\ threads' = threads - 1 /\ UNCHANGED <<starts, control>>
      BY <1>5 DEF ThreadEnds
    <2>2. ThreadCount * Spawned \in Nat
      BY RoomPerStart
    <2> QED BY <2>1, <2>2
  <1>6. CASE FindsNoWork \/ ContextRunsOut \/ LinkEnds \/ (\E k \in 1..MaxStarts : Task(k)) \/ UNCHANGED vars
    <2>1. UNCHANGED <<starts, control, threads>>
      BY <1>6 DEF FindsNoWork, ContextRunsOut, LinkEnds, Task, ListenBegin, ListenLoop, Accept,
                  AcceptFails, ListenEnds, ConnectBegin, ConnectEnds, vars
    <2> QED BY <2>1
  <1> QED BY <1>1, <1>2, <1>3, <1>4, <1>5, <1>6 DEF Next, Control

(* A stopped io_context with work has been stopped, or is being restarted. *)
LEMMA StopStep == BasicTypes /\ StopReason /\ [Next]_vars => StopReason'
  <1> SUFFICES ASSUME BasicTypes, StopReason, [Next]_vars PROVE StopReason'
    OBVIOUS
  <1> USE DEF StopReason
  <1>1. CASE Start
    BY <1>1 DEF Start, rest
  <1>2. CASE RestartContext
    BY <1>2 DEF RestartContext
  <1>3. CASE SpawnThreads \/ Join \/ ThreadEnds
    <2>1. /\ UNCHANGED <<stopped, running, tasks, links, stopping, overtaken>>
          /\ \/ control = "spawn" /\ control' = "idle"
             \/ control = "join" /\ control' = "gone"
             \/ UNCHANGED control
      BY <1>3 DEF SpawnThreads, Join, ThreadEnds, rest
    <2>2. OutOfWork' <=> OutOfWork
      BY <2>1 DEF OutOfWork, In
    <2> QED BY <2>1, <2>2
  <1>4. CASE Stop \/ StopContext
    <2>1. /\ UNCHANGED <<tasks, links, stopping, overtaken>> /\ ~running'
          /\ control # "posted"
      BY <1>4 DEF Stop, StopContext, rest
    <2>2. OutOfWork' <=> OutOfWork
      BY <2>1 DEF OutOfWork, In
    <2> QED BY <2>1, <2>2
  <1>5. CASE FindsNoWork \/ ContextRunsOut
    <2>1. /\ UNCHANGED <<tasks, links, control, running, overtaken>>
          /\ OutOfWork \/ control = "posted" \/ overtaken
      BY <1>5 DEF FindsNoWork, ContextRunsOut
    <2>2. OutOfWork' <=> OutOfWork
      BY <2>1 DEF OutOfWork, In
    <2> QED BY <2>1, <2>2
  <1>6. CASE LinkEnds
    <2>1. UNCHANGED <<control, running, stopped, stopping, overtaken>> /\ ~OutOfWork
      BY <1>6 DEF LinkEnds, OutOfWork, rest, BasicTypes
    <2> QED BY <2>1
  <1>7. ASSUME NEW k \in 1..MaxStarts, Task(k) PROVE StopReason'
    <2>1. UNCHANGED <<control, running, stopped, stopping, overtaken>>
      BY <1>7 DEF Task, ListenBegin, ListenLoop, Accept, AcceptFails, ListenEnds,
                  ConnectBegin, ConnectEnds, rest
    <2>2. tasks[k] \in {"queued", "loop", "waiting", "leaving"}
      BY <1>7 DEF Task, ListenBegin, ListenLoop, Accept, AcceptFails, ListenEnds,
                  ConnectBegin, ConnectEnds, Step
    <2>3. ~OutOfWork
      BY <2>2 DEF OutOfWork, In
    <2> QED BY <2>1, <2>3
  <1>8. CASE UNCHANGED vars
    BY <1>8 DEF vars, OutOfWork, In
  <1> QED BY <1>1, <1>2, <1>3, <1>4, <1>5, <1>6, <1>7, <1>8 DEF Next, Control

(* A thread leaves run() only when the io_context is stopped.              *)
LEMMA StayStep == BasicTypes /\ ThreadsStay /\ [Next]_vars => ThreadsStay'
  <1> SUFFICES ASSUME BasicTypes, ThreadsStay, [Next]_vars PROVE ThreadsStay'
    OBVIOUS
  <1> USE DEF ThreadsStay
  <1>1. CASE Start \/ RestartContext \/ Stop \/ Join
    BY <1>1 DEF Start, RestartContext, Stop, Join
  <1>2. CASE SpawnThreads
    BY <1>2, ThreadCountAssumption DEF SpawnThreads, BasicTypes
  <1>3. CASE StopContext \/ ContextRunsOut
    BY <1>3 DEF StopContext, ContextRunsOut
  <1>4. CASE ThreadEnds
    BY <1>4 DEF ThreadEnds
  <1>5. CASE FindsNoWork \/ LinkEnds \/ (\E k \in 1..MaxStarts : Task(k)) \/ UNCHANGED vars
    <2>1. UNCHANGED <<stopped, running, control, threads>>
      BY <1>5 DEF FindsNoWork, LinkEnds, Task, ListenBegin, ListenLoop, Accept,
                  AcceptFails, ListenEnds, ConnectBegin, ConnectEnds, vars
    <2> QED BY <2>1
  <1> QED BY <1>1, <1>2, <1>3, <1>4, <1>5 DEF Next, Control

(* mode_ is set by the constructor only.                                   *)
LEMMA ModeFixed == [Next]_vars => mode' = mode
  <1> SUFFICES ASSUME [Next]_vars PROVE mode' = mode
    OBVIOUS
  <1>1. CASE \E k \in 1..MaxStarts : Task(k)
    BY <1>1 DEF Task, ListenBegin, ListenLoop, Accept, AcceptFails, ListenEnds,
                ConnectBegin, ConnectEnds
  <1>2. CASE Control
    BY <1>2 DEF Control, Start, RestartContext, SpawnThreads, Stop, StopContext, Join
  <1>3. CASE FindsNoWork \/ ContextRunsOut \/ ThreadEnds \/ LinkEnds \/ UNCHANGED vars
    BY <1>3 DEF FindsNoWork, ContextRunsOut, ThreadEnds, LinkEnds, vars
  <1> QED BY <1>1, <1>2, <1>3 DEF Next

(* A server that runs has a do_listen that waits, or will.                 *)
LEMMA ListenStep == BasicTypes /\ Listening /\ [Next]_vars => Listening'
  <1> DEFINE Active == {"queued", "loop", "waiting"}
  <1> DEFINE Goal == /\ control' \in {"posted", "spawn"} => running'
                     /\ running' /\ ~failed' => \E j \in 1..MaxStarts : tasks'[j] \in Active
  <1> SUFFICES ASSUME BasicTypes, Listening, [Next]_vars PROVE Listening'
    OBVIOUS
  <1>m. mode' = mode
    BY ModeFixed
  <1> SUFFICES ASSUME mode = "Server" PROVE Goal
    BY <1>m DEF Listening, In
  <1>0. /\ control \in {"posted", "spawn"} => running
        /\ running /\ ~failed => \E j \in 1..MaxStarts : tasks[j] \in Active
    BY DEF Listening, In
  <1>1. CASE Start
    <2>1. starts + 1 \in 1..MaxStarts
      BY <1>1, BoundsAssumption DEF Start, BasicTypes
    <2>2. tasks'[starts + 1] = "queued"
      BY <1>1, <2>1 DEF Start, BasicTypes
    <2>3. running'
      BY <1>1 DEF Start
    <2> QED BY <2>1, <2>2, <2>3
  <1>2. CASE RestartContext
    BY <1>0, <1>2 DEF RestartContext
  <1>3. CASE Stop
    BY <1>3 DEF Stop
  <1>4. CASE SpawnThreads \/ StopContext \/ Join \/ FindsNoWork \/ ContextRunsOut \/ ThreadEnds \/ LinkEnds \/ UNCHANGED vars
    <2>1. /\ UNCHANGED <<running, tasks, failed>>
          /\ control' \in {"posted", "spawn"} => control' = control
      BY <1>4 DEF SpawnThreads, StopContext, Join, FindsNoWork, ContextRunsOut, ThreadEnds, LinkEnds, vars
    <2> QED BY <1>0, <2>1
  <1>5. ASSUME NEW k \in 1..MaxStarts, Task(k)
        PROVE  Goal
    <2>1. UNCHANGED <<running, control>>
      BY <1>5 DEF Task, ListenBegin, ListenLoop, Accept, AcceptFails, ListenEnds,
                  ConnectBegin, ConnectEnds
    <2>2. ASSUME running, ~failed' PROVE \E j \in 1..MaxStarts : tasks'[j] \in Active
      <3>1. \/ failed' = TRUE
            \/ /\ failed' = failed
               /\ \/ Step(k, "queued", "loop")
                  \/ Step(k, "loop", "waiting")
                  \/ Step(k, "waiting", "loop")
                  \/ Step(k, "leaving", "ended")
        BY <1>5, <2>2 DEF Task, ListenBegin, ListenLoop, Accept, AcceptFails, ListenEnds,
                    ConnectBegin, ConnectEnds
      <3>2. PICK j \in 1..MaxStarts : tasks[j] \in Active
        BY <1>0, <2>2, <3>1
      <3>3. CASE j = k
        BY <2>2, <3>1, <3>2, <3>3 DEF Step, BasicTypes
      <3>4. CASE j # k
        <4>1. tasks'[j] = tasks[j]
          BY <2>2, <3>1, <3>4 DEF Step, BasicTypes
        <4> QED BY <3>2, <4>1
      <3> QED BY <3>3, <3>4
    <2> QED BY <1>0, <2>1, <2>2
  <1> QED BY <1>1, <1>2, <1>3, <1>4, <1>5 DEF Next, Control

-----------------------------------------------------------------------------
(* Inv is inductive.                                                       *)
THEOREM Invariance == Spec => []Inv
  <1>1. Inv /\ [Next]_vars => Inv'
    BY TypesStep, BoundStep, StopStep, StayStep, ListenStep DEF Inv
  <1> QED BY InitInv, <1>1, PTL DEF Spec

(* Every variable of a service keeps its type, and of the threads it was   *)
(* given at most thread_count_ for each start() are in run().              *)
THEOREM TypeCorrect == Spec => []TypeOK
  <1>1. Inv => TypeOK
    <2> SUFFICES ASSUME Inv PROVE TypeOK
      OBVIOUS
    <2>1. ThreadCount * Spawned <= ThreadCount * starts /\ ThreadCount * starts \in Nat
             /\ ThreadCount * Spawned \in Nat
      <3>1. CASE Spawned = starts
        BY <3>1, RoomPerStart DEF Inv, BasicTypes
      <3>2. CASE Spawned # starts
        <4>1. Spawned \in Nat /\ starts = Spawned + 1
          BY <3>2 DEF Inv, BasicTypes, ThreadBound, Spawned
        <4>2. ThreadCount * starts = ThreadCount * Spawned + ThreadCount
          BY <4>1, RoomPerStart
        <4> QED BY <4>1, <4>2, RoomPerStart, ThreadCountAssumption
      <3> QED BY <3>1, <3>2
    <2>2. threads \in Nat /\ threads <= ThreadCount * Spawned
      BY DEF Inv, BasicTypes, ThreadBound
    <2>3. threads \in 0..(ThreadCount * starts)
      BY <2>1, <2>2
    <2> QED BY <2>3 DEF Inv, BasicTypes, TypeOK
  <1> QED BY Invariance, <1>1, PTL

(* A started service that has work has an io_context that is not stopped   *)
(* and a thread that runs it, unless a stop for want of work came late.    *)
THEOREM WorkIsRun == Spec => []WorkHasThread
  <1>1. Inv => WorkHasThread
    BY DEF Inv, StopReason, ThreadsStay, WorkHasThread
  <1> QED BY Invariance, <1>1, PTL

(* A started server listens as long as no exception has ended do_listen.   *)
THEOREM ServerKeepsListening == Spec => []ServerListens
  <1>1. Inv => ServerListens
    BY DEF Inv, Listening, ServerListens
  <1> QED BY Invariance, <1>1, PTL
=============================================================================
