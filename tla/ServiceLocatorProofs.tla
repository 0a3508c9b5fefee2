------------------------ MODULE ServiceLocatorProofs ------------------------
(***************************************************************************)
(* What ServiceLocator promises for every set of services and every bound: *)
(* its variables keep their types, a service never gets a second           *)
(* connection, and a registered callback is called at most once.           *)
(***************************************************************************)
EXTENDS ServiceLocator, SequenceTheorems, FiniteSetTheorems, TLAPS

(* What appending to a sequence leaves of it and adds to it.               *)
LEMMA AppendFacts ==
    ASSUME NEW S, NEW s \in Seq(S), NEW e \in S
    PROVE  /\ Append(s, e) \in Seq(S)
           /\ DOMAIN Append(s, e) = 1..(Len(s) + 1)
           /\ DOMAIN s = 1..Len(s)
           /\ \A i \in DOMAIN s : Append(s, e)[i] = s[i]
           /\ Append(s, e)[Len(s) + 1] = e
           /\ Len(s) \in Nat
  BY AppendProperties

(* What a non-empty queue of answers gives up.                             *)
LEMMA HeadAndTail ==
    ASSUME NEW S, NEW s \in Seq(S), s # << >>
    PROVE  Head(s) \in S /\ Tail(s) \in Seq(S)
  BY HeadTailProperties

-----------------------------------------------------------------------------
(***************************************************************************)
(* Types                                                                   *)
(***************************************************************************)

LEMMA MessageTypes ==
    /\ Update \in Messages
    /\ \A r \in Requests : Request(r) \in Messages
    /\ counter \in 0..MaxRequests /\ counter < MaxRequests => counter \in Requests
  BY BoundsAssumption DEF Messages, Requests

LEMMA ConnectTypes ==
    ASSUME TypeOK, NEW t \in Types, Connect(t)
    PROVE  /\ attempts' \in [Types -> 0..MaxConnections]
           /\ conn' \in [Types -> [Attempts ->
                    {"none", "connecting", "failed", "up", "asleep", "gone"}]]
  BY BoundsAssumption DEF TypeOK, Connect, Attempts

LEMMA SendTo_Types ==
    ASSUME TypeOK, NEW t \in Types, NEW message \in Messages, SendTo_(t, message)
    PROVE  /\ conn' \in [Types -> [Attempts ->
                    {"none", "connecting", "failed", "up", "asleep", "gone"}]]
           /\ server' \in [Types -> SUBSET Messages] /\ sent' \subseteq Messages
           /\ UNCHANGED <<attempts, current, restarts, answers>>
  <1>1. CASE IsUp(t)
    <2>1. /\ server' = [server EXCEPT ![t] = @ \cup {message}]
          /\ sent' = sent \cup {message}
          /\ UNCHANGED <<attempts, conn, current, restarts, answers>>
      BY <1>1 DEF SendTo_, linkVars
    <2> QED
      BY <2>1 DEF TypeOK
  <1>2. CASE ~IsUp(t)
    <2>1. current[t] # 0 => current[t] \in Attempts
      BY BoundsAssumption DEF TypeOK, Attempts
    <2>2. \/ conn' = conn
          \/ current[t] # 0 /\ conn' = [conn EXCEPT ![t][current[t]] = "gone"]
      BY <1>2 DEF SendTo_
    <2>3. UNCHANGED <<attempts, current, restarts, wireVars>>
      BY <1>2 DEF SendTo_
    <2>4. conn' \in [Types -> [Attempts ->
                    {"none", "connecting", "failed", "up", "asleep", "gone"}]]
      <3>1. CASE conn' = conn
        BY <3>1 DEF TypeOK
      <3>2. CASE current[t] # 0 /\ conn' = [conn EXCEPT ![t][current[t]] = "gone"]
        <4>1. PICK n \in Attempts : conn' = [conn EXCEPT ![t][n] = "gone"]
          BY <2>1, <3>2
        <4> QED
          BY <4>1 DEF TypeOK
      <3> QED
        BY <2>2, <3>1, <3>2
    <2> QED
      BY <2>3, <2>4 DEF TypeOK, wireVars
  <1> QED
    BY <1>1, <1>2

LEMMA CloseTypes ==
    ASSUME TypeOK, NEW t \in Types, Close(t)
    PROVE  /\ conn' \in [Types -> [Attempts ->
                    {"none", "connecting", "failed", "up", "asleep", "gone"}]]
           /\ server' \in [Types -> SUBSET Messages]
           /\ answers' \in [Types -> Seq(Messages)]
           /\ UNCHANGED <<attempts, current, sent>>
  <1>1. current[t] \in Attempts
    BY BoundsAssumption DEF TypeOK, Close, IsUp, Attempts
  <1>2. \E left \in {"asleep", "gone"} : conn' = [conn EXCEPT ![t][current[t]] = left]
    BY DEF Close
  <1>3. conn' \in [Types -> [Attempts ->
                    {"none", "connecting", "failed", "up", "asleep", "gone"}]]
    BY <1>1, <1>2 DEF TypeOK
  <1>4. << >> \in Seq(Messages)
    BY EmptySeq
  <1> QED
    BY <1>3, <1>4 DEF TypeOK, Close

(* Every step keeps every variable in its type.                            *)
LEMMA TypeStep == TypeOK /\ [Next]_vars => TypeOK'
  <1> SUFFICES ASSUME TypeOK, [Next]_vars PROVE TypeOK'
    OBVIOUS
  <1> USE BoundsAssumption, MessageTypes DEF linkVars, locateVars, callVars, wireVars
  <1>1. ASSUME NEW t \in Types, Locate(t) PROVE TypeOK'
    <2>1. /\ attempts' \in [Types -> 0..MaxConnections]
          /\ conn' \in [Types -> [Attempts ->
                    {"none", "connecting", "failed", "up", "asleep", "gone"}]]
      BY <1>1, ConnectTypes DEF Locate
    <2>2. services' \subseteq Types /\ located' \subseteq Types
      BY <1>1 DEF Locate, TypeOK
    <2>3. UNCHANGED <<current, restarts, announced, counter, updates, callVars, wireVars>>
      BY <1>1 DEF Locate
    <2> QED
      BY <2>1, <2>2, <2>3 DEF TypeOK
  <1>2. ASSUME NEW t \in Types, RemoveLocatedCallback(t) PROVE TypeOK'
    BY <1>2 DEF RemoveLocatedCallback, TypeOK
  <1>3. ASSUME NEW t \in Types, SendTo(t) PROVE TypeOK'
    <2>1. SendTo_(t, Update)
      BY <1>3 DEF SendTo
    <2>2. /\ conn' \in [Types -> [Attempts ->
                    {"none", "connecting", "failed", "up", "asleep", "gone"}]]
          /\ server' \in [Types -> SUBSET Messages] /\ sent' \subseteq Messages
          /\ UNCHANGED <<attempts, current, restarts, answers>>
      BY <2>1, SendTo_Types
    <2>3. updates' \in 0..MaxUpdates
      BY <1>3 DEF SendTo, TypeOK
    <2>4. UNCHANGED <<services, located, announced, counter, callbacks, posted, called>>
      BY <1>3 DEF SendTo
    <2> QED
      BY <2>2, <2>3, <2>4 DEF TypeOK
  <1>4. ASSUME NEW t \in Types, SendRegistered(t) PROVE TypeOK'
    <2>1. counter \in Requests /\ SendTo_(t, Request(counter))
      BY <1>4 DEF SendRegistered, TypeOK
    <2>2. Request(counter) \in Messages
      BY <2>1
    <2>3. /\ conn' \in [Types -> [Attempts ->
                    {"none", "connecting", "failed", "up", "asleep", "gone"}]]
          /\ server' \in [Types -> SUBSET Messages] /\ sent' \subseteq Messages
          /\ UNCHANGED <<attempts, current, restarts, answers>>
      BY <2>1, <2>2, SendTo_Types
    <2>4. counter' \in 0..MaxRequests /\ callbacks' \subseteq Requests
      BY <1>4, <2>1 DEF SendRegistered, TypeOK
    <2>5. UNCHANGED <<services, located, announced, updates, posted, called>>
      BY <1>4 DEF SendRegistered
    <2> QED
      BY <2>3, <2>4, <2>5 DEF TypeOK
  <1>5. ASSUME NEW t \in Types, ConnectSucceeds(t) PROVE TypeOK'
    BY <1>5 DEF ConnectSucceeds, TypeOK, Attempts
  <1>6. ASSUME NEW t \in Types, ConnectFails(t) PROVE TypeOK'
    BY <1>6 DEF ConnectFails, TypeOK
  <1>7. ASSUME NEW t \in Types, LinkDown(t) PROVE TypeOK'
    <2>1. Close(t)
      BY <1>7 DEF LinkDown
    <2>2. restarts' \in [Types -> Nat]
      BY <1>7 DEF LinkDown, ScheduleRestart, TypeOK
    <2>3. UNCHANGED <<locateVars, counter, updates, callVars>>
      BY <1>7 DEF LinkDown
    <2> QED
      BY <2>1, <2>2, <2>3, CloseTypes DEF TypeOK
  <1>8. ASSUME NEW t \in Types, LinkLostSilently(t) PROVE TypeOK'
    <2>1. Close(t) /\ UNCHANGED <<restarts, locateVars, counter, updates, callVars>>
      BY <1>8 DEF LinkLostSilently
    <2> QED
      BY <2>1, CloseTypes DEF TypeOK
  <1>9. ASSUME NEW t \in Types, ReadAnswer(t) PROVE TypeOK'
    <2>1. Head(answers[t]) \in Messages /\ Tail(answers[t]) \in Seq(Messages)
      BY <1>9, HeadAndTail DEF ReadAnswer, TypeOK
    <2>2. /\ Head(answers[t]).sender \in callbacks
          /\ callbacks' = callbacks \ {Head(answers[t]).sender}
          /\ posted' = posted \cup {<<Head(answers[t]).sender, Head(answers[t])>>}
          /\ answers' = [answers EXCEPT ![t] = Tail(@)]
      BY <1>9 DEF ReadAnswer
    <2>3. answers' \in [Types -> Seq(Messages)]
      BY <2>1, <2>2 DEF TypeOK
    <2>4. callbacks' \subseteq Requests /\ posted' \subseteq Requests \X Messages
      BY <2>1, <2>2 DEF TypeOK
    <2>5. UNCHANGED <<linkVars, locateVars, counter, updates, called, server, sent>>
      BY <1>9 DEF ReadAnswer
    <2> QED
      BY <2>3, <2>4, <2>5 DEF TypeOK
  <1>10. ASSUME NEW t \in Types, ReadPart(t) PROVE TypeOK'
    <2>1. Tail(answers[t]) \in Seq(Messages)
      BY <1>10, HeadAndTail DEF ReadPart, TypeOK
    <2>2. answers' \in [Types -> Seq(Messages)]
      BY <1>10, <2>1 DEF ReadPart, TypeOK
    <2>3. UNCHANGED <<linkVars, locateVars, counter, updates, callVars, server, sent>>
      BY <1>10 DEF ReadPart
    <2> QED
      BY <2>2, <2>3 DEF TypeOK
  <1>11. ASSUME NEW t \in Types, Restart(t) PROVE TypeOK'
    <2>1. /\ attempts' \in [Types -> 0..MaxConnections]
          /\ conn' \in [Types -> [Attempts ->
                    {"none", "connecting", "failed", "up", "asleep", "gone"}]]
      BY <1>11, ConnectTypes DEF Restart
    <2>2. restarts' \in [Types -> Nat]
      BY <1>11 DEF Restart, TypeOK
    <2>3. UNCHANGED <<current, locateVars, counter, updates, callVars, wireVars>>
      BY <1>11 DEF Restart
    <2> QED
      BY <2>1, <2>2, <2>3 DEF TypeOK
  <1>12. ASSUME NEW t \in Types, RunLocatedCallback(t) PROVE TypeOK'
    BY <1>12 DEF RunLocatedCallback, TypeOK
  <1>13. ASSUME NEW t \in Types, ServerAnswers(t) PROVE TypeOK'
    BY <1>13, AppendFacts DEF ServerAnswers, TypeOK
  <1>14. ASSUME RunCallback PROVE TypeOK'
    BY <1>14, AppendFacts DEF RunCallback, TypeOK
  <1>15. ASSUME UNCHANGED vars PROVE TypeOK'
    BY <1>15 DEF vars, TypeOK
  <1>16. ASSUME NEW t \in Types, LocateThrows(t) PROVE TypeOK'
    BY <1>16 DEF LocateThrows, TypeOK
  <1> QED
    BY <1>1, <1>2, <1>3, <1>4, <1>5, <1>6, <1>7, <1>8, <1>9, <1>10, <1>11, <1>12, <1>13,
       <1>14, <1>15, <1>16 DEF Next, Application, Io, ReadRejected

(* TypeOK: nothing is ever kept for a callback that does not exist, or on  *)
(* the way from a message nobody can send.                                 *)
THEOREM TypeCorrect == Spec => []TypeOK
  <1>1. Init => TypeOK
    BY BoundsAssumption, EmptySeq DEF Init, TypeOK
  <1> QED
    BY <1>1, TypeStep, PTL DEF Spec

-----------------------------------------------------------------------------
(***************************************************************************)
(* One connection                                                          *)
(***************************************************************************)

(* A connection made or being made excludes another, and excludes a        *)
(* scheduled restart; a service not located yet has neither.               *)
Exclusive(t) ==
    /\ restarts[t] \in {0, 1}
    /\ restarts[t] = 1 => Live(t) = {}
    /\ \A m, n \in Live(t) : m = n
    /\ \A n \in Attempts : n > attempts[t] => conn[t][n] = "none"
    /\ t \notin services => attempts[t] = 0 /\ restarts[t] = 0

LinkInv == \A t \in Types : Exclusive(t)

(* One more connect of a service that has none and no restart left.        *)
LEMMA ConnectExclusive ==
    ASSUME TypeOK, LinkInv, NEW t \in Types, Connect(t), Live(t) = {},
           restarts'[t] = 0, t \in services', services \subseteq services',
           \A u \in Types \ {t} : restarts'[u] = restarts[u]
    PROVE  LinkInv'
  <1> USE BoundsAssumption DEF Attempts
  <1>1. \A u \in Types \ {t} : conn'[u] = conn[u] /\ attempts'[u] = attempts[u]
    BY DEF Connect, TypeOK
  <1>2. \A u \in Types \ {t} : Exclusive(u)'
    BY <1>1 DEF LinkInv, Exclusive, Live
  <1>3. /\ attempts'[t] = attempts[t] + 1
        /\ \A n \in Attempts : conn'[t][n] = IF n = attempts[t] + 1 THEN "connecting"
                                                               ELSE conn[t][n]
    BY DEF Connect, TypeOK
  <1>4. Live(t)' \subseteq {attempts[t] + 1}
    BY <1>3 DEF Live
  <1>5. attempts[t] \in 0..MaxConnections
    BY DEF TypeOK
  <1>6. Exclusive(t)'
    BY <1>3, <1>4, <1>5 DEF LinkInv, Exclusive
  <1> QED
    BY <1>2, <1>6 DEF LinkInv

(* A step that only lets connections go, or turns one being made into one. *)
LEMMA LiveShrinks ==
    ASSUME TypeOK, LinkInv, UNCHANGED <<attempts, services, restarts>>,
           \A t \in Types : /\ Live(t)' \subseteq Live(t)
                            /\ \A n \in Attempts : conn[t][n] = "none" => conn'[t][n] = "none"
    PROVE  LinkInv'
  BY DEF LinkInv, Exclusive

LEMMA CloseEmpties ==
    ASSUME TypeOK, LinkInv, NEW t \in Types, Close(t)
    PROVE  /\ Live(t) = {current[t]} /\ Live(t)' = {}
           /\ restarts[t] = 0 /\ t \in services
           /\ \A n \in Attempts : conn[t][n] = "none" => conn'[t][n] = "none"
           /\ \A u \in Types \ {t} : conn'[u] = conn[u]
  <1>1. current[t] \in Attempts
    BY BoundsAssumption DEF TypeOK, Close, IsUp, Attempts
  <1>2. PICK left \in {"asleep", "gone"} : conn' = [conn EXCEPT ![t][current[t]] = left]
    BY DEF Close
  <1>3. conn[t][current[t]] = "up"
    BY DEF Close, IsUp
  <1>4. Live(t) = {current[t]}
    BY <1>1, <1>3 DEF Live, LinkInv, Exclusive
  <1>5. /\ conn'[t][current[t]] = left
        /\ \A n \in Attempts : n # current[t] => conn'[t][n] = conn[t][n]
        /\ \A u \in Types \ {t} : conn'[u] = conn[u]
    BY <1>1, <1>2 DEF TypeOK
  <1>6. Live(t)' = {}
    BY <1>4, <1>5 DEF Live
  <1>7. restarts[t] = 0
    BY <1>4 DEF LinkInv, Exclusive
  <1>8. t \in services
    BY <1>1, <1>3, BoundsAssumption DEF LinkInv, Exclusive, Attempts, TypeOK
  <1> QED
    BY <1>3, <1>4, <1>5, <1>6, <1>7, <1>8

(* Every step keeps connections and restarts exclusive.                    *)
LEMMA LinkStep == TypeOK /\ LinkInv /\ [Next]_vars => LinkInv'
  <1> SUFFICES ASSUME TypeOK, LinkInv, [Next]_vars PROVE LinkInv'
    OBVIOUS
  <1> USE DEF linkVars, locateVars, callVars, wireVars
  <1>0. ASSUME UNCHANGED <<attempts, conn, restarts, services>> PROVE LinkInv'
    BY <1>0 DEF LinkInv, Exclusive, Live
  <1>1. ASSUME NEW t \in Types, Locate(t) PROVE LinkInv'
    <2>1. Live(t) = {} /\ restarts[t] = 0
      BY <1>1, BoundsAssumption DEF Locate, LinkInv, Exclusive, Live, Attempts
    <2> QED
      BY <1>1, <2>1, ConnectExclusive DEF Locate
  <1>2. ASSUME NEW t \in Types, NEW message, SendTo_(t, message), UNCHANGED services
        PROVE LinkInv'
    <2>1. CASE IsUp(t)
      BY <1>0, <1>2, <2>1 DEF SendTo_
    <2>2. CASE ~IsUp(t)
      <3>1. UNCHANGED <<attempts, restarts>>
        BY <1>2, <2>2 DEF SendTo_
      <3>2. CASE current[t] # 0 /\ conn[t][current[t]] = "asleep"
        <4>1. conn' = [conn EXCEPT ![t][current[t]] = "gone"]
          BY <1>2, <2>2, <3>2 DEF SendTo_
        <4>2. current[t] \in Attempts
          BY <3>2, BoundsAssumption DEF TypeOK, Attempts
        <4>3. \A u \in Types, n \in Attempts :
                  \/ conn'[u][n] = conn[u][n]
                  \/ conn[u][n] = "asleep" /\ conn'[u][n] = "gone"
          BY <3>2, <4>1, <4>2 DEF TypeOK
        <4> QED
          BY <1>2, <3>1, <4>3, LiveShrinks DEF Live
      <3>3. CASE ~(current[t] # 0 /\ conn[t][current[t]] = "asleep")
        BY <1>0, <1>2, <2>2, <3>1, <3>3 DEF SendTo_
      <3> QED
        BY <3>2, <3>3
    <2> QED
      BY <2>1, <2>2
  <1>3. ASSUME NEW t \in Types, ConnectSucceeds(t) PROVE LinkInv'
    <2>1. PICK n \in Attempts : conn[t][n] = "connecting" /\ conn' = [conn EXCEPT ![t][n] = "up"]
      BY <1>3 DEF ConnectSucceeds
    <2>2. \A u \in Types, i \in Attempts :
              conn'[u][i] = IF u = t /\ i = n THEN "up" ELSE conn[u][i]
      BY <2>1 DEF TypeOK
    <2> QED
      BY <1>3, <2>1, <2>2, LiveShrinks DEF Live, ConnectSucceeds
  <1>4. ASSUME NEW t \in Types, ConnectFails(t) PROVE LinkInv'
    <2>1. PICK n \in Attempts :
              conn[t][n] = "connecting" /\ conn' = [conn EXCEPT ![t][n] = "failed"]
      BY <1>4 DEF ConnectFails
    <2>2. \A u \in Types, i \in Attempts :
              conn'[u][i] = IF u = t /\ i = n THEN "failed" ELSE conn[u][i]
      BY <2>1 DEF TypeOK
    <2> QED
      BY <1>4, <2>1, <2>2, LiveShrinks DEF Live, ConnectFails
  <1>5. ASSUME NEW t \in Types, LinkDown(t) PROVE LinkInv'
    <2>1. Close(t) /\ UNCHANGED <<attempts, services>>
      BY <1>5 DEF LinkDown, Close
    <2>2. restarts'[t] = 1 /\ \A u \in Types \ {t} : restarts'[u] = restarts[u]
      BY <1>5, <2>1, CloseEmpties DEF LinkDown, ScheduleRestart, TypeOK
    <2>3. Exclusive(t)'
      BY <2>1, <2>2, CloseEmpties DEF LinkInv, Exclusive
    <2>4. \A u \in Types \ {t} : Exclusive(u)'
      BY <2>1, <2>2, CloseEmpties DEF LinkInv, Exclusive, Live
    <2> QED
      BY <2>3, <2>4 DEF LinkInv
  <1>6. ASSUME NEW t \in Types, LinkLostSilently(t) PROVE LinkInv'
    <2>1. Close(t) /\ UNCHANGED <<attempts, services, restarts>>
      BY <1>6 DEF LinkLostSilently, Close
    <2>2. \A u \in Types : Live(u)' \subseteq Live(u)
      BY <2>1, CloseEmpties DEF Live
    <2> QED
      BY <2>1, <2>2, CloseEmpties, LiveShrinks
  <1>7. ASSUME NEW t \in Types, Restart(t) PROVE LinkInv'
    <2>1. /\ Connect(t) /\ UNCHANGED services
          /\ restarts[t] = 1 /\ restarts'[t] = 0
          /\ \A u \in Types \ {t} : restarts'[u] = restarts[u]
      BY <1>7 DEF Restart, LinkInv, Exclusive, TypeOK
    <2> QED
      BY <2>1, ConnectExclusive DEF LinkInv, Exclusive
  <1>8. ASSUME NEW t \in Types,
               \/ RemoveLocatedCallback(t) \/ ReadAnswer(t) \/ ReadPart(t)
               \/ RunLocatedCallback(t) \/ ServerAnswers(t)
        PROVE LinkInv'
    BY <1>0, <1>8 DEF RemoveLocatedCallback, ReadAnswer, ReadPart, RunLocatedCallback,
                      ServerAnswers
  <1>9. CASE RunCallback \/ UNCHANGED vars
    BY <1>0, <1>9 DEF RunCallback, vars
  <1>10. ASSUME NEW t \in Types, LocateThrows(t) PROVE LinkInv'
    <2>1. UNCHANGED <<attempts, conn, restarts>> /\ services \subseteq services'
      BY <1>10 DEF LocateThrows
    <2> QED
      BY <2>1 DEF LinkInv, Exclusive, Live
  <1> QED
    BY <1>1, <1>2, <1>3, <1>4, <1>5, <1>6, <1>7, <1>8, <1>9, <1>10
       DEF Next, Application, Io, ReadRejected, SendTo, SendRegistered

(* OneConnection: located once, lost and restarted, a service has at most  *)
(* one connection, counting those being made and those scheduled.          *)
THEOREM NeverTwoConnections == Spec => []OneConnection
  <1>1. Init => TypeOK /\ LinkInv
    BY BoundsAssumption, EmptySeq DEF Init, TypeOK, LinkInv, Exclusive, Live, Attempts
  <1>2. TypeOK /\ LinkInv /\ [Next]_vars => (TypeOK /\ LinkInv)'
    BY TypeStep, LinkStep
  <1>3. LinkInv => OneConnection
    <2> SUFFICES ASSUME LinkInv, NEW t \in Types
                 PROVE Cardinality(Live(t)) + restarts[t] <= 1
      BY DEF OneConnection
    <2>1. CASE Live(t) = {}
      BY <2>1, FS_EmptySet DEF LinkInv, Exclusive
    <2>2. CASE Live(t) # {}
      <3>1. PICK n : Live(t) = {n}
        BY <2>2 DEF LinkInv, Exclusive
      <3>2. restarts[t] = 0
        BY <2>2 DEF LinkInv, Exclusive
      <3> QED
        BY <3>1, <3>2, FS_Singleton
    <2> QED
      BY <2>1, <2>2
  <1> QED
    BY <1>1, <1>2, <1>3, PTL DEF Spec

-----------------------------------------------------------------------------
(***************************************************************************)
(* Called once                                                             *)
(***************************************************************************)

(* The number of a callback that is registered, posted or called has been  *)
(* given out: the next one is new.                                         *)
NumbersGivenOut ==
    /\ \A r \in callbacks : r < counter
    /\ \A p \in posted : p[1] < counter
    /\ \A i \in DOMAIN called : called[i][1] < counter

(* A number is registered, posted or called, and only one of the three.    *)
CalledOnce ==
    /\ \A i, j \in DOMAIN called : called[i][1] = called[j][1] => i = j
    /\ \A p, q \in posted : p[1] = q[1] => p = q
    /\ \A p \in posted, i \in DOMAIN called : p[1] # called[i][1]
    /\ \A p \in posted : p[1] \notin callbacks
    /\ \A i \in DOMAIN called : called[i][1] \notin callbacks

CallInv == CalledOnce /\ NumbersGivenOut

(* Every step leaves each callback in at most one place.                   *)
LEMMA CallStep == TypeOK /\ CallInv /\ [Next]_vars => CallInv'
  <1> SUFFICES ASSUME TypeOK, CallInv, [Next]_vars PROVE CallInv'
    OBVIOUS
  <1> USE DEF linkVars, locateVars, callVars, wireVars
  <1>0. ASSUME UNCHANGED <<counter, callVars>> PROVE CallInv'
    BY <1>0 DEF CallInv, CalledOnce, NumbersGivenOut
  <1>1. ASSUME NEW t \in Types, SendRegistered(t) PROVE CallInv'
    <2>1. /\ counter' = counter + 1 /\ callbacks' = callbacks \cup {counter}
          /\ UNCHANGED <<posted, called>>
      BY <1>1 DEF SendRegistered
    <2>2. /\ callbacks \subseteq Int /\ counter \in Int
          /\ \A p \in posted : p[1] \in Int
          /\ \A i \in DOMAIN called : called[i][1] \in Int
      <3>1. Requests \subseteq Int
        BY DEF Requests
      <3>2. \A i \in DOMAIN called : called[i] \in Requests \X Messages
        BY ElementOfSeq DEF TypeOK
      <3>3. \A p \in Requests \X Messages : p[1] \in Int
        BY <3>1
      <3>4. callbacks \subseteq Int /\ counter \in Int /\ \A p \in posted : p[1] \in Int
        BY <3>1, <3>3, BoundsAssumption DEF TypeOK
      <3> QED
        BY <3>2, <3>3, <3>4
    <2> QED
      BY <2>1, <2>2 DEF CallInv, CalledOnce, NumbersGivenOut
  <1>2. ASSUME NEW t \in Types, ReadAnswer(t) PROVE CallInv'
    <2>1. PICK r \in callbacks, answer \in Messages :
              /\ callbacks' = callbacks \ {r}
              /\ posted' = posted \cup {<<r, answer>>}
              /\ UNCHANGED <<called, counter>>
      BY <1>2, HeadAndTail DEF ReadAnswer, TypeOK
    <2> QED
      BY <2>1 DEF CallInv, CalledOnce, NumbersGivenOut
  <1>3. ASSUME RunCallback PROVE CallInv'
    <2>1. PICK p \in posted : /\ posted' = posted \ {p} /\ called' = Append(called, p)
                             /\ UNCHANGED <<callbacks, counter>>
      BY <1>3 DEF RunCallback
    <2>2. /\ DOMAIN called' = 1..(Len(called) + 1) /\ DOMAIN called = 1..Len(called)
          /\ \A i \in DOMAIN called : called'[i] = called[i]
          /\ called'[Len(called) + 1] = p
          /\ Len(called) \in Nat
      BY <2>1, AppendFacts DEF TypeOK
    <2>3. \A i \in DOMAIN called' : \/ i \in DOMAIN called /\ called'[i] = called[i]
                                    \/ i = Len(called) + 1 /\ called'[i] = p
      BY <2>2
    <2>4. CalledOnce'
      BY <2>1, <2>3 DEF CallInv, CalledOnce
    <2>5. NumbersGivenOut'
      BY <2>1, <2>3 DEF CallInv, NumbersGivenOut
    <2> QED
      BY <2>4, <2>5 DEF CallInv
  <1>4. CASE UNCHANGED vars
    BY <1>0, <1>4 DEF vars
  <1>5. ASSUME NEW t \in Types,
               \/ Locate(t) \/ LocateThrows(t) \/ RemoveLocatedCallback(t) \/ SendTo(t)
               \/ ConnectSucceeds(t) \/ ConnectFails(t) \/ LinkDown(t) \/ LinkLostSilently(t) \/ ReadPart(t)
               \/ Restart(t) \/ RunLocatedCallback(t) \/ ServerAnswers(t)
        PROVE CallInv'
    BY <1>0, <1>5 DEF Locate, LocateThrows, RemoveLocatedCallback, SendTo, ConnectSucceeds, ConnectFails,
                      LinkDown, LinkLostSilently, ReadPart, Restart, RunLocatedCallback,
                      ServerAnswers
  <1> QED
    BY <1>1, <1>2, <1>3, <1>4, <1>5 DEF Next, Application, Io, ReadRejected

(* A registered callback is called at most once, however many answers to   *)
(* it come, and whatever servers answer.                                   *)
THEOREM CallbackOnce == Spec => [](TypeOK /\ CallInv)
  <1>1. Init => TypeOK /\ CallInv
    BY BoundsAssumption, EmptySeq DEF Init, TypeOK, CallInv, CalledOnce, NumbersGivenOut
  <1>2. TypeOK /\ CallInv /\ [Next]_vars => (TypeOK /\ CallInv)'
    BY TypeStep, CallStep
  <1> QED
    BY <1>1, <1>2, PTL DEF Spec

-----------------------------------------------------------------------------
(***************************************************************************)
(* Answers to requests                                                     *)
(***************************************************************************)

(* What servers answer, if they answer requests only.                      *)
Answerable == {Request(r) : r \in Requests}
AnswersInv == \A t \in Types : answers[t] \in Seq(Answerable)

LEMMA AnswersStep ==
    ASSUME AnswersUpdates = FALSE, TypeOK, AnswersInv, [Next]_vars
    PROVE  AnswersInv'
  <1> USE DEF linkVars, locateVars, callVars, wireVars
  <1>1. ASSUME UNCHANGED answers PROVE AnswersInv'
    BY <1>1 DEF AnswersInv
  <1>2. ASSUME NEW t \in Types, answers[t] # << >>, answers' = [answers EXCEPT ![t] = Tail(@)]
        PROVE AnswersInv'
    <2>1. Tail(answers[t]) \in Seq(Answerable)
      BY <1>2, HeadAndTail DEF AnswersInv
    <2> QED
      BY <1>2, <2>1 DEF AnswersInv, TypeOK
  <1>3. ASSUME NEW t \in Types, ServerAnswers(t) PROVE AnswersInv'
    <2>1. PICK message \in server[t] : /\ message = Update => AnswersUpdates
                                      /\ answers' = [answers EXCEPT ![t] = Append(@, message)]
      BY <1>3 DEF ServerAnswers
    <2>2. message \in Answerable
      BY <2>1 DEF TypeOK, Messages, Answerable
    <2>3. Append(answers[t], message) \in Seq(Answerable)
      BY <2>2, AppendFacts DEF AnswersInv
    <2> QED
      BY <2>1, <2>3 DEF AnswersInv, TypeOK
  <1>4. ASSUME NEW t \in Types, Close(t) PROVE AnswersInv'
    BY <1>4, EmptySeq DEF Close, AnswersInv, TypeOK
  <1>5. ASSUME NEW t \in Types, ReadAnswer(t) \/ ReadPart(t) PROVE AnswersInv'
    BY <1>2, <1>5 DEF ReadAnswer, ReadPart
  <1>6. ASSUME NEW t \in Types, LinkDown(t) \/ LinkLostSilently(t) PROVE AnswersInv'
    BY <1>4, <1>6 DEF LinkDown, LinkLostSilently
  <1>7. ASSUME NEW t \in Types, SendTo(t) \/ SendRegistered(t) PROVE AnswersInv'
    BY <1>1, <1>7 DEF SendTo, SendRegistered, SendTo_
  <1>8. ASSUME NEW t \in Types,
               \/ Locate(t) \/ LocateThrows(t) \/ RemoveLocatedCallback(t)
               \/ ConnectSucceeds(t) \/ ConnectFails(t) \/ Restart(t) \/ RunLocatedCallback(t)
        PROVE AnswersInv'
    BY <1>1, <1>8 DEF Locate, LocateThrows, RemoveLocatedCallback, ConnectSucceeds,
                      ConnectFails, Restart, RunLocatedCallback
  <1>9. CASE RunCallback \/ UNCHANGED vars
    BY <1>1, <1>9 DEF RunCallback, vars
  <1> QED
    BY <1>3, <1>5, <1>6, <1>7, <1>8, <1>9 DEF Next, Application, Io, ReadRejected

(* Every step asks, lets an answer through or makes a call as the contract *)
(* has it, or is one that the contract does not see.                       *)
LEMMA ContractStep ==
    ASSUME TypeOK, CallInv, AnswersInv, [Next]_vars
    PROVE  [Calls!Next]_(Calls!callVariables)
  <1> USE DEF linkVars, locateVars, callVars, wireVars
  <1>0. ASSUME UNCHANGED <<counter, callVars>> PROVE [Calls!Next]_(Calls!callVariables)
    BY <1>0 DEF Calls!callVariables
  <1>1. ASSUME NEW t \in Types, SendRegistered(t) PROVE Calls!Next
    BY <1>1 DEF SendRegistered, Calls!Next, Calls!Ask
  <1>2. ASSUME NEW t \in Types, ReadAnswer(t) PROVE Calls!Next
    <2>1. /\ answers[t] # << >> /\ Head(answers[t]).sender \in callbacks
          /\ posted' = posted \cup {<<Head(answers[t]).sender, Head(answers[t])>>}
          /\ UNCHANGED <<called, counter>>
      BY <1>2 DEF ReadAnswer
    <2>2. Head(answers[t]) \in Answerable
      BY <2>1, HeadAndTail DEF AnswersInv
    <2>3. PICK r \in Requests : Head(answers[t]) = Request(r)
      BY <2>2 DEF Answerable
    <2>4. Head(answers[t]).sender = r
      BY <2>3 DEF Request
    <2>5. r \in callbacks /\ r < counter /\ r \in Nat /\ counter \in Nat
      BY <2>1, <2>4, BoundsAssumption DEF CallInv, NumbersGivenOut, TypeOK, Requests
    <2>6. r \in 0..(counter - 1)
      BY <2>5
    <2>7. Calls!Answered(r)
      BY <2>1, <2>3, <2>4, <2>5 DEF Calls!Answered, CallInv, CalledOnce
    <2> QED
      BY <2>6, <2>7 DEF Calls!Next
  <1>3. ASSUME RunCallback PROVE Calls!Next
    BY <1>3 DEF RunCallback, Calls!Next, Calls!Call
  <1>4. ASSUME NEW t \in Types,
               \/ Locate(t) \/ LocateThrows(t) \/ RemoveLocatedCallback(t) \/ SendTo(t)
               \/ ConnectSucceeds(t) \/ ConnectFails(t) \/ LinkDown(t) \/ LinkLostSilently(t)
               \/ ReadPart(t) \/ Restart(t) \/ RunLocatedCallback(t) \/ ServerAnswers(t)
        PROVE [Calls!Next]_(Calls!callVariables)
    BY <1>0, <1>4 DEF Locate, LocateThrows, RemoveLocatedCallback, SendTo, ConnectSucceeds,
                      ConnectFails, LinkDown, LinkLostSilently, ReadPart, Restart,
                      RunLocatedCallback, ServerAnswers
  <1>5. CASE UNCHANGED vars
    BY <1>0, <1>5 DEF vars
  <1> QED
    BY <1>1, <1>2, <1>3, <1>4, <1>5 DEF Next, Application, Io, ReadRejected

(* CallsAsPromised: for any services and any bounds the locator implements *)
(* CallContract, as long as servers answer nothing but requests.           *)
THEOREM ImplementsCallContract ==
    ASSUME AnswersUpdates = FALSE
    PROVE  Spec => CallsAsPromised
  <1>1. Init => Calls!Init /\ AnswersInv
    BY EmptySeq DEF Init, Calls!Init, AnswersInv
  <1>2. TypeOK /\ AnswersInv /\ [Next]_vars => AnswersInv'
    BY AnswersStep
  <1>3. TypeOK /\ CallInv /\ AnswersInv /\ [Next]_vars => [Calls!Next]_(Calls!callVariables)
    BY ContractStep
  <1> QED
    BY <1>1, <1>2, <1>3, CallbackOnce, PTL DEF Spec, CallsAsPromised, Calls!Spec
=============================================================================
