--------------------------- MODULE ScheduleProofs ---------------------------
(***************************************************************************)
(* Proofs about Schedule, for any number of items and threads, and whether *)
(* or not counter_ comes round.  When it does, two promises need that the  *)
(* value add() takes is not in use: that callbacks are not early, that it  *)
(* has no entry (FreshEntry); that an early cancel is final, that no item  *)
(* of that value still waits (FreshId).  Both follow when no value comes   *)
(* twice (NoReuse).                                                        *)
(***************************************************************************)
EXTENDS Schedule, TLAPS

(* No two calls of add() get the same value of counter_.                   *)
NoReuse == \A g, h \in Items : Id(g) = Id(h) => g = h

(* The value of counter_ an add() takes has no entry in timers_.           *)
AddsEntry == Add => timers[Id(counter + 1)] = NoTimer
FreshEntry == [][AddsEntry]_vars

(* No item of the value an add() takes waits, or has its handler to come.  *)
AddsId == Add => \A g \in 1..counter :
              Id(g) = Id(counter + 1) => wait[g] \notin {"waiting", "ready"}
FreshId == [][AddsId]_vars

(* Timers are those of items that were added, under their own ids.         *)
UsedInv == \A i \in Ids : timers[i] # NoTimer =>
               timers[i] <= counter /\ Id(timers[i]) = i

(* An item waits on its own timer, and a wait that ended without an error  *)
(* ended because its time had come.                                        *)
DueInv ==
    /\ \A h \in Items : wait[h] # "none" => object[h] = h
    /\ \A h \in Items : \/ wait[h] \in {"none", "waiting", "dropped"}
                        \/ h \in aborted \/ h \in due

(* An item cancelled early has no entry as long as its handler is to come. *)
EarlyInv == \A h \in Items : cancelled[h] = "early" =>
                \/ wait[h] = "dropped"
                \/ timers[Id(h)] = NoTimer /\ wait[h] \in {"waiting", "ready"}

(* The item that created a timer of timers_ waits on it, under its own id, *)
(* has a wait or a handler still to come, or was missed.                   *)
OwnerInv == \A i \in Ids : timers[i] # NoTimer =>
                /\ Id(timers[i]) = i /\ object[timers[i]] = timers[i]
                /\ \/ wait[timers[i]] \in {"waiting", "ready", "looking", "found"}
                   \/ timers[i] \in torn

-----------------------------------------------------------------------------
(* Ids are keys of timers_.                                                *)
LEMMA IdType == \A h \in Items : Id(h) \in Ids
  BY ItemsAssumption, IdSpaceAssumption DEF Items, Ids, Id

(* counter_ does not come round while there are no more items than values. *)
LEMMA NoReuseWhenWide == MaxItems <= IdSpace => NoReuse
<1> SUFFICES ASSUME MaxItems <= IdSpace, NEW g \in Items, NEW h \in Items,
                    Id(g) = Id(h)
             PROVE  g = h
  BY DEF NoReuse
<1>1. \A k \in Items : Id(k) = k - 1
  BY ItemsAssumption, IdSpaceAssumption DEF Items, Id
<1>2. QED
  BY <1>1 DEF Items

(* What add() does.                                                        *)
LEMMA AddFacts ==
  ASSUME TypeOK, Add
  PROVE  LET n == counter + 1
             t == IF timers[Id(n)] = NoTimer THEN n ELSE timers[Id(n)]
         IN  /\ n \in Items /\ wait[n] = "none" /\ Id(n) \in Ids /\ n # NoTimer
             /\ counter' = n
             /\ timers' = [timers EXCEPT ![Id(n)] = t]
             /\ object' = [object EXCEPT ![n] = t]
             /\ wait' = [wait EXCEPT ![n] = "waiting"]
             /\ UNCHANGED <<aborted, due, cancelled, phase>>
<1>1. counter + 1 \in Items
  BY ItemsAssumption DEF TypeOK, Add, Items
<1>2. wait[counter + 1] = "none" /\ counter + 1 # NoTimer
  BY <1>1, ItemsAssumption DEF TypeOK, NoTimer, Items
<1>3. QED
  BY <1>1, <1>2, IdType DEF Add, SetTimer

(* The schedule starts so.                                                 *)
LEMMA InitInv ==
  Init => TypeOK /\ UsedInv /\ DueInv /\ EarlyInv /\ OwnerInv
  BY IdType, ItemsAssumption, IdSpaceAssumption
  DEF Init, TypeOK, UsedInv, DueInv, EarlyInv, OwnerInv, Items, NoTimer, NoWorker

(* Every step keeps the types, and the order in which items are taken.     *)
LEMMA TypeStep ==
  ASSUME TypeOK, [Next]_vars
  PROVE  TypeOK'
<1> USE ItemsAssumption, IdSpaceAssumption, IdType
        DEF TypeOK, NoTimer, NoWorker, Pool, pool
<1>1. CASE Add
  <2>1. counter + 1 \in Items
    BY <1>1 DEF Add, Items
  <2>2. Id(counter + 1) \in Ids
    BY <2>1
  <2>3. counter' \in 0..MaxItems
    BY <1>1 DEF Add
  <2>4. timers' \in [Ids -> Items \cup {NoTimer}] /\ object' \in [Items -> Items \cup {NoTimer}]
    BY <1>1, <2>1, <2>2 DEF Add, SetTimer
  <2>5. \A h \in Items : wait'[h] = "none" <=> h > counter'
    BY <1>1, <2>1 DEF Add, Items
  <2>6. QED
    BY <1>1, <2>3, <2>4, <2>5 DEF Add, SetTimer
<1>2. CASE CancelAll
  BY <1>2 DEF CancelAll, AbortAll
<1>3. CASE Destroy
  BY <1>3 DEF Destroy, AbortAll
<1>4. CASE Stop
  BY <1>4 DEF Stop
<1>5. CASE Join
  BY <1>5 DEF Join
<1>6. ASSUME NEW h \in Items, CancelItem(h) PROVE TypeOK'
  BY <1>6 DEF CancelItem, EndWaits, SetTimer
<1>7. ASSUME NEW h \in Items, Elapse(h) PROVE TypeOK'
  BY <1>7 DEF Elapse
<1>8. ASSUME NEW h \in Items, Expire(h) PROVE TypeOK'
  BY <1>8 DEF Expire, EndWaits
<1>9. ASSUME NEW h \in Items, Look(h) PROVE TypeOK'
  BY <1>9 DEF Look
<1>10. ASSUME NEW h \in Items, Find(h) PROVE TypeOK'
  BY <1>10 DEF Find
<1>11. ASSUME NEW h \in Items, Erase(h) PROVE TypeOK'
  BY <1>11 DEF Erase, SetTimer
<1>12. ASSUME NEW h \in Items, Call(h) PROVE TypeOK'
  BY <1>12 DEF Call
<1>13. ASSUME NEW h \in Items, RunPosted(h) PROVE TypeOK'
  BY <1>13 DEF RunPosted
<1>14. ASSUME NEW h \in Items, Throw(h) PROVE TypeOK'
  BY <1>14 DEF Throw
<1>15. CASE UNCHANGED vars
  BY <1>15 DEF vars
<1>16. QED
  BY <1>1, <1>2, <1>3, <1>4, <1>5, <1>6, <1>7, <1>8, <1>9, <1>10, <1>11,
      <1>12, <1>13, <1>14, <1>15 DEF Next, Handler

(* Every step keeps timers under the ids of the items they are of.         *)
LEMMA UsedStep ==
  ASSUME TypeOK, UsedInv, [Next]_vars
  PROVE  UsedInv'
<1> USE ItemsAssumption, IdSpaceAssumption, IdType
        DEF TypeOK, UsedInv
<1>1. CASE Add
  <2> DEFINE n == counter + 1
             t == IF timers[Id(n)] = NoTimer THEN n ELSE timers[Id(n)]
  <2>1. /\ n \in Items /\ wait[n] = "none" /\ Id(n) \in Ids /\ n # NoTimer
        /\ counter' = n
        /\ timers' = [timers EXCEPT ![Id(n)] = t]
        /\ object' = [object EXCEPT ![n] = t]
        /\ wait' = [wait EXCEPT ![n] = "waiting"]
        /\ UNCHANGED <<aborted, due, cancelled, phase>>
    BY <1>1, AddFacts
  <2>2. counter \in Nat /\ \A i \in Ids : timers[i] # NoTimer => timers[i] <= n /\ Id(timers[i]) = i
    BY DEF Items
  <2>3. t # NoTimer => t <= n /\ Id(t) = Id(n)
    BY <2>1, <2>2
  <2> HIDE DEF n, t
  <2>4. QED
    BY <2>1, <2>2, <2>3
<1>2. CASE CancelAll
  BY <1>2 DEF CancelAll, AbortAll
<1>3. CASE Destroy
  BY <1>3 DEF Destroy, AbortAll
<1>4. CASE Stop
  BY <1>4 DEF Stop
<1>5. CASE Join
  BY <1>5 DEF Join
<1>6. ASSUME NEW h \in Items, CancelItem(h) PROVE UsedInv'
  BY <1>6 DEF CancelItem, EndWaits, SetTimer
<1>7. ASSUME NEW h \in Items, Elapse(h) PROVE UsedInv'
  BY <1>7 DEF Elapse
<1>8. ASSUME NEW h \in Items, Expire(h) PROVE UsedInv'
  BY <1>8 DEF Expire, EndWaits
<1>9. ASSUME NEW h \in Items, Look(h) PROVE UsedInv'
  BY <1>9 DEF Look
<1>10. ASSUME NEW h \in Items, Find(h) PROVE UsedInv'
  BY <1>10 DEF Find
<1>11. ASSUME NEW h \in Items, Erase(h) PROVE UsedInv'
  BY <1>11 DEF Erase, SetTimer
<1>12. ASSUME NEW h \in Items, Call(h) PROVE UsedInv'
  BY <1>12 DEF Call
<1>13. ASSUME NEW h \in Items, RunPosted(h) PROVE UsedInv'
  BY <1>13 DEF RunPosted
<1>14. ASSUME NEW h \in Items, Throw(h) PROVE UsedInv'
  BY <1>14 DEF Throw
<1>15. CASE UNCHANGED vars
  BY <1>15 DEF vars
<1>16. QED
  BY <1>1, <1>2, <1>3, <1>4, <1>5, <1>6, <1>7, <1>8, <1>9, <1>10, <1>11,
      <1>12, <1>13, <1>14, <1>15 DEF Next, Handler

(* Every step but an add() that finds an entry keeps items on their own    *)
(* timers, and early ends marked as errors.                                *)
LEMMA DueStep ==
  ASSUME TypeOK, DueInv, [Next]_vars, AddsEntry
  PROVE  DueInv'
<1> USE ItemsAssumption, IdSpaceAssumption, IdType
        DEF TypeOK, DueInv
<1>1. CASE Add
  <2> DEFINE n == counter + 1
             t == IF timers[Id(n)] = NoTimer THEN n ELSE timers[Id(n)]
  <2>1. /\ n \in Items /\ wait[n] = "none" /\ Id(n) \in Ids /\ n # NoTimer
        /\ counter' = n
        /\ timers' = [timers EXCEPT ![Id(n)] = t]
        /\ object' = [object EXCEPT ![n] = t]
        /\ wait' = [wait EXCEPT ![n] = "waiting"]
        /\ UNCHANGED <<aborted, due, cancelled, phase>>
    BY <1>1, AddFacts
  <2>2. t = n
    BY <1>1 DEF AddsEntry
  <2> HIDE DEF n, t
  <2>3. QED
    BY <2>1, <2>2
<1>2. CASE CancelAll
  BY <1>2 DEF CancelAll, AbortAll
<1>3. CASE Destroy
  BY <1>3 DEF Destroy, AbortAll
<1>4. CASE Stop
  BY <1>4 DEF Stop
<1>5. CASE Join
  BY <1>5 DEF Join
<1>6. ASSUME NEW h \in Items, CancelItem(h) PROVE DueInv'
  BY <1>6 DEF CancelItem, EndWaits, SetTimer
<1>7. ASSUME NEW h \in Items, Elapse(h) PROVE DueInv'
  BY <1>7 DEF Elapse
<1>8. ASSUME NEW h \in Items, Expire(h) PROVE DueInv'
  BY <1>8 DEF Expire, EndWaits
<1>9. ASSUME NEW h \in Items, Look(h) PROVE DueInv'
  BY <1>9 DEF Look
<1>10. ASSUME NEW h \in Items, Find(h) PROVE DueInv'
  BY <1>10 DEF Find
<1>11. ASSUME NEW h \in Items, Erase(h) PROVE DueInv'
  BY <1>11 DEF Erase, SetTimer
<1>12. ASSUME NEW h \in Items, Call(h) PROVE DueInv'
  BY <1>12 DEF Call
<1>13. ASSUME NEW h \in Items, RunPosted(h) PROVE DueInv'
  BY <1>13 DEF RunPosted
<1>14. ASSUME NEW h \in Items, Throw(h) PROVE DueInv'
  BY <1>14 DEF Throw
<1>15. CASE UNCHANGED vars
  BY <1>15 DEF vars
<1>16. QED
  BY <1>1, <1>2, <1>3, <1>4, <1>5, <1>6, <1>7, <1>8, <1>9, <1>10, <1>11,
      <1>12, <1>13, <1>14, <1>15 DEF Next, Handler

(* No step brings back an item that was cancelled early, but an add() that *)
(* takes its id while its handler is still to come.                        *)
LEMMA EarlyStep ==
  ASSUME TypeOK, EarlyInv, [Next]_vars, AddsId
  PROVE  EarlyInv'
<1> USE ItemsAssumption, IdSpaceAssumption, IdType
        DEF TypeOK, EarlyInv
<1>1. CASE Add
  <2> DEFINE n == counter + 1
             t == IF timers[Id(n)] = NoTimer THEN n ELSE timers[Id(n)]
  <2>1. /\ n \in Items /\ wait[n] = "none" /\ Id(n) \in Ids /\ n # NoTimer
        /\ counter' = n
        /\ timers' = [timers EXCEPT ![Id(n)] = t]
        /\ object' = [object EXCEPT ![n] = t]
        /\ wait' = [wait EXCEPT ![n] = "waiting"]
        /\ UNCHANGED <<aborted, due, cancelled, phase>>
    BY <1>1, AddFacts
  <2>2. \A h \in Items : wait[h] # "none" => h \in 1..counter
    BY DEF Items
  <2>3. ASSUME NEW h \in Items, cancelled'[h] = "early"
        PROVE  wait'[h] = "dropped" \/ (timers'[Id(h)] = NoTimer /\ wait'[h] \in {"waiting", "ready"})
    <3>1. cancelled[h] = "early" /\ h # n
      BY <2>1, <2>3
    <3>2. wait'[h] = wait[h]
      BY <2>1, <3>1
    <3>3. CASE wait[h] # "dropped"
      <4>1. timers[Id(h)] = NoTimer /\ wait[h] \in {"waiting", "ready"}
        BY <3>1, <3>3
      <4>2. h \in 1..counter
        BY <2>2, <4>1
      <4>3. Id(h) # Id(n)
        BY <1>1, <4>1, <4>2 DEF AddsId
      <4> HIDE DEF n, t
      <4>4. timers'[Id(h)] = NoTimer
        BY <2>1, <4>1, <4>3
      <4>5. QED
        BY <3>2, <4>1, <4>4
    <3>4. QED
      BY <3>2, <3>3
  <2>4. QED
    BY <2>3
<1>2. CASE CancelAll
  BY <1>2 DEF CancelAll, AbortAll
<1>3. CASE Destroy
  BY <1>3 DEF Destroy, AbortAll
<1>4. CASE Stop
  BY <1>4 DEF Stop
<1>5. CASE Join
  BY <1>5 DEF Join
<1>6. ASSUME NEW h \in Items, CancelItem(h) PROVE EarlyInv'
  BY <1>6 DEF CancelItem, EndWaits, SetTimer
<1>7. ASSUME NEW h \in Items, Elapse(h) PROVE EarlyInv'
  BY <1>7 DEF Elapse
<1>8. ASSUME NEW h \in Items, Expire(h) PROVE EarlyInv'
  BY <1>8 DEF Expire, EndWaits
<1>9. ASSUME NEW h \in Items, Look(h) PROVE EarlyInv'
  BY <1>9 DEF Look
<1>10. ASSUME NEW h \in Items, Find(h) PROVE EarlyInv'
  BY <1>10 DEF Find
<1>11. ASSUME NEW h \in Items, Erase(h) PROVE EarlyInv'
  BY <1>11 DEF Erase, SetTimer
<1>12. ASSUME NEW h \in Items, Call(h) PROVE EarlyInv'
  BY <1>12 DEF Call
<1>13. ASSUME NEW h \in Items, RunPosted(h) PROVE EarlyInv'
  BY <1>13 DEF RunPosted
<1>14. ASSUME NEW h \in Items, Throw(h) PROVE EarlyInv'
  BY <1>14 DEF Throw
<1>15. CASE UNCHANGED vars
  BY <1>15 DEF vars
<1>16. QED
  BY <1>1, <1>2, <1>3, <1>4, <1>5, <1>6, <1>7, <1>8, <1>9, <1>10, <1>11,
      <1>12, <1>13, <1>14, <1>15 DEF Next, Handler

(* No step leaves an entry behind.                                         *)
LEMMA OwnerStep ==
  ASSUME TypeOK, OwnerInv, [Next]_vars
  PROVE  OwnerInv'
<1> USE ItemsAssumption, IdSpaceAssumption, IdType
        DEF TypeOK, OwnerInv
<1>1. CASE Add
  <2> DEFINE n == counter + 1
             t == IF timers[Id(n)] = NoTimer THEN n ELSE timers[Id(n)]
  <2>1. /\ n \in Items /\ Id(n) \in Ids
        /\ timers' = [timers EXCEPT ![Id(n)] = t]
        /\ object' = [object EXCEPT ![n] = t]
        /\ wait' = [wait EXCEPT ![n] = "waiting"]
        /\ torn \subseteq torn'
    BY <1>1 DEF Add, SetTimer, Items
  <2>2. n # NoTimer
    BY <2>1 DEF Items, NoTimer
  <2>3. t = n \/ (t = timers[Id(n)] /\ t # NoTimer)
    OBVIOUS
  <2> HIDE DEF n, t
  <2>4. QED
    BY <2>1, <2>2, <2>3
<1>2. CASE CancelAll
  BY <1>2 DEF CancelAll, AbortAll
<1>3. CASE Destroy
  BY <1>3 DEF Destroy, AbortAll
<1>4. CASE Stop
  BY <1>4 DEF Stop
<1>5. CASE Join
  BY <1>5 DEF Join
<1>6. ASSUME NEW h \in Items, CancelItem(h) PROVE OwnerInv'
  BY <1>6 DEF CancelItem, EndWaits, SetTimer
<1>7. ASSUME NEW h \in Items, Elapse(h) PROVE OwnerInv'
  BY <1>7 DEF Elapse
<1>8. ASSUME NEW h \in Items, Expire(h) PROVE OwnerInv'
  BY <1>8 DEF Expire, EndWaits
<1>9. ASSUME NEW h \in Items, Look(h) PROVE OwnerInv'
  BY <1>9 DEF Look
<1>10. ASSUME NEW h \in Items, Find(h) PROVE OwnerInv'
  BY <1>10 DEF Find
<1>11. ASSUME NEW h \in Items, Erase(h) PROVE OwnerInv'
  BY <1>11 DEF Erase, SetTimer
<1>12. ASSUME NEW h \in Items, Call(h) PROVE OwnerInv'
  BY <1>12 DEF Call
<1>13. ASSUME NEW h \in Items, RunPosted(h) PROVE OwnerInv'
  BY <1>13 DEF RunPosted
<1>14. ASSUME NEW h \in Items, Throw(h) PROVE OwnerInv'
  BY <1>14 DEF Throw
<1>15. CASE UNCHANGED vars
  BY <1>15 DEF vars
<1>16. QED
  BY <1>1, <1>2, <1>3, <1>4, <1>5, <1>6, <1>7, <1>8, <1>9, <1>10, <1>11,
      <1>12, <1>13, <1>14, <1>15 DEF Next, Handler

-----------------------------------------------------------------------------
(* Every variable of the schedule keeps its type, whether or not counter_  *)
(* comes round.                                                            *)
THEOREM TypeCorrect == Spec => []TypeOK
<1>1. Init => TypeOK
  BY InitInv
<1>2. TypeOK /\ [Next]_vars => TypeOK'
  BY TypeStep
<1>3. QED
  BY <1>1, <1>2, PTL DEF Spec

(* Items stay on their own timers as long as add() finds no entry.         *)
LEMMA DueInduction == Spec /\ FreshEntry => []DueInv
<1>1. Init => DueInv
  BY InitInv
<1>2. TypeOK /\ DueInv /\ [Next]_vars /\ [AddsEntry]_vars => DueInv'
  <2> SUFFICES ASSUME TypeOK, DueInv, [Next]_vars, [AddsEntry]_vars PROVE DueInv'
    OBVIOUS
  <2>1. CASE AddsEntry
    BY <2>1, DueStep
  <2>2. CASE UNCHANGED vars
    BY <2>2 DEF DueInv, vars
  <2>3. QED
    BY <2>1, <2>2
<1>3. QED
  BY TypeCorrect, <1>1, <1>2, PTL DEF Spec, FreshEntry

(* A callback called without an error is called when its own duration is   *)
(* over, as long as add() never takes a value of counter_ that still has   *)
(* an entry, however often counter_ comes round.                           *)
THEOREM NoneBeforeDue == Spec /\ FreshEntry => []NotBeforeDue
<1>1. DueInv => NotBeforeDue
  BY DEF DueInv, NotBeforeDue, Committed
<1>2. QED
  BY <1>1, DueInduction, PTL

(* cancel() before the handler has found its entry is final, as long as    *)
(* add() never takes the value of an item whose handler is still to come.  *)
THEOREM EarlyCancelIsFinal == Spec /\ FreshId => []EarlyCancelHolds
<1>1. Init => EarlyInv
  BY InitInv
<1>2. TypeOK /\ EarlyInv /\ [Next]_vars /\ [AddsId]_vars => EarlyInv'
  <2> SUFFICES ASSUME TypeOK, EarlyInv, [Next]_vars, [AddsId]_vars PROVE EarlyInv'
    OBVIOUS
  <2>1. CASE AddsId
    BY <2>1, EarlyStep
  <2>2. CASE UNCHANGED vars
    BY <2>2 DEF EarlyInv, vars
  <2>3. QED
    BY <2>1, <2>2
<1>3. EarlyInv => EarlyCancelHolds
  BY DEF EarlyInv, EarlyCancelHolds, Committed
<1>4. QED
  BY TypeCorrect, <1>1, <1>2, <1>3, PTL DEF Spec, FreshId

(* A schedule of fewer items than counter_ has values (2^32) takes none    *)
(* that is in use, so that neither promise needs more.                     *)
THEOREM IdsAreFresh ==
  ASSUME MaxItems <= IdSpace
  PROVE  Spec => FreshEntry /\ FreshId
<1>1. Init => UsedInv
  BY InitInv
<1>2. TypeOK /\ UsedInv /\ [Next]_vars => UsedInv'
  BY UsedStep
<1>3. TypeOK /\ UsedInv => AddsEntry /\ AddsId
  <2> SUFFICES ASSUME TypeOK, UsedInv, Add PROVE AddsEntry /\ AddsId
    BY DEF AddsEntry, AddsId
  <2> DEFINE n == counter + 1
  <2>1. n \in Items /\ Id(n) \in Ids /\ counter \in 0..MaxItems
    BY AddFacts DEF TypeOK
  <2>2. \A g \in 1..counter : g \in Items /\ g # n /\ Id(g) # Id(n)
    <3>1. \A g \in 1..counter : g \in Items /\ g # n
      BY <2>1, ItemsAssumption DEF Items
    <3>2. QED
      BY <2>1, <3>1, NoReuseWhenWide DEF NoReuse
  <2>3. timers[Id(n)] = NoTimer
    <3> SUFFICES ASSUME timers[Id(n)] # NoTimer PROVE FALSE
      OBVIOUS
    <3>1. /\ timers[Id(n)] \in Items /\ timers[Id(n)] <= counter
          /\ Id(timers[Id(n)]) = Id(n)
      BY <2>1 DEF TypeOK, UsedInv
    <3>2. timers[Id(n)] \in 1..counter
      BY <2>1, <3>1, ItemsAssumption DEF Items
    <3>3. QED
      BY <2>2, <3>1, <3>2
  <2>4. QED
    BY <2>2, <2>3 DEF AddsEntry, AddsId
<1>4. QED
  BY TypeCorrect, <1>1, <1>2, <1>3, PTL DEF Spec, FreshEntry, FreshId

(* Only an entry missed in the race on timers_ is left behind, whether or  *)
(* not counter_ comes round.                                               *)
THEOREM NoEntryLeaks == Spec => []NoLeakedEntry
<1>1. Init => OwnerInv
  BY InitInv
<1>2. TypeOK /\ OwnerInv /\ [Next]_vars => OwnerInv'
  BY OwnerStep
<1>3. TypeOK /\ OwnerInv => NoLeakedEntry
  <2> SUFFICES ASSUME TypeOK, OwnerInv, phase = "alive", NEW i \in Ids, timers[i] # NoTimer
               PROVE  \E h \in Items :
                         /\ object[h] = timers[i] /\ Id(h) = i
                         /\ \/ wait[h] \in {"waiting", "ready", "looking", "found"}
                            \/ h \in torn
    BY DEF NoLeakedEntry
  <2>1. timers[i] \in Items
    BY DEF TypeOK
  <2>2. QED
    BY <2>1 DEF OwnerInv
<1>4. QED
  BY TypeCorrect, <1>1, <1>2, <1>3, PTL DEF Spec

-----------------------------------------------------------------------------
(* A callback is lost for a reason: an item that waits is in timers_, one  *)
(* whose handler is to come has its entry unless it was cancelled, and one *)
(* whose handler found nothing was cancelled, or missed in the race.       *)
NoneLost ==
    \A h \in Items :
        /\ wait[h] = "waiting" => timers[Id(h)] = h
        /\ wait[h] = "ready" => timers[Id(h)] = h \/ cancelled[h] # "no"
        /\ wait[h] = "dropped" => cancelled[h] # "no" \/ h \in torn

(* Every step keeps items from being lost: only their own cancel() and     *)
(* their own handler erase their entries.                                  *)
LEMMA LostStep ==
  ASSUME NoReuse, TypeOK, UsedInv, DueInv, NoneLost, [Next]_vars
  PROVE  NoneLost'
<1> USE ItemsAssumption, IdSpaceAssumption, IdType
        DEF TypeOK, NoneLost
<1>0. /\ \A h \in Items : timers[Id(h)] \in {NoTimer, h}
      /\ \A h \in Items : wait[h] # "none" => object[h] = h
      /\ \A g, h \in Items : Id(g) = Id(h) => g = h
      /\ \A h \in Items : h # NoTimer
  BY DEF UsedInv, DueInv, NoReuse, Items, NoTimer
<1>1. CASE Add
  <2> DEFINE n == counter + 1
             t == IF timers[Id(n)] = NoTimer THEN n ELSE timers[Id(n)]
  <2>1. /\ n \in Items /\ wait[n] = "none" /\ Id(n) \in Ids /\ n # NoTimer
        /\ timers' = [timers EXCEPT ![Id(n)] = t]
        /\ wait' = [wait EXCEPT ![n] = "waiting"]
        /\ cancelled' = cancelled /\ torn \subseteq torn'
    BY <1>1, AddFacts DEF Add, SetTimer
  <2>2. t = n /\ \A g \in Items : g # n => Id(g) # Id(n)
    BY <1>0, <2>1
  <2> HIDE DEF n, t
  <2>3. QED
    BY <2>1, <2>2
<1>2. CASE CancelAll
  BY <1>2 DEF CancelAll, AbortAll
<1>3. CASE Destroy
  BY <1>3 DEF Destroy, AbortAll
<1>4. CASE Stop
  BY <1>4 DEF Stop
<1>5. CASE Join
  BY <1>5 DEF Join
<1>6. ASSUME NEW h \in Items, CancelItem(h) PROVE NoneLost'
  BY <1>6, <1>0 DEF CancelItem, EndWaits, SetTimer
<1>7. ASSUME NEW h \in Items, Elapse(h) PROVE NoneLost'
  BY <1>7, <1>0 DEF Elapse
<1>8. ASSUME NEW h \in Items, Expire(h) PROVE NoneLost'
  BY <1>8, <1>0 DEF Expire, EndWaits
<1>9. ASSUME NEW h \in Items, Look(h) PROVE NoneLost'
  BY <1>9, <1>0 DEF Look
<1>10. ASSUME NEW h \in Items, Find(h) PROVE NoneLost'
  BY <1>10, <1>0 DEF Find
<1>11. ASSUME NEW h \in Items, Erase(h) PROVE NoneLost'
  BY <1>11, <1>0 DEF Erase, SetTimer
<1>12. ASSUME NEW h \in Items, Call(h) PROVE NoneLost'
  BY <1>12, <1>0 DEF Call
<1>13. ASSUME NEW h \in Items, RunPosted(h) PROVE NoneLost'
  BY <1>13, <1>0 DEF RunPosted
<1>14. ASSUME NEW h \in Items, Throw(h) PROVE NoneLost'
  BY <1>14, <1>0 DEF Throw
<1>15. CASE UNCHANGED vars
  BY <1>15 DEF vars
<1>16. QED
  BY <1>1, <1>2, <1>3, <1>4, <1>5, <1>6, <1>7, <1>8, <1>9, <1>10, <1>11,
      <1>12, <1>13, <1>14, <1>15 DEF Next, Handler

(* While counter_ does not come round, no callback is lost but to a        *)
(* cancel() of its own item, or to the race on timers_.  It is what        *)
(* EventuallyCalled takes for granted of the steps until the call.         *)
THEOREM NoCallbackLost ==
  ASSUME MaxItems <= IdSpace
  PROVE  Spec => []NoneLost
<1>1. NoReuse
  BY NoReuseWhenWide
<1>2. Init => UsedInv /\ NoneLost
  BY InitInv DEF Init, NoneLost
<1>3. TypeOK /\ UsedInv /\ [Next]_vars => UsedInv'
  BY UsedStep
<1>4. TypeOK /\ UsedInv /\ DueInv /\ NoneLost /\ [Next]_vars => NoneLost'
  BY <1>1, LostStep
<1>5. Spec => []DueInv
  BY IdsAreFresh, DueInduction
<1>6. QED
  BY TypeCorrect, <1>2, <1>3, <1>4, <1>5, PTL DEF Spec
=============================================================================
