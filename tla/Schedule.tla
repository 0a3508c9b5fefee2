------------------------------ MODULE Schedule ------------------------------
(***************************************************************************)
(* utility::schedule: callbacks called after a duration, by a pool of      *)
(* threads, with a way to cancel each of them (schedule.hpp).              *)
(*                                                                         *)
(* The h-th call of add() is item h.  It waits on a timer of timers_,      *)
(* which is named by the item that created it: counter_ has IdSpace values *)
(* (2^32 in the code), and try_emplace finds the old timer when a value    *)
(* comes round again.  A completed wait runs a handler on a thread of the  *)
(* pool, in steps that other threads may come between: it looks for its    *)
(* entry without the mutex, cancels and erases the entry with it, and      *)
(* calls the callback, or posts it to the io_service it was added with.    *)
(* What takes the mutex is one step.  A callback may throw: its thread     *)
(* calls run() a second time, and ends the program when one throws then.   *)
(*                                                                         *)
(* The look is a data race when another thread changes timers_ meanwhile.  *)
(* Of what the program may then do, the model has the outcome that goes on *)
(* running: an entry that is in the table is missed.                       *)
(***************************************************************************)
EXTENDS Integers, FiniteSets

CONSTANTS
    MaxItems,  \* bound: calls of add()
    IdSpace,   \* number of values of counter_
    Posting,   \* the items added with an io_service of their own
    Threads    \* threads of the pool

Items == 1..MaxItems
Ids == 0..(IdSpace - 1)
Pool == 1..Threads
NoTimer == 0
NoWorker == 0

ASSUME ItemsAssumption == MaxItems \in Nat /\ Posting \subseteq Items
ASSUME IdSpaceAssumption == IdSpace \in Nat \ {0}
ASSUME ThreadsAssumption == Threads \in Nat \ {0}

VARIABLES
    counter,    \* counter_, not wrapped: the number of calls of add() so far
    timers,     \* timers_: the timer an id has, or NoTimer
    object,     \* the timer each item waits on
    wait,       \* control state of each item's wait and handler
    aborted,    \* the items whose wait ended with an error
    torn,       \* the items whose look a change of timers_ disturbs, or has failed
    due,        \* the items whose duration has elapsed
    cancelled,  \* what a cancel() that found the item's entry came in time for
    worker,     \* the thread each item's handler runs on, or has thrown on
    thrown,     \* the items whose callback has thrown on a thread of the pool
    phase       \* progress of the destructor, or "terminated"

pool == <<worker, thrown>>
vars == <<counter, timers, object, wait, aborted, torn, due, cancelled, pool, phase>>

(* Every variable has its type, and items are taken in order.              *)
TypeOK ==
    /\ counter \in 0..MaxItems
    /\ timers \in [Ids -> Items \cup {NoTimer}]
    /\ object \in [Items -> Items \cup {NoTimer}]
    /\ wait \in [Items -> {"none", "waiting", "ready", "looking", "found",
                           "cleared", "posted", "called", "dropped"}]
    /\ aborted \subseteq Items
    /\ torn \subseteq Items
    /\ due \subseteq Items
    /\ cancelled \in [Items -> {"no", "early", "late"}]
    /\ worker \in [Items -> Pool \cup {NoWorker}]
    /\ thrown \subseteq Items
    /\ phase \in {"alive", "closing", "stopped", "gone", "terminated"}
    /\ \A h \in Items : wait[h] = "none" <=> h > counter

Init ==
    /\ counter = 0
    /\ timers = [i \in Ids |-> NoTimer]
    /\ object = [h \in Items |-> NoTimer]
    /\ wait = [h \in Items |-> "none"]
    /\ aborted = {}
    /\ torn = {}
    /\ due = {}
    /\ cancelled = [h \in Items |-> "no"]
    /\ worker = [h \in Items |-> NoWorker]
    /\ thrown = {}
    /\ phase = "alive"

-----------------------------------------------------------------------------
IdStuck(h) == 0    \* mutant: every item has the same id
Id(h) == (h - 1) % IdSpace

Running == {h \in Items : wait[h] \in {"looking", "found", "cleared"}}
Free(w) == \A h \in Running : worker[h] # w

(* The threads that are in their second run().                             *)
Caught == {worker[h] : h \in thrown}
Terminated == phase = "terminated"

(* Its users may use it until the destructor begins; a callback on the pool *)
(* may until it returns, for the destructor has to join its thread.        *)
Usable ==
    \/ phase = "alive"
    \/ /\ phase \in {"closing", "stopped"}
       /\ \E h \in Items \ Posting : wait[h] = "cleared"

(* A change of timers_, by whoever holds the mutex.                        *)
SetTimer(i, t) ==
    /\ timers' = [timers EXCEPT ![i] = t]
    /\ torn' = torn \cup {h \in Items : wait[h] = "looking"}

(* The waits on timer t end: with an error, or because it expired.         *)
EndWaits(t, failed) ==
    LET woken == {h \in Items : wait[h] = "waiting" /\ object[h] = t} IN
    /\ wait' = [h \in Items |-> IF h \in woken THEN "ready" ELSE wait[h]]
    /\ aborted' = IF failed THEN aborted \cup woken ELSE aborted

AddUncounted ==    \* mutant: counter_ is not advanced
    LET h == counter + 1
        t == IF timers[Id(h)] = NoTimer THEN h ELSE timers[Id(h)]
    IN  /\ Usable
        /\ counter < MaxItems
        /\ SetTimer(Id(h), t)
        /\ object' = [object EXCEPT ![h] = t]
        /\ wait' = [wait EXCEPT ![h] = "waiting"]
        /\ UNCHANGED <<counter, aborted, due, cancelled, pool, phase>>
(* add(): a new timer, or the one its id still has.                        *)
Add ==
    LET h == counter + 1
        t == IF timers[Id(h)] = NoTimer THEN h ELSE timers[Id(h)]
    IN  /\ Usable
        /\ counter < MaxItems
        /\ counter' = h
        /\ SetTimer(Id(h), t)
        /\ object' = [object EXCEPT ![h] = t]
        /\ wait' = [wait EXCEPT ![h] = "waiting"]
        /\ UNCHANGED <<aborted, due, cancelled, pool, phase>>

(* cancel(item) by a user, when the entry is there; else it does nothing.*)
CancelItem(h) ==
    /\ Usable
    /\ h <= counter
    /\ timers[Id(h)] # NoTimer
    /\ EndWaits(timers[Id(h)], TRUE)
    /\ SetTimer(Id(h), NoTimer)
    /\ cancelled' = [cancelled EXCEPT ![h] =
                        IF wait[h] \in {"waiting", "ready"} THEN "early" ELSE "late"]
    /\ UNCHANGED <<counter, object, due, pool, phase>>

(* The waits on every timer end; the entries stay.                         *)
AbortAll ==
    LET woken == {h \in Items : wait[h] = "waiting"} IN
    /\ wait' = [h \in Items |-> IF h \in woken THEN "ready" ELSE wait[h]]
    /\ aborted' = aborted \cup woken

CancelAll ==
    /\ Usable
    /\ AbortAll
    /\ UNCHANGED <<counter, timers, object, torn, due, cancelled, pool, phase>>

-----------------------------------------------------------------------------
(* Time passes, and a timer whose time has come ends its waits.            *)
(* What matters of it: the durations somebody still waits for.             *)
Elapse(h) ==
    /\ h \notin due /\ ~Terminated
    /\ \E g \in Items : wait[g] = "waiting" /\ h \in {g, object[g]}
    /\ due' = due \cup {h}
    /\ UNCHANGED <<counter, timers, object, wait, aborted, torn, cancelled, pool, phase>>

Expire(t) ==
    /\ t \in due /\ ~Terminated
    /\ \E i \in Ids : timers[i] = t
    /\ \E h \in Items : wait[h] = "waiting" /\ object[h] = t
    /\ EndWaits(t, FALSE)
    /\ UNCHANGED <<counter, timers, object, torn, due, cancelled, pool, phase>>

-----------------------------------------------------------------------------
(* The handler add() gives to async_wait.                                  *)

LookNot(h) ==    \* mutant: the handler does not look for its entry
    /\ wait[h] = "ready" /\ phase \in {"alive", "closing"}
    /\ \E w \in Pool : Free(w) /\ worker' = [worker EXCEPT ![h] = w]
    /\ wait' = [wait EXCEPT ![h] = "looking"]
    /\ UNCHANGED <<counter, timers, object, aborted, torn, due, cancelled, thrown, phase>>
(* timers_.find(counter) begins; an entry erased before is not found.      *)
Look(h) ==
    LET next == IF timers[Id(h)] = NoTimer THEN "dropped" ELSE "looking"
    IN  /\ wait[h] = "ready" /\ phase \in {"alive", "closing"}
        /\ \E w \in Pool :
              /\ Free(w)
              /\ worker' = [worker EXCEPT ![h] = IF next = "looking" THEN w ELSE NoWorker]
        /\ wait' = [wait EXCEPT ![h] = next]
        /\ UNCHANGED <<counter, timers, object, aborted, torn, due, cancelled, thrown, phase>>

(* It ends: with the entry, or without it if the table has changed.        *)
Find(h) ==
    /\ wait[h] = "looking" /\ ~Terminated
    /\ \/ /\ wait' = [wait EXCEPT ![h] = "found"]
          /\ torn' = torn \ {h}
          /\ UNCHANGED worker
       \/ /\ h \in torn
          /\ wait' = [wait EXCEPT ![h] = "dropped"]
          /\ worker' = [worker EXCEPT ![h] = NoWorker]
          /\ UNCHANGED torn
    /\ UNCHANGED <<counter, timers, object, aborted, due, cancelled, thrown, phase>>

EraseNothing(h) ==    \* mutant: the handler does not cancel its own item
    /\ wait[h] = "found" /\ ~Terminated
    /\ wait' = [wait EXCEPT ![h] = "cleared"]
    /\ UNCHANGED <<counter, timers, object, aborted, torn, due, cancelled, pool, phase>>
EraseWaits(h) ==    \* mutant: the destructor keeps timers_mutex_ until it has joined
    /\ phase \notin {"closing", "stopped"}
    /\ LET t == timers[Id(h)]
           woken == {g \in Items : wait[g] = "waiting" /\ object[g] = t}
       IN  /\ wait[h] = "found" /\ ~Terminated
           /\ wait' = [g \in Items |-> IF g = h THEN "cleared"
                                       ELSE IF g \in woken THEN "ready" ELSE wait[g]]
           /\ aborted' = aborted \cup woken
           /\ SetTimer(Id(h), NoTimer)
           /\ UNCHANGED <<counter, object, due, cancelled, pool, phase>>
(* cancel(scheduled_item{counter}): other waits on the timer end as well.  *)
Erase(h) ==
    LET t == timers[Id(h)]
        woken == {g \in Items : wait[g] = "waiting" /\ object[g] = t}
    IN  /\ wait[h] = "found" /\ ~Terminated
        /\ wait' = [g \in Items |-> IF g = h THEN "cleared"
                                    ELSE IF g \in woken THEN "ready" ELSE wait[g]]
        /\ aborted' = aborted \cup woken
        /\ SetTimer(Id(h), NoTimer)
        /\ UNCHANGED <<counter, object, due, cancelled, pool, phase>>

(* The callback is called, or posted, and the handler is done.             *)
Call(h) ==
    /\ wait[h] = "cleared" /\ ~Terminated
    /\ wait' = [wait EXCEPT ![h] = IF h \in Posting THEN "posted" ELSE "called"]
    /\ worker' = [worker EXCEPT ![h] = NoWorker]
    /\ UNCHANGED <<counter, timers, object, aborted, torn, due, cancelled, thrown, phase>>

ThrowEndsProgram(h) ==    \* mutant: no thread calls run() a second time
    /\ wait[h] = "cleared" /\ h \notin Posting /\ ~Terminated
    /\ wait' = [wait EXCEPT ![h] = "called"]
    /\ thrown' = thrown \cup {h}
    /\ phase' = "terminated"
    /\ UNCHANGED <<counter, timers, object, aborted, torn, due, cancelled, worker>>
(* The callback is called and throws a std::exception: out of run(), which *)
(* the thread calls again, or out of that second run() and the thread.     *)
Throw(h) ==
    /\ wait[h] = "cleared" /\ h \notin Posting /\ ~Terminated
    /\ wait' = [wait EXCEPT ![h] = "called"]
    /\ thrown' = thrown \cup {h}
    /\ phase' = IF worker[h] \in Caught THEN "terminated" ELSE phase
    /\ UNCHANGED <<counter, timers, object, aborted, torn, due, cancelled, worker>>

(* The io_service the item was added with runs what was posted to it.      *)
RunPosted(h) ==
    /\ wait[h] = "posted" /\ ~Terminated
    /\ wait' = [wait EXCEPT ![h] = "called"]
    /\ UNCHANGED <<counter, timers, object, aborted, torn, due, cancelled, pool, phase>>

-----------------------------------------------------------------------------
(* The destructor: cancel_all(), stop(), join.  Until stop() the pool may  *)
(* still take up what cancel_all() has made ready.                         *)

Destroy ==
    /\ phase = "alive"
    /\ phase' = "closing"
    /\ AbortAll
    /\ UNCHANGED <<counter, timers, object, torn, due, cancelled, pool>>

Stop ==
    /\ phase = "closing"
    /\ phase' = "stopped"
    /\ UNCHANGED <<counter, timers, object, wait, aborted, torn, due, cancelled, pool>>

Join ==
    /\ phase = "stopped" /\ Running = {}
    /\ phase' = "gone"
    /\ UNCHANGED <<counter, timers, object, wait, aborted, torn, due, cancelled, pool>>

-----------------------------------------------------------------------------
Handler(h) == Look(h) \/ Find(h) \/ Erase(h) \/ Call(h) \/ Throw(h)

Next ==
    \/ Add \/ CancelAll \/ Destroy \/ Stop \/ Join
    \/ \E h \in Items : \/ CancelItem(h) \/ Elapse(h) \/ Expire(h)
                        \/ Handler(h) \/ RunPosted(h)

Spec == Init /\ [][Next]_vars

(* Expired timers complete, and the pool and the other io_services run     *)
(* what is ready; a callback returns.  A destructor that has begun goes on. *)
(* Nobody has to call add, cancel or the destructor.                       *)
Fairness ==
    /\ WF_vars(Stop) /\ WF_vars(Join)
    /\ \A h \in Items : WF_vars(Expire(h)) /\ WF_vars(Handler(h)) /\ WF_vars(RunPosted(h))

FairSpec == Spec /\ Fairness

-----------------------------------------------------------------------------
(***************************************************************************)
(* Properties                                                              *)
(***************************************************************************)

Committed == {"cleared", "posted", "called"}

(* A callback that is called without an error is called after its own      *)
(* duration, never on the timer of another item: ids are not reused while  *)
(* an entry has them.                                                      *)
NotBeforeDue ==
    \A h \in Items : wait[h] \in Committed /\ h \notin aborted => h \in due

(* cancel() in time is final: if the item's handler had not found its      *)
(* entry yet, the callback is never called, not even with an error, though *)
(* the aborted wait completes and its handler runs.                        *)
EarlyCancelHolds ==
    \A h \in Items : cancelled[h] = "early" => wait[h] \notin {"looking", "found"} \cup Committed

(* timers_ keeps no entry nobody will erase: while the schedule lives each *)
(* entry has a wait or a handler still to come, or was missed in a race.   *)
NoLeakedEntry ==
    phase = "alive" =>
        \A i \in Ids : timers[i] # NoTimer =>
            \E h \in Items :
                /\ object[h] = timers[i] /\ Id(h) = i
                /\ wait[h] \in {"waiting", "ready", "looking", "found"} \/ h \in torn

(* The destructor returns, although cancel_all() makes callbacks ready that *)
(* run while it goes on, take timers_mutex_ themselves, and may add and     *)
(* cancel items of their own.  A callback that throws out of its thread's  *)
(* second run() ends the program first.                                    *)
DestructorReturns == phase = "closing" ~> phase \in {"gone", "terminated"}

(* What schedule.hpp says of add(): a callback is called after its         *)
(* duration, unless it was cancelled or the schedule destroyed.  Nothing   *)
(* else can lose a callback but the race on timers_ and a thread on which  *)
(* two other callbacks threw: one that throws costs no callback but itself.*)
EventuallyCalled ==
    \A h \in Items :
        (h \in due /\ phase = "alive") ~>
            \/ wait[h] = "called"
            \/ cancelled[h] # "no" \/ h \in torn
            \/ phase \in {"closing", "stopped", "gone"}
            \/ \E f, g \in thrown : f # g /\ worker[f] = worker[g]

(* What schedule.hpp says of the scheduled_item add() returns: it allows   *)
(* you to stop the callback.  It does not hold: a handler that has found   *)
(* its entry calls the callback although cancel() erased the entry and     *)
(* returned.                                                               *)
CancelHolds == \A h \in Items : cancelled[h] # "no" => wait[h] # "called"
=============================================================================
