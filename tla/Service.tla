------------------------------ MODULE Service ------------------------------
(***************************************************************************)
(* service.hpp and service_base.cpp: one service, its io_context and the   *)
(* pool of threads that run it, from start() to the destructor.            *)
(*                                                                         *)
(* start() and restart() spawn one coroutine, do_listen of a server or the *)
(* connect of a client, and then add thread_count_ threads to the pool.    *)
(* The io_context stops when it is told to, or when it runs out of work;   *)
(* its threads then leave run() one after the other, and nothing runs on   *)
(* it until restart() clears the stop.  One thread of the application, or  *)
(* of the schedule, calls the functions of the service; the io threads     *)
(* interleave with each step of them.                                      *)
(*                                                                         *)
(* An exception in a coroutine is caught in it or dropped by `detached`.   *)
(* acceptor_ is never opened: the acceptor in use belongs to do_listen.    *)
(***************************************************************************)
EXTENDS Integers, FiniteSets

CONSTANTS
    ThreadCount,  \* thread_count_
    MaxStarts,    \* bound: calls of start() and restart()
    MaxLinks      \* bound: connections at one time

ASSUME ThreadCountAssumption == ThreadCount \in Nat \ {0}
ASSUME BoundsAssumption == MaxStarts \in Nat /\ MaxLinks \in Nat

VARIABLES
    mode,     \* mode_
    running,  \* running_
    stopped,  \* io_context_.stopped()
    starts,   \* number of calls of start() and restart() so far
    tasks,    \* the coroutine that each of them has spawned
    links,    \* number of connections that keep the io_context busy
    threads,  \* number of threads of the pool inside run()
    stopping, \* those of them that have found no work and will call stop()
    control,  \* progress of the function being called
    failed,   \* whether do_listen ever ended by an exception of its own
    overtaken \* whether such a stop() ever came too late, after a restart()

vars == <<mode, running, stopped, starts, tasks, links, threads, stopping, control,
          failed, overtaken>>

rest == <<stopping, overtaken>>

(* Every variable has its type; each start adds thread_count_ threads.     *)
TypeOK ==
    /\ mode \in {"Server", "Client"}
    /\ running \in BOOLEAN /\ stopped \in BOOLEAN
    /\ failed \in BOOLEAN /\ overtaken \in BOOLEAN
    /\ starts \in 0..MaxStarts
    /\ tasks \in [1..MaxStarts -> {"none", "queued", "loop", "waiting", "leaving", "ended"}]
    /\ links \in 0..MaxLinks
    /\ control \in {"idle", "posted", "spawn", "stop", "destroy", "join", "gone"}
    /\ threads \in 0..(ThreadCount * starts)
    /\ stopping \in 0..threads

Init ==
    /\ mode \in {"Server", "Client"}
    /\ running = FALSE /\ stopped = FALSE /\ failed = FALSE /\ overtaken = FALSE
    /\ starts = 0
    /\ tasks = [k \in 1..MaxStarts |-> "none"]
    /\ links = 0
    /\ threads = 0 /\ stopping = 0
    /\ control = "idle"

-----------------------------------------------------------------------------
In(states) == {k \in 1..MaxStarts : tasks[k] \in states}

(* Work the io_context knows of: coroutines, and those of connections.     *)
OutOfWork == In({"queued", "loop", "waiting", "leaving"}) = {} /\ links = 0

(* A thread of the pool between two handlers, which can take up the next.  *)
Between == Cardinality(In({"loop", "leaving"})) + stopping < threads
ThreadFree == ~stopped /\ Between

Step(k, from, to) == tasks[k] = from /\ tasks' = [tasks EXCEPT ![k] = to]

-----------------------------------------------------------------------------
(* start() and restart(): the coroutine is spawned; listen() sets running_.*)
Start ==
    /\ control = "idle" /\ starts < MaxStarts
    /\ control' = "posted"
    /\ starts' = starts + 1
    /\ tasks' = [tasks EXCEPT ![starts + 1] = "queued"]
    /\ running' = (running \/ mode = "Server")
    /\ UNCHANGED <<mode, stopped, links, threads, failed, rest>>

(* run_thread_pool, first half: the io_context may have stopped, or a      *)
(* thread may be about to stop it, which restart() does not undo.          *)
KeepStopped ==    \* mutant: a stopped io_context is not restarted
    /\ control = "posted"
    /\ control' = "spawn"
    /\ running' = TRUE
    /\ UNCHANGED <<mode, stopped, starts, tasks, links, threads, failed, rest>>
RestartContext ==
    /\ control = "posted"
    /\ control' = "spawn"
    /\ running' = TRUE
    /\ stopped' = FALSE
    /\ overtaken' = (overtaken \/ stopping > 0)
    /\ UNCHANGED <<mode, starts, tasks, links, threads, failed, stopping>>

(* Second half: more threads, whatever the pool has already.               *)
SpawnOneMore ==    \* mutant: i <= thread_count_
    /\ control = "spawn"
    /\ control' = "idle"
    /\ threads' = threads + ThreadCount + 1
    /\ UNCHANGED <<mode, running, stopped, starts, tasks, links, failed, rest>>
SpawnOnce ==    \* mutant: the pool is filled by the first start only
    /\ control = "spawn"
    /\ control' = "idle"
    /\ threads' = IF starts = 1 THEN ThreadCount ELSE threads
    /\ UNCHANGED <<mode, running, stopped, starts, tasks, links, failed, rest>>
SpawnThreads ==
    /\ control = "spawn"
    /\ control' = "idle"
    /\ threads' = threads + ThreadCount
    /\ UNCHANGED <<mode, running, stopped, starts, tasks, links, failed, rest>>

(* stop(), by its user or by the destructor.                               *)
Stop ==
    /\ control = "idle"
    /\ control' \in {"stop", "destroy"}
    /\ running' = FALSE
    /\ UNCHANGED <<mode, stopped, starts, tasks, links, threads, failed, rest>>

StopAcceptorOnly ==    \* mutant: the io_context is left running
    /\ control \in {"stop", "destroy"}
    /\ control' = IF control = "stop" THEN "idle" ELSE "join"
    /\ UNCHANGED <<mode, running, stopped, starts, tasks, links, threads, failed, rest>>
StopContext ==
    /\ control \in {"stop", "destroy"}
    /\ control' = IF control = "stop" THEN "idle" ELSE "join"
    /\ stopped' = TRUE
    /\ UNCHANGED <<mode, running, starts, tasks, links, threads, failed, rest>>

Join ==
    /\ control = "join" /\ threads = 0
    /\ control' = "gone"
    /\ UNCHANGED <<mode, running, stopped, starts, tasks, links, threads, failed, rest>>

-----------------------------------------------------------------------------
(* io_context::run                                                         *)

(* A thread that finds no work left calls stop(), in a step of its own.    *)
FindsNoWork ==
    /\ OutOfWork /\ ~stopped /\ stopping < threads
    /\ stopping' = stopping + 1
    /\ UNCHANGED <<mode, running, stopped, starts, tasks, links, threads, control,
                   failed, overtaken>>

ContextRunsOut ==
    /\ stopping > 0
    /\ stopping' = stopping - 1
    /\ stopped' = TRUE
    /\ UNCHANGED <<mode, running, starts, tasks, links, threads, control, failed, overtaken>>

(* A thread between two handlers sees the stop and returns.                *)
ThreadEnds ==
    /\ stopped /\ Between
    /\ threads' = threads - 1
    /\ UNCHANGED <<mode, running, stopped, starts, tasks, links, control, failed, rest>>

-----------------------------------------------------------------------------
(* do_listen                                                               *)

(* The acceptor binds the endpoint, which one acceptor at a time can hold. *)
ListenBegin(k) ==
    /\ mode = "Server" /\ ThreadFree
    /\ \/ /\ In({"loop", "waiting", "leaving"}) = {}
          /\ Step(k, "queued", "loop")
          /\ UNCHANGED failed
       \/ Step(k, "queued", "ended") /\ failed' = TRUE
    /\ UNCHANGED <<mode, running, stopped, starts, links, threads, control, rest>>

(* while (self->running())                                                 *)
ListenLoop(k) ==
    /\ Step(k, "loop", IF running THEN "waiting" ELSE "leaving")
    /\ UNCHANGED <<mode, running, stopped, starts, links, threads, control, failed, rest>>

(* A client is accepted and its connection kept, or refused.               *)
AcceptOnce(k) ==    \* mutant: one client is accepted
    /\ mode = "Server" /\ ThreadFree
    /\ Step(k, "waiting", "leaving")
    /\ links' \in {links, links + 1} /\ links' <= MaxLinks
    /\ UNCHANGED <<mode, running, stopped, starts, threads, control, failed, rest>>
Accept(k) ==
    /\ mode = "Server" /\ ThreadFree
    /\ Step(k, "waiting", "loop")
    /\ links' \in {links, links + 1} /\ links' <= MaxLinks
    /\ UNCHANGED <<mode, running, stopped, starts, threads, control, failed, rest>>

(* async_accept or handle_new_connection throws.                           *)
AcceptFails(k) ==
    /\ mode = "Server" /\ ThreadFree
    /\ Step(k, "waiting", "leaving")
    /\ failed' = TRUE
    /\ UNCHANGED <<mode, running, stopped, starts, links, threads, control, rest>>

(* The coroutine ends, and closes its acceptor.                            *)
ListenEnds(k) ==
    /\ Step(k, "leaving", "ended")
    /\ UNCHANGED <<mode, running, stopped, starts, links, threads, control, failed, rest>>

-----------------------------------------------------------------------------
(* The coroutine of connect()                                              *)

ConnectBegin(k) ==
    /\ mode = "Client" /\ ThreadFree
    /\ Step(k, "queued", "waiting")
    /\ UNCHANGED <<mode, running, stopped, starts, links, threads, control, failed, rest>>

(* It succeeds and its connection is kept, or it fails or is refused.      *)
ConnectEnds(k) ==
    /\ mode = "Client" /\ ThreadFree
    /\ Step(k, "waiting", "ended")
    /\ links' \in {links, links + 1} /\ links' <= MaxLinks
    /\ UNCHANGED <<mode, running, stopped, starts, threads, control, failed, rest>>

(* The last coroutine of a connection ends; one that sleeps may never do.  *)
LinkEnds ==
    /\ links > 0 /\ ThreadFree
    /\ links' = links - 1
    /\ UNCHANGED <<mode, running, stopped, starts, tasks, threads, control, failed, rest>>

-----------------------------------------------------------------------------
Control == Start \/ RestartContext \/ SpawnThreads \/ Stop \/ StopContext \/ Join

Task(k) == \/ ListenBegin(k) \/ ListenLoop(k) \/ Accept(k) \/ AcceptFails(k)
           \/ ListenEnds(k) \/ ConnectBegin(k) \/ ConnectEnds(k)

Next == Control \/ FindsNoWork \/ ContextRunsOut \/ ThreadEnds \/ LinkEnds
        \/ \E k \in 1..MaxStarts : Task(k)

Spec == Init /\ [][Next]_vars

(* A function called goes on to its end, and the threads of the pool run   *)
(* what is ready, first come, first served: a coroutine that waits to      *)
(* begin is not overtaken for ever (SF).  Nobody has to connect or to stop.*)
Fairness ==
    /\ WF_vars(RestartContext \/ SpawnThreads)
    /\ WF_vars(StopContext)
    /\ WF_vars(Join)
    /\ WF_vars(FindsNoWork)
    /\ WF_vars(ContextRunsOut)
    /\ WF_vars(ThreadEnds)
    /\ \A k \in 1..MaxStarts :
        /\ SF_vars(ListenBegin(k) \/ ConnectBegin(k))
        /\ WF_vars(ListenLoop(k) \/ ListenEnds(k))

FairSpec == Spec /\ Fairness

-----------------------------------------------------------------------------
(***************************************************************************)
(* Properties                                                              *)
(***************************************************************************)

(* While a started service has work, its io_context is not stopped and a   *)
(* thread runs it, although it stops by itself whenever a client has lost  *)
(* its connection, its threads leave at their own pace, and restart() may  *)
(* come at any moment of this, but for one: between the last work's end    *)
(* and the stop, where stopped() is still false (boost asks that restart() *)
(* be called when no run() is unfinished).                                 *)
WorkHasThread ==
    control = "idle" /\ running /\ ~overtaken /\ ~OutOfWork => ~stopped /\ threads > 0

(* What restart() spawns is run, unless stop() comes first, or the late    *)
(* stop above: what the locator relies on when it has lost a service.      *)
StartTakesEffect ==
    \A k \in 1..MaxStarts :
        tasks[k] = "queued" ~> (tasks[k] # "queued" \/ ~running \/ overtaken)

(* A destroyed service is gone in the end: stop() wakes every thread, and  *)
(* none is held by connections that are still open.                        *)
DestructorEnds == (control = "destroy") ~> (control = "gone")

(* A started server listens, however often it was stopped and started      *)
(* again, unless an exception nobody hears of has ended do_listen.         *)
ServerListens ==
    mode = "Server" /\ running /\ control = "idle" /\ ~failed =>
        In({"queued", "loop", "waiting"}) # {}
=============================================================================
