--------------------------- MODULE ServiceLocator ---------------------------
(***************************************************************************)
(* service_locator.cpp: services found by type, messages to them, answers  *)
(* routed back to the callbacks registered for them, and the connection to *)
(* a lost service made anew by the schedule.  It runs on the threads of    *)
(* the application, of each service's io_context and of the schedule; one  *)
(* call of one of its functions is one step.                               *)
(*                                                                         *)
(* A connection is what Connection shows it to be: it reports at most one  *)
(* Down, may be lost without a report, and when it stops may stay behind   *)
(* "asleep": alive for connection_.lock(), until the next send() frees it. *)
(* Answers come in order; what one read takes of them is up to the network.*)
(***************************************************************************)
EXTENDS Integers, Sequences, FiniteSets

CONSTANTS
    Types,           \* the service types
    MaxConnections,  \* bound: connects to one service
    MaxRequests,     \* bound: calls of send_registered
    MaxUpdates,      \* bound: calls of send_to
    AnswersUpdates   \* whether servers also answer what send_to sends

Attempts == 1..MaxConnections
Requests == 0..(MaxRequests - 1)

ASSUME BoundsAssumption == MaxConnections \in Nat /\ MaxRequests \in Nat /\ MaxUpdates \in Nat
ASSUME AnswersUpdatesAssumption == AnswersUpdates \in BOOLEAN

(* What goes over the wire, and comes back in an answer: its sender.       *)
Request(r) == [command |-> "Request", sender |-> r]
Update == [command |-> "Update", sender |-> 0]
Messages == {Request(r) : r \in Requests} \cup {Update}

VARIABLES
    services,   \* the types services_ has
    attempts,   \* how often each service has been told to connect
    conn,       \* conn[t][n]: state of the n-th connection to t
    current,    \* connection_: the last connection made, 0 for none
    restarts,   \* restarts of each service that schedule_ holds
    located,    \* the types located_callbacks_ has
    announced,  \* located callbacks posted and not run yet
    counter,    \* registered_callback_counter_
    callbacks,  \* registered_callbacks_
    posted,     \* answers posted to the callers' io_service: <<callback, answer>>
    called,     \* calls of registered callbacks so far, in order
    updates,    \* number of calls of send_to
    server,     \* what the server of each type has received and not answered
    answers,    \* the answers on their way back
    sent        \* everything handed to a live connection

linkVars == <<attempts, conn, current, restarts>>
locateVars == <<services, located, announced>>
callVars == <<callbacks, posted, called>>
wireVars == <<server, answers, sent>>
vars == <<linkVars, locateVars, counter, updates, callVars, wireVars>>

(* Every variable has its type.                                            *)
TypeOK ==
    /\ services \subseteq Types /\ located \subseteq Types /\ announced \subseteq Types
    /\ attempts \in [Types -> 0..MaxConnections]
    /\ conn \in [Types -> [Attempts ->
                    {"none", "connecting", "failed", "up", "asleep", "gone"}]]
    /\ current \in [Types -> 0..MaxConnections]
    /\ restarts \in [Types -> Nat]
    /\ counter \in 0..MaxRequests /\ updates \in 0..MaxUpdates
    /\ callbacks \subseteq Requests
    /\ posted \subseteq Requests \X Messages
    /\ called \in Seq(Requests \X Messages)
    /\ server \in [Types -> SUBSET Messages]
    /\ answers \in [Types -> Seq(Messages)]
    /\ sent \subseteq Messages

Init ==
    /\ services = {} /\ located = {} /\ announced = {}
    /\ attempts = [t \in Types |-> 0]
    /\ conn = [t \in Types |-> [n \in Attempts |-> "none"]]
    /\ current = [t \in Types |-> 0]
    /\ restarts = [t \in Types |-> 0]
    /\ counter = 0 /\ updates = 0
    /\ callbacks = {} /\ posted = {} /\ called = << >>
    /\ server = [t \in Types |-> {}]
    /\ answers = [t \in Types |-> << >>]
    /\ sent = {}

-----------------------------------------------------------------------------
IsUp(t) == current[t] # 0 /\ conn[t][current[t]] = "up"

(* service::start and service::restart, for a client: one more connect.    *)
Connect(t) ==
    /\ attempts[t] < MaxConnections
    /\ attempts' = [attempts EXCEPT ![t] = @ + 1]
    /\ conn' = [conn EXCEPT ![t][attempts[t] + 1] = "connecting"]

(* send_to_: what finds no connection is dropped, and so is what finds one *)
(* that has stopped; that one ends with it.                                *)
SendTo_(t, message) ==
    IF IsUp(t)
    THEN /\ server' = [server EXCEPT ![t] = @ \cup {message}]
         /\ sent' = sent \cup {message}
         /\ UNCHANGED <<linkVars, answers>>
    ELSE /\ conn' = IF current[t] # 0 /\ conn[t][current[t]] = "asleep"
                    THEN [conn EXCEPT ![t][current[t]] = "gone"] ELSE conn
         /\ UNCHANGED <<attempts, current, restarts, wireVars>>

-----------------------------------------------------------------------------
(* The application                                                         *)

LocateAlways(t) ==    \* mutant: a service already there is started again
    /\ services' = services \cup {t}
    /\ Connect(t)
    /\ located' \in {located, located \cup {t}}
    /\ UNCHANGED <<current, restarts, announced, counter, updates, callVars, wireVars>>
Locate(t) ==
    /\ t \notin services
    /\ services' = services \cup {t}
    /\ Connect(t)
    /\ located' \in {located, located \cup {t}}
    /\ UNCHANGED <<current, restarts, announced, counter, updates, callVars, wireVars>>

(* resolve() throws, and with it start(): the service stays in services_,  *)
(* so no later locate() starts it.                                         *)
LocateThrows(t) ==
    /\ t \notin services
    /\ services' = services \cup {t}
    /\ located' \in {located, located \cup {t}}
    /\ UNCHANGED <<linkVars, announced, counter, updates, callVars, wireVars>>

RemoveLocatedCallback(t) ==
    /\ t \in located
    /\ located' = located \ {t}
    /\ UNCHANGED <<linkVars, services, announced, counter, updates, callVars, wireVars>>

SendTo(t) ==
    /\ updates < MaxUpdates
    /\ updates' = updates + 1
    /\ SendTo_(t, Update)
    /\ UNCHANGED <<locateVars, counter, callVars>>

SendRegistered(t) ==
    /\ counter < MaxRequests
    /\ counter' = counter + 1
    /\ callbacks' = callbacks \cup {counter}
    /\ SendTo_(t, Request(counter))
    /\ UNCHANGED <<locateVars, updates, posted, called>>

-----------------------------------------------------------------------------
(* The io_context of each service                                          *)

(* make_handler, then on_link(Up): the located callback, if any, is posted.*)
ConnectQuietly(t) ==    \* mutant: a connection made again is not announced
    \E n \in Attempts :
        /\ conn[t][n] = "connecting"
        /\ conn' = [conn EXCEPT ![t][n] = "up"]
        /\ current' = [current EXCEPT ![t] = n]
        /\ announced' = IF t \in located /\ n = 1 THEN announced \cup {t} ELSE announced
        /\ UNCHANGED <<attempts, restarts, services, located, counter, updates,
                       callVars, wireVars>>
ConnectSucceeds(t) ==
    \E n \in Attempts :
        /\ conn[t][n] = "connecting"
        /\ conn' = [conn EXCEPT ![t][n] = "up"]
        /\ current' = [current EXCEPT ![t] = n]
        /\ announced' = IF t \in located THEN announced \cup {t} ELSE announced
        /\ UNCHANGED <<attempts, restarts, services, located, counter, updates,
                       callVars, wireVars>>

(* The coroutine of service_base::connect prints the error, and ends.      *)
ConnectFails(t) ==
    \E n \in Attempts :
        /\ conn[t][n] = "connecting"
        /\ conn' = [conn EXCEPT ![t][n] = "failed"]
        /\ UNCHANGED <<attempts, current, restarts, locateVars, counter, updates,
                       callVars, wireVars>>

(* The connection ends; what was on its way is lost.                       *)
Close(t) ==
    /\ IsUp(t)
    /\ \E left \in {"asleep", "gone"} : conn' = [conn EXCEPT ![t][current[t]] = left]
    /\ server' = [server EXCEPT ![t] = {}]
    /\ answers' = [answers EXCEPT ![t] = << >>]
    /\ UNCHANGED <<attempts, current, sent>>

(* on_link(Down): a restart goes to the schedule.                          *)
RestartTwice(t) ==    \* mutant: two restarts are scheduled
    restarts' = [restarts EXCEPT ![t] = @ + 2]
ScheduleRestart(t) == restarts' = [restarts EXCEPT ![t] = @ + 1]

LinkDown(t) ==
    /\ Close(t) /\ ScheduleRestart(t)
    /\ UNCHANGED <<locateVars, counter, updates, callVars>>

LinkLostSilently(t) ==
    /\ Close(t) /\ conn'[t][current[t]] = "gone"
    /\ UNCHANGED <<restarts, locateVars, counter, updates, callVars>>

(* on_data with one whole answer in the buffer.                            *)
KeepCallback(t) ==    \* mutant: the callback stays registered
    /\ IsUp(t) /\ answers[t] # << >>
    /\ LET answer == Head(answers[t]) IN
        /\ answer.sender \in callbacks
        /\ posted' = posted \cup {<<answer.sender, answer>>}
        /\ answers' = [answers EXCEPT ![t] = Tail(@)]
    /\ UNCHANGED <<linkVars, locateVars, counter, updates, callbacks, called, server, sent>>
ReadAnswer(t) ==
    /\ IsUp(t) /\ answers[t] # << >>
    /\ LET answer == Head(answers[t]) IN
        /\ answer.sender \in callbacks
        /\ callbacks' = callbacks \ {answer.sender}
        /\ posted' = posted \cup {<<answer.sender, answer>>}
        /\ answers' = [answers EXCEPT ![t] = Tail(@)]
    /\ UNCHANGED <<linkVars, locateVars, counter, updates, called, server, sent>>

(* on_data that returns false: an answer to nobody, or bytes whose CRC is  *)
(* wrong, such as two answers in one read or a part of one.                *)
ReadRejected(t) ==
    /\ answers[t] # << >>
    /\ LinkDown(t)

(* on_data with less than a message: the bytes are thrown away.            *)
ReadPart(t) ==
    /\ IsUp(t) /\ answers[t] # << >>
    /\ answers' = [answers EXCEPT ![t] = Tail(@)]
    /\ UNCHANGED <<linkVars, locateVars, counter, updates, callVars, server, sent>>

-----------------------------------------------------------------------------
(* The schedule, the callers' io_services, and the servers                 *)

RestartUnasked(t) ==    \* mutant: a restart nobody has scheduled
    /\ restarts' = [restarts EXCEPT ![t] = @ - 1]
    /\ Connect(t)
    /\ UNCHANGED <<current, locateVars, counter, updates, callVars, wireVars>>
Restart(t) ==
    /\ restarts[t] > 0
    /\ restarts' = [restarts EXCEPT ![t] = @ - 1]
    /\ Connect(t)
    /\ UNCHANGED <<current, locateVars, counter, updates, callVars, wireVars>>

RunLocatedCallback(t) ==
    /\ t \in announced
    /\ announced' = announced \ {t}
    /\ UNCHANGED <<linkVars, services, located, counter, updates, callVars, wireVars>>

RunCallback ==
    \E p \in posted :
        /\ posted' = posted \ {p}
        /\ called' = Append(called, p)
        /\ UNCHANGED <<linkVars, locateVars, counter, updates, callbacks, wireVars>>

(* A server answers what it has received, once, or by mistake once more.   *)
ServerAnswers(t) ==
    \E message \in server[t] :
        /\ message = Update => AnswersUpdates
        /\ Len(answers[t]) < 2
        /\ answers' = [answers EXCEPT ![t] = Append(@, message)]
        /\ \E done \in BOOLEAN :
              server' = IF done THEN [server EXCEPT ![t] = @ \ {message}] ELSE server
        /\ UNCHANGED <<linkVars, locateVars, counter, updates, callVars, sent>>

-----------------------------------------------------------------------------
Application(t) == \/ Locate(t) \/ LocateThrows(t) \/ RemoveLocatedCallback(t)
                  \/ SendTo(t) \/ SendRegistered(t)
Io(t) == \/ ConnectSucceeds(t) \/ ConnectFails(t) \/ LinkDown(t) \/ LinkLostSilently(t)
         \/ ReadAnswer(t) \/ ReadRejected(t) \/ ReadPart(t)

Next == \/ \E t \in Types : \/ Application(t) \/ Io(t) \/ Restart(t)
                            \/ RunLocatedCallback(t) \/ ServerAnswers(t)
        \/ RunCallback

Spec == Init /\ [][Next]_vars

(* connect() succeeds or fails, the schedule calls what it holds (but for  *)
(* the race on timers_ that Schedule shows), and the io_services run what  *)
(* was posted.  Servers answer or not.                                     *)
Fairness ==
    /\ \A t \in Types : /\ WF_vars(ConnectSucceeds(t) \/ ConnectFails(t))
                        /\ WF_vars(Restart(t))
                        /\ WF_vars(RunLocatedCallback(t))
    /\ WF_vars(RunCallback)

FairSpec == Spec /\ Fairness

-----------------------------------------------------------------------------
(***************************************************************************)
(* Properties                                                              *)
(***************************************************************************)

Live(t) == {n \in Attempts : conn[t][n] \in {"connecting", "up"}}

(* A service has at most one connection, counting one being made and one   *)
(* that a scheduled restart will make: located twice, lost and restarted,  *)
(* it never ends up with two.                                              *)
OneConnection == \A t \in Types : Cardinality(Live(t)) + restarts[t] <= 1

(* A registered callback is called at most once and with the answer to its *)
(* own request, whatever the servers send, however often connections are   *)
(* lost, and whatever comes late, twice or out of order.  It holds only    *)
(* while servers answer nothing but requests: send_to() uses the number of *)
(* the first one, although registered_message.hpp calls sender unique.     *)
Calls == INSTANCE CallContract WITH
             AnswerTo <- Request, asked <- counter, due <- posted, called <- called
CallsAsPromised == Calls!Spec

(* What service_locator.hpp says of send_registered: a message sent while  *)
(* the service is not located is queued and sent once it is.  It does not  *)
(* hold: send_to_ drops it.                                                *)
SentOnceLocated ==
    \A t \in Types, r \in Requests :
        <>[](\A u \in Types : IsUp(u)) /\ <>(counter > r) => <>(Request(r) \in sent)
=============================================================================
