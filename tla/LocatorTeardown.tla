--------------------------- MODULE LocatorTeardown ---------------------------
(***************************************************************************)
(* A service_locator from its construction to its end.  ~service_locator   *)
(* has no code of its own: it destroys the members in the opposite order   *)
(* of their declaration, first schedule_, then the maps of callbacks, then *)
(* the services, and only with a service go the threads that call on_data  *)
(* and on_link.  What they use of the locator may be gone.                 *)
(*                                                                         *)
(* The steps before and during the destruction are those of                *)
(* ServiceLocator; `misused` collects the members that one of them has     *)
(* used after they were destroyed, which is undefined behaviour.           *)
(***************************************************************************)
EXTENDS ServiceLocator

VARIABLES
    life,     \* how many members have begun to go; 0 as long as the locator lives
    halved,   \* services of which only the base class is left
    joined,   \* services whose threads have been joined
    misused   \* members used after their end

lifeVars == <<vars, life, halved, joined, misused>>
ending == <<life, halved, joined>>

LifeInit ==
    /\ Init
    /\ life = 0 /\ halved = {} /\ joined = {} /\ misused = {}

-----------------------------------------------------------------------------
(* The members in the order in which they go.                              *)
EndsInTurn ==    \* mutant: in the order of their declaration
    <<"services_", "registered_callbacks_", "located_callbacks_", "schedule_">>
EndsReversed ==
    <<"schedule_", "located_callbacks_", "registered_callbacks_", "services_">>

Alive == life = 0
Going(member) == life \in DOMAIN EndsReversed /\ EndsReversed[life] = member

(* The members of the locator and of its service t that are gone, services_ *)
(* with the first service.                                                 *)
Destroyed(t) ==
    {EndsReversed[k] : k \in DOMAIN EndsReversed \cap 1..(life - 1)}
    \cup (IF halved # {} THEN {"services_"} ELSE {})
    \cup (IF t \in halved THEN {"connection_"} ELSE {})

Use(t, members) == misused' = misused \cup (members \cap Destroyed(t))

(* The io threads of a service run until the service has joined them.      *)
ConnectReturns(t) ==
    /\ t \notin joined
    /\ \/ ConnectSucceeds(t) /\ Use(t, {"connection_", "located_callbacks_"})
       \/ ConnectFails(t) /\ UNCHANGED misused
    /\ UNCHANGED ending

LinkEnds(t) ==
    /\ t \notin joined
    /\ \/ LinkDown(t) /\ Use(t, {"schedule_"})
       \/ LinkLostSilently(t) /\ UNCHANGED misused
    /\ UNCHANGED ending

DataComes(t) ==
    /\ t \notin joined
    /\ \/ ReadAnswer(t) /\ Use(t, {"registered_callbacks_"})
       \/ ReadRejected(t) /\ Use(t, {"registered_callbacks_", "schedule_"})
       \/ ReadPart(t) /\ UNCHANGED misused
    /\ UNCHANGED ending

(* A restart comes when it is due or, once cancel_all() has made its       *)
(* handler ready, early: on_link ignores the error its callback is given.  *)
(* It runs on a thread of schedule_, which joins it, and looks in services_.*)
RestartComes(t) ==
    /\ "schedule_" \notin Destroyed(t)
    /\ Restart(t) /\ Use(t, {"services_"})
    /\ UNCHANGED ending

(* A located callback is posted with a pointer to the locator, which it is *)
(* called with; a registered one with all it needs.                        *)
LocatedCallbackComes(t) ==
    /\ RunLocatedCallback(t)
    /\ misused' = IF Alive THEN misused ELSE misused \cup {"locator"}
    /\ UNCHANGED ending

CallbackComes == RunCallback /\ UNCHANGED <<ending, misused>>

ApplicationCalls(t) == Alive /\ Application(t) /\ UNCHANGED <<ending, misused>>

Answer(t) == ServerAnswers(t) /\ UNCHANGED <<ending, misused>>

-----------------------------------------------------------------------------
(* The application destroys the locator, and the first member begins to go. *)
Destroy ==
    /\ Alive
    /\ life' = 1
    /\ UNCHANGED <<vars, halved, joined, misused>>

(* A member is gone: schedule_ when its threads are joined, so that none of *)
(* its callbacks runs any more, services_ when each service is.            *)
MemberGone ==
    /\ life \in DOMAIN EndsReversed
    /\ Going("services_") => joined = services
    /\ life' = life + 1
    /\ UNCHANGED <<vars, halved, joined, misused>>

(* One service after the other: connection_ and make_handler go before     *)
(* ~service stops and joins the threads.                                   *)
ServiceGoes(t) ==
    /\ Going("services_")
    /\ \/ /\ t \in services \ halved /\ halved = joined
          /\ halved' = halved \cup {t}
          /\ UNCHANGED joined
       \/ /\ t \in halved \ joined
          /\ joined' = joined \cup {t}
          /\ UNCHANGED halved
    /\ UNCHANGED <<vars, life, misused>>

Teardown == Destroy \/ MemberGone \/ \E t \in Types : ServiceGoes(t)

LifeNext ==
    \/ \E t \in Types : \/ ApplicationCalls(t) \/ ConnectReturns(t) \/ LinkEnds(t)
                        \/ DataComes(t) \/ RestartComes(t) \/ LocatedCallbackComes(t)
                        \/ Answer(t)
    \/ CallbackComes
    \/ Teardown

LifeSpec == LifeInit /\ [][LifeNext]_lifeVars

(* As in ServiceLocator, as long as there are threads to run the handlers. *)
(* Nobody has to destroy the locator, and a destruction may take its time. *)
LifeFairness ==
    /\ \A t \in Types : /\ WF_lifeVars(ConnectReturns(t))
                        /\ WF_lifeVars(RestartComes(t))
                        /\ WF_lifeVars(LocatedCallbackComes(t))
    /\ WF_lifeVars(CallbackComes)

FairLifeSpec == LifeSpec /\ LifeFairness

-----------------------------------------------------------------------------
(* Whenever a locator is destroyed, with restarts due, running or made     *)
(* early by cancel_all(), none of them looks in services_, or restarts a   *)
(* service, that has begun to go: schedule_ is the last member declared.   *)
(* The io threads have no such order: what they use may be gone.           *)
RestartsFindServices == "services_" \notin misused

(* A connection whose loss was reported is made anew, and the service's    *)
(* located callback, unless it was removed, is called again: a Down is not *)
(* forgotten as long as the locator lives, but the first attempt that      *)
(* fails is the last.                                                      *)
LossIsRetried ==
    \A t \in Types, n \in 1..(MaxConnections - 1) :
        (restarts[t] > 0 /\ attempts[t] = n)
            ~> \/ conn[t][n + 1] = "failed"
               \/ current[t] = n + 1 /\ (t \in located => t \in announced)
               \/ ~Alive
=============================================================================
