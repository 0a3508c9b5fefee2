---------------------------- MODULE CallContract ----------------------------
(***************************************************************************)
(* What a service_locator promises to those who use send_registered(),     *)
(* without services, connections or messages: a callback is called at most *)
(* once, only after it was registered, and with the answer to its own      *)
(* request.  It may never be called: a request or its answer can be lost.  *)
(***************************************************************************)
EXTENDS Naturals, Sequences

CONSTANT AnswerTo(_)  \* the answer to each request

VARIABLES
    asked,   \* number of requests made; 0..asked-1 are their names
    due,     \* calls that are about to be made: <<request, answer>>
    called   \* calls made, in order

callVariables == <<asked, due, called>>

Init == asked = 0 /\ due = {} /\ called = << >>

Ask == asked' = asked + 1 /\ UNCHANGED <<due, called>>

Answered(r) ==
    /\ r < asked
    /\ \A p \in due : p[1] # r
    /\ \A i \in DOMAIN called : called[i][1] # r
    /\ due' = due \cup {<<r, AnswerTo(r)>>}
    /\ UNCHANGED <<asked, called>>

Call(p) ==
    /\ due' = due \ {p}
    /\ called' = Append(called, p)
    /\ UNCHANGED asked

Next == Ask \/ (\E r \in 0..(asked - 1) : Answered(r)) \/ (\E p \in due : Call(p))

Spec == Init /\ [][Next]_callVariables
=============================================================================
