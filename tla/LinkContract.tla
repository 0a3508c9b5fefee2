---------------------------- MODULE LinkContract ----------------------------
(***************************************************************************)
(* What a connection promises to those who use it, without coroutines,     *)
(* queue, timer or socket operations: packets reach the network in the     *)
(* order they were handed to send(), each once, while the link is up; and  *)
(* the handlers hear Failed, or Up and later at most one Down, and are     *)
(* given data only between the two.                                        *)
(*                                                                         *)
(* A link may be lost without a report (Drop) and report it later or       *)
(* never: that is as much as connection.cpp keeps.                         *)
(***************************************************************************)
EXTENDS Naturals, Sequences

CONSTANT MaxPackets  \* bound: packets handed to send()

VARIABLES
    usable,    \* packets can still be delivered
    report,    \* what the message handlers were told, in order
    sent,      \* number of packets handed to send(), 1..sent are their names
    delivered, \* packets the network has taken
    heard      \* number of times the handlers were given data

vars == <<usable, report, sent, delivered, heard>>

Up == "Up"
Down == "Down"
Failed == "Failed"

Init ==
    /\ usable = TRUE
    /\ report = << >>
    /\ sent = 0
    /\ delivered = << >>
    /\ heard = 0

Establish ==
    /\ report = << >>
    /\ report' = Append(report, Up)
    /\ UNCHANGED <<usable, sent, delivered, heard>>

Refuse ==
    /\ report = << >>
    /\ report' = Append(report, Failed)
    /\ usable' = FALSE
    /\ UNCHANGED <<sent, delivered, heard>>

Send ==
    /\ sent < MaxPackets
    /\ sent' = sent + 1
    /\ UNCHANGED <<usable, report, delivered, heard>>

Deliver ==
    /\ usable
    /\ report = <<Up>>
    /\ Len(delivered) < sent
    /\ delivered' = Append(delivered, Len(delivered) + 1)
    /\ UNCHANGED <<usable, report, sent, heard>>

Hear ==
    /\ report = <<Up>>
    /\ heard' = heard + 1
    /\ UNCHANGED <<usable, report, sent, delivered>>

Drop ==
    /\ usable
    /\ report = <<Up>>
    /\ usable' = FALSE
    /\ UNCHANGED <<report, sent, delivered, heard>>

Lose ==
    /\ report = <<Up>>
    /\ report' = Append(report, Down)
    /\ usable' = FALSE
    /\ UNCHANGED <<sent, delivered, heard>>

Next == Establish \/ Refuse \/ Send \/ Deliver \/ Hear \/ Drop \/ Lose

Spec == Init /\ [][Next]_vars
=============================================================================
