------------------------- MODULE RegisteredMessages -------------------------
(***************************************************************************)
(* registered_message.hpp, service_connection.hpp and the receiving half   *)
(* of service_locator.cpp: requests and answers as bytes in two streams of *)
(* one connection, cut by the network wherever it likes.                   *)
(*                                                                         *)
(* Bytes are told apart by their position in the stream only.  A message   *)
(* is 8 bytes of length, 14 of crc, sender and command, and the payload;   *)
(* the length counts all but itself.  service_connection ("server") keeps  *)
(* what it has read in input_stream_; service_locator ("client") looks at  *)
(* the bytes of one read only.  A CRC is taken to be right for exactly one *)
(* whole message, and for nothing else.                                    *)
(***************************************************************************)
EXTENDS Integers, Sequences

CONSTANTS
    Requests,  \* the sender numbers of send_registered
    Payload,   \* Payload[side][r]: bytes of payload of request r, of its answer
    ReadSize   \* the bytes one read takes at most

Sides == {"server", "client"}

ASSUME PayloadAssumption == Payload \in [Sides -> [Requests -> Nat]]
ASSUME ReadSizeAssumption == ReadSize \in Nat \ {0}

VARIABLES
    sent,   \* the messages sent to each side, in order
    ends,   \* where each of them ends in the stream
    start,  \* where the buffer of each side begins
    read,   \* how far each side has read
    got,    \* the messages each side has taken, in order
    open    \* whether the connection is open at each side

vars == <<sent, ends, start, read, got, open>>

(* The length that encode() writes, and what it counts.                    *)
LengthField == 8
Header == 4 + 8 + 2
Length(side, r) == Header + Payload[side][r]

(* Where the k-th message sent to a side ends, and the next begins.        *)
End(side, k) == IF k = 0 THEN 0 ELSE ends[side][k]
Written(side) == End(side, Len(sent[side]))

(* Every variable has its type, and no side reads more than was written.   *)
MessagesTypeOK ==
    /\ sent \in [Sides -> Seq(Requests)] /\ got \in [Sides -> Seq(Requests)]
    /\ ends \in [Sides -> Seq(Nat)]
    /\ start \in [Sides -> Nat] /\ read \in [Sides -> Nat]
    /\ open \in [Sides -> BOOLEAN]
    /\ \A side \in Sides : /\ Len(ends[side]) = Len(sent[side])
                           /\ start[side] <= read[side] /\ read[side] <= Written(side)

Init ==
    /\ sent = [side \in Sides |-> << >>] /\ got = [side \in Sides |-> << >>]
    /\ ends = [side \in Sides |-> << >>]
    /\ start = [side \in Sides |-> 0] /\ read = [side \in Sides |-> 0]
    /\ open = [side \in Sides |-> TRUE]

-----------------------------------------------------------------------------
Within(seq) == {seq[i] : i \in DOMAIN seq}

(* encode() and connection::send.                                          *)
Send(side, r) ==
    /\ sent' = [sent EXCEPT ![side] = Append(@, r)]
    /\ ends' = [ends EXCEPT ![side] =
                    Append(@, Written(side) + LengthField + Length(side, r))]
    /\ UNCHANGED <<start, read, got, open>>

(* send_registered, each number once; send_answer to a request taken.      *)
(* What is sent where the connection has ended is never written.           *)
SendRegistered(r) ==
    /\ open["client"]
    /\ r \notin Within(sent["server"])
    /\ Send("server", r)
SendAnswer(r) ==
    /\ open["server"]
    /\ r \in Within(got["server"]) /\ r \notin Within(sent["client"])
    /\ Send("client", r)

-----------------------------------------------------------------------------
(* Where the stream that on_data decodes from begins.                      *)
BeginFresh(side) == read[side]    \* mutant: the server too forgets
Begin(side) == IF side = "server" THEN start[side] ELSE read[side]

(* The k-th message begins where the buffer does.                          *)
BeginsAt(side, k) == k \in 1..Len(sent[side]) /\ End(side, k - 1) = Begin(side)

(* can_decode, with the bytes up to `to` in the buffer.  The length is read *)
(* as it stands; in a buffer too short for it, or one that begins inside a *)
(* message, it may be anything.                                            *)
NoLength(side, to) == \A k \in 1..Len(sent[side]) :
    BeginsAt(side, k) => to - Begin(side) < LengthField
CanDecode(side, to) ==
    \/ NoLength(side, to)
    \/ \E k \in 1..Len(sent[side]) :
        BeginsAt(side, k) /\ Length(side, sent[side][k]) <= to - Begin(side)
CannotDecodeYet(side, to) ==    \* mutant: one byte more is waited for
    \/ NoLength(side, to)
    \/ \E k \in 1..Len(sent[side]) :
        BeginsAt(side, k) /\ LengthField + Length(side, sent[side][k]) >= to - Begin(side)
CannotDecode(side, to) ==
    \/ NoLength(side, to)
    \/ \E k \in 1..Len(sent[side]) :
        BeginsAt(side, k) /\ Length(side, sent[side][k]) > to - Begin(side)

(* The buffer holds the k-th message and nothing else.                     *)
Whole(side, k, to) == BeginsAt(side, k) /\ End(side, k) = to

ArrivedBuffer(side) ==    \* mutant: all of the buffer, whatever read_some returns
    {to \in {read[side] + ReadSize} : read[side] < Written(side)}
Arrived(side) == {to \in (read[side] + 1)..(read[side] + ReadSize) : to <= Written(side)}

(* can_decode fails: what was read stays in input_stream_, or is forgotten.*)
ReadPart(side) ==
    /\ open[side]
    /\ \E to \in Arrived(side) :
        /\ CannotDecode(side, to)
        /\ read' = [read EXCEPT ![side] = to]
    /\ UNCHANGED <<sent, ends, start, got, open>>

(* decode, a right CRC, and the handler; shrink() empties the buffer.  The *)
(* handler of the server may fail, which ends the connection.              *)
Handled(side) ==
    \E succeeded \in BOOLEAN :
        /\ side = "client" => succeeded
        /\ open' = [open EXCEPT ![side] = succeeded]
TakeAgain(side) ==    \* mutant: the message stays to be read
    /\ open[side]
    /\ \E to \in Arrived(side), k \in 1..Len(sent[side]) :
        /\ CanDecode(side, to) /\ Whole(side, k, to)
        /\ got' = [got EXCEPT ![side] = Append(@, sent[side][k])]
    /\ Handled(side)
    /\ UNCHANGED <<sent, ends, start, read>>
Take(side) ==
    /\ open[side]
    /\ \E to \in Arrived(side), k \in 1..Len(sent[side]) :
        /\ CanDecode(side, to) /\ Whole(side, k, to)
        /\ read' = [read EXCEPT ![side] = to]
        /\ start' = [start EXCEPT ![side] = to]
        /\ got' = [got EXCEPT ![side] = Append(@, sent[side][k])]
    /\ Handled(side)
    /\ UNCHANGED <<sent, ends>>

(* decode takes all there is: a part, or more than a message, throws or    *)
(* has a wrong CRC, and this side stops the connection.                    *)
RejectNothing(side) ==    \* mutant: what is rejected is thrown away
    /\ open[side]
    /\ \E to \in Arrived(side) :
        /\ CanDecode(side, to)
        /\ \A k \in 1..Len(sent[side]) : ~Whole(side, k, to)
        /\ read' = [read EXCEPT ![side] = to]
        /\ start' = [start EXCEPT ![side] = to]
    /\ UNCHANGED <<sent, ends, got, open>>
Reject(side) ==
    /\ open[side]
    /\ \E to \in Arrived(side) :
        /\ CanDecode(side, to)
        /\ \A k \in 1..Len(sent[side]) : ~Whole(side, k, to)
        /\ read' = [read EXCEPT ![side] = to]
        /\ start' = [start EXCEPT ![side] = to]
    /\ open' = [open EXCEPT ![side] = FALSE]
    /\ UNCHANGED <<sent, ends, got>>

-----------------------------------------------------------------------------
(* A side whose peer has stopped may still read what was written before,   *)
(* until its read fails and it stops too.                                  *)
NoticeClose(side) ==
    /\ open[side] /\ \E other \in Sides : ~open[other]
    /\ open' = [open EXCEPT ![side] = FALSE]
    /\ UNCHANGED <<sent, ends, start, read, got>>

OnData(side) == ReadPart(side) \/ Take(side) \/ Reject(side)

Next == \/ \E r \in Requests : SendRegistered(r) \/ SendAnswer(r)
        \/ \E side \in Sides : OnData(side) \/ NoticeClose(side)

Spec == Init /\ [][Next]_vars

(* What was written arrives, and the server answers what it has taken.     *)
Fairness == /\ \A side \in Sides : WF_vars(OnData(side))
            /\ \A r \in Requests : WF_vars(SendAnswer(r))
FairSpec == Spec /\ Fairness

-----------------------------------------------------------------------------
(***************************************************************************)
(* Properties                                                              *)
(***************************************************************************)

(* However the requests are cut, the server takes a beginning of them, each *)
(* as it was sent, once, in order.                                         *)
ServerTakesInOrder ==
    /\ Len(got["server"]) <= Len(sent["server"])
    /\ \A k \in DOMAIN got["server"] : got["server"][k] = sent["server"][k]

(* No request lies whole in input_stream_ while the server waits for more. *)
NothingWithheld ==
    open["server"] => \A k \in DOMAIN ends["server"] :
                ends["server"][k] <= read["server"] => k \in DOMAIN got["server"]

(* The locator takes answers in the order they were sent, each at most     *)
(* once, although what it throws away leaves it in the middle of another.  *)
AnswersInOrder ==
    /\ Within(got["client"]) \subseteq Within(sent["client"])
    /\ \A i, j \in DOMAIN got["client"], m, n \in DOMAIN sent["client"] :
          i < j /\ got["client"][i] = sent["client"][m] /\ got["client"][j] = sent["client"][n]
              => m < n

(* A request reaches the handler of the server, or the server ends the     *)
(* connection, if not by itself then because the locator has.              *)
RequestArrives ==
    \A r \in Requests :
        r \in Within(sent["server"]) ~> (r \in Within(got["server"]) \/ ~open["server"])

(* What the test of service_locator says: sending registered messages must *)
(* yield an answer.  It does not hold, even where the connection lasts: an *)
(* answer that takes two reads is thrown away.                             *)
AnswerArrives ==
    \A r \in Requests :
        r \in Within(got["server"]) ~> (r \in Within(got["client"]) \/ \E side \in Sides : ~open[side])
=============================================================================
