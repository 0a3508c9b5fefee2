----------------------------- MODULE Connection -----------------------------
(***************************************************************************)
(* One network connection of KeycapRoot: the two coroutines do_read and    *)
(* do_write of connection.cpp, the queue and the timer they share with the *)
(* callers of send(), and the steps of service::handle_new_connection that *)
(* bring the connection up.                                                *)
(*                                                                         *)
(* A coroutine runs on one of the Threads threads of the service's         *)
(* io_context from one co_await to the next.  Where a segment reads state  *)
(* and uses it after another thread may have changed it, the segment is    *)
(* split in two steps: do_write between empty() and async_wait, send()     *)
(* between emplace_back and cancel_one.  With Threads = 1 two coroutines   *)
(* never interleave inside a segment; callers outside the io_context       *)
(* always do.                                                              *)
(*                                                                         *)
(* Packets are numbered in the order send() accepts them; what they hold   *)
(* is left out, and so is what a handler does with the data it is given,   *)
(* but for what the connection can tell apart: it answers with send(), and *)
(* in the end it accepts or rejects the data.                              *)
(***************************************************************************)
EXTENDS Integers, Sequences

CONSTANTS
    Callers,     \* threads outside the io_context that call send()
    Threads,     \* threads that run the io_context (service::thread_count_)
    MaxPackets,  \* bound: packets handed to send()
    MaxChunks    \* bound: chunks the peer writes

ASSUME ThreadsAssumption == Threads \in Nat \ {0}
ASSUME MaxPacketsAssumption == MaxPackets \in Nat
ASSUME MaxChunksAssumption == MaxChunks \in Nat

VARIABLES
    phase,     \* progress of service::handle_new_connection
    reader,    \* control state of do_read
    writer,    \* control state of do_write
    call,      \* control state of each caller of send()
    queue,     \* send_packet_queue_
    accepted,  \* number of packets put in the queue so far
    timer,     \* send_timer_: "idle" has no waiter, "cancelled" has woken it
    open,      \* socket_.is_open()
    readOp,    \* the outstanding async_read_some
    writeOp,   \* the outstanding async_write
    wire,      \* packets the kernel has taken, in order
    inbox,     \* chunks of the peer that were not read yet
    peer,      \* the other end: "open", or "closed" (also: lost)
    link,      \* the link_status values routed to the handlers, in order
    routed     \* number of route_inbound calls

sending == <<queue, accepted, timer>>
socket  == <<open, readOp, writeOp>>
network == <<wire, inbox, peer>>
reports == <<link, routed>>
vars == <<phase, reader, writer, call, sending, socket, network, reports>>

Up == "Up"
Down == "Down"
Failed == "Failed"

(* Every variable has its type.                                            *)
TypeOK ==
    /\ phase \in {"new", "up", "listening", "refused"}
    /\ reader \in {"off", "queued", "loop", "reading", "routing", "reply", "done"}
    /\ writer \in {"off", "queued", "loop", "arm", "waiting", "writing", "done"}
    /\ call \in [Callers -> {"idle", "cancel"}]
    /\ queue \in Seq(1..MaxPackets)
    /\ accepted \in 0..MaxPackets
    /\ timer \in {"idle", "armed", "cancelled"}
    /\ open \in BOOLEAN
    /\ readOp \in {"none", "pending", "data", "error"}
    /\ writeOp \in {"none", "pending", "ok", "error"}
    /\ wire \in Seq(1..MaxPackets)
    /\ inbox \in 0..MaxChunks
    /\ peer \in {"open", "closed"}
    /\ link \in Seq({Up, Down, Failed})
    /\ routed \in 0..MaxChunks

Init ==
    /\ phase = "new"
    /\ reader = "off"
    /\ writer = "off"
    /\ call = [c \in Callers |-> "idle"]
    /\ queue = << >>
    /\ accepted = 0
    /\ timer = "idle"
    /\ open = TRUE
    /\ readOp = "none"
    /\ writeOp = "none"
    /\ wire = << >>
    /\ inbox = 0
    /\ peer = "open"
    /\ link = << >>
    /\ routed = 0

-----------------------------------------------------------------------------
(* How many of the io_context's threads are inside a segment.              *)
One(b) == IF b THEN 1 ELSE 0
Busy == One(phase \in {"new", "up"})
        + One(reader \in {"loop", "routing", "reply"})
        + One(writer \in {"loop", "arm"})
ThreadFree == Busy < Threads

(* The object lives while a coroutine or handle_new_connection holds it;   *)
(* a caller reaches it through a weak_ptr.                                 *)
Alive == \/ phase \in {"new", "up"}
         \/ phase = "listening" /\ ~(reader = "done" /\ writer = "done")

(* send(), first half: emplace_back.                                       *)
Enqueue ==
    /\ accepted < MaxPackets
    /\ accepted' = accepted + 1
    /\ queue' = Append(queue, accepted + 1)

(* send(), second half: cancel_one wakes the waiter if there is one.       *)
CancelOne == timer' = IF timer = "armed" THEN "cancelled" ELSE timer

(* stop(): closing the socket aborts the operations still outstanding; one *)
(* that has completed already keeps its result.                            *)
CloseDropsRead ==    \* mutant: the read is dropped and its handler never called
    /\ open' = FALSE
    /\ readOp' = IF readOp = "pending" THEN "none" ELSE readOp
    /\ writeOp' = IF writeOp = "pending" THEN "error" ELSE writeOp
Close ==
    /\ open' = FALSE
    /\ readOp' = IF readOp = "pending" THEN "error" ELSE readOp
    /\ writeOp' = IF writeOp = "pending" THEN "error" ELSE writeOp

-----------------------------------------------------------------------------
(* service::handle_new_connection                                          *)

SetupAccept ==
    /\ phase = "new"
    /\ phase' = "up"
    /\ link' = Append(link, Up)
    /\ UNCHANGED <<reader, writer, call, sending, socket, network, routed>>

(* on_new_connection returned false; the last reference goes, and with it  *)
(* the socket.                                                             *)
SetupRefuse ==
    /\ phase = "new"
    /\ phase' = "refused"
    /\ link' = Append(link, Failed)
    /\ open' = FALSE
    /\ UNCHANGED <<reader, writer, call, sending, readOp, writeOp, network, routed>>

(* on_new_connection and the on_link handlers may send a first packet.     *)
SetupSend ==
    /\ phase \in {"new", "up"}
    /\ Enqueue
    /\ CancelOne
    /\ UNCHANGED <<phase, reader, writer, call, socket, network, reports>>

ListenReadOnly ==    \* mutant: do_write is never spawned
    /\ phase = "up"
    /\ phase' = "listening"
    /\ reader' = "queued"
    /\ UNCHANGED <<writer, call, sending, socket, network, reports>>
Listen ==
    /\ phase = "up"
    /\ phase' = "listening"
    /\ reader' = "queued"
    /\ writer' = "queued"
    /\ UNCHANGED <<call, sending, socket, network, reports>>

-----------------------------------------------------------------------------
(* connection::send from a thread outside the io_context                   *)

CallSend(c) ==
    /\ call[c] = "idle"
    /\ Alive
    /\ Enqueue
    /\ call' = [call EXCEPT ![c] = "cancel"]
    /\ UNCHANGED <<phase, reader, writer, timer, socket, network, reports>>

CallForget(c) ==     \* mutant: send() does not touch the timer
    /\ call[c] = "cancel"
    /\ call' = [call EXCEPT ![c] = "idle"]
    /\ UNCHANGED <<phase, reader, writer, sending, socket, network, reports>>
CallCancel(c) ==
    /\ call[c] = "cancel"
    /\ call' = [call EXCEPT ![c] = "idle"]
    /\ CancelOne
    /\ UNCHANGED <<phase, reader, writer, queue, accepted, socket, network, reports>>

-----------------------------------------------------------------------------
(* connection::do_read                                                     *)

ReaderStart ==
    /\ reader = "queued" /\ ThreadFree
    /\ reader' = "loop"
    /\ UNCHANGED <<phase, writer, call, sending, socket, network, reports>>

(* while (socket_.is_open()) co_await async_read_some                      *)
ReaderLoop ==
    /\ reader = "loop"
    /\ IF open
       THEN reader' = "reading" /\ readOp' = "pending"
       ELSE reader' = "done" /\ UNCHANGED readOp
    /\ UNCHANGED <<phase, writer, call, sending, open, writeOp, network, reports>>

ReaderDataAgain ==   \* mutant: the data stays in the buffer and is routed again
    /\ reader = "reading" /\ readOp = "data" /\ ThreadFree
    /\ routed' = routed + 1
    /\ UNCHANGED <<phase, reader, writer, call, sending, socket, network, link>>
(* The read returned data: route_inbound hands it to the handlers.         *)
ReaderData ==
    /\ reader = "reading" /\ readOp = "data" /\ ThreadFree
    /\ reader' = "routing"
    /\ readOp' = "none"
    /\ routed' = routed + 1
    /\ UNCHANGED <<phase, writer, call, sending, open, writeOp, network, link>>

(* A handler answers from within on_data: send() on the io thread.         *)
ReaderReply ==
    /\ reader = "routing"
    /\ Enqueue
    /\ reader' = "reply"
    /\ UNCHANGED <<phase, writer, call, timer, socket, network, reports>>

ReaderReplyForget == \* mutant: an answer does not touch the timer
    /\ reader = "reply"
    /\ reader' = "routing"
    /\ UNCHANGED <<phase, writer, call, sending, socket, network, reports>>
ReaderReplyCancel ==
    /\ reader = "reply"
    /\ CancelOne
    /\ reader' = "routing"
    /\ UNCHANGED <<phase, writer, call, queue, accepted, socket, network, reports>>

ReaderAccept ==
    /\ reader = "routing"
    /\ reader' = "loop"
    /\ UNCHANGED <<phase, writer, call, sending, socket, network, reports>>

(* Route Down, stop() and leave the coroutine: the common end of a         *)
(* rejected chunk and of an exception.                                     *)
ReaderFailNoStop ==  \* mutant: report Down, but leave the socket open
    /\ link' = Append(link, Down)
    /\ reader' = "done"
    /\ UNCHANGED <<phase, writer, call, sending, socket, network, routed>>
ReaderFail ==
    /\ link' = Append(link, Down)
    /\ Close
    /\ reader' = "done"
    /\ UNCHANGED <<phase, writer, call, sending, network, routed>>

(* A handler returned false, or threw.                                     *)
ReaderReject == reader = "routing" /\ ReaderFail

(* async_read_some failed: the peer is gone, or stop() aborted the read.   *)
ReaderError == reader = "reading" /\ readOp = "error" /\ ThreadFree /\ ReaderFail

-----------------------------------------------------------------------------
(* connection::do_write                                                    *)

WriterStart ==
    /\ writer = "queued" /\ ThreadFree
    /\ writer' = "loop"
    /\ UNCHANGED <<phase, reader, call, sending, socket, network, reports>>

WriterLoop ==
    /\ writer = "loop"
    /\ \/ /\ ~open
          /\ writer' = "done"
          /\ UNCHANGED writeOp
       \/ /\ open /\ queue = << >>
          /\ writer' = "arm"
          /\ UNCHANGED writeOp
       \/ /\ open /\ queue # << >>
          /\ writer' = "writing"
          /\ writeOp' = "pending"
    /\ UNCHANGED <<phase, reader, call, sending, open, readOp, network, reports>>

(* co_await send_timer_.async_wait: the timer expires at the end of time,  *)
(* so only cancel_one ends the wait.                                       *)
WriterArm ==
    /\ writer = "arm"
    /\ writer' = "waiting"
    /\ timer' = "armed"
    /\ UNCHANGED <<phase, reader, call, queue, accepted, socket, network, reports>>

WriterWake ==
    /\ writer = "waiting" /\ timer = "cancelled" /\ ThreadFree
    /\ writer' = "loop"
    /\ timer' = "idle"
    /\ UNCHANGED <<phase, reader, call, queue, accepted, socket, network, reports>>

WriterKeep ==        \* mutant: the packet written stays in the queue
    /\ writer = "writing" /\ writeOp = "ok" /\ ThreadFree
    /\ writeOp' = "none"
    /\ writer' = "loop"
    /\ UNCHANGED <<phase, reader, call, sending, open, readOp, network, reports>>
WriterPop ==
    /\ writer = "writing" /\ writeOp = "ok" /\ ThreadFree
    /\ queue' = Tail(queue)
    /\ writeOp' = "none"
    /\ writer' = "loop"
    /\ UNCHANGED <<phase, reader, call, accepted, timer, open, readOp, network, reports>>

(* async_write failed: stop() without a link status.                       *)
WriterErrorDown ==   \* mutant: do_write reports Down as do_read does
    /\ writer = "writing" /\ writeOp = "error" /\ ThreadFree
    /\ Close
    /\ writer' = "done"
    /\ link' = Append(link, Down)
    /\ UNCHANGED <<phase, reader, call, sending, network, routed>>
WriterError ==
    /\ writer = "writing" /\ writeOp = "error" /\ ThreadFree
    /\ Close
    /\ writer' = "done"
    /\ UNCHANGED <<phase, reader, call, sending, network, reports>>

-----------------------------------------------------------------------------
(* The network: the peer, and the kernel completing what is outstanding.   *)

PeerSends ==
    /\ peer = "open"
    /\ routed + inbox + One(readOp = "data") < MaxChunks
    /\ inbox' = inbox + 1
    /\ UNCHANGED <<phase, reader, writer, call, sending, socket, wire, peer, reports>>

PeerCloses ==
    /\ peer = "open"
    /\ peer' = "closed"
    /\ UNCHANGED <<phase, reader, writer, call, sending, socket, wire, inbox, reports>>

(* One read takes one chunk, or several that have run together.            *)
KernelRead ==
    /\ readOp = "pending"
    /\ \E n \in 1..inbox : inbox' = inbox - n
    /\ readOp' = "data"
    /\ UNCHANGED <<phase, reader, writer, call, sending, open, writeOp, wire, peer, reports>>

KernelReadError ==
    /\ readOp = "pending" /\ peer = "closed"
    /\ readOp' = "error"
    /\ UNCHANGED <<phase, reader, writer, call, sending, open, writeOp, network, reports>>

KernelWrite ==
    /\ writeOp = "pending"
    /\ writeOp' = "ok"
    /\ wire' = Append(wire, Head(queue))
    /\ UNCHANGED <<phase, reader, writer, call, sending, open, readOp, inbox, peer, reports>>

KernelWriteError ==
    /\ writeOp = "pending" /\ peer = "closed"
    /\ writeOp' = "error"
    /\ UNCHANGED <<phase, reader, writer, call, sending, open, readOp, network, reports>>

-----------------------------------------------------------------------------
Setup == SetupAccept \/ SetupRefuse \/ SetupSend \/ Listen

Reader == \/ ReaderStart \/ ReaderLoop \/ ReaderData \/ ReaderReply
          \/ ReaderReplyCancel \/ ReaderAccept \/ ReaderReject \/ ReaderError

Writer == \/ WriterStart \/ WriterLoop \/ WriterArm \/ WriterWake
          \/ WriterPop \/ WriterError

Kernel == KernelRead \/ KernelReadError \/ KernelWrite \/ KernelWriteError

Next == \/ Setup \/ Reader \/ Writer \/ Kernel \/ PeerSends \/ PeerCloses
        \/ \E c \in Callers : CallSend(c) \/ CallCancel(c)

Spec == Init /\ [][Next]_vars

(***************************************************************************)
(* handle_new_connection runs to its end, the threads of the io_context    *)
(* pick up what is ready, a call of send() that has begun ends, and the    *)
(* kernel completes every operation that can complete.  Nobody has to call *)
(* send(), and the peer does as it likes.                                  *)
(***************************************************************************)
Fairness ==
    /\ WF_vars(Listen)
    /\ WF_vars(Reader)
    /\ WF_vars(Writer)
    /\ WF_vars(KernelRead \/ KernelReadError)
    /\ WF_vars(KernelWrite \/ KernelWriteError)
    /\ \A c \in Callers : WF_vars(CallCancel(c))

FairSpec == Spec /\ Fairness

-----------------------------------------------------------------------------
(***************************************************************************)
(* Properties                                                              *)
(***************************************************************************)

(* The packet at the head of the queue while its write has completed and   *)
(* pop_front has not run: the kernel and the queue both have it.           *)
Taken == Len(wire) - One(writeOp = "ok")

(* send() and do_write lose no packet, send none twice and swap no two:    *)
(* what the kernel took is a prefix of what was accepted, and the queue    *)
(* holds exactly the rest, in order, whoever interleaves with do_write.    *)
PacketsInOrder ==
    /\ \A i \in 1..Len(wire) : wire[i] = i
    /\ \A i \in 1..Len(queue) : queue[i] = Taken + i
    /\ accepted = Taken + Len(queue)

(* The connection implements its contract: Up before the first packet goes *)
(* out, at most one Down and none after Failed, nothing delivered once the *)
(* socket was closed, and data routed only between Up and Down: listen()   *)
(* comes after the link status was routed, and a failed do_read routes no  *)
(* more.                                                                   *)
Contract == INSTANCE LinkContract WITH
                usable <- open, report <- link, sent <- accepted, delivered <- wire,
                heard <- routed
ContractSpec == Contract!Spec

(* do_write sleeps while a packet is in the queue only if somebody is      *)
(* about to wake it.  It holds when every send() runs on the one thread of *)
(* the io_context, and not otherwise: empty() and async_wait are not one   *)
(* step, and cancel_one wakes nobody who does not wait yet.                *)
NoStrandedPacket ==
    writer = "waiting" /\ queue # << >> =>
        \/ timer = "cancelled"
        \/ reader = "reply"
        \/ \E c \in Callers : call[c] = "cancel"

(* What connection.hpp says of send(): every packet accepted goes out,     *)
(* unless the connection ends first.                                       *)
EveryPacketSent ==
    \A k \in 1..MaxPackets :
        (accepted >= k /\ phase = "listening") ~> (Len(wire) >= k \/ ~open)

(* Whoever closes the socket, do_read ends: close() aborts its read.       *)
StopEndsReader == (~open /\ phase = "listening") ~> (reader = "done")

(* A peer that goes away is noticed, even if nothing is ever sent to it:   *)
(* do_read always has a read outstanding or a result to handle.            *)
PeerLossNoticed == (peer = "closed" /\ phase = "listening") ~> ~open

(* stop() leaves do_write asleep on the timer, and the connection alive.   *)
(* The next send() to it ends do_write.                                    *)
SendFreesStoppedWriter ==
    \A c \in Callers :
        (~open /\ writer = "waiting" /\ call[c] = "cancel") ~> (writer = "done")

(* What message_handler.hpp says of on_link: once do_read has ended the    *)
(* handlers were told.  It does not hold: do_write closes the socket       *)
(* without a report, and do_read leaves its loop without one when it finds *)
(* the socket closed.                                                      *)
DownReported == reader = "done" => link = <<Up, Down>>
=============================================================================
