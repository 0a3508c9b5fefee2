-------------------------- MODULE ConnectionProofs --------------------------
(***************************************************************************)
(* Proofs about Connection, for any callers, any number of threads and any *)
(* bounds.  Inv is the inductive invariant: the type of every variable,    *)
(* and the four facts about do_read, do_write, the socket and the reported *)
(* link status that the step of each action relies on.                     *)
(***************************************************************************)
EXTENDS Connection, TLAPS

(* The bound on the peer's chunks holds wherever a chunk is.               *)
ChunkBound == routed + inbox + One(readOp = "data") <= MaxChunks

(* An operation is outstanding only while its coroutine waits for it, only *)
(* on an open socket, and a write only of a packet in the queue.           *)
OpsOwned ==
    /\ readOp # "none" => reader \in {"reading", "done"}
    /\ readOp = "data" => reader = "reading"
    /\ readOp = "pending" => reader = "reading" /\ open
    /\ writeOp # "none" => writer \in {"writing", "done"}
    /\ writeOp \in {"pending", "ok"} => writer = "writing" /\ queue # << >>
    /\ writeOp = "pending" => open

(* The coroutines start with listen(), and the status reported tells how   *)
(* far handle_new_connection and do_read have come.                        *)
LinkInv ==
    /\ phase = "new" => link = << >>
    /\ phase = "up" => link = <<Up>>
    /\ phase = "refused" => link = <<Failed>>
    /\ phase = "listening" =>
           IF reader = "done" THEN ~open /\ link \in {<<Up>>, Append(<<Up>>, Down)}
                              ELSE link = <<Up>>
    /\ phase # "listening" => reader = "off" /\ writer = "off"
    /\ phase = "listening" => reader # "off" /\ writer # "off"

Inv == TypeOK /\ ChunkBound /\ OpsOwned /\ LinkInv /\ PacketsInOrder

-----------------------------------------------------------------------------
(* What Append does to a sequence, where the provers see the parts.        *)
LEMMA AppendFacts ==
  ASSUME NEW S, NEW s \in Seq(S), NEW e \in S
  PROVE  /\ Append(s, e) \in Seq(S)
         /\ Len(Append(s, e)) = Len(s) + 1
         /\ \A i \in 1..Len(s) : Append(s, e)[i] = s[i]
         /\ Append(s, e)[Len(s) + 1] = e
         /\ Append(s, e) # << >>
  OBVIOUS

(* Append keeps the type of a sequence.                                    *)
LEMMA AppendType ==
  ASSUME NEW S, NEW s \in Seq(S), NEW e \in S
  PROVE  Append(s, e) \in Seq(S)
  OBVIOUS

(* A report added to the reports made is a sequence of reports.            *)
LEMMA ReportType ==
  ASSUME link \in Seq({Up, Down, Failed}), NEW e \in {Up, Down, Failed},
         link' = Append(link, e)
  PROVE  link' \in Seq({Up, Down, Failed})
<1> DEFINE Kinds == {Up, Down, Failed}
<1>1. link \in Seq(Kinds) /\ e \in Kinds
  OBVIOUS
<1> HIDE DEF Kinds
<1>2. Append(link, e) \in Seq(Kinds)
  BY <1>1, AppendType
<1>3. QED
  BY <1>2 DEF Kinds

(* The reports that can be made, as sequences.                             *)
LEMMA ReportFacts ==
  /\ Append(<< >>, Up) = <<Up>>
  /\ Append(<< >>, Failed) = <<Failed>>
  OBVIOUS

(* emplace_back keeps the queue's type and order, at any time it happens.  *)
LEMMA EnqueueFacts ==
  ASSUME Inv, Enqueue, UNCHANGED <<wire, writeOp>>
  PROVE  /\ queue' \in Seq(1..MaxPackets) /\ queue' # << >>
         /\ accepted' \in 0..MaxPackets
         /\ PacketsInOrder'
<1> USE MaxPacketsAssumption DEF Inv, TypeOK, Enqueue
<1>1. accepted + 1 \in 1..MaxPackets
  OBVIOUS
<1>2. /\ queue' \in Seq(1..MaxPackets) /\ queue' # << >>
      /\ Len(queue') = Len(queue) + 1
      /\ \A i \in 1..Len(queue) : queue'[i] = queue[i]
      /\ queue'[Len(queue) + 1] = accepted + 1
  <2> DEFINE Numbers == 1..MaxPackets
  <2>1. queue \in Seq(Numbers) /\ accepted + 1 \in Numbers
    BY <1>1
  <2>2. queue' = Append(queue, accepted + 1)
    OBVIOUS
  <2> HIDE DEF Numbers
  <2>3. /\ Append(queue, accepted + 1) \in Seq(Numbers)
        /\ Len(Append(queue, accepted + 1)) = Len(queue) + 1
        /\ \A i \in 1..Len(queue) : Append(queue, accepted + 1)[i] = queue[i]
        /\ Append(queue, accepted + 1)[Len(queue) + 1] = accepted + 1
        /\ Append(queue, accepted + 1) # << >>
    BY ONLY <2>1, AppendFacts
  <2>4. QED
    BY ONLY <2>2, <2>3 DEF Numbers
<1>3. Taken \in Int /\ Taken' = Taken
  BY DEF Taken, One
<1>4. accepted' = Taken' + Len(queue')
  BY <1>2, <1>3 DEF PacketsInOrder
<1>5. ASSUME NEW i \in 1..Len(queue') PROVE queue'[i] = Taken' + i
  <2>1. Len(queue) \in Nat /\ i \in 1..(Len(queue) + 1)
    BY <1>2, <1>5
  <2>2. CASE i \in 1..Len(queue)
    BY <1>2, <1>3, <2>2 DEF PacketsInOrder
  <2>3. CASE i = Len(queue) + 1
    BY <1>2, <1>3, <2>1, <2>3 DEF PacketsInOrder
  <2>4. QED
    BY <2>1, <2>2, <2>3
<1>6. \A i \in 1..Len(wire') : wire'[i] = i
  BY DEF PacketsInOrder
<1>7. PacketsInOrder'
  BY <1>4, <1>5, <1>6 DEF PacketsInOrder
<1>8. QED
  BY <1>1, <1>2, <1>7

(* The program starts in Inv.                                              *)
LEMMA InitInv == Init => Inv
  BY MaxPacketsAssumption, MaxChunksAssumption
  DEF Init, Inv, TypeOK, ChunkBound, OpsOwned, LinkInv, PacketsInOrder, Taken, One

(* Every step keeps the types: a chunk or a packet is counted once, and a *)
(* packet is taken only from a queue that is not empty.                   *)
LEMMA TypeStep == Inv /\ [Next]_vars => TypeOK'
<1> SUFFICES ASSUME Inv, [Next]_vars PROVE TypeOK'
  OBVIOUS
<1> USE MaxPacketsAssumption, MaxChunksAssumption DEF Inv, TypeOK, sending,
      socket, network, reports
<1>1. CASE SetupAccept
  <2>1. link' \in Seq({Up, Down, Failed})
    BY <1>1, Up \in {Up, Down, Failed}, ReportType DEF SetupAccept
  <2>2. /\ phase' = "up"
        /\ UNCHANGED <<reader, writer, call, sending, socket, network, routed>>
    BY <1>1 DEF SetupAccept
  <2>3. QED
    BY <2>1, <2>2
<1>2. CASE SetupRefuse
  <2>1. link' \in Seq({Up, Down, Failed})
    BY <1>2, Failed \in {Up, Down, Failed}, ReportType DEF SetupRefuse
  <2>2. phase' \in {"new", "up", "listening", "refused"} /\ open' \in BOOLEAN
    BY <1>2 DEF SetupRefuse
  <2>3. /\ reader' = reader /\ writer' = writer /\ call' = call /\ queue' = queue
        /\ accepted' = accepted /\ timer' = timer /\ readOp' = readOp
        /\ writeOp' = writeOp /\ wire' = wire /\ inbox' = inbox /\ peer' = peer
        /\ routed' = routed
    BY <1>2 DEF SetupRefuse
  <2>4. QED
    BY <2>1, <2>2, <2>3
<1>3. CASE SetupSend
  BY <1>3, EnqueueFacts DEF SetupSend, CancelOne
<1>4. CASE ReaderData
  BY <1>4 DEF ReaderData, ChunkBound, One
<1>5. CASE ReaderReply
  BY <1>5, EnqueueFacts DEF ReaderReply
<1>6. ASSUME ReaderFail PROVE TypeOK'
  <2>1. link' \in Seq({Up, Down, Failed})
    BY <1>6, Down \in {Up, Down, Failed}, ReportType DEF ReaderFail
  <2>2. /\ reader' = "done" /\ Close
        /\ UNCHANGED <<phase, writer, call, sending, network, routed>>
    BY <1>6 DEF ReaderFail
  <2>3. QED
    BY <2>1, <2>2 DEF Close
<1>7. CASE ReaderReject \/ ReaderError
  BY <1>6, <1>7 DEF ReaderReject, ReaderError
<1>8. CASE WriterPop
  BY <1>8 DEF WriterPop, OpsOwned
<1>9. CASE KernelRead
  BY <1>9 DEF KernelRead
<1>10. CASE KernelWrite
  BY <1>10 DEF KernelWrite, OpsOwned
<1>11. CASE PeerSends
  BY <1>11 DEF PeerSends, ChunkBound, One
<1>12. CASE Listen
  BY <1>12 DEF Listen
<1>13. CASE ReaderStart \/ ReaderLoop \/ ReaderReplyCancel \/ ReaderAccept
  BY <1>13 DEF ReaderStart, ReaderLoop, ReaderReplyCancel, ReaderAccept,
      CancelOne
<1>14. CASE WriterStart \/ WriterLoop \/ WriterArm \/ WriterWake \/ WriterError
  BY <1>14 DEF WriterStart, WriterLoop, WriterArm, WriterWake, WriterError,
      Close
<1>15. CASE KernelReadError \/ KernelWriteError
  BY <1>15 DEF KernelReadError, KernelWriteError
<1>16. CASE PeerCloses
  BY <1>16 DEF PeerCloses
<1>17. ASSUME NEW c \in Callers, CallSend(c) PROVE TypeOK'
  BY <1>17, EnqueueFacts DEF CallSend
<1>18. ASSUME NEW c \in Callers, CallCancel(c) PROVE TypeOK'
  BY <1>18 DEF CallCancel, CancelOne
<1>19. CASE UNCHANGED vars
  BY <1>19 DEF vars
<1>20. QED
  BY <1>1, <1>2, <1>3, <1>4, <1>5, <1>6, <1>7, <1>8, <1>9, <1>10, <1>11,
      <1>12, <1>13, <1>14, <1>15, <1>16, <1>17, <1>18, <1>19 DEF Next, Setup, Reader,
      Writer, Kernel

(* Every step keeps the bound on chunks.                                   *)
LEMMA ChunkStep == Inv /\ [Next]_vars => ChunkBound'
<1> SUFFICES ASSUME Inv, [Next]_vars PROVE ChunkBound'
  OBVIOUS
<1> USE MaxPacketsAssumption, MaxChunksAssumption DEF Inv, TypeOK,
      ChunkBound, One, sending, socket, network, reports
<1>1. CASE ReaderData
  BY <1>1 DEF ReaderData
<1>2. CASE KernelRead
  BY <1>2 DEF KernelRead
<1>3. CASE PeerSends
  BY <1>3 DEF PeerSends
<1>4. CASE SetupAccept \/ SetupRefuse \/ SetupSend \/ Listen
  BY <1>4 DEF SetupAccept, SetupRefuse, SetupSend, Listen, Enqueue,
      CancelOne
<1>5. CASE ReaderStart \/ ReaderLoop \/ ReaderReply \/ ReaderReplyCancel \/
      ReaderAccept \/ ReaderReject \/ ReaderError
  BY <1>5 DEF ReaderStart, ReaderLoop, ReaderReply, ReaderReplyCancel,
      ReaderAccept, ReaderReject, ReaderError, Enqueue, CancelOne,
      ReaderFail, Close
<1>6. CASE WriterStart \/ WriterLoop \/ WriterArm \/ WriterWake \/ WriterPop \/
      WriterError
  BY <1>6 DEF WriterStart, WriterLoop, WriterArm, WriterWake, WriterPop,
      WriterError, Close
<1>7. CASE KernelReadError \/ KernelWrite \/ KernelWriteError
  BY <1>7 DEF KernelReadError, KernelWrite, KernelWriteError
<1>8. CASE PeerCloses
  BY <1>8 DEF PeerCloses
<1>9. ASSUME NEW c \in Callers, CallSend(c) PROVE ChunkBound'
  BY <1>9 DEF CallSend, Enqueue
<1>10. ASSUME NEW c \in Callers, CallCancel(c) PROVE ChunkBound'
  BY <1>10 DEF CallCancel, CancelOne
<1>11. CASE UNCHANGED vars
  BY <1>11 DEF vars
<1>12. QED
  BY <1>1, <1>2, <1>3, <1>4, <1>5, <1>6, <1>7, <1>8, <1>9, <1>10, <1>11 DEF Next, Setup, Reader,
      Writer, Kernel

(* Every step keeps operations with their coroutines.                      *)
LEMMA OpsStep == Inv /\ [Next]_vars => OpsOwned'
<1> SUFFICES ASSUME Inv, [Next]_vars PROVE OpsOwned'
  OBVIOUS
<1> USE MaxPacketsAssumption, MaxChunksAssumption DEF Inv, TypeOK, OpsOwned,
      LinkInv, sending, socket, network, reports
<1>1. CASE SetupSend
  BY <1>1, EnqueueFacts DEF SetupSend
<1>2. CASE ReaderLoop
  BY <1>2 DEF ReaderLoop
<1>3. CASE ReaderReply
  BY <1>3, EnqueueFacts DEF ReaderReply
<1>4. CASE ReaderReject
  BY <1>4 DEF ReaderReject, ReaderFail, Close
<1>5. CASE ReaderError
  BY <1>5 DEF ReaderError, ReaderFail, Close
<1>6. CASE WriterLoop
  BY <1>6 DEF WriterLoop
<1>7. CASE WriterPop
  BY <1>7 DEF WriterPop
<1>8. CASE WriterError
  BY <1>8 DEF WriterError, Close
<1>9. CASE SetupAccept \/ SetupRefuse \/ Listen
  BY <1>9 DEF SetupAccept, SetupRefuse, Listen
<1>10. CASE ReaderStart \/ ReaderData \/ ReaderReplyCancel \/ ReaderAccept
  BY <1>10 DEF ReaderStart, ReaderData, ReaderReplyCancel, ReaderAccept,
      CancelOne
<1>11. CASE WriterStart \/ WriterArm \/ WriterWake
  BY <1>11 DEF WriterStart, WriterArm, WriterWake
<1>12. CASE KernelRead \/ KernelReadError \/ KernelWrite \/ KernelWriteError
  BY <1>12 DEF KernelRead, KernelReadError, KernelWrite, KernelWriteError
<1>13. CASE PeerSends \/ PeerCloses
  BY <1>13 DEF PeerSends, PeerCloses
<1>14. ASSUME NEW c \in Callers, CallSend(c) PROVE OpsOwned'
  BY <1>14, EnqueueFacts DEF CallSend
<1>15. ASSUME NEW c \in Callers, CallCancel(c) PROVE OpsOwned'
  BY <1>15 DEF CallCancel, CancelOne
<1>16. CASE UNCHANGED vars
  BY <1>16 DEF vars
<1>17. QED
  BY <1>1, <1>2, <1>3, <1>4, <1>5, <1>6, <1>7, <1>8, <1>9, <1>10, <1>11,
      <1>12, <1>13, <1>14, <1>15, <1>16 DEF Next, Setup, Reader,
      Writer, Kernel

(* Every step keeps the reports in step with the coroutines.               *)
LEMMA LinkStep == Inv /\ [Next]_vars => LinkInv'
<1> SUFFICES ASSUME Inv, [Next]_vars PROVE LinkInv'
  OBVIOUS
<1> USE MaxPacketsAssumption, MaxChunksAssumption DEF Inv, TypeOK, OpsOwned,
      LinkInv, sending, socket, network, reports
<1>1. CASE SetupAccept
  BY <1>1, ReportFacts DEF SetupAccept
<1>2. CASE SetupRefuse
  BY <1>2, ReportFacts DEF SetupRefuse
<1>3. CASE ReaderLoop
  BY <1>3 DEF ReaderLoop
<1>4. CASE ReaderReject
  BY <1>4, ReportFacts DEF ReaderReject, ReaderFail, Close
<1>5. CASE ReaderError
  BY <1>5, ReportFacts DEF ReaderError, ReaderFail, Close
<1>6. CASE SetupSend \/ Listen
  BY <1>6 DEF SetupSend, Listen, Enqueue, CancelOne
<1>7. CASE ReaderStart \/ ReaderData \/ ReaderReply \/ ReaderReplyCancel \/
      ReaderAccept
  BY <1>7 DEF ReaderStart, ReaderData, ReaderReply, ReaderReplyCancel,
      ReaderAccept, Enqueue, CancelOne
<1>8. CASE WriterStart \/ WriterLoop \/ WriterArm \/ WriterWake \/ WriterPop \/
      WriterError
  BY <1>8 DEF WriterStart, WriterLoop, WriterArm, WriterWake, WriterPop,
      WriterError, Close
<1>9. CASE KernelRead \/ KernelReadError \/ KernelWrite \/ KernelWriteError
  BY <1>9 DEF KernelRead, KernelReadError, KernelWrite, KernelWriteError
<1>10. CASE PeerSends \/ PeerCloses
  BY <1>10 DEF PeerSends, PeerCloses
<1>11. ASSUME NEW c \in Callers, CallSend(c) PROVE LinkInv'
  BY <1>11 DEF CallSend, Enqueue
<1>12. ASSUME NEW c \in Callers, CallCancel(c) PROVE LinkInv'
  BY <1>12 DEF CallCancel, CancelOne
<1>13. CASE UNCHANGED vars
  BY <1>13 DEF vars
<1>14. QED
  BY <1>1, <1>2, <1>3, <1>4, <1>5, <1>6, <1>7, <1>8, <1>9, <1>10, <1>11,
      <1>12, <1>13 DEF Next, Setup, Reader,
      Writer, Kernel

(* Every step keeps the packets in order and accounted for.                *)
LEMMA OrderStep == Inv /\ [Next]_vars => PacketsInOrder'
<1> SUFFICES ASSUME Inv, [Next]_vars PROVE PacketsInOrder'
  OBVIOUS
<1> USE MaxPacketsAssumption, MaxChunksAssumption DEF Inv, TypeOK, OpsOwned,
      LinkInv, PacketsInOrder, Taken, One, sending, socket, network, reports
<1>1. CASE SetupSend
  BY <1>1, EnqueueFacts DEF SetupSend
<1>2. CASE ReaderReply
  BY <1>2, EnqueueFacts DEF ReaderReply
<1>3. CASE ReaderReject
  BY <1>3 DEF ReaderReject, ReaderFail, Close
<1>4. CASE ReaderError
  BY <1>4 DEF ReaderError, ReaderFail, Close
<1>5. CASE WriterLoop
  BY <1>5 DEF WriterLoop
<1>6. CASE WriterPop
  BY <1>6 DEF WriterPop
<1>7. CASE WriterError
  BY <1>7 DEF WriterError, Close
<1>8. CASE KernelWrite
  BY <1>8 DEF KernelWrite
<1>9. CASE KernelWriteError
  BY <1>9 DEF KernelWriteError
<1>10. CASE SetupAccept \/ SetupRefuse \/ Listen
  BY <1>10 DEF SetupAccept, SetupRefuse, Listen
<1>11. CASE ReaderStart \/ ReaderLoop \/ ReaderData \/ ReaderReplyCancel \/
      ReaderAccept
  BY <1>11 DEF ReaderStart, ReaderLoop, ReaderData, ReaderReplyCancel,
      ReaderAccept, CancelOne
<1>12. CASE WriterStart \/ WriterArm \/ WriterWake
  BY <1>12 DEF WriterStart, WriterArm, WriterWake
<1>13. CASE KernelRead \/ KernelReadError
  BY <1>13 DEF KernelRead, KernelReadError
<1>14. CASE PeerSends \/ PeerCloses
  BY <1>14 DEF PeerSends, PeerCloses
<1>15. ASSUME NEW c \in Callers, CallSend(c) PROVE PacketsInOrder'
  BY <1>15, EnqueueFacts DEF CallSend
<1>16. ASSUME NEW c \in Callers, CallCancel(c) PROVE PacketsInOrder'
  BY <1>16 DEF CallCancel, CancelOne
<1>17. CASE UNCHANGED vars
  BY <1>17 DEF vars
<1>18. QED
  BY <1>1, <1>2, <1>3, <1>4, <1>5, <1>6, <1>7, <1>8, <1>9, <1>10, <1>11,
      <1>12, <1>13, <1>14, <1>15, <1>16, <1>17 DEF Next, Setup, Reader,
      Writer, Kernel

(* Inv is inductive, and so holds of every reachable state.                *)
THEOREM Invariance == Spec => []Inv
<1>1. Inv /\ [Next]_vars => Inv'
  BY TypeStep, ChunkStep, OpsStep, LinkStep, OrderStep DEF Inv
<1>2. QED
  BY InitInv, <1>1, PTL DEF Spec

(* Every variable of the connection keeps its type.                        *)
THEOREM TypeCorrect == Spec => []TypeOK
<1>1. Inv => TypeOK
  BY DEF Inv
<1>2. QED
  BY Invariance, <1>1, PTL

(* send() and do_write neither lose nor repeat nor reorder a packet,       *)
(* however many threads and callers there are.                             *)
THEOREM PacketsStayInOrder == Spec => []PacketsInOrder
<1>1. Inv => PacketsInOrder
  BY DEF Inv
<1>2. QED
  BY Invariance, <1>1, PTL

-----------------------------------------------------------------------------

(* Every step is a step of the contract, or one it does not see.           *)
LEMMA ContractStep == Inv /\ [Next]_vars => [Contract!Next]_(Contract!vars)
<1> SUFFICES ASSUME Inv, [Next]_vars PROVE [Contract!Next]_(Contract!vars)
  OBVIOUS
<1> USE DEF Contract!Next, Contract!vars, Inv, TypeOK, OpsOwned,
      LinkInv, sending, socket, network, reports
<1>1. CASE SetupAccept
  BY <1>1 DEF SetupAccept, Contract!Establish, Contract!Up, Up
<1>2. CASE SetupRefuse
  BY <1>2 DEF SetupRefuse, Contract!Refuse, Contract!Failed, Failed
<1>3. CASE SetupSend
  BY <1>3 DEF SetupSend, Enqueue, Contract!Send
<1>4. CASE ReaderReply
  BY <1>4 DEF ReaderReply, Enqueue, Contract!Send
<1>5. CASE ReaderReject
  BY <1>5 DEF ReaderReject, ReaderFail, Close, Contract!Lose, Contract!Up,
      Contract!Down, Up, Down
<1>6. CASE ReaderError
  BY <1>6 DEF ReaderError, ReaderFail, Close, Contract!Lose, Contract!Up,
      Contract!Down, Up, Down
<1>7. CASE WriterError
  BY <1>7 DEF WriterError, Close, Contract!Drop, Contract!Up, Up
<1>8. CASE KernelWrite
  <2>1. queue # << >> /\ Head(queue) = queue[1] /\ 1 \in 1..Len(queue)
    BY <1>8 DEF KernelWrite
  <2>2. Taken = Len(wire) /\ Len(wire) \in Nat
    BY <1>8 DEF KernelWrite, Taken, One
  <2>3. Head(queue) = Len(wire) + 1 /\ Len(wire) < accepted
    BY <2>1, <2>2 DEF PacketsInOrder
  <2>4. open /\ link = <<Up>>
    BY <1>8 DEF KernelWrite
  <2>5. QED
    BY <1>8, <2>3, <2>4 DEF KernelWrite, Contract!Deliver, Contract!Up, Up
<1>9. CASE Listen
  BY <1>9 DEF Listen
<1>10. CASE ReaderStart \/ ReaderLoop \/ ReaderReplyCancel \/
      ReaderAccept
  BY <1>10 DEF ReaderStart, ReaderLoop, ReaderReplyCancel,
      ReaderAccept, CancelOne
<1>11. CASE WriterStart \/ WriterLoop \/ WriterArm \/ WriterWake \/ WriterPop
  BY <1>11 DEF WriterStart, WriterLoop, WriterArm, WriterWake, WriterPop
<1>12. CASE KernelRead \/ KernelReadError \/ KernelWriteError
  BY <1>12 DEF KernelRead, KernelReadError, KernelWriteError
<1>13. CASE PeerSends \/ PeerCloses
  BY <1>13 DEF PeerSends, PeerCloses
<1>14. ASSUME NEW c \in Callers, CallSend(c) PROVE [Contract!Next]_(Contract!vars)
  BY <1>14 DEF CallSend, Enqueue, Contract!Send
<1>15. ASSUME NEW c \in Callers, CallCancel(c) PROVE [Contract!Next]_(Contract!vars)
  BY <1>15 DEF CallCancel, CancelOne
<1>16. CASE UNCHANGED vars
  BY <1>16 DEF vars
<1>17. CASE ReaderData
  BY <1>17 DEF ReaderData, Contract!Hear, Contract!Up, Up
<1>18. QED
  BY <1>1, <1>2, <1>3, <1>4, <1>5, <1>6, <1>7, <1>8, <1>9, <1>10, <1>11,
      <1>12, <1>13, <1>14, <1>15, <1>16, <1>17 DEF Next, Setup, Reader,
      Writer, Kernel

(* A connection keeps its contract, for any callers, threads and bounds.   *)
THEOREM ImplementsContract == Spec => ContractSpec
<1>1. Init => Contract!Init
  BY DEF Init, Contract!Init
<1>2. QED
  BY Invariance, ContractStep, <1>1, PTL DEF Spec, ContractSpec, Contract!Spec

-----------------------------------------------------------------------------
(* With one io_context thread and every send() on it, no other segment     *)
(* runs between empty() and async_wait: the queue is still empty when the  *)
(* timer is armed, and the timer has a waiter exactly while do_write waits.*)
IoInv ==
    /\ Busy <= 1
    /\ writer = "arm" => queue = << >>
    /\ timer # "idle" <=> writer = "waiting"
    /\ writer = "waiting" /\ queue # << >> => timer = "cancelled" \/ reader = "reply"

(* Every step of such a connection keeps it.                               *)
LEMMA IoStep ==
  ASSUME Callers = {}, Threads = 1, Inv, IoInv, [Next]_vars
  PROVE  IoInv'
<1> USE DEF Inv, TypeOK, OpsOwned,
      LinkInv, IoInv, Busy, One, ThreadFree, sending, socket, network,
      reports
<1>1. CASE SetupSend
  BY <1>1 DEF SetupSend, Enqueue, CancelOne
<1>2. CASE ReaderLoop
  BY <1>2 DEF ReaderLoop
<1>3. CASE ReaderReply
  BY <1>3 DEF ReaderReply, Enqueue
<1>4. CASE ReaderReplyCancel
  BY <1>4 DEF ReaderReplyCancel, CancelOne
<1>5. CASE WriterLoop
  BY <1>5 DEF WriterLoop
<1>6. CASE WriterArm
  BY <1>6 DEF WriterArm
<1>7. CASE WriterWake
  BY <1>7 DEF WriterWake
<1>8. CASE WriterPop
  BY <1>8 DEF WriterPop
<1>9. CASE SetupAccept \/ SetupRefuse \/ Listen
  BY <1>9 DEF SetupAccept, SetupRefuse, Listen
<1>10. CASE ReaderStart \/ ReaderData \/ ReaderAccept \/ ReaderReject \/ ReaderError
  BY <1>10 DEF ReaderStart, ReaderData, ReaderAccept, ReaderReject,
      ReaderError, ReaderFail, Close
<1>11. CASE WriterStart \/ WriterError
  BY <1>11 DEF WriterStart, WriterError, Close
<1>12. CASE KernelRead \/ KernelReadError \/ KernelWrite \/ KernelWriteError
  BY <1>12 DEF KernelRead, KernelReadError, KernelWrite, KernelWriteError
<1>13. CASE PeerSends \/ PeerCloses
  BY <1>13 DEF PeerSends, PeerCloses
<1>14. ASSUME NEW c \in Callers, CallSend(c) PROVE IoInv'
  BY <1>14 DEF CallSend, Enqueue
<1>15. ASSUME NEW c \in Callers, CallCancel(c) PROVE IoInv'
  BY <1>15 DEF CallCancel, CancelOne
<1>16. CASE UNCHANGED vars
  BY <1>16 DEF vars
<1>17. QED
  BY <1>1, <1>2, <1>3, <1>4, <1>5, <1>6, <1>7, <1>8, <1>9, <1>10, <1>11,
      <1>12, <1>13, <1>14, <1>15, <1>16 DEF Next, Setup, Reader,
      Writer, Kernel

(* No packet is stranded when every send() runs on the one io thread.      *)
THEOREM NoneStrandedOnIoThread ==
  ASSUME Callers = {}, Threads = 1
  PROVE  Spec => []NoStrandedPacket
<1>1. Init => IoInv
  BY DEF Init, IoInv, Busy, One
<1>2. IoInv => NoStrandedPacket
  BY DEF IoInv, NoStrandedPacket
<1>3. Inv /\ IoInv /\ [Next]_vars => IoInv'
  BY IoStep
<1>4. QED
  BY Invariance, <1>1, <1>2, <1>3, PTL DEF Spec
=============================================================================
