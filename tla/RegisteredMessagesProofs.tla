---------------------- MODULE RegisteredMessagesProofs ----------------------
(***************************************************************************)
(* What service_connection promises for messages of every size, cut into   *)
(* reads of every size: requests are taken in order, and none is withheld. *)
(***************************************************************************)
EXTENDS RegisteredMessages, SequenceTheorems, TLAPS

(* What appending to a sequence leaves of it and adds to it.               *)
LEMMA AppendFacts ==
    ASSUME NEW S, NEW s \in Seq(S), NEW e \in S
    PROVE  /\ Append(s, e) \in Seq(S)
           /\ Len(Append(s, e)) = Len(s) + 1
           /\ \A i \in 1..Len(s) : Append(s, e)[i] = s[i]
           /\ Append(s, e)[Len(s) + 1] = e
           /\ Len(s) \in Nat
           /\ DOMAIN s = 1..Len(s) /\ DOMAIN Append(s, e) = 1..(Len(s) + 1)
  BY AppendProperties

LEMMA Sizes ==
    ASSUME NEW side \in Sides, NEW r \in Requests
    PROVE  Length(side, r) \in Nat /\ LengthField \in Nat /\ LengthField > 0
  BY PayloadAssumption DEF Length, Header, LengthField

-----------------------------------------------------------------------------
(***************************************************************************)
(* The streams                                                             *)
(***************************************************************************)

(* Messages lie one behind the other in each stream.                       *)
EndsInOrder ==
    \A side \in Sides :
        /\ \A i, j \in 0..Len(sent[side]) : i < j => End(side, i) < End(side, j)
        /\ \A k \in 1..Len(sent[side]) :
              End(side, k) = End(side, k - 1) + LengthField + Length(side, sent[side][k])

LEMMA EndTypes ==
    ASSUME MessagesTypeOK, NEW side \in Sides
    PROVE  /\ Len(sent[side]) \in Nat /\ Len(ends[side]) = Len(sent[side])
           /\ \A k \in 0..Len(sent[side]) : End(side, k) \in Nat
           /\ \A k \in 1..Len(sent[side]) : sent[side][k] \in Requests
           /\ Written(side) \in Nat
  <1>1. sent[side] \in Seq(Requests) /\ ends[side] \in Seq(Nat) /\ Len(ends[side]) = Len(sent[side])
    BY DEF MessagesTypeOK
  <1>2. /\ Len(sent[side]) \in Nat
        /\ \A k \in 1..Len(sent[side]) : sent[side][k] \in Requests /\ ends[side][k] \in Nat
    BY <1>1, LenProperties, ElementOfSeq
  <1> QED
    BY <1>1, <1>2 DEF End, Written

(* What one more message does to the streams.                              *)
LEMMA SendFacts ==
    ASSUME MessagesTypeOK, NEW side \in Sides, NEW r \in Requests, Send(side, r)
    PROVE  /\ sent' \in [Sides -> Seq(Requests)] /\ ends' \in [Sides -> Seq(Nat)]
           /\ Len(sent'[side]) = Len(sent[side]) + 1 /\ Len(ends'[side]) = Len(sent[side]) + 1
           /\ \A k \in 1..Len(sent[side]) : sent'[side][k] = sent[side][k]
           /\ \A k \in 0..Len(sent[side]) : End(side, k)' = End(side, k)
           /\ sent'[side][Len(sent[side]) + 1] = r
           /\ \A k \in Nat : k = Len(sent[side]) + 1 =>
                  End(side, k)' = Written(side) + LengthField + Length(side, r)
           /\ Written(side)' = Written(side) + LengthField + Length(side, r)
           /\ \A other \in Sides \ {side} : sent'[other] = sent[other] /\ ends'[other] = ends[other]
  <1> DEFINE end == Written(side) + LengthField + Length(side, r)
  <1>1. end \in Nat
    BY EndTypes, Sizes
  <1>2. /\ sent[side] \in Seq(Requests) /\ ends[side] \in Seq(Nat)
        /\ Len(ends[side]) = Len(sent[side])
    BY DEF MessagesTypeOK
  <1>3. sent'[side] = Append(sent[side], r) /\ ends'[side] = Append(ends[side], end)
    BY DEF Send, MessagesTypeOK
  <1>4. \A other \in Sides \ {side} : sent'[other] = sent[other] /\ ends'[other] = ends[other]
    BY DEF Send, MessagesTypeOK
  <1> HIDE DEF end
  <1>5. /\ Append(sent[side], r) \in Seq(Requests)
        /\ Len(Append(sent[side], r)) = Len(sent[side]) + 1
        /\ \A k \in 1..Len(sent[side]) : Append(sent[side], r)[k] = sent[side][k]
        /\ Append(sent[side], r)[Len(sent[side]) + 1] = r
        /\ Len(sent[side]) \in Nat
    BY <1>2, AppendFacts
  <1>6. /\ Append(ends[side], end) \in Seq(Nat)
        /\ Len(Append(ends[side], end)) = Len(sent[side]) + 1
        /\ \A k \in 1..Len(sent[side]) : Append(ends[side], end)[k] = ends[side][k]
        /\ Append(ends[side], end)[Len(sent[side]) + 1] = end
    BY <1>1, <1>2, AppendFacts
  <1>7. sent' \in [Sides -> Seq(Requests)] /\ ends' \in [Sides -> Seq(Nat)]
    BY <1>1, <1>3, <1>5, <1>6 DEF Send, MessagesTypeOK, end
  <1>8. /\ \A k \in 0..Len(sent[side]) : End(side, k)' = End(side, k)
        /\ \A k \in Nat : k = Len(sent[side]) + 1 => End(side, k)' = end
    BY <1>3, <1>5, <1>6 DEF End
  <1>9. Written(side)' = end
    BY <1>3, <1>5, <1>6 DEF Written, End
  <1> QED
    BY <1>3, <1>4, <1>5, <1>6, <1>7, <1>8, <1>9 DEF end

-----------------------------------------------------------------------------
(***************************************************************************)
(* Types                                                                   *)
(***************************************************************************)

LEMMA SendTypes ==
    ASSUME MessagesTypeOK, NEW side \in Sides, NEW r \in Requests, Send(side, r)
    PROVE  MessagesTypeOK'
  <1>1. \A s \in Sides : /\ Len(ends[s])' = Len(sent[s])'
                         /\ start[s]' <= read[s]' /\ read[s]' <= Written(s)'
    <2> SUFFICES ASSUME NEW s \in Sides
                 PROVE  /\ Len(ends[s])' = Len(sent[s])'
                        /\ start[s]' <= read[s]' /\ read[s]' <= Written(s)'
      OBVIOUS
    <2>1. start'[s] = start[s] /\ read'[s] = read[s]
      BY DEF Send
    <2>2. CASE s = side
      <3>1. /\ start[side] \in Nat /\ read[side] \in Nat /\ Written(side) \in Nat
            /\ start[side] <= read[side] /\ read[side] <= Written(side)
        BY EndTypes DEF MessagesTypeOK
      <3>2. Length(side, r) \in Nat /\ LengthField \in Nat
        BY Sizes
      <3>3. /\ Len(sent'[side]) = Len(ends'[side])
            /\ Written(side)' = Written(side) + LengthField + Length(side, r)
        BY SendFacts
      <3> QED
        BY <2>1, <2>2, <3>1, <3>2, <3>3
    <2>3. CASE s # side
      <3>1. sent'[s] = sent[s] /\ ends'[s] = ends[s]
        BY <2>3, SendFacts
      <3>2. Written(s)' = Written(s)
        BY <3>1 DEF Written, End
      <3> QED
        BY <2>1, <3>1, <3>2 DEF MessagesTypeOK
    <2> QED
      BY <2>2, <2>3
  <1>2. sent' \in [Sides -> Seq(Requests)] /\ ends' \in [Sides -> Seq(Nat)]
    BY SendFacts
  <1>3. UNCHANGED <<start, read, got, open>>
    BY DEF Send
  <1> QED
    BY <1>1, <1>2, <1>3 DEF MessagesTypeOK

(* A read moves read, and start with it or not at all.                     *)
LEMMA ReadTypes ==
    ASSUME MessagesTypeOK, NEW side \in Sides, NEW to \in Arrived(side),
           read' = [read EXCEPT ![side] = to],
           start' \in {start, [start EXCEPT ![side] = to]},
           got' \in [Sides -> Seq(Requests)], open' \in [Sides -> BOOLEAN], UNCHANGED <<sent, ends>>
    PROVE  MessagesTypeOK'
  <1>1. to \in Nat /\ read[side] < to /\ to <= Written(side)
    BY ReadSizeAssumption DEF Arrived, MessagesTypeOK
  <1>2. start' \in [Sides -> Nat] /\ read' \in [Sides -> Nat]
    BY <1>1 DEF MessagesTypeOK
  <1>3. \A s \in Sides : /\ start'[s] <= read'[s] /\ read'[s] <= Written(s)
    BY <1>1 DEF MessagesTypeOK
  <1>4. \A s \in Sides : Written(s)' = Written(s)
    BY DEF Written, End
  <1> QED
    BY <1>2, <1>3, <1>4 DEF MessagesTypeOK

LEMMA TypeStep == MessagesTypeOK /\ [Next]_vars => MessagesTypeOK'
  <1> SUFFICES ASSUME MessagesTypeOK, [Next]_vars PROVE MessagesTypeOK'
    OBVIOUS
  <1>1. ASSUME NEW r \in Requests, SendRegistered(r) \/ SendAnswer(r) PROVE MessagesTypeOK'
    BY <1>1, SendTypes DEF SendRegistered, SendAnswer, Sides
  <1>2. ASSUME NEW side \in Sides, ReadPart(side) PROVE MessagesTypeOK'
    BY <1>2, ReadTypes DEF ReadPart, MessagesTypeOK
  <1>3. ASSUME NEW side \in Sides, Take(side) PROVE MessagesTypeOK'
    <2>1. PICK to \in Arrived(side), k \in 1..Len(sent[side]) :
              /\ read' = [read EXCEPT ![side] = to]
              /\ start' = [start EXCEPT ![side] = to]
              /\ got' = [got EXCEPT ![side] = Append(@, sent[side][k])]
      BY <1>3 DEF Take
    <2>2. Append(got[side], sent[side][k]) \in Seq(Requests)
      BY EndTypes, AppendFacts DEF MessagesTypeOK
    <2>3. got' \in [Sides -> Seq(Requests)] /\ open' \in [Sides -> BOOLEAN] /\ UNCHANGED <<sent, ends>>
      BY <1>3, <2>1, <2>2 DEF MessagesTypeOK, Take, Handled
    <2> QED
      BY <2>1, <2>3, ReadTypes
  <1>4. ASSUME NEW side \in Sides, Reject(side) PROVE MessagesTypeOK'
    BY <1>4, ReadTypes DEF Reject, MessagesTypeOK
  <1>5. CASE UNCHANGED vars
    BY <1>5 DEF vars, MessagesTypeOK, Written, End
  <1>6. ASSUME NEW side \in Sides, NoticeClose(side) PROVE MessagesTypeOK'
    BY <1>6 DEF NoticeClose, MessagesTypeOK, Written, End
  <1> QED
    BY <1>1, <1>2, <1>3, <1>4, <1>5, <1>6 DEF Next, OnData

(* MessagesTypeOK: no side ever reads what was not written.                        *)
THEOREM TypeCorrect == Spec => []MessagesTypeOK
  <1>1. Init => MessagesTypeOK
    BY EmptySeq DEF Init, MessagesTypeOK, Written, End
  <1> QED
    BY <1>1, TypeStep, PTL DEF Spec

-----------------------------------------------------------------------------
(***************************************************************************)
(* The server                                                              *)
(***************************************************************************)

(* How many requests the server has taken.                                 *)
Taken == Len(got["server"])

(* While the server is connected input_stream_ begins where the last       *)
(* request taken ends, and ends inside the next.                           *)
BufferInsideNext ==
    open["server"] =>
            /\ start["server"] = End("server", Taken)
            /\ Taken < Len(sent["server"]) => read["server"] < End("server", Taken + 1)

ServerInv == EndsInOrder /\ ServerTakesInOrder /\ BufferInsideNext

LEMMA SendInv ==
    ASSUME MessagesTypeOK, ServerInv, NEW side \in Sides, NEW r \in Requests, Send(side, r)
    PROVE  ServerInv'
  <1> DEFINE n == Len(sent[side])
             end == Written(side) + LengthField + Length(side, r)
  <1>1. n \in Nat /\ Written(side) = End(side, n)
    BY EndTypes DEF Written
  <1>2. /\ \A k \in 0..n : End(side, k)' = End(side, k)
        /\ \A k \in Nat : k = n + 1 => End(side, k)' = end
        /\ Len(sent'[side]) = n + 1
        /\ \A k \in 1..n : sent'[side][k] = sent[side][k]
        /\ sent'[side][n + 1] = r
        /\ \A other \in Sides \ {side} : sent'[other] = sent[other] /\ ends'[other] = ends[other]
    BY SendFacts
  <1>3. /\ \A k \in 0..n : End(side, k) \in Nat /\ End(side, k) <= Written(side)
        /\ end > Written(side) /\ end \in Nat
    <2>1. \A k \in 0..n : End(side, k) \in Nat /\ Written(side) \in Nat
      BY EndTypes
    <2>2. \A k \in 0..n : k < n => End(side, k) < End(side, n)
      BY <1>1 DEF ServerInv, EndsInOrder
    <2>3. \A k \in 0..n : End(side, k) <= Written(side)
      BY <1>1, <2>1, <2>2
    <2> QED
      BY <2>1, <2>3, Sizes
  <1>4. EndsInOrder'
    <2> SUFFICES ASSUME NEW s \in Sides
                 PROVE /\ \A i, j \in 0..Len(sent'[s]) : i < j => End(s, i)' < End(s, j)'
                       /\ \A k \in 1..Len(sent'[s]) :
                             End(s, k)' = End(s, k - 1)' + LengthField + Length(s, sent'[s][k])
      BY DEF EndsInOrder, Length
    <2>1. CASE s # side
      BY <1>2, <2>1 DEF ServerInv, EndsInOrder, End
    <2>2. CASE s = side
      <3> HIDE DEF n, end
      <3>1. ASSUME NEW i \in 0..(n + 1), NEW j \in 0..(n + 1), i < j
            PROVE  End(side, i)' < End(side, j)'
        <4>1. i \in 0..n /\ (j \in 0..n \/ j = n + 1)
          BY <1>1, <3>1
        <4>2. CASE j \in 0..n
          BY <1>2, <3>1, <4>1, <4>2 DEF ServerInv, EndsInOrder, n
        <4>3. CASE j = n + 1
          BY <1>1, <1>2, <1>3, <4>1, <4>3
        <4> QED
          BY <4>1, <4>2, <4>3
      <3>2. ASSUME NEW k \in 1..(n + 1)
            PROVE  End(side, k)' = End(side, k - 1)' + LengthField + Length(side, sent'[side][k])
        <4>1. k - 1 \in 0..n /\ (k \in 1..n \/ k = n + 1)
          BY <1>1, <3>2
        <4>2. CASE k \in 1..n
          BY <1>2, <4>1, <4>2 DEF ServerInv, EndsInOrder, n
        <4>3. CASE k = n + 1
          BY <1>1, <1>2, <4>1, <4>3 DEF end
        <4> QED
          BY <4>1, <4>2, <4>3
      <3> QED
        BY <1>2, <2>2, <3>1, <3>2
    <2> QED
      BY <2>1, <2>2
  <1>5. UNCHANGED <<got, start, read, open>> /\ Taken' = Taken
    BY DEF Send, Taken
  <1>6. Taken \in Nat /\ Taken <= Len(sent["server"])
    BY LenProperties DEF Taken, MessagesTypeOK, ServerInv, ServerTakesInOrder, Sides
  <1>7. CASE side = "client"
    <2>1. sent'["server"] = sent["server"] /\ ends'["server"] = ends["server"]
      BY <1>2, <1>7 DEF Sides
    <2> QED
      BY <1>4, <1>5, <2>1 DEF ServerInv, ServerTakesInOrder, BufferInsideNext, End, Taken
  <1>8. CASE side = "server"
    <2>1. ServerTakesInOrder'
      <3>1. DOMAIN got["server"] = 1..Taken
        BY LenProperties DEF Taken, MessagesTypeOK, Sides
      <3>2. \A k \in 1..Taken : got["server"][k] = sent'["server"][k]
        BY <1>1, <1>2, <1>6, <1>8, <3>1 DEF ServerInv, ServerTakesInOrder
      <3> QED
        BY <1>1, <1>2, <1>5, <1>6, <1>8, <3>1, <3>2 DEF ServerTakesInOrder, Taken
    <2>2. BufferInsideNext'
      <3> SUFFICES ASSUME open["server"]
                   PROVE /\ start["server"] = End("server", Taken)'
                         /\ read["server"] < End("server", Taken + 1)'
        BY <1>5 DEF BufferInsideNext
      <3>1. End("server", Taken)' = End("server", Taken)
        BY <1>2, <1>5, <1>6, <1>8
      <3>2. start["server"] = End("server", Taken)
        BY DEF ServerInv, BufferInsideNext
      <3>3. CASE Taken < n
        <4>1. Taken + 1 \in 0..n
          BY <1>1, <1>6, <3>3
        <4>2. End("server", Taken + 1)' = End("server", Taken + 1)
          BY <1>2, <1>5, <1>8, <4>1
        <4> QED
          BY <1>8, <3>1, <3>2, <3>3, <4>2 DEF ServerInv, BufferInsideNext
      <3>4. CASE Taken = n
        <4>1. End("server", Taken + 1)' = end
          BY <1>1, <1>2, <1>5, <1>8, <3>4
        <4>2. read["server"] \in Nat /\ read["server"] <= Written("server")
          BY DEF MessagesTypeOK, Sides
        <4> QED
          BY <1>1, <1>3, <1>8, <3>1, <3>2, <4>1, <4>2
      <3> QED
        BY <1>1, <1>6, <1>8, <3>1, <3>2, <3>3, <3>4
    <2> QED
      BY <1>4, <2>1, <2>2 DEF ServerInv
  <1> QED
    BY <1>7, <1>8 DEF Sides

(* The request the buffer of the server begins with.                       *)
LEMMA NextRequest ==
    ASSUME MessagesTypeOK, ServerInv, open["server"], NEW to \in Arrived("server")
    PROVE  /\ Taken \in Nat /\ Taken < Len(sent["server"]) /\ to \in Nat
           /\ \A k \in 1..Len(sent["server"]) : BeginsAt("server", k) <=> k = Taken + 1
           /\ End("server", Taken + 1) =
                  start["server"] + LengthField + Length("server", sent["server"][Taken + 1])
  <1>1. Taken \in Nat /\ Taken <= Len(sent["server"]) /\ Len(sent["server"]) \in Nat
    BY LenProperties DEF Taken, MessagesTypeOK, ServerInv, ServerTakesInOrder, Sides
  <1>2. /\ to \in Nat /\ read["server"] < to /\ to <= Written("server")
        /\ start["server"] \in Nat /\ read["server"] \in Nat /\ start["server"] <= read["server"]
        /\ Written("server") \in Nat
    BY ReadSizeAssumption, EndTypes DEF Arrived, MessagesTypeOK, Sides
  <1>3. start["server"] = End("server", Taken)
    BY DEF ServerInv, BufferInsideNext
  <1>4. Taken < Len(sent["server"])
    BY <1>1, <1>2, <1>3 DEF Written
  <1>5. ASSUME NEW k \in 1..Len(sent["server"])
        PROVE  BeginsAt("server", k) <=> k = Taken + 1
    <2>1. k - 1 \in 0..Len(sent["server"]) /\ Taken \in 0..Len(sent["server"])
      BY <1>1, <1>5
    <2>2. End("server", k - 1) = End("server", Taken) <=> k - 1 = Taken
      <3>1. End("server", k - 1) \in Nat /\ End("server", Taken) \in Nat
        BY <2>1, EndTypes DEF Sides
      <3>2. /\ k - 1 < Taken => End("server", k - 1) < End("server", Taken)
            /\ Taken < k - 1 => End("server", Taken) < End("server", k - 1)
        BY <2>1 DEF ServerInv, EndsInOrder, Sides
      <3> QED
        BY <1>1, <2>1, <3>1, <3>2
    <2>3. BeginsAt("server", k) <=> End("server", k - 1) = End("server", Taken)
      BY <1>3, <1>5 DEF BeginsAt, Begin
    <2> QED
      BY <1>1, <2>2, <2>3
  <1>6. Taken + 1 \in 1..Len(sent["server"]) /\ (Taken + 1) - 1 = Taken
    BY <1>1, <1>4
  <1>7. End("server", Taken + 1) =
            End("server", (Taken + 1) - 1) + LengthField + Length("server", sent["server"][Taken + 1])
    BY <1>6 DEF ServerInv, EndsInOrder, Sides
  <1> QED
    BY <1>1, <1>2, <1>3, <1>4, <1>5, <1>6, <1>7

(* A read that takes nothing leaves all but the buffer of one side.        *)
LEMMA PartInv ==
    ASSUME MessagesTypeOK, ServerInv, NEW side \in Sides, ReadPart(side)
    PROVE  ServerInv'
  <1>1. UNCHANGED <<sent, ends, start, got, open>> /\ open[side]
    BY DEF ReadPart
  <1>2. EndsInOrder' /\ ServerTakesInOrder'
    BY <1>1 DEF ServerInv, EndsInOrder, ServerTakesInOrder, End, Length
  <1>3. PICK to \in Arrived(side) : CannotDecode(side, to) /\ read' = [read EXCEPT ![side] = to]
    BY DEF ReadPart
  <1>4. CASE side = "client"
    <2>1. read'["server"] = read["server"]
      BY <1>3, <1>4 DEF MessagesTypeOK, Sides
    <2> QED
      BY <1>1, <1>2, <2>1 DEF ServerInv, BufferInsideNext, End, Taken
  <1>5. CASE side = "server"
    <2>1. to \in Arrived("server") /\ CannotDecode("server", to) /\ read'["server"] = to
      BY <1>3, <1>5 DEF MessagesTypeOK, Sides
    <2>2. /\ Taken + 1 \in 1..Len(sent["server"])
          /\ BeginsAt("server", Taken + 1)
          /\ \A k \in 1..Len(sent["server"]) : BeginsAt("server", k) => k = Taken + 1
      BY <1>1, <1>5, <2>1, NextRequest, EndTypes DEF Sides
    <2>3. /\ to \in Nat /\ start["server"] \in Nat
          /\ Length("server", sent["server"][Taken + 1]) \in Nat
          /\ LengthField \in Nat
      BY <1>1, <1>5, <2>1, <2>2, NextRequest, EndTypes, Sizes DEF MessagesTypeOK, Sides
    <2>4. \/ to - start["server"] < LengthField
          \/ Length("server", sent["server"][Taken + 1]) > to - start["server"]
      BY <2>1, <2>2 DEF CannotDecode, NoLength, Begin
    <2>5. to < End("server", Taken + 1)
      BY <1>1, <1>5, <2>1, <2>3, <2>4, NextRequest
    <2> QED
      BY <1>1, <1>2, <2>1, <2>5 DEF ServerInv, BufferInsideNext, End, Taken
  <1> QED
    BY <1>4, <1>5 DEF Sides

(* A message taken by the server is the next one, and is all there is.     *)
LEMMA TakeInv ==
    ASSUME MessagesTypeOK, ServerInv, NEW side \in Sides, Take(side)
    PROVE  ServerInv'
  <1>1. /\ UNCHANGED <<sent, ends>> /\ open[side]
        /\ side = "client" => open'["server"] = open["server"]
    BY DEF Take, Handled, MessagesTypeOK, Sides
  <1>2. EndsInOrder'
    BY <1>1 DEF ServerInv, EndsInOrder, End, Length
  <1>3. PICK to \in Arrived(side), k \in 1..Len(sent[side]) :
            /\ Whole(side, k, to)
            /\ read' = [read EXCEPT ![side] = to]
            /\ start' = [start EXCEPT ![side] = to]
            /\ got' = [got EXCEPT ![side] = Append(@, sent[side][k])]
    BY DEF Take
  <1>4. CASE side = "client"
    <2>1. /\ read'["server"] = read["server"] /\ start'["server"] = start["server"]
          /\ got'["server"] = got["server"]
      BY <1>3, <1>4 DEF MessagesTypeOK, Sides
    <2> QED
      BY <1>1, <1>2, <1>4, <2>1 DEF ServerInv, ServerTakesInOrder, BufferInsideNext, End, Taken
  <1>5. CASE side = "server"
    <2>1. /\ to \in Arrived("server") /\ k \in 1..Len(sent["server"]) /\ Whole("server", k, to)
          /\ read'["server"] = to /\ start'["server"] = to
          /\ got'["server"] = Append(got["server"], sent["server"][k])
      BY <1>3, <1>5 DEF MessagesTypeOK, Sides
    <2>2. k = Taken + 1 /\ Taken \in Nat /\ Len(sent["server"]) \in Nat /\ to = End("server", k)
      BY <1>1, <1>5, <2>1, NextRequest, EndTypes DEF Whole, Sides
    <2>3. sent["server"][k] \in Requests /\ got["server"] \in Seq(Requests)
      BY <2>1, EndTypes DEF MessagesTypeOK, Sides
    <2>4. /\ Taken' = Taken + 1
          /\ \A i \in 1..Taken : got'["server"][i] = got["server"][i]
          /\ got'["server"][Taken + 1] = sent["server"][k]
          /\ DOMAIN got["server"] = 1..Taken /\ DOMAIN got'["server"] = 1..(Taken + 1)
      BY <2>1, <2>3, AppendFacts DEF Taken
    <2>5. ServerTakesInOrder'
      <3>1. \A i \in 1..(Taken + 1) : i \in 1..Taken \/ i = Taken + 1
        BY <2>2
      <3>2. \A i \in 1..(Taken + 1) : got'["server"][i] = sent["server"][i]
        BY <2>2, <2>4, <3>1 DEF ServerInv, ServerTakesInOrder
      <3> QED
        BY <1>1, <2>1, <2>2, <2>4, <3>2 DEF ServerTakesInOrder, Taken
    <2>6. \A i \in Nat : End("server", i)' = End("server", i)
      BY <1>1 DEF End
    <2>7. ASSUME Taken + 1 < Len(sent["server"])
          PROVE  to < End("server", Taken + 2)
      <3>1. Taken + 1 \in 0..Len(sent["server"]) /\ Taken + 2 \in 0..Len(sent["server"])
        BY <2>2, <2>7
      <3> QED
        BY <2>2, <3>1 DEF ServerInv, EndsInOrder, Sides
    <2>8. BufferInsideNext'
      <3>1. End("server", Taken)' = to
        BY <2>2, <2>4, <2>6
      <3>2. End("server", Taken + 1)' = End("server", Taken + 2)
        BY <2>2, <2>4, <2>6
      <3> QED
        BY <1>1, <2>1, <2>4, <2>7, <3>1, <3>2 DEF BufferInsideNext
    <2> QED
      BY <1>2, <2>5, <2>8 DEF ServerInv
  <1> QED
    BY <1>4, <1>5 DEF Sides

LEMMA ServerStep == MessagesTypeOK /\ ServerInv /\ [Next]_vars => ServerInv'
  <1> SUFFICES ASSUME MessagesTypeOK, ServerInv, [Next]_vars PROVE ServerInv'
    OBVIOUS
  <1>1. ASSUME NEW r \in Requests, SendRegistered(r) \/ SendAnswer(r) PROVE ServerInv'
    BY <1>1, SendInv DEF SendRegistered, SendAnswer, Sides
  <1>2. ASSUME NEW side \in Sides, ReadPart(side) PROVE ServerInv'
    BY <1>2, PartInv
  <1>3. ASSUME NEW side \in Sides, Take(side) PROVE ServerInv'
    BY <1>3, TakeInv
  <1>4. ASSUME NEW side \in Sides, Reject(side) PROVE ServerInv'
    <2>1. /\ UNCHANGED <<sent, ends, got>>
          /\ side = "server" => ~open'["server"]
          /\ side = "client" => /\ open'["server"] = open["server"]
                                /\ read'["server"] = read["server"]
                                /\ start'["server"] = start["server"]
      BY <1>4 DEF Reject, MessagesTypeOK, Sides
    <2> QED
      BY <2>1 DEF ServerInv, EndsInOrder, ServerTakesInOrder, BufferInsideNext, End, Length, Taken,
                  Sides
  <1>5. ASSUME NEW side \in Sides, NoticeClose(side) PROVE ServerInv'
    <2>1. UNCHANGED <<sent, ends, got, read, start>> /\ (open'["server"] => open["server"])
      BY <1>5 DEF NoticeClose, MessagesTypeOK, Sides
    <2> QED
      BY <2>1 DEF ServerInv, EndsInOrder, ServerTakesInOrder, BufferInsideNext, End, Length, Taken
  <1>6. CASE UNCHANGED vars
    BY <1>6 DEF vars, ServerInv, EndsInOrder, ServerTakesInOrder, BufferInsideNext, End, Length,
                Taken
  <1> QED
    BY <1>1, <1>2, <1>3, <1>4, <1>5, <1>6 DEF Next, OnData

LEMMA ServerSafe == Spec => [](MessagesTypeOK /\ ServerInv)
  <1>1. Init => MessagesTypeOK
    BY EmptySeq DEF Init, MessagesTypeOK, Written, End
  <1>2. Init => ServerInv
    BY EmptySeq DEF Init, ServerInv, EndsInOrder, ServerTakesInOrder, BufferInsideNext, End, Taken,
                    Sides
  <1> QED
    BY <1>1, <1>2, TypeStep, ServerStep, PTL DEF Spec

(* ServerTakesInOrder: can_decode may accept a message before it is whole, *)
(* but the server never hands on a wrong one, or one out of turn.          *)
THEOREM RequestsInOrder == Spec => []ServerTakesInOrder
  BY ServerSafe, PTL DEF ServerInv

(* NothingWithheld: what has arrived whole has been taken.                 *)
THEOREM NoRequestWithheld == Spec => []NothingWithheld
  <1>1. MessagesTypeOK /\ ServerInv => NothingWithheld
    <2> SUFFICES ASSUME MessagesTypeOK, ServerInv, open["server"], NEW k \in DOMAIN ends["server"],
                        ends["server"][k] <= read["server"]
                 PROVE  k \in DOMAIN got["server"]
      BY DEF NothingWithheld
    <2>1. /\ DOMAIN got["server"] = 1..Taken /\ Taken \in Nat /\ Taken <= Len(sent["server"])
          /\ k \in 1..Len(sent["server"]) /\ Len(sent["server"]) \in Nat
          /\ read["server"] \in Nat
      BY LenProperties DEF MessagesTypeOK, ServerInv, ServerTakesInOrder, Taken, Sides
    <2>2. End("server", k) <= read["server"]
      BY <2>1 DEF End
    <2>3. ASSUME k > Taken PROVE FALSE
      <3>1. Taken + 1 \in 0..Len(sent["server"]) /\ k \in 0..Len(sent["server"])
        BY <2>1, <2>3
      <3>2. End("server", Taken + 1) \in Nat /\ End("server", k) \in Nat
        BY <3>1, EndTypes DEF Sides
      <3>3. Taken + 1 < k => End("server", Taken + 1) < End("server", k)
        BY <3>1 DEF ServerInv, EndsInOrder, Sides
      <3>4. read["server"] < End("server", Taken + 1)
        BY <2>1, <2>3 DEF ServerInv, BufferInsideNext
      <3> QED
        BY <2>1, <2>2, <2>3, <3>2, <3>3, <3>4
    <2> QED
      BY <2>1, <2>3
  <1> QED
    BY <1>1, ServerSafe, PTL

-----------------------------------------------------------------------------
(***************************************************************************)
(* The locator                                                             *)
(***************************************************************************)

(* An answer is sent once.                                                 *)
AnswersOnce ==
    \A m, n \in DOMAIN sent["client"] : sent["client"][m] = sent["client"][n] => m = n

(* What the locator has taken lies behind what it has read.                *)
AnswersBehind ==
    \A i \in DOMAIN got["client"] : \E m \in DOMAIN sent["client"] :
        got["client"][i] = sent["client"][m] /\ End("client", m) <= read["client"]

AnswersInv == AnswersOnce /\ AnswersBehind /\ AnswersInOrder

LEMMA WithinFacts ==
    ASSUME NEW s, NEW t, \A i \in DOMAIN s : \E m \in DOMAIN t : s[i] = t[m]
    PROVE  Within(s) \subseteq Within(t)
  BY DEF Within

LEMMA ClientDomains ==
    ASSUME MessagesTypeOK
    PROVE  /\ DOMAIN sent["client"] = 1..Len(sent["client"]) /\ Len(sent["client"]) \in Nat
           /\ DOMAIN got["client"] = 1..Len(got["client"]) /\ Len(got["client"]) \in Nat
           /\ \A i \in DOMAIN got["client"] : got["client"][i] \in Requests
  BY LenProperties, ElementOfSeq DEF MessagesTypeOK, Sides

(* One more answer, to a request that had none, is behind the others.      *)
LEMMA AnswerSentInv ==
    ASSUME MessagesTypeOK, AnswersInv, NEW r \in Requests, SendAnswer(r)
    PROVE  AnswersInv'
  <1> DEFINE n == Len(sent["client"])
  <1>1. /\ n \in Nat /\ DOMAIN sent["client"] = 1..n
        /\ Send("client", r) /\ \A m \in 1..n : sent["client"][m] # r
    BY ClientDomains DEF SendAnswer, Within
  <1>2. /\ sent'["client"] \in Seq(Requests) /\ Len(sent'["client"]) = n + 1
        /\ \A m \in 1..n : sent'["client"][m] = sent["client"][m]
        /\ \A m \in 0..n : End("client", m)' = End("client", m)
        /\ sent'["client"][n + 1] = r
    BY <1>1, SendFacts DEF Sides
  <1>3. DOMAIN sent'["client"] = 1..(n + 1)
    BY <1>2, LenProperties
  <1>4. UNCHANGED <<got, read>>
    BY <1>1 DEF Send
  <1> HIDE DEF n
  <1>5. \A m \in 1..(n + 1) : m \in 1..n \/ m = n + 1
    BY <1>1
  <1>6. AnswersOnce'
    <2>1. \A l, m \in 1..(n + 1) : sent'["client"][l] = sent'["client"][m] => l = m
      BY <1>1, <1>2, <1>5 DEF AnswersInv, AnswersOnce
    <2> QED
      BY <1>3, <2>1 DEF AnswersOnce
  <1>7. AnswersBehind'
    <2> SUFFICES ASSUME NEW i \in DOMAIN got["client"]
                 PROVE  \E m \in 1..(n + 1) : /\ got["client"][i] = sent'["client"][m]
                                              /\ End("client", m)' <= read["client"]
      BY <1>3, <1>4 DEF AnswersBehind
    <2>1. PICK m \in 1..n : got["client"][i] = sent["client"][m] /\ End("client", m) <= read["client"]
      BY <1>1 DEF AnswersInv, AnswersBehind
    <2>2. m \in 1..(n + 1) /\ m \in 0..n
      BY <1>1, <2>1
    <2> QED
      BY <1>2, <2>1, <2>2
  <1>8. AnswersInOrder'
    <2>1. \A i \in DOMAIN got["client"] : \E m \in 1..n : got["client"][i] = sent["client"][m]
      BY <1>1 DEF AnswersInv, AnswersBehind
    <2>2. \A i \in DOMAIN got["client"], m \in 1..(n + 1) :
              got["client"][i] = sent'["client"][m] => m \in 1..n /\ got["client"][i] = sent["client"][m]
      BY <1>1, <1>2, <1>5, <2>1
    <2>3. \A i, j \in DOMAIN got["client"], l, m \in 1..n :
              i < j /\ got["client"][i] = sent["client"][l] /\ got["client"][j] = sent["client"][m]
                  => l < m
      BY <1>1 DEF AnswersInv, AnswersInOrder
    <2>4. \A i, j \in DOMAIN got["client"], l, m \in 1..(n + 1) :
              i < j /\ got["client"][i] = sent'["client"][l] /\ got["client"][j] = sent'["client"][m]
                  => l < m
      BY <2>2, <2>3
    <2>5. Within(got["client"]) \subseteq Within(sent["client"])'
      <3>1. \A i \in DOMAIN got["client"] : \E m \in 1..(n + 1) : got["client"][i] = sent'["client"][m]
        BY <1>1, <1>2, <2>1
      <3> QED
        BY <1>3, <3>1 DEF Within
    <2> QED
      BY <1>3, <1>4, <2>4, <2>5 DEF AnswersInOrder, Within
  <1> QED
    BY <1>6, <1>7, <1>8 DEF AnswersInv

(* What the locator takes begins where it has read to, behind all it has   *)
(* taken before.                                                           *)
LEMMA AnswerTakenInv ==
    ASSUME MessagesTypeOK, EndsInOrder, AnswersInv, Take("client")
    PROVE  AnswersInv'
  <1> DEFINE n == Len(sent["client"])
             taken == Len(got["client"])
  <1>1. /\ n \in Nat /\ DOMAIN sent["client"] = 1..n
        /\ taken \in Nat /\ DOMAIN got["client"] = 1..taken
    BY ClientDomains
  <1>2. PICK to \in Arrived("client"), k \in 1..n :
            /\ Whole("client", k, to)
            /\ read' = [read EXCEPT !["client"] = to]
            /\ got' = [got EXCEPT !["client"] = Append(@, sent["client"][k])]
    BY DEF Take
  <1>3. UNCHANGED <<sent, ends>>
    BY DEF Take
  <1>4. /\ End("client", k - 1) = read["client"] /\ End("client", k) = to
        /\ read'["client"] = to /\ to \in Nat /\ read["client"] \in Nat /\ read["client"] < to
    <2>1. End("client", k - 1) = read["client"] /\ End("client", k) = to
      BY <1>2 DEF Whole, BeginsAt, Begin
    <2>2. read \in [Sides -> Nat] /\ "client" \in Sides
      BY DEF MessagesTypeOK, Sides
    <2>3. read["client"] \in Nat /\ read'["client"] = to
      BY <1>2, <2>2
    <2>4. to \in Nat /\ read["client"] < to
      BY <2>3, ReadSizeAssumption DEF Arrived
    <2> QED
      BY <2>1, <2>3, <2>4
  <1>5. /\ got'["client"] = Append(got["client"], sent["client"][k])
        /\ got["client"] \in Seq(Requests) /\ sent["client"][k] \in Requests
    BY <1>2, EndTypes DEF MessagesTypeOK, Sides
  <1>6. /\ Len(got'["client"]) = taken + 1 /\ DOMAIN got'["client"] = 1..(taken + 1)
        /\ \A i \in 1..taken : got'["client"][i] = got["client"][i]
        /\ got'["client"][taken + 1] = sent["client"][k]
    BY <1>5, AppendFacts
  <1>7. \A m \in 0..n : /\ End("client", m)' = End("client", m) /\ End("client", m) \in Nat
                        /\ End("client", m) <= read["client"] => m < k
    <2>1. \A m \in 0..n : End("client", m)' = End("client", m) /\ End("client", m) \in Nat
      BY <1>3, EndTypes DEF End, Sides
    <2>2. \A m \in 0..n : k < m => End("client", k) < End("client", m)
      BY <1>1, <1>2 DEF EndsInOrder, Sides
    <2> QED
      BY <1>1, <1>2, <1>4, <2>1, <2>2
  <1> HIDE DEF n, taken
  <1>8. \A i \in 1..(taken + 1) : i \in 1..taken \/ i = taken + 1
    BY <1>1
  <1>9. AnswersOnce'
    BY <1>3 DEF AnswersInv, AnswersOnce
  <1>10. AnswersBehind'
    <2> SUFFICES ASSUME NEW i \in 1..(taken + 1)
                 PROVE  \E m \in 1..n : /\ got'["client"][i] = sent["client"][m]
                                        /\ End("client", m)' <= to
      BY <1>1, <1>3, <1>4, <1>6 DEF AnswersBehind
    <2>3. \A m \in 1..n : End("client", m)' = End("client", m) /\ End("client", m) \in Nat
      BY <1>1, <1>7
    <2>1. CASE i = taken + 1
      BY <1>2, <1>4, <1>6, <2>1, <2>3
    <2>2. CASE i \in 1..taken
      <3>1. PICK m \in 1..n : got["client"][i] = sent["client"][m] /\ End("client", m) <= read["client"]
        BY <1>1, <2>2 DEF AnswersInv, AnswersBehind
      <3> QED
        BY <1>4, <1>6, <2>2, <2>3, <3>1
    <2> QED
      BY <1>8, <2>1, <2>2
  <1>11. AnswersInOrder'
    <2>1. \A l, m \in 1..n : sent["client"][l] = sent["client"][m] => l = m
      BY <1>1 DEF AnswersInv, AnswersOnce
    <2>2. ASSUME NEW i \in 1..taken, NEW m \in 1..n, got["client"][i] = sent["client"][m]
          PROVE  m < k
      <3>1. PICK l \in 1..n : got["client"][i] = sent["client"][l] /\ End("client", l) <= read["client"]
        BY <1>1 DEF AnswersInv, AnswersBehind
      <3>2. l = m
        BY <2>1, <2>2, <3>1
      <3>3. l \in 0..n
        BY <1>1
      <3> QED
        BY <1>7, <3>1, <3>2, <3>3
    <2>3. ASSUME NEW i \in 1..(taken + 1), NEW j \in 1..(taken + 1), i < j,
                 NEW l \in 1..n, NEW m \in 1..n,
                 got'["client"][i] = sent["client"][l], got'["client"][j] = sent["client"][m]
          PROVE  l < m
      <3>1. i \in 1..taken /\ got["client"][i] = sent["client"][l]
        BY <1>1, <1>6, <2>3
      <3>2. CASE j = taken + 1
        BY <1>6, <2>1, <2>2, <2>3, <3>1, <3>2
      <3>3. CASE j \in 1..taken
        BY <1>1, <1>6, <2>3, <3>1, <3>3 DEF AnswersInv, AnswersInOrder
      <3> QED
        BY <1>8, <3>2, <3>3
    <2>4. \A i \in 1..(taken + 1) : \E m \in 1..n : got'["client"][i] = sent["client"][m]
      BY <1>1, <1>2, <1>6, <1>8 DEF AnswersInv, AnswersBehind
    <2>5. Within(got'["client"]) \subseteq Within(sent["client"])
      <3>1. \A i \in DOMAIN got'["client"] : \E m \in DOMAIN sent["client"] :
                got'["client"][i] = sent["client"][m]
        BY <1>1, <1>6, <2>4
      <3> QED
        BY <3>1, WithinFacts
    <2>6. \A i, j \in 1..(taken + 1), l, m \in 1..n :
              i < j /\ got'["client"][i] = sent["client"][l] /\ got'["client"][j] = sent["client"][m]
                  => l < m
      BY <2>3
    <2> QED
      BY <1>1, <1>3, <1>6, <2>5, <2>6 DEF AnswersInOrder, Within
  <1> QED
    BY <1>9, <1>10, <1>11 DEF AnswersInv

(* All else leaves the answers sent and taken, and may read on.            *)
LEMMA AnswersKept ==
    ASSUME MessagesTypeOK, MessagesTypeOK', AnswersInv, sent'["client"] = sent["client"],
           ends'["client"] = ends["client"], got'["client"] = got["client"],
           read["client"] <= read'["client"]
    PROVE  AnswersInv'
  <1>1. AnswersOnce' /\ AnswersInOrder'
    BY DEF AnswersInv, AnswersOnce, AnswersInOrder, Within
  <1>2. AnswersBehind'
    <2> SUFFICES ASSUME NEW i \in DOMAIN got["client"]
                 PROVE  \E m \in DOMAIN sent["client"] :
                            got["client"][i] = sent["client"][m] /\ End("client", m)' <= read'["client"]
      BY DEF AnswersBehind
    <2>1. PICK m \in DOMAIN sent["client"] :
              got["client"][i] = sent["client"][m] /\ End("client", m) <= read["client"]
      BY DEF AnswersInv, AnswersBehind
    <2>2. End("client", m)' = End("client", m) /\ End("client", m) \in Nat
      BY EndTypes, ClientDomains DEF End, Sides
    <2>3. read["client"] \in Nat /\ read'["client"] \in Nat
      BY DEF MessagesTypeOK, Sides
    <2> QED
      BY <2>1, <2>2, <2>3
  <1> QED
    BY <1>1, <1>2 DEF AnswersInv

LEMMA AnswersStep ==
    MessagesTypeOK /\ MessagesTypeOK' /\ EndsInOrder /\ AnswersInv /\ [Next]_vars => AnswersInv'
  <1> SUFFICES ASSUME MessagesTypeOK, MessagesTypeOK', EndsInOrder, AnswersInv, [Next]_vars PROVE AnswersInv'
    OBVIOUS
  <1>1. ASSUME NEW r \in Requests, SendRegistered(r) PROVE AnswersInv'
    <2>1. /\ sent'["client"] = sent["client"] /\ ends'["client"] = ends["client"]
          /\ UNCHANGED <<got, read>>
      BY <1>1 DEF SendRegistered, Send, MessagesTypeOK, Sides
    <2> QED
      BY <2>1, AnswersKept DEF MessagesTypeOK, Sides
  <1>2. ASSUME NEW r \in Requests, SendAnswer(r) PROVE AnswersInv'
    BY <1>2, AnswerSentInv
  <1>3. ASSUME NEW side \in Sides, ReadPart(side) \/ Reject(side) PROVE AnswersInv'
    <2>1. PICK to \in Arrived(side) : read' = [read EXCEPT ![side] = to]
      BY <1>3 DEF ReadPart, Reject
    <2>2. UNCHANGED <<sent, ends, got>> /\ read["client"] <= read'["client"]
      BY <1>3, <2>1, ReadSizeAssumption DEF ReadPart, Reject, Arrived, MessagesTypeOK, Sides
    <2> QED
      BY <2>2, AnswersKept
  <1>4. ASSUME Take("server") PROVE AnswersInv'
    <2>1. /\ UNCHANGED <<sent, ends>>
          /\ got'["client"] = got["client"] /\ read'["client"] = read["client"]
      BY <1>4 DEF Take, MessagesTypeOK, Sides
    <2> QED
      BY <2>1, AnswersKept DEF MessagesTypeOK, Sides
  <1>5. ASSUME Take("client") PROVE AnswersInv'
    BY <1>5, AnswerTakenInv
  <1>6. CASE UNCHANGED vars
    BY <1>6, AnswersKept DEF vars, MessagesTypeOK, Sides
  <1>7. ASSUME NEW side \in Sides, NoticeClose(side) PROVE AnswersInv'
    BY <1>7, AnswersKept DEF NoticeClose, MessagesTypeOK, Sides
  <1> QED
    BY <1>1, <1>2, <1>3, <1>4, <1>5, <1>6, <1>7 DEF Next, OnData, Sides

(* AnswersInOrder: the locator, which throws away whatever it cannot take  *)
(* at once and so loses its place in the stream, never takes an answer     *)
(* twice, out of turn, or one that was not sent.                           *)
THEOREM AnswersStayInOrder == Spec => []AnswersInOrder
  <1>1. Init => AnswersInv
    BY EmptySeq DEF Init, AnswersInv, AnswersOnce, AnswersBehind, AnswersInOrder, Within, Sides
  <1>2. ServerInv => EndsInOrder
    BY DEF ServerInv
  <1>3. AnswersInv => AnswersInOrder
    BY DEF AnswersInv
  <1> QED
    BY <1>1, <1>2, <1>3, ServerSafe, AnswersStep, PTL DEF Spec
=============================================================================
