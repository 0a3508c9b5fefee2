---------------------------- MODULE CipherProofs ----------------------------
(***************************************************************************)
(* What the codes, ciphers and keys promise, for blocks, keys, texts,      *)
(* clocks and groups of every size.  LibraryProofs has the lemmas about    *)
(* induction and recursive functions.                                      *)
(***************************************************************************)
EXTENDS Otp, Arc4, Srp6, LibraryProofs

(***************************************************************************)
(* OTP                                                                     *)
(***************************************************************************)

(* The step that a time falls into.                                        *)
LEMMA StepBounds ==
    ASSUME NEW time \in Nat
    PROVE  /\ time \div Step \in Nat
           /\ Step * (time \div Step) <= time
           /\ time < Step * (time \div Step) + Step
  BY OtpAssumption

(* Later times fall into later steps.                                      *)
LEMMA StepsInOrder ==
    ASSUME NEW now \in Nat, NEW later \in Nat, now <= later
    PROVE  now \div Step <= later \div Step
  <1> DEFINE p == now \div Step
             q == later \div Step
  <1>1. /\ p \in Nat /\ q \in Nat /\ Step \in Nat \ {0}
        /\ Step * p <= now /\ later < Step * q + Step
    BY StepBounds, OtpAssumption
  <1> HIDE DEF p, q
  <1>2. p < q + 1
    <2>1. Step * p < Step * (q + 1)
      BY <1>1
    <2> QED
      BY <1>1, <2>1
  <1> QED
    BY <1>1, <1>2 DEF p, q

LEMMA Modulus ==
    ASSUME NEW n \in Int
    PROVE  /\ n % Width \in 0..(Width - 1)
           /\ n \in 0..(Width - 1) => n % Width = n
           /\ n = -1 => n % Width = Width - 1
  BY OtpAssumption


(* A code is that of the time at which it was made.                        *)
OtpInv ==
    /\ clock \in 0..MaxTime
    /\ shownAt \in 0..MaxTime
    /\ code # NoCode => \E digits : code = TotpGenerate(shownAt, 0, Step, digits)

(* Two steps that give one code are the same step, also where the step     *)
(* before the first is the last of all counters.                           *)
LEMMA SameCounter ==
    ASSUME NEW made \in 0..MaxTime, NEW now \in 0..MaxTime, NEW i \in -1..1
    PROVE  (made \div Step) % Width = (now \div Step + i) % Width
               <=> made \div Step = now \div Step + i
  <1> DEFINE p == made \div Step
             q == now \div Step
             top == MaxTime \div Step
  <1>1. /\ p \in Nat /\ q \in Nat /\ top \in Nat /\ p <= top /\ q <= top
        /\ Width \in Nat /\ top + 1 < Width
    BY StepBounds, StepsInOrder, OtpAssumption
  <1> HIDE DEF p, q, top
  <1>2. p % Width = p
    BY <1>1, Modulus
  <1>3. CASE q + i = -1
    <2>1. (q + i) % Width = Width - 1
      BY <1>1, <1>3, Modulus
    <2> QED
      BY <1>1, <1>2, <1>3, <2>1 DEF p, q
  <1>4. CASE q + i # -1
    <2>1. q + i \in 0..(Width - 1)
      BY <1>1, <1>4
    <2>2. (q + i) % Width = q + i
      BY <2>1, Modulus
    <2> QED
      BY <1>2, <2>2 DEF p, q
  <1> QED
    BY <1>3, <1>4

LEMMA Window ==
    ASSUME NEW made \in 0..MaxTime, NEW now \in 0..MaxTime,
           NEW apart, apart = IF now > made THEN now - made ELSE made - now
    PROVE  /\ apart <= Step => \E i \in -1..1 : made \div Step = now \div Step + i
           /\ \A i \in -1..1 : made \div Step = now \div Step + i => apart < 2 * Step
  <1> DEFINE p == made \div Step
             q == now \div Step
  <1>1. /\ p \in Nat /\ q \in Nat /\ Step \in Nat \ {0} /\ made \in Nat /\ now \in Nat
        /\ Step * p <= made /\ made < Step * p + Step
        /\ Step * q <= now /\ now < Step * q + Step
    BY StepBounds, OtpAssumption
  <1> HIDE DEF p, q
  <1>2. \A m \in Int : Step * (m + 1) = Step * m + Step /\ Step * (m - 1) = Step * m - Step
    BY <1>1
  <1>3. ASSUME apart <= Step PROVE \E i \in -1..1 : p = q + i
    <2>1. made <= now + Step /\ now <= made + Step
      BY <1>1, <1>3
    <2>2. Step * p < Step * (q + 2) /\ Step * q < Step * (p + 2)
      BY <1>1, <2>1
    <2>3. p < q + 2 /\ q < p + 2
      BY <1>1, <2>2
    <2>4. p - q \in -1..1 /\ p = q + (p - q)
      BY <1>1, <2>3
    <2> QED
      BY <2>4
  <1>4. ASSUME NEW i \in -1..1, p = q + i PROVE apart < 2 * Step
    <2>1. p = q - 1 \/ p = q \/ p = q + 1
      BY <1>1, <1>4
    <2>2. Step * p = Step * q - Step \/ Step * p = Step * q \/ Step * p = Step * q + Step
      BY <1>1, <1>2, <2>1
    <2> QED
      BY <1>1, <2>2
  <1> QED
    BY <1>3, <1>4 DEF p, q

(* WindowOfOneStep, for steps of every length and as many counters as the  *)
(* times that can be reached and one step more need.                       *)
THEOREM WindowIsOneStep == OtpSpec => WindowOfOneStep
  <1>1. OtpInit => OtpInv
    BY OtpAssumption DEF OtpInit, OtpInv
  <1>2. OtpInv /\ [OtpNext]_otpVars => OtpInv'
    <2>1. ASSUME OtpInv, Show PROVE OtpInv'
      BY <2>1 DEF Show, OtpInv
    <2>2. ASSUME OtpInv, Validate PROVE OtpInv'
      <3>1. /\ UNCHANGED <<shownAt, code>>
            /\ \E now \in clock..MaxTime : clock' = now
        BY <2>2 DEF Validate
      <3>2. clock' \in 0..MaxTime
        BY <2>2, <3>1, OtpAssumption DEF OtpInv
      <3> QED
        BY <2>2, <3>1, <3>2 DEF OtpInv, TotpGenerate, HotpGenerate
    <2>3. ASSUME OtpInv, UNCHANGED otpVars PROVE OtpInv'
      BY <2>3 DEF otpVars, OtpInv
    <2> QED
      BY <2>1, <2>2, <2>3 DEF OtpNext
  <1>3. OtpInv /\ [OtpNext]_otpVars =>
            [Validate => /\ Apart' <= Step => accepted'
                         /\ accepted' => Apart' < 2 * Step]_otpVars
    <2> SUFFICES ASSUME OtpInv, Validate
                 PROVE  /\ Apart' <= Step => accepted'
                        /\ accepted' => Apart' < 2 * Step
      OBVIOUS
    <2>1. PICK now \in clock..MaxTime :
              /\ clock' = now
              /\ accepted' = (\E i \in -1..1 : code = HotpGenerate(now \div Step + i, code.digits))
      BY DEF Validate
    <2>2. code # NoCode /\ shownAt' = shownAt
      BY DEF Validate
    <2>3. PICK digits : code = TotpGenerate(shownAt, 0, Step, digits)
      BY <2>2 DEF OtpInv
    <2>4. now \in 0..MaxTime /\ shownAt \in 0..MaxTime
      BY <2>1 DEF OtpInv
    <2>5. Apart' = IF now > shownAt THEN now - shownAt ELSE shownAt - now
      BY <2>1, <2>2 DEF Apart
    <2>6. /\ code.digits = digits
          /\ code = [counter |-> (shownAt \div Step) % Width, digits |-> digits]
      BY <2>3, <2>4 DEF TotpGenerate, HotpGenerate
    <2>7. ASSUME NEW i \in -1..1
          PROVE  code = HotpGenerate(now \div Step + i, code.digits)
                     <=> shownAt \div Step = now \div Step + i
      <3>1. code = HotpGenerate(now \div Step + i, code.digits)
                <=> (shownAt \div Step) % Width = (now \div Step + i) % Width
        BY <2>6 DEF HotpGenerate
      <3> QED
        BY <2>4, <3>1, SameCounter
    <2>8. accepted' <=> \E i \in -1..1 : shownAt \div Step = now \div Step + i
      BY <2>1, <2>7
    <2> QED
      BY <2>4, <2>5, <2>8, Window
  <1> QED
    BY <1>1, <1>2, <1>3, PTL DEF OtpSpec, WindowOfOneStep

-----------------------------------------------------------------------------
(***************************************************************************)
(* ARC4                                                                    *)
(***************************************************************************)

Permutations == {b \in [Byte -> Byte] : {b[i] : i \in Byte} = Byte}

(* How many bytes an end has processed.                                    *)
Turned(e) == Len(IF e = "sender" THEN ciphered ELSE deciphered)

ArcTypes ==
    /\ key \in Seq(Byte)
    /\ block \in [Ends -> Permutations]
    /\ mixed \in [Ends -> 0..BlockSize]
    /\ kk \in [Ends -> Byte] /\ x4 \in [Ends -> Byte] /\ y4 \in [Ends -> Byte]
    /\ text \in Seq(Byte) /\ ciphered \in Seq(Byte) /\ deciphered \in Seq(Byte)
    /\ Len(ciphered) = Len(text) /\ Len(deciphered) <= Len(ciphered)

(* The key is mixed in before the first byte.                              *)
MixedFirst ==
    \A e \in Ends : /\ key = << >> => mixed[e] = 0
                    /\ Turned(e) > 0 => mixed[e] = BlockSize

-----------------------------------------------------------------------------
(* What an end is, and what the n-th round, of the constructor's loop or of *)
(* the one in process_, makes of it.                                       *)
State(e) == [block |-> block[e], k |-> kk[e], x |-> x4[e], y |-> y4[e]]

Round(n, s) ==
    IF n < BlockSize
    THEN LET i == (key[(n % Len(key)) + 1] + s.block[n] + s.k) % BlockSize
         IN  [block |-> Swapped(s.block, n, i), k |-> i, x |-> s.x, y |-> s.y]
    ELSE LET to == (s.x + 1) % BlockSize
             from == (s.block[to] + s.y) % BlockSize
         IN  [block |-> Swapped(s.block, to, from), k |-> s.k, x |-> to, y |-> from]

Rounds(e) == mixed[e] + Turned(e)

(* The byte that is laid over one of the text.                             *)
Over(s) == s.block[(s.block[s.x] + s.block[s.y]) % BlockSize]

(* `course` is what the rounds make of a cipher, as far as `last`; both    *)
(* ends are on it, and what was sent is the text with it laid over.        *)
Course(last, course) ==
    \A n \in 0..(last - 1) : course[n + 1] = Round(n, course[n])
OnCourse(last, course) ==
    \A e \in Ends : Rounds(e) <= last /\ State(e) = course[Rounds(e)]
LaidOver(course) ==
    \A i \in 1..Len(ciphered) : ciphered[i] = Xor(text[i], Over(course[BlockSize + i]))
OneCourse ==
    \E last \in Nat : \E course :
        Course(last, course) /\ OnCourse(last, course) /\ LaidOver(course)

GotBack == \A i \in 1..Len(deciphered) : deciphered[i] = text[i]

ArcInv == ArcTypes /\ MixedFirst /\ OneCourse /\ GotBack

-----------------------------------------------------------------------------
LEMMA Remainder ==
    ASSUME NEW n \in Int
    PROVE  n % BlockSize \in Byte
  BY BlockAssumption DEF Byte

LEMMA ByteFacts ==
    BlockSize \in Nat \ {0} /\ 0 \in Byte /\ \A v \in Byte : v \in Nat /\ v \in Int
  BY BlockAssumption DEF Byte

(* The byte of the key that the n-th round takes.                          *)
LEMMA KeyByte ==
    ASSUME key \in Seq(Byte), key # << >>, NEW n \in Nat
    PROVE  key[(n % Len(key)) + 1] \in Byte
  <1> DEFINE length == Len(key)
  <1>1. length \in Nat \ {0}
    OBVIOUS
  <1> HIDE DEF length
  <1>2. n % length \in 0..(length - 1)
    BY <1>1
  <1>3. (n % length) + 1 \in 1..length
    BY <1>1, <1>2
  <1> QED
    BY <1>3 DEF length

(* Exchanging two places of a permutation, which may be one, leaves it one. *)
LEMMA SwapFacts ==
    ASSUME NEW b \in Permutations, NEW i \in Byte, NEW j \in Byte
    PROVE  Swapped(b, i, j) \in Permutations
  <1>1. b \in [Byte -> Byte] /\ \A v \in Byte : \E m \in Byte : b[m] = v
    BY DEF Permutations
  <1>2. Swapped(b, i, j) \in [Byte -> Byte]
    BY <1>1 DEF Swapped
  <1>3. \A m \in Byte : Swapped(b, i, j)[m] = IF m = j THEN b[i] ELSE IF m = i THEN b[j] ELSE b[m]
    BY <1>1 DEF Swapped
  <1>4. ASSUME NEW v \in Byte PROVE \E m \in Byte : Swapped(b, i, j)[m] = v
    <2>1. PICK m \in Byte : b[m] = v
      BY <1>1
    <2>2. CASE m = i
      BY <1>3, <2>1, <2>2
    <2>3. CASE m # i /\ m = j
      BY <1>3, <2>1, <2>3
    <2>4. CASE m # i /\ m # j
      BY <1>3, <2>1, <2>4
    <2> QED
      BY <2>2, <2>3, <2>4
  <1> QED
    BY <1>2, <1>4 DEF Permutations

(* A round more, of a cipher that is somewhere on the course.              *)
LEMMA OneMore ==
    ASSUME NEW last \in Nat, NEW course, Course(last, course), NEW n \in 0..last
    PROVE  \E more \in Nat : \E longer :
               /\ last <= more /\ n + 1 <= more /\ Course(more, longer)
               /\ \A m \in 0..last : longer[m] = course[m]
  <1>1. CASE n < last
    <2>1. n + 1 <= last
      BY <1>1
    <2> QED
      BY <2>1
  <1>2. CASE n = last
    <2> DEFINE longer == [m \in 0..(last + 1) |->
                              IF m <= last THEN course[m] ELSE Round(last, course[last])]
    <2>1. \A m \in 0..last : longer[m] = course[m]
      OBVIOUS
    <2>2. longer[last + 1] = Round(last, course[last])
      OBVIOUS
    <2> HIDE DEF longer
    <2>3. ASSUME NEW m \in 0..((last + 1) - 1) PROVE longer[m + 1] = Round(m, longer[m])
      <3>1. CASE m = last
        BY <2>1, <2>2, <3>1
      <3>2. CASE m # last
        <4>1. m \in 0..(last - 1) /\ m + 1 \in 0..last /\ m \in 0..last
          BY <3>2
        <4> QED
          BY <2>1, <4>1 DEF Course
      <3> QED
        BY <3>1, <3>2
    <2>4. Course(last + 1, longer)
      BY <2>3 DEF Course
    <2> QED
      BY <1>2, <2>1, <2>4
  <1> QED
    BY <1>1, <1>2

-----------------------------------------------------------------------------
(* Where end e goes one round further, and the other stays.                *)
Advances(e) ==
    /\ State(e)' = Round(Rounds(e), State(e))
    /\ Rounds(e)' = Rounds(e) + 1
    /\ \A d \in Ends \ {e} : State(d)' = State(d) /\ Rounds(d)' = Rounds(d)
    /\ key' = key

LEMMA RoundsType ==
    ASSUME ArcTypes, NEW e \in Ends
    PROVE  /\ Turned(e) \in Nat /\ mixed[e] \in 0..BlockSize /\ BlockSize \in Nat \ {0}
           /\ Rounds(e) = mixed[e] + Turned(e) /\ Rounds(e) \in Nat
  <1>1. Turned(e) \in Nat
    BY DEF ArcTypes, Turned
  <1>2. mixed[e] \in 0..BlockSize /\ BlockSize \in Nat \ {0}
    BY ByteFacts DEF ArcTypes
  <1> QED
    BY <1>1, <1>2 DEF Rounds

(* A round of the constructor's loop, of an end that has turned no byte.   *)
LEMMA MixAdvances ==
    ASSUME ArcTypes, MixedFirst, NEW e \in Ends, Mix(e)
    PROVE  Advances(e)
  <1>1. /\ Turned(e) = 0 /\ Rounds(e) = mixed[e] /\ mixed[e] < BlockSize
        /\ mixed[e] \in Nat
    BY RoundsType DEF Mix, MixedFirst
  <1>2. \A d \in Ends : Turned(d)' = Turned(d)
    BY DEF Mix, Turned
  <1>3. mixed' = [mixed EXCEPT ![e] = @ + 1] /\ mixed \in [Ends -> 0..BlockSize]
    BY DEF Mix, ArcTypes
  <1>4. Rounds(e)' = Rounds(e) + 1 /\ \A d \in Ends \ {e} : Rounds(d)' = Rounds(d)
    BY <1>1, <1>2, <1>3 DEF Rounds
  <1>5. \A d \in Ends \ {e} : State(d)' = State(d)
    BY DEF Mix, State, ArcTypes
  <1>6. State(e)' = Round(Rounds(e), State(e))
    BY <1>1 DEF Mix, State, Round, ArcTypes
  <1> QED
    BY <1>4, <1>5, <1>6 DEF Advances, Mix

(* A round of process_, of an end that turns one byte.                     *)
LEMMA TurnAdvances ==
    ASSUME ArcTypes, NEW e \in Ends, Turn(e), Turned(e)' = Turned(e) + 1,
           \A d \in Ends \ {e} : Turned(d)' = Turned(d)
    PROVE  Advances(e)
  <1>1. Rounds(e) \in Nat /\ ~(Rounds(e) < BlockSize)
    BY RoundsType DEF Turn
  <1>2. Rounds(e)' = Rounds(e) + 1 /\ \A d \in Ends \ {e} : Rounds(d)' = Rounds(d)
    BY RoundsType DEF Rounds, Turn
  <1>3. \A d \in Ends \ {e} : State(d)' = State(d)
    BY DEF Turn, State, ArcTypes
  <1>4. State(e)' = Round(Rounds(e), State(e))
    BY <1>1 DEF Turn, NextX, NextY, State, Round, ArcTypes
  <1> QED
    BY <1>2, <1>3, <1>4 DEF Advances, Turn

(* The course goes on with the end that is furthest.                       *)
LEMMA Onward ==
    ASSUME ArcTypes, NEW e \in Ends, Advances(e),
           NEW last \in Nat, NEW course, Course(last, course), OnCourse(last, course)
    PROVE  \E more \in Nat : \E longer :
               /\ last <= more /\ Course(more, longer)' /\ OnCourse(more, longer)'
               /\ \A m \in 0..last : longer[m] = course[m]
  <1>1. Rounds(e) \in 0..last /\ State(e) = course[Rounds(e)]
    BY RoundsType DEF OnCourse
  <1>2. PICK more, longer :
            /\ more \in Nat /\ last <= more /\ Rounds(e) + 1 <= more /\ Course(more, longer)
            /\ \A m \in 0..last : longer[m] = course[m]
    BY <1>1, OneMore
  <1>3. Course(more, longer)'
    BY <1>2 DEF Course, Round, Advances
  <1>4. State(e)' = longer[Rounds(e)'] /\ Rounds(e)' <= more
    <2>1. longer[Rounds(e) + 1] = Round(Rounds(e), longer[Rounds(e)])
      BY <1>1, <1>2 DEF Course
    <2> QED
      BY <1>1, <1>2, <2>1 DEF Advances
  <1>5. ASSUME NEW d \in Ends \ {e}
        PROVE  Rounds(d)' <= more /\ State(d)' = longer[Rounds(d)']
    <2>1. Rounds(d) \in 0..last /\ State(d) = course[Rounds(d)]
      BY RoundsType DEF OnCourse
    <2> QED
      BY <1>2, <2>1 DEF Advances
  <1>6. OnCourse(more, longer)'
    BY <1>4, <1>5 DEF OnCourse
  <1> QED
    BY <1>2, <1>3, <1>6, Zenon

-----------------------------------------------------------------------------
(* The state an end is in keeps its types.                                 *)
LEMMA MixTypes ==
    ASSUME ArcTypes, NEW e \in Ends, Mix(e)
    PROVE  ArcTypes'
  <1>1. mixed[e] \in Byte /\ mixed[e] + 1 \in 0..BlockSize
    BY BlockAssumption DEF Mix, ArcTypes, Byte
  <1>3. key[(mixed[e] % Len(key)) + 1] \in Int /\ block[e][mixed[e]] \in Int /\ kk[e] \in Int
    <2>1. block[e] \in [Byte -> Byte] /\ kk[e] \in Byte
      BY DEF ArcTypes, Permutations
    <2>2. key[(mixed[e] % Len(key)) + 1] \in Byte
      BY <1>1, KeyByte, ByteFacts DEF ArcTypes, Mix
    <2>3. block[e][mixed[e]] \in Byte
      BY <1>1, <2>1
    <2> QED
      BY <2>1, <2>2, <2>3, ByteFacts
  <1>4. PICK n \in Byte : /\ block' = [block EXCEPT ![e] = Swapped(@, mixed[e], n)]
                          /\ kk' = [kk EXCEPT ![e] = n]
    <2> DEFINE n == (key[(mixed[e] % Len(key)) + 1] + block[e][mixed[e]] + kk[e]) % BlockSize
    <2>1. n \in Byte
      BY <1>3, Remainder
    <2> QED
      BY <2>1 DEF Mix
  <1>5. Swapped(block[e], mixed[e], n) \in Permutations
    BY <1>1, SwapFacts DEF ArcTypes
  <1> QED
    BY <1>1, <1>4, <1>5 DEF Mix, ArcTypes

LEMMA TurnTypes ==
    ASSUME ArcTypes, NEW e \in Ends, Turn(e)
    PROVE  /\ key' = key /\ mixed' = mixed /\ kk' = kk
           /\ block' \in [Ends -> Permutations]
           /\ x4' \in [Ends -> Byte] /\ y4' \in [Ends -> Byte]
           /\ Over(State(e))' \in Byte
           /\ \A byte : Out(e, byte) = Xor(byte, Over(State(e))')
  <1>1. block[e] \in [Byte -> Byte] /\ x4[e] \in Byte /\ y4[e] \in Byte
    BY DEF ArcTypes, Permutations
  <1>2. NextX(e) \in Byte
    <2>1. x4[e] + 1 \in Int
      BY <1>1, ByteFacts
    <2> QED
      BY <2>1, Remainder DEF NextX
  <1>3. NextY(e) \in Byte
    <2>1. block[e][NextX(e)] \in Byte
      BY <1>1, <1>2
    <2>2. block[e][NextX(e)] + y4[e] \in Int
      BY <1>1, <2>1, ByteFacts
    <2> QED
      BY <2>2, Remainder DEF NextY
  <1>4. Swapped(block[e], NextX(e), NextY(e)) \in Permutations
    BY <1>2, <1>3, SwapFacts DEF ArcTypes
  <1>5. /\ key' = key /\ mixed' = mixed /\ kk' = kk
        /\ block' \in [Ends -> Permutations]
        /\ x4' \in [Ends -> Byte] /\ y4' \in [Ends -> Byte]
    BY <1>2, <1>3, <1>4 DEF Turn, ArcTypes
  <1>6. block'[e] \in [Byte -> Byte] /\ x4'[e] \in Byte /\ y4'[e] \in Byte
    BY <1>5 DEF Permutations
  <1>7. (block'[e][x4'[e]] + block'[e][y4'[e]]) % BlockSize \in Byte
    <2>1. block'[e][x4'[e]] \in Byte /\ block'[e][y4'[e]] \in Byte
      BY <1>6
    <2>2. block'[e][x4'[e]] + block'[e][y4'[e]] \in Int
      BY <2>1, ByteFacts
    <2> QED
      BY <2>2, Remainder
  <1>8. Over(State(e))' \in Byte
    BY <1>6, <1>7 DEF Over, State
  <1>9. \A byte : Out(e, byte) = Xor(byte, Over(State(e))')
    BY DEF Out, Over, State
  <1> QED
    BY <1>5, <1>8, <1>9

(* What was sent lies behind the end of the course.                        *)
LEMMA SentOnCourse ==
    ASSUME ArcTypes, MixedFirst,
           NEW last \in Nat, NEW course, OnCourse(last, course), LaidOver(course),
           NEW longer, \A m \in 0..last : longer[m] = course[m]
    PROVE  \A i \in 1..Len(ciphered) :
               ciphered[i] = Xor(text[i], Over(longer[BlockSize + i]))
  <1> SUFFICES ASSUME NEW i \in 1..Len(ciphered)
               PROVE  BlockSize + i \in 0..last
    BY DEF LaidOver
  <1>1. "sender" \in Ends /\ Len(ciphered) \in Nat /\ Turned("sender") = Len(ciphered)
    BY DEF ArcTypes, Ends, Turned
  <1>2. mixed["sender"] = BlockSize
    BY <1>1 DEF MixedFirst
  <1>3. BlockSize + Len(ciphered) <= last
    BY <1>1, <1>2 DEF OnCourse, Rounds
  <1> QED
    BY <1>1, <1>3, ByteFacts

LEMMA ArcInitInv == ArcInit => ArcInv
  <1> SUFFICES ASSUME ArcInit PROVE ArcInv
    OBVIOUS
  <1> DEFINE id == [i \in Byte |-> i]
             course == [n \in 0..0 |-> [block |-> id, k |-> 0, x |-> 0, y |-> 0]]
  <1>1. id \in Permutations
    BY DEF Permutations
  <1>2. ArcTypes
    BY <1>1, ByteFacts DEF ArcInit, ArcTypes
  <1>3. MixedFirst
    BY DEF ArcInit, MixedFirst, Turned
  <1>4. \A e \in Ends : Rounds(e) = 0 /\ State(e) = course[0]
    BY DEF ArcInit, Rounds, Turned, State
  <1> HIDE DEF course
  <1>5. Course(0, course) /\ OnCourse(0, course) /\ LaidOver(course)
    BY <1>4 DEF Course, OnCourse, LaidOver, ArcInit
  <1>6. GotBack
    BY DEF ArcInit, GotBack
  <1> QED
    BY <1>2, <1>3, <1>5, <1>6 DEF ArcInv, OneCourse

(* The key comes before the first round.                                   *)
LEMMA KeyStep == ASSUME ArcInv, ChooseKey PROVE ArcInv'
  <1> USE DEF ArcInv
  <1>1. ArcTypes'
    BY BlockAssumption DEF ArcTypes, ChooseKey
  <1>2. \A e \in Ends : mixed[e] = 0 /\ Turned(e) = 0 /\ Rounds(e) = 0
    <2> SUFFICES ASSUME NEW e \in Ends PROVE mixed[e] = 0 /\ Turned(e) = 0
      BY DEF Rounds
    <2>1. mixed[e] = 0
      BY DEF ChooseKey, MixedFirst
    <2> QED
      BY <2>1, RoundsType DEF MixedFirst
  <1>3. \A e \in Ends : Turned(e)' = 0 /\ Rounds(e)' = 0 /\ State(e)' = State(e)
    BY <1>2 DEF ChooseKey, Rounds, Turned, State
  <1>4. MixedFirst'
    BY <1>2, <1>3 DEF ChooseKey, MixedFirst
  <1>5. PICK last, course : last \in Nat /\ OnCourse(last, course)
    BY DEF OneCourse
  <1>6. Len(ciphered) = 0 /\ "sender" \in Ends
    BY <1>2 DEF Turned, Ends
  <1>7. Course(0, course)' /\ OnCourse(0, course)' /\ LaidOver(course)'
    BY <1>2, <1>3, <1>5, <1>6 DEF Course, OnCourse, LaidOver, ChooseKey
  <1>8. GotBack'
    BY DEF GotBack, ChooseKey
  <1> QED
    BY <1>1, <1>4, <1>7, <1>8 DEF OneCourse

LEMMA MixStep == ASSUME ArcInv, NEW e \in Ends, Mix(e) PROVE ArcInv'
  <1> USE DEF ArcInv
  <1>1. ArcTypes' /\ Advances(e)
    BY MixTypes, MixAdvances
  <1>2. MixedFirst'
    <2>1. Turned(e) = 0 /\ key # << >>
      BY RoundsType DEF Mix, MixedFirst
    <2> QED
      BY <2>1 DEF Mix, MixedFirst, Turned, ArcTypes
  <1>3. PICK last, course :
            last \in Nat /\ Course(last, course) /\ OnCourse(last, course) /\ LaidOver(course)
    BY DEF OneCourse
  <1>4. PICK more, longer :
            /\ more \in Nat /\ Course(more, longer)' /\ OnCourse(more, longer)'
            /\ \A m \in 0..last : longer[m] = course[m]
    <2>1. \E more \in Nat : \E longer :
              /\ last <= more /\ Course(more, longer)' /\ OnCourse(more, longer)'
              /\ \A m \in 0..last : longer[m] = course[m]
      BY <1>1, <1>3, Onward
    <2> QED
      BY <2>1
  <1>5. LaidOver(longer)'
    <2>1. \A i \in 1..Len(ciphered) : ciphered[i] = Xor(text[i], Over(longer[BlockSize + i]))
      BY <1>3, <1>4, SentOnCourse
    <2> QED
      BY <2>1 DEF LaidOver, Over, Mix
  <1>6. GotBack'
    BY DEF GotBack, Mix
  <1> QED
    BY <1>1, <1>2, <1>4, <1>5, <1>6 DEF OneCourse

(* What the sender lays over a byte is the course's.                       *)
LEMMA EncryptStep == ASSUME ArcInv, Encrypt PROVE ArcInv'
  <1> USE DEF ArcInv
  <1>1. PICK byte \in Byte :
            /\ text' = Append(text, byte)
            /\ ciphered' = Append(ciphered, Out("sender", byte))
            /\ deciphered' = deciphered
    BY DEF Encrypt
  <1>2. "sender" \in Ends /\ Turn("sender") /\ mixed["sender"] = BlockSize
    BY DEF Encrypt, Turn, Ends
  <1>3. /\ key' = key /\ mixed' = mixed /\ kk' = kk
        /\ block' \in [Ends -> Permutations]
        /\ x4' \in [Ends -> Byte] /\ y4' \in [Ends -> Byte]
        /\ Over(State("sender"))' \in Byte
        /\ Out("sender", byte) = Xor(byte, Over(State("sender"))')
    BY <1>2, TurnTypes
  <1>4. Out("sender", byte) \in Byte
    BY <1>3, XorAssumption
  <1>5. ArcTypes'
    BY <1>1, <1>3, <1>4 DEF ArcTypes
  <1>6. Turned("sender")' = Turned("sender") + 1
    BY <1>1, <1>4 DEF Turned, ArcTypes
  <1>7. \A d \in Ends \ {"sender"} : Turned(d)' = Turned(d)
    BY <1>1 DEF Turned
  <1>8. Advances("sender")
    BY <1>2, <1>6, <1>7, TurnAdvances
  <1>9. MixedFirst'
    BY <1>2, <1>3, <1>7 DEF MixedFirst
  <1>10. PICK last, course :
            last \in Nat /\ Course(last, course) /\ OnCourse(last, course) /\ LaidOver(course)
    BY DEF OneCourse
  <1>11. PICK more, longer :
            /\ more \in Nat /\ Course(more, longer)' /\ OnCourse(more, longer)'
            /\ \A m \in 0..last : longer[m] = course[m]
    BY <1>2, <1>8, <1>10, Onward
  <1>12. \A i \in 1..Len(ciphered) : ciphered[i] = Xor(text[i], Over(longer[BlockSize + i]))
    BY <1>10, <1>11, SentOnCourse
  <1>13. State("sender")' = longer[BlockSize + (Len(ciphered) + 1)]
    <2>1. Rounds("sender")' = BlockSize + (Len(ciphered) + 1)
      BY <1>2, <1>3, <1>6, ByteFacts DEF Rounds, Turned, ArcTypes
    <2> QED
      BY <1>2, <1>11, <2>1 DEF OnCourse
  <1>14. LaidOver(longer)'
    <2> SUFFICES ASSUME NEW i \in 1..Len(ciphered')
                 PROVE  ciphered'[i] = Xor(text'[i], Over(longer[BlockSize + i])')
      BY DEF LaidOver
    <2>1. Over(longer[BlockSize + i])' = Over(longer[BlockSize + i])
      BY DEF Over
    <2>2. CASE i \in 1..Len(ciphered)
      BY <1>1, <1>4, <1>12, <2>1, <2>2 DEF ArcTypes
    <2>3. CASE i = Len(ciphered) + 1
      <3>1. ciphered'[i] = Out("sender", byte) /\ text'[i] = byte
        BY <1>1, <1>4, <2>3 DEF ArcTypes
      <3> QED
        BY <1>3, <1>13, <2>1, <2>3, <3>1 DEF Over
    <2> QED
      BY <1>1, <1>4, <2>2, <2>3 DEF ArcTypes
  <1>15. GotBack'
    BY <1>1 DEF GotBack, ArcTypes
  <1> QED
    BY <1>5, <1>9, <1>11, <1>14, <1>15 DEF OneCourse

(* The receiver lays the same over it, and so has the byte again.          *)
LEMMA DecryptStep == ASSUME ArcInv, Decrypt PROVE ArcInv'
  <1> USE DEF ArcInv
  <1> DEFINE n == Len(deciphered) + 1
  <1>1. /\ deciphered' = Append(deciphered, Out("receiver", ciphered[n]))
        /\ text' = text /\ ciphered' = ciphered
        /\ n \in 1..Len(ciphered) /\ ciphered[n] \in Byte /\ text[n] \in Byte
    BY DEF Decrypt, ArcTypes
  <1>2. "receiver" \in Ends /\ Turn("receiver") /\ mixed["receiver"] = BlockSize
    BY DEF Decrypt, Turn, Ends
  <1>3. /\ key' = key /\ mixed' = mixed /\ kk' = kk
        /\ block' \in [Ends -> Permutations]
        /\ x4' \in [Ends -> Byte] /\ y4' \in [Ends -> Byte]
        /\ Over(State("receiver"))' \in Byte
        /\ Out("receiver", ciphered[n]) = Xor(ciphered[n], Over(State("receiver"))')
    BY <1>2, TurnTypes
  <1>4. Out("receiver", ciphered[n]) \in Byte
    BY <1>1, <1>3, XorAssumption
  <1>5. ArcTypes'
    BY <1>1, <1>3, <1>4 DEF ArcTypes
  <1>6. Turned("receiver")' = Turned("receiver") + 1
    BY <1>1, <1>4 DEF Turned, ArcTypes
  <1>7. \A d \in Ends \ {"receiver"} : Turned(d)' = Turned(d)
    BY <1>1 DEF Turned, Ends
  <1>8. Advances("receiver")
    BY <1>2, <1>6, <1>7, TurnAdvances
  <1>9. MixedFirst'
    BY <1>2, <1>3, <1>7 DEF MixedFirst
  <1>10. PICK last, course :
            last \in Nat /\ Course(last, course) /\ OnCourse(last, course) /\ LaidOver(course)
    BY DEF OneCourse
  <1>11. PICK more, longer :
            /\ more \in Nat /\ Course(more, longer)' /\ OnCourse(more, longer)'
            /\ \A m \in 0..last : longer[m] = course[m]
    BY <1>2, <1>8, <1>10, Onward
  <1>12. \A i \in 1..Len(ciphered) : ciphered[i] = Xor(text[i], Over(longer[BlockSize + i]))
    BY <1>10, <1>11, SentOnCourse
  <1>13. State("receiver")' = longer[BlockSize + n]
    <2>1. Rounds("receiver")' = BlockSize + n
      BY <1>2, <1>3, <1>6, ByteFacts DEF Rounds, Turned, ArcTypes
    <2> QED
      BY <1>2, <1>11, <2>1 DEF OnCourse
  <1>14. LaidOver(longer)'
    BY <1>1, <1>12 DEF LaidOver, Over
  <1>15. Out("receiver", ciphered[n]) = text[n]
    <2> DEFINE over == Over(State("receiver"))'
    <2>1. over \in Byte /\ Out("receiver", ciphered[n]) = Xor(ciphered[n], over)
      BY <1>3
    <2>2. over = Over(longer[BlockSize + n])
      BY <1>13 DEF Over
    <2> HIDE DEF over
    <2>3. ciphered[n] = Xor(text[n], over)
      BY <1>1, <1>12, <2>2
    <2> QED
      BY <1>1, <2>1, <2>3, XorAssumption
  <1>16. GotBack'
    BY <1>1, <1>4, <1>15 DEF GotBack, ArcTypes
  <1> QED
    BY <1>5, <1>9, <1>11, <1>14, <1>16 DEF OneCourse

-----------------------------------------------------------------------------
(* TextComesBack, for blocks of every size, keys and texts of every length, *)
(* and any two operations of which one undoes the other: the ciphers are   *)
(* somewhere on one course, which only the key decides.                    *)
THEOREM CipherTurnsBack == ArcSpec => []TextComesBack
  <1>1. ArcInv /\ [ArcNext]_arcVars => ArcInv'
    <2> SUFFICES ASSUME ArcInv, [ArcNext]_arcVars PROVE ArcInv'
      OBVIOUS
    <2>1. CASE UNCHANGED arcVars
      <3>1. ArcTypes' /\ MixedFirst' /\ GotBack'
        BY <2>1 DEF arcVars, ArcInv, ArcTypes, MixedFirst, GotBack, Turned
      <3>2. PICK last, course :
                last \in Nat /\ Course(last, course) /\ OnCourse(last, course) /\ LaidOver(course)
        BY DEF ArcInv, OneCourse
      <3>3. Course(last, course)'
        BY <2>1, <3>2 DEF arcVars, Course, Round
      <3>4. OnCourse(last, course)'
        BY <2>1, <3>2 DEF arcVars, OnCourse, Rounds, Turned, State
      <3>5. LaidOver(course)'
        BY <2>1, <3>2 DEF arcVars, LaidOver, Over
      <3> QED
        BY <3>1, <3>2, <3>3, <3>4, <3>5 DEF ArcInv, OneCourse
    <2> QED
      BY <2>1, KeyStep, MixStep, EncryptStep, DecryptStep DEF ArcNext
  <1>2. ArcInv => TextComesBack
    <2> SUFFICES ASSUME ArcInv PROVE TextComesBack
      OBVIOUS
    <2>1. BlockIsPermutation
      BY DEF ArcInv, ArcTypes, Permutations, BlockIsPermutation
    <2>2. deciphered = SubSeq(text, 1, Len(deciphered))
      <3> DEFINE part == SubSeq(text, 1, Len(deciphered))
      <3>1. /\ deciphered \in Seq(Byte) /\ part \in Seq(Byte) /\ Len(part) = Len(deciphered)
            /\ \A i \in 1..Len(deciphered) : part[i] = text[i]
        BY DEF ArcInv, ArcTypes
      <3> HIDE DEF part
      <3>2. \A i \in 1..Len(deciphered) : deciphered[i] = part[i]
        BY <3>1 DEF ArcInv, GotBack
      <3>3. deciphered = part
        BY <3>1, <3>2, SeqEqual
      <3> QED
        BY <3>3 DEF part
    <2> QED
      BY <2>1, <2>2 DEF TextComesBack
  <1> QED
    BY <1>1, <1>2, ArcInitInv, PTL DEF ArcSpec

-----------------------------------------------------------------------------
(***************************************************************************)
(* Remainders                                                              *)
(***************************************************************************)

(* What is left of a number when it is divided by m.                       *)
LEMMA ModFacts ==
    ASSUME NEW m \in Nat \ {0}, NEW a \in Int
    PROVE  a % m \in 0..(m - 1) /\ a \div m \in Int /\ a = m * (a \div m) + (a % m)
  <1> DEFINE q == a \div m
             r == a % m
  <1>1. m \in Int /\ m > 0
    OBVIOUS
  <1>2. q \in Int /\ r \in Int /\ 0 <= r /\ r < m
    OBVIOUS
  <1>3. r = a - m * q
    BY <1>1
  <1> HIDE DEF q, r
  <1>4. m * q \in Int
    BY <1>2
  <1>5. a = m * q + r
    BY <1>2, <1>3, <1>4
  <1> QED
    BY <1>2, <1>5 DEF q, r

LEMMA ModUnique ==
    ASSUME NEW m \in Nat \ {0}, NEW q \in Int, NEW r \in 0..(m - 1)
    PROVE  (m * q + r) % m = r
  <1> DEFINE a == m * q + r
  <1>1. a \in Int /\ m \in Int /\ m > 0 /\ r \in Int /\ 0 <= r /\ r < m /\ a = m * q + r
    OBVIOUS
  <1> HIDE DEF a
  <1>2. a % m = r
    BY <1>1
  <1> QED
    BY <1>2 DEF a

LEMMA ModSame ==
    ASSUME NEW m \in Nat \ {0}, NEW a \in Int, NEW b \in Int, NEW q \in Int, a = m * q + b
    PROVE  a % m = b % m
  <1> DEFINE p == b \div m
             r == b % m
  <1>1. p \in Int /\ r \in 0..(m - 1) /\ b = m * p + r
    BY ModFacts
  <1> HIDE DEF p, r
  <1>2. m * (q + p) = m * q + m * p
    BY <1>1
  <1>3. a = m * (q + p) + r
    BY <1>1, <1>2
  <1>4. (m * (q + p) + r) % m = r
    BY <1>1, ModUnique
  <1> QED
    BY <1>3, <1>4 DEF r

LEMMA ModTwice ==
    ASSUME NEW m \in Nat \ {0}, NEW a \in Int
    PROVE  (a % m) % m = a % m
  OBVIOUS

LEMMA ModTimes ==
    ASSUME NEW m \in Nat \ {0}, NEW a \in Int, NEW b \in Int
    PROVE  (a * b) % m = ((a % m) * b) % m
  <1> DEFINE q == a \div m
             r == a % m
  <1>1. q \in Int /\ r \in Int /\ a = m * q + r
    BY ModFacts
  <1> HIDE DEF q, r
  <1>2. a * b = m * (q * b) + r * b
    BY <1>1
  <1>3. q * b \in Int /\ r * b \in Int /\ a * b \in Int
    BY <1>1
  <1> QED
    BY <1>2, <1>3, ModSame DEF r

LEMMA ModPlus ==
    ASSUME NEW m \in Nat \ {0}, NEW a \in Int, NEW b \in Int
    PROVE  (a + b) % m = ((a % m) + b) % m
  <1> DEFINE q == a \div m
             r == a % m
  <1>1. q \in Int /\ r \in Int /\ a = m * q + r
    BY ModFacts
  <1> HIDE DEF q, r
  <1>2. a + b = m * q + (r + b)
    BY <1>1
  <1>3. a + b \in Int /\ r + b \in Int
    BY <1>1
  <1> DEFINE c == a + b
             d == r + b
  <1>4. c % m = d % m
    <2>1. c \in Int /\ d \in Int /\ c = m * q + d
      BY <1>2, <1>3
    <2> HIDE DEF c, d
    <2> QED
      BY <1>1, <2>1, ModSame
  <1> QED
    BY <1>4 DEF r

-----------------------------------------------------------------------------
(***************************************************************************)
(* Powers                                                                  *)
(***************************************************************************)

(* The recursive function of power_mod.                                    *)
Powers(base, exponent, modulus, f) ==
    f = [i \in 0..exponent |->
            IF i = 0 THEN 1 % modulus ELSE (f[i - 1] * (base % modulus)) % modulus]

LEMMA PowerFunction ==
    ASSUME NEW base \in Int, NEW exponent \in Nat, NEW m \in Nat \ {0}
    PROVE  \E f \in [0..exponent -> 0..(m - 1)] :
              /\ PowerMod(base, exponent, m) = f[exponent] /\ f[0] = 1 % m
              /\ \A i \in 1..exponent : f[i] = (f[i - 1] * (base % m)) % m
  <1> DEFINE V == 0..(m - 1)
             r == base % m
             step == [i \in 1..exponent |-> [v \in V |-> (v * r) % m]]
  <1>1. 1 % m \in V /\ r \in V /\ \A v \in V : (v * r) % m \in V
    <2>1. r \in V /\ 1 % m \in V
      BY ModFacts
    <2> SUFFICES ASSUME NEW v \in V PROVE (v * r) % m \in V
      BY <2>1
    <2> HIDE DEF r
    <2>2. v * r \in Int
      BY <2>1
    <2> QED
      BY <2>2, ModFacts
  <1> HIDE DEF V, r
  <1>2. step \in [1..exponent -> [V -> V]] /\ \A i \in 1..exponent, v \in V : step[i][v] = (v * r) % m
    BY <1>1
  <1> HIDE DEF step
  <1>3. PICK t : Steps(t, V, 1 % m, exponent, step)
    BY <1>1, <1>2, RecursiveFunction
  <1>4. t = [i \in 0..exponent |-> IF i = 0 THEN 1 % m ELSE (t[i - 1] * r) % m]
    <2>1. /\ t \in [0..exponent -> V] /\ t[0] = 1 % m
          /\ \A i \in 1..exponent : t[i] = step[i][t[i - 1]]
      BY <1>3 DEF Steps
    <2>2. ASSUME NEW i \in 0..exponent
          PROVE  t[i] = IF i = 0 THEN 1 % m ELSE (t[i - 1] * r) % m
      <3>1. CASE i = 0
        BY <2>1, <3>1
      <3>2. CASE i # 0
        <4>1. i \in 1..exponent /\ i - 1 \in 0..exponent
          BY <3>2
        <4>2. t[i - 1] \in V
          BY <2>1, <4>1
        <4>3. t[i] = (t[i - 1] * r) % m
          BY <1>2, <2>1, <4>1, <4>2
        <4> QED
          BY <3>2, <4>3
      <3> QED
        BY <3>1, <3>2
    <2> QED
      BY <2>1, <2>2
  <1> DEFINE f == CHOOSE f : Powers(base, exponent, m, f)
  <1>5. Powers(base, exponent, m, f)
    BY <1>4 DEF Powers, r
  <1>6. PowerMod(base, exponent, m) = f[exponent]
    BY DEF PowerMod, Powers
  <1> HIDE DEF f
  <1>7. f = [i \in 0..exponent |-> IF i = 0 THEN 1 % m ELSE (f[i - 1] * r) % m]
    BY <1>5 DEF Powers, r
  <1>8. f[0] = 1 % m /\ \A i \in 1..exponent : f[i] = (f[i - 1] * r) % m
    <2>1. 0 \in 0..exponent /\ \A i \in 1..exponent : i \in 0..exponent /\ i # 0
      OBVIOUS
    <2> QED
      BY <1>7, <2>1
  <1>9. \A i \in 0..exponent : f[i] \in V
    <2> DEFINE S == {i \in 0..exponent : f[i] \in V}
    <2>1. 0 \in S /\ \A i \in 1..exponent : i - 1 \in S => i \in S
      BY <1>1, <1>8
    <2> HIDE DEF S
    <2>2. 0..exponent \subseteq S
      BY <2>1, BoundedInduction
    <2> QED
      BY <2>2 DEF S
  <1>10. f \in [0..exponent -> V]
    BY <1>7, <1>9
  <1> QED
    BY <1>6, <1>8, <1>10 DEF V, r

(* A power, and the next one.                                              *)
LEMMA PowerFacts ==
    ASSUME NEW base \in Int, NEW m \in Nat \ {0}
    PROVE  /\ \A e \in Nat : PowerMod(base, e, m) \in 0..(m - 1)
           /\ PowerMod(base, 0, m) = 1 % m
           /\ \A e \in Nat : PowerMod(base, e + 1, m) = (PowerMod(base, e, m) * (base % m)) % m
  <1>1. \A e \in Nat : PowerMod(base, e, m) \in 0..(m - 1)
    <2> SUFFICES ASSUME NEW e \in Nat PROVE PowerMod(base, e, m) \in 0..(m - 1)
      OBVIOUS
    <2>1. PICK f \in [0..e -> 0..(m - 1)] : PowerMod(base, e, m) = f[e]
      BY PowerFunction
    <2>2. e \in 0..e
      OBVIOUS
    <2>3. f[e] \in 0..(m - 1)
      BY <2>1, <2>2
    <2> QED
      BY <2>1, <2>3
  <1>2. PowerMod(base, 0, m) = 1 % m
    <2>1. 0 \in Nat
      OBVIOUS
    <2>2. PICK f \in [0..0 -> 0..(m - 1)] : PowerMod(base, 0, m) = f[0] /\ f[0] = 1 % m
      BY <2>1, PowerFunction
    <2> QED
      BY <2>2
  <1>3. ASSUME NEW e \in Nat
        PROVE  PowerMod(base, e + 1, m) = (PowerMod(base, e, m) * (base % m)) % m
    <2> DEFINE r == base % m
    <2>1. PICK f \in [0..e -> 0..(m - 1)] :
              /\ PowerMod(base, e, m) = f[e] /\ f[0] = 1 % m
              /\ \A i \in 1..e : f[i] = (f[i - 1] * r) % m
      BY PowerFunction
    <2>2. PICK h \in [0..(e + 1) -> 0..(m - 1)] :
              /\ PowerMod(base, e + 1, m) = h[e + 1] /\ h[0] = 1 % m
              /\ \A i \in 1..(e + 1) : h[i] = (h[i - 1] * r) % m
      <3>1. e + 1 \in Nat
        OBVIOUS
      <3> QED
        BY <3>1, PowerFunction
    <2> HIDE DEF r
    <2> DEFINE S == {i \in 0..e : h[i] = f[i]}
    <2>3. 0 \in S
      BY <2>1, <2>2
    <2>4. ASSUME NEW i \in 1..e, i - 1 \in S PROVE i \in S
      <3>1. i \in 1..(e + 1) /\ i \in 0..e /\ h[i - 1] = f[i - 1]
        BY <2>4
      <3> QED
        BY <2>1, <2>2, <3>1
    <2>5. 0..e \subseteq S
      <3> HIDE DEF S
      <3> QED
        BY <2>3, <2>4, BoundedInduction
    <2>6. h[e] = f[e] /\ h[e + 1] = (h[e] * r) % m
      <3>1. e \in 0..e /\ e + 1 \in 1..(e + 1) /\ (e + 1) - 1 = e
        OBVIOUS
      <3>2. h[e + 1] = (h[(e + 1) - 1] * r) % m
        BY <2>2, <3>1
      <3> QED
        BY <2>5, <3>1, <3>2
    <2> QED
      BY <2>1, <2>2, <2>6 DEF r
  <1> QED
    BY <1>1, <1>2, <1>3

(* The power of a number is that of what is left of it.                    *)
LEMMA PowerOfSame ==
    ASSUME NEW b \in Int, NEW c \in Int, NEW m \in Nat \ {0}, b % m = c % m
    PROVE  \A e \in Nat : PowerMod(b, e, m) = PowerMod(c, e, m)
  <1> DEFINE S == {e \in Nat : PowerMod(b, e, m) = PowerMod(c, e, m)}
  <1>1. 0 \in S
    BY PowerFacts
  <1>2. ASSUME NEW e \in Nat, e \in S PROVE e + 1 \in S
    <2>1. /\ PowerMod(b, e + 1, m) = (PowerMod(b, e, m) * (b % m)) % m
          /\ PowerMod(c, e + 1, m) = (PowerMod(c, e, m) * (c % m)) % m
      BY PowerFacts
    <2> QED
      BY <1>2, <2>1
  <1>3. Nat \subseteq S
    <2> HIDE DEF S
    <2> QED
      BY <1>1, <1>2, SetInduction
  <1> QED
    BY <1>3

LEMMA PowerStep ==
    ASSUME NEW b \in Int, NEW m \in Nat \ {0}, NEW e \in Nat
    PROVE  /\ PowerMod(b, e, m) \in Int
           /\ PowerMod(b, e + 1, m) = (PowerMod(b, e, m) * b) % m
  <1> DEFINE p == PowerMod(b, e, m)
             r == b % m
  <1>1. p \in 0..(m - 1) /\ PowerMod(b, e + 1, m) = (p * r) % m
    BY PowerFacts
  <1>2. r \in Int
    BY ModFacts
  <1>3. (b * p) % m = ((b % m) * p) % m
    <2>1. p \in Int
      BY <1>1
    <2> HIDE DEF p
    <2> QED
      BY <2>1, ModTimes
  <1> HIDE DEF p, r
  <1>4. p * r = r * p /\ p * b = b * p /\ p \in Int
    BY <1>1, <1>2
  <1> QED
    BY <1>1, <1>3, <1>4 DEF p, r

(* Exponents are added where powers are multiplied,                        *)
LEMMA PowerOfSum ==
    ASSUME NEW b \in Int, NEW m \in Nat \ {0}, NEW i \in Nat
    PROVE  \A j \in Nat : PowerMod(b, i + j, m) = (PowerMod(b, i, m) * PowerMod(b, j, m)) % m
  <1> DEFINE p(e) == PowerMod(b, e, m)
             S == {j \in Nat : p(i + j) = (p(i) * p(j)) % m}
  <1>1. \A e \in Nat : p(e) \in 0..(m - 1) /\ p(e) \in Int /\ p(e + 1) = (p(e) * b) % m
    BY PowerFacts, PowerStep
  <1>2. p(0) = 1 % m
    BY PowerFacts
  <1> HIDE DEF p
  <1>3. 0 \in S
    <2> DEFINE q == p(i)
    <2>1. q \in Int /\ q % m = q /\ 1 \in Int
      <3>1. q \in 0..(m - 1) /\ q \in Int
        BY <1>1
      <3> HIDE DEF q
      <3>2. (m * 0 + q) % m = q
        BY <3>1, ModUnique
      <3>3. m * 0 + q = q
        BY <3>1
      <3> QED
        BY <3>1, <3>2, <3>3
    <2> HIDE DEF q
    <2>2. (1 * q) % m = ((1 % m) * q) % m
      BY <2>1, ModTimes
    <2>3. 1 * q = q /\ (1 % m) * q = q * (1 % m)
      <3>1. 1 % m \in Int
        BY ModFacts
      <3> QED
        BY <2>1, <3>1
    <2>4. i + 0 = i
      OBVIOUS
    <2> QED
      BY <1>2, <2>1, <2>2, <2>3, <2>4 DEF q
  <1>4. ASSUME NEW j \in Nat, j \in S PROVE j + 1 \in S
    <2> DEFINE q == p(i)
               r == p(j)
    <2>1. q \in Int /\ r \in Int /\ i + j \in Nat /\ p(i + j) = (q * r) % m
      BY <1>1, <1>4
    <2>2. p(j + 1) = (r * b) % m /\ p((i + j) + 1) = (p(i + j) * b) % m
      BY <1>1, <2>1
    <2> HIDE DEF q, r
    <2>3. q * r \in Int /\ r * b \in Int
      BY <2>1
    <2>4. ((q * r) * b) % m = (((q * r) % m) * b) % m
      BY <2>3, ModTimes
    <2>5. ((r * b) * q) % m = (((r * b) % m) * q) % m
      BY <2>1, <2>3, ModTimes
    <2>6. (q * r) * b = (r * b) * q
      BY <2>1
    <2>7. (r * b) % m \in Int
      BY <2>3, ModFacts
    <2>8. ((r * b) % m) * q = q * ((r * b) % m)
      BY <2>1, <2>7
    <2>9. i + (j + 1) = (i + j) + 1 /\ j + 1 \in Nat
      OBVIOUS
    <2>10. p(i + (j + 1)) = (q * p(j + 1)) % m
      BY <2>1, <2>2, <2>4, <2>5, <2>6, <2>8, <2>9
    <2> QED
      BY <2>9, <2>10 DEF q
  <1>5. Nat \subseteq S
    <2> HIDE DEF S
    <2> QED
      BY <1>3, <1>4, SetInduction
  <1> QED
    BY <1>5 DEF p

(* and multiplied where a power is raised once more.                       *)
LEMMA PowerOfPower ==
    ASSUME NEW b \in Int, NEW m \in Nat \ {0}, NEW i \in Nat
    PROVE  \A j \in Nat : PowerMod(PowerMod(b, i, m), j, m) = PowerMod(b, i * j, m)
  <1> DEFINE q == PowerMod(b, i, m)
             S == {j \in Nat : PowerMod(q, j, m) = PowerMod(b, i * j, m)}
  <1>1. q \in Int /\ PowerMod(b, 0, m) = 1 % m
    BY PowerFacts
  <1>2. 0 \in S
    <2>1. i * 0 = 0
      OBVIOUS
    <2>2. PowerMod(q, 0, m) = 1 % m
      <3> HIDE DEF q
      <3> QED
        BY <1>1, PowerFacts
    <2> QED
      BY <1>1, <2>1, <2>2
  <1>3. ASSUME NEW j \in Nat, j \in S PROVE j + 1 \in S
    <2>1. i * j \in Nat /\ i * (j + 1) = i * j + i
      OBVIOUS
    <2>2. PowerMod(q, j + 1, m) = (PowerMod(q, j, m) * q) % m
      <3> HIDE DEF q
      <3> QED
        BY <1>1, PowerStep
    <2>3. PowerMod(b, i * j + i, m) = (PowerMod(b, i * j, m) * q) % m
      BY <2>1, PowerOfSum
    <2> QED
      BY <1>3, <2>1, <2>2, <2>3
  <1>4. Nat \subseteq S
    <2> HIDE DEF S
    <2> QED
      BY <1>2, <1>3, SetInduction
  <1> QED
    BY <1>4

(* Where no product of remainders vanishes, no power does.                 *)
LEMMA PowerNotZero ==
    ASSUME NEW b \in Int, NEW m \in Nat \ {0, 1}, b % m # 0,
           \A i, j \in 1..(m - 1) : (i * j) % m # 0
    PROVE  \A e \in Nat : PowerMod(b, e, m) # 0
  <1> DEFINE S == {e \in Nat : PowerMod(b, e, m) # 0}
  <1>1. 0 \in S
    <2>1. PowerMod(b, 0, m) = 1 % m
      BY PowerFacts
    <2>2. (m * 0 + 1) % m = 1
      BY ModUnique
    <2> QED
      BY <2>1, <2>2
  <1>2. ASSUME NEW e \in Nat, e \in S PROVE e + 1 \in S
    <2>1. /\ PowerMod(b, e, m) \in 0..(m - 1)
          /\ PowerMod(b, e + 1, m) = (PowerMod(b, e, m) * (b % m)) % m
      BY PowerFacts
    <2>2. b % m \in 0..(m - 1)
      BY ModFacts
    <2>3. PowerMod(b, e, m) \in 1..(m - 1) /\ b % m \in 1..(m - 1)
      BY <1>2, <2>1, <2>2
    <2> QED
      BY <2>1, <2>3
  <1>3. Nat \subseteq S
    <2> HIDE DEF S
    <2> QED
      BY <1>1, <1>2, SetInduction
  <1> QED
    BY <1>3

-----------------------------------------------------------------------------
(***************************************************************************)
(* The bytes of a number                                                   *)
(***************************************************************************)

Bytes256 == 0..(Base - 1)

(* The recursive function of encode_flip.                                  *)
Quotients(n, f) ==
    f = [i \in 0..n |-> IF i = 0 THEN << >> ELSE <<i % Base>> \o f[i \div Base]]

LEMMA DivFacts ==
    ASSUME NEW i \in Nat \ {0}
    PROVE  /\ i % Base \in Bytes256 /\ i \div Base \in 0..(i - 1)
           /\ i = Base * (i \div Base) + (i % Base)
  <1> DEFINE q == i \div Base
             r == i % Base
  <1>1. q \in Int /\ r \in 0..(Base - 1) /\ i = Base * q + r /\ Base \in Nat /\ Base >= 2
    BY GroupAssumption, ModFacts
  <1> HIDE DEF q, r
  <1>2. q >= 0
    <2>1. CASE q <= -1
      <3>1. Base * q <= -Base
        BY <1>1, <2>1
      <3> QED
        BY <1>1, <3>1
    <2> QED
      BY <1>1, <2>1
  <1>3. q <= i - 1
    <2>1. CASE q >= i
      <3>1. Base * q >= 2 * q
        BY <1>1, <1>2
      <3> QED
        BY <1>1, <2>1, <3>1
    <2> QED
      BY <1>1, <2>1
  <1>4. r \in Bytes256 /\ q \in 0..(i - 1) /\ i = Base * q + r
    BY <1>1, <1>2, <1>3 DEF Bytes256
  <1> QED
    BY <1>4 DEF q, r

LEMMA EncodeFunction ==
    ASSUME NEW n \in Nat
    PROVE  \E f \in [0..n -> Seq(Bytes256)] :
              /\ EncodeFlip(n) = f[n] /\ f[0] = << >>
              /\ \A i \in 1..n : f[i] = <<i % Base>> \o f[i \div Base]
  <1> DEFINE V == Seq(Bytes256)
             back == [i \in 1..n |-> i \div Base]
             step == [i \in 1..n |-> [v \in V |-> <<i % Base>> \o v]]
  <1>1. << >> \in V /\ \A i \in 1..n, v \in V : <<i % Base>> \o v \in V
    <2> SUFFICES ASSUME NEW i \in 1..n, NEW v \in V PROVE <<i % Base>> \o v \in V
      OBVIOUS
    <2>1. i % Base \in Bytes256
      BY DivFacts
    <2> QED
      BY <2>1
  <1>2. \A i \in 1..n : back[i] \in 0..(i - 1) /\ back[i] = i \div Base /\ i \div Base \in 0..n
    <2> SUFFICES ASSUME NEW i \in 1..n
                 PROVE  i \div Base \in 0..(i - 1) /\ i \div Base \in 0..n
      OBVIOUS
    <2>1. i \div Base \in 0..(i - 1)
      BY DivFacts
    <2> QED
      BY <2>1
  <1> HIDE DEF V
  <1>3. /\ step \in [1..n -> [V -> V]]
        /\ \A i \in 1..n, v \in V : step[i][v] = <<i % Base>> \o v
    BY <1>1
  <1> HIDE DEF step, back
  <1>4. PICK t : StepsFrom(t, V, << >>, n, back, step)
    BY <1>1, <1>2, <1>3, RecursiveFunctionFrom
  <1>5. t = [i \in 0..n |-> IF i = 0 THEN << >> ELSE <<i % Base>> \o t[i \div Base]]
    <2>1. t \in [0..n -> V] /\ t[0] = << >> /\ \A i \in 1..n : t[i] = step[i][t[back[i]]]
      BY <1>4 DEF StepsFrom
    <2>2. ASSUME NEW i \in 0..n
          PROVE  t[i] = IF i = 0 THEN << >> ELSE <<i % Base>> \o t[i \div Base]
      <3>1. CASE i = 0
        BY <2>1, <3>1
      <3>2. CASE i # 0
        <4>1. i \in 1..n
          BY <3>2
        <4>2. t[i \div Base] \in V
          BY <1>2, <2>1, <4>1
        <4>3. t[i] = <<i % Base>> \o t[i \div Base]
          BY <1>2, <1>3, <2>1, <4>1, <4>2
        <4> QED
          BY <3>2, <4>3
      <3> QED
        BY <3>1, <3>2
    <2> QED
      BY <2>1, <2>2
  <1> DEFINE f == CHOOSE f : Quotients(n, f)
  <1>6. Quotients(n, f)
    BY <1>5 DEF Quotients
  <1>7. EncodeFlip(n) = f[n]
    BY DEF EncodeFlip, Quotients
  <1> HIDE DEF f
  <1>8. f = [i \in 0..n |-> IF i = 0 THEN << >> ELSE <<i % Base>> \o f[i \div Base]]
    BY <1>6 DEF Quotients
  <1>9. f[0] = << >> /\ \A i \in 1..n : f[i] = <<i % Base>> \o f[i \div Base]
    <2>1. 0 \in 0..n /\ \A i \in 1..n : i \in 0..n /\ i # 0
      OBVIOUS
    <2> QED
      BY <1>8, <2>1
  <1>10. \A i \in 0..n : f[i] \in V
    <2> DEFINE S == {i \in 0..n : f[i] \in V}
    <2>1. 0 \in S
      BY <1>1, <1>9
    <2>2. ASSUME NEW i \in 1..n, 0..(i - 1) \subseteq S PROVE i \in S
      <3>1. i \div Base \in S
        BY <1>2, <2>2
      <3>2. f[i \div Base] \in V /\ i \in 0..n
        BY <3>1
      <3>3. f[i] \in V
        BY <1>1, <1>9, <3>2
      <3> QED
        BY <3>2, <3>3
    <2>3. 0..n \subseteq S
      <3> HIDE DEF S
      <3>1. \A i \in 1..n : 0..(i - 1) \subseteq S => i \in S
        BY <2>2
      <3> QED
        BY <2>1, <3>1, StrongInduction, Zenon
    <2> QED
      BY <2>3
  <1>11. f \in [0..n -> V]
    BY <1>8, <1>10
  <1> QED
    BY <1>7, <1>9, <1>11 DEF V

(* The bytes of a number: its lowest, and those of what is left without it. *)
LEMMA EncodeFacts ==
    /\ \A n \in Nat : EncodeFlip(n) \in Seq(Bytes256)
    /\ EncodeFlip(0) = << >>
    /\ \A n \in Nat \ {0} : EncodeFlip(n) = <<n % Base>> \o EncodeFlip(n \div Base)
  <1>1. ASSUME NEW n \in Nat PROVE EncodeFlip(n) \in Seq(Bytes256)
    <2>1. PICK f \in [0..n -> Seq(Bytes256)] : EncodeFlip(n) = f[n]
      BY EncodeFunction
    <2> QED
      BY <2>1
  <1>2. EncodeFlip(0) = << >>
    BY EncodeFunction
  <1>3. ASSUME NEW n \in Nat \ {0} PROVE EncodeFlip(n) = <<n % Base>> \o EncodeFlip(n \div Base)
    <2> DEFINE m == n \div Base
    <2>1. m \in 0..(n - 1) /\ m \in Nat
      BY DivFacts
    <2> HIDE DEF m
    <2>2. PICK f \in [0..n -> Seq(Bytes256)] :
              /\ EncodeFlip(n) = f[n] /\ f[0] = << >>
              /\ \A i \in 1..n : f[i] = <<i % Base>> \o f[i \div Base]
      BY EncodeFunction
    <2>3. PICK h \in [0..m -> Seq(Bytes256)] :
              /\ EncodeFlip(m) = h[m] /\ h[0] = << >>
              /\ \A i \in 1..m : h[i] = <<i % Base>> \o h[i \div Base]
      BY <2>1, EncodeFunction
    <2> DEFINE S == {i \in 0..m : h[i] = f[i]}
    <2>4. 0 \in S
      BY <2>1, <2>2, <2>3
    <2>5. ASSUME NEW i \in 1..m, 0..(i - 1) \subseteq S PROVE i \in S
      <3>1. i \div Base \in 0..(i - 1) /\ i \in 1..n
        <4>1. i \in Nat \ {0} /\ i \in 1..n
          BY <2>1
        <4> QED
          BY <4>1, DivFacts
      <3>2. h[i \div Base] = f[i \div Base]
        BY <2>5, <3>1
      <3>3. h[i] = <<i % Base>> \o h[i \div Base] /\ f[i] = <<i % Base>> \o f[i \div Base]
        BY <2>2, <2>3, <3>1
      <3>4. i \in 0..m
        OBVIOUS
      <3> QED
        BY <3>2, <3>3, <3>4
    <2>6. 0..m \subseteq S
      <3> HIDE DEF S
      <3>1. \A i \in 1..m : 0..(i - 1) \subseteq S => i \in S
        BY <2>5
      <3> QED
        BY <2>1, <2>4, <3>1, StrongInduction, Zenon
    <2>7. m \in S /\ n \in 1..n
      BY <2>1, <2>6
    <2>8. h[m] = f[m] /\ f[n] = <<n % Base>> \o f[m]
      BY <2>2, <2>7 DEF m
    <2> QED
      BY <2>2, <2>3, <2>8 DEF m
  <1> QED
    BY <1>1, <1>2, <1>3

(* The recursive function of decode_flip.                                  *)
Sums(bytes, f) ==
    f = [i \in 1..(Len(bytes) + 1) |->
            IF i > Len(bytes) THEN 0 ELSE bytes[i] + Base * f[i + 1]]

LEMMA DecodeFunction ==
    ASSUME NEW bytes \in Seq(Nat)
    PROVE  \E f \in [1..(Len(bytes) + 1) -> Nat] :
              /\ DecodeFlip(bytes) = f[1] /\ f[Len(bytes) + 1] = 0
              /\ \A i \in 1..Len(bytes) : f[i] = bytes[i] + Base * f[i + 1]
  <1> DEFINE L == Len(bytes)
             step == [n \in 1..L |-> [v \in Nat |-> bytes[L + 1 - n] + Base * v]]
  <1>1. L \in Nat /\ Base \in Nat /\ \A i \in 1..L : bytes[i] \in Nat
    BY LenProperties, ElementOfSeq, GroupAssumption
  <1> HIDE DEF L
  <1>2. /\ step \in [1..L -> [Nat -> Nat]]
        /\ \A n \in 1..L, v \in Nat : step[n][v] = bytes[L + 1 - n] + Base * v
    <2>1. \A n \in 1..L, v \in Nat : bytes[L + 1 - n] + Base * v \in Nat
      <3> SUFFICES ASSUME NEW n \in 1..L, NEW v \in Nat
                   PROVE  bytes[L + 1 - n] + Base * v \in Nat
        OBVIOUS
      <3>1. L + 1 - n \in 1..L
        BY <1>1
      <3>2. Base * v \in Nat
        BY <1>1
      <3> QED
        BY <1>1, <3>1, <3>2
    <2> QED
      BY <2>1
  <1> HIDE DEF step
  <1>3. PICK t : Steps(t, Nat, 0, L, step)
    BY <1>1, <1>2, RecursiveFunction
  <1>4. /\ t \in [0..L -> Nat] /\ t[0] = 0 /\ \A n \in 1..L : t[n] = step[n][t[n - 1]]
    BY <1>3 DEF Steps
  <1> DEFINE s == [i \in 1..(L + 1) |-> t[L + 1 - i]]
  <1>5. s = [i \in 1..(L + 1) |-> IF i > L THEN 0 ELSE bytes[i] + Base * s[i + 1]]
    <2>1. ASSUME NEW i \in 1..(L + 1)
          PROVE  s[i] = IF i > L THEN 0 ELSE bytes[i] + Base * s[i + 1]
      <3>1. CASE i > L
        <4>1. i = L + 1 /\ L + 1 - i = 0
          BY <1>1, <3>1
        <4> QED
          BY <1>4, <3>1, <4>1
      <3>2. CASE ~(i > L)
        <4> DEFINE n == L + 1 - i
        <4>1. n \in 1..L /\ n - 1 \in 0..L /\ L + 1 - n = i /\ i + 1 \in 1..(L + 1)
              /\ L + 1 - (i + 1) = n - 1
          BY <1>1, <3>2
        <4>2. s[i] = t[n] /\ s[i + 1] = t[n - 1]
          BY <4>1
        <4> HIDE DEF n
        <4>3. t[n - 1] \in Nat /\ t[n] = step[n][t[n - 1]]
          BY <1>4, <4>1
        <4>4. t[n] = bytes[L + 1 - n] + Base * t[n - 1]
          BY <1>2, <4>1, <4>3
        <4> HIDE DEF s
        <4> QED
          BY <3>2, <4>1, <4>2, <4>4
      <3> QED
        BY <3>1, <3>2
    <2> QED
      BY <2>1
  <1> DEFINE f == CHOOSE f : Sums(bytes, f)
  <1>6. Sums(bytes, f)
    <2> HIDE DEF s
    <2> QED
      BY <1>5 DEF Sums, L
  <1>7. DecodeFlip(bytes) = f[1]
    BY DEF DecodeFlip, Sums
  <1> HIDE DEF f, s
  <1>8. f = [i \in 1..(L + 1) |-> IF i > L THEN 0 ELSE bytes[i] + Base * f[i + 1]]
    BY <1>6 DEF Sums, L
  <1>9. f[L + 1] = 0 /\ \A i \in 1..L : f[i] = bytes[i] + Base * f[i + 1]
    <2>1. /\ L + 1 \in 1..(L + 1) /\ L + 1 > L
          /\ \A i \in 1..L : i \in 1..(L + 1) /\ ~(i > L)
      BY <1>1
    <2> QED
      BY <1>8, <2>1
  <1>10. \A i \in 1..(L + 1) : f[i] \in Nat
    <2> DEFINE S == {n \in 0..L : f[L + 1 - n] \in Nat}
    <2>1. 0 \in S
      BY <1>1, <1>9
    <2>2. ASSUME NEW n \in 1..L, n - 1 \in S PROVE n \in S
      <3> DEFINE i == L + 1 - n
      <3>1. i \in 1..L /\ L + 1 - (n - 1) = i + 1 /\ n \in 0..L
        BY <1>1
      <3>2. f[i + 1] \in Nat
        BY <2>2, <3>1
      <3> HIDE DEF i
      <3>3. f[i] = bytes[i] + Base * f[i + 1] /\ bytes[i] \in Nat
        BY <1>1, <1>9, <3>1
      <3>4. f[i] \in Nat
        <4>1. Base * f[i + 1] \in Nat
          BY <1>1, <3>2
        <4> QED
          BY <3>3, <4>1
      <3> QED
        BY <3>1, <3>4 DEF i
    <2>3. 0..L \subseteq S
      <3> HIDE DEF S
      <3> QED
        BY <1>1, <2>1, <2>2, BoundedInduction
    <2> SUFFICES ASSUME NEW i \in 1..(L + 1) PROVE f[i] \in Nat
      OBVIOUS
    <2>4. L + 1 - i \in 0..L /\ L + 1 - (L + 1 - i) = i
      BY <1>1
    <2>5. L + 1 - i \in S
      BY <2>3, <2>4
    <2> QED
      BY <2>4, <2>5
  <1>11. f \in [1..(L + 1) -> Nat]
    BY <1>8, <1>10
  <1> QED
    BY <1>7, <1>9, <1>11 DEF L

(* What no bytes mean, and what those with one more in front do.           *)
LEMMA DecodeFacts ==
    /\ DecodeFlip(<< >>) = 0
    /\ \A s \in Seq(Nat) : DecodeFlip(s) \in Nat
    /\ \A b \in Nat, s \in Seq(Nat) : DecodeFlip(<<b>> \o s) = b + Base * DecodeFlip(s)
  <1>1. DecodeFlip(<< >>) = 0
    <2>1. << >> \in Seq(Nat) /\ Len(<< >>) = 0
      OBVIOUS
    <2>2. PICK f : DecodeFlip(<< >>) = f[1] /\ f[Len(<< >>) + 1] = 0
      BY <2>1, DecodeFunction
    <2> QED
      BY <2>1, <2>2
  <1>2. ASSUME NEW s \in Seq(Nat) PROVE DecodeFlip(s) \in Nat
    <2>1. PICK f \in [1..(Len(s) + 1) -> Nat] : DecodeFlip(s) = f[1]
      BY DecodeFunction
    <2>2. 1 \in 1..(Len(s) + 1)
      BY LenProperties
    <2> QED
      BY <2>1, <2>2
  <1>3. ASSUME NEW b \in Nat, NEW s \in Seq(Nat)
        PROVE  DecodeFlip(<<b>> \o s) = b + Base * DecodeFlip(s)
    <2> DEFINE all == <<b>> \o s
               L == Len(s)
    <2>1. /\ all \in Seq(Nat) /\ Len(all) = L + 1 /\ L \in Nat
          /\ all[1] = b /\ \A i \in 1..L : all[i + 1] = s[i]
      <3>1. <<b>> \in Seq(Nat) /\ Len(<<b>>) = 1 /\ <<b>>[1] = b /\ L \in Nat
        BY LenProperties
      <3>2. /\ all \in Seq(Nat) /\ Len(all) = Len(<<b>>) + L
            /\ \A i \in 1..(Len(<<b>>) + L) :
                  all[i] = IF i <= Len(<<b>>) THEN <<b>>[i] ELSE s[i - Len(<<b>>)]
        BY <3>1, ConcatProperties
      <3> HIDE DEF all, L
      <3>3. Len(all) = L + 1 /\ 1 \in 1..(1 + L)
        BY <3>1, <3>2
      <3>4. all[1] = b
        BY <3>1, <3>2, <3>3
      <3>5. \A i \in 1..L : i + 1 \in 1..(1 + L) /\ ~(i + 1 <= 1) /\ (i + 1) - 1 = i
        BY <3>1
      <3>6. \A i \in 1..L : all[i + 1] = s[i]
        BY <3>1, <3>2, <3>5
      <3> QED
        BY <3>1, <3>2, <3>3, <3>4, <3>6
    <2> HIDE DEF all
    <2>2. PICK h \in [1..(L + 1) -> Nat] :
              /\ DecodeFlip(s) = h[1] /\ h[L + 1] = 0
              /\ \A i \in 1..L : h[i] = s[i] + Base * h[i + 1]
      BY DecodeFunction
    <2>3. PICK f \in [1..(Len(all) + 1) -> Nat] :
              /\ DecodeFlip(all) = f[1] /\ f[Len(all) + 1] = 0
              /\ \A i \in 1..Len(all) : f[i] = all[i] + Base * f[i + 1]
      BY <2>1, DecodeFunction
    <2> HIDE DEF L
    <2> DEFINE S == {n \in 0..L : f[L + 2 - n] = h[L + 1 - n]}
    <2>4. 0 \in S
      <3>1. L + 2 - 0 = Len(all) + 1 /\ L + 1 - 0 = L + 1 /\ 0 \in 0..L
        BY <2>1
      <3> QED
        BY <2>2, <2>3, <3>1
    <2>5. ASSUME NEW n \in 1..L, n - 1 \in S PROVE n \in S
      <3> DEFINE i == L + 1 - n
      <3>1. /\ i \in 1..L /\ L + 1 - (n - 1) = i + 1 /\ L + 2 - (n - 1) = (i + 1) + 1
            /\ L + 2 - n = i + 1 /\ n \in 0..L /\ i + 1 \in 1..Len(all)
        BY <2>1
      <3>2. f[(i + 1) + 1] = h[i + 1]
        BY <2>5, <3>1
      <3> HIDE DEF i
      <3>3. f[i + 1] = all[i + 1] + Base * f[(i + 1) + 1] /\ h[i] = s[i] + Base * h[i + 1]
        BY <2>2, <2>3, <3>1
      <3>4. all[i + 1] = s[i]
        BY <2>1, <3>1
      <3>5. f[i + 1] = h[i]
        BY <3>2, <3>3, <3>4
      <3> QED
        BY <3>1, <3>5 DEF i
    <2>6. L \in S
      <3> HIDE DEF S
      <3>1. \A n \in 1..L : n - 1 \in S => n \in S
        BY <2>5
      <3>2. 0..L \subseteq S
        BY <2>1, <2>4, <3>1, BoundedInduction
      <3> QED
        BY <2>1, <3>2
    <2>7. L + 2 - L = 2 /\ L + 1 - L = 1 /\ 1 \in 1..Len(all) /\ 1 + 1 = 2
      BY <2>1
    <2>8. f[2] = h[1]
      BY <2>6, <2>7
    <2>9. f[1] = all[1] + Base * f[1 + 1]
      BY <2>3, <2>7
    <2> QED
      BY <2>1, <2>2, <2>3, <2>7, <2>8, <2>9 DEF all
  <1> QED
    BY <1>1, <1>2, <1>3

(* Bytes with zeros behind them.                                           *)
Padded(s, width) == [i \in 1..width |-> IF i <= Len(s) THEN s[i] ELSE 0]

LEMMA PadFacts ==
    ASSUME NEW s \in Seq(Bytes256), NEW width \in Nat
    PROVE  /\ Padded(s, width) \in Seq(Bytes256) /\ Padded(s, width) \in Seq(Nat)
           /\ Len(Padded(s, width)) = width
           /\ \A i \in 1..width : Padded(s, width)[i] = IF i <= Len(s) THEN s[i] ELSE 0
  <1>1. 0 \in Bytes256 /\ Bytes256 \subseteq Nat
    BY GroupAssumption DEF Bytes256
  <1>2. \A i \in 1..Len(s) : s[i] \in Bytes256
    BY ElementOfSeq
  <1>3. Len(s) \in Nat
    BY LenProperties
  <1>4. \A i \in 1..width : (IF i <= Len(s) THEN s[i] ELSE 0) \in Bytes256
    BY <1>1, <1>2, <1>3
  <1>5. Padded(s, width) \in [1..width -> Bytes256]
    BY <1>4 DEF Padded
  <1>6. Padded(s, width) \in [1..width -> Nat]
    BY <1>1, <1>5
  <1>7. \A i \in 1..width : Padded(s, width)[i] = IF i <= Len(s) THEN s[i] ELSE 0
    BY DEF Padded
  <1>8. Padded(s, width) \in Seq(Bytes256) /\ Padded(s, width) \in Seq(Nat)
    BY <1>5, <1>6
  <1>9. Len(Padded(s, width)) = width
    BY <1>5
  <1> QED
    BY <1>7, <1>8, <1>9

(* The zeros stay behind when a byte comes in front.                       *)
LEMMA PadMore ==
    ASSUME NEW b \in Bytes256, NEW s \in Seq(Bytes256), NEW width \in Nat
    PROVE  Padded(<<b>> \o s, width + 1) = <<b>> \o Padded(s, width)
  <1> DEFINE all == <<b>> \o s
             p == Padded(s, width)
             long == <<b>> \o p
             padded == Padded(all, width + 1)
  <1>1. <<b>> \in Seq(Bytes256) /\ Len(<<b>>) = 1 /\ <<b>>[1] = b /\ Len(s) \in Nat
    BY LenProperties
  <1>2. /\ all \in Seq(Bytes256) /\ Len(all) = 1 + Len(s)
        /\ \A i \in 1..(1 + Len(s)) : all[i] = IF i <= 1 THEN <<b>>[i] ELSE s[i - 1]
    BY <1>1, ConcatProperties
  <1>3. /\ p \in Seq(Bytes256) /\ Len(p) = width
        /\ \A i \in 1..width : p[i] = IF i <= Len(s) THEN s[i] ELSE 0
    BY PadFacts
  <1> HIDE DEF p
  <1>4. /\ long \in Seq(Bytes256) /\ Len(long) = 1 + width
        /\ \A i \in 1..(1 + width) : long[i] = IF i <= 1 THEN <<b>>[i] ELSE p[i - 1]
    BY <1>1, <1>3, ConcatProperties
  <1> HIDE DEF all
  <1>5. /\ padded \in Seq(Bytes256) /\ Len(padded) = width + 1
        /\ \A i \in 1..(width + 1) : padded[i] = IF i <= Len(all) THEN all[i] ELSE 0
    <2>1. width + 1 \in Nat
      OBVIOUS
    <2> QED
      BY <1>2, <2>1, PadFacts
  <1> HIDE DEF long, padded
  <1>6. ASSUME NEW i \in 1..(width + 1) PROVE padded[i] = long[i]
    <2>1. CASE i = 1
      BY <1>1, <1>2, <1>4, <1>5, <2>1
    <2>2. CASE i # 1
      <3>1. i \in 2..(width + 1) /\ i - 1 \in 1..width /\ ~(i <= 1) /\ i \in 1..(1 + width)
        BY <2>2
      <3>2. long[i] = IF i - 1 <= Len(s) THEN s[i - 1] ELSE 0
        BY <1>3, <1>4, <3>1
      <3>3. CASE i <= Len(all)
        <4>1. i \in 1..(1 + Len(s)) /\ i - 1 <= Len(s)
          BY <1>1, <1>2, <3>1, <3>3
        <4> QED
          BY <1>2, <1>5, <3>1, <3>2, <3>3, <4>1
      <3>4. CASE ~(i <= Len(all))
        <4>1. ~(i - 1 <= Len(s))
          BY <1>1, <1>2, <3>1, <3>4
        <4> QED
          BY <1>5, <3>2, <3>4, <4>1
      <3> QED
        BY <3>3, <3>4
    <2> QED
      BY <2>1, <2>2
  <1>7. padded = long
    <2>1. Len(padded) = Len(long) /\ \A i \in 1..Len(padded) : padded[i] = long[i]
      BY <1>4, <1>5, <1>6
    <2> QED
      BY <1>4, <1>5, <2>1, SeqEqual
  <1> QED
    BY <1>7 DEF padded, long, all, p

(* Zeros alone mean zero.                                                  *)
LEMMA DecodeZeros ==
    ASSUME NEW none \in Seq(Bytes256), Len(none) = 0
    PROVE  \A width \in Nat : DecodeFlip(Padded(none, width)) = 0
  <1> DEFINE Z == {width \in Nat : DecodeFlip(Padded(none, width)) = 0}
  <1>1. 0 \in Bytes256 /\ Base \in Nat
    BY GroupAssumption DEF Bytes256
  <1>2. ASSUME NEW width \in Nat
        PROVE  /\ Padded(none, width) \in Seq(Bytes256) /\ Padded(none, width) \in Seq(Nat)
               /\ Len(Padded(none, width)) = width
               /\ \A i \in 1..width : Padded(none, width)[i] = 0
    <2>1. \A i \in 1..width : ~(i <= Len(none))
      OBVIOUS
    <2> QED
      BY <2>1, PadFacts
  <1>3. 0 \in Z
    <2>1. Padded(none, 0) \in Seq(Nat) /\ Len(Padded(none, 0)) = 0
      BY <1>2
    <2>2. Padded(none, 0) = << >>
      BY <2>1, EmptySeq
    <2> QED
      BY <2>2, DecodeFacts
  <1>4. ASSUME NEW width \in Nat, width \in Z PROVE width + 1 \in Z
    <2> DEFINE p == Padded(none, width)
               long == <<0>> \o p
               more == Padded(none, width + 1)
    <2>1. /\ more \in Seq(Bytes256) /\ Len(more) = width + 1
          /\ \A i \in 1..(width + 1) : more[i] = 0
      <3>1. width + 1 \in Nat
        OBVIOUS
      <3> QED
        BY <1>2, <3>1
    <2>2. <<0>> \in Seq(Bytes256) /\ Len(<<0>>) = 1 /\ <<0>>[1] = 0
      BY <1>1
    <2>3. /\ p \in Seq(Bytes256) /\ p \in Seq(Nat) /\ Len(p) = width
          /\ \A i \in 1..width : p[i] = 0
      BY <1>2
    <2> HIDE DEF p, more
    <2>4. /\ long \in Seq(Bytes256) /\ Len(long) = 1 + width
          /\ \A i \in 1..(1 + width) : long[i] = IF i <= 1 THEN <<0>>[i] ELSE p[i - 1]
      BY <2>2, <2>3, ConcatProperties
    <2> HIDE DEF long
    <2>5. \A i \in 1..(width + 1) : long[i] = 0
      <3> SUFFICES ASSUME NEW i \in 1..(width + 1) PROVE long[i] = 0
        OBVIOUS
      <3>1. i = 1 \/ (~(i <= 1) /\ i - 1 \in 1..width)
        OBVIOUS
      <3>2. i \in 1..(1 + width)
        OBVIOUS
      <3> QED
        BY <2>2, <2>3, <2>4, <3>1, <3>2
    <2>6. Len(more) = Len(long) /\ \A i \in 1..Len(more) : more[i] = long[i]
      BY <2>1, <2>4, <2>5
    <2>7. more = long
      BY <2>1, <2>4, <2>6, SeqEqual
    <2>8. DecodeFlip(long) = 0 + Base * DecodeFlip(p)
      <3>1. DecodeFlip(<<0>> \o p) = 0 + Base * DecodeFlip(p)
        BY <2>3, DecodeFacts
      <3> QED
        BY <3>1 DEF long
    <2>9. DecodeFlip(p) = 0 /\ 0 + Base * 0 = 0
      BY <1>1, <1>4 DEF p
    <2>10. DecodeFlip(more) = 0
      BY <2>7, <2>8, <2>9
    <2> QED
      BY <2>10 DEF more
  <1>5. Nat \subseteq Z
    <2> HIDE DEF Z
    <2> QED
      BY <1>3, <1>4, SetInduction
  <1> QED
    BY <1>5

(* The bytes of a number mean it, however many zeros stand behind them.    *)
LEMMA DecodeEncode ==
    ASSUME NEW n \in Nat
    PROVE  \A width \in Nat : Len(EncodeFlip(n)) <= width =>
                DecodeFlip(Padded(EncodeFlip(n), width)) = n
  <1> DEFINE Back(m) == \A width \in Nat : Len(EncodeFlip(m)) <= width =>
                            DecodeFlip(Padded(EncodeFlip(m), width)) = m
             S == {m \in 0..n : Back(m)}
  <1>1. 0 \in S
    <2>1. EncodeFlip(0) \in Seq(Bytes256) /\ Len(EncodeFlip(0)) = 0
      <3>1. EncodeFlip(0) = << >> /\ Len(<< >>) = 0
        BY EncodeFacts
      <3>2. EncodeFlip(0) \in Seq(Bytes256)
        BY EncodeFacts
      <3> QED
        BY <3>1, <3>2
    <2>2. Back(0)
      BY <2>1, DecodeZeros
    <2> HIDE DEF Back
    <2> QED
      BY <2>2
  <1>2. ASSUME NEW m \in 1..n, 0..(m - 1) \subseteq S PROVE m \in S
    <2> DEFINE q == m \div Base
               r == m % Base
               e == EncodeFlip(q)
    <2>1. /\ r \in Bytes256 /\ q \in 0..(m - 1) /\ m = Base * q + r
          /\ EncodeFlip(m) = <<r>> \o EncodeFlip(q)
      <3>1. m \in Nat \ {0}
        OBVIOUS
      <3> QED
        BY <3>1, DivFacts, EncodeFacts
    <2> HIDE DEF q, r
    <2>2. e \in Seq(Bytes256) /\ Back(q) /\ r \in Nat /\ q \in Nat
      <3>1. q \in Nat /\ r \in Nat
        BY <2>1, GroupAssumption DEF Bytes256
      <3>2. q \in S
        BY <1>2, <2>1
      <3> QED
        BY <3>1, <3>2, EncodeFacts
    <2> HIDE DEF Back
    <2>3. ASSUME NEW width \in Nat, Len(EncodeFlip(m)) <= width
          PROVE  DecodeFlip(Padded(EncodeFlip(m), width)) = m
      <3>1. Len(EncodeFlip(m)) = 1 + Len(e) /\ Len(e) \in Nat
        <4>1. <<r>> \in Seq(Bytes256) /\ Len(<<r>>) = 1
          BY <2>1
        <4> QED
          BY <2>1, <2>2, <4>1, ConcatProperties, LenProperties
      <3>2. width - 1 \in Nat /\ Len(e) <= width - 1 /\ (width - 1) + 1 = width
        BY <2>3, <3>1
      <3> HIDE DEF e
      <3>3. Padded(<<r>> \o e, (width - 1) + 1) = <<r>> \o Padded(e, width - 1)
        BY <2>1, <2>2, <3>2, PadMore
      <3>4. Padded(e, width - 1) \in Seq(Nat)
        BY <2>2, <3>2, PadFacts
      <3>5. DecodeFlip(<<r>> \o Padded(e, width - 1)) = r + Base * DecodeFlip(Padded(e, width - 1))
        BY <2>2, <3>4, DecodeFacts
      <3>6. DecodeFlip(Padded(e, width - 1)) = q
        BY <2>2, <3>2 DEF e, Back
      <3>7. r + Base * q = Base * q + r
        BY <2>2, GroupAssumption
      <3> QED
        BY <2>1, <3>2, <3>3, <3>5, <3>6, <3>7 DEF e
    <2>4. Back(m) /\ m \in 0..n
      BY <2>3 DEF Back
    <2> QED
      BY <2>4
  <1>3. 0..n \subseteq S
    <2> HIDE DEF S
    <2>1. \A m \in 1..n : 0..(m - 1) \subseteq S => m \in S
      BY <1>2
    <2> QED
      BY <1>1, <2>1, StrongInduction, Zenon
  <1> QED
    BY <1>3

(* No two numbers have the same bytes.                                     *)
LEMMA EncodeInjective ==
    \A m, n \in Nat : EncodeFlip(m) = EncodeFlip(n) => m = n
  <1> SUFFICES ASSUME NEW m \in Nat, NEW n \in Nat, EncodeFlip(m) = EncodeFlip(n)
               PROVE  m = n
    OBVIOUS
  <1>1. Len(EncodeFlip(m)) \in Nat /\ Len(EncodeFlip(m)) <= Len(EncodeFlip(m))
    <2>1. EncodeFlip(m) \in Seq(Bytes256)
      BY EncodeFacts
    <2>2. Len(EncodeFlip(m)) \in Nat
      BY <2>1, LenProperties
    <2> QED
      BY <2>2
  <1> QED
    BY <1>1, DecodeEncode

-----------------------------------------------------------------------------
(***************************************************************************)
(* SRP6                                                                    *)
(***************************************************************************)

LEMMA FlipFacts ==
    ASSUME NEW S, NEW s \in Seq(S)
    PROVE  Flip(s) \in Seq(S) /\ Flip(Flip(s)) = s
  <1> DEFINE L == Len(s)
             f == Flip(s)
  <1>1. L \in Nat /\ \A i \in 1..L : s[i] \in S
    BY LenProperties, ElementOfSeq
  <1>2. \A i \in 1..L : L + 1 - i \in 1..L /\ L + 1 - (L + 1 - i) = i
    BY <1>1
  <1>3. f \in [1..L -> S]
    BY <1>1, <1>2 DEF Flip
  <1>4. f \in Seq(S) /\ Len(f) = L
    BY <1>1, <1>3
  <1>5. \A i \in 1..L : f[i] = s[L + 1 - i]
    BY DEF Flip
  <1>6. \A t \in Seq(S) : Flip(t) = [i \in 1..Len(t) |-> t[Len(t) + 1 - i]]
    BY DEF Flip
  <1> HIDE DEF f
  <1>7. Flip(f) = [i \in 1..L |-> f[L + 1 - i]]
    BY <1>4, <1>6
  <1>8. \A i \in 1..L : f[L + 1 - i] = s[i]
    BY <1>2, <1>5
  <1>9. Flip(f) = [i \in 1..L |-> s[i]]
    BY <1>7, <1>8
  <1>10. s = [i \in 1..L |-> s[i]]
    OBVIOUS
  <1> QED
    BY <1>4, <1>9, <1>10 DEF f

(* The order of the mode can be taken back.                                *)
LEMMA OrderFacts ==
    ASSUME NEW S, NEW s \in Seq(S)
    PROVE  InOrder(s) \in Seq(S) /\ InOrder(InOrder(s)) = s
  BY FlipFacts DEF InOrder

(* A number of the group comes out of an array as it went in.              *)
LEMMA ArrayRoundTrip ==
    ASSUME NEW n \in 0..(N - 1)
    PROVE  DecodeFlip(InOrder(ToArray(n))) = n
  <1> DEFINE e == EncodeFlip(n)
  <1>1. n \in Nat /\ ArraySize \in Nat /\ Len(e) <= ArraySize
    BY GroupAssumption, ArrayAssumption
  <1>2. e \in Seq(Bytes256)
    BY <1>1, EncodeFacts
  <1>3. DecodeFlip(Padded(e, ArraySize)) = n
    BY <1>1, DecodeEncode
  <1>4. Encode1363Flip(n) = Padded(e, ArraySize)
    BY DEF Encode1363Flip, Padded
  <1>5. Padded(e, ArraySize) \in Seq(Bytes256)
    BY <1>1, <1>2, PadFacts
  <1> HIDE DEF e
  <1>6. InOrder(InOrder(Padded(e, ArraySize))) = Padded(e, ArraySize)
    BY <1>5, OrderFacts
  <1> QED
    BY <1>3, <1>4, <1>6 DEF ToArray

-----------------------------------------------------------------------------
(* What the server reckons with is the power of g that the client would    *)
(* take,                                                                   *)
LEMMA ServerAgrees ==
    ASSUME NEW a \in Nat, NEW b \in Nat, NEW h \in Nat, NEW w \in Nat
    PROVE  PowerMod(PowerMod(g, a, N) * PowerMod(PowerMod(g, w, N), h, N), b, N)
              = PowerMod(g, b * (a + h * w), N)
  <1> DEFINE p(e) == PowerMod(g, e, N)
             left == p(a) * PowerMod(p(w), h, N)
             i == a + h * w
  <1>1. g \in Int /\ N \in Nat \ {0} /\ w * h \in Nat /\ w * h = h * w /\ i \in Nat
    BY GroupAssumption
  <1>2. PowerMod(p(w), h, N) = p(w * h)
    BY <1>1, PowerOfPower
  <1>3. p(a + w * h) = (p(a) * p(w * h)) % N
    BY <1>1, PowerOfSum
  <1>4. \A e \in Nat : p(e) \in 0..(N - 1) /\ p(e) \in Int
    BY <1>1, PowerFacts
  <1>5. PowerMod(p(i), b, N) = p(i * b)
    BY <1>1, PowerOfPower
  <1> HIDE DEF p
  <1>6. left = p(a) * p(w * h) /\ left \in Int
    BY <1>1, <1>2, <1>4
  <1> HIDE DEF left
  <1>7. p(i) = left % N
    BY <1>1, <1>3, <1>6
  <1>8. p(i) % N = left % N
    BY <1>1, <1>6, <1>7, ModTwice
  <1>9. i * b = b * i /\ p(i) \in Int
    BY <1>1, <1>4
  <1> HIDE DEF i
  <1>10. PowerMod(left, b, N) = PowerMod(p(i), b, N)
    BY <1>1, <1>6, <1>8, <1>9, PowerOfSame
  <1>11. PowerMod(left, b, N) = p(b * i)
    BY <1>5, <1>9, <1>10
  <1> QED
    BY <1>11 DEF left, p, i

(* and so does the client if it knows the password.                        *)
ClientPower(a, b, h, w) ==
    PowerMod(((k * PowerMod(g, w, N) + PowerMod(g, b, N)) % N) - k * PowerMod(g, w, N),
             a + h * w, N)

LEMMA ClientAgrees ==
    ASSUME NEW a \in Nat, NEW b \in Nat, NEW h \in Nat, NEW w \in Nat
    PROVE  ClientPower(a, b, h, w) = PowerMod(g, b * (a + h * w), N)
  <1> DEFINE v == PowerMod(g, w, N)
             q == PowerMod(g, b, N)
             i == a + h * w
             B == (k * v + q) % N
             left == B - k * v
  <1>1. g \in Int /\ N \in Nat \ {0} /\ i \in Nat
    BY GroupAssumption
  <1>2. v \in Int /\ q \in Int
    BY <1>1, PowerFacts
  <1>3. PowerMod(q, i, N) = PowerMod(g, b * i, N)
    BY <1>1, PowerOfPower
  <1> HIDE DEF q, i, v
  <1> DEFINE c == k * v
  <1>4. c \in Int /\ -c \in Int /\ c + q \in Int /\ (c + q) + (-c) = q
    BY <1>2 DEF k
  <1>5. ((c + q) + (-c)) % N = (((c + q) % N) + (-c)) % N
    BY <1>1, <1>4, ModPlus
  <1>6. B \in Int
    BY <1>1, <1>4, ModFacts
  <1> HIDE DEF c
  <1>7. left = B + (-c) /\ left \in Int
    BY <1>4, <1>6 DEF c
  <1>8. left % N = q % N
    BY <1>4, <1>5, <1>7 DEF c
  <1> HIDE DEF left, B
  <1>9. PowerMod(left, i, N) = PowerMod(q, i, N)
    <2>1. left \in Int
      BY <1>7
    <2>2. \A e \in Nat : PowerMod(left, e, N) = PowerMod(q, e, N)
      BY <1>1, <1>2, <1>8, <2>1, PowerOfSame, Zenon
    <2> QED
      BY <1>1, <2>2
  <1> QED
    BY <1>3, <1>9 DEF ClientPower, left, B, q, i, v

(* No A that is not 0 modulo N makes the server's key vanish.              *)
LEMMA KeyNotZero ==
    ASSUME NEW A \in Nat, A % N # 0, NEW b \in Nat, NEW h \in Nat, NEW w \in Nat
    PROVE  PowerMod(A * PowerMod(PowerMod(g, w, N), h, N), b, N) # 0
  <1> DEFINE v == PowerMod(g, w, N)
             p == PowerMod(v, h, N)
  <1>1. g \in Int /\ N \in Nat \ {0, 1} /\ N \in Nat \ {0} /\ g % N # 0
        /\ \A i, j \in 1..(N - 1) : (i * j) % N # 0
    BY GroupAssumption
  <1>2. v # 0 /\ v \in 0..(N - 1)
    BY <1>1, PowerNotZero, PowerFacts
  <1> HIDE DEF v
  <1>3. v % N = v
    <2>1. (N * 0 + v) % N = v /\ N * 0 + v = v
      BY <1>1, <1>2, ModUnique
    <2> QED
      BY <2>1
  <1>4. p # 0 /\ p \in 0..(N - 1)
    <2>1. v \in Int /\ v % N # 0
      BY <1>2, <1>3
    <2>2. \A e \in Nat : PowerMod(v, e, N) # 0
      BY <1>1, <2>1, PowerNotZero, Zenon
    <2>3. \A e \in Nat : PowerMod(v, e, N) \in 0..(N - 1)
      BY <1>1, <2>1, PowerFacts
    <2> QED
      BY <2>2, <2>3
  <1> HIDE DEF p
  <1>5. (A * p) % N = ((A % N) * p) % N /\ A * p \in Int
    <2>1. A \in Int /\ p \in Int
      BY <1>4
    <2>2. (A * p) % N = ((A % N) * p) % N
      BY <1>1, <2>1, ModTimes, Zenon
    <2> QED
      BY <2>1, <2>2
  <1>6. A % N \in 1..(N - 1) /\ p \in 1..(N - 1)
    BY <1>1, <1>4, ModFacts
  <1>7. (A * p) % N # 0
    BY <1>1, <1>5, <1>6
  <1>8. PowerMod(A * p, b, N) # 0
    BY <1>1, <1>5, <1>7, PowerNotZero
  <1> QED
    BY <1>8 DEF p, v

(* The power of g that both keys are to be.                                *)
Agreed == PowerMod(g, secretB * (secretA + u * x.upper), N)

Registered ==
    verifier # NoValue => /\ x \in [upper : Hashes, typed : Hashes]
                          /\ verifier = PowerMod(g, x.upper, N)

BothThere ==
    /\ publicA # NoValue => /\ verifier # NoValue /\ secretA \in Secrets
                            /\ publicA = PowerMod(g, secretA, N)
    /\ publicB # NoValue => /\ verifier # NoValue /\ secretB \in Secrets
                            /\ publicB = (k * verifier + PowerMod(g, secretB, N)) % N

OneHash == u # NoValue => u \in Hashes /\ publicA # NoValue

(* Each side's key is the power agreed on, unless the client took the      *)
(* credentials as typed or the server's A is another.                      *)
ClientsKey ==
    keyClient # NoValue => /\ publicA # NoValue /\ publicB # NoValue /\ u # NoValue
                           /\ ~typed => keyClient = Agreed
ServersKey ==
    /\ keyServer # 0
    /\ keyServer # NoValue => /\ publicA # NoValue /\ publicB # NoValue /\ receivedA \in Nat
                              /\ receivedA = publicA => u # NoValue /\ keyServer = Agreed

(* The proofs are made of those keys.                                      *)
ClientsProof ==
    proofClient # NoProof =>
        /\ keyClient # NoValue
        /\ proofClient = GenerateClientProof(publicA, publicB, SessionKey(keyClient))
ServersProof ==
    proofServer # NoProof =>
        /\ proofClient # NoProof
        /\ ~typed /\ proofServer[1] = InOrder(EncodeFlip(publicA)) =>
               /\ proofHolds
               /\ proofServer = ServerProofOf(publicA, proofClient, SessionKey(keyClient))

SrpInv == /\ Registered /\ BothThere /\ OneHash /\ ClientsKey /\ ServersKey
          /\ ClientsProof /\ ServersProof

LEMMA SrpConstants ==
    /\ g \in Int /\ N \in Nat \ {0} /\ \A v \in Secrets \cup Hashes \cup ForeignA : v \in Nat
    /\ NoValue \notin Nat /\ NoValue \notin Hashes /\ NoValue # 0
    /\ \A e \in Nat : PowerMod(g, e, N) \in 0..(N - 1) /\ PowerMod(g, e, N) \in Nat
    /\ \A n \in Int : n % N \in 0..(N - 1)
  <1>1. g \in Int /\ N \in Nat \ {0}
    BY GroupAssumption
  <1>2. NoValue \notin Nat /\ NoValue # 0
    BY DEF NoValue
  <1>3. \A e \in Nat : PowerMod(g, e, N) \in 0..(N - 1)
    BY <1>1, PowerFacts
  <1>4. \A n \in Int : n % N \in 0..(N - 1)
    BY <1>1, ModFacts
  <1>5. \A e \in Nat : PowerMod(g, e, N) \in Nat
    BY <1>1, <1>3
  <1>6. /\ \A v \in Secrets \cup Hashes \cup ForeignA : v \in Nat
        /\ NoValue \notin Hashes
    BY <1>2, ValuesAssumption
  <1> QED
    BY <1>1, <1>2, <1>3, <1>4, <1>5, <1>6, Zenon

LEMMA GenerateVerifierInv ==
    ASSUME SrpInv, GenerateVerifier
    PROVE  SrpInv'
  <1>1. publicA = NoValue /\ publicB = NoValue /\ verifier = NoValue
    BY DEF SrpInv, BothThere, GenerateVerifier
  <1>2. /\ u = NoValue /\ keyClient = NoValue /\ keyServer = NoValue
        /\ proofClient = NoProof /\ proofServer = NoProof
    BY <1>1 DEF SrpInv, OneHash, ClientsKey, ServersKey, ClientsProof, ServersProof
  <1>3. /\ u' = NoValue /\ keyClient' = NoValue /\ keyServer' = NoValue
        /\ publicA' = NoValue /\ publicB' = NoValue
        /\ proofClient' = NoProof /\ proofServer' = NoProof
    BY <1>1, <1>2 DEF GenerateVerifier, proofVars
  <1>4. Registered'
    BY DEF GenerateVerifier, Registered
  <1> QED
    BY <1>3, <1>4, SrpConstants
       DEF SrpInv, BothThere, OneHash, ClientsKey, ServersKey, ClientsProof, ServersProof

LEMMA NewServerInv ==
    ASSUME SrpInv, NewServer
    PROVE  SrpInv'
  <1>1. publicB = NoValue /\ verifier # NoValue
    BY DEF NewServer
  <1>2. /\ keyClient = NoValue /\ keyServer = NoValue
        /\ proofClient = NoProof /\ proofServer = NoProof
    BY <1>1 DEF SrpInv, ClientsKey, ServersKey, ClientsProof, ServersProof
  <1>3. /\ keyClient' = NoValue /\ keyServer' = NoValue
        /\ proofClient' = NoProof /\ proofServer' = NoProof
    BY <1>2 DEF NewServer, proofVars
  <1>4. Registered' /\ OneHash'
    BY DEF NewServer, SrpInv, Registered, OneHash
  <1>5. BothThere'
    BY DEF NewServer, SrpInv, BothThere
  <1> QED
    BY <1>3, <1>4, <1>5, SrpConstants DEF SrpInv, ClientsKey, ServersKey, ClientsProof, ServersProof

LEMMA NewClientInv ==
    ASSUME SrpInv, NewClient
    PROVE  SrpInv'
  <1>1. publicA = NoValue /\ verifier # NoValue
    BY DEF NewClient
  <1>2. /\ u = NoValue /\ keyClient = NoValue /\ keyServer = NoValue
        /\ proofClient = NoProof /\ proofServer = NoProof
    BY <1>1 DEF SrpInv, OneHash, ClientsKey, ServersKey, ClientsProof, ServersProof
  <1>3. /\ u' = NoValue /\ keyClient' = NoValue /\ keyServer' = NoValue
        /\ proofClient' = NoProof /\ proofServer' = NoProof
    BY <1>2 DEF NewClient, proofVars
  <1>4. Registered'
    BY DEF NewClient, SrpInv, Registered
  <1>5. BothThere'
    BY DEF NewClient, SrpInv, BothThere
  <1> QED
    BY <1>3, <1>4, <1>5, SrpConstants
       DEF SrpInv, OneHash, ClientsKey, ServersKey, ClientsProof, ServersProof

LEMMA HashOfFacts ==
    ASSUME SrpInv, publicA # NoValue, NEW A, NEW h \in HashOf(A)
    PROVE  h \in Hashes /\ h \in Nat /\ h # NoValue /\ (A = publicA /\ u # NoValue => h = u)
  BY SrpConstants DEF HashOf, SrpInv, OneHash

(* Whoever is there, his numbers are natural ones.                         *)
LEMMA Numbers ==
    ASSUME SrpInv, publicA # NoValue, publicB # NoValue
    PROVE  /\ secretA \in Nat /\ secretB \in Nat /\ x.upper \in Nat
           /\ verifier = PowerMod(g, x.upper, N) /\ publicA = PowerMod(g, secretA, N)
           /\ publicB = (k * verifier + PowerMod(g, secretB, N)) % N
           /\ publicA \in Nat
  <1>1. /\ secretA \in Secrets /\ secretB \in Secrets /\ verifier # NoValue
        /\ publicA = PowerMod(g, secretA, N)
        /\ publicB = (k * verifier + PowerMod(g, secretB, N)) % N
    BY DEF SrpInv, BothThere
  <1>2. x.upper \in Hashes /\ verifier = PowerMod(g, x.upper, N)
    BY <1>1 DEF SrpInv, Registered
  <1>3. secretA \in Nat /\ secretB \in Nat /\ x.upper \in Nat
    BY <1>1, <1>2, SrpConstants
  <1>4. publicA \in Nat
    BY <1>1, <1>3, SrpConstants
  <1> QED
    BY <1>1, <1>2, <1>3, <1>4

LEMMA ClientSessionKeyInv ==
    ASSUME SrpInv, ClientSessionKey
    PROVE  SrpInv'
  <1>1. /\ publicA # NoValue /\ publicB # NoValue /\ keyClient = NoValue
        /\ u' \in HashOf(publicA)
        /\ UNCHANGED <<x, verifier, secretA, secretB, publicA, publicB, receivedA, keyServer,
                       compliance, proofVars>>
    BY DEF ClientSessionKey
  <1>2. u' \in Hashes /\ u' \in Nat /\ u' # NoValue /\ (u # NoValue => u' = u)
    BY <1>1, HashOfFacts
  <1>3. proofClient' = NoProof /\ proofServer' = NoProof
    BY <1>1 DEF SrpInv, ClientsProof, ServersProof, proofVars
  <1>4. ASSUME ~typed' PROVE keyClient' = Agreed'
    <2>1. keyClient' = PowerMod(publicB - k * PowerMod(g, x.upper, N), secretA + u' * x.upper, N)
      BY <1>4 DEF ClientSessionKey
    <2>2. /\ secretA \in Nat /\ secretB \in Nat /\ x.upper \in Nat
          /\ verifier = PowerMod(g, x.upper, N)
          /\ publicB = (k * verifier + PowerMod(g, secretB, N)) % N
      BY <1>1, Numbers
    <2> DEFINE w == x.upper
               h == u'
    <2> HIDE DEF w, h
    <2>5. w \in Nat /\ h \in Nat /\ verifier = PowerMod(g, w, N)
      BY <1>2, <2>2 DEF w, h
    <2>7. ClientPower(secretA, secretB, h, w) = PowerMod(g, secretB * (secretA + h * w), N)
      BY <2>2, <2>5, ClientAgrees
    <2>6. PowerMod(((k * verifier + PowerMod(g, secretB, N)) % N) - k * verifier,
                   secretA + h * w, N)
             = PowerMod(g, secretB * (secretA + h * w), N)
      BY <2>5, <2>7 DEF ClientPower
    <2>3. PowerMod(((k * verifier + PowerMod(g, secretB, N)) % N) - k * verifier,
                   secretA + u' * x.upper, N)
             = PowerMod(g, secretB * (secretA + u' * x.upper), N)
      BY <2>6 DEF w, h
    <2>4. keyClient' = PowerMod(g, secretB * (secretA + u' * x.upper), N)
      BY <2>1, <2>2, <2>3
    <2> QED
      BY <1>1, <2>4 DEF Agreed
  <1>5. Registered' /\ BothThere' /\ OneHash'
    BY <1>1, <1>2 DEF SrpInv, Registered, BothThere, OneHash
  <1>6. ClientsKey'
    BY <1>1, <1>2, <1>4 DEF ClientsKey
  <1>7. ServersKey'
    <2>1. keyServer # NoValue /\ receivedA = publicA => Agreed' = Agreed
      BY <1>1, <1>2 DEF SrpInv, ServersKey, Agreed
    <2> QED
      BY <1>1, <1>2, <2>1 DEF SrpInv, ServersKey
  <1> QED
    BY <1>3, <1>5, <1>6, <1>7 DEF SrpInv, ClientsProof, ServersProof

LEMMA ServerSessionKeyInv ==
    ASSUME SrpInv, NEW A \in ForeignA \cup {publicA}, ServerSessionKey(A)
    PROVE  SrpInv'
  <1>1. /\ publicA # NoValue /\ publicB # NoValue /\ A % N # 0 /\ receivedA' = A
        /\ UNCHANGED <<x, verifier, secretA, secretB, publicA, publicB, typed, keyClient,
                       compliance, proofVars>>
    BY DEF ServerSessionKey
  <1>2. PICK h \in HashOf(A) :
            u' = (IF A = publicA THEN h ELSE u) /\ keyServer' = ServerKeyOf(A, h)
    BY DEF ServerSessionKey
  <1>3. h \in Hashes /\ h \in Nat /\ h # NoValue /\ (A = publicA /\ u # NoValue => h = u)
    BY <1>1, HashOfFacts
  <1>4. /\ secretA \in Nat /\ secretB \in Nat /\ x.upper \in Nat
        /\ verifier = PowerMod(g, x.upper, N) /\ publicA = PowerMod(g, secretA, N)
        /\ publicA \in Nat
    BY <1>1, Numbers
  <1>5. A \in Nat
    BY <1>4, SrpConstants
  <1>6. keyServer' # 0
    BY <1>1, <1>2, <1>3, <1>4, <1>5, KeyNotZero DEF ServerKeyOf
  <1>7. u # NoValue => u' = u
    BY <1>2, <1>3
  <1>8. ASSUME A = publicA PROVE u' # NoValue /\ keyServer' = Agreed'
    <2>1. u' = h
      BY <1>2, <1>8
    <2> DEFINE w == x.upper
    <2> HIDE DEF w
    <2>4. w \in Nat
      BY <1>4 DEF w
    <2>5. PowerMod(PowerMod(g, secretA, N) * PowerMod(PowerMod(g, w, N), h, N), secretB, N)
              = PowerMod(g, secretB * (secretA + h * w), N)
      BY <1>3, <1>4, <2>4, ServerAgrees
    <2>2. PowerMod(PowerMod(g, secretA, N) * PowerMod(PowerMod(g, x.upper, N), h, N), secretB, N)
              = PowerMod(g, secretB * (secretA + h * x.upper), N)
      BY <2>5 DEF w
    <2>3. keyServer' = PowerMod(g, secretB * (secretA + h * x.upper), N)
      BY <1>2, <1>4, <1>8, <2>2 DEF ServerKeyOf
    <2> QED
      BY <1>1, <1>3, <2>1, <2>3 DEF Agreed
  <1>9. Registered' /\ BothThere'
    BY <1>1 DEF SrpInv, Registered, BothThere
  <1>10. OneHash'
    BY <1>1, <1>2, <1>3 DEF SrpInv, OneHash
  <1>11. ClientsKey'
    <2>1. keyClient # NoValue => Agreed' = Agreed /\ u' = u
      BY <1>1, <1>7 DEF SrpInv, ClientsKey, Agreed
    <2> QED
      BY <1>1, <2>1 DEF SrpInv, ClientsKey
  <1>12. ServersKey'
    BY <1>1, <1>5, <1>6, <1>8 DEF ServersKey
  <1>13. ClientsProof' /\ ServersProof'
    BY <1>1 DEF SrpInv, ClientsProof, ServersProof, proofVars, SessionKey, InOrder,
                ServerProofOf
  <1> QED
    BY <1>9, <1>10, <1>11, <1>12, <1>13 DEF SrpInv

LEMMA ClientProofInv ==
    ASSUME SrpInv, ClientProof
    PROVE  SrpInv'
  <1>1. proofServer = NoProof /\ proofServer' = NoProof
    BY DEF SrpInv, ServersProof, ClientProof
  <1>2. UNCHANGED exchangeVars
    BY DEF ClientProof
  <1>3. Registered' /\ BothThere' /\ OneHash' /\ ClientsKey' /\ ServersKey'
    BY <1>2 DEF SrpInv, exchangeVars, Registered, BothThere, OneHash, ClientsKey, ServersKey, Agreed
  <1>4. ClientsProof'
    BY <1>2 DEF ClientProof, ClientsProof, exchangeVars, SessionKey, InOrder
  <1> QED
    BY <1>1, <1>3, <1>4 DEF SrpInv, ServersProof

LEMMA ServerProofInv ==
    ASSUME SrpInv, ServerProof
    PROVE  SrpInv'
  <1>1. UNCHANGED exchangeVars /\ proofClient' = proofClient
    BY DEF ServerProof
  <1>2. Registered' /\ BothThere' /\ OneHash' /\ ClientsKey' /\ ServersKey'
    BY <1>1 DEF SrpInv, exchangeVars, Registered, BothThere, OneHash, ClientsKey, ServersKey, Agreed
  <1>3. ClientsProof'
    BY <1>1 DEF SrpInv, ClientsProof, exchangeVars, SessionKey, InOrder
  <1>4. /\ keyServer # NoValue /\ proofClient # NoProof
        /\ proofServer' = ServerProofOf(receivedA, proofClient, SessionKey(keyServer))
        /\ proofHolds' = (proofClient = GenerateClientProof(receivedA, publicB, SessionKey(keyServer)))
    BY DEF ServerProof
  <1>5. /\ keyClient # NoValue /\ publicA # NoValue /\ publicB # NoValue /\ receivedA \in Nat
        /\ proofClient = GenerateClientProof(publicA, publicB, SessionKey(keyClient))
    BY <1>4 DEF SrpInv, ClientsProof, ClientsKey, ServersKey
  <1>6. ASSUME ~typed, proofServer'[1] = InOrder(EncodeFlip(publicA))
        PROVE  /\ proofHolds'
               /\ proofServer' = ServerProofOf(publicA, proofClient, SessionKey(keyClient))
    <2>1. InOrder(EncodeFlip(receivedA)) = InOrder(EncodeFlip(publicA))
      BY <1>4, <1>6 DEF ServerProofOf
    <2>2. publicA \in Nat
      BY <1>5, Numbers
    <2>3. EncodeFlip(receivedA) = EncodeFlip(publicA)
      <3>1. EncodeFlip(receivedA) \in Seq(Bytes256) /\ EncodeFlip(publicA) \in Seq(Bytes256)
        BY <1>5, <2>2, EncodeFacts
      <3>2. /\ InOrder(InOrder(EncodeFlip(receivedA))) = EncodeFlip(receivedA)
            /\ InOrder(InOrder(EncodeFlip(publicA))) = EncodeFlip(publicA)
        BY <3>1, OrderFacts
      <3> QED
        BY <2>1, <3>2
    <2>4. receivedA = publicA
      BY <1>5, <2>2, <2>3, EncodeInjective
    <2>5. keyServer = Agreed /\ keyClient = Agreed
      BY <1>4, <1>5, <1>6, <2>4 DEF SrpInv, ClientsKey, ServersKey
    <2> QED
      BY <1>4, <1>5, <2>4, <2>5
  <1>7. ServersProof'
    <2>1. UNCHANGED <<publicA, keyClient, compliance, typed>>
      BY <1>1 DEF exchangeVars
    <2> QED
      BY <1>1, <1>4, <1>6, <2>1 DEF ServersProof, ServerProofOf, SessionKey, InOrder
  <1> QED
    BY <1>2, <1>3, <1>7 DEF SrpInv

(* ProofsAccepted, for every group, every hash and numbers of any length.   *)
THEOREM KeysAgree == SrpSpec => []ProofsAccepted
  <1>1. SrpInit => SrpInv
    <2> SUFFICES ASSUME SrpInit PROVE SrpInv
      OBVIOUS
    <2>1. NoValue # 0
      BY SrpConstants
    <2> QED
      BY <2>1 DEF SrpInit, SrpInv, Registered, BothThere, OneHash, ClientsKey, ServersKey,
                  ClientsProof, ServersProof
  <1>2. SrpInv /\ [SrpNext]_srpVars => SrpInv'
    <2> SUFFICES ASSUME SrpInv, [SrpNext]_srpVars PROVE SrpInv'
      OBVIOUS
    <2>1. CASE UNCHANGED srpVars
      BY <2>1 DEF srpVars, exchangeVars, proofVars, SrpInv, Registered, BothThere, OneHash,
                  ClientsKey, ServersKey, ClientsProof, ServersProof, Agreed, SessionKey,
                  InOrder, ServerProofOf
    <2>2. CASE \E A \in ForeignA \cup {publicA} : ServerSessionKey(A)
      BY <2>2, ServerSessionKeyInv
    <2> QED
      BY <2>1, <2>2, GenerateVerifierInv, NewServerInv, NewClientInv, ClientSessionKeyInv,
         ClientProofInv, ServerProofInv DEF SrpNext
  <1>3. SrpInv => ProofsAccepted
    <2> SUFFICES ASSUME SrpInv PROVE ProofsAccepted
      OBVIOUS
    <2>1. \A value \in {publicA, publicB} \ {NoValue} : value \in 0..(N - 1)
      <3>1. publicA # NoValue => publicA \in 0..(N - 1)
        BY SrpConstants DEF SrpInv, BothThere
      <3>2. publicB # NoValue => publicB \in 0..(N - 1)
        <4> SUFFICES ASSUME publicB # NoValue PROVE publicB \in 0..(N - 1)
          OBVIOUS
        <4>1. /\ verifier # NoValue /\ secretB \in Secrets
              /\ publicB = (k * verifier + PowerMod(g, secretB, N)) % N
          BY DEF SrpInv, BothThere
        <4>2. x.upper \in Hashes /\ verifier = PowerMod(g, x.upper, N)
          BY <4>1 DEF SrpInv, Registered
        <4>3. verifier \in Nat /\ PowerMod(g, secretB, N) \in Nat
          BY <4>1, <4>2, SrpConstants
        <4>4. k * verifier + PowerMod(g, secretB, N) \in Int
          BY <4>3 DEF k
        <4> QED
          BY <4>1, <4>4, SrpConstants
      <3> QED
        BY <3>1, <3>2
    <2>2. \A value \in {publicA, publicB} \ {NoValue} : DecodeFlip(InOrder(ToArray(value))) = value
      BY <2>1, ArrayRoundTrip
    <2> QED
      BY <2>2 DEF SrpInv, ServersKey, ServersProof, ProofsAccepted
  <1> QED
    BY <1>1, <1>2, <1>3, PTL DEF SrpSpec
=============================================================================
