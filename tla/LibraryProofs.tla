---------------------------- MODULE LibraryProofs ----------------------------
(***************************************************************************)
(* What the parts of the library that no other part's threads run through  *)
(* promise, for data of every size.                                        *)
(***************************************************************************)
EXTENDS MemoryStream, Zip, DataRouter, Text, ConfigFile, KeycapEnum,
        SequenceTheorems, FiniteSetTheorems, WellFoundedInduction, TLAPS

(***************************************************************************)
(* Sequences                                                               *)
(***************************************************************************)

(* What is left of a sequence without its first n elements.                *)
LEMMA DropFacts ==
    ASSUME NEW S, NEW s \in Seq(S), NEW n \in Nat
    PROVE  /\ Drop(s, n) \in Seq(S)
           /\ Len(s) \in Nat
           /\ Len(Drop(s, n)) = IF n <= Len(s) THEN Len(s) - n ELSE 0
           /\ \A i \in 1..Len(Drop(s, n)) : Drop(s, n)[i] = s[n + i]
  <1>1. Len(s) \in Nat /\ \A i \in (n + 1)..Len(s) : s[i] \in S
    BY LenProperties, ElementOfSeq
  <1>2. /\ SubSeq(s, n + 1, Len(s)) \in Seq(S)
        /\ Len(SubSeq(s, n + 1, Len(s))) = IF n + 1 <= Len(s) THEN Len(s) - (n + 1) + 1 ELSE 0
        /\ \A i \in 1..(Len(s) - (n + 1) + 1) : SubSeq(s, n + 1, Len(s))[i] = s[(n + 1) + i - 1]
    BY <1>1, SubSeqProperties
  <1>3. Len(Drop(s, n)) = IF n <= Len(s) THEN Len(s) - n ELSE 0
    BY <1>1, <1>2 DEF Drop
  <1>4. \A i \in 1..Len(Drop(s, n)) : Drop(s, n)[i] = s[n + i]
    <2> SUFFICES ASSUME NEW i \in 1..Len(Drop(s, n)) PROVE Drop(s, n)[i] = s[n + i]
      OBVIOUS
    <2>1. i \in 1..(Len(s) - (n + 1) + 1) /\ (n + 1) + i - 1 = n + i
      BY <1>1, <1>3
    <2> QED
      BY <1>2, <2>1 DEF Drop
  <1> QED
    BY <1>1, <1>2, <1>3, <1>4 DEF Drop

LEMMA DropNothing ==
    ASSUME NEW S, NEW s \in Seq(S)
    PROVE  Drop(s, 0) = s
  BY SubSeqFull DEF Drop

LEMMA DropTwice ==
    ASSUME NEW S, NEW s \in Seq(S), NEW m \in 0..Len(s), NEW n \in Nat
    PROVE  Drop(Drop(s, m), n) = Drop(s, m + n)
  <1>1. Len(s) \in Nat /\ m \in Nat /\ m + n \in Nat
    BY LenProperties
  <1> DEFINE t == Drop(s, m)
  <1>2. /\ t \in Seq(S) /\ Len(t) = Len(s) - m
        /\ \A i \in 1..Len(t) : t[i] = s[m + i]
    BY <1>1, DropFacts
  <1> HIDE DEF t
  <1>3. /\ Drop(t, n) \in Seq(S)
        /\ Len(Drop(t, n)) = IF n <= Len(t) THEN Len(t) - n ELSE 0
        /\ \A i \in 1..Len(Drop(t, n)) : Drop(t, n)[i] = t[n + i]
    BY <1>2, DropFacts
  <1>4. /\ Drop(s, m + n) \in Seq(S)
        /\ Len(Drop(s, m + n)) = IF m + n <= Len(s) THEN Len(s) - (m + n) ELSE 0
        /\ \A i \in 1..Len(Drop(s, m + n)) : Drop(s, m + n)[i] = s[(m + n) + i]
    BY <1>1, DropFacts
  <1>5. Len(Drop(t, n)) = Len(Drop(s, m + n))
    BY <1>1, <1>2, <1>3, <1>4
  <1>6. ASSUME NEW i \in 1..Len(Drop(t, n)) PROVE Drop(t, n)[i] = Drop(s, m + n)[i]
    <2>1. n + i \in 1..Len(t) /\ m + (n + i) = (m + n) + i
      BY <1>1, <1>2, <1>3
    <2> QED
      BY <1>2, <1>3, <1>4, <1>5, <2>1
  <1>7. Drop(t, n) = Drop(s, m + n)
    BY <1>3, <1>4, <1>5, <1>6, SeqEqual
  <1> QED
    BY <1>7 DEF t

(* What is dropped of two sequences, put together, is dropped of the first. *)
LEMMA DropConcat ==
    ASSUME NEW S, NEW s \in Seq(S), NEW t \in Seq(S), NEW n \in 0..Len(s)
    PROVE  Drop(s \o t, n) = Drop(s, n) \o t
  <1>1. Len(s) \in Nat /\ Len(t) \in Nat /\ n \in Nat
    BY LenProperties
  <1> DEFINE both == s \o t
             rest == Drop(s, n)
  <1>2. /\ both \in Seq(S) /\ Len(both) = Len(s) + Len(t)
        /\ \A i \in 1..(Len(s) + Len(t)) : both[i] = IF i <= Len(s) THEN s[i] ELSE t[i - Len(s)]
    BY ConcatProperties
  <1>3. /\ rest \in Seq(S) /\ Len(rest) = Len(s) - n
        /\ \A i \in 1..Len(rest) : rest[i] = s[n + i]
    BY <1>1, DropFacts
  <1> HIDE DEF both, rest
  <1>4. /\ Drop(both, n) \in Seq(S) /\ Len(Drop(both, n)) = Len(s) + Len(t) - n
        /\ \A i \in 1..Len(Drop(both, n)) : Drop(both, n)[i] = both[n + i]
    <2>1. /\ Drop(both, n) \in Seq(S)
          /\ Len(Drop(both, n)) = IF n <= Len(both) THEN Len(both) - n ELSE 0
          /\ \A i \in 1..Len(Drop(both, n)) : Drop(both, n)[i] = both[n + i]
      BY <1>1, <1>2, DropFacts
    <2>2. n <= Len(both)
      BY <1>1, <1>2
    <2> QED
      BY <1>2, <2>1, <2>2
  <1>5. /\ rest \o t \in Seq(S) /\ Len(rest \o t) = Len(rest) + Len(t)
        /\ \A i \in 1..(Len(rest) + Len(t)) :
              (rest \o t)[i] = IF i <= Len(rest) THEN rest[i] ELSE t[i - Len(rest)]
    BY <1>3, ConcatProperties
  <1>6. ASSUME NEW i \in 1..Len(Drop(both, n)) PROVE Drop(both, n)[i] = (rest \o t)[i]
    <2>1. /\ n + i \in 1..(Len(s) + Len(t)) /\ i \in 1..(Len(rest) + Len(t))
          /\ i <= Len(rest) <=> n + i <= Len(s)
          /\ (n + i) - Len(s) = i - Len(rest)
      BY <1>1, <1>3, <1>4
    <2>2. CASE i <= Len(rest)
      <3>1. i \in 1..Len(rest)
        BY <1>1, <1>3, <2>2
      <3> QED
        BY <1>2, <1>3, <1>4, <1>5, <2>1, <2>2, <3>1
    <2>3. CASE ~(i <= Len(rest))
      BY <1>2, <1>4, <1>5, <2>1, <2>3
    <2> QED
      BY <2>2, <2>3
  <1>7. Len(Drop(both, n)) = Len(rest \o t)
    BY <1>1, <1>3, <1>4, <1>5
  <1>8. Drop(both, n) = rest \o t
    BY <1>4, <1>5, <1>6, <1>7, SeqEqual
  <1> QED
    BY <1>8 DEF both, rest


-----------------------------------------------------------------------------
(***************************************************************************)
(* Induction, and recursive functions                                      *)
(***************************************************************************)

(* A set of numbers that has 0 and what follows each of its own has all.   *)
LEMMA SetInduction ==
    ASSUME NEW S, 0 \in S, \A n \in Nat : n \in S => n + 1 \in S
    PROVE  Nat \subseteq S
  <1> SUFFICES ASSUME ~(Nat \subseteq S) PROVE FALSE
    OBVIOUS
  <1> DEFINE below == OpToRel(<, Nat)
             T == Nat \ S
  <1>1. IsWellFoundedOn(below, Nat)
    BY NatLessThanWellFounded
  <1>2. \A m, n \in Nat : <<m, n>> \in below <=> m < n
    BY DEF OpToRel
  <1> HIDE DEF below
  <1>3. T \subseteq Nat /\ T # {}
    OBVIOUS
  <1>4. PICK n \in T : \A m \in T : ~(<<m, n>> \in below)
    BY <1>1, <1>3, WFMin
  <1>5. n \in Nat \ {0} /\ n - 1 \in Nat /\ n - 1 < n
    OBVIOUS
  <1>6. n - 1 \in T
    BY <1>5
  <1> HIDE DEF T
  <1>7. <<n - 1, n>> \in below
    BY <1>2, <1>5
  <1> QED
    BY <1>4, <1>6, <1>7

(* The same for the numbers up to `last`.                                   *)
LEMMA BoundedInduction ==
    ASSUME NEW last \in Nat, NEW S, 0 \in S,
           \A n \in 1..last : n - 1 \in S => n \in S
    PROVE  0..last \subseteq S
  <1> DEFINE T == {n \in Nat : n <= last => n \in S}
  <1>1. 0 \in T
    OBVIOUS
  <1>2. ASSUME NEW n \in Nat, n \in T PROVE n + 1 \in T
    <2> SUFFICES ASSUME n + 1 <= last PROVE n + 1 \in S
      OBVIOUS
    <2>1. n + 1 \in 1..last /\ (n + 1) - 1 = n /\ n \in S
      BY <1>2
    <2> QED
      BY <2>1
  <1>3. Nat \subseteq T
    <2> HIDE DEF T
    <2> QED
      BY <1>1, <1>2, SetInduction
  <1> SUFFICES ASSUME NEW n \in 0..last PROVE n \in S
    OBVIOUS
  <1>4. n \in Nat /\ n <= last
    OBVIOUS
  <1> QED
    BY <1>3, <1>4

(* f begins with `base`, and `step` leads on from each place to the next.  *)
Steps(f, V, base, last, step) ==
    /\ f \in [0..last -> V] /\ f[0] = base
    /\ \A n \in 1..last : f[n] = step[n][f[n - 1]]

(* There is a function that is defined by what it is at one place less.    *)
LEMMA RecursiveFunction ==
    ASSUME NEW V, NEW base \in V, NEW last \in Nat, NEW step \in [1..last -> [V -> V]]
    PROVE  \E f : Steps(f, V, base, last, step)
  <1> DEFINE Upto(m) == \E f \in [0..m -> V] :
                            f[0] = base /\ \A n \in 1..m : f[n] = step[n][f[n - 1]]
             S == {m \in Nat : m <= last => Upto(m)}
  <1>1. Upto(0)
    <2> DEFINE f == [n \in 0..0 |-> base]
    <2>1. f \in [0..0 -> V] /\ f[0] = base
      OBVIOUS
    <2> HIDE DEF f
    <2> QED
      BY <2>1
  <1>2. ASSUME NEW m \in Nat, Upto(m), m + 1 <= last PROVE Upto(m + 1)
    <2>1. PICK f \in [0..m -> V] :
              f[0] = base /\ \A n \in 1..m : f[n] = step[n][f[n - 1]]
      BY <1>2
    <2> DEFINE more == [n \in 0..(m + 1) |-> IF n <= m THEN f[n] ELSE step[m + 1][f[m]]]
    <2>2. step[m + 1][f[m]] \in V
      <3>1. m + 1 \in 1..last /\ f[m] \in V
        BY <1>2, <2>1
      <3> QED
        BY <3>1
    <2>3. more \in [0..(m + 1) -> V]
      BY <2>1, <2>2
    <2>4. \A n \in 0..m : more[n] = f[n]
      BY <2>1
    <2>5. more[m + 1] = step[m + 1][f[m]]
      BY <2>1
    <2> HIDE DEF more
    <2>6. ASSUME NEW n \in 1..(m + 1) PROVE more[n] = step[n][more[n - 1]]
      <3>1. n - 1 \in 0..m /\ more[n - 1] = f[n - 1]
        BY <2>4
      <3>2. CASE n = m + 1
        <4>1. n - 1 = m
          BY <3>2
        <4> QED
          BY <2>5, <3>1, <3>2, <4>1
      <3>3. CASE n # m + 1
        <4>1. n \in 1..m /\ n \in 0..m
          BY <3>3
        <4> QED
          BY <2>1, <2>4, <3>1, <4>1
      <3> QED
        BY <3>2, <3>3
    <2>7. more[0] = base
      BY <2>1, <2>4
    <2> QED
      BY <2>3, <2>6, <2>7
  <1>3. Upto(last)
    <2> HIDE DEF Upto
    <2>1. 0 \in S /\ \A m \in Nat : m \in S => m + 1 \in S
      BY <1>1, <1>2
    <2> HIDE DEF S
    <2>2. last \in S
      BY <2>1, SetInduction
    <2> QED
      BY <2>2 DEF S
  <1> QED
    BY <1>3 DEF Steps

(* f begins with `base`, and `step` leads to each place from the one before *)
(* it that `back` names.                                                   *)
StepsFrom(f, V, base, last, back, step) ==
    /\ f \in [0..last -> V] /\ f[0] = base
    /\ \A n \in 1..last : f[n] = step[n][f[back[n]]]

LEMMA RecursiveFunctionFrom ==
    ASSUME NEW V, NEW base \in V, NEW last \in Nat, NEW step \in [1..last -> [V -> V]],
           NEW back, \A n \in 1..last : back[n] \in 0..(n - 1)
    PROVE  \E f : StepsFrom(f, V, base, last, back, step)
  <1> DEFINE Upto(m) == \E f \in [0..m -> V] :
                            f[0] = base /\ \A n \in 1..m : f[n] = step[n][f[back[n]]]
             S == {m \in Nat : m <= last => Upto(m)}
  <1>1. Upto(0)
    <2> DEFINE f == [n \in 0..0 |-> base]
    <2>1. f \in [0..0 -> V] /\ f[0] = base
      OBVIOUS
    <2> HIDE DEF f
    <2> QED
      BY <2>1
  <1>2. ASSUME NEW m \in Nat, Upto(m), m + 1 <= last PROVE Upto(m + 1)
    <2>1. PICK f \in [0..m -> V] :
              f[0] = base /\ \A n \in 1..m : f[n] = step[n][f[back[n]]]
      BY <1>2
    <2> DEFINE from == f[back[m + 1]]
               more == [n \in 0..(m + 1) |-> IF n <= m THEN f[n] ELSE step[m + 1][from]]
    <2>2. m + 1 \in 1..last /\ back[m + 1] \in 0..m
      BY <1>2
    <2>3. step[m + 1][from] \in V
      BY <2>1, <2>2
    <2>4. more \in [0..(m + 1) -> V]
      BY <2>1, <2>3
    <2>5. \A n \in 0..m : more[n] = f[n]
      BY <2>1
    <2>6. more[m + 1] = step[m + 1][from]
      BY <2>1
    <2> HIDE DEF more
    <2>7. ASSUME NEW n \in 1..(m + 1) PROVE more[n] = step[n][more[back[n]]]
      <3>1. CASE n = m + 1
        BY <2>2, <2>5, <2>6, <3>1
      <3>2. CASE n # m + 1
        <4>1. n \in 1..m /\ n \in 0..m /\ n \in 1..last
          BY <1>2, <3>2
        <4>2. back[n] \in 0..m
          BY <4>1
        <4> QED
          BY <2>1, <2>5, <4>1, <4>2
      <3> QED
        BY <3>1, <3>2
    <2>8. more[0] = base
      BY <2>1, <2>5
    <2> QED
      BY <2>4, <2>7, <2>8
  <1>3. Upto(last)
    <2> HIDE DEF Upto
    <2>1. 0 \in S /\ \A m \in Nat : m \in S => m + 1 \in S
      BY <1>1, <1>2
    <2> HIDE DEF S
    <2>2. last \in S
      BY <2>1, SetInduction
    <2> QED
      BY <2>2 DEF S
  <1> QED
    BY <1>3 DEF StepsFrom

(* A set of numbers up to `last` that has 0, and each number below which it *)
(* has all, has all.                                                       *)
LEMMA StrongInduction ==
    ASSUME NEW last \in Nat, NEW S, 0 \in S,
           \A n \in 1..last : 0..(n - 1) \subseteq S => n \in S
    PROVE  0..last \subseteq S
  <1> DEFINE T == {m \in 0..last : 0..m \subseteq S}
  <1>1. 0 \in T
    OBVIOUS
  <1>2. ASSUME NEW n \in 1..last, n - 1 \in T PROVE n \in T
    <2>1. n \in S /\ 0..n = 0..(n - 1) \cup {n}
      BY <1>2
    <2> QED
      BY <1>2, <2>1
  <1>3. 0..last \subseteq T
    <2> HIDE DEF T
    <2> QED
      BY <1>1, <1>2, BoundedInduction
  <1> QED
    BY <1>3

-----------------------------------------------------------------------------
(***************************************************************************)
(* memory_stream                                                           *)
(***************************************************************************)

StreamTypes ==
    /\ buffer \in Seq(Nat) /\ unread \in Seq(Nat)
    /\ position \in Nat /\ written \in Nat
    /\ wrong \in BOOLEAN /\ astray \in BOOLEAN

(* A stream that was not led astray reads inside its buffer.               *)
InsideBuffer == ~astray => position <= Len(buffer)

StreamInv == StreamTypes /\ InsideBuffer /\ FirstInFirstOut

LEMMA FreshFacts ==
    ASSUME StreamTypes, NEW n \in Nat
    PROVE  /\ Fresh(n) \in Seq(Nat) /\ Len(Fresh(n)) = n
           /\ \A i \in 1..n : Fresh(n)[i] \in Nat
  BY DEF Fresh, StreamTypes

LEMMA ReadInv ==
    ASSUME StreamInv, NEW n \in Nat, Read(n)
    PROVE  StreamInv'
  <1>1. /\ StreamTypes /\ InsideBuffer /\ FirstInFirstOut
        /\ buffer \in Seq(Nat) /\ unread \in Seq(Nat) /\ position \in Nat /\ Len(buffer) \in Nat
        /\ Len(unread) \in Nat
    BY LenProperties DEF StreamInv, StreamTypes
  <1>2. StreamTypes'
    <2>1. Drop(unread, n) \in Seq(Nat)
      BY <1>1, DropFacts
    <2> QED
      BY <1>1, <2>1 DEF Read, StreamTypes
  <1>3. ASSUME ~astray'
        PROVE  position' <= Len(buffer') /\ ~wrong' /\ unread' = Drop(buffer', position')
    <2>1. ~astray /\ n <= Len(unread)
      <3>1. ~astray /\ ~(n > Len(unread))
        BY <1>3 DEF Read
      <3> QED
        BY <1>1, <3>1
    <2>2. ~wrong /\ unread = Drop(buffer, position) /\ position \in 0..Len(buffer)
      BY <1>1, <2>1 DEF InsideBuffer, FirstInFirstOut
    <2>3. /\ Len(unread) = Len(buffer) - position
          /\ \A i \in 1..Len(unread) : unread[i] = buffer[position + i]
      <3>1. buffer \in Seq(Nat) /\ position \in Nat /\ position <= Len(buffer)
        BY <1>1, <2>2
      <3>2. /\ Len(Drop(buffer, position)) = Len(buffer) - position
            /\ \A i \in 1..Len(Drop(buffer, position)) :
                   Drop(buffer, position)[i] = buffer[position + i]
        BY <3>1, DropFacts
      <3> QED
        BY <2>2, <3>2
    <2>4. Drop(unread, n) = Drop(buffer, position + n)
      BY <1>1, <2>2, DropTwice
    <2>5. Bytes(n) = SubSeq(unread, 1, n)
      <3>1. \A i \in 1..n : i \in 1..Len(unread)
        BY <1>1, <2>1
      <3>2. \A i \in 1..n : unread[i] \in Nat
        BY <1>1, <3>1, ElementOfSeq
      <3>3. /\ SubSeq(unread, 1, n) \in Seq(Nat)
            /\ Len(SubSeq(unread, 1, n)) = n
            /\ \A i \in 1..n : SubSeq(unread, 1, n)[i] = unread[i]
        <4>1. /\ SubSeq(unread, 1, n) \in Seq(Nat)
              /\ Len(SubSeq(unread, 1, n)) = IF 1 <= n THEN n - 1 + 1 ELSE 0
              /\ \A i \in 1..(n - 1 + 1) : SubSeq(unread, 1, n)[i] = unread[1 + i - 1]
          BY <3>2, SubSeqProperties
        <4> QED
          BY <4>1
      <3>4. \A i \in 1..n : Bytes(n)[i] = unread[i]
        BY <1>1, <2>1, <2>3, <3>1 DEF Bytes
      <3>5. Bytes(n) \in Seq(Nat) /\ Len(Bytes(n)) = n
        <4>1. \A i \in 1..n : Bytes(n)[i] \in Nat
          BY <3>2, <3>4
        <4> QED
          BY <4>1 DEF Bytes
      <3> QED
        BY <3>3, <3>4, <3>5, SeqEqual
    <2>6. ~wrong'
      BY <2>2, <2>5 DEF Read
    <2>7. position' <= Len(buffer') /\ unread' = Drop(buffer', position')
      <3>1. position' = position + n /\ unread' = Drop(unread, n) /\ buffer' = buffer
        BY DEF Read
      <3> QED
        BY <1>1, <2>1, <2>3, <2>4, <3>1
    <2> QED
      BY <2>6, <2>7
  <1> QED
    BY <1>2, <1>3 DEF StreamInv, InsideBuffer, FirstInFirstOut

LEMMA PutInv ==
    ASSUME StreamInv, NEW n \in Nat, Put(n)
    PROVE  StreamInv'
  <1>1. /\ buffer \in Seq(Nat) /\ unread \in Seq(Nat) /\ Fresh(n) \in Seq(Nat)
        /\ position \in Nat /\ Len(buffer) \in Nat /\ Len(Fresh(n)) = n
    BY FreshFacts, LenProperties DEF StreamInv, StreamTypes
  <1>2. /\ buffer' = buffer \o Fresh(n) /\ unread' = unread \o Fresh(n)
        /\ UNCHANGED <<position, wrong, astray>>
    BY DEF Put
  <1>3. /\ buffer' \in Seq(Nat) /\ Len(buffer') = Len(buffer) + n /\ unread' \in Seq(Nat)
    BY <1>1, <1>2, ConcatProperties
  <1>4. StreamTypes'
    BY <1>3 DEF Put, StreamInv, StreamTypes
  <1>5. ASSUME ~astray'
        PROVE  position' <= Len(buffer') /\ ~wrong' /\ unread' = Drop(buffer', position')
    <2>1. ~wrong /\ unread = Drop(buffer, position) /\ position \in 0..Len(buffer)
      BY <1>1, <1>2, <1>5 DEF StreamInv, InsideBuffer, FirstInFirstOut
    <2>2. Drop(buffer \o Fresh(n), position) = Drop(buffer, position) \o Fresh(n)
      BY <1>1, <2>1, DropConcat
    <2> QED
      BY <1>1, <1>2, <1>3, <2>1, <2>2
  <1> QED
    BY <1>4, <1>5 DEF StreamInv, InsideBuffer, FirstInFirstOut

LEMMA OverrideInv ==
    ASSUME StreamInv, NEW n \in Nat, NEW where \in Nat, Override(n, where)
    PROVE  StreamInv'
  <1> DEFINE new(s, at) == [i \in 1..Len(s) |->
                               IF i - at \in 1..n THEN Fresh(n)[i - at] ELSE s[i]]
  <1>1. /\ buffer \in Seq(Nat) /\ unread \in Seq(Nat)
        /\ position \in Nat /\ Len(buffer) \in Nat /\ Len(unread) \in Nat
        /\ \A i \in 1..Len(buffer) : buffer[i] \in Nat
        /\ \A i \in 1..Len(unread) : unread[i] \in Nat
        /\ \A i \in 1..n : Fresh(n)[i] \in Nat
    BY FreshFacts, LenProperties, ElementOfSeq DEF StreamInv, StreamTypes
  <1>2. /\ buffer' = new(buffer, where) /\ unread' = new(unread, where - position)
        /\ UNCHANGED <<position, wrong, astray>>
    BY DEF Override
  <1>3. /\ new(buffer, where) \in Seq(Nat) /\ Len(new(buffer, where)) = Len(buffer)
        /\ new(unread, where - position) \in Seq(Nat)
        /\ Len(new(unread, where - position)) = Len(unread)
    <2>1. \A i \in 1..Len(buffer) :
              (IF i - where \in 1..n THEN Fresh(n)[i - where] ELSE buffer[i]) \in Nat
      BY <1>1
    <2>2. \A i \in 1..Len(unread) :
              (IF i - (where - position) \in 1..n THEN Fresh(n)[i - (where - position)]
               ELSE unread[i]) \in Nat
      BY <1>1
    <2> QED
      BY <1>1, <2>1, <2>2
  <1>4. /\ buffer' \in Seq(Nat) /\ Len(buffer') = Len(buffer)
        /\ unread' \in Seq(Nat) /\ Len(unread') = Len(unread)
    BY <1>2, <1>3
  <1>5. StreamTypes'
    BY <1>4 DEF Override, StreamInv, StreamTypes
  <1>6. UNCHANGED <<position, wrong, astray>>
    BY <1>2
  <1>7. ASSUME ~astray'
        PROVE  position' <= Len(buffer') /\ ~wrong' /\ unread' = Drop(buffer', position')
    <2>1. ~wrong /\ unread = Drop(buffer, position) /\ position \in 0..Len(buffer)
      BY <1>1, <1>6, <1>7 DEF StreamInv, InsideBuffer, FirstInFirstOut
    <2>2. /\ Len(unread) = Len(buffer) - position
          /\ \A i \in 1..Len(unread) : unread[i] = buffer[position + i]
      <3>1. /\ Len(Drop(buffer, position)) = IF position <= Len(buffer)
                                             THEN Len(buffer) - position ELSE 0
            /\ \A i \in 1..Len(Drop(buffer, position)) :
                  Drop(buffer, position)[i] = buffer[position + i]
        BY <1>1, DropFacts
      <3> QED
        BY <2>1, <3>1
    <2>3. /\ Drop(buffer', position) \in Seq(Nat)
          /\ Len(Drop(buffer', position)) = IF position <= Len(buffer')
                                            THEN Len(buffer') - position ELSE 0
          /\ \A i \in 1..Len(Drop(buffer', position)) :
                Drop(buffer', position)[i] = buffer'[position + i]
      BY <1>1, <1>4, DropFacts
    <2>4. Len(Drop(buffer', position)) = Len(unread')
      BY <1>1, <1>4, <2>1, <2>2, <2>3
    <2>5. ASSUME NEW i \in 1..Len(unread) PROVE unread'[i] = buffer'[position + i]
      <3>1. /\ position + i \in 1..Len(buffer)
            /\ (position + i) - where = i - (where - position)
        BY <1>1, <2>1, <2>2
      <3>2. buffer'[position + i] =
                IF (position + i) - where \in 1..n THEN Fresh(n)[(position + i) - where]
                ELSE buffer[position + i]
        BY <1>2, <3>1
      <3>3. unread'[i] =
                IF i - (where - position) \in 1..n THEN Fresh(n)[i - (where - position)]
                ELSE unread[i]
        BY <1>2, <2>5
      <3> QED
        BY <2>2, <3>1, <3>2, <3>3
    <2>6. unread' = Drop(buffer', position)
      BY <1>4, <2>3, <2>4, <2>5, SeqEqual
    <2> QED
      BY <1>1, <1>4, <1>6, <2>1, <2>6
  <1> QED
    BY <1>5, <1>7 DEF StreamInv, InsideBuffer, FirstInFirstOut

LEMMA ShrinkInv ==
    ASSUME StreamInv, Shrink
    PROVE  StreamInv'
  <1>1. /\ buffer \in Seq(Nat) /\ unread \in Seq(Nat) /\ position \in Nat /\ Len(buffer) \in Nat
        /\ position <= Len(buffer) /\ buffer' = Drop(buffer, position) /\ position' = 0
        /\ UNCHANGED <<written, unread, wrong, astray>>
    BY LenProperties DEF StreamInv, StreamTypes, Shrink
  <1>2. buffer' \in Seq(Nat) /\ Len(buffer') \in Nat /\ Drop(buffer', 0) = buffer'
    BY <1>1, DropFacts, DropNothing, LenProperties
  <1> QED
    BY <1>1, <1>2 DEF StreamInv, StreamTypes, InsideBuffer, FirstInFirstOut

LEMMA ClearInv ==
    ASSUME StreamInv, Clear
    PROVE  StreamInv'
  <1>1. << >> \in Seq(Nat) /\ Len(<< >>) = 0 /\ Drop(<< >>, 0) = << >>
    BY EmptySeq, DropNothing
  <1> QED
    BY <1>1 DEF Clear, StreamInv, StreamTypes, InsideBuffer, FirstInFirstOut

LEMMA AdvanceInv ==
    ASSUME StreamInv, NEW amount \in Int, Advance(amount)
    PROVE  StreamInv'
  <1>1. /\ buffer \in Seq(Nat) /\ unread \in Seq(Nat) /\ position \in Nat /\ Len(buffer) \in Nat
    BY LenProperties DEF StreamInv, StreamTypes
  <1>2. UNCHANGED <<buffer, written, wrong>>
    BY DEF Advance
  <1>3. ASSUME ~astray' PROVE ~astray /\ ~Strays(amount)
    BY <1>3 DEF Advance
  <1>4. ASSUME ~astray
        PROVE  ~wrong /\ unread = Drop(buffer, position) /\ position <= Len(buffer)
    BY <1>4 DEF StreamInv, InsideBuffer, FirstInFirstOut
  <1>5. astray' \in BOOLEAN /\ wrong' \in BOOLEAN /\ written' \in Nat
    BY <1>2 DEF Advance, Strays, StreamInv, StreamTypes
  <1>6. CASE amount < 0
    <2>1. position' = 0 /\ unread' = buffer
      BY <1>6 DEF Advance
    <2>2. Drop(buffer, 0) = buffer
      BY <1>1, DropNothing
    <2> QED
      BY <1>1, <1>2, <1>3, <1>4, <1>5, <2>1, <2>2
         DEF StreamInv, StreamTypes, InsideBuffer, FirstInFirstOut
  <1>7. CASE ~(amount < 0)
    <2>1. position' = position + amount /\ unread' = Drop(unread, amount) /\ amount \in Nat
      BY <1>7 DEF Advance
    <2>2. unread' \in Seq(Nat) /\ position' \in Nat
      BY <1>1, <2>1, DropFacts
    <2>3. ASSUME ~astray'
          PROVE  position' <= Len(buffer) /\ ~wrong /\ unread' = Drop(buffer, position')
      <3>1. ~(amount > 0 /\ position + amount > Len(buffer))
        BY <1>3, <2>3 DEF Strays
      <3>2. ~wrong /\ unread = Drop(buffer, position) /\ position \in 0..Len(buffer)
        BY <1>1, <1>3, <1>4, <2>3
      <3>3. position + amount <= Len(buffer)
        BY <1>1, <2>1, <3>1, <3>2
      <3>4. Drop(unread, amount) = Drop(buffer, position + amount)
        BY <1>1, <2>1, <3>2, DropTwice
      <3> QED
        BY <2>1, <3>2, <3>3, <3>4
    <2> QED
      BY <1>1, <1>2, <1>5, <2>1, <2>2, <2>3
         DEF StreamInv, StreamTypes, InsideBuffer, FirstInFirstOut
  <1> QED
    BY <1>6, <1>7

LEMMA DecompressInv ==
    ASSUME StreamInv, NEW length \in Nat, NEW n \in Nat, Decompress(length, n)
    PROVE  StreamInv'
  <1> DEFINE read == SubSeq(buffer, 1, position)
             behind == Drop(buffer, position + n)
  <1>1. /\ buffer \in Seq(Nat) /\ unread \in Seq(Nat) /\ Fresh(n) \in Seq(Nat)
        /\ position \in Nat /\ Len(buffer) \in Nat /\ position + length <= Len(buffer)
        /\ position \in 0..Len(buffer)
    BY FreshFacts, LenProperties DEF StreamInv, StreamTypes, Decompress
  <1>2. read \in Seq(Nat) /\ Len(read) = position
    <2>1. \A i \in 1..position : buffer[i] \in Nat
      BY <1>1, ElementOfSeq
    <2> QED
      BY <1>1, <2>1, SubSeqProperties
  <1>3. behind \in Seq(Nat) /\ Drop(unread, length) \in Seq(Nat)
    <2>1. position + n \in Nat
      BY <1>1
    <2>2. behind \in Seq(Nat)
      BY <1>1, <2>1, DropFacts
    <2>3. Drop(unread, length) \in Seq(Nat)
      BY <1>1, DropFacts
    <2> QED
      BY <2>2, <2>3
  <1>4. /\ buffer' = read \o Fresh(n) \o behind
        /\ unread' = Fresh(n) \o Drop(unread, length)
        /\ UNCHANGED <<position, wrong>>
    BY DEF Decompress
  <1>5. ASSUME ~astray' PROVE ~astray /\ Drop(unread, n) = Drop(unread, length)
    BY <1>5 DEF Decompress
  <1> HIDE DEF read, behind
  <1>6. /\ Fresh(n) \o behind \in Seq(Nat) /\ Fresh(n) \o Drop(unread, length) \in Seq(Nat)
        /\ read \o Fresh(n) \in Seq(Nat)
    BY <1>1, <1>2, <1>3, ConcatProperties
  <1>7. buffer' = read \o (Fresh(n) \o behind)
    <2>1. (read \o Fresh(n)) \o behind = read \o (Fresh(n) \o behind)
      <3>1. \A s, t, r \in Seq(Nat) : (s \o t) \o r = s \o (t \o r)
        BY ConcatAssociative
      <3>2. read \in Seq(Nat) /\ Fresh(n) \in Seq(Nat) /\ behind \in Seq(Nat)
        BY <1>1, <1>2, <1>3
      <3> QED
        BY <3>1, <3>2, Zenon
    <2> QED
      BY <1>4, <2>1
  <1>8. /\ buffer' \in Seq(Nat) /\ Len(buffer') = position + Len(Fresh(n) \o behind)
        /\ Len(Fresh(n) \o behind) \in Nat
    <2>1. /\ read \o (Fresh(n) \o behind) \in Seq(Nat)
          /\ Len(read \o (Fresh(n) \o behind)) = Len(read) + Len(Fresh(n) \o behind)
      BY <1>2, <1>6, ConcatProperties
    <2>2. Len(Fresh(n) \o behind) \in Nat
      BY <1>6, LenProperties
    <2> QED
      BY <1>2, <1>7, <2>1, <2>2
  <1>9. StreamTypes'
    <2>1. unread' \in Seq(Nat)
      BY <1>4, <1>6
    <2>2. written' \in Nat /\ astray' \in BOOLEAN
      BY DEF Decompress, StreamInv, StreamTypes
    <2> QED
      BY <1>4, <1>8, <2>1, <2>2 DEF StreamInv, StreamTypes
  <1>10. ASSUME ~astray'
         PROVE  position' <= Len(buffer') /\ ~wrong' /\ unread' = Drop(buffer', position')
    <2>1. /\ ~astray /\ Drop(unread, n) = Drop(unread, length)
          /\ ~wrong /\ unread = Drop(buffer, position)
      BY <1>5, <1>10 DEF StreamInv, FirstInFirstOut
    <2>2. unread' = Fresh(n) \o behind
      <3>1. Drop(unread, n) = behind
        BY <1>1, <2>1, DropTwice DEF behind
      <3> QED
        BY <1>4, <2>1, <3>1
    <2>3. Drop(buffer', position) = Drop(read, position) \o (Fresh(n) \o behind)
      <3>1. position \in 0..Len(read)
        BY <1>1, <1>2
      <3> QED
        BY <1>2, <1>6, <1>7, <3>1, DropConcat
    <2>4. Drop(read, position) = << >>
      <3>1. position + 1 \in Int /\ Len(read) \in Int /\ Len(read) < position + 1
        BY <1>1, <1>2
      <3> QED
        BY <3>1, SubSeqEmpty DEF Drop
    <2>5. << >> \o (Fresh(n) \o behind) = Fresh(n) \o behind
      BY <1>6, ConcatEmptySeq
    <2>6. ~wrong' /\ position' = position
      BY <1>4, <2>1
    <2>7. position <= Len(buffer')
      BY <1>1, <1>8
    <2>8. unread' = Drop(buffer', position)
      BY <2>2, <2>3, <2>4, <2>5
    <2> QED
      BY <2>6, <2>7, <2>8
  <1> QED
    BY <1>9, <1>10 DEF StreamInv, InsideBuffer, FirstInFirstOut

(* FirstInFirstOut, of streams of every length.                            *)
THEOREM StreamIsFifo == StreamSpec => []FirstInFirstOut
  <1>1. StreamInit => StreamInv
    <2>1. << >> \in Seq(Nat) /\ Len(<< >>) = 0 /\ Drop(<< >>, 0) = << >>
      BY EmptySeq, DropNothing
    <2> SUFFICES ASSUME StreamInit PROVE StreamInv
      OBVIOUS
    <2>2. StreamTypes
      BY <2>1 DEF StreamInit, StreamTypes
    <2>3. position <= Len(buffer) /\ unread = Drop(buffer, position) /\ ~wrong
      BY <2>1 DEF StreamInit
    <2> QED
      BY <2>2, <2>3 DEF StreamInv, InsideBuffer, FirstInFirstOut
  <1>2. StreamInv /\ [StreamNext]_streamVars => StreamInv'
    <2> SUFFICES ASSUME StreamInv, [StreamNext]_streamVars PROVE StreamInv'
      OBVIOUS
    <2>1. /\ buffer \in Seq(Nat) /\ position \in Nat /\ Len(buffer) \in Nat
          /\ 1..MaxSize \subseteq Nat /\ 0..MaxBytes \subseteq Nat
          /\ (-MaxSize)..MaxSize \subseteq Int
      BY StreamAssumption, LenProperties DEF StreamInv, StreamTypes
    <2>2. ASSUME NEW n \in 1..MaxSize, Put(n) PROVE StreamInv'
      BY <2>1, <2>2, PutInv
    <2>3. ASSUME NEW n \in 1..MaxSize, Get(n) PROVE StreamInv'
      BY <2>1, <2>3, ReadInv DEF Get
    <2>4. CASE GetString
      <3>1. PICK n \in 1..(Len(buffer) - position) : Read(n)
        BY <2>4 DEF GetString
      <3>2. n \in Nat
        BY <2>1
      <3> QED
        BY <3>1, <3>2, ReadInv
    <2>5. CASE TakeRest
      <3>1. CASE position <= Len(buffer)
        <4>1. Len(buffer) - position \in Nat /\ Read(Len(buffer) - position)
          BY <2>1, <2>5, <3>1 DEF TakeRest
        <4> QED
          BY <4>1, ReadInv
      <3>2. CASE position > Len(buffer)
        <4>1. /\ position' = Len(buffer) /\ UNCHANGED <<buffer, written, unread, wrong, astray>>
              /\ astray
          BY <2>1, <2>5, <3>2 DEF TakeRest, StreamInv, InsideBuffer
        <4> QED
          BY <2>1, <4>1 DEF StreamInv, StreamTypes, InsideBuffer, FirstInFirstOut
      <3> QED
        BY <2>1, <3>1, <3>2
    <2>6. ASSUME NEW n \in 1..MaxSize, NEW where \in 0..MaxBytes, Override(n, where)
          PROVE  StreamInv'
      BY <2>1, <2>6, OverrideInv
    <2>7. ASSUME NEW amount \in (-MaxSize)..MaxSize, Advance(amount) PROVE StreamInv'
      BY <2>1, <2>7, AdvanceInv
    <2>8. ASSUME NEW length \in 1..MaxSize, NEW n \in 1..MaxSize, Decompress(length, n)
          PROVE  StreamInv'
      BY <2>1, <2>8, DecompressInv
    <2>9. ASSUME NEW index \in 0..MaxBytes, At(index) PROVE StreamInv'
      <3>1. CASE Override(1, position + index)
        <4>1. position + index \in Nat
          BY <2>1
        <4> QED
          BY <3>1, <4>1, OverrideInv
      <3>2. CASE astray' = TRUE /\ UNCHANGED <<buffer, position, written, unread, wrong>>
        BY <3>2 DEF StreamInv, StreamTypes, InsideBuffer, FirstInFirstOut
      <3> QED
        BY <2>9, <3>1, <3>2 DEF At
    <2>10. CASE UNCHANGED streamVars
      BY <2>10 DEF streamVars, StreamInv, StreamTypes, InsideBuffer, FirstInFirstOut
    <2> QED
      BY <2>2, <2>3, <2>4, <2>5, <2>6, <2>7, <2>8, <2>9, <2>10, ShrinkInv, ClearInv DEF StreamNext
  <1>3. StreamInv => FirstInFirstOut
    BY DEF StreamInv
  <1> QED
    BY <1>1, <1>2, <1>3, PTL DEF StreamSpec

-----------------------------------------------------------------------------
(***************************************************************************)
(* zip                                                                     *)
(***************************************************************************)

ZipTypes ==
    /\ size \in Nat /\ total \in Nat /\ totalIn \in Nat /\ totalOut \in Nat /\ available \in Nat
    /\ out \in [1..BufferSize -> Nat] /\ data \in Seq(Nat)
    /\ inflating \in {"not yet", "outer", "inner", "ended", "returned", "damaged", "thrown"}

(* No more input is taken than there is; the end is that of the output.    *)
Counted ==
    /\ inflating = "not yet" => totalIn = 0 /\ totalOut = 0 /\ data = << >>
    /\ inflating = "outer" => totalIn <= size
    /\ inflating = "inner" => totalIn + available <= size
    /\ inflating = "ended" => totalOut = total

(* The first bytes of data are those that were compressed.                 *)
Right(n) == n <= Len(data) /\ \A i \in 1..n : data[i] = i

(* Input of one block is all at hand, and no block but the last is inserted *)
(* with a part of it unused.                                               *)
OneBlock ==
    size <= BufferSize =>
        /\ inflating = "outer" => totalIn = 0 /\ totalOut = 0 /\ data = << >>
        /\ inflating = "inner" => totalIn + available = size /\ Len(data) = totalOut /\ Right(totalOut)
        /\ inflating = "ended" => Right(totalOut)

ZipInv == ZipTypes /\ Counted /\ OneBlock /\ WhatWentInComesOut

LEMMA NextBlockInv ==
    ASSUME ZipInv, NextBlock
    PROVE  ZipInv'
  <1>1. /\ size \in Nat /\ totalIn \in Nat /\ totalOut \in Nat /\ BufferSize \in Nat \ {0}
        /\ totalIn <= size /\ inflating = "outer" /\ inflating' = "inner"
        /\ UNCHANGED <<size, total, totalIn, totalOut, out, data>>
    BY ZipAssumption DEF ZipInv, ZipTypes, Counted, NextBlock
  <1>2. /\ available' \in Nat /\ totalIn + available' <= size
        /\ totalIn = 0 /\ size <= BufferSize => available' = size
    BY <1>1 DEF NextBlock
  <1>3. size <= BufferSize => totalIn = 0 /\ totalOut = 0 /\ data = << >>
    BY <1>1 DEF ZipInv, OneBlock
  <1>4. ZipTypes' /\ Counted' /\ WhatWentInComesOut'
    BY <1>1, <1>2 DEF ZipInv, ZipTypes, Counted, WhatWentInComesOut
  <1>5. OneBlock'
    <2> SUFFICES ASSUME size <= BufferSize
                 PROVE  /\ totalIn + available' = size /\ Len(data) = totalOut
                        /\ totalOut <= Len(data) /\ \A i \in 1..totalOut : data[i] = i
      BY <1>1 DEF OneBlock, Right
    <2>1. Len(<< >>) = 0
      BY EmptySeq
    <2> QED
      BY <1>1, <1>2, <1>3, <2>1
  <1> QED
    BY <1>4, <1>5 DEF ZipInv

(* One call of inflate(): the block that was given goes behind what had    *)
(* been collected.                                                         *)
LEMMA CallsFacts ==
    ASSUME ZipInv, NEW taken \in 0..available, NEW given \in 0..BufferSize, Calls(taken, given)
    PROVE  /\ ZipTypes' \/ inflating' \notin {"inner", "outer", "ended"}
           /\ UNCHANGED <<size, total>>
           /\ totalIn' = totalIn + taken /\ totalOut' = totalOut + given
           /\ available' = available - taken /\ totalIn + available <= size
           /\ given < BufferSize => taken = available
           /\ Len(data') = Len(data) + BufferSize
           /\ Len(data) = totalOut /\ Right(totalOut) => Right(totalOut)'
  <1>1. /\ size \in Nat /\ total \in Nat /\ totalIn \in Nat /\ totalOut \in Nat /\ available \in Nat
        /\ out \in [1..BufferSize -> Nat] /\ data \in Seq(Nat) /\ Len(data) \in Nat
        /\ BufferSize \in Nat \ {0}
    BY ZipAssumption, LenProperties DEF ZipInv, ZipTypes
  <1>2. taken \in Nat /\ taken <= available /\ given \in Nat /\ given <= BufferSize
    BY <1>1
  <1>3. /\ UNCHANGED <<size, total>>
        /\ totalIn' = totalIn + taken /\ totalOut' = totalOut + given
        /\ available' = available - taken
        /\ given = BufferSize \/ taken = available
        /\ data' = data \o out' /\ inflating = "inner"
    BY DEF Calls
  <1>4. /\ out' \in [1..BufferSize -> Nat]
        /\ \A i \in 1..given : out'[i] = totalOut + i
    BY <1>1, <1>2 DEF Calls
  <1>5. out' \in Seq(Nat) /\ Len(out') = BufferSize
    BY <1>1, <1>4
  <1>6. /\ data' \in Seq(Nat) /\ Len(data') = Len(data) + BufferSize
        /\ \A i \in 1..(Len(data) + BufferSize) :
              data'[i] = IF i <= Len(data) THEN data[i] ELSE out'[i - Len(data)]
    BY <1>1, <1>3, <1>5, ConcatProperties
  <1>7. totalIn + available <= size
    BY <1>3 DEF ZipInv, Counted
  <1>8. totalIn' \in Nat /\ totalOut' \in Nat /\ available' \in Nat
    BY <1>1, <1>2, <1>3
  <1>9. ZipTypes' \/ inflating' \notin {"inner", "outer", "ended"}
    BY <1>1, <1>3, <1>4, <1>6, <1>8 DEF ZipTypes
  <1>10. ASSUME Len(data) = totalOut, Right(totalOut)
         PROVE  Right(totalOut)'
    <2>1. totalOut' <= Len(data')
      BY <1>1, <1>2, <1>3, <1>6, <1>10
    <2>2. ASSUME NEW i \in 1..(totalOut + given) PROVE data'[i] = i
      <3>1. i \in 1..(Len(data) + BufferSize)
        BY <1>1, <1>2, <1>10
      <3>2. CASE i <= totalOut
        BY <1>1, <1>6, <1>10, <3>1, <3>2 DEF Right
      <3>3. CASE i > totalOut
        <4>1. i - totalOut \in 1..given /\ totalOut + (i - totalOut) = i
          BY <1>1, <1>2, <3>3
        <4>2. data'[i] = out'[i - totalOut]
          BY <1>1, <1>6, <1>10, <3>1, <3>3
        <4> QED
          BY <1>4, <4>1, <4>2
      <3> QED
        BY <1>1, <3>2, <3>3
    <2> QED
      BY <1>3, <2>1, <2>2 DEF Right
  <1> QED
    BY <1>1, <1>2, <1>3, <1>6, <1>7, <1>9, <1>10

LEMMA InflateInv ==
    ASSUME ZipInv, Inflate
    PROVE  ZipInv'
  <1>1. PICK taken \in 0..available, given \in 0..BufferSize : Calls(taken, given) /\ AfterCall(given)
    BY DEF Inflate
  <1>2. /\ UNCHANGED <<size, total>>
        /\ totalIn' = totalIn + taken /\ totalOut' = totalOut + given
        /\ available' = available - taken /\ totalIn + available <= size
        /\ given < BufferSize => taken = available
        /\ Len(data) = totalOut /\ Right(totalOut) => Right(totalOut)'
        /\ Len(data') = Len(data) + BufferSize
    BY <1>1, CallsFacts
  <1>3. /\ size \in Nat /\ total \in Nat /\ totalIn \in Nat /\ totalOut \in Nat /\ available \in Nat
        /\ BufferSize \in Nat \ {0}
        /\ taken \in Nat /\ taken <= available /\ given \in Nat /\ given <= BufferSize
        /\ inflating = "inner"
    BY <1>1, ZipAssumption DEF ZipInv, ZipTypes, Calls
  <1>4. /\ inflating' \in {"inner", "outer", "ended"}
        /\ inflating' = "inner" <=> given = BufferSize
        /\ inflating' = "ended" => totalIn' = size /\ totalOut' = total
        /\ inflating' = "outer" => ~(totalIn' = size /\ totalOut' = total)
    BY <1>1 DEF AfterCall
  <1>5. ZipTypes'
    BY <1>1, <1>4, CallsFacts
  <1>6. Counted'
    <2>1. totalIn' + available' <= size /\ totalIn' <= size
      BY <1>2, <1>3
    <2> QED
      BY <1>2, <1>4, <2>1 DEF Counted
  <1>7. WhatWentInComesOut'
    BY <1>4 DEF WhatWentInComesOut
  <1>8. OneBlock'
    <2> SUFFICES ASSUME size <= BufferSize
                 PROVE  /\ inflating' # "outer"
                        /\ inflating' = "inner" => /\ totalIn' + available' = size
                                                   /\ Len(data') = totalOut'
                        /\ Right(totalOut)'
      BY <1>2 DEF OneBlock
    <2>1. totalIn + available = size /\ Len(data) = totalOut /\ Right(totalOut)
      BY <1>3 DEF ZipInv, OneBlock
    <2>2. totalIn' + available' = size
      BY <1>2, <1>3, <2>1
    <2>3. inflating' = "inner" => Len(data') = totalOut'
      BY <1>2, <1>3, <1>4, <2>1
    <2>4. inflating' # "outer"
      <3> SUFFICES ASSUME given < BufferSize PROVE totalIn' = size /\ totalOut' = total
        BY <1>3, <1>4
      <3>1. totalIn + taken = size
        BY <1>2, <2>1
      <3> QED
        BY <1>1, <1>2, <3>1 DEF Calls
    <2> QED
      BY <1>2, <2>1, <2>2, <2>3, <2>4
  <1> QED
    BY <1>5, <1>6, <1>7, <1>8 DEF ZipInv

LEMMA ResizeInv ==
    ASSUME ZipInv, Resize
    PROVE  ZipInv'
  <1>1. /\ data' = [i \in 1..totalOut |-> IF i <= Len(data) THEN data[i] ELSE 0]
        /\ inflating = "ended" /\ inflating' = "returned"
        /\ UNCHANGED <<size, total, totalIn, totalOut, available, out>>
        /\ totalOut = total
    BY DEF ZipInv, Counted, Resize
  <1>2. totalOut \in Nat /\ Len(data) \in Nat /\ \A i \in 1..Len(data) : data[i] \in Nat
    BY LenProperties, ElementOfSeq DEF ZipInv, ZipTypes
  <1>3. data' \in Seq(Nat) /\ Len(data') = totalOut
    <2>1. \A i \in 1..totalOut : (IF i <= Len(data) THEN data[i] ELSE 0) \in Nat
      BY <1>2
    <2> QED
      BY <1>1, <1>2, <2>1
  <1>4. ZipTypes' /\ Counted' /\ OneBlock'
    BY <1>1, <1>3 DEF ZipInv, ZipTypes, Counted, OneBlock
  <1>5. WhatWentInComesOut'
    <2>1. ASSUME size <= BufferSize PROVE data' = [i \in 1..total |-> i]
      <3>1. Right(totalOut)
        BY <1>1, <2>1 DEF ZipInv, OneBlock
      <3>2. \A i \in 1..totalOut : (IF i <= Len(data) THEN data[i] ELSE 0) = i
        BY <1>2, <3>1 DEF Right
      <3> QED
        BY <1>1, <3>2
    <2> QED
      BY <1>1, <1>3, <2>1 DEF WhatWentInComesOut
  <1> QED
    BY <1>4, <1>5 DEF ZipInv

(* Every step keeps the invariant.                                         *)
LEMMA ZipInduction == ZipSpec => []ZipInv
  <1>1. ZipInit => ZipInv
    <2> SUFFICES ASSUME ZipInit PROVE ZipInv
      OBVIOUS
    <2>1. ZipTypes
      BY EmptySeq, ZipAssumption DEF ZipInit, ZipTypes
    <2> QED
      BY <2>1 DEF ZipInit, ZipInv, Counted, OneBlock, WhatWentInComesOut
  <1>2. ZipInv /\ [ZipNext]_zipVars => ZipInv'
    <2> SUFFICES ASSUME ZipInv, [ZipNext]_zipVars PROVE ZipInv'
      OBVIOUS
    <2>1. CASE Decompressing
      <3>1. /\ inflating = "not yet" /\ totalIn = 0 /\ totalOut = 0 /\ data = << >>
            /\ UNCHANGED <<totalIn, totalOut, available, out, data>>
        BY <2>1 DEF Decompressing, ZipInv, Counted
      <3>2. /\ size' \in Nat /\ total' \in Nat
            /\ \/ size' = 0 /\ total' = 0 /\ inflating' = "returned"
               \/ inflating' = "outer"
        <4>1. CASE size' = 0
          <5>1. total' \in {0} /\ inflating' = "returned"
            BY <2>1, <4>1 DEF Decompressing
          <5> QED
            BY <4>1, <5>1
        <4>2. CASE size' # 0
          <5>1. /\ size' \in 0..MaxInput /\ total' \in 1..MaxOutput
                /\ inflating' = "outer"
            BY <2>1, <4>2 DEF Decompressing
          <5> QED
            BY <5>1, ZipAssumption
        <4> QED
          BY <4>1, <4>2
      <3>3. ZipTypes'
        BY <3>1, <3>2 DEF ZipInv, ZipTypes
      <3>4. Counted' /\ OneBlock'
        <4>1. totalIn' = 0 /\ totalOut' = 0 /\ data' = << >>
          BY <3>1
        <4>2. totalIn' <= size'
          BY <3>2, <4>1
        <4> QED
          BY <3>2, <4>1, <4>2 DEF Counted, OneBlock
      <3>5. WhatWentInComesOut'
        <4> SUFFICES ASSUME inflating' = "returned"
                     PROVE  Len(data') = total' /\ data' = [i \in 1..total' |-> i]
          BY DEF WhatWentInComesOut
        <4>1. data' = << >> /\ total' = 0 /\ Len(<< >>) = 0
          BY <3>1, <3>2, EmptySeq
        <4>2. << >> = [i \in 1..0 |-> i]
          OBVIOUS
        <4> QED
          BY <4>1, <4>2
      <3> QED
        BY <3>3, <3>4, <3>5 DEF ZipInv
    <2>2. CASE FindsDamage
      BY <2>2 DEF FindsDamage, ZipInv, ZipTypes, Counted, OneBlock, WhatWentInComesOut
    <2>3. CASE InsertForEver
      <3>1. out \in Seq(Nat)
        <4>1. BufferSize \in Nat /\ out \in [1..BufferSize -> Nat]
          BY ZipAssumption DEF ZipInv, ZipTypes
        <4> QED
          BY <4>1
      <3>2. data' \in Seq(Nat)
        BY <2>3, <3>1, ConcatProperties DEF InsertForEver, ZipInv, ZipTypes
      <3>3. inflating' \in {"damaged", "thrown"}
            /\ UNCHANGED <<size, total, totalIn, totalOut, available, out>>
        BY <2>3 DEF InsertForEver
      <3> QED
        BY <3>2, <3>3 DEF ZipInv, ZipTypes, Counted, OneBlock, WhatWentInComesOut
    <2>4. CASE UNCHANGED zipVars
      BY <2>4 DEF zipVars, ZipInv, ZipTypes, Counted, OneBlock, Right, WhatWentInComesOut
    <2> QED
      BY <2>1, <2>2, <2>3, <2>4, NextBlockInv, InflateInv, ResizeInv DEF ZipNext
  <1> QED
    BY <1>1, <1>2, PTL DEF ZipSpec

(* WhatWentInComesOut, for input and blocks of every size.                 *)
THEOREM DecompressUndoes == ZipSpec => []WhatWentInComesOut
  <1>1. ZipInv => WhatWentInComesOut
    BY DEF ZipInv
  <1> QED
    BY <1>1, ZipInduction, PTL

(* A bound on the steps decompress still makes: what is left of input and  *)
(* output, and the calls of inflate() that may take and give nothing; when *)
(* it has found damage, the room that is left in a vector.                 *)
Looping == {"outer", "inner", "ended"}
Unfinished == (size - totalIn) + (total - totalOut)
StepsLeft ==
    IF inflating = "damaged"
    THEN IF Len(data) + BufferSize > MemoryLimit THEN 1 ELSE MemoryLimit + 2 - Len(data)
    ELSE IF inflating = "inner" /\ available = 0 /\ totalIn < size THEN 4 * Unfinished + 4
    ELSE IF inflating = "outer" THEN 4 * Unfinished + 3
    ELSE IF inflating = "inner" THEN 4 * Unfinished + 2
    ELSE IF inflating = "ended" THEN 4 * Unfinished + 1
    ELSE 0

(* No more is taken or given than there is.                                *)
WithinBounds == inflating \in Looping => totalIn <= size /\ totalOut <= total

LEMMA BoundsKept ==
    ASSUME ZipInv, WithinBounds, [ZipNext]_zipVars
    PROVE  WithinBounds'
  <1>1. /\ size \in Nat /\ total \in Nat /\ totalIn \in Nat /\ totalOut \in Nat /\ available \in Nat
        /\ inflating = "inner" => totalIn + available <= size
        /\ inflating = "not yet" => totalIn = 0 /\ totalOut = 0
    BY DEF ZipInv, ZipTypes, Counted
  <1>2. CASE Decompressing
    <2>1. size' \in Nat /\ total' \in Nat /\ totalIn' = 0 /\ totalOut' = 0
      <3>1. size' \in 0..MaxInput /\ totalIn' = 0 /\ totalOut' = 0
        BY <1>1, <1>2 DEF Decompressing
      <3>2. total' \in {0} \/ total' \in 1..MaxOutput
        <4>1. CASE size' = 0
          BY <1>2, <4>1 DEF Decompressing
        <4>2. CASE size' # 0
          BY <1>2, <4>2 DEF Decompressing
        <4> QED
          BY <4>1, <4>2
      <3> QED
        BY <3>1, <3>2, ZipAssumption
    <2> QED
      BY <2>1 DEF WithinBounds
  <1>3. CASE NextBlock
    BY <1>3 DEF NextBlock, WithinBounds, Looping
  <1>4. CASE Inflate
    <2>1. PICK taken \in 0..available, given \in 0..BufferSize : Calls(taken, given)
      BY <1>4 DEF Inflate
    <2>2. /\ totalOut + given <= total /\ inflating = "inner" /\ UNCHANGED <<size, total>>
          /\ totalIn' = totalIn + taken /\ totalOut' = totalOut + given
      BY <2>1 DEF Calls
    <2>3. totalIn' <= size /\ totalOut' <= total
      BY <1>1, <2>1, <2>2
    <2> QED
      BY <2>2, <2>3 DEF WithinBounds
  <1>5. CASE Resize
    BY <1>5 DEF Resize, WithinBounds, Looping
  <1>6. CASE FindsDamage
    BY <1>6 DEF FindsDamage, WithinBounds, Looping
  <1>7. CASE InsertForEver
    BY <1>7 DEF InsertForEver, WithinBounds, Looping
  <1>8. CASE UNCHANGED zipVars
    BY <1>8 DEF zipVars, WithinBounds
  <1> QED
    BY <1>2, <1>3, <1>4, <1>5, <1>6, <1>7, <1>8 DEF ZipNext

(* A step of the loops, of the resize or of the insertions after damage    *)
(* makes the bound smaller, or decompress ends with it.                    *)
LoopStep ==
    /\ inflating \in Looping \cup {"damaged"} => StepsLeft \in Nat
    /\ (inflating \in Looping \cup {"damaged"}) /\ ~FindsDamage =>
          inflating' \in {"returned", "thrown"} \/ StepsLeft' < StepsLeft

LEMMA StepsShrink ==
    ASSUME ZipInv, ZipInv', WithinBounds, WithinBounds', ZipNext
    PROVE  LoopStep
  <1>1. /\ size \in Nat /\ total \in Nat /\ totalIn \in Nat /\ totalOut \in Nat /\ available \in Nat
        /\ BufferSize \in Nat \ {0} /\ MemoryLimit \in Nat /\ Len(data) \in Nat
        /\ inflating = "inner" => totalIn + available <= size
        /\ inflating \in Looping => totalIn <= size /\ totalOut <= total
    BY ZipAssumption, LenProperties DEF ZipInv, ZipTypes, Counted, WithinBounds
  <1>2. ASSUME inflating \in Looping PROVE Unfinished \in Nat
    BY <1>1, <1>2 DEF Unfinished
  <1>3. ASSUME inflating \in Looping \cup {"damaged"} PROVE StepsLeft \in Nat
    <2>1. CASE inflating = "damaged"
      <3>1. Len(data) + BufferSize > MemoryLimit \/ MemoryLimit + 2 - Len(data) \in Nat
        BY <1>1
      <3> QED
        BY <2>1, <3>1 DEF StepsLeft
    <2>2. CASE inflating \in Looping
      <3> DEFINE u == Unfinished
      <3>1. u \in Nat
        BY <1>2, <2>2
      <3> HIDE DEF u
      <3>2. /\ 4 * u + 4 \in Nat /\ 4 * u + 3 \in Nat
            /\ 4 * u + 2 \in Nat /\ 4 * u + 1 \in Nat
        BY <3>1
      <3> QED
        BY <2>2, <3>2 DEF StepsLeft, Looping, u
    <2> QED
      BY <1>3, <2>1, <2>2
  <1>4. ASSUME NextBlock PROVE StepsLeft' < StepsLeft
    <2>1. /\ inflating = "outer" /\ inflating' = "inner"
          /\ UNCHANGED <<size, total, totalIn, totalOut, out, data>>
          /\ available' = IF size - totalIn < BufferSize THEN size - totalIn ELSE BufferSize
      BY <1>4 DEF NextBlock
    <2> DEFINE u == Unfinished
    <2>2. u \in Nat /\ Unfinished' = u
      BY <1>2, <2>1 DEF Unfinished, Looping
    <2> HIDE DEF u
    <2>3. ~(available' = 0 /\ totalIn < size)
      BY <1>1, <2>1
    <2>4. StepsLeft = 4 * u + 3
      BY <2>1 DEF StepsLeft, u
    <2>5. StepsLeft' = 4 * u + 2
      BY <2>1, <2>2, <2>3 DEF StepsLeft
    <2> QED
      BY <2>2, <2>4, <2>5
  <1>5. ASSUME Inflate PROVE StepsLeft' < StepsLeft
    <2>1. PICK taken \in 0..available, given \in 0..BufferSize : Calls(taken, given) /\ AfterCall(given)
      BY <1>5 DEF Inflate
    <2>2. /\ inflating = "inner" /\ UNCHANGED <<size, total>>
          /\ totalIn' = totalIn + taken /\ totalOut' = totalOut + given
          /\ available' = available - taken
          /\ given = BufferSize \/ taken = available
          /\ inflating' = IF given = BufferSize THEN "inner"
                          ELSE IF totalIn' = size /\ totalOut' = total THEN "ended" ELSE "outer"
          /\ (totalIn + taken = size /\ given < BufferSize) => totalOut + given = total
      BY <2>1 DEF Calls, AfterCall
    <2>3. /\ taken \in Nat /\ taken <= available /\ given \in Nat /\ given <= BufferSize
      BY <1>1, <2>1
    <2> DEFINE u == Unfinished
               w == Unfinished'
    <2>4. /\ u \in Nat /\ w = u - taken - given
      BY <1>1, <1>2, <2>2, <2>3 DEF Unfinished, Looping
    <2>5. w \in Nat
      <3>1. inflating' \in Looping
        BY <2>2 DEF Looping
      <3>2. totalIn' <= size' /\ totalOut' <= total'
        BY <3>1 DEF WithinBounds
      <3> QED
        BY <1>1, <2>2, <2>3, <3>2 DEF Unfinished
    <2> HIDE DEF u, w
    <2>6. StepsLeft = IF available = 0 /\ totalIn < size THEN 4 * u + 4 ELSE 4 * u + 2
      BY <2>2 DEF StepsLeft, u
    <2>7. StepsLeft' <= 4 * w + 4
      <3>1. StepsLeft' \in {4 * w + 4, 4 * w + 3, 4 * w + 2, 4 * w + 1}
        BY <2>2 DEF StepsLeft, w
      <3> QED
        BY <2>5, <3>1
    <2>8. CASE taken + given > 0
      <3>1. w + 1 <= u
        BY <2>3, <2>4, <2>5, <2>8
      <3>2. 4 * w + 4 <= 4 * u /\ StepsLeft >= 4 * u + 2 /\ StepsLeft' \in Int
        <4>1. StepsLeft' \in {4 * w + 4, 4 * w + 3, 4 * w + 2, 4 * w + 1}
          BY <2>2 DEF StepsLeft, w
        <4> QED
          BY <2>4, <2>5, <2>6, <3>1, <4>1
      <3> QED
        BY <2>4, <2>5, <2>6, <2>7, <3>2
    <2>9. CASE taken = 0 /\ given = 0
      <3>1. given # BufferSize /\ given < BufferSize /\ available = 0 /\ w = u
        BY <1>1, <2>2, <2>4, <2>9
      <3>2. CASE totalIn < size
        <4>1. inflating' = "outer"
          BY <1>1, <2>2, <2>9, <3>1, <3>2
        <4>2. StepsLeft' = 4 * w + 3
          BY <4>1 DEF StepsLeft, w
        <4> QED
          BY <2>4, <2>6, <3>1, <3>2, <4>2
      <3>3. CASE ~(totalIn < size)
        <4>1. totalIn = size
          BY <1>1, <2>2, <3>3
        <4>2. inflating' = "ended"
          BY <1>1, <2>2, <2>9, <3>1, <4>1
        <4>3. StepsLeft' = 4 * w + 1
          BY <4>2 DEF StepsLeft, w
        <4> QED
          BY <2>4, <2>6, <3>1, <3>3, <4>3
      <3> QED
        BY <3>2, <3>3
    <2> QED
      BY <2>3, <2>8, <2>9
  <1>6. ASSUME InsertForEver PROVE inflating' = "thrown" \/ StepsLeft' < StepsLeft
    <2> SUFFICES ASSUME inflating' # "thrown" PROVE StepsLeft' < StepsLeft
      OBVIOUS
    <2>1. /\ inflating = "damaged" /\ inflating' = "damaged" /\ data' = data \o out
          /\ ~(Len(data) + BufferSize > MemoryLimit)
      BY <1>6 DEF InsertForEver
    <2>2. Len(data') = Len(data) + BufferSize
      <3>1. out \in [1..BufferSize -> Nat] /\ data \in Seq(Nat)
        BY DEF ZipInv, ZipTypes
      <3>2. out \in Seq(Nat) /\ Len(out) = BufferSize
        BY <1>1, <3>1
      <3> QED
        BY <2>1, <3>1, <3>2, ConcatProperties
    <2>3. StepsLeft = MemoryLimit + 2 - Len(data)
      BY <2>1 DEF StepsLeft
    <2>4. StepsLeft' = IF Len(data) + BufferSize + BufferSize > MemoryLimit THEN 1
                       ELSE MemoryLimit + 2 - (Len(data) + BufferSize)
      BY <2>1, <2>2 DEF StepsLeft
    <2> QED
      BY <1>1, <2>1, <2>3, <2>4
  <1>7. ASSUME Resize PROVE inflating' = "returned"
    BY <1>7 DEF Resize
  <1>8. ASSUME Decompressing PROVE inflating \notin Looping \cup {"damaged"}
    BY <1>8 DEF Decompressing, Looping
  <1> QED
    BY <1>3, <1>4, <1>5, <1>6, <1>7, <1>8 DEF ZipNext, LoopStep

(* decompress never goes round for ever: as long as it neither returns nor *)
(* throws, every step leaves it fewer of them, whatever inflate() takes    *)
(* and gives, and again from when it has found damage.  This is what       *)
(* DecompressEnds asks of each step.                                       *)
THEOREM DecompressRunsOut == ZipSpec => [][LoopStep]_zipVars
  <1>1. ZipInit => WithinBounds
    BY DEF ZipInit, WithinBounds, Looping
  <1>2. ZipInv /\ WithinBounds /\ [ZipNext]_zipVars => WithinBounds'
    BY BoundsKept
  <1>3. /\ ZipInv /\ ZipInv' /\ WithinBounds /\ WithinBounds' /\ [ZipNext]_zipVars
        => [LoopStep]_zipVars
    BY StepsShrink
  <1> QED
    BY <1>1, <1>2, <1>3, ZipInduction, PTL DEF ZipSpec

-----------------------------------------------------------------------------
(***************************************************************************)
(* data_router                                                             *)
(***************************************************************************)

Routings == [kind : {"data", "link"}, next : Nat, end : Nat, succeeded : BOOLEAN,
             heard : Seq(Handlers), failed : SUBSET Nat, calling : BOOLEAN,
             disturbed : BOOLEAN, quiet : SUBSET Handlers]

RouterTypes ==
    /\ cells \in Seq(Handlers) /\ count \in Nat /\ count <= Len(cells)
    /\ removed \in SUBSET Handlers
    /\ routing # None => routing \in Routings

(* The list holds no handler that was removed, and while a routing runs    *)
(* nothing up to its end is a handler removed before it began.             *)
RemovedAreGone ==
    /\ \A i \in 1..count : cells[i] \notin removed
    /\ routing # None =>
           /\ routing.end <= Len(cells) /\ count <= routing.end
           /\ \A i \in 1..routing.end : cells[i] \notin routing.quiet
           /\ \A i \in 1..Len(routing.heard) : routing.heard[i] \notin routing.quiet

(* Where a routing stands, and whom it has called if nothing moved.        *)
CallsInTurn ==
    routing # None =>
        /\ routing.next \in 1..(routing.end + 1)
        /\ routing.calling => routing.next <= routing.end
        /\ routing.kind = "data" => (routing.succeeded <=> routing.failed = {})
        /\ routing.kind = "link" => routing.succeeded
        /\ ~routing.disturbed => routing.end = count
        /\ ~routing.disturbed /\ routing.succeeded =>
               /\ Len(routing.heard) = IF routing.calling THEN routing.next ELSE routing.next - 1
               /\ \A i \in 1..Len(routing.heard) : routing.heard[i] = cells[i]

RouterInv == RouterTypes /\ RemovedAreGone /\ CallsInTurn

LEMMA InboundFacts ==
    ASSUME RouterTypes
    PROVE  /\ InboundHandlers \in Seq(Handlers) /\ Len(InboundHandlers) = count
           /\ \A i \in 1..count : InboundHandlers[i] = cells[i] /\ cells[i] \in Handlers
  <1>1. /\ cells \in Seq(Handlers) /\ count \in Nat /\ count <= Len(cells) /\ Len(cells) \in Nat
    BY LenProperties DEF RouterTypes
  <1>2. \A i \in 1..count : cells[i] \in Handlers
    BY <1>1, ElementOfSeq
  <1>3. /\ SubSeq(cells, 1, count) \in Seq(Handlers)
        /\ Len(SubSeq(cells, 1, count)) = IF 1 <= count THEN count - 1 + 1 ELSE 0
        /\ \A i \in 1..(count - 1 + 1) : SubSeq(cells, 1, count)[i] = cells[1 + i - 1]
    BY <1>1, <1>2, SubSeqProperties
  <1> QED
    BY <1>1, <1>2, <1>3 DEF InboundHandlers

LEMMA ConfigureInv ==
    ASSUME RouterInv, NEW h \in Handlers, ConfigureInbound(h)
    PROVE  RouterInv'
  <1>1. /\ routing = None /\ routing' = None
        /\ cells' = Append(InboundHandlers, h) /\ count' = count + 1 /\ removed' = removed \ {h}
    BY DEF ConfigureInbound
  <1>2. /\ InboundHandlers \in Seq(Handlers) /\ Len(InboundHandlers) = count
        /\ \A i \in 1..count : InboundHandlers[i] = cells[i]
        /\ count \in Nat /\ removed \in SUBSET Handlers
        /\ \A i \in 1..count : cells[i] \notin removed
    BY InboundFacts DEF RouterInv, RouterTypes, RemovedAreGone
  <1>3. /\ cells' \in Seq(Handlers) /\ Len(cells') = count + 1
        /\ \A i \in 1..count : cells'[i] = cells[i]
        /\ cells'[count + 1] = h
    BY <1>1, <1>2, AppendProperties
  <1>4. RouterTypes' /\ CallsInTurn'
    BY <1>1, <1>2, <1>3 DEF RouterTypes, CallsInTurn
  <1>5. RemovedAreGone'
    <2>1. \A i \in 1..(count + 1) : i \in 1..count \/ i = count + 1
      BY <1>2
    <2>2. \A i \in 1..(count + 1) : cells'[i] \notin removed \ {h}
      BY <1>2, <1>3, <2>1
    <2> QED
      BY <1>1, <2>2 DEF RemovedAreGone
  <1> QED
    BY <1>4, <1>5 DEF RouterInv

(* What is removed leaves the list; what the cells hold, they held before. *)
LEMMA RemoveFacts ==
    ASSUME RouterTypes, NEW h \in Handlers, RemoveHandler(h)
    PROVE  /\ cells' \in Seq(Handlers) /\ Len(cells') = Len(cells)
           /\ count' \in Nat /\ count' <= count
           /\ \A i \in 1..count' : cells'[i] # h
           /\ \A i \in 1..count' : \E k \in 1..count : cells'[i] = cells[k]
           /\ \A i \in 1..Len(cells) : i > count' => cells'[i] = cells[i]
  <1> PICK n \in 0..count : \E from \in [1..n -> Kept(h)] :
            /\ count' = n
            /\ cells' = [i \in 1..Len(cells) |-> IF i <= n THEN cells[from[i]] ELSE cells[i]]
    BY DEF RemoveHandler
  <1>1. PICK from \in [1..n -> Kept(h)] :
            /\ count' = n
            /\ cells' = [i \in 1..Len(cells) |-> IF i <= n THEN cells[from[i]] ELSE cells[i]]
    OBVIOUS
  <1>2. /\ cells \in Seq(Handlers) /\ Len(cells) \in Nat /\ count \in Nat /\ count <= Len(cells)
        /\ \A i \in 1..Len(cells) : cells[i] \in Handlers
        /\ n \in Nat /\ n <= count
    BY <1>1, LenProperties, ElementOfSeq DEF RouterTypes
  <1>3. \A i \in 1..n : from[i] \in 1..count /\ cells[from[i]] # h
    BY DEF Kept, SameHandler
  <1>4. \A i \in 1..Len(cells) : (IF i <= n THEN cells[from[i]] ELSE cells[i]) \in Handlers
    BY <1>2, <1>3
  <1>5. cells' \in Seq(Handlers) /\ Len(cells') = Len(cells)
    BY <1>1, <1>2, <1>4
  <1>6. \A i \in 1..n : cells'[i] = cells[from[i]]
    BY <1>1, <1>2
  <1>7. \A i \in 1..Len(cells) : i > n => cells'[i] = cells[i]
    BY <1>1, <1>2
  <1> QED
    BY <1>1, <1>2, <1>3, <1>5, <1>6, <1>7

LEMMA RemoveInv ==
    ASSUME RouterInv, NEW h \in Handlers, RemoveHandler(h)
    PROVE  RouterInv'
  <1>1. /\ cells' \in Seq(Handlers) /\ Len(cells') = Len(cells)
        /\ count' \in Nat /\ count' <= count
        /\ \A i \in 1..count' : cells'[i] # h
        /\ \A i \in 1..count' : \E k \in 1..count : cells'[i] = cells[k]
        /\ \A i \in 1..Len(cells) : i > count' => cells'[i] = cells[i]
    BY RemoveFacts DEF RouterInv
  <1>2. /\ count \in Nat /\ count <= Len(cells) /\ Len(cells) \in Nat
        /\ removed' = removed \cup {h} /\ removed' \in SUBSET Handlers
        /\ \A i \in 1..count : cells[i] \notin removed
    BY LenProperties DEF RouterInv, RouterTypes, RemovedAreGone, RemoveHandler
  <1>3. \A i \in 1..count' : cells'[i] \notin removed'
    BY <1>1, <1>2
  <1>4. CASE routing = None
    <2>1. routing' = None
      BY <1>4 DEF RemoveHandler
    <2> QED
      BY <1>1, <1>2, <1>3, <2>1 DEF RouterInv, RouterTypes, RemovedAreGone, CallsInTurn
  <1>5. CASE routing # None
    <2>1. routing' = [routing EXCEPT !.disturbed = TRUE] /\ routing \in Routings
      BY <1>5 DEF RemoveHandler, RouterInv, RouterTypes
    <2>2. /\ routing' \in Routings /\ routing'.disturbed
          /\ routing'.kind = routing.kind /\ routing'.next = routing.next
          /\ routing'.end = routing.end /\ routing'.succeeded = routing.succeeded
          /\ routing'.heard = routing.heard /\ routing'.failed = routing.failed
          /\ routing'.calling = routing.calling /\ routing'.quiet = routing.quiet
      BY <2>1 DEF Routings
    <2>3. /\ routing.end \in Nat /\ routing.end <= Len(cells) /\ count <= routing.end
          /\ \A i \in 1..routing.end : cells[i] \notin routing.quiet
          /\ \A i \in 1..Len(routing.heard) : routing.heard[i] \notin routing.quiet
      BY <1>5, <2>1 DEF RouterInv, RemovedAreGone, Routings
    <2>4. ASSUME NEW i \in 1..routing.end PROVE cells'[i] \notin routing.quiet
      <3>1. CASE i <= count'
        <4>1. i \in 1..count'
          BY <1>1, <2>3, <3>1
        <4>2. PICK k \in 1..count : cells'[i] = cells[k]
          BY <1>1, <4>1
        <4>3. k \in 1..routing.end
          BY <1>2, <2>3
        <4> QED
          BY <2>3, <4>2, <4>3
      <3>2. CASE i > count'
        <4>1. i \in 1..Len(cells)
          BY <1>2, <2>3
        <4> QED
          BY <1>1, <2>3, <3>2, <4>1
      <3> QED
        BY <1>1, <2>3, <3>1, <3>2
    <2>5. RouterTypes'
      BY <1>1, <1>2, <2>2 DEF RouterTypes
    <2>6. RemovedAreGone'
      <3>1. count' <= routing.end
        BY <1>1, <1>2, <2>3
      <3> QED
        BY <1>1, <1>3, <2>2, <2>3, <2>4, <3>1 DEF RemovedAreGone
    <2>7. CallsInTurn'
      BY <1>5, <2>2 DEF RouterInv, CallsInTurn
    <2> QED
      BY <2>5, <2>6, <2>7 DEF RouterInv
  <1> QED
    BY <1>4, <1>5

LEMMA RouteInv ==
    ASSUME RouterInv, NEW kind \in {"data", "link"}, Route(kind)
    PROVE  RouterInv'
  <1> DEFINE begun == [kind |-> kind, next |-> 1, end |-> count, succeeded |-> TRUE,
                       heard |-> <<>>, failed |-> {}, calling |-> FALSE, disturbed |-> FALSE,
                       quiet |-> removed]
  <1>1. routing' = begun /\ UNCHANGED <<cells, count, removed>>
    BY DEF Route
  <1>2. count \in Nat /\ count <= Len(cells) /\ removed \in SUBSET Handlers
    BY DEF RouterInv, RouterTypes
  <1>3. << >> \in Seq(Handlers) /\ Len(<< >>) = 0
    BY EmptySeq
  <1>4. begun \in Routings
    BY <1>2, <1>3 DEF Routings
  <1>5. /\ begun.next = 1 /\ begun.end = count /\ begun.succeeded /\ begun.heard = << >>
        /\ begun.failed = {} /\ ~begun.calling /\ begun.quiet = removed
    OBVIOUS
  <1> HIDE DEF begun
  <1>6. RouterTypes'
    BY <1>1, <1>4 DEF RouterInv, RouterTypes
  <1>7. RemovedAreGone'
    BY <1>1, <1>2, <1>3, <1>5 DEF RouterInv, RemovedAreGone
  <1>8. CallsInTurn'
    BY <1>1, <1>2, <1>3, <1>5 DEF CallsInTurn
  <1> QED
    BY <1>6, <1>7, <1>8 DEF RouterInv

LEMMA CallInv ==
    ASSUME RouterInv, CallHandler
    PROVE  RouterInv'
  <1>1. /\ routing # None /\ routing.next <= routing.end /\ ~routing.calling
        /\ routing \in Routings /\ UNCHANGED <<cells, count, removed>>
    BY DEF CallHandler, RouterInv, RouterTypes
  <1>2. /\ routing.next \in 1..(routing.end + 1) /\ routing.end \in Nat
        /\ routing.kind = "data" => (routing.succeeded <=> routing.failed = {})
        /\ routing.kind = "link" => routing.succeeded
        /\ ~routing.disturbed => routing.end = count
        /\ ~routing.disturbed /\ routing.succeeded =>
               /\ Len(routing.heard) = routing.next - 1
               /\ \A i \in 1..Len(routing.heard) : routing.heard[i] = cells[i]
    BY <1>1 DEF RouterInv, CallsInTurn, Routings
  <1>3. /\ routing.end <= Len(cells) /\ count <= routing.end
        /\ \A i \in 1..routing.end : cells[i] \notin routing.quiet
        /\ \A i \in 1..Len(routing.heard) : routing.heard[i] \notin routing.quiet
        /\ \A i \in 1..count : cells[i] \notin removed
    BY <1>1 DEF RouterInv, RemovedAreGone
  <1>4. CASE ~(routing.kind = "link" \/ routing.succeeded)
    <2>1. /\ routing' = [routing EXCEPT !.next = @ + 1] /\ ~routing.succeeded
      BY <1>4 DEF CallHandler
    <2>2. /\ routing' \in Routings /\ routing'.next = routing.next + 1
          /\ routing'.kind = routing.kind /\ routing'.end = routing.end
          /\ routing'.succeeded = routing.succeeded /\ routing'.heard = routing.heard
          /\ routing'.failed = routing.failed /\ routing'.calling = routing.calling
          /\ routing'.disturbed = routing.disturbed /\ routing'.quiet = routing.quiet
      BY <1>1, <2>1 DEF Routings
    <2>3. routing.next + 1 \in 1..(routing.end + 1)
      BY <1>1, <1>2
    <2>4. RouterTypes' /\ RemovedAreGone'
      BY <1>1, <1>3, <2>2 DEF RouterInv, RouterTypes, RemovedAreGone
    <2>5. CallsInTurn'
      BY <1>1, <1>2, <2>1, <2>2, <2>3 DEF CallsInTurn
    <2> QED
      BY <2>4, <2>5 DEF RouterInv
  <1>5. CASE routing.kind = "link" \/ routing.succeeded
    <2> DEFINE called == cells[routing.next]
               heard == Append(routing.heard, called)
    <2>1. routing' = [routing EXCEPT !.calling = TRUE, !.heard = heard]
      BY <1>5 DEF CallHandler
    <2>2. routing.heard \in Seq(Handlers) /\ cells \in Seq(Handlers) /\ Len(cells) \in Nat
      BY <1>1, LenProperties DEF Routings, RouterInv, RouterTypes
    <2>3. routing.next \in 1..Len(cells) /\ routing.next \in 1..routing.end
      BY <1>1, <1>2, <1>3, <2>2
    <2>4. called \in Handlers /\ called \notin routing.quiet
      BY <1>3, <2>2, <2>3, ElementOfSeq
    <2> HIDE DEF called
    <2>5. /\ heard \in Seq(Handlers) /\ Len(heard) = Len(routing.heard) + 1
          /\ \A i \in 1..Len(routing.heard) : heard[i] = routing.heard[i]
          /\ heard[Len(routing.heard) + 1] = called /\ Len(routing.heard) \in Nat
      BY <2>2, <2>4, AppendProperties, LenProperties
    <2> HIDE DEF heard
    <2>6. /\ routing' \in Routings /\ routing'.next = routing.next /\ routing'.heard = heard
          /\ routing'.kind = routing.kind /\ routing'.end = routing.end
          /\ routing'.succeeded = routing.succeeded
          /\ routing'.failed = routing.failed /\ routing'.calling
          /\ routing'.disturbed = routing.disturbed /\ routing'.quiet = routing.quiet
      BY <1>1, <2>1, <2>5 DEF Routings
    <2>7. \A i \in 1..Len(heard) : i \in 1..Len(routing.heard) \/ i = Len(routing.heard) + 1
      BY <2>5
    <2>8. RouterTypes'
      BY <1>1, <2>6 DEF RouterInv, RouterTypes
    <2>9. RemovedAreGone'
      <3>1. \A i \in 1..Len(heard) : heard[i] \notin routing.quiet
        BY <1>3, <2>4, <2>5, <2>7
      <3> QED
        BY <1>1, <1>3, <2>6, <3>1 DEF RemovedAreGone
    <2>10. CallsInTurn'
      <3>1. ASSUME ~routing.disturbed, routing.succeeded
            PROVE  Len(heard) = routing.next /\ \A i \in 1..Len(heard) : heard[i] = cells[i]
        <4>1. Len(routing.heard) + 1 = routing.next
          BY <1>2, <2>5, <3>1
        <4> QED
          BY <1>2, <2>5, <2>7, <3>1, <4>1 DEF called
      <3> QED
        BY <1>1, <1>2, <2>6, <3>1 DEF CallsInTurn
    <2> QED
      BY <2>8, <2>9, <2>10 DEF RouterInv
  <1> QED
    BY <1>4, <1>5

LEMMA ReturnInv ==
    ASSUME RouterInv, NEW result \in BOOLEAN, HandlerReturns(result)
    PROVE  RouterInv'
  <1>1. /\ routing # None /\ routing.calling
        /\ routing \in Routings /\ UNCHANGED <<cells, count, removed>>
    BY DEF HandlerReturns, RouterInv, RouterTypes
  <1> DEFINE succeeded == routing.succeeded /\ (result \/ routing.kind = "link")
             failed == IF result THEN routing.failed
                       ELSE routing.failed \cup {Len(routing.heard)}
  <1>2. routing' = [routing EXCEPT !.calling = FALSE, !.next = routing.next + 1,
                                   !.succeeded = succeeded, !.failed = failed]
    BY <1>1 DEF HandlerReturns, Routings
  <1>3. /\ routing.next \in 1..(routing.end + 1) /\ routing.next <= routing.end
        /\ routing.end \in Nat
        /\ routing.kind = "data" => (routing.succeeded <=> routing.failed = {})
        /\ routing.kind = "link" => routing.succeeded
        /\ ~routing.disturbed => routing.end = count
        /\ ~routing.disturbed /\ routing.succeeded =>
               /\ Len(routing.heard) = routing.next
               /\ \A i \in 1..Len(routing.heard) : routing.heard[i] = cells[i]
    BY <1>1 DEF RouterInv, CallsInTurn, Routings
  <1>4. Len(routing.heard) \in Nat
    BY <1>1, LenProperties DEF Routings
  <1>5. succeeded \in BOOLEAN /\ failed \in SUBSET Nat
    BY <1>1, <1>4 DEF Routings
  <1>6. /\ succeeded => routing.succeeded
        /\ routing.kind = "data" => (succeeded <=> failed = {})
        /\ routing.kind = "link" => succeeded
    <2>1. routing.kind = "data" => routing.kind # "link"
      OBVIOUS
    <2> QED
      BY <1>3, <2>1
  <1> HIDE DEF succeeded, failed
  <1>7. /\ routing' \in Routings /\ routing'.next = routing.next + 1
        /\ routing'.kind = routing.kind /\ routing'.end = routing.end
        /\ routing'.succeeded = succeeded /\ routing'.heard = routing.heard
        /\ routing'.failed = failed /\ ~routing'.calling
        /\ routing'.disturbed = routing.disturbed /\ routing'.quiet = routing.quiet
    <2>1. routing.next + 1 \in Nat
      BY <1>3
    <2>2. routing' \in Routings
      BY <1>1, <1>2, <1>5, <2>1 DEF Routings
    <2>3. /\ routing'.next = routing.next + 1
          /\ routing'.kind = routing.kind /\ routing'.end = routing.end
          /\ routing'.heard = routing.heard /\ routing'.failed = failed
          /\ routing'.disturbed = routing.disturbed /\ routing'.quiet = routing.quiet
      BY <1>1, <1>2 DEF Routings
    <2>4. routing'.succeeded = succeeded /\ routing'.calling = FALSE
      BY <1>1, <1>2, Zenon DEF Routings
    <2> QED
      BY <2>2, <2>3, <2>4
  <1>8. RouterTypes'
    BY <1>1, <1>7 DEF RouterInv, RouterTypes
  <1>9. RemovedAreGone'
    BY <1>1, <1>7 DEF RouterInv, RemovedAreGone
  <1>10. CallsInTurn'
    <2>1. routing.next + 1 \in 1..(routing.end + 1) /\ (routing.next + 1) - 1 = routing.next
      BY <1>3
    <2> QED
      BY <1>1, <1>3, <1>6, <1>7, <2>1 DEF CallsInTurn
  <1> QED
    BY <1>8, <1>9, <1>10 DEF RouterInv

(* RoutingAsPromised, for any number of handlers and registrations: a link *)
(* status reaches every handler, and the result of route_inbound tells     *)
(* whether data has and was handled by each.                               *)
THEOREM RoutingReachesAll == RouterSpec => []RoutingAsPromised
  <1>1. RouterInit => RouterInv
    <2>1. << >> \in Seq(Handlers) /\ Len(<< >>) = 0
      BY EmptySeq
    <2> QED
      BY <2>1 DEF RouterInit, RouterInv, RouterTypes, RemovedAreGone, CallsInTurn
  <1>2. RouterInv /\ [RouterNext]_routerVars => RouterInv'
    <2> SUFFICES ASSUME RouterInv, [RouterNext]_routerVars PROVE RouterInv'
      OBVIOUS
    <2>1. CASE HandlerThrows \/ RouteReturns
      BY <2>1 DEF HandlerThrows, RouteReturns, RouterInv, RouterTypes, RemovedAreGone, CallsInTurn
    <2>2. ASSUME NEW c \in Connections, ConfigureOutbound(c) \/ ConnectionEnds(c)
          PROVE  RouterInv'
      BY <2>2 DEF ConfigureOutbound, ConnectionEnds,
                  RouterInv, RouterTypes, RemovedAreGone, CallsInTurn
    <2>3. CASE RouteOutbound
      BY <2>3 DEF RouteOutbound, RouterInv, RouterTypes, RemovedAreGone, CallsInTurn
    <2>4. CASE UNCHANGED routerVars
      BY <2>4 DEF routerVars, RouterInv, RouterTypes, RemovedAreGone, CallsInTurn
    <2> QED
      BY <2>1, <2>2, <2>3, <2>4, ConfigureInv, RemoveInv, RouteInv, CallInv, ReturnInv
         DEF RouterNext
  <1>3. RouterInv => RoutingAsPromised
    <2> SUFFICES ASSUME RouterInv, routing # None PROVE RoutingAsPromised
      BY DEF RoutingAsPromised, Ended
    <2>1. /\ routing \in Routings /\ routing.heard \in Seq(Handlers) /\ count \in Nat
          /\ routing.end \in Nat
      BY DEF RouterInv, RouterTypes, Routings
    <2>2. /\ routing.next \in 1..(routing.end + 1)
          /\ routing.calling => routing.next <= routing.end
          /\ routing.kind = "data" => (routing.succeeded <=> routing.failed = {})
          /\ routing.kind = "link" => routing.succeeded
          /\ ~routing.disturbed => routing.end = count
          /\ ~routing.disturbed /\ routing.succeeded =>
                 /\ Len(routing.heard) = IF routing.calling THEN routing.next ELSE routing.next - 1
                 /\ \A i \in 1..Len(routing.heard) : routing.heard[i] = cells[i]
      BY DEF RouterInv, CallsInTurn
    <2>3. ASSUME routing.next > routing.end, ~routing.disturbed, routing.succeeded
          PROVE  routing.heard = InboundHandlers
      <3>1. ~routing.calling
        BY <2>1, <2>2, <2>3
      <3>2. Len(routing.heard) = count /\ \A i \in 1..Len(routing.heard) : routing.heard[i] = cells[i]
        BY <2>1, <2>2, <2>3, <3>1
      <3>3. /\ InboundHandlers \in Seq(Handlers) /\ Len(InboundHandlers) = count
            /\ \A i \in 1..count : InboundHandlers[i] = cells[i]
        BY InboundFacts DEF RouterInv
      <3> QED
        BY <2>1, <3>2, <3>3, SeqEqual
    <2>4. \A i \in 1..Len(routing.heard) : routing.heard[i] \notin routing.quiet
      BY DEF RouterInv, RemovedAreGone
    <2> QED
      BY <2>2, <2>3, <2>4 DEF RoutingAsPromised, Ended
  <1> QED
    BY <1>1, <1>2, <1>3, PTL DEF RouterSpec

-----------------------------------------------------------------------------
(***************************************************************************)
(* dump_as_hex                                                             *)
(***************************************************************************)

Rows == [address : Nat, bytes : Seq(Nat), column : Nat]

DumpTypes ==
    /\ shown \in Nat /\ filled \in 0..Row /\ address \in Nat
    /\ rowBuffer \in [0..(Row - 1) -> Nat]
    /\ rows \in Seq(Rows)

(* The characters of a row begin behind the address, 16 bytes of three     *)
(* columns and two spaces, wherever the row ends.                          *)
Column == 8 + 3 * Row + 2

(* The n-th row of a dump, with `many` bytes in it.                        *)
IsRow(row, n, many) ==
    /\ row.address = Row * (n - 1)
    /\ row.bytes = [m \in 1..many |-> Row * (n - 1) + m]
    /\ row.column = Column

(* What has been printed is full rows, and the rest is in the buffer.      *)
DumpedSoFar ==
    /\ address = Row * Len(rows)
    /\ shown = Row * Len(rows) + filled
    /\ filled = 0 => rows = << >>
    /\ \A m \in 1..filled : rowBuffer[m - 1] = Row * Len(rows) + m
    /\ \A n \in 1..Len(rows) : IsRow(rows[n], n, Row)

DumpInv == DumpTypes /\ DumpedSoFar

(* Half a row more or less, the spaces between and behind bytes are two.   *)
LEMMA TwoSpaces ==
    ASSUME NEW n \in 1..Row
    PROVE  Cardinality(HalfRows(n)) + Cardinality(MissingHalfRows(n)) = 2
  <1>1. Cardinality({}) = 0
    BY FS_EmptySet
  <1>2. CASE n <= 8
    <2>1. HalfRows(n) = {0}
      BY <1>2 DEF HalfRows, Row
    <2>2. MissingHalfRows(n) = {8 - n}
      BY <1>2 DEF MissingHalfRows, Row
    <2>3. Cardinality({0}) = 1 /\ Cardinality({8 - n}) = 1
      BY FS_Singleton
    <2> QED
      BY <2>1, <2>2, <2>3
  <1>3. CASE n > 8
    <2>1. HalfRows(n) = {0} \cup {8}
      BY <1>3 DEF HalfRows, Row
    <2>2. MissingHalfRows(n) = {}
      BY <1>3 DEF MissingHalfRows, Row
    <2>3. Cardinality({0} \cup {8}) = 2
      <3>1. IsFiniteSet({0}) /\ Cardinality({0}) = 1
        BY FS_Singleton
      <3>2. 8 \notin {0}
        OBVIOUS
      <3>3. Cardinality({0} \cup {8}) = Cardinality({0}) + 1
        BY <3>1, <3>2, FS_AddElement
      <3> QED
        BY <3>1, <3>3
    <2> QED
      BY <1>1, <2>1, <2>2, <2>3
  <1> QED
    BY <1>2, <1>3 DEF Row

LEMMA PrintRowFacts ==
    ASSUME DumpInv, filled # 0
    PROVE  PrintRow(filled) \in Rows /\ IsRow(PrintRow(filled), Len(rows) + 1, filled)
  <1>1. /\ filled \in 1..Row /\ address \in Nat /\ address = Row * Len(rows) /\ Len(rows) \in Nat
        /\ \A m \in 1..filled : rowBuffer[m - 1] = Row * Len(rows) + m
    BY LenProperties DEF DumpInv, DumpTypes, DumpedSoFar, Row
  <1> DEFINE column == 8 + 3 * filled + Cardinality(HalfRows(filled))
                         + 3 * (Row - filled) + Cardinality(MissingHalfRows(filled))
             bytes == [m \in 1..filled |-> rowBuffer[m - 1]]
  <1>2. column = Column
    <2>1. /\ Cardinality(HalfRows(filled)) \in Nat /\ Cardinality(MissingHalfRows(filled)) \in Nat
      <3>1. IsFiniteSet(0..(filled - 1)) /\ IsFiniteSet(0..(Row - filled - 1))
        <4>1. filled - 1 \in Int /\ Row - filled - 1 \in Int
          BY <1>1 DEF Row
        <4> QED
          BY <4>1, FS_Interval
      <3>2. IsFiniteSet(HalfRows(filled)) /\ IsFiniteSet(MissingHalfRows(filled))
        BY <3>1, FS_Subset DEF HalfRows, MissingHalfRows
      <3> QED
        BY <3>2, FS_CardinalityType
    <2>2. Cardinality(HalfRows(filled)) + Cardinality(MissingHalfRows(filled)) = 2
      BY <1>1, TwoSpaces
    <2> QED
      BY <1>1, <2>1, <2>2 DEF Column, Row
  <1>3. bytes = [m \in 1..filled |-> Row * ((Len(rows) + 1) - 1) + m]
    BY <1>1 DEF Row
  <1>4. bytes \in Seq(Nat)
    <2>1. \A m \in 1..filled : rowBuffer[m - 1] \in Nat
      BY <1>1 DEF Row
    <2> QED
      BY <1>1, <2>1 DEF Row
  <1>5. PrintRow(filled) = [address |-> address, bytes |-> bytes, column |-> column]
    BY DEF PrintRow
  <1> HIDE DEF bytes, column
  <1>6. PrintRow(filled) \in Rows
    BY <1>1, <1>2, <1>4, <1>5 DEF Rows, Column, Row
  <1> QED
    BY <1>1, <1>2, <1>3, <1>5, <1>6 DEF IsRow, Row

LEMMA DumpByteInv ==
    ASSUME DumpInv, DumpByte
    PROVE  DumpInv'
  <1>1. /\ shown \in Nat /\ filled \in 0..Row /\ address \in Nat
        /\ rowBuffer \in [0..(Row - 1) -> Nat]
        /\ rows \in Seq(Rows) /\ Len(rows) \in Nat /\ shown' = shown + 1
        /\ address = Row * Len(rows) /\ shown = Row * Len(rows) + filled
        /\ \A m \in 1..filled : rowBuffer[m - 1] = Row * Len(rows) + m
        /\ \A n \in 1..Len(rows) : IsRow(rows[n], n, Row)
    BY LenProperties DEF DumpInv, DumpTypes, DumpedSoFar, DumpByte
  <1>2. CASE filled >= Row
    <2>1. /\ rows' = Append(rows, PrintRow(filled)) /\ address' = address + Row
          /\ rowBuffer' = [rowBuffer EXCEPT ![0] = shown'] /\ filled' = 1 /\ filled = Row
      <3>1. filled = Row
        <4>1. filled \in 0..Row
          BY <1>1
        <4> QED
          BY <1>2, <4>1 DEF Row
      <3> QED
        BY <1>2, <3>1 DEF DumpByte
    <2>2. PrintRow(filled) \in Rows /\ IsRow(PrintRow(filled), Len(rows) + 1, Row)
      BY <2>1, PrintRowFacts DEF Row
    <2>3. /\ rows' \in Seq(Rows) /\ Len(rows') = Len(rows) + 1
          /\ \A n \in 1..Len(rows) : rows'[n] = rows[n]
          /\ rows'[Len(rows) + 1] = PrintRow(filled)
      BY <1>1, <2>1, <2>2, AppendProperties
    <2>4. DumpTypes'
      <3>1. shown' \in Nat /\ filled' \in 0..Row /\ address' \in Nat /\ 0 \in 0..(Row - 1)
        BY <1>1, <2>1 DEF Row
      <3>2. rowBuffer' \in [0..(Row - 1) -> Nat]
        BY <1>1, <2>1, <3>1
      <3> QED
        BY <2>3, <3>1, <3>2 DEF DumpTypes
    <2>5. \A n \in 1..Len(rows') : IsRow(rows'[n], n, Row)
      <3>1. \A n \in 1..Len(rows') : n \in 1..Len(rows) \/ n = Len(rows) + 1
        BY <1>1, <2>3
      <3> QED
        BY <1>1, <2>2, <2>3, <3>1
    <2>6. /\ address' = Row * Len(rows') /\ shown' = Row * Len(rows') + filled'
          /\ \A m \in 1..filled' : rowBuffer'[m - 1] = Row * Len(rows') + m
      BY <1>1, <2>1, <2>3 DEF Row
    <2> QED
      BY <2>1, <2>4, <2>5, <2>6 DEF DumpInv, DumpedSoFar, IsRow
  <1>3. CASE ~(filled >= Row)
    <2>1. /\ rowBuffer' = [rowBuffer EXCEPT ![filled] = shown'] /\ filled' = filled + 1
          /\ UNCHANGED <<address, rows>>
      BY <1>3 DEF DumpByte
    <2>2. filled + 1 \in 1..Row /\ filled \in 0..(Row - 1)
      BY <1>1, <1>3 DEF Row
    <2>3. DumpTypes'
      BY <1>1, <2>1, <2>2 DEF DumpTypes
    <2>4. ASSUME NEW m \in 1..(filled + 1)
          PROVE  rowBuffer'[m - 1] = Row * Len(rows) + m
      <3>1. CASE m = filled + 1
        <4>1. m - 1 = filled
          BY <1>1, <3>1 DEF Row
        <4>2. rowBuffer'[filled] = shown'
          BY <1>1, <2>1, <2>2
        <4> QED
          BY <1>1, <3>1, <4>1, <4>2 DEF Row
      <3>2. CASE m # filled + 1
        <4>1. m \in 1..filled /\ m - 1 # filled /\ m - 1 \in 0..(Row - 1)
          BY <2>2, <3>2 DEF Row
        <4>2. rowBuffer'[m - 1] = rowBuffer[m - 1]
          BY <1>1, <2>1, <4>1
        <4> QED
          BY <1>1, <4>1, <4>2
      <3> QED
        BY <3>1, <3>2
    <2>5. /\ shown' = Row * Len(rows) + filled' /\ filled' # 0
      BY <1>1, <2>1 DEF Row
    <2> QED
      BY <1>1, <2>1, <2>3, <2>4, <2>5 DEF DumpInv, DumpedSoFar, IsRow
  <1> QED
    BY <1>2, <1>3

(* DumpShowsAll, for ranges of every length.                               *)
THEOREM DumpIsComplete == TextSpec => []DumpShowsAll
  <1>1. TextInit => DumpInv
    BY EmptySeq DEF TextInit, DumpInv, DumpTypes, DumpedSoFar, Row
  <1>2. DumpInv /\ [TextNext]_textVars => DumpInv'
    <2>1. ASSUME DumpInv, Type \/ UNCHANGED textVars PROVE DumpInv'
      <3>1. UNCHANGED <<shown, rowBuffer, filled, address, rows>>
        BY <2>1 DEF Type, textVars
      <3> QED
        BY <2>1, <3>1 DEF DumpInv, DumpTypes, DumpedSoFar
    <2> QED
      BY <2>1, DumpByteInv DEF TextNext
  <1>3. DumpInv => DumpShowsAll
    <2> SUFFICES ASSUME DumpInv PROVE DumpShowsAll
      OBVIOUS
    <2>1. /\ rows \in Seq(Rows) /\ Len(rows) \in Nat /\ shown \in Nat /\ filled \in 0..Row
          /\ shown = Row * Len(rows) + filled /\ (filled = 0 => rows = << >>)
          /\ \A n \in 1..Len(rows) : IsRow(rows[n], n, Row)
      BY LenProperties DEF DumpInv, DumpTypes, DumpedSoFar
    <2>2. CASE filled = 0
      <3>1. Dump = << >> /\ Len(Dump) = 0 /\ shown = 0
        BY <2>1, <2>2, EmptySeq DEF Dump, Row
      <3> QED
        BY <3>1 DEF DumpShowsAll
    <2>3. CASE filled # 0
      <3> DEFINE last == Len(rows) + 1
                 dump == Append(rows, PrintRow(filled))
      <3>1. PrintRow(filled) \in Rows /\ IsRow(PrintRow(filled), last, filled)
        BY <2>3, PrintRowFacts
      <3>2. /\ Dump = dump /\ dump # << >> /\ Len(dump) = last
            /\ \A n \in 1..Len(rows) : dump[n] = rows[n]
            /\ dump[last] = PrintRow(filled)
        BY <2>1, <2>3, <3>1, AppendProperties DEF Dump
      <3> HIDE DEF dump
      <3>3. \A n \in 1..last : IsRow(dump[n], n, IF n = last THEN filled ELSE Row)
        <4>1. \A n \in 1..last : (n \in 1..Len(rows) /\ n # last) \/ n = last
          BY <2>1
        <4> QED
          BY <2>1, <3>1, <3>2, <4>1
      <3>4. last \in Nat /\ 1 \in 1..last /\ last \in 1..last
        BY <2>1
      <3>5. ASSUME NEW n \in 1..last
            PROVE  /\ dump[n].address = Row * (n - 1)
                   /\ \A m \in DOMAIN dump[n].bytes : dump[n].bytes[m] = Row * (n - 1) + m
                   /\ n < last => Len(dump[n].bytes) = Row
                   /\ dump[n].column = dump[1].column
        <4>1. IsRow(dump[n], n, IF n = last THEN filled ELSE Row) /\ dump[1].column = Column
          BY <3>3, <3>4 DEF IsRow
        <4>2. n < last => n # last
          BY <3>4
        <4> QED
          BY <4>1, <4>2 DEF IsRow, Row
      <3>6. shown = Row * (last - 1) + Len(dump[last].bytes)
        <4>1. dump[last].bytes = [m \in 1..filled |-> Row * (last - 1) + m]
          BY <3>3, <3>4 DEF IsRow
        <4>2. Len(dump[last].bytes) = filled
          BY <2>1, <4>1 DEF Row
        <4> QED
          BY <2>1, <4>2 DEF Row
      <3> QED
        BY <3>2, <3>5, <3>6 DEF DumpShowsAll
    <2> QED
      BY <2>2, <2>3
  <1> QED
    BY <1>1, <1>2, <1>3, PTL DEF TextSpec

(* The characters of a string.                                             *)
Chars == Letters \cup {Delim}

(* The recursive function of join().                                       *)
FirstOf(vec, f) ==
    f = [n \in 0..Len(vec) |->
            IF n = 0 THEN << >>
            ELSE (IF n = 1 THEN << >> ELSE Append(f[n - 1], Delim)) \o vec[n]]

(* It is what join() computes, and a string at every place.                *)
LEMMA JoinFirst ==
    ASSUME NEW vec \in Seq(Seq(Chars))
    PROVE  \E f \in [0..Len(vec) -> Seq(Chars)] :
              /\ Join(vec) = f[Len(vec)] /\ f[0] = << >>
              /\ \A n \in 1..Len(vec) :
                    f[n] = (IF n = 1 THEN << >> ELSE Append(f[n - 1], Delim)) \o vec[n]
  <1> DEFINE last == Len(vec)
             V == Seq(Chars)
             Next1(n, v) == (IF n = 1 THEN << >> ELSE Append(v, Delim)) \o vec[n]
             step == [n \in 1..last |-> [v \in V |-> Next1(n, v)]]
  <1>1. last \in Nat /\ << >> \in V
    OBVIOUS
  <1>2. \A n \in 1..last, v \in V : Next1(n, v) \in V
    <2> SUFFICES ASSUME NEW n \in 1..last, NEW v \in V PROVE Next1(n, v) \in V
      OBVIOUS
    <2>1. vec[n] \in V /\ Delim \in Chars
      BY DEF Chars
    <2>2. Append(v, Delim) \in V
      BY <2>1
    <2> QED
      BY <2>1, <2>2
  <1> HIDE DEF Next1
  <1>3. step \in [1..last -> [V -> V]]
    BY <1>2
  <1>4. \A n \in 1..last, v \in V : step[n][v] = Next1(n, v)
    OBVIOUS
  <1> HIDE DEF step, last, V
  <1>5. PICK t : Steps(t, V, << >>, last, step)
    BY <1>1, <1>3, RecursiveFunction
  <1>6. t = [n \in 0..last |-> IF n = 0 THEN << >> ELSE Next1(n, t[n - 1])]
    <2>1. t \in [0..last -> V] /\ t[0] = << >> /\ \A n \in 1..last : t[n] = step[n][t[n - 1]]
      BY <1>5 DEF Steps
    <2>2. ASSUME NEW n \in 0..last
          PROVE  t[n] = IF n = 0 THEN << >> ELSE Next1(n, t[n - 1])
      <3>1. CASE n = 0
        BY <2>1, <3>1
      <3>2. CASE n # 0
        <4>1. n \in 1..last /\ n - 1 \in 0..last
          BY <1>1, <3>2
        <4>2. t[n - 1] \in V
          BY <2>1, <4>1
        <4> QED
          BY <1>4, <2>1, <3>2, <4>1, <4>2
      <3> QED
        BY <3>1, <3>2
    <2> QED
      BY <2>1, <2>2
  <1> DEFINE f == CHOOSE f : FirstOf(vec, f)
  <1>7. FirstOf(vec, f)
    BY <1>6 DEF FirstOf, last, Next1
  <1>8. Join(vec) = f[last]
    BY DEF Join, FirstOf, last
  <1> HIDE DEF f
  <1>9. f = [n \in 0..last |-> IF n = 0 THEN << >> ELSE Next1(n, f[n - 1])]
    BY <1>7 DEF FirstOf, last, Next1
  <1>10. f[0] = << >> /\ \A n \in 1..last : f[n] = Next1(n, f[n - 1])
    <2>1. 0 \in 0..last /\ \A n \in 1..last : n \in 0..last /\ n # 0
      BY <1>1
    <2> QED
      BY <1>9, <2>1
  <1>11. \A n \in 0..last : f[n] \in V
    <2> DEFINE S == {n \in 0..last : f[n] \in V}
    <2>1. 0 \in S /\ \A n \in 1..last : n - 1 \in S => n \in S
      BY <1>1, <1>2, <1>10
    <2> HIDE DEF S
    <2>2. 0..last \subseteq S
      BY <1>1, <2>1, BoundedInduction
    <2> QED
      BY <2>2 DEF S
  <1>12. f \in [0..last -> V]
    BY <1>9, <1>11
  <1> QED
    BY <1>8, <1>10, <1>12 DEF last, V, Next1

LEMMA StringsConcat ==
    \A s, t, v \in Seq(Chars) : (s \o t) \o v = s \o (t \o v)
  BY ConcatAssociative

(* What joins a token and others is the token, and behind a delimiter what *)
(* joins the others.                                                       *)
LEMMA JoinCons ==
    ASSUME NEW x \in Seq(Chars), NEW vec \in Seq(Seq(Chars)),
           NEW all, all = <<x>> \o vec
    PROVE  /\ all \in Seq(Seq(Chars)) /\ all # << >>
           /\ Join(all) = IF vec = << >> THEN x ELSE Append(x, Delim) \o Join(vec)
  <1> DEFINE d == <<Delim>>
             V == Seq(Chars)
  <1>1. /\ Len(vec) \in Nat /\ all \in Seq(V) /\ Len(all) = Len(vec) + 1 /\ all # << >>
        /\ all[1] = x /\ \A n \in 1..Len(vec) : all[n + 1] = vec[n] /\ vec[n] \in V
    <2>1. <<x>> \in Seq(V) /\ Len(<<x>>) = 1 /\ <<x>>[1] = x
      OBVIOUS
    <2>2. /\ all \in Seq(V) /\ Len(all) = Len(<<x>>) + Len(vec)
          /\ \A i \in 1..(Len(<<x>>) + Len(vec)) :
                all[i] = IF i <= Len(<<x>>) THEN <<x>>[i] ELSE vec[i - Len(<<x>>)]
      BY <2>1, ConcatProperties
    <2>3. Len(vec) \in Nat /\ \A n \in 1..Len(vec) : vec[n] \in V
      BY LenProperties, ElementOfSeq
    <2>4. all # << >>
      BY <2>1, <2>2, <2>3
    <2>5. \A n \in 1..Len(vec) : (n + 1) - 1 = n /\ ~(n + 1 <= 1) /\ n + 1 \in 1..(1 + Len(vec))
      BY <2>3
    <2>6. \A n \in 1..Len(vec) : all[n + 1] = vec[n]
      BY <2>1, <2>2, <2>5
    <2>7. all[1] = x
      BY <2>1, <2>2, <2>3
    <2> QED
      BY <2>1, <2>2, <2>3, <2>4, <2>6, <2>7
  <1>2. d \in V /\ Delim \in Chars
    BY DEF Chars
  <1>3. \A s \in V : Append(s, Delim) = s \o d /\ << >> \o s = s
    BY <1>2, AppendIsConcat, ConcatEmptySeq
  <1>4. \A s, t \in V : s \o t \in V
    BY ConcatProperties
  <1>5. \A s, t, v \in V : (s \o t) \o v = s \o (t \o v)
    BY StringsConcat
  <1>6. PICK f \in [0..Len(vec) -> V] :
            /\ Join(vec) = f[Len(vec)] /\ f[0] = << >>
            /\ \A n \in 1..Len(vec) :
                  f[n] = (IF n = 1 THEN << >> ELSE Append(f[n - 1], Delim)) \o vec[n]
    BY JoinFirst
  <1>7. PICK h \in [0..Len(all) -> V] :
            /\ Join(all) = h[Len(all)] /\ h[0] = << >>
            /\ \A n \in 1..Len(all) :
                  h[n] = (IF n = 1 THEN << >> ELSE Append(h[n - 1], Delim)) \o all[n]
    BY <1>1, JoinFirst
  <1>8. x \in V /\ \A n \in 1..Len(vec) : vec[n] \in V
    BY <1>1
  <1> HIDE DEF d, V
  <1>9. h[1] = x
    <2>1. 1 \in 1..Len(all)
      BY <1>1
    <2>2. h[1] = << >> \o x
      BY <1>1, <1>7, <2>1
    <2> QED
      BY <1>3, <1>8, <2>2
  <1> DEFINE S == {n \in 0..Len(vec) : n # 0 => h[n + 1] = (x \o d) \o f[n]}
  <1>10. 0 \in S
    BY <1>1
  <1>11. ASSUME NEW n \in 1..Len(vec), n - 1 \in S PROVE h[n + 1] = (x \o d) \o f[n]
    <2>1. /\ n + 1 \in 1..Len(all) /\ n + 1 # 1 /\ (n + 1) - 1 = n
          /\ n \in 0..Len(all) /\ n \in 0..Len(vec) /\ n - 1 \in 0..Len(vec)
      BY <1>1
    <2>2. h[n + 1] = (h[n] \o d) \o vec[n] /\ h[n] \in V
      <3>1. h[n] \in V
        BY <1>7, <2>1
      <3>2. h[n + 1] = Append(h[n], Delim) \o all[n + 1]
        BY <1>7, <2>1
      <3> QED
        BY <1>1, <1>3, <3>1, <3>2
    <2>4. CASE n = 1
      <3>1. f[1] = vec[1]
        BY <1>3, <1>6, <1>8, <2>4
      <3> QED
        BY <1>9, <2>2, <2>4, <3>1
    <2>5. CASE n # 1
      <3>1. f[n - 1] \in V
        BY <1>6, <2>1
      <3>2. f[n] = (f[n - 1] \o d) \o vec[n]
        BY <1>3, <1>6, <2>5, <3>1
      <3>3. h[n] = (x \o d) \o f[n - 1]
        <4>1. (n - 1) + 1 = n /\ n - 1 # 0
          BY <2>1, <2>5
        <4> QED
          BY <1>11, <4>1
      <3> DEFINE p == x \o d
                 r == f[n - 1]
                 q == r \o d
      <3>4. p \in V /\ r \in V /\ q \in V
        BY <1>2, <1>4, <1>8, <3>1
      <3>5. h[n] = p \o r
        BY <3>3
      <3> HIDE DEF p, r
      <3>7. h[n] \o d = p \o q
        <4>1. (p \o r) \o d = p \o (r \o d)
          BY <1>2, <1>5, <3>4
        <4> QED
          BY <3>5, <4>1
      <3> HIDE DEF q
      <3>6. (p \o q) \o vec[n] = p \o (q \o vec[n])
        BY <1>5, <1>8, <3>4
      <3> QED
        BY <2>2, <3>2, <3>6, <3>7 DEF p, q, r
    <2> QED
      BY <2>4, <2>5
  <1>12. \A n \in 1..Len(vec) : h[n + 1] = (x \o d) \o f[n]
    <2>1. \A n \in 1..Len(vec) : n - 1 \in S => n \in S
      <3> SUFFICES ASSUME NEW n \in 1..Len(vec), n - 1 \in S PROVE n \in S
        OBVIOUS
      <3>1. h[n + 1] = (x \o d) \o f[n]
        BY <1>11
      <3>2. n \in 0..Len(vec)
        BY <1>1
      <3> QED
        BY <3>1, <3>2
    <2>2. Len(vec) \in Nat
      BY <1>1
    <2> HIDE DEF S
    <2>3. 0..Len(vec) \subseteq S
      BY <1>10, <2>1, <2>2, BoundedInduction
    <2> SUFFICES ASSUME NEW n \in 1..Len(vec) PROVE h[n + 1] = (x \o d) \o f[n]
      OBVIOUS
    <2>4. n \in 0..Len(vec) /\ n # 0
      BY <2>2
    <2> QED
      BY <2>3, <2>4 DEF S
  <1>13. CASE vec = << >>
    <2>1. Len(all) = 1
      BY <1>1, <1>13
    <2> QED
      BY <1>1, <1>7, <1>9, <1>13, <2>1 DEF V
  <1>14. CASE vec # << >>
    <2>1. Len(vec) \in 1..Len(vec)
      BY <1>1, <1>14, EmptySeq
    <2>2. h[Len(all)] = (x \o d) \o f[Len(vec)]
      BY <1>1, <1>12, <2>1
    <2>3. Append(x, Delim) = x \o d
      BY <1>3, <1>8
    <2> QED
      BY <1>1, <1>6, <1>7, <1>14, <2>2, <2>3 DEF V
  <1> QED
    BY <1>13, <1>14

(* Where explode() cuts a string, the cut behind n, and its recursive      *)
(* function.                                                               *)
Cut(string) == {0} \cup {n \in DOMAIN string : string[n] = Delim} \cup {Len(string) + 1}
After(string, n) ==
    CHOOSE m \in Cut(string) : m > n /\ \A o \in Cut(string) : o > n => m <= o
TokensOf(string, t) ==
    t = [n \in Cut(string) |->
            IF n >= Len(string) THEN << >>
            ELSE <<SubSeq(string, n + 1, After(string, n) - 1)>> \o t[After(string, n)]]

LEMMA CutFacts ==
    ASSUME NEW string \in Seq(Chars)
    PROVE  /\ Len(string) \in Nat /\ Cut(string) \subseteq 0..(Len(string) + 1)
           /\ 0 \in Cut(string) /\ Len(string) + 1 \in Cut(string)
           /\ \A n \in 1..Len(string) : n \in Cut(string) <=> string[n] = Delim
  BY DEF Cut

(* Behind every cut but the last there is a next one.                      *)
LEMMA AfterFacts ==
    ASSUME NEW string \in Seq(Chars), NEW n \in Cut(string), n <= Len(string)
    PROVE  /\ After(string, n) \in Cut(string) /\ After(string, n) > n
           /\ \A o \in Cut(string) : o > n => After(string, n) <= o
  <1> DEFINE L == Len(string)
             T == {m \in Cut(string) : m > n}
  <1>1. L \in Nat /\ n \in 0..L /\ T \subseteq 0..(L + 1) /\ L + 1 \in T
    BY CutFacts
  <1>2. \E m \in T : \A o \in T : m <= o
    <2> HIDE DEF T, L
    <2> SUFFICES ASSUME \A m \in T : \E o \in T : ~(m <= o) PROVE FALSE
      OBVIOUS
    <2> DEFINE S == {k \in 0..(L + 1) : \A o \in T : k <= o}
    <2>1. 0 \in S
      BY <1>1
    <2>2. ASSUME NEW k \in 1..(L + 1), k - 1 \in S PROVE k \in S
      <3>1. k - 1 \notin T
        BY <2>2
      <3>2. \A o \in T : o \in Int /\ k - 1 <= o /\ o # k - 1
        BY <1>1, <2>2, <3>1
      <3> QED
        BY <1>1, <3>2
    <2>3. L + 1 \in S
      <3>1. L + 1 \in Nat /\ L + 1 \in 0..(L + 1)
        BY <1>1
      <3> HIDE DEF S
      <3> QED
        BY <2>1, <2>2, <3>1, BoundedInduction
    <2> QED
      BY <1>1, <2>3
  <1>3. \E m \in Cut(string) : m > n /\ \A o \in Cut(string) : o > n => m <= o
    BY <1>2
  <1> QED
    BY <1>3 DEF After

(* There is such a function, and it gives what explode() does.             *)
LEMMA ExplodeTokens ==
    ASSUME NEW string \in Seq(Chars)
    PROVE  \E t : TokensOf(string, t) /\ Explode(string) = t[0]
  <1> DEFINE L == Len(string)
             D(m) == {n \in Cut(string) : n + m >= L + 1}
             Body(n, t) == IF n >= L THEN << >>
                           ELSE <<SubSeq(string, n + 1, After(string, n) - 1)>>
                                \o t[After(string, n)]
             S == {m \in 0..(L + 1) : \E t : t = [n \in D(m) |-> Body(n, t)]}
  <1>1. L \in Nat /\ Cut(string) \subseteq 0..(L + 1)
    BY CutFacts
  <1>2. 0 \in S
    <2> DEFINE t == [n \in D(0) |-> << >>]
    <2>1. \A n \in D(0) : n >= L
      BY <1>1
    <2>2. t = [n \in D(0) |-> Body(n, t)]
      BY <2>1
    <2>3. 0 \in 0..(L + 1)
      BY <1>1
    <2> HIDE DEF t, D, Body
    <2> QED
      BY <2>2, <2>3
  <1>3. ASSUME NEW m \in 1..(L + 1), m - 1 \in S PROVE m \in S
    <2>1. PICK t : t = [n \in D(m - 1) |-> Body(n, t)]
      BY <1>3
    <2> DEFINE more == [n \in D(m) |-> IF n \in D(m - 1) THEN t[n] ELSE Body(n, t)]
    <2>2. ASSUME NEW n \in D(m) PROVE more[n] = Body(n, more)
      <3>1. more[n] = Body(n, t)
        BY <2>1
      <3>2. CASE n >= L
        BY <3>1, <3>2
      <3>3. CASE ~(n >= L)
        <4>1. After(string, n) \in Cut(string) /\ After(string, n) > n
          BY <1>1, <3>3, AfterFacts
        <4>2. After(string, n) \in D(m - 1) /\ After(string, n) \in D(m)
          BY <1>1, <4>1
        <4>3. more[After(string, n)] = t[After(string, n)]
          BY <4>2
        <4> HIDE DEF more, D
        <4> QED
          BY <3>1, <4>3
      <3> QED
        BY <3>2, <3>3
    <2>3. more = [n \in D(m) |-> Body(n, more)]
      BY <2>2
    <2>4. m \in 0..(L + 1)
      BY <1>1
    <2> HIDE DEF more, D, Body
    <2> QED
      BY <2>3, <2>4
  <1>4. L + 1 \in S
    <2>1. L + 1 \in Nat /\ L + 1 \in 0..(L + 1)
      BY <1>1
    <2> HIDE DEF S
    <2> QED
      BY <1>2, <1>3, <2>1, BoundedInduction
  <1>5. D(L + 1) = Cut(string)
    BY <1>1
  <1>6. \E t : TokensOf(string, t)
    <2>1. PICK t : t = [n \in D(L + 1) |-> Body(n, t)]
      BY <1>4
    <2>2. t = [n \in Cut(string) |-> Body(n, t)]
      <3> HIDE DEF D, Body
      <3> QED
        BY <1>5, <2>1
    <2> QED
      BY <2>2 DEF TokensOf
  <1>7. Explode(string) = (CHOOSE t : TokensOf(string, t))[0]
    BY DEF Explode, TokensOf, Cut, After
  <1> QED
    BY <1>6, <1>7

(* What lies before and behind a place of a string, put together.          *)
LEMMA Across ==
    ASSUME NEW string \in Seq(Chars), NEW m \in 1..Len(string), NEW a \in m..Len(string),
           NEW last \in a..Len(string)
    PROVE  /\ SubSeq(string, m, a - 1) \in Seq(Chars)
           /\ SubSeq(string, a + 1, last) \in Seq(Chars)
           /\ Append(SubSeq(string, m, a - 1), string[a]) \o SubSeq(string, a + 1, last)
                 = SubSeq(string, m, last)
  <1>1. Len(string) \in Nat /\ \A i \in 1..Len(string) : string[i] \in Chars
    BY LenProperties, ElementOfSeq
  <1>2. SubSeq(string, m, a - 1) \in Seq(Chars)
    BY <1>1, SubSeqProperties
  <1>3. SubSeq(string, a + 1, last) \in Seq(Chars)
    BY <1>1, SubSeqProperties
  <1>4. Append(SubSeq(string, m, a - 1), string[a]) = SubSeq(string, m, a)
    BY <1>1, <1>2, AppendIsConcat, SubSeqRecursiveSecond
  <1>5. SubSeq(string, m, a) \o SubSeq(string, a + 1, last) = SubSeq(string, m, last)
    <2>1. m \in 1..(Len(string) + 1) /\ a \in (m - 1)..Len(string)
      BY <1>1
    <2> QED
      BY <2>1, ConcatAdjacentSubSeq
  <1> QED
    BY <1>2, <1>3, <1>4, <1>5

(* What joins the tokens of the rest of a string behind a cut is that rest, *)
(* but for a delimiter at its end.                                         *)
LEMMA JoinTokens ==
    ASSUME NEW string \in Seq(Chars), NEW t, TokensOf(string, t),
           NEW last, last = IF string # << >> /\ string[Len(string)] = Delim
                            THEN Len(string) - 1 ELSE Len(string)
    PROVE  Join(t[0]) = SubSeq(string, 1, last)
  <1> DEFINE L == Len(string)
             V == Seq(Chars)
             Claim(n) == /\ t[n] \in Seq(V)
                         /\ n >= L => t[n] = << >>
                         /\ n < L => t[n] # << >> /\ Join(t[n]) = SubSeq(string, n + 1, last)
             S == {m \in 0..(L + 1) : \A n \in Cut(string) : n + m >= L + 1 => Claim(n)}
  <1>1. /\ L \in Nat /\ Cut(string) \subseteq 0..(L + 1)
        /\ 0 \in Cut(string) /\ L + 1 \in Cut(string)
        /\ \A n \in 1..L : n \in Cut(string) <=> string[n] = Delim
        /\ string # << >> <=> L # 0
        /\ \A i \in 1..L : string[i] \in Chars
    BY CutFacts, EmptySeq, ElementOfSeq
  <1>2. \A n \in Cut(string) : n >= L => t[n] = << >>
    BY DEF TokensOf
  <1>3. \A n \in Cut(string) : n < L =>
            t[n] = <<SubSeq(string, n + 1, After(string, n) - 1)>> \o t[After(string, n)]
    <2> SUFFICES ASSUME NEW n \in Cut(string), n < L
                 PROVE  t[n] = <<SubSeq(string, n + 1, After(string, n) - 1)>>
                               \o t[After(string, n)]
      OBVIOUS
    <2>1. ~(n >= Len(string))
      BY <1>1
    <2> HIDE DEF L
    <2> QED
      BY <2>1 DEF TokensOf
  <1>4. ASSUME NEW n \in Cut(string), n >= L PROVE Claim(n)
    <2>1. t[n] = << >> /\ ~(n < L)
      BY <1>1, <1>2, <1>4
    <2>2. << >> \in Seq(V)
      OBVIOUS
    <2> HIDE DEF L, V
    <2> QED
      BY <2>1, <2>2
  <1>5. ASSUME NEW n \in Cut(string), n < L, Claim(After(string, n)) PROVE Claim(n)
    <2> DEFINE a == After(string, n)
               token == SubSeq(string, n + 1, a - 1)
    <2>1. /\ n \in Nat /\ a \in (n + 1)..(L + 1) /\ a \in Cut(string)
          /\ \A o \in Cut(string) : o > n => a <= o
      BY <1>1, <1>5, AfterFacts
    <2> HIDE DEF a
    <2>2. token \in V
      <3>1. n + 1 \in Int /\ a - 1 \in Int /\ \A i \in (n + 1)..(a - 1) : string[i] \in Chars
        BY <1>1, <2>1
      <3> QED
        BY <3>1, SubSeqProperties
    <2>3. t[a] \in Seq(V) /\ t[n] = <<token>> \o t[a]
      BY <1>3, <1>5 DEF a
    <2> HIDE DEF token
    <2>4. /\ t[n] \in Seq(V) /\ t[n] # << >>
          /\ Join(t[n]) = IF t[a] = << >> THEN token ELSE Append(token, Delim) \o Join(t[a])
      BY <2>2, <2>3, JoinCons
    <2>5. CASE a >= L
      <3>1. t[a] = << >> /\ Join(t[n]) = token
        BY <1>5, <2>4, <2>5 DEF a
      <3>2. a - 1 = last
        <4>1. CASE a = L
          <5>1. string[L] = Delim /\ L # 0
            BY <1>1, <1>5, <2>1, <4>1
          <5> QED
            BY <1>1, <4>1, <5>1
        <4>2. CASE a # L
          <5>1. a = L + 1 /\ L \in 1..L
            BY <1>1, <1>5, <2>1, <2>5, <4>2
          <5>2. L \notin Cut(string)
            BY <1>1, <1>5, <2>1, <5>1
          <5>3. string[L] # Delim
            BY <1>1, <5>1, <5>2
          <5> QED
            BY <1>1, <5>1, <5>3
        <4> QED
          BY <4>1, <4>2
      <3>3. ~(n >= L)
        BY <1>5, <2>1, <1>1
      <3> HIDE DEF L, V
      <3> QED
        BY <2>4, <3>1, <3>2, <3>3 DEF token
    <2>6. CASE ~(a >= L)
      <3>1. /\ a < L /\ a \in 1..L /\ a \in (n + 1)..L /\ last \in a..L /\ n + 1 \in 1..L
        BY <1>1, <1>5, <2>1, <2>6
      <3>2. t[a] # << >> /\ Join(t[a]) = SubSeq(string, a + 1, last)
        BY <1>5, <3>1 DEF a
      <3>3. string[a] = Delim
        BY <1>1, <2>1, <3>1
      <3>4. Append(token, Delim) \o SubSeq(string, a + 1, last) = SubSeq(string, n + 1, last)
        BY <3>1, <3>3, Across DEF token
      <3>5. ~(n >= L)
        BY <1>5, <2>1, <1>1
      <3> HIDE DEF L, V
      <3> QED
        BY <2>4, <3>2, <3>4, <3>5
    <2> QED
      BY <2>5, <2>6
  <1> HIDE DEF Claim
  <1>6. 0 \in S
    <2>1. \A n \in Cut(string) : n + 0 >= L + 1 => n >= L
      BY <1>1
    <2> QED
      BY <1>1, <1>4, <2>1
  <1>7. ASSUME NEW m \in 1..(L + 1), m - 1 \in S PROVE m \in S
    <2> SUFFICES ASSUME NEW n \in Cut(string), n + m >= L + 1 PROVE Claim(n)
      BY <1>1
    <2>1. CASE n >= L
      BY <1>4, <2>1
    <2>2. CASE ~(n >= L)
      <3>1. n < L /\ n <= L
        BY <1>1, <2>2
      <3>2. After(string, n) \in Cut(string) /\ After(string, n) > n
        BY <3>1, AfterFacts
      <3>3. After(string, n) + (m - 1) >= L + 1
        BY <1>1, <3>2
      <3> QED
        BY <1>5, <1>7, <3>1, <3>2, <3>3
    <2> QED
      BY <2>1, <2>2
  <1>8. L + 1 \in S
    <2>1. L + 1 \in Nat /\ L + 1 \in 0..(L + 1)
      BY <1>1
    <2> HIDE DEF S
    <2> QED
      BY <1>6, <1>7, <2>1, BoundedInduction
  <1>9. Claim(0)
    BY <1>1, <1>8
  <1>10. CASE L = 0
    <2>1. t[0] = << >> /\ last = 0 /\ << >> \in Seq(V)
      BY <1>1, <1>9, <1>10 DEF Claim
    <2>2. Join(<< >>) = << >>
      BY <2>1, JoinFirst
    <2>3. SubSeq(string, 1, 0) = << >>
      BY SubSeqEmpty
    <2> QED
      BY <2>1, <2>2, <2>3
  <1>11. CASE L # 0
    BY <1>1, <1>9, <1>11 DEF Claim
  <1> QED
    BY <1>10, <1>11

(* JoinUndoesExplode, for any alphabet and strings of any length.          *)
THEOREM JoinIsInverse == TextSpec => []JoinUndoesExplode
  <1> DEFINE Inv == str \in Seq(Chars)
  <1>1. TextInit => Inv
    BY DEF TextInit
  <1>2. Inv /\ [TextNext]_textVars => Inv'
    BY DEF TextNext, Type, DumpByte, textVars, Chars
  <1>3. Inv => JoinUndoesExplode
    <2> SUFFICES ASSUME str \in Seq(Chars) PROVE JoinUndoesExplode
      OBVIOUS
    <2> DEFINE last == IF str # << >> /\ str[Len(str)] = Delim THEN Len(str) - 1 ELSE Len(str)
    <2>1. Join(Explode(str)) = SubSeq(str, 1, last)
      <3>1. PICK t : TokensOf(str, t) /\ Explode(str) = t[0]
        BY ExplodeTokens
      <3> QED
        BY <3>1, JoinTokens
    <2>2. SubSeq(str, 1, Len(str)) = str
      BY SubSeqFull
    <2> QED
      BY <2>1, <2>2 DEF JoinUndoesExplode
  <1> QED
    BY <1>1, <1>2, <1>3, PTL DEF TextSpec

-----------------------------------------------------------------------------
(***************************************************************************)
(* config_file                                                             *)
(***************************************************************************)

(* What the five lookups answer of the same place, each of them followed   *)
(* through its own cases: the category is there or not, and then the value.*)
LEMMA FiveLookups ==
    ASSUME NEW place, NEW category, NEW value, NEW type
    PROVE  LET get == ConfigGet(place, category, value, type)
               or_default == ConfigGetOrDefault(place, category, value, type)
           IN  /\ EntryGet(place, category, value, type) = get
               /\ EntryGetOrDefault(place, category, value, type) = or_default
               /\ get # Thrown => or_default = get
               /\ or_default = Default =>
                      /\ {other \in Types : ConfigGet(place, category, value, other) # Thrown} = {}
                      /\ IterateArray(place, category, value) = << >>
  <1> DEFINE outer == Find(place, category)
             alone == Find(place, value)
             inner == Find(outer, value)
  <1>1. /\ Thrown # Default /\ Absent.is # "array"
        /\ \A any : Scalar(any) # Thrown /\ Scalar(any) # Default
    BY DEF Thrown, Default, Scalar, Absent
  <1>2. CASE outer = Absent
    <2>1. /\ EntryGet(place, category, value, type) =
               IF alone # Absent THEN Converted(alone, type) ELSE Thrown
          /\ EntryGetOrDefault(place, category, value, type) =
               IF alone # Absent THEN Converted(alone, type) ELSE Default
          /\ \A other : ConfigGet(place, category, value, other) =
               IF alone = Absent THEN Thrown ELSE Converted(alone, other)
          /\ ConfigGetOrDefault(place, category, value, type) =
               IF alone = Absent THEN Default ELSE Converted(alone, type)
          /\ IterateArray(place, category, value) =
               IF alone.is = "array" THEN alone.elements ELSE << >>
      BY <1>2 DEF EntryGet, EntryGetOrDefault, ConfigGet, ConfigGetOrDefault, IterateArray
    <2> HIDE DEF alone, outer, inner
    <2> QED
      BY <1>1, <2>1 DEF Converted
  <1>3. CASE outer # Absent
    <2>1. /\ EntryGet(place, category, value, type) =
               IF inner # Absent THEN Converted(inner, type) ELSE Thrown
          /\ EntryGetOrDefault(place, category, value, type) =
               IF inner # Absent THEN Converted(inner, type) ELSE Default
          /\ \A other : ConfigGet(place, category, value, other) =
               IF inner = Absent THEN Thrown ELSE Converted(inner, other)
          /\ ConfigGetOrDefault(place, category, value, type) =
               IF inner = Absent THEN Default ELSE Converted(inner, type)
          /\ IterateArray(place, category, value) =
               IF inner.is = "array" THEN inner.elements ELSE << >>
      BY <1>3 DEF EntryGet, EntryGetOrDefault, ConfigGet, ConfigGetOrDefault, IterateArray
    <2> HIDE DEF alone, outer, inner
    <2> QED
      BY <1>1, <2>1 DEF Converted
  <1> QED
    BY <1>2, <1>3

(* LookupsAgree, for all names, types and contents: the copies of a lookup *)
(* in config_file and config_entry answer alike, and get_or_default and    *)
(* iterate_array find what get finds.                                      *)
THEOREM ConfigLookupsAgree == ConfigSpec => []LookupsAgree
  <1>1. ConfigInit => LookupsAgree
    BY DEF ConfigInit, LookupsAgree
  <1>2. LookupsAgree /\ [ConfigNext]_configVars => LookupsAgree'
    <2>1. ASSUME LookupsAgree, Open \/ UNCHANGED configVars PROVE LookupsAgree'
      BY <2>1 DEF Open, configVars, LookupsAgree
    <2>2. ASSUME Look PROVE LookupsAgree'
      <3>1. PICK category \in Names, value \in Names, type \in Types :
             answers' = [get |-> ConfigGet(json, category, value, type),
                         or_default |-> ConfigGetOrDefault(json, category, value, type),
                         entry_get |-> EntryGet(json, category, value, type),
                         entry_or_default |-> EntryGetOrDefault(json, category, value, type),
                         elements |-> IterateArray(json, category, value),
                         others |-> {other \in Types :
                                        ConfigGet(json, category, value, other) # Thrown}]
        BY <2>2 DEF Look
      <3> QED
        BY <3>1, FiveLookups DEF LookupsAgree
    <2> QED
      BY <2>1, <2>2 DEF ConfigNext
  <1> QED
    BY <1>1, <1>2, PTL DEF ConfigSpec

-----------------------------------------------------------------------------
(***************************************************************************)
(* KeycapEnum                                                              *)
(***************************************************************************)

(* Of the numbers in a set one is the least.                               *)
LEMMA LeastNumber ==
    ASSUME NEW S, S \subseteq Nat, S # {}
    PROVE  \E n \in S : \A m \in S : n <= m
  <1> SUFFICES ASSUME \A n \in S : \E m \in S : ~(n <= m) PROVE FALSE
    OBVIOUS
  <1> DEFINE T == {n \in Nat : \A m \in S : n <= m}
  <1>1. 0 \in T
    OBVIOUS
  <1>2. ASSUME NEW n \in Nat, n \in T PROVE n + 1 \in T
    <2>1. n \notin S
      BY <1>2
    <2>2. \A m \in S : m \in Nat /\ n <= m /\ n # m
      BY <1>2, <2>1
    <2> QED
      BY <2>2
  <1>3. Nat \subseteq T
    <2> HIDE DEF T
    <2> QED
      BY <1>1, <1>2, SetInduction
  <1>4. PICK n \in S : TRUE
    OBVIOUS
  <1>5. n \in Nat /\ n + 1 \in Nat
    BY <1>4
  <1>6. n + 1 <= n
    BY <1>3, <1>5
  <1> QED
    BY <1>5, <1>6

(* Entries as a declaration has them: an alias names an earlier one.       *)
DeclaredEntries == [form : {"auto"}] \cup [form : {"literal"}, literal : Literals]
              \cup [form : {"alias"}, of : Nat]
IsDeclaration(entries) ==
    /\ entries \in Seq(DeclaredEntries)
    /\ \A i \in 1..Len(entries) : entries[i].form = "alias" => entries[i].of \in 1..(i - 1)

(* What an entry can be.                                                   *)
LEMMA EntryFacts ==
    ASSUME NEW entries, IsDeclaration(entries)
    PROVE  /\ Len(entries) \in Nat /\ DOMAIN entries = 1..Len(entries)
           /\ \A i \in 1..Len(entries) :
                 \/ entries[i].form = "auto"
                 \/ /\ entries[i].form = "literal"
                    /\ entries[i].literal.meant \in Nat /\ entries[i].literal.read \in Nat
                 \/ entries[i].form = "alias" /\ entries[i].of \in 1..(i - 1)
  <1>1. Len(entries) \in Nat /\ DOMAIN entries = 1..Len(entries)
    BY DEF IsDeclaration
  <1>2. ASSUME NEW i \in 1..Len(entries)
        PROVE  \/ entries[i].form = "auto"
               \/ /\ entries[i].form = "literal"
                  /\ entries[i].literal.meant \in Nat /\ entries[i].literal.read \in Nat
               \/ entries[i].form = "alias" /\ entries[i].of \in 1..(i - 1)
    <2>1. entries[i] \in DeclaredEntries
      BY ElementOfSeq DEF IsDeclaration
    <2>2. CASE entries[i] \in [form : {"auto"}]
      BY <2>2
    <2>3. CASE entries[i] \in [form : {"literal"}, literal : Literals]
      <3>1. entries[i].form = "literal" /\ entries[i].literal \in Literals
        BY <2>3
      <3>2. entries[i].literal \in [meant : Nat, read : Nat]
        BY <3>1, EnumAssumption
      <3> QED
        BY <3>1, <3>2
    <2>4. CASE entries[i] \in [form : {"alias"}, of : Nat]
      <3>1. entries[i].form = "alias"
        BY <2>4
      <3> QED
        BY <3>1 DEF IsDeclaration
    <2> QED
      BY <2>1, <2>2, <2>3, <2>4 DEF DeclaredEntries
  <1> QED
    BY <1>1, <1>2

(* The recursive function of the compiler's values.                        *)
Compiling(entries, f) ==
    f = [i \in DOMAIN entries |->
            CASE entries[i].form = "auto"    -> IF i = 1 THEN 0 ELSE (f[i - 1] + 1) % 2^EnumBits
              [] entries[i].form = "literal" -> entries[i].literal.meant
              [] entries[i].form = "alias"   -> f[entries[i].of]]

(* The number after a number.                                              *)
LEMMA NextNumber ==
    ASSUME NEW n \in Nat
    PROVE  (n + 1) % 2^EnumBits \in Nat
  <1> DEFINE m == 2^EnumBits
  <1>1. m \in Nat \ {0}
    BY EnumAssumption
  <1> HIDE DEF m
  <1>2. (n + 1) % m \in Nat
    BY <1>1
  <1> QED
    BY <1>2 DEF m

(* The values of the compiler, entry by entry.                             *)
LEMMA CompiledFacts ==
    ASSUME NEW entries, IsDeclaration(entries)
    PROVE  \A i \in 1..Len(entries) :
              /\ Compiled(entries)[i] \in Nat
              /\ entries[i].form = "auto" =>
                    Compiled(entries)[i] =
                        IF i = 1 THEN 0 ELSE (Compiled(entries)[i - 1] + 1) % 2^EnumBits
              /\ entries[i].form = "literal" => Compiled(entries)[i] = entries[i].literal.meant
              /\ entries[i].form = "alias" =>
                    Compiled(entries)[i] = Compiled(entries)[entries[i].of]
  <1> DEFINE L == Len(entries)
             back == [i \in 1..L |-> IF entries[i].form = "alias" THEN entries[i].of ELSE i - 1]
             next(i, v) == IF entries[i].form = "alias" THEN v
                           ELSE IF entries[i].form = "literal" THEN entries[i].literal.meant
                           ELSE IF i = 1 THEN 0 ELSE (v + 1) % 2^EnumBits
             step == [i \in 1..L |-> [v \in Nat |-> next(i, v)]]
  <1>1. /\ L \in Nat /\ DOMAIN entries = 1..L
        /\ \A i \in 1..L :
              \/ entries[i].form = "auto"
              \/ /\ entries[i].form = "literal"
                 /\ entries[i].literal.meant \in Nat /\ entries[i].literal.read \in Nat
              \/ entries[i].form = "alias" /\ entries[i].of \in 1..(i - 1)
    BY EntryFacts
  <1> HIDE DEF L
  <1>2. \A i \in 1..L : back[i] \in 0..(i - 1)
    BY <1>1
  <1>3. \A i \in 1..L, v \in Nat : next(i, v) \in Nat
    <2> SUFFICES ASSUME NEW i \in 1..L, NEW v \in Nat PROVE next(i, v) \in Nat
      OBVIOUS
    <2>1. (v + 1) % 2^EnumBits \in Nat
      BY NextNumber
    <2> QED
      BY <1>1, <2>1
  <1> HIDE DEF next
  <1>4. step \in [1..L -> [Nat -> Nat]] /\ \A i \in 1..L, v \in Nat : step[i][v] = next(i, v)
    BY <1>3
  <1>5. \A i \in 1..L : back[i] = IF entries[i].form = "alias" THEN entries[i].of ELSE i - 1
    OBVIOUS
  <1> HIDE DEF step, back
  <1>6. PICK t : StepsFrom(t, Nat, 0, L, back, step)
    BY <1>1, <1>2, <1>4, RecursiveFunctionFrom
  <1>7. t \in [0..L -> Nat] /\ t[0] = 0 /\ \A i \in 1..L : t[i] = step[i][t[back[i]]]
    BY <1>6 DEF StepsFrom
  <1>8. \A i \in 1..L : t[i] = next(i, t[back[i]])
    <2> SUFFICES ASSUME NEW i \in 1..L PROVE t[i] = next(i, t[back[i]])
      OBVIOUS
    <2>1. back[i] \in 0..L
      BY <1>1, <1>2
    <2> QED
      BY <1>4, <1>7, <2>1
  <1> DEFINE s == [i \in 1..L |-> t[i]]
  <1>9. ASSUME NEW i \in 1..L
        PROVE  s[i] = CASE entries[i].form = "auto"    -> IF i = 1 THEN 0 ELSE (s[i - 1] + 1) % 2^EnumBits
                        [] entries[i].form = "literal" -> entries[i].literal.meant
                        [] entries[i].form = "alias"   -> s[entries[i].of]
    <2>1. s[i] = next(i, t[back[i]])
      BY <1>8
    <2>2. CASE entries[i].form = "auto"
      <3>1. back[i] = i - 1 /\ (i # 1 => i - 1 \in 1..L)
        BY <1>1, <1>5, <2>2
      <3>2. i # 1 => s[i - 1] = t[i - 1]
        BY <3>1
      <3> HIDE DEF s
      <3>3. s[i] = IF i = 1 THEN 0 ELSE (s[i - 1] + 1) % 2^EnumBits
        BY <2>1, <2>2, <3>1, <3>2 DEF next
      <3> QED
        BY <2>2, <3>3
    <2>3. CASE entries[i].form = "literal"
      <3> HIDE DEF s
      <3>1. s[i] = entries[i].literal.meant
        BY <2>1, <2>3 DEF next
      <3> QED
        BY <2>3, <3>1
    <2>4. CASE entries[i].form = "alias"
      <3>1. back[i] = entries[i].of /\ entries[i].of \in 1..L
        BY <1>1, <1>5, <2>4
      <3>2. s[entries[i].of] = t[entries[i].of]
        BY <3>1
      <3> HIDE DEF s
      <3>3. s[i] = s[entries[i].of]
        BY <2>1, <2>4, <3>1, <3>2 DEF next
      <3> QED
        BY <2>4, <3>3
    <2> HIDE DEF s
    <2> QED
      BY <1>1, <2>2, <2>3, <2>4
  <1>10. \E f : Compiling(entries, f)
    <2>1. s = [i \in DOMAIN entries |->
            CASE entries[i].form = "auto"    -> IF i = 1 THEN 0 ELSE (s[i - 1] + 1) % 2^EnumBits
              [] entries[i].form = "literal" -> entries[i].literal.meant
              [] entries[i].form = "alias"   -> s[entries[i].of]]
      BY <1>1, <1>9
    <2> HIDE DEF s
    <2> QED
      BY <2>1 DEF Compiling
  <1> DEFINE f == CHOOSE f : Compiling(entries, f)
  <1>11. Compiling(entries, f)
    BY <1>10
  <1>12. Compiled(entries) = f
    BY DEF Compiled, Compiling
  <1> HIDE DEF f, s
  <1>13. ASSUME NEW i \in 1..L
         PROVE  /\ entries[i].form = "auto" =>
                      f[i] = IF i = 1 THEN 0 ELSE (f[i - 1] + 1) % 2^EnumBits
                /\ entries[i].form = "literal" => f[i] = entries[i].literal.meant
                /\ entries[i].form = "alias" => f[i] = f[entries[i].of]
    <2>1. f[i] = CASE entries[i].form = "auto"    -> IF i = 1 THEN 0 ELSE (f[i - 1] + 1) % 2^EnumBits
                   [] entries[i].form = "literal" -> entries[i].literal.meant
                   [] entries[i].form = "alias"   -> f[entries[i].of]
      BY <1>1, <1>11 DEF Compiling
    <2> QED
      BY <2>1
  <1>14. \A i \in 1..L : f[i] \in Nat
    <2> DEFINE S == {i \in 0..L : i # 0 => f[i] \in Nat}
    <2>1. 0 \in S
      BY <1>1
    <2>2. ASSUME NEW i \in 1..L, 0..(i - 1) \subseteq S PROVE i \in S
      <3>1. i - 1 \in 0..(i - 1) /\ i \in 0..L
        BY <1>1
      <3>2. CASE entries[i].form = "auto"
        <4>1. i # 1 => f[i - 1] \in Nat
          BY <2>2, <3>1
        <4>2. i # 1 => (f[i - 1] + 1) % 2^EnumBits \in Nat
          BY <4>1, NextNumber
        <4>3. f[i] \in Nat
          BY <1>13, <3>2, <4>2
        <4> QED
          BY <3>1, <4>3
      <3>3. CASE entries[i].form = "literal"
        BY <1>1, <1>13, <3>1, <3>3
      <3>4. CASE entries[i].form = "alias"
        <4>1. entries[i].of \in 0..(i - 1) /\ entries[i].of # 0
          BY <1>1, <3>4
        <4>2. f[entries[i].of] \in Nat
          BY <2>2, <4>1
        <4> QED
          BY <1>13, <3>1, <3>4, <4>2
      <3> QED
        BY <1>1, <3>2, <3>3, <3>4
    <2>3. 0..L \subseteq S
      <3> HIDE DEF S
      <3>1. \A i \in 1..L : 0..(i - 1) \subseteq S => i \in S
        BY <2>2
      <3> QED
        BY <1>1, <2>1, <3>1, StrongInduction, Zenon
    <2> SUFFICES ASSUME NEW i \in 1..L PROVE f[i] \in Nat
      OBVIOUS
    <2>4. i \in 0..L /\ i # 0
      BY <1>1
    <2> QED
      BY <2>3, <2>4
  <1> QED
    BY <1>12, <1>13, <1>14 DEF L

(* The recursive function of doForEachEntry.                               *)
NamedValues == [name : Nat, value : Nat]
EnumCount == [currentValue : Nat, called : Seq(NamedValues)]
Walking(entries, f) ==
    f = [i \in 0..Len(entries) |->
            IF i = 0 THEN [currentValue |-> 0, called |-> << >>]
            ELSE IF entries[i].form = "alias" THEN f[i - 1]
            ELSE LET value == IF entries[i].form = "literal" THEN entries[i].literal.read
                              ELSE f[i - 1].currentValue
                 IN  [currentValue |-> (value + 1) % 2^EnumBits,
                      called |-> Append(f[i - 1].called, [name |-> i, value |-> value])]]

(* The value it takes an entry to have, and the step it makes there.       *)
Taken(entry, s) == IF entry.form = "literal" THEN entry.literal.read ELSE s.currentValue
AfterEntry(entries, i, s) ==
    IF entries[i].form = "alias" THEN s
    ELSE [currentValue |-> (Taken(entries[i], s) + 1) % 2^EnumBits,
          called |-> Append(s.called, [name |-> i, value |-> Taken(entries[i], s)])]

(* An entry leaves a count and a list of calls.                            *)
LEMMA AfterEntryType ==
    ASSUME NEW entries, IsDeclaration(entries), NEW i \in 1..Len(entries), NEW s \in EnumCount
    PROVE  AfterEntry(entries, i, s) \in EnumCount /\ Taken(entries[i], s) \in Nat
  <1> DEFINE v == Taken(entries[i], s)
  <1>1. v \in Nat
    <2>1. s.currentValue \in Nat
      BY DEF EnumCount
    <2> QED
      BY <2>1, EntryFacts DEF Taken
  <1>2. (v + 1) % 2^EnumBits \in Nat
    <2> HIDE DEF v
    <2> QED
      BY <1>1, NextNumber
  <1>3. i \in Nat /\ s.called \in Seq(NamedValues)
    BY EntryFacts DEF EnumCount
  <1> HIDE DEF v
  <1>4. [name |-> i, value |-> v] \in NamedValues
    BY <1>1, <1>3 DEF NamedValues
  <1>5. Append(s.called, [name |-> i, value |-> v]) \in Seq(NamedValues)
    BY <1>3, <1>4
  <1>6. [currentValue |-> (v + 1) % 2^EnumBits,
         called |-> Append(s.called, [name |-> i, value |-> v])] \in EnumCount
    BY <1>2, <1>5 DEF EnumCount
  <1> QED
    BY <1>1, <1>6 DEF AfterEntry, v

(* doForEachEntry goes from entry to entry.                                *)
LEMMA WalkFunction ==
    ASSUME NEW entries, IsDeclaration(entries)
    PROVE  \E f \in [0..Len(entries) -> EnumCount] :
              /\ DoForEachEntry(entries) = f[Len(entries)].called
              /\ f[0] = [currentValue |-> 0, called |-> << >>]
              /\ \A i \in 1..Len(entries) : f[i] = AfterEntry(entries, i, f[i - 1])
  <1> DEFINE L == Len(entries)
             start == [currentValue |-> 0, called |-> << >>]
             step == [i \in 1..L |-> [s \in EnumCount |-> AfterEntry(entries, i, s)]]
  <1>1. L \in Nat
    BY EntryFacts
  <1>2. start \in EnumCount
    BY DEF EnumCount
  <1>3. \A i \in 1..L, s \in EnumCount : AfterEntry(entries, i, s) \in EnumCount
    BY AfterEntryType
  <1> HIDE DEF L, start
  <1>4. /\ step \in [1..L -> [EnumCount -> EnumCount]]
        /\ \A i \in 1..L, s \in EnumCount : step[i][s] = AfterEntry(entries, i, s)
    BY <1>3
  <1> HIDE DEF step
  <1>5. PICK t : Steps(t, EnumCount, start, L, step)
    BY <1>1, <1>2, <1>4, RecursiveFunction
  <1>6. t \in [0..L -> EnumCount] /\ t[0] = start /\ \A i \in 1..L : t[i] = step[i][t[i - 1]]
    BY <1>5 DEF Steps
  <1>7. t = [i \in 0..L |-> IF i = 0 THEN start ELSE AfterEntry(entries, i, t[i - 1])]
    <2>1. ASSUME NEW i \in 0..L
          PROVE  t[i] = IF i = 0 THEN start ELSE AfterEntry(entries, i, t[i - 1])
      <3>1. CASE i = 0
        BY <1>6, <3>1
      <3>2. CASE i # 0
        <4>1. i \in 1..L /\ i - 1 \in 0..L
          BY <1>1, <3>2
        <4>2. t[i - 1] \in EnumCount
          BY <1>6, <4>1
        <4>3. t[i] = AfterEntry(entries, i, t[i - 1])
          BY <1>4, <1>6, <4>1, <4>2
        <4> QED
          BY <3>2, <4>3
      <3> QED
        BY <3>1, <3>2
    <2> QED
      BY <1>6, <2>1
  <1> DEFINE f == CHOOSE f : Walking(entries, f)
  <1>8. Walking(entries, f)
    BY <1>7 DEF Walking, L, start, AfterEntry, Taken
  <1>9. DoForEachEntry(entries) = f[L].called
    BY DEF DoForEachEntry, Walking, L
  <1> HIDE DEF f
  <1>10. f = [i \in 0..L |-> IF i = 0 THEN start ELSE AfterEntry(entries, i, f[i - 1])]
    BY <1>8 DEF Walking, L, start, AfterEntry, Taken
  <1>11. f[0] = start /\ \A i \in 1..L : f[i] = AfterEntry(entries, i, f[i - 1])
    <2>1. 0 \in 0..L /\ \A i \in 1..L : i \in 0..L /\ i # 0
      BY <1>1
    <2> QED
      BY <1>10, <2>1
  <1>12. \A i \in 0..L : f[i] \in EnumCount
    <2> DEFINE S == {i \in 0..L : f[i] \in EnumCount}
    <2>1. 0 \in S
      BY <1>1, <1>2, <1>11
    <2>2. \A i \in 1..L : i - 1 \in S => i \in S
      <3> SUFFICES ASSUME NEW i \in 1..L, i - 1 \in S PROVE i \in S
        OBVIOUS
      <3>1. f[i] \in EnumCount
        BY <1>3, <1>11
      <3> QED
        BY <3>1
    <2> HIDE DEF S
    <2>3. 0..L \subseteq S
      BY <1>1, <2>1, <2>2, BoundedInduction
    <2> QED
      BY <2>3 DEF S
  <1>13. f \in [0..L -> EnumCount]
    BY <1>10, <1>12
  <1> QED
    BY <1>9, <1>11, <1>13 DEF L, start

(* What doForEachEntry has called for up to the i-th entry: those that are *)
(* no aliases, in order, with the values the compiler gives them.          *)
CalledFor(entries, i, called) ==
    /\ called \in Seq(NamedValues)
    /\ \A j \in 1..Len(called) :
           /\ called[j].name \in 1..i /\ entries[called[j].name].form # "alias"
           /\ called[j].value = Compiled(entries)[called[j].name]
    /\ \A m, j \in 1..Len(called) : m < j => called[m].name < called[j].name
    /\ \A n \in 1..i : entries[n].form # "alias" => \E j \in 1..Len(called) : called[j].name = n

(* It stays so when an entry that is no alias is called for.               *)
LEMMA CalledOneMore ==
    ASSUME NEW entries, IsDeclaration(entries), NEW i \in 1..Len(entries), NEW called,
           CalledFor(entries, i - 1, called), entries[i].form # "alias", NEW more,
           more = Append(called, [name |-> i, value |-> Compiled(entries)[i]])
    PROVE  CalledFor(entries, i, more)
  <1> DEFINE L == Len(called)
             new == [name |-> i, value |-> Compiled(entries)[i]]
  <1>1. i \in Nat /\ i \in 1..i /\ Compiled(entries)[i] \in Nat
    BY EntryFacts, CompiledFacts
  <1>2. new \in NamedValues /\ new.name = i /\ new.value = Compiled(entries)[i]
    BY <1>1 DEF NamedValues
  <1> HIDE DEF new
  <1>3. called \in Seq(NamedValues) /\ L \in Nat
    BY LenProperties DEF CalledFor
  <1>4. /\ more \in Seq(NamedValues) /\ Len(more) = L + 1 /\ more[L + 1] = new
        /\ \A j \in 1..L : more[j] = called[j]
    BY <1>2, <1>3, AppendProperties DEF new
  <1>5. \A j \in 1..(L + 1) : j \in 1..L \/ j = L + 1
    BY <1>3
  <1>6. \A j \in 1..L : called[j].name \in 1..(i - 1)
    BY DEF CalledFor
  <1>7. \A n \in 1..(i - 1) : n \in 1..i /\ n < i
    BY <1>1
  <1>8. ASSUME NEW j \in 1..(L + 1)
        PROVE  /\ more[j].name \in 1..i /\ entries[more[j].name].form # "alias"
               /\ more[j].value = Compiled(entries)[more[j].name]
    <2>1. CASE j \in 1..L
      BY <1>4, <1>6, <1>7, <2>1 DEF CalledFor
    <2>2. CASE j = L + 1
      BY <1>1, <1>2, <1>4, <2>2
    <2> QED
      BY <1>5, <2>1, <2>2
  <1>9. ASSUME NEW m \in 1..(L + 1), NEW j \in 1..(L + 1), m < j
        PROVE  more[m].name < more[j].name
    <2>1. m \in 1..L
      BY <1>3, <1>9
    <2>2. CASE j \in 1..L
      BY <1>4, <1>9, <2>1, <2>2 DEF CalledFor
    <2>3. CASE j = L + 1
      <3>1. more[m].name \in 1..(i - 1) /\ more[j].name = i
        BY <1>2, <1>4, <1>6, <2>1, <2>3
      <3> QED
        BY <1>7, <3>1
    <2> QED
      BY <1>5, <2>2, <2>3
  <1>10. ASSUME NEW n \in 1..i, entries[n].form # "alias"
         PROVE  \E j \in 1..(L + 1) : more[j].name = n
    <2>1. CASE n = i
      <3>1. L + 1 \in 1..(L + 1) /\ more[L + 1].name = n
        BY <1>2, <1>3, <1>4, <2>1
      <3> QED
        BY <3>1
    <2>2. CASE n # i
      <3>1. n \in 1..(i - 1)
        BY <1>1, <2>2
      <3>2. PICK j \in 1..L : called[j].name = n
        BY <1>10, <3>1 DEF CalledFor
      <3>3. j \in 1..(L + 1) /\ more[j].name = n
        BY <1>3, <1>4, <3>2
      <3> QED
        BY <3>3
    <2> QED
      BY <2>1, <2>2
  <1> HIDE DEF L
  <1> QED
    BY <1>4, <1>8, <1>9, <1>10 DEF CalledFor

(* Without a misleading entry doForEachEntry calls for every entry that is *)
(* no alias, with the value of the compiler: the counts agree.             *)
LEMMA CalledInOrder ==
    ASSUME NEW entries, IsDeclaration(entries),
           \A i \in 1..Len(entries) : ~Misleading(entries, i)
    PROVE  CalledFor(entries, Len(entries), DoForEachEntry(entries))
  <1> DEFINE L == Len(entries)
             val == Compiled(entries)
  <1>1. PICK f \in [0..L -> EnumCount] :
            /\ DoForEachEntry(entries) = f[L].called
            /\ f[0] = [currentValue |-> 0, called |-> << >>]
            /\ \A i \in 1..L : f[i] = AfterEntry(entries, i, f[i - 1])
    BY WalkFunction
  <1>2. /\ L \in Nat
        /\ \A i \in 1..L :
              \/ entries[i].form = "auto"
              \/ /\ entries[i].form = "literal"
                 /\ entries[i].literal.meant \in Nat /\ entries[i].literal.read \in Nat
              \/ entries[i].form = "alias" /\ entries[i].of \in 1..(i - 1)
    BY EntryFacts
  <1>3. \A i \in 1..L :
            /\ val[i] \in Nat
            /\ entries[i].form = "auto" =>
                  val[i] = IF i = 1 THEN 0 ELSE (val[i - 1] + 1) % 2^EnumBits
            /\ entries[i].form = "literal" => val[i] = entries[i].literal.meant
    BY CompiledFacts
  <1>4. \A i \in 1..L :
            /\ entries[i].form = "literal" => entries[i].literal.read = entries[i].literal.meant
            /\ entries[i].form = "alias" => i > 1 /\ val[i] = val[i - 1]
    BY <1>2 DEF Misleading
  <1> HIDE DEF L, val
  <1> DEFINE Good(i) ==
                /\ CalledFor(entries, i, f[i].called)
                /\ f[i].currentValue = IF i = 0 THEN 0 ELSE (val[i] + 1) % 2^EnumBits
             S == {i \in 0..L : Good(i)}
  <1>5. 0 \in S
    <2>1. Good(0)
      <3>1. f[0].called = << >> /\ f[0].currentValue = 0
        BY <1>1
      <3>2. << >> \in Seq(NamedValues) /\ Len(<< >>) = 0
        OBVIOUS
      <3>3. CalledFor(entries, 0, << >>)
        BY <3>2 DEF CalledFor
      <3> QED
        BY <3>1, <3>3
    <2> HIDE DEF Good
    <2> QED
      BY <1>2, <2>1
  <1>6. ASSUME NEW i \in 1..L, i - 1 \in S PROVE i \in S
    <2>1. /\ i \in 0..L /\ i # 0 /\ i - 1 \in 0..L /\ i \in Nat
          /\ CalledFor(entries, i - 1, f[i - 1].called)
          /\ f[i - 1].currentValue = IF i - 1 = 0 THEN 0 ELSE (val[i - 1] + 1) % 2^EnumBits
      BY <1>2, <1>6
    <2>2. f[i] = AfterEntry(entries, i, f[i - 1])
      BY <1>1
    <2>3. CASE entries[i].form = "alias"
      <3>1. f[i] = f[i - 1] /\ val[i] = val[i - 1] /\ i > 1
        BY <1>4, <2>2, <2>3 DEF AfterEntry
      <3>2. CalledFor(entries, i, f[i].called)
        <4>1. \A n \in 1..i : n \in 1..(i - 1) \/ n = i
          BY <2>1
        <4>2. \A n \in 1..(i - 1) : n \in 1..i
          BY <2>1
        <4> QED
          BY <2>1, <2>3, <3>1, <4>1, <4>2 DEF CalledFor
      <3>3. f[i].currentValue = (val[i] + 1) % 2^EnumBits
        BY <2>1, <3>1
      <3>4. Good(i)
        BY <2>1, <3>2, <3>3
      <3> HIDE DEF Good
      <3> QED
        BY <2>1, <3>4
    <2>4. CASE entries[i].form # "alias"
      <3>1. Taken(entries[i], f[i - 1]) = val[i]
        <4>1. CASE entries[i].form = "literal"
          BY <1>3, <1>4, <4>1 DEF Taken
        <4>2. CASE entries[i].form # "literal"
          <5>1. entries[i].form = "auto"
            BY <1>2, <2>4, <4>2
          <5>2. Taken(entries[i], f[i - 1]) = f[i - 1].currentValue
            BY <4>2 DEF Taken
          <5>3. i - 1 = 0 <=> i = 1
            BY <2>1
          <5> QED
            BY <1>3, <2>1, <5>1, <5>2, <5>3
        <4> QED
          BY <4>1, <4>2
      <3>2. /\ f[i].called = Append(f[i - 1].called, [name |-> i, value |-> val[i]])
            /\ f[i].currentValue = (val[i] + 1) % 2^EnumBits
        BY <2>2, <2>4, <3>1 DEF AfterEntry
      <3>3. CalledFor(entries, i, f[i].called)
        BY <2>1, <2>4, <3>2, CalledOneMore DEF L, val
      <3>4. Good(i)
        BY <2>1, <3>2, <3>3
      <3> HIDE DEF Good
      <3> QED
        BY <2>1, <3>4
    <2> QED
      BY <2>3, <2>4
  <1>7. L \in S
    <2>1. \A i \in 1..L : i - 1 \in S => i \in S
      BY <1>6
    <2> HIDE DEF S
    <2>2. 0..L \subseteq S /\ L \in 0..L
      BY <1>2, <1>5, <2>1, BoundedInduction
    <2> QED
      BY <2>2
  <1> QED
    BY <1>1, <1>7 DEF L

(* First: where a value comes first.                                       *)
LEMMA FirstFacts ==
    ASSUME NEW called, called \in Seq(NamedValues), NEW i \in 1..Len(called)
    PROVE  /\ First(called, called[i].value) \in 1..i
           /\ called[First(called, called[i].value)].value = called[i].value
           /\ \A j \in 1..Len(called) :
                 called[j].value = called[i].value => First(called, called[i].value) <= j
  <1> DEFINE v == called[i].value
             S == {j \in 1..Len(called) : called[j].value = v}
             IsFirst(k) == called[k].value = v /\ \A j \in 1..(k - 1) : called[j].value # v
  <1>1. Len(called) \in Nat /\ DOMAIN called = 1..Len(called)
    BY LenProperties
  <1>2. i \in S /\ S \subseteq Nat
    BY <1>1
  <1>3. PICK n \in S : \A j \in S : n <= j
    <2> HIDE DEF S
    <2> QED
      BY <1>2, LeastNumber
  <1>4. IsFirst(n) /\ n \in 1..Len(called)
    <2>1. \A j \in 1..(n - 1) : j \in 1..Len(called) /\ ~(n <= j)
      BY <1>1, <1>3
    <2> QED
      BY <1>3, <2>1
  <1> DEFINE k == CHOOSE k \in 1..Len(called) : IsFirst(k)
  <1>5. First(called, v) = k
    BY <1>1 DEF First
  <1>6. k \in 1..Len(called) /\ IsFirst(k)
    <2> HIDE DEF IsFirst
    <2> QED
      BY <1>4
  <1> HIDE DEF k
  <1>7. \A j \in 1..Len(called) : called[j].value = v => k <= j
    <2> SUFFICES ASSUME NEW j \in 1..Len(called), called[j].value = v, ~(k <= j) PROVE FALSE
      BY <1>6
    <2>1. j \in 1..(k - 1)
      BY <1>1, <1>6
    <2> QED
      BY <1>6, <2>1
  <1>8. k \in 1..i
    <2>1. k <= i
      BY <1>7
    <2> QED
      BY <1>1, <1>6, <2>1
  <1> QED
    BY <1>5, <1>6, <1>7, <1>8

(* What to_vector lists of the first i calls: every value of theirs, in    *)
(* the order in which they come first.                                     *)
ListedOf(called, i, list) ==
    /\ list \in Seq(Nat)
    /\ \A j \in 1..Len(list) :
           First(called, list[j]) \in 1..i /\ called[First(called, list[j])].value = list[j]
    /\ \A j, k \in 1..Len(list) : j < k => First(called, list[j]) < First(called, list[k])
    /\ \A m \in 1..i : \E j \in 1..Len(list) : list[j] = called[m].value

(* It stays so with one more call: a value listed already is not repeated. *)
LEMMA ListedOneMore ==
    ASSUME NEW called, called \in Seq(NamedValues), NEW i \in 1..Len(called),
           NEW list, ListedOf(called, i - 1, list), NEW longer,
           longer = IF First(called, called[i].value) = i THEN Append(list, called[i].value)
                    ELSE list
    PROVE  ListedOf(called, i, longer)
  <1> DEFINE v == called[i].value
             L == Len(list)
  <1>1. Len(called) \in Nat /\ i \in Nat /\ v \in Nat
    <2>1. Len(called) \in Nat
      BY LenProperties
    <2>2. called[i] \in NamedValues
      BY ElementOfSeq
    <2> QED
      BY <2>1, <2>2 DEF NamedValues
  <1>2. list \in Seq(Nat) /\ L \in Nat
    BY LenProperties DEF ListedOf
  <1>3. /\ First(called, v) \in 1..i /\ called[First(called, v)].value = v
    BY FirstFacts
  <1> HIDE DEF v, L
  <1>4. /\ \A m \in 1..(i - 1) : m \in 1..i /\ m < i
        /\ \A m \in 1..i : m \in 1..(i - 1) \/ m = i
    BY <1>1
  <1>5. /\ \A j \in 1..L : First(called, list[j]) \in 1..(i - 1)
                           /\ called[First(called, list[j])].value = list[j]
        /\ \A j, k \in 1..L : j < k => First(called, list[j]) < First(called, list[k])
        /\ \A m \in 1..(i - 1) : \E j \in 1..L : list[j] = called[m].value
    BY DEF ListedOf, L
  <1>6. CASE First(called, v) = i
    <2>1. /\ longer \in Seq(Nat) /\ Len(longer) = L + 1 /\ longer[L + 1] = v
          /\ \A j \in 1..L : longer[j] = list[j]
      BY <1>1, <1>2, <1>6, AppendProperties DEF v, L
    <2>2. \A j \in 1..(L + 1) : j \in 1..L \/ j = L + 1
      BY <1>2
    <2>3. ASSUME NEW j \in 1..(L + 1)
          PROVE  First(called, longer[j]) \in 1..i /\ called[First(called, longer[j])].value = longer[j]
      BY <1>3, <1>4, <1>5, <2>1, <2>2
    <2>4. ASSUME NEW j \in 1..(L + 1), NEW k \in 1..(L + 1), j < k
          PROVE  First(called, longer[j]) < First(called, longer[k])
      <3>1. j \in 1..L /\ longer[j] = list[j]
        BY <1>2, <2>1, <2>4
      <3>2. CASE k \in 1..L
        BY <1>5, <2>1, <2>4, <3>1, <3>2
      <3>3. CASE k = L + 1
        BY <1>4, <1>5, <1>6, <2>1, <3>1, <3>3
      <3> QED
        BY <2>2, <3>2, <3>3
    <2>5. ASSUME NEW m \in 1..i
          PROVE  \E j \in 1..(L + 1) : longer[j] = called[m].value
      <3>1. CASE m = i
        <4>1. L + 1 \in 1..(L + 1) /\ longer[L + 1] = called[m].value
          BY <1>2, <2>1, <3>1 DEF v
        <4> QED
          BY <4>1
      <3>2. CASE m # i
        <4>1. PICK j \in 1..L : list[j] = called[m].value
          BY <1>4, <1>5, <3>2
        <4>2. j \in 1..(L + 1) /\ longer[j] = called[m].value
          BY <1>2, <2>1, <4>1
        <4> QED
          BY <4>2
      <3> QED
        BY <3>1, <3>2
    <2> QED
      BY <2>1, <2>3, <2>4, <2>5 DEF ListedOf
  <1>7. CASE First(called, v) # i
    <2>1. longer = list
      BY <1>7 DEF v
    <2>2. First(called, v) \in 1..(i - 1)
      BY <1>3, <1>4, <1>7
    <2>3. \E j \in 1..L : list[j] = v
      BY <1>3, <1>5, <2>2
    <2>4. \A m \in 1..i : \E j \in 1..L : list[j] = called[m].value
      BY <1>4, <1>5, <2>3 DEF v
    <2> QED
      BY <1>2, <1>4, <1>5, <2>1, <2>4 DEF ListedOf, L
  <1> QED
    BY <1>6, <1>7

(* The recursive function of to_vector.                                    *)
Listing(called, f) ==
    f = [i \in 0..Len(called) |->
            IF i = 0 THEN << >>
            ELSE IF First(called, called[i].value) = i THEN Append(f[i - 1], called[i].value)
            ELSE f[i - 1]]

(* to_vector lists the values of all the calls.                            *)
LEMMA VectorLists ==
    ASSUME NEW entries, DoForEachEntry(entries) \in Seq(NamedValues)
    PROVE  ListedOf(DoForEachEntry(entries), Len(DoForEachEntry(entries)), MakeVector(entries))
  <1> DEFINE called == DoForEachEntry(entries)
             L == Len(called)
             longer(i, list) == IF First(called, called[i].value) = i
                                THEN Append(list, called[i].value) ELSE list
             step == [i \in 1..L |-> [list \in Seq(Nat) |-> longer(i, list)]]
  <1>1. L \in Nat /\ called \in Seq(NamedValues)
    BY LenProperties
  <1>a. MakeVector(entries) = (CHOOSE f : Listing(called, f))[L]
    BY DEF MakeVector, Listing
  <1> HIDE DEF called, L
  <1>2. << >> \in Seq(Nat)
    OBVIOUS
  <1>3. \A i \in 1..L, list \in Seq(Nat) : longer(i, list) \in Seq(Nat)
    <2> SUFFICES ASSUME NEW i \in 1..L, NEW list \in Seq(Nat) PROVE longer(i, list) \in Seq(Nat)
      OBVIOUS
    <2>1. called[i].value \in Nat
      <3>1. called[i] \in NamedValues
        BY <1>1, ElementOfSeq DEF L
      <3> QED
        BY <3>1 DEF NamedValues
    <2>2. Append(list, called[i].value) \in Seq(Nat)
      BY <2>1
    <2> QED
      BY <2>2
  <1> HIDE DEF longer
  <1>4. /\ step \in [1..L -> [Seq(Nat) -> Seq(Nat)]]
        /\ \A i \in 1..L, list \in Seq(Nat) : step[i][list] = longer(i, list)
    BY <1>3
  <1> HIDE DEF step
  <1>5. PICK t : Steps(t, Seq(Nat), << >>, L, step)
    BY <1>1, <1>2, <1>4, RecursiveFunction
  <1>6. t \in [0..L -> Seq(Nat)] /\ t[0] = << >> /\ \A i \in 1..L : t[i] = step[i][t[i - 1]]
    BY <1>5 DEF Steps
  <1>7. t = [i \in 0..L |-> IF i = 0 THEN << >> ELSE longer(i, t[i - 1])]
    <2>1. ASSUME NEW i \in 0..L
          PROVE  t[i] = IF i = 0 THEN << >> ELSE longer(i, t[i - 1])
      <3>1. CASE i = 0
        BY <1>6, <3>1
      <3>2. CASE i # 0
        <4>1. i \in 1..L /\ i - 1 \in 0..L
          BY <1>1, <3>2
        <4>2. t[i - 1] \in Seq(Nat)
          BY <1>6, <4>1
        <4>3. t[i] = longer(i, t[i - 1])
          BY <1>4, <1>6, <4>1, <4>2
        <4> QED
          BY <3>2, <4>3
      <3> QED
        BY <3>1, <3>2
    <2> QED
      BY <1>6, <2>1
  <1> DEFINE f == CHOOSE f : Listing(called, f)
  <1>8. Listing(called, f)
    BY <1>7 DEF Listing, longer, L
  <1> HIDE DEF f
  <1>10. f = [i \in 0..L |-> IF i = 0 THEN << >> ELSE longer(i, f[i - 1])]
    BY <1>8 DEF Listing, longer, L
  <1>11. f[0] = << >> /\ \A i \in 1..L : f[i] = longer(i, f[i - 1])
    <2>1. 0 \in 0..L /\ \A i \in 1..L : i \in 0..L /\ i # 0
      BY <1>1
    <2> QED
      BY <1>10, <2>1
  <1> DEFINE S == {i \in 0..L : ListedOf(called, i, f[i])}
  <1>12. 0 \in S
    <2>1. << >> \in Seq(Nat) /\ Len(<< >>) = 0
      OBVIOUS
    <2>2. ListedOf(called, 0, << >>)
      BY <2>1 DEF ListedOf
    <2> QED
      BY <1>1, <1>11, <2>2
  <1>13. ASSUME NEW i \in 1..L, i - 1 \in S PROVE i \in S
    <2>1. ListedOf(called, i - 1, f[i - 1]) /\ i \in 0..L
      BY <1>1, <1>13
    <2>2. f[i] = longer(i, f[i - 1])
      BY <1>11
    <2>3. ListedOf(called, i, f[i])
      BY <1>1, <2>1, <2>2, ListedOneMore DEF longer, L
    <2> QED
      BY <2>1, <2>3
  <1>14. L \in S
    <2>1. \A i \in 1..L : i - 1 \in S => i \in S
      BY <1>13
    <2> HIDE DEF S
    <2>2. 0..L \subseteq S
      BY <1>1, <1>12, <2>1, BoundedInduction, Zenon
    <2>3. L \in 0..L
      BY <1>1
    <2> QED
      BY <2>2, <2>3
  <1> QED
    BY <1>a, <1>14 DEF f, called, L

(* The values that have a name, and what value_name_map says of them.      *)
NamesGiven(entries, map) ==
    LET called == DoForEachEntry(entries)
        named == {called[i].value : i \in DOMAIN called}
    IN  /\ \A value \in named : value \in DOMAIN map /\ map[value] = called[First(called, value)].name
        /\ \A value \in DOMAIN map : value \notin named => map[value] = NoName

(* The inductive invariant: an alias names an earlier entry, and once the  *)
(* map is built it stays as it was built, but for values without a name.   *)
EnumInv ==
    /\ IsDeclaration(declaration)
    /\ built => NamesGiven(declaration, value_name_map)

(* Declare adds an entry a declaration can have.                           *)
LEMMA DeclareKeepsDeclaration ==
    ASSUME NEW entries, IsDeclaration(entries),
           NEW entry \in [form : {"auto"}] \cup [form : {"literal"}, literal : Literals]
                         \cup [form : {"alias"}, of : DOMAIN entries]
    PROVE  IsDeclaration(Append(entries, entry))
  <1> DEFINE L == Len(entries)
             longer == Append(entries, entry)
  <1>1. entries \in Seq(DeclaredEntries) /\ L \in Nat /\ DOMAIN entries = 1..L
    BY EntryFacts DEF IsDeclaration
  <1>2. entry.form = "alias" => entry.of \in 1..L
    <2>1. CASE entry \in [form : {"auto"}]
      BY <2>1
    <2>2. CASE entry \in [form : {"literal"}, literal : Literals]
      BY <2>2
    <2>3. CASE entry \in [form : {"alias"}, of : DOMAIN entries]
      BY <1>1, <2>3
    <2> QED
      BY <2>1, <2>2, <2>3
  <1>3. entry \in DeclaredEntries
    BY <1>1 DEF DeclaredEntries
  <1>4. /\ longer \in Seq(DeclaredEntries) /\ Len(longer) = L + 1 /\ longer[L + 1] = entry
        /\ \A i \in 1..L : longer[i] = entries[i]
    BY <1>1, <1>3, AppendProperties
  <1>5. ASSUME NEW i \in 1..(L + 1), longer[i].form = "alias" PROVE longer[i].of \in 1..(i - 1)
    <2>1. CASE i \in 1..L
      BY <1>4, <1>5, <2>1 DEF IsDeclaration
    <2>2. CASE i = L + 1
      BY <1>1, <1>2, <1>4, <1>5, <2>2
    <2> QED
      BY <1>1, <2>1, <2>2
  <1> QED
    BY <1>4, <1>5 DEF IsDeclaration

(* The map as it is built.                                                 *)
LEMMA BuildGivesNames ==
    ASSUME NEW entries
    PROVE  NamesGiven(entries, MakeValueNameMap(entries))
  BY DEF NamesGiven, MakeValueNameMap

(* to_string adds a value without a name, or nothing.                      *)
LEMMA ToStringKeepsNames ==
    ASSUME NEW entries, NEW map, NamesGiven(entries, map), NEW asked
    PROVE  NamesGiven(entries, [value \in DOMAIN map \cup {asked} |->
                                   IF value \in DOMAIN map THEN map[value] ELSE NoName])
  BY DEF NamesGiven

(* Every step keeps the invariant.                                         *)
LEMMA EnumInduction == EnumSpec => []EnumInv
  <1>1. EnumInit => EnumInv
    <2> SUFFICES ASSUME EnumInit PROVE EnumInv
      OBVIOUS
    <2>1. declaration = << >> /\ built = FALSE
      BY DEF EnumInit
    <2>2. << >> \in Seq(DeclaredEntries) /\ Len(<< >>) = 0
      OBVIOUS
    <2>3. IsDeclaration(<< >>)
      BY <2>2 DEF IsDeclaration
    <2> QED
      BY <2>1, <2>3 DEF EnumInv
  <1>2. EnumInv /\ [EnumNext]_enumVars => EnumInv'
    <2> SUFFICES ASSUME EnumInv, [EnumNext]_enumVars PROVE EnumInv'
      OBVIOUS
    <2>1. CASE Declare
      <3>1. PICK entry \in [form : {"auto"}] \cup [form : {"literal"}, literal : Literals]
                           \cup [form : {"alias"}, of : DOMAIN declaration] :
                /\ declaration' = Append(declaration, entry)
                /\ ~built /\ built' = built
        BY <2>1 DEF Declare
      <3>2. IsDeclaration(declaration)'
        BY <3>1, DeclareKeepsDeclaration DEF EnumInv
      <3> QED
        BY <3>1, <3>2 DEF EnumInv
    <2>2. CASE Build
      BY <2>2, BuildGivesNames DEF Build, EnumInv
    <2>3. CASE Change
      BY <2>3 DEF Change, EnumInv
    <2>4. CASE ToString
      BY <2>4, ToStringKeepsNames DEF ToString, EnumInv
    <2>5. CASE UNCHANGED enumVars
      BY <2>5 DEF EnumInv, enumVars
    <2> QED
      BY <2>1, <2>2, <2>3, <2>4, <2>5 DEF EnumNext
  <1> QED
    BY <1>1, <1>2, PTL DEF EnumSpec

(* What NamedAsDeclared says follows from the map: the calls are those for *)
(* the entries that are no alias, in order, and the first has the name.    *)
LEMMA NamesFollow ==
    ASSUME NEW entries, IsDeclaration(entries), NEW map, NamesGiven(entries, map),
           \A i \in DOMAIN entries : ~Misleading(entries, i)
    PROVE  LET values == Compiled(entries)
               named == {i \in DOMAIN entries : entries[i].form # "alias"}
               listed == MakeVector(entries)
           IN  /\ {listed[j] : j \in DOMAIN listed} = {values[i] : i \in named}
               /\ \A i \in named : LET name == map[values[i]]
                                   IN  name \in named /\ name <= i /\ values[name] = values[i]
               /\ \A j, k \in DOMAIN listed : j < k => map[listed[j]] < map[listed[k]]
               /\ \A value \in DOMAIN map :
                      map[value] = NoName <=> value \notin {values[i] : i \in named}
  <1> DEFINE values == Compiled(entries)
             named == {i \in DOMAIN entries : entries[i].form # "alias"}
             listed == MakeVector(entries)
             called == DoForEachEntry(entries)
             L == Len(called)
             E == Len(entries)
             given == {called[j].value : j \in DOMAIN called}
  <1>1. E \in Nat /\ DOMAIN entries = 1..E
    BY EntryFacts
  <1>2. CalledFor(entries, E, called)
    BY <1>1, CalledInOrder
  <1> HIDE DEF called, listed, values, E
  <1>3. called \in Seq(NamedValues) /\ L \in Nat /\ DOMAIN called = 1..L
    BY <1>2, LenProperties DEF CalledFor
  <1>4. ListedOf(called, L, listed)
    BY <1>3, VectorLists DEF called, listed
  <1>5. Len(listed) \in Nat /\ DOMAIN listed = 1..Len(listed)
    BY <1>4, LenProperties DEF ListedOf
  <1>6. /\ \A j \in 1..L : called[j].name \in named /\ called[j].value = values[called[j].name]
        /\ \A m, j \in 1..L : m < j => called[m].name < called[j].name
        /\ \A n \in named : \E j \in 1..L : called[j].name = n
    BY <1>1, <1>2 DEF CalledFor, values
  <1>7. \A i \in named : i \in Nat /\ i > 0
    BY <1>1
  <1> HIDE DEF named
  <1>8. given = {values[i] : i \in named}
    BY <1>3, <1>6
  <1>9. /\ \A value \in given : /\ value \in DOMAIN map
                                /\ map[value] = called[First(called, value)].name
        /\ \A value \in DOMAIN map : value \notin given => map[value] = NoName
    BY DEF NamesGiven, called
  <1>10. \A j \in 1..L : /\ called[j].value \in given
                         /\ First(called, called[j].value) \in 1..L
                         /\ First(called, called[j].value) <= j
                         /\ called[First(called, called[j].value)].value = called[j].value
    <2> SUFFICES ASSUME NEW j \in 1..L
                 PROVE  /\ called[j].value \in given
                        /\ First(called, called[j].value) \in 1..L
                        /\ First(called, called[j].value) <= j
                        /\ called[First(called, called[j].value)].value = called[j].value
      OBVIOUS
    <2>1. called[j].value \in given
      BY <1>3
    <2>2. /\ First(called, called[j].value) \in 1..j
          /\ called[First(called, called[j].value)].value = called[j].value
      BY <1>3, FirstFacts
    <2>3. \A k \in 1..j : k \in 1..L /\ k <= j
      BY <1>3
    <2> QED
      BY <2>1, <2>2, <2>3
  <1> HIDE DEF given
  <1>11. {listed[j] : j \in DOMAIN listed} = {values[i] : i \in named}
    <2>1. ASSUME NEW j \in DOMAIN listed PROVE listed[j] \in {values[i] : i \in named}
      <3>1. /\ First(called, listed[j]) \in 1..L
            /\ called[First(called, listed[j])].value = listed[j]
        BY <1>4, <1>5 DEF ListedOf
      <3> QED
        BY <1>6, <3>1
    <2>2. ASSUME NEW i \in named PROVE values[i] \in {listed[j] : j \in DOMAIN listed}
      <3>1. PICK m \in 1..L : called[m].name = i
        BY <1>6
      <3>2. PICK j \in 1..Len(listed) : listed[j] = called[m].value
        BY <1>4 DEF ListedOf
      <3>3. values[i] = listed[j]
        BY <1>6, <3>1, <3>2
      <3> QED
        BY <1>5, <3>3
    <2> QED
      BY <2>1, <2>2
  <1>12. ASSUME NEW i \in named
         PROVE  map[values[i]] \in named /\ map[values[i]] <= i /\ values[map[values[i]]] = values[i]
    <2>1. PICK j \in 1..L : called[j].name = i
      BY <1>6
    <2>2. called[j].value = values[i]
      BY <1>6, <2>1
    <2> DEFINE k == First(called, values[i])
    <2>3. /\ k \in 1..L /\ k <= j /\ called[k].value = values[i] /\ map[values[i]] = called[k].name
      BY <1>9, <1>10, <2>2
    <2> HIDE DEF k
    <2>4. called[k].name \in named /\ values[called[k].name] = values[i]
      BY <1>6, <2>3
    <2>5. called[k].name <= i
      <3>1. CASE k = j
        BY <1>7, <2>1, <3>1
      <3>2. CASE k < j
        <4>1. called[k].name < i
          BY <1>6, <2>1, <2>3, <3>2
        <4> QED
          BY <1>7, <2>4, <4>1
      <3> QED
        BY <2>3, <3>1, <3>2
    <2> QED
      BY <2>3, <2>4, <2>5
  <1>13. ASSUME NEW j \in DOMAIN listed, NEW k \in DOMAIN listed, j < k
         PROVE  map[listed[j]] < map[listed[k]]
    <2>1. /\ First(called, listed[j]) \in 1..L /\ First(called, listed[k]) \in 1..L
          /\ called[First(called, listed[j])].value = listed[j]
          /\ called[First(called, listed[k])].value = listed[k]
          /\ First(called, listed[j]) < First(called, listed[k])
      BY <1>4, <1>5, <1>13 DEF ListedOf
    <2>2. listed[j] \in given /\ listed[k] \in given
      BY <1>10, <2>1
    <2> QED
      BY <1>6, <1>9, <2>1, <2>2
  <1>14. ASSUME NEW value \in DOMAIN map
         PROVE  map[value] = NoName <=> value \notin {values[i] : i \in named}
    <2>1. CASE value \in given
      <3>1. PICK i \in named : value = values[i]
        BY <1>8, <2>1
      <3>2. map[value] \in named
        BY <1>12, <3>1
      <3>3. map[value] # NoName
        BY <1>7, <3>2 DEF NoName
      <3> QED
        BY <3>1, <3>3
    <2>2. CASE value \notin given
      BY <1>8, <1>9, <2>2
    <2> QED
      BY <2>1, <2>2
  <1> QED
    BY <1>11, <1>12, <1>13, <1>14 DEF values, named, listed

(* to_vector and to_string of a keycap_enum say what its declaration says, *)
(* for declarations of every length, literals and values of every number   *)
(* of bits, where no entry misleads doForEachEntry; and asking for the     *)
(* name of a value that has none (ToString) takes no name from another.    *)
THEOREM NamesAreDeclared == EnumSpec => []NamedAsDeclared
  <1>1. EnumInv => NamedAsDeclared
    BY NamesFollow DEF EnumInv, NamedAsDeclared
  <1> QED
    BY <1>1, EnumInduction, PTL
=============================================================================
