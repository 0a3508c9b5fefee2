---------------------------- MODULE MemoryStream ----------------------------
(***************************************************************************)
(* memory_stream.hpp: a vector of bytes with a read position, which the    *)
(* header calls a FIFO stream container.                                   *)
(*                                                                         *)
(* `unread` is what a FIFO container would still hold, and each read is    *)
(* compared with it.  A call that takes the stream beyond what the code    *)
(* and its checks keep track of makes it `astray`, and says why; the       *)
(* properties are about a stream that never was.  A call that throws and   *)
(* changes nothing is no step.                                             *)
(***************************************************************************)
EXTENDS Integers, Sequences

CONSTANTS
    MaxBytes,  \* bound: bytes written to the stream
    MaxSize    \* bound: bytes of one value, or of a decompressed block

ASSUME StreamAssumption == MaxBytes \in Nat /\ MaxSize \in Nat

VARIABLES
    buffer,    \* buffer_, each byte numbered in the order of writing
    position,  \* read_position_
    written,   \* number of bytes written so far
    unread,    \* the bytes not read yet, oldest first
    wrong,     \* whether a read has ever given other bytes than the oldest
    astray     \* whether the read position was ever lost

streamVars == <<buffer, position, written, unread, wrong, astray>>

StreamInit ==
    /\ buffer = <<>> /\ position = 0
    /\ written = 0
    /\ unread = <<>>
    /\ wrong = FALSE /\ astray = FALSE

-----------------------------------------------------------------------------
Fresh(n) == [i \in 1..n |-> written + i]
Drop(s, n) == SubSeq(s, n + 1, Len(s))

(* The size that is asked for plays no part.                               *)
HasRemaining(num_bytes) == position < Len(buffer)

(* n bytes from the read position on; 0 stands for what lies past the end. *)
Bytes(n) == [i \in 1..n |->
                IF position + i <= Len(buffer) THEN buffer[position + i] ELSE 0]

(* What a read of n bytes does to the stream, and how it ought to.         *)
Read(n) ==
    /\ position' = position + n
    /\ unread' = Drop(unread, n)
    /\ astray' = (astray \/ n > Len(unread))
    /\ wrong' = (wrong \/ (n <= Len(unread) /\ Bytes(n) # SubSeq(unread, 1, n)))
    /\ UNCHANGED <<buffer, written>>

-----------------------------------------------------------------------------
(* put, of a value, a string, a span, or another stream.                   *)
Put(n) ==
    /\ written + n <= MaxBytes
    /\ buffer' = buffer \o Fresh(n)
    /\ unread' = unread \o Fresh(n)
    /\ written' = written + n
    /\ UNCHANGED <<position, wrong, astray>>

(* get<T>, get_string(size) and write_to(destination, num_bytes).          *)
Get(n) ==
    /\ HasRemaining(n)
    /\ Read(n)

(* get_string(), up to and with a zero byte: any byte may be the first.    *)
GetString == \E n \in 1..(Len(buffer) - position) : Read(n)

(* get_remaining, to_vector and write_to(destination): all there is.  The  *)
(* position comes back to the end before the copy is made, which throws, or *)
(* holds nothing, if the position was past it.                             *)
TakeRest ==
    \/ position <= Len(buffer) /\ Read(Len(buffer) - position)
    \/ /\ position > Len(buffer)
       /\ position' = Len(buffer)
       /\ UNCHANGED <<buffer, written, unread, wrong, astray>>

(* override: a place in the whole buffer, read or not.                     *)
Override(n, where) ==
    /\ where + n <= Len(buffer) /\ written + n <= MaxBytes
    /\ LET new(s, at) == [i \in 1..Len(s) |->
                IF i - at \in 1..n THEN Fresh(n)[i - at] ELSE s[i]]
       IN  /\ buffer' = new(buffer, where)
           /\ unread' = new(unread, where - position)
    /\ written' = written + n
    /\ UNCHANGED <<position, wrong, astray>>

(* operator[]: a byte after the read position is set, or one past the end, *)
(* after which nothing is known of the stream.                             *)
At(index) ==
    /\ HasRemaining(index)
    /\ \/ Override(1, position + index)
       \/ /\ position + index >= Len(buffer)
          /\ astray' = TRUE
          /\ UNCHANGED <<buffer, position, written, unread, wrong>>

ShrinkAll ==    \* mutant: the read position is not reset
    /\ position \in 1..Len(buffer)
    /\ buffer' = Drop(buffer, position)
    /\ UNCHANGED <<position, written, unread, wrong, astray>>
Shrink ==
    /\ position \in 1..Len(buffer)
    /\ buffer' = Drop(buffer, position)
    /\ position' = 0
    /\ UNCHANGED <<written, unread, wrong, astray>>

Clear ==
    /\ buffer' = <<>> /\ position' = 0
    /\ unread' = <<>>
    /\ UNCHANGED <<written, wrong, astray>>

(* advance: the comparison is unsigned, so every step back goes to the     *)
(* first byte, while a step forward may leave the buffer.                  *)
Strays(amount) ==
    \/ amount < 0 /\ position + amount > 0
    \/ amount > 0 /\ position + amount > Len(buffer)

Advance(amount) ==
    /\ position + amount <= MaxBytes
    /\ position' = IF amount < 0 THEN 0 ELSE position + amount
    /\ unread' = IF amount < 0 THEN buffer ELSE Drop(unread, amount)
    /\ astray' = (astray \/ Strays(amount))
    /\ UNCHANGED <<buffer, written, wrong>>

(* decompress: `length` bytes become n, which take the place of whatever   *)
(* n bytes come next, and leave what they do not reach.                    *)
Decompress(length, n) ==
    /\ position + length <= Len(buffer) /\ written + n <= MaxBytes
    /\ buffer' = SubSeq(buffer, 1, position) \o Fresh(n) \o Drop(buffer, position + n)
    /\ unread' = Fresh(n) \o Drop(unread, length)
    /\ written' = written + n
    /\ astray' = (astray \/ Drop(unread, n) # Drop(unread, length))
    /\ UNCHANGED <<position, wrong>>

StreamNext ==
    \/ \E n \in 1..MaxSize : Put(n) \/ Get(n)
    \/ GetString \/ TakeRest \/ Shrink \/ Clear
    \/ \E n \in 1..MaxSize, where \in 0..MaxBytes : Override(n, where)
    \/ \E index \in 0..MaxBytes : At(index)
    \/ \E amount \in (-MaxSize)..MaxSize : Advance(amount)
    \/ \E length, n \in 1..MaxSize : Decompress(length, n)

StreamSpec == StreamInit /\ [][StreamNext]_streamVars

-----------------------------------------------------------------------------
(* Whatever was written, read, overridden, decompressed, skipped and       *)
(* erased before, a stream that was not led astray holds what it was given *)
(* and has not given back, in that order, and every read gave the oldest.  *)
FirstInFirstOut ==
    ~astray => ~wrong /\ unread = Drop(buffer, position)
=============================================================================
