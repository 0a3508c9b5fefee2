-------------------------------- MODULE Text --------------------------------
(***************************************************************************)
(* utility/string.cpp and the hex dump of utility.hpp: text taken apart at *)
(* a delimiter and put together again, and a range of bytes shown in rows. *)
(*                                                                         *)
(* A character is the delimiter or not; a byte is named by its place in    *)
(* the range.  A row is what stands in it: the address, the bytes, and the *)
(* column at which their characters begin.                                 *)
(***************************************************************************)
EXTENDS Integers, Sequences, FiniteSets

CONSTANTS
    Letters,   \* the characters, the delimiter among them
    Delim,     \* the delimiter
    MaxString, \* bound: characters of a string
    MaxDump    \* bound: bytes of a range

Row == 16

VARIABLES
    str,       \* the string
    shown,     \* how many bytes of the range the loop has come past
    rowBuffer, \* buffer
    filled,    \* i: how many bytes of it are of the row at hand
    address,
    rows       \* the rows printed

textVars == <<str, shown, rowBuffer, filled, address, rows>>

TextInit ==
    /\ str = << >> /\ shown = 0
    /\ rowBuffer = [n \in 0..(Row - 1) |-> 0] /\ filled = 0 /\ address = 0
    /\ rows = << >>

-----------------------------------------------------------------------------
(* explode: getline takes the text up to each delimiter, and nothing where *)
(* the text ends.                                                          *)
ExplodeWithLast(string) ==    \* mutant: the rest is taken even if it is empty
    LET cut == {0} \cup {n \in DOMAIN string : string[n] = Delim} \cup {Len(string) + 1}
        after(n) == CHOOSE m \in cut : m > n /\ \A o \in cut : o > n => m <= o
        tokens[n \in cut] == IF n = Len(string) + 1 THEN << >>
                             ELSE <<SubSeq(string, n + 1, after(n) - 1)>> \o tokens[after(n)]
    IN  tokens[0]
Explode(string) ==
    LET cut == {0} \cup {n \in DOMAIN string : string[n] = Delim} \cup {Len(string) + 1}
        after(n) == CHOOSE m \in cut : m > n /\ \A o \in cut : o > n => m <= o
        tokens[n \in cut] == IF n >= Len(string) THEN << >>
                             ELSE <<SubSeq(string, n + 1, after(n) - 1)>> \o tokens[after(n)]
    IN  tokens[0]

Join(vec) ==
    LET first[n \in 0..Len(vec)] ==
            IF n = 0 THEN << >>
            ELSE (IF n = 1 THEN << >> ELSE Append(first[n - 1], Delim)) \o vec[n]
    IN  first[Len(vec)]

Type == /\ Len(str) < MaxString
        /\ \E c \in Letters : str' = Append(str, c)
        /\ UNCHANGED <<shown, rowBuffer, filled, address, rows>>

-----------------------------------------------------------------------------
(* printAddress, printHex and printChars: the address has 8 digits, a byte *)
(* has two and a space, half a row has one space before it, also where its *)
(* bytes are missing.                                                      *)
HalfRows(n) == {m \in 0..(n - 1) : m % 8 = 0}
MissingHalfRows(n) == {m \in 0..(Row - n - 1) : Row - n - m = 8}
PrintRow(n) ==
    [address |-> address,
     bytes |-> [m \in 1..n |-> rowBuffer[m - 1]],
     column |-> 8 + 3 * n + Cardinality(HalfRows(n))
                  + 3 * (Row - n) + Cardinality(MissingHalfRows(n))]

(* The body of the loop: a full row is printed before the next byte.       *)
DumpByteHere ==    \* mutant: the address is not advanced
    /\ shown < MaxDump
    /\ shown' = shown + 1
    /\ IF filled >= Row
       THEN /\ rows' = Append(rows, PrintRow(Row))
            /\ rowBuffer' = [rowBuffer EXCEPT ![0] = shown']
            /\ filled' = 1
       ELSE /\ rowBuffer' = [rowBuffer EXCEPT ![filled] = shown']
            /\ filled' = filled + 1
            /\ UNCHANGED rows
    /\ UNCHANGED <<str, address>>
DumpByte ==
    /\ shown < MaxDump
    /\ shown' = shown + 1
    /\ IF filled >= Row
       THEN /\ rows' = Append(rows, PrintRow(Row))
            /\ address' = address + Row
            /\ rowBuffer' = [rowBuffer EXCEPT ![0] = shown']
            /\ filled' = 1
       ELSE /\ rowBuffer' = [rowBuffer EXCEPT ![filled] = shown']
            /\ filled' = filled + 1
            /\ UNCHANGED <<address, rows>>
    /\ UNCHANGED str

(* What has been printed when the range ends here.                         *)
Dump == IF filled # 0 THEN Append(rows, PrintRow(filled)) ELSE rows

TextNext == Type \/ DumpByte
TextSpec == TextInit /\ [][TextNext]_textVars

-----------------------------------------------------------------------------
(* join() undoes explode(), but for a delimiter at the end, which explode  *)
(* does not show.                                                          *)
JoinUndoesExplode ==
    LET open == str = << >> \/ str[Len(str)] # Delim
    IN  Join(Explode(str)) = IF open THEN str ELSE SubSeq(str, 1, Len(str) - 1)

(* Wherever a range ends, its dump shows every byte once and in order, in  *)
(* full rows but the last, each under the address of its first byte, and   *)
(* the characters of all rows begin in one column.                         *)
DumpShowsAll ==
    /\ \A n \in 1..Len(Dump) :
           /\ Dump[n].address = Row * (n - 1)
           /\ \A m \in DOMAIN Dump[n].bytes : Dump[n].bytes[m] = Row * (n - 1) + m
           /\ n < Len(Dump) => Len(Dump[n].bytes) = Row
           /\ Dump[n].column = Dump[1].column
    /\ shown = IF Dump = << >> THEN 0
               ELSE Row * (Len(Dump) - 1) + Len(Dump[Len(Dump)].bytes)
=============================================================================
