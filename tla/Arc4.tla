-------------------------------- MODULE Arc4 --------------------------------
(***************************************************************************)
(* cryptography/ARC4.cpp: two ciphers made of one key, of which one works  *)
(* on a text and the other on what it has made of it.  process() keeps its *)
(* state in the object, so a text may come in any pieces; here it comes    *)
(* byte by byte, and the two interleave.                                   *)
(***************************************************************************)
EXTENDS Integers, Sequences

CONSTANTS
    BlockSize,   \* block_size, and the number of bytes there are
    Keys,        \* the keys: sequences of bytes
    Xor(_, _),   \* exclusive or of two bytes
    MaxText      \* bound: length of the text

Byte == 0..(BlockSize - 1)

ASSUME BlockAssumption == BlockSize \in Nat \ {0} /\ Keys \subseteq Seq(Byte)
ASSUME XorAssumption ==
    \A m, n \in Byte : Xor(m, n) \in Byte /\ Xor(Xor(m, n), n) = m

Ends == {"sender", "receiver"}

VARIABLES
    key,        \* the key of both, or none
    block,      \* block_ of each
    mixed,      \* the index i of the constructor's loop
    kk,         \* its k, which the index j of the key goes along with
    x4, y4,     \* x and y of each
    text, ciphered, deciphered   \* the text, what sender and receiver made of it

arcVars == <<key, block, mixed, kk, x4, y4, text, ciphered, deciphered>>

ArcInit ==
    /\ key = <<>>
    /\ block = [e \in Ends |-> [i \in Byte |-> i]]
    /\ mixed = [e \in Ends |-> 0]
    /\ kk = [e \in Ends |-> 0]
    /\ x4 = [e \in Ends |-> 0] /\ y4 = [e \in Ends |-> 0]
    /\ text = <<>> /\ ciphered = <<>> /\ deciphered = <<>>

-----------------------------------------------------------------------------
Swapped(b, i, j) == [b EXCEPT ![i] = b[j], ![j] = b[i]]

ChooseKey ==
    /\ key = <<>>
    /\ key' \in Keys
    /\ UNCHANGED <<block, mixed, kk, x4, y4, text, ciphered, deciphered>>

(* One round of the constructor's loop.                                    *)
MixOver(e) ==    \* mutant: std::swap written out without a temporary
    /\ key # <<>> /\ mixed[e] < BlockSize
    /\ LET i == mixed[e]
           n == (key[(i % Len(key)) + 1] + block[e][i] + kk[e]) % BlockSize
       IN  /\ block' = [block EXCEPT ![e] = [@ EXCEPT ![i] = block[e][n]]]
           /\ kk' = [kk EXCEPT ![e] = n]
    /\ mixed' = [mixed EXCEPT ![e] = @ + 1]
    /\ UNCHANGED <<key, x4, y4, text, ciphered, deciphered>>
Mix(e) ==
    /\ key # <<>> /\ mixed[e] < BlockSize
    /\ LET i == mixed[e]
           n == (key[(i % Len(key)) + 1] + block[e][i] + kk[e]) % BlockSize
       IN  /\ block' = [block EXCEPT ![e] = Swapped(@, i, n)]
           /\ kk' = [kk EXCEPT ![e] = n]
    /\ mixed' = [mixed EXCEPT ![e] = @ + 1]
    /\ UNCHANGED <<key, x4, y4, text, ciphered, deciphered>>

(* process_, of one byte: x, y, the swap, and the byte of the block that   *)
(* the two swapped ones point to.                                          *)
NextX(e) == (x4[e] + 1) % BlockSize
NextY(e) == (block[e][NextX(e)] + y4[e]) % BlockSize
Turn(e) ==
    /\ mixed[e] = BlockSize
    /\ x4' = [x4 EXCEPT ![e] = NextX(e)]
    /\ y4' = [y4 EXCEPT ![e] = NextY(e)]
    /\ block' = [block EXCEPT ![e] = Swapped(@, NextX(e), NextY(e))]
    /\ UNCHANGED <<key, mixed, kk>>
Out(e, byte) ==
    LET b == block'[e] IN Xor(byte, b[(b[x4'[e]] + b[y4'[e]]) % BlockSize])

Encrypt ==
    /\ Len(text) < MaxText
    /\ Turn("sender")
    /\ \E byte \in Byte :
        text' = Append(text, byte) /\ ciphered' = Append(ciphered, Out("sender", byte))
    /\ UNCHANGED deciphered

Decrypt ==
    /\ Len(deciphered) < Len(ciphered)
    /\ Turn("receiver")
    /\ deciphered' = Append(deciphered, Out("receiver", ciphered[Len(deciphered) + 1]))
    /\ UNCHANGED <<text, ciphered>>

ArcNext == ChooseKey \/ Encrypt \/ Decrypt \/ \E e \in Ends : Mix(e)
ArcSpec == ArcInit /\ [][ArcNext]_arcVars

-----------------------------------------------------------------------------
(* The block stays a permutation of the bytes, through the constructor's   *)
(* loop, where both indices may meet, and through every byte processed.    *)
BlockIsPermutation ==
    \A e \in Ends : {block[e][i] : i \in Byte} = Byte

(* What one cipher has made of a text another of the same key turns back,  *)
(* however far the two are apart; and neither loses a byte of its block,   *)
(* though in either loop the two places swapped may be one.                *)
TextComesBack ==
    BlockIsPermutation /\ deciphered = SubSeq(text, 1, Len(deciphered))
=============================================================================
