-------------------------------- MODULE Srp6 --------------------------------
(***************************************************************************)
(* network/srp6: registration of a verifier, the exchange that gives       *)
(* client and server one session key, if the client knows the password,    *)
(* and the proofs that each of them has it.                                *)
(*                                                                         *)
(* SHA-1 is an arbitrary function where its result is a number to reckon   *)
(* with: `u` is the hash of A and B, `x` that of the credentials, with a   *)
(* value for those in upper case and one for those the user types.  Where  *)
(* its result is only compared it stands for itself: a hash is what was    *)
(* hashed.  The user's name and the salt, the same at both ends, are left  *)
(* out.  A byte has Base values.  What comes as A may not be the client's. *)
(***************************************************************************)
EXTENDS Integers, Sequences

CONSTANTS
    N,         \* the prime of the group
    g,         \* its generator
    Secrets,   \* values of a and b
    Hashes,    \* values of a hash
    ForeignA,  \* values of A that do not come from the client
    Base,      \* values of a byte (256)
    ArraySize  \* bytes of an array that a number is sent in (32)

(* N is a prime, and g not a multiple of it.                               *)
ASSUME GroupAssumption ==
    /\ N \in Nat \ {0, 1} /\ g \in Nat /\ g % N # 0
    /\ \A i, j \in 1..(N - 1) : (i * j) % N # 0
    /\ Base \in Nat \ {0, 1} /\ ArraySize \in Nat
ASSUME ValuesAssumption == Secrets \subseteq Nat /\ Hashes \subseteq Nat /\ ForeignA \subseteq Nat

NoValue == -1
NoProof == << >>
NoHash == [upper |-> NoValue, typed |-> NoValue]
k == 3

VARIABLES
    x,          \* the hash of the credentials, in upper case and as typed
    u,          \* the hash of A and B
    verifier,   \* v_
    secretA, secretB,   \* a_ and b_
    publicA, publicB,   \* A_ of the client and B_
    receivedA,  \* A_ of the server
    typed,      \* whether the client used the credentials as typed
    keyClient, keyServer,   \* S of each side, which the session key is made of
    compliance, \* compliance_, the same at both ends
    proofClient, proofServer, \* what each side has sent as its proof
    proofHolds  \* whether the server found the client's proof right

exchangeVars == <<x, u, verifier, secretA, secretB, publicA, publicB, receivedA, typed,
                  keyClient, keyServer, compliance>>
proofVars == <<proofClient, proofServer, proofHolds>>
srpVars == <<exchangeVars, proofVars>>

SrpInit ==
    /\ x = NoHash /\ u = NoValue
    /\ verifier = NoValue
    /\ secretA = NoValue /\ secretB = NoValue
    /\ publicA = NoValue /\ publicB = NoValue
    /\ receivedA = 0
    /\ typed = FALSE
    /\ keyClient = NoValue /\ keyServer = NoValue
    /\ compliance = "Wow"
    /\ proofClient = NoProof /\ proofServer = NoProof /\ proofHolds = FALSE

-----------------------------------------------------------------------------
(* Botan::power_mod                                                        *)
PowerMod(base, exponent, modulus) ==
    LET power[i \in 0..exponent] ==
            IF i = 0 THEN 1 % modulus ELSE (power[i - 1] * (base % modulus)) % modulus
    IN  power[exponent]

(* encode_flip: the bytes of a number, the lowest first, without zeros at  *)
(* the end; decode_flip makes a number of them.                            *)
EncodeFlip(n) ==
    LET bytes[i \in 0..n] == IF i = 0 THEN << >> ELSE <<i % Base>> \o bytes[i \div Base]
    IN  bytes[n]
(* A number below N fits into an array.                                    *)
ASSUME ArrayAssumption == \A n \in 0..(N - 1) : Len(EncodeFlip(n)) <= ArraySize

DecodeFlip(bytes) ==
    LET from[i \in 1..(Len(bytes) + 1)] ==
            IF i > Len(bytes) THEN 0 ELSE bytes[i] + Base * from[i + 1]
    IN  from[1]
Flip(bytes) == [i \in 1..Len(bytes) |-> bytes[Len(bytes) + 1 - i]]

(* encode_1363_flip, and to_array: the bytes in the order of the mode.     *)
Encode1363Flip(n) ==
    LET bytes == EncodeFlip(n)
    IN  [i \in 1..ArraySize |-> IF i <= Len(bytes) THEN bytes[i] ELSE 0]
InOrder(bytes) == IF compliance = "Wow" THEN bytes ELSE Flip(bytes)
ToArray(n) == InOrder(Encode1363Flip(n))

(* sha_interleave: zeros at the beginning go, one byte more if the number  *)
(* of bytes is odd, and the even and the odd bytes are hashed apart.       *)
ShaInterleave(n) ==
    LET s == EncodeFlip(n)
        begin == CHOOSE i \in 0..Len(s) : /\ \A j \in 1..i : s[j] = 0
                                         /\ i < Len(s) => s[i + 1] # 0
        even == begin + ((Len(s) - begin) % 2)
        half == (Len(s) - even) \div 2
    IN  <<[i \in 1..half |-> s[even + 2 * i - 1]], [i \in 1..half |-> s[even + 2 * i]]>>

(* The end of session_key on both sides; sha1_hash of one number.          *)
SessionKey(S) == IF compliance = "Wow" THEN ShaInterleave(S) ELSE <<InOrder(EncodeFlip(S))>>

(* generate_client_proof is the same in every mode.                        *)
GenerateClientProof(A, B, key) == <<EncodeFlip(A), EncodeFlip(B), key>>
ServerProofOf(A, clientProof, key) == <<InOrder(EncodeFlip(A)), clientProof, key>>

(* generate_verifier makes the credentials upper case.                     *)
GenerateVerifier ==
    /\ verifier = NoValue
    /\ x' \in [upper : Hashes, typed : Hashes]
    /\ verifier' = PowerMod(g, x'.upper, N)
    /\ compliance' \in {"Wow", "RFC5054"}
    /\ UNCHANGED <<u, secretA, secretB, publicA, publicB, receivedA, typed, keyClient, keyServer,
                   proofVars>>

NewServer ==
    /\ verifier # NoValue /\ publicB = NoValue
    /\ secretB' \in Secrets
    /\ publicB' = (k * verifier + PowerMod(g, secretB', N)) % N
    /\ UNCHANGED <<x, u, verifier, secretA, publicA, receivedA, typed, keyClient, keyServer,
                   compliance, proofVars>>

NewClient ==
    /\ verifier # NoValue /\ publicA = NoValue
    /\ secretA' \in Secrets
    /\ publicA' = PowerMod(g, secretA', N)
    /\ UNCHANGED <<x, u, verifier, secretB, publicB, receivedA, typed, keyClient, keyServer,
                   compliance, proofVars>>

(* The hash of A and B; that of an A from elsewhere is another.             *)
HashOf(A) == IF A = publicA /\ u # NoValue THEN {u} ELSE Hashes

(* client::session_key takes the credentials as they are.                  *)
ClientSessionKeyUnreduced ==    \* mutant: the verifier's part of B is not taken out k times
    /\ publicA # NoValue /\ publicB # NoValue /\ keyClient = NoValue
    /\ typed' \in BOOLEAN
    /\ u' \in HashOf(publicA)
    /\ LET secret == IF typed' THEN x.typed ELSE x.upper
       IN  keyClient' = PowerMod(publicB - PowerMod(g, secret, N), secretA + u' * secret, N)
    /\ UNCHANGED <<x, verifier, secretA, secretB, publicA, publicB, receivedA, keyServer,
                   compliance, proofVars>>
ClientSessionKey ==
    /\ publicA # NoValue /\ publicB # NoValue /\ keyClient = NoValue
    /\ typed' \in BOOLEAN
    /\ u' \in HashOf(publicA)
    /\ LET secret == IF typed' THEN x.typed ELSE x.upper
       IN  keyClient' = PowerMod(publicB - k * PowerMod(g, secret, N), secretA + u' * secret, N)
    /\ UNCHANGED <<x, verifier, secretA, secretB, publicA, publicB, receivedA, keyServer,
                   compliance, proofVars>>

(* server::session_key: an A that is 0 modulo N is refused.                *)
ServerKeyOf(A, hash) == PowerMod(A * PowerMod(verifier, hash, N), secretB, N)
ServerSessionKey(A) ==
    /\ publicA # NoValue /\ publicB # NoValue
    /\ A % N # 0 /\ A > 0
    /\ receivedA' = A
    /\ \E hash \in HashOf(A) :
        /\ u' = IF A = publicA THEN hash ELSE u
        /\ keyServer' = ServerKeyOf(A, hash)
    /\ UNCHANGED <<x, verifier, secretA, secretB, publicA, publicB, typed, keyClient,
                   compliance, proofVars>>

(* The programs at both ends make the client's proof with the A, the B and *)
(* the key they have; server::proof takes the A of the last session_key.   *)
ClientProof ==
    /\ keyClient # NoValue /\ proofClient = NoProof
    /\ proofClient' = GenerateClientProof(publicA, publicB, SessionKey(keyClient))
    /\ UNCHANGED <<exchangeVars, proofServer, proofHolds>>

ServerProof ==
    /\ keyServer # NoValue /\ proofClient # NoProof /\ proofServer = NoProof
    /\ proofHolds' = (proofClient = GenerateClientProof(receivedA, publicB, SessionKey(keyServer)))
    /\ proofServer' = ServerProofOf(receivedA, proofClient, SessionKey(keyServer))
    /\ UNCHANGED <<exchangeVars, proofClient>>

SrpNext ==
    \/ GenerateVerifier \/ NewServer \/ NewClient \/ ClientSessionKey
    \/ \E A \in ForeignA \cup {publicA} : ServerSessionKey(A)
    \/ ClientProof \/ ServerProof

SrpSpec == SrpInit /\ [][SrpNext]_srpVars

-----------------------------------------------------------------------------
(* What the test of srp6 says: client and server work together.  Whatever  *)
(* the hashes are and in whichever order they compute their keys, if the   *)
(* client gives the credentials in upper case, which the verifier is made  *)
(* of and session_key() does not change, and the server's last A was the   *)
(* client's, then each accepts the other's proof; the public values        *)
(* survive the arrays they are sent in; and no A makes the server compute  *)
(* a key that does not depend on its secret and the verifier.              *)
ProofsAccepted ==
    /\ proofServer # NoProof /\ ~typed /\ proofServer[1] = InOrder(EncodeFlip(publicA)) =>
           /\ proofHolds
           /\ proofServer = ServerProofOf(publicA, proofClient, SessionKey(keyClient))
    /\ \A value \in {publicA, publicB} \ {NoValue} :
           DecodeFlip(InOrder(ToArray(value))) = value
    /\ keyServer # 0
=============================================================================
