----------------------------- MODULE MCLibrary -----------------------------
(***************************************************************************)
(* The parts of the library that no other part's threads run through, and  *)
(* the registered messages, in one model: the first step decides which of  *)
(* them is used, and only that one moves.                                  *)
(***************************************************************************)
EXTENDS MemoryStream, Zip, DataRouter, Srp6, Otp, Arc4, ConfigFile,
        KeycapEnum, Text, MCRegistered

VARIABLE part

(* Exclusive or of two bits each.                                          *)
Bit(n, i) == (n \div i) % 2
XorOfBits(m, n) ==
    ((Bit(m, 1) + Bit(n, 1)) % 2) + 2 * ((Bit(m, 2) + Bit(n, 2)) % 2)

(* Keys of one and of three bytes.                                         *)
ShortKeys == {<<0>>, <<3>>, <<1, 3, 2>>, <<2, 2, 1>>}

(* A decimal literal, and 0x2.                                             *)
TwoLiterals == {[meant |-> 3, read |-> 3], [meant |-> 2, read |-> 0]}

LibraryInit ==
    /\ part \in {"stream", "zip", "router", "srp6", "otp", "arc4",
                "config", "enum", "text", "messages"}
    /\ StreamInit /\ ZipInit /\ RouterInit /\ SrpInit /\ OtpInit /\ ArcInit
    /\ ConfigInit /\ EnumInit /\ TextInit /\ Init

LibraryNext ==
    \/ part = "stream" /\ StreamNext
       /\ UNCHANGED <<part, zipVars, routerVars, srpVars, otpVars, arcVars,
                      configVars, enumVars, textVars, vars>>
    \/ part = "zip" /\ ZipNext
       /\ UNCHANGED <<part, streamVars, routerVars, srpVars, otpVars, arcVars,
                      configVars, enumVars, textVars, vars>>
    \/ part = "router" /\ RouterNext
       /\ UNCHANGED <<part, streamVars, zipVars, srpVars, otpVars, arcVars,
                      configVars, enumVars, textVars, vars>>
    \/ part = "srp6" /\ SrpNext
       /\ UNCHANGED <<part, streamVars, zipVars, routerVars, otpVars, arcVars,
                      configVars, enumVars, textVars, vars>>
    \/ part = "otp" /\ OtpNext
       /\ UNCHANGED <<part, streamVars, zipVars, routerVars, srpVars, arcVars,
                      configVars, enumVars, textVars, vars>>
    \/ part = "arc4" /\ ArcNext
       /\ UNCHANGED <<part, streamVars, zipVars, routerVars, srpVars, otpVars,
                      configVars, enumVars, textVars, vars>>
    \/ part = "config" /\ ConfigNext
       /\ UNCHANGED <<part, streamVars, zipVars, routerVars, srpVars, otpVars,
                      arcVars, enumVars, textVars, vars>>
    \/ part = "enum" /\ EnumNext
       /\ UNCHANGED <<part, streamVars, zipVars, routerVars, srpVars, otpVars,
                      arcVars, configVars, textVars, vars>>
    \/ part = "text" /\ TextNext
       /\ UNCHANGED <<part, streamVars, zipVars, routerVars, srpVars, otpVars,
                      arcVars, configVars, enumVars, vars>>
    \/ part = "messages" /\ Next
       /\ UNCHANGED <<part, streamVars, zipVars, routerVars, srpVars, otpVars,
                      arcVars, configVars, enumVars, textVars>>

LibrarySpec ==
    /\ LibraryInit
    /\ [][LibraryNext]_<<part, streamVars, zipVars, routerVars, srpVars, otpVars, arcVars,
                        configVars, enumVars, textVars, vars>>
    /\ ZipFairness /\ Fairness
=============================================================================
