-------------------------------- MODULE Otp --------------------------------
(***************************************************************************)
(* cryptography/OTP.cpp: codes that are shown at one time and validated at *)
(* another, by clocks that may differ.                                     *)
(*                                                                         *)
(* The HMAC of a counter is external and ideal: a code is its counter and  *)
(* its number of digits.  Time is in seconds.                              *)
(***************************************************************************)
EXTENDS Integers

CONSTANTS
    Step,      \* 30, the seconds of one code
    MaxTime,   \* bound: the latest time
    Width,     \* 2^64, the number of counters
    Digits     \* lengths of a code

ASSUME OtpAssumption ==
    Step \in Nat \ {0} /\ MaxTime \in Nat /\ Width \in Nat /\ MaxTime \div Step + 1 < Width

(* DIGITS_POWER, the powers of ten that cut a code to its length; it is    *)
(* indexed by that length unchecked, and ends with the one for 8 digits.   *)
ASSUME DigitsAssumption == Digits \subseteq 0..8

VARIABLES
    clock,     \* what std::time gives to validate
    shownAt,   \* what the clock that made the code showed
    code,      \* the code
    accepted   \* what validate returned

otpVars == <<clock, shownAt, code, accepted>>

NoCode == [counter |-> 0, digits |-> 0]

OtpInit ==
    /\ clock = 0 /\ shownAt = 0
    /\ code = NoCode
    /\ accepted = FALSE

(* HOTP::generate; the counter has 64 bits.                                *)
HotpGenerate(counter, digits) == [counter |-> counter % Width, digits |-> digits]

(* TOTP::generate                                                          *)
TotpGenerate(now, start, step, digits) == HotpGenerate((now - start) \div step, digits)

Show ==
    /\ code = NoCode
    /\ \E now \in 0..MaxTime, digits \in Digits :
        shownAt' = now /\ code' = TotpGenerate(now, 0, Step, digits)
    /\ UNCHANGED <<clock, accepted>>

(* TOTP::validate: the step before, this one, and the next.                *)
ValidateOld ==    \* mutant: i < 1, the next step is left out
    /\ code # NoCode
    /\ \E now \in clock..MaxTime :
        /\ clock' = now
        /\ accepted' = (\E i \in -1..0 : code = HotpGenerate(now \div Step + i, code.digits))
    /\ UNCHANGED <<shownAt, code>>
Validate ==
    /\ code # NoCode
    /\ \E now \in clock..MaxTime :
        /\ clock' = now
        /\ accepted' = (\E i \in -1..1 : code = HotpGenerate(now \div Step + i, code.digits))
    /\ UNCHANGED <<shownAt, code>>

OtpNext == Show \/ Validate
OtpSpec == OtpInit /\ [][OtpNext]_otpVars

Apart == IF clock > shownAt THEN clock - shownAt ELSE shownAt - clock

-----------------------------------------------------------------------------
(* A code is accepted by every clock that is at most one step off the one  *)
(* that made it, and by none that is two steps off, from the first second  *)
(* on, where the step before does not exist.                               *)
WindowOfOneStep ==
    [][Validate => /\ Apart' <= Step => accepted'
                   /\ accepted' => Apart' < 2 * Step]_otpVars
=============================================================================
