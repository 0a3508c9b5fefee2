---------------------------- MODULE MCRegistered ----------------------------
(***************************************************************************)
(* RegisteredMessages for TLC.  A payload of 2 bytes leaves a message that *)
(* can_decode takes before it is whole shorter than its own header, one of *)
(* 9 bytes does not; an empty one is the shortest message there is.        *)
(***************************************************************************)
EXTENDS RegisteredMessages

SmallPayloads == [side \in Sides |->
    IF side = "server" THEN <<2, 9>> ELSE <<9, 0>>]
=============================================================================
