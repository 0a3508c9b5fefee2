---------------------------- MODULE MCConnection ----------------------------
(***************************************************************************)
(* Instances of Connection for TLC: one caller outside the io_context, who *)
(* may call send() again and again, or none.  The bounds leave room for a  *)
(* packet that overtakes another (two packets), for one that comes while   *)
(* do_write runs (a third), and for a chunk that is answered and one that  *)
(* is rejected.                                                            *)
(***************************************************************************)
EXTENDS Connection

CONSTANT app  \* a model value: the application's thread

OneCaller == {app}
NoCaller == {}
=============================================================================
