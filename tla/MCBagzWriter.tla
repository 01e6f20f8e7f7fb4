---------------------------- MODULE MCBagzWriter ----------------------------
(***************************************************************************)
(* Instances of BagzWriter for TLC.  Limits of two bytes can be torn, and a *)
(* buffer of three bytes copies them in turns that do not end at a limit.   *)
(***************************************************************************)
EXTENDS BagzWriter

\* Every call may fail.
MCFailing == {"open", "compress", "write", "flush", "close", "append", "delete"}
=============================================================================
