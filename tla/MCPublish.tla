------------------------------ MODULE MCPublish -------------------------------
(***************************************************************************)
(* A small instance of Publish for TLC: more events than the queue holds,  *)
(* and fewer polls than events.                                            *)
(***************************************************************************)
EXTENDS Publish

MCCount == <<4, 3>>
==============================================================================
