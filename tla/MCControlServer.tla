-------------------------- MODULE MCControlServer --------------------------
(***************************************************************************)
(* ControlServer on small instances, for TLC.                              *)
(***************************************************************************)
EXTENDS ControlServer

\* One request of each branch; the GET has no operand, and the SETs have a
\* value whose text is too long for GET's answer and one that is no number.
SomeRequests ==
  {[kind |-> "AUDIO_OUTPUT_REQUEST"], [kind |-> "other"], [kind |-> "GET"],
   [kind |-> "SET", name |-> "sampleVariableA", value |-> "wide"],
   [kind |-> "SET", name |-> "sampleVariableA", value |-> "junk"]}
=============================================================================
