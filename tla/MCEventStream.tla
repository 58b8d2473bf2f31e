---------------------------- MODULE MCEventStream ----------------------------
(* Instance: a broadcast channel of two events, a ring of three and a socket
   channel of one frame, so that the receiver lags, the ring loses events and
   sends wait, in every order, within a handful of events. *)
EXTENDS EventStream
==============================================================================
