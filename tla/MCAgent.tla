------------------------------ MODULE MCAgent -------------------------------
(***************************************************************************)
(* An instance of Agent for TLC: two readings, the second larger than a    *)
(* request may be, and a login attempt.                                    *)
(***************************************************************************)
EXTENDS Agent

MCStreamOf == <<"host", "host", "access">>
MCWeight == [row \in {0, 1, 2, 3} |-> IF row = 2 THEN 3 ELSE 1]

\* Agent: as long as the server does not answer somebody is told of it again and again,
\* and once nothing fails the buffers run empty.
GoesOnTrying == KeepsShouting /\ BuffersDrain
=============================================================================
