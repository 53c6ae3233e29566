-------------------------- MODULE MCProgressStream --------------------------
(* Three clients: the two events at the end of a job do not suffice for    *)
(* all of them.                                                            *)
EXTENDS ProgressStream
=============================================================================
