----------------------------- MODULE MCElements -----------------------------
(* Instances of PipelineElements for TLC. *)
EXTENDS PipelineElements

\* Element 2 is only compatible with 4 through 3.
MCIncompatible == {<<2, 4>>}

\* Element 3 refuses the caps of element 2.
MCIncompatibleAck == {<<2, 3>>}
=============================================================================
