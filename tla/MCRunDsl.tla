------------------------------ MODULE MCRunDsl ------------------------------
(***************************************************************************)
(* Instances of RunDsl for TLC.                                            *)
(***************************************************************************)
EXTENDS RunDsl

CONSTANT Kinds  \* the tool behaviours that occur in the scripts

Blind   == [does : Kinds, preview : {"none"}]

\* A tool may have a dry run; one that fails in its dry run would return an error.
Preview == [does : Kinds, preview : {"none", "ok"}] \cup [does : {"error"}, preview : {"error"}]

MCScripts == (UNION {[1..n -> Blind] : n \in 1..3}) \cup (UNION {[1..n -> Preview] : n \in 1..2})
=============================================================================
