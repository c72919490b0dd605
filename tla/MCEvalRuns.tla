----------------------------- MODULE MCEvalRuns -----------------------------
(***************************************************************************)
(* A small instance of EvalRuns for TLC.                                   *)
(***************************************************************************)
EXTENDS EvalRuns, TLC

CONSTANTS e1, w1, cli

TwoCases == <<2, 1, Whole>>
=============================================================================
