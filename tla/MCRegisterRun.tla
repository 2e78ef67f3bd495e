---------------------------- MODULE MCRegisterRun ----------------------------
(* An instance of RegisterRun for TLC.                                     *)
EXTENDS RegisterRun

CONSTANTS manual, refill, repair

(* One run of two workers at a time, which is stopped or stalls;           *)
Work == [mode |-> "total", threads |-> 2, total |-> 2, target |-> 1,
         callers |-> {manual}, runs |-> 1, workers |-> 2]
(* two runs of one worker and everyone who starts them.                    *)
Start == [mode |-> "available", threads |-> 1, total |-> 1, target |-> 1,
          callers |-> Callers, runs |-> 2, workers |-> 1]
Loads == {Work, Start}
=============================================================================
