---- MODULE MCStores ----
(***************************************************************************)
(* The local stores under an API with two worker threads and one command   *)
(* at a time beside it, on one file.                                       *)
(***************************************************************************)
EXTENDS LocalStores, TLC

CONSTANTS api, cli, t1, t2, c1

TwoProcesses == {api, cli}
ThreeWorkers == {t1, t2, c1}
TwoThreadsAndACommand == (t1 :> api) @@ (t2 :> api) @@ (c1 :> cli)
====
