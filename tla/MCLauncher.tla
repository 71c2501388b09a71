----------------------------- MODULE MCLauncher -----------------------------
(* Two mods, the first in two versions, and one given on the command line; *)
(* the second needs the newer version of the first.                        *)
EXTENDS Launcher

MCInstalled == {<< 1, 1 >>, << 1, 2 >>, << 2, 1 >>}
MCCli == {<< 3, 1 >>}
MCCompilable ==
  {s \in SUBSET (MCInstalled \cup MCCli) :
     OneVersion(s) /\ (<< 2, 1 >> \in s => << 1, 2 >> \in s)}
============================================================================
