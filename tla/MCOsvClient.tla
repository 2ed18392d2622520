---------------------------- MODULE MCOsvClient ----------------------------
(* Small instances of OsvClient.                                           *)
EXTENDS OsvClient, TLC

CONSTANTS check, other, red, blue, plain, ghsa

Ask(row, package) == [row |-> row, package |-> package]

(* A check of a row under two spellings of its name, a chunk for each, and *)
(* a check of another manifest that names the first of them.               *)
MCAsks == [c \in Callers |-> IF c = check
                             THEN 1 :> Ask(1, red) @@ 2 :> Ask(1, blue)
                             ELSE 1 :> Ask(1, red)]

(* What OSV holds of the second spelling does not count.                   *)
MCWorlds == {red :> {plain} @@ blue :> {ghsa}}
=============================================================================
