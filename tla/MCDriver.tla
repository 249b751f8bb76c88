------------------------------ MODULE MCDriver ------------------------------
(***************************************************************************)
(* Two processes and four files: a program with a long object, one with a  *)
(* short object, one the checker refuses, and one that cannot be read.     *)
(***************************************************************************)
EXTENDS Driver

MCTexts == {"long", "short", "bad"}
MCDisk ==
  [f \in {"long.b", "short.b", "bad.b", "gone.b"} |->
     CASE f = "long.b" -> "long" [] f = "short.b" -> "short"
       [] f = "bad.b" -> "bad" [] f = "gone.b" -> "FileNotFound"]
MCCalls == {<<"long.b", FALSE>>, <<"short.b", TRUE>>, <<"bad.b", TRUE>>, <<"gone.b", FALSE>>}
MCRefusal == [t \in MCTexts |-> IF t = "bad" THEN "check" ELSE Accepted]
MCBlocks  == [t \in MCTexts |-> IF t = "long" THEN 2 ELSE 1]
MCHasMain == MCTexts
=============================================================================
