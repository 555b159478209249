--------------------------- MODULE MCMutationQueue ---------------------------
(***************************************************************************)
(* Two files: "old" exists and is reached by its path and by a link, "new"  *)
(* is created and reached by its path only; or one file that is created     *)
(* through a link.                                                          *)
(***************************************************************************)
EXTENDS MutationQueue

TwoFiles == {"old", "new"}
ThreePaths == {"old.txt", "link.txt", "new.txt"}
StableTarget == [p \in ThreePaths |-> IF p = "new.txt" THEN "new" ELSE "old"]
StableCanonical == [f \in TwoFiles |-> IF f = "new" THEN "new.txt" ELSE "old.txt"]

OneFile == {"new"}
TwoPaths == {"new.txt", "link.txt"}
LinkedTarget == [p \in TwoPaths |-> "new"]
LinkedCanonical == [f \in OneFile |-> "new.txt"]
=============================================================================
