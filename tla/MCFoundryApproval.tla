-------------------------- MODULE MCFoundryApproval --------------------------
(* Symmetric model values for FoundryApproval: docsets, assets, runs,       *)
(* titles, processes and readers are only ever compared.                    *)
EXTENDS FoundryApproval, TLC

Symmetry == Permutations(Docsets) \cup Permutations(Assets) \cup
            Permutations(Runs) \cup Permutations(Titles) \cup
            Permutations(Procs) \cup Permutations(Readers)
=============================================================================
