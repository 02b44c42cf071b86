---------------------------- MODULE WebLibraryMC ----------------------------
(* The files of the model checker's instance of WebLibrary. *)
EXTENDS WebLibrary

MCParts == {"sessions", "caches", "log"}
MCMaxWork == [sessions |-> 3, caches |-> 4, log |-> 7]

MCTemplates == <<"form-de", "form">>
MCCost == [f \in {"page", "form-de", "form"} |-> IF f = "form" THEN 2 ELSE 1]

Symmetry == Permutations(Threads) \cup Permutations(Data)

=============================================================================
