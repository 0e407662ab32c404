--------------------------- MODULE MCFastGenHost ---------------------------
(* Instances of FastGenHost for TLC. *)
EXTENDS FastGenHost, TLC

CONSTANTS r1, r2, r3

ThreeReqs == {r1, r2, r3}

(* Prompts and generation limits that make two lanes outgrow four blocks of three. *)
MCPromptLen == r1 :> 3 @@ r2 :> 1 @@ r3 :> 2
MCMaxGen    == r1 :> 9 @@ r2 :> 6 @@ r3 :> 3

(* Four blocks of three: r1 starves while the pages of the next lane are copied. *)
TightPromptLen == r1 :> 3 @@ r2 :> 3 @@ r3 :> 2
TightMaxGen    == r1 :> 9 @@ r2 :> 4 @@ r3 :> 2
=============================================================================
