----------------------------- MODULE MCFastGen -----------------------------
(* Instances of FastGen for TLC. *)
EXTENDS FastGen, TLC

CONSTANTS r1, r2, r3

ThreeReqs == {r1, r2, r3}

(* Prompts and generation limits that make two lanes outgrow four blocks of three. *)
MCPromptLen == r1 :> 3 @@ r2 :> 1 @@ r3 :> 2
MCMaxGen    == r1 :> 9 @@ r2 :> 6 @@ r3 :> 3

(* A prompt shorter than max_seq whose slack does not fit in max_seq. *)
LongPromptLen == r1 :> 7 @@ r2 :> 1
LongMaxGen    == r1 :> 1 @@ r2 :> 1
TwoReqs == {r1, r2}
=============================================================================
