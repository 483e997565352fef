--------------------------- MODULE MCConfigStore ---------------------------
(* Instances of ConfigStore for TLC.                                        *)
EXTENDS ConfigStore, TLC

CONSTANTS r1, r2, r3

EveryKind == r1 :> "modes" @@ r2 :> "preset" @@ r3 :> "prompt"
ModesAndPrompt == r1 :> "modes" @@ r2 :> "prompt"
=============================================================================
