-------------------------------- MODULE MCExports --------------------------------
(* Finite instances of Exports for TLC.                                    *)
EXTENDS Exports, TLC

(* With s3_prefix = "exports" every key is selected by the rule, so that   *)
(* the bucket may delete objects beside the command.                       *)
ExportsPrefix == <<"exports">>

Interchangeable == Permutations(Export) \cup Permutations(Sweep)
=============================================================================
