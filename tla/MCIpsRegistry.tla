---------------------------- MODULE MCIpsRegistry ----------------------------
(***************************************************************************)
(* The bounded check of IpsRegistry: the assets are interchangeable.        *)
(***************************************************************************)
EXTENDS IpsRegistry, TLC

AssetSymmetry == Permutations(Assets)

=============================================================================
