----------------------------- MODULE MCEcdsaKey -----------------------------
(***************************************************************************)
(* Two proxies and a run of genkey on one key file, a third proxy on a     *)
(* file of its own of which a read may fail.                               *)
(***************************************************************************)
EXTENDS EcdsaKey, TLC

CONSTANTS p1, p2, p3, g, shared, own, k0, k1, k2

MCKeyFile == (p1 :> shared) @@ (p2 :> shared) @@ (g :> shared) @@ (p3 :> own)
=============================================================================
