--------------------------- MODULE ClaimServiceMC ---------------------------
(***************************************************************************)
(* A small wallet: of its coins only `large' makes up the expected total,  *)
(* `gift' may be deposited at any time and `dust' is worth spending at the *)
(* default rate alone.                                                     *)
(***************************************************************************)
EXTENDS ClaimService

CONSTANTS d1, d2, large, gift, dust

MCEconomic == [r \in Rates |-> IF r = DefaultRate THEN Utxos ELSE Utxos \ {dust}]
MCEnough == {coins \in SUBSET Utxos : large \in coins}
=============================================================================
