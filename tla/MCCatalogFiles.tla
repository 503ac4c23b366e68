---------------------------- MODULE MCCatalogFiles ----------------------------
(* Instances of CatalogFiles for TLC. *)
EXTENDS CatalogFiles, TLC

CONSTANTS t1, t2, plain, vector, wide

Owners == (plain :> t1) @@ (vector :> t1) @@ (wide :> t2)

DataRows == Permutations(DataRow)

===============================================================================
