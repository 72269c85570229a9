-------------------------- MODULE MCCatalogUpgrade --------------------------
(* Three loads of one source table while the release changes. *)
EXTENDS CatalogUpgrade

CONSTANTS l1, l2, l3

MCLoads == {l1, l2, l3}
=============================================================================
