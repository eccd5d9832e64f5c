---------------------------- MODULE MCCatalogClient ----------------------------
(***************************************************************************)
(* Three concurrent callers, one category, and enough failures to open the *)
(* breaker, fail its half-open requests and open it again.                 *)
(***************************************************************************)
EXTENDS CatalogClient

CONSTANTS caller1, caller2, caller3, currency

TwoCallers == {caller1, caller2}
ThreeCallers == {caller1, caller2, caller3}
OneCategory == {currency}
NoVersions == {}
SecondVersion == {1}

=============================================================================
