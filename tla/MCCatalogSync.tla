---------------------------- MODULE MCCatalogSync ----------------------------
(***************************************************************************)
(* One or two run slots and one category.  CATALOG_CATEGORIES may name it  *)
(* twice, as nothing forbids: then syncAll has a next category.            *)
(***************************************************************************)
EXTENDS CatalogSync, TLC

CONSTANTS run1, run2, currency

OneRun == {run1}
TwoRuns == {run1, run2}
OneCategory == {currency}
JustCurrency == <<currency>>
CurrencyTwice == <<currency, currency>>
NoVersions == {}
SecondVersion == {1}

\* The run slots are interchangeable.
RunSymmetry == Permutations(TwoRuns)

=============================================================================
