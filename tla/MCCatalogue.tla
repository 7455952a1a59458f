------------------------------ MODULE MCCatalogue ------------------------------
(* Instances of CatalogueUpdates: the second version changes one entry, drops *)
(* one and adds one.                                                          *)
EXTENDS CatalogueUpdates

TwoVersions == <<{<<"a", 1>>, <<"b", 1>>}, {<<"a", 2>>, <<"c", 1>>}>>

(* A check of the whole or of the news, narrowed to one family or not, and    *)
(* one since a given version.  The family is in the first version only: the   *)
(* second refuses that narrowing.                                             *)
Every == {"a", "b", "c"}
SomeWays == [last : BOOLEAN, since : {0}, only : {Every, {"b"}}]
            \cup [last : {FALSE}, since : {1}, only : {Every}]
================================================================================
