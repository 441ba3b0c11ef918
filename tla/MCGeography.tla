------------------------------ MODULE MCGeography ------------------------------
(* Bounds for TLC: two spellings of one city and a name the dataset does not have. *)
EXTENDS Geography, TLC

CONSTANTS Harare, HARARE, Ruwa, north, asked, other, first

MCNames      == {Harare, HARARE, Ruwa}
MCLower      == Harare :> "harare" @@ HARARE :> "harare" @@ Ruwa :> "ruwa"
MCRegions    == {north, Unknown}
MCLocalities == {[name |-> Harare, region |-> north]}

(* The rows of the old database are numbered from 1.                              *)
Numbered(table) == \E n \in 0..2 : DOMAIN table = 1..n

MCInit ==
  /\ Init
  /\ Numbered(cities) /\ Numbered(suburbs)

MCSpec == MCInit /\ [][Next]_vars

Symmetric == Permutations(Requests)
================================================================================
