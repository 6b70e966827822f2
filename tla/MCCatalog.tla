------------------------------ MODULE MCCatalog ------------------------------
(* Rows with no name, with a name that begins with a letter, and two with  *)
(* kana of one label; with no year, or one of two.                         *)
EXTENDS Catalog

MCRow ==
  { [name |-> 0, number |-> 0], [name |-> 0, number |-> 1999],
    [name |-> 97, number |-> 0], [name |-> 97, number |-> 1999],
    [name |-> 12354, number |-> 2005], [name |-> 12356, number |-> 1999] }
=============================================================================
