------------------------------ MODULE MCTables ------------------------------
EXTENDS Tables, TLC
CONSTANTS a, b, r1, r2

ColA == a :> "int"
ColAText == a :> "text"
ColAB == (a :> "int") @@ (b :> "int")
MCSpecs ==
  {[key |-> "id", cols |-> ColA, by |-> "system"],
   [key |-> "id", cols |-> ColAText, by |-> "system"],
   [key |-> "id", cols |-> ColAB, by |-> "system"],
   [key |-> "name", cols |-> ColA, by |-> "system"],
   [key |-> "id", cols |-> ColA, by |-> "user"]}
MCKeys == {"id", "name"}
MCTypes == {"int", "text"}
MCCols == {a, b}
MCRows == {r1, r2}
Symmetry == Permutations(MCRows)
=============================================================================
