-------------------------------- MODULE Sums --------------------------------
(***************************************************************************)
(* SELECT coalesce(sum(column), 0) over a set of rows, shared by the       *)
(* modules that add up money and stock (in the code, func.sum of           *)
(* SQLAlchemy).  The sum is the number of units the rows hold, which needs *)
(* no recursion and so can be reasoned about; MCTill compares it with the  *)
(* community modules' fold.                                                *)
(***************************************************************************)
EXTENDS Integers, FiniteSets

\* The units of the rows S whose column is f: f[x] of them for the row x.
Units(f, S) == UNION {{x} \X (1 .. f[x]) : x \in S}

\* The sum of f[x] over x in S, for a finite S and natural numbers f[x].
SumOver(f, S) == Cardinality(Units(f, S))
=============================================================================
