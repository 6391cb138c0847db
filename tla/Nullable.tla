-------------------------------- MODULE Nullable --------------------------------
(* Values that may be absent: a column that is NULL, an Option that is None.    *)
EXTENDS Integers

CONSTANT None

ASSUME NoneAssumption == None \notin Int

Optional(S) == S \cup {None}

\* SQL's COALESCE of two values.
Coalesce(a, b) == IF a # None THEN a ELSE b
================================================================================
