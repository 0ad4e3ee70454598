--------------------------- MODULE MCPassManager ----------------------------
(* The driver's pipelines on a main that calls f, and f and g with any mix  *)
(* of global loads, global stores, calls of each other, of themselves and   *)
(* of a library function; the cold code is in f or in main.                 *)
EXTENDS PassManager, TLC

CONSTANTS main, f, g, out

MCFunctions == {main, f, g, out}
MCDeclared == {out}

MCPrograms ==
    {[hot |-> (main :> {f} @@ f :> i @@ g :> j @@ out :> {}),
      cold |-> (main :> k @@ f :> l @@ g :> {} @@ out :> {})] :
        i \in SUBSET {"load", "store", g, f}, j \in SUBSET {"load", out, f},
        k \in {{}, {g}}, l \in {{}, {"load"}, {"store", g}, {out}}}
=============================================================================
