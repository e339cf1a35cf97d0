--------------------------- MODULE MCJobLifecycle ---------------------------
(***************************************************************************)
(* Instances of JobLifecycle for TLC: a daily api whose builder asks for   *)
(* the last business day, and the snapshots of a contract that matures.    *)
(***************************************************************************)
EXTENDS JobLifecycle, TLC

\* A timer's process and a request of the api do the same.
Callers == Permutations(Generators)

MCApis     == {"bars", "quote"}
MCBuilders == {"b", "q"}
MCApiOf    == [x \in MCBuilders |-> IF x = "b" THEN "bars" ELSE "quote"]
MCParams   == {"fri", "frix", "mon", "call"}
\* key_params_list does not tell "frix" from "fri".
MCKeyOf    == [p \in MCParams |-> IF p = "frix" THEN "fri" ELSE p]
MCDateOf   == [p \in MCParams |-> CASE p \in {"fri", "frix"} -> 0
                                    [] p = "mon" -> 1
                                    [] p = "call" -> 2]
MCBatches  == {{"b", "q"}}
MCExpansion ==
  [x \in MCBuilders |->
     [d \in Day |->
        IF x = "q" THEN (IF d <= 2 THEN {"call"} ELSE {})
        ELSE CASE d = 1 -> {"fri"} [] d = 2 -> {"fri", "mon"} [] OTHER -> {"mon", "frix"}]]
=============================================================================
