--------------------------- MODULE MCQueueConfig ---------------------------
(***************************************************************************)
(* One namespace with two Queue CRs: b may be a sibling of a, its child, a *)
(* child of nothing, or break a rule; a may bound what the quota bounds    *)
(* more tightly, be routed to itself, or have a bound of zero.             *)
(***************************************************************************)
EXTENDS QueueConfig, TLC

a == <<"n", "a">>
b == <<"n", "b">>

Spec(parent, max, sas) ==
  [parent |-> parent, mode |-> "", max |-> max, guaranteed |-> <<>>, sas |-> sas, dflt |-> FALSE]

mcQueues == {a, b}
mcSpecsOf == (a :> {Spec("", "cpu" :> 2, {"x"}), Spec("", "cpu" :> 0, {})}) @@
             (b :> {Spec("", <<>>, {"x"}), Spec("a", <<>>, {"x"}), Spec("a", <<>>, {"default"})})
mcStarts == {(a :> Spec("", "cpu" :> 2, {"x"})),
             (a :> Spec("", "cpu" :> 0, {})) @@ (b :> Spec("a", <<>>, {"x"})),
             (a :> Spec("", "cpu" :> 0, {})) @@ (b :> Spec("a", <<>>, {"default"}))}
mcQuotas == "n" :> {<<>>, "cpu" :> 1}
mcIdentity == [p \in Tenants |-> [ns |-> "n", sa |-> "x"]]
=============================================================================
