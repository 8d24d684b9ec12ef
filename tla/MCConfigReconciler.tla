------------------------- MODULE MCConfigReconciler -------------------------
(* Small instances of ConfigReconciler. *)
EXTENDS ConfigReconciler, TLC

Toleration(key, operator, effect) ==
    [key |-> key, operator |-> operator, value |-> "", effect |-> effect]
Requirement(key, operator, values) ==
    [key |-> key, operator |-> operator, values |-> values]

Labels(excluded, pool) == excludeRemediationLabel :> excluded @@ "pool" :> pool
Taint(key) == [key |-> key, value |-> "", effect |-> "NoSchedule"]

\* A node that the default configuration covers, one that only a configuration
\* with a toleration covers, and one that is never to be covered.
ThreeNodes ==
    [plain |-> [labels |-> Labels("false", "1"), taints |-> {Taint("control-plane")}],
     reserved |-> [labels |-> Labels("false", "2"), taints |-> {Taint("reserved")}],
     excluded |-> [labels |-> Labels("true", "2"), taints |-> {}]]

\* The default configuration; one for the pool of reserved nodes, whose agents
\* detect failures sooner; one that the API server refuses; and two that the
\* webhook does not admit.
FiveSpecs ==
    LET asks(t, r, d) == [tolerations |-> t, requirements |-> r, detection |-> d]
    IN  <<asks({}, {}, 2),
          asks({Toleration("reserved", "Exists", "")}, {Requirement("pool", "Gt", <<"1">>)}, 1),
          asks({Toleration("", "Equal", "NoSchedule")}, {}, 2),
          asks({Toleration("reserved", "Exists", "Never")}, {}, 2),
          asks({}, {Requirement("pool", "Exists", <<"1">>)}, 2)>>
=============================================================================
