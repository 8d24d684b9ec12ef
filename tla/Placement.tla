----------------------------- MODULE Placement ------------------------------
(***************************************************************************)
(* Where agents run: the tolerations and the node selector requirements a  *)
(* configuration may ask for, what the webhook admits of them, what        *)
(* becomes of them in the rendered DaemonSet, and which nodes its          *)
(* controller then picks.  Lists whose order does not matter are sets.     *)
(*   toleration   [key, operator, value, effect]       "" where not given  *)
(*   requirement  [key, operator, values]              values a sequence   *)
(*   labels       a function of label keys; taint  [key, value, effect]    *)
(***************************************************************************)
EXTENDS Integers, Sequences

Effects == {"NoSchedule", "PreferNoSchedule", "NoExecute"}

\* The label values that are integers, of those that occur.
Number == [v \in {"1", "2"} |-> IF v = "1" THEN 1 ELSE 2]
Integral == DOMAIN Number

validateToleration(t) ==
    /\ t.operator \in {"", "Equal", "Exists"}
    /\ t.operator = "Exists" => t.value = ""
    /\ t.effect \in {""} \cup Effects

validateNodeSelector(r) ==
    /\ r.key # ""
    /\ \/ r.operator \in {"Exists", "DoesNotExist"} /\ Len(r.values) = 0
       \/ r.operator \in {"In", "NotIn"} /\ Len(r.values) # 0
       \/ r.operator \in {"Gt", "Lt"} /\ Len(r.values) = 1 /\ r.values[1] \in Integral

\* The webhook's word on a configuration; it is asked before every change.
Admitted(spec) ==
    /\ \A t \in spec.tolerations : validateToleration(t)
    /\ \A r \in spec.requirements : validateNodeSelector(r)

\* The tolerations of the DaemonSet's manifest, and those added to it.
ManifestTolerations ==
    {[key |-> k, operator |-> "Exists", value |-> "", effect |-> "NoSchedule"] :
        k \in {"self-node-remediation", "master", "control-plane"}}

updateDsTolerations(spec) == ManifestTolerations \cup spec.tolerations

\* The manifest leaves out nodes that are excluded from remediation.
excludeRemediationLabel == "exclude-from-remediation"
defaultNodeSelector ==
    [key |-> excludeRemediationLabel, operator |-> "NotIn", values |-> <<"true">>]

\* Mutant of updateDsNodeSelectors: requirements replace the manifest's own.
updateDsNodeSelectorsReplaces(spec) ==
    IF spec.requirements = {} THEN {defaultNodeSelector} ELSE spec.requirements

\* The first term of the manifest's affinity is rewritten with its own requirement
\* and the configured ones; without any it stays as it is.
updateDsNodeSelectors(spec) == {defaultNodeSelector} \cup spec.requirements

----------------------------------------------------------------------------
(* The API server and the DaemonSet controller.                            *)

\* A pod template with a toleration of every key and of one value is refused.
Accepted(spec) == \A t \in spec.tolerations : t.key = "" => t.operator = "Exists"

Matches(r, labels) ==
    LET has == r.key \in DOMAIN labels
        listed == has /\ \E i \in DOMAIN r.values : r.values[i] = labels[r.key]
        numeric == has /\ labels[r.key] \in Integral
    IN  CASE r.operator = "In" -> listed
          [] r.operator = "NotIn" -> ~listed
          [] r.operator = "Exists" -> has
          [] r.operator = "DoesNotExist" -> ~has
          [] r.operator = "Gt" -> numeric /\ Number[labels[r.key]] > Number[r.values[1]]
          [] r.operator = "Lt" -> numeric /\ Number[labels[r.key]] < Number[r.values[1]]

Tolerates(t, taint) ==
    /\ t.key \in {"", taint.key}
    /\ t.effect \in {"", taint.effect}
    /\ t.operator = "Exists" \/ t.value = taint.value

\* Is an agent of a DaemonSet for this configuration to run on the node?
Eligible(node, spec) ==
    /\ \A r \in updateDsNodeSelectors(spec) : Matches(r, node.labels)
    /\ \A taint \in node.taints :
          \/ taint.effect = "PreferNoSchedule"
          \/ \E t \in updateDsTolerations(spec) : Tolerates(t, taint)
=============================================================================
