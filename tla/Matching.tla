------------------------------ MODULE Matching ------------------------------
(***************************************************************************)
(* Which node an SNR is for.  An SNR of NHC names its node, in an          *)
(* annotation or by its own name; an SNR of a MachineHealthCheck is named  *)
(* after a Machine, which refers to the node.                              *)
(*                                                                         *)
(* An SNR is a record: name; annotation, a node or NoName; owners, a       *)
(* subset of {"NodeHealthCheck", "Machine"}; machine, the name in the      *)
(* owner reference of kind Machine. nodeRef maps a Machine to its node as  *)
(* far as a process can read it, or to NoName.                             *)
(***************************************************************************)

NoName == ""

isOwnedByNHC(s) == "NodeHealthCheck" \in s.owners

isOwnedByMachine(s) == "Machine" \in s.owners

getNodeNameDirect(s) == IF s.annotation # NoName THEN s.annotation ELSE s.name

\* NoName is the error of an unreadable Machine or of one without a node.
getNodeNameFromMachine(s, nodeRef) == nodeRef[s.machine]

\* A mutation: the Machine that owns the SNR is not looked at.
NodeNameByName(s, nodeRef) == getNodeNameDirect(s)

getNodeName(s, nodeRef) ==
    IF isOwnedByMachine(s) /\ ~isOwnedByNHC(s)
    THEN getNodeNameFromMachine(s, nodeRef)
    ELSE getNodeNameDirect(s)

\* An error counts as no match. The name of the node's Machine is NoName unless known.
IsSNRMatching(s, node, machine, nodeRef) ==
    \/ isOwnedByMachine(s) /\ s.machine = machine
    \/ getNodeName(s, nodeRef) = node
=============================================================================
