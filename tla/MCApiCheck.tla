----------------------------- MODULE MCApiCheck -----------------------------
(* Instances of ApiCheck for TLC. *)
EXTENDS ApiCheck

MCNodeRef == ("m1" :> "n1") @@ ("n1" :> "n2")

OfNHC == [name |-> "r1", annotation |-> "n1", owners |-> {"NodeHealthCheck"}, machine |-> NoName]
OfMachine == [name |-> "m1", annotation |-> NoName, owners |-> {"Machine"}, machine |-> "m1"]

\* An SNR for n2, whose Machine has the name of the node n1.
ForAnother == [name |-> "n1", annotation |-> NoName, owners |-> {"Machine"}, machine |-> "n1"]

\* A worker that does not know its Machine; its peers come in two batches, of three and
\* of one.
Worker ==
    [workerPeers |-> <<"w1", "w2", "w3", "w4">>, controlPlanePeers |-> {}, isControlPlane |-> FALSE,
     minPeers |-> 0, maxChanges |-> 5,
     ownSNR |-> OfMachine, otherSNRs |-> {ForAnother}, machineName |-> NoName]

\* A control plane node that knows its Machine,
ControlPlane ==
    [workerPeers |-> <<"w1", "w2">>, controlPlanePeers |-> {"c1", "c2"}, isControlPlane |-> TRUE,
     minPeers |-> 1, maxChanges |-> 3,
     ownSNR |-> OfMachine, otherSNRs |-> {}, machineName |-> "m1"]

\* and a worker with an SNR of NHC.
NHCWorker ==
    [Worker EXCEPT !.workerPeers = <<"w1", "w2">>, !.minPeers = 1, !.maxChanges = 5, !.ownSNR = OfNHC]

MCSetups == [worker |-> Worker, controlPlane |-> ControlPlane, nhc |-> NHCWorker]
=============================================================================
