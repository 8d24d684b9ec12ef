---------------------------- MODULE MCDetection ----------------------------
(* Small instances of Detection. *)
EXTENDS Detection

Scenario(interval, apiTimeout, threshold, dial, request, noPeers, watchdog, workers, peers) ==
    [interval |-> interval, apiTimeout |-> apiTimeout, threshold |-> threshold, dial |-> dial,
     request |-> request, noPeers |-> noPeers, safeTime |-> Unset, watchdog |-> watchdog,
     workers |-> workers, peers |-> peers, controlPlane |-> FALSE]

\* The default configuration, with a watchdog of ten seconds.
Default(workers, peers) == Scenario(15, 5, 3, 5, 7, Unset, 10, workers, peers)

OnControlPlane(t, safeTime) == [t EXCEPT !.controlPlane = TRUE, !.safeTime = safeTime]

\* Agents run on all other workers, on half of them, or on a single one.
Known(workers) == {workers - 1, workers \div 2, 1}

\* Configurations and clusters for which the calculation is sufficient, the default
\* one, slow ones and ones in which the silence of the peers matters among them;
\* and control plane nodes for which a longer time is configured.
CoveredScenarios ==
    {t \in UNION {{Default(w, p) : p \in Known(w)} : w \in {2, 4, 5, 21, 42, 84}}
           \cup UNION {{Scenario(i, 5, n, 5, r, q, Unset, w, p) :
                    i \in {2, 15}, n \in {2, 4}, r \in {7, 9}, q \in {1, 14, 20, 40}, p \in Known(w)} :
                        w \in {2, 5, 8, 34, 55}} :
        Covered(t)}
    \cup {t \in {OnControlPlane(Default(w, w), 400) : w \in {1, 5, 21}} : Configured(t)}

\* The default configuration, and 43 worker nodes.
ManyWorkers == {Default(43, 42)}

\* The default configuration, and 55 worker nodes, twelve of which have no agent.
MissingAgents == {Default(55, 42)}

\* The default configuration but for the timeout of peer requests.
ShortRequests == {Scenario(15, 5, 3, 5, 1, Unset, 10, 21, 20)}

\* The first error is confirmed with the peers at once, and silence is borne long.
PatientAgents == {Scenario(15, 5, 1, 5, 7, 90, 10, 14, 13)}

\* The default configuration, on a control plane node.
ControlPlaneNode == {OnControlPlane(Default(3, 3), Unset)}
=============================================================================
