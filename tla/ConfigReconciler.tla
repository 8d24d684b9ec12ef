-------------------------- MODULE ConfigReconciler --------------------------
(***************************************************************************)
(* The controller of SelfNodeRemediationConfig: it stores the certificates *)
(* the agents share, rolls the configuration out as a DaemonSet and a      *)
(* NetworkPolicy, and enables remediations (what that does to one is       *)
(* modelled in Remediation).  It reads through informer caches that lag,   *)
(* its steps fail one by one, the manager restarts and is upgraded and     *)
(* creates what is missing when it starts, the garbage collector removes   *)
(* what a deleted configuration owns, and agents write the NetworkPolicy   *)
(* too.                                                                    *)
(***************************************************************************)
EXTENDS Placement, FiniteSets

CONSTANTS
    Cluster,      \* node |-> its labels and taints
    Requested,    \* specification |-> the tolerations and requirements it asks for,
                  \* and the time its agents take to detect a failure
    DefaultSpec,  \* the specification of the default configuration
    MaxVersions,  \* bound: operator versions
    MaxFaults,    \* bound: calls that fail
    MaxEvents     \* bound: what administrators, DNS and the platform do

\* The generations of the configuration; 0 stands for no configuration.
Specs == DOMAIN Requested
Nodes == DOMAIN Cluster
Absent == 0

\* The nodes that the agents of a specification run on.
Covered ==
    [s \in Specs \cup {Absent} |->
        {n \in Nodes : s # Absent /\ Eligible(Cluster[n], Requested[s])}]

ASSUME ConfigAssumption ==
    /\ Specs \subseteq Nat \ {Absent}
    /\ \A s \in Specs : Requested[s].detection \in Nat
    /\ DefaultSpec \in Specs /\ Admitted(Requested[DefaultSpec])
    /\ MaxVersions \in Nat \ {0}
    /\ {MaxFaults, MaxEvents} \subseteq Nat

VARIABLES
    config,        \* the configuration: its generation and its identity
    configSeen,    \* the same in the manager's cache
    ds, dsSeen,    \* the agents' DaemonSet, and in the manager's cache
    dsEvent,       \* the cache has yet to see events of the DaemonSet
    np,            \* the agents' NetworkPolicy
    secret,        \* the certificates, numbered; 0: none yet
    secretSeen,    \* the manager's cache holds the secret
    queued,        \* a reconcile request waits
    rec,           \* the reconcile in progress
    starting,      \* the manager has yet to see to the default configuration after its start
    version,       \* the version of the running operator
    calculator,    \* the configuration the reboot durations are calculated with
    resolver,      \* the manager's last resolution of the endpoint's name
    address,       \* what the endpoint's name resolves to
    agents,        \* node |-> the configuration its agent was started with
    faults, events

cluster == <<config, ds, dsEvent, np, secret, address, agents>>
caches == <<configSeen, dsSeen, secretSeen>>
memory == <<rec, version, calculator, resolver, starting>>
vars == <<cluster, caches, memory, queued, faults, events>>

NoAddress == "none"
Addresses == {"a1", "a2"}
NoConfig == [spec |-> Absent, uid |-> 0]
NoDS == [spec |-> Absent, version |-> 0, owner |-> 0]
NoNP == [cidrs |-> NoAddress, owner |-> 0]
Idle == [pc |-> "idle", config |-> NoConfig, cidrs |-> NoAddress]

Init ==
    /\ config = NoConfig /\ configSeen = NoConfig
    /\ ds = NoDS /\ dsSeen = NoDS /\ dsEvent = FALSE
    /\ np = NoNP
    /\ secret = 0 /\ secretSeen = FALSE
    /\ queued = FALSE
    /\ rec = Idle
    /\ starting = TRUE
    /\ version = 1
    /\ calculator = Absent
    /\ resolver = NoAddress
    /\ address = "a1"
    /\ agents = [n \in Nodes |-> Absent]
    /\ faults = 0 /\ events = 0

Fault == faults < MaxFaults /\ faults' = faults + 1
Event == events < MaxEvents /\ events' = events + 1

----------------------------------------------------------------------------
(* Reconcile, one step per call to the API server.                         *)

\* A configuration that is gone, as far as the cache knows, is left alone.
Reconcile ==
    /\ queued /\ rec.pc = "idle"
    /\ queued' = FALSE
    /\ IF configSeen = NoConfig
       THEN UNCHANGED <<rec, calculator>>
       ELSE /\ calculator' = configSeen.spec
            /\ rec' = [Idle EXCEPT !.pc = "certs", !.config = configSeen]
    /\ UNCHANGED <<cluster, caches, version, resolver, starting, faults, events>>

\* An error ends the reconcile and queues it again; so does a conflict, after a second.
Fails ==
    /\ rec.pc # "idle"
    /\ Fault
    /\ rec' = Idle
    /\ queued' = TRUE
    /\ UNCHANGED <<cluster, caches, version, calculator, resolver, starting, events>>

\* Mutant of syncCerts: certificates that are not in the cache are replaced.
syncCertsReplaces ==
    /\ rec.pc = "certs"
    /\ secret' = IF secretSeen THEN secret ELSE secret + 1
    /\ rec' = [rec EXCEPT !.pc = "render"]
    /\ UNCHANGED <<config, ds, dsEvent, np, address, agents, caches, version, calculator,
                   resolver, starting, queued, faults, events>>

\* GetCerts reads the cache.  StoreCerts is content with certificates that exist.
syncCerts ==
    /\ rec.pc = "certs"
    /\ secret' = IF secretSeen \/ secret # 0 THEN secret ELSE 1
    /\ rec' = [rec EXCEPT !.pc = "render"]
    /\ UNCHANGED <<config, ds, dsEvent, np, address, agents, caches, version, calculator,
                   resolver, starting, queued, faults, events>>

\* Rendering; a name that does not resolve (a fault) is taken from the last time.
Resolve ==
    /\ rec.pc = "render"
    /\ \/ resolver' = address /\ UNCHANGED faults
       \/ Fault /\ UNCHANGED resolver
    /\ rec' = [rec EXCEPT !.pc = "removeOld", !.cidrs = resolver']
    /\ UNCHANGED <<cluster, caches, version, calculator, starting, queued, events>>

\* Is the cached DaemonSet one that another version of the operator made?
IsOld == dsSeen # NoDS /\ dsSeen.version # version

\* A DaemonSet that is gone by now makes the deletion fail.
removeOldDsOnOperatorUpdate ==
    /\ rec.pc = "removeOld"
    /\ IF IsOld /\ ds = NoDS
       THEN rec' = Idle /\ queued' = TRUE /\ UNCHANGED ds
       ELSE /\ rec' = [rec EXCEPT !.pc = "applyDS"]
            /\ ds' = IF IsOld THEN NoDS ELSE ds
            /\ UNCHANGED queued
    /\ dsEvent' = (dsEvent \/ ds' # ds)
    /\ UNCHANGED <<config, np, secret, address, agents, caches, version, calculator, resolver,
                   starting, faults, events>>

\* Mutant of Owner: the applied objects get no controller reference.
OwnerMissing == 0

\* The identity of the configuration the applied objects are controlled by.
Owner == rec.config.uid

\* The API server refuses the DaemonSet of a configuration that the webhook admitted.
applyDSRefused ==
    /\ rec.pc = "applyDS"
    /\ ~Accepted(Requested[rec.config.spec])
    /\ rec' = Idle
    /\ queued' = TRUE
    /\ UNCHANGED <<cluster, caches, version, calculator, resolver, starting, faults, events>>

\* ApplyObject reads the API server itself, so it creates or replaces as needed.
applyDS ==
    /\ rec.pc = "applyDS"
    /\ Accepted(Requested[rec.config.spec])
    /\ ds' = [spec |-> rec.config.spec, version |-> version, owner |-> Owner]
    /\ dsEvent' = (dsEvent \/ ds' # ds)
    /\ rec' = [rec EXCEPT !.pc = "applyNP"]
    /\ UNCHANGED <<config, np, secret, address, agents, caches, version, calculator, resolver,
                   starting, queued, faults, events>>

\* A NetworkPolicy of a new generation is an event for the controller itself.
applyNP ==
    /\ rec.pc = "applyNP"
    /\ np' = [cidrs |-> rec.cidrs, owner |-> Owner]
    /\ queued' = (queued \/ np = NoNP \/ np'.cidrs # np.cidrs)
    /\ rec' = [rec EXCEPT !.pc = "enable"]
    /\ UNCHANGED <<config, ds, dsEvent, secret, address, agents, caches, version, calculator,
                   resolver, starting, faults, events>>

\* The last call of a reconcile; what it does to an SNR is an action of Remediation.
setCRsEnabledStatus ==
    /\ rec.pc = "enable"
    /\ rec' = Idle
    /\ UNCHANGED <<cluster, caches, version, calculator, resolver, starting, queued, faults,
                   events>>

----------------------------------------------------------------------------
(* The manager's caches and process.                                       *)

SeeConfig ==
    /\ configSeen # config
    /\ configSeen' = config
    /\ queued' = TRUE
    /\ UNCHANGED <<cluster, dsSeen, secretSeen, memory, faults, events>>

\* Mutant of SeeDS: deletions of the DaemonSet are filtered out.
SeeDSNotDeleted ==
    /\ dsEvent
    /\ dsSeen' = ds /\ dsEvent' = FALSE
    /\ queued' = (queued \/ ds # NoDS)
    /\ UNCHANGED <<config, ds, np, secret, address, agents, configSeen, secretSeen, memory,
                   faults, events>>

\* Creations, deletions and new generations of the DaemonSet are reconciled.
SeeDS ==
    /\ dsEvent
    /\ dsSeen' = ds /\ dsEvent' = FALSE
    /\ queued' = (queued \/ NoDS \in {ds, dsSeen} \/ [ds EXCEPT !.owner = dsSeen.owner] # dsSeen)
    /\ UNCHANGED <<config, ds, np, secret, address, agents, configSeen, secretSeen, memory,
                   faults, events>>

SeeSecret ==
    /\ ~secretSeen /\ secret # 0
    /\ secretSeen' = TRUE
    /\ UNCHANGED <<cluster, configSeen, dsSeen, memory, queued, faults, events>>

\* A new process, of the same or of the next version; its caches are read anew
\* and everything they hold is queued.
NewProcess ==
    /\ rec' = Idle /\ calculator' = Absent /\ resolver' = NoAddress
    /\ starting' = TRUE
    /\ configSeen' = config /\ dsSeen' = ds /\ secretSeen' = (secret # 0)
    /\ dsEvent' = FALSE
    /\ queued' = TRUE
    /\ UNCHANGED <<config, ds, np, secret, address, agents>>

Restart ==
    /\ Event
    /\ version' \in {version, version + 1} \cap 1 .. MaxVersions
    /\ NewProcess
    /\ UNCHANGED faults

\* The process ends when the default configuration cannot be created.
StartFails ==
    /\ starting
    /\ Fault
    /\ NewProcess
    /\ UNCHANGED <<version, events>>

\* A configuration is created with an identity of its own.
Created(spec) == [spec |-> spec, uid |-> events + 1]

\* The default configuration is created unless there is one, whatever it asks for.
newConfigIfNotExist ==
    /\ starting
    /\ starting' = FALSE
    /\ config' = IF config = NoConfig THEN Created(DefaultSpec) ELSE config
    /\ UNCHANGED <<ds, dsEvent, np, secret, address, agents, caches, rec, version,
                   calculator, resolver, queued, faults, events>>

----------------------------------------------------------------------------
(* The platform, the agents and the administrators.                        *)

\* The garbage collector deletes what a configuration that is gone owned.
CollectDS ==
    /\ ds.owner # 0 /\ ds.owner # config.uid
    /\ ds' = NoDS /\ dsEvent' = TRUE
    /\ UNCHANGED <<config, np, secret, address, agents, caches, memory, queued,
                   faults, events>>

CollectNP ==
    /\ np.owner # 0 /\ np.owner # config.uid
    /\ np' = NoNP
    /\ queued' = TRUE
    /\ UNCHANGED <<config, ds, dsEvent, secret, address, agents, caches, memory, faults, events>>

\* What runs on a node when the DaemonSet controller has got to it.
Scheduled(n) == IF n \in Covered[ds.spec] THEN ds.spec ELSE Absent

\* The agent of a node is replaced by one of the DaemonSet's current form.
RollOut(n) ==
    /\ agents[n] # Scheduled(n)
    /\ agents' = [agents EXCEPT ![n] = Scheduled(n)]
    /\ UNCHANGED <<config, ds, dsEvent, np, secret, address, caches, memory, queued, faults,
                   events>>

\* The diagnostics of an agent on a control plane node resolve the name
\* themselves and correct the NetworkPolicy.
ensureEndpointNetworkPolicyUpToDate ==
    /\ \E n \in Nodes : agents[n] # Absent
    /\ np # NoNP /\ np.cidrs # address
    /\ np' = [np EXCEPT !.cidrs = address]
    /\ queued' = TRUE
    /\ UNCHANGED <<config, ds, dsEvent, secret, address, agents, caches, memory, faults, events>>

\* The configuration is created or updated, if the webhook agrees.
ApplyConfig ==
    /\ Event
    /\ \E s \in Specs \ {config.spec} :
          /\ Admitted(Requested[s])
          /\ config' = IF config = NoConfig THEN Created(s) ELSE [config EXCEPT !.spec = s]
    /\ UNCHANGED <<ds, dsEvent, np, secret, address, agents, caches, memory, queued, faults>>

DeleteConfig ==
    /\ Event
    /\ config # NoConfig
    /\ config' = NoConfig
    /\ UNCHANGED <<ds, dsEvent, np, secret, address, agents, caches, memory, queued, faults>>

DeleteDS ==
    /\ Event
    /\ ds # NoDS
    /\ ds' = NoDS /\ dsEvent' = TRUE
    /\ UNCHANGED <<config, np, secret, address, agents, caches, memory, queued, faults>>

ChangeAddress ==
    /\ Event
    /\ address' \in Addresses \ {address}
    /\ UNCHANGED <<config, ds, dsEvent, np, secret, agents, caches, memory, queued, faults>>

Manager ==
    \/ Reconcile \/ syncCerts \/ Resolve \/ removeOldDsOnOperatorUpdate
    \/ applyDS \/ applyDSRefused \/ applyNP \/ setCRsEnabledStatus

Informers == SeeConfig \/ SeeDS \/ SeeSecret

Others ==
    \/ CollectDS \/ CollectNP
    \/ \E n \in Nodes : RollOut(n)
    \/ ensureEndpointNetworkPolicyUpToDate
    \/ ApplyConfig \/ DeleteConfig \/ DeleteDS \/ ChangeAddress

Next ==
    \/ Manager \/ Fails \/ Informers
    \/ newConfigIfNotExist \/ StartFails \/ Restart
    \/ Others

Spec == Init /\ [][Next]_vars

\* The controller's worker and initializer get on, informers catch up, and the
\* controllers of the platform get to every object and every node.  Nothing is
\* assumed of what agents and people do.
Fairness ==
    /\ WF_vars(Manager)
    /\ WF_vars(newConfigIfNotExist)
    /\ \A n \in Nodes : WF_vars(RollOut(n))
    /\ WF_vars(SeeConfig) /\ WF_vars(SeeDS) /\ WF_vars(SeeSecret)
    /\ WF_vars(CollectDS) /\ WF_vars(CollectNP)

FairSpec == Spec /\ Fairness

----------------------------------------------------------------------------

\* What there may be in the cluster and in the manager.
Configs == [spec : Specs \cup {Absent}, uid : 0 .. MaxEvents + 1]
DaemonSets == [spec : Specs \cup {Absent}, version : 0 .. MaxVersions, owner : 0 .. MaxEvents + 1]
NetworkPolicies == [cidrs : Addresses \cup {NoAddress}, owner : 0 .. MaxEvents + 1]
Reconciles ==
    [pc : {"idle", "certs", "render", "removeOld", "applyDS", "applyNP", "enable"},
     config : Configs, cidrs : Addresses \cup {NoAddress}]

\* Types; there is only ever one set of certificates.
TypeOK ==
    /\ config \in Configs /\ configSeen \in Configs
    /\ ds \in DaemonSets /\ dsSeen \in DaemonSets
    /\ np \in NetworkPolicies
    /\ secret \in 0 .. 1
    /\ rec \in Reconciles
    /\ version \in 1 .. MaxVersions
    /\ calculator \in Specs \cup {Absent}
    /\ resolver \in Addresses \cup {NoAddress} /\ address \in Addresses
    /\ agents \in [Nodes -> Specs \cup {Absent}]
    /\ queued \in BOOLEAN /\ secretSeen \in BOOLEAN
    /\ dsEvent \in BOOLEAN /\ starting \in BOOLEAN
    /\ faults \in 0 .. MaxFaults /\ events \in 0 .. MaxEvents

\* Everything is as the configuration says.
RolledOut ==
    /\ ds = [spec |-> config.spec, version |-> version, owner |-> config.uid]
    /\ np.owner = config.uid
    /\ secret # 0
    /\ calculator = config.spec
    /\ \A n \in Nodes : agents[n] = IF n \in Covered[config.spec] THEN config.spec ELSE Absent

Configured == config # NoConfig /\ Accepted(Requested[config.spec])
Unconfigured == config = NoConfig

\* A configuration that stays, and that the API server does not object to, is
\* rolled out in the end: the DaemonSet is of its last generation and of the
\* running operator, the manager calculates with it and so does every agent, agents
\* run where they should, whatever failed, restarted or was deleted
\* before (Reconcile and the watches of SetupWithManager).
ConfigIsRolledOut == <>[]Configured => <>[]RolledOut

\* Nothing of the operator stays on the nodes when the configuration is deleted
\* for good, even when that happens in the middle of a reconcile: what is applied
\* late has an owner that is gone (syncK8sResource's controller reference).
NoLeftovers == <>[]Unconfigured => <>[](ds = NoDS /\ np = NoNP)

\* What is there while no configuration is, has an owner that is gone: the garbage collector
\* takes it (syncK8sResource's controller reference).
Collectable ==
    Unconfigured =>
        /\ ds # NoDS => ds.owner # 0 /\ ds.owner # config.uid
        /\ np # NoNP => np.owner # 0 /\ np.owner # config.uid

\* A node that is excluded from remediation never runs an agent, whatever nodes a
\* configuration selects (updateDsNodeSelectors).
ExcludedNodeHasNoAgent ==
    \A n \in Nodes :
       /\ excludeRemediationLabel \in DOMAIN Cluster[n].labels
       /\ Cluster[n].labels[excludeRemediationLabel] = "true"
       => agents[n] = Absent

\* The time after which a node is taken to have rebooted covers the time that
\* each agent, as it runs now, takes to find out that it has to (SetConfig).
RebootDurationCoversAgents ==
    \A n \in Nodes : calculator # Absent /\ agents[n] # Absent =>
       Requested[agents[n]].detection <= Requested[calculator].detection

\* A DaemonSet of the running version is never deleted as an old one
\* (removeOldDsOnOperatorUpdate).
UpToDateDaemonSetIsKept ==
    [][rec.pc = "removeOld" /\ rec'.pc = "applyDS" /\ ds # NoDS /\ ds.version = version
         => ds' = ds]_vars

\* An egress exception that lets the agents reach the endpoint stays in place as
\* long as the endpoint keeps its address: a resolution that fails for a while
\* does not wipe it out.
EgressExceptionSurvives ==
    [][np # NoNP /\ np' # NoNP /\ np.cidrs = address /\ address' = address
         => np'.cidrs = np.cidrs]_vars
=============================================================================
