---------------------------- MODULE ConfigProofs ----------------------------
(***************************************************************************)
(* What holds of the configuration's roll-out for every cluster, every set *)
(* of specifications and any number of faults, versions and events.        *)
(***************************************************************************)
EXTENDS ConfigReconciler, TLAPS

\* A configuration has an identity as long as there is one.
Identified(c) == c = NoConfig \/ (c.spec \in Specs /\ c.uid # 0)

\* A reconcile past its Get has a configuration to apply, and what is applied is owned.
OwnedInv ==
    /\ Identified(config) /\ Identified(configSeen)
    /\ rec.pc # "idle" => rec.config.spec \in Specs /\ rec.config.uid # 0
    /\ ds = NoDS \/ ds.owner # 0
    /\ np = NoNP \/ np.owner # 0

\* An agent runs where the configuration it was started with wants it.
PlacedInv == \A n \in Nodes : agents[n] = Absent \/ n \in Covered[agents[n]]

CInv == TypeOK /\ OwnedInv /\ PlacedInv

-----------------------------------------------------------------------------
(* The records. *)

\* What stands for an absent object is of its type.
LEMMA Nothing ==
    /\ NoConfig \in Configs /\ NoConfig.uid = 0 /\ Identified(NoConfig)
    /\ NoDS \in DaemonSets /\ NoDS.owner = 0
    /\ NoNP \in NetworkPolicies /\ NoNP.owner = 0
    /\ Idle \in Reconciles /\ Idle.pc = "idle"
    /\ Absent \in Specs \cup {Absent}
<1>1. 0 \in 0 .. MaxEvents + 1 /\ 0 \in 0 .. MaxVersions
  BY ConfigAssumption
<1>2. Identified(NoConfig)
  BY DEF Identified
<1> QED BY <1>1, <1>2
        DEF NoConfig, NoDS, NoNP, Idle, Configs, DaemonSets, NetworkPolicies, Reconciles

\* A reconcile begins.
LEMMA Begun ==
    ASSUME NEW c \in Configs, NEW r, r = [Idle EXCEPT !.pc = "certs", !.config = c]
    PROVE  r \in Reconciles /\ r.config = c
BY Nothing DEF Idle, Reconciles

\* A reconcile goes on to its next call.
LEMMA Moved ==
    ASSUME NEW r \in Reconciles, NEW q,
           NEW pc \in {"render", "removeOld", "applyDS", "applyNP", "enable"},
           q = [r EXCEPT !.pc = pc]
    PROVE  q \in Reconciles /\ q.config = r.config
BY DEF Reconciles

\* What a reconcile applies.
LEMMA Applied ==
    ASSUME NEW r \in Reconciles, r.config.uid # 0, r.config.spec \in Specs,
           NEW v \in 1 .. MaxVersions
    PROVE  /\ [spec |-> r.config.spec, version |-> v, owner |-> r.config.uid] \in DaemonSets
           /\ [cidrs |-> r.cidrs, owner |-> r.config.uid] \in NetworkPolicies
<1>1. v \in 0 .. MaxVersions
  BY ConfigAssumption
<1> QED BY <1>1 DEF Reconciles, Configs, DaemonSets, NetworkPolicies

\* A configuration that is created is identified.
LEMMA CreatedFacts ==
    ASSUME NEW c \in Specs, events \in 0 .. MaxEvents
    PROVE  Created(c) \in Configs /\ Identified(Created(c))
<1>1. events + 1 \in 0 .. MaxEvents + 1 /\ events + 1 # 0
  BY ConfigAssumption
<1> QED BY <1>1 DEF Created, Configs, Identified

\* The bounds on faults and events are kept.
LEMMA Counts ==
    /\ faults \in 0 .. MaxFaults /\ Fault => faults' \in 0 .. MaxFaults
    /\ events \in 0 .. MaxEvents /\ Event => events' \in 0 .. MaxEvents
BY ConfigAssumption DEF Fault, Event

LEMMA InitHolds == Init => CInv
<1> SUFFICES ASSUME Init PROVE CInv
  OBVIOUS
<1>1. 0 \in 0 .. 1 /\ 1 \in 1 .. MaxVersions /\ 0 \in 0 .. MaxFaults /\ 0 \in 0 .. MaxEvents
  BY ConfigAssumption
<1>2. TypeOK
  BY <1>1, Nothing DEF Init, TypeOK, Addresses
<1>3. OwnedInv
  BY Nothing DEF Init, OwnedInv
<1>4. PlacedInv
  BY DEF Init, PlacedInv
<1> QED BY <1>2, <1>3, <1>4 DEF CInv

-----------------------------------------------------------------------------
(* The steps of a reconcile. *)

LEMMA ReconcileStep ==
    ASSUME TypeOK, OwnedInv, Reconcile
    PROVE  TypeOK' /\ OwnedInv'
<1>1. configSeen # NoConfig => configSeen.spec \in Specs /\ configSeen.uid # 0
  BY DEF OwnedInv, Identified
<1>2. rec' # rec => rec' \in Reconciles /\ rec'.config = configSeen
  BY Begun DEF Reconcile, TypeOK
<1>3. calculator' \in Specs \cup {Absent}
  BY <1>1 DEF Reconcile, TypeOK
<1>4. rec' # rec => configSeen # NoConfig
  BY DEF Reconcile
<1>5. TypeOK'
  BY <1>2, <1>3 DEF Reconcile, TypeOK, cluster, caches, memory
<1>6. OwnedInv'
  BY <1>1, <1>2, <1>4 DEF Reconcile, OwnedInv, cluster, caches, memory
<1> QED BY <1>5, <1>6

LEMMA FailsStep ==
    ASSUME TypeOK, OwnedInv, Fails
    PROVE  TypeOK' /\ OwnedInv'
<1>1. TypeOK'
  BY Nothing, Counts DEF Fails, TypeOK, cluster, caches, memory
<1>2. OwnedInv'
  BY Nothing DEF Fails, OwnedInv, cluster, caches, memory
<1> QED BY <1>1, <1>2

LEMMA syncCertsStep ==
    ASSUME TypeOK, OwnedInv, syncCerts
    PROVE  TypeOK' /\ OwnedInv'
<1>1. rec' \in Reconciles /\ rec'.config = rec.config
  BY Moved DEF syncCerts, TypeOK
<1>2. secret' \in 0 .. 1
  BY DEF syncCerts, TypeOK
<1>3. TypeOK'
  BY <1>1, <1>2 DEF syncCerts, TypeOK, cluster, caches, memory
<1>4. OwnedInv'
  BY <1>1 DEF syncCerts, OwnedInv, cluster, caches, memory
<1> QED BY <1>3, <1>4

LEMMA ResolveStep ==
    ASSUME TypeOK, OwnedInv, Resolve
    PROVE  TypeOK' /\ OwnedInv'
<1>1. resolver' \in Addresses \cup {NoAddress} /\ faults' \in 0 .. MaxFaults
  BY Counts DEF Resolve, TypeOK
<1>2. rec' \in Reconciles /\ rec'.config = rec.config
  BY <1>1 DEF Resolve, TypeOK, Reconciles
<1>3. TypeOK'
  BY <1>1, <1>2 DEF Resolve, TypeOK, cluster, caches, memory
<1>4. OwnedInv'
  BY <1>2 DEF Resolve, OwnedInv, cluster, caches, memory
<1> QED BY <1>3, <1>4

LEMMA removeOldDsOnOperatorUpdateStep ==
    ASSUME TypeOK, OwnedInv, removeOldDsOnOperatorUpdate
    PROVE  TypeOK' /\ OwnedInv'
<1>0. rec' = Idle \/ rec' = [rec EXCEPT !.pc = "applyDS"]
  BY DEF removeOldDsOnOperatorUpdate
<1>1. rec' = Idle \/ (rec' \in Reconciles /\ rec'.config = rec.config)
  BY <1>0, Moved DEF TypeOK
<1>2. ds' \in DaemonSets /\ (ds' = NoDS \/ ds' = ds)
  BY Nothing DEF removeOldDsOnOperatorUpdate, TypeOK
<1>3. queued' \in BOOLEAN /\ dsEvent' \in BOOLEAN
  BY DEF removeOldDsOnOperatorUpdate, TypeOK
<1>4. TypeOK'
  BY <1>1, <1>2, <1>3, Nothing DEF removeOldDsOnOperatorUpdate, TypeOK, cluster, caches, memory
<1>5. OwnedInv'
  BY <1>1, <1>2, Nothing DEF removeOldDsOnOperatorUpdate, OwnedInv, cluster, caches, memory
<1> QED BY <1>4, <1>5

LEMMA applyDSRefusedStep ==
    ASSUME TypeOK, OwnedInv, applyDSRefused
    PROVE  TypeOK' /\ OwnedInv'
<1>1. TypeOK'
  BY Nothing DEF applyDSRefused, TypeOK, cluster, caches, memory
<1>2. OwnedInv'
  BY Nothing DEF applyDSRefused, OwnedInv, cluster, caches, memory
<1> QED BY <1>1, <1>2

LEMMA applyDSStep ==
    ASSUME TypeOK, OwnedInv, applyDS
    PROVE  TypeOK' /\ OwnedInv'
<1>1. rec.config.spec \in Specs /\ rec.config.uid # 0
  BY DEF OwnedInv, applyDS
<1>2. ds' = [spec |-> rec.config.spec, version |-> version, owner |-> rec.config.uid]
  BY DEF applyDS, Owner
<1>3. ds' \in DaemonSets /\ ds'.owner # 0
  BY <1>1, <1>2, Applied DEF TypeOK
<1>4. rec' \in Reconciles /\ rec'.config = rec.config
  BY Moved DEF applyDS, TypeOK
<1>5. dsEvent' \in BOOLEAN
  BY DEF applyDS, TypeOK
<1>6. TypeOK'
  BY <1>3, <1>4, <1>5 DEF applyDS, TypeOK, cluster, caches, memory
<1>7. OwnedInv'
  BY <1>1, <1>3, <1>4 DEF applyDS, OwnedInv, cluster, caches, memory
<1> QED BY <1>6, <1>7

LEMMA applyNPStep ==
    ASSUME TypeOK, OwnedInv, applyNP
    PROVE  TypeOK' /\ OwnedInv'
<1>1. rec.config.spec \in Specs /\ rec.config.uid # 0
  BY DEF OwnedInv, applyNP
<1>2. np' = [cidrs |-> rec.cidrs, owner |-> rec.config.uid]
  BY DEF applyNP, Owner
<1>3. np' \in NetworkPolicies /\ np'.owner # 0
  BY <1>1, <1>2, Applied DEF TypeOK
<1>4. rec' \in Reconciles /\ rec'.config = rec.config
  BY Moved DEF applyNP, TypeOK
<1>5. queued' \in BOOLEAN
  BY DEF applyNP, TypeOK
<1>6. TypeOK'
  BY <1>3, <1>4, <1>5 DEF applyNP, TypeOK, cluster, caches, memory
<1>7. OwnedInv'
  BY <1>1, <1>3, <1>4 DEF applyNP, OwnedInv, cluster, caches, memory
<1> QED BY <1>6, <1>7

LEMMA setCRsEnabledStatusStep ==
    ASSUME TypeOK, OwnedInv, setCRsEnabledStatus
    PROVE  TypeOK' /\ OwnedInv'
<1>1. TypeOK'
  BY Nothing DEF setCRsEnabledStatus, TypeOK, cluster, caches, memory
<1>2. OwnedInv'
  BY Nothing DEF setCRsEnabledStatus, OwnedInv, cluster, caches, memory
<1> QED BY <1>1, <1>2

-----------------------------------------------------------------------------
(* The caches and the process. *)

LEMMA SeeConfigStep ==
    ASSUME TypeOK, OwnedInv, SeeConfig
    PROVE  TypeOK' /\ OwnedInv'
<1>1. TypeOK'
  BY DEF SeeConfig, TypeOK, cluster, caches, memory
<1>2. OwnedInv'
  BY DEF SeeConfig, OwnedInv, cluster, caches, memory
<1> QED BY <1>1, <1>2

LEMMA SeeDSStep ==
    ASSUME TypeOK, OwnedInv, SeeDS
    PROVE  TypeOK' /\ OwnedInv'
<1>1. queued' \in BOOLEAN
  BY DEF SeeDS, TypeOK
<1>2. TypeOK'
  BY <1>1 DEF SeeDS, TypeOK, cluster, caches, memory
<1>3. OwnedInv'
  BY DEF SeeDS, OwnedInv, cluster, caches, memory
<1> QED BY <1>2, <1>3

LEMMA SeeSecretStep ==
    ASSUME TypeOK, OwnedInv, SeeSecret
    PROVE  TypeOK' /\ OwnedInv'
<1>1. TypeOK'
  BY DEF SeeSecret, TypeOK, cluster, caches, memory
<1>2. OwnedInv'
  BY DEF SeeSecret, OwnedInv, cluster, caches, memory
<1> QED BY <1>1, <1>2

\* A new process starts from what the API server has.
LEMMA NewProcessStep ==
    ASSUME TypeOK, OwnedInv, NewProcess, version' \in 1 .. MaxVersions,
           faults' \in 0 .. MaxFaults, events' \in 0 .. MaxEvents
    PROVE  TypeOK' /\ OwnedInv'
<1>1. secretSeen' \in BOOLEAN
  BY DEF NewProcess
<1>2. TypeOK'
  BY <1>1, Nothing DEF NewProcess, TypeOK
<1>3. OwnedInv'
  BY Nothing DEF NewProcess, OwnedInv
<1> QED BY <1>2, <1>3

LEMMA RestartStep ==
    ASSUME TypeOK, OwnedInv, Restart
    PROVE  TypeOK' /\ OwnedInv'
<1>1. version' \in 1 .. MaxVersions /\ faults' \in 0 .. MaxFaults /\ events' \in 0 .. MaxEvents
  BY Counts DEF Restart, TypeOK
<1> QED BY <1>1, NewProcessStep DEF Restart

LEMMA StartFailsStep ==
    ASSUME TypeOK, OwnedInv, StartFails
    PROVE  TypeOK' /\ OwnedInv'
<1>1. version' \in 1 .. MaxVersions /\ faults' \in 0 .. MaxFaults /\ events' \in 0 .. MaxEvents
  BY Counts DEF StartFails, TypeOK
<1> QED BY <1>1, NewProcessStep DEF StartFails

LEMMA newConfigIfNotExistStep ==
    ASSUME TypeOK, OwnedInv, newConfigIfNotExist
    PROVE  TypeOK' /\ OwnedInv'
<1>1. config' \in Configs /\ Identified(config')
  BY CreatedFacts, ConfigAssumption DEF newConfigIfNotExist, TypeOK, OwnedInv
<1>2. TypeOK'
  BY <1>1 DEF newConfigIfNotExist, TypeOK, cluster, caches, memory
<1>3. OwnedInv'
  BY <1>1 DEF newConfigIfNotExist, Identified, OwnedInv, cluster, caches, memory
<1> QED BY <1>2, <1>3

-----------------------------------------------------------------------------
(* The platform, the agents and the administrators. *)

LEMMA CollectDSStep ==
    ASSUME TypeOK, OwnedInv, CollectDS
    PROVE  TypeOK' /\ OwnedInv'
<1>1. TypeOK'
  BY Nothing DEF CollectDS, TypeOK, cluster, caches, memory
<1>2. OwnedInv'
  BY DEF CollectDS, OwnedInv, cluster, caches, memory
<1> QED BY <1>1, <1>2

LEMMA CollectNPStep ==
    ASSUME TypeOK, OwnedInv, CollectNP
    PROVE  TypeOK' /\ OwnedInv'
<1>1. TypeOK'
  BY Nothing DEF CollectNP, TypeOK, cluster, caches, memory
<1>2. OwnedInv'
  BY DEF CollectNP, OwnedInv, cluster, caches, memory
<1> QED BY <1>1, <1>2

LEMMA ensureEndpointNetworkPolicyUpToDateStep ==
    ASSUME TypeOK, OwnedInv, ensureEndpointNetworkPolicyUpToDate
    PROVE  TypeOK' /\ OwnedInv'
<1>1. np' \in NetworkPolicies /\ np'.owner = np.owner
  BY DEF ensureEndpointNetworkPolicyUpToDate, TypeOK, NetworkPolicies
<1>2. TypeOK'
  BY <1>1 DEF ensureEndpointNetworkPolicyUpToDate, TypeOK, cluster, caches, memory
<1>3. OwnedInv'
  BY <1>1 DEF ensureEndpointNetworkPolicyUpToDate, OwnedInv, cluster, caches, memory
<1> QED BY <1>2, <1>3

LEMMA ApplyConfigStep ==
    ASSUME TypeOK, OwnedInv, ApplyConfig
    PROVE  TypeOK' /\ OwnedInv'
<1>1. PICK c \in Specs : config' = IF config = NoConfig THEN Created(c) ELSE [config EXCEPT !.spec = c]
  BY DEF ApplyConfig
<1>2. config # NoConfig => config' \in Configs /\ config'.spec = c /\ config'.uid = config.uid
  BY <1>1 DEF TypeOK, Configs
<1>3. config' \in Configs /\ Identified(config')
  BY <1>1, <1>2, CreatedFacts DEF TypeOK, OwnedInv, Identified
<1>4. TypeOK'
  BY <1>3, Counts DEF ApplyConfig, TypeOK, cluster, caches, memory
<1>5. OwnedInv'
  BY <1>3 DEF ApplyConfig, Identified, OwnedInv, cluster, caches, memory
<1> QED BY <1>4, <1>5

LEMMA DeleteConfigStep ==
    ASSUME TypeOK, OwnedInv, DeleteConfig
    PROVE  TypeOK' /\ OwnedInv'
<1>1. TypeOK'
  BY Nothing, Counts DEF DeleteConfig, TypeOK, cluster, caches, memory
<1>2. OwnedInv'
  BY Nothing DEF DeleteConfig, OwnedInv, cluster, caches, memory
<1> QED BY <1>1, <1>2

LEMMA DeleteDSStep ==
    ASSUME TypeOK, OwnedInv, DeleteDS
    PROVE  TypeOK' /\ OwnedInv'
<1>1. TypeOK'
  BY Nothing, Counts DEF DeleteDS, TypeOK, cluster, caches, memory
<1>2. OwnedInv'
  BY DEF DeleteDS, OwnedInv, cluster, caches, memory
<1> QED BY <1>1, <1>2

LEMMA ChangeAddressStep ==
    ASSUME TypeOK, OwnedInv, ChangeAddress
    PROVE  TypeOK' /\ OwnedInv'
<1>1. TypeOK'
  BY Counts DEF ChangeAddress, TypeOK, cluster, caches, memory
<1>2. OwnedInv'
  BY DEF ChangeAddress, OwnedInv, cluster, caches, memory
<1> QED BY <1>1, <1>2

LEMMA RollOutStep ==
    ASSUME TypeOK, OwnedInv, NEW n \in Nodes, RollOut(n)
    PROVE  TypeOK' /\ OwnedInv'
<1>1. agents' \in [Nodes -> Specs \cup {Absent}]
  <2>1. Scheduled(n) \in Specs \cup {Absent}
    BY DEF Scheduled, TypeOK, DaemonSets
  <2> QED BY <2>1 DEF RollOut, TypeOK
<1>2. TypeOK'
  BY <1>1 DEF RollOut, TypeOK, caches, memory
<1>3. OwnedInv'
  BY DEF RollOut, OwnedInv, caches, memory
<1> QED BY <1>2, <1>3

-----------------------------------------------------------------------------
(* Where agents run. *)

\* Only the DaemonSet controller starts and stops agents.
LEMMA AgentsKept ==
    ASSUME [Next]_vars
    PROVE  agents' = agents \/ \E n \in Nodes : RollOut(n)
BY DEF Next, Manager, Informers, Others, vars, cluster, caches, memory,
       Reconcile, Fails, syncCerts, Resolve, removeOldDsOnOperatorUpdate, applyDSRefused, applyDS,
       applyNP, setCRsEnabledStatus, SeeConfig, SeeDS, SeeSecret, NewProcess, Restart, StartFails,
       newConfigIfNotExist, CollectDS, CollectNP, ensureEndpointNetworkPolicyUpToDate,
       ApplyConfig, DeleteConfig, DeleteDS, ChangeAddress

\* An agent is started only where the DaemonSet of its configuration wants it.
LEMMA NextPlaced == TypeOK /\ PlacedInv /\ [Next]_vars => PlacedInv'
<1> SUFFICES ASSUME TypeOK, PlacedInv, [Next]_vars PROVE PlacedInv'
  OBVIOUS
<1>1. CASE agents' = agents
  BY <1>1 DEF PlacedInv
<1>2. CASE \E n \in Nodes : RollOut(n)
  <2>1. PICK n \in Nodes : RollOut(n)
    BY <1>2
  <2>2. agents' = [agents EXCEPT ![n] = Scheduled(n)] /\ DOMAIN agents = Nodes
    BY <2>1 DEF RollOut, TypeOK
  <2>3. Scheduled(n) = Absent \/ n \in Covered[Scheduled(n)]
    BY DEF Scheduled
  <2> QED BY <2>2, <2>3 DEF PlacedInv
<1> QED BY <1>1, <1>2, AgentsKept

\* The manifest's own requirement keeps agents off the excluded nodes: no specification is
\* rendered without it (updateDsNodeSelectors).
LEMMA ExcludedNotEligible ==
    ASSUME NEW node, NEW spec,
           excludeRemediationLabel \in DOMAIN node.labels,
           node.labels[excludeRemediationLabel] = "true"
    PROVE  ~Eligible(node, spec)
<1>1. defaultNodeSelector \in updateDsNodeSelectors(spec)
  BY DEF updateDsNodeSelectors
<1>2. /\ defaultNodeSelector.operator = "NotIn" /\ defaultNodeSelector.values = <<"true">>
      /\ defaultNodeSelector.key = excludeRemediationLabel
  BY DEF defaultNodeSelector
<1>3. 1 \in DOMAIN <<"true">> /\ <<"true">>[1] = "true"
  OBVIOUS
<1>4. ~Matches(defaultNodeSelector, node.labels)
  BY <1>2, <1>3 DEF Matches
<1> QED BY <1>1, <1>4 DEF Eligible

\* So none is on an excluded node.
LEMMA PlacedFollows == TypeOK /\ PlacedInv => ExcludedNodeHasNoAgent
<1> SUFFICES ASSUME TypeOK, PlacedInv, NEW n \in Nodes,
                    excludeRemediationLabel \in DOMAIN Cluster[n].labels,
                    Cluster[n].labels[excludeRemediationLabel] = "true",
                    agents[n] # Absent
             PROVE  FALSE
  BY DEF ExcludedNodeHasNoAgent
<1>1. n \in Covered[agents[n]] /\ agents[n] \in Specs
  BY DEF PlacedInv, TypeOK
<1>2. Eligible(Cluster[n], Requested[agents[n]])
  BY <1>1 DEF Covered
<1> QED BY <1>2, ExcludedNotEligible

-----------------------------------------------------------------------------
(* The theorems. *)

\* Types and owners, action by action.
LEMMA NextOwned == TypeOK /\ OwnedInv /\ [Next]_vars => TypeOK' /\ OwnedInv'
<1> SUFFICES ASSUME TypeOK, OwnedInv, [Next]_vars PROVE TypeOK' /\ OwnedInv'
  OBVIOUS
<1>1. CASE Manager
  BY <1>1, ReconcileStep, syncCertsStep, ResolveStep, removeOldDsOnOperatorUpdateStep,
     applyDSStep, applyDSRefusedStep, applyNPStep, setCRsEnabledStatusStep DEF Manager
<1>2. CASE Fails
  BY <1>2, FailsStep
<1>3. CASE Informers
  BY <1>3, SeeConfigStep, SeeDSStep, SeeSecretStep DEF Informers
<1>4. CASE newConfigIfNotExist \/ StartFails \/ Restart
  BY <1>4, newConfigIfNotExistStep, StartFailsStep, RestartStep
<1>5. CASE Others
  BY <1>5, CollectDSStep, CollectNPStep, RollOutStep,
     ensureEndpointNetworkPolicyUpToDateStep, ApplyConfigStep, DeleteConfigStep, DeleteDSStep,
     ChangeAddressStep DEF Others
<1>6. CASE UNCHANGED vars
  BY <1>6 DEF vars, cluster, caches, memory, TypeOK, OwnedInv
<1> QED BY <1>1, <1>2, <1>3, <1>4, <1>5, <1>6 DEF Next

LEMMA Inductive == CInv /\ [Next]_vars => CInv'
BY NextOwned, NextPlaced DEF CInv

\* Types; the certificates that the agents share are stored once, whatever the cache of the
\* manager shows of them (syncCerts, StoreCerts).
THEOREM ConfigTyped == Spec => []TypeOK
<1>1. CInv => TypeOK
  BY DEF CInv
<1> QED BY <1>1, InitHolds, Inductive, PTL DEF Spec

\* No specification that there may be puts an agent on a node that is excluded from remediation
\* (updateDsNodeSelectors).
THEOREM ExcludedStaysFree == Spec => []ExcludedNodeHasNoAgent
<1>1. CInv => ExcludedNodeHasNoAgent
  BY PlacedFollows DEF CInv
<1> QED BY <1>1, InitHolds, Inductive, PTL DEF Spec

\* Nothing the manager applies is left to itself, also when the configuration is deleted
\* in the middle of a reconcile; that it is collected in the end is NoLeftovers.
THEOREM NothingUnowned == Spec => []Collectable
<1>1. CInv => Collectable
  BY Nothing DEF CInv, OwnedInv, Collectable, Unconfigured
<1> QED BY <1>1, InitHolds, Inductive, PTL DEF Spec
=============================================================================
