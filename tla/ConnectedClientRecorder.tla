----------------------- MODULE ConnectedClientRecorder -----------------------
(***************************************************************************)
(* The clients of the two platform services that a registration is         *)
(* propagated to: InventoryBasedConnectedClientRecorder, which writes an   *)
(* add_host message to inventory's Kafka topic, and AccountIdResolver,     *)
(* which the callers ask for the tenant and the identity of a client.      *)
(***************************************************************************)
EXTENDS ConnectionTable

CONSTANT EmptyOrgAnswers  \* may the resolver succeed with an empty org id?

ASSUME RecorderAssumption == EmptyOrgAnswers \in BOOLEAN

VARIABLE inventory  \* what inventory last heard of each client, [ClientID -> HostData]

HostData == [reported : BOOLEAN, canonical_facts : SUBSET Fact]

InventoryTypeOK == inventory \in [ClientID -> HostData]

InventoryInit ==
    inventory = [c \in ClientID |-> [reported |-> FALSE, canonical_facts |-> {}]]

\* What MapClientIdToAccountId returns.  On an error identity and org id are
\* empty; BOPAccountIdResolver takes the org id from identity.internal.org_id
\* without looking whether it is there.  (AccountResolver has the resolver's cache.)
Resolution == [identity : BOOLEAN, org_id : OrgID \cup {NoOrg}]

LookupError == [identity |-> FALSE, org_id |-> NoOrg]

MapClientIdToAccountId ==
    {LookupError} \cup {[identity |-> TRUE, org_id |-> o] :
                          o \in IF EmptyOrgAnswers THEN OrgID \cup {NoOrg} ELSE OrgID}

\* shouldHostBeRegisteredWithInventory
ShouldHostBeRegisteredWithInventory(identity, facts, dispatchers) ==
    /\ identity
    /\ facts # {}
    /\ dispatchers \cap {"rhc-worker-playbook", "package-manager", "rhc-worker-script"} # {}

\* cleanupCanonicalFacts: null, empty and oddly typed values are not passed on.
CleanupCanonicalFacts(facts) == facts \ BlankFact

AddHost(c, facts) ==
    inventory' = [inventory EXCEPT ![c] = [reported        |-> TRUE,
                                           canonical_facts |-> CleanupCanonicalFacts(facts)]]

\* RecordConnectedClient returns nil: the host was skipped or written.  Every
\* identity that the resolvers return names its auth_type, so that the skip of
\* an identity whose auth_type cannot be told does not happen.
RecordConnectedClient(c, identity, facts, dispatchers) ==
    IF ShouldHostBeRegisteredWithInventory(identity, facts, dispatchers)
    THEN AddHost(c, facts)
    ELSE UNCHANGED inventory

\* RecordConnectedClient returns an error: the Kafka write failed, or timed
\* out although the message was written.
RecordConnectedClientFails(c, identity, facts, dispatchers) ==
    /\ ShouldHostBeRegisteredWithInventory(identity, facts, dispatchers)
    /\ \/ UNCHANGED inventory
       \/ AddHost(c, facts)
=============================================================================
