----------------------------- MODULE GrpcCluster -----------------------------
(***************************************************************************)
(* mockgo-grpc/cmd/mockgo/main.go: how the hosts of a cluster find each    *)
(* other.  Every host runs a gRPC server of the match store and one of the *)
(* key-value store, each at a port of its own, and is configured with the  *)
(* same list of hostnames.                                                 *)
(***************************************************************************)
EXTENDS Naturals, Sequences

CONSTANTS Hosts,              \* the hosts of the cluster
          NoHost,             \* an empty hostname
          ClusterHostnames,   \* CLUSTER_HOSTNAMES: a sequence of [host, port], where
                              \* port is 0 for a name without a port
          MatchstorePort, KvstorePort

ASSUME ClusterAssumption ==
    /\ NoHost \notin Hosts
    /\ ClusterHostnames \in Seq([host : Hosts \cup {NoHost}, port : Nat])
    /\ Len(ClusterHostnames) > 1    \* else validate stops the program
    /\ \A i \in 1..Len(ClusterHostnames) - 1 : ClusterHostnames[i].host \in Hosts
    /\ MatchstorePort \in Nat \ {0} /\ KvstorePort \in Nat \ {0} /\ MatchstorePort # KvstorePort

\* The list without the empty name that a comma at its end leaves.
validate(names) ==
    IF names[Len(names)].host = NoHost THEN SubSeq(names, 1, Len(names) - 1) ELSE names

\* The port of the store, whatever the name says.
createAddressesMutant(names, port) ==
    [i \in DOMAIN names |-> [host |-> names[i].host, port |-> port]]

\* A name with a port is an address, a name without one gets the given port.
createAddresses(names, port) ==
    [i \in DOMAIN names |->
        [host |-> names[i].host, port |-> IF names[i].port # 0 THEN names[i].port ELSE port]]

\* The port of the other store.
matchstoreAddressesMutant == createAddresses(validate(ClusterHostnames), KvstorePort)

\* main: where the two stores expect their peers.  Both are called with the port
\* of the match store.
matchstoreAddresses == createAddresses(validate(ClusterHostnames), MatchstorePort)
kvstoreAddresses == createAddresses(validate(ClusterHostnames), MatchstorePort)

\* The service that is registered with the server at a port of a host.
ServiceAt(port) == IF port = MatchstorePort THEN "Matchstore" ELSE
                   IF port = KvstorePort THEN "KVStore" ELSE "none"
=============================================================================
