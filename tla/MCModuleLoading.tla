--------------------------- MODULE MCModuleLoading ---------------------------
(* ModuleLoading with three exporters, one of which was built for a newer  *)
(* exporter table, three units, one of which was built for another root    *)
(* table and one of which looks up when a message is logged, and           *)
(* environments in which every source of the service's name is set,        *)
(* shadowed or empty.                                                      *)
EXTENDS ModuleLoading

Pair(k, v) == [key |-> k, value |-> v]

MCRaws ==
    {<<>>,
     <<Pair(SERVICE_NAME, "v1"), Pair("k1", "v1"), Pair("k1", "v2"),
       Pair(SERVICE_NAME, "v2"), Pair("k1", "v1"), Pair("k2", "v1")>>,
     <<Pair(Empty, "v1"), Pair(SERVICE_NAME, Empty), Pair(HOST_NAME, "v1"),
       Pair(SERVICE_NAME, "v2"), Pair("k1", Empty), Pair("k2", "v1")>>}

MCEnvironments ==
    {[name_guc |-> g, name_env |-> e, id_guc |-> Empty, id_env |-> i, raw |-> r] :
        g \in {Empty, "v1"}, e \in {Empty, "v2"}, i \in {Empty, "v1"}, r \in MCRaws}
=============================================================================
