---------------------------- MODULE ModuleLoading ----------------------------
(***************************************************************************)
(* How otel_api, producers and exporters find each other, in one process   *)
(* (otel_api.c, otel_api.h, otel_exporter.h, otel_producer.h): a           *)
(* rendezvous slot that otel_api fills, a list of registrations that wait  *)
(* for it, lookups that producers cache, and the chain of emit hooks; with *)
(* it, the resource attributes.  otel_api is loaded among the              *)
(* shared_preload_libraries or not at all; the others at any time.         *)
(* Definitions whose names end in _m are faulty variants that no           *)
(* specification uses.                                                     *)
(***************************************************************************)
EXTENDS ResourceAttrs

CONSTANTS
    Exporters,      \* exporter modules
    Units,          \* producers' translation units
    LogUnits,       \* those that look up when a message is logged (otel_log.c)
    RootFits,       \* modules built for this root table, by size and version
    TableFits,      \* and for the table of their audience
    NoHook          \* no exporter: a NULL hook

Api == "otel_api"

ASSUME ModuleLoadingAssumption ==
    /\ IsFiniteSet(Exporters) /\ {NoHook, Api} \intersect Exporters = {}
    /\ LogUnits \subseteq Units \intersect RootFits \intersect TableFits
    /\ RootFits \subseteq Exporters \union Units
    /\ TableFits \subseteq Exporters \union Units

VARIABLES
    phase,          \* "preload", then "running"
    to_load,        \* modules not loaded yet
    slot,           \* is the root table published?
    pending,        \* queued exporters, the latest first
    emit_hook,      \* otel_span_emit_hook
    prev,           \* what each exporter chains to
    recording_possible,
    root_cache,     \* otel_api_get's cache in each unit
    table_cache,    \* otel_producer_api's
    too_early       \* history: units that looked up in vain before otel_api
                    \* was loaded

hookVars == <<emit_hook, prev, recording_possible>>
cacheVars == <<root_cache, table_cache, too_early>>
loadingVars == <<env, resource_attrs, phase, to_load, slot, pending, hookVars,
                 cacheVars>>

Cached == {"unset", "missing", "found"}

-----------------------------------------------------------------------------
(* Hooks.  h: [hook, prev, possible].                                      *)

(* api_register_emit_hook, with otel_update_recording_possible (the other  *)
(* gates are SpanSampling's).                                              *)
Registered_m(h, e) == [h EXCEPT !.hook = e, !.possible = TRUE]
Registered(h, e) == [hook |-> e, prev |-> [h.prev EXCEPT ![e] = h.hook],
                     possible |-> TRUE]

Hooks == [hook |-> emit_hook, prev |-> prev, possible |-> recording_possible]
SetHooks(h) ==
    /\ emit_hook' = h.hook
    /\ prev' = h.prev
    /\ recording_possible' = h.possible

(* otel_api's _PG_init: otel_resource_init and                             *)
(* otel_api_publish_rendezvous.  Whether a queued exporter fits is not     *)
(* asked.                                                                  *)
LoadApi ==
    /\ phase = "preload" /\ Api \in to_load
    /\ to_load' = to_load \ {Api}
    /\ resource_attrs' = otel_resource_init(env)
    /\ slot' = TRUE
    /\ pending' = <<>>
    /\ SetHooks(FoldLeft(Registered, Hooks, pending))
    /\ UNCHANGED <<env, phase, cacheVars>>

(* An exporter's _PG_init: otel_exporter_register_when_ready.              *)
LoadExporter(e) ==
    /\ e \in to_load
    /\ to_load' = to_load \ {e}
    /\ IF slot
       THEN /\ SetHooks(IF e \in RootFits \intersect TableFits
                        THEN Registered(Hooks, e) ELSE Hooks)
            /\ UNCHANGED pending
       ELSE /\ pending' = <<e>> \o pending
            /\ UNCHANGED hookVars
    /\ UNCHANGED <<env, resource_attrs, phase, slot, cacheVars>>

(* Every library of the list is loaded; what is left may be loaded later,  *)
(* except otel_api, which refuses.                                         *)
PreloadDone ==
    /\ phase = "preload"
    /\ phase' = "running"
    /\ to_load' = to_load \ {Api}
    /\ UNCHANGED <<env, resource_attrs, slot, pending, hookVars, cacheVars>>

-----------------------------------------------------------------------------
(* Producers.                                                              *)

(* otel_api_get: looked up once.                                           *)
otel_api_get_m(u) ==
    IF root_cache[u] # "unset" THEN root_cache[u]
    ELSE IF slot THEN "found" ELSE "missing"

otel_api_get(u) ==
    IF root_cache[u] # "unset" THEN root_cache[u]
    ELSE IF slot /\ u \in RootFits THEN "found" ELSE "missing"

(* otel_producer_api, whose answer is kept as well.                        *)
otel_producer_api(u) ==
    LET root == otel_api_get(u) IN
    /\ IF table_cache[u] # "unset" THEN UNCHANGED cacheVars
       ELSE /\ root_cache' = [root_cache EXCEPT ![u] = root]
            /\ table_cache' = [table_cache EXCEPT ![u] =
                                 IF root = "found" /\ u \in TableFits
                                 THEN "found" ELSE "missing"]
            /\ too_early' = IF phase = "preload" /\ ~slot
                            THEN too_early \union {u} ELSE too_early
    /\ UNCHANGED <<env, resource_attrs, phase, to_load, slot, pending,
                   hookVars>>

(* A producer's hook or callback calls the API: they run in backends.  No  *)
(* _PG_init does.                                                          *)
ProducerCalls(u) == phase = "running" /\ otel_producer_api(u)

(* A message is logged, which may happen at any time from the moment       *)
(* otel_log_install_hooks has run in a _PG_init.  The unit fits: if it did *)
(* not, the warning otel_api_table_ok logs before the answer is kept would *)
(* be a message again.                                                     *)
otel_emit_log_hook(u) == u \in LogUnits /\ otel_producer_api(u)

(* otel_resource_add.                                                      *)
ResourceAdd(u, key, value) ==
    /\ table_cache[u] = "found"
    /\ otel_resource_attr_add(key, value)
    /\ UNCHANGED <<env, phase, to_load, slot, pending, hookVars, cacheVars>>

-----------------------------------------------------------------------------
(* Emitting.                                                               *)

(* The hooks a span passes, each calling the one before it until there is  *)
(* none; one more than there are exporters if they go round in a circle.   *)
Chain ==
    LET N == Cardinality(Exporters) + 1
        at[k \in 1..N] ==
          IF k = 1 THEN emit_hook
          ELSE IF at[k - 1] = NoHook THEN NoHook ELSE prev[at[k - 1]]
    IN [k \in {k \in 1..N : at[k] # NoHook} |-> at[k]]

LoadingInit ==
    /\ env \in Environments /\ resource_attrs = <<>>
    /\ phase = "preload" /\ to_load = Exporters \union {Api}
    /\ slot = FALSE /\ pending = <<>>
    /\ emit_hook = NoHook /\ prev = [e \in Exporters |-> NoHook]
    /\ recording_possible = FALSE
    /\ root_cache = [u \in Units |-> "unset"]
    /\ table_cache = [u \in Units |-> "unset"]
    /\ too_early = {}

LoadingNext ==
    \/ LoadApi \/ PreloadDone
    \/ \E e \in Exporters : LoadExporter(e)
    \/ \E u \in Units :
         \/ ProducerCalls(u)
         \/ otel_emit_log_hook(u)
         \/ \E k \in Keys, v \in Values : ResourceAdd(u, k, v)

LoadingSpec == LoadingInit /\ [][LoadingNext]_loadingVars

-----------------------------------------------------------------------------
(* Properties.                                                             *)

(* The loading state is well typed.                                        *)
LoadingTypeOK ==
    /\ env \in Environments /\ resource_attrs \in Seq(Attr)
    /\ phase \in {"preload", "running"}
    /\ to_load \subseteq Exporters \union {Api}
    /\ slot \in BOOLEAN /\ pending \in Seq(Exporters)
    /\ emit_hook \in Exporters \union {NoHook}
    /\ prev \in [Exporters -> Exporters \union {NoHook}]
    /\ recording_possible \in BOOLEAN
    /\ root_cache \in [Units -> Cached] /\ table_cache \in [Units -> Cached]
    /\ too_early \subseteq LogUnits

(* However the modules are ordered, once otel_api is loaded every exporter *)
(* loaded so far that fits is in the chain of emit hooks exactly once, and *)
(* nothing waits in the queue; without otel_api each of them is queued.    *)
EveryExporterIsServed ==
    LET loaded == Exporters \ to_load
        served == IF slot THEN Chain ELSE pending
    IN /\ RootFits \intersect TableFits \intersect loaded
            \subseteq ToSet(served)
       /\ IsInjective(served) /\ ToSet(served) \subseteq loaded
       /\ slot => pending = <<>>
       /\ recording_possible = (emit_hook # NoHook)

(* A unit's cached lookup is out of date only if the unit logged a message *)
(* before otel_api was loaded, and then it is that there is no table;      *)
(* every other unit that has looked up found the table exactly if it fits  *)
(* and otel_api is loaded.                                                 *)
LookupsAreCurrent ==
    \A u \in Units : table_cache[u] # "unset" =>
        (table_cache[u] = "found") =
            (/\ slot /\ u \in RootFits \intersect TableFits
             /\ u \notin too_early)

(* The value of a key when it is resolved: by the precedence the OTel      *)
(* specification gives for the service's name and instance, the host's     *)
(* name for host.name, and for another key its first pair's.               *)
Resolved(key) ==
    LET own == SelectSeq(ParsedPairs(env.raw), LAMBDA p : p.key = key)
        named(guc, var, default) ==
          IF guc # Empty THEN guc
          ELSE IF var # Empty THEN var
          ELSE LET full == SelectSeq(own, LAMBDA p : p.value # Empty)
               IN IF full = <<>> THEN default ELSE full[1].value
    IN CASE key = SERVICE_NAME -> named(env.name_guc, env.name_env, PG_NAME)
         [] key = INSTANCE_ID  -> named(env.id_guc, env.id_env, SYSTEM_ID)
         [] key = HOST_NAME    -> HOSTNAME
         [] OTHER              -> own[1].value

(* What otel_api publishes is the resolved value of every key it has one   *)
(* for, each key once, unless the array is full; from then on the keys an  *)
(* exporter may have read stay where they are: producers change values, or *)
(* add a key after the others.                                             *)
ResourceIsResolved ==
    [][LET attrs == resource_attrs'
           given == {SERVICE_NAME, INSTANCE_ID, HOST_NAME} \union
                      {p.key : p \in ToSet(ParsedPairs(env.raw))}
       IN /\ Len(attrs) = Cardinality(KeysOf(attrs))
          /\ ~slot /\ slot' =>
               /\ Len(attrs) <= OTEL_RESOURCE_ATTR_CAPACITY
               /\ \/ KeysOf(attrs) = given
                  \/ Len(attrs) = OTEL_RESOURCE_ATTR_CAPACITY
               /\ \A a \in ToSet(attrs) : a.value = Resolved(a.key)
          /\ slot =>
               /\ Len(attrs) >= Len(resource_attrs)
               /\ \A k \in 1..Len(resource_attrs) :
                    attrs[k].key = resource_attrs[k].key]_loadingVars

-----------------------------------------------------------------------------
(* What the documentation and the comments say and the code does not do:   *)
(* none of the statements below holds of this model.                       *)

(* "Preload order no longer matters": an exporter that does not fit is     *)
(* refused, wherever it is in the list.                                    *)
UnfitExportersAreRefused ==
    ToSet(Chain) \subseteq RootFits \intersect TableFits

(* "The last-queued registration ends up outermost."                       *)
LastQueuedIsOutermost ==
    [][(pending # <<>> /\ slot') => emit_hook' = pending[1]]_loadingVars

(* "Preload order no longer matters": producers "resolve the provider on   *)
(* their first hot-path invocation (after all _PG_inits have completed)".  *)
(* The hook for log messages may be invoked before.                        *)
EveryLookupIsCurrent ==
    \A u \in Units : table_cache[u] # "unset" =>
        (table_cache[u] = "found") =
            (slot /\ u \in RootFits \intersect TableFits)
=============================================================================
