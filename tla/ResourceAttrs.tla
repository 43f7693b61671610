---------------------------- MODULE ResourceAttrs ----------------------------
(***************************************************************************)
(* The process's resource attributes (otel_api/otel_resource.c): resolved  *)
(* once when otel_api is loaded, from settings and environment, and added  *)
(* to by producers.  A text is a model value; Empty is the empty text and  *)
(* also a setting or environment variable that is not there.  Definitions  *)
(* whose names end in _m are faulty variants that no specification uses.   *)
(***************************************************************************)
EXTENDS Naturals, Sequences, FiniteSets, SequencesExt

CONSTANTS
    Values,                         \* texts of attribute values
    Empty,                          \* the empty text
    ExtraKeys,                      \* keys without a meaning here
    PG_NAME, SYSTEM_ID, HOSTNAME,   \* "postgres", pg_control's id, the host
    OTEL_RESOURCE_ATTR_CAPACITY,
    OTEL_RA_ENV_MAX_PAIRS,
    Environments                    \* what the process may start with

SERVICE_NAME == "service.name"
INSTANCE_ID  == "service.instance.id"
HOST_NAME    == "host.name"
Keys  == {SERVICE_NAME, INSTANCE_ID, HOST_NAME} \union ExtraKeys
Texts == Values \union {Empty}
Attr  == [key : Keys, value : Texts \union {PG_NAME, SYSTEM_ID, HOSTNAME}]

(* raw is OTEL_RESOURCE_ATTRIBUTES, cut at the commas: key Empty stands    *)
(* for an entry without "=" or without a key.                              *)
Environment ==
    [name_guc : Texts, name_env : Texts, id_guc : Texts, id_env : Texts,
     raw : Seq([key : Keys \union {Empty}, value : Texts])]

ASSUME ResourceAttrsAssumption ==
    /\ Empty \notin Values \union Keys
    /\ OTEL_RESOURCE_ATTR_CAPACITY \in Nat /\ OTEL_RESOURCE_ATTR_CAPACITY >= 3
    /\ OTEL_RA_ENV_MAX_PAIRS \in Nat
    /\ Environments \subseteq Environment

VARIABLES
    env,            \* settings and environment of the process
    resource_attrs  \* otel_resource_attrs

KeysOf(attrs) == {a.key : a \in ToSet(attrs)}

FirstSet(texts) == SelectSeq(texts, LAMBDA t : t # Empty)[1]

(* parse_otel_resource_attributes.                                         *)
ParsedPairs(raw) ==
    LET good == SelectSeq(raw, LAMBDA p : p.key # Empty)
    IN SubSeq(good, 1, Min({Len(good), OTEL_RA_ENV_MAX_PAIRS}))

(* consume_ra_pair: the first value of the key that is not empty.  That    *)
(* the pair is then passed over shows nowhere: its key is present by then. *)
RaValue(pairs, key) ==
    LET with == SelectSeq(pairs, LAMBDA p : p.key = key /\ p.value # Empty)
    IN IF with = <<>> THEN Empty ELSE with[1].value

(* push_resource_attr for the pairs whose keys are not present yet.        *)
Pushed_m(attrs, pair) ==
    IF Len(attrs) >= OTEL_RESOURCE_ATTR_CAPACITY THEN attrs
    ELSE Append(attrs, pair)

Pushed(attrs, pair) ==
    IF pair.key \in KeysOf(attrs) \/ Len(attrs) >= OTEL_RESOURCE_ATTR_CAPACITY
    THEN attrs ELSE Append(attrs, pair)

otel_resource_init(e) ==
    LET pairs == ParsedPairs(e.raw)
        name  == FirstSet(<<e.name_guc, e.name_env,
                            RaValue(pairs, SERVICE_NAME), PG_NAME>>)
        id    == FirstSet(<<e.id_guc, e.id_env,
                            RaValue(pairs, INSTANCE_ID), SYSTEM_ID>>)
    IN FoldLeft(Pushed,
                <<[key |-> SERVICE_NAME, value |-> name],
                  [key |-> INSTANCE_ID, value |-> id],
                  [key |-> HOST_NAME, value |-> HOSTNAME]>>,
                pairs)

(* The array otel_resource_attr_add leaves: replaced in place, appended,   *)
(* or as it was when it is full.                                           *)
Added(attrs, key, value) ==
    IF key \in KeysOf(attrs)
    THEN [k \in 1..Len(attrs) |->
            IF attrs[k].key = key THEN [attrs[k] EXCEPT !.value = value]
            ELSE attrs[k]]
    ELSE Pushed(attrs, [key |-> key, value |-> value])

otel_resource_attr_add(key, value) ==
    resource_attrs' = Added(resource_attrs, key, value)
=============================================================================
