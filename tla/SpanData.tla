------------------------------ MODULE SpanData ------------------------------
(***************************************************************************)
(* What one recording span carries (otel_api/otel_producer.c): attributes, *)
(* events and links in growing arrays, all charged to a byte budget, the   *)
(* most severe error recorded, the exception event made of it when the     *)
(* span ends, and the status and its description, which the log hook also  *)
(* sets when an error goes into a span further up the stack.  Any          *)
(* allocation may fail.  Names and values are reduced to their sizes; a    *)
(* value also carries the number of the call that set it.  Definitions     *)
(* whose names end in _m are faulty variants that no specification uses.   *)
(***************************************************************************)
EXTENDS Naturals, Sequences, FiniteSets

CONSTANTS
    Keys,                   \* attribute keys
    Sizes,                  \* sizes of strings, terminator included
    MAX_SPAN_BYTES,         \* otel_api.max_span_bytes
    INLINE_ATTRS,           \* OTEL_SLOT_INLINE_ATTRS
    ELEM_SIZE,              \* size of an array element
    MAX_CALLS               \* bound: setter calls explored

ASSUME DataAssumption ==
    /\ Sizes \subseteq Nat \ {0}
    /\ MAX_SPAN_BYTES \in Nat
    /\ INLINE_ATTRS \in Nat
    /\ ELEM_SIZE \in Nat \ {0}
    /\ MAX_CALLS \in Nat

VARIABLES
    attrs,          \* span.attrs, span.n_attrs = its length
    events,         \* span.events: "user" or "exception"
    n_links,
    caps,           \* attrs_cap, events_cap, links_cap
    bytes,          \* slot->bytes
    dropped,        \* dropped_attrs, dropped_events, dropped_links
    err,            \* slot->err: elevel, 0 when unused
    status,         \* span.status
    description,    \* span.status_description: whose text it is
    ended,
    calls,          \* history: setter calls made
    target,         \* history: the key of the latest attribute call
    keys_set,       \* history: the keys attributes were asked for
    asked,          \* history: how often an event and a link was asked for
    worst,          \* history: the most severe error recorded
    blamed,         \* history: an ERROR since the status was last set
    no_memory       \* history: a description could not be allocated

history == <<target, keys_set>>
statusVars == <<status, description, blamed, no_memory>>
vars == <<attrs, events, n_links, caps, bytes, dropped, err, statusVars, ended,
          calls, history, asked, worst>>

-----------------------------------------------------------------------------
WARNING == 1
ERROR   == 2
Array == {"attrs", "events", "links"}
Attr  == [key : Keys, set_by : Nat]
NoKey == "none"

(* A status description is the caller's, an error's or the unwinding's.    *)
Description == {"none", "user", "warning", "error", "unwound"}

IndexOf(key) == {k \in 1..Len(attrs) : attrs[k].key = key}

(* Whether an allocation that is charged n bytes may succeed on top of b.  *)
Fits_m(b, n) == b <= MAX_SPAN_BYTES
Fits(b, n) == b + n <= MAX_SPAN_BYTES

(* slot_grow: the array's new capacity, and what growing it costs.         *)
MaxOf(a, b) == IF a >= b THEN a ELSE b
Grown(cap, want) ==
    IF want <= cap THEN cap ELSE MaxOf(MaxOf(want, 2 * cap), 4)
GrowCost(cap, want) == (Grown(cap, want) - cap) * ELEM_SIZE

Call == /\ ~ended
        /\ calls < MAX_CALLS
        /\ calls' = calls + 1

-----------------------------------------------------------------------------
(* Attributes.  slot_attr found the key, or grew the array and copied the  *)
(* key (ksize); then the value is stored, in place (vsize = 0) or as a     *)
(* copy.                                                                   *)

(* slot_attr stores nothing: no room, or no memory.  The array may have    *)
(* grown before the key could not be copied.                               *)
AttrRefused ==
    /\ dropped' = [dropped EXCEPT !["attrs"] = @ + 1]
    /\ \/ UNCHANGED <<caps, bytes>>
       \/ LET want == Len(attrs) + 1
              cost == GrowCost(caps["attrs"], want)
          IN /\ cost > 0 /\ Fits(bytes, cost)
             /\ caps' = [caps EXCEPT !["attrs"] = Grown(@, want)]
             /\ bytes' = bytes + cost
    /\ UNCHANGED attrs

(* set_str_internal's failure path: the entry count goes down, whichever   *)
(* entry was looked up.                                                    *)
ValueRefused(stored) ==
    attrs' = [k \in 1..(Len(stored) - 1) |-> stored[k]]

SetAttr(key, ksize, vsize) ==
    LET known  == IndexOf(key) # {}
        want   == Len(attrs) + 1
        grow   == IF known THEN 0 ELSE GrowCost(caps["attrs"], want)
        atkey  == bytes + grow + (IF known THEN 0 ELSE ksize)
        stored == IF known THEN attrs
                  ELSE Append(attrs, [key |-> key, set_by |-> calls'])
    IN
    /\ Call
    /\ target' = key
    /\ keys_set' = keys_set \union {key}
    /\ \/ ~known /\ AttrRefused
       \/ /\ ~known => (grow = 0 \/ Fits(bytes, grow))
                       /\ Fits(bytes + grow, ksize)
          /\ caps' = IF known THEN caps
                     ELSE [caps EXCEPT !["attrs"] = Grown(@, want)]
          /\ \/ /\ vsize = 0 \/ Fits(atkey, vsize)
                /\ attrs' = [k \in 1..Len(stored) |->
                               IF stored[k].key = key
                               THEN [stored[k] EXCEPT !.set_by = calls']
                               ELSE stored[k]]
                /\ bytes' = atkey + vsize
                /\ UNCHANGED dropped
             \/ /\ vsize # 0
                /\ ValueRefused(stored)
                /\ bytes' = atkey
                /\ dropped' = [dropped EXCEPT !["attrs"] = @ + 1]
    /\ UNCHANGED <<events, n_links, err, statusVars, ended, asked, worst>>

-----------------------------------------------------------------------------
(* api_span_add_event: a name and, when asize > 0, copied attributes.      *)
EventDropped_m == UNCHANGED dropped
EventDropped == dropped' = [dropped EXCEPT !["events"] = @ + 1]

AddEvent(nsize, asize) ==
    LET want == Len(events) + 1
        grow == GrowCost(caps["events"], want)
    IN
    /\ Call
    /\ asked' = [asked EXCEPT !["events"] = @ + 1]
    /\ \/ /\ grow = 0 \/ Fits(bytes, grow)
          /\ Fits(bytes + grow, nsize)
          /\ asize = 0 \/ Fits(bytes + grow + nsize, asize)
          /\ caps' = [caps EXCEPT !["events"] = Grown(@, want)]
          /\ bytes' = bytes + grow + nsize + asize
          /\ events' = Append(events, "user")
          /\ UNCHANGED dropped
       \/ /\ EventDropped
          /\ \E spent \in {0, grow}
                  \union {grow + nsize + part : part \in 0..(asize - 1)} :
               /\ Fits(bytes, spent)
               /\ bytes' = bytes + spent
               /\ caps' = IF spent < grow \/ grow = 0 THEN caps
                          ELSE [caps EXCEPT !["events"] = Grown(@, want)]
          /\ UNCHANGED events
    /\ UNCHANGED <<attrs, n_links, err, statusVars, ended, worst>>
    /\ UNCHANGED history

api_span_add_link ==
    LET grow == GrowCost(caps["links"], n_links + 1)
    IN
    /\ Call
    /\ asked' = [asked EXCEPT !["links"] = @ + 1]
    /\ \/ /\ grow = 0 \/ Fits(bytes, grow)
          /\ caps' = [caps EXCEPT !["links"] = Grown(@, n_links + 1)]
          /\ bytes' = bytes + grow
          /\ n_links' = n_links + 1
          /\ UNCHANGED dropped
       \/ /\ grow > 0
          /\ dropped' = [dropped EXCEPT !["links"] = @ + 1]
          /\ UNCHANGED <<caps, bytes, n_links>>
    /\ UNCHANGED <<attrs, events, err, statusVars, ended, worst>>
    /\ UNCHANGED history

-----------------------------------------------------------------------------
(* slot_record_error: the most severe error, the latest of equals; its     *)
(* texts are copied as far as they fit.                                    *)
LessSevere_m(elevel) == FALSE
LessSevere(elevel) == elevel < err

slot_record_error(elevel, copied) ==
    /\ Call
    /\ worst' = MaxOf(worst, elevel)
    /\ IF LessSevere(elevel) THEN UNCHANGED <<err, bytes, status, blamed>>
       ELSE /\ err' = elevel
            /\ Fits(bytes, copied)
            /\ bytes' = bytes + copied
            /\ status' = IF elevel >= ERROR THEN "error" ELSE status
            /\ blamed' = (blamed \/ elevel >= ERROR)
    /\ UNCHANGED <<attrs, events, n_links, caps, dropped, description,
                   no_memory, ended, asked>>
    /\ UNCHANGED history

(* error_description: the text, if there is none yet and memory for it     *)
(* (an out-of-memory error is not described by the log hook).              *)
Described(text) ==
    \/ /\ description = "none"
       /\ \/ description' = text /\ UNCHANGED no_memory
          \/ no_memory' = TRUE /\ UNCHANGED description
    \/ description # "none" /\ UNCHANGED <<description, no_memory>>

MarkedFailed_m == status' = "error" /\ UNCHANGED <<description, no_memory>>
MarkedFailed   == status' = "error" /\ Described("error")

(* otel_emit_log_hook, for the span it records an error or warning into,   *)
(* is slot_record_error; this is what it does to the spans below that one  *)
(* when it is an ERROR.  Session spans are passed over.                    *)
otel_emit_log_hook ==
    /\ Call
    /\ MarkedFailed
    /\ blamed' = TRUE
    /\ UNCHANGED <<attrs, events, n_links, caps, bytes, dropped, err, ended,
                   asked, worst>>
    /\ UNCHANGED history

api_span_set_status(code, dsize) ==
    /\ Call
    /\ status' = code
    /\ blamed' = FALSE
    /\ \/ description' = "none" /\ UNCHANGED bytes
       \/ /\ description' = "user"
          /\ Fits(bytes, dsize) /\ bytes' = bytes + dsize
    /\ UNCHANGED no_memory
    /\ UNCHANGED <<attrs, events, n_links, caps, dropped, err, ended, asked,
                   worst>>
    /\ UNCHANGED history

api_span_set_name(nsize) ==
    /\ Call
    /\ \/ UNCHANGED bytes
       \/ Fits(bytes, nsize) /\ bytes' = bytes + nsize
    /\ UNCHANGED <<attrs, events, n_links, caps, dropped, err, statusVars,
                   ended, asked, worst>>
    /\ UNCHANGED history

(* lower_error_event makes the exception event of the recorded error, and  *)
(* the description.                                                        *)
lower_error_event ==
    LET want == Len(events) + 1
        grow == GrowCost(caps["events"], want)
    IN \/ /\ err # 0
          /\ grow = 0 \/ Fits(bytes, grow)
          /\ events' = Append(events, "exception")
          /\ caps' = [caps EXCEPT !["events"] = Grown(@, want)]
          /\ bytes' = bytes + grow
          /\ UNCHANGED dropped
       \/ /\ err # 0 /\ grow > 0
          /\ dropped' = [dropped EXCEPT !["events"] = @ + 1]
          /\ UNCHANGED <<events, caps, bytes>>
       \/ err = 0 /\ UNCHANGED <<events, caps, bytes, dropped>>

ErrorDescription ==
    IF err # 0 /\ status' = "error"
    THEN Described(IF err = ERROR THEN "error" ELSE "warning")
    ELSE UNCHANGED <<description, no_memory>>

(* end_slot, with unwinding or without.                                    *)
end_slot(unwinding) ==
    /\ ~ended
    /\ ended' = TRUE
    /\ status' = IF unwinding THEN "error" ELSE status
    /\ lower_error_event
    /\ IF unwinding /\ err = 0 /\ description = "none"
       THEN description' = "unwound" /\ UNCHANGED no_memory
       ELSE ErrorDescription
    /\ asked' = IF err = 0 THEN asked
                ELSE [asked EXCEPT !["events"] = @ + 1]
    /\ UNCHANGED <<attrs, n_links, err, blamed, calls, worst>>
    /\ UNCHANGED history

Ended == ended /\ UNCHANGED vars

-----------------------------------------------------------------------------
Init ==
    /\ attrs = <<>> /\ events = <<>> /\ n_links = 0
    /\ caps = [a \in Array |-> IF a = "attrs" THEN INLINE_ATTRS ELSE 0]
    /\ bytes \in {n \in Sizes \union {0} : Fits(0, n)}
    /\ dropped = [a \in Array |-> 0]
    /\ err = 0
    /\ status = "unset" /\ description = "none"
    /\ blamed = FALSE /\ no_memory = FALSE
    /\ ended = FALSE
    /\ calls = 0
    /\ target = NoKey
    /\ keys_set = {}
    /\ asked = [a \in {"events", "links"} |-> 0]
    /\ worst = 0

Next ==
    \/ \E key \in Keys, ksize \in Sizes, vsize \in Sizes \union {0} :
         SetAttr(key, ksize, vsize)
    \/ \E nsize \in Sizes, asize \in Sizes \union {0} : AddEvent(nsize, asize)
    \/ api_span_add_link
    \/ \E elevel \in {WARNING, ERROR}, copied \in Sizes \union {0} :
         slot_record_error(elevel, copied)
    \/ otel_emit_log_hook
    \/ \E code \in {"unset", "ok", "error"}, dsize \in Sizes :
         api_span_set_status(code, dsize)
    \/ \E nsize \in Sizes : api_span_set_name(nsize)
    \/ \E unwinding \in BOOLEAN : end_slot(unwinding)
    \/ Ended

Spec == Init /\ [][Next]_vars

-----------------------------------------------------------------------------
(* Properties.                                                             *)

(* A slot's arrays, capacities, counters and byte count are well typed;    *)
(* growth is never credited instead of charged.                            *)
TypeOK ==
    /\ attrs \in Seq(Attr)
    /\ events \in Seq({"user", "exception"})
    /\ n_links \in Nat
    /\ caps \in [Array -> Nat]
    /\ bytes \in Nat
    /\ dropped \in [Array -> Nat]
    /\ err \in {0, WARNING, ERROR}
    /\ status \in {"unset", "ok", "error"} /\ description \in Description
    /\ blamed \in BOOLEAN /\ no_memory \in BOOLEAN
    /\ ended \in BOOLEAN
    /\ calls \in 0..MAX_CALLS
    /\ target \in Keys \union {NoKey}
    /\ keys_set \subseteq Keys
    /\ asked \in [{"events", "links"} -> Nat]
    /\ worst \in {0, WARNING, ERROR}

(* However setters, failed copies and array growth mix, what is charged    *)
(* never exceeds the budget, no array holds more than its capacity, and    *)
(* all growth was charged.                                                 *)
BudgetHolds ==
    /\ bytes <= MAX_SPAN_BYTES
    /\ Len(attrs) <= caps["attrs"]
    /\ Len(events) <= caps["events"]
    /\ n_links <= caps["links"]
    /\ (caps["attrs"] + caps["events"] + caps["links"] - INLINE_ATTRS)
         * ELEM_SIZE <= bytes

(* Every event and link a caller asked for is on the span or counted as    *)
(* dropped, once, the exception event included; and at most as many keys   *)
(* are missing from the attributes as were counted as dropped.             *)
NothingLostSilently ==
    /\ Len(events) + dropped["events"] = asked["events"]
    /\ n_links + dropped["links"] = asked["links"]
    /\ Cardinality({key \in keys_set : IndexOf(key) = {}}) <= dropped["attrs"]

(* A span that recorded errors ends with the most severe one, whatever the *)
(* order they came in: as its last event, an exception, unless that event  *)
(* was counted as dropped.                                                 *)
WorstErrorIsReported ==
    /\ err = worst
    /\ ended /\ worst # 0 /\ dropped["events"] = 0
         => events # <<>> /\ events[Len(events)] = "exception"

(* A span that an ERROR was recorded in, or reported above, ends with      *)
(* ERROR status if nobody set its status after that, and its description   *)
(* says why: it is neither missing nor the text of a warning recorded      *)
(* earlier, unless there was no memory for it.                             *)
FailedSpansSayWhy ==
    ended /\ blamed =>
        /\ status = "error"
        /\ no_memory \/ description \in {"user", "error"}

(* What set_str_internal's comment says of a value that cannot be copied:  *)
(* "remove the entry again", the one of the key the call was for.  So a    *)
(* call for one key never takes another key's attribute away.              *)
OtherAttributesKept ==
    [][\A k \in 1..Len(attrs) :
         attrs[k].key # target' =>
           \E j \in 1..Len(attrs') : attrs'[j] = attrs[k]]_vars
=============================================================================
