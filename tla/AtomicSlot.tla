----------------------------- MODULE AtomicSlot -----------------------------
(***************************************************************************)
(* What the parallel-context slots of otel_api/otel_parallel.c promise:    *)
(* each backend has a register that holds one published context or none,   *)
(* written by its owner, and a worker reads its leader's register, each in *)
(* one step.                                                               *)
(***************************************************************************)
CONSTANTS
    Proc,       \* proc numbers
    Value,      \* published contexts
    NoValue     \* nothing published

VARIABLES
    reg,        \* each backend's register
    result      \* what each process last read

Init ==
    /\ reg = [p \in Proc |-> NoValue]
    /\ result = [p \in Proc |-> NoValue]

Write(p, v) == reg' = [reg EXCEPT ![p] = v] /\ UNCHANGED result

Read(p, l) == result' = [result EXCEPT ![p] = reg[l]] /\ UNCHANGED reg

(* A process starts with nothing read.                                     *)
Forget(p) == result' = [result EXCEPT ![p] = NoValue] /\ UNCHANGED reg

(* The postmaster starts over.                                             *)
Restart ==
    /\ reg' = [p \in Proc |-> NoValue]
    /\ result' = [p \in Proc |-> NoValue]

Next ==
    \/ \E p \in Proc :
         \/ \E v \in Value \union {NoValue} : Write(p, v)
         \/ \E l \in Proc : Read(p, l)
         \/ Forget(p)
    \/ Restart

Spec == Init /\ [][Next]_<<reg, result>>
=============================================================================
