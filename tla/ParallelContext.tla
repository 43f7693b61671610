--------------------------- MODULE ParallelContext ---------------------------
(***************************************************************************)
(* The parallel-worker context slots (otel_api/otel_parallel.c): shared    *)
(* memory with one slot per proc number, each behind a spinlock.  A leader *)
(* publishes its innermost span's context and clears it; its workers read  *)
(* the slot of their leader's proc number, while the leader goes on        *)
(* running (and publishing) itself.  Backends exit and proc numbers are    *)
(* used again; a crash restarts the postmaster.                            *)
(*                                                                         *)
(* Every memory access under the lock is a step of its own.  A context is  *)
(* the pair of the fields a reader could mix up; contexts carry the life   *)
(* (incarnation of the proc number) that published them.  Definitions      *)
(* whose names end in _m are faulty variants that no specification uses.   *)
(***************************************************************************)
EXTENDS Naturals

CONSTANTS
    MaxBackends,    \* proc numbers are 0 .. MaxBackends - 1
    MAX_LIVES,      \* bound: backends started per proc number
    MAX_SPANS       \* bound: spans a backend publishes

ASSUME ParallelAssumption ==
    /\ MaxBackends \in Nat
    /\ MAX_LIVES \in Nat
    /\ MAX_SPANS \in Nat

VARIABLES
    slots,      \* otel_parallel_slots, without the locks
    lock,       \* the process that holds each slot's spinlock
    role,       \* core: what runs under each proc number
    life,       \* core: how many processes have run under it
    leader,     \* core: ParallelLeaderProcNumber
    pc,         \* where in a publish or a read a process is
    arg,        \* the context being published, or NoValue to clear
    out,        \* otel_parallel_get_leader_context's local copy
    got,        \* what it returned
    stable      \* history: each slot's value when last unlocked

vars == <<slots, lock, role, life, leader, pc, arg, out, got, stable>>

Proc    == 0..(MaxBackends - 1)
Value   == [life : 1..MAX_LIVES, span : 1..MAX_SPANS]
NoValue == [life |-> 0, span |-> 0]
Field   == Value \union {NoValue}
Nobody  == MaxBackends

Slot     == [set : BOOLEAN, trace_id : Field, span_id : Field]
ZeroSlot == [set |-> FALSE, trace_id |-> NoValue, span_id |-> NoValue]
Out      == [trace_id : Field, span_id : Field]
ZeroOut  == [trace_id |-> NoValue, span_id |-> NoValue]

-----------------------------------------------------------------------------
SlotsInit ==
    /\ slots = [p \in Proc |-> ZeroSlot]
    /\ lock = [p \in Proc |-> Nobody]
    /\ role = [p \in Proc |-> "free"]
    /\ life = [p \in Proc |-> 0]
    /\ leader = [p \in Proc |-> Nobody]
    /\ pc = [p \in Proc |-> "idle"]
    /\ arg = [p \in Proc |-> NoValue]
    /\ out = [p \in Proc |-> ZeroOut]
    /\ got = [p \in Proc |-> ZeroOut]
    /\ stable = [p \in Proc |-> NoValue]

Goto(p, l) == pc' = [pc EXCEPT ![p] = l]

-----------------------------------------------------------------------------
(* otel_parallel_publish_leader_context, v = NoValue when it clears.       *)

PublishBegins(p, v) ==
    /\ role[p] = "backend"
    /\ pc[p] = "idle"
    /\ arg' = [arg EXCEPT ![p] = v]
    /\ Goto(p, "lock")
    /\ UNCHANGED <<slots, lock, role, life, leader, out, got, stable>>

AcquireToPublish_m(p) ==
    /\ pc[p] = "lock"
    /\ Goto(p, IF arg[p] = NoValue THEN "clear" ELSE "write1")
    /\ UNCHANGED <<slots, lock, role, life, leader, arg, out, got, stable>>

AcquireToPublish(p) ==
    /\ pc[p] = "lock"
    /\ lock[p] = Nobody
    /\ lock' = [lock EXCEPT ![p] = p]
    /\ Goto(p, IF arg[p] = NoValue THEN "clear" ELSE "write1")
    /\ UNCHANGED <<slots, role, life, leader, arg, out, got, stable>>

WriteClear(p) ==
    /\ pc[p] = "clear"
    /\ slots' = [slots EXCEPT ![p].set = FALSE]
    /\ Goto(p, "unlock")
    /\ UNCHANGED <<lock, role, life, leader, arg, out, got, stable>>

WriteTraceId(p) ==
    /\ pc[p] = "write1"
    /\ slots' = [slots EXCEPT ![p].trace_id = arg[p]]
    /\ Goto(p, "write2")
    /\ UNCHANGED <<lock, role, life, leader, arg, out, got, stable>>

WriteSpanId(p) ==
    /\ pc[p] = "write2"
    /\ slots' = [slots EXCEPT ![p].span_id = arg[p]]
    /\ Goto(p, "write3")
    /\ UNCHANGED <<lock, role, life, leader, arg, out, got, stable>>

WriteSet(p) ==
    /\ pc[p] = "write3"
    /\ slots' = [slots EXCEPT ![p].set = TRUE]
    /\ Goto(p, "unlock")
    /\ UNCHANGED <<lock, role, life, leader, arg, out, got, stable>>

ReleaseAfterPublish(p) ==
    /\ pc[p] = "unlock"
    /\ lock' = [lock EXCEPT ![p] = Nobody]
    /\ stable' = [stable EXCEPT ![p] = arg[p]]
    /\ Goto(p, "idle")
    /\ UNCHANGED <<slots, role, life, leader, arg, out, got>>

-----------------------------------------------------------------------------
(* otel_parallel_get_leader_context in a worker.                           *)

AcquireToRead(p) ==
    /\ role[p] = "worker"
    /\ pc[p] = "idle"
    /\ lock[leader[p]] = Nobody
    /\ lock' = [lock EXCEPT ![leader[p]] = p]
    /\ out' = [out EXCEPT ![p] = ZeroOut]
    /\ Goto(p, "read0")
    /\ UNCHANGED <<slots, role, life, leader, arg, got, stable>>

ReadSet(p) ==
    /\ pc[p] = "read0"
    /\ Goto(p, IF slots[leader[p]].set THEN "read1" ELSE "unlock_read")
    /\ UNCHANGED <<slots, lock, role, life, leader, arg, out, got, stable>>

ReadTraceId(p) ==
    /\ pc[p] = "read1"
    /\ out' = [out EXCEPT ![p].trace_id = slots[leader[p]].trace_id]
    /\ Goto(p, "read2")
    /\ UNCHANGED <<slots, lock, role, life, leader, arg, got, stable>>

ReadSpanId(p) ==
    /\ pc[p] = "read2"
    /\ out' = [out EXCEPT ![p].span_id = slots[leader[p]].span_id]
    /\ Goto(p, "unlock_read")
    /\ UNCHANGED <<slots, lock, role, life, leader, arg, got, stable>>

ReleaseAfterRead(p) ==
    /\ pc[p] = "unlock_read"
    /\ lock' = [lock EXCEPT ![leader[p]] = Nobody]
    /\ got' = [got EXCEPT ![p] = out[p]]
    /\ Goto(p, "idle")
    /\ UNCHANGED <<slots, role, life, leader, arg, out, stable>>

-----------------------------------------------------------------------------
(* Processes come and go, outside the spinlock sections.                   *)

Starts(p, r, l) ==
    /\ role[p] = "free"
    /\ life[p] < MAX_LIVES
    /\ life' = [life EXCEPT ![p] = @ + 1]
    /\ role' = [role EXCEPT ![p] = r]
    /\ leader' = [leader EXCEPT ![p] = l]
    /\ got' = [got EXCEPT ![p] = ZeroOut]
    /\ out' = [out EXCEPT ![p] = ZeroOut]
    /\ arg' = [arg EXCEPT ![p] = NoValue]
    /\ UNCHANGED <<slots, lock, pc, stable>>

BackendStarts(p) == Starts(p, "backend", Nobody)

WorkerStarts(p, l) == role[l] = "backend" /\ Starts(p, "worker", l)

(* A process exits; a leader waits for its workers first.  shmem_exit runs *)
(* before on_proc_exit, and ProcKill in it invalidates MyProcNumber.       *)
ProcKill(p) ==
    /\ role[p] \in {"backend", "worker"}
    /\ pc[p] = "idle"
    /\ \A w \in Proc : role[w] # "free" => leader[w] # p
    /\ role' = [role EXCEPT ![p] = "killed"]
    /\ UNCHANGED <<slots, lock, life, leader, pc, arg, out, got, stable>>

(* otel_parallel_proc_exit_cb: with no valid MyProcNumber the clear is a   *)
(* no-op.                                                                  *)
proc_exit_cb(p) ==
    /\ role[p] = "killed"
    /\ role' = [role EXCEPT ![p] = "free"]
    /\ leader' = [leader EXCEPT ![p] = Nobody]
    /\ UNCHANGED <<slots, lock, life, pc, arg, out, got, stable>>

(* A crash, at any point: the postmaster kills everybody, makes new shared *)
(* memory, and otel_parallel_shmem_startup zeroes it and its locks.        *)
shmem_startup_m ==
    /\ slots' = [p \in Proc |-> ZeroSlot]
    /\ UNCHANGED lock

shmem_startup ==
    /\ slots' = [p \in Proc |-> ZeroSlot]
    /\ lock' = [p \in Proc |-> Nobody]

CrashRestart ==
    /\ shmem_startup
    /\ role' = [p \in Proc |-> "free"]
    /\ leader' = [p \in Proc |-> Nobody]
    /\ pc' = [p \in Proc |-> "idle"]
    /\ arg' = [p \in Proc |-> NoValue]
    /\ out' = [p \in Proc |-> ZeroOut]
    /\ got' = [p \in Proc |-> ZeroOut]
    /\ stable' = [p \in Proc |-> NoValue]
    /\ UNCHANGED life

-----------------------------------------------------------------------------
Publishes(p) ==
    \/ \E s \in 1..MAX_SPANS : PublishBegins(p, [life |-> life[p], span |-> s])
    \/ PublishBegins(p, NoValue)

PublishSteps(p) ==
    \/ AcquireToPublish(p) \/ WriteClear(p) \/ WriteTraceId(p)
    \/ WriteSpanId(p) \/ WriteSet(p) \/ ReleaseAfterPublish(p)

ReadSteps(p) ==
    \/ ReadSet(p) \/ ReadTraceId(p) \/ ReadSpanId(p) \/ ReleaseAfterRead(p)

Lifetimes(p) ==
    \/ BackendStarts(p) \/ (\E l \in Proc : WorkerStarts(p, l))
    \/ ProcKill(p) \/ proc_exit_cb(p)

SlotsNext ==
    \/ \E p \in Proc : \/ Publishes(p) \/ PublishSteps(p)
                       \/ AcquireToRead(p) \/ ReadSteps(p) \/ Lifetimes(p)
    \/ CrashRestart

SlotsSpec == SlotsInit /\ [][SlotsNext]_vars

(* A process inside a spinlock section runs on; one that spins gets the    *)
(* lock in the end, as s_lock's timeout would otherwise PANIC.             *)
FairSpec ==
    /\ SlotsSpec
    /\ \A p \in Proc : /\ SF_vars(AcquireToPublish(p))
                       /\ WF_vars(PublishSteps(p))
                       /\ WF_vars(ReadSteps(p))

-----------------------------------------------------------------------------
(* Properties.                                                             *)

Stages == {"idle", "lock", "clear", "write1", "write2", "write3", "unlock",
           "read0", "read1", "read2", "unlock_read"}

(* The shared slots, their locks and each process's locals are well typed; *)
(* there is one slot per proc number, also after a restart.                *)
SlotsOK ==
    /\ slots \in [Proc -> Slot]
    /\ lock \in [Proc -> Proc \union {Nobody}]
    /\ role \in [Proc -> {"free", "backend", "worker", "killed"}]
    /\ life \in [Proc -> 0..MAX_LIVES]
    /\ leader \in [Proc -> Proc \union {Nobody}]
    /\ pc \in [Proc -> Stages]
    /\ arg \in [Proc -> Field]
    /\ out \in [Proc -> Out]
    /\ got \in [Proc -> Out]
    /\ stable \in [Proc -> Field]

(* A worker never returns with the trace id of one published context and   *)
(* the span id of another.                                                 *)
NoTornContext == \A p \in Proc : got[p].trace_id = got[p].span_id

(* The refinement mapping: a register has the value its slot was last      *)
(* unlocked with.                                                          *)
Atomic == INSTANCE AtomicSlot
            WITH reg <- stable, result <- [p \in Proc |-> got[p].span_id]

(* The slots behave as atomic registers: whatever the interleaving with    *)
(* publishes, clears and crashes, a worker gets the value its leader's     *)
(* slot had at one instant of its read.                                    *)
SlotsAreAtomic == Atomic!Spec

(* The inductive invariant behind the two.  A lock is held by exactly the  *)
(* process inside its section; while the owner is not in it the slot holds *)
(* what stable says; and each section has got as far as its stage says.    *)
Writing == {"clear", "write1", "write2", "write3", "unlock"}
Reading == {"read0", "read1", "read2", "unlock_read"}

Holds(p, v) ==
    IF v = NoValue THEN ~slots[p].set
    ELSE slots[p] = [set |-> TRUE, trace_id |-> v, span_id |-> v]

RolesFit ==
    \A p \in Proc :
        /\ role[p] # "free" => life[p] > 0
        /\ role[p] = "worker" => leader[p] \in Proc \ {p}
        /\ pc[p] \in Writing \union {"lock"} => role[p] = "backend"
        /\ pc[p] \in Reading => role[p] = "worker"

LocksHeld ==
    \A p \in Proc :
        /\ pc[p] \in Writing => lock[p] = p
        /\ pc[p] \in Reading => lock[leader[p]] = p

SlotsSettled == \A p \in Proc : lock[p] # p => Holds(p, stable[p])

WriteProgress ==
    \A p \in Proc :
        /\ pc[p] = "clear" => arg[p] = NoValue
        /\ pc[p] \in {"write1", "write2", "write3"} => arg[p] # NoValue
        /\ pc[p] \in {"write2", "write3"} => slots[p].trace_id = arg[p]
        /\ pc[p] = "write3" => slots[p].span_id = arg[p]
        /\ pc[p] = "unlock" => Holds(p, arg[p])

ReadProgress ==
    \A p \in Proc :
        /\ pc[p] \in {"read0", "read1"} => out[p] = ZeroOut
        /\ pc[p] \in {"read1", "read2"} => stable[leader[p]] # NoValue
        /\ pc[p] = "read2" => out[p].trace_id = stable[leader[p]]
        /\ pc[p] = "unlock_read" =>
             /\ out[p].trace_id = stable[leader[p]]
             /\ out[p].span_id = stable[leader[p]]

(* All of it: the inductive invariant of the spinlock sections.            *)
SectionInv ==
    /\ SlotsOK
    /\ RolesFit
    /\ LocksHeld
    /\ SlotsSettled
    /\ WriteProgress
    /\ ReadProgress
    /\ NoTornContext

(* A publish always completes, also after a crash left a lock held.        *)
PublishCompletes == \A p \in Proc : pc[p] = "lock" ~> pc[p] = "idle"

(* What the comments say of the exit callback: it keeps a worker from      *)
(* picking up the context of a backend that is gone.                       *)
NoContextOfPreviousBackend ==
    \A p \in Proc :
        (role[p] = "worker" /\ got[p].span_id # NoValue)
            => got[p].span_id.life = life[leader[p]]
=============================================================================
