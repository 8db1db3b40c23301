------------------------------- MODULE ThinPool -------------------------------
(***************************************************************************)
(* A node's thin pool and the processes that use it                        *)
(* (internal/thinpool, cmd/basedisk-materialize).  A guest's disk is a     *)
(* snapshot of a base, a thin device holding its image.  A process runs    *)
(* for one guest, in one of three modes: create builds the base when the   *)
(* node has none and snapshots it; reactivate maps the guest's existing    *)
(* disk; release deletes it.  A process may be killed between any two of   *)
(* its steps: flock drops its locks, and what it wrote to the registry, to *)
(* the pool and to device-mapper stays.  A reboot kills all of them and    *)
(* takes every mapping away.                                               *)
(*                                                                         *)
(* One step is one registry operation or one dmsetup command, together     *)
(* with the reads before it of what only this process may change.          *)
(***************************************************************************)
EXTENDS ThinRegistry

CONSTANTS
    NoGuest,        \* nobody: a free lock, the owner of a base
    KeyOf,          \* the image of each guest
    Need,           \* the pool blocks an image's data takes
    PoolSize,       \* the blocks of the pool
    MaxIDRetries,   \* maxIDRetries
    MaxID,          \* bound: ids handed out (uint32 in the code)
    MaxCrashes,     \* bound: processes killed
    CrashPoints,    \* the steps a process may be killed before
    Plans           \* what else may go wrong: the faults of one of these sets, each once

ASSUME NobodyAssumption == NoGuest \notin Guests
ASSUME ImagesAssumption == KeyOf \in [Guests -> Keys] /\ Need \in [Keys -> Nat \ {0}]
ASSUME NamesAssumption == Guests \cap Keys = {}   \* their device names differ
ASSUME PoolSizeAssumption == PoolSize \in Nat

VARIABLES
    reg,      \* the registry file
    pool,     \* the thin devices, by id
    mapped,   \* device-mapper: the device mapped for a guest, or for a base
    lock,     \* the per-base file locks
    proc,     \* the process running for a guest
    crashes,  \* processes killed so far
    budget    \* the faults still to happen

-----------------------------------------------------------------------------
\* A thin device: the base device its blocks come from, the image written to
\* that and how much of it, the guest it was created for, and the guests whose
\* writes it holds.
Devices == [origin : Nat, key : Keys, blocks : Nat, owner : Guests \cup {NoGuest}, data : SUBSET Guests]

Steps ==
    {"idle", "base", "room", "evict", "forget", "alloc", "discard", "create", "write", "markReady",
     "unreserve", "known", "disk", "lockBase", "allocGuest", "snap", "map", "markCreated",
     "unmap", "delete", "forgetGuest", "succeeded", "failed"}
NoProc == [mode |-> "none", pc |-> "idle", id |-> NoId, base |-> NoId, todo |-> <<>>, listed |-> FALSE, tries |-> 0]

PoolTypeOK ==
    /\ reg.nextID \in 0..MaxID + 1
    /\ reg.bases \in [Keys -> 0..MaxID \cup {NoId}]
    /\ reg.guests \in [Guests -> 0..MaxID \cup {NoId}]
    /\ reg.ready \subseteq Keys /\ reg.created \subseteq Guests
    /\ reg.reserved \in [Keys -> Nat]
    /\ DOMAIN pool \subseteq 0..MaxID
    /\ \A id \in DOMAIN pool : pool[id] \in Devices
    /\ mapped \in [Guests \cup Keys -> 0..MaxID \cup {NoId}]
    /\ lock \in [Keys -> Guests \cup {NoGuest}]
    /\ \A g \in Guests : proc[g].pc \in Steps /\ proc[g].mode \in {"none", "create", "reactivate", "release"}
    /\ budget \subseteq UNION Plans

PoolInit ==
    /\ reg = EmptyRegistry
    /\ pool = <<>>
    /\ mapped = [n \in Guests \cup Keys |-> NoId]
    /\ lock = [k \in Keys |-> NoGuest]
    /\ proc = [g \in Guests |-> NoProc]
    /\ crashes = 0
    /\ budget \in Plans

Running(g) == proc[g].pc \notin {"idle", "succeeded", "failed"}

\* Snapshots share the blocks of their base: blocks are counted once per base
\* ever written, for as long as one device has them.
Used ==
    LET origins == {pool[id].origin : id \in DOMAIN pool}
        blocks(o) == Max({pool[id].blocks : id \in {i \in DOMAIN pool : pool[i].origin = o}})
    IN  MapThenSumSet(blocks, origins)
freeBytes == IF Used > PoolSize THEN 0 ELSE PoolSize - Used

IsMapped(id) == \E n \in Guests \cup Keys : mapped[n] = id
Without(id) == [i \in DOMAIN pool \ {id} |-> pool[i]]
With(id, dev) == [i \in DOMAIN pool \cup {id} |-> IF i = id THEN dev ELSE pool[i]]

-----------------------------------------------------------------------------
\* g's process: its next step, its start, and its exit with what its deferred
\* calls do.
At(g, pc) == proc[g].pc = pc
Go(g, pc) == proc' = [proc EXCEPT ![g].pc = pc]
Unlocked(g) == [k \in Keys |-> IF lock[k] = g THEN NoGuest ELSE lock[k]]
Start(g, mode, pc) == proc' = [proc EXCEPT ![g] = [NoProc EXCEPT !.mode = mode, !.pc = pc]]
Exit(g, outcome) ==
    /\ proc' = [proc EXCEPT ![g] = [NoProc EXCEPT !.mode = proc[g].mode, !.pc = outcome]]
    /\ lock' = Unlocked(g)
Env == UNCHANGED <<crashes, budget>>

-----------------------------------------------------------------------------
(* EnsureBaseNeeding: under the lock of the key.                            *)

UseReadyBase(g) ==
    /\ At(g, "base") /\ lock[KeyOf[g]] = NoGuest /\ KeyOf[g] \in reg.ready
    /\ reg' = TouchBase(reg, KeyOf[g])
    /\ Go(g, "disk")
    /\ UNCHANGED <<pool, mapped, lock>> /\ Env

LockBase(g) ==
    /\ At(g, "base") /\ lock[KeyOf[g]] = NoGuest /\ KeyOf[g] \notin reg.ready
    /\ lock' = [lock EXCEPT ![KeyOf[g]] = g]
    /\ Go(g, "room")
    /\ UNCHANGED <<reg, pool, mapped>> /\ Env

\* makeRoomFor: reserve, or evict one more base and try again.
ReserveRoom(g) ==
    /\ At(g, "room")
    /\ CanReserve(reg, KeyOf[g], Need[KeyOf[g]], freeBytes)
    /\ reg' = Reserve(reg, KeyOf[g], Need[KeyOf[g]])
    /\ proc' = [proc EXCEPT ![g].pc = "alloc", ![g].todo = <<>>, ![g].listed = FALSE]
    /\ UNCHANGED <<pool, mapped, lock>> /\ Env

\* The list of candidates is read once, at the first refusal.
NoRoomYet(g) ==
    /\ At(g, "room")
    /\ ~CanReserve(reg, KeyOf[g], Need[KeyOf[g]], freeBytes)
    /\ proc' = [proc EXCEPT ![g].pc = "evict", ![g].listed = TRUE,
                            ![g].todo = IF proc[g].listed THEN proc[g].todo
                                        ELSE SelectSeq(EvictionOrder(reg), LAMBDA k : k # KeyOf[g])]
    /\ UNCHANGED <<reg, pool, mapped, lock>> /\ Env

DoesNotFit(g) ==
    /\ At(g, "evict") /\ proc[g].todo = <<>>
    /\ Exit(g, "failed")
    /\ UNCHANGED <<reg, pool, mapped>> /\ Env

\* evictBase: the other base's lock is only tried, never waited for.
SkipBase(g) ==
    /\ At(g, "evict") /\ proc[g].todo # <<>>
    /\ lock[Head(proc[g].todo)] # NoGuest \/ reg.bases[Head(proc[g].todo)] = NoId
    /\ proc' = [proc EXCEPT ![g].pc = "room", ![g].todo = Tail(proc[g].todo)]
    /\ UNCHANGED <<reg, pool, mapped, lock>> /\ Env

\* Unmap and delete; deleted before forgotten.
EvictBase(g) ==
    /\ At(g, "evict") /\ proc[g].todo # <<>>
    /\ \E k \in Keys :
        LET unmapped == [mapped EXCEPT ![k] = NoId]
        IN  /\ k = Head(proc[g].todo) /\ lock[k] = NoGuest /\ reg.bases[k] # NoId
            /\ mapped' = unmapped
            /\ IF \E n \in DOMAIN unmapped : unmapped[n] = reg.bases[k]
               THEN Exit(g, "failed") /\ UNCHANGED pool
               ELSE /\ pool' = Without(reg.bases[k])
                    /\ lock' = [lock EXCEPT ![k] = g]
                    /\ Go(g, "forget")
    /\ UNCHANGED reg /\ Env

ForgetEvicted(g) ==
    LET k == Head(proc[g].todo)
    IN  /\ At(g, "forget")
        /\ reg' = ForgetBase(reg, k)
        /\ lock' = [lock EXCEPT ![k] = NoGuest]
        /\ proc' = [proc EXCEPT ![g].pc = "room", ![g].todo = Tail(proc[g].todo)]
        /\ UNCHANGED <<pool, mapped>> /\ Env

-----------------------------------------------------------------------------
(* createBase, populate and the rest of EnsureBaseNeeding.                  *)

\* An id this key already has is a build that did not finish.
AllocBase(g) ==
    LET k == KeyOf[g]
        r == AllocateBase(reg, k)
    IN  /\ At(g, "alloc") /\ r.nextID <= MaxID
        /\ reg' = r
        /\ proc' = [proc EXCEPT ![g].pc = IF reg.bases[k] # NoId THEN "discard" ELSE "create",
                                ![g].id = r.bases[k]]
        /\ UNCHANGED <<pool, mapped, lock>> /\ Env

\* A device that is mapped elsewhere cannot be deleted.
DiscardPartial(g) ==
    LET unmapped == [mapped EXCEPT ![KeyOf[g]] = NoId]
    IN  /\ At(g, "discard")
        /\ mapped' = unmapped
        /\ IF \E n \in DOMAIN unmapped : unmapped[n] = proc[g].id
           THEN /\ Exit(g, "failed")
                /\ reg' = Unreserve(reg, KeyOf[g])
                /\ UNCHANGED pool
           ELSE /\ pool' = Without(proc[g].id)
                /\ Go(g, "create")
                /\ UNCHANGED <<reg, lock>>
        /\ Env

NewBase(k, id) == [origin |-> id, key |-> k, blocks |-> 0, owner |-> NoGuest, data |-> {}]

\* create_thin and activate.
CreateBase(g) ==
    LET k == KeyOf[g]
        id == proc[g].id
    IN  /\ At(g, "create") /\ id \notin DOMAIN pool
        /\ pool' = With(id, NewBase(k, id))
        /\ IF mapped[k] # NoId
           THEN Exit(g, "failed") /\ reg' = Unreserve(reg, k) /\ UNCHANGED mapped
           ELSE mapped' = [mapped EXCEPT ![k] = id] /\ Go(g, "write") /\ UNCHANGED <<reg, lock>>
        /\ Env

\* "File exists": the registry is behind the pool.  Skip the id.
SkipBaseID(g) ==
    LET k == KeyOf[g]
        r == Advance(ForgetBase(reg, k), proc[g].id)
    IN  /\ At(g, "create") /\ proc[g].id \in DOMAIN pool
        /\ IF proc[g].tries + 1 < MaxIDRetries
           THEN /\ proc' = [proc EXCEPT ![g].pc = "alloc", ![g].tries = proc[g].tries + 1]
                /\ reg' = r
                /\ UNCHANGED lock
           ELSE Exit(g, "failed") /\ reg' = Unreserve(r, k)
        /\ UNCHANGED <<pool, mapped>> /\ Env

WriteBlock(g) ==
    /\ At(g, "write") /\ pool[proc[g].id].blocks < Need[KeyOf[g]]
    /\ pool' = [pool EXCEPT ![proc[g].id].blocks = pool[proc[g].id].blocks + 1]
    /\ UNCHANGED <<reg, mapped, lock, proc>> /\ Env

\* Synced, and the device removed.
Populated(g) ==
    /\ At(g, "write") /\ pool[proc[g].id].blocks = Need[KeyOf[g]]
    /\ mapped' = [mapped EXCEPT ![KeyOf[g]] = NoId]
    /\ Go(g, "markReady")
    /\ UNCHANGED <<reg, pool, lock>> /\ Env

\* Reading the image, or writing it, fails.
PopulateFails(g) ==
    /\ At(g, "write") /\ "ioError" \in budget
    /\ mapped' = [mapped EXCEPT ![KeyOf[g]] = NoId]
    /\ reg' = Unreserve(reg, KeyOf[g])
    /\ Exit(g, "failed")
    /\ budget' = budget \ {"ioError"}
    /\ UNCHANGED <<pool, crashes>>

MarkReady(g) ==
    /\ At(g, "markReady")
    /\ reg' = TouchBase(MarkBaseReady(reg, KeyOf[g]), KeyOf[g])
    /\ Go(g, "unreserve")
    /\ UNCHANGED <<pool, mapped, lock>> /\ Env

BaseBuilt(g) ==
    /\ At(g, "unreserve")
    /\ reg' = Unreserve(reg, KeyOf[g])
    /\ lock' = Unlocked(g)
    /\ proc' = [proc EXCEPT ![g].pc = "disk", ![g].id = NoId, ![g].tries = 0]
    /\ UNCHANGED <<pool, mapped>> /\ Env

\* A crashed build's claim lapses after reservationTTL, which is well past the
\* longest build.
Lapse(k) ==
    /\ reg.reserved[k] # 0 /\ lock[k] = NoGuest
    /\ reg' = Unreserve(reg, k)
    /\ UNCHANGED <<pool, mapped, lock, proc>> /\ Env

-----------------------------------------------------------------------------
(* EnsureGuest.                                                             *)

\* Mutant: an unknown guest gets a fresh disk.
CreateUnknown(g) ==
    /\ At(g, "known")
    /\ IF reg.guests[g] = NoId
       THEN Start(g, "create", "base")
       ELSE Go(g, "disk")
    /\ UNCHANGED <<reg, pool, mapped, lock>> /\ Env

\* Reactivate refuses a guest the node has no record of.
CheckKnown(g) ==
    /\ At(g, "known")
    /\ IF reg.guests[g] = NoId THEN Exit(g, "failed") ELSE Go(g, "disk") /\ UNCHANGED lock
    /\ UNCHANGED <<reg, pool, mapped>> /\ Env

DiskMapped(g) ==
    /\ At(g, "disk") /\ mapped[g] # NoId
    /\ Exit(g, "succeeded")
    /\ UNCHANGED <<reg, pool, mapped>> /\ Env

\* The guest has a disk: map it, and never snapshot again.
ReactivateDisk(g) ==
    LET id == reg.guests[g]
    IN  /\ At(g, "disk") /\ mapped[g] = NoId /\ id # NoId /\ g \in reg.created
        /\ IF id \in DOMAIN pool
           THEN mapped' = [mapped EXCEPT ![g] = id] /\ Exit(g, "succeeded")
           ELSE Exit(g, "failed") /\ UNCHANGED mapped
        /\ UNCHANGED <<reg, pool>> /\ Env

\* Allocated but never created: start over.  Without a base key (reactivate)
\* there is no base that is ready.
NewDisk(g) ==
    /\ At(g, "disk") /\ mapped[g] = NoId /\ ~(reg.guests[g] # NoId /\ g \in reg.created)
    /\ reg' = Forget(reg, g)
    /\ IF proc[g].mode = "create" THEN Go(g, "lockBase") /\ UNCHANGED lock ELSE Exit(g, "failed")
    /\ UNCHANGED <<pool, mapped>> /\ Env

\* The base's lock is held until the snapshot exists.
LockForSnapshot(g) ==
    LET k == KeyOf[g]
    IN  /\ At(g, "lockBase") /\ lock[k] = NoGuest
        /\ IF k \in reg.ready /\ reg.bases[k] # NoId
           THEN /\ lock' = [lock EXCEPT ![k] = g]
                /\ proc' = [proc EXCEPT ![g].pc = "allocGuest", ![g].base = reg.bases[k]]
           ELSE Exit(g, "failed")
        /\ UNCHANGED <<reg, pool, mapped>> /\ Env

\* An id allocated by another process since is activated as it is.
AllocGuest(g) ==
    LET r == AllocateGuest(reg, g)
        id == r.guests[g]
    IN  /\ At(g, "allocGuest") /\ r.nextID <= MaxID
        /\ reg' = r
        /\ IF reg.guests[g] = NoId
           THEN /\ proc' = [proc EXCEPT ![g].pc = "snap", ![g].id = id]
                /\ UNCHANGED <<mapped, lock>>
           ELSE IF id \in DOMAIN pool
           THEN mapped' = [mapped EXCEPT ![g] = id] /\ Exit(g, "succeeded")
           ELSE Exit(g, "failed") /\ UNCHANGED mapped
        /\ UNCHANGED pool /\ Env

SnapshotOf(base, g) == [pool[base] EXCEPT !.owner = g]

\* create_snap.
SnapshotBase(g) ==
    /\ At(g, "snap") /\ proc[g].id \notin DOMAIN pool /\ proc[g].base \in DOMAIN pool
    /\ pool' = With(proc[g].id, SnapshotOf(proc[g].base, g))
    /\ Go(g, "map")
    /\ UNCHANGED <<reg, mapped, lock>> /\ Env

SnapshotFails(g) ==
    /\ At(g, "snap") /\ proc[g].id \notin DOMAIN pool /\ proc[g].base \notin DOMAIN pool
    /\ reg' = Forget(reg, g)
    /\ Exit(g, "failed")
    /\ UNCHANGED <<pool, mapped>> /\ Env

\* Mutant: "File exists" is taken for this guest's own snapshot.
AdoptExisting(g) ==
    /\ At(g, "snap") /\ proc[g].id \in DOMAIN pool
    /\ Go(g, "map")
    /\ UNCHANGED <<reg, pool, mapped, lock>> /\ Env

SkipGuestID(g) ==
    /\ At(g, "snap") /\ proc[g].id \in DOMAIN pool
    /\ reg' = Advance(Forget(reg, g), proc[g].id)
    /\ IF proc[g].tries + 1 < MaxIDRetries
       THEN /\ proc' = [proc EXCEPT ![g].pc = "allocGuest", ![g].tries = proc[g].tries + 1]
            /\ UNCHANGED lock
       ELSE Exit(g, "failed")
    /\ UNCHANGED <<pool, mapped>> /\ Env

\* activate: dmsetup create, then mknodes.
MapDisk(g) ==
    /\ At(g, "map")
    /\ mapped' = [mapped EXCEPT ![g] = proc[g].id]
    /\ Go(g, "markCreated")
    /\ UNCHANGED <<reg, pool, lock>> /\ Env

\* Either of the two fails; the allocation is dropped as if there were no
\* snapshot, and after a failed mknodes the device stays mapped.
MapFails(g) ==
    /\ At(g, "map")
    /\ \/ "mapFails" \in budget /\ budget' = budget \ {"mapFails"} /\ UNCHANGED mapped
       \/ /\ "mknodesFails" \in budget /\ budget' = budget \ {"mknodesFails"}
          /\ mapped' = [mapped EXCEPT ![g] = proc[g].id]
    /\ reg' = Forget(reg, g)
    /\ Exit(g, "failed")
    /\ UNCHANGED <<pool, crashes>>

MarkCreated(g) ==
    /\ At(g, "markCreated")
    /\ reg' = MarkGuestCreated(reg, g, proc[g].base)
    /\ Exit(g, "succeeded")
    /\ UNCHANGED <<pool, mapped>> /\ Env

\* The last step of create, moving the backup GPT header, fails.
GrowFails(g) ==
    /\ At(g, "succeeded") /\ proc[g].mode = "create" /\ "growFails" \in budget
    /\ Go(g, "failed")
    /\ budget' = budget \ {"growFails"}
    /\ UNCHANGED <<reg, pool, mapped, lock, crashes>>

-----------------------------------------------------------------------------
(* ReleaseGuest.                                                            *)

\* A mapping that is held open could not be removed; the model does not rely
\* on that.
UnmapDisk(g) ==
    /\ At(g, "unmap")
    /\ mapped' = [mapped EXCEPT ![g] = NoId]
    /\ IF reg.guests[g] = NoId
       THEN Exit(g, "succeeded")
       ELSE /\ proc' = [proc EXCEPT ![g].pc = "delete", ![g].id = reg.guests[g]]
            /\ UNCHANGED lock
    /\ UNCHANGED <<reg, pool>> /\ Env

\* An id the pool does not hold counts as deleted.
DeleteDisk(g) ==
    /\ At(g, "delete")
    /\ IF IsMapped(proc[g].id)
       THEN Exit(g, "failed") /\ UNCHANGED pool
       ELSE pool' = Without(proc[g].id) /\ Go(g, "forgetGuest") /\ UNCHANGED lock
    /\ UNCHANGED <<reg, mapped>> /\ Env

\* A read-only pool deletes nothing.
PoolReadOnly(g) ==
    /\ At(g, "delete") /\ "readOnly" \in budget
    /\ budget' = budget \ {"readOnly"}
    /\ Exit(g, "failed")
    /\ UNCHANGED <<reg, pool, mapped, crashes>>

ForgetGuest(g) ==
    /\ At(g, "forgetGuest")
    /\ reg' = Forget(reg, g)
    /\ Exit(g, "succeeded")
    /\ UNCHANGED <<pool, mapped>> /\ Env

-----------------------------------------------------------------------------
\* A process is killed.  Killed(g) is also what deleting its pod does.
Killed(g) ==
    /\ Exit(g, "failed")
    /\ UNCHANGED <<reg, pool, mapped>>

Crash(g) ==
    /\ Running(g) /\ proc[g].pc \in CrashPoints /\ crashes < MaxCrashes
    /\ Killed(g)
    /\ crashes' = crashes + 1 /\ UNCHANGED budget

EnsureBase(g) ==
    \/ UseReadyBase(g) \/ LockBase(g) \/ ReserveRoom(g) \/ NoRoomYet(g) \/ DoesNotFit(g)
    \/ SkipBase(g) \/ EvictBase(g) \/ ForgetEvicted(g)
    \/ AllocBase(g) \/ DiscardPartial(g) \/ CreateBase(g) \/ SkipBaseID(g)
    \/ WriteBlock(g) \/ Populated(g) \/ MarkReady(g) \/ BaseBuilt(g)
EnsureGuest(g) ==
    \/ CheckKnown(g) \/ DiskMapped(g) \/ ReactivateDisk(g) \/ NewDisk(g) \/ LockForSnapshot(g)
    \/ AllocGuest(g) \/ SnapshotBase(g) \/ SnapshotFails(g) \/ SkipGuestID(g) \/ MapDisk(g)
    \/ MarkCreated(g)
ReleaseGuest(g) == UnmapDisk(g) \/ DeleteDisk(g) \/ ForgetGuest(g)

ProcStep(g) == EnsureBase(g) \/ EnsureGuest(g) \/ ReleaseGuest(g)
ProcFault(g) == PopulateFails(g) \/ MapFails(g) \/ GrowFails(g) \/ PoolReadOnly(g) \/ Crash(g)
=============================================================================
