----------------------------- MODULE ThinRegistry -----------------------------
(***************************************************************************)
(* The bookkeeping of a node's thin pool (internal/thinpool/registry.go):  *)
(* which thin device holds which base image and which guest's disk.  The   *)
(* registry is one file; withLock loads it, changes it and stores it under *)
(* an exclusive lock, so each operation here is one atomic step of the     *)
(* module that uses it.  A registry is a record; an operation maps one     *)
(* registry to the next.                                                   *)
(***************************************************************************)
EXTENDS Integers, Sequences, FiniteSetsExt

CONSTANTS
    Keys,     \* content identities of base images
    Guests    \* guests, by namespace/name/uid

\* "No entry in the map": the maps are functions on all keys.
NoId == -1

\* Bases and Guests name thin devices; Ready and Created say that the device
\* was completely written, or created at all; Derived is the base device a
\* guest's disk was snapshotted from; Used is kept as the order of last use,
\* least recent first; Reserved is pool space promised to a build (0: none).
EmptyRegistry ==
    [nextID |-> 0,
     bases |-> [k \in Keys |-> NoId], ready |-> {}, used |-> <<>>,
     guests |-> [g \in Guests |-> NoId], created |-> {},
     derived |-> [g \in Guests |-> NoId],
     reserved |-> [k \in Keys |-> 0]]

-----------------------------------------------------------------------------
AllocateBase(r, k) ==
    IF r.bases[k] # NoId THEN r
    ELSE [r EXCEPT !.bases[k] = r.nextID, !.nextID = r.nextID + 1]

AllocateGuest(r, g) ==
    IF r.guests[g] # NoId THEN r
    ELSE [r EXCEPT !.guests[g] = r.nextID, !.nextID = r.nextID + 1]

Advance(r, past) ==
    [r EXCEPT !.nextID = IF r.nextID > past THEN r.nextID ELSE past + 1]

Forget(r, g) ==
    [r EXCEPT !.guests[g] = NoId, !.created = r.created \ {g}, !.derived[g] = NoId]

MarkGuestCreated(r, g, base) ==
    [r EXCEPT !.created = r.created \cup {g}, !.derived[g] = base]

ForgetBase(r, k) ==
    [r EXCEPT !.bases[k] = NoId, !.ready = r.ready \ {k},
              !.used = SelectSeq(r.used, LAMBDA u : u # k)]

MarkBaseReady(r, k) ==
    [r EXCEPT !.ready = r.ready \cup {k}]

TouchBase(r, k) ==
    [r EXCEPT !.used = Append(SelectSeq(r.used, LAMBDA u : u # k), k)]

-----------------------------------------------------------------------------
\* Mutant: the other builds' reservations are not looked at.
HeldByNobody(r, k) == 0

\* Space: what other builds hold does not count as free.
Held(r, k) == MapThenSumSet(LAMBDA o : r.reserved[o], Keys \ {k})

CanReserve(r, k, bytes, free) == free >= Held(r, k) + bytes

Reserve(r, k, bytes) == [r EXCEPT !.reserved[k] = bytes]

Unreserve(r, k) == [r EXCEPT !.reserved[k] = 0]

\* Least recently used first; a base with no recorded use goes before those, in
\* some fixed order.
lruOrder(r, digests) ==
    LET unused == digests \ Range(r.used)
    IN  FoldSet(LAMBDA k, seq : Append(seq, k), <<>>, unused) \o SelectSeq(r.used, LAMBDA k : k \in digests)

\* Bases no guest was snapshotted from, then the ones live guests share.
EvictionOrder(r) ==
    LET known == {k \in Keys : r.bases[k] # NoId}
        held == {k \in known : \E g \in Guests : r.guests[g] # NoId /\ r.derived[g] = r.bases[k]}
    IN  lruOrder(r, known \ held) \o lruOrder(r, held)
=============================================================================
