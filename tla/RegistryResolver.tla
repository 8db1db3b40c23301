-------------------------- MODULE RegistryResolver --------------------------
(***************************************************************************)
(* The registry resolver of the sandbox controllers: reconciles ask it for  *)
(* a reference under some credentials, requests run off the reconcile       *)
(* workers, answers are kept for a while, and a digest's answer (which      *)
(* stands for the registry's authorization) is renewed in the background.   *)
(*                                                                         *)
(* A key is a reference with its credentials.  A step of this module is one *)
(* critical section of registryResolver.mu, one operation on a host's       *)
(* semaphore, or the registry's answer.  Times are kept as ages, which grow  *)
(* with Tick up to one past the longest TTL; a request's timeout is exact.  *)
(***************************************************************************)
EXTENDS Integers, FiniteSets

CONSTANTS Objects,                  \* sandboxes and pools that ask
          Keys, Digests,            \* references; those that pin a digest
          KeyOf, NamespaceOf, HostOf,
          GlobalLimit, NamespaceLimit, PerHost,
          SuccessTTL, ErrorTTL, AuthTTL, RefreshAt, Timeout,
          None, Faults

VARIABLES entries,   \* the resolver's map of answers
          flights,   \* requests not yet finished
          running, runningNS,
          hosts,     \* the semaphore of each host, and its users
          phase,     \* what each object is doing
          answer,    \* the last answer each object was given
          allowed    \* keys the registry would grant

vars == <<entries, flights, running, runningNS, hosts, phase, answer, allowed>>

Hosts == {HostOf[k] : k \in Keys}
Namespaces == {NamespaceOf[o] : o \in Objects}

Init == /\ flights = {}
        /\ entries = [k \in Keys |-> None]
        /\ running = 0 /\ runningNS = [n \in Namespaces |-> 0]
        /\ hosts = [h \in Hosts |-> None]
        /\ phase = [o \in Objects |-> "ask"]
        /\ answer = [o \in Objects |-> None]
        /\ allowed = Keys

\* An answer: its age as the resolver counts it, and since when the registry gave it.
Result(res, age, given) == [res |-> res, age |-> age, given |-> given]

TTL(k, res) == IF res # "ok" THEN ErrorTTL
               ELSE IF k \in Digests /\ AuthTTL > SuccessTTL THEN AuthTTL ELSE SuccessTTL

\* pruneLocked: finished entries past their time are forgotten.
Pruned == [k \in Keys |->
             IF entries[k] # None /\ entries[k].result # None
                /\ entries[k].result.age >= TTL(k, entries[k].result.res)
             THEN None ELSE entries[k]]

Admit(n) == running < GlobalLimit /\ runningNS[n] < NamespaceLimit

Flight(k, n, role, id) ==
  [key |-> k, ns |-> n, role |-> role, id |-> id, age |-> 0, step |-> "new", gen |-> 0, result |-> None]

\* An id no request and no entry of the key bears.
FreshID(k) == CHOOSE i \in 1..10 : /\ \A f \in flights : f.key = k => f.id # i
                                   /\ entries[k] # None => entries[k].id # i

Launch(k, n, role, id) ==
  /\ running' = running + 1
  /\ runningNS' = [runningNS EXCEPT ![n] = @ + 1]
  /\ flights' = flights \cup {Flight(k, n, role, id)}

NotRenewable(k, e) ==
  \/ e.result.res # "ok" \/ RefreshAt = 0 \/ k \notin Digests \/ e.refreshing
  \/ e.result.age < RefreshAt \/ e.failed < ErrorTTL

\* hitLocked: an answer old enough is renewed behind the caller's back.
Hit(k, n, e) ==
  IF NotRenewable(k, e) \/ ~Admit(n)
  THEN entries' = [Pruned EXCEPT ![k] = e] /\ UNCHANGED <<flights, running, runningNS>>
  ELSE entries' = [Pruned EXCEPT ![k] = [e EXCEPT !.refreshing = TRUE]] /\ Launch(k, n, "refresh", e.id)

Give(o, result) ==
  /\ answer' = [answer EXCEPT ![o] = result]
  /\ phase' = [phase EXCEPT ![o] = IF result.res = "unavailable" THEN "backoff" ELSE "done"]

\* get, as far as the lock is held; the wait that may follow is "inline".
Get(o) ==
  LET k == KeyOf[o]
      n == NamespaceOf[o]
      e == Pruned[k]
  IN  /\ phase[o] = "ask"
      /\ \/ /\ e # None /\ e.result # None
            /\ Hit(k, n, e) /\ Give(o, e.result)
         \/ /\ e # None /\ e.result = None
            /\ entries' = [Pruned EXCEPT ![k].waiters = @ \cup {o}]
            /\ phase' = [phase EXCEPT ![o] = "inline"]
            /\ UNCHANGED <<flights, running, runningNS, answer>>
         \/ /\ e = None /\ ~Admit(n)
            /\ entries' = Pruned
            /\ Give(o, Result("unavailable", 0, 0))
            /\ UNCHANGED <<flights, running, runningNS>>
         \/ /\ e = None /\ Admit(n)
            /\ Launch(k, n, "run", FreshID(k))
            /\ entries' = [Pruned EXCEPT ![k] = [id |-> FreshID(k), result |-> None, waiters |-> {o},
                                                 refreshing |-> FALSE, failed |-> ErrorTTL]]
            /\ phase' = [phase EXCEPT ![o] = "inline"]
            /\ UNCHANGED answer
      /\ UNCHANGED <<hosts, allowed>>

\* The inline wait ends; the object goes on when it is enqueued.
StopWaiting(o) ==
  /\ phase[o] = "inline"
  /\ phase' = [phase EXCEPT ![o] = "wait"]
  /\ UNCHANGED <<entries, flights, running, runningNS, hosts, answer, allowed>>

\* registryPendingRecheck, registryBackoff, or any later event of the object.
AskAgain(o) ==
  /\ phase[o] \in {"wait", "missed", "backoff", "done"}
  /\ phase' = [phase EXCEPT ![o] = "ask"]
  /\ answer' = [answer EXCEPT ![o] = None]
  /\ UNCHANGED <<entries, flights, running, runningNS, hosts, allowed>>

-----------------------------------------------------------------------------
(* Requests.                                                               *)

Move(f, g) == flights' = (flights \ {f}) \cup {g}

Holding(h, gen) == {f \in flights : HostOf[f.key] = h /\ f.gen = gen /\ f.step \in {"fetching", "answered"}}

\* acquire, under the lock: the host's semaphore, made if nobody uses it.
Enter(f) ==
  LET h == HostOf[f.key]
      g == IF hosts[h] = None
           THEN CHOOSE i \in 1..10 : \A x \in flights : HostOf[x.key] = h => x.gen # i
           ELSE hosts[h].gen
  IN  /\ f.step = "new"
      /\ hosts' = [hosts EXCEPT ![h] = [gen |-> g, users |-> IF @ = None THEN 1 ELSE @.users + 1]]
      /\ Move(f, [f EXCEPT !.step = "queued", !.gen = g])
      /\ UNCHANGED <<entries, running, runningNS, phase, answer, allowed>>

TakeSlot(f) ==
  /\ f.step = "queued" /\ Cardinality(Holding(HostOf[f.key], f.gen)) < PerHost
  /\ Move(f, [f EXCEPT !.step = "fetching"])
  /\ UNCHANGED <<entries, running, runningNS, hosts, phase, answer, allowed>>

\* The host is forgotten with its last user, waiting ones included.
LeaveHost(h, gen) ==
  [hosts EXCEPT ![h] = IF @.users = 1 THEN None ELSE [@ EXCEPT !.users = @ - 1]]

\* The context ends before a slot is free.
GiveUpSlot(f) ==
  /\ f.step = "queued" /\ f.age >= Timeout
  /\ hosts' = LeaveHost(HostOf[f.key], f.gen)
  /\ Move(f, [f EXCEPT !.step = "left", !.result = Result("unavailable", f.age, 0)])
  /\ UNCHANGED <<entries, running, runningNS, phase, answer, allowed>>

\* fetchRegistry: granted, refused, or nothing within the timeout.
RegistryAnswers(f) ==
  /\ f.step = "fetching"
  /\ \E res \in {IF f.key \in allowed THEN "ok" ELSE "refused"}
                \cup (IF "stall" \in Faults /\ f.age >= Timeout THEN {"unavailable"} ELSE {}) :
       Move(f, [f EXCEPT !.step = "answered", !.result = Result(res, f.age, 0)])
  /\ UNCHANGED <<entries, running, runningNS, hosts, phase, answer, allowed>>

FreeSlot(f) ==
  /\ f.step = "answered"
  /\ Move(f, [f EXCEPT !.step = "freed"])
  /\ UNCHANGED <<entries, running, runningNS, hosts, phase, answer, allowed>>

\* done, under the lock.
Done(f) ==
  /\ f.step = "freed"
  /\ hosts' = LeaveHost(HostOf[f.key], f.gen)
  /\ Move(f, [f EXCEPT !.step = "left"])
  /\ UNCHANGED <<entries, running, runningNS, phase, answer, allowed>>

\* releaseLocked: the request is over.
Release(f) ==
  /\ f.step = "left"
  /\ flights' = flights \ {f}
  /\ running' = running - 1
  /\ runningNS' = [runningNS EXCEPT ![f.ns] = @ - 1]
  /\ UNCHANGED hosts

\* The answer's age counts from when its request started.
Stamped(f) == f.result

\* run: the answer is kept, those still waiting inline read it, the others are
\* enqueued unless their channel is full.
RunEnds(f) ==
  LET e == entries[f.key]
      W == e.waiters
  IN  /\ f.role = "run"
      /\ Release(f)
      /\ entries' = [entries EXCEPT ![f.key] = [e EXCEPT !.result = Stamped(f), !.waiters = {}]]
      /\ \E D \in SUBSET {o \in W : phase[o] = "wait"} :
           /\ D = {} \/ "full" \in Faults
           /\ phase' = [o \in Objects |->
                IF o \in W /\ phase[o] = "inline" THEN IF f.result.res = "unavailable" THEN "backoff" ELSE "done"
                ELSE IF o \in D THEN "missed"
                ELSE IF o \in W /\ phase[o] = "wait" THEN "ask" ELSE phase[o]]
      /\ answer' = [o \in Objects |-> IF o \in W /\ phase[o] = "inline"
                                      THEN f.result ELSE answer[o]]
      /\ UNCHANGED allowed

\* An answer replaces the entry; without one the old entry stays, to expire on time.
Refreshed(f, e) ==
  IF f.result.res = "unavailable" THEN [e EXCEPT !.refreshing = FALSE, !.failed = 0]
  ELSE [id |-> f.id, result |-> Stamped(f), waiters |-> {}, refreshing |-> FALSE, failed |-> ErrorTTL]

\* The entry the renewal was for has been replaced since.
Replaced(f, e) == e # None /\ e.id # f.id

\* refresh: installed also where the old entry is gone, never over a newer one.
RefreshEnds(f) ==
  LET e == entries[f.key]
  IN  /\ f.role = "refresh"
      /\ Release(f)
      /\ entries' = [entries EXCEPT ![f.key] =
           IF Replaced(f, e) THEN e
           ELSE IF e = None /\ f.result.res = "unavailable" THEN None ELSE Refreshed(f, e)]
      /\ UNCHANGED <<phase, answer, allowed>>

RequestStep(f) == \/ Enter(f) \/ TakeSlot(f) \/ GiveUpSlot(f) \/ RegistryAnswers(f)
                  \/ FreeSlot(f) \/ Done(f) \/ RunEnds(f) \/ RefreshEnds(f)

Capped(n, m) == IF n < m THEN n + 1 ELSE n
Older(result) ==
  IF result = None THEN None
  ELSE [result EXCEPT !.age = Capped(@, AuthTTL + 1), !.given = Capped(@, AuthTTL + 1)]

\* No request outlives its timeout.
Tick ==
  /\ \A f \in flights : f.age < Timeout
  /\ entries' = [k \in Keys |-> IF entries[k] = None THEN None
                  ELSE [entries[k] EXCEPT !.result = Older(@), !.failed = Capped(@, ErrorTTL)]]
  /\ flights' = {[f EXCEPT !.age = @ + 1, !.result = Older(@)] : f \in flights}
  /\ UNCHANGED <<running, runningNS, hosts, phase, answer, allowed>>

Revoke(k) ==
  /\ k \in allowed /\ "revoke" \in Faults
  /\ allowed' = allowed \ {k}
  /\ UNCHANGED <<entries, flights, running, runningNS, hosts, phase, answer>>

Next == \/ \E o \in Objects : Get(o) \/ StopWaiting(o) \/ AskAgain(o)
        \/ \E f \in flights : RequestStep(f)
        \/ Tick \/ \E k \in Digests : Revoke(k)

Spec == Init /\ [][Next]_vars

-----------------------------------------------------------------------------
(* Properties.                                                             *)

TypeOK ==
  /\ running \in 0..GlobalLimit
  /\ runningNS \in [Namespaces -> 0..NamespaceLimit]
  /\ phase \in [Objects -> {"ask", "inline", "wait", "missed", "backoff", "done"}]
  /\ \A h \in Hosts : hosts[h] # None => hosts[h].users > 0

\* The counts the limits are checked against are the requests that run: the limits
\* of admitLocked bound the controller's goroutines, in all and per namespace.
CountsAreTrue ==
  /\ running = Cardinality(flights)
  /\ \A n \in Namespaces : /\ runningNS[n] = Cardinality({f \in flights : f.ns = n})
                           /\ runningNS[n] <= NamespaceLimit

\* At most perHost requests run against one registry host, although a host's
\* semaphore is dropped and made again (acquire).
HostLimit ==
  \A h \in Hosts :
    Cardinality({f \in flights : HostOf[f.key] = h /\ f.step \in {"fetching", "answered"}}) <= PerHost

\* A granted answer was granted within its window: revoking credentials applies to
\* new sandboxes after at most the authorization TTL, and a tag is never older than
\* the success TTL.
WithinWindow ==
  \A o \in Objects : answer[o] # None /\ answer[o].res = "ok" =>
    answer[o].given <= (IF KeyOf[o] \in Digests THEN AuthTTL ELSE SuccessTTL)

\* Whoever waits for a running request is in its list until told, but for an event that
\* found its channel full: nobody waits for an entry that is finished or replaced.
WaitsForSomething ==
  \A o \in Objects : phase[o] \in {"inline", "wait"} =>
    /\ entries[KeyOf[o]] # None /\ entries[KeyOf[o]].result = None
    /\ o \in entries[KeyOf[o]].waiters
    /\ \E f \in flights : f.key = KeyOf[o] /\ f.role = "run" /\ f.id = entries[KeyOf[o]].id
=============================================================================
