-------------------------- MODULE ArtifactDecision --------------------------
(***************************************************************************)
(* What a sandbox does with its artifacts before it starts: which           *)
(* SwiftArtifactVerificationPolicies govern each one (artifactpolicy.Decide) *)
(* and, with the registry's answers so far, whether the sandbox waits, fails *)
(* or goes on, and with which artifacts (resolveArtifactRequests).           *)
(*                                                                         *)
(* A repository is a sequence of segments.  Policies are added and removed,  *)
(* credentials break, the registry answers and the deadline of optional      *)
(* artifacts passes while passes run.                                        *)
(***************************************************************************)
EXTENDS Naturals, Sequences, FiniteSets

CONSTANTS Artifacts,      \* records: name, repo, tag, optional, claims, platform
          PolicyShapes,   \* records: selector, globs, readable, valid, digest, other, claims
          MaxPolicies, Warm, MaxFaults, Faults

VARIABLES policies,   \* the cluster's verification policies
          registry,   \* per artifact: pending, ok, refused, unavailable
          cred,       \* artifacts whose credentials cannot be used
          late,       \* the optional artifacts' deadline has passed
          sandbox,    \* phase, reason, statuses
          faults

vars == <<policies, registry, cred, late, sandbox, faults>>

Fail(f) == f \in Faults /\ faults < MaxFaults /\ faults' = faults + 1

Init == /\ policies \in {P \in SUBSET PolicyShapes : Cardinality(P) <= MaxPolicies}
        /\ registry = [a \in Artifacts |-> "pending"]
        /\ cred = {} /\ late = FALSE /\ faults = 0
        /\ sandbox = [phase |-> "New", reason |-> "", mounts |-> {}]

-----------------------------------------------------------------------------
(* Repository globs: * stands for a segment, ** for any number of them.    *)

RECURSIVE MatchSegments(_, _)
MatchSegments(g, r) ==
  IF g = << >> THEN r = << >>
  ELSE IF Head(g) = "**" THEN \E i \in 0..Len(r) : MatchSegments(Tail(g), SubSeq(r, i + 1, Len(r)))
  ELSE r # << >> /\ (Head(g) = "*" \/ Head(g) = Head(r)) /\ MatchSegments(Tail(g), Tail(r))

-----------------------------------------------------------------------------
(* The decision for one artifact.                                          *)

\* A policy whose namespace selector cannot be read selects every namespace.
Selecting == {p \in policies : p.selector # "elsewhere"}

\* A policy whose repositories cannot be read governs all of them.
Governs(p, a) == ~p.readable \/ \E g \in p.globs : MatchSegments(g, a.repo)
Governing(a) == {p \in Selecting : Governs(p, a)}

\* A policy that does not compile refuses what it governs.
Compiles(p) == p.valid /\ p.readable /\ p.selector # "bad"

\* A policy's claim has a key, and accepts either fixed values or the value of the
\* artifact's claim it names; the artifact's claims are a function.
Claimed(a) == DOMAIN a.claims
FromArtifact(P) == {c.from : c \in {d \in UNION {p.claims : p \in P} : d.from # ""}}
Accepted(c, a) == IF c.from = "" THEN c.values ELSE {a.claims[c.from]}

\* One governing policy: the first thing that refuses the artifact, or "".
DecidePolicy(p, a, P) ==
  IF ~Compiles(p) THEN "PolicyInvalid"
  ELSE IF p.digest /\ a.tag THEN "TagReference"
  ELSE IF \E c \in p.claims : c.from # "" /\ c.from \notin Claimed(a) THEN "MissingClaimValue"
  ELSE IF \E k \in Claimed(a) \ FromArtifact(P) :
            \E c \in p.claims : c.key = k /\ a.claims[k] \notin Accepted(c, a)
       THEN "ClaimConflict"
  ELSE ""

\* Every governing policy must be met; with none, the others may still refuse it.
Decide(a) ==
  LET P == Governing(a)
  IN  IF P = {} THEN IF (\E p \in Selecting : ~p.other) THEN "RepositoryNotAllowed"
                     ELSE IF a.platform \/ Claimed(a) # {} THEN "NoMatchingPolicy" ELSE ""
      ELSE LET bad == {p \in P : DecidePolicy(p, a, P) # ""}
           IN  IF bad = {} THEN "" ELSE DecidePolicy(CHOOSE p \in bad : TRUE, a, P)

-----------------------------------------------------------------------------
(* The resolution of all of them.                                          *)

Skip == "Skipped"
\* Unanswered optional artifacts are waited for by a cold start until their deadline.
Waits == ~Warm /\ ~late

\* One artifact's part in the outcome, in the order of the code's cases.
Outcome(a) ==
  IF Decide(a) # "" THEN IF a.optional THEN Skip ELSE "denied"
  ELSE IF a \in cred THEN IF a.optional THEN Skip ELSE "refused"
  ELSE IF registry[a] = "ok" THEN "Resolved"
  ELSE IF ~a.optional
       THEN IF registry[a] = "pending" THEN "wait" ELSE IF registry[a] = "refused" THEN "refused" ELSE "transient"
  ELSE IF registry[a] = "refused" THEN Skip
  ELSE IF Waits THEN "wait" ELSE Skip

Has(x) == \E a \in Artifacts : Outcome(a) = x

\* A policy's refusal outranks the registry's, a refusal outranks a transient error.
Verdict ==
  IF Has("denied") THEN "ArtifactPolicyDenied"
  ELSE IF Has("refused") THEN "ArtifactResolveFailed"
  ELSE IF Has("transient") THEN "Backoff"
  ELSE IF Has("wait") THEN "Wait" ELSE "Start"

\* A pass of the sandbox's controller over its artifacts.
Pass ==
  /\ sandbox.phase = "New" /\ Verdict \notin {"Backoff", "Wait"}
  /\ sandbox' = IF Verdict = "Start"
                THEN [phase |-> "Started", reason |-> "",
                      mounts |-> {a \in Artifacts : Outcome(a) = "Resolved"}]
                ELSE [phase |-> "Failed", reason |-> Verdict, mounts |-> {}]
  /\ UNCHANGED <<policies, registry, cred, late, faults>>

-----------------------------------------------------------------------------
(* The registry, the clock, the administrator.                             *)

RegistryAnswers(a) ==
  /\ sandbox.phase = "New"
  /\ \/ registry[a] \in {"pending", "unavailable"} /\ UNCHANGED faults
        /\ registry' = [registry EXCEPT ![a] = "ok"]
     \/ Fail("registry") /\ \E x \in {"refused", "unavailable"} : registry' = [registry EXCEPT ![a] = x]
  /\ UNCHANGED <<policies, cred, late, sandbox>>

DeadlinePasses ==
  /\ ~late /\ sandbox.phase = "New" /\ late' = TRUE
  /\ UNCHANGED <<policies, registry, cred, sandbox, faults>>

ChangePolicies ==
  /\ sandbox.phase = "New" /\ Fail("policy")
  /\ \/ \E p \in policies : policies' = policies \ {p}
     \/ /\ Cardinality(policies) < MaxPolicies
        /\ \E p \in PolicyShapes \ policies : policies' = policies \cup {p}
  /\ UNCHANGED <<registry, cred, late, sandbox>>

ChangeSecret(a) ==
  /\ sandbox.phase = "New" /\ Fail("secret")
  /\ cred' = IF a \in cred THEN cred \ {a} ELSE cred \cup {a}
  /\ UNCHANGED <<policies, registry, late, sandbox>>

Next == \/ Pass \/ DeadlinePasses \/ ChangePolicies
        \/ \E a \in Artifacts : RegistryAnswers(a) \/ ChangeSecret(a)
Spec == Init /\ [][Next]_vars

-----------------------------------------------------------------------------
(* Properties.                                                             *)

TypeOK == /\ sandbox.phase \in {"New", "Started", "Failed"} /\ sandbox.mounts \subseteq Artifacts
          /\ registry \in [Artifacts -> {"pending", "ok", "refused", "unavailable"}]

\* A glob matches a repository iff its segments can be laid over it, each * over one
\* segment and each ** over any number: what MatchRepository's recursion computes.
Covers(g, r) ==
  \E w \in [1..Len(g) -> 0..Len(r)] :
    LET at[i \in 0..Len(g)] == IF i = 0 THEN 0 ELSE at[i - 1] + w[i]
    IN  /\ at[Len(g)] = Len(r)
        /\ \A i \in 1..Len(g) : g[i] # "**" => w[i] = 1 /\ at[i] <= Len(r) /\ (g[i] = "*" \/ g[i] = r[at[i]])
GlobsCover ==
  \A p \in policies, a \in Artifacts : \A g \in p.globs : MatchSegments(g, a.repo) <=> Covers(g, a.repo)

\* An artifact may be used iff every policy that governs it is valid and met; where
\* none does, iff no policy closes the namespace and it asks for nothing a policy
\* would have to check: Decide takes every governing policy, and an invalid one refuses.
Met(p, a, P) ==
  /\ Compiles(p) /\ (p.digest => ~a.tag)
  /\ \A c \in p.claims : c.from # "" => c.from \in Claimed(a)
  /\ \A k \in Claimed(a) :
       \/ \E q \in P : \E c \in q.claims : c.from = k
       \/ \A c \in p.claims : c.key # k \/ a.claims[k] \in (IF c.from = "" THEN c.values ELSE {a.claims[c.from]})
MayUse(a) ==
  LET S == {p \in policies : p.selector \in {"here", "bad"}}
      P == {p \in S : ~p.readable \/ \E g \in p.globs : Covers(g, a.repo)}
  IN  IF P # {} THEN \A p \in P : Met(p, a, P)
      ELSE (\A p \in S : p.other) /\ ~a.platform /\ Claimed(a) = {}
DecidesRight == \A a \in Artifacts : (Decide(a) = "") <=> MayUse(a)

\* What starts, mounts no artifact a policy refuses or whose credentials cannot be
\* used, and every required one.
StartsRight ==
  sandbox.phase = "New" /\ sandbox'.phase = "Started" =>
     /\ \A a \in sandbox'.mounts : MayUse(a) /\ a \notin cred /\ registry[a] = "ok"
     /\ \A a \in Artifacts : ~a.optional => a \in sandbox'.mounts

\* Only a required artifact fails a sandbox, and a policy's refusal is told as such.
FailsRight ==
  sandbox.phase = "New" /\ sandbox'.phase = "Failed" =>
     /\ \E a \in Artifacts : ~a.optional /\ (~MayUse(a) \/ a \in cred \/ registry[a] = "refused")
     /\ (sandbox'.reason = "ArtifactPolicyDenied") <=>
          \E a \in Artifacts : ~a.optional /\ ~MayUse(a)

\* The artifacts are decided: the sandbox starts or fails.
Over == sandbox.phase # "New"
=============================================================================
