-------------------------- MODULE DecisionPackage --------------------------
(***************************************************************************)
(* Decision packages: the open questions of a PM analysis, merged where    *)
(* they ask the same, their dependencies, the authority that may decide    *)
(* them and the evidence that it has: src/pipeline/decisions.js.           *)
(*                                                                         *)
(* A package is what its evidence says of every source question; the       *)
(* decisions in it and its gate are recomputed from that evidence whenever *)
(* a package is built or read, so they are operators here.                 *)
(*                                                                         *)
(* Abstractions: questions are numbered in the order of their ids, P0 to   *)
(* P4 are the severities 0 to 4.  An attestation is the actor and the      *)
(* record (its id, revision and digest) with a signature that verifies     *)
(* when what it covers is in Signed.  The fields that are only carried     *)
(* along (texts, context, provenance, reversibility) are left out.         *)
(***************************************************************************)
EXTENDS Integers, FiniteSets, FiniteSetsExt

CONSTANTS
    Questions,      \* questions that a PM analysis may ask
    Facts,          \* Facts[q]: a question and its enrichment
    OptionIds,
    Texts,          \* what an answer may say
    Registry,       \* Registry[a]: role and allowed routes of a trusted actor
    Records,        \* immutable records of an authority
    Signed,         \* what the actors have signed
    None

Authorities == {"A1", "A2", "A3"}

QuestionFacts ==
    [key : Nat, severity : 0..4, missing : BOOLEAN, preference : BOOLEAN,
     options : SUBSET (OptionIds \X Texts), dependencies : SUBSET Nat]

Payload ==
    [source : Questions, decision : Texts, authority : Authorities,
     actor : DOMAIN Registry, record : Records]

ASSUME DecisionAssumption ==
    /\ Questions \subseteq Nat /\ IsFiniteSet(Questions)
    /\ Facts \in [Questions -> QuestionFacts]
    /\ OptionIds \intersect Texts = {}
    /\ Signed \subseteq Payload
    /\ None \notin Records /\ None \notin DOMAIN Registry

-----------------------------------------------------------------------------
(* Classification and authority *)

Blocking(severity) == severity \in 0..2

(* classifyCanonicalQuestion                                               *)
Authority(severity, missing) ==
    CASE severity \in {0, 2} -> "A3"
      [] severity = 1 -> IF missing THEN "A3" ELSE "A2"
      [] OTHER -> "A1"

Classifiable(q) ==
    /\ Facts[q].missing => Facts[q].severity = 1
    /\ Facts[q].preference => Facts[q].severity \notin {0, 2}

AuthorityOf(q) == Authority(Facts[q].severity, Facts[q].missing)

Roles(authority) ==
    CASE authority = "A2" -> {"ARCHITECT", "SPECIALIST"}
      [] authority = "A3" -> {"CEO", "USER"}
      [] OTHER -> {}

(* canonicalAuthorityRegistry: every route fits the actor's role.          *)
RegistryValid ==
    /\ DOMAIN Registry # {}
    /\ \A a \in DOMAIN Registry :
          /\ Registry[a].routes # {}
          /\ \A r \in Registry[a].routes : Registry[a].role \in Roles(r)

-----------------------------------------------------------------------------
(* Resolutions *)

Resolution ==
    [decision : Texts, authority : Authorities,
     actor : DOMAIN Registry \union {None}, record : Records \union {None}]

Attested(r) == r.actor # None /\ r.record # None

(* Faulty: what the actor signed for one source is taken for another.      *)
GenuineForAnySource(q, r) ==
    \E p \in Signed :
        /\ p.decision = r.decision /\ p.authority = r.authority
        /\ p.actor = r.actor /\ p.record = r.record

(* The signature covers authorityAttestationSigningPayload.                *)
Genuine(q, r) ==
    [source |-> q, decision |-> r.decision, authority |-> r.authority,
     actor |-> r.actor, record |-> r.record] \in Signed

(* parseAuthorityAttestation                                               *)
AttestationValid(q, r) ==
    /\ Attested(r)
    /\ Registry[r.actor].role \in Roles(AuthorityOf(q))
    /\ AuthorityOf(q) \in Registry[r.actor].routes
    /\ Genuine(q, r)

(* parseAuthorityResolution: the authority is that of the classification,  *)
(* attested when the question blocks and not attested when it does not.    *)
ResolutionValid(q, r) ==
    /\ r.authority = AuthorityOf(q)
    /\ IF Blocking(Facts[q].severity) THEN AttestationValid(q, r)
       ELSE r.actor = None /\ r.record = None

Evidence == [resolved : BOOLEAN, resolution : Resolution \union {None}]

(* The source questions of a package are its domain.                       *)
IsPackage(p) == DOMAIN p \subseteq Questions /\ \A q \in DOMAIN p : p[q] \in Evidence

Unresolved(S) == [q \in S |-> [resolved |-> FALSE, resolution |-> None]]

(* analyzeQuestion, of a source question with its evidence                 *)
Analyzed(p, q) ==
    /\ Classifiable(q)
    /\ IF p[q].resolution = None
       THEN ~(Blocking(Facts[q].severity) /\ p[q].resolved)
       ELSE ResolutionValid(q, p[q].resolution)

(* The record of the authority that p relies on for q                      *)
RecordOf(p, q) == IF p[q].resolution = None THEN None ELSE p[q].resolution.record

(* assertUniqueAuthorityAttestations                                       *)
RecordsUnique(p) ==
    \A q, r \in DOMAIN p : RecordOf(p, q) = RecordOf(p, r) /\ q # r => RecordOf(p, q) = None

-----------------------------------------------------------------------------
(* Decisions: source questions of one meaning about the same entities *)

Sources(p, q) == {r \in DOMAIN p : Facts[r].key = Facts[q].key}

CanonicalId(p, q) == Min(Sources(p, q))

Decisions(p) == {CanonicalId(p, q) : q \in DOMAIN p}

(* Faulty: the first source speaks for all of them.                        *)
SeverityOfFirst(p, d) == Facts[d].severity

(* selectMostBlockingSeverity                                              *)
Severity(p, d) == Min({Facts[q].severity : q \in Sources(p, d)})

Options(p, d) == UNION {Facts[q].options : q \in Sources(p, d)}

(* mergeOptions: one label for an option id                                *)
OptionsMerge(p, d) == \A x, y \in Options(p, d) : x[1] = y[1] => x = y

DependsOn(p, d) == UNION {Facts[q].dependencies : q \in Sources(p, d)}

(* A relation without a cycle: taking away, again and again, what nothing  *)
(* points to leaves nothing.                                               *)
Acyclic(nodes, edges) ==
    LET left[k \in Nat] ==
            IF k = 0 THEN nodes
            ELSE LET rest == left[k-1]
                 IN  {n \in rest : \E m \in rest : <<m, n>> \in edges}
    IN  left[Cardinality(nodes)] = {}

(* mergeGroup and stableTopologicalOrder: nothing dangles, no decision     *)
(* waits for itself.                                                       *)
Ordered(p) ==
    /\ \A d \in Decisions(p) : DependsOn(p, d) \subseteq DOMAIN p
    /\ Acyclic(Decisions(p),
               {x \in Decisions(p) \X Decisions(p) :
                   \E q \in DependsOn(p, x[1]) : CanonicalId(p, q) = x[2]})

Resolved(p, d) == \A q \in Sources(p, d) : p[q].resolved

(* mergeGroup: a blocking decision is resolved by the resolution of every  *)
(* source, also of one that would not block by itself.                     *)
Substantiated(p, d) ==
    Blocking(Severity(p, d)) /\ Resolved(p, d) =>
        \A q \in Sources(p, d) : p[q].resolution # None

(* buildDecisionPackage returns; canonicalPackage accepts what is stored.  *)
Builds(p) ==
    /\ \A q \in DOMAIN p : Analyzed(p, q)
    /\ RecordsUnique(p)
    /\ \A d \in Decisions(p) : OptionsMerge(p, d) /\ Substantiated(p, d)
    /\ Ordered(p)

-----------------------------------------------------------------------------
(* The gate *)

(* recomputeGate                                                           *)
OpenDecisions(p) == {d \in Decisions(p) : Blocking(Severity(p, d)) /\ ~Resolved(p, d)}
OpenAssumptions(p) == {d \in Decisions(p) : ~Blocking(Severity(p, d)) /\ ~Resolved(p, d)}

CanContinue(p) == OpenDecisions(p) = {}

(* evaluateDecisionGate and decisionEvidence of architecture.js: the       *)
(* questions a package settles for the validators                          *)
Settled(p) ==
    IF CanContinue(p) THEN {q \in DOMAIN p : Resolved(p, CanonicalId(p, q))} ELSE {}

-----------------------------------------------------------------------------
(* An answer: an option or a text, with a resolution for every source *)

AnswerTexts(p, d, answer) ==
    IF answer \in OptionIds
    THEN {x[2] : x \in {y \in Options(p, d) : y[1] = answer}}
    ELSE {answer}

(* The evidence of p with the resolutions of some sources in place         *)
Resolve(p, given) ==
    [q \in DOMAIN p |->
        IF q \in DOMAIN given THEN [resolved |-> TRUE, resolution |-> given[q]] ELSE p[q]]

(* resolvedPackage of commands/decisions.js returns.                       *)
Answers(p, d, answer, given) ==
    /\ DOMAIN given = Sources(p, d)
    /\ \A q \in Sources(p, d) : given[q].decision \in AnswerTexts(p, d, answer)
    /\ Builds(Resolve(p, given))
=============================================================================
