-------------------------- MODULE CandidatePipeline --------------------------
(***************************************************************************)
(* The way of a candidate to its selection (candidates/services.py,        *)
(* cad_realization.py, m10_evaluation.py, evaluation.py, comparison.py,    *)
(* selection.py).  Every service is called by a caller that holds records  *)
(* of earlier calls and passes whichever it likes: those of another        *)
(* candidate, of an older attempt, of a source that has since changed.     *)
(* Between two calls others commit revisions and sources are published,    *)
(* damaged or published twice.  A service only reads the project.          *)
(***************************************************************************)
EXTENDS CandidateSelection

CONSTANTS
  Manifests,     \* candidate name -> [schema, mappings, derivations] of requests
  Plans,         \* candidate name -> [disposition, child, driver, grouped, scope, classes]
  Results,       \* candidate name -> what the kernel says of a pair: [verdict, bound]
  Values,        \* of the state path that the candidates consume
  Artifacts,     \* sources of geometry
  Policies,      \* the evaluation policies in use
  MaxRevision,   \* bound: revisions explored
  MaxLosses      \* bound: sources damaged or made ambiguous

Names == DOMAIN Parts

ASSUME PipelineAssumption ==
  /\ DOMAIN Manifests = Names /\ DOMAIN Plans = Names /\ DOMAIN Results = Names
  /\ \A name \in Names : Results[name] \subseteq [verdict : Verdicts, bound : Nat]
  /\ Policies \subseteq EvaluationPolicies
  /\ MaxRevision \in Nat /\ MaxLosses \in Nat

VARIABLES
  version,      \* of every record: families do not mix (services.py:421-443)
  values,       \* revision -> the value it holds
  trusted,      \* <<artifact, revision>>: resolves in one run, bound to it
  losses,
  candidate,    \* name -> the candidate the caller has, or None
  cad,          \* the CAD stage the caller has last got, or None
  m10,          \* the M10 stage, likewise
  evaluation,   \* name -> the evaluation the caller has of it, or None
  comparison,
  selection

project == <<version, values, trusted, losses>>
desk == <<candidate, cad, m10, evaluation, comparison, selection>>
vars == <<project, desk>>

revision == Len(values)
State == [revision |-> revision, value |-> values[revision], trusted |-> trusted]

Init ==
  /\ version \in {1, 2}
  /\ values \in {<<v>> : v \in Values}
  /\ trusted = {<<a, 1>> : a \in Artifacts}
  /\ losses = 0
  /\ candidate = [name \in Names |-> None]
  /\ cad = None /\ m10 = None
  /\ evaluation = [name \in Names |-> None]
  /\ comparison = None /\ selection = None

Candidates == {candidate[name] : name \in Names} \ {None}
Evaluations == {evaluation[name] : name \in Names} \ {None}

-----------------------------------------------------------------------------
(* The project *)

Commit(v) ==
  /\ revision < MaxRevision
  /\ values' = Append(values, v)
  /\ UNCHANGED <<version, trusted, losses, desk>>

PublishSource(a) ==
  /\ <<a, revision>> \notin trusted
  /\ \A r \in 1 .. revision : <<a, r>> \notin trusted
  /\ trusted' = trusted \cup {<<a, revision>>}
  /\ UNCHANGED <<version, values, losses, desk>>

LoseSource(a) ==
  /\ losses < MaxLosses
  /\ losses' = losses + 1
  /\ trusted' = {source \in trusted : source[1] # a}
  /\ UNCHANGED <<version, values, desk>>

-----------------------------------------------------------------------------
(* The services *)

Synthesize(name) ==
  /\ candidate[name] = None
  /\ candidate' = [candidate EXCEPT ![name] =
       [name |-> name, intact |-> TRUE,
        synthesis |-> [version |-> version, revision |-> revision,
                       value |-> values[revision]]]]
  /\ UNCHANGED <<project, cad, m10, evaluation, comparison, selection>>

CadRequest(c, manifest) ==
  [candidate |-> c, schema |-> IF version = 2 THEN 3 ELSE manifest.schema,
   mappings |-> manifest.mappings, derivations |-> manifest.derivations]

\* realize; a call that raises changes nothing.
Realize(c, manifest) ==
  LET request == CadRequest(c, manifest)
      stage == RealizeCurrent(c, request, trusted)
  IN /\ MayRealize(c, c.synthesis, request, State)
     /\ stage # None
     /\ cad' = stage
     /\ UNCHANGED <<project, candidate, m10, evaluation, comparison, selection>>

\* The caller binds a plan to the realisation it has, and says which revision it
\* is working for.
M10Request(stage, plan) ==
  LET binding == [realization |-> stage.realization, disposition |-> plan.disposition,
                  grouped |-> plan.grouped, child |-> plan.child, driver |-> plan.driver]
  IN [realization |-> stage.realization, binding |-> binding, scope |-> plan.scope,
      classes |-> plan.classes]

Prove(name, r, plan, result, home) ==
  LET request == M10Request(cad, plan)
      pairs == PairsOf(Parts[name])
      stage == RunM10(r, cad, request, [pair \in pairs |-> result],
                      [pair \in pairs |-> home])
  IN /\ cad # None /\ cad.status = "success" /\ cad.realization.candidate.name = name
     /\ stage # None
     /\ m10' = stage
     /\ UNCHANGED <<project, candidate, cad, evaluation, comparison, selection>>

\* A stage not reached, of the candidate and of the revision the caller says.
Skip(c, r) ==
  /\ m10' = NotReached(c, r)
  /\ UNCHANGED <<project, candidate, cad, evaluation, comparison, selection>>

NoCad == [status |-> "not_reached", realization |-> None]

\* The drive admissibility is that of any candidate the caller has.  Bounds: one
\* evaluation of a name, and its stages are filed with it.
EvaluateCandidate(c, other, status, stage, required) ==
  LET cadRequest == IF stage.status = "success" THEN stage.realization.request ELSE None
      e == Evaluate(c, c.synthesis, [candidate |-> other, status |-> status], stage, m10,
                    required, cadRequest, m10.request, State)
  IN /\ evaluation[c.name] = None /\ e # None
     /\ evaluation' = [evaluation EXCEPT ![c.name] = e]
     /\ cad' = None /\ m10' = None
     /\ UNCHANGED <<project, candidate, comparison, selection>>

\* Over any sequence of entries, for the source and scope of the first.
CompareCandidates(entries, maximize) ==
  LET result == Compare(entries, maximize, ScopeOf(entries[1][2]), BindingOf(entries[1][1]),
                        version, State)
  IN /\ comparison = None
     /\ result # None
     /\ comparison' = result
     /\ UNCHANGED <<project, candidate, cad, m10, evaluation, selection>>

SelectCandidate(c, e, entries) ==
  LET result == Select(c, e, comparison, entries, State)
  IN /\ selection = None
     /\ result # None
     /\ selection' = result
     /\ UNCHANGED <<project, candidate, cad, m10, evaluation, comparison>>

-----------------------------------------------------------------------------
\* What may come out at home, of a plan that has something checked there.
HomesOf(plan) ==
  IF \E pair \in DOMAIN plan.classes : plan.classes[pair].home THEN HomeVerdicts ELSE {None}

Entries == {<<c, e>> : c \in Candidates, e \in Evaluations}

\* Bound: the caller goes on to another candidate only after one that can be
\* compared.
Next ==
  \/ \E v \in Values : Commit(v)
  \/ \E a \in Artifacts : PublishSource(a) \/ LoseSource(a)
  \/ /\ selection = None
     /\ \A e \in Evaluations : e.metric # None
     /\ \/ \E name \in Names : Synthesize(name)
        \/ \E c \in Candidates, name \in Names :
             \E manifest \in Manifests[name] : Realize(c, manifest)
        \/ \E name \in Names : \E plan \in Plans[name] :
             \E result \in Results[name], home \in HomesOf(plan), r \in 1 .. revision :
               Prove(name, r, plan, result, home)
        \/ \E c \in Candidates, r \in 1 .. revision : Skip(c, r)
        \/ m10 # None /\ \E c, other \in Candidates, status \in M12Statuses,
             stage \in {cad, NoCad} \ {None}, required \in Policies :
               EvaluateCandidate(c, other, status, stage, required)
        \/ \E x, y \in Entries, maximize \in BOOLEAN :
             CompareCandidates(<<x>>, maximize) \/ CompareCandidates(<<x, y>>, maximize)
  \/ \E x \in Entries :
       SelectCandidate(x[1], x[2], IF comparison = None THEN None
                                   ELSE comparison.entries)

Spec == Init /\ [][Next]_vars

-----------------------------------------------------------------------------
(* Properties *)

\* A feasible verdict whose policy asks for M10 rests on proofs about this very
\* candidate: its drive is admissible, every pair the scope wants proved is
\* proved clear by more than the clearance asked for, on the geometry realised
\* from it, and no pair moves in a way nothing was proved about
\* (evaluation.py:211-319, 901-1000; m10_evaluation.py:823-962).
FeasibleIsProved ==
  \A e \in Evaluations :
    e.outcome = "feasible" /\ "m10" \in e.required =>
      /\ e.m12 = [candidate |-> e.candidate, status |-> "admissible"]
      /\ e.m10.request.realization = e.cad.realization
      /\ e.cad.realization.candidate = e.candidate
      /\ \A pair \in PairsOf(PartsOf(e.candidate)) :
           e.m10.request.classes[pair].class # "unmodeled_motion"
      /\ LET required == e.m10.request.scope.required
         IN \A pair \in DOMAIN required :
              required[pair].class = "check_clearance" =>
                /\ pair \in DOMAIN e.m10.proofs
                /\ e.m10.proofs[pair].verdict = "verified_clear"
                /\ e.m10.proofs[pair].bound > e.m10.request.scope.clearance

\* No evaluation, however little its policy requires, stops half way: where there
\* is a realised geometry its motion was examined, on that geometry and for its own
\* source, and where there is none nothing is said of motion.  Of a drive known to be
\* inadmissible only the second version says anything of motion
\* (evaluation.py:1053-1322, 805-1000).
StagesComplete ==
  \A e \in Evaluations :
    /\ (e.cad.status = "success") = (e.m10.status # "not_reached")
    /\ e.m10.status # "not_reached" =>
         /\ e.m10.request.realization = e.cad.realization
         /\ e.m10.revision = SourceOf(e.candidate)
    /\ version = 1 /\ e.m12.status = "inadmissible" => e.m10.status = "not_reached"

\* An evaluation holds exactly as long as the state has the value its candidate
\* consumed and the sources of its geometry can be read: neither a revision that
\* changes something else nor the way the record was made ends it.  One that keeps a
\* stage not reached of another source never holds, though the second version makes
\* it (evaluation.py:1404-1536, 1681-2024; services.py:475-535).
EvaluationStands ==
  \A e \in Evaluations :
    LET c == e.candidate
        foreign == version = 2 /\ e.m10.status = "not_reached" /\ e.m10.revision # SourceOf(c)
    IN VerifyCurrent(e, c, c.synthesis, State)
         <=> /\ ~ foreign
             /\ values[revision] = c.synthesis.value
             /\ version = 2 \/ e.cad.status = "success" => SourcesResolve(c, trusted)

\* At the moment of a selection everything it rests on is of the value the state
\* has then: the choice and all it was compared with are feasible, of one scope,
\* and none was overtaken between comparison and selection
\* (selection.py:458-640; comparison.py:641-780).
SelectionIsOfNow ==
  [][ selection' # selection =>
        LET chosen == <<selection'.candidate, selection'.evaluation>>
            members == IF selection'.comparison = None THEN {chosen}
                       ELSE Range(selection'.comparison.entries)
        IN /\ chosen \in members
           /\ \A member \in members :
                /\ member[2].candidate = member[1]
                /\ member[2].outcome = "feasible"
                /\ member[1].synthesis.value = values[revision]
                /\ ScopeOf(member[2]) = ScopeOf(chosen[2]) ]_vars

\* A comparison ranks every candidate once, by the clearance its own evaluation
\* certifies, the best first in the direction of the policy
\* (comparison.py:641-780).
RankingIsByClearance ==
  comparison # None =>
    LET ranking == comparison.ranking
        metric(i) == comparison.entries[ranking[i]][2].metric
    IN /\ Len(ranking) = Len(comparison.entries)
       /\ {ranking[i] : i \in DOMAIN ranking} = DOMAIN comparison.entries
       /\ \A i \in 2 .. Len(ranking) :
            IF comparison.maximize THEN metric(i) <= metric(i - 1)
            ELSE metric(i) >= metric(i - 1)
=============================================================================
