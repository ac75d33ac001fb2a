------------------------ MODULE CandidatePipelineProofs ------------------------
(***************************************************************************)
(* Theorems about the way of a candidate to its selection, for any         *)
(* candidates, geometry, plans, results of the kernel, policies and        *)
(* changes to the project.                                                 *)
(***************************************************************************)
EXTENDS CandidatePipeline, WellFoundedInduction, TLAPS

-----------------------------------------------------------------------------
(* Candidates: each is of a revision there is, with the value it has there. *)

Synthesised(name, c) ==
  /\ c.name = name /\ c.intact
  /\ c.synthesis.version = version
  /\ c.synthesis.revision \in 1 .. revision
  /\ c.synthesis.value = values[c.synthesis.revision]

CandidatesInv ==
  /\ version \in {1, 2} /\ values \in Seq(Values) /\ revision >= 1
  /\ DOMAIN candidate = Names
  /\ \A name \in Names : candidate[name] # None => Synthesised(name, candidate[name])

Calls ==
  \/ \E c \in Candidates, name \in Names :
       \E manifest \in Manifests[name] : Realize(c, manifest)
  \/ \E name \in Names : \E plan \in Plans[name] :
       \E result \in Results[name], home \in HomesOf(plan), r \in 1 .. revision :
         Prove(name, r, plan, result, home)
  \/ \E c \in Candidates, r \in 1 .. revision : Skip(c, r)
  \/ m10 # None /\ \E c, other \in Candidates, status \in M12Statuses,
       stage \in {cad, NoCad} \ {None}, required \in Policies :
         EvaluateCandidate(c, other, status, stage, required)
  \/ \E x, y \in Entries, maximize \in BOOLEAN :
       CompareCandidates(<<x>>, maximize) \/ CompareCandidates(<<x, y>>, maximize)
  \/ \E x \in Entries :
       SelectCandidate(x[1], x[2], IF comparison = None THEN None
                                   ELSE comparison.entries)

LEMMA Steps ==
  ASSUME [Next]_vars
  PROVE  \/ UNCHANGED vars
         \/ \E v \in Values : Commit(v)
         \/ \E a \in Artifacts : PublishSource(a) \/ LoseSource(a)
         \/ \E name \in Names : Synthesize(name)
         \/ Calls
  BY DEF Next, Calls

LEMMA CallsOnly ==
  ASSUME Calls
  PROVE  UNCHANGED <<project, candidate>>
<1> USE DEF Calls
<1>1. ASSUME NEW c, NEW manifest, Realize(c, manifest)
      PROVE  UNCHANGED <<project, candidate>>
  BY <1>1 DEF Realize
<1>2. ASSUME NEW name, NEW r, NEW plan, NEW result, NEW home,
             Prove(name, r, plan, result, home)
      PROVE  UNCHANGED <<project, candidate>>
  BY <1>2 DEF Prove
<1>3. ASSUME NEW c, NEW r, Skip(c, r)
      PROVE  UNCHANGED <<project, candidate>>
  BY <1>3 DEF Skip
<1>4. ASSUME NEW c, NEW other, NEW status, NEW stage, NEW required,
             EvaluateCandidate(c, other, status, stage, required)
      PROVE  UNCHANGED <<project, candidate>>
  BY <1>4 DEF EvaluateCandidate
<1>5. ASSUME NEW entries, NEW maximize, CompareCandidates(entries, maximize)
      PROVE  UNCHANGED <<project, candidate>>
  BY <1>5 DEF CompareCandidates
<1>6. ASSUME NEW c, NEW e, NEW entries, SelectCandidate(c, e, entries)
      PROVE  UNCHANGED <<project, candidate>>
  BY <1>6 DEF SelectCandidate
<1> QED  BY <1>1, <1>2, <1>3, <1>4, <1>5, <1>6

LEMMA InitCandidates == Init => CandidatesInv
<1> SUFFICES ASSUME Init PROVE CandidatesInv
  OBVIOUS
<1>1. PICK v \in Values : values = <<v>>
  BY DEF Init
<1>2. values \in Seq(Values) /\ revision = 1
  BY <1>1 DEF revision
<1>3. version \in {1, 2} /\ DOMAIN candidate = Names
      /\ \A name \in Names : candidate[name] = None
  BY DEF Init
<1> QED  BY <1>2, <1>3 DEF CandidatesInv

\* The history of the state only grows, and a candidate stays as it was made.
LEMMA ProjectMoves ==
  ASSUME CandidatesInv, [Next]_vars
  PROVE  /\ version' = version
         /\ values' \in Seq(Values) /\ revision' >= revision
         /\ \A r \in 1 .. revision : values'[r] = values[r]
         /\ \A name \in Names : candidate[name] # None => candidate'[name] = candidate[name]
<1> USE DEF CandidatesInv, revision
<1>1. CASE UNCHANGED <<project, candidate>>
  BY <1>1 DEF project
<1>2. ASSUME NEW v \in Values, Commit(v) PROVE CandidatesInv /\
         /\ version' = version
         /\ values' \in Seq(Values) /\ revision' >= revision
         /\ \A r \in 1 .. revision : values'[r] = values[r]
         /\ \A name \in Names : candidate[name] # None => candidate'[name] = candidate[name]
  BY <1>2 DEF Commit, desk
<1>3. ASSUME NEW a, PublishSource(a) \/ LoseSource(a) PROVE UNCHANGED <<version, values, candidate>>
  BY <1>3 DEF PublishSource, LoseSource, desk
<1>4. ASSUME NEW name \in Names, Synthesize(name)
      PROVE  /\ UNCHANGED <<version, values>>
             /\ \A n \in Names : candidate[n] # None => candidate'[n] = candidate[n]
  BY <1>4 DEF Synthesize, project
<1>5. CASE UNCHANGED vars
  BY <1>5 DEF vars, desk, project
<1> QED  BY Steps, CallsOnly, <1>1, <1>2, <1>3, <1>4, <1>5

LEMMA NextCandidates == CandidatesInv /\ [Next]_vars => CandidatesInv'
<1> SUFFICES ASSUME CandidatesInv, [Next]_vars PROVE CandidatesInv'
  OBVIOUS
<1>1. /\ version' = version
      /\ values' \in Seq(Values) /\ revision' >= revision
      /\ \A r \in 1 .. revision : values'[r] = values[r]
  BY ProjectMoves
<1>2. ASSUME NEW name \in Names, NEW c, Synthesised(name, c)
      PROVE  Synthesised(name, c)'
  BY <1>1, <1>2 DEF Synthesised, revision, CandidatesInv
<1>3. CASE candidate' = candidate
  BY <1>1, <1>3 DEF CandidatesInv, Synthesised, revision
<1>4. ASSUME NEW name \in Names, Synthesize(name)
      PROVE  CandidatesInv'
  <2> DEFINE c == [name |-> name, intact |-> TRUE,
                   synthesis |-> [version |-> version, revision |-> revision,
                                  value |-> values[revision]]]
  <2>1. candidate' = [candidate EXCEPT ![name] = c] /\ UNCHANGED <<version, values>>
    BY <1>4 DEF Synthesize, project
  <2>2. revision \in 1 .. revision
    BY <1>4 DEF Synthesize, revision, CandidatesInv
  <2>3. DOMAIN candidate' = Names
    BY <2>1 DEF CandidatesInv
  <2>4. ASSUME NEW n \in Names, NEW d, d = candidate'[n], d # None
        PROVE  Synthesised(n, d)'
    <3>1. CASE n = name
      BY <3>1, <2>1, <2>2, <2>4 DEF Synthesised, revision, CandidatesInv
    <3>2. CASE n # name
      <4>1. d = candidate[n] /\ Synthesised(n, d)
        BY <3>2, <2>1, <2>4 DEF CandidatesInv
      <4> QED  BY <4>1, <1>2
    <3> QED  BY <3>1, <3>2
  <2> QED  BY <2>3, <2>4, <1>1 DEF CandidatesInv, Synthesised, revision
<1>5. ASSUME NEW v \in Values, Commit(v) PROVE candidate' = candidate
  BY <1>5 DEF Commit, desk
<1>6. ASSUME NEW a, PublishSource(a) \/ LoseSource(a) PROVE candidate' = candidate
  BY <1>6 DEF PublishSource, LoseSource, desk
<1> QED  BY Steps, CallsOnly, <1>3, <1>4, <1>5, <1>6 DEF vars, desk

LEMMA CandidatesInvariant == Spec => []CandidatesInv
  BY InitCandidates, NextCandidates, PTL DEF Spec

-----------------------------------------------------------------------------
(* A realisation is a function of its sources. *)

\* The sources of a candidate, all of them readable.
Held(c) == {<<SpecOf[c.name][part].source, SourceOf(c)>> : part \in PartsOf(c)}

\* What a realisation needs besides its sources.
Buildable(c, request) ==
  \A part \in PartsOf(c) : Mapped(c, request, Held(c), part) = "built"

Realised(c, request) ==
  [status |-> "success", realization |-> [candidate |-> c, request |-> request]]

LEMMA MappedBuilt ==
  ASSUME NEW c, c.name \in Names, NEW request, NEW trust, NEW part \in PartsOf(c)
  PROVE  Mapped(c, request, trust, part) = "built"
           <=> /\ Mapped(c, request, Held(c), part) = "built"
               /\ SpecOf[c.name][part].kind = "sourced" =>
                    <<SpecOf[c.name][part].source, SourceOf(c)>> \in trust
<1> DEFINE spec == SpecOf[c.name][part]
<1>1. spec.kind \in {"sourced", "generated", "plain", "unsupported"}
  BY PartAssumption DEF PartsOf, Names, SpecKinds
<1>2. <<spec.source, SourceOf(c)>> \in Held(c)
  BY DEF Held
<1>3. CASE spec.kind = "sourced"
  BY <1>2, <1>3 DEF Mapped
<1>4. CASE spec.kind # "sourced"
  BY <1>1, <1>4 DEF Mapped
<1> QED  BY <1>3, <1>4

LEMMA BuiltBySources ==
  ASSUME NEW c, c.name \in Names, NEW request, NEW trust
  PROVE  (\A part \in PartsOf(c) : Mapped(c, request, trust, part) = "built")
           <=> Buildable(c, request) /\ SourcesResolve(c, trust)
  BY MappedBuilt DEF Buildable, SourcesResolve

LEMMA Realisation ==
  ASSUME NEW c, c.name \in Names, NEW request, NEW trust,
         NEW stage, stage = RealizeCurrent(c, request, trust)
  PROVE  /\ Buildable(c, request) /\ SourcesResolve(c, trust) => stage = Realised(c, request)
         /\ stage # None /\ stage.status = "success" =>
              /\ Buildable(c, request) /\ SourcesResolve(c, trust)
              /\ stage = Realised(c, request)
<1> DEFINE outcome == [part \in PartsOf(c) |-> Mapped(c, request, trust, part)]
           ends(i) == /\ PartOrder[i] \in PartsOf(c)
                      /\ outcome[PartOrder[i]] \in {"misplaced", "raises"}
           first(i) == ends(i) /\ \A j \in 1 .. i - 1 : ~ ends(j)
           raises == \E i \in DOMAIN PartOrder : first(i) /\ outcome[PartOrder[i]] = "raises"
           missing == \E part \in PartsOf(c) : outcome[part] # "built"
<1>1. stage = IF raises THEN None
              ELSE IF missing THEN [status |-> "unresolved", realization |-> None]
              ELSE Realised(c, request)
  BY DEF RealizeCurrent, Realised
<1>2. raises => missing
  BY Zenon
<1>3. ~ missing <=> Buildable(c, request) /\ SourcesResolve(c, trust)
  <2>1. ~ missing <=> \A part \in PartsOf(c) : Mapped(c, request, trust, part) = "built"
    OBVIOUS
  <2> QED  BY <2>1, BuiltBySources
<1> HIDE DEF raises, missing
<1>4. CASE ~ missing
  BY <1>1, <1>2, <1>3, <1>4
<1>5. CASE missing
  BY <1>1, <1>3, <1>5
<1> QED  BY <1>4, <1>5

-----------------------------------------------------------------------------
(* The stages the caller holds, and the evaluations made of them. *)

StageInv(stage) ==
  LET c == stage.realization.candidate
      request == stage.realization.request
  IN stage.status = "success" =>
       /\ stage = Realised(c, request)
       /\ Buildable(c, request)

ExaminedInv(stage) ==
  \/ stage.status = "not_reached" /\ stage.request = None
  \/ /\ stage.status = StageStatus(stage.request)
     /\ \A pair \in DOMAIN stage.proofs :
          stage.proofs[pair].verdict \in Verdicts /\ stage.proofs[pair].bound \in Nat

\* What is checked of an evaluation when it is made and holds of it for good.
Judged(e) ==
  /\ e.intact /\ WellFormed(e)
  /\ e.m12 = [candidate |-> e.candidate, status |-> e.m12.status]
  /\ e.m12.status \in M12Statuses
  /\ e.candidate.synthesis.version = 1 => e.m10.revision = SourceOf(e.candidate)
  /\ ExaminedInv(e.m10)
  /\ e.m10.status = "not_reached" => e.m10_request = None
  /\ e.m10.status # "not_reached" =>
       e.m10_request # None /\ M10Inputs(e.candidate, e.cad, e.m10, e.m10_request)
  /\ e.cad.status = "success" =>
       /\ e.cad # None /\ StageInv(e.cad)
       /\ \E trust : CadInputs(e.candidate, e.cad_request, e.cad, trust)

EvaluationsInv ==
  /\ DOMAIN evaluation = Names
  /\ cad # None => StageInv(cad)
  /\ m10 # None => ExaminedInv(m10)
  /\ \A name \in Names : evaluation[name] # None =>
       /\ candidate[name] # None /\ evaluation[name].candidate = candidate[name]
       /\ Judged(evaluation[name])

LEMMA InitEvaluations == Init => EvaluationsInv
  BY DEF Init, EvaluationsInv

LEMMA Evaluating ==
  ASSUME EvaluationsInv, NEW c, NEW other,
         NEW status \in M12Statuses, NEW stage \in {cad, NoCad} \ {None}, NEW required,
         m10 # None, NEW request, NEW state, NEW e,
         e = Evaluate(c, c.synthesis, [candidate |-> other, status |-> status], stage, m10,
                      required, request, m10.request, state),
         e # None
  PROVE  e.candidate = c /\ Judged(e)
<1> DEFINE m12 == [candidate |-> other, status |-> status]
           verdict == Verdict(m12, stage, m10, required, m10.request)
           made == [candidate |-> c, m12 |-> m12, cad |-> stage, m10 |-> m10,
                    required |-> required, cad_request |-> request,
                    m10_request |-> m10.request,
                    outcome |-> verdict.outcome, findings |-> verdict.findings,
                    metric |-> Metric(m10, required), intact |-> TRUE]
<1>1. /\ e = made /\ other = c
      /\ c.synthesis.version = 1 => m10.revision = SourceOf(c)
      /\ stage.status = "success" => CadInputs(c, request, stage, state.trusted)
      /\ IF m10.status = "not_reached" THEN m10.request = None
         ELSE m10.request # None /\ M10Inputs(c, stage, m10, m10.request)
      /\ WellFormed(e)
  BY DEF Evaluate
<1>2. /\ e.candidate = c /\ e.intact /\ e.m12 = m12 /\ e.cad = stage /\ e.m10 = m10
      /\ e.cad_request = request /\ e.m10_request = m10.request
  <2> HIDE DEF verdict, m12
  <2> QED  BY <1>1
<1>3. e.m12 = [candidate |-> e.candidate, status |-> e.m12.status]
      /\ e.m12.status \in M12Statuses
  BY <1>1, <1>2
<1>4. stage.status = "success" => stage # None /\ StageInv(stage)
  BY DEF NoCad, EvaluationsInv
<1>5. ExaminedInv(m10)
  BY DEF EvaluationsInv
<1> HIDE DEF made, m12, verdict
<1> QED  BY <1>1, <1>2, <1>3, <1>4, <1>5 DEF Judged

LEMMA Realizing ==
  ASSUME CandidatesInv, NEW c \in Candidates, NEW manifest, Realize(c, manifest)
  PROVE  StageInv(cad') /\ UNCHANGED <<candidate, m10, evaluation>>
<1> DEFINE request == CadRequest(c, manifest)
<1>1. cad' = RealizeCurrent(c, request, trusted) /\ cad' # None
  BY DEF Realize
<1>2. c.name \in Names
  BY DEF Candidates, CandidatesInv, Synthesised
<1>3. PICK stage : stage = cad'
  OBVIOUS
<1> HIDE DEF request
<1>4. stage.status = "success" => Buildable(c, request) /\ stage = Realised(c, request)
  BY <1>1, <1>2, <1>3, Realisation
<1>5. StageInv(stage)
  BY <1>4 DEF StageInv, Realised
<1> QED  BY <1>3, <1>5 DEF Realize

LEMMA Proving ==
  ASSUME NEW name \in Names, NEW r, NEW plan, NEW result \in Results[name], NEW home,
         Prove(name, r, plan, result, home)
  PROVE  ExaminedInv(m10') /\ UNCHANGED <<candidate, cad, evaluation>>
<1> DEFINE request == M10Request(cad, plan)
           pairs == PairsOf(Parts[name])
           results == [pair \in pairs |-> result]
           homes == [pair \in pairs |-> home]
<1>1. /\ cad.status = "success" /\ cad.realization.candidate.name = name
      /\ m10' = RunM10(r, cad, request, results, homes) /\ m10' # None
  BY DEF Prove
<1>2. result.verdict \in Verdicts /\ result.bound \in Nat
  BY PipelineAssumption
<1> HIDE DEF request, homes
<1>3. /\ M10RequestFits(request, cad.realization, request.binding, request.scope)
      /\ m10' = [status |-> StageStatus(request), candidate |-> cad.realization.candidate,
                 request |-> request, revision |-> r,
                 proofs |-> [pair \in Checked(request) |-> results[pair]],
                 homes |-> [pair \in HomeChecked(request) |-> homes[pair]]]
  BY <1>1 DEF RunM10
<1>4. DOMAIN request.classes = pairs
  BY <1>1, <1>3 DEF M10RequestFits, Complete, PartsOf
<1>5. \A pair \in Checked(request) : results[pair] = result
  BY <1>4 DEF Checked
<1>6. /\ m10'.status = StageStatus(m10'.request)
      /\ \A pair \in DOMAIN m10'.proofs : m10'.proofs[pair] = result
  BY <1>3, <1>5
<1> QED  BY <1>2, <1>6 DEF ExaminedInv, Prove, StageStatus

LEMMA EvaluatingStep ==
  ASSUME CandidatesInv, EvaluationsInv, NEW c \in Candidates, NEW other,
         NEW status \in M12Statuses, NEW stage \in {cad, NoCad} \ {None}, NEW required,
         m10 # None, EvaluateCandidate(c, other, status, stage, required)
  PROVE  /\ EvaluationsInv' /\ UNCHANGED candidate
         /\ \A n \in Names : evaluation[n] # None => evaluation'[n] = evaluation[n]
<1> DEFINE request == IF stage.status = "success" THEN stage.realization.request ELSE None
<1>1. PICK e : e = Evaluate(c, c.synthesis, [candidate |-> other, status |-> status], stage,
                            m10, required, request, m10.request, State)
  OBVIOUS
<1> HIDE DEF request
<1>2. /\ evaluation[c.name] = None /\ e # None
      /\ evaluation' = [evaluation EXCEPT ![c.name] = e]
      /\ cad' = None /\ m10' = None /\ UNCHANGED candidate
  BY <1>1 DEF EvaluateCandidate, request
<1>3. e.candidate = c /\ Judged(e)
  BY <1>1, <1>2, Evaluating
<1>4. c.name \in Names /\ candidate[c.name] = c /\ c # None
  BY DEF Candidates, CandidatesInv, Synthesised
<1>5. DOMAIN evaluation' = Names
  BY <1>2 DEF EvaluationsInv
<1>6. ASSUME NEW name \in Names, NEW d, d = evaluation'[name], d # None
      PROVE  candidate[name] # None /\ d.candidate = candidate[name] /\ Judged(d)
  BY <1>2, <1>3, <1>4, <1>6 DEF EvaluationsInv
<1> QED  BY <1>2, <1>4, <1>5, <1>6 DEF EvaluationsInv

LEMMA NextEvaluations ==
  ASSUME CandidatesInv, EvaluationsInv, [Next]_vars
  PROVE  /\ EvaluationsInv'
         /\ \A n \in Names : evaluation[n] # None => evaluation'[n] = evaluation[n]
<1> DEFINE Kept == \A n \in Names : evaluation[n] # None => evaluation'[n] = evaluation[n]
<1>1. CASE UNCHANGED <<candidate, evaluation, cad, m10>>
  BY <1>1 DEF EvaluationsInv
<1>2. ASSUME NEW name \in Names, Synthesize(name)
      PROVE  EvaluationsInv' /\ Kept
  <2>1. UNCHANGED <<evaluation, cad, m10>>
        /\ \A n \in Names : candidate[n] # None => candidate'[n] = candidate[n]
    BY <1>2 DEF Synthesize
  <2> QED  BY <2>1 DEF EvaluationsInv
<1>3. ASSUME NEW c \in Candidates, NEW manifest, Realize(c, manifest)
      PROVE  EvaluationsInv' /\ Kept
  <2>1. StageInv(cad') /\ UNCHANGED <<candidate, m10, evaluation>>
    BY <1>3, Realizing
  <2> QED  BY <2>1 DEF EvaluationsInv
<1>4. ASSUME NEW name \in Names, NEW r, NEW plan, NEW result \in Results[name], NEW home,
             Prove(name, r, plan, result, home)
      PROVE  EvaluationsInv' /\ Kept
  <2>1. ExaminedInv(m10') /\ UNCHANGED <<candidate, cad, evaluation>>
    BY <1>4, Proving
  <2> QED  BY <2>1 DEF EvaluationsInv
<1>5. ASSUME NEW c, NEW r, Skip(c, r)
      PROVE  EvaluationsInv' /\ Kept
  <2>1. ExaminedInv(m10') /\ UNCHANGED <<candidate, cad, evaluation>>
    BY <1>5 DEF Skip, NotReached, ExaminedInv
  <2> QED  BY <2>1 DEF EvaluationsInv
<1>6. ASSUME NEW c, NEW e, NEW entries, NEW maximize,
             CompareCandidates(entries, maximize) \/ SelectCandidate(c, e, entries)
      PROVE  UNCHANGED <<candidate, evaluation, cad, m10>>
  BY <1>6 DEF CompareCandidates, SelectCandidate
<1>7. ASSUME NEW v \in Values, Commit(v) PROVE UNCHANGED <<candidate, evaluation, cad, m10>>
  BY <1>7 DEF Commit, desk
<1>8. ASSUME NEW a, PublishSource(a) \/ LoseSource(a)
      PROVE  UNCHANGED <<candidate, evaluation, cad, m10>>
  BY <1>8 DEF PublishSource, LoseSource, desk
<1>9. CASE UNCHANGED vars
  BY <1>1, <1>9 DEF vars, desk
<1>10. CASE Calls
  <2> HIDE DEF Kept
  <2> QED  BY <1>1, <1>3, <1>4, <1>5, <1>6, <1>10, EvaluatingStep DEF Calls, Kept
<1> HIDE DEF Kept
<1>11. EvaluationsInv' /\ Kept
  BY Steps, <1>1, <1>2, <1>7, <1>8, <1>9, <1>10 DEF Kept
<1> QED  BY <1>11 DEF Kept

LEMMA EvaluationsInvariant == Spec => [](CandidatesInv /\ EvaluationsInv)
<1>1. CandidatesInv /\ EvaluationsInv /\ [Next]_vars => EvaluationsInv'
  BY NextEvaluations
<1> QED  BY <1>1, CandidatesInvariant, InitEvaluations, PTL DEF Spec

-----------------------------------------------------------------------------
(* What an evaluation says. *)

LEMMA EvaluationJudged ==
  ASSUME CandidatesInv, EvaluationsInv, NEW e \in Evaluations
  PROVE  /\ Judged(e) /\ e.candidate \in Candidates
         /\ e.candidate.name \in Names /\ Synthesised(e.candidate.name, e.candidate)
  BY DEF Evaluations, EvaluationsInv, CandidatesInv, Candidates, Synthesised

\* A geometry that was realised was examined, and nothing else was.
LEMMA Staged ==
  ASSUME NEW e, Judged(e)
  PROVE  /\ (e.cad.status = "success") = (e.m10.status # "not_reached")
         /\ e.m10.status # "not_reached" =>
              /\ e.m10.request.realization = e.cad.realization
              /\ e.m10.request = e.m10_request /\ e.m10.revision = SourceOf(e.candidate)
              /\ M10RequestFits(e.m10.request, e.cad.realization,
                                e.m10.request.binding, e.m10.request.scope)
              /\ ProofsMatch(e.m10, e.m10.request)
         /\ e.candidate.synthesis.version = 1 /\ e.m12.status = "inadmissible"
              => e.cad.status = "not_reached"
<1>1. e.cad.status = "success" => e.m10.status # "not_reached"
  BY DEF Judged, WellFormed
<1>2. e.m10.status # "not_reached" =>
        e.cad.status = "success" /\ e.m10.request = e.m10_request
        /\ e.m10.revision = SourceOf(e.candidate)
        /\ M10RequestFits(e.m10.request, e.cad.realization,
                          e.m10.request.binding, e.m10.request.scope)
        /\ ProofsMatch(e.m10, e.m10.request)
  BY DEF Judged, M10Inputs
<1>3. e.m10.status # "not_reached" => e.m10.request.realization = e.cad.realization
  BY <1>2 DEF M10RequestFits
<1>4. e.candidate.synthesis.version = 1 /\ e.m12.status = "inadmissible"
        => e.cad.status = "not_reached"
  BY DEF Judged, WellFormed, FirstVersionHolds
<1> QED  BY <1>1, <1>2, <1>3, <1>4

\* Where a geometry was realised its motion was examined on it and for its source, and
\* nowhere else, of every evaluation there is, for any candidates, stages passed in and
\* policies (evaluation.py:1053-1322, 805-1000).
THEOREM StagesAreComplete == Spec => []StagesComplete
<1>1. CandidatesInv /\ EvaluationsInv => StagesComplete
  <2> SUFFICES ASSUME CandidatesInv, EvaluationsInv, NEW e \in Evaluations
               PROVE  /\ (e.cad.status = "success") = (e.m10.status # "not_reached")
                      /\ e.m10.status # "not_reached" =>
                           /\ e.m10.request.realization = e.cad.realization
                           /\ e.m10.revision = SourceOf(e.candidate)
                      /\ version = 1 /\ e.m12.status = "inadmissible" =>
                           e.m10.status = "not_reached"
    BY DEF StagesComplete
  <2>1. Judged(e) /\ e.candidate.synthesis.version = version
    BY EvaluationJudged DEF Synthesised
  <2> QED  BY <2>1, Staged
<1> QED  BY <1>1, EvaluationsInvariant, PTL

\* What a verdict of feasible leaves out, of its findings.
LEMMA NoFindings ==
  ASSUME NEW e, Judged(e), e.outcome = "feasible", "m10" \in e.required
  PROVE  /\ e.m12.status = "admissible" /\ e.m10.status = "success"
         /\ \A pair \in DOMAIN e.m10.proofs :
              e.m10.proofs[pair].verdict \notin {"collision_witness", "not_proven"}
<1> DEFINE hard == Hard(e.m12, e.m10, e.required)
           unresolved == Unresolved(e.m12, e.cad, e.m10, e.required, e.m10_request)
<1>1. [outcome |-> IF hard # {} THEN "infeasible"
                   ELSE IF unresolved # {} THEN "unresolved" ELSE "feasible",
       findings |-> unresolved] = [outcome |-> e.outcome, findings |-> e.findings]
  BY DEF Judged, WellFormed, Verdict
<1>2. hard = {} /\ unresolved = {}
  <2> HIDE DEF hard, unresolved
  <2> QED  BY <1>1
<1>3. e.m12.status # "inadmissible"
  BY <1>2 DEF Hard
<1>4. e.m12.status # "unresolved" /\ e.m10.status = "success"
  BY <1>2 DEF Unresolved
<1>5. ASSUME NEW pair \in DOMAIN e.m10.proofs
      PROVE  e.m10.proofs[pair].verdict \notin {"collision_witness", "not_proven"}
  <2>1. CASE e.m10.proofs[pair].verdict = "collision_witness"
    <3>1. <<"collision", pair>> \in hard
      BY <1>4, <2>1 DEF Hard
    <3> QED  BY <3>1, <1>2
  <2>2. CASE e.m10.proofs[pair].verdict = "not_proven"
    <3>1. <<"not_proven", pair>> \in unresolved
      BY <1>4, <2>2 DEF Unresolved
    <3> QED  BY <3>1, <1>2
  <2> QED  BY <2>1, <2>2
<1>6. e.m12.status \in M12Statuses
  BY DEF Judged
<1> QED  BY <1>3, <1>4, <1>5, <1>6 DEF M12Statuses

\* A feasible verdict is proved: an admissible drive, every pair the scope wants
\* proved proved clear by more than the clearance, on the candidate's own geometry,
\* and no motion left unmodelled, whatever records the caller passes in
\* (evaluation.py:211-319, 901-1000; m10_evaluation.py:823-962).
THEOREM FeasibleMeansProved == Spec => []FeasibleIsProved
<1>1. CandidatesInv /\ EvaluationsInv => FeasibleIsProved
  <2> SUFFICES ASSUME CandidatesInv, EvaluationsInv, NEW e \in Evaluations,
                      e.outcome = "feasible", "m10" \in e.required
               PROVE  /\ e.m12 = [candidate |-> e.candidate, status |-> "admissible"]
                      /\ e.m10.request.realization = e.cad.realization
                      /\ e.cad.realization.candidate = e.candidate
                      /\ \A pair \in PairsOf(PartsOf(e.candidate)) :
                           e.m10.request.classes[pair].class # "unmodeled_motion"
                      /\ LET required == e.m10.request.scope.required
                         IN \A pair \in DOMAIN required :
                              required[pair].class = "check_clearance" =>
                                /\ pair \in DOMAIN e.m10.proofs
                                /\ e.m10.proofs[pair].verdict = "verified_clear"
                                /\ e.m10.proofs[pair].bound > e.m10.request.scope.clearance
    BY DEF FeasibleIsProved
  <2>1. Judged(e)
    BY EvaluationJudged
  <2>2. /\ e.m12.status = "admissible" /\ e.m10.status = "success"
        /\ \A pair \in DOMAIN e.m10.proofs :
             e.m10.proofs[pair].verdict \notin {"collision_witness", "not_proven"}
    BY <2>1, NoFindings
  <2>3. e.m12 = [candidate |-> e.candidate, status |-> "admissible"]
    BY <2>1, <2>2 DEF Judged
  <2>4. /\ e.cad.status = "success"
        /\ e.m10.request.realization = e.cad.realization
        /\ M10RequestFits(e.m10.request, e.cad.realization,
                          e.m10.request.binding, e.m10.request.scope)
        /\ ProofsMatch(e.m10, e.m10.request)
    BY <2>1, <2>2, Staged
  <2>5. e.cad.realization.candidate = e.candidate
    BY <2>1, <2>4 DEF Judged, WellFormed
  <2>6. /\ DOMAIN e.m10.request.classes = PairsOf(PartsOf(e.candidate))
        /\ DOMAIN e.m10.request.scope.required \subseteq PairsOf(PartsOf(e.candidate))
        /\ \A pair \in PairsOf(PartsOf(e.candidate)) :
             AsScoped(e.m10.request.scope, pair, e.m10.request.classes[pair])
    BY <2>4, <2>5 DEF M10RequestFits, Complete
  <2>7. StageStatus(e.m10.request) = "success"
        /\ \A pair \in DOMAIN e.m10.proofs : e.m10.proofs[pair].verdict \in Verdicts
    BY <2>1, <2>2 DEF Judged, ExaminedInv
  <2>8. \A pair \in PairsOf(PartsOf(e.candidate)) :
          e.m10.request.classes[pair].class # "unmodeled_motion"
    BY <2>6, <2>7 DEF StageStatus
  <2>9. ASSUME NEW pair \in DOMAIN e.m10.request.scope.required,
               e.m10.request.scope.required[pair].class = "check_clearance"
        PROVE  /\ pair \in DOMAIN e.m10.proofs
               /\ e.m10.proofs[pair].verdict = "verified_clear"
               /\ e.m10.proofs[pair].bound > e.m10.request.scope.clearance
    <3>1. pair \in DOMAIN e.m10.proofs
      BY <2>4, <2>6, <2>9 DEF AsScoped, ProofsMatch, Checked
    <3>2. e.m10.proofs[pair].verdict = "verified_clear"
      BY <3>1, <2>2, <2>7 DEF Verdicts
    <3> QED  BY <3>1, <3>2, <2>4 DEF ProofsMatch, ProofHolds
  <2> QED  BY <2>3, <2>4, <2>5, <2>8, <2>9
<1> QED  BY <1>1, EvaluationsInvariant, PTL

-----------------------------------------------------------------------------
(* When an evaluation holds. *)

\* Whether a realisation replays is a matter of its sources alone.
LEMMA Replayed ==
  ASSUME NEW e, Judged(e), e.candidate.name \in Names, e.cad.status = "success",
         NEW trust
  PROVE  /\ CadInputs(e.candidate, e.cad_request, e.cad, trust)
              <=> (e.candidate.synthesis.version = 1 => SourcesResolve(e.candidate, trust))
<1> DEFINE c == e.candidate
           request == e.cad_request
<1>1. PICK old : CadInputs(c, request, e.cad, old)
  BY DEF Judged
<1>2. /\ e.cad # None /\ e.cad = Realised(c, request) /\ Buildable(c, request)
      /\ e.cad.realization = [candidate |-> c, request |-> request]
      /\ RequestFits(c, request) /\ OwnInputs(c, request)
  <2>1. e.cad.realization = [candidate |-> c, request |-> request]
    BY <1>1 DEF CadInputs
  <2>2. e.cad.realization.candidate = c /\ e.cad.realization.request = request
    BY <2>1
  <2> QED  BY <1>1, <2>1, <2>2 DEF CadInputs, Judged, StageInv
<1>3. Replays(c, e.cad.realization, trust) <=> SourcesResolve(c, trust)
  <2> DEFINE stage == RealizeCurrent(c, request, trust)
  <2>1. /\ Buildable(c, request) /\ SourcesResolve(c, trust) => stage = Realised(c, request)
        /\ stage # None /\ stage.status = "success" => SourcesResolve(c, trust)
    BY Realisation
  <2>2. Replays(c, e.cad.realization, trust)
          <=> stage # None /\ stage.status = "success" /\ stage.realization = e.cad.realization
    BY <1>2 DEF Replays
  <2> HIDE DEF stage
  <2>3. e.cad.status = "success"
    OBVIOUS
  <2> QED  BY <1>2, <2>1, <2>2, <2>3
<1> QED  BY <1>1, <1>2, <1>3 DEF CadInputs

\* An evaluation holds exactly as long as the value its candidate consumed is that of
\* the state and its sources can be read, for any candidates, commits and losses; one
\* of the second version that keeps a stage not reached of another source never does
\* (evaluation.py:1404-1536, 1681-2024; services.py:475-535).
THEOREM EvaluationsStand == Spec => []EvaluationStands
<1>1. CandidatesInv /\ EvaluationsInv => EvaluationStands
  <2> SUFFICES ASSUME CandidatesInv, EvaluationsInv, NEW e \in Evaluations
               PROVE  VerifyCurrent(e, e.candidate, e.candidate.synthesis, State)
                        <=> /\ ~ (/\ version = 2 /\ e.m10.status = "not_reached"
                                  /\ e.m10.revision # SourceOf(e.candidate))
                            /\ values[revision] = e.candidate.synthesis.value
                            /\ version = 2 \/ e.cad.status = "success" =>
                                 SourcesResolve(e.candidate, trusted)
    BY DEF EvaluationStands
  <2> DEFINE c == e.candidate
  <2>1. /\ Judged(e) /\ c.name \in Names /\ c.synthesis.version = version
        /\ c.synthesis.revision = revision => c.synthesis.value = values[revision]
    BY EvaluationJudged DEF Synthesised
  <2>2. version \in {1, 2}
    BY DEF CandidatesInv
  <2>3. State.revision = revision /\ State.value = values[revision] /\ State.trusted = trusted
    BY DEF State
  <2>4. StillCurrent(c, State)
          <=> /\ values[revision] = c.synthesis.value
              /\ version = 2 => SourcesResolve(c, trusted)
    BY <2>1, <2>3 DEF StillCurrent
  <2>5. e.cad.status = "success" =>
          (CadInputs(c, e.cad_request, e.cad, trusted)
             <=> (version = 1 => SourcesResolve(c, trusted)))
    BY <2>1, Replayed
  <2>6. VerifyCurrent(e, c, c.synthesis, State)
          <=> /\ e.m10.revision = SourceOf(c)
              /\ e.cad.status = "success" => CadInputs(c, e.cad_request, e.cad, trusted)
              /\ StillCurrent(c, State)
    BY <2>1, <2>3 DEF VerifyCurrent, Judged
  <2>7. e.m10.revision = SourceOf(c)
          <=> ~ (/\ version = 2 /\ e.m10.status = "not_reached"
                 /\ e.m10.revision # SourceOf(c))
    BY <2>1, <2>2, Staged DEF Judged
  <2> QED  BY <2>2, <2>4, <2>5, <2>6, <2>7
<1> QED  BY <1>1, EvaluationsInvariant, PTL

-----------------------------------------------------------------------------
(* Comparisons and selections *)

\* A set of bounds has a least one.
LEMMA LeastBound ==
  ASSUME NEW S \in SUBSET Nat, S # {}
  PROVE  Min(S) \in S
<1> DEFINE Less == {pair \in Nat \X Nat : pair[1] < pair[2]}
<1>1. IsWellFoundedOn(Less, Nat)
  BY NatLessThanWellFounded DEF OpToRel
<1> HIDE DEF Less
<1>2. PICK x \in S : \A y \in S : ~ (<<y, x>> \in Less)
  BY <1>1, WFMin
<1>3. ASSUME NEW y \in S
      PROVE  x <= y
  <2>1. x \in Nat /\ y \in Nat /\ <<y, x>> \notin Less
    BY <1>2
  <2>2. y < x => <<y, x>> \in Less
    BY <2>1 DEF Less
  <2> QED  BY <2>1, <2>2
<1> QED  BY <1>3 DEF Min

LEMMA MetricIsNumber ==
  ASSUME NEW e, Judged(e), e.metric # None
  PROVE  e.metric \in Nat
<1> DEFINE bounds == {e.m10.proofs[pair].bound : pair \in DOMAIN e.m10.proofs}
<1>1. /\ e.metric = Metric(e.m10, e.required)
      /\ e.m10.status = "success" => e.m10.status # "not_reached"
      /\ ExaminedInv(e.m10)
  BY DEF Judged, WellFormed
<1>2. /\ e.m10.status = "success" /\ DOMAIN e.m10.proofs # {} /\ e.metric = Min(bounds)
  BY <1>1 DEF Metric
<1>3. bounds \in SUBSET Nat /\ bounds # {}
  BY <1>1, <1>2 DEF ExaminedInv
<1> QED  BY <1>2, <1>3, LeastBound

LEMMA RankedInOrder ==
  ASSUME NEW values_, NEW n \in {1, 2}, DOMAIN values_ = 1 .. n,
         \A i \in 1 .. n : values_[i] \in Nat, NEW maximize \in BOOLEAN
  PROVE  LET ranking == Ranked(values_, maximize)
         IN /\ ranking \in [1 .. n -> 1 .. n]
            /\ \A i, j \in 1 .. n : i < j => Before(values_, maximize, ranking[i], ranking[j])
<1> DEFINE Sorted(ranking) ==
             \A i, j \in 1 .. n : i < j => Before(values_, maximize, ranking[i], ranking[j])
           asis == [i \in 1 .. n |-> i]
           swapped == [i \in 1 .. n |-> IF i = 1 THEN n ELSE 1]
<1>1. asis \in [1 .. n -> 1 .. n] /\ swapped \in [1 .. n -> 1 .. n]
  OBVIOUS
<1>2. Sorted(asis) \/ Sorted(swapped)
  <2>1. CASE n = 1
    BY <2>1
  <2>2. CASE n = 2
    <3>1. Before(values_, maximize, 1, 2) \/ Before(values_, maximize, 2, 1)
      BY <2>2 DEF Before, Better
    <3>2. \A i, j \in 1 .. n : i < j => i = 1 /\ j = 2
      BY <2>2
    <3> QED  BY <2>2, <3>1, <3>2
  <2> QED  BY <2>1, <2>2
<1>3. Ranked(values_, maximize) = CHOOSE ranking \in [1 .. n -> 1 .. n] : Sorted(ranking)
  BY DEF Ranked
<1> HIDE DEF Sorted, asis, swapped
<1>4. LET ranking == Ranked(values_, maximize)
      IN ranking \in [1 .. n -> 1 .. n] /\ Sorted(ranking)
  BY <1>1, <1>2, <1>3
<1> QED  BY <1>4 DEF Sorted

Compared(k) ==
  /\ Len(k.entries) \in {1, 2} /\ DOMAIN k.entries = 1 .. Len(k.entries)
  /\ k.maximize \in BOOLEAN
  /\ \A i \in DOMAIN k.entries : k.entries[i] \in Entries /\ k.entries[i][2].metric \in Nat
  /\ k.ranking = Ranked([i \in DOMAIN k.entries |-> k.entries[i][2].metric], k.maximize)

ComparisonInv == comparison # None => Compared(comparison)

LEMMA EntriesGrow ==
  ASSUME CandidatesInv, EvaluationsInv, [Next]_vars
  PROVE  Entries \subseteq Entries'
<1>1. Candidates \subseteq Candidates'
  BY ProjectMoves DEF Candidates
<1>2. Evaluations \subseteq Evaluations'
  BY NextEvaluations DEF Evaluations
<1> QED  BY <1>1, <1>2 DEF Entries

LEMMA Comparing ==
  ASSUME CandidatesInv, EvaluationsInv, NEW entries, Len(entries) \in {1, 2},
         DOMAIN entries = 1 .. Len(entries), \A i \in DOMAIN entries : entries[i] \in Entries,
         NEW maximize \in BOOLEAN, CompareCandidates(entries, maximize)
  PROVE  Compared(comparison)'
<1> DEFINE scope == ScopeOf(entries[1][2])
           binding == BindingOf(entries[1][1])
           metrics == [i \in DOMAIN entries |-> entries[i][2].metric]
<1>1. PICK k : k = Compare(entries, maximize, scope, binding, version, State)
  OBVIOUS
<1>2. comparison' = k /\ k # None /\ UNCHANGED <<candidate, evaluation>>
  BY <1>1 DEF CompareCandidates
<1> HIDE DEF scope, binding
<1>3. /\ k = [entries |-> entries, maximize |-> maximize,
              ranking |-> Ranked(metrics, maximize), values |-> metrics,
              scope |-> scope, binding |-> binding, intact |-> TRUE]
      /\ \A i \in DOMAIN entries : metrics[i] # None
  BY <1>1, <1>2 DEF Compare
<1>4. k.entries = entries /\ k.maximize = maximize /\ k.ranking = Ranked(metrics, maximize)
  BY <1>3
<1>5. ASSUME NEW i \in DOMAIN entries
      PROVE  entries[i][2].metric \in Nat
  <2>1. PICK c \in Candidates, e \in Evaluations : entries[i] = <<c, e>>
    BY DEF Entries
  <2>2. e.metric # None /\ entries[i][2] = e
    BY <1>3, <2>1
  <2> QED  BY <2>2, EvaluationJudged, MetricIsNumber
<1>6. Compared(k)
  BY <1>4, <1>5 DEF Compared
<1>7. candidate' = candidate /\ evaluation' = evaluation
  BY <1>2
<1>8. Entries' = Entries
  BY <1>7 DEF Entries, Candidates, Evaluations
<1> QED  BY <1>2, <1>6, <1>8 DEF Compared

LEMMA NextComparison ==
  ASSUME CandidatesInv, EvaluationsInv, ComparisonInv, [Next]_vars
  PROVE  ComparisonInv'
<1>1. CASE comparison' = comparison
  BY <1>1, EntriesGrow DEF ComparisonInv, Compared
<1>2. ASSUME NEW x \in Entries, NEW y \in Entries, NEW maximize \in BOOLEAN,
             CompareCandidates(<<x>>, maximize) \/ CompareCandidates(<<x, y>>, maximize)
      PROVE  ComparisonInv'
  <2>1. CASE CompareCandidates(<<x>>, maximize)
    <3>1. PICK entries : entries = <<x>>
      OBVIOUS
    <3>2. /\ Len(entries) = 1 /\ DOMAIN entries = 1 .. 1
          /\ \A i \in DOMAIN entries : entries[i] \in Entries
      BY <3>1
    <3>3. Compared(comparison)'
      BY <2>1, <3>1, <3>2, Comparing
    <3> QED  BY <3>3 DEF ComparisonInv
  <2>2. CASE CompareCandidates(<<x, y>>, maximize)
    <3>1. PICK entries : entries = <<x, y>>
      OBVIOUS
    <3>2. /\ Len(entries) = 2 /\ DOMAIN entries = 1 .. 2
          /\ \A i \in DOMAIN entries : entries[i] \in Entries
      BY <3>1
    <3>3. Compared(comparison)'
      BY <2>2, <3>1, <3>2, Comparing
    <3> QED  BY <3>3 DEF ComparisonInv
  <2> QED  BY <1>2, <2>1, <2>2
<1>3. ASSUME NEW c, NEW manifest, Realize(c, manifest) PROVE comparison' = comparison
  BY <1>3 DEF Realize
<1>4. ASSUME NEW name, NEW r, NEW plan, NEW result, NEW home,
             Prove(name, r, plan, result, home)
      PROVE  comparison' = comparison
  BY <1>4 DEF Prove
<1>5. ASSUME NEW c, NEW r, Skip(c, r) PROVE comparison' = comparison
  BY <1>5 DEF Skip
<1>6. ASSUME NEW c, NEW other, NEW status, NEW stage, NEW required,
             EvaluateCandidate(c, other, status, stage, required)
      PROVE  comparison' = comparison
  BY <1>6 DEF EvaluateCandidate
<1>7. ASSUME NEW c, NEW e, NEW entries, SelectCandidate(c, e, entries)
      PROVE  comparison' = comparison
  BY <1>7 DEF SelectCandidate
<1>8. ASSUME NEW name, Synthesize(name) PROVE comparison' = comparison
  BY <1>8 DEF Synthesize
<1>9. ASSUME NEW v \in Values, Commit(v) PROVE comparison' = comparison
  BY <1>9 DEF Commit, desk
<1>10. ASSUME NEW a, PublishSource(a) \/ LoseSource(a) PROVE comparison' = comparison
  BY <1>10 DEF PublishSource, LoseSource, desk
<1>11. CASE UNCHANGED vars
  BY <1>1, <1>11 DEF vars, desk
<1>12. CASE Calls
  BY <1>1, <1>2, <1>3, <1>4, <1>5, <1>6, <1>7, <1>12 DEF Calls
<1> QED  BY Steps, <1>1, <1>8, <1>9, <1>10, <1>11, <1>12

LEMMA ComparisonInvariant == Spec => []ComparisonInv
<1>1. Init => ComparisonInv
  BY DEF Init, ComparisonInv
<1>2. CandidatesInv /\ EvaluationsInv /\ ComparisonInv /\ [Next]_vars => ComparisonInv'
  BY NextComparison
<1> QED  BY <1>1, <1>2, EvaluationsInvariant, PTL DEF Spec

\* A comparison ranks every candidate once, by the clearance its own evaluation
\* certifies, in the direction of the policy, for any candidates, results and ties
\* (comparison.py:641-780).
THEOREM RankedByClearance == Spec => []RankingIsByClearance
<1>1. ComparisonInv => RankingIsByClearance
  <2> SUFFICES ASSUME ComparisonInv, comparison # None
               PROVE  LET ranking == comparison.ranking
                          metric(i) == comparison.entries[ranking[i]][2].metric
                      IN /\ Len(ranking) = Len(comparison.entries)
                         /\ {ranking[i] : i \in DOMAIN ranking} = DOMAIN comparison.entries
                         /\ \A i \in 2 .. Len(ranking) :
                              IF comparison.maximize THEN metric(i) <= metric(i - 1)
                              ELSE metric(i) >= metric(i - 1)
    BY DEF RankingIsByClearance
  <2> DEFINE metrics == [i \in DOMAIN comparison.entries |-> comparison.entries[i][2].metric]
  <2>1. PICK n, ranking, up :
          /\ n = Len(comparison.entries) /\ ranking = comparison.ranking
          /\ up = comparison.maximize
    OBVIOUS
  <2>2. /\ n \in {1, 2} /\ DOMAIN comparison.entries = 1 .. n
        /\ up \in BOOLEAN /\ ranking = Ranked(metrics, up)
        /\ DOMAIN metrics = 1 .. n
        /\ \A i \in 1 .. n : /\ metrics[i] = comparison.entries[i][2].metric
                            /\ metrics[i] \in Nat
    BY <2>1 DEF ComparisonInv, Compared
  <2> HIDE DEF metrics
  <2>3. /\ ranking \in [1 .. n -> 1 .. n]
        /\ \A i, j \in 1 .. n : i < j => Before(metrics, up, ranking[i], ranking[j])
    BY <2>2, RankedInOrder
  <2>4. Len(ranking) = n
    BY <2>2, <2>3
  <2>5. ASSUME NEW i \in 1 .. n, NEW j \in 1 .. n, i < j
        PROVE  /\ ranking[i] # ranking[j]
               /\ IF up THEN metrics[ranking[j]] <= metrics[ranking[i]]
                  ELSE metrics[ranking[j]] >= metrics[ranking[i]]
    <3>1. /\ ranking[i] \in 1 .. n /\ ranking[j] \in 1 .. n
          /\ Before(metrics, up, ranking[i], ranking[j])
      BY <2>3, <2>5
    <3>2. PICK p, q : p = ranking[i] /\ q = ranking[j]
      OBVIOUS
    <3>3. p \in Nat /\ q \in Nat /\ metrics[p] \in Nat /\ metrics[q] \in Nat
      BY <2>2, <3>1, <3>2
    <3>4. CASE up
      BY <3>1, <3>2, <3>3, <3>4 DEF Before, Better
    <3>5. CASE ~ up
      BY <3>1, <3>2, <3>3, <3>5 DEF Before, Better
    <3> QED  BY <3>4, <3>5
  <2>6. {ranking[i] : i \in DOMAIN ranking} = 1 .. n
    <3>1. CASE n = 1
      BY <3>1, <2>3
    <3>2. CASE n = 2
      <4>1. ranking[1] # ranking[2] /\ ranking[1] \in 1 .. 2 /\ ranking[2] \in 1 .. 2
        BY <3>2, <2>3, <2>5
      <4>2. 1 .. 2 = {1, 2} /\ DOMAIN ranking = {1, 2}
        BY <3>2, <2>3
      <4> QED  BY <3>2, <4>1, <4>2
    <3> QED  BY <2>2, <3>1, <3>2
  <2>7. ASSUME NEW i \in 2 .. n
        PROVE  LET x == comparison.entries[ranking[i]][2].metric
                   y == comparison.entries[ranking[i - 1]][2].metric
               IN IF up THEN x <= y ELSE x >= y
    <3>1. i \in 1 .. n /\ i - 1 \in 1 .. n /\ i - 1 < i
      BY <2>2
    <3>2. IF up THEN metrics[ranking[i]] <= metrics[ranking[i - 1]]
          ELSE metrics[ranking[i]] >= metrics[ranking[i - 1]]
      BY <2>5, <3>1
    <3>3. ranking[i] \in 1 .. n /\ ranking[i - 1] \in 1 .. n
      BY <2>3, <3>1
    <3> QED  BY <2>2, <3>2, <3>3
  <2>8. Len(comparison.ranking) = Len(comparison.entries)
    BY <2>1, <2>4
  <2>9. {comparison.ranking[i] : i \in DOMAIN comparison.ranking} = DOMAIN comparison.entries
    BY <2>1, <2>2, <2>6
  <2>10. \A i \in 2 .. Len(comparison.ranking) :
           LET x == comparison.entries[comparison.ranking[i]][2].metric
               y == comparison.entries[comparison.ranking[i - 1]][2].metric
           IN IF comparison.maximize THEN x <= y ELSE x >= y
    BY <2>1, <2>4, <2>7
  <2> QED  BY <2>8, <2>9, <2>10
<1> QED  BY <1>1, ComparisonInvariant, PTL

\* An evaluation that passes is of the value the state has.
LEMMA CurrentIsOfNow ==
  ASSUME CandidatesInv, NEW c \in Candidates, StillCurrent(c, State)
  PROVE  c.synthesis.value = values[revision]
<1>1. Synthesised(c.name, c)
  BY DEF Candidates, CandidatesInv, Synthesised
<1>2. State.revision = revision /\ State.value = values[revision]
  BY DEF State
<1> QED  BY <1>1, <1>2 DEF StillCurrent, Synthesised

LEMMA Selecting ==
  ASSUME CandidatesInv, ComparisonInv, NEW c \in Candidates, NEW e \in Evaluations,
         SelectCandidate(c, e, IF comparison = None THEN None ELSE comparison.entries),
         NEW members, members = IF comparison = None THEN {<<c, e>>}
                                ELSE Range(comparison.entries)
  PROVE  /\ selection'.candidate = c /\ selection'.evaluation = e
         /\ selection'.comparison = comparison
         /\ <<c, e>> \in members
         /\ \A member \in members :
              /\ member[2].candidate = member[1]
              /\ member[2].outcome = "feasible"
              /\ member[1].synthesis.value = values[revision]
              /\ ScopeOf(member[2]) = ScopeOf(e)
<1> DEFINE entries == IF comparison = None THEN None ELSE comparison.entries
<1>1. /\ selection' = Select(c, e, comparison, entries, State)
      /\ selection' # None
  BY DEF SelectCandidate
<1>2. /\ selection' = [candidate |-> c, evaluation |-> e, comparison |-> comparison,
                       intact |-> TRUE]
      /\ Selectable(c, e)
      /\ comparison = None => VerifyCurrent(e, c, c.synthesis, State)
      /\ comparison # None => Supports(comparison, entries, c, e, State)
  BY <1>1 DEF Select
<1>3. CASE comparison = None
  <2>1. c.synthesis.value = values[revision]
    BY <1>2, <1>3, CurrentIsOfNow DEF VerifyCurrent
  <2> QED  BY <1>2, <1>3, <2>1 DEF Selectable
<1>4. CASE comparison # None
  <2>1. entries = comparison.entries /\ Supports(comparison, comparison.entries, c, e, State)
    BY <1>2, <1>4
  <2>2. <<c, e>> \in Range(comparison.entries) /\ comparison.scope = ScopeOf(e)
    BY <2>1 DEF Supports
  <2>3. ASSUME NEW member \in Range(comparison.entries)
        PROVE  /\ member[2].candidate = member[1]
               /\ member[2].outcome = "feasible"
               /\ member[1].synthesis.value = values[revision]
               /\ ScopeOf(member[2]) = ScopeOf(e)
    <3>1. PICK i \in DOMAIN comparison.entries : member = comparison.entries[i]
      BY DEF Range
    <3>2. /\ Selectable(member[1], member[2]) /\ ScopeOf(member[2]) = ScopeOf(e)
          /\ VerifyCurrent(member[2], member[1], member[1].synthesis, State)
      BY <2>1, <2>2, <3>1 DEF Supports
    <3>3. member[1] \in Candidates
      BY <1>4, <3>1 DEF ComparisonInv, Compared, Entries
    <3>4. member[1].synthesis.value = values[revision]
      BY <3>2, <3>3, CurrentIsOfNow DEF VerifyCurrent
    <3> QED  BY <3>2, <3>4 DEF Selectable
  <2> QED  BY <1>2, <1>4, <2>2, <2>3
<1> QED  BY <1>3, <1>4

LEMMA OnlySelecting ==
  ASSUME [Next]_vars, selection' # selection
  PROVE  \E c \in Candidates, e \in Evaluations :
           SelectCandidate(c, e, IF comparison = None THEN None ELSE comparison.entries)
<1>1. ASSUME NEW c, NEW manifest, Realize(c, manifest) PROVE FALSE
  BY <1>1 DEF Realize
<1>2. ASSUME NEW name, NEW r, NEW plan, NEW result, NEW home,
             Prove(name, r, plan, result, home)
      PROVE  FALSE
  BY <1>2 DEF Prove
<1>3. ASSUME NEW c, NEW r, Skip(c, r) PROVE FALSE
  BY <1>3 DEF Skip
<1>4. ASSUME NEW c, NEW other, NEW status, NEW stage, NEW required,
             EvaluateCandidate(c, other, status, stage, required)
      PROVE  FALSE
  BY <1>4 DEF EvaluateCandidate
<1>5. ASSUME NEW entries, NEW maximize, CompareCandidates(entries, maximize) PROVE FALSE
  BY <1>5 DEF CompareCandidates
<1>6. ASSUME NEW name, Synthesize(name) PROVE FALSE
  BY <1>6 DEF Synthesize
<1>7. ASSUME NEW v, Commit(v) PROVE FALSE
  BY <1>7 DEF Commit, desk
<1>8. ASSUME NEW a, PublishSource(a) \/ LoseSource(a) PROVE FALSE
  BY <1>8 DEF PublishSource, LoseSource, desk
<1>9. ~ UNCHANGED vars
  BY DEF vars, desk
<1>10. PICK x \in Entries :
         SelectCandidate(x[1], x[2], IF comparison = None THEN None ELSE comparison.entries)
  BY Steps, <1>1, <1>2, <1>3, <1>4, <1>5, <1>6, <1>7, <1>8, <1>9 DEF Calls
<1>11. x[1] \in Candidates /\ x[2] \in Evaluations
  BY DEF Entries
<1> QED  BY <1>10, <1>11

\* At the moment of a selection the choice and all it was compared with are feasible,
\* of one scope and of the value the state has then, for any commits and losses between
\* comparison and selection (selection.py:458-640; comparison.py:641-780).
THEOREM SelectionsAreOfNow == Spec => SelectionIsOfNow
<1>1. CandidatesInv /\ ComparisonInv /\ [Next]_vars =>
        (selection' # selection =>
           LET chosen == <<selection'.candidate, selection'.evaluation>>
               members == IF selection'.comparison = None THEN {chosen}
                          ELSE Range(selection'.comparison.entries)
           IN /\ chosen \in members
              /\ \A member \in members :
                   /\ member[2].candidate = member[1]
                   /\ member[2].outcome = "feasible"
                   /\ member[1].synthesis.value = values[revision]
                   /\ ScopeOf(member[2]) = ScopeOf(chosen[2]))
  <2> SUFFICES ASSUME CandidatesInv, ComparisonInv, [Next]_vars, selection' # selection
               PROVE  LET chosen == <<selection'.candidate, selection'.evaluation>>
                          members == IF selection'.comparison = None THEN {chosen}
                                     ELSE Range(selection'.comparison.entries)
                      IN /\ chosen \in members
                         /\ \A member \in members :
                              /\ member[2].candidate = member[1]
                              /\ member[2].outcome = "feasible"
                              /\ member[1].synthesis.value = values[revision]
                              /\ ScopeOf(member[2]) = ScopeOf(chosen[2])
    OBVIOUS
  <2>1. PICK c \in Candidates, e \in Evaluations :
          SelectCandidate(c, e, IF comparison = None THEN None ELSE comparison.entries)
    BY OnlySelecting
  <2>2. PICK members : members = IF comparison = None THEN {<<c, e>>}
                                 ELSE Range(comparison.entries)
    OBVIOUS
  <2>3. /\ selection'.candidate = c /\ selection'.evaluation = e
        /\ selection'.comparison = comparison
        /\ <<c, e>> \in members
        /\ \A member \in members :
             /\ member[2].candidate = member[1]
             /\ member[2].outcome = "feasible"
             /\ member[1].synthesis.value = values[revision]
             /\ ScopeOf(member[2]) = ScopeOf(e)
    BY <2>1, <2>2, Selecting
  <2>4. ScopeOf(<<c, e>>[2]) = ScopeOf(e)
    OBVIOUS
  <2> QED  BY <2>2, <2>3, <2>4
<1> QED  BY <1>1, CandidatesInvariant, ComparisonInvariant, PTL DEF Spec, SelectionIsOfNow
=============================================================================
