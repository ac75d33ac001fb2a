------------------------- MODULE CandidateSelection -------------------------
(***************************************************************************)
(* CandidateComparisonService (candidates/comparison.py) and               *)
(* CandidateSelectionService (candidates/selection.py): feasible candidates *)
(* ranked by the clearance they are certified for, and the recorded choice *)
(* of one of them.                                                         *)
(*                                                                         *)
(*   entry       <<candidate, evaluation>>, in the order of the request    *)
(*   comparison  [entries, maximize, ranking, values, scope, binding,      *)
(*                intact]                                                  *)
(*   selection   [candidate, evaluation, comparison, intact]               *)
(***************************************************************************)
EXTENDS CandidateEvaluation, SequencesExt

ScopeOf(e) == IF e.m10.status = "not_reached" THEN None ELSE e.m10.request.scope

\* The source binding: of the first version the revision and what it consumed
\* there, of the second only what it consumed.
BindingOf(candidate) ==
  IF candidate.synthesis.version = 1
  THEN <<candidate.synthesis.revision, candidate.synthesis.value>>
  ELSE <<candidate.synthesis.value>>

-----------------------------------------------------------------------------
(* Faulty variants, for the properties to reject. *)

RankedUpward(values, maximize) ==
  CHOOSE ranking \in [DOMAIN values -> DOMAIN values] :
    /\ Range(ranking) = DOMAIN values
    /\ \A m, n \in DOMAIN values : m < n => values[ranking[m]] <= values[ranking[n]]

\* The entries of a comparison were verified when it was made.
SupportsAsCompared(comparison, entries, candidate, e, state) ==
  /\ comparison.intact /\ comparison.binding = BindingOf(candidate)
  /\ comparison.scope = ScopeOf(e)
  /\ <<candidate, e>> \in Range(comparison.entries)
  /\ entries = comparison.entries

-----------------------------------------------------------------------------
(* Comparison *)

\* One entry of _compare: feasible, within the scope and source of the request,
\* and current when it is compared.
Comparable(entry, scope, binding, version, state) ==
  LET candidate == entry[1]
      e == entry[2]
  IN /\ candidate.intact /\ candidate.synthesis.version = version
     /\ e.candidate = candidate
     /\ BindingOf(candidate) = binding
     /\ ScopeOf(e) = scope
     /\ e.outcome = "feasible"
     /\ VerifyCurrent(e, candidate, candidate.synthesis, state)

\* Sorted by clearance in the direction of the policy; the sort is stable.
Better(maximize, x, y) == IF maximize THEN x > y ELSE x < y

Before(values, maximize, i, j) ==
  \/ Better(maximize, values[i], values[j])
  \/ values[i] = values[j] /\ i < j

Ranked(values, maximize) ==
  CHOOSE ranking \in [DOMAIN values -> DOMAIN values] :
    \A m, n \in DOMAIN values :
      m < n => Before(values, maximize, ranking[m], ranking[n])

\* compare: None if it raises.  Each candidate once, every one with the metric.
Compare(entries, maximize, scope, binding, version, state) ==
  LET values == [i \in DOMAIN entries |-> entries[i][2].metric]
  IN IF /\ entries # << >>
        /\ \A i, j \in DOMAIN entries : entries[i][1] = entries[j][1] => i = j
        /\ \A i \in DOMAIN entries : Comparable(entries[i], scope, binding, version, state)
        /\ \A i \in DOMAIN entries : values[i] # None
     THEN [entries |-> entries, maximize |-> maximize,
           ranking |-> Ranked(values, maximize), values |-> values,
           scope |-> scope, binding |-> binding, intact |-> TRUE]
     ELSE None

\* The validator of CandidateComparisonResult.
ComparisonHolds(comparison) ==
  /\ comparison.intact
  /\ Range(comparison.ranking) = DOMAIN comparison.entries
  /\ \A i, j \in DOMAIN comparison.ranking :
       i < j => ~ Better(comparison.maximize, comparison.values[comparison.ranking[j]],
                         comparison.values[comparison.ranking[i]])

-----------------------------------------------------------------------------
(* Selection *)

\* _validate_candidate_evaluation.
Selectable(candidate, e) ==
  /\ candidate.intact /\ e.intact /\ WellFormed(e)
  /\ e.candidate = candidate
  /\ e.outcome = "feasible" /\ e.findings = {}

\* A comparison must be of the source and scope of the chosen evaluation and
\* contain it; its entries are supplied again, in full, and all verified anew.
Supports(comparison, entries, candidate, e, state) ==
  /\ ComparisonHolds(comparison)
  /\ comparison.binding = BindingOf(candidate)
  /\ comparison.scope = ScopeOf(e)
  /\ <<candidate, e>> \in Range(comparison.entries)
  /\ entries = comparison.entries
  /\ \A i \in DOMAIN entries :
       LET member == entries[i]
       IN /\ Selectable(member[1], member[2])
          /\ BindingOf(member[1]) = comparison.binding
          /\ ScopeOf(member[2]) = comparison.scope
          /\ VerifyCurrent(member[2], member[1], member[1].synthesis, state)
          /\ member[2].metric = comparison.values[i]

\* select: None if it raises.
Select(candidate, e, comparison, entries, state) ==
  IF /\ Selectable(candidate, e)
     /\ IF comparison = None
        THEN entries = None /\ VerifyCurrent(e, candidate, candidate.synthesis, state)
        ELSE entries # None /\ Supports(comparison, entries, candidate, e, state)
  THEN [candidate |-> candidate, evaluation |-> e, comparison |-> comparison,
        intact |-> TRUE]
  ELSE None
=============================================================================
