---------------------------- MODULE CandidateCad ----------------------------
(***************************************************************************)
(* CandidateIntegrityVerifier and CandidateCurrentnessService              *)
(* (candidates/services.py) and CandidateCadRealizationService             *)
(* (candidates/cad_realization.py): when a design candidate is still the   *)
(* one synthesised from the current state, and what its CAD realisation    *)
(* comes to.                                                               *)
(*                                                                         *)
(* A record bound to another one by a hash holds that record here: two     *)
(* hashes are equal when the records are.  `intact` is FALSE of a record   *)
(* whose stored hash is not the one of its content.                        *)
(*                                                                         *)
(*   synthesis   [version, revision, value]: the request, the revision it  *)
(*               is bound to and the value it consumed there               *)
(*   candidate   [name, synthesis, intact]                                 *)
(*   cad request [candidate, schema, mappings, derivations]                *)
(*   cad stage   [status, realization], a realization [candidate, request] *)
(***************************************************************************)
EXTENDS Naturals, Sequences, FiniteSets

CONSTANTS
  Parts,      \* candidate name -> its physical instances
  PartOrder,  \* all the instances, in the order of every mapping manifest
  SpecOf,     \* candidate name -> instance -> [kind, source]
  None

SpecKinds == {"sourced", "generated", "plain", "unsupported"}

CadStatuses == {"success", "unresolved", "not_reached"}

ASSUME PartAssumption ==
  /\ DOMAIN SpecOf = DOMAIN Parts
  /\ \A name \in DOMAIN Parts :
       /\ \A part \in Parts[name] : \E i \in DOMAIN PartOrder : PartOrder[i] = part
       /\ DOMAIN SpecOf[name] = Parts[name]
       /\ \A part \in Parts[name] : SpecOf[name][part].kind \in SpecKinds

SourceOf(candidate) == candidate.synthesis.revision
PartsOf(candidate) == Parts[candidate.name]

-----------------------------------------------------------------------------
(* Faulty variants, for the properties to reject. *)

\* Any newer revision makes a candidate stale.
StillCurrentByRevision(candidate, state) ==
  state.revision = candidate.synthesis.revision

-----------------------------------------------------------------------------
(* Candidates *)

\* CandidateIntegrityVerifier.verify: the candidate is intact and made from
\* this very request; that the families match follows.
Intact(candidate, synthesis) ==
  candidate.intact /\ candidate.synthesis = synthesis

\* verify_candidate_semantic_binding, of the second version only: every source of
\* geometry is an artifact that exactly one run of the project holds, bound to
\* the revision of the candidate.
SourcesResolve(candidate, trusted) ==
  \A part \in PartsOf(candidate) :
    LET spec == SpecOf[candidate.name][part]
    IN spec.kind = "sourced" => <<spec.source, SourceOf(candidate)>> \in trusted

\* evaluate_source_binding against a state [revision, value, trusted].  The
\* revision may have moved on: what counts is the value the candidate consumed.
StillCurrent(candidate, state) ==
  /\ candidate.synthesis.version = 2 => SourcesResolve(candidate, state.trusted)
  /\ \/ state.revision = candidate.synthesis.revision
     \/ state.value = candidate.synthesis.value

-----------------------------------------------------------------------------
(* Realisation *)

\* _validate_request_input_identities: the geometry a mapping names is the one
\* of its own specification, its placement comes from inputs it owns.
OwnInputs(candidate, request) ==
  \A part \in PartsOf(candidate) :
    LET mapping == request.mappings[part]
    IN /\ <<SpecOf[candidate.name][part].kind, mapping.fidelity>>
            \in {<<"sourced", "trusted">>, <<"generated", "exact">>} => mapping.own
       /\ mapping.placement # "foreign"

\* The family of the request is that of the candidate.
SameFamily(candidate, request) ==
  request.schema = 3 <=> candidate.synthesis.version = 2

RequestFits(candidate, request) ==
  /\ SameFamily(candidate, request)
  /\ request.candidate = candidate
  /\ DOMAIN request.mappings = PartsOf(candidate)

\* _verify_candidate raises otherwise.
MayRealize(candidate, synthesis, request, state) ==
  /\ Intact(candidate, synthesis)
  /\ RequestFits(candidate, request)
  /\ OwnInputs(candidate, request)
  /\ StillCurrent(candidate, state)

\* A generated part is placed by a derivation and nowhere else (not asked of
\* the oldest requests); other parts by their own design variables.
Placed(candidate, request, part) ==
  LET generated == SpecOf[candidate.name][part].kind = "generated"
  IN IF part \in request.derivations
     THEN request.mappings[part].placement \in {"derived", "underivable"}
     ELSE /\ request.schema \in {2, 3} => ~ generated
          /\ request.mappings[part].placement = "origin"

\* One mapping of the loop of _realize_current.
Mapped(candidate, request, trusted, part) ==
  LET spec == SpecOf[candidate.name][part]
      mapping == request.mappings[part]
      built(fidelity, resolved) ==
        IF mapping.fidelity # fidelity THEN "unavailable"
        ELSE IF mapping.own /\ resolved THEN "built" ELSE "raises"
  IN IF ~ Placed(candidate, request, part) THEN "misplaced"
     ELSE IF mapping.placement = "underivable" THEN "unavailable"
     ELSE CASE spec.kind = "sourced" ->
                 built("trusted", <<spec.source, SourceOf(candidate)>> \in trusted)
            [] spec.kind = "generated" -> built("exact", TRUE)
            [] spec.kind = "plain" -> built("bounded", TRUE)
            [] spec.kind = "unsupported" -> "unavailable"

\* A misplaced part ends the loop with an unresolved stage, a raise ends it with
\* no stage at all, whichever comes first; missing geometry is collected.
RealizeCurrent(candidate, request, trusted) ==
  LET outcome == [part \in PartsOf(candidate) |->
                    Mapped(candidate, request, trusted, part)]
      ends(i) == /\ PartOrder[i] \in PartsOf(candidate)
                 /\ outcome[PartOrder[i]] \in {"misplaced", "raises"}
      first(i) == ends(i) /\ \A j \in 1 .. i - 1 : ~ ends(j)
  IN IF \E i \in DOMAIN PartOrder : first(i) /\ outcome[PartOrder[i]] = "raises"
     THEN None
     ELSE IF \E part \in PartsOf(candidate) : outcome[part] # "built"
     THEN [status |-> "unresolved", realization |-> None]
     ELSE [status |-> "success",
           realization |-> [candidate |-> candidate, request |-> request]]

\* validate_realization: replayed from the sources there are now.
Replays(candidate, realization, trusted) ==
  LET stage == RealizeCurrent(candidate, realization.request, trusted)
  IN /\ RequestFits(candidate, realization.request)
     /\ OwnInputs(candidate, realization.request)
     /\ stage # None /\ stage.status = "success" /\ stage.realization = realization
=============================================================================
