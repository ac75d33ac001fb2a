------------------------------ MODULE ChangeOps ------------------------------
(***************************************************************************)
(* What the ChangeEngine computes from a canonical state and a proposal    *)
(* (changes/engine.py, changes/operations.py, changes/ownership.py).       *)
(* A canonical state is a map from the paths a proposal may name to the    *)
(* value found there; Absent stands for a path that does not exist.  A     *)
(* proposal is [actor, ops]: a sequence of operations, applied in order to *)
(* one in-memory copy, all or nothing.                                     *)
(***************************************************************************)
EXTENDS Naturals, Sequences

CONSTANTS
  Paths,      \* canonical paths that proposals address
  Values,     \* values stored at them
  Absent,     \* no value at the path; also "no expected value given"
  Actors,     \* who proposes
  NoOwner,    \* the owner of a path no ownership rule governs
  Owner,      \* path -> its owner, or NoOwner
  Valid,      \* the contents that DesignState.model_validate accepts
  Proposals,  \* the proposals the callers submit
  Rejected    \* the outcome of an application that raises

Contents == [Paths -> Values \cup {Absent}]

Operations ==
  [kind : {"add", "replace", "remove"}, path : Paths,
   expected : Values \cup {Absent}, value : Values]

ASSUME ContentAssumption ==
  /\ Absent \notin Values
  /\ Valid \subseteq Contents
  /\ Rejected \notin Contents

ASSUME OwnerAssumption ==
  /\ NoOwner \notin Actors
  /\ Owner \in [Paths -> Actors \cup {NoOwner}]

ASSUME ProposalAssumption ==
  Proposals \subseteq [actor : Actors, ops : Seq(Operations)]

\* OwnershipPolicy.check: a path without an owner and a foreign path both fail.
Owns(actor, path) == Owner[path] # NoOwner /\ Owner[path] = actor

\* The preconditions of apply_operation: compare-before-write, then existence.
Applicable(op, content) ==
  /\ op.expected # Absent => content[op.path] = op.expected
  /\ op.kind = "add" <=> content[op.path] = Absent

Write(op, content) ==
  [content EXCEPT ![op.path] = IF op.kind = "remove" THEN Absent ELSE op.value]

\* The copy after the first n operations, Rejected from the first that fails.
AfterOps(proposal, content) ==
  LET after[n \in 0 .. Len(proposal.ops)] ==
        IF n = 0 THEN content
        ELSE LET op == proposal.ops[n]
             IN IF /\ after[n - 1] # Rejected
                   /\ Owns(proposal.actor, op.path)
                   /\ Applicable(op, after[n - 1])
                THEN Write(op, after[n - 1])
                ELSE Rejected
  IN after[Len(proposal.ops)]

\* _prepare_proposal_locked after its stale check: Rejected, or the new content.
Outcome(proposal, content) ==
  LET after == AfterOps(proposal, content)
  IN IF after \in Valid THEN after ELSE Rejected
=============================================================================
