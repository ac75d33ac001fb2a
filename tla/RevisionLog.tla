----------------------------- MODULE RevisionLog -----------------------------
(***************************************************************************)
(* What the revision store promises its callers: a project's canonical     *)
(* history is a sequence of contents that only grows, and each new content *)
(* is an accepted proposal applied to the last one.  Processes, locks,     *)
(* files and crashes do not appear: a commit is one indivisible step.      *)
(***************************************************************************)
EXTENDS ChangeOps

VARIABLE log      \* log[r] is the canonical content of revision r

Init == log = << >>

\* The project comes into being with its first revision.
Found(content) == log = << >> /\ log' = << content >>

\* A proposal is applied to the current revision, never to an older one.
Commit(proposal) ==
  /\ log # << >>
  /\ LET next == Outcome(proposal, log[Len(log)])
     IN next # Rejected /\ log' = Append(log, next)

Next == (\E content \in Valid : Found(content))
        \/ (\E proposal \in Proposals : Commit(proposal))

Spec == Init /\ [][Next]_log
=============================================================================
