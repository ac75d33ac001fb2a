---------------------------- MODULE ArtifactStore ----------------------------
(***************************************************************************)
(* ArtifactStore (artifacts/storage.py): files published under an id in    *)
(* the scope of a run, each as a content file and a metadata file that     *)
(* holds its hash and the revision it is bound to.  Nothing is locked: a   *)
(* publisher looks, writes the content, then writes the metadata, and one  *)
(* that fails leaves what it had written.  A reader takes an artifact only *)
(* if content and metadata agree; a reader in the whole project, only if   *)
(* exactly one run has it.                                                 *)
(***************************************************************************)
EXTENDS Naturals, FiniteSets

CONSTANTS
  Publishers,
  Scopes,      \* runs
  Ids,
  Published,   \* scope -> id -> [bytes, bound] published before, or None
  Garbled,     \* the bytes of a damaged file
  None

VARIABLES
  content,     \* scope -> id -> its bytes, or None
  metadata,    \* scope -> id -> [bytes, bound], or None
  publishing   \* publisher -> [scope, id, bytes, bound, step], or None

vars == <<content, metadata, publishing>>

Init ==
  /\ metadata = Published
  /\ content = [s \in Scopes |-> [i \in Ids |->
       IF Published[s][i] = None THEN None ELSE Published[s][i].bytes]]
  /\ publishing = [w \in Publishers |-> None]

-----------------------------------------------------------------------------
(* Reading *)

\* _verified.
Verified(s, i) == metadata[s][i] # None /\ content[s][i] = metadata[s][i].bytes

\* read_verified_in_project, existing_in_project: the runs that have it.
Holders(i) == {s \in Scopes : Verified(s, i)}
InProject(i) == Cardinality(Holders(i)) = 1

-----------------------------------------------------------------------------
(* publish *)

Absent(s, i) == content[s][i] = None /\ metadata[s][i] = None

\* Published already, with these bytes and this binding: the artifact there is
\* returned.  A content file that lost its metadata blocks its id for good.
Same(s, i, bytes, bound) ==
  /\ content[s][i] = bytes
  /\ metadata[s][i] = [bytes |-> bytes, bound |-> bound]

MayPublish(s, i, bytes, bound) == Absent(s, i) \/ Same(s, i, bytes, bound)

Publish(w, s, i, bytes, bound) ==
  /\ publishing[w] = None
  /\ Absent(s, i)
  /\ publishing' = [publishing EXCEPT ![w] =
       [scope |-> s, id |-> i, bytes |-> bytes, bound |-> bound, step |-> "content"]]
  /\ UNCHANGED <<content, metadata>>

At(w, step) == publishing[w] # None /\ publishing[w].step = step

WriteContent(w) ==
  /\ At(w, "content")
  /\ content' = [content EXCEPT ![publishing[w].scope][publishing[w].id] =
                   publishing[w].bytes]
  /\ publishing' = [publishing EXCEPT ![w].step = "metadata"]
  /\ UNCHANGED metadata

WriteMetadata(w) ==
  /\ At(w, "metadata")
  /\ metadata' = [metadata EXCEPT ![publishing[w].scope][publishing[w].id] =
                    [bytes |-> publishing[w].bytes, bound |-> publishing[w].bound]]
  /\ publishing' = [publishing EXCEPT ![w] = None]
  /\ UNCHANGED content

\* A write raises, or the process dies.
GiveUp(w) ==
  /\ publishing[w] # None
  /\ publishing' = [publishing EXCEPT ![w] = None]
  /\ UNCHANGED <<content, metadata>>

\* Of the environment: the content of an artifact is lost to readers.
Damage(s, i) ==
  /\ Verified(s, i)
  /\ content' = [content EXCEPT ![s][i] = Garbled]
  /\ UNCHANGED <<metadata, publishing>>

\* Of the environment: a run publishes what another one has published, for a
\* revision of its own.
Republish(s, t, i, bound) ==
  /\ Verified(s, i) /\ Absent(t, i)
  /\ content' = [content EXCEPT ![t][i] = content[s][i]]
  /\ metadata' = [metadata EXCEPT ![t][i] = [bytes |-> content[s][i], bound |-> bound]]
  /\ UNCHANGED publishing

\* A publisher gets on; or an artifact changes, with nobody of them having a hand in it.
Next ==
  \/ /\ publishing' # publishing
     /\ \E w \in Publishers :
          \/ WriteContent(w) \/ WriteMetadata(w) \/ GiveUp(w)
          \/ /\ publishing[w] = None /\ publishing'[w] # None
             /\ Publish(w, publishing'[w].scope, publishing'[w].id, publishing'[w].bytes,
                        publishing'[w].bound)
  \/ /\ content' # content
     /\ \E t \in Scopes, i \in Ids :
          /\ content'[t][i] # content[t][i]
          /\ \/ Damage(t, i)
             \/ \E s \in Scopes : metadata'[t][i] # None /\ Republish(s, t, i, metadata'[t][i].bound)

Spec == Init /\ [][Next]_vars
=============================================================================
