------------------------- MODULE CandidateWorkspace -------------------------
(***************************************************************************)
(* The Git side of the candidate lane (bp-authority-broker                 *)
(* candidate_workspace.rs): the detached worktree the command runs in, the *)
(* manifest and packet files beside it, the create-only candidate ref and  *)
(* the verification worktree.  A tree is 0 for the signed base and n for   *)
(* what the n-th execution of the command left; `none' is absence.  A file *)
(* is created first and written next, so a crash can leave it torn.        *)
(***************************************************************************)
EXTENDS CandidateProof

VARIABLES
    ws,     \* [tree, manifest, packet, ref, verify]
    target  \* the target checkout: at its "base", "advanced", or on another
            \* branch ("switched")

workspaceVars == <<ws, target>>

WorkspaceInit ==
    /\ ws = [tree |-> none, manifest |-> "absent", packet |-> "absent",
             ref |-> none, verify |-> none]
    /\ target = "base"

\* verify_governed_repository_binding_v1: the binding covers the branch that is
\* checked out, not the commit it is at.
BindsRepository == target # "switched"
\* The checkout is the signed base commit, without a change.
AtBase == BindsRepository /\ target = "base"

\* verify_existing_workspace: the worktree is as it was created.
Untouched == ws.tree = 0

\* read_workspace_manifest_bytes: half a file never parses to the binding.
ManifestReads == ws.manifest = "whole"

\* The target must be at the base and clean; an existing worktree must be
\* untouched; a candidate already frozen is never opened again.
WorkspaceAnswer ==
    IF ~AtBase THEN "rejected"
    ELSE IF ws.ref # none THEN "finalized"
    ELSE IF ws.tree = none \/ Untouched THEN "opened" ELSE "reconcile"

\* git worktree add --detach <base>, or the worktree that is there.
OpenWorkspace ==
    /\ ws' = IF WorkspaceAnswer = "opened" THEN [ws EXCEPT !.tree = 0] ELSE ws
    /\ UNCHANGED target

\* persist_workspace_bytes: O_EXCL creates the file; a file that is there must
\* hold the expected bytes.
FileAnswer(file) ==
    CASE ws[file] = "absent" -> "created"
      [] ws[file] = "whole"  -> "existing"
      [] ws[file] = "torn"   -> "reconcile"

CreateFile(file) ==
    /\ ws' = IF FileAnswer(file) = "created" THEN [ws EXCEPT ![file] = "torn"] ELSE ws
    /\ UNCHANGED target

WriteFile(file) ==
    /\ ws' = [ws EXCEPT ![file] = "whole"]
    /\ UNCHANGED target

\* reopen_candidate_workspace_v1: the worktree must be as it was created, so
\* a command that changed anything closes it for every later request.
Reopens == ManifestReads /\ AtBase /\ Untouched

\* recover_candidate_packet_source_v1
RecoversPacket == ws.packet = "whole"

\* resolve_candidate_target_ref_v1
ResolvesTarget == ManifestReads /\ BindsRepository

\* finalize_candidate_workspace_v1: a ref that exists is authoritative and is
\* never moved; otherwise the worktree is staged, committed and the ref created.
FinalizedTree_unstaged == IF ws.ref # none THEN ws.ref ELSE 0
FinalizedTree == IF ws.ref # none THEN ws.ref ELSE ws.tree

Finalizes == ManifestReads /\ AtBase /\ ws.tree # none

FinalizeGit ==
    /\ ws' = IF Finalizes THEN [ws EXCEPT !.ref = FinalizedTree] ELSE ws
    /\ UNCHANGED target

\* derive_candidate_artifact: the digests are those of the commit the ref names.
DerivesArtifact(tree) == ws.ref = tree

\* The target is read again once the ref exists; the ref stays either way.
StillAtBase(tree) == DerivesArtifact(tree) /\ AtBase

\* open_candidate_verification_workspace_v1: a clean detached worktree at the
\* frozen commit, which nothing ever writes.
OpensVerification ==
    Finalizes /\ (ws.verify = none \/ ws.verify = FinalizedTree)

OpenVerification ==
    /\ ws' = IF OpensVerification
             THEN [ws EXCEPT !.ref = FinalizedTree, !.verify = FinalizedTree]
             ELSE ws
    /\ UNCHANGED target
=============================================================================
