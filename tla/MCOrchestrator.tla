----------------------------- MODULE MCOrchestrator -----------------------------
(* Instances of Orchestrator for TLC; the .cfg files choose among them. *)
EXTENDS Orchestrator, TLC

CONSTANTS j1, j2, j3, k1, k2

\* The jobs of one export share a token; another job has its own.
OneTokenEach == (j1 :> k1 @@ j2 :> k2 @@ j3 :> k1)
OneToken == (j1 :> k1 @@ j2 :> k1 @@ j3 :> k1)

\* Work for the user, and two background jobs that compete with it
UserAndBackground ==
    (j1 :> "foreground" @@ j2 :> "background" @@ j3 :> "background")

\* Two processes of an export, which must all run, and a background job
ExportAndBackground ==
    (j1 :> "export" @@ j2 :> "export" @@ j3 :> "background")
=============================================================================
