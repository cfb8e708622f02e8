---------------------------- MODULE MCRepoWrite ----------------------------
(* The instances of RepoWrite: three paths to three files, and three paths *)
(* of which two resolve to one file.                                       *)
EXTENDS RepoWrite

CONSTANTS f1, f2, f3

Distinct == <<f1, f2, f3>>
Aliased == <<f1, f2, f1>>
=============================================================================
