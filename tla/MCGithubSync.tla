---------------------------- MODULE MCGithubSync ----------------------------
(* A paper of two files.                                                      *)
EXTENDS GithubSync
=============================================================================
