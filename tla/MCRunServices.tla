---------------------------- MODULE MCRunServices ----------------------------
(***************************************************************************)
(* The instance of RunServices that TLC checks: versions are tuples, which *)
(* a configuration file cannot write.                                      *)
(***************************************************************************)
EXTENDS RunServices

\* A release of two numbers, as only go and protoc make them, and two patch
\* releases with the same first numbers.
MCReleases == {<<1,20>>, <<1,20,1>>, <<1,20,2>>}

\* A partial version (exact for protoc) and an exact one.
MCRequests == {<<1,20>>, <<1,20,1>>}

=============================================================================
