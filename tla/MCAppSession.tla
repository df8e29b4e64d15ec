---------------------------- MODULE MCAppSession ----------------------------
(* Instances of AppSession: the names of its containers.                    *)
EXTENDS AppSession

CONSTANTS c1, c2
=============================================================================
