----------------------------- MODULE MCObjects -----------------------------
(* Model-checking instance of Objects: any request against a writer or a validating reader, and a GET *)
EXTENDS Objects

CONSTANTS c1, c2, c3

MCKindsOf == [c \in Clients |-> CASE c = c1 -> Kinds [] c = c2 -> {"latest", "put", "delete"}
                                  [] OTHER -> {"get"}]
=============================================================================
