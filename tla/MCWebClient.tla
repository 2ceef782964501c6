----------------------------- MODULE MCWebClient -----------------------------
(* One service, whose effect runs up to three times: StrictMode's two runs  *)
(* and one after them.                                                      *)
EXTENDS WebClient

CONSTANTS s1, s2, s3

MCSocket == {s1, s2, s3}

=============================================================================
