----------------------------- MODULE MCHttpClient -----------------------------
(* The instance of HttpClient that TLC checks: a server that answers in    *)
(* every way the client tells apart, a session that may retry once and one *)
(* that has used up its retries in the modules before.                     *)
EXTENDS HttpClient

CONSTANT Fresh

EveryAnswer == {"length", "chunked", "close", "unframed", "badLength"}

RetriesLeft == [r \in Requests |-> IF r = Fresh THEN 1 ELSE 0]

=============================================================================
