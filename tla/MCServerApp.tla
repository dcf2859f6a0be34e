---------------------------- MODULE MCServerApp -----------------------------
(* ServerApp, with the names of its handlers and a few requests, for TLC.   *)
EXTENDS ServerApp

MCHandlers == {"erase", "read"}

\* Width 7: int goes up to 63, unsigned to 127.
MCRequests == {<< >>, <<Word>>, <<60, 3, 60, 9>>, <<7, 6>>}
==============================================================================
