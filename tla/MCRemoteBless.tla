---------------------------- MODULE MCRemoteBless ----------------------------
EXTENDS RemoteBless

\* Two object names, the second making the JSON file one cell longer.
MCNames == {"ep1", "ep2"}
MCNameLen == [n \in MCNames |-> IF n = "ep1" THEN 0 ELSE 1]
\* No arg file before recvblessings runs.
MCNoFile == << >>
\* An arg file left by an earlier run of recvblessings at the longer name.
MCStaleFile == Enc([key |-> Receiver, token |-> OldTok, name |-> "ep2"])
=============================================================================
