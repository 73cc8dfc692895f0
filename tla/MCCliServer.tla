----------------------------- MODULE MCCliServer -----------------------------
EXTENDS CliServer, TLC

CONSTANTS r1, r2

MCReqs == {r1, r2}

(* Every request whose Content-Range header is absent or parses.         *)
MCRequestsWellFormed == {m \in RequestRec : m.range # "malformed"}

=============================================================================
