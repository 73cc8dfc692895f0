--------------------------- MODULE MCSubfileServer ---------------------------
EXTENDS SubfileServer, TLC

CONSTANTS r1, r2

MCReqs == {r1, r2}

(* Two chunk files of chunk size 2: 3 bytes (last chunk short) and 1.     *)
MCFileSizesOffBoundary == <<3, 1>>

(* One chunk file of 4 bytes: an exact multiple of the chunk size.       *)
MCFileSizesExact == <<4>>

(* Any chunk of the local files may be bad.                               *)
MCDamagesAny == SUBSET Chunks

(* Every chunk of the local files matches its hash.                       *)
MCNoDamage == {{}}

(* Every request a client may send.                                       *)
MCRequestsAll == RequestRec

(* Every request whose Content-Range header is absent or parses.         *)
MCRequestsWellFormed == {m \in RequestRec : m.range # "malformed"}

(* Only the range requests request_chunk builds, with the token the       *)
(* integration test passes.                                               *)
MCRequestsDownloader == {DownloaderRequest("bearer")}

=============================================================================
