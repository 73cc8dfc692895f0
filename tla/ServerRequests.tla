--------------------------- MODULE ServerRequests ---------------------------
(***************************************************************************)
(* What handle_request and file_service decide from a request, shared by  *)
(* the subfile-exchange server (subfile_server/mod.rs) and the older      *)
(* subfile-cli server, whose handle_request and file_service take the     *)
(* same decisions in the same order.                                      *)
(*                                                                         *)
(* A request is abstracted to the route it names and the headers the      *)
(* handler tests.                                                          *)
(***************************************************************************)

CONSTANT ServerToken    \* free_query_auth_token is configured (Some)

(* route: the URI path; auth: the Authorization header (absent, exactly   *)
(* "Bearer " + token, or anything else); id: the manifest hash is served  *)
(* or not; fileName: a file_name header is present; range: the            *)
(* Content-Range header is absent, parses, or does not.                   *)
RequestRec == [route : {"file", "status", "health"},
               auth : {"none", "bearer", "other"},
               id : {"served", "unknown"},
               fileName : BOOLEAN,
               range : {"none", "valid", "malformed"}]

(* The answer of a request: an HTTP status, or "error" when the handler   *)
(* returns Err and hyper closes the connection without a response.        *)
Statuses == {"none", "200", "206", "401", "404", "406", "error"}

(* Whether the route locks the ServerContext: /status and file_service.   *)
Locks(m) == m.route \in {"status", "file"}

(* Mutant: any Authorization header is accepted.                         *)
AuthorizedLax(m) == ~ServerToken \/ m.auth # "none"

(* The `free` test of file_service.                                       *)
Authorized(m) == ~ServerToken \/ m.auth = "bearer"

(* Mutant: the file_name header is checked before the manifest lookup.  *)
FileServiceNameBeforeManifest(m) ==
    IF ~Authorized(m) THEN "401"
    ELSE IF ~m.fileName THEN "406"
    ELSE IF m.id = "unknown" THEN "404"
    ELSE IF m.range = "malformed" THEN "error"
    ELSE IF m.range = "valid" THEN "206"
    ELSE "200"

(* The answer file_service builds: 401, 404, 406, a Content-Range parse   *)
(* error returned by `?`, or serve_file_range / serve_file.               *)
FileService(m) ==
    IF ~Authorized(m) THEN "401"
    ELSE IF m.id = "unknown" THEN "404"
    ELSE IF ~m.fileName THEN "406"
    ELSE IF m.range = "malformed" THEN "error"
    ELSE IF m.range = "valid" THEN "206"
    ELSE "200"

(* The answer of handle_request for each route.                           *)
Answer(m) ==
    IF m.route = "file" THEN FileService(m)
    ELSE "200"

=============================================================================
