-------------------------------- MODULE HttpApi --------------------------------
(****************************************************************************)
(* server/src/http: how one request is routed, authorised and answered.     *)
(* This is a function of the request, of whether JWT authentication is      *)
(* configured, and of what the token, the file and the database turn out to *)
(* be; there is no state.  The sessions that call it are in ServerSessions. *)
(****************************************************************************)

\* How the target of a request is read: an endpoint of the API or another
\* target that starts with /api, or a file below the document root.
ApiTargets  == {"login", "connection_details", "config_ip", "other"}
FileTargets == {"file", "missing", "unreadable", "illegal"}

\* A body that handle_login or config_ip can parse, or one that neither can.
Bodies == {"admin", "stranger", "order", "malformed"}

\* token: the request carries a Bearer token that verify accepts.
Requests == [method : {"GET", "HEAD", "POST", "OTHER"},
             target : ApiTargets \cup FileTargets,
             token  : BOOLEAN,
             body   : Bodies]

\* An answer has the status of the HTTP response and what was done for it:
\* "login" issues a token, "details" reads the connection details, and
\* "order" draws an id, inserts the pending row and waits, which decides the
\* status.
Answer(status, effect) == [status |-> status, effect |-> effect]
Plain(status) == Answer(status, "none")

--------------------------------------------------------------------------------
\* Illegal targets are the ones that do not start with / or that hold "..".
HandleFile(req) ==
    IF req.method \notin {"GET", "HEAD"} \/ req.target = "illegal" THEN Plain(400)
    ELSE CASE req.target = "missing"    -> Plain(404)
           [] req.target = "unreadable" -> Plain(500)
           [] req.target = "file"       -> Plain(200)

\* Only the bootstrap credentials admin/admin are known.  jwt_: the handler has
\* a JwtManager.
HandleLogin(req, jwt_) ==
    IF ~jwt_ THEN Plain(500)
    ELSE CASE req.body \in {"order", "malformed"} -> Plain(400)
           [] req.body = "stranger"               -> Plain(401)
           [] req.body = "admin"                  -> Answer(200, "login")

\* Slip: requests let through when no key is configured (OrdersAuthorised).
RequireAuth_Open(req, jwt_) == jwt_ => req.token

RequireAuth(req, jwt_) == jwt_ /\ req.token

\* The status of an order is known after the wait.
ConfigIp(req) == IF req.body = "order" THEN Answer(0, "order") ELSE Plain(400)

HandleApi(req, jwt_) ==
    IF req.target = "login" /\ req.method = "POST" THEN HandleLogin(req, jwt_)
    ELSE IF ~RequireAuth(req, jwt_) THEN Plain(401)
    ELSE CASE req.target = "connection_details" /\ req.method = "GET" ->
                  Answer(200, "details")
           [] req.target = "config_ip" /\ req.method = "POST" -> ConfigIp(req)
           [] OTHER -> Plain(404)

Handle(req, jwt_) == IF req.target \in ApiTargets THEN HandleApi(req, jwt_)
                                                  ELSE HandleFile(req)

\* What a session can come to do for a request, by whether there is a JwtManager.
HttpEffects ==
    [jwt_ \in BOOLEAN |-> {<<req.token, Handle(req, jwt_).effect>> : req \in Requests}]
================================================================================
