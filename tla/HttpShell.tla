------------------------------ MODULE HttpShell ------------------------------
(* One request on its way to a handler: RequestBudgetMiddleware of           *)
(* src/app/request_limits.py, the guards of src/app/http.py with csrf.py,    *)
(* and principal_of of src/app/identity.py.  Bodies are counted in bytes.    *)
EXTENDS Naturals

CONSTANTS
    MaxBytes,     \* MAX_REQUEST_BYTES
    ReadSize,     \* what one replay event carries, 65536 in the code
    MaxReads      \* bound on the events a handler asks for

WRITE_METHODS == {"POST", "DELETE"}
SAFE_METHODS  == {"GET"}

\* What a client sends: the session cookie it holds, a bearer token, the two CSRF tokens,
\* Idempotency-Key, and the Content-Length it declares.
Requests ==
    [method : WRITE_METHODS \cup SAFE_METHODS, area : {"auth", "api", "export", "static"},
     v1 : BOOLEAN, cookie : {"none", "live", "ended"}, bearer : BOOLEAN,
     csrf : {"same", "other", "missing"}, idempotency : BOOLEAN,
     declared : {"none", "text", "negative", "small", "large"}]

VARIABLES
    req,          \* the request
    path,         \* scope["path"]: "v1" until api_v1_alias has rewritten it
    at,           \* "budget", "receiving", "alias", "guards", "handler", "answered"
    size,         \* bytes in the temporary file
    replayed,     \* the counter of replay()
    given,        \* bytes the handler was given
    finals,       \* events with more_body false the handler was given
    passed,       \* events the handler got from the server itself
    status,       \* of the answer; 0 before
    full          \* the caller's bucket of the rate limiter is full

vars == <<req, path, at, size, replayed, given, finals, passed, status, full>>

Init ==
    /\ req \in Requests
    /\ path = IF req.v1 /\ req.area # "static" THEN "v1" ELSE req.area
    /\ at = "budget"
    /\ size = 0 /\ replayed = 0 /\ given = 0 /\ finals = 0 /\ passed = 0
    /\ status = 0
    /\ full \in BOOLEAN

Answer(code) == at' = "answered" /\ status' = code

-----------------------------------------------------------------------------
(* RequestBudgetMiddleware *)

Declared ==
    /\ at = "budget"
    /\ \/ /\ req.method \notin WRITE_METHODS        \* passed through unread
          /\ at' = "alias" /\ UNCHANGED status
       \/ /\ req.method \in WRITE_METHODS
          /\ \/ req.declared = "text" /\ Answer(400)
             \/ req.declared \in {"negative", "large"} /\ Answer(413)
             \/ req.declared \in {"none", "small"} /\ at' = "receiving" /\ UNCHANGED status
    /\ UNCHANGED <<req, path, size, replayed, given, finals, passed, full>>

\* One http.request message; what was declared is not compared with what arrives.
Receive(n, more) ==
    /\ at = "receiving"
    /\ IF size + n > MaxBytes THEN Answer(413) /\ UNCHANGED size
       ELSE /\ size' = size + n
            /\ at' = IF more THEN "receiving" ELSE "alias"
            /\ UNCHANGED status
    /\ UNCHANGED <<req, path, replayed, given, finals, passed, full>>

\* The deadline passes, the disk is full, or the client goes away without an answer.
GiveUp ==
    /\ at = "receiving"
    /\ \E code \in {408, 503, 0} : Answer(code)
    /\ UNCHANGED <<req, path, size, replayed, given, finals, passed, full>>

\* replay(): the handler's receive.
ReplayMutant ==
    IF replayed >= size /\ replayed > 0
    THEN passed' = passed + 1 /\ UNCHANGED <<replayed, given, finals>>
    ELSE LET n == IF size - replayed < ReadSize THEN size - replayed ELSE ReadSize IN
         /\ given' = given + n
         /\ finals' = IF replayed + n < size THEN finals ELSE finals + 1
         /\ replayed' = replayed + n
         /\ UNCHANGED passed
Replay ==
    IF replayed >= size /\ replayed > 0
    THEN passed' = passed + 1 /\ UNCHANGED <<replayed, given, finals>>
    ELSE LET n == IF size - replayed < ReadSize THEN size - replayed ELSE ReadSize IN
         /\ given' = given + n
         /\ finals' = IF replayed + n < size THEN finals ELSE finals + 1
         /\ replayed' = IF size = 0 THEN 1 ELSE replayed + n
         /\ UNCHANGED passed

-----------------------------------------------------------------------------
(* The middlewares of install_middleware, the last one added first. *)

\* api_v1_alias
Alias ==
    /\ at = "alias"
    /\ path' = req.area
    /\ at' = "guards"
    /\ UNCHANGED <<req, size, replayed, given, finals, passed, status, full>>

AuthenticatedByCookie == req.cookie # "none"

\* _check_csrf: 403
CsrfRefuses ==
    /\ AuthenticatedByCookie /\ req.method \notin SAFE_METHODS
    /\ req.csrf # "same"

\* _check_action_limits: 429
Limited == path \in {"api", "auth", "export"} /\ (path = "export" \/ req.method \in WRITE_METHODS)
LimitRefuses == Limited /\ full

\* principal_of where headers are not trusted: a cookie decides alone, even when it has ended.
Principal ==
    IF req.cookie # "none" THEN IF req.cookie = "live" THEN "session" ELSE "nobody"
    ELSE IF req.bearer THEN "token" ELSE "nobody"

\* _reject_unsupported_idempotency: 401 for a stranger, otherwise 501
IdempotencyRefuses ==
    req.idempotency /\ req.method \in WRITE_METHODS /\ path # "static"

\* request_guards; an exception of a guard becomes the answer.
Guards ==
    /\ at = "guards"
    /\ IF CsrfRefuses THEN Answer(403)
       ELSE IF LimitRefuses THEN Answer(429)
       ELSE IF IdempotencyRefuses
            THEN Answer(IF path # "auth" /\ Principal = "nobody" THEN 401 ELSE 501)
       ELSE at' = "handler" /\ UNCHANGED status
    /\ UNCHANGED <<req, path, size, replayed, given, finals, passed, full>>

\* A handler of a write reads its body event by event.
Read ==
    /\ at = "handler" /\ req.method \in WRITE_METHODS
    /\ passed < MaxReads /\ finals < MaxReads
    /\ Replay
    /\ UNCHANGED <<req, path, at, size, status, full>>

Finish ==
    /\ at = "handler"
    /\ req.method \in WRITE_METHODS => finals > 0
    /\ \E code \in {200, 500} : Answer(code)
    /\ UNCHANGED <<req, path, size, replayed, given, finals, passed, full>>

Next ==
    \/ Declared \/ GiveUp \/ Alias \/ Guards \/ Read \/ Finish
    \/ \E n \in 0..MaxBytes, more \in BOOLEAN : Receive(n, more)

Spec == Init /\ [][Next]_vars

-----------------------------------------------------------------------------

TypeOK ==
    /\ req \in Requests
    /\ at \in {"budget", "receiving", "alias", "guards", "handler", "answered"}
    /\ size \in 0..MaxBytes /\ full \in BOOLEAN
    /\ replayed \in Nat /\ given \in Nat /\ finals \in Nat /\ passed \in Nat

\* The handler gets the body once: every byte that arrived and no other, within the limit,
\* in any number of events of which exactly the last says so, an empty body included; what
\* it asks for afterwards is left to the server.
BodyOnce ==
    /\ given <= size
    /\ finals <= 1
    /\ finals = 1 => given = size
    /\ passed > 0 => finals = 1

\* A write that acts under a session has carried the double-submit token, whatever else it
\* carried; and no write acts twice by an Idempotency-Key being ignored.
SessionWritesChecked ==
    at = "handler" /\ req.method \in WRITE_METHODS =>
        /\ Principal = "session" => req.csrf = "same"
        /\ path # "static" => ~req.idempotency

\* A handler sees the request as it was sent, and only after the guards have passed it.
RequestHeld == BodyOnce /\ SessionWritesChecked

\* What makes BodyOnce inductive: the counter of replay() is the number of bytes given, the
\* 1 that marks an empty body as replayed apart; and nobody reads before the handler.
ReplayAgrees ==
    /\ at \notin {"handler", "answered"} => replayed = 0 /\ given = 0 /\ finals = 0 /\ passed = 0
    /\ given = IF size = 0 THEN 0 ELSE replayed
    /\ size = 0 => finals = replayed /\ replayed <= 1
    /\ size > 0 => replayed <= size /\ finals = IF replayed = size THEN 1 ELSE 0
    /\ passed > 0 => finals = 1

ShellInv == TypeOK /\ ReplayAgrees /\ SessionWritesChecked

=============================================================================
