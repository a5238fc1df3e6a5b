------------------------------ MODULE Dashboard ------------------------------
(***************************************************************************)
(* The web server on the loopback interface.  Every connection has a       *)
(* thread that reads one request, piece by piece and within limits of      *)
(* size and time, decides whether its page may ask for it, and runs its    *)
(* handler; the handlers of the claim are those of ClaimAccess.            *)
(*                                                                         *)
(* A request is a record of what the server reads from it: its lines and   *)
(* bodies are numbers of bytes.  What start, stop and mode do to the       *)
(* search is in SolverControl.                                             *)
(***************************************************************************)
EXTENDS ClaimAccess, Sequences

CONSTANTS
    Requests,   \* what a connection may send
    Slow,       \* those of them that come in any pieces, or stop
    MaxHeader,  \* MAX_HTTP_HEADER_BYTES
    MaxBody,    \* MAX_HTTP_BODY_BYTES
    Blank,      \* bytes of the empty line after the headers
    Buffer,     \* bytes of one read
    Errors,     \* errors of the claim service
    Malformed   \* content length that is not a number, or is given twice

VARIABLES
    request,    \* connection -> what it sends, or None
    received,   \* connection -> bytes read so far
    reply,      \* connection -> the error of its answer, or "ok", or None
    selftest,   \* shared: selftest_running
    acted       \* history: connections whose request has changed something

webVars == <<request, received, reply, selftest, acted>>
allVars == <<vars, webVars>>

Paths == {"page", "status", "start", "stop", "mode", "selftest", "prepare", "confirm", "unknown"}

Request == [
    method : {"GET", "POST"},
    path : Paths,
    line : BOOLEAN,             \* three words in the first line
    hosts : Seq({"self", "other"}),
    origin : {"self", "other", None},
    json : BOOLEAN,             \* the content type
    header : Nat,               \* bytes before the empty line
    length : Nat \cup {None, Malformed},
    body : Nat,                 \* bytes after it
    value : Nat]                \* bytes of the body that are a proper value

ASSUME DashboardAssumption ==
    /\ \A c \in Clients : Requests[c] \subseteq Request
    /\ None \notin Request \cup {"self", "other"}
    /\ Malformed \notin Nat \cup {None}
    /\ MaxHeader \in Nat /\ MaxBody \in Nat /\ Blank \in Nat \ {0} /\ Buffer \in Nat \ {0}

DashboardTypeOK ==
    /\ TypeOK
    /\ \A c \in Clients :
         /\ request[c] = None <=> at[c] = "idle"
         /\ request[c] # None => request[c] \in Request /\ received[c] \in Nat
         /\ reply[c] # None => at[c] = "answer"
    /\ acted \subseteq Clients

-----------------------------------------------------------------------------
(* Reading: read_http_request *)

Size(r) == r.header + Blank + r.body

\* parse_content_length
Declared(r) == IF r.length = None THEN 0 ELSE r.length

\* What the loop knows of a request of which it has n bytes.
HeadersEnd(r, n) == n >= r.header + Blank

HeadersTooLarge(r, n) ==
    IF HeadersEnd(r, n) THEN r.header > MaxHeader ELSE n > MaxHeader

BadLength(r) == r.length = Malformed \/ Declared(r) > MaxBody

IsRefused(r, n) == HeadersTooLarge(r, n) \/ (HeadersEnd(r, n) /\ BadLength(r))

\* FAULT: the request is taken once its headers are complete.
IsWholeEarly(r, n) == ~IsRefused(r, n) /\ HeadersEnd(r, n)

IsWhole(r, n) ==
    ~IsRefused(r, n) /\ HeadersEnd(r, n) /\ n >= r.header + Blank + Declared(r)

Reply(c, answer) == reply' = [reply EXCEPT ![c] = answer]

\* A thread of its own for every connection.
Connect(c, r) ==
    /\ at[c] = "idle"
    /\ Go(c, "read")
    /\ request' = [request EXCEPT ![c] = r]
    /\ known' = [known EXCEPT ![c] = answered]
    /\ UNCHANGED <<sharedVars, main, poll, shown, answered, received, reply, selftest, acted>>

\* One read of the socket.
Read(c) ==
    /\ at[c] = "read"
    /\ \E n \in 1 .. Buffer :
         LET r == request[c]
             got == received[c] + n
         IN  /\ got <= Size(r)
             /\ r \in Slow \/ n = Buffer \/ got = Size(r)
             /\ received' = [received EXCEPT ![c] = got]
             /\ CASE IsRefused(r, got) -> Go(c, "answer") /\ Reply(c, "unreadable")
                  [] IsWhole(r, got) -> Go(c, "route") /\ UNCHANGED reply
                  [] OTHER -> UNCHANGED <<at, reply>>
    /\ UNCHANGED <<sharedVars, main, poll, shown, known, answered, request, selftest, acted>>

\* The peer has closed its side, or nothing came for two seconds.
ReadFails(c) ==
    /\ at[c] = "read"
    /\ request[c] \in Slow \/ received[c] = Size(request[c])
    /\ Go(c, "answer")
    /\ Reply(c, "unreadable")
    /\ UNCHANGED <<sharedVars, main, poll, shown, known, answered, request, received,
                   selftest, acted>>

-----------------------------------------------------------------------------
(* Who may ask *)

HostIsAllowed(r) == r.hosts = <<"self">>

OriginIsAllowed(r) == r.origin \in {None, "self"}

IsClaimPost(r) == r.method = "POST" /\ r.path \in {"prepare", "confirm"}

\* FAULT: a claim request without an origin passes like any other.
ClaimDecisionLax(r) ==
    IF ~OriginIsAllowed(r) THEN "cross_origin_request_denied"
    ELSE IF ~r.json THEN "unsupported_media_type"
    ELSE "ok"

\* claim_request_allowed
ClaimDecision(r) ==
    IF r.origin # "self" \/ r.hosts = <<>> \/ r.hosts[1] # "self" THEN "cross_origin_request_denied"
    ELSE IF ~r.json THEN "unsupported_media_type"
    ELSE "ok"

Admission(r) ==
    CASE ~r.line -> "invalid_request"
      [] r.line /\ ~HostIsAllowed(r) -> "host_not_allowed"
      [] r.line /\ HostIsAllowed(r) /\ IsClaimPost(r) -> ClaimDecision(r)
      [] r.line /\ HostIsAllowed(r) /\ ~IsClaimPost(r) ->
           IF r.method = "POST" /\ ~OriginIsAllowed(r) THEN "cross_origin_request_denied" ELSE "ok"

\* serde_json takes the whole body and nothing else; the request was cut to the
\* declared length.
HasValue(r) == r.value > 0 /\ r.value = Declared(r)

-----------------------------------------------------------------------------
(* Routing *)

Route(c, method, paths) ==
    /\ at[c] = "route"
    /\ request[c].method = method
    /\ request[c].path \in paths
    /\ Admission(request[c]) = "ok"

Keep == UNCHANGED <<sharedVars, main, poll, shown, known, answered, request, received>>

Answers(c, answer) == Go(c, "answer") /\ Reply(c, answer)

Acts(c) == acted' = acted \cup {c}

Refuse(c) ==
    /\ at[c] = "route"
    /\ Admission(request[c]) # "ok"
    /\ Answers(c, Admission(request[c]))
    /\ Keep /\ UNCHANGED <<selftest, acted>>

SendPage(c) ==
    /\ Route(c, "GET", {"page"})
    /\ Answers(c, "ok")
    /\ Keep /\ UNCHANGED <<selftest, acted>>

IsRoute(r) ==
    \/ r.method = "GET" /\ r.path \in {"page", "status"}
    \/ r.method = "POST" /\ r.path \in {"start", "stop", "mode", "selftest", "prepare", "confirm"}

NotFound(c) ==
    /\ at[c] = "route"
    /\ Admission(request[c]) = "ok"
    /\ ~IsRoute(request[c])
    /\ Answers(c, "not_found")
    /\ Keep /\ UNCHANGED <<selftest, acted>>

RouteStatus(c) ==
    /\ Route(c, "GET", {"status"})
    /\ Go(c, "status")
    /\ Keep /\ UNCHANGED <<reply, selftest, acted>>

\* Nothing is started once the key is found or the search has failed.
Start(c) ==
    /\ Route(c, "POST", {"start"})
    /\ CASE hit # "absent" -> Answers(c, "solver_already_found_key") /\ UNCHANGED acted
         [] main = "failed" -> Answers(c, "solver_requires_restart") /\ UNCHANGED acted
         [] OTHER -> Acts(c) /\ Answers(c, "ok")
    /\ Keep /\ UNCHANGED selftest

Stop(c) ==
    /\ Route(c, "POST", {"stop"})
    /\ Acts(c) /\ Answers(c, "ok")
    /\ Keep /\ UNCHANGED selftest

SetMode(c) ==
    /\ Route(c, "POST", {"mode"})
    /\ IF HasValue(request[c]) THEN Acts(c) /\ Answers(c, "ok")
       ELSE UNCHANGED acted /\ Answers(c, "invalid_mode")
    /\ Keep /\ UNCHANGED selftest

\* compare_exchange: one self-test at a time.
StartSelfTest(c) ==
    /\ Route(c, "POST", {"selftest"})
    /\ IF selftest
       THEN Answers(c, "selftest_already_running") /\ UNCHANGED <<selftest, acted>>
       ELSE selftest' = TRUE /\ Acts(c) /\ Go(c, "selftest") /\ UNCHANGED reply
    /\ Keep

EndSelfTest(c) ==
    /\ at[c] = "selftest"
    /\ selftest' = FALSE
    /\ \E result \in {"ok", "selftest_failed"} : Answers(c, result)
    /\ Keep /\ UNCHANGED acted

\* handle_claim_prepare, handle_claim_confirm
RouteClaim(c) ==
    /\ Route(c, "POST", {"prepare", "confirm"})
    /\ IF HasValue(request[c]) THEN Go(c, "gate") /\ UNCHANGED reply
       ELSE Answers(c, "invalid_request")
    /\ Keep /\ UNCHANGED <<selftest, acted>>

-----------------------------------------------------------------------------
(* The handlers of ClaimAccess and their answers *)

Unrouted == UNCHANGED <<request, received, selftest>>

StatusStep(c) ==
    \/ /\ StatusLock(c) \/ StatusBusy(c)
       /\ UNCHANGED reply
    \/ /\ StatusLook(c) \/ StatusFallback(c)
       /\ Reply(c, "ok")

ClaimGate(c) ==
    /\ Gate(c)
    /\ Reply(c, IF hit = "saved" THEN None ELSE "no_claim_available")
    /\ UNCHANGED acted

ClaimTryLock(c) ==
    /\ TryLock(c)
    /\ Reply(c, CASE holder # None -> "claim_busy"
                  [] holder = None /\ slot = None -> "no_claim_available"
                  [] OTHER -> None)
    /\ UNCHANGED acted

ClaimWork(c) ==
    /\ Work(c)
    /\ Acts(c)
    /\ UNCHANGED reply

\* map_service_error: an error of the service has a code of its own.
ClaimRefresh(c) ==
    /\ Refresh(c)
    /\ \E error \in Errors \cup {"ok"} : Reply(c, error)
    /\ UNCHANGED acted

\* The answer is written, and the connection closed.
Close(c) ==
    /\ Answer(c)
    /\ request' = [request EXCEPT ![c] = None]
    /\ Reply(c, None)
    /\ received' = [received EXCEPT ![c] = 0]
    /\ acted' = acted \ {c}
    /\ UNCHANGED selftest

\* The thread ends without an answer.
Breaks(c) ==
    /\ WorkPanics(c)
    /\ request' = [request EXCEPT ![c] = None]
    /\ received' = [received EXCEPT ![c] = 0]
    /\ acted' = acted \ {c}
    /\ UNCHANGED <<reply, selftest>>

-----------------------------------------------------------------------------

DashboardInit ==
    /\ Init
    /\ request = [c \in Clients |-> None]
    /\ received = [c \in Clients |-> 0]
    /\ reply = [c \in Clients |-> None]
    /\ selftest = FALSE
    /\ acted = {}

Reading(c) == Read(c) \/ ReadFails(c)

Routing(c) ==
    \/ Refuse(c) \/ SendPage(c) \/ NotFound(c) \/ RouteStatus(c)
    \/ Start(c) \/ Stop(c) \/ SetMode(c)
    \/ StartSelfTest(c) \/ EndSelfTest(c)
    \/ RouteClaim(c)

Handling(c) ==
    \/ StatusStep(c) /\ Unrouted /\ UNCHANGED acted
    \/ (ClaimGate(c) \/ ClaimTryLock(c) \/ ClaimRefresh(c)) /\ Unrouted
    \/ Close(c)

Working(c) == ClaimWork(c) /\ Unrouted

DashboardNext ==
    \/ Main /\ UNCHANGED webVars
    \/ PollThread /\ UNCHANGED webVars
    \/ PollPanics /\ UNCHANGED webVars
    \/ \E c \in Clients :
         \/ \E r \in Requests[c] : Connect(c, r)
         \/ Reading(c) \/ Routing(c) \/ Handling(c) \/ Working(c) \/ Breaks(c)

\* A read returns within two seconds, and a handler that has been started runs on.
\* Nothing is assumed of a call of the claim service: it may take for ever, with the
\* mutex held.
DashboardSpec ==
    /\ DashboardInit /\ [][DashboardNext]_allVars
    /\ \A c \in Clients : WF_allVars(Reading(c) \/ Routing(c) \/ Handling(c))

-----------------------------------------------------------------------------
(* Properties *)

Acceptable(r) ==
    /\ r.header <= MaxHeader
    /\ r.length # Malformed
    /\ Declared(r) <= MaxBody
    /\ Declared(r) <= r.body

\* What is read of a request does not depend on the pieces it comes in: a handler gets
\* it when it is within the limits and whole, and it is refused unread only when it is
\* not, or when the peer has stopped before its end.  Headers that end within the
\* length of an empty line of the limit may be taken or not.  And the server never
\* keeps more than the limits allow.
ReadingIsExact ==
    \A c \in Clients :
      LET r == request[c]
      IN  /\ at[c] \notin {"idle", "read"} /\ reply[c] # "unreadable" =>
               Acceptable(r) /\ received[c] >= r.header + Blank + Declared(r)
          /\ reply[c] = "unreadable" /\ Acceptable(r) /\ r.header + Blank <= MaxHeader + 1 =>
               received[c] < r.header + Blank + Declared(r) /\ r \in Slow
          /\ at[c] = "read" => received[c] < MaxHeader + Blank + MaxBody

MayAct(r) ==
    /\ r.method = "POST"
    /\ r.hosts = <<"self">>
    /\ r.origin # "other"
    /\ r.path \in {"prepare", "confirm"} => r.origin = "self" /\ r.json
    /\ r.path \in {"prepare", "confirm", "mode"} => r.value = Declared(r) /\ r.value > 0

Refusals == {"unreadable", "invalid_request", "host_not_allowed", "cross_origin_request_denied",
             "unsupported_media_type", "not_found", "solver_already_found_key",
             "solver_requires_restart", "invalid_mode",
             "selftest_already_running", "no_claim_available", "claim_busy"}

\* An error of the service has a code of its own.
ASSUME ErrorsAssumption ==
    /\ Errors \cap Refusals = {}
    /\ None \notin Errors \cup Refusals \cup {"ok", "selftest_failed"}

\* Nothing changes at the request of another page, and the answer tells whether
\* something has changed: one that names a refusal, also that the claim is busy or
\* not there, has left everything as it was and can be sent again; every other answer
\* to a POST comes of a handler that has run.
AnswersAreTrue ==
    \A c \in Clients :
      /\ c \in acted => MayAct(request[c])
      /\ reply[c] \in Refusals => c \notin acted
      /\ reply[c] \notin Refusals \cup {None} /\ request[c].method = "POST" => c \in acted

\* Every connection ends, however slowly its request comes and although a call of the
\* service is stuck, unless it is that call itself; and a status always does.
RequestsAreAnswered ==
    \A c \in Clients :
      /\ at[c] = "read" ~> at[c] \in {"idle", "work"}
      /\ at[c] = "status" ~> at[c] = "idle"

\* Every call of the service ends, and a thread that blocks on the mutex gets
\* it in the end.
CallsEnd ==
    /\ WF_vars(Main) /\ SF_vars(LockSlot)
    /\ WF_vars(PollThread) /\ SF_vars(PollLock)
    /\ \A c \in Clients : WF_allVars(Working(c))

\* Handlers that keep taking the mutex, or have poisoned it, do not keep the
\* poll thread from it as long as the calls of the service end.
PollsGoOn == CallsEnd => (poll = "sleep" ~> poll \in {"work", "dead"})

=============================================================================
