---------------------------- MODULE CurlTransport ----------------------------
(***************************************************************************)
(* One request over HTTP: a curl process is started, gets the request on    *)
(* its standard input, and writes the body of the answer and a status line  *)
(* to its standard output, both through pipes of a bounded size.  The       *)
(* process may fail or be killed at any time, and the answer may be late,   *)
(* cut, too large or no text.                                              *)
(*                                                                         *)
(* Bytes are counted.  What a peer answers is up to the module that uses    *)
(* this one.                                                               *)
(***************************************************************************)
EXTENDS AllowList, FiniteSets

CONSTANTS
    MaxBody,    \* MAX_RESPONSE_BODY_BYTES
    StatusLine, \* CURL_STATUS_SUFFIX_BYTES
    Pipe,       \* bytes a pipe holds
    Binary,     \* a body that is not UTF-8
    Nil

VARIABLES
    stage,      \* where execute is; "idle" outside
    request,    \* what it was asked for, or Nil
    child,      \* the curl process; "none" when there is none, not even a zombie
    code,       \* how it ends: 0, another exit code, or -1 by a signal
    fed,        \* bytes of the configuration written to it
    taken,      \* bytes it has read
    answer,     \* what the peer has answered, or Nil
    left,       \* bytes of output it has still to write
    pipe,       \* bytes in the pipe of its output
    got,        \* bytes read from it
    response,   \* what execute returns
    sent        \* history: what of it has left the machine, or Nil

curlVars == <<child, code, fed, taken, answer, left, pipe>>
transportVars == <<stage, request, curlVars, got, response, sent>>

Ok(status, body) == [ok |-> TRUE, status |-> status, body |-> body]
Error(error) == [ok |-> FALSE, error |-> error]

\* What the other side gets to see.
Visible(r) == [method |-> r.method, url |-> r.url]

Body == [data : {"json", "@file", "control"}, size : Nat]

TransportInit ==
    /\ stage = "idle"
    /\ request = Nil
    /\ child = "none"
    /\ code = 0
    /\ fed = 0 /\ taken = 0
    /\ answer = Nil
    /\ left = 0 /\ pipe = 0 /\ got = 0
    /\ response = Nil
    /\ sent = Nil

NewChild(state) ==
    /\ child' = state
    /\ code' = 0
    /\ fed' = 0 /\ taken' = 0
    /\ answer' = Nil
    /\ left' = 0 /\ pipe' = 0

Reap == child' = "none" /\ UNCHANGED <<code, fed, taken, answer, left, pipe>>

Returns(result) ==
    /\ stage' = "returned"
    /\ response' = result

-----------------------------------------------------------------------------
(* The caller *)

\* build_invocation: a body that curl would take for the name of a file, control
\* characters, a POST without a body.
IsInvalid(r) ==
    \/ r.body # Nil /\ r.body.data \in {"@file", "control"}
    \/ r.method = "PostJson" /\ r.body = Nil

Execute(r) ==
    /\ stage = "idle"
    /\ request' = r
    /\ got' = 0
    /\ CASE ~IsAllowed(r.method, r.url) -> Returns(Error("NotAllowed")) /\ UNCHANGED curlVars
         [] IsAllowed(r.method, r.url) /\ IsInvalid(r) ->
              Returns(Error("InvalidInput")) /\ UNCHANGED curlVars
         [] OTHER ->
              \/ Returns(Error("Spawn")) /\ UNCHANGED curlVars
              \/ NewChild("config") /\ stage' = "write" /\ UNCHANGED response
    /\ UNCHANGED sent

KillAndReap(result) ==
    /\ Reap
    /\ Returns(result)
    /\ UNCHANGED <<request, got, sent>>

\* The size of the configuration: at least the line with the URL.
ConfigSize(r) == 1 + (IF r.body = Nil THEN 0 ELSE r.body.size)

IsAlive == child \notin {"none", "exited"}

WriteConfig ==
    /\ stage = "write"
    /\ IsAlive
    /\ IF fed < ConfigSize(request)
       THEN /\ fed - taken < Pipe
            /\ fed' = fed + 1
            /\ UNCHANGED stage
       ELSE stage' = "read" /\ UNCHANGED fed
    /\ UNCHANGED <<request, child, code, taken, answer, left, pipe, got, response, sent>>

\* The pipe has no reader any more.
WriteFails ==
    /\ stage = "write"
    /\ child = "exited"
    /\ fed < ConfigSize(request)
    /\ KillAndReap(Error("Transport"))

WriteEnds ==
    /\ stage = "write"
    /\ child = "exited"
    /\ fed = ConfigSize(request)
    /\ stage' = "read"
    /\ UNCHANGED <<request, curlVars, got, response, sent>>

MaxOutput == MaxBody + StatusLine

\* read_curl_stdout: everything until the end, or one byte too many.
ReadOutput ==
    /\ stage = "read"
    /\ pipe > 0
    /\ got < MaxOutput
    /\ pipe' = pipe - 1
    /\ got' = got + 1
    /\ UNCHANGED <<stage, request, child, code, fed, taken, answer, left, response, sent>>

ReadTooMuch ==
    /\ stage = "read"
    /\ pipe > 0
    /\ got = MaxOutput
    /\ KillAndReap(Error("ResponseTooLarge"))

ReadFails ==
    /\ stage = "read"
    /\ KillAndReap(Error("Transport"))

\* FAULT: the process is waited for before its output is read.
ReadEndsUnread ==
    /\ stage = "read"
    /\ stage' = "wait"
    /\ got' = IF left = 0 /\ child = "exited" THEN pipe ELSE got
    /\ UNCHANGED <<request, curlVars, response, sent>>

ReadEnds ==
    /\ stage = "read"
    /\ pipe = 0
    /\ child = "exited"
    /\ stage' = "wait"
    /\ UNCHANGED <<request, curlVars, got, response, sent>>

\* FAULT: the exit code is not looked at.
ParsedOutput ==
    IF answer = Nil \/ got < StatusLine THEN Error("BadResponse") ELSE Ok(answer.status, answer.body)

\* parse_curl_stdout, of a process that has ended well: the body and the status that
\* curl has put behind it.
Parsed ==
    CASE code # 0 -> Error("Transport")
      [] code = 0 /\ answer.body = Binary -> Error("BadResponse")
      [] OTHER -> Ok(answer.status, answer.body)

Wait ==
    /\ stage = "wait"
    /\ child = "exited"
    /\ Reap
    /\ Returns(Parsed)
    /\ UNCHANGED <<request, got, sent>>

-----------------------------------------------------------------------------
(* The process *)

Exit(c) == child' = "exited" /\ code' = c

ReadConfig ==
    /\ child = "config"
    /\ IF taken < fed THEN taken' = taken + 1 /\ UNCHANGED child
       ELSE stage # "write" /\ child' = "connect" /\ UNCHANGED taken
    /\ UNCHANGED <<stage, request, code, fed, answer, left, pipe, got, response, sent>>

\* The request goes out over TLS to its host and nowhere else.
Send ==
    /\ child = "connect"
    /\ child' = "sent"
    /\ sent' = Visible(request)
    /\ UNCHANGED <<stage, request, code, fed, taken, answer, left, pipe, got, response>>

\* The whole of an answer is there.
Answered(a) ==
    /\ child = "sent"
    /\ child' = "output"
    /\ answer' = a
    /\ left' = a.size + StatusLine
    /\ UNCHANGED <<stage, request, code, fed, taken, pipe, got, response, sent>>

\* No connection, the time of --max-time is over, or the connection breaks within an
\* answer of which n bytes have come: curl ends with a code of its own and still writes
\* its status line.
Fails(n) ==
    /\ child \in {"connect", "sent"}
    /\ child' = "output"
    /\ code' = 28
    /\ left' = n + StatusLine
    /\ UNCHANGED <<stage, request, fed, taken, answer, pipe, got, response, sent>>

\* The answer has begun to come, with the status that would be its own.
Breaks(a, n) ==
    /\ child = "sent"
    /\ n < a.size
    /\ child' = "output"
    /\ code' = 28
    /\ answer' = a
    /\ left' = n + StatusLine
    /\ UNCHANGED <<stage, request, fed, taken, pipe, got, response, sent>>

WriteOutput ==
    /\ child = "output"
    /\ IF left > 0
       THEN pipe < Pipe /\ pipe' = pipe + 1 /\ left' = left - 1 /\ UNCHANGED child
       ELSE child' = "exited" /\ UNCHANGED <<pipe, left>>
    /\ UNCHANGED <<stage, request, code, fed, taken, answer, got, response, sent>>

\* Killed from outside.
Dies ==
    /\ IsAlive
    /\ Exit(-1)
    /\ UNCHANGED <<stage, request, fed, taken, answer, left, pipe, got, response, sent>>

\* The caller takes the result.
Done ==
    /\ stage = "returned"
    /\ stage' = "idle"
    /\ NewChild(child)
    /\ request' = Nil
    /\ response' = Nil
    /\ got' = 0
    /\ sent' = Nil

Transporting == WriteConfig \/ WriteFails \/ WriteEnds \/ ReadOutput \/ ReadTooMuch \/ ReadEnds \/ Wait
=============================================================================
