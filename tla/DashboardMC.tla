----------------------------- MODULE DashboardMC -----------------------------
(***************************************************************************)
(* One connection with requests of every kind, some of which come in any   *)
(* pieces, and one with a status or a self-test, next to the poll thread.  *)
(***************************************************************************)
EXTENDS Dashboard

CONSTANTS c1, c2

Post(path) == [method |-> "POST", path |-> path, line |-> TRUE, hosts |-> <<"self">>,
               origin |-> "self", json |-> TRUE, header |-> 0, length |-> 1, body |-> 1,
               value |-> 1]
Get(path) == [Post(path) EXCEPT !.method = "GET", !.origin = None, !.json = FALSE,
                                !.length = None, !.body = 0, !.value = 0]

Ordinary == {Get("status"), Post("selftest")}

Unusual ==
    {[Post("prepare") EXCEPT !.origin = None], [Post("prepare") EXCEPT !.json = FALSE],
     [Post("prepare") EXCEPT !.line = FALSE], [Post("stop") EXCEPT !.origin = "other"],
     [Post("stop") EXCEPT !.origin = None], [Post("stop") EXCEPT !.hosts = <<"self", "other">>],
     Post("start"), Get("page"), Get("confirm")}

\* Headers up to and beyond the limit, bodies that are longer or shorter than declared,
\* and lengths that are too large or no number.
Sized ==
    {[Post("prepare") EXCEPT !.header = 1], [Post("mode") EXCEPT !.header = 2],
     [Post("mode") EXCEPT !.body = 2, !.value = 2], [Post("mode") EXCEPT !.length = 2],
     [Post("mode") EXCEPT !.length = 3, !.body = 3], [Post("stop") EXCEPT !.length = Malformed],
     [Post("mode") EXCEPT !.length = 2, !.body = 2, !.value = 2]}

MCRequests ==
    [c \in Clients |-> IF c = c1 THEN {Post("selftest")} \cup Unusual \cup Sized ELSE Ordinary]

MCSlow == {r \in Sized : r.header > 0 \/ r.length = 2}
=============================================================================
