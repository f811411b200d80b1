----------------------------- MODULE HttpFront -----------------------------
(***************************************************************************)
(* What a request meets before a handler calls the task service: the body  *)
(* limit (which only wraps the body), the rate limiter, the ServeMux, the  *)
(* Router of pkg/http/server/router.go, and the first lines of the handler *)
(* in internal/server/task.go that parse the id and bind the body.         *)
(*                                                                         *)
(* A path is the decoded one, the sequence of its segments between         *)
(* slashes, so that "/api/tasks/7/" is <<"api", "tasks", "7", "">>.  Which *)
(* of its slashes were escaped ("%2F") is kept beside it, as the set of    *)
(* the positions of the segments before them: the ServeMux looks at the    *)
(* path as it was sent, the Router at the decoded one.                     *)
(***************************************************************************)
EXTENDS RateLimit, Sequences

CONSTANTS
    Group,          \* the segments of ROUTE_GROUP
    Words,          \* what a segment of a path may be, unless it is empty
    Uint64s,        \* the words that are uint64s
    Bigints,        \* those of them that are bigints, too
    Methods,        \* of requests; not only those that have a route, but
                    \* not CONNECT, whose path the mux leaves as it is
    MaxSegments     \* bound: longest path

Param == "{id}"
Blank == ""     \* a segment between two slashes, or no id
\* Sent as they are; "%2e" is a word like any other for mux and router.
Dots == {".", ".."}

\* No segment of ROUTE_GROUP is empty, a dot or two, or in braces.
ASSUME RouteAssumption ==
    /\ Group \in Seq(Words \ ({Param} \cup Dots))
    /\ Blank \notin Words
    /\ "CONNECT" \notin Methods
    /\ Bigints \subseteq Uint64s
    /\ MaxSegments \in Nat

Segments == Words \cup {Blank}
Paths == UNION {[1..n -> Segments] : n \in 1..MaxSegments}
Targets == UNION {{path} \X SUBSET (1..(Len(path) - 1)) : path \in Paths}

\* "padded" is a valid value followed by more than the limit allows, "long"
\* a value that exceeds it, "invalid" one that violates the validate rules.
Bodies == {"valid", "padded", "long", "malformed", "invalid"}

VARIABLE last           \* how the request answered in the last step fared

vars == <<rateVars, last>>
-----------------------------------------------------------------------------
(***************************************************************************)
(* The router.                                                             *)
(***************************************************************************)
Route(method, pattern, handler) ==
    [method |-> method, pattern |-> Group \o pattern, handler |-> handler]

Routes == {Route("GET", <<"tasks">>, "ListTasks"),
           Route("GET", <<"tasks", Param>>, "GetTask"),
           Route("POST", <<"tasks">>, "CreateTask"),
           Route("PATCH", <<"tasks", Param>>, "UpdateTask"),
           Route("DELETE", <<"tasks", Param>>, "DeleteTask")}

ItemHandlers == {"GetTask", "UpdateTask", "DeleteTask"}
HandlerNames == {r.handler : r \in Routes}

\* MUTANT: the slashes at the ends of the path stay.
TrimNothing(path) == path

\* strings.Trim(path, "/"), split again.
Trim(path) ==
    LET full == {i \in DOMAIN path : path[i] # Blank}
        first == CHOOSE i \in full : \A j \in full : i <= j
        final == CHOOSE i \in full : \A j \in full : j <= i
    IN  IF full = {} THEN <<Blank>> ELSE SubSeq(path, first, final)

HasParam(pattern) == \E i \in DOMAIN pattern : pattern[i] = Param

MatchPattern(pattern, path) ==
    LET parts == Trim(path) IN
    IF HasParam(pattern)
      THEN /\ Len(pattern) = Len(parts)
           /\ \A i \in DOMAIN pattern : pattern[i] \in {Param, parts[i]}
      ELSE pattern = path

RequestParam(pattern, path) ==
    LET i == CHOOSE i \in DOMAIN pattern : pattern[i] = Param
    IN  IF HasParam(pattern) THEN Trim(path)[i] ELSE Blank

NoPromise == [handler |-> "any", code |-> 0]

Answer(handler, id, code) ==
    [handler |-> handler, id |-> id, code |-> code, tooLong |-> FALSE,
     promise |-> NoPromise]

NoAnswer == Answer("none", Blank, 0)

\* MUTANT: a method that no route has is not looked up any further.
ServeHTTPNoMethod(method, path) ==
    LET matching == {r \in Routes : MatchPattern(r.pattern, path)}
        own == {r \in matching : r.method = method}
    IN  IF own # {}
          THEN {Answer(r.handler, RequestParam(r.pattern, path), 0) :
                  r \in own}
          ELSE {Answer("none", Blank,
                  IF matching = {} \/ \A r \in Routes : r.method # method
                    THEN 404 ELSE 405)}

\* Every route that may be taken (there is one, see RoutesAsDocumented), or
\* 405 if the path is known under another method, or 404.
ServeHTTP(method, path) ==
    LET matching == {r \in Routes : MatchPattern(r.pattern, path)}
        own == {r \in matching : r.method = method}
    IN  IF own # {}
          THEN {Answer(r.handler, RequestParam(r.pattern, path), 0) :
                  r \in own}
          ELSE {Answer("none", Blank, IF matching = {} THEN 404 ELSE 405)}

(***************************************************************************)
(* The ServeMux: an unclean path is redirected, the documentation has a    *)
(* subtree of its own, the rest is the router's.  A segment between two    *)
(* slashes that were sent as such is unclean if it is empty, unless it is  *)
(* the last, or consists of dots.                                          *)
(***************************************************************************)
Unclean(path, hidden) ==
    \E i \in DOMAIN path \ hidden :
        /\ i - 1 \notin hidden
        /\ path[i] \in Dots \/ (path[i] = Blank /\ i # Len(path))

Redirected(path, hidden) == Unclean(path, hidden) \/ path = <<"swagger">>

InSwagger(path, hidden) == path[1] = "swagger" /\ 1 \notin hidden

Dispatch(method, path, hidden) ==
    IF Redirected(path, hidden) THEN {Answer("redirect", Blank, 0)}
    ELSE IF InSwagger(path, hidden) THEN {Answer("swagger", Blank, 0)}
    ELSE ServeHTTP(method, path)

(***************************************************************************)
(* The handlers up to their service call.  BindJSON reads one JSON value   *)
(* and no further.  An id that is no bigint gets as far as the database.   *)
(***************************************************************************)
ParsePathID(id) == id \in Uint64s

BindJSON(body) == body \in {"valid", "padded"}

Handle(a, body) ==
    LET idOK == a.handler \in ItemHandlers => ParsePathID(a.id)
        binds == idOK /\ a.handler \in {"CreateTask", "UpdateTask"}
        noRow == a.handler \in ItemHandlers /\ a.id \notin Bigints
    IN  [a EXCEPT
           !.code = IF ~idOK \/ (binds /\ ~BindJSON(body)) THEN 400
                    ELSE IF noRow THEN 500 ELSE @,
           !.tooLong = binds /\ body = "long"]

(***************************************************************************)
(* The API as README.md:126-190 documents it: two resources, the list of   *)
(* tasks and one task.                                                     *)
(***************************************************************************)
Tasks == Group \o <<"tasks">>

Documented(path) ==
    IF path = Tasks THEN {<<"GET", "ListTasks">>, <<"POST", "CreateTask">>}
    ELSE IF \E s \in Words : path = Tasks \o <<s>>
      THEN {<<"GET", "GetTask">>, <<"PATCH", "UpdateTask">>,
            <<"DELETE", "DeleteTask">>}
    ELSE {}

\* What the documentation says of a request that reaches the router: nothing
\* of a path with further slashes in front or behind, which matchPattern trims
\* for one task and not for the list.
Promise(method, path, hidden) ==
    LET doc == {d \in Documented(path) : d[1] = method} IN
    IF \/ Redirected(path, hidden) \/ InSwagger(path, hidden)
       \/ Blank \in {path[1], path[Len(path)]}
      THEN NoPromise
    ELSE IF doc # {}
      THEN [handler |-> (CHOOSE d \in doc : TRUE)[2], code |-> 0]
    ELSE [handler |-> "none",
          code |-> IF Documented(path) = {} THEN 404 ELSE 405]

\* Everything an admitted request may come to, with (history) its promise;
\* code 0 is left to the service, or to net/http.
AnswersTo(method, path, hidden) ==
    LET promise == Promise(method, path, hidden) IN
    {[Handle(a, body) EXCEPT !.promise = promise] :
       a \in Dispatch(method, path, hidden), body \in Bodies}

Answers == UNION {AnswersTo(method, t[1], t[2]) :
                    method \in Methods, t \in Targets}
-----------------------------------------------------------------------------
TypeOK ==
    /\ RateTypeOK
    /\ last \in [handler : {"none", "redirect", "swagger"} \cup HandlerNames,
                 id : Segments, code : {0, 400, 404, 405, 429, 500},
                 tooLong : BOOLEAN,
                 promise : [handler : {"none", "any"} \cup HandlerNames,
                            code : {0, 404, 405}]]

Init ==
    /\ RateInit
    /\ last = NoAnswer

Serve(p) ==
    /\ pc[p] = "admitted"
    /\ last' \in Answers
    /\ Finish(p)

TooManyRequests(p) ==
    /\ pc[p] = "refused"
    /\ last' = Answer("none", Blank, 429)
    /\ Finish(p)

Next ==
    \/ Limit /\ last' = NoAnswer
    \/ \E p \in Procs : Serve(p) \/ TooManyRequests(p)

Spec == Init /\ [][Next]_vars
-----------------------------------------------------------------------------
(***************************************************************************)
(* Properties                                                              *)
(***************************************************************************)
\* Whatever the path, and whichever of its slashes are escaped, a documented
\* method reaches its handler and only that one, another method is 405 and an
\* unknown path 404; the order in which routes were registered, and maps are
\* iterated over, does not matter.
\* (matchPattern, Router.ServeHTTP, InitRoutes)
RoutesAsDocumented ==
    last.promise # NoPromise =>
        /\ last.handler = last.promise.handler
        /\ last.handler = "none" => last.code = last.promise.code

\* A handler that takes an id never gets an empty one, whatever slashes the
\* path has, escaped ones that no mux has cleaned away included: "task id is
\* required" is never answered.
\* (parsePathID after Router.ServeHTTP and the ServeMux)
IdIsNeverEmpty == last.handler \in ItemHandlers => last.id # Blank

\* README.md:100: a body that is over the limit is answered 413.
OversizeIs413 == last.tooLong => last.code = 413
=============================================================================
