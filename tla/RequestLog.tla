----------------------------- MODULE RequestLog -----------------------------
(***************************************************************************)
(* The way of a request through the application of api/application.py      *)
(* (CORS, LogRequestMiddleware, TrustedHost, RequestSizeLimitMiddleware,   *)
(* the routes and the exception handlers) and of its record into MongoDB   *)
(* through MongoSystemEventLogger and the MongoClientSingleton, with the   *)
(* shutdown of the process that closes the singleton under both.           *)
(*                                                                         *)
(*   new [-> body] -> app <-> query -> json | plain -> sent                *)
(*   app -> errlog -> sent                        the application raised   *)
(*   body | json -> sent                          the middleware itself   *)
(*   log: none -> task -> insert -> stored | lost                          *)
(*                                                                         *)
(* One action is what runs between two awaits.                             *)
(***************************************************************************)
EXTENDS Integers, FiniteSets

CONSTANTS
    Requests,
    None,
    MaxBody,      \* max_body_bytes, in chunks
    MaxClients    \* bound of the model: Mongo clients created

ASSUME BodyAssumption == MaxBody \in Nat
ASSUME ClientsAssumption == MaxClients \in Nat \ {0}
ASSUME NoneAssumption == None \notin 1..MaxClients

VARIABLES
    server,   \* "serving", "draining", "closing" or "stopped"
    pc,       \* where each request is
    request,  \* what arrived, and how much of its body the route has read
    broken,   \* history: the requests whose response broke off
    response, \* what the layers below the logging middleware answered
    answer,   \* the status sent to the client (None: nothing yet)
    logged,   \* request.state._log_request_middleware_logged
    log,      \* what has become of the request's record
    via,      \* the client its insertion goes through
    excuse,   \* history: the requests whose record MongoDB refused
    instance, \* MongoClientSingleton._instance
    cache,    \* MongoSystemEventLogger._collections: the client it holds
    open,     \* the Mongo clients that are open
    created   \* how many were created

life == <<request, broken, response, answer, logged>>
mongo == <<instance, cache, open, created>>
vars == <<server, pc, life, log, via, excuse, mongo>>

Go(r, phase) == pc' = [pc EXCEPT ![r] = phase]

-----------------------------------------------------------------------------
(* The helpers of system_log/tools.py on the body of a response. It is parsed
   JSON with an "extra" field, anything else counts as "other". *)

Extras == {"empty", "partner", "odd"}

(* resp_partner is looked up in a dict; an extra that is not one raises. *)
StatusCodePartner(resp) ==
    CASE ~resp.json             -> "none"
      [] resp.extra = "empty"   -> "status_code"
      [] resp.extra = "partner" -> "resp_partner"
      [] resp.extra = "odd"     -> "raises"

ExecutionTimePartner(resp) ==
    CASE ~resp.json             -> "zero"
      [] resp.extra = "empty"   -> "zero"
      [] resp.extra = "partner" -> "resp_partner"
      [] resp.extra = "odd"     -> "raises"

(* _do_log_api_call builds the whole record before it writes it. *)
CanBeLogged(resp) ==
    StatusCodePartner(resp) # "raises" /\ ExecutionTimePartner(resp) # "raises"

(* The exception handlers: ApiResponse always has a dict as its extra. *)
Api(status, extra) ==
    [status |-> status, json |-> TRUE, extra |-> extra, traceback |-> FALSE]

ErrorResponses == {Api(400, "partner")}
HttpErrors == {Api(404, "empty")}
ValidationErrors == {Api(422, "empty")}
RateLimited == {Api(429, "partner")}
RouteAnswers == {Api(200, e) : e \in Extras}
Downloads == {[status |-> 200, json |-> FALSE, extra |-> "empty", traceback |-> FALSE]}
BadHost == [status |-> 400, json |-> FALSE, extra |-> "empty", traceback |-> FALSE]
TooLarge == Api(413, "empty")
BodyUnreadable == Api(400, "empty")
InternalError == [Api(500, "empty") EXCEPT !.traceback = TRUE]

Answers ==
    RouteAnswers \cup Downloads \cup ErrorResponses \cup HttpErrors
        \cup ValidationErrors \cup RateLimited

NoResponse == [status |-> 0, json |-> FALSE, extra |-> "empty", traceback |-> FALSE]

Responses == Answers \cup {NoResponse, BadHost, TooLarge, BodyUnreadable, InternalError}

(* What is in a request: one that serialize_for_log raises on (nested deeper than
   Python recurses), or a JSON body whose request_id is no latin-1 string. *)
Kinds == {"plain", "badId", "unloggable"}

(* A request: its method, its chunks, whether it declares them, how many of them
   the route has read, and what is in it. *)
Shapes ==
    [writes : BOOLEAN, size : 0..(MaxBody + 1), declared : BOOLEAN, read : 0..(MaxBody + 1),
     kind : Kinds]

NoRequest == [writes |-> FALSE, size |-> 0, declared |-> FALSE, read |-> 0, kind |-> "plain"]

(* get_request_id: the id that goes into a header of the JSON response comes from
   the body that the middleware has cached. *)
IdFitsHeader(q) == q.kind # "badId"

-----------------------------------------------------------------------------
(* The Mongo client *)

(* get_client: nobody holds its lock across an await, so it happens at once. *)
GetClient ==
    IF instance # None THEN UNCHANGED <<instance, open, created>>
    ELSE /\ created < MaxClients
         /\ created' = created + 1
         /\ instance' = created'
         /\ open' = open \cup {created'}

(* _get_collection *)
GetCollection ==
    IF cache # None THEN UNCHANGED mongo ELSE GetClient /\ cache' = instance'

(* Mutant: the reset forgets the cached collections. *)
CloseMongoKeepsCache ==
    /\ open' = open \ {instance}
    /\ instance' = None
    /\ UNCHANGED <<cache, created>>

(* close and reset *)
CloseMongo ==
    /\ open' = open \ {instance}
    /\ instance' = None
    /\ cache' = None
    /\ UNCHANGED created

-----------------------------------------------------------------------------

Init ==
    /\ server = "serving"
    /\ pc = [r \in Requests |-> "new"]
    /\ request = [r \in Requests |-> NoRequest]
    /\ broken = {}
    /\ response = [r \in Requests |-> NoResponse]
    /\ answer = [r \in Requests |-> None]
    /\ logged = [r \in Requests |-> FALSE]
    /\ log = [r \in Requests |-> "none"]
    /\ via = [r \in Requests |-> None]
    /\ excuse = {}
    /\ instance = None
    /\ cache = None
    /\ open = {}
    /\ created = 0

(* The request is logged on its way in, outside any try: if that raises, the
   generic handler answers, and neither the application nor the record comes to
   hear of it. *)
Enter(r, q) ==
    IF q.kind = "unloggable"
      THEN Go(r, "sent") /\ answer' = [answer EXCEPT ![r] = 500]
      ELSE Go(r, "app") /\ UNCHANGED answer

(* A request reaches the logging middleware, which reads the body of the write
   methods before anything else sees it. *)
Arrive(r, shape) ==
    /\ server = "serving"
    /\ pc[r] = "new"
    /\ shape.read = 0
    /\ shape.kind = "badId" => shape.writes /\ shape.size > 0
    /\ request' = [request EXCEPT ![r] = shape]
    /\ IF shape.writes THEN Go(r, "body") /\ UNCHANGED answer ELSE Enter(r, shape)
    /\ UNCHANGED <<server, broken, response, logged, log, via, excuse, mongo>>

(* The client has sent its body, or is gone. *)
BodyCached(r) ==
    /\ pc[r] = "body"
    /\ Enter(r, request[r])
    /\ UNCHANGED <<server, request, broken, response, logged, log, via, excuse, mongo>>

(* CORS answers a preflight itself, above the logging middleware. *)
Preflight(r) ==
    /\ server = "serving"
    /\ pc[r] = "new"
    /\ answer' = [answer EXCEPT ![r] = 200]
    /\ Go(r, "sent")
    /\ UNCHANGED <<server, request, broken, response, logged, log, via, excuse, mongo>>

(* The inner application returns a response. *)
Returns(r, resp) ==
    /\ response' = [response EXCEPT ![r] = resp]
    /\ Go(r, IF resp.json THEN "json" ELSE "plain")
    /\ request' = [request EXCEPT ![r] = [NoRequest EXCEPT !.kind = request[r].kind]]
    /\ UNCHANGED <<server, broken, answer, logged, log, via, excuse, mongo>>

(* TrustedHost and then the declared length, before the routes. *)
Rejected(r) ==
    LET q == request[r]
    IN  /\ pc[r] = "app"
        /\ q.read = 0
        /\ \/ Returns(r, BadHost)
           \/ q.declared /\ q.size > MaxBody /\ Returns(r, TooLarge)

Passes(q) == q.declared => q.size <= MaxBody

(* Mutant: the limit looks at one message of the body at a time. *)
ReadBodyByMessage(r) ==
    LET q == request[r]
        message == IF q.writes THEN q.size ELSE 1
    IN  /\ pc[r] = "app"
        /\ Passes(q)
        /\ q.read < q.size
        /\ IF message > MaxBody
             THEN Returns(r, TooLarge) \/ Returns(r, BodyUnreadable)
             ELSE /\ request' = [request EXCEPT ![r].read = @ + message]
                  /\ UNCHANGED <<server, pc, broken, response, answer, logged, log, via, excuse, mongo>>

(* limited_receive: a cached body comes as one message, another one chunk by
   chunk. RequestTooLarge is turned into a 400 where FastAPI parses the body
   and reaches the size limit, which answers 413, where the route reads it. *)
ReadBody(r) ==
    LET q == request[r]
        message == IF q.writes THEN q.size ELSE 1
    IN  /\ pc[r] = "app"
        /\ Passes(q)
        /\ q.read < q.size
        /\ IF q.read + message > MaxBody
             THEN Returns(r, TooLarge) \/ Returns(r, BodyUnreadable)
             ELSE /\ request' = [request EXCEPT ![r].read = @ + message]
                  /\ UNCHANGED <<server, pc, broken, response, answer, logged, log, via, excuse, mongo>>

(* The route answers, or raises what an exception handler answers. *)
Respond(r) ==
    /\ pc[r] = "app"
    /\ Passes(request[r])
    /\ \E resp \in Answers : Returns(r, resp)

(* The route itself reads or writes MongoDB (find_one_action and the others). *)
Query(r) ==
    /\ pc[r] = "app"
    /\ Passes(request[r])
    /\ GetCollection
    /\ via' = [via EXCEPT ![r] = cache']
    /\ Go(r, "query")
    /\ UNCHANGED <<server, life, log, excuse>>

Queried(r) ==
    /\ pc[r] = "query"
    /\ via[r] \in open
    /\ via' = [via EXCEPT ![r] = None]
    /\ Go(r, "app")
    /\ UNCHANGED <<server, life, log, excuse, mongo>>

(* Mutant: the record of an error is written without marking the request. *)
RaiseUnmarked(r) ==
    /\ \/ pc[r] = "app" /\ Passes(request[r])
       \/ pc[r] = "query"
    /\ response' = [response EXCEPT ![r] = InternalError]
    /\ via' = [via EXCEPT ![r] = None]
    /\ log' = [log EXCEPT ![r] = "task"]
    /\ Go(r, "errlog")
    /\ request' = [request EXCEPT ![r] = NoRequest]
    /\ UNCHANGED <<server, broken, answer, logged, excuse, mongo>>

(* What no handler below the middleware answers: it keeps the traceback, marks
   the request as logged and writes the record before it answers. *)
Raise(r) ==
    /\ \/ pc[r] = "app" /\ Passes(request[r])
       \/ pc[r] = "query"
    /\ response' = [response EXCEPT ![r] = InternalError]
    /\ via' = [via EXCEPT ![r] = None]
    /\ logged' = [logged EXCEPT ![r] = TRUE]
    /\ log' = [log EXCEPT ![r] = "task"]
    /\ Go(r, "errlog")
    /\ request' = [request EXCEPT ![r] = NoRequest]
    /\ UNCHANGED <<server, broken, answer, excuse, mongo>>

Send(r) ==
    /\ answer' = [answer EXCEPT ![r] = response[r].status]
    /\ Go(r, "sent")

(* Mutant: an error is answered only once its record is stored. *)
AnswerErrorStored(r) ==
    /\ pc[r] = "errlog"
    /\ log[r] = "stored"
    /\ Send(r)
    /\ UNCHANGED <<server, request, broken, response, logged, log, via, excuse, mongo>>

(* Its record is written or lost, and the client gets the 500. *)
AnswerError(r) ==
    /\ pc[r] = "errlog"
    /\ log[r] \in {"stored", "lost"}
    /\ Send(r)
    /\ UNCHANGED <<server, request, broken, response, logged, log, via, excuse, mongo>>

(* Mutant: the record is written before the response is sent, and its error is
   the request's. *)
AnswerLogsFirst(r) ==
    /\ pc[r] \in {"json", "plain"}
    /\ logged' = [logged EXCEPT ![r] = TRUE]
    /\ log' = [log EXCEPT ![r] = "task"]
    /\ answer' = [answer EXCEPT ![r] = IF CanBeLogged(response[r]) THEN response[r].status ELSE 500]
    /\ Go(r, "sent")
    /\ UNCHANGED <<server, request, broken, response, via, excuse, mongo>>

(* Mutant: the background task is started only for JSON. *)
AnswerLogsJson(r) ==
    /\ pc[r] \in {"json", "plain"}
    /\ logged' = [logged EXCEPT ![r] = TRUE]
    /\ log' = IF response[r].json THEN [log EXCEPT ![r] = "task"] ELSE log
    /\ Send(r)
    /\ UNCHANGED <<server, request, broken, response, via, excuse, mongo>>

(* The response is read whole, rebuilt with the request's id in a header if it is
   JSON, and sent; its record is left to a task of its own. An odd extra only
   keeps the partner from being found. *)
Answer(r) ==
    /\ pc[r] = "plain" \/ (pc[r] = "json" /\ IdFitsHeader(request[r]))
    /\ ~logged[r]
    /\ logged' = [logged EXCEPT ![r] = TRUE]
    /\ log' = [log EXCEPT ![r] = "task"]
    /\ Send(r)
    /\ UNCHANGED <<server, request, broken, response, via, excuse, mongo>>

(* What raises out of the middleware is answered by the generic handler, and
   nothing is logged. *)
RaisesOut(r) ==
    /\ answer' = [answer EXCEPT ![r] = 500]
    /\ Go(r, "sent")
    /\ UNCHANGED <<server, request, response, logged, log, via, excuse, mongo>>

(* The application fails after its response began, or the log of the response
   cannot be made of what it sent. *)
BodyBreaks(r) ==
    /\ pc[r] = "json"
    /\ broken' = broken \cup {r}
    /\ RaisesOut(r)

(* The header cannot be encoded: Response(headers=...) raises. *)
HeaderRaises(r) ==
    /\ pc[r] = "json"
    /\ ~IdFitsHeader(request[r])
    /\ UNCHANGED broken
    /\ RaisesOut(r)

(* The record: _log_api_call *)

LosesRecord(r) == log' = [log EXCEPT ![r] = "lost"]

(* It is built, and the collection looked up. *)
WriteRecord(r) ==
    /\ log[r] = "task"
    /\ server # "stopped"
    /\ IF CanBeLogged(response[r])
         THEN /\ GetCollection
              /\ via' = [via EXCEPT ![r] = cache']
              /\ log' = [log EXCEPT ![r] = "insert"]
         ELSE LosesRecord(r) /\ UNCHANGED <<via, mongo>>
    /\ UNCHANGED <<server, pc, life, excuse>>

Inserted(r) ==
    /\ log[r] = "insert"
    /\ via[r] \in open
    /\ log' = [log EXCEPT ![r] = "stored"]
    /\ UNCHANGED <<server, pc, life, via, excuse, mongo>>

(* Any error is caught and the record forgotten; on a client that was closed
   meanwhile there is nothing but errors. *)
InsertFails(r) ==
    /\ log[r] = "insert"
    /\ LosesRecord(r)
    /\ excuse' = excuse \cup {r}
    /\ UNCHANGED <<server, pc, life, via, mongo>>

(* The process *)

(* uvicorn takes no more requests and waits for those it has; nobody waits for
   the tasks in _background_tasks. *)
Drain ==
    /\ server = "serving"
    /\ server' = "draining"
    /\ UNCHANGED <<pc, life, log, via, excuse, mongo>>

(* The first step of the lifespan's finally. *)
Shutdown ==
    /\ server = "draining"
    /\ \A r \in Requests : pc[r] \in {"new", "sent"}
    /\ server' = "closing"
    /\ CloseMongo
    /\ UNCHANGED <<pc, life, log, via, excuse>>

(* The event loop ends and cancels what still runs. *)
Stop ==
    /\ server = "closing"
    /\ server' = "stopped"
    /\ log' = [r \in Requests |-> IF log[r] \in {"task", "insert"} THEN "lost" ELSE log[r]]
    /\ UNCHANGED <<pc, life, via, excuse, mongo>>

(* What waits for the client: for its body, which a route reads as it comes. *)
Receive(r) == BodyCached(r) \/ ReadBody(r)

(* What the application does: it reads or writes MongoDB, answers or raises, and
   sends the body of its answer. *)
Route(r) == Query(r) \/ Respond(r) \/ Raise(r)
Finish(r) == Answer(r) \/ BodyBreaks(r) \/ HeaderRaises(r)

Handle(r) ==
    Receive(r) \/ Rejected(r) \/ Route(r) \/ Queried(r) \/ AnswerError(r) \/ Finish(r)

Record(r) == WriteRecord(r) \/ Inserted(r) \/ InsertFails(r)

Next ==
    \/ Drain \/ Shutdown \/ Stop
    \/ \E r \in Requests :
          \/ \E shape \in Shapes : Arrive(r, shape)
          \/ Preflight(r)
          \/ Handle(r) \/ Record(r)

(* The event loop runs every task that can run, and MongoDB answers, with an error
   after its timeout at the latest. Nothing is assumed of clients and routes. *)
Fairness ==
    \A r \in Requests :
        /\ WF_vars(~Passes(request[r]) /\ Rejected(r))
        /\ WF_vars(Queried(r) \/ AnswerError(r))
        /\ WF_vars(Record(r))

Spec == Init /\ [][Next]_vars /\ Fairness

-----------------------------------------------------------------------------

TypeOK ==
    /\ server \in {"serving", "draining", "closing", "stopped"}
    /\ pc \in [Requests -> {"new", "body", "app", "query", "json", "plain", "errlog", "sent"}]
    /\ request \in [Requests -> Shapes]
    /\ broken \subseteq Requests
    /\ response \in [Requests -> Responses]
    /\ answer \in [Requests -> {r.status : r \in Responses} \cup {None}]
    /\ logged \in [Requests -> BOOLEAN]
    /\ log \in [Requests -> {"none", "task", "insert", "stored", "lost"}]
    /\ via \in [Requests -> 1..MaxClients \cup {None}]
    /\ excuse \subseteq Requests
    /\ instance \in 1..MaxClients \cup {None}
    /\ cache \in 1..MaxClients \cup {None}
    /\ open \subseteq 1..MaxClients
    /\ created \in 0..MaxClients
    /\ \A r \in Requests : log[r] # "none" => logged[r]

(* "singleton pattern [...] to reuse connections" (line 16 of mongo.py): the one
   open client is the singleton's, and no collection outlives its client; also
   for a record that is written after the shutdown closed the client. *)
OneClient ==
    /\ open = {instance} \ {None}
    /\ cache # None => cache = instance

(* No route ever has more of a body than the limit, whether its length was
   declared, or it was read ahead by the logging middleware (lines 20-41 of
   request_size.py, 208-210 of log_request.py). *)
NoOversizedBody == \A r \in Requests : request[r].read <= MaxBody

(* "Recreate response with EXACTLY the same status and content" (line 261 of
   log_request.py): once the application has answered, the client gets its status,
   500 if it raised, whatever its extra looks like and whatever MongoDB does. The
   exceptions are two, and both become a 500: a JSON response whose body breaks
   off, and one to a request whose request_id does not fit a header (lines
   250-270). *)
AnswerIsTheApplications ==
    \A r \in Requests :
        pc[r] = "sent" /\ response[r] # NoResponse =>
            \/ answer[r] = response[r].status
            \/ /\ answer[r] = 500
               /\ r \in broken \/ (response[r].json /\ ~IdFitsHeader(request[r]))

(* The hypotheses of EveryRequestAnswered, of which the code enforces neither: it
   has no timeout for a client's body nor for a route. *)
ClientsSend == \A r \in Requests : SF_vars(Receive(r))
RoutesAnswer ==
    \A r \in Requests :
        SF_vars(request[r].read = request[r].size /\ Respond(r)) /\ WF_vars(Finish(r))

(* If clients send the bodies that they announce, or hang up, and if no route runs
   for ever once it has them, then every request that got in is answered: also
   while the process drains, when MongoDB fails, or when the log or the headers of
   a response cannot be made (lines 203-282 of log_request.py). *)
EveryRequestAnswered ==
    ClientsSend /\ RoutesAnswer => \A r \in Requests : pc[r] # "new" ~> answer[r] # None

(* The record of a request that the application answered ends up in MongoDB. What
   keeps it out is one of these, and nothing else: the response broke off or its
   header could not be made, so that the middleware raised before it logged; an
   odd extra, on which the record cannot be built; an insertion that MongoDB
   refused; or the process going down, which waits for no record. *)
EveryRequestRecorded ==
    \A r \in Requests :
        pc[r] = "sent" /\ response[r] # NoResponse ~>
            \/ log[r] = "stored"
            \/ r \in broken
            \/ response[r].json /\ ~IdFitsHeader(request[r])
            \/ ~CanBeLogged(response[r])
            \/ r \in excuse
            \/ server \in {"closing", "stopped"}
=============================================================================
