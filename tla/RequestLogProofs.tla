-------------------------- MODULE RequestLogProofs --------------------------
(***************************************************************************)
(* For any number of requests, any limit on bodies and any number of Mongo *)
(* clients: whatever the order of requests, records and the shutdown, one  *)
(* client is open, no route reads more than the limit, and logging changes *)
(* no answer but by raising out of the middleware, for two known reasons.  *)
(***************************************************************************)
EXTENDS RequestLog, TLAPS

Clients == 1..MaxClients

(* There is no response before the application has answered. *)
NewIsBlank ==
    \A r \in Requests :
        /\ pc[r] \in {"new", "body", "app", "query"} => response[r] = NoResponse
        /\ pc[r] = "json" => response[r].json

(* A request that was logged has a record under way or stored, or one that was
   lost for a reason: it could not be built, MongoDB refused it, or the process
   ended. It is logged with the answer, or just before if that is an error. *)
NoRecordForgotten ==
    \A r \in Requests :
        /\ logged[r] <=> log[r] # "none"
        /\ log[r] # "none" => pc[r] \in {"errlog", "sent"}
        /\ log[r] = "lost" => ~CanBeLogged(response[r]) \/ r \in excuse \/ server = "stopped"

Inv ==
    /\ TypeOK
    /\ OneClient
    /\ NoOversizedBody
    /\ AnswerIsTheApplications
    /\ NewIsBlank
    /\ NoRecordForgotten

-----------------------------------------------------------------------------
(* The responses and the requests *)

Statuses == {r.status : r \in Responses}

LEMMA KnownResponses ==
    /\ {NoResponse, BadHost, TooLarge, BodyUnreadable, InternalError} \subseteq Responses
    /\ Answers \subseteq Responses
  BY DEF Responses

LEMMA StatusOf == \A resp \in Responses : resp.status \in Statuses
  BY DEF Statuses

LEMMA KnownStatuses == 200 \in Statuses /\ 500 \in Statuses /\ InternalError.status = 500
  <1>1. Api(200, "empty") \in Responses
    BY DEF Responses, Answers, RouteAnswers, Extras
  <1>2. Api(200, "empty").status = 200 /\ InternalError.status = 500
    BY DEF Api, InternalError
  <1> QED BY <1>1, <1>2, KnownResponses, StatusOf

LEMMA Blank ==
    /\ NoRequest \in Shapes /\ NoRequest.read = 0
    /\ \A kind \in Kinds : /\ [NoRequest EXCEPT !.kind = kind] \in Shapes
                           /\ [NoRequest EXCEPT !.kind = kind].read = 0
  <1>1. 0 \in 0..(MaxBody + 1)
    BY BodyAssumption
  <1>2. NoRequest \in Shapes /\ NoRequest.read = 0
    BY <1>1 DEF NoRequest, Shapes, Kinds
  <1>3. ASSUME NEW kind \in Kinds
        PROVE  [NoRequest EXCEPT !.kind = kind] \in Shapes /\ [NoRequest EXCEPT !.kind = kind].read = 0
    BY <1>2 DEF Shapes
  <1> QED BY <1>2, <1>3

LEMMA InitInv == Init => Inv
  <1> SUFFICES ASSUME Init PROVE Inv
    OBVIOUS
  <1>1. TypeOK
    BY Blank, KnownResponses, ClientsAssumption DEF Init, TypeOK
  <1>2. NoOversizedBody
    BY Blank, BodyAssumption DEF Init, NoOversizedBody
  <1>3. OneClient /\ AnswerIsTheApplications /\ NewIsBlank /\ NoRecordForgotten
    BY DEF Init, OneClient, AnswerIsTheApplications, NewIsBlank, NoRecordForgotten
  <1> QED BY <1>1, <1>2, <1>3 DEF Inv

-----------------------------------------------------------------------------
(* The Mongo client *)

MongoOK ==
    /\ instance \in Clients \cup {None}
    /\ cache \in Clients \cup {None}
    /\ open \subseteq Clients
    /\ created \in 0..MaxClients
    /\ OneClient

(* A collection comes from the one open client, and opens it if need be. *)
LEMMA Collections ==
    ASSUME MongoOK, GetCollection
    PROVE  MongoOK' /\ cache' \in Clients
  <1>1. CASE cache # None
    BY <1>1 DEF GetCollection, MongoOK, OneClient, mongo, Clients
  <1>2. CASE cache = None /\ instance # None
    BY <1>2 DEF GetCollection, GetClient, MongoOK, OneClient, Clients
  <1>3. CASE cache = None /\ instance = None
    <2>1. /\ created' = created + 1 /\ created < MaxClients
          /\ instance' = created' /\ open' = open \cup {created'} /\ cache' = instance'
      BY <1>3 DEF GetCollection, GetClient
    <2>2. created' \in Clients /\ created' # None
      BY <2>1, ClientsAssumption, NoneAssumption DEF MongoOK, Clients
    <2> QED BY <1>3, <2>1, <2>2 DEF MongoOK, OneClient, Clients
  <1> QED BY <1>1, <1>2, <1>3

LEMMA Closing == ASSUME MongoOK, CloseMongo PROVE MongoOK'
  BY DEF MongoOK, CloseMongo, OneClient, Clients

(* Every step leaves the Mongo client alone, looks a collection up or closes. *)
LEMMA MongoStep ==
    ASSUME Inv, [Next]_vars
    PROVE  MongoOK'
  <1>1. MongoOK
    BY DEF Inv, TypeOK, MongoOK, Clients
  <1>2. CASE UNCHANGED mongo
    BY <1>1, <1>2 DEF mongo, MongoOK, OneClient
  <1>3. CASE GetCollection
    BY <1>1, <1>3, Collections
  <1>4. CASE CloseMongo
    BY <1>1, <1>4, Closing
  <1>5. ASSUME NEW r \in Requests, Handle(r) PROVE UNCHANGED mongo \/ GetCollection
    BY <1>5 DEF Handle, BodyCached, Rejected, ReadBody, Respond, Query, Queried, Raise,
                AnswerError, Answer, BodyBreaks, HeaderRaises, RaisesOut, Returns, Receive, Route, Finish
  <1>6. ASSUME NEW r \in Requests, Record(r) PROVE UNCHANGED mongo \/ GetCollection
    BY <1>6 DEF Record, WriteRecord, Inserted, InsertFails
  <1>7. ASSUME NEW r \in Requests, (\E shape \in Shapes : Arrive(r, shape)) \/ Preflight(r)
        PROVE  UNCHANGED mongo
    BY <1>7 DEF Arrive, Preflight
  <1>8. ASSUME Drain \/ Shutdown \/ Stop PROVE UNCHANGED mongo \/ CloseMongo
    BY <1>8 DEF Drain, Shutdown, Stop
  <1>9. UNCHANGED vars => UNCHANGED mongo
    BY DEF vars
  <1> QED BY <1>2, <1>3, <1>4, <1>5, <1>6, <1>7, <1>8, <1>9 DEF Next

-----------------------------------------------------------------------------
(* The requests *)

RequestsOK ==
    /\ pc \in [Requests -> {"new", "body", "app", "query", "json", "plain", "errlog", "sent"}]
    /\ request \in [Requests -> Shapes] /\ broken \subseteq Requests
    /\ response \in [Requests -> Responses]
    /\ answer \in [Requests -> Statuses \cup {None}]
    /\ NoOversizedBody /\ AnswerIsTheApplications /\ NewIsBlank

(* The application's answer is kept. *)
LEMMA ReturnsKeeps ==
    ASSUME RequestsOK, NEW r \in Requests, NEW resp \in Responses, Returns(r, resp)
    PROVE  RequestsOK'
  <1>1. request[r].kind \in Kinds
    BY DEF RequestsOK, Shapes
  <1> DEFINE q == [NoRequest EXCEPT !.kind = request[r].kind]
  <1>2. q \in Shapes /\ q.read = 0 /\ request' = [request EXCEPT ![r] = q] /\ UNCHANGED <<broken, answer>>
    BY <1>1, Blank DEF Returns
  <1>3. pc' = [pc EXCEPT ![r] = IF resp.json THEN "json" ELSE "plain"] /\ response' = [response EXCEPT ![r] = resp]
    BY DEF Returns, Go
  <1> HIDE DEF q
  <1> QED BY <1>2, <1>3, BodyAssumption
     DEF RequestsOK, Go, NoOversizedBody, AnswerIsTheApplications, NewIsBlank

(* A message of the body that goes over the limit never reaches the route. *)
LEMMA ReadBodyKeeps ==
    ASSUME RequestsOK, NEW r \in Requests, ReadBody(r)
    PROVE  RequestsOK'
  <1> DEFINE message == IF request[r].writes THEN request[r].size ELSE 1
  <1>1. CASE Returns(r, TooLarge) \/ Returns(r, BodyUnreadable)
    BY <1>1, KnownResponses, ReturnsKeeps
  <1>2. CASE /\ ~(request[r].read + message > MaxBody)
             /\ request' = [request EXCEPT ![r].read = @ + message]
             /\ UNCHANGED <<pc, broken, response, answer>>
    <2>1. request[r] \in Shapes
      BY DEF RequestsOK
    <2>2. message \in 0..(MaxBody + 1)
      BY <2>1, BodyAssumption DEF Shapes
    <2>3. /\ [request[r] EXCEPT !.read = request[r].read + message] \in Shapes
          /\ request[r].read + message <= MaxBody
      BY <1>2, <2>1, <2>2, BodyAssumption DEF Shapes
    <2>4. request' = [request EXCEPT ![r] = [request[r] EXCEPT !.read = request[r].read + message]]
      BY <1>2
    <2>5. request' \in [Requests -> Shapes]
      BY <2>3, <2>4 DEF RequestsOK
    <2>7. \A q \in Requests : request'[q].kind = request[q].kind
      BY <2>1, <2>4 DEF RequestsOK, Shapes
    <2>6. \A q \in Requests : request'[q].read <= MaxBody
      BY <2>1, <2>3, <2>4 DEF RequestsOK, NoOversizedBody, Shapes
    <2> QED BY <1>2, <2>5, <2>6, <2>7
        DEF RequestsOK, NoOversizedBody, AnswerIsTheApplications, NewIsBlank, IdFitsHeader
  <1> QED BY <1>1, <1>2 DEF ReadBody

(* What the application answered is what is sent. *)
LEMMA SendKeeps ==
    ASSUME RequestsOK, NEW r \in Requests, Send(r), UNCHANGED <<request, broken, response>>
    PROVE  RequestsOK'
  <1>1. response[r].status \in Statuses
    BY StatusOf DEF RequestsOK
  <1> QED BY <1>1 DEF RequestsOK, Send, Go, NoOversizedBody, AnswerIsTheApplications, NewIsBlank

LEMMA HandleKeeps ==
    ASSUME RequestsOK, NEW r \in Requests, Handle(r)
    PROVE  RequestsOK'
  <1>1. ASSUME Rejected(r) \/ Respond(r) PROVE RequestsOK'
    BY <1>1, KnownResponses, ReturnsKeeps DEF Rejected, Respond
  <1>2. ASSUME Query(r) \/ Queried(r) PROVE RequestsOK'
    BY <1>2 DEF Query, Queried, Go, life, RequestsOK, NoOversizedBody,
                AnswerIsTheApplications, NewIsBlank
  <1>3. ASSUME Raise(r) PROVE RequestsOK'
    BY <1>3, KnownResponses, Blank, BodyAssumption
       DEF Raise, Go, RequestsOK, NoOversizedBody, AnswerIsTheApplications, NewIsBlank
  <1>4. ASSUME AnswerError(r) \/ Answer(r) PROVE RequestsOK'
    BY <1>4, SendKeeps DEF AnswerError, Answer
  <1>5. ASSUME BodyBreaks(r) PROVE RequestsOK'
    BY <1>5, KnownStatuses
       DEF BodyBreaks, RaisesOut, Go, RequestsOK, NoOversizedBody, AnswerIsTheApplications, NewIsBlank
  <1>6. ASSUME HeaderRaises(r), response[r].json PROVE RequestsOK'
    BY <1>6, KnownStatuses
       DEF HeaderRaises, RaisesOut, Go, RequestsOK, NoOversizedBody, AnswerIsTheApplications, NewIsBlank
  <1>7. ASSUME BodyCached(r) PROVE RequestsOK'
    <2>1. response[r] = NoResponse
      BY <1>7 DEF BodyCached, RequestsOK, NewIsBlank
    <2> QED BY <1>7, <2>1, KnownStatuses
       DEF BodyCached, Enter, Go, RequestsOK, NoOversizedBody, AnswerIsTheApplications, NewIsBlank
  <1>8. HeaderRaises(r) => response[r].json
    BY DEF HeaderRaises, RequestsOK, NewIsBlank
  <1> QED BY <1>1, <1>2, <1>3, <1>4, <1>5, <1>6, <1>7, <1>8, ReadBodyKeeps DEF Handle, Receive, Route, Finish

LEMMA RequestsStep ==
    ASSUME Inv, [Next]_vars
    PROVE  RequestsOK'
  <1>1. RequestsOK
    BY DEF Inv, TypeOK, RequestsOK, Statuses
  <1>2. ASSUME NEW r \in Requests, NEW shape \in Shapes, Arrive(r, shape) PROVE RequestsOK'
    BY <1>1, <1>2, BodyAssumption, KnownStatuses
       DEF Arrive, Enter, Go, RequestsOK, NoOversizedBody, AnswerIsTheApplications, NewIsBlank
  <1>3. ASSUME NEW r \in Requests, Preflight(r) PROVE RequestsOK'
    BY <1>1, <1>3, KnownStatuses
       DEF Preflight, Go, RequestsOK, NoOversizedBody, AnswerIsTheApplications, NewIsBlank
  <1>4. CASE UNCHANGED <<pc, life>>
    BY <1>1, <1>4 DEF life, RequestsOK, NoOversizedBody, AnswerIsTheApplications, NewIsBlank
  <1>5. ASSUME Drain \/ Shutdown \/ Stop \/ (\E r \in Requests : Record(r)) \/ UNCHANGED vars
        PROVE  UNCHANGED <<pc, life>>
    BY <1>5 DEF Drain, Shutdown, Stop, Record, WriteRecord, Inserted, InsertFails, vars
  <1> QED BY <1>1, <1>2, <1>3, <1>4, <1>5, HandleKeeps DEF Next

-----------------------------------------------------------------------------
(* The records *)

RecordsOK ==
    /\ server \in {"serving", "draining", "closing", "stopped"}
    /\ logged \in [Requests -> BOOLEAN]
    /\ log \in [Requests -> {"none", "task", "insert", "stored", "lost"}]
    /\ via \in [Requests -> Clients \cup {None}]
    /\ excuse \subseteq Requests
    /\ pc \in [Requests -> {"new", "body", "app", "query", "json", "plain", "errlog", "sent"}]
    /\ response \in [Requests -> Responses]
    /\ NoRecordForgotten

LEMMA RecordKeeps ==
    ASSUME RecordsOK, MongoOK, NEW r \in Requests, Record(r)
    PROVE  RecordsOK'
  <1>1. ASSUME WriteRecord(r) PROVE RecordsOK'
    <2>1. log[r] = "task" /\ UNCHANGED <<server, pc, response, logged, excuse>>
      BY <1>1 DEF WriteRecord, life
    <2>2. CASE GetCollection /\ via' = [via EXCEPT ![r] = cache'] /\ log' = [log EXCEPT ![r] = "insert"]
      BY <2>1, <2>2, Collections DEF RecordsOK, NoRecordForgotten
    <2>3. CASE ~CanBeLogged(response[r]) /\ LosesRecord(r) /\ UNCHANGED via
      BY <2>1, <2>3 DEF LosesRecord, RecordsOK, NoRecordForgotten
    <2> QED BY <1>1, <2>2, <2>3 DEF WriteRecord
  <1>2. ASSUME Inserted(r) \/ InsertFails(r) PROVE RecordsOK'
    BY <1>2 DEF Inserted, InsertFails, LosesRecord, life, RecordsOK, NoRecordForgotten
  <1> QED BY <1>1, <1>2 DEF Record

(* Nothing has been logged of a request whose response is not being sent. *)
LEMMA UnloggedMoves ==
    ASSUME RecordsOK, NEW r \in Requests, log[r] = "none",
           NEW phase \in {"new", "body", "app", "query", "json", "plain", "errlog", "sent"},
           pc' = [pc EXCEPT ![r] = phase],
           NEW resp \in Responses, response' = [response EXCEPT ![r] = resp],
           UNCHANGED <<server, logged, log, excuse>>, via' \in [Requests -> Clients \cup {None}]
    PROVE  RecordsOK'
  BY DEF RecordsOK, NoRecordForgotten

LEMMA HandleRecords ==
    ASSUME RecordsOK, MongoOK, RequestsOK, NEW r \in Requests, Handle(r)
    PROVE  RecordsOK'
  <1>0. /\ pc[r] \notin {"errlog", "sent"} => log[r] = "none"
        /\ response[r] \in Responses /\ response = [response EXCEPT ![r] = response[r]]
        /\ via \in [Requests -> Clients \cup {None}]
        /\ NoResponse \in Responses /\ InternalError \in Responses
    BY KnownResponses DEF RecordsOK, NoRecordForgotten
  <1>1. ASSUME NEW resp \in Responses, Returns(r, resp), pc[r] = "app" PROVE RecordsOK'
    <2>1. PICK phase \in {"json", "plain"} : pc' = [pc EXCEPT ![r] = phase]
      BY <1>1 DEF Returns, Go
    <2> QED BY <1>0, <1>1, <2>1, UnloggedMoves DEF Returns
  <1>2. ASSUME Rejected(r) \/ Respond(r) PROVE RecordsOK'
    BY <1>1, <1>2, KnownResponses DEF Rejected, Respond
  <1>3. ASSUME ReadBody(r) PROVE RecordsOK'
    <2>1. ASSUME UNCHANGED <<server, pc, response, logged, log, via, excuse>> PROVE RecordsOK'
      BY <2>1 DEF RecordsOK, NoRecordForgotten
    <2> QED BY <1>1, <1>3, <2>1, KnownResponses DEF ReadBody
  <1>4. ASSUME BodyCached(r) PROVE RecordsOK'
    <2>1. PICK phase \in {"app", "sent"} : pc' = [pc EXCEPT ![r] = phase]
      BY <1>4 DEF BodyCached, Enter, Go
    <2>2. pc[r] = "body" /\ UNCHANGED <<server, response, logged, log, via, excuse>>
      BY <1>4 DEF BodyCached
    <2> QED BY <1>0, <2>1, <2>2, UnloggedMoves
  <1>5. ASSUME Query(r) PROVE RecordsOK'
    <2>1. cache' \in Clients /\ via' = [via EXCEPT ![r] = cache'] /\ pc' = [pc EXCEPT ![r] = "query"]
      BY <1>5, Collections DEF Query, Go
    <2>2. pc[r] = "app" /\ UNCHANGED <<server, response, logged, log, excuse>>
      BY <1>5 DEF Query, life
    <2> QED BY <1>0, <2>1, <2>2, UnloggedMoves
  <1>6. ASSUME Queried(r) PROVE RecordsOK'
    <2>1. via' = [via EXCEPT ![r] = None] /\ pc' = [pc EXCEPT ![r] = "app"]
      BY <1>6 DEF Queried, Go
    <2>2. pc[r] = "query" /\ UNCHANGED <<server, response, logged, log, excuse>>
      BY <1>6 DEF Queried, life
    <2> QED BY <1>0, <2>1, <2>2, UnloggedMoves
  <1>7. ASSUME Raise(r) PROVE RecordsOK'
    BY <1>0, <1>7 DEF Raise, Go, RecordsOK, NoRecordForgotten
  <1>8. ASSUME AnswerError(r) PROVE RecordsOK'
    BY <1>8 DEF AnswerError, Send, Go, RecordsOK, NoRecordForgotten
  <1>9. ASSUME Answer(r) PROVE RecordsOK'
    BY <1>9 DEF Answer, Send, Go, RecordsOK, NoRecordForgotten
  <1>10. ASSUME BodyBreaks(r) \/ HeaderRaises(r) PROVE RecordsOK'
    <2>1. /\ pc[r] = "json" /\ pc' = [pc EXCEPT ![r] = "sent"]
          /\ UNCHANGED <<server, response, logged, log, via, excuse>>
      BY <1>10 DEF BodyBreaks, HeaderRaises, RaisesOut, Go
    <2> QED BY <1>0, <2>1, UnloggedMoves
  <1> QED BY <1>2, <1>3, <1>4, <1>5, <1>6, <1>7, <1>8, <1>9, <1>10 DEF Handle, Receive, Route, Finish

LEMMA RecordsStep ==
    ASSUME Inv, [Next]_vars
    PROVE  RecordsOK'
  <1>1. RecordsOK /\ RequestsOK /\ MongoOK
    BY DEF Inv, TypeOK, RecordsOK, RequestsOK, MongoOK, Statuses, Clients
  <1>2. ASSUME NEW r \in Requests, Preflight(r) \/ \E shape \in Shapes : Arrive(r, shape)
        PROVE  RecordsOK'
    <2>1. /\ pc[r] = "new" /\ UNCHANGED <<server, response, logged, log, via, excuse>>
          /\ \E phase \in {"body", "app", "sent"} : pc' = [pc EXCEPT ![r] = phase]
      BY <1>2 DEF Preflight, Arrive, Enter, Go
    <2>2. /\ log[r] = "none" /\ response[r] \in Responses
          /\ response = [response EXCEPT ![r] = response[r]]
          /\ via \in [Requests -> Clients \cup {None}]
      BY <1>1, <2>1 DEF RecordsOK, NoRecordForgotten
    <2> QED BY <1>1, <2>1, <2>2, UnloggedMoves
  <1>5. CASE UNCHANGED vars
    BY <1>1, <1>5 DEF vars, life, RecordsOK, NoRecordForgotten
  <1>3. ASSUME Drain \/ Shutdown PROVE RecordsOK'
    BY <1>1, <1>3 DEF Drain, Shutdown, life, RecordsOK, NoRecordForgotten
  <1>4. ASSUME Stop PROVE RecordsOK'
    BY <1>1, <1>4 DEF Stop, life, RecordsOK, NoRecordForgotten
  <1> QED BY <1>1, <1>2, <1>3, <1>4, <1>5, RecordKeeps, HandleRecords DEF Next

LEMMA NextInv == Inv /\ [Next]_vars => Inv'
  <1> SUFFICES ASSUME Inv, [Next]_vars PROVE Inv'
    OBVIOUS
  <1>1. MongoOK' /\ RequestsOK' /\ RecordsOK'
    BY MongoStep, RequestsStep, RecordsStep
  <1>2. TypeOK'
    BY <1>1 DEF TypeOK, MongoOK, RequestsOK, RecordsOK, NoRecordForgotten, Statuses, Clients
  <1> QED BY <1>1, <1>2 DEF Inv, MongoOK, RequestsOK, RecordsOK

-----------------------------------------------------------------------------
(* The theorems *)

(* The parts above hold together in every execution. *)
THEOREM Invariant == Spec => []Inv
  BY InitInv, NextInv, PTL DEF Spec

(* The variables have their types; what has a record is marked as logged. *)
THEOREM TypeCorrect == Spec => []TypeOK
  <1>1. Inv => TypeOK
    BY DEF Inv
  <1> QED BY <1>1, Invariant, PTL

(* MongoClientSingleton and its users never have a second client, also when the
   shutdown and a late record meet (mongo.py 15-103). *)
THEOREM SingleClient == Spec => []OneClient
  <1>1. Inv => OneClient
    BY DEF Inv
  <1> QED BY <1>1, Invariant, PTL

(* The limit on bodies holds for every body, declared or not, read ahead or not
   (request_size.py 20-41). *)
THEOREM BodiesAreLimited == Spec => []NoOversizedBody
  <1>1. Inv => NoOversizedBody
    BY DEF Inv
  <1> QED BY <1>1, Invariant, PTL

(* Logging changes no answer but in two ways, which the generic handler answers with
   a 500: the body of a JSON response breaks off, or the id of the request does not
   fit into its header (log_request.py 223-282). *)
THEOREM AnswersAreKept == Spec => []AnswerIsTheApplications
  <1>1. Inv => AnswerIsTheApplications
    BY DEF Inv
  <1> QED BY <1>1, Invariant, PTL

(* A request that the middleware has marked as logged has a record under way or
   stored, or one that was lost for a reason (log_request.py 57-90, 223-282). *)
THEOREM RecordsAreAccountedFor == Spec => []NoRecordForgotten
  <1>1. Inv => NoRecordForgotten
    BY DEF Inv
  <1> QED BY <1>1, Invariant, PTL

-----------------------------------------------------------------------------
(* The order of things *)

(* A record is begun when its request is answered, or is about to be with a 500;
   nothing is under way when the shutdown closes the clients. *)
Orderly ==
    \A r \in Requests :
        /\ log[r] # "none" => pc[r] \in {"errlog", "sent"}
        /\ pc[r] \in {"new", "sent"} \/ server \in {"serving", "draining"}

(* The record of r moves on, once. *)
RecordMovesOn(r) ==
    \/ log'[r] = log[r]
    \/ log[r] = "none" /\ log'[r] = "task"
    \/ log[r] = "task" /\ log'[r] \in {"insert", "lost"}
    \/ log[r] = "insert" /\ log'[r] \in {"stored", "lost"}

AnsweredOnce(r) ==
    /\ pc[r] = "sent" => pc'[r] = "sent" /\ response'[r] = response[r]
    /\ answer'[r] # answer[r] => pc[r] # "sent" /\ pc'[r] = "sent"

(* A request goes one step of its way. *)
LEMMA HandleMoves ==
    ASSUME RequestsOK, RecordsOK, Orderly, NEW r \in Requests, Handle(r)
    PROVE  /\ UNCHANGED server
           /\ pc[r] \notin {"new", "sent"}
           /\ pc'[r] # "new" /\ RecordMovesOn(r) /\ AnsweredOnce(r)
           /\ log'[r] # "none" => pc'[r] \in {"errlog", "sent"}
           /\ \A q \in Requests \ {r} : /\ pc'[q] = pc[q] /\ log'[q] = log[q]
                                        /\ answer'[q] = answer[q] /\ response'[q] = response[q]
  <1>0. /\ pc \in [Requests -> {"new", "body", "app", "query", "json", "plain", "errlog", "sent"}]
        /\ response \in [Requests -> Responses] /\ answer \in [Requests -> Statuses \cup {None}]
        /\ log \in [Requests -> {"none", "task", "insert", "stored", "lost"}]
        /\ log[r] # "none" => pc[r] \in {"errlog", "sent"}
        /\ logged[r] <=> log[r] # "none"
    BY DEF RequestsOK, RecordsOK, NoRecordForgotten, Orderly
  <1> DEFINE Goal == /\ UNCHANGED server
                     /\ pc[r] \notin {"new", "sent"}
                     /\ pc'[r] # "new" /\ RecordMovesOn(r) /\ AnsweredOnce(r)
                     /\ log'[r] # "none" => pc'[r] \in {"errlog", "sent"}
                     /\ \A q \in Requests \ {r} : /\ pc'[q] = pc[q] /\ log'[q] = log[q]
                                                  /\ answer'[q] = answer[q] /\ response'[q] = response[q]
  <1>1. ASSUME NEW resp, Returns(r, resp), pc[r] = "app" PROVE Goal
    BY <1>0, <1>1 DEF Returns, Go, RecordMovesOn, AnsweredOnce
  <1>2. ASSUME BodyCached(r) \/ Query(r) \/ Queried(r) PROVE Goal
    BY <1>0, <1>2 DEF BodyCached, Enter, Query, Queried, Go, life, RecordMovesOn, AnsweredOnce
  <1>3. ASSUME Rejected(r) \/ Respond(r) PROVE Goal
    BY <1>1, <1>3 DEF Rejected, Respond
  <1>4. ASSUME ReadBody(r) PROVE Goal
    <2>1. ASSUME pc[r] = "app", UNCHANGED <<server, pc, response, answer, log>> PROVE Goal
      BY <1>0, <2>1 DEF RecordMovesOn, AnsweredOnce
    <2> QED BY <1>1, <1>4, <2>1 DEF ReadBody
  <1>5. ASSUME Raise(r) PROVE Goal
    BY <1>0, <1>5 DEF Raise, Go, RecordMovesOn, AnsweredOnce
  <1>6. ASSUME AnswerError(r) PROVE Goal
    BY <1>0, <1>6 DEF AnswerError, Send, Go, RecordMovesOn, AnsweredOnce
  <1>7. ASSUME Answer(r) PROVE Goal
    BY <1>0, <1>7 DEF Answer, Send, Go, RecordMovesOn, AnsweredOnce
  <1>8. ASSUME BodyBreaks(r) \/ HeaderRaises(r) PROVE Goal
    BY <1>0, <1>8 DEF BodyBreaks, HeaderRaises, RaisesOut, Go, RecordMovesOn, AnsweredOnce
  <1> QED BY <1>2, <1>3, <1>4, <1>5, <1>6, <1>7, <1>8 DEF Handle, Receive, Route, Finish

LEMMA RecordMoves ==
    ASSUME RecordsOK, NEW r \in Requests, Record(r)
    PROVE  /\ UNCHANGED <<server, pc, life>> /\ log[r] # "none" /\ RecordMovesOn(r)
           /\ \A q \in Requests \ {r} : log'[q] = log[q]
  BY DEF RecordsOK, Record, WriteRecord, Inserted, InsertFails, LosesRecord, RecordMovesOn

LEMMA InvParts == Inv => RecordsOK /\ RequestsOK /\ MongoOK
  BY DEF Inv, TypeOK, RecordsOK, RequestsOK, MongoOK, Statuses, Clients

LEMMA OrderNext ==
    Inv /\ Orderly /\ [Next]_vars =>
        /\ Orderly'
        /\ \A r \in Requests : RecordMovesOn(r) /\ AnsweredOnce(r)
  <1> SUFFICES ASSUME Inv, Orderly, [Next]_vars
               PROVE  Orderly' /\ \A r \in Requests : RecordMovesOn(r) /\ AnsweredOnce(r)
    OBVIOUS
  <1>0. /\ RecordsOK /\ RequestsOK
        /\ pc \in [Requests -> {"new", "body", "app", "query", "json", "plain", "errlog", "sent"}]
        /\ log \in [Requests -> {"none", "task", "insert", "stored", "lost"}]
        /\ response \in [Requests -> Responses] /\ answer \in [Requests -> Statuses \cup {None}]
    BY InvParts DEF RequestsOK, RecordsOK
  <1> DEFINE Goal == Orderly' /\ \A r \in Requests : RecordMovesOn(r) /\ AnsweredOnce(r)
  <1>1. ASSUME NEW r \in Requests, Handle(r) PROVE Goal
    BY <1>0, <1>1, HandleMoves DEF Orderly, RecordMovesOn, AnsweredOnce
  <1>2. ASSUME NEW r \in Requests, Record(r) PROVE Goal
    BY <1>0, <1>2, RecordMoves DEF Orderly, RecordMovesOn, AnsweredOnce, life
  <1>3. ASSUME NEW r \in Requests, (\E shape \in Shapes : Arrive(r, shape)) \/ Preflight(r) PROVE Goal
    BY <1>0, <1>3 DEF Arrive, Enter, Preflight, Go, Orderly, RecordMovesOn, AnsweredOnce
  <1>4. ASSUME Drain \/ Shutdown PROVE Goal
    BY <1>0, <1>4 DEF Drain, Shutdown, life, Orderly, RecordMovesOn, AnsweredOnce
  <1>5. ASSUME Stop PROVE Goal
    BY <1>0, <1>5 DEF Stop, life, Orderly, RecordMovesOn, AnsweredOnce
  <1>6. CASE UNCHANGED vars
    BY <1>6 DEF vars, life, Orderly, RecordMovesOn, AnsweredOnce
  <1> QED BY <1>1, <1>2, <1>3, <1>4, <1>5, <1>6 DEF Next

(* Whatever raises, breaks or stops, a request is answered once, and its record
   goes its way once: what was stored is not stored again or lost later, and an
   error that the middleware has logged is not logged a second time
   (log_request.py 57-90 and 223-282, _log_request_middleware_logged). *)
THEOREM OnceEach == Spec => [][\A r \in Requests : RecordMovesOn(r) /\ AnsweredOnce(r)]_vars
  <1>1. Init => Orderly
    BY DEF Init, Orderly
  <1> QED BY <1>1, OrderNext, Invariant, PTL DEF Spec

(* The client that a route queries, or a record is inserted through, is open; but
   for records that the shutdown has overtaken. *)
ClientsInUseAreOpen ==
    \A r \in Requests :
        /\ pc[r] = "query" => via[r] \in open
        /\ log[r] = "insert" => via[r] \in open \/ server \in {"closing", "stopped"}

LEMMA CollectionsOpen ==
    ASSUME MongoOK, GetCollection
    PROVE  open \subseteq open' /\ cache' \in open'
  <1>1. cache' \in Clients /\ MongoOK'
    BY Collections
  <1>2. cache' \in open'
    BY <1>1, NoneAssumption DEF MongoOK, OneClient, Clients
  <1>3. open \subseteq open'
    BY DEF GetCollection, GetClient, mongo
  <1> QED BY <1>2, <1>3

LEMMA ClientsNext == Inv /\ Orderly /\ ClientsInUseAreOpen /\ [Next]_vars => ClientsInUseAreOpen'
  <1> SUFFICES ASSUME Inv, Orderly, ClientsInUseAreOpen, [Next]_vars PROVE ClientsInUseAreOpen'
    OBVIOUS
  <1>0. /\ MongoOK
        /\ pc \in [Requests -> {"new", "body", "app", "query", "json", "plain", "errlog", "sent"}]
        /\ log \in [Requests -> {"none", "task", "insert", "stored", "lost"}]
        /\ via \in [Requests -> Clients \cup {None}]
    BY InvParts DEF RequestsOK, RecordsOK
  (* Who has no query and no insertion afterwards may have moved. *)
  <1>1. ASSUME NEW r \in Requests, open \subseteq open', UNCHANGED server,
               \A q \in Requests \ {r} : pc'[q] = pc[q] /\ log'[q] = log[q] /\ via'[q] = via[q],
               pc'[r] = "query" \/ log'[r] = "insert" => via'[r] \in open' \/ via'[r] = via[r],
               pc'[r] = "query" /\ via'[r] \notin open' => pc[r] = "query",
               log'[r] = "insert" /\ via'[r] \notin open' => log[r] = "insert"
        PROVE  ClientsInUseAreOpen'
    BY <1>1 DEF ClientsInUseAreOpen
  <1>2. ASSUME NEW r \in Requests, Query(r) PROVE ClientsInUseAreOpen'
    <2>1. cache' \in open' /\ open \subseteq open'
      BY <1>0, <1>2, CollectionsOpen DEF Query
    <2>2. /\ UNCHANGED <<server, log>> /\ via' = [via EXCEPT ![r] = cache']
          /\ pc' = [pc EXCEPT ![r] = "query"] /\ log[r] # "insert"
      BY <1>0, <1>2 DEF Query, Go, Orderly
    <2> QED BY <1>0, <1>1, <2>1, <2>2
  <1>3. ASSUME NEW r \in Requests, Queried(r) \/ Raise(r) PROVE ClientsInUseAreOpen'
    <2>1. /\ UNCHANGED <<server, open>> /\ via' = [via EXCEPT ![r] = None]
          /\ pc'[r] # "query" /\ log'[r] # "insert"
          /\ \A q \in Requests \ {r} : pc'[q] = pc[q] /\ log'[q] = log[q]
      BY <1>0, <1>3 DEF Queried, Raise, Go, Orderly, mongo
    <2> QED BY <1>0, <1>1, <2>1
  <1>4. ASSUME NEW r \in Requests, \/ BodyCached(r) \/ Rejected(r) \/ ReadBody(r) \/ Respond(r)
                                   \/ AnswerError(r) \/ Answer(r) \/ BodyBreaks(r) \/ HeaderRaises(r)
        PROVE  ClientsInUseAreOpen'
    <2>1. /\ UNCHANGED <<server, open, via>>
          /\ pc'[r] = "query" => pc[r] = "query"
          /\ log'[r] = "insert" => log[r] = "insert"
          /\ \A q \in Requests \ {r} : pc'[q] = pc[q] /\ log'[q] = log[q]
      BY <1>0, <1>4 DEF BodyCached, Rejected, ReadBody, Respond, AnswerError, Answer, BodyBreaks,
                        HeaderRaises, RaisesOut, Enter, Returns, Send, Go, mongo
    <2> QED BY <1>1, <2>1
  <1>5. ASSUME NEW r \in Requests, WriteRecord(r) PROVE ClientsInUseAreOpen'
    <2>1. pc[r] # "query" /\ pc' = pc /\ server' = server /\ log[r] = "task"
      BY <1>5 DEF WriteRecord, Orderly
    <2>2. CASE GetCollection /\ via' = [via EXCEPT ![r] = cache'] /\ log' = [log EXCEPT ![r] = "insert"]
      <3>1. cache' \in open' /\ open \subseteq open'
        BY <1>0, <2>2, CollectionsOpen
      <3> QED BY <1>0, <1>1, <2>1, <2>2, <3>1
    <2>3. CASE LosesRecord(r) /\ UNCHANGED <<via, mongo>>
      BY <1>0, <1>1, <2>1, <2>3 DEF LosesRecord, mongo
    <2> QED BY <1>5, <2>2, <2>3 DEF WriteRecord
  <1>6. ASSUME NEW r \in Requests, Inserted(r) \/ InsertFails(r) PROVE ClientsInUseAreOpen'
    <2>1. /\ UNCHANGED <<server, pc, open, via>> /\ log'[r] # "insert"
          /\ \A q \in Requests \ {r} : log'[q] = log[q]
      BY <1>0, <1>6 DEF Inserted, InsertFails, LosesRecord, mongo
    <2> QED BY <1>1, <2>1
  <1>7. ASSUME NEW r \in Requests, (\E shape \in Shapes : Arrive(r, shape)) \/ Preflight(r)
        PROVE  ClientsInUseAreOpen'
    <2>1. /\ UNCHANGED <<server, log, open, via>> /\ pc'[r] # "query"
          /\ \A q \in Requests \ {r} : pc'[q] = pc[q]
      BY <1>0, <1>7 DEF Arrive, Enter, Preflight, Go, mongo
    <2> QED BY <1>1, <2>1
  <1>8. CASE Drain
    BY <1>8 DEF Drain, mongo, ClientsInUseAreOpen
  <1>9. CASE Shutdown
    BY <1>9 DEF Shutdown, ClientsInUseAreOpen
  <1>10. CASE Stop
    <2>1. /\ server' = "stopped" /\ UNCHANGED <<pc, open, via>>
      BY <1>10 DEF Stop, mongo
    <2> QED BY <2>1 DEF ClientsInUseAreOpen
  <1>11. CASE UNCHANGED vars
    BY <1>11 DEF vars, mongo, ClientsInUseAreOpen
  <1> QED BY <1>2, <1>3, <1>4, <1>5, <1>6, <1>7, <1>8, <1>9, <1>10, <1>11
          DEF Next, Handle, Receive, Route, Finish, Record

(* No route ever queries a MongoDB client that was closed under it, and no record
   is written through one before the process goes down: close_mongo comes after
   the last request, and forgets the cached collections with the client
   (lifespan.py 53, mongo.py 15-103). *)
THEOREM QueriesFindClientsOpen == Spec => []ClientsInUseAreOpen
  <1>1. Init => Orderly /\ ClientsInUseAreOpen
    BY DEF Init, Orderly, ClientsInUseAreOpen
  <1> QED BY <1>1, OrderNext, ClientsNext, Invariant, PTL DEF Spec
=============================================================================
