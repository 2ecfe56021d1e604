----------------------------- MODULE RequestApi -----------------------------
(***************************************************************************)
(* The HTTP request API: the router of src/main/requestroutes.go and the   *)
(* requestapi handlers of src/unnamed/part_001.  net/http runs every       *)
(* request in a goroutine of its own; all handlers share one              *)
(* models.Channel, put their Request on channel.Requests and take the next *)
(* value of channel.Responses.  The request service at the other end (not  *)
(* under src/) takes one request at a time and sends back one response.    *)
(* models.NewChannel (not under src/) makes both channels unbuffered, so   *)
(* each send and each receive is a rendezvous with the request service.    *)
(* A response is modelled as the request it answers.                       *)
(***************************************************************************)
EXTENDS Naturals, FiniteSets

CONSTANTS
    Clients,    \* concurrent HTTP requests (goroutines of net/http)
    Ids,        \* block ids of the /block/{blockId} route
    NoId,       \* model value: a request without an id
    NoReq       \* model value: no request / no response

VARIABLES
    pc,         \* handler goroutine of each client: its position in the handler
    req,        \* the Request the handler built
    resp,       \* the response the handler received
    service     \* request service: [st |-> "recv" | "busy" | "reply", cur]

vars == <<pc, req, resp, service>>

\* The route table of NewRouter; only these handlers are reachable.
Routes == {"Index", "Block", "BestBlock"}

\* Every handler of package requestapi, routed or not.
Handlers == Routes \cup {"BestBlockHeight", "Transaction", "LatestAttestation"}

\* models.Request{Name: route name, Id: mux var}: Block and Transaction
\* carry the id of their path.
HandlerRequests ==
    {[name |-> n, id |-> NoId] : n \in Handlers \ {"Block", "Transaction"}}
    \cup {[name |-> n, id |-> i] : n \in {"Block", "Transaction"}, i \in Ids}

RouteRequests == {r \in HandlerRequests : r.name \in Routes}

Init ==
    /\ pc = [c \in Clients |-> "idle"]
    /\ req = [c \in Clients |-> NoReq]
    /\ resp = [c \in Clients |-> NoReq]
    /\ service = [st |-> "recv", cur |-> NoReq]

\* A request arrives; the router matches its route and makeHandler calls
\* the handler with the shared channel.  Index writes its page and sends
\* nothing.
ServeHTTP(c, r) ==
    /\ pc[c] = "idle"
    /\ req' = [req EXCEPT ![c] = r]
    /\ IF r.name = "Index"
       THEN /\ pc' = [pc EXCEPT ![c] = "done"]
            /\ resp' = [resp EXCEPT ![c] = r]
       ELSE /\ pc' = [pc EXCEPT ![c] = "send"]
            /\ UNCHANGED resp
    /\ UNCHANGED service

\* channel.Requests <- request: completes when the service is receiving.
SendRequest(c) ==
    /\ pc[c] = "send"
    /\ service.st = "recv"
    /\ service' = [st |-> "busy", cur |-> req[c]]
    /\ pc' = [pc EXCEPT ![c] = "recv"]
    /\ UNCHANGED <<req, resp>>

\* Mutant of Serve: the service drops a request and answers nothing.
ServeDropping ==
    /\ service.st = "busy"
    /\ service' \in {[service EXCEPT !.st = "reply"], [st |-> "recv", cur |-> NoReq]}
    /\ UNCHANGED <<pc, req, resp>>

\* The request service computes the answer and blocks sending it.
Serve ==
    /\ service.st = "busy"
    /\ service' = [service EXCEPT !.st = "reply"]
    /\ UNCHANGED <<pc, req, resp>>

\* response := <- channel.Responses: whichever waiting handler is woken
\* takes the response the service is sending.
RecvResponse(c) ==
    /\ pc[c] = "recv"
    /\ service.st = "reply"
    /\ resp' = [resp EXCEPT ![c] = service.cur]
    /\ pc' = [pc EXCEPT ![c] = "done"]
    /\ service' = [st |-> "recv", cur |-> NoReq]
    /\ UNCHANGED req

\* json.NewEncoder(w).Encode(response); a panic on a write error is
\* recovered by net/http.  The goroutine is free for the next request.
Encode(c) ==
    /\ pc[c] = "done"
    /\ pc' = [pc EXCEPT ![c] = "idle"]
    /\ req' = [req EXCEPT ![c] = NoReq]
    /\ resp' = [resp EXCEPT ![c] = NoReq]
    /\ UNCHANGED service

Next ==
    \/ \E c \in Clients, r \in RouteRequests : ServeHTTP(c, r)
    \/ \E c \in Clients : SendRequest(c) \/ RecvResponse(c) \/ Encode(c)
    \/ Serve

Spec == Init /\ [][Next]_vars

---------------------------------------------------------------------------
(* Properties                                                              *)

TypeOK ==
    /\ pc \in [Clients -> {"idle", "send", "recv", "done"}]
    /\ \A c \in Clients : req[c] \in HandlerRequests \cup {NoReq}
    /\ \A c \in Clients : resp[c] \in HandlerRequests \cup {NoReq}
    /\ service.st \in {"recv", "busy", "reply"}

\* The handlers implement the contract of the API: under the mapping below,
\* every step of the router, the handlers and the request service is a
\* step of ApiContract.  A handler past ServeHTTP and before its receive
\* has a pending request; one past its receive has been answered, and
\* must have taken the response to its own request from the shared
\* channel, exactly once, although any waiting handler may take the value
\* the service sends.
Contract == INSTANCE ApiContract
    WITH Requests <- RouteRequests,
         status <- [c \in Clients |->
                      IF pc[c] = "idle" THEN "idle"
                      ELSE IF pc[c] = "done" THEN "answered" ELSE "pending"],
         request <- req,
         response <- resp

ApiRefinement == Contract!Spec

=============================================================================
