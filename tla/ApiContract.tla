---------------------------- MODULE ApiContract ----------------------------
(***************************************************************************)
(* What the HTTP request API promises each caller: a routed request is     *)
(* answered with the response to that request and nothing else, and a     *)
(* caller receives at most one response per request.  Answering is one    *)
(* atomic step here; RequestApi implements it with concurrent handlers     *)
(* over one shared pair of channels.                                       *)
(***************************************************************************)
CONSTANTS
    Clients,    \* concurrent HTTP requests
    Requests,   \* the requests the router dispatches
    NoReq       \* no request / no response

VARIABLES
    status,     \* each caller: "idle", "pending" or "answered"
    request,    \* the request the caller made
    response    \* the response the caller got

vars == <<status, request, response>>

Init ==
    /\ status = [c \in Clients |-> "idle"]
    /\ request = [c \in Clients |-> NoReq]
    /\ response = [c \in Clients |-> NoReq]

\* A caller makes a request.
Ask(c, r) ==
    /\ status[c] = "idle"
    /\ status' = [status EXCEPT ![c] = "pending"]
    /\ request' = [request EXCEPT ![c] = r]
    /\ UNCHANGED response

\* A request answered at once, with its own response.
AskAnswered(c, r) ==
    /\ status[c] = "idle"
    /\ status' = [status EXCEPT ![c] = "answered"]
    /\ request' = [request EXCEPT ![c] = r]
    /\ response' = [response EXCEPT ![c] = r]

\* The pending request of c is answered with its own response.
Answer(c) ==
    /\ status[c] = "pending"
    /\ status' = [status EXCEPT ![c] = "answered"]
    /\ response' = [response EXCEPT ![c] = request[c]]
    /\ UNCHANGED request

\* The caller has read its response and is free again.
Done(c) ==
    /\ status[c] = "answered"
    /\ status' = [status EXCEPT ![c] = "idle"]
    /\ request' = [request EXCEPT ![c] = NoReq]
    /\ response' = [response EXCEPT ![c] = NoReq]

Next ==
    \E c \in Clients :
        \/ \E r \in Requests : Ask(c, r) \/ AskAnswered(c, r)
        \/ Answer(c)
        \/ Done(c)

Spec == Init /\ [][Next]_vars

=============================================================================
