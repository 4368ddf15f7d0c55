----------------------------- MODULE HttpClient -----------------------------
(***************************************************************************)
(* The shared HTTP client of webv3/lib/api/client.ts with its three default *)
(* interceptors (auth header, envelope unwrap, 401 handling), the token     *)
(* kept in localStorage under "token", and the two other writers of that   *)
(* token: loginWithPassword and logout of webv2/src/lib/api/auth.ts.        *)
(*                                                                         *)
(* Each element of Reqs is a slot for one call of client.request that may  *)
(* be in flight at the same time as the others (no call is ever aborted).  *)
(* A call is split at its one real suspension point, the fetch: Send reads *)
(* the token and puts the request on the wire, Receive takes the response  *)
(* and runs everything after the fetch up to the return or the throw.      *)
(* The admin API is the environment: it keeps the set of tokens it still   *)
(* accepts and may expire one at any time.                                 *)
(***************************************************************************)
EXTENDS Integers, FiniteSets, Envelope

CONSTANTS
    Reqs,        \* concurrent call slots
    Tokens,      \* tokens the login endpoint can hand out
    NoToken,     \* localStorage.getItem('token') returned null
    Payloads,    \* data values carried by a body
    Statuses,    \* HTTP statuses the admin API answers with
    EnvCodes     \* values of the envelope's "code" field

ASSUME NoToken \notin Tokens
ASSUME 401 \in Statuses /\ 401 \in EnvCodes /\ {0, 200} \subseteq EnvCodes

VARIABLES
    token,       \* localStorage "token"
    valid,       \* tokens the admin API still accepts
    issued,      \* tokens already handed out by the login endpoint
    req,         \* req[r]: the state of call slot r
    redirects    \* redirects[r]: clear-token-and-redirect side effects of call r

vars == <<token, valid, issued, req, redirects>>

(* A response body. "env" is an object with both "code" and "data" keys,   *)
(* "raw" any other JSON value or a text body, "badjson" a body whose       *)
(* content-type says JSON but that response.json() cannot parse.           *)
Bodies ==
    [kind : {"env"}, code : EnvCodes, data : Payloads]
    \cup [kind : {"raw", "badjson"}, code : {0}, data : Payloads]

(* A response: net = TRUE when fetch itself rejected (no response).        *)
Responses ==
    [net : {FALSE}, status : Statuses, body : Bodies]
    \cup [net : {TRUE}, status : {0}, body : {[kind |-> "raw", code |-> 0, data |-> CHOOSE p \in Payloads : TRUE]}]

NoResponse == [net |-> TRUE, status |-> -1, body |-> [kind |-> "none", code |-> 0, data |-> 0]]

(* The settled value of a call: resolved with val, or rejected with an    *)
(* ApiError carrying code.                                                 *)
Results ==
    [ok : {TRUE}, code : {0}, val : Payloads \cup Bodies]
    \cup [ok : {FALSE}, code : Statuses \cup EnvCodes \cup {0}, val : {0}]

NoResult == [ok |-> FALSE, code |-> -1, val |-> 0]

Resolved(v) == [ok |-> TRUE, code |-> 0, val |-> v]
Rejected(c) == [ok |-> FALSE, code |-> c, val |-> 0]

-----------------------------------------------------------------------------
(* The request interceptor: Authorization is set from the stored token,  *)
(* and a variant that is not registered, so no request carries it.       *)
AuthInterceptorUnregistered == NoToken

AuthInterceptor == token

(* applyRequestInterceptors: each registered onRequest in turn; the auth  *)
(* interceptor is the only one the client registers.                      *)
applyRequestInterceptors == AuthInterceptor

(* applyResponseInterceptors: each registered onResponse in turn; the     *)
(* envelope interceptor is the only one, and it unwraps data.             *)
applyResponseInterceptors(b) == UnwrapEnvelope(b)

(* A variant of the error interceptor a plausible edit would produce: it *)
(* redirects without removing the token.                                  *)
OnErrorRedirectOnly(r, code) ==
    IF code = 401
    THEN /\ redirects' = [redirects EXCEPT ![r] = @ + 1]
         /\ UNCHANGED token
    ELSE UNCHANGED <<token, redirects>>

(* The error interceptor: on code 401 remove the token and set            *)
(* window.location.href; every error is logged (not modelled).            *)
OnError(r, code) ==
    IF code = 401
    THEN /\ token' = NoToken
         /\ redirects' = [redirects EXCEPT ![r] = @ + 1]
    ELSE UNCHANGED <<token, redirects>>

(* A variant that resolves with the Response object instead of its body. *)
SettleRawResponse(resp) ==
    CASE resp.net                  -> Rejected(0)
      [] resp.body.kind = "badjson" -> Rejected(0)
      [] ~IsOk(resp.status)         -> Rejected(resp.status)
      [] EnvelopeFails(resp.body)   -> Rejected(resp.body.code)
      [] OTHER                      -> Resolved(resp)

(* What the call settles to given the response, in the order request()    *)
(* decides it: fetch rejected, body parse failed, !response.ok, envelope.  *)
Settle(resp) ==
    CASE resp.net                  -> Rejected(0)
      [] resp.body.kind = "badjson" -> Rejected(0)
      [] ~IsOk(resp.status)         -> Rejected(resp.status)
      [] EnvelopeFails(resp.body)   -> Rejected(resp.body.code)
      [] OTHER                      -> Resolved(applyResponseInterceptors(resp.body))

(* The code the error interceptors are run with, if they are run at all:  *)
(* the ApiError thrown by the response interceptor is rethrown by the     *)
(* catch without running them.                                            *)
InterceptedCode(resp) ==
    CASE resp.net                  -> 0
      [] resp.body.kind = "badjson" -> 0
      [] ~IsOk(resp.status)         -> resp.status
      [] OTHER                      -> -1

-----------------------------------------------------------------------------
(* The admin API: a token it no longer accepts is answered with 401,      *)
(* either as the HTTP status or as the envelope code of a 200 response.   *)
Unauthorized(t) == t = NoToken \/ t \notin valid

Says401(resp) ==
    ~resp.net /\ (resp.status = 401 \/ (resp.body.kind = "env" /\ resp.body.code = 401))

ServerAnswers(r) ==
    {resp \in Responses :
        \/ resp.net
        \/ /\ Unauthorized(req[r].sent)
           /\ resp.status = 401 \/ (IsOk(resp.status) /\ resp.body.kind = "env" /\ resp.body.code = 401)
        \/ ~Unauthorized(req[r].sent) /\ ~Says401(resp)}

Expire(t) ==
    /\ t \in valid
    /\ valid' = valid \ {t}
    /\ UNCHANGED <<token, issued, req, redirects>>

-----------------------------------------------------------------------------
Init ==
    /\ token = NoToken
    /\ valid = {}
    /\ issued = {}
    /\ req = [r \in Reqs |-> [st |-> "idle", sent |-> NoToken,
                              resp |-> NoResponse, res |-> NoResult]]
    /\ redirects = [r \in Reqs |-> 0]

(* loginWithPassword: the login endpoint hands out a new token and the    *)
(* result's token is stored.                                              *)
LoginWithPassword(t) ==
    /\ t \in Tokens \ issued
    /\ issued' = issued \cup {t}
    /\ valid' = valid \cup {t}
    /\ token' = t
    /\ UNCHANGED <<req, redirects>>

(* logout: the stored token is removed; the admin API is not told.        *)
Logout ==
    /\ token' = NoToken
    /\ UNCHANGED <<valid, issued, req, redirects>>

(* request(), up to the fetch: run the request interceptors and send.     *)
(* A slot whose previous call has settled can start a new call.           *)
Send(r) ==
    /\ req[r].st \in {"idle", "done"}
    /\ req' = [req EXCEPT ![r] = [st |-> "sent", sent |-> applyRequestInterceptors,
                                  resp |-> NoResponse, res |-> NoResult]]
    /\ redirects' = [redirects EXCEPT ![r] = 0]
    /\ UNCHANGED <<token, valid, issued>>

(* request(), after the fetch: parse, !response.ok with the error         *)
(* interceptors, the response interceptors, and the catch.                *)
Receive(r) ==
    /\ req[r].st = "sent"
    /\ \E resp \in ServerAnswers(r) :
        /\ req' = [req EXCEPT ![r] = [@ EXCEPT !.st = "done", !.resp = resp,
                                               !.res = Settle(resp)]]
        /\ OnError(r, InterceptedCode(resp))
    /\ UNCHANGED <<valid, issued>>

Next ==
    \/ \E t \in Tokens : LoginWithPassword(t)
    \/ Logout
    \/ \E t \in Tokens : Expire(t)
    \/ \E r \in Reqs : Send(r) \/ Receive(r)

Spec == Init /\ [][Next]_vars

-----------------------------------------------------------------------------
TypeOK ==
    /\ token \in Tokens \cup {NoToken}
    /\ valid \subseteq issued /\ issued \subseteq Tokens
    /\ \A r \in Reqs :
        /\ req[r].st \in {"idle", "sent", "done"}
        /\ req[r].sent \in Tokens \cup {NoToken}
        /\ req[r].st = "done" => req[r].resp \in Responses /\ req[r].res \in Results
    /\ redirects \in [Reqs -> Nat]

(* The 401 handler of the error interceptor: once a call has been answered *)
(* with HTTP status 401 and a body request() could read, the token that   *)
(* call was sent with is no longer in localStorage, so no later request   *)
(* carries it. Several calls, a login and an expiry interleave here.      *)
Http401DropsRejectedToken ==
    \A r \in Reqs :
        /\ req[r].st = "done"
        /\ req[r].sent # NoToken
        /\ req[r].resp.status = 401
        /\ req[r].resp.body.kind # "badjson"
        => token # req[r].sent

(* The same for every way the admin API can say 401: as the HTTP status   *)
(* or as the envelope code of a 2xx response (spec: "any response with    *)
(* envelope/HTTP code 401 clears the persisted token").                   *)
Any401DropsRejectedToken ==
    \A r \in Reqs :
        req[r].st = "done" /\ req[r].sent # NoToken /\ Says401(req[r].resp)
        => token # req[r].sent

(* HttpClient implements the promise of ApiCalls: a slot that is sent is *)
(* pending, a received one settled, and a call has redirected once its   *)
(* error interceptor has set window.location.href. The admin API's       *)
(* tokens (valid, issued) are not part of the promise.                    *)
Abstract == INSTANCE ApiCalls WITH
    call <- [r \in Reqs |->
               [st   |-> CASE req[r].st = "sent" -> "pending"
                          [] req[r].st = "done" -> "settled"
                          [] OTHER              -> "idle",
                sent |-> req[r].sent,
                res  |-> req[r].res]],
    redirected <- [r \in Reqs |-> redirects[r] # 0],
    Rejected401 <- Rejected(401)

(* Every behaviour of the client, with its interleaved calls, logins,     *)
(* logouts and expiries, is one ApiCalls allows: a call carries the token *)
(* stored when it started, settles once, and only a 401 rejection removes *)
(* the token, redirecting once.                                            *)
ImplementsApiCalls == Abstract!Spec

(* A call settling only removes the token it was itself sent with: a late *)
(* 401 for an old token must not log out a session started after it.     *)
SettleClearsOnlyOwnToken ==
    [][\A r \in Reqs :
          req[r].st = "sent" /\ req'[r].st = "done" /\ token # NoToken /\ token' = NoToken
          => req[r].sent = token]_vars

====
