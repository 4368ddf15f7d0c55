------------------------------ MODULE ApiCalls ------------------------------
(***************************************************************************)
(* What the HTTP client promises its callers (spec 4.1 and 7), with no     *)
(* fetch, body, envelope or interceptor in it:                             *)
(*  - a call is sent with the token stored when it starts;                 *)
(*  - it settles once, resolved or rejected with a code;                  *)
(*  - settling changes the stored token only by removing it, only for a   *)
(*    rejection with code 401, and then redirects to the login page once. *)
(* Only login and logout write the token otherwise. HttpClient implements  *)
(* this specification under the mapping it gives with INSTANCE.            *)
(***************************************************************************)
CONSTANTS
    Reqs,          \* concurrent call slots
    Tokens,        \* tokens a login can store
    NoToken,       \* no token stored
    Results,       \* what a call can settle to
    NoResult,      \* not settled yet
    Rejected401    \* the result of a call rejected with code 401

VARIABLES
    token,         \* the stored token
    call,          \* call[r]: [st, sent, res] of slot r
    redirected     \* redirected[r]: call r has sent the page to the login

vars == <<token, call, redirected>>

Init ==
    /\ token = NoToken
    /\ call = [r \in Reqs |-> [st |-> "idle", sent |-> NoToken, res |-> NoResult]]
    /\ redirected = [r \in Reqs |-> FALSE]

Login(t) ==
    /\ token' = t
    /\ UNCHANGED <<call, redirected>>

Logout ==
    /\ token' = NoToken
    /\ UNCHANGED <<call, redirected>>

Begin(r) ==
    /\ call[r].st \in {"idle", "settled"}
    /\ call' = [call EXCEPT ![r] = [st |-> "pending", sent |-> token, res |-> NoResult]]
    /\ redirected' = [redirected EXCEPT ![r] = FALSE]
    /\ UNCHANGED token

End(r) ==
    /\ call[r].st = "pending"
    /\ \E res \in Results :
         /\ call' = [call EXCEPT ![r] = [@ EXCEPT !.st = "settled", !.res = res]]
         /\ \/ UNCHANGED <<token, redirected>>
            \/ /\ res = Rejected401
               /\ token' = NoToken
               /\ redirected' = [redirected EXCEPT ![r] = TRUE]

Next ==
    \/ \E t \in Tokens : Login(t)
    \/ Logout
    \/ \E r \in Reqs : Begin(r) \/ End(r)

Spec == Init /\ [][Next]_vars

====
