------------------------------ MODULE Examples ------------------------------
(***************************************************************************)
(* The usage examples of webv3/lib/api/examples.ts run against the        *)
(* resource modules, while another caller (another tab, another admin)    *)
(* makes calls of its own.                                                 *)
(*                                                                         *)
(* Each exported example is an async function: a sequence of awaited      *)
(* calls, stopped by the first rejection it does not catch. A step names  *)
(* the module, the function and its argument; a create that names a       *)
(* record made earlier in the same example (service_id: service.id!)      *)
(* takes the id from what that earlier call resolved with. The literal    *)
(* payloads are one abstract body; the literal ids ('route-id',           *)
(* 'upstream-id', 'non-existent-id') are ids the admin API may or may not *)
(* hold. Calls that are not to a resource module (plugins, checkUniqueName,*)
(* debugRoute, verifyKeyPair) are "other": they resolve with a truthy or  *)
(* a falsy value. settingsExamples only calls settings.ts, the subject of *)
(* the Settings module, and is left out.                                   *)
(***************************************************************************)
EXTENDS Resources

CONSTANTS
    Literal,       \* Literal[k]: the id of kind k an example writes literally
    Users,         \* the three usernames of consumerExamples
    MaxCalls,      \* bound on the other caller's calls
    Failures       \* any call may fail (network, validation)

ASSUME Failures \in BOOLEAN /\ Len(Users) = 3

VARIABLES
    script,        \* the example being run
    pc,            \* its next step
    env,           \* env[j]: what its step j settled with
    status,        \* "running", "resolved" or "rejected"
    calls          \* calls the other caller has made

uvars == <<store, got, listed, script, pc, env, status, calls>>

Body == CHOOSE b \in Bodies : TRUE

Step(k, op, a, b) == [k |-> k, op |-> op, a |-> a, b |-> b, field |-> "none", from |-> 0, caught |-> FALSE, when |-> 0]

ListCall(k) == Step(k, "fetchList", CHOOSE p \in ParamsOf(k) : TRUE, Undefined)
Create(k)   == Step(k, "create", Payload(Body, 1, NoRef), Undefined)
Other       == Step("other", "call", Undefined, Undefined)

(* A create whose field names the record step j created.                  *)
CreateNaming(k, field, j) == [Create(k) EXCEPT !.field = field, !.from = j]

RefKind == [service_id |-> "services", upstream_id |-> "upstreams", plugin_config_id |-> "plugin_configs"]

-----------------------------------------------------------------------------
routeExamples ==
    << ListCall("routes"), Create("routes"), Create("routes"),
       Step("routes", "updateRouteStatus", Literal["routes"], 1),
       Step("routes", "updateRouteStatus", Literal["routes"], 0),
       Other, Other >>

upstreamExamples ==
    << Create("upstreams"), Create("upstreams"),
       Step("upstreams", "update", Literal["upstreams"], Payload(Body, 1, NoRef)) >>

serviceExamples == << Create("services"), CreateNaming("routes", "service_id", 1) >>

consumerExamples ==
    [j \in 1..3 |-> Step("consumers", "create", Stamp(Payload(Body, 1, NoRef), Users[j]), Undefined)]

(* ssl.create runs only when verifyKeyPair resolved with a truthy value.  *)
sslExamples == << Other, [Create("ssl") EXCEPT !.when = 1], ListCall("ssl") >>

pluginExamples == << Other, Other, Other, Other, Create("routes") >>

pluginTemplateExamples ==
    << Create("plugin_configs"), CreateNaming("routes", "plugin_config_id", 1) >>

(* Both calls are in a try/catch.                                         *)
errorHandlingExamples ==
    << [Step("routes", "fetchItem", Literal["routes"], Undefined) EXCEPT !.caught = TRUE],
       [Create("routes") EXCEPT !.caught = TRUE] >>

(* The Promise.all of three lists (reads, in any order) then the stack:   *)
(* an upstream, a service on it, a route on the service, and an import.   *)
advancedExamplesSwapped ==
    << ListCall("routes"), ListCall("upstreams"), ListCall("services"),
       Create("upstreams"), CreateNaming("services", "upstream_id", 4),
       CreateNaming("routes", "service_id", 4),
       Step("routes", "importRoutes", Payload(Body, 1, NoRef), Undefined) >>

advancedExamples ==
    << ListCall("routes"), ListCall("upstreams"), ListCall("services"),
       Create("upstreams"), CreateNaming("services", "upstream_id", 4),
       CreateNaming("routes", "service_id", 5),
       Step("routes", "importRoutes", Payload(Body, 1, NoRef), Undefined) >>

Scripts ==
    [routeExamples |-> routeExamples, upstreamExamples |-> upstreamExamples,
     serviceExamples |-> serviceExamples, consumerExamples |-> consumerExamples,
     sslExamples |-> sslExamples, pluginExamples |-> pluginExamples,
     pluginTemplateExamples |-> pluginTemplateExamples,
     errorHandlingExamples |-> errorHandlingExamples, advancedExamples |-> advancedExamples]

-----------------------------------------------------------------------------
Truthy(o) == o.ok /\ o.v = TRUE

Skipped(st) == st.when # 0 /\ ~Truthy(env[st.when])

(* The variant names the whole record (service_id: service).            *)
FillWhole(st) == IF st.from = 0 THEN st.a ELSE [st.a EXCEPT !.ref = env[st.from].v]

(* The payload with the id read off what step from resolved with.         *)
Fill(st) == IF st.from = 0 THEN st.a ELSE [st.a EXCEPT !.ref = Field(env[st.from].v, "id")]

(* The await returns: a rejection the example does not catch ends it.     *)
Settle(st, o) ==
    /\ env' = Append(env, o)
    /\ IF ~o.ok /\ ~st.caught
       THEN status' = "rejected" /\ pc' = pc
       ELSE /\ pc' = pc + 1
            /\ status' = IF pc = Len(Scripts[script]) THEN "resolved" ELSE "running"
    /\ UNCHANGED <<got, script, calls>>

UsageInit ==
    /\ Init
    /\ script \in DOMAIN Scripts
    /\ pc = 1 /\ env = <<>> /\ status = "running"
    /\ calls = 0

(* The example's next call, handled by the admin API and settled.         *)
ScriptStep ==
    LET st == Scripts[script][pc] IN
    /\ status = "running"
    /\ IF Skipped(st) THEN Settle(st, [ok |-> TRUE, v |-> Undefined]) /\ UNCHANGED <<store, listed>>
       ELSE IF st.k = "other" THEN \E v \in BOOLEAN : Settle(st, [ok |-> TRUE, v |-> v]) /\ UNCHANGED <<store, listed>>
       ELSE LET req == Request(st.k, st.op, Fill(st), st.b) IN
            /\ store' = Apply(req)
            /\ Listed(st.k, st.op, st.a, req)
            /\ Settle(st, IF st.op \in Reads THEN Outcome(st.op, Resolve(req)) ELSE Resolve(req))

(* The call fails before the admin API handles it.                        *)
ScriptFails ==
    LET st == Scripts[script][pc] IN
    /\ Failures /\ status = "running" /\ ~Skipped(st)
    /\ Settle(st, [ok |-> FALSE, v |-> 0])
    /\ UNCHANGED <<store, listed>>

(* The other caller: any call of any module.                              *)
Caller ==
    /\ calls < MaxCalls
    /\ Next
    /\ calls' = calls + 1
    /\ UNCHANGED <<script, pc, env, status>>

UsageNext == ScriptStep \/ ScriptFails \/ Caller

UsageSpec == UsageInit /\ [][UsageNext]_uvars

-----------------------------------------------------------------------------
UsageTypeOK ==
    /\ TypeOK
    /\ script \in DOMAIN Scripts
    /\ pc \in 1..Len(Scripts[script]) + 1
    /\ status \in {"running", "resolved", "rejected"}
    /\ calls \in 0..MaxCalls

(* A record an example creates names, in its service_id, upstream_id or  *)
(* plugin_config_id, a record of that kind which the same example created *)
(* before it: the id is read off the value the earlier create resolved   *)
(* with (the record, its envelope removed by the client), and is never   *)
(* another kind's id, undefined, or a record the other caller made.       *)
RefsNameOwnCreations ==
    \A j \in DOMAIN env :
        LET st == Scripts[script][j] IN
        st.field # "none" /\ env[j].ok =>
            \E i \in 1..(j - 1) :
                /\ Scripts[script][i].k = RefKind[st.field]
                /\ Scripts[script][i].op = "create"
                /\ env[i].ok
                /\ env[j].v.ref = env[i].v.id

(* A create adds a record and never replaces one the admin API holds (spec *)
(* 2: an id is assigned by the server and immutable). consumers.create is *)
(* a PUT of the collection keyed by the username in its body.             *)
CreateKeepsExisting ==
    [][status = "running" /\ pc' = pc + 1 /\ Scripts[script][pc].op = "create" =>
         \A k \in Kinds : \A i \in IdsOf[k] :
             store[k][i] # Absent => store'[k][i] = store[k][i]]_uvars

====
