------------------------------ MODULE Resources ------------------------------
(***************************************************************************)
(* The resource modules of webv3/lib/api (routes, upstreams, services,    *)
(* consumers, ssl, plugin-templates) and webv2/src/lib/api (protos,       *)
(* server-info) over the client's get/post/put/patch/delete and the admin *)
(* API's store of records.                                                 *)
(*                                                                         *)
(* A call is one step: the client's interleavings are the subject of      *)
(* HttpClient. What is modelled is what each module adds around the        *)
(* client: the request (method, path, query, body) it sends and how it    *)
(* reads the value the client resolves with. A record is                  *)
(* [id, body, status, ref]: ref is the id of another kind's record it     *)
(* names (service_id, upstream_id, plugin_config_id) or NoRef.            *)
(*                                                                         *)
(* The admin API itself is not in the repository: how it answers is      *)
(* modelled from spec 4.2 and 6 (list and item envelopes, code 404 for a  *)
(* missing id, one batch DELETE for joined ids).                           *)
(***************************************************************************)
EXTENDS Integers, Sequences, FiniteSets, TLC, Envelope

LOCAL INSTANCE SequencesExt

CONSTANTS
    IdsOf,         \* IdsOf[k]: the ids the admin API assigns to kind k (usernames for consumers)
    Bodies,        \* record contents other than id, status and ref
    Undefined,     \* a missing property / undefined
    TypeErr,       \* a TypeError thrown reading a property of undefined
    NoRef,         \* a record naming no other record
    Names,         \* values a form gives a text filter (name, id, desc, sni, ...)
    Uris,          \* values of the route uri filter
    LabelSeqs,     \* values of a labels filter (sequences of "k:v")
    VersionSeqs,   \* values of the route API_VERSION filter
    Pages          \* values of page / page_size a caller passes

(* The resource modules the API index exports (plugins, dashboard,       *)
(* settings and serverInfo hold no resource collection).                  *)
Kinds == {"routes", "upstreams", "services", "consumers", "ssl", "plugin_configs", "proto"}

Ids == UNION {IdsOf[k] : k \in Kinds}

Records == [id : Ids, body : Bodies, status : {0, 1}, ref : Ids \cup {NoRef}]

Absent == Undefined

VARIABLES
    store,         \* the admin API: store[k][id] is a record or Absent
    got,           \* the last read: the function, what the admin API held, what it resolved with
    listed         \* the last fetchList: its kind, the caller's params, the query it sent

-----------------------------------------------------------------------------
(* client.ts's wrappers: request() with the method fixed and, for post,   *)
(* put and patch, the body as the second argument. A path is the kind and *)
(* the id segment (NoId for the collection).                              *)
NoId == "collection"

get(k, id, params) == [method |-> "GET", kind |-> k, id |-> id, params |-> params, data |-> Undefined]
post(k, data)      == [method |-> "POST", kind |-> k, id |-> NoId, params |-> <<>>, data |-> data]
put(k, id, data)   == [method |-> "PUT", kind |-> k, id |-> id, params |-> <<>>, data |-> data]
patch(k, id, data) == [method |-> "PATCH", kind |-> k, id |-> id, params |-> <<>>, data |-> data]
delete(k, id)      == [method |-> "DELETE", kind |-> k, id |-> id, params |-> <<>>, data |-> Undefined]

(* JavaScript property access: a missing key reads as undefined; reading  *)
(* any key of undefined throws a TypeError.                                *)
Field(v, f) ==
    IF v \in {Undefined, TypeErr} THEN TypeErr
    ELSE IF f \in DOMAIN v THEN v[f] ELSE Undefined

-----------------------------------------------------------------------------
(* buildURL: only the params that are not undefined, null or '' become   *)
(* query parameters, each as String(value). The params typed number are   *)
(* page, page_size and status; String writes them in decimal.             *)
Join(seq) ==
    FoldLeft(LAMBDA acc, i : IF i = 1 THEN seq[1] ELSE acc \o "," \o seq[i],
             "", [i \in 1..Len(seq) |-> i])

NumberKeys == {"page", "page_size", "status"}

String(k, v) == IF k \in NumberKeys THEN ToString(v) ELSE v

IsBlank(k, v) == v = Undefined \/ (k \notin NumberKeys /\ v = "")

BuildQueryTruthy(p) ==
    [k \in {k \in DOMAIN p : ~IsBlank(k, p[k]) /\ ~(k \in NumberKeys /\ p[k] = 0)} |-> String(k, p[k])]

BuildQuery(p) ==
    [k \in {k \in DOMAIN p : ~IsBlank(k, p[k])} |-> String(k, p[k])]

Default(v, d) == IF v = Undefined THEN d ELSE v

(* v || '': any falsy value becomes ''.                                   *)
Or(v, d) == IF v \in {Undefined, ""} THEN d ELSE v

-----------------------------------------------------------------------------
(* The params object each module's fetchList hands to client.get. A      *)
(* caller's params p give every filter, Undefined when not set.           *)
RouteListParams(p) ==
    [name |-> p.name, uri |-> p.uri,
     label |-> Join(Default(p.labels, <<>>) \o Default(p.API_VERSION, <<>>)),
     page |-> Default(p.page, 1), page_size |-> Default(p.page_size, 10),
     status |-> p.status, host |-> p.host, desc |-> p.desc, id |-> p.id]

UpstreamListParams(p) ==
    [id |-> Or(p.id, ""), desc |-> Or(p.desc, ""), name |-> p.name,
     page |-> Default(p.page, 1), page_size |-> Default(p.page_size, 10)]

ServiceListParams(p) ==
    [id |-> Or(p.id, ""), desc |-> Or(p.desc, ""), name |-> p.name,
     page |-> Default(p.page, 1), page_size |-> Default(p.page_size, 10)]

ConsumerListParams(p) ==
    [username |-> p.username, page |-> Default(p.page, 1), page_size |-> Default(p.page_size, 10)]

(* ssl spreads every other param it is given after page and page_size.    *)
SSLListParams(p) ==
    [k \in DOMAIN p |-> CASE k = "page" -> Default(p.page, 1)
                          [] k = "page_size" -> Default(p.page_size, 10)
                          [] OTHER -> p[k]]

(* plugin templates send desc as "search" and the labels joined.          *)
TemplateListParams(p) ==
    [search |-> p.desc, label |-> Join(Default(p.labels, <<>>)),
     page |-> Default(p.page, 1), page_size |-> Default(p.page_size, 10)]

ProtoListParams(p) ==
    [desc |-> p.desc, page |-> Default(p.page, 1), page_size |-> Default(p.page_size, 10)]

ListParamsOf(k, p) ==
    CASE k = "routes"         -> RouteListParams(p)
      [] k = "upstreams"      -> UpstreamListParams(p)
      [] k = "services"       -> ServiceListParams(p)
      [] k = "consumers"      -> ConsumerListParams(p)
      [] k = "ssl"            -> SSLListParams(p)
      [] k = "plugin_configs" -> TemplateListParams(p)
      [] k = "proto"          -> ProtoListParams(p)

-----------------------------------------------------------------------------
(* The admin API. A list is the envelope {rows, total_size}; an item the  *)
(* record, or code 404 for a missing id; a write answers with the record  *)
(* it wrote. A POST takes a free id; PUT replaces, PATCH merges the given  *)
(* fields; PUT /consumers is keyed by the username in the body; a DELETE  *)
(* of several ids removes all of them or, when one is missing, none.      *)
Env(code, data) == [kind |-> "env", code |-> code, data |-> data]

Held(k) == {i \in IdsOf[k] : store[k][i] # Absent}

Holds(k, i) == i \in Held(k)

Rows(k) == {store[k][i] : i \in Held(k)}

Page(rows) == [rows |-> rows, total_size |-> Cardinality(rows)]

(* The nodes of /server_info and the body of /tool/version.                *)
ServerNodes == {[id |-> "node"]}
VersionInfo == [version |-> "v"]

NewId(k) == CHOOSE i \in IdsOf[k] : store[k][i] = Absent

Merge(old, data) == [f \in DOMAIN old |-> IF f \in DOMAIN data THEN data[f] ELSE old[f]]

Stamp(data, i) == [id |-> i, body |-> data.body, status |-> data.status, ref |-> data.ref]

Target(req) ==
    CASE req.method = "POST"   -> NewId(req.kind)
      [] req.method = "DELETE" -> req.id
      [] req.id = NoId         -> req.data.id
      [] OTHER                 -> req.id

Answer(req) ==
    LET k == req.kind  i == Target(req) IN
    CASE req.method = "GET" /\ k = "labels" -> Env(0, Page({r.body : r \in Rows(req.id)}))
      [] req.method = "GET" /\ k = "server_info" -> Env(0, Page(ServerNodes))
      [] req.method = "GET" /\ k = "version" -> Env(0, VersionInfo)
      [] req.method = "GET" /\ req.id = NoId -> Env(0, Page(Rows(k)))
      [] req.method = "GET" -> IF Holds(k, i) THEN Env(0, store[k][i]) ELSE Env(404, Undefined)
      [] req.method = "POST" -> IF Held(k) = IdsOf[k] THEN Env(400, Undefined)
                                ELSE Env(0, Stamp(req.data, i))
      [] req.method = "PUT" /\ req.id = NoId -> Env(0, Stamp(req.data, i))
      [] req.method \in {"PUT", "PATCH"} ->
            IF ~Holds(k, i) THEN Env(404, Undefined)
            ELSE Env(0, IF req.method = "PUT" THEN Stamp(req.data, i)
                                              ELSE Merge(store[k][i], req.data))
      [] req.method = "DELETE" -> IF i \subseteq Held(k) THEN Env(0, Undefined)
                                  ELSE Env(404, Undefined)

(* The store after the admin API handled req.                              *)
Apply(req) ==
    LET k == req.kind  a == Answer(req) IN
    IF req.method = "GET" \/ a.code # 0 THEN store
    ELSE IF req.method = "DELETE"
         THEN [store EXCEPT ![k] = [i \in IdsOf[k] |-> IF i \in req.id THEN Absent ELSE @[i]]]
         ELSE [store EXCEPT ![k][a.data.id] = a.data]

(* What the client settles with: the unwrapped data, or a rejection      *)
(* with the envelope's code.                                               *)
Resolve(req) ==
    LET a == Answer(req) IN
    IF EnvelopeFails(a) THEN [ok |-> FALSE, v |-> a.code] ELSE [ok |-> TRUE, v |-> UnwrapEnvelope(a)]

-----------------------------------------------------------------------------
(* The request each module function sends. a is the id, the ids (a set)  *)
(* or the payload, b the payload of an update.                            *)
routes(op, a, b) ==
    CASE op = "fetchItem"         -> get("routes", a, <<>>)
      [] op = "create"            -> post("routes", a)
      [] op = "update"            -> put("routes", a, b)
      [] op = "remove"            -> delete("routes", a)
      [] op = "updateRouteStatus" -> patch("routes", a, [status |-> b])
      [] op = "fetchLabelList"    -> get("labels", "routes", <<>>)
      [] op = "fetchUpstreamItem" -> get("upstreams", a, <<>>)
      [] op = "fetchServiceList"  -> get("services", NoId, <<>>)
      [] op = "importRoutes"      -> post("routes", a)

upstreams(op, a, b) ==
    CASE op = "fetchItem" -> get("upstreams", a, <<>>)
      [] op = "create"    -> post("upstreams", a)
      [] op = "update"    -> put("upstreams", a, b)
      [] op = "remove"    -> delete("upstreams", {a})

services(op, a, b) ==
    CASE op = "fetchItem" -> get("services", a, <<>>)
      [] op = "create"    -> post("services", a)
      [] op = "update"    -> put("services", a, b)
      [] op = "remove"    -> delete("services", {a})

(* create is a PUT of the collection; the username is the id.             *)
consumers(op, a, b) ==
    CASE op = "fetchItem" -> get("consumers", a, <<>>)
      [] op = "create"    -> put("consumers", NoId, a)
      [] op = "update"    -> put("consumers", a, b)
      [] op = "remove"    -> delete("consumers", {a})

ssl(op, a, b) ==
    CASE op = "fetchItem" -> get("ssl", a, <<>>)
      [] op = "create"    -> post("ssl", a)
      [] op = "update"    -> put("ssl", a, b)
      [] op = "remove"    -> delete("ssl", {a})

(* update is a PATCH: a partial merge.                                     *)
pluginTemplates(op, a, b) ==
    CASE op = "fetchItem"      -> get("plugin_configs", a, <<>>)
      [] op = "create"         -> post("plugin_configs", a)
      [] op = "update"         -> patch("plugin_configs", a, b)
      [] op = "remove"         -> delete("plugin_configs", {a})
      [] op = "fetchLabelList" -> get("labels", "plugin_configs", <<>>)
      [] op = "fetchAll"       -> get("plugin_configs", NoId, <<>>)

protos(op, a, b) ==
    CASE op = "fetchItem" -> get("proto", a, <<>>)
      [] op = "create"    -> post("proto", a)
      [] op = "update"    -> put("proto", a, b)
      [] op = "remove"    -> delete("proto", {a})

serverInfo(op) ==
    CASE op = "fetchInfoList" -> get("server_info", NoId, <<>>)
      [] op = "fetchVersion"  -> get("version", NoId, <<>>)

Request(k, op, a, b) ==
    CASE op = "fetchList"         -> get(k, NoId, BuildQuery(ListParamsOf(k, a)))
      [] k = "routes"             -> routes(op, a, b)
      [] k = "upstreams"          -> upstreams(op, a, b)
      [] k = "services"           -> services(op, a, b)
      [] k = "consumers"          -> consumers(op, a, b)
      [] k = "ssl"                -> ssl(op, a, b)
      [] k = "plugin_configs"     -> pluginTemplates(op, a, b)
      [] k = "proto"              -> protos(op, a, b)
      [] k = "server_info"        -> serverInfo(op)

-----------------------------------------------------------------------------
(* How each function reads what the client resolved with. fetchList takes *)
(* rows and total_size; fetchItem, fetchVersion and the label, template   *)
(* and node lists take response.data first, of a value whose envelope the *)
(* client has already removed.                                             *)
RowsOf(v) == [data |-> Field(v, "rows"), total |-> Field(v, "total_size")]

ItemOf(v) == Field(v, "data")

DataRowsOf(v) == Field(Field(v, "data"), "rows")

ServiceListOf(v) ==
    IF DataRowsOf(v) = TypeErr THEN TypeErr
    ELSE [data |-> DataRowsOf(v), total |-> Field(Field(v, "data"), "total_size")]

UpstreamItemOf(v) == [hosts |-> Field(v, "body"), upstream_id |-> Field(v, "id")]

ReadOf(op, v) ==
    CASE op = "fetchList"                                    -> RowsOf(v)
      [] op \in {"fetchItem", "fetchVersion"}                -> ItemOf(v)
      [] op \in {"fetchLabelList", "fetchAll", "fetchInfoList"} -> DataRowsOf(v)
      [] op = "fetchServiceList"                             -> ServiceListOf(v)
      [] op = "fetchUpstreamItem"                            -> UpstreamItemOf(v)

(* A call rejects with the client's error, or with the TypeError its own *)
(* read throws.                                                            *)
Outcome(op, r) ==
    IF ~r.ok THEN [ok |-> FALSE, v |-> r.v]
    ELSE IF ReadOf(op, r.v) = TypeErr THEN [ok |-> FALSE, v |-> TypeErr]
    ELSE [ok |-> TRUE, v |-> ReadOf(op, r.v)]

(* fetchServerInfo: Promise.all of fetchInfoList and fetchVersion.        *)
fetchServerInfo ==
    LET n == Outcome("fetchInfoList", Resolve(serverInfo("fetchInfoList")))
        d == Outcome("fetchVersion", Resolve(serverInfo("fetchVersion")))
    IN  IF ~n.ok THEN n ELSE IF ~d.ok THEN d
        ELSE [ok |-> TRUE, v |-> [nodes |-> n.v, dashboard |-> d.v]]

-----------------------------------------------------------------------------
(* A caller with no script: any call of any module, in any order.         *)
Reads == {"fetchList", "fetchItem", "fetchLabelList", "fetchUpstreamItem",
          "fetchServiceList", "fetchAll", "fetchInfoList", "fetchVersion"}

(* What the admin API sent back for a read, kept to judge the result.     *)
Served(req) == Answer(req).data

NoList == [k |-> "none", p |-> Undefined, q |-> Undefined]

(* The query a fetchList handed to buildURL, kept to judge it.            *)
Listed(k, op, a, req) ==
    listed' = IF op = "fetchList" THEN [k |-> k, p |-> a, q |-> req.params] ELSE listed

Init ==
    /\ store = [k \in Kinds |-> [i \in IdsOf[k] |-> Absent]]
    /\ got = [op |-> "none", sent |-> Undefined, res |-> [ok |-> TRUE, v |-> Undefined]]
    /\ listed = NoList

Read(k, op, a) ==
    LET req == Request(k, op, a, Undefined) IN
    /\ got' = [op |-> op, sent |-> Served(req), res |-> Outcome(op, Resolve(req))]
    /\ Listed(k, op, a, req)
    /\ UNCHANGED store

ReadServerInfo ==
    /\ got' = [op |-> "fetchServerInfo",
               sent |-> [nodes |-> Page(ServerNodes), dashboard |-> VersionInfo],
               res |-> fetchServerInfo]
    /\ UNCHANGED <<store, listed>>

Write(k, op, a, b) ==
    /\ store' = Apply(Request(k, op, a, b))
    /\ UNCHANGED <<got, listed>>

(* The params a caller can pass to each module's fetchList: the fields of *)
(* its ...ListParams interface (RouteListParams, UpstreamListParams, ...), *)
(* each given alone, and a route's labels with its API versions.         *)
FieldsOf(k) ==
    {"page", "page_size"} \cup
    CASE k = "routes" -> {"name", "uri", "labels", "API_VERSION", "status", "host", "desc", "id"}
      [] k \in {"upstreams", "services"} -> {"id", "desc", "name"}
      [] k = "consumers" -> {"username"}
      [] k = "ssl" -> {"sni", "status"}
      [] k = "plugin_configs" -> {"desc", "labels"}
      [] k = "proto" -> {"desc"}

ValuesOf(f) ==
    CASE f = "uri" -> Uris
      [] f = "labels" -> LabelSeqs
      [] f = "API_VERSION" -> VersionSeqs
      [] f \in {"page", "page_size"} -> Pages
      [] f = "status" -> {Undefined, 0, 1}
      [] OTHER -> Names

NoFilter(k) == [f \in FieldsOf(k) |-> Undefined]

ParamsOf(k) ==
    UNION {{[NoFilter(k) EXCEPT ![f] = v] : v \in ValuesOf(f)} : f \in FieldsOf(k)}
    \cup IF k # "routes" THEN {}
          ELSE {[NoFilter(k) EXCEPT !.labels = l, !.API_VERSION = v] : l \in LabelSeqs, v \in VersionSeqs}

(* The calls a caller without a script makes, bounded by MaxCalls.       *)
Payload(b, s, r) == [body |-> b, status |-> s, ref |-> r]

Payloads == {Payload(b, s, NoRef) : b \in Bodies, s \in {0, 1}}

Next ==
    \/ \E k \in Kinds : \E p \in ParamsOf(k) : Read(k, "fetchList", p)
    \/ \E k \in Kinds : \E i \in IdsOf[k] : Read(k, "fetchItem", i)
    \/ \E op \in {"fetchLabelList", "fetchServiceList"} : Read("routes", op, Undefined)
    \/ \E i \in IdsOf["upstreams"] : Read("routes", "fetchUpstreamItem", i)
    \/ \E op \in {"fetchLabelList", "fetchAll"} : Read("plugin_configs", op, Undefined)
    \/ \E op \in {"fetchInfoList", "fetchVersion"} : Read("server_info", op, Undefined)
    \/ ReadServerInfo
    \/ \E k \in Kinds \ {"consumers"}, d \in Payloads : Write(k, "create", d, Undefined)
    \/ \E i \in IdsOf["consumers"], d \in Payloads : Write("consumers", "create", Stamp(d, i), Undefined)
    \/ \E k \in Kinds : \E i \in IdsOf[k], d \in Payloads : Write(k, "update", i, d)
    \/ \E k \in Kinds \ {"routes"} : \E i \in IdsOf[k] : Write(k, "remove", i, Undefined)
    \/ \E ids \in SUBSET IdsOf["routes"] \ {{}} : Write("routes", "remove", ids, Undefined)
    \/ \E i \in IdsOf["routes"], s \in {0, 1} : Write("routes", "updateRouteStatus", i, s)
    \/ \E d \in Payloads : Write("routes", "importRoutes", d, Undefined)

-----------------------------------------------------------------------------
TypeOK ==
    /\ DOMAIN store = Kinds
    /\ \A k \in Kinds : store[k] \in [IdsOf[k] -> Records \cup {Absent}]
    /\ got.op \in Reads \cup {"none", "fetchServerInfo"}
    /\ got.res.ok \in BOOLEAN

(* Every list call sends what spec 4.2 and 8 promise: page and page_size  *)
(* (1 and 10 when not given), each filter of the entity given a value     *)
(* other than undefined or '' under its query name (status 0, "offline",  *)
(* included; a plugin template's desc as "search") and no other, and the  *)
(* label filters joined by commas into one "label" parameter, a route's   *)
(* labels before its API versions (["a:b"] and ["v1"] give "a:b,v1").     *)
RECURSIVE JoinRef(_)
JoinRef(s) ==
    IF s = <<>> THEN "" ELSE IF Len(s) = 1 THEN Head(s) ELSE Head(s) \o "," \o JoinRef(Tail(s))

QueryName(k, f) == IF k = "plugin_configs" /\ f = "desc" THEN "search" ELSE f

LabelsOf(k, p) ==
    CASE k = "routes" -> Default(p.labels, <<>>) \o Default(p.API_VERSION, <<>>)
      [] k = "plugin_configs" -> Default(p.labels, <<>>)
      [] OTHER -> <<>>

QueryMatchesSpec(k, p, q) ==
    LET given  == {f \in DOMAIN p \ {"page", "page_size", "labels", "API_VERSION"} : ~IsBlank(f, p[f])}
        label  == JoinRef(LabelsOf(k, p))
    IN  /\ DOMAIN q = {QueryName(k, f) : f \in given} \cup {"page", "page_size"}
                          \cup (IF label = "" THEN {} ELSE {"label"})
        /\ \A f \in given : q[QueryName(k, f)] = String(f, p[f])
        /\ q.page = ToString(Default(p.page, 1))
        /\ q.page_size = ToString(Default(p.page_size, 10))
        /\ label # "" => q.label = label

(* Every step that sends a fetchList sends the query stated above.       *)
ListQueriesMatchSpec ==
    [][listed' # NoList => QueryMatchesSpec(listed'.k, listed'.p, listed'.q)]_listed

(* What a read promises (spec 4.2, 6, 8): a list resolves with the rows   *)
(* and total the admin API sent, fetchItem with the record it holds (and  *)
(* rejects for a missing id), the label, template and node lists with the *)
(* rows, fetchVersion with the version body.                               *)
Intended(op, d) ==
    CASE op \in {"fetchList", "fetchServiceList"} -> [data |-> d.rows, total |-> d.total_size]
      [] op \in {"fetchLabelList", "fetchAll", "fetchInfoList"} -> d.rows
      [] op = "fetchUpstreamItem" -> [hosts |-> d.body, upstream_id |-> d.id]
      [] op = "fetchServerInfo" -> [nodes |-> d.nodes.rows, dashboard |-> d.dashboard]
      [] OTHER -> d

ReadsReturnStored ==
    got.op # "none" =>
        IF got.sent = Undefined THEN ~got.res.ok
        ELSE got.res = [ok |-> TRUE, v |-> Intended(got.op, got.sent)]

====
