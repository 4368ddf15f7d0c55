----------------------------- MODULE PluginCache -----------------------------
(***************************************************************************)
(* The plugin module webv2/src/lib/api/plugins.ts: the module-level       *)
(* pluginCache of the plugin list and of the plugin schemas keyed by       *)
(* (schemaType, name), and the calls that fill and clear it: fetchList,    *)
(* fetchSchema, clearCache and fetchAllSchemas.                             *)
(*                                                                         *)
(* A call is split at its one await (client.get): Start checks the cache   *)
(* and sends, Done takes the answer and runs the rest of the function.     *)
(* The module imports its client from './client', which is not in the     *)
(* repository. ClientUnwraps says whether that client resolves with the    *)
(* envelope's data, as the webv3 client does and the spec describes        *)
(* (TRUE), or with the envelope itself, as the module's ApiResponse<...>   *)
(* type arguments assume (FALSE).                                          *)
(***************************************************************************)
EXTENDS Naturals, FiniteSets

CONSTANTS
    Names,          \* plugin names the admin API knows
    EmptyProps,     \* plugins whose schema comes with properties: []
    Types,          \* schema types ('route', 'consumer', 'global_rule')
    Callers,        \* slots for fetchSchema calls made by other code
    MaxClears,      \* bound on clearCache calls
    ClientUnwraps,  \* the client resolves with the envelope's data
    Undefined       \* null / undefined / a missing key

ASSUME EmptyProps \subseteq Names /\ ClientUnwraps \in BOOLEAN /\ MaxClears \in Nat

VARIABLES
    list,       \* pluginCache.list
    lcall,      \* a fetchList(skipCache) call made by other code
    schemas,    \* pluginCache.schemas[type][name]
    call,       \* call[c]: a fetchSchema call of slot c
    all,        \* the one fetchAllSchemas call and its fetchList
    sub,        \* sub[n]: the fetchSchema call fetchAllSchemas made for n
    clears,     \* clearCache calls so far
    filledAt,   \* filledAt[type][name]: clears when the filling request was sent
    listAt,     \* the same for pluginCache.list
    resolved    \* resolved[type][name]: a fetchSchema for the key resolved since the last clear

vars == <<list, lcall, schemas, call, all, sub, clears, filledAt, listAt, resolved>>

(* The schema the admin API serves for a plugin; "props" stands for the   *)
(* properties field: an object, or the empty array the code strips.       *)
Schema(n) == [name |-> n, props |-> IF n \in EmptyProps THEN "emptyArray" ELSE "object"]

(* The body of a successful answer, and what the client resolves with.    *)
Ok(v) == [code |-> 0, data |-> v]

Resolve(env) == IF ClientUnwraps THEN env.data ELSE env

(* The plugin array /plugins?all=true answers with.                       *)
PluginList == [plugins |-> Names]

(* response.data! : property access on what the client resolved with.     *)
DataOf(v) == IF "data" \in DOMAIN v THEN v.data ELSE Undefined

-----------------------------------------------------------------------------
(* The fix for the empty properties array: drop the key. The variant      *)
(* caches the schema as the server sent it.                               *)
NormalizeKeepEmpty(s) == s

Normalize(s) == IF s.props = "emptyArray" THEN [s EXCEPT !.props = "absent"] ELSE s

(* A call slot before, during and after a call.                           *)
Idle == [st |-> "idle", t |-> Undefined, n |-> Undefined, at |-> 0, val |-> Undefined]

(* fetchSchema(name, type), up to the await: a cached schema is returned, *)
(* otherwise the request is sent.                                         *)
SchemaStart(t, n) ==
    IF schemas[t][n] # Undefined
    THEN [st |-> "ok", t |-> t, n |-> n, at |-> clears, val |-> schemas[t][n]]
    ELSE [st |-> "await", t |-> t, n |-> n, at |-> clears, val |-> Undefined]

(* The end of fetchSchema for answer ans ("ok" or "fail"): the call's new *)
(* record. The cache and the ghost variables are written by SchemaStore.  *)
SchemaEnd(r, ans) ==
    LET d == DataOf(Resolve(Ok(Schema(r.n))))
    IN  CASE ans = "fail"    -> [r EXCEPT !.st = "rejected"]
          [] d = Undefined   -> [r EXCEPT !.st = "typeError"]   \* schema.properties of undefined
          [] OTHER           -> [r EXCEPT !.st = "ok", !.val = Normalize(d)]

(* The variant that never writes the cache.                                *)
SchemaStoreNone(r) == UNCHANGED <<schemas, filledAt>>

(* pluginCache.schemas[type][name] = schema, for a call that resolved.     *)
SchemaStore(r) ==
    IF r.st = "ok"
    THEN /\ schemas' = [schemas EXCEPT ![r.t][r.n] = r.val]
         /\ filledAt' = [filledAt EXCEPT ![r.t][r.n] = r.at]
    ELSE UNCHANGED <<schemas, filledAt>>

(* Ghost: the key of a call that resolved has been served since the clear. *)
NoteResolved(r) ==
    resolved' = IF r.st = "ok" THEN [resolved EXCEPT ![r.t][r.n] = TRUE] ELSE resolved

-----------------------------------------------------------------------------
Init ==
    /\ list = Undefined
    /\ schemas = [t \in Types |-> [n \in Names |-> Undefined]]
    /\ call = [c \in Callers |-> Idle]
    /\ all = [st |-> "idle", t |-> Undefined, plugins |-> {}, val |-> {}, at |-> 0]
    /\ lcall = [st |-> "idle", at |-> 0]
    /\ listAt = 0
    /\ sub = [n \in Names |-> Idle]
    /\ clears = 0
    /\ filledAt = [t \in Types |-> [n \in Names |-> 0]]
    /\ resolved = [t \in Types |-> [n \in Names |-> FALSE]]

(* Another caller calls fetchSchema(n, t).                                  *)
FetchSchema(c, t, n) ==
    /\ call[c].st \notin {"await"}
    /\ call' = [call EXCEPT ![c] = SchemaStart(t, n)]
    /\ UNCHANGED <<list, lcall, schemas, all, sub, clears, filledAt, listAt, resolved>>

(* Its client.get settles.                                                  *)
FetchSchemaDone(c) ==
    /\ call[c].st = "await"
    /\ \E ans \in {"ok", "fail"} :
         LET r == SchemaEnd(call[c], ans) IN
         /\ call' = [call EXCEPT ![c] = r]
         /\ SchemaStore(r)
         /\ NoteResolved(r)
    /\ UNCHANGED <<list, lcall, all, sub, clears, listAt>>

(* fetchList(skipCache), up to the await: a cached list is returned       *)
(* unless the cache is skipped.                                           *)
FetchList(skip) ==
    /\ lcall.st # "await"
    /\ lcall' = [st |-> IF list # Undefined /\ ~skip THEN "ok" ELSE "await", at |-> clears]
    /\ UNCHANGED <<list, schemas, call, all, sub, clears, filledAt, listAt, resolved>>

(* Its client.get settles: pluginCache.list = response.data!.            *)
FetchListDone ==
    /\ lcall.st = "await"
    /\ \E ans \in {"ok", "fail"} :
         IF ans = "fail"
         THEN lcall' = [lcall EXCEPT !.st = "rejected"] /\ UNCHANGED <<list, listAt>>
         ELSE /\ list' = DataOf(Resolve(Ok(PluginList)))
              /\ listAt' = lcall.at
              /\ lcall' = [lcall EXCEPT !.st = "ok"]
    /\ UNCHANGED <<schemas, call, all, sub, clears, filledAt, resolved>>

(* clearCache: the list and every schema are dropped.                       *)
ClearCache ==
    /\ clears < MaxClears
    /\ clears' = clears + 1
    /\ list' = Undefined
    /\ schemas' = [t \in Types |-> [n \in Names |-> Undefined]]
    /\ resolved' = [t \in Types |-> [n \in Names |-> FALSE]]
    /\ UNCHANGED <<lcall, call, all, sub, filledAt, listAt>>

-----------------------------------------------------------------------------
(* fetchAllSchemas(t), up to its await of fetchList(): a cached list is   *)
(* used at once (the await of a resolved promise lets no event in), and   *)
(* then every plugin's fetchSchema starts in the same task.               *)
Spawn(t, plugins) ==
    /\ sub' = [n \in Names |-> IF n \in plugins THEN SchemaStart(t, n) ELSE Idle]
    /\ all' = [st |-> "schemas", t |-> t, plugins |-> plugins,
               val |-> {n \in plugins : schemas[t][n] # Undefined}, at |-> clears]

FetchAllSchemas(t) ==
    /\ all.st \notin {"list", "schemas"}
    /\ IF list # Undefined
       THEN Spawn(t, list.plugins)
       ELSE /\ all' = [st |-> "list", t |-> t, plugins |-> {}, val |-> {}, at |-> clears]
            /\ UNCHANGED sub
    /\ UNCHANGED <<list, lcall, schemas, call, clears, filledAt, listAt, resolved>>

(* fetchList() settles: pluginCache.list = response.data!; then           *)
(* plugins.map, a TypeError when that is undefined.                        *)
AllListDone ==
    /\ all.st = "list"
    /\ \E ans \in {"ok", "fail"} :
         IF ans = "fail"
         THEN /\ all' = [all EXCEPT !.st = "rejected"]
              /\ UNCHANGED <<list, sub, listAt>>
         ELSE LET plugins == DataOf(Resolve(Ok(PluginList))) IN
              /\ list' = plugins
              /\ listAt' = all.at
              /\ IF plugins = Undefined
                 THEN all' = [all EXCEPT !.st = "typeError"] /\ UNCHANGED sub
                 ELSE Spawn(all.t, plugins.plugins)
    /\ UNCHANGED <<lcall, schemas, call, clears, filledAt, resolved>>

(* One plugin's fetchSchema settles; the try/catch around it drops a      *)
(* failure, a resolved schema is put in the result.                       *)
SubDone(n) ==
    /\ all.st = "schemas" /\ sub[n].st = "await"
    /\ \E ans \in {"ok", "fail"} :
         LET r == SchemaEnd(sub[n], ans) IN
         /\ sub' = [sub EXCEPT ![n] = r]
         /\ SchemaStore(r)
         /\ NoteResolved(r)
         /\ all' = IF r.st = "ok" THEN [all EXCEPT !.val = @ \cup {n}] ELSE all
    /\ UNCHANGED <<list, lcall, call, clears, listAt>>

(* Promise.all settles once every fetchSchema has: fetchAllSchemas        *)
(* resolves with the collected schemas.                                   *)
AllDone ==
    /\ all.st = "schemas"
    /\ \A n \in all.plugins : sub[n].st # "await"
    /\ all' = [all EXCEPT !.st = "done"]
    /\ UNCHANGED <<list, lcall, schemas, call, sub, clears, filledAt, listAt, resolved>>

Next ==
    \/ \E c \in Callers, t \in Types, n \in Names : FetchSchema(c, t, n)
    \/ \E c \in Callers : FetchSchemaDone(c)
    \/ \E skip \in BOOLEAN : FetchList(skip)
    \/ FetchListDone
    \/ ClearCache
    \/ \E t \in Types : FetchAllSchemas(t)
    \/ AllListDone
    \/ \E n \in Names : SubDone(n)
    \/ AllDone

Spec == Init /\ [][Next]_vars

-----------------------------------------------------------------------------
Stages == {"idle", "await", "ok", "rejected", "typeError"}

TypeOK ==
    /\ list \in {Undefined, PluginList}
    /\ \A t \in Types, n \in Names :
         schemas[t][n] \in {Undefined} \cup [name : {n}, props : {"object", "absent"}]
    /\ \A c \in Callers : call[c].st \in Stages
    /\ \A n \in Names : sub[n].st \in Stages
    /\ all.st \in {"idle", "list", "schemas", "done", "rejected", "typeError"}
    /\ lcall.st \in Stages \ {"typeError"}
    /\ clears \in 0..MaxClears

(* Spec scenario: a second fetchSchema of a (schemaType, name) that was   *)
(* already served, with no clearCache in between, does not reach the      *)
(* network; whichever caller, fetchAllSchemas or another, served it.      *)
RepeatFetchHitsCache ==
    [][/\ \A c \in Callers :
          call[c].st # "await" /\ call'[c].st = "await"
          => ~resolved[call'[c].t][call'[c].n]
      /\ \A n \in Names :
          sub[n].st # "await" /\ sub'[n].st = "await"
          => ~resolved[sub'[n].t][n]]_vars

(* After clearCache, the cache holds only what a request sent after it    *)
(* returned (spec 4.2: the cache is invalidated by an explicit clear).    *)
ClearedCacheHoldsNoOlderFill ==
    /\ list # Undefined => listAt = clears
    /\ \A t \in Types, n \in Names : schemas[t][n] # Undefined => filledAt[t][n] = clears

(* A fetchSchema whose request succeeded resolves with the schema.        *)
SchemaFetchResolves ==
    /\ \A c \in Callers : call[c].st # "typeError"
    /\ \A n \in Names : sub[n].st # "typeError"
    /\ all.st # "typeError"

====
