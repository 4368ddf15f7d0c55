---------------------------- MODULE RouteListPage ----------------------------
(***************************************************************************)
(* The route list page webv2/src/app/(app)/routes/list/page.tsx: its       *)
(* state (routes, total, loading, updatingId), loadRoutes, Refresh, Search *)
(* (whose loadRoutes runs in a setTimeout), Reset, the pager of            *)
(* components/table/data-table.tsx and the page kept in the URL by         *)
(* hooks/use-pagination.ts, and the publish, offline and delete row        *)
(* actions, against the admin API's routes.                                *)
(*                                                                         *)
(* A callback runs loadRoutes as it was when the callback was made: the   *)
(* page it asks for is the pager's page of that render.                   *)
(*                                                                         *)
(* Every call is split at its await into the step that sends it, the step  *)
(* where the admin API handles it, and the step where its answer reaches   *)
(* the page; answers reach the page in any order. The page's API module    *)
(* "@/lib/api/routes" is not in the repository: its calls are the spec's   *)
(* (4.2) list, partial status update and delete. Failures says whether a  *)
(* call may reject (network or admin API error).                           *)
(***************************************************************************)
EXTENDS Naturals, FiniteSets

CONSTANTS
    Ids,          \* routes of the admin API, in the order it lists them
    PageSize,     \* paginationConfig.pageSize (the ?pageSize= of the URL)
    None,         \* null
    Absent,       \* a route the admin API does not hold
    MaxLoads,     \* bound on the loads the user starts (refresh, search, page)
    MaxActs,      \* bound on row actions
    Failures      \* calls may reject

ASSUME Failures \in BOOLEAN /\ Ids \subseteq Nat /\ PageSize \in Nat \ {0}

Status == {0, 1}        \* STATUS.offline, STATUS.online
Ops == {"publish", "offline", "delete"}

VARIABLES
    store,        \* the admin API: store[id] is a status or Absent
    routes,       \* the rows the table shows: routes[id] is a status or Absent
    total,        \* the total the table shows
    url,          \* the ?page= of the URL
    cur,          \* paginationConfig.current, the pager's page
    timers,       \* onSearch's setTimeout callbacks not yet run
    loading,      \* the table's isLoading
    updatingId,   \* the row whose status buttons are disabled
    loads,        \* loadRoutes calls in flight
    acts,         \* row actions in flight
    nLoads,       \* loads the user started
    nActs         \* row actions so far

vars == <<store, routes, total, url, cur, timers, loading, updatingId, loads, acts, nLoads, nActs>>


(* A call in flight: "sent", then "ok" or "fail" once the admin API has    *)
(* handled it. A load asks for page pg; its answer carries the rows of    *)
(* that page and the total at that moment.                                 *)
Loads == [k : Nat, pg : Nat, st : {"sent", "ok", "fail"}, snap : [Ids -> Status \cup {Absent}], tot : Nat]
Acts  == [k : Nat, pg : Nat, id : Ids, op : Ops, st : {"sent", "ok", "fail"}]

Outcomes == IF Failures THEN {"ok", "fail"} ELSE {"ok"}

NoRows == [id \in Ids |-> Absent]

(* The keys of the calls: the mount's load, a user step's load, the load  *)
(* the page-change effect makes after user step n, and a row action's.    *)
UserKey(n)   == n
EffectKey(n) == MaxLoads + 1 + n
ActKey(j)    == 2 * MaxLoads + 1 + j

Sent(k, pg) == [k |-> k, pg |-> pg, st |-> "sent", snap |-> NoRows, tot |-> 0]

(* The number of routes the admin API holds, and page pg of its list.     *)
Count(s) == Cardinality({i \in Ids : s[i] # Absent})

Rank(s, i) == Cardinality({j \in Ids : j <= i /\ s[j] # Absent})

PageOf(s, pg) ==
    [i \in Ids |-> IF s[i] # Absent /\ Rank(s, i) \in ((pg - 1) * PageSize + 1)..(pg * PageSize)
                   THEN s[i] ELSE Absent]

(* Math.max(1, Math.ceil(total / pageSize)) of the pager.                 *)
TotalPages(t) == IF t = 0 THEN 1 ELSE (t + PageSize - 1) \div PageSize

MaxPage == TotalPages(Cardinality(Ids))

(* loadRoutes up to its await: setLoading(true), then fetchRouteList with *)
(* the filter values and the page of its render.                          *)
StartLoad(k, pg) ==
    /\ loading' = TRUE
    /\ loads' = loads \cup {Sent(k, pg)}

(* savePageList: router.replace with ?page= set.                          *)
savePageList(p) == url' = p

(* The effect of updateRouteStatus / deleteRoutes on the admin API.       *)
Apply(a) ==
    CASE a.op = "publish" -> [store EXCEPT ![a.id] = IF @ = Absent THEN Absent ELSE 1]
      [] a.op = "offline" -> [store EXCEPT ![a.id] = IF @ = Absent THEN Absent ELSE 0]
      [] a.op = "delete"  -> [store EXCEPT ![a.id] = Absent]

-----------------------------------------------------------------------------
(* The page mounts with the URL's ?page=: paginationConfig starts at page *)
(* 1 and the mount effect runs loadRoutes for it.                          *)
Init ==
    /\ store \in [Ids -> Status]
    /\ routes = NoRows
    /\ total = 0
    /\ url \in 1..MaxPage
    /\ cur = 1
    /\ timers = {}
    /\ loading = TRUE
    /\ updatingId = None
    /\ loads = {Sent(0, 1)}
    /\ acts = {}
    /\ nLoads = 0
    /\ nActs = 0

UserStep ==
    /\ nLoads < MaxLoads
    /\ nLoads' = nLoads + 1
    /\ UNCHANGED <<store, routes, total, cur, updatingId, acts, nActs>>

(* The Refresh button: loadRoutes().                                       *)
Refresh ==
    /\ UserStep
    /\ StartLoad(UserKey(nLoads + 1), cur)
    /\ UNCHANGED <<url, timers>>

(* onSearch: savePageList(1), then loadRoutes in a setTimeout, the one of *)
(* this render.                                                            *)
Search ==
    /\ UserStep
    /\ savePageList(1)
    /\ timers' = timers \cup {[k |-> UserKey(nLoads + 1), pg |-> cur]}
    /\ UNCHANGED <<loading, loads>>

(* The setTimeout callback runs loadRoutes.                               *)
TimerFires(t) ==
    /\ timers' = timers \ {t}
    /\ StartLoad(t.k, t.pg)
    /\ UNCHANGED <<store, routes, total, url, cur, updatingId, acts, nLoads, nActs>>

(* Reset: form.reset(), savePageList(1), loadRoutes() of this render.     *)
Reset ==
    /\ UserStep
    /\ savePageList(1)
    /\ StartLoad(UserKey(nLoads + 1), cur)
    /\ UNCHANGED timers

(* The pager's Prev and Next, each disabled at its end:                   *)
(* onPageChange(Math.max(1, page - 1)) and                                 *)
(* onPageChange(Math.min(totalPages, page + 1)), i.e. savePageList.        *)
(* A pager whose Prev is never disabled and does not clamp at page 1.    *)
PrevPageUnclamped ==
    /\ UserStep
    /\ savePageList(cur - 1)
    /\ UNCHANGED <<timers, loading, loads>>

PrevPage ==
    /\ cur > 1
    /\ UserStep
    /\ savePageList(IF cur - 1 < 1 THEN 1 ELSE cur - 1)
    /\ UNCHANGED <<timers, loading, loads>>

NextPage ==
    /\ cur < TotalPages(total)
    /\ UserStep
    /\ savePageList(IF TotalPages(total) < cur + 1 THEN TotalPages(total) ELSE cur + 1)
    /\ UNCHANGED <<timers, loading, loads>>

(* usePagination's effect on a new ?page=: setPaginationConfig; the new   *)
(* current page makes a new loadRoutes, which the page's effect runs.     *)
PaginationEffect ==
    /\ url # cur
    /\ cur' = url
    /\ StartLoad(EffectKey(nLoads), url)
    /\ UNCHANGED <<store, routes, total, url, timers, updatingId, acts, nLoads, nActs>>

(* The admin API answers a load with page pg of the routes it holds now.  *)
ServeLoad(l) ==
    /\ l.st = "sent"
    /\ \E o \in Outcomes :
         loads' = (loads \ {l}) \cup {[l EXCEPT !.st = o, !.snap = PageOf(store, l.pg), !.tot = Count(store)]}
    /\ UNCHANGED <<store, routes, total, url, cur, timers, loading, updatingId, acts, nLoads, nActs>>

(* The rest of loadRoutes: setRoutes, setTotal, setLoading(false); a       *)
(* rejection ends it before any of them (there is no catch or finally).   *)
LoadRejected(l) == UNCHANGED <<routes, total, loading>>

LoadDone(l) ==
    /\ l.st \in {"ok", "fail"}
    /\ loads' = loads \ {l}
    /\ IF l.st = "ok" THEN routes' = l.snap /\ total' = l.tot /\ loading' = FALSE
                      ELSE LoadRejected(l)
    /\ UNCHANGED <<store, url, cur, timers, updatingId, acts, nLoads, nActs>>

(* handlePublish / handleOffline up to the await: a row whose status is   *)
(* offline shows Publish, an online one Offline, disabled while           *)
(* updatingId is that row. handleDelete, once window.confirm is accepted. *)
(* The handler's loadRoutes is the one of the render it was clicked in.   *)
StartAct(id, op) ==
    /\ nActs < MaxActs
    /\ routes[id] # Absent
    /\ op = "publish" => routes[id] = 0 /\ updatingId # id
    /\ op = "offline" => routes[id] = 1 /\ updatingId # id
    /\ nActs' = nActs + 1
    /\ acts' = acts \cup {[k |-> ActKey(nActs + 1), pg |-> cur, id |-> id, op |-> op, st |-> "sent"]}
    /\ updatingId' = IF op = "delete" THEN updatingId ELSE id
    /\ UNCHANGED <<store, routes, total, url, cur, timers, loading, loads, nLoads>>

(* The admin API handles a PATCH of the status or a DELETE.               *)
ServeAct(a) ==
    /\ a.st = "sent"
    /\ \E o \in Outcomes :
         /\ acts' = (acts \ {a}) \cup {[a EXCEPT !.st = o]}
         /\ store' = IF o = "ok" THEN Apply(a) ELSE store
    /\ UNCHANGED <<routes, total, url, cur, timers, loading, updatingId, loads, nLoads, nActs>>

(* The rest of the handler: toast, setUpdatingId(null) for a status       *)
(* change, then loadRoutes(); a rejection ends it before any of them.     *)
ActDone(a) ==
    /\ a.st = "ok"
    /\ updatingId' = IF a.op = "delete" THEN updatingId ELSE None
    /\ StartLoad(a.k, a.pg)

ActSettles(a) ==
    /\ a.st \in {"ok", "fail"}
    /\ acts' = acts \ {a}
    /\ IF a.st = "ok" THEN ActDone(a) ELSE UNCHANGED <<updatingId, loading, loads>>
    /\ UNCHANGED <<store, routes, total, url, cur, timers, nLoads, nActs>>

Next ==
    \/ Refresh \/ Search \/ Reset \/ PrevPage \/ NextPage
    \/ \E t \in timers : TimerFires(t)
    \/ PaginationEffect
    \/ \E l \in loads : ServeLoad(l) \/ LoadDone(l)
    \/ \E id \in Ids, op \in Ops : StartAct(id, op)
    \/ \E a \in acts : ServeAct(a) \/ ActSettles(a)

(* Every call the page made is handled by the admin API and its answer   *)
(* reaches the page (the browser's network timeout ends a hung request); *)
(* a timer fires and an effect runs after its render. The user's steps    *)
(* are not fair.                                                           *)
Fairness ==
    /\ WF_vars(\E l \in loads : ServeLoad(l) \/ LoadDone(l))
    /\ WF_vars(\E a \in acts : ServeAct(a) \/ ActSettles(a))
    /\ WF_vars(\E t \in timers : TimerFires(t))
    /\ WF_vars(PaginationEffect)

Spec == Init /\ [][Next]_vars /\ Fairness

-----------------------------------------------------------------------------
TypeOK ==
    /\ store \in [Ids -> Status \cup {Absent}]
    /\ routes \in [Ids -> Status \cup {Absent}]
    /\ total \in 0..Cardinality(Ids)
    /\ url \in 1..MaxPage /\ cur \in 1..MaxPage
    /\ timers \subseteq [k : Nat, pg : 1..MaxPage]
    /\ loading \in BOOLEAN
    /\ updatingId \in Ids \cup {None}
    /\ loads \subseteq Loads /\ acts \subseteq Acts
    /\ nLoads \in 0..MaxLoads /\ nActs \in 0..MaxActs

(* The table's spinner and a row's disabled buttons always come back:     *)
(* every load and every status change ends by clearing what it set.       *)
SpinnersClear ==
    /\ loading ~> ~loading
    /\ updatingId # None ~> updatingId = None

(* Once no call, timer or effect is pending, the table shows the page of  *)
(* the admin API's routes that the pager and the URL name, and its total  *)
(* (spec 5: a late response is discarded without visible harm).          *)
TableFreshWhenIdle ==
    loads = {} /\ acts = {} /\ timers = {} /\ url = cur
    => routes = PageOf(store, cur) /\ total = Count(store)

(* Once no call is pending, the pager's page is one of the pages it       *)
(* counts: "Page p of n" has p <= n, after a delete too.                  *)
PageWithinTotal ==
    loads = {} /\ acts = {} /\ timers = {} /\ url = cur
    => cur <= TotalPages(total)

(* While a row's status change is in flight, that row's buttons are       *)
(* disabled: updatingId names it.                                         *)
UpdatingRowDisabled ==
    \A a \in acts : a.op # "delete" /\ a.st = "sent" => updatingId = a.id

====
