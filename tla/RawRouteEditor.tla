--------------------------- MODULE RawRouteEditor ---------------------------
(***************************************************************************)
(* The raw JSON route editor webv2/src/app/(app)/routes/_components/       *)
(* raw-route-editor.tsx, used by the edit page (mode "edit"), the          *)
(* duplicate page ("duplicate", both with routeId) and create ("create"). *)
(*                                                                         *)
(* The textarea's text is abstracted to what JSON.parse makes of it: the  *)
(* initial "{\n  \n}" (an empty object), a route definition with or       *)
(* without an id, or text that does not parse. The mount effect's         *)
(* fetchRoute and the save's apiRequest are split at their awaits; the    *)
(* modules they come from ("@/lib/api/routes", "@/lib/api/client") are    *)
(* not in the repository and are modelled from spec 4.1/4.2: a GET of a  *)
(* missing route and a failing request reject.                            *)
(***************************************************************************)
EXTENDS Naturals

CONSTANTS
    Ids,          \* routes of the admin API; the editor opens RouteId
    RouteId,      \* the routeId prop of the edit and duplicate pages
    Vals,         \* route definitions (everything but the id)
    NoId,         \* a payload without an id
    Absent,       \* a route the admin API does not hold
    MaxEdits,     \* bound on the user's edits
    MaxSaves,     \* bound on Save clicks that reach the network
    Failures      \* a save may reject

ASSUME RouteId \in Ids /\ Failures \in BOOLEAN

Modes == {"create", "edit", "duplicate"}

(* A route's content: a definition of Vals, marked when it is a copy.   *)
Content(v, copy) == [v |-> v, copy |-> copy]
Empty == Content("empty", FALSE)

(* What JSON.parse makes of the text.                                      *)
Payload(id, c) == [kind |-> "object", id |-> id, c |-> c]
Template == Payload(NoId, Empty)
Invalid  == [kind |-> "invalid", id |-> NoId, c |-> Empty]

Texts == {Template, Invalid} \cup {Payload(id, Content(v, FALSE)) : id \in Ids \cup {NoId}, v \in Vals}

VARIABLES
    mode,         \* the page's mode prop
    store,        \* the admin API: store[id] is a content or Absent
    text,         \* jsonValue
    fetch,        \* the mount effect's fetchRoute: none, sent, ok/fail, done
    loading,      \* loading: the Save button is disabled
    save,         \* the request of handleSubmit in flight
    page,         \* "editor", or "list" after router.replace
    edits,        \* the user's edits so far
    saves,        \* saves sent so far
    typed         \* ghost: the user has changed the text

vars == <<mode, store, text, fetch, loading, save, page, edits, saves, typed>>

NoSave == [st |-> "idle", method |-> "none", body |-> Template]

Fetch(st, c) == [st |-> st, c |-> c]

(* The text the page shows for a loaded route: a duplicate drops the id   *)
(* and adds "-copy" to the name. The variant sets the route object itself *)
(* instead of JSON.stringify(payload).                                    *)
LoadedRaw(c) == c

Loaded(c) ==
    IF mode = "duplicate" THEN Payload(NoId, [c EXCEPT !.copy = TRUE]) ELSE Payload(RouteId, c)

-----------------------------------------------------------------------------
(* The page mounts: the effect runs fetchRoute(routeId) when there is a   *)
(* routeId, and the text is the "{\n  \n}" template.                      *)
Init ==
    /\ mode \in Modes
    /\ store \in [Ids -> {Content(v, FALSE) : v \in Vals} \cup {Absent}]
    /\ text = Template
    /\ fetch = Fetch(IF mode = "create" THEN "none" ELSE "sent", Empty)
    /\ loading = FALSE
    /\ save = NoSave
    /\ page = "editor"
    /\ edits = 0 /\ saves = 0
    /\ typed = FALSE

(* The admin API answers GET /routes/{routeId}: the route, or a reject.   *)
ServeFetch ==
    /\ fetch.st = "sent"
    /\ fetch' = IF store[RouteId] = Absent THEN Fetch("fail", Empty)
                                          ELSE Fetch("ok", store[RouteId])
    /\ UNCHANGED <<mode, store, text, loading, save, page, edits, saves, typed>>

(* The .then callback: setJsonValue(JSON.stringify(payload)). A reject    *)
(* has no catch and changes nothing; after router.replace the component   *)
(* is gone and the set is dropped.                                        *)
FetchDone ==
    /\ fetch.st \in {"ok", "fail"}
    /\ fetch' = Fetch("done", Empty)
    /\ text' = IF fetch.st = "ok" /\ page = "editor" THEN Loaded(fetch.c) ELSE text
    /\ UNCHANGED <<mode, store, loading, save, page, edits, saves, typed>>

(* The user types in the textarea.                                        *)
Edit(t) ==
    /\ page = "editor" /\ edits < MaxEdits
    /\ edits' = edits + 1
    /\ text' = t
    /\ typed' = TRUE
    /\ UNCHANGED <<mode, store, fetch, loading, save, page, saves>>

(* handleSubmit up to its await. Text that does not parse ends it with a  *)
(* toast; otherwise loading is set and the payload goes out: PUT          *)
(* /routes/{routeId} when editing, POST /routes otherwise.                *)
Method == IF mode = "edit" THEN "PUT" ELSE "POST"

Submit ==
    /\ page = "editor" /\ ~loading
    /\ text # Invalid
    /\ saves < MaxSaves
    /\ saves' = saves + 1
    /\ loading' = TRUE
    /\ save' = [st |-> "sent", method |-> Method, body |-> text]
    /\ UNCHANGED <<mode, store, text, fetch, page, edits, typed>>

(* The admin API handles the save: PUT replaces routeId whole, POST       *)
(* creates a route under a free id; a full store or a failure rejects.    *)
ServeSave ==
    /\ save.st = "sent"
    /\ \/ /\ save.method = "PUT"
          /\ store' = [store EXCEPT ![RouteId] = save.body.c]
          /\ save' = [save EXCEPT !.st = "ok"]
       \/ /\ save.method = "POST"
          /\ \E id \in Ids :
               /\ store[id] = Absent
               /\ store' = [store EXCEPT ![id] = save.body.c]
          /\ save' = [save EXCEPT !.st = "ok"]
       \/ /\ Failures \/ (save.method = "POST" /\ \A id \in Ids : store[id] # Absent)
          /\ save' = [save EXCEPT !.st = "fail"]
          /\ UNCHANGED store
    /\ UNCHANGED <<mode, text, fetch, loading, page, edits, saves, typed>>

(* The rest of handleSubmit: router.replace("/routes/list") after a       *)
(* success, a toast after a failure, and setLoading(false) in the finally. *)
SaveDoneNoFinally ==
    /\ save.st \in {"ok", "fail"}
    /\ save' = NoSave
    /\ page' = IF save.st = "ok" THEN "list" ELSE page
    /\ loading' = (save.st = "fail")
    /\ UNCHANGED <<mode, store, text, fetch, edits, saves, typed>>

SaveDone ==
    /\ save.st \in {"ok", "fail"}
    /\ save' = NoSave
    /\ page' = IF save.st = "ok" THEN "list" ELSE page
    /\ loading' = FALSE
    /\ UNCHANGED <<mode, store, text, fetch, edits, saves, typed>>

Next ==
    \/ ServeFetch \/ FetchDone
    \/ \E t \in Texts : Edit(t)
    \/ Submit \/ ServeSave \/ SaveDone

(* The requests settle and their callbacks run (the browser's network     *)
(* timeout ends a hung request); the user's steps are not fair.           *)
Fairness ==
    /\ WF_vars(ServeFetch) /\ WF_vars(FetchDone)
    /\ WF_vars(ServeSave) /\ WF_vars(SaveDone)

Spec == Init /\ [][Next]_vars /\ Fairness

-----------------------------------------------------------------------------
Contents == [v : Vals \cup {"empty"}, copy : BOOLEAN]

TypeOK ==
    /\ mode \in Modes
    /\ store \in [Ids -> Contents \cup {Absent}]
    /\ text \in {Invalid} \cup {Payload(id, c) : id \in Ids \cup {NoId}, c \in Contents}
    /\ loading \in BOOLEAN /\ page \in {"editor", "list"}
    /\ save.st \in {"idle", "sent", "ok", "fail"}
    /\ edits \in 0..MaxEdits /\ saves \in 0..MaxSaves

(* Every Save ends: the button's "Saving..." state always clears, after a *)
(* rejected save too (the finally of handleSubmit).                       *)
SaveSettles == loading ~> ~loading

(* The user's edits are never replaced by the route fetched on mount.     *)
EditsNotOverwritten ==
    [][typed /\ FetchDone => text' = text]_vars

====
