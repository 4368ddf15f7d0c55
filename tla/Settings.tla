------------------------------- MODULE Settings -------------------------------
(***************************************************************************)
(* The dashboard settings of webv3/lib/api/settings.ts and the Grafana URL *)
(* of webv3/lib/api/dashboard.ts, both kept in localStorage: the JSON blob *)
(* under APISIX_DASHBOARD_SETTINGS and the legacy key                       *)
(* GLOBAL_SETTING_GRAFANA_URL.                                              *)
(*                                                                         *)
(* updateSettings reads the blob (getSettings runs to its end when called) *)
(* and writes the merged blob after its await. The continuations of the    *)
(* calls made in one task run in the order the calls were made, before any *)
(* other task: Start puts a call on the microtask queue, Finish runs the   *)
(* one at its head, and no new task starts until the queue is empty.       *)
(* MaxPerTask bounds the calls one task makes.                              *)
(***************************************************************************)
EXTENDS Naturals, SequencesExt

CONSTANTS
    Keys,          \* setting names ("grafanaURL", "theme", ...)
    Values,        \* setting values
    Grafana,       \* the key updateMonitorURL writes
    MaxCalls,      \* bound on calls in a behaviour
    MaxPerTask,    \* bound on the calls one task makes
    Undefined,     \* a missing key / a missing localStorage item
    Theme, Language,          \* the other keys settingsExamples writes
    Dark, EnUS, ZhCN, URL     \* the values it writes

ASSUME {Grafana, Theme, Language} \subseteq Keys /\ {Dark, EnUS, ZhCN, URL} \subseteq Values

VARIABLES
    blob,          \* the parsed settings blob: [Keys -> Values \cup {Undefined}]
    legacy,        \* GLOBAL_SETTING_GRAFANA_URL
    queue,         \* continuations of updateSettings waiting to run
    inTask,        \* calls the running task has made so far
    calls,         \* calls so far
    latest,        \* ghost: the value of each key's last update, in call order
    named          \* ghost: the keys the most recent settings call wrote

vars == <<blob, legacy, queue, inTask, calls, latest, named>>

NoSettings == [k \in Keys |-> Undefined]

(* A patch {key: value}: a partial function from keys to values.          *)
Patches == UNION {[K -> Values] : K \in SUBSET Keys \ {{}}}

(* { ...currentSettings, ...settings }, and two slips of it: the patch   *)
(* kept whole under the key "settings", and the spreads swapped, so a     *)
(* stored value wins over the update.                                     *)
MergeMissingSpread(cur, p) == ("settings" :> p) @@ cur

MergeOldWins(cur, p) == [k \in Keys |-> IF k \in DOMAIN p /\ cur[k] = Undefined THEN p[k] ELSE cur[k]]

Merge(cur, p) == [k \in Keys |-> IF k \in DOMAIN p THEN p[k] ELSE cur[k]]

-----------------------------------------------------------------------------
Init ==
    /\ blob = NoSettings
    /\ legacy = Undefined
    /\ queue = <<>>
    /\ inTask = 0
    /\ calls = 0
    /\ latest = NoSettings
    /\ named = {}

(* A call made by the running task; a new task starts only when the       *)
(* microtask queue is empty.                                              *)
Call ==
    /\ calls < MaxCalls /\ inTask < MaxPerTask
    /\ inTask = 0 => queue = <<>>
    /\ calls' = calls + 1 /\ inTask' = inTask + 1

(* updateSettings(patch) / setSetting(key, value), up to the await: the   *)
(* settings are read now and merged later.                                 *)
UpdateSettings(p) ==
    /\ Call
    /\ queue' = Append(queue, [patch |-> p, read |-> blob])
    /\ latest' = [k \in Keys |-> IF k \in DOMAIN p THEN p[k] ELSE latest[k]]
    /\ named' = DOMAIN p
    /\ UNCHANGED <<blob, legacy>>

(* updateMonitorURL(url): the legacy key is written, then setSetting.      *)
UpdateMonitorURL(v) ==
    /\ Call
    /\ legacy' = v
    /\ queue' = Append(queue, [patch |-> (Grafana :> v), read |-> blob])
    /\ latest' = [latest EXCEPT ![Grafana] = v]
    /\ named' = {Grafana}
    /\ UNCHANGED blob

(* clearSettings: the blob is removed at once.                              *)
ClearSettings ==
    /\ Call
    /\ blob' = NoSettings
    /\ latest' = NoSettings
    /\ named' = {}
    /\ UNCHANGED <<legacy, queue>>

(* updateGrafanaURL(url) / clearGrafanaURL of dashboard.ts: only the       *)
(* legacy key.                                                             *)
UpdateGrafanaURL(v) ==
    /\ Call
    /\ legacy' = v
    /\ UNCHANGED <<blob, queue, latest, named>>

(* The task has ended: the continuation at the head of the queue runs and *)
(* writes JSON.stringify({ ...currentSettings, ...settings }).             *)
Finish ==
    /\ queue # <<>>
    /\ blob' = Merge(Head(queue).read, Head(queue).patch)
    /\ queue' = Tail(queue)
    /\ inTask' = 0
    /\ UNCHANGED <<legacy, calls, latest, named>>

(* settingsExamples of examples.ts, run as a task: every call is awaited  *)
(* and getSettings resolves at once, so the task runs to its end in        *)
(* microtasks: updateSettings({theme, language, grafanaURL}),              *)
(* setSetting('language'), then updateMonitorURL, which writes the legacy  *)
(* key before its setSetting. getSettings and getSetting only read.        *)
SettingsExamplePatches ==
    << (Theme :> Dark) @@ (Language :> EnUS) @@ (Grafana :> URL),
       Language :> ZhCN,
       Grafana :> URL >>

SettingsExample ==
    /\ calls < MaxCalls /\ inTask = 0 /\ queue = <<>>
    /\ calls' = calls + 1
    /\ blob' = FoldLeft(Merge, blob, SettingsExamplePatches)
    /\ legacy' = URL
    /\ latest' = FoldLeft(Merge, latest, SettingsExamplePatches)
    /\ named' = DOMAIN Last(SettingsExamplePatches)
    /\ UNCHANGED <<queue, inTask>>

(* A task that made no call leaves nothing to run.                         *)
EndTask ==
    /\ inTask > 0 /\ queue = <<>>
    /\ inTask' = 0
    /\ UNCHANGED <<blob, legacy, queue, calls, latest, named>>

Next ==
    \/ \E p \in Patches : UpdateSettings(p)
    \/ \E v \in Values : UpdateMonitorURL(v)
    \/ ClearSettings
    \/ SettingsExample
    \/ \E v \in Values \cup {Undefined} : UpdateGrafanaURL(v)
    \/ Finish
    \/ EndTask

Spec == Init /\ [][Next]_vars

-----------------------------------------------------------------------------
TypeOK ==
    /\ blob \in [Keys -> Values \cup {Undefined}]
    /\ legacy \in Values \cup {Undefined}
    /\ queue \in Seq([patch : Patches, read : [Keys -> Values \cup {Undefined}]])
    /\ inTask \in 0..MaxPerTask /\ calls \in 0..MaxCalls
    /\ named \subseteq Keys

(* Once every updateSettings has written, each setting holds the value of *)
(* the last update of it made, and a setting no update named keeps its     *)
(* value: the merge of spec 6 loses no update.                             *)
NoLostUpdate ==
    queue = <<>> => blob = latest

(* Once every continuation has written, the settings the most recent     *)
(* call named hold the values it gave them, however many calls of the    *)
(* task were pending: the continuations write in call order and the       *)
(* update's spread comes last. An earlier call of the same task may be    *)
(* lost (NoLostUpdate), the last one never is.                            *)
LastUpdateKept ==
    queue = <<>> => \A k \in named : blob[k] = latest[k]

(* The two stored copies of the Grafana URL agree once every call has     *)
(* written (spec 6: one settings blob holds the Grafana URL).              *)
GrafanaURLsAgree ==
    queue = <<>> => legacy = blob[Grafana]

====
