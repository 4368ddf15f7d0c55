# TLA+ models of the APISIX dashboard front end

These modules model the parts of this repository that keep state across asynchronous steps:
- the shared HTTP client with its interceptors and the stored auth token (`webv3/lib/api/client.ts`);
- the React auth session of the webv2 app (`webv2/src/contexts/auth`, `webv2/src/lib/api/auth.ts`, the login and logout pages, `AppShell`);
- the resource modules of `webv3/lib/api` and `webv2/src/lib/api` (routes, upstreams, services, consumers, ssl, plugin templates, protos, server info), and the usage examples that chain them (`examples.ts`);
- the plugin schema cache;
- the settings store;
- the route list page with its URL-kept pagination, and the raw route editor;
- the navigation between the login, logout, settings and app pages.

Everything else in `src/` is markup, styling, translations and type declarations.

## The system

The app runs on a single browser event loop. Its state lives in four places:

| State | Where it lives | Who writes it |
|---|---|---|
| `localStorage["token"]` | localStorage | `loginWithPassword`, `logout`, the 401 handler of the client's error interceptor, a load of `/user/logout` |
| `APISIX_DASHBOARD_SETTINGS` and `GLOBAL_SETTING_GRAFANA_URL` | localStorage | `settings.ts`, `dashboard.ts` |
| session (`user`, `token`, `loading`, `error`, `initialized`) | the `AuthProvider` reducer | `bootstrap`, `signInWithPassword`, `signOut` |
| plugin list and schemas | the module-level `pluginCache` of `plugins.ts` | `fetchList`, `fetchSchema`, `clearCache` |
| admin API records | the server | resource modules (routes, upstreams, ...) |

How the parts interact:
- Views call the resource modules.
- Resource modules call `client.get/post/put/patch/delete`.
- The client reads the token on every request.
  - Its envelope interceptor unwraps `{code, data}`.
  - Its error interceptor removes the token on code 401 and navigates to `/login`.
- Nothing is ever aborted. Every `await` is a point where:
  - another in-flight call's answer can be handled;
  - a user event (click, submit) can run;
  - React can render and run effects.

These interleavings, not the data, are what the models check.

### Inventory

| Component | State | Operations (actions) | Hard behaviours |
|---|---|---|---|
| HTTP client (`client.ts`) | stored token; per call: token sent, response, result | request up to `fetch` (Send); request after `fetch` (Receive); login; logout | several calls in flight; a 401 for an old token; a 401 as envelope code; the catch deciding whether interceptors run again |
| Auth session (`auth-context.tsx`, `auth.ts`, pages) | reducer state, stored token, pending callbacks, location shown, redirect of the pending submit | `bootstrap` (2 steps), `signInWithPassword` (3 steps), `signInWithToken` and `refreshUser` (2 steps each), `signOut`, the AppShell and login-page redirect effects, menu links, the settings save, page loads | a dispatch between awaits seen by effects; sign-out racing a pending sign-in or refresh; `?redirect=` destinations |
| Resource modules (`webv3/lib/api/*.ts`, `protos.ts`, `server-info.ts`) | admin API store, last read, last list query | every exported call that sends a request | query building (status 0, '' and undefined filters, label join); double envelope unwrap; ids read off earlier results |
| Usage examples (`examples.ts`) | the example's step and its results, another caller | each awaited call of an example; `settingsExamples` is a task of the Settings module | a create naming a record made earlier; a concurrent caller; a rejection ending the example |
| Plugin cache (`plugins.ts`) | cached list and schemas | `fetchList(skipCache)`, `fetchSchema`, `clearCache`, `fetchAllSchemas` | cache written after an await; clear racing an in-flight fill; `response.data!` of an unwrapped value |
| Settings (`settings.ts`, `dashboard.ts`) | settings blob, legacy Grafana key | `updateSettings`, `setSetting`, `clearSettings`, `updateMonitorURL`, `settingsExamples` | read, await, write; two keys for one URL |
| Route list page | rows, total, URL page, current page, timers, loading, updatingId | `loadRoutes` (mount, Refresh, Search, Reset), the pagination effect, Prev and Next, publish, offline, delete | overlapping loads; a stale page in a closure; rejected calls skipping the reset; one `updatingId` for many rows; a page past the last |
| Raw route editor | JSON text, loading | initial fetch, edit, submit | late fetch overwriting edits; Save before the fetch; a duplicate never PUT |

## Modules

### `Envelope`
Defines the response-envelope predicates shared by the client and the resource modules:
- `IsOk`: `response.ok`.
- `EnvelopeFails`: the `code` is neither 0 nor 200 (client.ts 286-297).
- `UnwrapEnvelope`: an envelope gives its `data`; anything else passes through.

### `HttpClient` (client.ts, auth.ts login/logout)

Variables:
- `token`: localStorage `"token"`.
- `req[r]`: one slot per concurrent call, holding its stage, the token it was sent with, the response and the settled result.
- `redirects[r]`: the clear-and-redirect side effects of call `r`.
- `valid` and `issued`: the admin API's view of the tokens.

Actions:
- `Send(r)`: `request()` up to the `fetch`. The auth request interceptor (`AuthInterceptor`) reads the token.
- `Receive(r)`: everything after the `fetch`, in the order the code does it:
  1. body parse;
  2. `!response.ok` with the error interceptors;
  3. the envelope interceptor;
  4. the catch, which runs the error interceptors again only for errors that are not `ApiError`s.

  `Settle` gives the result and `InterceptedCode` the code the error interceptors see.
- The admin API may answer:
  - with a network failure;
  - with HTTP 401 or a 2xx envelope with code 401 when the token is not valid;
  - with anything else otherwise.
- `LoginWithPassword` stores a fresh token; `Logout` removes it. `Expire` is the server dropping a token.

### `ApiCalls` (the client's promise, spec 4.1 and 7)

The abstract specification of a call, with no fetch, body or interceptor in it:
- `Begin(r)`: a call is sent with the token stored when it starts.
- `End(r)`: it settles once, resolved or rejected with a code. Settling leaves the token alone, or removes it and redirects once, and the second only for a rejection with code 401.
- `Login` and `Logout`: the only other writers of the token.

`HttpClient` defines `Abstract == INSTANCE ApiCalls WITH ...`:
- `call` maps from `req`: `sent` becomes pending and `done` settled.
- `redirected` maps from `redirects`.
- `Expire` and the admin API's token sets are invisible to it and map to stuttering steps.

`ImplementsApiCalls == Abstract!Spec` is checked as a PROPERTY of the http_client run.

The promise says a 401 rejection *may* clear the token, because the code does not clear it for an envelope 401 (http_envelope_401).

### `AuthSession` (auth-context.tsx, auth.ts, login page, logout page, AppShell, menus, settings page)

Variables:
- `st`: the reducer state.
- `stored`: the token in localStorage.
- `boot`, `tokenSignIn` and `refresh`: which `await` each async callback is suspended at.
- `signIn`: one slot per call of `signInWithPassword` in flight (`SignIns`, at most `MaxSignIns`), each with the `await` it is suspended at and the `?redirect=` its `onSubmit` closed over. A second call is possible: `signOut`'s `reset`, and the `initialized` of a `signInWithToken`, clear `loading` and re-enable the login form while a sign-in is pending.
- `page`: the location shown, a path with its `?redirect=` (`Loc`). The paths are the nine pages under `(app)` (`AppPaths`), the login and logout pages, and whatever a link or redirect names: "/" and `/upstream/list` have no page.
- `reloads`: full page loads so far.
- `calls`: calls of `signInWithToken` and `refreshUser` so far.

Actions:
- A callback is split at each `await`:
  - `BootstrapStart`, `BootstrapUser`;
  - `SubmitLogin(s)`, `LoginResolves(s, t)`/`LoginRejects(s)`, `SignInUser(s)`, one slot `s` per call. A submit takes the first free slot: the code's calls have no identity, so this only removes copies of the same state.
  - `SignInWithTokenStart` (set-token, then `loginWithToken` stores the token), `SignInWithTokenUser`;
  - `RefreshStart`, `RefreshUser`.
- No view of webv2 calls `signInWithToken` or `refreshUser`. The model lets the environment call each of them at any time, with one call of each in flight and at most `MaxCalls` (1) calls in all. So the properties hold for any caller of the context.
- The dispatches of one segment are folded through `reducer` in order (`Dispatch`). React renders and runs effects only between segments, so the redirect effects are actions of their own:
  - `AppShellRedirect`: an app page without a token goes to `/user/login?redirect=` its path.
  - `LoginPageRedirect`: a signed-in visitor of the login page goes to `Destination(redirect, "/")`.
- `SignInUser(s)` goes to `Destination(signIn[s].dest, "/dashboard")`. `Destination` gives the fallback in place of `/user/logout`.
- `SignOut` is one step: the `logout()` it awaits is already resolved, and no event can run before the `reset` dispatch.
- `Navigate(p)`: a link of the Sidebar (`menuItems`), of the UserMenu, or of the dashboard's "Configure Grafana" button.
- `SettingsSave`: the settings page's `onSubmit` goes to its decoded `?redirect=`, to "/" for one that starts with "http" (`ExternalURL`), or to `/dashboard`.
- `Reload(l)` is a full load of any location a user can open (`Locations`). The logout page's effect runs before the provider's bootstrap because child effects run first.

### `Resources` (the resource modules of webv3/lib/api and webv2/src/lib/api)

Variables:
- `store`: the admin API's records of every kind (`Kinds`), `[id, body, status, ref]`, where `ref` names another kind's record.
- `got`: the last read, with what the admin API held and what the call resolved with.
- `listed`: the last `fetchList`, with the caller's params and the query it sent.

Each exported call is one step (`Read`, `Write`). It is built from the client's wrappers (`get`, `post`, `put`, `patch`, `delete`), the module's params object (`RouteListParams`, ...), `buildURL` (`BuildQuery`), the admin API's answer (`Answer`, `Apply`, from spec 4.2 and 6), and how the module reads the value the client resolves with (`ReadOf`). The interleavings of calls are HttpClient's subject.

### `Examples` (webv3/lib/api/examples.ts)

Extends `Resources`. Variables:
- `script` and `pc`: the example being run and its next step.
- `env`: what each step settled with.
- `status`: running, resolved or rejected.
- `calls`: calls made by another caller.

Actions:
- `ScriptStep`: the example's next awaited call. A create naming an earlier record takes the id from what that call resolved with (`Fill`).
- `ScriptFails`: a call that fails before the admin API handles it. A rejection the example does not catch ends it.
- `Caller`: another caller makes any call of any module.

### `PluginCache` (webv2/src/lib/api/plugins.ts)

Variables:
- `list` and `schemas`: the module-level `pluginCache`.
- `call[c]`: a caller's `fetchSchema`, at its await or settled.
- `lcall`: a direct `fetchList(skipCache)`.
- `all` and `sub[n]`: `fetchAllSchemas` and the `fetchSchema` it starts for each plugin.
- `clears`: `clearCache` calls so far.
- Ghosts: `filledAt` and `listAt` give the clear count at which a cached value's request was sent; `resolved` marks the schemas already served since the last clear.

Actions:
- `FetchSchema`/`FetchSchemaDone`, `FetchList`/`FetchListDone`, `FetchAllSchemas`/`AllListDone`/`SubDone`/`AllDone`: each async function split at its awaits.
- `SchemaEnd` does what the code does after the await: `response.data!`, the empty-`properties` fix (`Normalize`) and the cache write (`SchemaStore`). Reading `.properties` of undefined is a `TypeError`.
- `ClearCache` resets the list and every schema.

`./client`, which `plugins.ts` imports, is not in the repository. The constant `ClientUnwraps` chooses the client:
- TRUE: the client resolves with the unwrapped `data`, as the webv3 client and spec 4.1 do.
- FALSE: the client resolves with the envelope, as the `ApiResponse<...>` type arguments assume.

### `Settings` (webv3/lib/api/settings.ts, dashboard.ts)

Variables:
- `blob`: the parsed `APISIX_DASHBOARD_SETTINGS`.
- `legacy`: `GLOBAL_SETTING_GRAFANA_URL`.
- `queue`: the continuations of `updateSettings` calls waiting to run, each with the settings it read.
- `inTask` and `calls`: the calls of the running task and in total.
- `latest`: a ghost holding each key's last update in call order.
- `named`: a ghost holding the keys the most recent call wrote.

Actions:
- `updateSettings` reads the settings when called, because `getSettings` has no await of its own. It writes after its await.
- Continuations run in call order once the calling task ends, and no new task starts before the queue is empty. This is the microtask order of the event loop.
- `UpdateSettings` also stands for `setSetting`.
- `UpdateMonitorURL` writes the legacy key, then calls `setSetting`.
- `ClearSettings` removes the blob at once.
- `UpdateGrafanaURL` stands for `updateGrafanaURL` and `clearGrafanaURL` of dashboard.ts.
- `SettingsExample` is `settingsExamples` of examples.ts, run as a task. It awaits each call, and nothing it awaits leaves the microtask queue, so it runs to its end in one step. It folds its three patches (`SettingsExamplePatches`) into the blob and writes the legacy key.

### `RouteListPage` (routes/list/page.tsx, use-pagination.ts, data-table.tsx)

Variables:
- `store`: the admin API's routes, in list order.
- `routes`, `total`, `loading` and `updatingId`: the page's state.
- `url`: the `?page=` of the URL. `cur`: `paginationConfig.current`, copied from the URL by the pagination effect.
- `timers`: Search's pending `setTimeout`, with the page its closure saw.
- `loads` and `acts`: calls in flight, each with the page it asks for, `sent`, then answered (`ok` with a snapshot of the page and the total, or `fail`).

Actions:
- `Init` is the mount: the URL's page, `cur` still 1, and the mount effect's `loadRoutes` of page 1.
- `Refresh`, `Search` (which sets the URL to page 1 and starts a timer), `TimerFires`, `Reset`: the toolbar.
- `PrevPage`, `NextPage`: the DataTable pager, clamped to `1..TotalPages(total)`.
- `PaginationEffect`: the URL changed, so `cur` follows and the load effect runs.
- `LoadDone` is the rest of `loadRoutes`. A rejection skips `setRoutes` and `setLoading(false)`: there is no catch or finally.
- `StartAct` is a row button (Publish, Offline, Delete), disabled while `updatingId` names the row. `ActSettles` is the rest of the handler: `setUpdatingId(null)` and `loadRoutes()` of the page the closure saw.
- `@/lib/api/routes` is not in the repository. `ServeLoad`, `ServeAct` and `Apply` model its calls from spec 4.2.

### `RawRouteEditor` (webv2/src/app/(app)/routes/_components/raw-route-editor.tsx)

Variables:
- `mode`: create, edit or duplicate, chosen at Init.
- `store`: the admin API's routes.
- `text`: the textarea, abstracted to what `JSON.parse` makes of it: the initial `{ }` template, a route payload, or invalid text.
- `fetch`: the mount effect's `fetchRoute`.
- `loading`, `save` and `page`: the save in flight and the page shown.
- `typed`: a ghost recording that the user has typed.

Actions:
- `ServeFetch`/`FetchDone`: the fetch and its `.then`. The duplicate mode drops the id and marks the copy.
- `Edit`: typing.
- `Submit`: `handleSubmit` up to its await. Invalid JSON ends it before any request. The request is a PUT when editing and a POST otherwise.
- `ServeSave`: the admin API's answer.
- `SaveDone`: navigation on success, then the finally.

## Runs

| Run | Config | Expect | What it shows |
|---|---|---|---|
| http_client | MCHttpClient.cfg | pass | Covers two concurrent calls, login, logout and token expiry. An HTTP 401 always removes the token it was sent with (`Http401DropsRejectedToken`). The client implements `ApiCalls` under the refinement mapping (`ImplementsApiCalls`). |
| http_envelope_401 | MCHttpClientEnvelope401.cfg | violation | A 2xx response with envelope code 401 rejects the call with code 401 but skips the 401 handler. The rejected token stays stored (client.ts 211). |
| auth_session | MCAuthSession.cfg | pass | Covers bootstrap, sign-in with a password or a token, `refreshUser`, sign-out, the redirect effects, every link and a reload of any location. `loading` is true only while a bootstrap or sign-in is pending (`LoadingOnlyWhileBusy`). A settled session holds the stored token (`SessionTokenMatchesStorage`). No sign-in or redirect ends on `/user/logout`, whatever `?redirect=` the login page was given (`NeverSentToLogout`). Two `signInWithPassword` calls may overlap. The session always ends up initialized (`SessionSettles`). |
| auth_user_token | MCAuthSessionUserToken.cfg | violation | A signed-out session shows no user (`NoUserWithoutToken`, spec 4.3: `signOut` returns to anonymous-initialized). The cfg allows no `signInWithToken` or `refreshUser` call (`MaxCalls = 0`), so the trace is `signInWithPassword`'s: bootstrap, submit, the login answer, the login page's redirect, a sign-out (`reset`, auth-context.tsx 114), then the late `set-user` (line 86). A token without a user during a sign-in is the transient state spec 4.3 allows, so the property does not forbid it. |
| examples | MCExamples.cfg | pass | Runs each usage example while another caller creates, updates and deletes, with calls that may fail. A record an example creates names only a record that the same example created before it (`RefsNameOwnCreations`). Every `fetchList` of every module sends exactly the given filters, the page defaults and the joined labels (`ListQueriesMatchSpec`, checked against a reference join). |
| examples_reads | MCExamplesReads.cfg | violation | `fetchItem`, `fetchLabelList`, `fetchServiceList`, `fetchAll`, `fetchInfoList` and `fetchVersion` read `.data` of a value the client already unwrapped. They resolve with undefined or reject with a TypeError (routes.ts 78 and the same line of each module). |
| plugin_cache | MCPluginCache.cfg | pass | Covers a caller's `fetchSchema`, `fetchList(skipCache)` and `fetchAllSchemas` racing a `clearCache`. A schema already served is not fetched again until a clear (`RepeatFetchHitsCache`). Cached schemas are normalised (`TypeOK`). |
| settings | MCSettings.cfg | pass | With up to two calls per task, once every continuation has written, the settings named by the most recent call hold its values (`LastUpdateKept`): continuations write in call order and the update's spread comes last. An earlier call of the same task can be lost; MCSettingsConcurrent.cfg shows that. |
| route_list | MCRouteListPage.cfg | pass | Covers overlapping loads, paging, search timers and row actions, any of which may reject. Only the type invariant holds here: the spinner (`SpinnersClear`), a fresh table, the pager and the row buttons are all violated (Further disagreements and route_list_stale). |
| route_list_stale | MCRouteListPageStale.cfg | violation | Opening `?page=2`, the mount's load of page 1 can be answered after the effect's load of page 2. Page 1's rows then stay under "Page 2" (page.tsx 91, use-pagination.ts 23). |
| raw_editor | MCRawRouteEditor.cfg | pass | Covers all three modes, rejecting saves included. Save always comes back (`SaveSettles`, the finally). |
| raw_editor_overwrite | MCRawRouteEditorOverwrite.cfg | violation | Text typed while the mount fetch is pending is replaced by the fetched route (raw-route-editor.tsx 36). |

Each property of a passing run has a mutant in PROJECT.json: a plausible wrong version of one mapped definition that TLC shows breaks it.

## Further disagreements

TLC finds each property below violated by what the code does, with the cfg named. These cfgs are kept beside the runs, and the hazards list in PROJECT.json refers to them.

| Config | Property | What the code does |
|---|---|---|
| MCHttpClientStale401.cfg | `SettleClearsOnlyOwnToken` | A 401 answering a call sent before a login removes the new token (client.ts 312). Spec 5 says racing 401s have no adverse effect. |
| MCAuthSessionRoot.cfg | `LandsOnServedPage` | Three things lead to a 404 outside AppShell: the login page's "/" fallback (login page 49-50), the Sidebar's `/upstream/list` (menu.ts 18), and the settings page's "/" for an `http` redirect (settings page 57). |
| MCExamplesUpsert.cfg | `CreateKeepsExisting` | `consumers.create` PUTs the collection keyed by the username, so creating an existing consumer replaces it (consumers.ts 61). |
| MCPluginCacheStaleFill.cfg | `ClearedCacheHoldsNoOlderFill` | A `fetchSchema` sent before `clearCache` writes its schema into the cleared cache (plugins.ts 88). |
| MCPluginCacheUnwrap.cfg | `SchemaFetchResolves` | With a client that unwraps the envelope, `response.data!` is undefined and every uncached `fetchSchema` rejects with a TypeError (plugins.ts 79). |
| MCSettingsConcurrent.cfg | `NoLostUpdate` | A `clearSettings` made in the same task after an `updateSettings` is undone when the update writes what it read (settings.ts 61-63). |
| MCSettingsGrafana.cfg | `GrafanaURLsAgree` | `updateGrafanaURL` of dashboard.ts writes only the legacy key, and `setSetting('grafanaURL')` only the blob (dashboard.ts 44). |
| MCRouteListPageFailures.cfg | `SpinnersClear` | A rejected load leaves the spinner on: `loadRoutes` has no catch or finally (page.tsx 81-93). |
| MCRouteListPageUpdating.cfg | `UpdatingRowDisabled` | A status change on a second row overwrites `updatingId`. This re-enables the first row's button while its change is in flight (page.tsx 112). |
| MCRouteListPagePager.cfg | `PageWithinTotal` | Deleting the only row of the last page reloads that page. The pager then reads "Page 2 of 1" with Next disabled and Prev the only way back (data-table.tsx 53, page.tsx 132). |

The same reading finds problems that no property checks:
- The raw editor's Save, clicked before the mount fetch has filled the text, PUTs the `{ }` template over the route being edited (raw-route-editor.tsx 51).
- `fetchSchema` has no `skipCache` flag, although spec 4.2 gives one to the schema fetch.
- The login page sends a signed-in user to any decoded `?redirect=`, another origin included (login page 58). The model keeps such a URL (`ExternalURL`), but no property is stated because the spec says nothing about redirect origins.

## Bounds

- **HttpClient:**
  - Two call slots and two tokens are the least that let a call sent with one token be answered after a login with the other.
  - Statuses are {200, 401, 500} and envelope codes {0, 200, 401, 404}. Together they cover every branch of `Settle`.
- **AuthSession:**
  - Two tokens.
  - One page load, over every location: the nine app pages, and the login, logout and settings pages with no redirect, with each app page or with an external URL.
  - One call of `signInWithToken` or `refreshUser` (`MaxCalls`). A single call pending across a sign-out already shows its `set-user` reviving a user, and the passing run stays under two minutes.
  - Two calls of `signInWithPassword` in flight (`MaxSignIns`), the least that lets a sign-out or a `signInWithToken` re-enable the form under a pending sign-in and a second submit overlap it.
- **Resources / Examples:**
  - Every kind has one or two ids. Consumers have three, one per username of `consumerExamples`.
  - One body.
  - Filter values include undefined, '', a value, status 0 and 1, one- and two-element label lists, an API version and a page.
  - Two calls of the other caller, and failures on.
  - A VIEW leaves out the last list query, which `ListQueriesMatchSpec` judges on each step.
- **PluginCache:**
  - One caller besides `fetchAllSchemas`, two plugins (one with empty `properties`), two schema types.
  - One `clearCache`. A single clear already puts a fill on each side of it.
- **Settings:**
  - Three keys (the Grafana URL, theme and language, the keys `settingsExamples` writes) and two values.
  - Four calls with up to two per task in the passing run, so that two continuations are pending at once.
  - Three calls with two per task in the concurrent config.
- **RouteListPage:**
  - Two routes and a page size of 1, so there are two pages and a delete can empty the last one.
  - Two user steps and one row action. The mount load plus one more makes two loads overlap. The updating config takes two row actions on two rows.
- **RawRouteEditor:**
  - Two routes (one the editor opens, one free for a POST) and two definitions.
  - One edit and two saves, so that a save can follow a rejected one.

The AuthSession and RouteListPage configs say `CHECK_DEADLOCK FALSE`. Once their bounded user steps are used up, the program waits for the user: on the 404 page at "/", or on an idle table.

## Fairness

Weak fairness is assumed only on steps the program takes by itself:
- an effect running after a render (the pagination effect) and the session's bootstrap effect;
- a `setTimeout` firing;
- an awaited request settling. The browser's network timeout ends a request that hangs.

The user's steps (submit, sign out, reload, links, typing, row and pager buttons, `clearCache`) have no fairness.
The safety runs do not depend on fairness. AuthSession states fairness only for `BootstrapStart` and `BootstrapUser`, the steps its liveness property rests on. Its other program steps are as fair in the code, and a weaker assumption only makes the liveness result stronger; each extra fairness conjunct multiplies TLC's liveness checking time. The liveness properties are:
- `SessionSettles`;
- `SaveSettles`;
- `SpinnersClear`, checked only in MCRouteListPageFailures.cfg, where it is violated.

## Not modelled

- **Markup and presentation:** table columns, forms' layout, i18n and locale switching, and the UI components.
- **Formatting:** the body serialisation of `prepareBody` and the dev-mode logging.
- **Missing sources:** `webv2/src/lib/api/client.ts`, `webv2/src/lib/api/routes.ts` and the webv2 settings module are imported but are not in the repository. The calls made through them are modelled from the spec and marked `spec_modelled` in PROJECT.json.
- **The login answer:** `loginWithPassword` stores the token only if the answer carries one (auth.ts 23). The model's successful login always carries a token.
- **The raw editor's create mode** is modelled, but no page under `src` renders it: the list page pushes `/routes/create`, which has no page.
- **Read-only helpers:** `getSetting`, `getGrafanaURL` and the label fetch of the list page only read. The dashboard's "Configure Grafana" button is taken as always shown.
- **Other pages:** the consumer, service, ssl, proto, plugin and server-info pages are placeholders, or repeat the route list's load pattern.

## Plan

Next:
1. A refinement of `ApiCalls` by a client that owns its 401. The current one can clear a token it was not sent with (MCHttpClientStale401.cfg), so the abstract `End` cannot yet say "its own token".
2. Compose `AuthSession` with the client's 401 handling, to check what a session shows after the token expires.
3. Two writers of one route, to check for a lost status change: the list page's status PATCH and the editor's full PUT.
4. Two concurrent `fetchSchema` calls for one key: both reach the network today.
