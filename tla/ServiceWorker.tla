--------------------------- MODULE ServiceWorker ---------------------------
(***************************************************************************)
(* The service worker of the PWA (public/sw.js), the page that registers   *)
(* it (sw-registration.ts, useServiceWorker.ts) and the browser between    *)
(* them: deployments, installation, activation, visits, and the caches     *)
(* every worker keeps under names that carry its CACHE_VERSION.            *)
(*                                                                         *)
(* A build is the page and the script whose name holds its hash.  Workers  *)
(* are named by the CACHE_VERSION they were built with; 0 is none.         *)
(***************************************************************************)
EXTENDS Naturals, FiniteSets, Functions

CONSTANTS MaxBuilds, MaxLate

VARIABLES
    build,      \* what the server has
    cacheVersion, \* CACHE_VERSION in its sw.js
    online,
    caches,     \* the cache storage: name -> entries
    worker,     \* the registration: installing, waiting, active
    skip,       \* skipWaiting was called for the waiting worker
    late,       \* what the worker still does for requests it has answered
    visit,      \* the page that is open
    cut         \* history: workers whose cache was deleted before they were active

vars == <<build, cacheVersion, online, caches, worker, skip, late, visit, cut>>

Builds == 1..MaxBuilds

Static(v) == <<"static", v>>
Api(v) == <<"api", v>>

Nothing == [page |-> 0, scripts |-> {}, json |-> 0]

NewVisit == [at |-> "page", build |-> 0, controller |-> 0, under |-> 0,
             registered |-> FALSE, swState |-> "registering", updateAvailable |-> FALSE,
             tracked |-> {}]

Init ==
    /\ build = 1 /\ cacheVersion = 1 /\ online = TRUE
    /\ caches = <<>>
    /\ worker = [installing |-> 0, waiting |-> 0, active |-> 0, activated |-> FALSE]
    /\ skip = FALSE /\ late = {} /\ cut = {}
    /\ visit = NewVisit

-----------------------------------------------------------------------------
(* Cache storage *)

Match(name) == IF name \in DOMAIN caches THEN caches[name] ELSE Nothing

\* caches.open, which creates the cache.
Opened(name) == [n \in DOMAIN caches \cup {name} |-> Match(n)]

\* Slip: the cache is looked up, and created, when it is written.
WriteByName(name, entries) == [Opened(name) EXCEPT ![name] = entries]

\* cache.put on the object opened before: once the cache was deleted, what is
\* put there is lost.
Write(name, entries) ==
    IF name \in DOMAIN caches THEN [caches EXCEPT ![name] = entries] ELSE caches

-----------------------------------------------------------------------------
(* Deployments and the network *)

\* A build with its CACHE_VERSION raised, or one that leaves sw.js as it is.
Deploy ==
    /\ build < MaxBuilds
    /\ build' = build + 1
    /\ cacheVersion' \in {cacheVersion, build + 1}
    /\ UNCHANGED <<online, caches, worker, skip, late, visit, cut>>

Connection ==
    /\ online' = ~online
    /\ UNCHANGED <<build, cacheVersion, caches, worker, skip, late, visit, cut>>

-----------------------------------------------------------------------------
(* The page's view of its worker *)

Installed(v) ==
    IF v \notin visit.tracked THEN visit
    ELSE IF visit.controller # 0
         THEN [visit EXCEPT !.swState = "waiting", !.updateAvailable = TRUE]
         ELSE [visit EXCEPT !.swState = "active"]

\* registerServiceWorker, once the page has loaded and its script runs.
Register ==
    /\ visit.at = "rendered" /\ ~visit.registered
    /\ visit' =
         LET known == [visit EXCEPT !.registered = TRUE]
         IN  CASE worker.installing # 0 ->
                    [known EXCEPT !.swState = "installing", !.tracked = {worker.installing}]
               [] worker.installing = 0 /\ worker.waiting # 0 ->
                    [known EXCEPT !.swState = "waiting", !.updateAvailable = TRUE]
               [] worker.installing = 0 /\ worker.waiting = 0 /\ worker.active # 0 ->
                    [known EXCEPT !.swState = "active"]
               [] OTHER ->
                    [known EXCEPT !.swState = IF online THEN "registering" ELSE "error"]
    /\ UNCHANGED <<build, cacheVersion, online, caches, worker, skip, late, cut>>

\* What the worker that waits, if there is one, does with SKIP_WAITING.
SkipWaiting == skip' = (skip \/ worker.waiting # 0)

\* The button of SwStatus: SKIP_WAITING to whoever waits, and a reload.
ApplyUpdate ==
    /\ visit.updateAvailable
    /\ SkipWaiting
    /\ visit' = [NewVisit EXCEPT !.controller = worker.active,
                                 !.under = IF worker.activated THEN worker.active ELSE 0]
    /\ UNCHANGED <<build, cacheVersion, online, caches, worker, late, cut>>

-----------------------------------------------------------------------------
(* Installing and activating *)

Newest == IF worker.waiting # 0 THEN worker.waiting ELSE worker.active

\* register, or a navigation later, finds another sw.js: the worker opens its
\* static cache and calls skipWaiting.  A page that has registered is told.
Install ==
    /\ online /\ visit.registered
    /\ worker.installing = 0 /\ cacheVersion # Newest
    /\ worker' = [worker EXCEPT !.installing = cacheVersion]
    /\ caches' = Opened(Static(cacheVersion))
    /\ visit' = [visit EXCEPT !.swState = "installing", !.tracked = @ \cup {cacheVersion}]
    /\ UNCHANGED <<build, cacheVersion, online, skip, late, cut>>

\* addAll has the whole shell; the page, of the build there is now, stands for it.
Precached ==
    /\ online /\ worker.installing # 0
    /\ LET v == worker.installing
       IN  /\ caches' = Write(Static(v), [Match(Static(v)) EXCEPT !.page = build])
           /\ worker' = [worker EXCEPT !.installing = 0, !.waiting = v]
           /\ visit' = Installed(v)
    /\ skip' = TRUE
    /\ UNCHANGED <<build, cacheVersion, online, late, cut>>

\* One request of addAll fails: nothing is stored and the worker is discarded.
PrecacheFails ==
    /\ ~online /\ worker.installing # 0
    /\ worker' = [worker EXCEPT !.installing = 0]
    /\ UNCHANGED <<build, cacheVersion, online, caches, skip, late, visit, cut>>

\* The waiting worker takes over the pages, and clients.claim the ones nobody
\* controlled.
Activate ==
    /\ worker.waiting # 0 /\ (worker.active # 0 => worker.activated)
    /\ skip \/ visit.controller = 0
    /\ worker' = [worker EXCEPT !.waiting = 0, !.active = worker.waiting, !.activated = FALSE]
    /\ skip' = FALSE
    /\ visit' = [visit EXCEPT !.controller = worker.waiting]
    /\ UNCHANGED <<build, cacheVersion, online, caches, late, cut>>

\* The activate handler deletes every cache that is not of this version.
Cleanup ==
    /\ worker.active # 0 /\ ~worker.activated
    /\ LET current == {Static(worker.active), Api(worker.active)}
           others == {v \in Builds : Static(v) \in DOMAIN caches \ current /\ v > worker.active}
       IN  caches' = Restrict(caches, current \cap DOMAIN caches) /\ cut' = cut \cup others
    /\ worker' = [worker EXCEPT !.activated = TRUE]
    /\ visit' = IF worker.active \in visit.tracked THEN [visit EXCEPT !.swState = "active"]
                                                   ELSE visit
    /\ UNCHANGED <<build, cacheVersion, online, skip, late>>

-----------------------------------------------------------------------------
(* Requests *)

\* A worker answers once it is activated.
Answering == visit.controller # 0 /\ worker.activated /\ Cardinality(late) < MaxLate

\* The user opens the app, or reloads it.
Visit ==
    /\ visit.at \in {"rendered", "blank"}
    /\ visit' = [NewVisit EXCEPT !.controller = worker.active,
                                 !.under = IF worker.activated THEN worker.active ELSE 0]
    /\ UNCHANGED <<build, cacheVersion, online, caches, worker, skip, late, cut>>

Shows(b) == visit' = [visit EXCEPT !.build = b, !.at = "script"]
Ends(at) == visit' = [visit EXCEPT !.at = at]

\* The navigation without a worker.
LoadPage ==
    /\ visit.at = "page" /\ visit.controller = 0
    /\ IF online THEN Shows(build) ELSE Ends("blank")
    /\ UNCHANGED <<build, cacheVersion, online, caches, worker, skip, late, cut>>

\* The cached page at once, and the network's in the background; with nothing
\* cached the network's, or undefined, which is a network error.
StaleWhileRevalidate ==
    /\ visit.at = "page" /\ Answering
    /\ LET name == Static(visit.controller)
           cached == Match(name).page
       IN  /\ caches' = Opened(name)
           /\ IF cached # 0 THEN Shows(cached) ELSE IF online THEN Shows(build) ELSE Ends("blank")
           /\ late' = CASE cached # 0 -> late \cup {[put |-> "fetch", of |-> 0, in |-> name]}
                        [] cached = 0 /\ online ->
                             late \cup {[put |-> "page", of |-> build, in |-> name]}
                        [] OTHER -> late
    /\ UNCHANGED <<build, cacheVersion, online, worker, skip, cut>>

\* The server has the script of its own build only.
Served == online /\ visit.build = build

LoadScript ==
    /\ visit.at = "script" /\ visit.controller = 0
    /\ Ends(IF Served THEN "rendered" ELSE "blank")
    /\ UNCHANGED <<build, cacheVersion, online, caches, worker, skip, late, cut>>

\* The cached script, or the network's, which is stored if it is there; else
\* the server's 404 or a 503.
CacheFirst ==
    /\ visit.at = "script" /\ Answering
    /\ LET name == Static(visit.controller)
           cached == visit.build \in Match(name).scripts
       IN  /\ caches' = Opened(name)
           /\ Ends(IF cached \/ Served THEN "rendered" ELSE "blank")
           /\ late' = IF cached \/ ~Served THEN late
                      ELSE late \cup {[put |-> "script", of |-> build, in |-> name]}
    /\ UNCHANGED <<build, cacheVersion, online, worker, skip, cut>>

\* notes.json: the network's, which is stored, or else what was stored.
NetworkFirst ==
    /\ visit.at = "rendered" /\ Answering
    /\ LET name == Api(visit.controller)
       IN  /\ caches' = Opened(name)
           /\ late' = IF online THEN late \cup {[put |-> "json", of |-> build, in |-> name]}
                                ELSE late
    /\ UNCHANGED <<build, cacheVersion, online, worker, skip, visit, cut>>

\* What follows an answer is awaited by nobody: a put, or a fetch and its put.
\* It may be done after another worker took over, or never.
Finish(p) ==
    /\ late' = late \ {p}
    /\ LET had == Match(p.in)
           has == CASE p.put = "page" -> [had EXCEPT !.page = p.of]
                    [] p.put = "script" -> [had EXCEPT !.scripts = @ \cup {p.of}]
                    [] p.put = "json" -> [had EXCEPT !.json = p.of]
                    [] p.put = "fetch" -> [had EXCEPT !.page = IF online THEN build ELSE @]
       IN  caches' \in {caches, Write(p.in, has)}
    /\ UNCHANGED <<build, cacheVersion, online, worker, skip, visit, cut>>

Next ==
    \/ Deploy \/ Connection
    \/ Register \/ ApplyUpdate
    \/ Install \/ Precached \/ PrecacheFails \/ Activate \/ Cleanup
    \/ Visit \/ LoadPage \/ StaleWhileRevalidate \/ LoadScript \/ CacheFirst \/ NetworkFirst
    \/ \E p \in late : Finish(p)

Spec == Init /\ [][Next]_vars

-----------------------------------------------------------------------------
(* Properties *)

\* Once a worker is activated no cache of an older one is left, though what the
\* older one began may still be finishing; and its own has the shell, unless an
\* older worker's cleanup fell into its installation.
CachesAreCurrent ==
    worker.activated =>
        /\ \A v \in 1..(worker.active - 1) : {Static(v), Api(v)} \cap DOMAIN caches = {}
        /\ worker.active \notin cut => Match(Static(worker.active)).page # 0

\* sw.js:25 and InstallPrompt.tsx:61 - the app can be used offline: a visit
\* begun under an activated worker ends with the app on the screen.
VisitsRender == visit.at = "blank" => visit.under = 0

=============================================================================
