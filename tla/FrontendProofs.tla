--------------------------- MODULE FrontendProofs ---------------------------
(***************************************************************************)
(* Theorems about the browser demos, each by itself: the movie search, the *)
(* service worker and the notes, for any numbers of requests, builds and   *)
(* calls under way.                                                        *)
(***************************************************************************)
EXTENDS MCFrontend, Sequences, FiniteSets, Functions, TLAPS

-----------------------------------------------------------------------------
(* The movie search. *)

\* The request sent last, if it asks what the page shows.
Latest == [n |-> sent, query |-> query]

FilmsTypes ==
    /\ demo \in {"debounced", "submitted"}
    /\ sent \in Nat /\ answered \in 0..sent
    /\ timer # None => demo = "debounced" /\ timer = query
    /\ \A r \in requests : r.n \in 1..sent

\* Nothing is asked yet, or what was asked last is under way, or it has been
\* answered, and nothing that ended later took its place unnoticed.
Asked ==
    \/ demo = "debounced" /\ query = Empty
    \/ timer # None
    \/ /\ Latest \in requests
       /\ \A r \in requests : r.n = sent => r = Latest
    \/ /\ answered = sent
       /\ \A r \in requests : r.n = sent => r.query = query
       /\ results = query \/ error \/ overtaken \/ silent

FilmsInv == FilmsTypes /\ Asked

LEMMA FilmsInit == ASSUME Films!Init PROVE FilmsInv
BY DEF Films!Init, FilmsInv, FilmsTypes, Asked, Latest

LEMMA TypeKeeps == ASSUME FilmsInv, NEW q \in Queries \cup {Empty}, Films!Type(q) PROVE FilmsInv'
<1>1. /\ demo = "debounced" /\ demo' = demo /\ query' = q /\ sent' = sent
      /\ answered' = answered /\ requests' = requests
      /\ q # Empty => timer' = q
      /\ q = Empty => timer' = None
  BY DEF Films!Type
<1>2. FilmsTypes'
  BY <1>1 DEF FilmsInv, FilmsTypes
<1>3. Asked'
  BY <1>1, QueriesAssumption DEF Asked
<1> QED BY <1>2, <1>3 DEF FilmsInv

LEMMA SendKeeps ==
    ASSUME FilmsInv, NEW q, Films!Send(q), query' = q, timer' = None, answered' = answered,
           demo' = demo
    PROVE  FilmsInv'
<1>1. /\ demo \in {"debounced", "submitted"}
      /\ sent \in Nat /\ sent' = sent + 1 /\ answered \in 0..sent
      /\ requests' = requests \cup {[n |-> sent + 1, query |-> q]}
      /\ \A r \in requests : r.n \in 1..sent
  BY DEF FilmsInv, FilmsTypes, Films!Send
<1>2. FilmsTypes'
  BY <1>1 DEF FilmsTypes
<1>3. Latest' \in requests' /\ \A r \in requests' : r.n = sent' => r = Latest'
  BY <1>1 DEF Latest
<1> QED BY <1>2, <1>3 DEF FilmsInv, Asked

LEMMA SearchKeeps == ASSUME FilmsInv, Films!Search PROVE FilmsInv'
<1>1. timer = query
  BY DEF FilmsInv, FilmsTypes, Films!Search
<1>2. /\ Films!Send(query) /\ query' = query /\ timer' = None
      /\ answered' = answered /\ demo' = demo
  BY <1>1 DEF Films!Search
<1> HIDE DEF Films!Send
<1> QED BY <1>2, SendKeeps

LEMMA SubmitKeeps ==
    ASSUME FilmsInv, NEW q \in Queries \cup {Empty}, Films!Submit(q)
    PROVE  FilmsInv'
<1>1. timer = None
  BY DEF FilmsInv, FilmsTypes, Films!Submit
<1>2. Films!Send(q) /\ query' = q /\ timer' = None /\ answered' = answered /\ demo' = demo
  BY <1>1 DEF Films!Submit
<1> QED BY <1>2, SendKeeps

LEMMA OverKeeps ==
    ASSUME FilmsInv, NEW r \in requests, Films!Over(r),
           \/ results' = r.query /\ error' = error /\ silent' = silent
           \/ results' = results /\ (error' \/ silent') /\ (error => error') /\ (silent => silent')
    PROVE  FilmsInv'
<1>1. /\ sent \in Nat /\ sent' = sent /\ answered \in 0..sent /\ r.n \in 1..sent
      /\ requests' = requests \ {r} /\ query' = query /\ timer' = timer /\ demo' = demo
      /\ answered' = IF r.n > answered THEN r.n ELSE answered
      /\ overtaken' = (overtaken \/ r.n < answered)
      /\ \A s \in requests : s.n \in 1..sent
      /\ demo \in {"debounced", "submitted"}
      /\ timer # None => demo = "debounced" /\ timer = query
  BY DEF FilmsInv, FilmsTypes, Films!Over
<1>2. FilmsTypes'
  BY <1>1 DEF FilmsTypes
<1>3. Latest' = Latest
  BY <1>1 DEF Latest
<1>4. CASE (demo = "debounced" /\ query = Empty) \/ timer # None
  BY <1>1, <1>2, <1>4 DEF FilmsInv, Asked
<1>5. CASE Latest \in requests /\ \A s \in requests : s.n = sent => s = Latest
  <2>1. CASE r = Latest
    <3>1. r.n = sent /\ r.query = query
      BY <2>1 DEF Latest
    <3>2. answered' = sent' /\ (results' = query' \/ error' \/ silent')
      BY <1>1, <3>1
    <3>3. \A s \in requests' : s.n # sent'
      BY <1>1, <1>5, <2>1
    <3> QED BY <1>2, <3>2, <3>3 DEF FilmsInv, Asked
  <2>2. CASE r # Latest
    BY <1>1, <1>2, <1>3, <1>5, <2>2 DEF FilmsInv, Asked
  <2> QED BY <2>1, <2>2
<1>6. CASE /\ answered = sent
           /\ \A s \in requests : s.n = sent => s.query = query
           /\ results = query \/ error \/ overtaken \/ silent
  <2>1. answered' = sent'
    BY <1>1, <1>6
  <2>2. results' = query' \/ error' \/ overtaken' \/ silent'
    <3>1. CASE overtaken \/ r.n < answered
      BY <1>1, <3>1
    <3>2. CASE r.n = answered
      <4>1. r.query = query'
        BY <1>1, <1>6, <3>2
      <4> QED BY <4>1
    <3>3. r.n < answered \/ r.n = answered
      BY <1>1, <1>6
    <3> QED BY <3>1, <3>2, <3>3
  <2>3. \A s \in requests' : s.n = sent' => s.query = query'
    BY <1>1, <1>6
  <2> QED BY <1>2, <2>1, <2>2, <2>3 DEF FilmsInv, Asked
<1> QED BY <1>4, <1>5, <1>6 DEF FilmsInv, Asked

LEMMA FilmsStep == ASSUME FilmsInv, [Films!Next]_(Films!vars) PROVE FilmsInv'
<1>1. ASSUME NEW r \in requests, Films!Answer(r) PROVE FilmsInv'
  BY <1>1, OverKeeps DEF Films!Answer
<1>2. ASSUME NEW r \in requests, Films!Fail(r) PROVE FilmsInv'
  <2>1. demo = "debounced" \/ demo = "submitted"
    BY DEF FilmsInv, FilmsTypes
  <2>2. results' = results /\ (error' \/ silent') /\ (error => error') /\ (silent => silent')
    BY <1>2, <2>1, Zenon DEF Films!Fail
  <2> QED BY <1>2, <2>2, OverKeeps DEF Films!Fail
<1>3. CASE UNCHANGED Films!vars
  BY <1>3 DEF Films!vars, FilmsInv, FilmsTypes, Asked, Latest
<1> QED BY <1>1, <1>2, <1>3, TypeKeeps, SubmitKeeps, SearchKeeps DEF Films!Next

\* The list is that of the query over it once every request has ended, unless
\* an answer was overtaken or a failure passed in silence: the request sent
\* last is under way, or its answer is the list.
THEOREM ListAnswersQuery == Films!Spec => []ShownAnswersQuery
<1>1. FilmsInv => ShownAnswersQuery
  BY DEF FilmsInv, Asked, ShownAnswersQuery, Films!ShownAnswersQuery, Films!Shown
<1>2. FilmsInv /\ [Films!Next]_(Films!vars) => FilmsInv'
  BY FilmsStep
<1> QED BY <1>1, <1>2, FilmsInit, PTL DEF Films!Spec

-----------------------------------------------------------------------------
(* The service worker. *)

Shell(v) == Sw!Static(v)

\* Versions are handed out in order: the next worker is newer than the last.
Versions ==
    /\ build \in 1..MaxBuilds /\ cacheVersion \in 1..build
    /\ worker = [installing |-> worker.installing, waiting |-> worker.waiting,
                 active |-> worker.active, activated |-> worker.activated]
    /\ worker.active \in 0..cacheVersion
    /\ worker.waiting \in 0..cacheVersion /\ worker.installing \in 0..cacheVersion
    /\ worker.waiting # 0 => worker.active < worker.waiting
    /\ worker.installing # 0 => /\ worker.active < worker.installing
                                /\ worker.waiting < worker.installing
    /\ "controller" \in DOMAIN visit
    /\ visit.controller \in {0, worker.active}
    /\ worker.activated => worker.active # 0

\* A page that is still being put away is a page.
LatePages ==
    \A p \in late : /\ p.put \in {"page", "script", "json", "fetch"}
                    /\ p.put = "page" => p.of \in 1..MaxBuilds

\* Whoever has not lost its cache has the shell in it, once it is installed.
ShellKept(v, file) ==
    Shell(v) \in DOMAIN file /\ (v # worker.installing => file[Shell(v)].page # 0)

HasShells ==
    /\ \A n \in DOMAIN caches : "page" \in DOMAIN caches[n]
    /\ \A v \in {worker.installing, worker.waiting, worker.active} :
          v # 0 /\ v \notin cut => ShellKept(v, caches)

NoneOlder ==
    worker.activated =>
        \A v \in 1..(worker.active - 1) : {Sw!Static(v), Sw!Api(v)} \cap DOMAIN caches = {}

SwInv == Versions /\ LatePages /\ HasShells /\ NoneOlder

\* Names of caches.
LEMMA NamesDiffer ==
    \A v, w : Sw!Static(v) # Sw!Api(w) /\ (Sw!Static(v) = Sw!Static(w) => v = w)
              /\ (Sw!Api(v) = Sw!Api(w) => v = w)
BY DEF Sw!Static, Sw!Api

LEMMA OpenedIs ==
    ASSUME NEW name
    PROVE  /\ DOMAIN Sw!Opened(name) = DOMAIN caches \cup {name}
           /\ \A n \in DOMAIN caches : Sw!Opened(name)[n] = caches[n]
BY DEF Sw!Opened, Sw!Match

LEMMA OpenedHasPages ==
    ASSUME NEW name, \A n \in DOMAIN caches : "page" \in DOMAIN caches[n]
    PROVE  \A n \in DOMAIN Sw!Opened(name) : "page" \in DOMAIN Sw!Opened(name)[n]
BY DEF Sw!Opened, Sw!Match, Sw!Nothing

LEMMA WriteIs ==
    ASSUME NEW name, NEW entries
    PROVE  /\ DOMAIN Sw!Write(name, entries) = DOMAIN caches
           /\ \A n \in DOMAIN caches :
                Sw!Write(name, entries)[n] = IF n = name THEN entries ELSE caches[n]
BY DEF Sw!Write

LEMMA SwInit == ASSUME Sw!Init PROVE SwInv
BY BuildsAssumption
   DEF Sw!Init, Sw!NewVisit, SwInv, Versions, LatePages, HasShells, NoneOlder

-----------------------------------------------------------------------------
(* What keeps the caches as they are, or only adds to them. *)

\* A cache that is opened is this worker's or a newer one's.
LEMMA OpenedKeeps ==
    ASSUME SwInv, NEW v, v \in 1..cacheVersion, v >= worker.active,
           NEW name, name = Sw!Static(v) \/ name = Sw!Api(v),
           caches' = Sw!Opened(name), cut' = cut, worker' = worker
    PROVE  HasShells' /\ NoneOlder'
<1>1. /\ DOMAIN caches' = DOMAIN caches \cup {name}
      /\ \A n \in DOMAIN caches : caches'[n] = caches[n]
  BY OpenedIs
<1>0. \A n \in DOMAIN caches' : "page" \in DOMAIN caches'[n]
  BY OpenedHasPages DEF SwInv, HasShells
<1>2. HasShells'
  BY <1>0, <1>1 DEF SwInv, HasShells, ShellKept, Shell, Sw!Static
<1>3. ASSUME worker.activated, NEW w \in 1..(worker.active - 1)
      PROVE  {Sw!Static(w), Sw!Api(w)} \cap DOMAIN caches' = {}
  <2>1. w # v
    BY BuildsAssumption DEF SwInv, Versions
  <2>2. Sw!Static(w) # name /\ Sw!Api(w) # name
    BY <2>1, NamesDiffer
  <2>3. {Sw!Static(w), Sw!Api(w)} \cap DOMAIN caches = {}
    BY <1>3 DEF SwInv, NoneOlder
  <2> QED BY <1>1, <2>2, <2>3
<1> QED BY <1>2, <1>3 DEF NoneOlder, Sw!Static, Sw!Api

\* What is written into a cache leaves its page a page.
LEMMA WriteKeeps ==
    ASSUME SwInv, NEW name, NEW entries,
           Sw!Match(name).page # 0 => entries.page # 0, "page" \in DOMAIN entries,
           caches' = Sw!Write(name, entries), cut' = cut, worker' = worker
    PROVE  HasShells' /\ NoneOlder'
<1>1. /\ DOMAIN caches' = DOMAIN caches
      /\ \A n \in DOMAIN caches : caches'[n] = IF n = name THEN entries ELSE caches[n]
  BY WriteIs
<1>2. \A n \in DOMAIN caches : caches[n].page # 0 => caches'[n].page # 0
  BY <1>1 DEF Sw!Match
<1> QED BY <1>1, <1>2 DEF SwInv, HasShells, ShellKept, Shell, NoneOlder, Sw!Static, Sw!Api

LEMMA SameCaches ==
    ASSUME SwInv, caches' = caches, cut' = cut, worker' = worker
    PROVE  HasShells' /\ NoneOlder'
BY DEF SwInv, HasShells, ShellKept, Shell, NoneOlder, Sw!Static, Sw!Api

\* Only what a worker does changes which are there.
LEMMA SameVersions ==
    ASSUME SwInv, worker' = worker, build' = build, cacheVersion' = cacheVersion,
           visit'.controller \in {visit.controller, worker.active},
           "controller" \in DOMAIN visit'
    PROVE  Versions'
BY DEF SwInv, Versions

-----------------------------------------------------------------------------
(* The steps. *)

LEMMA DeployKeeps == ASSUME SwInv, Sw!Deploy PROVE SwInv'
<1>1. /\ build' = build + 1 /\ build < MaxBuilds /\ cacheVersion' \in {cacheVersion, build + 1}
      /\ worker' = worker /\ visit' = visit /\ late' = late /\ caches' = caches /\ cut' = cut
  BY DEF Sw!Deploy
<1>2. Versions'
  BY <1>1, BuildsAssumption DEF SwInv, Versions
<1> QED BY <1>1, <1>2, SameCaches DEF SwInv, LatePages

\* Pages and the network change no cache and no worker.
LEMMA PagesKeep ==
    ASSUME SwInv, \/ Sw!Connection \/ Sw!Register \/ Sw!ApplyUpdate \/ Sw!Visit
                  \/ Sw!LoadPage \/ Sw!LoadScript
    PROVE  SwInv'
<1>1. /\ worker' = worker /\ build' = build /\ cacheVersion' = cacheVersion
      /\ late' = late /\ caches' = caches /\ cut' = cut
  BY DEF Sw!Connection, Sw!Register, Sw!ApplyUpdate, Sw!Visit, Sw!LoadPage, Sw!LoadScript
<1>2. visit'.controller \in {visit.controller, worker.active} /\ "controller" \in DOMAIN visit'
  <2>0. "controller" \in DOMAIN visit
    BY DEF SwInv, Versions
  <2>1. CASE Sw!Connection
    BY <2>0, <2>1 DEF Sw!Connection
  <2>2. CASE Sw!Register
    BY <2>0, <2>2 DEF Sw!Register
  <2>3. CASE Sw!ApplyUpdate \/ Sw!Visit
    BY <2>0, <2>3 DEF Sw!ApplyUpdate, Sw!Visit, Sw!NewVisit
  <2>4. CASE Sw!LoadPage \/ Sw!LoadScript
    <3>1. \/ \E b : visit' = [visit EXCEPT !.build = b, !.at = "script"]
          \/ \E at : visit' = [visit EXCEPT !.at = at]
      BY <2>4, Zenon DEF Sw!LoadPage, Sw!LoadScript, Sw!Shows, Sw!Ends
    <3> QED BY <2>0, <3>1
  <2> QED BY <2>1, <2>2, <2>3, <2>4
<1> QED BY <1>1, <1>2, SameVersions, SameCaches DEF SwInv, LatePages

LEMMA InstallKeeps == ASSUME SwInv, Sw!Install PROVE SwInv'
<1>1. /\ worker.installing = 0 /\ cacheVersion # Sw!Newest
      /\ worker' = [worker EXCEPT !.installing = cacheVersion]
      /\ caches' = Sw!Opened(Shell(cacheVersion))
      /\ visit'.controller = visit.controller /\ "controller" \in DOMAIN visit'
      /\ build' = build /\ cacheVersion' = cacheVersion /\ late' = late /\ cut' = cut
  BY DEF Sw!Install, Shell, SwInv, Versions
<1>2. /\ worker'.installing = cacheVersion /\ worker'.waiting = worker.waiting
      /\ worker'.active = worker.active /\ worker'.activated = worker.activated
      /\ worker' = [installing |-> worker'.installing, waiting |-> worker'.waiting,
                    active |-> worker'.active, activated |-> worker'.activated]
  BY <1>1 DEF SwInv, Versions
<1>3. worker.active < cacheVersion /\ worker.waiting < cacheVersion
  BY <1>1, BuildsAssumption DEF SwInv, Versions, Sw!Newest
<1>4. Versions'
  BY <1>1, <1>2, <1>3 DEF SwInv, Versions
<1>5. /\ DOMAIN caches' = DOMAIN caches \cup {Shell(cacheVersion)}
      /\ \A n \in DOMAIN caches : caches'[n] = caches[n]
  BY <1>1, OpenedIs
<1>9. \A n \in DOMAIN caches' : "page" \in DOMAIN caches'[n]
  BY <1>1, OpenedHasPages DEF SwInv, HasShells
<1>6. HasShells'
  BY <1>1, <1>2, <1>3, <1>5, <1>9 DEF SwInv, HasShells, ShellKept, Shell, Sw!Static
<1>7. ASSUME worker.activated, NEW w \in 1..(worker.active - 1)
      PROVE  {Sw!Static(w), Sw!Api(w)} \cap DOMAIN caches' = {}
  <2>1. w # cacheVersion
    BY <1>3, BuildsAssumption DEF SwInv, Versions
  <2>2. Sw!Static(w) # Shell(cacheVersion) /\ Sw!Api(w) # Shell(cacheVersion)
    BY <2>1, NamesDiffer DEF Shell
  <2>3. {Sw!Static(w), Sw!Api(w)} \cap DOMAIN caches = {}
    BY <1>7 DEF SwInv, NoneOlder
  <2> QED BY <1>5, <2>2, <2>3
<1>8. NoneOlder'
  BY <1>2, <1>7 DEF NoneOlder, Sw!Static, Sw!Api
<1> QED BY <1>1, <1>4, <1>6, <1>8 DEF SwInv, LatePages

LEMMA PrecachedKeeps == ASSUME SwInv, Sw!Precached PROVE SwInv'
<1> DEFINE v == worker.installing
           entries == [Sw!Match(Sw!Static(v)) EXCEPT !.page = build]
<1>1. /\ v # 0 /\ caches' = Sw!Write(Sw!Static(v), entries)
      /\ worker' = [worker EXCEPT !.installing = 0, !.waiting = v]
      /\ visit' = Sw!Installed(v)
      /\ build' = build /\ cacheVersion' = cacheVersion /\ late' = late /\ cut' = cut
  BY DEF Sw!Precached
<1>2. visit'.controller = visit.controller /\ "controller" \in DOMAIN visit'
  BY <1>1 DEF Sw!Installed, SwInv, Versions
<1>3. /\ worker'.installing = 0 /\ worker'.waiting = v
      /\ worker'.active = worker.active /\ worker'.activated = worker.activated
      /\ worker' = [installing |-> worker'.installing, waiting |-> worker'.waiting,
                    active |-> worker'.active, activated |-> worker'.activated]
  BY <1>1 DEF SwInv, Versions
<1>4. Versions'
  BY <1>1, <1>2, <1>3 DEF SwInv, Versions
<1>5. /\ DOMAIN caches' = DOMAIN caches
      /\ \A n \in DOMAIN caches : caches'[n] = IF n = Sw!Static(v) THEN entries ELSE caches[n]
  BY <1>1, WriteIs
<1>6. Sw!Static(v) \in DOMAIN caches => entries.page # 0 /\ "page" \in DOMAIN entries
  BY BuildsAssumption DEF SwInv, Versions, HasShells, Sw!Match
<1> HIDE DEF entries
<1>7. HasShells'
  BY <1>1, <1>3, <1>5, <1>6, NamesDiffer DEF SwInv, HasShells, ShellKept, Shell
<1>8. NoneOlder'
  BY <1>3, <1>5 DEF SwInv, NoneOlder, Sw!Static, Sw!Api
<1> QED BY <1>1, <1>4, <1>7, <1>8 DEF SwInv, LatePages

LEMMA PrecacheFailsKeeps == ASSUME SwInv, Sw!PrecacheFails PROVE SwInv'
<1>1. /\ worker' = [worker EXCEPT !.installing = 0] /\ visit' = visit /\ caches' = caches
      /\ build' = build /\ cacheVersion' = cacheVersion /\ late' = late /\ cut' = cut
  BY DEF Sw!PrecacheFails
<1>2. /\ worker'.installing = 0 /\ worker'.waiting = worker.waiting
      /\ worker'.active = worker.active /\ worker'.activated = worker.activated
      /\ worker' = [installing |-> worker'.installing, waiting |-> worker'.waiting,
                    active |-> worker'.active, activated |-> worker'.activated]
  BY <1>1 DEF SwInv, Versions
<1>3. Versions'
  BY <1>1, <1>2 DEF SwInv, Versions
<1>4. HasShells' /\ NoneOlder'
  BY <1>1, <1>2 DEF SwInv, Versions, HasShells, ShellKept, NoneOlder, Shell, Sw!Static, Sw!Api
<1> QED BY <1>1, <1>3, <1>4 DEF SwInv, LatePages

LEMMA ActivateKeeps == ASSUME SwInv, Sw!Activate PROVE SwInv'
<1>1. /\ worker.waiting # 0
      /\ worker' = [worker EXCEPT !.waiting = 0, !.active = worker.waiting, !.activated = FALSE]
      /\ visit'.controller = worker.waiting /\ "controller" \in DOMAIN visit' /\ caches' = caches
      /\ build' = build /\ cacheVersion' = cacheVersion /\ late' = late /\ cut' = cut
  <2>1. visit' = [visit EXCEPT !.controller = worker.waiting]
    BY DEF Sw!Activate
  <2> QED BY <2>1 DEF Sw!Activate, SwInv, Versions
<1>2. /\ worker'.installing = worker.installing /\ worker'.waiting = 0
      /\ worker'.active = worker.waiting /\ worker'.activated = FALSE
      /\ worker' = [installing |-> worker'.installing, waiting |-> worker'.waiting,
                    active |-> worker'.active, activated |-> worker'.activated]
  BY <1>1 DEF SwInv, Versions
<1>3. Versions'
  BY <1>1, <1>2 DEF SwInv, Versions
<1>4. HasShells' /\ NoneOlder'
  BY <1>1, <1>2 DEF SwInv, HasShells, ShellKept, NoneOlder, Shell, Sw!Static
<1> QED BY <1>1, <1>3, <1>4 DEF SwInv, LatePages

\* A newer worker whose cache goes is one of those that are cut.
LEMMA CleanupKeeps == ASSUME SwInv, Sw!Cleanup PROVE SwInv'
<1> DEFINE v == worker.active
           current == {Sw!Static(v), Sw!Api(v)}
<1>1. /\ v # 0 /\ caches' = Restrict(caches, current \cap DOMAIN caches)
      /\ cut' = cut \cup {w \in Sw!Builds : Sw!Static(w) \in DOMAIN caches \ current /\ w > v}
      /\ worker' = [worker EXCEPT !.activated = TRUE]
      /\ build' = build /\ cacheVersion' = cacheVersion /\ late' = late
      /\ visit' = visit \/ visit' = [visit EXCEPT !.swState = "active"]
  BY DEF Sw!Cleanup, Sw!Restrict, Restrict
<1>2. visit'.controller = visit.controller /\ "controller" \in DOMAIN visit'
  BY <1>1 DEF SwInv, Versions
<1>3. /\ worker'.installing = worker.installing /\ worker'.waiting = worker.waiting
      /\ worker'.active = v /\ worker'.activated = TRUE
      /\ worker' = [installing |-> worker'.installing, waiting |-> worker'.waiting,
                    active |-> worker'.active, activated |-> worker'.activated]
  BY <1>1 DEF SwInv, Versions
<1>4. Versions'
  BY <1>1, <1>2, <1>3 DEF SwInv, Versions
<1>5. /\ DOMAIN caches' = current \cap DOMAIN caches
      /\ \A n \in DOMAIN caches' : caches'[n] = caches[n]
  BY <1>1 DEF Restrict
<1>6. ASSUME NEW w \in {worker.installing, worker.waiting, v}, w # 0, w \notin cut'
      PROVE  /\ Shell(w) \in DOMAIN caches'
             /\ w # worker.installing => caches'[Shell(w)].page # 0
  <2>1. /\ Shell(w) \in DOMAIN caches
        /\ w # worker.installing => caches[Shell(w)].page # 0
    BY <1>1, <1>6 DEF SwInv, HasShells, ShellKept
  <2>2. w \in Sw!Builds /\ (w # v => w > v)
    BY <1>6, BuildsAssumption DEF SwInv, Versions, Sw!Builds
  <2>3. Shell(w) \in current
    BY <1>1, <1>6, <2>1, <2>2 DEF Shell
  <2> QED BY <1>5, <2>1, <2>3
<1>0. \A n \in DOMAIN caches' : "page" \in DOMAIN caches'[n]
  BY <1>5 DEF SwInv, HasShells
<1>7. HasShells'
  BY <1>0, <1>3, <1>6 DEF HasShells, ShellKept, Shell, Sw!Static
<1>8. ASSUME NEW w \in 1..(v - 1)
      PROVE  {Sw!Static(w), Sw!Api(w)} \cap DOMAIN caches' = {}
  <2>1. w # v
    BY BuildsAssumption DEF SwInv, Versions
  <2>2. \A n \in current : Sw!Static(w) # n /\ Sw!Api(w) # n
    BY <2>1, NamesDiffer
  <2> QED BY <1>5, <2>2
<1>9. NoneOlder'
  BY <1>3, <1>8 DEF NoneOlder, Sw!Static, Sw!Api
<1> QED BY <1>1, <1>4, <1>7, <1>9 DEF SwInv, LatePages

\* A worker that answers opens its own caches.
LEMMA AnswerKeeps ==
    ASSUME SwInv, \/ Sw!StaleWhileRevalidate \/ Sw!CacheFirst \/ Sw!NetworkFirst
    PROVE  SwInv'
<1> DEFINE v == visit.controller
<1>1. /\ worker' = worker /\ build' = build /\ cacheVersion' = cacheVersion /\ cut' = cut
      /\ v # 0
  BY DEF Sw!StaleWhileRevalidate, Sw!CacheFirst, Sw!NetworkFirst, Sw!Answering
<1>2. v = worker.active /\ v \in 1..cacheVersion /\ build \in 1..MaxBuilds
      /\ "controller" \in DOMAIN visit
  BY <1>1, BuildsAssumption DEF SwInv, Versions
<1>3. caches' = Sw!Opened(Sw!Static(v)) \/ caches' = Sw!Opened(Sw!Api(v))
  BY DEF Sw!StaleWhileRevalidate, Sw!CacheFirst, Sw!NetworkFirst
<1>4. visit'.controller = v /\ "controller" \in DOMAIN visit'
  <2>1. \/ \E b : visit' = [visit EXCEPT !.build = b, !.at = "script"]
        \/ \E at : visit' = [visit EXCEPT !.at = at]
        \/ visit' = visit
    <3>1. CASE Sw!StaleWhileRevalidate
      BY <3>1, Zenon DEF Sw!StaleWhileRevalidate, Sw!Shows, Sw!Ends
    <3>2. CASE Sw!CacheFirst
      BY <3>2, Zenon DEF Sw!CacheFirst, Sw!Ends
    <3>3. CASE Sw!NetworkFirst
      BY <3>3 DEF Sw!NetworkFirst
    <3> QED BY <3>1, <3>2, <3>3
  <2> QED BY <1>2, <2>1
<1>5. LatePages'
  <2>1. CASE Sw!StaleWhileRevalidate
    <3>1. \/ late' = late
          \/ late' = late \cup {[put |-> "fetch", of |-> 0, in |-> Sw!Static(v)]}
          \/ late' = late \cup {[put |-> "page", of |-> build, in |-> Sw!Static(v)]}
      BY <2>1, Zenon DEF Sw!StaleWhileRevalidate
    <3> QED BY <1>2, <3>1 DEF SwInv, LatePages
  <2>2. CASE Sw!CacheFirst
    BY <2>2 DEF Sw!CacheFirst, SwInv, LatePages
  <2>3. CASE Sw!NetworkFirst
    BY <2>3 DEF Sw!NetworkFirst, SwInv, LatePages
  <2> QED BY <2>1, <2>2, <2>3
<1> HIDE DEF v
<1>6. HasShells' /\ NoneOlder'
  <2>1. v >= worker.active
    BY <1>2 DEF SwInv, Versions
  <2> QED BY <1>1, <1>2, <1>3, <2>1, OpenedKeeps
<1> QED BY <1>1, <1>4, <1>2, <1>5, <1>6, SameVersions DEF SwInv

LEMMA FinishKeeps == ASSUME SwInv, NEW p \in late, Sw!Finish(p) PROVE SwInv'
<1> DEFINE had == Sw!Match(p.in)
           has == CASE p.put = "page" -> [had EXCEPT !.page = p.of]
                    [] p.put = "script" -> [had EXCEPT !.scripts = @ \cup {p.of}]
                    [] p.put = "json" -> [had EXCEPT !.json = p.of]
                    [] p.put = "fetch" -> [had EXCEPT !.page = IF online THEN build ELSE @]
<1>1. /\ worker' = worker /\ build' = build /\ cacheVersion' = cacheVersion /\ cut' = cut
      /\ visit' = visit /\ late' = late \ {p} /\ caches' \in {caches, Sw!Write(p.in, has)}
  BY DEF Sw!Finish
<1>2. /\ p.put = "page" => p.of \in 1..MaxBuilds
      /\ build \in 1..MaxBuilds
  BY DEF SwInv, LatePages, Versions
<1>3. (had.page # 0 => has.page # 0) /\ "page" \in DOMAIN has
  <2>0. "page" \in DOMAIN had
    BY DEF SwInv, HasShells, Sw!Match, Sw!Nothing
  <2> HIDE DEF had
  <2>1. CASE p.put = "page"
    BY <1>2, <2>0, <2>1
  <2>2. CASE p.put = "script"
    BY <2>0, <2>2
  <2>3. CASE p.put = "json"
    BY <2>0, <2>3
  <2>4. CASE p.put = "fetch"
    BY <1>2, <2>0, <2>4
  <2> QED BY <2>1, <2>2, <2>3, <2>4 DEF SwInv, LatePages
<1>4. HasShells' /\ NoneOlder'
  <2>1. CASE caches' = caches
    BY <1>1, <2>1, SameCaches
  <2>2. CASE caches' = Sw!Write(p.in, has)
    <3> HIDE DEF has
    <3> QED BY <1>1, <1>3, <2>2, WriteKeeps
  <2> QED BY <1>1, <2>1, <2>2
<1> QED BY <1>1, <1>4, SameVersions DEF SwInv, Versions, LatePages

LEMMA SwStep == ASSUME SwInv, [Sw!Next]_(Sw!vars) PROVE SwInv'
<1>1. CASE UNCHANGED Sw!vars
  BY <1>1, SameCaches, SameVersions DEF Sw!vars, SwInv, Versions, LatePages
<1> QED BY <1>1, DeployKeeps, PagesKeep, InstallKeeps, PrecachedKeeps, PrecacheFailsKeeps,
           ActivateKeeps, CleanupKeeps, AnswerKeeps, FinishKeeps DEF Sw!Next

\* Once a worker is activated no cache of an older one is left, and its own has
\* the shell unless it was cut, though what the older one began, and puts into
\* a cache it opened before, may still be finishing (public/sw.js).
THEOREM OldCachesGone == Sw!Spec => []CachesAreCurrent
<1>1. SwInv => CachesAreCurrent
  <2>1. ASSUME SwInv, worker.activated, worker.active \notin cut
        PROVE  Sw!Match(Sw!Static(worker.active)).page # 0
    BY <2>1 DEF SwInv, Versions, HasShells, ShellKept, Shell, Sw!Match
  <2> QED BY <2>1 DEF SwInv, NoneOlder, CachesAreCurrent, Sw!CachesAreCurrent
<1>2. SwInv /\ [Sw!Next]_(Sw!vars) => SwInv'
  BY SwStep
<1> QED BY <1>1, <1>2, SwInit, PTL DEF Sw!Spec

-----------------------------------------------------------------------------
(* The notes. *)

At(at, c, state) == [at EXCEPT ![c] = state]

Goes(state, step) == [state EXCEPT !.step = step]

Slots == {Idle} \cup Pad!CallState

\* Which steps a call of a kind takes.
Sensible(state) ==
    /\ state.step = "fetch" => state.kind \in {"init", "sync"}
    /\ state.step = "find" => state.kind = "update"
    /\ state.step = "delete" => state.kind = "remove"
    /\ state.step = "save" => state.kind # "remove"
    /\ state.kind = "add" => state.id \in OwnNotes

CallsFit(at, p) ==
    /\ at \in [Calls -> Slots]
    /\ \A c \in Calls : at[c] # Idle => Sensible(at[c]) /\ at[c].page \in 1..p

\* The queue holds the calls that wait for IndexedDB, each once.
Asking(state) == state # Idle /\ state.step # "fetch"

QueueFits(q, at) ==
    /\ q \in Seq(Calls)
    /\ \A j, k \in 1..Len(q) : q[j] = q[k] => j = k
    /\ \A c \in Calls : Asking(at[c]) <=> \E j \in 1..Len(q) : q[j] = c

Runs(q, at, p) == CallsFit(at, p) /\ QueueFits(q, at)

-----------------------------------------------------------------------------

LEMMA TailIs ==
    ASSUME NEW q \in Seq(Calls), q # <<>>
    PROVE  /\ Tail(q) \in Seq(Calls) /\ Len(q) \in Nat \ {0} /\ Len(Tail(q)) = Len(q) - 1
           /\ Head(q) = q[1] /\ q[1] \in Calls
           /\ \A j \in 1..Len(Tail(q)) : Tail(q)[j] = q[j + 1]
OBVIOUS

LEMMA AppendIs ==
    ASSUME NEW q \in Seq(Calls), NEW c \in Calls
    PROVE  /\ Append(q, c) \in Seq(Calls) /\ Len(q) \in Nat /\ Len(Append(q, c)) = Len(q) + 1
           /\ Append(q, c)[Len(q) + 1] = c
           /\ \A j \in 1..Len(q) : Append(q, c)[j] = q[j]
OBVIOUS

LEMMA AtIs ==
    ASSUME NEW at \in [Calls -> Slots], NEW c \in Calls, NEW state \in Slots
    PROVE  /\ At(at, c, state) \in [Calls -> Slots]
           /\ At(at, c, state)[c] = state
           /\ \A d \in Calls : d # c => At(at, c, state)[d] = at[d]
BY DEF At

\* A call that waits for nothing changes outside the queue.
LEMMA RunsOutside ==
    ASSUME NEW q, NEW at, NEW p, Runs(q, at, p), NEW c \in Calls,
           NEW state \in Slots, ~Asking(at[c]), ~Asking(state),
           state # Idle => Sensible(state) /\ state.page \in 1..p
    PROVE  Runs(q, At(at, c, state), p)
<1> DEFINE new == At(at, c, state)
<1>1. /\ new \in [Calls -> Slots] /\ new[c] = state
      /\ \A d \in Calls : d # c => new[d] = at[d]
  BY AtIs DEF Runs, CallsFit
<1> HIDE DEF new
<1>2. CallsFit(new, p)
  BY <1>1 DEF Runs, CallsFit
<1>3. q \in Seq(Calls) /\ \A j \in 1..Len(q) : q[j] \in Calls /\ new[q[j]] = at[q[j]]
  BY <1>1 DEF Runs, QueueFits
<1>4. QueueFits(q, new)
  BY <1>1, <1>3 DEF Runs, QueueFits
<1> QED BY <1>2, <1>4 DEF Runs, new

\* A call that waits for nothing makes a request.
LEMMA RunsJoined ==
    ASSUME NEW q, NEW at, NEW p, Runs(q, at, p), NEW c \in Calls,
           NEW state \in Pad!CallState, ~Asking(at[c]), Asking(state),
           Sensible(state), state.page \in 1..p
    PROVE  Runs(Append(q, c), At(at, c, state), p)
<1> DEFINE new == At(at, c, state)
           n == Len(q) + 1
           r == Append(q, c)
<1>1. /\ new \in [Calls -> Slots] /\ new[c] = state
      /\ \A d \in Calls : d # c => new[d] = at[d]
  BY AtIs DEF Runs, CallsFit, Slots
<1>2. /\ q \in Seq(Calls) /\ r \in Seq(Calls) /\ n \in Nat /\ Len(r) = n /\ Len(q) = n - 1
      /\ r[n] = c /\ \A j \in 1..(n - 1) : r[j] = q[j] /\ q[j] \in Calls /\ q[j] # c
  BY AppendIs DEF Runs, QueueFits
<1> HIDE DEF new, n, r
<1>3. CallsFit(new, p)
  BY <1>1 DEF Runs, CallsFit
<1>4. /\ \A j \in 1..(n - 1) : r[j] \in Calls /\ r[j] # c /\ new[r[j]] = at[q[j]]
      /\ new[r[n]] = state
      /\ 1..Len(q) = 1..(n - 1)
      /\ \A j \in 1..n : j \in 1..(n - 1) \/ j = n
  BY <1>1, <1>2
<1>5. QueueFits(r, new)
  <2>1. \A j, k \in 1..n : r[j] = r[k] => j = k
    BY <1>2, <1>4 DEF Runs, QueueFits
  <2>2. ASSUME NEW d \in Calls PROVE Asking(new[d]) <=> \E j \in 1..n : r[j] = d
    <3>1. CASE d = c
      BY <1>1, <1>2, <3>1
    <3>2. CASE d # c
      <4>1. Asking(at[d]) <=> \E j \in 1..(n - 1) : q[j] = d
        BY <1>4 DEF Runs, QueueFits
      <4> QED BY <1>1, <1>2, <1>4, <3>2, <4>1
    <3> QED BY <3>1, <3>2
  <2> QED BY <1>2, <2>1, <2>2 DEF QueueFits
<1> QED BY <1>3, <1>5 DEF Runs, new, r

\* The call that is served first makes its next request, behind all others.
LEMMA RunsServed ==
    ASSUME NEW q, NEW at, NEW p, Runs(q, at, p), q # <<>>,
           NEW step, step = "read" \/ (step = "save" /\ at[Head(q)].step = "find")
    PROVE  Runs(Append(Tail(q), Head(q)), At(at, Head(q), Goes(at[Head(q)], step)), p)
<1> DEFINE c == Head(q)
           state == Goes(at[c], step)
           new == At(at, c, state)
           n == Len(q)
           r == Append(Tail(q), c)
<1>1. /\ q \in Seq(Calls) /\ n \in Nat \ {0} /\ c = q[1] /\ c \in Calls
      /\ \A j \in 1..n : q[j] \in Calls
      /\ r \in Seq(Calls) /\ Len(r) = n /\ r[n] = c
      /\ \A j \in 1..(n - 1) : r[j] = q[j + 1]
  <2>1. q \in Seq(Calls)
    BY DEF Runs, QueueFits
  <2>2. /\ Tail(q) \in Seq(Calls) /\ n \in Nat \ {0} /\ Len(Tail(q)) = n - 1
        /\ c = q[1] /\ c \in Calls
        /\ \A j \in 1..Len(Tail(q)) : Tail(q)[j] = q[j + 1]
    BY <2>1, TailIs
  <2> HIDE DEF n, c
  <2>3. /\ r \in Seq(Calls) /\ Len(r) = Len(Tail(q)) + 1 /\ r[Len(Tail(q)) + 1] = c
        /\ \A j \in 1..Len(Tail(q)) : r[j] = Tail(q)[j]
    BY <2>2, AppendIs
  <2> HIDE DEF r
  <2> QED BY <2>1, <2>2, <2>3 DEF n
<1>2. /\ Asking(at[c]) /\ at[c] \in Pad!CallState /\ Sensible(at[c]) /\ at[c].page \in 1..p
  BY <1>1 DEF Runs, QueueFits, CallsFit, Slots, Asking
<1>3. /\ state \in Pad!CallState /\ Asking(state) /\ state.step = step
      /\ state.kind = at[c].kind /\ state.id = at[c].id /\ state.page = at[c].page
      /\ Sensible(state)
  BY <1>2, NotesAssumption DEF Goes, Pad!CallState, Sensible, Asking
<1>4. /\ new \in [Calls -> Slots] /\ new[c] = state
      /\ \A d \in Calls : d # c => new[d] = at[d]
  BY <1>1, <1>3, AtIs DEF Runs, CallsFit, Slots
<1> HIDE DEF new, n, r, c, state
<1>5. CallsFit(new, p)
  BY <1>2, <1>3, <1>4 DEF Runs, CallsFit
<1>6. /\ \A j \in 1..(n - 1) : /\ j + 1 \in 1..n /\ r[j] \in Calls /\ r[j] # c
                               /\ new[r[j]] = at[q[j + 1]]
      /\ new[r[n]] = state
      /\ \A j \in 1..n : j \in 1..(n - 1) \/ j = n
  <2>1. \A j \in 1..(n - 1) : j + 1 \in 1..n /\ q[j + 1] # q[1]
    BY <1>1 DEF Runs, QueueFits, n
  <2> QED BY <1>1, <1>4, <2>1
<1>7. QueueFits(r, new)
  <2>1. ASSUME NEW j \in 1..n, NEW k \in 1..n, r[j] = r[k] PROVE j = k
    <3>1. CASE j \in 1..(n - 1) /\ k \in 1..(n - 1)
      <4>1. q[j + 1] = q[k + 1] /\ j + 1 \in 1..n /\ k + 1 \in 1..n
        BY <1>1, <1>6, <2>1, <3>1
      <4>2. j + 1 = k + 1
        BY <4>1 DEF Runs, QueueFits, n
      <4> QED BY <1>1, <4>2
    <3> QED BY <1>1, <1>6, <2>1, <3>1
  <2>2. ASSUME NEW d \in Calls PROVE Asking(new[d]) <=> \E j \in 1..n : r[j] = d
    <3>1. CASE d = c
      BY <1>1, <1>3, <1>4, <3>1
    <3>2. CASE d # c
      <4>1. Asking(at[d]) <=> \E j \in 1..n : q[j] = d
        BY DEF Runs, QueueFits, n
      <4>2. \A j \in 1..n : q[j] = d => j - 1 \in 1..(n - 1) /\ q[(j - 1) + 1] = d
        BY <1>1, <3>2
      <4>3. (\E j \in 1..n : q[j] = d) => \E j \in 1..n : r[j] = d
        <5> SUFFICES ASSUME NEW j \in 1..n, q[j] = d PROVE \E k \in 1..n : r[k] = d
          OBVIOUS
        <5>1. j - 1 \in 1..(n - 1) /\ q[(j - 1) + 1] = d
          BY <4>2
        <5>2. r[j - 1] = d /\ j - 1 \in 1..n
          BY <1>1, <5>1
        <5> QED BY <5>2
      <4>4. (\E j \in 1..n : r[j] = d) => \E j \in 1..n : q[j] = d
        BY <1>1, <1>6, <3>2
      <4> QED BY <1>4, <3>2, <4>1, <4>3, <4>4
    <3> QED BY <3>1, <3>2
  <2> QED BY <1>1, <2>1, <2>2 DEF QueueFits
<1> QED BY <1>5, <1>7 DEF Runs, new, r, c, state

\* The call that is served first ends.
LEMMA RunsEnded ==
    ASSUME NEW q, NEW at, NEW p, Runs(q, at, p), q # <<>>
    PROVE  Runs(Tail(q), At(at, Head(q), Idle), p)
<1> DEFINE c == Head(q)
           new == At(at, c, Idle)
           n == Len(q)
           r == Tail(q)
<1>1. /\ q \in Seq(Calls) /\ n \in Nat \ {0} /\ c = q[1] /\ c \in Calls
      /\ r \in Seq(Calls) /\ Len(r) = n - 1
      /\ \A j \in 1..(n - 1) : r[j] = q[j + 1]
  BY TailIs DEF Runs, QueueFits
<1>2. /\ new \in [Calls -> Slots] /\ new[c] = Idle
      /\ \A d \in Calls : d # c => new[d] = at[d]
  <2>1. at \in [Calls -> Slots] /\ Idle \in Slots /\ c \in Calls
    BY <1>1 DEF Runs, CallsFit, Slots
  <2> HIDE DEF c
  <2> QED BY <2>1, AtIs
<1> HIDE DEF new, n, r, c
<1>3. CallsFit(new, p)
  BY <1>2 DEF Runs, CallsFit
<1>4. \A j \in 1..(n - 1) : /\ j + 1 \in 1..n /\ r[j] \in Calls /\ r[j] # c
                            /\ new[r[j]] = at[q[j + 1]]
  <2>1. \A j \in 1..(n - 1) : j + 1 \in 1..n /\ q[j + 1] # q[1] /\ q[j + 1] \in Calls
    BY <1>1 DEF Runs, QueueFits, n
  <2> QED BY <1>1, <1>2, <2>1
<1>5. QueueFits(r, new)
  <2>1. ASSUME NEW j \in 1..(n - 1), NEW k \in 1..(n - 1), r[j] = r[k] PROVE j = k
    <3>1. q[j + 1] = q[k + 1] /\ j + 1 \in 1..n /\ k + 1 \in 1..n
      BY <1>1, <1>4, <2>1
    <3>2. j + 1 = k + 1
      BY <3>1 DEF Runs, QueueFits, n
    <3> QED BY <1>1, <3>2
  <2>2. ASSUME NEW d \in Calls PROVE Asking(new[d]) <=> \E j \in 1..(n - 1) : r[j] = d
    <3>1. CASE d = c
      BY <1>2, <1>4, <3>1 DEF Asking
    <3>2. CASE d # c
      <4>1. Asking(at[d]) <=> \E j \in 1..n : q[j] = d
        BY DEF Runs, QueueFits, n
      <4>2. (\E j \in 1..n : q[j] = d) => \E j \in 1..(n - 1) : r[j] = d
        <5> SUFFICES ASSUME NEW j \in 1..n, q[j] = d PROVE \E k \in 1..(n - 1) : r[k] = d
          OBVIOUS
        <5>1. j - 1 \in 1..(n - 1) /\ q[(j - 1) + 1] = d
          BY <1>1, <3>2
        <5>2. r[j - 1] = d
          BY <1>1, <5>1
        <5> QED BY <5>1, <5>2
      <4>3. (\E j \in 1..(n - 1) : r[j] = d) => \E j \in 1..n : q[j] = d
        BY <1>1, <1>4
      <4> QED BY <1>2, <3>2, <4>1, <4>2, <4>3
    <3> QED BY <3>1, <3>2
  <2> QED BY <1>1, <2>1, <2>2 DEF QueueFits
<1> QED BY <1>3, <1>5 DEF Runs, new, r, c

\* The page is opened anew: no call is of the new one.
LEMMA RunsTurned ==
    ASSUME NEW q, NEW at, NEW p \in Nat, Runs(q, at, p)
    PROVE  Runs(q, at, p + 1)
BY DEF Runs, CallsFit

-----------------------------------------------------------------------------

PadTypes ==
    /\ page \in 1..MaxOpens /\ failures \in Nat
    /\ loading \in BOOLEAN /\ leftBusy \in BOOLEAN
    /\ apiNoteIds \subseteq ApiNotes
    /\ store = [i \in DOMAIN store |-> store[i]]

PadRuns == Runs(queue, call, page)

\* A call that is going to set the list, if nothing is refused.
Reads(state) == state # Idle /\ (state.kind = "init" \/ state.step = "read")

ShownTexts == [i \in DOMAIN notes |-> notes[i].text]

\* The list is what is stored or is going to be set; so is the spinner.
ListComes ==
    failures = 0 /\ ~leftBusy =>
        /\ \A c \in Calls : call[c] # Idle => call[c].page = page
        /\ ShownTexts = store \/ \E c \in Calls : Reads(call[c])
        /\ loading => \E c \in Calls : Reads(call[c]) /\ call[c].kind # "sync"

Saves(state, kind) == state # Idle /\ state.step = "save" /\ state.kind = kind

Names(state, id) ==
    state # Idle /\ state.kind \in {"add", "update", "remove"} /\ state.id = id

\* A note of the user that the page knows is stored or was deleted, and so is one
\* that an update found; a note that is new is nobody else's business.
Gone ==
    /\ removed \subseteq OwnNotes
    /\ (DOMAIN notes \cup editor) \cap OwnNotes \subseteq DOMAIN store \cup removed
    /\ \A c \in Calls :
         /\ Saves(call[c], "update") /\ call[c].id \in OwnNotes =>
              call[c].id \in DOMAIN store \/ c \in stale
         /\ Saves(call[c], "add") =>
              /\ call[c].id \notin DOMAIN store \cup removed
              /\ \A d \in Calls : d # c => ~Names(call[d], call[c].id)

PadInv == PadTypes /\ PadRuns /\ ListComes /\ Gone

LEMMA FirstCall == Pad!InitCall \in Pad!CallState /\ Sensible(Pad!InitCall)
                   /\ ~Asking(Pad!InitCall) /\ Reads(Pad!InitCall)
                   /\ Pad!InitCall.page = 1 /\ Pad!InitCall.kind = "init"
BY NotesAssumption
   DEF Pad!InitCall, Pad!CallState, Pad!NoNotes, Sensible, Asking, Reads, Pad!Ids

LEMMA PadStarts == ASSUME Pad!Init PROVE PadInv
<1>1. PICK c \in Calls : call = [s \in Calls |-> IF s = c THEN Pad!InitCall ELSE Idle]
  BY DEF Pad!Init
<1>2. /\ store = <<>> /\ queue = <<>> /\ page = 1 /\ apiNoteIds = {} /\ notes = <<>>
      /\ removed = {} /\ failures = 0 /\ leftBusy = FALSE /\ loading = TRUE /\ editor = {}
  BY DEF Pad!Init, Pad!NoNotes
<1>3. PadTypes
  <2>1. <<>> = [i \in {} |-> store[i]] /\ DOMAIN <<>> = {}
    OBVIOUS
  <2>2. store = [i \in DOMAIN store |-> store[i]]
    BY <1>2, <2>1, Zenon
  <2>3. page \in 1..MaxOpens /\ failures \in Nat /\ apiNoteIds \subseteq ApiNotes
    BY <1>2, NotesAssumption
  <2>4. loading \in BOOLEAN /\ leftBusy \in BOOLEAN
    BY <1>2
  <2> QED BY <2>2, <2>3, <2>4, Zenon DEF PadTypes
<1>4. CallsFit(call, page)
  BY <1>1, <1>2, FirstCall DEF CallsFit, Slots
<1>5. QueueFits(queue, call)
  <2>1. \A s \in Calls : ~Asking(call[s])
    BY <1>1, FirstCall DEF Asking
  <2> QED BY <1>2, <2>1 DEF QueueFits
<1>6. PadRuns
  BY <1>2, <1>4, <1>5 DEF PadRuns, Runs
<1>7. ListComes
  BY <1>1, <1>2, FirstCall DEF ListComes
<1>8. Gone
  BY <1>1, <1>2, FirstCall DEF Gone, Saves
<1> QED BY <1>3, <1>6, <1>7, <1>8 DEF PadInv

\* A call makes a step that changes neither the store nor the list.
LEMMA ListKept ==
    ASSUME PadInv, NEW c \in Calls, \A d \in Calls : d # c => call'[d] = call[d],
           page' = page, failures' = failures, leftBusy' = leftBusy, store' = store,
           notes' = notes, loading' = loading,
           Reads(call[c]) => Reads(call'[c]) /\ call'[c].kind = call[c].kind,
           call'[c] # Idle => \/ call'[c].page = page
                              \/ call[c] # Idle /\ call'[c].page = call[c].page
    PROVE  ListComes'
BY DEF PadInv, ListComes, ShownTexts

LEMMA GoneKept ==
    ASSUME PadInv, NEW c \in Calls, \A d \in Calls : d # c => call'[d] = call[d],
           store' = store, notes' = notes, removed' = removed, editor' \in {editor, {}},
           \A d \in Calls : d # c /\ d \in stale => d \in stale',
           Saves(call'[c], "update") => call'[c].id \in DOMAIN store,
           Saves(call'[c], "add") =>
               /\ call'[c].id \notin DOMAIN store \cup removed
               /\ \A d \in Calls : d # c => ~Names(call[d], call'[c].id),
           \A id \in OwnNotes : Names(call'[c], id) =>
               Names(call[c], id) \/ \A d \in Calls : Saves(call[d], "add") => call[d].id # id
    PROVE  Gone'
<1>1. PadRuns
  BY DEF PadInv
<1>2. \A d \in Calls : Saves(call[d], "add") => call[d].id \in OwnNotes
  BY <1>1 DEF PadRuns, Runs, CallsFit, Sensible, Saves
<1>3. ASSUME NEW d \in Calls, d # c, Saves(call[d], "add")
      PROVE  ~Names(call'[c], call[d].id)
  BY <1>2, <1>3 DEF PadInv, Gone
<1> QED BY <1>3 DEF PadInv, Gone

NewCall(kind, step, id, text) ==
    [kind |-> kind, step |-> step, page |-> page, id |-> id, text |-> text,
     ids |-> apiNoteIds, got |-> Pad!NoNotes]

LEMMA StartIs ==
    ASSUME NEW kind, NEW step, NEW id, NEW text, Pad!Start(kind, step, id, text)
    PROVE  \E c \in Calls :
              /\ call[c] = Idle
              /\ call' = At(call, c, NewCall(kind, step, id, text))
              /\ queue' = IF step = "fetch" THEN queue ELSE Append(queue, c)
BY DEF Pad!Start, Pad!Free, Pad!Ask, At, NewCall

LEMMA NewCallFits ==
    ASSUME PadTypes, NEW kind \in {"sync", "add", "update", "remove"},
           NEW step \in {"fetch", "save", "find", "delete"},
           NEW id \in Pad!Ids \cup {None}, NEW text \in Texts \cup {None}
    PROVE  NewCall(kind, step, id, text) \in Pad!CallState
BY DEF NewCall, Pad!CallState, PadTypes

LEMMA StartKeeps ==
    ASSUME PadInv, NEW kind \in {"sync", "add", "update", "remove"},
           NEW step \in {"fetch", "save", "find", "delete"},
           NEW id \in Pad!Ids \cup {None}, NEW text \in Texts \cup {None},
           Pad!Start(kind, step, id, text),
           Sensible(NewCall(kind, step, id, text)),
           step = "save" => kind = "add",
           kind = "add" => /\ id \notin DOMAIN store \cup removed
                           /\ \A d \in Calls : ~Names(call[d], id),
           kind \in {"update", "remove"} => id \in DOMAIN notes \cup editor,
           UNCHANGED <<store, page, apiNoteIds, notes, loading, leftBusy, removed, failures,
                       editor, stale>>
    PROVE  PadInv'
<1> DEFINE new == NewCall(kind, step, id, text)
<1>1. PICK c \in Calls : /\ call[c] = Idle /\ call' = At(call, c, new)
                         /\ queue' = IF step = "fetch" THEN queue ELSE Append(queue, c)
  BY StartIs
<1>2. /\ new \in Pad!CallState /\ new # Idle /\ new.page = page /\ new.kind = kind
      /\ new.step = step /\ new.id = id
  <2>1. new \in Pad!CallState
    BY NewCallFits DEF PadInv
  <2>2. new # Idle
    BY <2>1, NotesAssumption
  <2> QED BY <2>1, <2>2 DEF NewCall
<1>3. PadRuns /\ call \in [Calls -> Slots] /\ new \in Slots /\ page \in 1..page
  BY <1>2, NotesAssumption DEF PadInv, PadTypes, PadRuns, Runs, CallsFit, Slots
<1>4. call'[c] = new /\ \A d \in Calls : d # c => call'[d] = call[d]
  BY <1>1, <1>3, AtIs
<1> HIDE DEF new
<1>5. PadRuns'
  <2>1. CASE step = "fetch"
    <3>1. Runs(queue, At(call, c, new), page)
      <4>1. ~Asking(call[c]) /\ ~Asking(new) /\ Sensible(new)
        BY <1>1, <1>2, <2>1 DEF Asking, new
      <4> QED BY <1>2, <1>3, <4>1, RunsOutside DEF PadRuns
    <3> QED BY <1>1, <2>1, <3>1 DEF PadRuns
  <2>2. CASE step # "fetch"
    <3>1. Runs(Append(queue, c), At(call, c, new), page)
      <4>1. ~Asking(call[c]) /\ Asking(new) /\ Sensible(new)
        BY <1>1, <1>2, <2>2 DEF Asking, new
      <4>2. new.page \in 1..page
        BY <1>2, <1>3
      <4> QED BY <1>2, <1>3, <4>1, <4>2, RunsJoined DEF PadRuns
    <3> QED BY <1>1, <2>2, <3>1 DEF PadRuns
  <2> QED BY <2>1, <2>2
<1>6. ListComes'
  BY <1>1, <1>2, <1>4, ListKept DEF Reads
<1>7. Gone'
  <2>1. Saves(call'[c], "update") => call'[c].id \in DOMAIN store
    BY <1>2, <1>4 DEF Saves
  <2>2. Saves(call'[c], "add") => /\ call'[c].id \notin DOMAIN store \cup removed
                                  /\ \A d \in Calls : d # c => ~Names(call[d], call'[c].id)
    BY <1>2, <1>4 DEF Saves
  <2>3. ASSUME NEW i \in OwnNotes, Names(call'[c], i), NEW d \in Calls, Saves(call[d], "add")
        PROVE  call[d].id # i
    <3>1. i = id /\ kind \in {"add", "update", "remove"}
      BY <1>2, <1>4, <2>3 DEF Names
    <3>2. CASE kind = "add"
      BY <2>3, <3>1, <3>2 DEF Saves, Names
    <3>3. CASE kind # "add"
      <4>1. i \in DOMAIN store \cup removed
        BY <2>3, <3>1, <3>3 DEF PadInv, Gone
      <4> QED BY <2>3, <4>1 DEF PadInv, Gone
    <3> QED BY <3>2, <3>3
  <2> QED BY <1>4, <2>1, <2>2, <2>3, GoneKept
<1>8. PadTypes'
  BY DEF PadInv, PadTypes
<1> QED BY <1>5, <1>6, <1>7, <1>8 DEF PadInv

-----------------------------------------------------------------------------
(* What the user does. *)

LEMMA SyncKeeps == ASSUME PadInv, Pad!SyncWithApi PROVE PadInv'
<1>1. /\ Pad!Start("sync", "fetch", None, None)
      /\ UNCHANGED <<store, page, apiNoteIds, notes, loading, leftBusy, removed, failures,
                  editor, stale>>
  BY DEF Pad!SyncWithApi, Pad!hook, Pad!editing
<1>2. Sensible(NewCall("sync", "fetch", None, None))
  BY DEF Sensible, NewCall
<1> QED BY <1>1, <1>2, StartKeeps

LEMMA AddKeeps ==
    ASSUME PadInv, NEW id \in OwnNotes, NEW text \in Texts, Pad!AddNote(id, text)
    PROVE  PadInv'
<1>1. /\ Pad!Start("add", "save", id, text)
      /\ UNCHANGED <<store, page, apiNoteIds, notes, loading, leftBusy, removed, failures,
                  editor, stale>>
      /\ id \notin DOMAIN store \cup removed
      /\ \A d \in Calls : call[d] # Idle => call[d].id # id
  BY DEF Pad!AddNote, Pad!hook, Pad!editing
<1>2. Sensible(NewCall("add", "save", id, text)) /\ id \in Pad!Ids
  BY DEF Sensible, NewCall, Pad!Ids
<1>3. \A d \in Calls : ~Names(call[d], id)
  BY <1>1 DEF Names
<1> QED BY <1>1, <1>2, <1>3, StartKeeps

LEMMA UpdateKeeps ==
    ASSUME PadInv, NEW id \in Pad!Ids, NEW text \in Texts, Pad!UpdateNote(id, text)
    PROVE  PadInv'
<1>1. /\ Pad!Start("update", "find", id, text) /\ id \in editor
      /\ UNCHANGED <<store, page, apiNoteIds, notes, loading, leftBusy, removed, failures,
                  editor, stale>>
  BY DEF Pad!UpdateNote, Pad!hook, Pad!editing
<1>2. Sensible(NewCall("update", "find", id, text))
  BY DEF Sensible, NewCall
<1> QED BY <1>1, <1>2, StartKeeps

LEMMA RemoveKeeps == ASSUME PadInv, NEW id \in Pad!Ids, Pad!RemoveNote(id) PROVE PadInv'
<1>1. /\ Pad!Start("remove", "delete", id, None) /\ id \in DOMAIN notes
      /\ UNCHANGED <<store, page, apiNoteIds, notes, loading, leftBusy, removed, failures,
                     editor, stale>>
  BY DEF Pad!RemoveNote, Pad!hook, Pad!editing
<1>2. Sensible(NewCall("remove", "delete", id, None))
  BY DEF Sensible, NewCall
<1> QED BY <1>1, <1>2, StartKeeps

\* The editor opens or closes: on nothing but a note that is shown.
LEMMA EditorKeeps ==
    ASSUME PadInv, Pad!Cancel \/ \E id \in Pad!Ids \cup {None} : Pad!OpenEditor(id)
    PROVE  PadInv'
<1>1. /\ UNCHANGED <<store, queue, call, page, apiNoteIds, notes, loading, leftBusy, removed,
                     failures, stale>>
      /\ editor' = {} \/ editor' = {None} \/ editor' \subseteq DOMAIN notes
  BY DEF Pad!Cancel, Pad!OpenEditor, Pad!hook
<1>2. Gone'
  BY <1>1, NotesAssumption DEF PadInv, Gone
<1> QED BY <1>1, <1>2 DEF PadInv, PadTypes, PadRuns, ListComes, ShownTexts

LEMMA OpenKeeps ==
    ASSUME PadInv, Pad!Open PROVE PadInv'
<1> DEFINE new == [Pad!InitCall EXCEPT !.page = page + 1]
<1>1. PICK c \in Calls : call[c] = Idle /\ call' = At(call, c, new)
  BY DEF Pad!Open, Pad!Free, At
<1>2. /\ page < MaxOpens /\ page' = page + 1 /\ apiNoteIds' = {} /\ notes' = <<>>
      /\ loading' = TRUE /\ leftBusy' = (leftBusy \/ Pad!Free # Calls)
      /\ store' = store /\ queue' = queue /\ removed' = removed /\ failures' = failures
      /\ editor' = {} /\ stale' = stale
  BY DEF Pad!Open, Pad!NoNotes
<1>3. page \in Nat /\ page + 1 \in 1..MaxOpens /\ page + 1 \in 1..(page + 1)
  BY <1>2, NotesAssumption DEF PadInv, PadTypes
<1>4. /\ new \in Pad!CallState /\ Sensible(new) /\ ~Asking(new) /\ Reads(new)
      /\ new.page = page + 1 /\ new.kind = "init" /\ new.step = "fetch"
  BY <1>3, NotesAssumption
     DEF Pad!InitCall, Pad!CallState, Pad!NoNotes, Sensible, Asking, Reads, Pad!Ids
<1> HIDE DEF new
<1>5. call \in [Calls -> Slots] /\ PadRuns
  BY DEF PadInv, PadRuns, Runs, CallsFit
<1>6. call'[c] = new /\ \A d \in Calls : d # c => call'[d] = call[d]
  BY <1>1, <1>4, <1>5, AtIs DEF Slots
<1>7. DOMAIN notes' = {} /\ \A i \in {} : i \in DOMAIN store
  BY <1>2
<1>8. PadRuns'
  <2>1. Runs(queue, call, page + 1)
    BY <1>3, <1>5, RunsTurned DEF PadRuns
  <2>2. Runs(queue, At(call, c, new), page + 1)
    BY <1>1, <1>3, <1>4, <2>1, RunsOutside DEF Asking, Slots
  <2> QED BY <1>1, <1>2, <1>7, <2>2 DEF PadRuns
<1>9. PadTypes'
  <2>1. leftBusy' \in BOOLEAN /\ loading' \in BOOLEAN
    BY <1>2
  <2> QED BY <1>2, <1>3, <2>1 DEF PadInv, PadTypes
<1>10. ListComes'
  <2> SUFFICES ASSUME failures' = 0, ~leftBusy'
               PROVE  /\ \A d \in Calls : call'[d] # Idle => call'[d].page = page'
                      /\ \E d \in Calls : Reads(call'[d]) /\ call'[d].kind # "sync"
    BY DEF ListComes
  <2>1. \A d \in Calls : call[d] = Idle
    BY <1>2 DEF Pad!Free
  <2> QED BY <1>2, <1>4, <1>6, <2>1
<1>11. Gone'
  BY <1>2, <1>4, <1>6, <1>7 DEF PadInv, Gone, Saves, Names
<1> QED BY <1>8, <1>9, <1>10, <1>11 DEF PadInv

-----------------------------------------------------------------------------
(* notes.json *)

\* The step of a call, and what it leaves.
LEMMA MoveFits ==
    ASSUME PadInv, NEW c \in Calls, NEW state \in Slots, call' = At(call, c, state)
    PROVE  /\ call'[c] = state /\ \A d \in Calls : d # c => call'[d] = call[d]
           /\ call[c] \in Slots
           /\ call[c] # Idle => /\ call[c] \in Pad!CallState /\ Sensible(call[c])
                                /\ call[c].page \in 1..page
BY AtIs DEF PadInv, PadRuns, Runs, CallsFit, Slots

LEMMA FetchKeeps == ASSUME PadInv, NEW c \in Calls, Pad!FetchNotes(c) PROVE PadInv'
<1>1. PICK answer \in [ApiNotes -> Texts] :
          Pad!Ask(c, [call[c] EXCEPT !.step = "save", !.got = answer], queue)
  BY DEF Pad!FetchNotes
<1> DEFINE new == [call[c] EXCEPT !.step = "save", !.got = answer]
<1>2. /\ call[c] # Idle /\ call[c].step = "fetch"
      /\ call' = At(call, c, new) /\ queue' = Append(queue, c)
      /\ store' = store /\ page' = page /\ notes' = notes /\ loading' = loading
      /\ removed' = removed /\ failures' = failures /\ leftBusy' = leftBusy
      /\ apiNoteIds' \in {apiNoteIds, ApiNotes} /\ editor' = editor /\ stale' = stale
  BY <1>1 DEF Pad!FetchNotes, Pad!Fetching, Pad!Ask, Pad!editing, At
<1>3. /\ call[c] \in Pad!CallState /\ Sensible(call[c]) /\ call[c].page \in 1..page
  BY <1>2 DEF PadInv, PadRuns, Runs, CallsFit, Slots
<1>4. /\ new \in Pad!CallState /\ new.step = "save" /\ new.kind = call[c].kind
      /\ new.page = call[c].page /\ new.id = call[c].id
  BY <1>3 DEF Pad!CallState
<1>5. new # Idle /\ new \in Slots /\ Sensible(new) /\ new.kind \in {"init", "sync"}
  BY <1>2, <1>3, <1>4, NotesAssumption DEF Slots, Sensible
<1> HIDE DEF new
<1>6. call'[c] = new /\ \A d \in Calls : d # c => call'[d] = call[d]
  BY <1>2, <1>5, MoveFits
<1>7. PadRuns'
  <2>1. ~Asking(call[c]) /\ Asking(new)
    BY <1>2, <1>4, <1>5 DEF Asking
  <2>2. Runs(Append(queue, c), At(call, c, new), page)
    BY <1>3, <1>4, <1>5, <2>1, RunsJoined DEF PadInv, PadRuns
  <2> QED BY <1>2, <2>2 DEF PadRuns
<1>8. ListComes'
  BY <1>2, <1>3, <1>4, <1>5, <1>6, ListKept DEF Reads
<1>9. Gone'
  BY <1>2, <1>4, <1>5, <1>6, GoneKept DEF Saves, Names
<1>10. PadTypes'
  BY <1>2 DEF PadInv, PadTypes
<1> QED BY <1>7, <1>8, <1>9, <1>10 DEF PadInv

LEMMA FetchFailsKeeps == ASSUME PadInv, NEW c \in Calls, Pad!FetchFails(c) PROVE PadInv'
<1>1. /\ call[c] # Idle /\ call[c].step = "fetch"
      /\ UNCHANGED <<store, page, apiNoteIds, notes, loading, leftBusy, removed, failures,
                  editor, stale>>
      /\ \/ /\ call[c].kind = "init" /\ queue' = Append(queue, c)
            /\ call' = At(call, c, Goes(call[c], "read"))
         \/ /\ call[c].kind # "init" /\ queue' = queue /\ call' = At(call, c, Idle)
  BY DEF Pad!FetchFails, Pad!Fetching, Pad!Ask, Pad!Ends, Pad!hook, Pad!editing, At, Goes
<1>2. /\ call[c] \in Pad!CallState /\ Sensible(call[c]) /\ call[c].page \in 1..page
      /\ PadRuns
  BY <1>1 DEF PadInv, PadRuns, Runs, CallsFit, Slots
<1>3. PadTypes'
  BY <1>1 DEF PadInv, PadTypes
<1>4. ASSUME call[c].kind = "init", queue' = Append(queue, c),
             call' = At(call, c, Goes(call[c], "read"))
      PROVE  PadRuns' /\ ListComes' /\ Gone'
  <2> DEFINE new == Goes(call[c], "read")
  <2>1. /\ new \in Pad!CallState /\ new.step = "read" /\ new.kind = "init"
        /\ new.page = call[c].page
    BY <1>2, <1>4 DEF Pad!CallState, Goes
  <2>2. new # Idle /\ new \in Slots /\ Sensible(new) /\ Asking(new) /\ ~Asking(call[c])
    BY <1>1, <2>1, NotesAssumption DEF Slots, Sensible, Asking
  <2> HIDE DEF new
  <2>3. call'[c] = new /\ \A d \in Calls : d # c => call'[d] = call[d]
    BY <1>4, <2>2, MoveFits DEF new
  <2>4. Runs(Append(queue, c), At(call, c, new), page)
    BY <1>2, <2>1, <2>2, RunsJoined DEF PadRuns
  <2>5. PadRuns'
    BY <1>1, <1>4, <2>4 DEF PadRuns, new
  <2>6. ListComes'
    BY <1>1, <1>4, <2>1, <2>2, <2>3, ListKept DEF Reads
  <2>7. Gone'
    BY <1>1, <2>1, <2>3, GoneKept DEF Saves, Names
  <2> QED BY <2>5, <2>6, <2>7
<1>5. ASSUME call[c].kind # "init", queue' = queue, call' = At(call, c, Idle)
      PROVE  PadRuns' /\ ListComes' /\ Gone'
  <2>1. Idle \in Slots /\ ~Asking(call[c]) /\ ~Asking(Idle)
    BY <1>1 DEF Slots, Asking
  <2>2. call'[c] = Idle /\ \A d \in Calls : d # c => call'[d] = call[d]
    BY <1>5, <2>1, MoveFits
  <2>3. Runs(queue, At(call, c, Idle), page)
    BY <1>2, <2>1, RunsOutside DEF PadRuns
  <2>4. PadRuns'
    BY <1>1, <1>5, <2>3 DEF PadRuns
  <2>5. ListComes'
    BY <1>1, <1>5, <2>2, ListKept DEF Reads
  <2>6. Gone'
    BY <1>1, <2>2, GoneKept DEF Saves, Names
  <2> QED BY <2>4, <2>5, <2>6
<1> QED BY <1>1, <1>3, <1>4, <1>5 DEF PadInv

-----------------------------------------------------------------------------
(* IndexedDB *)

\* Who is served is a call that waits.
LEMMA ServedIs ==
    ASSUME PadInv, NEW c \in Calls, queue # <<>>, c = Head(queue)
    PROVE  /\ call[c] # Idle /\ call[c].step # "fetch" /\ PadRuns
           /\ call[c] \in Pad!CallState /\ Sensible(call[c]) /\ call[c].page \in 1..page
           /\ Len(queue) \in Nat \ {0} /\ queue[1] = c
<1>1. /\ PadRuns /\ queue \in Seq(Calls)
  BY DEF PadInv, PadRuns, Runs, QueueFits
<1>2. queue[1] = c /\ Len(queue) \in Nat \ {0}
  BY <1>1
<1>3. Asking(call[c])
  BY <1>1, <1>2 DEF PadRuns, Runs, QueueFits
<1> QED BY <1>1, <1>2, <1>3 DEF Asking, PadRuns, Runs, CallsFit, Slots

\* What the next step of a call is like.
LEMMA GoesIs ==
    ASSUME NEW state \in Pad!CallState, NEW step \in {"read", "save"}, Sensible(state),
           step = "save" => state.kind # "remove"
    PROVE  LET new == Goes(state, step)
           IN  /\ new \in Pad!CallState /\ new \in Slots /\ new # Idle /\ Sensible(new)
               /\ new.step = step /\ new.kind = state.kind /\ new.page = state.page
               /\ new.id = state.id
<1> DEFINE new == Goes(state, step)
<1>1. /\ new \in Pad!CallState
      /\ new.step = step /\ new.kind = state.kind /\ new.page = state.page /\ new.id = state.id
  BY DEF Pad!CallState, Goes
<1>2. new # Idle /\ new \in Slots /\ Sensible(new)
  BY <1>1, NotesAssumption DEF Slots, Sensible
<1> QED BY <1>1, <1>2

\* A change is followed by a look at the list.
LEMMA ChangeKeeps ==
    ASSUME PadInv, NEW c \in Calls, queue # <<>>, c = Head(queue), Pad!LoadNotes(c),
           UNCHANGED <<page, apiNoteIds, notes, failures, leftBusy>>
    PROVE  PadRuns' /\ ListComes' /\ (loading' \in BOOLEAN)
<1> DEFINE new == Goes(call[c], "read")
<1>1. /\ call' = At(call, c, new) /\ queue' = Append(Tail(queue), c)
      /\ loading' = (loading \/ (Pad!Mounted(c) /\ call[c].kind \in {"add", "update", "remove"}))
  BY DEF Pad!LoadNotes, Pad!Ask, At, Goes
<1>2. /\ call[c] # Idle /\ call[c] \in Pad!CallState /\ Sensible(call[c]) /\ PadRuns
  BY ServedIs
<1>3. /\ new \in Slots /\ new # Idle /\ new.step = "read" /\ new.kind = call[c].kind
      /\ new.page = call[c].page
  BY <1>2, GoesIs
<1>4. PadRuns'
  <2>1. Runs(Append(Tail(queue), c), At(call, c, new), page)
    BY <1>2, RunsServed DEF PadRuns
  <2> QED BY <1>1, <2>1 DEF PadRuns
<1>5. call'[c] = new /\ \A d \in Calls : d # c => call'[d] = call[d]
  BY <1>1, <1>3, MoveFits
<1> HIDE DEF new
<1>6. ListComes'
  <2> SUFFICES ASSUME failures = 0, ~leftBusy
               PROVE  /\ \A d \in Calls : call'[d] # Idle => call'[d].page = page
                      /\ \E d \in Calls : Reads(call'[d])
                      /\ loading' => \E d \in Calls : Reads(call'[d]) /\ call'[d].kind # "sync"
    BY DEF ListComes
  <2>1. /\ \A d \in Calls : call[d] # Idle => call[d].page = page
        /\ loading => \E d \in Calls : Reads(call[d]) /\ call[d].kind # "sync"
    BY DEF PadInv, ListComes
  <2>2. Reads(call'[c])
    BY <1>3, <1>5 DEF Reads
  <2>3. ASSUME loading' PROVE \E d \in Calls : Reads(call'[d]) /\ call'[d].kind # "sync"
    <3>1. CASE call[c].kind # "sync"
      BY <1>3, <1>5, <2>2, <3>1
    <3>2. CASE call[c].kind = "sync"
      <4>1. loading
        BY <1>1, <2>3, <3>2
      <4>2. PICK d \in Calls : Reads(call[d]) /\ call[d].kind # "sync"
        BY <2>1, <4>1
      <4> QED BY <1>5, <3>2, <4>2
    <3> QED BY <3>1, <3>2
  <2> QED BY <1>2, <1>3, <1>5, <2>1, <2>2, <2>3
<1>7. loading' \in BOOLEAN
  BY <1>1 DEF PadInv, PadTypes
<1> QED BY <1>4, <1>6, <1>7

\* Whoever looks at the list next is the call that made the change.
LEMMA LoadNotesIs ==
    ASSUME PadInv, NEW c \in Calls, queue # <<>>, c = Head(queue), Pad!LoadNotes(c)
    PROVE  /\ call'[c].kind = call[c].kind /\ call'[c].id = call[c].id
           /\ call'[c].step = "read" /\ call'[c] # Idle
           /\ \A d \in Calls : d # c => call'[d] = call[d]
<1> DEFINE new == Goes(call[c], "read")
<1>1. call' = At(call, c, new)
  BY DEF Pad!LoadNotes, Pad!Ask, At, Goes
<1>2. call[c] \in Pad!CallState /\ Sensible(call[c])
  BY ServedIs
<1>3. /\ new \in Slots /\ new # Idle /\ new.step = "read" /\ new.kind = call[c].kind
      /\ new.id = call[c].id
  BY <1>2, GoesIs
<1> HIDE DEF new
<1> QED BY <1>1, <1>3, MoveFits

\* What a call writes: a note of the user that was not deleted, or those of the API.
LEMMA SaveWrites ==
    ASSUME PadInv, NEW c \in Calls, Pad!Save(c)
    PROVE  /\ store' = [i \in DOMAIN store' |-> store'[i]]
           /\ \E ids : /\ DOMAIN store' = ids \cup DOMAIN store
                       /\ \A i \in DOMAIN store : i \notin ids => store'[i] = store[i]
                       /\ \A i \in ids \cap OwnNotes :
                             i = call[c].id /\ call[c].kind \in {"add", "update"}
<1>1. /\ queue # <<>> /\ c = Head(queue) /\ call[c].step = "save"
      /\ store' = IF call[c].kind \in {"init", "sync"}
                  THEN Pad!Put(DOMAIN call[c].got, call[c].got)
                  ELSE Pad!Put({call[c].id}, [i \in {call[c].id} |-> call[c].text])
  BY DEF Pad!Save, Pad!Served
<1>2. call[c] \in Pad!CallState /\ Sensible(call[c])
  BY <1>1, ServedIs
<1>3. CASE call[c].kind \in {"init", "sync"}
  <2>1. DOMAIN call[c].got \subseteq ApiNotes
    <3>1. call[c].got \in [ApiNotes -> Texts] \cup {<<>>}
      BY <1>2 DEF Pad!CallState, Pad!NoNotes
    <3> QED BY <3>1
  <2>2. store' = [i \in DOMAIN call[c].got \cup DOMAIN store |->
                     IF i \in DOMAIN call[c].got THEN call[c].got[i] ELSE store[i]]
    BY <1>1, <1>3 DEF Pad!Put
  <2> DEFINE ids == DOMAIN call[c].got
             got == call[c].got
  <2>3. ids \cap OwnNotes = {}
    BY <2>1, NotesAssumption
  <2>4. store' = [i \in ids \cup DOMAIN store |-> IF i \in ids THEN got[i] ELSE store[i]]
    BY <2>2
  <2> HIDE DEF ids, got
  <2> QED BY <2>3, <2>4
<1>4. CASE call[c].kind \notin {"init", "sync"}
  <2>1. call[c].kind \in {"add", "update"}
    BY <1>1, <1>2, <1>4 DEF Sensible, Pad!CallState
  <2> DEFINE ids == {call[c].id}
             got == [i \in {call[c].id} |-> call[c].text]
  <2>2. store' = [i \in ids \cup DOMAIN store |-> IF i \in ids THEN got[i] ELSE store[i]]
    BY <1>1, <1>4 DEF Pad!Put
  <2>3. \A i \in ids : i = call[c].id
    OBVIOUS
  <2> HIDE DEF ids, got
  <2> QED BY <2>1, <2>2, <2>3
<1> QED BY <1>3, <1>4

LEMMA SaveKeeps == ASSUME PadInv, NEW c \in Calls, Pad!Save(c) PROVE PadInv'
<1>1. /\ queue # <<>> /\ c = Head(queue) /\ call[c].step = "save" /\ Pad!LoadNotes(c)
      /\ UNCHANGED <<page, apiNoteIds, notes, removed, failures, leftBusy, editor>>
      /\ stale' = stale \ {c}
  BY DEF Pad!Save, Pad!Served
<1>2. PadRuns' /\ ListComes' /\ loading' \in BOOLEAN
  BY <1>1, ChangeKeeps
<1>3. /\ call[c] # Idle /\ call[c] \in Pad!CallState /\ Sensible(call[c])
  BY <1>1, ServedIs
<1>4. /\ call'[c].kind = call[c].kind /\ call'[c].id = call[c].id /\ call'[c].step = "read"
      /\ call'[c] # Idle /\ \A d \in Calls : d # c => call'[d] = call[d]
  BY <1>1, LoadNotesIs
<1>5. PICK ids : /\ DOMAIN store' = ids \cup DOMAIN store
                 /\ \A i \in DOMAIN store : i \notin ids => store'[i] = store[i]
                 /\ \A i \in ids \cap OwnNotes :
                       i = call[c].id /\ call[c].kind \in {"add", "update"}
  BY SaveWrites
<1>6. \A i \in ids \cap OwnNotes : Names(call[c], i)
  BY <1>3, <1>5 DEF Names
<1>8. ASSUME NEW d \in Calls, Saves(call'[d], "add")
      PROVE  /\ call'[d].id \notin DOMAIN store' \cup removed'
             /\ \A e \in Calls : e # d => ~Names(call'[e], call'[d].id)
  <2>1. d # c /\ call'[d] = call[d] /\ Saves(call[d], "add")
    BY <1>4, <1>8 DEF Saves
  <2>2. /\ call[d].id \notin DOMAIN store \cup removed /\ ~Names(call[c], call[d].id)
        /\ \A e \in Calls : e # d => ~Names(call[e], call[d].id)
    BY <2>1 DEF PadInv, Gone
  <2>3. call[d].id \in OwnNotes
    BY <2>1 DEF PadInv, PadRuns, Runs, CallsFit, Sensible, Saves
  <2>4. call[d].id \notin ids
    BY <1>6, <2>2, <2>3
  <2>5. \A e \in Calls : e # d => ~Names(call'[e], call[d].id)
    BY <1>3, <1>4, <2>2 DEF Names
  <2> QED BY <1>1, <1>5, <2>1, <2>2, <2>4, <2>5
<1>9. \A d \in Calls : Saves(call'[d], "update") /\ call'[d].id \in OwnNotes
                          => call'[d].id \in DOMAIN store' \/ d \in stale'
  BY <1>1, <1>4, <1>5 DEF PadInv, Gone, Saves
<1>10. Gone'
  BY <1>1, <1>5, <1>8, <1>9 DEF PadInv, Gone
<1>11. PadTypes'
  BY <1>1, <1>2, SaveWrites DEF PadInv, PadTypes
<1> QED BY <1>2, <1>10, <1>11 DEF PadInv

\* A note that was found may be deleted before it is saved: its update is stale.
LEMMA DeleteKeeps == ASSUME PadInv, NEW c \in Calls, Pad!Delete(c) PROVE PadInv'
<1> DEFINE id == call[c].id
<1>1. /\ queue # <<>> /\ c = Head(queue) /\ call[c].step = "delete" /\ Pad!LoadNotes(c)
      /\ store' = [i \in DOMAIN store \ {id} |-> store[i]]
      /\ removed' = removed \cup ({id} \cap OwnNotes)
      /\ UNCHANGED <<page, apiNoteIds, notes, failures, leftBusy, editor>>
      /\ stale' = stale \cup {d \in Calls : /\ call[d] # Idle /\ call[d].id = id
                                            /\ call[d].kind = "update"
                                            /\ call[d].step = "save"}
  BY DEF Pad!Delete, Pad!Served, Pad!Restrict
<1>2. PadRuns' /\ ListComes' /\ loading' \in BOOLEAN
  BY <1>1, ChangeKeeps
<1>3. /\ call[c] # Idle /\ call[c] \in Pad!CallState /\ Sensible(call[c]) /\ PadRuns
      /\ Len(queue) \in Nat \ {0} /\ queue[1] = c
  BY <1>1, ServedIs
<1>4. /\ call'[c].kind = call[c].kind /\ call'[c].id = id /\ call'[c].step = "read"
      /\ call'[c] # Idle /\ \A d \in Calls : d # c => call'[d] = call[d]
  BY <1>1, LoadNotesIs
<1>5. call[c].kind = "remove"
  BY <1>1, <1>3 DEF Sensible
<1> HIDE DEF id
<1>6. DOMAIN store' = DOMAIN store \ {id}
  BY <1>1
<1>7. ASSUME NEW d \in Calls, Saves(call'[d], "update"), call'[d].id \in OwnNotes
      PROVE  call'[d].id \in DOMAIN store' \/ d \in stale'
  <2>1. d # c /\ call'[d] = call[d] /\ Saves(call[d], "update")
    BY <1>4, <1>7 DEF Saves
  <2>2. call[d].id \in DOMAIN store \/ d \in stale
    BY <1>7, <2>1 DEF PadInv, Gone
  <2>3. call[d].id = id => d \in stale'
    BY <1>1, <2>1 DEF Saves
  <2> QED BY <1>1, <1>6, <2>1, <2>2, <2>3
<1>8. ASSUME NEW d \in Calls, Saves(call'[d], "add")
      PROVE  /\ call'[d].id \notin DOMAIN store' \cup removed'
             /\ \A e \in Calls : e # d => ~Names(call'[e], call'[d].id)
  <2>1. d # c /\ call'[d] = call[d] /\ Saves(call[d], "add")
    BY <1>4, <1>8 DEF Saves
  <2>2. /\ call[d].id \notin DOMAIN store \cup removed /\ ~Names(call[c], call[d].id)
        /\ \A e \in Calls : e # d => ~Names(call[e], call[d].id)
    BY <2>1 DEF PadInv, Gone
  <2>3. call[d].id # id
    BY <1>3, <1>5, <2>2 DEF Names, id
  <2>4. \A e \in Calls : e # d => ~Names(call'[e], call[d].id)
    BY <1>3, <1>4, <2>2 DEF Names, id
  <2> QED BY <1>1, <1>6, <2>1, <2>2, <2>3, <2>4
<1>9. /\ removed' \subseteq OwnNotes
      /\ (DOMAIN notes' \cup editor') \cap OwnNotes \subseteq DOMAIN store' \cup removed'
  BY <1>1, <1>6 DEF PadInv, Gone
<1>10. Gone'
  BY <1>7, <1>8, <1>9 DEF Gone
<1>11. PadTypes'
  BY <1>1, <1>2 DEF PadInv, PadTypes
<1> QED BY <1>2, <1>10, <1>11 DEF PadInv

LEMMA FindKeeps == ASSUME PadInv, NEW c \in Calls, Pad!Find(c) PROVE PadInv'
<1>1. /\ queue # <<>> /\ c = Head(queue) /\ call[c].step = "find"
      /\ \/ /\ call[c].id \in DOMAIN store /\ queue' = Append(Tail(queue), c)
            /\ call' = At(call, c, Goes(call[c], "save"))
         \/ queue' = Tail(queue) /\ call' = At(call, c, Idle)
      /\ UNCHANGED <<store, page, apiNoteIds, notes, loading, leftBusy, removed, failures,
                  stale>>
      /\ editor' \in {editor, {}}
  BY DEF Pad!Find, Pad!Served, Pad!Ask, Pad!Ends, Pad!SubmitEnds, Pad!hook, At, Goes
<1>2. /\ call[c] # Idle /\ call[c] \in Pad!CallState /\ Sensible(call[c]) /\ PadRuns
  BY <1>1, ServedIs
<1>3. call[c].kind = "update"
  BY <1>1, <1>2 DEF Sensible
<1>4. PadTypes'
  BY <1>1 DEF PadInv, PadTypes
<1>5. ASSUME call[c].id \in DOMAIN store, queue' = Append(Tail(queue), c),
             call' = At(call, c, Goes(call[c], "save"))
      PROVE  PadRuns' /\ ListComes' /\ Gone'
  <2> DEFINE new == Goes(call[c], "save")
  <2>1. /\ new \in Slots /\ new # Idle /\ new.step = "save" /\ new.kind = "update"
        /\ new.page = call[c].page /\ new.id = call[c].id
    BY <1>2, <1>3, GoesIs
  <2>2. Runs(Append(Tail(queue), c), At(call, c, new), page)
    BY <1>1, <1>2, RunsServed DEF PadRuns
  <2>3. call'[c] = new /\ \A d \in Calls : d # c => call'[d] = call[d]
    BY <1>5, <2>1, MoveFits
  <2>4. PadRuns'
    BY <1>1, <1>5, <2>2 DEF PadRuns
  <2> HIDE DEF new
  <2>5. ListComes'
    BY <1>1, <1>2, <1>3, <2>1, <2>3, ListKept DEF Reads
  <2>6. Gone'
    <3>1. \A id : Names(call'[c], id) => Names(call[c], id)
      BY <1>2, <1>3, <2>1, <2>3 DEF Names
    <3> QED BY <1>1, <1>5, <2>1, <2>3, <3>1, GoneKept DEF Saves
  <2> QED BY <2>4, <2>5, <2>6
<1>6. ASSUME queue' = Tail(queue), call' = At(call, c, Idle)
      PROVE  PadRuns' /\ ListComes' /\ Gone'
  <2>1. Runs(Tail(queue), At(call, c, Idle), page)
    BY <1>1, <1>2, RunsEnded DEF PadRuns
  <2>2. call'[c] = Idle /\ \A d \in Calls : d # c => call'[d] = call[d]
    BY <1>6, MoveFits DEF Slots
  <2>3. PadRuns'
    BY <1>1, <1>6, <2>1 DEF PadRuns
  <2>4. ListComes'
    BY <1>1, <1>3, <2>2, ListKept DEF Reads
  <2>5. Gone'
    BY <1>1, <2>2, GoneKept DEF Saves, Names
  <2> QED BY <2>3, <2>4, <2>5
<1> QED BY <1>1, <1>4, <1>5, <1>6 DEF PadInv

\* A call whose end changes nothing that is stored leaves what is gone.
LEMMA EndedIsGone ==
    ASSUME PadInv, NEW c \in Calls, \A d \in Calls : d # c => call'[d] = call[d],
           call'[c] = Idle, store' = store, removed' = removed, editor' \in {editor, {}},
           \A d \in Calls : d # c /\ d \in stale => d \in stale',
           DOMAIN notes' \subseteq DOMAIN store \/ notes' = notes
    PROVE  Gone'
BY DEF PadInv, Gone, Saves, Names

\* The list, once it is read, is what is stored.
LEMMA ReadKeeps == ASSUME PadInv, NEW c \in Calls, Pad!Read(c) PROVE PadInv'
<1>1. /\ queue # <<>> /\ c = Head(queue) /\ call[c].step = "read"
      /\ \/ /\ call[c].page = page /\ notes' = Pad!Shown(Pad!Known(c))
            /\ loading' = (loading /\ call[c].kind = "sync")
         \/ call[c].page # page /\ notes' = notes /\ loading' = loading
      /\ call' = At(call, c, Idle) /\ queue' = Tail(queue)
      /\ UNCHANGED <<store, page, apiNoteIds, removed, failures, leftBusy, stale>>
      /\ editor' \in {editor, {}}
  BY DEF Pad!Read, Pad!Served, Pad!Mounted, Pad!Ends, Pad!SubmitEnds, At
<1>2. call[c] # Idle /\ PadRuns
  BY <1>1, ServedIs
<1>3. call'[c] = Idle /\ \A d \in Calls : d # c => call'[d] = call[d]
  BY <1>1, MoveFits DEF Slots
<1>4. ASSUME notes' = Pad!Shown(Pad!Known(c))
      PROVE  DOMAIN notes' = DOMAIN store /\ ShownTexts' = store
  <2>1. DOMAIN notes' = DOMAIN store /\ \A i \in DOMAIN store : notes'[i].text = store[i]
    BY <1>4 DEF Pad!Shown
  <2>2. store = [i \in DOMAIN store |-> store[i]]
    BY DEF PadInv, PadTypes
  <2>3. ShownTexts' = [i \in DOMAIN store |-> store[i]]
    BY <2>1 DEF ShownTexts
  <2> QED BY <2>1, <2>2, <2>3
<1>5. PadRuns'
  <2>1. DOMAIN notes' = DOMAIN notes \/ call[c].page = page
    BY <1>1
  <2>2. Runs(Tail(queue), At(call, c, Idle), page)
    BY <1>1, <1>2, <2>1, RunsEnded DEF PadRuns
  <2> QED BY <1>1, <2>2 DEF PadRuns
<1>6. ListComes'
  <2> SUFFICES ASSUME failures = 0, ~leftBusy
               PROVE  /\ \A d \in Calls : call'[d] # Idle => call'[d].page = page
                      /\ ShownTexts' = store
                      /\ loading' => \E d \in Calls : Reads(call'[d]) /\ call'[d].kind # "sync"
    BY <1>1 DEF ListComes
  <2>1. /\ \A d \in Calls : call[d] # Idle => call[d].page = page
        /\ loading => \E d \in Calls : Reads(call[d]) /\ call[d].kind # "sync"
    BY DEF PadInv, ListComes
  <2>2. /\ notes' = Pad!Shown(Pad!Known(c))
        /\ loading' = (loading /\ call[c].kind = "sync")
    BY <1>1, <1>2, <2>1
  <2>3. ASSUME loading' PROVE \E d \in Calls : Reads(call'[d]) /\ call'[d].kind # "sync"
    <3>1. call[c].kind = "sync" /\ loading
      BY <2>2, <2>3
    <3>2. PICK d \in Calls : Reads(call[d]) /\ call[d].kind # "sync"
      BY <2>1, <3>1
    <3> QED BY <1>3, <3>1, <3>2
  <2> QED BY <1>3, <1>4, <2>1, <2>2, <2>3
<1>7. Gone'
  BY <1>1, <1>3, <1>4, EndedIsGone
<1>8. PadTypes'
  <2>1. loading' \in BOOLEAN
    BY <1>1 DEF PadInv, PadTypes
  <2> QED BY <1>1, <2>1 DEF PadInv, PadTypes
<1> QED BY <1>5, <1>6, <1>7, <1>8 DEF PadInv

LEMMA RequestFailsKeeps ==
    ASSUME PadInv, NEW c \in Calls, Pad!RequestFails(c) PROVE PadInv'
<1>1. /\ queue # <<>> /\ c = Head(queue) /\ failures' = failures + 1
      /\ \/ /\ call[c].kind = "init" /\ queue' = Append(Tail(queue), c)
            /\ call' = At(call, c, Goes(call[c], "read"))
         \/ queue' = Tail(queue) /\ call' = At(call, c, Idle)
      /\ UNCHANGED <<store, page, apiNoteIds, notes, removed, leftBusy>>
      /\ editor' \in {editor, {}} /\ stale' = stale \ {c}
  BY DEF Pad!RequestFails, Pad!Ask, Pad!Ends, Pad!SubmitEnds, At, Goes
<1>2. loading' \in BOOLEAN
  BY Zenon DEF Pad!RequestFails
<1>3. /\ call[c] # Idle /\ call[c] \in Pad!CallState /\ Sensible(call[c]) /\ PadRuns
  BY <1>1, ServedIs
<1>4. PadTypes'
  BY <1>1, <1>2 DEF PadInv, PadTypes
<1>5. ListComes'
  BY <1>1 DEF PadInv, PadTypes, ListComes
<1>6. ASSUME call[c].kind = "init", queue' = Append(Tail(queue), c),
             call' = At(call, c, Goes(call[c], "read"))
      PROVE  PadRuns' /\ Gone'
  <2> DEFINE new == Goes(call[c], "read")
  <2>1. new \in Slots /\ new.step = "read" /\ new.kind = "init"
    BY <1>3, <1>6, GoesIs
  <2>2. Runs(Append(Tail(queue), c), At(call, c, new), page)
    BY <1>1, <1>3, RunsServed DEF PadRuns
  <2>3. call'[c] = new /\ \A d \in Calls : d # c => call'[d] = call[d]
    BY <1>6, <2>1, MoveFits
  <2>4. PadRuns'
    BY <1>1, <1>6, <2>2 DEF PadRuns
  <2> HIDE DEF new
  <2>5. Gone'
    BY <1>1, <2>1, <2>3, GoneKept DEF Saves, Names
  <2> QED BY <2>4, <2>5
<1>7. ASSUME queue' = Tail(queue), call' = At(call, c, Idle) PROVE PadRuns' /\ Gone'
  <2>1. Runs(Tail(queue), At(call, c, Idle), page)
    BY <1>1, <1>3, RunsEnded DEF PadRuns
  <2>2. call'[c] = Idle /\ \A d \in Calls : d # c => call'[d] = call[d]
    BY <1>7, MoveFits DEF Slots
  <2>3. PadRuns'
    BY <1>1, <1>7, <2>1 DEF PadRuns
  <2>4. Gone'
    BY <1>1, <2>2, EndedIsGone
  <2> QED BY <2>3, <2>4
<1> QED BY <1>1, <1>4, <1>5, <1>6, <1>7 DEF PadInv

LEMMA PadStep == ASSUME PadInv, [Pad!Next]_(Pad!vars) PROVE PadInv'
<1>1. CASE UNCHANGED Pad!vars
  BY <1>1 DEF Pad!vars, Pad!editing, PadInv, PadTypes, PadRuns, ListComes, ShownTexts, Gone
<1> QED BY <1>1, OpenKeeps, SyncKeeps, AddKeeps, UpdateKeeps, RemoveKeeps,
           EditorKeeps, FetchKeeps,
           FetchFailsKeeps, SaveKeeps, FindKeeps, DeleteKeeps, ReadKeeps, RequestFailsKeeps
        DEF Pad!Next

LEMMA PadInvIsKept == Pad!Spec => []PadInv
<1>1. PadInv /\ [Pad!Next]_(Pad!vars) => PadInv'
  BY PadStep
<1> QED BY <1>1, PadStarts, PTL DEF Pad!Spec

-----------------------------------------------------------------------------

\* Once no call is under way the list is what is stored and the spinner is gone,
\* in whatever order the calls of the page overlapped: whoever changed the store
\* reads it again behind its own change (useNotes.ts).
THEOREM ListIsStored == Pad!Spec => []ShownIsStored
<1>1. PadInv => ShownIsStored
  <2> SUFFICES ASSUME PadInv, Pad!Free = Calls, failures = 0, ~leftBusy
               PROVE  ~loading /\ ShownTexts = store
    BY DEF ShownIsStored, Pad!ShownIsStored, ShownTexts
  <2>1. \A c \in Calls : ~Reads(call[c])
    BY DEF Pad!Free, Reads
  <2> QED BY <2>1 DEF PadInv, ListComes
<1> QED BY <1>1, PadInvIsKept, PTL

\* What a save writes on a note of the user that was not there: a new note, or
\* one that an update had found.
LEMMA SaveBringsBack ==
    ASSUME PadInv, NEW c \in Calls, Pad!Save(c), NEW i \in OwnNotes,
           i \in removed \ DOMAIN store, i \in DOMAIN store'
    PROVE  c \in stale /\ call[c].id = i
<1>1. PICK ids : /\ DOMAIN store' = ids \cup DOMAIN store
                 /\ \A j \in ids \cap OwnNotes :
                       j = call[c].id /\ call[c].kind \in {"add", "update"}
  BY SaveWrites
<1>2. call[c].id = i /\ call[c].kind \in {"add", "update"}
  BY <1>1
<1>3. call[c] # Idle /\ call[c].step = "save"
  BY ServedIs DEF Pad!Save, Pad!Served
<1>4. call[c].kind # "add"
  BY <1>2, <1>3 DEF PadInv, Gone, Saves
<1> QED BY <1>2, <1>3, <1>4 DEF PadInv, Gone, Saves

LEMMA OwnNotesStep ==
    ASSUME PadInv, [Pad!Next]_(Pad!vars), NEW i \in OwnNotes
    PROVE  /\ i \in removed \ DOMAIN store /\ i \in DOMAIN store'
                => Head(queue) \in stale /\ call[Head(queue)].id = i
           /\ (i \in DOMAIN store /\ ~(i \in DOMAIN store' /\ store'[i] = store[i]))
                => call[Head(queue)].id = i
<1>1. CASE store' = store
  BY <1>1
<1>2. ASSUME NEW c \in Calls, Pad!Save(c)
      PROVE  /\ i \in removed \ DOMAIN store /\ i \in DOMAIN store'
                  => Head(queue) \in stale /\ call[Head(queue)].id = i
             /\ (i \in DOMAIN store /\ ~(i \in DOMAIN store' /\ store'[i] = store[i]))
                  => call[Head(queue)].id = i
  <2>1. c = Head(queue)
    BY <1>2 DEF Pad!Save, Pad!Served
  <2>2. PICK ids : /\ DOMAIN store' = ids \cup DOMAIN store
                   /\ \A j \in DOMAIN store : j \notin ids => store'[j] = store[j]
                   /\ \A j \in ids \cap OwnNotes :
                         j = call[c].id /\ call[c].kind \in {"add", "update"}
    BY <1>2, SaveWrites
  <2>3. i \in DOMAIN store /\ ~(i \in DOMAIN store' /\ store'[i] = store[i]) => call[c].id = i
    BY <2>2
  <2>4. i \in removed \ DOMAIN store /\ i \in DOMAIN store' => c \in stale /\ call[c].id = i
    BY <1>2, SaveBringsBack
  <2> QED BY <2>1, <2>3, <2>4
<1>3. ASSUME NEW c \in Calls, Pad!Delete(c)
      PROVE  /\ DOMAIN store' \subseteq DOMAIN store
             /\ (i \in DOMAIN store /\ ~(i \in DOMAIN store' /\ store'[i] = store[i]))
                  => call[Head(queue)].id = i
  BY <1>3 DEF Pad!Delete, Pad!Served, Pad!Restrict
<1>4. \/ store' = store
      \/ \E c \in Calls : Pad!Save(c) \/ Pad!Delete(c)
  BY DEF Pad!Next, Pad!vars, Pad!Open, Pad!SyncWithApi, Pad!AddNote, Pad!UpdateNote,
         Pad!RemoveNote, Pad!OpenEditor, Pad!Cancel, Pad!FetchNotes, Pad!FetchFails,
         Pad!Find, Pad!Read, Pad!RequestFails
<1> QED BY <1>1, <1>2, <1>3, <1>4

\* A note of the user is changed only by a call the user made on it, and one
\* that was deleted comes back only with an update that had found it before:
\* that one is saved though the note is gone (useNotes.ts, lines 134 to 146).
\* Synchronisations, failures, the calls of a page that was left and whatever
\* the editor lets overlap do neither.
THEOREM NotesAreKept == Pad!Spec => OwnNotesKept
<1>1. PadInv /\ [Pad!Next]_(Pad!vars) =>
        [\A i \in OwnNotes :
           /\ i \in removed \ DOMAIN store /\ i \in DOMAIN store'
                => Head(queue) \in stale /\ call[Head(queue)].id = i
           /\ (i \in DOMAIN store /\ ~(i \in DOMAIN store' /\ store'[i] = store[i]))
                => call[Head(queue)].id = i]_(Pad!vars)
  BY OwnNotesStep
<1> QED BY <1>1, PadInvIsKept, PTL DEF Pad!Spec, OwnNotesKept, Pad!OwnNotesKept

=============================================================================
