------------------------------ MODULE ChildApp ------------------------------
(***************************************************************************)
(* The /app surface a child opens on a phone: the service worker that      *)
(* keeps its shell for offline use across deployments (service-worker.ts), *)
(* the PIN sign-in page (routes/app/+page.svelte) and the status view it   *)
(* shows (AppStatusView.svelte).                                           *)
(***************************************************************************)
EXTENDS Integers, FiniteSets, Functions

CONSTANTS
  Children,
  Null,
  MaxVer,     \* bound on deployments: the versions are 1..MaxVer
  MaxActs     \* bound on openings, sign-ins and sign-outs

\* Nobody is named like a state of the page; Null is no child, version or file.
ConstantsOK ==
  /\ Null \notin Children /\ "out" \notin Children
  /\ Null \notin {"out", "answered"} /\ Null \notin Nat /\ Null \notin {"/app", "chunk"} \X Nat

VARIABLES
  deployed,    \* the version the server serves
  net,         \* the browser is online
  caches,      \* the caches that exist, by worker version: sets of <<path, version>>
  active,      \* the version of the worker in control, or Null
  installing,  \* [ver, ready] of the worker being installed, or Null
  page,        \* the page being loaded: [phase, path, by, ver]
  cookie,      \* whose PIN session the browser holds
  session,     \* session: Null while probing, "out", or a child
  view,        \* the status view: [n, shown] of the mounted one, or Null
  asks,        \* API requests under way: [op, n, child, val]
  mounts,      \* status views mounted so far
  acts,
  moved,       \* history: deployment or worker changed since the page was opened
  left         \* history: Null, or how the last sign-out was answered

worker == <<deployed, net, caches, active, installing>>
app == <<cookie, session, view, asks, mounts, left>>
vars == <<worker, page, app, acts, moved>>

Blank == [phase |-> "none", path |-> Null, by |-> Null, ver |-> Null]

Init ==
  /\ deployed = 1 /\ net = TRUE /\ caches = [v \in {} |-> {}]
  /\ active = Null /\ installing = Null /\ page = Blank
  /\ cookie = Null /\ session = Null /\ view = Null /\ asks = {}
  /\ mounts = 0 /\ acts = 0 /\ moved = FALSE /\ left = Null

\* What a worker precaches: its content-hashed chunks and the /app page.
PRECACHE(v) == {<<"/app", v>>, <<"chunk", v>>}

\* The server answers a fetch: the page as deployed now, only the deployed chunks.
Fetched(path, v) ==
  IF path = "/app" THEN <<path, deployed>>
  ELSE IF path = "chunk" /\ v = deployed THEN <<path, v>> ELSE Null

(* ---- service-worker.ts ---- *)

Deploy ==
  /\ deployed < MaxVer /\ deployed' = deployed + 1 /\ moved' = TRUE
  /\ UNCHANGED <<net, caches, active, installing, page, app, acts>>

Connectivity ==
  /\ net' = ~net
  /\ UNCHANGED <<deployed, caches, active, installing, page, app, acts, moved>>

\* A running page registers the worker, and every opening looks for a newer one:
\* its install opens a cache.
InstallStarts ==
  /\ net /\ installing = Null /\ deployed # active
  /\ page.phase # "none" /\ (active = Null => page.phase = "run")
  /\ installing' = [ver |-> deployed, ready |-> FALSE]
  /\ caches' = [v \in DOMAIN caches \cup {deployed} |-> IF v \in DOMAIN caches THEN caches[v] ELSE {}]
  /\ UNCHANGED <<deployed, net, active, page, app, acts, moved>>

\* addAll stores all of the list or nothing.
Install ==
  /\ installing # Null /\ ~installing.ready
  /\ LET v == installing.ver
         all == net /\ deployed = v /\ v \in DOMAIN caches
     IN  /\ caches' = IF all THEN [caches EXCEPT ![v] = PRECACHE(v)] ELSE caches
         /\ installing' = IF all THEN [installing EXCEPT !.ready = TRUE] ELSE Null
  /\ UNCHANGED <<deployed, net, active, page, app, acts, moved>>

\* skipWaiting and activate: the other versions' caches go, open pages are taken over.
Activate ==
  /\ installing # Null /\ installing.ready
  /\ active' = installing.ver /\ installing' = Null
  /\ caches' = Restrict(caches, {installing.ver})
  /\ moved' = TRUE
  /\ UNCHANGED <<deployed, net, page, app, acts>>

\* The paths the fetch handler of worker w answers cache-first.
PRECACHE_PATHS(w, path, v) == path = "/app" \/ (path = "chunk" /\ v = w)

\* The cache of w is opened, and so created, when a request is served; what came
\* over the network is stored.
Kept(w) == IF w \in DOMAIN caches THEN caches[w] ELSE {}
Opened(w, got) ==
  caches' = [u \in DOMAIN caches \cup {w} |->
               IF u = w THEN Kept(w) \cup ({got} \ {Null}) ELSE caches[u]]

\* cacheFirst: what is kept under the path;
\* a miss goes to the network once and is stored if it was answered.
cacheFirst(w, path, v) ==
  LET hits == {x \in Kept(w) : x[1] = path /\ (path = "chunk" => x[2] = v)}
  IN  IF hits # {} THEN CHOOSE x \in hits : TRUE
      ELSE IF net THEN Fetched(path, v) ELSE Null

\* networkFirstShell: the network's answer, a 404 too; the kept page when there is none.
networkFirstShell(w) ==
  LET hits == {x \in Kept(w) : x[1] = "/app"}
  IN  IF net \/ hits = {} THEN Null ELSE CHOOSE x \in hits : TRUE

(* ---- the page ---- *)

Act == acts < MaxActs /\ acts' = acts + 1

\* Opening /app, or a path under it that the server does not have, or reloading:
\* the page's own state starts over.
Navigate(path) ==
  /\ Act
  /\ page' = [phase |-> "asked", path |-> path, by |-> active, ver |-> Null]
  /\ session' = Null /\ view' = Null /\ asks' = {} /\ moved' = FALSE
  /\ UNCHANGED <<worker, cookie, mounts, left>>

Shelled(got) ==
  page' = IF got = Null THEN [page EXCEPT !.phase = "broken"]
          ELSE [page EXCEPT !.phase = "shell", !.path = "chunk", !.ver = got[2]]

\* The fetch handler of the worker that had control when the request was made.
ShellServed ==
  /\ page.phase = "asked"
  /\ CASE page.by = Null -> Shelled(IF net THEN Fetched(page.path, Null) ELSE Null) /\ UNCHANGED caches
       [] page.by # Null /\ PRECACHE_PATHS(page.by, page.path, Null) ->
            LET got == cacheFirst(page.by, page.path, Null)
            IN  Opened(page.by, got) /\ Shelled(got)
       [] OTHER -> Opened(page.by, Null) /\ Shelled(networkFirstShell(page.by))
  /\ UNCHANGED <<deployed, net, active, installing, app, acts, moved>>

\* The shell asks for the chunks it names, of whichever worker is in control now.
ChunkAsked ==
  /\ page.phase = "shell"
  /\ page' = [page EXCEPT !.phase = "asking", !.by = active]
  /\ UNCHANGED <<worker, app, acts, moved>>

Started(got) == page' = [page EXCEPT !.phase = IF got = Null THEN "broken" ELSE "run"]

\* The page runs and probes the session.
ChunkServed ==
  /\ page.phase = "asking"
  /\ IF page.by # Null /\ PRECACHE_PATHS(page.by, "chunk", page.ver)
     THEN LET got == cacheFirst(page.by, "chunk", page.ver)
          IN  Opened(page.by, got) /\ Started(got)
     ELSE Started(IF net THEN Fetched("chunk", page.ver) ELSE Null) /\ UNCHANGED caches
  /\ asks' = IF page'.phase = "run" THEN {[op |-> "probe", n |-> 0, child |-> Null, val |-> Null]} ELSE {}
  /\ UNCHANGED <<deployed, net, active, installing, cookie, session, view, mounts, left, acts, moved>>

(* ---- routes/app/+page.svelte ---- *)

\* A session to show: signed in mounts a status view, which loads at once.
Page(s) ==
  /\ session' = s
  /\ IF s \in Children
     THEN IF view # Null THEN UNCHANGED <<view, mounts>>
          ELSE view' = [n |-> mounts + 1, shown |-> Null] /\ mounts' = mounts + 1
     ELSE view' = Null /\ UNCHANGED mounts

\* What a mounted view adds to the requests under way.
Loading == IF mounts' # mounts
           THEN {[op |-> "status", n |-> mounts', child |-> Null, val |-> Null]} ELSE {}

\* probeSession: a failure shows the sign-in form.
ProbeAnswered(r, ok) ==
  /\ r.op = "probe" /\ (ok => net)
  /\ Page(IF ok /\ cookie # Null THEN cookie ELSE "out")
  /\ asks' = (asks \ {r}) \cup Loading
  /\ UNCHANGED <<worker, page, cookie, left, acts, moved>>

handleLogin(c) ==
  /\ Act /\ session = "out" /\ \A r \in asks : r.op # "login"
  /\ asks' = asks \cup {[op |-> "login", n |-> 0, child |-> c, val |-> Null]}
  /\ UNCHANGED <<worker, page, cookie, session, view, mounts, left, moved>>

\* Refused, throttled and unreachable leave the form; the cookie comes with the answer.
LoginAnswered(r, ok) ==
  /\ r.op = "login" /\ (ok => net)
  /\ cookie' = IF ok THEN r.child ELSE cookie
  /\ left' = IF ok THEN Null ELSE left
  /\ Page(IF ok THEN r.child ELSE session)
  /\ asks' = (asks \ {r}) \cup Loading
  /\ UNCHANGED <<worker, page, acts, moved>>

\* Nothing disables the button: a second click is a second request.
handleLogout ==
  /\ Act /\ session \in Children
  /\ asks' = asks \cup {[op |-> "logout", n |-> acts', child |-> Null, val |-> Null]}
  /\ UNCHANGED <<worker, page, cookie, session, view, mounts, left, moved>>

\* Best effort: whatever is answered, the page drops to the sign-in form, even
\* one where the next child has signed in since.
LogoutAnswered(r, ok) ==
  /\ r.op = "logout" /\ (ok => net)
  /\ cookie' = IF ok THEN Null ELSE cookie
  /\ left' = IF ok THEN "answered" ELSE "failed"
  /\ Page("out")
  /\ asks' = asks \ {r}
  /\ UNCHANGED <<worker, page, acts, moved>>

(* ---- AppStatusView.svelte ---- *)

\* GET /api/app/status, which no worker touches: the status of the session's child.
StatusServed(r) ==
  /\ r.op = "status" /\ r.val = Null /\ net
  /\ asks' = (asks \ {r}) \cup {[r EXCEPT !.val = IF cookie = Null THEN "error" ELSE cookie]}
  /\ UNCHANGED <<worker, page, cookie, session, view, mounts, left, acts, moved>>

\* A plausible bug: the status lives in the page and any answer fills it.
StatusAnsweredAnyView(r) ==
  /\ r.op = "status"
  /\ view' = IF view # Null THEN [view EXCEPT !.shown = IF r.val = Null THEN "error" ELSE r.val]
             ELSE view
  /\ asks' = asks \ {r}
  /\ UNCHANGED <<worker, page, cookie, session, mounts, left, acts, moved>>

\* load: the answer fills the view that asked, which may be gone by now.
StatusAnswered(r) ==
  /\ r.op = "status"
  /\ view' = IF view # Null /\ view.n = r.n
             THEN [view EXCEPT !.shown = IF r.val = Null THEN "error" ELSE r.val] ELSE view
  /\ asks' = asks \ {r}
  /\ UNCHANGED <<worker, page, cookie, session, mounts, left, acts, moved>>

\* The PIN session's cookie runs out.
Expires ==
  /\ cookie # Null /\ cookie' = Null
  /\ UNCHANGED <<worker, page, session, view, asks, mounts, left, acts, moved>>

Next ==
  \/ Deploy \/ Connectivity \/ InstallStarts \/ Install \/ Activate
  \/ \E path \in {"/app", "/app/other"} : Navigate(path)
  \/ ShellServed \/ ChunkAsked \/ ChunkServed
  \/ \E r \in asks, ok \in BOOLEAN : ProbeAnswered(r, ok) \/ LoginAnswered(r, ok) \/ LogoutAnswered(r, ok)
  \/ \E c \in Children : handleLogin(c)
  \/ handleLogout
  \/ \E r \in asks : StatusServed(r) \/ StatusAnswered(r)
  \/ Expires

Spec == Init /\ [][Next]_vars

-----------------------------------------------------------------------------

\* A page opened while a worker is in control comes up, offline too: its chunks
\* are kept with its shell.  Only a deployment or a new worker taking over while
\* it loads can leave a shell whose chunks nobody has any more.
LoadsWhole ==
  page.phase = "broken" =>
    moved \/ page.by = Null \/ page.path = "/app/other"

\* The cache of the worker in control is whole, and of one version.
ActiveCacheWhole == active # Null => active \in DOMAIN caches /\ caches[active] = PRECACHE(active)

\* The status on the page is that of the child signed in, however late it
\* comes, and a page signed out shows none.
OwnStatus == view # Null => session \in Children /\ view.shown \in {Null, "error", session}

\* After a sign-out nobody is signed in, on a reload neither, until the next
\* sign-in, unless the sign-out did not get through.
SignedOutStays == session \in Children => left # "answered"

ChildSound == LoadsWhole /\ ActiveCacheWhole /\ OwnStatus /\ SignedOutStays

\* "`/app` navigations -> network-first": online, the page is the deployed one.
NetworkFirst == page.phase = "shell" /\ net /\ ~moved => page.ver = deployed

=============================================================================
