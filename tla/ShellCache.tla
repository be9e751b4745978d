------------------------------ MODULE ShellCache ------------------------------
(***************************************************************************)
(* The service workers of the prototypes (sw.js): each keeps the files of  *)
(* its page in a cache named by CACHE, which a new sw.js may bump.  They   *)
(* differ in when they ask the network, in how they fill the cache, and in *)
(* what they answer when there is nothing to answer with.  The prototypes  *)
(* share one origin, so their workers see each other's caches.             *)
(*                                                                         *)
(* One worker is modelled at a time, the others only by the sweep of their *)
(* activation.  A deployment replaces the files and perhaps sw.js.  Behind *)
(* the caches is the browser's HTTP cache: it may answer any fetch of a    *)
(* file it has, however old, unless the request says `cache: 'reload'`.  A *)
(* request and its answer are one step.  A Mutant is a plausible bug in    *)
(* the definition after it; no action uses one.                            *)
(***************************************************************************)
EXTENDS Naturals, FiniteSets, Sequences, SequencesExt

CONSTANTS
    Script,     \* what the page loads after its index
    Index,
    MaxVersion, \* bound: deployments, counting the first
    MaxPuts     \* bound: cache writes under way

ASSUME FileAssumption == Index # Script
ASSUME VersionAssumption == MaxVersion \in Nat \ {0}

File == {Index, Script}
Version == 1 .. MaxVersion

\* What a page gets and a cache holds: a version of the file, or something else.
TheFile(v) == [kind |-> "file", version |-> v]
Other(k) == [kind |-> k, version |-> 0]
Absent == Other("none")

CacheFirst ==
    [shell |-> File, fresh |-> FALSE, reload |-> FALSE, atomic |-> TRUE, sweeps |-> TRUE,
     explains |-> FALSE]
NetworkFirst == [CacheFirst EXCEPT !.fresh = TRUE, !.reload = TRUE]

CertificateWorker == CacheFirst
PasswordWorker == CacheFirst
QrScannerWorker == CacheFirst
IpfsWorker == [CacheFirst EXCEPT !.shell = {Index}, !.sweeps = FALSE]
MinimalWorker == NetworkFirst
OsmWorker == NetworkFirst
WasmWorker == NetworkFirst
QtCounterWorker == NetworkFirst
MinimalQtWorker == [NetworkFirst EXCEPT !.atomic = FALSE, !.explains = TRUE]

Workers == {CertificateWorker, PasswordWorker, QrScannerWorker, IpfsWorker, MinimalWorker,
            OsmWorker, WasmWorker, QtCounterWorker, MinimalQtWorker}

VARIABLES
    worker,     \* which sw.js
    online,
    version,    \* of the files on the server
    generation, \* of CACHE in the sw.js on the server
    active,     \* the generation of the worker in control; 0 for none
    installing, \* the generation of the worker that installs; 0 for none
    toAdd,      \* the files its addAll still waits for
    added,      \* what it has fetched
    caches,     \* the caches by generation: what they hold of each file
    names,      \* the caches there are, in the order of their creation
    page,       \* what the page got of each file
    puts,       \* cache writes under way
    http,       \* the HTTP cache: what it holds of each file
    born,       \* history: the version that brought each generation; 0 for none yet
    spoiled     \* history: the generations whose install missed a file

server == <<worker, version, generation>>
install == <<installing, toAdd, added>>
history == <<born, spoiled>>
storage == <<caches, names>>
shellVars == <<server, online, active, install, storage, page, puts, http, history>>

Nothing == [f \in File |-> Absent]

\* caches.open(name): creates the cache if need be.
Opened(g) == IF g \in ToSet(names) THEN names ELSE Append(names, g)

\* caches.match(): the first cache that has the file; Absent on a miss.
Match(f) ==
    LET hit == SelectInSeq(names, LAMBDA g : caches[g][f] # Absent)
    IN IF hit = 0 THEN Absent ELSE caches[names[hit]][f]

\* Every cache is deleted but the one of generation g, if it exists.
Sweep(g) ==
    /\ names' = IF g \in ToSet(names) THEN <<g>> ELSE <<>>
    /\ caches' = [h \in DOMAIN caches |-> IF h = g THEN caches[h] ELSE Nothing]

(***************************************************************************)
(* The server and the connection.                                          *)
(***************************************************************************)
Deploy ==
    /\ version < MaxVersion /\ version' = version + 1
    /\ generation' \in {generation, generation + 1}
    /\ born' = IF generation' = generation THEN born ELSE [born EXCEPT ![generation'] = version']
    /\ UNCHANGED <<worker, online, active, install, storage, page, puts, http, spoiled>>

Connection ==
    /\ online' = ~online
    /\ UNCHANGED <<server, active, install, storage, page, puts, http, history>>

(***************************************************************************)
(* A request that leaves the worker: the server answers, which the HTTP    *)
(* cache stores or not, or the HTTP cache does.                            *)
(***************************************************************************)
Answers == {TheFile(v) : v \in Version} \cup {Other("http error")}

FromServer(f, answer) ==
    /\ online /\ answer = TheFile(version)
    /\ \E stored \in {answer, Absent} : http' = [http EXCEPT ![f] = stored]

FromHttpCache(f, answer) == http[f] = answer /\ UNCHANGED http

HttpError(answer) == online /\ answer = Other("http error") /\ UNCHANGED http

Requested(f, answer) == FromServer(f, answer) \/ FromHttpCache(f, answer) \/ HttpError(answer)

\* Mutant: the shell cache is filled without `cache: 'reload'`.
ShellRequestedAnyhow(f, answer) == FromServer(f, answer) \/ FromHttpCache(f, answer)

\* The request of an install.  An HTTP error fails it.
ShellRequested(f, answer) ==
    FromServer(f, answer) \/ (~worker.reload /\ FromHttpCache(f, answer))

(***************************************************************************)
(* install and activate.                                                   *)
(***************************************************************************)
InstallBegins ==
    /\ online /\ installing = 0 /\ active # generation
    /\ installing' = generation
    /\ toAdd' = worker.shell /\ added' = Nothing
    /\ names' = Opened(generation)
    /\ UNCHANGED <<server, online, active, caches, page, puts, http, history>>

\* A file arrives.  cache.addAll() stores none before it has them all; a cache
\* that was swept meanwhile is written to and not seen again.
FileAdded(f) ==
    /\ installing # 0 /\ f \in toAdd
    /\ toAdd' = toAdd \ {f}
    /\ \E answer \in Answers : /\ ShellRequested(f, answer)
                               /\ added' = [added EXCEPT ![f] = answer]
    /\ caches' = IF installing \notin ToSet(names) THEN caches
                 ELSE IF ~worker.atomic THEN [caches EXCEPT ![installing][f] = added'[f]]
                 ELSE IF toAdd' = {}
                 THEN [caches EXCEPT ![installing] =
                          [g \in File |-> IF added'[g] # Absent THEN added'[g] ELSE @[g]]]
                 ELSE caches
    /\ UNCHANGED <<server, online, active, installing, names, page, puts, history>>

\* A file cannot be had or stored.  addAll gives up as a whole, and the
\* worker is installed all the same.
FileFails(f) ==
    /\ installing # 0 /\ f \in toAdd
    /\ toAdd' = IF worker.atomic THEN {} ELSE toAdd \ {f}
    /\ spoiled' = spoiled \cup {installing}
    /\ UNCHANGED <<server, online, active, installing, added, storage, page, puts, http, born>>

\* skipWaiting(), the sweep over every other name, clients.claim().
Activate ==
    /\ installing # 0 /\ toAdd = {}
    /\ active' = installing /\ installing' = 0 /\ added' = Nothing
    /\ IF worker.sweeps THEN Sweep(installing) ELSE UNCHANGED storage
    /\ UNCHANGED <<server, online, toAdd, page, puts, http, history>>

\* The worker of another prototype sweeps: to it, all of these are other names.
SiblingActivates ==
    /\ Sweep(0)
    /\ UNCHANGED <<server, online, active, install, page, puts, http, history>>

(***************************************************************************)
(* fetch.                                                                  *)
(***************************************************************************)
Load ==
    /\ Cardinality(puts) < MaxPuts
    /\ page' = [f \in File |-> Other("pending")]
    /\ UNCHANGED <<server, online, active, install, storage, puts, http, history>>

Gets(f, answer) == page' = [page EXCEPT ![f] = answer]

\* Mutant: the answer is stored whether it is the file or an error.
RefreshAnything(f, answer) ==
    puts' = puts \cup {[cache |-> active, file |-> f, what |-> answer]}

\* The answer is stored later, unless it is an error.
Refresh(f, answer) ==
    puts' = IF answer.kind # "file" THEN puts
            ELSE puts \cup {[cache |-> active, file |-> f, what |-> answer]}

\* Network first: its answer goes to the page, and to the cache.
AskNetwork(f) ==
    \E answer \in Answers : Requested(f, answer) /\ Gets(f, answer) /\ Refresh(f, answer)

\* Mutant: a navigation lands on what caches.match() finds for the index.
ExplainNotForPages(f) ==
    IF Match(f) # Absent THEN Match(f)
    ELSE IF f = Index THEN Other("undefined")
    ELSE Other("explanation")

\* fromCacheOrExplain(): every path ends in a real answer.
FromCacheOrExplain(f) ==
    IF Match(f) # Absent THEN Match(f) ELSE Other("explanation")

\* The other workers: a navigation may be answered with undefined, anything
\* else with Response.error().
FromCache(f) ==
    IF Match(f) # Absent THEN Match(f)
    ELSE IF f = Index THEN Other("undefined") ELSE Other("network error")

FallBack(f) ==
    /\ ~online
    /\ Gets(f, IF worker.explains THEN FromCacheOrExplain(f) ELSE FromCache(f))
    /\ UNCHANGED <<puts, http>>

\* Cache first, and nothing is ever added.
CacheThenNetwork(f) ==
    /\ \/ Match(f) # Absent /\ Gets(f, Match(f)) /\ UNCHANGED http
       \/ /\ Match(f) = Absent
          /\ \E answer \in Answers : Requested(f, answer) /\ Gets(f, answer)
       \/ /\ Match(f) = Absent /\ ~online
          /\ Gets(f, Other("network error")) /\ UNCHANGED http
    /\ UNCHANGED puts

\* Without a worker in control the browser asks.
Uncontrolled(f) ==
    /\ active = 0
    /\ \/ \E answer \in Answers : Requested(f, answer) /\ Gets(f, answer)
       \/ ~online /\ Gets(f, Other("offline")) /\ UNCHANGED http
    /\ UNCHANGED puts

Fetch(f) ==
    /\ page[f] = Other("pending") /\ (f = Index \/ page[Index] # Other("pending"))
    /\ \/ Uncontrolled(f)
       \/ active # 0 /\ worker.fresh /\ (AskNetwork(f) \/ FallBack(f))
       \/ active # 0 /\ ~worker.fresh /\ CacheThenNetwork(f)
    /\ UNCHANGED <<server, online, active, install, storage, history>>

\* cache.put ends, or the quota is used up.  A cache that was swept meanwhile
\* comes back.
PutEnds(p) ==
    /\ puts' = puts \ {p}
    /\ names' = Opened(p.cache)
    /\ caches' \in {caches, [caches EXCEPT ![p.cache][p.file] = p.what]}
    /\ UNCHANGED <<server, online, active, install, page, http, history>>

ShellInit ==
    /\ worker \in Workers /\ online \in BOOLEAN
    /\ version = 1 /\ generation = 1
    /\ active = 0 /\ installing = 0 /\ toAdd = {} /\ added = Nothing
    /\ caches = [g \in Version |-> Nothing] /\ names = <<>>
    /\ page = Nothing /\ puts = {} /\ http = Nothing
    /\ born = [g \in Version |-> IF g = 1 THEN 1 ELSE 0] /\ spoiled = {}

ShellNext ==
    \/ Deploy \/ Connection
    \/ InstallBegins \/ Activate \/ SiblingActivates
    \/ \E f \in File : FileAdded(f) \/ FileFails(f) \/ Fetch(f)
    \/ Load
    \/ \E p \in puts : PutEnds(p)

ShellSpec == ShellInit /\ [][ShellNext]_shellVars

(***************************************************************************)
(* Properties.                                                             *)
(***************************************************************************)
Outcomes == {"none", "pending", "file", "http error", "undefined", "network error",
             "explanation", "offline"}
Answer == [kind : Outcomes, version : 0 .. MaxVersion]

ShellTypeOK ==
    /\ worker \in Workers /\ online \in BOOLEAN
    /\ {version, generation} \subseteq Version
    /\ {active, installing} \subseteq 0 .. MaxVersion
    /\ toAdd \subseteq File /\ added \in [File -> Answer]
    /\ caches \in [Version -> [File -> Answer]] /\ names \in Seq(Version)
    /\ page \in [File -> Answer] /\ http \in [File -> Answer]
    /\ born \in [Version -> 0 .. MaxVersion] /\ spoiled \subseteq Version
    /\ puts \subseteq [cache : Version, file : File, what : Answer]

\* No stale file gets into a fresh cache generation: when the install of a
\* worker that bypasses the HTTP cache missed no file, its cache never holds a
\* file older than the deployment that named it, whatever the HTTP cache
\* answers to the page later, whichever cache write is late and whoever sweeps
\* in between (the comments of prototype-minimal/sw.js 22-24 and
\* prototype-qt/web/sw.js 25-27).
NoStaleGeneration ==
    worker.reload =>
        \A g \in Version \ spoiled, f \in File :
            caches[g][f].kind = "file" => caches[g][f].version >= born[g]

Complete == \A f \in File : Match(f).kind = "file"

\* A complete offline copy is lost only when a worker activates, its own
\* successor or that of another prototype of the origin: no failing server, no
\* late write and no failing install destroys it before (the comments of
\* prototype-minimal/sw.js 40-41 and the sweeps of activate).
LossNeedsActivation ==
    [][Complete /\ ~Complete' => Activate \/ SiblingActivates]_shellVars

\* The two rules of prototype-minimal-qt/web/sw.js 10-20: its worker never
\* answers with undefined or a network error, and a file that arrived during
\* the install is kept whatever happens to the others.
WorkerRules ==
    worker.explains =>
        /\ \A f \in File : page[f].kind \notin {"undefined", "network error"}
        /\ \A f \in File :
              added[f] # Absent /\ installing \in ToSet(names) => caches[installing][f] = added[f]

=============================================================================
