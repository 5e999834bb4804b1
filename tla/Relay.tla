-------------------------------- MODULE Relay --------------------------------
(***************************************************************************)
(* /download (internal/relay/redirect.go). A request of a prober or of     *)
(* nginx ("proxied") is served from the CDN through a link, under a        *)
(* semaphore; any other is redirected to the link. Links come from a cache *)
(* with timers, or from the API, where concurrent requests share one call  *)
(* (singleflight).                                                         *)
(*                                                                         *)
(* All requests here have the same pickcode and agent: those with another  *)
(* cache key share nothing with them but the semaphore. A proxied request  *)
(* that finds the video in the local cache is over at once; files come and *)
(* go there at any time, so only requests that find none are shown.        *)
(*                                                                         *)
(* Every request is a goroutine, and so are the shared call and a timer.   *)
(* An action is one operation on what they share: on the sync.Map, the     *)
(* singleflight group or the semaphore.                                    *)
(***************************************************************************)
EXTENDS Naturals, Sequences, FiniteSets, SequencesExt

CONSTANTS
    Request,    \* requests under way at a time
    Permits,    \* the weight of originSem
    MaxLink,    \* bound: links the API hands out between two starts
    ApiFails,   \* may the API refuse?
    NoOne       \* the owner of a call whose context is cancelled

ASSUME RelayAssumption ==
    /\ Permits \in Nat \ {0}
    /\ MaxLink \in Nat
    /\ ApiFails \in BOOLEAN
    /\ NoOne \notin Request

VARIABLES
    request,    \* where each request is, and its local variables
    gone,       \* requests whose client has left: their context is cancelled
    held,       \* originSem: permits given out
    queue,      \* originSem: requests waiting for one
    cached,     \* Redirector.cache: the link stored, if any
    flight,     \* Redirector.sf: the call under way
    issued      \* how many links the API has made; they are numbered

semVars == <<held, queue>>
linkVars == <<cached, flight, issued>>
vars == <<request, gone, semVars, linkVars>>

MaxRetries == 2
NoLink == 0
Link == 1 .. MaxLink

NoFlight == [owner |-> NoOne, waiters |-> {}, result |-> "none", link |-> NoLink]
Idle == [pc |-> "idle", proxied |-> FALSE, attempt |-> 0, link |-> NoLink, tried |-> {}]

Init ==
    /\ request = [r \in Request |-> Idle]
    /\ gone = {}
    /\ held = 0
    /\ queue = << >>
    /\ cached = NoLink
    /\ flight = NoFlight
    /\ issued = 0

At(r, pc) == request[r].pc = pc
GoTo(r, pc) == request' = [request EXCEPT ![r].pc = pc]

-----------------------------------------------------------------------------
(* Faulty variant: the permit is freed and nobody told.                    *)
ReleaseToNobody(r) ==
    /\ held' = held - 1
    /\ queue' = queue
    /\ request' = [request EXCEPT ![r] = Idle]

(* originSem.Release: the first waiter gets the permit.                    *)
Release(r) ==
    IF queue = << >>
    THEN /\ held' = held - 1
         /\ queue' = queue
         /\ request' = [request EXCEPT ![r] = Idle]
    ELSE /\ held' = held
         /\ queue' = Tail(queue)
         /\ request' = [request EXCEPT ![r] = Idle, ![Head(queue)].pc = "granted"]

(* A handler returns; the deferred Release is a proxied request's only.    *)
Return(r) ==
    /\ gone' = gone \ {r}
    /\ IF request[r].proxied
       THEN Release(r)
       ELSE request' = [request EXCEPT ![r] = Idle] /\ UNCHANGED semVars

-----------------------------------------------------------------------------
(* RedirectToRealURL. A redirect needs no permit; a proxied request calls  *)
(* originSem.Acquire first, and may have to wait there.                    *)
Arrive(r) ==
    /\ At(r, "idle")
    /\ \/ GoTo(r, "load") /\ UNCHANGED semVars
       \/ /\ held < Permits /\ queue = << >>
          /\ request' = [request EXCEPT ![r].pc = "load", ![r].proxied = TRUE]
          /\ held' = held + 1
          /\ queue' = queue
       \/ /\ ~ (held < Permits /\ queue = << >>)
          /\ request' = [request EXCEPT ![r].pc = "queued", ![r].proxied = TRUE]
          /\ queue' = Append(queue, r)
          /\ held' = held
    /\ UNCHANGED <<gone, linkVars>>

(* The connection breaks: the context of the request is cancelled, and     *)
(* with it that of the call the request has started.                       *)
ClientLeaves(r) ==
    /\ ~ At(r, "idle")
    /\ r \notin gone
    /\ gone' = gone \union {r}
    /\ flight' = IF flight.owner = r THEN [flight EXCEPT !.owner = NoOne] ELSE flight
    /\ UNCHANGED <<request, semVars, cached, issued>>

(* A waiting Acquire gives up its place, or a permit that comes too late;  *)
(* the handler returns.                                                    *)
LeaveQueue(r) ==
    /\ At(r, "queued")
    /\ r \in gone
    /\ request' = [request EXCEPT ![r] = Idle]
    /\ gone' = gone \ {r}
    /\ \E i \in DOMAIN queue : queue[i] = r /\ queue' = RemoveAt(queue, i)
    /\ UNCHANGED <<held, linkVars>>

(* Faulty variant: a permit that comes too late is kept.                   *)
GrantedTooLate(r) ==
    /\ At(r, "granted")
    /\ IF r \in gone
       THEN request' = [request EXCEPT ![r] = Idle] /\ gone' = gone \ {r}
       ELSE GoTo(r, "load") /\ gone' = gone
    /\ UNCHANGED <<semVars, linkVars>>

(* Acquire has its permit; if the client left meanwhile it puts it back.   *)
Granted(r) ==
    /\ At(r, "granted")
    /\ IF r \in gone THEN Return(r) ELSE GoTo(r, "load") /\ UNCHANGED <<gone, semVars>>
    /\ UNCHANGED linkVars

-----------------------------------------------------------------------------
(* resolveURL.                                                             *)

(* A request has its link: it goes to the CDN, or it is a redirect and     *)
(* done.                                                                   *)
UseLink(r, link) ==
    IF request[r].proxied
    THEN /\ request' = [request EXCEPT ![r].pc = "origin", ![r].link = link]
         /\ UNCHANGED <<gone, semVars>>
    ELSE Return(r)

(* loadCache; a link that has expired is none (Expire).                    *)
LoadCached(r) ==
    /\ At(r, "load")
    /\ IF cached # NoLink
       THEN UseLink(r, cached)
       ELSE GoTo(r, "join") /\ UNCHANGED <<gone, semVars>>
    /\ UNCHANGED linkVars

(* sf.DoChan: join the call under way or start one. A new call runs under  *)
(* the context of this request, which may be cancelled already.            *)
Join(r) ==
    /\ At(r, "join")
    /\ GoTo(r, "wait")
    /\ flight' = IF flight.result # "none"
                 THEN [flight EXCEPT !.waiters = @ \union {r}]
                 ELSE [owner |-> IF r \in gone THEN NoOne ELSE r, waiters |-> {r},
                       result |-> "pending", link |-> NoLink]
    /\ UNCHANGED <<gone, semVars, cached, issued>>

(* GetDownloadURL has a link; the call stores it and sets its timer.       *)
FetchLink ==
    /\ flight.result = "pending"
    /\ issued < MaxLink
    /\ issued' = issued + 1
    /\ cached' = issued + 1
    /\ flight' = [flight EXCEPT !.result = "ok", !.link = issued + 1]
    /\ UNCHANGED <<request, gone, semVars>>

(* The API refuses, or the context of the request that started the call is *)
(* cancelled.                                                              *)
FetchFails ==
    /\ flight.result = "pending"
    /\ ApiFails \/ flight.owner = NoOne
    /\ flight' = [flight EXCEPT !.result = "error"]
    /\ UNCHANGED <<request, gone, semVars, cached, issued>>

(* Faulty variant: only the request that started the call gets its result. *)
DeliverToOwner ==
    /\ flight.result \in {"ok", "error"}
    /\ flight' = NoFlight
    /\ request' = [r \in Request |->
           IF r \in flight.waiters /\ r = flight.owner
           THEN [request[r] EXCEPT !.pc = flight.result, !.link = flight.link]
           ELSE request[r]]
    /\ UNCHANGED <<gone, semVars, cached, issued>>

(* singleflight takes the call out of its group and gives its result to    *)
(* all who wait; until then, requests join it and may load what it stored. *)
Deliver ==
    /\ flight.result \in {"ok", "error"}
    /\ flight' = NoFlight
    /\ request' = [r \in Request |->
           IF r \in flight.waiters
           THEN [request[r] EXCEPT !.pc = flight.result, !.link = flight.link]
           ELSE request[r]]
    /\ UNCHANGED <<gone, semVars, cached, issued>>

(* The result of the call. An error ends the request, with 404 unless its  *)
(* own client has left.                                                    *)
TakeResult(r) ==
    /\ \/ At(r, "ok") /\ UseLink(r, request[r].link)
       \/ At(r, "error") /\ Return(r)
    /\ UNCHANGED linkVars

(* ctx.Done while the call is under way, which goes on.                    *)
StopWaiting(r) ==
    /\ At(r, "wait")
    /\ r \in gone
    /\ Return(r)
    /\ flight' = [flight EXCEPT !.waiters = @ \ {r}]
    /\ UNCHANGED <<cached, issued>>

-----------------------------------------------------------------------------
(* serveProxy, with its link: a try that ends without a 2xx is repeated,   *)
(* and the cached link is deleted first, whichever it is by now.           *)

(* Faulty variant: one try more.                                           *)
TryOnceMore(r) ==
    /\ At(r, "origin")
    /\ request[r].attempt <= MaxRetries
    /\ request' = [request EXCEPT ![r].pc = "load", ![r].attempt = @ + 1, ![r].link = NoLink,
                                  ![r].tried = @ \union {request[r].link}]
    /\ UNCHANGED <<gone, semVars, flight, issued>>

TryAgain(r) ==
    /\ At(r, "origin")
    /\ request[r].attempt < MaxRetries
    /\ request' = [request EXCEPT ![r].pc = "load", ![r].attempt = @ + 1, ![r].link = NoLink,
                                  ![r].tried = @ \union {request[r].link}]
    /\ UNCHANGED <<gone, semVars, flight, issued>>

(* Faulty variant: the cached link stays.                                  *)
RetryCached(r) == TryAgain(r) /\ cached' = cached

Retry(r) == TryAgain(r) /\ cached' = NoLink

(* The client left, the CDN cannot be reached, the last try failed, or the *)
(* answer was a 2xx and its body has been copied through.                  *)
ProxyEnds(r) ==
    /\ At(r, "origin")
    /\ Return(r)
    /\ UNCHANGED linkVars

-----------------------------------------------------------------------------
(* The time of the cached link has come: whoever loads it finds that, and  *)
(* its timer deletes it. A timer compares and deletes in two operations,   *)
(* so it may also delete a link newer than its own, which looks like that  *)
(* one's time having come; no time is known here, so both are this step.   *)
Expire ==
    /\ cached # NoLink
    /\ cached' = NoLink
    /\ UNCHANGED <<request, gone, semVars, flight, issued>>

-----------------------------------------------------------------------------
(* The program is stopped and started: nothing of this is kept.            *)
Restart ==
    /\ request' = [r \in Request |-> Idle]
    /\ gone' = {}
    /\ held' = 0
    /\ queue' = << >>
    /\ cached' = NoLink
    /\ flight' = NoFlight
    /\ issued' = 0

(* What a request does once it has arrived.                                *)
Proceed(r) ==
    \/ LeaveQueue(r)
    \/ Granted(r)
    \/ LoadCached(r)
    \/ Join(r)
    \/ TakeResult(r)
    \/ StopWaiting(r)
    \/ Retry(r)
    \/ ProxyEnds(r)

Call == FetchLink \/ FetchFails \/ Deliver

Next ==
    \/ \E r \in Request : Arrive(r) \/ ClientLeaves(r) \/ Proceed(r)
    \/ Call
    \/ Expire
    \/ Restart

(* Goroutines go on; a call to the API ends (it is retried and times out), *)
(* so do the headers of the CDN (30 seconds), and a client reads what it   *)
(* is sent or leaves.                                                      *)
Fairness ==
    /\ \A r \in Request : WF_vars(Proceed(r))
    /\ WF_vars(Call)

Spec == Init /\ [][Next]_vars /\ Fairness

-----------------------------------------------------------------------------
Holding == {"granted", "load", "join", "wait", "ok", "error", "origin"}

TypeOK ==
    /\ request \in [Request -> [pc : Holding \union {"idle", "queued"},
                                proxied : BOOLEAN, attempt : 0 .. MaxRetries,
                                link : Link \union {NoLink}, tried : SUBSET Link]]
    /\ gone \subseteq Request
    /\ held \in 0 .. Permits
    /\ queue \in Seq(Request)
    /\ issued \in 0 .. MaxLink
    /\ cached \in Link \union {NoLink}
    /\ flight \in [owner : Request \union {NoOne}, waiters : SUBSET Request,
                   result : {"none", "pending", "ok", "error"}, link : Link \union {NoLink}]

(* The semaphore: every permit given out is with a request that will       *)
(* return it, whichever way it ends; those who wait are in the queue, once *)
(* each; and none of them waits while a permit is free.                    *)
PermitsAccounted ==
    /\ held = Cardinality({r \in Request : request[r].proxied /\ request[r].pc \in Holding})
    /\ {queue[i] : i \in DOMAIN queue} = {r \in Request : At(r, "queued")}
    /\ \A i, j \in DOMAIN queue : queue[i] = queue[j] => i = j
    /\ queue # << >> => held = Permits

(* A request does not give up on a single link: by its last try it has     *)
(* used two. (Not three: a request that loads a link before its call is    *)
(* delivered, and deletes it, joins that very call and gets it again.)     *)
RetriesChangeLink ==
    \A r \in Request : At(r, "origin") /\ request[r].attempt = MaxRetries =>
        \E link \in request[r].tried : link # request[r].link

(* A request that waits for a link has a call to wait for: it is among     *)
(* those who get the result of the call under way.                         *)
WaitersHaveCall ==
    \A r \in Request : At(r, "wait") => flight.result # "none" /\ r \in flight.waiters

(* Every request ends: no permit is lost, and nobody waits for a call that *)
(* has ended.                                                              *)
RequestEnds == \A r \in Request : ~ At(r, "idle") ~> At(r, "idle")

=============================================================================
