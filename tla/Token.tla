------------------------------- MODULE Token -------------------------------
(***************************************************************************)
(* How requests to 115 keep their token (internal/drive: client.go,        *)
(* auth.go) and how it is kept in the configuration file (internal/conf).  *)
(* A request refreshes the token when its expiry is near, and once more    *)
(* when the service refuses it; every refresh runs under refreshMu and     *)
(* uses up the refresh token, for which the service issues the next one.   *)
(* The file is written in place. The program may die anywhere.             *)
(*                                                                         *)
(* A refresh token is known by the authorisation it stems from and by its  *)
(* number there. Access tokens are not shown: the service may refuse one   *)
(* at any time. The rate limiter only delays.                              *)
(***************************************************************************)
EXTENDS Naturals, FiniteSets

CONSTANTS
    Request,    \* goroutines that call request, or Verify with a new token
    Grant,      \* authorisations that the user obtains from 115
    NoToken,    \* no refresh token has been configured
    nobody,     \* the owner of a free mutex
    other,      \* whoever else writes the configuration
    maxRetries, \* as in client.go
    MaxIssued,  \* bound: refresh tokens issued for a grant
    MaxRevoked, \* bound: grants withdrawn
    BadPaste    \* may the user paste a token that the service no longer takes?

ASSUME TokenAssumption ==
    /\ maxRetries \in Nat \ {0}
    /\ MaxIssued \in Nat /\ MaxRevoked \in Nat
    /\ BadPaste \in BOOLEAN
    /\ NoToken \notin [grant : Grant, n : 0 .. MaxIssued]
    /\ nobody \notin Request /\ other \notin Request \cup {nobody}

VARIABLES
    running,      \* the program has started
    memory,       \* Config.token
    onDisk,       \* the configuration file
    configMu,     \* who writes the configuration; readers wait meanwhile
    due,          \* the access token is about to expire
    refreshMu,    \* who refreshes
    backoff,      \* nextAllowed has not come yet
    deadReported, \* the user has been told that the refresh token is dead
    request,      \* where each goroutine is, and its local variables
    current,      \* the service: the number of each grant's valid token
    revoked,      \* the service: grants it no longer honours
    chosen,       \* history: the grant of the last token the program was given
    cut,          \* history: grants whose newest token did not reach the file
    pasted,       \* history: what was found dead was a pasted token
    unsaved       \* history: the last write of the file failed

configVars == <<running, memory, onDisk, configMu, due>>
refreshVars == <<refreshMu, backoff, deadReported>>
service == <<current, revoked>>
history == <<chosen, cut, pasted, unsaved>>
vars == <<configVars, refreshVars, request, service, history>>

RefreshToken == [grant : Grant, n : 0 .. MaxIssued]
Live(t) == t # NoToken /\ t.grant \notin revoked /\ t.n = current[t.grant]

Lost == "lost"
Idle == [at |-> "idle", why |-> "keepalive", attempt |-> 0, refreshed |-> FALSE,
         own |-> NoToken, answer |-> "none"]
(* An attempt of request begins with a refresh that is not forced.         *)
Attempt(i, refreshed) == [Idle EXCEPT !.at = "lock", !.attempt = i, !.refreshed = refreshed]

Init ==
    /\ running = TRUE
    /\ memory \in [grant : Grant, n : {0}] \cup {NoToken}
    /\ onDisk = [whole |-> TRUE, token |-> memory]
    /\ configMu = nobody
    /\ due \in BOOLEAN
    /\ refreshMu = nobody /\ backoff = FALSE /\ deadReported = FALSE
    /\ request = [r \in Request |-> Idle]
    /\ current = [g \in Grant |-> 0] /\ revoked = {}
    /\ chosen \in {g \in Grant : memory # NoToken => g = memory.grant}
    /\ cut = {} /\ pasted = FALSE /\ unsaved = FALSE

At(r, places) == request[r].at \in places
Become(r, new) == request' = [request EXCEPT ![r] = new]
Go(r, place) == Become(r, [request[r] EXCEPT !.at = place])

-----------------------------------------------------------------------------
Begin(r) ==
    /\ running /\ At(r, {"idle"})
    /\ Become(r, Attempt(0, FALSE))
    /\ UNCHANGED <<configVars, refreshVars, service, history>>

(* handleSaveSettings: Verify refreshes with the token the user pasted,    *)
(* and then asks for the account. (Update, after that, is OtherWrites.)    *)
Paste(r, t) ==
    /\ running /\ At(r, {"idle"})
    /\ t.n <= current[t.grant] /\ (BadPaste \/ Live(t))
    /\ Become(r, [Idle EXCEPT !.at = "lock", !.why = "paste", !.own = t])
    /\ UNCHANGED <<configVars, refreshVars, service, history>>

(* The caller is gone before the refresh has begun.                        *)
Leave(r) ==
    /\ At(r, {"lock"})
    /\ Become(r, Idle)
    /\ UNCHANGED <<configVars, refreshVars, service, history>>

(* Where a goroutine goes on after refreshToken has returned nil.          *)
AfterRefresh(r) ==
    CASE request[r].why = "keepalive" -> [request[r] EXCEPT !.at = "sent", !.own = NoToken,
                                                            !.answer = "none"]
      [] request[r].why = "refused"   -> Attempt(request[r].attempt + 1, TRUE)
      [] request[r].why = "paste"     -> Attempt(0, FALSE)

(* refreshToken, once it has the mutex: which token, and is it needed?     *)
TokenOf(r) == IF request[r].why = "paste" THEN request[r].own ELSE memory
Needless(r) ==
    \/ TokenOf(r) = NoToken
    \/ request[r].why = "keepalive" /\ (~due \/ backoff)

SkipRefresh(r) ==
    /\ At(r, {"lock"}) /\ refreshMu = nobody /\ configMu = nobody
    /\ Needless(r)
    /\ Become(r, AfterRefresh(r))
    /\ UNCHANGED <<configVars, refreshVars, service, history>>

\* Faulty variant: no mutex.
BeginRefreshUnlocked(r) ==
    /\ At(r, {"lock"}) /\ configMu = nobody
    /\ ~Needless(r)
    /\ refreshMu' = r
    /\ Become(r, [request[r] EXCEPT !.at = "ask", !.own = TokenOf(r)])
    /\ UNCHANGED <<configVars, backoff, deadReported, service, history>>

BeginRefresh(r) ==
    /\ At(r, {"lock"}) /\ refreshMu = nobody /\ configMu = nobody
    /\ ~Needless(r)
    /\ refreshMu' = r
    /\ Become(r, [request[r] EXCEPT !.at = "ask", !.own = TokenOf(r)])
    /\ UNCHANGED <<configVars, backoff, deadReported, service, history>>

(* The service takes a valid token and issues the next one, or now and     *)
(* then none; it may refuse for other reasons, and what it answers may get *)
(* lost, or come after the time limit.                                     *)
Exchange(r) ==
    LET t == request[r].own IN
    /\ At(r, {"ask"})
    /\ \/ /\ Live(t) /\ t.n < MaxIssued
          /\ current' = [current EXCEPT ![t.grant] = t.n + 1]
          /\ \/ Become(r, [request[r] EXCEPT !.at = "answered", !.answer = "next"]) /\ UNCHANGED cut
             \/ Become(r, [request[r] EXCEPT !.at = "answered", !.answer = Lost])
                /\ cut' = cut \cup {t.grant}
       \/ /\ \/ Live(t) /\ Become(r, [request[r] EXCEPT !.at = "answered", !.answer = "same"])
             \/ ~Live(t) /\ Become(r, [request[r] EXCEPT !.at = "answered", !.answer = "dead"])
             \/ Become(r, [request[r] EXCEPT !.at = "answered", !.answer = Lost])
          /\ UNCHANGED <<current, cut>>
    /\ UNCHANGED <<configVars, refreshVars, revoked, chosen, pasted, unsaved>>

Granted(r) == At(r, {"answered"}) /\ request[r].answer \in {"next", "same"}

\* Faulty variant: the mutex is not released.
RefreshFailsLocked(r) ==
    /\ At(r, {"answered"}) /\ ~Granted(r)
    /\ backoff' = TRUE
    /\ deadReported' = (deadReported \/ request[r].answer = "dead")
    /\ pasted' = IF request[r].answer = "dead" THEN request[r].why = "paste" ELSE pasted
    /\ Become(r, Idle)
    /\ UNCHANGED <<configVars, refreshMu, service, chosen, cut, unsaved>>

(* A refresh that fails ends the request, too.                             *)
RefreshFails(r) ==
    /\ At(r, {"answered"}) /\ ~Granted(r)
    /\ backoff' = TRUE
    /\ deadReported' = (deadReported \/ request[r].answer = "dead")
    /\ pasted' = IF request[r].answer = "dead" THEN request[r].why = "paste" ELSE pasted
    /\ refreshMu' = nobody
    /\ Become(r, Idle)
    /\ UNCHANGED <<configVars, service, chosen, cut, unsaved>>

(* Faulty variant: when none is issued, the stored token is kept.          *)
TokenToSaveOrStored(r) ==
    IF request[r].answer = "next" THEN [request[r].own EXCEPT !.n = @ + 1] ELSE memory

(* When none is issued, the token that was used is kept.                   *)
TokenToSave(r) ==
    IF request[r].answer = "next" THEN [request[r].own EXCEPT !.n = @ + 1] ELSE request[r].own

(* Success, up to the point where SaveToken's os.WriteFile has truncated   *)
(* the file. What SaveToken has changed in memory is seen only when it     *)
(* gives configMu back.                                                    *)
Accept(r) ==
    /\ Granted(r) /\ configMu = nobody
    /\ backoff' = FALSE
    /\ deadReported' = FALSE
    /\ configMu' = r
    /\ onDisk' = [onDisk EXCEPT !.whole = FALSE]
    /\ Go(r, "save")
    /\ UNCHANGED <<running, memory, due, refreshMu, service, history>>

\* Faulty variant: the file is written before the memory is changed.
SaveOld(r) ==
    /\ At(r, {"save"})
    /\ memory' = TokenToSave(r)
    /\ due' = FALSE
    /\ chosen' = request[r].own.grant
    /\ configMu' = nobody /\ refreshMu' = nobody
    /\ \/ /\ onDisk' = [whole |-> TRUE, token |-> memory]
          /\ unsaved' = FALSE
          /\ cut' = cut \ {chosen'}
          /\ Become(r, AfterRefresh(r))
       \/ /\ unsaved' = TRUE
          /\ cut' = cut \cup {chosen'}
          /\ Become(r, Idle)
          /\ UNCHANGED onDisk
    /\ UNCHANGED <<running, backoff, deadReported, service, pasted>>

(* The rest of SaveToken: the file is written, or that fails half-way and  *)
(* with it the request; the memory keeps the new token.                    *)
Save(r) ==
    /\ At(r, {"save"})
    /\ memory' = TokenToSave(r)
    /\ due' = FALSE
    /\ chosen' = request[r].own.grant
    /\ configMu' = nobody /\ refreshMu' = nobody
    /\ \/ /\ onDisk' = [whole |-> TRUE, token |-> memory']
          /\ unsaved' = FALSE
          /\ cut' = cut \ {chosen'}
          /\ Become(r, AfterRefresh(r))
       \/ /\ unsaved' = TRUE
          /\ cut' = cut \cup {chosen'}
          /\ Become(r, Idle)
          /\ UNCHANGED onDisk
    /\ UNCHANGED <<running, backoff, deadReported, service, pasted>>

-----------------------------------------------------------------------------
(* do has read the access token and sent the request; what the answer is   *)
(* does not depend on either.                                              *)
Answer(r) == At(r, {"sent"}) /\ configMu = nobody

\* Faulty variant: one attempt too many.
LimitedOnceMore(r) ==
    /\ Answer(r)
    /\ request[r].attempt <= maxRetries
    /\ Become(r, Attempt(request[r].attempt + 1, request[r].refreshed))
    /\ UNCHANGED <<configVars, refreshVars, service, history>>

(* "Try again later": another attempt, after a wait.                       *)
Limited(r) ==
    /\ Answer(r)
    /\ request[r].attempt < maxRetries
    /\ Become(r, Attempt(request[r].attempt + 1, request[r].refreshed))
    /\ UNCHANGED <<configVars, refreshVars, service, history>>

(* The access token is refused, for the first time.                        *)
Refused(r) ==
    /\ Answer(r)
    /\ ~request[r].refreshed /\ request[r].attempt < maxRetries
    /\ Go(r, "refused")
    /\ UNCHANGED <<configVars, refreshVars, service, history>>

(* Any other answer is final: data, an error, the last refusal.            *)
Answered(r) ==
    /\ Answer(r)
    /\ Become(r, Idle)
    /\ UNCHANGED <<configVars, refreshVars, service, history>>

(* When the refresh token is known to be dead the request is given up,     *)
(* otherwise a refresh is forced.                                          *)
GiveUp(r) ==
    /\ At(r, {"refused"})
    /\ deadReported
    /\ Become(r, Idle)
    /\ UNCHANGED <<configVars, refreshVars, service, history>>

ForceRefresh(r) ==
    /\ At(r, {"refused"})
    /\ ~deadReported
    /\ Become(r, [request[r] EXCEPT !.at = "lock", !.why = "refused"])
    /\ UNCHANGED <<configVars, refreshVars, service, history>>

-----------------------------------------------------------------------------
(* Tasks or settings are saved: persistLocked writes the token as well.    *)
OtherWrites ==
    /\ running /\ configMu = nobody
    /\ configMu' = other
    /\ onDisk' = [onDisk EXCEPT !.whole = FALSE]
    /\ UNCHANGED <<running, memory, due, refreshVars, request, service, history>>

OtherWritten ==
    /\ configMu = other
    /\ configMu' = nobody
    /\ \/ /\ onDisk' = [whole |-> TRUE, token |-> memory]
          /\ unsaved' = FALSE
          /\ cut' = IF Live(memory) THEN cut \ {memory.grant} ELSE cut
       \/ unsaved' = TRUE /\ UNCHANGED <<onDisk, cut>>
    /\ UNCHANGED <<running, memory, due, refreshVars, request, service, chosen, pasted>>

(* Time passes; the service withdraws an authorisation.                    *)
Expire == running /\ ~due /\ due' = TRUE
          /\ UNCHANGED <<running, memory, onDisk, configMu, refreshVars, request, service, history>>

BackoffEnds == backoff /\ backoff' = FALSE
               /\ UNCHANGED <<configVars, refreshMu, deadReported, request, service, history>>

Revoke(g) ==
    /\ Cardinality(revoked) < MaxRevoked /\ g \notin revoked
    /\ revoked' = revoked \cup {g}
    /\ UNCHANGED <<configVars, refreshVars, request, current, history>>

(* The program dies: the memory is gone, the file stays as it is.          *)
Crash ==
    /\ running
    /\ running' = FALSE
    /\ cut' = cut \cup {request[r].own.grant :
                           r \in {q \in Request : Granted(q) \/ At(q, {"save"})}}
    /\ request' = [r \in Request |-> Idle]
    /\ configMu' = nobody
    /\ refreshMu' = nobody /\ backoff' = FALSE /\ deadReported' = FALSE
    /\ pasted' = FALSE /\ unsaved' = FALSE
    /\ memory' = NoToken /\ due' = FALSE
    /\ UNCHANGED <<onDisk, service, chosen>>

(* conf.New reads the file; it starts with none when the user has removed  *)
(* one that cannot be read.                                                *)
Restart ==
    /\ ~running
    /\ running' = TRUE
    /\ \/ onDisk.whole /\ UNCHANGED onDisk
       \/ ~onDisk.whole /\ onDisk' = [whole |-> TRUE, token |-> NoToken]
    /\ memory' = onDisk'.token
    /\ chosen' = IF memory' = NoToken THEN chosen ELSE memory'.grant
    /\ due' \in BOOLEAN
    /\ UNCHANGED <<configMu, refreshVars, request, service, cut, pasted, unsaved>>

(* What a goroutine does once it has begun.                                *)
Step(r) ==
    \/ SkipRefresh(r) \/ BeginRefresh(r) \/ Exchange(r) \/ RefreshFails(r) \/ Accept(r) \/ Save(r)
    \/ Limited(r) \/ Refused(r) \/ Answered(r) \/ GiveUp(r) \/ ForceRefresh(r)

Next ==
    \/ \E r \in Request :
        \/ Begin(r) \/ Leave(r) \/ Step(r)
        \/ \E t \in RefreshToken : Paste(r, t)
    \/ OtherWrites \/ OtherWritten
    \/ Expire \/ BackoffEnds
    \/ \E g \in Grant : Revoke(g)
    \/ Crash \/ Restart

Spec == Init /\ [][Next]_vars

-----------------------------------------------------------------------------
(* What request says of a goroutine.                                       *)
Goroutine ==
    [at : {"idle", "lock", "ask", "answered", "save", "sent", "refused"},
     why : {"keepalive", "refused", "paste"}, attempt : 0 .. maxRetries, refreshed : BOOLEAN,
     own : RefreshToken \cup {NoToken}, answer : {"none", "next", "same", "dead", Lost}]

(* Types of the variables.                                                 *)
TypeOK ==
    /\ running \in BOOLEAN /\ due \in BOOLEAN
    /\ memory \in RefreshToken \cup {NoToken}
    /\ onDisk \in [whole : BOOLEAN, token : RefreshToken \cup {NoToken}]
    /\ configMu \in Request \cup {nobody, other}
    /\ refreshMu \in Request \cup {nobody}
    /\ backoff \in BOOLEAN /\ deadReported \in BOOLEAN
    /\ request \in [Request -> Goroutine]
    /\ current \in [Grant -> 0 .. MaxIssued] /\ revoked \subseteq Grant
    /\ chosen \in Grant /\ cut \subseteq Grant
    /\ pasted \in BOOLEAN /\ unsaved \in BOOLEAN

(* The program keeps the one token it can refresh with: that of the grant  *)
(* the user chose last (auth.go: a pasted token must not be undone by a    *)
(* fallback to the stored one), in its newest form, unless the service has *)
(* withdrawn it, it is just being exchanged, or it was cut off on its way  *)
(* into the file.                                                          *)
StoredTokenIsLive ==
    running /\ memory # NoToken =>
        /\ memory.grant = chosen
        /\ \/ Live(memory)
           \/ chosen \in revoked \cup cut
           \/ \E r \in Request : (Granted(r) \/ At(r, {"save"})) /\ request[r].own = memory

(* What is reported dead (deadReported) is dead: concurrent refreshes do   *)
(* not burn the token. (But a dead token that the user pastes is reported  *)
(* like the stored one, which may be alive; hence pasted.)                 *)
ReportedIsDead == deadReported /\ ~pasted => ~Live(memory)

(* The file has what the memory has, once a write is over and did not fail *)
(* (SaveToken and the other writers of one file).                          *)
FileIsCurrent ==
    running /\ configMu = nobody /\ ~unsaved => onDisk = [whole |-> TRUE, token |-> memory]

(* A mutex is held by a goroutine on its way to give it back, so that those*)
(* who wait for it are not stuck: every way out of refreshToken and of the *)
(* writers does so (defer), and refreshMu is taken before configMu.        *)
MutexesAreGivenBack ==
    /\ refreshMu # nobody => At(refreshMu, {"ask", "answered", "save"})
    /\ configMu \in Request => configMu = refreshMu /\ At(configMu, {"save"})

=============================================================================
