---------------------------- MODULE ClientProofs ----------------------------
(***************************************************************************)
(* The 115 client. First Token, for any number of goroutines,              *)
(* authorisations, retries and issued tokens. Then Upload: what an upload  *)
(* stores is what it declared, and it keeps the promise of Transfer, for   *)
(* files and edits of any number and any sizes of parts. The last section  *)
(* is about the sizes that the code uses.                                  *)
(***************************************************************************)
EXTENDS Token, Upload, SequenceTheorems, TLAPS

(* A goroutine that refreshes, and one that has been granted a token which *)
(* is not in memory yet.                                                   *)
AtWork(r) == At(r, {"ask", "answered", "save"})
Exchanging(r) == Granted(r) \/ At(r, {"save"})

(* The mutexes are with those who are at work under them.                  *)
Holds(r) ==
    /\ AtWork(r) <=> refreshMu = r
    /\ At(r, {"save"}) <=> configMu = r
    /\ ~running => At(r, {"idle"})

(* A forced refresh can be followed by one more attempt.                   *)
Counts(r) ==
    At(r, {"refused"}) \/ request[r].why = "refused" => request[r].attempt < maxRetries

(* The token a goroutine works with is the stored one, unless it is the    *)
(* pasted one, and what the service has answered is still so.              *)
Works(r) ==
    LET q == request[r] IN
    /\ AtWork(r) \/ q.why = "paste" => q.own \in RefreshToken /\ q.own.n <= current[q.own.grant]
    /\ AtWork(r) /\ q.why # "paste" => q.own = memory
    /\ At(r, {"answered", "save"}) =>
        /\ q.answer = "next" => q.own.n < MaxIssued /\ current[q.own.grant] = q.own.n + 1
        /\ q.answer = "same" => current[q.own.grant] = q.own.n
        /\ q.answer = "dead" => ~Live(q.own)
    /\ At(r, {"save"}) => q.answer \in {"next", "same"} /\ ~deadReported

(* No token is ahead of the service, and one that it does not take has an  *)
(* excuse.                                                                 *)
Excused(t) ==
    \/ Live(t)
    \/ t.grant \in revoked \cup cut
    \/ \E r \in Request : Exchanging(r) /\ request[r].own = t
Accounted(t) == t # NoToken => t.n <= current[t.grant] /\ Excused(t)

Tokens ==
    /\ Accounted(memory) /\ Accounted(onDisk.token)
    /\ memory # NoToken => memory.grant = chosen
    /\ ~running => memory = NoToken /\ configMu = nobody /\ refreshMu = nobody /\ ~deadReported

IInv ==
    /\ TypeOK
    /\ \A r \in Request : Holds(r) /\ Counts(r) /\ Works(r)
    /\ Tokens
    /\ FileIsCurrent
    /\ ReportedIsDead

-----------------------------------------------------------------------------
(* What a goroutine's step does to request.                                *)
LEMMA Becomes ==
    ASSUME request \in [Request -> Goroutine], NEW r \in Request, NEW new \in Goroutine, Become(r, new)
    PROVE  /\ request' \in [Request -> Goroutine]
           /\ request'[r] = new
           /\ \A q \in Request \ {r} : request'[q] = request[q]
BY DEF Become

(* The places a goroutine can be put in are well-typed.                    *)
LEMMA NewLocals ==
    ASSUME TypeOK, NEW r \in Request
    PROVE  /\ Idle \in Goroutine
           /\ \A i \in 0 .. maxRetries, b \in BOOLEAN : Attempt(i, b) \in Goroutine
           /\ \A at \in {"idle", "lock", "ask", "answered", "save", "sent", "refused"} :
                  [request[r] EXCEPT !.at = at] \in Goroutine
           /\ \A a \in {"next", "same", "dead", Lost} :
                  [request[r] EXCEPT !.at = "answered", !.answer = a] \in Goroutine
<1>0. request[r] \in Goroutine
  BY DEF TypeOK
<1>1. Idle \in Goroutine
  BY TokenAssumption DEF Idle, Goroutine
<1>2. ASSUME NEW i \in 0 .. maxRetries, NEW b \in BOOLEAN PROVE Attempt(i, b) \in Goroutine
  BY DEF Attempt, Idle, Goroutine
<1>3. ASSUME NEW at \in {"idle", "lock", "ask", "answered", "save", "sent", "refused"}
      PROVE  [request[r] EXCEPT !.at = at] \in Goroutine
  BY <1>0 DEF Goroutine
<1>4. ASSUME NEW a \in {"next", "same", "dead", Lost}
      PROVE  [request[r] EXCEPT !.at = "answered", !.answer = a] \in Goroutine
  BY <1>0 DEF Goroutine
<1> QED
  BY <1>1, <1>2, <1>3, <1>4

LEMMA AfterRefreshLocal ==
    ASSUME TypeOK, NEW r \in Request, Counts(r)
    PROVE  AfterRefresh(r) \in Goroutine
<1>0. request[r] \in Goroutine
  BY DEF TypeOK
<1>1. CASE request[r].why = "keepalive"
  <2>1. [request[r] EXCEPT !.at = "sent", !.own = NoToken, !.answer = "none"] \in Goroutine
    BY <1>0 DEF Goroutine
  <2> QED
    BY <1>1, <2>1 DEF AfterRefresh
<1>2. CASE request[r].why = "refused"
  <2>1. request[r].attempt + 1 \in 0 .. maxRetries
    BY <1>0, <1>2, TokenAssumption DEF Counts, Goroutine
  <2> QED
    BY <1>2, <2>1, NewLocals DEF AfterRefresh
<1>3. CASE request[r].why = "paste"
  <2>1. 0 \in 0 .. maxRetries
    BY TokenAssumption
  <2> QED
    BY <1>3, <2>1, NewLocals DEF AfterRefresh
<1> QED
  BY <1>0, <1>1, <1>2, <1>3 DEF Goroutine

(* The token that is saved exists.                                         *)
LEMMA SavedToken ==
    ASSUME TypeOK, NEW r \in Request, Works(r), At(r, {"save"})
    PROVE  /\ TokenToSave(r) \in RefreshToken
           /\ request[r].own \in RefreshToken
           /\ TokenToSave(r).grant = request[r].own.grant
           /\ TokenToSave(r).n = current[request[r].own.grant]
<1>1. request[r].own \in RefreshToken
  BY DEF Works, AtWork, At
<1>2. CASE request[r].answer = "next"
  <2>1. /\ request[r].own.n < MaxIssued
        /\ current[request[r].own.grant] = request[r].own.n + 1
    BY <1>2 DEF Works, At
  <2>2. request[r].own.n + 1 \in 0 .. MaxIssued
    BY <1>1, <2>1, TokenAssumption DEF RefreshToken
  <2> QED
    BY <1>1, <1>2, <2>1, <2>2 DEF TokenToSave, RefreshToken
<1>3. CASE request[r].answer = "same"
  BY <1>1, <1>3 DEF TokenToSave, Works, At
<1> QED
  BY <1>2, <1>3 DEF Works

-----------------------------------------------------------------------------
(* Steps that only move a goroutine between places outside the mutex.      *)
LEMMA LocalStep ==
    ASSUME IInv, running, NEW r \in Request, ~AtWork(r), NEW new \in Goroutine,
           new.at \notin {"ask", "answered", "save"},
           new.at = "refused" \/ new.why = "refused" => new.attempt < maxRetries,
           new.why = "paste" => new.own \in RefreshToken /\ new.own.n <= current[new.own.grant],
           Become(r, new), UNCHANGED <<configVars, refreshVars, service, history>>
    PROVE  IInv'
<1> USE DEF configVars, refreshVars, service, history
<1>0. /\ request' \in [Request -> Goroutine]
      /\ request'[r] = new
      /\ \A q \in Request \ {r} : request'[q] = request[q]
  BY Becomes DEF IInv, TypeOK
<1>1. TypeOK'
  BY <1>0 DEF IInv, TypeOK
<1>2. ASSUME NEW q \in Request PROVE (Holds(q) /\ Counts(q) /\ Works(q))'
  <2>1. CASE q = r
    BY <2>1, <1>0 DEF IInv, Holds, Counts, Works, AtWork, At
  <2>2. CASE q # r
    BY <2>2, <1>0 DEF IInv, Holds, Counts, Works, AtWork, At, Live
  <2> QED
    BY <2>1, <2>2
<1>3. \A q \in Request : Exchanging(q)' <=> Exchanging(q)
  BY <1>0 DEF Exchanging, Granted, AtWork, At
<1>4. \A q \in Request : Exchanging(q) => request'[q] = request[q]
  BY <1>0 DEF Exchanging, Granted, AtWork, At
<1>5. \A t : Excused(t) => Excused(t)'
  BY <1>3, <1>4 DEF Excused, Live
<1>6. Tokens'
  BY <1>5 DEF IInv, Tokens, Accounted
<1>7. FileIsCurrent' /\ ReportedIsDead'
  BY DEF IInv, FileIsCurrent, ReportedIsDead, Live
<1> QED
  BY <1>1, <1>2, <1>6, <1>7 DEF IInv

LEMMA LocalSteps ==
    ASSUME IInv, NEW r \in Request,
           \/ Begin(r) \/ (\E t \in RefreshToken : Paste(r, t)) \/ Leave(r) \/ SkipRefresh(r)
           \/ Limited(r) \/ Refused(r) \/ Answered(r) \/ GiveUp(r) \/ ForceRefresh(r)
    PROVE  IInv'
<1>0. /\ TypeOK /\ Holds(r) /\ Counts(r) /\ Works(r)
      /\ request[r] \in Goroutine
  BY DEF IInv, TypeOK
<1>1. Idle \in Goroutine /\ Idle.at = "idle" /\ Idle.why = "keepalive"
  BY <1>0, NewLocals DEF Idle
<1>2. ASSUME NEW i \in 0 .. maxRetries, NEW b \in BOOLEAN
      PROVE  /\ Attempt(i, b) \in Goroutine
             /\ Attempt(i, b).at = "lock" /\ Attempt(i, b).why = "keepalive"
  BY <1>0, NewLocals DEF Attempt, Idle
<1>3. 0 \in 0 .. maxRetries
  BY TokenAssumption
<1>4. CASE Begin(r)
  BY <1>4, <1>2, <1>3, LocalStep DEF Begin, AtWork, At
<1>5. ASSUME NEW t \in RefreshToken, Paste(r, t) PROVE IInv'
  <2> DEFINE new == [Idle EXCEPT !.at = "lock", !.why = "paste", !.own = t]
  <2>1. new \in Goroutine /\ new.at = "lock" /\ new.why = "paste" /\ new.own = t
    BY <1>1, TokenAssumption DEF Goroutine, Idle
  <2>2. t.n <= current[t.grant] /\ running /\ Become(r, new) /\ ~AtWork(r)
    BY <1>5 DEF Paste, AtWork, At
  <2>3. UNCHANGED <<configVars, refreshVars, service, history>>
    BY <1>5 DEF Paste
  <2> HIDE DEF new
  <2> QED
    BY <2>1, <2>2, <2>3, LocalStep
<1>6. ASSUME Leave(r) \/ Answered(r) \/ GiveUp(r) PROVE IInv'
  BY <1>6, <1>0, <1>1, LocalStep DEF Leave, Answered, GiveUp, Answer, AtWork, At, Holds
<1>7. CASE SkipRefresh(r)
  <2>1. AfterRefresh(r) \in Goroutine
    BY <1>0, AfterRefreshLocal
  <2>2. AfterRefresh(r).at \in {"lock", "sent"} /\ AfterRefresh(r).why = "keepalive"
    BY <1>0 DEF AfterRefresh, Attempt, Idle, Goroutine
  <2>3. running /\ ~AtWork(r) /\ Become(r, AfterRefresh(r))
    BY <1>7, <1>0 DEF SkipRefresh, AtWork, At, Holds
  <2> QED
    BY <1>7, <2>1, <2>2, <2>3, LocalStep DEF SkipRefresh
<1>8. CASE Limited(r)
  <2>1. request[r].attempt + 1 \in 0 .. maxRetries /\ request[r].refreshed \in BOOLEAN
    BY <1>8, <1>0, TokenAssumption DEF Limited, Goroutine
  <2>2. running /\ ~AtWork(r)
    BY <1>8, <1>0 DEF Limited, Answer, AtWork, At, Holds
  <2> QED
    BY <1>8, <1>2, <2>1, <2>2, LocalStep DEF Limited
<1>9. CASE Refused(r)
  <2> DEFINE new == [request[r] EXCEPT !.at = "refused"]
  <2>1. new \in Goroutine
    BY <1>0, NewLocals
  <2>2. /\ new.at = "refused" /\ new.attempt = request[r].attempt
        /\ new.why = request[r].why /\ new.own = request[r].own
    BY <1>0 DEF Goroutine
  <2>3. running /\ ~AtWork(r) /\ Become(r, new) /\ request[r].attempt < maxRetries
    BY <1>9, <1>0 DEF Refused, Answer, Go, AtWork, At, Holds
  <2>4. new.why = "paste" => new.own \in RefreshToken /\ new.own.n <= current[new.own.grant]
    BY <1>0, <2>2 DEF Works
  <2>5. UNCHANGED <<configVars, refreshVars, service, history>>
    BY <1>9 DEF Refused
  <2> HIDE DEF new
  <2> QED
    BY <2>1, <2>2, <2>3, <2>4, <2>5, LocalStep
<1>10. CASE ForceRefresh(r)
  <2> DEFINE new == [request[r] EXCEPT !.at = "lock", !.why = "refused"]
  <2>1. new \in Goroutine /\ new.at = "lock" /\ new.why = "refused" /\ new.attempt = request[r].attempt
    BY <1>0 DEF Goroutine
  <2>2. running /\ ~AtWork(r) /\ Become(r, new) /\ request[r].attempt < maxRetries
    BY <1>10, <1>0 DEF ForceRefresh, AtWork, At, Holds, Counts
  <2>3. UNCHANGED <<configVars, refreshVars, service, history>>
    BY <1>10 DEF ForceRefresh
  <2> HIDE DEF new
  <2> QED
    BY <2>1, <2>2, <2>3, LocalStep
<1> QED
  BY <1>4, <1>5, <1>6, <1>7, <1>8, <1>9, <1>10

-----------------------------------------------------------------------------
(* Steps under refreshMu.                                                  *)
LEMMA BeginRefreshStep ==
    ASSUME IInv, NEW r \in Request, BeginRefresh(r)
    PROVE  IInv'
<1> DEFINE new == [request[r] EXCEPT !.at = "ask", !.own = TokenOf(r)]
<1> USE DEF configVars, refreshVars, service, history
<1>0. /\ TypeOK /\ Holds(r) /\ Counts(r) /\ Works(r) /\ Tokens
      /\ request[r] \in Goroutine
      /\ At(r, {"lock"}) /\ running /\ refreshMu = nobody /\ configMu = nobody
  BY DEF IInv, TypeOK, BeginRefresh, Holds, At
<1>1. TokenOf(r) \in RefreshToken /\ TokenOf(r).n <= current[TokenOf(r).grant]
  BY <1>0 DEF BeginRefresh, Needless, TokenOf, Works, Tokens, Accounted, TypeOK
<1>2. /\ new \in Goroutine
      /\ new.at = "ask" /\ new.own = TokenOf(r) /\ new.why = request[r].why
      /\ new.attempt = request[r].attempt
  BY <1>0, <1>1 DEF Goroutine
<1>3. Become(r, new) /\ refreshMu' = r
  BY DEF BeginRefresh
<1> HIDE DEF new
<1>4. /\ request' \in [Request -> Goroutine]
      /\ request'[r] = new
      /\ \A q \in Request \ {r} : request'[q] = request[q]
  BY <1>0, <1>2, <1>3, Becomes DEF TypeOK
<1>5. TypeOK'
  BY <1>0, <1>3, <1>4 DEF TypeOK, BeginRefresh
<1>6. ASSUME NEW q \in Request PROVE (Holds(q) /\ Counts(q) /\ Works(q))'
  <2>1. CASE q = r
    BY <2>1, <1>0, <1>1, <1>2, <1>3, <1>4, TokenAssumption
    DEF BeginRefresh, Holds, Counts, Works, AtWork, At, TokenOf
  <2>2. CASE q # r
    BY <2>2, <1>0, <1>3, <1>4, TokenAssumption
    DEF BeginRefresh, IInv, Holds, Counts, Works, AtWork, At, Live
  <2> QED
    BY <2>1, <2>2
<1>7. \A q \in Request : Exchanging(q) => Exchanging(q)' /\ request'[q] = request[q]
  BY <1>0, <1>4 DEF Exchanging, Granted, At
<1>8. Tokens'
  BY <1>0, <1>7 DEF BeginRefresh, Tokens, Accounted, Excused, Live
<1>9. FileIsCurrent' /\ ReportedIsDead'
  BY DEF BeginRefresh, IInv, FileIsCurrent, ReportedIsDead, Live
<1> QED
  BY <1>5, <1>6, <1>8, <1>9 DEF IInv

LEMMA ExchangeStep ==
    ASSUME IInv, NEW r \in Request, Exchange(r)
    PROVE  IInv'
<1> DEFINE new(a) == [request[r] EXCEPT !.at = "answered", !.answer = a]
<1> USE DEF configVars, refreshVars, service, history
<1>0. /\ TypeOK /\ Holds(r) /\ Counts(r) /\ Works(r) /\ Tokens
      /\ request[r] \in Goroutine
      /\ At(r, {"ask"}) /\ AtWork(r) /\ running /\ refreshMu = r /\ configMu # r
  BY DEF IInv, TypeOK, Exchange, Holds, AtWork, At
<1>t. PICK t \in RefreshToken : t = request[r].own /\ t.n <= current[t.grant] /\ t # NoToken
  BY <1>0, TokenAssumption DEF Works, RefreshToken
<1>1. PICK a \in {"next", "same", "dead", Lost} :
        /\ Become(r, new(a))
        /\ \/ /\ Live(t) /\ t.n < MaxIssued /\ a \in {"next", Lost}
              /\ current' = [current EXCEPT ![t.grant] = t.n + 1]
              /\ cut' = IF a = Lost THEN cut \cup {t.grant} ELSE cut
           \/ /\ UNCHANGED <<current, cut>>
              /\ a = "same" => Live(t)
              /\ a = "dead" => ~Live(t)
              /\ a # "next"
  BY <1>t DEF Exchange, Lost
<1>2. /\ new(a) \in Goroutine
      /\ new(a).at = "answered" /\ new(a).answer = a /\ new(a).own = t
      /\ new(a).why = request[r].why /\ new(a).attempt = request[r].attempt
  BY <1>0, <1>t DEF Goroutine
<1>3. Become(r, new(a))
  BY <1>1
<1> HIDE DEF new
<1>4. /\ request' \in [Request -> Goroutine]
      /\ request'[r] = new(a)
      /\ \A q \in Request \ {r} : request'[q] = request[q]
  BY <1>0, <1>2, <1>3, Becomes DEF TypeOK
<1>5. /\ t.grant \in Grant /\ t.n \in Nat
      /\ current' \in [Grant -> 0 .. MaxIssued]
      /\ \A g \in Grant : current[g] \in Nat /\ current[g] <= current'[g]
      /\ \A g \in Grant \ {t.grant} : current'[g] = current[g]
  BY <1>0, <1>t, <1>1, TokenAssumption DEF TypeOK, RefreshToken, Live
<1>6. TypeOK'
  <2>1. cut' \subseteq Grant
    BY <1>0, <1>1, <1>5 DEF TypeOK
  <2> QED
    BY <1>0, <1>4, <1>5, <2>1 DEF TypeOK, Exchange
<1>7. ASSUME NEW q \in Request PROVE (Holds(q) /\ Counts(q) /\ Works(q))'
  <2>1. Holds(q)' /\ Counts(q)'
    <3>1. CASE q = r
      BY <3>1, <1>0, <1>2, <1>4 DEF Exchange, Holds, Counts, AtWork, At
    <3>2. CASE q # r
      BY <3>2, <1>0, <1>4 DEF Exchange, IInv, Holds, Counts, AtWork, At
    <3> QED
      BY <3>1, <3>2
  <2>2. CASE q = r
    <3>1. t.n <= current'[t.grant]
      BY <1>0, <1>t, <1>5 DEF TypeOK
    <3>2. AtWork(r) /\ (request[r].why # "paste" => t = memory)
      BY <1>0, <1>t DEF Works, AtWork, At
    <3>3. a = "next" => t.n < MaxIssued /\ current'[t.grant] = t.n + 1
      BY <1>0, <1>t, <1>1, <1>5 DEF TypeOK, Lost
    <3>4. a = "same" => current'[t.grant] = t.n
      BY <1>0, <1>1 DEF Live, Lost
    <3>5. a = "dead" => ~Live(t)'
      <4>1. revoked' = revoked
        BY DEF Exchange
      <4> QED
        BY <4>1, <1>1 DEF Live, Lost
    <3>6. /\ request'[q].at = "answered" /\ request'[q].own = t /\ request'[q].answer = a
          /\ request'[q].why # "paste" => t = memory'
      BY <2>2, <1>2, <1>4, <3>2 DEF Exchange
    <3>7. Works(q)'
      BY <3>1, <3>3, <3>4, <3>5, <3>6 DEF Works, AtWork, At, Live
    <3> QED
      BY <2>1, <3>7
  <2>3. CASE q # r
    <3>1. ~AtWork(q) /\ ~At(q, {"answered", "save"}) /\ request'[q] = request[q] /\ Works(q)
      BY <2>3, <1>0, <1>4 DEF IInv, Holds, AtWork, At
    <3>2. request[q].why = "paste" => request[q].own.n <= current'[request[q].own.grant]
      BY <3>1, <1>5 DEF Works, RefreshToken
    <3>3. Works(q)'
      BY <3>1, <3>2 DEF Works, AtWork, At, Live
    <3> QED
      BY <2>1, <3>3
  <2> QED
    BY <2>1, <2>2, <2>3
<1>8. ASSUME NEW u \in RefreshToken, u.n <= current[u.grant], Excused(u)
      PROVE  u.n <= current'[u.grant] /\ Excused(u)'
  <2>1. u.grant \in Grant /\ u.n \in Nat /\ u.n <= current'[u.grant]
    BY <1>5, <1>8 DEF RefreshToken
  <2>2. \A q \in Request : ~Exchanging(q)
    BY <1>0 DEF IInv, Holds, Exchanging, Granted, AtWork, At
  <2>3. cut \subseteq cut' /\ revoked' = revoked
    BY <1>1 DEF Exchange
  <2>4. CASE u.grant \in revoked \cup cut
    BY <2>1, <2>3, <2>4 DEF Excused
  <2>5. CASE Live(u) /\ (current'[u.grant] = current[u.grant])
    BY <2>1, <2>3, <2>5 DEF Excused, Live
  <2>6. CASE Live(u) /\ current'[u.grant] # current[u.grant]
    <3>1. u.grant = t.grant /\ a \in {"next", Lost} /\ (a = Lost => t.grant \in cut') /\ Live(t)
      BY <2>1, <2>6, <1>1, <1>5
    <3>2. u = t
      BY <3>1, <2>6, <1>0, <1>t DEF Live, RefreshToken
    <3>3. a = "next" => Exchanging(r)' /\ request'[r].own = u
      BY <3>2, <1>2, <1>4 DEF Exchanging, Granted, At
    <3> QED
      BY <2>1, <3>1, <3>3 DEF Excused
  <2> QED
    BY <1>8, <2>2, <2>4, <2>5, <2>6 DEF Excused
<1>9. Tokens'
  BY <1>0, <1>8 DEF Exchange, Tokens, Accounted, TypeOK
<1>10. FileIsCurrent'
  BY DEF Exchange, IInv, FileIsCurrent
<1>11. ReportedIsDead'
  <2>1. memory # NoToken => memory \in RefreshToken /\ memory.n <= current[memory.grant]
    BY <1>0 DEF TypeOK, Tokens, Accounted
  <2>2. Live(memory)' => Live(memory)
    BY <2>1, <1>0, <1>1, <1>5 DEF Live, Exchange, RefreshToken, TypeOK
  <2> QED
    BY <2>2 DEF Exchange, IInv, ReportedIsDead
<1> QED
  BY <1>6, <1>7, <1>9, <1>10, <1>11 DEF IInv

LEMMA RefreshFailsStep ==
    ASSUME IInv, NEW r \in Request, RefreshFails(r)
    PROVE  IInv'
<1> USE DEF configVars, refreshVars, service, history
<1>0. /\ TypeOK /\ Holds(r) /\ Works(r) /\ Tokens
      /\ request[r] \in Goroutine
      /\ At(r, {"answered"}) /\ ~Granted(r) /\ running /\ refreshMu = r /\ configMu # r
  BY DEF IInv, TypeOK, RefreshFails, Holds, AtWork, At
<1>1. Idle \in Goroutine /\ Idle.at = "idle" /\ Idle.why = "keepalive"
  BY <1>0, NewLocals DEF Idle
<1>2. Become(r, Idle)
  BY DEF RefreshFails
<1>3. /\ request' \in [Request -> Goroutine]
      /\ request'[r] = Idle
      /\ \A q \in Request \ {r} : request'[q] = request[q]
  BY <1>0, <1>1, <1>2, Becomes DEF TypeOK
<1>4. TypeOK'
  BY <1>0, <1>3 DEF RefreshFails, TypeOK
<1>5. ASSUME NEW q \in Request PROVE (Holds(q) /\ Counts(q) /\ Works(q))'
  <2>1. CASE q = r
    BY <2>1, <1>0, <1>1, <1>3, TokenAssumption DEF RefreshFails, Holds, Counts, Works, AtWork, At
  <2>2. CASE q # r
    <3>1. Holds(q) /\ Counts(q) /\ Works(q) /\ ~AtWork(q) /\ request'[q] = request[q]
      BY <2>2, <1>0, <1>3 DEF IInv, Holds
    <3> QED
      BY <2>2, <3>1, <1>0, TokenAssumption DEF RefreshFails, Holds, Counts, Works, AtWork, At
  <2> QED
    BY <2>1, <2>2
<1>6. \A q \in Request : Exchanging(q) => Exchanging(q)' /\ request'[q] = request[q]
  BY <1>0, <1>3 DEF Exchanging, Granted, At
<1>7. Tokens'
  BY <1>0, <1>6 DEF RefreshFails, Tokens, Accounted, Excused, Live
<1>8. FileIsCurrent'
  BY DEF RefreshFails, IInv, FileIsCurrent
<1>9. ReportedIsDead'
  <2>1. CASE request[r].answer = "dead" /\ request[r].why # "paste"
    BY <2>1, <1>0 DEF RefreshFails, ReportedIsDead, Works, AtWork, At, Live
  <2>2. CASE request[r].answer = "dead" /\ request[r].why = "paste"
    BY <2>2 DEF RefreshFails, ReportedIsDead
  <2>3. CASE request[r].answer # "dead"
    BY <2>3 DEF RefreshFails, IInv, ReportedIsDead, Live
  <2> QED
    BY <2>1, <2>2, <2>3
<1> QED
  BY <1>4, <1>5, <1>7, <1>8, <1>9 DEF IInv

LEMMA AcceptStep ==
    ASSUME IInv, NEW r \in Request, Accept(r)
    PROVE  IInv'
<1> DEFINE new == [request[r] EXCEPT !.at = "save"]
<1> USE DEF configVars, refreshVars, service, history
<1>0. /\ TypeOK /\ Holds(r) /\ Counts(r) /\ Works(r) /\ Tokens
      /\ request[r] \in Goroutine
      /\ Granted(r) /\ AtWork(r) /\ running /\ refreshMu = r /\ configMu = nobody
  BY DEF IInv, TypeOK, Accept, Granted, Holds, AtWork, At
<1>1. /\ new \in Goroutine
      /\ new.at = "save" /\ new.own = request[r].own /\ new.why = request[r].why
      /\ new.attempt = request[r].attempt /\ new.answer = request[r].answer
  BY <1>0 DEF Goroutine
<1>2. Become(r, new)
  BY DEF Accept, Go
<1> HIDE DEF new
<1>3. /\ request' \in [Request -> Goroutine]
      /\ request'[r] = new
      /\ \A q \in Request \ {r} : request'[q] = request[q]
  BY <1>0, <1>1, <1>2, Becomes DEF TypeOK
<1>4. TypeOK'
  BY <1>0, <1>3 DEF Accept, TypeOK
<1>5. ASSUME NEW q \in Request PROVE (Holds(q) /\ Counts(q) /\ Works(q))'
  <2>1. CASE q = r
    <3>1. Holds(r)' /\ Counts(r)'
      BY <1>0, <1>1, <1>3 DEF Accept, Holds, Counts, AtWork, At
    <3>2. Works(r)'
      BY <1>0, <1>1, <1>3 DEF Accept, Works, Granted, AtWork, At, Live
    <3> QED
      BY <2>1, <3>1, <3>2
  <2>2. CASE q # r
    <3>1. Holds(q) /\ Counts(q) /\ Works(q) /\ ~AtWork(q) /\ request'[q] = request[q]
      BY <2>2, <1>0, <1>3 DEF IInv, Holds
    <3> QED
      BY <2>2, <3>1, <1>0, TokenAssumption DEF Accept, Holds, Counts, Works, AtWork, At
  <2> QED
    BY <2>1, <2>2
<1>6. \A q \in Request : Exchanging(q) => Exchanging(q)' /\ request'[q].own = request[q].own
  BY <1>0, <1>1, <1>3 DEF Exchanging, Granted, At
<1>7. onDisk'.token = onDisk.token
  BY <1>0 DEF Accept, TypeOK
<1>8. Tokens'
  BY <1>0, <1>6, <1>7 DEF Accept, Tokens, Accounted, Excused, Live
<1>9. FileIsCurrent' /\ ReportedIsDead'
  BY <1>0, TokenAssumption DEF Accept, FileIsCurrent, ReportedIsDead
<1> QED
  BY <1>4, <1>5, <1>8, <1>9 DEF IInv

LEMMA SaveStep ==
    ASSUME IInv, NEW r \in Request, Save(r)
    PROVE  IInv'
<1> USE DEF configVars, refreshVars, service, history
<1>0. /\ TypeOK /\ Holds(r) /\ Counts(r) /\ Works(r) /\ Tokens
      /\ request[r] \in Goroutine
      /\ At(r, {"save"}) /\ AtWork(r) /\ running /\ refreshMu = r /\ configMu = r /\ ~deadReported
  BY DEF IInv, TypeOK, Save, Holds, Works, AtWork, At
<1>t. PICK t \in RefreshToken :
        /\ t = TokenToSave(r) /\ t # NoToken
        /\ t.grant \in Grant /\ t.grant = request[r].own.grant /\ t.n = current[t.grant]
        /\ t.n \in Nat
  BY <1>0, SavedToken, TokenAssumption DEF RefreshToken
<1>1. /\ memory' = t /\ chosen' = t.grant
      /\ UNCHANGED <<running, backoff, deadReported, service, pasted>>
      /\ configMu' = nobody /\ refreshMu' = nobody /\ due' = FALSE
  BY <1>t DEF Save
<1>2. PICK new \in Goroutine :
        /\ Become(r, new)
        /\ new.at \in {"idle", "lock", "sent"} /\ new.why = "keepalive"
        /\ \/ /\ onDisk' = [whole |-> TRUE, token |-> t] /\ unsaved' = FALSE
              /\ cut' = cut \ {t.grant}
           \/ unsaved' = TRUE /\ cut' = cut \cup {t.grant} /\ onDisk' = onDisk
  <2>1. Idle \in Goroutine /\ Idle.at = "idle" /\ Idle.why = "keepalive"
    BY <1>0, NewLocals DEF Idle
  <2>2. AfterRefresh(r) \in Goroutine
    BY <1>0, AfterRefreshLocal
  <2>3. AfterRefresh(r).at \in {"lock", "sent"} /\ AfterRefresh(r).why = "keepalive"
    BY <1>0 DEF AfterRefresh, Attempt, Idle, Goroutine
  <2> QED
    BY <2>1, <2>2, <2>3, <1>1 DEF Save
<1>3. /\ request' \in [Request -> Goroutine]
      /\ request'[r] = new
      /\ \A q \in Request \ {r} : request'[q] = request[q]
  BY <1>0, <1>2, Becomes DEF TypeOK
<1>4. TypeOK'
  <2>1. /\ onDisk' \in [whole : BOOLEAN, token : RefreshToken \cup {NoToken}]
        /\ cut' \subseteq Grant /\ unsaved' \in BOOLEAN
    <3>1. [whole |-> TRUE, token |-> t] \in [whole : BOOLEAN, token : RefreshToken \cup {NoToken}]
      BY <1>t
    <3>2. onDisk \in [whole : BOOLEAN, token : RefreshToken \cup {NoToken}] /\ cut \subseteq Grant
      BY <1>0 DEF TypeOK
    <3> QED
      BY <3>1, <3>2, <1>t, <1>2
  <2> QED
    BY <1>0, <1>t, <1>1, <1>3, <2>1 DEF TypeOK
<1>5. ASSUME NEW q \in Request PROVE (Holds(q) /\ Counts(q) /\ Works(q))'
  <2>1. CASE q = r
    BY <2>1, <1>0, <1>1, <1>2, <1>3, TokenAssumption DEF Holds, Counts, Works, AtWork, At
  <2>2. CASE q # r
    <3>1. Holds(q) /\ Counts(q) /\ Works(q) /\ ~AtWork(q) /\ request'[q] = request[q]
      BY <2>2, <1>0, <1>3 DEF IInv, Holds
    <3> QED
      BY <2>2, <3>1, <1>0, <1>1, TokenAssumption DEF Holds, Counts, Works, AtWork, At
  <2> QED
    BY <2>1, <2>2
<1>6. t.n <= current'[t.grant] /\ (Live(t)' \/ t.grant \in revoked')
  BY <1>t, <1>1 DEF Live
<1>7. Accounted(memory)'
  BY <1>1, <1>6 DEF Accounted, Excused
<1>8. Accounted(onDisk.token)'
  <2>1. CASE onDisk' = [whole |-> TRUE, token |-> t]
    BY <2>1, <1>6 DEF Accounted, Excused
  <2>2. CASE cut' = cut \cup {t.grant} /\ onDisk' = onDisk
    <3>1. \A q \in Request : Exchanging(q) => q = r
      BY <1>0 DEF IInv, Holds, Exchanging, Granted, AtWork, At
    <3>2. Excused(onDisk.token) => Excused(onDisk.token)'
      BY <2>2, <3>1, <1>t, <1>1 DEF Excused, Live
    <3> QED
      BY <2>2, <3>2, <1>0, <1>1 DEF Tokens, Accounted
  <2> QED
    BY <1>2, <2>1, <2>2
<1>9. Tokens'
  BY <1>0, <1>1, <1>7, <1>8 DEF Tokens
<1>10. FileIsCurrent' /\ ReportedIsDead'
  BY <1>0, <1>1, <1>2 DEF FileIsCurrent, ReportedIsDead
<1> QED
  BY <1>4, <1>5, <1>9, <1>10 DEF IInv

-----------------------------------------------------------------------------
(* Steps that change no goroutine, and the program's end and start.        *)
LEMMA OtherSteps ==
    ASSUME IInv,
           OtherWrites \/ OtherWritten \/ Expire \/ BackoffEnds \/ (\E g \in Grant : Revoke(g))
    PROVE  IInv'
<1> USE DEF configVars, refreshVars, service, history
<1>0. /\ TypeOK /\ Tokens /\ FileIsCurrent /\ ReportedIsDead
      /\ \A q \in Request : Holds(q) /\ Counts(q) /\ Works(q)
      /\ UNCHANGED <<running, memory, refreshMu, request, deadReported, current, chosen, pasted>>
  BY DEF IInv, OtherWrites, OtherWritten, Expire, BackoffEnds, Revoke
<1>1. \A q \in Request : Exchanging(q)' = Exchanging(q)
  BY <1>0 DEF Exchanging, Granted, At
<1>2. TypeOK'
  <2>0. onDisk.token \in RefreshToken \cup {NoToken} /\ memory \in RefreshToken \cup {NoToken}
    BY <1>0 DEF TypeOK
  <2>1. /\ [whole |-> TRUE, token |-> memory] \in [whole : BOOLEAN, token : RefreshToken \cup {NoToken}]
        /\ [onDisk EXCEPT !.whole = FALSE] \in [whole : BOOLEAN, token : RefreshToken \cup {NoToken}]
    BY <1>0, <2>0 DEF TypeOK
  <2>2. onDisk' \in [whole : BOOLEAN, token : RefreshToken \cup {NoToken}]
    BY <1>0, <2>1 DEF TypeOK, OtherWrites, OtherWritten, Expire, BackoffEnds, Revoke
  <2>3. cut' \subseteq Grant /\ revoked' \subseteq Grant
    BY <1>0 DEF TypeOK, OtherWrites, OtherWritten, Expire, BackoffEnds, Revoke
  <2>4. configMu' \in Request \cup {nobody, other} /\ due' \in BOOLEAN /\ backoff' \in BOOLEAN
        /\ unsaved' \in BOOLEAN
    BY <1>0 DEF TypeOK, OtherWrites, OtherWritten, Expire, BackoffEnds, Revoke
  <2> QED
    BY <1>0, <2>2, <2>3, <2>4 DEF TypeOK
<1>3. ASSUME NEW t \in RefreshToken PROVE Live(t)' => Live(t)
  <2>1. revoked \subseteq revoked'
    BY DEF OtherWrites, OtherWritten, Expire, BackoffEnds, Revoke
  <2> QED
    BY <2>1, <1>0 DEF Live
<1>4. ASSUME NEW q \in Request PROVE (Holds(q) /\ Counts(q) /\ Works(q))'
  <2>1. Counts(q)'
    BY <1>0 DEF Counts, At
  <2>2. Works(q)'
    <3>1. Live(request[q].own)' => Live(request[q].own)
      BY <1>0, <1>3 DEF Live, TypeOK, Goroutine
    <3> QED
      BY <3>1, <1>0 DEF Works, AtWork, At
  <2>3. Holds(q)'
    <3>1. CASE OtherWrites
      BY <3>1, <1>0, TokenAssumption DEF OtherWrites, Holds, AtWork, At
    <3>2. CASE OtherWritten
      BY <3>2, <1>0, TokenAssumption DEF OtherWritten, Holds, AtWork, At
    <3>3. CASE configMu' = configMu
      BY <3>3, <1>0 DEF Holds, AtWork, At
    <3> QED
      BY <3>1, <3>2, <3>3 DEF Expire, BackoffEnds, Revoke
  <2> QED
    BY <2>1, <2>2, <2>3
<1>5. ASSUME NEW t, cut' = cut, Excused(t) PROVE Excused(t)'
  <2>1. revoked \subseteq revoked'
    BY DEF OtherWrites, OtherWritten, Expire, BackoffEnds, Revoke
  <2>2. CASE Live(t)
    BY <2>2, <1>0 DEF Excused, Live
  <2>3. CASE t.grant \in revoked \cup cut
    BY <2>1, <2>3, <1>5 DEF Excused
  <2>4. CASE \E q \in Request : Exchanging(q) /\ request[q].own = t
    BY <2>4, <1>0, <1>1 DEF Excused
  <2> QED
    BY <2>2, <2>3, <2>4, <1>5 DEF Excused
<1>6. Tokens'
  <2>1. Accounted(memory)' /\ Accounted(onDisk.token)'
    <3>1. CASE cut' = cut
      <4>1. onDisk'.token \in {onDisk.token, memory}
        BY <1>0 DEF TypeOK, OtherWrites, OtherWritten, Expire, BackoffEnds, Revoke
      <4>2. \A t : Excused(t) => Excused(t)'
        BY <1>5, <3>1
      <4> QED
        BY <4>1, <4>2, <1>0 DEF Tokens, Accounted
    <3>2. CASE cut' # cut
      <4>1. OtherWritten /\ Live(memory) /\ onDisk' = [whole |-> TRUE, token |-> memory]
        BY <3>2 DEF OtherWrites, OtherWritten, Expire, BackoffEnds, Revoke
      <4>2. Live(memory)' /\ onDisk'.token = memory'
        BY <4>1, <1>0 DEF OtherWritten, Live
      <4> QED
        BY <4>2, <1>0 DEF Tokens, Accounted, Excused
    <3> QED
      BY <3>1, <3>2
  <2>2. ~running => configMu' = nobody
    BY <1>0, TokenAssumption DEF Tokens, OtherWrites, OtherWritten, Expire, BackoffEnds, Revoke
  <2> QED
    BY <2>1, <2>2, <1>0 DEF Tokens
<1>7. FileIsCurrent'
  BY <1>0, TokenAssumption
  DEF FileIsCurrent, OtherWrites, OtherWritten, Expire, BackoffEnds, Revoke
<1>8. ReportedIsDead'
  BY <1>0, <1>3 DEF ReportedIsDead, Live, TypeOK
<1> QED
  BY <1>2, <1>4, <1>6, <1>7, <1>8 DEF IInv

LEMMA CrashStep ==
    ASSUME IInv, Crash
    PROVE  IInv'
<1> USE DEF configVars, refreshVars, service, history
<1>0. TypeOK /\ Tokens /\ \A q \in Request : Holds(q) /\ Works(q)
  BY DEF IInv
<1>1. Idle \in Goroutine /\ Idle.at = "idle" /\ Idle.why = "keepalive"
  BY TokenAssumption DEF Idle, Goroutine
<1>2. request' \in [Request -> Goroutine] /\ \A q \in Request : request'[q] = Idle
  BY <1>1 DEF Crash
<1>3. ASSUME NEW q \in Request, Exchanging(q)
      PROVE  request[q].own.grant \in cut' /\ request[q].own.grant \in Grant
  BY <1>0, <1>3 DEF Crash, Exchanging, Granted, Works, AtWork, At, RefreshToken
<1>4. cut \subseteq cut' /\ cut' \subseteq Grant
  BY <1>0, <1>3 DEF Crash, TypeOK, Exchanging
<1>5. TypeOK'
  BY <1>0, <1>2, <1>4 DEF Crash, TypeOK
<1>6. \A q \in Request : (Holds(q) /\ Counts(q) /\ Works(q))'
  BY <1>1, <1>2, TokenAssumption DEF Crash, Holds, Counts, Works, AtWork, At
<1>7. Excused(onDisk.token) => Excused(onDisk.token)'
  BY <1>3, <1>4 DEF Crash, Excused, Live
<1>8. Tokens'
  BY <1>0, <1>7 DEF Crash, Tokens, Accounted
<1>9. FileIsCurrent' /\ ReportedIsDead'
  BY DEF Crash, FileIsCurrent, ReportedIsDead
<1> QED
  BY <1>5, <1>6, <1>8, <1>9 DEF IInv

LEMMA StartStep ==
    ASSUME IInv, Restart
    PROVE  IInv'
<1> USE DEF configVars, refreshVars, service, history
<1>0. /\ TypeOK /\ Tokens /\ ~running /\ memory = NoToken /\ configMu = nobody /\ ~deadReported
      /\ \A q \in Request : Holds(q) /\ Counts(q) /\ Works(q)
  BY DEF IInv, Restart, Tokens
<1>2. /\ onDisk' \in [whole : BOOLEAN, token : RefreshToken \cup {NoToken}]
      /\ onDisk' = [whole |-> TRUE, token |-> onDisk'.token]
      /\ onDisk'.token \in {onDisk.token, NoToken}
  <2>1. CASE onDisk.whole /\ onDisk' = onDisk
    <3>1. onDisk \in [whole : BOOLEAN, token : RefreshToken \cup {NoToken}]
      BY <1>0 DEF TypeOK
    <3>2. onDisk = [whole |-> TRUE, token |-> onDisk.token]
      BY <2>1, <3>1
    <3> QED
      BY <2>1, <3>1, <3>2
  <2>2. CASE onDisk' = [whole |-> TRUE, token |-> NoToken]
    BY <2>2
  <2> QED
    BY <2>1, <2>2 DEF Restart
<1>3. memory' \in RefreshToken \cup {NoToken} /\ memory' = onDisk'.token
  BY <1>2 DEF Restart
<1>4. TypeOK'
  <2>1. chosen' \in Grant
    BY <1>0, <1>3 DEF Restart, TypeOK, RefreshToken
  <2> QED
    BY <1>0, <1>2, <1>3, <2>1 DEF Restart, TypeOK
<1>5. \A q \in Request : ~AtWork(q) /\ request'[q] = request[q]
  BY <1>0 DEF Holds, AtWork, At, Restart
<1>6. \A q \in Request : (Holds(q) /\ Counts(q) /\ Works(q))'
  <2> TAKE q \in Request
  <2>1. /\ Holds(q) /\ Counts(q) /\ Works(q)
        /\ UNCHANGED <<refreshMu, configMu, request, current, deadReported>> /\ running'
    BY <1>0 DEF Restart
  <2> QED
    BY <2>1, <1>5 DEF Holds, Counts, Works, AtWork, At
<1>7. Accounted(memory)'
  <2>1. CASE memory' = NoToken
    BY <2>1 DEF Accounted
  <2>2. CASE memory' = onDisk.token
    BY <2>2, <1>0 DEF Restart, Tokens, Accounted, Excused, Live, Exchanging, Granted, At
  <2> QED
    BY <1>2, <1>3, <2>1, <2>2
<1>8. Tokens'
  <2>1. Accounted(onDisk.token)'
    BY <1>3, <1>7 DEF Accounted
  <2>2. (memory # NoToken => memory.grant = chosen)' /\ running'
    BY DEF Restart
  <2> QED
    BY <1>7, <2>1, <2>2 DEF Tokens
<1>9. FileIsCurrent' /\ ReportedIsDead'
  BY <1>0, <1>2, <1>3 DEF Restart, FileIsCurrent, ReportedIsDead
<1> QED
  BY <1>4, <1>6, <1>8, <1>9 DEF IInv

-----------------------------------------------------------------------------
LEMMA InitInv ==
    Init => IInv
<1> SUFFICES ASSUME Init PROVE IInv
  OBVIOUS
<1>1. /\ Idle \in Goroutine
      /\ Idle.at = "idle" /\ Idle.why = "keepalive"
  BY TokenAssumption DEF Idle, Goroutine
<1>2. \A r \in Request : request[r] = Idle
  BY DEF Init
<1>3. memory = NoToken \/ (memory \in RefreshToken /\ memory.n = 0 /\ memory.grant \in Grant)
  BY TokenAssumption DEF Init, RefreshToken
<1>4. TypeOK
  <2>1. onDisk \in [whole : BOOLEAN, token : RefreshToken \cup {NoToken}]
    BY <1>3 DEF Init
  <2>2. request \in [Request -> Goroutine]
    BY <1>1 DEF Init
  <2>3. current \in [Grant -> 0 .. MaxIssued]
    BY TokenAssumption DEF Init
  <2> QED
    BY <1>3, <2>1, <2>2, <2>3 DEF Init, TypeOK
<1>5. \A r \in Request : Holds(r) /\ Counts(r) /\ Works(r)
  BY <1>1, <1>2, TokenAssumption DEF Init, Holds, Counts, Works, AtWork, At
<1>6. Tokens
  <2>1. memory # NoToken => Live(memory) /\ memory.n <= current[memory.grant]
    BY <1>3 DEF Init, Live
  <2> QED
    BY <2>1 DEF Init, Tokens, Accounted, Excused
<1>7. FileIsCurrent /\ ReportedIsDead
  BY DEF Init, FileIsCurrent, ReportedIsDead
<1> QED
  BY <1>4, <1>5, <1>6, <1>7 DEF IInv

LEMMA NextInv ==
    IInv /\ [Next]_vars => IInv'
<1> SUFFICES ASSUME IInv, [Next]_vars PROVE IInv'
  OBVIOUS
<1>1. ASSUME NEW r \in Request,
             Begin(r) \/ Leave(r) \/ Step(r) \/ \E t \in RefreshToken : Paste(r, t)
      PROVE  IInv'
  <2>1. CASE BeginRefresh(r)
    BY <2>1, BeginRefreshStep
  <2>2. CASE Exchange(r)
    BY <2>2, ExchangeStep
  <2>3. CASE RefreshFails(r)
    BY <2>3, RefreshFailsStep
  <2>4. CASE Accept(r)
    BY <2>4, AcceptStep
  <2>5. CASE Save(r)
    BY <2>5, SaveStep
  <2> QED
    BY <1>1, <2>1, <2>2, <2>3, <2>4, <2>5, LocalSteps DEF Step
<1>2. CASE UNCHANGED vars
  BY <1>2 DEF vars, configVars, refreshVars, service, history, IInv, TypeOK, Holds, Counts, Works,
              AtWork, Tokens, Accounted, Excused, Exchanging, Granted, Live, At, FileIsCurrent,
              ReportedIsDead
<1> QED
  BY <1>1, <1>2, OtherSteps, CrashStep, StartStep DEF Next

(* The inductive invariant: who is at work under a mutex has it, what a    *)
(* goroutine has been told by the service is still so, and no token that   *)
(* the program keeps, in memory or in the file, is ahead of the service.   *)
THEOREM TokenInvariant == Spec => []IInv
  BY InitInv, NextInv, PTL DEF Spec

(* The token the program keeps is that of the grant the user chose last,   *)
(* in its newest form, unless the service has withdrawn it, it is just     *)
(* being exchanged, or it was cut off on its way into the file             *)
(* (refreshToken and SaveToken, with pasted tokens and restarts).          *)
THEOREM StoredTokenStaysLive == Spec => []StoredTokenIsLive
<1>1. IInv => StoredTokenIsLive
  BY DEF IInv, Tokens, Accounted, Excused, Exchanging, StoredTokenIsLive
<1> QED
  BY <1>1, TokenInvariant, PTL

(* However refreshes, pasted tokens and restarts interleave, a stored      *)
(* token that the user is told is dead is dead (deadReported).             *)
THEOREM ReportedTokenIsDead == Spec => []ReportedIsDead
<1>1. IInv => ReportedIsDead
  BY DEF IInv
<1> QED
  BY <1>1, TokenInvariant, PTL

(* Between writes, and unless the last one failed, the file has the token  *)
(* that the memory has (SaveToken, persistLocked).                         *)
THEOREM FileStaysCurrent == Spec => []FileIsCurrent
<1>1. IInv => FileIsCurrent
  BY DEF IInv
<1> QED
  BY <1>1, TokenInvariant, PTL

(* refreshMu and the configuration's mutex are only ever held by someone   *)
(* on the way to give them back, and in this order (refreshToken).         *)
THEOREM MutexesAlwaysGivenBack == Spec => []MutexesAreGivenBack
<1>1. IInv => MutexesAreGivenBack
  BY TokenAssumption DEF IInv, TypeOK, Holds, AtWork, At, MutexesAreGivenBack
<1> QED
  BY <1>1, TokenInvariant, PTL

-----------------------------------------------------------------------------
(* An upload. The contents there are:                                      *)
Stored == BoundedSeq(Block, MaxBlocks)

-----------------------------------------------------------------------------
(* Sequences: bounded ones, prefixes.                                      *)

LEMMA BoundedSeqIs ==
    ASSUME NEW S, NEW n \in Nat
    PROVE  \A s : s \in BoundedSeq(S, n) <=> s \in Seq(S) /\ Len(s) <= n
<1>1. ASSUME NEW s \in BoundedSeq(S, n)
      PROVE  s \in Seq(S) /\ Len(s) <= n
  <2>1. PICK m \in 0 .. n : s \in [1 .. m -> S]
    BY DEF BoundedSeq, SeqOf
  <2>2. s \in Seq(S)
    BY <2>1, SeqDef
  <2>3. Len(s) = m
    BY <2>1, <2>2, LenProperties
  <2>4. QED BY <2>2, <2>3
<1>2. ASSUME NEW s \in Seq(S), Len(s) <= n
      PROVE  s \in BoundedSeq(S, n)
  <2>1. s \in [1 .. Len(s) -> S] /\ Len(s) \in 0 .. n
    BY <1>2, LenProperties
  <2>2. QED BY <2>1 DEF BoundedSeq, SeqOf
<1>3. QED BY <1>1, <1>2

LEMMA PrefixIs ==
    ASSUME NEW S, NEW s \in Seq(S), NEW t \in Seq(S)
    PROVE  IsPrefix(s, t) <=> Len(s) <= Len(t) /\ \A i \in 1 .. Len(s) : s[i] = t[i]
<1>1. Len(s) \in Nat /\ Len(t) \in Nat
  BY LenProperties
<1>2. SubSeq(s, 1, Len(s)) = s
  BY SubSeqFull
<1>3. ASSUME Len(s) <= Len(t)
      PROVE  /\ SubSeq(t, 1, Len(s)) \in Seq(S) /\ Len(SubSeq(t, 1, Len(s))) = Len(s)
             /\ \A i \in 1 .. Len(s) : SubSeq(t, 1, Len(s))[i] = t[i]
  <2>1. \A i \in 1 .. Len(s) : t[i] \in S
    BY <1>1, <1>3, ElementOfSeq
  <2>2. /\ SubSeq(t, 1, Len(s)) \in Seq(S)
        /\ Len(SubSeq(t, 1, Len(s))) = IF 1 <= Len(s) THEN Len(s) - 1 + 1 ELSE 0
        /\ \A i \in 1 .. Len(s) - 1 + 1 : SubSeq(t, 1, Len(s))[i] = t[1 + i - 1]
    BY <1>1, <2>1, SubSeqProperties
  <2>3. QED BY <1>1, <2>2
<1>4. QED BY <1>1, <1>2, <1>3, SeqEqual DEF IsPrefix

LEMMA PrefixTransitive ==
    ASSUME NEW S, NEW s \in Seq(S), NEW t \in Seq(S), NEW u \in Seq(S),
           IsPrefix(s, t), IsPrefix(t, u)
    PROVE  IsPrefix(s, u)
<1>1. Len(s) \in Nat /\ Len(t) \in Nat /\ Len(u) \in Nat
  BY LenProperties
<1>2. Len(s) <= Len(t) /\ \A i \in 1 .. Len(s) : s[i] = t[i]
  BY PrefixIs
<1>3. Len(t) <= Len(u) /\ \A i \in 1 .. Len(t) : t[i] = u[i]
  BY PrefixIs
<1>4. Len(s) <= Len(u) /\ \A i \in 1 .. Len(s) : s[i] = u[i]
  BY <1>1, <1>2, <1>3
<1>5. QED BY <1>4, PrefixIs

LEMMA WholePrefix ==
    ASSUME NEW S, NEW s \in Seq(S), NEW t \in Seq(S), IsPrefix(s, t), Len(t) <= Len(s)
    PROVE  s = t
<1>1. Len(s) \in Nat /\ Len(t) \in Nat
  BY LenProperties
<1>2. Len(s) <= Len(t) /\ \A i \in 1 .. Len(s) : s[i] = t[i]
  BY PrefixIs
<1>3. Len(s) = Len(t)
  BY <1>1, <1>2
<1>4. QED BY <1>2, <1>3, SeqEqual

(* One block more of t.                                                    *)
LEMMA PrefixGrows ==
    ASSUME NEW S, NEW s \in Seq(S), NEW t \in Seq(S), IsPrefix(s, t), Len(s) < Len(t)
    PROVE  /\ Append(s, t[Len(s) + 1]) \in Seq(S)
           /\ Len(Append(s, t[Len(s) + 1])) = Len(s) + 1
           /\ IsPrefix(Append(s, t[Len(s) + 1]), t)
<1> DEFINE a == Append(s, t[Len(s) + 1])
<1>1. Len(s) \in Nat /\ Len(t) \in Nat
  BY LenProperties
<1>2. t[Len(s) + 1] \in S
  BY <1>1, ElementOfSeq
<1>3. /\ a \in Seq(S) /\ Len(a) = Len(s) + 1
      /\ \A i \in 1 .. Len(s) : a[i] = s[i]
      /\ a[Len(s) + 1] = t[Len(s) + 1]
  BY <1>2, AppendProperties
<1>4. \A i \in 1 .. Len(s) : s[i] = t[i]
  BY PrefixIs
<1> HIDE DEF a
<1>5. Len(a) <= Len(t) /\ \A i \in 1 .. Len(a) : a[i] = t[i]
  BY <1>1, <1>3, <1>4
<1>6. IsPrefix(a, t)
  BY <1>3, <1>5, PrefixIs
<1>7. QED BY <1>3, <1>6 DEF a

(* The part of t from where s ends up to place n.                          *)
Continued(s, t, n) == s \o SubSeq(t, Len(s) + 1, n)

LEMMA PartAppended ==
    ASSUME NEW S, NEW s \in Seq(S), NEW t \in Seq(S), NEW n \in Nat,
           Len(s) <= n, n <= Len(t)
    PROVE  /\ Continued(s, t, n) \in Seq(S) /\ Len(Continued(s, t, n)) = n
           /\ \A i \in 1 .. n :
                 Continued(s, t, n)[i] = IF i <= Len(s) THEN s[i] ELSE t[i]
<1> DEFINE k == Len(s)
           b == SubSeq(t, k + 1, n)
<1>1. k \in Nat /\ Len(t) \in Nat
  BY LenProperties
<1>2. \A i \in k + 1 .. n : t[i] \in S
  BY <1>1, ElementOfSeq
<1>3. /\ b \in Seq(S)
      /\ Len(b) = IF k + 1 <= n THEN n - (k + 1) + 1 ELSE 0
      /\ \A i \in 1 .. n - (k + 1) + 1 : b[i] = t[(k + 1) + i - 1]
  BY <1>1, <1>2, SubSeqProperties
<1> HIDE DEF b
<1>4. Len(b) = n - k /\ \A i \in 1 .. n - k : b[i] = t[k + i]
  BY <1>1, <1>3
<1>5. /\ s \o b \in Seq(S) /\ Len(s \o b) = k + Len(b)
      /\ \A i \in 1 .. k + Len(b) : (s \o b)[i] = IF i <= k THEN s[i] ELSE b[i - k]
  BY <1>3, ConcatProperties
<1>6. ASSUME NEW i \in 1 .. n
      PROVE  (s \o b)[i] = IF i <= k THEN s[i] ELSE t[i]
  <2>1. CASE i <= k
    BY <1>1, <1>4, <1>5, <2>1
  <2>2. CASE ~(i <= k)
    <3>1. i - k \in 1 .. n - k /\ k + (i - k) = i /\ i \in 1 .. k + Len(b)
      BY <1>1, <1>4, <2>2
    <3>2. QED BY <1>4, <1>5, <2>2, <3>1
  <2>3. QED BY <2>1, <2>2
<1>7. Len(s \o b) = n
  BY <1>1, <1>4, <1>5
<1>8. QED BY <1>5, <1>6, <1>7 DEF b, Continued

-----------------------------------------------------------------------------
(* Parts: a division rounded up is the least number that suffices.         *)
LEMMA RoundedUp ==
    ASSUME NEW n \in Nat \ {0}, NEW s \in Nat \ {0}
    PROVE  /\ (n + s - 1) \div s \in Nat \ {0}
           /\ n <= ((n + s - 1) \div s) * s
           /\ ((n + s - 1) \div s - 1) * s < n
<1> DEFINE q == (n + s - 1) \div s
           r == (n + s - 1) % s
<1>1. q \in Int /\ r \in 0..s - 1 /\ n + s - 1 = s * q + r
  BY Z3
<1>2. q > 0
  <2>1. SUFFICES ASSUME q <= 0 PROVE FALSE
    BY <1>1
  <2>2. s * q <= 0
    BY <2>1, <1>1
  <2> QED BY <2>2, <1>1
<1>3. s * q = q * s /\ (q - 1) * s = s * q - s
  BY <1>1
<1> QED BY <1>1, <1>2, <1>3

LEMMA PartsAhead ==
    ASSUME NEW n \in Nat \ {0}, NEW s \in Nat \ {0}, NEW k \in Nat
    PROVE  /\ k * s \in Nat
           /\ (k + 1) * s = k * s + s
           /\ k < (n + s - 1) \div s => k * s < n
           /\ k = (n + s - 1) \div s => n <= k * s
<1> DEFINE q == (n + s - 1) \div s
<1>1. q \in Nat \ {0} /\ n <= q * s /\ (q - 1) * s < n
  BY RoundedUp
<1> HIDE DEF q
<1>2. k * s \in Nat /\ (k + 1) * s = k * s + s
  OBVIOUS
<1>3. ASSUME k < q PROVE k * s < n
  <2>1. k * s <= (q - 1) * s
    BY <1>1, <1>3
  <2>2. (q - 1) * s \in Int
    BY <1>1
  <2>3. QED BY <1>1, <1>2, <2>1, <2>2
<1>4. QED BY <1>1, <1>2, <1>3 DEF q

-----------------------------------------------------------------------------
(* The invariant. Before the file is sent nothing is known of it but what  *)
(* was hashed; a file that only grew still begins with that, so one of the *)
(* declared size is it.                                                    *)
Busy == {"hash", "read", "init", "prove", "token", "open", "send"}
Hashed == {"init", "prove", "token", "open", "send"}

Uploads ==
    [at : Busy \cup {"idle", "done", "failed"}, size : 0..MaxBlocks, hashed : Stored,
     inits : 0..maxUploadRetries, range : {<< >>} \cup (Nat \X Nat),
     sign : Seq(Block) \cup {none}, parts : Nat, sent : Stored,
     attempt : 1..maxAttempts, pickCode : PickCode \cup {none}]

Typed ==
    /\ OriginalTypeOK
    /\ up \in Uploads
    /\ node \in [PickCode -> Stored \cup {none}]

Handles ==
    /\ held = AtPath => file # Absent
    /\ held # Closed <=> up.at \in {"read", "send"}

Underway ==
    /\ up.at \in Busy => up.size # 0
    /\ up.at \in {"hash", "read", "init"} => up.inits < maxUploadRetries
    /\ up.at = "hash" => up.hashed = << >>
    /\ up.at = "prove" => up.range \in (1..up.size) \X (1..up.size)
    /\ up.at \in Busy \ {"send"} => up.parts = 0 /\ up.sent = << >>
    /\ up.at = "send" => up.parts <= TotalParts /\ Len(up.sent) = Least(Offset, up.size)
    /\ up.at = "done" => up.pickCode \in PickCode

OnlyGrown ==
    /\ up.at \in Busy => file # Absent /\ up.size <= Len(file)
    /\ up.at \in {"read", "send"} => held = AtPath
    /\ up.at \in Hashed \cup {"read"} => IsPrefix(up.hashed, file)
    /\ up.at \in Hashed => up.size <= Len(up.hashed)
    /\ up.at = "send" => Len(up.hashed) = up.size /\ IsPrefix(up.sent, up.hashed)
    /\ up.at = "done" => node[up.pickCode] = up.hashed

UploadInv == Typed /\ Handles /\ Underway /\ (~rewritten => OnlyGrown)

allVars == <<originalVars, uploadVars>>

LEMMA StoredIs ==
    \A s : s \in Stored <=> s \in Seq(Block) /\ Len(s) \in 0..MaxBlocks
<1>1. MaxBlocks \in Nat
  BY OriginalAssumption
<1>2. \A s : s \in Stored <=> s \in Seq(Block) /\ Len(s) <= MaxBlocks
  BY <1>1, BoundedSeqIs DEF Stored
<1>3. \A s \in Seq(Block) : Len(s) \in Nat
  BY LenProperties
<1>4. QED BY <1>1, <1>2, <1>3

LEMMA ContentIs ==
    ASSUME NEW c \in Content
    PROVE  /\ c \in Stored /\ c \in Seq(Block) /\ Len(c) \in 1..MaxBlocks
           /\ c # Absent /\ c # Closed /\ c # AtPath
<1>1. c \in Stored /\ c # << >>
  BY OriginalAssumption DEF Stored
<1>2. c \in Seq(Block) /\ Len(c) \in 0..MaxBlocks
  BY <1>1, StoredIs
<1>3. Len(c) # 0
  BY <1>1, <1>2, EmptySeq
<1>4. c # Absent /\ c # Closed /\ c # AtPath
  BY <1>2, OriginalAssumption
<1>5. QED BY <1>1, <1>2, <1>3, <1>4

LEMMA EmptyIsStored ==
    << >> \in Stored /\ << >> \in Seq(Block) /\ Len(<< >>) = 0
<1>1. << >> \in Seq(Block) /\ Len(<< >>) = 0
  BY EmptySeq
<1>2. 0 \in 0..MaxBlocks
  BY OriginalAssumption
<1>3. QED BY <1>1, <1>2, StoredIs

LEMMA EmptyPrefix ==
    ASSUME NEW t \in Seq(Block)
    PROVE  IsPrefix(<< >>, t)
<1> DEFINE s == << >>
<1>1. s \in Seq(Block) /\ Len(s) = 0 /\ Len(t) \in Nat
  BY EmptyIsStored, LenProperties
<1> HIDE DEF s
<1>2. Len(s) <= Len(t) /\ \A i \in 1 .. Len(s) : s[i] = t[i]
  BY <1>1
<1>3. IsPrefix(s, t)
  BY <1>1, <1>2, PrefixIs
<1>4. QED BY <1>3 DEF s

LEMMA NoUploadIs ==
    /\ NoUpload \in Uploads /\ [NoUpload EXCEPT !.at = "failed"] \in Uploads
    /\ [NoUpload EXCEPT !.at = "failed"].at = "failed" /\ NoUpload.at = "idle"
<1>1. 0 \in 0..MaxBlocks /\ 0 \in 0..maxUploadRetries /\ 1 \in 1..maxAttempts
  BY OriginalAssumption, UploadAssumption
<1>2. QED BY <1>1, EmptyIsStored DEF NoUpload, Uploads

LEMMA UploadInitInv == UploadInit => UploadInv
<1>1. SUFFICES ASSUME UploadInit PROVE UploadInv
  OBVIOUS
<1>2. up = NoUpload /\ up.at = "idle" /\ file \in Content /\ held = Closed
  BY <1>1, NoUploadIs DEF UploadInit, OriginalInit
<1>8. 0 \in 0..MaxEdits
  BY OriginalAssumption
<1>3. OriginalTypeOK
  BY <1>1, <1>8 DEF UploadInit, OriginalInit, OriginalTypeOK
<1>7. node \in [PickCode -> Stored \cup {none}]
  BY <1>1 DEF UploadInit
<1>4. Handles
  BY <1>2, ContentIs, OriginalAssumption DEF Handles
<1>5. Underway /\ OnlyGrown
  BY <1>2 DEF Underway, OnlyGrown, Busy, Hashed
<1>6. QED BY <1>2, <1>3, <1>4, <1>5, <1>7, NoUploadIs DEF UploadInv, Typed

LEMMA UserKeepsInv ==
    ASSUME UploadInv, User, UNCHANGED uploadVars
    PROVE  UploadInv'
<1>1. up' = up /\ node' = node
  BY DEF uploadVars
<1>2. OriginalTypeOK /\ up \in Uploads /\ node \in [PickCode -> Stored \cup {none}]
  BY DEF UploadInv, Typed
<1>3. Underway'
  BY <1>1 DEF UploadInv, Underway, Offset, PartSize, InParts, TotalParts
<1>4. /\ edits < MaxEdits /\ edits' = edits + 1 /\ edits' \in 0..MaxEdits
      /\ rewritten' \in BOOLEAN /\ late' \in BOOLEAN
  <2>1. MaxEdits \in Nat /\ edits \in 0..MaxEdits /\ rewritten \in BOOLEAN
    BY <1>2, OriginalAssumption DEF OriginalTypeOK
  <2>2. \E grown \in BOOLEAN : Edited(grown)
    BY DEF User, Write, Replace, Unlink, IsPrefix
  <2>3. edits < MaxEdits /\ edits' = edits + 1 /\ late' = TRUE /\ rewritten' \in BOOLEAN
    BY <2>1, <2>2 DEF Edited
  <2>4. QED BY <2>1, <2>3
<1>5. ASSUME NEW c \in Content, Write(c)
      PROVE  UploadInv'
  <2>1. file # Absent /\ file' = c /\ held' = held /\ file \in Content
    BY <1>2, <1>5 DEF Write, OriginalTypeOK
  <2>2. c # Absent /\ c \in Seq(Block) /\ file \in Seq(Block)
    BY <2>1, ContentIs
  <2>3. OriginalTypeOK'
    BY <1>2, <1>4, <2>1 DEF OriginalTypeOK
  <2>4. Handles'
    BY <1>1, <2>1, <2>2 DEF UploadInv, Handles
  <2>5. ASSUME ~rewritten' PROVE OnlyGrown'
    <3>1. ~rewritten /\ IsPrefix(file, c)
      BY <1>5, <2>5 DEF Write, Edited
    <3>2. OnlyGrown
      BY <3>1 DEF UploadInv
    <3>3. Len(file) <= Len(c) /\ Len(file) \in Nat /\ Len(c) \in Nat
      BY <2>2, <3>1, PrefixIs, LenProperties
    <3>4. up.at \in Busy => file' # Absent /\ up.size <= Len(file')
      <4>1. up.size \in Nat
        BY <1>2, OriginalAssumption DEF Uploads
      <4>2. QED BY <2>1, <2>2, <3>2, <3>3, <4>1 DEF OnlyGrown
    <3>5. up.at \in Hashed \cup {"read"} => IsPrefix(up.hashed, file')
      <4>1. up.hashed \in Seq(Block)
        BY <1>2, StoredIs DEF Uploads
      <4>2. QED BY <2>1, <2>2, <3>1, <3>2, <4>1, PrefixTransitive DEF OnlyGrown
    <3>6. QED BY <1>1, <2>1, <3>2, <3>4, <3>5 DEF OnlyGrown
  <2>6. QED BY <1>1, <1>2, <1>3, <2>3, <2>4, <2>5 DEF UploadInv, Typed
<1>6. ASSUME held' = Detached, file' \in Content \cup {Absent}, rewritten'
      PROVE  UploadInv'
  <2>1. held' \in Content \cup {Closed, AtPath} /\ (held' = Closed <=> held = Closed)
        /\ held' # AtPath
    <3>1. held = AtPath => file \in Content
      BY <1>2 DEF UploadInv, Handles, OriginalTypeOK
    <3>2. held = AtPath => file # Closed /\ file # AtPath
      BY <3>1, ContentIs
    <3>3. held \in Content \cup {Closed, AtPath} /\ AtPath # Closed
      BY <1>2, OriginalAssumption DEF OriginalTypeOK
    <3>4. QED BY <1>6, <3>1, <3>2, <3>3 DEF Detached
  <2>2. OriginalTypeOK'
    BY <1>4, <1>6, <2>1 DEF OriginalTypeOK
  <2>3. Handles'
    BY <1>1, <2>1 DEF UploadInv, Handles
  <2>4. QED BY <1>1, <1>2, <1>3, <1>6, <2>2, <2>3 DEF UploadInv, Typed
<1>7. ASSUME NEW c \in Content, Replace(c)
      PROVE  UploadInv'
  BY <1>6, <1>7 DEF Replace, Edited
<1>8. ASSUME Unlink
      PROVE  UploadInv'
  BY <1>6, <1>8 DEF Unlink, Edited
<1>9. QED BY <1>5, <1>7, <1>8 DEF User

(* What an upload that is over leaves behind.                              *)
LEMMA OverKeepsInv ==
    ASSUME UploadInv, up' \in {NoUpload, [NoUpload EXCEPT !.at = "failed"]},
           node' \in [PickCode -> Stored \cup {none}], held' = Closed, file' = file,
           edits' = edits, rewritten' \in BOOLEAN, late' \in BOOLEAN
    PROVE  UploadInv'
<1>1. OriginalTypeOK'
  BY DEF UploadInv, Typed, OriginalTypeOK
<1>2. up' \in Uploads /\ up'.at \in {"idle", "failed"}
  BY NoUploadIs
<1>3. Handles'
  BY <1>2, OriginalAssumption DEF Handles
<1>4. Underway' /\ OnlyGrown'
  BY <1>2 DEF Underway, OnlyGrown, Busy, Hashed
<1>5. QED BY <1>1, <1>2, <1>3, <1>4 DEF UploadInv, Typed

LEMMA StatSizeKeepsInv ==
    ASSUME UploadInv, StatSize
    PROVE  UploadInv'
<1>1. up.at = "idle" /\ file \in Content /\ file' = file /\ held' = held /\ node' = node
      /\ late' = late /\ edits' = edits /\ rewritten' = FALSE
  BY DEF UploadInv, Typed, OriginalTypeOK, StatSize
<1>2. Len(file) \in 1..MaxBlocks /\ file # Absent
  BY <1>1, ContentIs
<1>3. up' = [NoUpload EXCEPT !.at = "hash", !.size = Len(file)]
  BY DEF StatSize
<1>4. /\ up' \in Uploads /\ up'.at = "hash" /\ up'.size = Len(file) /\ up'.hashed = << >>
      /\ up'.parts = 0 /\ up'.sent = << >> /\ up'.inits = 0
  <2>1. MaxBlocks \in Nat
    BY OriginalAssumption
  <2>2. /\ NoUpload.hashed = << >> /\ NoUpload.parts = 0
        /\ NoUpload.sent = << >> /\ NoUpload.inits = 0
    BY DEF NoUpload
  <2>3. Len(file) \in 0..MaxBlocks
    BY <1>2, <2>1
  <2>4. NoUpload \in Uploads
    BY NoUploadIs
  <2>5. QED BY <1>3, <2>2, <2>3, <2>4 DEF Uploads, Busy
<1>5. 0 < maxUploadRetries
  BY UploadAssumption
<1>6. OriginalTypeOK' /\ Handles'
  BY <1>1, <1>4 DEF UploadInv, Typed, OriginalTypeOK, Handles
<1>7. Underway'
  BY <1>2, <1>4, <1>5 DEF Underway, Busy
<1>8. OnlyGrown'
  BY <1>1, <1>2, <1>4 DEF OnlyGrown, Busy, Hashed
<1>9. QED BY <1>1, <1>4, <1>6, <1>7, <1>8 DEF UploadInv, Typed

LEMMA OpenToHashKeepsInv ==
    ASSUME UploadInv, OpenToHash
    PROVE  UploadInv'
<1>1. up.at = "hash" /\ file # Absent /\ held' = AtPath /\ file' = file /\ node' = node
      /\ late' = late /\ edits' = edits /\ rewritten' = rewritten /\ up \in Uploads
  BY DEF UploadInv, Typed, OpenToHash
<1>2. file \in Seq(Block) /\ AtPath # Closed
  BY <1>1, ContentIs, OriginalAssumption DEF UploadInv, Typed, OriginalTypeOK
<1>3. up' = [up EXCEPT !.at = "read"]
  BY DEF OpenToHash
<1>4. /\ up' \in Uploads /\ up'.at = "read" /\ up'.size = up.size /\ up'.hashed = up.hashed
      /\ up'.parts = up.parts /\ up'.sent = up.sent /\ up'.inits = up.inits
  BY <1>1, <1>3 DEF Uploads, Busy
<1>5. OriginalTypeOK' /\ Handles'
  BY <1>1, <1>2, <1>4 DEF UploadInv, Typed, OriginalTypeOK, Handles
<1>6. Underway'
  BY <1>1, <1>4 DEF UploadInv, Underway, Busy
<1>7. ASSUME ~rewritten' PROVE OnlyGrown'
  <2>1. up.hashed = << >> /\ IsPrefix(<< >>, file)
    BY <1>1, <1>2, EmptyPrefix DEF UploadInv, Underway
  <2>2. QED BY <1>1, <1>4, <1>7, <2>1 DEF UploadInv, OnlyGrown, Busy, Hashed
<1>8. QED BY <1>1, <1>4, <1>5, <1>6, <1>7 DEF UploadInv, Typed

(* What the handle shows while the file is read.                           *)
LEMMA SeenIs ==
    ASSUME UploadInv, up.at \in {"read", "send"}
    PROVE  /\ Seen \in Content
           /\ ~rewritten => Seen = file
BY DEF UploadInv, Typed, OriginalTypeOK, Handles, OnlyGrown, Seen

LEMMA HashBlockKeepsInv ==
    ASSUME UploadInv, HashBlock
    PROVE  UploadInv'
<1> DEFINE h == Append(up.hashed, Seen[Len(up.hashed) + 1])
<1>1. up.at = "read" /\ Len(up.hashed) < Len(Seen) /\ file' = file /\ node' = node
      /\ held' = held /\ late' = late /\ edits' = edits /\ rewritten' = rewritten
      /\ up \in Uploads
  BY DEF UploadInv, Typed, HashBlock, originalVars
<1>2. Seen \in Seq(Block) /\ Len(Seen) \in 1..MaxBlocks /\ (~rewritten => Seen = file)
  BY <1>1, SeenIs, ContentIs
<1>3. up.hashed \in Seq(Block) /\ Len(up.hashed) \in Nat
  BY <1>1, StoredIs, LenProperties DEF Uploads
<1>4. h \in Stored
  <2>1. Seen[Len(up.hashed) + 1] \in Block
    BY <1>1, <1>2, <1>3, ElementOfSeq
  <2>2. h \in Seq(Block) /\ Len(h) = Len(up.hashed) + 1
    BY <1>3, <2>1, AppendProperties
  <2>3. Len(h) \in 0..MaxBlocks
    BY <1>1, <1>2, <1>3, <2>2, OriginalAssumption
  <2>4. QED BY <2>2, <2>3, StoredIs
<1>5. ~rewritten => IsPrefix(h, file)
  BY <1>1, <1>2, <1>3, PrefixGrows DEF UploadInv, OnlyGrown
<1>6. up' = [up EXCEPT !.hashed = h]
  BY DEF HashBlock
<1> HIDE DEF h
<1>7. /\ up' \in Uploads /\ up'.at = "read" /\ up'.size = up.size /\ up'.hashed = h
      /\ up'.parts = up.parts /\ up'.sent = up.sent /\ up'.inits = up.inits
  BY <1>1, <1>4, <1>6 DEF Uploads
<1>8. OriginalTypeOK' /\ Handles'
  BY <1>1, <1>7 DEF UploadInv, Typed, OriginalTypeOK, Handles
<1>9. Underway'
  BY <1>1, <1>7 DEF UploadInv, Underway, Busy
<1>10. ASSUME ~rewritten' PROVE OnlyGrown'
  BY <1>1, <1>5, <1>7, <1>10 DEF UploadInv, OnlyGrown, Busy, Hashed
<1>11. QED BY <1>1, <1>7, <1>8, <1>9, <1>10 DEF UploadInv, Typed

LEMMA HashEndsKeepsInv ==
    ASSUME UploadInv, HashEnds
    PROVE  UploadInv'
<1>1. up.at = "read" /\ Len(up.hashed) >= Len(Seen) /\ file' = file /\ node' = node
      /\ held' = Closed /\ late' = FALSE /\ edits' = edits /\ rewritten' = rewritten
      /\ up \in Uploads
  BY DEF UploadInv, Typed, HashEnds
<1>2. up' = [up EXCEPT !.at = "init"]
  BY DEF HashEnds
<1>3. /\ up' \in Uploads /\ up'.at = "init" /\ up'.size = up.size /\ up'.hashed = up.hashed
      /\ up'.parts = up.parts /\ up'.sent = up.sent /\ up'.inits = up.inits
  BY <1>1, <1>2 DEF Uploads, Busy
<1>4. OriginalTypeOK' /\ Handles'
  BY <1>1, <1>3, OriginalAssumption DEF UploadInv, Typed, OriginalTypeOK, Handles
<1>5. Underway'
  BY <1>1, <1>3 DEF UploadInv, Underway, Busy
<1>6. ASSUME ~rewritten' PROVE OnlyGrown'
  <2>1. Seen = file /\ up.size <= Len(file) /\ IsPrefix(up.hashed, file)
    BY <1>1, <1>6, SeenIs DEF UploadInv, OnlyGrown, Busy
  <2>2. Len(file) \in Nat /\ Len(up.hashed) \in Nat /\ up.size \in Nat
    <3>1. file \in Seq(Block) /\ up.hashed \in Seq(Block)
      BY <1>1, <2>1, SeenIs, ContentIs, StoredIs DEF Uploads
    <3>2. QED BY <1>1, <3>1, LenProperties, OriginalAssumption DEF Uploads
  <2>3. up.size <= Len(up.hashed)
    BY <1>1, <2>1, <2>2
  <2>4. QED BY <1>1, <1>3, <1>6, <2>1, <2>3 DEF UploadInv, OnlyGrown, Busy, Hashed
<1>7. QED BY <1>1, <1>3, <1>4, <1>5, <1>6 DEF UploadInv, Typed

LEMMA InstantHitKeepsInv ==
    ASSUME UploadInv, InstantHit
    PROVE  UploadInv'
<1>1. up.at = "init" /\ file' = file /\ held' = held /\ late' = late /\ edits' = edits
      /\ rewritten' = rewritten /\ up \in Uploads /\ node \in [PickCode -> Stored \cup {none}]
  BY DEF UploadInv, Typed, InstantHit, originalVars
<1>2. PICK p \in PickCode :
        /\ node' = [node EXCEPT ![p] = up.hashed]
        /\ up' = [up EXCEPT !.at = "done", !.pickCode = p]
  BY DEF InstantHit
<1>3. /\ up' \in Uploads /\ up'.at = "done" /\ up'.pickCode = p /\ up'.hashed = up.hashed
  BY <1>1, <1>2 DEF Uploads
<1>4. node' \in [PickCode -> Stored \cup {none}] /\ node'[p] = up.hashed
  BY <1>1, <1>2 DEF Uploads
<1>5. OriginalTypeOK' /\ Handles'
  BY <1>1, <1>3 DEF UploadInv, Typed, OriginalTypeOK, Handles
<1>6. Underway' /\ OnlyGrown'
  BY <1>3, <1>4 DEF Underway, OnlyGrown, Busy, Hashed
<1>7. QED BY <1>3, <1>4, <1>5, <1>6 DEF UploadInv, Typed

LEMMA DemandsProofKeepsInv ==
    ASSUME UploadInv, DemandsProof
    PROVE  UploadInv'
<1>1. up.at = "init" /\ node' = node /\ UNCHANGED originalVars /\ up \in Uploads
  BY DEF UploadInv, Typed, DemandsProof
<1>10. PICK b \in 1..up.size : \E e \in b..up.size :
         up' = [up EXCEPT !.at = "prove", !.inits = @ + 1, !.range = <<b, e>>]
  BY DEF DemandsProof
<1>2. PICK e \in b..up.size :
        up' = [up EXCEPT !.at = "prove", !.inits = @ + 1, !.range = <<b, e>>]
  BY <1>10
<1>3. up.size \in Nat /\ up.inits \in Nat /\ up.inits < maxUploadRetries
      /\ maxUploadRetries \in Nat
  BY <1>1, OriginalAssumption, UploadAssumption DEF Uploads, UploadInv, Underway
<1>4. up.inits + 1 \in 0..maxUploadRetries /\ e \in 1..up.size
      /\ <<b, e>> \in (1..up.size) \X (1..up.size) /\ <<b, e>> \in Nat \X Nat
  BY <1>3
<1>5. /\ up' \in Uploads /\ up'.at = "prove" /\ up'.size = up.size /\ up'.hashed = up.hashed
      /\ up'.parts = up.parts /\ up'.sent = up.sent /\ up'.range = <<b, e>>
  BY <1>1, <1>2, <1>4 DEF Uploads, Busy
<1>6. OriginalTypeOK' /\ Handles'
  BY <1>1, <1>5 DEF UploadInv, Typed, OriginalTypeOK, Handles, originalVars
<1>7. Underway'
  BY <1>1, <1>4, <1>5 DEF UploadInv, Underway, Busy
<1>8. ASSUME ~rewritten' PROVE OnlyGrown'
  BY <1>1, <1>5, <1>8 DEF UploadInv, OnlyGrown, Busy, Hashed, originalVars
<1>9. QED BY <1>1, <1>5, <1>6, <1>7, <1>8 DEF UploadInv, Typed

LEMMA DemandedIsTyped ==
    ASSUME UploadInv, up.at = "prove"
    PROVE  Demanded \in Seq(Block) \cup {none}
<1>1. CASE file = Absent
  BY <1>1 DEF Demanded
<1>2. CASE file # Absent
  <2>1. file \in Seq(Block) /\ Len(file) \in Nat /\ up.size \in Nat
    <3>1. file \in Content /\ up.size \in 0..MaxBlocks
      BY <1>2 DEF UploadInv, Typed, OriginalTypeOK, Uploads
    <3>2. QED BY <3>1, ContentIs, LenProperties, OriginalAssumption
  <2> DEFINE b == up.range[1]
             e == Least(up.range[2], Len(file))
  <2>2. up.range \in (1..up.size) \X (1..up.size)
    BY DEF UploadInv, Underway
  <2>3. b \in Nat /\ b >= 1 /\ e \in Nat /\ e <= Len(file)
    BY <2>1, <2>2 DEF Least
  <2> HIDE DEF b, e
  <2>4. \A i \in b..e : file[i] \in Block
    BY <2>1, <2>3, ElementOfSeq
  <2>5. SubSeq(file, b, e) \in Seq(Block)
    BY <2>1, <2>3, <2>4, SubSeqProperties
  <2>6. QED BY <1>2, <2>5 DEF Demanded, b, e
<1>3. QED BY <1>1, <1>2

LEMMA ProveKeepsInv ==
    ASSUME UploadInv, Prove
    PROVE  UploadInv'
<1>1. up.at = "prove" /\ node' = node /\ UNCHANGED originalVars /\ up \in Uploads
  BY DEF UploadInv, Typed, Prove
<1>2. CASE up.inits < maxUploadRetries
  <2>1. up' = [up EXCEPT !.at = "init", !.sign = Demanded]
    BY <1>2 DEF Prove
  <2>2. /\ up' \in Uploads /\ up'.at = "init" /\ up'.size = up.size /\ up'.hashed = up.hashed
        /\ up'.parts = up.parts /\ up'.sent = up.sent /\ up'.inits = up.inits
    BY <1>1, <2>1, DemandedIsTyped DEF Uploads, Busy
  <2>3. OriginalTypeOK' /\ Handles'
    BY <1>1, <2>2 DEF UploadInv, Typed, OriginalTypeOK, Handles, originalVars
  <2>4. Underway'
    BY <1>1, <1>2, <2>2 DEF UploadInv, Underway, Busy
  <2>5. ASSUME ~rewritten' PROVE OnlyGrown'
    BY <1>1, <2>2, <2>5 DEF UploadInv, OnlyGrown, Busy, Hashed, originalVars
  <2>6. QED BY <1>1, <2>2, <2>3, <2>4, <2>5 DEF UploadInv, Typed
<1>3. CASE ~(up.inits < maxUploadRetries)
  <2>1. up' = [NoUpload EXCEPT !.at = "failed"] /\ held = Closed
    BY <1>1, <1>3 DEF Prove, UploadInv, Handles
  <2>2. QED BY <1>1, <2>1, OverKeepsInv
             DEF UploadInv, Typed, OriginalTypeOK, originalVars
<1>4. QED BY <1>2, <1>3

(* ToBeSent and GetToken.                                                  *)
LEMMA GoesOnKeepsInv ==
    ASSUME UploadInv, ToBeSent \/ GetToken
    PROVE  UploadInv'
<1>1. up.at \in {"init", "token"} /\ node' = node /\ UNCHANGED originalVars /\ up \in Uploads
  BY DEF UploadInv, Typed, ToBeSent, GetToken
<1>2. PICK at \in {"token", "open"} : up' = [up EXCEPT !.at = at]
  BY DEF ToBeSent, GetToken
<1>3. /\ up' \in Uploads /\ up'.at = at /\ up'.size = up.size /\ up'.hashed = up.hashed
      /\ up'.parts = up.parts /\ up'.sent = up.sent
  BY <1>1, <1>2 DEF Uploads, Busy
<1>4. OriginalTypeOK' /\ Handles'
  BY <1>1, <1>3 DEF UploadInv, Typed, OriginalTypeOK, Handles, originalVars
<1>5. Underway'
  BY <1>1, <1>3 DEF UploadInv, Underway, Busy
<1>6. ASSUME ~rewritten' PROVE OnlyGrown'
  BY <1>1, <1>3, <1>6 DEF UploadInv, OnlyGrown, Busy, Hashed, originalVars
<1>7. QED BY <1>1, <1>3, <1>4, <1>5, <1>6 DEF UploadInv, Typed

LEMMA PartsAre ==
    ASSUME UploadInv, up.at \in Busy
    PROVE  /\ up.size \in 1..MaxBlocks /\ up.size \in Nat \ {0}
           /\ PartSize \in Nat \ {0} /\ TotalParts \in Nat \ {0}
<1>1. up.size \in 0..MaxBlocks /\ up.size # 0 /\ MaxBlocks \in Nat
  BY OriginalAssumption DEF UploadInv, Typed, Underway, Uploads
<1>2. up.size \in 1..MaxBlocks /\ up.size \in Nat \ {0}
  BY <1>1
<1>3. calcPartSize[up.size] \in Nat \ {0}
  BY <1>2, UploadAssumption
<1>4. PartSize \in Nat \ {0}
  BY <1>2, <1>3 DEF PartSize
<1>5. TotalParts \in Nat \ {0}
  BY <1>2, <1>4, RoundedUp DEF TotalParts
<1>6. QED BY <1>2, <1>4, <1>5

LEMMA SizesStay ==
    up'.size = up.size => PartSize' = PartSize /\ TotalParts' = TotalParts
BY DEF PartSize, InParts, TotalParts

LEMMA OpenToSendKeepsInv ==
    ASSUME UploadInv, OpenToSend
    PROVE  UploadInv'
<1>1. up.at = "open" /\ file # Absent /\ Len(file) = up.size /\ held' = AtPath
      /\ file' = file /\ node' = node /\ late' = late /\ edits' = edits
      /\ rewritten' = rewritten /\ up \in Uploads
  BY DEF UploadInv, Typed, OpenToSend
<1>2. file \in Seq(Block) /\ AtPath # Closed
  BY <1>1, ContentIs, OriginalAssumption DEF UploadInv, Typed, OriginalTypeOK
<1>3. up' = [up EXCEPT !.at = "send"] /\ up.parts = 0 /\ up.sent = << >>
  BY <1>1 DEF OpenToSend, UploadInv, Underway, Busy
<1>4. /\ up' \in Uploads /\ up'.at = "send" /\ up'.size = up.size /\ up'.hashed = up.hashed
      /\ up'.parts = 0 /\ up'.sent = << >>
  BY <1>1, <1>3 DEF Uploads, Busy
<1>5. OriginalTypeOK' /\ Handles'
  BY <1>1, <1>2, <1>4 DEF UploadInv, Typed, OriginalTypeOK, Handles
<1>6. Underway'
  <2>1. up.size \in Nat \ {0} /\ PartSize \in Nat \ {0} /\ TotalParts \in Nat \ {0}
    BY <1>1, PartsAre DEF Busy
  <2>2. PartSize' = PartSize /\ TotalParts' = TotalParts
    BY <1>4, SizesStay
  <2>3. Offset' = 0
    BY <1>4, <2>1, <2>2 DEF Offset
  <2>4. Least(Offset', up'.size) = 0
    BY <1>4, <2>1, <2>3 DEF Least
  <2>5. Len(up'.sent) = 0
    BY <1>4, EmptyIsStored
  <2>6. up'.parts <= TotalParts'
    BY <1>4, <2>1, <2>2
  <2>7. QED BY <1>4, <2>1, <2>4, <2>5, <2>6 DEF Underway, Busy
<1>7. ASSUME ~rewritten' PROVE OnlyGrown'
  <2>1. IsPrefix(up.hashed, file) /\ up.size <= Len(up.hashed)
    BY <1>1, <1>7 DEF UploadInv, OnlyGrown, Hashed
  <2>2. up.hashed \in Seq(Block)
    BY <1>1, StoredIs DEF Uploads
  <2>3. up.hashed = file
    BY <1>1, <1>2, <2>1, <2>2, WholePrefix
  <2>4. IsPrefix(<< >>, up.hashed)
    BY <2>2, EmptyPrefix
  <2>5. QED BY <1>1, <1>4, <1>7, <2>1, <2>3, <2>4
            DEF UploadInv, OnlyGrown, Busy, Hashed
<1>8. QED BY <1>1, <1>4, <1>5, <1>6, <1>7 DEF UploadInv, Typed

(* Where the next part begins and ends.                                    *)
LEMMA NextPart ==
    ASSUME UploadInv, up.at = "send", up.parts < TotalParts
    PROVE  /\ up.sent \in Seq(Block) /\ Len(up.sent) = Offset
           /\ Offset \in Nat /\ Offset <= PartEnd /\ PartEnd <= up.size
           /\ PartEnd = Least((up.parts + 1) * PartSize, up.size)
<1>1. up.size \in Nat \ {0} /\ PartSize \in Nat \ {0} /\ up.parts \in Nat
      /\ up.sent \in Stored
  BY PartsAre DEF UploadInv, Typed, Uploads, Busy
<1>2. Offset \in Nat /\ (up.parts + 1) * PartSize = Offset + PartSize /\ Offset < up.size
  BY <1>1, PartsAhead DEF Offset, TotalParts
<1>3. Len(up.sent) = Least(Offset, up.size)
  BY DEF UploadInv, Underway
<1>4. up.sent \in Seq(Block)
  BY <1>1, StoredIs
<1>5. PartEnd = IF PartSize < up.size - Offset THEN Offset + PartSize ELSE up.size
  BY <1>1, <1>2 DEF PartEnd, Least
<1>6. Least(Offset + PartSize, up.size)
      = IF Offset + PartSize < up.size THEN Offset + PartSize ELSE up.size
  BY DEF Least
<1>7. Least(Offset, up.size) = Offset
  BY <1>2 DEF Least
<1>8. QED BY <1>1, <1>2, <1>3, <1>4, <1>5, <1>6, <1>7

LEMMA SendPartKeepsInv ==
    ASSUME UploadInv, SendPart
    PROVE  UploadInv'
<1> DEFINE t == up.sent \o SubSeq(Seen, Offset + 1, PartEnd)
<1>1. up.at = "send" /\ up.parts < TotalParts /\ Len(Seen) >= PartEnd /\ file' = file
      /\ node' = node /\ held' = held /\ late' = late /\ edits' = edits
      /\ rewritten' = rewritten /\ up \in Uploads
  BY DEF UploadInv, Typed, SendPart, originalVars
<1>2. /\ up.sent \in Seq(Block) /\ Len(up.sent) = Offset
      /\ Offset \in Nat /\ Offset <= PartEnd /\ PartEnd <= up.size
      /\ PartEnd = Least((up.parts + 1) * PartSize, up.size)
  BY <1>1, NextPart
<1>3. Seen \in Seq(Block) /\ Len(Seen) \in Nat /\ (~rewritten => Seen = file)
  BY <1>1, SeenIs, ContentIs, LenProperties
<1>4. up.size \in Nat \ {0} /\ PartSize \in Nat \ {0} /\ TotalParts \in Nat \ {0}
      /\ up.parts \in Nat /\ MaxBlocks \in Nat /\ up.size <= MaxBlocks
  BY <1>1, PartsAre, OriginalAssumption DEF Uploads, Busy
<1>5. PartEnd \in Nat /\ PartEnd <= Len(Seen)
  <2>1. (up.parts + 1) * PartSize \in Nat
    BY <1>4
  <2>2. QED BY <1>1, <1>2, <1>3, <1>4, <2>1 DEF Least
<1>6. /\ t \in Seq(Block) /\ Len(t) = PartEnd
      /\ \A i \in 1 .. PartEnd : t[i] = IF i <= Len(up.sent) THEN up.sent[i] ELSE Seen[i]
  <2>1. t = Continued(up.sent, Seen, PartEnd)
    BY <1>2 DEF Continued
  <2> HIDE DEF t
  <2>2. Len(up.sent) <= PartEnd
    BY <1>2
  <2>3. \A u, v \in Seq(Block), n \in Nat : Len(u) <= n /\ n <= Len(v) =>
           /\ Continued(u, v, n) \in Seq(Block) /\ Len(Continued(u, v, n)) = n
           /\ \A i \in 1 .. n : Continued(u, v, n)[i] = IF i <= Len(u) THEN u[i] ELSE v[i]
    BY PartAppended
  <2>4. /\ up.sent \in Seq(Block) /\ Seen \in Seq(Block) /\ PartEnd \in Nat
        /\ PartEnd <= Len(Seen)
    BY <1>2, <1>3, <1>5
  <2>5. QED BY <2>1, <2>2, <2>3, <2>4
<1>8. up' = [up EXCEPT !.parts = @ + 1, !.attempt = 1, !.sent = t]
  BY DEF SendPart
<1> HIDE DEF t
<1>7. t \in Stored
  <2>1. PartEnd \in 0..MaxBlocks
    BY <1>2, <1>4, <1>5
  <2>2. QED BY <1>6, <2>1, StoredIs
<1>9. /\ up' \in Uploads /\ up'.at = "send" /\ up'.size = up.size /\ up'.hashed = up.hashed
      /\ up'.parts = up.parts + 1 /\ up'.sent = t
  <2>1. 1 \in 1..maxAttempts /\ up.parts + 1 \in Nat
    BY <1>4, UploadAssumption
  <2>2. QED BY <1>1, <1>7, <1>8, <2>1 DEF Uploads
<1>10. OriginalTypeOK' /\ Handles'
  BY <1>1, <1>9 DEF UploadInv, Typed, OriginalTypeOK, Handles
<1>11. Underway'
  <2>1. PartSize' = PartSize /\ TotalParts' = TotalParts
    BY <1>9, SizesStay
  <2>2. Offset' = (up.parts + 1) * PartSize
    BY <1>9, <2>1 DEF Offset
  <2>3. Len(up'.sent) = Least(Offset', up'.size)
    BY <1>2, <1>6, <1>9, <2>2
  <2>4. up'.parts <= TotalParts'
    BY <1>1, <1>4, <1>9, <2>1
  <2>5. QED BY <1>4, <1>9, <2>3, <2>4 DEF Underway, Busy
<1>12. ASSUME ~rewritten' PROVE OnlyGrown'
  <2>1. OnlyGrown /\ Seen = file
    BY <1>1, <1>3, <1>12 DEF UploadInv
  <2>2. Len(up.hashed) = up.size /\ IsPrefix(up.sent, up.hashed) /\ IsPrefix(up.hashed, file)
    BY <1>1, <2>1 DEF OnlyGrown, Hashed
  <2>3. up.hashed \in Seq(Block) /\ file \in Seq(Block)
    BY <1>1, <1>3, <2>1, StoredIs DEF Uploads
  <2>4. \A i \in 1 .. Len(up.sent) : up.sent[i] = up.hashed[i]
    BY <1>2, <2>2, <2>3, PrefixIs
  <2>5. \A i \in 1 .. Len(up.hashed) : up.hashed[i] = file[i]
    BY <2>2, <2>3, PrefixIs
  <2>6. \A i \in 1 .. Len(t) : t[i] = up.hashed[i]
    BY <1>2, <1>4, <1>5, <1>6, <2>1, <2>2, <2>4, <2>5
  <2>7. Len(t) <= Len(up.hashed)
    BY <1>2, <1>6, <2>2
  <2>8. IsPrefix(t, up.hashed)
    BY <1>6, <2>3, <2>6, <2>7, PrefixIs
  <2>9. QED BY <1>1, <1>9, <2>1, <2>2, <2>8 DEF OnlyGrown, Busy, Hashed
<1>13. QED BY <1>1, <1>9, <1>10, <1>11, <1>12 DEF UploadInv, Typed

LEMMA RetryPartKeepsInv ==
    ASSUME UploadInv, RetryPart
    PROVE  UploadInv'
<1>1. up.at = "send" /\ up.attempt < maxAttempts /\ UNCHANGED <<node, originalVars>>
      /\ up \in Uploads /\ up' = [up EXCEPT !.attempt = @ + 1]
  BY DEF UploadInv, Typed, RetryPart
<1>2. up.attempt + 1 \in 1..maxAttempts
  BY <1>1, UploadAssumption DEF Uploads
<1>3. /\ up' \in Uploads /\ up'.at = "send" /\ up'.size = up.size /\ up'.hashed = up.hashed
      /\ up'.parts = up.parts /\ up'.sent = up.sent
  BY <1>1, <1>2 DEF Uploads
<1>4. OriginalTypeOK' /\ Handles'
  BY <1>1, <1>3 DEF UploadInv, Typed, OriginalTypeOK, Handles, originalVars
<1>5. PartSize' = PartSize /\ TotalParts' = TotalParts
  BY <1>3, SizesStay
<1>6. Offset' = Offset
  BY <1>3, <1>5 DEF Offset
<1>7. Underway'
  BY <1>1, <1>3, <1>5, <1>6 DEF UploadInv, Underway, Busy
<1>8. ASSUME ~rewritten' PROVE OnlyGrown'
  BY <1>1, <1>3, <1>8 DEF UploadInv, OnlyGrown, Busy, Hashed, originalVars
<1>9. QED BY <1>1, <1>3, <1>4, <1>7, <1>8 DEF UploadInv, Typed

(* All parts together are the file as it was hashed.                       *)
LEMMA SentIsHashed ==
    ASSUME UploadInv, up.at = "send", up.parts = TotalParts, ~rewritten
    PROVE  up.sent = up.hashed
<1>1. up.size \in Nat \ {0} /\ PartSize \in Nat \ {0} /\ up.parts \in Nat
      /\ up.sent \in Seq(Block) /\ up.hashed \in Seq(Block)
  BY PartsAre, StoredIs DEF UploadInv, Typed, Uploads, Busy
<1>2. Offset \in Nat /\ up.size <= Offset
  BY <1>1, PartsAhead DEF Offset, TotalParts
<1>3. Len(up.sent) = Least(Offset, up.size)
  BY DEF UploadInv, Underway
<1>4. Len(up.sent) = up.size
  BY <1>1, <1>2, <1>3 DEF Least
<1>5. Len(up.hashed) = up.size /\ IsPrefix(up.sent, up.hashed)
  BY DEF UploadInv, OnlyGrown
<1>6. Len(up.hashed) <= Len(up.sent)
  BY <1>1, <1>4, <1>5
<1>7. QED BY <1>1, <1>5, <1>6, WholePrefix

LEMMA CompleteKeepsInv ==
    ASSUME UploadInv, Complete
    PROVE  UploadInv'
<1>1. up.at = "send" /\ up.parts = TotalParts /\ held' = Closed /\ file' = file
      /\ late' = late /\ edits' = edits /\ rewritten' = rewritten
      /\ up \in Uploads /\ node \in [PickCode -> Stored \cup {none}]
  BY DEF UploadInv, Typed, Complete
<1>2. PICK p \in FreshCode :
        /\ node' = [node EXCEPT ![p] = up.sent]
        /\ up' \in {[up EXCEPT !.at = "done", !.pickCode = p], [NoUpload EXCEPT !.at = "failed"]}
  BY DEF Complete
<1>3. p \in PickCode
  BY DEF FreshCode
<1>4. node' \in [PickCode -> Stored \cup {none}] /\ node'[p] = up.sent
  BY <1>1, <1>2, <1>3 DEF Uploads
<1>5. CASE up' = [up EXCEPT !.at = "done", !.pickCode = p]
  <2>1. up' \in Uploads /\ up'.at = "done" /\ up'.pickCode = p /\ up'.hashed = up.hashed
    BY <1>1, <1>3, <1>5 DEF Uploads
  <2>2. OriginalTypeOK' /\ Handles'
    BY <1>1, <2>1, OriginalAssumption DEF UploadInv, Typed, OriginalTypeOK, Handles
  <2>3. Underway'
    BY <1>3, <2>1 DEF Underway, Busy
  <2>4. ~rewritten' => OnlyGrown'
    BY <1>1, <1>4, <2>1, SentIsHashed DEF OnlyGrown, Busy, Hashed
  <2>5. QED BY <1>4, <2>1, <2>2, <2>3, <2>4 DEF UploadInv, Typed
<1>6. CASE up' = [NoUpload EXCEPT !.at = "failed"]
  BY <1>1, <1>4, <1>6, OverKeepsInv DEF UploadInv, Typed, OriginalTypeOK
<1>7. QED BY <1>2, <1>5, <1>6

LEMMA EndsKeepInv ==
    ASSUME UploadInv, UploadFails \/ UploadOver
    PROVE  UploadInv'
<1>1. CASE UploadFails
  BY <1>1, OverKeepsInv DEF UploadFails, UploadInv, Typed, OriginalTypeOK
<1>2. CASE UploadOver
  <2>1. held = Closed
    BY <1>2 DEF UploadOver, UploadInv, Handles
  <2>2. QED BY <1>2, <2>1, OverKeepsInv DEF UploadOver, UploadInv, Typed
<1>3. QED BY <1>1, <1>2

LEMMA NextKeepsInv ==
    ASSUME UploadInv, [UploadNext]_<<originalVars, uploadVars>>
    PROVE  UploadInv'
<1>1. CASE UNCHANGED <<originalVars, uploadVars>>
  BY <1>1 DEF originalVars, uploadVars, UploadInv, Typed, OriginalTypeOK, Handles, Underway,
              OnlyGrown, Offset, PartSize, InParts, TotalParts
<1>2. CASE User /\ UNCHANGED uploadVars
  BY <1>2, UserKeepsInv
<1>3. CASE StatSize \/ UploadStep \/ UploadOver
  BY <1>3, StatSizeKeepsInv, OpenToHashKeepsInv, HashBlockKeepsInv, HashEndsKeepsInv,
     InstantHitKeepsInv, DemandsProofKeepsInv, ProveKeepsInv, GoesOnKeepsInv,
     OpenToSendKeepsInv, SendPartKeepsInv, RetryPartKeepsInv, CompleteKeepsInv, EndsKeepInv
     DEF UploadStep
<1>4. QED BY <1>1, <1>2, <1>3 DEF UploadNext

(* The fields of an upload, the sequences in it and the nodes stay what    *)
(* they are, and no more proofs are asked for and attempts made than are   *)
(* allowed (upload.go: maxUploadRetries, and the attempts of a part).      *)
THEOREM UploadTypes == UploadSpec => []UploadTypeOK
<1>1. UploadInv => UploadTypeOK
  BY DEF UploadInv, Typed, Uploads, Busy, Stored, UploadTypeOK
<1>2. QED BY <1>1, UploadInitInv, NextKeepsInv, PTL DEF UploadSpec

(* What is stored under the declared hash has that hash unless the file    *)
(* was rewritten: whatever the sizes of the parts, however the file grows  *)
(* between stat, hash, open and parts (upload.go: uploadByOSS).            *)
THEOREM HashIsContentHolds == UploadSpec => []HashIsContent
<1>1. UploadInv => HashIsContent
  BY DEF UploadInv, OnlyGrown, HashIsContent
<1>2. QED BY <1>1, UploadInitInv, NextKeepsInv, PTL DEF UploadSpec

-----------------------------------------------------------------------------
(* Safety of Transfer: each step of an upload is one of Transfer, or none. *)
TransferNow == [at |-> progress, pickCode |-> up.pickCode,
                read |-> IF progress \in {"storing", "done"} THEN up.hashed ELSE << >>]

abstractVars == <<Abstract!originalVars, Abstract!transferVars>>

LEMMA AnyContentIs == Abstract!AnyContent = Stored
BY DEF Abstract!AnyContent, Abstract!BoundedSeq, Abstract!SeqOf, BoundedSeq, SeqOf, Stored

(* What Transfer sees of a state.                                          *)
LEMMA NowIs ==
    /\ up.at = "idle" => progress = "idle"
    /\ up.at \in {"hash", "read"} => progress = "reading"
    /\ up.at \in Hashed => progress = "storing"
    /\ up.at = "done" => progress = "done"
    /\ up.at = "failed" => progress = "failed"
    /\ TransferNow.at = progress /\ TransferNow.pickCode = up.pickCode
    /\ progress \in {"storing", "done"} => TransferNow.read = up.hashed
    /\ progress \notin {"storing", "done"} => TransferNow.read = << >>
BY DEF TransferNow, progress, Hashed

LEMMA IdleIsNoTransfer ==
    /\ up = NoUpload => TransferNow = Abstract!NoTransfer
    /\ up = [NoUpload EXCEPT !.at = "failed"]
         => TransferNow = [Abstract!NoTransfer EXCEPT !.at = "failed"]
BY DEF TransferNow, progress, NoUpload, Abstract!NoTransfer

LEMMA IdleIsNoTransferNext ==
    /\ up' = NoUpload => TransferNow' = Abstract!NoTransfer
    /\ up' = [NoUpload EXCEPT !.at = "failed"]
         => TransferNow' = [Abstract!NoTransfer EXCEPT !.at = "failed"]
BY DEF TransferNow, progress, NoUpload, Abstract!NoTransfer

LEMMA InitImplements ==
    UploadInit => Abstract!OriginalInit /\ Abstract!TransferInit
<1>1. UploadInit => TransferNow = Abstract!NoTransfer
  BY IdleIsNoTransfer DEF UploadInit
<1>2. QED BY <1>1 DEF UploadInit, OriginalInit, Abstract!OriginalInit,
               Abstract!TransferInit, TransferNow

(* The steps that Transfer does not see.                                   *)
LEMMA UnseenSteps ==
    ASSUME UploadInv,
           \/ OpenToHash \/ HashBlock \/ DemandsProof \/ ToBeSent \/ GetToken
           \/ OpenToSend \/ SendPart \/ RetryPart \/ (Prove /\ up.inits < maxUploadRetries)
    PROVE  UNCHANGED abstractVars
<1>1. up \in Uploads
  BY DEF UploadInv, Typed
<1>2. /\ node' = node /\ file' = file /\ rewritten' = rewritten /\ late' = late
      /\ edits' = edits
  BY DEF OpenToHash, HashBlock, DemandsProof, ToBeSent, GetToken, OpenToSend, SendPart,
         RetryPart, Prove, originalVars
<1>3. /\ up'.pickCode = up.pickCode
      /\ \/ up.at \in {"hash", "read"} /\ up'.at = "read"
         \/ up.at \in Hashed /\ up'.at \in Hashed /\ up'.hashed = up.hashed
  BY <1>1 DEF OpenToHash, HashBlock, DemandsProof, ToBeSent, GetToken, OpenToSend, SendPart,
              RetryPart, Prove, Uploads, Hashed
<1>4. progress' = progress
      /\ (progress \in {"storing", "done"} => up'.hashed = up.hashed)
  BY <1>3 DEF progress, Hashed
<1>5. TransferNow' = TransferNow
  BY <1>3, <1>4 DEF TransferNow
<1>6. QED BY <1>2, <1>5 DEF abstractVars, Abstract!originalVars, Abstract!transferVars,
               TransferNow

LEMMA StatIsStart ==
    ASSUME UploadInv, StatSize
    PROVE  Abstract!Start
<1>1. up' = [NoUpload EXCEPT !.at = "hash", !.size = Len(file)] /\ up.at = "idle"
  BY DEF StatSize
<1>2. TransferNow' = [Abstract!NoTransfer EXCEPT !.at = "reading"]
  BY <1>1 DEF TransferNow, progress, NoUpload, Abstract!NoTransfer
<1>3. TransferNow.at = "idle"
  BY <1>1, NowIs
<1>4. QED BY <1>2, <1>3 DEF Abstract!Start, StatSize, TransferNow

(* The updates of Transfer's record, field by field.                       *)
Rec(at, code, read) == [at |-> at, pickCode |-> code, read |-> read]
WithRead(r, c) == [r EXCEPT !.at = "storing", !.read = c]
WithCode(r, p) == [r EXCEPT !.at = "done", !.pickCode = p]

LEMMA RecordUpdates ==
    ASSUME NEW at, NEW code, NEW read, NEW t
    PROVE  /\ WithRead(Rec(at, code, read), t) = Rec("storing", code, t)
           /\ WithCode(Rec(at, code, read), t) = Rec("done", t, read)
<1> DEFINE R == [at |-> at, pickCode |-> code, read |-> read]
           S == [at : {at, "storing", "done"}, pickCode : {code, t}, read : {read, t}]
<1>1. R \in S /\ R.pickCode = code /\ R.read = read
  OBVIOUS
<1> HIDE DEF R
<1>2. [R EXCEPT !.at = "storing", !.read = t] \in S
      /\ [R EXCEPT !.at = "done", !.pickCode = t] \in S
  BY <1>1
<1>3. /\ [at |-> "storing", pickCode |-> code, read |-> t] \in S
      /\ [at |-> "done", pickCode |-> t, read |-> read] \in S
  OBVIOUS
<1>4. [R EXCEPT !.at = "storing", !.read = t] = [at |-> "storing", pickCode |-> code, read |-> t]
  BY <1>1, <1>2, <1>3
<1>5. [R EXCEPT !.at = "done", !.pickCode = t] = [at |-> "done", pickCode |-> t, read |-> read]
  BY <1>1, <1>2, <1>3
<1>6. QED BY <1>4, <1>5 DEF R, Rec, WithRead, WithCode

LEMMA HashEndsIsRead ==
    ASSUME UploadInv, HashEnds
    PROVE  Abstract!Read
<1>1. up.at = "read" /\ Len(up.hashed) >= Len(Seen) /\ up \in Uploads
  BY DEF HashEnds, UploadInv, Typed
<1>2. up' = [up EXCEPT !.at = "init"]
  BY DEF HashEnds
<1>3. TransferNow.at = "reading"
  BY <1>1, NowIs
<1>4. TransferNow' = [TransferNow EXCEPT !.at = "storing", !.read = up.hashed]
  <2>1. up'.at = "init" /\ up'.pickCode = up.pickCode /\ up'.hashed = up.hashed
    BY <1>1, <1>2 DEF Uploads
  <2>2. progress' = "storing" /\ progress = "reading"
    BY <1>1, <2>1 DEF progress
  <2>3. TransferNow = Rec("reading", up.pickCode, << >>)
    BY <2>2 DEF TransferNow, Rec
  <2>4. TransferNow' = Rec("storing", up.pickCode, up.hashed)
    BY <2>1, <2>2 DEF TransferNow, Rec
  <2>5. TransferNow' = WithRead(TransferNow, up.hashed)
    BY <2>3, <2>4, RecordUpdates
  <2>6. QED BY <2>5 DEF WithRead
<1>5. up.hashed \in Stored /\ (~rewritten => up.hashed = file)
  <2>1. up.hashed \in Stored /\ up.hashed \in Seq(Block) /\ Len(up.hashed) \in Nat
    BY <1>1, StoredIs, LenProperties DEF Uploads
  <2>2. Seen \in Seq(Block) /\ Len(Seen) \in Nat /\ (~rewritten => Seen = file)
    BY <1>1, SeenIs, ContentIs, LenProperties
  <2>3. ~rewritten => IsPrefix(up.hashed, file)
    BY <1>1 DEF UploadInv, OnlyGrown
  <2>4. QED BY <1>1, <2>1, <2>2, <2>3, WholePrefix
<1>6. up.hashed \in IF rewritten THEN Abstract!AnyContent ELSE {file}
  BY <1>5, AnyContentIs
<1>7. QED BY <1>3, <1>4, <1>6 DEF Abstract!Read, HashEnds, TransferNow

LEMMA StoringSteps ==
    ASSUME UploadInv, InstantHit \/ Complete
    PROVE  Abstract!Store
<1> DEFINE c == IF up.at = "init" THEN up.hashed ELSE up.sent
<1>1. up \in Uploads /\ up.at \in {"init", "send"} /\ UNCHANGED <<file, rewritten, late, edits>>
  BY DEF UploadInv, Typed, InstantHit, Complete, originalVars
<1>2. PICK p \in PickCode :
        /\ node[p] \in {none, c}
        /\ node' = [node EXCEPT ![p] = c]
        /\ up' \in {[up EXCEPT !.at = "done", !.pickCode = p], [NoUpload EXCEPT !.at = "failed"]}
  BY DEF InstantHit, Complete, FreshCode
<1>3. c \in Stored /\ (~rewritten => c = up.hashed)
  <2>1. CASE Complete
    BY <1>1, <2>1, SentIsHashed DEF Complete, Uploads
  <2>2. CASE InstantHit
    BY <1>1, <2>2 DEF InstantHit, Uploads
  <2>3. QED BY <2>1, <2>2
<1> HIDE DEF c
<1>4. TransferNow.at = "storing" /\ TransferNow.read = up.hashed
  BY <1>1, NowIs DEF Hashed
<1>5. TransferNow' \in {[TransferNow EXCEPT !.at = "done", !.pickCode = p],
                        [Abstract!NoTransfer EXCEPT !.at = "failed"]}
  <2>1. CASE up' = [up EXCEPT !.at = "done", !.pickCode = p]
    <3>1. up'.at = "done" /\ up'.pickCode = p /\ up'.hashed = up.hashed
      BY <1>1, <2>1 DEF Uploads
    <3>2. progress' = "done" /\ progress = "storing"
      BY <1>1, <3>1 DEF progress
    <3>3. TransferNow = Rec("storing", up.pickCode, up.hashed)
      BY <3>2 DEF TransferNow, Rec
    <3>4. TransferNow' = Rec("done", p, up.hashed)
      BY <3>1, <3>2 DEF TransferNow, Rec
    <3>5. TransferNow' = WithCode(TransferNow, p)
      BY <3>3, <3>4, RecordUpdates
    <3>6. QED BY <3>5 DEF WithCode
  <2>2. CASE up' = [NoUpload EXCEPT !.at = "failed"]
    BY <2>2, IdleIsNoTransferNext
  <2>3. QED BY <1>2, <2>1, <2>2
<1>6. c \in IF rewritten THEN Abstract!AnyContent ELSE {TransferNow.read}
  BY <1>3, <1>4, AnyContentIs
<1>7. QED BY <1>1, <1>2, <1>4, <1>5, <1>6
          DEF Abstract!Store, Abstract!originalVars, TransferNow

LEMMA FailingSteps ==
    ASSUME UploadInv, UploadFails \/ (Prove /\ ~(up.inits < maxUploadRetries))
    PROVE  Abstract!Fail
<1>1. up' = [NoUpload EXCEPT !.at = "failed"] /\ up \in Uploads
      /\ up.at \in Busy /\ UNCHANGED <<node, file, rewritten, late, edits>>
  BY DEF UploadInv, Typed, Uploads, UploadFails, Prove, originalVars, Busy
<1>2. TransferNow.at \in {"reading", "storing"}
  BY <1>1, NowIs DEF Busy, Hashed
<1>3. TransferNow' = [Abstract!NoTransfer EXCEPT !.at = "failed"]
  BY <1>1, IdleIsNoTransferNext
<1>4. QED BY <1>1, <1>2, <1>3 DEF Abstract!Fail, Abstract!originalVars, TransferNow

LEMMA OverIsTaken ==
    ASSUME UploadOver
    PROVE  Abstract!Taken
<1>1. TransferNow.at \in {"done", "failed"}
  BY NowIs DEF UploadOver
<1>2. TransferNow' = Abstract!NoTransfer
  BY IdleIsNoTransferNext DEF UploadOver
<1>3. QED BY <1>1, <1>2 DEF UploadOver, Abstract!Taken, TransferNow

(* Of the user's steps Transfer sees the file only.                        *)
LEMMA UserIsUser ==
    ASSUME User, UNCHANGED uploadVars
    PROVE  Abstract!User /\ UNCHANGED Abstract!transferVars
<1>1. UNCHANGED Abstract!transferVars
  BY DEF uploadVars, Abstract!transferVars, progress
<1>2. Closed = Abstract!Detached
  BY OriginalAssumption DEF Abstract!Detached
<1>3. Abstract!User
  BY <1>2 DEF User, Write, Replace, Unlink, Edited, IsPrefix, Abstract!User, Abstract!Write,
              Abstract!Replace, Abstract!Unlink, Abstract!Edited, Abstract!IsPrefix
<1>4. QED BY <1>1, <1>3

(* The exchange with the service keeps what Transfer promises, as far as   *)
(* that is safety: it starts as Transfer starts and each of its steps is   *)
(* one of Transfer or changes nothing that Transfer speaks of (upload.go:  *)
(* UploadHelper). That it ends is fairness and is left to TLC.             *)
THEOREM UploadKeepsTransfer ==
    UploadSpec => /\ Abstract!OriginalInit /\ Abstract!TransferInit
                  /\ [][Abstract!TransferNext]_<<Abstract!originalVars, Abstract!transferVars>>
<1>1. ASSUME UploadInv, [UploadNext]_<<originalVars, uploadVars>>
      PROVE  [Abstract!TransferNext]_<<Abstract!originalVars, Abstract!transferVars>>
  <2>1. CASE UNCHANGED <<originalVars, uploadVars>>
    BY <2>1 DEF originalVars, uploadVars, Abstract!originalVars, Abstract!transferVars,
                progress
  <2>2. CASE User /\ UNCHANGED uploadVars
    BY <2>2, UserIsUser DEF Abstract!TransferNext
  <2>3. CASE StatSize \/ UploadOver
    BY <1>1, <2>3, StatIsStart, OverIsTaken DEF Abstract!TransferNext
  <2>4. CASE UploadStep
    <3>1. CASE HashEnds \/ InstantHit \/ Complete \/ UploadFails
               \/ (Prove /\ ~(up.inits < maxUploadRetries))
      BY <1>1, <3>1, HashEndsIsRead, StoringSteps, FailingSteps
         DEF Abstract!TransferNext, Abstract!TransferStep
    <3>2. CASE \/ OpenToHash \/ HashBlock \/ DemandsProof \/ ToBeSent \/ GetToken
               \/ OpenToSend \/ SendPart \/ RetryPart
               \/ (Prove /\ up.inits < maxUploadRetries)
      BY <1>1, <3>2, UnseenSteps DEF abstractVars
    <3>3. QED BY <2>4, <3>1, <3>2 DEF UploadStep
  <2>5. QED BY <1>1, <2>1, <2>2, <2>3, <2>4 DEF UploadNext
<1>2. QED BY <1>1, InitImplements, UploadInitInv, NextKeepsInv, PTL DEF UploadSpec

-----------------------------------------------------------------------------
(* The sizes that the code uses (upload.go, calcPartSize and the loop of   *)
(* multipartUpload), in bytes: the service takes at most 10000 parts, and  *)
(* the parts must make up the file.                                        *)
mb == 1024 * 1024
gb == 1024 * mb
tb == 1024 * gb

partSizeOf(fileSize) ==
    IF fileSize > tb THEN 5 * gb
    ELSE IF fileSize > 768 * gb THEN 109951163
    ELSE IF fileSize > 512 * gb THEN 82463373
    ELSE IF fileSize > 384 * gb THEN 54975582
    ELSE IF fileSize > 256 * gb THEN 41231687
    ELSE IF fileSize > 128 * gb THEN 27487791
    ELSE 20 * mb

totalParts(fileSize) == (fileSize + partSizeOf(fileSize) - 1) \div partSizeOf(fileSize)

(* The part number i, counted from 0, of a file.                           *)
offset(fileSize, i) == i * partSizeOf(fileSize)
least(a, b) == IF a < b THEN a ELSE b
curSize(fileSize, i) == least(partSizeOf(fileSize), fileSize - offset(fileSize, i))

MaxParts == 10000
MaxFile == MaxParts * 5 * gb

LEMMA Units ==
    /\ gb = 1073741824 /\ tb = 1099511627776 /\ 20 * mb = 20971520
    /\ MaxFile = 53687091200000 /\ MaxParts = 10000
BY SMT DEF mb, gb, tb, MaxFile, MaxParts

LEMMA PartSizeIsPositive ==
    \A n \in Nat : partSizeOf(n) \in Nat \ {0}
BY SMT DEF partSizeOf, mb, gb, tb

(* The size the code uses is one that the upload above may have.            *)
LEMMA CodeIsAssumed ==
    \A max \in Nat : [n \in 1..max |-> partSizeOf(n)] \in [1..max -> Nat \ {0}]
BY PartSizeIsPositive

(* Every class of sizes ends before its part size would need too many.     *)
LEMMA PartsSuffice ==
    ASSUME NEW n \in Nat \ {0}, n <= MaxFile
    PROVE  n <= MaxParts * partSizeOf(n)
BY SMT, Units DEF partSizeOf

LEMMA NoMoreThanNeeded ==
    ASSUME NEW q \in Nat, NEW s \in Nat \ {0}, NEW k \in Nat, (q - 1) * s < k * s
    PROVE  q <= k
<1>1. SUFFICES ASSUME q > k PROVE FALSE
  OBVIOUS
<1>2. k * s <= (q - 1) * s
  BY <1>1
<1> QED BY <1>2

(* The service's limit on the number of parts is kept for every file it    *)
(* can hold, 10000 parts of 5 GB, across all the thresholds.               *)
THEOREM PartsAreFewEnough ==
    ASSUME NEW n \in Nat \ {0}, n <= MaxFile
    PROVE  totalParts(n) \in 1..MaxParts
<1> DEFINE s == partSizeOf(n)
<1>1. MaxParts \in Nat
  BY SMT, Units
<1>2. s \in Nat \ {0}
  BY PartSizeIsPositive
<1>3. totalParts(n) \in Nat \ {0} /\ (totalParts(n) - 1) * s < n
  BY <1>2, RoundedUp DEF totalParts
<1>4. n <= MaxParts * s
  BY PartsSuffice
<1> HIDE DEF s
<1>5. (totalParts(n) - 1) * s < MaxParts * s
  BY <1>1, <1>2, <1>3, <1>4
<1>6. totalParts(n) <= MaxParts
  BY <1>1, <1>2, <1>3, <1>5, NoMoreThanNeeded
<1> QED BY <1>1, <1>3, <1>6

(* The parts of multipartUpload lie next to each other, none is empty or   *)
(* longer than the part size, and they end where the file ends: every byte *)
(* is in exactly one part, for a file of any size.                         *)
THEOREM PartsMakeUpTheFile ==
    ASSUME NEW n \in Nat \ {0}
    PROVE  /\ \A i \in 0..totalParts(n) - 1 : curSize(n, i) \in 1..partSizeOf(n)
           /\ \A i \in 0..totalParts(n) - 2 :
                 offset(n, i) + curSize(n, i) = offset(n, i + 1)
           /\ offset(n, totalParts(n) - 1) + curSize(n, totalParts(n) - 1) = n
<1> DEFINE s == partSizeOf(n)
           t == totalParts(n)
<1>1. s \in Nat \ {0}
  BY PartSizeIsPositive
<1>2. t \in Nat \ {0} /\ n <= t * s /\ (t - 1) * s < n
  BY <1>1, RoundedUp DEF totalParts
<1>3. offset(n, t - 1) = (t - 1) * s /\ \A i \in Int : offset(n, i) = i * s
  BY DEF offset
<1>4. \A i \in Int : curSize(n, i) = least(s, n - i * s)
  BY DEF offset, curSize
<1> HIDE DEF s, t
<1>5. \A i \in 0..t - 1 : i * s <= (t - 1) * s /\ (i + 1) * s = i * s + s
  BY <1>1, <1>2
<1>6. \A i \in 0..t - 2 : (i + 1) * s <= (t - 1) * s
  BY <1>1, <1>2
<1>7. \A i \in 0..t - 1 : curSize(n, i) \in 1..s
  <2> SUFFICES ASSUME NEW i \in 0..t - 1 PROVE curSize(n, i) \in 1..s
    OBVIOUS
  <2>1. i * s \in Int /\ (t - 1) * s \in Int /\ i * s < n
    BY <1>1, <1>2, <1>5
  <2> QED BY <1>1, <1>4, <2>1 DEF least
<1>8. \A i \in 0..t - 2 : offset(n, i) + curSize(n, i) = offset(n, i + 1)
  <2> SUFFICES ASSUME NEW i \in 0..t - 2
               PROVE  offset(n, i) + curSize(n, i) = offset(n, i + 1)
    OBVIOUS
  <2>1. i * s \in Int /\ (t - 1) * s \in Int /\ (i + 1) * s = i * s + s /\ (i + 1) * s < n
    BY <1>1, <1>2, <1>5, <1>6
  <2>2. curSize(n, i) = s
    BY <1>1, <1>4, <2>1 DEF least
  <2> QED BY <1>3, <2>1, <2>2
<1>9. offset(n, t - 1) + curSize(n, t - 1) = n
  <2>1. (t - 1) * s \in Int /\ t * s = (t - 1) * s + s
    BY <1>1, <1>2
  <2>2. curSize(n, t - 1) = n - (t - 1) * s
    BY <1>1, <1>2, <1>4, <2>1 DEF least
  <2> QED BY <1>3, <2>1, <2>2
<1> QED BY <1>7, <1>8, <1>9 DEF s, t

=============================================================================
