------------------------------ MODULE TokenPool ------------------------------
(***************************************************************************)
(* internal/github/tokenpool.go: tokens with their rate-limit state, the   *)
(* choice of a token by score, the global cap on requests in flight, and   *)
(* the transport that handles throttling, by waiting and asking again or   *)
(* by moving the request to another token.                                 *)
(*                                                                         *)
(* A Request is one API call.  tryPick holds only the read lock, so its    *)
(* loads of a token's atomics interleave with the other requests' steps:   *)
(* Load reads rateRemaining, Weigh the rest, Reserve adds to inFlight.     *)
(* updateRateLimitHeaders is one step: it stores the reset time before the *)
(* count and a scan loads them in the other order, so a scan sees no pair  *)
(* that it cannot see when both are stored at once.                        *)
(*                                                                         *)
(* Time is counted in abstract units.  GitHub starts a window of length    *)
(* Period with the first request after the last window, and meters no      *)
(* window that would end after MaxTime, so that every wait ends.           *)
(***************************************************************************)
EXTENDS Integers, Sequences, FiniteSets

CONSTANTS
  Token, Request,
  Matching,       \* p.tokens, those whose scopes match the request's repository
  Moved,          \* those whose scopes match the URL that it may be redirected to
  None,
  Cap,            \* globalInFlightCap
  Quota,          \* a window's quota, which a new token is assumed to have
  Threshold,      \* rateLimitThreshold
  MaxReassign,    \* maxRateLimitReassigns
  ServerRetries,  \* 3
  Period, Base, Escalated, RepeatWindow,  \* window, abuseCooldown*, abuseRepeatWindow
  Pause,          \* a wait before asking the same token again
  Fault,          \* the answers other than success that GitHub may give
  MaxFault, MaxDrain, MaxTime   \* bounds

Counted == {"abuse", "throttled", "forbidden", "integration", "moved"}
Uncounted == {"server", "lost", "refresh"}

ASSUME PoolAssumption ==
  /\ IsFiniteSet(Request)
  /\ Matching \in [Request -> Seq(Token)] /\ Moved \in [Request -> Seq(Token)]
  /\ None \notin Token
  /\ Cap \in Nat \ {0} /\ Quota \in Nat \ {0} /\ Threshold \in Nat
  /\ {MaxReassign, ServerRetries, MaxFault, MaxDrain, MaxTime} \subseteq Nat
  /\ {Period, Base, Escalated, RepeatWindow, Pause} \subseteq Nat \ {0}
  /\ Fault \subseteq Counted \cup Uncounted

VARIABLES
  now,
  ends, left,   \* GitHub: when a token's window ends, and what is left of it
  known,        \* the pool's view: rateRemaining and rateResetAt
  abuseUntil,   \* abuseCooldownUntil
  inFlight,     \* ManagedToken.inFlight
  slots,        \* the pool's counting semaphore
  scan,         \* a request's tryPick
  call,         \* a request's RoundTrip
  outcome,      \* what its caller gets
  heard,        \* history: the headers the pool has processed, per token
  barred,       \* history: until when each token was out when a request's scan began
  redirects,    \* history: the redirects that went out with a token
  faults, drains

github == <<ends, left, drains>>
pool   == <<known, abuseUntil, inFlight, slots>>
ghosts == <<heard, barred, redirects>>
vars   == <<now, github, pool, scan, call, outcome, ghosts, faults>>

Header == [remaining : 0..Quota, resetAt : Nat]
NotBarred == [t \in Token |-> 0]
NoScan == [at |-> 1, seen |-> None, best |-> None, score |-> 0, wake |-> None]
NoCall == [stage |-> "idle", tok |-> None, origin |-> None, moved |-> FALSE, mode |-> "first",
           tries |-> 0, attempt |-> 0, wake |-> 0, status |-> None, header |-> None]

ScanState == [at : Nat \ {0}, seen : 0..Quota \cup {None}, best : Token \cup {None},
              score : Int, wake : Nat \cup {None}]

CallState ==
  [stage : {"idle", "scan", "asleep", "queued", "sent", "answered", "backoff", "done"},
   tok : Token \cup {None}, origin : Token \cup {None}, moved : BOOLEAN,
   mode : {"first", "after429", "after403", "after5xx"},
   tries : 0..ServerRetries, attempt : 0..MaxReassign, wake : Nat,
   status : {"ok", "limited", None} \cup Counted \cup Uncounted, header : Header \cup {None}]

TypeOK ==
  /\ now \in Nat /\ faults \in Nat /\ drains \in Nat /\ slots \in 0..Cap
  /\ ends \in [Token -> Nat] /\ left \in [Token -> 0..Quota]
  /\ known \in [Token -> Header] /\ abuseUntil \in [Token -> Nat]
  /\ inFlight \in [Token -> Int]
  /\ scan \in [Request -> ScanState] /\ call \in [Request -> CallState]
  /\ outcome \in [Request -> {"none", "ok", "failed", "limited"} \cup Counted]
  /\ heard \in [Token -> SUBSET Header] /\ barred \in [Request -> [Token -> Nat]]
  /\ redirects \in [Token -> Nat]

\* Every call starts from a pool of fresh tokens (Add*Token).
Init ==
  /\ now = 1
  /\ ends = [t \in Token |-> 0] /\ left = [t \in Token |-> Quota]
  /\ known = [t \in Token |-> [remaining |-> Quota, resetAt |-> 0]]
  /\ abuseUntil = [t \in Token |-> 0]
  /\ inFlight = [t \in Token |-> 0] /\ slots = 0
  /\ scan = [r \in Request |-> NoScan] /\ call = [r \in Request |-> NoCall]
  /\ outcome = [r \in Request |-> "none"]
  /\ heard = [t \in Token |-> {}] /\ barred = [r \in Request |-> NotBarred]
  /\ redirects = [t \in Token |-> 0] /\ faults = 0 /\ drains = 0

Later(x, y) == IF x > y THEN x ELSE y
Stage(r, stage) == call[r].stage = stage
Goto(r, stage) == call' = [call EXCEPT ![r].stage = stage]

-----------------------------------------------------------------------------
(* Pick *)

\* Out of quota in a window that has not ended.
Exhausted(remaining, resetAt) == remaining < Threshold /\ resetAt > now

OutUntil(header, cooldown) ==
  Later(cooldown, IF Exhausted(header.remaining, header.resetAt) THEN header.resetAt ELSE 0)

\* A scan of the tokens begins, for a new call, a woken one, or a re-pick.
Scan(r) ==
  /\ scan' = [scan EXCEPT ![r] = NoScan]
  /\ barred' = [barred EXCEPT ![r] = [t \in Token |-> OutUntil(known'[t], abuseUntil'[t])]]

ScanEnds(r) ==
  /\ scan' = [scan EXCEPT ![r] = NoScan]
  /\ barred' = [barred EXCEPT ![r] = NotBarred]

\* The tokens that a scan looks at: a re-pick takes the repository from the URL that it
\* asks again, which after a redirect is another.
Tokens(r) == IF call[r].moved THEN Moved[r] ELSE Matching[r]

At(r) == Tokens(r)[scan[r].at]

Pick(r) ==
  /\ Stage(r, "idle")
  /\ UNCHANGED <<now, github, pool, outcome, heard, redirects, faults>>
  /\ Goto(r, "scan") /\ Scan(r)

Load(r) ==
  /\ Stage(r, "scan") /\ scan[r].seen = None /\ scan[r].at <= Len(Tokens(r))
  /\ scan' = [scan EXCEPT ![r].seen = known[At(r)].remaining]
  /\ UNCHANGED <<now, github, pool, call, outcome, ghosts, faults>>

Earlier(wake, time) == IF wake = None \/ time < wake THEN time ELSE wake

Weigh(r) ==
  /\ Stage(r, "scan") /\ scan[r].seen # None
  /\ LET t == At(r)
         exhausted == Exhausted(scan[r].seen, known[t].resetAt)
         cooling == abuseUntil[t] > now
         score == scan[r].seen - inFlight[t]
         next == [scan[r] EXCEPT !.at = @ + 1, !.seen = None]
     IN scan' = [scan EXCEPT ![r] =
          CASE exhausted -> [next EXCEPT !.wake = Earlier(@, known[t].resetAt)]
            [] ~exhausted /\ cooling -> [next EXCEPT !.wake = Earlier(@, abuseUntil[t])]
            [] ~exhausted /\ ~cooling /\ (next.best = None \/ score > next.score) ->
                 [next EXCEPT !.best = t, !.score = score]
            [] OTHER -> next]
  /\ UNCHANGED <<now, github, pool, call, outcome, ghosts, faults>>

Scanned(r) == Stage(r, "scan") /\ scan[r].seen = None /\ scan[r].at > Len(Tokens(r))

\* The token is reserved, in a step of its own after the loads.
Reserve(r) ==
  /\ Scanned(r) /\ scan[r].best # None
  /\ LET t == scan[r].best IN
     /\ inFlight' = [inFlight EXCEPT ![t] = @ + 1]
     /\ call' = [call EXCEPT ![r].stage = "queued", ![r].tok = t,
                             ![r].origin = IF call[r].attempt = 0 THEN t ELSE @]
  /\ ScanEnds(r)
  /\ UNCHANGED <<now, github, known, abuseUntil, slots, outcome, heard, redirects, faults>>

WaitForReset(r) ==
  /\ Scanned(r) /\ scan[r].best = None /\ scan[r].wake # None
  /\ call' = [call EXCEPT ![r].stage = "asleep", ![r].wake = scan[r].wake]
  /\ ScanEnds(r)
  /\ UNCHANGED <<now, github, pool, outcome, heard, redirects, faults>>

Wake(r) ==
  /\ Stage(r, "asleep") /\ now >= call[r].wake
  /\ call' = [call EXCEPT ![r].stage = "scan", ![r].wake = 0]
  /\ UNCHANGED <<now, github, pool, outcome, heard, redirects, faults>>
  /\ Scan(r)

\* The mode stays for OnlyServerRetriesLeak.
End(r, result) ==
  /\ call' = [call EXCEPT ![r] = [NoCall EXCEPT !.stage = "done", !.mode = call[r].mode]]
  /\ outcome' = [outcome EXCEPT ![r] = result]

NoToken(r) ==
  /\ Scanned(r) /\ Tokens(r) = <<>>
  /\ End(r, "failed") /\ ScanEnds(r)
  /\ UNCHANGED <<now, github, pool, heard, redirects, faults>>

-----------------------------------------------------------------------------
(* doRoundTrip: the slot, and GitHub's answer *)

Acquire(r) ==
  /\ Stage(r, "queued") /\ slots < Cap
  /\ slots' = slots + 1
  /\ Goto(r, "sent")
  /\ UNCHANGED <<now, github, known, abuseUntil, inFlight, scan, outcome, ghosts, faults>>

Answered(r, status, header) ==
  /\ call' = [call EXCEPT ![r].stage = "answered", ![r].status = status, ![r].header = header]
  /\ UNCHANGED <<now, drains, pool, scan, outcome, ghosts>>

Metered(t) == ends[t] > now
NewWindow(t) == ~Metered(t) /\ now + Period <= MaxTime

\* GitHub counts the request against the token's window and says what is left.
Serve(r) ==
  /\ Stage(r, "sent")
  /\ LET t == call[r].tok IN
     /\ \/ Metered(t) /\ left[t] > 0
           /\ left' = [left EXCEPT ![t] = @ - 1] /\ UNCHANGED ends
        \/ NewWindow(t)
           /\ left' = [left EXCEPT ![t] = Quota - 1] /\ ends' = [ends EXCEPT ![t] = now + Period]
     /\ \E status \in {"ok"} \cup (Fault \cap Counted) :
          /\ status # "ok" => faults < MaxFault
          /\ faults' = IF status = "ok" THEN faults ELSE faults + 1
          /\ Answered(r, status, [remaining |-> left'[t], resetAt |-> ends'[t]])

\* 403 "API rate limit exceeded".
Refuse(r) ==
  /\ Stage(r, "sent")
  /\ LET t == call[r].tok IN
     /\ Metered(t) /\ left[t] = 0
     /\ Answered(r, "limited", [remaining |-> 0, resetAt |-> ends[t]])
  /\ UNCHANGED <<ends, left, faults>>

\* A 5xx of the front end, a transport error, a failed refresh of an installation token.
Break(r) ==
  /\ Stage(r, "sent") /\ faults < MaxFault
  /\ faults' = faults + 1
  /\ \E status \in Fault \cap Uncounted : Answered(r, status, None)
  /\ UNCHANGED <<ends, left>>

\* Beyond the bound on time.
ServeUnmetered(r) ==
  /\ Stage(r, "sent") /\ ~Metered(call[r].tok) /\ ~NewWindow(call[r].tok)
  /\ Answered(r, "ok", None)
  /\ UNCHANGED <<ends, left, faults>>

-----------------------------------------------------------------------------
(* doRoundTrip: the handling of an answer *)

\* Mutant: a late answer of the same window is taken as the newest.
Newest_LastArrived(old, header) ==
  IF header.resetAt >= old.resetAt THEN header ELSE old

\* Answers arrive in any order: within a window the lowest count is the newest.
Newest(old, header) ==
  IF \/ header.resetAt > old.resetAt
     \/ header.resetAt = old.resetAt /\ header.remaining < old.remaining
  THEN header ELSE old

\* updateRateLimitHeaders, which the loop of 5xx retries does not call.
UpdateRateLimitHeaders(r) ==
  LET t == call[r].tok
      header == call[r].header
  IN IF header = None \/ call[r].mode = "after5xx"
     THEN UNCHANGED <<known, heard>>
     ELSE /\ known' = [known EXCEPT ![t] = Newest(@, header)]
          /\ heard' = [heard EXCEPT ![t] = @ \cup {header}]

Got(r, statuses) == Stage(r, "answered") /\ call[r].status \in statuses
Mode(r, modes) == call[r].mode \in modes

\* The two deferred calls of doRoundTrip.
Release(r) ==
  /\ inFlight' = [inFlight EXCEPT ![call[r].tok] = @ - 1]
  /\ slots' = slots - 1

Return(r, result) ==
  /\ Release(r) /\ End(r, result)
  /\ UpdateRateLimitHeaders(r)
  /\ UNCHANGED <<now, github, abuseUntil, scan, barred, redirects, faults>>

Handled(r) == [call[r] EXCEPT !.status = None, !.header = None]

\* The same token is asked again after a wait, in the same slot.
Retry(r, mode) ==
  /\ call' = [call EXCEPT ![r] = [Handled(r) EXCEPT !.stage = "backoff", !.mode = mode, !.wake = now + Pause]]
  /\ UpdateRateLimitHeaders(r)
  /\ UNCHANGED <<now, github, abuseUntil, inFlight, slots, scan, outcome, barred, redirects, faults>>

\* Mutant: the slot is kept for the next doRoundTrip, which acquires another.
Repick_KeepsSlot(r) ==
  /\ inFlight' = [inFlight EXCEPT ![call[r].tok] = @ - 1] /\ UNCHANGED slots
  /\ \/ /\ call[r].attempt < MaxReassign
        /\ call' = [call EXCEPT ![r] = [NoCall EXCEPT !.stage = "scan", !.attempt = call[r].attempt + 1,
                                                      !.origin = call[r].origin, !.moved = call[r].moved]]
        /\ Scan(r)
        /\ UNCHANGED outcome
     \/ /\ call[r].attempt = MaxReassign
        /\ End(r, "failed")
        /\ UNCHANGED <<scan, barred>>
  /\ UNCHANGED <<now, github, redirects, faults>>

\* RoundTrip's loop: the token's reservation and the slot are given up first.
Repick(r) ==
  /\ Release(r)
  /\ \/ /\ call[r].attempt < MaxReassign
        /\ call' = [call EXCEPT ![r] = [NoCall EXCEPT !.stage = "scan", !.attempt = call[r].attempt + 1,
                                                      !.origin = call[r].origin, !.moved = call[r].moved]]
        /\ Scan(r)
        /\ UNCHANGED outcome
     \/ /\ call[r].attempt = MaxReassign
        /\ End(r, "failed")
        /\ UNCHANGED <<scan, barred>>
  /\ UNCHANGED <<now, github, redirects, faults>>

\* Mutant: a cooldown replaces the one that is set, also a longer one.
CoolDown_Overwrites(r, until) ==
  abuseUntil' = [abuseUntil EXCEPT ![call[r].tok] = until]

CoolDown(r, until) ==
  abuseUntil' = [abuseUntil EXCEPT ![call[r].tok] = Later(@, until)]

\* Longer when the last cooldown has just ended, and never past a coming reset.
MarkSecondaryRateLimit(r) ==
  LET t == call[r].tok
      prev == abuseUntil[t]
      repeated == prev > 0 /\ prev <= now /\ now - prev < RepeatWindow
      until == now + IF repeated THEN Escalated ELSE Base
      reset == known'[t].resetAt
  IN /\ UpdateRateLimitHeaders(r)
     /\ CoolDown(r, IF reset > now /\ reset < until THEN reset ELSE until)
     /\ Repick(r)

Served(r) ==
  /\ Got(r, {"ok"})
  /\ Return(r, "ok")

\* A retry inside the 5xx loop is returned as it is, unless it is another 5xx.
ReturnedRaw(r) ==
  /\ Got(r, ({"limited"} \cup Counted) \ {"moved"}) /\ Mode(r, {"after5xx"})
  /\ Return(r, call[r].status)

RateLimited(r) ==
  /\ Got(r, {"limited"}) /\ Mode(r, {"first", "after429", "after403"})
  /\ UpdateRateLimitHeaders(r) /\ UNCHANGED abuseUntil
  /\ Repick(r)

\* "Resource not accessible by integration" passes for abuse while the budget is healthy.
Healthy(r) ==
  LET t == call[r].tok IN Newest(known[t], call[r].header).remaining > Threshold

LooksLikeAbuse(r) ==
  \/ Got(r, {"abuse"})
  \/ Got(r, {"integration"}) /\ Healthy(r)

Abused(r) ==
  /\ LooksLikeAbuse(r) /\ Mode(r, {"first", "after429", "after403"})
  /\ MarkSecondaryRateLimit(r)

Denied(r) == Got(r, {"forbidden", "integration"}) /\ ~LooksLikeAbuse(r)

ForbiddenRetried(r) ==
  /\ Denied(r) /\ Mode(r, {"first"})
  /\ Retry(r, "after403")

ForbiddenReturned(r) ==
  /\ Denied(r) /\ Mode(r, {"after429", "after403"})
  /\ Return(r, "forbidden")

ThrottledRetried(r) ==
  /\ Got(r, {"throttled"}) /\ Mode(r, {"first"})
  /\ Retry(r, "after429")

\* Mutant: a 429 after a 403 is returned like any other answer.
ThrottledAgain_Returned(r) ==
  /\ Got(r, {"throttled"})
  /\ \/ Mode(r, {"after429"}) /\ MarkSecondaryRateLimit(r)
     \/ Mode(r, {"after403"}) /\ Return(r, "throttled")

ThrottledAgain(r) ==
  /\ Got(r, {"throttled"}) /\ Mode(r, {"after429", "after403"})
  /\ MarkSecondaryRateLimit(r)

ServerError(r) ==
  /\ Got(r, {"server"}) /\ Mode(r, {"first"})
  /\ Retry(r, "after5xx")

RetryFails(r) ==
  /\ Got(r, Uncounted) /\ Mode(r, {"after5xx"})
  /\ \/ /\ call[r].tries < ServerRetries - 1
        /\ call' = [call EXCEPT ![r] = [Handled(r) EXCEPT !.stage = "backoff", !.tries = @ + 1, !.wake = now + Pause]]
        /\ UNCHANGED <<now, github, pool, scan, outcome, ghosts, faults>>
     \/ /\ call[r].tries >= ServerRetries - 1
        /\ Return(r, "failed")

\* The first request's transport error, or any error of a retry after 429 and 403.
Fails(r) ==
  /\ \/ Got(r, {"lost"}) /\ Mode(r, {"first", "after429", "after403"})
     \/ Got(r, {"server", "refresh"}) /\ Mode(r, {"after429", "after403"})
  /\ Return(r, "failed")

\* ghinstallation could not mint an installation token: ten minutes, not clamped to a reset.
RefreshFailed(r) ==
  /\ Got(r, {"refresh"}) /\ Mode(r, {"first"})
  /\ UNCHANGED <<known, heard>> /\ CoolDown(r, now + Escalated)
  /\ Repick(r)

\* http.Client follows a redirect on the transport of the first Pick, without another Pick.
Redirected(r) ==
  /\ Got(r, {"moved"})
  /\ Release(r) /\ UpdateRateLimitHeaders(r)
  /\ call' = [call EXCEPT ![r] = [NoCall EXCEPT !.stage = "queued", !.tok = call[r].origin,
                                                !.origin = call[r].origin, !.moved = TRUE]]
  /\ redirects' = [redirects EXCEPT ![call[r].origin] = @ + 1]
  /\ UNCHANGED <<now, github, abuseUntil, scan, outcome, barred, faults>>

AskAgain(r) ==
  /\ Stage(r, "backoff") /\ now >= call[r].wake
  /\ call' = [call EXCEPT ![r].stage = "sent", ![r].wake = 0]
  /\ UNCHANGED <<now, github, pool, scan, outcome, ghosts, faults>>

-----------------------------------------------------------------------------
\* Mutant: a call that gives up before it has a slot keeps its reservation.
Cancelled_KeepsReservation(r) ==
  /\ faults < MaxFault /\ faults' = faults + 1
  /\ \/ (Stage(r, "asleep") \/ Stage(r, "queued")) /\ UNCHANGED <<inFlight, slots>>
     \/ (Stage(r, "sent") \/ Stage(r, "backoff")) /\ Release(r)
  /\ End(r, "failed")
  /\ UNCHANGED <<now, github, known, abuseUntil, scan, ghosts>>

\* The call's context is cancelled.
Cancelled(r) ==
  /\ faults < MaxFault /\ faults' = faults + 1
  /\ \/ Stage(r, "asleep") /\ UNCHANGED <<inFlight, slots>>
     \/ Stage(r, "queued")
        /\ inFlight' = [inFlight EXCEPT ![call[r].tok] = @ - 1] /\ UNCHANGED slots
     \/ (Stage(r, "sent") \/ Stage(r, "backoff")) /\ Release(r)
  /\ End(r, "failed")
  /\ UNCHANGED <<now, github, known, abuseUntil, scan, ghosts>>

\* Another client of the same installation.
Drain(t) ==
  /\ drains < MaxDrain /\ drains' = drains + 1
  /\ Metered(t) /\ left[t] > 0
  /\ left' = [left EXCEPT ![t] = @ - 1]
  /\ UNCHANGED <<now, ends, pool, scan, call, outcome, ghosts, faults>>

Waiting(r) == (Stage(r, "asleep") \/ Stage(r, "backoff")) /\ call[r].wake > now

\* The clock goes past MaxTime only for a call that waits.
Tick ==
  /\ now < MaxTime \/ \E r \in Request : Waiting(r)
  /\ now' = now + 1
  /\ UNCHANGED <<github, pool, scan, call, outcome, ghosts, faults>>

PickStep(r) == Load(r) \/ Weigh(r) \/ Reserve(r) \/ WaitForReset(r) \/ Wake(r) \/ NoToken(r)

AnswerStep(r) == Serve(r) \/ Refuse(r) \/ Break(r) \/ ServeUnmetered(r)

HandleStep(r) ==
  \/ Served(r) \/ ReturnedRaw(r) \/ RateLimited(r) \/ Abused(r)
  \/ ForbiddenRetried(r) \/ ForbiddenReturned(r) \/ ThrottledRetried(r) \/ ThrottledAgain(r)
  \/ ServerError(r) \/ RetryFails(r) \/ Fails(r) \/ RefreshFailed(r) \/ Redirected(r)

CallStep(r) == PickStep(r) \/ Acquire(r) \/ AnswerStep(r) \/ HandleStep(r) \/ AskAgain(r)

Next ==
  \/ \E r \in Request : Pick(r) \/ CallStep(r) \/ Cancelled(r)
  \/ \E t \in Token : Drain(t)
  \/ Tick

Spec == Init /\ [][Next]_vars

\* A goroutine that can run does, GitHub answers or the transport fails, time passes.
FairSpec == Spec /\ WF_vars(Tick) /\ \A r \in Request : WF_vars(CallStep(r))

-----------------------------------------------------------------------------
(* Properties *)

Reserved(r) == call[r].stage \in {"queued", "sent", "answered", "backoff"}
Holding(r) == call[r].stage \in {"sent", "answered", "backoff"}

\* inFlight of a token counts the calls that Pick gave to it and whose doRoundTrip has not
\* returned, and the semaphore counts those that are past acquireInFlight: through re-picks,
\* cancellation and failures nothing leaks and nothing is given back twice, but for the
\* reservation that a redirect does not make.
InFlightExact ==
  /\ \A t \in Token :
       inFlight[t] + redirects[t] = Cardinality({r \in Request : Reserved(r) /\ call[r].tok = t})
  /\ slots = Cardinality({r \in Request : Holding(r)})

\* updateRateLimitHeaders makes a token's state independent of the order in which answers
\* arrive: the lowest count of the latest window that any processed answer named.
ArrivalOrderIrrelevant ==
  \A t \in Token : heard[t] # {} =>
    /\ known[t] \in heard[t]
    /\ \A h \in heard[t] :
         \/ h.resetAt < known[t].resetAt
         \/ h.resetAt = known[t].resetAt /\ h.remaining >= known[t].remaining

\* A token that was out of quota or in its cooldown when a scan began is not assigned by that
\* scan before the reset or the end of the cooldown, whatever late answers arrive meanwhile.
OutMeansRest ==
  [][\A r \in Request :
       Stage(r, "scan") /\ Stage(r, "queued")' => barred[r][call'[r].tok] <= now]_vars

\* A raw throttle answer reaches the caller of a GET only out of the loop of 5xx retries;
\* every other path waits, cools the token down, or re-picks (classify403, case 429).
OnlyServerRetriesLeak ==
  \A r \in Request : outcome[r] \in {"limited", "abuse", "throttled"} => Mode(r, {"after5xx"})

\* Every call comes to an end: Pick wakes up, a slot is freed, re-picks and retries are bounded.
EveryCallEnds == \A r \in Request : Stage(r, "scan") ~> Stage(r, "done")
=============================================================================
