---------------------------- MODULE TokenPoolProofs ----------------------------
(***************************************************************************)
(* The safety properties of TokenPool hold for any number of tokens and    *)
(* calls, any quotas and waits, and any bounds on faults and time.         *)
(*                                                                         *)
(* The argument: a call is counted by the token it holds from its          *)
(* reservation to the return of doRoundTrip, and every way out of          *)
(* doRoundTrip gives back what the call holds.  An answer that names a     *)
(* coming reset names the end of the token's current window, since GitHub  *)
(* opens no window before the last one has ended; so what the pool knows   *)
(* of that window only falls, and a token that was out when a scan began   *)
(* looks out to that scan for as long as it is.                            *)
(***************************************************************************)
EXTENDS TokenPool, FiniteSetTheorems, TLAPS

USE DEF github, pool, ghosts, Stage, Goto, Got, Mode

\* A header that names a coming reset names the end of t's window.
Current(h, t) == h.resetAt <= now \/ h.resetAt = ends[t]

\* Whom a call holds, and whom it will be redirected to.
PlacedAt(r) ==
  /\ Reserved(r) => call[r].tok \in Token /\ call[r].origin \in Token
  /\ call[r].attempt > 0 => call[r].origin \in Token

Placed == \A r \in Request : PlacedAt(r)

DatedAt(r) ==
  call[r].header # None =>
    /\ Stage(r, "answered")
    /\ call[r].header.resetAt > 0
    /\ Current(call[r].header, call[r].tok)

Dated ==
  /\ \A t \in Token : Current(known[t], t)
  /\ \A r \in Request : DatedAt(r)

Remembered == \A t \in Token : heard[t] = {} => known[t].resetAt = 0

\* Why token t is out until a time.
OutFor(t, remaining, until) ==
  abuseUntil[t] >= until \/ (remaining < Threshold /\ known[t].resetAt = until)

\* What scan r takes for out is out, and so is what it will find out; the token it likes
\* was not out when it began, or no longer is.
RestingAt(r) ==
  /\ \A t \in Token : barred[r][t] > now => OutFor(t, known[t].remaining, barred[r][t])
  /\ scan[r].seen # None =>
       /\ Stage(r, "scan") /\ scan[r].at <= Len(Tokens(r))
       /\ barred[r][At(r)] > now => OutFor(At(r), scan[r].seen, barred[r][At(r)])
  /\ scan[r].best # None => barred[r][scan[r].best] <= now

Resting == \A r \in Request : RestingAt(r)

Ended == \A r \in Request : outcome[r] # "none" => Stage(r, "done")

\* The inductive invariant.
PInv ==
  /\ TypeOK /\ InFlightExact /\ Placed
  /\ Dated /\ Remembered /\ ArrivalOrderIrrelevant
  /\ Resting
  /\ Ended /\ OnlyServerRetriesLeak

-----------------------------------------------------------------------------
(* Types. *)

LEMMA Bounds ==
  /\ Cap \in Nat \ {0} /\ Quota \in Nat \ {0} /\ Threshold \in Nat
  /\ MaxReassign \in Nat /\ ServerRetries \in Nat
  /\ MaxFault \in Nat /\ MaxDrain \in Nat /\ MaxTime \in Nat
  /\ Period \in Nat \ {0} /\ Base \in Nat \ {0} /\ Escalated \in Nat \ {0}
  /\ RepeatWindow \in Nat \ {0} /\ Pause \in Nat \ {0}
  /\ Fault \subseteq Counted \cup Uncounted
BY PoolAssumption

LEMMA Blanks ==
  /\ NoScan \in ScanState /\ NotBarred \in [Token -> Nat]
  /\ NoCall \in CallState /\ NoCall.attempt = 0 /\ NoCall.header = None
BY Bounds DEF NoScan, NoCall, ScanState, CallState, NotBarred

LEMMA AtIsToken ==
  ASSUME NEW r \in Request, TypeOK, scan[r].at <= Len(Tokens(r))
  PROVE  At(r) \in Token
<1>1. Tokens(r) \in Seq(Token)
  BY PoolAssumption DEF Tokens
<1>2. scan[r].at \in Nat \ {0}
  BY DEF TypeOK, ScanState
<1>3. Len(Tokens(r)) \in Nat
  BY <1>1
<1>4. scan[r].at \in 1..Len(Tokens(r))
  BY <1>2, <1>3
<1> QED
  BY <1>1, <1>4 DEF At

\* Only call r changes.
Only(r) ==
  /\ call' \in [Request -> CallState]
  /\ \A q \in Request \ {r} : call'[q] = call[q]

\* A call's new state in place of the old one changes that call only.
LEMMA Replaced ==
  ASSUME call \in [Request -> CallState], NEW r \in Request, NEW d \in CallState,
         call' = [call EXCEPT ![r] = d]
  PROVE  Only(r) /\ call'[r] = d
BY DEF Only

\* The ways in which an action writes the state of a call.
LEMMA Staged ==
  ASSUME TypeOK, NEW r \in Request, NEW s \in {"scan", "sent"}, Goto(r, s)
  PROVE  /\ Only(r)
         /\ call'[r].stage = s /\ call'[r].tok = call[r].tok /\ call'[r].origin = call[r].origin
         /\ call'[r].attempt = call[r].attempt /\ call'[r].header = call[r].header
<1>1. call \in [Request -> CallState]
  BY DEF TypeOK
<1> QED
  BY ONLY <1>1, r \in Request, s \in {"scan", "sent"}, Goto(r, s) DEF Goto, Only, CallState

LEMMA Timed ==
  ASSUME TypeOK, NEW r \in Request, NEW s \in {"scan", "sent", "asleep"}, NEW w \in Nat,
         call' = [call EXCEPT ![r].stage = s, ![r].wake = w]
  PROVE  /\ Only(r)
         /\ call'[r].stage = s /\ call'[r].tok = call[r].tok /\ call'[r].origin = call[r].origin
         /\ call'[r].attempt = call[r].attempt /\ call'[r].header = call[r].header
<1>1. call \in [Request -> CallState]
  BY DEF TypeOK
<1> DEFINE d == [call[r] EXCEPT !.stage = s, !.wake = w]
<1>2. call' = [call EXCEPT ![r] = d]
  OBVIOUS
<1>3. /\ d \in CallState /\ d.stage = s /\ d.tok = call[r].tok /\ d.origin = call[r].origin
      /\ d.attempt = call[r].attempt /\ d.header = call[r].header
  <2>1. call[r] \in CallState
    BY ONLY <1>1, r \in Request
  <2>2. d \in CallState
    BY ONLY <2>1, s \in {"scan", "sent", "asleep"}, w \in Nat DEF CallState
  <2> QED
    BY ONLY <2>1, <2>2 DEF CallState
<1> HIDE DEF d
<1>4. Only(r) /\ call'[r] = d
  BY ONLY <1>1, <1>2, <1>3, r \in Request, Replaced
<1> QED
  BY ONLY <1>3, <1>4

LEMMA GivenToken ==
  ASSUME TypeOK, NEW r \in Request, NEW t \in Token, NEW o \in Token \cup {None},
         call' = [call EXCEPT ![r].stage = "queued", ![r].tok = t, ![r].origin = o]
  PROVE  /\ Only(r)
         /\ call'[r].stage = "queued" /\ call'[r].tok = t /\ call'[r].origin = o
         /\ call'[r].attempt = call[r].attempt /\ call'[r].header = call[r].header
<1>1. call \in [Request -> CallState]
  BY DEF TypeOK
<1> DEFINE d == [call[r] EXCEPT !.stage = "queued", !.tok = t, !.origin = o]
<1>2. call' = [call EXCEPT ![r] = d]
  OBVIOUS
<1>3. /\ d \in CallState /\ d.stage = "queued" /\ d.tok = t /\ d.origin = o
      /\ d.attempt = call[r].attempt /\ d.header = call[r].header
  <2>1. call[r] \in CallState
    BY ONLY <1>1, r \in Request
  <2>2. d \in CallState
    BY ONLY <2>1, t \in Token, o \in Token \cup {None} DEF CallState
  <2> QED
    BY ONLY <2>1, <2>2 DEF CallState
<1> HIDE DEF d
<1>4. Only(r) /\ call'[r] = d
  BY ONLY <1>1, <1>2, <1>3, r \in Request, Replaced
<1> QED
  BY ONLY <1>3, <1>4

LEMMA GivenAnswer ==
  ASSUME TypeOK, NEW r \in Request, NEW s \in {"ok", "limited"} \cup Counted \cup Uncounted,
         NEW h \in Header \cup {None},
         call' = [call EXCEPT ![r].stage = "answered", ![r].status = s, ![r].header = h]
  PROVE  /\ Only(r)
         /\ call'[r].stage = "answered" /\ call'[r].tok = call[r].tok
         /\ call'[r].origin = call[r].origin
         /\ call'[r].attempt = call[r].attempt /\ call'[r].header = h
<1>1. call \in [Request -> CallState]
  BY DEF TypeOK
<1> DEFINE d == [call[r] EXCEPT !.stage = "answered", !.status = s, !.header = h]
<1>2. call' = [call EXCEPT ![r] = d]
  OBVIOUS
<1>3. /\ d \in CallState /\ d.stage = "answered" /\ d.tok = call[r].tok /\ d.origin = call[r].origin
      /\ d.attempt = call[r].attempt /\ d.header = h
  <2>1. call[r] \in CallState
    BY ONLY <1>1, r \in Request
  <2>2. d \in CallState
    BY ONLY <2>1, s \in {"ok", "limited"} \cup Counted \cup Uncounted, h \in Header \cup {None} DEF CallState
  <2> QED
    BY ONLY <2>1, <2>2 DEF CallState
<1> HIDE DEF d
<1>4. Only(r) /\ call'[r] = d
  BY ONLY <1>1, <1>2, <1>3, r \in Request, Replaced
<1> QED
  BY ONLY <1>3, <1>4

-----------------------------------------------------------------------------
(* Counting. *)

\* One call joins or leaves a set of calls.
LEMMA CountMoved ==
  ASSUME NEW S, NEW T, IsFiniteSet(S), NEW r,
         T = S \cup {r} \/ T = S \ {r}
  PROVE  /\ Cardinality(S) \in Nat /\ Cardinality(T) \in Nat
         /\ Cardinality(T) = Cardinality(S) - (IF r \in S THEN 1 ELSE 0) + (IF r \in T THEN 1 ELSE 0)
<1>1. Cardinality(S) \in Nat
  BY FS_CardinalityType
<1>2. CASE T = S \cup {r}
  <2>1. r \in T
    BY <1>2
  <2>2. Cardinality(T) = IF r \in S THEN Cardinality(S) ELSE Cardinality(S) + 1
    BY <1>2, FS_AddElement
  <2> QED
    BY ONLY <1>1, <2>1, <2>2
<1>3. CASE T = S \ {r}
  <2>1. r \notin T
    BY <1>3
  <2>2. Cardinality(T) = IF r \in S THEN Cardinality(S) - 1 ELSE Cardinality(S)
    BY <1>3, FS_RemoveElement
  <2>3. Cardinality(T) \in Nat
    BY <1>3, FS_RemoveElement, FS_CardinalityType
  <2> QED
    BY ONLY <1>1, <2>1, <2>2, <2>3
<1> QED
  BY <1>2, <1>3

\* The counters follow a call through whatever it does.
LEMMA CountStep ==
  ASSUME TypeOK, InFlightExact, NEW r \in Request, Only(r),
         inFlight' \in [Token -> Int], redirects' \in [Token -> Nat],
         \A t \in Token :
           inFlight'[t] + redirects'[t] = inFlight[t] + redirects[t]
             - (IF Reserved(r) /\ call[r].tok = t THEN 1 ELSE 0)
             + (IF Reserved(r)' /\ call'[r].tok = t THEN 1 ELSE 0),
         slots' = slots - (IF Holding(r) THEN 1 ELSE 0) + (IF Holding(r)' THEN 1 ELSE 0)
  PROVE  InFlightExact' /\ slots' \in Nat
<1>f. IsFiniteSet(Request)
  BY PoolAssumption
<1>b. \A q \in Request \ {r} : call'[q] = call[q]
  BY DEF Only
<1>1. ASSUME NEW t \in Token
      PROVE  inFlight'[t] + redirects'[t]
               = Cardinality({q \in Request : (Reserved(q) /\ call[q].tok = t)'})
  <2> DEFINE before == {q \in Request : Reserved(q) /\ call[q].tok = t}
             after == {q \in Request : (Reserved(q) /\ call[q].tok = t)'}
  <2>1. \A q \in Request \ {r} : (Reserved(q) /\ call[q].tok = t)' <=> (Reserved(q) /\ call[q].tok = t)
    BY <1>b DEF Reserved
  <2>3. after = before \cup {r} \/ after = before \ {r}
    BY ONLY <2>1, r \in Request
  <2>4. IsFiniteSet(before)
    BY <1>f, FS_Subset
  <2>5. inFlight[t] + redirects[t] = Cardinality(before)
    BY DEF InFlightExact
  <2>6. /\ r \in before <=> Reserved(r) /\ call[r].tok = t
        /\ r \in after <=> Reserved(r)' /\ call'[r].tok = t
    OBVIOUS
  <2> HIDE DEF before, after
  <2>7. /\ Cardinality(before) \in Nat /\ Cardinality(after) \in Nat
        /\ Cardinality(after) = Cardinality(before) - (IF r \in before THEN 1 ELSE 0)
                                                    + (IF r \in after THEN 1 ELSE 0)
    BY <2>3, <2>4, CountMoved
  <2>8. /\ inFlight[t] \in Int /\ redirects[t] \in Nat
        /\ inFlight'[t] \in Int /\ redirects'[t] \in Nat
    BY DEF TypeOK
  <2>9. inFlight'[t] + redirects'[t] = Cardinality(after)
    BY <2>5, <2>6, <2>7, <2>8
  <2> QED
    BY <2>9 DEF after
<1>2. slots' = Cardinality({q \in Request : Holding(q)'}) /\ slots' \in Nat
  <2> DEFINE before == {q \in Request : Holding(q)}
             after == {q \in Request : Holding(q)'}
  <2>1. \A q \in Request \ {r} : Holding(q)' <=> Holding(q)
    BY <1>b DEF Holding
  <2>3. after = before \cup {r} \/ after = before \ {r}
    BY ONLY <2>1, r \in Request
  <2>4. IsFiniteSet(before)
    BY <1>f, FS_Subset
  <2>5. slots = Cardinality(before)
    BY DEF InFlightExact
  <2>6. /\ r \in before <=> Holding(r)
        /\ r \in after <=> Holding(r)'
    OBVIOUS
  <2> HIDE DEF before, after
  <2>7. /\ Cardinality(before) \in Nat /\ Cardinality(after) \in Nat
        /\ Cardinality(after) = Cardinality(before) - (IF r \in before THEN 1 ELSE 0)
                                                    + (IF r \in after THEN 1 ELSE 0)
    BY <2>3, <2>4, CountMoved
  <2>8. slots' = Cardinality(after) /\ slots' \in Nat
    BY <2>5, <2>6, <2>7
  <2> QED
    BY <2>8 DEF after
<1> QED
  BY <1>1, <1>2 DEF InFlightExact

-----------------------------------------------------------------------------
(* What a step of a call does, in the terms of the invariant. *)

Counts(r) ==
  /\ inFlight' \in [Token -> Int] /\ redirects' \in [Token -> Nat]
  /\ \A t \in Token :
       inFlight'[t] + redirects'[t] = inFlight[t] + redirects[t]
         - (IF Reserved(r) /\ call[r].tok = t THEN 1 ELSE 0)
         + (IF Reserved(r)' /\ call'[r].tok = t THEN 1 ELSE 0)
  /\ slots' = slots - (IF Holding(r) THEN 1 ELSE 0) + (IF Holding(r)' THEN 1 ELSE 0)
  /\ slots' <= Cap

Raw == {"limited", "abuse", "throttled"}
Outcome == {"none", "ok", "failed", "limited"} \cup Counted

Tells(r) ==
  \/ UNCHANGED outcome /\ ~Stage(r, "done")
  \/ /\ Stage(r, "done")'
     /\ \E result \in Outcome : outcome' = [outcome EXCEPT ![r] = result]
                             /\ (result \in Raw => call'[r].mode = "after5xx")

\* The pool learns at most one header.
Hears ==
  \/ UNCHANGED <<known, heard>>
  \/ \E t \in Token, h \in Header :
       /\ h.resetAt > 0 /\ Current(h, t)
       /\ known' = [known EXCEPT ![t] = Newest(@, h)]
       /\ heard' = [heard EXCEPT ![t] = @ \cup {h}]

Cools ==
  /\ abuseUntil' \in [Token -> Nat]
  /\ \A t \in Token : abuseUntil'[t] >= abuseUntil[t]

\* GitHub opens a window only after the last one.
Windows ==
  /\ left' \in [Token -> 0..Quota] /\ ends' \in [Token -> Nat]
  /\ \A t \in Token : ends'[t] = ends[t] \/ ends[t] <= now

Looks(r) ==
  \/ ~Stage(r, "scan") /\ UNCHANGED <<scan, barred>>
  \/ Scan(r) \/ ScanEnds(r)

Effect(r) ==
  /\ UNCHANGED now /\ faults' \in Nat /\ drains' \in Nat
  /\ Only(r) /\ Counts(r) /\ Tells(r) /\ Looks(r)
  /\ Hears /\ Cools /\ Windows
  /\ PlacedAt(r)' /\ DatedAt(r)'

-----------------------------------------------------------------------------
(* Such a step keeps the invariant. *)

LEMMA HearsStep ==
  ASSUME TypeOK, Dated, Remembered, ArrivalOrderIrrelevant, Hears
  PROVE  /\ known' \in [Token -> Header] /\ heard' \in [Token -> SUBSET Header]
         /\ Remembered' /\ ArrivalOrderIrrelevant'
         /\ \A t \in Token : known'[t].resetAt <= now \/ known'[t].resetAt = ends[t]
         /\ \A t \in Token : known[t].resetAt > now =>
              known'[t].resetAt = known[t].resetAt /\ known'[t].remaining <= known[t].remaining
<1>1. CASE UNCHANGED <<known, heard>>
  BY <1>1 DEF TypeOK, Dated, Remembered, ArrivalOrderIrrelevant, Current, Header
<1>2. ASSUME NEW t \in Token, NEW h \in Header, h.resetAt > 0, Current(h, t),
             known' = [known EXCEPT ![t] = Newest(@, h)],
             heard' = [heard EXCEPT ![t] = @ \cup {h}]
      PROVE  /\ known' \in [Token -> Header] /\ heard' \in [Token -> SUBSET Header]
             /\ Remembered' /\ ArrivalOrderIrrelevant'
             /\ \A u \in Token : known'[u].resetAt <= now \/ known'[u].resetAt = ends[u]
             /\ \A u \in Token : known[u].resetAt > now =>
                  known'[u].resetAt = known[u].resetAt /\ known'[u].remaining <= known[u].remaining
  <2>1. /\ known \in [Token -> Header] /\ heard \in [Token -> SUBSET Header]
        /\ now \in Nat /\ ends \in [Token -> Nat]
    BY DEF TypeOK
  <2>2. Newest(known[t], h) \in {known[t], h}
    BY DEF Newest
  <2>3. known' \in [Token -> Header] /\ heard' \in [Token -> SUBSET Header]
    BY <1>2, <2>1, <2>2
  <2>4. known'[t] = Newest(known[t], h) /\ heard'[t] = heard[t] \cup {h}
    BY <1>2, <2>1
  <2>5. \A u \in Token \ {t} : known'[u] = known[u] /\ heard'[u] = heard[u]
    BY <1>2, <2>1
  <2>6. Remembered'
    BY <2>4, <2>5 DEF Remembered
  <2>7. h.remaining \in 0..Quota /\ h.resetAt \in Nat
    BY DEF Header
  <2>8. \A g \in Header : g.remaining \in 0..Quota /\ g.resetAt \in Nat
    BY DEF Header
  <2>9. known[t] \in Header /\ heard[t] \subseteq Header
    BY <2>1
  <2>10. CASE heard[t] = {}
    <3>1. known[t].resetAt = 0
      BY <2>10 DEF Remembered
    <3>2. Newest(known[t], h) = h
      BY <1>2, <2>7, <3>1 DEF Newest
    <3>3. heard'[t] = {h} /\ known'[t] = h
      BY <2>4, <2>10, <3>2
    <3>4. ArrivalOrderIrrelevant'
      BY <2>5, <2>7, <3>3 DEF ArrivalOrderIrrelevant
    <3> QED
      BY <1>2, <2>1, <2>3, <2>5, <2>6, <2>7, <2>8, <3>1, <3>3, <3>4 DEF Dated, Current
  <2>11. CASE heard[t] # {}
    <3>1. /\ known[t] \in heard[t]
          /\ \A g \in heard[t] : \/ g.resetAt < known[t].resetAt
                                 \/ g.resetAt = known[t].resetAt /\ g.remaining >= known[t].remaining
      BY <2>11 DEF ArrivalOrderIrrelevant
    <3>2. CASE Newest(known[t], h) = h /\ Newest(known[t], h) # known[t]
      <4>1. \/ h.resetAt > known[t].resetAt
            \/ h.resetAt = known[t].resetAt /\ h.remaining < known[t].remaining
        BY <3>2 DEF Newest
      <4>2. \A g \in heard[t] \cup {h} : \/ g.resetAt < h.resetAt
                                         \/ g.resetAt = h.resetAt /\ g.remaining >= h.remaining
        <5>1. SUFFICES ASSUME NEW g \in heard[t]
              PROVE  \/ g.resetAt < h.resetAt
                     \/ g.resetAt = h.resetAt /\ g.remaining >= h.remaining
          BY <2>7
        <5>2. g \in Header
          BY <2>9
        <5> QED
          BY <2>7, <2>8, <2>9, <3>1, <4>1, <5>2
      <4>3. ArrivalOrderIrrelevant'
        BY <2>4, <2>5, <3>2, <4>2 DEF ArrivalOrderIrrelevant
      <4>4. known[t].resetAt > now => h.resetAt = known[t].resetAt /\ h.remaining <= known[t].remaining
        BY <1>2, <2>1, <2>7, <2>8, <2>9, <4>1 DEF Dated, Current
      <4> QED
        BY <1>2, <2>1, <2>3, <2>4, <2>5, <2>6, <2>8, <3>2, <4>3, <4>4 DEF Dated, Current
    <3>3. CASE Newest(known[t], h) = known[t]
      <4>1. \/ h.resetAt < known[t].resetAt
            \/ h.resetAt = known[t].resetAt /\ h.remaining >= known[t].remaining
        BY <2>7, <2>8, <2>9, <3>3 DEF Newest
      <4>2. known' = known
        BY <1>2, <2>1, <3>3
      <4>3. ArrivalOrderIrrelevant'
        BY <2>4, <2>5, <3>1, <3>3, <4>1 DEF ArrivalOrderIrrelevant
      <4> QED
        BY <2>1, <2>3, <2>6, <2>8, <4>2, <4>3 DEF Dated, Current
    <3> QED
      BY <2>2, <3>2, <3>3
  <2> QED
    BY <2>10, <2>11
<1> QED
  BY <1>1, <1>2 DEF Hears

\* A scan that goes on keeps what it knows, and one that begins knows what is out.
LEMMA RestStep ==
  ASSUME TypeOK, Resting, now' \in Nat, now' >= now,
         known' \in [Token -> Header], Cools,
         \A t \in Token : known[t].resetAt > now' =>
           known'[t].resetAt = known[t].resetAt /\ known'[t].remaining <= known[t].remaining,
         NEW q \in Request,
         UNCHANGED <<scan[q], barred[q]>>, ~Stage(q, "scan") \/ UNCHANGED call[q]
  PROVE  RestingAt(q)'
<1>1. RestingAt(q)
  BY DEF Resting
<1>2. /\ now \in Nat /\ Threshold \in Nat
      /\ barred[q] \in [Token -> Nat] /\ scan[q] \in ScanState
      /\ abuseUntil \in [Token -> Nat] /\ abuseUntil' \in [Token -> Nat]
      /\ known \in [Token -> Header]
  BY Bounds DEF TypeOK, Cools
<1>3. \A g \in Header : g.remaining \in 0..Quota /\ g.resetAt \in Nat
  BY DEF Header
<1>4. \A t \in Token : barred[q][t] > now' => OutFor(t, known[t].remaining, barred[q][t])'
  <2>1. SUFFICES ASSUME NEW t \in Token, barred[q][t] > now'
        PROVE  OutFor(t, known[t].remaining, barred[q][t])'
    OBVIOUS
  <2>2. OutFor(t, known[t].remaining, barred[q][t])
    BY <1>1, <1>2, <2>1 DEF RestingAt
  <2> QED
    BY <1>2, <1>3, <2>1, <2>2, Bounds DEF OutFor, Cools
<1>5. scan[q].seen # None =>
        /\ Stage(q, "scan")' /\ (scan[q].at <= Len(Tokens(q)))'
        /\ barred[q][At(q)] > now' => OutFor(At(q), scan[q].seen, barred[q][At(q)])'
  <2>1. SUFFICES ASSUME scan[q].seen # None
        PROVE  /\ Stage(q, "scan")' /\ (scan[q].at <= Len(Tokens(q)))'
               /\ barred[q][At(q)] > now' => OutFor(At(q), scan[q].seen, barred[q][At(q)])'
    OBVIOUS
  <2>2. /\ scan[q].at <= Len(Tokens(q)) /\ UNCHANGED call[q]
        /\ Stage(q, "scan")' /\ (scan[q].at <= Len(Tokens(q)))'
    BY <1>1, <2>1 DEF RestingAt, Tokens
  <2>3. At(q) \in Token
    BY <2>2, AtIsToken
  <2>4. At(q)' = At(q)
    BY <2>2 DEF At, Tokens
  <2>5. SUFFICES ASSUME barred[q][At(q)] > now'
        PROVE  OutFor(At(q), scan[q].seen, barred[q][At(q)])'
    BY <2>2
  <2>6. OutFor(At(q), scan[q].seen, barred[q][At(q)])
    BY <1>1, <1>2, <2>1, <2>3, <2>5 DEF RestingAt
  <2> QED
    BY <1>2, <1>3, <2>3, <2>4, <2>5, <2>6 DEF OutFor, Cools
<1>6. scan[q].best # None => barred[q][scan[q].best] <= now'
  BY <1>1, <1>2 DEF RestingAt, ScanState
<1>7. scan[q].seen # None => At(q)' = At(q)
  BY <1>1 DEF At, RestingAt, Tokens
<1> QED
  BY <1>4, <1>5, <1>6, <1>7 DEF RestingAt

LEMMA NewScan ==
  ASSUME TypeOK, UNCHANGED now, known' \in [Token -> Header], abuseUntil' \in [Token -> Nat],
         NEW r \in Request, Scan(r) \/ ScanEnds(r)
  PROVE  /\ scan' \in [Request -> ScanState] /\ barred' \in [Request -> [Token -> Nat]]
         /\ RestingAt(r)'
         /\ \A q \in Request \ {r} : UNCHANGED <<scan[q], barred[q]>>
<1>1. /\ scan \in [Request -> ScanState] /\ barred \in [Request -> [Token -> Nat]] /\ now \in Nat
  BY DEF TypeOK
<1>2. \A h \in Header : h.remaining \in 0..Quota /\ h.resetAt \in Nat
  BY DEF Header
<1>3. scan'[r].seen = None /\ scan'[r].best = None
  BY <1>1 DEF Scan, ScanEnds, NoScan
<1>4. scan' \in [Request -> ScanState]
  BY <1>1, Blanks DEF Scan, ScanEnds
<1>5. \A q \in Request \ {r} : UNCHANGED <<scan[q], barred[q]>>
  BY <1>1 DEF Scan, ScanEnds
<1>6. CASE Scan(r)
  <2>1. \A t \in Token : OutUntil(known'[t], abuseUntil'[t]) \in Nat
    BY <1>2 DEF OutUntil, Later
  <2>2. barred'[r] = [t \in Token |-> OutUntil(known'[t], abuseUntil'[t])]
    BY <1>1, <1>6 DEF Scan
  <2>3. barred' \in [Request -> [Token -> Nat]]
    BY <1>1, <1>6, <2>1 DEF Scan
  <2>4. ASSUME NEW t \in Token, barred'[r][t] > now
        PROVE  \/ abuseUntil'[t] >= barred'[r][t]
               \/ known'[t].remaining < Threshold /\ known'[t].resetAt = barred'[r][t]
    <3>1. barred'[r][t] = OutUntil(known'[t], abuseUntil'[t])
      BY <2>2
    <3>2. abuseUntil'[t] \in Nat /\ known'[t].resetAt \in Nat
      BY <1>2
    <3> QED
      BY <1>1, <2>4, <3>1, <3>2 DEF OutUntil, Later, Exhausted
  <2> QED
    BY <1>3, <1>4, <1>5, <2>3, <2>4 DEF RestingAt, OutFor
<1>7. CASE ScanEnds(r)
  <2>1. barred' \in [Request -> [Token -> Nat]]
    BY <1>1, <1>7, Blanks DEF ScanEnds
  <2>2. \A t \in Token : barred'[r][t] = 0
    BY <1>1, <1>7 DEF ScanEnds, NotBarred
  <2> QED
    BY <1>1, <1>3, <1>4, <1>5, <2>1, <2>2 DEF RestingAt
<1> QED
  BY <1>6, <1>7

LEMMA EffectStep ==
  ASSUME PInv, NEW r \in Request, Effect(r)
  PROVE  PInv'
<1> USE DEF PInv, Effect
<1>1. /\ known' \in [Token -> Header] /\ heard' \in [Token -> SUBSET Header]
      /\ Remembered' /\ ArrivalOrderIrrelevant'
      /\ \A t \in Token : known'[t].resetAt <= now \/ known'[t].resetAt = ends[t]
      /\ \A t \in Token : known[t].resetAt > now =>
           known'[t].resetAt = known[t].resetAt /\ known'[t].remaining <= known[t].remaining
  BY HearsStep
<1>2. InFlightExact' /\ slots' \in Nat
  BY CountStep DEF Counts
<1>3. \A q \in Request \ {r} : call'[q] = call[q]
  BY DEF Only
<1>4. Placed'
  BY <1>3 DEF Placed, PlacedAt, Reserved
<1>5. Dated'
  <2>1. ASSUME NEW t \in Token
        PROVE  Current(known[t], t)'
    BY <1>1 DEF Windows, Current, TypeOK, Header
  <2>2. ASSUME NEW q \in Request \ {r}, call[q].header # None
        PROVE  DatedAt(q)'
    <3>1. DatedAt(q) /\ PlacedAt(q)
      BY DEF Dated, Placed
    <3>2. Reserved(q)
      BY <2>2, <3>1 DEF DatedAt, Reserved
    <3>3. call[q].tok \in Token
      BY <3>1, <3>2 DEF PlacedAt
    <3> QED
      BY <1>3, <2>2, <3>1, <3>3 DEF DatedAt, Current, Windows
  <2>3. \A q \in Request \ {r} : DatedAt(q)'
    BY <1>3, <2>2 DEF DatedAt
  <2> QED
    BY <2>1, <2>3 DEF Dated
<1>6. /\ scan' \in [Request -> ScanState] /\ barred' \in [Request -> [Token -> Nat]]
      /\ Resting'
  <2>1. now \in Nat
    BY DEF TypeOK
  <2>2. ASSUME NEW q \in Request, UNCHANGED <<scan[q], barred[q]>>,
               ~Stage(q, "scan") \/ UNCHANGED call[q]
        PROVE  RestingAt(q)'
    BY <1>1, <2>1, <2>2, RestStep
  <2>3. CASE ~Stage(r, "scan") /\ UNCHANGED <<scan, barred>>
    BY <1>3, <2>2, <2>3 DEF TypeOK, Resting
  <2>4. CASE Scan(r) \/ ScanEnds(r)
    BY <1>1, <1>3, <2>2, <2>4, NewScan DEF Cools, Resting
  <2> QED
    BY <2>3, <2>4 DEF Looks
<1>7. /\ outcome' \in [Request -> Outcome] /\ Ended' /\ OnlyServerRetriesLeak'
  <2>1. outcome \in [Request -> Outcome]
    BY DEF TypeOK, Outcome
  <2>2. CASE UNCHANGED outcome /\ ~Stage(r, "done")
    <3>1. outcome[r] = "none"
      BY <2>2 DEF Ended
    <3> QED
      BY <1>3, <2>1, <2>2, <3>1 DEF Ended, OnlyServerRetriesLeak
  <2>3. ASSUME Stage(r, "done")', NEW result \in Outcome,
               outcome' = [outcome EXCEPT ![r] = result],
               result \in Raw => call'[r].mode = "after5xx"
        PROVE  /\ outcome' \in [Request -> Outcome] /\ Ended' /\ OnlyServerRetriesLeak'
    BY <1>3, <2>1, <2>3 DEF Ended, OnlyServerRetriesLeak, Raw
  <2> QED
    BY <2>2, <2>3 DEF Tells
<1>8. TypeOK'
  <2>1. slots' \in 0..Cap
    BY <1>2, Bounds DEF Counts
  <2> QED
    BY <1>1, <1>6, <1>7, <2>1 DEF TypeOK, Outcome, Counts, Only, Cools, Windows
<1> QED
  BY <1>1, <1>2, <1>4, <1>5, <1>6, <1>7, <1>8

-----------------------------------------------------------------------------
(* The steps of a call have such effects: first what they leave alone, then the ways *)
(* in which a call leaves doRoundTrip.                                               *)

LEMMA Still ==
  ASSUME TypeOK
  PROVE  /\ UNCHANGED <<known, heard>> => Hears
         /\ UNCHANGED abuseUntil => Cools
         /\ UNCHANGED <<ends, left>> => Windows
BY DEF TypeOK, Hears, Cools, Windows

LEMMA SameCounts ==
  ASSUME TypeOK, NEW r \in Request, UNCHANGED <<inFlight, slots, redirects>>,
         Reserved(r)' <=> Reserved(r), Holding(r)' <=> Holding(r),
         Reserved(r) => call'[r].tok = call[r].tok
  PROVE  Counts(r)
BY Bounds DEF TypeOK, Counts

LEMMA ReleasedCounts ==
  ASSUME TypeOK, NEW r \in Request, PlacedAt(r), Release(r), UNCHANGED redirects,
         Reserved(r), Holding(r), ~Reserved(r)', ~Holding(r)'
  PROVE  Counts(r)
<1>1. call[r].tok \in Token
  BY DEF PlacedAt
<1>2. inFlight \in [Token -> Int] /\ redirects \in [Token -> Nat] /\ slots \in 0..Cap
  BY DEF TypeOK
<1>3. \A t \in Token : inFlight'[t] = inFlight[t] - (IF call[r].tok = t THEN 1 ELSE 0)
  BY <1>1, <1>2 DEF Release
<1>4. inFlight' \in [Token -> Int]
  BY <1>1, <1>2 DEF Release
<1>5. slots' = slots - 1
  BY DEF Release
<1> QED
  BY <1>1, <1>2, <1>3, <1>4, <1>5, Bounds DEF Counts

\* updateRateLimitHeaders takes the header of an answer, which is dated.
LEMMA UpdateHears ==
  ASSUME TypeOK, Placed, Dated, NEW r \in Request, Stage(r, "answered"),
         UpdateRateLimitHeaders(r)
  PROVE  Hears
<1>1. CASE call[r].header = None \/ call[r].mode = "after5xx"
  BY <1>1 DEF UpdateRateLimitHeaders, Hears
<1>2. CASE ~(call[r].header = None \/ call[r].mode = "after5xx")
  <2>1. call[r].tok \in Token
    BY DEF Placed, PlacedAt, Reserved
  <2>2. call[r].header \in Header
    BY <1>2 DEF TypeOK, CallState
  <2>3. call[r].header.resetAt > 0 /\ Current(call[r].header, call[r].tok)
    BY <1>2 DEF Dated, DatedAt
  <2>4. /\ known' = [known EXCEPT ![call[r].tok] = Newest(@, call[r].header)]
        /\ heard' = [heard EXCEPT ![call[r].tok] = @ \cup {call[r].header}]
    BY <1>2 DEF UpdateRateLimitHeaders
  <2> QED
    BY <2>1, <2>2, <2>3, <2>4 DEF Hears
<1> QED
  BY <1>1, <1>2

LEMMA Ending ==
  ASSUME TypeOK, NEW r \in Request, NEW result \in Outcome, End(r, result)
  PROVE  /\ Only(r) /\ Stage(r, "done")' /\ call'[r].mode = call[r].mode
         /\ ~Reserved(r)' /\ ~Holding(r)' /\ PlacedAt(r)' /\ DatedAt(r)'
         /\ (result \in Raw => call[r].mode = "after5xx") => Tells(r)
<1> DEFINE c == [NoCall EXCEPT !.stage = "done", !.mode = call[r].mode]
<1>1. call[r].mode \in {"first", "after429", "after403", "after5xx"}
  BY DEF TypeOK, CallState
<1>2. /\ c \in CallState /\ c.stage = "done" /\ c.mode = call[r].mode
      /\ c.attempt = 0 /\ c.header = None
  BY <1>1, Blanks DEF CallState
<1>3. call' = [call EXCEPT ![r] = c]
  BY DEF End
<1> HIDE DEF c
<1>4. call \in [Request -> CallState]
  BY DEF TypeOK
<1>5. call'[r] = c /\ Only(r)
  BY <1>2, <1>3, <1>4 DEF Only
<1>6. Stage(r, "done")' /\ call'[r].mode = call[r].mode
  BY <1>2, <1>5
<1>7. ~Reserved(r)' /\ ~Holding(r)'
  BY <1>2, <1>5 DEF Reserved, Holding
<1>8. PlacedAt(r)' /\ DatedAt(r)'
  BY <1>2, <1>5, <1>7 DEF PlacedAt, DatedAt
<1>9. outcome' = [outcome EXCEPT ![r] = result]
  BY DEF End
<1> QED
  BY <1>5, <1>6, <1>7, <1>8, <1>9 DEF Tells

LEMMA ReturnEffect ==
  ASSUME PInv, NEW r \in Request, NEW result \in Outcome, Stage(r, "answered"),
         Return(r, result), result \in Raw => call[r].mode = "after5xx"
  PROVE  Effect(r)
<1>1. /\ TypeOK /\ Placed /\ Dated
  BY DEF PInv
<1>2. Reserved(r) /\ Holding(r) /\ PlacedAt(r)
  BY <1>1 DEF Reserved, Holding, Placed
<1>3. /\ Only(r) /\ Tells(r) /\ PlacedAt(r)' /\ DatedAt(r)' /\ ~Reserved(r)' /\ ~Holding(r)'
  BY <1>1, Ending DEF Return
<1>4. Counts(r)
  BY <1>1, <1>2, <1>3, ReleasedCounts DEF Return
<1>5. Hears
  BY <1>1, UpdateHears DEF Return
<1>6. Cools /\ Windows
  BY <1>1, Still DEF Return
<1>7. Looks(r)
  BY DEF Looks, Return
<1>8. UNCHANGED now /\ faults' \in Nat /\ drains' \in Nat
  BY <1>1 DEF TypeOK, Return
<1> QED
  BY <1>3, <1>4, <1>5, <1>6, <1>7, <1>8 DEF Effect

LEMMA RepickEffect ==
  ASSUME PInv, NEW r \in Request, Stage(r, "answered"), Repick(r), Hears, Cools
  PROVE  Effect(r)
<1>1. /\ TypeOK /\ Placed /\ Dated
  BY DEF PInv
<1>2. Reserved(r) /\ Holding(r) /\ PlacedAt(r)
  BY <1>1 DEF Reserved, Holding, Placed
<1>3. /\ Only(r) /\ Tells(r) /\ PlacedAt(r)' /\ DatedAt(r)' /\ ~Reserved(r)' /\ ~Holding(r)'
      /\ Looks(r)
  <2>1. CASE /\ call[r].attempt = MaxReassign /\ End(r, "failed") /\ UNCHANGED <<scan, barred>>
    BY <1>1, <2>1, Ending DEF Outcome, Raw, Looks
  <2>2. CASE /\ call[r].attempt < MaxReassign
             /\ call' = [call EXCEPT ![r] = [NoCall EXCEPT !.stage = "scan",
                           !.attempt = call[r].attempt + 1, !.origin = call[r].origin,
                           !.moved = call[r].moved]]
             /\ Scan(r) /\ UNCHANGED outcome
    <3> DEFINE c == [NoCall EXCEPT !.stage = "scan", !.attempt = call[r].attempt + 1,
                                   !.origin = call[r].origin, !.moved = call[r].moved]
    <3>1. call \in [Request -> CallState]
      BY <1>1 DEF TypeOK
    <3>2. call[r].attempt \in 0..MaxReassign
      BY <3>1 DEF CallState
    <3>3. call[r].attempt + 1 \in 0..MaxReassign
      BY <2>2, <3>2, Bounds
    <3>4. call[r].origin \in Token /\ call[r].moved \in BOOLEAN
      BY <1>2, <3>1 DEF PlacedAt, CallState
    <3>5. /\ c \in CallState /\ c.stage = "scan" /\ c.origin = call[r].origin /\ c.header = None
      BY <3>3, <3>4, Blanks DEF CallState
    <3>6. call' = [call EXCEPT ![r] = c]
      BY <2>2
    <3> HIDE DEF c
    <3>7. call'[r] = c /\ Only(r)
      BY <3>1, <3>5, <3>6 DEF Only
    <3>8. ~Reserved(r)' /\ ~Holding(r)'
      BY <3>5, <3>7 DEF Reserved, Holding
    <3>9. PlacedAt(r)' /\ DatedAt(r)'
      BY <3>4, <3>5, <3>7, <3>8 DEF PlacedAt, DatedAt
    <3> QED
      BY <2>2, <3>7, <3>8, <3>9 DEF Tells, Looks
  <2> QED
    BY <2>1, <2>2 DEF Repick
<1>4. Counts(r)
  BY <1>1, <1>2, <1>3, ReleasedCounts DEF Repick
<1>5. Windows
  BY <1>1, Still DEF Repick
<1>6. UNCHANGED now /\ faults' \in Nat /\ drains' \in Nat
  BY <1>1 DEF TypeOK, Repick
<1> QED
  BY <1>3, <1>4, <1>5, <1>6 DEF Effect

\* The same token is asked again: the call keeps what it holds.
LEMMA BackoffEffect ==
  ASSUME PInv, NEW r \in Request, Stage(r, "answered"), Hears,
         NEW c \in CallState, c.stage = "backoff", c.tok = call[r].tok,
         c.origin = call[r].origin, c.attempt = call[r].attempt, c.header = None,
         call' = [call EXCEPT ![r] = c],
         UNCHANGED <<now, github, abuseUntil, inFlight, slots, scan, outcome, barred, redirects, faults>>
  PROVE  Effect(r)
<1>1. /\ TypeOK /\ Placed
  BY DEF PInv
<1>2. Reserved(r) /\ Holding(r) /\ PlacedAt(r)
  BY <1>1 DEF Reserved, Holding, Placed
<1>3. call \in [Request -> CallState]
  BY <1>1 DEF TypeOK
<1>4. call'[r] = c /\ Only(r)
  BY <1>3 DEF Only
<1>5. Reserved(r)' /\ Holding(r)'
  BY <1>4 DEF Reserved, Holding
<1>6. PlacedAt(r)' /\ DatedAt(r)'
  BY <1>2, <1>4 DEF PlacedAt, DatedAt
<1>7. Counts(r)
  BY <1>1, <1>2, <1>4, <1>5, SameCounts
<1>8. Cools /\ Windows
  BY <1>1, Still
<1>9. Tells(r) /\ Looks(r)
  BY DEF Tells, Looks
<1>10. UNCHANGED now /\ faults' \in Nat /\ drains' \in Nat
  BY <1>1 DEF TypeOK
<1> QED
  BY <1>4, <1>6, <1>7, <1>8, <1>9, <1>10 DEF Effect

-----------------------------------------------------------------------------
(* The actions of a call but for its loads. *)

LEMMA ScanIsClean ==
  ASSUME PInv, NEW r \in Request, ~Stage(r, "answered")
  PROVE  call[r].header = None
BY DEF PInv, Dated, DatedAt

LEMMA PickEffect ==
  ASSUME PInv, NEW r \in Request,
         Pick(r) \/ Reserve(r) \/ WaitForReset(r) \/ Wake(r) \/ NoToken(r)
  PROVE  Effect(r)
<1>1. /\ TypeOK /\ PlacedAt(r)
  BY DEF PInv, Placed
<1>2. call \in [Request -> CallState] /\ scan[r] \in ScanState
  BY <1>1 DEF TypeOK
<1>3. Stage(r, "idle") \/ Stage(r, "scan") \/ Stage(r, "asleep")
  BY DEF Pick, Reserve, WaitForReset, Wake, NoToken, Scanned
<1>4. ~Reserved(r) /\ ~Holding(r) /\ ~Stage(r, "done") /\ call[r].header = None
  BY <1>3, ScanIsClean DEF Reserved, Holding
<1>5. Hears /\ Cools /\ Windows
  BY <1>1, Still DEF Pick, Reserve, WaitForReset, Wake, NoToken
<1>6. Looks(r)
  BY DEF Looks, Pick, Reserve, WaitForReset, Wake, NoToken
<1>7. UNCHANGED now /\ faults' \in Nat /\ drains' \in Nat
  BY <1>1 DEF TypeOK, Pick, Reserve, WaitForReset, Wake, NoToken
<1>8. CASE Pick(r) \/ WaitForReset(r) \/ Wake(r)
  <2>1. scan[r].wake \in Nat \cup {None}
    BY <1>2 DEF ScanState
  <2>2. /\ Only(r) /\ (Stage(r, "scan")' \/ Stage(r, "asleep")')
        /\ call'[r].origin = call[r].origin /\ call'[r].attempt = call[r].attempt
        /\ call'[r].header = call[r].header
    <3>1. CASE Pick(r)
      BY <1>1, <3>1, Staged DEF Pick
    <3>2. CASE WaitForReset(r)
      BY <1>1, <2>1, <3>2, Timed DEF WaitForReset
    <3>3. CASE Wake(r)
      BY <1>1, <3>3, Timed DEF Wake
    <3> QED
      BY <1>8, <3>1, <3>2, <3>3
  <2>3. ~Reserved(r)' /\ ~Holding(r)'
    BY <2>2 DEF Reserved, Holding
  <2>4. PlacedAt(r)' /\ DatedAt(r)'
    BY <1>1, <1>4, <2>2, <2>3 DEF PlacedAt, DatedAt
  <2>5. UNCHANGED <<inFlight, slots, redirects, outcome>>
    BY <1>8 DEF Pick, WaitForReset, Wake
  <2>6. Counts(r)
    BY <1>1, <1>4, <2>3, <2>5, SameCounts
  <2> QED
    BY <1>4, <1>5, <1>6, <1>7, <2>2, <2>4, <2>5, <2>6 DEF Effect, Tells
<1>9. CASE Reserve(r)
  <2> DEFINE t == scan[r].best
             o == IF call[r].attempt = 0 THEN t ELSE call[r].origin
  <2>1. t \in Token
    BY <1>2, <1>9 DEF Reserve, ScanState
  <2>2. o \in Token
    BY <1>1, <1>2, <2>1 DEF PlacedAt, CallState
  <2>3. call' = [call EXCEPT ![r].stage = "queued", ![r].tok = t, ![r].origin = o]
    BY <1>9 DEF Reserve
  <2>4. /\ inFlight' = [inFlight EXCEPT ![t] = @ + 1] /\ UNCHANGED <<slots, redirects, outcome>>
    BY <1>9 DEF Reserve
  <2> HIDE DEF t, o
  <2>5. /\ Only(r)
        /\ call'[r].stage = "queued" /\ call'[r].tok = t /\ call'[r].origin = o
        /\ call'[r].attempt = call[r].attempt /\ call'[r].header = call[r].header
    BY <1>1, <2>1, <2>2, <2>3, GivenToken
  <2>6. Reserved(r)' /\ ~Holding(r)'
    BY <2>5 DEF Reserved, Holding
  <2>7. PlacedAt(r)' /\ DatedAt(r)'
    BY <1>4, <2>1, <2>2, <2>5 DEF PlacedAt, DatedAt
  <2>8. Counts(r)
    <3>1. inFlight \in [Token -> Int] /\ redirects \in [Token -> Nat] /\ slots \in 0..Cap
      BY <1>1 DEF TypeOK
    <3>2. inFlight' \in [Token -> Int]
      BY <2>1, <2>4, <3>1
    <3>3. \A u \in Token : inFlight'[u] = inFlight[u] + (IF t = u THEN 1 ELSE 0)
      BY <2>1, <2>4, <3>1
    <3> QED
      BY <1>4, <2>4, <2>5, <2>6, <3>1, <3>2, <3>3, Bounds DEF Counts
  <2> QED
    BY <1>4, <1>5, <1>6, <1>7, <2>4, <2>5, <2>7, <2>8 DEF Effect, Tells
<1>10. CASE NoToken(r)
  <2>1. /\ Only(r) /\ Tells(r) /\ ~Reserved(r)' /\ ~Holding(r)' /\ PlacedAt(r)' /\ DatedAt(r)'
    BY <1>1, <1>10, Ending DEF NoToken, Outcome, Raw
  <2>2. Counts(r)
    BY <1>1, <1>4, <1>10, <2>1, SameCounts DEF NoToken
  <2> QED
    BY <1>5, <1>6, <1>7, <2>1, <2>2 DEF Effect
<1> QED
  BY <1>8, <1>9, <1>10

LEMMA SendEffect ==
  ASSUME PInv, NEW r \in Request, Acquire(r) \/ AskAgain(r)
  PROVE  Effect(r)
<1>1. /\ TypeOK /\ PlacedAt(r)
  BY DEF PInv, Placed
<1>2. call \in [Request -> CallState]
  BY <1>1 DEF TypeOK
<1>3. (Stage(r, "queued") \/ Stage(r, "backoff")) /\ Reserved(r)
  BY DEF Acquire, AskAgain, Reserved
<1>4. ~Stage(r, "done") /\ call[r].header = None
  BY <1>3, ScanIsClean
<1>5. /\ Only(r) /\ Stage(r, "sent")'
      /\ call'[r].tok = call[r].tok /\ call'[r].origin = call[r].origin
      /\ call'[r].attempt = call[r].attempt /\ call'[r].header = call[r].header
  BY <1>1, Staged, Timed DEF Acquire, AskAgain
<1>6. Reserved(r)' /\ Holding(r)'
  BY <1>5 DEF Reserved, Holding
<1>7. PlacedAt(r)' /\ DatedAt(r)'
  BY <1>1, <1>3, <1>4, <1>5 DEF PlacedAt, DatedAt
<1>8. Counts(r)
  <2>1. CASE AskAgain(r)
    <3>1. Holding(r)
      BY <2>1 DEF AskAgain, Holding
    <3> QED
      BY <1>1, <1>3, <1>5, <1>6, <2>1, <3>1, SameCounts DEF AskAgain
  <2>2. CASE Acquire(r)
    <3>1. ~Holding(r) /\ slots' = slots + 1 /\ slots < Cap /\ UNCHANGED <<inFlight, redirects>>
      BY <2>2 DEF Acquire, Holding
    <3>2. inFlight \in [Token -> Int] /\ redirects \in [Token -> Nat] /\ slots \in 0..Cap
      BY <1>1 DEF TypeOK
    <3> QED
      BY <1>3, <1>5, <1>6, <3>1, <3>2, Bounds DEF Counts
  <2> QED
    BY <2>1, <2>2
<1>9. Hears /\ Cools /\ Windows
  BY <1>1, Still DEF Acquire, AskAgain
<1>10. Tells(r) /\ Looks(r)
  BY <1>4 DEF Tells, Looks, Acquire, AskAgain
<1>11. UNCHANGED now /\ faults' \in Nat /\ drains' \in Nat
  BY <1>1 DEF TypeOK, Acquire, AskAgain
<1> QED
  BY <1>5, <1>7, <1>8, <1>9, <1>10, <1>11 DEF Effect

LEMMA AnswerEffect ==
  ASSUME PInv, NEW r \in Request, AnswerStep(r)
  PROVE  Effect(r)
<1>1. /\ TypeOK /\ PlacedAt(r)
  BY DEF PInv, Placed
<1>2. /\ call \in [Request -> CallState] /\ now \in Nat /\ faults \in Nat /\ drains \in Nat
      /\ left \in [Token -> 0..Quota] /\ ends \in [Token -> Nat]
  BY <1>1 DEF TypeOK
<1>3. Stage(r, "sent") /\ Reserved(r) /\ Holding(r)
  BY DEF AnswerStep, Serve, Refuse, Break, ServeUnmetered, Reserved, Holding
<1>4. call[r].tok \in Token
  BY <1>1, <1>3 DEF PlacedAt
<1>5. UNCHANGED <<now, drains, pool, scan, outcome, ghosts>>
  BY DEF AnswerStep, Serve, Refuse, Break, ServeUnmetered, Answered
<1>6. Windows
  <2>1. CASE Serve(r)
    BY <1>2, <1>4, <2>1, Bounds DEF Serve, Windows, Metered, NewWindow
  <2>2. CASE Refuse(r) \/ Break(r) \/ ServeUnmetered(r)
    BY <1>1, <2>2, Still DEF Refuse, Break, ServeUnmetered
  <2> QED
    BY <2>1, <2>2 DEF AnswerStep
<1>7. faults' \in Nat
  BY <1>2 DEF AnswerStep, Serve, Refuse, Break, ServeUnmetered
<1>8. PICK s \in {"ok", "limited"} \cup Counted \cup Uncounted, h \in Header \cup {None} :
        /\ Answered(r, s, h)
        /\ h # None => h.resetAt > 0 /\ (h.resetAt <= now \/ h.resetAt = ends'[call[r].tok])
  <2>1. CASE Serve(r)
    <3> DEFINE h == [remaining |-> left'[call[r].tok], resetAt |-> ends'[call[r].tok]]
    <3>1. PICK s \in {"ok"} \cup (Fault \cap Counted) : Answered(r, s, h)
      BY <2>1 DEF Serve
    <3>2. h \in Header
      BY <1>4, <1>6 DEF Windows, Header
    <3>3. ends'[call[r].tok] > 0
      BY <1>2, <1>4, <2>1, Bounds DEF Serve, Metered, NewWindow
    <3> QED
      BY <3>1, <3>2, <3>3
  <2>2. CASE Refuse(r)
    <3> DEFINE h == [remaining |-> 0, resetAt |-> ends[call[r].tok]]
    <3>1. Answered(r, "limited", h) /\ UNCHANGED ends /\ ends[call[r].tok] > now
      BY <2>2 DEF Refuse, Metered
    <3>2. h \in Header
      BY <1>2, <1>4, Bounds DEF Header
    <3>3. h.resetAt > 0 /\ h.resetAt = ends'[call[r].tok]
      BY <1>2, <1>4, <3>1
    <3> HIDE DEF h
    <3> QED
      BY <3>1, <3>2, <3>3
  <2>3. CASE Break(r) \/ ServeUnmetered(r)
    BY <2>3 DEF Break, ServeUnmetered
  <2> QED
    BY <2>1, <2>2, <2>3 DEF AnswerStep
<1>9. call' = [call EXCEPT ![r].stage = "answered", ![r].status = s, ![r].header = h]
  BY <1>8 DEF Answered
<1>10. /\ Only(r) /\ Stage(r, "answered")'
       /\ call'[r].tok = call[r].tok /\ call'[r].origin = call[r].origin
       /\ call'[r].attempt = call[r].attempt /\ call'[r].header = h
  BY <1>1, <1>9, GivenAnswer
<1>11. Reserved(r)' /\ Holding(r)'
  BY <1>10 DEF Reserved, Holding
<1>12. PlacedAt(r)'
  BY <1>1, <1>3, <1>10 DEF PlacedAt
<1>13. DatedAt(r)'
  BY <1>5, <1>8, <1>10 DEF DatedAt, Current
<1>14. Counts(r)
  BY <1>1, <1>3, <1>5, <1>10, <1>11, SameCounts
<1>15. Hears /\ Cools
  BY <1>1, <1>5, Still
<1>16. Tells(r) /\ Looks(r)
  BY <1>3, <1>5 DEF Tells, Looks
<1> QED
  BY <1>2, <1>5, <1>6, <1>7, <1>10, <1>12, <1>13, <1>14, <1>15, <1>16 DEF Effect

LEMMA CoolDownCools ==
  ASSUME TypeOK, NEW r \in Request, call[r].tok \in Token, NEW until \in Nat, CoolDown(r, until)
  PROVE  Cools
<1>1. abuseUntil \in [Token -> Nat]
  BY DEF TypeOK
<1>2. Later(abuseUntil[call[r].tok], until) \in Nat
      /\ Later(abuseUntil[call[r].tok], until) >= abuseUntil[call[r].tok]
  BY <1>1 DEF Later
<1>3. abuseUntil' = [abuseUntil EXCEPT ![call[r].tok] = Later(abuseUntil[call[r].tok], until)]
  BY DEF CoolDown
<1> QED
  BY <1>1, <1>2, <1>3 DEF Cools

LEMMA AbuseEffect ==
  ASSUME PInv, NEW r \in Request, Stage(r, "answered"), MarkSecondaryRateLimit(r)
  PROVE  Effect(r)
<1>1. TypeOK /\ Placed /\ Dated /\ Remembered /\ ArrivalOrderIrrelevant
  BY DEF PInv
<1>2. call[r].tok \in Token
  BY <1>1 DEF Placed, PlacedAt, Reserved
<1>3. Hears
  BY <1>1, UpdateHears DEF MarkSecondaryRateLimit
<1>4. known' \in [Token -> Header]
  BY <1>1, <1>3, HearsStep
<1>5. \E until \in Nat : CoolDown(r, until)
  <2> DEFINE t == call[r].tok
             prev == abuseUntil[t]
             repeated == prev > 0 /\ prev <= now /\ now - prev < RepeatWindow
             until == now + IF repeated THEN Escalated ELSE Base
             reset == known'[t].resetAt
             chosen == IF reset > now /\ reset < until THEN reset ELSE until
  <2>1. CoolDown(r, chosen)
    BY DEF MarkSecondaryRateLimit
  <2>2. reset \in Nat
    BY <1>2, <1>4 DEF Header
  <2>3. now \in Nat
    BY <1>1 DEF TypeOK
  <2> HIDE DEF repeated, reset
  <2>4. until \in Nat
    BY <2>3, Bounds
  <2> HIDE DEF until
  <2>5. chosen \in Nat
    BY <2>2, <2>4
  <2> QED
    BY <2>1, <2>5
<1>6. Cools
  BY <1>1, <1>2, <1>5, CoolDownCools
<1> QED
  BY <1>3, <1>6, RepickEffect DEF MarkSecondaryRateLimit

LEMMA RetryEffect ==
  ASSUME PInv, NEW r \in Request, Stage(r, "answered"),
         NEW m \in {"after429", "after403", "after5xx"}, Retry(r, m)
  PROVE  Effect(r)
<1>1. TypeOK /\ Placed /\ Dated
  BY DEF PInv
<1>2. call[r] \in CallState /\ now + Pause \in Nat
  BY <1>1, Bounds DEF TypeOK
<1> DEFINE c == [Handled(r) EXCEPT !.stage = "backoff", !.mode = m, !.wake = now + Pause]
<1>3. /\ c \in CallState /\ c.stage = "backoff" /\ c.tok = call[r].tok
      /\ c.origin = call[r].origin /\ c.attempt = call[r].attempt /\ c.header = None
  BY <1>2 DEF CallState, Handled
<1>4. call' = [call EXCEPT ![r] = c]
  BY DEF Retry
<1> HIDE DEF c
<1>5. Hears
  BY <1>1, UpdateHears DEF Retry
<1> QED
  BY <1>3, <1>4, <1>5, BackoffEffect DEF Retry

LEMMA RetryFailsEffect ==
  ASSUME PInv, NEW r \in Request, RetryFails(r)
  PROVE  Effect(r)
<1>1. TypeOK
  BY DEF PInv
<1>2. call[r] \in CallState /\ now + Pause \in Nat
  BY <1>1, Bounds DEF TypeOK
<1>3. Stage(r, "answered")
  BY DEF RetryFails
<1>4. CASE /\ call[r].tries < ServerRetries - 1
           /\ call' = [call EXCEPT ![r] = [Handled(r) EXCEPT !.stage = "backoff",
                                             !.tries = @ + 1, !.wake = now + Pause]]
           /\ UNCHANGED <<now, github, pool, scan, outcome, ghosts, faults>>
  <2> DEFINE c == [Handled(r) EXCEPT !.stage = "backoff", !.tries = @ + 1, !.wake = now + Pause]
  <2>1. call[r].tries \in 0..ServerRetries
    BY <1>2 DEF CallState
  <2>2. call[r].tries + 1 \in 0..ServerRetries
    BY <1>4, <2>1, Bounds
  <2>3. c = [Handled(r) EXCEPT !.stage = "backoff", !.tries = call[r].tries + 1, !.wake = now + Pause]
    BY DEF Handled
  <2> HIDE DEF c
  <2>4. /\ c \in CallState /\ c.stage = "backoff" /\ c.tok = call[r].tok
        /\ c.origin = call[r].origin /\ c.attempt = call[r].attempt /\ c.header = None
    BY <1>2, <2>2, <2>3 DEF CallState, Handled
  <2>5. call' = [call EXCEPT ![r] = c]
    BY <1>4 DEF c
  <2>6. Hears
    BY <1>1, <1>4, Still
  <2> QED
    BY <1>3, <1>4, <2>4, <2>5, <2>6, BackoffEffect
<1>5. CASE Return(r, "failed")
  BY <1>3, <1>5, ReturnEffect DEF Outcome, Raw
<1> QED
  BY <1>4, <1>5 DEF RetryFails

\* The one step that gives up one reservation for another, which it does not make.
LEMMA RedirectedEffect ==
  ASSUME PInv, NEW r \in Request, Redirected(r)
  PROVE  Effect(r)
<1>1. /\ TypeOK /\ Placed /\ Dated /\ PlacedAt(r)
  BY DEF PInv, Placed
<1>2. Stage(r, "answered") /\ Reserved(r) /\ Holding(r)
  BY DEF Redirected, Reserved, Holding
<1>3. call[r].tok \in Token /\ call[r].origin \in Token
  BY <1>1, <1>2 DEF PlacedAt
<1> DEFINE o == call[r].origin
           c == [NoCall EXCEPT !.stage = "queued", !.tok = o, !.origin = o, !.moved = TRUE]
<1>4. /\ c \in CallState /\ c.stage = "queued" /\ c.tok = o /\ c.origin = o
      /\ c.attempt = 0 /\ c.header = None
  BY <1>3, Blanks DEF CallState
<1>5. call' = [call EXCEPT ![r] = c]
  BY DEF Redirected
<1> HIDE DEF c
<1>6. call'[r] = c /\ Only(r)
  BY <1>1, <1>4, <1>5 DEF TypeOK, Only
<1>7. Reserved(r)' /\ ~Holding(r)'
  BY <1>4, <1>6 DEF Reserved, Holding
<1>8. PlacedAt(r)' /\ DatedAt(r)'
  BY <1>3, <1>4, <1>6 DEF PlacedAt, DatedAt
<1>9. Counts(r)
  <2>1. inFlight \in [Token -> Int] /\ redirects \in [Token -> Nat] /\ slots \in 0..Cap
    BY <1>1 DEF TypeOK
  <2>2. /\ inFlight' = [inFlight EXCEPT ![call[r].tok] = @ - 1] /\ slots' = slots - 1
        /\ redirects' = [redirects EXCEPT ![o] = @ + 1]
    BY DEF Redirected, Release
  <2> HIDE DEF o
  <2>3. inFlight' \in [Token -> Int] /\ redirects' \in [Token -> Nat]
    BY <1>3, <2>1, <2>2 DEF o
  <2>4. \A u \in Token : inFlight'[u] = inFlight[u] - (IF call[r].tok = u THEN 1 ELSE 0)
    BY <1>3, <2>1, <2>2
  <2>5. \A u \in Token : redirects'[u] = redirects[u] + (IF o = u THEN 1 ELSE 0)
    BY <1>3, <2>1, <2>2 DEF o
  <2>6. call'[r].tok = o
    BY <1>4, <1>6
  <2> QED
    BY <1>2, <1>7, <2>1, <2>2, <2>3, <2>4, <2>5, <2>6, Bounds DEF Counts
<1>10. Hears
  BY <1>1, <1>2, UpdateHears DEF Redirected
<1>11. Cools /\ Windows
  BY <1>1, Still DEF Redirected
<1>12. Tells(r) /\ Looks(r)
  BY <1>2 DEF Tells, Looks, Redirected
<1>13. UNCHANGED now /\ faults' \in Nat /\ drains' \in Nat
  BY <1>1 DEF TypeOK, Redirected
<1> QED
  BY <1>6, <1>8, <1>9, <1>10, <1>11, <1>12, <1>13 DEF Effect

LEMMA HandleEffect ==
  ASSUME PInv, NEW r \in Request, HandleStep(r)
  PROVE  Effect(r)
<1>1. TypeOK /\ Placed /\ Dated /\ now \in Nat
  BY DEF PInv, TypeOK
<1>2. Stage(r, "answered")
  BY DEF HandleStep, Served, ReturnedRaw, RateLimited, Abused, LooksLikeAbuse, ForbiddenRetried,
         ForbiddenReturned, Denied, ThrottledRetried, ThrottledAgain, ServerError, RetryFails,
         Fails, RefreshFailed, Redirected
<1>3. CASE Served(r)
  BY <1>2, <1>3, ReturnEffect DEF Served, Outcome, Raw
<1>4. CASE ReturnedRaw(r)
  BY <1>2, <1>4, ReturnEffect DEF ReturnedRaw, Outcome, Counted
<1>5. CASE RateLimited(r)
  BY <1>1, <1>2, <1>5, UpdateHears, Still, RepickEffect DEF RateLimited
<1>6. CASE Abused(r)
  BY <1>2, <1>6, AbuseEffect DEF Abused
<1>7. CASE ForbiddenRetried(r)
  BY <1>2, <1>7, RetryEffect DEF ForbiddenRetried
<1>8. CASE ForbiddenReturned(r)
  BY <1>2, <1>8, ReturnEffect DEF ForbiddenReturned, Outcome, Counted, Raw
<1>9. CASE ThrottledRetried(r)
  BY <1>2, <1>9, RetryEffect DEF ThrottledRetried
<1>10. CASE ThrottledAgain(r)
  BY <1>2, <1>10, AbuseEffect DEF ThrottledAgain
<1>11. CASE ServerError(r)
  BY <1>2, <1>11, RetryEffect DEF ServerError
<1>12. CASE RetryFails(r)
  BY <1>12, RetryFailsEffect
<1>13. CASE Fails(r)
  BY <1>2, <1>13, ReturnEffect DEF Fails, Outcome, Raw
<1>14. CASE RefreshFailed(r)
  <2>1. call[r].tok \in Token
    BY <1>1, <1>2 DEF Placed, PlacedAt, Reserved
  <2>2. now + Escalated \in Nat
    BY <1>1, Bounds
  <2>3. Hears
    BY <1>1, <1>14, Still DEF RefreshFailed
  <2> QED
    BY <1>1, <1>2, <1>14, <2>1, <2>2, <2>3, CoolDownCools, RepickEffect DEF RefreshFailed
<1>15. CASE Redirected(r)
  BY <1>15, RedirectedEffect
<1> QED
  BY <1>3, <1>4, <1>5, <1>6, <1>7, <1>8, <1>9, <1>10, <1>11, <1>12, <1>13, <1>14, <1>15
     DEF HandleStep

LEMMA CancelledEffect ==
  ASSUME PInv, NEW r \in Request, Cancelled(r)
  PROVE  Effect(r)
<1>1. TypeOK /\ PlacedAt(r)
  BY DEF PInv, Placed
<1>2. /\ Only(r) /\ Tells(r) /\ ~Reserved(r)' /\ ~Holding(r)' /\ PlacedAt(r)' /\ DatedAt(r)'
  BY <1>1, Ending DEF Cancelled, Outcome, Raw
<1>3. Counts(r)
  <2>1. CASE Stage(r, "asleep") /\ UNCHANGED <<inFlight, slots>>
    <3>1. ~Reserved(r) /\ ~Holding(r)
      BY <2>1 DEF Reserved, Holding
    <3> QED
      BY <1>1, <1>2, <2>1, <3>1, SameCounts DEF Cancelled
  <2>2. CASE /\ Stage(r, "queued")
             /\ inFlight' = [inFlight EXCEPT ![call[r].tok] = @ - 1] /\ UNCHANGED slots
    <3>1. Reserved(r) /\ ~Holding(r)
      BY <2>2 DEF Reserved, Holding
    <3>2. call[r].tok \in Token
      BY <1>1, <3>1 DEF PlacedAt
    <3>3. /\ inFlight \in [Token -> Int] /\ redirects \in [Token -> Nat] /\ slots \in 0..Cap
          /\ UNCHANGED redirects
      BY <1>1 DEF TypeOK, Cancelled
    <3>4. /\ inFlight' \in [Token -> Int]
          /\ \A u \in Token : inFlight'[u] = inFlight[u] - (IF call[r].tok = u THEN 1 ELSE 0)
      BY <2>2, <3>2, <3>3
    <3> QED
      BY <1>2, <2>2, <3>1, <3>3, <3>4, Bounds DEF Counts
  <2>3. CASE (Stage(r, "sent") \/ Stage(r, "backoff")) /\ Release(r)
    <3>1. Reserved(r) /\ Holding(r)
      BY <2>3 DEF Reserved, Holding
    <3> QED
      BY <1>1, <1>2, <2>3, <3>1, ReleasedCounts DEF Cancelled
  <2> QED
    BY <2>1, <2>2, <2>3 DEF Cancelled
<1>4. Hears /\ Cools /\ Windows
  BY <1>1, Still DEF Cancelled
<1>5. Looks(r) /\ UNCHANGED now /\ faults' \in Nat /\ drains' \in Nat
  BY <1>1 DEF TypeOK, Looks, Cancelled
<1> QED
  BY <1>2, <1>3, <1>4, <1>5 DEF Effect

-----------------------------------------------------------------------------
(* The loads of a scan, and the steps that no call takes. *)

\* Load and Weigh disturb nothing but the scan.
LEMMA LoadStep ==
  ASSUME PInv, NEW r \in Request, NEW s \in ScanState,
         scan' = [scan EXCEPT ![r] = s], RestingAt(r)',
         UNCHANGED <<now, github, pool, call, outcome, ghosts, faults>>
  PROVE  PInv'
<1>1. scan \in [Request -> ScanState]
  BY DEF PInv, TypeOK
<1>2. TypeOK'
  BY <1>1 DEF PInv, TypeOK
<1>3. \A q \in Request \ {r} : scan'[q] = scan[q]
  BY <1>1
<1>4. ASSUME NEW q \in Request \ {r}
      PROVE  RestingAt(q)'
  <2>1. scan'[q] = scan[q] /\ RestingAt(q)
    BY <1>3 DEF PInv, Resting
  <2>2. UNCHANGED <<now, pool, ghosts, call>>
    OBVIOUS
  <2> QED
    BY ONLY <2>1, <2>2 DEF RestingAt, OutFor, At, Tokens, Stage, pool, ghosts
<1>5. Resting'
  BY <1>4 DEF Resting
<1>6. InFlightExact'
  BY DEF PInv, InFlightExact, Reserved, Holding
<1>7. Placed' /\ Dated' /\ Remembered' /\ ArrivalOrderIrrelevant'
  BY DEF PInv, Placed, PlacedAt, Reserved, Dated, DatedAt, Current, Remembered,
         ArrivalOrderIrrelevant
<1>8. Ended' /\ OnlyServerRetriesLeak'
  BY DEF PInv, Ended, OnlyServerRetriesLeak
<1> QED
  BY <1>2, <1>5, <1>6, <1>7, <1>8 DEF PInv

LEMMA LoadKeeps ==
  ASSUME PInv, NEW r \in Request, Load(r)
  PROVE  PInv'
<1>1. /\ scan[r] \in ScanState /\ scan \in [Request -> ScanState] /\ known \in [Token -> Header]
      /\ RestingAt(r)
  BY DEF PInv, TypeOK, Resting
<1>2. At(r) \in Token /\ scan[r].at <= Len(Tokens(r))
  BY AtIsToken DEF Load, PInv
<1> DEFINE s == [scan[r] EXCEPT !.seen = known[At(r)].remaining]
<1>3. known[At(r)].remaining \in 0..Quota
  BY <1>1, <1>2 DEF Header
<1>4. /\ s \in ScanState /\ s.at = scan[r].at /\ s.best = scan[r].best
      /\ s.seen = known[At(r)].remaining
  BY <1>1, <1>3 DEF ScanState
<1>5. scan' = [scan EXCEPT ![r] = s] /\ UNCHANGED <<now, github, pool, call, outcome, ghosts, faults>>
  BY DEF Load
<1> HIDE DEF s
<1>6. scan'[r] = s
  BY <1>1, <1>5
<1>7. Stage(r, "scan")' /\ Tokens(r)' = Tokens(r) /\ At(r)' = At(r)
  BY <1>4, <1>5, <1>6 DEF At, Tokens, Load
<1>8. RestingAt(r)'
  BY <1>1, <1>2, <1>4, <1>5, <1>6, <1>7 DEF RestingAt, OutFor
<1> QED
  BY <1>4, <1>5, <1>8, LoadStep

LEMMA WeighKeeps ==
  ASSUME PInv, NEW r \in Request, Weigh(r)
  PROVE  PInv'
<1>1. /\ scan[r] \in ScanState /\ scan \in [Request -> ScanState]
      /\ known \in [Token -> Header] /\ abuseUntil \in [Token -> Nat]
      /\ inFlight \in [Token -> Int] /\ barred \in [Request -> [Token -> Nat]] /\ now \in Nat
      /\ RestingAt(r)
  BY DEF PInv, TypeOK, Resting
<1>2. scan[r].seen # None
  BY DEF Weigh
<1>3. At(r) \in Token
  BY <1>1, <1>2, AtIsToken DEF RestingAt, PInv
<1>4. UNCHANGED <<now, github, pool, call, outcome, ghosts, faults>>
  BY DEF Weigh
<1> DEFINE t == At(r)
           exhausted == Exhausted(scan[r].seen, known[t].resetAt)
           cooling == abuseUntil[t] > now
           score == scan[r].seen - inFlight[t]
           next == [scan[r] EXCEPT !.at = @ + 1, !.seen = None]
<1>5. /\ next \in ScanState /\ next.seen = None /\ next.best = scan[r].best
  <2>1. scan[r].at + 1 \in Nat \ {0}
    BY <1>1 DEF ScanState
  <2>2. next = [scan[r] EXCEPT !.at = scan[r].at + 1, !.seen = None]
    OBVIOUS
  <2> HIDE DEF next
  <2> QED
    BY <1>1, <2>1, <2>2 DEF ScanState
<1>6. known[t].resetAt \in Nat /\ abuseUntil[t] \in Nat /\ inFlight[t] \in Int
  BY <1>1, <1>3 DEF Header
<1>7. scan[r].seen \in Nat /\ score \in Int
  BY <1>1, <1>2, <1>6, Bounds DEF ScanState
<1>8. \A w \in Nat : Earlier(next.wake, w) \in Nat
  BY <1>5 DEF Earlier, ScanState
<1>9. scan' = [scan EXCEPT ![r] =
         CASE exhausted -> [next EXCEPT !.wake = Earlier(@, known[t].resetAt)]
           [] ~exhausted /\ cooling -> [next EXCEPT !.wake = Earlier(@, abuseUntil[t])]
           [] ~exhausted /\ ~cooling /\ (next.best = None \/ score > next.score) ->
                [next EXCEPT !.best = t, !.score = score]
           [] OTHER -> next]
  BY DEF Weigh
<1>10. ~exhausted /\ ~cooling => barred[r][t] <= now
  BY <1>1, <1>2, <1>3, <1>6, <1>7 DEF RestingAt, OutFor, Exhausted
<1> HIDE DEF t, exhausted, cooling, score, next
<1>11. \E s \in ScanState :
         /\ scan' = [scan EXCEPT ![r] = s] /\ s.seen = None
         /\ s.best # None => barred[r][s.best] <= now
  <2>1. CASE exhausted
    <3>1. scan' = [scan EXCEPT ![r] = [next EXCEPT !.wake = Earlier(next.wake, known[t].resetAt)]]
      BY <1>9, <2>1
    <3>2. Earlier(next.wake, known[t].resetAt) \in Nat
      BY <1>6, <1>8
    <3> DEFINE s == [next EXCEPT !.wake = Earlier(next.wake, known[t].resetAt)]
    <3>3. s \in ScanState /\ s.seen = None /\ s.best = scan[r].best
      BY <1>5, <3>2 DEF ScanState
    <3> HIDE DEF s
    <3> QED
      BY <1>1, <3>1, <3>3 DEF RestingAt, s
  <2>2. CASE ~exhausted /\ cooling
    <3>1. scan' = [scan EXCEPT ![r] = [next EXCEPT !.wake = Earlier(next.wake, abuseUntil[t])]]
      BY <1>9, <2>2
    <3>2. Earlier(next.wake, abuseUntil[t]) \in Nat
      BY <1>6, <1>8
    <3> DEFINE s == [next EXCEPT !.wake = Earlier(next.wake, abuseUntil[t])]
    <3>3. s \in ScanState /\ s.seen = None /\ s.best = scan[r].best
      BY <1>5, <3>2 DEF ScanState
    <3> HIDE DEF s
    <3> QED
      BY <1>1, <3>1, <3>3 DEF RestingAt, s
  <2>3. CASE ~exhausted /\ ~cooling /\ (next.best = None \/ score > next.score)
    <3>1. scan' = [scan EXCEPT ![r] = [next EXCEPT !.best = t, !.score = score]]
      BY <1>9, <2>3
    <3> DEFINE s == [next EXCEPT !.best = t, !.score = score]
    <3>2. t \in Token
      BY <1>3 DEF t
    <3>3. s \in ScanState /\ s.seen = None /\ s.best = t
      BY <1>5, <1>7, <3>2 DEF ScanState
    <3> HIDE DEF s
    <3> QED
      BY <1>10, <2>3, <3>1, <3>3 DEF s
  <2>4. CASE ~exhausted /\ ~cooling /\ ~(next.best = None \/ score > next.score)
    <3>1. scan' = [scan EXCEPT ![r] = next]
      BY <1>9, <2>4
    <3> QED
      BY <1>1, <1>5, <3>1 DEF RestingAt
  <2> QED
    BY <2>1, <2>2, <2>3, <2>4
<1>12. PICK s \in ScanState :
         /\ scan' = [scan EXCEPT ![r] = s] /\ s.seen = None
         /\ s.best # None => barred[r][s.best] <= now
  BY <1>11
<1>13. scan'[r] = s
  BY <1>1, <1>12
<1>14. RestingAt(r)'
  BY <1>1, <1>4, <1>12, <1>13 DEF RestingAt, OutFor
<1> QED
  BY <1>4, <1>12, <1>14, LoadStep

\* Time passes, other clients use up quota, or nothing happens.
LEMMA OtherStep ==
  ASSUME PInv, Tick \/ (\E t \in Token : Drain(t)) \/ UNCHANGED vars
  PROVE  PInv'
<1>1. TypeOK /\ Resting
  BY DEF PInv
<1>2. now \in Nat /\ now' \in Nat /\ now' >= now
  BY <1>1 DEF TypeOK, Tick, Drain, vars
<1>3. UNCHANGED <<ends, pool, scan, call, outcome, ghosts>>
  BY DEF Tick, Drain, vars
<1>4. left' \in [Token -> 0..Quota] /\ faults' \in Nat /\ drains' \in Nat
  <2>1. CASE Tick \/ UNCHANGED vars
    BY <1>1, <2>1 DEF TypeOK, Tick, vars
  <2>2. ASSUME NEW t \in Token, Drain(t)
        PROVE  left' \in [Token -> 0..Quota] /\ faults' \in Nat /\ drains' \in Nat
    BY <1>1, <2>2, Bounds DEF TypeOK, Drain
  <2> QED
    BY <2>1, <2>2
<1>5. TypeOK'
  BY <1>1, <1>2, <1>3, <1>4 DEF TypeOK
<1>6. known' \in [Token -> Header] /\ Cools
  BY <1>3, <1>5 DEF TypeOK, Cools
<1>7. Resting'
  <2>1. SUFFICES ASSUME NEW q \in Request
        PROVE  RestingAt(q)'
    BY DEF Resting
  <2>2. \A t \in Token : known[t].resetAt > now' =>
           known'[t].resetAt = known[t].resetAt /\ known'[t].remaining <= known[t].remaining
    BY <1>1, <1>3 DEF TypeOK, Header
  <2>3. UNCHANGED <<scan[q], barred[q], call[q]>>
    BY <1>3
  <2> QED
    BY <1>1, <1>2, <1>6, <2>2, <2>3, RestStep
<1>8. InFlightExact'
  BY <1>3 DEF PInv, InFlightExact, Reserved, Holding
<1>9. Placed' /\ Remembered' /\ ArrivalOrderIrrelevant' /\ Ended' /\ OnlyServerRetriesLeak'
  BY <1>3 DEF PInv, Placed, PlacedAt, Reserved, Remembered, ArrivalOrderIrrelevant, Ended,
              OnlyServerRetriesLeak
<1>10. Dated'
  <2>1. \A t \in Token : Current(known[t], t)'
    BY <1>1, <1>2, <1>3 DEF PInv, Dated, Current, TypeOK, Header
  <2>2. ASSUME NEW q \in Request
        PROVE  DatedAt(q)'
    <3>1. DatedAt(q) /\ call[q].header \in Header \cup {None}
      BY <1>1 DEF PInv, Dated, TypeOK, CallState
    <3> QED
      BY <1>2, <1>3, <3>1 DEF DatedAt, Current, Header
  <2> QED
    BY <2>1, <2>2 DEF Dated
<1> QED
  BY <1>5, <1>7, <1>8, <1>9, <1>10 DEF PInv

-----------------------------------------------------------------------------
(* The theorems. *)

LEMMA InitInv == ASSUME Init PROVE PInv
<1>1. TypeOK
  BY Bounds, Blanks DEF Init, TypeOK, Header
<1>2. \A r \in Request : call[r] = NoCall /\ scan[r] = NoScan /\ ~Reserved(r) /\ ~Holding(r)
  BY DEF Init, NoCall, Reserved, Holding
<1>3. InFlightExact
  <2>1. Cardinality({}) = 0
    BY FS_EmptySet
  <2>2. ASSUME NEW t \in Token
        PROVE  inFlight[t] + redirects[t] = Cardinality({r \in Request : Reserved(r) /\ call[r].tok = t})
    <3>1. {r \in Request : Reserved(r) /\ call[r].tok = t} = {}
      BY <1>2
    <3>2. inFlight[t] + redirects[t] = 0
      BY DEF Init
    <3> QED
      BY <2>1, <3>1, <3>2
  <2>3. slots = Cardinality({r \in Request : Holding(r)})
    <3>1. {r \in Request : Holding(r)} = {}
      BY <1>2
    <3>2. slots = 0
      BY DEF Init
    <3> QED
      BY <2>1, <3>1, <3>2
  <2> QED
    BY <2>2, <2>3 DEF InFlightExact
<1>4. Placed
  BY <1>2, Blanks DEF Placed, PlacedAt
<1>5. Dated
  BY <1>2, Blanks DEF Dated, DatedAt, Current, Init
<1>6. Remembered /\ ArrivalOrderIrrelevant
  BY DEF Remembered, ArrivalOrderIrrelevant, Init
<1>7. Resting
  <2>1. \A r \in Request : scan[r].seen = None /\ scan[r].best = None
    BY <1>2 DEF NoScan
  <2>2. \A r \in Request, t \in Token : barred[r][t] = 0 /\ now = 1
    BY DEF Init, NotBarred
  <2> QED
    BY <2>1, <2>2 DEF Resting, RestingAt
<1>8. Ended /\ OnlyServerRetriesLeak
  BY DEF Ended, OnlyServerRetriesLeak, Init
<1> QED
  BY <1>1, <1>3, <1>4, <1>5, <1>6, <1>7, <1>8 DEF PInv

\* Every step of the pool keeps the inductive invariant.
THEOREM NextInv == PInv /\ [Next]_vars => PInv'
<1> SUFFICES ASSUME PInv, [Next]_vars PROVE PInv'
  OBVIOUS
<1>1. ASSUME NEW r \in Request, Pick(r) \/ CallStep(r) \/ Cancelled(r)
      PROVE  PInv'
  <2>1. CASE Pick(r) \/ Reserve(r) \/ WaitForReset(r) \/ Wake(r) \/ NoToken(r)
    BY <2>1, PickEffect, EffectStep
  <2>2. CASE Load(r)
    BY <2>2, LoadKeeps
  <2>3. CASE Weigh(r)
    BY <2>3, WeighKeeps
  <2>4. CASE Acquire(r) \/ AskAgain(r)
    BY <2>4, SendEffect, EffectStep
  <2>5. CASE AnswerStep(r)
    BY <2>5, AnswerEffect, EffectStep
  <2>6. CASE HandleStep(r)
    BY <2>6, HandleEffect, EffectStep
  <2>7. CASE Cancelled(r)
    BY <2>7, CancelledEffect, EffectStep
  <2> QED
    BY <1>1, <2>1, <2>2, <2>3, <2>4, <2>5, <2>6, <2>7 DEF CallStep, PickStep
<1>2. CASE Tick \/ (\E t \in Token : Drain(t)) \/ UNCHANGED vars
  BY <1>2, OtherStep
<1> QED
  BY <1>1, <1>2 DEF Next

\* The inductive invariant holds in every state that the pool reaches.
THEOREM Invariant == Spec => []PInv
<1>1. PInv /\ [Next]_vars => PInv'
  BY NextInv
<1> QED
  BY InitInv, <1>1, PTL DEF Spec

\* Every variable keeps to its type: in particular no slot beyond the cap is ever taken
\* (acquireInFlight), and no retry counter passes its bound.
THEOREM TypeCorrect == Spec => []TypeOK
BY Invariant, PTL DEF PInv

\* The reservations and the semaphore count exactly the calls that hold them
\* (doRoundTrip's deferred releases), whatever happens to a call.
THEOREM CountersExact == Spec => []InFlightExact
BY Invariant, PTL DEF PInv

\* What the pool believes of a token does not depend on the order in which answers arrive
\* (updateRateLimitHeaders).
THEOREM OrderIrrelevant == Spec => []ArrivalOrderIrrelevant
BY Invariant, PTL DEF PInv

\* No raw throttle answer reaches a caller but out of the loop of 5xx retries
\* (doRoundTrip's branches on the status).
THEOREM LeaksAreRetries == Spec => []OnlyServerRetriesLeak
BY Invariant, PTL DEF PInv

\* A scan assigns no token that was out of quota or in its cooldown when the scan began and
\* still is (tryPick, whose loads other calls interleave with).
THEOREM OutRests == Spec => OutMeansRest
<1> DEFINE Rest == \A r \in Request :
             Stage(r, "scan") /\ Stage(r, "queued")' => barred[r][call'[r].tok] <= now
<1>1. PInv /\ [Next]_vars => [Rest]_vars
  <2> SUFFICES ASSUME PInv, Next PROVE Rest
    OBVIOUS
  <2> SUFFICES ASSUME NEW r \in Request, Stage(r, "scan"), Stage(r, "queued")'
               PROVE  barred[r][call'[r].tok] <= now
    OBVIOUS
  <2>1. call \in [Request -> CallState] /\ scan[r] \in ScanState /\ RestingAt(r)
    BY DEF PInv, TypeOK, Resting
  <2>2. call'[r] # call[r]
    OBVIOUS
  <2>3. Reserve(r)
    <3>1. PICK q \in Request : Pick(q) \/ CallStep(q) \/ Cancelled(q)
      BY <2>2 DEF Next, Drain, Tick
    <3>2. q = r
      <4>1. CASE Load(q) \/ Weigh(q)
        BY <2>2, <4>1 DEF Load, Weigh
      <4>2. CASE Effect(q)
        BY <2>2, <4>2 DEF Effect, Only
      <4> QED
        BY <3>1, <4>1, <4>2, PickEffect, SendEffect, AnswerEffect, HandleEffect, CancelledEffect
           DEF CallStep, PickStep
    <3>3. Load(r) \/ Weigh(r) \/ Reserve(r) \/ WaitForReset(r) \/ NoToken(r)
      BY <3>1, <3>2 DEF Pick, CallStep, PickStep, Wake, Acquire, AnswerStep, Serve, Refuse, Break,
           ServeUnmetered, HandleStep, Served, ReturnedRaw, RateLimited, Abused, LooksLikeAbuse,
           ForbiddenRetried, ForbiddenReturned, Denied, ThrottledRetried, ThrottledAgain,
           ServerError, RetryFails, Fails, RefreshFailed, Redirected, AskAgain, Cancelled
    <3>4. ~Load(r) /\ ~Weigh(r)
      BY <2>2 DEF Load, Weigh
    <3>5. ~WaitForReset(r)
      <4> SUFFICES ASSUME WaitForReset(r) PROVE FALSE
        OBVIOUS
      <4>1. scan[r].wake \in Nat
        BY <2>1 DEF WaitForReset, ScanState
      <4>2. call'[r].stage = "asleep"
        BY <4>1, Timed DEF WaitForReset, PInv
      <4> QED
        BY <4>2
    <3>6. ~NoToken(r)
      <4> SUFFICES ASSUME NoToken(r) PROVE FALSE
        OBVIOUS
      <4>1. Stage(r, "done")'
        BY Ending DEF NoToken, PInv, Outcome
      <4> QED
        BY <4>1
    <3> QED
      BY <3>3, <3>4, <3>5, <3>6
  <2> DEFINE t == scan[r].best
             o == IF call[r].attempt = 0 THEN t ELSE call[r].origin
  <2>4. t \in Token /\ t # None
    BY <2>1, <2>3 DEF Reserve, ScanState
  <2>5. o \in Token \cup {None}
    BY <2>1, <2>4 DEF CallState
  <2>6. call' = [call EXCEPT ![r].stage = "queued", ![r].tok = t, ![r].origin = o]
    BY <2>3 DEF Reserve
  <2> HIDE DEF t, o
  <2>7. call'[r].tok = t
    BY <2>4, <2>5, <2>6, GivenToken DEF PInv
  <2> QED
    BY <2>1, <2>4, <2>7 DEF RestingAt, t
<1>2. Spec => [][Rest]_vars
  BY <1>1, Invariant, PTL DEF Spec
<1> QED
  BY <1>2 DEF OutMeansRest
=============================================================================
