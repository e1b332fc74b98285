------------------------------ MODULE SweepProofs ------------------------------
(***************************************************************************)
(* The safety properties of Sweep hold for any organisation, any set of    *)
(* configurations and any freshness of the cached list.                    *)
(*                                                                         *)
(* The argument: the cached list may lag behind GitHub only for            *)
(* repositories that changed since it was fetched, so a list young enough  *)
(* to be used names every repository that has been live for longer; and a  *)
(* run judges what it discovered before it stamps.                         *)
(***************************************************************************)
EXTENDS Sweep, TLAPS

\* A repository that has been what it is for longer than the list is old is in
\* the list as it is.
CacheTrue == \A r \in Repo : cache # NoRows /\ settled[r] > age => cache[r] = Live[r]

\* What the run owes was there when it began.
OwedWasPushed == \A r \in Repo : owed[r] <= pushed[r]

\* A repository whose goroutine has returned, or that has none, owes nothing.
SweptIsPaid == phase = "sweep" => \A r \in Repo \ todo : judged[r] >= owed[r]

\* What the run judged, it judged under the configuration it was started with.
FreshUnderRules == \A r \in fresh : rules \in under[r]

\* The inductive invariant.
SInv ==
    /\ TypeOK
    /\ CacheTrue /\ OwedWasPushed /\ SweptIsPaid /\ FreshUnderRules
    /\ phase # "idle" => outcome = "none"
    /\ outcome = "stamped" => stamp = rules
    /\ StampCoversTheOrg

-----------------------------------------------------------------------------
LEMMA OldIsNat == Old \in Nat /\ Old > Freshness /\ Old > 0
BY SweepAssumption DEF Old

LEMMA OlderInRange == \A n \in 0..Old : Older(n) \in 0..Old
BY OldIsNat DEF Older

LEMMA LiveIsFunction ==
    Live \in [Repo -> {None, "live", "archived"}] /\ NoRows \in [Repo -> {None, "live", "archived"}]
BY DEF Live, NoRows

\* SInv gives what the run checks.
THEOREM StampInvariants == SInv => StampCoversTheOrg /\ StampNamesItsRules
BY DEF SInv, StampNamesItsRules, FreshUnderRules

LEMMA InitInv == Init => SInv
<1> SUFFICES ASSUME Init PROVE SInv
  OBVIOUS
<1>1. TypeOK
  BY SweepAssumption, OldIsNat, LiveIsFunction DEF Init, TypeOK, States, Nobody
<1>2. CacheTrue /\ OwedWasPushed /\ SweptIsPaid /\ FreshUnderRules /\ StampCoversTheOrg
  BY DEF Init, CacheTrue, OwedWasPushed, SweptIsPaid, FreshUnderRules, StampCoversTheOrg, Nobody
<1> QED
  BY <1>1, <1>2 DEF Init, SInv

-----------------------------------------------------------------------------
(* The surroundings. *)

LEMMA PushStep ==
    ASSUME SInv, NEW r \in Repo, Push(r)
    PROVE  SInv'
<1> USE DEF Push, table, listing, run
<1>1. TypeOK'
  BY SweepAssumption DEF SInv, TypeOK
<1>2. CacheTrue' /\ OwedWasPushed'
  BY SweepAssumption DEF SInv, TypeOK, CacheTrue, OwedWasPushed, Live
<1>3. SweptIsPaid' /\ FreshUnderRules' /\ StampCoversTheOrg'
  BY DEF SInv, SweptIsPaid, FreshUnderRules, StampCoversTheOrg
<1> QED
  BY <1>1, <1>2, <1>3 DEF SInv

LEMMA ChangeStep ==
    ASSUME SInv, NEW r \in Repo, Change(r)
    PROVE  SInv'
<1> USE DEF Change, table, listing, run
<1>1. PICK s \in States : state' = [state EXCEPT ![r] = s]
  OBVIOUS
<1>2. TypeOK'
  BY <1>1, SweepAssumption, OldIsNat DEF SInv, TypeOK
<1>3. CacheTrue'
  <2> SUFFICES ASSUME NEW q \in Repo, cache # NoRows, settled'[q] > age PROVE cache[q] = Live'[q]
    BY DEF CacheTrue
  <2>1. q # r
    BY OldIsNat DEF SInv, TypeOK
  <2>2. settled'[q] = settled[q] /\ state'[q] = state[q]
    BY <1>1, <2>1 DEF SInv, TypeOK
  <2> QED
    BY <2>2 DEF SInv, CacheTrue, Live
<1>4. OwedWasPushed' /\ SweptIsPaid' /\ FreshUnderRules' /\ StampCoversTheOrg'
  BY DEF SInv, OwedWasPushed, SweptIsPaid, FreshUnderRules, StampCoversTheOrg
<1> QED
  BY <1>2, <1>3, <1>4 DEF SInv

LEMMA TickStep ==
    ASSUME SInv, Tick
    PROVE  SInv'
<1> USE DEF Tick, table, run
<1>1. TypeOK'
  BY OlderInRange DEF SInv, TypeOK
<1>2. CacheTrue'
  <2> SUFFICES ASSUME NEW q \in Repo, cache # NoRows, settled'[q] > age' PROVE cache[q] = Live'[q]
    BY DEF CacheTrue
  <2>1. settled[q] > age
    BY OldIsNat DEF SInv, TypeOK, Older
  <2> QED
    BY <2>1 DEF SInv, CacheTrue, Live
<1>3. OwedWasPushed' /\ SweptIsPaid' /\ FreshUnderRules' /\ StampCoversTheOrg'
  BY DEF SInv, OwedWasPushed, SweptIsPaid, FreshUnderRules, StampCoversTheOrg
<1> QED
  BY <1>1, <1>2, <1>3 DEF SInv

LEMMA EditStep ==
    ASSUME SInv, EditConfig
    PROVE  SInv'
<1> USE DEF EditConfig, github, table, listing, run
<1>1. TypeOK'
  BY SweepAssumption DEF SInv, TypeOK
<1> QED
  BY <1>1 DEF SInv, CacheTrue, Live, OwedWasPushed, SweptIsPaid, FreshUnderRules, StampCoversTheOrg

LEMMA ReAuditStep ==
    ASSUME SInv, NEW repos \in SUBSET Repo, ReAudit(repos)
    PROVE  SInv'
<1> USE DEF ReAudit, github, listing, run
<1>1. TypeOK'
  BY DEF SInv, TypeOK
<1>2. FreshUnderRules'
  BY DEF SInv, TypeOK, FreshUnderRules
<1>3. CacheTrue' /\ OwedWasPushed' /\ SweptIsPaid' /\ StampCoversTheOrg'
  BY DEF SInv, CacheTrue, Live, OwedWasPushed, SweptIsPaid, StampCoversTheOrg
<1> QED
  BY <1>1, <1>2, <1>3 DEF SInv

-----------------------------------------------------------------------------
(* The run. *)

LEMMA StartStep ==
    ASSUME SInv, NEW k \in {"cached", "live", "explicit"}, Start(k)
    PROVE  SInv'
<1> USE DEF Start, github, table, listing
<1>1. TypeOK'
  BY DEF SInv, TypeOK
<1>2. FreshUnderRules' /\ SweptIsPaid' /\ StampCoversTheOrg'
  BY DEF FreshUnderRules, SweptIsPaid, StampCoversTheOrg
<1>3. CacheTrue' /\ OwedWasPushed'
  BY DEF SInv, CacheTrue, Live, OwedWasPushed
<1> QED
  BY <1>1, <1>2, <1>3 DEF SInv

\* The cached list stays true: it is the old one, none, or what GitHub says now.
LEMMA ListingStep ==
    ASSUME SInv, UNCHANGED <<state, settled>>,
           UNCHANGED listing \/ Cached \/ CacheCut
    PROVE  /\ CacheTrue'
           /\ cache' \in [Repo -> {None, "live", "archived"}] /\ age' \in 0..Old
<1>1. CASE UNCHANGED listing
  BY <1>1 DEF SInv, TypeOK, CacheTrue, Live, listing
<1>2. CASE Cached
  BY <1>2, LiveIsFunction, OldIsNat DEF CacheTrue, Live, Cached
<1>3. CASE CacheCut
  BY <1>3, LiveIsFunction DEF SInv, TypeOK, CacheTrue, Live, CacheCut
<1> QED
  BY <1>1, <1>2, <1>3

\* A list that names whatever is owed starts a sweep.
LEMMA DiscoveredStep ==
    ASSUME SInv, phase = "discover",
           NEW repos \in SUBSET Repo, NEW among \in SUBSET Repo, Discovered(repos, among),
           \A r \in among \ repos : state[r] # "live" \/ settled[r] # Old,
           UNCHANGED listing \/ Cached \/ CacheCut,
           faults' \in 0..MaxFault
    PROVE  SInv'
<1> USE DEF Discovered, github, table
<1>1. /\ owed' \in [Repo -> 0..MaxPush]
      /\ \A r \in Repo : /\ owed'[r] <= pushed[r]
                         /\ r \notin repos => owed'[r] = 0
  BY SweepAssumption DEF Owed, SInv, TypeOK
<1>2. TypeOK'
  BY <1>1, ListingStep DEF SInv, TypeOK
<1>3. OwedWasPushed'
  BY <1>1 DEF OwedWasPushed
<1>4. SweptIsPaid'
  BY <1>1 DEF SweptIsPaid, SInv, TypeOK
<1>5. FreshUnderRules'
  BY DEF SInv, FreshUnderRules
<1>6. outcome' = "none" /\ StampCoversTheOrg'
  BY DEF SInv, StampCoversTheOrg
<1> QED
  BY <1>2, <1>3, <1>4, <1>5, <1>6, ListingStep DEF SInv

LEMMA DiscoverStep ==
    ASSUME SInv, DiscoverCached \/ DiscoverLive \/ DiscoverExplicit
    PROVE  SInv'
<1>f. faults \in 0..MaxFault
  BY DEF SInv, TypeOK
<1>1. CASE DiscoverCached
  <2>1. ASSUME NEW r \in Repo, state[r] = "live", settled[r] = Old
        PROVE  r \in filterRepos(cache)
    <3>1. cache # NoRows /\ settled[r] > age
      BY <1>1, <2>1, OldIsNat, SweepAssumption DEF DiscoverCached, CacheFresh, Usable, SInv, TypeOK
    <3>2. Live[r] = "live"
      BY <2>1 DEF Live
    <3> QED
      BY <3>1, <3>2 DEF SInv, CacheTrue, filterRepos
  <2>2. filterRepos(cache) \subseteq Repo
    BY DEF filterRepos
  <2> QED
    BY <1>1, <1>f, <2>1, <2>2, DiscoveredStep DEF DiscoverCached
<1>2. CASE DiscoverLive
  <2>1. \A r \in Repo \ filterRepos(Live) : state[r] # "live"
    BY DEF filterRepos, Live
  <2>2. filterRepos(Live) \subseteq Repo
    BY DEF filterRepos
  <2>3. UNCHANGED listing \/ Cached \/ CacheCut
    BY <1>2 DEF DiscoverLive
  <2>4. faults' \in 0..MaxFault
    BY <1>2, <1>f, SweepAssumption DEF DiscoverLive
  <2> QED
    BY <1>2, <2>1, <2>2, <2>3, <2>4, DiscoveredStep DEF DiscoverLive
<1>3. CASE DiscoverExplicit
  <2>1. PICK repos \in SUBSET Repo : Discovered(repos, repos)
    BY <1>3 DEF DiscoverExplicit
  <2> QED
    BY <1>3, <1>f, <2>1, DiscoveredStep DEF DiscoverExplicit
<1> QED
  BY <1>1, <1>2, <1>3

LEMMA SyncRepoStep ==
    ASSUME SInv, NEW r \in Repo, SyncRepo(r)
    PROVE  SInv'
<1> USE DEF SyncRepo, github, listing
<1>1. TypeOK'
  BY DEF SInv, TypeOK
<1>2. SweptIsPaid'
  BY DEF SInv, TypeOK, SweptIsPaid, OwedWasPushed
<1>3. FreshUnderRules'
  BY DEF SInv, TypeOK, FreshUnderRules
<1>4. CacheTrue' /\ OwedWasPushed'
  BY DEF SInv, CacheTrue, Live, OwedWasPushed
<1>5. outcome' = "none" /\ StampCoversTheOrg'
  BY DEF SInv, StampCoversTheOrg
<1> QED
  BY <1>1, <1>2, <1>3, <1>4, <1>5 DEF SInv

LEMMA FailStep ==
    ASSUME SInv, RunFails
    PROVE  SInv'
<1> USE DEF RunFails, RunEnds, github, table
<1>1. faults' \in 0..MaxFault /\ (UNCHANGED listing \/ Cached \/ CacheCut)
  BY SweepAssumption DEF SInv, TypeOK
<1>2. TypeOK'
  BY <1>1, ListingStep DEF SInv, TypeOK
<1>3. OwedWasPushed' /\ SweptIsPaid' /\ FreshUnderRules' /\ StampCoversTheOrg'
  BY DEF SInv, OwedWasPushed, SweptIsPaid, FreshUnderRules, StampCoversTheOrg
<1> QED
  BY <1>1, <1>2, <1>3, ListingStep DEF SInv

LEMMA StampStep ==
    ASSUME SInv, Stamp
    PROVE  SInv'
<1> USE DEF Stamp, RunEnds, github, table
<1>1. stamp' \in Config \cup {None} /\ faults' \in 0..MaxFault
  BY SweepAssumption DEF SInv, TypeOK, Fingerprint
<1>2. TypeOK'
  BY <1>1 DEF SInv, TypeOK, listing
<1>3. outcome' = "stamped" => stamp' = rules
  BY DEF Fingerprint
<1>4. StampCoversTheOrg'
  BY DEF SInv, SweptIsPaid, StampCoversTheOrg
<1>5. CacheTrue' /\ OwedWasPushed' /\ SweptIsPaid' /\ FreshUnderRules'
  BY DEF SInv, CacheTrue, Live, OwedWasPushed, SweptIsPaid, FreshUnderRules, listing
<1> QED
  BY <1>2, <1>3, <1>4, <1>5 DEF SInv

\* Every step preserves the invariant.
THEOREM NextInv == SInv /\ [Next]_vars => SInv'
<1> SUFFICES ASSUME SInv, [Next]_vars PROVE SInv'
  OBVIOUS
<1>1. CASE UNCHANGED vars
  BY <1>1 DEF SInv, TypeOK, CacheTrue, Live, OwedWasPushed, SweptIsPaid, FreshUnderRules,
     StampCoversTheOrg, vars, github, table, listing, run
<1>2. CASE RunStep
  BY <1>2, DiscoverStep, SyncRepoStep, FailStep, StampStep DEF RunStep
<1> QED
  BY <1>1, <1>2, PushStep, ChangeStep, TickStep, EditStep, StartStep, ReAuditStep DEF Next

\* The invariant holds in every reachable state.
THEOREM Invariant == Spec => []SInv
BY InitInv, NextInv, PTL DEF Spec

-----------------------------------------------------------------------------
\* The variables keep their types.
THEOREM TypeCorrect == Spec => []TypeOK
<1>1. SInv => TypeOK
  BY DEF SInv
<1> QED
  BY <1>1, Invariant, PTL

\* A stamped run has judged every commit it had to find (Pipeline.Run,
\* GetCachedOrgRepos, CacheOrgRepos).
THEOREM StampCovers == Spec => []StampCoversTheOrg
BY StampInvariants, Invariant, PTL

\* A stamp names the configuration its run judged under (RecordAuditRun).
THEOREM StampNames == Spec => []StampNamesItsRules
BY StampInvariants, Invariant, PTL
=============================================================================
