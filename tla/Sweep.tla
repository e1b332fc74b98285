-------------------------------- MODULE Sweep --------------------------------
(***************************************************************************)
(* Whole sync runs over one organisation: which repositories a run takes   *)
(* in, what its stamp in audit_runs says, and under which configuration    *)
(* the stored verdicts stand.                                              *)
(*                                                                         *)
(* A run without --repo reads the organisation's repositories from         *)
(* org_repos_cache while the list is fresh, and lists them live otherwise  *)
(* (Pipeline.Run).  The repositories are synced in parallel; the first     *)
(* error ends the run and leaves no stamp.  What happens inside one        *)
(* repository is SyncPipeline.tla's subject: here its commits are judged   *)
(* in one step.  Re-audits judge stored commits again; reports read the    *)
(* stamp and compare it with their own configuration.                      *)
(*                                                                         *)
(* Ages stop counting where nothing tells them apart.                      *)
(***************************************************************************)
EXTENDS Naturals, FiniteSets

CONSTANTS
    Repo,
    Config,      \* fingerprints of the audit rules
    Freshness,   \* org_repos_cache_freshness
    MaxChange,   \* bound on repositories created, archived, revived, removed
    MaxPush,     \* commits a repository gets
    MaxEdit,     \* bound on edits of the configuration
    MaxFault,    \* bound on failures
    None

ASSUME SweepAssumption ==
    /\ Freshness \in Nat \ {0}
    /\ MaxChange \in Nat /\ MaxPush \in Nat /\ MaxEdit \in Nat /\ MaxFault \in Nat
    /\ None \notin Config

VARIABLES
    state,    \* GitHub: what each repository is
    settled,  \* how long it has been that
    pushed,   \* commits on its audited branches
    judged,   \* those with an audit_results row
    under,    \* the configurations its rows were judged under
    cache,    \* org_repos_cache: each repository's row
    age,      \* time since its fetched_at
    config,   \* the configuration file
    phase,    \* the run: "idle", "discover", "sweep"
    kind,     \* "cached", "live" (--org-repos-cache=0s) or "explicit" (--repo)
    todo,     \* repositories whose goroutine has not returned
    rules,    \* the configuration the run was started with
    stamp,    \* the latest audit_runs row
    outcome,  \* history: how the last run ended
    owed,     \* history: what the run must not miss
    fresh,    \* history: repositories whose rows the last run judged, not re-audited since
    changes, edits, faults

github  == <<state, settled, pushed, changes>>
table   == <<judged, under>>
listing == <<cache, age>>
run     == <<phase, kind, todo, rules>>
vars == <<github, table, listing, run, config, edits, stamp, outcome, owed, fresh, faults>>

States == {"absent", "live", "archived", "gone"}
Old    == Freshness + 1

NoRows == [r \in Repo |-> None]
Nobody == [r \in Repo |-> 0]

TypeOK ==
    /\ state \in [Repo -> States] /\ settled \in [Repo -> 0..Old]
    /\ pushed \in [Repo -> 0..MaxPush] /\ judged \in [Repo -> 0..MaxPush]
    /\ under \in [Repo -> SUBSET Config]
    /\ cache \in [Repo -> {None, "live", "archived"}] /\ age \in 0..Old
    /\ phase \in {"idle", "discover", "sweep"}
    /\ kind \in {"cached", "live", "explicit"}
    /\ todo \in SUBSET Repo
    /\ config \in Config /\ rules \in Config /\ stamp \in Config \cup {None}
    /\ outcome \in {"none", "stamped", "failed"}
    /\ owed \in [Repo -> 0..MaxPush] /\ fresh \in SUBSET Repo
    /\ changes \in 0..MaxChange /\ edits \in 0..MaxEdit /\ faults \in 0..MaxFault

Init ==
    /\ state \in [Repo -> {"absent", "live", "archived"}]
    /\ settled = [r \in Repo |-> Old]
    /\ pushed = Nobody /\ judged = Nobody /\ under = [r \in Repo |-> {}]
    /\ cache = NoRows /\ age = Old
    /\ config \in Config /\ rules = config
    /\ phase = "idle" /\ kind = "cached" /\ todo = {}
    /\ stamp = None /\ outcome = "none" /\ owed = Nobody /\ fresh = {}
    /\ changes = 0 /\ edits = 0 /\ faults = 0

-----------------------------------------------------------------------------
(* The surroundings. *)

Push(r) ==
    /\ state[r] = "live" /\ pushed[r] < MaxPush
    /\ pushed' = [pushed EXCEPT ![r] = @ + 1]
    /\ UNCHANGED <<state, settled, changes, table, listing, run, config, edits,
                   stamp, outcome, owed, fresh, faults>>

Turns == {<<"absent", "live">>, <<"live", "archived">>, <<"archived", "live">>,
          <<"live", "gone">>, <<"archived", "gone">>}

Change(r) ==
    /\ changes < MaxChange /\ changes' = changes + 1
    /\ \E s \in States : <<state[r], s>> \in Turns /\ state' = [state EXCEPT ![r] = s]
    /\ settled' = [settled EXCEPT ![r] = 0]
    /\ UNCHANGED <<pushed, table, listing, run, config, edits, stamp, outcome, owed, fresh, faults>>

Older(n) == IF n < Old THEN n + 1 ELSE n

\* A unit is long against the enumeration of an organisation.
Tick ==
    /\ phase # "discover"
    /\ settled' = [r \in Repo |-> Older(settled[r])]
    /\ age' = Older(age)
    /\ UNCHANGED <<state, pushed, changes, table, cache, run, config, edits,
                   stamp, outcome, owed, fresh, faults>>

EditConfig ==
    /\ edits < MaxEdit /\ edits' = edits + 1
    /\ \E c \in Config \ {config} : config' = c
    /\ UNCHANGED <<github, table, listing, run, stamp, outcome, owed, fresh, faults>>

-----------------------------------------------------------------------------
(* Pipeline.Run. *)

Start(k) ==
    /\ phase = "idle"
    /\ phase' = "discover" /\ kind' = k /\ rules' = config
    /\ fresh' = {} /\ outcome' = "none"
    /\ UNCHANGED <<github, table, listing, todo, config, edits, stamp, owed, faults>>

\* Mutant: the age of the list does not matter.
Usable_Ever(a) == TRUE

\* GetCachedOrgRepos: a list older than the freshness is not used.
Usable(a) == a <= Freshness

CacheFresh == cache # NoRows /\ Usable(age)

\* filterRepos drops the archived ones.
filterRepos(list) == {r \in Repo : list[r] = "live"}

\* What the run answers for: commits that were there when it began, in
\* repositories live for longer than a list may be old.
Owed(among) ==
    [r \in Repo |-> IF r \in among /\ state[r] = "live" /\ settled[r] = Old
                    THEN pushed[r] ELSE 0]

Discovered(repos, among) ==
    /\ phase' = "sweep" /\ todo' = repos /\ owed' = Owed(among)
    /\ UNCHANGED <<github, table, config, edits, kind, rules, stamp, outcome, fresh>>

\* Mutant: a run that uses the list renews it.
DiscoverCached_Touches ==
    /\ phase = "discover" /\ kind = "cached" /\ CacheFresh
    /\ age' = 0
    /\ Discovered(filterRepos(cache), Repo)
    /\ UNCHANGED <<cache, faults>>

\* The cached list; a failed read falls through to a live one.
DiscoverCached ==
    /\ phase = "discover" /\ kind = "cached" /\ CacheFresh
    /\ Discovered(filterRepos(cache), Repo)
    /\ UNCHANGED <<listing, faults>>

Live == [r \in Repo |-> IF state[r] \in {"live", "archived"} THEN state[r] ELSE None]

\* CacheOrgRepos: a DELETE, then an INSERT.
Cached == cache' = Live /\ age' = 0
CacheCut == cache' \in {cache, NoRows} /\ UNCHANGED age

\* ListOrgRepos.  A failure to read the cache or to write it does not end the
\* run; with the cache disabled neither is tried.
DiscoverLive ==
    /\ phase = "discover" /\ kind \in {"cached", "live"}
    /\ \/ kind = "live" /\ UNCHANGED <<listing, faults>>
       \/ kind = "cached" /\ ~CacheFresh /\ Cached /\ UNCHANGED faults
       \/ /\ kind = "cached" /\ faults < MaxFault /\ faults' = faults + 1
          /\ Cached \/ CacheCut
    /\ Discovered(filterRepos(Live), Repo)

\* resolveExplicitRepos asks for each, archived or not.
DiscoverExplicit ==
    /\ phase = "discover" /\ kind = "explicit"
    /\ \E repos \in (SUBSET {r \in Repo : Live[r] # None}) \ {{}} : Discovered(repos, repos)
    /\ UNCHANGED <<listing, faults>>

SyncRepo(r) ==
    /\ phase = "sweep" /\ r \in todo
    /\ Live[r] # None
    /\ todo' = todo \ {r}
    /\ judged' = [judged EXCEPT ![r] = pushed[r]]
    /\ under' = IF judged[r] < pushed[r] THEN [under EXCEPT ![r] = @ \cup {rules}] ELSE under
    /\ fresh' = IF judged[r] < pushed[r] THEN fresh \cup {r} ELSE fresh
    /\ UNCHANGED <<github, listing, phase, kind, rules, config, edits, stamp, outcome, owed, faults>>

RunEnds(how) ==
    /\ phase' = "idle" /\ todo' = {} /\ outcome' = how
    /\ UNCHANGED <<github, table, kind, rules, config, edits, owed, fresh>>

\* The listing, a repository that is not there, or anything else fails; the
\* goroutines of the other repositories are cancelled.
RunFails ==
    /\ \/ /\ phase = "sweep" /\ \E r \in todo : Live[r] = None
          /\ UNCHANGED <<listing, faults>>
       \/ /\ phase = "discover" /\ kind = "explicit" /\ \E r \in Repo : Live[r] = None
          /\ UNCHANGED <<listing, faults>>
       \/ /\ phase # "idle" /\ faults < MaxFault /\ faults' = faults + 1
          /\ IF phase = "discover" /\ kind = "cached" THEN CacheCut ELSE UNCHANGED listing
    /\ RunEnds("failed")
    /\ UNCHANGED stamp

\* Mutant: the fingerprint is computed when the run ends.
Fingerprint_AtEnd(atStart, now) == now

\* The fingerprint of the configuration the run was built from.
Fingerprint(atStart, now) == atStart

\* RecordAuditRun; its failure is logged.
Stamp ==
    /\ phase = "sweep" /\ todo = {}
    /\ \/ stamp' = Fingerprint(rules, config) /\ RunEnds("stamped") /\ UNCHANGED faults
       \/ /\ faults < MaxFault /\ faults' = faults + 1
          /\ RunEnds("failed") /\ UNCHANGED stamp
    /\ UNCHANGED listing

-----------------------------------------------------------------------------
\* re-evaluate-commits, of everything or of some repositories; it leaves no stamp.
ReAudit(repos) ==
    /\ phase = "idle"
    /\ under' = [r \in Repo |-> IF r \in repos /\ judged[r] > 0 THEN {config} ELSE under[r]]
    /\ fresh' = fresh \ repos
    /\ UNCHANGED <<github, judged, listing, run, config, edits, stamp, outcome, owed, faults>>

RunStep ==
    \/ DiscoverCached \/ DiscoverLive \/ DiscoverExplicit
    \/ \E r \in Repo : SyncRepo(r)
    \/ RunFails \/ Stamp

Next ==
    \/ \E r \in Repo : Push(r) \/ Change(r)
    \/ Tick \/ EditConfig
    \/ \E k \in {"cached", "live", "explicit"} : Start(k)
    \/ RunStep
    \/ \E repos \in (SUBSET Repo) \ {{}} : ReAudit(repos)

Spec == Init /\ [][Next]_vars

\* Time passes, a run goes on, and somebody starts one over the whole
\* organisation again and again, whatever else is started between.
Fairness == SF_vars(Tick) /\ WF_vars(RunStep) /\ SF_vars(Start("cached"))

FairSpec == Spec /\ Fairness

-----------------------------------------------------------------------------
(* Properties. *)

\* A stamp speaks for every commit that was there when the run began, but for
\* repositories that became live within the freshness of the list: whatever
\* the cache held, whichever of its writes failed, whoever else was cancelled.
StampCoversTheOrg ==
    outcome = "stamped" => \A r \in Repo : judged[r] >= owed[r]

\* The fingerprint of a stamp is that of the rules its run judged under, also
\* when the file was edited meanwhile.
StampNamesItsRules ==
    outcome = "stamped" => \A r \in fresh : stamp \in under[r]

\* A repository that left the organisation stops whole runs, but not for
\* longer than the list that still names it is fresh: a repository that stays
\* live has all its commits judged in the end.
BacklogSwept ==
    \A r \in Repo : <>[](state[r] = "live") => <>[](judged[r] = pushed[r])

-----------------------------------------------------------------------------
(* Statements of the repository that the code does not keep. *)

\* Architecture.md, provenance: "the manifest reflects the config that
\* *actually* computed the verdicts", and flags drift otherwise.
ConfigDrift == stamp # None /\ stamp # config

DriftIsFlagged ==
    stamp # None /\ ~ConfigDrift => \A r \in Repo : under[r] \subseteq {stamp}
=============================================================================
