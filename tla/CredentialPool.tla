--------------------------- MODULE CredentialPool ---------------------------
(***************************************************************************)
(* The supervisor's CredentialPool across reloads and respawns: cached     *)
(* secrets, one set of GitHub resources (client, rate bucket, rate-limit   *)
(* poller) per credential id, invalidated at a reload unless a kept flow   *)
(* still uses it.  An entry is also the rate bucket its flows share, so    *)
(* two live entries for one credential would let them post twice as fast.  *)
(* A reload drops the entries before it waits for the tasks that use them, *)
(* and it does not wait for ever.                                          *)
(***************************************************************************)
EXTENDS Integers, Sequences

CONSTANTS
    Flows,        \* flow names
    Creds,        \* credential ids
    Nobody,       \* an absent value
    Configs,      \* the configurations the operator may load
    Layouts,      \* what the three places of each credential may hold
    MaxToken,     \* bound: rotations of a token
    MaxReloads,   \* bound: reloads
    MaxEntries,   \* bound: entries built
    Permits       \* CREDENTIAL_READ_CONCURRENCY

\* What credential_file::probe may say of a place ("Unreadable" is Probe::Ok, of a file
\* whose read then fails: not UTF-8, only root's to read, an I/O error); a flow's
\* configuration, with a number for all that is not a credential.
Probes == {"Ok", "Unreadable", "NotPresent", "Invariant", "StatError"}
Place == [dir : Probes, env : {"unset", "text", "binary"}, file : Probes]
FlowConfig == [action : Creds, hook : Creds \cup {Nobody}, rev : Nat]

ASSUME PoolAssumption ==
    /\ Nobody \notin Creds \cup Flows /\ Nobody \notin Nat
    /\ Configs \subseteq [Flows -> FlowConfig \cup {Nobody}]
    /\ Layouts \subseteq [Creds -> Place]
    /\ MaxToken \in Nat /\ MaxReloads \in Nat /\ MaxEntries \in Nat
    /\ Permits \in Nat \ {0}

VARIABLES
    config,    \* the flows wanted: [action, hook, rev], or Nobody
    place,     \* per credential: what the resolution chain finds
    token,     \* per credential: the token now in its file
    secrets,   \* CredentialPool.secrets
    byId,      \* CredentialPool.by_id
    entries,   \* every GithubCredentialResources ever built
    using,     \* per flow: the entry its generation in the registry holds
    unlisted,  \* <<flow, entry>> of generations that run on without a handle
    panicked,  \* flows a respawn watcher waits for
    draining,  \* a reload waits for the tasks it cancelled
    todo,      \* flows the current reload or boot still has to spawn
    hung,      \* abandoned reads that still hold a permit
    reloads,   \* reloads so far
    fresh      \* history: per credential, its token at its last invalidation

exitVars == <<unlisted, panicked, draining>>
poolVars == <<config, place, token, secrets, byId, entries, using, exitVars, todo, hung,
              reloads, fresh>>

PoolTypeOK ==
    /\ config \in Configs
    /\ place \in [Creds -> Place] /\ token \in [Creds -> 0..MaxToken]
    /\ secrets \in [Creds -> {Nobody} \cup 0..MaxToken]
    /\ byId \in [Creds -> {Nobody} \cup DOMAIN entries]
    /\ Len(entries) <= MaxEntries
    /\ using \in [Flows -> {Nobody} \cup DOMAIN entries]
    /\ unlisted \subseteq Flows \X DOMAIN entries
    /\ panicked \subseteq Flows /\ draining \in BOOLEAN
    /\ todo \subseteq Flows /\ hung \in 0..Permits

PoolInit ==
    /\ config \in Configs
    /\ place \in Layouts /\ token = [c \in Creds |-> 0]
    /\ secrets = [c \in Creds |-> Nobody] /\ byId = [c \in Creds |-> Nobody]
    /\ entries = <<>>
    /\ using = [f \in Flows |-> Nobody]
    /\ unlisted = {} /\ panicked = {} /\ draining = FALSE
    /\ todo = {f \in Flows : config[f] # Nobody}
    /\ hung = 0 /\ reloads = 0
    /\ fresh = [c \in Creds |-> 0]

-----------------------------------------------------------------------------
(* resolve_secret. *)

\* The first place that is present decides: one that is present and unusable is an
\* error, not a reason to look further.  A variable that is not UTF-8 counts as unset.
FromFile(probe) == IF probe = "Ok" THEN "file" ELSE "error"
Resolution(p) ==
    CASE p.dir # "NotPresent" -> FromFile(p.dir)
      [] p.dir = "NotPresent" /\ p.env = "text" -> "env"
      [] p.dir = "NotPresent" /\ p.env # "text" /\ p.file # "NotPresent" -> FromFile(p.file)
      [] OTHER -> "error"

\* read_credential_file: a permit within 5 s, then the read within 5 s; a read that
\* is given up keeps its permit until it returns.
CanRead == hung < Permits

\* Resolved(c, t): the secret of c is t, from the cache, the environment (fixed at
\* start) or a file read now.
Resolved(c, t) ==
    \/ secrets[c] # Nobody /\ t = secrets[c]
    \/ secrets[c] = Nobody /\ Resolution(place[c]) = "env" /\ t = 0
    \/ secrets[c] = Nobody /\ Resolution(place[c]) = "file" /\ CanRead /\ t = token[c]

\* An error of the chain, or a read that is refused a permit.
Unresolved(c) ==
    /\ secrets[c] = Nobody
    /\ Resolution(place[c]) = "error" \/ (Resolution(place[c]) = "file" /\ ~CanRead)

\* The read is abandoned after 5 s.
ReadHangs(c) == secrets[c] = Nobody /\ Resolution(place[c]) = "file" /\ CanRead

\* The notifiers come first, then the action's credential.
Needs(f) ==
    IF byId[config[f].action] = Nobody THEN {config[f].hook, config[f].action} \ {Nobody}
    ELSE {config[f].hook} \ {Nobody}

-----------------------------------------------------------------------------
(* spawn_flow, as far as the pool is concerned. *)

\* acquire_github: the cached entry, or a new one with its poller.
AcquireGithub(f, known) ==
    LET c == config[f].action
    IN  IF byId[c] # Nobody
        THEN /\ using' = [using EXCEPT ![f] = byId[c]]
             /\ UNCHANGED <<entries, byId>>
        ELSE /\ Len(entries) < MaxEntries
             /\ entries' = Append(entries, [cred |-> c, token |-> known[c], poller |-> TRUE])
             /\ byId' = [byId EXCEPT ![c] = Len(entries) + 1]
             /\ using' = [using EXCEPT ![f] = Len(entries) + 1]

SpawnFlow(f) ==
    /\ f \in todo /\ ~draining /\ todo' = todo \ {f}
    /\ \E known \in [Needs(f) -> 0..MaxToken] :
          /\ \A c \in Needs(f) : Resolved(c, known[c])
          /\ secrets' = [c \in Creds |-> IF c \in Needs(f) THEN known[c] ELSE secrets[c]]
          /\ AcquireGithub(f, known)
    /\ UNCHANGED <<config, place, token, exitVars, hung, reloads, fresh>>

\* The chain ends in an error, or the read is given up and keeps its permit.
ResolveFails(c) ==
    \/ Unresolved(c) /\ UNCHANGED hung
    \/ ReadHangs(c) /\ hung' = hung + 1

\* record_setup_failure_and_skip: the flow is not spawned.  A webhook secret that
\* was resolved before the action's failed stays in the cache.
SpawnFails(f) ==
    /\ f \in todo /\ ~draining /\ todo' = todo \ {f}
    /\ \/ config[f].hook # Nobody /\ ResolveFails(config[f].hook) /\ UNCHANGED secrets
       \/ /\ config[f].hook = Nobody /\ byId[config[f].action] = Nobody
          /\ ResolveFails(config[f].action) /\ UNCHANGED secrets
       \/ /\ config[f].hook \notin {Nobody, config[f].action}
          /\ byId[config[f].action] = Nobody /\ ResolveFails(config[f].action)
          /\ \E t \in 0..MaxToken : /\ Resolved(config[f].hook, t)
                                    /\ secrets' = [secrets EXCEPT ![config[f].hook] = t]
    /\ UNCHANGED <<config, place, token, byId, entries, using, exitVars, reloads, fresh>>

ReadReturns ==
    /\ hung > 0 /\ hung' = hung - 1
    /\ UNCHANGED <<config, place, token, secrets, byId, entries, using, exitVars,
                   todo, reloads, fresh>>

-----------------------------------------------------------------------------
(* Reload. *)

\* Unchanged flows that are live are kept.
ToKeep(new) ==
    {f \in Flows : new[f] # Nobody /\ new[f] = config[f] /\ using[f] # Nobody}

\* collect_kept_credentials: action and webhook credentials of kept flows.
CollectKeptCredentials(new) ==
    UNION {{new[f].action, new[f].hook} \ {Nobody} : f \in ToKeep(new)}

InvalidateClients(keep) ==
    /\ byId' = [c \in Creds |-> IF c \in keep THEN byId[c] ELSE Nobody]
    /\ UNCHANGED secrets
    /\ entries' = [i \in DOMAIN entries |->
                     [entries[i] EXCEPT !.poller = @ /\ entries[i].cred \in keep]]

\* invalidate_except: entries not kept lose their poller and leave the pool.
InvalidateExcept(keep) ==
    /\ byId' = [c \in Creds |-> IF c \in keep THEN byId[c] ELSE Nobody]
    /\ secrets' = [c \in Creds |-> IF c \in keep THEN secrets[c] ELSE Nobody]
    /\ entries' = [i \in DOMAIN entries |->
                     [entries[i] EXCEPT !.poller = @ /\ ~\E c \in Creds \ keep : byId[c] = i]]

\* run_reload up to its drain: the handles of the flows not kept are removed and
\* cancelled, then the pool is invalidated; their tasks still run.
Reload ==
    /\ todo = {} /\ ~draining /\ reloads < MaxReloads /\ reloads' = reloads + 1
    /\ \E new \in Configs :
          /\ config' = new
          /\ using' = [f \in Flows |-> IF f \in ToKeep(new) THEN using[f] ELSE Nobody]
          /\ unlisted' = unlisted \cup
                {<<f, using[f]>> : f \in {f \in Flows \ ToKeep(new) : using[f] # Nobody}}
          /\ InvalidateExcept(CollectKeptCredentials(new))
          /\ fresh' = [c \in Creds |-> IF c \in CollectKeptCredentials(new) THEN fresh[c]
                                       ELSE token[c]]
          /\ todo' = {f \in Flows : new[f] # Nobody} \ ToKeep(new)
    /\ draining' = TRUE
    /\ UNCHANGED <<place, token, hung, panicked>>

\* drain_until_kept joins tasks, and ends when the cancelled ones are gone or after 30 s.
DrainJoins ==
    /\ draining /\ \E u \in unlisted : unlisted' = unlisted \ {u}
    /\ UNCHANGED <<config, place, token, secrets, byId, entries, using, panicked, draining,
                   todo, hung, reloads, fresh>>
DrainEnds ==
    /\ draining /\ draining' = FALSE
    /\ UNCHANGED <<config, place, token, secrets, byId, entries, using, unlisted, panicked,
                   todo, hung, reloads, fresh>>

-----------------------------------------------------------------------------
(* Exits and respawns. *)

\* The handle of f goes, by name; what ran under it goes on for a while.
DropHandle(f, others) ==
    /\ using' = [using EXCEPT ![f] = Nobody]
    /\ unlisted' = others \cup (IF using[f] = Nobody THEN {} ELSE {<<f, using[f]>>})

\* handle_flow_exit: a task of a generation without a handle ends, with it the
\* generation unless its other task goes on, and takes away the handle of a newer
\* generation; or a task of the registered generation panics.
FlowExits(f) ==
    /\ todo = {} /\ ~draining
    /\ \/ /\ \E u \in unlisted : u[1] = f /\ \E others \in {unlisted, unlisted \ {u}} :
                DropHandle(f, others)
          /\ panicked' \in {panicked, panicked \cup {f}}
       \/ using[f] # Nobody /\ DropHandle(f, unlisted) /\ panicked' = panicked \cup {f}
    /\ UNCHANGED <<config, place, token, secrets, byId, entries, draining, todo, hung,
                   reloads, fresh>>

\* handle_respawn_request, at last: a flow that runs or is no longer wanted is left
\* alone.  Tasks of the panicked generation may still run: 30 deferrals are the limit.
RespawnFlow(f) ==
    /\ todo = {} /\ ~draining
    /\ f \in panicked /\ panicked' = panicked \ {f}
    /\ todo' = IF using[f] = Nobody /\ config[f] # Nobody THEN {f} ELSE {}
    /\ UNCHANGED <<config, place, token, secrets, byId, entries, using, unlisted, draining,
                   hung, reloads, fresh>>

\* The operator writes a new token into a credential's file.
Rotate ==
    /\ \E c \in Creds : token[c] < MaxToken /\ token' = [token EXCEPT ![c] = @ + 1]
    /\ UNCHANGED <<config, place, secrets, byId, entries, using, exitVars,
                   todo, hung, reloads, fresh>>

PoolNext ==
    \/ \E f \in Flows : SpawnFlow(f) \/ SpawnFails(f) \/ FlowExits(f) \/ RespawnFlow(f)
    \/ ReadReturns \/ Reload \/ DrainJoins \/ DrainEnds \/ Rotate

PoolSpec == PoolInit /\ [][PoolNext]_poolVars

-----------------------------------------------------------------------------
(* Properties. *)

\* All registered flows with one action credential share one client, one bucket and one
\* poller, after any sequence of reloads, respawns and failed set-ups.
OneEntryPerCredential ==
    \A f, g \in Flows :
       (using[f] # Nobody /\ using[g] # Nobody /\ config[f].action = config[g].action) =>
          using[f] = using[g]

\* A generation that loses the poller of its quota snapshot has lost its handle before:
\* only tasks a reload cancelled, or lost track of, go on with a dead snapshot.
LiveEntryIsPolled == \A f \in Flows : using[f] # Nobody => entries[using[f]].poller

\* Pollers do not pile up: one that runs belongs to an entry of the pool.
NoOrphanPoller ==
    \A i \in DOMAIN entries : entries[i].poller => byId[entries[i].cred] = i

\* A token that was replaced before a reload dropped its credential is not used by
\* any flow spawned since, unless it comes from the environment.
RotatedTokenIsPickedUp ==
    \A f \in Flows : using[f] # Nobody =>
       LET e == entries[using[f]]
       IN  Resolution(place[e.cred]) = "file" => e.token >= fresh[e.cred]

\* After any sequence of reloads, drains that time out, late exits, respawns, rotations
\* and failed set-ups the registered flows share their GitHub resources, those are
\* polled, nothing else is, and no registered flow runs on a token that was replaced
\* before its credential was last dropped.
PoolIsSound ==
    /\ PoolTypeOK /\ OneEntryPerCredential /\ LiveEntryIsPolled /\ NoOrphanPoller
    /\ RotatedTokenIsPickedUp

\* credentials.rs:122-124 on why invalidate_except stops the poller: it would go on "even
\* though no flow references the resources anymore".  The code does not keep this: the
\* cancelled tasks still use what the reload dropped, beyond the drain's 30 s too.
DroppedEntryIsUnused == \A u \in unlisted : entries[u[2]].poller

=============================================================================
