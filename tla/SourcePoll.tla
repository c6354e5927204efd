----------------------------- MODULE SourcePoll -----------------------------
(***************************************************************************)
(* The poll cycle against a git host: the sleep, the politeness gate of    *)
(* the host, and the three transports (GitHub's REST API, the grokmirror   *)
(* manifest, git ls-remote), each with its own answers and errors.  What   *)
(* the flow does with an observed SHA is FlowPipeline's matter.            *)
(*                                                                         *)
(* A remote ref is the commit it ends at, the annotated tag on the way     *)
(* there (or None) and whether it is symbolic; without a commit it is      *)
(* unborn when symbolic and absent otherwise.                              *)
(***************************************************************************)
EXTENDS RateBucket

CONSTANTS
    None,      \* an absent object or answer
    Sources,   \* configurations: per flow [strategy, host, path, ref]
    Refs,      \* per flow: states its ref may be in, [commit, tag, sym]
    MaxPush    \* bound: changes of a remote repository

ASSUME SourceAssumption ==
    /\ Sources \subseteq
          [Users -> [strategy : {"GithubApi", "Grokmirror", "LsRemote"}, host : Buckets,
                     path : BOOLEAN, ref : {"refs/heads/main", "refs/heads/", "refs/pull/1"}]]
    /\ MaxPush \in Nat

VARIABLES
    source,      \* the configuration
    remote,      \* per flow: the ref on the server
    pushed,      \* per flow: changes of its repository so far
    published,   \* per flow: the change its manifest entry stands for
    pc,          \* "sleep", "gate", "poll", "manifest", "resolve", "gone"
    cached,      \* grokmirror_fingerprint, 0 for None
    last,        \* last_sha
    base,        \* history: the ref as it was when last_sha was recorded
    resolved,    \* history: pushed at the last answer about the ref itself
    lost         \* history: a fingerprint was cached and the resolve after it failed

pollVars == <<bucketVars, source, remote, pushed, published, pc, cached, last,
              base, resolved, lost>>
serverVars == <<remote, pushed, published>>
seenVars == <<last, base, resolved, lost>>

\* The object a ref names itself: the tag if there is one.
Own(r) == IF r.tag # None THEN r.tag ELSE r.commit

PollInit ==
    /\ BucketInit /\ source \in Sources
    /\ remote \in {r \in [Users -> UNION {Refs[f] : f \in Users}] : \A f \in Users : r[f] \in Refs[f]}
    /\ pushed = [f \in Users |-> 1] /\ published = pushed
    /\ pc = [f \in Users |-> "sleep"]
    /\ cached = [f \in Users |-> 0] /\ last = [f \in Users |-> None]
    /\ base = remote /\ resolved = [f \in Users |-> 0] /\ lost = [f \in Users |-> FALSE]

-----------------------------------------------------------------------------
(* github_api. *)

\* ref_to_reference: a branch or a tag with a name.
ValidReference(ref) == ref = "refs/heads/main"

\* classify_error, classify_status; poll takes a 404 first.
ApiAnswers == {"ok", "tree", "404", "429", "403 rate limit", "403", "5xx", "other 4xx",
               "no response"}
ClassifyStatus(a) ==
    CASE a \in {"429", "403 rate limit", "5xx", "no response"} -> "transient"
      [] a = "404" -> "UnbornRef"
      [] OTHER -> "permanent"

\* poll: the SHA of the commit or of the tag object.  GitHub has no symbolic branch.
GithubPoll(ref, r, a) ==
    CASE ~ValidReference(ref) -> <<"invalid ref", None>>
      [] ValidReference(ref) /\ a = "ok" ->
            IF r.commit = None THEN <<"UnbornRef", None>> ELSE <<"Refreshed", Own(r)>>
      [] OTHER -> <<ClassifyStatus(a), None>>

-----------------------------------------------------------------------------
(* ls_remote. *)

\* What a server lists for the ref (external): protocol V2 shows that it is symbolic.
Advertised(r, v2) ==
    CASE r.commit = None /\ r.sym /\ v2 -> [kind |-> "Unborn"]
      [] r.commit = None /\ ~(r.sym /\ v2) -> [kind |-> "NotPresent"]
      [] r.commit # None /\ r.sym /\ v2 ->
            [kind |-> "Symbolic", object |-> r.commit, tag |-> r.tag]
      [] r.commit # None /\ ~(r.sym /\ v2) /\ r.tag # None ->
            [kind |-> "Peeled", object |-> r.commit, tag |-> r.tag]
      [] OTHER -> [kind |-> "Direct", object |-> r.commit]

FindPeeledRef(ad) ==
    CASE ad.kind \in {"Unborn", "NotPresent"} -> <<"UnbornRef", None>>
      [] ad.kind = "Direct" -> <<"Refreshed", ad.object>>
      [] ad.kind = "Peeled" -> <<"Refreshed", ad.tag>>
      [] OTHER -> <<"Refreshed", ad.object>>

\* find_ref and the match on it: the tag object wins over what it points to.
FindRef(ad) ==
    CASE ad.kind \in {"Unborn", "NotPresent"} -> <<"UnbornRef", None>>
      [] ad.kind = "Direct" -> <<"Refreshed", ad.object>>
      [] ad.kind = "Peeled" -> <<"Refreshed", ad.tag>>
      [] OTHER -> <<"Refreshed", IF ad.tag # None THEN ad.tag ELSE ad.object>>

\* classify_connect_error, classify_handshake_error, classify_ls_refs_error and the
\* timeout of poll, whose blocking thread goes on by itself.
LsRefsErrors == {"io", "parse"}
LsErrors == {"url", "connection", "credentials", "policy", "transport", "parse refs", "timeout",
             "join"} \cup LsRefsErrors
LsErrorClass(e) ==
    IF e \in {"url", "credentials", "policy", "parse"} THEN "permanent" ELSE "transient"

\* poll, poll_blocking: ls-refs is only sent to a V2 server.
LsRemote(r, v2, e) ==
    IF e = "none" \/ (e \in LsRefsErrors /\ ~v2) THEN FindRef(Advertised(r, v2))
    ELSE <<LsErrorClass(e), None>>

-----------------------------------------------------------------------------
(* grokmirror. *)

\* fetch_manifest_inner: the errors of the request, the status, the declared length, the
\* stream, the decompression and the JSON; fetch_manifest adds the timeout.
ManifestErrors == {"send", "5xx", "4xx", "declared too long", "stream", "too long", "gzip",
                   "decompressed too long", "json", "timeout"}
ManifestErrorClass(e) ==
    IF e \in {"send", "5xx", "stream", "timeout"} THEN "transient" ELSE "permanent"

\* The fingerprint is the one of the last cycle of this executor.
FingerprintUnchanged(f) == cached[f] # 0 /\ cached[f] = published[f]

-----------------------------------------------------------------------------
(* run_with_executor. *)

\* sleep_or_cancel ends by the timer; the first half of acquire.
WakeUp(f) ==
    /\ pc[f] = "sleep" /\ pc' = [pc EXCEPT ![f] = "gate"]
    /\ Reserve(f, source[f].host)
    /\ UNCHANGED <<source, serverVars, cached, seenVars>>

\* acquire returns.
PassGate(f) ==
    /\ pc[f] = "gate" /\ Woken(f)
    /\ pc' = [pc EXCEPT ![f] = "poll"]
    /\ UNCHANGED <<source, serverVars, cached, seenVars>>

\* The cycle ends in result <<kind, sha>>: an outcome or an error, whose class is only
\* shown to the operator; a SHA that differs from last_sha is recorded
\* unless the cooldown holds it back (compare_sha, handle_refreshed).
EndCycle(f, result) ==
    /\ pc' = [pc EXCEPT ![f] = "sleep"]
    /\ IF result[1] = "Refreshed"
       THEN \E cooled \in BOOLEAN :
               IF last[f] \in {None, result[2]} \/ cooled
               THEN /\ last' = [last EXCEPT ![f] = result[2]]
                    /\ base' = [base EXCEPT ![f] = remote[f]]
               ELSE UNCHANGED <<last, base>>
       ELSE UNCHANGED <<last, base>>
    /\ resolved' = IF pc[f] = "resolve" /\ result[1] \in {"Refreshed", "UnbornRef"}
                   THEN [resolved EXCEPT ![f] = pushed[f]] ELSE resolved

\* poll_one, up to its first request: split_github_repo, extract_repo_path_from_url.
StartPoll(f) ==
    /\ pc[f] = "poll"
    /\ IF source[f].strategy # "LsRemote" /\ ~source[f].path
       THEN EndCycle(f, <<"bad url", None>>)
       ELSE /\ pc' = [pc EXCEPT ![f] =
                        IF source[f].strategy = "Grokmirror" THEN "manifest" ELSE "resolve"]
            /\ UNCHANGED <<last, base, resolved>>
    /\ UNCHANGED <<bucketVars, source, serverVars, cached, lost>>

\* poll_one, GithubApi.
PollGithub(f) ==
    /\ pc[f] = "resolve" /\ source[f].strategy = "GithubApi"
    /\ \E a \in ApiAnswers : EndCycle(f, GithubPoll(source[f].ref, remote[f], a))
    /\ UNCHANGED <<bucketVars, source, serverVars, cached, lost>>

\* poll_one, Grokmirror: the fingerprint is cached before the ref is resolved.
ReadManifest(f) ==
    /\ pc[f] = "manifest"
    /\ \/ \E e \in ManifestErrors : EndCycle(f, <<ManifestErrorClass(e), None>>)
          /\ UNCHANGED <<cached, lost>>
       \/ EndCycle(f, <<"UnbornRef", None>>) /\ UNCHANGED <<cached, lost>>
       \/ /\ FingerprintUnchanged(f) /\ EndCycle(f, <<"Unchanged", None>>)
          /\ cached' = [cached EXCEPT ![f] = published[f]] /\ UNCHANGED lost
       \/ /\ ~FingerprintUnchanged(f)
          /\ cached' = [cached EXCEPT ![f] = published[f]]
          /\ pc' = [pc EXCEPT ![f] = "resolve"]
          /\ UNCHANGED seenVars
    /\ UNCHANGED <<bucketVars, source, serverVars>>

\* ls_remote_inline.
PollLsRemote(f) ==
    /\ pc[f] = "resolve" /\ source[f].strategy # "GithubApi"
    /\ \E v2 \in BOOLEAN, e \in LsErrors \cup {"none"} :
          LET result == LsRemote(remote[f], v2, e)
          IN  /\ EndCycle(f, result)
              /\ lost' = [lost EXCEPT ![f] = result[1] \in {"transient", "permanent"}]
    /\ UNCHANGED <<bucketVars, source, serverVars, cached>>

\* The token is cancelled; each await of the cycle races it.
Cancel(f) ==
    /\ pc[f] \in {"sleep", "gate", "manifest", "resolve"}
    /\ pc' = [pc EXCEPT ![f] = "gone"]
    /\ IF pc[f] = "gate" THEN Abandon(f) ELSE UNCHANGED bucketVars
    /\ UNCHANGED <<source, serverVars, cached, seenVars>>

\* run: a new executor with an empty cache, last_sha seeded from the state.
SpawnAgain(f) ==
    /\ pc[f] = "gone" /\ pc' = [pc EXCEPT ![f] = "sleep"]
    /\ cached' = [cached EXCEPT ![f] = 0] /\ lost' = [lost EXCEPT ![f] = FALSE]
    /\ UNCHANGED <<bucketVars, source, serverVars, last, base, resolved>>

\* Somebody changes the repository; its manifest entry follows later (external).
Push(f) ==
    /\ pushed[f] < MaxPush /\ pushed' = [pushed EXCEPT ![f] = @ + 1]
    /\ \E r \in Refs[f] \ {remote[f]} : remote' = [remote EXCEPT ![f] = r]
    /\ UNCHANGED <<bucketVars, source, published, pc, cached, seenVars>>

Publish(f) ==
    /\ published[f] < pushed[f] /\ published' = [published EXCEPT ![f] = pushed[f]]
    /\ UNCHANGED <<bucketVars, source, remote, pushed, pc, cached, seenVars>>

PollTick ==
    /\ BucketTick
    /\ UNCHANGED <<source, serverVars, pc, cached, seenVars>>

PollNext ==
    \/ \E f \in Users :
          \/ WakeUp(f) \/ PassGate(f) \/ StartPoll(f) \/ PollGithub(f) \/ ReadManifest(f)
          \/ PollLsRemote(f) \/ Cancel(f) \/ SpawnAgain(f) \/ Push(f) \/ Publish(f)
    \/ PollTick

PollSpec == PollInit /\ [][PollNext]_pollVars

-----------------------------------------------------------------------------
(* Properties. *)

\* last_sha is the object the ref itself named when it was recorded, whichever transport
\* and protocol version listed it: a ref that did not move never looks changed.
ShaIsTheRefsOwn == \A f \in Users : last[f] # None => last[f] = Own(base[f])

\* A change whose fingerprint is cached has been resolved, unless the resolve after the
\* caching failed: then "unchanged" hides it until the manifest moves again.
CachedMeansResolved ==
    \A f \in Users :
       (pc[f] \in {"sleep", "gate", "poll", "manifest"} /\ cached[f] # 0 /\ ~lost[f]) =>
          resolved[f] >= cached[f]

\* The poll side of a source: slots of a host are spaced, SHAs are comparable, cached
\* fingerprints are resolved, and a flow waits for a slot exactly while it is at the gate.
SourcesAreSound ==
    /\ BucketTypeOK /\ SlotsSpaced
    /\ ShaIsTheRefsOwn /\ CachedMeansResolved
    /\ \A f \in Users : (pc[f] = "gate") = (at[f] # Nowhere)

=============================================================================
