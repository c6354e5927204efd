----------------------------- MODULE ConfigRules -----------------------------
(***************************************************************************)
(* From the text of the configuration to a running flow: config::load and  *)
(* its validation pass, `gcit check`, and what the daemon then demands of  *)
(* an accepted flow when it is spawned, polls, dispatches and notifies.    *)
(*                                                                         *)
(* A field holds one of a few classes of values; an error is the pair of   *)
(* the flow's position (0 for the whole file) and the field.  Durations    *)
(* are in seconds, jitter in tenths.                                       *)
(***************************************************************************)
EXTENDS CredentialPool, FiniteSets

CONSTANTS
    Texts,      \* configuration files: sequences of flows, Nobody for one TOML refuses
    Hosts       \* machines: credential places and contents, mail spools, systemd

\* A field that is not set.
Missing == Nobody

\* The tables of the file, field by field, before validation.
RawPollOverride == [interval : Int \cup {Missing}, jitter : Int \cup {Missing},
                    cooldown : Int \cup {Missing}]
RawDestinationFields == {"kind", "cred", "user", "fire_on", "template"}
RawFlowFields == {"name", "enabled", "url", "ref", "source_cred", "kind", "repo", "workflow",
                  "action_ref", "action_cred", "inputs", "destination", "poll"}
RawFlow(f) ==
    /\ DOMAIN f = RawFlowFields /\ f.enabled \in BOOLEAN /\ f.poll \in RawPollOverride
    /\ \A i \in DOMAIN f.destination : DOMAIN f.destination[i] = RawDestinationFields

ASSUME RulesAssumption ==
    \A file \in Texts \ {Nobody} : \A i \in DOMAIN file : RawFlow(file[i])

MIN_INTERVAL == 15
MAX_INTERVAL == 86400
MAX_JITTER == 5

VARIABLES
    text,      \* the flows of the file
    host,      \* [place, content (per stem), spool (per user), systemd]
    phase,     \* "written", "checked", "started"
    exit,      \* what `gcit check` said
    trouble    \* per flow: what the runtime refuses, once started

ruleVars == <<text, host, phase, exit, trouble>>

-----------------------------------------------------------------------------
(* Fields. *)

\* validate_flow_name.
NameOk(n) == n \in {"alpha", "beta"}

\* CredentialId::new; an id is a stem, the separator in it, and a defect.
IdOk(id) == id.defect = "none"
\* id_to_env: upper case, hyphens become underscores.
ToEnvVar(id) == [stem |-> id.stem, sep |-> IF id.sep = "-" THEN "_" ELSE id.sep]

\* validate_source: the URL parses and has a known scheme, the ref is a full one.
UrlOk(u) == u \in {"github", "github_root", "kernel", "kernel_root", "kernel_ssh", "other", "file"}
RefOk(r) == r \in {"refs/heads/main", "refs/tags/v1", "refs/pull/1/head", "refs/heads/"}

CredentialErrors(id, field) == IF id = Missing \/ IdOk(id) THEN {} ELSE {field}

SourceErrors(f) ==
    {x \in {"source.url", "source.ref"} :
        \/ x = "source.url" /\ ~UrlOk(f.url)
        \/ x = "source.ref" /\ ~RefOk(f.ref)}
    \cup CredentialErrors(f.source_cred, "source.credential_id")

RepoUnchecked(r) == r # Missing

\* owner/repo, both sides non-empty; a bare workflow file name.
RepoOk(r) == r = "owner/repo"
WorkflowOk(w) == w = "ci.yml"

\* validate_action, require_field: an unknown kind is the only error then.  The
\* templates of the inputs are taken over as they are.
ActionErrors(f) ==
    IF f.kind # "github_workflow_dispatch" THEN {"action.kind"}
    ELSE {x \in {"action.repo", "action.workflow", "action.ref", "action.inputs"} :
            \/ x = "action.repo" /\ ~RepoOk(f.repo)
            \/ x = "action.workflow" /\ ~WorkflowOk(f.workflow)
            \/ x = "action.ref" /\ (f.action_ref = Missing \/ ~RefOk(f.action_ref))
            \/ x = "action.inputs" /\ "gcit_run_id" \in DOMAIN f.inputs}
         \cup IF f.action_cred = Missing THEN {"action.credential_id"}
              ELSE CredentialErrors(f.action_cred, "action.credential_id")

-----------------------------------------------------------------------------
(* Templates.  A template is absent, plain, broken, has a bare name, a     *)
(* mistyped key or a key of the job.                                       *)

\* render_context, render_context_with_job, probe_context: the keys a render has.
DiscordSites == {"title", "description", "collapsed_summary", "field_name", "field_value"}
MailSites == {"subject", "body"}
JobSites == {"field_name", "field_value"}

\* Strict mode: a template renders when the context has what it names.
Renders(t, hasJob) == t \in {Missing, "plain"} \/ (t = "job" /\ hasJob)

\* compile_template_field, find_bare_name and the render against the probe context,
\* which has a job whatever the site.
CompileOk(t) == t \notin {"broken", "bare"} /\ Renders(t, TRUE)

\* validate_discord_template, validate_local_mail_template,
\* reject_cross_kind_template_fields.
TemplateErrors(d) ==
    LET own == IF d.kind = "discord_webhook" THEN DiscordSites ELSE MailSites
    IN  {s \in DOMAIN d.template :
            d.template[s] # Missing /\ (s \notin own \/ ~CompileOk(d.template[s]))}

\* collect_fire_on.
Repeats(s) == \E i, j \in DOMAIN s : i # j /\ s[i] = s[j]

\* validate_local_mail_user.
UserOk(u) == u \in {"ops", "-ops"}

\* validate_destinations, validate_discord, validate_local_mail.
DestinationErrors(d) ==
    CASE d.kind = "discord_webhook" ->
            {x \in {"user", "credential_id", "fire_on"} :
               \/ x = "user" /\ d.user # Missing
               \/ x = "credential_id" /\ (IF d.cred = Missing THEN TRUE ELSE ~IdOk(d.cred))
               \/ x = "fire_on" /\ Repeats(d.fire_on)} \cup TemplateErrors(d)
      [] d.kind = "local_mail" ->
            {x \in {"user", "credential_id", "fire_on"} :
               \/ x = "user" /\ ~UserOk(d.user)
               \/ x = "credential_id" /\ d.cred # Missing
               \/ x = "fire_on" /\ Repeats(d.fire_on)} \cup TemplateErrors(d)
      [] OTHER -> {"kind"}

-----------------------------------------------------------------------------
(* Cadence. *)

\* parse_bounded_duration, parse_cooldown, parse_jitter: -1 is not a duration.
InRange(d) == MIN_INTERVAL <= d /\ d <= MAX_INTERVAL
DurationOk(d) == IF d = Missing THEN TRUE ELSE InRange(d)
CooldownOk(d) == IF d = Missing THEN TRUE ELSE IF d = 0 THEN TRUE ELSE InRange(d)
JitterOk(j) == IF j = Missing THEN TRUE ELSE 0 <= j /\ j <= MAX_JITTER

\* validate_poll_override; validate_poll_defaults is the same for the file's own table.
PollErrors(p) ==
    {x \in {"source_interval", "jitter", "cooldown"} :
        \/ x = "source_interval" /\ ~DurationOk(p.interval)
        \/ x = "jitter" /\ ~JitterOk(p.jitter)
        \/ x = "cooldown" /\ ~CooldownOk(p.cooldown)}

\* PollStrategy, auto_detect, default_interval.
Strategy(url) == CASE url \in {"github", "github_root"} -> "GithubApi"
                   [] url \in {"kernel", "kernel_root", "kernel_ssh"} -> "Grokmirror"
                   [] OTHER -> "LsRemote"
DefaultInterval(url) == IF Strategy(url) = "LsRemote" THEN 300 ELSE 60

\* EffectivePoll::compute, the file having no [poll] table.
SourceInterval(f) == IF f.poll.interval = Missing THEN DefaultInterval(f.url)
                     ELSE f.poll.interval
Jitter(f) == IF f.poll.jitter = Missing THEN 1 ELSE f.poll.jitter

\* apply_jitter, in tenths of a second, for a sample of -10 to 10 tenths.
Clamp(j) == IF j > MAX_JITTER THEN MAX_JITTER ELSE IF j < 0 THEN 0 ELSE j
ApplyJitter(base, j, sample) ==
    LET scaled == (base * (100 + sample * Clamp(j))) \div 10
    IN  IF scaled < 10 * MIN_INTERVAL THEN 10 * MIN_INTERVAL ELSE scaled

-----------------------------------------------------------------------------
(* validate. *)

FlowErrors(f) ==
    (IF NameOk(f.name) THEN {} ELSE {"flow.name"})
    \cup SourceErrors(f) \cup ActionErrors(f) \cup PollErrors(f.poll)
    \cup UNION {DestinationErrors(f.destination[i]) : i \in DOMAIN f.destination}

\* The ids that reach env_var_index: those of fields that are looked at.
Ids(f) ==
    {id \in {f.source_cred} \cup (IF f.kind = "github_workflow_dispatch" THEN {f.action_cred}
                                  ELSE {})
            \cup {f.destination[i].cred : i \in {i \in DOMAIN f.destination :
                                                   f.destination[i].kind = "discord_webhook"}} :
        IF id = Missing THEN FALSE ELSE IdOk(id)}

AllIds(flows) == UNION {Ids(flows[i]) : i \in DOMAIN flows}

\* A host has the three places of every credential a file names.
ASSUME HostAssumption ==
    \A h \in Hosts, file \in Texts \ {Nobody} : \A id \in AllIds(file) : h.place[id.stem] \in Place

\* name_index and env_var_index, after the loop over the flows.
DuplicateName(flows) ==
    \E i, j \in DOMAIN flows : i # j /\ NameOk(flows[i].name) /\ flows[i].name = flows[j].name
Collision(flows) == \E x, y \in AllIds(flows) : x # y /\ ToEnvVar(x) = ToEnvVar(y)

\* Every error of every flow; Ok only when there is none.
Validate(flows) ==
    (UNION {{<<i, x>> : x \in FlowErrors(flows[i])} : i \in DOMAIN flows})
    \cup (IF flows = <<>> THEN {<<0, "flow">>} ELSE {})
    \cup (IF DuplicateName(flows) THEN {<<0, "flow.name">>} ELSE {})
    \cup (IF Collision(flows) THEN {<<0, "credential_id">>} ELSE {})

\* load, load_str, map_toml_error.
Load(file) == IF file = Nobody THEN {<<0, "parse">>} ELSE Validate(file)

Accepted(file) == Load(file) = {}

-----------------------------------------------------------------------------
(* gcit check. *)

\* walk_credentials, collect_consumers: every credential of every flow, enabled or not.
Consumed(flows) == AllIds(flows)

\* Faulty variant: a place that is not usable is passed over.
CheckFallsThrough(p) ==
    CASE p.dir \in {"Ok", "Unreadable"} -> "resolved"
      [] p.dir \notin {"Ok", "Unreadable"} /\ p.env # "unset" -> "resolved"
      [] p.dir \notin {"Ok", "Unreadable"} /\ p.env = "unset" /\ p.file = "Ok" -> "resolved"
      [] OTHER -> "absent"

\* The chain as cli::check walks it: a file is probed and not read, and var_os takes
\* a variable that is not UTF-8.
Probed(probe) == IF probe \in {"Ok", "Unreadable"} THEN "resolved" ELSE "error"
CheckResolution(p) ==
    CASE p.dir # "NotPresent" -> Probed(p.dir)
      [] p.dir = "NotPresent" /\ p.env # "unset" -> "resolved"
      [] p.dir = "NotPresent" /\ p.env = "unset" /\ p.file # "NotPresent" -> Probed(p.file)
      [] OTHER -> "absent"

\* validate_spool_writability, probe_spool_writability: the mail users of every flow.
Mailboxes(flows) ==
    UNION {{flows[i].destination[k].user : k \in {k \in DOMAIN flows[i].destination :
                                   flows[i].destination[k].kind = "local_mail"}}
              : i \in DOMAIN flows}
SpoolErrors(flows) == {u \in Mailboxes(flows) : host.spool[u] # "Writable"}

\* run: CONFIG on any error; a credential that is nowhere is a note under systemd.
CheckExit(flows) ==
    IF ~Accepted(flows) THEN "CONFIG"
    ELSE LET found == {CheckResolution(host.place[id.stem]) : id \in Consumed(flows)}
         IN  CASE SpoolErrors(flows) # {} \/ "error" \in found -> "CONFIG"
               [] SpoolErrors(flows) = {} /\ found \subseteq {"resolved"} -> "OK"
               [] OTHER -> IF host.systemd THEN "OK, INFO" ELSE "CONFIG"

-----------------------------------------------------------------------------
(* What the runtime demands of a flow it was given. *)

\* build_notifiers: parse_webhook_url on the secret; LocalMailNotifier::new.
ParsesAsWebhook(id) == host.content[id.stem] = "webhook"
ValidateUser(u) == u # "../ops"

SetupTrouble(f) ==
    LET hooks == {d \in {f.destination[i] : i \in DOMAIN f.destination} :
                    d.kind = "discord_webhook"}
    IN  {x \in {"credential", "webhook_url", "local_mail_user"} :
           \/ x = "credential"
              /\ \E id \in {d.cred : d \in hooks} \cup {f.action_cred} :
                    Resolution(host.place[id.stem]) = "error"
           \/ x = "webhook_url"
              /\ \E d \in hooks : ~ParsesAsWebhook(d.cred)
           \/ x = "local_mail_user"
              /\ \E i \in DOMAIN f.destination :
                    f.destination[i].kind = "local_mail" /\ ~ValidateUser(f.destination[i].user)}

\* poll_one: split_github_repo, ref_to_reference; base_url, extract_repo_path_from_url
\* and the manifest, which is fetched from the base URL as it is, over HTTP only.
PollTrouble(f) ==
    {x \in {"source_url", "source_ref"} :
       \/ x = "source_url" /\ f.url \in {"github_root", "kernel_root", "kernel_ssh"}
       \/ x = "source_ref" /\ Strategy(f.url) = "GithubApi"
                          /\ f.ref \notin {"refs/heads/main", "refs/tags/v1"}}

SplitRepo(repo) == repo \in {"owner/repo", "owner/repo/x"}

\* render_dispatch_inputs, in strict mode and without a job; split_repo.
DispatchTrouble(f) ==
    {x \in {"input_render", "repo"} :
       \/ x = "input_render" /\ \E k \in DOMAIN f.inputs : ~Renders(f.inputs[k], FALSE)
       \/ x = "repo" /\ ~SplitRepo(f.repo)}

\* on_run_complete: title, subject and the like are rendered without a job.
NotifyTrouble(f) ==
    IF \E i \in DOMAIN f.destination : \E s \in DOMAIN f.destination[i].template :
          ~Renders(f.destination[i].template[s], s \in JobSites)
    THEN {"template"} ELSE {}

Trouble(f) == SetupTrouble(f) \cup PollTrouble(f) \cup DispatchTrouble(f) \cup NotifyTrouble(f)

-----------------------------------------------------------------------------
RulesInit ==
    /\ text \in Texts /\ host \in Hosts
    /\ phase = "written" /\ exit = "none" /\ trouble = <<>>

\* cli::check::run.
Check ==
    /\ phase = "written" /\ phase' = "checked"
    /\ exit' = CheckExit(text)
    /\ UNCHANGED <<text, host, trouble>>

\* The daemon loads the same file on the same host; disabled flows are not spawned.
StartFlows ==
    /\ phase = "checked" /\ Accepted(text) /\ phase' = "started"
    /\ trouble' = [i \in DOMAIN text |-> IF text[i].enabled THEN Trouble(text[i]) ELSE {}]
    /\ UNCHANGED <<text, host, exit>>

RulesNext == Check \/ StartFlows

RulesSpec == RulesInit /\ [][RulesNext]_ruleVars

-----------------------------------------------------------------------------
(* Properties. *)

\* What state, registry and metrics are keyed by: no two flows of an accepted file
\* have one name.
NamesAreKeys == \A i, j \in DOMAIN text : text[i].name = text[j].name => i = j

\* Two credentials never read the same variable.
OneVariablePerCredential ==
    \A x, y \in AllIds(text) : ToEnvVar(x) = ToEnvVar(y) => x = y

\* A poll waits at least MIN_INTERVAL and at most one and a half MAX_INTERVAL,
\* whatever the configuration and the random sample.
SleepsInRange ==
    \A i \in DOMAIN text : \A sample \in {-10, -5, 0, 5, 10} :
       LET t == ApplyJitter(SourceInterval(text[i]), Jitter(text[i]), sample)
       IN  10 * MIN_INTERVAL <= t /\ t <= 15 * MAX_INTERVAL

\* How far validation goes: of what the runtime refuses in an accepted file, these
\* are left to it.  A secret that is missing or not a webhook, a source URL that fits no
\* repository of its strategy, a GitHub ref that is neither a branch nor a tag, an input
\* that does not render, and a job key in a template that is rendered without a job.
AcceptedConfigIsSound ==
    phase = "started" =>
       /\ NamesAreKeys /\ OneVariablePerCredential /\ SleepsInRange
       /\ \A i \in DOMAIN text :
             trouble[i] \subseteq {"credential", "webhook_url", "source_url", "source_ref",
                                   "input_render", "template"}

\* `gcit check` walks the places of a credential as the daemon does: after a clean
\* check a flow fails for a credential only if its variable is not UTF-8, or if a file
\* that passed the probe cannot be read, which the check does not try.
CheckPredictsDaemon ==
    (phase = "started" /\ exit = "OK") =>
       \A i \in DOMAIN text : "credential" \in trouble[i] =>
          \E id \in Ids(text[i]) : \/ host.place[id.stem].env = "binary"
                                   \/ "Unreadable" \in {host.place[id.stem].dir, host.place[id.stem].file}

\* cli/check.rs:86-87: "the pre-flight's purpose is to verify the daemon will succeed".
\* The code does not keep this: see the two exceptions above.
CheckMeansResolvable ==
    (phase = "started" /\ exit = "OK") => \A i \in DOMAIN text : "credential" \notin trouble[i]

\* configuration.md:156-170, of notification messages and dispatch input values: "Bare
\* names [...] are rejected at config load"; and github/dispatcher.rs:552-554: "config
\* validation registers every template and renders it against a probe context".  The
\* code does not keep this: inputs are first compiled when a flow dispatches.
InputsAreCompiled ==
    phase = "started" =>
       \A i \in DOMAIN text : \A k \in DOMAIN text[i].inputs : CompileOk(text[i].inputs[k])

\* polling.md: "Only refs/heads/* and refs/tags/*. Any other ref syntax is rejected at
\* config load."
GithubRefIsChecked ==
    phase = "started" => \A i \in DOMAIN text : "source_ref" \notin trouble[i]

=============================================================================
