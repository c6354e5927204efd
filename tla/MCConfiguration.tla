--------------------------- MODULE MCConfiguration ---------------------------
(***************************************************************************)
(* Five parts of the daemon that follow from its configuration and share   *)
(* no state with each other: the rules a file must obey and `gcit check`   *)
(* (ConfigRules), the credentials of its flows (CredentialPool), their     *)
(* sources (SourcePoll, RateBucket) and the mails and embeds of their      *)
(* notifications (MessageText).  An initial state picks the part that      *)
(* moves, so that their states do not multiply.                            *)
(***************************************************************************)
EXTENDS ConfigRules, SourcePoll, MessageText

CONSTANTS f1, f2, c1, c2

VARIABLE part

-----------------------------------------------------------------------------
(* Files and hosts. *)

MCId(stem, sep, defect) == [stem |-> stem, sep |-> sep, defect |-> defect]
Pat == MCId("pat", "_", "none")
Hook == MCId("hook", "_", "none")
OddIds == {MCId("pat", "-", "none"), MCId("pat", "_", "leading hyphen"), Nobody}

NoTemplate == [s \in {"title", "field_value", "subject"} |-> Nobody]
Template(s, t) == [NoTemplate EXCEPT ![s] = t]
AnyTemplate ==
    {Template(s, t) : s \in DOMAIN NoTemplate, t \in {"plain", "job", "broken", "bare", "typo"}}

Discord == [kind |-> "discord_webhook", cred |-> Hook, user |-> Nobody,
            fire_on |-> <<"run_complete">>, template |-> NoTemplate]
Mailbox == [Discord EXCEPT !.kind = "local_mail", !.cred = Nobody, !.user = "ops"]

\* Destinations that differ from the default in one field.
Destinations ==
    {Discord, Mailbox, [Discord EXCEPT !.kind = "email"], [Discord EXCEPT !.user = "ops"],
     [Mailbox EXCEPT !.cred = Hook]}
    \cup {[Discord EXCEPT !.cred = id] : id \in OddIds}
    \cup {[Mailbox EXCEPT !.user = u] : u \in {Nobody, "-ops", "../ops", ""}}
    \cup {[d EXCEPT !.fire_on = s] : d \in {Discord, Mailbox},
              s \in {<<"run_start", "run_complete">>, <<"run_start", "run_start">>}}
    \cup {[d EXCEPT !.template = t] : d \in {Discord, Mailbox}, t \in AnyTemplate}

NoPoll == [interval |-> Nobody, jitter |-> Nobody, cooldown |-> Nobody]

Plain == [name |-> "alpha", enabled |-> TRUE, url |-> "github", ref |-> "refs/heads/main",
          source_cred |-> Nobody, kind |-> "github_workflow_dispatch",
          repo |-> "owner/repo", workflow |-> "ci.yml", action_ref |-> "refs/heads/main",
          action_cred |-> Pat, inputs |-> <<>>, destination |-> <<Discord>>, poll |-> NoPoll]

\* Flows that differ from the plain one in one field.
MCFlowTexts ==
    {[Plain EXCEPT !.name = v] : v \in {"alpha", "beta", "", "x y"}}
    \cup {[Plain EXCEPT !.enabled = FALSE]}
    \cup {[Plain EXCEPT !.url = v] : v \in {"github_root", "kernel", "kernel_root", "kernel_ssh",
                                            "other", "file", "scp", "ftp"}}
    \cup {[Plain EXCEPT !.ref = v] : v \in {"refs/tags/v1", "refs/pull/1/head", "refs/heads/",
                                            "main"}}
    \cup {[Plain EXCEPT !.source_cred = v] : v \in OddIds \cup {Hook}}
    \cup {[Plain EXCEPT !.kind = "jenkins"]}
    \cup {[Plain EXCEPT !.repo = v] : v \in {Nobody, "owner", "owner/repo/x"}}
    \cup {[Plain EXCEPT !.workflow = v] : v \in {Nobody, "", "dir/ci.yml"}}
    \cup {[Plain EXCEPT !.action_ref = v] : v \in {Nobody, "main"}}
    \cup {[Plain EXCEPT !.action_cred = v] : v \in OddIds \cup {Hook}}
    \cup {[Plain EXCEPT !.inputs = [gcit_run_id |-> "plain"]]}
    \cup {[Plain EXCEPT !.inputs = [sha |-> t]] : t \in {"plain", "job", "broken", "bare", "typo"}}
    \cup {[Plain EXCEPT !.destination = <<d>>] : d \in Destinations}
    \cup {[Plain EXCEPT !.destination = <<>>], [Plain EXCEPT !.destination = <<Mailbox, Discord>>]}
    \cup {[Plain EXCEPT !.poll.interval = v] : v \in {-1, 0, 14, 15, 86400, 86401}}
    \cup {[Plain EXCEPT !.poll.jitter = v] : v \in {-1, 0, 5, 6}}
    \cup {[Plain EXCEPT !.poll = [interval |-> v, jitter |-> 5, cooldown |-> Nobody]] :
             v \in {15, 86400}}
    \cup {[Plain EXCEPT !.poll.cooldown = v] : v \in {-1, 0, 14, 15, 86401}}

Second(f) == IF f.name = "alpha" THEN [f EXCEPT !.name = "beta"] ELSE f

MCTexts == {Nobody, <<>>} \cup {<<f>> : f \in MCFlowTexts}
           \cup {<<Plain, Second(f)>> : f \in MCFlowTexts} \cup {<<Plain, Plain>>}
           \cup {<<[Plain EXCEPT !.name = ""], f>> : f \in MCFlowTexts}

Bare == [dir |-> "NotPresent", env |-> "unset", file |-> "Ok"]
MCHost(p, c, m) ==
    [place |-> [s \in {"pat", "hook"} |-> IF s = "pat" THEN p ELSE Bare],
     content |-> [s \in {"pat", "hook"} |-> c],
     spool |-> [u \in {"ops", "-ops", "../ops", "", Nobody} |-> m],
     systemd |-> p.dir # "NotPresent"]
MCHosts ==
    {MCHost(p, "webhook", "Writable") : p \in Place}
    \cup {[MCHost(p, "webhook", "Writable") EXCEPT !.systemd = TRUE] : p \in Place}
    \cup {MCHost(Bare, "token", "Writable"), MCHost(Bare, "webhook", "SpoolMissing")}

-----------------------------------------------------------------------------
(* Two flows that share an action credential, part ways, or are dropped;   *)
(* the webhook of one is the action credential of the other.               *)

MCFlows == {f1, f2}
MCCreds == {c1, c2}

MCFlow(a, h, r) == [action |-> a, hook |-> h, rev |-> r]
MCConfig(x, y) == [f \in MCFlows |-> IF f = f1 THEN x ELSE y]
MCConfigs == {MCConfig(MCFlow(c1, Nobody, 0), MCFlow(c1, c2, 0)),
              MCConfig(MCFlow(c1, Nobody, 0), MCFlow(c2, c1, 0)),
              MCConfig(MCFlow(c1, Nobody, 1), MCFlow(c1, c2, 0)),
              MCConfig(Nobody, MCFlow(c1, c2, 0))}

MCPlace(d, e, f) == [dir |-> d, env |-> e, file |-> f]
MCLayouts == {[c \in MCCreds |-> IF c = c1 THEN MCPlace("NotPresent", "unset", "Ok") ELSE p] :
                 p \in {MCPlace("Ok", "text", "NotPresent"), MCPlace("NotPresent", "text", "Ok"),
                        MCPlace("NotPresent", "unset", "Unreadable")}}

-----------------------------------------------------------------------------
(* Two flows of one host, or of two; the ref of the first moves.           *)

MCRef(c, t, s) == [commit |-> c, tag |-> t, sym |-> s]
MCMoving == {MCRef(None, None, FALSE), MCRef(None, None, TRUE), MCRef("c1", None, FALSE),
             MCRef("c1", "t1", FALSE), MCRef("c1", "t1", TRUE)}
MCRefs == [f \in MCFlows |-> IF f = f1 THEN MCMoving ELSE {MCRef("c1", None, FALSE)}]

MCSource(s, h, p, r) == [strategy |-> s, host |-> h, path |-> p, ref |-> r]
MCSourcePair(x, y) == [f \in MCFlows |-> IF f = f1 THEN x ELSE y]
MCSources ==
    {MCSourcePair(MCSource("Grokmirror", "kernel", TRUE, "refs/heads/main"),
                  MCSource("Grokmirror", "kernel", TRUE, "refs/heads/main")),
     MCSourcePair(MCSource("GithubApi", "github", TRUE, "refs/heads/main"),
                  MCSource("LsRemote", "kernel", TRUE, "refs/pull/1")),
     MCSourcePair(MCSource("GithubApi", "github", TRUE, "refs/heads/"),
                  MCSource("GithubApi", "github", FALSE, "refs/pull/1"))}

-----------------------------------------------------------------------------
(* Bodies of one or two lines, blank, with and without "From "; texts of   *)
(* an embed that are empty, fit, or are too long, of one or more bytes.    *)

MCLines == {Blank, Line(0, FALSE), Line(0, TRUE), Line(1, TRUE), Line(1, FALSE)}
MCBodies == UNION {[1 .. n -> MCLines] : n \in 1 .. 2}
MCSubjects == {<<"char">>, <<"char", "control", "char">>}
MCRendered == {<<>>, <<1, 3>>, <<4, 1, 1, 4>>}

-----------------------------------------------------------------------------
\* The parts that do not move start in one state.
Fixed ==
    /\ part # "rules" => text = <<>> /\ host = CHOOSE h \in Hosts : TRUE
    /\ part # "pool" => /\ config = CHOOSE c \in Configs : TRUE
                        /\ place = CHOOSE l \in Layouts : TRUE
    /\ part # "sources" => /\ source = CHOOSE s \in Sources : TRUE
                           /\ remote = [f \in Users |-> CHOOSE r \in Refs[f] : TRUE]

ConfigurationInit ==
    /\ part \in {"rules", "pool", "sources", "mails", "embeds"}
    /\ Fixed
    /\ RulesInit /\ PoolInit /\ PollInit /\ TextInit

ConfigurationNext ==
    /\ UNCHANGED part
    /\ \/ part = "rules" /\ RulesNext /\ UNCHANGED <<poolVars, pollVars, textVars>>
       \/ part = "pool" /\ PoolNext /\ UNCHANGED <<ruleVars, pollVars, textVars>>
       \/ part = "sources" /\ PollNext /\ UNCHANGED <<ruleVars, poolVars, textVars>>
       \/ part = "mails" /\ MailSome /\ UNCHANGED <<ruleVars, poolVars, pollVars>>
       \/ part = "embeds" /\ PostSome /\ UNCHANGED <<ruleVars, poolVars, pollVars>>

ConfigurationSpec ==
    ConfigurationInit
    /\ [][ConfigurationNext]_<<part, ruleVars, poolVars, pollVars, textVars>>
=============================================================================
