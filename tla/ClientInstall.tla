---------------------------- MODULE ClientInstall ----------------------------
(***************************************************************************)
(* Installing and enrolling one client: client/install-client.sh with the  *)
(* scripts it sources, and the dashboard's side of the exchange            *)
(* (server/src/api/clients/service.ts, policy/enrolment.ts).               *)
(*                                                                         *)
(* The installer is a sequence of steps meant to be run again: it may fail *)
(* in any step (`set -e` ends the run) or be cut off between two writes,   *)
(* and a reply of the dashboard may be lost.  Each step of the script that *)
(* changes the machine is an action; the files are abstracted to what a    *)
(* later run can tell about them.                                          *)
(***************************************************************************)
EXTENDS Integers, Sequences, FiniteSets

CONSTANTS Users,      \* the dashboard's users the tokens were minted for
          Tokens,     \* enrolment tokens
          UserOf,     \* token -> the user it was minted for
          Versions,   \* ActivityWatch versions, as numbers
          Null,
          MaxRuns, MaxClients, MaxAdmin   \* bounds: runs, client rows, acts of the administrator

\* 0 stands for a stamp that is not there.
ConstantsOK == 0 \notin Versions

VARIABLES
  \* the machine
  account, sudoers,   \* the pct-agent account; its sudoers drop-in
  sources,            \* the PPA's .sources file: "none", "torn" or "whole"
  packages,           \* the packages are installed
  aw,                 \* [files, torn, stamp]: ActivityWatch's version on disk
  conf, running,      \* timekpr.conf has our keys; the daemon was restarted since
  authorized,         \* the dashboard's key is in authorized_keys
  env,                \* pct-client.env: NoFile, Empty or a client's id
  \* the run
  pc, mode, token, version, reply, runs,
  \* the dashboard
  users, consumed, clients, keyReady, admin,
  \* history
  cut,                \* a run was cut between writing timekpr.conf and the restart
  lost                \* a reply was lost or cut short before its credentials were stored

machine == <<account, sudoers, sources, packages, aw, conf, running, authorized, env>>
run == <<mode, token, version, reply, runs>>
board == <<users, consumed, clients, keyReady, admin>>
hist == <<cut, lost>>
vars == <<account, sudoers, sources, packages, aw, conf, running, authorized, env,
          pc, mode, token, version, reply, runs, users, consumed, clients, keyReady, admin,
          cut, lost>>

NoFile == -1
Empty == 0

Init ==
  /\ account = FALSE /\ sudoers = FALSE /\ sources = "none" /\ packages = FALSE
  /\ aw = [files |-> 0, torn |-> FALSE, stamp |-> 0]
  /\ conf = FALSE /\ running = FALSE /\ authorized = FALSE /\ env = NoFile
  /\ pc = "idle" /\ mode = "enrol" /\ token = Null /\ version = 0 /\ reply = Null /\ runs = 0
  /\ users = Users /\ consumed = [t \in Tokens |-> 0] /\ clients = {} /\ admin = 0
  /\ keyReady \in BOOLEAN
  /\ cut = FALSE /\ lost = FALSE

Goto(next) == pc' = next

\* pct_orch_main: a run to enrol with some token, or an upgrade in place.
pct_orch_main ==
  /\ pc = "idle" /\ runs < MaxRuns
  /\ runs' = runs + 1
  /\ mode' \in {"enrol", "upgrade"} /\ version' \in Versions
  /\ token' \in (IF mode' = "enrol" THEN Tokens ELSE {Null})
  /\ reply' = Null
  /\ Goto("preflight")
  /\ UNCHANGED <<machine, board, hist>>

\* Pre-flight: root, curl, a supported distribution, the accounts exist.
preflight == pc = "preflight" /\ Goto("account") /\ UNCHANGED <<machine, run, board, hist>>

\* pct_create_agent_user.
pct_create_agent_user ==
  /\ pc = "account"
  /\ account' = TRUE
  /\ Goto("sudoers")
  /\ UNCHANGED <<sudoers, sources, packages, aw, conf, running, authorized, env, run, board, hist>>

\* pct_install_sudoers: a validated temporary file renamed into place.
pct_install_sudoers ==
  /\ pc = "sudoers"
  /\ sudoers' = TRUE
  /\ Goto("repositories")
  /\ UNCHANGED <<account, sources, packages, aw, conf, running, authorized, env, run, board, hist>>

\* pct_baseline_add_repositories: skipped when the .sources file is there at all.
\* The file is opened, then written.
pct_baseline_add_repositories ==
  /\ pc = "repositories"
  /\ IF sources = "none" THEN sources' = "torn" /\ Goto("sources")
     ELSE Goto("packages") /\ UNCHANGED sources
  /\ UNCHANGED <<account, sudoers, packages, aw, conf, running, authorized, env, run, board, hist>>

pct_baseline_add_timekpr_ppa ==
  /\ pc = "sources"
  /\ sources' = "whole"
  /\ Goto("packages")
  /\ UNCHANGED <<account, sudoers, packages, aw, conf, running, authorized, env, run, board, hist>>

\* pct_baseline_install_packages: without the whole PPA entry apt finds no
\* timekpr-next (the PPA is opted into where the distribution has none).
pct_baseline_install_packages ==
  /\ pc = "packages" /\ (packages \/ sources = "whole")
  /\ packages' = TRUE
  /\ Goto("activitywatch")
  /\ UNCHANGED <<account, sudoers, sources, aw, conf, running, authorized, env, run, board, hist>>

\* pct_baseline_install_activitywatch: a current stamp skips it; the bundle is
\* unpacked over what is there, and the stamp is written last.
pct_baseline_install_activitywatch ==
  /\ pc = "activitywatch"
  /\ IF aw.stamp = version
     THEN Goto("timekpr") /\ UNCHANGED aw
     ELSE aw' = [aw EXCEPT !.files = version, !.torn = TRUE] /\ Goto("unzip")
  /\ UNCHANGED <<account, sudoers, sources, packages, conf, running, authorized, env, run, board, hist>>

\* Mutant: the stamp is written before the bundle is unpacked.
unzipStampFirst ==
  \/ /\ pc = "unzip" /\ aw' = [aw EXCEPT !.stamp = version] /\ Goto("stamp")
     /\ UNCHANGED <<account, sudoers, sources, packages, conf, running, authorized, env, run, board, hist>>
  \/ /\ pc = "stamp" /\ aw' = [aw EXCEPT !.torn = FALSE] /\ Goto("timekpr")
     /\ UNCHANGED <<account, sudoers, sources, packages, conf, running, authorized, env, run, board, hist>>

\* The bundle is unpacked; then the stamp is written.
unzip ==
  \/ /\ pc = "unzip" /\ aw' = [aw EXCEPT !.torn = FALSE] /\ Goto("stamp")
     /\ UNCHANGED <<account, sudoers, sources, packages, conf, running, authorized, env, run, board, hist>>
  \/ /\ pc = "stamp" /\ aw' = [aw EXCEPT !.stamp = version] /\ Goto("timekpr")
     /\ UNCHANGED <<account, sudoers, sources, packages, conf, running, authorized, env, run, board, hist>>

\* Mutant: whether the file changed is not looked at, and no restart is made.
pct_set_conf_key_only ==
  /\ pc = "timekpr"
  /\ conf' = TRUE
  /\ Goto("filter")
  /\ UNCHANGED <<account, sudoers, sources, packages, aw, running, authorized, env, run, board, hist>>

\* pct_set_conf_key: the notification keys; a checksum tells whether they changed.
pct_set_conf_key ==
  /\ pc = "timekpr"
  /\ conf' = TRUE
  /\ Goto(IF conf THEN "filter" ELSE "restart")
  /\ UNCHANGED <<account, sudoers, sources, packages, aw, running, authorized, env, run, board, hist>>

\* pct_apply_change: the daemon is restarted when this run changed the file.
pct_apply_change ==
  /\ pc = "restart"
  /\ running' = TRUE
  /\ Goto("filter")
  /\ UNCHANGED <<account, sudoers, sources, packages, aw, conf, authorized, env, run, board, hist>>

\* The ActivityWatch units, the indicator's autostart entry and e2guardian's
\* baseline are written afresh by every run.
pct_baseline_configure_users ==
  /\ pc = "filter"
  /\ Goto(IF mode = "upgrade" THEN "selftest" ELSE "enrol")
  /\ UNCHANGED <<machine, run, board, hist>>

(* ---- the exchange ---- *)

This == {c \in clients : c.live}

\* Mutant: the row is inserted although the token is used.
enrolClientAnyToken(t) == {IF UserOf[t] \notin users \/ This # {} THEN 409 ELSE 201}

\* enrolClient's answers: 401 for a used token; for one not used, 401 once it has
\* expired, 400 when the accounts named are not those it was minted for, 409 when
\* the minted user is gone or the hostname is taken, else 201.
enrolClient(t) ==
  IF consumed[t] # 0 THEN {401}
  ELSE {401, 400} \cup {IF UserOf[t] \notin users \/ This # {} THEN 409 ELSE 201}

\* consumeTokenAndEnrol: row, links and token in one transaction; the answer
\* carries the credentials and the dashboard's key, if it has one yet.
pct_orch_enrol ==
  /\ pc = "enrol" /\ Cardinality(clients) < MaxClients
  /\ LET id == Cardinality(clients) + 1 IN
     \E status \in enrolClient(token) :
        /\ CASE status = 201 -> /\ clients' = clients \cup {[id |-> id, token |-> token, live |-> TRUE]}
                                /\ consumed' = [consumed EXCEPT ![token] = id]
             [] OTHER -> UNCHANGED <<clients, consumed>>
        /\ \/ /\ reply' = [status |-> status, id |-> id, key |-> keyReady]
              /\ Goto("answer")
              /\ UNCHANGED lost
           \/ /\ Goto("idle")                        \* the reply is lost: a network error
              /\ lost' = (lost \/ status = 201)
              /\ UNCHANGED reply
  /\ UNCHANGED <<machine, mode, token, version, runs, users, keyReady, admin, cut>>

\* pct_install_client on the answer: go on with 2xx, take 409 for "already
\* enrolled", abort with anything else.
pct_install_client ==
  /\ pc = "answer"
  /\ Goto(CASE reply.status = 201 -> "authorize"
            [] reply.status = 409 -> "selftest"
            [] OTHER -> "idle")
  /\ UNCHANGED <<machine, run, board, hist>>

\* pct_orch_authorize_key: nothing to do without a key.
pct_orch_authorize_key ==
  /\ pc = "authorize"
  /\ authorized' = (authorized \/ reply.key)
  /\ Goto("truncate")
  /\ UNCHANGED <<account, sudoers, sources, packages, aw, conf, running, env, run, board, hist>>

\* pct_orch_persist_credentials: the file is emptied with its mode, then written.
pct_orch_persist_credentials ==
  \/ /\ pc = "truncate" /\ env' = Empty /\ Goto("write")
     /\ UNCHANGED <<account, sudoers, sources, packages, aw, conf, running, authorized, run, board, hist>>
  \/ /\ pc = "write" /\ env' = reply.id /\ Goto("verify")
     /\ UNCHANGED <<account, sudoers, sources, packages, aw, conf, running, authorized, run, board, hist>>

\* pct_orch_verify_connection only warns.
pct_orch_verify_connection ==
  pc = "verify" /\ Goto("selftest") /\ UNCHANGED <<machine, run, board, hist>>

\* What pct_self_test looks at.
selfTestPasses ==
  /\ account /\ sudoers /\ packages
  /\ authorized
  /\ env \notin {NoFile, Empty}

\* pct_orch_self_test: a failed check ends the run; aw-server may not answer yet.
pct_orch_self_test ==
  /\ pc = "selftest" /\ selfTestPasses
  /\ Goto("done")
  /\ UNCHANGED <<machine, run, board, hist>>

Finish ==
  /\ pc = "done"
  /\ Goto("idle")
  /\ UNCHANGED <<machine, run, board, hist>>

\* The run ends early: a command fails (`set -e`), or power or the terminal goes.
Cut ==
  /\ pc \notin {"idle", "done"}
  /\ Goto("idle")
  /\ cut' = (cut \/ pc = "restart")
  /\ lost' = (lost \/ (pc \in {"answer", "authorize", "truncate", "write"} /\ reply.status = 201))
  /\ UNCHANGED <<machine, run, board>>

(* ---- the administrator ---- *)

\* A user or the client is deleted, or the first-run key generation completes.
Administers ==
  /\ admin < MaxAdmin
  /\ admin' = admin + 1
  /\ \/ /\ \E u \in users : users' = users \ {u}
        /\ UNCHANGED <<clients, keyReady>>
     \/ /\ \E c \in This : clients' = (clients \ {c}) \cup {[c EXCEPT !.live = FALSE]}
        /\ UNCHANGED <<users, keyReady>>
     \/ ~keyReady /\ keyReady' = TRUE /\ UNCHANGED <<users, clients>>
  /\ UNCHANGED <<machine, pc, run, consumed, hist>>

Next ==
  \/ pct_orch_main \/ preflight \/ pct_create_agent_user \/ pct_install_sudoers
  \/ pct_baseline_add_repositories \/ pct_baseline_add_timekpr_ppa
  \/ pct_baseline_install_packages \/ pct_baseline_install_activitywatch \/ unzip
  \/ pct_set_conf_key \/ pct_apply_change \/ pct_baseline_configure_users
  \/ pct_orch_enrol \/ pct_install_client \/ pct_orch_authorize_key
  \/ pct_orch_persist_credentials \/ pct_orch_verify_connection
  \/ pct_orch_self_test \/ Finish \/ Cut \/ Administers

Spec == Init /\ [][Next]_vars

-----------------------------------------------------------------------------
\* A token makes one client, and a host has one row at a time.
OneClientPerToken ==
  /\ \A c, d \in clients : c.token = d.token => c = d
  /\ Cardinality(This) <= 1

\* A stamp of the version on disk means it was unpacked to the end.
StampTrue == aw.stamp # 0 /\ aw.stamp = aw.files => ~aw.torn

\* A change of version was cut off and the installer of the version before is run
\* again: the stamp, which is not removed first, makes it skip the step.
StaleStamp == aw.stamp = version /\ aw.files # version

\* "client enrolment complete" means: the tools are in place and, unless a run was
\* cut between changing timekpr.conf and restarting the daemon, in force.  The
\* ActivityWatch of this installer is unpacked, unless the stamp is stale.
CompleteMeansApplied ==
  pc = "done" => /\ account /\ sudoers /\ packages
                 /\ (aw.files = version /\ ~aw.torn) \/ StaleStamp
                 /\ running \/ cut

\* ... and the stored credentials are those of the host's row in the dashboard,
\* unless the row was deleted since, or the row is of an exchange whose reply
\* never arrived.  (A 409 about a missing user, taken for "already enrolled",
\* completes only on credentials stored before.)
CompleteMeansEnrolled ==
  pc = "done" =>
    \/ \E c \in This : c.id = env
    \/ \E c \in clients : c.id = env /\ ~c.live /\ (This = {} \/ lost)

\* The installer ends complete only on a machine that is what it says.
InstallSound == OneClientPerToken /\ StampTrue /\ CompleteMeansApplied /\ CompleteMeansEnrolled

\* "this host is already enrolled (the dashboard returned 409); keeping the existing
\* enrolment" (install-client.sh:447).
AlreadyEnrolledIsSo == [][pc = "answer" /\ pc' = "selftest" => This # {}]_vars
=============================================================================
