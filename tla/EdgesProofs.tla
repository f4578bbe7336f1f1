----------------------------- MODULE EdgesProofs -----------------------------
(***************************************************************************)
(* What runs around the server, one component at a time as in MCEdges, for *)
(* any number of users, clients, clicks, logins and requests.              *)
(*                                                                         *)
(* The installer. The rows are those the tokens were used for; each part   *)
(* of the machine is tied to the step that sets it, so that a run that     *)
(* ends well found every part done; and the credentials on disk or on      *)
(* their way there are those of the live row, unless a reply was lost.     *)
(*                                                                         *)
(* The admin page. What is under way belongs to this login or to an        *)
(* earlier one, the timer runs only in a session, and the set-up screen is *)
(* mounted exactly while it is shown.                                      *)
(*                                                                         *)
(* The child's page. The worker being installed is newer than the one in   *)
(* control and its cache whole once it is ready; a page served by a worker *)
(* has that worker's version until a deployment; a question about who is   *)
(* signed in was asked in the state it is answered in.                     *)
(*                                                                         *)
(* The preview. The newest request, or the preview once it was answered,   *)
(* is that of the sandbox as it stands.                                    *)
(*                                                                         *)
(* The panes that act. A mount has one call of a kind under way; an        *)
(* adjustment carried out is shown, lost, or on its way back; what a push  *)
(* was answered with is in AdGuard, and the table read after it is newer.  *)
(*                                                                         *)
(* The audit trail. A command is running until it has settled; a row is a  *)
(* settled command's own, says how that went and is missing only when the  *)
(* store refused it; what was redacted stays so.                           *)
(*                                                                         *)
(* The clients page. A list waits for the clients it has taken and has no  *)
(* entry for; what a sighting will record is known when it begins, and is  *)
(* no earlier than the last check unless another overlapped it.            *)
(***************************************************************************)
EXTENDS MCEdges, FiniteSetTheorems, WellFoundedInduction, TLAPS

(* ---- the installation of a client ---- *)

\* The instance has its own name for the library's Cardinality.
LEMMA InstallCardinality == \A S : Install!Cardinality(S) = Cardinality(S)
BY DEF Install!Cardinality, Cardinality

\* The rows are those the tokens were used for, each with an id of its own, at
\* most one of them live.
RowsKept ==
  /\ IsFiniteSet(clients) /\ consumed \in [Tokens -> Nat]
  /\ clients \subseteq [id : Nat \ {0}, token : Tokens, live : BOOLEAN]
  /\ \A c \in clients : c.id <= Cardinality(clients) /\ consumed[c.token] = c.id
  /\ \A c, d \in clients : (c.id = d.id => c = d) /\ (c.live /\ d.live => c = d)

Exchange == {"answer", "authorize", "truncate", "write"}
\* The steps after timekpr.conf has our keys, and those after ActivityWatch.
Configured == Exchange \cup {"restart", "filter", "enrol", "verify", "selftest", "done"}
Unpacked == Configured \cup {"timekpr"}

RunKept ==
  /\ pc # "idle" => version \in Versions /\ (mode # "upgrade" => token \in Tokens)
  /\ pc = "enrol" => mode # "upgrade"
  /\ pc \in Exchange \ {"answer"} => reply.status = 201
  /\ pc = "done" => Install!selfTestPasses

\* The stamp is written last, and the checksum that tells a changed timekpr.conf
\* is taken in the run that restarts the daemon.
ToolsKept ==
  /\ aw \in [files : Versions \cup {0}, torn : BOOLEAN, stamp : Versions \cup {0}]
  /\ pc = "unzip" => aw.files = version
  /\ pc = "stamp" => ~aw.torn
  /\ pc \in Unpacked => aw.stamp = version
  /\ pc \in Configured => conf
  /\ conf /\ ~running => pc = "restart" \/ cut

\* Credentials on disk, or on their way there, are those of the live row, unless
\* its reply was lost.
CredentialsFollow ==
  /\ env \in {Install!NoFile, Install!Empty} \cup {c.id : c \in clients}
  /\ pc \in Exchange /\ reply.status = 201 =>
       reply.id \in {c.id : c \in clients} /\ \A d \in Install!This : d.id = reply.id
  /\ \A d \in Install!This :
       d.id = env \/ lost \/ (pc \in Exchange /\ reply.status = 201)

InstallInv == RowsKept /\ RunKept /\ ToolsKept /\ CredentialsFollow /\ Install!StampTrue

LEMMA InstallInit == Install!Init => InstallInv
<1> SUFFICES ASSUME Install!Init PROVE InstallInv
    OBVIOUS
<1> USE DEF Install!Init
<1>1. RowsKept
    BY FS_EmptySet DEF RowsKept
<1>2. RunKept /\ ToolsKept /\ CredentialsFollow /\ Install!StampTrue
    BY DEF RunKept, ToolsKept, CredentialsFollow, Install!This, Install!StampTrue, Install!NoFile,
           Exchange, Configured, Unpacked
<1> QED BY <1>1, <1>2 DEF InstallInv

\* A new row takes the next id, a deleted one keeps its own.
LEMMA RowsStep ==
  ASSUME RowsKept, RunKept, Install!Next \/ UNCHANGED Install!vars
  PROVE  RowsKept'
<1>1. CASE UNCHANGED <<clients, consumed>>
    BY <1>1 DEF RowsKept
<1>2. CASE Install!pct_orch_enrol
  <2>0. CASE UNCHANGED <<clients, consumed>>
      BY <1>1, <2>0
  <2>1. CASE ~UNCHANGED <<clients, consumed>>
    <3> DEFINE id == Cardinality(clients) + 1
               c == [id |-> id, token |-> token, live |-> TRUE]
    <3>1. 201 \in Install!enrolClient(token)
          /\ clients' = clients \cup {c} /\ consumed' = [consumed EXCEPT ![token] = id]
        BY <2>1, <1>2, InstallCardinality DEF Install!pct_orch_enrol
    <3>2. clients' = clients \cup {c} /\ consumed' = [consumed EXCEPT ![token] = id]
        BY <3>1
    <3>3. consumed[token] = 0 /\ Install!This = {}
        BY <3>1 DEF Install!enrolClient
    <3>4. token \in Tokens
        BY <1>2 DEF Install!pct_orch_enrol, RunKept
    <3>5. Cardinality(clients) \in Nat /\ c \notin clients
        BY FS_CardinalityType DEF RowsKept
    <3>6. IsFiniteSet(clients') /\ Cardinality(clients') = id
        BY <3>2, <3>5, FS_AddElement DEF RowsKept
    <3>7. c.id = id /\ c.token = token /\ c.live /\ \A d \in clients : d.id # c.id /\ d.token # c.token /\ ~d.live
        BY <3>3, <3>4, <3>5 DEF RowsKept, Install!This
    <3>8. c \in [id : Nat \ {0}, token : Tokens, live : BOOLEAN]
        BY <3>4, <3>5
    <3>9. \A d \in clients' : d = c \/ d \in clients
        BY <3>2
    <3>10. \A d \in clients' : consumed'[d.token] = d.id /\ d.id <= id
        BY <3>2, <3>4, <3>5, <3>7, <3>9 DEF RowsKept
    <3>11. \A a, b \in clients' : (a.id = b.id => a = b) /\ (a.live /\ b.live => a = b)
        BY <3>2, <3>7, <3>9 DEF RowsKept
    <3>12. consumed' \in [Tokens -> Nat] /\ clients' \subseteq [id : Nat \ {0}, token : Tokens, live : BOOLEAN]
        BY <3>2, <3>4, <3>5, <3>8, <3>9 DEF RowsKept
    <3> HIDE DEF c
    <3> QED BY <3>6, <3>10, <3>11, <3>12 DEF RowsKept
  <2> QED BY <2>0, <2>1
<1>3. CASE Install!Administers
  <2>1. CASE UNCHANGED clients
      BY <2>1, <1>1, <1>3 DEF Install!Administers
  <2>2. ASSUME NEW c \in Install!This, clients' = (clients \ {c}) \cup {[c EXCEPT !.live = FALSE]}
        PROVE  RowsKept'
    <3> DEFINE d == [c EXCEPT !.live = FALSE]
    <3>1. c \in clients /\ c.live /\ d.id = c.id /\ d.token = c.token /\ ~d.live
        BY DEF Install!This, RowsKept
    <3>2. d \notin clients /\ d \in [id : Nat \ {0}, token : Tokens, live : BOOLEAN]
        BY <3>1 DEF RowsKept
    <3>3. IsFiniteSet(clients') /\ Cardinality(clients') = Cardinality(clients)
      <4>1. IsFiniteSet(clients \ {c}) /\ Cardinality(clients \ {c}) = Cardinality(clients) - 1
            /\ Cardinality(clients) \in Nat
          BY <3>1, FS_RemoveElement, FS_CardinalityType DEF RowsKept
      <4>2. d \notin clients \ {c}
          BY <3>2
      <4> HIDE DEF d
      <4>3. clients' = (clients \ {c}) \cup {d}
          BY <2>2 DEF d
      <4> QED BY <4>1, <4>2, <4>3, FS_AddElement
    <3>4. consumed' = consumed
        BY <1>3 DEF Install!Administers
    <3> HIDE DEF d
    <3> QED BY <2>2, <3>1, <3>2, <3>3, <3>4, ZenonT(60) DEF RowsKept
  <2> QED BY <2>1, <2>2, <1>3 DEF Install!Administers
<1> QED
  <2>1. UNCHANGED <<clients, consumed>> \/ Install!pct_orch_enrol \/ Install!Administers
    BY DEF Install!Next, Install!vars, Install!machine, Install!run, Install!board, Install!hist,
      Install!pct_orch_main, Install!preflight, Install!pct_create_agent_user,
      Install!pct_install_sudoers, Install!pct_baseline_add_repositories,
      Install!pct_baseline_add_timekpr_ppa, Install!pct_baseline_install_packages,
      Install!pct_baseline_install_activitywatch, Install!unzip, Install!pct_set_conf_key,
      Install!pct_apply_change, Install!pct_baseline_configure_users, Install!pct_install_client,
      Install!pct_orch_authorize_key, Install!pct_orch_persist_credentials,
      Install!pct_orch_verify_connection, Install!pct_orch_self_test, Install!Finish, Install!Cut
  <2> QED BY <2>1, <1>1, <1>2, <1>3

LEMMA InstallStep ==
  ASSUME Install!ConstantsOK, InstallInv, Install!Next \/ UNCHANGED Install!vars
  PROVE  (RunKept /\ ToolsKept /\ CredentialsFollow /\ Install!StampTrue)'
<1> USE DEF InstallInv, RunKept, ToolsKept, CredentialsFollow, Install!StampTrue, Install!This,
            Exchange, Configured, Unpacked, Install!Goto, Install!machine, Install!run,
            Install!board, Install!hist, Install!selfTestPasses
<1>1. CASE Install!pct_orch_main
    BY <1>1 DEF Install!pct_orch_main
<1>2. CASE Install!preflight
    BY <1>2 DEF Install!preflight
<1>3. CASE Install!pct_create_agent_user
    BY <1>3 DEF Install!pct_create_agent_user
<1>4. CASE Install!pct_install_sudoers
    BY <1>4 DEF Install!pct_install_sudoers
<1>5. CASE Install!pct_baseline_add_repositories
    BY <1>5 DEF Install!pct_baseline_add_repositories
<1>6. CASE Install!pct_baseline_add_timekpr_ppa
    BY <1>6 DEF Install!pct_baseline_add_timekpr_ppa
<1>7. CASE Install!pct_baseline_install_packages
    BY <1>7 DEF Install!pct_baseline_install_packages
<1>8. CASE Install!pct_baseline_install_activitywatch
  <2>1. CASE aw.stamp = version
      BY <1>8, <2>1 DEF Install!pct_baseline_install_activitywatch, Install!ConstantsOK
  <2>2. CASE aw.stamp # version
    <3>1. aw' = [aw EXCEPT !.files = version, !.torn = TRUE] /\ pc' = "unzip"
        BY <1>8, <2>2 DEF Install!pct_baseline_install_activitywatch
    <3>2. version \in Versions
        BY <1>8 DEF Install!pct_baseline_install_activitywatch
    <3>3. aw'.files = version /\ aw'.torn = TRUE /\ aw'.stamp = aw.stamp
          /\ aw' \in [files : Versions \cup {0}, torn : BOOLEAN, stamp : Versions \cup {0}]
        BY <3>1, <3>2
    <3>4. pc = "activitywatch" /\ UNCHANGED <<conf, running, env, version, mode, token, reply, clients, lost, cut>>
        BY <1>8 DEF Install!pct_baseline_install_activitywatch
    <3>5. Install!StampTrue' /\ ToolsKept'
        BY <2>2, <3>1, <3>3, <3>4
    <3>6. RunKept' /\ CredentialsFollow'
        BY <3>1, <3>4
    <3> QED BY <3>5, <3>6
  <2> QED BY <2>1, <2>2
<1>9. CASE Install!unzip
  <2>1. CASE pc = "unzip"
    <3>1. aw' = [files |-> aw.files, torn |-> FALSE, stamp |-> aw.stamp] /\ pc' = "stamp"
        BY <1>9, <2>1 DEF Install!unzip
    <3> QED BY <1>9, <2>1, <3>1 DEF Install!unzip
  <2>2. CASE pc = "stamp"
    <3>1. aw' = [files |-> aw.files, torn |-> aw.torn, stamp |-> version] /\ pc' = "timekpr"
        BY <1>9, <2>2 DEF Install!unzip
    <3>2. version \in Versions
        BY <2>2
    <3> QED BY <1>9, <2>2, <3>1, <3>2 DEF Install!unzip
  <2> QED BY <1>9, <2>1, <2>2 DEF Install!unzip
<1>10. CASE Install!pct_set_conf_key
    BY <1>10 DEF Install!pct_set_conf_key
<1>11. CASE Install!pct_apply_change
    BY <1>11 DEF Install!pct_apply_change
<1>12. CASE Install!pct_baseline_configure_users
    BY <1>12 DEF Install!pct_baseline_configure_users
<1>13. CASE Install!pct_orch_enrol
  <2> USE DEF RowsKept
  <2>1. ToolsKept' /\ Install!StampTrue' /\ RunKept'
      BY <1>13 DEF Install!pct_orch_enrol
  <2> DEFINE id == Cardinality(clients) + 1
             c == [id |-> id, token |-> token, live |-> TRUE]
  <2>2. PICK code \in Install!enrolClient(token) :
          /\ IF code = 201 THEN clients' = clients \cup {c} ELSE clients' = clients
          /\ \/ reply' = [status |-> code, id |-> id, key |-> keyReady] /\ pc' = "answer" /\ lost' = lost
             \/ pc' = "idle" /\ lost' = (lost \/ code = 201)
          /\ env' = env
      BY <1>13, InstallCardinality DEF Install!pct_orch_enrol
  <2>3. CASE code # 201
    <3>1. clients' = clients /\ (pc' = "idle" \/ (pc' = "answer" /\ reply'.status # 201))
        BY <2>2, <2>3
    <3> QED BY <1>13, <2>1, <2>2, <2>3, <3>1 DEF Install!pct_orch_enrol
  <2>4. CASE code = 201
    <3>1. clients' = clients \cup {c}
        BY <2>2, <2>4
    <3>2. Install!This = {} /\ c.id = id
        BY <2>2, <2>4 DEF Install!enrolClient
    <3>3. \A d \in Install!This' : d.id = id
        BY <3>1, <3>2
    <3>4. lost' \/ (pc' = "answer" /\ reply'.status = 201 /\ reply'.id = id)
      <4>1. CASE lost' = (lost \/ code = 201)
          BY <2>4, <4>1
      <4>2. CASE reply' = [status |-> code, id |-> id, key |-> keyReady] /\ pc' = "answer"
          BY <2>4, <4>2
      <4> QED BY <2>2, <4>1, <4>2
    <3>5. env' = env /\ (pc' = "idle" \/ (pc' = "answer" /\ reply'.id = id))
        BY <2>2, <2>4
    <3>6. {d.id : d \in clients} \cup {id} \subseteq {d.id : d \in clients'}
      <4>1. clients \subseteq clients' /\ c \in clients'
          BY <3>1
      <4> QED BY <3>2, <4>1
    <3> HIDE DEF id, c
    <3>7. CredentialsFollow'
        BY <3>3, <3>4, <3>5, <3>6
    <3> QED BY <2>1, <3>7
  <2> QED BY <2>3, <2>4
<1>14. CASE Install!pct_install_client
    BY <1>14 DEF Install!pct_install_client
<1>15. CASE Install!pct_orch_authorize_key
    BY <1>15 DEF Install!pct_orch_authorize_key
<1>16. CASE Install!pct_orch_persist_credentials
    BY <1>16 DEF Install!pct_orch_persist_credentials
<1>17. CASE Install!pct_orch_verify_connection
    BY <1>17 DEF Install!pct_orch_verify_connection
<1>18. CASE Install!pct_orch_self_test
    BY <1>18 DEF Install!pct_orch_self_test
<1>19. CASE Install!Finish
    BY <1>19 DEF Install!Finish
<1>20. CASE Install!Cut
    BY <1>20 DEF Install!Cut
<1>21. CASE Install!Administers
  <2>1. (RunKept /\ ToolsKept)' /\ Install!StampTrue'
      BY <1>21 DEF Install!Administers
  <2>2. {d.id : d \in clients'} = {d.id : d \in clients} /\ \A d \in Install!This' : d \in Install!This
    <3>1. CASE UNCHANGED clients
        BY <3>1
    <3>2. ASSUME NEW c \in Install!This, clients' = (clients \ {c}) \cup {[c EXCEPT !.live = FALSE]}
          PROVE  {d.id : d \in clients'} = {d.id : d \in clients} /\ \A d \in Install!This' : d \in Install!This
      <4> DEFINE k == [c EXCEPT !.live = FALSE]
      <4>1. k.id = c.id /\ ~k.live /\ c \in clients
          BY DEF RowsKept
      <4> HIDE DEF k
      <4>2. clients' = (clients \ {c}) \cup {k}
          BY <3>2 DEF k
      <4> QED BY <4>1, <4>2
    <3> QED BY <3>1, <3>2, <1>21 DEF Install!Administers
  <2>3. CredentialsFollow'
      BY <1>21, <2>2 DEF Install!Administers
  <2> QED BY <2>1, <2>3
<1>22. CASE UNCHANGED Install!vars
    BY <1>22 DEF Install!vars
<1> QED BY <1>1, <1>2, <1>3, <1>4, <1>5, <1>6, <1>7, <1>8, <1>9, <1>10, <1>11, <1>12, <1>13,
           <1>14, <1>15, <1>16, <1>17, <1>18, <1>19, <1>20, <1>21, <1>22 DEF Install!Next

LEMMA InstallInvSound ==
  ASSUME Install!ConstantsOK, InstallInv
  PROVE  Install!InstallSound
<1>1. Install!OneClientPerToken
  <2>1. \A c, d \in clients : c.token = d.token => c = d
      BY DEF InstallInv, RowsKept
  <2>2. Install!This = {} \/ \E c \in clients : Install!This = {c}
      BY DEF InstallInv, RowsKept, Install!This
  <2>3. Cardinality(Install!This) <= 1
    <3>1. CASE Install!This = {}
        BY <3>1, FS_EmptySet
    <3>2. ASSUME NEW c \in clients, Install!This = {c} PROVE Cardinality(Install!This) <= 1
        BY <3>2, FS_Singleton
    <3> QED BY <2>2, <3>1, <3>2
  <2> QED BY <2>1, <2>3, InstallCardinality DEF Install!OneClientPerToken
<1>2. Install!CompleteMeansApplied
    BY DEF InstallInv, RunKept, ToolsKept, Install!CompleteMeansApplied, Install!StaleStamp,
           Install!StampTrue, Install!selfTestPasses, Install!ConstantsOK, Configured, Unpacked
<1>3. Install!CompleteMeansEnrolled
    BY DEF InstallInv, RowsKept, RunKept, CredentialsFollow, Install!CompleteMeansEnrolled,
           Install!selfTestPasses, Install!This, Exchange
<1> QED BY <1>1, <1>2, <1>3 DEF InstallInv, Install!InstallSound

LEMMA InstallStepInv ==
  ASSUME Install!ConstantsOK, InstallInv, [Install!Next]_(Install!vars)
  PROVE  InstallInv'
BY RowsStep, InstallStep DEF InstallInv

(* ---- the admin page ---- *)

ShellTyped ==
  /\ setup \in Shell!Setups /\ status \in Shell!Setups \cup {Null} /\ session \in {Null, "out", "in"}
  /\ gate \in BOOLEAN /\ timer \in BOOLEAN /\ waited \in BOOLEAN /\ late \in BOOLEAN
  /\ screen \in {Null, TRUE, FALSE} /\ login \in Nat
  /\ count \in [polls : Nat, loads : Nat, outs : Nat] /\ outs \subseteq [n : Nat, login : Nat]
  /\ polls \subseteq [n : Nat, login : Nat, val : Shell!Setups \cup {Null}]
  /\ loads \subseteq [n : Nat, login : Nat]
  /\ data \in Nat \cup {Null} /\ inflight \in Nat \cup {Null}

\* What is under way belongs to this login or an earlier one, and a login whose
\* set-up state is being asked for has nothing under way yet.
OfALogin(r) == r.login <= login /\ (flow = "check" /\ ~late => r.login < login)

\* The polling runs only in a session, unless a sign-out of an earlier one ended
\* it, and signing out ends it.
FlowKept ==
  /\ timer /\ ~late => session = "in" /\ flow = Null
  /\ flow \in {"probe", "login", "check"} => session # "in"
  /\ \A r \in polls \cup loads : OfALogin(r)
  /\ \A o \in outs : o.login <= login /\ (o.login = login => flow # "check" /\ ~timer)
  /\ session = Null => loads = {}

\* A set-up screen without a watchdog was mounted on a set-up that had failed:
\* then this login polls nothing.
GateKept ==
  /\ Shell!KnownBeforeShown
  /\ screen # Null <=> Shell!Shown(session, status, gate) = "setup"
  /\ screen = FALSE /\ ~late =>
       status = "unavailable" /\ ~timer /\ \A p \in polls : p.login # login

\* A login's load is the one that later calls join.
ListsKept ==
  ~late =>
    /\ session # "in" => data = Null
    /\ data # Null => data = login
    /\ session = "in" /\ inflight = Null => \A l \in loads : l.login # login
    /\ \A l, k \in loads : l.login = k.login => l = k

ShellInv == ShellTyped /\ FlowKept /\ GateKept /\ ListsKept

LEMMA ShellInit ==
  ASSUME Shell!ConstantsOK, Shell!Init
  PROVE  ShellInv
BY DEF Shell!ConstantsOK, Shell!Setups, Shell!Init, ShellInv, ShellTyped, FlowKept, OfALogin, GateKept,
       ListsKept, Shell!KnownBeforeShown, Shell!Shown

\* What Page does to the set-up screen, whatever it is called for: on a page that
\* was not showing it, only a failed set-up mounts it without a watchdog.
LEMMA PageTurns ==
  ASSUME Shell!ConstantsOK, ShellTyped, GateKept,
         NEW se \in {Null, "out", "in"}, NEW st \in Shell!Setups \cup {Null}, NEW ga \in BOOLEAN,
         se = "in" => ga \/ st # Null, Shell!Page(se, st, ga)
  PROVE  /\ session' = se /\ status' = st /\ gate' = ga
         /\ session' \in {Null, "out", "in"} /\ status' \in Shell!Setups \cup {Null} /\ gate' \in BOOLEAN
         /\ screen' \in {Null, TRUE, FALSE} /\ waited' \in BOOLEAN
         /\ Shell!KnownBeforeShown'
         /\ screen' # Null <=> Shell!Shown(session, status, gate)' = "setup"
         /\ screen' = FALSE => screen = FALSE \/ (screen = Null /\ st = "unavailable")
         /\ screen = Null /\ screen' # Null => session # "in" \/ gate
BY DEF Shell!ConstantsOK, Shell!Setups, ShellTyped, GateKept, Shell!Page, Shell!Shown, Shell!KnownBeforeShown

LEMMA ShellStep ==
  ASSUME Shell!ConstantsOK, ShellInv, Shell!Next \/ UNCHANGED Shell!vars
  PROVE  ShellInv'
<1> USE DEF ShellInv, Shell!page, Shell!lists
<1>0. CASE UNCHANGED Shell!vars
    BY <1>0, ZenonT(60) DEF Shell!vars, ShellTyped, FlowKept, OfALogin, GateKept, ListsKept,
                Shell!KnownBeforeShown, Shell!Shown
<1>1. ASSUME NEW s \in Shell!Setups, Shell!SetupMoves(s) PROVE ShellInv'
    BY <1>1, ZenonT(60) DEF Shell!SetupMoves, ShellTyped, FlowKept, OfALogin, GateKept, ListsKept,
                Shell!KnownBeforeShown, Shell!Shown
<1>2. ASSUME NEW ok \in BOOLEAN, Shell!ProbeAnswered(ok) PROVE ShellInv'
  <2>1. CASE ok
      BY <1>2, <2>1 DEF Shell!ProbeAnswered, ShellTyped, FlowKept, OfALogin, GateKept, ListsKept,
                Shell!KnownBeforeShown, Shell!Shown, Shell!ConstantsOK
  <2>2. CASE ~ok
    <3>1. /\ flow = "probe" /\ flow' = Null /\ Shell!Page("out", status, gate)
          /\ UNCHANGED <<setup, login, timer, polls, outs, Shell!lists, count>>
        BY <1>2, <2>2 DEF Shell!ProbeAnswered
    <3>2. session' = "out" /\ status' = status /\ gate' = gate /\ screen' = Null /\ waited' = FALSE
        BY <3>1 DEF Shell!Page, Shell!Shown, Shell!ConstantsOK
    <3>3. screen' # FALSE /\ (~late => ~timer) /\ flow' # "check" /\ session # "in"
        BY <3>1, <3>2 DEF Shell!ConstantsOK, FlowKept
    <3> QED BY <3>1, <3>2, <3>3 DEF ShellTyped, FlowKept, OfALogin, GateKept, ListsKept,
                 Shell!KnownBeforeShown, Shell!Shown, Shell!ConstantsOK
  <2> QED BY <2>1, <2>2
<1>3. ASSUME NEW ok \in BOOLEAN, Shell!LoginAnswered(ok) PROVE ShellInv'
    BY <1>3 DEF Shell!LoginAnswered, ShellTyped, FlowKept, OfALogin, GateKept, ListsKept,
                Shell!KnownBeforeShown, Shell!Shown, Shell!ConstantsOK
<1>4. ASSUME NEW ok \in BOOLEAN, Shell!checkSetupStatus(ok) PROVE ShellInv'
  <2> DEFINE st == IF ok THEN setup ELSE status
             ga == gate \/ ~ok \/ setup = "ready"
  <2>1. /\ flow = "check" /\ flow' = Null /\ timer' = (timer \/ (ok /\ setup \in Shell!Working))
        /\ UNCHANGED <<setup, polls, login, outs, Shell!lists, count>>
      BY <1>4 DEF Shell!checkSetupStatus
  <2>2. ga \/ st # Null
      BY DEF ShellTyped, Shell!ConstantsOK
  <2>3. /\ session' = "in" /\ status' = st /\ gate' = ga
        /\ screen' \in {Null, TRUE, FALSE} /\ waited' \in BOOLEAN
        /\ Shell!KnownBeforeShown'
        /\ screen' # Null <=> Shell!Shown(session, status, gate)' = "setup"
        /\ screen' = FALSE => screen = FALSE \/ (screen = Null /\ st = "unavailable")
    <3>1. Shell!Page("in", st, ga)
        BY <1>4 DEF Shell!checkSetupStatus
    <3>2. st \in Shell!Setups \cup {Null} /\ ga \in BOOLEAN
        BY DEF ShellTyped
    <3> HIDE DEF st, ga
    <3> QED BY <2>2, <3>1, <3>2, PageTurns
  <2>4. session # "in" /\ (~late => ~timer) /\ screen = Null
      BY <2>1 DEF FlowKept, GateKept, Shell!Shown, ShellTyped
  <2>5. ShellTyped'
      BY <2>1, <2>3 DEF ShellTyped
  <2>6. FlowKept' /\ ListsKept'
      BY <2>1, <2>3, <2>4 DEF ShellTyped, FlowKept, OfALogin, ListsKept, Shell!ConstantsOK
  <2>7. screen' = FALSE => ok /\ setup = "unavailable"
    <3>1. CASE ok
        BY <2>3, <2>4, <3>1 DEF Shell!ConstantsOK
    <3>2. CASE ~ok
        BY <2>3, <3>2 DEF Shell!Shown, Shell!ConstantsOK
    <3> QED BY <3>1, <3>2
  <2>8. GateKept'
      BY <2>1, <2>3, <2>4, <2>7 DEF GateKept, FlowKept, OfALogin, ShellTyped, Shell!Working
  <2> QED BY <2>5, <2>6, <2>8
<1>5. CASE Shell!handleLogin
    BY <1>5 DEF Shell!handleLogin, ShellTyped, FlowKept, OfALogin, GateKept, ListsKept,
                Shell!KnownBeforeShown, Shell!Shown
<1>6. CASE Shell!Poll
  <2>1. PICK p : /\ p = [n |-> count.polls, login |-> login, val |-> Null] /\ polls' = polls \cup {p}
                 /\ timer /\ count' = [polls |-> count.polls + 1, loads |-> count.loads, outs |-> count.outs]
      BY <1>6 DEF Shell!Poll, ShellTyped
  <2>2. UNCHANGED <<setup, session, flow, status, gate, timer, screen, waited, login, outs, Shell!lists>>
      BY <1>6 DEF Shell!Poll
  <2>3. ShellTyped'
    <3>1. p \in [n : Nat, login : Nat, val : Shell!Setups \cup {Null}] /\ count' \in [polls : Nat, loads : Nat, outs : Nat]
        BY <2>1 DEF ShellTyped
    <3>2. polls' \subseteq [n : Nat, login : Nat, val : Shell!Setups \cup {Null}]
        BY <2>1, <3>1 DEF ShellTyped
    <3> QED BY <2>2, <3>1, <3>2 DEF ShellTyped
  <2>4. (~late => flow # "check") /\ p.login = login
      BY <2>1 DEF FlowKept, Shell!ConstantsOK
  <2>5. FlowKept'
      BY <2>1, <2>2, <2>4 DEF FlowKept, OfALogin, ShellTyped
  <2>6. GateKept' /\ ListsKept'
      BY <2>1, <2>2 DEF GateKept, ListsKept, Shell!KnownBeforeShown, Shell!Shown
  <2> QED BY <2>3, <2>5, <2>6
<1>7. ASSUME NEW p \in polls, Shell!PollServed(p) PROVE ShellInv'
    BY <1>7, ZenonT(60) DEF Shell!PollServed, ShellTyped, FlowKept, OfALogin, GateKept, ListsKept,
                Shell!KnownBeforeShown, Shell!Shown
<1>8. ASSUME NEW p \in polls, Shell!PollAnswered(p) PROVE ShellInv'
  <2>1. /\ p.val # Null /\ polls' = polls \ {p} /\ timer' = (timer /\ p.val \in Shell!Working)
        /\ late' = (late \/ p.login # login)
        /\ UNCHANGED <<setup, flow, login, outs, data, inflight, loads, count>>
      BY <1>8 DEF Shell!PollAnswered
  <2>2. p.val \in Shell!Setups
      BY <2>1 DEF ShellTyped
  <2>3. /\ session' = session /\ status' = p.val /\ gate' = (gate \/ p.val = "ready")
        /\ screen' \in {Null, TRUE, FALSE} /\ waited' \in BOOLEAN
        /\ Shell!KnownBeforeShown'
        /\ screen' # Null <=> Shell!Shown(session, status, gate)' = "setup"
        /\ screen' = FALSE => screen = FALSE \/ (screen = Null /\ p.val = "unavailable")
        /\ screen = Null /\ screen' # Null => session # "in" \/ gate
    <3> DEFINE st == p.val
               ga == gate \/ p.val = "ready"
    <3>1. Shell!Page(session, st, ga)
        BY <1>8 DEF Shell!PollAnswered
    <3>2. st \in Shell!Setups \cup {Null} /\ ga \in BOOLEAN /\ session \in {Null, "out", "in"} /\ st # Null
        BY <2>1, <2>2 DEF ShellTyped
    <3> HIDE DEF st, ga
    <3>3. /\ session' = session /\ status' = st /\ gate' = ga
          /\ screen' \in {Null, TRUE, FALSE} /\ waited' \in BOOLEAN
          /\ Shell!KnownBeforeShown'
          /\ screen' # Null <=> Shell!Shown(session, status, gate)' = "setup"
          /\ screen' = FALSE => screen = FALSE \/ (screen = Null /\ st = "unavailable")
          /\ screen = Null /\ screen' # Null => session # "in" \/ gate
        BY <3>1, <3>2, PageTurns
    <3> QED BY <3>3 DEF st, ga
  <2>4. ShellTyped'
      BY <2>1, <2>2, <2>3 DEF ShellTyped
  <2>5. FlowKept' /\ ListsKept'
      BY <2>1, <2>3 DEF FlowKept, OfALogin, ListsKept, ShellTyped
  <2>6. screen' # Null => session = "in" /\ ~gate
      BY <2>3 DEF Shell!Shown, ShellTyped
  <2>7. screen' = FALSE => screen = FALSE
      BY <2>3, <2>6 DEF Shell!ConstantsOK
  <2>8. screen' = FALSE => late'
      BY <2>1, <2>7 DEF GateKept
  <2> QED BY <2>3, <2>4, <2>5, <2>8 DEF GateKept
<1>9. ASSUME NEW p \in polls, Shell!PollFails(p) PROVE ShellInv'
    BY <1>9, ZenonT(60) DEF Shell!PollFails, ShellTyped, FlowKept, OfALogin, GateKept, ListsKept,
                Shell!KnownBeforeShown, Shell!Shown
<1>10. CASE Shell!Watchdog
    BY <1>10 DEF Shell!Watchdog, ShellTyped, FlowKept, OfALogin, GateKept, ListsKept,
                Shell!KnownBeforeShown, Shell!Shown
<1>11. CASE Shell!oncontinue
  <2>1. /\ screen # Null /\ ~timer' /\ timer' = FALSE /\ Shell!Page(session, status, TRUE)
        /\ UNCHANGED <<setup, flow, polls, login, outs, Shell!lists, count>>
      BY <1>11 DEF Shell!oncontinue, Shell!MayContinue
  <2>2. session' = session /\ status' = status /\ gate' = TRUE /\ screen' = Null /\ waited' = FALSE
      BY <2>1 DEF Shell!Page, Shell!Shown
  <2>3. screen' # FALSE
      BY <2>2 DEF Shell!ConstantsOK
  <2> QED BY <2>1, <2>2, <2>3 DEF ShellTyped, FlowKept, OfALogin, GateKept, ListsKept, Shell!KnownBeforeShown, Shell!Shown
<1>12. CASE Shell!handleLogout
  <2>1. PICK o : /\ o = [n |-> count.outs, login |-> login] /\ outs' = outs \cup {o} /\ timer' = FALSE
                 /\ count' = [polls |-> count.polls, loads |-> count.loads, outs |-> count.outs + 1]
      BY <1>12 DEF Shell!handleLogout, ShellTyped
  <2>2. UNCHANGED <<setup, session, flow, status, gate, polls, screen, waited, login, Shell!lists>>
      BY <1>12 DEF Shell!handleLogout
  <2>3. ShellTyped'
    <3>1. o \in [n : Nat, login : Nat] /\ count' \in [polls : Nat, loads : Nat, outs : Nat]
        BY <2>1 DEF ShellTyped
    <3>2. outs' \subseteq [n : Nat, login : Nat]
        BY <2>1, <3>1 DEF ShellTyped
    <3> QED BY <2>1, <2>2, <3>1, <3>2 DEF ShellTyped
  <2>4. flow # "check" /\ o.login = login
      BY <1>12, <2>1 DEF Shell!handleLogout, Shell!Shown, FlowKept, ShellTyped
  <2>5. FlowKept'
      BY <2>1, <2>2, <2>4 DEF FlowKept, OfALogin, ShellTyped
  <2>6. GateKept' /\ ListsKept'
      BY <2>1, <2>2 DEF GateKept, ListsKept, Shell!KnownBeforeShown, Shell!Shown
  <2> QED BY <2>3, <2>5, <2>6
<1>13. ASSUME NEW o \in outs, Shell!LogoutAnswered(o) PROVE ShellInv'
  <2>1. /\ outs' = outs \ {o} /\ Shell!Page("out", Null, FALSE)
        /\ data' = Null /\ inflight' = Null /\ late' = (late \/ o.login # login)
        /\ UNCHANGED <<setup, flow, timer, polls, login, count, loads>>
      BY <1>13 DEF Shell!LogoutAnswered, Shell!resetResources
  <2>2. session' = "out" /\ status' = Null /\ gate' = FALSE /\ screen' = Null /\ waited' = FALSE
      BY <2>1 DEF Shell!Page, Shell!Shown, Shell!ConstantsOK
  <2>3. late' \in BOOLEAN /\ (~late' => ~late /\ ~timer /\ flow # "check")
    <3>1. CASE o.login # login
        BY <2>1, <3>1
    <3>2. CASE o.login = login
      <4>1. late' = late
          BY <2>1, <3>2 DEF ShellTyped
      <4> QED BY <3>2, <4>1 DEF FlowKept, ShellTyped
    <3> QED BY <3>1, <3>2
  <2>4. screen' # FALSE
      BY <2>2 DEF Shell!ConstantsOK
  <2>5. ShellTyped'
      BY <2>1, <2>2, <2>3 DEF ShellTyped
  <2>6. FlowKept'
      BY <2>1, <2>2, <2>3 DEF FlowKept, OfALogin, ShellTyped, Shell!ConstantsOK
  <2>7. GateKept'
      BY <2>1, <2>2, <2>3, <2>4 DEF GateKept, Shell!KnownBeforeShown, Shell!Shown
  <2>8. ListsKept'
      BY <2>1, <2>2, <2>3 DEF ListsKept
  <2> QED BY <2>5, <2>6, <2>7, <2>8
<1>14. CASE Shell!Mount
  <2>1. UNCHANGED <<setup, session, flow, status, gate, timer, polls, screen, waited, login, outs, data, late>>
      BY <1>14 DEF Shell!Mount
  <2>2. CASE inflight # Null
    <3>1. UNCHANGED <<inflight, loads, count>>
        BY <1>14, <2>2 DEF Shell!Mount, Shell!load
    <3> QED BY <1>0, <2>1, <3>1 DEF Shell!vars
  <2>3. CASE inflight = Null
    <3>1. PICK l : /\ l = [n |-> count.loads, login |-> login] /\ loads' = loads \cup {l}
                   /\ inflight' = count.loads
                   /\ count' = [polls |-> count.polls, loads |-> count.loads + 1, outs |-> count.outs]
        BY <1>14, <2>3 DEF Shell!Mount, Shell!load, ShellTyped
    <3>2. session = "in"
        BY <1>14 DEF Shell!Mount, Shell!Shown, ShellTyped
    <3>3. ShellTyped'
      <4>1. l \in [n : Nat, login : Nat] /\ count' \in [polls : Nat, loads : Nat, outs : Nat] /\ inflight' \in Nat
          BY <3>1 DEF ShellTyped
      <4>2. loads' \subseteq [n : Nat, login : Nat]
          BY <3>1, <4>1 DEF ShellTyped
      <4> QED BY <2>1, <4>1, <4>2 DEF ShellTyped
    <3>4. flow # "check" /\ l.login = login /\ session # Null
        BY <3>1, <3>2 DEF FlowKept, Shell!ConstantsOK
    <3>5. FlowKept'
        BY <2>1, <3>1, <3>4 DEF FlowKept, OfALogin, ShellTyped
    <3>6. GateKept'
        BY <2>1 DEF GateKept, Shell!KnownBeforeShown, Shell!Shown
    <3>7. inflight' # Null
        BY <3>1 DEF ShellTyped, Shell!ConstantsOK
    <3>8. ListsKept'
        BY <2>1, <2>3, <3>1, <3>2, <3>4, <3>7 DEF ListsKept
    <3> QED BY <3>3, <3>5, <3>6, <3>8
  <2> QED BY <2>2, <2>3
<1>15. ASSUME NEW l \in loads, NEW ok \in BOOLEAN, Shell!Loaded(l, ok) PROVE ShellInv'
    BY <1>15 DEF Shell!Loaded, ShellTyped, FlowKept, OfALogin, GateKept, ListsKept,
                Shell!KnownBeforeShown, Shell!Shown
<1> QED BY <1>0, <1>1, <1>2, <1>3, <1>4, <1>5, <1>6, <1>7, <1>8, <1>9, <1>10, <1>11, <1>12,
           <1>13, <1>14, <1>15 DEF Shell!Next

LEMMA ShellInvSound ==
  ASSUME Shell!ConstantsOK, ShellInv
  PROVE  Shell!ShellSound
BY DEF ShellInv, ShellTyped, GateKept, ListsKept, Shell!ShellSound, Shell!NotStranded,
       Shell!MayContinue, Shell!OneLoadAtATime, Shell!ListsOfThisLogin

(* ---- the child's page ---- *)

\* The worker being installed is newer than the one in control, and kept whole
\* once it is ready.
WorkersKept ==
  /\ deployed \in Nat /\ active \in Nat \cup {Null}
  /\ caches = [v \in DOMAIN caches |-> caches[v]]
  /\ active # Null => active <= deployed
  /\ Child!ActiveCacheWhole
  /\ installing # Null =>
       /\ installing \in [ver : Nat, ready : BOOLEAN]
       /\ installing.ver <= deployed /\ installing.ver \in DOMAIN caches
       /\ active # Null => active < installing.ver
       /\ installing.ready => caches[installing.ver] = Child!PRECACHE(installing.ver)

\* Until a deployment or a new worker, the page is served by the worker in control,
\* and its shell is that worker's.
PageKept ==
  /\ page = [phase |-> page.phase, path |-> page.path, by |-> page.by, ver |-> page.ver]
  /\ page.phase = "asked" => page.path \in {"/app", "/app/other"}
  /\ page.by # Null => page.by \in Nat /\ active # Null /\ page.by <= active
  /\ ~moved /\ page.phase # "none" => page.by = active
  /\ ~moved /\ page.phase \in {"shell", "asking"} /\ active # Null => page.ver = active
  /\ Child!LoadsWhole
  /\ page.phase # "run" => session = Null /\ view = Null /\ asks = {}

AskRec == [op : {"probe", "login", "logout", "status"}, n : Nat, child : Children \cup {Null},
           val : Children \cup {Null, "error"}]

\* One probe or sign-in at a time, each asked in its own state.
SessionKept ==
  /\ session \in Children \cup {Null, "out"} /\ cookie \in Children \cup {Null}
  /\ asks \subseteq AskRec /\ mounts \in Nat /\ acts \in Nat
  /\ \A r \in asks :
       /\ r.op = "probe" => session = Null
       /\ r.op = "login" => session = "out" /\ r.child \in Children
       /\ r.op = "logout" => session # Null
  /\ \A r, q \in asks : r.op = q.op /\ r.op \in {"probe", "login"} => r = q
  /\ session \in Children => cookie \in {session, Null}
  /\ left = "answered" => cookie = Null
  /\ Child!SignedOutStays

\* A status under way was asked for by a view mounted before, and the view's own
\* can only be its child's.
StatusKept ==
  /\ Child!OwnStatus
  /\ view # Null => view \in [n : Nat, shown : Children \cup {Null, "error"}] /\ view.n <= mounts
  /\ \A r \in asks : r.op = "status" =>
       /\ r.n <= mounts
       /\ view # Null /\ r.n = view.n => r.val \in {Null, "error", session}

ChildInv == WorkersKept /\ PageKept /\ SessionKept /\ StatusKept

LEMMA ChildInit ==
  ASSUME Child!ConstantsOK, Child!Init
  PROVE  ChildInv
BY DEF Child!ConstantsOK, Child!Init, Child!Blank, ChildInv, WorkersKept, PageKept, SessionKept, StatusKept,
       Child!ActiveCacheWhole, Child!LoadsWhole, Child!OwnStatus, Child!SignedOutStays

\* What the worker in control serves is in its cache: the shell and its chunk.
LEMMA ServedWhole ==
  ASSUME WorkersKept, active # Null
  PROVE  /\ Child!cacheFirst(active, "/app", Null) = <<"/app", active>>
         /\ Child!cacheFirst(active, "chunk", active) = <<"chunk", active>>
         /\ Child!networkFirstShell(active) \in {Null, <<"/app", active>>}
<1>1. Child!Kept(active) = {<<"/app", active>>, <<"chunk", active>>}
    BY DEF WorkersKept, Child!ActiveCacheWhole, Child!Kept, Child!PRECACHE
<1>2. {x \in Child!Kept(active) : x[1] = "/app" /\ ("/app" = "chunk" => x[2] = Null)} = {<<"/app", active>>}
    BY <1>1
<1>3. {x \in Child!Kept(active) : x[1] = "chunk" /\ ("chunk" = "chunk" => x[2] = active)} = {<<"chunk", active>>}
    BY <1>1
<1>4. {x \in Child!Kept(active) : x[1] = "/app"} = {<<"/app", active>>}
    BY <1>1
<1> QED BY <1>2, <1>3, <1>4 DEF Child!cacheFirst, Child!networkFirstShell

\* Serving a request creates the cache it looks in, and leaves the whole ones whole.
LEMMA OpenedKeeps ==
  ASSUME WorkersKept, NEW w \in Nat, NEW got, active # Null, w <= active,
         w = active => got \in Child!PRECACHE(w) \cup {Null},
         Child!Opened(w, got), UNCHANGED <<deployed, active, installing>>
  PROVE  WorkersKept'
<1>1. /\ DOMAIN caches' = DOMAIN caches \cup {w}
      /\ caches' = [v \in DOMAIN caches' |-> caches'[v]]
      /\ \A v \in DOMAIN caches : v # w => caches'[v] = caches[v]
      /\ w = active => caches'[w] = Child!PRECACHE(w)
    BY DEF Child!Opened, Child!Kept, WorkersKept, Child!ActiveCacheWhole
<1> QED BY <1>1 DEF WorkersKept, Child!ActiveCacheWhole, Child!PRECACHE

LEMMA WorkersStep ==
  ASSUME Child!ConstantsOK, ChildInv, Child!Next \/ UNCHANGED Child!vars
  PROVE  WorkersKept'
<1> USE DEF ChildInv
<1>1. CASE UNCHANGED Child!worker
    BY <1>1 DEF Child!worker, WorkersKept, Child!ActiveCacheWhole, Child!PRECACHE
<1>2. CASE Child!Deploy
    BY <1>2 DEF Child!Deploy, WorkersKept, Child!ActiveCacheWhole, Child!PRECACHE
<1>3. CASE Child!Connectivity
    BY <1>3 DEF Child!Connectivity, WorkersKept, Child!ActiveCacheWhole, Child!PRECACHE
<1>4. CASE Child!InstallStarts
    BY <1>4 DEF Child!InstallStarts, WorkersKept, Child!ActiveCacheWhole, Child!PRECACHE
<1>5. CASE Child!Install
    BY <1>5 DEF Child!Install, WorkersKept, Child!ActiveCacheWhole, Child!PRECACHE
<1>6. CASE Child!Activate
    BY <1>6 DEF Child!Activate, Child!Restrict, WorkersKept, Child!ActiveCacheWhole, Child!PRECACHE
<1>7. CASE Child!ShellServed
  <2> USE <1>7 DEF Child!ShellServed
  <2>1. UNCHANGED <<deployed, active, installing>> /\ page.phase = "asked"
      OBVIOUS
  <2>2. CASE page.by = Null
      BY <2>1, <2>2 DEF WorkersKept, Child!ActiveCacheWhole, Child!PRECACHE
  <2>3. CASE page.by # Null
    <3>1. page.by \in Nat /\ active # Null /\ page.by <= active
        BY <2>3 DEF PageKept
    <3>2. CASE Child!PRECACHE_PATHS(page.by, page.path, Null)
      <4>1. Child!Opened(page.by, Child!cacheFirst(page.by, page.path, Null)) /\ page.path = "/app"
          BY <2>1, <2>3, <3>2 DEF Child!PRECACHE_PATHS, PageKept
      <4> QED BY <2>1, <3>1, <4>1, ServedWhole, OpenedKeeps DEF Child!PRECACHE
    <3>3. CASE ~Child!PRECACHE_PATHS(page.by, page.path, Null)
      <4>1. Child!Opened(page.by, Null)
          BY <2>3, <3>3
      <4> QED BY <2>1, <3>1, <4>1, OpenedKeeps
    <3> QED BY <3>2, <3>3
  <2> QED BY <2>2, <2>3
<1>8. CASE Child!ChunkServed
  <2> USE <1>8 DEF Child!ChunkServed
  <2>1. UNCHANGED <<deployed, active, installing>>
      OBVIOUS
  <2>2. CASE UNCHANGED caches
      BY <2>1, <2>2 DEF WorkersKept, Child!ActiveCacheWhole, Child!PRECACHE
  <2>3. CASE page.by # Null /\ Child!PRECACHE_PATHS(page.by, "chunk", page.ver)
    <3>1. page.by \in Nat /\ active # Null /\ page.by <= active
        BY <2>3 DEF PageKept
    <3>2. Child!Opened(page.by, Child!cacheFirst(page.by, "chunk", page.ver)) /\ page.ver = page.by
        BY <2>3 DEF Child!PRECACHE_PATHS
    <3> QED BY <2>1, <3>1, <3>2, ServedWhole, OpenedKeeps DEF Child!PRECACHE
  <2> QED BY <2>2, <2>3
<1> QED
  <2>1. \/ UNCHANGED Child!worker \/ Child!Deploy \/ Child!Connectivity \/ Child!InstallStarts
        \/ Child!Install \/ Child!Activate \/ Child!ShellServed \/ Child!ChunkServed
    BY DEF Child!Next, Child!vars, Child!Navigate, Child!ChunkAsked, Child!ProbeAnswered,
           Child!LoginAnswered, Child!LogoutAnswered, Child!handleLogin, Child!handleLogout,
           Child!StatusServed, Child!StatusAnswered, Child!Expires
  <2> QED BY <2>1, <1>1, <1>2, <1>3, <1>4, <1>5, <1>6, <1>7, <1>8

LEMMA PageStep ==
  ASSUME Child!ConstantsOK, ChildInv, Child!Next \/ UNCHANGED Child!vars
  PROVE  PageKept'
<1> USE DEF ChildInv
<1>1. CASE UNCHANGED Child!vars
    BY <1>1 DEF Child!vars, Child!worker, Child!app, PageKept, Child!LoadsWhole
<1>2. CASE Child!Deploy \/ Child!Connectivity \/ Child!InstallStarts \/ Child!Install
    BY <1>2 DEF Child!Deploy, Child!Connectivity, Child!InstallStarts, Child!Install,
                Child!app, PageKept, Child!LoadsWhole
<1>3. CASE Child!Activate
    BY <1>3 DEF Child!Activate, Child!app, PageKept, WorkersKept, Child!LoadsWhole, Child!ConstantsOK
<1>4. ASSUME NEW path \in {"/app", "/app/other"}, Child!Navigate(path) PROVE PageKept'
    BY <1>4 DEF Child!Navigate, Child!worker, PageKept, WorkersKept, Child!LoadsWhole
<1>5. CASE Child!ShellServed
  <2> USE <1>5 DEF Child!ShellServed
  <2>1. page.phase = "asked" /\ UNCHANGED <<deployed, active, moved, session, view, asks>>
      BY DEF Child!app
  <2>2. PICK got : /\ Child!Shelled(got)
                   /\ ~moved /\ page.by # Null /\ page.path = "/app" => got = <<"/app", active>>
                   /\ ~moved /\ page.by # Null => got \in {Null, <<"/app", active>>}
    <3>1. CASE page.by = Null
        BY <2>1, <3>1
    <3>2. CASE page.by # Null /\ Child!PRECACHE_PATHS(page.by, page.path, Null)
      <4>1. Child!Shelled(Child!cacheFirst(page.by, page.path, Null)) /\ page.path = "/app"
          BY <2>1, <3>2 DEF Child!PRECACHE_PATHS, PageKept
      <4>2. ~moved => page.by = active
          BY <2>1 DEF PageKept
      <4> QED BY <2>1, <3>2, <4>1, <4>2, ServedWhole
    <3>3. CASE page.by # Null /\ ~Child!PRECACHE_PATHS(page.by, page.path, Null)
      <4>1. Child!Shelled(Child!networkFirstShell(page.by)) /\ page.path # "/app"
          BY <2>1, <3>3 DEF Child!PRECACHE_PATHS
      <4>2. ~moved => page.by = active
          BY <2>1 DEF PageKept
      <4> QED BY <2>1, <3>3, <4>1, <4>2, ServedWhole
    <3> QED BY <3>1, <3>2, <3>3
  <2>3. CASE got = Null
      BY <2>1, <2>2, <2>3 DEF Child!Shelled, PageKept, Child!LoadsWhole, Child!ConstantsOK, WorkersKept
  <2>4. CASE got # Null
    <3>1. page' = [phase |-> "shell", path |-> "chunk", by |-> page.by, ver |-> got[2]]
        BY <2>2, <2>4 DEF Child!Shelled, PageKept
    <3>2. ~moved /\ active # Null => got[2] = active
        BY <2>1, <2>2, <2>4 DEF PageKept
    <3> QED BY <2>1, <3>1, <3>2 DEF PageKept, Child!LoadsWhole
  <2> QED BY <2>3, <2>4
<1>6. CASE Child!ChunkAsked
  <2>1. page' = [phase |-> "asking", path |-> page.path, by |-> active, ver |-> page.ver]
      BY <1>6 DEF Child!ChunkAsked, PageKept
  <2>2. page.phase = "shell" /\ UNCHANGED <<active, moved, session, view, asks>>
      BY <1>6 DEF Child!ChunkAsked, Child!worker, Child!app
  <2> QED BY <2>1, <2>2 DEF PageKept, WorkersKept, Child!LoadsWhole
<1>7. CASE Child!ChunkServed
  <2> USE <1>7 DEF Child!ChunkServed
  <2>1. page.phase = "asking" /\ UNCHANGED <<deployed, active, moved, session, view>>
      OBVIOUS
  <2>2. PICK got : /\ Child!Started(got)
                   /\ ~moved /\ page.by # Null => got # Null
    <3>1. CASE page.by # Null /\ Child!PRECACHE_PATHS(page.by, "chunk", page.ver)
      <4>1. Child!Started(Child!cacheFirst(page.by, "chunk", page.ver)) /\ page.ver = page.by
          BY <3>1 DEF Child!PRECACHE_PATHS
      <4>2. ~moved => page.by = active
          BY <2>1 DEF PageKept
      <4>3. ~moved => Child!cacheFirst(page.by, "chunk", page.ver) # Null
          BY <3>1, <4>1, <4>2, ServedWhole DEF Child!ConstantsOK, WorkersKept
      <4> QED BY <4>1, <4>3
    <3>2. CASE ~(page.by # Null /\ Child!PRECACHE_PATHS(page.by, "chunk", page.ver))
      <4>1. moved \/ page.by = Null
          BY <2>1, <3>2 DEF Child!PRECACHE_PATHS, PageKept
      <4> QED BY <3>2, <4>1
    <3> QED BY <3>1, <3>2
  <2>3. page' = [phase |-> IF got = Null THEN "broken" ELSE "run", path |-> page.path,
                 by |-> page.by, ver |-> page.ver]
      BY <2>2 DEF Child!Started, PageKept
  <2>4. page'.phase # "run" => asks' = {} /\ session' = Null /\ view' = Null
      BY <2>1 DEF PageKept
  <2> QED BY <2>1, <2>2, <2>3, <2>4 DEF PageKept, Child!LoadsWhole
<1>8. CASE UNCHANGED <<page, active, moved>> /\ page.phase = "run"
    BY <1>8 DEF PageKept, Child!LoadsWhole
<1>9. CASE Child!Expires
    BY <1>9 DEF Child!Expires, Child!worker, PageKept, Child!LoadsWhole
<1> QED
  <2>1. ASSUME NEW r \in asks, NEW ok \in BOOLEAN,
               \/ Child!ProbeAnswered(r, ok) \/ Child!LoginAnswered(r, ok) \/ Child!LogoutAnswered(r, ok)
               \/ Child!StatusServed(r) \/ Child!StatusAnswered(r)
        PROVE  PageKept'
      BY <2>1, <1>8 DEF PageKept, Child!ProbeAnswered, Child!LoginAnswered, Child!LogoutAnswered,
             Child!StatusServed, Child!StatusAnswered, Child!worker
  <2>2. ASSUME (\E c \in Children : Child!handleLogin(c)) \/ Child!handleLogout PROVE PageKept'
      BY <2>2, <1>8 DEF PageKept, Child!handleLogin, Child!handleLogout, Child!worker, Child!ConstantsOK
  <2> QED BY <2>1, <2>2, <1>1, <1>2, <1>3, <1>4, <1>5, <1>6, <1>7, <1>9 DEF Child!Next

\* Signing in mounts a view, whose status no earlier answer can be.
LEMMA SignsIn ==
  ASSUME Child!ConstantsOK, SessionKept, StatusKept, NEW c \in Children, NEW r \in asks,
         r.op \in {"probe", "login"}, Child!Page(c), asks' = (asks \ {r}) \cup Child!Loading,
         cookie' = c, left' # "answered", acts' = acts
  PROVE  (SessionKept /\ StatusKept)'
<1>1. session \notin Children /\ view = Null
    BY DEF SessionKept, StatusKept, Child!OwnStatus, Child!ConstantsOK
<1>2. session' = c /\ view' = [n |-> mounts + 1, shown |-> Null] /\ mounts' = mounts + 1
    BY <1>1 DEF Child!Page
<1>3. PICK q \in AskRec : /\ q = [op |-> "status", n |-> mounts + 1, child |-> Null, val |-> Null]
                          /\ asks' = (asks \ {r}) \cup {q}
  <2>1. mounts \in Nat /\ mounts' # mounts
      BY <1>2 DEF SessionKept
  <2>2. [op |-> "status", n |-> mounts + 1, child |-> Null, val |-> Null] \in AskRec
      BY <2>1 DEF AskRec
  <2>3. Child!Loading = {[op |-> "status", n |-> mounts + 1, child |-> Null, val |-> Null]}
      BY <1>2, <2>1 DEF Child!Loading
  <2> QED BY <2>2, <2>3
<1>4. \A p \in asks \ {r} : p.op \in {"status", "logout"}
    BY <1>1 DEF SessionKept, AskRec, Child!ConstantsOK
<1>5. \A p \in asks' : p.op \in {"status", "logout"} /\ (p = q \/ p \in asks)
    BY <1>3, <1>4
<1>6. SessionKept'
  <2>1. asks' \subseteq AskRec /\ mounts' \in Nat
      BY <1>2, <1>3, <1>5 DEF SessionKept
  <2> QED BY <1>2, <1>5, <2>1 DEF SessionKept, Child!SignedOutStays, Child!ConstantsOK
<1>7. StatusKept'
  <2>1. \A p \in asks' : p.op = "status" => p.n <= mounts' /\ (p.n = mounts' => p = q)
    <3>1. \A p \in asks \ {r} : p.op = "status" => p.n \in Nat /\ p.n <= mounts /\ mounts \in Nat
        BY <1>4 DEF SessionKept, StatusKept, AskRec
    <3> QED BY <1>2, <1>3, <3>1
  <2> QED BY <1>2, <1>3, <2>1 DEF StatusKept, SessionKept, Child!OwnStatus
<1> QED BY <1>6, <1>7

LEMMA SessionStep ==
  ASSUME Child!ConstantsOK, ChildInv, Child!Next \/ UNCHANGED Child!vars
  PROVE  (SessionKept /\ StatusKept)'
<1> USE DEF ChildInv
<1>1. CASE UNCHANGED Child!app /\ UNCHANGED acts
    BY <1>1 DEF Child!app, SessionKept, StatusKept, AskRec, Child!OwnStatus, Child!SignedOutStays
<1>2. ASSUME NEW path, Child!Navigate(path) PROVE (SessionKept /\ StatusKept)'
    BY <1>2 DEF Child!Navigate, Child!Act, SessionKept, StatusKept, Child!OwnStatus, Child!SignedOutStays, Child!ConstantsOK
<1>3. CASE Child!ChunkServed
  <2>1. /\ session = Null /\ view = Null
        /\ asks' \subseteq {[op |-> "probe", n |-> 0, child |-> Null, val |-> Null]}
        /\ UNCHANGED <<cookie, session, view, mounts, left, acts>>
      BY <1>3 DEF Child!ChunkServed, PageKept
  <2> QED BY <2>1 DEF SessionKept, StatusKept, AskRec, Child!OwnStatus, Child!SignedOutStays, Child!ConstantsOK
<1>4. ASSUME NEW r \in asks, NEW ok \in BOOLEAN, Child!ProbeAnswered(r, ok) PROVE (SessionKept /\ StatusKept)'
  <2> USE <1>4 DEF Child!ProbeAnswered
  <2>1. r.op = "probe" /\ session = Null /\ view = Null /\ UNCHANGED <<cookie, left>>
      BY DEF SessionKept, StatusKept, Child!OwnStatus, Child!ConstantsOK
  <2>2. CASE ok /\ cookie # Null
    <3>1. cookie \in Children /\ left' # "answered"
        BY <2>1, <2>2 DEF SessionKept
    <3> QED BY <2>1, <2>2, <3>1, SignsIn
  <2>3. CASE ~(ok /\ cookie # Null)
    <3>1. session' = "out" /\ view' = Null /\ mounts' = mounts /\ asks' = asks \ {r}
        BY <2>3 DEF Child!Page, Child!Loading, Child!ConstantsOK
    <3>2. \A p \in asks' : p \in asks /\ p.op \in {"status", "logout"}
        BY <2>1, <3>1 DEF SessionKept, AskRec, Child!ConstantsOK
    <3> QED BY <2>1, <3>1, <3>2 DEF SessionKept, StatusKept, Child!OwnStatus, Child!SignedOutStays, Child!ConstantsOK
  <2> QED BY <2>2, <2>3
<1>5. ASSUME NEW c \in Children, Child!handleLogin(c) PROVE (SessionKept /\ StatusKept)'
    BY <1>5 DEF Child!handleLogin, Child!Act, SessionKept, StatusKept, AskRec, Child!OwnStatus, Child!SignedOutStays, Child!ConstantsOK
<1>6. ASSUME NEW r \in asks, NEW ok \in BOOLEAN, Child!LoginAnswered(r, ok) PROVE (SessionKept /\ StatusKept)'
  <2> USE <1>6 DEF Child!LoginAnswered
  <2>1. r.op = "login" /\ session = "out" /\ view = Null /\ r.child \in Children
      BY DEF SessionKept, StatusKept, Child!OwnStatus, Child!ConstantsOK
  <2>2. CASE ok
    <3>1. left' # "answered" /\ cookie' = r.child
        BY <2>2 DEF Child!ConstantsOK
    <3> QED BY <2>1, <2>2, <3>1, SignsIn
  <2>3. CASE ~ok
    <3>1. /\ session' = "out" /\ view' = Null /\ mounts' = mounts /\ asks' = asks \ {r}
          /\ UNCHANGED <<cookie, left>>
        BY <2>1, <2>3 DEF Child!Page, Child!Loading, Child!ConstantsOK
    <3>2. \A p \in asks' : p \in asks
        BY <3>1
    <3> QED BY <2>1, <3>1, <3>2 DEF SessionKept, StatusKept, Child!OwnStatus, Child!SignedOutStays, Child!ConstantsOK
  <2> QED BY <2>2, <2>3
<1>7. CASE Child!handleLogout
    BY <1>7 DEF Child!handleLogout, Child!Act, SessionKept, StatusKept, AskRec, Child!OwnStatus, Child!SignedOutStays, Child!ConstantsOK
<1>8. ASSUME NEW r \in asks, NEW ok \in BOOLEAN, Child!LogoutAnswered(r, ok) PROVE (SessionKept /\ StatusKept)'
    BY <1>8 DEF Child!LogoutAnswered, Child!Page, SessionKept, StatusKept, AskRec, Child!OwnStatus, Child!SignedOutStays, Child!ConstantsOK
<1>9. ASSUME NEW r \in asks, Child!StatusServed(r) PROVE (SessionKept /\ StatusKept)'
    BY <1>9 DEF Child!StatusServed, SessionKept, StatusKept, AskRec, Child!OwnStatus, Child!SignedOutStays, Child!ConstantsOK
<1>10. ASSUME NEW r \in asks, Child!StatusAnswered(r) PROVE (SessionKept /\ StatusKept)'
    BY <1>10 DEF Child!StatusAnswered, SessionKept, StatusKept, AskRec, Child!OwnStatus, Child!SignedOutStays, Child!ConstantsOK
<1>11. CASE Child!Expires
    BY <1>11 DEF Child!Expires, SessionKept, StatusKept, AskRec, Child!OwnStatus, Child!SignedOutStays, Child!ConstantsOK
<1> QED
  <2>1. CASE \/ Child!Deploy \/ Child!Connectivity \/ Child!InstallStarts \/ Child!Install
             \/ Child!Activate \/ Child!ShellServed \/ Child!ChunkAsked \/ UNCHANGED Child!vars
      BY <2>1, <1>1 DEF Child!vars, Child!Deploy, Child!Connectivity, Child!InstallStarts,
             Child!Install, Child!Activate, Child!ShellServed, Child!ChunkAsked
  <2> QED BY <2>1, <1>2, <1>3, <1>4, <1>5, <1>6, <1>7, <1>8, <1>9, <1>10, <1>11 DEF Child!Next

LEMMA ChildInvSound ==
  ASSUME Child!ConstantsOK, ChildInv
  PROVE  Child!ChildSound
BY DEF ChildInv, WorkersKept, PageKept, SessionKept, StatusKept, Child!ChildSound

LEMMA ChildStepInv ==
  ASSUME Child!ConstantsOK, ChildInv, [Child!Next]_(Child!vars)
  PROVE  ChildInv'
BY WorkersStep, PageStep, SessionStep DEF ChildInv

(* ---- the preview pane ---- *)

\* The user shown is the sandbox's, but for a policy that failed to load.
SelectionKept ==
  /\ sel \in Users \cup {Null} /\ seq \in Nat
  /\ loading # Null => loading = sel
  /\ sandbox # Null => sandbox = [of |-> sandbox.of, minutes |-> sandbox.minutes, out |-> sandbox.out]
  /\ sel # Null /\ loading = Null /\ ~broken => sandbox.of = sel

\* The spinner is the newest request's, and the newest request, or the preview
\* once it was answered, is that of the sandbox as it stands.
NewestWins ==
  /\ \A r \in asked : r.n \in Nat /\ r.n <= seq
  /\ spin # {} => \E r \in asked : r.n = seq
  /\ preview # Null \/ asked # {} => sel # Null
  /\ loading = Null /\ ~timer /\ ~broken =>
       /\ \A r \in asked : r.n = seq => r.body = Preview!Proposal
       /\ (preview # Null => preview = Preview!Proposal) \/ \E r \in asked : r.n = seq

PreviewInv == SelectionKept /\ NewestWins

LEMMA PreviewInit ==
  ASSUME Preview!ConstantsOK, Preview!Init
  PROVE  PreviewInv
BY DEF Preview!Init, PreviewInv, SelectionKept, NewestWins

LEMMA PreviewStep ==
  ASSUME Preview!ConstantsOK, PreviewInv, Preview!Next \/ UNCHANGED Preview!vars
  PROVE  PreviewInv'
<1> USE DEF PreviewInv, SelectionKept, NewestWins, Preview!Proposal, Preview!Click
<1>0. CASE UNCHANGED Preview!vars
    BY <1>0 DEF Preview!vars
<1>1. ASSUME NEW u \in Users, Preview!onSelectUser(u) PROVE PreviewInv'
    BY <1>1 DEF Preview!onSelectUser, Preview!ConstantsOK
<1>2. CASE Preview!PolicyLoaded
    BY <1>2 DEF Preview!PolicyLoaded
<1>3. CASE Preview!PolicyLoadFails
    BY <1>3 DEF Preview!PolicyLoadFails
<1>4. ASSUME NEW v \in Typed, Preview!onMinutesChange(v) PROVE PreviewInv'
  <2>1. /\ sandbox' = [of |-> sandbox.of, minutes |-> v, out |-> sandbox.out] /\ timer' = TRUE
        /\ UNCHANGED <<sel, loading, seq, preview, spin, asked, push, pushed, broken>>
      BY <1>4 DEF Preview!onMinutesChange, Preview!Editor
  <2> QED BY <2>1
<1>5. ASSUME NEW what, Preview!toggle(what) PROVE PreviewInv'
  <2>1. PICK out : /\ sandbox' = [sandbox EXCEPT !.out = out] /\ sandbox # Null /\ timer' = TRUE
                   /\ UNCHANGED <<sel, loading, seq, preview, spin, asked, push, pushed, broken>>
      BY <1>5 DEF Preview!toggle, Preview!Editor
  <2>2. sandbox' = [of |-> sandbox.of, minutes |-> sandbox.minutes, out |-> out]
      BY <2>1
  <2> QED BY <2>1, <2>2
<1>6. CASE Preview!DebounceFires
  <2>1. PICK q : /\ q = [n |-> seq + 1, body |-> Preview!Proposal] /\ asked' = asked \cup {q}
                 /\ seq' = seq + 1 /\ sel # Null
                 /\ UNCHANGED <<sel, sandbox, loading, preview, broken>>
      BY <1>6 DEF Preview!DebounceFires, Preview!runPreview
  <2>2. q.n = seq + 1 /\ q.body = Preview!Proposal' /\ \A r \in asked' : r = q \/ r \in asked
      BY <2>1
  <2> QED BY <2>1, <2>2
<1>7. CASE Preview!checkLiveStatus
  <2>1. PICK q : /\ q = [n |-> seq + 1, body |-> Preview!Proposal] /\ asked' = asked \cup {q}
                 /\ seq' = seq + 1 /\ sel # Null
                 /\ UNCHANGED <<sel, sandbox, loading, preview, broken>>
      BY <1>7 DEF Preview!checkLiveStatus, Preview!runPreview, Preview!Editor
  <2>2. q.n = seq + 1 /\ q.body = Preview!Proposal' /\ \A r \in asked' : r = q \/ r \in asked
      BY <2>1
  <2> QED BY <2>1, <2>2
<1>8. ASSUME NEW r \in asked, NEW ok \in BOOLEAN, Preview!PreviewAnswered(r, ok) PROVE PreviewInv'
    BY <1>8 DEF Preview!PreviewAnswered, Preview!Shown
<1>9. CASE Preview!runPush
    BY <1>9 DEF Preview!runPush
<1>10. ASSUME NEW ok \in BOOLEAN, Preview!PushAnswered(ok) PROVE PreviewInv'
    BY <1>10 DEF Preview!PushAnswered
<1> QED BY <1>0, <1>1, <1>2, <1>3, <1>4, <1>5, <1>6, <1>7, <1>8, <1>9, <1>10 DEF Preview!Next

\* Rounding to minutes loses nothing of a whole number of them.
LEMMA WholeMinutes ==
  ASSUME NEW s \in Nat, NEW m \in Nat \ {0}, s % m = 0
  PROVE  ((2 * s + m) \div (2 * m)) * m = s
<1>1. PICK k \in Nat : s = k * m
  <2>1. s = m * (s \div m) + (s % m) /\ s \div m \in Nat
      OBVIOUS
  <2> QED BY <2>1
<1>2. 2 * s + m = (2 * m) * k + m
    BY <1>1
<1>3. (2 * s + m) \div (2 * m) = k
    BY <1>2
<1> QED BY <1>1, <1>3

LEMMA PreviewInvSound ==
  ASSUME Preview!ConstantsOK, PreviewInv
  PROVE  Preview!PreviewSound
<1>1. Preview!PreviewIsOfTheSandbox
    BY DEF PreviewInv, SelectionKept, NewestWins, Preview!PreviewIsOfTheSandbox, Preview!AtRest,
           Preview!Proposal
<1>2. Preview!SelectingProposesNothing
  <2> SUFFICES ASSUME Preview!Editor, ~broken, Saved[sel] % Minute = 0, sandbox.out = {},
                      sandbox.minutes \in {Null, Preview!seeded(Saved[sel])}
               PROVE  Preview!proposedBudgets(sandbox) = Saved[sel]
      BY DEF Preview!SelectingProposesNothing
  <2>1. sandbox.of = sel /\ Saved[sel] \in Nat /\ Minute \in Nat \ {0}
      BY DEF Preview!Editor, PreviewInv, SelectionKept, Preview!ConstantsOK
  <2>2. Preview!seeded(Saved[sel]) * Minute = Saved[sel]
      BY <2>1, WholeMinutes DEF Preview!seeded
  <2> QED BY <2>1, <2>2 DEF Preview!proposedBudgets
<1> QED BY <1>1, <1>2 DEF Preview!PreviewSound

(* ---- the panes whose buttons act on the devices ---- *)

Call(c) ==
  /\ c.n \in Nat /\ c.op \in {"adjust", "read", "apply"}
  /\ c.op = "adjust" => /\ c = [op |-> "adjust", n |-> c.n, id |-> c.id, user |-> c.user, val |-> c.val]
                        /\ c.user \in Users
  /\ c.op = "read" => c = [op |-> "read", n |-> c.n, why |-> c.why, status |-> c.status, preview |-> c.preview]
  /\ c.op = "apply" => c = [op |-> "apply", n |-> c.n, id |-> c.id, val |-> c.val]
  /\ c.op # "read" => c.id \in Nat

\* A mount has one call of a kind under way at a time, and reads again only after
\* its push was answered; and each request has a number of its own.
Apart(b, c) ==
  /\ b.n = c.n => (b.op = c.op => b = c) /\ ~(b.op = "apply" /\ c.op = "read") /\ ~(b.op = "read" /\ c.op = "apply")
  /\ b.op # "read" /\ c.op # "read" /\ b.id = c.id => b = c

CallsKept ==
  /\ mount = [n |-> mount.n, section |-> mount.section] /\ mount.n \in Nat
  /\ IsFiniteSet(calls) /\ acts \in Nat
  /\ \A c \in calls : Call(c) /\ c.n <= mount.n /\ (c.op # "read" => c.id <= acts)
  /\ \A b, c \in calls : Apart(b, c)

\* What the server has to do, each for the page that asked for it and still waits.
Run(j) ==
  /\ j = [id |-> j.id, phase |-> j.phase, plan |-> j.plan, got |-> j.got, alone |-> j.alone]
  /\ j.id \in Nat /\ j.phase \in {"sent", "planned", "read"} /\ j.plan \in Nat /\ j.alone \in BOOLEAN

JobsKept ==
  /\ \A j \in asked : j = [id |-> j.id, user |-> j.user] /\ j.id \in Nat /\ j.id <= acts /\ j.user \in Users
  /\ \A j, k \in asked : j.id = k.id => j = k
  /\ \A j \in running : Run(j) /\ j.id <= acts
  /\ \A j \in asked, c \in calls : Command!Awaits(c, j.id) => c.op = "adjust" /\ c.user = j.user /\ c.val = Null
  /\ \A j \in running, c \in calls : Command!Awaits(c, j.id) => c.op = "apply"

PanesTyped ==
  /\ time \in [sel : Users \cup {Null}, adjusting : BOOLEAN, error : BOOLEAN, result : Users \cup {Null}]
  /\ dns = [status |-> dns.status, preview |-> dns.preview, loading |-> dns.loading, error |-> dns.error,
            applying |-> dns.applying, last |-> dns.last]
  /\ dns.loading \in BOOLEAN /\ dns.error \in BOOLEAN /\ dns.applying \in BOOLEAN
  /\ added \in [Users -> Nat] /\ lost \in [Users -> Nat] /\ policy \in Nat /\ pushed \in Nat

\* The spinners, and the load that must be over before the push's button is enabled.
SpinKept ==
  /\ Command!SpinnerTrue
  /\ ~dns.loading => \A c \in calls : Command!Mine(c) /\ c.op = "read" => c.why = "apply"
  /\ dns.loading => \A c \in calls : Command!Mine(c) => c.op # "apply"

Served(u) == {c \in calls : c.op = "adjust" /\ c.user = u /\ c.val # Null /\ c.val.ok}

\* An adjustment carried out is shown, lost, or on its way back.
TimeKept ==
  /\ time.adjusting => time.result = Null
  /\ Command!ResultOfSelected
  /\ \A c \in calls : Command!Mine(c) /\ c.op = "adjust" => c.user = time.sel \/ crossed
  /\ \A u \in Users :
       added[u] >= lost[u] + Cardinality(Served(u)) + (IF time.result = u THEN 1 ELSE 0)

\* What an apply that succeeds alone is answered with is in AdGuard, and stays or
\* gives way to newer: whatever is at work was planned after it.
Started(j) == j.phase # "sent"
Vouched(v) ==
  /\ v.rules \in Nat /\ v.rules <= policy
  /\ v.alone => v.rules <= pushed /\ \A j \in running : Started(j) => v.rules <= j.plan

\* One that works alone finds AdGuard as it read it.
ApplyKept ==
  /\ pushed <= policy
  /\ \A j \in running : j.plan <= policy /\ (j.alone /\ j.phase = "read" => j.got = pushed)
  /\ \A i, j \in running : Started(i) /\ Started(j) /\ i.alone => i = j
  /\ \A c \in calls : c.op = "apply" /\ c.val # Null /\ c.val.ok => Vouched(c.val)
  /\ dns.last # Null => Vouched(dns.last)

\* What is read after a push is newer than it.
DnsKept ==
  dns.last # Null =>
    /\ ~dns.loading
    /\ \A c \in calls : Command!Mine(c) /\ c.op = "read" /\ c.preview # Null => c.preview.rules >= dns.last.rules
    /\ dns.applying \/ dns.error \/ dns.preview.rules >= dns.last.rules

CommandInv == CallsKept /\ JobsKept /\ PanesTyped /\ SpinKept /\ TimeKept /\ ApplyKept /\ DnsKept

LEMMA CommandInit ==
  ASSUME Command!ConstantsOK, Command!Init
  PROVE  CommandInv
<1>1. \A u \in Users : Served(u) = {}
    BY DEF Command!Init, Served
<1>2. Cardinality({}) = 0 /\ IsFiniteSet({})
    BY FS_EmptySet
<1>3. CallsKept /\ JobsKept /\ PanesTyped /\ SpinKept /\ ApplyKept /\ DnsKept
    BY <1>2 DEF Command!Init, Command!TimeAtMount, Command!DnsAtMount, CallsKept, JobsKept, PanesTyped, SpinKept,
       ApplyKept, DnsKept, Command!SpinnerTrue, Command!Mine
<1>4. TimeKept
    BY <1>1, <1>2 DEF Command!Init, Command!TimeAtMount, TimeKept, Command!ResultOfSelected, Command!ConstantsOK
<1> QED BY <1>3, <1>4 DEF CommandInv

\* A call is made, or one takes the place of the same, a step further.
LEMMA CallsFollow ==
  ASSUME CallsKept, NEW S, S \subseteq calls, NEW d, Call(d), \A c \in S : Apart(c, d),
         mount' = [n |-> mount'.n, section |-> mount'.section], mount'.n \in Nat,
         mount.n <= mount'.n, d.n <= mount'.n, acts' \in Nat, acts <= acts', d.op # "read" => d.id <= acts',
         calls' = S \cup {d}
  PROVE  CallsKept'
<1>1. IsFiniteSet(S) /\ IsFiniteSet(calls')
    BY FS_Subset, FS_AddElement DEF CallsKept
<1>2. \A c \in calls' : Call(c) /\ c.n <= mount'.n /\ (c.op # "read" => c.id <= acts')
  <2>1. \A c \in S : Call(c) /\ c.n <= mount.n /\ (c.op # "read" => c.id <= acts)
      BY DEF CallsKept
  <2>2. \A c \in S : c.n \in Nat /\ (c.op # "read" => c.id \in Nat) /\ acts \in Nat /\ mount.n \in Nat
      BY <2>1 DEF Call, CallsKept
  <2> QED BY <2>1, <2>2
<1>3. \A b, c \in calls' : Apart(b, c)
  <2>1. \A c \in S : Apart(d, c)
      BY DEF Apart
  <2>2. Apart(d, d)
      BY DEF Apart, Call
  <2> QED BY <2>1, <2>2 DEF CallsKept
<1> QED BY <1>1, <1>2, <1>3 DEF CallsKept

LEMMA CallsFewer ==
  ASSUME CallsKept, calls' \subseteq calls, UNCHANGED mount, acts' \in {acts, acts + 1}
  PROVE  CallsKept'
<1>1. IsFiniteSet(calls') /\ acts' \in Nat /\ acts <= acts'
    BY FS_Subset DEF CallsKept
<1>2. \A c \in calls : c.op # "read" => c.id \in Nat
    BY DEF CallsKept, Call
<1> QED BY <1>1, <1>2 DEF CallsKept

\* Answering a call changes nothing but its answer.
Answered(c, d) ==
  /\ d.op = c.op /\ d.n = c.n /\ (c.op # "read" => d.id = c.id)
  /\ c.op = "adjust" => d.user = c.user
  /\ c.op = "read" => d.why = c.why
Answers(c, d) == Call(d) /\ Answered(c, d) /\ calls' = (calls \ {c}) \cup {d}

LEMMA CallServed ==
  ASSUME CallsKept, SpinKept, NEW c \in calls, NEW d, Answers(c, d), UNCHANGED <<mount, time, dns, acts>>
  PROVE  CallsKept' /\ SpinKept' /\ d \notin calls \ {c}
<1> USE DEF Answers
<1>1. \A b \in calls \ {c} : Apart(b, c) /\ b # c
    BY DEF CallsKept
<1>2. \A b \in calls \ {c} : Apart(b, d) /\ b # d
    BY <1>1 DEF Apart, Answered
<1>3. CallsKept'
  <2>1. d.n \in Nat /\ d.n <= mount'.n /\ acts' \in Nat /\ acts <= acts' /\ (d.op # "read" => d.id <= acts')
      BY DEF CallsKept, Call, Answered
  <2>2. calls \ {c} \subseteq calls /\ mount' = [n |-> mount'.n, section |-> mount'.section] /\ mount'.n \in Nat
        /\ mount.n <= mount'.n
      BY DEF CallsKept
  <2> QED BY <1>2, <2>1, <2>2, CallsFollow
<1>4. \A b \in calls' : b = d \/ b \in calls
    OBVIOUS
<1>5. \A b \in calls : b = c \/ b \in calls'
    OBVIOUS
<1>6. \A b, e \in calls' : Command!Mine(b) /\ Command!Mine(e) /\ b.op = e.op => b = e
    BY <1>3 DEF CallsKept, Apart, Command!Mine
<1> QED BY <1>2, <1>3, <1>4, <1>5, <1>6 DEF SpinKept, Command!SpinnerTrue, Command!Mine, Answered, Call

LEMMA CallUpdated ==
  ASSUME NEW c, Call(c)
  PROVE  /\ c.op = "adjust" =>
              \A v : [c EXCEPT !.val = v] = [op |-> "adjust", n |-> c.n, id |-> c.id, user |-> c.user, val |-> v]
         /\ c.op = "apply" => \A v : [c EXCEPT !.val = v] = [op |-> "apply", n |-> c.n, id |-> c.id, val |-> v]
         /\ c.op = "read" =>
              \A v : /\ [c EXCEPT !.status = v] = [op |-> "read", n |-> c.n, why |-> c.why, status |-> v, preview |-> c.preview]
                     /\ [c EXCEPT !.preview = v] = [op |-> "read", n |-> c.n, why |-> c.why, status |-> c.status, preview |-> v]
BY DEF Call

\* An answer to a request reaches the one page that awaits it, or none.
LEMMA AnswerReaches ==
  ASSUME CallsKept, NEW id, NEW v, Command!Answer(id, v)
  PROVE  \/ calls' = calls /\ \A c \in calls : ~Command!Awaits(c, id)
         \/ \E c \in calls : \E d : Command!Awaits(c, id) /\ Answers(c, d) /\ d.val = v
<1>1. CASE \A c \in calls : ~Command!Awaits(c, id)
    BY <1>1 DEF Command!Answer
<1>2. ASSUME NEW c \in calls, Command!Awaits(c, id)
      PROVE  \E d : Answers(c, d) /\ d.val = v
  <2>1. Call(c) /\ c.op \in {"adjust", "apply"}
      BY <1>2 DEF CallsKept, Call, Command!Awaits
  <2>2. PICK d : d = [c EXCEPT !.val = v]
      OBVIOUS
  <2>3. d = IF c.op = "adjust" THEN [op |-> "adjust", n |-> c.n, id |-> c.id, user |-> c.user, val |-> v]
            ELSE [op |-> "apply", n |-> c.n, id |-> c.id, val |-> v]
      BY <2>1, <2>2, CallUpdated
  <2>4. Call(d) /\ Answered(c, d) /\ d.val = v
      BY <2>1, <2>3 DEF Call, Answered
  <2>5. \A b \in calls : Command!Awaits(b, id) => b = c
      BY <1>2 DEF CallsKept, Apart, Command!Awaits
  <2>6. calls' = (calls \ {c}) \cup {d}
      BY <1>2, <2>2, <2>5 DEF Command!Answer
  <2> QED BY <2>4, <2>6 DEF Answers
<1> QED BY <1>1, <1>2

\* What the server does for the pages' requests.
Applies(j) ==
  Command!ApplyRefused(j) \/ Command!ApplyPlanned(j) \/ Command!ApplyReads(j)
    \/ Command!ApplyWrites(j) \/ Command!ApplyFails(j)
Reads(c) == Command!StatusServed(c) \/ Command!PreviewServed(c)
Serves ==
  \/ \E j \in asked, ok \in BOOLEAN : Command!AdjustServed(j, ok)
  \/ \E j \in running : Applies(j)
  \/ \E c \in calls : Reads(c)

LEMMA ReadStep ==
  ASSUME CallsKept, NEW c \in calls, Reads(c)
  PROVE  /\ c.op = "read" /\ UNCHANGED <<mount, time, dns, added, lost, policy, pushed, acts, crossed, asked, running>>
         /\ \E d : Answers(c, d) /\ d.preview \in {c.preview, [rules |-> policy, applyable |-> healthy]}
<1> USE DEF Command!srv, Command!adguard
<1>1. c.op = "read" /\ UNCHANGED <<mount, time, dns, added, lost, policy, pushed, acts, crossed, asked, running>>
    BY DEF Reads, Command!StatusServed, Command!PreviewServed
<1>3. CASE Command!StatusServed(c)
  <2>1. PICK d : /\ d = [op |-> "read", n |-> c.n, why |-> c.why, status |-> [health |-> healthy],
                        preview |-> c.preview]
                 /\ calls' = (calls \ {c}) \cup {d}
      BY <1>1, <1>3, CallUpdated DEF Command!StatusServed, CallsKept
  <2>2. Call(d) /\ Answered(c, d) /\ d.preview = c.preview
      BY <1>1, <2>1 DEF CallsKept, Call, Answered
  <2> QED BY <1>1, <2>1, <2>2 DEF Answers
<1>4. CASE Command!PreviewServed(c)
  <2>1. PICK d : /\ d = [op |-> "read", n |-> c.n, why |-> c.why, status |-> c.status,
                        preview |-> [rules |-> policy, applyable |-> healthy]]
                 /\ calls' = (calls \ {c}) \cup {d}
      BY <1>1, <1>4, CallUpdated DEF Command!PreviewServed, CallsKept
  <2>2. Call(d) /\ Answered(c, d) /\ d.preview = [rules |-> policy, applyable |-> healthy]
      BY <1>1, <2>1 DEF CallsKept, Call, Answered
  <2> QED BY <1>1, <2>1, <2>2 DEF Answers
<1> QED BY <1>3, <1>4 DEF Reads

\* What an apply leaves alone.
LEMMA ApplyFrame ==
  ASSUME NEW j \in running, Applies(j)
  PROVE  /\ UNCHANGED <<mount, time, dns, asked, added, lost, policy, acts, crossed>>
         /\ pushed' \in {pushed, j.plan}
         /\ calls' = calls \/ \E v : Command!Answer(j.id, v)
<1>1. CASE Command!ApplyRefused(j)
    BY <1>1 DEF Command!ApplyRefused
<1>2. CASE Command!ApplyPlanned(j)
    BY <1>2 DEF Command!ApplyPlanned
<1>3. CASE Command!ApplyReads(j)
    BY <1>3 DEF Command!ApplyReads
<1>4. CASE Command!ApplyWrites(j)
    BY <1>4 DEF Command!ApplyWrites
<1>5. CASE Command!ApplyFails(j)
    BY <1>5 DEF Command!ApplyFails
<1> QED BY <1>1, <1>2, <1>3, <1>4, <1>5 DEF Applies

LEMMA ServeStep ==
  ASSUME CallsKept, Serves
  PROVE  /\ UNCHANGED <<mount, time, dns, policy, acts, crossed>>
         /\ calls' = calls \/ \E c \in calls : \E d : Answers(c, d)
<1> USE DEF Command!adguard
<1>1. ASSUME NEW j \in asked, NEW ok \in BOOLEAN, Command!AdjustServed(j, ok)
      PROVE  UNCHANGED <<mount, time, dns, policy, acts, crossed>> /\ Command!Answer(j.id, [ok |-> ok])
    BY <1>1 DEF Command!AdjustServed
<1>2. ASSUME NEW j \in running, Applies(j)
      PROVE  /\ UNCHANGED <<mount, time, dns, policy, acts, crossed>>
             /\ calls' = calls \/ \E v : Command!Answer(j.id, v)
    BY <1>2, ApplyFrame
<1>3. ASSUME NEW j \in running, Applies(j)
      PROVE  calls' = calls \/ \E c \in calls : \E d : Answers(c, d)
    BY <1>2, <1>3, AnswerReaches
<1>4. ASSUME NEW c \in calls, Reads(c)
      PROVE  UNCHANGED <<mount, time, dns, policy, acts, crossed>> /\ \E d : Answers(c, d)
    BY <1>4, ReadStep
<1> QED BY <1>1, <1>2, <1>3, <1>4, AnswerReaches DEF Serves

LEMMA CallsStep ==
  ASSUME Command!ConstantsOK, CommandInv, Command!Next \/ UNCHANGED Command!vars
  PROVE  CallsKept'
<1> USE DEF CommandInv, Command!srv, Command!adguard, Command!Act
<1>0. CASE calls' \subseteq calls /\ UNCHANGED mount /\ acts' \in {acts, acts + 1}
    BY <1>0, CallsFewer
<1>a. acts \in Nat /\ acts <= acts + 1 /\ acts <= acts /\ acts + 1 \in Nat
    BY DEF CallsKept
<1>1. CASE Command!Navigate
  <2>1. mount.n \in Nat /\ mount'.n = mount.n + 1 /\ mount' = [n |-> mount'.n, section |-> mount'.section]
        /\ acts' = acts + 1
      BY <1>1 DEF Command!Navigate, CallsKept
  <2>2. CASE calls' = calls
    <3>1. \A c \in calls : c.op # "read" => c.id \in Nat
        BY DEF CallsKept, Call
    <3> QED BY <2>1, <2>2, <3>1 DEF CallsKept, Call
  <2>3. CASE calls' = calls \cup {Command!Read(mount'.n, "load")}
    <3>1. /\ Call(Command!Read(mount'.n, "load")) /\ Command!Read(mount'.n, "load").n = mount'.n
          /\ Command!Read(mount'.n, "load").op = "read"
        BY <2>1 DEF Call, Command!Read
    <3>2. \A c \in calls : Apart(c, Command!Read(mount'.n, "load"))
        BY <2>1, <3>1 DEF Apart, CallsKept, Call
    <3>3. mount.n <= mount'.n /\ mount'.n \in Nat /\ mount'.n <= mount'.n
        BY <2>1
    <3> QED BY <1>a, <2>1, <2>3, <3>1, <3>2, <3>3, CallsFollow
  <2> QED BY <1>1, <2>2, <2>3 DEF Command!Navigate
<1>2. CASE Command!addTimeToday
  <2>1. PICK d : d = [op |-> "adjust", n |-> mount.n, id |-> acts', user |-> time.sel, val |-> Null] /\ calls' = calls \cup {d}
      BY <1>2 DEF Command!addTimeToday
  <2>2. time.sel \in Users /\ ~time.adjusting /\ mount' = mount /\ acts' = acts + 1
      BY <1>2 DEF Command!addTimeToday, PanesTyped
  <2>3. Call(d) /\ d.n = mount.n /\ d.op = "adjust" /\ d.id = acts'
      BY <1>a, <2>1, <2>2 DEF Call, CallsKept
  <2>4. \A c \in calls : Apart(c, d)
    <3>1. \A c \in calls : c.op # "read" => c.id # d.id
        BY <1>a, <2>2, <2>3 DEF CallsKept, Call
    <3> QED BY <2>2, <2>3, <3>1 DEF Apart, SpinKept, Command!SpinnerTrue, Command!Mine
  <2>5. mount' = [n |-> mount'.n, section |-> mount'.section] /\ mount'.n \in Nat /\ mount.n <= mount'.n
        /\ acts' \in Nat /\ acts <= acts' /\ d.id <= acts'
      BY <1>a, <2>2, <2>3 DEF CallsKept
  <2> QED BY <2>1, <2>2, <2>3, <2>4, <2>5, CallsFollow
<1>3. CASE Command!handleApply
  <2>1. PICK d : d = [op |-> "apply", n |-> mount.n, id |-> acts', val |-> Null] /\ calls' = calls \cup {d}
      BY <1>3 DEF Command!handleApply
  <2>2. ~dns.loading /\ ~dns.applying /\ mount' = mount /\ acts' = acts + 1
      BY <1>3 DEF Command!handleApply, Command!CanApply
  <2>3. Call(d) /\ d.n = mount.n /\ d.op = "apply" /\ d.id = acts'
      BY <1>a, <2>1, <2>2 DEF Call, CallsKept
  <2>4. \A c \in calls : Apart(c, d)
    <3>1. \A c \in calls : c.op # "read" => c.id # d.id
        BY <1>a, <2>2, <2>3 DEF CallsKept, Call
    <3> QED BY <2>2, <2>3, <3>1 DEF Apart, SpinKept, Command!SpinnerTrue, Command!Mine
  <2>5. mount' = [n |-> mount'.n, section |-> mount'.section] /\ mount'.n \in Nat /\ mount.n <= mount'.n
        /\ acts' \in Nat /\ acts <= acts' /\ d.id <= acts'
      BY <1>a, <2>2, <2>3 DEF CallsKept
  <2> QED BY <2>1, <2>2, <2>3, <2>4, <2>5, CallsFollow
<1>4. CASE Serves
    BY <1>4, <1>0, ServeStep, CallServed
<1>5. ASSUME NEW c \in calls, NEW ok \in BOOLEAN, Command!ApplyAnswered(c, ok) PROVE CallsKept'
  <2>1. CASE calls' = calls \ {c} /\ mount' = mount /\ acts' = acts
      BY <2>1, <1>0
  <2>2. CASE calls' = (calls \ {c}) \cup {Command!Read(c.n, "apply")}
    <3>1. Call(Command!Read(c.n, "apply")) /\ Command!Read(c.n, "apply").n = c.n /\ Command!Read(c.n, "apply").op = "read"
        BY DEF Call, Command!Read, CallsKept
    <3>2. \A b \in calls \ {c} : Apart(b, c) /\ b # c /\ Apart(c, b)
        BY DEF CallsKept
    <3>3. c.op = "apply" /\ mount' = mount /\ acts' = acts
        BY <1>5 DEF Command!ApplyAnswered
    <3>4. \A b \in calls \ {c} : Apart(b, Command!Read(c.n, "apply"))
        BY <3>1, <3>2, <3>3 DEF Apart
    <3>5. c.n <= mount.n
        BY DEF CallsKept
    <3>6. mount' = [n |-> mount'.n, section |-> mount'.section] /\ mount'.n \in Nat /\ mount.n <= mount'.n
          /\ calls \ {c} \subseteq calls
        BY <3>3 DEF CallsKept
    <3> QED BY <1>a, <2>2, <3>1, <3>3, <3>4, <3>5, <3>6, CallsFollow
  <2> QED BY <1>5, <2>1, <2>2 DEF Command!ApplyAnswered
<1> QED
  <2>1. ASSUME NEW c \in calls, NEW ok \in BOOLEAN, Command!AdjustAnswered(c, ok) \/ Command!ReadAnswered(c, ok)
        PROVE  CallsKept'
      BY <2>1, <1>0 DEF Command!AdjustAnswered, Command!ReadAnswered
  <2>2. CASE \/ Command!InvalidMinutes \/ Command!PolicyEdited \/ Command!AdGuardMoves \/ Command!HealthPolled
             \/ UNCHANGED Command!vars
    <3>1. acts' \in {acts, acts + 1} /\ UNCHANGED <<calls, mount>>
        BY <2>2 DEF Command!InvalidMinutes, Command!PolicyEdited, Command!AdGuardMoves,
                    Command!HealthPolled, Command!vars
    <3> QED BY <1>0, <3>1
  <2>4. ASSUME NEW u \in Users, Command!onSelectUser(u) PROVE CallsKept'
    <3>1. acts' = acts + 1 /\ UNCHANGED <<calls, mount>>
        BY <2>4 DEF Command!onSelectUser
    <3> QED BY <1>0, <3>1
  <2> QED BY <2>1, <2>2, <2>4, <1>1, <1>2, <1>3, <1>4, <1>5 DEF Command!Next, Serves, Applies, Reads

\* A run that makes its plan, one it overlaps, and one that has read.
LEMMA RunPlanned ==
  ASSUME NEW j, Run(j), policy \in Nat
  PROVE  /\ Run(Command!Planned(j)) /\ Command!Planned(j).id = j.id
         /\ Command!Planned(j).phase = "planned" /\ Command!Planned(j).plan = policy
         /\ Command!Planned(j).alone = Command!NoneStarted
<1>1. Command!NoneStarted \in BOOLEAN
    BY DEF Command!NoneStarted
<1> QED BY <1>1 DEF Run, Command!Planned

LEMMA RunOverlapped ==
  ASSUME NEW d, Run(d)
  PROVE  LET k == Command!Overlapped(d)
         IN  Run(k) /\ k.id = d.id /\ k.phase = d.phase /\ k.plan = d.plan /\ ~k.alone
<1>1. PICK i, f, q, g, b : d = [id |-> i, phase |-> f, plan |-> q, got |-> g, alone |-> b]
    BY DEF Run
<1>2. Command!Overlapped(d) = [id |-> d.id, phase |-> d.phase, plan |-> d.plan, got |-> d.got, alone |-> FALSE]
  <2>1. \A a : [d EXCEPT !.alone = a] = [id |-> i, phase |-> f, plan |-> q, got |-> g, alone |-> a]
      BY <1>1
  <2> QED BY <1>1, <2>1 DEF Command!Overlapped
<1> QED BY <1>2 DEF Run

LEMMA RunRead ==
  ASSUME NEW j, Run(j), NEW m, m = [j EXCEPT !.phase = "read", !.got = pushed]
  PROVE  /\ Run(m) /\ m.id = j.id /\ m.phase = "read" /\ m.plan = j.plan
         /\ m.got = pushed /\ m.alone = j.alone
<1>1. m = [id |-> j.id, phase |-> "read", plan |-> j.plan, got |-> pushed, alone |-> j.alone]
    BY DEF Run
<1> QED BY <1>1 DEF Run

LEMMA JobsStep ==
  ASSUME Command!ConstantsOK, CommandInv, Command!Next \/ UNCHANGED Command!vars
  PROVE  JobsKept'
<1> USE DEF CommandInv, JobsKept, Command!Awaits, Command!srv, Command!adguard, Command!Act
<1>a. acts \in Nat /\ acts <= acts + 1 /\ ~(acts + 1 <= acts)
    BY DEF CallsKept
<1>b. \A c \in calls : c.op # "read" => c.id \in Nat /\ c.id <= acts
    BY DEF CallsKept, Call
<1>c. \A j \in asked \cup running : j.id \in Nat /\ j.id <= acts /\ j.id <= acts + 1
    BY <1>a DEF Run
<1>0. CASE /\ asked' = asked /\ running' = running /\ acts' \in {acts, acts + 1}
           /\ \A c \in calls' : c.op # "read" => c \in calls
    BY <1>0, <1>a, <1>c
<1>2. CASE Command!addTimeToday
  <2>1. PICK d, j : /\ d = [op |-> "adjust", n |-> mount.n, id |-> acts', user |-> time.sel, val |-> Null]
                    /\ j = [id |-> acts', user |-> time.sel]
                    /\ calls' = calls \cup {d} /\ asked' = asked \cup {j}
      BY <1>2 DEF Command!addTimeToday
  <2>2. acts' = acts + 1 /\ running' = running /\ time.sel \in Users
      BY <1>2 DEF Command!addTimeToday, PanesTyped
  <2>3. d.op = "adjust" /\ d.id = acts' /\ d.user = j.user /\ d.val = Null /\ j.id = acts' /\ j.user \in Users
      BY <2>1, <2>2
  <2>4. \A k \in asked \cup running : k.id # acts'
      BY <1>a, <1>c, <2>2
  <2>5. \A c \in calls : c.op # "read" => c.id # acts'
      BY <1>a, <1>b, <2>2
  <2> QED BY <1>a, <1>c, <2>1, <2>2, <2>3, <2>4, <2>5
<1>3. CASE Command!handleApply
  <2>1. PICK d, j : /\ d = [op |-> "apply", n |-> mount.n, id |-> acts', val |-> Null]
                    /\ j = [id |-> acts', phase |-> "sent", plan |-> 0, got |-> 0, alone |-> FALSE]
                    /\ calls' = calls \cup {d} /\ running' = running \cup {j}
      BY <1>3 DEF Command!handleApply
  <2>2. acts' = acts + 1 /\ asked' = asked
      BY <1>3 DEF Command!handleApply
  <2>3. d.op = "apply" /\ d.id = acts' /\ Run(j) /\ j.id = acts'
      BY <1>a, <2>1, <2>2 DEF Run
  <2>4. \A k \in asked \cup running : k.id # acts'
      BY <1>a, <1>c, <2>2
  <2>5. \A c \in calls : c.op # "read" => c.id # acts'
      BY <1>a, <1>b, <2>2
  <2>6. \A k \in running' : Run(k) /\ k.id <= acts'
    <3>1. \A k \in running : Run(k) /\ k.id <= acts'
        BY <1>c, <2>2
    <3>2. Run(j) /\ j.id <= acts'
        BY <1>a, <2>2, <2>3
    <3> QED BY <2>1, <3>1, <3>2
  <2>7. \A k \in running', c \in calls' : Command!Awaits(c, k.id) => c.op = "apply"
      BY <2>1, <2>3, <2>4, <2>5
  <2>8. \A k \in asked, c \in calls' : Command!Awaits(c, k.id) => c \in calls
      BY <2>1, <2>3, <2>4
  <2>9. \A k \in asked : k.id <= acts'
      BY <1>c, <2>2
  <2> QED BY <2>2, <2>6, <2>7, <2>8, <2>9
<1>4. ASSUME NEW j \in asked, NEW ok \in BOOLEAN, Command!AdjustServed(j, ok) PROVE JobsKept'
  <2>1. asked' = asked \ {j} /\ running' = running /\ acts' = acts /\ Command!Answer(j.id, [ok |-> ok])
      BY <1>4 DEF Command!AdjustServed
  <2>2. CASE calls' = calls
      BY <2>1, <2>2
  <2>3. ASSUME NEW c \in calls, NEW d, Command!Awaits(c, j.id), Answers(c, d) PROVE JobsKept'
    <3>1. d.op = "adjust" /\ d.id = j.id /\ \A e \in calls' : e = d \/ e \in calls
        BY <2>3 DEF Answers, Answered
    <3>2. \A k \in running : k.id # j.id
        BY <2>3
    <3>3. \A k \in asked' : k.id # j.id
        BY <2>1
    <3>4. \A k \in asked', e \in calls' : Command!Awaits(e, k.id) => e \in calls
        BY <3>1, <3>3
    <3>5. \A k \in running, e \in calls' : Command!Awaits(e, k.id) => e \in calls
        BY <3>1, <3>2
    <3> QED BY <2>1, <3>4, <3>5
  <2> QED BY <2>1, <2>2, <2>3, AnswerReaches
<1>5. ASSUME NEW j \in running, Applies(j) PROVE JobsKept'
  <2>1. asked' = asked /\ acts' = acts
      BY <1>5, ApplyFrame
  <2>2. \A k \in running' : Run(k) /\ \E i \in running : k.id = i.id
    <3>1. CASE running' = running \ {j}
        BY <3>1
    <3>2. CASE Command!ApplyPlanned(j)
      <4>1. running' = {Command!Overlapped(d) : d \in running \ {j}} \cup {Command!Planned(j)}
          BY <3>2 DEF Command!ApplyPlanned
      <4>2. Run(Command!Planned(j)) /\ Command!Planned(j).id = j.id
          BY RunPlanned DEF PanesTyped
      <4>3. \A d \in running : Run(Command!Overlapped(d)) /\ Command!Overlapped(d).id = d.id
          BY RunOverlapped
      <4> QED BY <4>1, <4>2, <4>3
    <3>3. CASE Command!ApplyReads(j)
      <4>1. PICK m : m = [j EXCEPT !.phase = "read", !.got = pushed] /\ running' = (running \ {j}) \cup {m}
          BY <3>3 DEF Command!ApplyReads
      <4>2. Run(m) /\ m.id = j.id
          BY <4>1, RunRead
      <4> QED BY <4>1, <4>2
    <3> QED BY <1>5, <3>1, <3>2, <3>3 DEF Applies, Command!ApplyRefused, Command!ApplyWrites, Command!ApplyFails
  <2>3. calls' = calls \/ \E v : Command!Answer(j.id, v)
      BY <1>5, ApplyFrame
  <2>4. CASE calls' = calls
      BY <2>1, <2>2, <2>4
  <2>5. ASSUME NEW c \in calls, NEW d, Command!Awaits(c, j.id), Answers(c, d) PROVE JobsKept'
    <3>1. d.op = "apply" /\ d.id = j.id /\ c.id = j.id /\ c.op = "apply" /\ \A e \in calls' : e = d \/ e \in calls
        BY <2>5 DEF Answers, Answered
    <3>2. \A k \in asked : k.id # j.id
        BY <2>5, <3>1
    <3>3. \A k \in asked, e \in calls' : Command!Awaits(e, k.id) => e \in calls
        BY <3>1, <3>2
    <3>4. \A k \in running', e \in calls' : Command!Awaits(e, k.id) => e.op = "apply"
        BY <2>2, <3>1
    <3> QED BY <2>1, <2>2, <3>3, <3>4
  <2> QED BY <2>3, <2>4, <2>5, AnswerReaches
<1>6. ASSUME NEW c \in calls, Reads(c) PROVE JobsKept'
  <2>1. PICK d : Answers(c, d)
      BY <1>6, ReadStep
  <2>2. c.op = "read" /\ d.op = "read" /\ \A e \in calls' : e = d \/ e \in calls
      BY <1>6, <2>1, ReadStep DEF Answers, Answered
  <2>3. \A e \in calls' : e.op # "read" => e \in calls
      BY <2>2
  <2>4. UNCHANGED <<asked, running, acts>>
      BY <1>6, ReadStep
  <2> QED BY <1>0, <2>3, <2>4
<1> QED
  <2>1. ASSUME NEW c \in calls, NEW ok \in BOOLEAN,
               Command!AdjustAnswered(c, ok) \/ Command!ApplyAnswered(c, ok) \/ Command!ReadAnswered(c, ok)
        PROVE  JobsKept'
      BY <2>1, <1>0 DEF Command!AdjustAnswered, Command!ApplyAnswered, Command!ReadAnswered, Command!Read
  <2>2. CASE \/ Command!InvalidMinutes \/ Command!PolicyEdited \/ Command!AdGuardMoves \/ Command!HealthPolled
             \/ UNCHANGED Command!vars
    <3>1. acts' \in {acts, acts + 1} /\ UNCHANGED <<asked, running, calls>>
        BY <2>2 DEF Command!InvalidMinutes, Command!PolicyEdited, Command!AdGuardMoves,
                    Command!HealthPolled, Command!vars
    <3> QED BY <1>0, <3>1
  <2>4. ASSUME NEW u \in Users, Command!onSelectUser(u) PROVE JobsKept'
    <3>1. acts' = acts + 1 /\ UNCHANGED <<asked, running, calls>>
        BY <2>4 DEF Command!onSelectUser
    <3> QED BY <1>0, <3>1
  <2>3. CASE Command!Navigate
      BY <2>3, <1>0 DEF Command!Navigate, Command!Read
  <2> QED BY <2>1, <2>2, <2>4, <2>3, <1>2, <1>3, <1>4, <1>5, <1>6 DEF Command!Next, Applies, Reads

LEMMA PanesStep ==
  ASSUME Command!ConstantsOK, CommandInv, CallsKept', Command!Next \/ UNCHANGED Command!vars
  PROVE  (PanesTyped /\ SpinKept)'
<1> USE DEF CommandInv, PanesTyped, SpinKept, Command!SpinnerTrue, Command!Mine,
            Command!srv, Command!adguard, Command!Act
<1>0. CASE UNCHANGED <<mount, time, dns, calls, added, lost, policy, pushed>>
    BY <1>0
<1>1. CASE Command!Navigate
    BY <1>1 DEF Command!Navigate, Command!Read, Command!TimeAtMount, Command!DnsAtMount, CallsKept, Call
<1>2. CASE Command!addTimeToday
  <2>1. PICK d : d = [op |-> "adjust", n |-> mount.n, id |-> acts', user |-> time.sel, val |-> Null] /\ calls' = calls \cup {d}
      BY <1>2 DEF Command!addTimeToday
  <2>2. PanesTyped' /\ time'.adjusting
      BY <1>2 DEF Command!addTimeToday
  <2>3. d.op = "adjust" /\ d.n = mount.n /\ UNCHANGED <<mount, dns>>
      BY <1>2, <2>1 DEF Command!addTimeToday
  <2>4. \A b, c \in calls' : Command!Mine(b)' /\ Command!Mine(c)' /\ b.op = c.op => b = c
      BY DEF CallsKept, Apart
  <2> QED BY <2>1, <2>2, <2>3, <2>4
<1>3. CASE Command!InvalidMinutes
    BY <1>3 DEF Command!InvalidMinutes
<1>4. CASE Command!handleApply
  <2>1. PICK d : d = [op |-> "apply", n |-> mount.n, id |-> acts', val |-> Null] /\ calls' = calls \cup {d}
      BY <1>4 DEF Command!handleApply
  <2>2. PanesTyped' /\ dns'.applying /\ dns'.loading = FALSE
      BY <1>4 DEF Command!handleApply, Command!CanApply
  <2>3. d.op = "apply" /\ d.n = mount.n /\ UNCHANGED <<mount, time>> /\ ~dns.loading
      BY <1>4, <2>1 DEF Command!handleApply, Command!CanApply
  <2>4. \A b, c \in calls' : Command!Mine(b)' /\ Command!Mine(c)' /\ b.op = c.op => b = c
      BY DEF CallsKept, Apart
  <2> QED BY <2>1, <2>2, <2>3, <2>4
<1>5. CASE Command!PolicyEdited \/ Command!AdGuardMoves \/ Command!HealthPolled
    BY <1>5 DEF Command!PolicyEdited, Command!AdGuardMoves, Command!HealthPolled
<1>6. ASSUME NEW u \in Users, Command!onSelectUser(u) PROVE (PanesTyped /\ SpinKept)'
    BY <1>6 DEF Command!onSelectUser
<1>7. CASE Serves
  <2>1. UNCHANGED <<mount, time, dns, policy, acts, crossed>>
      BY <1>7, ServeStep
  <2>2. SpinKept'
    <3>1. CASE calls' = calls
        BY <2>1, <3>1
    <3>2. ASSUME NEW c \in calls, NEW d, Answers(c, d) PROVE SpinKept'
        BY <2>1, <3>2, CallServed
    <3> QED BY <1>7, <3>1, <3>2, ServeStep
  <2>3. added' \in [Users -> Nat] /\ lost' \in [Users -> Nat] /\ pushed' \in Nat
    <3>1. ASSUME NEW j \in asked, NEW ok \in BOOLEAN, Command!AdjustServed(j, ok)
          PROVE  added' \in [Users -> Nat] /\ lost' \in [Users -> Nat] /\ pushed' \in Nat
      <4>1. j.user \in Users
          BY DEF JobsKept
      <4> QED BY <3>1, <4>1 DEF Command!AdjustServed
    <3>2. ASSUME NEW j \in running, Applies(j)
          PROVE  UNCHANGED <<added, lost>> /\ pushed' \in {pushed, j.plan} /\ j.plan \in Nat
        BY <3>2, ApplyFrame DEF JobsKept, Run
    <3>3. ASSUME NEW c \in calls, Reads(c) PROVE UNCHANGED <<added, lost, pushed>>
        BY <3>3, ReadStep
    <3> QED BY <1>7, <3>1, <3>2, <3>3 DEF Serves
  <2> QED BY <2>1, <2>2, <2>3
<1>8. ASSUME NEW c \in calls, NEW ok \in BOOLEAN, Command!AdjustAnswered(c, ok) PROVE (PanesTyped /\ SpinKept)'
  <2>1. /\ calls' = calls \ {c} /\ c.op = "adjust" /\ c.user \in Users
        /\ UNCHANGED <<mount, dns, added, policy, pushed>>
      BY <1>8 DEF Command!AdjustAnswered, CallsKept, Call
  <2>2. PanesTyped' /\ time'.adjusting = (time.adjusting /\ ~Command!Mine(c))
    <3>1. CASE ~Command!Mine(c)
      <4>1. time' = time /\ lost' \in [Users -> Nat]
          BY <1>8, <2>1, <3>1 DEF Command!AdjustAnswered
      <4> QED BY <2>1, <3>1, <4>1
    <3>2. CASE Command!Mine(c)
      <4>1. time' \in [sel : Users \cup {Null}, adjusting : BOOLEAN, error : BOOLEAN, result : Users \cup {Null}]
            /\ ~time'.adjusting
          BY <1>8, <2>1, <3>2 DEF Command!AdjustAnswered
      <4>2. lost' \in [Users -> Nat]
          BY <1>8, <2>1, <3>2 DEF Command!AdjustAnswered
      <4> QED BY <2>1, <3>2, <4>1, <4>2
    <3> QED BY <3>1, <3>2
  <2>3. \A b \in calls : Command!Mine(b) /\ Command!Mine(c) /\ b.op = "adjust" => b = c
      BY <2>1 DEF CallsKept, Apart
  <2> QED BY <2>1, <2>2, <2>3
<1>9. ASSUME NEW c \in calls, NEW ok \in BOOLEAN, Command!ApplyAnswered(c, ok) PROVE (PanesTyped /\ SpinKept)'
  <2>1. /\ c.op = "apply" /\ UNCHANGED <<mount, time, added, lost, policy, pushed>>
        /\ Command!Mine(c) => dns.loading = FALSE /\ dns.applying
      BY <1>9 DEF Command!ApplyAnswered
  <2>2. \A b \in calls : Command!Mine(b) /\ Command!Mine(c) /\ b.op \in {"read", "apply"} => b = c
      BY <2>1 DEF CallsKept, Apart
  <2>3. CASE /\ calls' = (calls \ {c}) \cup {Command!Read(c.n, "apply")}
             /\ dns' = IF Command!Mine(c) THEN [dns EXCEPT !.last = c.val] ELSE dns
    <3>1. PICK d : /\ d = Command!Read(c.n, "apply") /\ calls' = (calls \ {c}) \cup {d}
                   /\ d.op = "read" /\ d.n = c.n /\ d.why = "apply"
      <4>1. /\ Command!Read(c.n, "apply").op = "read" /\ Command!Read(c.n, "apply").n = c.n
            /\ Command!Read(c.n, "apply").why = "apply"
          BY DEF Command!Read
      <4> QED BY <2>3, <4>1
    <3>2. PanesTyped' /\ dns'.loading = dns.loading /\ dns'.applying = dns.applying
        BY <2>1, <2>3
    <3>3. \A b, e \in calls' : Command!Mine(b)' /\ Command!Mine(e)' /\ b.op = e.op => b = e
        BY DEF CallsKept, Apart
    <3> QED BY <2>1, <2>2, <3>1, <3>2, <3>3
  <2>4. CASE /\ calls' = calls \ {c}
             /\ dns' = IF Command!Mine(c) THEN [dns EXCEPT !.error = TRUE, !.applying = FALSE] ELSE dns
    <3>1. PanesTyped' /\ dns'.loading = dns.loading /\ dns'.applying = (dns.applying /\ ~Command!Mine(c))
        BY <2>1, <2>4
    <3> QED BY <2>1, <2>2, <2>4, <3>1
  <2> QED BY <1>9, <2>3, <2>4 DEF Command!ApplyAnswered
<1>10. ASSUME NEW c \in calls, NEW ok \in BOOLEAN, Command!ReadAnswered(c, ok) PROVE (PanesTyped /\ SpinKept)'
  <2>1. /\ c.op = "read" /\ calls' = calls \ {c}
        /\ UNCHANGED <<mount, time, added, lost, policy, pushed>>
      BY <1>10 DEF Command!ReadAnswered
  <2>2. \A b \in calls : Command!Mine(b) /\ Command!Mine(c) /\ b.op \in {"read", "apply"} => b = c
      BY <2>1 DEF CallsKept, Apart
  <2>3. CASE ~Command!Mine(c)
    <3>1. dns' = dns
        BY <1>10, <2>3 DEF Command!ReadAnswered
    <3> QED BY <2>1, <2>3, <3>1
  <2>4. CASE Command!Mine(c) /\ c.why = "load"
    <3>1. PanesTyped' /\ dns'.loading = FALSE /\ dns'.applying = dns.applying
        BY <1>10, <2>1, <2>4 DEF Command!ReadAnswered
    <3> QED BY <2>1, <2>2, <2>4, <3>1
  <2>5. CASE Command!Mine(c) /\ c.why # "load"
    <3>1. PanesTyped' /\ dns'.loading = dns.loading /\ dns'.applying = FALSE
        BY <1>10, <2>1, <2>5 DEF Command!ReadAnswered
    <3> QED BY <2>1, <2>2, <2>5, <3>1
  <2> QED BY <2>3, <2>4, <2>5
<1> QED BY <1>0, <1>1, <1>2, <1>3, <1>4, <1>5, <1>6, <1>7, <1>8, <1>9, <1>10
        DEF Command!Next, Command!vars, Serves, Applies, Reads

\* Counting the answers on their way: an adjustment carried out joins them, an
\* answer that arrived or was lost leaves them.
LEMMA TimeStep ==
  ASSUME Command!ConstantsOK, CommandInv, Command!Next \/ UNCHANGED Command!vars
  PROVE  TimeKept'
<1> USE DEF CommandInv, TimeKept, Command!ResultOfSelected, Command!Mine, Command!srv, Command!adguard, Command!Act
<1>s. \A u \in Users : IsFiniteSet(Served(u)) /\ Cardinality(Served(u)) \in Nat
  <2>1. \A u \in Users : Served(u) \subseteq calls
      BY DEF Served
  <2> QED BY <2>1, FS_Subset, FS_CardinalityType DEF CallsKept
<1>t. \A u \in Users : added[u] \in Nat /\ lost[u] \in Nat
    BY DEF PanesTyped
<1>0. CASE UNCHANGED <<time, crossed, added, lost, mount>> /\ \A c \in calls' : c.op = "adjust" => c \in calls
  <2>1. \A u \in Users : Served(u)' \subseteq Served(u)
      BY <1>0 DEF Served
  <2>2. \A u \in Users : Cardinality(Served(u)') <= Cardinality(Served(u)) /\ Cardinality(Served(u)') \in Nat
      BY <2>1, <1>s, FS_Subset, FS_CardinalityType
  <2> QED BY <1>0, <1>s, <1>t, <2>2
<1>1. CASE Command!Navigate
  <2>1. \A c \in calls' : c.op = "adjust" => c \in calls /\ c.n # mount'.n
      BY <1>1 DEF Command!Navigate, Command!Read, CallsKept, Call
  <2>2. \A u \in Users : Served(u)' \subseteq Served(u)
      BY <2>1 DEF Served
  <2>3. \A u \in Users : Cardinality(Served(u)') <= Cardinality(Served(u)) /\ Cardinality(Served(u)') \in Nat
      BY <2>2, <1>s, FS_Subset, FS_CardinalityType
  <2>4. time'.result = Null /\ ~time'.adjusting /\ UNCHANGED <<added, lost>>
      BY <1>1 DEF Command!Navigate, Command!TimeAtMount
  <2> QED BY <1>s, <1>t, <2>1, <2>3, <2>4 DEF Command!ConstantsOK
<1>2. CASE Command!addTimeToday
  <2>1. PICK d : d = [op |-> "adjust", n |-> mount.n, id |-> acts', user |-> time.sel, val |-> Null] /\ calls' = calls \cup {d}
      BY <1>2 DEF Command!addTimeToday
  <2>2. /\ time'.result = Null /\ time'.sel = time.sel /\ ~time.adjusting
        /\ UNCHANGED <<mount, added, lost>>
      BY <1>2 DEF Command!addTimeToday, PanesTyped
  <2>3. d.val = Null /\ d.user = time.sel /\ \A c \in calls : Command!Mine(c) => c.op # "adjust"
      BY <2>1, <2>2 DEF SpinKept, Command!SpinnerTrue
  <2>4. \A u \in Users : Served(u)' \subseteq Served(u)
      BY <2>1, <2>3 DEF Served
  <2>5. \A u \in Users : Cardinality(Served(u)') <= Cardinality(Served(u)) /\ Cardinality(Served(u)') \in Nat
      BY <2>4, <1>s, FS_Subset, FS_CardinalityType
  <2> QED BY <1>s, <1>t, <2>1, <2>2, <2>3, <2>5 DEF Command!ConstantsOK
<1>3. CASE Command!InvalidMinutes
  <2>1. /\ time'.result = time.result /\ time'.sel = time.sel /\ time'.adjusting = time.adjusting
        /\ UNCHANGED <<mount, calls, added, lost, crossed>>
      BY <1>3 DEF Command!InvalidMinutes, PanesTyped
  <2>2. \A u \in Users : Served(u)' = Served(u)
      BY <2>1 DEF Served
  <2> QED BY <2>1, <2>2
<1>4. ASSUME NEW u \in Users, Command!onSelectUser(u) PROVE TimeKept'
  <2>1. /\ time'.result = Null /\ time'.sel = u /\ time'.adjusting = time.adjusting
        /\ crossed' = (crossed \/ time.adjusting) /\ UNCHANGED <<mount, calls, added, lost>>
      BY <1>4 DEF Command!onSelectUser, PanesTyped
  <2>2. \A v \in Users : Served(v)' = Served(v)
      BY <2>1 DEF Served
  <2>3. \A c \in calls : Command!Mine(c) /\ c.op = "adjust" => time.adjusting
      BY DEF SpinKept, Command!SpinnerTrue
  <2>4. \A c \in calls' : Command!Mine(c)' /\ c.op = "adjust" => c.user = time'.sel \/ crossed'
      BY <2>1, <2>3
  <2>5. ASSUME NEW v \in Users
        PROVE  added'[v] >= lost'[v] + Cardinality(Served(v)') + (IF time'.result = v THEN 1 ELSE 0)
    <3>1. time'.result # v /\ Served(v)' = Served(v) /\ added'[v] = added[v] /\ lost'[v] = lost[v]
        BY <2>1, <2>2 DEF Command!ConstantsOK
    <3> HIDE DEF TimeKept
    <3>2. added[v] >= lost[v] + Cardinality(Served(v)) + (IF time.result = v THEN 1 ELSE 0)
        BY DEF TimeKept
    <3> QED BY <1>s, <1>t, <3>1, <3>2
  <2> QED BY <2>1, <2>4, <2>5
<1>5. ASSUME NEW j \in asked, NEW ok \in BOOLEAN, Command!AdjustServed(j, ok) PROVE TimeKept'
  <2>1. /\ UNCHANGED <<mount, time, crossed>> /\ Command!Answer(j.id, [ok |-> ok]) /\ j.user \in Users
        /\ added' = IF ok THEN [added EXCEPT ![j.user] = @ + 1] ELSE added
      BY <1>5 DEF Command!AdjustServed, JobsKept
  <2>2. \A u \in Users : added'[u] = added[u] + (IF ok /\ u = j.user THEN 1 ELSE 0)
      BY <2>1, <1>t DEF PanesTyped
  <2>3. CASE calls' = calls /\ \A c \in calls : ~Command!Awaits(c, j.id)
    <3>1. lost' = IF ok THEN [lost EXCEPT ![j.user] = @ + 1] ELSE lost
        BY <1>5, <2>3 DEF Command!AdjustServed
    <3>2. \A u \in Users : lost'[u] = lost[u] + (IF ok /\ u = j.user THEN 1 ELSE 0)
        BY <2>1, <3>1, <1>t DEF PanesTyped
    <3>3. \A u \in Users : Served(u)' = Served(u)
        BY <2>3 DEF Served
    <3> QED BY <1>s, <1>t, <2>1, <2>2, <2>3, <3>2, <3>3
  <2>4. ASSUME NEW c \in calls, NEW d, Command!Awaits(c, j.id), Answers(c, d), d.val = [ok |-> ok]
        PROVE  TimeKept'
    <3>1. lost' = lost
        BY <1>5, <2>4 DEF Command!AdjustServed
    <3>2. /\ c.op = "adjust" /\ c.user = j.user /\ d.op = "adjust" /\ d.n = c.n /\ d.user = j.user
          /\ d.val.ok = ok /\ \A e \in calls' : e = d \/ e \in calls
        BY <2>4 DEF Answers, Answered, JobsKept
    <3>3. \A u \in Users : /\ Served(u)' \subseteq Served(u) \cup {d}
                           /\ ~(ok /\ u = j.user) => Served(u)' \subseteq Served(u)
        BY <3>2 DEF Served
    <3>4. \A u \in Users : /\ Cardinality(Served(u)') \in Nat
                           /\ Cardinality(Served(u)') <= Cardinality(Served(u)) + (IF ok /\ u = j.user THEN 1 ELSE 0)
      <4>1. ASSUME NEW u \in Users, ~(ok /\ u = j.user)
            PROVE  Cardinality(Served(u)') \in Nat /\ Cardinality(Served(u)') <= Cardinality(Served(u))
          BY <3>3, <4>1, <1>s, FS_Subset, FS_CardinalityType
      <4>2. ASSUME NEW u \in Users
            PROVE  Cardinality(Served(u)') \in Nat /\ Cardinality(Served(u)') <= Cardinality(Served(u)) + 1
        <5>0. IsFiniteSet(Served(u)) /\ Cardinality(Served(u)) \in Nat
            BY <1>s
        <5>a. /\ IsFiniteSet(Served(u) \cup {d})
              /\ Cardinality(Served(u) \cup {d}) \in {Cardinality(Served(u)), Cardinality(Served(u)) + 1}
            BY <5>0, FS_AddElement
        <5>1. IsFiniteSet(Served(u) \cup {d}) /\ Cardinality(Served(u) \cup {d}) \in Nat
              /\ Cardinality(Served(u) \cup {d}) <= Cardinality(Served(u)) + 1
            BY <5>0, <5>a
        <5>2. Cardinality(Served(u)') <= Cardinality(Served(u) \cup {d}) /\ Cardinality(Served(u)') \in Nat
            BY <3>3, <5>1, FS_Subset, FS_CardinalityType
        <5> QED BY <1>s, <5>1, <5>2
      <4> QED BY <1>s, <4>1, <4>2
    <3> QED BY <1>s, <1>t, <2>1, <2>2, <3>1, <3>2, <3>4
  <2> QED BY <2>1, <2>3, <2>4, AnswerReaches
<1>7. ASSUME NEW j \in running, Applies(j) PROVE TimeKept'
  <2>1. UNCHANGED <<mount, time, crossed, added, lost>>
      BY <1>7, ApplyFrame
  <2>2. \A c \in calls' : c.op = "adjust" => c \in calls
    <3>1. CASE calls' = calls
        BY <3>1
    <3>2. ASSUME NEW c \in calls, NEW d, Command!Awaits(c, j.id), Answers(c, d)
          PROVE  \A e \in calls' : e.op = "adjust" => e \in calls
      <4>1. d.op = "apply" /\ \A e \in calls' : e = d \/ e \in calls
          BY <3>2 DEF Answers, Answered, JobsKept
      <4> QED BY <4>1
    <3>3. calls' = calls \/ \E v : Command!Answer(j.id, v)
        BY <1>7, ApplyFrame
    <3> QED BY <3>1, <3>2, <3>3, AnswerReaches
  <2> QED BY <1>0, <2>1, <2>2
<1>8. ASSUME NEW c \in calls, Reads(c) PROVE TimeKept'
  <2>1. PICK d : Answers(c, d)
      BY <1>8, ReadStep
  <2>2. d.op = "read" /\ \A e \in calls' : e = d \/ e \in calls
      BY <1>8, <2>1, ReadStep DEF Answers, Answered
  <2>3. \A e \in calls' : e.op = "adjust" => e \in calls
      BY <2>2
  <2> QED BY <1>0, <1>8, <2>3, ReadStep
<1>6. ASSUME NEW c \in calls, NEW ok \in BOOLEAN, Command!AdjustAnswered(c, ok) PROVE TimeKept'
  <2>1. /\ c.op = "adjust" /\ c.user \in Users /\ calls' = calls \ {c} /\ (ok => c.val # Null)
        /\ UNCHANGED <<mount, added, crossed>>
      BY <1>6 DEF Command!AdjustAnswered, CallsKept, Call
  <2>2. \A u \in Users : /\ Served(u)' = Served(u) \ {c}
                         /\ c \in Served(u) <=> u = c.user /\ c.val # Null /\ c.val.ok
      BY <2>1 DEF Served
  <2>3. \A u \in Users : Cardinality(Served(u)') = Cardinality(Served(u)) - (IF c \in Served(u) THEN 1 ELSE 0)
                         /\ Cardinality(Served(u)') \in Nat
    <3> TAKE u \in Users
    <3>1. CASE c \in Served(u)
        BY <1>s, <2>2, <3>1, FS_RemoveElement, FS_CardinalityType
    <3>2. CASE c \notin Served(u)
      <4>1. Served(u)' = Served(u)
          BY <2>2, <3>2
      <4> QED BY <1>s, <3>2, <4>1
    <3> QED BY <3>1, <3>2
  <2>4. \A u \in Users : lost'[u] = lost[u] + (IF c \in Served(u) /\ (~ok \/ ~Command!Mine(c)) THEN 1 ELSE 0)
      BY <1>6, <2>1, <2>2 DEF Command!AdjustAnswered, PanesTyped
  <2>5. CASE ~Command!Mine(c)
    <3>1. time' = time
        BY <1>6, <2>5 DEF Command!AdjustAnswered
    <3> QED BY <1>s, <1>t, <2>1, <2>3, <2>4, <2>5, <3>1
  <2>6. CASE Command!Mine(c)
    <3>1. time.result = Null /\ \A u \in Users : u # Null
        BY <2>1, <2>6 DEF SpinKept, Command!SpinnerTrue, Command!ConstantsOK
    <3>2. /\ ~time'.adjusting /\ time'.sel = time.sel
          /\ time'.result = IF ok /\ c.val.ok THEN c.user ELSE Null
        BY <1>6, <2>6, <3>1 DEF Command!AdjustAnswered, PanesTyped
    <3>3. \A u \in Users : (time'.result = u) => ok /\ c.val.ok /\ u = c.user /\ c \in Served(u)
        BY <2>1, <2>2, <3>1, <3>2
    <3>4. ASSUME NEW u \in Users
          PROVE  added'[u] >= lost'[u] + Cardinality(Served(u)') + (IF time'.result = u THEN 1 ELSE 0)
        BY <1>s, <1>t, <2>1, <2>3, <2>4, <2>6, <3>1, <3>3
    <3>5. time'.result # Null => time'.result = time'.sel \/ crossed'
        BY <2>1, <2>6, <3>2
    <3> QED BY <2>1, <3>2, <3>4, <3>5
  <2> QED BY <2>5, <2>6
<1> QED
  <2>1. CASE Command!handleApply
      BY <2>1, <1>0 DEF Command!handleApply
  <2>2. ASSUME NEW c \in calls, NEW ok \in BOOLEAN, Command!ApplyAnswered(c, ok) \/ Command!ReadAnswered(c, ok)
        PROVE  TimeKept'
      BY <2>2, <1>0 DEF Command!ApplyAnswered, Command!ReadAnswered, Command!Read
  <2>3. CASE Command!PolicyEdited \/ Command!AdGuardMoves \/ Command!HealthPolled \/ UNCHANGED Command!vars
      BY <2>3, <1>0 DEF Command!PolicyEdited, Command!AdGuardMoves, Command!HealthPolled, Command!vars
  <2> QED BY <1>1, <1>2, <1>3, <1>4, <1>5, <1>6, <1>7, <1>8, <2>1, <2>2, <2>3 DEF Command!Next, Serves, Applies, Reads

\* An answer that arrives, or that is made, is one AdGuard lives up to.
LEMMA ApplyStep ==
  ASSUME Command!ConstantsOK, CommandInv, Command!Next \/ UNCHANGED Command!vars
  PROVE  ApplyKept'
<1> USE DEF CommandInv, ApplyKept, Started, Command!srv, Command!adguard, Command!Act
<1>t. /\ policy \in Nat /\ pushed \in Nat
      /\ \A j \in running : Run(j) /\ j.plan \in Nat /\ j.alone \in BOOLEAN
    BY DEF PanesTyped, JobsKept, Run
<1>0. CASE /\ UNCHANGED <<policy, pushed, running>> /\ dns'.last \in {Null, dns.last}
           /\ \A c \in calls' : c.op = "apply" => c \in calls \/ c.val = Null
    BY <1>0 DEF Vouched
<1>1. CASE Command!handleApply
  <2>1. UNCHANGED <<policy, pushed>> /\ dns'.last = Null /\ \A c \in calls' : c.op = "apply" => c \in calls \/ c.val = Null
      BY <1>1 DEF Command!handleApply, PanesTyped
  <2>2. PICK m : m = [id |-> acts', phase |-> "sent", plan |-> 0, got |-> 0, alone |-> FALSE] /\ running' = running \cup {m}
      BY <1>1 DEF Command!handleApply
  <2>3. m.phase = "sent" /\ m.plan = 0 /\ ~m.alone
      BY <2>2
  <2>4. \A v : Vouched(v) => Vouched(v)'
      BY <2>1, <2>2, <2>3 DEF Vouched
  <2> QED BY <1>t, <2>1, <2>2, <2>3, <2>4
<1>2. CASE Command!PolicyEdited
  <2>1. policy' = policy + 1 /\ UNCHANGED <<dns, calls, pushed, running>>
      BY <1>2 DEF Command!PolicyEdited
  <2>2. \A v : Vouched(v) => Vouched(v)'
      BY <1>t, <2>1 DEF Vouched
  <2>3. pushed' <= policy' /\ \A j \in running' : j.plan <= policy'
      BY <1>t, <2>1
  <2> QED BY <2>1, <2>2, <2>3
<1>3. ASSUME NEW j \in running, Applies(j) PROVE ApplyKept'
  <2>1. UNCHANGED <<dns, policy>> /\ Run(j) /\ j.plan <= policy /\ j.plan \in Nat
      BY <1>3, <1>t, ApplyFrame
  <2>2. ASSUME NEW v, Command!Answer(j.id, v), v.ok => Vouched(v)',
               \A w : Vouched(w) => Vouched(w)'
        PROVE  \A c \in calls' : c.op = "apply" /\ c.val # Null /\ c.val.ok => Vouched(c.val)'
    <3>1. CASE calls' = calls
        BY <2>2, <3>1
    <3>2. ASSUME NEW c \in calls, NEW d, Answers(c, d), d.val = v
          PROVE  \A e \in calls' : e.op = "apply" /\ e.val # Null /\ e.val.ok => Vouched(e.val)'
      <4>1. \A e \in calls' : e = d \/ e \in calls
          BY <3>2 DEF Answers
      <4> QED BY <2>2, <3>2, <4>1
    <3> QED BY <2>2, <3>1, <3>2, AnswerReaches
  <2>3. CASE Command!ApplyRefused(j)
    <3>1. /\ running' = running \ {j} /\ pushed' = pushed
          /\ Command!Answer(j.id, [ok |-> FALSE, rules |-> 0, alone |-> FALSE])
        BY <2>3 DEF Command!ApplyRefused
    <3>2. \A w : Vouched(w) => Vouched(w)'
        BY <2>1, <3>1 DEF Vouched
    <3> QED BY <1>t, <2>1, <2>2, <3>1, <3>2
  <2>4. CASE Command!ApplyPlanned(j)
    <3>1. PICK m : /\ m = Command!Planned(j)
                   /\ running' = {Command!Overlapped(d) : d \in running \ {j}} \cup {m}
        BY <2>4 DEF Command!ApplyPlanned
    <3>3. m.phase = "planned" /\ m.plan = policy /\ (m.alone => \A d \in running : d.phase = "sent")
        BY <1>t, <2>1, <3>1, RunPlanned DEF Command!NoneStarted
    <3>5. \A k \in running' : \/ k = m
                              \/ ~k.alone /\ \E d \in running : k.phase = d.phase /\ k.plan = d.plan
        BY <1>t, <3>1, RunOverlapped
    <3>6. UNCHANGED <<pushed, calls>>
        BY <2>4 DEF Command!ApplyPlanned
    <3>7. \A w : Vouched(w) => Vouched(w)'
        BY <1>t, <2>1, <3>3, <3>5, <3>6 DEF Vouched
    <3>8. \A k \in running' : k.plan <= policy' /\ (k.alone /\ k.phase = "read" => k.got = pushed')
        BY <1>t, <2>1, <3>3, <3>5
    <3>9. \A i, k \in running' : Started(i) /\ Started(k) /\ i.alone => i = k
        BY <3>3, <3>5
    <3> QED BY <2>1, <3>6, <3>7, <3>8, <3>9
  <2>5. CASE Command!ApplyReads(j)
    <3>1. PICK m : m = [j EXCEPT !.phase = "read", !.got = pushed] /\ running' = (running \ {j}) \cup {m}
        BY <2>5 DEF Command!ApplyReads
    <3>3. m.phase = "read" /\ m.plan = j.plan /\ m.got = pushed /\ m.alone = j.alone /\ Started(j) /\ Started(m)
        BY <2>1, <2>5, <3>1, RunRead DEF Command!ApplyReads
    <3>4. UNCHANGED <<pushed, calls>>
        BY <2>5 DEF Command!ApplyReads
    <3>5. \A w : Vouched(w) => Vouched(w)'
        BY <2>1, <3>1, <3>3, <3>4 DEF Vouched
    <3>6. \A i, k \in running' : Started(i) /\ Started(k) /\ i.alone => i = k
        BY <3>1, <3>3
    <3> QED BY <2>1, <3>1, <3>3, <3>4, <3>5, <3>6
  <2>6. CASE Command!ApplyWrites(j) \/ Command!ApplyFails(j)
    <3>1. running' = running \ {j} /\ Started(j) /\ pushed' \in {pushed, j.plan}
        BY <2>6 DEF Command!ApplyWrites, Command!ApplyFails
    <3>2. pushed' \in Nat /\ pushed' <= policy'
        BY <1>t, <2>1, <3>1
    <3>3. \A w : Vouched(w) => Vouched(w)'
        BY <2>1, <3>1 DEF Vouched
    <3>4. \A k \in running' : Started(k) => ~k.alone /\ ~j.alone
        BY <1>t, <3>1
    <3>5. CASE Command!ApplyWrites(j)
      <4>1. j.alone => pushed' = j.plan
          BY <3>5 DEF Command!ApplyWrites
      <4>2. PICK v : v = Command!Success(j) /\ Command!Answer(j.id, v)
          BY <3>5 DEF Command!ApplyWrites
      <4>3. v.rules = j.plan /\ v.alone = j.alone
          BY <4>2 DEF Command!Success
      <4>4. Vouched(v)'
          BY <2>1, <3>1, <3>4, <4>1, <4>3 DEF Vouched
      <4>5. \A k \in running' : k.plan <= policy' /\ (k.alone /\ k.phase = "read" => k.got = pushed')
          BY <2>1, <3>1, <3>4
      <4> QED BY <2>1, <2>2, <3>1, <3>2, <3>3, <4>2, <4>4, <4>5
    <3>6. CASE Command!ApplyFails(j)
      <4>1. Command!Answer(j.id, [ok |-> FALSE, rules |-> 0, alone |-> FALSE])
          BY <3>6 DEF Command!ApplyFails
      <4>5. \A k \in running' : k.plan <= policy' /\ (k.alone /\ k.phase = "read" => k.got = pushed')
          BY <2>1, <3>1, <3>4
      <4> QED BY <2>1, <2>2, <3>1, <3>2, <3>3, <4>1, <4>5
    <3> QED BY <2>6, <3>5, <3>6
  <2> QED BY <1>3, <2>3, <2>4, <2>5, <2>6 DEF Applies
<1>4. ASSUME NEW j \in asked, NEW ok \in BOOLEAN, Command!AdjustServed(j, ok) PROVE ApplyKept'
  <2>1. UNCHANGED <<dns, policy, pushed, running>> /\ Command!Answer(j.id, [ok |-> ok])
      BY <1>4 DEF Command!AdjustServed
  <2>2. \A c \in calls' : c.op = "apply" => c \in calls
    <3>1. CASE calls' = calls
        BY <3>1
    <3>2. ASSUME NEW c \in calls, NEW d, Command!Awaits(c, j.id), Answers(c, d)
          PROVE  \A e \in calls' : e.op = "apply" => e \in calls
      <4>1. d.op = "adjust" /\ \A e \in calls' : e = d \/ e \in calls
          BY <3>2 DEF Answers, Answered, JobsKept
      <4> QED BY <4>1
    <3> QED BY <2>1, <3>1, <3>2, AnswerReaches
  <2> QED BY <1>0, <2>1, <2>2
<1>5. ASSUME NEW c \in calls, Reads(c) PROVE ApplyKept'
  <2>1. PICK d : Answers(c, d)
      BY <1>5, ReadStep
  <2>2. d.op = "read" /\ \A e \in calls' : e = d \/ e \in calls
      BY <1>5, <2>1, ReadStep DEF Answers, Answered
  <2>3. \A e \in calls' : e.op = "apply" => e \in calls
      BY <2>2
  <2> QED BY <1>0, <1>5, <2>3, ReadStep
<1>6. ASSUME NEW c \in calls, NEW ok \in BOOLEAN, Command!ApplyAnswered(c, ok) PROVE ApplyKept'
  <2>1. /\ c.op = "apply" /\ (ok => c.val # Null) /\ UNCHANGED <<policy, pushed, running>>
        /\ \A e \in calls' : e.op = "apply" => e \in calls
      BY <1>6 DEF Command!ApplyAnswered, Command!Read
  <2>2. dns'.last = dns.last \/ (dns'.last = c.val /\ ok /\ c.val.ok)
      BY <1>6 DEF Command!ApplyAnswered, PanesTyped
  <2>3. \A v : Vouched(v) => Vouched(v)'
      BY <2>1 DEF Vouched
  <2> QED BY <2>1, <2>2, <2>3
<1>7. ASSUME NEW c \in calls, NEW ok \in BOOLEAN, Command!AdjustAnswered(c, ok) \/ Command!ReadAnswered(c, ok)
      PROVE  ApplyKept'
  <2>1. UNCHANGED <<policy, pushed, running>> /\ calls' \subseteq calls /\ dns'.last = dns.last
      BY <1>7 DEF Command!AdjustAnswered, Command!ReadAnswered, PanesTyped
  <2> QED BY <1>0, <2>1
<1>8. CASE Command!Navigate
  <2>1. UNCHANGED <<policy, pushed, running>> /\ dns'.last = Null /\ \A c \in calls' : c.op = "apply" => c \in calls
      BY <1>8 DEF Command!Navigate, Command!Read, Command!DnsAtMount
  <2> QED BY <1>0, <2>1
<1>9. CASE Command!addTimeToday
  <2>1. UNCHANGED <<dns, policy, pushed, running>> /\ \A c \in calls' : c.op = "apply" => c \in calls
      BY <1>9 DEF Command!addTimeToday
  <2> QED BY <1>0, <2>1
<1> QED
  <2>1. CASE \/ Command!InvalidMinutes \/ Command!AdGuardMoves \/ Command!HealthPolled \/ UNCHANGED Command!vars
             \/ \E u \in Users : Command!onSelectUser(u)
    <3>1. UNCHANGED <<policy, pushed, running, dns, calls>>
        BY <2>1 DEF Command!InvalidMinutes, Command!AdGuardMoves, Command!HealthPolled, Command!vars,
               Command!onSelectUser
    <3> QED BY <1>0, <3>1
  <2> QED BY <1>1, <1>2, <1>3, <1>4, <1>5, <1>6, <1>7, <1>8, <1>9, <2>1 DEF Command!Next, Applies, Reads

\* The reads that follow a push start after it.
LEMMA DnsStep ==
  ASSUME Command!ConstantsOK, CommandInv, Command!Next \/ UNCHANGED Command!vars
  PROVE  DnsKept'
<1> USE DEF CommandInv, DnsKept, Command!Mine, Command!srv, Command!adguard, Command!Act
<1>0. CASE UNCHANGED <<mount, dns>> /\ \A c \in calls' : c.op = "read" => c \in calls
    BY <1>0
<1>1. CASE Command!Navigate
    BY <1>1 DEF Command!Navigate, Command!DnsAtMount
<1>2. CASE Command!handleApply
    BY <1>2 DEF Command!handleApply, PanesTyped
<1>3. ASSUME NEW j \in asked, NEW ok \in BOOLEAN, Command!AdjustServed(j, ok) PROVE DnsKept'
  <2>1. UNCHANGED <<mount, dns>> /\ Command!Answer(j.id, [ok |-> ok])
      BY <1>3 DEF Command!AdjustServed
  <2>2. \A c \in calls' : c.op = "read" => c \in calls
      BY <2>1, AnswerReaches DEF Answers, Answered, Command!Awaits
  <2> QED BY <1>0, <2>1, <2>2
<1>4. ASSUME NEW j \in running, Applies(j) PROVE DnsKept'
  <2>1. UNCHANGED <<mount, dns>> /\ (calls' = calls \/ \E v : Command!Answer(j.id, v))
      BY <1>4, ApplyFrame
  <2>2. \A c \in calls' : c.op = "read" => c \in calls
      BY <2>1, AnswerReaches DEF Answers, Answered, Command!Awaits
  <2> QED BY <1>0, <2>1, <2>2
<1>5. ASSUME NEW c \in calls, Reads(c) PROVE DnsKept'
  <2>1. PICK d : Answers(c, d) /\ d.preview \in {c.preview, [rules |-> policy, applyable |-> healthy]}
      BY <1>5, ReadStep
  <2>2. /\ c.op = "read" /\ d.op = c.op /\ d.n = c.n /\ (\A e \in calls' : e = d \/ e \in calls)
        /\ UNCHANGED <<mount, dns>>
      BY <1>5, <2>1, ReadStep DEF Answers, Answered
  <2>3. ASSUME dns.last # Null, NEW e \in calls', Command!Mine(e), e.op = "read", e.preview # Null
        PROVE  e.preview.rules >= dns.last.rules
    <3>1. CASE e = d
        BY <2>1, <2>2, <2>3, <3>1 DEF ApplyKept, Vouched, PanesTyped
    <3>2. CASE e \in calls
        BY <2>3, <3>2
    <3> QED BY <2>2, <3>1, <3>2
  <2> QED BY <2>2, <2>3
<1>6. ASSUME NEW c \in calls, NEW ok \in BOOLEAN, Command!ApplyAnswered(c, ok) PROVE DnsKept'
  <2>1. c.op = "apply" /\ (ok => c.val # Null) /\ UNCHANGED mount
      BY <1>6 DEF Command!ApplyAnswered
  <2>2. \A e \in calls' : \/ e \in calls
                          \/ ok /\ c.val.ok /\ e.op = "read" /\ e.preview = Null
      BY <1>6 DEF Command!ApplyAnswered, Command!Read
  <2>3. \A b \in calls : Command!Mine(b) /\ Command!Mine(c) => b.op # "read"
      BY <2>1 DEF CallsKept, Apart
  <2>4. CASE ~Command!Mine(c)
    <3>1. dns' = dns
        BY <1>6, <2>4 DEF Command!ApplyAnswered
    <3> QED BY <2>1, <2>2, <3>1
  <2>5. CASE Command!Mine(c) /\ ok /\ c.val.ok
    <3>1. dns'.loading = dns.loading /\ dns'.applying = dns.applying
        BY <1>6, <2>5 DEF Command!ApplyAnswered, PanesTyped
    <3>2. ~dns.loading /\ dns.applying
        BY <2>1, <2>5 DEF SpinKept, Command!SpinnerTrue, PanesTyped
    <3> QED BY <2>1, <2>2, <2>3, <2>5, <3>1, <3>2
  <2>6. CASE Command!Mine(c) /\ ~(ok /\ c.val.ok)
    <3>1. dns'.last = dns.last /\ dns'.loading = dns.loading /\ dns'.error = TRUE
        BY <1>6, <2>6 DEF Command!ApplyAnswered, PanesTyped
    <3>2. \A e \in calls' : e \in calls
        BY <2>2, <2>6
    <3> QED BY <2>1, <3>1, <3>2
  <2> QED BY <2>4, <2>5, <2>6
<1>7. ASSUME NEW c \in calls, NEW ok \in BOOLEAN, Command!ReadAnswered(c, ok) PROVE DnsKept'
  <2>1. /\ c.op = "read" /\ (ok => c.preview # Null) /\ calls' = calls \ {c} /\ UNCHANGED mount
      BY <1>7 DEF Command!ReadAnswered
  <2>2. CASE ~Command!Mine(c)
    <3>1. dns' = dns
        BY <1>7, <2>2 DEF Command!ReadAnswered
    <3> QED BY <2>1, <3>1
  <2>3. CASE Command!Mine(c) /\ c.why = "load"
    <3>1. dns.loading /\ dns.last = Null
        BY <2>1, <2>3 DEF SpinKept, PanesTyped
    <3>2. dns'.last = Null
        BY <1>7, <2>3, <3>1 DEF Command!ReadAnswered, PanesTyped
    <3> QED BY <2>1, <3>2
  <2>4. CASE Command!Mine(c) /\ c.why # "load" /\ ok
    <3>1. dns'.last = dns.last /\ dns'.loading = dns.loading /\ dns'.preview = c.preview
        BY <1>7, <2>4 DEF Command!ReadAnswered, PanesTyped
    <3> QED BY <2>1, <2>4, <3>1
  <2>5. CASE Command!Mine(c) /\ c.why # "load" /\ ~ok
    <3>1. dns'.last = dns.last /\ dns'.loading = dns.loading /\ dns'.error = TRUE
        BY <1>7, <2>5 DEF Command!ReadAnswered, PanesTyped
    <3> QED BY <2>1, <3>1
  <2> QED BY <2>2, <2>3, <2>4, <2>5
<1> QED
  <2>1. CASE \/ Command!InvalidMinutes \/ Command!PolicyEdited \/ Command!AdGuardMoves \/ Command!HealthPolled
             \/ UNCHANGED Command!vars \/ (\E u \in Users : Command!onSelectUser(u)) \/ Command!addTimeToday
    <3>1. CASE Command!addTimeToday
      <4>1. UNCHANGED <<mount, dns>> /\ \A c \in calls' : c.op = "read" => c \in calls
          BY <3>1 DEF Command!addTimeToday
      <4> QED BY <1>0, <4>1
    <3>2. CASE \/ Command!InvalidMinutes \/ Command!PolicyEdited \/ Command!AdGuardMoves \/ Command!HealthPolled
               \/ UNCHANGED Command!vars \/ (\E u \in Users : Command!onSelectUser(u))
      <4>1. UNCHANGED <<mount, dns, calls>>
          BY <3>2 DEF Command!InvalidMinutes, Command!PolicyEdited, Command!AdGuardMoves, Command!HealthPolled,
                 Command!vars, Command!onSelectUser
      <4> QED BY <1>0, <4>1
    <3> QED BY <2>1, <3>1, <3>2
  <2>2. ASSUME NEW c \in calls, NEW ok \in BOOLEAN, Command!AdjustAnswered(c, ok) PROVE DnsKept'
      BY <2>2, <1>0 DEF Command!AdjustAnswered
  <2> QED BY <1>1, <1>2, <1>3, <1>4, <1>5, <1>6, <1>7, <2>1, <2>2 DEF Command!Next, Applies, Reads

LEMMA CommandStepInv ==
  ASSUME Command!ConstantsOK, CommandInv, [Command!Next]_(Command!vars)
  PROVE  CommandInv'
<1>1. CallsKept'
    BY CallsStep
<1> QED BY <1>1, JobsStep, PanesStep, TimeStep, ApplyStep, DnsStep DEF CommandInv

LEMMA CommandInvSound ==
  ASSUME Command!ConstantsOK, CommandInv
  PROVE  Command!CommandsSound
<1>1. \A u \in Users : Cardinality(Served(u)) \in Nat
  <2>1. \A u \in Users : Served(u) \subseteq calls
      BY DEF Served
  <2> QED BY <2>1, FS_Subset, FS_CardinalityType DEF CommandInv, CallsKept
<1>2. \A u \in Users : added[u] \in Nat /\ lost[u] \in Nat
    BY DEF CommandInv, PanesTyped
<1>3. Command!ResultWasAdded
    BY <1>1, <1>2 DEF CommandInv, TimeKept, Command!ResultWasAdded
<1>4. Command!PushedTable
    BY DEF CommandInv, PanesTyped, ApplyKept, Vouched, DnsKept, Command!PushedTable
<1> QED BY <1>3, <1>4 DEF CommandInv, SpinKept, TimeKept, Command!CommandsSound

(* ---- the audit trail ---- *)

LEMMA LeastNumber ==
  ASSUME NEW S \in SUBSET Nat, S # {}
  PROVE  \E n \in S : \A m \in S : n <= m
<1>1. PICK n \in S : \A m \in S : ~ (<<m, n>> \in OpToRel(<, Nat))
    BY NatLessThanWellFounded, WFMin
<1>2. \A m \in S : n <= m
  <2>1. \A m \in S : ~(m < n) /\ m \in Nat /\ n \in Nat
      BY <1>1 DEF OpToRel
  <2> QED BY <2>1
<1> QED BY <1>2

Words == {"flag", "flag=secret", "secret", "plain"}
Masked == {"flag", "secret", "plain", "[redacted]", "flag=[redacted]"}
Entry == [id : Nat, client : Clients, command : Seq(Masked), outcome : Audit!Outcomes, of : Nat]

TrailTyped ==
  /\ issued \in Nat /\ issued <= MaxCommands
  /\ running \subseteq [n : 1 .. issued, client : Clients, argv : Argvs, how : Calls]
  /\ dropped \subseteq 1 .. issued
  /\ settled \in [1 .. MaxCommands -> {Null} \cup [result : Audit!Answers, threw : BOOLEAN]]
  /\ log \in Seq(Entry)

\* A command is running until it has settled, and once only.
SettledOnce ==
  /\ \A c, d \in running : c.n = d.n => c = d
  /\ \A n \in 1 .. issued : settled[n] = Null <=> \E c \in running : c.n = n
  /\ \A n \in 1 .. MaxCommands : n > issued => settled[n] = Null

Tells(row, answer) == (row.outcome = "ok") <=> (answer.result = "code 0")

\* A row is a settled command's own, says how that went, and is missing only when dropped.
RowOfCommand ==
  /\ \A i \in 1 .. Len(log) :
       /\ log[i].of \in 1 .. issued /\ log[i].of \notin dropped /\ settled[log[i].of] # Null
       /\ Tells(log[i], settled[log[i].of])
  /\ \A i, j \in 1 .. Len(log) : log[i].of = log[j].of => i = j
  /\ \A n \in dropped : settled[n] # Null
  /\ \A n \in 1 .. issued : settled[n] # Null /\ n \notin dropped => \E i \in 1 .. Len(log) : log[i].of = n

\* Of two arguments in a row the second was not a sensitive flag's value.
Unmasked(command) ==
  \A k \in 2 .. Len(command) : command[k] = "secret" => command[k - 1] # "flag"
CommandsMasked == \A i \in 1 .. Len(log) : Unmasked(log[i].command)

TrailInv == TrailTyped /\ SettledOnce /\ RowOfCommand /\ CommandsMasked

LEMMA TrailInit == ASSUME Audit!ConstantsOK, Audit!Init PROVE TrailInv
<1>1. log = <<>> /\ issued = 0 /\ running = {} /\ dropped = {} /\ MaxCommands \in Nat
    BY DEF Audit!Init, Audit!ConstantsOK
<1>2. settled = [n \in 1 .. MaxCommands |-> Null]
    BY DEF Audit!Init
<1>3. Len(log) = 0 /\ log \in Seq(Entry) /\ 1 .. issued = {} /\ 1 .. Len(log) = {}
    BY <1>1
<1> QED BY <1>1, <1>2, <1>3 DEF TrailInv, TrailTyped, SettledOnce, RowOfCommand, CommandsMasked

\* An argument after a flag that is not a value is one.
AfterFlag(g, argv, i) == i > 1 /\ ~g[i - 1] /\ argv[i - 1] = "flag"

\* Of each of the first n arguments g says whether it is consumed as a value.
Consumes(g, argv, n) == \A i \in 0 .. n : g[i] <=> AfterFlag(g, argv, i)

LEMMA ConsumesExists ==
  ASSUME NEW argv
  PROVE  \A n \in Nat : \E g \in [0 .. n -> BOOLEAN] : Consumes(g, argv, n)
<1> DEFINE S == {n \in Nat : ~\E g \in [0 .. n -> BOOLEAN] : Consumes(g, argv, n)}
<1> SUFFICES ASSUME S # {} PROVE FALSE
    OBVIOUS
<1>1. PICK n \in S : \A m \in S : n <= m
    BY LeastNumber
<1>2. CASE n = 0
  <2> DEFINE h == [i \in 0 .. 0 |-> FALSE]
  <2>1. h \in [0 .. 0 -> BOOLEAN]
      OBVIOUS
  <2>2. \A i \in 0 .. 0 : i = 0 /\ h[i] = FALSE /\ ~(i > 1)
      OBVIOUS
  <2>3. Consumes(h, argv, 0)
      BY <2>2 DEF Consumes, AfterFlag
  <2> QED BY <1>1, <1>2, <2>1, <2>3
<1>3. CASE n # 0
  <2>1. n - 1 \in Nat /\ n - 1 \notin S /\ n \in Nat
      BY <1>1, <1>3
  <2>2. PICK g \in [0 .. n - 1 -> BOOLEAN] : Consumes(g, argv, n - 1)
      BY <2>1
  <2> DEFINE last == AfterFlag(g, argv, n)
             h == [i \in 0 .. n |-> IF i < n THEN g[i] ELSE last]
  <2>3. last \in BOOLEAN
      BY DEF AfterFlag
  <2> HIDE DEF last
  <2>4. h \in [0 .. n -> BOOLEAN]
      BY <2>1, <2>2, <2>3
  <2>5. \A i \in 0 .. n - 1 : h[i] = g[i]
      BY <2>1
  <2>6. h[n] = last
      BY <2>1
  <2> HIDE DEF h
  <2>7. \A i \in 0 .. n : i \in 0 .. n - 1 \/ i = n
      BY <2>1
  <2>8. \A i \in 0 .. n : i > 1 => i - 1 \in 0 .. n - 1
      BY <2>1
  <2>9. \A i \in 0 .. n : AfterFlag(h, argv, i) <=> AfterFlag(g, argv, i)
      BY <2>5, <2>8 DEF AfterFlag
  <2>10. Consumes(h, argv, n)
    <3>1. ASSUME NEW i \in 0 .. n PROVE h[i] <=> AfterFlag(h, argv, i)
      <4>1. CASE i \in 0 .. n - 1
          BY <2>2, <2>5, <2>9, <4>1, Zenon DEF Consumes
      <4>2. CASE i = n
          BY <2>6, <2>9, <4>2, Zenon DEF last
      <4> QED BY <2>7, <4>1, <4>2
    <3> QED BY <3>1 DEF Consumes
  <2> QED BY <1>1, <2>4, <2>10
<1> QED BY <1>2, <1>3

LEMMA MasksFollow ==
  ASSUME NEW argv \in Seq(Words)
  PROVE  \A k \in 2 .. Len(argv) : argv[k - 1] = "flag" =>
           k - 1 \in Audit!MasksAt(argv) \/ k \in Audit!MasksAt(argv)
<1> DEFINE E(g) == [i \in 0 .. Len(argv) |->
                      IF i = 0 THEN FALSE ELSE i > 1 /\ ~g[i - 1] /\ argv[i - 1] = "flag"]
           f == CHOOSE g : g = E(g)
<1>1. Audit!MasksAt(argv) = {i \in 1 .. Len(argv) : f[i]}
    BY DEF Audit!MasksAt
<1>2. Len(argv) \in Nat
    OBVIOUS
<1>3. PICK h \in [0 .. Len(argv) -> BOOLEAN] : Consumes(h, argv, Len(argv))
    BY <1>2, ConsumesExists
<1>4. h = E(h)
  <2>1. h = [i \in 0 .. Len(argv) |-> h[i]]
      OBVIOUS
  <2>2. \A i \in 0 .. Len(argv) : h[i] = AfterFlag(h, argv, i)
    <3>1. \A i \in 0 .. Len(argv) : h[i] \in BOOLEAN /\ AfterFlag(h, argv, i) \in BOOLEAN
        BY DEF AfterFlag
    <3> QED BY <1>3, <3>1, Zenon DEF Consumes
  <2>3. \A i \in 0 .. Len(argv) : AfterFlag(h, argv, i) =
          IF i = 0 THEN FALSE ELSE i > 1 /\ ~h[i - 1] /\ argv[i - 1] = "flag"
      BY <1>2 DEF AfterFlag
  <2> QED BY <2>1, <2>2, <2>3, Zenon
<1>5. f = E(f)
    BY <1>4, Zenon
<1> HIDE DEF f
<1>6. \A k \in 2 .. Len(argv) : f[k] = (k > 1 /\ ~f[k - 1] /\ argv[k - 1] = "flag")
  <2> SUFFICES ASSUME NEW k \in 2 .. Len(argv) PROVE f[k] = (k > 1 /\ ~f[k - 1] /\ argv[k - 1] = "flag")
      OBVIOUS
  <2>1. k \in 0 .. Len(argv) /\ k # 0
      BY <1>2
  <2>2. E(f)[k] = IF k = 0 THEN FALSE ELSE k > 1 /\ ~f[k - 1] /\ argv[k - 1] = "flag"
      BY <2>1, Zenon
  <2> QED BY <1>5, <2>1, <2>2, Zenon
<1> QED
  <2> SUFFICES ASSUME NEW k \in 2 .. Len(argv), argv[k - 1] = "flag", k - 1 \notin Audit!MasksAt(argv)
               PROVE  k \in Audit!MasksAt(argv)
      OBVIOUS
  <2>1. k > 1 /\ k - 1 \in 1 .. Len(argv) /\ k \in 1 .. Len(argv)
      BY <1>2
  <2>2. ~f[k - 1]
      BY <1>1, <2>1, Zenon
  <2>3. f[k]
      BY <1>6, <2>1, <2>2, Zenon
  <2> QED BY <1>1, <2>1, <2>3, Zenon

\* redactArgv keeps no sensitive value, in either spelling.
LEMMA Redacted ==
  ASSUME NEW argv \in Seq(Words)
  PROVE  Audit!redactArgv(argv) \in Seq(Masked) /\ Unmasked(Audit!redactArgv(argv))
<1> DEFINE r == Audit!redactArgv(argv)
<1>1. DOMAIN argv = 1 .. Len(argv) /\ Len(argv) \in Nat /\ \A i \in 1 .. Len(argv) : argv[i] \in Words
    OBVIOUS
<1>2. r = [i \in 1 .. Len(argv) |->
             IF i \in Audit!MasksAt(argv) THEN "[redacted]"
             ELSE IF argv[i] = "flag=secret" THEN "flag=[redacted]" ELSE argv[i]]
    BY <1>1 DEF Audit!redactArgv
<1> HIDE DEF r
<1>3. r \in [1 .. Len(argv) -> Masked]
    BY <1>1, <1>2 DEF Words, Masked
<1>4. r \in Seq(Masked) /\ Len(r) = Len(argv)
    BY <1>1, <1>3
<1>5. Unmasked(r)
  <2> SUFFICES ASSUME NEW k \in 2 .. Len(argv), r[k] = "secret", r[k - 1] = "flag" PROVE FALSE
      BY <1>4 DEF Unmasked
  <2>1. k \in 1 .. Len(argv) /\ k - 1 \in 1 .. Len(argv)
      BY <1>1
  <2>2. k \notin Audit!MasksAt(argv) /\ k - 1 \notin Audit!MasksAt(argv) /\ argv[k - 1] = "flag"
      BY <1>2, <2>1
  <2> QED BY <2>2, MasksFollow
<1> QED BY <1>4, <1>5 DEF r

LEMMA OutcomeTold ==
  ASSUME NEW how \in Audit!Methods, NEW result \in Audit!Results(how)
  PROVE  /\ result \in Audit!Answers /\ Audit!outcomeOf(how, result) \in Audit!Outcomes
         /\ Audit!outcomeOf(how, result) = "ok" <=> result = "code 0"
         /\ Audit!Throws(how, result) \in BOOLEAN
BY DEF Audit!Methods, Audit!Results, Audit!Answers, Audit!outcomeOf, Audit!fromError, Audit!Outcomes,
       Audit!Throws

LEMMA IssueStep ==
  ASSUME Audit!ConstantsOK, TrailInv, NEW client \in Clients, NEW argv \in Argvs, NEW how \in Calls,
         Audit!Issue(client, argv, how)
  PROVE  TrailInv'
<1> DEFINE c == [n |-> issued + 1, client |-> client, argv |-> argv, how |-> how]
<1>1. /\ issued < MaxCommands /\ issued' = issued + 1 /\ running' = running \cup {c}
      /\ UNCHANGED <<log, dropped, settled>> /\ MaxCommands \in Nat /\ issued \in Nat
    BY DEF Audit!Issue, TrailInv, TrailTyped, Audit!ConstantsOK
<1>2. 1 .. issued' = 1 .. issued \cup {issued + 1} /\ issued + 1 \notin 1 .. issued
      /\ issued + 1 \in 1 .. MaxCommands
    BY <1>1
<1>3. \A d \in running : d.n \in 1 .. issued
    BY DEF TrailInv, TrailTyped
<1>4. settled[issued + 1] = Null
    BY <1>1, <1>2 DEF TrailInv, SettledOnce
<1>5. c.n = issued + 1 /\ c \in running'
    BY <1>1
<1>6. TrailTyped'
  <2>1. running' \subseteq [n : 1 .. issued', client : Clients, argv : Argvs, how : Calls]
      BY <1>1, <1>2 DEF TrailInv, TrailTyped
  <2> QED BY <1>1, <1>2, <2>1 DEF TrailInv, TrailTyped
<1>7. SettledOnce'
  <2>1. \A d, e \in running' : d.n = e.n => d = e
      BY <1>1, <1>2, <1>3, <1>5 DEF TrailInv, SettledOnce
  <2>2. \A n \in 1 .. issued' : settled'[n] = Null <=> \E d \in running' : d.n = n
      BY <1>1, <1>2, <1>3, <1>4, <1>5 DEF TrailInv, SettledOnce
  <2>3. \A n \in 1 .. MaxCommands : n > issued' => settled'[n] = Null
      BY <1>1 DEF TrailInv, SettledOnce
  <2> QED BY <2>1, <2>2, <2>3 DEF SettledOnce
<1>8. RowOfCommand'
    BY <1>1, <1>2, <1>4 DEF TrailInv, RowOfCommand
<1>9. CommandsMasked'
    BY <1>1 DEF TrailInv, CommandsMasked
<1> QED BY <1>6, <1>7, <1>8, <1>9 DEF TrailInv

LEMMA SettleCommand ==
  ASSUME Audit!ConstantsOK, TrailInv, NEW c \in running, NEW result \in Audit!Results(c.how),
         Audit!Settle(c, result)
  PROVE  TrailInv'
<1> DEFINE told == [result |-> result, threw |-> Audit!Throws(c.how, result)]
           outcome == Audit!outcomeOf(c.how, result)
           row == [id |-> Len(log) + 1, client |-> c.client, command |-> Audit!redactArgv(c.argv),
                   outcome |-> outcome, of |-> c.n]
<1>1. /\ c.n \in 1 .. issued /\ c.client \in Clients /\ c.argv \in Argvs /\ c.how \in Calls
      /\ issued \in Nat /\ issued <= MaxCommands /\ MaxCommands \in Nat
      /\ log \in Seq(Entry) /\ Len(log) \in Nat
    BY DEF TrailInv, TrailTyped, Audit!ConstantsOK
<1>2. /\ running' = running \ {c} /\ issued' = issued
      /\ settled' = [settled EXCEPT ![c.n] = told]
      /\ \/ log' = Append(log, row) /\ dropped' = dropped
         \/ dropped' = dropped \cup {c.n} /\ log' = log
    BY DEF Audit!Settle, Audit!Recorded
<1>3. /\ c.how \in Audit!Methods /\ c.argv \in Seq(Words)
      /\ Null \notin [result : Audit!Answers, threw : BOOLEAN]
    BY <1>1 DEF Audit!ConstantsOK, Words
<1>4. /\ result \in Audit!Answers /\ Audit!Throws(c.how, result) \in BOOLEAN
      /\ outcome \in Audit!Outcomes /\ (outcome = "ok" <=> result = "code 0")
    BY <1>3, OutcomeTold
<1>5. told \in [result : Audit!Answers, threw : BOOLEAN] /\ told # Null /\ told.result = result
  <2>1. \A a \in Audit!Answers : \A t \in BOOLEAN :
          [result |-> a, threw |-> t] \in [result : Audit!Answers, threw : BOOLEAN]
      OBVIOUS
  <2>2. told \in [result : Audit!Answers, threw : BOOLEAN]
      BY <1>4, <2>1, Zenon
  <2>3. told.result = result
      OBVIOUS
  <2> QED BY <1>3, <2>2, <2>3, Zenon
<1>6. row \in Entry /\ row.of = c.n /\ row.outcome = outcome /\ Unmasked(row.command)
  <2> DEFINE command == Audit!redactArgv(c.argv)
  <2>1. command \in Seq(Masked) /\ Unmasked(command)
      BY <1>3, Redacted
  <2>2. row.of = c.n /\ row.outcome = outcome /\ row.command = command
      OBVIOUS
  <2> HIDE DEF command, outcome
  <2>3. [id |-> Len(log) + 1, client |-> c.client, command |-> command, outcome |-> outcome, of |-> c.n]
          \in Entry
    <3>1. \A i, of \in Nat : \A client \in Clients : \A out \in Audit!Outcomes : \A com \in Seq(Masked) :
            [id |-> i, client |-> client, command |-> com, outcome |-> out, of |-> of] \in Entry
        BY DEF Entry
    <3>2. Len(log) + 1 \in Nat /\ c.n \in Nat
        BY <1>1
    <3> QED BY <1>1, <1>4, <2>1, <3>1, <3>2, Zenon
  <2>4. row \in Entry
      BY <2>3 DEF command
  <2> QED BY <2>1, <2>2, <2>4
<1>7. settled[c.n] = Null /\ c.n \in 1 .. MaxCommands
    BY <1>1 DEF TrailInv, SettledOnce
<1> HIDE DEF told, row, outcome
<1>8. /\ settled' \in [1 .. MaxCommands -> {Null} \cup [result : Audit!Answers, threw : BOOLEAN]]
      /\ settled'[c.n] = told
      /\ \A n \in 1 .. MaxCommands : n # c.n => settled'[n] = settled[n]
    BY <1>2, <1>5, <1>7 DEF TrailInv, TrailTyped
<1>9. \A n \in 1 .. issued : n \in 1 .. MaxCommands
    BY <1>1
<1>10. SettledOnce'
  <2>1. \A n \in 1 .. issued : settled'[n] = Null <=> \E d \in running' : d.n = n
    <3> SUFFICES ASSUME NEW n \in 1 .. issued PROVE settled'[n] = Null <=> \E d \in running' : d.n = n
        OBVIOUS
    <3>1. CASE n = c.n
        BY <1>2, <1>5, <1>8, <3>1 DEF TrailInv, SettledOnce
    <3>2. CASE n # c.n
        BY <1>2, <1>8, <1>9, <3>2 DEF TrailInv, SettledOnce
    <3> QED BY <3>1, <3>2
  <2>2. \A n \in 1 .. MaxCommands : n > issued => settled'[n] = Null
      BY <1>1, <1>8 DEF TrailInv, SettledOnce
  <2> QED BY <1>2, <2>1, <2>2 DEF TrailInv, SettledOnce
<1>11. \A n \in dropped : n # c.n /\ n \in 1 .. issued
    BY <1>7 DEF TrailInv, TrailTyped, RowOfCommand
<1>12. \A i \in 1 .. Len(log) : log[i].of # c.n /\ log[i].of \in 1 .. issued
    BY <1>7 DEF TrailInv, RowOfCommand
<1>13. CASE log' = Append(log, row) /\ dropped' = dropped
  <2>1. /\ log' \in Seq(Entry) /\ Len(log') = Len(log) + 1 /\ log'[Len(log) + 1] = row
        /\ \A i \in 1 .. Len(log) : log'[i] = log[i]
        /\ 1 .. Len(log') = 1 .. Len(log) \cup {Len(log) + 1}
      BY <1>1, <1>6, <1>13
  <2>2. TrailTyped'
      BY <1>2, <1>8, <1>13, <2>1 DEF TrailInv, TrailTyped
  <2>3. RowOfCommand'
    <3>0. \A i \in 1 .. Len(log) : log'[i].of = log[i].of /\ log'[i].outcome = log[i].outcome
        BY <2>1
    <3>1. \A i \in 1 .. Len(log') :
            /\ log'[i].of \in 1 .. issued /\ log'[i].of \notin dropped /\ settled'[log'[i].of] # Null
            /\ Tells(log'[i], settled'[log'[i].of])
      <4>1. \A i \in 1 .. Len(log) : settled'[log[i].of] = settled[log[i].of]
          BY <1>8, <1>9, <1>12
      <4>2. \A i \in 1 .. Len(log) :
              /\ log'[i].of \in 1 .. issued /\ log'[i].of \notin dropped /\ settled'[log'[i].of] # Null
              /\ Tells(log'[i], settled'[log'[i].of])
          BY <2>1, <3>0, <4>1 DEF TrailInv, RowOfCommand
      <4>3. /\ row.of \in 1 .. issued /\ row.of \notin dropped /\ settled'[row.of] # Null
            /\ Tells(row, settled'[row.of])
          BY <1>1, <1>4, <1>5, <1>6, <1>8, <1>11 DEF Tells
      <4> QED BY <2>1, <4>2, <4>3
    <3>2. \A i, j \in 1 .. Len(log') : log'[i].of = log'[j].of => i = j
      <4>1. log'[Len(log) + 1].of = c.n
          BY <1>6, <2>1
      <4>2. \A i, j \in 1 .. Len(log) : log'[i].of = log'[j].of => i = j
          BY <3>0 DEF TrailInv, RowOfCommand
      <4>3. \A i \in 1 .. Len(log) : log'[i].of # c.n
          BY <1>12, <3>0
      <4> QED BY <2>1, <4>1, <4>2, <4>3
    <3>3. \A n \in dropped : settled'[n] # Null
        BY <1>8, <1>9, <1>11 DEF TrailInv, RowOfCommand
    <3>4. \A n \in 1 .. issued : settled'[n] # Null /\ n \notin dropped =>
                                   \E i \in 1 .. Len(log') : log'[i].of = n
      <4> SUFFICES ASSUME NEW n \in 1 .. issued, settled'[n] # Null, n \notin dropped
                   PROVE  \E i \in 1 .. Len(log') : log'[i].of = n
          OBVIOUS
      <4>1. CASE n = c.n
          BY <1>6, <2>1, <4>1
      <4>2. CASE n # c.n
        <5>1. settled[n] # Null
            BY <1>8, <1>9, <4>2
        <5>2. PICK i \in 1 .. Len(log) : log[i].of = n
            BY <5>1 DEF TrailInv, RowOfCommand
        <5> QED BY <2>1, <3>0, <5>2
      <4> QED BY <4>1, <4>2
    <3> QED BY <1>2, <1>13, <3>1, <3>2, <3>3, <3>4 DEF RowOfCommand, Tells
  <2>4. CommandsMasked'
    <3>1. \A i \in 1 .. Len(log') : Unmasked(log'[i].command)
        BY <1>6, <2>1 DEF TrailInv, CommandsMasked
    <3> QED BY <3>1 DEF CommandsMasked, Unmasked
  <2> QED BY <1>10, <2>2, <2>3, <2>4 DEF TrailInv
<1>14. CASE dropped' = dropped \cup {c.n} /\ log' = log
  <2>1. TrailTyped'
      BY <1>1, <1>2, <1>8, <1>14 DEF TrailInv, TrailTyped
  <2>2. RowOfCommand'
    <3>1. \A i \in 1 .. Len(log) : settled'[log[i].of] = settled[log[i].of]
        BY <1>8, <1>9, <1>12
    <3>2. \A i \in 1 .. Len(log) :
            /\ log[i].of \in 1 .. issued /\ log[i].of \notin dropped' /\ settled'[log[i].of] # Null
            /\ Tells(log[i], settled'[log[i].of])
        BY <1>12, <1>14, <3>1 DEF TrailInv, RowOfCommand
    <3>3. \A n \in dropped' : settled'[n] # Null
        BY <1>5, <1>8, <1>9, <1>11, <1>14 DEF TrailInv, RowOfCommand
    <3>4. \A n \in 1 .. issued : settled'[n] # Null /\ n \notin dropped' =>
                                   \E i \in 1 .. Len(log) : log[i].of = n
        BY <1>8, <1>9, <1>14 DEF TrailInv, RowOfCommand
    <3>5. \A i, j \in 1 .. Len(log) : log[i].of = log[j].of => i = j
        BY DEF TrailInv, RowOfCommand
    <3> QED BY <1>2, <1>14, <3>2, <3>3, <3>4, <3>5 DEF RowOfCommand, Tells
  <2>3. CommandsMasked'
      BY <1>14 DEF TrailInv, CommandsMasked, Unmasked
  <2> QED BY <1>10, <2>1, <2>2, <2>3 DEF TrailInv
<1> QED BY <1>2, <1>13, <1>14

LEMMA TrailStepInv ==
  ASSUME Audit!ConstantsOK, TrailInv, [Audit!Next]_(Audit!vars)
  PROVE  TrailInv'
<1>1. CASE UNCHANGED Audit!trailVars
    BY <1>1 DEF Audit!trailVars, TrailInv, TrailTyped, SettledOnce, RowOfCommand, Tells, CommandsMasked, Unmasked
<1>2. ASSUME NEW client \in Clients, NEW argv \in Argvs, NEW how \in Calls,
             Audit!Issue(client, argv, how)
      PROVE  TrailInv'
    BY <1>2, IssueStep
<1>3. ASSUME NEW c \in running, NEW result \in Audit!Results(c.how), Audit!Settle(c, result)
      PROVE  TrailInv'
    BY <1>3, SettleCommand
<1>4. UNCHANGED Audit!vars => UNCHANGED Audit!trailVars
    BY DEF Audit!vars, Audit!trailVars
<1>5. (\E f \in Audit!Filters : Audit!EditFilter(f)) \/ Audit!Load \/ Audit!LoadMore
        \/ (\E r \in asked : Audit!Answer(r) \/ Audit!AnswerFails(r)) => UNCHANGED Audit!trailVars
    BY DEF Audit!EditFilter, Audit!Load, Audit!LoadMore, Audit!Answer, Audit!AnswerFails
<1> QED BY <1>1, <1>2, <1>3, <1>4, <1>5 DEF Audit!Next

\* The instance has its own name for the library's Cardinality.
LEMMA AuditCardinality == \A S : Audit!Cardinality(S) = Cardinality(S)
BY DEF Audit!Cardinality, Cardinality

RowsOf(n) == {i \in DOMAIN log : log[i].of = n}

LEMMA TrailInvSound ==
  ASSUME Audit!ConstantsOK, TrailInv
  PROVE  Audit!AuditSound
<1>1. DOMAIN log = 1 .. Len(log) /\ \A i \in 1 .. Len(log) : log[i] \in Entry
    BY DEF TrailInv, TrailTyped
<1>2. Audit!OneRowPerCommand
  <2> SUFFICES ASSUME NEW n \in 1 .. issued
               PROVE  /\ (\E c \in running : c.n = n) <=> settled[n] = Null
                      /\ settled[n] = Null => RowsOf(n) = {}
                      /\ settled[n] # Null =>
                           /\ Audit!Cardinality(RowsOf(n)) = IF n \in dropped THEN 0 ELSE 1
                           /\ \A i \in RowsOf(n) : Tells(log[i], settled[n])
      BY DEF Audit!OneRowPerCommand, RowsOf, Tells
  <2>1. (\E c \in running : c.n = n) <=> settled[n] = Null
      BY DEF TrailInv, SettledOnce
  <2>0. \A i \in RowsOf(n) : i \in 1 .. Len(log) /\ log[i].of = n
      BY <1>1 DEF RowsOf
  <2>2. \A i \in RowsOf(n) : n \notin dropped /\ settled[n] # Null /\ Tells(log[i], settled[n])
      BY <2>0 DEF TrailInv, RowOfCommand
  <2>3. CASE n \in dropped
    <3>1. RowsOf(n) = {}
        BY <2>2, <2>3
    <3>2. Audit!Cardinality(RowsOf(n)) = 0
        BY <3>1, FS_EmptySet, AuditCardinality
    <3> QED BY <2>1, <2>3, <3>1, <3>2
  <2>4. CASE n \notin dropped /\ settled[n] # Null
    <3>1. PICK i \in 1 .. Len(log) : log[i].of = n
        BY <2>4 DEF TrailInv, RowOfCommand
    <3>2. RowsOf(n) = {i}
        BY <1>1, <3>1 DEF TrailInv, RowOfCommand, RowsOf
    <3>3. Audit!Cardinality(RowsOf(n)) = 1
        BY <3>2, FS_Singleton, AuditCardinality
    <3> QED BY <2>1, <2>2, <2>4, <3>3
  <2>5. CASE settled[n] = Null
    <3>1. RowsOf(n) = {}
        BY <2>2, <2>5
    <3> QED BY <2>1, <2>5, <3>1
  <2> QED BY <2>3, <2>4, <2>5
<1>3. Audit!SecretsMasked
  <2> SUFFICES ASSUME NEW i \in 1 .. Len(log), NEW k \in DOMAIN log[i].command
               PROVE  /\ log[i].command[k] # "flag=secret"
                      /\ log[i].command[k] = "secret" => k = 1 \/ log[i].command[k - 1] # "flag"
      BY <1>1 DEF Audit!SecretsMasked
  <2>1. log[i].command \in Seq(Masked)
      BY <1>1 DEF Entry
  <2>2. k \in 1 .. Len(log[i].command) /\ log[i].command[k] \in Masked
      BY <2>1
  <2>3. k = 1 \/ k \in 2 .. Len(log[i].command)
      BY <2>1, <2>2
  <2> QED BY <2>2, <2>3 DEF TrailInv, CommandsMasked, Unmasked, Masked
<1> QED BY <1>2, <1>3 DEF Audit!AuditSound

(* ---- the clients page ---- *)

\* The instance has its own name for the library's Cardinality.
LEMMA HealthCardinality == \A S : Health!Cardinality(S) = Cardinality(S) /\ (Health!IsFiniteSet(S) <=> IsFiniteSet(S))
BY DEF Health!Cardinality, Cardinality, Health!IsFiniteSet, IsFiniteSet

Count == Cardinality(Clients)

LEMMA ClientsAre ==
  ASSUME Health!ConstantsOK
  PROVE  /\ IsFiniteSet(Clients) /\ Count \in Nat /\ Clients = 1 .. Count
         /\ Health!Cardinality(Clients) = Count /\ Health!runnerCount = Concurrency
         /\ Concurrency \in Nat \ {0}
BY HealthCardinality, FS_CardinalityType DEF Health!ConstantsOK, Health!runnerCount, Count

\* A list waits only for clients it has taken, and every other it has taken has an entry.
ListKept(l) ==
  /\ lists[l] = [state |-> lists[l].state, cursor |-> lists[l].cursor, racing |-> lists[l].racing,
                 results |-> lists[l].results]
  /\ lists[l].cursor \in 0 .. Count /\ lists[l].racing \subseteq 1 .. lists[l].cursor
  /\ lists[l].state = "idle" => lists[l].cursor = 0
  /\ lists[l].state # "idle" => lists[l].results = [c \in Clients |-> lists[l].results[c]]
  /\ \A c \in 1 .. lists[l].cursor : c \notin lists[l].racing => lists[l].results[c] # Null
  /\ lists[l].state = "answered" => lists[l].racing = {} /\ lists[l].cursor = Count
  /\ Cardinality(lists[l].racing) <= Concurrency

\* Before its deadline a list waits for each probe it runs, and it runs one per client.
ProbeKept(p) ==
  /\ p = [list |-> p.list, client |-> p.client, at |-> p.at, step |-> p.step]
  /\ p.list \in Lists /\ p.client \in 1 .. lists[p.list].cursor
  /\ p.at \in Nat /\ p.at <= now /\ p.step \in Nat \ {0}
  /\ p.list \notin due => p.client \in lists[p.list].racing

ListingsKept ==
  /\ now \in Nat
  /\ lists = [l \in Lists |-> lists[l]]
  /\ \A l \in Lists : ListKept(l)
  /\ \A p \in probes : ProbeKept(p)
  /\ \A p, q \in probes : p.list = q.list /\ p.client = q.client => p = q

\* The part of a run of components that reached the client.
Reached(p) == \E i \in 1 .. Len(Components) : i < p.step /\ Components[i] # "deferred"

ColumnsTyped ==
  /\ rows \in [Clients -> [lastSeen : Nat, verifiedAt : Nat, reachable : BOOLEAN \cup {Null}, reason : {Null, "ssh"}]]
  /\ hist \in [Clients -> [answered : Nat, overlapped : BOOLEAN]]

RowTimes(c) ==
  /\ rows[c].verifiedAt <= now /\ hist[c].answered <= now
  /\ rows[c].lastSeen <= hist[c].answered
  /\ rows[c].reachable = TRUE /\ hist[c].overlapped = FALSE => rows[c].verifiedAt <= rows[c].lastSeen

RowVerdict(c) ==
  /\ rows[c].reachable = TRUE => rows[c].reason = Null
  /\ rows[c].reachable = FALSE => rows[c].reason # Null

RowKept(c) == RowTimes(c) /\ RowVerdict(c)

CheckKept(v) ==
  v = [client |-> v.client, at |-> v.at] /\ v.client \in Clients /\ v.at \in Nat /\ v.at <= now

\* What a sighting will record is known when it begins: it is older than the client's
\* answer, and while none overlapped no check ends between a probe's start and its end.
Sighted(p) ==
  /\ Reached(p) => p.at <= hist[p.client].answered
  /\ hist[p.client].overlapped = FALSE =>
       rows[p.client].verifiedAt <= p.at /\ (\A v \in checks : v.client # p.client)

SightingsKept ==
  /\ ColumnsTyped
  /\ \A c \in Clients : RowKept(c)
  /\ \A v \in checks : CheckKept(v)
  /\ \A p \in probes : Sighted(p)

HealthInv == ListingsKept /\ SightingsKept

LEMMA HealthInit ==
  ASSUME Health!ConstantsOK, Health!Init
  PROVE  HealthInv
<1>1. Cardinality({}) = 0 /\ IsFiniteSet({})
    BY FS_EmptySet
<1>2. ListingsKept
  <2>1. now = 1 /\ probes = {} /\ lists = [l \in Lists |-> lists[l]]
      BY DEF Health!Init
  <2>2. \A l \in Lists : lists[l] = [state |-> "idle", cursor |-> 0, racing |-> {}, results |-> <<>>]
      BY DEF Health!Init
  <2>3. 0 \in 0 .. Count /\ 1 .. 0 = {} /\ Cardinality({}) <= Concurrency
      BY <1>1, ClientsAre
  <2>4. ASSUME NEW l \in Lists PROVE ListKept(l)
    <3>1. /\ lists[l].state = "idle" /\ lists[l].cursor = 0 /\ lists[l].racing = {} /\ lists[l].results = <<>>
          /\ lists[l] = [state |-> "idle", cursor |-> 0, racing |-> {}, results |-> <<>>]
        BY <2>2
    <3> QED BY <2>3, <3>1 DEF ListKept
  <2> QED BY <2>1, <2>4 DEF ListingsKept
<1>3. SightingsKept
  <2>1. ColumnsTyped /\ probes = {} /\ checks = {} /\ now = 1
      BY DEF Health!Init, ColumnsTyped
  <2>2. ASSUME NEW c \in Clients PROVE RowKept(c)
    <3>1. /\ rows[c].lastSeen = 0 /\ rows[c].verifiedAt = 0 /\ rows[c].reachable = Null /\ hist[c].answered = 0
          /\ Null \notin BOOLEAN
        BY DEF Health!Init, Health!ConstantsOK
    <3>2. rows[c].reachable # TRUE /\ rows[c].reachable # FALSE
        BY <3>1, Zenon
    <3>3. RowTimes(c)
        BY <2>1, <3>1, <3>2 DEF RowTimes
    <3>4. RowVerdict(c)
        BY <3>2 DEF RowVerdict
    <3> QED BY <3>3, <3>4 DEF RowKept
  <2> QED BY <2>1, <2>2 DEF SightingsKept
<1> QED BY <1>2, <1>3 DEF HealthInv

LEMMA ListFacts ==
  ASSUME Health!ConstantsOK, NEW l, ListKept(l)
  PROVE  /\ 1 .. lists[l].cursor \subseteq Clients /\ lists[l].racing \subseteq Clients
         /\ IsFiniteSet(lists[l].racing) /\ Cardinality(lists[l].racing) \in Nat
         /\ Health!Cardinality(lists[l].racing) = Cardinality(lists[l].racing)
<1>1. 1 .. lists[l].cursor \subseteq Clients /\ lists[l].racing \subseteq Clients
    BY ClientsAre DEF ListKept
<1> QED BY <1>1, ClientsAre, FS_Subset, FS_CardinalityType, HealthCardinality

\* One list moves, and the probes with it.
LEMMA ListMoves ==
  ASSUME ListingsKept, NEW l \in Lists, UNCHANGED now,
         lists' = [m \in Lists |-> lists'[m]], \A m \in Lists \ {l} : lists'[m] = lists[m],
         ListKept(l)', \A p \in probes' : ProbeKept(p)',
         \A p, q \in probes' : p.list = q.list /\ p.client = q.client => p = q
  PROVE  ListingsKept'
BY DEF ListingsKept, ListKept

\* A probe is over, and the list that waits for it has its entry.
LEMMA SettleStep ==
  ASSUME Health!ConstantsOK, ListingsKept, NEW p \in probes, NEW entry \in {"online", "offline", "unknown"},
         Health!settle(p, entry), UNCHANGED <<now, due>>
  PROVE  ListingsKept'
<1>1. p.list \in Lists /\ ProbeKept(p) /\ ListKept(p.list)
    BY DEF ListingsKept, ProbeKept
<1>2. \A q \in probes' : q \in probes /\ ProbeKept(q) /\ (q.list = p.list => q.client # p.client)
    BY DEF ListingsKept, Health!settle
<1>3. CASE p.client \notin lists[p.list].racing
    BY <1>2, <1>3 DEF Health!settle, ListingsKept, ListKept, ProbeKept
<1>4. CASE p.client \in lists[p.list].racing
  <2> DEFINE l == p.list
             c == p.client
             was == lists[l]
  <2>1. lists' = [lists EXCEPT ![l].racing = @ \ {c}, ![l].results = [@ EXCEPT ![c] = entry]]
      BY <1>4 DEF Health!settle
  <2>2. /\ lists' = [m \in Lists |-> lists'[m]] /\ \A m \in Lists \ {l} : lists'[m] = lists[m]
        /\ lists'[l] = [state |-> was.state, cursor |-> was.cursor, racing |-> was.racing \ {c},
                        results |-> [was.results EXCEPT ![c] = entry]]
      BY <2>1, <1>1 DEF ListingsKept, ListKept
  <2>3. c \in 1 .. was.cursor /\ c \in Clients /\ was.state # "idle"
      BY <1>1, ListFacts DEF ProbeKept, ListKept
  <2>4. \A d \in Clients : lists'[l].results[d] = (IF d = c THEN entry ELSE was.results[d])
      BY <2>2, <2>3, <1>1 DEF ListKept
  <2>5. lists'[l].results = [d \in Clients |-> lists'[l].results[d]]
      BY <2>2, <2>3, <1>1 DEF ListKept
  <2>6. Cardinality(was.racing \ {c}) <= Concurrency
      BY <1>1, ListFacts, ClientsAre, FS_Subset, FS_CardinalityType DEF ListKept
  <2>7. entry # Null
      BY DEF Health!ConstantsOK
  <2>8. ListKept(l)'
      BY <1>1, <2>2, <2>4, <2>5, <2>6, <2>7, ListFacts DEF ListKept
  <2>9. \A q \in probes' : ProbeKept(q)'
      BY <1>2, <2>2 DEF ProbeKept
  <2> QED BY <1>1, <1>2, <2>2, <2>8, <2>9, ListMoves DEF ListingsKept
<1> QED BY <1>3, <1>4

LEMMA ListsStep ==
  ASSUME Health!ConstantsOK, HealthInv, Health!Next \/ UNCHANGED Health!vars
  PROVE  ListingsKept'
<1> USE DEF HealthInv
<1>0. CASE UNCHANGED <<lists, due, probes>> /\ now' \in Nat /\ now <= now'
    BY <1>0 DEF ListingsKept, ListKept, ProbeKept
<1>1. ASSUME NEW p \in probes, Health!probeAnswers(p) PROVE ListingsKept'
  <2>1. ProbeKept(p)
      BY DEF ListingsKept
  <2>2. PICK q : /\ q = [list |-> p.list, client |-> p.client, at |-> p.at, step |-> p.step + 1]
                 /\ probes' = (probes \ {p}) \cup {q}
    <3>1. [p EXCEPT !.step = @ + 1] = [list |-> p.list, client |-> p.client, at |-> p.at, step |-> p.step + 1]
        BY <2>1 DEF ProbeKept
    <3> QED BY <1>1, <3>1 DEF Health!probeAnswers
  <2>3. UNCHANGED <<now, lists, due>>
      BY <1>1 DEF Health!probeAnswers
  <2>4. ProbeKept(q)'
      BY <2>1, <2>2, <2>3 DEF ProbeKept
  <2>5. \A r, s \in probes' : r.list = s.list /\ r.client = s.client => r = s
      BY <2>2 DEF ListingsKept
  <2> QED BY <2>2, <2>3, <2>4, <2>5 DEF ListingsKept, ListKept, ProbeKept
<1>2. ASSUME NEW p \in probes, Health!probeEnds(p) \/ Health!probeFails(p) \/ Health!probeThrows(p) PROVE ListingsKept'
    BY <1>2, SettleStep DEF Health!probeEnds, Health!probeFails, Health!probeThrows
<1>3. ASSUME NEW l \in Lists, Health!ListStarts(l) PROVE ListingsKept'
  <2>1. /\ lists' = [m \in Lists |-> lists'[m]] /\ \A m \in Lists \ {l} : lists'[m] = lists[m]
        /\ lists'[l] = [state |-> "running", cursor |-> 0, racing |-> {}, results |-> [c \in Clients |-> Null]]
        /\ lists[l].cursor = 0 /\ UNCHANGED <<now, due, probes>>
      BY <1>3 DEF Health!ListStarts, ListingsKept, ListKept
  <2>2. ListKept(l)'
      BY <2>1, ClientsAre, FS_EmptySet DEF ListKept
  <2>3. \A p \in probes : p.list # l
      BY <2>1 DEF ListingsKept, ProbeKept
  <2>4. \A p \in probes' : ProbeKept(p)'
      BY <2>1, <2>3 DEF ListingsKept, ProbeKept
  <2> QED BY <2>1, <2>2, <2>4, ListMoves DEF ListingsKept
<1>4. ASSUME NEW l \in Lists, Health!RunnerTakes(l) PROVE ListingsKept'
  <2> DEFINE c == lists[l].cursor + 1
             was == lists[l]
  <2>0. ListKept(l)
      BY DEF ListingsKept
  <2>1. /\ lists' = [m \in Lists |-> lists'[m]] /\ \A m \in Lists \ {l} : lists'[m] = lists[m]
        /\ lists'[l] = [state |-> was.state, cursor |-> c, racing |-> was.racing \cup {c}, results |-> was.results]
        /\ was.state = "running" /\ Cardinality(was.racing) < Concurrency /\ was.cursor < Count
        /\ probes' = probes \cup {[list |-> l, client |-> c, at |-> now, step |-> 1]} /\ UNCHANGED <<now, due>>
      BY <1>4, <2>0, ClientsAre, ListFacts DEF Health!RunnerTakes, ListingsKept, ListKept
  <2>2. c \in 1 .. Count /\ \A d \in 1 .. c : d = c \/ d \in 1 .. was.cursor
      BY <2>0, <2>1, ClientsAre DEF ListKept
  <2>3. Cardinality(was.racing \cup {c}) <= Concurrency
    <3>1. Cardinality(was.racing \cup {c}) \in {Cardinality(was.racing), Cardinality(was.racing) + 1}
        BY <2>0, ListFacts, FS_AddElement
    <3>2. Cardinality(was.racing) \in Nat /\ Cardinality(was.racing) < Concurrency /\ Concurrency \in Nat
        BY <2>0, <2>1, ClientsAre, ListFacts
    <3> QED BY <3>1, <3>2
  <2>4. ListKept(l)'
      BY <2>0, <2>1, <2>2, <2>3, ClientsAre DEF ListKept
  <2>5. \A p \in probes : p.list = l => p.client # c
      BY <2>0 DEF ListingsKept, ListKept, ProbeKept
  <2>p. PICK new : new = [list |-> l, client |-> c, at |-> now, step |-> 1] /\ probes' = probes \cup {new}
      BY <2>1
  <2>6. ProbeKept(new)'
    <3>1. new.list = l /\ new.client = c /\ new.at = now /\ new.step = 1 /\ now \in Nat /\ c \in 1 .. c
        BY <2>2, <2>p DEF ListingsKept
    <3>2. lists'[l].cursor = c /\ c \in lists'[l].racing
        BY <2>1
    <3>3. now' = now
        BY <2>1
    <3> HIDE DEF c
    <3> QED BY <2>p, <3>1, <3>2, <3>3 DEF ProbeKept
  <2>7. \A p \in probes : ProbeKept(p)'
      BY <2>0, <2>1, SMTT(30) DEF ProbeKept, ListingsKept, ListKept
  <2>8. \A p, q \in probes' : p.list = q.list /\ p.client = q.client => p = q
      BY <2>p, <2>5 DEF ListingsKept
  <2>9. \A p \in probes' : ProbeKept(p)'
      BY <2>p, <2>6, <2>7
  <2> QED BY <2>1, <2>4, <2>8, <2>9, ListMoves
<1>5. ASSUME NEW l \in Lists, Health!Deadline(l) PROVE ListingsKept'
    BY <1>5 DEF Health!Deadline, ListingsKept, ListKept, ProbeKept
<1>6. ASSUME NEW l \in Lists, NEW c \in Clients, Health!TimedOut(l, c) PROVE ListingsKept'
  <2> DEFINE was == lists[l]
  <2>0. ListKept(l)
      BY DEF ListingsKept
  <2>1. was.state # "idle" /\ l \in due /\ UNCHANGED <<now, due, probes>>
      BY <1>6, <2>0 DEF Health!TimedOut, ListKept
  <2>2. /\ lists' = [m \in Lists |-> lists'[m]] /\ \A m \in Lists \ {l} : lists'[m] = lists[m]
        /\ lists'[l] = [state |-> was.state, cursor |-> was.cursor, racing |-> was.racing \ {c},
                        results |-> [was.results EXCEPT ![c] = "unknown"]]
      BY <1>6, <2>0 DEF Health!TimedOut, ListingsKept, ListKept
  <2>4. \A d \in Clients : lists'[l].results[d] = (IF d = c THEN "unknown" ELSE was.results[d])
      BY <2>0, <2>1, <2>2 DEF ListKept
  <2>5. lists'[l].results = [d \in Clients |-> lists'[l].results[d]]
      BY <2>0, <2>1, <2>2 DEF ListKept
  <2>6. Cardinality(was.racing \ {c}) <= Concurrency
      BY <2>0, ListFacts, ClientsAre, FS_Subset, FS_CardinalityType DEF ListKept
  <2>7. "unknown" # Null
      BY DEF Health!ConstantsOK
  <2>8. ListKept(l)'
      BY <2>0, <2>2, <2>4, <2>5, <2>6, <2>7, ListFacts DEF ListKept
  <2>9. \A p \in probes' : ProbeKept(p)'
      BY <2>1, <2>2 DEF ListingsKept, ProbeKept
  <2> QED BY <2>1, <2>2, <2>8, <2>9, ListMoves DEF ListingsKept
<1>7. ASSUME NEW l \in Lists, Health!ListAnswers(l) PROVE ListingsKept'
  <2>0. ListKept(l) /\ UNCHANGED <<now, due, probes>>
      BY <1>7 DEF ListingsKept, Health!ListAnswers
  <2>1. /\ lists' = [m \in Lists |-> lists'[m]] /\ \A m \in Lists \ {l} : lists'[m] = lists[m]
        /\ lists'[l] = [state |-> "answered", cursor |-> lists[l].cursor, racing |-> lists[l].racing,
                        results |-> lists[l].results]
        /\ lists[l].state = "running" /\ lists[l].racing = {} /\ lists[l].cursor = Count
      BY <1>7, <2>0, ClientsAre DEF Health!ListAnswers, ListingsKept, ListKept
  <2>2. ListKept(l)'
      BY <2>0, <2>1 DEF ListKept
  <2>3. \A p \in probes' : ProbeKept(p)'
      BY <2>0, <2>1 DEF ListingsKept, ProbeKept
  <2> QED BY <2>0, <2>1, <2>2, <2>3, ListMoves DEF ListingsKept
<1> QED
  <2>1. ASSUME NEW v \in checks, NEW ok \in BOOLEAN, Health!VerifyEnds(v, ok) PROVE ListingsKept'
      BY <2>1, <1>0 DEF Health!VerifyEnds, ListingsKept
  <2>2. ASSUME NEW c \in Clients, Health!VerifyStarts(c) \/ Health!StreamSeen(c) PROVE ListingsKept'
      BY <2>2, <1>0 DEF Health!VerifyStarts, Health!StreamSeen, ListingsKept
  <2>3. CASE Health!Tick \/ UNCHANGED Health!vars
      BY <2>3, <1>0 DEF Health!Tick, Health!vars, ListingsKept
  <2> QED BY <1>1, <1>2, <1>3, <1>4, <1>5, <1>6, <1>7, <2>1, <2>2, <2>3 DEF Health!Next

\* A client's columns, when a sighting of it begins or is recorded.
\* A client whose columns stay, as time passes; and one that is sighted, or of which a
\* sighting begins.
LEMMA RowStays ==
  ASSUME NEW c, RowKept(c), rows'[c] = rows[c], hist'[c] = hist[c],
         now \in Nat, now' \in Nat, now <= now', ColumnsTyped, c \in Clients
  PROVE  RowKept(c)'
<1>1. rows[c].verifiedAt \in Nat /\ hist[c].answered \in Nat
    BY DEF ColumnsTyped
<1> QED BY <1>1 DEF RowKept, RowTimes, RowVerdict

\* Records with some fields replaced.
LEMMA AnsweredAt ==
  ASSUME NEW h \in [answered : Nat, overlapped : BOOLEAN], NEW a \in Nat
  PROVE  [h EXCEPT !.answered = a] = [answered |-> a, overlapped |-> h.overlapped]
<1> DEFINE r == [h EXCEPT !.answered = a]
<1>1. r \in [answered : Nat, overlapped : BOOLEAN] /\ r.overlapped = h.overlapped /\ r.answered = a
    OBVIOUS
<1> HIDE DEF r
<1>2. r = [answered |-> r.answered, overlapped |-> r.overlapped]
    BY <1>1
<1> QED BY <1>1, <1>2

LEMMA OverlappedAt ==
  ASSUME NEW h \in [answered : Nat, overlapped : BOOLEAN], NEW o \in BOOLEAN
  PROVE  [h EXCEPT !.overlapped = o] = [answered |-> h.answered, overlapped |-> o]
<1> DEFINE r == [h EXCEPT !.overlapped = o]
<1>1. r \in [answered : Nat, overlapped : BOOLEAN] /\ r.overlapped = o /\ r.answered = h.answered
    OBVIOUS
<1> HIDE DEF r
<1>2. r = [answered |-> r.answered, overlapped |-> r.overlapped]
    BY <1>1
<1> QED BY <1>1, <1>2

\* A sighting that ends or begins leaves the others what they were.
LEMMA StillSighted ==
  ASSUME NEW p, Sighted(p), p.at \in Nat, checks' \subseteq checks,
         hist[p.client].answered \in Nat, hist'[p.client].answered \in Nat,
         hist[p.client].answered <= hist'[p.client].answered,
         hist'[p.client].overlapped = FALSE => hist[p.client].overlapped = FALSE,
         rows'[p.client].verifiedAt = rows[p.client].verifiedAt
  PROVE  Sighted(p)'
BY DEF Sighted, Reached

LEMMA SightStep ==
  ASSUME Health!ConstantsOK, HealthInv, Health!Next \/ UNCHANGED Health!vars
  PROVE  SightingsKept'
<1>k. ListingsKept /\ SightingsKept /\ ColumnsTyped
    BY DEF HealthInv, SightingsKept
<1>c. (\A c \in Clients : RowKept(c)) /\ (\A v \in checks : CheckKept(v)) /\ (\A p \in probes : Sighted(p))
    BY <1>k DEF SightingsKept
<1>t. \A c \in Clients : /\ RowTimes(c) /\ rows[c].lastSeen \in Nat /\ rows[c].verifiedAt \in Nat
                         /\ hist[c].answered \in Nat /\ hist[c].overlapped \in BOOLEAN
    BY <1>c, <1>k DEF RowKept, ColumnsTyped
<1>n. now \in Nat /\ \A p \in probes : ProbeKept(p) /\ p.client \in Clients /\ p.at \in Nat /\ p.at <= now
  <2>1. \A p \in probes : ProbeKept(p) /\ p.list \in Lists
      BY <1>k DEF ListingsKept, ProbeKept
  <2>2. \A p \in probes : ListKept(p.list) /\ p.client \in 1 .. lists[p.list].cursor
      BY <1>k, <2>1 DEF ListingsKept, ProbeKept
  <2> QED BY <1>k, <2>1, <2>2, ListFacts DEF ListingsKept, ProbeKept
<1>0. CASE UNCHANGED <<rows, checks, hist>> /\ probes' \subseteq probes /\ now' \in Nat /\ now <= now'
  <2>1. \A c \in Clients : RowKept(c)'
      BY <1>c, <1>k, <1>0, <1>n, RowStays
  <2>2. \A v \in checks : CheckKept(v)'
      BY <1>c, <1>0, <1>n DEF CheckKept
  <2>3. \A p \in probes' : Sighted(p)'
      BY <1>c, <1>0 DEF Sighted, Reached
  <2> QED BY <1>k, <1>0, <2>1, <2>2, <2>3 DEF SightingsKept, ColumnsTyped
\* A client is sighted, or a sighting of it begins: no column of another changes.
<1>1. ASSUME NEW c \in Clients, NEW seen \in Nat, NEW told \in Nat, NEW over \in BOOLEAN,
             rows' = [rows EXCEPT ![c].lastSeen = seen],
             hist' = [hist EXCEPT ![c] = [answered |-> told, overlapped |-> over]],
             UNCHANGED now, UNCHANGED checks,
             told <= now, hist[c].answered <= told, seen <= told,
             hist[c].overlapped = TRUE => over = TRUE,
             seen = rows[c].lastSeen \/ over = TRUE \/ rows[c].verifiedAt <= seen
      PROVE  /\ ColumnsTyped' /\ (\A d \in Clients : RowKept(d)') /\ (\A v \in checks' : CheckKept(v)')
             /\ \A p \in probes : Sighted(p)'
             /\ rows'[c].verifiedAt = rows[c].verifiedAt /\ hist'[c].answered = told /\ hist'[c].overlapped = over
  <2>1. /\ \A d \in Clients \ {c} : rows'[d] = rows[d]
        /\ rows'[c].lastSeen = seen /\ rows'[c].verifiedAt = rows[c].verifiedAt
        /\ rows'[c].reachable = rows[c].reachable /\ rows'[c].reason = rows[c].reason
      BY <1>k, <1>1 DEF ColumnsTyped
  <2>2. /\ \A d \in Clients \ {c} : hist'[d] = hist[d]
        /\ hist'[c].answered = told /\ hist'[c].overlapped = over
      BY <1>k, <1>1 DEF ColumnsTyped
  <2>3. ColumnsTyped'
      BY <1>k, <1>1 DEF ColumnsTyped
  <2>4. RowKept(c)'
    <3>1. RowTimes(c) /\ RowVerdict(c)
        BY <1>c DEF RowKept
    <3>2. RowTimes(c)'
      <4>1. rows[c].verifiedAt <= now /\ rows[c].verifiedAt \in Nat
            /\ (rows[c].reachable = TRUE /\ hist[c].overlapped = FALSE => rows[c].verifiedAt <= rows[c].lastSeen)
          BY <1>t DEF RowTimes
      <4>2. hist[c].overlapped = FALSE \/ hist[c].overlapped = TRUE
          BY <1>t
      <4> QED BY <1>1, <2>1, <2>2, <4>1, <4>2 DEF RowTimes
    <3>3. RowVerdict(c)'
        BY <2>1, <3>1 DEF RowVerdict
    <3> QED BY <3>2, <3>3 DEF RowKept
  <2>5. \A d \in Clients \ {c} : RowKept(d)'
      BY <1>1, <1>c, <1>k, <1>n, <2>1, <2>2, RowStays
  <2>6. \A d \in Clients : /\ rows'[d].verifiedAt = rows[d].verifiedAt
                           /\ hist[d].answered <= hist'[d].answered /\ hist'[d].answered \in Nat
                           /\ (hist'[d].overlapped = FALSE => hist[d].overlapped = FALSE)
    <3>1. hist'[c].overlapped = FALSE => hist[c].overlapped = FALSE
        BY <1>1, <1>t, <2>2
    <3> QED BY <1>1, <1>t, <2>1, <2>2, <3>1
  <2>7. \A p \in probes : Sighted(p)'
      BY <1>1, <1>c, <1>n, <1>t, <2>6, StillSighted
  <2>8. \A v \in checks' : CheckKept(v)'
      BY <1>1, <1>c DEF CheckKept
  <2> QED BY <2>1, <2>2, <2>3, <2>4, <2>5, <2>7, <2>8
<1>a. ASSUME NEW c \in Clients
      PROVE  Health!answers(c) = [hist EXCEPT ![c] = [answered |-> now, overlapped |-> hist[c].overlapped]]
  <2>1. [hist[c] EXCEPT !.answered = now] = [answered |-> now, overlapped |-> hist[c].overlapped]
    <3>1. hist[c] \in [answered : Nat, overlapped : BOOLEAN]
        BY <1>k DEF ColumnsTyped
    <3> QED BY <1>n, <3>1, AnsweredAt
  <2> QED BY <2>1 DEF Health!answers
<1>s. \A c \in Clients : rows = [rows EXCEPT ![c].lastSeen = rows[c].lastSeen]
    BY <1>k DEF ColumnsTyped
<1>h. \A c \in Clients : hist = [hist EXCEPT ![c] = [answered |-> hist[c].answered, overlapped |-> hist[c].overlapped]]
    BY <1>k DEF ColumnsTyped
<1>2. ASSUME NEW p \in probes, Health!probeAnswers(p) PROVE SightingsKept'
  <2> DEFINE c == p.client
             told == IF Components[p.step] = "deferred" THEN hist[c].answered ELSE now
  <2>1. PICK q : /\ q = [list |-> p.list, client |-> p.client, at |-> p.at, step |-> p.step + 1]
                 /\ probes' = (probes \ {p}) \cup {q}
    <3>1. [p EXCEPT !.step = @ + 1] = [list |-> p.list, client |-> p.client, at |-> p.at, step |-> p.step + 1]
        BY <1>n DEF ProbeKept
    <3> QED BY <1>2, <3>1 DEF Health!probeAnswers
  <2>2. /\ UNCHANGED now /\ UNCHANGED checks /\ UNCHANGED rows
        /\ c \in Clients /\ p.at \in Nat /\ p.at <= now /\ p.step \in Nat
      BY <1>2, <1>n DEF Health!probeAnswers, ProbeKept
  <2>3. rows' = [rows EXCEPT ![c].lastSeen = rows[c].lastSeen]
      BY <1>s, <2>2
  <2>4. hist' = [hist EXCEPT ![c] = [answered |-> told, overlapped |-> hist[c].overlapped]]
    <3>1. Health!answers(c) = [hist EXCEPT ![c] = [answered |-> now, overlapped |-> hist[c].overlapped]]
        BY <1>a, <2>2
    <3> QED BY <1>h, <1>2, <2>2, <3>1 DEF Health!probeAnswers
  <2>5. /\ told \in Nat /\ told <= now /\ hist[c].answered <= told /\ rows[c].lastSeen <= told
        /\ rows[c].lastSeen \in Nat /\ hist[c].overlapped \in BOOLEAN
    <3>1. /\ hist[c].answered \in Nat /\ hist[c].answered <= now /\ rows[c].lastSeen <= hist[c].answered
          /\ rows[c].lastSeen \in Nat /\ hist[c].overlapped \in BOOLEAN /\ now \in Nat
        BY <1>n, <1>t, <2>2 DEF RowTimes
    <3> QED BY <3>1
  <2> HIDE DEF told
  <2>6. /\ ColumnsTyped' /\ (\A d \in Clients : RowKept(d)') /\ (\A v \in checks' : CheckKept(v)')
        /\ \A s \in probes : Sighted(s)'
        /\ hist'[c].answered = told
      BY <1>1, <2>2, <2>3, <2>4, <2>5
  <2>7. Sighted(q)'
    <3>1. q.client = p.client /\ q.at = p.at /\ q.step = p.step + 1
        BY <2>1
    <3>2. Reached(q) => q.at <= hist'[c].answered
      <4>1. CASE Reached(p)
          BY <2>6, <3>1, <4>1 DEF Sighted, Reached
      <4>2. CASE ~Reached(p) /\ Reached(q)
        <5>1. Components[p.step] # "deferred"
            BY <2>2, <3>1, <4>2 DEF Reached
        <5> QED BY <2>2, <2>6, <3>1, <5>1 DEF told
      <4> QED BY <4>1, <4>2
    <3> QED BY <2>6, <3>1, <3>2 DEF Sighted, Reached
  <2> QED BY <2>1, <2>6, <2>7 DEF SightingsKept
<1>3. ASSUME NEW p \in probes, Health!probeEnds(p) PROVE SightingsKept'
  <2>1. /\ probes' \subseteq probes /\ UNCHANGED now /\ UNCHANGED checks /\ UNCHANGED hist
        /\ rows' \in {rows, [rows EXCEPT ![p.client].lastSeen = p.at]} /\ p.client \in Clients
      BY <1>3, <1>n DEF Health!probeEnds, Health!settle, Health!touched
  <2>2. Reached(p)
      BY <1>3 DEF Health!probeEnds, Health!ConstantsOK, Reached
  <2>3. CASE rows' = rows
      BY <1>0, <1>n, <2>1, <2>3
  <2>4. CASE rows' = [rows EXCEPT ![p.client].lastSeen = p.at]
    <3> DEFINE c == p.client
    <3>1. hist' = [hist EXCEPT ![c] = [answered |-> hist[c].answered, overlapped |-> hist[c].overlapped]]
        BY <1>h, <2>1
    <3>2. hist[c].answered \in Nat /\ hist[c].answered <= now /\ hist[c].overlapped \in BOOLEAN /\ p.at \in Nat
        BY <1>n, <1>t, <2>1 DEF RowTimes
    <3>3. p.at <= hist[c].answered /\ (hist[c].overlapped = FALSE => rows[c].verifiedAt <= p.at)
        BY <1>c, <2>2 DEF Sighted
    <3>4. hist[c].overlapped = TRUE \/ rows[c].verifiedAt <= p.at
        BY <3>2, <3>3
    <3>5. /\ ColumnsTyped' /\ (\A d \in Clients : RowKept(d)') /\ (\A v \in checks' : CheckKept(v)')
          /\ \A s \in probes : Sighted(s)'
      <4>1. PICK told \in Nat, over \in BOOLEAN : told = hist[c].answered /\ over = hist[c].overlapped
          BY <3>2
      <4>2. hist' = [hist EXCEPT ![c] = [answered |-> told, overlapped |-> over]]
          BY <3>1, <4>1
      <4>3. told <= now /\ hist[c].answered <= told /\ p.at <= told /\ (over = TRUE \/ rows[c].verifiedAt <= p.at)
            /\ (hist[c].overlapped = TRUE => over = TRUE)
          BY <3>2, <3>3, <3>4, <4>1
      <4> QED BY <1>1, <2>1, <2>4, <3>2, <4>2, <4>3
    <3> QED BY <2>1, <3>5 DEF SightingsKept
  <2> QED BY <2>1, <2>3, <2>4
<1>4. ASSUME NEW p \in probes, Health!probeFails(p) \/ Health!probeThrows(p) PROVE SightingsKept'
    BY <1>0, <1>4, <1>n DEF Health!probeFails, Health!probeThrows, Health!settle
\* A sighting begins: one under way already makes them overlap.
<1>o. ASSUME NEW c \in Clients, NEW at \in {hist, Health!answers(c)},
             hist' = [at EXCEPT ![c].overlapped = @ \/ Health!underWay(c)]
      PROVE  \E over \in BOOLEAN :
               /\ hist' = [hist EXCEPT ![c] = [answered |-> IF at = hist THEN hist[c].answered ELSE now, overlapped |-> over]]
               /\ (hist[c].overlapped = TRUE => over = TRUE) /\ (Health!underWay(c) => over = TRUE)
  <2>1. PICK over \in BOOLEAN : over = (hist[c].overlapped \/ Health!underWay(c))
      OBVIOUS
  <2>2. /\ at[c] = [answered |-> at[c].answered, overlapped |-> hist[c].overlapped]
        /\ at \in [Clients -> [answered : Nat, overlapped : BOOLEAN]]
        /\ at[c].answered = IF at = hist THEN hist[c].answered ELSE now
        /\ \A x : [at EXCEPT ![c] = x] = [hist EXCEPT ![c] = x]
      BY <1>k, <1>n DEF ColumnsTyped, Health!answers
  <2>3. hist' = [at EXCEPT ![c] = [answered |-> at[c].answered, overlapped |-> over]]
    <3>1. [at[c] EXCEPT !.overlapped = over] = [answered |-> at[c].answered, overlapped |-> over]
        BY <2>2, OverlappedAt
    <3>2. (at[c].overlapped \/ Health!underWay(c)) = over
        BY <2>1, <2>2
    <3> QED BY <1>o, <3>1, <3>2
  <2> QED BY <2>1, <2>2, <2>3
<1>6. ASSUME NEW l \in Lists, Health!RunnerTakes(l) PROVE SightingsKept'
  <2> DEFINE c == lists[l].cursor + 1
  <2>1. c \in Clients
    <3>1. lists[l].cursor < Cardinality(Clients) /\ ListKept(l)
        BY <1>6, <1>k, HealthCardinality DEF Health!RunnerTakes, ListingsKept
    <3> QED BY <3>1, ClientsAre DEF ListKept, Count
  <2>2. PICK new : new = [list |-> l, client |-> c, at |-> now, step |-> 1] /\ probes' = probes \cup {new}
      BY <1>6 DEF Health!RunnerTakes
  <2>3. UNCHANGED rows /\ UNCHANGED now /\ UNCHANGED checks /\ hist' = Health!noteOverlap(c)
      BY <1>6 DEF Health!RunnerTakes
  <2> HIDE DEF c
  <2>4. PICK over \in BOOLEAN :
          /\ hist' = [hist EXCEPT ![c] = [answered |-> hist[c].answered, overlapped |-> over]]
          /\ (hist[c].overlapped = TRUE => over = TRUE) /\ (Health!underWay(c) => over = TRUE)
      BY <1>o, <2>1, <2>3 DEF Health!noteOverlap
  <2>5. /\ rows' = [rows EXCEPT ![c].lastSeen = rows[c].lastSeen]
        /\ rows[c].lastSeen \in Nat /\ hist[c].answered \in Nat /\ rows[c].verifiedAt <= now
        /\ hist[c].answered <= now /\ hist[c].answered <= hist[c].answered /\ rows[c].lastSeen <= hist[c].answered
      BY <1>s, <1>t, <2>1, <2>3 DEF RowTimes
  <2>6. /\ ColumnsTyped' /\ (\A d \in Clients : RowKept(d)') /\ (\A v \in checks' : CheckKept(v)')
        /\ \A s \in probes : Sighted(s)'
        /\ rows'[c].verifiedAt = rows[c].verifiedAt /\ hist'[c].overlapped = over
      BY <1>1, <2>1, <2>3, <2>4, <2>5, ZenonT(60)
  <2>7. Sighted(new)'
    <3>1. new.client = c /\ new.at = now /\ new.step = 1
        BY <2>2
    <3>2. over = FALSE => \A v \in checks : v.client # c
        BY <2>4 DEF Health!underWay
    <3> QED BY <2>3, <2>5, <2>6, <3>1, <3>2 DEF Sighted, Reached
  <2> QED BY <2>2, <2>6, <2>7 DEF SightingsKept
<1>7. ASSUME NEW c \in Clients, Health!VerifyStarts(c) PROVE SightingsKept'
  <2>1. PICK new : new = [client |-> c, at |-> now] /\ checks' = checks \cup {new}
      BY <1>7 DEF Health!VerifyStarts
  <2>2. UNCHANGED rows /\ UNCHANGED now /\ UNCHANGED probes /\ hist' = Health!noteOverlap(c)
      BY <1>7 DEF Health!VerifyStarts
  <2>3. PICK over \in BOOLEAN :
          /\ hist' = [hist EXCEPT ![c] = [answered |-> hist[c].answered, overlapped |-> over]]
          /\ (hist[c].overlapped = TRUE => over = TRUE) /\ (Health!underWay(c) => over = TRUE)
      BY <1>o, <2>2 DEF Health!noteOverlap
  <2>4. /\ ColumnsTyped' /\ \A d \in Clients \ {c} : hist'[d] = hist[d]
        /\ hist'[c].answered = hist[c].answered /\ hist'[c].overlapped = over
      BY <1>k, <2>2, <2>3 DEF ColumnsTyped
  <2>5. over = FALSE => \A p \in probes : p.client # c
      BY <2>3 DEF Health!underWay
  <2>6. RowKept(c)'
    <3>1. hist'[c].overlapped = FALSE => hist[c].overlapped = FALSE
        BY <1>t, <2>3, <2>4
    <3> QED BY <1>c, <2>2, <2>4, <3>1 DEF RowKept, RowTimes, RowVerdict
  <2>7. \A d \in Clients \ {c} : RowKept(d)'
      BY <1>c, <1>k, <1>n, <2>2, <2>4, RowStays
  <2>8. new.client = c /\ new.at = now /\ new = [client |-> new.client, at |-> new.at]
      BY <2>1
  <2>9. \A v \in checks' : CheckKept(v)'
      BY <1>c, <1>n, <2>1, <2>2, <2>8 DEF CheckKept
  <2>10. ASSUME NEW p \in probes PROVE Sighted(p)'
    <3>1. /\ hist'[p.client].answered = hist[p.client].answered /\ rows'[p.client] = rows[p.client]
          /\ hist'[p.client].overlapped = FALSE => hist[p.client].overlapped = FALSE /\ p.client # c
        BY <1>n, <1>t, <2>2, <2>3, <2>4, <2>5
    <3> QED BY <1>c, <2>1, <2>8, <3>1 DEF Sighted, Reached
  <2> QED BY <2>2, <2>4, <2>6, <2>7, <2>9, <2>10 DEF SightingsKept
<1>8. ASSUME NEW v \in checks, NEW ok \in BOOLEAN, Health!VerifyEnds(v, ok) PROVE SightingsKept'
  <2> DEFINE c == v.client
             told == IF ok = TRUE THEN now ELSE hist[c].answered
             seen == IF ok THEN v.at ELSE rows[c].lastSeen
             why == IF ok THEN Null ELSE "ssh"
  <2>1. /\ c \in Clients /\ v.at \in Nat /\ v.at <= now /\ checks' \subseteq checks
        /\ UNCHANGED now /\ UNCHANGED probes
      BY <1>8, <1>c DEF Health!VerifyEnds, CheckKept
  <2>2. rows' = [rows EXCEPT ![c] = [lastSeen |-> seen, verifiedAt |-> v.at, reachable |-> ok, reason |-> why]]
    <3> DEFINE row == [rows[c] EXCEPT !.verifiedAt = v.at, !.reachable = ok,
                                      !.reason = IF ok THEN Null ELSE "ssh",
                                      !.lastSeen = IF ok THEN v.at ELSE rows[c].lastSeen]
    <3>1. rows[c] \in [lastSeen : Nat, verifiedAt : Nat, reachable : BOOLEAN \cup {Null}, reason : {Null, "ssh"}]
        BY <1>k, <2>1 DEF ColumnsTyped
    <3>2. /\ row \in [lastSeen : Nat, verifiedAt : Nat, reachable : BOOLEAN \cup {Null}, reason : {Null, "ssh"}]
          /\ row.lastSeen = seen /\ row.verifiedAt = v.at /\ row.reachable = ok /\ row.reason = why
        BY <2>1, <3>1
    <3>3. rows' = [rows EXCEPT ![c] = row]
        BY <1>8 DEF Health!VerifyEnds, Health!recordClientVerification
    <3> HIDE DEF row, seen, why
    <3>4. row = [lastSeen |-> row.lastSeen, verifiedAt |-> row.verifiedAt, reachable |-> row.reachable,
                 reason |-> row.reason]
        BY <3>2
    <3> QED BY <3>2, <3>3, <3>4
  <2>3. hist' = [hist EXCEPT ![c] = [answered |-> told, overlapped |-> hist[c].overlapped]]
    <3>1. Health!answers(c) = [hist EXCEPT ![c] = [answered |-> now, overlapped |-> hist[c].overlapped]]
        BY <1>a, <2>1
    <3>2. CASE ok = TRUE
        BY <1>8, <3>1, <3>2 DEF Health!VerifyEnds
    <3>3. CASE ok = FALSE
        BY <1>8, <1>h, <2>1, <3>3 DEF Health!VerifyEnds
    <3> QED BY <3>2, <3>3
  <2>4. /\ told \in Nat /\ told <= now /\ seen \in Nat /\ seen <= told /\ hist[c].answered <= told
        /\ (ok = TRUE => seen = v.at) /\ (ok = TRUE <=> why = Null) /\ why \in {Null, "ssh"}
    <3>1. /\ hist[c].answered \in Nat /\ hist[c].answered <= now /\ rows[c].lastSeen <= hist[c].answered
          /\ rows[c].lastSeen \in Nat /\ now \in Nat /\ Null # "ssh"
        BY <1>n, <1>t, <2>1 DEF RowTimes, Health!ConstantsOK
    <3> QED BY <2>1, <3>1
  <2> HIDE DEF told, seen, why
  <2>5. /\ \A d \in Clients \ {c} : rows'[d] = rows[d] /\ hist'[d] = hist[d]
        /\ rows'[c].lastSeen = seen /\ rows'[c].verifiedAt = v.at /\ rows'[c].reachable = ok /\ rows'[c].reason = why
        /\ hist'[c].answered = told /\ hist'[c].overlapped = hist[c].overlapped
      BY <1>k, <2>1, <2>2, <2>3 DEF ColumnsTyped
  <2>6. ColumnsTyped'
      BY <1>k, <2>1, <2>2, <2>3, <2>4 DEF ColumnsTyped
  <2>7. RowKept(c)'
    <3>1. RowTimes(c)'
        BY <1>n, <2>1, <2>4, <2>5 DEF RowTimes
    <3>2. RowVerdict(c)'
        BY <2>4, <2>5 DEF RowVerdict
    <3> QED BY <3>1, <3>2 DEF RowKept
  <2>8. \A d \in Clients \ {c} : RowKept(d)'
      BY <1>c, <1>k, <1>n, <2>1, <2>5, RowStays
  <2>9. ASSUME NEW p \in probes PROVE Sighted(p)'
    <3>1. CASE p.client = c
      <4>1. hist[c].overlapped # FALSE
          BY <1>c, <3>1 DEF Sighted
      <4>2. hist[c].answered \in Nat
          BY <1>t, <2>1
      <4> QED BY <1>c, <1>n, <2>4, <2>5, <3>1, <4>1, <4>2 DEF Sighted, Reached
    <3>2. CASE p.client # c
        BY <1>c, <1>n, <2>1, <2>5, <3>2 DEF Sighted, Reached
    <3> QED BY <3>1, <3>2
  <2>10. \A w \in checks' : CheckKept(w)'
      BY <1>c, <2>1 DEF CheckKept
  <2> QED BY <2>1, <2>6, <2>7, <2>8, <2>9, <2>10 DEF SightingsKept
<1>9. ASSUME NEW c \in Clients, Health!StreamSeen(c) PROVE SightingsKept'
  <2>1. UNCHANGED now /\ UNCHANGED checks /\ UNCHANGED probes /\ rows' = [rows EXCEPT ![c].lastSeen = now]
      BY <1>9 DEF Health!StreamSeen, Health!touched
  <2>2. hist[c].answered \in Nat /\ hist[c].answered <= now /\ rows[c].verifiedAt <= now /\ now \in Nat /\ now <= now
      BY <1>n, <1>t DEF RowTimes
  <2>3. PICK over \in BOOLEAN :
          /\ hist' = [hist EXCEPT ![c] = [answered |-> now, overlapped |-> over]]
          /\ hist[c].overlapped = TRUE => over = TRUE
    <3> DEFINE at == Health!answers(c)
    <3>1. hist' = [at EXCEPT ![c].overlapped = @ \/ Health!underWay(c)]
        BY <1>9 DEF Health!StreamSeen
    <3>2. at = hist => hist[c].answered = now
        BY <1>k DEF Health!answers, ColumnsTyped
    <3> HIDE DEF at
    <3>3. at \in {hist, Health!answers(c)}
        BY DEF at
    <3> QED BY <1>o, <3>1, <3>2, <3>3
  <2> QED BY <1>1, <2>1, <2>2, <2>3 DEF SightingsKept
<1> QED
  <2>1. ASSUME NEW l \in Lists, Health!ListStarts(l) \/ Health!Deadline(l) \/ Health!ListAnswers(l)
        PROVE  SightingsKept'
      BY <2>1, <1>0, <1>n DEF Health!ListStarts, Health!Deadline, Health!ListAnswers
  <2>2. ASSUME NEW l \in Lists, NEW c \in Clients, Health!TimedOut(l, c) PROVE SightingsKept'
      BY <2>2, <1>0, <1>n DEF Health!TimedOut
  <2>3. CASE Health!Tick \/ UNCHANGED Health!vars
      BY <2>3, <1>0, <1>n DEF Health!Tick, Health!vars
  <2> QED BY <1>2, <1>3, <1>4, <1>6, <1>7, <1>8, <1>9, <2>1, <2>2, <2>3 DEF Health!Next

LEMMA HealthStepInv ==
  ASSUME Health!ConstantsOK, HealthInv, [Health!Next]_(Health!vars)
  PROVE  HealthInv'
BY ListsStep, SightStep DEF HealthInv

LEMMA HealthInvSound ==
  ASSUME Health!ConstantsOK, HealthInv
  PROVE  Health!HealthSound
<1>1. Health!ListComplete
    BY ClientsAre DEF HealthInv, ListingsKept, ListKept, Health!ListComplete
<1>2. Health!BoundedBeforeDeadline
  <2> SUFFICES ASSUME NEW l \in Lists, l \notin due
               PROVE  Health!Cardinality({p \in probes : p.list = l}) <= Concurrency
      BY DEF Health!BoundedBeforeDeadline
  <2> DEFINE S == {p \in probes : p.list = l}
             f == [p \in S |-> p.client]
  <2>1. ListKept(l)
      BY DEF HealthInv, ListingsKept
  <2>2. f \in Injection(S, lists[l].racing)
    <3>1. \A p \in S : p.client \in lists[l].racing
        BY DEF HealthInv, ListingsKept, ProbeKept
    <3>2. \A p, q \in S : p.client = q.client => p = q
        BY DEF HealthInv, ListingsKept
    <3> QED BY <3>1, <3>2 DEF Injection, IsInjective
  <2> HIDE DEF f
  <2>3. IsFiniteSet(S) /\ Cardinality(S) <= Cardinality(lists[l].racing)
      BY <2>1, <2>2, ListFacts, FS_Injection
  <2>4. Cardinality(S) \in Nat /\ Cardinality(lists[l].racing) \in Nat /\ Concurrency \in Nat
        /\ Cardinality(lists[l].racing) <= Concurrency
      BY <2>1, <2>3, ListFacts, FS_CardinalityType, ClientsAre DEF ListKept
  <2> QED BY <2>3, <2>4, HealthCardinality
<1>3. \A c \in Clients : /\ RowTimes(c) /\ RowVerdict(c) /\ hist[c].overlapped \in BOOLEAN
                         /\ rows[c].reachable \in BOOLEAN \cup {Null}
    BY DEF HealthInv, SightingsKept, RowKept, ColumnsTyped
<1>4. Health!LastSeenTrue
    BY <1>3 DEF RowTimes, Health!LastSeenTrue
<1>5. Health!VerdictWhole
    BY <1>3 DEF RowVerdict, Health!VerdictWhole
<1> QED BY <1>1, <1>2, <1>4, <1>5 DEF Health!HealthSound

(* Versions: an order of two first differences. *)

Positions == Nat \ {0}
Numbers == [Positions -> Nat]

\* A release's numbers, a missing one a zero; and the identifiers of a pre-release, moved
\* up by one so that a missing one is below all.
Release(v) == [i \in Positions |-> IF i <= Len(v.release) THEN v.release[i] ELSE 0]
PreRelease(v) == [i \in Positions |-> IF i <= Len(v.pre) THEN v.pre[i] + 1 ELSE 0]

\* i is where f and g first differ.
FirstAt(f, g, i) == f[i] # g[i] /\ \A j \in Positions : j < i => f[j] = g[j]
Below(f, g) == \E i \in Positions : FirstAt(f, g, i) /\ f[i] < g[i]
Verdict(f, g) == IF Below(f, g) THEN -1 ELSE IF Below(g, f) THEN 1 ELSE 0

LEMMA VerdictAt ==
  ASSUME NEW f \in Numbers, NEW g \in Numbers, NEW i \in Positions, FirstAt(f, g, i)
  PROVE  /\ f # g
         /\ Verdict(f, g) = IF f[i] < g[i] THEN -1 ELSE 1
         /\ Below(f, g) <=> f[i] < g[i]
<1>1. \A j \in Positions : FirstAt(f, g, j) \/ FirstAt(g, f, j) => j = i
  <2> SUFFICES ASSUME NEW j \in Positions, FirstAt(f, g, j) \/ FirstAt(g, f, j) PROVE j = i
      OBVIOUS
  <2>1. ~(j < i) /\ ~(i < j)
      BY DEF FirstAt
  <2> QED BY <2>1 DEF Positions
<1>2. f[i] \in Nat /\ g[i] \in Nat /\ f[i] # g[i]
    BY DEF FirstAt, Numbers
<1>3. Below(f, g) <=> f[i] < g[i]
    BY <1>1 DEF Below
<1>4. Below(g, f) <=> g[i] < f[i]
  <2>1. FirstAt(g, f, i)
      BY DEF FirstAt
  <2> QED BY <1>1, <2>1 DEF Below
<1> QED BY <1>2, <1>3, <1>4 DEF Verdict

LEMMA VerdictEqual ==
  ASSUME NEW f
  PROVE  Verdict(f, f) = 0 /\ ~Below(f, f)
BY DEF Verdict, Below, FirstAt

LEMMA SomewhereFirst ==
  ASSUME NEW f \in Numbers, NEW g \in Numbers, f # g
  PROVE  \E i \in Positions : FirstAt(f, g, i)
<1> DEFINE D == {j \in Positions : f[j] # g[j]}
<1>1. D # {} /\ D \in SUBSET Positions
    BY DEF Numbers
<1>2. PICK i \in D : \A j \in D : i <= j
    BY <1>1, LeastNumber DEF Positions
<1>3. FirstAt(f, g, i)
    BY <1>2 DEF FirstAt, Positions
<1> QED BY <1>3

LEMMA BelowTotal ==
  ASSUME NEW f \in Numbers, NEW g \in Numbers
  PROVE  /\ f = g \/ Below(f, g) \/ Below(g, f)
         /\ ~(Below(f, g) /\ Below(g, f))
<1>1. CASE f = g
    BY <1>1, VerdictEqual
<1>2. CASE f # g
  <2>1. PICK i \in Positions : FirstAt(f, g, i)
      BY <1>2, SomewhereFirst
  <2>2. FirstAt(g, f, i) /\ f[i] \in Nat /\ g[i] \in Nat /\ f[i] # g[i]
      BY <2>1 DEF FirstAt, Numbers
  <2>3. (Below(f, g) <=> f[i] < g[i]) /\ (Below(g, f) <=> g[i] < f[i])
      BY <2>1, <2>2, VerdictAt
  <2> QED BY <2>2, <2>3
<1> QED BY <1>1, <1>2

LEMMA BelowChains ==
  ASSUME NEW f \in Numbers, NEW g \in Numbers, NEW h \in Numbers, Below(f, g), Below(g, h)
  PROVE  Below(f, h)
<1>1. PICK i \in Positions : FirstAt(f, g, i) /\ f[i] < g[i]
    BY DEF Below
<1>2. PICK j \in Positions : FirstAt(g, h, j) /\ g[j] < h[j]
    BY DEF Below
<1>3. CASE i <= j
  <2>1. f[i] < h[i]
      BY <1>1, <1>2, <1>3 DEF FirstAt, Numbers, Positions
  <2>2. \A k \in Positions : k < i => f[k] = h[k]
      BY <1>1, <1>2, <1>3 DEF FirstAt, Positions
  <2> QED BY <2>1, <2>2 DEF Below, FirstAt, Numbers
<1>4. CASE j < i
  <2>1. f[j] < h[j]
      BY <1>1, <1>2, <1>4 DEF FirstAt, Numbers, Positions
  <2>2. \A k \in Positions : k < j => f[k] = h[k]
      BY <1>1, <1>2, <1>4 DEF FirstAt, Positions
  <2> QED BY <2>1, <2>2 DEF Below, FirstAt, Numbers
<1> QED BY <1>3, <1>4 DEF Positions

Parsed == [release : Seq(Nat), pre : Seq(Nat)]

LEMMA NumbersOf ==
  ASSUME NEW v \in Parsed
  PROVE  Release(v) \in Numbers /\ PreRelease(v) \in Numbers
BY DEF Parsed, Release, PreRelease, Numbers, Positions

\* compareRelease finds the first numbers that differ.
LEMMA ReleaseVerdict ==
  ASSUME NEW v \in Parsed, NEW w \in Parsed
  PROVE  Health!compareRelease(v.release, w.release) = Verdict(Release(v), Release(w))
<1> DEFINE a == v.release
           b == w.release
           f == Release(v)
           g == Release(w)
           at(s, i) == IF i <= Len(s) THEN s[i] ELSE 0
           differ == {i \in 1 .. (IF Len(a) > Len(b) THEN Len(a) ELSE Len(b)) : at(a, i) # at(b, i)}
           first == CHOOSE i \in differ : \A j \in differ : i <= j
<1>1. a \in Seq(Nat) /\ b \in Seq(Nat) /\ f \in Numbers /\ g \in Numbers
    BY NumbersOf DEF Parsed
<1>2. \A i \in Positions : f[i] = at(a, i) /\ g[i] = at(b, i)
    BY DEF Release
<1>3. Health!compareRelease(a, b) = IF differ = {} THEN 0 ELSE Health!cmp(at(a, first), at(b, first))
    BY DEF Health!compareRelease
<1>4. differ = {i \in Positions : f[i] # g[i]}
  <2>1. \A i \in Positions : f[i] # g[i] => i <= Len(a) \/ i <= Len(b)
      BY <1>2
  <2>2. Len(a) \in Nat /\ Len(b) \in Nat
      BY <1>1
  <2>3. 1 .. (IF Len(a) > Len(b) THEN Len(a) ELSE Len(b)) = {i \in Positions : i <= Len(a) \/ i <= Len(b)}
      BY <2>2 DEF Positions
  <2> QED BY <1>2, <2>1, <2>3
<1>5. CASE differ = {}
  <2>1. f = g
      BY <1>1, <1>4, <1>5 DEF Numbers
  <2> QED BY <1>3, <1>5, <2>1, VerdictEqual
<1>6. CASE differ # {}
  <2>1. \E i \in differ : \A j \in differ : i <= j
      BY <1>4, <1>6, LeastNumber DEF Positions
  <2>2. first \in differ /\ \A j \in differ : first <= j
      BY <2>1
  <2> HIDE DEF first, differ
  <2>3. first \in Positions /\ FirstAt(f, g, first)
      BY <1>4, <2>2 DEF FirstAt, Positions
  <2>4. f[first] = at(a, first) /\ g[first] = at(b, first)
      BY <1>2, <2>3
  <2>5. Health!cmp(f[first], g[first]) = IF f[first] < g[first] THEN -1 ELSE 1
      BY <1>1, <2>3 DEF Health!cmp, FirstAt, Numbers
  <2> QED BY <1>1, <1>3, <1>6, <2>3, <2>4, <2>5, VerdictAt
<1> QED BY <1>5, <1>6

\* comparePrerelease: so does it, and the end of the shorter is below what follows.
LEMMA PreReleaseVerdict ==
  ASSUME NEW v \in Parsed, NEW w \in Parsed
  PROVE  Health!comparePrerelease(v.pre, w.pre) = Verdict(PreRelease(v), PreRelease(w))
<1> DEFINE a == v.pre
           b == w.pre
           f == PreRelease(v)
           g == PreRelease(w)
           differ == {i \in 1 .. (IF Len(a) < Len(b) THEN Len(a) ELSE Len(b)) :
                        Health!comparePreId(a[i], b[i]) # 0}
           first == CHOOSE i \in differ : \A j \in differ : i <= j
<1>1. a \in Seq(Nat) /\ b \in Seq(Nat) /\ f \in Numbers /\ g \in Numbers
    BY NumbersOf DEF Parsed
<1>2. \A i \in Positions : /\ f[i] = IF i <= Len(a) THEN a[i] + 1 ELSE 0
                           /\ g[i] = IF i <= Len(b) THEN b[i] + 1 ELSE 0
    BY DEF PreRelease
<1>3. Health!comparePrerelease(a, b) =
        IF differ = {} THEN Health!cmp(Len(a), Len(b)) ELSE Health!comparePreId(a[first], b[first])
    BY DEF Health!comparePrerelease
<1>4. Len(a) \in Nat /\ Len(b) \in Nat
    BY <1>1
<1>5. \A i \in 1 .. Len(a) : a[i] \in Nat
    BY <1>1
<1>6. \A i \in 1 .. Len(b) : b[i] \in Nat
    BY <1>1
<1>7. differ = {i \in Positions : i <= Len(a) /\ i <= Len(b) /\ f[i] # g[i]}
  <2>1. 1 .. (IF Len(a) < Len(b) THEN Len(a) ELSE Len(b)) = {i \in Positions : i <= Len(a) /\ i <= Len(b)}
      BY <1>4 DEF Positions
  <2>2. \A i \in Positions : i <= Len(a) /\ i <= Len(b) =>
          (Health!comparePreId(a[i], b[i]) # 0 <=> f[i] # g[i])
      BY <1>2, <1>4, <1>5, <1>6 DEF Health!comparePreId, Health!cmp, Positions
  <2> QED BY <2>1, <2>2
<1> HIDE DEF differ
<1>8. CASE differ # {}
  <2>1. \E i \in differ : \A j \in differ : i <= j
      BY <1>7, <1>8, LeastNumber DEF Positions
  <2>2. first \in differ /\ \A j \in differ : first <= j
      BY <2>1
  <2> HIDE DEF first
  <2>3. first \in Positions /\ first <= Len(a) /\ first <= Len(b) /\ f[first] # g[first]
      BY <1>7, <2>2
  <2>4. \A j \in Positions : j < first => f[j] = g[j]
      BY <1>4, <1>7, <2>2, <2>3 DEF Positions
  <2>5. Health!comparePreId(a[first], b[first]) = IF f[first] < g[first] THEN -1 ELSE 1
      BY <1>2, <1>4, <1>5, <1>6, <2>3 DEF Health!comparePreId, Health!cmp, Positions
  <2> QED BY <1>1, <1>3, <1>8, <2>3, <2>4, <2>5, VerdictAt DEF FirstAt
<1>9. CASE differ = {} /\ Len(a) = Len(b)
  <2>1. f = g
      BY <1>1, <1>2, <1>7, <1>9 DEF Numbers
  <2> QED BY <1>3, <1>4, <1>9, <2>1, VerdictEqual DEF Health!cmp
<1>10. CASE differ = {} /\ Len(a) < Len(b)
  <2> DEFINE i == Len(a) + 1
  <2>1. i \in Positions /\ f[i] = 0 /\ g[i] > 0
      BY <1>2, <1>4, <1>6, <1>10, SMTT(30) DEF Positions
  <2>2. \A j \in Positions : j < i => f[j] = g[j]
      BY <1>4, <1>7, <1>10 DEF Positions
  <2>3. FirstAt(f, g, i)
      BY <2>1, <2>2 DEF FirstAt
  <2> QED BY <1>1, <1>3, <1>4, <1>10, <2>1, <2>3, VerdictAt DEF Health!cmp
<1>11. CASE differ = {} /\ Len(b) < Len(a)
  <2> DEFINE i == Len(b) + 1
  <2>1. i \in Positions /\ g[i] = 0 /\ f[i] > 0
      BY <1>2, <1>4, <1>5, <1>11, SMTT(30) DEF Positions
  <2>2. \A j \in Positions : j < i => f[j] = g[j]
      BY <1>4, <1>7, <1>11 DEF Positions
  <2>3. FirstAt(f, g, i) /\ ~(f[i] < g[i])
      BY <1>1, <2>1, <2>2 DEF FirstAt, Numbers
  <2>4. Verdict(f, g) = 1
      BY <1>1, <2>1, <2>3, VerdictAt
  <2>5. Health!cmp(Len(a), Len(b)) = 1
      BY <1>4, <1>11 DEF Health!cmp
  <2> QED BY <1>3, <1>11, <2>4, <2>5
<1> QED BY <1>4, <1>8, <1>9, <1>10, <1>11

\* compareVersions: by the releases, then a release above its pre-releases, then by those.
AtMost(v, w) ==
  \/ Below(Release(v), Release(w))
  \/ /\ Release(v) = Release(w)
     /\ w.pre = <<>> \/ (v.pre # <<>> /\ ~Below(PreRelease(w), PreRelease(v)))

LEMMA VersionVerdict ==
  ASSUME Health!ConstantsOK, NEW v \in Releases \ {Null}, NEW w \in Releases \ {Null}
  PROVE  /\ v \in Parsed /\ w \in Parsed
         /\ Health!compareVersions(v, w) \in -1 .. 1
         /\ Health!compareVersions(v, w) # Null
         /\ Health!compareVersions(v, w) <= 0 <=> AtMost(v, w)
         /\ Health!compareVersions(v, w) < 0 <=> ~AtMost(w, v)
<1> DEFINE r == Health!compareRelease(v.release, w.release)
           q == Health!comparePrerelease(v.pre, w.pre)
<1>1. v \in Parsed /\ w \in Parsed /\ Null \notin -1 .. 1
    BY DEF Health!ConstantsOK, Parsed
<1>2. Release(v) \in Numbers /\ Release(w) \in Numbers /\ PreRelease(v) \in Numbers /\ PreRelease(w) \in Numbers
    BY <1>1, NumbersOf
<1>3. r = Verdict(Release(v), Release(w)) /\ q = Verdict(PreRelease(v), PreRelease(w))
    BY <1>1, ReleaseVerdict, PreReleaseVerdict
<1>4. r \in -1 .. 1 /\ q \in -1 .. 1
    BY <1>3 DEF Verdict
<1>5. /\ r < 0 <=> Below(Release(v), Release(w))
      /\ r = 0 <=> Release(v) = Release(w)
      /\ r > 0 <=> Below(Release(w), Release(v))
      /\ q <= 0 <=> ~Below(PreRelease(w), PreRelease(v))
      /\ q < 0 <=> Below(PreRelease(v), PreRelease(w))
    BY <1>2, <1>3, BelowTotal DEF Verdict
<1> HIDE DEF r, q
<1>6. v.pre \in Seq(Nat) /\ w.pre \in Seq(Nat)
    BY <1>1 DEF Parsed
<1>7. /\ Len(v.pre) \in Nat /\ (v.pre = <<>> <=> Len(v.pre) = 0)
      /\ Len(w.pre) \in Nat /\ (w.pre = <<>> <=> Len(w.pre) = 0)
    BY <1>6
<1>8. Health!compareVersions(v, w) =
        IF r # 0 THEN r
        ELSE IF v.pre = <<>> \/ w.pre = <<>>
        THEN Health!cmp(Len(w.pre), 0) - Health!cmp(Len(v.pre), 0) ELSE q
    BY DEF Health!compareVersions, r, q
<1>9. /\ Health!cmp(Len(w.pre), 0) = IF w.pre = <<>> THEN 0 ELSE 1
      /\ Health!cmp(Len(v.pre), 0) = IF v.pre = <<>> THEN 0 ELSE 1
    BY <1>7 DEF Health!cmp
<1>10. CASE r # 0
    BY <1>1, <1>4, <1>5, <1>8, <1>10 DEF AtMost
<1>11. CASE r = 0
  <2>1. Release(v) = Release(w) /\ ~Below(Release(v), Release(w)) /\ ~Below(Release(w), Release(v))
      BY <1>4, <1>5, <1>11
  <2>2. CASE v.pre = <<>> \/ w.pre = <<>>
      BY <1>1, <1>8, <1>9, <1>11, <2>1, <2>2 DEF AtMost
  <2>3. CASE v.pre # <<>> /\ w.pre # <<>>
      BY <1>1, <1>4, <1>5, <1>8, <1>11, <2>1, <2>3 DEF AtMost
  <2> QED BY <2>2, <2>3
<1> QED BY <1>10, <1>11

LEMMA AtMostOrders ==
  ASSUME NEW v \in Parsed, NEW w \in Parsed
  PROVE  /\ AtMost(v, w) \/ AtMost(w, v)
         /\ \A x \in Parsed : AtMost(v, w) /\ AtMost(w, x) => AtMost(v, x)
<1>1. \A u \in Parsed : Release(u) \in Numbers /\ PreRelease(u) \in Numbers
    BY NumbersOf
<1>2. AtMost(v, w) \/ AtMost(w, v)
    BY <1>1, BelowTotal DEF AtMost
<1>3. ASSUME NEW x \in Parsed, AtMost(v, w), AtMost(w, x) PROVE AtMost(v, x)
  <2>1. CASE Release(v) = Release(w) /\ Release(w) = Release(x)
    <3>1. w.pre # <<>> => v.pre # <<>>
        BY <1>1, <1>3, <2>1, BelowTotal DEF AtMost
    <3>2. x.pre = <<>> \/ (w.pre # <<>> /\ ~Below(PreRelease(x), PreRelease(w)))
        BY <1>1, <1>3, <2>1, BelowTotal DEF AtMost
    <3>3. w.pre # <<>> => ~Below(PreRelease(w), PreRelease(v))
        BY <1>1, <1>3, <2>1, BelowTotal DEF AtMost
    <3>4. ~Below(PreRelease(x), PreRelease(w)) /\ ~Below(PreRelease(w), PreRelease(v)) =>
             ~Below(PreRelease(x), PreRelease(v))
        BY <1>1, BelowTotal, BelowChains
    <3> QED BY <2>1, <3>1, <3>2, <3>3, <3>4 DEF AtMost
  <2>2. CASE Below(Release(v), Release(w)) \/ Below(Release(w), Release(x))
    <3>1. Below(Release(v), Release(x))
        BY <1>1, <1>3, <2>2, BelowChains DEF AtMost
    <3> QED BY <3>1 DEF AtMost
  <2> QED BY <1>3, <2>1, <2>2 DEF AtMost
<1> QED BY <1>2, <1>3

\* Of two versions at most one is outdated beside the other, and none below it is newer.
LEMMA VersionsAreOrdered == ASSUME Health!ConstantsOK PROVE Health!VersionsOrdered
<1> SUFFICES ASSUME NEW a \in Releases \ {Null}, NEW b \in Releases \ {Null}
             PROVE  /\ Health!classifyVersionStatus(a, b, FALSE) = "outdated" =>
                         Health!classifyVersionStatus(b, a, FALSE) = "up_to_date"
                    /\ \A c \in Releases \ {Null} :
                         Health!compareVersions(a, b) <= 0 /\ Health!compareVersions(b, c) <= 0
                           => Health!compareVersions(a, c) <= 0
    BY DEF Health!VersionsOrdered
<1>1. a \in Parsed /\ b \in Parsed
    BY VersionVerdict
<1>2. Health!classifyVersionStatus(a, b, FALSE) = "outdated" => ~AtMost(b, a)
    BY VersionVerdict DEF Health!classifyVersionStatus
<1>3. AtMost(a, b) => Health!classifyVersionStatus(b, a, FALSE) = "up_to_date"
    BY VersionVerdict DEF Health!classifyVersionStatus
<1>4. ASSUME NEW c \in Releases \ {Null}, Health!compareVersions(a, b) <= 0,
             Health!compareVersions(b, c) <= 0
      PROVE  Health!compareVersions(a, c) <= 0
  <2>1. c \in Parsed /\ AtMost(a, b) /\ AtMost(b, c)
      BY <1>4, VersionVerdict
  <2>2. AtMost(a, c)
      BY <1>1, <2>1, AtMostOrders
  <2> QED BY <2>2, VersionVerdict
<1> QED BY <1>1, <1>2, <1>3, <1>4, AtMostOrders

(* ---- one behaviour is about one component ---- *)

LEMMA OwnSteps ==
  ASSUME [Next]_vars
  PROVE  /\ focus' = focus
         /\ focus = "install" => [Install!Next]_(Install!vars)
         /\ focus = "shell" => [Shell!Next]_(Shell!vars)
         /\ focus = "child" => [Child!Next]_(Child!vars)
         /\ focus = "preview" => [Preview!Next]_(Preview!vars)
         /\ focus = "command" => [Command!Next]_(Command!vars)
         /\ focus = "health" => [Health!Next]_(Health!vars)
         /\ focus = "audit" => [Audit!Next]_(Audit!vars)
<1>1. CASE UNCHANGED vars
  <2>1. UNCHANGED Install!vars
      BY <1>1 DEF vars, installOwn, Install!vars
  <2>2. UNCHANGED Shell!vars
      BY <1>1 DEF vars, shellOwn, Shell!vars
  <2>3. UNCHANGED Child!vars
      BY <1>1 DEF vars, childOwn, Child!vars, Child!worker, Child!app
  <2>4. UNCHANGED Preview!vars
      BY <1>1 DEF vars, previewOwn, Preview!vars
  <2>5. UNCHANGED Command!vars
      BY <1>1 DEF vars, commandOwn, Command!vars, Command!srv, Command!adguard
  <2>6. UNCHANGED Health!vars
      BY <1>1 DEF vars, healthOwn, Health!vars
  <2>7. UNCHANGED Audit!vars
      BY <1>1 DEF vars, auditOwn, Audit!vars
  <2>8. UNCHANGED focus
      BY <1>1 DEF vars
  <2> QED BY <2>1, <2>2, <2>3, <2>4, <2>5, <2>6, <2>7, <2>8
<1>2. CASE InstallNext
    BY <1>2 DEF InstallNext
<1>3. CASE ShellNext
    BY <1>3 DEF ShellNext
<1>4. CASE ChildNext
    BY <1>4 DEF ChildNext
<1>5. CASE PreviewNext
    BY <1>5 DEF PreviewNext
<1>6. CASE CommandNext
    BY <1>6 DEF CommandNext
<1>7. CASE HealthNext
    BY <1>7 DEF HealthNext
<1>8. CASE AuditNext
    BY <1>8 DEF AuditNext
<1>9. CASE ListNext \/ NotifyNext
    BY <1>9 DEF ListNext, NotifyNext
<1> QED BY <1>1, <1>2, <1>3, <1>4, <1>5, <1>6, <1>7, <1>8, <1>9 DEF Next

EdgesInv ==
  /\ focus = "install" => InstallInv
  /\ focus = "shell" => ShellInv
  /\ focus = "child" => ChildInv
  /\ focus = "preview" => PreviewInv
  /\ focus = "command" => CommandInv
  /\ focus = "health" => HealthInv
  /\ focus = "audit" => TrailInv

LEMMA EdgesInductive == Spec => []EdgesInv
<1>1. Init => EdgesInv
  <2> SUFFICES ASSUME Init PROVE EdgesInv
      OBVIOUS
  <2>1. /\ focus = "install" => Install!Init
        /\ focus = "shell" => Shell!Init
        /\ focus = "child" => Child!Init
        /\ focus = "preview" => Preview!Init
        /\ focus = "command" => Command!Init
        /\ focus = "health" => Health!Init
        /\ focus = "audit" => Audit!Init
      BY DEF Init
  <2> QED BY <2>1, InstallInit, ShellInit, ChildInit, PreviewInit, CommandInit, HealthInit,
             TrailInit, EdgesAssumption DEF EdgesInv
<1>2. EdgesInv /\ [Next]_vars => EdgesInv'
  <2> SUFFICES ASSUME EdgesInv, [Next]_vars PROVE EdgesInv'
      OBVIOUS
  <2>1. focus = "install" => InstallInv'
      BY OwnSteps, InstallStepInv, EdgesAssumption DEF EdgesInv
  <2>2. focus = "shell" => ShellInv'
      BY OwnSteps, ShellStep, EdgesAssumption DEF EdgesInv
  <2>3. focus = "child" => ChildInv'
      BY OwnSteps, ChildStepInv, EdgesAssumption DEF EdgesInv
  <2>4. focus = "preview" => PreviewInv'
      BY OwnSteps, PreviewStep, EdgesAssumption DEF EdgesInv
  <2>5. focus = "command" => CommandInv'
      BY OwnSteps, CommandStepInv, EdgesAssumption DEF EdgesInv
  <2>6. focus = "health" => HealthInv'
      BY OwnSteps, HealthStepInv, EdgesAssumption DEF EdgesInv
  <2>7. focus = "audit" => TrailInv'
      BY OwnSteps, TrailStepInv, EdgesAssumption DEF EdgesInv
  <2> QED BY OwnSteps, <2>1, <2>2, <2>3, <2>4, <2>5, <2>6, <2>7 DEF EdgesInv
<1> QED BY <1>1, <1>2, PTL DEF Spec

\* For any users, tokens, releases and number of runs, each cut anywhere or answered late
\* (install-client.sh and its libraries, the register route): a token makes one client and
\* a host has one row at a time, a stamp means the version on disk was unpacked to the end,
\* and an installer that says it is complete has the tools in force and the host's
\* credentials stored, but for the cuts the property names.
THEOREM InstallIsSound == Spec => []InstallSound
<1>1. EdgesInv => InstallSound
    BY InstallInvSound, EdgesAssumption DEF EdgesInv, InstallSound
<1> QED BY <1>1, EdgesInductive, PTL

\* The admin page (routes/admin/+page.svelte, SetupProgressScreen.svelte,
\* resources.svelte.ts), for any number of logins, polls and loads: a view is shown only with the set-up answer known, an admin
\* on the set-up screen has a way out now or will get one, and views that mount together
\* share one load, of this login, unless a poll or a load outlived its login. The child's
\* page (service-worker.ts, routes/app/+page.svelte), for any children and versions: it
\* comes up whole under a worker, offline too, unless a deployment or a new worker crossed
\* it; the status shown is that of the child signed in; and after a sign-out that got
\* through nobody is.
THEOREM ShellIsSound == Spec => []ShellSound
<1>1. EdgesInv => ShellSound
    BY ShellInvSound, ChildInvSound, EdgesAssumption DEF EdgesInv, ShellSound
<1> QED BY <1>1, EdgesInductive, PTL

\* The preview (PolicyPreviewView.svelte): at rest the diff on the page is that of the
\* user selected and of the sandbox as it stands, and selecting a user proposes nothing,
\* whatever comes late, twice or out of order. The panes that act (AddTimeToday.svelte,
\* DnsFilteringView.svelte, api/dns/routes.ts): a spinner stands for exactly one request
\* under way; a success on the page is a change made for the user selected, unless the
\* selection was changed meanwhile, and one made without it is one whose answer was lost;
\* "Pushed" stands beside a table at least as new as what was pushed.
THEOREM PanesIsSound == Spec => []PanesSound
<1>1. EdgesInv => PanesSound
    BY PreviewInvSound, CommandInvSound, EdgesAssumption DEF EdgesInv, PanesSound
<1> QED BY <1>1, EdgesInductive, PTL

\* The audit trail (AuditingTransport #run, DrizzleAuditSink.record, redactArgv), for any
\* clients, argument vectors and number of commands under way together: a command that has
\* settled left one row, which says whether it succeeded, unless the store refused it; one
\* still running left none; and no secret reaches the log in either spelling of its flag.
THEOREM AuditIsSound == Spec => []AuditSound
<1>1. EdgesInv => AuditSound
    BY TrailInvSound, EdgesAssumption DEF EdgesInv, AuditSound
<1> QED BY <1>1, EdgesInductive, PTL

\* The clients page (health-service.ts, prober.ts, concurrency.ts, verifier.ts), for any
\* clients, lists and checks: an answered list has an entry for every client and waits for
\* none; until its deadline it probes no more of them at once than its limit; last_seen
\* is no later than the client's last answer, nor earlier than a successful check, unless
\* sightings overlapped; a check has a reason exactly when the client was not reached. For
\* any versions, compareVersions orders those that parse (version-status.ts).
THEOREM HealthIsSound == Spec => []HealthSound
<1>1. EdgesInv => HealthSound
    BY HealthInvSound, VersionsAreOrdered, EdgesAssumption DEF EdgesInv, HealthSound
<1> QED BY <1>1, EdgesInductive, PTL
=============================================================================
