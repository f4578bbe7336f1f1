------------------------------ MODULE Mailbox ------------------------------
(***************************************************************************)
(* What the offline transport queue promises: one mailbox per target (a    *)
(* client and a coalesce key) that holds at most one action, the last one  *)
(* put there; a server that takes what a single client's mailboxes hold    *)
(* and empties, or marks as failed, only a mailbox it is serving; actions  *)
(* that run, and either finish or land in the mailbox of their own target. *)
(* There are no rows, no ids and no snapshots here.                        *)
(***************************************************************************)
EXTENDS Integers

CONSTANTS Clients, Keys

VARIABLES
  running,   \* actions whose executor was started by the push itself
  box,       \* target -> Empty or what is kept for it
  serving,   \* the targets the drainer has still to serve
  count      \* actions issued so far

vars == <<running, box, serving, count>>

Targets == Clients \X Keys
Empty == [payload |-> 0, status |-> "empty"]
target(a) == <<a.client, a.key>>

Init ==
  /\ running = {} /\ serving = {} /\ count = 0
  /\ box = [t \in Targets |-> Empty]

Issue(t) ==
  /\ count' = count + 1
  /\ running' = running \cup {[client |-> t[1], key |-> t[2], payload |-> count + 1]}
  /\ UNCHANGED <<box, serving>>

\* Delivered, or reported as failed.
Finish(a) ==
  /\ running' = running \ {a}
  /\ UNCHANGED <<box, serving, count>>

\* The client could not be reached or did not finish in time: kept, in place of
\* what was kept before.
Put(a) ==
  /\ running' = running \ {a}
  /\ box' = [box EXCEPT ![target(a)] = [payload |-> a.payload, status |-> "pending"]]
  /\ UNCHANGED <<serving, count>>

\* The drainer turns to a client: all that is pending for it, and only that.
Serve(c) ==
  /\ serving = {}
  /\ serving' = {t \in Targets : t[1] = c /\ box[t].status = "pending"}
  /\ UNCHANGED <<running, box, count>>

Take(t) ==
  /\ t \in serving /\ serving' = serving \ {t}
  /\ box' = [box EXCEPT ![t] = Empty]
  /\ UNCHANGED <<running, count>>

\* A dead letter stays until something newer is put in its place.
Bounce(t) ==
  /\ t \in serving /\ serving' = serving \ {t}
  /\ box' = [box EXCEPT ![t] = IF @ = Empty THEN @ ELSE [@ EXCEPT !.status = "failed"]]
  /\ UNCHANGED <<running, count>>

\* The client did not answer in time after all: the rest is left for a later
\* round.
GiveUp ==
  /\ serving' = {}
  /\ UNCHANGED <<running, box, count>>

\* The client is deleted, with all that is kept for it.
Forget(c) ==
  /\ box' = [t \in Targets |-> IF t[1] = c THEN Empty ELSE box[t]]
  /\ UNCHANGED <<running, serving, count>>

\* The server restarts: the mailboxes survive, the rest does not.
Restart ==
  /\ running' = {} /\ serving' = {}
  /\ UNCHANGED <<box, count>>

Next ==
  \/ \E t \in Targets : Issue(t) \/ Take(t) \/ Bounce(t)
  \/ \E a \in running : Finish(a) \/ Put(a)
  \/ \E c \in Clients : Serve(c) \/ Forget(c)
  \/ GiveUp \/ Restart

Spec == Init /\ [][Next]_vars
=============================================================================
