------------------------------- MODULE Access -------------------------------
(***************************************************************************)
(* Who may call the dashboard: the admin's password login, the supervised  *)
(* users' PINs and PIN sessions, and integration tokens (server/src/auth,  *)
(* api/app/routes.ts, policy/user-pins.ts, integrations/tokens.ts).        *)
(*                                                                         *)
(* Hashing and verifying are awaited, so a login or a PIN change is two    *)
(* steps with others between them.  A secret is a number, 0 for none; the  *)
(* hash of a secret is the secret.  0 is the admin's account, and a key of *)
(* a limiter is the account a login names (one address).                   *)
(***************************************************************************)
EXTENDS Integers, FiniteSets

CONSTANTS Secrets,               \* passwords and PINs
          AdminPassword,         \* PCT_ADMIN_PASSWORD; 0 when it is not set
          Names,                 \* of integration tokens
          MaxAttempts, WindowMs, \* of FixedWindowRateLimiter
          PinTtl, SessionTtl,    \* PIN_SESSION_TTL_SECONDS, SESSION_TTL_SECONDS
          Null,
          MaxFlights, MaxUsers, MaxNow, MaxCookies, MaxRequests, MaxTokens  \* bounds

VARIABLES
  now,
  users,      \* id -> the person the account is for
  nextId,
  pins,       \* id -> PIN; 0 for none.  pins[0] is the admin's password
  windows,    \* key -> [count, startedAt]
  logins,     \* awaited verifications: [uid, guess, hash, who]
  puts,       \* awaited PIN hashes: [uid, pin]
  cookies,    \* session cookies in a browser: [uid, iat, who]
  tokens,     \* id -> [name, revokedAt, lastUsedAt]
  requests,   \* requests made so far
  hist        \* history: [intent, overlapped, honest, first]

vars == <<now, users, nextId, pins, windows, logins, puts, cookies, tokens, requests, hist>>
accounts == <<users, nextId, pins>>

Ids == 0 .. MaxUsers

\* One more of the requests the bound allows.
Request == requests < MaxRequests /\ requests' = requests + 1

Init ==
  /\ now = 0 /\ nextId = 1 /\ requests = 0
  /\ users = [i \in {0} |-> 0]
  /\ pins = [i \in Ids |-> 0]
  /\ windows = [i \in Ids |-> Null]
  /\ logins = {} /\ puts = {} /\ cookies = {}
  /\ tokens = [i \in {} |-> Null]
  /\ hist = [intent |-> [i \in Ids |-> 0], overlapped |-> {}, honest |-> TRUE,
             first |-> [i \in 1 .. MaxTokens |-> Null]]

-----------------------------------------------------------------------------
(* FixedWindowRateLimiter *)

\* current: the key's window, unless it has run out.
current(k) ==
  IF windows[k] = Null \/ now - windows[k].startedAt >= WindowMs THEN Null ELSE windows[k]

\* Mutant: one attempt more.
isBlockedLate(k) == current(k) # Null /\ current(k).count > MaxAttempts
isBlocked(k) == current(k) # Null /\ current(k).count >= MaxAttempts

recordFailure(k) ==
  windows' = [windows EXCEPT ![k] =
    IF current(k) = Null THEN [count |-> 1, startedAt |-> now]
                         ELSE [current(k) EXCEPT !.count = @ + 1]]

recordSuccess(k) == windows' = [windows EXCEPT ![k] = Null]

-----------------------------------------------------------------------------
(* The admin's credential and the supervised users. *)

\* bootstrapAdmin: the credential of the environment is stored once.
bootstrapAdmin ==
  /\ pins[0] = 0 /\ AdminPassword # 0
  /\ pins' = [pins EXCEPT ![0] = AdminPassword]
  /\ UNCHANGED <<now, users, nextId, windows, logins, puts, cookies, tokens, requests, hist>>

\* Mutant: the lowest free id, which a deleted user had.
freshUserIdReused == CHOOSE i \in 1 .. MaxUsers : i \notin DOMAIN users
                       /\ \A j \in 1 .. MaxUsers : j \notin DOMAIN users => i <= j
\* users.id is an AUTOINCREMENT key.
freshUserId == nextId

createUser ==
  /\ nextId <= MaxUsers /\ Request
  /\ users' = [i \in DOMAIN users \cup {freshUserId} |->
                 IF i = freshUserId THEN nextId ELSE users[i]]
  /\ nextId' = nextId + 1
  /\ UNCHANGED <<now, pins, windows, logins, puts, cookies, tokens, hist>>

\* deleteUser: user_pins goes with the user by its foreign key.
deleteUser(i) ==
  /\ i \in DOMAIN users \ {0} /\ Request
  /\ users' = [j \in DOMAIN users \ {i} |-> users[j]]
  /\ pins' = [pins EXCEPT ![i] = 0]
  /\ hist' = [hist EXCEPT !.intent[i] = 0]
  /\ UNCHANGED <<now, nextId, windows, logins, puts, cookies, tokens>>

overlap(i) == IF \E p \in puts : p.uid = i THEN {i} ELSE {}

\* PUT /users/:userId/pin, to the hash.
putPin(i, pin) ==
  /\ i \in DOMAIN users \ {0} /\ Request
  /\ [uid |-> i, pin |-> pin] \notin puts
  /\ puts' = puts \cup {[uid |-> i, pin |-> pin]}
  /\ hist' = [hist EXCEPT !.intent[i] = pin, !.overlapped = @ \cup overlap(i)]
  /\ UNCHANGED <<now, accounts, windows, logins, cookies, tokens>>

\* Mutant: a PIN that is set stays.
setUserPinKeeps(i, pin) == pins' = [pins EXCEPT ![i] = IF @ = 0 THEN pin ELSE @]
\* setUserPin: an upsert; the foreign key refuses a user who is gone.
setUserPin(i, pin) ==
  pins' = IF i \in DOMAIN users THEN [pins EXCEPT ![i] = pin] ELSE pins

\* PUT /users/:userId/pin, the rest.
putPinEnd(p) ==
  /\ puts' = puts \ {p}
  /\ setUserPin(p.uid, p.pin)
  /\ UNCHANGED <<now, users, nextId, windows, logins, cookies, tokens, requests, hist>>

\* DELETE /users/:userId/pin: clearUserPin.
deletePin(i) ==
  /\ i \in DOMAIN users \ {0} /\ Request
  /\ pins' = [pins EXCEPT ![i] = 0]
  /\ hist' = [hist EXCEPT !.intent[i] = 0, !.overlapped = @ \cup overlap(i)]
  /\ UNCHANGED <<now, users, nextId, windows, logins, puts, cookies, tokens>>

-----------------------------------------------------------------------------
(* Logins and sessions. *)

\* POST /auth/login and POST /app/session, to the verification: a blocked key is refused;
\* an account without a secret is verified against a dummy, which never matches.
login(i, guess) ==
  /\ ~isBlocked(i) /\ Cardinality(logins) < MaxFlights /\ Request
  /\ LET l == [uid |-> i, guess |-> guess, hash |-> pins[i],
               who |-> IF i \in DOMAIN users THEN users[i] ELSE Null]
     IN l \notin logins /\ logins' = logins \cup {l}
  /\ UNCHANGED <<now, accounts, windows, puts, cookies, tokens, hist>>

\* The verification fails: the failure counts against the key.
loginRefused(l) ==
  /\ l.hash = 0 \/ l.guess # l.hash
  /\ logins' = logins \ {l}
  /\ recordFailure(l.uid)
  /\ UNCHANGED <<now, accounts, puts, cookies, tokens, requests, hist>>

\* issueSession, issuePinSession: a signed cookie, and the key's failures are forgotten.
loginAccepted(l) ==
  /\ l.hash # 0 /\ l.guess = l.hash /\ Cardinality(cookies) < MaxCookies
  /\ logins' = logins \ {l}
  /\ recordSuccess(l.uid)
  /\ cookies' = cookies \cup {[uid |-> l.uid, iat |-> now, who |-> l.who]}
  /\ UNCHANGED <<now, accounts, puts, tokens, requests, hist>>

ttl(i) == IF i = 0 THEN SessionTtl ELSE PinTtl

\* readSession, readPinSession: a cookie holds for its TTL.
readSession(c) == now - c.iat <= ttl(c.uid)

\* requireAdmin, requirePinSession with GET /app/me: the user must still exist.
serve(c) ==
  /\ readSession(c) /\ c.uid \in DOMAIN users
  /\ hist' = [hist EXCEPT !.honest = @ /\ c.who = users[c.uid] /\ now - c.iat <= ttl(c.uid)]
  /\ UNCHANGED <<now, accounts, windows, logins, puts, cookies, tokens, requests>>

\* POST /auth/logout, DELETE /app/session: the browser drops the cookie.
logout(c) ==
  /\ cookies' = cookies \ {c}
  /\ UNCHANGED <<now, accounts, windows, logins, puts, tokens, requests, hist>>

\* The server restarts: the limiters and what was awaited are gone.
Restart ==
  /\ logins' = {} /\ puts' = {}
  /\ windows' = [i \in Ids |-> Null]
  /\ hist' = [hist EXCEPT !.overlapped = @ \cup {p.uid : p \in puts}]
  /\ UNCHANGED <<now, accounts, cookies, tokens, requests>>

-----------------------------------------------------------------------------
(* Integration tokens. *)

\* issueIntegrationToken: a name is used once, revoked tokens included.
issueIntegrationToken(n) ==
  /\ Cardinality(DOMAIN tokens) < MaxTokens /\ Request
  /\ \A i \in DOMAIN tokens : tokens[i].name # n
  /\ tokens' = [i \in DOMAIN tokens \cup {Cardinality(DOMAIN tokens) + 1} |->
                  IF i \in DOMAIN tokens THEN tokens[i]
                  ELSE [name |-> n, revokedAt |-> Null, lastUsedAt |-> Null]]
  /\ UNCHANGED <<now, accounts, windows, logins, puts, cookies, hist>>

\* revokeIntegrationToken: the first revocation's time stays.
revokeIntegrationToken(i) ==
  /\ Request
  /\ tokens' = [tokens EXCEPT ![i].revokedAt = IF @ = Null THEN now ELSE @]
  /\ hist' = [hist EXCEPT !.first[i] = IF @ = Null THEN now ELSE @]
  /\ UNCHANGED <<now, accounts, windows, logins, puts, cookies>>

\* authenticateIntegrationToken: the use is recorded before requireIntegrationToken looks
\* at the scopes.
authenticateIntegrationToken(i) ==
  /\ tokens[i].revokedAt = Null /\ Request
  /\ tokens' = [tokens EXCEPT ![i].lastUsedAt = now]
  /\ UNCHANGED <<now, accounts, windows, logins, puts, cookies, hist>>

Tick ==
  /\ now < MaxNow /\ now' = now + 1
  /\ UNCHANGED <<accounts, windows, logins, puts, cookies, tokens, requests, hist>>

Next ==
  \/ bootstrapAdmin \/ createUser \/ Restart \/ Tick
  \/ \E i \in Ids : deleteUser(i) \/ deletePin(i)
  \/ \E i \in Ids, s \in Secrets : putPin(i, s) \/ login(i, s)
  \/ \E p \in puts : putPinEnd(p)
  \/ \E l \in logins : loginRefused(l) \/ loginAccepted(l)
  \/ \E c \in cookies : serve(c) \/ logout(c)
  \/ \E n \in Names : issueIntegrationToken(n)
  \/ \E i \in DOMAIN tokens : revokeIntegrationToken(i) \/ authenticateIntegrationToken(i)

Spec == Init /\ [][Next]_vars

-----------------------------------------------------------------------------
(* Properties. *)

\* A key gets no more failures in a window than MaxAttempts and those already awaited
\* when the last of them counted: the verification is awaited between the check and the
\* count.
FailuresBounded ==
  \A k \in Ids : windows[k] # Null => windows[k].count < MaxAttempts + MaxFlights

\* A session serves the person who logged in, and no longer than its TTL, over deleted
\* and new accounts.
SessionsHonest == hist.honest

\* The stored PIN is the one the admin asked for last, unless two requests for it
\* overlapped or a restart dropped one: the later may be overwritten by the earlier.
PinIsLastAsked ==
  \A i \in DOMAIN users \ (hist.overlapped \cup {0}) :
    (\A p \in puts : p.uid # i) => pins[i] = hist.intent[i]

\* A token is revoked once, and not used after.
RevokedForGood ==
  \A i \in DOMAIN tokens :
    /\ tokens[i].revokedAt = hist.first[i]
    /\ tokens[i].revokedAt # Null /\ tokens[i].lastUsedAt # Null =>
         tokens[i].lastUsedAt <= tokens[i].revokedAt

\* The four, with verifications and hashes awaited while other requests run.
AccessSound ==
  /\ FailuresBounded
  /\ SessionsHonest
  /\ PinIsLastAsked
  /\ RevokedForGood
=============================================================================
