--------------------------- MODULE ServicesProofs ---------------------------
(***************************************************************************)
(* Services of the server, as MCServices puts them side by side: access,   *)
(* the timekpr mirror, retention and the data volume, for any bounds.      *)
(*                                                                         *)
(* Access.  Its four parts are independent but for the typing.  A key's    *)
(* failures and its awaited verifications share one allowance; a user id   *)
(* names one person for good; a PIN whose requests never overlapped is the *)
(* last one asked for, or is still being hashed; and a token's stamps lie  *)
(* in the order in which they were made.                                   *)
(*                                                                         *)
(* The mirror.  Failures in a row cannot outnumber the refreshes there was *)
(* time for, so the exponent of the wait has a largest value; the sentinel *)
(* is written last, so what it names was whole when it was written.        *)
(*                                                                         *)
(* Retention.  A row's deletion is remembered with the rule it fell under; *)
(* what the window of a budget counts ends after anything an equal or      *)
(* longer rule calls expired; and the passes of a run delete from disjoint *)
(* tables, so that their counts add up to the dry run's.                   *)
(*                                                                         *)
(* The data volume.  The trust between store and keys is carried by every  *)
(* archive, by a backup at each of its steps and by a restore over each of *)
(* its copies; a key is made only where there was none.  The sidecar on    *)
(* disk is that of the store on disk; a snapshot just taken is the newest  *)
(* and is not pruned; a venv holds what was recorded or what the image     *)
(* wants.                                                                  *)
(***************************************************************************)
EXTENDS MCServices, FiniteSetTheorems, SequenceTheorems, TLAPS

(* ---- access ---- *)

\* The instance has its own name for the library's Cardinality.
LEMMA AccessCardinality == \A S : Access!Cardinality(S) = Cardinality(S)
BY DEF Access!Cardinality, Cardinality

Hash == Secrets \cup {0, AdminPassword}
Login == [uid : Access!Ids, guess : Secrets, hash : Hash, who : Access!Ids \cup {Null}]
Instant == Nat \cup {Null}
Token == [name : Names, revokedAt : Instant, lastUsedAt : Instant]
Window == [count : Nat, startedAt : Nat]

AccessTyped ==
  /\ now \in Nat /\ nextId \in Nat \ {0}
  /\ pins \in [Access!Ids -> Hash] /\ windows \in [Access!Ids -> {Null} \cup Window]
  /\ logins \subseteq Login /\ IsFiniteSet(logins)
  /\ puts \subseteq [uid : Access!Ids \ {0}, pin : Secrets]
  /\ hist \in [intent : [Access!Ids -> Hash], overlapped : SUBSET Access!Ids, honest : BOOLEAN,
               first : [1 .. MaxTokens -> Instant]]

\* A verification of key k that is under way.
Awaited(k) == {l \in logins : l.uid = k}

\* The failures of an open window and the verifications that may still add to them.
Limited ==
  /\ Cardinality(logins) <= MaxFlights
  /\ Access!FailuresBounded
  /\ \A k \in Access!Ids : Access!current(k) # Null =>
       windows[k].count + Cardinality(Awaited(k)) < MaxAttempts + MaxFlights

\* An id names one person for good, and only an account that exists has a secret.
Named ==
  /\ 0 \in DOMAIN users /\ users = [i \in DOMAIN users |-> i]
  /\ \A i \in DOMAIN users : i \in Access!Ids /\ i < nextId
  /\ \A i \in Access!Ids : pins[i] # 0 => i \in DOMAIN users
  /\ \A l \in logins : l.hash # 0 => l.who = l.uid
  /\ \A c \in cookies : c.who = c.uid
  /\ Access!SessionsHonest

\* Requests for one PIN that never overlapped leave the last of them stored or on its way.
Followed ==
  /\ Access!PinIsLastAsked
  /\ \A i \in DOMAIN users \ (hist.overlapped \cup {0}) :
       \A p \in puts : p.uid = i => p.pin = hist.intent[i]
  /\ \A p \in puts : p.uid < nextId
  /\ \A i \in Access!Ids : i >= nextId => hist.intent[i] = 0

\* Tokens are numbered in turn, and their stamps are in the past.
Stamped ==
  /\ \E n \in 0 .. MaxTokens :
       /\ tokens \in [1 .. n -> Token]
       /\ \A i \in (n + 1) .. MaxTokens : hist.first[i] = Null
  /\ \A i \in DOMAIN tokens :
       /\ tokens[i].revokedAt # Null => tokens[i].revokedAt <= now
       /\ tokens[i].lastUsedAt # Null => tokens[i].lastUsedAt <= now
  /\ Access!RevokedForGood

AccessInv == AccessTyped /\ Limited /\ Named /\ Followed /\ Stamped

(* ---- steps that do not concern a part ---- *)

LEMMA LimitedSame ==
  ASSUME AccessOK, AccessInv, UNCHANGED <<logins, windows>>, now' \in {now, now + 1}
  PROVE  Limited'
<1>1. \A k \in Access!Ids : Access!current(k)' # Null => Access!current(k) # Null
  <2> SUFFICES ASSUME NEW k \in Access!Ids, Access!current(k)' # Null PROVE Access!current(k) # Null
    OBVIOUS
  <2>1. windows[k] # Null /\ ~(now' - windows[k].startedAt >= WindowMs)
    BY DEF Access!current
  <2>2. windows[k].startedAt \in Nat /\ now \in Nat /\ WindowMs \in Nat
    BY <2>1 DEF AccessOK, AccessInv, AccessTyped, Window
  <2>3. ~(now - windows[k].startedAt >= WindowMs)
    BY <2>1, <2>2
  <2> QED
    BY <2>1, <2>3 DEF Access!current
<1>2. Access!FailuresBounded'
  BY DEF AccessInv, Limited, Access!FailuresBounded
<1>3. \A k \in Access!Ids : Awaited(k)' = Awaited(k)
  BY DEF Awaited
<1> QED
  BY <1>1, <1>2, <1>3 DEF AccessInv, Limited

LEMMA NamedSame ==
  ASSUME AccessInv, UNCHANGED <<users, nextId, pins>>, logins' \subseteq logins, cookies' \subseteq cookies,
         hist'.honest = hist.honest
  PROVE  Named'
BY DEF AccessInv, Named, Access!SessionsHonest

LEMMA FollowedSame ==
  ASSUME AccessInv, UNCHANGED <<users, nextId, pins, puts>>, hist'.intent = hist.intent,
         hist'.overlapped = hist.overlapped
  PROVE  Followed'
BY DEF AccessInv, Followed, Access!PinIsLastAsked

LEMMA StampedSame ==
  ASSUME AccessInv, UNCHANGED tokens, hist'.first = hist.first, now' \in {now, now + 1}
  PROVE  Stamped'
<1>1. now \in Nat /\ now <= now'
  BY DEF AccessInv, AccessTyped
<1>2. PICK n \in 0 .. MaxTokens :
         tokens \in [1 .. n -> Token] /\ \A i \in (n + 1) .. MaxTokens : hist.first[i] = Null
  BY DEF AccessInv, Stamped
<1>3. \A i \in DOMAIN tokens : tokens[i].revokedAt \in Instant /\ tokens[i].lastUsedAt \in Instant
  BY <1>2 DEF Token
<1>4. \A t \in Instant : t # Null /\ t <= now => t <= now'
  BY <1>1 DEF Instant, AccessInv, AccessTyped
<1>5. \A i \in DOMAIN tokens' :
         /\ tokens'[i].revokedAt # Null => tokens'[i].revokedAt <= now'
         /\ tokens'[i].lastUsedAt # Null => tokens'[i].lastUsedAt <= now'
  BY <1>3, <1>4 DEF AccessInv, Stamped
<1>6. Access!RevokedForGood'
  BY DEF AccessInv, Stamped, Access!RevokedForGood
<1> QED
  BY <1>2, <1>5, <1>6 DEF Stamped

(* ---- accounts and PINs ---- *)

LEMMA AccessInitInv == ASSUME AccessOK, Access!Init PROVE AccessInv
<1>1. logins = {} /\ IsFiniteSet(logins) /\ Cardinality(logins) = 0
  BY FS_EmptySet DEF Access!Init
<1>2. AccessTyped
  BY <1>1 DEF AccessOK, Access!Init, AccessTyped, Hash, Instant
<1>3. \A k \in Access!Ids : windows[k] = Null /\ Access!current(k) = Null
  BY DEF Access!Init, Access!current
<1>4. Limited
  BY <1>1, <1>3 DEF AccessOK, Limited, Access!FailuresBounded
<1>5. Named
  BY DEF AccessOK, Access!Init, Named, Access!SessionsHonest, Access!Ids
<1>6. Followed
  BY DEF Access!Init, Followed, Access!PinIsLastAsked
<1>7. Stamped
  <2>1. tokens \in [1 .. 0 -> Token] /\ DOMAIN tokens = {} /\ 0 \in 0 .. MaxTokens
    BY DEF Access!Init, AccessOK
  <2>2. \A i \in (0 + 1) .. MaxTokens : hist.first[i] = Null
    BY DEF Access!Init
  <2> QED
    BY <2>1, <2>2 DEF Stamped, Access!RevokedForGood
<1> QED
  BY <1>2, <1>4, <1>5, <1>6, <1>7 DEF AccessInv

LEMMA BootstrapInv == ASSUME AccessOK, AccessInv, Access!bootstrapAdmin PROVE AccessInv'
<1>1. /\ pins' = [pins EXCEPT ![0] = AdminPassword]
      /\ UNCHANGED <<now, users, nextId, windows, logins, puts, cookies, tokens, hist>>
  BY DEF Access!bootstrapAdmin
<1>2. 0 \in Access!Ids
  BY DEF AccessOK, Access!Ids
<1>3. AccessTyped'
  BY <1>1, <1>2 DEF AccessInv, AccessTyped, Hash
<1>4. Named'
  BY <1>1, <1>2 DEF AccessInv, AccessTyped, Named, Access!SessionsHonest
<1>5. Followed'
  BY <1>1 DEF AccessInv, AccessTyped, Named, Followed, Access!PinIsLastAsked
<1> QED
  BY <1>1, <1>3, <1>4, <1>5, LimitedSame, StampedSame DEF AccessInv

\* The new id has been nobody's: no secret, no request and no person goes with it.
LEMMA CreateUserInv == ASSUME AccessOK, AccessInv, Access!createUser PROVE AccessInv'
<1>1. /\ users' = [i \in DOMAIN users \cup {nextId} |-> IF i = nextId THEN nextId ELSE users[i]]
      /\ nextId' = nextId + 1 /\ nextId <= MaxUsers
      /\ UNCHANGED <<now, pins, windows, logins, puts, cookies, tokens, hist>>
  BY DEF Access!createUser, Access!freshUserId
<1>2. nextId \in Access!Ids /\ nextId \in Nat /\ nextId # 0
  BY <1>1 DEF AccessOK, AccessInv, AccessTyped, Access!Ids
<1>3. AccessTyped'
  BY <1>1, <1>2 DEF AccessInv, AccessTyped
<1>4. DOMAIN users' = DOMAIN users \cup {nextId}
  BY <1>1
<1>5. users' = [i \in DOMAIN users' |-> i]
  BY <1>1, <1>4 DEF AccessInv, Named
<1>6. \A i \in DOMAIN users : i \in Nat /\ i < nextId
  BY DEF AccessInv, Named, Access!Ids
<1>7. Named'
  BY <1>1, <1>2, <1>4, <1>5, <1>6 DEF AccessInv, Named, Access!SessionsHonest
<1>8. pins[nextId] = 0 /\ hist.intent[nextId] = 0
  BY <1>2, <1>6 DEF AccessInv, Named, Followed
<1>9. \A p \in puts : p.uid \in Nat /\ p.uid < nextId /\ p.uid # nextId
  BY <1>2 DEF AccessInv, AccessTyped, Followed, Access!Ids
<1>10. \A i \in Access!Ids : i \in Nat /\ (i >= nextId + 1 => i >= nextId)
  BY <1>2 DEF Access!Ids
<1>11. Followed'
  <2>1. Access!PinIsLastAsked'
    BY <1>1, <1>4, <1>8 DEF AccessInv, Followed, Access!PinIsLastAsked
  <2> QED
    BY <1>1, <1>2, <1>4, <1>9, <1>10, <2>1 DEF AccessInv, Followed
<1> QED
  BY <1>1, <1>3, <1>7, <1>11, LimitedSame, StampedSame DEF AccessInv

LEMMA DeleteUserInv == ASSUME AccessOK, AccessInv, NEW i \in Access!Ids, Access!deleteUser(i) PROVE AccessInv'
<1>1. /\ users' = [j \in DOMAIN users \ {i} |-> users[j]]
      /\ pins' = [pins EXCEPT ![i] = 0] /\ i # 0
      /\ hist' = [hist EXCEPT !.intent = [hist.intent EXCEPT ![i] = 0]]
      /\ UNCHANGED <<now, nextId, windows, logins, puts, cookies, tokens>>
  BY DEF Access!deleteUser
<1>2. /\ hist'.intent = [hist.intent EXCEPT ![i] = 0] /\ hist'.overlapped = hist.overlapped
      /\ hist'.honest = hist.honest /\ hist'.first = hist.first
      /\ hist' = [intent |-> hist'.intent, overlapped |-> hist'.overlapped, honest |-> hist'.honest,
                  first |-> hist'.first]
  BY <1>1 DEF AccessInv, AccessTyped
<1>3. hist'.intent \in [Access!Ids -> Hash] /\ \A j \in Access!Ids : hist'.intent[j] = IF j = i THEN 0 ELSE hist.intent[j]
  BY <1>2 DEF AccessInv, AccessTyped, Hash
<1>4. pins' \in [Access!Ids -> Hash] /\ \A j \in Access!Ids : pins'[j] = IF j = i THEN 0 ELSE pins[j]
  BY <1>1 DEF AccessInv, AccessTyped, Hash
<1>5. AccessTyped'
  BY <1>1, <1>2, <1>3, <1>4 DEF AccessInv, AccessTyped
<1>6. DOMAIN users' = DOMAIN users \ {i}
  BY <1>1
<1>7. users' = [j \in DOMAIN users' |-> j]
  BY <1>1, <1>6 DEF AccessInv, Named
<1>8. Named'
  BY <1>1, <1>2, <1>4, <1>6, <1>7 DEF AccessInv, Named, Access!SessionsHonest
<1>9. \A j \in DOMAIN users' : j \in Access!Ids /\ j # i /\ j \in DOMAIN users
  BY <1>6 DEF AccessInv, Named
<1>10. Followed'
  <2>1. Access!PinIsLastAsked'
    BY <1>1, <1>2, <1>3, <1>4, <1>9 DEF AccessInv, Followed, Access!PinIsLastAsked
  <2> QED
    BY <1>1, <1>2, <1>3, <1>9, <2>1 DEF AccessInv, Followed
<1> QED
  BY <1>1, <1>2, <1>5, <1>8, <1>10, LimitedSame, StampedSame DEF AccessInv

\* What the history keeps when a request changes what is intended for user i.
LEMMA Intended ==
  ASSUME AccessInv, NEW i \in Access!Ids, NEW code \in Hash,
         hist' = [hist EXCEPT !.intent = [hist.intent EXCEPT ![i] = code],
                              !.overlapped = hist.overlapped \cup Access!overlap(i)]
  PROVE  /\ hist' \in [intent : [Access!Ids -> Hash], overlapped : SUBSET Access!Ids, honest : BOOLEAN,
                       first : [1 .. MaxTokens -> Instant]]
         /\ hist'.honest = hist.honest /\ hist'.first = hist.first
         /\ hist'.overlapped = hist.overlapped \cup Access!overlap(i)
         /\ \A j \in Access!Ids : hist'.intent[j] = IF j = i THEN code ELSE hist.intent[j]
<1>1. Access!overlap(i) \subseteq Access!Ids
  BY DEF Access!overlap
<1> QED
  BY <1>1 DEF AccessInv, AccessTyped

\* A second request while one is being hashed is an overlap; else it is the only one.
LEMMA PutPinInv == ASSUME AccessOK, AccessInv, NEW i \in Access!Ids, NEW code \in Secrets, Access!putPin(i, code) PROVE AccessInv'
<1> DEFINE new == [uid |-> i, pin |-> code]
<1>1. /\ i \in DOMAIN users /\ i # 0 /\ puts' = puts \cup {new}
      /\ hist' = [hist EXCEPT !.intent = [hist.intent EXCEPT ![i] = code],
                              !.overlapped = hist.overlapped \cup Access!overlap(i)]
      /\ UNCHANGED <<now, users, nextId, pins, windows, logins, cookies, tokens>>
  BY DEF Access!putPin, Access!accounts
<1>2. new.uid = i /\ new.pin = code /\ new \in [uid : Access!Ids \ {0}, pin : Secrets]
  BY <1>1
<1> HIDE DEF new
<1>3. /\ hist' \in [intent : [Access!Ids -> Hash], overlapped : SUBSET Access!Ids, honest : BOOLEAN,
                    first : [1 .. MaxTokens -> Instant]]
      /\ hist'.honest = hist.honest /\ hist'.first = hist.first
      /\ hist'.overlapped = hist.overlapped \cup Access!overlap(i)
      /\ \A j \in Access!Ids : hist'.intent[j] = IF j = i THEN code ELSE hist.intent[j]
  BY <1>1, Intended DEF Hash
<1>4. AccessTyped'
  BY <1>1, <1>2, <1>3 DEF AccessInv, AccessTyped
<1>5. i < nextId /\ i \in Nat /\ nextId \in Nat /\ \A j \in DOMAIN users : j \in Access!Ids
  BY <1>1 DEF AccessInv, AccessTyped, Named, Access!Ids
<1>6. i \notin hist'.overlapped => \A p \in puts : p.uid # i
  BY <1>3 DEF Access!overlap
<1>7. \A j \in Access!Ids : j >= nextId => j # i
  BY <1>5 DEF Access!Ids
<1>8. Followed'
  <2>1. Access!PinIsLastAsked'
    BY <1>1, <1>2, <1>3, <1>5 DEF AccessInv, Followed, Access!PinIsLastAsked
  <2>2. ASSUME NEW j \in DOMAIN users' \ (hist'.overlapped \cup {0}), NEW p \in puts', p.uid = j
        PROVE  p.pin = hist'.intent[j]
    <3>1. CASE j = i
      BY <1>1, <1>2, <1>3, <1>6, <2>2, <3>1
    <3>2. CASE j # i
      BY <1>1, <1>2, <1>3, <1>5, <2>2, <3>2 DEF AccessInv, Followed
    <3> QED
      BY <3>1, <3>2
  <2> QED
    BY <1>1, <1>2, <1>3, <1>5, <1>7, <2>1, <2>2 DEF AccessInv, Followed
<1> QED
  BY <1>1, <1>3, <1>4, <1>8, LimitedSame, NamedSame, StampedSame DEF AccessInv

\* The hash that ends is that of the last request, unless requests overlapped.
LEMMA PutPinEndInv == ASSUME AccessOK, AccessInv, NEW p \in puts, Access!putPinEnd(p) PROVE AccessInv'
<1>1. /\ puts' = puts \ {p}
      /\ pins' = IF p.uid \in DOMAIN users THEN [pins EXCEPT ![p.uid] = p.pin] ELSE pins
      /\ UNCHANGED <<now, users, nextId, windows, logins, cookies, tokens, hist>>
  BY DEF Access!putPinEnd, Access!setUserPin
<1>2. p.uid \in Access!Ids \ {0} /\ p.pin \in Secrets /\ \A q \in puts : q.uid = p.uid /\ q.pin = p.pin => q = p
  BY DEF AccessInv, AccessTyped
<1>3. pins' \in [Access!Ids -> Hash]
      /\ \A j \in Access!Ids : pins'[j] = IF j = p.uid /\ j \in DOMAIN users THEN p.pin ELSE pins[j]
  BY <1>1, <1>2 DEF AccessInv, AccessTyped, Hash
<1>4. AccessTyped'
  BY <1>1, <1>3 DEF AccessInv, AccessTyped
<1>5. Named'
  BY <1>1, <1>3 DEF AccessInv, Named, Access!SessionsHonest
<1>6. ASSUME NEW j \in DOMAIN users \ (hist.overlapped \cup {0}), \A q \in puts' : q.uid # j
      PROVE  pins'[j] = hist.intent[j]
  <2>1. j \in Access!Ids
    BY DEF AccessInv, Named
  <2>2. CASE j = p.uid
    BY <1>3, <2>1, <2>2 DEF AccessInv, Followed
  <2>3. CASE j # p.uid
    BY <1>1, <1>3, <1>6, <2>1, <2>3 DEF AccessInv, Followed, Access!PinIsLastAsked
  <2> QED
    BY <2>2, <2>3
<1>7. Access!PinIsLastAsked'
  BY <1>1, <1>6 DEF Access!PinIsLastAsked
<1>8. Followed'
  BY <1>1, <1>7 DEF AccessInv, Followed
<1> QED
  BY <1>1, <1>4, <1>5, <1>8, LimitedSame, StampedSame DEF AccessInv

LEMMA DeletePinInv == ASSUME AccessOK, AccessInv, NEW i \in Access!Ids, Access!deletePin(i) PROVE AccessInv'
<1>1. /\ i \in DOMAIN users /\ i # 0 /\ pins' = [pins EXCEPT ![i] = 0]
      /\ hist' = [hist EXCEPT !.intent = [hist.intent EXCEPT ![i] = 0],
                              !.overlapped = hist.overlapped \cup Access!overlap(i)]
      /\ UNCHANGED <<now, users, nextId, windows, logins, puts, cookies, tokens>>
  BY DEF Access!deletePin
<1>2. /\ hist' \in [intent : [Access!Ids -> Hash], overlapped : SUBSET Access!Ids, honest : BOOLEAN,
                    first : [1 .. MaxTokens -> Instant]]
      /\ hist'.honest = hist.honest /\ hist'.first = hist.first
      /\ hist'.overlapped = hist.overlapped \cup Access!overlap(i)
      /\ \A j \in Access!Ids : hist'.intent[j] = IF j = i THEN 0 ELSE hist.intent[j]
  BY <1>1, Intended DEF Hash
<1>3. pins' \in [Access!Ids -> Hash] /\ \A j \in Access!Ids : pins'[j] = IF j = i THEN 0 ELSE pins[j]
  BY <1>1 DEF AccessInv, AccessTyped, Hash
<1>4. AccessTyped'
  BY <1>1, <1>2, <1>3 DEF AccessInv, AccessTyped
<1>5. Named'
  BY <1>1, <1>2, <1>3 DEF AccessInv, Named, Access!SessionsHonest
<1>6. i \notin hist'.overlapped => \A p \in puts : p.uid # i
  BY <1>2 DEF Access!overlap
<1>7. \A j \in DOMAIN users : j \in Access!Ids
  BY DEF AccessInv, Named
<1>8. Followed'
  <2>1. Access!PinIsLastAsked'
    BY <1>1, <1>2, <1>3, <1>7 DEF AccessInv, Followed, Access!PinIsLastAsked
  <2>2. ASSUME NEW j \in DOMAIN users' \ (hist'.overlapped \cup {0}), NEW p \in puts', p.uid = j
        PROVE  p.pin = hist'.intent[j]
    BY <1>1, <1>2, <1>6, <1>7, <2>2 DEF AccessInv, Followed
  <2> QED
    BY <1>1, <1>2, <2>1, <2>2 DEF AccessInv, Followed
<1> QED
  BY <1>1, <1>2, <1>4, <1>5, <1>8, LimitedSame, StampedSame DEF AccessInv

(* ---- logins and sessions ---- *)

\* What is awaited for a key is finite and is part of what is awaited.
LEMMA AwaitedFinite ==
  ASSUME AccessInv, NEW k
  PROVE  /\ IsFiniteSet(Awaited(k)) /\ Cardinality(Awaited(k)) \in Nat
         /\ Cardinality(logins) \in Nat /\ Cardinality(Awaited(k)) <= Cardinality(logins)
<1>1. IsFiniteSet(logins) /\ Awaited(k) \subseteq logins
  BY DEF AccessInv, AccessTyped, Awaited
<1> QED
  BY <1>1, FS_Subset, FS_CardinalityType

\* A verification starts only while its key has an attempt left.
LEMMA LoginInv == ASSUME AccessOK, AccessInv, NEW i \in Access!Ids, NEW guess \in Secrets, Access!login(i, guess) PROVE AccessInv'
<1> DEFINE l == [uid |-> i, guess |-> guess, hash |-> pins[i],
                 who |-> IF i \in DOMAIN users THEN users[i] ELSE Null]
<1>1. /\ ~Access!isBlocked(i) /\ Cardinality(logins) < MaxFlights
      /\ l \notin logins /\ logins' = logins \cup {l}
      /\ UNCHANGED <<now, users, nextId, pins, windows, puts, cookies, tokens, hist>>
  BY AccessCardinality DEF Access!login, Access!accounts
<1>2. /\ l \in Login /\ l.uid = i /\ l.hash = pins[i]
      /\ l.hash # 0 => l.who = l.uid
  BY DEF AccessInv, AccessTyped, Named, Login
<1> HIDE DEF l
<1>3. IsFiniteSet(logins') /\ Cardinality(logins') = Cardinality(logins) + 1
  BY <1>1, FS_AddElement DEF AccessInv, AccessTyped
<1>4. AccessTyped'
  BY <1>1, <1>2, <1>3 DEF AccessInv, AccessTyped
<1>5. MaxFlights \in Nat /\ MaxAttempts \in Nat /\ Cardinality(logins) \in Nat
  BY AwaitedFinite DEF AccessOK
<1>6. Cardinality(logins') <= MaxFlights
  BY <1>1, <1>3, <1>5
<1>7. Access!FailuresBounded'
  BY <1>1 DEF AccessInv, Limited, Access!FailuresBounded
<1>8. ASSUME NEW k \in Access!Ids, Access!current(k)' # Null
      PROVE  windows'[k].count + Cardinality(Awaited(k)') < MaxAttempts + MaxFlights
  <2>1. Access!current(k)' = Access!current(k) /\ windows' = windows
    BY <1>1 DEF Access!current
  <2>2. CASE k = i
    <3>1. Awaited(k)' \subseteq logins'
      BY DEF Awaited
    <3>2. Cardinality(Awaited(k)') \in Nat /\ Cardinality(Awaited(k)') <= MaxFlights
      BY <1>3, <1>5, <1>6, <3>1, FS_Subset, FS_CardinalityType
    <3>3. windows[k] # Null /\ Access!current(k) = windows[k]
      BY <1>8, <2>1 DEF Access!current
    <3>4. windows[k].count \in Nat /\ ~(windows[k].count >= MaxAttempts)
      BY <1>1, <1>8, <2>1, <2>2, <3>3 DEF Access!isBlocked, AccessInv, AccessTyped, Window
    <3> QED
      BY <1>5, <2>1, <3>2, <3>4
  <2>3. CASE k # i
    <3>1. Awaited(k)' = Awaited(k)
      BY <1>1, <1>2, <2>3 DEF Awaited
    <3> QED
      BY <1>8, <2>1, <3>1 DEF AccessInv, Limited
  <2> QED
    BY <2>2, <2>3
<1>9. Limited'
  BY <1>6, <1>7, <1>8 DEF Limited
<1>10. Named'
  BY <1>1, <1>2 DEF AccessInv, Named, Access!SessionsHonest
<1> QED
  BY <1>1, <1>4, <1>9, <1>10, FollowedSame, StampedSame DEF AccessInv

\* A verification ends: its key has one less to await, the others as many.
LEMMA LoginEnds ==
  ASSUME AccessOK, AccessInv, NEW l \in logins, logins' = logins \ {l}
  PROVE  /\ logins' \subseteq Login /\ IsFiniteSet(logins') /\ Cardinality(logins') <= MaxFlights
         /\ l \in Login /\ Cardinality(Awaited(l.uid)') = Cardinality(Awaited(l.uid)) - 1
         /\ Cardinality(Awaited(l.uid)) \in 1 .. MaxFlights
         /\ \A k \in Access!Ids : k # l.uid => Awaited(k)' = Awaited(k)
<1>1. IsFiniteSet(logins') /\ Cardinality(logins') = Cardinality(logins) - 1
  BY FS_RemoveElement DEF AccessInv, AccessTyped
<1>2. Cardinality(logins) <= MaxFlights /\ MaxFlights \in Nat
  BY DEF AccessInv, Limited, AccessOK
<1>3. IsFiniteSet(Awaited(l.uid)) /\ Cardinality(Awaited(l.uid)) \in Nat
      /\ Cardinality(logins) \in Nat /\ Cardinality(Awaited(l.uid)) <= Cardinality(logins)
  BY AwaitedFinite
<1>4. l \in Awaited(l.uid) /\ Awaited(l.uid)' = Awaited(l.uid) \ {l}
  BY DEF Awaited
<1>5. Cardinality(Awaited(l.uid)') = Cardinality(Awaited(l.uid)) - 1
  BY <1>3, <1>4, FS_RemoveElement
<1>6. Cardinality(Awaited(l.uid)) # 0
  BY <1>3, <1>4, FS_EmptySet
<1>7. \A k \in Access!Ids : k # l.uid => Awaited(k)' = Awaited(k)
  BY DEF Awaited
<1>8. logins' \subseteq Login /\ l \in Login
  BY DEF AccessInv, AccessTyped
<1> QED
  BY <1>1, <1>2, <1>3, <1>5, <1>6, <1>7, <1>8

\* The failure is counted in place of the verification that is awaited no more.
LEMMA LoginRefusedInv == ASSUME AccessOK, AccessInv, NEW l \in logins, Access!loginRefused(l) PROVE AccessInv'
<1> DEFINE k == l.uid
           w == IF Access!current(k) = Null THEN [count |-> 1, startedAt |-> now]
                ELSE [Access!current(k) EXCEPT !.count = @ + 1]
<1>1. /\ logins' = logins \ {l} /\ windows' = [windows EXCEPT ![k] = w]
      /\ UNCHANGED <<now, users, nextId, pins, puts, cookies, tokens, hist>>
  BY DEF Access!loginRefused, Access!recordFailure, Access!accounts
<1>2. /\ logins' \subseteq Login /\ IsFiniteSet(logins') /\ Cardinality(logins') <= MaxFlights
      /\ l \in Login /\ Cardinality(Awaited(k)') = Cardinality(Awaited(k)) - 1
      /\ Cardinality(Awaited(k)) \in 1 .. MaxFlights
      /\ \A j \in Access!Ids : j # k => Awaited(j)' = Awaited(j)
  BY <1>1, LoginEnds
<1>3. k \in Access!Ids /\ now \in Nat
  BY <1>2 DEF Login, AccessInv, AccessTyped
<1>4. MaxAttempts \in Nat \ {0} /\ MaxFlights \in Nat
  BY DEF AccessOK
<1>5. /\ w \in Window /\ w.count + (Cardinality(Awaited(k)) - 1) < MaxAttempts + MaxFlights
      /\ w.count < MaxAttempts + MaxFlights
  <2>1. CASE Access!current(k) = Null
    <3>1. w = [count |-> 1, startedAt |-> now]
      BY <2>1
    <3> QED
      BY <1>2, <1>3, <1>4, <3>1 DEF Window
  <2>2. CASE Access!current(k) # Null
    <3>1. Access!current(k) = windows[k] /\ windows[k] \in Window
      BY <1>3, <2>2 DEF Access!current, AccessInv, AccessTyped
    <3>2. windows[k].count + Cardinality(Awaited(k)) < MaxAttempts + MaxFlights
      BY <1>3, <2>2 DEF AccessInv, Limited
    <3>3. w = [windows[k] EXCEPT !.count = @ + 1]
      BY <2>2, <3>1
    <3>4. w \in Window /\ w.count = windows[k].count + 1 /\ windows[k].count \in Nat
      BY <3>1, <3>3 DEF Window
    <3> QED
      BY <1>2, <1>4, <3>2, <3>4
  <2> QED
    BY <2>1, <2>2
<1> HIDE DEF w, k
<1>6. windows' \in [Access!Ids -> {Null} \cup Window] /\ \A j \in Access!Ids : windows'[j] = IF j = k THEN w ELSE windows[j]
  BY <1>1, <1>3, <1>5 DEF AccessInv, AccessTyped
<1>7. AccessTyped'
  BY <1>1, <1>2, <1>6 DEF AccessInv, AccessTyped
<1>8. Access!FailuresBounded'
  BY <1>5, <1>6 DEF AccessInv, Limited, Access!FailuresBounded
<1>9. ASSUME NEW j \in Access!Ids, Access!current(j)' # Null
      PROVE  windows'[j].count + Cardinality(Awaited(j)') < MaxAttempts + MaxFlights
  <2>1. CASE j = k
    BY <1>2, <1>5, <1>6, <2>1
  <2>2. CASE j # k
    <3>1. windows'[j] = windows[j] /\ Awaited(j)' = Awaited(j)
      BY <1>2, <1>6, <2>2
    <3>2. Access!current(j) # Null
      BY <1>1, <1>9, <3>1 DEF Access!current
    <3> QED
      BY <3>1, <3>2 DEF AccessInv, Limited
  <2> QED
    BY <2>1, <2>2
<1>10. Limited'
  BY <1>2, <1>8, <1>9 DEF Limited
<1> QED
  BY <1>1, <1>7, <1>10, NamedSame, FollowedSame, StampedSame DEF AccessInv

\* Only an account that exists has a secret to match, so the session is that person's.
LEMMA LoginAcceptedInv == ASSUME AccessOK, AccessInv, NEW l \in logins, Access!loginAccepted(l) PROVE AccessInv'
<1> DEFINE k == l.uid
           new == [uid |-> k, iat |-> now, who |-> l.who]
<1>1. /\ logins' = logins \ {l} /\ windows' = [windows EXCEPT ![k] = Null] /\ l.hash # 0
      /\ cookies' = cookies \cup {new}
      /\ UNCHANGED <<now, users, nextId, pins, puts, tokens, hist>>
  BY DEF Access!loginAccepted, Access!recordSuccess, Access!accounts
<1>2. /\ logins' \subseteq Login /\ IsFiniteSet(logins') /\ Cardinality(logins') <= MaxFlights
      /\ l \in Login /\ \A j \in Access!Ids : j # k => Awaited(j)' = Awaited(j)
  BY <1>1, LoginEnds
<1>3. k \in Access!Ids
  BY <1>2 DEF Login
<1>4. new.who = l.who /\ new.uid = k /\ l.who = k
  BY <1>1 DEF AccessInv, Named
<1> HIDE DEF new, k
<1>5. windows' \in [Access!Ids -> {Null} \cup Window] /\ \A j \in Access!Ids : windows'[j] = IF j = k THEN Null ELSE windows[j]
  BY <1>1, <1>3 DEF AccessInv, AccessTyped
<1>6. AccessTyped'
  BY <1>1, <1>2, <1>5 DEF AccessInv, AccessTyped
<1>7. Access!FailuresBounded'
  BY <1>5 DEF AccessInv, Limited, Access!FailuresBounded
<1>8. ASSUME NEW j \in Access!Ids, Access!current(j)' # Null
      PROVE  windows'[j].count + Cardinality(Awaited(j)') < MaxAttempts + MaxFlights
  <2>1. j # k /\ windows'[j] = windows[j] /\ Awaited(j)' = Awaited(j)
    BY <1>2, <1>5, <1>8 DEF Access!current
  <2>2. Access!current(j) # Null
    BY <1>1, <1>8, <2>1 DEF Access!current
  <2> QED
    BY <2>1, <2>2 DEF AccessInv, Limited
<1>9. Limited'
  BY <1>2, <1>7, <1>8 DEF Limited
<1>10. Named'
  BY <1>1, <1>4 DEF AccessInv, Named, Access!SessionsHonest
<1> QED
  BY <1>1, <1>6, <1>9, <1>10, FollowedSame, StampedSame DEF AccessInv

LEMMA ServeInv == ASSUME AccessOK, AccessInv, NEW c \in cookies, Access!serve(c) PROVE AccessInv'
<1>1. /\ hist' = [hist EXCEPT !.honest = hist.honest /\ c.who = users[c.uid] /\ now - c.iat <= Access!ttl(c.uid)]
      /\ c.uid \in DOMAIN users /\ now - c.iat <= Access!ttl(c.uid)
      /\ UNCHANGED <<now, users, nextId, pins, windows, logins, puts, cookies, tokens>>
  BY DEF Access!serve, Access!readSession, Access!accounts
<1>2. hist.honest = TRUE /\ c.who = users[c.uid]
  BY <1>1 DEF AccessInv, AccessTyped, Named, Access!SessionsHonest
<1>3. hist' = hist
  BY <1>1, <1>2 DEF AccessInv, AccessTyped
<1>4. AccessTyped'
  BY <1>1, <1>3 DEF AccessInv, AccessTyped
<1> QED
  BY <1>1, <1>3, <1>4, LimitedSame, NamedSame, FollowedSame, StampedSame DEF AccessInv

LEMMA LogoutInv == ASSUME AccessOK, AccessInv, NEW c \in cookies, Access!logout(c) PROVE AccessInv'
<1>1. /\ cookies' \subseteq cookies
      /\ UNCHANGED <<now, users, nextId, pins, windows, logins, puts, tokens, hist>>
  BY DEF Access!logout, Access!accounts
<1>2. AccessTyped'
  BY <1>1 DEF AccessInv, AccessTyped
<1> QED
  BY <1>1, <1>2, LimitedSame, NamedSame, FollowedSame, StampedSame DEF AccessInv

LEMMA AccessRestartInv == ASSUME AccessOK, AccessInv, Access!Restart PROVE AccessInv'
<1>1. /\ logins' = {} /\ puts' = {} /\ windows' = [i \in Access!Ids |-> Null]
      /\ hist' = [hist EXCEPT !.overlapped = hist.overlapped \cup {p.uid : p \in puts}]
      /\ UNCHANGED <<now, users, nextId, pins, cookies, tokens>>
  BY DEF Access!Restart, Access!accounts
<1>2. IsFiniteSet(logins') /\ Cardinality(logins') = 0
  BY <1>1, FS_EmptySet
<1>3. {p.uid : p \in puts} \subseteq Access!Ids
  BY DEF AccessInv, AccessTyped
<1>4. /\ hist' \in [intent : [Access!Ids -> Hash], overlapped : SUBSET Access!Ids, honest : BOOLEAN,
                    first : [1 .. MaxTokens -> Instant]]
      /\ hist'.honest = hist.honest /\ hist'.first = hist.first /\ hist'.intent = hist.intent
      /\ hist'.overlapped = hist.overlapped \cup {p.uid : p \in puts}
  BY <1>1, <1>3 DEF AccessInv, AccessTyped
<1>5. AccessTyped'
  BY <1>1, <1>2, <1>4 DEF AccessInv, AccessTyped
<1>6. \A k \in Access!Ids : windows'[k] = Null /\ Access!current(k)' = Null
  BY <1>1 DEF Access!current
<1>7. Limited'
  BY <1>2, <1>6 DEF AccessOK, Limited, Access!FailuresBounded
<1>8. Named'
  BY <1>1, <1>4, NamedSame
<1>9. Followed'
  BY <1>1, <1>4 DEF AccessInv, Followed, Access!PinIsLastAsked
<1> QED
  BY <1>1, <1>4, <1>5, <1>7, <1>8, <1>9, StampedSame DEF AccessInv

(* ---- integration tokens ---- *)

\* A step on the tokens only.
LEMMA TokensOnly ==
  ASSUME AccessOK, AccessInv, UNCHANGED <<now, users, nextId, pins, windows, logins, puts, cookies>>,
         hist' \in [intent : {hist.intent}, overlapped : {hist.overlapped}, honest : {hist.honest},
                    first : [1 .. MaxTokens -> Instant]],
         Stamped'
  PROVE  AccessInv'
<1>1. hist'.intent = hist.intent /\ hist'.overlapped = hist.overlapped /\ hist'.honest = hist.honest
  OBVIOUS
<1>2. hist.intent \in [Access!Ids -> Hash] /\ hist.overlapped \in SUBSET Access!Ids /\ hist.honest \in BOOLEAN
  BY DEF AccessInv, AccessTyped
<1>3. hist' \in [intent : [Access!Ids -> Hash], overlapped : SUBSET Access!Ids, honest : BOOLEAN,
                 first : [1 .. MaxTokens -> Instant]]
  BY <1>2
<1>4. AccessTyped'
  BY <1>3 DEF AccessInv, AccessTyped
<1> QED
  BY <1>1, <1>4, LimitedSame, NamedSame, FollowedSame DEF AccessInv

\* How many tokens there are, and what is known of each.
LEMMA TokensNow ==
  ASSUME AccessOK, AccessInv
  PROVE  /\ now \in Nat /\ hist.first \in [1 .. MaxTokens -> Instant]
         /\ \E n \in 0 .. MaxTokens :
              /\ tokens \in [1 .. n -> Token] /\ DOMAIN tokens = 1 .. n /\ Cardinality(DOMAIN tokens) = n
              /\ \A i \in (n + 1) .. MaxTokens : hist.first[i] = Null
<1>1. PICK n \in 0 .. MaxTokens :
         tokens \in [1 .. n -> Token] /\ \A i \in (n + 1) .. MaxTokens : hist.first[i] = Null
  BY DEF AccessInv, Stamped
<1>2. DOMAIN tokens = 1 .. n /\ n \in Nat
  BY <1>1 DEF AccessOK
<1>3. Cardinality(1 .. n) = n
  BY <1>2, FS_Interval
<1> QED
  BY <1>1, <1>2, <1>3 DEF AccessInv, AccessTyped

LEMMA IssueInv == ASSUME AccessOK, AccessInv, NEW m \in Names, Access!issueIntegrationToken(m) PROVE AccessInv'
<1> DEFINE new == [name |-> m, revokedAt |-> Null, lastUsedAt |-> Null]
<1>1. PICK n \in 0 .. MaxTokens :
         /\ tokens \in [1 .. n -> Token] /\ DOMAIN tokens = 1 .. n /\ Cardinality(DOMAIN tokens) = n
         /\ \A i \in (n + 1) .. MaxTokens : hist.first[i] = Null
  BY TokensNow
<1>2. /\ tokens' = [i \in (1 .. n) \cup {n + 1} |-> IF i \in 1 .. n THEN tokens[i] ELSE new] /\ n < MaxTokens
      /\ UNCHANGED <<now, users, nextId, pins, windows, logins, puts, cookies, hist>>
  BY <1>1, AccessCardinality DEF Access!issueIntegrationToken, Access!accounts
<1>3. MaxTokens \in Nat /\ n \in Nat /\ n + 1 \in 0 .. MaxTokens /\ n + 1 \in (n + 1) .. MaxTokens
      /\ (1 .. n) \cup {n + 1} = 1 .. (n + 1)
  BY <1>2 DEF AccessOK
<1>4. new \in Token /\ new.revokedAt = Null /\ new.lastUsedAt = Null
  BY DEF Token, Instant
<1> HIDE DEF new
<1>5. tokens' \in [1 .. (n + 1) -> Token] /\ DOMAIN tokens' = 1 .. (n + 1)
  BY <1>1, <1>2, <1>3, <1>4
<1>6. \A i \in DOMAIN tokens' :
         (i \in DOMAIN tokens /\ tokens'[i] = tokens[i]) \/ (i = n + 1 /\ tokens'[i] = new)
  BY <1>1, <1>2, <1>3, <1>5
<1>7. \A i \in ((n + 1) + 1) .. MaxTokens : hist'.first[i] = Null
  BY <1>1, <1>2, <1>3
<1>8. Access!RevokedForGood'
  BY <1>1, <1>2, <1>3, <1>4, <1>6 DEF AccessInv, Stamped, Access!RevokedForGood
<1>9. \A i \in DOMAIN tokens' :
         /\ tokens'[i].revokedAt # Null => tokens'[i].revokedAt <= now'
         /\ tokens'[i].lastUsedAt # Null => tokens'[i].lastUsedAt <= now'
  BY <1>2, <1>4, <1>6 DEF AccessInv, Stamped
<1>10. Stamped'
  BY <1>3, <1>5, <1>7, <1>8, <1>9 DEF Stamped
<1>11. AccessTyped'
  BY <1>2 DEF AccessInv, AccessTyped
<1> QED
  BY <1>2, <1>10, <1>11, LimitedSame, NamedSame, FollowedSame DEF AccessInv

\* One token's stamps change.
LEMMA TokenChanges ==
  ASSUME AccessOK, AccessInv, NEW i \in DOMAIN tokens, NEW t \in Token, NEW f \in Instant,
         tokens' = [tokens EXCEPT ![i] = t], hist' = [hist EXCEPT !.first = [hist.first EXCEPT ![i] = f]],
         UNCHANGED <<now, users, nextId, pins, windows, logins, puts, cookies>>,
         t.revokedAt = f,
         t.revokedAt # Null => t.revokedAt <= now, t.lastUsedAt # Null => t.lastUsedAt <= now,
         t.revokedAt # Null /\ t.lastUsedAt # Null => t.lastUsedAt <= t.revokedAt
  PROVE  AccessInv'
<1>1. PICK n \in 0 .. MaxTokens :
         /\ tokens \in [1 .. n -> Token] /\ DOMAIN tokens = 1 .. n /\ Cardinality(DOMAIN tokens) = n
         /\ \A j \in (n + 1) .. MaxTokens : hist.first[j] = Null
  BY TokensNow
<1>2. MaxTokens \in Nat /\ n \in Nat /\ i \in 1 .. n /\ i \in 1 .. MaxTokens /\ i \notin (n + 1) .. MaxTokens
  BY <1>1 DEF AccessOK
<1>3. tokens' \in [1 .. n -> Token] /\ \A j \in 1 .. n : tokens'[j] = IF j = i THEN t ELSE tokens[j]
  BY <1>1
<1>4. hist.first \in [1 .. MaxTokens -> Instant]
  BY TokensNow
<1>5. /\ hist' \in [intent : {hist.intent}, overlapped : {hist.overlapped}, honest : {hist.honest},
                    first : [1 .. MaxTokens -> Instant]]
      /\ hist'.first = [hist.first EXCEPT ![i] = f]
  BY <1>4 DEF AccessInv, AccessTyped
<1>6. \A j \in 1 .. MaxTokens : hist'.first[j] = IF j = i THEN f ELSE hist.first[j]
  BY <1>4, <1>5
<1>7. \A j \in (n + 1) .. MaxTokens : j \in 1 .. MaxTokens /\ hist'.first[j] = Null
  BY <1>1, <1>2, <1>6
<1>8. \A j \in 1 .. n : j \in 1 .. MaxTokens
  BY <1>2
<1>9. Access!RevokedForGood'
  BY <1>1, <1>3, <1>6, <1>8 DEF AccessInv, Stamped, Access!RevokedForGood
<1>10. \A j \in DOMAIN tokens' :
          /\ tokens'[j].revokedAt # Null => tokens'[j].revokedAt <= now'
          /\ tokens'[j].lastUsedAt # Null => tokens'[j].lastUsedAt <= now'
  BY <1>1, <1>3 DEF AccessInv, Stamped
<1>11. Stamped'
  BY <1>3, <1>7, <1>9, <1>10 DEF Stamped
<1> QED
  BY <1>5, <1>11, TokensOnly

LEMMA RevokeInv == ASSUME AccessOK, AccessInv, NEW i \in DOMAIN tokens, Access!revokeIntegrationToken(i) PROVE AccessInv'
<1> DEFINE since == IF tokens[i].revokedAt = Null THEN now ELSE tokens[i].revokedAt
           t == [tokens[i] EXCEPT !.revokedAt = since]
<1>1. tokens[i] \in Token /\ now \in Nat /\ now \in Instant
  BY TokensNow DEF Instant
<1>2. hist.first[i] = tokens[i].revokedAt
  BY DEF AccessInv, Stamped, Access!RevokedForGood
<1>3. since \in Instant /\ since <= now
  BY <1>1 DEF Token, AccessInv, Stamped
<1>4. tokens' = [tokens EXCEPT ![i] = t]
  BY DEF Access!revokeIntegrationToken
<1>5. hist' = [hist EXCEPT !.first = [hist.first EXCEPT ![i] = since]]
  BY <1>2 DEF Access!revokeIntegrationToken
<1>6. t.lastUsedAt = tokens[i].lastUsedAt /\ t.revokedAt = since /\ t \in Token
  BY <1>1, <1>3 DEF Token
<1>7. t.lastUsedAt # Null => t.lastUsedAt <= now /\ t.lastUsedAt <= since
  BY <1>6 DEF AccessInv, Stamped, Access!RevokedForGood
<1>8. UNCHANGED <<now, users, nextId, pins, windows, logins, puts, cookies>>
  BY DEF Access!revokeIntegrationToken, Access!accounts
<1> HIDE DEF since, t
<1> QED
  BY <1>3, <1>4, <1>5, <1>6, <1>7, <1>8, TokenChanges

LEMMA AuthenticateInv ==
  ASSUME AccessOK, AccessInv, NEW i \in DOMAIN tokens, Access!authenticateIntegrationToken(i)
  PROVE  AccessInv'
<1> DEFINE t == [tokens[i] EXCEPT !.lastUsedAt = now]
<1>1. tokens[i] \in Token /\ now \in Nat /\ now \in Instant
  BY TokensNow DEF Instant
<1>2. tokens[i].revokedAt = Null /\ tokens' = [tokens EXCEPT ![i] = t] /\ hist' = hist
      /\ UNCHANGED <<now, users, nextId, pins, windows, logins, puts, cookies>>
  BY DEF Access!authenticateIntegrationToken, Access!accounts
<1>3. hist.first[i] = Null
  BY <1>2 DEF AccessInv, Stamped, Access!RevokedForGood
<1>4. hist.first = [hist.first EXCEPT ![i] = Null]
  BY <1>3, TokensNow
<1>5. hist' = [hist EXCEPT !.first = [hist.first EXCEPT ![i] = Null]]
  BY <1>2, <1>4 DEF AccessInv, AccessTyped
<1>6. t.lastUsedAt = now /\ t.revokedAt = Null /\ t \in Token /\ Null \in Instant
  BY <1>1, <1>2 DEF Token, Instant
<1> HIDE DEF t
<1>7. t.lastUsedAt <= now
  BY <1>1, <1>6
<1> QED
  BY <1>2, <1>5, <1>6, <1>7, TokenChanges

LEMMA AccessTickInv == ASSUME AccessOK, AccessInv, Access!Tick \/ UNCHANGED Access!vars PROVE AccessInv'
<1>1. now' \in {now, now + 1} /\ UNCHANGED <<users, nextId, pins, windows, logins, puts, cookies, tokens, hist>>
  BY DEF Access!Tick, Access!vars, Access!accounts
<1>2. AccessTyped'
  BY <1>1 DEF AccessInv, AccessTyped
<1> QED
  BY <1>1, <1>2, LimitedSame, NamedSame, FollowedSame, StampedSame DEF AccessInv

LEMMA AccessStepInv == ASSUME AccessOK, AccessInv, [Access!Next]_(Access!vars) PROVE AccessInv'
<1>1. CASE Access!bootstrapAdmin \/ Access!createUser \/ Access!Restart \/ Access!Tick \/ UNCHANGED Access!vars
  BY <1>1, BootstrapInv, CreateUserInv, AccessRestartInv, AccessTickInv
<1>2. CASE \E i \in Access!Ids : Access!deleteUser(i) \/ Access!deletePin(i)
  BY <1>2, DeleteUserInv, DeletePinInv
<1>3. CASE \E i \in Access!Ids, s \in Secrets : Access!putPin(i, s) \/ Access!login(i, s)
  BY <1>3, PutPinInv, LoginInv
<1>4. CASE \E p \in puts : Access!putPinEnd(p)
  BY <1>4, PutPinEndInv
<1>5. CASE \E l \in logins : Access!loginRefused(l) \/ Access!loginAccepted(l)
  BY <1>5, LoginRefusedInv, LoginAcceptedInv
<1>6. CASE \E c \in cookies : Access!serve(c) \/ Access!logout(c)
  BY <1>6, ServeInv, LogoutInv
<1>7. CASE \E n \in Names : Access!issueIntegrationToken(n)
  BY <1>7, IssueInv
<1>8. CASE \E i \in DOMAIN tokens : Access!revokeIntegrationToken(i) \/ Access!authenticateIntegrationToken(i)
  BY <1>8, RevokeInv, AuthenticateInv
<1> QED
  BY <1>1, <1>2, <1>3, <1>4, <1>5, <1>6, <1>7, <1>8 DEF Access!Next

(* ---- the timekpr mirror ---- *)

MirrorTyped ==
  /\ up \in BOOLEAN /\ now \in 0..MaxNow /\ failures \in Nat /\ nextEligibleAt \in Nat
  /\ listing \in Seq(Versions)
  /\ files \in [Versions -> {"none", "torn", "whole"}]
  /\ tick \in [{"boot", "cron"} -> Versions \cup {"idle", "resolving"}]

\* Failures in a row come at different instants, but for that of the boot's own tick.
BootTicks == IF tick["boot"] = "idle" THEN 0 ELSE 1
FewFailures ==
  /\ failures + BootTicks <= now + 2
  /\ tick["cron"] # "idle" \/ now >= nextEligibleAt => failures + BootTicks <= now + 1

MirrorInv == MirrorTyped /\ FewFailures /\ Mirror!SentinelTrue /\ Mirror!BackoffBounded

LEMMA MirrorBounds == MaxNow \in Nat /\ MaxDelay \in Nat \ {0}
BY ServicesAssumption DEF MirrorOK

LEMMA MirrorInitInv == ASSUME Mirror!Init PROVE MirrorInv
<1> USE MirrorBounds DEF Mirror!Init
<1>1. listing \in Seq(Versions) /\ now = 0 /\ now \in 0..MaxNow
  <2>1. 1 \in Nat /\ listing \in [1..1 -> Versions]
    OBVIOUS
  <2>2. listing \in Seq(Versions)
    BY <2>1, SeqDef
  <2> QED
    BY <2>2
<1>2. tick["boot"] = "idle" /\ tick["cron"] = "idle" /\ BootTicks = 0
  BY DEF BootTicks
<1>3. MirrorTyped
  BY <1>1 DEF MirrorTyped
<1>4. FewFailures
  BY <1>1, <1>2 DEF FewFailures
<1>5. Mirror!SentinelTrue
  BY DEF Mirror!SentinelTrue
<1>6. Mirror!BackoffBounded
  BY <1>1 DEF Mirror!BackoffBounded
<1> QED
  BY <1>3, <1>4, <1>5, <1>6 DEF MirrorInv

\* As many failures in a row as there can be: the delay is no less than 1, no more than the cap.
LEMMA DelayBounded ==
  ASSUME NEW f \in Nat, f < MaxNow + 2
  PROVE  Mirror!Delay(f + 1) \in 1..MaxDelay
<1>1. f \in 0..(MaxNow + 1) /\ MaxDelay \in Nat \ {0} /\ (f + 1) - 1 = f
  BY ServicesAssumption DEF MirrorOK
<1>2. Base * 2^f \in Nat \ {0}
  BY <1>1, ServicesAssumption DEF MirrorOK
<1>3. Mirror!Delay(f + 1) = IF Base * 2^f < MaxDelay THEN Base * 2^f ELSE MaxDelay
  BY <1>1 DEF Mirror!Delay
<1> QED
  BY <1>1, <1>2, <1>3

LEMMA WantedIsVersion == ASSUME MirrorInv, Mirror!Wanted # Null PROVE Mirror!Wanted \in Versions
<1>1. CASE pin # Null
  BY <1>1 DEF Mirror!Wanted, Mirror!selectPinnedPublication, Mirror!ToSet, MirrorInv, MirrorTyped
<1>2. CASE pin = Null
  <2>1. listing \in Seq(Versions) /\ listing # << >> /\ Mirror!Wanted = Head(listing)
    BY <1>2 DEF Mirror!Wanted, Mirror!parseLatestPublication, MirrorInv, MirrorTyped
  <2> QED
    BY <2>1, HeadTailProperties
<1> QED
  BY <1>1, <1>2

\* A tick that ends leaves fewer at work.
LEMMA FewerTicks ==
  ASSUME MirrorInv, NEW t \in {"boot", "cron"}, tick' = [tick EXCEPT ![t] = "idle"]
  PROVE  /\ tick' \in [{"boot", "cron"} -> Versions \cup {"idle", "resolving"}]
         /\ tick'[t] = "idle" /\ BootTicks \in {0, 1} /\ BootTicks' \in {0, 1}
         /\ t = "boot" => tick'["cron"] = tick["cron"] /\ BootTicks' = 0
         /\ t = "cron" => BootTicks' = BootTicks
BY DEF MirrorInv, MirrorTyped, BootTicks

LEMMA AtMostOne == \A b, n \in Nat : b <= 1 => 0 + b <= n + 1 /\ 0 + b <= n + 2
OBVIOUS

LEMMA NoMore ==
  \A a, b, c, n \in Nat : b <= c => /\ a + c <= n + 2 => a + b <= n + 2
                                    /\ a + c <= n + 1 => a + b <= n + 1
OBVIOUS

LEMMA DoneInv ==
  ASSUME MirrorInv, NEW t \in {"boot", "cron"}, Mirror!Done(t), UNCHANGED <<up, now, listing>>,
         files' \in [Versions -> {"none", "torn", "whole"}], Mirror!SentinelTrue'
  PROVE  MirrorInv'
<1>1. tick' = [tick EXCEPT ![t] = "idle"] /\ failures' = 0 /\ nextEligibleAt' = 0
  BY DEF Mirror!Done
<1>2. now \in Nat /\ now' = now /\ MaxDelay \in Nat
  BY MirrorBounds DEF MirrorInv, MirrorTyped
<1>3. MirrorTyped'
  BY <1>1, FewerTicks DEF MirrorInv, MirrorTyped
<1>4. FewFailures'
  <2>1. BootTicks' \in {0, 1}
    BY <1>1, FewerTicks
  <2>2. BootTicks' \in Nat /\ BootTicks' <= 1
    BY <2>1
  <2>3. 0 + BootTicks' <= now + 1 /\ 0 + BootTicks' <= now + 2
    BY <1>2, <2>2, AtMostOne
  <2> QED
    BY <1>1, <1>2, <2>3 DEF FewFailures
<1>5. Mirror!BackoffBounded'
  BY <1>1, <1>2 DEF Mirror!BackoffBounded
<1> QED
  BY <1>3, <1>4, <1>5 DEF MirrorInv

LEMMA FailedInv ==
  ASSUME MirrorInv, NEW t \in {"boot", "cron"}, Mirror!withRetryFails(t)
  PROVE  MirrorInv'
<1>1. /\ tick[t] # "idle" /\ tick' = [tick EXCEPT ![t] = "idle"] /\ failures' = failures + 1
      /\ nextEligibleAt' = now + Mirror!Delay(failures + 1)
      /\ UNCHANGED <<up, now, listing, files, sentinel, torn>>
  BY DEF Mirror!withRetryFails, Mirror!Failed, Mirror!env, Mirror!disk
<1>2. now \in Nat /\ MaxDelay \in Nat /\ failures \in Nat /\ BootTicks \in {0, 1} /\ now <= MaxNow /\ MaxNow \in Nat
  BY MirrorBounds DEF MirrorInv, MirrorTyped, BootTicks
<1>3. failures + BootTicks <= now + 2 /\ (t = "cron" => failures + BootTicks <= now + 1)
      /\ (t = "boot" => BootTicks = 1)
  BY <1>1 DEF MirrorInv, FewFailures, BootTicks
<1>4. failures < MaxNow + 2
  BY <1>2, <1>3
<1>5. Mirror!Delay(failures + 1) \in 1..MaxDelay
  BY <1>2, <1>4, DelayBounded
<1>6. nextEligibleAt' \in Nat /\ nextEligibleAt' > now /\ nextEligibleAt' <= now + MaxDelay
  BY <1>1, <1>2, <1>5
<1>7. MirrorTyped'
  BY <1>1, <1>6, FewerTicks DEF MirrorInv, MirrorTyped
<1>8. FewFailures'
  <2>1. CASE t = "boot"
    <3>1. tick'["cron"] = tick["cron"] /\ BootTicks' = 0
      BY <1>1, <2>1, FewerTicks
    <3>2. tick["cron"] # "idle" => failures + BootTicks <= now + 1
      BY DEF MirrorInv, FewFailures
    <3> QED
      BY <1>1, <1>2, <1>3, <1>6, <2>1, <3>1, <3>2 DEF FewFailures
  <2>2. CASE t = "cron"
    <3>1. tick'["cron"] = "idle" /\ BootTicks' = BootTicks
      BY <1>1, <2>2, FewerTicks
    <3> QED
      BY <1>1, <1>2, <1>3, <1>6, <2>2, <3>1 DEF FewFailures
  <2> QED
    BY <2>1, <2>2
<1>9. Mirror!BackoffBounded'
  BY <1>1, <1>2, <1>6 DEF Mirror!BackoffBounded
<1>10. Mirror!SentinelTrue'
  BY <1>1 DEF MirrorInv, Mirror!SentinelTrue
<1> QED
  BY <1>7, <1>8, <1>9, <1>10 DEF MirrorInv

LEMMA ResolveInv ==
  ASSUME MirrorInv, NEW t \in {"boot", "cron"}, Mirror!resolvePublication(t)
  PROVE  MirrorInv'
<1>1. /\ tick[t] = "resolving" /\ Mirror!Wanted # Null
      /\ UNCHANGED <<up, now, listing, files, sentinel, torn>>
  BY DEF Mirror!resolvePublication, Mirror!env, Mirror!disk
<1>2. Mirror!SentinelTrue'
  BY <1>1 DEF MirrorInv, Mirror!SentinelTrue
<1>3. CASE Mirror!Done(t)
  BY <1>1, <1>2, <1>3, DoneInv DEF MirrorInv, MirrorTyped
<1>4. CASE tick' = [tick EXCEPT ![t] = Mirror!Wanted] /\ UNCHANGED <<failures, nextEligibleAt>>
  <2>1. Mirror!Wanted \in Versions
    BY <1>1, WantedIsVersion
  <2>2. MirrorTyped'
    BY <1>1, <1>4, <2>1 DEF MirrorInv, MirrorTyped
  <2>3. /\ BootTicks \in {0, 1} /\ BootTicks' \in {0, 1} /\ BootTicks' <= BootTicks
        /\ tick'["cron"] # "idle" => tick["cron"] # "idle"
    BY <1>1, <1>4 DEF BootTicks, MirrorInv, MirrorTyped
  <2>4. FewFailures'
    <3>1. failures \in Nat /\ now \in Nat /\ failures + BootTicks <= now + 2
          /\ (tick["cron"] # "idle" \/ now >= nextEligibleAt => failures + BootTicks <= now + 1)
      BY MirrorBounds DEF MirrorInv, MirrorTyped, FewFailures
    <3>2. BootTicks \in Nat /\ BootTicks' \in Nat /\ BootTicks' <= BootTicks
      BY <2>3
    <3>3. failures + BootTicks' <= now + 2
      BY <3>1, <3>2, NoMore
    <3>4. failures + BootTicks <= now + 1 => failures + BootTicks' <= now + 1
      BY <3>1, <3>2, NoMore
    <3> QED
      BY <1>1, <1>4, <2>3, <3>1, <3>3, <3>4 DEF FewFailures
  <2>5. Mirror!BackoffBounded'
    BY <1>1, <1>4 DEF MirrorInv, Mirror!BackoffBounded
  <2> QED
    BY <1>2, <2>2, <2>4, <2>5 DEF MirrorInv
<1> QED
  BY <1>3, <1>4 DEF Mirror!resolvePublication, Mirror!backoff

\* The file is whole before the sentinel names it.
LEMMA RefreshInv ==
  ASSUME MirrorInv, NEW t \in {"boot", "cron"}, Mirror!refreshTimekprMirror(t)
  PROVE  MirrorInv'
<1> DEFINE v == tick[t]
<1>1. v \in Versions /\ files' = [files EXCEPT ![v] = "whole"] /\ sentinel' = v
      /\ UNCHANGED <<up, now, listing, torn>>
  BY DEF Mirror!refreshTimekprMirror, Mirror!env, MirrorInv, MirrorTyped
<1>2. files' \in [Versions -> {"none", "torn", "whole"}] /\ files'[v] = "whole"
  BY <1>1 DEF MirrorInv, MirrorTyped
<1>3. Mirror!SentinelTrue'
  BY <1>1, <1>2 DEF Mirror!SentinelTrue
<1> QED
  BY <1>1, <1>2, <1>3, DoneInv DEF Mirror!refreshTimekprMirror

LEMMA MirrorCrashInv == ASSUME MirrorInv, Mirror!Crash PROVE MirrorInv'
<1>1. /\ up' = FALSE /\ tick' = [t \in {"boot", "cron"} |-> "idle"]
      /\ UNCHANGED <<now, listing, failures, nextEligibleAt>>
  BY DEF Mirror!Crash, Mirror!backoff
<1>2. files' \in [Versions -> {"none", "torn", "whole"}] /\ Mirror!SentinelTrue'
  <2>1. CASE UNCHANGED <<files, sentinel, torn>>
    BY <2>1 DEF MirrorInv, MirrorTyped, Mirror!SentinelTrue
  <2>2. ASSUME NEW t \in {"boot", "cron"}, Mirror!CutShort(t)
        PROVE  files' \in [Versions -> {"none", "torn", "whole"}] /\ Mirror!SentinelTrue'
    <3> DEFINE v == tick[t]
    <3>1. v \in Versions
      BY <2>2 DEF Mirror!CutShort, MirrorInv, MirrorTyped
    <3>2. CASE /\ files' = [files EXCEPT ![v] = "torn"] /\ UNCHANGED sentinel
               /\ torn' = IF sentinel = v THEN torn \cup {v} ELSE torn
      BY <3>1, <3>2 DEF MirrorInv, MirrorTyped, Mirror!SentinelTrue
    <3>3. CASE files' = [files EXCEPT ![v] = "whole"] /\ sentinel' \in {sentinel, Null} /\ UNCHANGED torn
      BY <3>1, <3>3 DEF MirrorInv, MirrorTyped, Mirror!SentinelTrue
    <3> QED
      BY <2>2, <3>2, <3>3 DEF Mirror!CutShort
  <2> QED
    BY <2>1, <2>2 DEF Mirror!Crash, Mirror!disk
<1>3. MirrorTyped'
  BY <1>1, <1>2 DEF MirrorInv, MirrorTyped
<1>4. BootTicks' = 0 /\ BootTicks \in {0, 1} /\ tick'["cron"] = "idle"
  BY <1>1 DEF BootTicks
<1>5. FewFailures'
  BY <1>1, <1>4 DEF MirrorInv, MirrorTyped, FewFailures
<1>6. Mirror!BackoffBounded'
  BY <1>1 DEF MirrorInv, Mirror!BackoffBounded
<1> QED
  BY <1>2, <1>3, <1>5, <1>6 DEF MirrorInv

\* Boots, ticks, the operator, Launchpad and the clock.
LEMMA MirrorRestInv ==
  ASSUME MirrorInv,
         Mirror!Boot \/ Mirror!Tick \/ Mirror!Launchpad \/ Mirror!Removed \/ Mirror!TimePasses
  PROVE  MirrorInv'
<1>1. now \in Nat /\ MaxNow \in Nat /\ MaxDelay \in Nat /\ BootTicks \in {0, 1}
  BY MirrorBounds DEF MirrorInv, MirrorTyped, BootTicks
<1>2. CASE Mirror!Boot
  <2>1. /\ up' = TRUE /\ tick' = [tick EXCEPT !["boot"] = "resolving"]
        /\ failures' = 0 /\ nextEligibleAt' = 0 /\ UNCHANGED <<now, listing, files, sentinel, torn>>
    BY <1>2 DEF Mirror!Boot, Mirror!disk
  <2>2. MirrorTyped' /\ BootTicks' = 1
    BY <2>1 DEF MirrorInv, MirrorTyped, BootTicks
  <2>3. FewFailures' /\ Mirror!BackoffBounded'
    BY <1>1, <2>1, <2>2 DEF FewFailures, Mirror!BackoffBounded
  <2> QED
    BY <2>1, <2>2, <2>3 DEF MirrorInv, Mirror!SentinelTrue
<1>3. CASE Mirror!Tick
  <2>1. /\ now >= nextEligibleAt /\ tick' = [tick EXCEPT !["cron"] = "resolving"]
        /\ UNCHANGED <<up, now, listing, files, sentinel, torn, failures, nextEligibleAt>>
    BY <1>3 DEF Mirror!Tick, Mirror!env, Mirror!disk, Mirror!backoff
  <2>2. MirrorTyped' /\ BootTicks' = BootTicks
    BY <2>1 DEF MirrorInv, MirrorTyped, BootTicks
  <2>3. FewFailures' /\ Mirror!BackoffBounded'
    BY <1>1, <2>1, <2>2 DEF MirrorInv, FewFailures, Mirror!BackoffBounded
  <2> QED
    BY <2>1, <2>2, <2>3 DEF MirrorInv, Mirror!SentinelTrue
<1>4. CASE Mirror!Launchpad
  <2>1. UNCHANGED <<up, now, files, sentinel, torn, tick, failures, nextEligibleAt>>
    BY <1>4 DEF Mirror!Launchpad, Mirror!disk, Mirror!backoff
  <2>2. listing' \in Seq(Versions)
    <3>1. listing \in Seq(Versions) /\ Len(listing) \in Nat /\ DOMAIN listing = 1..Len(listing)
      BY LenProperties DEF MirrorInv, MirrorTyped
    <3>2. ASSUME NEW i \in DOMAIN listing, listing' = Mirror!RemoveAt(listing, i) PROVE listing' \in Seq(Versions)
      <4>1. i \in 1..Len(listing)
        BY <3>1
      <4>2. SubSeq(listing, 1, i - 1) \in Seq(Versions) /\ SubSeq(listing, i + 1, Len(listing)) \in Seq(Versions)
        <5>1. \A j \in 1..(i - 1) : listing[j] \in Versions
          BY <3>1, <4>1, ElementOfSeq
        <5>2. \A j \in (i + 1)..Len(listing) : listing[j] \in Versions
          BY <3>1, <4>1, ElementOfSeq
        <5> QED
          BY <3>1, <4>1, <5>1, <5>2, SubSeqProperties
      <4> QED
        BY <3>2, <4>2, ConcatProperties DEF Mirror!RemoveAt
    <3>3. ASSUME NEW v \in Versions, listing' = <<v>> \o listing PROVE listing' \in Seq(Versions)
      BY <3>1, <3>3, ConcatProperties
    <3> QED
      BY <1>4, <3>2, <3>3 DEF Mirror!Launchpad
  <2> QED
    BY <2>1, <2>2 DEF MirrorInv, MirrorTyped, BootTicks, FewFailures, Mirror!SentinelTrue, Mirror!BackoffBounded
<1>5. CASE Mirror!Removed
  <2>1. UNCHANGED <<up, now, listing, sentinel, torn, tick, failures, nextEligibleAt>>
    BY <1>5 DEF Mirror!Removed, Mirror!backoff
  <2>2. PICK v \in Versions : files' = [files EXCEPT ![v] = "none"]
    BY <1>5 DEF Mirror!Removed
  <2>3. MirrorTyped' /\ Mirror!SentinelTrue'
    BY <2>1, <2>2 DEF MirrorInv, MirrorTyped, Mirror!SentinelTrue
  <2> QED
    BY <2>1, <2>3 DEF MirrorInv, BootTicks, FewFailures, Mirror!BackoffBounded
<1>6. CASE Mirror!TimePasses
  <2>1. now' = now + 1 /\ now' \in 0..MaxNow
        /\ UNCHANGED <<up, listing, files, sentinel, torn, tick, failures, nextEligibleAt>>
    BY <1>1, <1>6 DEF Mirror!TimePasses, Mirror!disk, Mirror!backoff, MirrorInv, MirrorTyped
  <2>2. MirrorTyped' /\ BootTicks' = BootTicks /\ Mirror!SentinelTrue'
    BY <2>1 DEF MirrorInv, MirrorTyped, BootTicks, Mirror!SentinelTrue
  <2>3. failures \in Nat /\ nextEligibleAt \in Nat /\ nextEligibleAt <= now + MaxDelay
        /\ failures + BootTicks <= now + 2 /\ (failures = 0 <=> nextEligibleAt = 0)
    BY DEF MirrorInv, MirrorTyped, FewFailures, Mirror!BackoffBounded
  <2>4. FewFailures' /\ Mirror!BackoffBounded'
    BY <1>1, <2>1, <2>2, <2>3 DEF FewFailures, Mirror!BackoffBounded
  <2> QED
    BY <2>2, <2>4 DEF MirrorInv
<1> QED
  BY <1>2, <1>3, <1>4, <1>5, <1>6

LEMMA MirrorStepInv == ASSUME MirrorInv, [Mirror!Next]_(Mirror!vars) PROVE MirrorInv'
<1>1. CASE UNCHANGED Mirror!vars
  BY <1>1 DEF Mirror!vars, MirrorInv, MirrorTyped, BootTicks, FewFailures, Mirror!SentinelTrue, Mirror!BackoffBounded
<1>2. CASE Mirror!Next
  BY <1>2, FailedInv, ResolveInv, RefreshInv, MirrorCrashInv, MirrorRestInv DEF Mirror!Next
<1> QED
  BY <1>1, <1>2

(* ---- retention ---- *)

Clock == Int \cup {Null}
Row == {r \in [id : Nat, table : Tables, from : Int, to : Clock, activity : Activities \cup {Null}] :
          r.table = "usage_samples" => r.to \in Int}

RowsTyped ==
  /\ now \in Nat /\ nextId \in Nat /\ rows \subseteq Row /\ IsFiniteSet(rows)
  /\ overrides \in [Purge!Categories -> DayChoices \cup {Forever, Null}]

\* A deletion was of a row whose instant lay before the cutoff of the rule of that time.
Deleted(p) ==
  /\ p.row \in Row /\ p.row.to \in Int /\ p.at \in Nat /\ p.at <= now
  /\ p.days \in Nat /\ p.days # Forever /\ p.at - 2 * p.row.to > p.days * Day
RetentionInv == RowsTyped /\ \A p \in purged : Deleted(p)

LEMMA Settings ==
  /\ Day \in Nat /\ Day > 0 /\ DefaultDays \in Nat /\ Null \notin Int
  /\ \A d \in DayChoices : d \in Nat /\ d > 0
BY ServicesAssumption DEF RetentionOK

LEMMA RetentionInitInv == ASSUME Purge!Init PROVE RetentionInv
BY FS_EmptySet DEF Purge!Init, RetentionInv, RowsTyped

\* A category's rule is a number of days or Forever.
LEMMA RuleTyped ==
  ASSUME RowsTyped, NEW t \in Tables
  PROVE  LET rule == Purge!resolveRetention(Purge!CategoryOf(t)) IN rule = Forever \/ rule \in Nat
<1>1. Purge!CategoryOf(t) \in Purge!Categories
  BY DEF Purge!Categories
<1>2. overrides[Purge!CategoryOf(t)] \in DayChoices \cup {Forever, Null}
  BY <1>1 DEF RowsTyped
<1> QED
  BY <1>2, Settings DEF Purge!resolveRetention, Purge!overrideToResolved

\* Whole seconds before the cutoff's are before the cutoff, and all of those are.
LEMMA WholeSeconds ==
  \A c, t \in Int : /\ t < c \div 2 => 2 * t < c
                    /\ ~(t < c \div 2) => c <= 2 * t + 1
OBVIOUS

\* What the DELETE of a table selects, in terms of the rule for one record.
LEMMA SelectedRows ==
  ASSUME RowsTyped, NEW t, NEW r \in Purge!Selected(t)
  PROVE  /\ r \in rows /\ r \in Row /\ r.table = t /\ r.to \in Int
         /\ LET rule == Purge!resolveRetention(Purge!CategoryOf(t)) IN
              rule \in Nat /\ rule # Forever /\ now - 2 * r.to > rule * Day
<1> DEFINE rule == Purge!resolveRetention(Purge!CategoryOf(t))
           c == now - rule * Day
<1>1. /\ r \in rows /\ r.table = t /\ r.to # Null
      /\ Purge!cutoffFor(Purge!CategoryOf(t), now) # Null
      /\ r.to < Purge!Stored(Purge!cutoffFor(Purge!CategoryOf(t), now))
  BY DEF Purge!Selected
<1>2. r \in Row /\ t \in Tables /\ r.to \in Int
  BY <1>1 DEF RowsTyped, Row, Clock
<1>3. rule # Forever /\ Purge!cutoffFor(Purge!CategoryOf(t), now) = c
  BY <1>1 DEF Purge!cutoffFor, Purge!retentionCutoff
<1>4. rule \in Nat
  BY <1>2, <1>3, RuleTyped
<1>5. now \in Nat /\ rule * Day \in Nat
  BY <1>4, Settings DEF RowsTyped
<1>6. c \in Int /\ r.to < c \div 2
  BY <1>1, <1>3, <1>5 DEF Purge!Stored
<1>7. 2 * r.to < c
  BY <1>2, <1>6, WholeSeconds
<1> HIDE DEF rule
<1>8. now - 2 * r.to > rule * Day
  BY <1>2, <1>5, <1>7
<1> QED
  BY <1>1, <1>2, <1>3, <1>4, <1>8 DEF rule

\* Every category's DELETE is of rows that its table's selects.
PurgedTables == {"usage_samples", "grants", "audit_log", "exceptions", "group_exceptions",
                 "schedules", "group_schedules"}
Gone == UNION {Purge!purgeExpiredRecords[k] : k \in 1..4}

LEMMA GoneIsSelected == Gone = UNION {Purge!Selected(t) : t \in PurgedTables}
<1>1. Gone = Purge!purgeExpiredRecords[1] \cup Purge!purgeExpiredRecords[2]
             \cup Purge!purgeExpiredRecords[3] \cup Purge!purgeExpiredRecords[4]
  BY DEF Gone
<1> QED
  BY <1>1 DEF Purge!purgeExpiredRecords, Purge!purgeUsageSamples, Purge!purgeGrants,
     Purge!purgeAuditLog, Purge!purgeDateOverrides, PurgedTables

\* Whatever part of it is deleted.
LEMMA DeleteInv ==
  ASSUME RetentionInv, NEW gone \in SUBSET Gone, Purge!Delete(gone), UNCHANGED <<now, nextId, overrides>>
  PROVE  RetentionInv'
<1>1. rows' = rows \ gone /\ now' = now /\ overrides' = overrides
      /\ purged' = purged \cup {[row |-> r, at |-> now,
                                 days |-> Purge!resolveRetention(Purge!CategoryOf(r.table))] : r \in gone}
  BY DEF Purge!Delete
<1>2. RowsTyped'
  BY <1>1, FS_Difference DEF RetentionInv, RowsTyped
<1>3. ASSUME NEW p \in purged' PROVE Deleted(p)'
  <2>1. CASE p \in purged
    BY <1>1, <2>1 DEF RetentionInv, Deleted
  <2>2. CASE p \notin purged
    <3>1. PICK r \in gone : p = [row |-> r, at |-> now,
                                 days |-> Purge!resolveRetention(Purge!CategoryOf(r.table))]
      BY <1>1, <2>2
    <3>2. PICK t \in PurgedTables : r \in Purge!Selected(t)
      BY <3>1, GoneIsSelected
    <3>3. /\ r \in Row /\ r.table = t /\ r.to \in Int
          /\ LET rule == Purge!resolveRetention(Purge!CategoryOf(t)) IN
               rule \in Nat /\ rule # Forever /\ now - 2 * r.to > rule * Day
      BY <3>2, SelectedRows DEF RetentionInv
    <3>4. p.row = r /\ p.at = now /\ p.days = Purge!resolveRetention(Purge!CategoryOf(t))
      BY <3>1, <3>3
    <3>5. now \in Nat
      BY DEF RetentionInv, RowsTyped
    <3> QED
      BY <1>1, <3>3, <3>4, <3>5 DEF Deleted
  <2> QED
    BY <2>1, <2>2
<1> QED
  BY <1>2, <1>3 DEF RetentionInv

\* A row more, of this instant or a later one.
LEMMA InsertInv ==
  ASSUME RetentionInv, NEW r \in Row, rows' = rows \cup {r}, nextId' \in Nat, UNCHANGED <<now, overrides, purged>>
  PROVE  RetentionInv'
<1>1. RowsTyped'
  BY FS_AddElement DEF RetentionInv, RowsTyped
<1>2. \A p \in purged' : Deleted(p)'
  BY DEF RetentionInv, Deleted
<1> QED
  BY <1>1, <1>2 DEF RetentionInv

LEMMA RetentionStepInv == ASSUME RetentionInv, [Purge!Next]_(Purge!vars) PROVE RetentionInv'
<1>1. CASE UNCHANGED Purge!vars
  BY <1>1 DEF Purge!vars, RetentionInv, RowsTyped, Deleted
<1>2. ASSUME NEW t, Purge!runRetentionPurge(t) PROVE RetentionInv'
  <2>1. Purge!Delete(Gone) /\ UNCHANGED <<now, nextId, overrides>>
    BY <1>2 DEF Purge!runRetentionPurge, Gone
  <2> QED
    BY <2>1, DeleteInv
<1>3. ASSUME NEW k \in 1..Purge!Len(Purge!purgeOrder), Purge!purgeInBatches(k) PROVE RetentionInv'
  <2> DEFINE done == {Purge!Selected(Purge!purgeOrder[j]) : j \in 1..(k - 1)}
  <2>1. k \in 1..7 /\ \A j \in 1..7 : Purge!purgeOrder[j] \in PurgedTables
    BY DEF Purge!purgeOrder, PurgedTables
  <2>2. PICK part \in SUBSET Purge!Selected(Purge!purgeOrder[k]) : Purge!Delete(part \cup UNION done)
    BY <1>3 DEF Purge!purgeInBatches
  <2>3. part \subseteq Gone
    BY <2>1, GoneIsSelected
  <2>4. ASSUME NEW j \in 1..(k - 1) PROVE Purge!Selected(Purge!purgeOrder[j]) \subseteq Gone
    <3>1. j \in 1..7
      BY <2>1
    <3> QED
      BY <2>1, <3>1, GoneIsSelected
  <2>5. part \cup UNION done \subseteq Gone
    BY <2>3, <2>4
  <2>6. UNCHANGED <<now, nextId, overrides>>
    BY <1>3 DEF Purge!purgeInBatches
  <2> QED
    BY <2>2, <2>5, <2>6, DeleteInv
<1>4. ASSUME NEW c \in Purge!Categories, Purge!PutOverride(c) \/ Purge!DeleteOverride(c) PROVE RetentionInv'
  <2>1. overrides' \in [Purge!Categories -> DayChoices \cup {Forever, Null}]
        /\ UNCHANGED <<now, rows, nextId, purged>>
    BY <1>4 DEF Purge!PutOverride, Purge!DeleteOverride, RetentionInv, RowsTyped
  <2> QED
    BY <2>1 DEF RetentionInv, RowsTyped, Deleted
<1>5. CASE Purge!insertUsageSamples
  <2>1. now \in Nat /\ nextId \in Nat /\ Purge!Stored(now) \in Int
    BY DEF RetentionInv, RowsTyped, Purge!Stored
  <2>2. PICK s \in 0..(Purge!Stored(now) - 1), a \in Activities :
          rows' = rows \cup {[id |-> nextId, table |-> "usage_samples", from |-> s,
                              to |-> Purge!Stored(now), activity |-> a]}
    BY <1>5 DEF Purge!insertUsageSamples
  <2>3. [id |-> nextId, table |-> "usage_samples", from |-> s, to |-> Purge!Stored(now),
         activity |-> a] \in Row
    BY <1>5, <2>1 DEF Purge!insertUsageSamples, Row, Clock
  <2>4. nextId' \in Nat /\ UNCHANGED <<now, overrides, purged>>
    BY <1>5, <2>1 DEF Purge!insertUsageSamples
  <2> QED
    BY <2>2, <2>3, <2>4, InsertInv
<1>6. ASSUME NEW t \in Tables, Purge!Insert(t) PROVE RetentionInv'
  <2>1. now \in Nat /\ nextId \in Nat /\ Purge!Stored(now) \in Int /\ Purge!Stored(now + Day) \in Int
    BY Settings DEF RetentionInv, RowsTyped, Purge!Stored
  <2>2. PICK to \in Clock :
          rows' = rows \cup {[id |-> nextId, table |-> t, from |-> Purge!Stored(now), to |-> to,
                              activity |-> Null]}
    BY <1>6, <2>1 DEF Purge!Insert, Clock
  <2>3. [id |-> nextId, table |-> t, from |-> Purge!Stored(now), to |-> to, activity |-> Null] \in Row
    BY <1>6, <2>1 DEF Purge!Insert, Row
  <2>4. nextId' \in Nat /\ UNCHANGED <<now, overrides, purged>>
    BY <1>6, <2>1 DEF Purge!Insert
  <2> QED
    BY <2>2, <2>3, <2>4, InsertInv
<1>7. CASE Purge!Tick
  <2>1. now' = now + 1 /\ now \in Nat /\ UNCHANGED <<rows, nextId, overrides, purged>>
    BY <1>7 DEF Purge!Tick, RetentionInv, RowsTyped
  <2>2. \A p \in purged : Deleted(p)'
    BY <2>1 DEF RetentionInv, Deleted
  <2> QED
    BY <2>1, <2>2 DEF RetentionInv, RowsTyped
<1> QED
  BY <1>1, <1>2, <1>3, <1>4, <1>5, <1>6, <1>7 DEF Purge!Next

\* What was deleted had expired; what an open window counts was not deleted.
LEMMA DeletedExpired == ASSUME RetentionInv PROVE Purge!OnlyExpired /\ Purge!NothingOpenEnded
<1>1. ASSUME NEW p \in purged PROVE Purge!isExpired(2 * p.row.to, p.days, p.at) /\ p.row.to # Null
  BY Settings DEF RetentionInv, Deleted, Purge!isExpired
<1> QED
  BY <1>1 DEF Purge!OnlyExpired, Purge!NothingOpenEnded

LEMMA ExpiredDeleted == ASSUME RetentionInv PROVE Purge!NothingLeft
<1>1. ASSUME NEW r \in rows \ Gone, r.to # Null,
             Purge!isExpired(2 * r.to + 1, Purge!resolveRetention(Purge!CategoryOf(r.table)), now)
      PROVE  FALSE
  <2> DEFINE rule == Purge!resolveRetention(Purge!CategoryOf(r.table))
             c == now - rule * Day
  <2>1. r \in Row /\ r.table \in Tables /\ r.to \in Int /\ now \in Nat
    BY <1>1 DEF RetentionInv, RowsTyped, Row, Clock
  <2>2. rule # Forever /\ now - (2 * r.to + 1) > rule * Day
    BY <1>1 DEF Purge!isExpired
  <2>3. rule \in Nat /\ rule * Day \in Nat /\ c \in Int
    BY <2>1, <2>2, RuleTyped, Settings DEF RetentionInv
  <2>4. r \notin Purge!Selected(r.table)
    BY <1>1, <2>1, GoneIsSelected, ServicesAssumption DEF RetentionOK, PurgedTables
  <2>5. Purge!cutoffFor(Purge!CategoryOf(r.table), now) = c /\ c # Null
    BY <2>2, <2>3, Settings DEF Purge!cutoffFor, Purge!retentionCutoff
  <2>6. ~(r.to < c \div 2)
    BY <1>1, <2>4, <2>5 DEF Purge!Selected, Purge!Stored
  <2>7. c <= 2 * r.to + 1
    BY <2>1, <2>3, <2>6, WholeSeconds
  <2> HIDE DEF rule
  <2> QED
    BY <2>1, <2>2, <2>3, <2>7
<1> QED
  BY <1>1 DEF Purge!NothingLeft, Gone

\* The dry run adds up what the tables' deletes would select, which have no row in common.
LEMMA PurgeCardinality == \A S : Purge!Cardinality(S) = Cardinality(S)
BY DEF Purge!Cardinality, Cardinality

LEMMA Added ==
  ASSUME NEW S, NEW T, IsFiniteSet(S), IsFiniteSet(T), S \cap T = {}
  PROVE  /\ IsFiniteSet(S \cup T) /\ Cardinality(S \cup T) = Cardinality(S) + Cardinality(T)
         /\ Cardinality(S) \in Nat /\ Cardinality(T) \in Nat
<1>1. Cardinality(S \cap T) = 0
  BY FS_EmptySet
<1>2. Cardinality(S) \in Nat /\ Cardinality(T) \in Nat
  BY FS_CardinalityType
<1>3. IsFiniteSet(S \cup T) /\ Cardinality(S \cup T) = Cardinality(S) + Cardinality(T) - Cardinality(S \cap T)
  BY FS_Union
<1> QED
  BY <1>1, <1>2, <1>3

LEMMA DryRun == ASSUME RetentionInv PROVE Purge!PreviewAgrees
<1> DEFINE S(t) == Purge!Selected(t)
           one == S("usage_samples") \cup S("grants")
           two == one \cup S("audit_log")
           dates == S("exceptions") \cup S("group_exceptions")
           more == dates \cup S("schedules")
           all == more \cup S("group_schedules")
<1>1. \A t : S(t) \subseteq rows /\ \A r \in S(t) : r.table = t
  BY DEF Purge!Selected
<1>2. \A t : IsFiniteSet(S(t))
  BY <1>1, FS_Subset DEF RetentionInv, RowsTyped
<1> HIDE DEF S
<1>3. IsFiniteSet(one) /\ Cardinality(one) = Cardinality(S("usage_samples")) + Cardinality(S("grants"))
  <2>1. S("usage_samples") \cap S("grants") = {}
    BY <1>1
  <2> QED
    BY <1>2, <2>1, Added
<1>4. IsFiniteSet(two) /\ Cardinality(two) = Cardinality(one) + Cardinality(S("audit_log"))
  <2>1. one \cap S("audit_log") = {}
    BY <1>1
  <2> HIDE DEF one
  <2> QED
    BY <1>2, <1>3, <2>1, Added
<1>5. IsFiniteSet(dates)
      /\ Cardinality(dates) = Cardinality(S("exceptions")) + Cardinality(S("group_exceptions"))
  <2>1. S("exceptions") \cap S("group_exceptions") = {}
    BY <1>1
  <2> QED
    BY <1>2, <2>1, Added
<1>6. IsFiniteSet(more) /\ Cardinality(more) = Cardinality(dates) + Cardinality(S("schedules"))
  <2>1. dates \cap S("schedules") = {}
    BY <1>1
  <2> HIDE DEF dates
  <2> QED
    BY <1>2, <1>5, <2>1, Added
<1>7. IsFiniteSet(all) /\ Cardinality(all) = Cardinality(more) + Cardinality(S("group_schedules"))
  <2>1. more \cap S("group_schedules") = {}
    BY <1>1
  <2> HIDE DEF more
  <2> QED
    BY <1>2, <1>6, <2>1, Added
<1>8. Cardinality(two \cup all) = Cardinality(two) + Cardinality(all)
  <2>1. two \cap all = {}
    BY <1>1
  <2> HIDE DEF two, all
  <2> QED
    BY <1>4, <1>7, <2>1, Added
<1>9. two \cup all = Gone
  BY GoneIsSelected DEF PurgedTables, S
<1>10. \A t : Cardinality(S(t)) \in Nat
  BY <1>2, FS_CardinalityType
<1>11. Purge!previewRetentionPurge =
         Cardinality(S("usage_samples")) + Cardinality(S("grants")) + Cardinality(S("audit_log"))
         + (Cardinality(S("exceptions")) + Cardinality(S("group_exceptions"))
            + Cardinality(S("schedules")) + Cardinality(S("group_schedules")))
  BY PurgeCardinality DEF S, Purge!previewRetentionPurge, Purge!countExpiredRecords,
     Purge!countDateOverrides, Purge!countExpired
<1> HIDE DEF one, two, dates, more, all
<1>12. Purge!previewRetentionPurge = Cardinality(Gone)
  BY <1>3, <1>4, <1>5, <1>6, <1>7, <1>8, <1>9, <1>10, <1>11
<1> QED
  BY <1>12, PurgeCardinality DEF Purge!PreviewAgrees, Gone

\* A window of w days began less than w days ago.
LEMMA WindowStart ==
  ASSUME NEW n \in Nat, NEW w \in Nat, w > 0
  PROVE  (n \div w) * w \in Nat /\ (n \div w) * w > n - w
OBVIOUS

LEMMA NoShorter ==
  ASSUME NEW a \in Nat, NEW b \in Nat, a >= b, NEW c \in Nat
  PROVE  a * c \in Nat /\ b * c \in Nat /\ a * c >= b * c
OBVIOUS

\* A sample deleted under a rule no shorter than the window ended before it began.
LEMMA EndedBefore ==
  ASSUME RetentionInv, NEW w \in DayChoices, NEW p \in purged, p.days >= w
  PROVE  p.row.to <= Purge!Stored((now \div (w * Day)) * (w * Day))
<1> DEFINE width == w * Day
           q == (now \div width) * width
<1>1. /\ p.row.to \in Int /\ p.at \in Nat /\ p.at <= now /\ p.days \in Nat
      /\ p.at - 2 * p.row.to > p.days * Day /\ now \in Nat /\ w \in Nat /\ w > 0
  BY Settings DEF RetentionInv, RowsTyped, Deleted
<1>2. p.days * Day \in Nat /\ width \in Nat /\ p.days * Day >= width
  BY <1>1, Settings, NoShorter
<1>3. width > 0
  BY <1>1, Settings
<1> HIDE DEF width
<1>4. q \in Nat /\ q > now - width
  BY <1>1, <1>2, <1>3, WindowStart
<1> HIDE DEF q
<1>5. 2 * p.row.to < q
  BY <1>1, <1>2, <1>4
<1>6. p.row.to <= q \div 2
  BY <1>1, <1>4, <1>5, WholeSeconds
<1> QED
  BY <1>6 DEF q, width, Purge!Stored

LEMMA WindowsKept == ASSUME RetentionInv PROVE Purge!UsageKept
<1> DEFINE all == Purge!Samples \cup {p.row : p \in {q \in purged : q.row.table = "usage_samples"}}
<1> SUFFICES ASSUME NEW w \in DayChoices, \A p \in purged : p.days = Forever \/ p.days >= w,
                    NEW from, from = Purge!Stored((now \div (w * Day)) * (w * Day)), NEW to
             PROVE  /\ Purge!usageByActivityInWindow(Purge!Samples, from, to)
                       = Purge!usageByActivityInWindow(all, from, to)
                    /\ Purge!groupSecondsInWindow(Purge!Samples, from, to)
                       = Purge!groupSecondsInWindow(all, from, to)
  BY DEF Purge!UsageKept
<1>1. from \in Int /\ \A p \in purged : p.row.to \in Int /\ p.row.to <= from
  BY EndedBefore, Settings DEF RetentionInv, RowsTyped, Deleted, Purge!Stored
<1>2. \A r \in all : r \in Purge!Samples \/ ~(r.to > from)
  BY <1>1
<1> HIDE DEF all
<1>3. Purge!Samples \subseteq all
  BY DEF all
<1>4. ASSUME NEW a
      PROVE  Purge!samplesOverlapping({r \in Purge!Samples : r.activity = a}, from, to)
             = Purge!samplesOverlapping({r \in all : r.activity = a}, from, to)
  BY <1>2, <1>3 DEF Purge!samplesOverlapping
<1>5. Purge!samplesOverlapping({r \in Purge!Samples : r.activity \in Group}, from, to)
      = Purge!samplesOverlapping({r \in all : r.activity \in Group}, from, to)
  BY <1>2, <1>3 DEF Purge!samplesOverlapping
<1>6. \A a : Purge!activitySecondsInWindow(Purge!Samples, a, from, to)
             = Purge!activitySecondsInWindow(all, a, from, to)
  BY <1>4 DEF Purge!activitySecondsInWindow
<1>7. Purge!usageByActivityInWindow(Purge!Samples, from, to)
      = Purge!usageByActivityInWindow(all, from, to)
  BY <1>6 DEF Purge!usageByActivityInWindow
<1> QED
  BY <1>5, <1>7 DEF Purge!groupSecondsInWindow

(* ---- the data volume ---- *)

LEMMA VolumeCardinality == \A S : Volume!Cardinality(S) = Cardinality(S)
BY DEF Volume!Cardinality, Cardinality

Archive == [db : {Null} \cup Volume!Stores, secrets : {Null} \cup Volume!KeyPairs, conf : {Null} \cup Nat,
            torn : BOOLEAN]

VolumeTyped ==
  /\ db \in {Null} \cup Volume!Stores /\ secrets \in {Null} \cup Volume!KeyPairs /\ conf \in {Null} \cup Nat
  /\ \A s \in snapshots : s.stamp \in Int
  /\ venv \in [bin : Nat, sentinel : Nat] /\ laidOut \in BOOLEAN /\ image \in Images
  /\ archives \subseteq Archive
  /\ script \in [op : {"none", "backup", "restore"}, step : 0 .. 4, arc : {Null} \cup Archive]
  /\ edits \in Nat /\ nextKey \in Nat /\ files \in Nat /\ clock \in Int
  /\ hist \in [pre : {Null} \cup Volume!Stores, generated : BOOLEAN, torn : BOOLEAN,
               corrupt : BOOLEAN, swapped : BOOLEAN, steppedBack : BOOLEAN]

\* A store whose clients trust the server's key, or none, and that key's public half.
Fits(store, keys) ==
  /\ store # Null /\ keys # Null
  /\ store.trusts \subseteq {0, keys.priv} /\ keys.pub \in {0, keys.priv}

\* The volume, and each archive, holds a store and keys that fit; a server that runs
\* has both.
Trusting ==
  /\ laidOut /\ ~hist.torn => Fits(db, secrets)
  /\ ~laidOut => db = Null /\ secrets = Null
  /\ server # "down" => laidOut /\ db # Null /\ secrets # Null
  /\ \A a \in archives : ~a.torn => Fits(a.db, a.secrets)

\* What a backup has copied fits what it has yet to copy, although the server may make
\* its key meanwhile.
BackingUp ==
  script.op = "backup" =>
    /\ laidOut /\ script.step >= 1 /\ script.arc \in Archive /\ script.arc.torn = hist.torn
    /\ ~hist.torn /\ script.step = 2 =>
         script.arc.db # Null /\ script.arc.db.trusts \subseteq {0, secrets.priv}
    /\ ~hist.torn /\ script.step > 2 => Fits(script.arc.db, script.arc.secrets)

\* A restore has the volume to itself, and what it has put there is the archive's.
Restoring ==
  script.op = "restore" =>
    /\ server = "down" /\ laidOut /\ hist.torn /\ script.arc \in Archive
    /\ ~script.arc.torn => Fits(script.arc.db, script.arc.secrets)
    /\ script.arc.db # Null /\ db # Null => db.trusts = script.arc.db.trusts
    /\ script.arc.secrets # Null /\ secrets # Null => secrets = script.arc.secrets

\* The sidecar on disk belongs to the store on disk.
Sidecar == /\ wal # 0 /\ db # Null => wal = db.file
           /\ ~hist.corrupt

\* From the moment the transports are built they have the key on disk, but for the boot
\* that made it.
Credentials ==
  server \in {"keygen", "pubkey", "listen", "up"} =>
    creds = secrets.priv \/ (creds = 0 /\ hist.generated)

\* A venv holds what was recorded or what the image wants, or is being replaced.
Pinned ==
  /\ server # "up" => venvState = "idle"
  /\ ~hist.swapped => /\ venv.bin \in {0, venv.sentinel, image.core}
                      /\ venvState \in {"record", "ready"} => venv.bin = image.core

VolumeInv ==
  /\ VolumeTyped /\ Trusting /\ BackingUp /\ Restoring /\ Sidecar /\ Credentials /\ Pinned
  /\ Volume!MigrationCanBeUndone

USE DEF Volume!volume, Volume!process, Volume!counters

(* Boot. *)

LEMMA VolumeInitInv == ASSUME Volume!Init PROVE VolumeInv
<1>1. VolumeTyped
  <2>1. script \in [op : {"none", "backup", "restore"}, step : 0 .. 4, arc : {Null} \cup Archive]
    BY DEF Volume!Init, Volume!Idle
  <2>2. hist \in [pre : {Null} \cup Volume!Stores, generated : BOOLEAN, torn : BOOLEAN,
                  corrupt : BOOLEAN, swapped : BOOLEAN, steppedBack : BOOLEAN]
    BY DEF Volume!Init
  <2>3. venv \in [bin : Nat, sentinel : Nat] /\ archives \subseteq Archive /\ snapshots = {}
    BY DEF Volume!Init
  <2>4. db = Null /\ secrets = Null /\ conf = Null /\ laidOut \in BOOLEAN /\ image \in Images
    BY DEF Volume!Init
  <2>5. edits \in Nat /\ nextKey \in Nat /\ files \in Nat /\ clock \in Int
    BY DEF Volume!Init
  <2> QED
    BY <2>1, <2>2, <2>3, <2>4, <2>5 DEF VolumeTyped
<1> QED
  BY <1>1 DEF Volume!Init, Volume!Idle, VolumeInv, Trusting, BackingUp, Restoring, Sidecar,
       Credentials, Pinned, Volume!MigrationCanBeUndone

\* An empty volume gets a fresh store, trusted by nobody, and no key.
LEMMA BootInv == ASSUME Volume!ConstantsOK, VolumeInv, Volume!Boot PROVE VolumeInv'
<1>1. /\ db' \in Volume!Stores /\ files' \in Nat
      /\ db = Null => db'.trusts = {}
      /\ db # Null => db' = db
  BY DEF VolumeInv, VolumeTyped, Volume!Stores, Volume!Boot, Volume!openDatabase
<1>2. secrets' \in Volume!KeyPairs /\ (secrets # Null => secrets' = secrets)
      /\ (secrets = Null => secrets'.priv = 0 /\ secrets'.pub = 0)
  BY DEF VolumeInv, VolumeTyped, Volume!KeyPairs, Volume!Boot, Volume!NoKey
<1>3. hist' = hist /\ wal' = 0
  BY DEF VolumeInv, VolumeTyped, Sidecar, Volume!Boot, Volume!openDatabase
<1>4. VolumeTyped'
  BY <1>1, <1>2, <1>3 DEF VolumeInv, VolumeTyped, Volume!Boot
<1>5. Trusting'
  BY <1>1, <1>2, <1>3 DEF VolumeInv, Trusting, Fits, Volume!ConstantsOK, Volume!Stores, Volume!KeyPairs, Volume!Boot
<1>6. BackingUp'
  BY <1>2, <1>3 DEF VolumeInv, VolumeTyped, Trusting, BackingUp, Fits, Volume!Boot
<1>7. Restoring' /\ Sidecar' /\ Credentials' /\ Pinned' /\ Volume!MigrationCanBeUndone'
  BY <1>3 DEF VolumeInv, Restoring, Sidecar, Credentials, Pinned, Volume!MigrationCanBeUndone, Volume!Boot
<1> QED
  BY <1>4, <1>5, <1>6, <1>7 DEF VolumeInv

\* The snapshot just taken is the newest, unless the clock ran backwards, and pruning
\* keeps the newest.
LEMMA SnapshotKept ==
  ASSUME Volume!ConstantsOK, VolumeInv, NEW stamp \in Int, Volume!Snapshot(stamp)
  PROVE  /\ \A s \in snapshots' : s.stamp \in Int
         /\ clock' \in Int
         /\ Volume!MigrationCanBeUndone'
<1> DEFINE new  == [stamp |-> stamp, of |-> db, whole |-> TRUE]
           snaps == snapshots \cup {new}
<1>1. snapshots' = {s \in snaps : Volume!Cardinality({x \in snaps : x.stamp > s.stamp}) < Retain}
  BY DEF Volume!Snapshot, Volume!backUpBeforeMigrate, Volume!pruneBackups
<1>2. (\A s \in snapshots' : s.stamp \in Int) /\ clock' \in Int
  <2>1. \A s \in snaps : s.stamp \in Int
    BY DEF VolumeInv, VolumeTyped
  <2> QED
    BY <1>1, <2>1 DEF Volume!Snapshot, Volume!backUpBeforeMigrate
<1>3. ASSUME ~hist'.steppedBack, Retain > 0 PROVE new \in snapshots' /\ new.whole /\ new.of = hist'.pre
  <2>1. \A s \in snapshots : ~(s.stamp > stamp)
    BY <1>3 DEF VolumeInv, VolumeTyped, Volume!Snapshot
  <2>2. {x \in snaps : x.stamp > new.stamp} = {}
    BY <2>1
  <2>3. Volume!Cardinality({x \in snaps : x.stamp > new.stamp}) = 0
    BY <2>2, FS_EmptySet, VolumeCardinality
  <2>4. new \in snapshots'
    BY <1>1, <1>3, <2>3
  <2>5. hist'.pre = db
    BY DEF VolumeInv, VolumeTyped, Volume!Snapshot
  <2> QED
    BY <2>4, <2>5
<1> QED
  BY <1>2, <1>3 DEF Volume!MigrationCanBeUndone

LEMMA MigrateBackedUpInv == ASSUME Volume!ConstantsOK, VolumeInv, Volume!MigrateBackedUp PROVE VolumeInv'
<1>1. PICK stamp \in (clock - 1) .. (clock + 1) : Volume!Snapshot(stamp)
  BY DEF Volume!MigrateBackedUp
<1>2. stamp \in Int
  BY DEF VolumeInv, VolumeTyped
<1>3. (\A s \in snapshots' : s.stamp \in Int) /\ clock' \in Int /\ Volume!MigrationCanBeUndone'
  BY <1>1, <1>2, SnapshotKept
<1>4. hist' = [hist EXCEPT !.pre = db, !.steppedBack = @ \/ \E s \in snapshots : s.stamp > stamp]
  BY <1>1 DEF Volume!Snapshot
<1>5. db' \in Volume!Stores /\ db'.trusts = db.trusts /\ db'.file = db.file
  BY DEF VolumeInv, VolumeTyped, Trusting, Volume!Stores, Volume!ConstantsOK, Volume!MigrateBackedUp, Volume!migrate
<1>6. VolumeTyped'
  BY <1>3, <1>4, <1>5 DEF VolumeInv, VolumeTyped, Volume!MigrateBackedUp
<1>7. Trusting' /\ BackingUp' /\ Restoring'
  BY <1>4, <1>5 DEF VolumeInv, VolumeTyped, Trusting, BackingUp, Restoring, Fits, Volume!ConstantsOK, Volume!Stores,
                    Volume!MigrateBackedUp
<1>8. Sidecar' /\ Credentials' /\ Pinned'
  BY <1>4, <1>5 DEF VolumeInv, VolumeTyped, Trusting, Sidecar, Credentials, Pinned, Volume!MigrateBackedUp
<1> QED
  BY <1>3, <1>6, <1>7, <1>8 DEF VolumeInv

\* A file more among the snapshots takes none away.
LEMMA VacuumKeeps ==
  ASSUME VolumeInv, NEW stamp \in Int, NEW whole \in BOOLEAN, Volume!vacuumInto(stamp, whole)
  PROVE  (\A s \in snapshots' : s.stamp \in Int) /\ clock' \in Int /\ snapshots \subseteq snapshots'
BY DEF VolumeInv, VolumeTyped, Volume!vacuumInto

\* A migration leaves the clients' trust and the file as they are.
LEMMA MigrateOnlyInv == ASSUME Volume!ConstantsOK, VolumeInv, Volume!MigrateOnly PROVE VolumeInv'
<1>1. db' \in Volume!Stores /\ db'.trusts = db.trusts /\ db'.file = db.file
  BY DEF VolumeInv, VolumeTyped, Trusting, Volume!Stores, Volume!ConstantsOK, Volume!MigrateOnly, Volume!migrate
<1>2. (\A s \in snapshots' : s.stamp \in Int) /\ clock' \in Int /\ snapshots \subseteq snapshots'
  <2>1. CASE UNCHANGED <<snapshots, clock>>
    BY <2>1 DEF VolumeInv, VolumeTyped
  <2>2. CASE \E stamp \in (clock - 1) .. (clock + 1) : Volume!vacuumInto(stamp, FALSE)
    <3>1. PICK stamp \in (clock - 1) .. (clock + 1) : Volume!vacuumInto(stamp, FALSE)
      BY <2>2
    <3>2. stamp \in Int
      BY DEF VolumeInv, VolumeTyped
    <3> QED
      BY <3>1, <3>2, VacuumKeeps
  <2> QED
    BY <2>1, <2>2 DEF Volume!MigrateOnly
<1>3. VolumeTyped'
  BY <1>1, <1>2 DEF VolumeInv, VolumeTyped, Volume!MigrateOnly
<1>4. Trusting' /\ BackingUp' /\ Restoring'
  BY <1>1 DEF VolumeInv, VolumeTyped, Trusting, BackingUp, Restoring, Fits, Volume!ConstantsOK, Volume!Stores,
              Volume!MigrateOnly
<1>5. Sidecar' /\ Credentials' /\ Pinned'
  BY <1>1 DEF VolumeInv, VolumeTyped, Trusting, Sidecar, Credentials, Pinned, Volume!MigrateOnly
<1>6. Volume!MigrationCanBeUndone'
  BY <1>2 DEF VolumeInv, VolumeTyped, Volume!MigrationCanBeUndone, Volume!MigrateOnly
<1> QED
  BY <1>3, <1>4, <1>5, <1>6 DEF VolumeInv

\* A boot cut at its snapshot leaves the snapshots there were.
LEMMA SnapshotCutInv == ASSUME Volume!ConstantsOK, VolumeInv, Volume!SnapshotCut PROVE VolumeInv'
<1>1. PICK stamp \in (clock - 1) .. (clock + 1), whole \in BOOLEAN : Volume!vacuumInto(stamp, whole)
  BY DEF Volume!SnapshotCut
<1>2. stamp \in Int
  BY DEF VolumeInv, VolumeTyped
<1>3. (\A s \in snapshots' : s.stamp \in Int) /\ clock' \in Int /\ snapshots \subseteq snapshots'
  BY <1>1, <1>2, VacuumKeeps
<1>4. VolumeTyped' /\ Volume!MigrationCanBeUndone'
  BY <1>3 DEF VolumeInv, VolumeTyped, Volume!MigrationCanBeUndone, Volume!SnapshotCut
<1>5. Trusting' /\ BackingUp' /\ Restoring' /\ Sidecar' /\ Credentials' /\ Pinned'
  BY DEF VolumeInv, VolumeTyped, Trusting, BackingUp, Restoring, Sidecar, Credentials, Pinned,
              Volume!SnapshotCut
<1> QED
  BY <1>4, <1>5 DEF VolumeInv

\* A migration that fails leaves the store, and has its snapshot too.
LEMMA MigrateFailsInv == ASSUME Volume!ConstantsOK, VolumeInv, Volume!MigrateFails PROVE VolumeInv'
<1>1. PICK stamp \in (clock - 1) .. (clock + 1) : Volume!Snapshot(stamp)
  BY DEF Volume!MigrateFails
<1>2. stamp \in Int
  BY DEF VolumeInv, VolumeTyped
<1>3. (\A s \in snapshots' : s.stamp \in Int) /\ clock' \in Int /\ Volume!MigrationCanBeUndone'
  BY <1>1, <1>2, SnapshotKept
<1>4. hist' = [hist EXCEPT !.pre = db, !.steppedBack = @ \/ \E s \in snapshots : s.stamp > stamp]
  BY <1>1 DEF Volume!Snapshot
<1>5. VolumeTyped'
  BY <1>3, <1>4 DEF VolumeInv, VolumeTyped, Volume!MigrateFails
<1>6. Trusting' /\ BackingUp' /\ Restoring' /\ Sidecar' /\ Credentials' /\ Pinned'
  BY <1>4 DEF VolumeInv, VolumeTyped, Trusting, BackingUp, Restoring, Sidecar, Credentials, Pinned,
              Volume!MigrateFails
<1> QED
  BY <1>3, <1>5, <1>6 DEF VolumeInv

LEMMA BuildServicesInv == ASSUME Volume!ConstantsOK, VolumeInv, Volume!buildAppServices PROVE VolumeInv'
<1>1. VolumeTyped'
  BY DEF VolumeInv, VolumeTyped, Volume!buildAppServices, Volume!createPolicyPushTransport
<1>2. Trusting' /\ BackingUp' /\ Restoring' /\ Sidecar' /\ Credentials' /\ Pinned' /\ Volume!MigrationCanBeUndone'
  BY DEF VolumeInv, Trusting, BackingUp, Restoring, Sidecar, Credentials, Pinned,
      Volume!MigrationCanBeUndone, VolumeTyped, Volume!buildAppServices,
      Volume!createPolicyPushTransport
<1> QED
  BY <1>1, <1>2 DEF VolumeInv

\* A key that is made where there was none is trusted by no client yet, and an empty file
\* is no key.
LEMMA KeyPairInv ==
  ASSUME Volume!ConstantsOK, VolumeInv, Volume!ensureServerSshKeyPair PROVE VolumeInv'
<1>1. CASE /\ secrets' \in {secrets, [file |-> TRUE, priv |-> 0, pub |-> secrets.pub]}
           /\ secrets'.priv = secrets.priv /\ secrets'.pub = secrets.pub
           /\ UNCHANGED <<nextKey, hist>> /\ server' = "listen"
  <2>1. secrets' \in Volume!KeyPairs
    <3>1. secrets \in Volume!KeyPairs
      BY DEF VolumeInv, VolumeTyped, Trusting, Volume!ensureServerSshKeyPair
    <3>2. CASE secrets' = secrets
      BY <3>1, <3>2
    <3>3. CASE secrets' = [file |-> TRUE, priv |-> 0, pub |-> secrets.pub]
      BY <3>1, <3>3 DEF Volume!KeyPairs
    <3> QED
      BY <1>1, <3>2, <3>3
  <2>2. VolumeTyped'
    BY <1>1, <2>1 DEF VolumeInv, VolumeTyped, Volume!ensureServerSshKeyPair
  <2>3. Trusting' /\ BackingUp' /\ Restoring'
    BY <1>1, <2>1 DEF VolumeInv, VolumeTyped, Trusting, BackingUp, Restoring, Fits, Volume!ConstantsOK,
                      Volume!ensureServerSshKeyPair
  <2>4. Sidecar' /\ Credentials' /\ Pinned' /\ Volume!MigrationCanBeUndone'
    BY <1>1 DEF VolumeInv, Sidecar, Credentials, Pinned, Volume!MigrationCanBeUndone,
                Volume!ensureServerSshKeyPair
  <2> QED
    BY <2>2, <2>3, <2>4 DEF VolumeInv
<1>2. CASE /\ secrets.priv = 0
           /\ secrets' = [file |-> TRUE, priv |-> nextKey, pub |-> secrets.pub]
           /\ nextKey' = nextKey + 1 /\ server' = "pubkey"
           /\ hist' = [hist EXCEPT !.generated = TRUE]
  <2>1. secrets \in Volume!KeyPairs /\ secrets' \in Volume!KeyPairs /\ secrets'.pub = secrets.pub
    BY <1>2 DEF VolumeInv, VolumeTyped, Trusting, Volume!KeyPairs, Volume!ensureServerSshKeyPair
  <2>2. VolumeTyped'
    <3>1. nextKey' \in Nat
      BY <1>2 DEF VolumeInv, VolumeTyped
    <3> QED
      BY <1>2, <2>1, <3>1 DEF VolumeInv, VolumeTyped, Volume!ensureServerSshKeyPair
  <2>3. Trusting' /\ Restoring'
    BY <1>2, <2>1 DEF VolumeInv, VolumeTyped, Trusting, Restoring, Fits, Volume!ConstantsOK, Volume!KeyPairs,
                      Volume!ensureServerSshKeyPair
  <2>4. BackingUp'
    BY <1>2, <2>1 DEF VolumeInv, VolumeTyped, BackingUp, Volume!ensureServerSshKeyPair
  <2>5. Sidecar' /\ Credentials' /\ Pinned' /\ Volume!MigrationCanBeUndone'
    BY <1>2 DEF VolumeInv, VolumeTyped, Sidecar, Credentials, Pinned, Volume!MigrationCanBeUndone,
                Volume!ensureServerSshKeyPair
  <2> QED
    BY <2>2, <2>3, <2>4, <2>5 DEF VolumeInv
<1>3. ~secrets.file => secrets.priv = 0
  BY DEF VolumeInv, VolumeTyped, Trusting, Volume!KeyPairs, Volume!ensureServerSshKeyPair
<1> QED
  BY <1>1, <1>2, <1>3 DEF Volume!ensureServerSshKeyPair

LEMMA PublicKeyInv == ASSUME Volume!ConstantsOK, VolumeInv, Volume!writePublicKey PROVE VolumeInv'
<1>1. VolumeTyped'
  BY DEF VolumeInv, VolumeTyped, Volume!KeyPairs, Trusting, Volume!writePublicKey
<1>2. Trusting'
  BY DEF VolumeInv, Trusting, VolumeTyped, Fits, Volume!KeyPairs, Volume!ConstantsOK, Volume!writePublicKey
<1>3. BackingUp' /\ Credentials'
  BY DEF VolumeInv, BackingUp, Credentials, VolumeTyped, Volume!KeyPairs, Trusting, Volume!writePublicKey
<1>4. Restoring'
  BY DEF VolumeInv, Restoring, Volume!writePublicKey
<1>5. Sidecar' /\ Pinned' /\ Volume!MigrationCanBeUndone'
  BY DEF VolumeInv, Sidecar, Pinned, Volume!MigrationCanBeUndone, Volume!writePublicKey
<1> QED
  BY <1>1, <1>2, <1>3, <1>4, <1>5 DEF VolumeInv

LEMMA ListenInv == ASSUME Volume!ConstantsOK, VolumeInv, Volume!Listen PROVE VolumeInv'
<1>1. VolumeTyped'
  BY DEF VolumeInv, VolumeTyped, Volume!Listen
<1>2. Pinned'
  BY DEF VolumeInv, Pinned, Volume!Listen
<1>3. Trusting' /\ BackingUp' /\ Restoring' /\ Sidecar' /\ Credentials' /\ Volume!MigrationCanBeUndone'
  BY DEF VolumeInv, Trusting, BackingUp, Restoring, Sidecar, Credentials,
      Volume!MigrationCanBeUndone, Volume!Listen
<1> QED
  BY <1>1, <1>2, <1>3 DEF VolumeInv

(* The venv. *)

LEMMA VenvCheckInv == ASSUME Volume!ConstantsOK, VolumeInv, Volume!VenvCheck PROVE VolumeInv'
<1>1. VolumeTyped'
  BY DEF VolumeInv, VolumeTyped, Volume!VenvCheck, Volume!installNeeded
<1>2. Pinned'
  BY DEF VolumeInv, Pinned, Volume!VenvCheck, Volume!installNeeded
<1>3. Trusting' /\ BackingUp' /\ Restoring' /\ Sidecar' /\ Credentials' /\ Volume!MigrationCanBeUndone'
  BY DEF VolumeInv, Trusting, BackingUp, Restoring, Sidecar, Credentials,
      Volume!MigrationCanBeUndone, Volume!VenvCheck, Volume!installNeeded
<1> QED
  BY <1>1, <1>2, <1>3 DEF VolumeInv

LEMMA PipRemovesInv == ASSUME Volume!ConstantsOK, VolumeInv, Volume!PipRemoves PROVE VolumeInv'
<1>1. VolumeTyped'
  BY DEF VolumeInv, VolumeTyped, Volume!PipRemoves
<1>2. Pinned'
  BY DEF VolumeInv, Pinned, VolumeTyped, Volume!PipRemoves
<1>3. Trusting' /\ BackingUp' /\ Restoring' /\ Sidecar' /\ Credentials' /\ Volume!MigrationCanBeUndone'
  BY DEF VolumeInv, Trusting, BackingUp, Restoring, Sidecar, Credentials,
      Volume!MigrationCanBeUndone, Volume!PipRemoves
<1> QED
  BY <1>1, <1>2, <1>3 DEF VolumeInv

\* pip leaves the version the image pins, whatever was there.
LEMMA PipInstallsInv == ASSUME Volume!ConstantsOK, VolumeInv, Volume!PipInstalls PROVE VolumeInv'
<1>1. VolumeTyped'
  BY DEF VolumeInv, VolumeTyped, Volume!ConstantsOK, Volume!PipInstalls
<1>2. Pinned'
  BY DEF VolumeInv, Pinned, VolumeTyped, Volume!PipInstalls
<1>3. Trusting' /\ BackingUp' /\ Restoring' /\ Sidecar' /\ Credentials' /\ Volume!MigrationCanBeUndone'
  BY DEF VolumeInv, Trusting, BackingUp, Restoring, Sidecar, Credentials,
      Volume!MigrationCanBeUndone, Volume!PipInstalls
<1> QED
  BY <1>1, <1>2, <1>3 DEF VolumeInv

LEMMA VenvReadyInv == ASSUME Volume!ConstantsOK, VolumeInv, Volume!VenvReady PROVE VolumeInv'
<1>1. VolumeTyped'
  BY DEF VolumeInv, VolumeTyped, Volume!ConstantsOK, Volume!VenvReady
<1>2. Pinned'
  BY DEF VolumeInv, Pinned, VolumeTyped, Volume!VenvReady
<1>3. Trusting' /\ BackingUp' /\ Restoring' /\ Sidecar' /\ Credentials' /\ Volume!MigrationCanBeUndone'
  BY DEF VolumeInv, Trusting, BackingUp, Restoring, Sidecar, Credentials,
      Volume!MigrationCanBeUndone, Volume!VenvReady
<1> QED
  BY <1>1, <1>2, <1>3 DEF VolumeInv

LEMMA VenvFailsInv == ASSUME Volume!ConstantsOK, VolumeInv, Volume!VenvFails PROVE VolumeInv'
<1>1. VolumeTyped'
  BY DEF VolumeInv, VolumeTyped, Volume!VenvFails
<1>2. Pinned'
  BY DEF VolumeInv, Pinned, Volume!VenvFails
<1>3. Trusting' /\ BackingUp' /\ Restoring' /\ Sidecar' /\ Credentials' /\ Volume!MigrationCanBeUndone'
  BY DEF VolumeInv, Trusting, BackingUp, Restoring, Sidecar, Credentials,
      Volume!MigrationCanBeUndone, Volume!VenvFails
<1> QED
  BY <1>1, <1>2, <1>3 DEF VolumeInv

(* The running server, and the host. *)

LEMMA EditInv == ASSUME Volume!ConstantsOK, VolumeInv, Volume!Edit PROVE VolumeInv'
<1>1. VolumeTyped'
  BY DEF VolumeInv, VolumeTyped, Volume!Stores, Trusting, Volume!Edit
<1>2. Trusting'
  BY DEF VolumeInv, Trusting, VolumeTyped, Fits, Volume!Stores, Volume!ConstantsOK, Volume!Edit
<1>3. Restoring'
  BY DEF VolumeInv, Restoring, Volume!Edit
<1>4. Sidecar'
  BY DEF VolumeInv, Sidecar, VolumeTyped, Volume!Stores, Trusting, Volume!Edit
<1>5. BackingUp' /\ Credentials' /\ Pinned' /\ Volume!MigrationCanBeUndone'
  BY DEF VolumeInv, BackingUp, Credentials, Pinned, Volume!MigrationCanBeUndone, Volume!Edit
<1> QED
  BY <1>1, <1>2, <1>3, <1>4, <1>5 DEF VolumeInv

\* A client that enrols trusts the public key on disk, which is the server's or none.
LEMMA EnrolInv == ASSUME Volume!ConstantsOK, VolumeInv, Volume!Enrol PROVE VolumeInv'
<1>1. db \in Volume!Stores /\ secrets \in Volume!KeyPairs
  BY DEF VolumeInv, VolumeTyped, Trusting, Volume!Enrol
<1>2. db' \in Volume!Stores /\ db'.trusts = db.trusts \cup {secrets.pub} /\ db'.file = db.file
  <2>1. db.trusts \cup {secrets.pub} \in SUBSET Nat
    BY <1>1 DEF Volume!Stores, Volume!KeyPairs
  <2>2. db' = [db EXCEPT !.edits = db.edits + 1, !.trusts = db.trusts \cup {secrets.pub}]
    BY DEF Volume!Enrol
  <2>3. db' = [schema |-> db.schema, edits |-> db.edits + 1,
               trusts |-> db.trusts \cup {secrets.pub}, file |-> db.file]
    BY <1>1, <2>2 DEF Volume!Stores
  <2> QED
    BY <1>1, <2>1, <2>3 DEF Volume!Stores
<1>3. VolumeTyped'
  BY <1>1, <1>2 DEF VolumeInv, VolumeTyped, Volume!Enrol
<1>4. Trusting' /\ Restoring'
  BY <1>1, <1>2 DEF VolumeInv, Trusting, Restoring, Fits, Volume!ConstantsOK, Volume!Stores, Volume!Enrol
<1>5. Sidecar'
  BY <1>2 DEF VolumeInv, Sidecar, Volume!Enrol
<1>6. BackingUp' /\ Credentials' /\ Pinned' /\ Volume!MigrationCanBeUndone'
  BY DEF VolumeInv, BackingUp, Credentials, Pinned, Volume!MigrationCanBeUndone, Volume!Enrol
<1> QED
  BY <1>3, <1>4, <1>5, <1>6 DEF VolumeInv

LEMMA SaveConfInv == ASSUME Volume!ConstantsOK, VolumeInv, Volume!SaveConf PROVE VolumeInv'
<1>1. VolumeTyped'
  BY DEF VolumeInv, VolumeTyped, Volume!SaveConf
<1>2. Trusting' /\ BackingUp' /\ Restoring' /\ Sidecar' /\ Credentials' /\ Pinned' /\ Volume!MigrationCanBeUndone'
  BY DEF VolumeInv, Trusting, BackingUp, Restoring, Sidecar, Credentials, Pinned,
      Volume!MigrationCanBeUndone, Volume!SaveConf
<1> QED
  BY <1>1, <1>2 DEF VolumeInv

LEMMA TeardownInv == ASSUME Volume!ConstantsOK, VolumeInv, Volume!teardown PROVE VolumeInv'
<1>1. VolumeTyped'
  BY DEF VolumeInv, VolumeTyped, Volume!teardown, Volume!down
<1>2. Trusting' /\ BackingUp' /\ Restoring' /\ Sidecar' /\ Credentials' /\ Pinned' /\ Volume!MigrationCanBeUndone'
  BY DEF VolumeInv, Trusting, BackingUp, Restoring, Sidecar, Credentials, Pinned,
      Volume!MigrationCanBeUndone, VolumeTyped, Volume!teardown, Volume!down
<1> QED
  BY <1>1, <1>2 DEF VolumeInv

LEMMA CrashInv == ASSUME Volume!ConstantsOK, VolumeInv, Volume!Crash PROVE VolumeInv'
<1>1. VolumeTyped'
  BY DEF VolumeInv, VolumeTyped, Volume!Crash, Volume!down
<1>2. Trusting' /\ BackingUp' /\ Restoring' /\ Sidecar' /\ Credentials' /\ Pinned' /\ Volume!MigrationCanBeUndone'
  BY DEF VolumeInv, Trusting, BackingUp, Restoring, Sidecar, Credentials, Pinned,
      Volume!MigrationCanBeUndone, VolumeTyped, Volume!Crash, Volume!down
<1> QED
  BY <1>1, <1>2 DEF VolumeInv

\* A venv that is as recorded stays so under another image.
LEMMA ChangeImageInv == ASSUME Volume!ConstantsOK, VolumeInv, Volume!ChangeImage PROVE VolumeInv'
<1>1. VolumeTyped'
  BY DEF VolumeInv, VolumeTyped, Volume!ChangeImage
<1>2. Pinned'
  BY DEF VolumeInv, Pinned, VolumeTyped, Volume!ChangeImage
<1>3. Trusting' /\ BackingUp' /\ Restoring' /\ Sidecar' /\ Credentials' /\ Volume!MigrationCanBeUndone'
  BY DEF VolumeInv, Trusting, BackingUp, Restoring, Sidecar, Credentials,
      Volume!MigrationCanBeUndone, VolumeTyped, Volume!ChangeImage
<1> QED
  BY <1>1, <1>2, <1>3 DEF VolumeInv

LEMMA LoseVolumeInv == ASSUME Volume!ConstantsOK, VolumeInv, Volume!LoseVolume PROVE VolumeInv'
<1>1. VolumeTyped'
  BY DEF VolumeInv, VolumeTyped, Volume!LoseVolume, Volume!Idle
<1>2. Pinned'
  BY DEF VolumeInv, Pinned, VolumeTyped, Volume!LoseVolume, Volume!Idle
<1>3. Trusting' /\ BackingUp' /\ Restoring' /\ Sidecar' /\ Credentials' /\ Volume!MigrationCanBeUndone'
  BY DEF VolumeInv, Trusting, BackingUp, Restoring, Sidecar, Credentials,
      Volume!MigrationCanBeUndone, VolumeTyped, Volume!LoseVolume, Volume!Idle
<1> QED
  BY <1>1, <1>2, <1>3 DEF VolumeInv

(* Backup and restore. *)

LEMMA BackupStartsInv == ASSUME Volume!ConstantsOK, VolumeInv, Volume!BackupStarts PROVE VolumeInv'
<1>1. VolumeTyped'
  BY DEF VolumeInv, VolumeTyped, Archive, Volume!BackupStarts, Volume!Idle, Volume!Empty
<1>2. BackingUp'
  BY DEF VolumeInv, BackingUp, VolumeTyped, Archive, Volume!BackupStarts, Volume!Idle,
      Volume!Empty
<1>3. Trusting' /\ Restoring' /\ Sidecar' /\ Credentials' /\ Pinned' /\ Volume!MigrationCanBeUndone'
  BY DEF VolumeInv, Trusting, Restoring, Sidecar, Credentials, Pinned,
      Volume!MigrationCanBeUndone, Volume!BackupStarts, Volume!Idle, Volume!Empty
<1> QED
  BY <1>1, <1>2, <1>3 DEF VolumeInv

LEMMA BackupCopiesInv == ASSUME Volume!ConstantsOK, VolumeInv, Volume!BackupCopies PROVE VolumeInv'
<1>1. script.arc \in Archive /\ script.step \in 1 .. 3
  BY DEF VolumeInv, VolumeTyped, BackingUp, Volume!BackupCopies
<1> DEFINE copied == CASE script.step = 1 -> [script.arc EXCEPT !.db = db]
                       [] script.step = 2 -> [script.arc EXCEPT !.secrets = secrets]
                       [] OTHER -> [script.arc EXCEPT !.conf = conf]
<1>2. script' = [op |-> "backup", step |-> script.step + 1, arc |-> copied]
  <2>1. script' = [script EXCEPT !.step = script.step + 1, !.arc = copied]
    <3>1. /\ (Volume!backupOrder[script.step] = "db") <=> (script.step = 1)
          /\ (Volume!backupOrder[script.step] = "secrets") <=> (script.step = 2)
      BY <1>1 DEF Volume!backupOrder
    <3> QED
      BY <3>1 DEF Volume!BackupCopies
  <2> QED
    BY <2>1 DEF VolumeInv, VolumeTyped, Volume!BackupCopies
<1>3. copied \in Archive
  BY <1>1 DEF VolumeInv, VolumeTyped, Archive
<1>4. VolumeTyped'
  BY <1>1, <1>2, <1>3 DEF VolumeInv, VolumeTyped, Volume!BackupCopies
<1>5. BackingUp'
  <2>1. /\ copied.torn = script.arc.torn
        /\ copied.db = IF script.step = 1 THEN db ELSE script.arc.db
        /\ copied.secrets = IF script.step = 2 THEN secrets ELSE script.arc.secrets
    BY <1>1 DEF Archive
  <2> HIDE DEF copied
  <2>2. /\ script'.op = "backup" /\ script'.step = script.step + 1 /\ script'.arc = copied
        /\ UNCHANGED <<db, secrets, laidOut, hist>>
    <3>1. UNCHANGED <<db, secrets, laidOut, hist>>
      BY DEF Volume!BackupCopies
    <3> QED
      BY <1>2, <3>1
  <2>3. /\ laidOut /\ script.arc.torn = hist.torn
        /\ ~hist.torn /\ script.step = 2 =>
             script.arc.db # Null /\ script.arc.db.trusts \subseteq {0, secrets.priv}
        /\ ~hist.torn /\ script.step = 3 => Fits(script.arc.db, script.arc.secrets)
        /\ ~hist.torn => Fits(db, secrets)
    BY DEF VolumeInv, Trusting, BackingUp, Volume!BackupCopies
  <2>4. CASE script.step = 1
    BY <1>3, <2>1, <2>2, <2>3, <2>4 DEF BackingUp, Fits
  <2>5. CASE script.step = 2
    BY <1>3, <2>1, <2>2, <2>3, <2>5 DEF BackingUp, Fits
  <2>6. CASE script.step = 3
    BY <1>3, <2>1, <2>2, <2>3, <2>6 DEF BackingUp, Fits
  <2> QED
    BY <1>1, <2>4, <2>5, <2>6
<1>6. Trusting' /\ Restoring' /\ Sidecar' /\ Credentials' /\ Pinned' /\ Volume!MigrationCanBeUndone'
  BY <1>2 DEF VolumeInv, Trusting, Restoring, Sidecar, Credentials, Pinned,
              Volume!MigrationCanBeUndone, Volume!BackupCopies
<1> QED
  BY <1>4, <1>5, <1>6 DEF VolumeInv

\* An archive that is written was copied from one volume, key made meanwhile or not.
LEMMA BackupWritesInv == ASSUME Volume!ConstantsOK, VolumeInv, Volume!BackupWrites PROVE VolumeInv'
<1>1. VolumeTyped'
  BY DEF VolumeInv, VolumeTyped, BackingUp, Volume!BackupWrites, Volume!Idle
<1>2. Trusting'
  BY DEF VolumeInv, Trusting, BackingUp, VolumeTyped, Volume!BackupWrites, Volume!Idle
<1>3. BackingUp' /\ Restoring' /\ Sidecar' /\ Credentials' /\ Pinned' /\ Volume!MigrationCanBeUndone'
  BY DEF VolumeInv, BackingUp, Restoring, Sidecar, Credentials, Pinned,
      Volume!MigrationCanBeUndone, Volume!BackupWrites, Volume!Idle
<1> QED
  BY <1>1, <1>2, <1>3 DEF VolumeInv

LEMMA RestoreStartsInv ==
  ASSUME Volume!ConstantsOK, VolumeInv, NEW force \in BOOLEAN, Volume!RestoreStarts(force) PROVE VolumeInv'
<1>1. PICK a \in archives :
         /\ script' = [op |-> "restore", step |-> 0, arc |-> a]
         /\ db' = IF a.db # Null THEN Null ELSE db
         /\ secrets' = IF a.secrets # Null THEN Null ELSE secrets
         /\ conf' = IF a.conf # Null THEN Null ELSE conf
  BY DEF Volume!RestoreStarts
<1>2. VolumeTyped'
  <2>1. a \in Archive
    BY DEF VolumeInv, VolumeTyped
  <2>2. script' \in [op : {"none", "backup", "restore"}, step : 0 .. 4, arc : {Null} \cup Archive]
    BY <1>1, <2>1
  <2>3. db' \in {Null} \cup Volume!Stores /\ secrets' \in {Null} \cup Volume!KeyPairs /\ conf' \in {Null} \cup Nat
    BY <1>1 DEF VolumeInv, VolumeTyped
  <2> QED
    BY <2>2, <2>3 DEF VolumeInv, VolumeTyped, Volume!RestoreStarts
<1>3. Trusting' /\ BackingUp'
  BY <1>1 DEF VolumeInv, VolumeTyped, Trusting, BackingUp, Volume!RestoreStarts
<1>4. Restoring'
  BY <1>1 DEF VolumeInv, VolumeTyped, Trusting, Restoring, Volume!RestoreStarts
<1>5. Sidecar' /\ Credentials' /\ Pinned' /\ Volume!MigrationCanBeUndone'
  BY <1>1 DEF VolumeInv, VolumeTyped, Sidecar, Credentials, Pinned, Volume!MigrationCanBeUndone,
              Volume!RestoreStarts
<1> QED
  BY <1>2, <1>3, <1>4, <1>5 DEF VolumeInv

\* What is copied is the archive's; the store comes without another's sidecar.
LEMMA RestoreCopiesInv == ASSUME Volume!ConstantsOK, VolumeInv, Volume!RestoreCopies PROVE VolumeInv'
<1>1. VolumeTyped'
  BY DEF VolumeInv, VolumeTyped, Restoring, Archive, Volume!Stores, Volume!RestoreCopies,
      Volume!dropSidecars
<1>2. Trusting'
  BY DEF VolumeInv, Trusting, Restoring, Volume!RestoreCopies, Volume!dropSidecars
<1>3. Restoring'
  BY DEF VolumeInv, Restoring, VolumeTyped, Archive, Volume!Stores, Volume!RestoreCopies,
      Volume!dropSidecars
<1>4. Sidecar'
  BY DEF VolumeInv, Sidecar, VolumeTyped, Restoring, Archive, Volume!Stores, Volume!RestoreCopies,
      Volume!dropSidecars
<1>5. BackingUp' /\ Credentials' /\ Pinned' /\ Volume!MigrationCanBeUndone'
  BY DEF VolumeInv, BackingUp, Credentials, Pinned, Volume!MigrationCanBeUndone, Restoring,
      Volume!RestoreCopies, Volume!dropSidecars
<1> QED
  BY <1>1, <1>2, <1>3, <1>4, <1>5 DEF VolumeInv

\* A restore that ends has copied all the archive holds.
LEMMA RestoreEndsInv == ASSUME Volume!ConstantsOK, VolumeInv, Volume!RestoreEnds PROVE VolumeInv'
<1>1. VolumeTyped'
  BY DEF VolumeInv, VolumeTyped, Restoring, Archive, Volume!RestoreEnds, Volume!Idle
<1>2. Trusting'
  BY DEF VolumeInv, Trusting, Restoring, VolumeTyped, Fits, Archive, Volume!RestoreEnds,
      Volume!Idle
<1>3. BackingUp' /\ Restoring' /\ Sidecar' /\ Credentials' /\ Pinned' /\ Volume!MigrationCanBeUndone'
  BY DEF VolumeInv, BackingUp, Restoring, Sidecar, Credentials, Pinned,
      Volume!MigrationCanBeUndone, VolumeTyped, Volume!RestoreEnds, Volume!Idle
<1> QED
  BY <1>1, <1>2, <1>3 DEF VolumeInv

LEMMA ScriptCutInv == ASSUME Volume!ConstantsOK, VolumeInv, Volume!ScriptCut PROVE VolumeInv'
<1>1. VolumeTyped'
  BY DEF VolumeInv, VolumeTyped, Volume!ScriptCut, Volume!Idle
<1>2. Trusting' /\ BackingUp' /\ Restoring' /\ Sidecar' /\ Credentials' /\ Pinned' /\ Volume!MigrationCanBeUndone'
  BY DEF VolumeInv, Trusting, BackingUp, Restoring, Sidecar, Credentials, Pinned,
      Volume!MigrationCanBeUndone, Volume!ScriptCut, Volume!Idle
<1> QED
  BY <1>1, <1>2 DEF VolumeInv

(* Every step. *)

LEMMA VolumeStepInv == ASSUME Volume!ConstantsOK, VolumeInv, [Volume!Next]_(Volume!vars) PROVE VolumeInv'
<1>1. CASE UNCHANGED Volume!vars
  BY <1>1 DEF Volume!vars, VolumeInv, VolumeTyped, Trusting, BackingUp, Restoring, Sidecar,
              Credentials, Pinned, Volume!MigrationCanBeUndone
<1>2. CASE Volume!Next
  BY <1>2, BootInv, MigrateBackedUpInv, MigrateOnlyInv, MigrateFailsInv, SnapshotCutInv, BuildServicesInv,
     KeyPairInv, PublicKeyInv, ListenInv, VenvCheckInv, PipRemovesInv, PipInstallsInv,
     VenvReadyInv, VenvFailsInv, EditInv, EnrolInv, SaveConfInv, TeardownInv, CrashInv,
     ChangeImageInv, LoseVolumeInv, BackupStartsInv, BackupCopiesInv, BackupWritesInv,
     RestoreStartsInv, RestoreCopiesInv, RestoreEndsInv, ScriptCutInv
  DEF Volume!Next
<1> QED
  BY <1>1, <1>2

LEMMA VolumeInvSound == ASSUME Volume!ConstantsOK, VolumeInv PROVE Volume!VolumeSound
BY DEF VolumeInv, VolumeTyped, Trusting, Sidecar, Credentials, Pinned, Fits, Volume!VolumeSound,
       Volume!ClientsTrustServerKey, Volume!NoForeignSidecar, Volume!CredentialsCurrent,
       Volume!ReadyVenvIsPinned

HIDE DEF Volume!volume, Volume!process, Volume!counters

(* ---- one behaviour is about one service ---- *)

LEMMA OwnSteps ==
  ASSUME [Next]_vars
  PROVE  /\ focus' = focus
         /\ focus = "access" => [Access!Next]_(Access!vars)
         /\ focus = "mirror" => [Mirror!Next]_(Mirror!vars)
         /\ focus = "purge" => [Purge!Next]_(Purge!vars)
         /\ focus = "volume" => [Volume!Next]_(Volume!vars)
<1>1. CASE UNCHANGED vars
  BY <1>1 DEF vars, accessOwn, mirrorOwn, purgeOwn, volumeOwn, Access!vars, Mirror!vars,
              Purge!vars, Volume!vars
<1>2. CASE AccessNext
  BY <1>2 DEF AccessNext
<1>3. CASE MirrorNext
  BY <1>3 DEF MirrorNext
<1>4. CASE PurgeNext
  BY <1>4 DEF PurgeNext
<1>5. CASE VolumeNext
  BY <1>5 DEF VolumeNext
<1>6. CASE PushNext \/ TodayNext \/ TelemetryNext \/ TunnelNext \/ DnsNext \/ ProvisionNext
  BY <1>6 DEF PushNext, TodayNext, TelemetryNext, TunnelNext, DnsNext, ProvisionNext
<1> QED
  BY <1>1, <1>2, <1>3, <1>4, <1>5, <1>6 DEF Next

ServicesInv ==
  /\ focus = "access" => AccessInv
  /\ focus = "mirror" => MirrorInv
  /\ focus = "purge" => RetentionInv
  /\ focus = "volume" => VolumeInv

LEMMA ServicesInductive == Spec => []ServicesInv
<1>1. Init => ServicesInv
  BY AccessInitInv, MirrorInitInv, RetentionInitInv, VolumeInitInv, ServicesAssumption DEF Init, ServicesInv
<1>2. ServicesInv /\ [Next]_vars => ServicesInv'
  BY OwnSteps, AccessStepInv, MirrorStepInv, RetentionStepInv, VolumeStepInv,
     ServicesAssumption
  DEF ServicesInv
<1> QED
  BY <1>1, <1>2, PTL DEF Spec

\* With any number of verifications, PIN hashes and requests under way: a key's failures
\* stay within its limit and what was already awaited (FixedWindowRateLimiter), a session
\* serves the person who logged in and for its TTL only (readSession, requirePinSession),
\* a PIN is the last one asked for unless requests for it overlapped (setUserPin), and a
\* token's first revocation is final (revokeIntegrationToken).
THEOREM AccessIsSound == Spec => []AccessSound
<1>1. ServicesInv => AccessSound
  BY DEF ServicesInv, AccessInv, Limited, Named, Followed, Stamped, AccessSound, Access!AccessSound
<1> QED
  BY <1>1, ServicesInductive, PTL

\* For any versions, pins and backoff limits, and a crash at any point of a refresh: a
\* version the sentinel names is wholly stored or gone, unless a crash tore a download
\* that replaced the very file it named (refreshTimekprMirror), and a refresh waits at
\* most the longest delay, and only after a failure since the last success (withRetry,
\* the boot's tick and the cron's being under way at once).
THEOREM MirrorIsSound == Spec => []MirrorSound
<1>1. ServicesInv => MirrorSound
  BY DEF ServicesInv, MirrorInv, MirrorSound, Mirror!MirrorSound
<1> QED
  BY <1>1, ServicesInductive, PTL

\* For any rows, rules and lengths of a day, whatever order edits, runs and runs cut short
\* come in: a row is deleted only when the rule for one record calls it expired, and a
\* run leaves none the rule has called expired for a stored second (purgeExpiredRecords,
\* isExpired); the dry run counts what a run would delete (previewRetentionPurge); and
\* what the window a budget counts in holds is untouched while the rules deleted under
\* are no shorter than it (usageByActivityInWindow, groupSecondsInWindow).
THEOREM RetentionIsSound == Spec => []RetentionSound
<1>1. ServicesInv => RetentionSound
  BY DeletedExpired, ExpiredDeleted, DryRun, WindowsKept
  DEF ServicesInv, RetentionSound, Purge!RetentionSound
<1> QED
  BY <1>1, ServicesInductive, PTL

\* For any releases, any number of snapshots kept, of backups, boots and changes, and a
\* boot, a backup and a restore cut anywhere: the clients enrolled in the store trust the
\* key the server holds (ensureServerSshKeyPair, cmd_backup, cmd_restore); the snapshot of
\* what the last migration found is kept (backUpBeforeMigrate, pruneBackups); no store is
\* opened under another's sidecar (drop_sidecars); the transports run with the key on disk
\* (createPolicyPushTransport); and a venv reported ready is the pinned one (installNeeded).
THEOREM VolumeIsSound == Spec => []VolumeSound
<1>1. ServicesInv => VolumeSound
  BY VolumeInvSound, ServicesAssumption DEF ServicesInv, VolumeSound
<1> QED
  BY <1>1, ServicesInductive, PTL
=============================================================================
